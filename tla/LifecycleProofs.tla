-------------------------- MODULE LifecycleProofs --------------------------
(***************************************************************************)
(* What starts, stops, crashes and failing file operations can never do to *)
(* the files of the server and to its key ring, for any number of starts,  *)
(* any configuration and any files found by the first start.               *)
(***************************************************************************)
EXTENDS Lifecycle, WellFoundedInduction, TLAPS

-----------------------------------------------------------------------------

(***************************************************************************)
(* The inductive invariant.                                                *)
(***************************************************************************)
Process(r) ==
  r \in [pc : {r.pc}, doh : {r.doh}, key : {r.key}, ring : {r.ring},
         signalled : {r.signalled}, wrote : {r.wrote}]

Files(d) == d = [pidfile |-> d.pidfile, key |-> d.key, cert |-> d.cert, tlskey |-> d.tlskey]

Shapes ==
  /\ proc = [p \in Pids |-> proc[p]] /\ \A p \in Pids : Process(proc[p])
  /\ Files(disk)

\* The supervisor starts a server when the last one has ended.
OneAlive == \A p, q \in Pids : Alive(p) /\ Alive(q) => p = q

\* Past NewOnlineSigner.
Loaded == {"doh", "tls", "truncatepid", "writepid", "listen", "serving"}

\* The key on disk is the one in use, and once the zone was served with it no
\* process is about to replace it.
KeyInv ==
  config.dnssec = "disk" =>
    /\ disk.key # NoPid
    /\ published # NoPid => disk.key = published /\ published \notin {Absent, Torn}
    /\ \A p \in Pids :
         /\ At(p, "truncatekey") => disk.key = Absent /\ proc[p].key = p
         /\ At(p, "writekey") => disk.key = Torn /\ proc[p].key = p
         /\ proc[p].pc \in Loaded => proc[p].key = disk.key /\ disk.key \notin {Absent, Torn}
         /\ Serving(p) => published = disk.key

\* The pidfile names a process only from its writePidfile to its end.
PidfileInv ==
  /\ ~config.pidfile => disk.pidfile \notin Pids
  /\ \A p \in Pids :
       /\ At(p, "writepid") => config.pidfile
       /\ proc[p].wrote = TRUE => proc[p].pc \in {"listen", "serving"} /\ disk.pidfile = p
       /\ disk.pidfile = p => proc[p].pc \in {"listen", "serving"} \/ (At(p, "exited") /\ p \in crashed)

\* Both files of the pair, if they are there, are whole and belong together.
PairWhole ==
  /\ Torn \notin {disk.cert, disk.tlskey}
  /\ disk.cert = disk.tlskey \/ Absent \in {disk.cert, disk.tlskey}

\* Where EnsureTLSCert is in writing the pair, as long as no writer was cut short.
PairInv ==
  /\ \A p \in Pids :
       /\ proc[p].pc \in {"unborn", "exited", "auth", "dnssec", "truncatekey", "writekey", "doh"} =>
            proc[p].doh = "off"
  /\ ~torn =>
       /\ (\A p \in Pids : proc[p].doh \notin WritingTLS) => PairWhole
       /\ \A p \in Pids :
            /\ proc[p].doh \in {"truncatetlskey", "writetlskey"} => disk.cert = p
            /\ proc[p].doh \in {"load", "up"} => Absent \notin {disk.cert, disk.tlskey}
            /\ proc[p].doh # "badpair"

\* The key ring of a process that got past the start-up checks.
RingInv ==
  \A p \in Pids : proc[p].pc \notin {"unborn", "exited", "auth"} =>
    /\ proc[p].ring \in buildTSIG(config.tsig) \ {Failed}
    /\ config.required => config.tsig # NoKeys /\ proc[p].ring # NoKeys

LifecycleInv == Shapes /\ OneAlive /\ KeyInv /\ PidfileInv /\ PairInv /\ RingInv

-----------------------------------------------------------------------------

\* Start-up finds the files as FilesAssumption says and no process.
LEMMA InitLifecycleInv == Init => LifecycleInv
<1> SUFFICES ASSUME Init PROVE LifecycleInv
  OBVIOUS
<1> USE LifecycleAssumption, FilesAssumption DEF Init
<1>1. \A p \in Pids : proc[p] = Unborn
  OBVIOUS
<1>2. Shapes /\ OneAlive
  BY <1>1 DEF Shapes, Process, Files, Unborn, OneAlive, Alive
<1>3. KeyInv /\ RingInv
  BY <1>1 DEF KeyInv, RingInv, Loaded, At, Serving, Unborn
<1>4. PidfileInv
  BY <1>1 DEF PidfileInv, At, Unborn
<1>5. PairInv
  BY <1>1 DEF PairInv, PairWhole, WritingTLS, Unborn
<1> QED
  BY <1>2, <1>3, <1>4, <1>5 DEF LifecycleInv

-----------------------------------------------------------------------------

(***************************************************************************)
(* How a step changes the processes: one of them has a new state of the    *)
(* right shape, all others are left alone.                                 *)
(***************************************************************************)
Becomes(p, pc, doh, key, ring, wrote) ==
  /\ proc' = [q \in Pids |-> proc'[q]] /\ \A q \in Pids : Process(proc'[q])
  /\ \A q \in Pids \ {p} : proc'[q] = proc[q]
  /\ proc'[p].pc = pc /\ proc'[p].doh = doh /\ proc'[p].key = key
  /\ proc'[p].ring = ring /\ proc'[p].wrote = wrote

\* A process is given a new state.
LEMMA NewState ==
  ASSUME Shapes, NEW p \in Pids, NEW r, Process(r),
         proc'[p] = r, \A q \in Pids \ {p} : proc'[q] = proc[q], proc' = [q \in Pids |-> proc'[q]]
  PROVE  Becomes(p, r.pc, r.doh, r.key, r.ring, r.wrote)
<1>1. \A q \in Pids : Process(proc'[q])
  BY DEF Shapes
<1> QED
  BY <1>1 DEF Becomes

(***************************************************************************)
(* The new state of process p, form by form.                               *)
(***************************************************************************)

\* Go.
LEMMA Going ==
  ASSUME Shapes, NEW p \in Pids, NEW pc,
         Go(p, pc)
  PROVE  Becomes(p, pc, proc[p].doh, proc[p].key, proc[p].ring, proc[p].wrote)
<1> DEFINE r == [proc[p] EXCEPT !.pc = pc]
<1>1. Process(proc[p]) /\ proc = [q \in Pids |-> proc[q]]
  BY DEF Shapes
<1>2. /\ Process(r) /\ r.pc = pc /\ r.doh = proc[p].doh /\ r.key = proc[p].key
      /\ r.ring = proc[p].ring /\ r.wrote = proc[p].wrote
  BY <1>1 DEF Process
<1>3. /\ proc'[p] = r /\ \A q \in Pids \ {p} : proc'[q] = proc[q]
      /\ proc' = [q \in Pids |-> proc'[q]]
  BY <1>1 DEF Go
<1> QED
  BY <1>2, <1>3, NewState DEF Becomes

\* Exit.
LEMMA Exiting ==
  ASSUME Shapes, NEW p \in Pids,
         Exit(p)
  PROVE  Becomes(p, "exited", "off", NoPid, NoKeys, FALSE)
<1> DEFINE r == [Unborn EXCEPT !.pc = "exited"]
<1>1. Process(proc[p]) /\ proc = [q \in Pids |-> proc[q]]
  BY DEF Shapes
<1>2. /\ Process(r) /\ r.pc = "exited" /\ r.doh = "off" /\ r.key = NoPid
      /\ r.ring = NoKeys /\ r.wrote = FALSE
  BY <1>1 DEF Process, Unborn
<1>3. /\ proc'[p] = r /\ \A q \in Pids \ {p} : proc'[q] = proc[q]
      /\ proc' = [q \in Pids |-> proc'[q]]
  BY <1>1 DEF Exit
<1> QED
  BY <1>2, <1>3, NewState DEF Becomes

\* DoH.
LEMMA DoHMoves ==
  ASSUME Shapes, NEW p \in Pids, NEW doh,
         DoH(p, doh)
  PROVE  Becomes(p, proc[p].pc, doh, proc[p].key, proc[p].ring, proc[p].wrote)
<1> DEFINE r == [proc[p] EXCEPT !.doh = doh]
<1>1. Process(proc[p]) /\ proc = [q \in Pids |-> proc[q]]
  BY DEF Shapes
<1>2. /\ Process(r) /\ r.pc = proc[p].pc /\ r.doh = doh /\ r.key = proc[p].key
      /\ r.ring = proc[p].ring /\ r.wrote = proc[p].wrote
  BY <1>1 DEF Process
<1>3. /\ proc'[p] = r /\ \A q \in Pids \ {p} : proc'[q] = proc[q]
      /\ proc' = [q \in Pids |-> proc'[q]]
  BY <1>1 DEF DoH
<1> QED
  BY <1>2, <1>3, NewState DEF Becomes

\* A process that has loaded its key ring.
LEMMA GoingWithRing ==
  ASSUME Shapes, NEW p \in Pids, NEW pc, NEW ring,
         proc' = [proc EXCEPT ![p].pc = pc, ![p].ring = ring]
  PROVE  Becomes(p, pc, proc[p].doh, proc[p].key, ring, proc[p].wrote)
<1> DEFINE r == [proc[p] EXCEPT !.pc = pc, !.ring = ring]
<1>1. Process(proc[p]) /\ proc = [q \in Pids |-> proc[q]]
  BY DEF Shapes
<1>2. /\ Process(r) /\ r.pc = pc /\ r.doh = proc[p].doh /\ r.key = proc[p].key
      /\ r.ring = ring /\ r.wrote = proc[p].wrote
  BY <1>1 DEF Process
<1>3. /\ proc'[p] = r /\ \A q \in Pids \ {p} : proc'[q] = proc[q]
      /\ proc' = [q \in Pids |-> proc'[q]]
  BY <1>1
<1> QED
  BY <1>2, <1>3, NewState DEF Becomes

\* A process that has its DNSSEC key.
LEMMA GoingWithKey ==
  ASSUME Shapes, NEW p \in Pids, NEW pc, NEW key,
         proc' = [proc EXCEPT ![p].pc = pc, ![p].key = key]
  PROVE  Becomes(p, pc, proc[p].doh, key, proc[p].ring, proc[p].wrote)
<1> DEFINE r == [proc[p] EXCEPT !.pc = pc, !.key = key]
<1>1. Process(proc[p]) /\ proc = [q \in Pids |-> proc[q]]
  BY DEF Shapes
<1>2. /\ Process(r) /\ r.pc = pc /\ r.doh = proc[p].doh /\ r.key = key
      /\ r.ring = proc[p].ring /\ r.wrote = proc[p].wrote
  BY <1>1 DEF Process
<1>3. /\ proc'[p] = r /\ \A q \in Pids \ {p} : proc'[q] = proc[q]
      /\ proc' = [q \in Pids |-> proc'[q]]
  BY <1>1
<1> QED
  BY <1>2, <1>3, NewState DEF Becomes

\* A process whose sidecar moves with it.
LEMMA GoingWithDoH ==
  ASSUME Shapes, NEW p \in Pids, NEW pc, NEW doh,
         proc' = [proc EXCEPT ![p].pc = pc, ![p].doh = doh]
  PROVE  Becomes(p, pc, doh, proc[p].key, proc[p].ring, proc[p].wrote)
<1> DEFINE r == [proc[p] EXCEPT !.pc = pc, !.doh = doh]
<1>1. Process(proc[p]) /\ proc = [q \in Pids |-> proc[q]]
  BY DEF Shapes
<1>2. /\ Process(r) /\ r.pc = pc /\ r.doh = doh /\ r.key = proc[p].key
      /\ r.ring = proc[p].ring /\ r.wrote = proc[p].wrote
  BY <1>1 DEF Process
<1>3. /\ proc'[p] = r /\ \A q \in Pids \ {p} : proc'[q] = proc[q]
      /\ proc' = [q \in Pids |-> proc'[q]]
  BY <1>1
<1> QED
  BY <1>2, <1>3, NewState DEF Becomes

\* A process that has written its pidfile.
LEMMA GoingWritten ==
  ASSUME Shapes, NEW p \in Pids, NEW pc,
         proc' = [proc EXCEPT ![p].pc = pc, ![p].wrote = TRUE]
  PROVE  Becomes(p, pc, proc[p].doh, proc[p].key, proc[p].ring, TRUE)
<1> DEFINE r == [proc[p] EXCEPT !.pc = pc, !.wrote = TRUE]
<1>1. Process(proc[p]) /\ proc = [q \in Pids |-> proc[q]]
  BY DEF Shapes
<1>2. /\ Process(r) /\ r.pc = pc /\ r.doh = proc[p].doh /\ r.key = proc[p].key
      /\ r.ring = proc[p].ring /\ r.wrote = TRUE
  BY <1>1 DEF Process
<1>3. /\ proc'[p] = r /\ \A q \in Pids \ {p} : proc'[q] = proc[q]
      /\ proc' = [q \in Pids |-> proc'[q]]
  BY <1>1
<1> QED
  BY <1>2, <1>3, NewState DEF Becomes

\* A process that is signalled.
LEMMA Signalled ==
  ASSUME Shapes, NEW p \in Pids,
         proc' = [proc EXCEPT ![p].signalled = TRUE]
  PROVE  Becomes(p, proc[p].pc, proc[p].doh, proc[p].key, proc[p].ring, proc[p].wrote)
<1> DEFINE r == [proc[p] EXCEPT !.signalled = TRUE]
<1>1. Process(proc[p]) /\ proc = [q \in Pids |-> proc[q]]
  BY DEF Shapes
<1>2. /\ Process(r) /\ r.pc = proc[p].pc /\ r.doh = proc[p].doh /\ r.key = proc[p].key
      /\ r.ring = proc[p].ring /\ r.wrote = proc[p].wrote
  BY <1>1 DEF Process
<1>3. /\ proc'[p] = r /\ \A q \in Pids \ {p} : proc'[q] = proc[q]
      /\ proc' = [q \in Pids |-> proc'[q]]
  BY <1>1
<1> QED
  BY <1>2, <1>3, NewState DEF Becomes

-----------------------------------------------------------------------------

(***************************************************************************)
(* The invariant, action by action.                                        *)
(***************************************************************************)

\* A step of the process that is alive, or of the first one when none is, keeps the
\* shapes, and there is still one process at most.
LEMMA ShapesKept ==
  ASSUME LifecycleInv, NEW p \in Pids, Alive(p) \/ \A q \in Pids : ~Alive(q), Files(disk'),
         NEW pc, NEW doh, NEW key, NEW ring, NEW wrote, Becomes(p, pc, doh, key, ring, wrote)
  PROVE  Shapes' /\ OneAlive'
<1>1. Shapes'
  BY DEF Shapes, Becomes
<1>2. OneAlive'
  BY DEF LifecycleInv, OneAlive, Alive, Becomes
<1> QED
  BY <1>1, <1>2

\* However process p ends, the invariant is preserved if a pidfile that names it is
\* gone or p crashed, and a TLS file it was writing is noted.
LEMMA ExitInv ==
  ASSUME LifecycleInv, NEW p \in Pids, Alive(p), Exit(p),
         disk' = disk \/ disk' = RemovedPidfile,
         disk'.pidfile = p => p \in crashed', crashed \subseteq crashed',
         ~torn' => ~torn /\ proc[p].doh \notin WritingTLS,
         UNCHANGED <<config, published>>
  PROVE  LifecycleInv'
<1> USE FilesAssumption
<1>1. /\ Shapes /\ OneAlive /\ KeyInv /\ PidfileInv /\ PairInv /\ RingInv
  BY DEF LifecycleInv
<1>2. Becomes(p, "exited", "off", NoPid, NoKeys, FALSE)
  BY <1>1, Exiting
<1>3. /\ Files(disk') /\ disk'.key = disk.key /\ disk'.cert = disk.cert
      /\ disk'.tlskey = disk.tlskey /\ disk'.pidfile \in {disk.pidfile, Absent}
  BY <1>1 DEF RemovedPidfile, Shapes, Files
<1>4. Shapes' /\ OneAlive'
  BY <1>2, <1>3, ShapesKept
<1>5. KeyInv'
  BY <1>1, <1>2, <1>3 DEF KeyInv, Becomes, Loaded, At, Serving
<1>6. PidfileInv'
  BY <1>1, <1>2, <1>3 DEF PidfileInv, Becomes, At, OneAlive, Alive
<1>7. PairInv'
  BY <1>1, <1>2, <1>3 DEF PairInv, PairWhole, Becomes, WritingTLS
<1>8. RingInv'
  BY <1>1, <1>2 DEF RingInv, Becomes
<1> QED
  BY <1>4, <1>5, <1>6, <1>7, <1>8 DEF LifecycleInv

\* A new process knows nothing yet.
LEMMA LaunchInv ==
  ASSUME LifecycleInv, NEW p \in Pids, Launch(p)
  PROVE  LifecycleInv'
<1> USE FilesAssumption
<1>1. /\ Shapes /\ OneAlive /\ KeyInv /\ PidfileInv /\ PairInv /\ RingInv
  BY DEF LifecycleInv
<1>2. Becomes(p, "auth", proc[p].doh, proc[p].key, proc[p].ring, proc[p].wrote)
  BY <1>1, Going DEF Launch
<1>3. /\ At(p, "unborn") /\ (\A q \in Pids : ~Alive(q)) /\ Files(disk')
      /\ UNCHANGED <<config, disk, published, crashed, torn>>
  BY <1>1 DEF Launch, Shapes, Files
<1>4. Shapes' /\ OneAlive'
  BY <1>2, <1>3, ShapesKept DEF Alive, At
<1>5. KeyInv'
  BY <1>1, <1>2, <1>3 DEF KeyInv, Becomes, Loaded, At, Serving, OneAlive, Alive
<1>6. PidfileInv'
  BY <1>1, <1>2, <1>3 DEF PidfileInv, Becomes, At, OneAlive, Alive
<1>7. PairInv'
  BY <1>1, <1>2, <1>3 DEF PairInv, PairWhole, Becomes, WritingTLS, OneAlive, Alive, At
<1>8. RingInv'
  BY <1>1, <1>2, <1>3 DEF RingInv, Becomes, At
<1> QED
  BY <1>4, <1>5, <1>6, <1>7, <1>8 DEF LifecycleInv

\* The start of the sidecar leaves the files alone.
LEMMA StartDoHInv ==
  ASSUME LifecycleInv, NEW p \in Pids, StartDoH(p)
  PROVE  LifecycleInv'
<1> USE FilesAssumption
<1>1. /\ Shapes /\ OneAlive /\ KeyInv /\ PidfileInv /\ PairInv /\ RingInv
  BY DEF LifecycleInv
<1>2. Becomes(p, IF config.doh = "builtin" THEN "tls" ELSE "truncatepid",
               IF config.doh = "off" THEN "off" ELSE "ensure",
               proc[p].key, proc[p].ring, proc[p].wrote)
  BY <1>1, GoingWithDoH DEF StartDoH
<1>3. /\ At(p, "doh") /\ Files(disk')
      /\ UNCHANGED <<config, disk, published, crashed, torn>>
  BY <1>1 DEF StartDoH, Shapes, Files
<1>4. Shapes' /\ OneAlive'
  BY <1>2, <1>3, ShapesKept DEF Alive, At
<1>5. KeyInv'
  BY <1>1, <1>2, <1>3 DEF KeyInv, Becomes, Loaded, At, Serving, OneAlive, Alive
<1>6. PidfileInv'
  BY <1>1, <1>2, <1>3 DEF PidfileInv, Becomes, At, OneAlive, Alive
<1>7. PairInv'
  BY <1>1, <1>2, <1>3 DEF PairInv, PairWhole, Becomes, WritingTLS, OneAlive, Alive, At
<1>8. RingInv'
  BY <1>1, <1>2, <1>3 DEF RingInv, Becomes, At
<1> QED
  BY <1>4, <1>5, <1>6, <1>7, <1>8 DEF LifecycleInv

\* The first server to listen publishes its key, later ones have the same.
LEMMA ListenInv ==
  ASSUME LifecycleInv, NEW p \in Pids, Listen(p)
  PROVE  LifecycleInv'
<1> USE FilesAssumption
<1>1. /\ Shapes /\ OneAlive /\ KeyInv /\ PidfileInv /\ PairInv /\ RingInv
  BY DEF LifecycleInv
<1>2. Becomes(p, "serving", proc[p].doh, proc[p].key, proc[p].ring, proc[p].wrote)
  BY <1>1, Going DEF Listen
<1>3. /\ At(p, "listen") /\ Files(disk') /\ UNCHANGED <<config, disk, crashed, torn>>
      /\ config.dnssec = "disk" =>
           published' = IF published = NoPid THEN proc[p].key ELSE published
  BY <1>1 DEF Listen, Shapes, Files
<1>4. Shapes' /\ OneAlive'
  BY <1>2, <1>3, ShapesKept DEF Alive, At
<1>5. KeyInv'
  BY <1>1, <1>2, <1>3 DEF KeyInv, Becomes, Loaded, At, Serving, OneAlive, Alive
<1>6. PidfileInv'
  BY <1>1, <1>2, <1>3 DEF PidfileInv, Becomes, At, OneAlive, Alive
<1>7. PairInv'
  BY <1>1, <1>2, <1>3 DEF PairInv, PairWhole, Becomes, WritingTLS, OneAlive, Alive, At
<1>8. RingInv'
  BY <1>1, <1>2, <1>3 DEF RingInv, Becomes, At
<1> QED
  BY <1>4, <1>5, <1>6, <1>7, <1>8 DEF LifecycleInv

\* A signal changes nothing that the invariant is about.
LEMMA InterruptInv ==
  ASSUME LifecycleInv, NEW p \in Pids, Interrupt(p)
  PROVE  LifecycleInv'
<1> USE FilesAssumption
<1>1. /\ Shapes /\ OneAlive /\ KeyInv /\ PidfileInv /\ PairInv /\ RingInv
  BY DEF LifecycleInv
<1>2. Becomes(p, proc[p].pc, proc[p].doh, proc[p].key, proc[p].ring, proc[p].wrote)
  BY <1>1, Signalled DEF Interrupt
<1>3. /\ Alive(p) /\ Files(disk') /\ UNCHANGED <<config, disk, published, crashed, torn>>
  BY <1>1 DEF Interrupt, Catching, Alive, Shapes, Files
<1>4. Shapes' /\ OneAlive'
  BY <1>2, <1>3, ShapesKept DEF Alive, At
<1>5. KeyInv'
  BY <1>1, <1>2, <1>3 DEF KeyInv, Becomes, Loaded, At, Serving, OneAlive, Alive
<1>6. PidfileInv'
  BY <1>1, <1>2, <1>3 DEF PidfileInv, Becomes, At, OneAlive, Alive
<1>7. PairInv'
  BY <1>1, <1>2, <1>3 DEF PairInv, PairWhole, Becomes, WritingTLS, OneAlive, Alive, At
<1>8. RingInv'
  BY <1>1, <1>2, <1>3 DEF RingInv, Becomes, At
<1> QED
  BY <1>4, <1>5, <1>6, <1>7, <1>8 DEF LifecycleInv

\* The key ring is a provider of the configured keys, or the process ends.
LEMMA LoadAuthInv ==
  ASSUME LifecycleInv, NEW p \in Pids, LoadAuth(p)
  PROVE  LifecycleInv'
<1> USE FilesAssumption
<1>1. /\ Shapes /\ OneAlive /\ KeyInv /\ PidfileInv /\ PairInv /\ RingInv
  BY DEF LifecycleInv
<1>2. CASE Exit(p)
  <2>1. /\ Alive(p) /\ disk' = disk /\ UNCHANGED <<config, published, crashed, torn>>
        /\ proc[p].pc = "auth"
    BY <1>2 DEF LoadAuth, Alive, At
  <2>2. disk.pidfile # p /\ proc[p].doh \notin WritingTLS
    BY <1>1, <2>1 DEF PidfileInv, PairInv, WritingTLS, At
  <2> QED
    BY <1>2, <2>1, <2>2, ExitInv
<1>3. CASE ~Exit(p)
  <2>1. PICK ring \in buildTSIG(config.tsig) :
          /\ AuthUsable /\ ring # Failed /\ ~(config.required /\ ring = NoKeys)
          /\ proc' = [proc EXCEPT ![p].pc = "dnssec", ![p].ring = ring]
    BY <1>3 DEF LoadAuth
  <2>2. Becomes(p, "dnssec", proc[p].doh, proc[p].key, ring, proc[p].wrote)
    BY <1>1, <2>1, GoingWithRing
  <2>3. /\ At(p, "auth") /\ Files(disk') /\ UNCHANGED <<config, disk, published, crashed, torn>>
    BY <1>1 DEF LoadAuth, Shapes
  <2>4. Shapes' /\ OneAlive'
    BY <2>2, <2>3, ShapesKept DEF Alive, At
  <2>5. KeyInv'
    BY <1>1, <2>2, <2>3 DEF KeyInv, Becomes, Loaded, At, Serving, OneAlive, Alive
  <2>6. PidfileInv'
    BY <1>1, <2>2, <2>3 DEF PidfileInv, Becomes, At, OneAlive, Alive
  <2>7. PairInv'
    BY <1>1, <2>2, <2>3 DEF PairInv, PairWhole, Becomes, WritingTLS, OneAlive, Alive, At
  <2>8. RingInv'
    BY <1>1, <2>1, <2>2, <2>3, ZenonT(60) DEF AuthUsable, RingInv, Becomes, At
  <2> QED
    BY <2>4, <2>5, <2>6, <2>7, <2>8 DEF LifecycleInv
<1> QED
  BY <1>2, <1>3

\* A process leaves NewOnlineSigner with the key on disk, or goes to make the first one.
LEMMA LoadKeyInv ==
  ASSUME LifecycleInv, NEW p \in Pids, LoadKey(p)
  PROVE  LifecycleInv'
<1> USE FilesAssumption
<1>1. /\ Shapes /\ OneAlive /\ KeyInv /\ PidfileInv /\ PairInv /\ RingInv
  BY DEF LifecycleInv
<1>2. CASE Exit(p)
  <2>1. /\ Alive(p) /\ disk' = disk /\ UNCHANGED <<config, published, crashed, torn>>
        /\ proc[p].pc = "dnssec"
    BY <1>2 DEF LoadKey, Alive, At
  <2>2. disk.pidfile # p /\ proc[p].doh \notin WritingTLS
    BY <1>1, <2>1 DEF PidfileInv, PairInv, WritingTLS, At
  <2> QED
    BY <1>2, <2>1, <2>2, ExitInv
<1>3. CASE config.dnssec # "disk" /\ Go(p, "doh")
  <2>2. Becomes(p, "doh", proc[p].doh, proc[p].key, proc[p].ring, proc[p].wrote)
    BY <1>1, <1>3, Going
  <2>3. /\ At(p, "dnssec") /\ Files(disk') /\ UNCHANGED <<config, disk, published, crashed, torn>>
    BY <1>1, <1>3 DEF LoadKey, Shapes, Files
  <2>4. Shapes' /\ OneAlive'
    BY <2>2, <2>3, ShapesKept DEF Alive, At
  <2>5. KeyInv'
    BY <1>1, <1>3, <2>2, <2>3 DEF KeyInv, Becomes, Loaded, At, Serving, OneAlive, Alive
  <2>6. PidfileInv'
    BY <1>1, <2>2, <2>3 DEF PidfileInv, Becomes, At, OneAlive, Alive
  <2>7. PairInv'
    BY <1>1, <2>2, <2>3 DEF PairInv, PairWhole, Becomes, WritingTLS, OneAlive, Alive, At
  <2>8. RingInv'
    BY <1>1, <2>2, <2>3 DEF RingInv, Becomes, At
  <2> QED
    BY <2>4, <2>5, <2>6, <2>7, <2>8 DEF LifecycleInv
<1>4. CASE config.dnssec # "disk" /\ proc' = [proc EXCEPT ![p].pc = "doh", ![p].key = p]
  <2>2. Becomes(p, "doh", proc[p].doh, p, proc[p].ring, proc[p].wrote)
    BY <1>1, <1>4, GoingWithKey
  <2>3. /\ At(p, "dnssec") /\ Files(disk') /\ UNCHANGED <<config, disk, published, crashed, torn>>
    BY <1>1, <1>4 DEF LoadKey, Shapes, Files
  <2>4. Shapes' /\ OneAlive'
    BY <2>2, <2>3, ShapesKept DEF Alive, At
  <2>5. KeyInv'
    BY <1>1, <1>4, <2>2, <2>3 DEF KeyInv, Becomes, Loaded, At, Serving, OneAlive, Alive
  <2>6. PidfileInv'
    BY <1>1, <2>2, <2>3 DEF PidfileInv, Becomes, At, OneAlive, Alive
  <2>7. PairInv'
    BY <1>1, <2>2, <2>3 DEF PairInv, PairWhole, Becomes, WritingTLS, OneAlive, Alive, At
  <2>8. RingInv'
    BY <1>1, <2>2, <2>3 DEF RingInv, Becomes, At
  <2> QED
    BY <2>4, <2>5, <2>6, <2>7, <2>8 DEF LifecycleInv
<1>5. CASE disk.key \notin {Absent, Torn} /\ proc' = [proc EXCEPT ![p].pc = "doh", ![p].key = disk.key]
  <2>2. Becomes(p, "doh", proc[p].doh, disk.key, proc[p].ring, proc[p].wrote)
    BY <1>1, <1>5, GoingWithKey
  <2>3. /\ At(p, "dnssec") /\ Files(disk') /\ UNCHANGED <<config, disk, published, crashed, torn>>
        /\ disk.key \notin {Absent, Torn}
    BY <1>1, <1>5 DEF LoadKey, Shapes, Files
  <2>4. Shapes' /\ OneAlive'
    BY <2>2, <2>3, ShapesKept DEF Alive, At
  <2>5. KeyInv'
    BY <1>1, <2>2, <2>3 DEF KeyInv, Becomes, Loaded, At, Serving, OneAlive, Alive
  <2>6. PidfileInv'
    BY <1>1, <2>2, <2>3 DEF PidfileInv, Becomes, At, OneAlive, Alive
  <2>7. PairInv'
    BY <1>1, <2>2, <2>3 DEF PairInv, PairWhole, Becomes, WritingTLS, OneAlive, Alive, At
  <2>8. RingInv'
    BY <1>1, <2>2, <2>3 DEF RingInv, Becomes, At
  <2> QED
    BY <2>4, <2>5, <2>6, <2>7, <2>8 DEF LifecycleInv
<1>6. CASE disk.key = Absent /\ proc' = [proc EXCEPT ![p].pc = "truncatekey", ![p].key = p]
  <2>2. Becomes(p, "truncatekey", proc[p].doh, p, proc[p].ring, proc[p].wrote)
    BY <1>1, <1>6, GoingWithKey
  <2>3. /\ At(p, "dnssec") /\ Files(disk') /\ UNCHANGED <<config, disk, published, crashed, torn>>
        /\ disk.key = Absent
    BY <1>1, <1>6 DEF LoadKey, Shapes, Files
  <2>4. Shapes' /\ OneAlive'
    BY <2>2, <2>3, ShapesKept DEF Alive, At
  <2>5. KeyInv'
    BY <1>1, <2>2, <2>3 DEF KeyInv, Becomes, Loaded, At, Serving, OneAlive, Alive
  <2>6. PidfileInv'
    BY <1>1, <2>2, <2>3 DEF PidfileInv, Becomes, At, OneAlive, Alive
  <2>7. PairInv'
    BY <1>1, <2>2, <2>3 DEF PairInv, PairWhole, Becomes, WritingTLS, OneAlive, Alive, At
  <2>8. RingInv'
    BY <1>1, <2>2, <2>3 DEF RingInv, Becomes, At
  <2> QED
    BY <2>4, <2>5, <2>6, <2>7, <2>8 DEF LifecycleInv
<1> QED
  BY <1>2, <1>3, <1>4, <1>5, <1>6 DEF LoadKey

\* savePEM truncates a key file only when there was none, or the process ends.
LEMMA TruncateKeyInv ==
  ASSUME LifecycleInv, NEW p \in Pids, TruncateKey(p)
  PROVE  LifecycleInv'
<1> USE FilesAssumption
<1>1. /\ Shapes /\ OneAlive /\ KeyInv /\ PidfileInv /\ PairInv /\ RingInv
  BY DEF LifecycleInv
<1>2. CASE Exit(p) /\ disk' = disk
  <2>1. /\ Alive(p) /\ disk' = disk /\ UNCHANGED <<config, published, crashed, torn>>
        /\ proc[p].pc = "truncatekey"
    BY <1>2 DEF TruncateKey, Alive, At
  <2>2. disk.pidfile # p /\ proc[p].doh \notin WritingTLS
    BY <1>1, <2>1 DEF PidfileInv, PairInv, WritingTLS, At
  <2> QED
    BY <1>2, <2>1, <2>2, ExitInv
<1>3. CASE disk' = [disk EXCEPT !.key = Torn] /\ Go(p, "writekey")
  <2>2. Becomes(p, "writekey", proc[p].doh, proc[p].key, proc[p].ring, proc[p].wrote)
    BY <1>1, <1>3, Going
  <2>3. /\ At(p, "truncatekey") /\ UNCHANGED <<config, published, crashed, torn>>
        /\ Files(disk') /\ disk'.key = Torn /\ disk'.pidfile = disk.pidfile
        /\ disk'.cert = disk.cert /\ disk'.tlskey = disk.tlskey
    BY <1>1, <1>3 DEF TruncateKey, Shapes, Files
  <2>4. Shapes' /\ OneAlive'
    BY <2>2, <2>3, ShapesKept DEF Alive, At
  <2>5. KeyInv'
    BY <1>1, <2>2, <2>3 DEF KeyInv, Becomes, Loaded, At, Serving, OneAlive, Alive
  <2>6. PidfileInv'
    BY <1>1, <2>2, <2>3 DEF PidfileInv, Becomes, At, OneAlive, Alive
  <2>7. PairInv'
    BY <1>1, <2>2, <2>3 DEF PairInv, PairWhole, Becomes, WritingTLS, OneAlive, Alive, At
  <2>8. RingInv'
    BY <1>1, <2>2, <2>3 DEF RingInv, Becomes, At
  <2> QED
    BY <2>4, <2>5, <2>6, <2>7, <2>8 DEF LifecycleInv
<1> QED
  BY <1>2, <1>3 DEF TruncateKey

\* savePEM writes the key the process has, or the process ends.
LEMMA WriteKeyInv ==
  ASSUME LifecycleInv, NEW p \in Pids, WriteKey(p)
  PROVE  LifecycleInv'
<1> USE FilesAssumption
<1>1. /\ Shapes /\ OneAlive /\ KeyInv /\ PidfileInv /\ PairInv /\ RingInv
  BY DEF LifecycleInv
<1>2. CASE Exit(p) /\ disk' = disk
  <2>1. /\ Alive(p) /\ disk' = disk /\ UNCHANGED <<config, published, crashed, torn>>
        /\ proc[p].pc = "writekey"
    BY <1>2 DEF WriteKey, Alive, At
  <2>2. disk.pidfile # p /\ proc[p].doh \notin WritingTLS
    BY <1>1, <2>1 DEF PidfileInv, PairInv, WritingTLS, At
  <2> QED
    BY <1>2, <2>1, <2>2, ExitInv
<1>3. CASE disk' = [disk EXCEPT !.key = proc[p].key] /\ Go(p, "doh")
  <2>2. Becomes(p, "doh", proc[p].doh, proc[p].key, proc[p].ring, proc[p].wrote)
    BY <1>1, <1>3, Going
  <2>3. /\ At(p, "writekey") /\ UNCHANGED <<config, published, crashed, torn>>
        /\ Files(disk') /\ disk'.key = proc[p].key /\ disk'.pidfile = disk.pidfile
        /\ disk'.cert = disk.cert /\ disk'.tlskey = disk.tlskey
    BY <1>1, <1>3 DEF WriteKey, Shapes, Files
  <2>4. Shapes' /\ OneAlive'
    BY <2>2, <2>3, ShapesKept DEF Alive, At
  <2>5. KeyInv'
    BY <1>1, LifecycleAssumption, <2>2, <2>3 DEF KeyInv, Becomes, Loaded, At, Serving, OneAlive, Alive
  <2>6. PidfileInv'
    BY <1>1, <2>2, <2>3 DEF PidfileInv, Becomes, At, OneAlive, Alive
  <2>7. PairInv'
    BY <1>1, <2>2, <2>3 DEF PairInv, PairWhole, Becomes, WritingTLS, OneAlive, Alive, At
  <2>8. RingInv'
    BY <1>1, <2>2, <2>3 DEF RingInv, Becomes, At
  <2> QED
    BY <2>4, <2>5, <2>6, <2>7, <2>8 DEF LifecycleInv
<1> QED
  BY <1>2, <1>3 DEF WriteKey

\* EnsureTLSCert is content with two files, which then belong together.
LEMMA EnsureTLSCertInv ==
  ASSUME LifecycleInv, NEW p \in Pids, EnsureTLSCert(p)
  PROVE  LifecycleInv'
<1> USE FilesAssumption
<1>1. /\ Shapes /\ OneAlive /\ KeyInv /\ PidfileInv /\ PairInv /\ RingInv
  BY DEF LifecycleInv
<1>2. CASE Ensured(p) /\ At(p, "tls")
  <2>2. Becomes(p, "truncatepid", "ensure", proc[p].key, proc[p].ring, proc[p].wrote)
    BY <1>1, <1>2, GoingWithDoH DEF Ensured
  <2>3. /\ Alive(p) /\ proc[p].doh = "ensure" /\ Files(disk')
        /\ UNCHANGED <<config, disk, published, crashed, torn>> /\ At(p, "tls")
    BY <1>1, <1>2 DEF EnsureTLSCert, Shapes, Files
  <2>4. Shapes' /\ OneAlive'
    BY <2>2, <2>3, ShapesKept DEF Alive, At
  <2>5. KeyInv'
    BY <1>1, <2>2, <2>3 DEF KeyInv, Becomes, Loaded, At, Serving, OneAlive, Alive
  <2>6. PidfileInv'
    BY <1>1, <2>2, <2>3 DEF PidfileInv, Becomes, At, OneAlive, Alive
  <2>7. PairInv'
    BY <1>1, <2>2, <2>3 DEF PairInv, PairWhole, Becomes, WritingTLS, OneAlive, Alive, At
  <2>8. RingInv'
    BY <1>1, <2>2, <2>3 DEF RingInv, Becomes, At
  <2> QED
    BY <2>4, <2>5, <2>6, <2>7, <2>8 DEF LifecycleInv
<1>3. CASE DoH(p, "load") /\ Absent \notin {disk.cert, disk.tlskey}
  <2>2. Becomes(p, proc[p].pc, "load", proc[p].key, proc[p].ring, proc[p].wrote)
    BY <1>1, <1>3, DoHMoves
  <2>3. /\ Alive(p) /\ proc[p].doh = "ensure" /\ Files(disk')
        /\ UNCHANGED <<config, disk, published, crashed, torn>>
        /\ Absent \notin {disk.cert, disk.tlskey}
    BY <1>1, <1>3 DEF EnsureTLSCert, Shapes, Files
  <2>4. Shapes' /\ OneAlive'
    BY <2>2, <2>3, ShapesKept DEF Alive, At
  <2>5. KeyInv'
    BY <1>1, <2>2, <2>3 DEF KeyInv, Becomes, Loaded, At, Serving, OneAlive, Alive
  <2>6. PidfileInv'
    BY <1>1, <2>2, <2>3 DEF PidfileInv, Becomes, At, OneAlive, Alive
  <2>7. PairInv'
    BY <1>1, <2>2, <2>3 DEF PairInv, PairWhole, Becomes, WritingTLS, OneAlive, Alive, At
  <2>8. RingInv'
    BY <1>1, <2>2, <2>3 DEF RingInv, Becomes, At
  <2> QED
    BY <2>4, <2>5, <2>6, <2>7, <2>8 DEF LifecycleInv
<1>4. CASE DoH(p, "truncatecert")
  <2>2. Becomes(p, proc[p].pc, "truncatecert", proc[p].key, proc[p].ring, proc[p].wrote)
    BY <1>1, <1>4, DoHMoves
  <2>3. /\ Alive(p) /\ proc[p].doh = "ensure" /\ Files(disk')
        /\ UNCHANGED <<config, disk, published, crashed, torn>>
    BY <1>1, <1>4 DEF EnsureTLSCert, Shapes, Files
  <2>4. Shapes' /\ OneAlive'
    BY <2>2, <2>3, ShapesKept DEF Alive, At
  <2>5. KeyInv'
    BY <1>1, <2>2, <2>3 DEF KeyInv, Becomes, Loaded, At, Serving, OneAlive, Alive
  <2>6. PidfileInv'
    BY <1>1, <2>2, <2>3 DEF PidfileInv, Becomes, At, OneAlive, Alive
  <2>7. PairInv'
    BY <1>1, <2>2, <2>3 DEF PairInv, PairWhole, Becomes, WritingTLS, OneAlive, Alive, At
  <2>8. RingInv'
    BY <1>1, <2>2, <2>3 DEF RingInv, Becomes, At
  <2> QED
    BY <2>4, <2>5, <2>6, <2>7, <2>8 DEF LifecycleInv
<1> QED
  BY <1>2, <1>3, <1>4 DEF EnsureTLSCert, Ensured

\* The pair reaches the disk in four steps, and belongs together after the last.
LEMMA WriteTLSInv ==
  ASSUME LifecycleInv, NEW p \in Pids, WriteTLS(p)
  PROVE  LifecycleInv'
<1> USE FilesAssumption
<1>1. /\ Shapes /\ OneAlive /\ KeyInv /\ PidfileInv /\ PairInv /\ RingInv
  BY DEF LifecycleInv
<1>2. CASE proc[p].doh = "truncatecert" /\ DoH(p, "writecert")
  <2>2. Becomes(p, proc[p].pc, "writecert", proc[p].key, proc[p].ring, proc[p].wrote)
    BY <1>1, <1>2, DoHMoves
  <2>3. /\ Alive(p) /\ proc[p].doh = "truncatecert" /\ UNCHANGED <<config, published, crashed, torn>>
        /\ Files(disk') /\ disk'.key = disk.key /\ disk'.pidfile = disk.pidfile
        /\ disk'.cert = Torn /\ disk'.tlskey = disk.tlskey
    BY <1>1, <1>2 DEF WriteTLS, Shapes, Files
  <2>4. Shapes' /\ OneAlive'
    BY <2>2, <2>3, ShapesKept DEF Alive, At
  <2>5. KeyInv'
    BY <1>1, <2>2, <2>3 DEF KeyInv, Becomes, Loaded, At, Serving, OneAlive, Alive
  <2>6. PidfileInv'
    BY <1>1, <2>2, <2>3 DEF PidfileInv, Becomes, At, OneAlive, Alive
  <2>7. PairInv'
    BY <1>1, <2>2, <2>3 DEF PairInv, PairWhole, Becomes, WritingTLS, OneAlive, Alive, At
  <2>8. RingInv'
    BY <1>1, <2>2, <2>3 DEF RingInv, Becomes, At
  <2> QED
    BY <2>4, <2>5, <2>6, <2>7, <2>8 DEF LifecycleInv
<1>3. CASE proc[p].doh = "writecert" /\ DoH(p, "truncatetlskey")
  <2>2. Becomes(p, proc[p].pc, "truncatetlskey", proc[p].key, proc[p].ring, proc[p].wrote)
    BY <1>1, <1>3, DoHMoves
  <2>3. /\ Alive(p) /\ proc[p].doh = "writecert" /\ UNCHANGED <<config, published, crashed, torn>>
        /\ Files(disk') /\ disk'.key = disk.key /\ disk'.pidfile = disk.pidfile
        /\ disk'.cert = p /\ disk'.tlskey = disk.tlskey
    BY <1>1, <1>3 DEF WriteTLS, Shapes, Files
  <2>4. Shapes' /\ OneAlive'
    BY <2>2, <2>3, ShapesKept DEF Alive, At
  <2>5. KeyInv'
    BY <1>1, <2>2, <2>3 DEF KeyInv, Becomes, Loaded, At, Serving, OneAlive, Alive
  <2>6. PidfileInv'
    BY <1>1, <2>2, <2>3 DEF PidfileInv, Becomes, At, OneAlive, Alive
  <2>7. PairInv'
    BY <1>1, <2>2, <2>3 DEF PairInv, PairWhole, Becomes, WritingTLS, OneAlive, Alive, At
  <2>8. RingInv'
    BY <1>1, <2>2, <2>3 DEF RingInv, Becomes, At
  <2> QED
    BY <2>4, <2>5, <2>6, <2>7, <2>8 DEF LifecycleInv
<1>4. CASE proc[p].doh = "truncatetlskey" /\ DoH(p, "writetlskey")
  <2>2. Becomes(p, proc[p].pc, "writetlskey", proc[p].key, proc[p].ring, proc[p].wrote)
    BY <1>1, <1>4, DoHMoves
  <2>3. /\ Alive(p) /\ proc[p].doh = "truncatetlskey" /\ UNCHANGED <<config, published, crashed, torn>>
        /\ Files(disk') /\ disk'.key = disk.key /\ disk'.pidfile = disk.pidfile
        /\ disk'.cert = disk.cert /\ disk'.tlskey = Torn
    BY <1>1, <1>4 DEF WriteTLS, Shapes, Files
  <2>4. Shapes' /\ OneAlive'
    BY <2>2, <2>3, ShapesKept DEF Alive, At
  <2>5. KeyInv'
    BY <1>1, <2>2, <2>3 DEF KeyInv, Becomes, Loaded, At, Serving, OneAlive, Alive
  <2>6. PidfileInv'
    BY <1>1, <2>2, <2>3 DEF PidfileInv, Becomes, At, OneAlive, Alive
  <2>7. PairInv'
    BY <1>1, <2>2, <2>3 DEF PairInv, PairWhole, Becomes, WritingTLS, OneAlive, Alive, At
  <2>8. RingInv'
    BY <1>1, <2>2, <2>3 DEF RingInv, Becomes, At
  <2> QED
    BY <2>4, <2>5, <2>6, <2>7, <2>8 DEF LifecycleInv
<1>5. CASE proc[p].doh = "writetlskey" /\ Ensured(p) /\ At(p, "tls")
  <2>2. Becomes(p, "truncatepid", "ensure", proc[p].key, proc[p].ring, proc[p].wrote)
    BY <1>1, <1>5, GoingWithDoH DEF Ensured
  <2>3. /\ Alive(p) /\ proc[p].doh = "writetlskey" /\ UNCHANGED <<config, published, crashed, torn>>
        /\ Files(disk') /\ disk'.key = disk.key /\ disk'.pidfile = disk.pidfile
        /\ disk'.cert = disk.cert /\ disk'.tlskey = p /\ At(p, "tls")
    BY <1>1, <1>5 DEF WriteTLS, Shapes, Files
  <2>4. Shapes' /\ OneAlive'
    BY <2>2, <2>3, ShapesKept DEF Alive, At
  <2>5. KeyInv'
    BY <1>1, <2>2, <2>3 DEF KeyInv, Becomes, Loaded, At, Serving, OneAlive, Alive
  <2>6. PidfileInv'
    BY <1>1, <2>2, <2>3 DEF PidfileInv, Becomes, At, OneAlive, Alive
  <2>7. PairInv'
    BY <1>1, <2>2, <2>3 DEF PairInv, PairWhole, Becomes, WritingTLS, OneAlive, Alive, At
  <2>8. RingInv'
    BY <1>1, <2>2, <2>3 DEF RingInv, Becomes, At
  <2> QED
    BY <2>4, <2>5, <2>6, <2>7, <2>8 DEF LifecycleInv
<1>6. CASE proc[p].doh = "writetlskey" /\ DoH(p, "load")
  <2>2. Becomes(p, proc[p].pc, "load", proc[p].key, proc[p].ring, proc[p].wrote)
    BY <1>1, <1>6, DoHMoves
  <2>3. /\ Alive(p) /\ proc[p].doh = "writetlskey" /\ UNCHANGED <<config, published, crashed, torn>>
        /\ Files(disk') /\ disk'.key = disk.key /\ disk'.pidfile = disk.pidfile
        /\ disk'.cert = disk.cert /\ disk'.tlskey = p
    BY <1>1, <1>6 DEF WriteTLS, Shapes, Files
  <2>4. Shapes' /\ OneAlive'
    BY <2>2, <2>3, ShapesKept DEF Alive, At
  <2>5. KeyInv'
    BY <1>1, <2>2, <2>3 DEF KeyInv, Becomes, Loaded, At, Serving, OneAlive, Alive
  <2>6. PidfileInv'
    BY <1>1, <2>2, <2>3 DEF PidfileInv, Becomes, At, OneAlive, Alive
  <2>7. PairInv'
    BY <1>1, <2>2, <2>3 DEF PairInv, PairWhole, Becomes, WritingTLS, OneAlive, Alive, At
  <2>8. RingInv'
    BY <1>1, <2>2, <2>3 DEF RingInv, Becomes, At
  <2> QED
    BY <2>4, <2>5, <2>6, <2>7, <2>8 DEF LifecycleInv
<1> QED
  BY <1>2, <1>3, <1>4, <1>5, <1>6 DEF WriteTLS, Ensured

\* A failing write of the pair is noted; what fails before leaves the files alone.
LEMMA FailTLSInv ==
  ASSUME LifecycleInv, NEW p \in Pids, FailTLS(p)
  PROVE  LifecycleInv'
<1> USE FilesAssumption
<1>1. /\ Shapes /\ OneAlive /\ KeyInv /\ PidfileInv /\ PairInv /\ RingInv
  BY DEF LifecycleInv
<1>2. CASE Exit(p) /\ At(p, "tls")
  <2>1. /\ Alive(p) /\ disk' = disk /\ UNCHANGED <<config, published, crashed>> /\ torn' = TornBy(p)
    BY DEF FailTLS
  <2>2. disk.pidfile # p
    BY <1>1, <1>2 DEF PidfileInv, At
  <2> QED
    BY <1>2, <2>1, <2>2, ExitInv DEF TornBy
<1>3. CASE DoH(p, "failed")
  <2>2. Becomes(p, proc[p].pc, "failed", proc[p].key, proc[p].ring, proc[p].wrote)
    BY <1>1, <1>3, DoHMoves
  <2>3. /\ Alive(p) /\ proc[p].doh \in {"truncatecert"} \cup WritingTLS /\ Files(disk')
        /\ torn' <=> (torn \/ proc[p].doh \in WritingTLS)
        /\ UNCHANGED <<config, disk, published, crashed>>
    BY <1>1, <1>3 DEF FailTLS, TornBy, Shapes, Files
  <2>4. Shapes' /\ OneAlive'
    BY <2>2, <2>3, ShapesKept DEF Alive, At
  <2>5. KeyInv'
    BY <1>1, <2>2, <2>3 DEF KeyInv, Becomes, Loaded, At, Serving, OneAlive, Alive
  <2>6. PidfileInv'
    BY <1>1, <2>2, <2>3 DEF PidfileInv, Becomes, At, OneAlive, Alive
  <2>7. PairInv'
    BY <1>1, <2>2, <2>3 DEF PairInv, PairWhole, Becomes, WritingTLS, OneAlive, Alive, At
  <2>8. RingInv'
    BY <1>1, <2>2, <2>3 DEF RingInv, Becomes, At
  <2> QED
    BY <2>4, <2>5, <2>6, <2>7, <2>8 DEF LifecycleInv
<1> QED
  BY <1>2, <1>3 DEF FailTLS

\* A sidecar that loads the pair finds one that belongs together.
LEMMA LoadPairInv ==
  ASSUME LifecycleInv, NEW p \in Pids, LoadPair(p)
  PROVE  LifecycleInv'
<1> USE FilesAssumption
<1>1. /\ Shapes /\ OneAlive /\ KeyInv /\ PidfileInv /\ PairInv /\ RingInv
  BY DEF LifecycleInv
<1>2. ~torn => disk.cert = disk.tlskey /\ disk.cert \notin {Absent, Torn}
  <2>1. \A q \in Pids : proc[q].doh \notin WritingTLS
    BY <1>1 DEF LoadPair, OneAlive, Alive, PairInv, WritingTLS
  <2> QED
    BY <1>1, <2>1 DEF LoadPair, PairInv, PairWhole
<1>3. CASE DoH(p, "failed")
  <2>2. Becomes(p, proc[p].pc, "failed", proc[p].key, proc[p].ring, proc[p].wrote)
    BY <1>1, <1>3, DoHMoves
  <2>3. /\ Alive(p) /\ proc[p].doh = "load" /\ Files(disk')
        /\ UNCHANGED <<config, disk, published, crashed, torn>>
    BY <1>1, <1>3 DEF LoadPair, Shapes, Files
  <2>4. Shapes' /\ OneAlive'
    BY <2>2, <2>3, ShapesKept DEF Alive, At
  <2>5. KeyInv'
    BY <1>1, <2>2, <2>3 DEF KeyInv, Becomes, Loaded, At, Serving, OneAlive, Alive
  <2>6. PidfileInv'
    BY <1>1, <2>2, <2>3 DEF PidfileInv, Becomes, At, OneAlive, Alive
  <2>7. PairInv'
    BY <1>1, <2>2, <2>3 DEF PairInv, PairWhole, Becomes, WritingTLS, OneAlive, Alive, At
  <2>8. RingInv'
    BY <1>1, <2>2, <2>3 DEF RingInv, Becomes, At
  <2> QED
    BY <2>4, <2>5, <2>6, <2>7, <2>8 DEF LifecycleInv
<1>4. CASE DoH(p, "up")
  <2>2. Becomes(p, proc[p].pc, "up", proc[p].key, proc[p].ring, proc[p].wrote)
    BY <1>1, <1>4, DoHMoves
  <2>3. /\ Alive(p) /\ proc[p].doh = "load" /\ Files(disk')
        /\ UNCHANGED <<config, disk, published, crashed, torn>>
    BY <1>1, <1>4 DEF LoadPair, Shapes, Files
  <2>4. Shapes' /\ OneAlive'
    BY <2>2, <2>3, ShapesKept DEF Alive, At
  <2>5. KeyInv'
    BY <1>1, <2>2, <2>3 DEF KeyInv, Becomes, Loaded, At, Serving, OneAlive, Alive
  <2>6. PidfileInv'
    BY <1>1, <2>2, <2>3 DEF PidfileInv, Becomes, At, OneAlive, Alive
  <2>7. PairInv'
    BY <1>1, <2>2, <2>3 DEF PairInv, PairWhole, Becomes, WritingTLS, OneAlive, Alive, At
  <2>8. RingInv'
    BY <1>1, <2>2, <2>3 DEF RingInv, Becomes, At
  <2> QED
    BY <2>4, <2>5, <2>6, <2>7, <2>8 DEF LifecycleInv
<1>5. CASE DoH(p, "badpair") /\ torn
  <2>2. Becomes(p, proc[p].pc, "badpair", proc[p].key, proc[p].ring, proc[p].wrote)
    BY <1>1, <1>5, DoHMoves
  <2>3. /\ Alive(p) /\ proc[p].doh = "load" /\ Files(disk')
        /\ UNCHANGED <<config, disk, published, crashed, torn>> /\ torn
    BY <1>1, <1>5 DEF LoadPair, Shapes, Files
  <2>4. Shapes' /\ OneAlive'
    BY <2>2, <2>3, ShapesKept DEF Alive, At
  <2>5. KeyInv'
    BY <1>1, <2>2, <2>3 DEF KeyInv, Becomes, Loaded, At, Serving, OneAlive, Alive
  <2>6. PidfileInv'
    BY <1>1, <2>2, <2>3 DEF PidfileInv, Becomes, At, OneAlive, Alive
  <2>7. PairInv'
    BY <1>1, <2>2, <2>3 DEF PairInv, PairWhole, Becomes, WritingTLS, OneAlive, Alive, At
  <2>8. RingInv'
    BY <1>1, <2>2, <2>3 DEF RingInv, Becomes, At
  <2> QED
    BY <2>4, <2>5, <2>6, <2>7, <2>8 DEF LifecycleInv
<1> QED
  BY <1>2, <1>3, <1>4, <1>5 DEF LoadPair

\* writePidfile truncates the file of a dead process only.
LEMMA TruncatePidfileInv ==
  ASSUME LifecycleInv, NEW p \in Pids, TruncatePidfile(p)
  PROVE  LifecycleInv'
<1> USE FilesAssumption
<1>1. /\ Shapes /\ OneAlive /\ KeyInv /\ PidfileInv /\ PairInv /\ RingInv
  BY DEF LifecycleInv
<1>2. CASE Go(p, "listen") /\ disk' = disk
  <2>2. Becomes(p, "listen", proc[p].doh, proc[p].key, proc[p].ring, proc[p].wrote)
    BY <1>1, <1>2, Going
  <2>3. /\ At(p, "truncatepid") /\ Files(disk') /\ UNCHANGED <<config, disk, published, crashed, torn>>
    BY <1>1, <1>2 DEF TruncatePidfile, Shapes, Files
  <2>4. Shapes' /\ OneAlive'
    BY <2>2, <2>3, ShapesKept DEF Alive, At
  <2>5. KeyInv'
    BY <1>1, <2>2, <2>3 DEF KeyInv, Becomes, Loaded, At, Serving, OneAlive, Alive
  <2>6. PidfileInv'
    BY <1>1, <2>2, <2>3 DEF PidfileInv, Becomes, At, OneAlive, Alive
  <2>7. PairInv'
    BY <1>1, <2>2, <2>3 DEF PairInv, PairWhole, Becomes, WritingTLS, OneAlive, Alive, At
  <2>8. RingInv'
    BY <1>1, <2>2, <2>3 DEF RingInv, Becomes, At
  <2> QED
    BY <2>4, <2>5, <2>6, <2>7, <2>8 DEF LifecycleInv
<1>3. CASE Go(p, "writepid") /\ config.pidfile /\ disk' = [disk EXCEPT !.pidfile = Torn]
  <2>2. Becomes(p, "writepid", proc[p].doh, proc[p].key, proc[p].ring, proc[p].wrote)
    BY <1>1, <1>3, Going
  <2>3. /\ At(p, "truncatepid") /\ UNCHANGED <<config, published, crashed, torn>>
        /\ Files(disk') /\ disk'.key = disk.key /\ disk'.pidfile = Torn
        /\ disk'.cert = disk.cert /\ disk'.tlskey = disk.tlskey
    BY <1>1, <1>3 DEF TruncatePidfile, Shapes, Files
  <2>4. Shapes' /\ OneAlive'
    BY <2>2, <2>3, ShapesKept DEF Alive, At
  <2>5. KeyInv'
    BY <1>1, <2>2, <2>3 DEF KeyInv, Becomes, Loaded, At, Serving, OneAlive, Alive
  <2>6. PidfileInv'
    BY <1>1, <1>3, <2>2, <2>3 DEF PidfileInv, Becomes, At, OneAlive, Alive
  <2>7. PairInv'
    BY <1>1, <2>2, <2>3 DEF PairInv, PairWhole, Becomes, WritingTLS, OneAlive, Alive, At
  <2>8. RingInv'
    BY <1>1, <2>2, <2>3 DEF RingInv, Becomes, At
  <2> QED
    BY <2>4, <2>5, <2>6, <2>7, <2>8 DEF LifecycleInv
<1> QED
  BY <1>2, <1>3 DEF TruncatePidfile

\* After writePidfile the file names the process, or an error was met.
LEMMA WritePidfileInv ==
  ASSUME LifecycleInv, NEW p \in Pids, WritePidfile(p)
  PROVE  LifecycleInv'
<1> USE FilesAssumption
<1>1. /\ Shapes /\ OneAlive /\ KeyInv /\ PidfileInv /\ PairInv /\ RingInv
  BY DEF LifecycleInv
<1>2. CASE Go(p, "listen") /\ disk' = disk
  <2>2. Becomes(p, "listen", proc[p].doh, proc[p].key, proc[p].ring, proc[p].wrote)
    BY <1>1, <1>2, Going
  <2>3. /\ At(p, "writepid") /\ Files(disk') /\ UNCHANGED <<config, disk, published, crashed, torn>>
    BY <1>1, <1>2 DEF WritePidfile, Shapes, Files
  <2>4. Shapes' /\ OneAlive'
    BY <2>2, <2>3, ShapesKept DEF Alive, At
  <2>5. KeyInv'
    BY <1>1, <2>2, <2>3 DEF KeyInv, Becomes, Loaded, At, Serving, OneAlive, Alive
  <2>6. PidfileInv'
    BY <1>1, <2>2, <2>3 DEF PidfileInv, Becomes, At, OneAlive, Alive
  <2>7. PairInv'
    BY <1>1, <2>2, <2>3 DEF PairInv, PairWhole, Becomes, WritingTLS, OneAlive, Alive, At
  <2>8. RingInv'
    BY <1>1, <2>2, <2>3 DEF RingInv, Becomes, At
  <2> QED
    BY <2>4, <2>5, <2>6, <2>7, <2>8 DEF LifecycleInv
<1>3. CASE disk' = [disk EXCEPT !.pidfile = p] /\ proc' = [proc EXCEPT ![p].pc = "listen", ![p].wrote = TRUE]
  <2>2. Becomes(p, "listen", proc[p].doh, proc[p].key, proc[p].ring, TRUE)
    BY <1>1, <1>3, GoingWritten
  <2>3. /\ At(p, "writepid") /\ UNCHANGED <<config, published, crashed, torn>>
        /\ Files(disk') /\ disk'.key = disk.key /\ disk'.pidfile = p
        /\ disk'.cert = disk.cert /\ disk'.tlskey = disk.tlskey
    BY <1>1, <1>3 DEF WritePidfile, Shapes, Files
  <2>4. Shapes' /\ OneAlive'
    BY <2>2, <2>3, ShapesKept DEF Alive, At
  <2>5. KeyInv'
    BY <1>1, <2>2, <2>3 DEF KeyInv, Becomes, Loaded, At, Serving, OneAlive, Alive
  <2>6. PidfileInv'
    BY <1>1, <2>2, <2>3 DEF PidfileInv, Becomes, At, OneAlive, Alive
  <2>7. PairInv'
    BY <1>1, <2>2, <2>3 DEF PairInv, PairWhole, Becomes, WritingTLS, OneAlive, Alive, At
  <2>8. RingInv'
    BY <1>1, <2>2, <2>3 DEF RingInv, Becomes, At
  <2> QED
    BY <2>4, <2>5, <2>6, <2>7, <2>8 DEF LifecycleInv
<1> QED
  BY <1>2, <1>3 DEF WritePidfile

\* Every end of a server: a fatal error, a shutdown, a crash.
LEMMA EndInv ==
  ASSUME LifecycleInv, NEW p \in Pids, FailToListen(p) \/ Shutdown(p) \/ Crash(p)
  PROVE  LifecycleInv'
<1>1. Shapes /\ PidfileInv /\ Files(disk)
  BY DEF LifecycleInv, Shapes
<1>2. Alive(p) /\ Exit(p) /\ UNCHANGED <<config, published>> /\ torn' = TornBy(p)
  BY DEF FailToListen, Shutdown, Crash, Alive, At
<1>3. ~torn' => ~torn /\ proc[p].doh \notin WritingTLS
  BY <1>2 DEF TornBy
<1>4. CASE FailToListen(p) \/ Shutdown(p)
  <2>1. disk' = RemovedPidfile /\ crashed' = crashed
    BY <1>4 DEF FailToListen, Shutdown
  <2>2. disk'.pidfile # p
    BY <1>1, <2>1, FilesAssumption DEF RemovedPidfile, PidfileInv, Files
  <2> QED
    BY <1>2, <1>3, <2>1, <2>2, ExitInv
<1>5. CASE Crash(p)
  <2>1. disk' = disk /\ crashed' = crashed \cup {p}
    BY <1>5 DEF Crash
  <2> QED
    BY <1>2, <1>3, <2>1, ExitInv
<1> QED
  BY <1>4, <1>5

\* The stop command, and stuttering.
LEMMA StopInv ==
  ASSUME LifecycleInv, StopReads \/ StopSignals \/ UNCHANGED lifecycleVars
  PROVE  LifecycleInv'
<1>1. CASE proc' = proc /\ UNCHANGED <<config, disk, published, crashed, torn>>
  BY <1>1 DEF LifecycleInv, Shapes, OneAlive, KeyInv, PidfileInv, PairInv, PairWhole, RingInv,
              Alive, At, Serving
<1>2. CASE StopSignals /\ proc' # proc
  <2>1. /\ Alive(stopper) /\ proc' = [proc EXCEPT ![stopper].signalled = TRUE]
        /\ UNCHANGED <<config, disk, published, crashed, torn>>
    BY <1>2 DEF StopSignals
  <2>2. /\ Shapes /\ OneAlive /\ KeyInv /\ PidfileInv /\ PairInv /\ RingInv
    BY DEF LifecycleInv
  <2>3. stopper \in Pids
    BY <2>1, <2>2, <1>2 DEF Shapes
  <2> DEFINE p == stopper
  <2>4. Becomes(p, proc[p].pc, proc[p].doh, proc[p].key, proc[p].ring, proc[p].wrote)
    BY <2>1, <2>2, <2>3, Signalled
  <2>5. Files(disk')
    BY <2>1, <2>2 DEF Shapes
  <2> HIDE DEF p
  <2>6. Shapes' /\ OneAlive'
    BY <2>1, <2>3, <2>4, <2>5, ShapesKept DEF p
  <2>7. KeyInv'
    BY <2>1, <2>2, <2>4 DEF KeyInv, Becomes, At, Serving
  <2>8. PidfileInv'
    BY <2>1, <2>2, <2>4 DEF PidfileInv, Becomes, At
  <2>9. PairInv'
    BY <2>1, <2>2, <2>4 DEF PairInv, PairWhole, Becomes
  <2>10. RingInv'
    BY <2>1, <2>2, <2>4 DEF RingInv, Becomes
  <2> QED
    BY <2>6, <2>7, <2>8, <2>9, <2>10 DEF LifecycleInv
<1> QED
  BY <1>1, <1>2 DEF StopReads, StopSignals, lifecycleVars

-----------------------------------------------------------------------------

(***************************************************************************)
(* The theorems.                                                           *)
(***************************************************************************)

\* The inductive invariant holds throughout.
THEOREM LifecycleInvariant == Spec => []LifecycleInv
<1>1. LifecycleInv /\ [Next]_lifecycleVars => LifecycleInv'
  <2> SUFFICES ASSUME LifecycleInv, [Next]_lifecycleVars PROVE LifecycleInv'
    OBVIOUS
  <2>1. ASSUME NEW p \in Pids, MainStep(p) PROVE LifecycleInv'
    BY <2>1, LoadAuthInv, LoadKeyInv, TruncateKeyInv, WriteKeyInv, StartDoHInv, TruncatePidfileInv,
       WritePidfileInv, ListenInv, EndInv DEF MainStep
  <2>2. ASSUME NEW p \in Pids, DoHStep(p) PROVE LifecycleInv'
    BY <2>2, EnsureTLSCertInv, WriteTLSInv, LoadPairInv DEF DoHStep
  <2>3. ASSUME NEW p \in Pids,
               Launch(p) \/ FailTLS(p) \/ FailToListen(p) \/ Crash(p) \/ Interrupt(p)
        PROVE  LifecycleInv'
    BY <2>3, LaunchInv, FailTLSInv, EndInv, InterruptInv
  <2> QED
    BY <2>1, <2>2, <2>3, StopInv DEF Next, Ended
<1> QED
  BY <1>1, InitLifecycleInv, PTL DEF Spec

\* Every server with a key directory serves the zone with the same key, however many
\* starts, crashes and failing reads and writes of the key file lie between.
THEOREM KeyStaysStable == Spec => []KeyStable
<1>1. LifecycleInv => KeyStable
  BY DEF LifecycleInv, KeyInv, KeyStable, Serving, At, Loaded
<1> QED
  BY <1>1, LifecycleInvariant, PTL

\* The pidfile names the server that serves, or nothing, or a process that crashed.
THEOREM PidfileStaysTrue == Spec => []PidfileTrue
<1>1. LifecycleInv => PidfileTrue
  BY DEF LifecycleInv, PidfileInv, PidfileTrue, Serving, At
<1> QED
  BY <1>1, LifecycleInvariant, PTL

\* The sidecar never loads a certificate and a key that do not belong together unless
\* a write of the pair was cut short.
THEOREM PairStaysUsable == Spec => []PairUsable
<1>1. LifecycleInv => PairUsable
  <2> SUFFICES ASSUME LifecycleInv, NEW p \in Pids, proc[p].doh \in {"load", "up", "badpair"}, ~torn
               PROVE  proc[p].doh # "badpair" /\ disk.cert = disk.tlskey
    BY DEF PairUsable
  <2>1. proc[p].doh \in {"load", "up"} /\ Absent \notin {disk.cert, disk.tlskey}
    BY DEF LifecycleInv, PairInv
  <2>2. \A q \in Pids : proc[q].doh \notin WritingTLS
    BY <2>1 DEF LifecycleInv, PairInv, OneAlive, Alive, WritingTLS
  <2> QED
    BY <2>1, <2>2 DEF LifecycleInv, PairInv, PairWhole
<1> QED
  BY <1>1, LifecycleInvariant, PTL

-----------------------------------------------------------------------------

(***************************************************************************)
(* The key ring.                                                           *)
(***************************************************************************)

\* A set of naturals that is not empty has a least member.
LEMMA LeastNatural ==
  ASSUME NEW S, S \subseteq Nat, S # {}
  PROVE  \E m \in S : \A i \in S : m <= i
<1> DEFINE R == {ss \in Nat \X Nat : ss[1] < ss[2]}
<1>1. IsWellFoundedOn(R, Nat)
  BY NatLessThanWellFounded DEF OpToRel
<1> HIDE DEF R
<1>2. PICK m \in S : \A i \in S : ~(<<i, m>> \in R)
  BY <1>1, WFMin
<1>3. \A i \in S : i < m => <<i, m>> \in R
  BY DEF R
<1>4. \A i \in S : i \in Nat /\ m \in Nat /\ ~(i < m)
  BY <1>2, <1>3
<1>5. \A i \in S : m <= i
  BY <1>4
<1> QED
  BY <1>5

\* Of some positions in a list there is a last.
LEMMA LastPosition ==
  ASSUME NEW n \in Nat, NEW I, I \subseteq 1 .. n, I # {}
  PROVE  \E m \in I : \A i \in I : i <= m
<1> DEFINE S == {n - i : i \in I}
<1>1. \A i \in I : i \in Int /\ n - i \in Nat
  OBVIOUS
<1>2. S \subseteq Nat /\ S # {}
  BY <1>1
<1>3. PICK m \in S : \A i \in S : m <= i
  BY <1>2, LeastNatural
<1> QED
  BY <1>1, <1>3

\* What the ASSUMEs say of a key specification.
Listed(spec) ==
  /\ Len(spec.entries) \in Nat /\ DOMAIN spec.entries = 1 .. Len(spec.entries)
  /\ \A e \in Entries(spec) : e.name \in DOMAIN Canon

KeysOf(keys, spec) ==
  /\ DOMAIN keys = {e.name : e \in Entries(spec)}
  /\ \A n \in DOMAIN keys : \E e \in Entries(spec) : e.name = n /\ keys[n] = e.secret

RingOf(ring, spec) ==
  /\ ring \in [DOMAIN ring -> Secrets]
  /\ DOMAIN ring = {Canon[e.name] : e \in Entries(spec)} /\ Entries(spec) # {}
  /\ \A c \in DOMAIN ring : \E e \in Entries(spec) : Canon[e.name] = c /\ ring[c] = e.secret

\* LoadTSIGKeys maps every name as written to the secret of an entry of that name.
LEMMA LoadedKeys ==
  ASSUME NEW spec, Listed(spec), spec.parses
  PROVE  KeysOf(LoadTSIGKeys(spec), spec)
<1>1. DOMAIN LoadTSIGKeys(spec) = {e.name : e \in Entries(spec)}
  BY DEF LoadTSIGKeys
<1>2. ASSUME NEW n \in DOMAIN LoadTSIGKeys(spec)
      PROVE  \E e \in Entries(spec) : e.name = n /\ LoadTSIGKeys(spec)[n] = e.secret
  <2> DEFINE I == {i \in DOMAIN spec.entries : spec.entries[i].name = n}
             Last(i) == /\ spec.entries[i].name = n
                        /\ \A j \in DOMAIN spec.entries : spec.entries[j].name = n => j <= i
             last == CHOOSE i \in DOMAIN spec.entries : Last(i)
  <2>1. I # {} /\ I \subseteq 1 .. Len(spec.entries)
    BY <1>1, <1>2 DEF Entries, Listed
  <2>2. \E i \in I : \A j \in I : j <= i
    BY <2>1, LastPosition DEF Listed
  <2>3. \E i \in DOMAIN spec.entries : Last(i)
    BY <2>2
  <2>4. last \in DOMAIN spec.entries /\ Last(last)
    BY <2>3
  <2>5. LoadTSIGKeys(spec)[n] = spec.entries[last].secret
    BY <1>1, <1>2 DEF LoadTSIGKeys
  <2> QED
    BY <2>4, <2>5 DEF Entries
<1> QED
  BY <1>1, <1>2 DEF KeysOf

\* A provider has a secret for every name of the specification, whatever case it is
\* written in, and that secret is the one of an entry of that name.
LEMMA RingOfSpec ==
  ASSUME NEW spec, spec # NoKeys, Listed(spec), NEW ring \in buildTSIG(spec) \ {NoKeys, Failed}
  PROVE  RingOf(ring, spec)
<1> DEFINE keys == LoadTSIGKeys(spec)
           names == {Canon[n] : n \in DOMAIN keys}
<1>1. keys # Failed /\ DOMAIN keys # {} /\ ring \in newHMACProvider(keys)
  BY DEF buildTSIG
<1>2. spec.parses
  BY <1>1 DEF LoadTSIGKeys
<1> HIDE DEF keys
<1>3. /\ ring \in [names -> Secrets]
      /\ \A c \in names : \E n \in DOMAIN keys : Canon[n] = c /\ ring[c] = keys[n]
  BY <1>1 DEF newHMACProvider
<1>4. /\ DOMAIN keys = {e.name : e \in Entries(spec)}
      /\ \A n \in DOMAIN keys : \E e \in Entries(spec) : e.name = n /\ keys[n] = e.secret
  BY <1>2, LoadedKeys DEF keys, KeysOf
<1>5. names = {Canon[e.name] : e \in Entries(spec)} /\ Entries(spec) # {}
  BY <1>1, <1>4
<1> HIDE DEF names
<1>6. DOMAIN ring = names
  BY <1>3
<1>7. \A c \in names : \E e \in Entries(spec) : Canon[e.name] = c /\ ring[c] = e.secret
  BY <1>3, <1>4
<1> QED
  BY <1>3, <1>5, <1>6, <1>7 DEF RingOf

\* The configuration is the one the first start was given.
LEMMA ConfigKept == Spec => [](config \in Configs)
<1>1. Init => config \in Configs
  BY DEF Init
<1>2. config \in Configs /\ [Next]_lifecycleVars => (config \in Configs)'
  BY DEF Next, lifecycleVars, Launch, MainStep, LoadAuth, LoadKey, TruncateKey, WriteKey, StartDoH,
         TruncatePidfile, WritePidfile, Listen, Shutdown, DoHStep, EnsureTLSCert, WriteTLS, LoadPair,
         FailTLS, FailToListen, Crash, Interrupt, StopReads, StopSignals, Ended
<1> QED
  BY <1>1, <1>2, PTL DEF Spec

\* A server lets a message in only with a secret configured for the key it names, and
\* always with it unless the name is configured twice (newHMACProvider, Verify).
THEOREM VerifiedIsConfigured == Spec => []VerifiedMeansConfigured
<1>1. LifecycleInv /\ config \in Configs => VerifiedMeansConfigured
  <2> SUFFICES ASSUME LifecycleInv, config \in Configs, NEW p \in Pids, Serving(p),
                      config.tsig # NoKeys, NEW n \in DOMAIN Canon, NEW s \in Secrets,
                      NEW alg \in Algorithms
               PROVE  LET named == {e \in Entries(config.tsig) : SameName(e, n)}
                          holds == \E e \in named : e.secret = s
                          lets  == Serves(p, [name |-> n, algorithm |-> alg, mac |-> MAC(s, alg)])
                      IN  /\ lets => holds
                          /\ holds /\ (\A e, f \in named : e = f) => lets
    BY DEF VerifiedMeansConfigured
  <2> DEFINE ring == proc[p].ring
             t == [name |-> n, algorithm |-> alg, mac |-> MAC(s, alg)]
             spec == config.tsig
             named == {e \in Entries(spec) : SameName(e, n)}
  <2>1. Listed(spec)
    BY ConfigsAssumption DEF Listed
  <2>2. ring \in buildTSIG(spec) \ {Failed}
    BY DEF LifecycleInv, RingInv, Serving, At
  <2>3. ring # NoKeys => RingOf(ring, spec)
    BY <2>1, <2>2, RingOfSpec
  <2>4. t.name = n /\ t.algorithm = alg /\ t.mac = MAC(s, alg)
    OBVIOUS
  <2> HIDE DEF ring, t, spec
  <2>5. ASSUME Serves(p, t) PROVE \E e \in named : e.secret = s
    <3>1. ring # NoKeys /\ Generate(ring, t) # Failed /\ Generate(ring, t) = MAC(s, alg)
      BY <2>4, <2>5 DEF Serves, Verify, ring
    <3>2. Canon[n] \in DOMAIN ring /\ MAC(ring[Canon[n]], alg) = MAC(s, alg)
      BY <2>4, <3>1 DEF Generate
    <3>3. ring[Canon[n]] = s
      BY <3>2 DEF MAC
    <3> QED
      BY <2>3, <3>1, <3>2, <3>3 DEF SameName, RingOf
  <2>6. ASSUME NEW e \in named, e.secret = s, \A f, g \in named : f = g PROVE Serves(p, t)
    <3>1. ring # NoKeys
      <4>1. spec.parses /\ DOMAIN LoadTSIGKeys(spec) # {} /\ LoadTSIGKeys(spec) # Failed
        <5>1. LoadTSIGKeys(spec) # Failed
          BY <2>2 DEF buildTSIG, spec
        <5>2. spec.parses
          BY <5>1 DEF LoadTSIGKeys
        <5>3. KeysOf(LoadTSIGKeys(spec), spec)
          BY <2>1, <5>2, LoadedKeys
        <5> QED
          BY <2>6, <5>1, <5>2, <5>3 DEF KeysOf
      <4>2. ring \in newHMACProvider(LoadTSIGKeys(spec))
        BY <2>2, <4>1 DEF buildTSIG, spec
      <4>3. \A m \in DOMAIN LoadTSIGKeys(spec) : m \in DOMAIN Canon
        <5>1. KeysOf(LoadTSIGKeys(spec), spec)
          BY <2>1, <4>1, LoadedKeys
        <5> QED
          BY <2>1, <5>1 DEF Listed, KeysOf
      <4>4. \E names \in SUBSET {Canon[m] : m \in DOMAIN Canon} : ring \in [names -> Secrets]
        <5> DEFINE names == {Canon[m] : m \in DOMAIN LoadTSIGKeys(spec)}
        <5>1. ring \in [names -> Secrets]
          BY <2>2, <4>2 DEF newHMACProvider
        <5>2. names \in SUBSET {Canon[m] : m \in DOMAIN Canon}
          BY <4>3
        <5> QED
          BY <5>1, <5>2
      <4> QED
        BY <4>4, TsigAssumption
    <3>2. Canon[n] \in DOMAIN ring
      BY <2>3, <2>6, <3>1 DEF SameName, RingOf
    <3>3. ring[Canon[n]] = s
      BY <2>3, <2>6, <3>1, <3>2 DEF SameName, RingOf
    <3>4. Generate(ring, t) = MAC(s, alg) /\ MAC(s, alg) # Failed
      BY <2>4, <3>2, <3>3, TsigAssumption DEF Generate, MAC
    <3> QED
      BY <2>4, <3>1, <3>4 DEF Serves, Verify, ring
  <2> QED
    BY <2>5, <2>6 DEF t, spec
<1> QED
  BY <1>1, LifecycleInvariant, ConfigKept, PTL

\* A server in tsig-required mode answers the healthcheck command given the same keys
\* (cmdServe, cmdHealthcheck, buildTSIG).
THEOREM RequiredServesItsHealthcheck == Spec => []RequiredServesHealthcheck
<1>1. LifecycleInv /\ config \in Configs => RequiredServesHealthcheck
  <2> SUFFICES ASSUME LifecycleInv, config \in Configs, NEW p \in Pids, Serving(p),
                      config.required, NamedOnce
               PROVE  \E t \in HealthcheckTsigs(config.tsig) :
                        \A u \in HealthcheckTsigs(config.tsig) : Serves(p, t) /\ Serves(p, u)
    BY DEF RequiredServesHealthcheck
  <2> DEFINE ring == proc[p].ring
             spec == config.tsig
  <2>1. spec # NoKeys /\ ring \in buildTSIG(spec) \ {NoKeys, Failed}
    BY DEF LifecycleInv, RingInv, Serving, At
  <2>2. Listed(spec)
    BY <2>1, ConfigsAssumption DEF Listed
  <2> HIDE DEF ring, spec
  <2>3. ASSUME NEW r \in buildTSIG(spec) \ {NoKeys, Failed}
        PROVE  RingOf(r, spec)
    BY <2>1, <2>2, RingOfSpec
  <2>4. ASSUME NEW u \in HealthcheckTsigs(spec) PROVE Serves(p, u)
    <3>1. PICK r \in buildTSIG(spec) \ {NoKeys, Failed} : \E n \in DOMAIN r :
            u = [name |-> n, algorithm |-> HmacSHA256, mac |-> MAC(r[n], HmacSHA256)]
      BY <2>4 DEF HealthcheckTsigs
    <3>2. PICK n \in DOMAIN r :
            u = [name |-> n, algorithm |-> HmacSHA256, mac |-> MAC(r[n], HmacSHA256)]
      BY <3>1
    <3>3. DOMAIN r = DOMAIN ring
      BY <2>1, <2>3 DEF RingOf
    <3>4. Canon[n] = n
      <4>1. PICK e \in Entries(spec) : n = Canon[e.name]
        BY <2>3, <3>2 DEF RingOf
      <4> QED
        BY <2>2, <4>1, TsigAssumption DEF Listed
    <3>5. r[n] = ring[n] /\ ring[n] \in Secrets
      <4>1. PICK e \in Entries(spec) : Canon[e.name] = n /\ r[n] = e.secret
        BY <2>3 DEF RingOf
      <4>2. PICK f \in Entries(spec) : Canon[f.name] = n /\ ring[n] = f.secret
        BY <2>1, <2>3, <3>3 DEF RingOf
      <4>3. e = f
        BY <4>1, <4>2 DEF NamedOnce, SameName, spec
      <4> QED
        BY <2>1, <2>3, <3>3, <4>1, <4>2, <4>3, ZenonT(40) DEF RingOf
    <3>6. Generate(ring, u) = MAC(ring[n], HmacSHA256) /\ MAC(ring[n], HmacSHA256) # Failed
      BY <3>2, <3>3, <3>4, <3>5, TsigAssumption DEF Generate, MAC
    <3> QED
      BY <2>1, <3>2, <3>5, <3>6 DEF Serves, Verify, ring
  <2>5. \E t \in HealthcheckTsigs(spec) : TRUE
    <3>1. RingOf(ring, spec)
      BY <2>1, <2>3
    <3>2. PICK n : n \in DOMAIN ring
      BY <3>1 DEF RingOf
    <3> DEFINE t == [name |-> n, algorithm |-> HmacSHA256, mac |-> MAC(ring[n], HmacSHA256)]
    <3>3. t \in {[name |-> m, algorithm |-> HmacSHA256, mac |-> MAC(ring[m], HmacSHA256)] :
                   m \in DOMAIN ring}
      BY <3>2
    <3> HIDE DEF t
    <3>4. t \in HealthcheckTsigs(spec)
      BY <2>1, <3>3 DEF HealthcheckTsigs
    <3> QED
      BY <3>4
  <2> QED
    BY <2>4, <2>5 DEF spec
<1> QED
  BY <1>1, LifecycleInvariant, ConfigKept, PTL

=============================================================================
