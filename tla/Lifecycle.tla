----------------------------- MODULE Lifecycle -----------------------------
(***************************************************************************)
(* Starts, stops and crashes of the serve command (main.go) and the files  *)
(* that outlive a process: the pidfile, the DNSSEC key (dnssec.go) and the *)
(* TLS certificate and key of the DoH sidecar (doh.go).                    *)
(*                                                                         *)
(* os.WriteFile truncates and then writes: two steps, and a crash or an    *)
(* error in between leaves a Torn file.  A process is its pid, which names *)
(* the keys it generates too.                                              *)
(*                                                                         *)
(* Assumed: a supervisor starts a server when the last one has ended, pids *)
(* are not reused, and os.Remove, whose error the code ignores, succeeds.  *)
(***************************************************************************)
EXTENDS Tsig

CONSTANTS Pids,
          Configs,     \* configurations: required, tsig, dnssec, doh, pidfile
          Disks,       \* files found by the first start
          Absent,      \* no such file
          Torn,        \* a file that was truncated and not written
          NoPid,
          MaxFaults    \* bound: crashes and failing file operations

ASSUME LifecycleAssumption == MaxFaults \in Nat /\ NoPid \notin Pids

\* No file names a process to come, and the pair an operator put there, if it is
\* whole, belongs together.
ASSUME FilesAssumption ==
  /\ {Absent, Torn} \cap (Pids \cup {NoPid}) = {} /\ Absent # Torn
  /\ \A d \in Disks :
       /\ d = [pidfile |-> d.pidfile, key |-> d.key, cert |-> d.cert, tlskey |-> d.tlskey]
       /\ d.pidfile \notin Pids /\ d.key # NoPid /\ Torn \notin {d.cert, d.tlskey}
       /\ d.cert = d.tlskey \/ Absent \in {d.cert, d.tlskey}

ASSUME ConfigsAssumption ==
  \A c \in Configs : c.tsig # NoKeys =>
    /\ Len(c.tsig.entries) \in Nat /\ DOMAIN c.tsig.entries = 1 .. Len(c.tsig.entries)
    /\ \A e \in Entries(c.tsig) : e.name \in DOMAIN Canon

VARIABLES
  config,      \* the configuration, the same for every start
  disk,        \* pidfile, key, cert, tlskey
  proc,        \* each process: pc, doh, key, ring, signalled, wrote
  stopper,     \* the pid a stop command has read
  published,   \* ghost: the DNSSEC key the zone was first served with
  crashed,     \* ghost: processes that ended without a word
  torn,        \* ghost: a TLS file was left unfinished
  faults

lifecycleVars == <<config, disk, proc, stopper, published, crashed, torn, faults>>

Unborn == [pc |-> "unborn", doh |-> "off", key |-> NoPid, ring |-> NoKeys,
           signalled |-> FALSE, wrote |-> FALSE]

Init ==
  /\ config \in Configs
  /\ disk \in Disks
  /\ proc = [p \in Pids |-> Unborn]
  /\ stopper = NoPid
  /\ published = NoPid
  /\ crashed = {}
  /\ torn = FALSE
  /\ faults = 0

Alive(p) == proc[p].pc \notin {"unborn", "exited"}

At(p, pc) == proc[p].pc = pc

MayFault == faults < MaxFaults

\* Process p goes to pc, nothing else of it changes.
Go(p, pc) == proc' = [proc EXCEPT ![p].pc = pc]

\* Process p ends, and what it had in memory is gone.
Exit(p) == proc' = [proc EXCEPT ![p] = [Unborn EXCEPT !.pc = "exited"]]

-----------------------------------------------------------------------------

(***************************************************************************)
(* cmdServe, step by step.  log.Fatal ends the process at once.            *)
(***************************************************************************)
Launch(p) ==
  /\ \A q \in Pids : ~Alive(q)
  /\ At(p, "unborn") /\ p = CHOOSE q \in Pids : At(q, "unborn")
  /\ Go(p, "auth")
  /\ UNCHANGED <<config, disk, stopper, published, crashed, torn, faults>>

\* tsig-required needs a key specification.
AuthUsable == config.required => config.tsig # NoKeys

\* The keys are loaded; tsig-required without a provider is fatal.
LoadAuth(p) ==
  /\ At(p, "auth")
  /\ \E ring \in buildTSIG(config.tsig) :
       IF ~AuthUsable \/ ring = Failed \/ (config.required /\ ring = NoKeys) THEN Exit(p)
       ELSE proc' = [proc EXCEPT ![p].pc = "dnssec", ![p].ring = ring]
  /\ UNCHANGED <<config, disk, stopper, published, crashed, torn, faults>>

\* Mutant of LoadKey: a key file that cannot be read is replaced.
LoadKeyOrReplace(p) ==
  /\ At(p, "dnssec")
  /\ \/ disk.key \notin {Absent, Torn} /\ config.dnssec = "disk"
        /\ proc' = [proc EXCEPT ![p].pc = "doh", ![p].key = disk.key]
        /\ UNCHANGED faults
     \/ config.dnssec = "disk" /\ (disk.key \in {Absent, Torn} \/ MayFault)
        /\ proc' = [proc EXCEPT ![p].pc = "truncatekey", ![p].key = p]
        /\ faults' = IF disk.key \in {Absent, Torn} THEN faults ELSE faults + 1
     \/ config.dnssec # "disk" /\ Go(p, "doh") /\ UNCHANGED faults
  /\ UNCHANGED <<config, disk, stopper, published, crashed, torn>>

\* NewOnlineSigner: a key in memory is a new one; one on disk is loaded, and
\* generated only when there is no file.  A file that does not parse, or cannot
\* be read, is fatal.
LoadKey(p) ==
  /\ At(p, "dnssec")
  /\ \/ /\ config.dnssec = "off" /\ Go(p, "doh") /\ UNCHANGED faults
     \/ /\ config.dnssec = "memory"
        /\ proc' = [proc EXCEPT ![p].pc = "doh", ![p].key = p]
        /\ UNCHANGED faults
     \/ /\ config.dnssec = "disk" /\ disk.key \notin {Absent, Torn}
        /\ proc' = [proc EXCEPT ![p].pc = "doh", ![p].key = disk.key]
        /\ UNCHANGED faults
     \/ /\ config.dnssec = "disk" /\ disk.key = Absent
        /\ proc' = [proc EXCEPT ![p].pc = "truncatekey", ![p].key = p]
        /\ UNCHANGED faults
     \/ /\ config.dnssec = "disk" /\ disk.key = Torn /\ Exit(p)
        /\ UNCHANGED faults
     \/ /\ config.dnssec = "disk" /\ disk.key # Absent /\ MayFault
        /\ Exit(p)
        /\ faults' = faults + 1
  /\ UNCHANGED <<config, disk, stopper, published, crashed, torn>>

\* savePEM.  An error is fatal, be it before the file is touched.
TruncateKey(p) ==
  /\ At(p, "truncatekey")
  /\ \/ /\ disk' = [disk EXCEPT !.key = Torn]
        /\ Go(p, "writekey") /\ UNCHANGED faults
     \/ MayFault /\ Exit(p) /\ faults' = faults + 1 /\ UNCHANGED disk
  /\ UNCHANGED <<config, stopper, published, crashed, torn>>

WriteKey(p) ==
  /\ At(p, "writekey")
  /\ \/ /\ disk' = [disk EXCEPT !.key = proc[p].key]
        /\ Go(p, "doh") /\ UNCHANGED faults
     \/ MayFault /\ Exit(p) /\ faults' = faults + 1 /\ UNCHANGED disk
  /\ UNCHANGED <<config, stopper, published, crashed, torn>>

\* From here on signals are caught.  With the built-in paths the certificate is
\* made before the sidecar's goroutine starts, with configured ones by it.
StartDoH(p) ==
  /\ At(p, "doh")
  /\ proc' = [proc EXCEPT ![p].pc = IF config.doh = "builtin" THEN "tls" ELSE "truncatepid",
                          ![p].doh = IF config.doh = "off" THEN "off" ELSE "ensure"]
  /\ UNCHANGED <<config, disk, stopper, published, crashed, torn, faults>>

-----------------------------------------------------------------------------

(***************************************************************************)
(* EnsureTLSCert and ServeDoH.  proc[p].doh is where they are; the main    *)
(* goroutine is at "tls" while it runs EnsureTLSCert itself.               *)
(***************************************************************************)
DoH(p, doh) == proc' = [proc EXCEPT ![p].doh = doh]

\* EnsureTLSCert returned nil: main starts the goroutine, which calls it again;
\* the goroutine goes on to load the pair.
Ensured(p) ==
  IF At(p, "tls") THEN proc' = [proc EXCEPT ![p].pc = "truncatepid", ![p].doh = "ensure"]
  ELSE DoH(p, "load")

\* Mutant of EnsureTLSCert: it looks for the certificate only.
EnsureTLSCertAlone(p) ==
  /\ Alive(p) /\ proc[p].doh = "ensure"
  /\ IF disk.cert # Absent THEN Ensured(p) ELSE DoH(p, "truncatecert")
  /\ UNCHANGED <<config, disk, stopper, published, crashed, torn, faults>>

\* Both files there, whatever is in them: nothing to do.
EnsureTLSCert(p) ==
  /\ Alive(p) /\ proc[p].doh = "ensure"
  /\ IF disk.cert # Absent /\ disk.tlskey # Absent THEN Ensured(p) ELSE DoH(p, "truncatecert")
  /\ UNCHANGED <<config, disk, stopper, published, crashed, torn, faults>>

\* The four steps in which a new pair reaches the disk.
WriteTLS(p) ==
  /\ Alive(p)
  /\ \/ /\ proc[p].doh = "truncatecert" /\ DoH(p, "writecert")
        /\ disk' = [disk EXCEPT !.cert = Torn]
     \/ /\ proc[p].doh = "writecert" /\ DoH(p, "truncatetlskey")
        /\ disk' = [disk EXCEPT !.cert = p]
     \/ /\ proc[p].doh = "truncatetlskey" /\ DoH(p, "writetlskey")
        /\ disk' = [disk EXCEPT !.tlskey = Torn]
     \/ /\ proc[p].doh = "writetlskey" /\ Ensured(p)
        /\ disk' = [disk EXCEPT !.tlskey = p]
  /\ UNCHANGED <<config, stopper, published, crashed, torn, faults>>

WritingTLS == {"writecert", "truncatetlskey", "writetlskey"}

\* The sidecar's goroutine ends with process p, wherever it is.
TornBy(p) == torn \/ proc[p].doh \in WritingTLS

\* A directory cannot be made, a key or certificate not be generated, or a write
\* fails: fatal in main, the end of the sidecar in its goroutine.
FailTLS(p) ==
  /\ Alive(p) /\ MayFault /\ proc[p].doh \in {"truncatecert"} \cup WritingTLS
  /\ IF At(p, "tls") THEN Exit(p) ELSE DoH(p, "failed")
  /\ torn' = TornBy(p)
  /\ faults' = faults + 1
  /\ UNCHANGED <<config, disk, stopper, published, crashed>>

\* ListenAndServeTLS listens and loads the pair; a failure is logged and nothing
\* more.
LoadPair(p) ==
  /\ Alive(p) /\ proc[p].doh = "load"
  /\ \/ /\ DoH(p, IF disk.cert = disk.tlskey /\ disk.cert \notin {Absent, Torn} THEN "up" ELSE "badpair")
        /\ UNCHANGED faults
     \/ MayFault /\ DoH(p, "failed") /\ faults' = faults + 1
  /\ UNCHANGED <<config, disk, stopper, published, crashed, torn>>

-----------------------------------------------------------------------------

(***************************************************************************)
(* The pidfile and the listeners.                                          *)
(***************************************************************************)
\* writePidfile, if one is configured.  An error is only logged.
TruncatePidfile(p) ==
  /\ At(p, "truncatepid")
  /\ \/ /\ ~config.pidfile /\ Go(p, "listen") /\ UNCHANGED <<disk, faults>>
     \/ /\ config.pidfile /\ Go(p, "writepid") /\ UNCHANGED faults
        /\ disk' = [disk EXCEPT !.pidfile = Torn]
     \/ /\ config.pidfile /\ MayFault /\ Go(p, "listen") /\ UNCHANGED disk
        /\ faults' = faults + 1
  /\ UNCHANGED <<config, stopper, published, crashed, torn>>

WritePidfile(p) ==
  /\ At(p, "writepid")
  /\ \/ /\ disk' = [disk EXCEPT !.pidfile = p]
        /\ proc' = [proc EXCEPT ![p].pc = "listen", ![p].wrote = TRUE]
        /\ UNCHANGED faults
     \/ MayFault /\ Go(p, "listen") /\ faults' = faults + 1 /\ UNCHANGED disk
  /\ UNCHANGED <<config, stopper, published, crashed, torn>>

RemovedPidfile == IF config.pidfile THEN [disk EXCEPT !.pidfile = Absent] ELSE disk

\* Serve: the sockets come up.
Listen(p) ==
  /\ At(p, "listen")
  /\ Go(p, "serving")
  /\ published' = IF published = NoPid /\ config.dnssec = "disk" THEN proc[p].key ELSE published
  /\ UNCHANGED <<config, disk, stopper, crashed, torn, faults>>

\* Mutant of FailToListen: log.Fatal alone, which runs no deferred call.
FailToListenFatal(p) ==
  /\ At(p, "listen") /\ MayFault
  /\ Exit(p)
  /\ faults' = faults + 1
  /\ UNCHANGED <<config, disk, stopper, published, crashed, torn>>

\* The address is taken, or a listener dies: removePidfile, log.Fatal.
FailToListen(p) ==
  /\ proc[p].pc \in {"listen", "serving"} /\ MayFault
  /\ disk' = RemovedPidfile
  /\ Exit(p)
  /\ torn' = TornBy(p)
  /\ faults' = faults + 1
  /\ UNCHANGED <<config, stopper, published, crashed>>

\* Mutant of Shutdown: main waits for the sidecar, which has no reason to end.
ShutdownAfterDoH(p) ==
  /\ At(p, "serving") /\ proc[p].signalled /\ proc[p].doh # "up"
  /\ disk' = RemovedPidfile
  /\ Exit(p)
  /\ torn' = TornBy(p)
  /\ UNCHANGED <<config, stopper, published, crashed, faults>>

\* The context is done: Serve returns nil, the deferred removePidfile runs.
Shutdown(p) ==
  /\ At(p, "serving") /\ proc[p].signalled
  /\ disk' = RemovedPidfile
  /\ Exit(p)
  /\ torn' = TornBy(p)
  /\ UNCHANGED <<config, stopper, published, crashed, faults>>

\* Power failure, kill -9, out of memory.
Crash(p) ==
  /\ Alive(p) /\ MayFault
  /\ Exit(p)
  /\ crashed' = crashed \cup {p}
  /\ torn' = TornBy(p)
  /\ faults' = faults + 1
  /\ UNCHANGED <<config, disk, stopper, published>>

\* cmdStop reads the pidfile, and then signals the process it names, if any.
StopReads ==
  /\ stopper = NoPid /\ disk.pidfile \in Pids
  /\ stopper' = disk.pidfile
  /\ UNCHANGED <<config, disk, proc, published, crashed, torn, faults>>

StopSignals ==
  /\ stopper # NoPid
  /\ proc' = IF Alive(stopper) THEN [proc EXCEPT ![stopper].signalled = TRUE] ELSE proc
  /\ stopper' = NoPid
  /\ UNCHANGED <<config, disk, published, crashed, torn, faults>>

Catching == {"tls", "truncatepid", "writepid", "listen", "serving"}

\* An interrupt, or SIGTERM from the supervisor, once NotifyContext catches them;
\* before that it is a Crash.  A second one changes nothing.
Interrupt(p) ==
  /\ proc[p].pc \in Catching
  /\ proc' = [proc EXCEPT ![p].signalled = TRUE]
  /\ UNCHANGED <<config, disk, stopper, published, crashed, torn, faults>>

MainStep(p) ==
  \/ LoadAuth(p) \/ LoadKey(p) \/ TruncateKey(p) \/ WriteKey(p) \/ StartDoH(p)
  \/ TruncatePidfile(p) \/ WritePidfile(p) \/ Listen(p) \/ Shutdown(p)

DoHStep(p) == EnsureTLSCert(p) \/ WriteTLS(p) \/ LoadPair(p)

\* Every pid is used up and nobody runs.
Ended ==
  /\ \A p \in Pids : At(p, "exited")
  /\ UNCHANGED lifecycleVars

Next ==
  \/ \E p \in Pids :
       \/ Launch(p) \/ MainStep(p) \/ DoHStep(p)
       \/ FailTLS(p) \/ FailToListen(p) \/ Crash(p) \/ Interrupt(p)
  \/ StopReads \/ StopSignals
  \/ Ended

\* The goroutines of a process are scheduled.
Spec ==
  /\ Init /\ [][Next]_lifecycleVars
  /\ \A p \in Pids : WF_lifecycleVars(MainStep(p)) /\ WF_lifecycleVars(DoHStep(p))

-----------------------------------------------------------------------------

(***************************************************************************)
(* Properties.                                                             *)
(***************************************************************************)
Serving(p) == At(p, "serving")

\* "reused across restarts so KeyTag stays stable" (dnssec.go): every server with
\* a key directory serves the zone with the same key, whatever crashes and failed
\* reads and writes lie between.
KeyStable == \A p \in Pids : Serving(p) /\ config.dnssec = "disk" => proc[p].key = published

\* While a server that could write its pidfile serves, stop finds it there, also
\* after a crash that left the pidfile of another process.  A pidfile that names a
\* dead process was left by a crash: every other end, the fatal one included, takes
\* it away (writePidfile, removePidfile).
PidfileTrue ==
  \A p \in Pids :
    /\ Serving(p) /\ proc[p].wrote => disk.pidfile = p
    /\ disk.pidfile = p /\ At(p, "exited") => p \in crashed

\* EnsureTLSCert leaves a certificate and key that belong together, also when the
\* first start found only one of them, unless a write of the pair was cut short.
PairUsable ==
  \A p \in Pids : proc[p].doh \in {"load", "up", "badpair"} /\ ~torn =>
    proc[p].doh # "badpair" /\ disk.cert = disk.tlskey

Serves(p, t) == proc[p].ring # NoKeys /\ Verify(proc[p].ring, t)

SameName(e, n) == Canon[e.name] = Canon[n]

NamedOnce == \A e, f \in Entries(config.tsig) : SameName(e, f.name) => e = f

\* A server in tsig-required mode answers the healthcheck command that is given the
\* same keys: in particular it has one.
RequiredServesHealthcheck ==
  \A p \in Pids : Serving(p) /\ config.required /\ NamedOnce =>
    \E t \in HealthcheckTsigs(config.tsig) : \A u \in HealthcheckTsigs(config.tsig) :
      Serves(p, t) /\ Serves(p, u)

\* A message is let in only with a secret configured for the key it names, in
\* whatever case, and always with it unless the name is configured twice.
VerifiedMeansConfigured ==
  \A p \in Pids : Serving(p) /\ config.tsig # NoKeys =>
    \A n \in DOMAIN Canon : \A s \in Secrets : \A alg \in Algorithms :
      LET named == {e \in Entries(config.tsig) : SameName(e, n)}
          holds == \E e \in named : e.secret = s
          lets  == Serves(p, [name |-> n, algorithm |-> alg, mac |-> MAC(s, alg)])
      IN  /\ lets => holds
          /\ holds /\ (\A e, f \in named : e = f) => lets

\* A server that was signalled ends, wherever it was in its start-up.
StopEndsServer == \A p \in Pids : proc[p].signalled ~> At(p, "exited")

=============================================================================
