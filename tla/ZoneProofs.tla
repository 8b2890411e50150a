----------------------------- MODULE ZoneProofs -----------------------------
(***************************************************************************)
(* What the write path and the transfer path guarantee together, for any   *)
(* number of goroutines, any table, any messages, any cap of the journal   *)
(* and any start-up serial: the invariant and what follows from it, the    *)
(* refinement of CommitLog, at-most-once accounting, and what UPDATEs that *)
(* do not overlap are guaranteed beyond that.                              *)
(***************************************************************************)
EXTENDS Zone, MemChangeLogProofs, NamesProofs, FiniteSetTheorems, TLAPS

-----------------------------------------------------------------------------

(***************************************************************************)
(* The inductive invariant.                                                *)
(***************************************************************************)
Entry == [item : Item \cup {NoItem, NilItem}, at : Nat]

CommitEntry == [key : Keys, at : Nat, change : Changes]

UpdatePcs == {"idle", "prereq", "preread", "write", "draw", "record", "reply"}

StreamPcs == {"idle", "load", "lone", "deltas", "open", "list", "close",
              "uptodate", "retry", "done", "aborted"}

\* The record of an UPDATE goroutine.
UpdateState(r) ==
  r \in [pc : UpdatePcs, msg : UpdateMsg, next : Nat, old : Item \cup {NoItem},
         at : Nat, serial : Serials, rcode : {r.rcode}]

\* The record of a transfer goroutine.
StreamState(r) ==
  /\ r \in [pc : StreamPcs, msg : TransferMsg, deltas : {r.deltas}, opening : Serials,
            closing : Serials, listed : {r.listed}, owed : {r.owed}]
  /\ DOMAIN r.listed \subseteq Keys

JournalTyped == DOMAIN log.deltas \subseteq Serials /\ log \in Journal(DOMAIN log.deltas)

\* An item of a dynamo table carries the key attribute.
Keyed(item) ==
  Dynamo /\ item # NoItem => item \in [body : Bodies \cup {EmptyBody}, pk : {TRUE}]

TableTyped ==
  /\ store \in [Keys -> Entry] /\ replica \in [Keys -> Entry] /\ writes \in Nat
  /\ failed \subseteq 1 .. writes
  /\ \A k \in Keys : store[k].at <= writes /\ replica[k].at <= writes
  /\ \A k \in Keys : Keyed(store[k].item) /\ Keyed(replica[k].item)

CommitsTyped ==
  /\ serial \in Serials
  /\ DOMAIN commits \subseteq Serials /\ commits \in [DOMAIN commits -> CommitEntry]

UpdatersTyped ==
  /\ upd = [u \in Updaters |-> upd[u]]
  /\ \A u \in Updaters : UpdateState(upd[u])

StreamsTyped ==
  /\ xfr = [x \in Streams |-> xfr[x]]
  /\ \A x \in Streams : StreamState(xfr[x])

NoticesTyped == \A n \in notices : n \in [to : Notifiees, serial : Serials]

Typed ==
  JournalTyped /\ TableTyped /\ CommitsTyped /\ UpdatersTyped /\ StreamsTyped /\ NoticesTyped

\* What processUpdate has established where it is: past Validate it has a message
\* that writes, before the write no write, and past the write an entry in the table
\* that is no older than its own.
Progress(u) ==
  /\ upd[u].pc \in {"preread", "write", "draw", "record"} =>
       upd[u].msg \in UpdateMsgs /\ Writes(upd[u].msg.updates)
  /\ upd[u].pc \in {"prereq", "reply"} => upd[u].msg \in UpdateMsgs
  /\ upd[u].pc \in {"idle", "prereq", "preread", "write"} => upd[u].at = 0
  /\ upd[u].pc \in {"draw", "record"} =>
       0 < upd[u].at /\ upd[u].at <= store[KeyWritten(u)].at

UpdatesProgress == \A u \in Updaters : Progress(u)

\* Every serial is drawn by one goroutine, for the change it is about to journal.
DrawnOnce ==
  /\ DOMAIN commits = SerialsUpTo(Start, serial)
  /\ \A u \in Committing :
       /\ upd[u].serial \in DOMAIN commits
       /\ commits[upd[u].serial].change = JournalChange(u)
  /\ \A u, v \in Committing : upd[u].serial = upd[v].serial => u = v

\* The journal holds what landed and nothing else, and latest is at or above all
\* of it.
JournalTrue ==
  /\ \A s \in Landed : s <= log.latest
  /\ \A s \in DOMAIN log.deltas :
       /\ s \in Landed
       /\ log.deltas[s] = [serial |-> s, change |-> commits[s].change]
  /\ log.latest = Start \/ log.latest \in Landed

\* What clients have been told of has landed.
ToldLanded ==
  /\ acked \subseteq Landed
  /\ \A n \in notices : n.serial \in Landed
  /\ \A u \in Updaters :
       upd[u].pc = "reply" /\ upd[u].at # 0 /\ upd[u].rcode = "NOERROR" => upd[u].serial \in Landed

\* The table has every write that a serial was drawn for, or a later one.
WrittenFirst == \A s \in DOMAIN commits : commits[s].at <= store[commits[s].key].at

Replays(x) == xfr[x].pc \in {"open", "close", "done"} /\ ~Full(x)

\* The deltas of an incremental transfer continue the client's serial and have
\* every write it is owed.
Continues(x) ==
  Replays(x) =>
    /\ xfr[x].deltas \in Seq(Delta)
    /\ \A i \in DOMAIN xfr[x].deltas : xfr[x].deltas[i].serial = xfr[x].msg.serial + i
    /\ \A s \in xfr[x].owed : s > xfr[x].msg.serial =>
         \E i \in DOMAIN xfr[x].deltas : xfr[x].deltas[i].serial = s

\* How the serials of a transfer are ordered while no serial has wrapped.
Ordered(x) ==
  /\ xfr[x].pc = "uptodate" => \A s \in xfr[x].owed : s <= xfr[x].msg.serial
  /\ xfr[x].pc \in {"list", "close", "done"} =>
       xfr[x].opening <= serial /\ \A s \in xfr[x].owed : s <= xfr[x].opening
  /\ xfr[x].pc = "open" /\ ~Full(x) => xfr[x].msg.serial + Len(xfr[x].deltas) <= serial
  /\ xfr[x].pc \in {"close", "done"} /\ ~Full(x) =>
       xfr[x].msg.serial + Len(xfr[x].deltas) <= xfr[x].opening

\* What a full transfer of the demo store has listed.
ListedFresh(x) ==
  /\ xfr[x].pc = "list" => DOMAIN xfr[x].listed = {}
  /\ xfr[x].pc \in {"close", "done"} /\ Full(x) =>
       \A s \in DOMAIN commits : s <= xfr[x].opening =>
         commits[s].at <= xfr[x].listed[commits[s].key].at

StreamTrue(x) ==
  /\ xfr[x].owed \subseteq acked
  /\ xfr[x].pc # "idle" => xfr[x].msg \in TransferMsgs
  /\ xfr[x].pc \in {"load", "deltas", "lone", "open"} => DOMAIN xfr[x].listed = {}
  /\ xfr[x].pc = "list" => Full(x)
  /\ Continues(x)
  /\ Unwrapped => Ordered(x)
  /\ Unwrapped /\ ~Dynamo => ListedFresh(x)

StreamsTrue == \A x \in Streams : StreamTrue(x)

ZoneInv ==
  /\ Typed /\ UpdatesProgress /\ DrawnOnce /\ JournalTrue /\ ToldLanded /\ WrittenFirst
  /\ StreamsTrue

-----------------------------------------------------------------------------

(***************************************************************************)
(* Start-up.                                                               *)
(***************************************************************************)

\* Start-up establishes the invariant.
LEMMA InitZoneInv == Init => ZoneInv
<1> SUFFICES ASSUME Init PROVE ZoneInv
  OBVIOUS
<1> USE SerialModAssumption, ZoneAssumption
<1>1. Committing = {} /\ DOMAIN commits = {} /\ Landed = {}
  BY DEF Init, IdleUpdate, Committing, Unlanded, Landed, EmptyMap
<1>2. JournalTyped
  BY DEF Init, JournalTyped, NewMemChangeLog, EmptyMap, Journal, Serials, Inc
<1>3. TableTyped
  <2>1. \A k \in Keys : InitialItems[k] \in Item \cup {NoItem}
    BY MessagesAssumption DEF Item
  <2>2. store \in [Keys -> Entry]
    BY <2>1 DEF Init, Entry
  <2>3. \A k \in Keys : Keyed(store[k].item)
    BY MessagesAssumption DEF Init, Dynamo, Keyed
  <2>4. \A k \in Keys : store[k].at = 0
    BY DEF Init
  <2>5. replica = store /\ writes = 0 /\ failed = {}
    BY DEF Init
  <2> QED
    BY <2>2, <2>3, <2>4, <2>5 DEF TableTyped
<1>4. CommitsTyped
  BY <1>1 DEF Init, CommitsTyped, EmptyMap
<1>5. UpdatersTyped
  BY DEF Init, UpdatersTyped, UpdateState, IdleUpdate, UpdatePcs, UpdateMsg, Serials
<1>6. StreamsTyped
  BY DEF Init, StreamsTyped, StreamState, IdleStream, StreamPcs, TransferMsg, EmptyMap, Serials
<1>7. Typed
  BY <1>2, <1>3, <1>4, <1>5, <1>6 DEF Init, Typed, NoticesTyped
<1>8. UpdatesProgress
  BY DEF Init, UpdatesProgress, Progress, IdleUpdate
<1>9. DrawnOnce
  BY <1>1 DEF Init, DrawnOnce, SerialsUpTo, Serials
<1>10. JournalTrue
  BY <1>1 DEF Init, JournalTrue, NewMemChangeLog, EmptyMap
<1>11. ToldLanded /\ WrittenFirst
  BY <1>1 DEF Init, ToldLanded, WrittenFirst, IdleUpdate
<1>12. StreamsTrue
  BY DEF Init, StreamsTrue, StreamTrue, IdleStream, Continues, Replays, Ordered, ListedFresh, EmptyMap
<1> QED
  BY <1>7, <1>8, <1>9, <1>10, <1>11, <1>12 DEF ZoneInv

-----------------------------------------------------------------------------

(***************************************************************************)
(* Steps of UPDATE goroutines.                                             *)
(***************************************************************************)

\* A step of one UPDATE goroutine that neither touches the table nor commits, nor
\* answers for a write, preserves the invariant if it keeps the goroutine's own part.
LEMMA QuietUpdate ==
  ASSUME ZoneInv, NEW u \in Updaters,
         upd[u].pc # "record", upd'[u].pc # "record",
         upd' = [v \in Updaters |-> upd'[v]], \A v \in Updaters \ {u} : upd'[v] = upd[v],
         UpdateState(upd'[u]), Progress(u)',
         upd'[u].pc = "reply" => upd'[u].at = 0,
         UNCHANGED <<tableVars, commitVars, xfr, notices, acked>>
  PROVE  ZoneInv'
<1> USE DEF tableVars, commitVars
<1>1. Committing' = Committing /\ \A v \in Committing : upd'[v] = upd[v]
  BY DEF Committing
<1>2. Unlanded' = Unlanded /\ Landed' = Landed
  BY <1>1 DEF Unlanded, Landed
<1>3. \A v \in Committing : JournalChange(v)' = JournalChange(v)
  BY <1>1 DEF JournalChange
<1>4. Typed'
  BY DEF ZoneInv, Typed, JournalTyped, TableTyped, CommitsTyped, UpdatersTyped,
         StreamsTyped, NoticesTyped
<1>5. UpdatesProgress'
  BY DEF ZoneInv, UpdatesProgress, Progress, KeyWritten
<1>6. DrawnOnce'
  BY <1>1, <1>3 DEF ZoneInv, DrawnOnce
<1>7. JournalTrue' /\ WrittenFirst'
  BY <1>2 DEF ZoneInv, JournalTrue, WrittenFirst
<1>8. ToldLanded'
  BY <1>2 DEF ZoneInv, ToldLanded
<1>9. StreamsTrue'
  BY DEF ZoneInv, StreamsTrue, StreamTrue, Continues, Replays, Ordered, ListedFresh, Full, Unwrapped
<1> QED
  BY <1>4, <1>5, <1>6, <1>7, <1>8, <1>9 DEF ZoneInv

\* The part of the invariant an UPDATE goroutine relies on.
LEMMA OfUpdater ==
  ASSUME ZoneInv, NEW u \in Updaters
  PROVE  /\ upd = [v \in Updaters |-> upd[v]] /\ UpdateState(upd[u]) /\ Progress(u)
         /\ TableTyped /\ CommitsTyped /\ JournalTyped
BY DEF ZoneInv, Typed, UpdatersTyped, UpdatesProgress

\* Receiving an UPDATE preserves the invariant.
LEMMA ReceiveUpdateInv ==
  ASSUME ZoneInv, NEW u \in Updaters, NEW msg \in UpdateMsgs, ReceiveUpdate(u, msg)
  PROVE  ZoneInv'
<1>1. upd = [v \in Updaters |-> upd[v]] /\ UpdateState(upd[u]) /\ Progress(u)
  BY OfUpdater
<1>2. upd' = [v \in Updaters |-> upd'[v]] /\ \A v \in Updaters \ {u} : upd'[v] = upd[v]
  BY <1>1 DEF ReceiveUpdate
<1>3. UNCHANGED <<tableVars, commitVars, xfr, notices, acked>> /\ upd[u].pc = "idle"
  BY DEF ReceiveUpdate
<1>4. CASE upd' = upd
  BY <1>1, <1>2, <1>3, <1>4, QuietUpdate DEF Progress, KeyWritten, tableVars
<1>5. CASE upd'[u] = [IdleUpdate EXCEPT !.pc = "prereq", !.msg = msg]
  <2>0. upd'[u] = [pc |-> "prereq", msg |-> msg, next |-> 1, old |-> NoItem,
                   at |-> 0, serial |-> 0, rcode |-> "NOERROR"]
    BY <1>5 DEF IdleUpdate
  <2>1. UpdateState(upd'[u]) /\ upd'[u].pc = "prereq"
    BY <2>0, SerialModAssumption DEF UpdateState, UpdatePcs, UpdateMsg, Serials
  <2>2. Progress(u)'
    BY <1>5 DEF Progress, IdleUpdate
  <2> QED
    BY <1>2, <1>3, <2>1, <2>2, QuietUpdate
<1>6. CASE upd'[u] = [IdleUpdate EXCEPT !.pc = "reply", !.msg = msg, !.rcode = "FORMERR"]
  <2>0. upd'[u] = [pc |-> "reply", msg |-> msg, next |-> 1, old |-> NoItem,
                   at |-> 0, serial |-> 0, rcode |-> "FORMERR"]
    BY <1>6 DEF IdleUpdate
  <2>1. UpdateState(upd'[u]) /\ upd'[u].pc = "reply" /\ upd'[u].at = 0
    BY <2>0, SerialModAssumption DEF UpdateState, UpdatePcs, UpdateMsg, Serials
  <2>2. Progress(u)'
    BY <1>6 DEF Progress, IdleUpdate
  <2> QED
    BY <1>2, <1>3, <2>1, <2>2, QuietUpdate
<1> QED
  BY <1>1, <1>4, <1>5, <1>6 DEF ReceiveUpdate

\* Giving up with an rcode before anything was written preserves the invariant.
LEMMA AnswerInv ==
  ASSUME ZoneInv, NEW u \in Updaters, NEW rcode, Answer(u, rcode),
         upd[u].pc \in {"prereq", "preread", "write"},
         UNCHANGED <<tableVars, commitVars, xfr, notices, acked>>
  PROVE  ZoneInv'
<1>1. upd = [v \in Updaters |-> upd[v]] /\ UpdateState(upd[u]) /\ Progress(u)
  BY OfUpdater
<1>2. upd' = [v \in Updaters |-> upd'[v]] /\ \A v \in Updaters \ {u} : upd'[v] = upd[v]
  BY <1>1 DEF Answer
<1>3. upd'[u] = [upd[u] EXCEPT !.pc = "reply", !.rcode = rcode]
  BY <1>1 DEF Answer
<1>4. UpdateState(upd'[u]) /\ upd'[u].pc = "reply" /\ upd'[u].at = 0
  BY <1>1, <1>3 DEF UpdateState, UpdatePcs, Progress
<1>5. Progress(u)'
  BY <1>1, <1>3 DEF Progress, UpdateState
<1> QED
  BY <1>2, <1>4, <1>5, QuietUpdate

\* A round of evalPrerequisites preserves the invariant.
LEMMA EvalPrerequisiteInv ==
  ASSUME ZoneInv, NEW u \in Updaters, EvalPrerequisite(u)
  PROVE  ZoneInv'
<1>1. upd = [v \in Updaters |-> upd[v]] /\ UpdateState(upd[u]) /\ Progress(u)
  BY OfUpdater
<1>2. UNCHANGED <<tableVars, commitVars, xfr, notices, acked>> /\ upd[u].pc = "prereq"
  BY DEF EvalPrerequisite
<1>3. ASSUME NEW rcode, Answer(u, rcode) PROVE ZoneInv'
  BY <1>2, <1>3, AnswerInv
<1>4. CASE upd' = [upd EXCEPT ![u].next = @ + 1]
  <2>1. upd' = [v \in Updaters |-> upd'[v]] /\ \A v \in Updaters \ {u} : upd'[v] = upd[v]
    BY <1>1, <1>4
  <2>2. upd'[u] = [upd[u] EXCEPT !.next = @ + 1]
    BY <1>1, <1>4
  <2>3. UpdateState(upd'[u]) /\ upd'[u].pc = "prereq"
    BY <1>1, <1>2, <2>2 DEF UpdateState
  <2>4. Progress(u)'
    BY <1>1, <1>2, <2>2 DEF Progress, UpdateState
  <2> QED
    BY <1>2, <2>1, <2>3, <2>4, QuietUpdate
<1> QED
  BY <1>3, <1>4 DEF EvalPrerequisite

\* The first pass over the UPDATE section preserves the invariant.
LEMMA ValidateInv ==
  ASSUME ZoneInv, NEW u \in Updaters, Validate(u)
  PROVE  ZoneInv'
<1>1. upd = [v \in Updaters |-> upd[v]] /\ UpdateState(upd[u]) /\ Progress(u)
  BY OfUpdater
<1>2. UNCHANGED <<tableVars, commitVars, xfr, notices, acked>> /\ upd[u].pc = "prereq"
  BY DEF Validate
<1>3. ASSUME NEW rcode, Answer(u, rcode) PROVE ZoneInv'
  BY <1>2, <1>3, AnswerInv
<1>4. CASE Writes(upd[u].msg.updates) /\ upd' = [upd EXCEPT ![u].pc = "preread"]
  <2>1. upd' = [v \in Updaters |-> upd'[v]] /\ \A v \in Updaters \ {u} : upd'[v] = upd[v]
    BY <1>1, <1>4
  <2>2. upd'[u] = [upd[u] EXCEPT !.pc = "preread"]
    BY <1>1, <1>4
  <2>3. UpdateState(upd'[u]) /\ upd'[u].pc = "preread"
    BY <1>1, <2>2 DEF UpdateState, UpdatePcs
  <2>4. Progress(u)'
    BY <1>1, <1>2, <1>4, <2>2 DEF Progress, UpdateState
  <2> QED
    BY <1>2, <2>1, <2>3, <2>4, QuietUpdate
<1> QED
  BY <1>3, <1>4 DEF Validate, Writes

\* A sequence that is not empty has a first element.
LEMMA FirstOfSeq ==
  ASSUME NEW S, NEW q \in Seq(S), q # << >>
  PROVE  q[1] \in S
OBVIOUS

\* The key and the item that a message writes are those of a table.
LEMMA WriteFits ==
  ASSUME ZoneInv, NEW u \in Updaters, upd[u].pc \in {"preread", "write", "draw", "record"}
  PROVE  /\ KeyWritten(u) \in Keys
         /\ Stored(Inserts(upd[u].msg.updates)[1].item) \in Item \cup {NilItem}
              \/ Inserts(upd[u].msg.updates) = << >>
         /\ JournalChange(u) \in Changes
<1> DEFINE rrs == upd[u].msg.updates
<1>1. upd[u].msg \in UpdateMsgs /\ Writes(rrs) /\ upd[u].old \in Item \cup {NoItem}
  BY OfUpdater DEF Progress, UpdateState
<1>2. /\ Affected(rrs) \subseteq Keys
      /\ Inserts(rrs) \in Seq([pk : Keys, item : Item \cup {NilItem}])
      /\ \A old \in Item \cup {NoItem} : ChangeOf(rrs, old) \in Changes
  BY <1>1, MessagesAssumption
<1>3. KeyWritten(u) \in Keys
  BY <1>1, <1>2 DEF KeyWritten, TheKey, Writes
<1>4. JournalChange(u) \in Changes
  BY <1>1, <1>2 DEF JournalChange
<1>5. ASSUME Inserts(rrs) # << >>
      PROVE  Stored(Inserts(rrs)[1].item) \in Item \cup {NilItem}
  <2>1. Inserts(rrs)[1] \in [pk : Keys, item : Item \cup {NilItem}]
    BY <1>2, <1>5, FirstOfSeq
  <2>2. Inserts(rrs)[1].item \in Item \cup {NilItem}
    BY <2>1
  <2> QED
    BY <2>2 DEF Stored, Item
<1> QED
  BY <1>3, <1>4, <1>5

\* The snapshot of the old item preserves the invariant: it is an item or none.
LEMMA PreReadInv ==
  ASSUME ZoneInv, NEW u \in Updaters, PreRead(u)
  PROVE  ZoneInv'
<1>1. /\ upd = [v \in Updaters |-> upd[v]] /\ UpdateState(upd[u]) /\ Progress(u)
      /\ TableTyped
  BY OfUpdater
<1>2. UNCHANGED <<tableVars, commitVars, xfr, notices, acked>> /\ upd[u].pc = "preread"
  BY DEF PreRead
<1>3. ASSUME Answer(u, "SERVFAIL") PROVE ZoneInv'
  BY <1>2, <1>3, AnswerInv
<1>4. ASSUME NEW item \in GetResults(KeyWritten(u)),
             upd' = [upd EXCEPT ![u].pc = "write", ![u].old = item]
      PROVE  ZoneInv'
  <2>1. upd' = [v \in Updaters |-> upd'[v]] /\ \A v \in Updaters \ {u} : upd'[v] = upd[v]
    BY <1>1, <1>4
  <2>2. upd'[u] = [upd[u] EXCEPT !.pc = "write", !.old = item]
    BY <1>1, <1>4
  <2>3. item \in Item \cup {NoItem}
    <3>1. KeyWritten(u) \in Keys
      BY <1>2, WriteFits
    <3>2. \A e \in Entry : Readable(e) \in Item \cup {NoItem}
      BY DEF Entry, Readable
    <3> QED
      BY <1>1, <3>1, <3>2 DEF GetResults, TableTyped
  <2>4. UpdateState(upd'[u]) /\ upd'[u].pc = "write"
    BY <1>1, <2>2, <2>3 DEF UpdateState, UpdatePcs
  <2>5. Progress(u)'
    BY <1>1, <1>2, <2>2 DEF Progress, UpdateState
  <2> QED
    BY <1>2, <2>1, <2>4, <2>5, QuietUpdate
<1> QED
  BY <1>3, <1>4 DEF PreRead

\* A write of the table, whether or not the caller is told, preserves the
\* invariant: entries only get newer.
LEMMA AppliedInv ==
  ASSUME ZoneInv, NEW u \in Updaters, upd[u].pc = "write", Applied(u),
         upd' = [v \in Updaters |-> upd'[v]], \A v \in Updaters \ {u} : upd'[v] = upd[v],
         UpdateState(upd'[u]), upd'[u].msg = upd[u].msg,
         \/ upd'[u].pc = "draw" /\ upd'[u].at = writes'
         \/ upd'[u].pc = "reply" /\ upd'[u].at = 0,
         failed' \subseteq failed \cup {writes'},
         UNCHANGED <<replica, commitVars, xfr, notices, acked>>
  PROVE  ZoneInv'
<1> USE DEF commitVars
<1>1. Committing' = Committing /\ \A v \in Committing : upd'[v] = upd[v]
  BY DEF Committing
<1>2. Unlanded' = Unlanded /\ Landed' = Landed
  BY <1>1 DEF Unlanded, Landed
<1>3. \A v \in Committing : JournalChange(v)' = JournalChange(v)
  BY <1>1 DEF JournalChange
<1>4. TableTyped /\ UpdateState(upd[u]) /\ Progress(u) /\ CommitsTyped
  BY OfUpdater
<1>5. KeyWritten(u) \in Keys /\ NewItem(u) \in Item \cup {NoItem, NilItem}
  BY WriteFits DEF NewItem
<1>6. /\ store' = [store EXCEPT ![KeyWritten(u)] = [item |-> NewItem(u), at |-> writes + 1]]
      /\ writes' = writes + 1
  BY DEF Applied
<1>7. TableTyped' /\ \A k \in Keys : store[k].at <= store'[k].at
  <2>1. store' \in [Keys -> Entry]
    BY <1>4, <1>5, <1>6 DEF TableTyped, Entry
  <2>2. Keyed(NewItem(u))
    <3>1. upd[u].msg \in UpdateMsgs /\ Writes(upd[u].msg.updates)
      BY <1>4 DEF Progress
    <3>2. Inserts(upd[u].msg.updates) \in Seq([pk : Keys, item : Item \cup {NilItem}])
      BY <3>1, MessagesAssumption
    <3>3. ASSUME Inserts(upd[u].msg.updates) # << >>
          PROVE  Inserts(upd[u].msg.updates)[1].item \in Item \cup {NilItem}
      BY <3>2, <3>3, FirstOfSeq
    <3> QED
      BY <3>3 DEF NewItem, Stored, Dynamo, Item, Keyed
  <2>3. ASSUME NEW k \in Keys
        PROVE  /\ store'[k].at <= writes' /\ replica'[k].at <= writes'
               /\ store[k].at <= store'[k].at
               /\ Keyed(store'[k].item) /\ Keyed(replica'[k].item)
    <3>1. /\ store[k].at \in Nat /\ replica[k].at \in Nat /\ writes \in Nat
          /\ store[k].at <= writes /\ replica[k].at <= writes
          /\ Keyed(store[k].item) /\ Keyed(replica[k].item)
      BY <1>4 DEF TableTyped, Entry
    <3>2. CASE k = KeyWritten(u)
      <4>1. store'[k].at = writes + 1 /\ store'[k].item = NewItem(u)
        BY <1>4, <1>6, <3>2 DEF TableTyped
      <4> QED
        BY <1>6, <2>2, <3>1, <4>1
    <3>3. CASE k # KeyWritten(u)
      <4>1. store'[k] = store[k]
        BY <1>4, <1>6, <3>3 DEF TableTyped
      <4> QED
        BY <1>6, <3>1, <4>1
    <3> QED
      BY <3>2, <3>3
  <2>4. writes' \in Nat /\ replica' = replica /\ failed' \subseteq 1 .. writes'
    BY <1>4, <1>6 DEF TableTyped
  <2>5. \A k \in Keys : Keyed(store[k].item)' /\ Keyed(replica[k].item)'
    BY <2>3 DEF Keyed
  <2> QED
    BY <1>4, <2>1, <2>3, <2>4, <2>5 DEF TableTyped
<1>8. Typed'
  BY <1>7 DEF ZoneInv, Typed, JournalTyped, CommitsTyped, UpdatersTyped, StreamsTyped, NoticesTyped
<1>9. UpdatesProgress'
  <2>1. Progress(u)'
    BY <1>4, <1>5, <1>6 DEF Progress, KeyWritten, TableTyped, Entry
  <2>2. ASSUME NEW v \in Updaters \ {u} PROVE Progress(v)'
    <3>1. Progress(v) /\ UpdateState(upd[v]) /\ KeyWritten(v)' = KeyWritten(v)
      BY OfUpdater DEF KeyWritten
    <3>2. ASSUME upd[v].pc \in {"draw", "record"} PROVE upd[v].at <= store'[KeyWritten(v)].at
      <4>1. KeyWritten(v) \in Keys
        BY <3>2, WriteFits
      <4> QED
        BY <1>4, <1>7, <3>1, <3>2, <4>1 DEF Progress, TableTyped, Entry, UpdateState
    <3> QED
      BY <3>1, <3>2 DEF Progress
  <2> QED
    BY <2>1, <2>2 DEF UpdatesProgress
<1>10. DrawnOnce'
  BY <1>1, <1>3 DEF ZoneInv, DrawnOnce
<1>11. JournalTrue' /\ ToldLanded'
  BY <1>2 DEF ZoneInv, JournalTrue, ToldLanded
<1>12. WrittenFirst'
  <2>1. ASSUME NEW s \in DOMAIN commits PROVE commits[s].at <= store'[commits[s].key].at
    <3>1. commits[s].key \in Keys /\ commits[s].at \in Nat /\ commits[s].at <= store[commits[s].key].at
      BY <1>4 DEF ZoneInv, WrittenFirst, CommitsTyped, CommitEntry
    <3> QED
      BY <1>4, <1>7, <3>1 DEF TableTyped, Entry
  <2> QED
    BY <2>1 DEF WrittenFirst
<1>13. StreamsTrue'
  BY DEF ZoneInv, StreamsTrue, StreamTrue, Continues, Replays, Ordered, ListedFresh, Full, Unwrapped
<1> QED
  BY <1>8, <1>9, <1>10, <1>11, <1>12, <1>13 DEF ZoneInv

\* Put or Delete preserves the invariant, also when it fails having done its work.
LEMMA WriteInv ==
  ASSUME ZoneInv, NEW u \in Updaters, Write(u)
  PROVE  ZoneInv'
<1>1. /\ upd = [v \in Updaters |-> upd[v]] /\ UpdateState(upd[u]) /\ Progress(u)
      /\ TableTyped
  BY OfUpdater
<1>2. UNCHANGED <<replica, commitVars, xfr, notices, acked>> /\ upd[u].pc = "write"
  BY DEF Write
<1>3. ASSUME Applied(u), upd' = [upd EXCEPT ![u].pc = "draw", ![u].at = writes'], failed' = failed
      PROVE  ZoneInv'
  <2>1. upd' = [v \in Updaters |-> upd'[v]] /\ \A v \in Updaters \ {u} : upd'[v] = upd[v]
    BY <1>1, <1>3
  <2>2. upd'[u] = [upd[u] EXCEPT !.pc = "draw", !.at = writes'] /\ writes' \in Nat
    BY <1>1, <1>3 DEF Applied, TableTyped
  <2>3. UpdateState(upd'[u]) /\ upd'[u].pc = "draw" /\ upd'[u].at = writes' /\ upd'[u].msg = upd[u].msg
    BY <1>1, <2>2 DEF UpdateState, UpdatePcs
  <2> QED
    BY <1>2, <1>3, <2>1, <2>3, AppliedInv
<1>4. ASSUME Answer(u, "SERVFAIL"), Applied(u), failed' = failed \cup {writes'} PROVE ZoneInv'
  <2>1. upd' = [v \in Updaters |-> upd'[v]] /\ \A v \in Updaters \ {u} : upd'[v] = upd[v]
    BY <1>1, <1>4 DEF Answer
  <2>2. upd'[u] = [upd[u] EXCEPT !.pc = "reply", !.rcode = "SERVFAIL"]
    BY <1>1, <1>4 DEF Answer
  <2>3. UpdateState(upd'[u]) /\ upd'[u].pc = "reply" /\ upd'[u].at = 0 /\ upd'[u].msg = upd[u].msg
    BY <1>1, <1>2, <2>2 DEF UpdateState, UpdatePcs, Progress
  <2> QED
    BY <1>2, <1>4, <2>1, <2>3, AppliedInv
<1>5. ASSUME Answer(u, "SERVFAIL"), UNCHANGED <<store, writes, failed>> PROVE ZoneInv'
  BY <1>2, <1>5, AnswerInv DEF tableVars
<1> QED
  BY <1>3, <1>4, <1>5 DEF Write

\* Serials only grow until they wrap, and a wrapped serial stays wrapped.
LEMMA UnwrappedBefore ==
  ASSUME serial \in Serials, Inc(serial) # Start, serial' = Inc(serial), Unwrapped'
  PROVE  Unwrapped /\ serial' = serial + 1
BY NextSerialFresh, ZoneAssumption DEF Unwrapped

\* Drawing a serial preserves the invariant: it is a new one, and past every
\* serial that a transfer has announced.
LEMMA DrawSerialInv ==
  ASSUME ZoneInv, NEW u \in Updaters, DrawSerial(u)
  PROVE  ZoneInv'
<1>1. /\ upd = [v \in Updaters |-> upd[v]] /\ UpdateState(upd[u]) /\ Progress(u)
      /\ TableTyped /\ CommitsTyped
  BY OfUpdater
<1>2. /\ upd[u].pc = "draw" /\ Inc(serial) # Start /\ serial' = Inc(serial)
      /\ UNCHANGED <<store, replica, writes, failed, log, xfr, notices, acked>>
  BY DEF DrawSerial, tableVars
<1>3. /\ serial' \in Serials /\ serial' \notin DOMAIN commits
      /\ SerialsUpTo(Start, serial') = DOMAIN commits \cup {serial'}
  BY <1>1, <1>2, NextSerialFresh, ZoneAssumption DEF CommitsTyped, ZoneInv, DrawnOnce
<1>4. upd' = [v \in Updaters |-> upd'[v]] /\ \A v \in Updaters \ {u} : upd'[v] = upd[v]
  BY <1>1 DEF DrawSerial
<1>5. upd'[u] = [upd[u] EXCEPT !.pc = "record", !.serial = serial']
  BY <1>1 DEF DrawSerial
<1>6. /\ UpdateState(upd'[u]) /\ upd'[u].pc = "record" /\ upd'[u].serial = serial'
      /\ upd'[u].msg = upd[u].msg /\ upd'[u].old = upd[u].old /\ upd'[u].at = upd[u].at
  BY <1>1, <1>3, <1>5 DEF UpdateState, UpdatePcs
<1>7. Committing' = Committing \cup {u} /\ u \notin Committing
  BY <1>2, <1>4, <1>6 DEF Committing
<1>8. /\ \A v \in Committing : upd'[v] = upd[v] /\ JournalChange(v)' = JournalChange(v)
      /\ JournalChange(u)' = JournalChange(u)
  BY <1>4, <1>6, <1>7 DEF JournalChange, Committing
<1>9. KeyWritten(u) \in Keys /\ JournalChange(u) \in Changes
  BY <1>2, WriteFits
<1>10. /\ DOMAIN commits' = DOMAIN commits \cup {serial'}
       /\ \A s \in DOMAIN commits : commits'[s] = commits[s]
       /\ commits'[serial'] = [key |-> KeyWritten(u), at |-> upd[u].at, change |-> JournalChange(u)]
       /\ commits' = [s \in DOMAIN commits' |-> commits'[s]]
  BY <1>3 DEF DrawSerial
<1>11. Unlanded' = Unlanded \cup {serial'}
  BY <1>6, <1>7, <1>8 DEF Unlanded
<1>12. Landed' = Landed
  BY <1>3, <1>10, <1>11 DEF Landed
<1>13. CommitsTyped'
  <2>1. commits'[serial'] \in CommitEntry
    BY <1>1, <1>9, <1>10 DEF CommitEntry, UpdateState
  <2>2. \A s \in DOMAIN commits' : commits'[s] \in CommitEntry
    BY <1>1, <1>10, <2>1 DEF CommitsTyped
  <2> QED
    BY <1>1, <1>3, <1>10, <2>2 DEF CommitsTyped
<1>14. Typed'
  <2>1. UpdatersTyped'
    BY <1>4, <1>6 DEF ZoneInv, Typed, UpdatersTyped
  <2> QED
    BY <1>2, <1>13, <2>1 DEF ZoneInv, Typed, JournalTyped, TableTyped, StreamsTyped, NoticesTyped
<1>15. UpdatesProgress'
  BY <1>2, <1>4, <1>6 DEF ZoneInv, UpdatesProgress, Progress, KeyWritten
<1>16. DrawnOnce'
  <2>1. \A v \in Committing : upd[v].serial \in DOMAIN commits /\ upd[v].serial # serial'
    BY <1>3 DEF ZoneInv, DrawnOnce
  <2>2. ASSUME NEW v \in Committing'
        PROVE  upd'[v].serial \in DOMAIN commits' /\ commits'[upd'[v].serial].change = JournalChange(v)'
    <3>1. CASE v = u
      BY <1>6, <1>8, <1>10, <3>1
    <3>2. CASE v \in Committing
      BY <1>8, <1>10, <2>1, <3>2 DEF ZoneInv, DrawnOnce
    <3> QED
      BY <1>7, <3>1, <3>2
  <2>3. \A v, w \in Committing' : upd'[v].serial = upd'[w].serial => v = w
    BY <1>6, <1>7, <1>8, <2>1 DEF ZoneInv, DrawnOnce
  <2> QED
    BY <1>3, <1>10, <2>2, <2>3 DEF DrawnOnce
<1>17. JournalTrue'
  BY <1>2, <1>10, <1>12 DEF ZoneInv, JournalTrue, Landed
<1>18. ToldLanded'
  BY <1>2, <1>4, <1>6, <1>12 DEF ZoneInv, ToldLanded
<1>19. WrittenFirst'
  BY <1>1, <1>2, <1>10 DEF ZoneInv, WrittenFirst, Progress
<1>20. StreamsTrue'
  <2> SUFFICES ASSUME NEW x \in Streams PROVE StreamTrue(x)'
    BY DEF StreamsTrue
  <2>1. StreamTrue(x) /\ StreamState(xfr[x]) /\ xfr' = xfr /\ acked' = acked
    BY <1>2 DEF ZoneInv, StreamsTrue, Typed, StreamsTyped
  <2>2. Continues(x)'
    BY <2>1 DEF StreamTrue, Continues, Replays, Full
  <2>3. ASSUME Unwrapped' PROVE Ordered(x)'
    <3>1. Unwrapped /\ serial' = serial + 1
      BY <1>1, <1>2, <2>3, UnwrappedBefore DEF CommitsTyped
    <3>2. Ordered(x)
      BY <2>1, <3>1 DEF StreamTrue
    <3>3. serial \in Int /\ xfr[x].opening \in Int
      BY <1>1, <2>1, SerialModAssumption DEF CommitsTyped, Serials, StreamState
    <3>4. Replays(x) => xfr[x].msg.serial \in Int /\ Len(xfr[x].deltas) \in Nat
      <4>1. Replays(x) => xfr[x].msg \in TransferMsgs /\ xfr[x].deltas \in Seq(Delta)
        BY <2>1 DEF StreamTrue, Continues, Replays
      <4> QED
        BY <4>1, MessagesAssumption, SerialModAssumption DEF Serials
    <3> QED
      BY <2>1, <3>1, <3>2, <3>3, <3>4 DEF Ordered, Full, Replays
  <2>4. ASSUME Unwrapped', ~Dynamo PROVE ListedFresh(x)'
    <3>1. Unwrapped /\ serial' = serial + 1
      BY <1>1, <1>2, <2>4, UnwrappedBefore DEF CommitsTyped
    <3>2. ListedFresh(x) /\ Ordered(x)
      BY <2>1, <2>4, <3>1 DEF StreamTrue
    <3>3. serial \in Int /\ xfr[x].opening \in Int
      BY <1>1, <2>1, SerialModAssumption DEF CommitsTyped, Serials, StreamState
    <3>4. xfr[x].pc \in {"close", "done"} => ~(serial' <= xfr[x].opening)
      BY <3>1, <3>2, <3>3 DEF Ordered
    <3> QED
      BY <1>10, <2>1, <3>2, <3>4 DEF ListedFresh, Full
  <2> QED
    BY <2>1, <2>2, <2>3, <2>4 DEF StreamTrue, Full
<1> QED
  BY <1>14, <1>15, <1>16, <1>17, <1>18, <1>19, <1>20 DEF ZoneInv

\* Journaling a delta preserves the invariant: its serial lands, no other does.
LEMMA RecordDeltaInv ==
  ASSUME ZoneInv, NEW u \in Updaters, RecordDelta(u)
  PROVE  ZoneInv'
<1> DEFINE s == upd[u].serial
<1>1. /\ upd = [v \in Updaters |-> upd[v]] /\ UpdateState(upd[u]) /\ Progress(u)
      /\ TableTyped /\ CommitsTyped /\ JournalTyped
  BY OfUpdater
<1>2. /\ upd[u].pc = "record" /\ Record(s, JournalChange(u))
      /\ notices' = notices \cup {[to |-> n, serial |-> s] : n \in Notifiees}
      /\ UNCHANGED <<store, replica, writes, failed, serial, commits, xfr, acked>>
  BY DEF RecordDelta, tableVars
<1>3. upd' = [v \in Updaters |-> upd'[v]] /\ \A v \in Updaters \ {u} : upd'[v] = upd[v]
  BY <1>1 DEF RecordDelta
<1>4. upd'[u] = [upd[u] EXCEPT !.pc = "reply"]
  BY <1>1 DEF RecordDelta
<1>5. /\ UpdateState(upd'[u]) /\ upd'[u].pc = "reply" /\ upd'[u].serial = s
      /\ upd'[u].msg = upd[u].msg
  BY <1>1, <1>4 DEF UpdateState, UpdatePcs
<1>6. /\ u \in Committing /\ s \in Serials /\ s \in DOMAIN commits
      /\ commits[s].change = JournalChange(u) /\ JournalChange(u) \in Changes
  BY <1>1, <1>2, WriteFits DEF Committing, UpdateState, ZoneInv, DrawnOnce
<1>7. Committing' = Committing \ {u} /\ \A v \in Committing' : upd'[v] = upd[v]
  BY <1>3, <1>5 DEF Committing
<1>8. Unlanded' = Unlanded \ {s}
  BY <1>6, <1>7 DEF Unlanded, ZoneInv, DrawnOnce
<1>9. Landed' = Landed \cup {s}
  BY <1>2, <1>6, <1>8 DEF Landed
<1>10. /\ DOMAIN log'.deltas \subseteq DOMAIN log.deltas \cup {s}
       /\ DOMAIN log'.deltas \subseteq Serials
       /\ log' \in Journal(DOMAIN log'.deltas)
       /\ \A t \in DOMAIN log'.deltas :
            log'.deltas[t] = IF t = s THEN [serial |-> s, change |-> JournalChange(u)]
                             ELSE log.deltas[t]
       /\ log'.latest = IF s > log.latest THEN s ELSE log.latest
  BY <1>1, <1>2, <1>6, RecordEffect DEF JournalTyped
<1>11. Typed'
  <2>1. UpdatersTyped'
    BY <1>3, <1>5 DEF ZoneInv, Typed, UpdatersTyped
  <2>2. JournalTyped'
    BY <1>10 DEF JournalTyped
  <2>3. NoticesTyped'
    BY <1>2, <1>6 DEF ZoneInv, Typed, NoticesTyped
  <2> QED
    BY <1>2, <2>1, <2>2, <2>3 DEF ZoneInv, Typed, TableTyped, CommitsTyped, StreamsTyped
<1>12. UpdatesProgress'
  <2>1. Progress(u)'
    BY <1>1, <1>2, <1>5 DEF Progress
  <2>2. \A v \in Updaters \ {u} : Progress(v)'
    BY <1>2, <1>3 DEF ZoneInv, UpdatesProgress, Progress, KeyWritten
  <2> QED
    BY <2>1, <2>2 DEF UpdatesProgress
<1>13. DrawnOnce'
  <2>1. \A v \in Committing' : v \in Committing /\ JournalChange(v)' = JournalChange(v)
    BY <1>7 DEF JournalChange
  <2> QED
    BY <1>2, <1>7, <2>1 DEF ZoneInv, DrawnOnce
<1>14. JournalTrue'
  <2>1. log.latest \in Int /\ s \in Int
    BY <1>1, <1>6, SerialModAssumption DEF JournalTyped, Journal, Serials
  <2>2. \A t \in Landed : t <= log.latest /\ t \in Int
    BY <1>1, SerialModAssumption DEF ZoneInv, JournalTrue, Landed, CommitsTyped, Serials
  <2>3. \A t \in Landed' : t <= log'.latest
    BY <1>9, <1>10, <2>1, <2>2
  <2>4. ASSUME NEW t \in DOMAIN log'.deltas
        PROVE  /\ t \in Landed'
               /\ log'.deltas[t] = [serial |-> t, change |-> commits'[t].change]
    BY <1>2, <1>6, <1>9, <1>10 DEF ZoneInv, JournalTrue
  <2>5. log'.latest = Start \/ log'.latest \in Landed'
    BY <1>9, <1>10 DEF ZoneInv, JournalTrue
  <2> QED
    BY <2>3, <2>4, <2>5 DEF JournalTrue
<1>15. ToldLanded'
  <2>1. \A n \in notices' : n.serial \in Landed'
    BY <1>2, <1>9 DEF ZoneInv, ToldLanded
  <2> QED
    BY <1>2, <1>3, <1>5, <1>9, <2>1 DEF ZoneInv, ToldLanded
<1>16. WrittenFirst'
  BY <1>2 DEF ZoneInv, WrittenFirst
<1>17. StreamsTrue'
  BY <1>2 DEF ZoneInv, StreamsTrue, StreamTrue, Continues, Replays, Ordered, ListedFresh, Full, Unwrapped
<1> QED
  BY <1>11, <1>12, <1>13, <1>14, <1>15, <1>16, <1>17 DEF ZoneInv

\* Sending the reply preserves the invariant: what is acknowledged has landed.
LEMMA ReplyInv ==
  ASSUME ZoneInv, NEW u \in Updaters, Reply(u)
  PROVE  ZoneInv'
<1> USE DEF tableVars, commitVars
<1>1. upd = [v \in Updaters |-> upd[v]] /\ UpdateState(upd[u]) /\ Progress(u)
  BY OfUpdater
<1>2. /\ upd[u].pc = "reply" /\ UNCHANGED <<tableVars, commitVars, xfr, notices>>
      /\ acked' = acked \/ /\ upd[u].at # 0 /\ upd[u].rcode = "NOERROR"
                           /\ acked' = acked \cup {upd[u].serial}
  BY DEF Reply
<1>3. upd' = [v \in Updaters |-> upd'[v]] /\ \A v \in Updaters \ {u} : upd'[v] = upd[v]
  BY <1>1 DEF Reply
<1>4. upd'[u] = IdleUpdate
  BY <1>1 DEF Reply
<1>5. UpdateState(upd'[u]) /\ upd'[u].pc = "idle"
  BY <1>4, SerialModAssumption DEF UpdateState, IdleUpdate, UpdatePcs, UpdateMsg, Serials
<1>6. Committing' = Committing /\ \A v \in Committing : upd'[v] = upd[v]
  BY <1>2, <1>3, <1>5 DEF Committing
<1>7. Unlanded' = Unlanded /\ Landed' = Landed
  BY <1>2, <1>6 DEF Unlanded, Landed
<1>8. \A v \in Committing : JournalChange(v)' = JournalChange(v)
  BY <1>6 DEF JournalChange
<1>9. Typed'
  BY <1>2, <1>3, <1>5 DEF ZoneInv, Typed, JournalTyped, TableTyped, CommitsTyped, UpdatersTyped,
                          StreamsTyped, NoticesTyped
<1>10. UpdatesProgress'
  BY <1>2, <1>3, <1>4 DEF ZoneInv, UpdatesProgress, Progress, KeyWritten, IdleUpdate
<1>11. DrawnOnce'
  BY <1>2, <1>6, <1>8 DEF ZoneInv, DrawnOnce
<1>12. JournalTrue' /\ WrittenFirst'
  BY <1>2, <1>7 DEF ZoneInv, JournalTrue, WrittenFirst
<1>13. ToldLanded'
  BY <1>2, <1>3, <1>5, <1>7 DEF ZoneInv, ToldLanded
<1>14. StreamsTrue'
  BY <1>2 DEF ZoneInv, StreamsTrue, StreamTrue, Continues, Replays, Ordered, ListedFresh, Full, Unwrapped
<1> QED
  BY <1>9, <1>10, <1>11, <1>12, <1>13, <1>14 DEF ZoneInv

\* NOTIFYs, a replica that catches up and stuttering preserve the invariant.
LEMMA BackgroundInv ==
  ASSUME ZoneInv,
         \/ \E n \in notices : SendNotify(n)
         \/ \E k \in Keys : Replicate(k)
         \/ UNCHANGED zoneVars
  PROVE  ZoneInv'
<1> USE DEF tableVars, commitVars
<1>1. /\ UNCHANGED <<store, writes, failed, commitVars, upd, xfr, acked>>
      /\ notices' \subseteq notices
      /\ replica' = replica \/ \E k \in Keys : replica' = [replica EXCEPT ![k] = store[k]]
  BY DEF SendNotify, Replicate, zoneVars
<1>2. Committing' = Committing /\ Unlanded' = Unlanded /\ Landed' = Landed
  BY <1>1 DEF Committing, Unlanded, Landed
<1>3. \A v \in Committing : JournalChange(v)' = JournalChange(v)
  BY <1>1 DEF JournalChange
<1>4. TableTyped'
  <2>1. TableTyped
    BY DEF ZoneInv, Typed
  <2>2. \A k \in Keys : replica'[k] \in {replica[k], store[k]}
    BY <1>1, <2>1 DEF TableTyped
  <2>3. replica' \in [Keys -> Entry]
    BY <1>1, <2>1 DEF TableTyped
  <2>4. \A k \in Keys : replica'[k].at <= writes' /\ Keyed(replica'[k].item)
    BY <1>1, <2>1, <2>2 DEF TableTyped
  <2>5. \A k \in Keys : Keyed(store[k].item)' /\ Keyed(replica[k].item)'
    BY <1>1, <2>1, <2>4 DEF TableTyped, Keyed
  <2> QED
    BY <1>1, <2>1, <2>3, <2>4, <2>5 DEF TableTyped
<1>5. Typed'
  BY <1>1, <1>4 DEF ZoneInv, Typed, JournalTyped, CommitsTyped, UpdatersTyped, StreamsTyped, NoticesTyped
<1>6. UpdatesProgress'
  BY <1>1 DEF ZoneInv, UpdatesProgress, Progress, KeyWritten
<1>7. DrawnOnce'
  BY <1>1, <1>2, <1>3 DEF ZoneInv, DrawnOnce
<1>8. JournalTrue' /\ WrittenFirst' /\ ToldLanded'
  BY <1>1, <1>2 DEF ZoneInv, JournalTrue, WrittenFirst, ToldLanded
<1>9. StreamsTrue'
  BY <1>1 DEF ZoneInv, StreamsTrue, StreamTrue, Continues, Replays, Ordered, ListedFresh, Full, Unwrapped
<1> QED
  BY <1>5, <1>6, <1>7, <1>8, <1>9 DEF ZoneInv

-----------------------------------------------------------------------------

(***************************************************************************)
(* Steps of transfer goroutines.                                           *)
(***************************************************************************)

\* What Deltas answers: the serials after since one by one, none left out that has
\* landed, and none past the serial of the zone.
LEMMA DeltasTrue ==
  ASSUME ZoneInv, NEW since \in Serials, Deltas(since) # NoDeltas
  PROVE  /\ Deltas(since) \in Seq(Delta)
         /\ \A i \in DOMAIN Deltas(since) : Deltas(since)[i].serial = since + i
         /\ \A s \in Landed : s > since => s - since \in DOMAIN Deltas(since)
         /\ Unwrapped => since + Len(Deltas(since)) <= serial
<1> DEFINE n == log.latest - since
<1>1. JournalTyped /\ CommitsTyped /\ JournalTrue /\ DrawnOnce
  BY DEF ZoneInv, Typed
<1>2. log.latest \in Int /\ since \in Int /\ serial \in Int /\ Start \in Int
  BY <1>1, SerialModAssumption, ZoneAssumption DEF JournalTyped, Journal, Serials, CommitsTyped
<1>3. /\ since <= log.latest /\ DOMAIN Deltas(since) = 1 .. n
      /\ \A i \in 1 .. n : since + i \in DOMAIN log.deltas /\ Deltas(since)[i] = log.deltas[since + i]
  BY <1>1, AnswerShape DEF JournalTyped
<1>4. Deltas(since) = [i \in 1 .. n |-> log.deltas[since + i]] /\ n \in Nat
  BY <1>2, <1>3 DEF Deltas
<1>5. \A i \in 1 .. n : log.deltas[since + i] \in Delta
  BY <1>1, <1>3 DEF JournalTyped, Journal
<1>6. Deltas(since) \in Seq(Delta) /\ Len(Deltas(since)) = n
  BY <1>4, <1>5
<1>7. ASSUME NEW i \in DOMAIN Deltas(since) PROVE Deltas(since)[i].serial = since + i
  <2>1. log.deltas[since + i] = [serial |-> since + i, change |-> commits[since + i].change]
    BY <1>1, <1>3 DEF JournalTrue
  <2> QED
    BY <1>3, <2>1
<1>8. ASSUME NEW s \in Landed, s > since PROVE s - since \in DOMAIN Deltas(since)
  <2>1. s \in Int /\ s <= log.latest
    BY <1>1, SerialModAssumption DEF JournalTrue, Landed, CommitsTyped, Serials
  <2> QED
    BY <1>2, <1>3, <1>8, <2>1
<1>9. ASSUME Unwrapped PROVE log.latest <= serial
  <2>1. Start <= serial
    BY <1>9 DEF Unwrapped
  <2>2. \A s \in Landed : s <= serial
    BY <1>1, <1>2, <2>1 DEF DrawnOnce, SerialsUpTo, Landed
  <2> QED
    BY <1>1, <2>1, <2>2 DEF JournalTrue
<1> QED
  BY <1>2, <1>6, <1>7, <1>8, <1>9

\* Acknowledged serials are not past the serial of the zone.
LEMMA AckedUpToSerial ==
  ASSUME ZoneInv, Unwrapped
  PROVE  \A s \in acked : s \in Int /\ s <= serial
<1>1. acked \subseteq SerialsUpTo(Start, serial)
  BY DEF ZoneInv, ToldLanded, Landed, DrawnOnce
<1> QED
  BY <1>1, ZoneAssumption, SerialModAssumption DEF Unwrapped, SerialsUpTo, Serials, ZoneInv, Typed,
     CommitsTyped

\* A step of one transfer goroutine reads shared state only: it preserves the
\* invariant if it keeps the goroutine's own part.
LEMMA QuietStream ==
  ASSUME ZoneInv, NEW x \in Streams,
         xfr' = [y \in Streams |-> xfr'[y]], \A y \in Streams \ {x} : xfr'[y] = xfr[y],
         StreamState(xfr'[x]), StreamTrue(x)',
         UNCHANGED <<tableVars, commitVars, upd, notices, acked>>
  PROVE  ZoneInv'
<1> USE DEF tableVars, commitVars
<1>1. Committing' = Committing /\ Unlanded' = Unlanded /\ Landed' = Landed
  BY DEF Committing, Unlanded, Landed
<1>2. \A v \in Committing : JournalChange(v)' = JournalChange(v)
  BY DEF JournalChange
<1>3. Typed'
  BY DEF ZoneInv, Typed, JournalTyped, TableTyped, Keyed, CommitsTyped, UpdatersTyped,
         StreamsTyped, NoticesTyped
<1>4. UpdatesProgress'
  BY DEF ZoneInv, UpdatesProgress, Progress, KeyWritten
<1>5. DrawnOnce'
  BY <1>1, <1>2 DEF ZoneInv, DrawnOnce
<1>6. JournalTrue' /\ WrittenFirst' /\ ToldLanded'
  BY <1>1 DEF ZoneInv, JournalTrue, WrittenFirst, ToldLanded
<1>7. ASSUME NEW y \in Streams \ {x} PROVE StreamTrue(y)'
  BY DEF ZoneInv, StreamsTrue, StreamTrue, Continues, Replays, Ordered, ListedFresh, Full, Unwrapped
<1> QED
  BY <1>3, <1>4, <1>5, <1>6, <1>7 DEF ZoneInv, StreamsTrue

\* The part of the invariant a transfer goroutine relies on.
LEMMA OfStream ==
  ASSUME ZoneInv, NEW x \in Streams
  PROVE  /\ xfr = [y \in Streams |-> xfr[y]] /\ StreamState(xfr[x]) /\ StreamTrue(x)
         /\ TableTyped /\ CommitsTyped /\ JournalTyped
BY DEF ZoneInv, Typed, StreamsTyped, StreamsTrue

\* Receiving an AXFR or IXFR preserves the invariant.
LEMMA ReceiveTransferInv ==
  ASSUME ZoneInv, NEW x \in Streams, NEW msg \in TransferMsgs, ReceiveTransfer(x, msg)
  PROVE  ZoneInv'
<1>1. xfr = [y \in Streams |-> xfr[y]] /\ StreamState(xfr[x]) /\ StreamTrue(x)
  BY OfStream
<1>2. UNCHANGED <<tableVars, commitVars, upd, notices, acked>>
  BY DEF ReceiveTransfer
<1>3. xfr' = [y \in Streams |-> xfr'[y]] /\ \A y \in Streams \ {x} : xfr'[y] = xfr[y]
  BY <1>1 DEF ReceiveTransfer
<1>4. CASE xfr'[x] = IdleStream
  <2>1. StreamState(xfr'[x])
    BY <1>4, SerialModAssumption
    DEF StreamState, IdleStream, StreamPcs, TransferMsg, EmptyMap, Serials
  <2>2. StreamTrue(x)'
    BY <1>4 DEF StreamTrue, IdleStream, Continues, Replays, Ordered, ListedFresh, EmptyMap
  <2> QED
    BY <1>2, <1>3, <2>1, <2>2, QuietStream
<1>5. ASSUME NEW pc \in {"open", "load"},
             xfr'[x] = [pc |-> pc, msg |-> msg, deltas |-> NoDeltas, opening |-> 0,
                        closing |-> 0, listed |-> EmptyMap, owed |-> acked]
      PROVE  ZoneInv'
  <2>1. StreamState(xfr'[x])
    BY <1>5, SerialModAssumption DEF StreamState, StreamPcs, TransferMsg, EmptyMap, Serials
  <2>2. StreamTrue(x)'
    BY <1>2, <1>5 DEF StreamTrue, Continues, Replays, Ordered, ListedFresh, EmptyMap, Full
  <2> QED
    BY <1>2, <1>3, <2>1, <2>2, QuietStream
<1>6. \/ xfr'[x] = IdleStream
      \/ xfr'[x] = [IdleStream EXCEPT !.pc = IF msg.type = "AXFR" THEN "open" ELSE "load",
                                      !.msg = msg, !.owed = acked]
  BY <1>1 DEF ReceiveTransfer
<1> QED
  BY <1>4, <1>5, <1>6 DEF IdleStream

\* Loading the serial, and the choice made from it, preserve the invariant.
LEMMA LoadSerialInv ==
  ASSUME ZoneInv, NEW x \in Streams, LoadSerial(x)
  PROVE  ZoneInv'
<1>1. xfr = [y \in Streams |-> xfr[y]] /\ StreamState(xfr[x]) /\ StreamTrue(x)
  BY OfStream
<1>2. UNCHANGED <<tableVars, commitVars, upd, notices, acked>> /\ xfr[x].pc = "load"
  BY DEF LoadSerial
<1>3. xfr' = [y \in Streams |-> xfr'[y]] /\ \A y \in Streams \ {x} : xfr'[y] = xfr[y]
  BY <1>1 DEF LoadSerial
<1>4. PICK pc \in {"lone", "deltas"} : xfr'[x] = [xfr[x] EXCEPT !.pc = pc]
  BY <1>1 DEF LoadSerial
<1>5. StreamState(xfr'[x])
  BY <1>1, <1>4 DEF StreamState, StreamPcs
<1>6. StreamTrue(x)'
  BY <1>1, <1>2, <1>4 DEF StreamTrue, Continues, Replays, Ordered, ListedFresh, StreamState
<1> QED
  BY <1>2, <1>3, <1>5, <1>6, QuietStream

\* The lone SOA preserves the invariant: a client at or past the serial of the
\* moment has every write that was acknowledged before it asked.
LEMMA SendLoneSOAInv ==
  ASSUME ZoneInv, NEW x \in Streams, SendLoneSOA(x)
  PROVE  ZoneInv'
<1>1. /\ xfr = [y \in Streams |-> xfr[y]] /\ StreamState(xfr[x]) /\ StreamTrue(x)
      /\ serial \in Serials
  BY OfStream DEF CommitsTyped
<1>2. UNCHANGED <<tableVars, commitVars, upd, notices, acked>> /\ xfr[x].pc = "lone"
  BY DEF SendLoneSOA
<1>3. xfr' = [y \in Streams |-> xfr'[y]] /\ \A y \in Streams \ {x} : xfr'[y] = xfr[y]
  BY <1>1 DEF SendLoneSOA
<1>4. PICK pc \in {"uptodate", "retry"} :
        /\ xfr'[x] = [xfr[x] EXCEPT !.pc = pc, !.opening = serial]
        /\ pc = "uptodate" => xfr[x].msg.serial >= serial
  BY <1>1 DEF SendLoneSOA
<1>5. /\ StreamState(xfr'[x]) /\ xfr'[x].pc = pc /\ xfr'[x].msg = xfr[x].msg
      /\ xfr'[x].owed = xfr[x].owed
  BY <1>1, <1>4 DEF StreamState, StreamPcs
<1>6. ASSUME Unwrapped, pc = "uptodate" PROVE \A s \in xfr[x].owed : s <= xfr[x].msg.serial
  <2>1. \A s \in xfr[x].owed : s \in Int /\ s <= serial
    BY <1>1, <1>6, AckedUpToSerial DEF StreamTrue
  <2>2. xfr[x].msg.serial \in Int /\ serial \in Int
    BY <1>1, <1>2, MessagesAssumption, SerialModAssumption DEF StreamTrue, Serials
  <2> QED
    BY <1>4, <1>6, <2>1, <2>2
<1>7. Unwrapped' = Unwrapped
  BY <1>2 DEF Unwrapped, commitVars
<1>8. StreamTrue(x)'
  BY <1>1, <1>2, <1>5, <1>6, <1>7 DEF StreamTrue, Continues, Replays, Ordered, ListedFresh
<1> QED
  BY <1>2, <1>3, <1>5, <1>8, QuietStream

\* Reading the journal preserves the invariant.
LEMMA ReadDeltasInv ==
  ASSUME ZoneInv, NEW x \in Streams, ReadDeltas(x)
  PROVE  ZoneInv'
<1> DEFINE since == xfr[x].msg.serial
<1>1. xfr = [y \in Streams |-> xfr[y]] /\ StreamState(xfr[x]) /\ StreamTrue(x)
  BY OfStream
<1>2. UNCHANGED <<tableVars, commitVars, upd, notices, acked>> /\ xfr[x].pc = "deltas"
  BY DEF ReadDeltas
<1>3. xfr' = [y \in Streams |-> xfr'[y]] /\ \A y \in Streams \ {x} : xfr'[y] = xfr[y]
  BY <1>1 DEF ReadDeltas
<1>4. xfr'[x] = [xfr[x] EXCEPT !.pc = "open", !.deltas = Deltas(since)]
  BY <1>1 DEF ReadDeltas
<1>5. /\ StreamState(xfr'[x]) /\ xfr'[x].pc = "open" /\ xfr'[x].msg = xfr[x].msg
      /\ xfr'[x].owed = xfr[x].owed /\ xfr'[x].deltas = Deltas(since)
      /\ xfr'[x].listed = xfr[x].listed
  BY <1>1, <1>4 DEF StreamState, StreamPcs
<1>6. since \in Serials /\ xfr[x].msg \in TransferMsgs
  BY <1>1, <1>2, MessagesAssumption DEF StreamTrue
<1>7. ASSUME Deltas(since) # NoDeltas
      PROVE  /\ Deltas(since) \in Seq(Delta)
             /\ \A i \in DOMAIN Deltas(since) : Deltas(since)[i].serial = since + i
             /\ \A s \in xfr[x].owed : s > since =>
                  \E i \in DOMAIN Deltas(since) : Deltas(since)[i].serial = s
             /\ Unwrapped => since + Len(Deltas(since)) <= serial
  <2>1. xfr[x].owed \subseteq Landed
    BY <1>1 DEF StreamTrue, ZoneInv, ToldLanded
  <2>2. ASSUME NEW s \in xfr[x].owed, s > since
        PROVE  \E i \in DOMAIN Deltas(since) : Deltas(since)[i].serial = s
    <3>1. s - since \in DOMAIN Deltas(since) /\ Deltas(since)[s - since].serial = since + (s - since)
      BY <1>6, <1>7, <2>1, <2>2, DeltasTrue
    <3>2. s \in Int /\ since \in Int
      BY <1>6, <2>1, SerialModAssumption DEF Serials, Landed, ZoneInv, Typed, CommitsTyped
    <3>3. since + (s - since) = s
      BY <3>2
    <3> QED
      BY <3>1, <3>3
  <2> QED
    BY <1>6, <1>7, <2>2, DeltasTrue
<1>8. Continues(x)'
  BY <1>5, <1>7 DEF Continues, Replays, Full
<1>9. Unwrapped' => Ordered(x)'
  BY <1>2, <1>5, <1>7 DEF Ordered, Full, Unwrapped, commitVars
<1>10. StreamTrue(x)'
  BY <1>1, <1>2, <1>5, <1>6, <1>8, <1>9 DEF StreamTrue, ListedFresh
<1> QED
  BY <1>2, <1>3, <1>5, <1>10, QuietStream

\* The opening SOA preserves the invariant: the serial of the moment covers every
\* write the client is owed and every delta that was read.
LEMMA SendOpeningSOAInv ==
  ASSUME ZoneInv, NEW x \in Streams, SendOpeningSOA(x)
  PROVE  ZoneInv'
<1>1. /\ xfr = [y \in Streams |-> xfr[y]] /\ StreamState(xfr[x]) /\ StreamTrue(x)
      /\ serial \in Serials
  BY OfStream DEF CommitsTyped
<1>2. UNCHANGED <<tableVars, commitVars, upd, notices, acked>> /\ xfr[x].pc = "open"
  BY DEF SendOpeningSOA
<1>3. xfr' = [y \in Streams |-> xfr'[y]] /\ \A y \in Streams \ {x} : xfr'[y] = xfr[y]
  BY <1>1 DEF SendOpeningSOA
<1>4. xfr'[x] = [xfr[x] EXCEPT !.opening = serial, !.pc = IF Full(x) THEN "list" ELSE "close"]
  BY <1>1 DEF SendOpeningSOA
<1>5. /\ StreamState(xfr'[x]) /\ xfr'[x].pc = (IF Full(x) THEN "list" ELSE "close")
      /\ xfr'[x].msg = xfr[x].msg /\ xfr'[x].owed = xfr[x].owed /\ xfr'[x].opening = serial
      /\ xfr'[x].deltas = xfr[x].deltas /\ xfr'[x].listed = xfr[x].listed
  BY <1>1, <1>4 DEF StreamState, StreamPcs
<1>6. /\ Full(x)' = Full(x) /\ Unwrapped' = Unwrapped /\ serial' = serial /\ serial <= serial
  BY <1>1, <1>2, <1>5, SerialModAssumption DEF Full, Unwrapped, commitVars, Serials
<1>7. Continues(x)'
  BY <1>1, <1>2, <1>5, <1>6 DEF StreamTrue, Continues, Replays
<1>8. Unwrapped' => Ordered(x)'
  <2> SUFFICES ASSUME Unwrapped PROVE Ordered(x)'
    BY <1>6
  <2>1. \A s \in xfr[x].owed : s <= serial
    BY <1>1, AckedUpToSerial DEF StreamTrue
  <2> QED
    BY <1>1, <1>2, <1>5, <1>6, <2>1 DEF StreamTrue, Ordered
<1>9. StreamTrue(x)'
  <2>1. DOMAIN xfr'[x].listed = {}
    BY <1>1, <1>2, <1>5 DEF StreamTrue
  <2> QED
    BY <1>1, <1>2, <1>5, <1>6, <1>7, <1>8, <2>1 DEF StreamTrue, ListedFresh
<1> QED
  BY <1>2, <1>3, <1>5, <1>9, QuietStream

\* Listing the table preserves the invariant: the demo store's copy has every
\* write that a serial has been drawn for.
LEMMA ListPageInv ==
  ASSUME ZoneInv, NEW x \in Streams, ListPage(x)
  PROVE  ZoneInv'
<1> DEFINE left == Keys \ DOMAIN xfr[x].listed
<1>1. /\ xfr = [y \in Streams |-> xfr[y]] /\ StreamState(xfr[x]) /\ StreamTrue(x)
      /\ TableTyped /\ CommitsTyped
  BY OfStream
<1>2. UNCHANGED <<tableVars, commitVars, upd, notices, acked>> /\ xfr[x].pc = "list"
  BY DEF ListPage
<1>3. PICK page \in (IF Dynamo THEN {{k} : k \in left} ELSE {left}) :
      \E read \in [page -> UNION {ListResults(k) : k \in page}] :
        /\ \A k \in page : read[k] \in ListResults(k)
        /\ xfr' = [xfr EXCEPT ![x].pc = IF page = left THEN "close" ELSE "list",
                              ![x].listed = [k \in DOMAIN @ \cup page |->
                                               IF k \in page THEN read[k] ELSE @[k]]]
  BY DEF ListPage
<1>4. PICK read \in [page -> UNION {ListResults(k) : k \in page}] :
        /\ \A k \in page : read[k] \in ListResults(k)
        /\ xfr' = [xfr EXCEPT ![x].pc = IF page = left THEN "close" ELSE "list",
                              ![x].listed = [k \in DOMAIN @ \cup page |->
                                               IF k \in page THEN read[k] ELSE @[k]]]
  BY <1>3
<1> DEFINE listed == [k \in DOMAIN xfr[x].listed \cup page |->
                        IF k \in page THEN read[k] ELSE xfr[x].listed[k]]
<1>5. xfr' = [y \in Streams |-> xfr'[y]] /\ \A y \in Streams \ {x} : xfr'[y] = xfr[y]
  BY <1>1, <1>4
<1>6. PICK pc \in {"close", "list"} :
        /\ xfr'[x] = [xfr[x] EXCEPT !.pc = pc, !.listed = listed]
        /\ page = left => pc = "close"
  BY <1>1, <1>4
<1>7. page \subseteq Keys
  BY <1>3
<1>8. DOMAIN listed \subseteq Keys
  BY <1>1, <1>7 DEF StreamState
<1>9. /\ xfr'[x].pc = pc /\ xfr'[x].listed = listed /\ xfr'[x].msg = xfr[x].msg
      /\ xfr'[x].deltas = xfr[x].deltas /\ xfr'[x].owed = xfr[x].owed
      /\ xfr'[x].opening = xfr[x].opening
  BY <1>1, <1>6 DEF StreamState
<1>10. StreamState(xfr'[x])
  <2> HIDE DEF listed
  <2> QED
    BY <1>1, <1>6, <1>8 DEF StreamState, StreamPcs
<1>11. Full(x) /\ Full(x)' /\ Unwrapped' = Unwrapped /\ serial' = serial /\ commits' = commits
  BY <1>1, <1>2, <1>9 DEF StreamTrue, Full, Unwrapped, commitVars
<1>12. Continues(x)'
  BY <1>11 DEF Continues, Replays
<1>13. Unwrapped' => Ordered(x)'
  BY <1>1, <1>2, <1>9, <1>11 DEF StreamTrue, Ordered
<1>14. ASSUME Unwrapped, ~Dynamo PROVE ListedFresh(x)'
  <2>1. DOMAIN xfr[x].listed = {}
    BY <1>1, <1>2, <1>14 DEF StreamTrue, ListedFresh
  <2>2. page = Keys /\ pc = "close"
    BY <1>3, <1>6, <1>14, <2>1
  <2>3. \A k \in Keys : read[k] = store[k]
    BY <1>4, <1>14, <2>2 DEF ListResults
  <2>4. \A k \in Keys : xfr'[x].listed[k] = store[k]
    BY <1>9, <2>2, <2>3
  <2>5. \A s \in DOMAIN commits : commits[s].key \in Keys /\ commits[s].at <= store[commits[s].key].at
    BY <1>1 DEF ZoneInv, WrittenFirst, CommitsTyped, CommitEntry
  <2> QED
    BY <1>9, <1>11, <2>2, <2>4, <2>5 DEF ListedFresh
<1>15. StreamTrue(x)'
  BY <1>1, <1>2, <1>9, <1>11, <1>12, <1>13, <1>14 DEF StreamTrue
<1> QED
  BY <1>2, <1>5, <1>10, <1>15, QuietStream

\* The closing SOA, and a transfer that is given up, preserve the invariant.
LEMMA EndStreamInv ==
  ASSUME ZoneInv, NEW x \in Streams, SendClosingSOA(x) \/ AbortStream(x)
  PROVE  ZoneInv'
<1>1. /\ xfr = [y \in Streams |-> xfr[y]] /\ StreamState(xfr[x]) /\ StreamTrue(x)
      /\ serial \in Serials
  BY OfStream DEF CommitsTyped
<1>2. UNCHANGED <<tableVars, commitVars, upd, notices, acked>>
  BY DEF SendClosingSOA, AbortStream
<1>3. xfr' = [y \in Streams |-> xfr'[y]] /\ \A y \in Streams \ {x} : xfr'[y] = xfr[y]
  BY <1>1 DEF SendClosingSOA, AbortStream
<1>4. /\ xfr[x].pc \in {"open", "list", "close"}
      /\ \/ xfr[x].pc = "close" /\ xfr'[x] = [xfr[x] EXCEPT !.pc = "done", !.closing = serial]
         \/ xfr'[x] = [xfr[x] EXCEPT !.pc = "aborted"]
  BY <1>1 DEF SendClosingSOA, AbortStream
<1>5. /\ StreamState(xfr'[x])
      /\ (xfr[x].pc = "close" /\ xfr'[x].pc = "done") \/ xfr'[x].pc = "aborted"
      /\ xfr'[x].listed = xfr[x].listed /\ xfr'[x].msg = xfr[x].msg
      /\ xfr'[x].deltas = xfr[x].deltas /\ xfr'[x].owed = xfr[x].owed
      /\ xfr'[x].opening = xfr[x].opening
  BY <1>1, <1>4 DEF StreamState, StreamPcs
<1>6. Full(x)' = Full(x) /\ Unwrapped' = Unwrapped /\ serial' = serial /\ commits' = commits
  BY <1>2, <1>5 DEF Full, Unwrapped, commitVars
<1>7. StreamTrue(x)'
  <2>1. Continues(x)'
    BY <1>1, <1>5, <1>6 DEF StreamTrue, Continues, Replays
  <2>2. Unwrapped' => Ordered(x)'
    BY <1>1, <1>5, <1>6 DEF StreamTrue, Ordered
  <2>3. Unwrapped' /\ ~Dynamo => ListedFresh(x)'
    BY <1>1, <1>5, <1>6 DEF StreamTrue, ListedFresh
  <2> QED
    BY <1>1, <1>2, <1>4, <1>5, <2>1, <2>2, <2>3 DEF StreamTrue
<1> QED
  BY <1>2, <1>3, <1>5, <1>7, QuietStream

-----------------------------------------------------------------------------

(***************************************************************************)
(* The invariant, and what follows from it.                                *)
(***************************************************************************)

\* The inductive invariant holds throughout.
THEOREM ZoneInvariant == Spec => []ZoneInv
<1>1. ZoneInv /\ [Next]_zoneVars => ZoneInv'
  <2> SUFFICES ASSUME ZoneInv, [Next]_zoneVars PROVE ZoneInv'
    OBVIOUS
  <2>1. ASSUME NEW u \in Updaters, UpdateStep(u) PROVE ZoneInv'
    BY <2>1, EvalPrerequisiteInv, ValidateInv, PreReadInv, WriteInv, DrawSerialInv,
       RecordDeltaInv, ReplyInv DEF UpdateStep
  <2>2. ASSUME NEW u \in Updaters, NEW msg \in UpdateMsgs, ReceiveUpdate(u, msg) PROVE ZoneInv'
    BY <2>2, ReceiveUpdateInv
  <2>3. ASSUME NEW x \in Streams, StreamStep(x) PROVE ZoneInv'
    BY <2>3, LoadSerialInv, SendLoneSOAInv, ReadDeltasInv, SendOpeningSOAInv, ListPageInv,
       EndStreamInv DEF StreamStep
  <2>4. ASSUME NEW x \in Streams, NEW msg \in TransferMsgs, ReceiveTransfer(x, msg) PROVE ZoneInv'
    BY <2>4, ReceiveTransferInv
  <2> QED
    BY <2>1, <2>2, <2>3, <2>4, BackgroundInv DEF Next, Finished
<1> QED
  BY <1>1, InitZoneInv, PTL DEF Spec

\* On the demo store, as long as no serial has wrapped, a transfer keeps no write
\* from a client that was acknowledged before the client asked: a full transfer
\* lists what it wrote or something later (handleIXFR, streamZone, commitWrite).
THEOREM AckedIsNotMissed ==
  ASSUME Backend = "demo"
  PROVE  Spec => [](Unwrapped => AckedNotMissed)
<1>0. ~Dynamo
  BY DEF Dynamo
<1>1. ZoneInv /\ Unwrapped => AckedNotMissed
  <2> SUFFICES ASSUME ZoneInv, Unwrapped, NEW x \in Streams, NEW s \in xfr[x].owed
               PROVE  /\ xfr[x].pc = "uptodate" => s <= xfr[x].msg.serial
                      /\ xfr[x].pc = "done" /\ Full(x) =>
                           /\ s <= xfr[x].opening
                           /\ xfr[x].listed[commits[s].key].at >= commits[s].at
                      /\ xfr[x].pc = "done" /\ ~Full(x) /\ s > xfr[x].msg.serial =>
                           \E i \in DOMAIN xfr[x].deltas : xfr[x].deltas[i].serial = s
    BY DEF AckedNotMissed
  <2>1. Ordered(x) /\ Continues(x) /\ ListedFresh(x)
    BY <1>0 DEF ZoneInv, StreamsTrue, StreamTrue
  <2>2. s \in DOMAIN commits
    BY DEF ZoneInv, StreamsTrue, StreamTrue, ToldLanded, Landed
  <2>3. ASSUME xfr[x].pc = "done", Full(x)
        PROVE  s <= xfr[x].opening /\ xfr[x].listed[commits[s].key].at >= commits[s].at
    <3>1. s <= xfr[x].opening
      BY <2>1, <2>3 DEF Ordered
    <3>2. commits[s].at <= xfr[x].listed[commits[s].key].at
      BY <2>1, <2>2, <2>3, <3>1 DEF ListedFresh
    <3> QED
      BY <3>1, <3>2
  <2> QED
    BY <2>1, <2>3 DEF Ordered, Continues, Replays
<1> QED
  BY <1>1, ZoneInvariant, PTL

\* As long as no serial has wrapped, an incremental transfer goes on from the
\* client's serial and ends at or before the serial of its opening SOA.
THEOREM StreamsChain == Spec => [](Unwrapped => StreamChains)
<1>1. ZoneInv /\ Unwrapped => StreamChains
  BY DEF ZoneInv, StreamsTrue, StreamTrue, Ordered, Continues, Replays, StreamChains
<1> QED
  BY <1>1, ZoneInvariant, PTL

\* On the demo store, as long as no serial has wrapped, a full transfer contains
\* every write up to the serial its opening SOA claims.
THEOREM FullTransferIsFresh ==
  ASSUME Backend = "demo"
  PROVE  Spec => [](Unwrapped => FullTransferFresh)
<1>1. ~Dynamo
  BY DEF Dynamo
<1>2. ZoneInv /\ Unwrapped => FullTransferFresh
  <2> SUFFICES ASSUME ZoneInv, Unwrapped, NEW x \in Streams, xfr[x].pc = "done", Full(x),
                      NEW s \in DOMAIN commits, s <= xfr[x].opening
               PROVE  xfr[x].listed[commits[s].key].at >= commits[s].at
    BY DEF FullTransferFresh
  <2>1. commits[s].at <= xfr[x].listed[commits[s].key].at
    BY <1>1 DEF ZoneInv, StreamsTrue, StreamTrue, ListedFresh
  <2> QED
    BY <2>1
<1> QED
  BY <1>2, ZoneInvariant, PTL

\* A NOTIFY goes out only when Deltas can no longer answer without the write it is
\* about.
THEOREM NotifiedAfterJournaling == Spec => []NotifyAfterJournal
<1>1. ZoneInv => NotifyAfterJournal
  <2> SUFFICES ASSUME ZoneInv, NEW n \in notices, NEW since \in Start .. n.serial - 1,
                      Deltas(since) # NoDeltas
               PROVE  n.serial - since \in DOMAIN Deltas(since)
    BY DEF NotifyAfterJournal
  <2>1. n.serial \in Landed /\ n.serial \in Serials
    BY DEF ZoneInv, ToldLanded, Typed, NoticesTyped
  <2>2. since \in Serials /\ n.serial > since
    BY <2>1, ZoneAssumption, SerialModAssumption DEF Serials
  <2> QED
    BY <2>1, <2>2, DeltasTrue
<1> QED
  BY <1>1, ZoneInvariant, PTL

\* As long as no serial has wrapped, the state of table, journal and goroutines is
\* well formed, every item of a dynamo table carries the key attribute, and the
\* serials drawn are those after Start up to the zone's.
THEOREM ZoneTypeCorrect == Spec => [](Unwrapped => TypeOK)
<1>1. ZoneInv /\ Unwrapped => TypeOK
  <2> SUFFICES ASSUME ZoneInv, Unwrapped PROVE TypeOK
    OBVIOUS
  <2>1. serial \in Serials /\ log \in Journal(DOMAIN log.deltas)
    BY DEF ZoneInv, Typed, CommitsTyped, JournalTyped
  <2>2. ASSUME NEW k \in Keys, NEW e \in {store[k], replica[k]}
        PROVE  /\ e.item \in Item \cup {NoItem, NilItem}
               /\ Dynamo /\ e.item # NoItem =>
                    e.item \in [body : Bodies \cup {EmptyBody}, pk : {TRUE}]
               /\ e.at \in 0 .. writes
    <3>1. e \in Entry /\ e.at <= writes /\ Keyed(e.item) /\ writes \in Nat
      BY DEF ZoneInv, Typed, TableTyped
    <3>2. e.item \in Item \cup {NoItem, NilItem} /\ e.at \in 0 .. writes
      BY <3>1 DEF Entry
    <3> QED
      BY <3>1, <3>2 DEF Keyed
  <2>3. ASSUME NEW u \in Updaters
        PROVE  /\ upd[u].pc \in UpdatePcs
               /\ upd[u].msg \in UpdateMsg /\ upd[u].old \in Item \cup {NoItem}
    BY DEF ZoneInv, Typed, UpdatersTyped, UpdateState
  <2>4. ASSUME NEW x \in Streams
        PROVE  /\ xfr[x].pc \in StreamPcs /\ xfr[x].msg \in TransferMsg
               /\ xfr[x].owed \subseteq acked /\ DOMAIN xfr[x].listed \subseteq Keys
    BY DEF ZoneInv, Typed, StreamsTyped, StreamState, StreamsTrue, StreamTrue
  <2>5. DOMAIN commits = Start + 1 .. serial /\ acked \subseteq DOMAIN commits
    BY DEF ZoneInv, DrawnOnce, SerialsUpTo, Unwrapped, ToldLanded, Landed
  <2>6. notices \subseteq [to : Notifiees, serial : DOMAIN commits]
    BY DEF ZoneInv, ToldLanded, Landed, Typed, NoticesTyped
  <2>7. failed \subseteq 1 .. writes
    BY DEF ZoneInv, Typed, TableTyped
  <2> QED
    BY <2>1, <2>2, <2>3, <2>4, <2>5, <2>6, <2>7 DEF TypeOK, UpdatePcs, StreamPcs
<1> QED
  BY <1>1, ZoneInvariant, PTL


\* A table changes without a serial only when a store call has failed.
THEOREM WritesAreAccounted == Spec => []WritesAccounted
<1>1. Init => WritesAccounted
  BY DEF Init, WritesAccounted
<1>2. ZoneInv /\ WritesAccounted /\ [Next]_zoneVars => WritesAccounted'
  <2> SUFFICES ASSUME ZoneInv, WritesAccounted, [Next]_zoneVars, NEW w \in 1 .. writes'
               PROVE  \/ \E s \in DOMAIN commits' : commits'[s].at = w
                      \/ \E u \in Updaters : upd'[u].pc = "draw" /\ upd'[u].at = w
                      \/ w \in failed'
    BY DEF WritesAccounted
  <2> DEFINE Has == \/ \E s \in DOMAIN commits : commits[s].at = w
                    \/ \E u \in Updaters : upd[u].pc = "draw" /\ upd[u].at = w
                    \/ w \in failed
  <2>0. (w \in 1 .. writes => Has) /\ writes \in Nat
    BY DEF WritesAccounted, ZoneInv, Typed, TableTyped
  <2>1. ASSUME NEW u \in Updaters, Write(u)
        PROVE  \/ \E s \in DOMAIN commits' : commits'[s].at = w
               \/ \E v \in Updaters : upd'[v].pc = "draw" /\ upd'[v].at = w
               \/ w \in failed'
    <3>1. /\ upd[u].pc = "write" /\ commits' = commits /\ failed \subseteq failed'
          /\ \A v \in Updaters \ {u} : upd'[v] = upd[v]
          /\ upd = [v \in Updaters |-> upd[v]] /\ UpdateState(upd[u])
      BY <2>1, OfUpdater DEF Write, commitVars, Answer
    <3>2. CASE w \in 1 .. writes
      BY <2>0, <3>1, <3>2
    <3>3. CASE w \notin 1 .. writes
      <4>1. w = writes' /\ Applied(u)
        BY <2>0, <2>1, <3>3 DEF Write, Applied
      <4>2. ASSUME upd' = [upd EXCEPT ![u].pc = "draw", ![u].at = writes']
            PROVE  upd'[u].pc = "draw" /\ upd'[u].at = w
        BY <3>1, <4>1, <4>2 DEF UpdateState
      <4>3. writes' # writes
        BY <2>0, <4>1 DEF Applied
      <4> QED
        BY <2>1, <4>1, <4>2, <4>3 DEF Write
    <3> QED
      BY <3>2, <3>3
  <2>2. ASSUME NEW u \in Updaters, DrawSerial(u)
        PROVE  \/ \E s \in DOMAIN commits' : commits'[s].at = w
               \/ \E v \in Updaters : upd'[v].pc = "draw" /\ upd'[v].at = w
               \/ w \in failed'
    <3>1. /\ writes' = writes /\ failed' = failed /\ \A v \in Updaters \ {u} : upd'[v] = upd[v]
          /\ DOMAIN commits' = DOMAIN commits \cup {serial'} /\ commits'[serial'].at = upd[u].at
          /\ \A s \in DOMAIN commits \ {serial'} : commits'[s] = commits[s]
      BY <2>2, OfUpdater DEF DrawSerial, tableVars
    <3>2. serial' \notin DOMAIN commits
      <4>1. serial \in Serials /\ DOMAIN commits = SerialsUpTo(Start, serial) /\ Start \in Serials
        BY ZoneAssumption DEF ZoneInv, Typed, CommitsTyped, DrawnOnce
      <4> QED
        BY <2>2, <4>1, NextSerialFresh DEF DrawSerial
    <3> QED
      BY <2>0, <3>1, <3>2
  <2>3. ASSUME writes' = writes, failed' = failed, commits' = commits,
               \A v \in Updaters : upd[v].pc = "draw" => upd'[v] = upd[v]
        PROVE  \/ \E s \in DOMAIN commits' : commits'[s].at = w
               \/ \E v \in Updaters : upd'[v].pc = "draw" /\ upd'[v].at = w
               \/ w \in failed'
    BY <2>0, <2>3
  <2>4. ASSUME NEW u \in Updaters,
               UpdateStep(u) \/ \E msg \in UpdateMsgs : ReceiveUpdate(u, msg),
               ~Write(u), ~DrawSerial(u)
        PROVE  /\ writes' = writes /\ failed' = failed /\ commits' = commits
               /\ \A v \in Updaters : upd[v].pc = "draw" => upd'[v] = upd[v]
    <3>1. upd = [v \in Updaters |-> upd[v]]
      BY OfUpdater
    <3>2. writes' = writes /\ failed' = failed /\ commits' = commits
      BY <2>4, ZenonT(40) DEF UpdateStep, EvalPrerequisite, Validate, PreRead, RecordDelta, Reply,
                  ReceiveUpdate, tableVars, commitVars
    <3>3. upd[u].pc # "draw"
      BY <2>4, ZenonT(40) DEF UpdateStep, EvalPrerequisite, Validate, PreRead, RecordDelta, Reply, ReceiveUpdate
    <3>4. \A v \in Updaters \ {u} : upd'[v] = upd[v]
      BY <2>4, <3>1, ZenonT(40) DEF UpdateStep, EvalPrerequisite, Validate, PreRead, RecordDelta, Reply,
                        ReceiveUpdate, Answer
    <3> QED
      BY <3>2, <3>3, <3>4
  <2>5. ASSUME NEW x \in Streams,
               StreamStep(x) \/ \E msg \in TransferMsgs : ReceiveTransfer(x, msg)
        PROVE  writes' = writes /\ failed' = failed /\ commits' = commits /\ upd' = upd
    BY <2>5 DEF StreamStep, LoadSerial, SendLoneSOA, ReadDeltas, SendOpeningSOA, ListPage,
                SendClosingSOA, AbortStream, ReceiveTransfer, tableVars, commitVars
  <2>6. ASSUME \/ \E n \in notices : SendNotify(n)
               \/ \E k \in Keys : Replicate(k)
               \/ Finished \/ UNCHANGED zoneVars
        PROVE  writes' = writes /\ failed' = failed /\ commits' = commits /\ upd' = upd
    BY <2>6 DEF SendNotify, Replicate, Finished, zoneVars, tableVars, commitVars
  <2> QED
    BY <2>1, <2>2, <2>3, <2>4, <2>5, <2>6 DEF Next, UpdateStep
<1> QED
  BY <1>1, <1>2, ZoneInvariant, PTL DEF Spec

-----------------------------------------------------------------------------

(***************************************************************************)
(* Names.                                                                  *)
(***************************************************************************)

\* A key is a sequence of labels, and base32 encodes every key that needs it.
EncodableKeys ==
  \A k \in Keys : k \in Seq({k[i] : i \in DOMAIN k}) /\ (~Safe(k) => k \in DOMAIN KEncode)

\* What StoredNamesResolve says of one key.
Resolves(k) ==
  \/ parseKey(Lowered(itemName(k))) = k
  \/ /\ k = << >> \/ Disguised(k)
     /\ InitialItems[k] # NoItem \/ \E label \in KLabels : KDecode[label] = k

\* A message writes a key that one of its own names denotes: a k- label brings in
\* any key, a dotted name only one that is read back.
LEMMA WrittenResolves ==
  ASSUME EncodableKeys, ZoneInv, NEW u \in Updaters, upd[u].pc = "write"
  PROVE  KeyWritten(u) \in Keys /\ Resolves(KeyWritten(u))
<1> DEFINE rrs == upd[u].msg.updates
           key == KeyWritten(u)
<1>1. upd[u].msg \in UpdateMsgs /\ Writes(rrs)
  BY OfUpdater DEF Progress
<1>2. key \in Keys /\ key # NoKey
  BY WriteFits, KeysAssumption
<1>3. PICK i \in DOMAIN rrs : key = parseKey(Lowered(rrs[i].name))
  BY <1>1 DEF Writes, KeyWritten, TheKey, Affected, KeyOf
<1> DEFINE name == Lowered(rrs[i].name)
<1>4. /\ name.labels # << >>
      /\ key = IF name.labels[1] \in KLabels THEN KDecode[name.labels[1]] ELSE name.labels
  BY <1>2, <1>3 DEF parseKey, BelowZone
<1>5. key # << >> /\ ~Disguised(key) => parseKey(Lowered(itemName(key))) = key
  BY <1>2, NameRoundTrip, ZenonT(40) DEF EncodableKeys, Plain
<1>6. CASE name.labels[1] \in KLabels
  BY <1>2, <1>4, <1>5, <1>6 DEF Resolves
<1>7. CASE name.labels[1] \notin KLabels
  BY <1>2, <1>4, <1>5, <1>7 DEF Resolves, Disguised
<1> QED
  BY <1>2, <1>6, <1>7

\* Every item can be asked for by the name that transfers list it under, whatever
\* UPDATEs wrote it, but for keys that a k- label or the first table brought in
\* (itemName, parseKey).
THEOREM StoredNamesStayResolvable ==
  ASSUME EncodableKeys
  PROVE  Spec => []StoredNamesResolve
<1>0. StoredNamesResolve <=> \A k \in Keys : store[k].item # NoItem => Resolves(k)
  BY DEF StoredNamesResolve, Resolves
<1>1. Init => StoredNamesResolve
  <2> SUFFICES ASSUME Init, NEW k \in Keys, store[k].item # NoItem PROVE Resolves(k)
    BY <1>0
  <2>1. InitialItems[k] # NoItem
    BY DEF Init
  <2>2. k # << >> /\ ~Disguised(k) => parseKey(Lowered(itemName(k))) = k
    BY NameRoundTrip DEF EncodableKeys, Plain
  <2> QED
    BY <2>1, <2>2 DEF Resolves
<1>2. ZoneInv /\ StoredNamesResolve /\ [Next]_zoneVars => StoredNamesResolve'
  <2> SUFFICES ASSUME ZoneInv, StoredNamesResolve, [Next]_zoneVars PROVE StoredNamesResolve'
    OBVIOUS
  <2>1. ASSUME NEW u \in Updaters, Write(u) PROVE StoredNamesResolve'
    <3>1. CASE store' = store
      BY <3>1 DEF StoredNamesResolve
    <3>2. CASE Applied(u)
      <4>1. \A k \in Keys \ {KeyWritten(u)} : store'[k] = store[k]
        BY <3>2 DEF Applied, ZoneInv, Typed, TableTyped
      <4>2. \A k \in Keys : store[k].item # NoItem => Resolves(k)
        BY DEF StoredNamesResolve, Resolves
      <4>3. \A k \in Keys : store'[k].item # NoItem => Resolves(k)
        BY <2>1, <4>1, <4>2, WrittenResolves DEF Write
      <4> QED
        BY <4>3 DEF StoredNamesResolve, Resolves
    <3> QED
      BY <2>1, <3>1, <3>2 DEF Write
  <2>2. CASE store' = store
    BY <2>2 DEF StoredNamesResolve
  <2>3. ASSUME NEW u \in Updaters,
               UpdateStep(u) \/ \E msg \in UpdateMsgs : ReceiveUpdate(u, msg), ~Write(u)
        PROVE  store' = store
    BY <2>3, ZenonT(40) DEF UpdateStep, EvalPrerequisite, Validate, PreRead, DrawSerial, RecordDelta, Reply,
                ReceiveUpdate, tableVars
  <2>4. ASSUME NEW x \in Streams,
               StreamStep(x) \/ \E msg \in TransferMsgs : ReceiveTransfer(x, msg)
        PROVE  store' = store
    BY <2>4 DEF StreamStep, LoadSerial, SendLoneSOA, ReadDeltas, SendOpeningSOA, ListPage,
                SendClosingSOA, AbortStream, ReceiveTransfer, tableVars
  <2>5. ASSUME \/ \E n \in notices : SendNotify(n)
               \/ \E k \in Keys : Replicate(k)
               \/ Finished \/ UNCHANGED zoneVars
        PROVE  store' = store
    BY <2>5 DEF SendNotify, Replicate, Finished, zoneVars, tableVars
  <2> QED
    BY <2>1, <2>2, <2>3, <2>4, <2>5 DEF Next
<1> QED
  BY <1>1, <1>2, ZoneInvariant, PTL DEF Spec

-----------------------------------------------------------------------------

(***************************************************************************)
(* The refinement of CommitLog, for any number of goroutines.  A goroutine *)
(* that has drawn its serial and not yet journaled its delta is a pending  *)
(* commit; DrawSerial is Draw, RecordDelta is Land, and every other step   *)
(* leaves the commits alone.                                               *)
(***************************************************************************)

\* The commits of the goroutines inside commitWrite.
Pending == {[serial |-> upd[u].serial, change |-> JournalChange(u)] : u \in Committing}

LandedChanges == [s \in Landed |-> commits[s].change]

-----------------------------------------------------------------------------

\* The two instances of the journal are the same one.
LEMMA SameJournal ==
  /\ \A s : CL!Inc(s) = Inc(s)
  /\ \A S : CL!Cardinality(S) = Cardinality(S)
  /\ \A s, change : CL!Record(s, change) <=> Record(s, change)
  /\ CL!EmptyMap = EmptyMap /\ CL!NewMemChangeLog(Start) = NewMemChangeLog(Start)
<1>1. \A S : CL!Cardinality(S) = Cardinality(S)
  BY DEF CL!Cardinality, Cardinality
<1>2. \A s : CL!Inc(s) = Inc(s)
  BY DEF CL!Inc, Inc
<1>3. \A base, n : CL!Advanced(base, n) = Advanced(base, n)
  BY DEF CL!Advanced, Advanced
<1>4. \A serials, base, n : CL!Remaining(serials, base, n) = Remaining(serials, base, n)
  BY DEF CL!Remaining, Remaining, CL!Swept, Swept, CL!Advanced, Advanced
<1>5. \A serials, base, n : CL!PruneStops(serials, base, n) <=> PruneStops(serials, base, n)
  BY <1>1, <1>4 DEF CL!PruneStops, PruneStops
<1>6. \A s : CL!Baseline(s) = Baseline(s)
  BY DEF CL!Baseline, Baseline
<1>7. \A s, change : CL!Record(s, change) <=> Record(s, change)
  BY <1>3, <1>4, <1>5, <1>6, ZenonT(60) DEF CL!Record, Record
<1> QED
  BY <1>1, <1>2, <1>7 DEF CL!EmptyMap, EmptyMap, CL!NewMemChangeLog, NewMemChangeLog, CL!Inc, Inc

\* Start-up of the server is start-up of the commit log.
LEMMA InitMapped == Init => CL!Init
<1> SUFFICES ASSUME Init PROVE CL!Init
  OBVIOUS
<1>1. Committing = {} /\ Landed = {}
  BY DEF Init, IdleUpdate, Committing, Unlanded, Landed, EmptyMap
<1>2. Pending = {} /\ LandedChanges = EmptyMap
  BY <1>1 DEF Pending, LandedChanges, EmptyMap
<1> QED
  BY <1>2, SameJournal DEF CL!Init, Pending, LandedChanges, Init

\* A step that leaves the journal, the serials and the goroutines inside
\* commitWrite alone.
NoCommit ==
  /\ UNCHANGED commitVars /\ Committing' = Committing
  /\ \A v \in Committing : upd'[v] = upd[v]

\* Such a step is no step of the commit log.
LEMMA StepStutters ==
  ASSUME ZoneInv, NoCommit
  PROVE  UNCHANGED CL!commitVars
<1> USE DEF NoCommit
<1>1. Unlanded' = Unlanded /\ Landed' = Landed
  BY DEF Unlanded, Landed, commitVars
<1>2. \A v \in Committing : JournalChange(v)' = JournalChange(v)
  BY DEF JournalChange
<1>3. Pending' = Pending /\ LandedChanges' = LandedChanges
  BY <1>1, <1>2 DEF Pending, LandedChanges, commitVars
<1> QED
  BY <1>3 DEF CL!commitVars, Pending, LandedChanges, commitVars

\* A goroutine outside commitWrite, before its step and after it, does not commit.
LEMMA OutsideCommitWrite ==
  ASSUME ZoneInv, NEW u \in Updaters, UNCHANGED commitVars,
         upd[u].pc # "record", upd'[u].pc # "record",
         \A v \in Updaters \ {u} : upd'[v] = upd[v]
  PROVE  NoCommit
BY DEF Committing, NoCommit

\* The steps of an UPDATE goroutine before and after commitWrite.
LEMMA OtherUpdateSteps ==
  ASSUME ZoneInv, NEW u \in Updaters,
         \/ \E msg \in UpdateMsgs : ReceiveUpdate(u, msg)
         \/ EvalPrerequisite(u) \/ Validate(u) \/ PreRead(u) \/ Write(u) \/ Reply(u)
  PROVE  NoCommit
<1>1. upd = [v \in Updaters |-> upd[v]] /\ UpdateState(upd[u])
  BY OfUpdater
<1>2. UNCHANGED commitVars /\ upd[u].pc # "record"
  BY DEF ReceiveUpdate, EvalPrerequisite, Validate, PreRead, Write, Reply
<1>3. ASSUME NEW r, r.pc # "record", upd' = [upd EXCEPT ![u] = r] PROVE NoCommit
  <2>1. upd'[u] = r /\ \A v \in Updaters \ {u} : upd'[v] = upd[v]
    BY <1>1, <1>3
  <2> QED
    BY <1>2, <1>3, <2>1, OutsideCommitWrite
<1>4. ASSUME NEW rcode, Answer(u, rcode) PROVE NoCommit
  <2>1. [upd[u] EXCEPT !.pc = "reply", !.rcode = rcode].pc = "reply"
    BY <1>1 DEF UpdateState
  <2> QED
    BY <1>3, <1>4, <2>1 DEF Answer
<1>5. CASE \E msg \in UpdateMsgs : ReceiveUpdate(u, msg)
  <2> PICK msg \in UpdateMsgs : ReceiveUpdate(u, msg)
    BY <1>5
  <2>1. CASE upd' = upd
    BY <1>2, <2>1, OutsideCommitWrite
  <2>2. CASE upd' # upd
    <3> DEFINE r == IF msg.zoneOK THEN [IdleUpdate EXCEPT !.pc = "prereq", !.msg = msg]
                    ELSE [IdleUpdate EXCEPT !.pc = "reply", !.msg = msg, !.rcode = "FORMERR"]
    <3>1. upd' = [upd EXCEPT ![u] = r]
      BY <2>2 DEF ReceiveUpdate
    <3>2. r.pc # "record"
      BY DEF IdleUpdate
    <3> QED
      BY <1>3, <3>1, <3>2
  <2> QED
    BY <2>1, <2>2
<1>6. CASE EvalPrerequisite(u)
  <2>1. CASE upd' = [upd EXCEPT ![u].next = @ + 1]
    <3>1. [upd[u] EXCEPT !.next = @ + 1].pc # "record"
      BY <1>1, <1>2 DEF UpdateState
    <3> QED
      BY <1>3, <2>1, <3>1
  <2> QED
    BY <1>4, <1>6, <2>1 DEF EvalPrerequisite
<1>7. CASE Validate(u)
  <2>1. [upd[u] EXCEPT !.pc = "preread"].pc # "record"
    BY <1>1 DEF UpdateState
  <2> QED
    BY <1>3, <1>4, <1>7, <2>1 DEF Validate
<1>8. CASE PreRead(u)
  <2>1. \A item : [upd[u] EXCEPT !.pc = "write", !.old = item].pc # "record"
    BY <1>1 DEF UpdateState
  <2> QED
    BY <1>3, <1>4, <1>8, <2>1, ZenonT(40) DEF PreRead
<1>9. CASE Write(u)
  <2>1. \A at : [upd[u] EXCEPT !.pc = "draw", !.at = at].pc # "record"
    BY <1>1 DEF UpdateState
  <2> QED
    BY <1>3, <1>4, <1>9, <2>1, ZenonT(40) DEF Write
<1>10. CASE Reply(u)
  BY <1>3, <1>10 DEF Reply, IdleUpdate
<1> QED
  BY <1>5, <1>6, <1>7, <1>8, <1>9, <1>10

\* Every step of the server is one half of commitWrite or has no part in it.
LEMMA StepsOfCommits ==
  ASSUME ZoneInv, [Next]_zoneVars
  PROVE  NoCommit \/ \E u \in Updaters : DrawSerial(u) \/ RecordDelta(u)
<1>1. CASE UNCHANGED <<commitVars, upd>>
  BY <1>1 DEF NoCommit, Committing
<1>2. ASSUME NEW x \in Streams, StreamStep(x) \/ \E msg \in TransferMsgs : ReceiveTransfer(x, msg)
      PROVE  UNCHANGED <<commitVars, upd>>
  BY <1>2 DEF StreamStep, ReceiveTransfer, LoadSerial, SendLoneSOA, ReadDeltas, SendOpeningSOA,
              ListPage, SendClosingSOA, AbortStream
<1>3. CASE (\E n \in notices : SendNotify(n)) \/ (\E k \in Keys : Replicate(k)) \/ UNCHANGED zoneVars
  BY <1>1, <1>3 DEF SendNotify, Replicate, zoneVars
<1> QED
  BY <1>1, <1>2, <1>3, OtherUpdateSteps DEF Next, Finished, UpdateStep

\* The first half of commitWrite is Draw: the goroutine was not inside commitWrite,
\* so there is room for its commit.
LEMMA DrawMapped ==
  ASSUME ZoneInv, NEW u \in Updaters, DrawSerial(u)
  PROVE  \E change \in Changes : CL!Draw(change)
<1>1. upd = [v \in Updaters |-> upd[v]] /\ UpdateState(upd[u]) /\ CommitsTyped
  BY OfUpdater
<1>2. /\ upd[u].pc = "draw" /\ Inc(serial) # Start /\ serial' = Inc(serial) /\ log' = log
  BY DEF DrawSerial
<1>3. /\ upd'[u] = [upd[u] EXCEPT !.pc = "record", !.serial = serial']
      /\ \A v \in Updaters \ {u} : upd'[v] = upd[v]
  BY <1>1 DEF DrawSerial
<1>4. /\ upd'[u].pc = "record" /\ upd'[u].serial = serial'
      /\ upd'[u].msg = upd[u].msg /\ upd'[u].old = upd[u].old
  BY <1>1, <1>3 DEF UpdateState
<1>5. Committing' = Committing \cup {u} /\ u \notin Committing
  BY <1>2, <1>3, <1>4, ZenonT(40) DEF Committing
<1>6. /\ \A v \in Committing : upd'[v] = upd[v] /\ JournalChange(v)' = JournalChange(v)
      /\ JournalChange(u)' = JournalChange(u)
  BY <1>3, <1>4, <1>5 DEF JournalChange, Committing
<1>7. JournalChange(u) \in Changes
  BY <1>2, WriteFits
<1>8. Pending' = Pending \cup {[serial |-> serial', change |-> JournalChange(u)]}
  BY <1>4, <1>5, <1>6 DEF Pending
<1>9. LandedChanges' = LandedChanges
  <2>1. serial' \notin DOMAIN commits
    BY <1>1, <1>2, NextSerialFresh, ZoneAssumption DEF CommitsTyped, ZoneInv, DrawnOnce
  <2>2. /\ DOMAIN commits' = DOMAIN commits \cup {serial'}
        /\ \A s \in DOMAIN commits : commits'[s] = commits[s]
    BY <2>1 DEF DrawSerial
  <2>3. Unlanded' = Unlanded \cup {serial'}
    BY <1>4, <1>5, <1>6 DEF Unlanded
  <2>4. Landed' = Landed
    BY <2>1, <2>2, <2>3 DEF Landed
  <2> QED
    BY <2>2, <2>4 DEF LandedChanges, Landed
<1>10. Cardinality(Pending) < Cardinality(Updaters)
  <2>1. IsFiniteSet(Updaters)
    BY ZoneAssumption
  <2>2. Committing \in SUBSET (Updaters \ {u})
    BY <1>5 DEF Committing
  <2>3. /\ IsFiniteSet(Updaters \ {u})
        /\ Cardinality(Updaters \ {u}) = Cardinality(Updaters) - 1
    BY <2>1, FS_RemoveElement
  <2>4. IsFiniteSet(Committing) /\ Cardinality(Committing) <= Cardinality(Updaters \ {u})
    BY <2>2, <2>3, FS_Subset
  <2> DEFINE f == [v \in Committing |-> [serial |-> upd[v].serial, change |-> JournalChange(v)]]
  <2>5. f \in Surjection(Committing, Pending)
    BY DEF Surjection, Pending
  <2>6. IsFiniteSet(Pending) /\ Cardinality(Pending) <= Cardinality(Committing)
    BY <2>4, <2>5, FS_Surjection
  <2>7. /\ Cardinality(Updaters) \in Nat /\ Cardinality(Committing) \in Nat
        /\ Cardinality(Pending) \in Nat
    BY <2>1, <2>4, <2>6, FS_CardinalityType
  <2> QED
    BY <2>3, <2>4, <2>6, <2>7
<1> QED
  BY <1>2, <1>7, <1>8, <1>9, <1>10, SameJournal DEF CL!Draw, Pending, LandedChanges

\* The second half of commitWrite is Land.
LEMMA LandMapped ==
  ASSUME ZoneInv, NEW u \in Updaters, RecordDelta(u)
  PROVE  \E p \in Pending : CL!Land(p)
<1> DEFINE s == upd[u].serial
           p == [serial |-> s, change |-> JournalChange(u)]
<1>1. upd = [v \in Updaters |-> upd[v]] /\ UpdateState(upd[u])
  BY OfUpdater
<1>2. /\ upd[u].pc = "record" /\ Record(s, JournalChange(u))
      /\ UNCHANGED <<serial, commits>>
  BY DEF RecordDelta
<1>3. /\ upd'[u] = [upd[u] EXCEPT !.pc = "reply"]
      /\ \A v \in Updaters \ {u} : upd'[v] = upd[v]
  BY <1>1 DEF RecordDelta
<1>4. upd'[u].pc = "reply"
  BY <1>1, <1>3 DEF UpdateState
<1>5. /\ u \in Committing /\ s \in DOMAIN commits /\ commits[s].change = JournalChange(u)
      /\ \A v \in Committing : upd[v].serial = s => v = u
  BY <1>2 DEF Committing, ZoneInv, DrawnOnce
<1>6. Committing' = Committing \ {u} /\ \A v \in Committing' : upd'[v] = upd[v]
  BY <1>3, <1>4 DEF Committing
<1>7. \A v \in Committing' : JournalChange(v)' = JournalChange(v)
  BY <1>6 DEF JournalChange
<1>8. Pending' = Pending \ {p} /\ p \in Pending
  BY <1>5, <1>6, <1>7 DEF Pending
<1>9. Unlanded' = Unlanded \ {s}
  BY <1>5, <1>6 DEF Unlanded
<1>10. Landed' = Landed \cup {s}
  BY <1>2, <1>5, <1>9 DEF Landed
<1>11. LandedChanges' = [t \in DOMAIN LandedChanges \cup {p.serial} |->
                           IF t = p.serial THEN p.change ELSE LandedChanges[t]]
  BY <1>2, <1>5, <1>10 DEF LandedChanges
<1> QED
  BY <1>2, <1>8, <1>11, SameJournal DEF CL!Land, Pending, LandedChanges

\* The server implements the commit log: concurrent UPDATE goroutines, transfers,
\* NOTIFYs and failing store calls do to the serial and the journal what commitWrite
\* does to them in CommitLog and nothing else.
THEOREM ZoneImplementsCommitLog == Spec => ImplementsCommitLog
<1>1. ZoneInv /\ [Next]_zoneVars => [CL!Next]_(CL!commitVars)
  <2> SUFFICES ASSUME ZoneInv, [Next]_zoneVars PROVE [CL!Next]_(CL!commitVars)
    OBVIOUS
  <2>1. ASSUME NEW u \in Updaters, DrawSerial(u) PROVE [CL!Next]_(CL!commitVars)
    BY <2>1, DrawMapped DEF CL!Next
  <2>2. ASSUME NEW u \in Updaters, RecordDelta(u) PROVE [CL!Next]_(CL!commitVars)
    BY <2>2, LandMapped DEF CL!Next, Pending
  <2> QED
    BY <2>1, <2>2, StepsOfCommits, StepStutters
<1> QED
  BY <1>1, InitMapped, ZoneInvariant, PTL DEF Spec, ImplementsCommitLog, CL!Spec

-----------------------------------------------------------------------------

(***************************************************************************)
(* The counters.                                                           *)
(***************************************************************************)

BusyUpdates == {u \in Updaters : upd[u].pc \in {"prereq", "preread", "write", "draw"}}
BusyStreams == {x \in Streams : ~Idle(x)}

\* The counters are numbers, and account for every message at most once.
CountInv ==
  /\ metrics \in [queries : Nat, updates : Nat, transfers : Nat, refused : Nat]
  /\ CountedOnce

\* How many goroutines there are when one joins, one leaves or some leave.
LEMMA Headcount ==
  ASSUME NEW S, IsFiniteSet(S), NEW T \in SUBSET S, NEW R \in SUBSET S, NEW e
  PROVE  /\ Cardinality(T) \in Nat /\ Cardinality(R) \in Nat
         /\ R \subseteq T => Cardinality(R) <= Cardinality(T)
         /\ R \subseteq T \cup {e} => Cardinality(R) <= Cardinality(T) + 1
         /\ R \subseteq T \ {e} /\ e \in T => Cardinality(R) <= Cardinality(T) - 1
<1>1. IsFiniteSet(T) /\ IsFiniteSet(R)
  BY FS_Subset
<1>2. Cardinality(T) \in Nat /\ Cardinality(R) \in Nat
  BY <1>1, FS_CardinalityType
<1>3. R \subseteq T => Cardinality(R) <= Cardinality(T)
  BY <1>1, FS_Subset
<1>4. ASSUME R \subseteq T \cup {e} PROVE Cardinality(R) <= Cardinality(T) + 1
  <2>1. /\ IsFiniteSet(T \cup {e})
        /\ Cardinality(T \cup {e}) = IF e \in T THEN Cardinality(T) ELSE Cardinality(T) + 1
    BY <1>1, FS_AddElement
  <2>2. Cardinality(R) <= Cardinality(T \cup {e})
    BY <1>4, <2>1, FS_Subset
  <2> QED
    BY <1>2, <2>1, <2>2
<1>5. ASSUME R \subseteq T \ {e}, e \in T PROVE Cardinality(R) <= Cardinality(T) - 1
  <2>1. IsFiniteSet(T \ {e}) /\ Cardinality(T \ {e}) = Cardinality(T) - 1
    BY <1>1, <1>5, FS_RemoveElement
  <2>2. Cardinality(R) <= Cardinality(T \ {e})
    BY <1>5, <2>1, FS_Subset
  <2> QED
    BY <1>2, <2>1, <2>2
<1> QED
  BY <1>2, <1>3, <1>4, <1>5

\* A step keeps the account if what it counts more of is matched by a goroutine
\* that is done with or by a query that came in.
LEMMA AccountKept ==
  ASSUME CountInv, metrics' \in [queries : Nat, updates : Nat, transfers : Nat, refused : Nat],
         metrics'.updates + metrics'.transfers + metrics'.refused
           + Cardinality(BusyUpdates') + Cardinality(BusyStreams') - metrics'.queries
         <= metrics.updates + metrics.transfers + metrics.refused
           + Cardinality(BusyUpdates) + Cardinality(BusyStreams) - metrics.queries
  PROVE  CountInv'
<1>1. /\ BusyUpdates \in SUBSET Updaters /\ BusyUpdates' \in SUBSET Updaters
      /\ BusyStreams \in SUBSET Streams /\ BusyStreams' \in SUBSET Streams
  BY DEF BusyUpdates, BusyStreams
<1>2. /\ Cardinality(BusyUpdates) \in Nat /\ Cardinality(BusyUpdates') \in Nat
      /\ Cardinality(BusyStreams) \in Nat /\ Cardinality(BusyStreams') \in Nat
  BY <1>1, Headcount, ZoneAssumption
<1> QED
  BY <1>2 DEF CountInv, CountedOnce, BusyUpdates, BusyStreams

\* Every step of an UPDATE goroutine keeps the account.
LEMMA UpdateCounted ==
  ASSUME ZoneInv, CountInv, NEW u \in Updaters,
         UpdateStep(u) \/ \E msg \in UpdateMsgs : ReceiveUpdate(u, msg)
  PROVE  CountInv'
<1>1. upd = [v \in Updaters |-> upd[v]] /\ UpdateState(upd[u])
  BY OfUpdater
<1>2. metrics \in [queries : Nat, updates : Nat, transfers : Nat, refused : Nat]
  BY DEF CountInv
<1>3. xfr' = xfr /\ \A v \in Updaters \ {u} : upd'[v] = upd[v]
  BY <1>1 DEF UpdateStep, ReceiveUpdate, EvalPrerequisite, Validate, PreRead, Write, DrawSerial,
              RecordDelta, Reply, Answer
<1>4. BusyStreams' = BusyStreams /\ BusyUpdates' \subseteq BusyUpdates \cup {u}
  BY <1>3 DEF BusyStreams, BusyUpdates, Idle
<1>5. /\ BusyUpdates \in SUBSET Updaters /\ BusyUpdates' \in SUBSET Updaters
      /\ BusyStreams \in SUBSET Streams
  BY <1>4 DEF BusyUpdates, BusyStreams
<1>6. /\ Cardinality(BusyUpdates) \in Nat /\ Cardinality(BusyUpdates') \in Nat
      /\ Cardinality(BusyStreams) \in Nat
      /\ Cardinality(BusyUpdates') <= Cardinality(BusyUpdates) + 1
      /\ BusyUpdates' \subseteq BusyUpdates => Cardinality(BusyUpdates') <= Cardinality(BusyUpdates)
      /\ BusyUpdates' \subseteq BusyUpdates \ {u} /\ u \in BusyUpdates =>
           Cardinality(BusyUpdates') <= Cardinality(BusyUpdates) - 1
  BY <1>4, <1>5, Headcount, ZoneAssumption
<1>7. ASSUME NEW msg \in UpdateMsgs, ReceiveUpdate(u, msg) PROVE CountInv'
  <2>1. CASE upd' = upd /\ metrics' = Counted(Counted(metrics, "queries"), "refused")
    <3>1. /\ metrics' \in [queries : Nat, updates : Nat, transfers : Nat, refused : Nat]
          /\ metrics'.queries = metrics.queries + 1 /\ metrics'.refused = metrics.refused + 1
          /\ metrics'.updates = metrics.updates /\ metrics'.transfers = metrics.transfers
      BY <1>2, <2>1 DEF Counted
    <3>2. BusyUpdates' \subseteq BusyUpdates
      BY <2>1 DEF BusyUpdates
    <3> QED
      BY <1>2, <1>4, <1>6, <3>1, <3>2, AccountKept
  <2>2. CASE metrics' = Counted(metrics, "queries")
    <3>1. /\ metrics' \in [queries : Nat, updates : Nat, transfers : Nat, refused : Nat]
          /\ metrics'.queries = metrics.queries + 1 /\ metrics'.refused = metrics.refused
          /\ metrics'.updates = metrics.updates /\ metrics'.transfers = metrics.transfers
      BY <1>2, <2>2 DEF Counted
    <3> QED
      BY <1>2, <1>4, <1>6, <3>1, AccountKept
  <2> QED
    BY <1>7, <2>1, <2>2 DEF ReceiveUpdate
<1>8. CASE DrawSerial(u)
  <2>1. /\ metrics' \in [queries : Nat, updates : Nat, transfers : Nat, refused : Nat]
        /\ metrics'.queries = metrics.queries /\ metrics'.refused = metrics.refused
        /\ metrics'.updates = metrics.updates + 1 /\ metrics'.transfers = metrics.transfers
    BY <1>2, <1>8 DEF DrawSerial, Counted
  <2>2. upd[u].pc = "draw" /\ upd'[u].pc = "record"
    BY <1>1, <1>8 DEF DrawSerial, UpdateState
  <2>3. BusyUpdates' \subseteq BusyUpdates \ {u} /\ u \in BusyUpdates
    BY <1>3, <2>2 DEF BusyUpdates
  <2> QED
    BY <1>2, <1>4, <1>6, <2>1, <2>3, AccountKept
<1>9. CASE EvalPrerequisite(u) \/ Validate(u) \/ PreRead(u) \/ Write(u) \/ RecordDelta(u) \/ Reply(u)
  <2>1. metrics' = metrics
    BY <1>9 DEF EvalPrerequisite, Validate, PreRead, Write, RecordDelta, Reply
  <2>2. u \in BusyUpdates' => u \in BusyUpdates
    <3>1. CASE EvalPrerequisite(u) \/ Validate(u) \/ PreRead(u) \/ Write(u)
      BY <3>1 DEF BusyUpdates, EvalPrerequisite, Validate, PreRead, Write
    <3>2. CASE RecordDelta(u) \/ Reply(u)
      <4>1. upd'[u].pc \in {"idle", "reply"}
        BY <1>1, <3>2 DEF RecordDelta, Reply, IdleUpdate, UpdateState
      <4> QED
        BY <4>1 DEF BusyUpdates
    <3> QED
      BY <1>9, <3>1, <3>2
  <2>3. BusyUpdates' \subseteq BusyUpdates
    BY <1>4, <2>2
  <2> QED
    BY <1>2, <1>4, <1>6, <2>1, <2>3, AccountKept
<1> QED
  BY <1>7, <1>8, <1>9 DEF UpdateStep

\* Every step of a transfer goroutine keeps the account.
LEMMA StreamCounted ==
  ASSUME ZoneInv, CountInv, NEW x \in Streams,
         StreamStep(x) \/ \E msg \in TransferMsgs : ReceiveTransfer(x, msg)
  PROVE  CountInv'
<1>1. xfr = [y \in Streams |-> xfr[y]] /\ StreamState(xfr[x])
  BY OfStream
<1>2. metrics \in [queries : Nat, updates : Nat, transfers : Nat, refused : Nat]
  BY DEF CountInv
<1>3. upd' = upd /\ \A y \in Streams \ {x} : xfr'[y] = xfr[y]
  BY <1>1 DEF StreamStep, ReceiveTransfer, LoadSerial, SendLoneSOA, ReadDeltas, SendOpeningSOA,
              ListPage, SendClosingSOA, AbortStream
<1>4. BusyUpdates' = BusyUpdates /\ BusyStreams' \subseteq BusyStreams \cup {x}
  BY <1>3 DEF BusyStreams, BusyUpdates, Idle
<1>5. /\ BusyStreams \in SUBSET Streams /\ BusyStreams' \in SUBSET Streams
      /\ BusyUpdates \in SUBSET Updaters
  BY <1>4 DEF BusyUpdates, BusyStreams
<1>6. /\ Cardinality(BusyStreams) \in Nat /\ Cardinality(BusyStreams') \in Nat
      /\ Cardinality(BusyUpdates) \in Nat
      /\ Cardinality(BusyStreams') <= Cardinality(BusyStreams) + 1
      /\ BusyStreams' \subseteq BusyStreams => Cardinality(BusyStreams') <= Cardinality(BusyStreams)
      /\ BusyStreams' \subseteq BusyStreams \ {x} /\ x \in BusyStreams =>
           Cardinality(BusyStreams') <= Cardinality(BusyStreams) - 1
  BY <1>4, <1>5, Headcount, ZoneAssumption
<1>7. ASSUME NEW msg \in TransferMsgs, ReceiveTransfer(x, msg) PROVE CountInv'
  <2>1. CASE xfr' = [xfr EXCEPT ![x] = IdleStream]
             /\ metrics' = Counted(Counted(metrics, "queries"), "refused")
    <3>1. /\ metrics' \in [queries : Nat, updates : Nat, transfers : Nat, refused : Nat]
          /\ metrics'.queries = metrics.queries + 1 /\ metrics'.refused = metrics.refused + 1
          /\ metrics'.updates = metrics.updates /\ metrics'.transfers = metrics.transfers
      BY <1>2, <2>1 DEF Counted
    <3>2. xfr'[x].pc = "idle"
      BY <1>1, <2>1 DEF IdleStream
    <3>3. BusyStreams' \subseteq BusyStreams
      BY <1>4, <3>2 DEF BusyStreams, Idle
    <3> QED
      BY <1>2, <1>4, <1>6, <3>1, <3>3, AccountKept
  <2>2. CASE metrics' = Counted(metrics, "queries")
    <3>1. /\ metrics' \in [queries : Nat, updates : Nat, transfers : Nat, refused : Nat]
          /\ metrics'.queries = metrics.queries + 1 /\ metrics'.refused = metrics.refused
          /\ metrics'.updates = metrics.updates /\ metrics'.transfers = metrics.transfers
      BY <1>2, <2>2 DEF Counted
    <3> QED
      BY <1>2, <1>4, <1>6, <3>1, AccountKept
  <2> QED
    BY <1>7, <2>1, <2>2 DEF ReceiveTransfer
<1>8. CASE SendClosingSOA(x)
  <2>1. /\ metrics' \in [queries : Nat, updates : Nat, transfers : Nat, refused : Nat]
        /\ metrics'.queries = metrics.queries /\ metrics'.refused = metrics.refused
        /\ metrics'.updates = metrics.updates /\ metrics'.transfers = metrics.transfers + 1
    BY <1>2, <1>8 DEF SendClosingSOA, Counted
  <2>2. xfr[x].pc = "close" /\ xfr'[x].pc = "done"
    BY <1>1, <1>8 DEF SendClosingSOA, StreamState
  <2>3. BusyStreams' \subseteq BusyStreams \ {x} /\ x \in BusyStreams
    BY <1>3, <2>2 DEF BusyStreams, Idle
  <2> QED
    BY <1>2, <1>4, <1>6, <2>1, <2>3, AccountKept
<1>9. CASE LoadSerial(x) \/ SendLoneSOA(x) \/ ReadDeltas(x) \/ SendOpeningSOA(x) \/ ListPage(x)
           \/ AbortStream(x)
  <2>1. metrics' = metrics /\ x \in BusyStreams
    BY <1>9 DEF LoadSerial, SendLoneSOA, ReadDeltas, SendOpeningSOA, ListPage, AbortStream,
                BusyStreams, Idle
  <2>2. BusyStreams' \subseteq BusyStreams
    BY <1>4, <2>1
  <2> QED
    BY <1>2, <1>4, <1>6, <2>1, <2>2, AccountKept
<1> QED
  BY <1>7, <1>8, <1>9 DEF StreamStep

\* However handlers interleave, a message is counted as an update, a transfer or a
\* refusal at most once, and never while its fate is open (Metrics, ServeDNS,
\* handleUpdate, streamZone).
THEOREM EveryMessageCountedOnce == Spec => []CountedOnce
<1>1. Init => CountInv
  <2> SUFFICES ASSUME Init PROVE CountInv
    OBVIOUS
  <2>1. BusyUpdates = {} /\ BusyStreams = {}
    BY DEF Init, BusyUpdates, BusyStreams, Idle, IdleUpdate, IdleStream
  <2>2. metrics = [queries |-> 0, updates |-> 0, transfers |-> 0, refused |-> 0]
    BY DEF Init
  <2>3. Cardinality(BusyUpdates) = 0 /\ Cardinality(BusyStreams) = 0
    BY <2>1, FS_EmptySet
  <2>4. CountedOnce
    BY <2>2, <2>3 DEF CountedOnce, BusyUpdates, BusyStreams
  <2> QED
    BY <2>2, <2>4 DEF CountInv
<1>2. ZoneInv /\ CountInv /\ [Next]_zoneVars => CountInv'
  <2> SUFFICES ASSUME ZoneInv, CountInv, [Next]_zoneVars PROVE CountInv'
    OBVIOUS
  <2>1. CASE UNCHANGED <<upd, xfr, metrics>>
    BY <2>1 DEF CountInv, CountedOnce, Idle
  <2>2. CASE (\E n \in notices : SendNotify(n)) \/ (\E k \in Keys : Replicate(k)) \/ UNCHANGED zoneVars
    BY <2>1, <2>2 DEF SendNotify, Replicate, zoneVars
  <2> QED
    BY <2>2, UpdateCounted, StreamCounted DEF Next, Finished
<1>3. CountInv => CountedOnce
  BY DEF CountInv
<1> QED
  BY <1>1, <1>2, <1>3, ZoneInvariant, PTL DEF Spec

-----------------------------------------------------------------------------

(***************************************************************************)
(* UPDATEs that do not overlap.  Three properties fail when the steps of   *)
(* two UPDATE goroutines mix.  Each of them holds, for any number of       *)
(* goroutines, if a certain stretch of processUpdate is never entered by a *)
(* second one, as with one client that waits for its answers, or with a    *)
(* mutex held over it.                                                     *)
(***************************************************************************)

\* At most one UPDATE goroutine is at one of these places.
Exclusive(pcs) == \A u, v \in Updaters : upd[u].pc \in pcs /\ upd[v].pc \in pcs => u = v

\* Between drawing a serial and journaling it.
InCommitWrite == {"record"}

JournalInOrder ==
  Unwrapped =>
    /\ Committing = {} => InOrder(log, Start, serial)
    /\ \A u \in Committing :
         upd[u].serial = serial /\ Start < serial /\ InOrder(log, Start, serial - 1)

\* The README's promise on the journal, "holds the last 4096 changes": if no commit
\* overtakes another between serial.Add and Record, every client at most Cap changes
\* behind is served deltas.
THEOREM OrderedCommitsAreAnswered ==
  Spec /\ []Exclusive(InCommitWrite) => []RecentClientsAnswered
<1>1. Init => JournalInOrder
  BY NewIsInOrder, ZoneAssumption DEF Init, JournalInOrder, Committing, IdleUpdate
<1>2. ZoneInv /\ JournalInOrder /\ Exclusive(InCommitWrite) /\ Exclusive(InCommitWrite)'
        /\ [Next]_zoneVars => JournalInOrder'
  <2> SUFFICES ASSUME ZoneInv, JournalInOrder, Exclusive(InCommitWrite), Exclusive(InCommitWrite)',
                      [Next]_zoneVars, Unwrapped'
               PROVE  /\ Committing' = {} => InOrder(log', Start, serial')
                      /\ \A u \in Committing' : /\ upd'[u].serial = serial' /\ Start < serial'
                                                /\ InOrder(log', Start, serial' - 1)
    BY DEF JournalInOrder
  <2>1. CASE NoCommit
    BY <2>1 DEF NoCommit, commitVars, JournalInOrder, Unwrapped
  <2>2. ASSUME NEW u \in Updaters, DrawSerial(u)
        PROVE  /\ Committing' = {u} /\ upd'[u].serial = serial' /\ Start < serial'
               /\ InOrder(log', Start, serial' - 1)
    <3>1. upd = [v \in Updaters |-> upd[v]] /\ UpdateState(upd[u]) /\ serial \in Serials
      BY OfUpdater DEF CommitsTyped
    <3>2. upd'[u].pc = "record" /\ upd'[u].serial = serial' /\ log' = log
      BY <2>2, <3>1 DEF DrawSerial, UpdateState
    <3>3. Committing' = {u}
      BY <3>2 DEF Exclusive, InCommitWrite, Committing
    <3>4. Committing = {}
      <4>1. \A v \in Updaters \ {u} : upd'[v] = upd[v]
        BY <2>2, <3>1 DEF DrawSerial
      <4> QED
        BY <2>2, <3>3, <4>1 DEF Committing, DrawSerial
    <3>5. Unwrapped /\ serial' = serial + 1
      BY <2>2, <3>1, NextSerialFresh, ZoneAssumption DEF DrawSerial, Unwrapped
    <3>6. serial' - 1 = serial /\ Start < serial'
      BY <3>1, <3>5, ZoneAssumption DEF Serials, Unwrapped
    <3> QED
      BY <3>2, <3>3, <3>4, <3>5, <3>6 DEF JournalInOrder
  <2>3. ASSUME NEW u \in Updaters, RecordDelta(u)
        PROVE  Committing' = {} /\ InOrder(log', Start, serial')
    <3>1. /\ upd = [v \in Updaters |-> upd[v]] /\ UpdateState(upd[u])
          /\ serial \in Serials /\ log \in Journal(DOMAIN log.deltas)
      BY OfUpdater DEF CommitsTyped, JournalTyped
    <3>2. upd[u].pc = "record" /\ upd'[u].pc = "reply" /\ \A v \in Updaters \ {u} : upd'[v] = upd[v]
      BY <2>3, <3>1 DEF RecordDelta, UpdateState
    <3>3. Committing = {u} /\ Committing' = {}
      BY <3>2 DEF Committing, Exclusive, InCommitWrite
    <3>4. serial' = serial /\ Unwrapped /\ Record(upd[u].serial, JournalChange(u))
      BY <2>3 DEF RecordDelta, Unwrapped
    <3>5. upd[u].serial = serial /\ Start < serial /\ InOrder(log, Start, serial - 1)
      BY <3>3, <3>4 DEF JournalInOrder
    <3>6. JournalChange(u) \in Changes
      BY <3>2, WriteFits
    <3>7. /\ serial - 1 \in Serials /\ Start <= serial - 1 /\ (serial - 1) + 1 = serial
      BY <3>1, <3>5, ZoneAssumption, SerialModAssumption DEF Serials
    <3>8. InOrder(log', Start, (serial - 1) + 1)
      BY <3>1, <3>4, <3>5, <3>6, <3>7, RecordInOrder, ZoneAssumption
    <3> QED
      BY <3>3, <3>4, <3>7, <3>8
  <2> QED
    BY <2>1, <2>2, <2>3, StepsOfCommits
<1>3. ZoneInv /\ JournalInOrder => RecentClientsAnswered
  <2> SUFFICES ASSUME ZoneInv, JournalInOrder, Committing = {}, Unwrapped, serial < SerialMod - 1,
                      NEW since \in Start .. serial, serial - since <= Cap
               PROVE  Deltas(since) # NoDeltas
    BY DEF RecentClientsAnswered, CL!RecentClientsAnswered, CL!Deltas, Deltas, CL!Dec, Dec,
           CL!Unbroken, Unbroken, Committing, Unwrapped
  <2> QED
    BY InOrderAnswers, ZoneAssumption
    DEF JournalInOrder, ZoneInv, Typed, CommitsTyped, JournalTyped, Unwrapped
<1> QED
  BY <1>1, <1>2, <1>3, ZoneInvariant, PTL DEF Spec

\* Every step is a step of one UPDATE goroutine, which leaves the others alone, or
\* has no part in UPDATEs.
LEMMA StepsOfUpdates ==
  ASSUME ZoneInv, [Next]_zoneVars
  PROVE  \/ UNCHANGED <<store, commitVars, upd>>
         \/ \E u \in Updaters :
              /\ UpdateStep(u) \/ \E msg \in UpdateMsgs : ReceiveUpdate(u, msg)
              /\ \A v \in Updaters \ {u} : upd'[v] = upd[v]
              /\ ~Write(u) => store' = store
<1>1. ASSUME NEW x \in Streams, StreamStep(x) \/ \E msg \in TransferMsgs : ReceiveTransfer(x, msg)
      PROVE  UNCHANGED <<store, commitVars, upd>>
  BY <1>1 DEF StreamStep, ReceiveTransfer, LoadSerial, SendLoneSOA, ReadDeltas, SendOpeningSOA,
              ListPage, SendClosingSOA, AbortStream, tableVars
<1>2. ASSUME (\E n \in notices : SendNotify(n)) \/ (\E k \in Keys : Replicate(k)) \/ UNCHANGED zoneVars
      PROVE  UNCHANGED <<store, commitVars, upd>>
  BY <1>2 DEF SendNotify, Replicate, zoneVars, tableVars
<1>3. ASSUME NEW u \in Updaters, UpdateStep(u) \/ \E msg \in UpdateMsgs : ReceiveUpdate(u, msg)
      PROVE  /\ \A v \in Updaters \ {u} : upd'[v] = upd[v]
             /\ ~Write(u) => store' = store
  <2>1. upd = [v \in Updaters |-> upd[v]]
    BY OfUpdater
  <2> QED
    BY <1>3, <2>1 DEF UpdateStep, ReceiveUpdate, EvalPrerequisite, Validate, PreRead, Write,
                      DrawSerial, RecordDelta, Reply, Answer, tableVars
<1> QED
  BY <1>1, <1>2, <1>3 DEF Next, Finished

\* From the first prerequisite to the write.
UntilWritten == {"prereq", "preread", "write"}

\* A prerequisite is met by a table.
MetBy(table, rr) == Required(rr, Readable(table[KeyOf(rr)]))

\* The prerequisites that a goroutine has gone through are met.
PassedAreMet(r, table) ==
  r.pc \in UntilWritten =>
    \A i \in DOMAIN r.msg.prereqs :
      r.pc # "prereq" \/ i < r.next => MetBy(table, r.msg.prereqs[i])

\* evalPrerequisites lets an RR pass only if it is met by the item it has read.
LEMMA VerdictIsRight ==
  ASSUME NEW rr, NEW item, PrereqVerdict(rr, item) = "NOERROR"
  PROVE  Required(rr, item)
<1>1. CASE rr.class = "ANY" /\ rr.type \in {"ANY", "TXT"}
  BY <1>1 DEF PrereqVerdict, Required
<1>2. CASE rr.class = "NONE" /\ rr.type \in {"ANY", "TXT"}
  BY <1>2 DEF PrereqVerdict, Required
<1>3. CASE rr.class = "IN" /\ rr.type = "TXT"
  BY <1>3 DEF PrereqVerdict, Required
<1>4. CASE /\ ~(rr.class = "ANY" /\ rr.type \in {"ANY", "TXT"})
           /\ ~(rr.class = "NONE" /\ rr.type \in {"ANY", "TXT"})
           /\ ~(rr.class = "IN" /\ rr.type = "TXT")
  BY <1>4 DEF PrereqVerdict
<1> QED
  BY <1>1, <1>2, <1>3, <1>4

\* Prerequisites and write are atomic, as RFC 2136 wants them, if reads of the table
\* are consistent and no two UPDATE goroutines are between the first prerequisite
\* and the write at the same time (processUpdate, evalPrerequisites).
THEOREM LonePrereqsHoldAtWrite ==
  ASSUME ~Dynamo \/ Consistent
  PROVE  Spec /\ []Exclusive(UntilWritten) => PrereqsHoldAtWrite
<1> DEFINE I == \A u \in Updaters : PassedAreMet(upd[u], store)
<1>1. Init => I
  BY DEF Init, PassedAreMet, UntilWritten, IdleUpdate
<1>2. ZoneInv /\ I /\ Exclusive(UntilWritten) /\ [Next]_zoneVars => I'
  <2> SUFFICES ASSUME ZoneInv, I, Exclusive(UntilWritten), [Next]_zoneVars, NEW v \in Updaters
               PROVE  PassedAreMet(upd'[v], store')
    BY DEF PassedAreMet, MetBy
  <2>1. PassedAreMet(upd[v], store)
    OBVIOUS
  <2>2. CASE upd'[v] = upd[v] /\ store' = store
    BY <2>1, <2>2
  <2>3. CASE upd'[v].pc \notin UntilWritten
    BY <2>3 DEF PassedAreMet
  <2>4. ASSUME NEW u \in Updaters, Write(u) PROVE PassedAreMet(upd'[v], store')
    <3>1. /\ upd = [w \in Updaters |-> upd[w]] /\ UpdateState(upd[u]) /\ upd[u].pc = "write"
          /\ \A w \in Updaters \ {u} : upd'[w] = upd[w]
      BY <2>4, OfUpdater DEF Write, Answer
    <3>2. CASE v = u
      <4>1. upd'[u].pc \in {"draw", "reply"}
        BY <2>4, <3>1 DEF Write, Answer, UpdateState
      <4> QED
        BY <2>3, <3>2, <4>1 DEF UntilWritten
    <3>3. CASE v # u
      BY <2>3, <3>1, <3>3 DEF Exclusive, UntilWritten
    <3> QED
      BY <3>2, <3>3
  <2>5. ASSUME NEW u \in Updaters, u = v, store' = store, upd'[u] # upd[u],
               UpdateStep(u) \/ \E msg \in UpdateMsgs : ReceiveUpdate(u, msg), ~Write(u)
        PROVE  PassedAreMet(upd'[u], store)
    <3>1. /\ upd = [w \in Updaters |-> upd[w]] /\ UpdateState(upd[u]) /\ Progress(u)
      BY OfUpdater
    <3>2. ASSUME NEW rcode, Answer(u, rcode) PROVE PassedAreMet(upd'[u], store)
      <4>1. upd'[u].pc = "reply"
        BY <3>1, <3>2 DEF Answer, UpdateState
      <4> QED
        BY <4>1 DEF PassedAreMet, UntilWritten
    <3>3. CASE EvalPrerequisite(u)
      <4> DEFINE rr == upd[u].msg.prereqs[upd[u].next]
      <4>1. ASSUME NEW item \in GetResults(KeyOf(rr)), PrereqVerdict(rr, item) = "NOERROR",
                   upd' = [upd EXCEPT ![u].next = @ + 1]
            PROVE  PassedAreMet(upd'[u], store)
        <5>1. MetBy(store, rr)
          BY <4>1, VerdictIsRight DEF MetBy, GetResults
        <5>2. /\ upd'[u].pc = "prereq" /\ upd'[u].next = upd[u].next + 1 /\ upd'[u].msg = upd[u].msg
              /\ upd[u].pc = "prereq" /\ upd[u].next \in Nat /\ upd[u].msg \in UpdateMsgs
          BY <3>1, <3>3, <4>1 DEF UpdateState, EvalPrerequisite, Progress
        <5>3. \A i \in DOMAIN upd[u].msg.prereqs : i \in Nat
          BY <5>2, MessagesAssumption
        <5>4. \A i \in DOMAIN upd[u].msg.prereqs :
                 i < upd[u].next => MetBy(store, upd[u].msg.prereqs[i])
          BY <2>1, <2>5, <5>2 DEF PassedAreMet, UntilWritten
        <5> QED
          BY <5>1, <5>2, <5>3, <5>4 DEF PassedAreMet
      <4> QED
        BY <3>2, <3>3, <4>1 DEF EvalPrerequisite
    <3>4. CASE Validate(u)
      <4>1. ASSUME upd' = [upd EXCEPT ![u].pc = "preread"] PROVE PassedAreMet(upd'[u], store)
        <5>1. /\ upd'[u].pc = "preread" /\ upd'[u].msg = upd[u].msg /\ upd[u].msg \in UpdateMsgs
              /\ upd[u].pc = "prereq" /\ upd[u].next \in Nat
              /\ upd[u].next > Len(upd[u].msg.prereqs)
          BY <3>1, <3>4, <4>1 DEF UpdateState, Validate, Progress
        <5>2. \A i \in DOMAIN upd[u].msg.prereqs : i < upd[u].next
          BY <5>1, MessagesAssumption
        <5> QED
          BY <2>1, <2>5, <5>1, <5>2 DEF PassedAreMet, UntilWritten
      <4> QED
        BY <3>2, <3>4, <4>1 DEF Validate
    <3>5. CASE PreRead(u)
      <4>1. ASSUME NEW item, upd' = [upd EXCEPT ![u].pc = "write", ![u].old = item]
            PROVE  PassedAreMet(upd'[u], store)
        <5>1. upd'[u].pc = "write" /\ upd'[u].msg = upd[u].msg /\ upd[u].pc = "preread"
          BY <3>1, <3>5, <4>1 DEF UpdateState, PreRead
        <5> QED
          BY <2>1, <2>5, <5>1 DEF PassedAreMet, UntilWritten
      <4> QED
        BY <3>2, <3>5, <4>1 DEF PreRead
    <3>6. CASE DrawSerial(u) \/ RecordDelta(u) \/ Reply(u)
      <4>1. upd'[u].pc \in {"record", "reply", "idle"}
        BY <3>1, <3>6 DEF DrawSerial, RecordDelta, Reply, IdleUpdate, UpdateState
      <4> QED
        BY <4>1 DEF PassedAreMet, UntilWritten
    <3>7. ASSUME NEW msg \in UpdateMsgs, ReceiveUpdate(u, msg) PROVE PassedAreMet(upd'[u], store)
      <4>1. upd'[u] \in {[IdleUpdate EXCEPT !.pc = "prereq", !.msg = msg],
                         [IdleUpdate EXCEPT !.pc = "reply", !.msg = msg, !.rcode = "FORMERR"]}
        BY <2>5, <3>1, <3>7 DEF ReceiveUpdate
      <4>2. upd'[u].pc = "reply" \/ (upd'[u].pc = "prereq" /\ upd'[u].msg = msg /\ upd'[u].next = 1)
        BY <4>1 DEF IdleUpdate
      <4>3. \A i \in DOMAIN msg.prereqs : ~(i < 1)
        BY MessagesAssumption
      <4> QED
        BY <4>2, <4>3 DEF PassedAreMet, UntilWritten
    <3> QED
      BY <2>5, <3>3, <3>4, <3>5, <3>6, <3>7 DEF UpdateStep
  <2> QED
    BY <2>2, <2>4, <2>5, StepsOfUpdates
<1>3. ZoneInv /\ I => \A u \in Updaters : upd[u].pc = "write" =>
                        \A i \in DOMAIN upd[u].msg.prereqs : MetBy(store, upd[u].msg.prereqs[i])
  BY DEF PassedAreMet, UntilWritten
<1> HIDE DEF I
<1>4. ZoneInv /\ I /\ [Next]_zoneVars =>
        [\A u \in Updaters : upd[u].pc = "write" /\ upd'[u].pc = "draw" =>
           \A i \in DOMAIN upd[u].msg.prereqs :
             LET rr == upd[u].msg.prereqs[i]
             IN  Required(rr, Readable(store[KeyOf(rr)]))]_zoneVars
  BY <1>3 DEF MetBy
<1> QED
  BY <1>1, <1>2, <1>4, ZoneInvariant, PTL DEF Spec, PrereqsHoldAtWrite

-----------------------------------------------------------------------------

\* Between reading the old item and drawing the serial.
InReplacement == {"write", "draw"}

\* Items of different keys are listed under different names.
NamesDistinct == \A k, l \in Keys : itemName(k) = itemName(l) => k = l

TableItems == [k \in Keys |-> store[k].item]

\* One item replaced in the table is one change of the zone.
LEMMA RenderedReplaced ==
  ASSUME NamesDistinct, NEW items, NEW key \in Keys, NEW new,
         NEW change, change.removed = IF items[key] = NoItem THEN {} ELSE itemRRs(key, items[key]),
         change.added = IF new = NoItem THEN {} ELSE itemRRs(key, new)
  PROVE  Patch(Rendered(items), change) = Rendered([k \in Keys |-> IF k = key THEN new ELSE items[k]])
<1> DEFINE rrs(k, item) == IF item = NoItem THEN {} ELSE itemRRs(k, item)
           others == UNION {rrs(k, items[k]) : k \in Keys \ {key}}
           replaced == [k \in Keys |-> IF k = key THEN new ELSE items[k]]
<1>1. Rendered(items) = others \cup rrs(key, items[key])
  BY DEF Rendered
<1>2. Rendered(replaced) = others \cup rrs(key, new)
  <2>1. others = UNION {rrs(k, replaced[k]) : k \in Keys \ {key}}
    OBVIOUS
  <2> QED
    BY <2>1 DEF Rendered
<1>3. others \cap rrs(key, items[key]) = {}
  <2> SUFFICES ASSUME NEW k \in Keys \ {key}, NEW rr \in rrs(k, items[k]), rr \in rrs(key, items[key])
               PROVE  FALSE
    OBVIOUS
  <2>1. rr.name = itemName(k) /\ rr.name = itemName(key)
    BY DEF itemRRs
  <2> QED
    BY <2>1 DEF NamesDistinct
<1>4. Patch(Rendered(items), change) = (Rendered(items) \ rrs(key, items[key])) \cup rrs(key, new)
  BY DEF Patch
<1> HIDE DEF rrs, others, replaced
<1> QED
  BY <1>1, <1>2, <1>3, <1>4 DEF replaced

\* An exact delta is the replacement of the item that processUpdate found by the item
\* it stores.
LEMMA ChangeIsReplacement ==
  ASSUME ZoneInv, NEW u \in Updaters, upd[u].pc = "write",
         ExactDelta(KeyWritten(u), JournalChange(u))
  PROVE  /\ NewItem(u) \in Item \cup {NoItem} /\ KeyWritten(u) \in Keys
         /\ JournalChange(u).removed =
              IF upd[u].old = NoItem THEN {} ELSE itemRRs(KeyWritten(u), upd[u].old)
         /\ JournalChange(u).added =
              IF NewItem(u) = NoItem THEN {} ELSE itemRRs(KeyWritten(u), NewItem(u))
<1> DEFINE rrs == upd[u].msg.updates
           RRsOf(i) == itemRRs(Inserts(rrs)[i].pk, Inserts(rrs)[i].item)
<1>1. upd[u].msg \in UpdateMsgs /\ Writes(rrs) /\ KeyWritten(u) \in Keys
  BY OfUpdater, WriteFits DEF Progress
<1>2. JournalChange(u).removed = IF upd[u].old = NoItem THEN {} ELSE itemRRs(KeyWritten(u), upd[u].old)
  BY DEF JournalChange, ChangeOf, KeyWritten
<1>3. JournalChange(u).added = UNION {RRsOf(i) : i \in DOMAIN Inserts(rrs)}
  BY DEF JournalChange, ChangeOf
<1>4. CASE Inserts(rrs) = << >>
  <2>1. JournalChange(u).added = {}
    BY <1>3, <1>4
  <2> QED
    BY <1>1, <1>2, <1>4, <2>1 DEF NewItem
<1>5. CASE Inserts(rrs) # << >>
  <2>1. 1 \in DOMAIN Inserts(rrs)
    <3>1. Inserts(rrs) \in Seq([pk : Keys, item : Item \cup {NilItem}])
      BY <1>1, MessagesAssumption
    <3> QED
      BY <1>5, <3>1
  <2>2. RRsOf(1) \subseteq JournalChange(u).added
    BY <1>3, <2>1
  <2>3. RRsOf(1) = {[name |-> itemName(Inserts(rrs)[1].pk), txt |-> Text(Inserts(rrs)[1].item)]}
    BY DEF itemRRs
  <2>4. PICK item \in Item : Stored(item) = item /\ JournalChange(u).added = itemRRs(KeyWritten(u), item)
    BY <2>2, <2>3 DEF ExactDelta
  <2>5. [name |-> itemName(Inserts(rrs)[1].pk), txt |-> Text(Inserts(rrs)[1].item)]
          = [name |-> itemName(KeyWritten(u)), txt |-> Text(item)]
    BY <2>2, <2>3, <2>4 DEF itemRRs
  <2>6. Text(Inserts(rrs)[1].item) = Text(item)
    BY <2>5
  <2>7. Inserts(rrs)[1].item = item
    BY <2>6 DEF Text
  <2>8. NewItem(u) = item /\ item # NoItem
    BY <1>5, <2>4, <2>7, ItemAssumption DEF NewItem
  <2> QED
    BY <1>1, <1>2, <2>4, <2>8
<1> QED
  BY <1>4, <1>5

\* Every serial drawn adds its change to the zone that the deltas rebuild.
LEMMA ReplayedStep ==
  ASSUME ZoneInv, NEW u \in Updaters, DrawSerial(u), Unwrapped'
  PROVE  Unwrapped /\ Replayed(serial)' = Patch(Replayed(serial), JournalChange(u))
<1>1. serial \in Serials /\ DOMAIN commits = SerialsUpTo(Start, serial)
  BY OfUpdater DEF CommitsTyped, ZoneInv, DrawnOnce
<1>2. Unwrapped /\ serial' = serial + 1
  BY <1>1, UnwrappedBefore DEF DrawSerial
<1>3. /\ Start \in Int /\ serial \in Int /\ Start <= serial
      /\ DOMAIN commits = Start + 1 .. serial
  BY <1>1, <1>2, ZoneAssumption, SerialModAssumption DEF Serials, SerialsUpTo, Unwrapped
<1> DEFINE ds == [i \in 1 .. serial - Start |-> commits[Start + i]]
           es == [i \in 1 .. serial' - Start |-> commits'[Start + i]]
<1>4. /\ \A s \in Start + 1 .. serial : commits'[s] = commits[s]
      /\ commits'[serial'].change = JournalChange(u)
  BY <1>2, <1>3 DEF DrawSerial
<1>5. serial' - Start = (serial - Start) + 1 /\ serial - Start \in Nat
  BY <1>2, <1>3
<1>6. Len(ds) = serial - Start
  BY <1>5
<1>7. Len(es) = (serial - Start) + 1
  BY <1>5
<1>8. \A i \in 1 .. Len(ds) : es[i] = ds[i]
  BY <1>3, <1>4, <1>5, <1>6
<1>9. es[Len(es)].change = JournalChange(u)
  <2>1. Start + ((serial - Start) + 1) = serial'
    BY <1>2, <1>3
  <2> QED
    BY <1>4, <1>5, <1>7, <2>1
<1>10. Replayed(serial) = Patched(Rendered(InitialItems), ds)
  BY DEF Replayed
<1>11. Replayed(serial)' = Patched(Rendered(InitialItems), es)
  BY DEF Replayed
<1> HIDE DEF ds, es
<1>12. Patched(Rendered(InitialItems), es) = Patch(Patched(Rendered(InitialItems), ds), es[Len(es)].change)
  BY <1>5, <1>6, <1>7, <1>8, PatchedStep
<1> QED
  BY <1>2, <1>9, <1>10, <1>11, <1>12

\* Every delta is exact, also those of writes that have no serial yet.
Clean ==
  /\ \A s \in DOMAIN commits : ExactDelta(commits[s].key, commits[s].change)
  /\ \A u \in Updaters : upd[u].pc = "draw" => ExactDelta(KeyWritten(u), JournalChange(u))

\* The deltas up to the serial rebuild the table, less the replacement that is
\* written and has no serial yet.
Mirrored ==
  /\ \A k \in Keys : store[k].item \in Item \cup {NoItem}
  /\ \A u \in Updaters : upd[u].pc = "write" => upd[u].old = store[KeyWritten(u)].item
  /\ Unwrapped =>
       /\ (\A u \in Updaters : upd[u].pc # "draw") => Replayed(serial) = Rendered(TableItems)
       /\ \A u \in Updaters : upd[u].pc = "draw" =>
            Patch(Replayed(serial), JournalChange(u)) = Rendered(TableItems)

ReplacementInv == Clean => Mirrored

\* The steps of an UPDATE goroutine outside that stretch.
LEMMA OutsideReplacement ==
  ASSUME ZoneInv, NEW u \in Updaters,
         \/ \E msg \in UpdateMsgs : ReceiveUpdate(u, msg)
         \/ EvalPrerequisite(u) \/ Validate(u) \/ RecordDelta(u) \/ Reply(u)
  PROVE  /\ upd[u].pc \notin InReplacement /\ upd'[u].pc \notin InReplacement
         /\ UNCHANGED <<store, serial, commits>>
<1>1. upd = [v \in Updaters |-> upd[v]] /\ UpdateState(upd[u])
  BY OfUpdater
<1>2. upd[u].pc \notin InReplacement /\ UNCHANGED <<store, serial, commits>>
  BY DEF ReceiveUpdate, EvalPrerequisite, Validate, RecordDelta, Reply, InReplacement, commitVars,
         tableVars
<1>3. \A rcode : Answer(u, rcode) => upd'[u].pc = "reply"
  BY <1>1 DEF Answer, UpdateState
<1>4. CASE EvalPrerequisite(u)
  <2>1. upd'[u].pc = "reply" \/ upd'[u].pc = upd[u].pc
    BY <1>1, <1>3, <1>4 DEF EvalPrerequisite, UpdateState
  <2> QED
    BY <1>2, <2>1 DEF InReplacement
<1>5. CASE Validate(u)
  <2>1. upd'[u].pc \in {"reply", "preread"}
    BY <1>1, <1>3, <1>5 DEF Validate, UpdateState
  <2> QED
    BY <1>2, <2>1 DEF InReplacement
<1>6. CASE RecordDelta(u) \/ Reply(u)
  <2>1. upd'[u].pc \in {"reply", "idle"}
    BY <1>1, <1>6 DEF RecordDelta, Reply, UpdateState, IdleUpdate
  <2> QED
    BY <1>2, <2>1 DEF InReplacement
<1>7. ASSUME NEW msg \in UpdateMsgs, ReceiveUpdate(u, msg) PROVE upd'[u].pc \notin InReplacement
  <2>1. \/ upd' = upd
        \/ upd'[u] \in {[IdleUpdate EXCEPT !.pc = "prereq", !.msg = msg],
                        [IdleUpdate EXCEPT !.pc = "reply", !.msg = msg, !.rcode = "FORMERR"]}
    BY <1>1, <1>7 DEF ReceiveUpdate
  <2>2. upd'[u].pc \in {upd[u].pc, "reply", "prereq"}
    BY <2>1 DEF IdleUpdate
  <2> QED
    BY <1>2, <2>2 DEF InReplacement
<1> QED
  BY <1>2, <1>4, <1>5, <1>6, <1>7

\* What a step needs that leaves table and serials alone.
LEMMA ReplacementKept ==
  ASSUME Mirrored, NEW u \in Updaters, UNCHANGED <<store, serial, commits>>,
         \A v \in Updaters \ {u} : upd'[v] = upd[v],
         upd[u].pc # "draw", upd'[u].pc # "draw",
         upd'[u].pc = "write" => upd'[u].old = store[TheKey(upd'[u].msg.updates)].item
  PROVE  Mirrored'
<1>1. Replayed(serial)' = Replayed(serial) /\ TableItems' = TableItems
  BY DEF Replayed, TableItems
<1>2. Unwrapped' = Unwrapped
  BY DEF Unwrapped
<1>3. \A v \in Updaters \ {u} : KeyWritten(v)' = KeyWritten(v) /\ JournalChange(v)' = JournalChange(v)
  BY DEF KeyWritten, JournalChange
<1> QED
  BY <1>1, <1>2, <1>3 DEF Mirrored, KeyWritten

\* A delta that was not exact stays in the history.
LEMMA CleanBefore ==
  ASSUME ZoneInv, NEW u \in Updaters, \A v \in Updaters \ {u} : upd'[v] = upd[v],
         UpdateStep(u) \/ \E msg \in UpdateMsgs : ReceiveUpdate(u, msg), Clean'
  PROVE  Clean
<1>1. \A v \in Updaters \ {u} : upd[v].pc = "draw" => ExactDelta(KeyWritten(v), JournalChange(v))
  <2>1. \A v \in Updaters \ {u} : KeyWritten(v)' = KeyWritten(v) /\ JournalChange(v)' = JournalChange(v)
    BY DEF KeyWritten, JournalChange
  <2> QED
    BY <2>1 DEF Clean
<1>2. CASE DrawSerial(u)
  <2>1. /\ serial \in Serials /\ DOMAIN commits = SerialsUpTo(Start, serial) /\ Start \in Serials
        /\ serial' = Inc(serial) /\ Inc(serial) # Start
    BY <1>2, ZoneAssumption DEF ZoneInv, Typed, CommitsTyped, DrawnOnce, DrawSerial
  <2>2. serial' \notin DOMAIN commits
    BY <2>1, NextSerialFresh
  <2>3. /\ DOMAIN commits' = DOMAIN commits \cup {serial'}
        /\ \A s \in DOMAIN commits : commits'[s] = commits[s]
        /\ commits'[serial'].key = KeyWritten(u) /\ commits'[serial'].change = JournalChange(u)
    BY <1>2, <2>2 DEF DrawSerial
  <2> QED
    BY <1>1, <2>3 DEF Clean
<1>3. CASE ~DrawSerial(u)
  <2>1. upd[u].pc # "draw" /\ commits' = commits
    BY <1>3 DEF UpdateStep, EvalPrerequisite, Validate, PreRead, Write, RecordDelta, Reply,
                ReceiveUpdate, commitVars
  <2> QED
    BY <1>1, <2>1 DEF Clean
<1> QED
  BY <1>2, <1>3

\* The deltas rebuild the zone, for any number of goroutines, on either store, if no
\* two of them are between reading the old item and drawing the serial, reads are
\* consistent and no call fails having done its work, and no two keys share a name,
\* as long as every delta says what its write stored (processUpdate, commitWrite).
THEOREM LoneReplacementsReplay ==
  ASSUME ~Dynamo \/ Consistent, ~MayFail, NamesDistinct
  PROVE  Spec /\ []Exclusive(InReplacement) => [](Unwrapped => ExactDeltasRebuildZone)
<1>1. Init => ReplacementInv
  <2> SUFFICES ASSUME Init PROVE Mirrored
    BY DEF ReplacementInv
  <2>1. \A k \in Keys : store[k].item = InitialItems[k] /\ InitialItems[k] \in Item \cup {NoItem}
    BY MessagesAssumption DEF Init, Item
  <2>2. \A u \in Updaters : upd[u].pc = "idle"
    BY DEF Init, IdleUpdate
  <2> DEFINE ds == [i \in 1 .. 0 |-> commits[Start + i]]
  <2>3. Replayed(serial) = Patched(Rendered(InitialItems), ds)
    <3>1. serial - Start = 0
      BY ZoneAssumption DEF Init, Serials
    <3> QED
      BY <3>1 DEF Replayed
  <2>4. Len(ds) = 0
    OBVIOUS
  <2> HIDE DEF ds
  <2>5. Patched(Rendered(InitialItems), ds) = Rendered(InitialItems)
    BY <2>4, PatchedNothing
  <2>6. Rendered(TableItems) = Rendered(InitialItems)
    BY <2>1 DEF Rendered, TableItems
  <2> QED
    BY <2>1, <2>2, <2>3, <2>5, <2>6 DEF Mirrored
<1>2. ZoneInv /\ ReplacementInv /\ Exclusive(InReplacement) /\ [Next]_zoneVars => ReplacementInv'
  <2> SUFFICES ASSUME ZoneInv, ReplacementInv, Exclusive(InReplacement), [Next]_zoneVars, Clean'
               PROVE  Mirrored'
    BY DEF ReplacementInv
  <2>1. CASE UNCHANGED <<store, commitVars, upd>>
    BY <2>1 DEF ReplacementInv, Clean, Mirrored, commitVars, Unwrapped, Replayed, TableItems, KeyWritten, JournalChange
  <2>2. ASSUME NEW u \in Updaters, \A v \in Updaters \ {u} : upd'[v] = upd[v],
               UpdateStep(u) \/ \E msg \in UpdateMsgs : ReceiveUpdate(u, msg)
        PROVE  Mirrored'
    <3>0. Mirrored
      BY <2>2, CleanBefore DEF ReplacementInv
    <3>1. /\ upd = [v \in Updaters |-> upd[v]] /\ UpdateState(upd[u]) /\ TableTyped
      BY OfUpdater
    <3>2. CASE ~(PreRead(u) \/ Write(u) \/ DrawSerial(u))
      <4>1. /\ upd[u].pc \notin InReplacement /\ upd'[u].pc \notin InReplacement
            /\ UNCHANGED <<store, serial, commits>>
        BY <2>2, <3>2, OutsideReplacement DEF UpdateStep
      <4> QED
        BY <2>2, <3>0, <4>1, ReplacementKept DEF InReplacement
    <3>3. CASE PreRead(u)
      <4>1. PICK item \in GetResults(KeyWritten(u)) :
              upd' = [upd EXCEPT ![u].pc = "write", ![u].old = item]
        BY <3>3 DEF PreRead
      <4>2. upd[u].pc = "preread" /\ UNCHANGED <<store, serial, commits>>
        BY <3>3 DEF PreRead, tableVars, commitVars
      <4>3. upd'[u].pc = "write" /\ upd'[u].old = item /\ upd'[u].msg = upd[u].msg
        BY <3>1, <4>1 DEF UpdateState
      <4>4. KeyWritten(u) \in Keys
        BY <4>2, WriteFits
      <4>5. item = store[KeyWritten(u)].item
        BY <3>0, <4>1, <4>4, ItemAssumption DEF GetResults, Readable, Mirrored
      <4> QED
        BY <2>2, <3>0, <4>2, <4>3, <4>5, ReplacementKept DEF KeyWritten
    <3>4. CASE Write(u)
      <4> DEFINE key == KeyWritten(u)
                 new == NewItem(u)
      <4>1. /\ upd[u].pc = "write" /\ Applied(u) /\ UNCHANGED <<serial, commits>>
            /\ upd' = [upd EXCEPT ![u].pc = "draw", ![u].at = writes']
        BY <3>4 DEF Write, commitVars
      <4>2. upd'[u].pc = "draw" /\ upd'[u].old = upd[u].old /\ upd'[u].msg = upd[u].msg
        BY <3>1, <4>1 DEF UpdateState
      <4>3. /\ new \in Item \cup {NoItem} /\ key \in Keys /\ upd[u].old = store[key].item
            /\ JournalChange(u).removed = IF upd[u].old = NoItem THEN {} ELSE itemRRs(key, upd[u].old)
            /\ JournalChange(u).added = IF new = NoItem THEN {} ELSE itemRRs(key, new)
        <5>1. ExactDelta(KeyWritten(u), JournalChange(u))
          BY <4>2 DEF Clean, KeyWritten, JournalChange
        <5> QED
          BY <3>0, <4>1, <5>1, ChangeIsReplacement DEF Mirrored
      <4>4. \A v \in Updaters \ {u} : upd'[v].pc \notin InReplacement /\ upd[v].pc \notin InReplacement
        BY <2>2, <4>1 DEF Exclusive, InReplacement
      <4>5. \A k \in Keys : store'[k].item = IF k = key THEN new ELSE store[k].item
        BY <3>1, <4>1, <4>3 DEF Applied, TableTyped
      <4>6. TableItems[key] = upd[u].old /\ TableItems' = [k \in Keys |-> IF k = key THEN new ELSE TableItems[k]]
        BY <4>3, <4>5 DEF TableItems
      <4>7. Patch(Rendered(TableItems), JournalChange(u)) = Rendered(TableItems)'
        <5>1. Rendered(TableItems)' = Rendered([k \in Keys |-> IF k = key THEN new ELSE TableItems[k]])
          BY <4>6 DEF Rendered
        <5> HIDE DEF key, new
        <5> QED
          BY <4>3, <4>6, <5>1, RenderedReplaced
      <4>8. /\ Replayed(serial)' = Replayed(serial) /\ JournalChange(u)' = JournalChange(u)
            /\ Unwrapped' = Unwrapped
        BY <4>1, <4>2 DEF Replayed, JournalChange, Unwrapped
      <4>9. Unwrapped => Replayed(serial) = Rendered(TableItems)
        BY <3>0, <4>1, <4>4 DEF Mirrored, InReplacement
      <4>10. Unwrapped' => Patch(Replayed(serial)', JournalChange(u)') = Rendered(TableItems)'
        BY <4>7, <4>8, <4>9
      <4>11. \A v \in Updaters : /\ upd'[v].pc # "write"
                                 /\ upd'[v].pc = "draw" => v = u
        BY <4>2, <4>4 DEF InReplacement
      <4>12. \A k \in Keys : store'[k].item \in Item \cup {NoItem}
        BY <3>0, <4>3, <4>5 DEF Mirrored
      <4> HIDE DEF key, new
      <4> QED
        BY <4>2, <4>10, <4>11, <4>12 DEF Mirrored, Patch
    <3>5. CASE DrawSerial(u)
      <4>1. upd[u].pc = "draw" /\ upd'[u].pc = "record" /\ store' = store
        BY <3>1, <3>5 DEF DrawSerial, UpdateState, tableVars
      <4>2. \A v \in Updaters : upd'[v].pc \notin InReplacement
        BY <2>2, <4>1 DEF Exclusive, InReplacement
      <4>3. ASSUME Unwrapped' PROVE Replayed(serial)' = Rendered(TableItems)'
        <5>1. Unwrapped /\ Replayed(serial)' = Patch(Replayed(serial), JournalChange(u))
          BY <3>5, <4>3, ReplayedStep
        <5>2. Patch(Replayed(serial), JournalChange(u)) = Rendered(TableItems)
          BY <3>0, <4>1, <5>1 DEF Mirrored
        <5> QED
          BY <4>1, <5>1, <5>2 DEF TableItems, Rendered
      <4> QED
        BY <3>0, <4>1, <4>2, <4>3 DEF Mirrored, InReplacement
    <3> QED
      BY <3>2, <3>3, <3>4, <3>5
  <2> QED
    BY <2>1, <2>2, StepsOfUpdates
<1>3. ReplacementInv => (Unwrapped => ExactDeltasRebuildZone)
  BY DEF ReplacementInv, Clean, Mirrored, ExactDeltasRebuildZone, ReplayRebuildsZone, TableItems
<1> QED
  BY <1>1, <1>2, <1>3, ZoneInvariant, PTL DEF Spec
=============================================================================
