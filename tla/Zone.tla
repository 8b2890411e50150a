-------------------------------- MODULE Zone --------------------------------
(***************************************************************************)
(* The write path and the transfer path of the server on one shared store: *)
(* handleUpdate/processUpdate (update.go), handleAXFR/handleIXFR and       *)
(* streamZone (transfer.go), commitWrite (server.go), the journal and the  *)
(* two stores (sample.go, store.go).                                       *)
(*                                                                         *)
(* miekg/dns runs ServeDNS in a goroutine per message, and nothing in the  *)
(* handler excludes two of them.  Every access to state that goroutines    *)
(* share (a store call, serial.Load or Add, a journal call) is one step.   *)
(***************************************************************************)
EXTENDS MemChangeLog, UpdatePacket

CONSTANTS Updaters,      \* goroutines serving UPDATE messages
          Streams,       \* goroutines serving AXFR and IXFR messages
          UpdateMsgs,    \* the UPDATE messages clients may send
          TransferMsgs,  \* the AXFR and IXFR messages clients may send
          InitialItems,  \* the table at start-up: key -> item or NoItem
          Backend,       \* "demo" (sampleStore) or "dynamo" (dynamoStore)
          Consistent,    \* the -consistent flag of the dynamo backend
          StoreFaults,   \* whether a dynamo call may return an error
          Notifiees,     \* configured secondaries
          Start,         \* Config.Serial
          MaxQueries,    \* bound: messages received
          NoMsg          \* no message: the goroutine does not exist

ASSUME ZoneAssumption ==
  /\ Start \in Serials /\ MaxQueries \in Nat
  /\ Backend \in {"demo", "dynamo"} /\ {Consistent, StoreFaults} \subseteq BOOLEAN
  /\ IsFiniteSet(Updaters) /\ IsFiniteSet(Streams)

Keys == DOMAIN InitialItems
ASSUME KeysAssumption == NoKey \notin Keys

\* The TXT RRset of an item at its owner name (itemRRs of server.go).
itemRRs(key, item) == {[name |-> itemName(key), txt |-> Text(item)]}

\* The key a message writes: Validate sees to it that there is one only.
TheKey(rrs) == CHOOSE k \in Affected(rrs) : TRUE

\* The delta processUpdate journals for a message that found old: the RRs of the
\* old item are removed, the RRs of every insertion, as sent and not as stored,
\* are added.
ChangeOf(rrs, old) ==
  LET inserts == Inserts(rrs)
  IN  [removed |-> IF old = NoItem THEN {} ELSE itemRRs(TheKey(rrs), old),
       added   |-> UNION {itemRRs(inserts[i].pk, inserts[i].item) : i \in DOMAIN inserts}]

\* Validate lets these messages through to the table.
Writes(rrs) == UpdateVerdict(rrs) = "NOERROR" /\ Affected(rrs) # {}

\* The constants fit together: the first table holds items, messages that reach
\* it are about its keys, and Changes has the deltas they give.
ASSUME MessagesAssumption ==
  /\ \A k \in Keys : InitialItems[k] \in {NoItem} \cup
       [body : Bodies \cup {EmptyBody}, pk : IF Backend = "dynamo" THEN {TRUE} ELSE BOOLEAN]
  /\ \A msg \in TransferMsgs : msg.serial \in Serials
  /\ \A msg \in UpdateMsgs :
       Len(msg.prereqs) \in Nat /\ DOMAIN msg.prereqs = 1 .. Len(msg.prereqs)
  /\ \A msg \in UpdateMsgs : Writes(msg.updates) =>
       /\ Affected(msg.updates) \subseteq Keys
       /\ Inserts(msg.updates) \in Seq([pk : Keys, item : Item \cup {NilItem}])
       /\ \A old \in Item \cup {NoItem} : ChangeOf(msg.updates, old) \in Changes

VARIABLES
  store,     \* the table: key -> [item, at]
  replica,   \* what an eventually consistent dynamo read may still see
  serial,    \* Handler.serial
  upd,       \* state of each UPDATE goroutine
  xfr,       \* state of each transfer goroutine
  notices,   \* NOTIFY messages of running NotifyAll goroutines
  metrics,   \* Metrics: queries, updates, transfers, refused
  commits,   \* ghost: serial drawn -> [key, at, change]
  acked,     \* ghost: serials of the writes acknowledged with NOERROR
  writes,    \* ghost: number of store writes so far; numbers them
  failed     \* ghost: writes carried out although their call returned an error

tableVars == <<store, replica, writes, failed>>
commitVars == <<serial, log, commits>>
zoneVars == <<tableVars, commitVars, upd, xfr, notices, metrics, acked>>

-----------------------------------------------------------------------------

(***************************************************************************)
(* The stores.  An entry is the stored item and, as a ghost, the number of *)
(* the write that produced it (0: there from the start).                   *)
(***************************************************************************)
Dynamo == Backend = "dynamo"

\* Mutant of Stored: dynamoStore does not write the key attribute itself.
StoredAsSent(item) == item

\* Put: sampleStore keeps the very item, a nil one included; dynamoStore writes
\* the key attribute itself, so a nil item becomes an object with the key only.
Stored(item) ==
  IF Backend = "demo" THEN item
  ELSE [body |-> IF item = NilItem THEN EmptyBody ELSE item.body, pk |-> TRUE]

\* Get: a nil item in sampleStore reads as absent.
Readable(entry) == IF entry.item = NilItem THEN NoItem ELSE entry.item

\* GetItem is consistent only with the flag.
GetResults(key) ==
  {Readable(e) : e \in {store[key]} \cup
                       (IF Dynamo /\ ~Consistent THEN {replica[key]} ELSE {})}

\* Scan never asks for consistency; sampleStore's List copies under the lock.
ListResults(key) == {store[key]} \cup (IF Dynamo THEN {replica[key]} ELSE {})

MayFail == Dynamo /\ StoreFaults

\* The zone's item RRs when the table holds items.
Rendered(items) ==
  UNION {IF items[k] = NoItem THEN {} ELSE itemRRs(k, items[k]) : k \in Keys}

-----------------------------------------------------------------------------

IdleUpdate == [pc |-> "idle", msg |-> NoMsg, next |-> 1, old |-> NoItem,
               at |-> 0, serial |-> 0, rcode |-> "NOERROR"]

IdleStream == [pc |-> "idle", msg |-> NoMsg, deltas |-> NoDeltas, opening |-> 0,
               closing |-> 0, listed |-> EmptyMap, owed |-> {}]

Init ==
  /\ store = [k \in Keys |-> [item |-> InitialItems[k], at |-> 0]]
  /\ replica = store
  /\ serial = Start
  /\ log = NewMemChangeLog(Start)
  /\ upd = [u \in Updaters |-> IdleUpdate]
  /\ xfr = [x \in Streams |-> IdleStream]
  /\ notices = {}
  /\ metrics = [queries |-> 0, updates |-> 0, transfers |-> 0, refused |-> 0]
  /\ commits = EmptyMap
  /\ acked = {}
  /\ writes = 0 /\ failed = {}

Counted(m, counter) == [m EXCEPT ![counter] = @ + 1]

MayReceive == metrics.queries < MaxQueries

-----------------------------------------------------------------------------

(***************************************************************************)
(* UPDATE messages.                                                        *)
(***************************************************************************)
KeyWritten(u) == TheKey(upd[u].msg.updates)

Answer(u, rcode) == upd' = [upd EXCEPT ![u].pc = "reply", ![u].rcode = rcode]

\* ServeDNS, handleUpdate and processUpdate down to the prerequisites.  The
\* refusal of an unsigned message and its reply happen in one go.
ReceiveUpdate(u, msg) ==
  /\ MayReceive /\ upd[u].pc = "idle"
  /\ \/ /\ ~msg.tsig
        /\ metrics' = Counted(Counted(metrics, "queries"), "refused")
        /\ UNCHANGED upd
     \/ /\ msg.tsig
        /\ metrics' = Counted(metrics, "queries")
        /\ upd' = [upd EXCEPT ![u] =
                     IF msg.zoneOK THEN [IdleUpdate EXCEPT !.pc = "prereq", !.msg = msg]
                     ELSE [IdleUpdate EXCEPT !.pc = "reply", !.msg = msg, !.rcode = "FORMERR"]]
  /\ UNCHANGED <<tableVars, commitVars, xfr, notices, acked>>

\* Mutant of EvalPrerequisite: the loop does not get past a prerequisite that holds.
EvalPrerequisiteStuck(u) ==
  LET rr == upd[u].msg.prereqs[upd[u].next]
  IN  /\ upd[u].pc = "prereq" /\ upd[u].next <= Len(upd[u].msg.prereqs)
      /\ \/ PrereqForm(rr) # "NOERROR" /\ Answer(u, PrereqForm(rr))
         \/ /\ PrereqForm(rr) = "NOERROR"
            /\ \E item \in GetResults(KeyOf(rr)) :
                 IF PrereqVerdict(rr, item) = "NOERROR" THEN UNCHANGED upd
                 ELSE Answer(u, PrereqVerdict(rr, item))
      /\ UNCHANGED <<tableVars, commitVars, xfr, notices, metrics, acked>>

\* One round of the loop of evalPrerequisites.
EvalPrerequisite(u) ==
  LET rr == upd[u].msg.prereqs[upd[u].next]
  IN  /\ upd[u].pc = "prereq" /\ upd[u].next <= Len(upd[u].msg.prereqs)
      /\ \/ PrereqForm(rr) # "NOERROR" /\ Answer(u, PrereqForm(rr))
         \/ PrereqForm(rr) = "NOERROR" /\ MayFail /\ Answer(u, "SERVFAIL")
         \/ /\ PrereqForm(rr) = "NOERROR"
            /\ \E item \in GetResults(KeyOf(rr)) :
                 IF PrereqVerdict(rr, item) = "NOERROR"
                 THEN upd' = [upd EXCEPT ![u].next = @ + 1]
                 ELSE Answer(u, PrereqVerdict(rr, item))
      /\ UNCHANGED <<tableVars, commitVars, xfr, notices, metrics, acked>>

\* The first pass over the UPDATE section and its outcome.
Validate(u) ==
  LET rrs == upd[u].msg.updates
  IN  /\ upd[u].pc = "prereq" /\ upd[u].next > Len(upd[u].msg.prereqs)
      /\ IF UpdateVerdict(rrs) # "NOERROR" THEN Answer(u, UpdateVerdict(rrs))
         ELSE IF Affected(rrs) = {} THEN Answer(u, "NOERROR")
         ELSE upd' = [upd EXCEPT ![u].pc = "preread"]
      /\ UNCHANGED <<tableVars, commitVars, xfr, notices, metrics, acked>>

\* The snapshot of the old item.
PreRead(u) ==
  /\ upd[u].pc = "preread"
  /\ \/ MayFail /\ Answer(u, "SERVFAIL")
     \/ \E item \in GetResults(KeyWritten(u)) :
          upd' = [upd EXCEPT ![u].pc = "write", ![u].old = item]
  /\ UNCHANGED <<tableVars, commitVars, xfr, notices, metrics, acked>>

\* What the write leaves in the table: the first insertion, or nothing.
NewItem(u) ==
  LET inserts == Inserts(upd[u].msg.updates)
  IN  IF inserts = << >> THEN NoItem ELSE Stored(inserts[1].item)

Applied(u) ==
  /\ writes' = writes + 1
  /\ store' = [store EXCEPT ![KeyWritten(u)] = [item |-> NewItem(u), at |-> writes']]

\* Mutant of Write: a delete returns before commitWrite.
WriteDeleteUncommitted(u) ==
  /\ upd[u].pc = "write"
  /\ Applied(u)
  /\ upd' = [upd EXCEPT ![u].pc = IF NewItem(u) = NoItem THEN "reply" ELSE "draw",
                        ![u].at = writes']
  /\ UNCHANGED <<replica, failed, commitVars, xfr, notices, metrics, acked>>

\* Put or Delete.  A call that returns an error may have been carried out.
Write(u) ==
  /\ upd[u].pc = "write"
  /\ \/ /\ Applied(u)
        /\ upd' = [upd EXCEPT ![u].pc = "draw", ![u].at = writes']
        /\ UNCHANGED failed
     \/ /\ MayFail /\ Answer(u, "SERVFAIL")
        /\ \/ Applied(u) /\ failed' = failed \cup {writes'}
           \/ UNCHANGED <<store, writes, failed>>
  /\ UNCHANGED <<replica, commitVars, xfr, notices, metrics, acked>>

JournalChange(u) == ChangeOf(upd[u].msg.updates, upd[u].old)

\* Mutant of DrawSerial: commitWrite bumps the serial and does not journal.
DrawSerialOnly(u) ==
  /\ upd[u].pc = "draw" /\ Inc(serial) # Start
  /\ metrics' = Counted(metrics, "updates")
  /\ serial' = Inc(serial)
  /\ upd' = [upd EXCEPT ![u].pc = "reply", ![u].serial = serial']
  /\ commits' = [s \in DOMAIN commits \cup {serial'} |->
                   IF s = serial'
                   THEN [key |-> KeyWritten(u), at |-> upd[u].at, change |-> JournalChange(u)]
                   ELSE commits[s]]
  /\ UNCHANGED <<tableVars, log, xfr, notices, acked>>

\* Mutant of DrawSerial: NOTIFY goes out before the delta is journaled.
DrawSerialAndNotify(u) ==
  /\ upd[u].pc = "draw" /\ Inc(serial) # Start
  /\ metrics' = Counted(metrics, "updates")
  /\ serial' = Inc(serial)
  /\ upd' = [upd EXCEPT ![u].pc = "record", ![u].serial = serial']
  /\ commits' = [s \in DOMAIN commits \cup {serial'} |->
                   IF s = serial'
                   THEN [key |-> KeyWritten(u), at |-> upd[u].at, change |-> JournalChange(u)]
                   ELSE commits[s]]
  /\ notices' = notices \cup {[to |-> n, serial |-> serial'] : n \in Notifiees}
  /\ UNCHANGED <<tableVars, log, xfr, acked>>

\* Metrics.Updates and the first half of commitWrite.  Bound: one lap of serials.
DrawSerial(u) ==
  /\ upd[u].pc = "draw" /\ Inc(serial) # Start
  /\ metrics' = Counted(metrics, "updates")
  /\ serial' = Inc(serial)
  /\ upd' = [upd EXCEPT ![u].pc = "record", ![u].serial = serial']
  /\ commits' = [s \in DOMAIN commits \cup {serial'} |->
                   IF s = serial'
                   THEN [key |-> KeyWritten(u), at |-> upd[u].at, change |-> JournalChange(u)]
                   ELSE commits[s]]
  /\ UNCHANGED <<tableVars, log, xfr, notices, acked>>

\* Mutant of RecordDelta: the serial is loaded again instead of kept from Add.
RecordDeltaReloaded(u) ==
  /\ upd[u].pc = "record"
  /\ Record(serial, JournalChange(u))
  /\ notices' = notices \cup {[to |-> n, serial |-> upd[u].serial] : n \in Notifiees}
  /\ upd' = [upd EXCEPT ![u].pc = "reply"]
  /\ UNCHANGED <<tableVars, serial, commits, xfr, metrics, acked>>

\* The second half of commitWrite, and go NotifyAll.
RecordDelta(u) ==
  /\ upd[u].pc = "record"
  /\ Record(upd[u].serial, JournalChange(u))
  /\ notices' = notices \cup {[to |-> n, serial |-> upd[u].serial] : n \in Notifiees}
  /\ upd' = [upd EXCEPT ![u].pc = "reply"]
  /\ UNCHANGED <<tableVars, serial, commits, xfr, metrics, acked>>

\* handleUpdate sends the reply; the goroutine ends.
Reply(u) ==
  /\ upd[u].pc = "reply"
  /\ acked' = IF upd[u].at # 0 /\ upd[u].rcode = "NOERROR" THEN acked \cup {upd[u].serial}
              ELSE acked
  /\ upd' = [upd EXCEPT ![u] = IdleUpdate]
  /\ UNCHANGED <<tableVars, commitVars, xfr, notices, metrics>>

\* SendNotify: one datagram, one wait, no retry.  Whether it arrives, is lost or
\* is answered with an error makes no difference to the server.
SendNotify(n) ==
  /\ notices' = notices \ {n}
  /\ UNCHANGED <<tableVars, commitVars, upd, xfr, metrics, acked>>

-----------------------------------------------------------------------------

(***************************************************************************)
(* AXFR and IXFR messages.  A stream that has ended keeps its last state   *)
(* until the next message, so that what it sent can be examined.           *)
(***************************************************************************)
Idle(x) == xfr[x].pc \in {"idle", "uptodate", "retry", "done", "aborted"}

Full(x) == xfr[x].deltas = NoDeltas

\* Mutant of ReceiveTransfer: a refused message is streamed all the same.
ReceiveTransferFallsThrough(x, msg) ==
  /\ MayReceive /\ Idle(x)
  /\ metrics' = Counted(Counted(metrics, "queries"), "refused")
  /\ xfr' = [xfr EXCEPT ![x] = [IdleStream EXCEPT !.pc = "open", !.msg = msg, !.owed = acked]]
  /\ UNCHANGED <<tableVars, commitVars, upd, notices, acked>>

\* ServeDNS up to the handlers, and their refusals: without a valid signature,
\* for another zone, IXFR without its one SOA, AXFR over UDP.
ReceiveTransfer(x, msg) ==
  LET refused == \/ ~msg.tsig \/ ~msg.wellFormed
                 \/ msg.type = "AXFR" /\ ~msg.tcp
  IN  /\ MayReceive /\ Idle(x)
      /\ IF refused
         THEN /\ metrics' = Counted(Counted(metrics, "queries"), "refused")
              /\ xfr' = [xfr EXCEPT ![x] = IdleStream]
         ELSE /\ metrics' = Counted(metrics, "queries")
              /\ xfr' = [xfr EXCEPT ![x] = [IdleStream EXCEPT
                           !.pc = IF msg.type = "AXFR" THEN "open" ELSE "load",
                           !.msg = msg, !.owed = acked]]
      /\ UNCHANGED <<tableVars, commitVars, upd, notices, acked>>

\* current := h.serial.Load(), and the choice made from it.
LoadSerial(x) ==
  /\ xfr[x].pc = "load"
  /\ xfr' = [xfr EXCEPT ![x].pc = IF xfr[x].msg.serial >= serial \/ ~xfr[x].msg.tcp
                                   THEN "lone" ELSE "deltas"]
  /\ UNCHANGED <<tableVars, commitVars, upd, notices, metrics, acked>>

\* The single-SOA reply: the client is up to date, or is to retry over TCP.
SendLoneSOA(x) ==
  /\ xfr[x].pc = "lone"
  /\ xfr' = [xfr EXCEPT ![x].pc = IF xfr[x].msg.serial >= serial THEN "uptodate" ELSE "retry",
                        ![x].opening = serial]
  /\ UNCHANGED <<tableVars, commitVars, upd, notices, metrics, acked>>

\* deltas, _ = h.changelog.Deltas(clientSOA.Serial)
ReadDeltas(x) ==
  /\ xfr[x].pc = "deltas"
  /\ xfr' = [xfr EXCEPT ![x].pc = "open", ![x].deltas = Deltas(xfr[x].msg.serial)]
  /\ UNCHANGED <<tableVars, commitVars, upd, notices, metrics, acked>>

\* streamZone sends the opening SOA with the serial of that moment.
SendOpeningSOA(x) ==
  /\ xfr[x].pc = "open"
  /\ xfr' = [xfr EXCEPT ![x].opening = serial, ![x].pc = IF Full(x) THEN "list" ELSE "close"]
  /\ UNCHANGED <<tableVars, commitVars, upd, notices, metrics, acked>>

\* reader.List: sampleStore copies the table at once, Scan returns it page by page.
ListPage(x) ==
  LET left == Keys \ DOMAIN xfr[x].listed
  IN  /\ xfr[x].pc = "list"
      /\ \E page \in IF Dynamo THEN {{k} : k \in left} ELSE {left} :
         \E read \in [page -> UNION {ListResults(k) : k \in page}] :
           /\ \A k \in page : read[k] \in ListResults(k)
           /\ xfr' = [xfr EXCEPT ![x].pc = IF page = left THEN "close" ELSE "list",
                                 ![x].listed = [k \in DOMAIN @ \cup page |->
                                                  IF k \in page THEN read[k] ELSE @[k]]]
      /\ UNCHANGED <<tableVars, commitVars, upd, notices, metrics, acked>>

\* Mutant of SendClosingSOA: one SOA is made for both ends, after the listing.
SendClosingSOATwice(x) ==
  /\ xfr[x].pc = "close"
  /\ xfr' = [xfr EXCEPT ![x].pc = "done", ![x].closing = serial, ![x].opening = serial]
  /\ metrics' = Counted(metrics, "transfers")
  /\ UNCHANGED <<tableVars, commitVars, upd, notices, acked>>

\* The closing SOA, again with the serial of the moment, and Metrics.Transfers.
SendClosingSOA(x) ==
  /\ xfr[x].pc = "close"
  /\ xfr' = [xfr EXCEPT ![x].pc = "done", ![x].closing = serial]
  /\ metrics' = Counted(metrics, "transfers")
  /\ UNCHANGED <<tableVars, commitVars, upd, notices, acked>>

\* WriteMsg or List returns an error: streamZone gives up without a reply.
AbortStream(x) ==
  /\ xfr[x].pc \in {"open", "list", "close"}
  /\ xfr' = [xfr EXCEPT ![x].pc = "aborted"]
  /\ UNCHANGED <<tableVars, commitVars, upd, notices, metrics, acked>>

\* A dynamo replica catches up with one item.
Replicate(k) ==
  /\ Dynamo /\ replica[k] # store[k]
  /\ replica' = [replica EXCEPT ![k] = store[k]]
  /\ UNCHANGED <<store, writes, failed, commitVars, upd, xfr, notices, metrics, acked>>

-----------------------------------------------------------------------------

\* The bound on messages is reached and every goroutine has ended.
Finished ==
  /\ ~MayReceive /\ notices = {}
  /\ \A u \in Updaters : upd[u].pc = "idle"
  /\ \A x \in Streams : Idle(x)
  /\ UNCHANGED zoneVars

UpdateStep(u) ==
  \/ EvalPrerequisite(u) \/ Validate(u) \/ PreRead(u) \/ Write(u)
  \/ DrawSerial(u) \/ RecordDelta(u) \/ Reply(u)

StreamStep(x) ==
  \/ LoadSerial(x) \/ SendLoneSOA(x) \/ ReadDeltas(x) \/ SendOpeningSOA(x)
  \/ ListPage(x) \/ SendClosingSOA(x) \/ AbortStream(x)

Next ==
  \/ \E u \in Updaters : UpdateStep(u) \/ \E msg \in UpdateMsgs : ReceiveUpdate(u, msg)
  \/ \E x \in Streams : StreamStep(x) \/ \E msg \in TransferMsgs : ReceiveTransfer(x, msg)
  \/ \E n \in notices : SendNotify(n)
  \/ \E k \in Keys : Replicate(k)
  \/ Finished

Spec == Init /\ [][Next]_zoneVars

\* Goroutines are scheduled and store calls return.
FairSpec ==
  /\ Spec
  /\ \A u \in Updaters : WF_zoneVars(UpdateStep(u))
  /\ \A x \in Streams : WF_zoneVars(StreamStep(x))
  /\ WF_zoneVars(\E n \in notices : SendNotify(n))

-----------------------------------------------------------------------------

(***************************************************************************)
(* Properties.  They speak of serials that have not wrapped: the instances *)
(* start low enough, and module CommitLog covers the wrap.                 *)
(***************************************************************************)
Unwrapped == Start <= serial

Committing == {u \in Updaters : upd[u].pc = "record"}
Unlanded == {upd[u].serial : u \in Committing}
Landed == DOMAIN commits \ Unlanded

UpdateMsg == UpdateMsgs \cup {NoMsg}
TransferMsg == TransferMsgs \cup {NoMsg}

\* Shape of the state; every item of a dynamo table carries the key attribute.
TypeOK ==
  /\ serial \in Serials /\ log \in Journal(DOMAIN log.deltas)
  /\ \A k \in Keys : \A e \in {store[k], replica[k]} :
       /\ e.item \in Item \cup {NoItem, NilItem}
       /\ Dynamo /\ e.item # NoItem => e.item \in [body : Bodies \cup {EmptyBody}, pk : {TRUE}]
       /\ e.at \in 0 .. writes
  /\ \A u \in Updaters :
       /\ upd[u].pc \in {"idle", "prereq", "preread", "write", "draw", "record", "reply"}
       /\ upd[u].msg \in UpdateMsg /\ upd[u].old \in Item \cup {NoItem}
  /\ \A x \in Streams :
       /\ xfr[x].pc \in {"idle", "load", "lone", "deltas", "open", "list", "close",
                         "uptodate", "retry", "done", "aborted"}
       /\ xfr[x].msg \in TransferMsg /\ xfr[x].owed \subseteq acked
       /\ DOMAIN xfr[x].listed \subseteq Keys
  /\ failed \subseteq 1 .. writes
  /\ DOMAIN commits = Start + 1 .. serial /\ acked \subseteq DOMAIN commits
  /\ notices \subseteq [to : Notifiees, serial : DOMAIN commits]

\* A write whose UPDATE was answered NOERROR before a transfer was asked for is
\* not kept from the client: an answer that it is up to date is given only to a
\* client at or past that write, a delta replay contains it, and a full transfer
\* announces a serial at or past it and lists the item it wrote or a later one.
AckedNotMissed ==
  \A x \in Streams : \A s \in xfr[x].owed :
    CASE xfr[x].pc = "uptodate" -> s <= xfr[x].msg.serial
      [] xfr[x].pc = "done" /\ Full(x) ->
           s <= xfr[x].opening /\ xfr[x].listed[commits[s].key].at >= commits[s].at
      [] xfr[x].pc = "done" /\ ~Full(x) /\ s > xfr[x].msg.serial ->
           \E i \in DOMAIN xfr[x].deltas : xfr[x].deltas[i].serial = s
      [] OTHER -> TRUE

\* No change of the table goes unnoticed by the journal without its client being
\* told of a failure: a write either has a serial, or is about to draw one, or
\* its store call returned an error and was carried out all the same.
WritesAccounted ==
  \A w \in 1 .. writes :
    \/ \E s \in DOMAIN commits : commits[s].at = w
    \/ \E u \in Updaters : upd[u].pc = "draw" /\ upd[u].at = w
    \/ w \in failed

\* A full transfer contains every write up to the serial its opening SOA claims,
\* acknowledged or not: the store is written before the serial is bumped, and
\* the serial is read before the table is listed.
FullTransferFresh ==
  \A x \in Streams : xfr[x].pc = "done" /\ Full(x) =>
    \A s \in DOMAIN commits : s <= xfr[x].opening =>
      xfr[x].listed[commits[s].key].at >= commits[s].at

\* A delta replay continues the client's serial one by one and never goes past
\* the serial of its opening SOA, although the SOA is read after the deltas.
StreamChains ==
  \A x \in Streams : xfr[x].pc = "done" /\ ~Full(x) =>
    /\ \A i \in DOMAIN xfr[x].deltas : xfr[x].deltas[i].serial = xfr[x].msg.serial + i
    /\ xfr[x].msg.serial + Len(xfr[x].deltas) <= xfr[x].opening

\* A secondary that asks for an incremental transfer because of a NOTIFY is never
\* given one that lacks the write the NOTIFY is about.
NotifyAfterJournal ==
  \A n \in notices : \A since \in Start .. n.serial - 1 :
    Deltas(since) # NoDeltas => n.serial - since \in DOMAIN Deltas(since)

\* A message is counted as an update, a transfer or a refusal at most once, and
\* not before its fate is decided.
CountedOnce ==
  metrics.updates + metrics.transfers + metrics.refused
    + Cardinality({u \in Updaters : upd[u].pc \in {"prereq", "preread", "write", "draw"}})
    + Cardinality({x \in Streams : ~Idle(x)})
  <= metrics.queries

\* What a transfer lists can be asked for by the name it is listed under.  The
\* comment on itemName says that keys that survive DNS label rules round-trip as
\* dotted names; not all do.  The exceptions are the empty key and keys that look encoded themselves; they come
\* from a k- label or from the first table, never from an UPDATE of a dotted name.
StoredNamesResolve ==
  \A k \in Keys : store[k].item # NoItem =>
    \/ parseKey(Lowered(itemName(k))) = k
    \/ /\ k = << >> \/ Disguised(k)
       /\ InitialItems[k] # NoItem \/ \E label \in KLabels : KDecode[label] = k

\* The zone a secondary arrives at from the initial table by all deltas up to s.
Replayed(s) ==
  Patched(Rendered(InitialItems), [i \in 1 .. s - Start |-> commits[Start + i]])

\* With no write under way, replaying the deltas of commitWrite in serial order
\* rebuilds the zone that a full transfer would send: each delta removes what its
\* write replaced and adds what it stored, and serials follow the store's order.
ReplayRebuildsZone ==
  (\A u \in Updaters : upd[u].pc \notin {"draw", "record"}) =>
    Replayed(serial) = Rendered([k \in Keys |-> store[k].item])

\* The delta of a commit says what the write left in the table: nothing, or one
\* item that the store keeps as it was sent.  An UPDATE that spells its key in two
\* ways, or sends null, or leaves the key attribute to dynamoStore, has another.
ExactDelta(key, change) ==
  \/ change.added = {}
  \/ \E item \in Item : Stored(item) = item /\ change.added = itemRRs(key, item)

\* As long as every delta is exact, replaying them rebuilds the zone.
ExactDeltasRebuildZone ==
  (\A s \in DOMAIN commits : ExactDelta(commits[s].key, commits[s].change)) =>
    ReplayRebuildsZone

\* What RFC 2136 means by a prerequisite: the name, or its TXT RRset, is absent,
\* is present, or is present with this value.
Required(rr, item) ==
  CASE rr.class = "NONE" -> item = NoItem
    [] rr.class = "ANY"  -> item # NoItem
    [] rr.class = "IN"   -> item # NoItem /\ rr.txt = Text(item)

\* Prerequisites and write are atomic: when processUpdate writes the store, every
\* prerequisite that evalPrerequisites let pass still holds.
PrereqsHoldAtWrite ==
  [][\A u \in Updaters : upd[u].pc = "write" /\ upd'[u].pc = "draw" =>
       \A i \in DOMAIN upd[u].msg.prereqs :
         LET rr == upd[u].msg.prereqs[i]
         IN  Required(rr, Readable(store[KeyOf(rr)]))]_zoneVars

\* A delta replay brings the client to the serial its opening SOA announces.
StreamReachesOpening ==
  \A x \in Streams : xfr[x].pc = "done" /\ ~Full(x) =>
    xfr[x].msg.serial + Len(xfr[x].deltas) = xfr[x].opening

\* Every UPDATE and transfer message that gets a goroutine is dealt with.
MessagesAnswered ==
  /\ \A u \in Updaters : upd[u].pc # "idle" ~> upd[u].pc = "idle"
  /\ \A x \in Streams : ~Idle(x) ~> Idle(x)
  /\ notices # {} ~> notices = {}

\* Concurrent UPDATEs commit the way CommitLog describes.
CL == INSTANCE CommitLog WITH
        MaxPending <- Cardinality(Updaters),
        pending <- {[serial |-> upd[u].serial, change |-> JournalChange(u)] : u \in Committing},
        landed <- [s \in Landed |-> commits[s].change]

\* An update path without overtaking keeps the README's promise on the journal: a
\* client at most Cap changes behind is served deltas, not a full transfer.
RecentClientsAnswered == CL!RecentClientsAnswered

\* Zone implements CommitLog: what is proved of commitWrite and the journal there
\* holds of the server's update path here.
ImplementsCommitLog == CL!Spec

=============================================================================
