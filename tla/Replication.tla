---------------------------- MODULE Replication ----------------------------
(***************************************************************************)
(* A server and its secondaries over crashes, restarts and lost NOTIFYs.   *)
(* The server side is the write path of update.go, the transfer path of    *)
(* transfer.go and the start-up of main.go; the secondaries are external:  *)
(* RFC 1995 clients that follow NOTIFY and a refresh timer.                *)
(*                                                                         *)
(* Covered: a crash at any moment, broken connections, lost NOTIFYs, and   *)
(* the table surviving a crash (DynamoDB) or not (demo).                   *)
(*                                                                         *)
(* A restart takes any serial near the last one, as the clock does: it may *)
(* be behind serials that were handed out.  The ghost ahead tells whether  *)
(* that has happened; the properties say what depends on it.               *)
(*                                                                         *)
(* Assumed: UPDATEs do not overlap (module Zone has the races), the table  *)
(* reads back what was written, store calls do not fail, and serials do    *)
(* not wrap (module CommitLog has the wrap).                               *)
(*                                                                         *)
(* One item changes.  The zone holds other items too, so a full transfer   *)
(* always has a body and a stream without one is recognisable.             *)
(***************************************************************************)
EXTENDS MemChangeLog

CONSTANTS Secondaries,
          Items,         \* contents of the changing item
          NoItem,        \* the item is not in the table
          FirstItem,     \* its content in a new table
          Start,         \* Config.Serial of the first start
          ClockStep,     \* bound: how far from the last serial the clock is at a restart
          MaxHistory,    \* bound: contents of the table when the last UPDATE arrives
          MaxFaults      \* bound: crashes and broken connections

ASSUME ReplicationAssumption ==
  /\ NoItem \notin Items /\ FirstItem \in Items \cup {NoItem}
  /\ Start \in Serials /\ {ClockStep, MaxHistory, MaxFaults} \subseteq Nat

VARIABLES
  durable,   \* the table survives the process
  up,        \* the server runs
  table,     \* content of the item
  serial,    \* Handler.serial; while the server is down, its last value
  writer,    \* the UPDATE goroutine
  notices,   \* secondaries a NotifyAll goroutine is about to notify
  sec,       \* each secondary and its transfer
  history,   \* ghost: every content of the table so far
  stands,    \* ghost: serial -> the part of history it stands for
  acked,     \* ghost: the part of history that was acknowledged or is on disk
  ahead,     \* ghost: the clock of every restart was past all serials handed out
  faults     \* crashes and broken connections so far

serverVars == <<durable, up, table, serial, log, writer, history, stands, acked, ahead>>
replicationVars == <<serverVars, notices, sec, faults>>

\* The TXT RRset of the item.
TxtOf(item) == IF item = NoItem THEN {} ELSE {item}

\* The deltas that commitWrite can be given.
Changed == [removed : {TxtOf(i) : i \in Items \cup {NoItem}},
            added : {TxtOf(i) : i \in Items \cup {NoItem}}]

ASSUME ChangesAssumption == Changed \subseteq Changes

IdleWriter == [pc |-> "idle", old |-> NoItem]

\* A secondary with its copy of the zone and no transfer under way.
AtRest(s, zone) ==
  [serial |-> s, zone |-> zone, pc |-> "idle", owed |-> 1,
   deltas |-> NoDeltas, opening |-> Start, listed |-> NoItem]

Init ==
  /\ durable \in BOOLEAN
  /\ up = TRUE
  /\ table = FirstItem
  /\ serial = Start
  /\ log = NewMemChangeLog(Start)
  /\ writer = IdleWriter
  /\ notices = {}
  /\ sec = [x \in Secondaries |-> AtRest(Start, TxtOf(FirstItem))]
  /\ history = <<FirstItem>>
  /\ stands = [s \in {Start} |-> 1]
  /\ acked = 1
  /\ ahead = TRUE
  /\ faults = 0

-----------------------------------------------------------------------------

(***************************************************************************)
(* The write path: Put or Delete, then the two halves of commitWrite.      *)
(***************************************************************************)
Write(item) ==
  /\ up /\ writer.pc = "idle" /\ Len(history) < MaxHistory
  /\ table' = item
  /\ history' = Append(history, item)
  /\ writer' = [pc |-> "draw", old |-> table]
  /\ UNCHANGED <<durable, up, serial, log, stands, acked, ahead, notices, sec, faults>>

\* Mutant of DrawSerial: a delete returns before commitWrite.
DrawSerialUnlessDelete ==
  /\ writer.pc = "draw"
  /\ serial' = IF table = NoItem THEN serial ELSE Inc(serial)
  /\ stands' = [s \in DOMAIN stands \cup {serial'} |->
                  IF s = serial' /\ table # NoItem THEN Len(history) ELSE stands[s]]
  /\ writer' = IF table = NoItem THEN IdleWriter ELSE [writer EXCEPT !.pc = "record"]
  /\ UNCHANGED <<durable, up, table, log, history, acked, ahead, notices, sec, faults>>

\* Bound: serials do not wrap.
DrawSerial ==
  /\ writer.pc = "draw" /\ Inc(serial) # 0
  /\ serial' = Inc(serial)
  /\ stands' = [s \in DOMAIN stands \cup {serial'} |->
                  IF s = serial' THEN Len(history) ELSE stands[s]]
  /\ writer' = [writer EXCEPT !.pc = "record"]
  /\ UNCHANGED <<durable, up, table, log, history, acked, ahead, notices, sec, faults>>

\* The delta is journaled, go NotifyAll, the UPDATE is answered.
RecordDelta ==
  /\ writer.pc = "record"
  /\ Record(serial, [removed |-> TxtOf(writer.old), added |-> TxtOf(table)])
  /\ notices' = Secondaries
  /\ writer' = IdleWriter
  /\ acked' = Len(history)
  /\ UNCHANGED <<durable, up, table, serial, history, stands, ahead, sec, faults>>

-----------------------------------------------------------------------------

(***************************************************************************)
(* Crash and restart.  Goroutines, streams, NOTIFYs and the journal are    *)
(* gone, and so is the demo table.                                         *)
(***************************************************************************)
Resting(x) == sec[x].pc \in {"idle", "uptodate"}

\* The secondary keeps what it had.
Interrupted(x) == AtRest(sec[x].serial, sec[x].zone)

Crash ==
  /\ up /\ faults < MaxFaults
  /\ up' = FALSE
  /\ faults' = faults + 1
  /\ writer' = IdleWriter
  /\ notices' = {}
  /\ sec' = [x \in Secondaries |-> Interrupted(x)]
  /\ UNCHANGED <<durable, table, serial, log, history, stands, acked, ahead>>

\* uint32(time.Now().Unix()): nothing relates it to the serials handed out.  It is
\* not past them when a run has committed more writes than it has lasted seconds,
\* when the restart comes within the second, or when the clock is set back.
ClockSerials == (serial - ClockStep .. serial + ClockStep) \cap Serials

\* Mutant of NewJournal: the journal is made before the serial is known.
NewJournalAtStart(s) == NewMemChangeLog(Start)

\* NewMemChangeLog(handlerCfg.Serial)
NewJournal(s) == NewMemChangeLog(s)

Restart ==
  /\ ~up
  /\ up' = TRUE
  /\ serial' \in ClockSerials
  /\ log' = NewJournal(serial')
  /\ table' = IF durable THEN table ELSE FirstItem
  /\ history' = IF durable THEN history ELSE Append(history, FirstItem)
  /\ acked' = Len(history')
  /\ ahead' = (ahead /\ \A s \in DOMAIN stands : s < serial')
  /\ stands' = [s \in DOMAIN stands \cup {serial'} |->
                  IF s = serial' THEN Len(history') ELSE stands[s]]
  /\ UNCHANGED <<durable, writer, notices, sec, faults>>

-----------------------------------------------------------------------------

(***************************************************************************)
(* Secondaries and the streams that serve them.                            *)
(***************************************************************************)
AsksBy(x, type) ==
  /\ up /\ Resting(x)
  /\ sec' = [sec EXCEPT ![x].pc = IF type = "AXFR" THEN "open" ELSE "load",
                        ![x].deltas = NoDeltas, ![x].owed = acked]

\* The refresh timer, or a retry after a transfer that failed.
Refresh(x) ==
  /\ \E type \in {"AXFR", "IXFR"} : AsksBy(x, type)
  /\ UNCHANGED <<serverVars, notices, faults>>

\* SendNotify's datagram arrives and is acted upon, or is lost.
HearNotify(x) ==
  /\ x \in notices
  /\ AsksBy(x, "IXFR")
  /\ notices' = notices \ {x}
  /\ UNCHANGED <<serverVars, faults>>

LoseNotify(x) ==
  /\ x \in notices
  /\ notices' = notices \ {x}
  /\ UNCHANGED <<serverVars, sec, faults>>

\* current := h.serial.Load(), and the choice made from it.
LoadSerial(x) ==
  /\ sec[x].pc = "load"
  /\ sec' = [sec EXCEPT ![x].pc = IF sec[x].serial >= serial THEN "lone" ELSE "deltas"]
  /\ UNCHANGED <<serverVars, notices, faults>>

\* The lone SOA carries the serial of its own moment: the secondary sees that it
\* is up to date, or that it has to ask again.
SendLoneSOA(x) ==
  /\ sec[x].pc = "lone"
  /\ sec' = [sec EXCEPT ![x] = IF sec[x].serial >= serial
                                    THEN [@ EXCEPT !.pc = "uptodate"] ELSE Interrupted(x)]
  /\ UNCHANGED <<serverVars, notices, faults>>

\* Mutant of ReadDeltas: no deltas are taken for nothing to send.
ReadDeltasOrNothing(x) ==
  /\ sec[x].pc = "deltas"
  /\ sec' = [sec EXCEPT ![x].pc = IF Deltas(sec[x].serial) = NoDeltas THEN "uptodate" ELSE "open",
                        ![x].deltas = Deltas(sec[x].serial)]
  /\ UNCHANGED <<serverVars, notices, faults>>

ReadDeltas(x) ==
  /\ sec[x].pc = "deltas"
  /\ sec' = [sec EXCEPT ![x].pc = "open", ![x].deltas = Deltas(sec[x].serial)]
  /\ UNCHANGED <<serverVars, notices, faults>>

Full(x) == sec[x].deltas = NoDeltas

SendOpeningSOA(x) ==
  /\ sec[x].pc = "open"
  /\ sec' = [sec EXCEPT ![x].opening = serial, ![x].pc = IF Full(x) THEN "list" ELSE "close"]
  /\ UNCHANGED <<serverVars, notices, faults>>

ListTable(x) ==
  /\ sec[x].pc = "list"
  /\ sec' = [sec EXCEPT ![x].listed = table, ![x].pc = "close"]
  /\ UNCHANGED <<serverVars, notices, faults>>

\* What a secondary makes of a complete stream: the SOA it keeps is the opening
\* one of a full transfer, and the last one of the differences it applied.
Updated(x) ==
  IF Full(x)
  THEN AtRest(sec[x].opening, TxtOf(sec[x].listed))
  ELSE AtRest(sec[x].deltas[Len(sec[x].deltas)].serial, Patched(sec[x].zone, sec[x].deltas))

Bodyless(x) == ~Full(x) /\ Len(sec[x].deltas) = 0

\* Mutant of SendClosingSOA: one SOA is made for both ends, after the listing.
SendClosingSOATwice(x) ==
  /\ sec[x].pc = "close"
  /\ sec' = [sec EXCEPT ![x] = IF Bodyless(x) THEN Interrupted(x)
                               ELSE [Updated(x) EXCEPT !.serial = serial]]
  /\ UNCHANGED <<serverVars, notices, faults>>

\* The closing SOA.  A secondary rejects a stream without a body, and may reject
\* one whose two ends differ.
SendClosingSOA(x) ==
  /\ sec[x].pc = "close"
  /\ \/ ~Bodyless(x) /\ sec' = [sec EXCEPT ![x] = Updated(x)]
     \/ /\ Bodyless(x) \/ sec[x].opening # serial
        /\ sec' = [sec EXCEPT ![x] = Interrupted(x)]
  /\ UNCHANGED <<serverVars, notices, faults>>

\* WriteMsg fails or the connection breaks.
BreakConnection(x) ==
  /\ faults < MaxFaults /\ ~Resting(x)
  /\ faults' = faults + 1
  /\ sec' = [sec EXCEPT ![x] = Interrupted(x)]
  /\ UNCHANGED <<serverVars, notices>>

StreamStep(x) ==
  \/ LoadSerial(x) \/ SendLoneSOA(x) \/ ReadDeltas(x)
  \/ SendOpeningSOA(x) \/ ListTable(x) \/ SendClosingSOA(x)

Next ==
  \/ \E item \in Items \cup {NoItem} : Write(item)
  \/ DrawSerial \/ RecordDelta
  \/ Crash \/ Restart
  \/ \E x \in Secondaries :
       \/ StreamStep(x) \/ BreakConnection(x)
       \/ Refresh(x) \/ HearNotify(x) \/ LoseNotify(x)

\* Goroutines are scheduled, a supervisor restarts the server, and a secondary's
\* refresh timer goes off.  Nothing is assumed of UPDATEs, faults and NOTIFYs.
Fairness ==
  /\ WF_replicationVars(DrawSerial) /\ WF_replicationVars(RecordDelta)
  /\ WF_replicationVars(Restart)
  /\ \A x \in Secondaries :
       WF_replicationVars(StreamStep(x)) /\ WF_replicationVars(Refresh(x))

Spec == Init /\ [][Next]_replicationVars /\ Fairness

-----------------------------------------------------------------------------

(***************************************************************************)
(* Properties.                                                             *)
(***************************************************************************)
\* Shape of the state; while the server runs, the journal ends at the zone serial
\* or at the one before, whose successor is about to be journaled.
ReplicationTypeOK ==
  /\ table \in Items \cup {NoItem} /\ history \in Seq(Items \cup {NoItem})
  /\ serial \in DOMAIN stands /\ acked \in 1 .. Len(history)
  /\ log \in Journal(DOMAIN log.deltas) /\ DOMAIN log.deltas \subseteq DOMAIN stands
  /\ up => log.latest = (IF writer.pc = "record" THEN Dec(serial) ELSE serial)
  /\ ahead \in BOOLEAN
  /\ writer.pc \in {"idle", "draw", "record"} /\ notices \subseteq Secondaries
  /\ \A x \in Secondaries :
       /\ sec[x].serial \in DOMAIN stands /\ sec[x].zone \subseteq Items
       /\ sec[x].pc \in {"idle", "load", "lone", "uptodate", "deltas", "open", "list", "close"}

\* The secondary has what the table held at v.
Holds(x, v) == IF history[v] = NoItem THEN sec[x].zone = {} ELSE history[v] \in sec[x].zone

HoldsSince(x, v) == \E w \in v .. Len(history) : Holds(x, w)

\* As long as every restart takes a new serial, a secondary is never behind the
\* serial its zone carries, whatever mixture of full and incremental transfers,
\* crashes and restarts brought it there.
NeverBehindItsSerial ==
  ahead => \A x \in Secondaries : HoldsSince(x, stands[sec[x].serial])

\* The comment in handleIXFR calls the zone of such a client up to date: it has every
\* write that was acknowledged, or in the table at the last start, when it asked.
UpToDateMeansCurrent ==
  \A x \in Secondaries : sec[x].pc = "uptodate" => HoldsSince(x, sec[x].owed)

\* That is so as long as every restart takes a serial past those handed out.
UpToDateIsTrue == ahead => UpToDateMeansCurrent

\* If every restart takes a serial past those handed out, then, once UPDATEs and
\* faults cease, every secondary arrives at the table and stays there: no crash
\* between a write and its commit, no lost NOTIFY and no restart with an empty
\* journal keeps a change from it.
Converges == []ahead => <>[](\A x \in Secondaries : sec[x].zone = TxtOf(table))

=============================================================================
