----------------------------- MODULE CommitLog -----------------------------
(***************************************************************************)
(* commitWrite (server.go) run by concurrent UPDATE goroutines.  It draws  *)
(* a serial with one atomic Add and then hands it, with the delta, to the  *)
(* journal under the journal's own mutex.  Nothing is held in between, so  *)
(* drawing and landing are two steps and deltas may land out of order.     *)
(*                                                                         *)
(* pending holds the commits drawn and not yet landed.  landed is a ghost: *)
(* the change each landed serial stands for, whatever the journal keeps.   *)
(***************************************************************************)
EXTENDS MemChangeLog

CONSTANTS Start,        \* Config.Serial, the serial at start-up
          MaxPending    \* bound: goroutines inside commitWrite at once

ASSUME StartAssumption == Start \in Serials
ASSUME MaxPendingAssumption == MaxPending \in Nat

VARIABLES serial,       \* Handler.serial
          pending,
          landed

commitVars == <<serial, pending, landed, log>>

Commit == [serial : Serials, change : Changes]

Init ==
  /\ serial = Start
  /\ pending = {}
  /\ landed = EmptyMap
  /\ log = NewMemChangeLog(Start)

\* Mutant of Draw: load and store instead of an atomic add, so a draw that
\* overlaps another one loses its increment.
DrawLostIncrement(change) ==
  /\ Cardinality(pending) < MaxPending
  /\ Inc(serial) # Start
  /\ serial' = IF pending = {} THEN Inc(serial) ELSE serial
  /\ pending' = pending \cup {[serial |-> serial', change |-> change]}
  /\ UNCHANGED <<landed, log>>

\* s := h.serial.Add(1).  Bound: a process draws fewer than SerialMod serials,
\* so no serial is drawn twice.
Draw(change) ==
  /\ Cardinality(pending) < MaxPending
  /\ Inc(serial) # Start
  /\ serial' = Inc(serial)
  /\ pending' = pending \cup {[serial |-> serial', change |-> change]}
  /\ UNCHANGED <<landed, log>>

\* h.changelog.Record(s, removed, added).
Land(p) ==
  /\ pending' = pending \ {p}
  /\ landed' = [s \in DOMAIN landed \cup {p.serial} |->
                  IF s = p.serial THEN p.change ELSE landed[s]]
  /\ Record(p.serial, p.change)
  /\ UNCHANGED serial

\* The bound on Draw is reached and every commit has landed.
LapDone ==
  /\ Inc(serial) = Start /\ pending = {}
  /\ UNCHANGED commitVars

Next ==
  \/ LapDone
  \/ \E change \in Changes : Draw(change)
  \/ \E p \in pending : Land(p)

Spec == Init /\ [][Next]_commitVars

-----------------------------------------------------------------------------

\* The serial, the commits in flight, the ghost and the journal are well formed.
TypeOK ==
  /\ serial \in Serials
  /\ pending \subseteq Commit
  /\ DOMAIN landed \subseteq Serials /\ landed \in [DOMAIN landed -> Changes]
  /\ DOMAIN log.deltas \subseteq Serials /\ log \in Journal(DOMAIN log.deltas)

\* How many draws after start-up the serial s is drawn.
DrawNumber(s) == IF s >= Start THEN s - Start ELSE s - Start + SerialMod

\* The comment on ChangeLog says that Deltas returns every delta newer than since
\* or says that it cannot.  So an answer holds, at its place, the very delta of
\* every landed commit that was drawn after serial since, whichever landed late or
\* was pruned.  Deltas compares serials as plain integers, so there is one
\* exception, past the wrap of the uint32: a wrapped serial is missing while a
\* commit drawn between the two is in flight, as serial 0 is when the last serial
\* before the wrap is.
AnswersComplete ==
  \A since \in Serials : Deltas(since) # NoDeltas /\ DrawNumber(since) <= DrawNumber(serial) =>
    \A s \in DOMAIN landed : DrawNumber(s) > DrawNumber(since) =>
      \/ LET n == DrawNumber(s) - DrawNumber(since)
         IN  /\ n \in DOMAIN Deltas(since)
             /\ Deltas(since)[n] = [serial |-> s, change |-> landed[s]]
      \/ /\ s < since
         /\ \E p \in pending : DrawNumber(p.serial) \in DrawNumber(since) + 1 .. DrawNumber(s) - 1

\* Deltas never jumps over a commit still in flight: such a commit is later
\* than everything in the answer, so a client that applies the answer and asks
\* again with the last serial in it still gets that commit.
NoInFlightSkipped ==
  \A since \in Serials : Deltas(since) # NoDeltas =>
    \A p \in pending : p.serial > since =>
      \A i \in DOMAIN Deltas(since) : Deltas(since)[i].serial < p.serial

\* Record keeps the journal within memChangeLogCap whatever the order in which
\* commits land.
AtMostCap == Cardinality(DOMAIN log.deltas) <= Cap

\* Record leaves history alone: a landed delta is never altered, and one that
\* was pruned never comes back.
HistoryKept ==
  \A s \in DOMAIN landed \cap DOMAIN log'.deltas :
    /\ s \in DOMAIN log.deltas
    /\ log'.deltas[s] = log.deltas[s]

\* No step of commitWrite, Record included, rewrites a landed delta.
HistoryFixed == [][HistoryKept]_commitVars

\* The README says the journal holds the last Cap changes and only older clients
\* get a full transfer: with no commit in flight, a client at most Cap changes
\* behind is answered from the journal (short of the last serial, where the
\* loop of Deltas cannot end).
RecentClientsAnswered ==
  pending = {} /\ Start <= serial /\ serial < SerialMod - 1 =>
    \A since \in Start .. serial :
      serial - since <= Cap => Deltas(since) # NoDeltas

=============================================================================
