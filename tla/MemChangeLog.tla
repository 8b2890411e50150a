---------------------------- MODULE MemChangeLog ----------------------------
(***************************************************************************)
(* The in-memory IXFR journal (journal.go): a mutex-protected map from the *)
(* serial a write produced to its delta, capped at Cap entries.            *)
(*                                                                         *)
(* Serials are unsigned machine integers: SerialMod stands for 2^32 and    *)
(* Inc and Dec wrap.  Both methods hold the mutex from their first line to *)
(* their last, so each is one step: Record is an action on the variable    *)
(* log, Deltas an operator on its current value.                           *)
(***************************************************************************)
EXTENDS Integers, Sequences, FiniteSets

CONSTANTS SerialMod,   \* number of serials; 2^32 in the program
          Cap,         \* memChangeLogCap; 4096 in the program
          Changes,     \* what a delta carries: the removed and the added RRs
          NoDeltas     \* the answer (nil, false) of Deltas

ASSUME SerialModAssumption == SerialMod \in Nat /\ SerialMod > 1
ASSUME CapAssumption == Cap \in Nat /\ Cap > 0 /\ Cap < SerialMod

VARIABLE log

Serials == 0 .. SerialMod - 1

Inc(s) == IF s = SerialMod - 1 THEN 0 ELSE s + 1
Dec(s) == IF s = 0 THEN SerialMod - 1 ELSE s - 1

Delta == [serial : Serials, change : Changes]
ASSUME NoDeltasAssumption == \A n \in 0 .. SerialMod : NoDeltas \notin [1 .. n -> Delta]

(***************************************************************************)
(* MemChangeLog: oldest and latest delimit the history the journal claims  *)
(* to hold; deltas is the map, whose keys are D; started is set by the     *)
(* first Record.                                                           *)
(***************************************************************************)
Journal(D) == [oldest : Serials, latest : Serials, started : BOOLEAN, deltas : [D -> Delta]]

EmptyMap == [s \in {} |-> s]

NewMemChangeLog(start) ==
  [oldest |-> Inc(start), latest |-> start, started |-> FALSE, deltas |-> EmptyMap]

-----------------------------------------------------------------------------

\* Mutant of Advanced: the counter is wider than the serials and never wraps.
AdvancedWide(base, n) == base + n

\* base advanced n times, wrapping.
Advanced(base, n) == IF base + n < SerialMod THEN base + n ELSE base + n - SerialMod

\* The n serials base, base + 1, ..., wrapping.
Swept(base, n) == {Advanced(base, k) : k \in 0 .. n - 1}

Remaining(serials, base, n) == serials \ Swept(base, n)

\* Mutant of PruneStops: the cap is off by one and one entry too many stays.
PruneStopsLate(serials, base, n) ==
  /\ Cardinality(Remaining(serials, base, n)) <= Cap + 1
  /\ \A k \in 0 .. n - 1 : Cardinality(Remaining(serials, base, k)) > Cap + 1

\* The prune loop run n times deletes the n serials from base on, whether or
\* not the map holds them, and stops as soon as Cap entries are left.
PruneStops(serials, base, n) ==
  /\ Cardinality(Remaining(serials, base, n)) <= Cap
  /\ \A k \in 0 .. n - 1 : Cardinality(Remaining(serials, base, k)) > Cap

\* The first record sets the baseline of a journal whose oldest is still zero.
Baseline(s) == IF ~log.started /\ log.oldest = 0 THEN s ELSE log.oldest

\* Mutant of Record: latest follows the last call, not the highest serial.
RecordLatestIsLast(s, change) ==
  LET all == [t \in DOMAIN log.deltas \cup {s} |->
                IF t = s THEN [serial |-> s, change |-> change] ELSE log.deltas[t]]
  IN  \E n \in 0 .. SerialMod - 1 :
        /\ PruneStops(DOMAIN all, Baseline(s), n)
        /\ log' = [oldest  |-> Advanced(Baseline(s), n),
                   latest  |-> s,
                   started |-> TRUE,
                   deltas  |-> [t \in Remaining(DOMAIN all, Baseline(s), n) |-> all[t]]]

Record(s, change) ==
  LET all == [t \in DOMAIN log.deltas \cup {s} |->
                IF t = s THEN [serial |-> s, change |-> change] ELSE log.deltas[t]]
  IN  \E n \in 0 .. SerialMod - 1 :
        /\ PruneStops(DOMAIN all, Baseline(s), n)
        /\ log' = [oldest  |-> Advanced(Baseline(s), n),
                   latest  |-> IF s > log.latest THEN s ELSE log.latest,
                   started |-> TRUE,
                   deltas  |-> [t \in Remaining(DOMAIN all, Baseline(s), n) |-> all[t]]]

-----------------------------------------------------------------------------

\* Mutant of Unbroken: the loop variable is wider than the serials, so that the
\* loop ends at the last serial as at any other.
UnbrokenWide(since) == \A s \in since + 1 .. log.latest : s \in DOMAIN log.deltas

\* Every serial after since up to latest is in the map.  The loop variable is
\* a uint32 too: when latest is the last serial, s <= latest never fails, and
\* the loop ends at the first serial the map does not hold.
Unbroken(since) ==
  /\ \A s \in since + 1 .. log.latest : s \in DOMAIN log.deltas
  /\ log.latest # SerialMod - 1

\* Mutant of Deltas: a missing entry is not noticed and reads as a zero Delta.
DeltasZeroValue(since) ==
  IF since > log.latest \/ since < Dec(log.oldest) \/ log.latest = SerialMod - 1
  THEN NoDeltas
  ELSE [i \in 1 .. log.latest - since |->
          IF since + i \in DOMAIN log.deltas THEN log.deltas[since + i]
          ELSE [serial |-> 0, change |-> CHOOSE c \in Changes : TRUE]]

\* Mutant of Deltas: a client one change behind the oldest delta is turned away.
DeltasOffByOne(since) ==
  IF since > log.latest \/ since < log.oldest \/ ~Unbroken(since)
  THEN NoDeltas
  ELSE [i \in 1 .. log.latest - since |-> log.deltas[since + i]]

Deltas(since) ==
  IF since > log.latest \/ since < Dec(log.oldest) \/ ~Unbroken(since)
  THEN NoDeltas
  ELSE [i \in 1 .. log.latest - since |-> log.deltas[since + i]]

-----------------------------------------------------------------------------

\* What a client makes of difference sequences: zone after the changes of ds, in turn.
Patched(zone, ds) ==
  LET z[i \in 0 .. Len(ds)] ==
        IF i = 0 THEN zone ELSE (z[i - 1] \ ds[i].change.removed) \cup ds[i].change.added
  IN  z[Len(ds)]

=============================================================================
