-------------------------- MODULE CommitLogProofs --------------------------
(***************************************************************************)
(* What commitWrite and the journal guarantee for every number of serials, *)
(* every cap, every start-up serial and any number of commits in flight.   *)
(***************************************************************************)
EXTENDS CommitLog, MemChangeLogProofs, FiniteSetTheorems, TLAPS

\* The serials drawn so far.
Drawn == SerialsUpTo(Start, serial)

\* A serial is drawn once: commits in flight and landed ones are all distinct.
DrawnOnce ==
  /\ DOMAIN landed \subseteq Drawn
  /\ \A p \in pending : p.serial \in Drawn /\ p.serial \notin DOMAIN landed
  /\ \A p, q \in pending : p.serial = q.serial => p = q

\* The map holds landed deltas only, and latest is at or above all of them.
JournalTrue ==
  /\ \A s \in DOMAIN landed : s <= log.latest
  /\ \A s \in DOMAIN log.deltas :
       /\ s \in DOMAIN landed
       /\ log.deltas[s] = [serial |-> s, change |-> landed[s]]

\* A serial drawn is in flight or has landed, and latest starts at start-up's.
Accounted ==
  /\ \A s \in Drawn : s \in DOMAIN landed \/ \E p \in pending : p.serial = s
  /\ Start <= log.latest

\* The inductive invariant of CommitLog.
CommitInv == TypeOK /\ DrawnOnce /\ JournalTrue /\ Accounted

\* Start-up establishes the invariant.
LEMMA InitCommitInv == Init => CommitInv
<1> SUFFICES ASSUME Init PROVE CommitInv
  OBVIOUS
<1> USE SerialModAssumption, StartAssumption
<1>1. TypeOK
  BY DEF Init, TypeOK, NewMemChangeLog, EmptyMap, Journal, Serials, Inc
<1>2. DrawnOnce
  BY DEF Init, DrawnOnce, EmptyMap
<1>3. JournalTrue
  BY DEF Init, JournalTrue, NewMemChangeLog, EmptyMap
<1>4. Accounted
  BY DEF Init, Accounted, NewMemChangeLog, Drawn, SerialsUpTo, Serials
<1> QED
  BY <1>1, <1>2, <1>3, <1>4 DEF CommitInv

\* Drawing a serial preserves the invariant.
LEMMA DrawCommitInv ==
  ASSUME CommitInv, NEW change \in Changes, Draw(change)
  PROVE  CommitInv'
<1>1. serial' \in Serials /\ serial' \notin Drawn /\ Drawn' = Drawn \cup {serial'}
  BY NextSerialFresh, StartAssumption DEF Draw, CommitInv, TypeOK, Drawn
<1>2. TypeOK'
  BY <1>1 DEF Draw, CommitInv, TypeOK, Commit
<1>3. DrawnOnce'
  BY <1>1 DEF Draw, CommitInv, DrawnOnce, TypeOK, Commit
<1>4. JournalTrue'
  BY DEF Draw, CommitInv, JournalTrue
<1>5. Accounted'
  <2>1. [serial |-> serial', change |-> change].serial = serial'
    OBVIOUS
  <2>2. \A s \in Drawn' : s \in DOMAIN landed' \/ \E p \in pending' : p.serial = s
    BY <1>1, <2>1 DEF Draw, CommitInv, Accounted
  <2> QED
    BY <2>2 DEF Draw, CommitInv, Accounted
<1> QED
  BY <1>2, <1>3, <1>4, <1>5 DEF CommitInv

\* Landing a commit preserves the invariant and keeps the journal within Cap.
LEMMA LandCommitInv ==
  ASSUME CommitInv, NEW p \in pending, Land(p)
  PROVE  CommitInv' /\ AtMostCap'
<1>1. p \in Commit /\ p.serial \in Serials /\ p.change \in Changes
  BY DEF CommitInv, TypeOK, Commit
<1>2. /\ DOMAIN log'.deltas \subseteq DOMAIN log.deltas \cup {p.serial}
      /\ DOMAIN log'.deltas \subseteq Serials
      /\ log' \in Journal(DOMAIN log'.deltas)
      /\ \A t \in DOMAIN log'.deltas :
           log'.deltas[t] = IF t = p.serial THEN [serial |-> p.serial, change |-> p.change]
                            ELSE log.deltas[t]
      /\ log'.latest = IF p.serial > log.latest THEN p.serial ELSE log.latest
      /\ Cardinality(DOMAIN log'.deltas) <= Cap
  BY <1>1, RecordEffect DEF CommitInv, TypeOK, Land
<1>3. /\ DOMAIN landed' = DOMAIN landed \cup {p.serial}
      /\ \A s \in DOMAIN landed' :
           landed'[s] = IF s = p.serial THEN p.change ELSE landed[s]
  BY DEF Land
<1>4. TypeOK'
  <2>1. DOMAIN landed' \subseteq Serials /\ landed' \in [DOMAIN landed' -> Changes]
    BY <1>1 DEF Land, CommitInv, TypeOK
  <2> QED
    BY <1>2, <2>1 DEF Land, CommitInv, TypeOK
<1>5. DrawnOnce'
  BY <1>3 DEF Land, CommitInv, DrawnOnce, Drawn
<1>6. JournalTrue'
  <2>1. \A s \in DOMAIN landed' : s <= log'.latest
    BY <1>1, <1>2, <1>3 DEF CommitInv, JournalTrue, TypeOK, Serials, Journal
  <2>2. ASSUME NEW t \in DOMAIN log'.deltas
        PROVE  /\ t \in DOMAIN landed'
               /\ log'.deltas[t] = [serial |-> t, change |-> landed'[t]]
    BY <1>2, <1>3 DEF CommitInv, JournalTrue
  <2> QED
    BY <2>1, <2>2 DEF JournalTrue
<1>7. Accounted'
  BY <1>1, <1>2, <1>3, StartAssumption DEF Land, CommitInv, Accounted, Drawn, TypeOK, Serials, Journal
<1> QED
  BY <1>2, <1>4, <1>5, <1>6, <1>7 DEF CommitInv, AtMostCap

\* The inductive invariant holds throughout, and with it the cap.
THEOREM CommitInvariant == Spec => [](CommitInv /\ AtMostCap)
<1>1. Init => CommitInv /\ AtMostCap
  <2>1. Init => DOMAIN log.deltas = {}
    BY DEF Init, NewMemChangeLog, EmptyMap
  <2>2. Cardinality({}) = 0
    BY FS_EmptySet
  <2> QED
    BY <2>1, <2>2, InitCommitInv, CapAssumption DEF AtMostCap
<1>2. CommitInv /\ AtMostCap /\ [Next]_commitVars => (CommitInv /\ AtMostCap)'
  <2> SUFFICES ASSUME CommitInv, AtMostCap, [Next]_commitVars PROVE CommitInv' /\ AtMostCap'
    OBVIOUS
  <2>1. ASSUME NEW change \in Changes, Draw(change) PROVE CommitInv' /\ AtMostCap'
    BY <2>1, DrawCommitInv DEF Draw, AtMostCap
  <2>2. ASSUME NEW p \in pending, Land(p) PROVE CommitInv' /\ AtMostCap'
    BY <2>2, LandCommitInv
  <2>3. CASE UNCHANGED commitVars
    BY <2>3 DEF commitVars, CommitInv, TypeOK, DrawnOnce, Drawn, JournalTrue, Accounted, AtMostCap
  <2> QED
    BY <2>1, <2>2, <2>3 DEF Next, LapDone
<1> QED
  BY <1>1, <1>2, PTL DEF Spec

\* TypeOK of commitWrite and the journal: serials stay within the serial space.
THEOREM TypeCorrect == Spec => []TypeOK
<1>1. CommitInv => TypeOK
  BY DEF CommitInv
<1> QED
  BY <1>1, CommitInvariant, PTL

\* Record holds the journal to its cap in every landing order.
THEOREM CapHolds == Spec => []AtMostCap
BY CommitInvariant, PTL

\* An answer has every landed commit whose serial is above the client's as a plain
\* integer, which is how Deltas compares them.
LEMMA HigherAnswered ==
  ASSUME CommitInv, NEW since \in Serials, Deltas(since) # NoDeltas,
         NEW s \in DOMAIN landed, s > since
  PROVE  /\ s - since \in DOMAIN Deltas(since)
         /\ Deltas(since)[s - since] = [serial |-> s, change |-> landed[s]]
<1>1. s \in Int /\ since \in Int /\ log.latest \in Int /\ s <= log.latest
  BY SerialModAssumption DEF CommitInv, TypeOK, JournalTrue, Journal, Serials
<1>2. s - since \in DOMAIN Deltas(since)
  BY <1>1, AnswerShape DEF CommitInv, TypeOK
<1>3. since + (s - since) = s
  BY <1>1
<1>4. s \in DOMAIN log.deltas /\ Deltas(since)[s - since] = log.deltas[s]
  BY <1>2, <1>3, AnswerShape DEF CommitInv, TypeOK
<1> QED
  BY <1>2, <1>4 DEF CommitInv, JournalTrue

\* Deltas answers with every landed delta that is newer than the client's serial,
\* as the comment on ChangeLog says, also past the wrap of the uint32, unless the
\* serial has wrapped and a commit drawn in between is in flight.
THEOREM AnswersAreComplete == Spec => []AnswersComplete
<1>1. CommitInv => AnswersComplete
  <2> SUFFICES ASSUME CommitInv,
                      NEW since \in Serials, Deltas(since) # NoDeltas,
                      NEW s \in DOMAIN landed, DrawNumber(s) > DrawNumber(since)
               PROVE  \/ /\ DrawNumber(s) - DrawNumber(since) \in DOMAIN Deltas(since)
                         /\ Deltas(since)[DrawNumber(s) - DrawNumber(since)]
                              = [serial |-> s, change |-> landed[s]]
                      \/ /\ s < since
                         /\ \E p \in pending : DrawNumber(p.serial)
                              \in DrawNumber(since) + 1 .. DrawNumber(s) - 1
    BY DEF AnswersComplete
  <2> DEFINE last == SerialMod - 1
  <2>1. /\ s \in Serials /\ s \in Drawn /\ serial \in Serials /\ Start \in Serials
        /\ SerialMod \in Int /\ log.latest \in Serials /\ Start <= log.latest
    BY SerialModAssumption, StartAssumption
    DEF CommitInv, TypeOK, DrawnOnce, Accounted, Journal
  <2>2. since <= log.latest /\ log.latest # last
    BY AnswerShape DEF CommitInv, TypeOK, Deltas, Unbroken
  \* No client before start-up is answered: the start-up serial is not in the map.
  <2>3. Start <= since
    <3> SUFFICES ASSUME since < Start PROVE FALSE
      BY <2>1 DEF Serials
    <3>1. Start \in since + 1 .. log.latest
      BY <2>1 DEF Serials
    <3>2. Start \in DOMAIN landed
      BY <3>1 DEF Deltas, Unbroken, CommitInv, JournalTrue
    <3>3. Start \notin Drawn
      BY <2>1 DEF Drawn, SerialsUpTo, Serials
    <3> QED
      BY <3>2, <3>3 DEF CommitInv, DrawnOnce
  <2>4. CASE Start <= s
    <3>1. s > since /\ DrawNumber(s) - DrawNumber(since) = s - since
      BY <2>1, <2>3, <2>4 DEF DrawNumber, Serials
    <3> QED
      BY <3>1, HigherAnswered
  \* A wrapped serial has landed: then the last one was drawn, and cannot have landed.
  <2>5. CASE s < Start
    <3>1. last \in Drawn
      BY <2>1, <2>2, <2>3, <2>5 DEF Drawn, SerialsUpTo, Serials
    <3>2. last \notin DOMAIN landed
      BY <2>1, <2>2 DEF CommitInv, JournalTrue, Serials
    <3>3. PICK p \in pending : p.serial = last
      BY <3>1, <3>2 DEF CommitInv, Accounted
    <3>4. DrawNumber(last) \in DrawNumber(since) + 1 .. DrawNumber(s) - 1
      BY <2>1, <2>2, <2>3, <2>5 DEF DrawNumber, Serials
    <3>5. s < since
      BY <2>1, <2>3, <2>5 DEF Serials
    <3> QED
      BY <3>3, <3>4, <3>5
  <2> QED
    BY <2>1, <2>4, <2>5 DEF Serials
<1> QED
  BY <1>1, CommitInvariant, PTL

\* Deltas never jumps over a commit that has its serial but is not journaled yet.
THEOREM InFlightNotSkipped == Spec => []NoInFlightSkipped
<1>1. CommitInv => NoInFlightSkipped
  <2> SUFFICES ASSUME CommitInv,
                      NEW since \in Serials, Deltas(since) # NoDeltas,
                      NEW p \in pending, p.serial > since,
                      NEW i \in DOMAIN Deltas(since)
               PROVE  Deltas(since)[i].serial < p.serial
    BY DEF NoInFlightSkipped
  <2>1. p.serial \in Int /\ since \in Int /\ log.latest \in Int /\ p.serial \notin DOMAIN log.deltas
    BY SerialModAssumption
    DEF CommitInv, TypeOK, Commit, Serials, Journal, DrawnOnce, JournalTrue
  <2>2. ~(p.serial - since \in DOMAIN Deltas(since))
    <3>1. since + (p.serial - since) = p.serial
      BY <2>1
    <3> QED
      BY <2>1, <3>1, AnswerShape DEF CommitInv, TypeOK
  <2>3. log.latest < p.serial
    BY <2>1, <2>2, AnswerShape DEF CommitInv, TypeOK
  <2>4. /\ since + i \in DOMAIN log.deltas
        /\ Deltas(since)[i] = log.deltas[since + i]
        /\ i \in 1 .. log.latest - since
    BY AnswerShape DEF CommitInv, TypeOK
  <2>5. Deltas(since)[i].serial = since + i
    <3>1. log.deltas[since + i] = [serial |-> since + i, change |-> landed[since + i]]
      BY <2>4 DEF CommitInv, JournalTrue
    <3> QED
      BY <2>4, <3>1
  <2> QED
    BY <2>1, <2>3, <2>4, <2>5
<1> QED
  BY <1>1, CommitInvariant, PTL

\* Record alters no landed delta and revives no pruned one.
THEOREM HistoryIsFixed == Spec => HistoryFixed
<1>1. CommitInv /\ [Next]_commitVars => [HistoryKept]_commitVars
  <2> SUFFICES ASSUME CommitInv, Next PROVE HistoryKept
    OBVIOUS
  <2>1. ASSUME NEW change \in Changes, Draw(change) PROVE HistoryKept
    BY <2>1 DEF Draw, HistoryKept
  <2>2. ASSUME NEW p \in pending, Land(p) PROVE HistoryKept
    <3>1. p.serial \in Serials /\ p.change \in Changes /\ p.serial \notin DOMAIN landed
      BY DEF CommitInv, TypeOK, Commit, DrawnOnce
    <3>2. /\ DOMAIN log'.deltas \subseteq DOMAIN log.deltas \cup {p.serial}
          /\ \A t \in DOMAIN log'.deltas :
               log'.deltas[t] = IF t = p.serial THEN [serial |-> p.serial, change |-> p.change]
                                ELSE log.deltas[t]
      BY <2>2, <3>1, RecordEffect DEF CommitInv, TypeOK, Land
    <3> QED
      BY <3>1, <3>2 DEF HistoryKept
  <2>3. CASE LapDone
    BY <2>3 DEF LapDone, commitVars, CommitInv, JournalTrue, HistoryKept
  <2> QED
    BY <2>1, <2>2, <2>3 DEF Next
<1> QED
  BY <1>1, CommitInvariant, PTL DEF Spec, HistoryFixed

=============================================================================
