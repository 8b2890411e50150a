------------------------- MODULE MemChangeLogProofs -------------------------
(***************************************************************************)
(* What Record and Deltas of the journal do, for every cap and every       *)
(* number of serials: the lemmas that the modules built on the journal     *)
(* need.                                                                   *)
(***************************************************************************)
EXTENDS MemChangeLog, FiniteSetTheorems, WellFoundedInduction, TLAPS

\* The serials after base up to s, around the end of the serial space if s is
\* below base.
SerialsUpTo(base, s) ==
  IF base <= s THEN base + 1 .. s ELSE (base + 1 .. SerialMod - 1) \cup (0 .. s)

\* The next serial is not among those counted from base: no lap is completed.
LEMMA NextSerialFresh ==
  ASSUME NEW base \in Serials, NEW s \in Serials, Inc(s) # base
  PROVE  /\ Inc(s) \in Serials /\ Inc(s) \notin SerialsUpTo(base, s)
         /\ SerialsUpTo(base, Inc(s)) = SerialsUpTo(base, s) \cup {Inc(s)}
         /\ base <= Inc(s) => base <= s /\ Inc(s) = s + 1
BY SerialModAssumption DEF Serials, Inc, SerialsUpTo

\* What one Record does to the journal: it adds its delta at its serial, raises
\* latest to it, forgets some deltas, alters none, and stays within Cap.
LEMMA RecordEffect ==
  ASSUME DOMAIN log.deltas \subseteq Serials, log \in Journal(DOMAIN log.deltas),
         NEW s \in Serials, NEW change \in Changes, Record(s, change)
  PROVE  /\ DOMAIN log'.deltas \subseteq DOMAIN log.deltas \cup {s}
         /\ DOMAIN log'.deltas \subseteq Serials
         /\ log' \in Journal(DOMAIN log'.deltas)
         /\ \A t \in DOMAIN log'.deltas :
              log'.deltas[t] = IF t = s THEN [serial |-> s, change |-> change]
                               ELSE log.deltas[t]
         /\ log'.latest = IF s > log.latest THEN s ELSE log.latest
         /\ Cardinality(DOMAIN log'.deltas) <= Cap
<1> DEFINE all == [t \in DOMAIN log.deltas \cup {s} |->
                     IF t = s THEN [serial |-> s, change |-> change] ELSE log.deltas[t]]
           base == Baseline(s)
           left(n) == Remaining(DOMAIN all, base, n)
<1>1. PICK n \in 0 .. SerialMod - 1 :
        /\ PruneStops(DOMAIN all, base, n)
        /\ log' = [oldest  |-> Advanced(base, n),
                   latest  |-> IF s > log.latest THEN s ELSE log.latest,
                   started |-> TRUE,
                   deltas  |-> [t \in left(n) |-> all[t]]]
  BY DEF Record
<1>2. DOMAIN all = DOMAIN log.deltas \cup {s}
  OBVIOUS
<1>3. left(n) \subseteq DOMAIN all
  BY DEF Remaining
<1>4. \A t \in DOMAIN all : all[t] \in Delta
  BY DEF Journal, Delta
<1>5. base \in Serials
  BY DEF Baseline, Journal
<1>6. Advanced(base, n) \in Serials
  BY <1>5, SerialModAssumption DEF Advanced, Serials
<1>7. DOMAIN log'.deltas = left(n)
  BY <1>1
<1>8. log' \in Journal(DOMAIN log'.deltas)
  <2>1. [t \in left(n) |-> all[t]] \in [left(n) -> Delta]
    BY <1>3, <1>4
  <2>2. (IF s > log.latest THEN s ELSE log.latest) \in Serials
    BY DEF Journal
  <2> QED
    BY <1>1, <1>6, <1>7, <2>1, <2>2 DEF Journal
<1>9. Cardinality(DOMAIN log'.deltas) <= Cap
  BY <1>1, <1>7 DEF PruneStops
<1> QED
  BY <1>1, <1>2, <1>3, <1>7, <1>8, <1>9

\* When Deltas answers at all, it answers with exactly the map's entries for the
\* serials after since up to latest.
LEMMA AnswerShape ==
  ASSUME log \in Journal(DOMAIN log.deltas), NEW since \in Serials, Deltas(since) # NoDeltas
  PROVE  /\ since <= log.latest
         /\ DOMAIN Deltas(since) = 1 .. log.latest - since
         /\ \A i \in DOMAIN Deltas(since) :
              since + i \in DOMAIN log.deltas /\ Deltas(since)[i] = log.deltas[since + i]
<1>1. ~(since > log.latest) /\ Unbroken(since)
  BY DEF Deltas
<1>2. Deltas(since) = [i \in 1 .. log.latest - since |-> log.deltas[since + i]]
  BY DEF Deltas
<1>3. log.latest \in Int /\ since \in Int
  BY SerialModAssumption DEF Journal, Serials
<1>4. \A i \in 1 .. log.latest - since : since + i \in DOMAIN log.deltas
  BY <1>1, <1>3 DEF Unbroken
<1> QED
  BY <1>1, <1>2, <1>3, <1>4

-----------------------------------------------------------------------------

(***************************************************************************)
(* Commits that land in the order of their serials.                        *)
(***************************************************************************)

\* The first delta a journal keeps that was started at base and has seen every
\* serial up to last: all of them, or the last Cap.
FirstKept(base, last) == IF last - base <= Cap THEN base + 1 ELSE (last - Cap) + 1

\* Such a journal, if nothing landed out of order and no serial has wrapped.
InOrder(journal, base, last) ==
  /\ journal.latest = last
  /\ DOMAIN journal.deltas = FirstKept(base, last) .. last
  /\ base < SerialMod - 1 => journal.oldest = FirstKept(base, last)

\* A new journal has seen nothing after its start.
LEMMA NewIsInOrder ==
  ASSUME NEW base \in Serials
  PROVE  InOrder(NewMemChangeLog(base), base, base)
BY SerialModAssumption, CapAssumption
DEF InOrder, NewMemChangeLog, EmptyMap, FirstKept, Inc, Serials

\* The prune loop on an interval of serials: it stops at once, or after one round.
LEMMA PruneInterval ==
  ASSUME NEW a \in Serials, NEW b \in Serials, a <= b, (b - a) + 1 <= Cap + 1,
         NEW n \in 0 .. SerialMod - 1, PruneStops(a .. b, a, n)
  PROVE  /\ n = IF (b - a) + 1 <= Cap THEN 0 ELSE 1
         /\ Remaining(a .. b, a, n) = a + n .. b
         /\ Advanced(a, n) = a + n
<1>1. a \in Int /\ b \in Int /\ SerialMod \in Int /\ n \in Int /\ Cap \in Int /\ Cap > 0
  BY SerialModAssumption, CapAssumption DEF Serials
<1>2. Remaining(a .. b, a, 0) = a .. b
  BY <1>1 DEF Remaining, Swept
<1>3. Cardinality(a .. b) = (b - a) + 1
  BY <1>1, FS_Interval
<1>4. Advanced(a, 0) = a
  BY <1>1 DEF Advanced, Serials
<1>5. CASE (b - a) + 1 <= Cap
  <2>1. n = 0
    BY <1>1, <1>2, <1>3, <1>5 DEF PruneStops
  <2> QED
    BY <1>1, <1>2, <1>4, <1>5, <2>1
<1>6. CASE ~((b - a) + 1 <= Cap)
  <2>1. n # 0
    BY <1>1, <1>2, <1>3, <1>6 DEF PruneStops
  <2>2. Remaining(a .. b, a, 1) = a + 1 .. b
    <3>1. Swept(a, 1) = {a}
      BY <1>1, <1>4 DEF Swept
    <3> QED
      BY <1>1, <3>1 DEF Remaining
  <2>3. Cardinality(a + 1 .. b) = b - a
    <3>1. a + 1 \in Int
      BY <1>1
    <3>2. Cardinality(a + 1 .. b) = IF a + 1 > b THEN 0 ELSE b - (a + 1) + 1
      BY <1>1, <3>1, FS_Interval
    <3> QED
      BY <1>1, <3>2
  <2>4. n = 1
    BY <1>1, <1>6, <2>1, <2>2, <2>3 DEF PruneStops
  <2>5. a + 1 <= b
    BY <1>1, <1>6
  <2>6. Advanced(a, 1) = a + 1
    BY <1>1, <2>5 DEF Advanced, Serials
  <2> QED
    BY <1>6, <2>2, <2>4, <2>6
<1> QED
  BY <1>5, <1>6

\* A Record of the next serial keeps the journal in order.
LEMMA RecordInOrder ==
  ASSUME log \in Journal(DOMAIN log.deltas), NEW base \in Serials, NEW last \in Serials,
         base <= last, last + 1 \in Serials, InOrder(log, base, last),
         NEW change \in Changes, Record(last + 1, change)
  PROVE  InOrder(log', base, last + 1)
<1> DEFINE s == last + 1
           a == FirstKept(base, last)
           all == [t \in DOMAIN log.deltas \cup {s} |->
                     IF t = s THEN [serial |-> s, change |-> change] ELSE log.deltas[t]]
<1>1. /\ base \in Int /\ last \in Int /\ SerialMod \in Int /\ Cap \in Int /\ Cap > 0
      /\ base >= 0 /\ base < SerialMod - 1 /\ last + 1 < SerialMod
  BY SerialModAssumption, CapAssumption DEF Serials
<1>2. /\ a \in Int /\ a >= 1 /\ a <= s /\ (s - a) + 1 <= Cap + 1 /\ a \in Serials
      /\ log.oldest = a /\ DOMAIN log.deltas = a .. last /\ log.latest = last
  BY <1>1 DEF FirstKept, InOrder, Serials
<1>3. Baseline(s) = a
  BY <1>1, <1>2 DEF Baseline
<1>4. DOMAIN all = a .. s
  BY <1>1, <1>2
<1>5. PICK n \in 0 .. SerialMod - 1 :
        /\ PruneStops(DOMAIN all, Baseline(s), n)
        /\ log' = [oldest  |-> Advanced(Baseline(s), n),
                   latest  |-> IF s > log.latest THEN s ELSE log.latest,
                   started |-> TRUE,
                   deltas  |-> [t \in Remaining(DOMAIN all, Baseline(s), n) |-> all[t]]]
  BY DEF Record
<1> HIDE DEF all, a, s
<1>6. /\ n = IF (s - a) + 1 <= Cap THEN 0 ELSE 1
      /\ Remaining(a .. s, a, n) = a + n .. s
      /\ Advanced(a, n) = a + n
  BY <1>2, <1>3, <1>4, <1>5, PruneInterval DEF s
<1>7. a + n = FirstKept(base, s)
  BY <1>1, <1>2, <1>6 DEF FirstKept, a, s
<1>8. log'.latest = s /\ log'.oldest = a + n /\ DOMAIN log'.deltas = a + n .. s
  BY <1>1, <1>2, <1>3, <1>4, <1>5, <1>6 DEF s
<1> QED
  BY <1>7, <1>8 DEF InOrder, s

\* A journal in order answers every client that is at most Cap changes behind, as
\* long as latest is not the last serial there is.
LEMMA InOrderAnswers ==
  ASSUME log \in Journal(DOMAIN log.deltas), NEW base \in Serials, NEW last \in Serials,
         base <= last, last < SerialMod - 1, InOrder(log, base, last),
         NEW since \in base .. last, last - since <= Cap
  PROVE  Deltas(since) # NoDeltas
<1> DEFINE answer == [i \in 1 .. log.latest - since |-> log.deltas[since + i]]
<1>1. /\ base \in Int /\ last \in Int /\ since \in Int /\ SerialMod \in Int /\ Cap \in Int
      /\ Cap > 0 /\ base >= 0 /\ base < SerialMod - 1
  BY SerialModAssumption, CapAssumption DEF Serials
<1>2. /\ log.latest = last /\ DOMAIN log.deltas = FirstKept(base, last) .. last
      /\ log.oldest = FirstKept(base, last)
  BY <1>1 DEF InOrder
<1>3. FirstKept(base, last) <= since + 1 /\ FirstKept(base, last) >= 1 /\ FirstKept(base, last) \in Int
  BY <1>1 DEF FirstKept
<1>4. Unbroken(since)
  BY <1>1, <1>2, <1>3 DEF Unbroken
<1>5. ~(since > log.latest \/ since < Dec(log.oldest))
  BY <1>1, <1>2, <1>3 DEF Dec
<1>6. Deltas(since) = answer
  BY <1>4, <1>5 DEF Deltas
<1>7. answer \in [1 .. last - since -> Delta] /\ last - since \in 0 .. SerialMod
  <2>1. \A i \in 1 .. last - since : since + i \in FirstKept(base, last) .. last
    BY <1>1, <1>3
  <2>2. log.deltas \in [DOMAIN log.deltas -> Delta]
    BY DEF Journal
  <2>3. \A i \in 1 .. last - since : log.deltas[since + i] \in Delta
    BY <1>2, <2>1, <2>2
  <2>4. last - since \in 0 .. SerialMod
    BY <1>1
  <2> QED
    BY <1>2, <2>3, <2>4
<1> QED
  BY <1>6, <1>7, NoDeltasAssumption

-----------------------------------------------------------------------------

(***************************************************************************)
(* Difference sequences applied in turn.                                   *)
(***************************************************************************)

\* A set of naturals that is not empty has a least member.
LEMMA LeastNatural ==
  ASSUME NEW S, S \subseteq Nat, S # {}
  PROVE  \E m \in S : \A i \in S : m <= i
<1> DEFINE R == {ss \in Nat \X Nat : ss[1] < ss[2]}
<1>1. IsWellFoundedOn(R, Nat)
  BY NatLessThanWellFounded DEF OpToRel
<1> HIDE DEF R
<1>2. PICK m \in S : \A i \in S : ~(<<i, m>> \in R)
  BY <1>1, WFMin
<1>3. \A i \in S : i < m => <<i, m>> \in R
  BY DEF R
<1>4. \A i \in S : i \in Nat /\ m \in Nat /\ ~(i < m)
  BY <1>2, <1>3
<1>5. \A i \in S : m <= i
  BY <1>4
<1> QED
  BY <1>5

\* One change applied.
Patch(zone, change) == (zone \ change.removed) \cup change.added

\* The zones after each of the first n difference sequences.
Chain(z, zone, ds, n) ==
  z = [i \in 0 .. n |-> IF i = 0 THEN zone ELSE Patch(z[i - 1], ds[i].change)]

\* They exist: from a shortest list for which they did not, the last could be
\* taken away.
LEMMA ChainExists ==
  ASSUME NEW zone, NEW ds, NEW n \in Nat
  PROVE  \E z : Chain(z, zone, ds, n)
<1> DEFINE Missing == {m \in Nat : ~\E z : Chain(z, zone, ds, m)}
<1> SUFFICES ASSUME Missing # {} PROVE FALSE
  OBVIOUS
<1>1. PICK m \in Missing : \A k \in Missing : m <= k
  BY LeastNatural
<1>2. CASE m = 0
  <2> DEFINE z == [i \in 0 .. 0 |-> zone]
  <2>1. Chain(z, zone, ds, 0)
    BY DEF Chain
  <2> QED
    BY <1>1, <1>2, <2>1
<1>3. CASE m # 0
  <2>1. m \in Nat /\ m - 1 \in Nat /\ m - 1 \notin Missing
    BY <1>1, <1>3
  <2>2. PICK y : Chain(y, zone, ds, m - 1)
    BY <2>1
  <2> DEFINE z == [i \in 0 .. m |-> IF i = m THEN Patch(y[m - 1], ds[m].change) ELSE y[i]]
  <2>3. \A i \in 0 .. m - 1 : z[i] = y[i] /\ y[i] = IF i = 0 THEN zone ELSE Patch(y[i - 1], ds[i].change)
    BY <2>1, <2>2 DEF Chain
  <2>4. \A i \in 0 .. m : z[i] = IF i = 0 THEN zone ELSE Patch(z[i - 1], ds[i].change)
    <3> TAKE i \in 0 .. m
    <3>1. CASE i = m
      BY <1>3, <2>1, <3>1
    <3>2. CASE i # m
      <4>1. i \in 0 .. m - 1 /\ (i # 0 => i - 1 \in 0 .. m - 1)
        BY <2>1, <3>2
      <4> QED
        BY <2>3, <4>1
    <3> QED
      BY <3>1, <3>2
  <2>5. z = [i \in 0 .. m |-> z[i]]
    OBVIOUS
  <2> HIDE DEF z
  <2>6. Chain(z, zone, ds, m)
    BY <2>4, <2>5 DEF Chain
  <2> QED
    BY <1>1, <2>6
<1> QED
  BY <1>2, <1>3

\* Patched is the last of them.
LEMMA PatchedIsChain ==
  ASSUME NEW zone, NEW ds, Len(ds) \in Nat
  PROVE  \E z : Chain(z, zone, ds, Len(ds)) /\ Patched(zone, ds) = z[Len(ds)]
<1> DEFINE z == CHOOSE g : g = [i \in 0 .. Len(ds) |->
                  IF i = 0 THEN zone ELSE (g[i - 1] \ ds[i].change.removed) \cup ds[i].change.added]
<1>1. Patched(zone, ds) = z[Len(ds)]
  BY DEF Patched
<1>2. \E g : g = [i \in 0 .. Len(ds) |->
                  IF i = 0 THEN zone ELSE (g[i - 1] \ ds[i].change.removed) \cup ds[i].change.added]
  <2>1. PICK y : Chain(y, zone, ds, Len(ds))
    BY ChainExists
  <2>2. y = [i \in 0 .. Len(ds) |->
               IF i = 0 THEN zone ELSE (y[i - 1] \ ds[i].change.removed) \cup ds[i].change.added]
    BY <2>1, Zenon DEF Chain, Patch
  <2> QED
    BY <2>2, Zenon
<1>3. z = [i \in 0 .. Len(ds) |->
                  IF i = 0 THEN zone ELSE (z[i - 1] \ ds[i].change.removed) \cup ds[i].change.added]
  BY <1>2, Zenon
<1>4. Chain(z, zone, ds, Len(ds))
  BY <1>3, Zenon DEF Chain, Patch
<1> HIDE DEF z
<1> QED
  BY <1>1, <1>4

\* No difference sequence, no change.
LEMMA PatchedNothing ==
  ASSUME NEW zone, NEW ds, Len(ds) = 0
  PROVE  Patched(zone, ds) = zone
<1>1. PICK z : Chain(z, zone, ds, 0) /\ Patched(zone, ds) = z[0]
  BY PatchedIsChain
<1>2. z[0] = zone
  BY <1>1 DEF Chain
<1> QED
  BY <1>1, <1>2

\* One more difference sequence is one more change.
LEMMA PatchedStep ==
  ASSUME NEW zone, NEW ds, Len(ds) \in Nat, NEW es, Len(es) = Len(ds) + 1,
         \A i \in 1 .. Len(ds) : es[i] = ds[i]
  PROVE  Patched(zone, es) = Patch(Patched(zone, ds), es[Len(es)].change)
<1> DEFINE n == Len(ds)
<1>1. PICK y : Chain(y, zone, ds, n) /\ Patched(zone, ds) = y[n]
  BY PatchedIsChain
<1>2. PICK z : Chain(z, zone, es, n + 1) /\ Patched(zone, es) = z[n + 1]
  BY PatchedIsChain
<1>3. \A i \in 0 .. n : y[i] = IF i = 0 THEN zone ELSE Patch(y[i - 1], ds[i].change)
  BY <1>1 DEF Chain
<1>4. \A i \in 0 .. n + 1 : z[i] = IF i = 0 THEN zone ELSE Patch(z[i - 1], es[i].change)
  BY <1>2 DEF Chain
<1> DEFINE Apart == {i \in 0 .. n : y[i] # z[i]}
<1>5. Apart = {}
  <2> SUFFICES ASSUME Apart # {} PROVE FALSE
    OBVIOUS
  <2>1. PICK m \in Apart : \A i \in Apart : m <= i
    <3>1. Apart \subseteq Nat
      OBVIOUS
    <3> HIDE DEF Apart
    <3> QED
      BY <3>1, LeastNatural
  <2>2. m # 0
    BY <1>3, <1>4, <2>1
  <2>3. m \in 1 .. n /\ m - 1 \in 0 .. n /\ m - 1 \notin Apart
    BY <2>1, <2>2
  <2>4. y[m] = Patch(y[m - 1], ds[m].change) /\ z[m] = Patch(z[m - 1], es[m].change)
    BY <1>3, <1>4, <2>2, <2>3
  <2> QED
    BY <2>1, <2>3, <2>4
<1>6. z[n + 1] = Patch(y[n], es[n + 1].change)
  BY <1>4, <1>5
<1> QED
  BY <1>1, <1>2, <1>3, <1>6

=============================================================================
