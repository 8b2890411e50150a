------------------------- MODULE ReplicationProofs -------------------------
(***************************************************************************)
(* Secondaries are never behind the serial of their zone, for any number   *)
(* of them, any journal, any number of crashes and any mixture of full and *)
(* incremental transfers, until a restart takes a serial that is not past  *)
(* those handed out.                                                       *)
(*                                                                         *)
(* A zone is not simply a content of the table: a full transfer that lists *)
(* the table after later writes, continued by deltas, may hold several     *)
(* items.  What is invariant is that a zone whose serial stands for        *)
(* position v of the history holds only contents of the table from v on,   *)
(* and is empty only if the item was absent at some position from v on.    *)
(***************************************************************************)
EXTENDS Replication, MemChangeLogProofs

Contents == Items \cup {NoItem}

\* The zone holds contents of the table from position v of the history h on.
Inside(h, zone, v) ==
  /\ zone \subseteq Items
  /\ \A item \in zone : \E w \in v .. Len(h) : h[w] = item
  /\ zone = {} => \E w \in v .. Len(h) : h[w] = NoItem

\* The delta between position n - 1 and position n.
DeltaTo(h, s, n) ==
  [serial |-> s, change |-> [removed |-> TxtOf(h[n - 1]), added |-> TxtOf(h[n])]]

HistoryInv ==
  /\ history \in Seq(Contents) /\ Len(history) >= 1 /\ table = history[Len(history)]
  /\ serial \in DOMAIN stands /\ DOMAIN stands \subseteq Serials
  /\ \A s \in DOMAIN stands : s <= serial /\ stands[s] \in 1 .. Len(history)
  /\ acked \in 1 .. stands[serial]
  /\ notices \subseteq Secondaries

\* The journal has the deltas of one run of the server: consecutive serials stand
\* for consecutive positions.
JournalInv ==
  /\ DOMAIN log.deltas \subseteq Serials /\ log \in Journal(DOMAIN log.deltas)
  /\ log.latest \in DOMAIN stands
  /\ \A s \in DOMAIN log.deltas :
       /\ {s - 1, s} \subseteq DOMAIN stands /\ s <= log.latest
       /\ stands[s] = stands[log.latest] - (log.latest - s)
       /\ stands[s - 1] = stands[s] - 1
       /\ log.deltas[s] = DeltaTo(history, s, stands[s])

\* Where the UPDATE goroutine is.
WriterInv ==
  /\ writer.pc \in {"idle", "draw", "record"} /\ writer \in [pc : {writer.pc}, old : {writer.old}]
  /\ writer.pc # "idle" => up /\ Len(history) >= 2 /\ writer.old = history[Len(history) - 1]
  /\ up /\ writer.pc = "idle" => stands[serial] = Len(history) /\ log.latest = serial
  /\ writer.pc = "draw" => stands[serial] = Len(history) - 1 /\ log.latest = serial
  /\ writer.pc = "record" =>
       /\ stands[serial] = Len(history) /\ log.latest = serial - 1
       /\ serial - 1 \in DOMAIN stands /\ stands[serial - 1] = Len(history) - 1

\* The deltas ds of a stream continue serial s, where h and st are the history and
\* what the serials stand for.
Continues(h, st, s, ds) ==
  /\ Len(ds) \in Nat
  /\ \A i \in 1 .. Len(ds) :
       /\ s + i \in DOMAIN st /\ st[s + i] = st[s] + i
       /\ ds[i] = DeltaTo(h, s + i, st[s] + i)

SecondaryFields(q) ==
  [serial : {q.serial}, zone : {q.zone}, pc : {q.pc}, owed : {q.owed},
   deltas : {q.deltas}, opening : {q.opening}, listed : {q.listed}]

\* What is known of a secondary q, where the history up to a is acknowledged.
Sound(q, h, st, a) ==
  /\ q \in SecondaryFields(q)
  /\ q.pc \in {"idle", "load", "lone", "uptodate", "deltas", "open", "list", "close"}
  /\ q.serial \in DOMAIN st /\ Inside(h, q.zone, st[q.serial])
  /\ q.owed \in 1 .. a
  /\ q.pc = "uptodate" => q.owed <= st[q.serial]
  /\ q.deltas = NoDeltas \/ Continues(h, st, q.serial, q.deltas)
  /\ q.pc \in {"list", "close"} => q.opening \in DOMAIN st
  /\ q.pc = "close" /\ q.deltas = NoDeltas => Inside(h, TxtOf(q.listed), st[q.opening])

ReplicationInv ==
  /\ HistoryInv /\ JournalInv /\ WriterInv
  /\ sec = [x \in Secondaries |-> sec[x]]
  /\ \A x \in Secondaries : Sound(sec[x], history, stands, acked)

\* It holds until a restart takes a serial that is not past those handed out.
AheadInv == ahead \in BOOLEAN /\ (ahead => ReplicationInv)

-----------------------------------------------------------------------------

(***************************************************************************)
(* Difference sequences.                                                   *)
(***************************************************************************)

\* One difference sequence takes a zone from one position of the history to the
\* next: what it keeps was in the table at a later position.
LEMMA PatchInside ==
  ASSUME NEW zone, NEW h \in Seq(Contents), NEW v \in 1 .. Len(h), NEW d, NoItem \notin Items,
         Inside(h, zone, v), v + 1 \in 1 .. Len(h),
         d.change.removed = TxtOf(h[v]), d.change.added = TxtOf(h[v + 1])
  PROVE  Inside(h, Patch(zone, d.change), v + 1)
<1> DEFINE z == Patch(zone, d.change)
<1>1. Len(h) \in Nat /\ h[v] \in Contents /\ h[v + 1] \in Contents
  BY DEF Contents
<1>2. z = (zone \ TxtOf(h[v])) \cup TxtOf(h[v + 1])
  BY DEF Patch
<1> HIDE DEF z
<1>3. z \subseteq Items
  BY <1>1, <1>2 DEF Contents, Inside, TxtOf
<1>4. ASSUME NEW item \in z PROVE \E w \in v + 1 .. Len(h) : h[w] = item
  <2>1. CASE item \in TxtOf(h[v + 1])
    BY <1>1, <2>1 DEF TxtOf
  <2>2. CASE item \notin TxtOf(h[v + 1])
    <3>1. item \in zone /\ item \notin TxtOf(h[v]) /\ item \in Items
      BY <1>2, <1>3, <2>2
    <3>2. PICK w \in v .. Len(h) : h[w] = item
      BY <3>1 DEF Inside
    <3>3. w # v
      BY <3>1, <3>2 DEF TxtOf
    <3> QED
      BY <1>1, <3>2, <3>3
  <2> QED
    BY <2>1, <2>2
<1>5. z = {} => \E w \in v + 1 .. Len(h) : h[w] = NoItem
  <2>1. z = {} => h[v + 1] = NoItem
    BY <1>2 DEF TxtOf
  <2> QED
    BY <1>1, <2>1
<1> QED
  BY <1>3, <1>4, <1>5 DEF Inside, z

\* A list of them takes it as many positions on: otherwise take the first zone of
\* the chain that is not where it should be.
LEMMA PatchedInside ==
  ASSUME NEW zone, NEW h \in Seq(Contents), NEW v \in 1 .. Len(h), NEW ds,
         Len(ds) \in Nat, NoItem \notin Items, Inside(h, zone, v),
         \A i \in 1 .. Len(ds) :
           /\ v + i \in 1 .. Len(h)
           /\ ds[i].change.removed = TxtOf(h[v + (i - 1)])
           /\ ds[i].change.added = TxtOf(h[v + i])
  PROVE  Inside(h, Patched(zone, ds), v + Len(ds))
<1>1. PICK z : Chain(z, zone, ds, Len(ds)) /\ Patched(zone, ds) = z[Len(ds)]
  BY PatchedIsChain
<1>2. \A i \in 0 .. Len(ds) : z[i] = IF i = 0 THEN zone ELSE Patch(z[i - 1], ds[i].change)
  BY <1>1 DEF Chain
<1> DEFINE Astray == {i \in 0 .. Len(ds) : ~Inside(h, z[i], v + i)}
<1> SUFFICES ASSUME Astray # {} PROVE FALSE
  BY <1>1
<1>3. PICK m \in Astray : \A i \in Astray : m <= i
  <2>1. Astray \subseteq Nat
    OBVIOUS
  <2> HIDE DEF Astray
  <2> QED
    BY <2>1, LeastNatural
<1>4. m # 0
  BY <1>2, <1>3
<1>5. m \in 1 .. Len(ds) /\ m - 1 \in 0 .. Len(ds) /\ m - 1 \notin Astray
  BY <1>3, <1>4
<1>6. Inside(h, z[m - 1], v + (m - 1))
  BY <1>5
<1>7. Len(h) \in Nat
  BY DEF Contents
<1>8. v + (m - 1) \in 1 .. Len(h) /\ v + (m - 1) + 1 = v + m
  BY <1>5, <1>7
<1>9. Inside(h, Patch(z[m - 1], ds[m].change), v + (m - 1) + 1)
  BY <1>5, <1>6, <1>8, PatchInside
<1> QED
  BY <1>2, <1>3, <1>5, <1>8, <1>9

-----------------------------------------------------------------------------

(***************************************************************************)
(* The history grows at its end, and new serials stand for new positions.  *)
(***************************************************************************)
Longer(h, g) == g \in Seq(Contents) /\ Len(g) >= Len(h) /\ \A w \in 1 .. Len(h) : g[w] = h[w]

More(st, tt) == DOMAIN st \subseteq DOMAIN tt /\ \A s \in DOMAIN st : tt[s] = st[s]

\* A zone stays where it is.
LEMMA InsideKept ==
  ASSUME NEW h \in Seq(Contents), NEW g, Longer(h, g), NEW zone, NEW v \in 1 .. Len(h),
         Inside(h, zone, v)
  PROVE  Inside(g, zone, v)
<1>1. Len(h) \in Nat /\ Len(g) \in Nat
  BY DEF Longer
<1>2. \A w \in v .. Len(h) : w \in v .. Len(g) /\ g[w] = h[w]
  BY <1>1 DEF Longer
<1> QED
  BY <1>2 DEF Inside

\* The deltas of a stream continue its serial as before.
LEMMA ContinuesKept ==
  ASSUME NEW h \in Seq(Contents), NEW g, Longer(h, g), NEW st, NEW tt, More(st, tt),
         \A s \in DOMAIN st : st[s] \in 1 .. Len(h),
         NEW t \in DOMAIN st, NEW ds, Continues(h, st, t, ds)
  PROVE  Continues(g, tt, t, ds)
<1> SUFFICES ASSUME NEW i \in 1 .. Len(ds)
             PROVE  /\ t + i \in DOMAIN tt /\ tt[t + i] = tt[t] + i
                    /\ ds[i] = DeltaTo(g, t + i, tt[t] + i)
  BY DEF Continues
<1>1. /\ t + i \in DOMAIN st /\ st[t + i] = st[t] + i
      /\ ds[i] = DeltaTo(h, t + i, st[t] + i)
  BY DEF Continues
<1>2. t + i \in DOMAIN tt /\ tt[t + i] = tt[t] + i /\ tt[t] = st[t]
  BY <1>1 DEF More
<1>3. st[t] \in 1 .. Len(h) /\ st[t] + i \in 1 .. Len(h) /\ Len(h) \in Nat
  BY <1>1
<1>4. i \in Nat /\ i >= 1
  BY DEF Continues
<1>5. st[t] + i - 1 \in 1 .. Len(h)
  BY <1>3, <1>4
<1>6. g[st[t] + i] = h[st[t] + i] /\ g[st[t] + i - 1] = h[st[t] + i - 1]
  BY <1>3, <1>5 DEF Longer
<1> QED
  BY <1>1, <1>2, <1>6 DEF DeltaTo

\* A secondary stays sound.
LEMMA SoundKept ==
  ASSUME NEW h \in Seq(Contents), NEW g, Longer(h, g), NEW st, NEW tt, More(st, tt),
         \A s \in DOMAIN st : st[s] \in 1 .. Len(h),
         NEW a \in Nat, NEW b \in Nat, a <= b, NEW q, Sound(q, h, st, a)
  PROVE  Sound(q, g, tt, b)
<1>1. q.serial \in DOMAIN tt /\ Inside(g, q.zone, tt[q.serial]) /\ tt[q.serial] = st[q.serial]
  BY InsideKept DEF Sound, More
<1>2. q.deltas = NoDeltas \/ Continues(g, tt, q.serial, q.deltas)
  BY ContinuesKept DEF Sound
<1>3. q.opening \in DOMAIN st /\ Inside(h, TxtOf(q.listed), st[q.opening])
      => q.opening \in DOMAIN tt /\ Inside(g, TxtOf(q.listed), tt[q.opening])
  BY InsideKept DEF More
<1>4. q.owed \in 1 .. b
  BY DEF Sound
<1>5. q.opening \in DOMAIN st => q.opening \in DOMAIN tt
  BY DEF More
<1> QED
  BY <1>1, <1>2, <1>3, <1>4, <1>5 DEF Sound

\* A step of the server that leaves the secondaries alone.
LEMMA ServerStep ==
  ASSUME ReplicationInv, HistoryInv', JournalInv', WriterInv', sec' = sec,
         Longer(history, history'), More(stands, stands'), acked <= acked'
  PROVE  ReplicationInv'
<1>1. acked \in Nat /\ acked' \in Nat
  <2>1. acked \in 1 .. stands[serial] /\ stands[serial] \in 1 .. Len(history) /\ history \in Seq(Contents)
    BY DEF ReplicationInv, HistoryInv
  <2>2. acked' \in 1 .. stands'[serial'] /\ stands'[serial'] \in 1 .. Len(history')
        /\ history' \in Seq(Contents)
    BY DEF HistoryInv
  <2> QED
    BY <2>1, <2>2
<1>2. history \in Seq(Contents) /\ \A s \in DOMAIN stands : stands[s] \in 1 .. Len(history)
  BY DEF ReplicationInv, HistoryInv
<1>3. \A x \in Secondaries : Sound(sec[x], history', stands', acked')
  BY <1>1, <1>2, SoundKept DEF ReplicationInv
<1> QED
  BY <1>3 DEF ReplicationInv

\* A step of one secondary that leaves the server alone.
LEMMA SecondaryStep ==
  ASSUME ReplicationInv, NEW x \in Secondaries, NEW q, Sound(q, history, stands, acked),
         sec' = [sec EXCEPT ![x] = q], UNCHANGED serverVars, notices' \subseteq Secondaries
  PROVE  ReplicationInv'
<1>1. /\ history' = history /\ stands' = stands /\ acked' = acked /\ serial' = serial
      /\ table' = table /\ log' = log /\ writer' = writer /\ up' = up
  BY DEF serverVars
<1>2. HistoryInv'
  BY <1>1 DEF ReplicationInv, HistoryInv
<1>3. JournalInv'
  BY <1>1, Zenon DEF ReplicationInv, JournalInv
<1>4. WriterInv'
  BY <1>1 DEF ReplicationInv, WriterInv
<1>5. sec' = [y \in Secondaries |-> sec'[y]]
  BY DEF ReplicationInv
<1>6. \A y \in Secondaries : sec'[y] = IF y = x THEN q ELSE sec[y]
  BY DEF ReplicationInv
<1>7. \A y \in Secondaries : Sound(sec'[y], history, stands, acked)
  BY <1>6 DEF ReplicationInv
<1> QED
  BY <1>1, <1>2, <1>3, <1>4, <1>5, <1>7 DEF ReplicationInv

\* A secondary whose transfer is cut short keeps what it had.
LEMMA InterruptedIsSound ==
  ASSUME ReplicationInv, NEW x \in Secondaries
  PROVE  Sound(Interrupted(x), history, stands, acked)
<1>1. Sound(sec[x], history, stands, acked)
  BY DEF ReplicationInv
<1>2. 1 \in 1 .. acked
  BY DEF ReplicationInv, HistoryInv
<1> QED
  BY <1>1, <1>2 DEF Sound, SecondaryFields, Interrupted, AtRest

-----------------------------------------------------------------------------

(***************************************************************************)
(* The write path.                                                         *)
(***************************************************************************)

\* The zone serial and the numbers of HistoryInv, typed.
LEMMA Numbers ==
  ASSUME HistoryInv
  PROVE  /\ history \in Seq(Contents) /\ Len(history) \in Nat /\ Len(history) >= 1
         /\ serial \in Serials /\ serial \in Nat /\ Serials \subseteq Nat
         /\ stands[serial] \in Nat /\ acked \in Nat /\ acked >= 1
         /\ acked <= stands[serial] /\ stands[serial] <= Len(history)
         /\ table \in Contents
<1>1. Serials \subseteq Nat
  BY SerialModAssumption DEF Serials
<1>2. stands[serial] \in 1 .. Len(history) /\ Len(history) \in Nat
  BY DEF HistoryInv
<1>3. Len(history) \in 1 .. Len(history) /\ table = history[Len(history)] /\ history \in Seq(Contents)
  BY <1>2 DEF HistoryInv
<1>4. table \in Contents
  BY <1>3
<1>5. serial \in Serials /\ acked \in 1 .. stands[serial]
  BY DEF HistoryInv
<1> QED
  BY <1>1, <1>2, <1>3, <1>4, <1>5

\* The journal is as before when it does not change, serials keep what they stand
\* for and the history only grows.
LEMMA JournalKept ==
  ASSUME HistoryInv, JournalInv, UNCHANGED log,
         Longer(history, history'), More(stands, stands')
  PROVE  JournalInv'
<1>1. /\ DOMAIN log'.deltas \subseteq Serials /\ log' \in Journal(DOMAIN log'.deltas)
      /\ log'.latest \in DOMAIN stands'
  BY DEF JournalInv, More
<1> SUFFICES ASSUME NEW s \in DOMAIN log.deltas
             PROVE  /\ {s - 1, s} \subseteq DOMAIN stands' /\ s <= log.latest
                    /\ stands'[s] = stands'[log.latest] - (log.latest - s)
                    /\ stands'[s - 1] = stands'[s] - 1
                    /\ log.deltas[s] = DeltaTo(history', s, stands'[s])
  BY <1>1 DEF JournalInv
<1>2. /\ {s - 1, s} \subseteq DOMAIN stands /\ s <= log.latest
      /\ stands[s] = stands[log.latest] - (log.latest - s)
      /\ stands[s - 1] = stands[s] - 1
      /\ log.deltas[s] = DeltaTo(history, s, stands[s])
      /\ log.latest \in DOMAIN stands
  BY DEF JournalInv
<1>3. /\ stands'[s] = stands[s] /\ stands'[s - 1] = stands[s - 1]
      /\ stands'[log.latest] = stands[log.latest]
      /\ {s - 1, s} \subseteq DOMAIN stands'
  BY <1>2 DEF More
<1>4. stands[s] \in 1 .. Len(history) /\ stands[s] - 1 \in 1 .. Len(history)
  BY <1>2 DEF HistoryInv
<1>5. history'[stands[s]] = history[stands[s]] /\ history'[stands[s] - 1] = history[stands[s] - 1]
  BY <1>4 DEF Longer
<1> QED
  BY <1>2, <1>3, <1>5 DEF DeltaTo

LEMMA WriteInv ==
  ASSUME ReplicationInv, NEW item \in Contents, Write(item)
  PROVE  ReplicationInv'
<1> USE DEF ReplicationInv, Write
<1>1. /\ history \in Seq(Contents) /\ Len(history) \in Nat /\ Len(history) >= 1
      /\ stands[serial] = Len(history) /\ log.latest = serial /\ table = history[Len(history)]
  BY Numbers DEF WriterInv, HistoryInv
<1>2. /\ history' \in Seq(Contents) /\ Len(history') = Len(history) + 1
      /\ history'[Len(history) + 1] = item /\ \A w \in 1 .. Len(history) : history'[w] = history[w]
  BY <1>1
<1>3. Longer(history, history') /\ More(stands, stands')
  BY <1>1, <1>2 DEF Longer, More
<1>4. HistoryInv'
  <2>1. \A s \in DOMAIN stands : s <= serial /\ stands[s] \in 1 .. Len(history')
    BY <1>1, <1>2 DEF HistoryInv
  <2> QED
    BY <1>1, <1>2, <2>1 DEF HistoryInv
<1>5. JournalInv'
  BY <1>3, JournalKept
<1>6. WriterInv'
  BY <1>1, <1>2 DEF WriterInv
<1> QED
  BY <1>3, <1>4, <1>5, <1>6, ServerStep, Numbers

LEMMA DrawSerialInv ==
  ASSUME ReplicationInv, DrawSerial
  PROVE  ReplicationInv'
<1> USE DEF ReplicationInv, DrawSerial
<1>1. serial' = serial + 1 /\ serial' \in Serials /\ serial \in Nat /\ Serials \subseteq Nat
  BY Numbers, SerialModAssumption DEF Inc, Serials
<1>2. /\ Len(history) \in Nat /\ Len(history) >= 2 /\ writer.old = history[Len(history) - 1]
      /\ stands[serial] = Len(history) - 1 /\ log.latest = serial /\ up
      /\ acked \in 1 .. stands[serial]
  BY Numbers DEF WriterInv, HistoryInv
<1>3. serial' \notin DOMAIN stands
  BY <1>1 DEF HistoryInv
<1>4. /\ DOMAIN stands' = DOMAIN stands \cup {serial'} /\ stands'[serial'] = Len(history)
      /\ \A s \in DOMAIN stands : stands'[s] = stands[s]
  BY <1>3
<1>5. Longer(history, history') /\ More(stands, stands') /\ acked <= acked'
  BY <1>4, Numbers DEF Longer, More
<1>6. HistoryInv'
  <2>1. \A s \in DOMAIN stands' : s <= serial' /\ stands'[s] \in 1 .. Len(history)
    BY <1>1, <1>2, <1>4 DEF HistoryInv
  <2>2. acked \in 1 .. stands'[serial']
    BY <1>2, <1>4
  <2> QED
    BY <1>1, <1>4, <2>1, <2>2 DEF HistoryInv
<1>7. JournalInv'
  BY <1>5, JournalKept
<1>8. WriterInv'
  <2>1. writer' \in [pc : {"record"}, old : {writer.old}]
    BY DEF WriterInv
  <2>2. serial \in DOMAIN stands
    BY DEF HistoryInv
  <2> QED
    BY <1>1, <1>2, <1>4, <2>1, <2>2 DEF WriterInv
<1> QED
  BY <1>5, <1>6, <1>7, <1>8, ServerStep

LEMMA RecordDeltaInv ==
  ASSUME ReplicationInv, RecordDelta
  PROVE  ReplicationInv'
<1> USE DEF ReplicationInv, RecordDelta
<1> DEFINE change == [removed |-> TxtOf(writer.old), added |-> TxtOf(table)]
           n == Len(history)
<1>1. /\ n \in Nat /\ n >= 2 /\ writer.old = history[n - 1] /\ table = history[n]
      /\ stands[serial] = n /\ log.latest = serial - 1 /\ up
      /\ serial - 1 \in DOMAIN stands /\ serial \in DOMAIN stands /\ stands[serial - 1] = n - 1
      /\ history \in Seq(Contents) /\ serial \in Nat /\ serial \in Serials
  BY Numbers DEF WriterInv, HistoryInv
<1>2. change \in Changes
  <2>1. writer.old \in Contents /\ table \in Contents
    BY <1>1
  <2>2. change \in Changed
    BY <2>1 DEF Changed, Contents
  <2> QED
    BY <2>2, ChangesAssumption
<1>3. [serial |-> serial, change |-> change] = DeltaTo(history, serial, stands[serial])
  BY <1>1 DEF DeltaTo
<1> HIDE DEF change
<1>4. Record(serial, change)
  BY DEF change
<1>5. /\ DOMAIN log'.deltas \subseteq DOMAIN log.deltas \cup {serial}
      /\ DOMAIN log'.deltas \subseteq Serials
      /\ log' \in Journal(DOMAIN log'.deltas)
      /\ \A t \in DOMAIN log'.deltas :
           log'.deltas[t] = IF t = serial THEN [serial |-> serial, change |-> change]
                            ELSE log.deltas[t]
      /\ log'.latest = IF serial > log.latest THEN serial ELSE log.latest
  BY <1>1, <1>2, <1>4, RecordEffect DEF JournalInv
<1>6. log'.latest = serial
  BY <1>1, <1>5
<1>7. JournalInv'
  <2> SUFFICES ASSUME NEW t \in DOMAIN log'.deltas
               PROVE  /\ {t - 1, t} \subseteq DOMAIN stands /\ t <= serial
                      /\ stands[t] = stands[serial] - (serial - t)
                      /\ stands[t - 1] = stands[t] - 1
                      /\ log'.deltas[t] = DeltaTo(history, t, stands[t])
    BY <1>1, <1>5, <1>6 DEF JournalInv
  <2>1. CASE t = serial
    BY <1>1, <1>3, <1>5, <2>1
  <2>2. CASE t # serial
    <3>1. /\ {t - 1, t} \subseteq DOMAIN stands /\ t <= log.latest
          /\ stands[t] = stands[log.latest] - (log.latest - t)
          /\ stands[t - 1] = stands[t] - 1
          /\ log'.deltas[t] = DeltaTo(history, t, stands[t])
      BY <1>5, <2>2 DEF JournalInv
    <3>2. t \in Nat /\ stands[log.latest] = n - 1
      BY <1>1, <1>5, Numbers
    <3> QED
      BY <1>1, <3>1, <3>2
  <2> QED
    BY <2>1, <2>2
<1>8. HistoryInv'
  BY <1>1 DEF HistoryInv
<1>9. WriterInv'
  BY <1>1, <1>6 DEF WriterInv, IdleWriter
<1>10. Longer(history, history') /\ More(stands, stands') /\ acked <= acked'
  BY <1>1, Numbers DEF Longer, More
<1> QED
  BY <1>7, <1>8, <1>9, <1>10, ServerStep

-----------------------------------------------------------------------------

(***************************************************************************)
(* Crash and restart.                                                      *)
(***************************************************************************)
LEMMA CrashInv ==
  ASSUME ReplicationInv, Crash
  PROVE  ReplicationInv'
<1>1. HistoryInv'
  BY DEF ReplicationInv, HistoryInv, Crash
<1>2. JournalInv'
  BY Zenon DEF ReplicationInv, JournalInv, Crash
<1>3. WriterInv'
  BY DEF Crash, WriterInv, IdleWriter
<1>4. \A x \in Secondaries : Sound(Interrupted(x), history, stands, acked)
  BY InterruptedIsSound
<1>5. /\ sec' = [x \in Secondaries |-> Interrupted(x)]
      /\ history' = history /\ stands' = stands /\ acked' = acked
  BY DEF Crash
<1>6. sec' = [x \in Secondaries |-> sec'[x]]
      /\ \A x \in Secondaries : Sound(sec'[x], history', stands', acked')
  BY <1>4, <1>5
<1> QED
  BY <1>1, <1>2, <1>3, <1>6 DEF ReplicationInv

\* The journal is empty, and the serial of the new run, past all others, stands for
\* the table it found.
LEMMA RestartInv ==
  ASSUME ReplicationInv, Restart, \A s \in DOMAIN stands : s < serial'
  PROVE  ReplicationInv'
<1> DEFINE n == Len(history')
<1>1. /\ history \in Seq(Contents) /\ Len(history) \in Nat /\ Len(history) >= 1
      /\ serial \in Nat /\ Serials \subseteq Nat /\ acked \in Nat /\ acked <= Len(history)
      /\ table = history[Len(history)]
  BY Numbers DEF ReplicationInv, HistoryInv
<1>2. /\ history' \in Seq(Contents) /\ n \in Nat /\ n >= Len(history) /\ table' = history'[n]
      /\ \A w \in 1 .. Len(history) : history'[w] = history[w]
  <2>1. CASE durable
    BY <1>1, <2>1 DEF Restart
  <2>2. CASE ~durable
    <3>1. history' = Append(history, FirstItem) /\ table' = FirstItem /\ FirstItem \in Contents
      BY <2>2, ReplicationAssumption DEF Restart, Contents
    <3> QED
      BY <1>1, <3>1
  <2> QED
    BY <2>1, <2>2
<1>3. serial' \in Serials /\ serial' \in Nat /\ serial' > serial
  BY <1>1 DEF Restart, ClockSerials, ReplicationInv, HistoryInv
<1>4. serial' \notin DOMAIN stands
  BY <1>1, <1>3 DEF ReplicationInv, HistoryInv
<1>5. /\ DOMAIN stands' = DOMAIN stands \cup {serial'} /\ stands'[serial'] = n
      /\ \A s \in DOMAIN stands : stands'[s] = stands[s]
      /\ acked' = n
  BY <1>4 DEF Restart
<1> HIDE DEF n
<1>6. Longer(history, history') /\ More(stands, stands') /\ acked <= acked'
  BY <1>1, <1>2, <1>5 DEF Longer, More, n
<1>7. HistoryInv'
  <2>1. \A s \in DOMAIN stands : s <= serial' /\ stands[s] \in 1 .. n
    BY <1>1, <1>2, <1>3 DEF ReplicationInv, HistoryInv
  <2>2. \A s \in DOMAIN stands' : s <= serial' /\ stands'[s] \in 1 .. n
    BY <1>1, <1>2, <1>3, <1>5, <2>1
  <2>3. acked' \in 1 .. stands'[serial'] /\ n >= 1
    BY <1>1, <1>2, <1>5
  <2>4. DOMAIN stands' \subseteq Serials /\ notices' \subseteq Secondaries
    BY <1>3, <1>5 DEF ReplicationInv, HistoryInv, Restart
  <2> QED
    BY <1>2, <1>5, <2>2, <2>3, <2>4 DEF HistoryInv, n
<1>8. log'.latest = serial' /\ JournalInv'
  <2>1. log' = [oldest |-> Inc(serial'), latest |-> serial', started |-> FALSE, deltas |-> EmptyMap]
    BY DEF Restart, NewJournal, NewMemChangeLog
  <2>2. DOMAIN EmptyMap = {} /\ EmptyMap \in [{} -> Delta]
    BY DEF EmptyMap
  <2>3. Inc(serial') \in Serials
    <3>1. \A s \in Serials : Inc(s) \in Serials
      BY SerialModAssumption DEF Inc, Serials
    <3> QED
      BY <1>3, <3>1
  <2>4. log' \in Journal(DOMAIN log'.deltas) /\ DOMAIN log'.deltas = {} /\ log'.latest = serial'
    BY <1>3, <2>1, <2>2, <2>3 DEF Journal
  <2> QED
    BY <1>5, <2>4 DEF JournalInv
<1>9. WriterInv'
  <2>1. writer' = writer /\ writer.pc = "idle" /\ writer \in [pc : {writer.pc}, old : {writer.old}]
    BY DEF Restart, ReplicationInv, WriterInv
  <2> QED
    BY <1>5, <1>8, <2>1 DEF WriterInv, n
<1> QED
  BY <1>6, <1>7, <1>8, <1>9, ServerStep DEF Restart

-----------------------------------------------------------------------------

(***************************************************************************)
(* The secondaries and their streams.                                      *)
(***************************************************************************)
LEMMA RefreshInv ==
  ASSUME ReplicationInv, NEW x \in Secondaries, Refresh(x) \/ HearNotify(x)
  PROVE  ReplicationInv'
<1>1. PICK type \in {"AXFR", "IXFR"} : AsksBy(x, type)
  BY DEF Refresh, HearNotify
<1> DEFINE q == [sec[x] EXCEPT !.pc = IF type = "AXFR" THEN "open" ELSE "load",
                               !.deltas = NoDeltas, !.owed = acked]
<1>2. sec' = [sec EXCEPT ![x] = q]
  BY <1>1 DEF AsksBy
<1>3. Sound(sec[x], history, stands, acked) /\ acked \in 1 .. acked
  BY Numbers DEF ReplicationInv
<1>4. Sound(q, history, stands, acked)
  BY <1>3 DEF Sound, SecondaryFields
<1>5. UNCHANGED serverVars /\ notices' \subseteq Secondaries
  BY DEF Refresh, HearNotify, ReplicationInv, HistoryInv
<1> HIDE DEF q
<1> QED
  BY <1>2, <1>4, <1>5, SecondaryStep

LEMMA LoseNotifyInv ==
  ASSUME ReplicationInv, NEW x \in Secondaries, LoseNotify(x)
  PROVE  ReplicationInv'
<1>1. Sound(sec[x], history, stands, acked) /\ sec' = [sec EXCEPT ![x] = sec[x]]
  BY DEF ReplicationInv, LoseNotify
<1>2. UNCHANGED serverVars /\ notices' \subseteq Secondaries
  BY DEF LoseNotify, ReplicationInv, HistoryInv
<1> QED
  BY <1>1, <1>2, SecondaryStep

LEMMA LoadSerialInv ==
  ASSUME ReplicationInv, NEW x \in Secondaries, LoadSerial(x)
  PROVE  ReplicationInv'
<1> DEFINE q == [sec[x] EXCEPT !.pc = IF sec[x].serial >= serial THEN "lone" ELSE "deltas"]
<1>1. sec' = [sec EXCEPT ![x] = q] /\ UNCHANGED serverVars /\ notices' \subseteq Secondaries
  BY DEF LoadSerial, ReplicationInv, HistoryInv
<1>2. Sound(q, history, stands, acked)
  BY DEF ReplicationInv, Sound, SecondaryFields
<1> HIDE DEF q
<1> QED
  BY <1>1, <1>2, SecondaryStep

\* No serial is above the zone serial, so a secondary that is told that it is up
\* to date has exactly that one, and what it stands for was acknowledged.
LEMMA SendLoneSOAInv ==
  ASSUME ReplicationInv, NEW x \in Secondaries, SendLoneSOA(x)
  PROVE  ReplicationInv'
<1> DEFINE q == IF sec[x].serial >= serial
                THEN [sec[x] EXCEPT !.pc = "uptodate"] ELSE Interrupted(x)
<1>1. sec' = [sec EXCEPT ![x] = q] /\ UNCHANGED serverVars /\ notices' \subseteq Secondaries
  BY DEF SendLoneSOA, ReplicationInv, HistoryInv
<1>2. Sound(q, history, stands, acked)
  <2>1. Sound(sec[x], history, stands, acked)
    BY DEF ReplicationInv
  <2>2. CASE sec[x].serial >= serial
    <3>1. sec[x].serial \in DOMAIN stands /\ sec[x].serial <= serial /\ sec[x].serial \in Nat
      BY <2>1, Numbers DEF Sound, ReplicationInv, HistoryInv
    <3>2. sec[x].serial = serial
      BY <2>2, <3>1, Numbers DEF ReplicationInv
    <3>3. sec[x].owed <= stands[sec[x].serial]
      BY <2>1, <3>2, Numbers DEF Sound, ReplicationInv
    <3> QED
      BY <2>1, <2>2, <3>3 DEF Sound, SecondaryFields
  <2>3. CASE ~(sec[x].serial >= serial)
    BY <2>3, InterruptedIsSound
  <2> QED
    BY <2>2, <2>3
<1> HIDE DEF q
<1> QED
  BY <1>1, <1>2, SecondaryStep

\* What Deltas answers continues the serial it was asked about.
LEMMA ReadDeltasInv ==
  ASSUME ReplicationInv, NEW x \in Secondaries, ReadDeltas(x)
  PROVE  ReplicationInv'
<1> DEFINE s == sec[x].serial
           ds == Deltas(s)
           q == [sec[x] EXCEPT !.pc = "open", !.deltas = ds]
<1>1. sec' = [sec EXCEPT ![x] = q] /\ UNCHANGED serverVars /\ notices' \subseteq Secondaries
  BY DEF ReadDeltas, ReplicationInv, HistoryInv
<1>2. Sound(sec[x], history, stands, acked)
  BY DEF ReplicationInv
<1>3. s \in DOMAIN stands /\ s \in Serials /\ s \in Nat
  BY <1>2, Numbers DEF Sound, ReplicationInv, HistoryInv
<1> HIDE DEF s, ds
<1>4. ASSUME ds # NoDeltas PROVE Continues(history, stands, s, ds)
  <2> DEFINE n == log.latest - s
  <2>1. /\ s <= log.latest /\ DOMAIN ds = 1 .. n
        /\ \A i \in DOMAIN ds : s + i \in DOMAIN log.deltas /\ ds[i] = log.deltas[s + i]
    BY <1>3, <1>4, AnswerShape DEF ReplicationInv, JournalInv, ds
  <2>2. log.latest \in Nat /\ n \in Nat
    BY <1>3, <2>1, Numbers DEF ReplicationInv, JournalInv, HistoryInv
  <2>3. ds = [i \in 1 .. n |-> log.deltas[s + i]]
    BY <1>4, <2>1 DEF Deltas, ds
  <2>4. Len(ds) = n
    BY <2>2, <2>3
  <2>5. ASSUME NEW i \in 1 .. n
        PROVE  /\ s + i \in DOMAIN stands /\ stands[s + i] = stands[s] + i
               /\ ds[i] = DeltaTo(history, s + i, stands[s] + i)
    <3>1. i \in Nat /\ i >= 1 /\ 1 \in 1 .. n /\ (s + 1) - 1 = s
      BY <1>3, <2>2
    <3>2. s + 1 \in DOMAIN log.deltas /\ s + i \in DOMAIN log.deltas /\ ds[i] = log.deltas[s + i]
      BY <2>1, <3>1
    <3>3. /\ s + i \in DOMAIN stands /\ ds[i] = DeltaTo(history, s + i, stands[s + i])
          /\ stands[s + i] = stands[log.latest] - (log.latest - (s + i))
          /\ stands[s + 1] = stands[log.latest] - (log.latest - (s + 1))
          /\ stands[s] = stands[s + 1] - 1
      <4>1. \A t \in DOMAIN log.deltas :
              /\ t \in DOMAIN stands /\ log.deltas[t] = DeltaTo(history, t, stands[t])
              /\ stands[t] = stands[log.latest] - (log.latest - t)
              /\ stands[t - 1] = stands[t] - 1
        BY DEF ReplicationInv, JournalInv
      <4>2. stands[(s + 1) - 1] = stands[s + 1] - 1
        BY <3>2, <4>1
      <4> QED
        BY <3>1, <3>2, <4>1, <4>2
    <3>4. stands[log.latest] \in Nat
      BY DEF ReplicationInv, JournalInv, HistoryInv
    <3>5. stands[s + i] = stands[s] + i
      BY <1>3, <2>2, <3>1, <3>3, <3>4
    <3> QED
      BY <3>3, <3>5
  <2> QED
    BY <2>2, <2>4, <2>5 DEF Continues
<1>5. Sound(q, history, stands, acked)
  BY <1>2, <1>4 DEF Sound, SecondaryFields, s
<1> HIDE DEF q
<1> QED
  BY <1>1, <1>5, SecondaryStep

LEMMA SendOpeningSOAInv ==
  ASSUME ReplicationInv, NEW x \in Secondaries, SendOpeningSOA(x)
  PROVE  ReplicationInv'
<1> DEFINE q == [sec[x] EXCEPT !.opening = serial, !.pc = IF Full(x) THEN "list" ELSE "close"]
<1>1. sec' = [sec EXCEPT ![x] = q] /\ UNCHANGED serverVars /\ notices' \subseteq Secondaries
  BY DEF SendOpeningSOA, ReplicationInv, HistoryInv
<1>2. Sound(sec[x], history, stands, acked) /\ serial \in DOMAIN stands
  BY DEF ReplicationInv, HistoryInv
<1>3. Sound(q, history, stands, acked)
  BY <1>2 DEF Sound, SecondaryFields, Full
<1> HIDE DEF q
<1> QED
  BY <1>1, <1>3, SecondaryStep

\* The table is listed after the opening SOA was made: it is not behind it.
LEMMA ListTableInv ==
  ASSUME ReplicationInv, NEW x \in Secondaries, ListTable(x)
  PROVE  ReplicationInv'
<1> DEFINE q == [sec[x] EXCEPT !.listed = table, !.pc = "close"]
           v == stands[sec[x].opening]
<1>1. sec' = [sec EXCEPT ![x] = q] /\ UNCHANGED serverVars /\ notices' \subseteq Secondaries
  BY DEF ListTable, ReplicationInv, HistoryInv
<1>2. Sound(sec[x], history, stands, acked) /\ sec[x].opening \in DOMAIN stands
  BY DEF ReplicationInv, ListTable, Sound
<1>3. /\ v \in 1 .. Len(history) /\ Len(history) \in Nat
      /\ table = history[Len(history)] /\ table \in Contents
  BY <1>2, Numbers DEF ReplicationInv, HistoryInv
<1> HIDE DEF v
<1>4. Len(history) \in v .. Len(history)
  BY <1>3
<1>5. Inside(history, TxtOf(table), v)
  BY <1>3, <1>4 DEF Inside, TxtOf, Contents
<1>6. Sound(q, history, stands, acked)
  BY <1>2, <1>5 DEF Sound, SecondaryFields, v
<1> HIDE DEF q
<1> QED
  BY <1>1, <1>6, SecondaryStep

\* A complete stream takes the secondary to its opening serial, or along its
\* deltas to the serial of the last.
LEMMA UpdatedIsSound ==
  ASSUME ReplicationInv, NEW x \in Secondaries, sec[x].pc = "close", ~Bodyless(x)
  PROVE  Sound(Updated(x), history, stands, acked)
<1>1. Sound(sec[x], history, stands, acked) /\ 1 \in 1 .. acked
  BY Numbers DEF ReplicationInv
<1>2. ASSUME NEW s \in DOMAIN stands, NEW zone, Inside(history, zone, stands[s])
      PROVE  Sound(AtRest(s, zone), history, stands, acked)
  BY <1>1, <1>2 DEF Sound, SecondaryFields, AtRest
<1>3. CASE Full(x)
  BY <1>1, <1>2, <1>3 DEF Updated, Sound, Full
<1>4. CASE ~Full(x)
  <2> DEFINE s == sec[x].serial
             ds == sec[x].deltas
             n == Len(ds)
             v == stands[s]
  <2>1. Continues(history, stands, s, ds) /\ s \in DOMAIN stands /\ Inside(history, sec[x].zone, v)
    BY <1>1, <1>4 DEF Sound, Full
  <2>2. n \in Nat /\ n # 0
    BY <1>4, <2>1 DEF Continues, Bodyless
  <2>3. /\ history \in Seq(Contents) /\ \A t \in DOMAIN stands : stands[t] \in 1 .. Len(history)
        /\ NoItem \notin Items
    BY ReplicationAssumption DEF ReplicationInv, HistoryInv
  <2> HIDE DEF s, ds, n, v
  <2>4. v \in 1 .. Len(history) /\ Len(history) \in Nat
    BY <2>1, <2>3 DEF v
  <2>5. ASSUME NEW i \in 1 .. n
        PROVE  /\ s + i \in DOMAIN stands /\ stands[s + i] = v + i
               /\ ds[i].serial = s + i
               /\ ds[i].change.removed = TxtOf(history[v + (i - 1)])
               /\ ds[i].change.added = TxtOf(history[v + i])
    <3>1. /\ s + i \in DOMAIN stands /\ stands[s + i] = v + i
          /\ ds[i] = DeltaTo(history, s + i, v + i)
      BY <2>1 DEF Continues, n, v
    <3>2. (v + i) - 1 = v + (i - 1)
      BY <2>2, <2>3, <2>4
    <3> QED
      BY <3>1, <3>2 DEF DeltaTo
  <2>6. \A i \in 1 .. Len(ds) :
          /\ v + i \in 1 .. Len(history)
          /\ ds[i].change.removed = TxtOf(history[v + (i - 1)])
          /\ ds[i].change.added = TxtOf(history[v + i])
    BY <2>3, <2>5 DEF n
  <2>7. Inside(history, Patched(sec[x].zone, ds), v + n)
    BY <2>1, <2>2, <2>3, <2>4, <2>6, PatchedInside DEF n
  <2>8. n \in 1 .. n
    BY <2>2
  <2>9. ds[n].serial \in DOMAIN stands /\ stands[ds[n].serial] = v + n
    BY <2>5, <2>8
  <2>10. Updated(x) = AtRest(ds[n].serial, Patched(sec[x].zone, ds))
    BY <1>4 DEF Updated, ds, n
  <2> QED
    BY <1>2, <2>7, <2>9, <2>10
<1> QED
  BY <1>3, <1>4

LEMMA SendClosingSOAInv ==
  ASSUME ReplicationInv, NEW x \in Secondaries, SendClosingSOA(x)
  PROVE  ReplicationInv'
<1>1. UNCHANGED serverVars /\ notices' \subseteq Secondaries /\ sec[x].pc = "close"
  BY DEF SendClosingSOA, ReplicationInv, HistoryInv
<1>2. CASE ~Bodyless(x) /\ sec' = [sec EXCEPT ![x] = Updated(x)]
  BY <1>1, <1>2, UpdatedIsSound, SecondaryStep
<1>3. CASE sec' = [sec EXCEPT ![x] = Interrupted(x)]
  BY <1>1, <1>3, InterruptedIsSound, SecondaryStep
<1> QED
  BY <1>2, <1>3 DEF SendClosingSOA

LEMMA BreakConnectionInv ==
  ASSUME ReplicationInv, NEW x \in Secondaries, BreakConnection(x)
  PROVE  ReplicationInv'
<1>1. /\ UNCHANGED serverVars /\ notices' \subseteq Secondaries
      /\ sec' = [sec EXCEPT ![x] = Interrupted(x)]
  BY DEF BreakConnection, ReplicationInv, HistoryInv
<1> QED
  BY <1>1, InterruptedIsSound, SecondaryStep

-----------------------------------------------------------------------------

(***************************************************************************)
(* The theorems.                                                           *)
(***************************************************************************)
LEMMA InitInv ==
  ASSUME Init
  PROVE  ReplicationInv
<1> USE DEF Init
<1>1. /\ FirstItem \in Contents /\ Start \in Serials /\ Start \in Nat
      /\ history \in Seq(Contents) /\ Len(history) = 1 /\ history[1] = FirstItem
      /\ DOMAIN stands = {Start} /\ stands[Start] = 1
  BY ReplicationAssumption, SerialModAssumption DEF Contents, Serials
<1>2. HistoryInv
  BY <1>1 DEF HistoryInv
<1>3. log.latest = Start /\ JournalInv
  <2>1. log = [oldest |-> Inc(Start), latest |-> Start, started |-> FALSE, deltas |-> EmptyMap]
    BY DEF NewMemChangeLog
  <2>2. DOMAIN EmptyMap = {} /\ EmptyMap \in [{} -> Delta]
    BY DEF EmptyMap
  <2>3. Inc(Start) \in Serials
    BY <1>1, SerialModAssumption DEF Inc, Serials
  <2>4. log \in Journal(DOMAIN log.deltas) /\ DOMAIN log.deltas = {} /\ log.latest = Start
    BY <1>1, <2>1, <2>2, <2>3 DEF Journal
  <2> QED
    BY <1>1, <2>4 DEF JournalInv
<1>4. WriterInv
  BY <1>1, <1>3 DEF WriterInv, IdleWriter
<1>5. Inside(history, TxtOf(FirstItem), 1)
  BY <1>1 DEF Inside, TxtOf, Contents
<1>6. Sound(AtRest(Start, TxtOf(FirstItem)), history, stands, acked)
  BY <1>1, <1>5 DEF Sound, SecondaryFields, AtRest
<1> QED
  BY <1>2, <1>3, <1>4, <1>6 DEF ReplicationInv

\* Only a restart touches ahead, and it does not set it again.
LEMMA AheadStep ==
  ASSUME ahead \in BOOLEAN, [Next]_replicationVars
  PROVE  /\ ahead' \in BOOLEAN /\ (ahead' => ahead)
         /\ ahead' /\ Restart => \A s \in DOMAIN stands : s < serial'
<1>1. CASE Restart
  BY <1>1, Zenon DEF Restart
<1>2. CASE ~Restart
  <2>1. ahead' = ahead
    <3>1. CASE UNCHANGED replicationVars
      BY <3>1 DEF replicationVars, serverVars
    <3>2. CASE \E x \in Secondaries : \/ StreamStep(x) \/ BreakConnection(x)
                                      \/ Refresh(x) \/ HearNotify(x) \/ LoseNotify(x)
      BY <3>2 DEF StreamStep, LoadSerial, SendLoneSOA, ReadDeltas, SendOpeningSOA, ListTable,
                  SendClosingSOA, BreakConnection, Refresh, HearNotify, LoseNotify, serverVars
    <3>3. CASE \/ \E item \in Items \cup {NoItem} : Write(item)
               \/ DrawSerial \/ RecordDelta \/ Crash
      BY <3>3 DEF Write, DrawSerial, RecordDelta, Crash
    <3> QED
      BY <1>2, <3>1, <3>2, <3>3 DEF Next
  <2> QED
    BY <1>2, <2>1
<1> QED
  BY <1>1, <1>2

\* No step of the server, of the network or of a secondary breaks the invariant.
LEMMA StepInv ==
  ASSUME ReplicationInv, [Next]_replicationVars, Restart => \A s \in DOMAIN stands : s < serial'
  PROVE  ReplicationInv'
<1>1. CASE UNCHANGED replicationVars
  <2>1. /\ UNCHANGED <<history, stands, acked, table, log, writer, serial, up, notices, sec>>
    BY <1>1 DEF replicationVars, serverVars
  <2>2. HistoryInv' /\ JournalInv' /\ WriterInv'
    <3>1. HistoryInv'
      BY <2>1 DEF ReplicationInv, HistoryInv
    <3>2. JournalInv'
      BY <2>1, Zenon DEF ReplicationInv, JournalInv
    <3>3. WriterInv'
      BY <2>1 DEF ReplicationInv, WriterInv
    <3> QED
      BY <3>1, <3>2, <3>3
  <2> QED
    BY <2>1, <2>2 DEF ReplicationInv
<1>2. ASSUME NEW item \in Items \cup {NoItem}, Write(item) PROVE ReplicationInv'
  BY <1>2, WriteInv DEF Contents
<1>3. CASE DrawSerial
  BY <1>3, DrawSerialInv
<1>4. CASE RecordDelta
  BY <1>4, RecordDeltaInv
<1>5. CASE Crash
  BY <1>5, CrashInv
<1>6. CASE Restart
  BY <1>6, RestartInv
<1>7. ASSUME NEW x \in Secondaries, StreamStep(x) PROVE ReplicationInv'
  BY <1>7, LoadSerialInv, SendLoneSOAInv, ReadDeltasInv, SendOpeningSOAInv, ListTableInv,
     SendClosingSOAInv DEF StreamStep
<1>8. ASSUME NEW x \in Secondaries, BreakConnection(x) PROVE ReplicationInv'
  BY <1>8, BreakConnectionInv
<1>9. ASSUME NEW x \in Secondaries, Refresh(x) \/ HearNotify(x) PROVE ReplicationInv'
  BY <1>9, RefreshInv
<1>10. ASSUME NEW x \in Secondaries, LoseNotify(x) PROVE ReplicationInv'
  BY <1>10, LoseNotifyInv
<1> QED
  BY <1>1, <1>2, <1>3, <1>4, <1>5, <1>6, <1>7, <1>8, <1>9, <1>10 DEF Next

\* The inductive invariant, which holds until a restart takes an old serial: serials
\* and positions of the history go together, the journal holds one run of the
\* server, and every secondary's zone comes from the position of its serial or from
\* later ones.
THEOREM ReplicationInvariant == Spec => []AheadInv
<1>1. Init => AheadInv
  <2> SUFFICES ASSUME Init PROVE AheadInv
    OBVIOUS
  <2>1. ahead = TRUE
    BY DEF Init
  <2>2. ReplicationInv
    BY InitInv
  <2> QED
    BY <2>1, <2>2 DEF AheadInv
<1>2. AheadInv /\ [Next]_replicationVars => AheadInv'
  <2> SUFFICES ASSUME ahead \in BOOLEAN, ahead => ReplicationInv, [Next]_replicationVars
               PROVE  ahead' \in BOOLEAN /\ (ahead' => ReplicationInv')
    BY DEF AheadInv
  <2>1. ASSUME ahead' PROVE ReplicationInv'
    <3>1. ahead /\ (Restart => \A s \in DOMAIN stands : s < serial')
      BY <2>1, AheadStep
    <3> QED
      BY <3>1, StepInv
  <2> QED
    BY <2>1, AheadStep
<1> QED
  BY <1>1, <1>2, PTL DEF Spec

\* A zone inside the history from v on has the content of some position from v on.
LEMMA InsideHolds ==
  ASSUME ReplicationInv, NEW x \in Secondaries, NEW v, Inside(history, sec[x].zone, v)
  PROVE  HoldsSince(x, v)
<1>1. NoItem \notin Items
  BY ReplicationAssumption
<1>2. CASE sec[x].zone = {}
  BY <1>2 DEF Inside, HoldsSince, Holds
<1>3. CASE sec[x].zone # {}
  <2>1. PICK item \in sec[x].zone : item \in Items
    BY <1>3 DEF Inside
  <2>2. PICK w \in v .. Len(history) : history[w] = item
    BY DEF Inside
  <2> QED
    BY <1>1, <2>1, <2>2 DEF HoldsSince, Holds
<1> QED
  BY <1>2, <1>3

\* NeverBehindItsSerial: as long as every restart takes a serial past those handed
\* out, the zone of a secondary is never older than the serial it carries, whatever
\* full and incremental transfers of handleAXFR and handleIXFR, crashes and restarts
\* brought it there.
THEOREM SecondariesAreNeverBehind == Spec => []NeverBehindItsSerial
<1>1. AheadInv => NeverBehindItsSerial
  BY InsideHolds DEF AheadInv, ReplicationInv, Sound, NeverBehindItsSerial
<1> QED
  BY <1>1, ReplicationInvariant, PTL

\* UpToDateIsTrue: as long as every restart takes a serial past those handed out, a
\* secondary that handleIXFR tells that it is up to date has every write that was
\* acknowledged when it asked.
THEOREM UpToDateSecondariesAreCurrent == Spec => []UpToDateIsTrue
<1>1. ASSUME ReplicationInv PROVE UpToDateMeansCurrent
  <2> SUFFICES ASSUME NEW x \in Secondaries, sec[x].pc = "uptodate"
               PROVE  HoldsSince(x, sec[x].owed)
    BY DEF UpToDateMeansCurrent
  <2>1. Sound(sec[x], history, stands, acked)
    BY <1>1 DEF ReplicationInv
  <2>2. /\ HoldsSince(x, stands[sec[x].serial]) /\ sec[x].owed <= stands[sec[x].serial]
        /\ sec[x].serial \in DOMAIN stands /\ sec[x].owed \in Nat
    BY <1>1, <2>1, InsideHolds, Numbers DEF Sound, ReplicationInv
  <2>3. stands[sec[x].serial] \in Nat /\ Len(history) \in Nat
    BY <1>1, <2>2, Numbers DEF ReplicationInv, HistoryInv
  <2> QED
    BY <2>2, <2>3 DEF HoldsSince
<1>2. AheadInv => UpToDateIsTrue
  BY <1>1 DEF AheadInv, UpToDateIsTrue
<1> QED
  BY <1>2, ReplicationInvariant, PTL

\* ReplicationTypeOK, as long as every restart takes a serial past those handed out:
\* the shape of the state; in particular, while the server runs, the journal ends at
\* the zone serial or at the one before.
THEOREM ReplicationTypeCorrect == Spec => [](ahead => ReplicationTypeOK)
<1>1. ASSUME ReplicationInv, ahead \in BOOLEAN PROVE ReplicationTypeOK
  <2>1. /\ table \in Contents /\ history \in Seq(Contents) /\ serial \in DOMAIN stands
        /\ acked \in 1 .. Len(history) /\ serial \in Nat /\ notices \subseteq Secondaries
    BY <1>1, Numbers DEF ReplicationInv, HistoryInv
  <2>2. log \in Journal(DOMAIN log.deltas) /\ DOMAIN log.deltas \subseteq DOMAIN stands
    BY <1>1 DEF ReplicationInv, JournalInv
  <2>3. up => log.latest = (IF writer.pc = "record" THEN Dec(serial) ELSE serial)
    <3>1. CASE writer.pc = "record"
      <4>1. log.latest = serial - 1 /\ serial - 1 \in Nat
        BY <1>1, <3>1, Numbers DEF ReplicationInv, WriterInv, HistoryInv
      <4> QED
        BY <2>1, <3>1, <4>1 DEF Dec
    <3>2. CASE writer.pc # "record"
      BY <1>1, <3>2 DEF ReplicationInv, WriterInv
    <3> QED
      BY <3>1, <3>2
  <2>4. writer.pc \in {"idle", "draw", "record"}
    BY <1>1 DEF ReplicationInv, WriterInv
  <2>5. \A x \in Secondaries :
          /\ sec[x].serial \in DOMAIN stands /\ sec[x].zone \subseteq Items
          /\ sec[x].pc \in {"idle", "load", "lone", "uptodate", "deltas", "open", "list", "close"}
    BY <1>1 DEF ReplicationInv, Sound, Inside
  <2> QED
    BY <1>1, <2>1, <2>2, <2>3, <2>4, <2>5 DEF ReplicationTypeOK, Contents
<1>2. AheadInv => (ahead => ReplicationTypeOK)
  BY <1>1 DEF AheadInv
<1> QED
  BY <1>2, ReplicationInvariant, PTL
=============================================================================
