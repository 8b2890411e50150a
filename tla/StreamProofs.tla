---------------------------- MODULE StreamProofs ----------------------------
(***************************************************************************)
(* What decoding, rendering and batching do to texts and tables of any     *)
(* length.  Induction over data is induction over index sets: a property   *)
(* of indices is the set of the indices that have it.                      *)
(***************************************************************************)
EXTENDS Stream, SequenceTheorems, WellFoundedInduction, TLAPS

-----------------------------------------------------------------------------

(***************************************************************************)
(* Induction and recursion over indices.                                   *)
(***************************************************************************)

\* A set of naturals that is not empty has a least member.
LEMMA LeastNatural ==
  ASSUME NEW S, S \subseteq Nat, S # {}
  PROVE  \E m \in S : \A i \in S : m <= i
<1> DEFINE R == {ss \in Nat \X Nat : ss[1] < ss[2]}
<1>1. IsWellFoundedOn(R, Nat)
  BY NatLessThanWellFounded DEF OpToRel
<1> HIDE DEF R
<1>2. PICK m \in S : \A i \in S : ~(<<i, m>> \in R)
  BY <1>1, WFMin
<1>3. \A i \in S : i < m => <<i, m>> \in R
  BY DEF R
<1>4. \A i \in S : i \in Nat /\ m \in Nat /\ ~(i < m)
  BY <1>2, <1>3
<1> QED
  BY <1>4

\* Upwards, one by one.
LEMMA Upwards ==
  ASSUME NEW n \in Nat, NEW P, 0 \in P, \A i \in 1 .. n : i - 1 \in P => i \in P
  PROVE  \A i \in 0 .. n : i \in P
<1> DEFINE Bad == {i \in 0 .. n : i \notin P}
<1> SUFFICES ASSUME Bad # {} PROVE FALSE
  OBVIOUS
<1>1. PICK m \in Bad : \A i \in Bad : m <= i
  <2>1. Bad \subseteq Nat
    OBVIOUS
  <2> HIDE DEF Bad
  <2> QED
    BY <2>1, LeastNatural
<1>2. m \in 1 .. n /\ m - 1 \in 0 .. n /\ m - 1 \notin Bad
  BY <1>1
<1> QED
  BY <1>1, <1>2

\* Downwards: from all the indices above.
LEMMA Downwards ==
  ASSUME NEW n \in Nat, NEW P, n + 1 \in P,
         \A i \in 1 .. n : (\A j \in i + 1 .. n + 1 : j \in P) => i \in P
  PROVE  \A i \in 1 .. n + 1 : i \in P
<1> DEFINE Bad == {k \in 0 .. n : (n + 1) - k \notin P}
<1>1. Bad = {}
  <2> SUFFICES ASSUME Bad # {} PROVE FALSE
    OBVIOUS
  <2>1. PICK m \in Bad : \A k \in Bad : m <= k
    <3>1. Bad \subseteq Nat
      OBVIOUS
    <3> HIDE DEF Bad
    <3> QED
      BY <3>1, LeastNatural
  <2>2. m # 0 /\ (n + 1) - m \in 1 .. n
    BY <2>1
  <2>3. ASSUME NEW j \in ((n + 1) - m) + 1 .. n + 1 PROVE j \in P
    <3>1. (n + 1) - j \in 0 .. n /\ (n + 1) - j < m /\ (n + 1) - ((n + 1) - j) = j
      BY <2>1, <2>3
    <3>2. (n + 1) - j \notin Bad
      BY <2>1, <3>1
    <3> QED
      BY <3>1, <3>2
  <2> QED
    BY <2>1, <2>2, <2>3
<1>2. ASSUME NEW i \in 1 .. n + 1 PROVE i \in P
  <2>1. (n + 1) - i \in 0 .. n /\ (n + 1) - ((n + 1) - i) = i
    OBVIOUS
  <2> QED
    BY <1>1, <2>1
<1> QED
  BY <1>2

\* A first value, and a way from each value to the next.
UpwardRule(S, base, n, G) == base \in S /\ n \in Nat /\ G \in [1 .. n -> [S -> S]]

GoesUpward(z, S, base, n, G) ==
  z \in [0 .. n -> S] /\ z[0] = base /\ \A i \in 1 .. n : z[i] = G[i][z[i - 1]]

\* They give a function.
LEMMA UpwardFunction ==
  ASSUME NEW S, NEW base, NEW n, NEW G, UpwardRule(S, base, n, G)
  PROVE  \E z : GoesUpward(z, S, base, n, G)
<1> USE DEF UpwardRule, GoesUpward
<1> DEFINE Fits(z, m) == z \in [0 .. m -> S] /\ z[0] = base /\ \A i \in 1 .. m : z[i] = G[i][z[i - 1]]
           P == {m \in 0 .. n : \E z : Fits(z, m)}
<1>1. 0 \in P
  <2> DEFINE z == [i \in 0 .. 0 |-> base]
  <2>1. Fits(z, 0)
    OBVIOUS
  <2> HIDE DEF z, Fits
  <2> QED
    BY <2>1
<1>2. ASSUME NEW m \in 1 .. n, m - 1 \in P PROVE m \in P
  <2>1. PICK y : Fits(y, m - 1)
    BY <1>2
  <2> DEFINE z == [i \in 0 .. m |-> IF i = m THEN G[m][y[m - 1]] ELSE y[i]]
  <2>2. m - 1 \in 0 .. m - 1 /\ y[m - 1] \in S
    BY <2>1
  <2>3. z \in [0 .. m -> S] /\ z[0] = base
    BY <2>1, <2>2
  <2>4. \A i \in 1 .. m : z[i] = G[i][z[i - 1]]
    BY <2>1, <2>2
  <2>5. Fits(z, m)
    BY <2>3, <2>4
  <2> HIDE DEF z, Fits
  <2> QED
    BY <2>5
<1>3. \A i \in 0 .. n : i \in P
  <2> HIDE DEF P
  <2> QED
    BY <1>1, <1>2, Upwards
<1>4. n \in P
  BY <1>3
<1> QED
  BY <1>4

\* A last value, and a way to each value from one further up.
DownwardRule(S, base, n, G, next) ==
  /\ base \in S /\ n \in Nat /\ G \in [1 .. n -> [S -> S]]
  /\ next \in [1 .. n -> 1 .. n + 1] /\ \A i \in 1 .. n : next[i] > i

GoesDownward(z, S, base, n, G, next) ==
  z \in [1 .. n + 1 -> S] /\ z[n + 1] = base /\ \A i \in 1 .. n : z[i] = G[i][z[next[i]]]

\* They give a function.
LEMMA DownwardFunction ==
  ASSUME NEW S, NEW base, NEW n, NEW G, NEW next, DownwardRule(S, base, n, G, next)
  PROVE  \E z : GoesDownward(z, S, base, n, G, next)
<1> USE DEF DownwardRule, GoesDownward
<1> DEFINE Fits(z, m) == /\ z \in [m .. n + 1 -> S] /\ z[n + 1] = base
                         /\ \A i \in m .. n : z[i] = G[i][z[next[i]]]
           P == {m \in 1 .. n + 1 : \E z : Fits(z, m)}
<1>1. n + 1 \in P
  <2> DEFINE z == [i \in n + 1 .. n + 1 |-> base]
  <2>1. Fits(z, n + 1)
    OBVIOUS
  <2> HIDE DEF z, Fits
  <2> QED
    BY <2>1
<1>2. ASSUME NEW m \in 1 .. n, m + 1 \in P PROVE m \in P
  <2>1. PICK y : Fits(y, m + 1)
    BY <1>2
  <2> DEFINE z == [i \in m .. n + 1 |-> IF i = m THEN G[m][y[next[m]]] ELSE y[i]]
  <2>2. next[m] \in m + 1 .. n + 1 /\ y[next[m]] \in S
    BY <2>1
  <2>3. z \in [m .. n + 1 -> S] /\ z[n + 1] = base
    BY <2>1, <2>2
  <2>4. \A i \in m .. n : z[i] = G[i][z[next[i]]]
    <3> TAKE i \in m .. n
    <3>1. next[i] \in m + 1 .. n + 1 /\ z[next[i]] = y[next[i]]
      OBVIOUS
    <3>2. CASE i = m
      BY <3>1, <3>2
    <3>3. CASE i # m
      <4>1. i \in m + 1 .. n
        BY <3>3
      <4> QED
        BY <2>1, <3>1, <3>3, <4>1
    <3> QED
      BY <3>2, <3>3
  <2>5. Fits(z, m)
    BY <2>3, <2>4
  <2> HIDE DEF z, Fits
  <2> QED
    BY <2>5
<1>3. \A i \in 1 .. n + 1 : i \in P
  <2>1. \A i \in 1 .. n : (\A j \in i + 1 .. n + 1 : j \in P) => i \in P
    <3> HIDE DEF P
    <3> QED
      BY <1>2
  <2> HIDE DEF P
  <2> QED
    BY <1>1, <2>1, Downwards
<1>4. 1 \in P
  BY <1>3
<1> QED
  BY <1>4

-----------------------------------------------------------------------------

(***************************************************************************)
(* Sums.                                                                   *)
(***************************************************************************)

\* The partial sums of a sequence.
PartialSums(z, s) ==
  /\ z \in [0 .. Len(s) -> Nat]
  /\ z[0] = 0 /\ \A i \in 1 .. Len(s) : z[i] = z[i - 1] + s[i]

\* There are such.
LEMMA PartialSumsExist ==
  ASSUME NEW s \in Seq(Nat)
  PROVE  \E z : PartialSums(z, s)
<1> DEFINE n == Len(s)
           S == Nat
           zero == 0
           G == [i \in 1 .. n |-> [x \in S |-> x + s[i]]]
<1>0. \A i \in 1 .. n : s[i] \in Nat
  OBVIOUS
<1>1. n \in Nat
  OBVIOUS
<1> HIDE DEF n
<1>2. G \in [1 .. n -> [S -> S]] /\ zero \in S
  BY <1>0
<1>3. \A i \in 1 .. n : \A x \in Nat : G[i][x] = x + s[i]
  OBVIOUS
<1> HIDE DEF G, S, zero
<1>4. PICK z : GoesUpward(z, S, zero, n, G)
  <2>1. UpwardRule(S, zero, n, G)
    BY <1>1, <1>2 DEF UpwardRule
  <2> QED
    BY <2>1, UpwardFunction
<1>5. z \in [0 .. n -> Nat] /\ z[0] = 0 /\ \A i \in 1 .. n : z[i - 1] \in Nat
  BY <1>1, <1>4 DEF GoesUpward, S, zero
<1>6. \A i \in 1 .. n : z[i] = z[i - 1] + s[i]
  BY <1>3, <1>4, <1>5 DEF GoesUpward
<1>7. PartialSums(z, s)
  BY <1>5, <1>6 DEF PartialSums, n
<1> QED
  BY <1>7

\* Sum is the last of them.
LEMMA SumIsPartial ==
  ASSUME NEW s \in Seq(Nat)
  PROVE  \E z : PartialSums(z, s) /\ Sum(s) = z[Len(s)]
<1> DEFINE n == Len(s)
           z == CHOOSE f : f = [i \in 0 .. Len(s) |-> IF i = 0 THEN 0 ELSE f[i - 1] + s[i]]
<1>1. n \in Nat /\ \A i \in 1 .. n : s[i] \in Nat
  OBVIOUS
<1>2. PICK y : PartialSums(y, s)
  BY PartialSumsExist
<1>3. y = [i \in 0 .. Len(s) |-> IF i = 0 THEN 0 ELSE y[i - 1] + s[i]]
  BY <1>1, <1>2 DEF PartialSums
<1>4. z = [i \in 0 .. Len(s) |-> IF i = 0 THEN 0 ELSE z[i - 1] + s[i]]
  BY <1>3, Zenon
<1>5. Sum(s) = z[Len(s)]
  BY DEF Sum
<1> HIDE DEF z
<1>6. z[0] = 0 /\ \A i \in 1 .. n : z[i] = z[i - 1] + s[i]
  BY <1>1, <1>4
<1>7. \A i \in 0 .. n : z[i] \in Nat
  <2> DEFINE P == {i \in 0 .. n : z[i] \in Nat}
  <2>1. 0 \in P
    BY <1>1, <1>6
  <2>2. \A i \in 1 .. n : i - 1 \in P => i \in P
    BY <1>1, <1>6, SMTT(30)
  <2>3. \A i \in 0 .. n : i \in P
    <3> HIDE DEF P
    <3> QED
      BY <1>1, <2>1, <2>2, Upwards
  <2> QED
    BY <2>3
<1>8. PartialSums(z, s)
  BY <1>4, <1>6, <1>7 DEF PartialSums
<1> QED
  BY <1>5, <1>8

\* A sum is a natural number, at least as large as another, of as many numbers
\* each of which is smaller.
LEMMA SumMonotone ==
  ASSUME NEW s \in Seq(Nat), NEW t \in Seq(Nat), Len(s) = Len(t),
         \A i \in 1 .. Len(s) : s[i] <= t[i]
  PROVE  Sum(s) \in Nat /\ Sum(t) \in Nat /\ Sum(s) <= Sum(t)
<1> DEFINE n == Len(s)
<1>1. PICK y : PartialSums(y, s) /\ Sum(s) = y[n]
  BY SumIsPartial
<1>2. PICK z : PartialSums(z, t) /\ Sum(t) = z[n]
  BY SumIsPartial
<1>3. n \in Nat /\ \A i \in 1 .. n : s[i] \in Nat /\ t[i] \in Nat
  OBVIOUS
<1>4. \A i \in 0 .. n : y[i] \in Nat /\ z[i] \in Nat
  BY <1>1, <1>2 DEF PartialSums
<1> DEFINE P == {i \in 0 .. n : y[i] <= z[i]}
<1>5. 0 \in P
  BY <1>1, <1>2, <1>3 DEF PartialSums
<1>6. ASSUME NEW i \in 1 .. n, i - 1 \in P PROVE i \in P
  <2>1. y[i] = y[i - 1] + s[i] /\ z[i] = z[i - 1] + t[i]
    BY <1>1, <1>2 DEF PartialSums
  <2>2. /\ i \in 0 .. n /\ y[i - 1] <= z[i - 1] /\ s[i] <= t[i]
        /\ y[i - 1] \in Nat /\ z[i - 1] \in Nat /\ s[i] \in Nat /\ t[i] \in Nat
    BY <1>3, <1>4, <1>6
  <2> QED
    BY <2>1, <2>2
<1>7. n \in P
  <2> HIDE DEF P
  <2>1. \A i \in 0 .. n : i \in P
    BY <1>3, <1>5, <1>6, Upwards
  <2> QED
    BY <1>3, <2>1
<1> QED
  BY <1>1, <1>2, <1>3, <1>4, <1>7

\* The empty sum, and a sum with one more number.
LEMMA SumEmpty == Sum(<< >>) = 0
<1>1. << >> \in Seq(Nat) /\ Len(<< >>) = 0
  OBVIOUS
<1>2. PICK z : PartialSums(z, << >>) /\ Sum(<< >>) = z[0]
  BY <1>1, SumIsPartial
<1> QED
  BY <1>2 DEF PartialSums

LEMMA SumAppend ==
  ASSUME NEW s \in Seq(Nat), NEW t \in Seq(Nat), Len(t) = Len(s) + 1,
         \A i \in 1 .. Len(s) : t[i] = s[i]
  PROVE  Sum(t) = Sum(s) + t[Len(t)]
<1> DEFINE n == Len(s)
<1>1. PICK y : PartialSums(y, s) /\ Sum(s) = y[n]
  BY SumIsPartial
<1>2. PICK z : PartialSums(z, t) /\ Sum(t) = z[n + 1]
  BY SumIsPartial
<1>3. n \in Nat
  OBVIOUS
<1> DEFINE P == {i \in 0 .. n : y[i] = z[i]}
<1>4. 0 \in P
  BY <1>1, <1>2, <1>3 DEF PartialSums
<1>5. ASSUME NEW i \in 1 .. n, i - 1 \in P PROVE i \in P
  <2>1. y[i] = y[i - 1] + s[i] /\ z[i] = z[i - 1] + t[i]
    BY <1>1, <1>2, <1>3 DEF PartialSums
  <2> QED
    BY <1>5, <2>1
<1>6. n \in P
  <2> HIDE DEF P
  <2>1. \A i \in 0 .. n : i \in P
    BY <1>3, <1>4, <1>5, Upwards
  <2> QED
    BY <1>3, <2>1
<1>7. z[n + 1] = z[(n + 1) - 1] + t[n + 1]
  BY <1>2, <1>3, SMTT(30) DEF PartialSums
<1> QED
  BY <1>1, <1>2, <1>3, <1>6, <1>7

-----------------------------------------------------------------------------

(***************************************************************************)
(* Escapes undone.  packTxtString and decodeTXTStrings differ in what they *)
(* make of a backslash at the very end.                                    *)
(***************************************************************************)

\* s without its escapes from i on, where z is that for larger indices.
From(z, s, last, i) ==
  IF i > Len(s) THEN << >>
  ELSE IF s[i] # "b" THEN <<s[i]>> \o z[i + 1]
  ELSE IF i = Len(s) THEN last
  ELSE IF IsDDD(s, i) THEN <<"n">> \o z[i + 4]
  ELSE <<s[i + 1]>> \o z[i + 2]

Unescaped(z, s, last) == z = [i \in 1 .. Len(s) + 1 |-> From(z, s, last, i)]

\* There are such.
LEMMA UnescapedExists ==
  ASSUME NEW s \in Seq(Byte), NEW T, Byte \subseteq T, NEW last \in Seq(T)
  PROVE  \E z : Unescaped(z, s, last)
<1> DEFINE n == Len(s)
           S == Seq(T)
           ddd(i) == i + 3 <= n /\ \A j \in i + 1 .. i + 3 : s[j] = "d"
           G == [i \in 1 .. n |-> [x \in S |->
                  IF s[i] # "b" THEN <<s[i]>> \o x
                  ELSE IF i = n THEN last
                  ELSE IF ddd(i) THEN <<"n">> \o x
                  ELSE <<s[i + 1]>> \o x]]
           next == [i \in 1 .. n |-> IF s[i] # "b" \/ i = n THEN i + 1
                                     ELSE IF ddd(i) THEN i + 4 ELSE i + 2]
           empty == << >>
<1>1. n \in Nat
  OBVIOUS
<1>2. \A i \in 1 .. n : s[i] \in T
  BY DEF Byte
<1>3. \A i \in 1 .. Len(s) : IsDDD(s, i) <=> ddd(i)
  BY DEF IsDDD
<1> HIDE DEF n
<1>4. empty \in S /\ G \in [1 .. n -> [S -> S]]
  <2>1. "n" \in T
    BY DEF Byte
  <2>2. \A e \in T : \A x \in Seq(T) : <<e>> \o x \in Seq(T)
    OBVIOUS
  <2>3. \A i \in 1 .. n : i # n => s[i + 1] \in T
    BY <1>1, <1>2
  <2> HIDE DEF ddd
  <2> QED
    BY <1>2, <2>1, <2>2, <2>3
<1>5. next \in [1 .. n -> 1 .. n + 1] /\ \A i \in 1 .. n : next[i] > i
  BY <1>1
<1>6. \A i \in 1 .. n : \A x \in S :
        G[i][x] = IF s[i] # "b" THEN <<s[i]>> \o x
                  ELSE IF i = n THEN last
                  ELSE IF ddd(i) THEN <<"n">> \o x
                  ELSE <<s[i + 1]>> \o x
  OBVIOUS
<1>7. \A i \in 1 .. n : next[i] = IF s[i] # "b" \/ i = n THEN i + 1
                                  ELSE IF ddd(i) THEN i + 4 ELSE i + 2
  OBVIOUS
<1> HIDE DEF G, S, next, empty, ddd
<1>8. PICK z : GoesDownward(z, S, empty, n, G, next)
  <2>1. DownwardRule(S, empty, n, G, next)
    BY <1>1, <1>4, <1>5 DEF DownwardRule
  <2> QED
    BY <2>1, DownwardFunction
<1>9. \A i \in 1 .. n : z[next[i]] \in S /\ z[i] = G[i][z[next[i]]]
  BY <1>5, <1>8 DEF GoesDownward
<1>10. \A i \in 1 .. n : z[i] = IF s[i] # "b" THEN <<s[i]>> \o z[i + 1]
                                ELSE IF i = n THEN last
                                ELSE IF ddd(i) THEN <<"n">> \o z[i + 4]
                                ELSE <<s[i + 1]>> \o z[i + 2]
  <2> TAKE i \in 1 .. n
  <2>1. z[i] = IF s[i] # "b" THEN <<s[i]>> \o z[next[i]]
               ELSE IF i = n THEN last
               ELSE IF ddd(i) THEN <<"n">> \o z[next[i]]
               ELSE <<s[i + 1]>> \o z[next[i]]
    BY <1>6, <1>9
  <2> QED
    BY <1>7, <2>1
<1>11. Unescaped(z, s, last)
  <2>1. \A i \in 1 .. n + 1 : i > n <=> i = n + 1
    BY <1>1
  <2>2. z = [i \in 1 .. n + 1 |-> z[i]] /\ z[n + 1] = << >>
    BY <1>8 DEF GoesDownward, empty
  <2>3. \A i \in 1 .. n + 1 : z[i] = From(z, s, last, i)
    <3> USE DEF From, n
    <3> TAKE i \in 1 .. n + 1
    <3>1. CASE i = n + 1
      BY <1>1, <2>2, <3>1
    <3>2. CASE i # n + 1
      <4>1. i \in 1 .. n /\ ~(i > n) /\ (IsDDD(s, i) <=> ddd(i))
        BY <1>1, <1>3, <3>2 DEF n
      <4> QED
        BY <1>10, <4>1
    <3> QED
      BY <3>1, <3>2
  <2> QED
    BY <2>2, <2>3 DEF Unescaped, n
<1> QED
  BY <1>11

\* packTxtString and the loop of decodeTXTStrings compute them.
LEMMA PackIsUnescaped ==
  ASSUME NEW s \in Seq(Byte)
  PROVE  \E z : Unescaped(z, s, << >>) /\ packTxtString(s) = z[1]
<1> DEFINE z == CHOOSE f : f = [i \in 1 .. Len(s) + 1 |->
                  IF i > Len(s) THEN << >>
                  ELSE IF s[i] # "b" THEN <<s[i]>> \o f[i + 1]
                  ELSE IF i = Len(s) THEN << >>
                  ELSE IF IsDDD(s, i) THEN <<"n">> \o f[i + 4]
                  ELSE <<s[i + 1]>> \o f[i + 2]]
<1>1. PICK y : Unescaped(y, s, << >>)
  <2>1. << >> \in Seq(Byte)
    OBVIOUS
  <2> QED
    BY <2>1, UnescapedExists
<1>2. Unescaped(z, s, << >>)
  BY <1>1, Zenon DEF Unescaped, From
<1>3. packTxtString(s) = z[1]
  BY DEF packTxtString
<1> HIDE DEF z
<1> QED
  BY <1>2, <1>3

LEMMA DecodeIsUnescaped ==
  ASSUME NEW c \in Seq(Byte)
  PROVE  \E z : Unescaped(z, c, <<Malformed>>) /\ DecodeChunk(c) = z[1]
<1> DEFINE z == CHOOSE f : f = [i \in 1 .. Len(c) + 1 |->
                  IF i > Len(c) THEN << >>
                  ELSE IF c[i] # "b" THEN <<c[i]>> \o f[i + 1]
                  ELSE IF i = Len(c) THEN <<Malformed>>
                  ELSE IF IsDDD(c, i) THEN <<"n">> \o f[i + 4]
                  ELSE <<c[i + 1]>> \o f[i + 2]]
<1>1. PICK y : Unescaped(y, c, <<Malformed>>)
  <2>1. <<Malformed>> \in Seq(Byte \cup {Malformed})
    OBVIOUS
  <2> QED
    BY <2>1, UnescapedExists
<1>2. Unescaped(z, c, <<Malformed>>)
  BY <1>1, Zenon DEF Unescaped, From
<1>3. DecodeChunk(c) = z[1]
  BY DEF DecodeChunk
<1> HIDE DEF z
<1> QED
  BY <1>2, <1>3

\* One byte more at the front.
LEMMA Prefixed ==
  ASSUME NEW T, NEW e \in T, NEW x \in Seq(T)
  PROVE  <<e>> \o x \in Seq(T) /\ Len(<<e>> \o x) = Len(x) + 1
OBVIOUS

\* The values of such a function, one at a time.
ValueAt(z, s, last, i) ==
  /\ i = Len(s) + 1 => z[i] = << >>
  /\ i <= Len(s) /\ s[i] # "b" => z[i] = <<s[i]>> \o z[i + 1]
  /\ i = Len(s) /\ s[i] = "b" => z[i] = last
  /\ i < Len(s) /\ s[i] = "b" /\ IsDDD(s, i) => z[i] = <<"n">> \o z[i + 4]
  /\ i < Len(s) /\ s[i] = "b" /\ ~IsDDD(s, i) => z[i] = <<s[i + 1]>> \o z[i + 2]

LEMMA UnescapedAt ==
  ASSUME NEW s \in Seq(Byte), NEW last, NEW z, Unescaped(z, s, last), NEW i \in 1 .. Len(s) + 1
  PROVE  ValueAt(z, s, last, i)
<1>1. z[i] = From(z, s, last, i)
  BY DEF Unescaped
<1>2. Len(s) \in Nat
  OBVIOUS
<1> QED
  BY <1>1, <1>2 DEF From, ValueAt

\* Undoing escapes makes no text longer.
LEMMA PackShrinks ==
  ASSUME NEW s \in Seq(Byte)
  PROVE  packTxtString(s) \in Seq(Byte) /\ Len(packTxtString(s)) <= Len(s)
<1> DEFINE n == Len(s)
           Short(x, i) == x \in Seq(Byte) /\ Len(x) <= (n + 1) - i
<1>1. PICK z : Unescaped(z, s, << >>) /\ packTxtString(s) = z[1]
  BY PackIsUnescaped
<1>2. n \in Nat
  OBVIOUS
<1>3. \A i \in 1 .. n : s[i] \in Byte
  OBVIOUS
<1> DEFINE P == {i \in 1 .. n + 1 : Short(z[i], i)}
<1>4. ASSUME NEW i \in 1 .. n + 1, z[i] = << >> PROVE i \in P
  <2>1. Len(<< >>) = 0 /\ << >> \in Seq(Byte) /\ 0 <= (n + 1) - i
    BY <1>2
  <2> QED
    BY <1>4, <2>1
<1>5. ASSUME NEW i \in 1 .. n, NEW j \in i + 1 .. n + 1, j \in P, NEW e \in Byte,
             z[i] = <<e>> \o z[j]
      PROVE  i \in P
  <2>1. z[j] \in Seq(Byte) /\ Len(z[j]) <= (n + 1) - j
    BY <1>5
  <2>2. z[i] \in Seq(Byte) /\ Len(z[i]) = Len(z[j]) + 1 /\ Len(z[j]) \in Nat
    BY <1>5, <2>1, Prefixed
  <2>3. Len(z[i]) <= (n + 1) - i /\ i \in 1 .. n + 1
    <3> HIDE DEF n
    <3> QED
      BY <1>2, <2>1, <2>2
  <2> QED
    BY <2>2, <2>3
<1>6. n + 1 \in P
  <2>1. n + 1 \in 1 .. n + 1
    BY <1>2
  <2>2. z[n + 1] = << >>
    <3>1. ValueAt(z, s, << >>, n + 1)
      BY <1>1, <2>1, UnescapedAt
    <3> QED
      BY <3>1 DEF ValueAt
  <2> QED
    BY <1>4, <2>1, <2>2
<1>7. ASSUME NEW i \in 1 .. n, \A j \in i + 1 .. n + 1 : j \in P PROVE i \in P
  <2>1. i \in 1 .. n + 1 /\ i <= n
    BY <1>2
  <2>2. /\ s[i] # "b" => z[i] = <<s[i]>> \o z[i + 1]
        /\ i = n /\ s[i] = "b" => z[i] = << >>
        /\ i < n /\ s[i] = "b" /\ IsDDD(s, i) => z[i] = <<"n">> \o z[i + 4]
        /\ i < n /\ s[i] = "b" /\ ~IsDDD(s, i) => z[i] = <<s[i + 1]>> \o z[i + 2]
    <3>1. ValueAt(z, s, << >>, i)
      BY <1>1, <2>1, UnescapedAt
    <3> QED
      BY <2>1, <3>1 DEF ValueAt
  <2> HIDE DEF P
  <2>3. CASE s[i] # "b"
    <3>1. i + 1 \in i + 1 .. n + 1 /\ s[i] \in Byte
      BY <1>2, <1>3
    <3> QED
      BY <1>5, <1>7, <2>2, <2>3, <3>1
  <2>4. CASE i = n /\ s[i] = "b"
    BY <1>4, <2>1, <2>2, <2>4
  <2>5. CASE i < n /\ s[i] = "b" /\ IsDDD(s, i)
    <3>1. i + 4 \in i + 1 .. n + 1 /\ "n" \in Byte
      BY <1>2, <2>5 DEF IsDDD, Byte
    <3> QED
      BY <1>5, <1>7, <2>2, <2>5, <3>1
  <2>6. CASE i < n /\ s[i] = "b" /\ ~IsDDD(s, i)
    <3>1. i + 2 \in i + 1 .. n + 1 /\ s[i + 1] \in Byte
      BY <1>2, <1>3, <2>6
    <3> QED
      BY <1>5, <1>7, <2>2, <2>6, <3>1
  <2> QED
    BY <1>2, <2>3, <2>4, <2>5, <2>6
<1>8. Short(z[1], 1)
  <2>1. 1 \in P
    <3> HIDE DEF P, n
    <3>1. \A i \in 1 .. n + 1 : i \in P
      BY <1>2, <1>6, <1>7, Downwards
    <3> QED
      BY <1>2, <3>1
  <2> QED
    BY <2>1
<1>9. (n + 1) - 1 = n
  BY <1>2
<1> QED
  BY <1>1, <1>8, <1>9

\* A text without a backslash stays as it is.
LEMMA PackPlain ==
  ASSUME NEW s \in Seq(Byte), \A i \in 1 .. Len(s) : s[i] # "b"
  PROVE  packTxtString(s) = s
<1> DEFINE n == Len(s)
<1>1. PICK z : Unescaped(z, s, << >>) /\ packTxtString(s) = z[1]
  BY PackIsUnescaped
<1>2. n \in Nat
  OBVIOUS
<1> DEFINE P == {i \in 1 .. n + 1 : z[i] = SubSeq(s, i, n)}
<1>3. n + 1 \in P
  <2>1. n + 1 \in 1 .. n + 1
    BY <1>2
  <2>2. z[n + 1] = << >>
    <3>1. ValueAt(z, s, << >>, n + 1)
      BY <1>1, <2>1, UnescapedAt
    <3> QED
      BY <3>1 DEF ValueAt
  <2>3. SubSeq(s, n + 1, n) = << >>
    BY <1>2
  <2> QED
    BY <2>1, <2>2, <2>3
<1>4. ASSUME NEW i \in 1 .. n, \A j \in i + 1 .. n + 1 : j \in P PROVE i \in P
  <2>1. i \in 1 .. n + 1 /\ i <= n /\ i + 1 \in i + 1 .. n + 1
    BY <1>2
  <2>2. z[i] = <<s[i]>> \o z[i + 1]
    <3>1. ValueAt(z, s, << >>, i)
      BY <1>1, <2>1, UnescapedAt
    <3> QED
      BY <2>1, <3>1 DEF ValueAt
  <2>3. z[i + 1] = SubSeq(s, i + 1, n)
    BY <1>4, <2>1
  <2>4. SubSeq(s, i, n) = <<s[i]>> \o SubSeq(s, i + 1, n)
    BY SubSeqRecursiveFirst
  <2> QED
    BY <2>1, <2>2, <2>3, <2>4
<1>5. 1 \in P
  <2> HIDE DEF P, n
  <2>1. \A i \in 1 .. n + 1 : i \in P
    BY <1>2, <1>3, <1>4, Downwards
  <2> QED
    BY <1>2, <2>1
<1>6. SubSeq(s, 1, n) = s
  BY SubSeqFull
<1> QED
  BY <1>1, <1>5, <1>6

-----------------------------------------------------------------------------

(***************************************************************************)
(* Sequences of sequences laid end to end.                                 *)
(***************************************************************************)

\* The first i of them, for each i.
Flattening(z, q) ==
  z = [i \in 1 .. Len(q) |-> IF i = 1 THEN q[i] ELSE z[i - 1] \o q[i]]

\* There are such.
LEMMA FlatteningExists ==
  ASSUME NEW T, NEW q \in Seq(Seq(T)), q # << >>
  PROVE  \E z : Flattening(z, q)
<1> DEFINE n == Len(q) - 1
           S == Seq(T)
           G == [i \in 1 .. n |-> [x \in S |-> x \o q[i + 1]]]
           first == q[1]
<1>1. n \in Nat /\ n + 1 = Len(q)
  OBVIOUS
<1>2. first \in S /\ \A i \in 1 .. n : q[i + 1] \in S
  BY <1>1
<1> HIDE DEF n
<1>3. G \in [1 .. n -> [S -> S]]
  <2>1. \A x, y \in Seq(T) : x \o y \in Seq(T)
    OBVIOUS
  <2> QED
    BY <1>2, <2>1
<1>4. \A i \in 1 .. n : \A x \in S : G[i][x] = x \o q[i + 1]
  OBVIOUS
<1> HIDE DEF G, S, first
<1>5. PICK y : GoesUpward(y, S, first, n, G)
  <2>1. UpwardRule(S, first, n, G)
    BY <1>1, <1>2, <1>3 DEF UpwardRule
  <2> QED
    BY <2>1, UpwardFunction
<1>6. \A i \in 1 .. n : y[i - 1] \in S /\ y[i] = G[i][y[i - 1]]
  BY <1>1, <1>5 DEF GoesUpward
<1>7. \A i \in 1 .. n : y[i] = y[i - 1] \o q[i + 1]
  BY <1>4, <1>6
<1>8. y[0] = q[1]
  BY <1>5 DEF GoesUpward, first
<1> DEFINE z == [i \in 1 .. Len(q) |-> y[i - 1]]
<1>9. \A i \in 1 .. Len(q) : z[i] = IF i = 1 THEN q[i] ELSE z[i - 1] \o q[i]
  <2> TAKE i \in 1 .. Len(q)
  <2>1. CASE i = 1
    BY <1>8, <2>1
  <2>2. CASE i # 1
    <3>1. i - 1 \in 1 .. n /\ (i - 1) + 1 = i /\ i - 1 \in 1 .. Len(q)
      BY <1>1, <2>2
    <3>2. y[i - 1] = y[(i - 1) - 1] \o q[i]
      BY <1>7, <3>1
    <3>3. z[i] = y[i - 1] /\ z[i - 1] = y[(i - 1) - 1]
      BY <3>1
    <3> QED
      BY <2>2, <3>2, <3>3
  <2> QED
    BY <2>1, <2>2
<1>10. z = [i \in 1 .. Len(q) |-> z[i]]
  OBVIOUS
<1> HIDE DEF z
<1>11. Flattening(z, q)
  BY <1>9, <1>10 DEF Flattening
<1> QED
  BY <1>11

\* FlattenSeq takes the last.
LEMMA FlattenIsFlattening ==
  ASSUME NEW T, NEW q \in Seq(Seq(T)), q # << >>
  PROVE  \E z : Flattening(z, q) /\ FlattenSeq(q) = z[Len(q)]
<1> DEFINE z == CHOOSE f : f = [i \in 1 .. Len(q) |-> IF i = 1 THEN q[i] ELSE f[i - 1] \o q[i]]
<1>1. PICK y : Flattening(y, q)
  BY FlatteningExists
<1>2. Flattening(z, q)
  BY <1>1, Zenon DEF Flattening
<1>3. Len(q) # 0
  OBVIOUS
<1>4. FlattenSeq(q) = z[Len(q)]
  BY <1>3 DEF FlattenSeq
<1> HIDE DEF z
<1> QED
  BY <1>2, <1>4

\* Values one at a time.
LEMMA FlatteningAt ==
  ASSUME NEW q, NEW z, Flattening(z, q), NEW i \in 1 .. Len(q)
  PROVE  z[i] = IF i = 1 THEN q[i] ELSE z[i - 1] \o q[i]
BY DEF Flattening

LEMMA FlattenEmpty == FlattenSeq(<< >>) = << >>
<1>1. Len(<< >>) = 0
  OBVIOUS
<1> QED
  BY <1>1 DEF FlattenSeq

LEMMA FlattenType ==
  ASSUME NEW T, NEW q \in Seq(Seq(T))
  PROVE  FlattenSeq(q) \in Seq(T)
<1>1. CASE q = << >>
  <2>1. << >> \in Seq(T)
    OBVIOUS
  <2> QED
    BY <1>1, <2>1, FlattenEmpty
<1>2. CASE q # << >>
  <2>1. PICK z : Flattening(z, q) /\ FlattenSeq(q) = z[Len(q)]
    BY <1>2, FlattenIsFlattening
  <2> DEFINE n == Len(q)
             P == {i \in 0 .. n : i # 0 => z[i] \in Seq(T)}
  <2>2. n \in Nat /\ n # 0
    BY <1>2
  <2>3. 0 \in P
    BY <2>2
  <2>4. ASSUME NEW i \in 1 .. n, i - 1 \in P PROVE i \in P
    <3>1. z[i] = IF i = 1 THEN q[i] ELSE z[i - 1] \o q[i]
      BY <2>1, FlatteningAt
    <3>2. q[i] \in Seq(T) /\ i \in 0 .. n
      OBVIOUS
    <3>3. CASE i = 1
      BY <3>1, <3>2, <3>3
    <3>4. CASE i # 1
      <4>0. i - 1 # 0
        BY <2>2, <3>4
      <4>1. z[i] = z[i - 1] \o q[i] /\ z[i - 1] \in Seq(T)
        BY <2>4, <3>1, <3>4, <4>0
      <4>2. \A x, y \in Seq(T) : x \o y \in Seq(T)
        OBVIOUS
      <4>3. z[i] \in Seq(T)
        BY <3>2, <4>1, <4>2
      <4> QED
        BY <3>2, <4>3
    <3> QED
      BY <3>3, <3>4
  <2>5. n \in P
    <3> HIDE DEF P, n
    <3>1. \A i \in 0 .. n : i \in P
      BY <2>2, <2>3, <2>4, Upwards
    <3> QED
      BY <2>2, <3>1
  <2> QED
    BY <2>1, <2>2, <2>5
<1> QED
  BY <1>1, <1>2

\* One more sequence is put at the end.
LEMMA FlattenStep ==
  ASSUME NEW T, NEW q \in Seq(Seq(T)), NEW r \in Seq(Seq(T)), Len(r) = Len(q) + 1,
         \A i \in 1 .. Len(q) : r[i] = q[i]
  PROVE  FlattenSeq(r) = FlattenSeq(q) \o r[Len(q) + 1]
<1> DEFINE n == Len(q)
<1>0. n \in Nat /\ r # << >>
  OBVIOUS
<1>1. PICK z : Flattening(z, r) /\ FlattenSeq(r) = z[n + 1]
  BY <1>0, FlattenIsFlattening
<1>2. n + 1 \in 1 .. Len(r) /\ r[n + 1] \in Seq(T)
  OBVIOUS
<1>3. z[n + 1] = IF n + 1 = 1 THEN r[n + 1] ELSE z[(n + 1) - 1] \o r[n + 1]
  BY <1>1, <1>2, FlatteningAt
<1>4. CASE q = << >>
  <2>1. z[n + 1] = r[n + 1] /\ FlattenSeq(q) = << >>
    BY <1>3, <1>4, FlattenEmpty
  <2> QED
    BY <1>1, <1>2, <2>1
<1>5. CASE q # << >>
  <2>1. PICK y : Flattening(y, q) /\ FlattenSeq(q) = y[n]
    BY <1>5, FlattenIsFlattening
  <2> DEFINE P == {i \in 0 .. n : i # 0 => y[i] = z[i]}
  <2>2. 0 \in P
    BY <1>0
  <2>3. ASSUME NEW i \in 1 .. n, i - 1 \in P PROVE i \in P
    <3>1. y[i] = IF i = 1 THEN q[i] ELSE y[i - 1] \o q[i]
      BY <2>1, FlatteningAt
    <3>2. i \in 1 .. Len(r) /\ r[i] = q[i] /\ i \in 0 .. n
      BY <1>0
    <3>3. z[i] = IF i = 1 THEN r[i] ELSE z[i - 1] \o r[i]
      BY <1>1, <3>2, FlatteningAt
    <3>4. i # 1 => y[i - 1] = z[i - 1]
      BY <2>3
    <3> QED
      BY <3>1, <3>2, <3>3, <3>4
  <2>4. n \in P
    <3> HIDE DEF P, n
    <3>1. \A i \in 0 .. n : i \in P
      BY <1>0, <2>2, <2>3, Upwards
    <3> QED
      BY <1>0, <3>1
  <2>5. n # 0 /\ (n + 1) - 1 = n /\ n + 1 # 1
    BY <1>0, <1>5
  <2>6. y[n] = z[n]
    BY <2>4, <2>5
  <2>7. z[n + 1] = z[n] \o r[n + 1]
    BY <1>3, <2>5
  <2> QED
    BY <1>1, <2>1, <2>6, <2>7
<1> QED
  BY <1>4, <1>5

\* The same for Append.
LEMMA FlattenAppend ==
  ASSUME NEW T, NEW q \in Seq(Seq(T)), NEW x \in Seq(T)
  PROVE  FlattenSeq(Append(q, x)) = FlattenSeq(q) \o x
<1> DEFINE r == Append(q, x)
<1>1. /\ r \in Seq(Seq(T)) /\ Len(r) = Len(q) + 1 /\ r[Len(q) + 1] = x
      /\ \A i \in 1 .. Len(q) : r[i] = q[i]
  BY AppendProperties
<1> HIDE DEF r
<1>2. FlattenSeq(r) = FlattenSeq(q) \o r[Len(q) + 1]
  BY <1>1, FlattenStep
<1> QED
  BY <1>1, <1>2 DEF r

\* The first i of a sequence.
First(q, i) == SubSeq(q, 1, i)

LEMMA FirstStep ==
  ASSUME NEW T, NEW q \in Seq(T), NEW i \in 1 .. Len(q)
  PROVE  /\ First(q, i - 1) \in Seq(T) /\ q[i] \in T
         /\ First(q, i) = Append(First(q, i - 1), q[i])
<1>1. \A k \in 1 .. i - 1 : q[k] \in T
  OBVIOUS
<1>2. SubSeq(q, 1, i - 1) \in Seq(T)
  BY <1>1, SubSeqProperties
<1>3. SubSeq(q, 1, i) = SubSeq(q, 1, i - 1) \o <<q[i]>>
  <2>1. 1 \in 1 .. Len(q) /\ i \in 1 .. Len(q)
    OBVIOUS
  <2> QED
    BY <2>1, SubSeqRecursiveSecond
<1>4. q[i] \in T
  OBVIOUS
<1> QED
  BY <1>2, <1>3, <1>4, AppendIsConcat DEF First

LEMMA FirstNoneAll ==
  ASSUME NEW T, NEW q \in Seq(T)
  PROVE  First(q, 0) = << >> /\ First(q, Len(q)) = q
BY SubSeqFull, SubSeqEmpty DEF First

LEMMA AppendToConcat ==
  ASSUME NEW T, NEW p \in Seq(T), NEW q \in Seq(T), NEW e \in T
  PROVE  p \o Append(q, e) = Append(p \o q, e)
OBVIOUS

\* Two such sequences in a row.
LEMMA FlattenConcat ==
  ASSUME NEW T, NEW p \in Seq(Seq(T)), NEW q \in Seq(Seq(T))
  PROVE  FlattenSeq(p \o q) = FlattenSeq(p) \o FlattenSeq(q)
<1> DEFINE n == Len(q)
           P == {i \in 0 .. n : FlattenSeq(p \o First(q, i)) = FlattenSeq(p) \o FlattenSeq(First(q, i))}
<1>1. n \in Nat
  OBVIOUS
<1>2. 0 \in P
  <2>1. FlattenSeq(p) \in Seq(T)
    BY FlattenType
  <2>2. p \o << >> = p /\ FlattenSeq(p) \o << >> = FlattenSeq(p)
    BY <2>1, ConcatEmptySeq
  <2>3. First(q, 0) = << >>
    BY FirstNoneAll
  <2>4. FlattenSeq(p \o First(q, 0)) = FlattenSeq(p) \o FlattenSeq(First(q, 0))
    BY <2>2, <2>3, FlattenEmpty
  <2> QED
    BY <1>1, <2>4
<1>3. ASSUME NEW i \in 1 .. n, i - 1 \in P PROVE i \in P
  <2> DEFINE u == First(q, i - 1)
             x == q[i]
  <2>1. u \in Seq(Seq(T)) /\ x \in Seq(T) /\ First(q, i) = Append(u, x)
    BY FirstStep
  <2>2. FlattenSeq(p \o u) = FlattenSeq(p) \o FlattenSeq(u)
    BY <1>3
  <2> HIDE DEF u, x
  <2>3. p \o Append(u, x) = Append(p \o u, x) /\ p \o u \in Seq(Seq(T))
    BY <2>1, AppendToConcat, ConcatProperties, SMTT(30)
  <2>4. FlattenSeq(Append(u, x)) = FlattenSeq(u) \o x
    BY <2>1, FlattenAppend
  <2>5. FlattenSeq(Append(p \o u, x)) = FlattenSeq(p \o u) \o x
    BY <2>1, <2>3, FlattenAppend
  <2>6. FlattenSeq(p) \in Seq(T) /\ FlattenSeq(u) \in Seq(T)
    BY <2>1, FlattenType
  <2>7. (FlattenSeq(p) \o FlattenSeq(u)) \o x = FlattenSeq(p) \o (FlattenSeq(u) \o x)
    <3>1. \A a, b, c \in Seq(T) : (a \o b) \o c = a \o (b \o c)
      BY SMTT(30)
    <3>2. \A b \in Seq(T) : (FlattenSeq(p) \o b) \o x = FlattenSeq(p) \o (b \o x)
      BY <2>1, <2>6, <3>1
    <3> QED
      BY <2>6, <3>2
  <2>8. FlattenSeq(p \o First(q, i)) = FlattenSeq(p) \o FlattenSeq(First(q, i))
    BY <2>1, <2>2, <2>3, <2>4, <2>5, <2>7
  <2> QED
    BY <1>1, <2>8
<1>4. n \in P
  <2> HIDE DEF P, n
  <2>1. \A i \in 0 .. n : i \in P
    BY <1>1, <1>2, <1>3, Upwards
  <2> QED
    BY <1>1, <2>1
<1> QED
  BY <1>4, FirstNoneAll

\* Where the j-th of them lies.
Before(q, j) == Len(FlattenSeq(First(q, j - 1)))

LEMMA FlattenAt ==
  ASSUME NEW T, NEW q \in Seq(Seq(T)), NEW j \in 1 .. Len(q)
  PROVE  /\ Before(q, j) \in Nat /\ Before(q, j + 1) = Before(q, j) + Len(q[j])
         /\ Before(q, j) + Len(q[j]) <= Len(FlattenSeq(q))
         /\ \A k \in 1 .. Len(q[j]) : FlattenSeq(q)[Before(q, j) + k] = q[j][k]
<1> DEFINE u == First(q, j - 1)
           v == SubSeq(q, j + 1, Len(q))
           x == q[j]
<1>1. u \in Seq(Seq(T)) /\ x \in Seq(T) /\ First(q, j) = Append(u, x)
  BY FirstStep
<1>2. v \in Seq(Seq(T))
  <2>1. \A k \in j + 1 .. Len(q) : q[k] \in Seq(T)
    OBVIOUS
  <2> QED
    BY <2>1, SubSeqProperties
<1>3. q = First(q, j) \o v
  <2>1. 1 \in 1 .. Len(q) + 1 /\ j \in 1 - 1 .. Len(q) /\ Len(q) \in j .. Len(q)
    OBVIOUS
  <2>2. SubSeq(q, 1, j) \o SubSeq(q, j + 1, Len(q)) = SubSeq(q, 1, Len(q))
    BY <2>1, ConcatAdjacentSubSeq
  <2> QED
    BY <2>2, SubSeqFull DEF First
<1>4. (j + 1) - 1 = j
  OBVIOUS
<1> HIDE DEF u, v, x
<1>5. Append(u, x) \in Seq(Seq(T)) /\ FlattenSeq(Append(u, x)) = FlattenSeq(u) \o x
  BY <1>1, AppendProperties, FlattenAppend, SMTT(30)
<1>6. FlattenSeq(q) = (FlattenSeq(u) \o x) \o FlattenSeq(v)
  BY <1>1, <1>2, <1>3, <1>5, FlattenConcat, ZenonT(60)
<1>7. FlattenSeq(u) \in Seq(T) /\ FlattenSeq(v) \in Seq(T)
  BY <1>1, <1>2, FlattenType
<1>8. Before(q, j) = Len(FlattenSeq(u)) /\ Before(q, j + 1) = Len(FlattenSeq(u) \o x)
  BY <1>1, <1>4, <1>5 DEF Before, u
<1> DEFINE a == FlattenSeq(u)
           c == FlattenSeq(v)
<1> HIDE DEF a, c
<1>9. a \in Seq(T) /\ x \in Seq(T) /\ c \in Seq(T) /\ FlattenSeq(q) = (a \o x) \o c
  BY <1>1, <1>6, <1>7 DEF a, c
<1>10. /\ Len(a) \in Nat /\ Len(a \o x) = Len(a) + Len(x)
       /\ Len(a) + Len(x) <= Len((a \o x) \o c)
       /\ \A k \in 1 .. Len(x) : ((a \o x) \o c)[Len(a) + k] = x[k]
  BY <1>9
<1> QED
  BY <1>8, <1>9, <1>10 DEF a, c, x

-----------------------------------------------------------------------------

(***************************************************************************)
(* What decodeTXTStrings makes of what the library unpacked.               *)
(***************************************************************************)

\* The presentation form of one byte.
Escaped(b) ==
  CASE b = "n" -> <<"b", "d", "d", "d">>
    [] b \in {"q", "b"} -> <<"b", b>>
    [] OTHER -> <<b>>

LEMMA EscapedCases ==
  ASSUME NEW b \in Byte
  PROVE  /\ Escaped(b) \in Seq(Byte)
         /\ b = "n" => Escaped(b) = <<"b", "d", "d", "d">>
         /\ b \in {"q", "b"} => Escaped(b) = <<"b", b>>
         /\ b \notin {"n", "q", "b"} => Escaped(b) = <<b>>
<1>1. CASE b = "n"
  <2>1. Escaped(b) = <<"b", "d", "d", "d">>
    BY <1>1 DEF Escaped
  <2>2. <<"b", "d", "d", "d">> \in Seq(Byte)
    BY DEF Byte
  <2> QED
    BY <1>1, <2>1, <2>2
<1>2. CASE b \in {"q", "b"}
  <2>1. Escaped(b) = <<"b", b>>
    BY <1>2 DEF Escaped
  <2>2. <<"b", b>> \in Seq(Byte)
    BY DEF Byte
  <2> QED
    BY <1>2, <2>1, <2>2
<1>3. CASE b \notin {"n", "q", "b"}
  <2>1. Escaped(b) = <<b>>
    BY <1>3 DEF Escaped
  <2>2. <<b>> \in Seq(Byte)
    OBVIOUS
  <2> QED
    BY <1>3, <2>1, <2>2
<1> QED
  BY <1>1, <1>2, <1>3

LEMMA UnpackIsEscaped ==
  ASSUME NEW w \in Seq(Byte)
  PROVE  \E q \in Seq(Seq(Byte)) :
           /\ Len(q) = Len(w) /\ unpackTxtString(w) = FlattenSeq(q)
           /\ \A i \in 1 .. Len(w) : q[i] = Escaped(w[i])
<1> DEFINE q == [i \in 1 .. Len(w) |-> Escaped(w[i])]
<1>1. unpackTxtString(w) = FlattenSeq(q)
  BY DEF unpackTxtString, Escaped
<1>2. \A i \in 1 .. Len(w) : w[i] \in Byte /\ Escaped(w[i]) \in Seq(Byte)
  BY EscapedCases
<1>3. q \in Seq(Seq(Byte)) /\ Len(q) = Len(w) /\ \A i \in 1 .. Len(w) : q[i] = Escaped(w[i])
  BY <1>2
<1> HIDE DEF q
<1> QED
  BY <1>1, <1>3

\* Decoding undoes one byte's presentation form wherever it lies.
LEMMA DecodeOne ==
  ASSUME NEW c \in Seq(Byte), NEW z, Unescaped(z, c, <<Malformed>>), NEW b \in Byte,
         NEW o \in Nat, o + Len(Escaped(b)) <= Len(c),
         \A k \in 1 .. Len(Escaped(b)) : c[o + k] = Escaped(b)[k]
  PROVE  z[o + 1] = <<b>> \o z[(o + Len(Escaped(b))) + 1]
<1> DEFINE i == o + 1
           n == Len(c)
<1>1. n \in Nat
  OBVIOUS
<1>2. CASE b = "n"
  <2>1. Escaped(b) = <<"b", "d", "d", "d">> /\ Len(Escaped(b)) = 4
    BY <1>2, EscapedCases
  <2>2. c[o + 1] = "b" /\ c[o + 2] = "d" /\ c[o + 3] = "d" /\ c[o + 4] = "d" /\ o + 4 <= n
    BY <2>1
  <2>3. i \in 1 .. n + 1 /\ i < n /\ c[i] = "b" /\ IsDDD(c, i)
    <3>1. \A j \in i + 1 .. i + 3 : j = o + 2 \/ j = o + 3 \/ j = o + 4
      OBVIOUS
    <3> QED
      BY <1>1, <2>2, <3>1 DEF IsDDD
  <2>4. ValueAt(z, c, <<Malformed>>, i)
    BY <2>3, UnescapedAt
  <2>5. z[i] = <<"n">> \o z[i + 4]
    BY <2>3, <2>4 DEF ValueAt
  <2>6. i + 4 = (o + 4) + 1
    OBVIOUS
  <2> QED
    BY <1>2, <2>1, <2>5, <2>6
<1>3. CASE b \in {"q", "b"}
  <2>1. Escaped(b) = <<"b", b>> /\ Len(Escaped(b)) = 2
    BY <1>3, EscapedCases
  <2>2. c[o + 1] = "b" /\ c[o + 2] = b /\ o + 2 <= n
    BY <2>1
  <2>3. i \in 1 .. n + 1 /\ i < n /\ c[i] = "b" /\ c[i + 1] = b /\ ~IsDDD(c, i)
    <3>1. i + 1 = o + 2 /\ i + 1 \in i + 1 .. i + 3 /\ b # "d"
      BY <1>3
    <3> QED
      BY <1>1, <2>2, <3>1 DEF IsDDD
  <2>4. ValueAt(z, c, <<Malformed>>, i)
    BY <2>3, UnescapedAt
  <2>5. z[i] = <<b>> \o z[i + 2]
    BY <2>3, <2>4 DEF ValueAt
  <2>6. i + 2 = (o + 2) + 1
    OBVIOUS
  <2> QED
    BY <2>1, <2>5, <2>6
<1>4. CASE b \notin {"n", "q", "b"}
  <2>1. Escaped(b) = <<b>> /\ Len(Escaped(b)) = 1
    BY <1>4, EscapedCases
  <2>2. c[o + 1] = b /\ o + 1 <= n
    BY <2>1
  <2>3. i \in 1 .. n + 1 /\ i <= n /\ c[i] = b /\ b # "b"
    BY <1>1, <1>4, <2>2
  <2>4. ValueAt(z, c, <<Malformed>>, i)
    BY <2>3, UnescapedAt
  <2>5. z[i] = <<b>> \o z[i + 1]
    BY <2>3, <2>4 DEF ValueAt
  <2> QED
    BY <2>1, <2>5
<1> QED
  BY <1>2, <1>3, <1>4

\* The loop over the bytes of a chunk gives back the character string that
\* came over the wire.
LEMMA DecodeInvertsUnpack ==
  ASSUME NEW w \in Seq(Byte)
  PROVE  DecodeChunk(unpackTxtString(w)) = w
<1> DEFINE n == Len(w)
           c == unpackTxtString(w)
<1>1. PICK q \in Seq(Seq(Byte)) : /\ Len(q) = Len(w) /\ unpackTxtString(w) = FlattenSeq(q)
                                  /\ \A i \in 1 .. Len(w) : q[i] = Escaped(w[i])
  BY UnpackIsEscaped
<1>2. c \in Seq(Byte)
  BY <1>1, FlattenType
<1>3. PICK z : Unescaped(z, c, <<Malformed>>) /\ DecodeChunk(c) = z[1]
  BY <1>2, DecodeIsUnescaped
<1>4. n \in Nat /\ Len(c) \in Nat
  BY <1>2
<1> DEFINE P == {j \in 1 .. n + 1 : z[Before(q, j) + 1] = SubSeq(w, j, n)}
<1>5. n + 1 \in P
  <2>1. First(q, n) = q /\ (n + 1) - 1 = n
    BY <1>1, FirstNoneAll
  <2>2. Before(q, n + 1) = Len(c)
    BY <1>1, <2>1 DEF Before
  <2>3. z[Len(c) + 1] = << >>
    <3>1. Len(c) + 1 \in 1 .. Len(c) + 1
      BY <1>4
    <3>2. ValueAt(z, c, <<Malformed>>, Len(c) + 1)
      BY <1>2, <1>3, <3>1, UnescapedAt
    <3> QED
      BY <3>2 DEF ValueAt
  <2>4. SubSeq(w, n + 1, n) = << >>
    BY <1>4
  <2>5. z[Before(q, n + 1) + 1] = SubSeq(w, n + 1, n)
    BY <2>2, <2>3, <2>4, Zenon
  <2>6. n + 1 \in 1 .. n + 1
    BY <1>4
  <2> HIDE DEF n, c
  <2> QED
    BY <2>5, <2>6, Zenon
<1>6. ASSUME NEW j \in 1 .. n, \A k \in j + 1 .. n + 1 : k \in P PROVE j \in P
  <2> DEFINE o == Before(q, j)
             b == w[j]
  <2>1. j \in 1 .. Len(q) /\ b \in Byte /\ q[j] = Escaped(b)
    BY <1>1
  <2>2. /\ o \in Nat /\ Before(q, j + 1) = o + Len(Escaped(b)) /\ o + Len(Escaped(b)) <= Len(c)
        /\ \A k \in 1 .. Len(Escaped(b)) : c[o + k] = Escaped(b)[k]
    BY <1>1, <2>1, FlattenAt
  <2>3. z[o + 1] = <<b>> \o z[(o + Len(Escaped(b))) + 1]
    <3> HIDE DEF o, b, c
    <3> QED
      BY <1>2, <1>3, <2>1, <2>2, DecodeOne
  <2>4. j + 1 \in P /\ j \in 1 .. n + 1
    BY <1>4, <1>6
  <2>5. z[o + 1] = <<w[j]>> \o SubSeq(w, j + 1, n)
    BY <2>2, <2>3, <2>4
  <2>6. SubSeq(w, j, n) = <<w[j]>> \o SubSeq(w, j + 1, n)
    BY SubSeqRecursiveFirst
  <2> QED
    BY <2>4, <2>5, <2>6
<1>7. 1 \in P
  <2> HIDE DEF P, n
  <2>1. \A i \in 1 .. n + 1 : i \in P
    BY <1>4, <1>5, <1>6, Downwards
  <2> QED
    BY <1>4, <2>1
<1>8. Before(q, 1) = 0
  <2>1. First(q, 1 - 1) = << >>
    BY FirstNoneAll
  <2> QED
    BY <2>1, FlattenEmpty DEF Before
<1>9. SubSeq(w, 1, n) = w
  BY SubSeqFull
<1> QED
  BY <1>3, <1>7, <1>8, <1>9

\* Of the strings of a packet decodeTXTStrings makes the text they are cut from.
LEMMA DecodeIsText ==
  ASSUME NEW q \in Seq(Seq(Byte))
  PROVE  /\ FlattenSeq(q) \in Seq(Byte)
         /\ decodeTXTStrings([i \in DOMAIN q |-> unpackTxtString(q[i])]) = FlattenSeq(q)
<1> DEFINE chunks == [i \in DOMAIN q |-> unpackTxtString(q[i])]
<1>1. DOMAIN q = 1 .. Len(q) /\ Len(q) \in Nat
  OBVIOUS
<1>2. Len(chunks) = Len(q) /\ \A i \in 1 .. Len(q) : chunks[i] = unpackTxtString(q[i])
  BY <1>1
<1> HIDE DEF chunks
<1>3. \A i \in 1 .. Len(q) : DecodeChunk(chunks[i]) = q[i]
  BY <1>2, DecodeInvertsUnpack
<1>4. [i \in 1 .. Len(chunks) |-> DecodeChunk(chunks[i])] = q
  BY <1>1, <1>2, <1>3
<1>5. FlattenSeq(q) \in Seq(Byte)
  BY FlattenType
<1>6. ~\E i \in DOMAIN FlattenSeq(q) : FlattenSeq(q)[i] = Malformed
  <2>1. \A i \in DOMAIN FlattenSeq(q) : FlattenSeq(q)[i] \in Byte
    BY <1>5
  <2> QED
    BY <2>1, TxtCodecAssumption
<1>7. decodeTXTStrings(chunks) = FlattenSeq(q)
  BY <1>4, <1>6, Zenon DEF decodeTXTStrings
<1> QED
  BY <1>5, <1>7 DEF chunks

-----------------------------------------------------------------------------

(***************************************************************************)
(* RRs and their lengths.                                                  *)
(***************************************************************************)

RR == [soa : Int \cup {NoSerial}, owner : Nat, txt : Seq(Seq(Byte))]

\* AppendToConcat for messages.
LEMMA AppendMessage ==
  ASSUME NEW p \in Seq(Seq(RR)), NEW q \in Seq(Seq(RR)), NEW m \in Seq(RR)
  PROVE  p \o Append(q, m) = Append(p \o q, m)
BY AppendToConcat

LEMMA SOAType ==
  ASSUME NEW s \in Int
  PROVE  soa(s) \in RR /\ soa(s).soa = s /\ s # NoSerial
<1>1. << >> \in Seq(Seq(Byte))
  OBVIOUS
<1> QED
  BY <1>1, JobsAssumption DEF soa, RR

LEMMA TXTRRType == TXTRR \subseteq RR
BY DEF TXTRR, RR

\* Lengths of strings, kept and packed.
KeptLens(rr) == [i \in DOMAIN rr.txt |-> Len(rr.txt[i]) + 1]

WireLens(rr) == [i \in DOMAIN rr.txt |-> Len(packTxtString(rr.txt[i])) + 1]

\* On the wire an RR is not longer than dns.Len says.
LEMMA Lengths ==
  ASSUME NEW rr \in RR
  PROVE  RRLen(rr) \in Nat /\ WireLen(rr) \in Nat /\ WireLen(rr) <= RRLen(rr)
<1>1. SOALen \in Nat /\ NameLen \in Nat
  BY StreamAssumption
<1>2. CASE rr.soa # NoSerial
  BY <1>1, <1>2 DEF RRLen, WireLen
<1>3. CASE rr.soa = NoSerial
  <2> DEFINE t == rr.txt
             a == WireLens(rr)
             b == KeptLens(rr)
  <2>1. t \in Seq(Seq(Byte))
    BY DEF RR
  <2>2. DOMAIN t = 1 .. Len(t) /\ Len(t) \in Nat /\ \A i \in 1 .. Len(t) : t[i] \in Seq(Byte)
    BY <2>1
  <2>3. \A i \in 1 .. Len(t) : /\ Len(t[i]) + 1 \in Nat /\ Len(packTxtString(t[i])) + 1 \in Nat
                               /\ Len(packTxtString(t[i])) + 1 <= Len(t[i]) + 1
    <3> TAKE i \in 1 .. Len(t)
    <3> DEFINE u == t[i]
               v == packTxtString(u)
    <3>1. u \in Seq(Byte) /\ v \in Seq(Byte) /\ Len(v) <= Len(u)
      BY <2>2, PackShrinks
    <3> HIDE DEF u, v
    <3>2. Len(u) + 1 \in Nat /\ Len(v) + 1 \in Nat /\ Len(v) + 1 <= Len(u) + 1
      BY <3>1
    <3> QED
      BY <3>2 DEF u, v
  <2>4. /\ a \in Seq(Nat) /\ b \in Seq(Nat) /\ Len(a) = Len(b)
        /\ \A i \in 1 .. Len(a) : a[i] <= b[i]
    <3>1. a = [i \in 1 .. Len(t) |-> Len(packTxtString(t[i])) + 1]
      BY <2>2, Zenon DEF WireLens
    <3>2. b = [i \in 1 .. Len(t) |-> Len(t[i]) + 1]
      BY <2>2, Zenon DEF KeptLens
    <3> HIDE DEF a, b, t
    <3> QED
      BY <2>2, <2>3, <3>1, <3>2
  <2>5. Sum(a) \in Nat /\ Sum(b) \in Nat /\ Sum(a) <= Sum(b)
    <3> HIDE DEF a, b
    <3> QED
      BY <2>4, SumMonotone
  <2>6. RRLen(rr) = NameLen + Sum(b) /\ WireLen(rr) = NameLen + Sum(a)
    BY <1>3, Zenon DEF RRLen, WireLen, KeptLens, WireLens
  <2> HIDE DEF a, b
  <2> QED
    BY <1>1, <2>5, <2>6
<1> QED
  BY <1>2, <1>3

\* What the batchers take a message's length to be.
Measured(m) == EmptyLen + Sum([i \in DOMAIN m |-> RRLen(m[i])])

LEMMA MeasuredEmpty == Measured(<< >>) = EmptyLen
<1>1. [i \in DOMAIN << >> |-> RRLen(<< >>[i])] = << >>
  OBVIOUS
<1>2. EmptyLen \in Nat
  BY StreamAssumption DEF EmptyLen
<1> QED
  BY <1>1, <1>2, SumEmpty DEF Measured

LEMMA RRLens ==
  ASSUME NEW m \in Seq(RR)
  PROVE  /\ [i \in DOMAIN m |-> RRLen(m[i])] \in Seq(Nat)
         /\ [i \in DOMAIN m |-> WireLen(m[i])] \in Seq(Nat)
         /\ Len([i \in DOMAIN m |-> RRLen(m[i])]) = Len(m)
         /\ Len([i \in DOMAIN m |-> WireLen(m[i])]) = Len(m)
<1>1. DOMAIN m = 1 .. Len(m) /\ Len(m) \in Nat
  OBVIOUS
<1>2. \A i \in 1 .. Len(m) : RRLen(m[i]) \in Nat /\ WireLen(m[i]) \in Nat
  BY Lengths
<1> QED
  BY <1>1, <1>2

LEMMA MeasuredAppend ==
  ASSUME NEW m \in Seq(RR), NEW rr \in RR
  PROVE  Measured(m) \in Nat /\ Measured(Append(m, rr)) = Measured(m) + RRLen(rr)
<1> DEFINE x == Append(m, rr)
           a == [i \in DOMAIN m |-> RRLen(m[i])]
           b == [i \in DOMAIN x |-> RRLen(x[i])]
<1>1. x \in Seq(RR) /\ Len(x) = Len(m) + 1 /\ x[Len(m) + 1] = rr /\ \A i \in 1 .. Len(m) : x[i] = m[i]
  BY AppendProperties
<1>2. DOMAIN m = 1 .. Len(m) /\ DOMAIN x = 1 .. Len(m) + 1 /\ Len(m) \in Nat
  BY <1>1
<1>3. a \in Seq(Nat) /\ b \in Seq(Nat) /\ Len(a) = Len(m) /\ Len(b) = Len(m) + 1
  <2> HIDE DEF x
  <2> QED
    BY <1>1, RRLens
<1>4. b[Len(m) + 1] = RRLen(rr) /\ \A i \in 1 .. Len(m) : b[i] = a[i]
  <2> HIDE DEF x
  <2> QED
    BY <1>1, <1>2
<1>5. EmptyLen \in Nat /\ Measured(m) = EmptyLen + Sum(a) /\ Measured(x) = EmptyLen + Sum(b)
  BY StreamAssumption DEF EmptyLen, Measured
<1> HIDE DEF a, b, x
<1>6. Sum(b) = Sum(a) + b[Len(b)]
  BY <1>3, <1>4, SumAppend
<1>7. Sum(a) \in Nat /\ \A i \in 1 .. Len(a) : a[i] <= a[i]
  <2>1. \A i \in 1 .. Len(a) : a[i] <= a[i]
    BY <1>3
  <2> QED
    BY <1>3, <2>1, SumMonotone
<1>8. RRLen(rr) \in Nat
  BY Lengths
<1> QED
  BY <1>3, <1>4, <1>5, <1>6, <1>7, <1>8 DEF x

\* A message of one RR, or one that was measured to fit, fits but for that one
\* RR: FixedLen is less than the overhead counted for it.
Within(m) == Len(m) = 1 \/ (Len(m) > 1 /\ Measured(m) <= capBytes)

LEMMA SingleMessage ==
  ASSUME NEW rr \in RR
  PROVE  MsgLen(<<rr>>) = FixedLen + WireLen(rr)
<1> DEFINE m == <<rr>>
           a == [i \in DOMAIN m |-> WireLen(m[i])]
<1>1. m \in Seq(RR) /\ Len(m) = 1 /\ m[1] = rr
  OBVIOUS
<1>2. a \in Seq(Nat) /\ Len(a) = 1
  <2> HIDE DEF m
  <2> QED
    BY <1>1, RRLens
<1>3. a[1] = WireLen(rr)
  BY <1>1
<1>4. MsgLen(m) = FixedLen + Sum(a)
  BY DEF MsgLen
<1> HIDE DEF a, m
<1> DEFINE none == << >>
<1>5. none \in Seq(Nat) /\ Len(none) = 0 /\ Sum(none) = 0
  BY SumEmpty
<1> HIDE DEF none
<1>6. Sum(a) = Sum(none) + a[Len(a)]
  <2>1. Len(a) = Len(none) + 1 /\ \A i \in 1 .. Len(none) : a[i] = none[i]
    BY <1>2, <1>5
  <2> QED
    BY <1>2, <1>5, <2>1, SumAppend
<1>7. WireLen(rr) \in Nat
  BY Lengths
<1> QED
  BY <1>2, <1>3, <1>4, <1>5, <1>6, <1>7 DEF m

LEMMA MsgLenType ==
  ASSUME NEW m \in Seq(RR)
  PROVE  MsgLen(m) \in Nat
<1> DEFINE a == [i \in DOMAIN m |-> WireLen(m[i])]
<1>1. a \in Seq(Nat)
  BY RRLens
<1>2. MsgLen(m) = FixedLen + Sum(a)
  BY DEF MsgLen
<1> HIDE DEF a
<1>3. Sum(a) \in Nat
  BY <1>1, SumMonotone
<1> QED
  BY <1>2, <1>3, StreamAssumption

LEMMA WithinFits ==
  ASSUME NEW m \in Seq(RR), Within(m), MsgLen(m) > MaxMsg
  PROVE  Len(m) = 1 /\ Oversized(m[1])
<1>1. CASE Len(m) = 1
  <2>1. m = <<m[1]>> /\ m[1] \in RR
    BY <1>1
  <2>2. MsgLen(m) = FixedLen + WireLen(m[1])
    BY <2>1, SingleMessage
  <2> QED
    BY <1>1, <2>2 DEF Oversized
<1>2. CASE Len(m) # 1
  <2> DEFINE a == [i \in DOMAIN m |-> WireLen(m[i])]
             b == [i \in DOMAIN m |-> RRLen(m[i])]
  <2>1. a \in Seq(Nat) /\ b \in Seq(Nat) /\ Len(a) = Len(m) /\ Len(b) = Len(m)
    BY RRLens
  <2>2. \A i \in 1 .. Len(m) : a[i] <= b[i]
    <3>1. \A i \in 1 .. Len(m) : m[i] \in RR
      OBVIOUS
    <3>2. \A i \in 1 .. Len(m) : WireLen(m[i]) <= RRLen(m[i])
      BY <3>1, Lengths
    <3> QED
      BY <3>2
  <2>3. MsgLen(m) = FixedLen + Sum(a) /\ Measured(m) = overheadPerMsg + Sum(b)
    BY DEF MsgLen, Measured, EmptyLen
  <2> HIDE DEF a, b
  <2>4. Sum(a) \in Nat /\ Sum(b) \in Nat /\ Sum(a) <= Sum(b)
    BY <2>1, <2>2, SumMonotone
  <2>5. Measured(m) <= capBytes
    BY <1>2 DEF Within
  <2>6. /\ {FixedLen, overheadPerMsg, capBytes, MaxMsg} \subseteq Nat
        /\ FixedLen < overheadPerMsg /\ MaxMsg = capBytes - 1
    BY StreamAssumption
  <2> QED
    BY <2>3, <2>4, <2>5, <2>6
<1> QED
  BY <1>1, <1>2

-----------------------------------------------------------------------------

(***************************************************************************)
(* batchRRs, and the flush loop of a full transfer.                        *)
(***************************************************************************)

\* The three variables of the loop, for RRs from R.
Batching(R) == [out : Seq(Seq(R)), cur : Seq(R), curLen : Nat]

NoneBatched == [out |-> << >>, cur |-> << >>, curLen |-> EmptyLen]

\* What the loop has made of the RRs it has passed.
BatchesOf(acc, past) ==
  /\ acc.curLen = Measured(acc.cur)
  /\ acc.cur = << >> \/ Within(acc.cur)
  /\ \A i \in 1 .. Len(acc.out) : Within(acc.out[i])
  /\ FlattenSeq(acc.out) \o acc.cur = past

LEMMA NoneBatchedType ==
  ASSUME NEW R
  PROVE  NoneBatched \in Batching(R) /\ BatchesOf(NoneBatched, << >>)
<1>1. << >> \in Seq(R) /\ << >> \in Seq(Seq(R)) /\ Len(<< >>) = 0 /\ << >> \o << >> = << >>
  OBVIOUS
<1>2. EmptyLen \in Nat
  BY StreamAssumption DEF EmptyLen
<1> QED
  BY <1>1, <1>2, MeasuredEmpty, FlattenEmpty DEF NoneBatched, Batching, BatchesOf

LEMMA BatchedType ==
  ASSUME NEW R, R \subseteq RR, NEW acc \in Batching(R), NEW rr \in R
  PROVE  Batched(acc, rr) \in Batching(R)
<1>1. /\ acc.out \in Seq(Seq(R)) /\ acc.cur \in Seq(R) /\ acc.curLen \in Nat
      /\ RRLen(rr) \in Nat /\ EmptyLen \in Nat
  BY Lengths, StreamAssumption DEF Batching, EmptyLen
<1>2. CASE Overfull(Len(acc.cur), acc.curLen, rr)
  <2>1. Batched(acc, rr) = [out |-> Append(acc.out, acc.cur), cur |-> <<rr>>, curLen |-> EmptyLen + RRLen(rr)]
    BY <1>2 DEF Batched
  <2>2. Append(acc.out, acc.cur) \in Seq(Seq(R)) /\ <<rr>> \in Seq(R) /\ EmptyLen + RRLen(rr) \in Nat
    BY <1>1
  <2> QED
    BY <2>1, <2>2 DEF Batching
<1>3. CASE ~Overfull(Len(acc.cur), acc.curLen, rr)
  <2>1. Batched(acc, rr) = [acc EXCEPT !.cur = Append(acc.cur, rr), !.curLen = acc.curLen + RRLen(rr)]
    BY <1>3 DEF Batched
  <2>2. Append(acc.cur, rr) \in Seq(R) /\ acc.curLen + RRLen(rr) \in Nat
    BY <1>1
  <2> QED
    BY <2>1, <2>2 DEF Batching
<1> QED
  BY <1>2, <1>3

LEMMA BatchedStep ==
  ASSUME NEW R, R \subseteq RR, NEW acc \in Batching(R), NEW rr \in R, NEW past \in Seq(R),
         BatchesOf(acc, past)
  PROVE  BatchesOf(Batched(acc, rr), Append(past, rr))
<1> DEFINE out == acc.out
           cur == acc.cur
<1>1. out \in Seq(Seq(R)) /\ cur \in Seq(R) /\ acc.curLen \in Nat /\ rr \in RR
  BY DEF Batching
<1>2. cur \in Seq(RR) /\ RRLen(rr) \in Nat /\ EmptyLen \in Nat /\ capBytes \in Nat
  BY <1>1, SeqMonotonic, Lengths, StreamAssumption DEF EmptyLen
<1>3. /\ acc.curLen = Measured(cur) /\ (cur = << >> \/ Within(cur))
      /\ \A i \in 1 .. Len(out) : Within(out[i])
      /\ FlattenSeq(out) \o cur = past
  BY DEF BatchesOf
<1>4. FlattenSeq(out) \in Seq(R)
  BY <1>1, FlattenType
<1>5. CASE Overfull(Len(cur), acc.curLen, rr)
  <2> DEFINE new == Append(out, cur)
  <2>1. /\ Batched(acc, rr).out = new /\ Batched(acc, rr).cur = <<rr>>
        /\ Batched(acc, rr).curLen = EmptyLen + RRLen(rr)
    BY <1>5 DEF Batched
  <2>2. Within(cur)
    BY <1>1, <1>3, <1>5 DEF Overfull
  <2>3. \A i \in 1 .. Len(new) : Within(new[i])
    <3> HIDE DEF out, cur
    <3> QED
      BY <1>1, <1>3, <2>2
  <2>4. Within(<<rr>>)
    BY DEF Within
  <2>5. Measured(<<rr>>) = EmptyLen + RRLen(rr)
    <3> DEFINE none == << >>
    <3>1. none \in Seq(RR) /\ Append(none, rr) = <<rr>> /\ Measured(none) = EmptyLen
      BY MeasuredEmpty
    <3> HIDE DEF none
    <3>2. Measured(Append(none, rr)) = Measured(none) + RRLen(rr)
      BY <1>1, <3>1, MeasuredAppend
    <3> QED
      BY <3>1, <3>2
  <2>6. FlattenSeq(new) \o <<rr>> = Append(past, rr)
    <3>1. FlattenSeq(new) = past
      <4> HIDE DEF out, cur
      <4> QED
        BY <1>1, <1>3, FlattenAppend
    <3> QED
      BY <3>1, AppendIsConcat
  <2> HIDE DEF new
  <2> QED
    BY <2>1, <2>3, <2>4, <2>5, <2>6 DEF BatchesOf
<1>6. CASE ~Overfull(Len(cur), acc.curLen, rr)
  <2> DEFINE new == Append(cur, rr)
             len == acc.curLen + RRLen(rr)
  <2>1. /\ Batched(acc, rr).out = out /\ Batched(acc, rr).cur = new
        /\ Batched(acc, rr).curLen = len
    BY <1>6 DEF Batched, Batching
  <2>2. Measured(new) = len
    <3> HIDE DEF cur
    <3> QED
      BY <1>1, <1>2, <1>3, MeasuredAppend
  <2>3. Within(new)
    <3>1. Len(new) = Len(cur) + 1 /\ Len(cur) \in Nat
      BY <1>1
    <3>2. Len(cur) > 0 => len <= capBytes
      BY <1>1, <1>2, <1>6 DEF Overfull
    <3> HIDE DEF new, len, cur
    <3> QED
      BY <2>2, <3>1, <3>2 DEF Within
  <2>4. FlattenSeq(out) \o new = Append(past, rr)
    <3>1. FlattenSeq(out) \o new = Append(FlattenSeq(out) \o cur, rr)
      <4>1. \A a, b \in Seq(R) : a \o Append(b, rr) = Append(a \o b, rr)
        OBVIOUS
      <4> QED
        BY <1>1, <1>4, <4>1
    <3> QED
      BY <1>3, <3>1
  <2> HIDE DEF new, len
  <2> QED
    BY <1>3, <2>1, <2>2, <2>3, <2>4 DEF BatchesOf
<1> QED
  BY <1>5, <1>6

\* The states of the loop, one after each RR.
Rounds(z, rrs) ==
  /\ DOMAIN z = 0 .. Len(rrs) /\ z[0] = NoneBatched
  /\ \A i \in 1 .. Len(rrs) : z[i] = Batched(z[i - 1], rrs[i])

\* batchRRs runs through them: the one function named here is the loop's.
After(rrs) ==
  CHOOSE f : f = [i \in 0 .. Len(rrs) |-> IF i = 0 THEN NoneBatched ELSE Batched(f[i - 1], rrs[i])]

LEMMA RoundsExist ==
  ASSUME NEW R, R \subseteq RR, NEW rrs \in Seq(R)
  PROVE  \E z : z = [i \in 0 .. Len(rrs) |-> IF i = 0 THEN NoneBatched ELSE Batched(z[i - 1], rrs[i])]
<1> DEFINE n == Len(rrs)
           S == Batching(R)
           none == NoneBatched
           G == [i \in 1 .. n |-> [x \in S |-> Batched(x, rrs[i])]]
<1>1. n \in Nat /\ none \in S /\ \A i \in 1 .. n : rrs[i] \in R
  BY NoneBatchedType
<1> HIDE DEF n
<1>2. G \in [1 .. n -> [S -> S]]
  BY <1>1, BatchedType
<1>3. \A i \in 1 .. n : \A x \in S : G[i][x] = Batched(x, rrs[i])
  OBVIOUS
<1> HIDE DEF G, S, none
<1>4. PICK z : GoesUpward(z, S, none, n, G)
  <2>1. UpwardRule(S, none, n, G)
    BY <1>1, <1>2 DEF UpwardRule
  <2> QED
    BY <2>1, UpwardFunction
<1>5. \A i \in 1 .. n : z[i - 1] \in S /\ z[i] = G[i][z[i - 1]]
  BY <1>1, <1>4 DEF GoesUpward
<1>6. \A i \in 1 .. n : z[i] = Batched(z[i - 1], rrs[i])
  BY <1>3, <1>5
<1>7. z = [i \in 0 .. n |-> z[i]] /\ z[0] = NoneBatched
  BY <1>4 DEF GoesUpward, none
<1>8. \A i \in 0 .. n : i # 0 => i \in 1 .. n
  BY <1>1
<1>9. z = [i \in 0 .. n |-> IF i = 0 THEN NoneBatched ELSE Batched(z[i - 1], rrs[i])]
  BY <1>6, <1>7, <1>8
<1> QED
  BY <1>9 DEF n

LEMMA AfterRounds ==
  ASSUME NEW R, R \subseteq RR, NEW rrs \in Seq(R)
  PROVE  Rounds(After(rrs), rrs)
<1> DEFINE z == After(rrs)
<1>1. PICK y : y = [i \in 0 .. Len(rrs) |-> IF i = 0 THEN NoneBatched ELSE Batched(y[i - 1], rrs[i])]
  BY RoundsExist
<1>2. z = [i \in 0 .. Len(rrs) |-> IF i = 0 THEN NoneBatched ELSE Batched(z[i - 1], rrs[i])]
  BY <1>1, Zenon DEF After
<1> HIDE DEF z
<1>3. Len(rrs) \in Nat
  OBVIOUS
<1> QED
  BY <1>2, <1>3 DEF Rounds, z

LEMMA batchRRsIsAfter ==
  ASSUME NEW rrs
  PROVE  batchRRs(rrs) = LET end == After(rrs)[Len(rrs)]
                         IN  IF end.cur = << >> THEN end.out ELSE Append(end.out, end.cur)
BY DEF batchRRs, After, NoneBatched

\* After i RRs.
LEMMA AfterFirst ==
  ASSUME NEW R, R \subseteq RR, NEW rrs \in Seq(R), NEW i \in 0 .. Len(rrs)
  PROVE  After(rrs)[i] \in Batching(R) /\ BatchesOf(After(rrs)[i], First(rrs, i))
<1> DEFINE n == Len(rrs)
           z == After(rrs)
           P == {k \in 0 .. n : z[k] \in Batching(R) /\ BatchesOf(z[k], First(rrs, k))}
<1>1. Rounds(z, rrs) /\ n \in Nat
  BY AfterRounds
<1> HIDE DEF z
<1>2. 0 \in P
  <2>1. z[0] = NoneBatched /\ First(rrs, 0) = << >>
    BY <1>1, FirstNoneAll DEF Rounds
  <2> QED
    BY <1>1, <2>1, NoneBatchedType
<1>3. ASSUME NEW k \in 1 .. n, k - 1 \in P PROVE k \in P
  <2>1. First(rrs, k - 1) \in Seq(R) /\ rrs[k] \in R /\ First(rrs, k) = Append(First(rrs, k - 1), rrs[k])
    BY FirstStep
  <2>2. z[k] = Batched(z[k - 1], rrs[k])
    BY <1>1 DEF Rounds
  <2>3. z[k - 1] \in Batching(R) /\ BatchesOf(z[k - 1], First(rrs, k - 1))
    BY <1>3
  <2>4. z[k] \in Batching(R) /\ BatchesOf(z[k], First(rrs, k))
    BY <2>1, <2>2, <2>3, BatchedType, BatchedStep
  <2> QED
    BY <1>1, <2>4
<1>4. i \in P
  <2> HIDE DEF P, n
  <2>1. \A k \in 0 .. n : k \in P
    BY <1>1, <1>2, <1>3, Upwards
  <2> QED
    BY <2>1 DEF n
<1> QED
  BY <1>4 DEF z

\* batchRRs loses, repeats and reorders nothing, and no message it makes is too
\* long but for one that holds a single RR.
LEMMA batchRRsResult ==
  ASSUME NEW R, R \subseteq RR, NEW rrs \in Seq(R)
  PROVE  /\ batchRRs(rrs) \in Seq(Seq(R))
         /\ \A i \in 1 .. Len(batchRRs(rrs)) : Within(batchRRs(rrs)[i])
         /\ FlattenSeq(batchRRs(rrs)) = rrs
<1> DEFINE end == After(rrs)[Len(rrs)]
           out == end.out
           cur == end.cur
<1>1. end \in Batching(R) /\ BatchesOf(end, rrs)
  <2>1. Len(rrs) \in 0 .. Len(rrs)
    OBVIOUS
  <2> QED
    BY <2>1, AfterFirst, FirstNoneAll
<1>2. batchRRs(rrs) = IF cur = << >> THEN out ELSE Append(out, cur)
  BY batchRRsIsAfter
<1>3. /\ out \in Seq(Seq(R)) /\ cur \in Seq(R)
      /\ cur = << >> \/ Within(cur)
      /\ \A i \in 1 .. Len(out) : Within(out[i])
      /\ FlattenSeq(out) \o cur = rrs
  BY <1>1 DEF Batching, BatchesOf
<1> HIDE DEF out, cur
<1>4. CASE cur = << >>
  <2>1. FlattenSeq(out) \in Seq(R)
    BY <1>3, FlattenType
  <2>2. FlattenSeq(out) \o << >> = FlattenSeq(out)
    BY <2>1, ConcatEmptySeq
  <2> QED
    BY <1>2, <1>3, <1>4, <2>2
<1>5. CASE cur # << >>
  <2> DEFINE new == Append(out, cur)
  <2>1. new \in Seq(Seq(R)) /\ \A i \in 1 .. Len(new) : Within(new[i])
    BY <1>3, <1>5
  <2>2. FlattenSeq(new) = FlattenSeq(out) \o cur
    BY <1>3, FlattenAppend
  <2> QED
    BY <1>2, <1>3, <1>5, <2>1, <2>2
<1> QED
  BY <1>4, <1>5

-----------------------------------------------------------------------------

(***************************************************************************)
(* chunkBytes.                                                             *)
(***************************************************************************)

LEMMA Times ==
  ASSUME NEW i \in Nat, NEW m \in Nat, NEW n \in Nat, i <= m
  PROVE  i * n <= m * n /\ i * n \in Nat
<1>1. m * n = i * n + (m - i) * n
  OBVIOUS
<1>2. (m - i) * n \in Nat /\ i * n \in Nat /\ m * n \in Nat
  OBVIOUS
<1> QED
  BY <1>1, <1>2

LEMMA Quotient ==
  ASSUME NEW a \in Nat, NEW n \in Nat \ {0}
  PROVE  a \div n \in Nat /\ (a \div n) * n <= a /\ a < (a \div n) * n + n
OBVIOUS

\* The number of chunks: all but the last are whole, and they reach the end.
LEMMA ChunkCount ==
  ASSUME NEW l \in Nat, NEW n \in Nat \ {0}, NEW m, m = (l + n - 1) \div n
  PROVE  /\ m \in Nat /\ l <= m * n
         /\ \A i \in 1 .. m : (i - 1) * n \in Nat /\ (i - 1) * n < l /\ i * n = (i - 1) * n + n
<1>1. m \in Nat /\ m * n <= l + n - 1 /\ l + n - 1 < m * n + n
  <2> DEFINE a == l + n - 1
  <2>1. a \in Nat /\ m = a \div n
    OBVIOUS
  <2> HIDE DEF a
  <2>2. m \in Nat /\ m * n <= a /\ a < m * n + n
    BY <2>1, Quotient
  <2> QED
    BY <2>2 DEF a
<1>2. m * n \in Nat
  BY <1>1
<1>3. l <= m * n
  BY <1>1, <1>2
<1>4. ASSUME NEW i \in 1 .. m
      PROVE  (i - 1) * n \in Nat /\ (i - 1) * n < l /\ i * n = (i - 1) * n + n
  <2>1. i * n = (i - 1) * n + n
    OBVIOUS
  <2>2. i \in Nat /\ i - 1 \in Nat /\ i <= m
    BY <1>1
  <2>3. i * n <= m * n /\ (i - 1) * n \in Nat
    BY <1>1, <2>2, Times
  <2> QED
    BY <1>1, <1>2, <2>1, <2>3
<1> QED
  BY <1>1, <1>3, <1>4

\* The chunks of a text, laid end to end, are the text.
LEMMA ChunksOfText ==
  ASSUME NEW b \in Seq(Byte), NEW n \in Nat \ {0}
  PROVE  /\ chunkBytes(b, n) \in Seq(Seq(Byte)) /\ FlattenSeq(chunkBytes(b, n)) = b
         /\ \A i \in 1 .. Len(chunkBytes(b, n)) : \A k \in 1 .. Len(chunkBytes(b, n)[i]) :
              \E j \in 1 .. Len(b) : chunkBytes(b, n)[i][k] = b[j]
<1> DEFINE l == Len(b)
           m == (l + n - 1) \div n
           to(i) == IF i * n < l THEN i * n ELSE l
           c == chunkBytes(b, n)
<1>1. l \in Nat
  OBVIOUS
<1>2. /\ m \in Nat /\ l <= m * n
      /\ \A i \in 1 .. m : (i - 1) * n \in Nat /\ (i - 1) * n < l /\ i * n = (i - 1) * n + n
  <2> HIDE DEF l
  <2> QED
    BY <1>1, ChunkCount
<1>3. c = [i \in 1 .. m |-> SubSeq(b, (i - 1) * n + 1, to(i))]
  BY DEF chunkBytes
<1> HIDE DEF m, c
<1>4. \A i \in 1 .. m : to(i) \in (i - 1) * n + 1 .. l
  <2> HIDE DEF l
  <2> QED
    BY <1>1, <1>2
<1>5. ASSUME NEW i \in 1 .. m
      PROVE  /\ c[i] = SubSeq(b, (i - 1) * n + 1, to(i)) /\ c[i] \in Seq(Byte)
             /\ \A k \in 1 .. Len(c[i]) : \E j \in 1 .. l : c[i][k] = b[j]
  <2> DEFINE f == (i - 1) * n + 1
             t == to(i)
  <2>1. f \in 1 .. l /\ t \in f .. l
    BY <1>1, <1>2, <1>4
  <2>2. c[i] = SubSeq(b, f, t)
    BY <1>3
  <2> HIDE DEF f, t
  <2>3. \A j \in f .. t : b[j] \in Byte
    BY <1>1, <2>1
  <2>4. /\ SubSeq(b, f, t) \in Seq(Byte) /\ Len(SubSeq(b, f, t)) = t - f + 1
        /\ \A k \in 1 .. t - f + 1 : SubSeq(b, f, t)[k] = b[f + k - 1]
    <3>1. f \in Int /\ t \in Int /\ f <= t
      BY <1>1, <2>1
    <3> QED
      BY <2>3, <3>1, SubSeqProperties
  <2>5. \A k \in 1 .. t - f + 1 : f + k - 1 \in 1 .. l
    BY <1>1, <2>1
  <2>6. \A k \in 1 .. Len(c[i]) : \E j \in 1 .. l : c[i][k] = b[j]
    BY <2>2, <2>4, <2>5
  <2> QED
    BY <2>2, <2>4, <2>6 DEF f, t
<1>6. c \in Seq(Seq(Byte)) /\ Len(c) = m
  <2>1. \A i \in 1 .. m : SubSeq(b, (i - 1) * n + 1, to(i)) \in Seq(Byte)
    BY <1>5
  <2> HIDE DEF to
  <2> QED
    BY <1>2, <1>3, <2>1
<1> DEFINE P == {i \in 0 .. m : FlattenSeq(First(c, i)) = SubSeq(b, 1, to(i))}
<1>7. 0 \in P
  <2>1. 0 * n = 0
    OBVIOUS
  <2>2. to(0) = 0
    BY <1>1, <2>1
  <2>3. SubSeq(b, 1, to(0)) = << >>
    BY <2>2
  <2>4. FlattenSeq(First(c, 0)) = << >>
    BY <1>6, FirstNoneAll, FlattenEmpty
  <2>5. 0 \in 0 .. m
    BY <1>2
  <2> HIDE DEF to
  <2> QED
    BY <2>3, <2>4, <2>5
<1>8. ASSUME NEW i \in 1 .. m, i - 1 \in P PROVE i \in P
  <2> DEFINE f == (i - 1) * n
             t == to(i)
  <2>1. i \in 1 .. Len(c) /\ i \in 0 .. m
    BY <1>2, <1>6
  <2>2. First(c, i - 1) \in Seq(Seq(Byte)) /\ c[i] \in Seq(Byte) /\ First(c, i) = Append(First(c, i - 1), c[i])
    BY <1>6, <2>1, FirstStep
  <2>3. FlattenSeq(First(c, i)) = FlattenSeq(First(c, i - 1)) \o c[i]
    BY <2>2, FlattenAppend
  <2>4. FlattenSeq(First(c, i - 1)) = SubSeq(b, 1, f)
    <3>1. to(i - 1) = f
      BY <1>2
    <3>2. FlattenSeq(First(c, i - 1)) = SubSeq(b, 1, to(i - 1))
      BY <1>8
    <3> QED
      BY <3>1, <3>2
  <2>5. c[i] = SubSeq(b, f + 1, t)
    BY <1>5
  <2>6. 1 \in 1 .. Len(b) + 1 /\ f \in 1 - 1 .. Len(b) /\ t \in f .. Len(b)
    <3>1. f \in Nat /\ f < l /\ t \in f + 1 .. l
      BY <1>2, <1>4
    <3> HIDE DEF f, t
    <3> QED
      BY <1>1, <3>1
  <2> HIDE DEF f, t
  <2>7. SubSeq(b, 1, f) \o SubSeq(b, f + 1, t) = SubSeq(b, 1, t)
    BY <2>6, ConcatAdjacentSubSeq
  <2>8. FlattenSeq(First(c, i)) = SubSeq(b, 1, t)
    BY <2>3, <2>4, <2>5, <2>7
  <2> QED
    BY <2>1, <2>8 DEF t
<1>9. m \in P
  <2> HIDE DEF P
  <2>1. \A i \in 0 .. m : i \in P
    BY <1>2, <1>7, <1>8, Upwards
  <2> QED
    BY <1>2, <2>1
<1>10. to(m) = l
  BY <1>1, <1>2
<1>11. FlattenSeq(c) = b
  <2>1. FlattenSeq(First(c, m)) = SubSeq(b, 1, l)
    BY <1>9, <1>10
  <2> QED
    BY <1>6, <2>1, FirstNoneAll, SubSeqFull
<1>12. \A i \in 1 .. Len(c) : \A k \in 1 .. Len(c[i]) : \E j \in 1 .. l : c[i][k] = b[j]
  BY <1>5, <1>6
<1> QED
  BY <1>6, <1>11, <1>12 DEF c

\* The RR of an item; of a text without a backslash the wire gets just that.
LEMMA ItemRR ==
  ASSUME NEW k \in Nat, NEW b \in Seq(Byte)
  PROVE  /\ itemRR(k, b) \in RR /\ itemRR(k, b).owner = k
         /\ (\A i \in 1 .. Len(b) : b[i] # "b") => WireText(itemRR(k, b)) = b
<1> DEFINE c == chunkBytes(b, maxTxtChunk)
<1>1. /\ c \in Seq(Seq(Byte)) /\ FlattenSeq(c) = b
      /\ \A i \in 1 .. Len(c) : \A h \in 1 .. Len(c[i]) : \E j \in 1 .. Len(b) : c[i][h] = b[j]
  BY ChunksOfText, TxtCodecAssumption
<1>2. itemRR(k, b) = [soa |-> NoSerial, owner |-> k, txt |-> c]
  BY DEF itemRR
<1> HIDE DEF c
<1>3. itemRR(k, b) \in RR /\ itemRR(k, b).owner = k /\ itemRR(k, b).txt = c
  BY <1>1, <1>2 DEF RR
<1>4. ASSUME \A i \in 1 .. Len(b) : b[i] # "b" PROVE WireText(itemRR(k, b)) = b
  <2>1. DOMAIN c = 1 .. Len(c) /\ c = [i \in 1 .. Len(c) |-> c[i]] /\ \A i \in 1 .. Len(c) : c[i] \in Seq(Byte)
    BY <1>1
  <2>2. \A i \in 1 .. Len(c) : \A h \in 1 .. Len(c[i]) : c[i][h] # "b"
    BY <1>1, <1>4
  <2>3. \A i \in 1 .. Len(c) : packTxtString(c[i]) = c[i]
    BY <2>1, <2>2, PackPlain
  <2>4. [i \in DOMAIN c |-> packTxtString(c[i])] = c
    BY <2>1, <2>3
  <2> QED
    BY <1>1, <1>3, <2>4 DEF WireText
<1> QED
  BY <1>3, <1>4

-----------------------------------------------------------------------------

(***************************************************************************)
(* The stream.                                                             *)
(***************************************************************************)

\* The stored texts.
Texts == [k \in DOMAIN job.packets |-> FlattenSeq(job.packets[k])]

\* The RRs of a full transfer.
Listing == [k \in DOMAIN table |-> itemRR(k, table[k])]

Items == {itemRR(k, table[k]) : k \in DOMAIN table}

\* The RRs of an incremental one, delta by delta.
Differences == [i \in DOMAIN job.deltas |-> DifferenceSequence(job.deltas[i])]

DeltaRRs ==
  {r \in RR :
     \/ \E s \in Int : r = soa(s)
     \/ \E i \in 1 .. Len(job.deltas) : \E j \in 1 .. Len(job.deltas[i].removed) : r = job.deltas[i].removed[j]
     \/ \E i \in 1 .. Len(job.deltas) : \E j \in 1 .. Len(job.deltas[i].added) : r = job.deltas[i].added[j]}

Opening == <<<<soa(job.serial)>>>>

UnsendableItem == \E k \in DOMAIN table : Unsendable(itemRR(k, table[k]))

UnsendableDelta ==
  \/ \E i \in DOMAIN job.deltas : \E j \in DOMAIN job.deltas[i].removed : Unsendable(job.deltas[i].removed[j])
  \/ \E i \in DOMAIN job.deltas : \E j \in DOMAIN job.deltas[i].added : Unsendable(job.deltas[i].added[j])

\* The flush loop has come where batchRRs would be after i RRs.
ListedAt(i) ==
  /\ i \in 0 .. Len(Listing) /\ left = SubSeq(Listing, i + 1, Len(Listing))
  /\ sent = Opening \o After(Listing)[i].out
  /\ buf = After(Listing)[i].cur /\ bufLen = After(Listing)[i].curLen

Listed == \E i : ListedAt(i)

\* The first i deltas are sent, but for the messages still in the queue.
DifferingAt(i) ==
  /\ i \in 0 .. Len(job.deltas) /\ left = SubSeq(job.deltas, i + 1, Len(job.deltas))
  /\ FlattenSeq(sent) \o FlattenSeq(queue) = <<soa(job.serial)>> \o FlattenSeq(First(Differences, i))

Differing ==
  /\ queue \in Seq(Seq(DeltaRRs)) /\ \A k \in 1 .. Len(queue) : Within(queue[k])
  /\ sent \in Seq(Seq(RR))
  /\ \E i : DifferingAt(i)

Finished ==
  IF job.full THEN sent = Append(Opening \o batchRRs(Listing), <<soa(job.serial)>>)
  ELSE /\ sent \in Seq(Seq(RR))
       /\ FlattenSeq(sent) = (<<soa(job.serial)>> \o FlattenSeq(Differences)) \o <<soa(job.serial)>>

StreamInv ==
  /\ job \in Jobs
  /\ table = IF pc = "update" THEN << >> ELSE Texts
  /\ pc \in {"update", "open", "list", "close", "deltas", "done", "aborted"}
  /\ pc \in {"update", "open"} =>
       buf = << >> /\ bufLen = EmptyLen /\ queue = << >> /\ sent = << >>
  /\ pc = "list" => job.full /\ Listed
  /\ pc = "close" => job.full /\ sent = Opening \o batchRRs(Listing)
  /\ pc = "deltas" => ~job.full /\ Differing
  /\ pc = "done" => Finished
  /\ pc = "aborted" => UnsendableItem \/ UnsendableDelta

\* What a job holds.
Delta == [serial : Nat, removed : Seq(TXTRR), added : Seq(TXTRR)]

LEMMA JobTypes ==
  ASSUME job \in Jobs
  PROVE  /\ job.full \in BOOLEAN /\ job.packets \in Seq(Seq(Seq(Byte))) /\ job.serial \in Int
         /\ job.deltas \in Seq(Delta) /\ 0 \notin job.long
<1>1. /\ job.full \in BOOLEAN /\ job.packets \in Seq(Seq(Seq(Byte))) /\ job.serial \in Nat
      /\ job.deltas \in Seq(Delta) /\ job.long \subseteq Nat \ {0}
  BY JobsAssumption, Zenon DEF Delta
<1>2. (\A n \in Nat : n \in Int) /\ 0 \notin Nat \ {0}
  OBVIOUS
<1> QED
  BY <1>1, <1>2, Zenon

LEMMA DeltaTypes ==
  ASSUME NEW d \in Delta
  PROVE  /\ d.serial \in Int /\ d.serial - 1 \in Int
         /\ d.removed \in Seq(TXTRR) /\ d.added \in Seq(TXTRR)
         /\ d.removed \in Seq(RR) /\ d.added \in Seq(RR)
<1>1. /\ d.serial \in Int /\ d.serial - 1 \in Int
      /\ d.removed \in Seq(TXTRR) /\ d.added \in Seq(TXTRR)
  BY DEF Delta
<1> QED
  BY <1>1, TXTRRType, SeqMonotonic

LEMMA TextsType ==
  ASSUME job \in Jobs
  PROVE  Texts \in Seq(Seq(Byte)) /\ Len(Texts) = Len(job.packets)
<1> DEFINE p == job.packets
<1>1. p \in Seq(Seq(Seq(Byte)))
  BY JobTypes
<1>2. \A k \in 1 .. Len(p) : FlattenSeq(p[k]) \in Seq(Byte)
  BY <1>1, FlattenType
<1>3. Texts = [k \in 1 .. Len(p) |-> FlattenSeq(p[k])]
  BY <1>1 DEF Texts
<1> HIDE DEF p
<1> QED
  BY <1>1, <1>2, <1>3 DEF p

LEMMA ListingType ==
  ASSUME job \in Jobs, table = Texts
  PROVE  /\ Items \subseteq RR /\ Listing \in Seq(Items) /\ Len(Listing) = Len(table)
         /\ \A k \in 1 .. Len(table) : Listing[k] = itemRR(k, table[k])
<1>1. table \in Seq(Seq(Byte))
  BY TextsType
<1>2. DOMAIN table = 1 .. Len(table) /\ Len(table) \in Nat /\ \A k \in 1 .. Len(table) : table[k] \in Seq(Byte) /\ k \in Nat
  BY <1>1
<1>3. \A k \in 1 .. Len(table) : itemRR(k, table[k]) \in RR /\ itemRR(k, table[k]) \in Items
  BY <1>2, ItemRR DEF Items
<1>4. Items \subseteq RR
  BY <1>2, <1>3 DEF Items
<1>5. Listing = [k \in 1 .. Len(table) |-> itemRR(k, table[k])]
  BY <1>2 DEF Listing
<1> QED
  BY <1>2, <1>3, <1>4, <1>5

LEMMA ElementsType ==
  ASSUME NEW T, NEW U, NEW s \in Seq(T), \A j \in 1 .. Len(s) : s[j] \in U
  PROVE  s \in Seq(U)
OBVIOUS

\* The RRs of a delta.
LEMMA DifferenceType ==
  ASSUME job \in Jobs, NEW i \in 1 .. Len(job.deltas)
  PROVE  job.deltas[i] \in Delta /\ DifferenceSequence(job.deltas[i]) \in Seq(DeltaRRs)
<1> DEFINE d == job.deltas[i]
<1>1. d \in Delta
  BY JobTypes
<1>2. /\ d.serial \in Int /\ d.serial - 1 \in Int
      /\ d.removed \in Seq(RR) /\ d.added \in Seq(RR)
  BY <1>1, DeltaTypes
<1>3. \A j \in 1 .. Len(d.removed) : d.removed[j] \in DeltaRRs
  BY <1>2 DEF DeltaRRs
<1>4. \A j \in 1 .. Len(d.added) : d.added[j] \in DeltaRRs
  BY <1>2 DEF DeltaRRs
<1>5. soa(d.serial) \in DeltaRRs /\ soa(d.serial - 1) \in DeltaRRs
  BY <1>2, SOAType DEF DeltaRRs
<1> HIDE DEF d
<1>6. d.removed \in Seq(DeltaRRs) /\ d.added \in Seq(DeltaRRs)
  BY <1>2, <1>3, <1>4, ElementsType
<1>7. DifferenceSequence(d) \in Seq(DeltaRRs)
  <2>1. <<soa(d.serial - 1)>> \in Seq(DeltaRRs) /\ <<soa(d.serial)>> \in Seq(DeltaRRs)
    BY <1>5
  <2>2. \A x, y \in Seq(DeltaRRs) : x \o y \in Seq(DeltaRRs)
    OBVIOUS
  <2> QED
    BY <1>6, <2>1, <2>2 DEF DifferenceSequence
<1> QED
  BY <1>1, <1>7 DEF d

LEMMA DeltaRRsType == DeltaRRs \subseteq RR
BY DEF DeltaRRs

LEMMA DifferencesType ==
  ASSUME job \in Jobs
  PROVE  /\ Differences \in Seq(Seq(DeltaRRs)) /\ Len(Differences) = Len(job.deltas)
         /\ \A i \in 1 .. Len(job.deltas) : Differences[i] = DifferenceSequence(job.deltas[i])
<1>1. job.deltas \in Seq(Delta)
  BY JobTypes
<1>2. Differences = [i \in 1 .. Len(job.deltas) |-> DifferenceSequence(job.deltas[i])]
  BY <1>1 DEF Differences
<1>3. \A i \in 1 .. Len(job.deltas) : DifferenceSequence(job.deltas[i]) \in Seq(DeltaRRs)
  BY DifferenceType
<1> QED
  BY <1>1, <1>2, <1>3

\* An SOA always fits.
LEMMA SOAFits ==
  ASSUME job \in Jobs, NEW s \in Int
  PROVE  MsgLen(<<soa(s)>>) <= MaxMsg /\ ~Unsendable(soa(s))
<1>1. soa(s) \in RR /\ WireLen(soa(s)) = SOALen
  BY SOAType DEF WireLen
<1>2. MsgLen(<<soa(s)>>) = FixedLen + SOALen
  BY <1>1, SingleMessage
<1>3. /\ {FixedLen, overheadPerMsg, SOALen, MaxMsg} \subseteq Nat
      /\ FixedLen < overheadPerMsg /\ overheadPerMsg + SOALen <= MaxMsg
  BY StreamAssumption
<1>4. soa(s).owner = 0 /\ 0 \notin job.long
  BY JobTypes DEF soa
<1> QED
  BY <1>1, <1>2, <1>3, <1>4 DEF Unsendable, Oversized, Overlong

\* An RR of a delta that goes into no message is no SOA.
LEMMA UnsendableDeltaRR ==
  ASSUME job \in Jobs, NEW m \in Seq(DeltaRRs), \E k \in DOMAIN m : Unsendable(m[k])
  PROVE  UnsendableDelta
<1>0. PICK r \in DeltaRRs : Unsendable(r)
  BY ElementOfSeq
<1>1. ~\E s \in Int : r = soa(s)
  BY <1>0, SOAFits
<1>2. DOMAIN job.deltas = 1 .. Len(job.deltas)
  BY JobTypes
<1>3. \A i \in 1 .. Len(job.deltas) : /\ DOMAIN job.deltas[i].removed = 1 .. Len(job.deltas[i].removed)
                                       /\ DOMAIN job.deltas[i].added = 1 .. Len(job.deltas[i].added)
  <2> TAKE i \in 1 .. Len(job.deltas)
  <2>1. job.deltas[i].removed \in Seq(RR) /\ job.deltas[i].added \in Seq(RR)
    BY DifferenceType, DeltaTypes
  <2> QED
    BY <2>1
<1> QED
  BY <1>0, <1>1, <1>2, <1>3 DEF DeltaRRs, UnsendableDelta

\* send, for the messages that reach it.
LEMMA SendSOA ==
  ASSUME job \in Jobs, NEW s \in Int, NEW next, Send(<<soa(s)>>, next)
  PROVE  pc' = next /\ sent' = Append(sent, <<soa(s)>>)
<1>1. <<soa(s)>> # << >>
  OBVIOUS
<1>2. Packs(<<soa(s)>>)
  BY SOAFits DEF Packs, Unsendable
<1> QED
  BY <1>1, <1>2 DEF Send

LEMMA SendMessage ==
  ASSUME NEW m \in Seq(RR), Within(m), NEW next, Send(m, next)
  PROVE  \/ pc' = next /\ sent' = Append(sent, m)
         \/ pc' = "aborted" /\ \E k \in DOMAIN m : Unsendable(m[k])
<1>1. m # << >> /\ DOMAIN m = 1 .. Len(m)
  BY DEF Within
<1>2. CASE ~Packs(m)
  <2>1. CASE \E k \in DOMAIN m : Overlong(m[k])
    BY <1>1, <1>2, <2>1 DEF Send, Unsendable
  <2>2. CASE ~(MsgLen(m) <= MaxMsg)
    <3>1. MsgLen(m) > MaxMsg
      BY <2>2, MsgLenType, StreamAssumption
    <3>2. Len(m) = 1 /\ Oversized(m[1])
      BY <3>1, WithinFits
    <3> QED
      BY <1>1, <1>2, <3>2 DEF Send, Unsendable
  <2> QED
    BY <1>2, <2>1, <2>2 DEF Packs
<1>3. CASE Packs(m)
  BY <1>1, <1>3 DEF Send
<1> QED
  BY <1>2, <1>3

\* What a job and the table determine.
LEMMA SameJob ==
  ASSUME job' = job, table' = table
  PROVE  /\ Texts' = Texts /\ Listing' = Listing /\ Items' = Items /\ Opening' = Opening
         /\ Differences' = Differences /\ DeltaRRs' = DeltaRRs
         /\ UnsendableItem' = UnsendableItem /\ UnsendableDelta' = UnsendableDelta
BY DEF Texts, Listing, Items, Opening, Differences, DeltaRRs, UnsendableItem, UnsendableDelta, Unsendable,
       Overlong

\* Steps that follow the UPDATEs.
LEMMA LaterStep ==
  ASSUME StreamInv, pc # "update", job' = job, table' = table,
         pc' \in {"list", "close", "deltas", "done", "aborted"},
         pc' = "list" => job.full /\ Listed',
         pc' = "close" => job.full /\ sent' = Opening \o batchRRs(Listing),
         pc' = "deltas" => ~job.full /\ Differing',
         pc' = "done" => Finished',
         pc' = "aborted" => UnsendableItem \/ UnsendableDelta
  PROVE  StreamInv'
<1>1. Texts' = Texts /\ (UnsendableItem \/ UnsendableDelta)' = (UnsendableItem \/ UnsendableDelta)
      /\ Opening' = Opening /\ Listing' = Listing
  BY SameJob
<1> QED
  BY <1>1 DEF StreamInv

LEMMA ApplyUpdatesStep ==
  ASSUME StreamInv, ApplyUpdates
  PROVE  StreamInv'
<1>1. /\ job \in Jobs /\ pc = "update" /\ job' = job /\ pc' = "open"
      /\ UNCHANGED <<buf, bufLen, queue, sent>>
      /\ buf = << >> /\ bufLen = EmptyLen /\ queue = << >> /\ sent = << >>
  BY DEF StreamInv, ApplyUpdates
<1>2. table' = Texts
  <2> DEFINE text(k) == decodeTXTStrings([i \in DOMAIN job.packets[k] |-> unpackTxtString(job.packets[k][i])])
  <2>1. table' = [k \in DOMAIN job.packets |-> text(k)]
    BY DEF ApplyUpdates
  <2>2. \A k \in DOMAIN job.packets : text(k) = FlattenSeq(job.packets[k])
    <3> TAKE k \in DOMAIN job.packets
    <3>1. job.packets[k] \in Seq(Seq(Byte))
      BY <1>1, JobTypes
    <3> QED
      BY <3>1, DecodeIsText
  <2> HIDE DEF text
  <2> QED
    BY <2>1, <2>2 DEF Texts
<1>3. Texts' = Texts
  BY <1>1 DEF Texts
<1> QED
  BY <1>1, <1>2, <1>3 DEF StreamInv

LEMMA OpeningStep ==
  ASSUME StreamInv, SendOpeningSOA
  PROVE  StreamInv'
<1>1. /\ job \in Jobs /\ table = Texts /\ pc = "open"
      /\ buf = << >> /\ bufLen = EmptyLen /\ queue = << >> /\ sent = << >>
  BY DEF StreamInv, SendOpeningSOA
<1>2. /\ job' = job /\ table' = table /\ buf' = << >> /\ bufLen' = EmptyLen /\ queue' = << >>
      /\ left' = IF job.full THEN Listing ELSE job.deltas
  BY <1>1 DEF SendOpeningSOA, Listing
<1>3. job.full \in BOOLEAN /\ job.serial \in Int /\ job.deltas \in Seq(Delta)
  BY <1>1, JobTypes
<1>4. /\ pc' = IF job.full THEN "list" ELSE "deltas"
      /\ sent' = Opening
  <2>1. Send(<<soa(job.serial)>>, IF job.full THEN "list" ELSE "deltas")
    BY DEF SendOpeningSOA
  <2>2. pc' = (IF job.full THEN "list" ELSE "deltas") /\ sent' = Append(sent, <<soa(job.serial)>>)
    BY <1>1, <1>3, <2>1, SendSOA
  <2>3. Append(<< >>, <<soa(job.serial)>>) = Opening
    BY DEF Opening
  <2> QED
    BY <1>1, <2>2, <2>3
<1>5. /\ Listing' = Listing /\ Differences' = Differences /\ DeltaRRs' = DeltaRRs
      /\ Opening' = Opening
  BY <1>2, SameJob
<1>6. CASE job.full
  <2>1. Items \subseteq RR /\ Listing \in Seq(Items)
    BY <1>1, ListingType
  <2>2. After(Listing)[0] = NoneBatched
    BY <2>1, AfterRounds DEF Rounds
  <2>3. Listing = SubSeq(Listing, 0 + 1, Len(Listing)) /\ 0 \in 0 .. Len(Listing)
    BY <2>1, SubSeqFull
  <2>4. Opening \o << >> = Opening
    BY DEF Opening
  <2>5. ListedAt(0)'
    <3>1. /\ After(Listing)[0].out = << >> /\ After(Listing)[0].cur = << >>
          /\ After(Listing)[0].curLen = EmptyLen
      BY <2>2 DEF NoneBatched
    <3>2. left' = SubSeq(Listing, 0 + 1, Len(Listing))
      BY <1>2, <1>6, <2>3
    <3>3. sent' = Opening \o After(Listing)[0].out
      BY <1>4, <2>4, <3>1
    <3>4. buf' = After(Listing)[0].cur /\ bufLen' = After(Listing)[0].curLen
      BY <1>2, <3>1
    <3> QED
      BY <1>5, <2>3, <3>2, <3>3, <3>4, Zenon DEF ListedAt
  <2>6. Listed'
    BY <2>5 DEF Listed
  <2> QED
    BY <1>1, <1>2, <1>4, <1>6, <2>6, LaterStep
<1>7. CASE ~job.full
  <2> DEFINE q == job.deltas
             s == <<soa(job.serial)>>
  <2>1. q = SubSeq(q, 0 + 1, Len(q)) /\ 0 \in 0 .. Len(q)
    BY <1>3, SubSeqFull
  <2>2. s \in Seq(RR) /\ soa(job.serial) \in RR
    BY <1>3, SOAType
  <2>3. << >> \in Seq(Seq(DeltaRRs)) /\ Len(<< >>) = 0 /\ Opening \in Seq(Seq(RR))
    BY <2>2 DEF Opening
  <2>4. FlattenSeq(Opening) = s
    <3> DEFINE none == << >>
    <3>1. none \in Seq(Seq(RR)) /\ Opening = Append(none, s) /\ FlattenSeq(none) = << >>
      BY FlattenEmpty DEF Opening
    <3> HIDE DEF none, s
    <3>2. FlattenSeq(Append(none, s)) = FlattenSeq(none) \o s
      BY <2>2, <3>1, FlattenAppend
    <3> QED
      BY <2>2, <3>1, <3>2, ConcatEmptySeq
  <2>5. FlattenSeq(Opening) \o FlattenSeq(<< >>) = s \o FlattenSeq(First(Differences, 0))
    <3>1. First(Differences, 0) = << >>
      BY <1>1, DifferencesType, FirstNoneAll
    <3> QED
      BY <2>4, <3>1
  <2>6. DifferingAt(0)'
    <3>1. left' = SubSeq(job.deltas, 0 + 1, Len(job.deltas))
      BY <1>2, <1>7, <2>1
    <3>2. FlattenSeq(sent') \o FlattenSeq(queue') = <<soa(job.serial)>> \o FlattenSeq(First(Differences, 0))
      BY <1>2, <1>4, <2>5
    <3> QED
      BY <1>2, <1>5, <2>1, <3>1, <3>2, Zenon DEF DifferingAt
  <2>7. queue' \in Seq(Seq(DeltaRRs)) /\ (\A k \in 1 .. Len(queue') : Within(queue'[k])) /\ sent' \in Seq(Seq(RR))
    BY <1>2, <1>4, <2>3
  <2>8. Differing'
    BY <1>5, <2>6, <2>7 DEF Differing
  <2> QED
    BY <1>1, <1>2, <1>4, <1>7, <2>8, LaterStep
<1> QED
  BY <1>3, <1>6, <1>7

\* A message of the flush loop that cannot be sent holds an item that cannot.
LEMMA UnsendableItemRR ==
  ASSUME NEW m \in Seq(Items), \E k \in DOMAIN m : Unsendable(m[k])
  PROVE  UnsendableItem
<1>1. PICK r \in Items : Unsendable(r)
  BY ElementOfSeq
<1> QED
  BY <1>1 DEF Items, UnsendableItem

\* Where the flush loop is, in the terms of batchRRs.
LEMMA ListedFacts ==
  ASSUME StreamInv, pc = "list"
  PROVE  /\ job \in Jobs /\ table = Texts /\ job.full
         /\ Items \subseteq RR /\ Listing \in Seq(Items)
         /\ \E i \in 0 .. Len(Listing) :
              /\ left = SubSeq(Listing, i + 1, Len(Listing))
              /\ After(Listing)[i] \in Batching(Items)
              /\ BatchesOf(After(Listing)[i], First(Listing, i))
              /\ sent = Opening \o After(Listing)[i].out
              /\ buf = After(Listing)[i].cur /\ bufLen = After(Listing)[i].curLen
<1>1. job \in Jobs /\ table = Texts /\ job.full /\ Listed
  BY DEF StreamInv
<1>2. Items \subseteq RR /\ Listing \in Seq(Items)
  BY <1>1, ListingType
<1>3. PICK i : ListedAt(i)
  BY <1>1 DEF Listed
<1>4. i \in 0 .. Len(Listing)
  BY <1>3 DEF ListedAt
<1>5. After(Listing)[i] \in Batching(Items) /\ BatchesOf(After(Listing)[i], First(Listing, i))
  BY <1>2, <1>4, AfterFirst
<1> QED
  BY <1>1, <1>2, <1>3, <1>4, <1>5 DEF ListedAt

LEMMA AddRRStep ==
  ASSUME StreamInv, AddRR
  PROVE  StreamInv'
<1>1. pc = "list" /\ left # << >> /\ job' = job /\ table' = table /\ left' = Tail(left)
  BY DEF AddRR
<1>2. /\ job \in Jobs /\ table = Texts /\ job.full
      /\ Items \subseteq RR /\ Listing \in Seq(Items)
  BY <1>1, ListedFacts
<1> DEFINE L == Listing
           n == Len(L)
           z == After(L)
<1>3. PICK i \in 0 .. n : /\ left = SubSeq(L, i + 1, n)
                          /\ z[i] \in Batching(Items) /\ BatchesOf(z[i], First(L, i))
                          /\ sent = Opening \o z[i].out
                          /\ buf = z[i].cur /\ bufLen = z[i].curLen
  BY <1>1, ListedFacts
<1> DEFINE rr == L[i + 1]
           acc == z[i]
<1>4. n \in Nat /\ i + 1 \in 1 .. n
  <2>1. n \in Nat
    BY <1>2
  <2>2. i + 1 > n => SubSeq(L, i + 1, n) = << >>
    BY <2>1, SubSeqEmpty
  <2> QED
    BY <1>1, <1>3, <2>1, <2>2
<1>5. Head(left) = rr /\ left' = SubSeq(L, (i + 1) + 1, n) /\ rr \in Items
  <2>1. n \in i + 1 .. n
    BY <1>4
  <2>2. Head(SubSeq(L, i + 1, n)) = L[i + 1] /\ Tail(SubSeq(L, i + 1, n)) = SubSeq(L, (i + 1) + 1, n)
    BY <1>2, <1>4, <2>1, HeadTailOfSubSeq
  <2> QED
    BY <1>1, <1>2, <1>3, <1>4, <2>2
<1>6. z[i + 1] = Batched(acc, rr)
  <2>1. Rounds(z, L)
    BY <1>2, AfterRounds
  <2>2. (i + 1) - 1 = i
    OBVIOUS
  <2> HIDE DEF z
  <2> QED
    BY <1>4, <2>1, <2>2 DEF Rounds
<1>7. acc.out \in Seq(Seq(Items)) /\ acc.cur \in Seq(Items)
  BY <1>3 DEF Batching
<1>8. Listing' = L /\ Opening' = Opening /\ (UnsendableItem \/ UnsendableDelta)' = (UnsendableItem \/ UnsendableDelta)
  BY <1>1, SameJob
<1> HIDE DEF L, n, z, rr, acc
<1>9. CASE Overfull(Len(buf), bufLen, rr)
  <2>1. Send(buf, "list") /\ buf' = <<rr>> /\ bufLen' = EmptyLen + RRLen(rr)
    BY <1>5, <1>9 DEF AddRR
  <2>2. Batched(acc, rr) = [out |-> Append(acc.out, acc.cur), cur |-> <<rr>>, curLen |-> EmptyLen + RRLen(rr)]
    BY <1>3, <1>9 DEF Batched, acc
  <2>3. buf \in Seq(Items) /\ buf \in Seq(RR) /\ buf = acc.cur
    BY <1>2, <1>3, <1>7, SeqMonotonic DEF acc
  <2>4. Within(buf)
    <3>1. buf # << >>
      BY <1>9, <2>3 DEF Overfull
    <3> QED
      BY <1>3, <3>1 DEF BatchesOf
  <2>5. CASE pc' = "list" /\ sent' = Append(sent, buf)
    <3>1. sent' = Opening \o Append(acc.out, acc.cur)
      <4>1. Opening \in Seq(Seq(RR))
        BY <1>2, JobTypes, SOAType DEF Opening
      <4>2. acc.out \in Seq(Seq(RR)) /\ acc.cur \in Seq(RR)
        <5>1. Seq(Items) \subseteq Seq(RR)
          BY <1>2, SeqMonotonic
        <5> QED
          BY <1>7, <5>1, SeqMonotonic
      <4>3. Opening \o Append(acc.out, acc.cur) = Append(Opening \o acc.out, acc.cur)
        BY <4>1, <4>2, AppendMessage
      <4> QED
        BY <1>3, <2>3, <2>5, <4>3 DEF acc
    <3>2. /\ sent' = Opening \o z[i + 1].out /\ buf' = z[i + 1].cur
          /\ bufLen' = z[i + 1].curLen
      <4>1. /\ z[i + 1].out = Append(acc.out, acc.cur) /\ z[i + 1].cur = <<rr>>
            /\ z[i + 1].curLen = EmptyLen + RRLen(rr)
        BY <1>6, <2>2
      <4> QED
        BY <2>1, <3>1, <4>1, Zenon
    <3>3. ListedAt(i + 1)'
      <4>1. i + 1 \in 0 .. n
        BY <1>4
      <4> QED
        BY <1>5, <1>8, <3>2, <4>1, Zenon DEF ListedAt, L, n, z
    <3> QED
      BY <1>1, <1>2, <2>5, <3>3, LaterStep DEF Listed
  <2>6. CASE pc' = "aborted" /\ \E k \in DOMAIN buf : Unsendable(buf[k])
    BY <1>1, <2>3, <2>6, UnsendableItemRR, LaterStep
  <2> QED
    BY <2>1, <2>3, <2>4, <2>5, <2>6, SendMessage
<1>10. CASE ~Overfull(Len(buf), bufLen, rr)
  <2>1. pc' = "list" /\ sent' = sent /\ buf' = Append(buf, rr) /\ bufLen' = bufLen + RRLen(rr)
    BY <1>1, <1>5, <1>10 DEF AddRR
  <2>2. Batched(acc, rr) = [acc EXCEPT !.cur = Append(acc.cur, rr), !.curLen = acc.curLen + RRLen(rr)]
    BY <1>3, <1>10 DEF Batched, acc
  <2>3. /\ Batched(acc, rr).out = acc.out /\ Batched(acc, rr).cur = Append(acc.cur, rr)
        /\ Batched(acc, rr).curLen = acc.curLen + RRLen(rr)
    BY <1>3, <2>2 DEF Batching, acc
  <2>4. /\ sent' = Opening \o z[i + 1].out /\ buf' = z[i + 1].cur
        /\ bufLen' = z[i + 1].curLen
    BY <1>3, <1>6, <2>1, <2>3 DEF acc
  <2>5. ListedAt(i + 1)'
    <3>1. i + 1 \in 0 .. n
      BY <1>4
    <3> QED
      BY <1>5, <1>8, <2>4, <3>1, Zenon DEF ListedAt, L, n, z
  <2> QED
    BY <1>1, <1>2, <2>1, <2>5, LaterStep DEF Listed
<1> QED
  BY <1>9, <1>10

LEMMA FinalFlushStep ==
  ASSUME StreamInv, FinalFlush
  PROVE  StreamInv'
<1>1. pc = "list" /\ left = << >> /\ job' = job /\ table' = table /\ Send(buf, "close")
  BY DEF FinalFlush
<1>2. /\ job \in Jobs /\ table = Texts /\ job.full
      /\ Items \subseteq RR /\ Listing \in Seq(Items)
  BY <1>1, ListedFacts
<1> DEFINE L == Listing
           n == Len(L)
           end == After(L)[n]
<1>3. PICK i \in 0 .. n : /\ left = SubSeq(L, i + 1, n)
                          /\ After(L)[i] \in Batching(Items) /\ BatchesOf(After(L)[i], First(L, i))
                          /\ sent = Opening \o After(L)[i].out
                          /\ buf = After(L)[i].cur /\ bufLen = After(L)[i].curLen
  BY <1>1, ListedFacts
<1>4. i = n
  <2>1. n \in Nat
    BY <1>2
  <2>2. CASE i # n
    <3>1. i + 1 \in 1 .. n /\ n \in i + 1 .. n
      BY <2>1, <2>2
    <3>2. SubSeq(L, i + 1, n) = <<L[i + 1]>> \o SubSeq(L, (i + 1) + 1, n)
      BY <1>2, <3>1, SubSeqRecursiveFirst
    <3>3. \A j \in (i + 1) + 1 .. n : L[j] \in Items
      BY <1>2, <2>1
    <3>4. SubSeq(L, (i + 1) + 1, n) \in Seq(Items) /\ L[i + 1] \in Items
      BY <1>2, <2>1, <3>1, <3>3, SubSeqProperties
    <3>5. \A e \in Items : \A x \in Seq(Items) : <<e>> \o x # << >>
      OBVIOUS
    <3> QED
      BY <1>1, <1>3, <3>2, <3>4, <3>5
  <2> QED
    BY <2>2
<1>5. /\ end.out \in Seq(Seq(Items)) /\ buf \in Seq(Items)
      /\ sent = Opening \o end.out /\ buf = end.cur /\ (buf = << >> \/ Within(buf))
  BY <1>3, <1>4 DEF Batching, BatchesOf
<1>6. batchRRs(L) = IF end.cur = << >> THEN end.out ELSE Append(end.out, end.cur)
  BY batchRRsIsAfter
<1> HIDE DEF L, n, end
<1>7. CASE buf = << >>
  <2>1. pc' = "close" /\ sent' = sent
    BY <1>1, <1>7 DEF Send
  <2>2. sent' = Opening \o batchRRs(L)
    BY <1>5, <1>6, <1>7, <2>1
  <2> QED
    BY <1>1, <1>2, <2>1, <2>2, LaterStep DEF L
<1>8. CASE buf # << >>
  <2>1. buf \in Seq(RR) /\ Within(buf)
    BY <1>2, <1>5, <1>8, SeqMonotonic
  <2>2. CASE pc' = "close" /\ sent' = Append(sent, buf)
    <3>1. Opening \in Seq(Seq(RR))
      BY <1>2, JobTypes, SOAType DEF Opening
    <3>2. end.out \in Seq(Seq(RR))
      <4>1. Seq(Items) \subseteq Seq(RR)
        BY <1>2, SeqMonotonic
      <4> QED
        BY <1>5, <4>1, SeqMonotonic
    <3>3. Opening \o Append(end.out, buf) = Append(Opening \o end.out, buf)
      BY <2>1, <3>1, <3>2, AppendMessage
    <3>4. sent' = Opening \o batchRRs(L)
      BY <1>5, <1>6, <1>8, <2>2, <3>3
    <3> QED
      BY <1>1, <1>2, <2>2, <3>4, LaterStep DEF L
  <2>3. CASE pc' = "aborted" /\ \E k \in DOMAIN buf : Unsendable(buf[k])
    BY <1>1, <1>5, <2>3, UnsendableItemRR, LaterStep
  <2> QED
    BY <1>1, <2>1, <2>2, <2>3, SendMessage
<1> QED
  BY <1>7, <1>8

\* The types of an incremental transfer.
LEMMA DifferingFacts ==
  ASSUME StreamInv, pc = "deltas"
  PROVE  /\ job \in Jobs /\ ~job.full /\ job.serial \in Int /\ job.deltas \in Seq(Delta)
         /\ queue \in Seq(Seq(DeltaRRs)) /\ queue \in Seq(Seq(RR)) /\ sent \in Seq(Seq(RR))
         /\ \A k \in 1 .. Len(queue) : Within(queue[k])
         /\ Differences \in Seq(Seq(RR)) /\ Len(Differences) = Len(job.deltas)
         /\ <<soa(job.serial)>> \in Seq(RR)
         /\ \E i : DifferingAt(i)
<1>1. job \in Jobs /\ ~job.full /\ Differing
  BY DEF StreamInv
<1>2. job.serial \in Int /\ job.deltas \in Seq(Delta)
  BY <1>1, JobTypes
<1>3. Seq(DeltaRRs) \subseteq Seq(RR)
  BY DeltaRRsType, SeqMonotonic
<1>4. Differences \in Seq(Seq(RR)) /\ Len(Differences) = Len(job.deltas)
  BY <1>1, <1>3, DifferencesType, SeqMonotonic
<1>5. soa(job.serial) \in RR
  BY <1>2, SOAType
<1>6. /\ queue \in Seq(Seq(DeltaRRs)) /\ sent \in Seq(Seq(RR))
      /\ \A k \in 1 .. Len(queue) : Within(queue[k])
      /\ \E i : DifferingAt(i)
  BY <1>1 DEF Differing
<1>7. queue \in Seq(Seq(RR))
  BY <1>3, <1>6, SeqMonotonic
<1> QED
  BY <1>1, <1>2, <1>4, <1>5, <1>6, <1>7

LEMMA BatchDeltaStep ==
  ASSUME StreamInv, BatchDelta
  PROVE  StreamInv'
<1>1. /\ pc = "deltas" /\ left # << >> /\ queue = << >> /\ pc' = pc /\ sent' = sent
      /\ job' = job /\ table' = table /\ left' = Tail(left)
      /\ queue' = batchRRs(DifferenceSequence(Head(left)))
  BY DEF BatchDelta
<1>2. /\ job \in Jobs /\ ~job.full /\ job.deltas \in Seq(Delta) /\ sent \in Seq(Seq(RR))
      /\ Differences \in Seq(Seq(RR)) /\ Len(Differences) = Len(job.deltas)
      /\ <<soa(job.serial)>> \in Seq(RR)
  BY <1>1, DifferingFacts
<1>3. PICK i : DifferingAt(i)
  BY <1>1, DifferingFacts
<1> DEFINE q == job.deltas
           n == Len(q)
           s == <<soa(job.serial)>>
           d == q[i + 1]
           f == FlattenSeq(First(Differences, i))
<1>4. n \in Nat /\ i \in 0 .. n /\ left = SubSeq(q, i + 1, n) /\ FlattenSeq(sent) \o FlattenSeq(queue) = s \o f
  BY <1>2, <1>3 DEF DifferingAt
<1>5. i + 1 \in 1 .. n
  <2>1. i + 1 > n => SubSeq(q, i + 1, n) = << >>
    BY <1>4, SubSeqEmpty
  <2> QED
    BY <1>1, <1>4, <2>1
<1>6. Head(left) = d /\ left' = SubSeq(q, (i + 1) + 1, n)
  <2>1. n \in i + 1 .. n
    BY <1>4, <1>5
  <2>2. Head(SubSeq(q, i + 1, n)) = q[i + 1] /\ Tail(SubSeq(q, i + 1, n)) = SubSeq(q, (i + 1) + 1, n)
    BY <1>2, <1>5, <2>1, HeadTailOfSubSeq
  <2> QED
    BY <1>1, <1>4, <2>2
<1>7. DifferenceSequence(d) \in Seq(DeltaRRs) /\ Differences[i + 1] = DifferenceSequence(d)
  BY <1>2, <1>5, DifferenceType, DifferencesType
<1>8. /\ queue' \in Seq(Seq(DeltaRRs)) /\ \A k \in 1 .. Len(queue') : Within(queue'[k])
      /\ FlattenSeq(queue') = DifferenceSequence(d)
  BY <1>1, <1>6, <1>7, DeltaRRsType, batchRRsResult
<1>9. f \in Seq(RR) /\ FlattenSeq(First(Differences, i + 1)) = f \o DifferenceSequence(d)
  <2>1. i + 1 \in 1 .. Len(Differences) /\ (i + 1) - 1 = i
    BY <1>2, <1>4, <1>5
  <2>2. /\ First(Differences, i) \in Seq(Seq(RR)) /\ Differences[i + 1] \in Seq(RR)
        /\ First(Differences, i + 1) = Append(First(Differences, i), Differences[i + 1])
    BY <1>2, <2>1, FirstStep
  <2> QED
    BY <1>7, <2>2, FlattenType, FlattenAppend
<1>10. FlattenSeq(sent) = s \o f
  <2>1. FlattenSeq(sent) \in Seq(RR)
    BY <1>2, FlattenType
  <2>2. FlattenSeq(sent) \o << >> = FlattenSeq(sent)
    BY <2>1, ConcatEmptySeq
  <2> QED
    BY <1>1, <1>4, <2>2, FlattenEmpty
<1>11. FlattenSeq(sent') \o FlattenSeq(queue') = s \o FlattenSeq(First(Differences, i + 1))
  <2> DEFINE x == DifferenceSequence(d)
  <2>1. s \in Seq(RR) /\ f \in Seq(RR) /\ x \in Seq(RR)
    BY <1>2, <1>7, <1>9, DeltaRRsType, SeqMonotonic
  <2>2. (s \o f) \o x = s \o (f \o x)
    <3>1. \A a, b, c \in Seq(RR) : (a \o b) \o c = a \o (b \o c)
      OBVIOUS
    <3> HIDE DEF s, f, x
    <3> QED
      BY <2>1, <3>1
  <2> HIDE DEF s, f, x
  <2> QED
    BY <1>1, <1>8, <1>9, <1>10, <2>2 DEF x
<1>12. DifferingAt(i + 1)'
  <2>1. i + 1 \in 0 .. n
    BY <1>4, <1>5
  <2>2. Differences' = Differences
    BY <1>1, SameJob
  <2> QED
    BY <1>1, <1>6, <1>11, <2>1, <2>2, Zenon DEF DifferingAt
<1>13. Differing'
  <2>1. DeltaRRs' = DeltaRRs
    BY <1>1, SameJob
  <2> QED
    BY <1>1, <1>2, <1>8, <1>12, <2>1 DEF Differing
<1> QED
  BY <1>1, <1>2, <1>13, LaterStep

LEMMA SendBatchStep ==
  ASSUME StreamInv, SendBatch
  PROVE  StreamInv'
<1>1. /\ pc = "deltas" /\ queue # << >> /\ Send(Head(queue), "deltas")
      /\ job' = job /\ table' = table /\ left' = left /\ queue' = Tail(queue)
  BY DEF SendBatch
<1>2. /\ job \in Jobs /\ ~job.full /\ sent \in Seq(Seq(RR)) /\ queue \in Seq(Seq(DeltaRRs))
      /\ queue \in Seq(Seq(RR)) /\ \A k \in 1 .. Len(queue) : Within(queue[k])
  BY <1>1, DifferingFacts
<1> DEFINE m == Head(queue)
           t == Tail(queue)
<1>3. /\ m \in Seq(DeltaRRs) /\ t \in Seq(Seq(DeltaRRs)) /\ queue = <<m>> \o t
      /\ m \in Seq(RR) /\ t \in Seq(Seq(RR)) /\ Within(m) /\ \A k \in 1 .. Len(t) : Within(t[k])
  BY <1>1, <1>2
<1> HIDE DEF m, t
<1>4. CASE pc' = "deltas" /\ sent' = Append(sent, m)
  <2>1. PICK i : DifferingAt(i)
    BY <1>1, DifferingFacts
  <2>2. FlattenSeq(queue) = m \o FlattenSeq(t)
    <3> DEFINE none == << >>
               one == Append(none, m)
    <3>1. none \in Seq(Seq(RR)) /\ FlattenSeq(none) = << >> /\ one = <<m>>
      BY FlattenEmpty
    <3>2. one \in Seq(Seq(RR))
      BY <1>3
    <3>3. FlattenSeq(one) = m
      <4> HIDE DEF none
      <4>1. FlattenSeq(Append(none, m)) = FlattenSeq(none) \o m
        BY <1>3, <3>1, FlattenAppend
      <4> QED
        BY <1>3, <3>1, <4>1, ConcatEmptySeq
    <3> HIDE DEF one
    <3>4. FlattenSeq(one \o t) = FlattenSeq(one) \o FlattenSeq(t)
      BY <1>3, <3>2, FlattenConcat
    <3> QED
      BY <1>3, <3>1, <3>3, <3>4
  <2>3. FlattenSeq(sent') = FlattenSeq(sent) \o m
    BY <1>2, <1>3, <1>4, FlattenAppend
  <2>4. FlattenSeq(sent) \in Seq(RR) /\ FlattenSeq(t) \in Seq(RR)
    BY <1>2, <1>3, FlattenType
  <2>5. FlattenSeq(sent') \o FlattenSeq(t) = FlattenSeq(sent) \o FlattenSeq(queue)
    <3> DEFINE a == FlattenSeq(sent)
               c == FlattenSeq(t)
    <3>1. \A x, y, w \in Seq(RR) : (x \o y) \o w = x \o (y \o w)
      OBVIOUS
    <3>2. a \in Seq(RR) /\ c \in Seq(RR)
      BY <2>4
    <3> HIDE DEF a, c
    <3>3. (a \o m) \o c = a \o (m \o c)
      BY <1>3, <3>1, <3>2
    <3> QED
      BY <2>2, <2>3, <3>3 DEF a, c
  <2>6. DifferingAt(i)'
    <3>1. Differences' = Differences /\ queue' = t
      BY <1>1, SameJob DEF t
    <3> QED
      BY <1>1, <2>1, <2>5, <3>1, Zenon DEF DifferingAt
  <2>7. Differing'
    <3>1. DeltaRRs' = DeltaRRs /\ queue' = t
      BY <1>1, SameJob DEF t
    <3>2. sent' \in Seq(Seq(RR))
      BY <1>2, <1>3, <1>4, AppendProperties
    <3> QED
      BY <1>3, <2>6, <3>1, <3>2 DEF Differing
  <2> QED
    BY <1>1, <1>2, <1>4, <2>7, LaterStep
<1>5. CASE pc' = "aborted" /\ \E k \in DOMAIN m : Unsendable(m[k])
  <2>1. UnsendableDelta
    BY <1>2, <1>3, <1>5, UnsendableDeltaRR
  <2> QED
    BY <1>1, <1>5, <2>1, LaterStep
<1>6. Send(m, "deltas")
  BY <1>1 DEF m
<1> QED
  BY <1>3, <1>4, <1>5, <1>6, SendMessage

LEMMA ClosingStep ==
  ASSUME StreamInv, SendClosingSOA
  PROVE  StreamInv'
<1>1. /\ pc = "close" \/ (pc = "deltas" /\ left = << >> /\ queue = << >>)
      /\ Send(<<soa(job.serial)>>, "done") /\ job' = job /\ table' = table
  <2>1. UNCHANGED <<job, table>>
    BY DEF SendClosingSOA
  <2> QED
    BY <2>1, Zenon DEF SendClosingSOA
<1>2. job \in Jobs /\ job.serial \in Int
  BY JobTypes DEF StreamInv
<1>3. pc' = "done" /\ sent' = Append(sent, <<soa(job.serial)>>)
  BY <1>1, <1>2, SendSOA
<1>4. Listing' = Listing /\ Opening' = Opening /\ Differences' = Differences
  BY <1>1, SameJob
<1>5. CASE pc = "close"
  <2>1. job.full /\ sent = Opening \o batchRRs(Listing)
    BY <1>5 DEF StreamInv
  <2>2. Finished'
    BY <1>1, <1>3, <1>4, <2>1 DEF Finished
  <2> QED
    BY <1>1, <1>3, <1>5, <2>2, LaterStep
<1>6. CASE pc = "deltas" /\ left = << >> /\ queue = << >>
  <2> DEFINE s == <<soa(job.serial)>>
             q == job.deltas
             n == Len(q)
  <2>1. /\ ~job.full /\ q \in Seq(Delta) /\ sent \in Seq(Seq(RR)) /\ s \in Seq(RR)
        /\ Differences \in Seq(Seq(RR)) /\ Len(Differences) = n
    BY <1>6, DifferingFacts
  <2>2. PICK i : DifferingAt(i)
    BY <1>6, DifferingFacts
  <2>3. i = n
    <3>1. n \in Nat /\ i \in 0 .. n /\ left = SubSeq(q, i + 1, n)
      BY <2>1, <2>2 DEF DifferingAt
    <3>2. CASE i # n
      <4>1. i + 1 \in 1 .. n /\ n \in i + 1 .. n /\ \A j \in i + 1 .. n : q[j] \in Delta
        BY <2>1, <3>1, <3>2
      <4>2. Len(SubSeq(q, i + 1, n)) = n - (i + 1) + 1
        BY <4>1, SubSeqProperties
      <4>3. n - (i + 1) + 1 # 0 /\ Len(<< >>) = 0
        BY <3>1, <4>1
      <4> QED
        BY <1>6, <3>1, <4>2, <4>3
    <3> QED
      BY <3>2
  <2>4. FlattenSeq(sent) = s \o FlattenSeq(Differences)
    <3>1. FlattenSeq(sent) \o FlattenSeq(queue) = s \o FlattenSeq(First(Differences, n))
      BY <2>2, <2>3 DEF DifferingAt
    <3>2. First(Differences, n) = Differences
      BY <2>1, FirstNoneAll
    <3>3. FlattenSeq(sent) \in Seq(RR)
      BY <2>1, FlattenType
    <3>4. FlattenSeq(sent) \o << >> = FlattenSeq(sent)
      BY <3>3, ConcatEmptySeq
    <3> QED
      BY <1>6, <3>1, <3>2, <3>4, FlattenEmpty
  <2>5. FlattenSeq(sent') = (s \o FlattenSeq(Differences)) \o s
    BY <1>3, <2>1, <2>4, FlattenAppend
  <2>6. sent' \in Seq(Seq(RR))
    BY <1>3, <2>1, AppendProperties
  <2>7. Finished'
    BY <1>1, <1>4, <2>1, <2>5, <2>6 DEF Finished
  <2> QED
    BY <1>1, <1>3, <1>6, <2>7, LaterStep
<1> QED
  BY <1>1, <1>5, <1>6

\* Where a stream is, in the terms of what it was asked for.
THEOREM StreamInvariant == Spec => []StreamInv
<1>1. Init => StreamInv
  BY DEF Init, StreamInv
<1>2. StreamInv /\ [Next]_streamVars => StreamInv'
  <2> SUFFICES ASSUME StreamInv, [Next]_streamVars PROVE StreamInv'
    OBVIOUS
  <2>1. CASE UNCHANGED streamVars
    BY <2>1, ZenonT(60) DEF streamVars, StreamInv, Texts, Listing, Opening, Differences, DeltaRRs, UnsendableItem,
                UnsendableDelta, Unsendable, Overlong, Listed, ListedAt, Differing, DifferingAt, Finished
  <2> QED
    BY <2>1, ApplyUpdatesStep, OpeningStep, AddRRStep, FinalFlushStep, BatchDeltaStep,
       SendBatchStep, ClosingStep DEF Next, Ended
<1> QED
  BY <1>1, <1>2, PTL DEF Spec

\* A stream that is finished, in the terms of its job.
LEMMA Between ==
  ASSUME NEW T, NEW a \in T, NEW b \in Seq(T), NEW c \in T, NEW x, x = (<<a>> \o b) \o <<c>>
  PROVE  x \in Seq(T) /\ SubSeq(x, 2, Len(x) - 1) = b
<1>1. /\ x \in Seq(T) /\ Len(x) = Len(b) + 2 /\ Len(b) \in Nat
      /\ \A i \in 1 .. Len(b) : x[i + 1] = b[i]
  OBVIOUS
<1>2. Len(x) - 1 = Len(b) + 1 /\ \A i \in 2 .. Len(b) + 1 : x[i] \in T
  BY <1>1
<1> DEFINE m == Len(b) + 1
<1>3. /\ SubSeq(x, 2, m) \in Seq(T) /\ Len(SubSeq(x, 2, m)) = Len(b)
      /\ \A i \in 1 .. Len(b) : SubSeq(x, 2, m)[i] = x[i + 1]
  <2>1. m \in Int /\ 2 \in Int
    BY <1>1
  <2>2. /\ SubSeq(x, 2, m) \in Seq(T) /\ Len(SubSeq(x, 2, m)) = IF 2 <= m THEN m - 2 + 1 ELSE 0
        /\ \A i \in 1 .. m - 2 + 1 : SubSeq(x, 2, m)[i] = x[2 + i - 1]
    BY <1>2, <2>1, SubSeqProperties
  <2> QED
    BY <1>1, <2>2
<1>4. SubSeq(x, 2, m) = b
  <2>1. \A i \in 1 .. Len(b) : SubSeq(x, 2, m)[i] = b[i]
    BY <1>1, <1>3
  <2> QED
    BY <1>3, <2>1, SeqEqual
<1> QED
  BY <1>1, <1>2, <1>4

LEMMA FinishedFacts ==
  ASSUME StreamInv, pc = "done"
  PROVE  /\ job \in Jobs /\ table = Texts /\ Finished
         /\ job.serial \in Int /\ soa(job.serial) \in RR /\ <<soa(job.serial)>> \in Seq(RR)
<1>1. job \in Jobs /\ table = Texts /\ Finished
  BY DEF StreamInv
<1>2. job.serial \in Int /\ soa(job.serial) \in RR
  BY <1>1, JobTypes, SOAType
<1> QED
  BY <1>1, <1>2

\* A full stream holds what batchRRs would make of the listing.
LEMMA FullStream ==
  ASSUME StreamInv, pc = "done", job.full
  PROVE  /\ SubSeq(sent, 2, Len(sent) - 1) = batchRRs(Listing)
         /\ Body = Listing
<1> DEFINE B == batchRRs(Listing)
           s == <<soa(job.serial)>>
<1>1. /\ job \in Jobs /\ table = Texts /\ s \in Seq(RR) /\ soa(job.serial) \in RR
      /\ sent = Append(Opening \o B, s)
  BY FinishedFacts DEF Finished
<1>2. Items \subseteq RR /\ Listing \in Seq(Items)
  BY <1>1, ListingType
<1>3. B \in Seq(Seq(RR)) /\ FlattenSeq(B) = Listing
  <2>1. B \in Seq(Seq(Items)) /\ FlattenSeq(B) = Listing
    BY <1>2, batchRRsResult
  <2>2. Seq(Items) \subseteq Seq(RR)
    BY <1>2, SeqMonotonic
  <2> QED
    BY <2>1, <2>2, SeqMonotonic
<1>4. Opening = <<s>>
  BY DEF Opening
<1>5. Listing \in Seq(RR)
  BY <1>2, SeqMonotonic
<1> HIDE DEF B, s
<1>6. <<s>> \in Seq(Seq(RR)) /\ <<s>> \o B \in Seq(Seq(RR)) /\ sent = (<<s>> \o B) \o <<s>>
  BY <1>1, <1>3, <1>4
<1>7. SubSeq(sent, 2, Len(sent) - 1) = B
  BY <1>1, <1>3, <1>6, Between
<1>8. FlattenSeq(<<s>>) = s
  <2> DEFINE none == << >>
  <2>1. none \in Seq(Seq(RR)) /\ FlattenSeq(none) = << >> /\ Append(none, s) = <<s>>
    BY FlattenEmpty
  <2> HIDE DEF none
  <2>2. FlattenSeq(Append(none, s)) = FlattenSeq(none) \o s
    BY <1>1, <2>1, FlattenAppend
  <2> QED
    BY <1>1, <2>1, <2>2, ConcatEmptySeq
<1>9. Received = (s \o Listing) \o s
  <2>1. FlattenSeq(<<s>> \o B) = FlattenSeq(<<s>>) \o FlattenSeq(B)
    BY <1>3, <1>6, FlattenConcat
  <2>2. FlattenSeq((<<s>> \o B) \o <<s>>) = FlattenSeq(<<s>> \o B) \o FlattenSeq(<<s>>)
    BY <1>6, FlattenConcat
  <2> QED
    BY <1>3, <1>6, <1>8, <2>1, <2>2 DEF Received
<1>10. Body = Listing
  BY <1>1, <1>5, <1>9, Between DEF Body, s
<1> QED
  BY <1>7, <1>10 DEF B

\* An incremental one holds the difference sequences.
LEMMA IncrementalStream ==
  ASSUME StreamInv, pc = "done", ~job.full
  PROVE  Body = FlattenSeq(Differences) /\ FlattenSeq(Differences) \in Seq(RR)
<1> DEFINE s == <<soa(job.serial)>>
           F == FlattenSeq(Differences)
<1>1. job \in Jobs /\ soa(job.serial) \in RR /\ Received = (s \o F) \o s
  BY FinishedFacts DEF Finished, Received
<1>2. F \in Seq(RR)
  <2>1. Differences \in Seq(Seq(DeltaRRs)) /\ Seq(DeltaRRs) \subseteq Seq(RR)
    BY <1>1, DifferencesType, DeltaRRsType, SeqMonotonic
  <2>2. Differences \in Seq(Seq(RR))
    BY <2>1, SeqMonotonic
  <2> QED
    BY <2>2, FlattenType
<1> HIDE DEF F
<1>3. Body = F
  BY <1>1, <1>2, Between DEF Body
<1> QED
  BY <1>2, <1>3 DEF F

-----------------------------------------------------------------------------

(***************************************************************************)
(* The properties of module Stream, for every set of jobs.                 *)
(***************************************************************************)

\* Whatever an UPDATE client put on the wire, and however it cut it into strings,
\* is what decodeTXTStrings hands to the JSON parser.
THEOREM WireTextIsStored == Spec => []DecodedAsSent
<1>1. StreamInv => DecodedAsSent
  <2>1. DOMAIN << >> = {}
    OBVIOUS
  <2> QED
    BY <2>1 DEF StreamInv, DecodedAsSent, Texts
<1> QED
  BY <1>1, StreamInvariant, PTL

\* The flush loop of a full transfer and batchRRs cut the same RRs into the same
\* messages.
THEOREM FlushLoopIsbatchRRs == Spec => []BatchersAgree
<1>1. StreamInv => BatchersAgree
  BY FullStream DEF BatchersAgree, Listing
<1> QED
  BY <1>1, StreamInvariant, PTL

\* A stream is given up only for an RR that no message could hold, be it for its
\* length or for its owner name: dns.Len is never too small, and the overhead makes up for the byte that axfrMaxBytes is
\* above what a message may have.
THEOREM OnlyUnsendableAborts == Spec => []AbortedOnlyByUnsendable
<1>1. StreamInv => AbortedOnlyByUnsendable
  BY DEF StreamInv, AbortedOnlyByUnsendable, UnsendableItem, UnsendableDelta
<1> QED
  BY <1>1, StreamInvariant, PTL

\* A full transfer delivers each item once, in order, and with its text if that has
\* no backslash.
THEOREM PlainZonesAreServed == Spec => []PlainServedIntact
<1>1. StreamInv => PlainServedIntact
  <2> SUFFICES ASSUME StreamInv, pc = "done", job.full
               PROVE  /\ DOMAIN Delivered = DOMAIN Sent
                      /\ \A k \in DOMAIN Sent :
                           /\ Delivered[k][1] = Sent[k][1]
                           /\ Delivered[k][2] # Sent[k][2] =>
                                \E i \in DOMAIN Sent[k][2] : Sent[k][2][i] = "b"
    BY DEF PlainServedIntact
  <2>1. job \in Jobs /\ table = Texts
    BY FinishedFacts
  <2>2. /\ table \in Seq(Seq(Byte)) /\ Len(table) = Len(job.packets)
        /\ DOMAIN job.packets = 1 .. Len(table) /\ Len(table) \in Nat
    BY <2>1, TextsType, JobTypes
  <2>3. /\ Listing \in Seq(Items) /\ Len(Listing) = Len(table)
        /\ \A k \in 1 .. Len(table) : Listing[k] = itemRR(k, table[k])
    BY <2>1, ListingType
  <2>4. Body = Listing /\ DOMAIN Body = 1 .. Len(table)
    BY <2>3, FullStream
  <2>5. Sent = [k \in 1 .. Len(table) |-> <<k, table[k]>>]
    <3>1. \A k \in 1 .. Len(table) : table[k] = FlattenSeq(job.packets[k])
      BY <2>1, <2>2 DEF Texts
    <3> QED
      BY <2>2, <3>1 DEF Sent
  <2>6. ASSUME NEW k \in 1 .. Len(table)
        PROVE  /\ Delivered[k][1] = Sent[k][1]
               /\ Delivered[k][2] # Sent[k][2] => \E i \in DOMAIN Sent[k][2] : Sent[k][2][i] = "b"
    <3>1. k \in Nat /\ table[k] \in Seq(Byte) /\ DOMAIN table[k] = 1 .. Len(table[k])
      BY <2>2
    <3>2. /\ Delivered[k][1] = itemRR(k, table[k]).owner
          /\ Delivered[k][2] = WireText(itemRR(k, table[k]))
      BY <2>3, <2>4 DEF Delivered
    <3>3. Sent[k][1] = k /\ Sent[k][2] = table[k]
      BY <2>5
    <3>4. itemRR(k, table[k]).owner = k
      BY <3>1, ItemRR
    <3>5. (\A i \in 1 .. Len(table[k]) : table[k][i] # "b") => WireText(itemRR(k, table[k])) = table[k]
      BY <3>1, ItemRR
    <3> QED
      BY <3>1, <3>2, <3>3, <3>4, <3>5
  <2> QED
    BY <2>4, <2>5, <2>6 DEF Delivered
<1> QED
  BY <1>1, StreamInvariant, PTL

-----------------------------------------------------------------------------

(***************************************************************************)
(* An RFC 1995 client reading the difference sequences.                    *)
(***************************************************************************)

\* Where the next SOA is, or the end.
LEMMA NextSOAIs ==
  ASSUME NEW q \in Seq(RR), NEW i \in Nat, NEW m \in i + 1 .. Len(q) + 1,
         \A k \in i + 1 .. m - 1 : q[k].soa = NoSerial,
         m <= Len(q) => q[m].soa # NoSerial
  PROVE  NextSOA(q, i) = m
<1> DEFINE S == {j \in SOAsAt(q) : j > i} \cup {Len(q) + 1}
<1>1. Len(q) \in Nat /\ SOAsAt(q) = {j \in 1 .. Len(q) : q[j].soa # NoSerial}
  BY DEF SOAsAt
<1>2. m \in S
  BY <1>1
<1>3. S \subseteq Int /\ \A y \in S : m <= y
  BY <1>1
<1>4. \A x \in S : (\A y \in S : x <= y) => x = m
  BY <1>2, <1>3
<1>5. NextSOA(q, i) = Min(S)
  BY DEF NextSOA
<1> HIDE DEF S
<1>6. Min(S) = m
  BY <1>2, <1>3, <1>4 DEF Min
<1> QED
  BY <1>5, <1>6

LEMMA NextSOABounds ==
  ASSUME NEW q \in Seq(RR), NEW i \in 1 .. Len(q) + 1
  PROVE  /\ NextSOA(q, i) \in 1 .. Len(q) + 1 /\ i <= NextSOA(q, i)
         /\ i <= Len(q) => NextSOA(q, i) > i
<1> DEFINE S == {j \in SOAsAt(q) : j > i} \cup {Len(q) + 1}
<1>1. Len(q) \in Nat /\ SOAsAt(q) = {j \in 1 .. Len(q) : q[j].soa # NoSerial}
  BY DEF SOAsAt
<1>2. S \subseteq Nat /\ S # {} /\ \A j \in S : j \in 1 .. Len(q) + 1 /\ i <= j /\ (i <= Len(q) => j > i)
  BY <1>1
<1>3. NextSOA(q, i) = Min(S)
  BY DEF NextSOA
<1> HIDE DEF S
<1>4. \E m \in S : \A j \in S : m <= j
  BY <1>2, LeastNatural
<1>5. Min(S) \in S
  BY <1>4 DEF Min
<1> QED
  BY <1>2, <1>3, <1>5

\* The delta a client finds at i.
Mid(q, i) == NextSOA(q, i)

End(q, i) == NextSOA(q, NextSOA(q, i))

Found(q, i) ==
  [from |-> q[i].soa, removed |-> SubSeq(q, i + 1, Mid(q, i) - 1),
   to |-> q[Mid(q, i)].soa, added |-> SubSeq(q, Mid(q, i) + 1, End(q, i) - 1)]

ParsedFrom(z, q, i) ==
  IF i > Len(q) THEN << >>
  ELSE IF Mid(q, i) > Len(q) THEN << >> ELSE <<Found(q, i)>> \o z[End(q, i)]

Parsing(z, q) == z = [i \in 1 .. Len(q) + 1 |-> ParsedFrom(z, q, i)]

LEMMA ParsingExists ==
  ASSUME NEW q \in Seq(RR)
  PROVE  \E z : Parsing(z, q)
<1> DEFINE n == Len(q)
           E == {Found(q, i) : i \in 1 .. n}
           S == Seq(E)
           G == [i \in 1 .. n |-> [x \in S |-> IF Mid(q, i) > n THEN << >> ELSE <<Found(q, i)>> \o x]]
           next == [i \in 1 .. n |-> IF Mid(q, i) > n THEN i + 1 ELSE End(q, i)]
           empty == << >>
<1>1. n \in Nat
  OBVIOUS
<1>2. \A i \in 1 .. n : i + 1 \in 1 .. n + 1 /\ (~(Mid(q, i) > n) => End(q, i) \in 1 .. n + 1 /\ End(q, i) > i)
  <2> TAKE i \in 1 .. n
  <2>1. Mid(q, i) \in 1 .. n + 1 /\ Mid(q, i) > i
    BY <1>1, NextSOABounds DEF Mid
  <2>2. End(q, i) \in 1 .. n + 1 /\ Mid(q, i) <= End(q, i)
    BY <1>1, <2>1, NextSOABounds DEF Mid, End
  <2> QED
    BY <1>1, <2>1, <2>2
<1> HIDE DEF n
<1>3. empty \in S /\ G \in [1 .. n -> [S -> S]]
  <2>1. \A e \in E : \A x \in Seq(E) : <<e>> \o x \in Seq(E)
    OBVIOUS
  <2>2. \A i \in 1 .. n : Found(q, i) \in E
    OBVIOUS
  <2>3. << >> \in Seq(E)
    OBVIOUS
  <2> HIDE DEF E
  <2> QED
    BY <2>1, <2>2, <2>3
<1>4. next \in [1 .. n -> 1 .. n + 1] /\ \A i \in 1 .. n : next[i] > i
  BY <1>1, <1>2
<1>5. \A i \in 1 .. n : \A x \in S : G[i][x] = IF Mid(q, i) > n THEN << >> ELSE <<Found(q, i)>> \o x
  OBVIOUS
<1>6. \A i \in 1 .. n : next[i] = IF Mid(q, i) > n THEN i + 1 ELSE End(q, i)
  OBVIOUS
<1> HIDE DEF G, S, next, empty
<1>7. PICK z : GoesDownward(z, S, empty, n, G, next)
  <2>1. DownwardRule(S, empty, n, G, next)
    BY <1>1, <1>3, <1>4 DEF DownwardRule
  <2> QED
    BY <2>1, DownwardFunction
<1>8. \A i \in 1 .. n : z[next[i]] \in S /\ z[i] = G[i][z[next[i]]]
  BY <1>4, <1>7 DEF GoesDownward
<1>9. \A i \in 1 .. n : z[i] = IF Mid(q, i) > n THEN << >> ELSE <<Found(q, i)>> \o z[End(q, i)]
  <2> TAKE i \in 1 .. n
  <2>1. z[i] = IF Mid(q, i) > n THEN << >> ELSE <<Found(q, i)>> \o z[next[i]]
    BY <1>5, <1>8
  <2> QED
    BY <1>6, <2>1
<1>10. z = [i \in 1 .. n + 1 |-> z[i]] /\ z[n + 1] = << >>
  BY <1>7 DEF GoesDownward, empty
<1>11. \A i \in 1 .. n + 1 : z[i] = ParsedFrom(z, q, i)
  <2> TAKE i \in 1 .. n + 1
  <2>1. CASE i = n + 1
    <3>1. i > Len(q)
      BY <1>1, <2>1 DEF n
    <3> QED
      BY <1>10, <2>1, <3>1 DEF ParsedFrom
  <2>2. CASE i # n + 1
    <3>1. i \in 1 .. n /\ ~(i > Len(q))
      BY <1>1, <2>2 DEF n
    <3> QED
      BY <1>9, <3>1 DEF ParsedFrom, n
  <2> QED
    BY <2>1, <2>2
<1>12. Parsing(z, q)
  BY <1>10, <1>11 DEF Parsing, n
<1> QED
  BY <1>12

LEMMA ParsedIsParsing ==
  ASSUME NEW q \in Seq(RR)
  PROVE  \E z : Parsing(z, q) /\ Parsed(q) = z[1]
<1> DEFINE z == CHOOSE f : f = [i \in 1 .. Len(q) + 1 |-> ParsedFrom(f, q, i)]
<1>1. PICK y : Parsing(y, q)
  BY ParsingExists
<1>2. Parsing(z, q)
  BY <1>1, Zenon DEF Parsing
<1>3. Parsed(q) = z[1]
  BY DEF Parsed, ParsedFrom, Found, Mid, End
<1> HIDE DEF z
<1> QED
  BY <1>2, <1>3

LEMMA ParsingAt ==
  ASSUME NEW q \in Seq(RR), NEW z, Parsing(z, q), NEW i \in 1 .. Len(q) + 1
  PROVE  z[i] = ParsedFrom(z, q, i)
BY DEF Parsing

\* Where things are in a difference sequence.
LEMMA DifferenceShape ==
  ASSUME NEW d \in Delta, NEW x, x = DifferenceSequence(d)
  PROVE  /\ x \in Seq(RR) /\ Len(d.removed) \in Nat /\ Len(d.added) \in Nat
         /\ Len(x) = Len(d.removed) + Len(d.added) + 2
         /\ x[1].soa = d.serial - 1 /\ x[1].soa # NoSerial
         /\ x[Len(d.removed) + 2].soa = d.serial /\ x[Len(d.removed) + 2].soa # NoSerial
         /\ \A k \in 1 .. Len(d.removed) : x[k + 1] = d.removed[k] /\ x[k + 1].soa = NoSerial
         /\ \A k \in 1 .. Len(d.added) : /\ x[Len(d.removed) + 2 + k] = d.added[k]
                                         /\ x[Len(d.removed) + 2 + k].soa = NoSerial
<1> DEFINE r == d.removed
           a == d.added
           old == soa(d.serial - 1)
           new == soa(d.serial)
<1>1. /\ d.serial \in Int /\ d.serial - 1 \in Int /\ r \in Seq(TXTRR) /\ a \in Seq(TXTRR)
      /\ r \in Seq(RR) /\ a \in Seq(RR)
  BY DeltaTypes
<1>2. /\ old \in RR /\ old.soa = d.serial - 1 /\ old.soa # NoSerial
      /\ new \in RR /\ new.soa = d.serial /\ new.soa # NoSerial
  BY <1>1, SOAType
<1>3. /\ \A k \in 1 .. Len(r) : r[k].soa = NoSerial
      /\ \A k \in 1 .. Len(a) : a[k].soa = NoSerial
  <2>1. \A e \in TXTRR : e.soa = NoSerial
    BY DEF TXTRR
  <2>2. (\A k \in 1 .. Len(r) : r[k] \in TXTRR) /\ (\A k \in 1 .. Len(a) : a[k] \in TXTRR)
    BY <1>1
  <2> QED
    BY <2>1, <2>2
<1>4. x = <<old>> \o r \o <<new>> \o a
  BY DEF DifferenceSequence
<1> HIDE DEF r, a, old, new
<1>5. Len(r) \in Nat /\ Len(a) \in Nat
  BY <1>1
<1> DEFINE u == <<old>> \o r
           v == u \o <<new>>
<1>6. /\ u \in Seq(RR) /\ Len(u) = Len(r) + 1 /\ u[1] = old
      /\ \A k \in 1 .. Len(r) : u[k + 1] = r[k]
  BY <1>1, <1>2
<1>7. x = v \o a
  BY <1>4
<1> HIDE DEF u
<1>8. /\ v \in Seq(RR) /\ Len(v) = Len(r) + 2 /\ v[Len(r) + 2] = new
      /\ \A k \in 1 .. Len(r) + 1 : v[k] = u[k]
  BY <1>2, <1>5, <1>6
<1> HIDE DEF v
<1>9. /\ x \in Seq(RR) /\ Len(x) = Len(r) + Len(a) + 2
      /\ \A k \in 1 .. Len(r) + 2 : x[k] = v[k]
      /\ \A k \in 1 .. Len(a) : x[Len(r) + 2 + k] = a[k]
  <2>1. /\ v \o a \in Seq(RR) /\ Len(v \o a) = Len(v) + Len(a)
        /\ \A k \in 1 .. Len(v) + Len(a) : (v \o a)[k] = IF k <= Len(v) THEN v[k] ELSE a[k - Len(v)]
    BY <1>1, <1>8, ConcatProperties
  <2>2. \A k \in 1 .. Len(r) + 2 : x[k] = v[k]
    BY <1>5, <1>7, <1>8, <2>1
  <2>3. \A k \in 1 .. Len(a) : x[Len(r) + 2 + k] = a[k]
    BY <1>5, <1>7, <1>8, <2>1
  <2> QED
    BY <1>5, <1>7, <1>8, <2>1, <2>2, <2>3
<1>10. x[1] = old /\ x[Len(r) + 2] = new /\ \A k \in 1 .. Len(r) : x[k + 1] = r[k]
  BY <1>5, <1>6, <1>8, <1>9
<1> QED
  BY <1>2, <1>3, <1>5, <1>9, <1>10 DEF r, a

LEMMA SubSeqIs ==
  ASSUME NEW T, NEW q \in Seq(T), NEW x \in Seq(T), NEW f \in Nat,
         f + Len(x) <= Len(q), \A k \in 1 .. Len(x) : q[f + k] = x[k]
  PROVE  SubSeq(q, f + 1, f + Len(x)) = x
<1> DEFINE t == f + Len(x)
           y == SubSeq(q, f + 1, t)
<1>1. Len(x) \in Nat /\ t \in Nat /\ Len(q) \in Nat
  OBVIOUS
<1>2. \A k \in f + 1 .. t : q[k] \in T
  BY <1>1
<1>3. /\ y \in Seq(T) /\ Len(y) = IF f + 1 <= t THEN t - (f + 1) + 1 ELSE 0
      /\ \A k \in 1 .. t - (f + 1) + 1 : y[k] = q[f + 1 + k - 1]
  <2>1. f + 1 \in Int /\ t \in Int
    BY <1>1
  <2> QED
    BY <1>2, <2>1, SubSeqProperties
<1> HIDE DEF y
<1>4. Len(y) = Len(x) /\ \A k \in 1 .. Len(x) : y[k] = x[k]
  BY <1>1, <1>3
<1> QED
  BY <1>3, <1>4, SeqEqual DEF y

\* A client that stands at the j-th delta finds just that, and the next after it.
LEMMA FoundDelta ==
  ASSUME NEW D \in Seq(Seq(RR)), NEW j \in 1 .. Len(D),
         NEW d \in Delta, D[j] = DifferenceSequence(d),
         j + 1 <= Len(D) => \E e \in Delta : D[j + 1] = DifferenceSequence(e)
  PROVE  LET F == FlattenSeq(D)
             i == Before(D, j) + 1
         IN  /\ i \in 1 .. Len(F) /\ Mid(F, i) \in 1 .. Len(F) /\ End(F, i) = Before(D, j + 1) + 1
             /\ Found(F, i) = [from |-> d.serial - 1, removed |-> d.removed,
                               to |-> d.serial, added |-> d.added]
<1> DEFINE F == FlattenSeq(D)
           N == Len(F)
           o == Before(D, j)
           p == Before(D, j + 1)
           x == D[j]
           r == Len(d.removed)
           a == Len(d.added)
<1>1. F \in Seq(RR)
  BY FlattenType
<1>2. N \in Nat
  BY <1>1
<1>3. o \in Nat /\ p = o + Len(x) /\ o + Len(x) <= N /\ \A k \in 1 .. Len(x) : F[o + k] = x[k]
  BY FlattenAt
<1>4. /\ r \in Nat /\ a \in Nat /\ Len(x) = r + a + 2
      /\ x[1].soa = d.serial - 1 /\ x[1].soa # NoSerial
      /\ x[r + 2].soa = d.serial /\ x[r + 2].soa # NoSerial
      /\ \A k \in 1 .. r : x[k + 1] = d.removed[k] /\ x[k + 1].soa = NoSerial
      /\ \A k \in 1 .. a : x[r + 2 + k] = d.added[k] /\ x[r + 2 + k].soa = NoSerial
  BY DifferenceShape, ZenonT(60)
<1>5. p + 1 <= N => F[p + 1].soa # NoSerial
  <2>1. CASE j + 1 <= Len(D)
    <3>1. PICK e \in Delta : D[j + 1] = DifferenceSequence(e)
      BY <2>1
    <3>2. j + 1 \in 1 .. Len(D)
      BY <2>1
    <3>3. \A k \in 1 .. Len(D[j + 1]) : F[p + k] = D[j + 1][k]
      BY <3>2, FlattenAt
    <3>4. D[j + 1][1].soa # NoSerial /\ 1 \in 1 .. Len(D[j + 1])
      <4> DEFINE y == D[j + 1]
      <4>1. /\ Len(e.removed) \in Nat /\ Len(e.added) \in Nat
            /\ Len(y) = Len(e.removed) + Len(e.added) + 2 /\ y[1].soa # NoSerial
        BY <3>1, DifferenceShape
      <4> HIDE DEF y
      <4>2. 1 \in 1 .. Len(y)
        <5>1. \A b, c \in Nat : 1 \in 1 .. b + c + 2
          OBVIOUS
        <5> QED
          BY <4>1, <5>1, Zenon
      <4> QED
        BY <4>1, <4>2 DEF y
    <3> QED
      BY <3>3, <3>4
  <2>2. CASE ~(j + 1 <= Len(D))
    <3>1. j = Len(D) /\ (j + 1) - 1 = j
      BY <2>2
    <3>2. First(D, j) = D
      BY <3>1, FirstNoneAll
    <3>3. p = N
      BY <3>1, <3>2 DEF Before
    <3> QED
      BY <1>2, <3>3
  <2> QED
    BY <2>1, <2>2
<1>6. d.removed \in Seq(RR) /\ d.added \in Seq(RR)
  BY DeltaTypes
<1> DEFINE i == o + 1
           m == o + r + 2
           e == p + 1
<1>7. /\ F[i].soa = d.serial - 1 /\ F[m].soa = d.serial /\ F[m].soa # NoSerial
      /\ \A k \in 1 .. r : F[i + k] = d.removed[k] /\ F[i + k].soa = NoSerial
      /\ \A k \in 1 .. a : F[m + k] = d.added[k] /\ F[m + k].soa = NoSerial
  <2> HIDE DEF F, N, o, p, x, r, a
  <2>0. 1 \in 1 .. Len(x) /\ r + 2 \in 1 .. Len(x)
    <3>1. r \in Nat /\ a \in Nat /\ Len(x) = r + a + 2
      BY <1>4
    <3> QED
      BY <3>1
  <2>1. F[o + 1] = x[1] /\ F[o + (r + 2)] = x[r + 2]
    BY <1>3, <2>0
  <2>2. \A k \in 1 .. r : F[o + (k + 1)] = x[k + 1] /\ o + (k + 1) = i + k
    BY <1>3, <1>4
  <2>3. \A k \in 1 .. a : F[o + (r + 2 + k)] = x[r + 2 + k] /\ o + (r + 2 + k) = m + k
    BY <1>3, <1>4
  <2>4. o + (r + 2) = m
    BY <1>3, <1>4
  <2>5. F[i].soa = d.serial - 1 /\ F[m].soa = d.serial /\ F[m].soa # NoSerial
    BY <1>4, <2>1, <2>4
  <2>6. \A k \in 1 .. r : F[i + k] = d.removed[k] /\ F[i + k].soa = NoSerial
    BY <1>4, <2>2
  <2>7. \A k \in 1 .. a : F[m + k] = d.added[k] /\ F[m + k].soa = NoSerial
    BY <1>4, <2>3
  <2> QED
    BY <2>5, <2>6, <2>7
<1> HIDE DEF F, N, o, p, x, r, a
<1>8. /\ i \in Nat /\ m \in Nat /\ m = i + r + 1 /\ e = m + a + 1
      /\ i \in 1 .. N /\ m \in 1 .. N /\ i + r <= N /\ m + a <= N /\ e \in m + 1 .. N + 1
  BY <1>2, <1>3, <1>4
<1> HIDE DEF i, m, e
<1>9. Mid(F, i) = m
  <2>1. m \in i + 1 .. Len(F) + 1
    <3>1. r \in Nat
      BY <1>4
    <3>2. m \in i + 1 .. N + 1
      BY <1>2, <1>8, <3>1
    <3> QED
      BY <3>2 DEF N
  <2>2. \A k \in i + 1 .. m - 1 : F[k].soa = NoSerial
    <3> TAKE k \in i + 1 .. m - 1
    <3>1. k - i \in 1 .. r /\ i + (k - i) = k
      BY <1>4, <1>8
    <3> QED
      BY <1>7, <3>1
  <2> QED
    BY <1>1, <1>7, <1>8, <2>1, <2>2, NextSOAIs DEF Mid
<1>10. End(F, i) = e
  <2>1. e \in m + 1 .. Len(F) + 1
    BY <1>8 DEF N
  <2>2. \A k \in m + 1 .. e - 1 : F[k].soa = NoSerial
    <3> TAKE k \in m + 1 .. e - 1
    <3>1. k - m \in 1 .. a /\ m + (k - m) = k
      BY <1>4, <1>8
    <3> QED
      BY <1>7, <3>1
  <2>3. e <= Len(F) => F[e].soa # NoSerial
    BY <1>5 DEF e, N
  <2>4. NextSOA(F, m) = e
    BY <1>1, <1>8, <2>1, <2>2, <2>3, NextSOAIs
  <2> QED
    BY <1>9, <2>4 DEF End, Mid
<1>11. SubSeq(F, i + 1, m - 1) = d.removed /\ SubSeq(F, m + 1, e - 1) = d.added
  <2>1. i + r = m - 1 /\ m + a = e - 1
    BY <1>4, <1>8
  <2>2. SubSeq(F, i + 1, i + r) = d.removed
    BY <1>1, <1>6, <1>7, <1>8, SubSeqIs DEF N, r
  <2>3. SubSeq(F, m + 1, m + a) = d.added
    BY <1>1, <1>6, <1>7, <1>8, SubSeqIs DEF N, a
  <2> QED
    BY <2>1, <2>2, <2>3
<1>12. Found(F, i) = [from |-> d.serial - 1, removed |-> d.removed, to |-> d.serial, added |-> d.added]
  BY <1>7, <1>9, <1>10, <1>11 DEF Found
<1> QED
  BY <1>8, <1>9, <1>10, <1>12 DEF F, N, i, e, o, p

\* The deltas as a client is to find them.
Expected ==
  [i \in DOMAIN job.deltas |->
     [from |-> job.deltas[i].serial - 1, removed |-> job.deltas[i].removed,
      to |-> job.deltas[i].serial, added |-> job.deltas[i].added]]

LEMMA ClientParses ==
  ASSUME job \in Jobs
  PROVE  Parsed(FlattenSeq(Differences)) = Expected
<1> DEFINE D == Differences
           F == FlattenSeq(D)
           n == Len(job.deltas)
           X == Expected
           E == {X[k] : k \in 1 .. n}
<1>1. job.deltas \in Seq(Delta) /\ n \in Nat /\ DOMAIN job.deltas = 1 .. n
  BY JobTypes
<1>2. D \in Seq(Seq(RR)) /\ Len(D) = n
  <2>1. Seq(DeltaRRs) \subseteq Seq(RR)
    BY DeltaRRsType, SeqMonotonic
  <2> QED
    BY <2>1, DifferencesType, SeqMonotonic
<1>3. \A k \in 1 .. n : job.deltas[k] \in Delta /\ D[k] = DifferenceSequence(job.deltas[k])
  BY DifferencesType, DifferenceType
<1>4. \A k \in 1 .. n : X[k] = [from |-> job.deltas[k].serial - 1, removed |-> job.deltas[k].removed,
                                to |-> job.deltas[k].serial, added |-> job.deltas[k].added]
  BY <1>1 DEF Expected
<1>5. X \in Seq(E) /\ Len(X) = n
  <2>1. X = [k \in 1 .. n |-> X[k]]
    BY <1>1 DEF Expected
  <2>2. \A k \in 1 .. n : X[k] \in E
    OBVIOUS
  <2> HIDE DEF X, E, n
  <2> QED
    BY <1>1, <2>1, <2>2
<1>6. F \in Seq(RR)
  BY <1>2, FlattenType
<1> HIDE DEF D, F, X, E, n
<1>7. PICK z : Parsing(z, F) /\ Parsed(F) = z[1]
  BY <1>6, ParsedIsParsing
<1> DEFINE P == {j \in 1 .. n + 1 : z[Before(D, j) + 1] = SubSeq(X, j, n)}
<1>8. n + 1 \in P
  <2>1. Before(D, n + 1) = Len(F)
    <3>1. (n + 1) - 1 = n /\ First(D, n) = D
      BY <1>1, <1>2, FirstNoneAll
    <3> QED
      BY <3>1 DEF Before, F
  <2>2. z[Len(F) + 1] = << >>
    <3>1. Len(F) + 1 \in 1 .. Len(F) + 1 /\ Len(F) + 1 > Len(F)
      BY <1>6
    <3>2. z[Len(F) + 1] = ParsedFrom(z, F, Len(F) + 1)
      BY <1>6, <1>7, <3>1, ParsingAt
    <3> QED
      BY <3>1, <3>2 DEF ParsedFrom
  <2>3. SubSeq(X, n + 1, n) = << >> /\ n + 1 \in 1 .. n + 1
    BY <1>1, SubSeqEmpty
  <2> QED
    BY <2>1, <2>2, <2>3
<1>9. ASSUME NEW j \in 1 .. n, \A k \in j + 1 .. n + 1 : k \in P PROVE j \in P
  <2> DEFINE i == Before(D, j) + 1
             d == job.deltas[j]
  <2>1. j \in 1 .. Len(D) /\ d \in Delta /\ D[j] = DifferenceSequence(d)
    BY <1>2, <1>3
  <2>2. j + 1 <= Len(D) => \E e \in Delta : D[j + 1] = DifferenceSequence(e)
    <3> SUFFICES ASSUME j + 1 <= Len(D) PROVE \E e \in Delta : D[j + 1] = DifferenceSequence(e)
      OBVIOUS
    <3>1. j + 1 \in 1 .. n
      BY <1>1, <1>2
    <3> QED
      BY <1>3, <3>1
  <2>3. /\ i \in 1 .. Len(F) /\ Mid(F, i) \in 1 .. Len(F) /\ End(F, i) = Before(D, j + 1) + 1
        /\ Found(F, i) = [from |-> d.serial - 1, removed |-> d.removed,
                          to |-> d.serial, added |-> d.added]
    BY <1>2, <2>1, <2>2, FoundDelta DEF F
  <2>4. Found(F, i) = X[j]
    BY <1>4, <2>3
  <2> HIDE DEF i
  <2>5. i \in 1 .. Len(F) + 1 /\ ~(i > Len(F)) /\ ~(Mid(F, i) > Len(F))
    <3>1. Len(F) \in Nat
      BY <1>6
    <3> QED
      BY <2>3, <3>1
  <2>6. z[i] = <<Found(F, i)>> \o z[End(F, i)]
    <3>1. z[i] = ParsedFrom(z, F, i)
      BY <1>6, <1>7, <2>5, ParsingAt
    <3> QED
      BY <2>5, <3>1 DEF ParsedFrom
  <2>7. j + 1 \in P /\ j \in 1 .. n + 1
    <3>1. j + 1 \in j + 1 .. n + 1 /\ j \in 1 .. n + 1
      BY <1>1
    <3> HIDE DEF P
    <3> QED
      BY <1>9, <3>1
  <2>8. z[End(F, i)] = SubSeq(X, j + 1, n)
    BY <2>3, <2>7
  <2>9. SubSeq(X, j, n) = <<X[j]>> \o SubSeq(X, j + 1, n)
    <3>1. j \in 1 .. Len(X) /\ n \in j .. Len(X)
      BY <1>1, <1>5
    <3> QED
      BY <1>5, <3>1, SubSeqRecursiveFirst
  <2>10. z[i] = SubSeq(X, j, n)
    BY <2>4, <2>6, <2>8, <2>9
  <2> QED
    BY <2>7, <2>10 DEF i
<1>10. 1 \in P
  <2> HIDE DEF P
  <2>1. \A j \in 1 .. n + 1 : j \in P
    BY <1>1, <1>8, <1>9, Downwards
  <2> QED
    BY <1>1, <2>1
<1>11. Before(D, 1) = 0
  <2>1. First(D, 1 - 1) = << >>
    BY <1>2, FirstNoneAll
  <2> QED
    BY <2>1, FlattenEmpty DEF Before
<1>12. SubSeq(X, 1, n) = X
  BY <1>5, SubSeqFull
<1>13. z[1] = X
  <2>1. z[Before(D, 1) + 1] = SubSeq(X, 1, n)
    BY <1>10
  <2>2. Before(D, 1) + 1 = 1
    BY <1>11
  <2> QED
    BY <1>12, <2>1, <2>2
<1> QED
  BY <1>7, <1>13 DEF F, D, X

\* However an incremental transfer was cut into messages, a client that reads it
\* as one RFC 1995 stream finds the journal's deltas in it.
THEOREM ClientsFindDeltas == Spec => []ClientFindsDeltas
<1>1. StreamInv => ClientFindsDeltas
  <2> SUFFICES ASSUME StreamInv, pc = "done", ~job.full PROVE Parsed(Body) = Expected
    BY DEF ClientFindsDeltas, Expected
  <2>1. job \in Jobs
    BY DEF StreamInv
  <2>2. Body = FlattenSeq(Differences)
    BY IncrementalStream
  <2> QED
    BY <2>1, <2>2, ClientParses
<1> QED
  BY <1>1, StreamInvariant, PTL
=============================================================================
