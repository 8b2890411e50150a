------------------------------ MODULE MCStream ------------------------------
(***************************************************************************)
(* Stream on small instances: the texts, tables and journals of the runs.  *)
(***************************************************************************)
EXTENDS Stream

\* Every backslash begins an escape: the texts json.Marshal produces.
WellEscaped(t) ==
  LET ok[i \in 1 .. Len(t) + 2] ==
        IF i > Len(t) THEN i = Len(t) + 1
        ELSE IF t[i] = "b" THEN i < Len(t) /\ t[i + 1] \in {"p", "q", "b"} /\ ok[i + 2]
        ELSE ok[i + 1]
  IN  ok[1]

JsonTexts == {t \in BoundedSeq(Byte, 4) : Len(t) > 0 /\ WellEscaped(t)}

\* A client may cut a text into strings wherever it likes.
Cuts(t) == {<<t>>} \cup {<<SubSeq(t, 1, k), SubSeq(t, k + 1, Len(t))>> : k \in 1 .. Len(t) - 1}

Plain(n) == [i \in 1 .. n |-> "p"]

FullTransfer(packets) ==
  [full |-> TRUE, packets |-> packets, serial |-> 9, deltas |-> << >>, long |-> {}]

\* One item with any text.
TextJobs == UNION {{FullTransfer(<<cut>>) : cut \in Cuts(t)} : t \in JsonTexts}

\* Tables of up to four items that are small, fill a message with others, fill it
\* alone, are just too long to share one, and are too long for one.
Lengths == {1, 3, 6, 7, 9}
TableJobs == {FullTransfer([k \in DOMAIN s |-> <<Plain(s[k])>>]) : s \in BoundedSeq(Lengths, 4)}

\* Journals of up to two deltas, a packet with several insertions included.
RRs(n) == {[k \in DOMAIN s |-> itemRR(k, Plain(s[k]))] : s \in BoundedSeq({1, 6, 9}, n)}
ChangesAt(s) == {[serial |-> s, removed |-> r, added |-> a] : r \in RRs(1), a \in RRs(2)}
JournalJobs ==
  {[full |-> FALSE, packets |-> << >>, serial |-> 9, deltas |-> ds, long |-> {}] :
     ds \in {<<d>> : d \in ChangesAt(9)} \cup {<<d, e>> : d \in ChangesAt(8), e \in ChangesAt(9)}}

\* The same with an owner name that cannot be packed.
LongJobs == {[j EXCEPT !.long = {2}] : j \in TableJobs \cup JournalJobs}

AllJobs == TextJobs \cup TableJobs \cup JournalJobs \cup LongJobs

=============================================================================
