------------------------------- MODULE MCZone -------------------------------
(***************************************************************************)
(* Zone on small instances: the tables, names and messages of the runs.    *)
(***************************************************************************)
EXTENDS Zone

\* A safe key, and a key that itemName has to encode.
alice == <<"alice">>
mixed == <<"Alice">>

\* A safe key that reads as the base32 label of alice.
disguised == <<"k-mfwgsy3f">>

MCSafeLabels == {"alice", "k-mfwgsy3f", "k-ifwgsy3f", "k-nmww2ztxm5zxsm3g", "k-1"}
MCLower == "Alice" :> "alice"
MCKDecode ==
  "k-mfwgsy3f" :> alice @@ "k-ifwgsy3f" :> mixed @@ "k-nmww2ztxm5zxsm3g" :> disguised
  @@ "k-1" :> NoKey @@ "k-" :> <<>>
MCKEncode == mixed :> "k-ifwgsy3f"

Body(b) == [body |-> b, pk |-> FALSE]
WithKey(b) == [body |-> b, pk |-> TRUE]

Table1 == alice :> WithKey("b1")
Table2 == alice :> WithKey("b1") @@ mixed :> NoItem
Table3 == Table2 @@ <<>> :> NoItem @@ disguised :> NoItem

\* The deltas of a packet with at most two insertions.
ChangesOf(items) ==
  LET RRs == UNION {itemRRs(k, item) : k \in Keys, item \in items}
  IN  [removed : {{}} \cup {{rr} : rr \in RRs},
       added : {{}} \cup {{rr, other} : rr \in RRs, other \in RRs}]

AllChanges == ChangesOf(Item \cup {NilItem})

\* UPDATE goroutines are alike.
UpdaterSymmetry == Permutations(Updaters)

-----------------------------------------------------------------------------

RR(labels, class, type, txt) ==
  [name |-> Under(labels), class |-> class, type |-> type, ttl0 |-> TRUE, txt |-> txt]

\* What an RR without TXT data is given: it decodes to nothing.
NoText == Text(Broken)

Put(labels, item) == RR(labels, "IN", "TXT", Text(item))
Erase(labels) == RR(labels, "ANY", "ANY", NoText)

Msg(prereqs, updates) ==
  [tsig |-> TRUE, zoneOK |-> TRUE, prereqs |-> prereqs, updates |-> updates]

Half(item, p) == [Text(item) EXCEPT !.part = p]

\* Writes to one key, and one to the other.
Puts == {Msg(<<>>, <<Put(alice, WithKey("b1"))>>), Msg(<<>>, <<Put(alice, WithKey("b2"))>>)}
Erases == {Msg(<<>>, <<Erase(alice)>>)}
Mixed == {Msg(<<>>, <<Put(<<"k-ifwgsy3f">>, WithKey("b1"))>>), Msg(<<>>, <<Put(mixed, WithKey("b2"))>>)}
Encoded == {Msg(<<>>, <<Put(<<"k-nmww2ztxm5zxsm3g">>, WithKey("b1"))>>)}
\* One key in two spellings, and the payload null.
Loose == {Msg(<<>>, <<Put(alice, WithKey("b1")), Put(<<"k-mfwgsy3f">>, WithKey("b2"))>>),
          Msg(<<>>, <<Put(alice, NilItem)>>)}
Guarded == {Msg(<<RR(alice, "NONE", "ANY", NoText)>>, <<Put(alice, WithKey("b2"))>>),
            Msg(<<RR(alice, "IN", "TXT", Text(WithKey("b1")))>>, <<Erase(alice)>>)}

\* Every form of prerequisite and of update RR, and the malformed ones.
Forms ==
  {Msg(<<RR(alice, c, t, NoText)>>, <<Put(alice, WithKey("b1"))>>) :
     c \in {"ANY", "NONE", "IN"}, t \in {"ANY", "TXT", "A"}}
  \cup {Msg(<<>>, <<RR(alice, c, t, NoText)>>) :
          c \in {"ANY", "NONE", "IN"}, t \in {"ANY", "TXT", "A"}}
Malformed ==
  {[Msg(<<>>, <<Erase(alice)>>) EXCEPT !.tsig = FALSE],
   [Msg(<<>>, <<Erase(alice)>>) EXCEPT !.zoneOK = FALSE],
   Msg(<<[RR(alice, "ANY", "ANY", NoText) EXCEPT !.ttl0 = FALSE]>>, <<Erase(alice)>>),
   Msg(<<RR(<<"k-1">>, "ANY", "ANY", NoText)>>, <<Erase(alice)>>),
   Msg(<<>>, <<>>),
   Msg(<<>>, <<Erase(<<>>)>>),
   Msg(<<>>, <<Put(<<>>, WithKey("b1"))>>),
   Msg(<<>>, <<Put(<<"k-1">>, WithKey("b1"))>>),
   Msg(<<>>, <<Put(<<"k-">>, WithKey("b1"))>>),
   Msg(<<>>, <<Put(alice, Broken)>>),
   Msg(<<>>, <<Put(alice, WithKey("b1")), Erase(<<"k-ifwgsy3f">>)>>)}
Split ==
  {Msg(<<>>, <<RR(alice, "IN", "TXT", Half(WithKey("b2"), "first")), Erase(alice),
               RR(alice, "IN", "TXT", Half(WithKey("b2"), "rest"))>>),
   Msg(<<>>, <<RR(alice, "IN", "TXT", Half(WithKey("b2"), "first"))>>),
   Msg(<<RR(alice, "IN", "TXT", Half(WithKey("b1"), "torn"))>>, <<Erase(alice)>>),
   Msg(<<RR(alice, "IN", "TXT", [Text(WithKey("b1")) EXCEPT !.canonical = FALSE])>>, <<Erase(alice)>>)}
\* An item the dynamo store adds the key attribute to.
Unkeyed == {Msg(<<>>, <<Put(<<"k-ifwgsy3f">>, Body("b1"))>>)}

Transfer(type, s) ==
  [type |-> type, serial |-> s, tcp |-> TRUE, tsig |-> TRUE, wellFormed |-> TRUE]
IXFRs == {Transfer("IXFR", Start), Transfer("IXFR", Start + 1)}
Transfers == IXFRs \cup {Transfer("AXFR", 0)}
OddTransfers ==
  {[Transfer("AXFR", 0) EXCEPT !.tcp = FALSE], [Transfer("AXFR", 0) EXCEPT !.tsig = FALSE],
   [Transfer("IXFR", Start) EXCEPT !.tcp = FALSE],
   [Transfer("IXFR", Start) EXCEPT !.wellFormed = FALSE]}

ConcurrentUpdates == {Msg(<<>>, <<Put(alice, WithKey("b2"))>>)} \cup Erases
RichUpdates ==
  Puts \cup Erases \cup Mixed \cup Encoded \cup Loose \cup Guarded \cup Forms \cup Malformed \cup Split
SequentialTransfers == {Transfer("AXFR", 0), Transfer("IXFR", Start)} \cup OddTransfers
NoTransfers == {}
DynamoUpdates == Unkeyed \cup Guarded
DynamoTransfers == {Transfer("AXFR", 0), Transfer("IXFR", Start)}
GuardedUpdates == Guarded

=============================================================================
