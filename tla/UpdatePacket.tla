---------------------------- MODULE UpdatePacket ----------------------------
(***************************************************************************)
(* What processUpdate and evalPrerequisites (update.go) conclude from an   *)
(* RFC 2136 packet, apart from the store accesses, which are steps of      *)
(* module Zone.                                                            *)
(*                                                                         *)
(* An item is a body, and whether it carries the partition-key attribute.  *)
(* TXT data is abstracted to fragments: the text of an item, written the   *)
(* way json.Marshal writes it or not, in one piece or as one half of it,   *)
(* or torn: with a backslash at its end, which decodeTXTStrings rejects.   *)
(***************************************************************************)
EXTENDS Names, Naturals, FiniteSets, SequencesExt

CONSTANTS Bodies,     \* what tells items apart; EmptyBody is the object {}
          EmptyBody,
          NilItem,    \* the nil Item that the payload null decodes to
          NoItem,     \* no item: what Get returns for an absent key
          Broken      \* a payload that is no JSON object

Item == [body : Bodies \cup {EmptyBody}, pk : BOOLEAN]
ASSUME ItemAssumption == {NilItem, NoItem} \cap Item = {}

Text(item) == [item |-> item, canonical |-> TRUE, part |-> "whole"]

\* decodeTXTStrings, json.Valid and json.Unmarshal on the TXT data collected
\* for one owner name.
Parse(fragments) ==
  LET f == fragments[1]
  IN  CASE Len(fragments) = 1 /\ f.part = "whole" -> f.item
        [] Len(fragments) = 2 /\ fragments = <<[f EXCEPT !.part = "first"],
                                               [f EXCEPT !.part = "rest"]>> -> f.item
        [] OTHER -> Broken

-----------------------------------------------------------------------------

(***************************************************************************)
(* The UPDATE section, first pass: RRs in packet order, first error wins.  *)
(***************************************************************************)
KeyOf(rr) == parseKey(Lowered(rr.name))

IsDelete(rr) == rr.class \in {"ANY", "NONE"} /\ rr.type \in {"ANY", "TXT"}
IsInsert(rr) == rr.class = "IN" /\ rr.type = "TXT"

ScanVerdict(rr) ==
  CASE IsDelete(rr) -> IF KeyOf(rr) = NoKey THEN "NOTZONE" ELSE "NOERROR"
    [] IsInsert(rr) -> IF BelowZone(rr.name) THEN "NOERROR" ELSE "NOTZONE"
    [] OTHER        -> "REFUSED"

FirstError(verdicts) ==
  LET i == SelectInSeq(verdicts, LAMBDA v : v # "NOERROR")
  IN  IF i = 0 THEN "NOERROR" ELSE verdicts[i]

Each(Op(_), seq) == [i \in DOMAIN seq |-> Op(seq[i])]

\* The owner names of insertions, in lower case, each once, in order of first arrival.
InsertOwners(rrs) ==
  LET names == Each(LAMBDA rr : Lowered(rr.name), SelectSeq(rrs, IsInsert))
      first(i) == \A j \in 1 .. i - 1 : names[j] # names[i]
  IN  Each(LAMBDA i : names[i],
           SelectSeq([i \in DOMAIN names |-> i], first))

InsertItem(rrs, owner) ==
  Parse(Each(LAMBDA rr : rr.txt,
             SelectSeq(rrs, LAMBDA rr : IsInsert(rr) /\ Lowered(rr.name) = owner)))

\* The insertions, decoded, in that order.
Inserts(rrs) ==
  Each(LAMBDA owner : [pk |-> parseKey(owner), item |-> InsertItem(rrs, owner)],
       InsertOwners(rrs))

InsertVerdict(insert) ==
  IF insert.pk = NoKey THEN "REFUSED"
  ELSE IF insert.item = Broken THEN "FORMERR"
  ELSE "NOERROR"

Affected(rrs) == {KeyOf(rrs[i]) : i \in DOMAIN rrs}

UpdateVerdict(rrs) ==
  LET scan == FirstError(Each(ScanVerdict, rrs))
      decode == FirstError(Each(InsertVerdict, Inserts(rrs)))
  IN  IF scan # "NOERROR" THEN scan
      ELSE IF decode # "NOERROR" THEN decode
      ELSE IF Cardinality(Affected(rrs)) > 1 THEN "REFUSED"
      ELSE "NOERROR"

-----------------------------------------------------------------------------

(***************************************************************************)
(* One RR of the PREREQUISITE section, before and after the store is read. *)
(***************************************************************************)
PrereqForm(rr) ==
  IF KeyOf(rr) = NoKey THEN "NOTZONE"
  ELSE IF ~rr.ttl0 THEN "FORMERR"
  ELSE "NOERROR"

\* Mutant of PrereqVerdict: any value satisfies a value-dependent prerequisite.
PrereqVerdictAnyValue(rr, item) ==
  IF rr.class \in {"ANY", "IN"} THEN IF item = NoItem THEN "NXRRSET" ELSE "NOERROR"
  ELSE IF item # NoItem THEN "YXRRSET" ELSE "NOERROR"

PrereqVerdict(rr, item) ==
  CASE rr.class = "ANY" /\ rr.type = "ANY"  -> IF item = NoItem THEN "NXDOMAIN" ELSE "NOERROR"
    [] rr.class = "NONE" /\ rr.type = "ANY" -> IF item # NoItem THEN "YXDOMAIN" ELSE "NOERROR"
    [] rr.class = "ANY" /\ rr.type = "TXT"  -> IF item = NoItem THEN "NXRRSET" ELSE "NOERROR"
    [] rr.class = "NONE" /\ rr.type = "TXT" -> IF item # NoItem THEN "YXRRSET" ELSE "NOERROR"
    [] rr.class = "IN" /\ rr.type = "TXT"   ->
         IF item = NoItem THEN "NXRRSET"
         ELSE IF rr.txt.part = "torn" THEN "FORMERR"
         ELSE IF rr.txt = Text(item) THEN "NOERROR" ELSE "NXRRSET"
    [] OTHER -> "FORMERR"

=============================================================================
