---------------------------- MODULE NamesProofs ----------------------------
(***************************************************************************)
(* Names and keys are two encodings of one thing: the name an item is      *)
(* listed under is read back as its key, unless the key looks like a       *)
(* base32 label itself.                                                    *)
(***************************************************************************)
EXTENDS Names, TLAPS

\* A key that itemName writes without loss: not empty, with its base32 label if
\* it needs one, and otherwise not beginning with a label that parseKey decodes.
Plain(key) ==
  /\ key \in Seq({key[i] : i \in DOMAIN key}) \ {<< >>}
  /\ ~Disguised(key)
  /\ ~Safe(key) => key \in DOMAIN KEncode

\* ToLower works on the labels alone.
LEMMA LoweredLabels ==
  ASSUME NEW inZone, NEW labels
  PROVE  Lowered([inZone |-> inZone, labels |-> labels]) =
           [inZone |-> inZone,
            labels |-> [i \in DOMAIN labels |->
                          IF labels[i] \in DOMAIN Lower THEN Lower[labels[i]] ELSE labels[i]]]
  BY DEF Lowered

LEMMA LoweredInZone ==
  ASSUME NEW name, name = [inZone |-> name.inZone, labels |-> name.labels]
  PROVE  Lowered(name).inZone = name.inZone
<1>1. name \in [inZone : {name.inZone}, labels : {name.labels}]
  OBVIOUS
<1> QED
  BY <1>1 DEF Lowered

\* itemName gives a name that ToLower leaves alone, of at least one label.
LEMMA ItemNameShape ==
  ASSUME NEW key, Plain(key)
  PROVE  /\ itemName(key) = Under(itemName(key).labels)
         /\ itemName(key).labels = key \/ itemName(key).labels = <<KEncode[key]>>
         /\ BelowZone(itemName(key))
         /\ Lowered(itemName(key)) = itemName(key)
<1>1. CASE Safe(key)
  <2>1. itemName(key) = [inZone |-> TRUE, labels |-> key]
    BY <1>1 DEF itemName, Under, Plain
  <2>2. key = [i \in DOMAIN key |-> key[i]]
    BY DEF Plain
  <2>3. \A i \in DOMAIN key : key[i] \notin DOMAIN Lower
    BY <1>1, NamesAssumption DEF Safe
  <2>4. [i \in DOMAIN key |-> IF key[i] \in DOMAIN Lower THEN Lower[key[i]] ELSE key[i]] = key
    BY <2>2, <2>3
  <2> QED
    BY <2>1, <2>4, LoweredLabels DEF Under, BelowZone, Plain
<1>2. CASE ~Safe(key)
  <2> DEFINE enc == KEncode[key]
  <2>1. itemName(key) = [inZone |-> TRUE, labels |-> <<enc>>] /\ enc \notin DOMAIN Lower
    BY <1>2, NamesAssumption DEF itemName, Under, Plain
  <2>2. [i \in DOMAIN <<enc>> |-> IF <<enc>>[i] \in DOMAIN Lower THEN Lower[<<enc>>[i]] ELSE <<enc>>[i]]
          = <<enc>>
    BY <2>1
  <2> QED
    BY <2>1, <2>2, LoweredLabels DEF Under, BelowZone
<1> QED
  BY <1>1, <1>2

\* parseKey reads the name that itemName made back as the key it was made from.
THEOREM NameRoundTrip ==
  ASSUME NEW key, Plain(key)
  PROVE  parseKey(Lowered(itemName(key))) = key
<1>1. CASE Safe(key)
  BY <1>1, ItemNameShape DEF parseKey, itemName, Under, Plain, Disguised
<1>2. CASE ~Safe(key)
  <2>1. itemName(key) = Under(<<KEncode[key]>>) /\ KEncode[key] \in KLabels
        /\ KDecode[KEncode[key]] = key
    BY <1>2, NamesAssumption DEF itemName, Plain
  <2>2. Lowered(itemName(key)) = Under(<<KEncode[key]>>) /\ BelowZone(itemName(key))
    BY <2>1, ItemNameShape
  <2> QED
    BY <2>1, <2>2 DEF parseKey, Under
<1> QED
  BY <1>1, <1>2

=============================================================================
