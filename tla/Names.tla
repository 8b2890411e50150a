------------------------------- MODULE Names -------------------------------
(***************************************************************************)
(* Owner names and partition keys (parseKey and itemName of server.go).    *)
(*                                                                         *)
(* A name is inside the zone or not and carries the labels in front of the *)
(* zone; a key is the sequence of its dot-separated parts, the empty key   *)
(* being << >>.  Base32 is given by its two functions: KDecode maps each   *)
(* label that starts with k- to the key it decodes to, or to NoKey when it *)
(* is not base32, and KEncode maps each unsafe key to its k- label.        *)
(***************************************************************************)
EXTENDS Sequences

CONSTANTS SafeLabels,   \* labels itemName accepts as they are
          Lower,        \* strings.ToLower on the labels it changes
          KDecode, KEncode, NoKey

KLabels == DOMAIN KDecode

\* Base32 has an inverse, and neither it nor a safe label has upper case.
ASSUME NamesAssumption ==
  /\ SafeLabels \cap DOMAIN Lower = {}
  /\ \A key \in DOMAIN KEncode :
       KEncode[key] \in KLabels \ DOMAIN Lower /\ KDecode[KEncode[key]] = key

Apex == [inZone |-> TRUE, labels |-> << >>]
Under(labels) == [inZone |-> TRUE, labels |-> labels]

\* strings.HasSuffix(name, "." + zone): the apex itself does not have it.
BelowZone(name) == name.inZone /\ name.labels # << >>

\* strings.ToLower(name): what the handlers look names up by.
Lowered(name) ==
  [name EXCEPT !.labels = [i \in DOMAIN @ |-> IF @[i] \in DOMAIN Lower THEN Lower[@[i]] ELSE @[i]]]

\* Labels behind a k- label are ignored.
parseKey(name) ==
  IF ~BelowZone(name) THEN NoKey
  ELSE IF name.labels[1] \in KLabels THEN KDecode[name.labels[1]]
  ELSE name.labels

Safe(key) == \A i \in DOMAIN key : key[i] \in SafeLabels

\* A key that itemName writes as it is and that looks like an encoded one.
Disguised(key) == key # << >> /\ Safe(key) /\ key[1] \in KLabels

\* Mutant of itemName: unsafe keys are not encoded.
itemNamePlain(key) == Under(key)

itemName(key) ==
  IF key = << >> THEN Apex
  ELSE IF Safe(key) THEN Under(key)
  ELSE Under(<<KEncode[key]>>)

=============================================================================
