-------------------------------- MODULE Tsig --------------------------------
(***************************************************************************)
(* The TSIG key ring (auth.go) and its start-up checks (main.go).  A key   *)
(* specification is the list of its entries; a MAC is the secret and the   *)
(* algorithm it was made with, so two MACs of one message agree just when  *)
(* both do.                                                                *)
(***************************************************************************)
EXTENDS Integers, Sequences

CONSTANTS Canon,        \* dns.CanonicalName: key names as written -> canonical
          Secrets,      \* non-empty secrets in correct base64
          Algorithms,   \* the HMACs hashFor knows
          HmacSHA256,   \* one of them
          NoKeys,       \* no TSIG provider (nil)
          Failed        \* an error was returned

\* Canonical names are canonical, and neither nil nor an error is a provider or a MAC.
ASSUME TsigAssumption ==
  /\ \A n \in DOMAIN Canon : Canon[n] \in DOMAIN Canon /\ Canon[Canon[n]] = Canon[n]
  /\ \A names \in SUBSET {Canon[n] : n \in DOMAIN Canon} : NoKeys \notin [names -> Secrets]
  /\ \A s \in Secrets, alg \in Algorithms : [secret |-> s, algorithm |-> alg] # Failed
  /\ HmacSHA256 \in Algorithms

Entries(spec) == {spec.entries[i] : i \in DOMAIN spec.entries}

\* LoadTSIGKeys: a map by the names as written, later entries replace earlier
\* ones.  A spec with a colon is inline, any other is the path of a file.
LoadTSIGKeys(spec) ==
  IF ~spec.parses THEN Failed
  ELSE [n \in {e.name : e \in Entries(spec)} |->
          LET last == CHOOSE i \in DOMAIN spec.entries :
                        /\ spec.entries[i].name = n
                        /\ \A j \in DOMAIN spec.entries : spec.entries[j].name = n => j <= i
          IN  spec.entries[last].secret]

\* Mutant of newHMACProvider: names are taken as written.
newHMACProviderRaw(keys) ==
  IF \E n \in DOMAIN keys : keys[n] \notin Secrets THEN {Failed} ELSE {keys}

\* newHMACProvider: the possible outcomes.  Names that are canonically equal
\* share one entry, and which secret it keeps is up to the map's iteration order.
newHMACProvider(keys) ==
  LET names == {Canon[n] : n \in DOMAIN keys}
  IN  IF \E n \in DOMAIN keys : keys[n] \notin Secrets THEN {Failed}
      ELSE {ring \in [names -> Secrets] :
              \A c \in names : \E n \in DOMAIN keys : Canon[n] = c /\ ring[c] = keys[n]}

\* Mutant of buildTSIG: a specification without keys gives a provider without keys.
buildTSIGEmpty(spec) ==
  IF spec = NoKeys THEN {NoKeys}
  ELSE LET keys == LoadTSIGKeys(spec)
       IN  IF keys = Failed THEN {Failed} ELSE newHMACProvider(keys)

buildTSIG(spec) ==
  IF spec = NoKeys THEN {NoKeys}
  ELSE LET keys == LoadTSIGKeys(spec)
       IN  IF keys = Failed THEN {Failed}
           ELSE IF DOMAIN keys = {} THEN {NoKeys}
           ELSE newHMACProvider(keys)

-----------------------------------------------------------------------------

MAC(secret, algorithm) == [secret |-> secret, algorithm |-> algorithm]

\* Generate: the MAC for the key and algorithm that the TSIG RR t names.  The code
\* lowers the name, which is fully qualified on the wire, and so canonical then.
Generate(ring, t) ==
  IF Canon[t.name] \in DOMAIN ring /\ t.algorithm \in Algorithms
  THEN MAC(ring[Canon[t.name]], t.algorithm) ELSE Failed

Verify(ring, t) == Generate(ring, t) # Failed /\ Generate(ring, t) = t.mac

\* cmdHealthcheck: a query signed with a key of its own provider.  The code takes
\* the first by name, the model any.
HealthcheckTsigs(spec) ==
  UNION {{[name |-> n, algorithm |-> HmacSHA256, mac |-> MAC(ring[n], HmacSHA256)] :
            n \in DOMAIN ring} : ring \in buildTSIG(spec) \ {NoKeys, Failed}}

=============================================================================
