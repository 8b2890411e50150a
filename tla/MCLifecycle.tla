---------------------------- MODULE MCLifecycle ----------------------------
(***************************************************************************)
(* Starts of the server under every kind of key specification, and under   *)
(* every combination of the files it finds.                                *)
(***************************************************************************)
EXTENDS Lifecycle

CONSTANTS P1, P2, P3

MCCanon == [n \in {"k1.", "K1", "k1", "k2."} |-> IF n = "k2." THEN "k2." ELSE "k1."]
MCSecrets == {"s1", "s2"}
MCAlgorithms == {"sha1", "sha256"}

Key(name, secret) == [name |-> name, secret |-> secret]
Keys(entries) == [parses |-> TRUE, entries |-> entries]

\* No specification, a file of comments, a malformed one, a bad secret, one key
\* after another of the same name, a name in two spellings, two keys.
Specs ==
  {NoKeys, Keys(<<>>), [parses |-> FALSE, entries |-> <<>>],
   Keys(<<Key("k1", "s1"), Key("k2.", "bad")>>),
   Keys(<<Key("k1", "s1"), Key("k1", "s2")>>),
   Keys(<<Key("K1", "s1"), Key("k1.", "s2")>>),
   Keys(<<Key("K1", "s1"), Key("k2.", "s2")>>)}

Config(required, tsig, dnssec, doh, pidfile) ==
  [required |-> required, tsig |-> tsig, dnssec |-> dnssec, doh |-> doh, pidfile |-> pidfile]

MCConfigs ==
  {Config(r, t, "off", "off", FALSE) : r \in BOOLEAN, t \in Specs}
  \cup {Config(FALSE, NoKeys, d, h, TRUE) :
          d \in {"memory", "disk"}, h \in {"off", "builtin", "given"}}

\* A first start finds nothing, or a key and a pair an operator put there, or one
\* file of the pair.
MCDisks ==
  {[pidfile |-> Absent, key |-> k, cert |-> c, tlskey |-> t] : k, c, t \in {Absent, "given"}}

=============================================================================
