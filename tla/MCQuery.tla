------------------------------ MODULE MCQuery ------------------------------
(***************************************************************************)
(* Query on a small instance: a safe key, a key that has to be encoded, one*)
(* whose base32 label is too long for DNS, a safe key that reads as the    *)
(* base32 label of another, a key below which stands a label that also     *)
(* names an index, and one index.                                          *)
(***************************************************************************)
EXTENDS Query, TLC

CONSTANTS c1, c2

alice     == <<"alice">>
mixed     == <<"Alice">>
long      == <<"An unsafe key of more than 35 octets">>
disguised == <<"k-mfwgsy3f">>
bob       == <<"gsi-email", "bob">>

MCSafeLabels == {"alice", "bob", "gsi-email", "ns1", "k-mfwgsy3f"}
MCLower == "ALICE" :> "alice" @@ "K-IFWGSY3F" :> "k-ifwgsy3f"
MCKDecode == "k-ifwgsy3f" :> mixed @@ "k-mfwgsy3f" :> alice @@ "k-long" :> long @@ "k-1" :> NoKey
MCKEncode == mixed :> "k-ifwgsy3f" @@ long :> "k-long"
MCLongLabels == {"k-long"}

\* huge is an item whose TXT RRset no DNS message holds.
MCItems == {"small", "large", "huge"}
MCInitialItems ==
  alice :> "small" @@ mixed :> "large" @@ long :> NoItem @@ disguised :> "small" @@ bob :> NoItem
MCUpdates ==
  {<<alice, "large">>, <<alice, NoItem>>, <<alice, NilItem>>, <<mixed, "huge">>, <<long, "small">>,
   <<bob, "small">>}
MCGSIs == "gsi-email" :> ("small" :> <<"mail">> @@ "large" :> mixed @@ "huge" :> mixed)
MCSize == "small" :> 1 @@ "large" :> 6 @@ "huge" :> 11

Config(reads, keys, authRequired, signing) ==
  [reads |-> reads, keys |-> keys, authRequired |-> authRequired, signing |-> signing,
   v4 |-> reads = "demo"]

\* Each two of the flags in each combination; the address family follows the
\* store.
MCConfigs ==
  {Config("demo", TRUE, FALSE, TRUE), Config("demo", TRUE, TRUE, TRUE), Config("demo", FALSE, FALSE, FALSE),
   Config("eventual", FALSE, FALSE, TRUE), Config("eventual", TRUE, FALSE, FALSE),
   Config("consistent", FALSE, FALSE, TRUE), Config("consistent", TRUE, TRUE, FALSE)}

-----------------------------------------------------------------------------

Question(labels, type) == [name |-> Under(labels), type |-> type]

Questions ==
  {Question(<<"ALICE">>, "TXT"), Question(<<"alice">>, "A"), Question(<<"K-IFWGSY3F">>, "TXT"),
   Question(<<"k-1">>, "TXT"), Question(disguised, "TXT"), Question(bob, "TXT"),
   Question(<<"mail", "gsi-email">>, "TXT"), Question(<<"k-ifwgsy3f", "gsi-email">>, "ANY"),
   Question(<< >>, "ANY"), Question(<< >>, "DNSKEY"), Question(<<"ns1">>, "A"),
   Question(<<"ns1">>, "AAAA"), Question(<<"_contractdb", "health">>, "TXT"),
   [name |-> [inZone |-> FALSE, labels |-> <<"alice">>], type |-> "TXT"]}

Transport(front, tcp, edns, do, tsig) ==
  [front |-> front, tcp |-> tcp, edns |-> edns, do |-> do, tsig |-> tsig]

Udp     == Transport("dns", FALSE, FALSE, FALSE, "none")
UdpKey  == Transport("dns", FALSE, FALSE, FALSE, "unknownkey")
UdpDo   == Transport("dns", FALSE, TRUE, TRUE, "valid")
TcpDo   == Transport("dns", TRUE, TRUE, TRUE, "badsig")
HttpsDo == Transport("doh", FALSE, TRUE, TRUE, "none")

Message(opcode, questions, question, transport) ==
  [opcode |-> opcode, questions |-> questions] @@ question @@ transport

\* One client asks everything in every way, and sends what is turned away; the
\* other repeats a question over HTTPS.
MCMessages ==
  LET apex == Question(<< >>, "ANY")
      reads == {Message("QUERY", 1, q, t) : q \in Questions, t \in {UdpDo, TcpDo, HttpsDo}}
                 \cup {Message("QUERY", 1, q, t) : q \in {apex, Question(<<"ALICE">>, "TXT")}, t \in {Udp, UdpKey}}
      strays == {Message(op, 1, apex, t) : op \in {"NOTIFY", "STATUS"}, t \in {Udp, HttpsDo}}
                  \cup {Message("QUERY", 0, apex, t) : t \in {Udp, HttpsDo}}
      again == {Message("QUERY", 1, Question(<<"ALICE">>, "TXT"), HttpsDo)}
  IN  c1 :> (reads \cup strays) @@ c2 :> again

=============================================================================
