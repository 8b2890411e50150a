------------------------------- MODULE Query -------------------------------
(***************************************************************************)
(* Ordinary queries over DNS (ServeDNS and buildResponse of server.go) and *)
(* over HTTPS (writeDoHResponse of doh.go), with online signing (Sign of   *)
(* dnssec.go), while UPDATEs change the table and the serial.              *)
(*                                                                         *)
(* A query touches shared state twice: it reads the store, for an index    *)
(* query on DynamoDB page by page, and it loads the serial into the SOA of *)
(* its reply.  Sizes are in abstract units.                                *)
(***************************************************************************)
EXTENDS Names, Integers, FiniteSetsExt

CONSTANTS Clients,       \* goroutines, each serving one message
          Messages,      \* client -> the messages it may send
          InitialItems,  \* the table at start-up: key -> item or NoItem
          Items, NoItem,
          NilItem,       \* what the payload null leaves in the demo store
          Updates,       \* <<key, item>>: the writes UPDATEs may make
          Configs,       \* the ways cmdServe may be started
          GSIs,          \* index label -> item -> value of the indexed attribute
          Size,          \* item -> size of its TXT RRset
          UdpSize, EdnsSize, TcpSize,  \* 512 bytes, the client's, 64 KiB
          LongLabels,    \* k- labels of more than 63 octets
          MaxSignErrors, \* bound: RRsets of a reply that fail to be signed
          Start,         \* Config.Serial
          MaxWrites,     \* bound: writes by UPDATEs
          NoMsg

\* UPDATEs and transfers over DNS have handlers of their own: module Zone.  No
\* message on the wire has a label of more than 63 octets.
ASSUME MessagesAssumption ==
  \A c \in Clients : \A msg \in Messages[c] :
    /\ msg.front \in {"dns", "doh"}
    /\ msg.front = "dns" => msg.opcode # "UPDATE" /\ msg.type \notin {"AXFR", "IXFR"}
    /\ msg.name = [inZone |-> msg.name.inZone, labels |-> msg.name.labels]
    /\ \A i \in DOMAIN msg.name.labels : msg.name.labels[i] \notin LongLabels

Keys == DOMAIN InitialItems

\* itemName leaves no underscore in a name, and base32 labels begin with k-.
ASSUME TableAssumption ==
  /\ Start \in Nat /\ IsFiniteSet(Clients)
  /\ InitialItems \in [Keys -> Items \cup {NoItem}] /\ NoKey \notin Keys
  /\ NoItem \notin Items /\ NilItem \notin Items
  /\ Updates \subseteq Keys \X (Items \cup {NoItem, NilItem})
  /\ "_contractdb" \notin SafeLabels \cup KLabels

\* cmdServe refuses to start with auth mode tsig-required and no key.
ASSUME ConfigsAssumption ==
  \A cf \in Configs : cf.authRequired => cf.keys

VARIABLES config,    \* keys (tsigProvider # nil), authRequired, signing, v4 (AdvertiseIP),
                     \* reads: "demo" store, dynamo "eventual" or dynamo "consistent"
          store,     \* key -> item, NoItem or NilItem
          replica,   \* what an eventually consistent dynamo read may still see
          past,      \* ghost: key -> what the store has held under it
          serial,    \* Handler.serial
          writes,    \* ghost: writes that have reached the store
          query,     \* state of each query goroutine
          metrics    \* Metrics: queries, nxdomain, truncated, refused

tableVars == <<store, replica, past, writes>>
queryVars == <<config, tableVars, serial, query, metrics>>

NoReply == [rcode |-> "none", answer |-> {}, ns |-> {}, tc |-> FALSE, compress |-> FALSE,
            tsig |-> FALSE]

\* seen and unsigned are ghosts: the writes before the store read, and the RRsets
\* that could not be signed.
IdleQuery == [pc |-> "idle", msg |-> NoMsg, path |-> "none", unread |-> {}, found |-> {},
              seen |-> 0, soa |-> 0, unsigned |-> {}, reply |-> NoReply]

Init ==
  /\ config \in Configs
  /\ store = InitialItems /\ replica = InitialItems
  /\ past = [k \in Keys |-> {InitialItems[k]}]
  /\ serial = Start
  /\ writes = 0
  /\ query = [c \in Clients |-> IdleQuery]
  /\ metrics = [queries |-> 0, nxdomain |-> 0, truncated |-> 0, refused |-> 0]

Counted(counters) ==
  metrics' = [m \in DOMAIN metrics |-> IF m \in counters THEN metrics[m] + 1 ELSE metrics[m]]

Rcode(rcode) == [NoReply EXCEPT !.rcode = rcode]

-----------------------------------------------------------------------------

(***************************************************************************)
(* Dispatch.                                                               *)
(***************************************************************************)
tsigValid(msg) == config.keys /\ msg.tsig = "valid"

authOK(msg) == config.authRequired => tsigValid(msg)

\* Mutant of DoHVerdict: the read policy is not applied to DoH.
DoHVerdictOpen(msg) ==
  IF msg.opcode # "QUERY" THEN "REFUSED" ELSE IF msg.questions # 1 THEN "FORMERR" ELSE "NOERROR"

\* writeDoHResponse before buildResponse: DoH carries plain queries only and is
\* closed when every message must be signed.
DoHVerdict(msg) ==
  IF msg.opcode # "QUERY" \/ config.authRequired THEN "REFUSED"
  ELSE IF msg.questions # 1 THEN "FORMERR"
  ELSE "NOERROR"

\* Messages the DNS server rejects before ServeDNS sees them; the count of
\* questions stands for those of the other sections too.
acceptFunc(msg) ==
  IF msg.opcode \notin {"QUERY", "NOTIFY", "UPDATE"} THEN "NOTIMP"
  ELSE IF msg.questions # 1 THEN "FORMERR"
  ELSE "NOERROR"

\* ServeDNS before buildResponse: NOTIFY is accepted and has no handler.
ServeDNSVerdict(msg) ==
  IF msg.opcode # "QUERY" THEN "SERVFAIL"
  ELSE IF ~authOK(msg) THEN "REFUSED"
  ELSE "NOERROR"

Verdict(msg) ==
  IF msg.front = "doh" THEN DoHVerdict(msg)
  ELSE IF acceptFunc(msg) # "NOERROR" THEN acceptFunc(msg)
  ELSE ServeDNSVerdict(msg)

\* ServeDNS counts every message it sees and its refusals; the DoH handler
\* counts the messages it lets through.
ArrivalCounters(msg) ==
  IF msg.front = "doh" THEN IF DoHVerdict(msg) = "NOERROR" THEN {"queries"} ELSE {}
  ELSE IF acceptFunc(msg) # "NOERROR" THEN {}
  ELSE {"queries"} \cup (IF Verdict(msg) = "REFUSED" THEN {"refused"} ELSE {})

Receive(c, msg) ==
  /\ query[c].pc = "idle"
  /\ Counted(ArrivalCounters(msg))
  /\ query' = [query EXCEPT ![c] =
                 IF Verdict(msg) = "NOERROR"
                 THEN [IdleQuery EXCEPT !.pc = "lookup", !.msg = msg]
                 ELSE [IdleQuery EXCEPT !.pc = "done", !.msg = msg, !.reply = Rcode(Verdict(msg))]]
  /\ UNCHANGED <<config, tableVars, serial>>

-----------------------------------------------------------------------------

(***************************************************************************)
(* buildResponse.                                                          *)
(***************************************************************************)
RR(name, type, data) == [name |-> name, type |-> type, data |-> data]

soa(s) == RR(Apex, "SOA", s)
addNS == RR(Apex, "NS", "ns1")
itemRR(key, item) == RR(itemName(key), "TXT", item)

StatusNames == {Under(<<"_contractdb">>), Under(<<"_contractdb", "health">>),
                Under(<<"_contractdb", "metrics">>)}
Ns1 == Under(<<"ns1">>)

WantsTXT(type) == type \in {"TXT", "ANY"}

\* Names answered without the store.
BuiltIn(name, type) ==
  \/ name = Apex
  \/ name \in StatusNames /\ WantsTXT(type)
  \/ name = Ns1 /\ type \in {"A", "ANY"}

\* Mutant of IsIndexQuery: an index name is recognised at any place.
IsIndexQueryAnywhere(name) ==
  Len(name.labels) >= 2 /\ \E i \in DOMAIN name.labels : name.labels[i] \in DOMAIN GSIs

\* <value>.<index>.<zone>
IsIndexQuery(name) == Len(name.labels) >= 2 /\ name.labels[Len(name.labels)] \in DOMAIN GSIs

\* The attribute value: the labels below the index name, or what a single k-
\* label below it stands for.
IndexValue(name) ==
  IF Len(name.labels) = 2 /\ name.labels[1] \in KLabels THEN parseKey(name)
  ELSE SubSeq(name.labels, 1, Len(name.labels) - 1)

Path(name, type) ==
  IF BuiltIn(name, type) THEN "builtin"
  ELSE IF parseKey(name) \in {NoKey, << >>} THEN "nxdomain"
  ELSE IF IsIndexQuery(name) THEN "index"
  ELSE "get"

Dynamo == config.reads # "demo"

\* What a read of the table may see: with -consistent, and on the demo store, the
\* item that is there; otherwise DynamoDB may ask a replica that lags.
Copies(key) ==
  IF key \notin Keys THEN {NoItem}
  ELSE {store[key]} \cup (IF config.reads = "eventual" THEN {replica[key]} ELSE {})

\* Mutant of Get: the reply of the store is not tested for a missing item.
GetUnchecked(key) == {{itemRR(key, item)} : item \in Copies(key)}

\* store.Get and the test for a nil item: each set of RRs it may lead to.
Returned(key, item) == IF item \in {NoItem, NilItem} THEN {} ELSE {itemRR(key, item)}

Get(key) ==
  {Returned(key, item) : item \in Copies(key)}

\* The item has the value asked for in the attribute of the index in the name.
Matches(name, item) ==
  LET index == name.labels[Len(name.labels)]
  IN  item \in Items /\ index \in DOMAIN GSIs /\ GSIs[index][item] = IndexValue(name)

\* QueryIndex on the demo store: all matching items under one lock.
QueryIndex(name) == {itemRR(k, store[k]) : k \in {j \in Keys : Matches(name, store[j])}}

Found(name, path) ==
  CASE path = "get"   -> Get(parseKey(name))
    [] path = "index" -> {QueryIndex(name)}
    [] OTHER          -> {{}}

LookedUp(q) == Lowered(q.msg.name)
PathOf(q) == Path(LookedUp(q), q.msg.type)

\* The store read, or the first step of one that has pages.
Lookup(c) ==
  LET q == query[c]
      path == PathOf(q)
  IN  /\ q.pc = "lookup"
      /\ \/ /\ path = "index" /\ Dynamo
            /\ query' = [query EXCEPT ![c] = [q EXCEPT !.pc = "paging", !.path = path,
                                                       !.unread = Keys, !.seen = writes]]
         \/ /\ ~(path = "index" /\ Dynamo)
            /\ \E found \in Found(LookedUp(q), path) :
                 query' = [query EXCEPT ![c] = [q EXCEPT !.pc = "compose", !.path = path,
                                                         !.found = found, !.seen = writes]]
      /\ UNCHANGED <<config, tableVars, serial, metrics>>

\* QueryIndex on DynamoDB: indexes are eventually consistent and come in pages,
\* here of one key each, in the order of the index; HasMorePages ends the loop.
ReadPage(c) ==
  LET q == query[c] IN
  /\ q.pc = "paging"
  /\ \/ /\ q.unread = {}
        /\ query' = [query EXCEPT ![c] = [q EXCEPT !.pc = "compose"]]
     \/ /\ q.unread # {}
        /\ LET k == CHOOSE k \in q.unread : TRUE
           IN  \E item \in {store[k], replica[k]} :
                 query' = [query EXCEPT ![c] =
                             [q EXCEPT !.unread = @ \ {k},
                                       !.found = @ \cup (IF Matches(LookedUp(q), item)
                                                         THEN {itemRR(k, item)} ELSE {})]]
  /\ UNCHANGED <<config, tableVars, serial, metrics>>

\* GetItem or Query fails, or an attribute has no JSON form.
FailRead(c) ==
  LET q == query[c] IN
  /\ Dynamo
  /\ q.pc = "paging" \/ (q.pc = "lookup" /\ PathOf(q) \in {"get", "index"})
  /\ query' = [query EXCEPT ![c] = [q EXCEPT !.pc = "compose", !.path = "failed", !.found = {},
                                             !.seen = writes]]
  /\ UNCHANGED <<config, tableVars, serial, metrics>>

\* TXT and address RRs carry the name as it was asked.
BuiltInReply(msg, s) ==
  LET name == Lowered(msg.name)
  IN  IF name = Apex
      THEN [Rcode("NOERROR") EXCEPT
              !.answer = (IF msg.type \in {"SOA", "ANY"} THEN {soa(s)} ELSE {})
                           \cup (IF msg.type \in {"NS", "ANY"} THEN {addNS} ELSE {}),
              !.ns = IF msg.type \in {"SOA", "NS", "ANY"} THEN {} ELSE {soa(s)}]
      ELSE [Rcode("NOERROR") EXCEPT
              !.answer = {IF name = Ns1 THEN RR(msg.name, IF config.v4 THEN "A" ELSE "AAAA", "ip")
                          ELSE RR(msg.name, "TXT", "status")}]

nxDomain(s) == [Rcode("NXDOMAIN") EXCEPT !.ns = {soa(s)}]
nodata(s) == [Rcode("NOERROR") EXCEPT !.ns = {soa(s)}]

buildResponse(msg, path, found, s) ==
  IF path = "builtin" THEN BuiltInReply(msg, s)
  ELSE IF path = "failed" THEN Rcode("SERVFAIL")
  ELSE IF found = {} THEN nxDomain(s)
  ELSE IF WantsTXT(msg.type) THEN [Rcode("NOERROR") EXCEPT !.answer = found]
  ELSE nodata(s)

-----------------------------------------------------------------------------

(***************************************************************************)
(* Sign: denial records first, then the DNSKEY of apex answers, then one   *)
(* RRSIG per RRset of each section.                                        *)
(***************************************************************************)
apexNSEC == RR(Apex, "NSEC", {"NS", "SOA", "TXT", "RRSIG", "NSEC", "DNSKEY"})
nodataNSEC(name) == RR(name, "NSEC", {"TXT", "RRSIG", "NSEC"})
DNSKEY == RR(Apex, "DNSKEY", "key")

\* What Sign adds before it signs.
KeyAt(name) == IF Lowered(name) = Apex THEN {DNSKEY} ELSE {}

Denial(name, reply) ==
  CASE reply.rcode = "NXDOMAIN"                      -> {apexNSEC}
    [] reply.rcode = "NOERROR" /\ reply.answer = {}  -> {nodataNSEC(name)}
    [] OTHER                                         -> {}

RRSize(rr) == IF rr.type = "TXT" /\ rr.data \in Items THEN Size[rr.data] ELSE 1

\* A label has at most 63 octets, the data of an RR at most 64 KiB.
Packs(rr) ==
  /\ \A i \in DOMAIN rr.name.labels : rr.name.labels[i] \notin LongLabels
  /\ RRSize(rr) <= TcpSize

RRSIG(rr) == RR(rr.name, "RRSIG", rr.type)

\* An RRset for which sig.Sign returns an error, be it that it cannot be packed,
\* goes without its RRSIG.
signSection(rrs, failing) == rrs \cup {RRSIG(rr) : rr \in {r \in rrs : Packs(r)} \ failing}

\* Mutant of Sign: the DNSKEY is added after the answer section was signed.
SignKeyLast(name, reply, failing) ==
  [reply EXCEPT !.answer = signSection(@, failing) \cup KeyAt(name),
                !.ns = signSection(@ \cup Denial(name, reply), failing)]

Sign(name, reply, failing) ==
  [reply EXCEPT !.answer = signSection(@ \cup KeyAt(name), failing),
                !.ns = signSection(@ \cup Denial(name, reply), failing)]

\* Mutant of Signed: replies over HTTPS are not signed.
SignedOverDNS(msg, reply, failing) ==
  IF config.signing /\ msg.do /\ msg.front = "dns" THEN Sign(msg.name, reply, failing) ELSE reply

\* Replies are signed for clients that set the DO bit.
Signed(msg, reply, failing) ==
  IF config.signing /\ msg.do THEN Sign(msg.name, reply, failing) ELSE reply

\* The RRsets whose signature may fail.
SignErrors(msg, reply) ==
  IF config.signing /\ msg.do
  THEN {failing \in SUBSET (reply.answer \cup KeyAt(msg.name) \cup reply.ns \cup Denial(msg.name, reply)) :
          Cardinality(failing) <= MaxSignErrors}
  ELSE {{}}

-----------------------------------------------------------------------------

(***************************************************************************)
(* Sizes and truncation.  Header, RRs and the OPT echo count; an owner name*)
(* is one unit, which compression saves.  The TSIG that setupReplyTsig adds*)
(* to an answer afterwards has size 1 too.                                 *)
(***************************************************************************)
ReplySize(msg, reply) ==
  1 + MapThenSumSet(RRSize, reply.answer) + MapThenSumSet(RRSize, reply.ns)
    + (IF reply.compress THEN 0 ELSE Cardinality(reply.answer) + Cardinality(reply.ns))
    + (IF msg.edns THEN 1 ELSE 0) + (IF reply.tsig THEN 1 ELSE 0)

Limit(msg) == IF msg.tcp THEN TcpSize ELSE IF msg.edns THEN EdnsSize ELSE UdpSize

Fits(msg, reply) == ReplySize(msg, reply) <= Limit(msg)

\* The first RRs of a section: signSection puts the RRSIGs last.
Heads(section) ==
  {kept \in SUBSET section : (\E rr \in kept : rr.type = "RRSIG") =>
                               \A rr \in section \ kept : rr.type = "RRSIG"}

\* A reply cut short: the RRs of the authority section go first; TC says so.
CutTo(reply, kept, rest) ==
  [reply EXCEPT !.answer = kept, !.ns = IF kept = reply.answer THEN rest ELSE {}, !.tc = TRUE]

Cuts(reply) == {CutTo(reply, kept, rest) : kept \in Heads(reply.answer), rest \in Heads(reply.ns)}

\* resp.Truncate of miekg/dns turns compression on first: if the reply fits then,
\* nothing is cut and TC stays clear.  Otherwise the last RRs go until it fits;
\* sets do not keep the order of RRs beyond that.
Truncate(msg, reply) ==
  LET whole == [reply EXCEPT !.compress = TRUE]
  IN  IF Fits(msg, whole) THEN {whole}
      ELSE {cut \in Cuts(whole) : Fits(msg, cut)}

Overflows(msg, reply) == msg.front = "dns" /\ ~Fits(msg, reply)

\* Mutant of Fitted: the reply is cut to size first and signed then.
FittedUnsigned(msg, reply, failing) ==
  {Signed(msg, r, failing) : r \in IF Overflows(msg, reply) THEN Truncate(msg, reply) ELSE {reply}}

\* ServeDNS signs the reply and cuts it to what the transport carries; DoH
\* sends it as it is.
Fitted(msg, reply, failing) ==
  LET signed == Signed(msg, reply, failing)
  IN  IF Overflows(msg, signed) THEN Truncate(msg, signed) ELSE {signed}

\* The reply answers in kind when the server has TSIG keys.
setupReplyTsig(msg, reply) ==
  [reply EXCEPT !.tsig = msg.front = "dns" /\ config.keys /\ msg.tsig # "none"]

\* Mutant of ReplyCounters: negative answers over HTTPS are not counted.
ReplyCountersDNS(msg, signed) ==
  (IF signed.rcode = "NXDOMAIN" /\ msg.front = "dns" THEN {"nxdomain"} ELSE {})
    \cup (IF Overflows(msg, signed) THEN {"truncated"} ELSE {})

\* Truncated counts every call of Truncate, whatever it cuts.
ReplyCounters(msg, signed) ==
  (IF signed.rcode = "NXDOMAIN" THEN {"nxdomain"} ELSE {})
    \cup (IF Overflows(msg, signed) THEN {"truncated"} ELSE {})

\* WriteMsg and, over HTTPS, Pack return an error for an RR that cannot be packed;
\* WriteMsg also with a TSIG of a key the server does not have, and over TCP when
\* the TSIG takes the reply past 64 KiB.  The error is logged, or becomes HTTP 500.
Sendable(msg, reply) ==
  /\ \A rr \in reply.answer \cup reply.ns : Packs(rr)
  /\ ~(reply.tsig /\ msg.tsig = "unknownkey")
  /\ msg.front = "dns" /\ msg.tcp => ReplySize(msg, reply) <= TcpSize

\* Builds the reply and sends it.
Compose(c) ==
  LET q == query[c]
      built == buildResponse(q.msg, q.path, q.found, serial)
  IN  /\ q.pc = "compose"
      /\ \E failing \in SignErrors(q.msg, built) : \E fitted \in Fitted(q.msg, built, failing) :
           LET reply == setupReplyTsig(q.msg, fitted)
           IN  /\ Counted(ReplyCounters(q.msg, Signed(q.msg, built, failing)))
               /\ query' = [query EXCEPT ![c] =
                     [q EXCEPT !.pc = IF Sendable(q.msg, reply) THEN "done" ELSE "unsent",
                               !.soa = serial, !.unsigned = failing, !.reply = reply]]
      /\ UNCHANGED <<config, tableVars, serial>>

-----------------------------------------------------------------------------

(***************************************************************************)
(* UPDATEs, of which queries see two things: the write of an item and,     *)
(* some time later, the new serial.  Module Zone has the steps between.    *)
(***************************************************************************)
\* DynamoDB has no null item: Put adds the key to the payload.
WriteItem(k, item) ==
  /\ writes < MaxWrites
  /\ store[k] # item /\ (item = NilItem => ~Dynamo)
  /\ store' = [store EXCEPT ![k] = item]
  /\ past' = [past EXCEPT ![k] = @ \cup {item}]
  /\ writes' = writes + 1
  /\ UNCHANGED <<config, replica, serial, query, metrics>>

BumpSerial ==
  /\ serial - Start < writes
  /\ serial' = serial + 1
  /\ UNCHANGED <<config, tableVars, query, metrics>>

\* A dynamo replica catches up with one item.
Replicate(k) ==
  /\ Dynamo /\ replica[k] # store[k]
  /\ replica' = [replica EXCEPT ![k] = store[k]]
  /\ UNCHANGED <<config, store, past, writes, serial, query, metrics>>

\* Every client has its reply.
Served ==
  /\ \A c \in Clients : query[c].pc \in {"done", "unsent"}
  /\ UNCHANGED queryVars

Next ==
  \/ \E c \in Clients : \/ \E msg \in Messages[c] : Receive(c, msg)
                       \/ Lookup(c) \/ ReadPage(c) \/ FailRead(c) \/ Compose(c)
  \/ \E u \in Updates : WriteItem(u[1], u[2])
  \/ \E k \in Keys : Replicate(k)
  \/ BumpSerial
  \/ Served

Spec == Init /\ [][Next]_queryVars

-----------------------------------------------------------------------------

(***************************************************************************)
(* Properties.                                                             *)
(***************************************************************************)

\* The RRs a reply can hold: items have values, which a store that returned no
\* item must not be taken to have.
WellFormed(rr) ==
  /\ rr.name.inZone
  /\ rr.type = "TXT" => rr.data \in Items \cup {"status"}
  /\ rr.type = "SOA" => rr.data \in Start..serial

\* Types: a reply holds RRs of the zone; every item in it is an item of the
\* table and every SOA has a serial that was current (buildResponse, soa).
QueryTypeOK ==
  /\ DOMAIN store = Keys
  /\ \A k \in Keys : store[k] \in past[k] /\ past[k] \subseteq Items \cup {NoItem, NilItem}
  /\ serial \in Start..Start + writes
  /\ \A c \in Clients :
       /\ query[c].pc \in {"idle", "lookup", "paging", "compose", "done", "unsent"}
       /\ \A rr \in query[c].found \cup query[c].reply.answer \cup query[c].reply.ns : WellFormed(rr)

Replied(c) == query[c].pc = "done"

\* A reply to a question, not to a message turned away.
Answered(c) == Replied(c) /\ query[c].reply.rcode \in {"NOERROR", "NXDOMAIN"}

\* In tsig-required mode neither front end tells a client without a valid TSIG
\* anything, not even that a name does not exist (authOK, writeDoHResponse).
AuthGate ==
  \A c \in Clients :
    config.authRequired /\ Answered(c) => tsigValid(query[c].msg) /\ query[c].msg.front = "dns"

\* What a reply says of the item under a key; a null item passes for none.
Reports(reply, k, item) ==
  IF item \in {NoItem, NilItem} THEN reply.rcode = "NXDOMAIN"
  ELSE {rr \in reply.answer : rr.type # "RRSIG"} = {itemRR(k, item)}

\* What a store read of the item under a key may have returned, as far as it can
\* be told now.
Held(q, k) == IF config.reads # "eventual" /\ q.seen = writes THEN {store[k]} ELSE past[k]

\* Keys that can be asked for by their name: not the empty key, not one that
\* parseKey takes for base32, not one whose name belongs to an index.
Addressable(k) ==
  LET labels == itemName(k).labels
  IN  k # << >> /\ ~Disguised(k) /\ ~(labels[Len(labels)] \in DOMAIN GSIs /\ Len(labels) > 1)

\* The name that transfers and deltas list an item under (itemName) answers
\* with that item, in whatever case it is asked and whether or not a label of
\* it also names an index; once the item is gone it answers NXDOMAIN.  On the
\* demo store and with -consistent only a write after the store read makes the
\* reply differ from the table; DynamoDB's default reads may answer with an item
\* the key had before, never with anything else (buildResponse, Get).
ListedIsAnswered ==
  \A c \in Clients, k \in Keys :
    LET q == query[c] IN
    /\ Answered(c) /\ ~q.reply.tc
    /\ q.msg.type = "TXT" /\ LookedUp(q) = itemName(k) /\ Addressable(k)
    => \E item \in Held(q, k) : Reports(q.reply, k, item)

\* A client that sets DO on a signing server can validate what it gets: each
\* RRset of a complete reply has its RRSIG in the same section, the DNSKEY at
\* the apex included, unless sig.Sign itself returned an error for it, and a
\* negative reply has an NSEC (Sign, signSection).
SignedAnswers ==
  \A c \in Clients :
    LET q == query[c] IN
    Answered(c) /\ config.signing /\ q.msg.do /\ ~q.reply.tc =>
      /\ \A section \in {q.reply.answer, q.reply.ns} : \A rr \in section \ q.unsigned :
           rr.type # "RRSIG" => RRSIG(rr) \in section
      /\ q.reply.answer = {} => \E rr \in q.reply.ns : rr.type = "NSEC"

\* Both front ends make the same of the same items at the same serial, as far
\* as the reply fits the transport and signing succeeds (buildResponse is shared,
\* what follows it is written twice: ServeDNS and writeDoHResponse).
SameAnswerEverywhere ==
  \A c, d \in Clients :
    LET q == query[c]
        r == query[d]
    IN  /\ Answered(c) /\ Answered(d) /\ ~q.reply.tc /\ ~r.reply.tc
        /\ \A f \in {"found", "soa", "unsigned"} : q[f] = r[f]
        /\ \A f \in {"name", "type", "do"} : q.msg[f] = r.msg[f]
        => \A f \in {"rcode", "answer", "ns"} : q.reply[f] = r.reply[f]

\* What ServeDNS sends, before any TSIG, fits what the client can take: the
\* signatures are in the reply when it is measured.
FitsBeforeTsig ==
  \A c \in Clients :
    LET q == query[c] IN
    Answered(c) /\ q.msg.front = "dns" =>
      Fits(q.msg, [q.reply EXCEPT !.tsig = FALSE])

\* The counters of _contractdb.metrics agree with what happened to the messages
\* of both front ends, replies that could not be sent included (Metrics): queries
\* counts what neither acceptFunc nor the DoH handler turned away, truncated the
\* replies that had to be compressed to fit, which may have made the TC bit needless.
CountersMatchReplies ==
  LET Composed(P(_)) == Cardinality({c \in Clients : query[c].pc \in {"done", "unsent"} /\ P(query[c])})
      Underway == Cardinality({c \in Clients : query[c].pc \in {"lookup", "paging", "compose"}})
      TurnedAway(q) == \/ q.reply.rcode \in {"NOTIMP", "FORMERR"}
                       \/ q.reply.rcode = "REFUSED" /\ q.msg.front = "doh"
  IN  /\ metrics.queries = Underway + Composed(LAMBDA q : ~TurnedAway(q))
      /\ metrics.nxdomain = Composed(LAMBDA q : q.reply.rcode = "NXDOMAIN")
      /\ metrics.truncated = Composed(LAMBDA q : q.reply.compress)
      /\ metrics.refused = Composed(LAMBDA q : q.reply.rcode = "REFUSED" /\ q.msg.front = "dns")

=============================================================================
