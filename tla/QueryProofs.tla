---------------------------- MODULE QueryProofs ----------------------------
(***************************************************************************)
(* What clients are told, for any number of them, any table, any messages  *)
(* and any sizes.                                                          *)
(*                                                                         *)
(* A reply is the last of several steps, and what it says was fixed in     *)
(* earlier ones.  The invariant therefore keeps, of every goroutine, where *)
(* each part of its reply came from: the verdict of the dispatch, the      *)
(* result of the store read, and the serial of the SOA.  A store read is   *)
(* dated by the number of writes before it.                                *)
(***************************************************************************)
EXTENDS Query, NamesProofs, FiniteSetTheorems

ItemRRs == {itemRR(k, item) : k \in Keys, item \in Items}

\* Where a reply comes from.
Founded(q) ==
  \/ /\ q.pc = "done" /\ Verdict(q.msg) # "NOERROR"
     /\ q.reply = Rcode(Verdict(q.msg))
  \/ /\ Verdict(q.msg) = "NOERROR" /\ q.soa \in Start..serial
     /\ \E fitted \in Fitted(q.msg, buildResponse(q.msg, q.path, q.found, q.soa), q.unsigned) :
          q.reply = setupReplyTsig(q.msg, fitted)
     /\ q.pc = "done" => Sendable(q.msg, q.reply)

\* What it was read from.
ReadFrom(q) ==
  /\ q.path \in {PathOf(q), "failed"}
  /\ q.path = "get" =>
       /\ q.seen \in 0..writes
       /\ \A k \in Keys : parseKey(LookedUp(q)) = k => \E item \in Held(q, k) : q.found = Returned(k, item)

IsQuery(q) ==
  q = [pc |-> q.pc, msg |-> q.msg, path |-> q.path, unread |-> q.unread, found |-> q.found,
       seen |-> q.seen, soa |-> q.soa, unsigned |-> q.unsigned, reply |-> q.reply]

QueryState(c) ==
  LET q == query[c] IN
  /\ IsQuery(q)
  /\ q.pc \in {"idle", "lookup", "paging", "compose", "done", "unsent"}
  /\ q.pc # "idle" => q.msg \in Messages[c]
  /\ q.unread \subseteq Keys
  /\ q.found \subseteq ItemRRs /\ (q.found # {} => BelowZone(LookedUp(q)))
  /\ q.pc \in {"lookup", "paging", "compose"} => Verdict(q.msg) = "NOERROR"
  /\ q.pc \in {"idle", "lookup", "paging", "compose"} => q.reply = NoReply
  /\ q.pc = "paging" => q.path = "index" /\ PathOf(q) = "index"
  /\ q.pc \in {"done", "unsent"} => Founded(q)
  /\ q.pc \in {"compose", "done", "unsent"} /\ Verdict(q.msg) = "NOERROR" => ReadFrom(q)

Values == Items \cup {NoItem, NilItem}

Table ==
  /\ store \in [Keys -> Values] /\ replica \in [Keys -> Values] /\ past \in [Keys -> SUBSET Values]
  /\ \A k \in Keys : store[k] \in past[k] /\ replica[k] \in past[k]
  /\ writes \in Nat /\ serial \in Start..Start + writes

QueryInv ==
  /\ Table
  /\ query = [c \in Clients |-> query[c]]
  /\ \A c \in Clients : QueryState(c)

-----------------------------------------------------------------------------

\* What depends on the configuration only does not change.
LEMMA ConfigKept ==
  ASSUME config' = config, NEW msg, NEW path, NEW found, NEW s, NEW r, NEW failing
  PROVE  /\ Verdict(msg)' = Verdict(msg)
         /\ buildResponse(msg, path, found, s)' = buildResponse(msg, path, found, s)
         /\ Fitted(msg, r, failing)' = Fitted(msg, r, failing)
         /\ setupReplyTsig(msg, r)' = setupReplyTsig(msg, r)
<1>1. Verdict(msg)' = Verdict(msg)
  BY DEF Verdict, DoHVerdict, ServeDNSVerdict, authOK, tsigValid
<1>2. buildResponse(msg, path, found, s)' = buildResponse(msg, path, found, s)
  BY DEF buildResponse, BuiltInReply
<1>3. Fitted(msg, r, failing)' = Fitted(msg, r, failing)
  BY DEF Fitted, Signed
<1>4. setupReplyTsig(msg, r)' = setupReplyTsig(msg, r)
  BY DEF setupReplyTsig
<1> QED
  BY <1>1, <1>2, <1>3, <1>4

\* A later serial, or another table, does not take a reply's grounds away.
LEMMA FoundedKept ==
  ASSUME config' = config, serial \in Int, serial' \in Int, serial <= serial', Start \in Int,
         NEW q, Founded(q)
  PROVE  Founded(q)'
<1>1. CASE q.pc = "done" /\ Verdict(q.msg) # "NOERROR" /\ q.reply = Rcode(Verdict(q.msg))
  BY <1>1, ConfigKept DEF Founded
<1>2. CASE /\ Verdict(q.msg) = "NOERROR" /\ q.soa \in Start..serial
           /\ \E fitted \in Fitted(q.msg, buildResponse(q.msg, q.path, q.found, q.soa), q.unsigned) :
                q.reply = setupReplyTsig(q.msg, fitted)
           /\ q.pc = "done" => Sendable(q.msg, q.reply)
  <2>1. PICK fitted \in Fitted(q.msg, buildResponse(q.msg, q.path, q.found, q.soa), q.unsigned) :
          q.reply = setupReplyTsig(q.msg, fitted)
    BY <1>2
  <2>2. Verdict(q.msg)' = "NOERROR" /\ q.soa \in Start..serial'
    BY <1>2, ConfigKept
  <2>3. buildResponse(q.msg, q.path, q.found, q.soa)' = buildResponse(q.msg, q.path, q.found, q.soa)
    BY ConfigKept
  <2>4. fitted \in Fitted(q.msg, buildResponse(q.msg, q.path, q.found, q.soa), q.unsigned)'
    BY <2>1, <2>3, ConfigKept
  <2>5. q.reply = setupReplyTsig(q.msg, fitted)'
    BY <2>1, ConfigKept
  <2> QED
    BY <1>2, <2>2, <2>4, <2>5 DEF Founded
<1> QED
  BY <1>1, <1>2 DEF Founded

\* What a store read returned stays among what it may have returned.
LEMMA HeldKept ==
  ASSUME Table, NEW q, q.seen \in 0..writes, NEW k \in Keys, config' = config, past'[k] \in SUBSET Values,
         \/ writes' = writes /\ store' = store /\ past' = past
         \/ writes' = writes + 1 /\ past[k] \subseteq past'[k]
  PROVE  Held(q, k) \subseteq Held(q, k)' /\ q.seen \in 0..writes'
<1>1. writes \in Nat /\ store[k] \in past[k]
  BY DEF Table
<1>2. CASE writes' = writes /\ store' = store /\ past' = past
  BY <1>2 DEF Held
<1>3. CASE writes' = writes + 1 /\ past[k] \subseteq past'[k]
  BY <1>1, <1>3 DEF Held
<1> QED
  BY <1>2, <1>3

\* What a goroutine knows stays true while others work, and while the table and
\* the serial move on.
LEMMA StateKept ==
  ASSUME QueryInv, NEW c \in Clients, query'[c] = query[c], config' = config,
         serial' \in Int, serial <= serial', past' \in [Keys -> SUBSET Values],
         \/ writes' = writes /\ store' = store /\ past' = past
         \/ writes' = writes + 1 /\ \A k \in Keys : past[k] \subseteq past'[k]
  PROVE  QueryState(c)'
<1> DEFINE q == query[c]
<1>1. QueryState(c) /\ Table /\ writes \in Nat /\ serial \in Int /\ Start \in Int
  BY TableAssumption DEF QueryInv, Table
<1>2. Verdict(q.msg)' = Verdict(q.msg) /\ (Founded(q) => Founded(q)')
  BY <1>1, ConfigKept, FoundedKept
<1>3. LookedUp(q)' = LookedUp(q) /\ PathOf(q)' = PathOf(q)
  BY DEF LookedUp, PathOf
<1>4. ReadFrom(q) => ReadFrom(q)'
  <2> SUFFICES ASSUME ReadFrom(q), q.path = "get"
               PROVE  /\ q.seen \in 0..writes'
                      /\ \A k \in Keys : parseKey(LookedUp(q)) = k =>
                           \E item \in Held(q, k)' : q.found = Returned(k, item)
    BY <1>3 DEF ReadFrom
  <2>1. q.seen \in 0..writes'
    BY <1>1 DEF ReadFrom
  <2>2. \A k \in Keys : Held(q, k) \subseteq Held(q, k)'
    <3> SUFFICES ASSUME NEW k \in Keys PROVE Held(q, k) \subseteq Held(q, k)'
      OBVIOUS
    <3>1. past'[k] \in SUBSET Values /\ q.seen \in 0..writes
      BY DEF ReadFrom
    <3> QED
      BY <1>1, <3>1, HeldKept
  <2> QED
    BY <2>1, <2>2 DEF ReadFrom
<1> QED
  BY <1>1, <1>2, <1>3, <1>4 DEF QueryState

-----------------------------------------------------------------------------

LEMMA InitInv == Init => QueryInv
<1> SUFFICES ASSUME Init PROVE QueryInv
  OBVIOUS
<1>1. Table
  BY TableAssumption DEF Init, Table, Values
<1>2. query = [c \in Clients |-> query[c]] /\ \A c \in Clients : query[c] = IdleQuery
  BY DEF Init
<1>3. \A c \in Clients : QueryState(c)
  BY <1>2 DEF QueryState, IsQuery, IdleQuery
<1> QED
  BY <1>1, <1>2, <1>3 DEF QueryInv

\* A step of one goroutine, given what it makes of its own state.
LEMMA OneMoves ==
  ASSUME QueryInv, NEW c \in Clients, NEW r, query' = [query EXCEPT ![c] = r],
         UNCHANGED <<config, tableVars, serial>>,
         QueryState(c)'
  PROVE  QueryInv'
<1>1. query = [d \in Clients |-> query[d]] /\ Table
  BY DEF QueryInv
<1>2. query' = [d \in Clients |-> query'[d]] /\ \A d \in Clients \ {c} : query'[d] = query[d]
  BY <1>1
<1>3. serial \in Int /\ past' \in [Keys -> SUBSET Values] /\ UNCHANGED <<store, replica, past, writes>>
  BY <1>1, TableAssumption DEF Table, tableVars
<1>4. \A d \in Clients : QueryState(d)'
  BY <1>2, <1>3, StateKept
<1>5. Table'
  BY <1>1, <1>3 DEF Table
<1> QED
  BY <1>2, <1>4, <1>5 DEF QueryInv

\* Receive: the verdict is the reply, or the goroutine goes on to the store.
LEMMA ReceiveInv ==
  ASSUME QueryInv, NEW c \in Clients, NEW msg \in Messages[c], Receive(c, msg)
  PROVE  QueryInv'
<1> DEFINE r == IF Verdict(msg) = "NOERROR"
                THEN [IdleQuery EXCEPT !.pc = "lookup", !.msg = msg]
                ELSE [IdleQuery EXCEPT !.pc = "done", !.msg = msg, !.reply = Rcode(Verdict(msg))]
<1>1. query = [d \in Clients |-> query[d]] /\ query[c].pc = "idle"
  BY DEF QueryInv, Receive
<1>2. query' = [query EXCEPT ![c] = r] /\ UNCHANGED <<config, tableVars, serial>>
  BY DEF Receive
<1>3. query'[c] = r
  BY <1>1, <1>2
<1>4. r = [pc |-> r.pc, msg |-> msg, path |-> "none", unread |-> {}, found |-> {}, seen |-> 0, soa |-> 0,
           unsigned |-> {}, reply |-> r.reply]
  BY DEF IdleQuery
<1>5. \/ Verdict(msg) = "NOERROR" /\ r.pc = "lookup" /\ r.reply = NoReply
      \/ Verdict(msg) # "NOERROR" /\ r.pc = "done" /\ r.reply = Rcode(Verdict(msg))
  BY DEF IdleQuery
<1> HIDE DEF r
<1>6. r.msg = msg /\ r.found = {} /\ r.unread = {} /\ IsQuery(r)
  BY <1>4 DEF IsQuery
<1>7. Verdict(msg)' = Verdict(msg) /\ Rcode(Verdict(msg))' = Rcode(Verdict(msg))
  BY <1>2, ConfigKept
<1>8. QueryState(c)'
  <2>1. query'[c].pc = "done" => Founded(query[c])'
    BY <1>3, <1>5, <1>6, <1>7 DEF Founded
  <2>2. /\ query'[c].pc \in {"lookup", "done"} /\ query'[c].msg = msg /\ query'[c].found = {}
        /\ query'[c].unread = {}
        /\ query'[c].pc = "lookup" => Verdict(query[c].msg)' = "NOERROR" /\ query'[c].reply = NoReply
        /\ query'[c].pc = "done" => Verdict(query[c].msg)' # "NOERROR"
    BY <1>3, <1>5, <1>6, <1>7
  <2>3. IsQuery(query[c])'
    BY <1>3, <1>6 DEF IsQuery
  <2> QED
    BY <2>1, <2>2, <2>3 DEF QueryState
<1> QED
  BY <1>2, <1>8, OneMoves

\* A goroutine that has read, or is reading, the store.
LEMMA Reading ==
  ASSUME QueryInv, NEW c \in Clients, query[c].pc \in {"lookup", "paging"}, NEW r,
         query' = [query EXCEPT ![c] = r], UNCHANGED <<config, tableVars, serial>>,
         IsQuery(r), r.msg = query[c].msg, r.reply = query[c].reply, r.unread \subseteq Keys,
         r.found \subseteq ItemRRs, r.found # {} => BelowZone(LookedUp(query[c])),
         \/ r.pc = "paging" /\ r.path = "index" /\ PathOf(query[c]) = "index"
         \/ /\ r.pc = "compose" /\ r.path \in {PathOf(query[c]), "failed"}
            /\ r.path = "get" =>
                 /\ r.seen = writes
                 /\ \A k \in Keys : parseKey(LookedUp(query[c])) = k =>
                      \E item \in Copies(k) : r.found = Returned(k, item)
  PROVE  QueryInv'
<1> DEFINE q == query[c]
<1>1. query = [d \in Clients |-> query[d]] /\ QueryState(c) /\ Table
  BY DEF QueryInv
<1>2. query'[c] = r
  BY <1>1
<1>3. Verdict(q.msg) = "NOERROR" /\ q.reply = NoReply /\ q.msg \in Messages[c]
  BY <1>1 DEF QueryState
<1>4. Verdict(query[c].msg)' = "NOERROR" /\ IsQuery(query[c])'
  BY <1>2, <1>3, ConfigKept DEF IsQuery
<1>5. PathOf(query[c])' = PathOf(q) /\ LookedUp(query[c])' = LookedUp(q)
  BY <1>2 DEF PathOf, LookedUp
<1>6. r.pc = "compose" => ReadFrom(query[c])'
  <2> SUFFICES ASSUME r.pc = "compose" PROVE ReadFrom(query[c])'
    OBVIOUS
  <2>1. query'[c].path \in {PathOf(query[c])', "failed"}
    BY <1>2, <1>5
  <2>2. ASSUME query'[c].path = "get"
        PROVE  /\ query'[c].seen \in 0..writes'
               /\ \A k \in Keys : parseKey(LookedUp(query[c]))' = k =>
                    \E item \in Held(query[c], k)' : query'[c].found = Returned(k, item)
    <3>1. r.seen = writes /\ writes' = writes /\ writes \in Nat /\ store' = store /\ past' = past
      BY <1>1, <1>2, <2>2 DEF Table, tableVars
    <3>2. ASSUME NEW k \in Keys PROVE Copies(k) \subseteq Held(query[c], k)'
      <4>1. Copies(k) \subseteq past[k] /\ (config.reads # "eventual" => Copies(k) = {store[k]})
        BY <1>1 DEF Copies, Table
      <4> QED
        BY <3>1, <4>1 DEF Held
    <3>3. ASSUME NEW k \in Keys, parseKey(LookedUp(q)) = k
          PROVE  \E item \in Held(query[c], k)' : r.found = Returned(k, item)
      BY <1>2, <2>2, <3>2, <3>3
    <3> QED
      BY <1>2, <1>5, <3>1, <3>3
  <2> QED
    BY <2>1, <2>2 DEF ReadFrom
<1>7. QueryState(c)'
  BY <1>2, <1>3, <1>4, <1>5, <1>6 DEF QueryState
<1> QED
  BY <1>7, OneMoves

\* Lookup: what is read is what the table, or a replica, has now.
LEMMA LookupInv ==
  ASSUME QueryInv, NEW c \in Clients, Lookup(c)
  PROVE  QueryInv'
<1> DEFINE q == query[c]
           path == PathOf(q)
<1>1. QueryState(c) /\ Table /\ q.pc = "lookup" /\ UNCHANGED <<config, tableVars, serial>>
  BY DEF QueryInv, Lookup
<1>2. q \in [pc : {q.pc}, msg : {q.msg}, path : {q.path}, unread : {q.unread}, found : {q.found},
             seen : {q.seen}, soa : {q.soa}, unsigned : {q.unsigned}, reply : {q.reply}]
  BY <1>1 DEF QueryState, IsQuery
<1>3. q.found \subseteq ItemRRs /\ (q.found # {} => BelowZone(LookedUp(q))) /\ q.unread \subseteq Keys
  BY <1>1 DEF QueryState
<1>4. CASE /\ path = "index" /\ Dynamo
           /\ query' = [query EXCEPT ![c] = [q EXCEPT !.pc = "paging", !.path = path,
                                                      !.unread = Keys, !.seen = writes]]
  <2> DEFINE r == [q EXCEPT !.pc = "paging", !.path = path, !.unread = Keys, !.seen = writes]
  <2>1. r \in [pc : {"paging"}, msg : {q.msg}, path : {path}, unread : {Keys}, found : {q.found},
               seen : {writes}, soa : {q.soa}, unsigned : {q.unsigned}, reply : {q.reply}]
    BY <1>2
  <2>2. query' = [query EXCEPT ![c] = r]
    BY <1>4
  <2> HIDE DEF r
  <2>3. /\ IsQuery(r) /\ r.pc = "paging" /\ r.msg = q.msg /\ r.path = path /\ r.unread = Keys
        /\ r.found = q.found /\ r.reply = q.reply
    BY <2>1 DEF IsQuery
  <2> QED
    BY <1>1, <1>3, <1>4, <2>2, <2>3, Reading
<1>5. CASE /\ ~(path = "index" /\ Dynamo)
           /\ \E found \in Found(LookedUp(q), path) :
                query' = [query EXCEPT ![c] = [q EXCEPT !.pc = "compose", !.path = path,
                                                        !.found = found, !.seen = writes]]
  <2>1. PICK found \in Found(LookedUp(q), path) :
          query' = [query EXCEPT ![c] = [q EXCEPT !.pc = "compose", !.path = path,
                                                  !.found = found, !.seen = writes]]
    BY <1>5
  <2> DEFINE r == [q EXCEPT !.pc = "compose", !.path = path, !.found = found, !.seen = writes]
  <2>2. r \in [pc : {"compose"}, msg : {q.msg}, path : {path}, unread : {q.unread}, found : {found},
               seen : {writes}, soa : {q.soa}, unsigned : {q.unsigned}, reply : {q.reply}]
    BY <1>2
  <2>3. path \in {"get", "index"} => BelowZone(LookedUp(q))
    BY DEF PathOf, Path, parseKey
  <2>4. found \subseteq ItemRRs /\ (found # {} => BelowZone(LookedUp(q)))
    <3>1. CASE path = "get"
      <4> DEFINE k == parseKey(LookedUp(q))
      <4>1. PICK item \in Copies(k) : found = Returned(k, item)
        BY <2>1, <3>1 DEF Found, Get
      <4>2. item \in Items => k \in Keys
        BY <4>1, TableAssumption DEF Copies
      <4>3. item \in Values
        BY <1>1, <4>1 DEF Copies, Table, Values
      <4> QED
        BY <2>3, <3>1, <4>1, <4>2, <4>3 DEF Returned, ItemRRs, Values
    <3>2. CASE path = "index"
      <4>1. found = QueryIndex(LookedUp(q))
        BY <2>1, <3>2 DEF Found
      <4>2. found \subseteq ItemRRs
        BY <4>1 DEF QueryIndex, Matches, ItemRRs
      <4> QED
        BY <2>3, <3>2, <4>2
    <3>3. CASE path \notin {"get", "index"}
      BY <2>1, <3>3 DEF Found
    <3> QED
      BY <3>1, <3>2, <3>3
  <2>5. path = "get" => \A k \in Keys : parseKey(LookedUp(q)) = k =>
                          \E item \in Copies(k) : found = Returned(k, item)
    BY <2>1 DEF Found, Get
  <2>6. query' = [query EXCEPT ![c] = r]
    BY <2>1
  <2> HIDE DEF r
  <2>7. /\ IsQuery(r) /\ r.pc = "compose" /\ r.msg = q.msg /\ r.path = path /\ r.unread = q.unread
        /\ r.found = found /\ r.seen = writes /\ r.reply = q.reply
    BY <2>2 DEF IsQuery
  <2> QED
    BY <1>1, <1>3, <2>4, <2>5, <2>6, <2>7, Reading
<1> QED
  BY <1>4, <1>5 DEF Lookup

\* ReadPage: each page adds an item of the table.
LEMMA ReadPageInv ==
  ASSUME QueryInv, NEW c \in Clients, ReadPage(c)
  PROVE  QueryInv'
<1> DEFINE q == query[c]
           k == CHOOSE j \in q.unread : TRUE
<1>1. QueryState(c) /\ Table /\ q.pc = "paging" /\ UNCHANGED <<config, tableVars, serial>>
  BY DEF QueryInv, ReadPage
<1>2. q \in [pc : {q.pc}, msg : {q.msg}, path : {q.path}, unread : {q.unread}, found : {q.found},
             seen : {q.seen}, soa : {q.soa}, unsigned : {q.unsigned}, reply : {q.reply}]
  BY <1>1 DEF QueryState, IsQuery
<1>3. /\ q.found \subseteq ItemRRs /\ (q.found # {} => BelowZone(LookedUp(q))) /\ q.unread \subseteq Keys
      /\ q.path = "index" /\ PathOf(q) = "index"
  BY <1>1 DEF QueryState
<1>4. CASE query' = [query EXCEPT ![c] = [q EXCEPT !.pc = "compose"]]
  <2> DEFINE r == [q EXCEPT !.pc = "compose"]
  <2>1. r \in [pc : {"compose"}, msg : {q.msg}, path : {q.path}, unread : {q.unread}, found : {q.found},
               seen : {q.seen}, soa : {q.soa}, unsigned : {q.unsigned}, reply : {q.reply}]
    BY <1>2
  <2> HIDE DEF r
  <2>2. /\ IsQuery(r) /\ r.pc = "compose" /\ r.msg = q.msg /\ r.path = q.path /\ r.unread = q.unread
        /\ r.found = q.found /\ r.reply = q.reply
    BY <2>1 DEF IsQuery
  <2> QED
    BY <1>1, <1>3, <1>4, <2>2, Reading DEF r
<1>5. ASSUME q.unread # {}, NEW item \in {store[k], replica[k]},
             query' = [query EXCEPT ![c] =
                         [q EXCEPT !.unread = @ \ {k},
                                   !.found = @ \cup (IF Matches(LookedUp(q), item)
                                                     THEN {itemRR(k, item)} ELSE {})]]
      PROVE  QueryInv'
  <2> DEFINE found == q.found \cup (IF Matches(LookedUp(q), item) THEN {itemRR(k, item)} ELSE {})
             unread == q.unread \ {k}
             r == [q EXCEPT !.unread = unread, !.found = found]
  <2>1. k \in Keys
    BY <1>3, <1>5
  <2> HIDE DEF k
  <2>2. found \subseteq ItemRRs
    BY <1>3, <2>1 DEF Matches, ItemRRs
  <2>3. BelowZone(LookedUp(q))
    BY <1>3 DEF PathOf, Path, parseKey
  <2>4. unread \subseteq Keys
    BY <1>3
  <2>5. query' = [query EXCEPT ![c] = r]
    BY <1>2, <1>5
  <2> HIDE DEF found, unread
  <2>6. r \in [pc : {q.pc}, msg : {q.msg}, path : {q.path}, unread : {unread}, found : {found},
               seen : {q.seen}, soa : {q.soa}, unsigned : {q.unsigned}, reply : {q.reply}]
    BY <1>2
  <2> HIDE DEF r
  <2>7. /\ IsQuery(r) /\ r.pc = q.pc /\ r.msg = q.msg /\ r.path = q.path /\ r.unread = unread
        /\ r.found = found /\ r.reply = q.reply
    BY <2>6 DEF IsQuery
  <2> QED
    BY <1>1, <1>3, <2>2, <2>3, <2>4, <2>5, <2>7, Reading
<1>6. \/ query' = [query EXCEPT ![c] = [q EXCEPT !.pc = "compose"]]
      \/ /\ q.unread # {}
         /\ \E item \in {store[k], replica[k]} :
              query' = [query EXCEPT ![c] =
                         [q EXCEPT !.unread = @ \ {k},
                                   !.found = @ \cup (IF Matches(LookedUp(q), item)
                                                     THEN {itemRR(k, item)} ELSE {})]]
  BY DEF ReadPage
<1> QED
  BY <1>4, <1>5, <1>6

\* FailRead: a read that failed counts for nothing.
LEMMA FailReadInv ==
  ASSUME QueryInv, NEW c \in Clients, FailRead(c)
  PROVE  QueryInv'
<1> DEFINE q == query[c]
           r == [q EXCEPT !.pc = "compose", !.path = "failed", !.found = {}, !.seen = writes]
<1>1. QueryState(c) /\ q.pc \in {"lookup", "paging"} /\ UNCHANGED <<config, tableVars, serial>>
  BY DEF QueryInv, FailRead
<1>2. q \in [pc : {q.pc}, msg : {q.msg}, path : {q.path}, unread : {q.unread}, found : {q.found},
             seen : {q.seen}, soa : {q.soa}, unsigned : {q.unsigned}, reply : {q.reply}]
  BY <1>1 DEF QueryState, IsQuery
<1>3. r \in [pc : {"compose"}, msg : {q.msg}, path : {"failed"}, unread : {q.unread}, found : {{}},
             seen : {writes}, soa : {q.soa}, unsigned : {q.unsigned}, reply : {q.reply}]
  BY <1>2
<1>4. query' = [query EXCEPT ![c] = r] /\ q.unread \subseteq Keys
  BY <1>1 DEF FailRead, QueryState
<1> HIDE DEF r
<1>5. /\ IsQuery(r) /\ r.pc = "compose" /\ r.msg = q.msg /\ r.path = "failed" /\ r.unread = q.unread
      /\ r.found = {} /\ r.reply = q.reply
  BY <1>3 DEF IsQuery
<1> QED
  BY <1>1, <1>4, <1>5, Reading

\* Compose: the reply is made of the verdict, the read and the serial of now.
LEMMA ComposeInv ==
  ASSUME QueryInv, NEW c \in Clients, Compose(c)
  PROVE  QueryInv'
<1> DEFINE q == query[c]
           built == buildResponse(q.msg, q.path, q.found, serial)
<1>1. /\ query = [d \in Clients |-> query[d]] /\ QueryState(c) /\ q.pc = "compose"
      /\ serial \in Start..serial
  BY TableAssumption DEF QueryInv, Table, Compose
<1>2. q \in [pc : {q.pc}, msg : {q.msg}, path : {q.path}, unread : {q.unread}, found : {q.found},
             seen : {q.seen}, soa : {q.soa}, unsigned : {q.unsigned}, reply : {q.reply}]
  BY <1>1 DEF QueryState, IsQuery
<1>3. UNCHANGED <<config, tableVars, serial>>
  BY DEF Compose
<1>a. PICK failing \in SignErrors(q.msg, built) : \E fitted \in Fitted(q.msg, built, failing) :
        query' = [query EXCEPT ![c] =
                   [q EXCEPT !.pc = IF Sendable(q.msg, setupReplyTsig(q.msg, fitted)) THEN "done" ELSE "unsent",
                             !.soa = serial, !.unsigned = failing, !.reply = setupReplyTsig(q.msg, fitted)]]
  BY DEF Compose
<1>4. PICK fitted \in Fitted(q.msg, built, failing) :
        query' = [query EXCEPT ![c] =
                   [q EXCEPT !.pc = IF Sendable(q.msg, setupReplyTsig(q.msg, fitted)) THEN "done" ELSE "unsent",
                             !.soa = serial, !.unsigned = failing, !.reply = setupReplyTsig(q.msg, fitted)]]
  BY <1>a
<1> DEFINE reply == setupReplyTsig(q.msg, fitted)
           pc == IF Sendable(q.msg, reply) THEN "done" ELSE "unsent"
           r == [q EXCEPT !.pc = pc, !.soa = serial, !.unsigned = failing, !.reply = reply]
<1>5. pc \in {"done", "unsent"} /\ (pc = "done" => Sendable(q.msg, reply)) /\ reply = setupReplyTsig(q.msg, fitted)
  OBVIOUS
<1>6. query' = [query EXCEPT ![c] = r] /\ query'[c] = r
  BY <1>1, <1>4
<1> HIDE DEF pc, reply, built
<1>7. r \in [pc : {pc}, msg : {q.msg}, path : {q.path}, unread : {q.unread}, found : {q.found},
             seen : {q.seen}, soa : {serial}, unsigned : {failing}, reply : {reply}]
  BY <1>2
<1> HIDE DEF r
<1>8. /\ IsQuery(r) /\ r.pc = pc /\ r.msg = q.msg /\ r.path = q.path /\ r.unread = q.unread
      /\ r.found = q.found /\ r.seen = q.seen /\ r.soa = serial /\ r.unsigned = failing /\ r.reply = reply
  BY <1>7 DEF IsQuery
<1>9. Verdict(q.msg) = "NOERROR" /\ q.msg \in Messages[c] /\ ReadFrom(q) /\ q.unread \subseteq Keys
      /\ q.found \subseteq ItemRRs /\ (q.found # {} => BelowZone(LookedUp(q)))
  BY <1>1 DEF QueryState
<1>10. Founded(r)
  BY <1>1, <1>4, <1>5, <1>8, <1>9 DEF Founded, built
<1>11. Founded(query[c])'
  <2>1. serial \in Int /\ Start \in Int
    BY TableAssumption DEF QueryInv, Table
  <2> QED
    BY <1>3, <1>6, <1>10, <2>1, FoundedKept
<1>12. PathOf(query[c])' = PathOf(q) /\ LookedUp(query[c])' = LookedUp(q)
  BY <1>6, <1>8 DEF PathOf, LookedUp
<1>13. ReadFrom(query[c])'
  <2>1. \A k \in Keys : Held(query[c], k)' = Held(q, k)
    BY <1>3, <1>6, <1>8 DEF Held, tableVars
  <2>2. writes' = writes
    BY <1>3 DEF tableVars
  <2> QED
    BY <1>6, <1>8, <1>9, <1>12, <2>1, <2>2 DEF ReadFrom
<1>14. QueryState(c)'
  <2>1. IsQuery(query[c])'
    BY <1>6, <1>8 DEF IsQuery
  <2> QED
    BY <1>5, <1>6, <1>8, <1>9, <1>11, <1>12, <1>13, <2>1 DEF QueryState
<1> QED
  BY <1>3, <1>6, <1>14, OneMoves

\* UPDATEs and replication move the table and the serial; queries under way keep
\* what they have.
LEMMA UpdateInv ==
  ASSUME QueryInv,
         \/ \E u \in Updates : WriteItem(u[1], u[2])
         \/ BumpSerial
         \/ \E k \in Keys : Replicate(k)
         \/ UNCHANGED queryVars
  PROVE  QueryInv'
<1>1. Table /\ query = [d \in Clients |-> query[d]] /\ Start \in Nat
  BY TableAssumption DEF QueryInv
<1>2. /\ Table' /\ serial <= serial' /\ query' = query /\ config' = config
      /\ \/ writes' = writes /\ store' = store /\ past' = past
         \/ writes' = writes + 1 /\ \A k \in Keys : past[k] \subseteq past'[k]
  <2>1. ASSUME NEW k \in Keys, NEW item \in Values, WriteItem(k, item)
        PROVE  /\ Table' /\ serial <= serial' /\ query' = query /\ config' = config
               /\ writes' = writes + 1 /\ \A j \in Keys : past[j] \subseteq past'[j]
    BY <1>1, <2>1 DEF Table, WriteItem
  <2>2. \A u \in Updates : u[1] \in Keys /\ u[2] \in Values
    BY TableAssumption DEF Values
  <2>3. CASE BumpSerial \/ (\E k \in Keys : Replicate(k)) \/ UNCHANGED queryVars
    BY <1>1, <2>3 DEF Table, BumpSerial, Replicate, queryVars, tableVars
  <2> QED
    BY <2>1, <2>2, <2>3
<1>3. \A c \in Clients : QueryState(c)'
  BY <1>1, <1>2, StateKept DEF Table
<1> QED
  BY <1>1, <1>2, <1>3 DEF QueryInv

\* Of every goroutine it is known what its reply, if it has one, was made of
\* (ServeDNS, writeDoHResponse, buildResponse).
THEOREM QueryInvariant == Spec => []QueryInv
<1>1. QueryInv /\ [Next]_queryVars => QueryInv'
  BY ReceiveInv, LookupInv, ReadPageInv, FailReadInv, ComposeInv, UpdateInv DEF Next, Served
<1> QED
  BY <1>1, InitInv, PTL DEF Spec

-----------------------------------------------------------------------------

(***************************************************************************)
(* What buildResponse, Sign, Truncate and setupReplyTsig make of a reply.  *)
(***************************************************************************)

\* The reply before Sign.
Built(q) == buildResponse(q.msg, q.path, q.found, q.soa)

\* A reply as buildResponse leaves it: complete and without a TSIG.
Bare(r) == r \in [rcode : {r.rcode}, answer : {r.answer}, ns : {r.ns}, tc : {FALSE}, compress : {FALSE},
                  tsig : {FALSE}]

\* A reply compressed, and if need be cut, by Truncate.
Cut(r) == r \in [rcode : {r.rcode}, answer : {r.answer}, ns : {r.ns}, tc : {r.tc}, compress : {TRUE},
                 tsig : {FALSE}]

LEMMA BareRcode ==
  ASSUME NEW rcode
  PROVE  /\ Bare(Rcode(rcode)) /\ Rcode(rcode).rcode = rcode
         /\ Rcode(rcode).answer = {} /\ Rcode(rcode).ns = {}
  BY DEF Bare, Rcode, NoReply

\* Replacing the sections of a complete reply.
LEMMA BareSections ==
  ASSUME NEW r, Bare(r), NEW answer, NEW ns
  PROVE  /\ Bare([r EXCEPT !.answer = answer, !.ns = ns])
         /\ Bare([r EXCEPT !.answer = answer])
         /\ Bare([r EXCEPT !.ns = ns])
         /\ [r EXCEPT !.answer = answer, !.ns = ns].rcode = r.rcode
         /\ [r EXCEPT !.answer = answer, !.ns = ns].answer = answer
         /\ [r EXCEPT !.answer = answer, !.ns = ns].ns = ns
         /\ [r EXCEPT !.answer = answer].rcode = r.rcode
         /\ [r EXCEPT !.answer = answer].answer = answer
         /\ [r EXCEPT !.answer = answer].ns = r.ns
         /\ [r EXCEPT !.ns = ns].rcode = r.rcode
         /\ [r EXCEPT !.ns = ns].answer = r.answer
         /\ [r EXCEPT !.ns = ns].ns = ns
  BY DEF Bare

LEMMA BuiltBare ==
  ASSUME NEW msg, NEW path, NEW found, NEW s
  PROVE  Bare(buildResponse(msg, path, found, s))
<1>1. Bare(BuiltInReply(msg, s))
  BY BareRcode, BareSections DEF BuiltInReply
<1>2. Bare(nxDomain(s)) /\ Bare(nodata(s)) /\ Bare([Rcode("NOERROR") EXCEPT !.answer = found])
  BY BareRcode, BareSections DEF nxDomain, nodata
<1> QED
  BY <1>1, <1>2, BareRcode DEF buildResponse

LEMMA SignBare ==
  ASSUME NEW name, NEW r, NEW failing, Bare(r)
  PROVE  /\ Bare(Sign(name, r, failing)) /\ Sign(name, r, failing).rcode = r.rcode
         /\ Sign(name, r, failing).answer = signSection(r.answer \cup KeyAt(name), failing)
         /\ Sign(name, r, failing).ns = signSection(r.ns \cup Denial(name, r), failing)
<1> DEFINE answer == signSection(r.answer \cup KeyAt(name), failing)
           ns == signSection(r.ns \cup Denial(name, r), failing)
           s == Sign(name, r, failing)
<1>1. s = [r EXCEPT !.answer = answer, !.ns = ns]
  BY DEF Sign, Bare
<1> HIDE DEF answer, ns, s
<1>2. s \in [rcode : {r.rcode}, answer : {answer}, ns : {ns}, tc : {FALSE}, compress : {FALSE},
             tsig : {FALSE}]
  BY <1>1 DEF Bare
<1>3. Bare(s) /\ s.rcode = r.rcode /\ s.answer = answer /\ s.ns = ns
  BY <1>2 DEF Bare
<1> QED
  BY <1>3 DEF answer, ns, s

LEMMA SignedStaysBare ==
  ASSUME NEW msg, NEW r, NEW failing, Bare(r)
  PROVE  Bare(Signed(msg, r, failing)) /\ Signed(msg, r, failing).rcode = r.rcode
<1>1. CASE config.signing /\ msg.do
  <2>1. Signed(msg, r, failing) = Sign(msg.name, r, failing)
    BY <1>1 DEF Signed
  <2> DEFINE name == msg.name
             answer == signSection(r.answer \cup KeyAt(name), failing)
             ns == signSection(r.ns \cup Denial(name, r), failing)
             s == Sign(name, r, failing)
  <2>2. s = [r EXCEPT !.answer = answer, !.ns = ns]
    BY DEF Sign, Bare
  <2> HIDE DEF answer, ns, s
  <2>3. s \in [rcode : {r.rcode}, answer : {answer}, ns : {ns}, tc : {FALSE}, compress : {FALSE},
               tsig : {FALSE}]
    BY <2>2 DEF Bare
  <2>4. Bare(s) /\ s.rcode = r.rcode
    BY <2>3 DEF Bare
  <2> QED
    BY <2>1, <2>4 DEF s
<1>2. CASE ~(config.signing /\ msg.do)
  BY <1>2 DEF Signed
<1> QED
  BY <1>1, <1>2

\* The reply after Sign.
SignedReply(q) == Signed(q.msg, Built(q), q.unsigned)

\* The sections of the signed reply.
LEMMA SignedParts ==
  ASSUME NEW q, Bare(Built(q)), config.signing /\ q.msg.do
  PROVE  /\ SignedReply(q).answer = signSection(Built(q).answer \cup KeyAt(q.msg.name), q.unsigned)
         /\ SignedReply(q).ns = signSection(Built(q).ns \cup Denial(q.msg.name, Built(q)), q.unsigned)
<1> DEFINE b == Built(q)
           name == q.msg.name
           f == q.unsigned
<1>1. SignedReply(q) = Sign(name, b, f)
  BY DEF SignedReply, Signed
<1> HIDE DEF b, name, f
<1>2. /\ Sign(name, b, f).answer = signSection(b.answer \cup KeyAt(name), f)
      /\ Sign(name, b, f).ns = signSection(b.ns \cup Denial(name, b), f)
  BY SignBare DEF b
<1> QED
  BY <1>1, <1>2 DEF b, name, f

LEMMA FittedReply ==
  ASSUME NEW msg, NEW r, Bare(r), NEW failing, NEW fitted \in Fitted(msg, r, failing)
  PROVE  LET signed == Signed(msg, r, failing) IN
         /\ Bare(fitted) \/ Cut(fitted)
         /\ fitted.rcode = r.rcode /\ signed.rcode = r.rcode
         /\ fitted.answer \subseteq signed.answer /\ fitted.ns \subseteq signed.ns
         /\ ~fitted.tc => fitted.answer = signed.answer /\ fitted.ns = signed.ns
         /\ fitted.compress <=> Overflows(msg, signed)
         /\ msg.front = "dns" => Fits(msg, fitted)
<1> DEFINE signed == Signed(msg, r, failing)
<1>a. Bare(Signed(msg, r, failing)) /\ Signed(msg, r, failing).rcode = r.rcode
  BY SignedStaysBare
<1> HIDE DEF signed
<1>1. Bare(signed) /\ signed.rcode = r.rcode
  BY <1>a DEF signed
<1>2. CASE fitted = signed /\ ~Overflows(msg, signed)
  BY <1>1, <1>2 DEF Overflows, signed, Bare
<1>3. CASE fitted \in Truncate(msg, signed) /\ Overflows(msg, signed)
  <2> DEFINE whole == [signed EXCEPT !.compress = TRUE]
  <2>1. whole \in [rcode : {signed.rcode}, answer : {signed.answer}, ns : {signed.ns}, tc : {FALSE},
                   compress : {TRUE}, tsig : {FALSE}]
    BY <1>1 DEF Bare
  <2>2. \/ fitted = whole /\ Fits(msg, whole)
        \/ \E kept \in Heads(signed.answer), rest \in Heads(signed.ns) :
             fitted = CutTo(whole, kept, rest) /\ Fits(msg, fitted)
    <3>1. CASE Fits(msg, whole)
      BY <1>3, <3>1 DEF Truncate
    <3>2. CASE ~Fits(msg, whole)
      <4>1. fitted \in Cuts(whole) /\ Fits(msg, fitted)
        BY <1>3, <3>2 DEF Truncate
      <4> HIDE DEF whole
      <4>2. whole.answer = signed.answer /\ whole.ns = signed.ns
        BY <2>1
      <4> QED
        BY <4>1, <4>2 DEF Cuts
    <3> QED
      BY <3>1, <3>2
  <2> HIDE DEF whole
  <2>3. CASE fitted = whole /\ Fits(msg, whole)
    BY <1>1, <1>3, <2>1, <2>3 DEF Cut, signed
  <2>4. CASE \E kept \in Heads(signed.answer), rest \in Heads(signed.ns) :
               fitted = CutTo(whole, kept, rest) /\ Fits(msg, fitted)
    <3>1. PICK kept \in Heads(signed.answer), rest \in Heads(signed.ns) :
            fitted = CutTo(whole, kept, rest) /\ Fits(msg, fitted)
      BY <2>4
    <3>2. kept \subseteq signed.answer /\ rest \subseteq signed.ns
      BY DEF Heads
    <3>3. fitted \in [rcode : {signed.rcode}, answer : {kept},
                      ns : {IF kept = whole.answer THEN rest ELSE {}}, tc : {TRUE}, compress : {TRUE},
                      tsig : {FALSE}]
      BY <2>1, <3>1 DEF CutTo
    <3> QED
      BY <1>1, <1>3, <3>1, <3>2, <3>3 DEF Cut, signed
  <2> QED
    BY <2>2, <2>3, <2>4
<1> QED
  BY <1>2, <1>3 DEF Fitted, signed

\* setupReplyTsig adds the TSIG and nothing else.
LEMMA TsigOnly ==
  ASSUME NEW msg, NEW fitted, Bare(fitted) \/ Cut(fitted)
  PROVE  LET reply == setupReplyTsig(msg, fitted) IN
         /\ reply.rcode = fitted.rcode /\ reply.answer = fitted.answer /\ reply.ns = fitted.ns
         /\ reply.tc = fitted.tc /\ reply.compress = fitted.compress
         /\ [reply EXCEPT !.tsig = FALSE] = fitted
<1> DEFINE tsig == msg.front = "dns" /\ config.keys /\ msg.tsig # "none"
           reply == setupReplyTsig(msg, fitted)
<1>1. reply \in [rcode : {fitted.rcode}, answer : {fitted.answer}, ns : {fitted.ns}, tc : {fitted.tc},
                 compress : {fitted.compress}, tsig : {tsig}]
  BY DEF setupReplyTsig, Bare, Cut
<1>2. fitted \in [rcode : {fitted.rcode}, answer : {fitted.answer}, ns : {fitted.ns}, tc : {fitted.tc},
                  compress : {fitted.compress}, tsig : {FALSE}]
  BY DEF Bare, Cut
<1> HIDE DEF reply, tsig
<1>3. [reply EXCEPT !.tsig = FALSE] = fitted
  BY <1>1, <1>2
<1> QED
  BY <1>1, <1>3 DEF reply

\* A message that is turned away gets none of the codes of an answer.
LEMMA TurnedAway ==
  ASSUME NEW msg, Verdict(msg) # "NOERROR"
  PROVE  Verdict(msg) \in {"REFUSED", "FORMERR", "NOTIMP", "SERVFAIL"}
  BY DEF Verdict, DoHVerdict, ServeDNSVerdict, acceptFunc

-----------------------------------------------------------------------------

(***************************************************************************)
(* The properties.                                                         *)
(***************************************************************************)

\* A reply to a message that was let through.
LEMMA ComposedReply ==
  ASSUME QueryInv, NEW c \in Clients, query[c].pc \in {"done", "unsent"},
         Verdict(query[c].msg) = "NOERROR"
  PROVE  LET q == query[c] IN
         /\ q.msg \in Messages[c] /\ ReadFrom(q) /\ q.soa \in Start..serial
         /\ q.found \subseteq ItemRRs /\ (q.found # {} => BelowZone(LookedUp(q)))
         /\ Bare(Built(q)) /\ q.reply.rcode = Built(q).rcode
         /\ q.reply.answer \subseteq SignedReply(q).answer
         /\ q.reply.ns \subseteq SignedReply(q).ns
         /\ ~q.reply.tc => q.reply.answer = SignedReply(q).answer /\ q.reply.ns = SignedReply(q).ns
         /\ q.msg.front = "dns" => Fits(q.msg, [q.reply EXCEPT !.tsig = FALSE])
         /\ q.pc = "done" => Sendable(q.msg, q.reply)
<1> DEFINE q == query[c]
<1>1. QueryState(c)
  BY DEF QueryInv
<1>2. /\ q.msg \in Messages[c] /\ ReadFrom(q) /\ q.soa \in Start..serial
      /\ q.found \subseteq ItemRRs /\ (q.found # {} => BelowZone(LookedUp(q)))
      /\ q.pc = "done" => Sendable(q.msg, q.reply)
  BY <1>1 DEF QueryState, Founded
<1>3. PICK fitted \in Fitted(q.msg, Built(q), q.unsigned) : q.reply = setupReplyTsig(q.msg, fitted)
  BY <1>1 DEF QueryState, Founded, Built
<1>4. Bare(Built(q))
  BY BuiltBare DEF Built
<1>5. /\ Bare(fitted) \/ Cut(fitted)
      /\ fitted.rcode = Built(q).rcode
      /\ fitted.answer \subseteq SignedReply(q).answer
      /\ fitted.ns \subseteq SignedReply(q).ns
      /\ ~fitted.tc => fitted.answer = SignedReply(q).answer /\ fitted.ns = SignedReply(q).ns
      /\ q.msg.front = "dns" => Fits(q.msg, fitted)
  BY <1>3, <1>4, FittedReply DEF SignedReply
<1>6. /\ q.reply.rcode = fitted.rcode /\ q.reply.answer = fitted.answer /\ q.reply.ns = fitted.ns
      /\ q.reply.tc = fitted.tc /\ [q.reply EXCEPT !.tsig = FALSE] = fitted
  BY <1>3, <1>5, TsigOnly
<1> QED
  BY <1>2, <1>4, <1>5, <1>6

\* A client that is answered was let through, and its store read did not fail.
LEMMA AnswerLetThrough ==
  ASSUME QueryInv, NEW c \in Clients, Answered(c)
  PROVE  /\ query[c].pc = "done" /\ Verdict(query[c].msg) = "NOERROR"
         /\ query[c].path = PathOf(query[c]) /\ query[c].path # "failed"
<1> DEFINE q == query[c]
<1>1. QueryState(c) /\ q.pc = "done" /\ q.reply.rcode \in {"NOERROR", "NXDOMAIN"}
  BY DEF QueryInv, Answered, Replied
<1>2. Verdict(q.msg) = "NOERROR"
  <2>1. Verdict(q.msg) # "NOERROR" => q.reply.rcode = Verdict(q.msg)
    BY <1>1, BareRcode DEF QueryState, Founded
  <2> QED
    BY <1>1, <2>1, TurnedAway
<1>3. Built(q).rcode \in {"NOERROR", "NXDOMAIN"} /\ ReadFrom(q)
  BY <1>1, <1>2, ComposedReply
<1>4. q.path # "failed"
  BY <1>3, BareRcode DEF Built, buildResponse
<1> QED
  BY <1>1, <1>2, <1>3, <1>4 DEF ReadFrom

\* In tsig-required mode neither front end answers a client without a valid TSIG
\* (authOK, writeDoHResponse): what was let through was let through for good, no
\* matter what happens between dispatch and reply.
THEOREM RequiredModeIsClosed == Spec => []AuthGate
<1>1. QueryInv => AuthGate
  <2> SUFFICES ASSUME QueryInv, NEW c \in Clients, config.authRequired, Answered(c)
               PROVE  tsigValid(query[c].msg) /\ query[c].msg.front = "dns"
    BY DEF AuthGate
  <2>1. Verdict(query[c].msg) = "NOERROR" /\ query[c].msg \in Messages[c]
    BY AnswerLetThrough, ComposedReply
  <2>2. query[c].msg.front \in {"dns", "doh"}
    BY <2>1, MessagesAssumption
  <2> QED
    BY <2>1, <2>2 DEF Verdict, DoHVerdict, ServeDNSVerdict, authOK
<1> QED
  BY <1>1, QueryInvariant, PTL

\* Every answer of ServeDNS fits what its client can take, before any TSIG: the
\* signatures are in the reply when it is measured and cut.
THEOREM AnswersFit == Spec => []FitsBeforeTsig
<1>1. QueryInv => FitsBeforeTsig
  BY AnswerLetThrough, ComposedReply DEF FitsBeforeTsig
<1> QED
  BY <1>1, QueryInvariant, PTL

\* A signing server signs every RRset of a complete answer to a DO client, the
\* DNSKEY included, unless sig.Sign returned an error for it, and denies with an
\* NSEC (Sign): an RRset that cannot be packed never gets out unsigned, since no
\* reply with it gets out.
THEOREM AnswersAreSigned == Spec => []SignedAnswers
<1>1. QueryInv => SignedAnswers
  <2> SUFFICES ASSUME QueryInv, NEW c \in Clients, Answered(c), config.signing, query[c].msg.do,
                      ~query[c].reply.tc
               PROVE  /\ \A section \in {query[c].reply.answer, query[c].reply.ns} :
                           \A rr \in section \ query[c].unsigned : rr.type # "RRSIG" => RRSIG(rr) \in section
                      /\ query[c].reply.answer = {} => \E rr \in query[c].reply.ns : rr.type = "NSEC"
    BY DEF SignedAnswers
  <2> DEFINE q == query[c]
             failing == q.unsigned
  <2>1. /\ Bare(Built(q)) /\ q.reply.answer = SignedReply(q).answer /\ q.reply.ns = SignedReply(q).ns
        /\ q.reply.rcode = Built(q).rcode /\ Sendable(q.msg, q.reply)
    BY AnswerLetThrough, ComposedReply
  <2>2. q.reply.answer = signSection(Built(q).answer \cup KeyAt(q.msg.name), failing)
    BY <2>1, SignedParts
  <2>3. q.reply.ns = signSection(Built(q).ns \cup Denial(q.msg.name, Built(q)), failing)
    BY <2>1, SignedParts
  <2>4. \A section \in {q.reply.answer, q.reply.ns} : \A rr \in section : Packs(rr)
    BY <2>1 DEF Sendable
  <2> HIDE DEF failing
  <2>5. ASSUME NEW rrs, \A rr \in signSection(rrs, failing) : Packs(rr),
               NEW rr \in signSection(rrs, failing) \ failing, rr.type # "RRSIG"
        PROVE  RRSIG(rr) \in signSection(rrs, failing)
    <3>1. rr \in rrs
      BY <2>5 DEF signSection, RRSIG, RR
    <3> QED
      BY <2>5, <3>1 DEF signSection
  <2>6. ASSUME NEW section \in {q.reply.answer, q.reply.ns}, NEW rr \in section \ failing, rr.type # "RRSIG"
        PROVE  RRSIG(rr) \in section
    <3>1. PICK rrs : section = signSection(rrs, failing)
      BY <2>2, <2>3
    <3> QED
      BY <2>4, <2>5, <2>6, <3>1
  <2>7. ASSUME q.reply.answer = {} PROVE \E rr \in q.reply.ns : rr.type = "NSEC"
    <3>1. Built(q).answer = {}
      BY <2>2, <2>7 DEF signSection
    <3>2. Built(q).rcode \in {"NOERROR", "NXDOMAIN"}
      BY <2>1 DEF Answered
    <3>3. \E rr \in Denial(q.msg.name, Built(q)) : rr.type = "NSEC"
      BY <3>1, <3>2 DEF Denial, apexNSEC, nodataNSEC, RR
    <3> QED
      BY <2>3, <3>3 DEF signSection
  <2> QED
    BY <2>6, <2>7 DEF failing
<1> QED
  BY <1>1, QueryInvariant, PTL

\* Both front ends make the same of the same items at the same serial (ServeDNS
\* and writeDoHResponse share buildResponse).
THEOREM FrontEndsAgree == Spec => []SameAnswerEverywhere
<1>1. QueryInv => SameAnswerEverywhere
  <2> SUFFICES ASSUME QueryInv, NEW c \in Clients, NEW d \in Clients, Answered(c), Answered(d),
                      ~query[c].reply.tc, ~query[d].reply.tc,
                      query[c].found = query[d].found, query[c].soa = query[d].soa,
                      query[c].unsigned = query[d].unsigned,
                      query[c].msg.name = query[d].msg.name, query[c].msg.type = query[d].msg.type,
                      query[c].msg.do = query[d].msg.do
               PROVE  /\ query[c].reply.rcode = query[d].reply.rcode
                      /\ query[c].reply.answer = query[d].reply.answer
                      /\ query[c].reply.ns = query[d].reply.ns
    BY DEF SameAnswerEverywhere
  <2> DEFINE q == query[c]
             r == query[d]
  <2>1. q.path = PathOf(q) /\ r.path = PathOf(r)
    BY AnswerLetThrough
  <2>2. q.path = r.path
    BY <2>1 DEF PathOf, LookedUp
  <2>3. Built(q) = Built(r)
    BY <2>2 DEF Built, buildResponse, BuiltInReply
  <2>4. SignedReply(q) = SignedReply(r)
    BY <2>3 DEF SignedReply, Signed
  <2> QED
    BY <2>3, <2>4, AnswerLetThrough, ComposedReply
<1> QED
  BY <1>1, QueryInvariant, PTL

-----------------------------------------------------------------------------

\* Signing adds well-formed RRs to well-formed ones.
LEMMA SignedWellFormed ==
  ASSUME NEW rrs, \A rr \in rrs : WellFormed(rr), NEW failing
  PROVE  \A rr \in signSection(rrs, failing) : WellFormed(rr)
  BY DEF signSection, RRSIG, RR, WellFormed

\* buildResponse puts only well-formed RRs into a reply, and denies only names
\* of the zone.
LEMMA BuiltWellFormed ==
  ASSUME QueryInv, NEW c \in Clients, query[c].pc \in {"done", "unsent"},
         Verdict(query[c].msg) = "NOERROR"
  PROVE  LET q == query[c] IN
         /\ \A rr \in Built(q).answer : WellFormed(rr)
         /\ \A rr \in Built(q).ns : WellFormed(rr)
         /\ Built(q).rcode = "NOERROR" /\ Built(q).answer = {} => q.msg.name.inZone
<1> DEFINE q == query[c]
           name == Lowered(q.msg.name)
<1>1. /\ q.msg \in Messages[c] /\ q.path \in {PathOf(q), "failed"} /\ q.soa \in Start..serial
      /\ q.found \subseteq ItemRRs /\ (q.found # {} => BelowZone(name))
  BY ComposedReply DEF ReadFrom, LookedUp
<1>2. name.inZone => q.msg.name.inZone
  BY <1>1, MessagesAssumption, LoweredInZone
<1>3. WellFormed(soa(q.soa)) /\ WellFormed(addNS)
  BY <1>1 DEF WellFormed, soa, addNS, RR, Apex
<1>4. \A rr \in q.found : WellFormed(rr)
  BY <1>1 DEF ItemRRs, itemRR, itemName, RR, Under, Apex, WellFormed
<1>5. CASE q.path = "builtin"
  <2>1. BuiltIn(name, q.msg.type)
    BY <1>1, <1>5 DEF PathOf, Path, LookedUp
  <2>2. name.inZone
    BY <2>1 DEF BuiltIn, StatusNames, Ns1, Under, Apex
  <2>3. Built(q) = BuiltInReply(q.msg, q.soa)
    BY <1>5 DEF Built, buildResponse
  <2>4. CASE name = Apex
    <3> DEFINE answer == (IF q.msg.type \in {"SOA", "ANY"} THEN {soa(q.soa)} ELSE {})
                           \cup (IF q.msg.type \in {"NS", "ANY"} THEN {addNS} ELSE {})
               ns == IF q.msg.type \in {"SOA", "NS", "ANY"} THEN {} ELSE {soa(q.soa)}
    <3>1. Built(q) = [Rcode("NOERROR") EXCEPT !.answer = answer, !.ns = ns]
      BY <2>3, <2>4 DEF BuiltInReply
    <3>2. (\A rr \in answer : WellFormed(rr)) /\ \A rr \in ns : WellFormed(rr)
      BY <1>3
    <3> HIDE DEF answer, ns
    <3>3. Built(q).answer = answer /\ Built(q).ns = ns
      BY <3>1 DEF Rcode, NoReply
    <3> QED
      BY <1>2, <2>2, <3>2, <3>3
  <2>5. CASE name # Apex
    <3> DEFINE rr == IF name = Ns1 THEN RR(q.msg.name, IF config.v4 THEN "A" ELSE "AAAA", "ip")
                     ELSE RR(q.msg.name, "TXT", "status")
    <3>1. Built(q) = [Rcode("NOERROR") EXCEPT !.answer = {rr}]
      BY <2>3, <2>5 DEF BuiltInReply
    <3>2. WellFormed(rr)
      BY <1>2, <2>2 DEF WellFormed, RR
    <3> HIDE DEF rr
    <3>3. Built(q).answer = {rr} /\ Built(q).ns = {}
      BY <3>1 DEF Rcode, NoReply
    <3> QED
      BY <3>2, <3>3
  <2> QED
    BY <2>4, <2>5
<1>6. CASE q.path # "builtin"
  <2>1. \/ Built(q) = Rcode("SERVFAIL")
        \/ Built(q) = nxDomain(q.soa)
        \/ Built(q) = [Rcode("NOERROR") EXCEPT !.answer = q.found] /\ q.found # {}
        \/ Built(q) = nodata(q.soa) /\ q.found # {}
    BY <1>6 DEF Built, buildResponse
  <2>2. /\ nxDomain(q.soa).rcode = "NXDOMAIN"
        /\ \A r \in {nxDomain(q.soa), nodata(q.soa)} : r.answer = {} /\ r.ns = {soa(q.soa)}
    BY DEF nxDomain, nodata, Rcode, NoReply
  <2>3. q.found # {} => q.msg.name.inZone
    BY <1>1, <1>2 DEF BelowZone
  <2>4. CASE Built(q) = [Rcode("NOERROR") EXCEPT !.answer = q.found] /\ q.found # {}
    <3>1. Built(q).answer = q.found /\ Built(q).ns = {}
      BY <2>4 DEF Rcode, NoReply
    <3> QED
      BY <1>4, <2>4, <3>1
  <2> QED
    BY <1>3, <2>1, <2>2, <2>3, <2>4, BareRcode
<1> QED
  BY <1>5, <1>6

\* Replies hold RRs of the zone, with items of the table and serials that were
\* current (buildResponse, Sign).
THEOREM QueryTypeCorrect == Spec => []QueryTypeOK
<1>1. QueryInv => QueryTypeOK
  <2> SUFFICES ASSUME QueryInv PROVE QueryTypeOK
    OBVIOUS
  <2>1. /\ DOMAIN store = Keys /\ serial \in Start..Start + writes
        /\ \A k \in Keys : store[k] \in past[k] /\ past[k] \subseteq Items \cup {NoItem, NilItem}
    BY DEF QueryInv, Table, Values
  <2>2. ASSUME NEW c \in Clients
        PROVE  /\ query[c].pc \in {"idle", "lookup", "paging", "compose", "done", "unsent"}
               /\ \A rr \in query[c].found : WellFormed(rr)
               /\ \A rr \in query[c].reply.answer : WellFormed(rr)
               /\ \A rr \in query[c].reply.ns : WellFormed(rr)
    <3> DEFINE q == query[c]
    <3>1. QueryState(c)
      BY DEF QueryInv
    <3>2. q.pc \in {"idle", "lookup", "paging", "compose", "done", "unsent"} /\ q.found \subseteq ItemRRs
      BY <3>1 DEF QueryState
    <3>3. \A rr \in q.found : WellFormed(rr)
      BY <3>2 DEF ItemRRs, itemRR, itemName, RR, Under, Apex, WellFormed
    <3>4. CASE q.pc \in {"done", "unsent"} /\ Verdict(q.msg) = "NOERROR"
      <4> DEFINE signed == SignedReply(q)
      <4>1. Bare(Built(q)) /\ q.reply.answer \subseteq signed.answer /\ q.reply.ns \subseteq signed.ns
        BY <3>4, ComposedReply
      <4>2. /\ \A rr \in Built(q).answer : WellFormed(rr)
            /\ \A rr \in Built(q).ns : WellFormed(rr)
            /\ Built(q).rcode = "NOERROR" /\ Built(q).answer = {} => q.msg.name.inZone
        BY <3>4, BuiltWellFormed
      <4>3. \A rr \in KeyAt(q.msg.name) \cup Denial(q.msg.name, Built(q)) : WellFormed(rr)
        BY <4>2 DEF KeyAt, DNSKEY, Denial, apexNSEC, nodataNSEC, RR, Apex, WellFormed
      <4>4. (\A rr \in signed.answer : WellFormed(rr)) /\ \A rr \in signed.ns : WellFormed(rr)
        <5>1. CASE config.signing /\ q.msg.do
          <6>1. /\ signed.answer = signSection(Built(q).answer \cup KeyAt(q.msg.name), q.unsigned)
                /\ signed.ns = signSection(Built(q).ns \cup Denial(q.msg.name, Built(q)), q.unsigned)
            BY <4>1, <5>1, SignedParts
          <6>2. /\ \A rr \in Built(q).answer \cup KeyAt(q.msg.name) : WellFormed(rr)
                /\ \A rr \in Built(q).ns \cup Denial(q.msg.name, Built(q)) : WellFormed(rr)
            BY <4>2, <4>3
          <6> QED
            BY <6>1, <6>2, SignedWellFormed
        <5>2. CASE ~(config.signing /\ q.msg.do)
          <6>1. signed = Built(q)
            BY <5>2 DEF SignedReply, Signed
          <6> QED
            BY <4>2, <6>1
        <5> QED
          BY <5>1, <5>2
      <4> QED
        BY <3>2, <3>3, <4>1, <4>4
    <3>5. CASE ~(q.pc \in {"done", "unsent"} /\ Verdict(q.msg) = "NOERROR")
      <4>1. q.reply = NoReply \/ q.reply = Rcode(Verdict(q.msg))
        BY <3>1, <3>2, <3>5 DEF QueryState, Founded
      <4>2. q.reply.answer = {} /\ q.reply.ns = {}
        BY <4>1, BareRcode DEF NoReply
      <4> QED
        BY <3>2, <3>3, <4>2
    <3> QED
      BY <3>4, <3>5
  <2> QED
    BY <2>1, <2>2 DEF QueryTypeOK
<1> QED
  BY <1>1, QueryInvariant, PTL

-----------------------------------------------------------------------------

\* The name an item is listed under leads to the item: it is no name of the
\* server itself, and denotes the key.
LEMMA ListedNamePath ==
  ASSUME NEW k \in Keys, Plain(k),
         ~(itemName(k).labels[Len(itemName(k).labels)] \in DOMAIN GSIs /\ Len(itemName(k).labels) > 1)
  PROVE  Path(itemName(k), "TXT") = "get" /\ parseKey(itemName(k)) = k
<1> DEFINE name == itemName(k)
<1>1. parseKey(name) = k /\ k \notin {NoKey, << >>} /\ BelowZone(name) /\ name = Under(name.labels)
  BY NameRoundTrip, ItemNameShape, TableAssumption DEF Plain
<1>2. name.labels # << >> /\ name.labels[1] # "_contractdb"
  <2>1. CASE Safe(k)
    <3>1. name.labels = k /\ 1 \in DOMAIN k
      BY <2>1 DEF Plain, itemName, Under
    <3> QED
      BY <1>1, <2>1, <3>1, TableAssumption DEF Safe
  <2>2. CASE ~Safe(k)
    BY <2>2, NamesAssumption, TableAssumption DEF itemName, Under, Plain
  <2> QED
    BY <2>1, <2>2
<1>3. name # Apex /\ name \notin StatusNames
  BY <1>2 DEF Apex, StatusNames, Under
<1>4. ~BuiltIn(name, "TXT")
  BY <1>3 DEF BuiltIn
<1>5. Len(name.labels) \in Nat
  BY ItemNameShape DEF Plain
<1>6. ~IsIndexQuery(name)
  BY <1>5 DEF IsIndexQuery
<1> QED
  BY <1>1, <1>4, <1>6 DEF Path

\* What a transfer lists can be asked for: the name an item is listed under
\* answers with what the store read returned, and nothing else, for every key
\* that parseKey does not take for another one and that has a base32 label if it
\* needs one (buildResponse, itemName, parseKey).  Which items a read may return
\* depends on the store: the current one, or on DynamoDB by default a former one.
THEOREM ListedNamesAnswer ==
  ASSUME \A k \in Keys : Addressable(k) => Plain(k)
  PROVE  Spec => []ListedIsAnswered
<1>1. QueryInv => ListedIsAnswered
  <2> SUFFICES ASSUME QueryInv, NEW c \in Clients, NEW k \in Keys, Answered(c), ~query[c].reply.tc,
                      query[c].msg.type = "TXT", LookedUp(query[c]) = itemName(k), Addressable(k)
               PROVE  \E item \in Held(query[c], k) : Reports(query[c].reply, k, item)
    BY DEF ListedIsAnswered
  <2> DEFINE q == query[c]
  <2>1. /\ Bare(Built(q)) /\ q.reply.rcode = Built(q).rcode /\ q.reply.answer = SignedReply(q).answer
        /\ ReadFrom(q) /\ q.path = PathOf(q) /\ q.path # "failed"
    BY AnswerLetThrough, ComposedReply
  <2>2. q.path = "get" /\ parseKey(LookedUp(q)) = k
    BY <2>1, ListedNamePath DEF PathOf, LookedUp, Addressable
  <2>3. PICK item \in Held(q, k) : q.found = Returned(k, item)
    BY <2>1, <2>2 DEF ReadFrom
  <2> SUFFICES Reports(q.reply, k, item)
    OBVIOUS
  <2>4. CASE item \in {NoItem, NilItem}
    <3>1. q.found = {}
      BY <2>3, <2>4 DEF Returned
    <3>2. Built(q) = nxDomain(q.soa)
      BY <2>2, <3>1 DEF Built, buildResponse
    <3> QED
      BY <2>1, <2>4, <3>2 DEF nxDomain, Rcode, NoReply, Reports
  <2>5. CASE item \notin {NoItem, NilItem}
    <3> DEFINE rr == itemRR(k, item)
    <3>1. q.found = {rr}
      BY <2>3, <2>5 DEF Returned
    <3>2. rr.type = "TXT"
      BY DEF itemRR, RR
    <3> HIDE DEF rr
    <3>3. Built(q) = [Rcode("NOERROR") EXCEPT !.answer = {rr}]
      BY <2>2, <3>1 DEF Built, buildResponse, WantsTXT
    <3>4. Built(q).answer = {rr}
      BY <3>3 DEF Rcode, NoReply
    <3>5. KeyAt(q.msg.name) = {}
      BY ItemNameShape DEF KeyAt, Apex, BelowZone, LookedUp
    <3>6. SignedReply(q).answer = {rr} \/ SignedReply(q).answer = signSection({rr}, q.unsigned)
      <4>1. CASE config.signing /\ q.msg.do
        BY <2>1, <3>4, <3>5, <4>1, SignedParts
      <4>2. CASE ~(config.signing /\ q.msg.do)
        BY <3>4, <4>2 DEF SignedReply, Signed
      <4> QED
        BY <4>1, <4>2
    <3>7. {x \in signSection({rr}, q.unsigned) : x.type # "RRSIG"} = {rr}
      BY <3>2 DEF signSection, RRSIG, RR
    <3> QED
      BY <2>1, <2>5, <3>2, <3>6, <3>7 DEF rr, Reports
  <2> QED
    BY <2>4, <2>5
<1> QED
  BY <1>1, QueryInvariant, PTL

-----------------------------------------------------------------------------

(***************************************************************************)
(* The counters.                                                           *)
(***************************************************************************)
Concluded(c) == query[c].pc \in {"done", "unsent"}
Denied == {c \in Clients : Concluded(c) /\ query[c].reply.rcode = "NXDOMAIN"}
Compressed == {c \in Clients : Concluded(c) /\ query[c].reply.compress}
Refused == {c \in Clients : Concluded(c) /\ query[c].reply.rcode = "REFUSED" /\ query[c].msg.front = "dns"}

\* The messages that neither acceptFunc nor the DoH handler turned away.
Underway(c) == query[c].pc \in {"lookup", "paging", "compose"}
Spurned(c) == \/ query[c].reply.rcode \in {"NOTIMP", "FORMERR"}
              \/ query[c].reply.rcode = "REFUSED" /\ query[c].msg.front = "doh"
Taken(c) == Underway(c) \/ (Concluded(c) /\ ~Spurned(c))
Takers == {c \in Clients : Taken(c)}

CounterInv ==
  /\ metrics \in [queries : Nat, nxdomain : Nat, truncated : Nat, refused : Nat]
  /\ metrics.queries = Cardinality(Takers)
  /\ metrics.nxdomain = Cardinality(Denied)
  /\ metrics.truncated = Cardinality(Compressed)
  /\ metrics.refused = Cardinality(Refused)

\* A counter stays right when its set gains the goroutine that concludes exactly
\* if it is counted.
LEMMA CountOne ==
  ASSUME NEW S \in SUBSET Clients, NEW T, NEW c \in Clients \ S, NEW counted \in BOOLEAN,
         T = S \cup (IF counted THEN {c} ELSE {})
  PROVE  /\ Cardinality(S) \in Nat
         /\ Cardinality(T) = Cardinality(S) + (IF counted THEN 1 ELSE 0)
<1>1. IsFiniteSet(S) /\ Cardinality(S) \in Nat
  BY FS_Subset, FS_CardinalityType, TableAssumption
<1>2. Cardinality(S \cup {c}) = Cardinality(S) + 1
  BY <1>1, FS_AddElement
<1>3. CASE counted
  BY <1>1, <1>2, <1>3
<1>4. CASE ~counted
  BY <1>1, <1>4
<1> QED
  BY <1>3, <1>4

\* One goroutine is taken on or concludes; its counters are counted.
LEMMA OneCounted ==
  ASSUME CounterInv, NEW c \in Clients, NEW counters, Counted(counters), ~Concluded(c),
         \A d \in Clients \ {c} : query'[d] = query[d],
         Concluded(c)' => /\ "nxdomain" \in counters <=> query'[c].reply.rcode = "NXDOMAIN"
                          /\ "truncated" \in counters <=> query'[c].reply.compress
                          /\ "refused" \in counters <=>
                               query'[c].reply.rcode = "REFUSED" /\ query'[c].msg.front = "dns",
         ~Concluded(c)' => counters \cap {"nxdomain", "truncated", "refused"} = {},
         Taken(c) => Taken(c)' /\ "queries" \notin counters,
         ~Taken(c) => (Taken(c)' <=> "queries" \in counters)
  PROVE  CounterInv'
<1> DEFINE k == "queries" \in counters
           n == "nxdomain" \in counters
           t == "truncated" \in counters
           f == "refused" \in counters
<1>1. /\ metrics' \in [queries : Nat, nxdomain : Nat, truncated : Nat, refused : Nat]
      /\ metrics'.queries = metrics.queries + (IF k THEN 1 ELSE 0)
      /\ metrics'.nxdomain = metrics.nxdomain + (IF n THEN 1 ELSE 0)
      /\ metrics'.truncated = metrics.truncated + (IF t THEN 1 ELSE 0)
      /\ metrics'.refused = metrics.refused + (IF f THEN 1 ELSE 0)
  BY DEF Counted, CounterInv
<1>2. /\ Denied' = Denied \cup (IF n THEN {c} ELSE {})
      /\ Compressed' = Compressed \cup (IF t THEN {c} ELSE {})
      /\ Refused' = Refused \cup (IF f THEN {c} ELSE {})
  BY DEF Denied, Compressed, Refused, Concluded
<1>3. Takers' = Takers \cup (IF k THEN {c} ELSE {})
  <2>1. \A d \in Clients \ {c} : Taken(d)' <=> Taken(d)
    BY DEF Taken, Underway, Concluded, Spurned
  <2>2. Taken(c)' <=> Taken(c) \/ k
    OBVIOUS
  <2> HIDE DEF k
  <2>3. \A d \in Clients : Taken(d)' <=> Taken(d) \/ (k /\ d = c)
    BY <2>1, <2>2
  <2>4. Takers = {d \in Clients : Taken(d)} /\ Takers' = {d \in Clients : Taken(d)'}
    BY DEF Takers
  <2> QED
    BY <2>3, <2>4
<1>4. /\ Denied \in SUBSET Clients /\ Compressed \in SUBSET Clients /\ Refused \in SUBSET Clients
      /\ c \notin Denied /\ c \notin Compressed /\ c \notin Refused
      /\ Takers \in SUBSET Clients /\ (k => c \notin Takers)
  BY DEF Denied, Compressed, Refused, Takers
<1>5. k \in BOOLEAN /\ n \in BOOLEAN /\ t \in BOOLEAN /\ f \in BOOLEAN
  OBVIOUS
<1> HIDE DEF k, n, t, f
<1>6. Cardinality(Denied') = Cardinality(Denied) + (IF n THEN 1 ELSE 0)
  BY <1>2, <1>4, <1>5, CountOne
<1>7. Cardinality(Compressed') = Cardinality(Compressed) + (IF t THEN 1 ELSE 0)
  BY <1>2, <1>4, <1>5, CountOne
<1>8. Cardinality(Refused') = Cardinality(Refused) + (IF f THEN 1 ELSE 0)
  BY <1>2, <1>4, <1>5, CountOne
<1>9. Cardinality(Takers') = Cardinality(Takers) + (IF k THEN 1 ELSE 0)
  <2>1. CASE k
    BY <1>3, <1>4, <1>5, <2>1, CountOne
  <2>2. CASE ~k
    BY <1>1, <1>3, <2>2 DEF CounterInv
  <2> QED
    BY <2>1, <2>2
<1> QED
  BY <1>1, <1>6, <1>7, <1>8, <1>9 DEF CounterInv

\* No goroutine is taken on or concludes and nothing is counted.
LEMMA NoneCounted ==
  ASSUME CounterInv, metrics' = metrics,
         \A d \in Clients : query'[d] = query[d] \/ (Underway(d) /\ Underway(d)')
  PROVE  CounterInv'
<1>1. \A d \in Clients : query'[d] = query[d] \/ (~Concluded(d) /\ ~Concluded(d)')
  BY DEF Underway, Concluded
<1>2. Denied' = Denied /\ Compressed' = Compressed /\ Refused' = Refused
  BY <1>1 DEF Denied, Compressed, Refused, Concluded
<1>3. \A d \in Clients : Taken(d)' <=> Taken(d)
  BY DEF Taken, Underway, Concluded, Spurned
<1>4. Takers' = Takers
  <2>1. Takers = {d \in Clients : Taken(d)} /\ Takers' = {d \in Clients : Taken(d)'}
    BY DEF Takers
  <2> QED
    BY <1>3, <2>1
<1> QED
  BY <1>2, <1>4 DEF CounterInv

\* ServeDNS counts what it sees and what it refuses of it; the DoH handler counts
\* what it lets through.
LEMMA ArrivalCounted ==
  ASSUME NEW msg, msg.front \in {"dns", "doh"}
  PROVE  /\ "nxdomain" \notin ArrivalCounters(msg) /\ "truncated" \notin ArrivalCounters(msg)
         /\ "refused" \in ArrivalCounters(msg) <=> Verdict(msg) = "REFUSED" /\ msg.front = "dns"
         /\ "queries" \in ArrivalCounters(msg) <=>
              ~(Verdict(msg) \in {"NOTIMP", "FORMERR"} \/ (Verdict(msg) = "REFUSED" /\ msg.front = "doh"))
  BY DEF ArrivalCounters, Verdict, DoHVerdict, ServeDNSVerdict, acceptFunc

LEMMA ReceiveCounted ==
  ASSUME QueryInv, CounterInv, NEW c \in Clients, NEW msg \in Messages[c], Receive(c, msg)
  PROVE  CounterInv'
<1> DEFINE r == IF Verdict(msg) = "NOERROR"
                THEN [IdleQuery EXCEPT !.pc = "lookup", !.msg = msg]
                ELSE [IdleQuery EXCEPT !.pc = "done", !.msg = msg, !.reply = Rcode(Verdict(msg))]
<1>1. query = [d \in Clients |-> query[d]] /\ ~Concluded(c) /\ ~Taken(c)
  BY DEF QueryInv, Receive, Concluded, Taken, Underway
<1>2. query'[c] = r /\ \A d \in Clients \ {c} : query'[d] = query[d]
  BY <1>1 DEF Receive
<1>3. \/ Verdict(msg) = "NOERROR" /\ r.pc = "lookup"
      \/ Verdict(msg) # "NOERROR" /\ r.pc = "done" /\ r.reply = Rcode(Verdict(msg)) /\ r.msg = msg
  BY DEF IdleQuery
<1> HIDE DEF r
<1>4. Rcode(Verdict(msg)).rcode = Verdict(msg) /\ ~Rcode(Verdict(msg)).compress
  BY DEF Rcode, NoReply
<1>5. msg.front \in {"dns", "doh"}
  BY MessagesAssumption
<1>6. Counted(ArrivalCounters(msg))
  BY DEF Receive
<1>7. CASE Verdict(msg) = "NOERROR"
  <2>1. ~Concluded(c)' /\ Taken(c)'
    BY <1>2, <1>3, <1>7 DEF Concluded, Taken, Underway
  <2> QED
    BY <1>1, <1>2, <1>5, <1>6, <1>7, <2>1, ArrivalCounted, OneCounted
<1>8. CASE Verdict(msg) # "NOERROR"
  <2>1. query'[c].reply.rcode = Verdict(msg) /\ ~query'[c].reply.compress /\ query'[c].msg = msg
    BY <1>2, <1>3, <1>4, <1>8
  <2>2. query'[c].pc = "done" /\ Verdict(msg) # "NXDOMAIN"
    BY <1>2, <1>3, <1>8, TurnedAway
  <2>3. Concluded(c)'
    BY <2>2 DEF Concluded
  <2>4. Taken(c)' <=> ~(Verdict(msg) \in {"NOTIMP", "FORMERR"} \/ (Verdict(msg) = "REFUSED" /\ msg.front = "doh"))
    BY <2>1, <2>2 DEF Concluded, Taken, Underway, Spurned
  <2> QED
    BY <1>1, <1>2, <1>5, <1>6, <2>1, <2>2, <2>3, <2>4, ArrivalCounted, OneCounted
<1> QED
  BY <1>7, <1>8

\* buildResponse turns nobody away.
LEMMA BuiltRcode ==
  ASSUME NEW msg, NEW path, NEW found, NEW s
  PROVE  buildResponse(msg, path, found, s).rcode \in {"NOERROR", "NXDOMAIN", "SERVFAIL"}
<1>1. BuiltInReply(msg, s).rcode = "NOERROR"
  BY DEF BuiltInReply, Rcode, NoReply
<1>2. nxDomain(s).rcode = "NXDOMAIN" /\ nodata(s).rcode = "NOERROR" /\ Rcode("SERVFAIL").rcode = "SERVFAIL"
  BY DEF nxDomain, nodata, Rcode, NoReply
<1>3. [Rcode("NOERROR") EXCEPT !.answer = found].rcode = "NOERROR"
  BY DEF Rcode, NoReply
<1> QED
  BY <1>1, <1>2, <1>3 DEF buildResponse

LEMMA ComposeCounted ==
  ASSUME QueryInv, CounterInv, NEW c \in Clients, Compose(c)
  PROVE  CounterInv'
<1> DEFINE q == query[c]
           built == buildResponse(q.msg, q.path, q.found, serial)
<1>1. /\ query = [d \in Clients |-> query[d]] /\ QueryState(c)
      /\ ~Concluded(c) /\ Taken(c)
  BY DEF QueryInv, Compose, Concluded, Taken, Underway
<1>2. q \in [pc : {q.pc}, msg : {q.msg}, path : {q.path}, unread : {q.unread}, found : {q.found},
             seen : {q.seen}, soa : {q.soa}, unsigned : {q.unsigned}, reply : {q.reply}]
  BY <1>1 DEF QueryState, IsQuery
<1>3. PICK failing \in SignErrors(q.msg, built) : \E fitted \in Fitted(q.msg, built, failing) :
        LET reply == setupReplyTsig(q.msg, fitted)
        IN  /\ Counted(ReplyCounters(q.msg, Signed(q.msg, built, failing)))
            /\ query' = [query EXCEPT ![c] =
                  [q EXCEPT !.pc = IF Sendable(q.msg, reply) THEN "done" ELSE "unsent",
                            !.soa = serial, !.unsigned = failing, !.reply = reply]]
  BY DEF Compose
<1>4. PICK fitted \in Fitted(q.msg, built, failing) :
        LET reply == setupReplyTsig(q.msg, fitted)
        IN  /\ Counted(ReplyCounters(q.msg, Signed(q.msg, built, failing)))
            /\ query' = [query EXCEPT ![c] =
                  [q EXCEPT !.pc = IF Sendable(q.msg, reply) THEN "done" ELSE "unsent",
                            !.soa = serial, !.unsigned = failing, !.reply = reply]]
  BY <1>3
<1> DEFINE signed == Signed(q.msg, built, failing)
           reply == setupReplyTsig(q.msg, fitted)
           pc == IF Sendable(q.msg, reply) THEN "done" ELSE "unsent"
           r == [q EXCEPT !.pc = pc, !.soa = serial, !.unsigned = failing, !.reply = reply]
<1>5. query' = [query EXCEPT ![c] = r] /\ Counted(ReplyCounters(q.msg, signed))
  BY <1>4
<1>6. Bare(built) /\ built.rcode \in {"NOERROR", "NXDOMAIN", "SERVFAIL"}
  BY BuiltBare, BuiltRcode
<1> HIDE DEF built
<1>7. /\ fitted.rcode = built.rcode /\ signed.rcode = built.rcode
      /\ Bare(fitted) \/ Cut(fitted)
      /\ fitted.compress <=> Overflows(q.msg, signed)
  BY <1>6, FittedReply
<1>8. reply.rcode = fitted.rcode /\ reply.compress = fitted.compress
  BY <1>7, TsigOnly
<1>9. pc \in {"done", "unsent"}
  OBVIOUS
<1>10. r.pc = pc /\ r.msg = q.msg /\ r.reply = reply
  <2> HIDE DEF pc, reply
  <2> QED
    BY <1>2
<1>11. /\ "nxdomain" \in ReplyCounters(q.msg, signed) <=> signed.rcode = "NXDOMAIN"
       /\ "truncated" \in ReplyCounters(q.msg, signed) <=> Overflows(q.msg, signed)
       /\ "refused" \notin ReplyCounters(q.msg, signed) /\ "queries" \notin ReplyCounters(q.msg, signed)
  BY DEF ReplyCounters
<1> HIDE DEF signed, reply, pc, r
<1>12. query'[c] = r /\ \A d \in Clients \ {c} : query'[d] = query[d]
  BY <1>1, <1>5
<1>13. /\ query'[c].pc \in {"done", "unsent"}
       /\ query'[c].reply.rcode = signed.rcode /\ (query'[c].reply.compress <=> Overflows(q.msg, signed))
       /\ query'[c].reply.rcode \in {"NOERROR", "NXDOMAIN", "SERVFAIL"}
  BY <1>6, <1>7, <1>8, <1>9, <1>10, <1>12
<1>14. Concluded(c)' /\ Taken(c)'
  BY <1>13 DEF Concluded, Taken, Spurned
<1> DEFINE counters == ReplyCounters(q.msg, signed)
<1>15. /\ "nxdomain" \in counters <=> query'[c].reply.rcode = "NXDOMAIN"
       /\ "truncated" \in counters <=> query'[c].reply.compress
       /\ "refused" \notin counters /\ "queries" \notin counters /\ query'[c].reply.rcode # "REFUSED"
       /\ Counted(counters)
  BY <1>5, <1>11, <1>13
<1> HIDE DEF counters, q
<1> QED
  BY <1>1, <1>12, <1>14, <1>15, OneCounted

\* The counters of Metrics agree with what happened to the messages of both front
\* ends, no matter how many goroutines count at once (ServeDNS, writeDoHResponse).
THEOREM CountersAgree == Spec => []CountersMatchReplies
<1>1. Init => CounterInv
  <2> SUFFICES ASSUME Init PROVE CounterInv
    OBVIOUS
  <2>1. Denied = {} /\ Compressed = {} /\ Refused = {} /\ Takers = {}
    BY DEF Init, IdleQuery, Denied, Compressed, Refused, Takers, Taken, Underway, Concluded
  <2> QED
    BY <2>1, FS_EmptySet DEF Init, CounterInv
<1>2. QueryInv /\ CounterInv /\ [Next]_queryVars => CounterInv'
  <2> SUFFICES ASSUME QueryInv, CounterInv, [Next]_queryVars PROVE CounterInv'
    OBVIOUS
  <2>1. ASSUME NEW c \in Clients, Lookup(c) \/ ReadPage(c) \/ FailRead(c) PROVE CounterInv'
    <3> DEFINE q == query[c]
    <3>1. query = [d \in Clients |-> query[d]] /\ QueryState(c) /\ Underway(c) /\ metrics' = metrics
      BY <2>1 DEF QueryInv, Lookup, ReadPage, FailRead, Underway
    <3>2. q \in [pc : {q.pc}, msg : {q.msg}, path : {q.path}, unread : {q.unread}, found : {q.found},
                 seen : {q.seen}, soa : {q.soa}, unsigned : {q.unsigned}, reply : {q.reply}]
      BY <3>1 DEF QueryState, IsQuery
    <3>3. query'[c].pc \in {"paging", "compose"} /\ \A d \in Clients \ {c} : query'[d] = query[d]
      <4>1. CASE Lookup(c)
        <5>1. \/ \E path, unread, seen :
                   query' = [query EXCEPT ![c] = [q EXCEPT !.pc = "paging", !.path = path,
                                                           !.unread = unread, !.seen = seen]]
              \/ \E path, found, seen :
                   query' = [query EXCEPT ![c] = [q EXCEPT !.pc = "compose", !.path = path,
                                                           !.found = found, !.seen = seen]]
          BY <4>1, Zenon DEF Lookup
        <5> QED
          BY <3>1, <3>2, <5>1, ZenonT(60)
      <4>2. CASE ReadPage(c)
        BY <3>1, <3>2, <4>2, ZenonT(60) DEF ReadPage
      <4>3. CASE FailRead(c)
        BY <3>1, <3>2, <4>3 DEF FailRead
      <4> QED
        BY <2>1, <4>1, <4>2, <4>3
    <3>4. Underway(c)'
      BY <3>3 DEF Underway
    <3> QED
      BY <3>1, <3>3, <3>4, NoneCounted
  <2>2. ASSUME \/ \E u \in Updates : WriteItem(u[1], u[2])
               \/ \E k \in Keys : Replicate(k)
               \/ BumpSerial \/ UNCHANGED queryVars
        PROVE  CounterInv'
    <3>1. metrics' = metrics /\ query' = query
      BY <2>2 DEF WriteItem, Replicate, BumpSerial, queryVars
    <3> QED
      BY <3>1, NoneCounted
  <2> QED
    BY <2>1, <2>2, ReceiveCounted, ComposeCounted DEF Next, Served
<1>3. CounterInv => CountersMatchReplies
  <2> SUFFICES ASSUME CounterInv PROVE CountersMatchReplies
    OBVIOUS
  <2> DEFINE U == {c \in Clients : Underway(c)}
             D == {c \in Clients : Concluded(c) /\ ~Spurned(c)}
  <2>1. Takers = U \cup D /\ U \cap D = {} /\ U \subseteq Clients /\ D \subseteq Clients
    BY DEF Takers, Taken, Underway, Concluded
  <2>2. IsFiniteSet(U) /\ IsFiniteSet(D)
    BY <2>1, FS_Subset, TableAssumption
  <2> HIDE DEF U, D
  <2>3. Cardinality(Takers) = Cardinality(U) + Cardinality(D)
    <3>1. Cardinality(U \cup D) = Cardinality(U) + Cardinality(D) - Cardinality(U \cap D)
      BY <2>2, FS_Union
    <3>2. Cardinality(U \cap D) = 0
      BY <2>1, FS_EmptySet
    <3>3. Cardinality(U) \in Nat /\ Cardinality(D) \in Nat
      BY <2>2, FS_CardinalityType
    <3> QED
      BY <2>1, <3>1, <3>2, <3>3
  <2>4. metrics.queries = Cardinality(U) + Cardinality(D)
    BY <2>3 DEF CounterInv
  <2> QED
    BY <2>4 DEF CounterInv, CountersMatchReplies, Denied, Compressed, Refused, Concluded, Underway, Spurned,
                U, D
<1> QED
  BY <1>1, <1>2, <1>3, QueryInvariant, PTL DEF Spec

=============================================================================
