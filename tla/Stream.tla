------------------------------- MODULE Stream -------------------------------
(***************************************************************************)
(* One item's way from an UPDATE packet into the table and from there into *)
(* the messages of a transfer: decoding, rendering (itemRRs), and the two  *)
(* batchers of transfer.go, the flush loop of a full transfer and batchRRs *)
(* of an incremental one.  One goroutine; what it meets of others is in    *)
(* module Zone.  The connection holds: WriteMsg fails only for a message   *)
(* that cannot be packed.                                                  *)
(*                                                                         *)
(* Lengths are those of the program, scaled: MaxMsg is dns.MaxMsgSize,     *)
(* capBytes is axfrMaxBytes = MaxMsg + 1.                                  *)
(***************************************************************************)
EXTENDS TxtCodec

CONSTANTS Jobs,               \* what is stored and asked for
          capBytes,           \* axfrMaxBytes, 1 << 16
          MaxMsg,             \* dns.MaxMsgSize, 65535
          overheadPerMsg,     \* 512
          axfrMaxRRsPerMsg,   \* 500
          FixedLen,           \* header, question and TSIG of a message
          NameLen,            \* an owner name and the fixed part of its RR
          SOALen,             \* an SOA RR
          NoSerial            \* an RR that is no SOA

ASSUME StreamAssumption ==
  /\ {capBytes, MaxMsg, overheadPerMsg, axfrMaxRRsPerMsg} \subseteq Nat
  /\ {FixedLen, NameLen, SOALen} \subseteq Nat
  /\ MaxMsg = capBytes - 1 /\ FixedLen < overheadPerMsg
  /\ axfrMaxRRsPerMsg > 0 /\ overheadPerMsg + SOALen <= MaxMsg

\* An RR of the journal: the TXT RR of an item.
TXTRR == [soa : {NoSerial}, owner : Nat, txt : Seq(Seq(Byte))]

ASSUME JobsAssumption ==
  /\ NoSerial \notin Int
  /\ \A j \in Jobs :
       /\ j.full \in BOOLEAN /\ j.packets \in Seq(Seq(Seq(Byte))) /\ j.serial \in Nat
       /\ j.long \subseteq Nat \ {0}
       /\ j.deltas \in Seq([serial : Nat, removed : Seq(TXTRR), added : Seq(TXTRR)])

VARIABLES job,      \* the job at hand; long has the owners with a label over 63 octets
          pc,
          table,    \* the stored texts, in listing order
          left,     \* what the loop has not reached: RRs, or deltas
          buf,      \* buf of streamZone
          bufLen,   \* bufLen of streamZone
          queue,    \* result of batchRRs not yet sent
          sent      \* the messages written: sequences of RRs

streamVars == <<job, pc, table, left, buf, bufLen, queue, sent>>

-----------------------------------------------------------------------------

soa(s) == [soa |-> s, owner |-> 0, txt |-> << >>]

\* The TXT RR of an item: its text in chunks, not escaped.
itemRR(owner, text) ==
  [soa |-> NoSerial, owner |-> owner, txt |-> chunkBytes(text, maxTxtChunk)]

Sum(lengths) ==
  LET upTo[i \in 0 .. Len(lengths)] == IF i = 0 THEN 0 ELSE upTo[i - 1] + lengths[i]
  IN  upTo[Len(lengths)]

\* dns.Len: the strings count as they are kept, escapes included.
RRLen(rr) ==
  IF rr.soa # NoSerial THEN SOALen
  ELSE NameLen + Sum([i \in DOMAIN rr.txt |-> Len(rr.txt[i]) + 1])

\* What Pack makes of it.
WireLen(rr) ==
  IF rr.soa # NoSerial THEN SOALen
  ELSE NameLen + Sum([i \in DOMAIN rr.txt |-> Len(packTxtString(rr.txt[i])) + 1])

WireText(rr) == FlattenSeq([i \in DOMAIN rr.txt |-> packTxtString(rr.txt[i])])

\* itemName makes one k- label of an unsafe key; from 36 bytes on it is too long.
Overlong(rr) == rr.owner \in job.long

MsgLen(rrs) == FixedLen + Sum([i \in DOMAIN rrs |-> WireLen(rrs[i])])

\* Pack returns no error.
Packs(rrs) == MsgLen(rrs) <= MaxMsg /\ \A i \in DOMAIN rrs : ~Overlong(rrs[i])

-----------------------------------------------------------------------------

\* Mutant of EmptyLen: the room for header and question is forgotten.
EmptyLenZero == 0

\* Length a message starts with.
EmptyLen == overheadPerMsg

\* The next RR does not go into a message that holds n RRs of length l.
Overfull(n, l, rr) ==
  n > 0 /\ (n + 1 > axfrMaxRRsPerMsg \/ l + RRLen(rr) > capBytes)

\* One round of the loop of batchRRs.
Batched(acc, rr) ==
  IF Overfull(Len(acc.cur), acc.curLen, rr)
  THEN [out |-> Append(acc.out, acc.cur), cur |-> <<rr>>, curLen |-> EmptyLen + RRLen(rr)]
  ELSE [acc EXCEPT !.cur = Append(@, rr), !.curLen = @ + RRLen(rr)]

batchRRs(rrs) ==
  LET after[i \in 0 .. Len(rrs)] ==
        IF i = 0 THEN [out |-> << >>, cur |-> << >>, curLen |-> EmptyLen]
        ELSE Batched(after[i - 1], rrs[i])
      end == after[Len(rrs)]
  IN  IF end.cur = << >> THEN end.out ELSE Append(end.out, end.cur)

\* Mutant of DifferenceSequence: the new SOA comes before the deletions.
DifferenceSequenceSwapped(d) ==
  <<soa(d.serial - 1), soa(d.serial)>> \o d.removed \o d.added

\* Old SOA, deletions, new SOA, additions.
DifferenceSequence(d) ==
  <<soa(d.serial - 1)>> \o d.removed \o <<soa(d.serial)>> \o d.added

-----------------------------------------------------------------------------

Init ==
  /\ job \in Jobs
  /\ pc = "update"
  /\ table = << >> /\ left = << >> /\ buf = << >> /\ bufLen = EmptyLen
  /\ queue = << >> /\ sent = << >>

\* The UPDATEs that stored the items, each a TXT RR as it came over the wire.
\* The texts are JSON in the form that json.Marshal gives back.
ApplyUpdates ==
  /\ pc = "update"
  /\ table' = [k \in DOMAIN job.packets |->
                 decodeTXTStrings([i \in DOMAIN job.packets[k] |->
                                     unpackTxtString(job.packets[k][i])])]
  /\ pc' = "open"
  /\ UNCHANGED <<job, left, buf, bufLen, queue, sent>>

\* send: a message that cannot be packed ends the stream; an empty one is not sent
\* at all.
Send(rrs, next) ==
  IF rrs = << >> THEN pc' = next /\ UNCHANGED sent
  ELSE IF Packs(rrs) THEN pc' = next /\ sent' = Append(sent, rrs)
  ELSE pc' = "aborted" /\ UNCHANGED sent

SendOpeningSOA ==
  /\ pc = "open"
  /\ Send(<<soa(job.serial)>>, IF job.full THEN "list" ELSE "deltas")
  /\ left' = IF job.full THEN [k \in DOMAIN table |-> itemRR(k, table[k])] ELSE job.deltas
  /\ UNCHANGED <<job, table, buf, bufLen, queue>>

\* Mutant of AddRR: bufLen goes on counting after a flush.
AddRRNoReset ==
  LET rr == Head(left)
  IN  /\ pc = "list" /\ left # << >>
      /\ IF Overfull(Len(buf), bufLen, rr)
         THEN Send(buf, "list") /\ buf' = <<rr>>
         ELSE UNCHANGED <<pc, sent>> /\ buf' = Append(buf, rr)
      /\ bufLen' = bufLen + RRLen(rr)
      /\ left' = Tail(left)
      /\ UNCHANGED <<job, table, queue>>

\* One round of the loop over the RRs of a page.
AddRR ==
  LET rr == Head(left)
  IN  /\ pc = "list" /\ left # << >>
      /\ IF Overfull(Len(buf), bufLen, rr)
         THEN Send(buf, "list") /\ buf' = <<rr>> /\ bufLen' = EmptyLen + RRLen(rr)
         ELSE /\ UNCHANGED <<pc, sent>>
              /\ buf' = Append(buf, rr) /\ bufLen' = bufLen + RRLen(rr)
      /\ left' = Tail(left)
      /\ UNCHANGED <<job, table, queue>>

FinalFlush ==
  /\ pc = "list" /\ left = << >>
  /\ Send(buf, "close")
  /\ UNCHANGED <<job, table, left, buf, bufLen, queue>>

BatchDelta ==
  /\ pc = "deltas" /\ left # << >> /\ queue = << >>
  /\ queue' = batchRRs(DifferenceSequence(Head(left)))
  /\ left' = Tail(left)
  /\ UNCHANGED <<job, pc, table, buf, bufLen, sent>>

SendBatch ==
  /\ pc = "deltas" /\ queue # << >>
  /\ Send(Head(queue), "deltas")
  /\ queue' = Tail(queue)
  /\ UNCHANGED <<job, table, left, buf, bufLen>>

SendClosingSOA ==
  /\ \/ pc = "close"
     \/ pc = "deltas" /\ left = << >> /\ queue = << >>
  /\ Send(<<soa(job.serial)>>, "done")
  /\ UNCHANGED <<job, table, left, buf, bufLen, queue>>

Ended == pc \in {"done", "aborted"} /\ UNCHANGED streamVars

Next ==
  \/ ApplyUpdates \/ SendOpeningSOA \/ AddRR \/ FinalFlush
  \/ BatchDelta \/ SendBatch \/ SendClosingSOA \/ Ended

Spec == Init /\ [][Next]_streamVars

-----------------------------------------------------------------------------

(***************************************************************************)
(* Properties.                                                             *)
(***************************************************************************)

\* Whatever an UPDATE client put on the wire, and however it cut it into strings,
\* is what decodeTXTStrings hands to the JSON parser.
DecodedAsSent == \A k \in DOMAIN table : table[k] = FlattenSeq(job.packets[k])

Received == FlattenSeq(sent)

\* What lies between the opening and the closing SOA.
Body == SubSeq(Received, 2, Len(Received) - 1)

\* The zone a full transfer delivers: each owner with its text, in order.
Delivered == [i \in DOMAIN Body |-> <<Body[i].owner, WireText(Body[i])>>]

Sent == [k \in DOMAIN job.packets |-> <<k, FlattenSeq(job.packets[k])>>]

\* "The complete item is JSON in one TXT record" (README.md:23): a full transfer
\* delivers each item once, in order, with the text that was stored, unless that
\* text has a backslash.  The exception is real: itemRRs hands the text to Pack,
\* which takes a backslash for an escape.
PlainServedIntact ==
  pc = "done" /\ job.full =>
    /\ DOMAIN Delivered = DOMAIN Sent
    /\ \A k \in DOMAIN Sent :
         /\ Delivered[k][1] = Sent[k][1]
         /\ Delivered[k][2] # Sent[k][2] => \E i \in DOMAIN Sent[k][2] : Sent[k][2][i] = "b"

\* Both batchers of transfer.go cut the same RRs into the same messages.
BatchersAgree ==
  pc = "done" /\ job.full =>
    SubSeq(sent, 2, Len(sent) - 1) = batchRRs([k \in DOMAIN table |-> itemRR(k, table[k])])

\* An RR that no message can hold.
Oversized(rr) == FixedLen + WireLen(rr) > MaxMsg

Unsendable(rr) == Oversized(rr) \/ Overlong(rr)

\* A stream is given up only for an RR that no message could hold, be it for its
\* length or for its owner name, although messages are filled up to one byte more
\* than a DNS message may have.
AbortedOnlyByUnsendable ==
  pc = "aborted" =>
    \/ \E k \in DOMAIN table : Unsendable(itemRR(k, table[k]))
    \/ \E i \in DOMAIN job.deltas : \E j \in DOMAIN job.deltas[i].removed : Unsendable(job.deltas[i].removed[j])
    \/ \E i \in DOMAIN job.deltas : \E j \in DOMAIN job.deltas[i].added : Unsendable(job.deltas[i].added[j])

\* An RFC 1995 client: SOAs switch between deletions and additions.
SOAsAt(rrs) == {i \in DOMAIN rrs : rrs[i].soa # NoSerial}

NextSOA(rrs, i) == Min({j \in SOAsAt(rrs) : j > i} \cup {Len(rrs) + 1})

Parsed(rrs) ==
  LET from[i \in 1 .. Len(rrs) + 1] ==
        IF i > Len(rrs) THEN << >>
        ELSE LET mid == NextSOA(rrs, i)
                 end == NextSOA(rrs, mid)
             IN  IF mid > Len(rrs) THEN << >>
                 ELSE <<[from |-> rrs[i].soa, removed |-> SubSeq(rrs, i + 1, mid - 1),
                         to |-> rrs[mid].soa, added |-> SubSeq(rrs, mid + 1, end - 1)]>> \o from[end]
  IN  from[1]

\* A client that reads the messages of an incremental transfer as one RFC 1995
\* stream finds the journal's deltas in it, wherever messages were cut.
ClientFindsDeltas ==
  pc = "done" /\ ~job.full =>
    Parsed(Body) = [i \in DOMAIN job.deltas |->
                      [from |-> job.deltas[i].serial - 1, removed |-> job.deltas[i].removed,
                       to |-> job.deltas[i].serial, added |-> job.deltas[i].added]]

=============================================================================
