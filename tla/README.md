# Verification of ContractDB

ContractDB serves a DynamoDB table (or a built-in demo table) as a DNS zone:
items are TXT records, RFC 2136 UPDATE writes them, AXFR and IXFR replicate
them, DNSSEC and DNS over HTTPS are optional. This directory models the server
in TLA+, checks the model with TLC on small instances, and proves its safety
properties with TLAPS, for every number of goroutines, clients, secondaries,
crashes and restarts, and for texts and tables of every length.

Contents: [the system](#the-system) ·
[modules](#modules-and-how-they-correspond-to-the-code) · [runs](#runs) ·
[proofs](#proofs) · [what was found](#what-was-found) ·
[what is left out](#what-is-left-out) · [plan](#plan)

## The system

| Component | Source | State | Operations |
|---|---|---|---|
| journal | `journal.go` | `oldest`, `latest`, `started`, map serial → delta, under a mutex | `Record`, `Deltas` |
| commitWrite | `server.go` 75–83 | `Handler.serial` (`atomic.Uint32`) | bump the serial, then `Record` |
| UPDATE handler | `update.go` | none of its own | `handleUpdate`, `processUpdate`, `evalPrerequisites` |
| zone transfer | `transfer.go` | none of its own | `handleAXFR`, `handleIXFR`, `streamZone`, `batchRRs` |
| names and keys | `server.go` 127–183 | none | `parseKey`, `itemName` |
| item stores | `store.go`, `sample.go` | the table | `Get`, `List`, `QueryIndex`, `Put`, `Delete` |
| NOTIFY | `notify.go` | running goroutines | `NotifyAll`, `SendNotify` |
| dispatch | `server.go` 402–442, 536–573 | `Metrics` | `acceptFunc`, `ServeDNS`, `tsigValid`, `authOK` |
| query answering | `server.go` 227–376, 444–494 | reads the table and the serial | `buildResponse`, `gsiLookup`, truncation |
| DNSSEC signer | `dnssec.go` | key, and its file | `Sign`, `signSection`, `NewOnlineSigner`, `savePEM` |
| DoH front end | `doh.go` | certificate and key file | `writeDoHResponse`, `EnsureTLSCert`, `ServeDoH` |
| TXT conversion | `server.go` 185–197, `update.go` 280–309 | none | `chunkBytes`, `decodeTXTStrings` |
| TSIG provider | `auth.go` | keys | `Verify`, `Generate`, key loading |
| process lifecycle | `main.go`, `server.go` 496–523 | pidfile, serial from the clock | `cmdServe`, `Serve`, `cmdStop`, `cmdHealthcheck`, restart |
| configuration | `main.go` | none | flags, environment, TOML |

**Interaction.** miekg/dns calls `ServeDNS` in a goroutine per message and
`net/http` does the same for DoH. The goroutines share the store, the serial,
the journal and the counters. Each of these is safe by itself (mutex, atomic, or
a remote service), but nothing spans two of them. An UPDATE reads the
prerequisites, reads the old item, writes the new one, draws a serial, records
the delta and launches NOTIFY: six separate moments. A transfer loads the
serial, reads the deltas or lists the table, and loads the serial twice more for
its two SOAs.

**What is hard.** Deltas reach the journal out of serial order; serials and
writes get out of step; an IXFR arrives between the two halves of
`commitWrite`; DynamoDB reads are eventually consistent, and its writes can fail
after having been carried out; the serial and the loop over serials wrap at
2^32; pruning walks over serials that are not there yet; the steps after
`buildResponse` (sign, measure, truncate, arm TSIG) depend on their order and
exist twice, for DNS and for DoH. A crash may come between any two of these
steps; what survives it is the table (not the demo one) and three kinds of
files, each written by truncating it first, while the serial comes from the
clock again and the journal is empty. Secondaries learn of changes by a datagram
that is sent once. The full list, with the lines, is under
`hazards` in `PROJECT.json`.

**What makes each component correct**

- *journal, commitWrite*: an incremental answer is complete and contiguous
  whatever the order of landing, the cap holds, history is never altered.
- *UPDATE*: the deltas of the journal rebuild the zone, prerequisites hold when
  the write happens, every write has a serial or was reported as failed, every
  message is answered.
- *transfer*: what was acknowledged before a transfer was asked for is in it; a
  full transfer contains everything up to the serial it announces; a delta
  replay continues the client's serial one by one.
- *names*: the name an item is listed under denotes its key again.
- *NOTIFY*: not before the journal can serve the change.
- *queries*: the name an item is listed under answers with that item (with
  DynamoDB's default reads, one it has had), both front ends agree, nothing leaves
  without a signature in `tsig-required` mode, signed replies can be validated,
  replies fit their transport.
- *TXT conversion and streams*: what an UPDATE client sent is what is stored, what
  is stored is what a transfer delivers, however it is cut into strings and
  messages; a delta stream can be read back into the deltas.
- *replication*: a secondary is never behind the serial of its copy, is told that
  it is up to date only when it is, and converges.
- *lifecycle, TSIG provider*: one DNSSEC key for ever, a pidfile that tells the
  truth, a usable certificate pair, access for exactly the configured keys, an end
  after a signal.

## Modules, and how they correspond to the code

```
MemChangeLog ── CommitLog ── MCCommitLog
      │             ▲ refinement
Names ── UpdatePacket ── Zone ── MCZone
   └──── Query ── MCQuery

MemChangeLog ── Replication ── MCReplication
TxtCodec ── Stream ── MCStream
Tsig ── Lifecycle ── MCLifecycle

proofs:  MemChangeLogProofs ── CommitLogProofs
                 │   └──────── ReplicationProofs
         NamesProofs ── ZoneProofs
               └─────── QueryProofs
         StreamProofs
         LifecycleProofs
```

A module `XProofs` extends `X` and has its theorems; ZoneProofs uses the lemmas of
MemChangeLogProofs and of NamesProofs. See [proofs](#proofs).

**MemChangeLog** is `journal.go`. `log` is the record of the struct's fields;
`Record` is an action (one step, because the mutex is held throughout), `Deltas`
an operator on the current value. `SerialMod` stands for 2^32, so `Inc`, `Dec`
and `Advanced` wrap as `uint32` does, while comparisons are plain ones, as in
the code. The prune loop is given by its outcome: the least `n` such that
deleting the `n` serials from `oldest` on leaves at most `Cap` entries. The loop
in `Deltas` never satisfies its exit condition when `latest` is the last serial;
it ends at the first missing entry, hence the second conjunct of `Unbroken`.
`Patched` is what an RFC 1995 client makes of a list of deltas (external).

**CommitLog** is `commitWrite` run by any number of goroutines, and the abstract
specification of the write path. `Draw` is `serial.Add(1)`, `Land` is
`changelog.Record`. `pending` are the commits between the two; `landed` is a
ghost that remembers what each landed serial stands for.

**Names** is `parseKey` and `itemName`. A name is a sequence of labels plus a
flag for the zone suffix, a key the sequence of its parts. Base32 enters as two
functions given per instance: which `k-` label decodes to which key, and back.

**UpdatePacket** holds what `processUpdate` and `evalPrerequisites` conclude
from a packet without the store: the scan of the UPDATE section in packet order,
TXT chunks collected by owner name, decoding, the limit of one key per packet,
and the verdict of one prerequisite on the item it read.

**Zone** composes the two with the stores, the transfers and NOTIFY. Each access
to shared state is one action:

| Action | Code |
|---|---|
| `ReceiveUpdate` | `ServeDNS` dispatch, TSIG check, ZONE section |
| `EvalPrerequisite` | one round of `evalPrerequisites` (one `Get`) |
| `Validate` | first pass over the UPDATE section |
| `PreRead` | the snapshot before the write |
| `Write` | `Put` or `Delete`; with faults, an error whether carried out or not |
| `DrawSerial`, `RecordDelta` | the two halves of `commitWrite`; then `go NotifyAll` |
| `Reply` | the reply of `handleUpdate` |
| `SendNotify` | one datagram, no retry |
| `ReceiveTransfer` | `ServeDNS` and the refusals of AXFR and IXFR |
| `LoadSerial`, `SendLoneSOA`, `ReadDeltas` | `handleIXFR` |
| `SendOpeningSOA`, `ListPage`, `SendClosingSOA`, `AbortStream` | `streamZone` |
| `Replicate` | a DynamoDB replica catching up (external) |

The demo store lists the table at once, DynamoDB page by page and from a replica
that may lag. Ghosts: `commits` (what each serial stands for), `acked` (serials
whose UPDATE was answered NOERROR), `writes` (numbers the writes, so that
properties can tell how fresh a listed item is), `failed` (those of them that a
store call reported as an error all the same), and `owed` (what was acknowledged
when a transfer was asked for).

**Query** is ordinary queries over DNS and HTTPS. `Receive` is everything before
the store read (`acceptFunc`, `ServeDNS`, `writeDoHResponse`), `Lookup` the read,
`Compose` everything after it: the serial load, the reply, signing, truncation,
TSIG. The demo store and `-consistent` reads see the table as it is; other reads of
DynamoDB may see `replica`, which `Replicate` brings up to date, and its index reads
do so page by page (`ReadPage`), whatever the flag says. `FailRead` is a store call
that returns an error. `signSection` leaves out the RRSIG of an RRset on which
`sig.Sign` fails: one that cannot be packed, or any other (`SignErrors`). UPDATEs
appear as the two things a query can see of them, `WriteItem` and `BumpSerial`.
Sizes are abstract units: one for the header, for the OPT and for the TSIG, for an RR
the size of its data and one for its owner name. `Truncate` is miekg/dns: it turns
compression on, which saves the names, and cuts only what does not fit then.
A reply that cannot be packed (a label of more than 63 octets, an RR of more than a
message), or that its TSIG takes past 64 KiB over TCP, ends `unsent`: an error in
the log, or HTTP 500. Ghosts: `past` (what the table has held under each key),
`seen` and `unsigned`.

**Replication** is the server seen from outside, over crashes and restarts. One
item of the zone changes. `Write`, `DrawSerial` and `RecordDelta` are the write
path, `LoadSerial` to `SendClosingSOA` are `handleIXFR` and `streamZone`, as in
Zone but for one UPDATE at a time. `Crash` may come between any two of them and
takes the goroutines, the journal and, for the demo store, the table;
`Restart` is `cmdServe` up to `NewMemChangeLog(handlerCfg.Serial)`. Its serial is
the clock, of which the code asks nothing: `ClockSerials` has serials before, at and
after the last one. The ghost `ahead` says that so far every restart took a serial
past those handed out. The
secondaries are external: RFC 1995 clients that ask by IXFR or AXFR when their
timer goes off or a NOTIFY arrives (`Refresh`, `HearNotify`, `LoseNotify`), keep
the opening SOA of a full transfer and the last SOA of the differences they
apply, reject a stream without a body, and may reject one whose ends differ.
Other ghosts: `history` is every content the table had, `stands` maps a serial to
its place in it.

**TxtCodec** is `chunkBytes` and `decodeTXTStrings` on texts whose bytes are of
five classes (printable, digit, quote, backslash, other), and `packTxtString` and
`unpackTxtString` of miekg/dns, between which they sit. **Stream** follows one
table through it: `ApplyUpdates` decodes the packets that stored the items;
`SendOpeningSOA`, `AddRR`, `FinalFlush` and `SendClosingSOA` are a full transfer,
with `buf` and `bufLen` of the flush loop; `BatchDelta` and `SendBatch` are a delta
replay through `batchRRs`. A message that is too long, or has an owner name
with a label that is (`Overlong`: base32 of an unsafe key of more than 35 bytes),
cannot be packed, which ends the stream (`Send`). Lengths are the program's, scaled down.

**Tsig** is `auth.go`: loading a key specification, the provider, `Generate`,
`Verify`, and the signature that `cmdHealthcheck` puts under its query. A MAC is
the secret and algorithm it was made with. Where two names are canonically equal,
Go's map iteration decides which secret stays; `newHMACProvider` therefore is the
set of its outcomes. **Lifecycle** is `cmdServe` from the keys to the end:

| Action | Code |
|---|---|
| `LoadAuth` | auth mode, `buildTSIG`, the fatal errors of both |
| `LoadKey`, `TruncateKey`, `WriteKey` | `NewOnlineSigner`, `savePEM` |
| `StartDoH`, `EnsureTLSCert`, `WriteTLS`, `FailTLS`, `LoadPair` | the sidecar, in `cmdServe` and in its goroutine |
| `TruncatePidfile`, `WritePidfile` | `writePidfile` |
| `Listen`, `FailToListen`, `Shutdown` | `Serve`, `removePidfile` |
| `StopReads`, `StopSignals`, `Interrupt` | `cmdStop`, signals |
| `Crash` | the end of a process without a word |

`os.WriteFile` is two steps, so that a crash can leave a `Torn` file. A supervisor
starts a server when the last one has ended (`Launch`); two at once are under
[what was found](#what-was-found).

Definitions named as mutants in their comments (`...Stuck`, `...Unchecked`, and
so on) are the deliberately wrong variants under `mutants` in `PROJECT.json`.
They are not part of any specification; each shows that a property would notice
that mistake.

## Runs

All runs are named in `PROJECT.json`; `tlc -config X.cfg M` repeats one.

| Run | Shows | Bounds, and why they are enough |
|---|---|---|
| `commitlog` | `AnswersComplete`, `NoInFlightSkipped`, `AtMostCap`, `HistoryFixed`, `TypeOK` | 7 serials from 4, cap 2, three commits in flight, one full lap: commits overtake each other, the journal prunes, latest passes the wrap, all in one behaviour |
| `zone_concurrent` | `AckedNotMissed`, `FullTransferFresh`, `StreamChains`, `NotifyAfterJournal`, `CountedOnce`, and that Zone implements CommitLog | demo store; two UPDATE goroutines, one transfer, three messages: each race below needs two writers, or one writer and one stream. UPDATE goroutines are symmetric |
| `zone_sequential` | `ExactDeltasRebuildZone`, `PrereqsHoldAtWrite`, `StoredNamesResolve`, `RecentClientsAnswered` | one UPDATE at a time, three messages, of every RR class and type, split, torn, non-canonical and malformed packets, two spellings of one key, the payload `null`; four keys: a safe one, one that needs base32, the empty key that the bare label `k-` decodes to, and a safe one that looks like a `k-` label |
| `zone_dynamo` | `TypeOK`, `WritesAccounted`, `MessagesAnswered` (under `FairSpec`) | lagging replica, paged scans, failing and ambiguous calls; one UPDATE and one transfer goroutine, three messages |
| `query` | `AuthGate`, `ListedIsAnswered`, `SignedAnswers`, `SameAnswerEverywhere`, `FitsBeforeTsig`, `CountersMatchReplies`, `QueryTypeOK` | seven configurations, in which each two of store, keys, policy and signing meet; 14 questions over three kinds of transport, two of them over two more, and messages that are turned away; a second client repeats a question over HTTPS; one write, `null`, an item no message holds and a key with an overlong label among them; one failing signature per reply. Limits of 3, 6 and 10 units, so that replies fit as they are, fit once compressed, and are cut |
| `replication` | `NeverBehindItsSerial`, `UpToDateIsTrue`, `Converges` (under `Spec`'s fairness), `ReplicationTypeOK` | one secondary (secondaries do not see each other), cap 1, three contents of the table, two crashes or broken connections at any point, a restart one serial before, at or after the last, no wrap of the serials: a crash between write and commit followed by one during the transfer that repairs it occurs, as do pruned journals and both kinds of transfer in turn |
| `stream` | `DecodedAsSent`, `PlainServedIntact`, `BatchersAgree`, `AbortedOnlyByUnsendable`, `ClientFindsDeltas` | every text of up to 4 bytes in every cut, with strings of 3; tables of up to 4 items with lengths on both sides of each limit, and ones with an overlong label; journals of up to 2 deltas; messages of 13 bytes and 3 RRs, filled to 14 as the program fills 65,535 to 65,536 |
| `lifecycle` | `KeyStable`, `PidfileTrue`, `PairUsable`, `RequiredServesHealthcheck`, `VerifiedMeansConfigured`, `StopEndsServer` (fairness) | three starts, two faults (a crash or a failing file operation), seven kinds of key specification, each combination of key and certificate files found by the first start |
| `zone_race`, `zone_prereq_race`, `zone_short_stream`, `replication_clock` | violations, see [what was found](#what-was-found) | a small instance on which the behaviour shows, or that of the passing run |

`PrereqsHoldAtWrite` appears twice: it holds when UPDATEs do not overlap and fails
when they do. So does `ExactDeltasRebuildZone`, and `RecentClientsAnswered` holds
only without overtaking, which is why both are in the sequential run. How much must
not overlap is the subject of three [theorems](#the-arguments).

What the less obvious ones say:

- `AnswersComplete` asks for every landed delta drawn after the client's serial, also
  past the wrap. A wrapped one may be missing, but only while a commit drawn before
  it is in flight; the instance has that case.
- `AckedNotMissed`: a client that asks after an UPDATE was acknowledged is not
  told that it is up to date without that write, does not get a delta replay
  lacking it, and a full transfer announces a serial at or past it and lists the
  item as that write, or a later one, left it. This is for the demo store; on
  DynamoDB a Scan that lags breaks it (see below).
- `WritesAccounted`: whatever calls fail, a write that reached the table has a
  serial, is about to draw one, or was reported to its client as failed.
- `ExactDeltasRebuildZone`: replaying the journal rebuilds the zone as long as each
  delta adds what its write stored (`ExactDelta`). Two forms of packet, both in the
  instance, have deltas that do not, and without that condition (`ReplayRebuildsZone`)
  the run fails with them; see below.
- `StoredNamesResolve`: the name an item is listed under denotes its key, but for
  the empty key and safe keys that look like `k-` labels; those are in the first
  table or come from a `k-` label, never from a dotted name. The instance has an
  UPDATE that brings in one of each.
- `FullTransferFresh` rests on two orders in the code: the store is written
  before the serial is bumped, and the opening SOA is made before the listing.
- `StreamChains` bounds a replay by its opening SOA although the SOA is made
  after the deltas were read.
- `ListedIsAnswered` ties queries to transfers: `itemName` of a key, asked in
  any case, gives exactly that item, also for a key that contains an index name
  as a label. With DynamoDB's default reads it may be an item the key had before. An
  item that is `null` is listed and denied. Keys directly below an index label, the
  empty key and safe keys that look like `k-` labels are excluded; see below.
- `SignedAnswers` exempts the RRsets on which `sig.Sign` failed, each by name.
- `CountersMatchReplies`: `truncated` is the number of replies for which `Truncate`
  was called, cut or not; see below.
- `PlainServedIntact` is about each item by itself: only one whose text has a
  backslash may be delivered with another text.
- `NeverBehindItsSerial`: the copy of a secondary is the table at, or after, the
  moment its serial stands for. It may be later, because the listing of a full
  transfer comes after its opening SOA, and then hold two TXT records of an item
  for a while, when a delta adds one over it.
- `Converges` includes the write that a crash cut off from its serial: the next
  start's serial stands for it too.
- `NeverBehindItsSerial`, `UpToDateIsTrue` and `Converges` are about behaviours in
  which every restart takes a serial past those handed out (`ahead`). Without that
  the second is false: `UpToDateMeansCurrent` in `replication_clock`.
- `AbortedOnlyByUnsendable`: a stream ends early only for an RR that no message can
  hold, too long or with a label that is. Messages are filled up to one byte more than DNS
  allows; what is set aside for header and question keeps them below.
- `PairUsable` excludes a pair whose writing was cut short: that one is not
  repaired, see below.

Deadlock is checked in every run. A run ends by the explicit disjuncts
`LapDone`, `Finished`, `Served` and `Ended`, which require that no goroutine is
left half-way; in Replication the secondaries ask for ever.

**Fairness.** `zone_dynamo`, `replication` and `lifecycle` use it.

- Weak fairness of each goroutine's next step and of the NOTIFY goroutines. Go's
  scheduler runs every runnable goroutine. The steps that wait wait for a store
  call, which the AWS client ends with an answer or an error (both are in the
  step), or for a NOTIFY answer, which has a two-second timeout. A store call that
  never returned would hang its goroutine, as the contexts have no deadline:
  fairness assumes that away.
- In Replication also weak fairness of `Restart` (a supervisor; without one a
  crashed server serves nobody) and of `Refresh` (a secondary's timer, which RFC
  1035 asks of it). Faults are bounded by `MaxFaults`, so `Converges` speaks of the
  time after the last one.
- The arrival of messages, UPDATEs, NOTIFYs and signals, the replica's progress
  and faults are never assumed.

## Proofs

Every safety property that a passing run checks is stated by a theorem, some of
them under a [hypothesis](#assumptions). Proofs hold for all values of the
constants that satisfy the named assumptions, so for any number of goroutines,
clients, secondaries, starts and faults, and for texts, tables and journals of any
length.

| Module | Theorems (property) |
|---|---|
| CommitLogProofs | `TypeCorrect` (`TypeOK`), `AnswersAreComplete` (`AnswersComplete`), `InFlightNotSkipped` (`NoInFlightSkipped`), `CapHolds` (`AtMostCap`), `HistoryIsFixed` (`HistoryFixed`) |
| NamesProofs | `NameRoundTrip`: `parseKey` undoes `itemName` |
| ZoneProofs | `AckedIsNotMissed` (`AckedNotMissed`), `WritesAreAccounted` (`WritesAccounted`), `StreamsChain` (`StreamChains`), `FullTransferIsFresh` (`FullTransferFresh`), `NotifiedAfterJournaling` (`NotifyAfterJournal`), `StoredNamesStayResolvable` (`StoredNamesResolve`), `ZoneTypeCorrect` (`TypeOK`), `ZoneImplementsCommitLog` (`ImplementsCommitLog`), `EveryMessageCountedOnce` (`CountedOnce`), `OrderedCommitsAreAnswered` (`RecentClientsAnswered`), `LonePrereqsHoldAtWrite` (`PrereqsHoldAtWrite`), `LoneReplacementsReplay` (`ExactDeltasRebuildZone`) |
| QueryProofs | `RequiredModeIsClosed` (`AuthGate`), `AnswersFit` (`FitsBeforeTsig`), `AnswersAreSigned` (`SignedAnswers`), `FrontEndsAgree` (`SameAnswerEverywhere`), `ListedNamesAnswer` (`ListedIsAnswered`), `CountersAgree` (`CountersMatchReplies`), `QueryTypeCorrect` (`QueryTypeOK`) |
| ReplicationProofs | `SecondariesAreNeverBehind` (`NeverBehindItsSerial`), `UpToDateSecondariesAreCurrent` (`UpToDateIsTrue`), `ReplicationTypeCorrect` (`ReplicationTypeOK`) |
| StreamProofs | `WireTextIsStored` (`DecodedAsSent`), `FlushLoopIsbatchRRs` (`BatchersAgree`), `OnlyUnsendableAborts` (`AbortedOnlyByUnsendable`), `PlainZonesAreServed` (`PlainServedIntact`), `ClientsFindDeltas` (`ClientFindsDeltas`) |
| LifecycleProofs | `KeyStaysStable` (`KeyStable`), `PidfileStaysTrue` (`PidfileTrue`), `PairStaysUsable` (`PairUsable`), `VerifiedIsConfigured` (`VerifiedMeansConfigured`), `RequiredServesItsHealthcheck` (`RequiredServesHealthcheck`) |

Each rests on an inductive invariant of its component (`CommitInvariant`,
`ZoneInvariant`, `QueryInvariant`, `ReplicationInvariant`, `StreamInvariant`,
`LifecycleInvariant`), with one lemma per action. TLC checked the invariants on the
runs' instances before they were proved, but for `StreamInv`, which names the rounds
of a loop by an unbounded CHOOSE; of that one TLC checks the five properties that
follow.

### Assumptions

All are named `ASSUME`s of the modules that declare the constants, and TLC
evaluates them on every instance.

- `SerialModAssumption`, `CapAssumption`: at least two serials, a cap above 0 and
  below their number (2^32 and 4,096 in the program).
- `ZoneAssumption`, `KeysAssumption`, `TableAssumption`: the constants have their
  types, goroutines and clients are finitely many, `NoItem` and `NoKey` are no
  item and no key, and the label `_contractdb` is none that a key is listed under.
- `MessagesAssumption` (Zone, Query): messages have the fields the code reads, no
  label of them has more than 63 octets, their
  prerequisites are a sequence; what an UPDATE writes is an item under a key, and
  `Changes` has its delta.
- `NoDeltasAssumption`, `ItemAssumption`: the values that stand for "no history",
  JSON `null` and "no item" are no list of deltas and no item.
- `NamesAssumption`: base32 decodes what it encoded, the labels it makes are in
  lower case, and safe labels are in lower case, as `itemName` requires of them.
- `StreamAssumption`: a message is filled up to one byte more than it may have, what
  is set aside per message is more than header and question take, and an SOA fits
  (65,536, 65,535 and 512 in the program). `TxtCodecAssumption`, `JobsAssumption`:
  strings have at least one byte, and jobs are tables, packets and deltas of bytes.
- `ReplicationAssumption`, `ChangesAssumption`, `TsigAssumption`,
  `FilesAssumption`, `ConfigsAssumption`: types of the other constants.

Some theorems have a hypothesis in their statement:

- `AckedIsNotMissed`, `StreamsChain`, `FullTransferIsFresh` and `ZoneTypeCorrect`
  speak of states where the serial has not wrapped (`Unwrapped`): the code compares
  serials as plain integers (`transfer.go` 49), and past the wrap they are false.
  Replication has the same bound in `DrawSerial` and `ClockSerials`.
- `AckedIsNotMissed` and `FullTransferIsFresh` are about the demo store; a lagging
  Scan breaks both. `WritesAreAccounted` is about either store.
- The theorems of Replication are about behaviours up to the first restart with a
  serial that is not past those handed out (`ahead`).
- `StoredNamesStayResolvable` asks that base32 encodes every key that is not safe
  (`EncodableKeys`), and `ListedNamesAnswer` the same of the keys it is about. Both
  name in the property the keys that `itemName` does not write without loss
  ([below](#what-was-found)).
- `OrderedCommitsAreAnswered`, `LonePrereqsHoldAtWrite` and `LoneReplacementsReplay`
  say `[]Exclusive(S)`: no two UPDATE goroutines are in the stretch `S` of the code at
  once. One client that waits for its answers gives that, as would a mutex. The two
  last ones want reads that are consistent (the demo store, or `-consistent`), the
  last one also calls that do not fail having been carried out, no wrap, and
  different names for different keys (`NamesDistinct`). `zone_sequential` satisfies
  all of it.

### The arguments

**CommitLog.** `CommitInv` has three parts that need each other and a fourth for the
wrap: `TypeOK`;
`DrawnOnce`, which says that no two commits in flight share a serial and none has
a serial that has landed, without which a `Land` could overwrite a journal entry;
and `JournalTrue`, which says that each entry is the landed change of its serial
and that `latest` is at least every landed one. Completeness follows: an answer
contains every serial from `since` to `latest`, so every landed one, and a serial
in flight is missing from the map, so an answer cannot reach past it. The model is
one lap of serials; the lap makes the next serial fresh (`NextSerialFresh`). Past the
wrap, `Accounted` (what was drawn has landed or is in flight) is what is needed: a
wrapped serial that is missing from an answer was drawn after the last one, which has
not landed, since with the last serial as `latest` there are no answers.
`RecordEffect` and `AnswerShape` say once what `Record` and `Deltas` do, and all
modules built on the journal use them.

**Zone.** `ZoneInv` adds what every goroutine has established where it is.
`WrittenFirst` (the table has the write of every serial drawn) and `ListedFresh`
give `FullTransferFresh`: they are the two orders in the code that it needs.
`ToldLanded` (what was acknowledged or notified is in the journal's past) with
`JournalTrue` gives `AckedNotMissed` and `NotifyAfterJournal`: deltas up to
`latest` cannot leave out what has landed. `Ordered` and `Continues` carry the
serials from `LoadSerial` to the closing SOA, across commits in between.

**UPDATEs that do not overlap.** What was found as races is here turned round: how
much of `processUpdate` would have to exclude a second UPDATE for each promise to
hold, whatever overlaps outside of it.

| Stretch | Promise | Invariant |
|---|---|---|
| serial draw to journal call | `RecentClientsAnswered` | `JournalInOrder`: the journal ends at the zone serial, or one before it while a commit is in flight, and holds the last `Cap` serials without a gap |
| first prerequisite to write | `PrereqsHoldAtWrite` | the prerequisites a goroutine has gone through are met by the table of now |
| reading the old item to drawing the serial | `ExactDeltasRebuildZone` | `ReplacementInv`: the deltas drawn so far make the present table, but for the one write that has no serial yet, whose goroutine holds the item it replaced |

For the last one neither half is enough: TLC finds a counterexample when only the
way from snapshot to write, or only the way from write to serial, is exclusive. The
journal call need not be in the stretch, since the serial alone fixes the order.

**Refinement.** `ZoneImplementsCommitLog` maps a commit between its serial draw
and its journal call to a member of `pending`. `DrawSerial` is `Draw`,
`RecordDelta` is `Land`, and every other step leaves the four mapped variables
alone. `DrawnOnce` of `ZoneInv` is needed: without it two goroutines with one
serial would be one member of `pending`, and a `Land` would take away both.

**Names, Query.** `NameRoundTrip` is by cases on `itemName`: a safe key is not
encoded and has no `k-` label, another one decodes. Query's `QueryInv` says of
each goroutine which table and serial its reply was made from; what the reply
looks like is then a matter of operators (`ComposedReply`), and each property
follows from it with the lemmas about `Sign`, `Truncate` and the counters. What a
read found is what the key holds or, with lagging reads, is in `past` (`ReadFrom`).

**Replication.** A secondary's zone is not simply an earlier content of the table:
a full transfer may list the table after later writes, and deltas applied on top
can leave it with two records. What is invariant (`Inside`) is that a zone whose
serial stands for position `v` of the history has only contents from `v` on, and is
empty only if the item was absent at some position from `v` on. A delta moves `v`
by one (`PatchInside`), and a list of them by its length (`PatchedInside`, by the
least counterexample). `Continues` says that the deltas of a stream are those of
consecutive positions, whatever the server did since they were read; it rests on
`JournalInv`, for which a restart has to make an empty journal. `UpToDateIsTrue`
needs that no serial is above the zone serial, which is where the clock of a
restart comes in: all of it is stated under `ahead` (`AheadInv`), which a restart
with an old serial ends.

**Stream.** The properties are about what loops compute, for texts and tables of any
length. The induction behind them is over indices: the claim is turned into the set
of the indices at which it holds, and a set of naturals that has 0 and is closed
under successor has them all (`Upwards`; `Downwards` for what is read from the end),
which follows from the least element of its complement (`LeastNatural`).
`UpwardFunction` and `DownwardFunction` show in the same way that the recursive
functions of TxtCodec and Stream exist, so that their equations may be used at all.

- *Texts.* `unpackTxtString` writes each byte as one, two or four characters;
  decoding reads exactly those and goes on behind them (`DecodeInvertsUnpack`). The
  converse fails in the code ([below](#what-was-found)); without a backslash packing
  changes nothing (`PackPlain`), and chunks put together are the text.
- *Messages.* `StreamInv` says that after `k` items the flush loop has sent, and
  holds in `buf` and `bufLen`, what `batchRRs` has after `k` rounds. Hence both make
  the same messages. `bufLen` is the overhead and the `dns.Len` of what is in `buf`,
  and packing never makes an RR longer than `dns.Len` says (`PackShrinks`), so a
  message of two RRs or more is at most `MaxMsg` long. Only a lone RR that is too
  long, or an RR with a label that is, keeps a message from being packed.
- *Deltas.* The messages of a delta, put together, are its difference sequence, so
  the body of a stream is the sequence of all of them, wherever it was cut
  (`FlattenConcat`). The client's parse is followed from the end (`ClientParses`):
  the SOAs are where the lengths of the deltas say.

**Lifecycle.** `LifecycleInv` relates the files to the processes: a key file that is
whole has the published key, a process past `LoadKey` has it too, at most one
process is alive. The TSIG theorems need no invariant beyond the ring of the
process being one of the rings of the configuration; they are about
`newHMACProvider`, for every order in which Go's map iteration may fill it.

### Only model-checked

Liveness under fairness, which this prover does not do: `MessagesAnswered`,
`Converges`, `StopEndsServer`. Deadlock freedom is TLC's too.

## What was found

Each of these has a run whose counterexample shows it.

- **`zone_race`** (`update.go` 162–204): two UPDATEs of one key. If the second
  writes between the first one's snapshot and its write, the delta removes the
  wrong item; if they draw serials in the other order than they wrote, replaying
  the journal ends with the older item. The comment at line 154 calls the delta
  exact.
- **`zone_prereq_race`** (`update.go` 68): two UPDATEs with the same
  prerequisite both pass it before either writes.
- **`zone_short_stream`** (`server.go` 78): an IXFR between the bump and
  `Record` gets the new SOA, too few or no deltas, and the new SOA. With no
  deltas this has the form of a full transfer of an empty zone.
- **`replication_clock`** (`main.go` 311): the serial of a start is the clock,
  whatever serials the last run handed out. If it is not past them (more than one
  write a second for long, a restart within the second, a clock set back), a
  secondary is told that it is up to date while the table has changed.

Met while modelling. The first six are in the instances of the passing runs, whose
properties name them as exceptions, each in its comment:

- *Escapes* (`server.go` 193): `itemRRs` hands JSON to miekg/dns as it is, and
  miekg/dns undoes escapes when it packs. A value with a quote, a newline or a
  backslash leaves the server as other, mostly invalid JSON, although README.md:23
  says "The complete item is JSON in one TXT record" (`PlainServedIntact`). On the way
  in, `decodeTXTStrings` does allow for the escaping (`DecodedAsSent`).
- *Inexact deltas* (`update.go` 147, 172–203), with one UPDATE at a time. The limit of
  one owner per packet counts keys: `alice` and the `k-` name of `alice` together are
  accepted, the first item is stored and both are journaled. The payload `null` is
  accepted (line 131): the demo store lists it and reads it back as absent, so the
  delta of the next write does not remove it (`ExactDeltasRebuildZone`).
- *Disguised keys* (`server.go` 140, 178): a safe key that begins with `k-` is listed
  under a name that `parseKey` decodes to something else, against the comment at line
  155 (`StoredNamesResolve`).
- *TC* (`server.go` 484–487): a reply whose uncompressed length is over the limit and
  that fits once `Truncate` has turned compression on is sent whole and without the
  TC bit, but is logged and counted as truncated (`CountersMatchReplies`). README.md:63
  says that the bit is set "when the response does not fit".
- *Failing signatures* (`dnssec.go` 226): an RRset on which `sig.Sign` fails goes out
  without its RRSIG and without a word in the log (`SignedAnswers`).
- *Wrap* (`journal.go` 57): with the last serial before the wrap in flight and serial
  0 landed, `Deltas` leaves serial 0 out of its answer to an older client and calls
  the answer complete (`AnswersComplete`).
- *Stale scans* (`store.go` 127): `-consistent` does not reach the scan of a full
  transfer, which may announce the serial of an acknowledged write and list the item
  from before it; the secondary is not sent the write again. `AckedNotMissed` and
  `FullTransferFresh` are therefore checked, and proved, for the demo store.
- *Queries.* The AAAA query for `ns1` is NXDOMAIN (`server.go` 272; README.md:31
  promises "A / AAAA"). The TSIG is added after the reply was cut to size, so a
  signed UDP reply can exceed the client's buffer (`server.go` 484–490).
- *Ambiguous writes.* A Put that fails but was carried out gets no serial
  (`WritesAccounted`), and reaches secondaries only with a full transfer. The delta
  of the next write of that item removes what this one left, which an incremental
  secondary does not have, so the item before it stays with that secondary as a
  second record. Failing calls and lagging Scans are excluded from Replication by
  its stated assumptions.
- *Large items, long keys.* An item whose record exceeds a DNS message ends every
  full transfer of the zone (`transfer.go` 137). So does one whose key is unsafe and
  has more than 35 bytes, since its base32 label exceeds 63 octets (`server.go` 181);
  a DynamoDB table may have such a key, and an UPDATE can bring one in by a dotted
  name, which `parseKey` takes as it is. The UDP branch of `streamZone` (line 124)
  cannot be reached.
- *Two servers at once.* A second `serve` overwrites the pidfile of the first,
  fails to listen and removes it (`main.go` 380); two simultaneous first starts
  each write a DNSSEC key (`dnssec.go` 57).
- *Torn files.* A key file cut short stops every later start; a certificate pair
  cut short is taken as it is (`doh.go` 146) and DoH stays down with a log line,
  although `main.go` 358 says that "a bad configuration fails before the DNS
  listeners come up". If one file of a configured pair is missing, the other is
  overwritten.
- *Pidfile.* `serve` writes none by default while `stop` reads `contractdb.pid`;
  `status` does not read it (`main.go` 72 says it does); a stale one may name an
  unrelated process by now.
- *Keys.* `LoadTSIGKeys` says that an existing path wins over inline parsing; a path
  with a colon is parsed inline (`auth.go` 47). A name configured in two spellings
  keeps either secret, and `healthcheck` may keep the other one.
- A commit overtaken by a whole journal of others lands below `oldest`, is never
  pruned, and takes one of the 4,096 places for good (`journal.go` 44).
- Opening and closing SOA of a stream may differ when a write commits in between
  (`transfer.go` 202; `transfer_test.go` 49 takes them for equal).
- An UPDATE of the bare label `k-` writes the item of the empty key, which is then
  listed at the apex, where no lookup finds it (`server.go` 140, 158);
  `StoredNamesResolve` leaves that key out.
- `dynamoStore.Put` writes the key attribute over the item, the delta has the
  item as sent (`store.go` 97, `update.go` 197).
- A key directly below an index label is listed but answered from the index
  (`server.go` 297).
- `acceptFunc` admits NOTIFY, "which we answer ourselves" (`server.go` 539), and
  `ServeDNS` answers it SERVFAIL.
- In open mode a query with a TSIG of an unknown key gets no reply at all:
  `setupReplyTsig` arms it and `WriteMsg` fails (`server.go` 92, 491).
- The NSEC of a negative answer at the apex does not list DNSKEY, which the same
  reply contains (`dnssec.go` 252); the apex NSEC denies every name below it.

## What is left out

- Cryptography: HMAC, signatures, certificates. In Zone and Query the verdict of
  the TSIG check is the `tsig` field of a message; Tsig has what it rests on. The
  clock skew that miekg/dns enforces is not modelled.
- HTTP decoding, logging, JSON wording, TTLs, the merging of flags, environment and
  TOML, the output of the commands: no property depends on them.
- `flatten` and `unflatten` of `store.go`: stateless conversions between DynamoDB
  attributes and JSON. What an item is made of matters to no property but the
  equality of items. (A large number that the delta spells 1e+21 is
  stored, and listed, with all its digits: `update.go` 197, `store.go` 271.)
- Zone and Stream meet only in their structure: Zone has the interleavings of a
  transfer with UPDATEs, Stream its messages. A stream's content does not depend on
  how it is cut (`BatchersAgree`, `ClientFindsDeltas`), which is why Zone need not
  cut it.
- The demo store's `Get` of an item that another goroutine then renders shares
  the map; items are never mutated after they are stored, so this is no race.
- Wrapping serials in Zone and Replication: their instances stay below the wrap,
  which the zone serial, a Unix time, reaches in 2106; CommitLog covers the
  journal's wrap. Past it, secondaries from before would be told that they are up
  to date (`transfer.go` 49).

## Plan

1. *Done*: MemChangeLog, CommitLog with proofs; Names, UpdatePacket, Zone with
   the refinement of CommitLog; Query; Replication; TxtCodec and Stream; Tsig and
   Lifecycle.
2. *Done*: proofs of the safety properties of every component, of the refinement,
   and of what must not overlap for the promises that races break.
3. Two secondaries in a chain, and the item conversions of `store.go`, if a
   property turns up that depends on them.
