# FlowSentry in TLA+

A verification development of FlowSentry, the deep packet filter of this
repository: it reads a `.pcap` capture, follows the connections in it, names the
application of each, and writes the capture again without the packets of the
flows that a rule blocks. The modules here model the filter, TLC checks them on
small instances, and TLAPS proves what matters most for every value of the
constants. Paths in this file are relative to the repository.

## 1. The system

Three programs share a small library (`CMakeLists.txt`):

| program | main file | what it does |
|---|---|---|
| `flow_sentry_simple` | `src/sentry_engine_simple.cpp` | the filter: the subject of this development |
| `flow_sentry` | `src/sentry_main.cpp` | prints the packets of a capture |
| `flow_sentry_inspector` | `src/sentry_inspector_simple.cpp` | prints the TLS names in a capture |

### Inventory

| component | state it keeps | operations | what makes it correct |
|---|---|---|---|
| CaptureReader (`sentry_pcap_reader`) | the file stream, `global_header_`, `needs_byte_swap_`; it fills the caller's packet | `open`, `close`, `readNextPacket` | hands out what the writer of the capture meant, in either byte order; never more data than the announced length |
| LayerParser (`sentry_packet_parser`) | none; writes the caller's `SentryPacket` | `parse` and one function per layer | reads inside the captured bytes; nothing of the packet before is left |
| Extractors (`sentry_sni_extractor`) | none beyond a call: an offset, the end of the extensions, the labels so far | `extract` for TLS and HTTP, `extractQuery` for DNS; `extract` for QUIC | whatever lengths a payload announces and wherever the capture cut it: captured bytes only, an end, and the sender's name as far as it was captured; a cut hides a name or its end and never makes another |
| Application types (`sentry_types`) | constant tables | `sniToAppType`, `nameToAppType`, `appTypeToString` | a host has one application, however it is spelled |
| SentryRules (in the engine) | blocked addresses, applications, domains | `blockIP`, `blockApp`, `blockDomain`, `isBlocked` | what the command line named is what is matched |
| Engine loop (in `main`) | flow table, counters, application statistics, output file, the reused `raw` and `parsed` | one iteration per packet, then the report | blocking is by flow, from the first match on; flows stay apart; the report agrees with the packets; the output is a capture |
| Viewers (`sentry_main.cpp`, `sentry_inspector_simple.cpp`) | the reused `raw` and `parsed`, packet, error and TLS counters, a packet limit | one iteration per packet, then the totals | a packet is printed as it is, once, under its number; the totals count what was printed; a limit is kept; the names are those the filter finds |
| SentryQueue (`sentry_thread_safe_queue.h`) | a queue, a mutex, two conditions, a capacity, a shutdown flag | `push`, `tryPush`, `pop`, `popWithTimeout`, `shutdown`, ... | nothing lost or duplicated, never over capacity, nobody asleep for ever. No program uses it |
| RuleManager (`sentry_rule_manager.h`) | | declarations only | there is no implementation to be correct |

### How the parts interact

The engine is one thread. It owns a `CaptureReader`, one `SentryRawPacket` and one
`SentryPacket` that every iteration reuses. An iteration reads a packet, lets
`LayerParser::parse` fill `parsed`, passes over everything that is not TCP or UDP
over IPv4, computes the `FlowKey` (turning the parser's address *text* back into
words), finds or makes the entry of the flow table, counts, runs the classification
stages (SSH by port, SSH by banner, TLS name, HTTP host, DNS by port, port
fallback), asks the rules unless the flow is blocked already, and drops or writes
the packet. The stages look for the TCP payload on their own, in the raw bytes, and
do not use the place the parser found. They hand the payload to the extractors, which are
pure functions of its bytes. The viewers have the same loop without flows and rules; the
inspector has a third copy of the walk to the payload.

### What is hard here

There is no concurrency in the three programs and nothing is persisted but the output;
the one piece of concurrent code, SentryQueue, is used by none of them. In the engine what is hard to test is
the *order* of packets and what one packet leaves for
the next:

* a flow is judged on every packet with the name it has by then (SYN before name,
  fallback before name, banner after fallback), and blocking has to stick;
* connections interleave in one table, and one packet object is reused;
* the same bytes travel along several conversions (bytes, word, text, word) and two
  byte orders (host and file), and have to meet again;
* the engine indexes header bytes on the strength of the parser's checks;
* reading, skipping, tracking, dropping and reporting each keep a counter.

In the extractors it is the arithmetic on lengths the sender chose, over a payload that may
end at any byte; in the viewers what a packet that does not parse leaves behind and where
an iteration is left early.

In SentryQueue it is the interleaving of threads: one thread is woken per step, another
may come between the notification and the woken thread, a timeout races an item, and
shutdown has to reach everybody.

`PROJECT.json` lists each hazard at its line with the property that covers it.

## 2. The modules

```
MachineWords          words, ports and byte orders of the host
 +- CaptureReader     the reader and the file under it        <- MCCaptureReader
 +- LayerParser       parse, layer by layer
     +- FlowClassifier    the flow, the stages, in their order
         +- SentryRules       the rules
         |   +- FlowSentryEngine  (with CaptureReader) main()
         |       |    refines FlowFilter, a filter by flow
         |       +- FlowSentryClaims   what the docs say and the code does not
         |           +- MCFlowSentry       instances
         +- Viewers           (with CaptureReader) both viewers <- MCViewers
         +- CaptureSamples    the hosts, frames and captures of the instances
PayloadInspectors     the extractors, byte by byte
 +- CutCaptures       two calls side by side, on a whole payload and on a part  <- MCPayloadInspectors
 +- NameFormats       what the formats say of the name in a payload             <- MCPayloadInspectors
AppTypeTable          the pattern table                       <- MCAppTypes
SentryQueue           the blocking queue, refines BoundedFifo

theorems:
WordTheorems <- PacketTheorems              parser, flow keys, stages
WordTheorems <- ReaderTheorems              the reader
PacketTheorems, ReaderTheorems <- FlowSentryProofs <- FilterProofs    the engine
PacketTheorems, ReaderTheorems <- ViewerProofs                        the viewers
ExtractorProofs, QueueProofs
```

**MachineWords.** A 32-bit word is a record of two 16-bit halves, so that TLC's
integers never overflow and every operation keeps its width. `LittleEndian` says on
which host the program runs; `LoadHalf` and `LoadWord` are a pointer cast or
`memcpy` on that host. A dotted address is the sequence of its groups; `parseIP`
and `ipToString` do to it what the code's shifts do. `parseIP` is modelled for texts
of one to four groups, each a number below 256.

**CaptureReader.** Variables `file_open`, `needs_byte_swap`, `global_header` are the
members of the class, `packet` is the caller's `SentryRawPacket`, and `disk` is the
environment's file: what its writer *meant*, and the place `at` which `file_` stands. `Stored`
turns that into what this host finds on the disk, and the code's `maybeSwap32` has to undo it.
`open`, `openFails` and `close` are two methods; `readNextPacket` is the third when it answers
true, and `readFails` when it does not: `lengthRefused`, `dataCutShort`, `headerCutShort`,
`fileEnds`, `nothingToRead`. A refused length leaves the reader *inside* of a record, whose data
nobody passed over: what a caller that reads on gets then is any header and any data (`Found`,
`Meant`). A read that comes short leaves the stream in error, and nothing can be read any more.
`CapturesAssumption` asks of a writer that the magic number it meant is not the
known one with its bytes reversed: such a file would say of itself that it was written in the
other order.

**LayerParser.** A frame is a record of the header bytes the program looks at, and
`size` says how many bytes were captured of it. Each layer is a function from a
stage (ok, offset, packet) to a stage; what a layer wrote before it failed stays
written, because the reset is what has to remove it. Payloads are abstract.

**FlowClassifier.** One operator per stage of the loop, composed in `Classify` in the
order of the code. A payload is a kind and, for a ClientHello or an HTTP request, a
host: what the extractors can tell apart. That `sniOf` and `hostOf` may say so little is what
`AnswersAsFormatted`, `NameAsSent` and `CutHidesOnly`, checked on PayloadInspectors, are for. `SniToAppType`
is a constant function, with
the one fact about it the engine's behaviour rests on as its assumption: it answers
UNKNOWN for the empty name and for no other. The instances give it the value of
`AppTypeTable!sniToAppType`, on which TLC then evaluates the assumption.

**PayloadInspectors.** A call of `PayloadInspector::extract`, `HttpHostInspector::extract` or
`DnsInspector::extractQuery` on a payload of any bytes. An action is an early return, a field
passed over, or one turn of a loop; `offset` is the code's, from zero. `touched` is an auxiliary
variable: one more than the last byte the call has looked at. `At` answers 0 past the end of the
payload, where the code would read whatever is there; `ReadsInside` says that no such byte is
looked at, so the choice of 0 does not matter.

**CutCaptures.** No program runs two extractors at once: this module compares two runs of one, which no
formula about a single call can do. PayloadInspectors' own variables are the call that gets what was
captured, `Whole` is a second instance of it on the payload before the cut, and each step is a step of
both (`CutNext`). What a returned call answered stays, so the slower one can catch up.

**NameFormats.** The reference for the extractors: the name in a payload as a definition over the whole
payload, with no walk and no state. Extensions and labels are numbered, and the places where they begin
(`ExtensionAt`, `LabelAt`) are recursive functions. Nothing of it is taken from the extractors but the access to
bytes and the scan `Until`. `TlsNames` is the host name of the first server_name extension of
the list, if all extensions up to it lie inside the record; `HttpNames` is the value of the first field called
Host, one that begins a line of the head, in a request with a method and a blank; `DnsNames` is what lies between the first
and the last byte of the labels, with a dot for each length between them. The extractors know no record
boundary and no lines, so `AnswersAsFormatted` has two provisos, under which they need none: the list of
extensions does not go on behind the record before the name (`ListSplit`), and only fields called Host have the letters
`host:` (`HostOnlyInFields`). Without the provisos the answer is wrong, as ClaimServerName and ClaimHostField show.

**Viewers.** `main()` of both viewers: they differ in the command line, in what they do with a
frame, and in the counters, and share reading and closing. `printed` holds what was printed of
each packet: its number, the packet object, where the payload preview was taken from, and the
names. A limit that `std::stoi` throws on ends the program (`LimitUnreadable`, exit code 134).

**SentryRules.** The rule sets and `isBlocked`. `Contains` stands for the substring
search between names and domains; instances take it from the real search.

**FlowSentryEngine.** `main()`. `pc` is where it is; options arrive one by one, files
open or fail to, each read meets a record the environment chooses or the end, and
an iteration ends in `SkipPacket`, `DropPacket` or `ForwardPacket`. `history` is an
auxiliary variable that remembers what was decided on each tracked packet and why;
no guard reads it. The report is nondeterministic where the code walks an
`unordered_map` or sorts equal counts.

**FlowFilter.** What the engine promises, without protocols or rules: every packet
passes in its turn as it came, or its flow is cut and nothing of it passes again.
`FlowSentryEngine!FilterSpec` is this specification under a refinement mapping:
`arrived` are the packets of `history`, `passed` those in the output, and `cut` the
five values *on the wire* of the flows the table calls blocked. The mapping speaks
of the wire and not of the engine's keys, so it also says the keys tell connections apart.

**AppTypeTable.** The pattern table row by row on real strings, with lower-casing
and substring search; `appTypeToString` and `nameToAppType`.

**SentryQueue.** Every method of the class works under its mutex from its first line, or
from waking up, to its return or to going to sleep; such a stretch is one action, and the
mutex itself needs no variable. `not_empty_` and `not_full_` are the sets of threads asleep
on each condition. A woken thread has left its set and has yet to run, so others may come
first. `notify_one` picks any sleeper, threads wake for no reason (`WakeSpuriously`), and the
time of a `popWithTimeout` may run out at any moment of the call (`Expire`), also before it
first sleeps, which is what a timeout of zero is. `calls` holds each thread's pending call,
or its last answer. The threads are the environment's: any number that push and pop.

**BoundedFifo.** What the queue promises, with no word on sleeping: pending calls are served
one step each; somebody is served while there is an item and a consumer, or room and a
producer; calls that need not wait, and all calls after shutdown, are served one by one.
`SentryQueue!FifoSpec` is this specification with `contents <- queue_` and
`closed <- shutdown_`, its fairness included.

**FlowSentryClaims.** Statements of the documentation that the code does not
keep, each quoted with its line.

## 3. The runs

`tlc -config <run>.cfg <module>` for each run; the bounds are in the configurations.

| run | states | what it shows |
|---|---|---|
| EngineTls | 158,616 | up to four packets, from two clients and three connections, in any order, under no rule or any one rule, from captures of both byte orders: the engine implements `FlowFilter` (`FilterSpec`); types; a packet is dropped exactly from its flow's first match on (`DropExactlyFromFirstMatch`); `--block-ip` means the address on the wire (`BlockedSourceIsDropped`); a name once found settles (`ClassificationSettles`); one name, one application in the report (`ReportUnambiguous`); the output reads back (`OutputReadsBack`), and the same rules find nothing in it any more (`FilteringAgainDropsNothing`) |
| EngineMixed | 677,119 | up to three of sixteen records, all protocols, cut, foreign, refused and swapped ones: a flow is what its connection's packets alone would make of it (`FlowIsolation`), the total, the fates and the tables agree with the packets read (`CountersAgree`), the engine's payload is the parser's (`PayloadWhereParsed`), and what it inspects is always a packet the writer recorded (`InspectsRecords`) |
| CaptureReader | 78,239 | one reader, several captures of both byte orders one after another, lengths on, one over and far over both limits, records cut in their header or data, and reads that go on after a failure: `DecodedAsWritten` |
| SentryQueue | 54,412 | two producers, two consumers, two places, two items, every mix of blocking, trying and timed calls, shutdown at any moment: never over capacity, no wake-up lost (`WakeUpsSuffice`), and a bounded FIFO with its liveness (`FifoSpec`) |
| AppTypes | 685 | every pattern and home page with every prefix of it in capitals: the spelling changes nothing (`CaseDoesNotMatter`), and every home page is recognised as its application, but for two that short patterns of the Twitter row hide (`HomePagesRecognised`) |
| Extractors | 87,566 | 25 messages of the three protocols captured up to every length, and the TLS and DNS ones with any byte replaced by one of five values, whole and without their last bytes: captured bytes only (`ReadsInside`), each step brings the call nearer to its end (`MovesOn`), the call comes back (`Terminates`), on undamaged messages of the plain layout the answer is what the captured part says of the sender's name (`NameAsSent`), and on all of them it is, under the provisos, the name that the format puts into these bytes (`AnswersAsFormatted`) and begins the name in the whole payload (`CutHidesOnly`) |
| Viewers | 138,950 | both viewers on up to three of twelve records, every kind of limit, captures of both byte orders: a packet is printed as it would be on its own (`ShowsThatPacket`), the counters account for every packet (`EveryPacketAccounted`), a positive limit is kept and nothing else is one (`StopsAtLimit`), the preview is the payload (`PreviewIsPayload`), and the inspector prints every TLS name that the filter would have given a flow to port 443 (`InspectorMissesNoName`) |

The runs named `Claim...` each show one statement of the documentation or a
comment that fails:

| run | claim | what happens |
|---|---|---|
| ClaimReadable | the output of any readable capture can be read (README.md:115, 171) | for a capture in the other byte order the output has the old magic number over records in this host's order |
| ClaimTotal | the total is what was forwarded and what was dropped (README.md:315-317: 77, 76 and 1) | a frame the loop passes over is in the total only, and not in the output |
| ClaimBothWays | the server's packets belong to the connection (README.md:262-269, sentry_types.h:32) | they are a flow of their own and pass |
| ClaimHostField | the host is that of the `Host:` header (README.md:200) | the value of `X-Forwarded-Host`, or what follows `/host:` in the target, is taken when it comes first |
| ClaimServerName | the TLS headers lead to the server name (README.md:226) | of a ClientHello whose extensions go on in a second record, text is answered that is not its name |

More are plain from the code and have no run: `www.netflix.com` contains "x.com" and
`www.microsoft.com` contains "t.co", so that both are recognised as Twitter/X and `--block-app netflix`
does not block the first (sentry_types.h:64 "Specific applications (detected via SNI)";
`HomePagesRecognised` pins these two exceptions down), a flow on port 53 is called DNS and
its query is never parsed (README.md:202 says it is), the pattern yt3.ggpht of the
YouTube row is never reached, because ggpht stands in the Google row, `orig_len` of an output record is
overwritten with the captured length (sentry_pcap_reader.h:27 calls it the actual length of the packet), and a
plain HTTP request to an unlisted host makes its flow HTTPS (sentry_sni_extractor.h:48 says the extractor is for
unencrypted HTTP). The total length of the IP header is not looked at, so padding that fills up a short
Ethernet frame counts as payload.

**Why the bounds are enough.** What a packet does to a flow depends on the
flow's application, name and blocked flag and on the packet alone, and these three
settle after at most two classifying packets (fallback, then name). Four packets
(three where the alphabet is large) cover the flow before, at and after its first
match, with a packet of another flow in between. One rule at a time separates the
three kinds of rule; rules are a disjunction, and the proofs of section 5 hold for
any number. `MaxOptions` and `MaxPackets` are the only bounds on behaviour. Records
are chosen so that each early return of the parser and the reader, each stage and
each of its guards is met on both sides; the sizes sit on the boundaries the code
compares with.

For the extractors a message is short, but has every shape the code distinguishes: the name
first, in the middle and last among the extensions, with and without a session id, empty,
missing, of another type, in a second record behind its header; a Host field in several spellings, after an empty
one, after other bytes that spell it, with blanks, a port, no value; labels that end in a root, in a pointer,
or at once. Every prefix is
a capture of it. The five values of a damaged byte are zero, one, a small length, one that is
no label length, and the largest; a damaged message comes whole and without its
last 4 and 9 bytes, so that lengths that lie meet a cut. The theorems of section 5 cover every payload and every cut.

The viewers keep nothing of a packet but counters and the packet object, so three records are a packet
before, a packet that leaves something behind, and the one that could show it. The limits are
negative, zero, below, and above the number of records.

For the queue, two threads on each side and two places are the smallest instance in
which a thread can come between a notification and the woken thread while both a
sleeper and a second item (or place) are there; two distinct items show their order. The
safety part of its properties is proved for every number of threads and every capacity.

**Deadlock and fairness.** `Exited` stutters when the engine has ended, so a
deadlock would be a place where the program is stuck; there is none. The engine's runs
state no liveness and assume no fairness: the loop ends because the file does, which is
the environment's doing, and between two reads the program takes a bounded number of
steps. SentryQueue assumes weak fairness of each thread's steps inside a call (the
scheduler runs awake threads, and the mutex starves nobody) and of the clock (`Expire`). It
assumes nothing of the callers, of shutdown or of spurious wake-ups. Under it no single
producer or consumer is promised its turn before shutdown, because others may overtake it
for ever, in the code as in the model; `BoundedFifo` promises that somebody is served.
The run Extractors assumes weak fairness of the steps of its calls: one thread runs a call, and nothing
else can run in it. The viewers, like the engine, end because the file does.

## 4. Abstractions

* `ts_usec` is treated by the code as `ts_sec` is, and is left out; so are the
  fields of the global header that are only copied.
* MAC addresses, TTL, TCP sequence numbers and flags reach only the viewer.
* In the programs a payload's kind speaks of the captured bytes: a ClientHello cut by the
  capture is `"opaque"`. PayloadInspectors has the bytes; that a cut ClientHello gives the name in the whole or
  none, and so never another name to a flow, is the TLS part of `CutHidesOnly`. The host of a ClientHello or a request
  in the programs is what the extractor answers for it. By `AnswersAsFormatted` that is the name the format puts there,
  and where its provisos fail it is some text of the payload; the programs' properties hold for any.
* What the viewers print is the packet object and the place of the preview; names of
  protocols and flags, MAC addresses, times and layout are left out.
* Write errors on the output and an output path equal to the input are outside the
  model: the program looks at neither.
* The auxiliary variables `history` and `seen` (what was decided on the tracked packets, and the data of all that were
  read) and the writer's intent in `disk` add no behaviour. `disk.at` is the position and the state of `file_`, as
  far as the next read can tell.

## 5. The proofs

Eight modules hold theorems; all are checked by `tlapm` with Z3, Zenon and LS4.

* **WordTheorems**: swapping twice is the identity (`SwapWord`), a port comes off the
  wire as its big-endian value on either host (`NetworkHalf`), an address printed and
  parsed again is the same word (`TextRoundTrip`).
* **PacketTheorems**, about `parse`, the flow keys and the stages, for every frame, size and byte order:
  * `ParseType`, each layer is well typed; `ParsedFromTheWire`, addresses, ports and protocol of a
    tracked packet are those on the wire;
  * `TcpHeaderInside`, what is accepted as TCP has its whole header inside the captured bytes;
    `PayloadIsTheRest`, a payload begins behind the last header and is all that was captured from there;
  * `KeysTellConnections`, two keys are equal exactly when the five values on the wire are;
  * lemmas on the stages: their types and what they leave alone (`ClassifyType`), that a name settles
    (`ClassifySettles`), and where it comes from (`NameOrigin`).
* **FlowSentryProofs**, about `Spec` for all constants that satisfy the named
  assumptions (the types of the captures, records, payloads and tables; nothing
  about sizes or numbers of packets):
  * `TypesCorrect`: `Spec => []TypeOK`, one step per action;
  * `PayloadFound`: `Spec => []PayloadWhereParsed`, from `TcpHeaderInside` and the type of
    the packet;
  * `DropsFromFirstMatch`: `Spec => []DropExactlyFromFirstMatch`;
  * `BlockedSources`: `LittleEndian` implies `Spec => []BlockedSourceIsDropped`. On a big-endian host
    `ipToString` takes the octets in the other order, and the assumption is needed.

* **FilterProofs**, about the same `Spec` under the same assumptions:
  * `EngineReads`: `Spec => ReaderSpec(AnyFrame)`; the engine uses its reader as the reader's own
    specification has it, so `ReaderInv` of ReaderTheorems holds in the engine;
  * `EngineIsFilter`: `Spec => FilterSpec`, the whole refinement, as FlowFilter states no fairness;
  * `NamesSettle`: `Spec => ClassificationSettles`;
  * `ReportsAgree`: `Spec => []ReportUnambiguous`, if no host is literally called "SSH Connection" or
    "SSH Secure Shell". The engine puts these names on SSH flows itself, so a ClientHello that
    named such a host would give one name two applications. They are not host names, but nothing in the
    code refuses them, so the hypothesis is stated;
  * `CountersTell`: `Spec => []CountersAgree`, the total over all records read and the others over those that the
    two `continue`s do not pass over;
  * `EngineInStep`: `Spec => []InspectsRecords`. A refused length leaves the reader inside of a record, and the loop
    ends with it;
  * `OutputIsCapture`: `Spec => []OutputReadsBack`;
  * `FlowsIsolated`: `Spec => []FlowIsolation`;
  * `FilteredStaysFiltered`: `Spec => []FilteringAgainDropsNothing`. With `OutputIsCapture` this says that
    filtering is idempotent: what was written reads back, and the same rules forward all of it.

* **ReaderTheorems**: `ReaderDecodes`, `ReaderSpec => []DecodedAsWritten` for any captures and
  records on hosts of either byte order, also for a caller that reads on after a failure. What such a caller gets
  from inside of a record counts as none of the writer's (`Meant`), so the property is about what is handed out while the
  reader stands where a record begins; that the engine reads nowhere else is `EngineInStep`. The property is about a
  packet already handed out and says nothing of the next; `OrderKnown` adds that an open file's byte order is
  the one `needs_byte_swap_` says, which is
  where the assumption on the writer's magic number enters, and `SwapWord` does the rest. The lemmas
  on the reader's types serve the programs too.
* **ViewerProofs**, about both viewers for any captures, limits and numbers of records:
  * `ViewerTypesCorrect`: `Spec => []TypeOK`;
  * `LimitKept`: `Spec => []StopsAtLimit`, through `LimitInv`: a packet is only read while the count is
    below the limit, which no single step shows because the comparison comes after the count; and the loop is left
    early only at a positive limit, since a read that fails leaves the place where a record begins (`FailsAway`);
  * `PrintedAlone` and `PreviewShowsPayload`: `Spec => []ShowsThatPacket` and `Spec => []PreviewIsPayload`.
    Both rest on `LinesStand`: every line printed, whole, is the line made of the record of its number parsed on
    its own. `LastRead` (the packet about to be shown is the last of those read) and the reset at
    the start of `parse` carry it; `PayloadIsTheRest` says where such a packet's payload is;
  * `AllAccountedFor`: `Spec => []EveryPacketAccounted`. The property speaks of the moments between
    iterations; `TotalsAgree` counts at every moment over the records the loop is done with (`Handled`);
  * `InspectorFindsThem`: `Spec => []InspectorMissesNoName`, under the same hypothesis on the two SSH names.
    `NamesFromRecords` says where the name of a flow can come from: a ClientHello the inspector looks
    at as well, a packet to port 80, or no payload at all. A flow to port 443 has no packet to port 80, and
    `TotalsAgree` with `LinesStand` puts the ClientHello's name on a line.
* **ExtractorProofs**, for a payload of any bytes and any length:
  * `CapturedBytesOnly`: `Spec => []ReadsInside`. The invariant is `WalkInv`: types, `ReadsInside`, and
    `EndInside` (the extensions end inside the payload), which is why clamping the announced end
    carries every later comparison of the loop;
  * `StepsMoveOn`: `Spec => MovesOn`. This is the variant behind `Terminates`: the stage and, within a
    stage, the distance from the offset to the end of the payload. The liveness itself is left to TLC;
  * `CutsHideOnly`: `CutSpec => []CutHidesOnly`, for every payload and every cut of it (below);
  * `AnswersFollowFormats`: `Spec => []AnswersAsFormatted`, the functional correctness of the three extractors
    (below);
  * `ExtractorTypesCorrect`: `Spec => []TypeOK`, an answer being one text of bytes or none.

**The inductive invariant of the engine.** `DropExactlyFromFirstMatch` relates each entry of
`history` to the earlier ones of its flow and is not inductive: a step looks only at
the flow table, and the rules could change. `BlockingInv` adds `RulesComeFirst` (nothing
is tracked before the options are over, so the rules that matched then are the rules
now) and `FlowsRemember` (a flow is blocked exactly when some packet of its key
matched, and the table has exactly the keys of `history`). With these the first
match sets the flag, the flag stays, and the fate of each new packet follows from
the flag. `BlockedSources` adds that the key's source word is the one the four bytes on
the wire spell, through `ParsedFromTheWire` and `TextRoundTrip`. The strengthenings were
checked by TLC on the EngineTls instance before they were proved.

**The invariants of FilterProofs.** A step of FlowFilter needs more than blocking:
`SourceInv` says that a packet at hand came from the disk as the reader decoded it and that nothing is written
before reading begins, and `KeysRecorded` that each key of `history` is the key of the five values its packet
has on the wire, so that with `KeysTellConnections` a blocked table entry is a cut connection and
nothing else. `FlowsSettled` describes every flow of the table: named by a host, with that host's
application; named by an SSH stage; or unnamed, with an application that the ports of its key explain. The
last case is the point: a guess can come again from each later packet, and only the ports of
the key show that it comes out the same. `CountsAgree` is the part of `CountersAgree` about fates and tables
over sets of places in
`history`; each packet adds one place to one set of each kind. `RecordsTold` is its part about the total: the records
the loop is done with, and those of them that are worth tracking, counted record by record. `OutputInv` says
that the output's
header is the input's, that a packet at hand passes the reader's length checks against that header, and
that the record written for each forwarded packet stands at its place (`Turn`: the number of forwarded packets
up to it) with a header that reads back.

`FlowIsolation`, `FilteringAgainDropsNothing` and `InspectorMissesNoName` compare the program with a flow computed
by recursion over all packets. That such a function has the value its equation says is an induction over its
length, and the library's induction theorems take an operator as a parameter, which none of the provers can
instantiate. But the list of packets only grows, one at a time, so
the induction over steps can carry it (where nothing grows, as in a payload, sets take the operator's place: see
the invariant of the formats). `ReplayDefined` (`FlowDefined` in ViewerProofs)
says that the recursive equation over the packets so far has exactly one solution; a packet more extends that solution by
one value (`UnfoldsLonger`, `SolvesLonger`), so the function's last value moves on by one application of the stages
(`ReplayMovesOn`, `FlowMovesOn`). What a packet does in the replay depends on the rules too; they stay as they are once
anything is replayed (`RulesComeFirst`, `ReplayStays`). `FlowsAlone` then says that the table's flow is the
replayed one, blocked flag included. `FilteredFlows` is about the replay of the forwarded packets only: it
is the table's flow until that is blocked, and stays where it was afterwards, one packet before the first match,
because no packet of the flow is forwarded any more.

**The invariant of the cut.** `CutInv` follows the two calls. While the one with the cut payload goes on they
are `Abreast`, at the same stage and offset with the same labels, since they have compared and
read captured bytes only (`WalkInv` again, through `SameBytes`); the ends of the extensions may differ, and
the one in the cut
is the smaller. There is one exception: after `Host:` the cut
payload may have nothing but blanks, while the whole one has a value behind them and its call returns first
(`Missed`). Then the other call must never find a name, and `NoHostInBlanks` says why: what is
left for it to scan holds no `Host:`. When the call with the cut payload is over, its name is `Borne`: it begins
the other's answer, or the labels the other is still reading. The HTTP case needs where two scans
stop (`StopsCut`, for every set of stop bytes) and that a text cut at its first colon keeps
prefixes (`BeforeColonCut`). That a scan stops anywhere at all is an induction over the offset;
`LeastOf` (a set of naturals has a least element) stands in for it, as sets, unlike operators, can be instantiated.

**The invariant of the formats.** The proof has two halves. The first compares the walk with definitions that see
the payload as it does, with the list of extensions up to where it is announced to end and a Host wherever its letters
are (`WalkedNames`, `ScannedNames`, `AnswersAsWalked`). `FormatInv` says where the walk stands in terms of these: at a
field of the ClientHello by its name, at extension number n behind n extensions that fit and are no
server name (`PassedOver`), behind n labels with the first n of them joined (`LabelsRead`), or behind places that are
no Host field. From there the next place decides the answer (`NextDecides`): no later number can be the first
server name any more, and no earlier one is. The numbered places need that a recursive function over the
naturals has the value its equation says. `AllCounted` is induction stated for a set, and follows from `LeastOf`;
`PlacesExist` builds from it the function whose equation this is, piece by piece, and `PlacesAre` draws from the
equation that the places follow each other. `DottedGrows` is the one step about texts: a dot and one more label
make of the name of n labels that of n + 1.

The second half compares these definitions with the format's (`TlsAsFormatted`, `HttpAsFormatted`). A record
that the extractor
accepts ends inside the payload, so a name inside the record is one the walk sees, and it is the first in both (`SameNames`);
if the list ends inside the record the two lists are one (`SameList`). If only fields called Host have the
letters, what the scan
finds are the fields (`SameFields`), and cutting a value at its first colon is the same as ending a scan for
the end of the line
at a colon too (`SameHost`).

* **QueueProofs**, for any number of threads, any items, any capacity:
  * `QueueTypesCorrect`: types and `Len(queue_) <= max_size_`;
  * `QueueIsFifo`: `Spec => Fifo!FifoSafety`, each answer is a step of the abstract queue, and
    sleeping, waking and the clock are invisible. It needs that only timed calls expire;
  * `NoWakeUpIsLost`: `Spec => []WakeUpsSuffice`. `WakeUpsSuffice` counts: while a consumer
    sleeps there are as many awake consumers as items, while a producer sleeps as many
    awake producers as places. It is inductive together with the types and
    `SleepersWait` (a thread sleeps on the condition of its own call): a push adds an item
    and an awake consumer, a pop removes both, and only an empty queue puts a consumer
    to sleep. The threads have to be finitely many (`QueueAssumption`).

**Only model-checked:**

* `NameAsSent` in the extractors and `CaseDoesNotMatter` in the pattern table. Their reference definitions
  compose and search texts of the instances, strings and recursion over them, which the provers have no theory
  for. `NameAsSent` starts from
  messages as their sender composes them; what the extractors make of bytes, whoever composed them, is a theorem for every
  payload (`AnswersFollowFormats`), under its two provisos.
* Liveness: `Terminates`, and the fairness half of the queue's `FifoSpec`. They need ENABLED, which is out of the
  prover's reach. Their safety cores, `StepsMoveOn`, `NoWakeUpIsLost` and `QueueIsFifo`, are theorems.

Every other property of the passing runs is a theorem.

## 6. Not modelled, and why

* **RuleManager** and the connection types of `sentry_types.h` (`Connection`, `PacketJob`, `DPIStats`):
  declarations that no code uses or implements.
* **QuicInspector**: no program calls it. It restarts PayloadInspector at each byte `0x01`, with the
  five bytes in front of it, which for the first bytes of a payload belong to whatever its caller
  keeps there; without a caller there is nothing to model them from.
* `PayloadInspector::extractExtensions` is a stub that answers the empty list and has no caller.
* Failing writes of the output, which the program does not look at, and an output path equal to the
  input path: two names for one file are outside the model.
* The test generator and the build files have no behaviour of interest.

## 7. What is left

The modules of the original plan are done: the reader, parser, classifier, rules and engine with the
abstract filter; the queue with the abstract FIFO; the extractors; the viewers. What the repository has
beyond them is listed in section 6. Every safety property that a run checks is proved, but for the two about
texts. What could be added:

1. the stages of FlowClassifier see of a payload what PayloadInspectors answers. This is argued in section 4,
   from `AnswersAsFormatted`, `NameAsSent` and `CutHidesOnly`, and could be a refinement between the two modules, once
   payloads of the engine's model have bytes;
2. the order of the report's list of applications, which so far is part of `Report` only, with
   no property of its own.
