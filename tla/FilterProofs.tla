----------------------------- MODULE FilterProofs -----------------------------
(***************************************************************************)
(* What leaves the engine, for every set of captures, records, rules and   *)
(* names, on hosts of either byte order: the packets it lets through, the  *)
(* output capture, the names and the counters of the report.               *)
(***************************************************************************)
EXTENDS FlowSentryProofs, SequenceTheorems

(* The step that inspects a packet, and the others. *)

ThisKey == KeyOf(Stage.packet)
ThisFlow == Inspected(ThisKey, Stage.packet, packet.data)

\* A packet is inspected, and its flow decides its fate.
TracksPacket(fate) ==
    /\ Track(ThisKey, ThisFlow, fate)
    /\ pc = "inspect"
    /\ ThisFlow.blocked <=> fate = "dropped"
    /\ fate = "dropped" => /\ dropped' = dropped + 1
                           /\ UNCHANGED <<forwarded, output>>
    /\ fate = "forwarded" => /\ forwarded' = forwarded + 1
                             /\ UNCHANGED dropped
                             /\ output' = [output EXCEPT !.records =
                                   Append(@, [header |-> OutputHeader, data |-> packet.data])]

\* Nothing is inspected; at most the output is opened.
TracksNothing ==
    /\ UNCHANGED <<flows, app_stats, history, forwarded, dropped>>
    /\ output' = output \/ OpenOutput

\* Every step is one of the two.
LEMMA TracksOrNot ==
    ASSUME [Next]_vars
    PROVE  (\E fate \in {"forwarded", "dropped"} : TracksPacket(fate)) \/ TracksNothing
<1>1. "forwarded" # "dropped"
  OBVIOUS
<1>2. CASE DropPacket
  <2>1. TracksPacket("dropped")
    BY <1>1, <1>2 DEF DropPacket, TracksPacket, ThisKey, ThisFlow, Track
  <2> QED
    BY <2>1
<1>3. CASE ForwardPacket
  <2>1. TracksPacket("forwarded")
    BY <1>1, <1>3 DEF ForwardPacket, TracksPacket, ThisKey, ThisFlow, Track
  <2> QED
    BY <2>1
<1>4. CASE ~(DropPacket \/ ForwardPacket)
  BY <1>4 DEF TracksNothing, Next, UsageError, BeginArguments, BlockIP, BlockApp, BlockDomain,
    ExportJson, IgnoreOption, Option, OpenInput, OpenInputFails, OpenOutput, OpenOutputFails,
    ReadPacket, ReadEnds, SkipPacket, Report, Exited, vars, tables, counters
<1> QED
  BY <1>2, <1>3, <1>4

\* What the tables are after a packet.
LEMMA TrackedTables ==
    ASSUME TypeOK, NEW fate, TracksPacket(fate)
    PROVE  /\ packet.data \in Data /\ ThisFlow \in Flow
           /\ ThisKey = WireKey(packet.data)
           /\ Len(history) \in Nat /\ Len(history') = Len(history) + 1
           /\ \A i \in 1 .. Len(history) : history'[i] = history[i]
           /\ history'[Len(history) + 1] = Entry(ThisKey, ThisFlow, fate)
           /\ 1 .. Len(history) + 1 = (1 .. Len(history)) \cup {Len(history) + 1}
           /\ DOMAIN flows' = DOMAIN flows \cup {ThisKey}
           /\ flows'[ThisKey] = ThisFlow
           /\ \A k \in DOMAIN flows : k # ThisKey => flows'[k] = flows[k]
<1>1. packet.data \in Data /\ ThisFlow \in Flow
  <2>1. packet.data \in Data
    BY StageType DEF TypeOK
  <2>2. \A k : Inspected(k, Stage.packet, packet.data) \in Flow
    BY <2>1, InspectedType DEF TypeOK
  <2> QED
    BY <2>1, <2>2 DEF ThisFlow
<1>2. ThisKey = WireKey(packet.data)
  <2>1. Tracked(Stage)
    BY DEF TracksPacket, Track
  <2>2. AddressesOf(packet.data, Stage.packet) /\ PortsOf(packet.data, Stage.packet)
    BY <1>1, <2>1, ParsedFromTheWire DEF Stage
  <2>3. packet.data.frame.src_ip \in FourBytes /\ packet.data.frame.dst_ip \in FourBytes
    BY <1>1 DEF Data, Frame
  <2> QED
    BY <2>2, <2>3, AddressType DEF AddressesOf, PortsOf, ThisKey, KeyOf, WireKey
<1>3. history' = Append(history, Entry(ThisKey, ThisFlow, fate)) /\ flows' = Put(flows, ThisKey, ThisFlow)
  BY DEF TracksPacket, Track
<1>4. history \in Seq(HistoryEntry)
  BY DEF TypeOK, TableTypeOK
<1>5. /\ Len(history) \in Nat /\ Len(history') = Len(history) + 1
      /\ \A i \in 1 .. Len(history) : history'[i] = history[i]
      /\ history'[Len(history) + 1] = Entry(ThisKey, ThisFlow, fate)
  BY <1>3, <1>4
<1>6. 1 .. Len(history) + 1 = (1 .. Len(history)) \cup {Len(history) + 1}
  BY <1>5
<1>7. /\ DOMAIN flows' = DOMAIN flows \cup {ThisKey}
      /\ flows'[ThisKey] = ThisFlow
      /\ \A k \in DOMAIN flows : k # ThisKey => flows'[k] = flows[k]
  BY <1>3 DEF Put
<1> QED
  BY <1>1, <1>2, <1>5, <1>6, <1>7

-----------------------------------------------------------------------------
(* The reader inside the engine. *)

\* What the engine does to its reader is a step of a reader.
LEMMA ReaderUsed == ASSUME [Next]_vars PROVE [ReaderNext]_readerVars
BY DEF Next, UsageError, BeginArguments, BlockIP, BlockApp, BlockDomain, ExportJson, IgnoreOption,
   Option, OpenInput, OpenInputFails, OpenOutput, OpenOutputFails, ReadPacket, ReadEnds, SkipPacket,
   DropPacket, ForwardPacket, Track, Report, Exited, vars, ReaderNext

\* What the engine inspects is a packet of the capture, as its writer meant it.
PacketFromDisk == pc = "inspect" => packet.data \in PacketsOnDisk

\* The record that was read, not what the disk holds of it, is at hand.
LEMMA ReadFromDisk ==
    ASSUME ReaderInv(Frame), disk.at = "record", NEW r \in Records, readNextPacket(r)
    PROVE  /\ packet'.data \in PacketsOnDisk /\ packet'.header = r.header
           /\ disk'.record = r.header /\ disk'.at = "record"
<1>1. r.header \in PacketHeader
  BY RecordsTyped
<1>2. disk.order \in Orders /\ needs_byte_swap \in BOOLEAN /\ (needs_byte_swap <=> disk.order = "swapped")
  BY DEF readNextPacket, CanRead, ReaderInv, OrderKnown, ReaderTypeOK
<1>3. HeaderRead(r) = r.header /\ Meant(r) = r.header
  BY <1>1, <1>2, PacketHeaderDecoded DEF HeaderRead, Found, Meant
<1>4. /\ packet' = [header |-> r.header, data |-> [size |-> r.header.incl_len.lo, frame |-> r.frame]]
      /\ disk' = [disk EXCEPT !.record = r.header]
  BY <1>3 DEF readNextPacket
<1>5. disk'.record = r.header /\ disk'.at = disk.at
  BY <1>4 DEF ReaderInv, ReaderTypeOK
<1> QED
  BY <1>4, <1>5 DEF PacketsOnDisk

\* Nothing is written before the output was opened.
NothingWritten ==
    pc \in {"start", "arguments", "open_output"} => output.records = <<>> /\ history = <<>>

\* The loop reads only where a record begins: it ends with the first read that fails.
ReadsInStep ==
    /\ pc \in {"open_output", "read", "inspect"} => disk.at = "record"
    /\ pc = "inspect" => packet.header = disk.record

\* Where a packet comes from, and the absence of output, in every run.
SourceInv == ReaderInv(Frame) /\ ReadsInStep /\ PacketFromDisk /\ NothingWritten

\* Every step keeps them.
LEMMA SourceKept ==
    ASSUME TypeOK, SourceInv, [Next]_vars
    PROVE  SourceInv'
<1>1. ReaderInv(Frame)'
  BY ReaderUsed, ReaderStep, RecordsTyped DEF SourceInv
<1>2. PacketFromDisk'
  <2>1. ASSUME NEW r \in Records, ReadPacket(r) PROVE PacketFromDisk'
    <3>1. packet'.data \in PacketsOnDisk
      BY <2>1, ReadFromDisk DEF ReadPacket, SourceInv, ReadsInStep
    <3> QED
      BY <3>1 DEF PacketFromDisk, PacketsOnDisk
  <2>2. CASE ~\E r \in Records : ReadPacket(r)
    <3>1. pc' = "inspect" => pc = "inspect" /\ packet' = packet
      BY <2>2 DEF Next, UsageError, BeginArguments, BlockIP, BlockApp, BlockDomain, ExportJson,
        IgnoreOption, Option, OpenInput, OpenInputFails, OpenOutput, OpenOutputFails, ReadEnds,
        SkipPacket, DropPacket, ForwardPacket, Track, Report, Exited, vars, readerVars
    <3> QED
      BY <3>1 DEF SourceInv, PacketFromDisk, PacketsOnDisk
  <2> QED
    BY <2>1, <2>2
<1>3. NothingWritten'
  BY DEF SourceInv, NothingWritten, Next, UsageError, BeginArguments, BlockIP, BlockApp, BlockDomain,
    ExportJson, IgnoreOption, Option, OpenInput, OpenInputFails, OpenOutput, OpenOutputFails,
    ReadPacket, ReadEnds, SkipPacket, DropPacket, ForwardPacket, Track, Report, Exited, vars, tables
<1>4. ReadsInStep'
  <2>1. ASSUME NEW r \in Records, ReadPacket(r) PROVE ReadsInStep'
    <3>1. packet'.header = disk'.record /\ disk'.at = "record"
      BY <2>1, ReadFromDisk DEF ReadPacket, SourceInv, ReadsInStep
    <3> QED
      BY <3>1 DEF ReadsInStep
  <2>2. ASSUME NEW c \in Captures, OpenInput(c) PROVE ReadsInStep'
    <3>1. disk'.at = "record" /\ pc' = "open_output"
      BY <2>2 DEF OpenInput, open
    <3> QED
      BY <3>1 DEF ReadsInStep
  <2>3. CASE ~(\E r \in Records : ReadPacket(r)) /\ ~\E c \in Captures : OpenInput(c)
    <3>1. /\ pc' = "inspect" => pc = "inspect"
          /\ pc' \in {"open_output", "read", "inspect"} =>
                pc \in {"open_output", "read", "inspect"} /\ packet' = packet /\ disk' = disk
      BY <2>3 DEF Next, UsageError, BeginArguments, BlockIP, BlockApp, BlockDomain, ExportJson,
        IgnoreOption, Option, OpenInputFails, OpenOutput, OpenOutputFails, ReadEnds,
        SkipPacket, DropPacket, ForwardPacket, Track, Report, Exited, vars, readerVars
    <3> QED
      BY <3>1 DEF SourceInv, ReadsInStep
  <2> QED
    BY <2>1, <2>2, <2>3
<1> QED
  BY <1>1, <1>2, <1>3, <1>4 DEF SourceInv

\* so in every run,
LEMMA SourceInvHolds == Spec => []SourceInv
<1>1. Init => SourceInv
  <2> SUFFICES ASSUME Init PROVE SourceInv
    OBVIOUS
  <2>1. ReaderInv(Frame)
    BY ReaderInitType, EngineAssumption DEF Init, ReaderInit, ReaderInv, OrderKnown, DecodedAsWritten
  <2> QED
    BY <2>1 DEF Init, SourceInv, ReadsInStep, PacketFromDisk, NothingWritten
<1>2. TypeOK /\ SourceInv /\ [Next]_vars => SourceInv'
  BY SourceKept
<1> QED
  BY <1>1, <1>2, TypesCorrect, PTL DEF Spec

\* The engine never inspects what a reader finds inside of a record: a length that is
\* refused (sentry_pcap_reader 79-83) is the last thing it reads, and every packet it
\* inspects has the header that the writer of the capture gave it.
THEOREM EngineInStep == Spec => []InspectsRecords
<1>1. SourceInv => InspectsRecords
  BY DEF SourceInv, ReadsInStep, InspectsRecords
<1> QED
  BY <1>1, SourceInvHolds, PTL

\* The engine uses its reader as the reader's own specification has it: what
\* ReaderDecodes says of a reader, it says of the one inside the engine.
THEOREM EngineReads == Spec => ReaderSpec(AnyFrame)
<1>1. Init => ReaderInit(AnyFrame)
  BY DEF Init
<1>2. [Next]_vars => [ReaderNext]_readerVars
  BY ReaderUsed
<1> QED
  BY <1>1, <1>2, PTL DEF Spec, ReaderSpec

-----------------------------------------------------------------------------
(* The abstract filter. *)

\* Every entry has the key of its packet, as it is on the wire.
KeysRecorded ==
    \A i \in 1 .. Len(history) :
        /\ history[i].packet.data \in Data
        /\ history[i].key = WireKey(history[i].packet.data)

\* A new entry has the key of its packet too.
LEMMA KeysNext ==
    ASSUME TypeOK, KeysRecorded, [Next]_vars
    PROVE  KeysRecorded'
<1>1. ASSUME NEW fate, TracksPacket(fate) PROVE KeysRecorded'
  <2>1. Entry(ThisKey, ThisFlow, fate).packet = packet /\ Entry(ThisKey, ThisFlow, fate).key = ThisKey
    BY DEF Entry
  <2> QED
    BY <1>1, <2>1, TrackedTables DEF KeysRecorded
<1>2. CASE TracksNothing
  BY <1>2 DEF TracksNothing, KeysRecorded
<1> QED
  BY <1>1, <1>2, TracksOrNot

\* A list with one more element is the list it was, and that element.
LEMMA Lengthened ==
    ASSUME NEW S, NEW s \in Seq(S), NEW t \in Seq(S), NEW x \in S,
           Len(t) = Len(s) + 1,
           \A i \in 1 .. Len(s) : t[i] = s[i],
           t[Len(s) + 1] = x
    PROVE  t = Append(s, x)
<1>1. /\ Append(s, x) \in Seq(S) /\ Len(Append(s, x)) = Len(s) + 1
      /\ \A i \in 1 .. Len(s) : Append(s, x)[i] = s[i]
      /\ Append(s, x)[Len(s) + 1] = x
  BY AppendProperties
<1>2. \A i \in 1 .. Len(t) : i \in 1 .. Len(s) \/ i = Len(s) + 1
  BY LenProperties
<1>3. \A i \in 1 .. Len(t) : t[i] = Append(s, x)[i]
  BY <1>1, <1>2
<1> QED
  BY <1>1, <1>3, SeqEqual

\* A packet that is inspected has arrived at the filter.
LEMMA Arrives ==
    ASSUME TypeOK, KeysRecorded, NEW fate, TracksPacket(fate)
    PROVE  [i \in 1 .. Len(history') |-> history'[i].packet.data] =
              Append([i \in 1 .. Len(history) |-> history[i].packet.data], packet.data)
<1> DEFINE s == [i \in 1 .. Len(history) |-> history[i].packet.data]
           t == [i \in 1 .. Len(history') |-> history'[i].packet.data]
           n == Len(history)
<1>1. n \in Nat /\ Len(history') = n + 1 /\ packet.data \in Data
  BY TrackedTables
<1>2. Entry(ThisKey, ThisFlow, fate).packet.data = packet.data
  BY DEF Entry
<1>3. \A i \in 1 .. n : s[i] \in Data /\ t[i] = s[i]
  BY <1>1, TrackedTables DEF KeysRecorded
<1>4. t[n + 1] = packet.data
  BY <1>1, <1>2, TrackedTables
<1>5. \A i \in 1 .. n + 1 : t[i] \in Data
  <2>1. \A i \in 1 .. n + 1 : i \in 1 .. n \/ i = n + 1
    BY <1>1
  <2> QED
    BY <1>1, <1>3, <1>4, <2>1
<1>6. s \in [1 .. n -> Data] /\ t \in [1 .. n + 1 -> Data]
  BY <1>1, <1>3, <1>5
<1>7. s \in Seq(Data) /\ Len(s) = n /\ t \in Seq(Data) /\ Len(t) = n + 1
  <2> HIDE DEF s, t, n
  <2> QED
    BY <1>1, <1>6
<1> HIDE DEF s, t, n
<1>8. t = Append(s, packet.data)
  BY <1>1, <1>3, <1>4, <1>7, Lengthened
<1> QED
  BY <1>8 DEF s, t

\* The connections whose flows are blocked, after a packet: its own is added
\* exactly if it is dropped, and was not among them if it is forwarded.
LEMMA CutsOnItsOwn ==
    ASSUME BlockingInv, KeysRecorded, NEW fate, TracksPacket(fate)
    PROVE  /\ fate = "dropped" => CutConnections' = CutConnections \cup {Connection(packet.data)}
           /\ fate = "forwarded" => /\ CutConnections' = CutConnections
                                    /\ Connection(packet.data) \notin CutConnections
<1> DEFINE n == Len(history)
           c == Connection(packet.data)
           e == Entry(ThisKey, ThisFlow, fate)
<1>1. /\ packet.data \in Data /\ ThisKey = WireKey(packet.data)
      /\ n \in Nat /\ Len(history') = n + 1
      /\ \A i \in 1 .. n : history'[i] = history[i]
      /\ history'[n + 1] = e
      /\ 1 .. n + 1 = (1 .. n) \cup {n + 1}
      /\ flows'[ThisKey] = ThisFlow
      /\ \A k \in DOMAIN flows : k # ThisKey => flows'[k] = flows[k]
  BY TrackedTables DEF BlockingInv
<1>2. e.key = ThisKey /\ e.packet.data = packet.data
  BY DEF Entry
<1>3. \A i \in 1 .. n : history[i].key = ThisKey <=> Connection(history[i].packet.data) = c
  BY <1>1, KeysTellConnections DEF KeysRecorded
<1>4. \A i \in 1 .. n : history[i].key \in DOMAIN flows
  BY DEF BlockingInv, FlowsRemember
<1>5. ThisKey \in DOMAIN flows /\ flows[ThisKey].blocked => ThisFlow.blocked
  <2>1. \A k : \A p : LET after == Inspected(k, p, packet.data)
                      IN  FlowAt(k).blocked => after.blocked
    BY <1>1, InspectedType DEF BlockingInv, TypeOK
  <2>2. FlowAt(ThisKey).blocked => ThisFlow.blocked
    BY <2>1 DEF ThisFlow
  <2> QED
    BY <2>2 DEF FlowAt
<1>6. \A x : x \in CutConnections <=>
          \E i \in 1 .. n : flows[history[i].key].blocked /\ x = Connection(history[i].packet.data)
  BY DEF CutConnections
<1>7. \A x : x \in CutConnections' <=>
          \E i \in 1 .. n + 1 : flows'[history'[i].key].blocked /\ x = Connection(history'[i].packet.data)
  BY <1>1 DEF CutConnections
<1>8. ThisFlow.blocked <=> fate = "dropped"
  BY DEF TracksPacket
<1>9. \A x : x \in CutConnections' <=>
          \/ \E i \in 1 .. n : flows'[history[i].key].blocked /\ x = Connection(history[i].packet.data)
          \/ ThisFlow.blocked /\ x = c
  <2> HIDE DEF e, c
  <2>1. \A x : x \in CutConnections' <=>
            \/ \E i \in 1 .. n : flows'[history'[i].key].blocked /\ x = Connection(history'[i].packet.data)
            \/ flows'[e.key].blocked /\ x = Connection(e.packet.data)
    BY <1>1, <1>7
  <2> QED
    BY <1>1, <1>2, <2>1 DEF c
<1> HIDE DEF n, c, e
<1>10. CASE fate = "dropped"
  <2>1. "dropped" # "forwarded"
    OBVIOUS
  <2>2. \A x : x \in CutConnections' <=> x \in CutConnections \/ x = c
    BY <1>1, <1>3, <1>4, <1>6, <1>8, <1>9, <1>10
  <2> QED
    BY <1>10, <2>1, <2>2 DEF c
<1>11. CASE fate = "forwarded"
  <2>1. "dropped" # "forwarded"
    OBVIOUS
  <2>2. ~ThisFlow.blocked
    BY <1>8, <1>11, <2>1
  <2>3. \A x : x \in CutConnections' <=> x \in CutConnections
    BY <1>1, <1>3, <1>4, <1>5, <1>6, <1>9, <2>2
  <2>4. c \notin CutConnections
    BY <1>3, <1>4, <1>5, <1>6, <2>2
  <2> QED
    BY <1>11, <2>1, <2>3, <2>4 DEF c
<1> QED
  BY <1>10, <1>11

\* A forwarded packet has passed the filter, as it came.
LEMMA Passes ==
    ASSUME TypeOK, NEW fate, TracksPacket(fate), fate = "forwarded"
    PROVE  [i \in 1 .. Len(output.records') |-> output.records'[i].data] =
              Append([i \in 1 .. Len(output.records) |-> output.records[i].data], packet.data)
<1> DEFINE R == [header : PacketHeader, data : Data]
           r == [header |-> OutputHeader, data |-> packet.data]
           n == Len(output.records)
           s == [i \in 1 .. Len(output.records) |-> output.records[i].data]
           t == [i \in 1 .. Len(output.records') |-> output.records'[i].data]
<1>1. r \in R /\ packet.data \in Data
  BY StageType, OutputHeaderType DEF TypeOK
<1>2. r.data = packet.data
  OBVIOUS
<1>3. output.records \in Seq(R) /\ n \in Nat
  BY LenProperties DEF TypeOK, OutcomeTypeOK
<1>4. output.records' = Append(output.records, r)
  BY DEF TracksPacket, TypeOK, OutcomeTypeOK
<1>. HIDE DEF r
<1>5. /\ Len(output.records') = n + 1 /\ output.records' \in Seq(R)
      /\ \A i \in 1 .. n : output.records'[i] = output.records[i]
      /\ output.records'[n + 1] = r
  BY <1>1, <1>3, <1>4, AppendProperties
<1>6. /\ \A i \in 1 .. n : output.records[i].data \in Data
      /\ \A i \in 1 .. n + 1 : output.records'[i].data \in Data
  <2>1. /\ \A i \in 1 .. n : output.records[i] \in R
        /\ \A i \in 1 .. n + 1 : output.records'[i] \in R
    <3> HIDE DEF R
    <3> QED
      BY <1>3, <1>5, ElementOfSeq
  <2> QED
    BY <2>1
<1>7. s \in [1 .. n -> Data] /\ t \in [1 .. n + 1 -> Data]
  BY <1>5, <1>6
<1>8. s \in Seq(Data) /\ Len(s) = n /\ t \in Seq(Data) /\ Len(t) = n + 1
  <2> HIDE DEF s, t, n
  <2> QED
    BY <1>3, <1>7
<1>9. (\A i \in 1 .. n : t[i] = s[i]) /\ t[n + 1] = packet.data
  BY <1>2, <1>3, <1>5
<1> HIDE DEF s, t, n
<1>10. t = Append(s, packet.data)
  BY <1>1, <1>8, <1>9, Lengthened
<1> QED
  BY <1>10 DEF s, t

\* What the filter sees of a step: a packet that passes, a packet that cuts its
\* flow, or nothing.
LEMMA StepFilters ==
    ASSUME BlockingInv, SourceInv, KeysRecorded, [Next]_vars
    PROVE  [Filter!FilterNext]_(Filter!filterVars)
<1>1. ASSUME NEW fate, TracksPacket(fate) PROVE packet.data \in PacketsOnDisk
  BY <1>1 DEF SourceInv, PacketFromDisk, TracksPacket
<1>2. ASSUME TracksPacket("dropped") PROVE Filter!Cut(packet.data)
  <2>1. UNCHANGED output
    BY <1>2 DEF TracksPacket
  <2> QED
    BY <1>2, <2>1, Arrives, CutsOnItsOwn DEF Filter!Cut, BlockingInv
<1>3. ASSUME TracksPacket("forwarded") PROVE Filter!Pass(packet.data)
  BY <1>3, Arrives, Passes, CutsOnItsOwn DEF Filter!Pass, BlockingInv
<1>4. CASE TracksNothing
  <2>1. history' = history /\ CutConnections' = CutConnections
    BY <1>4 DEF TracksNothing, CutConnections
  <2>2. output.records' = output.records
    BY <1>4 DEF TracksNothing, OpenOutput, SourceInv, NothingWritten
  <2> QED
    BY <2>1, <2>2 DEF Filter!filterVars
<1>5. ASSUME NEW fate \in {"forwarded", "dropped"}, TracksPacket(fate) PROVE Filter!FilterNext
  <2>1. Filter!Pass(packet.data) \/ Filter!Cut(packet.data)
    BY <1>2, <1>3, <1>5
  <2> QED
    BY <1>1, <1>5, <2>1 DEF Filter!FilterNext, Filter!Pass, Filter!Cut
<1> QED
  BY <1>4, <1>5, TracksOrNot

\* The keys in the table and in the history are those of the packets, in every run.
LEMMA KeysHold == Spec => []KeysRecorded
<1>1. Init => KeysRecorded
  BY DEF Init, KeysRecorded
<1>2. TypeOK /\ KeysRecorded /\ [Next]_vars => KeysRecorded'
  BY KeysNext
<1> QED
  BY <1>1, <1>2, TypesCorrect, PTL DEF Spec

\* The engine implements the filter by flow, for every capture, rule set and host
\* table: of the tracked packets each is written unchanged and in its turn, or its
\* connection is cut, and nothing of a cut connection is ever written again
\* (sentry_engine_simple 171, 258-282).
THEOREM EngineIsFilter == Spec => FilterSpec
<1>1. Init => Filter!FilterInit
  <2> SUFFICES ASSUME Init PROVE Filter!FilterInit
    OBVIOUS
  <2>1. history = <<>> /\ output.records = <<>> /\ Len(history) = 0 /\ Len(output.records) = 0
    BY DEF Init
  <2>2. /\ [i \in 1 .. Len(history) |-> history[i].packet.data] = <<>>
        /\ [i \in 1 .. Len(output.records) |-> output.records[i].data] = <<>>
        /\ CutConnections = {}
    BY <2>1 DEF CutConnections
  <2> QED
    BY <2>2 DEF Filter!FilterInit
<1>2. BlockingInv /\ SourceInv /\ KeysRecorded /\ [Next]_vars => [Filter!FilterNext]_(Filter!filterVars)
  BY StepFilters
<1> QED
  BY <1>1, <1>2, BlockingInductive, SourceInvHolds, KeysHold, PTL DEF Spec, FilterSpec, Filter!FilterSpec

-----------------------------------------------------------------------------
(* Names and applications. *)

\* Every flow in the table is one that the stages can have left.
FlowsSettled == \A k \in DOMAIN flows : Settled(flows[k], k.src_port, k.dst_port)

\* A flow the table does not hold yet starts unnamed.
LEMMA StartsSettled ==
    ASSUME FlowsSettled, NEW k
    PROVE  Settled(FlowAt(k), k.src_port, k.dst_port)
<1>1. NewFlow.sni = "" /\ NewFlow.app_type = "UNKNOWN"
  BY DEF NewFlow
<1>2. Unnamed(NewFlow) /\ NewFlow.app_type = "UNKNOWN"
  BY <1>1 DEF Unnamed
<1>3. CASE k \in DOMAIN flows
  BY <1>3 DEF FlowAt, FlowsSettled
<1>4. CASE k \notin DOMAIN flows
  BY <1>2, <1>4 DEF FlowAt, Settled, Guessed
<1> QED
  BY <1>3, <1>4

\* What only looks at the name and the application.
LEMMA SameNameSameSettled ==
    ASSUME NEW f, NEW g, f.sni = g.sni, f.app_type = g.app_type
    PROVE  (Unnamed(f) <=> Unnamed(g))
           /\ (\A s, t : Settled(f, s, t) <=> Settled(g, s, t))
BY DEF Unnamed, Settled, HasName, NamedByHost, NamedBySsh, Guessed

\* What a packet does to the name and the application of its flow.
LEMMA InspectedSettles ==
    ASSUME TypeOK, FlowsSettled, NEW fate, TracksPacket(fate)
    PROVE  LET before == FlowAt(ThisKey)
           IN  /\ Settled(ThisFlow, ThisKey.src_port, ThisKey.dst_port)
               /\ ~Unnamed(before) =>
                     ThisFlow.sni = before.sni /\ ThisFlow.app_type = before.app_type
               /\ before.app_type # ThisFlow.app_type =>
                     before.app_type = "UNKNOWN" \/ ~Unnamed(ThisFlow)
<1> DEFINE p == Stage.packet
           d == packet.data
           k == ThisKey
           f0 == FlowAt(k)
           f1 == Counted(f0, d)
           f2 == Classify(f1, p, d)
           f3 == Judged(f2, k)
<1>1. p \in SentryPacket /\ d \in Data /\ k.src_port = p.src_port /\ k.dst_port = p.dest_port
  BY StageType DEF TypeOK, ThisKey, KeyOf
<1>2. ThisFlow = f3
  BY DEF ThisFlow, Inspected
<1>. HIDE DEF p, d, k
<1>3. f0 \in Flow /\ Settled(f0, p.src_port, p.dest_port)
  BY <1>1, FlowAtType, StartsSettled DEF TypeOK
<1>. HIDE DEF f0
<1>4. f1 \in Flow /\ f1.sni = f0.sni /\ f1.app_type = f0.app_type
  BY <1>1, <1>3, CountedType
<1>. HIDE DEF f1
<1>5. Settled(f1, p.src_port, p.dest_port) /\ (Unnamed(f1) <=> Unnamed(f0))
  BY <1>3, <1>4, SameNameSameSettled
<1>6. /\ f2 \in Flow
      /\ Settled(f2, p.src_port, p.dest_port)
      /\ ~Unnamed(f1) => f2.sni = f1.sni /\ f2.app_type = f1.app_type
      /\ f1.app_type # f2.app_type => f1.app_type = "UNKNOWN" \/ ~Unnamed(f2)
  BY <1>1, <1>4, <1>5, ClassifyType, ClassifySettles
<1>. HIDE DEF f2
<1>7. f3.sni = f2.sni /\ f3.app_type = f2.app_type
  BY <1>6, JudgedType DEF Alike
<1>. HIDE DEF f3
<1>8. Settled(f3, p.src_port, p.dest_port) /\ (Unnamed(f3) <=> Unnamed(f2))
  BY <1>6, <1>7, SameNameSameSettled
<1>9. /\ ~Unnamed(f0) => f3.sni = f0.sni /\ f3.app_type = f0.app_type
      /\ f0.app_type # f3.app_type => f0.app_type = "UNKNOWN" \/ ~Unnamed(f3)
  BY <1>4, <1>5, <1>6, <1>7, <1>8
<1>10. f0 = FlowAt(ThisKey) /\ k = ThisKey
  BY DEF f0, k
<1> QED
  BY <1>1, <1>2, <1>8, <1>9, <1>10

\* What a step may do to a flow of the table.
SettlesInStep ==
    \A k \in DOMAIN flows :
        /\ ~Unnamed(flows[k]) => /\ flows'[k].sni = flows[k].sni
                                 /\ flows'[k].app_type = flows[k].app_type
        /\ flows[k].app_type # flows'[k].app_type =>
              flows[k].app_type = "UNKNOWN" \/ ~Unnamed(flows'[k])

\* Every step leaves the flows settled.
LEMMA StepSettles ==
    ASSUME TypeOK, FlowsSettled, [Next]_vars
    PROVE  FlowsSettled' /\ SettlesInStep
<1>1. ASSUME NEW fate, TracksPacket(fate) PROVE FlowsSettled' /\ SettlesInStep
  <2>1. /\ DOMAIN flows' = DOMAIN flows \cup {ThisKey}
        /\ flows'[ThisKey] = ThisFlow
        /\ \A k \in DOMAIN flows : k # ThisKey => flows'[k] = flows[k]
    BY <1>1, TrackedTables
  <2>2. ThisKey \in DOMAIN flows => FlowAt(ThisKey) = flows[ThisKey]
    BY DEF FlowAt
  <2>3. /\ Settled(ThisFlow, ThisKey.src_port, ThisKey.dst_port)
        /\ ~Unnamed(FlowAt(ThisKey)) =>
               /\ ThisFlow.sni = FlowAt(ThisKey).sni
               /\ ThisFlow.app_type = FlowAt(ThisKey).app_type
        /\ FlowAt(ThisKey).app_type # ThisFlow.app_type =>
               FlowAt(ThisKey).app_type = "UNKNOWN" \/ ~Unnamed(ThisFlow)
    BY <1>1, InspectedSettles
  <2>4. FlowsSettled'
    BY <2>1, <2>3 DEF FlowsSettled
  <2>5. SettlesInStep
    BY <2>1, <2>2, <2>3 DEF SettlesInStep
  <2> QED
    BY <2>4, <2>5
<1>2. CASE TracksNothing
  BY <1>2 DEF TracksNothing, FlowsSettled, SettlesInStep
<1> QED
  BY <1>1, <1>2, TracksOrNot

\* so that they are in every run.
LEMMA SettledHolds == Spec => []FlowsSettled
<1>1. Init => FlowsSettled
  BY DEF Init, FlowsSettled
<1>2. TypeOK /\ FlowsSettled /\ [Next]_vars => FlowsSettled'
  BY StepSettles
<1> QED
  BY <1>1, <1>2, TypesCorrect, PTL DEF Spec

\* A name, once found, and its application stay; a guess from the ports gives way
\* only to a name (sentry_engine_simple 174-256), for every order of packets and
\* whatever they carry.
THEOREM NamesSettle == Spec => ClassificationSettles
<1> DEFINE A == \A k \in DOMAIN flows :
                   LET old == flows[k]
                       new == flows'[k]
                   IN  /\ old.sni # "" => new.sni = old.sni /\ new.app_type = old.app_type
                       /\ old.app_type # new.app_type => old.app_type = "UNKNOWN" \/ new.sni # ""
<1>1. TypeOK /\ FlowsSettled /\ [Next]_vars => A
  BY StepSettles DEF SettlesInStep, Unnamed
<1>2. ClassificationSettles <=> [][A]_vars
  BY DEF ClassificationSettles
<1>. HIDE DEF A
<1> QED
  BY <1>1, <1>2, TypesCorrect, SettledHolds, PTL DEF Spec

\* A name stands for one application (the map of sentry_engine_simple 320-325 is
\* filled in the order of a hash table), as long as no host calls itself what the
\* SSH stages call their flows: those two names are the only ones given twice.
THEOREM ReportsAgree ==
    ASSUME Hosts \cap {SshByPortName, SshByBannerName} = {}
    PROVE  Spec => []ReportUnambiguous
<1>1. FlowsSettled => ReportUnambiguous
  <2> SUFFICES ASSUME FlowsSettled, NEW k \in DOMAIN flows, NEW l \in DOMAIN flows,
                      flows[k].sni = flows[l].sni, ~Unnamed(flows[k])
               PROVE  flows[k].app_type = flows[l].app_type
    BY DEF ReportUnambiguous, Unnamed
  <2>1. ~Unnamed(flows[l])
    BY DEF Unnamed
  <2>2. HasName(flows[k]) /\ HasName(flows[l])
    BY <2>1 DEF FlowsSettled, Settled, Guessed
  <2> QED
    BY <2>2 DEF HasName, NamedByHost, NamedBySsh
<1> QED
  BY <1>1, SettledHolds, PTL

-----------------------------------------------------------------------------
(* The counters. *)

\* The places in the history with a fate, a flow, an application.
Fated(fate) == {i \in 1 .. Len(history) : history[i].fate = fate}
OfFlow(k) == {i \in 1 .. Len(history) : history[i].key = k}
OfApp(app) == {i \in 1 .. Len(history) : history[i].app_type = app}

CountsAgree ==
    /\ forwarded = Cardinality(Fated("forwarded"))
    /\ dropped = Cardinality(Fated("dropped"))
    /\ Len(output.records) = forwarded
    /\ \A k : k \in DOMAIN flows <=> \E i \in 1 .. Len(history) : history[i].key = k
    /\ \A k \in DOMAIN flows : flows[k].packets = Cardinality(OfFlow(k))
    /\ \A a : a \in DOMAIN app_stats <=> \E i \in 1 .. Len(history) : history[i].app_type = a
    /\ \A a \in DOMAIN app_stats : app_stats[a] = Cardinality(OfApp(a))

\* The records the loop is done with, and those of them it tracks.
DoneWith == {n \in 1 .. Len(seen) : pc = "inspect" => n < Len(seen)}
Worth == {n \in DoneWith : WorthTracking(n)}

\* What the total counts, what the other two count of it, and the record at hand.
RecordsTold ==
    /\ total_packets = Len(seen)
    /\ forwarded + dropped = Cardinality(Worth)
    /\ pc = "inspect" => seen # <<>> /\ seen[Len(seen)] = packet.data

\* They are the counters of the report.
LEMMA SameCounters ==
    ASSUME CountsAgree, RecordsTold
    PROVE  CountersAgree
<1>1. pc # "inspect" => Worth = {n \in 1 .. Len(seen) : WorthTracking(n)}
  BY DEF Worth, DoneWith
<1> QED
  BY <1>1 DEF CountsAgree, RecordsTold, CountersAgree, Fated, OfFlow, OfApp

\* A packet adds its place to those of its fate, its flow and its application.
LEMMA PlacesGrow ==
    ASSUME TypeOK, NEW fate, TracksPacket(fate)
    PROVE  LET here == Len(history) + 1
           IN  /\ \A f : Fated(f)' = IF f = fate THEN Fated(f) \cup {here} ELSE Fated(f)
               /\ \A k : OfFlow(k)' = IF k = ThisKey THEN OfFlow(k) \cup {here} ELSE OfFlow(k)
               /\ \A a : OfApp(a)' = IF a = ThisFlow.app_type THEN OfApp(a) \cup {here} ELSE OfApp(a)
<1> DEFINE n == Len(history)
           e == Entry(ThisKey, ThisFlow, fate)
<1>1. /\ n \in Nat /\ Len(history') = n + 1
      /\ \A i \in 1 .. n : history'[i] = history[i]
      /\ history'[n + 1] = e
      /\ 1 .. n + 1 = (1 .. n) \cup {n + 1}
  BY TrackedTables
<1>2. n + 1 \notin 1 .. n
  BY <1>1
<1>3. e.fate = fate /\ e.key = ThisKey /\ e.app_type = ThisFlow.app_type
  BY DEF Entry
<1> HIDE DEF e
<1>4. \A f : Fated(f)' = IF f = fate THEN Fated(f) \cup {n + 1} ELSE Fated(f)
  BY <1>1, <1>2, <1>3 DEF Fated
<1>5. \A k : OfFlow(k)' = IF k = ThisKey THEN OfFlow(k) \cup {n + 1} ELSE OfFlow(k)
  BY <1>1, <1>2, <1>3 DEF OfFlow
<1>6. \A a : OfApp(a)' = IF a = ThisFlow.app_type THEN OfApp(a) \cup {n + 1} ELSE OfApp(a)
  BY <1>1, <1>2, <1>3 DEF OfApp
<1> QED
  BY <1>4, <1>5, <1>6

\* so that each count grows by one, or stays.
LEMMA CountsGrow ==
    ASSUME TypeOK, NEW fate, TracksPacket(fate)
    PROVE  /\ \A f : /\ Cardinality(Fated(f)) \in Nat
                     /\ Cardinality(Fated(f)') = Cardinality(Fated(f)) + (IF f = fate THEN 1 ELSE 0)
           /\ \A k : /\ Cardinality(OfFlow(k)) \in Nat
                     /\ Cardinality(OfFlow(k)') = Cardinality(OfFlow(k)) + (IF k = ThisKey THEN 1 ELSE 0)
           /\ \A a : /\ Cardinality(OfApp(a)) \in Nat
                     /\ Cardinality(OfApp(a)') =
                           Cardinality(OfApp(a)) + (IF a = ThisFlow.app_type THEN 1 ELSE 0)
<1> DEFINE n == Len(history)
<1>1. n \in Nat
  BY TrackedTables
<1>2. \A S \in SUBSET (1 .. n) : /\ Cardinality(S) \in Nat
                                 /\ Cardinality(S \cup {n + 1}) = Cardinality(S) + 1
  BY <1>1, OnePlaceMore
<1>3. /\ \A f : Fated(f) \in SUBSET (1 .. n)
      /\ \A k : OfFlow(k) \in SUBSET (1 .. n)
      /\ \A a : OfApp(a) \in SUBSET (1 .. n)
  BY DEF Fated, OfFlow, OfApp
<1>4. /\ \A f : Fated(f)' = IF f = fate THEN Fated(f) \cup {n + 1} ELSE Fated(f)
      /\ \A k : OfFlow(k)' = IF k = ThisKey THEN OfFlow(k) \cup {n + 1} ELSE OfFlow(k)
      /\ \A a : OfApp(a)' = IF a = ThisFlow.app_type THEN OfApp(a) \cup {n + 1} ELSE OfApp(a)
  BY PlacesGrow
<1> HIDE DEF n
<1>5. ASSUME NEW f
      PROVE  /\ Cardinality(Fated(f)) \in Nat
             /\ Cardinality(Fated(f)') = Cardinality(Fated(f)) + (IF f = fate THEN 1 ELSE 0)
  <2>1. Cardinality(Fated(f)) \in Nat
    BY <1>2, <1>3
  <2>2. CASE f = fate
    <3>1. Fated(f)' = Fated(f) \cup {n + 1}
      BY <1>4, <2>2
    <3>2. Cardinality(Fated(f) \cup {n + 1}) = Cardinality(Fated(f)) + 1
      BY <1>2, <1>3
    <3> QED
      BY <2>1, <2>2, <3>1, <3>2
  <2>3. CASE f # fate
    <3>1. Fated(f)' = Fated(f)
      BY <1>4, <2>3
    <3> QED
      BY <2>1, <2>3, <3>1
  <2> QED
    BY <2>1, <2>2, <2>3
<1>6. ASSUME NEW k
      PROVE  /\ Cardinality(OfFlow(k)) \in Nat
             /\ Cardinality(OfFlow(k)') = Cardinality(OfFlow(k)) + (IF k = ThisKey THEN 1 ELSE 0)
  <2>1. Cardinality(OfFlow(k)) \in Nat
    BY <1>2, <1>3
  <2>2. CASE k = ThisKey
    <3>1. OfFlow(k)' = OfFlow(k) \cup {n + 1}
      BY <1>4, <2>2
    <3>2. Cardinality(OfFlow(k) \cup {n + 1}) = Cardinality(OfFlow(k)) + 1
      BY <1>2, <1>3
    <3> QED
      BY <2>1, <2>2, <3>1, <3>2
  <2>3. CASE k # ThisKey
    <3>1. OfFlow(k)' = OfFlow(k)
      BY <1>4, <2>3
    <3> QED
      BY <2>1, <2>3, <3>1
  <2> QED
    BY <2>1, <2>2, <2>3
<1>7. ASSUME NEW a
      PROVE  /\ Cardinality(OfApp(a)) \in Nat
             /\ Cardinality(OfApp(a)') = Cardinality(OfApp(a)) + (IF a = ThisFlow.app_type THEN 1 ELSE 0)
  <2>1. Cardinality(OfApp(a)) \in Nat
    BY <1>2, <1>3
  <2>2. CASE a = ThisFlow.app_type
    <3>1. OfApp(a)' = OfApp(a) \cup {n + 1}
      BY <1>4, <2>2
    <3>2. Cardinality(OfApp(a) \cup {n + 1}) = Cardinality(OfApp(a)) + 1
      BY <1>2, <1>3
    <3> QED
      BY <2>1, <2>2, <3>1, <3>2
  <2>3. CASE a # ThisFlow.app_type
    <3>1. OfApp(a)' = OfApp(a)
      BY <1>4, <2>3
    <3> QED
      BY <2>1, <2>3, <3>1
  <2> QED
    BY <2>1, <2>2, <2>3
<1> QED
  BY <1>5, <1>6, <1>7

\* Every step keeps the counters and the history in agreement.
LEMMA CountsNext ==
    ASSUME TypeOK, SourceInv, CountsAgree, [Next]_vars
    PROVE  CountsAgree'
<1>1. ASSUME NEW fate \in {"forwarded", "dropped"}, TracksPacket(fate) PROVE CountsAgree'
  <2> DEFINE n == Len(history)
             k == ThisKey
             a == ThisFlow.app_type
             e == Entry(ThisKey, ThisFlow, fate)
  <2>1. /\ n \in Nat /\ Len(history') = n + 1
        /\ \A i \in 1 .. n : history'[i] = history[i]
        /\ history'[n + 1] = e
        /\ 1 .. n + 1 = (1 .. n) \cup {n + 1}
        /\ DOMAIN flows' = DOMAIN flows \cup {k}
        /\ flows'[k] = ThisFlow
        /\ \A x \in DOMAIN flows : x # k => flows'[x] = flows[x]
    BY <1>1, TrackedTables
  <2>2. e.key = k /\ e.app_type = a
    BY DEF Entry
  <2>3. ThisFlow.packets = FlowAt(k).packets + 1
    <3>1. packet.data \in Data
      BY <1>1, TrackedTables
    <3>2. \A x : \A p : LET after == Inspected(x, p, packet.data)
                        IN  after.packets = FlowAt(x).packets + 1
      BY <3>1, InspectedType DEF TypeOK
    <3> QED
      BY <3>2 DEF ThisFlow
  <2>4. app_stats' = Put(app_stats, a, AppCount(a) + 1)
    BY <1>1 DEF TracksPacket, Track
  <2>5. /\ DOMAIN app_stats' = DOMAIN app_stats \cup {a}
        /\ app_stats'[a] = AppCount(a) + 1
        /\ \A x \in DOMAIN app_stats : x # a => app_stats'[x] = app_stats[x]
    BY <2>4 DEF Put
  <2> HIDE DEF n, k, a, e
  <2>6. /\ \A x : x \in DOMAIN flows' <=> \E i \in 1 .. Len(history') : history'[i].key = x
        /\ \A x : x \in DOMAIN app_stats' <=> \E i \in 1 .. Len(history') : history'[i].app_type = x
    BY <2>1, <2>2, <2>5 DEF CountsAgree, n
  <2>7. \A x \in DOMAIN flows' : flows'[x].packets = Cardinality(OfFlow(x)')
    <3>1. FlowAt(k).packets = Cardinality(OfFlow(k))
      <4>1. CASE k \in DOMAIN flows
        BY <4>1 DEF FlowAt, CountsAgree
      <4>2. CASE k \notin DOMAIN flows
        <5>1. OfFlow(k) = {}
          BY <4>2 DEF CountsAgree, OfFlow
        <5> QED
          BY <4>2, <5>1, FS_EmptySet DEF FlowAt, NewFlow
      <4> QED
        BY <4>1, <4>2
    <3>2. \A x : /\ Cardinality(OfFlow(x)) \in Nat
                 /\ Cardinality(OfFlow(x)') = Cardinality(OfFlow(x)) + (IF x = k THEN 1 ELSE 0)
      BY <1>1, CountsGrow DEF k
    <3>3. ASSUME NEW x, x = k PROVE flows'[x].packets = Cardinality(OfFlow(x)')
      BY <2>1, <2>3, <3>1, <3>2, <3>3
    <3>4. ASSUME NEW x \in DOMAIN flows, x # k PROVE flows'[x].packets = Cardinality(OfFlow(x)')
      <4>1. Cardinality(OfFlow(x)') = Cardinality(OfFlow(x))
        BY <3>2, <3>4
      <4>2. flows[x].packets = Cardinality(OfFlow(x))
        BY DEF CountsAgree
      <4> QED
        BY <2>1, <3>4, <4>1, <4>2
    <3> QED
      BY <2>1, <3>3, <3>4
  <2>8. \A x \in DOMAIN app_stats' : app_stats'[x] = Cardinality(OfApp(x)')
    <3>1. AppCount(a) = Cardinality(OfApp(a))
      <4>1. CASE a \in DOMAIN app_stats
        BY <4>1 DEF AppCount, CountsAgree
      <4>2. CASE a \notin DOMAIN app_stats
        <5>1. OfApp(a) = {}
          BY <4>2 DEF CountsAgree, OfApp
        <5> QED
          BY <4>2, <5>1, FS_EmptySet DEF AppCount
      <4> QED
        BY <4>1, <4>2
    <3>2. \A x : /\ Cardinality(OfApp(x)) \in Nat
                 /\ Cardinality(OfApp(x)') = Cardinality(OfApp(x)) + (IF x = a THEN 1 ELSE 0)
      BY <1>1, CountsGrow DEF a
    <3>3. ASSUME NEW x, x = a PROVE app_stats'[x] = Cardinality(OfApp(x)')
      BY <2>5, <3>1, <3>2, <3>3
    <3>4. ASSUME NEW x \in DOMAIN app_stats, x # a PROVE app_stats'[x] = Cardinality(OfApp(x)')
      <4>1. Cardinality(OfApp(x)') = Cardinality(OfApp(x))
        BY <3>2, <3>4
      <4>2. app_stats[x] = Cardinality(OfApp(x))
        BY DEF CountsAgree
      <4> QED
        BY <2>5, <3>4, <4>1, <4>2
    <3> QED
      BY <2>5, <3>3, <3>4
  <2>9. /\ forwarded' = Cardinality(Fated("forwarded")')
        /\ dropped' = Cardinality(Fated("dropped")')
        /\ Len(output.records') = forwarded'
    <3>1. "forwarded" # "dropped"
      OBVIOUS
    <3>2. \A f : /\ Cardinality(Fated(f)) \in Nat
                 /\ Cardinality(Fated(f)') = Cardinality(Fated(f)) + (IF f = fate THEN 1 ELSE 0)
      BY <1>1, CountsGrow
    <3>3. /\ forwarded = Cardinality(Fated("forwarded")) /\ dropped = Cardinality(Fated("dropped"))
          /\ Len(output.records) = forwarded
      BY DEF CountsAgree
    <3>4. CASE fate = "dropped"
      <4>1. dropped' = dropped + 1 /\ forwarded' = forwarded /\ output' = output
        BY <1>1, <3>4 DEF TracksPacket
      <4> QED
        BY <3>1, <3>2, <3>3, <3>4, <4>1
    <3>5. CASE fate = "forwarded"
      <4>1. dropped' = dropped /\ forwarded' = forwarded + 1
        BY <1>1, <3>5 DEF TracksPacket
      <4>2. Len(output.records') = Len(output.records) + 1
        <5>1. output.records' = Append(output.records, [header |-> OutputHeader, data |-> packet.data])
          BY <1>1, <3>5 DEF TracksPacket, TypeOK, OutcomeTypeOK
        <5>2. output.records \in Seq([header : PacketHeader, data : Data])
          BY DEF TypeOK, OutcomeTypeOK
        <5> QED
          BY <5>1, <5>2
      <4> QED
        BY <3>1, <3>2, <3>3, <3>5, <4>1, <4>2
    <3> QED
      BY <3>4, <3>5
  <2> QED
    BY <2>6, <2>7, <2>8, <2>9 DEF CountsAgree
<1>2. CASE TracksNothing
  <2>1. Len(output.records') = Len(output.records)
    BY <1>2 DEF TracksNothing, OpenOutput, SourceInv, NothingWritten
  <2> QED
    BY <1>2, <2>1 DEF TracksNothing, CountsAgree, Fated, OfFlow, OfApp
<1> QED
  BY <1>1, <1>2, TracksOrNot

\* in every run.
LEMMA CountsHold == Spec => []CountsAgree
<1>1. Init => CountsAgree
  <2> SUFFICES ASSUME Init PROVE CountsAgree
    OBVIOUS
  <2>1. history = <<>> /\ Len(history) = 0 /\ Len(output.records) = 0
        /\ DOMAIN flows = {} /\ DOMAIN app_stats = {} /\ forwarded = 0 /\ dropped = 0
    BY DEF Init
  <2>2. \A f : Fated(f) = {}
    BY <2>1 DEF Fated
  <2>3. Cardinality(Fated("forwarded")) = 0 /\ Cardinality(Fated("dropped")) = 0
    BY <2>2, FS_EmptySet
  <2>4. 1 .. Len(history) = {}
    BY <2>1
  <2> QED
    BY <2>1, <2>3, <2>4 DEF CountsAgree
<1>2. TypeOK /\ SourceInv /\ CountsAgree /\ [Next]_vars => CountsAgree'
  BY CountsNext
<1> QED
  BY <1>1, <1>2, TypesCorrect, SourceInvHolds, PTL DEF Spec

\* One record more is at hand: nothing more is done with.
LEMMA ReadTold ==
    ASSUME TypeOK, RecordsTold, NEW r \in Records, ReadPacket(r), TypeOK'
    PROVE  RecordsTold'
<1>1. /\ pc = "read" /\ pc' = "inspect" /\ seen' = Append(seen, packet'.data)
      /\ total_packets' = total_packets + 1 /\ UNCHANGED <<forwarded, dropped>>
  BY DEF ReadPacket
<1>2. seen \in Seq(Data)
  BY DEF TypeOK, OutcomeTypeOK
<1>3. /\ Len(seen) \in Nat /\ Len(seen') = Len(seen) + 1 /\ seen' # <<>>
      /\ \A n \in 1 .. Len(seen) : seen'[n] = seen[n]
      /\ seen'[Len(seen')] = packet'.data
  BY <1>1, <1>2
<1>4. DoneWith = 1 .. Len(seen) /\ DoneWith' = 1 .. Len(seen)
  BY <1>1, <1>3 DEF DoneWith
<1>5. \A n \in 1 .. Len(seen) : WorthTracking(n)' <=> WorthTracking(n)
  BY <1>3 DEF WorthTracking
<1>6. Worth' = Worth
  BY <1>4, <1>5 DEF Worth
<1> QED
  BY <1>1, <1>3, <1>6 DEF RecordsTold

\* The loop is done with the record at hand, which is counted if it is tracked.
LEMMA DoneTold ==
    ASSUME TypeOK, RecordsTold, pc = "inspect", pc' = "read", UNCHANGED <<total_packets, seen>>,
           forwarded' + dropped' = forwarded + dropped + (IF Tracked(Stage) THEN 1 ELSE 0)
    PROVE  RecordsTold'
<1> DEFINE m == Len(seen)
<1>1. seen \in Seq(Data) /\ seen # <<>> /\ seen[m] = packet.data
  BY DEF TypeOK, OutcomeTypeOK, RecordsTold
<1>2. m \in Nat /\ m > 0 /\ m - 1 \in Nat /\ (m - 1) + 1 = m
  BY <1>1
<1>3. WorthTracking(m) <=> Tracked(Stage)
  BY <1>1 DEF WorthTracking, Stage, parse
<1>4. DoneWith = 1 .. m - 1 /\ DoneWith' = DoneWith \cup {m}
  BY <1>2 DEF DoneWith
<1>5. \A n : WorthTracking(n)' <=> WorthTracking(n)
  BY DEF WorthTracking
<1> HIDE DEF m
<1>6. Worth' = IF Tracked(Stage) THEN Worth \cup {m} ELSE Worth
  BY <1>3, <1>4, <1>5 DEF Worth
<1>7. Worth \in SUBSET (1 .. m - 1)
  BY <1>4 DEF Worth
<1>8. Cardinality(Worth) \in Nat /\ Cardinality(Worth \cup {m}) = Cardinality(Worth) + 1
  BY <1>2, <1>7, OnePlaceMore
<1>9. forwarded + dropped = Cardinality(Worth) /\ total_packets = Len(seen)
  BY DEF RecordsTold
<1>10. CASE Tracked(Stage)
  <2>1. forwarded' + dropped' = Cardinality(Worth')
    BY <1>6, <1>8, <1>9, <1>10
  <2> QED
    BY <1>9, <2>1 DEF RecordsTold
<1>11. CASE ~Tracked(Stage)
  <2>1. forwarded' + dropped' = Cardinality(Worth')
    BY <1>6, <1>8, <1>9, <1>11
  <2> QED
    BY <1>9, <2>1 DEF RecordsTold
<1> QED
  BY <1>10, <1>11

\* Every step keeps the count of the records.
LEMMA ToldNext ==
    ASSUME TypeOK, RecordsTold, [Next]_vars, TypeOK'
    PROVE  RecordsTold'
<1>0. forwarded \in Nat /\ dropped \in Nat
  BY DEF TypeOK, OutcomeTypeOK
<1>1. ASSUME NEW r \in Records, ReadPacket(r) PROVE RecordsTold'
  BY <1>1, ReadTold
<1>2. CASE SkipPacket
  <2>1. /\ pc = "inspect" /\ pc' = "read" /\ UNCHANGED <<total_packets, forwarded, dropped, seen>>
        /\ ~Tracked(Stage)
    BY <1>2 DEF SkipPacket, counters
  <2> QED
    BY <1>0, <2>1, DoneTold
<1>3. CASE DropPacket \/ ForwardPacket
  <2>1. /\ pc = "inspect" /\ pc' = "read" /\ UNCHANGED <<total_packets, seen>> /\ Tracked(Stage)
        /\ \/ dropped' = dropped + 1 /\ forwarded' = forwarded
           \/ forwarded' = forwarded + 1 /\ dropped' = dropped
    BY <1>3 DEF DropPacket, ForwardPacket, Track
  <2>2. forwarded' + dropped' = forwarded + dropped + 1
    BY <1>0, <2>1
  <2> QED
    BY <2>1, <2>2, DoneTold
<1>4. CASE ~(\E r \in Records : ReadPacket(r)) /\ ~SkipPacket /\ ~(DropPacket \/ ForwardPacket)
  <2>1. /\ UNCHANGED <<total_packets, forwarded, dropped, seen>>
        /\ pc' = "inspect" <=> pc = "inspect"
        /\ pc' = "inspect" => packet' = packet
    BY <1>4 DEF Next, UsageError, BeginArguments, BlockIP, BlockApp, BlockDomain, ExportJson,
      IgnoreOption, Option, OpenInput, OpenInputFails, OpenOutput, OpenOutputFails, ReadEnds,
      Report, Exited, vars, counters, readerVars
  <2>2. Worth' = Worth
    BY <2>1 DEF Worth, DoneWith, WorthTracking
  <2> QED
    BY <2>1, <2>2 DEF RecordsTold
<1> QED
  BY <1>1, <1>2, <1>3, <1>4

\* so it is kept in every run.
LEMMA ToldHolds == Spec => []RecordsTold
<1>1. Init => RecordsTold
  <2> SUFFICES ASSUME Init PROVE RecordsTold
    OBVIOUS
  <2>1. total_packets = 0 /\ forwarded = 0 /\ dropped = 0 /\ Len(seen) = 0 /\ pc = "start"
    BY DEF Init
  <2>2. Worth = {}
    BY <2>1 DEF Worth, DoneWith
  <2>3. Cardinality({}) = 0
    BY FS_EmptySet
  <2> QED
    BY <2>1, <2>2, <2>3 DEF RecordsTold
<1>2. TypeOK /\ RecordsTold /\ [Next]_vars /\ TypeOK' => RecordsTold'
  BY ToldNext
<1> QED
  BY <1>1, <1>2, TypesCorrect, PTL DEF Spec

\* The total has every record read, the other counters every record but those that
\* the two `continue`s pass over, and the packets of every flow and of every
\* application add to the same story (sentry_engine_simple 149-282), though each is
\* counted in a place of its own and the tables make entries as they are asked for.
THEOREM CountersTell == Spec => []CountersAgree
BY CountsHold, ToldHolds, SameCounters, PTL

-----------------------------------------------------------------------------
(* The output capture. *)

\* The output's header is the one the input was opened with, and says of the
\* input's byte order what it was: `open` leaves the magic number as it found it.
HeaderCopied ==
    /\ pc \in {"open_output", "read", "inspect", "report"} \/ history # <<>> =>
          (NeedsByteSwap(global_header) <=> disk.order = "swapped")
    /\ pc \in {"read", "inspect", "report"} \/ history # <<>> => output.header = global_header

\* A packet that is inspected has a length the reader accepts, and that many bytes.
PacketAccepted ==
    pc = "inspect" => /\ LengthAccepted(global_header, packet.header)
                      /\ WordOf(packet.data.size) = packet.header.incl_len

\* A record of the output that a reader in this host's order takes for the packet.
StandsFor(record, p) ==
    /\ record.header \in PacketHeader
    /\ LengthAccepted(global_header, record.header)
    /\ record.header.incl_len = WordOf(record.data.size)
    /\ record.header.ts_sec = p.header.ts_sec
    /\ record.data = p.data

\* Every forwarded packet has its record, at its place.
RecordsStand ==
    \A i \in 1 .. Len(history) :
        WasForwarded(i) => StandsFor(output.records[Turn(i)], history[i].packet)

OutputInv == HeaderCopied /\ PacketAccepted /\ RecordsStand

\* The place of a forwarded packet is one of the places in the output.
LEMMA TurnInside ==
    ASSUME TypeOK, CountsAgree, NEW i \in 1 .. Len(history), WasForwarded(i)
    PROVE  Turn(i) \in 1 .. Len(output.records)
<1> DEFINE S == {j \in 1 .. i : WasForwarded(j)}
           T == Fated("forwarded")
<1>1. Len(history) \in Nat /\ i \in Nat
  BY DEF TypeOK, TableTypeOK
<1>2. IsFiniteSet(1 .. Len(history))
  BY <1>1, FS_Interval
<1>3. T \in SUBSET (1 .. Len(history)) /\ S \in SUBSET T /\ i \in S
  BY <1>1 DEF Fated, WasForwarded
<1>4. IsFiniteSet(T)
  BY <1>2, <1>3, FS_Subset
<1>5. IsFiniteSet(S) /\ Cardinality(S) <= Cardinality(T)
  BY <1>3, <1>4, FS_Subset
<1>6. Cardinality(S) \in Nat /\ Cardinality(T) \in Nat
  BY <1>4, <1>5, FS_CardinalityType
<1>7. Cardinality(S) # 0
  BY <1>3, <1>5, FS_EmptySet
<1>8. Cardinality(T) = Len(output.records)
  BY DEF CountsAgree
<1>9. Turn(i) = Cardinality(S)
  BY DEF Turn
<1> HIDE DEF S, T
<1> QED
  BY <1>5, <1>6, <1>7, <1>8, <1>9

\* A packet leaves the places of the earlier ones alone, and takes the next one
\* if it is forwarded.
LEMMA TurnsTaken ==
    ASSUME TypeOK, CountsAgree, NEW fate, TracksPacket(fate)
    PROVE  /\ \A i \in 1 .. Len(history) : /\ Turn(i)' = Turn(i)
                                           /\ WasForwarded(i)' <=> WasForwarded(i)
           /\ \A i : i = Len(history) + 1 =>
                 /\ WasForwarded(i)' <=> fate = "forwarded"
                 /\ fate = "forwarded" => Turn(i)' = Len(output.records) + 1
<1> DEFINE n == Len(history)
<1>1. /\ n \in Nat /\ Len(history') = n + 1
      /\ \A i \in 1 .. n : history'[i] = history[i]
      /\ history'[n + 1].fate = fate
  <2>1. Entry(ThisKey, ThisFlow, fate).fate = fate
    BY DEF Entry
  <2> QED
    BY <2>1, TrackedTables
<1>2. ASSUME NEW i \in 1 .. n PROVE Turn(i)' = Turn(i) /\ (WasForwarded(i)' <=> WasForwarded(i))
  <2>1. \A j \in 1 .. i : history'[j].fate = history[j].fate
    BY <1>1
  <2>2. {j \in 1 .. i : history'[j].fate = "forwarded"} = {j \in 1 .. i : history[j].fate = "forwarded"}
    BY <2>1
  <2> QED
    BY <1>1, <2>2 DEF Turn, WasForwarded
<1>3. ASSUME NEW i, i = n + 1, fate = "forwarded" PROVE Turn(i)' = Len(output.records) + 1
  <2>1. Turn(i)' = Cardinality(Fated("forwarded")')
    BY <1>1, <1>3 DEF Turn, WasForwarded, Fated
  <2>2. Cardinality(Fated("forwarded")') = Cardinality(Fated("forwarded")) + 1
    BY <1>3, CountsGrow
  <2> QED
    BY <2>1, <2>2 DEF CountsAgree
<1> QED
  BY <1>1, <1>2, <1>3 DEF WasForwarded

\* The record of a forwarded packet stands for it.
LEMMA RecordWritten ==
    ASSUME TypeOK, PacketAccepted, pc = "inspect"
    PROVE  StandsFor([header |-> OutputHeader, data |-> packet.data], packet)
<1> DEFINE w == WordOf(packet.data.size)
<1>1. OutputHeader \in PacketHeader
  BY OutputHeaderType DEF TypeOK
<1>2. packet.header \in PacketHeader
  BY DEF TypeOK, ReaderTypeOK, RawPacketOf
<1>3. OutputHeader = [packet.header EXCEPT !.incl_len = w, !.orig_len = w]
  BY DEF OutputHeader
<1>4. w = packet.header.incl_len /\ LengthAccepted(global_header, packet.header)
  BY DEF PacketAccepted
<1> HIDE DEF w
<1>5. OutputHeader.incl_len = w /\ OutputHeader.ts_sec = packet.header.ts_sec
  BY <1>2, <1>3 DEF PacketHeader
<1>6. LengthAccepted(global_header, OutputHeader)
  BY <1>4, <1>5 DEF LengthAccepted
<1> QED
  BY <1>1, <1>5, <1>6 DEF StandsFor, w

\* The reader's header changes only where the input is opened.
LEMMA HeaderStays ==
    ASSUME TypeOK, [Next]_vars, pc # "arguments"
    PROVE  global_header' = global_header /\ disk'.order = disk.order
<1>1. /\ \A x : [disk EXCEPT !.record = x].order = disk.order
      /\ \A at : [disk EXCEPT !.record = NoPacketHeader, !.at = at].order = disk.order
  BY DEF TypeOK, ReaderTypeOK
<1>2. ASSUME NEW r \in Records, ReadPacket(r)
      PROVE  global_header' = global_header /\ disk'.order = disk.order
  <2>1. disk' = [disk EXCEPT !.record = Meant(r)] /\ global_header' = global_header
    BY <1>2 DEF ReadPacket, readNextPacket
  <2> QED
    BY <1>1, <2>1
<1>3. CASE ReadEnds
  <2>1. /\ global_header' = global_header
        /\ (\E at : Stands(at)) \/ disk' = disk
    BY <1>3 DEF ReadEnds, readFails, lengthRefused, dataCutShort, headerCutShort, fileEnds,
      nothingToRead, readerVars
  <2>2. ASSUME NEW at, Stands(at) PROVE disk'.order = disk.order
    <3>1. disk' = [disk EXCEPT !.record = NoPacketHeader, !.at = at]
      BY <2>2 DEF Stands
    <3> QED
      BY <1>1, <3>1
  <2> QED
    BY <2>1, <2>2
<1>4. CASE ~(\E r \in Records : ReadPacket(r)) /\ ~ReadEnds
  BY <1>4 DEF Next, UsageError, BeginArguments, BlockIP, BlockApp, BlockDomain, ExportJson,
    IgnoreOption, Option, OpenInput, OpenInputFails, OpenOutput, OpenOutputFails, SkipPacket,
    DropPacket, ForwardPacket, Track, Report, close, Exited, vars, readerVars
<1> QED
  BY <1>2, <1>3, <1>4

\* Every step keeps the headers in agreement,
LEMMA HeaderNext ==
    ASSUME TypeOK, SourceInv, HeaderCopied, [Next]_vars
    PROVE  HeaderCopied'
<1>1. ASSUME NEW c \in Captures, OpenInput(c) PROVE HeaderCopied'
  <2> DEFINE found == StoredGlobalHeader(c.order, c.header)
  <2>1. /\ found.magic_number \in {PCAP_MAGIC_NATIVE, PCAP_MAGIC_SWAPPED}
        /\ global_header' = DecodeGlobalHeader(found)
        /\ disk' = [order |-> c.order, header |-> c.header, record |-> NoPacketHeader,
                     at |-> "record"]
        /\ pc = "arguments" /\ pc' = "open_output" /\ history' = history
    BY <1>1 DEF OpenInput, open, tables
  <2>2. NeedsByteSwap(found) <=> c.order = "swapped"
    BY <2>1, OrderFound
  <2>3. found \in GlobalHeader
    BY CapturesAssumption, HeaderTypes
  <2> HIDE DEF found
  <2>4. DecodeGlobalHeader(found).magic_number = found.magic_number
    BY <2>3 DEF DecodeGlobalHeader, GlobalHeader
  <2>5. NeedsByteSwap(global_header') <=> disk'.order = "swapped"
    BY <2>1, <2>2, <2>4 DEF NeedsByteSwap
  <2>6. history' = <<>>
    BY <2>1 DEF SourceInv, NothingWritten
  <2> QED
    BY <2>1, <2>5, <2>6 DEF HeaderCopied
<1>2. CASE pc = "arguments" /\ ~\E c \in Captures : OpenInput(c)
  <2>1. history' = <<>> /\ pc' \in {"arguments", "exit"}
    BY <1>2 DEF SourceInv, NothingWritten, Next, UsageError, BeginArguments, BlockIP, BlockApp,
      BlockDomain, ExportJson, IgnoreOption, Option, OpenInputFails, OpenOutput, OpenOutputFails,
      ReadPacket, ReadEnds, SkipPacket, DropPacket, ForwardPacket, Track, Report, Exited, vars, tables
  <2> QED
    BY <2>1 DEF HeaderCopied
<1>3. CASE pc # "arguments"
  <2>1. /\ global_header' = global_header /\ disk'.order = disk.order
        /\ NeedsByteSwap(global_header') <=> NeedsByteSwap(global_header)
    BY <1>3, HeaderStays
  <2>2. CASE OpenOutput
    BY <2>1, <2>2 DEF OpenOutput, HeaderCopied, SourceInv, NothingWritten, tables
  <2>3. CASE ~OpenOutput
    <3>1. /\ pc' \in {"open_output", "read", "inspect", "report"} \/ history' # <<>> =>
                pc \in {"open_output", "read", "inspect", "report"} \/ history # <<>>
          /\ pc' \in {"read", "inspect", "report"} \/ history' # <<>> =>
                pc \in {"read", "inspect", "report"} \/ history # <<>>
          /\ output'.header = output.header
      <4>1. \A x : [output EXCEPT !.records = x].header = output.header
        BY DEF TypeOK, OutcomeTypeOK
      <4> QED
        BY <1>3, <2>3, <4>1 DEF Next, UsageError, BeginArguments, BlockIP, BlockApp, BlockDomain,
          ExportJson, IgnoreOption, Option, OpenInput, OpenInputFails, OpenOutputFails,
          ReadPacket, ReadEnds, SkipPacket, DropPacket, ForwardPacket, Track, Report, Exited, vars,
          tables
    <3> QED
      BY <2>1, <3>1 DEF HeaderCopied
  <2> QED
    BY <2>2, <2>3
<1> QED
  BY <1>1, <1>2, <1>3

\* reads what the inspection may rely on,
LEMMA AcceptedNext ==
    ASSUME TypeOK, SourceInv, PacketAccepted, [Next]_vars
    PROVE  PacketAccepted'
<1>1. ASSUME NEW r \in Records, ReadPacket(r) PROVE PacketAccepted'
  <2>1. packet'.header = r.header /\ HeaderRead(r) = r.header
    BY <1>1, ReadFromDisk DEF ReadPacket, SourceInv, ReadsInStep, readNextPacket
  <2>2. /\ LengthAccepted(global_header, packet'.header)
        /\ packet'.data.size = packet'.header.incl_len.lo
        /\ UNCHANGED global_header
    BY <1>1 DEF ReadPacket, readNextPacket
  <2>3. r.header.incl_len \in Word
    BY RecordsTyped DEF PacketHeader
  <2>4. WordOf(r.header.incl_len.lo) = r.header.incl_len
    BY <2>1, <2>2, <2>3, AcceptedLength DEF LengthAccepted
  <2> QED
    BY <2>1, <2>2, <2>4 DEF PacketAccepted
<1>2. CASE ~\E r \in Records : ReadPacket(r)
  <2>1. pc' = "inspect" => pc = "inspect" /\ packet' = packet /\ global_header' = global_header
    BY <1>2 DEF Next, UsageError, BeginArguments, BlockIP, BlockApp, BlockDomain, ExportJson,
      IgnoreOption, Option, OpenInput, OpenInputFails, OpenOutput, OpenOutputFails, ReadEnds,
      SkipPacket, DropPacket, ForwardPacket, Track, Report, Exited, vars, readerVars
  <2> QED
    BY <2>1 DEF PacketAccepted
<1> QED
  BY <1>1, <1>2

\* and writes records that stand for the packets.
LEMMA RecordsNext ==
    ASSUME TypeOK, SourceInv, CountsAgree, OutputInv, [Next]_vars
    PROVE  RecordsStand'
<1>1. ASSUME NEW fate \in {"forwarded", "dropped"}, TracksPacket(fate) PROVE RecordsStand'
  <2> DEFINE n == Len(history)
             r == [header |-> OutputHeader, data |-> packet.data]
  <2>1. /\ n \in Nat /\ Len(history') = n + 1
        /\ \A i \in 1 .. n : history'[i] = history[i]
        /\ history'[n + 1] = Entry(ThisKey, ThisFlow, fate)
        /\ 1 .. n + 1 = (1 .. n) \cup {n + 1}
    BY <1>1, TrackedTables
  <2>2. /\ \A i \in 1 .. n : Turn(i)' = Turn(i) /\ (WasForwarded(i)' <=> WasForwarded(i))
        /\ \A i : i = n + 1 => /\ WasForwarded(i)' <=> fate = "forwarded"
                               /\ fate = "forwarded" => Turn(i)' = Len(output.records) + 1
    BY <1>1, TurnsTaken
  <2>3. pc = "inspect" /\ "forwarded" # "dropped"
    BY <1>1 DEF TracksPacket
  <2>4. global_header' = global_header
    BY <2>3, HeaderStays
  <2>5. output.records \in Seq([header : PacketHeader, data : Data])
    BY DEF TypeOK, OutcomeTypeOK
  <2>6. fate = "forwarded" => output.records' = Append(output.records, r)
    BY <1>1 DEF TracksPacket, TypeOK, OutcomeTypeOK
  <2>7. fate = "dropped" => output' = output
    BY <1>1 DEF TracksPacket
  <2>8. StandsFor(r, packet)
    BY <2>3, RecordWritten DEF OutputInv
  <2>9. Entry(ThisKey, ThisFlow, fate).packet = packet
    BY DEF Entry
  <2> HIDE DEF r, n
  <2>10. /\ \A m \in 1 .. Len(output.records) : output.records'[m] = output.records[m]
         /\ fate = "forwarded" => output.records'[Len(output.records) + 1] = r
    BY <1>1, <2>5, <2>6, <2>7
  <2>11. \A x, p : StandsFor(x, p)' <=> StandsFor(x, p)
    BY <2>4 DEF StandsFor
  <2>12. ASSUME NEW i \in 1 .. n, WasForwarded(i)'
         PROVE  StandsFor(output.records'[Turn(i)'], history'[i].packet)
    <3>1. WasForwarded(i) /\ Turn(i)' = Turn(i)
      BY <2>2, <2>12
    <3>2. StandsFor(output.records[Turn(i)], history[i].packet)
      BY <3>1 DEF OutputInv, RecordsStand, n
    <3>3. Turn(i) \in 1 .. Len(output.records)
      BY <3>1, TurnInside DEF n
    <3> QED
      BY <2>1, <2>10, <3>1, <3>2, <3>3
  <2>13. ASSUME NEW i, i = n + 1, WasForwarded(i)'
         PROVE  StandsFor(output.records'[Turn(i)'], history'[i].packet)
    <3>1. fate = "forwarded" /\ Turn(i)' = Len(output.records) + 1
      BY <2>2, <2>13
    <3> QED
      BY <2>1, <2>8, <2>9, <2>10, <2>13, <3>1
  <2>14. \A i \in 1 .. Len(history') :
            WasForwarded(i)' => StandsFor(output.records'[Turn(i)'], history'[i].packet)
    BY <2>1, <2>12, <2>13
  <2> QED
    BY <2>4, <2>14 DEF RecordsStand, StandsFor
<1>2. CASE TracksNothing
  <2>1. history' = history /\ output.records' = output.records
    BY <1>2 DEF TracksNothing, OpenOutput, SourceInv, NothingWritten
  <2>2. CASE pc = "arguments"
    BY <2>1, <2>2 DEF SourceInv, NothingWritten, RecordsStand
  <2>3. CASE pc # "arguments"
    <3>1. global_header' = global_header
      BY <2>3, HeaderStays
    <3> QED
      BY <2>1, <3>1 DEF OutputInv, RecordsStand, StandsFor, WasForwarded, Turn
  <2> QED
    BY <2>2, <2>3
<1> QED
  BY <1>1, <1>2, TracksOrNot

\* So the output holds in every run.
LEMMA OutputHolds == Spec => []OutputInv
<1>1. Init => OutputInv
  BY DEF Init, OutputInv, HeaderCopied, PacketAccepted, RecordsStand
<1>2. TypeOK /\ SourceInv /\ CountsAgree /\ OutputInv /\ [Next]_vars => OutputInv'
  <2> SUFFICES ASSUME TypeOK, SourceInv, CountsAgree, OutputInv, [Next]_vars PROVE OutputInv'
    OBVIOUS
  <2>1. HeaderCopied'
    BY HeaderNext DEF OutputInv
  <2>2. PacketAccepted'
    BY AcceptedNext DEF OutputInv
  <2>3. RecordsStand'
    BY RecordsNext
  <2> QED
    BY <2>1, <2>2, <2>3 DEF OutputInv
<1> QED
  BY <1>1, <1>2, TypesCorrect, SourceInvHolds, CountsHold, PTL DEF Spec

\* In this host's order, headers are read as they are written.
LEMMA NativeIsRead ==
    /\ \A h : ~NeedsByteSwap(h) /\ h \in GlobalHeader => DecodeGlobalHeader(h) = h
    /\ \A h \in PacketHeader : DecodePacketHeader(FALSE, h) = h
<1>1. ASSUME NEW h \in GlobalHeader, ~NeedsByteSwap(h) PROVE DecodeGlobalHeader(h) = h
  BY <1>1 DEF DecodeGlobalHeader, maybeSwap32, GlobalHeader
<1>2. ASSUME NEW h \in PacketHeader PROVE DecodePacketHeader(FALSE, h) = h
  BY DEF DecodePacketHeader, maybeSwap32, PacketHeader
<1> QED
  BY <1>1, <1>2

\* The output is a capture again: for an input in this host's byte order, the
\* reader accepts every record of it and delivers the forwarded packets, all of
\* them and in order (sentry_engine_simple 132-150, 268-281), however many there
\* are and whatever they carry.
THEOREM OutputIsCapture == Spec => []OutputReadsBack
<1>1. TypeOK /\ CountsAgree /\ OutputInv => OutputReadsBack
  <2> SUFFICES ASSUME TypeOK, CountsAgree, OutputInv, disk.order = "native" PROVE ReadsBack
    BY DEF OutputReadsBack
  <2>1. Len(output.records) = Turn(Len(history))
    BY DEF CountsAgree, Turn, Fated, WasForwarded
  <2>2. ASSUME NEW i \in 1 .. Len(history), WasForwarded(i)
        PROVE  LET read == DecodePacketHeader(NeedsByteSwap(output.header), output.records[Turn(i)].header)
               IN  /\ LengthAccepted(DecodeGlobalHeader(output.header), read)
                   /\ read.incl_len = WordOf(output.records[Turn(i)].data.size)
                   /\ read.ts_sec = history[i].packet.header.ts_sec
                   /\ output.records[Turn(i)].data = history[i].packet.data
    <3>1. history # <<>>
      BY DEF TypeOK, TableTypeOK
    <3>2. output.header = global_header /\ ~NeedsByteSwap(global_header)
      BY <3>1 DEF OutputInv, HeaderCopied
    <3>3. DecodeGlobalHeader(output.header) = global_header
      BY <3>2, NativeIsRead DEF TypeOK, ReaderTypeOK
    <3>4. NeedsByteSwap(output.header) = FALSE
      BY <3>2 DEF NeedsByteSwap
    <3>5. StandsFor(output.records[Turn(i)], history[i].packet)
      BY <2>2 DEF OutputInv, RecordsStand
    <3>6. DecodePacketHeader(FALSE, output.records[Turn(i)].header) = output.records[Turn(i)].header
      BY <3>5, NativeIsRead DEF StandsFor
    <3> QED
      BY <3>3, <3>4, <3>5, <3>6 DEF StandsFor
  <2> QED
    BY <2>1, <2>2 DEF ReadsBack
<1> QED
  BY <1>1, TypesCorrect, CountsHold, OutputHolds, PTL

-----------------------------------------------------------------------------
(* The flows, each as the packets of its connection alone make it. *)

\* What a packet of the history does to the flow of a connection that is looked at alone.
Alone(c, fates, entry, before) ==
    LET d == entry.packet.data
        p == parse(d, FreshPacket).packet
    IN  IF Connection(d) = c /\ entry.fate \in fates
        THEN Judged(Classify(Counted(before, d), p, d), KeyOf(p))
        ELSE before

\* The equation of the recursive function in Replay.
Unfolds(flow, c, fates) ==
    flow = [n \in 0 .. Len(history) |->
               IF n = 0 THEN NewFlow ELSE Alone(c, fates, history[n], flow[n - 1])]

\* It has one solution.
ReplayDefined ==
    \A c, fates : /\ \E f : Unfolds(f, c, fates)
                  /\ \A f, g : Unfolds(f, c, fates) /\ Unfolds(g, c, fates) => f = g

\* so that Replay is its value at the end.
LEMMA ReplayUnfolds ==
    ASSUME ReplayDefined, NEW c, NEW fates
    PROVE  \E f : Unfolds(f, c, fates) /\ Replay(c, fates) = f[Len(history)]
<1> DEFINE g == CHOOSE f : Unfolds(f, c, fates)
<1>1. Unfolds(g, c, fates)
  BY DEF ReplayDefined
<1>2. Replay(c, fates) = g[Len(history)]
  BY DEF Replay, Unfolds, Alone
<1> QED
  BY <1>1, <1>2

\* The packet at hand, as the history will have it.
ThisEntry(fate) == Entry(ThisKey, ThisFlow, fate)

\* The rules do not change with a packet, and so neither does what it is judged by.
LEMMA AloneStays ==
    ASSUME rules' = rules
    PROVE  \A c, fates, entry, before : Alone(c, fates, entry, before)' = Alone(c, fates, entry, before)
BY DEF Alone, Judged

\* A packet makes every solution longer by one.
LEMMA UnfoldsLonger ==
    ASSUME TypeOK, ReplayDefined, NEW fate, TracksPacket(fate), NEW c, NEW fates,
           NEW f, Unfolds(f, c, fates)
    PROVE  \A g : Unfolds(g, c, fates)' <=>
              g = [n \in 0 .. Len(history) + 1 |->
                      IF n = Len(history) + 1
                      THEN Alone(c, fates, ThisEntry(fate), f[Len(history)]) ELSE f[n]]
<1> DEFINE m == Len(history)
           last == ThisEntry(fate)
           longer == [n \in 0 .. m + 1 |->
                         IF n = m + 1 THEN Alone(c, fates, last, f[m]) ELSE f[n]]
           E(h, k, n) == IF n = 0 THEN NewFlow ELSE Alone(c, fates, h[n], k[n - 1])
<1>1. /\ m \in Nat /\ Len(history') = m + 1
      /\ \A i \in 1 .. m : history'[i] = history[i]
      /\ history'[m + 1] = last
  BY TrackedTables DEF ThisEntry
<1>2. /\ \A g : Unfolds(g, c, fates) <=> g = [n \in 0 .. m |-> E(history, g, n)]
      /\ \A g : Unfolds(g, c, fates)' <=> g = [n \in 0 .. m + 1 |-> E(history', g, n)]
  <2>1. rules' = rules
    BY DEF TracksPacket, Track, commandLine
  <2> QED
    BY <1>1, <2>1, AloneStays DEF Unfolds
<1> HIDE DEF last
<1>3. /\ \A n \in 0 .. m : n \in 0 .. m + 1 /\ n # m + 1 /\ n - 1 # m + 1
      /\ \A n \in 0 .. m : n # 0 => n \in 1 .. m /\ n - 1 \in 0 .. m
      /\ m + 1 \in 0 .. m + 1 /\ m \in 0 .. m /\ m + 1 # 0 /\ (m + 1) - 1 = m
      /\ \A n \in 0 .. m + 1 : n \in 0 .. m \/ n = m + 1
  BY <1>1
<1>4. f = [n \in 0 .. m |-> E(history, f, n)]
  BY <1>2
<1>5. \A k, n : n \in 0 .. m => E(history', k, n) = E(history, k, n)
  BY <1>1, <1>3
<1>6. \A k : E(history', k, m + 1) = Alone(c, fates, last, k[m])
  BY <1>1, <1>3
<1>7. \A k, l, n : n \in 0 .. m /\ (\A i \in 0 .. m : k[i] = l[i]) => E(history, k, n) = E(history, l, n)
  BY <1>3
<1> HIDE DEF m, E
<1>8. longer = [n \in 0 .. m + 1 |-> E(history', longer, n)]
  <2>1. \A i \in 0 .. m : longer[i] = f[i]
    BY <1>3
  <2>2. \A n \in 0 .. m : E(history', longer, n) = f[n]
    <3> TAKE n \in 0 .. m
    <3>1. E(history', longer, n) = E(history, longer, n)
      BY <1>5
    <3>2. E(history, longer, n) = E(history, f, n)
      BY <1>7, <2>1
    <3>3. f[n] = E(history, f, n)
      BY <1>4
    <3> QED
      BY <3>1, <3>2, <3>3
  <2>3. E(history', longer, m + 1) = Alone(c, fates, last, f[m])
    BY <1>3, <1>6, <2>1
  <2>4. \A n \in 0 .. m + 1 : E(history', longer, n) = longer[n]
    BY <1>3, <2>1, <2>2, <2>3
  <2> QED
    BY <2>4
<1>9. ASSUME NEW g, g = [n \in 0 .. m + 1 |-> E(history', g, n)] PROVE g = longer
  <2> DEFINE part == [n \in 0 .. m |-> g[n]]
  <2>1. \A n \in 0 .. m : g[n] = E(history, g, n)
    BY <1>3, <1>5, <1>9
  <2>2. \A n \in 0 .. m : E(history, part, n) = E(history, g, n)
    BY <1>7
  <2>3. part = [n \in 0 .. m |-> E(history, part, n)]
    BY <2>1, <2>2
  <2>4. part = f
    <3> HIDE DEF part
    <3> QED
      BY <1>2, <2>3 DEF ReplayDefined
  <2>5. \A n \in 0 .. m : g[n] = f[n]
    BY <2>4
  <2>6. g[m + 1] = Alone(c, fates, last, f[m])
    BY <1>3, <1>6, <1>9, <2>5
  <2>7. \A n \in 0 .. m + 1 : g[n] = longer[n]
    BY <1>3, <2>5, <2>6
  <2>8. g = [n \in 0 .. m + 1 |-> g[n]]
    BY <1>9
  <2> QED
    BY <2>7, <2>8
<1> HIDE DEF longer
<1>10. \A g : Unfolds(g, c, fates)' <=> g = longer
  BY <1>2, <1>8, <1>9
<1> QED
  BY <1>10 DEF longer, m, last

\* A packet moves the flow of its own connection on, if its fate is one of those looked
\* at, and no other.
LEMMA ReplayMovesOn ==
    ASSUME TypeOK, ReplayDefined, NEW fate, TracksPacket(fate)
    PROVE  /\ ReplayDefined'
           /\ \A c, fates : Replay(c, fates)' = Alone(c, fates, ThisEntry(fate), Replay(c, fates))
<1> DEFINE m == Len(history)
<1>1. m \in Nat /\ Len(history') = m + 1
  BY TrackedTables
<1>2. ASSUME NEW c, NEW fates
      PROVE  /\ \E f : Unfolds(f, c, fates)'
             /\ \A f, g : Unfolds(f, c, fates)' /\ Unfolds(g, c, fates)' => f = g
  <2>1. PICK f : Unfolds(f, c, fates)
    BY DEF ReplayDefined
  <2> DEFINE longer == [n \in 0 .. m + 1 |->
                           IF n = m + 1 THEN Alone(c, fates, ThisEntry(fate), f[m]) ELSE f[n]]
  <2>2. \A g : Unfolds(g, c, fates)' <=> g = longer
    BY <2>1, UnfoldsLonger
  <2> HIDE DEF longer
  <2> QED
    BY <2>2
<1>3. ReplayDefined'
  BY <1>2 DEF ReplayDefined
<1>4. ASSUME NEW c, NEW fates
      PROVE  Replay(c, fates)' = Alone(c, fates, ThisEntry(fate), Replay(c, fates))
  <2>1. PICK f : Unfolds(f, c, fates) /\ Replay(c, fates) = f[m]
    BY ReplayUnfolds
  <2> DEFINE longer == [n \in 0 .. m + 1 |->
                           IF n = m + 1 THEN Alone(c, fates, ThisEntry(fate), f[m]) ELSE f[n]]
  <2>2. \A g : Unfolds(g, c, fates)' <=> g = longer
    BY <2>1, UnfoldsLonger
  <2>3. \E g : Unfolds(g, c, fates)' /\ Replay(c, fates)' = g[Len(history')]
    <3>1. Replay(c, fates)' = (CHOOSE g : Unfolds(g, c, fates)')[Len(history')]
      BY DEF Replay, Unfolds, Alone
    <3> QED
      BY <1>2, <3>1
  <2>4. Replay(c, fates)' = longer[m + 1]
    BY <1>1, <2>2, <2>3
  <2>5. longer[m + 1] = Alone(c, fates, ThisEntry(fate), f[m])
    BY <1>1
  <2> QED
    BY <2>1, <2>4, <2>5
<1> QED
  BY <1>3, <1>4

AllFates == {"forwarded", "dropped"}

\* In the table every flow is what the packets of its connection alone have made of
\* it; a flow the table does not hold had none.
FlowsAlone == \A d \in Data : FlowAt(WireKey(d)) = Replay(Connection(d), AllFates)

\* The forwarded packets alone make the flow that the table has of the connection,
\* until it is blocked, and then no more come.
FilteredFlows ==
    \A d \in Data :
        LET again == Replay(Connection(d), {"forwarded"})
        IN  /\ ~again.blocked
            /\ FlowAt(WireKey(d)).blocked \/ again = FlowAt(WireKey(d))

\* A packet keeps both so.
LEMMA AloneNext ==
    ASSUME TypeOK, ReplayDefined, FlowsAlone, FilteredFlows, NEW fate \in AllFates, TracksPacket(fate)
    PROVE  FlowsAlone' /\ FilteredFlows'
<1> DEFINE e == packet.data
           p == Stage.packet
<1>1. /\ e \in Data /\ ThisFlow \in Flow /\ ThisKey = WireKey(e)
      /\ DOMAIN flows' = DOMAIN flows \cup {ThisKey}
      /\ flows'[ThisKey] = ThisFlow
      /\ \A k \in DOMAIN flows : k # ThisKey => flows'[k] = flows[k]
  BY TrackedTables
<1>2. p = parse(e, FreshPacket).packet
  BY DEF Stage, parse
<1>3. ThisEntry(fate).packet = packet /\ ThisEntry(fate).fate = fate
  BY DEF ThisEntry, Entry
<1>4. ThisFlow = Judged(Classify(Counted(FlowAt(ThisKey), e), p, e), ThisKey) /\ ThisKey = KeyOf(p)
  BY DEF ThisFlow, ThisKey, Inspected
<1>5. /\ ThisFlow.blocked <=> fate = "dropped"
      /\ FlowAt(ThisKey).blocked => ThisFlow.blocked
  <2>1. Inspected(ThisKey, p, e) = ThisFlow
    BY DEF ThisFlow
  <2>2. FlowAt(ThisKey).blocked => Inspected(ThisKey, p, e).blocked
    BY <1>1, InspectedType DEF TypeOK
  <2> QED
    BY <2>1, <2>2 DEF TracksPacket
<1>6. \A c, fates : Replay(c, fates)' =
          IF Connection(e) = c /\ fate \in fates
          THEN Judged(Classify(Counted(Replay(c, fates), e), p, e), ThisKey)
          ELSE Replay(c, fates)
  BY <1>2, <1>3, <1>4, ReplayMovesOn DEF Alone
<1>7. \A d \in Data : /\ WireKey(d) = ThisKey <=> Connection(e) = Connection(d)
                      /\ FlowAt(WireKey(d))' = IF WireKey(d) = ThisKey THEN ThisFlow ELSE FlowAt(WireKey(d))
  <2>1. ASSUME NEW k PROVE FlowAt(k)' = IF k = ThisKey THEN ThisFlow ELSE FlowAt(k)
    BY <1>1 DEF FlowAt
  <2> QED
    BY <1>1, <2>1, KeysTellConnections
<1> HIDE DEF e, p
<1>8. ASSUME NEW d \in Data PROVE FlowAt(WireKey(d))' = Replay(Connection(d), AllFates)'
  <2>1. FlowAt(WireKey(d)) = Replay(Connection(d), AllFates)
    BY DEF FlowsAlone
  <2> QED
    BY <1>4, <1>6, <1>7, <2>1
<1>9. ASSUME NEW d \in Data
      PROVE  LET again == Replay(Connection(d), {"forwarded"})'
             IN  /\ ~again.blocked
                 /\ FlowAt(WireKey(d))'.blocked \/ again = FlowAt(WireKey(d))'
  <2> DEFINE again == Replay(Connection(d), {"forwarded"})
  <2>1. ~again.blocked /\ (FlowAt(WireKey(d)).blocked \/ again = FlowAt(WireKey(d)))
    BY DEF FilteredFlows
  <2>2. again' = IF Connection(e) = Connection(d) /\ fate = "forwarded"
                 THEN Judged(Classify(Counted(again, e), p, e), ThisKey) ELSE again
    BY <1>6
  <2>3. CASE WireKey(d) = ThisKey /\ fate = "forwarded"
    BY <1>4, <1>5, <1>7, <2>1, <2>2, <2>3
  <2>4. CASE WireKey(d) = ThisKey /\ fate = "dropped"
    BY <1>5, <1>7, <2>1, <2>2, <2>4
  <2>5. CASE WireKey(d) # ThisKey
    BY <1>7, <2>1, <2>2, <2>5
  <2> QED
    BY <2>3, <2>4, <2>5 DEF AllFates
<1> QED
  BY <1>8, <1>9 DEF FlowsAlone, FilteredFlows

\* Without a packet, either nothing was replayed yet or the rules are settled.
LEMMA ReplayStays ==
    ASSUME TypeOK, RulesComeFirst, ReplayDefined, [Next]_vars, TracksNothing
    PROVE  ReplayDefined' /\ \A c, fates : Replay(c, fates)' = Replay(c, fates)
<1>1. history' = history
  BY DEF TracksNothing
<1>2. history = <<>> \/ rules' = rules
  BY DEF RulesComeFirst, Next, UsageError, BeginArguments, BlockIP, BlockApp, BlockDomain,
    ExportJson, IgnoreOption, Option, OpenInput, OpenInputFails, OpenOutput, OpenOutputFails,
    ReadPacket, ReadEnds, SkipPacket, DropPacket, ForwardPacket, Track, Report, Exited, vars,
    commandLine
<1>3. \A f, c, fates : Unfolds(f, c, fates)' <=> Unfolds(f, c, fates)
  <2>1. CASE history = <<>>
    <3>1. 0 .. Len(history) = {0} /\ 0 .. Len(history') = {0}
      BY <1>1, <2>1
    <3> QED
      BY <3>1 DEF Unfolds
  <2>2. CASE rules' = rules
    BY <1>1, <2>2, AloneStays DEF Unfolds
  <2> QED
    BY <1>2, <2>1, <2>2
<1>4. ReplayDefined'
  BY <1>3 DEF ReplayDefined
<1>5. ASSUME NEW c, NEW fates PROVE Replay(c, fates)' = Replay(c, fates)
  <2>1. PICK f : Unfolds(f, c, fates) /\ Replay(c, fates) = f[Len(history)]
    BY ReplayUnfolds
  <2>2. \E g : Unfolds(g, c, fates)' /\ Replay(c, fates)' = g[Len(history')]
    <3>1. Replay(c, fates)' = (CHOOSE g : Unfolds(g, c, fates)')[Len(history')]
      BY DEF Replay, Unfolds, Alone
    <3> QED
      BY <1>4, <3>1 DEF ReplayDefined
  <2> QED
    BY <1>1, <1>3, <2>1, <2>2 DEF ReplayDefined
<1> QED
  BY <1>4, <1>5

\* They hold in every run.
LEMMA AloneHolds == Spec => [](ReplayDefined /\ FlowsAlone /\ FilteredFlows)
<1>1. Init => ReplayDefined /\ FlowsAlone /\ FilteredFlows
  <2> SUFFICES ASSUME Init PROVE ReplayDefined /\ FlowsAlone /\ FilteredFlows
    OBVIOUS
  <2>1. Len(history) = 0 /\ DOMAIN flows = {}
    BY DEF Init
  <2>2. \A f, c, fates : Unfolds(f, c, fates) <=> f = [n \in {0} |-> NewFlow]
    <3>1. 0 .. Len(history) = {0}
      BY <2>1
    <3> QED
      BY <3>1 DEF Unfolds
  <2>3. ReplayDefined
    BY <2>2 DEF ReplayDefined
  <2>4. \A c, fates : Replay(c, fates) = NewFlow
    BY <2>1, <2>2, <2>3, ReplayUnfolds
  <2>5. \A d \in Data : FlowAt(WireKey(d)) = NewFlow
    BY <2>1 DEF FlowAt
  <2> QED
    BY <2>3, <2>4, <2>5 DEF FlowsAlone, FilteredFlows, NewFlow
<1>2. BlockingInv /\ ReplayDefined /\ FlowsAlone /\ FilteredFlows /\ [Next]_vars
          => (ReplayDefined /\ FlowsAlone /\ FilteredFlows)'
  <2> SUFFICES ASSUME BlockingInv, ReplayDefined, FlowsAlone, FilteredFlows, [Next]_vars
               PROVE  (ReplayDefined /\ FlowsAlone /\ FilteredFlows)'
    OBVIOUS
  <2>1. TypeOK /\ RulesComeFirst
    BY DEF BlockingInv
  <2>2. ASSUME NEW fate \in AllFates, TracksPacket(fate)
        PROVE  ReplayDefined' /\ FlowsAlone' /\ FilteredFlows'
    BY <2>1, <2>2, ReplayMovesOn, AloneNext
  <2>3. CASE TracksNothing
    <3>1. ReplayDefined' /\ \A c, fates : Replay(c, fates)' = Replay(c, fates)
      BY <2>1, <2>3, ReplayStays
    <3>2. \A k : FlowAt(k)' = FlowAt(k)
      BY <2>3 DEF TracksNothing, FlowAt
    <3> QED
      BY <3>1, <3>2 DEF FlowsAlone, FilteredFlows
  <2> QED
    BY <2>2, <2>3, TracksOrNot DEF AllFates
<1> QED
  BY <1>1, <1>2, BlockingInductive, PTL DEF Spec

\* Flows do not leak into one another (sentry_engine_simple 165-266): name,
\* application, packets and bytes of every flow, and whether it is blocked, are what the
\* packets of its connection alone make of it, for every interleaving of the connections
\* and whatever they carry.
THEOREM FlowsIsolated == Spec => []FlowIsolation
<1>1. TypeOK /\ KeysRecorded /\ CountsAgree /\ FlowsAlone => FlowIsolation
  <2> SUFFICES ASSUME TypeOK, KeysRecorded, CountsAgree, FlowsAlone, NEW k \in DOMAIN flows
               PROVE  LET first == CHOOSE i \in 1 .. Len(history) : history[i].key = k
                      IN  flows[k] = Replay(Connection(history[first].packet.data), AllFates)
    BY DEF FlowIsolation, AllFates
  <2> DEFINE first == CHOOSE i \in 1 .. Len(history) : history[i].key = k
             d == history[first].packet.data
  <2>1. first \in 1 .. Len(history) /\ history[first].key = k
    BY DEF CountsAgree
  <2>2. d \in Data /\ WireKey(d) = k
    BY <2>1 DEF KeysRecorded
  <2> HIDE DEF d
  <2>3. flows[k] = Replay(Connection(d), AllFates)
    BY <2>2 DEF FlowsAlone, FlowAt
  <2> QED
    BY <2>3 DEF d
<1> QED
  BY <1>1, TypesCorrect, KeysHold, CountsHold, AloneHolds, PTL

\* What was filtered stays filtered (sentry_engine_simple 258-281): of the packets that
\* passed, no connection has any the same rules would drop, although those that were
\* dropped are missing from it.
THEOREM FilteredStaysFiltered == Spec => []FilteringAgainDropsNothing
<1>1. KeysRecorded /\ FilteredFlows => FilteringAgainDropsNothing
  BY DEF KeysRecorded, FilteredFlows, FilteringAgainDropsNothing
<1> QED
  BY <1>1, KeysHold, AloneHolds, PTL

=============================================================================
