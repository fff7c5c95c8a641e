--------------------------- MODULE FlowSentryEngine ---------------------------
(***************************************************************************)
(* main() of flow_sentry_simple (sentry_engine_simple): the arguments make *)
(* the rules, the capture is read packet by packet, every TCP or UDP       *)
(* packet is counted to its flow, the flow is classified and matched with  *)
(* the rules, and the packet is written to the output capture unless its   *)
(* flow is blocked.                                                        *)
(*                                                                         *)
(* The capture is revealed as it is read: each read meets a record that    *)
(* the environment picks from Records, or the end of the file.             *)
(***************************************************************************)
EXTENDS CaptureReader, SentryRules, FiniteSets

CONSTANTS
    IpTexts,        \* what may follow --block-ip
    AnyFrame,       \* the bytes of a buffer nothing was read into
    MaxOptions,     \* bound: options on the command line
    MaxPackets      \* bound: records read from the capture

RawPacket == RawPacketOf(Frame)

ASSUME RecordsAssumption ==
    Records \subseteq [header : PacketHeader, frame : Frame, extent : Extents]
ASSUME EngineAssumption ==
    /\ \A ip \in IpTexts : IsDottedText(ip)
    /\ AnyFrame \in Frame
    /\ MaxOptions \in Nat
    /\ MaxPackets \in Nat

VARIABLES
    pc,             \* "start", "arguments", "open_output", "read", "inspect", "exit"
    options,        \* how many options were read
    exporting,      \* json_export_path is not empty
    rules,
    parsed,         \* the SentryPacket that the loop reuses
    flows,
    total_packets, forwarded, dropped,
    app_stats,
    output,         \* the output capture, once opened: header and records
    report,         \* what is printed at the end: applications, domains, JSON
    exit_code,
    history,        \* auxiliary: the tracked packets with what was decided on each
    seen            \* auxiliary: the data of the packets read

counters == <<total_packets, forwarded, dropped, seen>>
tables == <<flows, app_stats, parsed, history>>
commandLine == <<options, exporting, rules>>
vars == <<pc, commandLine, tables, counters, output, report, exit_code, readerVars>>

FlowKey == [src_ip : Word, dst_ip : Word, src_port : Half, dst_port : Half, protocol : Byte]

Entry(k, flow, fate) ==
    [key |-> k, app_type |-> flow.app_type, sni |-> flow.sni, fate |-> fate, packet |-> packet]

NoReport == [sorted_apps |-> <<>>, unique_snis |-> <<>>, json |-> "none"]

Init ==
    /\ pc = "start"
    /\ options = 0
    /\ exporting = FALSE
    /\ rules = NoRules
    /\ parsed = FreshPacket
    /\ flows = <<>>
    /\ total_packets = 0 /\ forwarded = 0 /\ dropped = 0
    /\ app_stats = <<>>
    /\ output = [header |-> NoGlobalHeader, records |-> <<>>]
    /\ report = NoReport
    /\ exit_code = 0
    /\ history = <<>>
    /\ seen = <<>>
    /\ ReaderInit(AnyFrame)
-----------------------------------------------------------------------------
(* The command line, and opening the two files. *)

\* argc < 3
UsageError ==
    /\ pc = "start"
    /\ pc' = "exit" /\ exit_code' = 1
    /\ UNCHANGED <<commandLine, tables, counters, output, report, readerVars>>

BeginArguments ==
    /\ pc = "start"
    /\ pc' = "arguments"
    /\ UNCHANGED <<commandLine, tables, counters, output, report, exit_code, readerVars>>

Option ==
    /\ pc = "arguments" /\ options < MaxOptions
    /\ options' = options + 1
    /\ UNCHANGED <<pc, tables, counters, output, report, exit_code, readerVars>>

BlockIP(ip) == Option /\ rules' = blockIP(rules, ip) /\ UNCHANGED exporting
BlockApp(app) == Option /\ rules' = blockApp(rules, app) /\ UNCHANGED exporting
BlockDomain(domain) == Option /\ rules' = blockDomain(rules, domain) /\ UNCHANGED exporting
ExportJson == Option /\ exporting' = TRUE /\ UNCHANGED rules

\* An unknown option, or a last option without its value, is passed over.
IgnoreOption == Option /\ UNCHANGED <<rules, exporting>>

OpenInput(c) ==
    /\ pc = "arguments"
    /\ open(c)
    /\ pc' = "open_output"
    /\ UNCHANGED <<commandLine, tables, counters, output, report, exit_code>>

OpenInputFails(c) ==
    /\ pc = "arguments"
    /\ openFails(c)
    /\ pc' = "exit" /\ exit_code' = 1
    /\ UNCHANGED <<commandLine, tables, counters, output, report>>

\* The header is written as the reader holds it.
OpenOutput ==
    /\ pc = "open_output"
    /\ output' = [header |-> global_header, records |-> <<>>]
    /\ pc' = "read"
    /\ UNCHANGED <<commandLine, tables, counters, report, exit_code, readerVars>>

\* main returns; the reader's destructor closes the input.
OpenOutputFails ==
    /\ pc = "open_output"
    /\ close
    /\ pc' = "exit" /\ exit_code' = 1
    /\ UNCHANGED <<commandLine, tables, counters, output, report>>

-----------------------------------------------------------------------------
(* The loop over the packets. *)

ReadPacket(r) ==
    /\ pc = "read" /\ total_packets < MaxPackets
    /\ readNextPacket(r)
    /\ total_packets' = total_packets + 1
    /\ seen' = Append(seen, packet'.data)
    /\ pc' = "inspect"
    /\ UNCHANGED <<commandLine, tables, forwarded, dropped, output, report, exit_code>>

\* A loop that takes a record it refused for one it may pass over.
ReadEnds_ReadsOn ==
    /\ pc = "read"
    /\ readFails
    /\ pc' = IF disk'.at = "inside" THEN "read" ELSE "report"
    /\ UNCHANGED <<commandLine, tables, counters, output, report, exit_code>>

\* The loop ends alike at the end of the file and at a record it cannot read.
ReadEnds ==
    /\ pc = "read"
    /\ readFails
    /\ pc' = "report"
    /\ UNCHANGED <<commandLine, tables, counters, output, report, exit_code>>

Stage == parse(packet.data, parsed)

\* A key that leaves out the source port.
KeyOf_NoSourcePort(p) ==
    [src_ip |-> parseIP(p.src_ip), dst_ip |-> parseIP(p.dest_ip),
     src_port |-> 0, dst_port |-> p.dest_port, protocol |-> p.protocol]

KeyOf(p) ==
    [src_ip |-> parseIP(p.src_ip), dst_ip |-> parseIP(p.dest_ip),
     src_port |-> p.src_port, dst_port |-> p.dest_port, protocol |-> p.protocol]

\* flows[key], which makes an entry for a key it does not hold
FlowAt(k) == IF k \in DOMAIN flows THEN flows[k] ELSE NewFlow

Put(f, k, v) == [x \in DOMAIN f \cup {k} |-> IF x = k THEN v ELSE f[x]]

\* A rules step that decides anew on every packet.
Judged_Anew(flow, k) ==
    [flow EXCEPT !.blocked = isBlocked(rules, k.src_ip, flow.app_type, flow.sni)]

\* The rules are not asked again once a flow is blocked.
Judged(flow, k) ==
    IF flow.blocked THEN flow
    ELSE [flow EXCEPT !.blocked = isBlocked(rules, k.src_ip, flow.app_type, flow.sni)]

Inspected(k, p, d) == Judged(Classify(Counted(FlowAt(k), d), p, d), k)

AppCount(app) == IF app \in DOMAIN app_stats THEN app_stats[app] ELSE 0

\* A loop that counts what it passes over among the dropped packets.
SkipPacket_Dropped ==
    /\ pc = "inspect"
    /\ ~Tracked(Stage)
    /\ parsed' = Stage.packet
    /\ dropped' = dropped + 1
    /\ pc' = "read"
    /\ UNCHANGED <<commandLine, flows, app_stats, history, total_packets, forwarded, seen, output,
                   report, exit_code, readerVars>>

\* The two `continue`s: frames the parser refuses, and those that carry neither
\* TCP nor UDP over IPv4.
SkipPacket ==
    /\ pc = "inspect"
    /\ ~Tracked(Stage)
    /\ parsed' = Stage.packet
    /\ pc' = "read"
    /\ UNCHANGED <<commandLine, flows, app_stats, history, counters, output, report,
                   exit_code, readerVars>>

\* What the loop does with every tracked packet, up to its fate.
Track(k, flow, fate) ==
    /\ pc = "inspect"
    /\ Tracked(Stage)
    /\ parsed' = Stage.packet
    /\ flows' = Put(flows, k, flow)
    /\ app_stats' = Put(app_stats, flow.app_type, AppCount(flow.app_type) + 1)
    /\ history' = Append(history, Entry(k, flow, fate))
    /\ pc' = "read"
    /\ UNCHANGED <<commandLine, total_packets, seen, report, exit_code, readerVars>>

DropPacket ==
    LET k == KeyOf(Stage.packet)
        flow == Inspected(k, Stage.packet, packet.data)
    IN  /\ Track(k, flow, "dropped")
        /\ flow.blocked
        /\ dropped' = dropped + 1
        /\ UNCHANGED <<forwarded, output>>

\* The lengths of the packet on the wire, for what may be less in the file.
OutputHeader_WireLength == [packet.header EXCEPT !.incl_len = packet.header.orig_len]

OutputHeader ==
    [packet.header EXCEPT !.incl_len = WordOf(packet.data.size),
                          !.orig_len = WordOf(packet.data.size)]

ForwardPacket ==
    LET k == KeyOf(Stage.packet)
        flow == Inspected(k, Stage.packet, packet.data)
    IN  /\ Track(k, flow, "forwarded")
        /\ ~flow.blocked
        /\ forwarded' = forwarded + 1
        /\ output' = [output EXCEPT !.records =
                         Append(@, [header |-> OutputHeader, data |-> packet.data])]
        /\ UNCHANGED dropped

-----------------------------------------------------------------------------
(* The report.  Equal counts are sorted, and the flows met, in the order of  *)
(* a hash table: any order.                                                  *)

Sorted(apps) ==
    /\ \A i, j \in DOMAIN apps : i # j => apps[i] # apps[j]
    /\ \A i, j \in DOMAIN apps : i < j => app_stats[apps[i]] >= app_stats[apps[j]]

DetectedNames == {flows[k].sni : k \in DOMAIN flows} \ {""}

NamesOf(names) ==
    \A n \in DetectedNames :
        \E k \in DOMAIN flows : flows[k].sni = n /\ flows[k].app_type = names[n]

\* The run succeeds whether or not the JSON file can be written.
Report ==
    /\ pc = "report"
    /\ close
    /\ \E apps \in [1 .. Cardinality(DOMAIN app_stats) -> DOMAIN app_stats],
          names \in [DetectedNames -> {flows[k].app_type : k \in DOMAIN flows}],
          json \in (IF exporting THEN {"written", "failed"} ELSE {"none"}) :
          /\ Sorted(apps)
          /\ NamesOf(names)
          /\ report' = [sorted_apps |-> apps, unique_snis |-> names, json |-> json]
    /\ pc' = "exit" /\ exit_code' = 0
    /\ UNCHANGED <<commandLine, tables, counters, output>>

Exited == pc = "exit" /\ UNCHANGED vars

Next ==
    \/ UsageError \/ BeginArguments
    \/ \E ip \in IpTexts : BlockIP(ip)
    \/ \E app \in AppNames : BlockApp(app)
    \/ \E domain \in Domains : BlockDomain(domain)
    \/ ExportJson \/ IgnoreOption
    \/ \E c \in Captures : OpenInput(c) \/ OpenInputFails(c)
    \/ OpenOutput \/ OpenOutputFails
    \/ \E r \in Records : ReadPacket(r)
    \/ ReadEnds
    \/ SkipPacket \/ DropPacket \/ ForwardPacket
    \/ Report
    \/ Exited

Spec == Init /\ [][Next]_vars
-----------------------------------------------------------------------------
HistoryEntry == [key : FlowKey, app_type : AppTypes, sni : Names,
                 fate : {"forwarded", "dropped"}, packet : RawPacket]

CommandTypeOK ==
    /\ options \in Nat
    /\ exporting \in BOOLEAN
    /\ rules \in Rules

TableTypeOK ==
    /\ parsed \in SentryPacket
    /\ DOMAIN flows \subseteq FlowKey
    /\ \A k \in DOMAIN flows : flows[k] \in Flow
    /\ DOMAIN app_stats \subseteq AppTypes
    /\ \A app \in DOMAIN app_stats : app_stats[app] \in Nat
    /\ history \in Seq(HistoryEntry)

OutcomeTypeOK ==
    /\ pc \in {"start", "arguments", "open_output", "read", "inspect", "report", "exit"}
    /\ total_packets \in Nat /\ forwarded \in Nat /\ dropped \in Nat
    /\ seen \in Seq(Data)
    /\ output \in [header : GlobalHeader, records : Seq([header : PacketHeader, data : Data])]
    /\ \A i \in DOMAIN report.sorted_apps : report.sorted_apps[i] \in AppTypes
    /\ DOMAIN report.unique_snis \subseteq Names
    /\ report.json \in {"none", "written", "failed"}
    /\ exit_code \in {0, 1}

\* The types of all variables.
TypeOK == ReaderTypeOK(Frame) /\ CommandTypeOK /\ TableTypeOK /\ OutcomeTypeOK

Matched(e) == isBlocked(rules, e.key.src_ip, e.app_type, e.sni)

\* Flow-level blocking: a tracked packet is dropped exactly when it, or an
\* earlier packet of its flow, met a blocking rule with the name the flow had at
\* that moment.  No packet after the first match slips through when the flow is
\* named anew, and none before it is held back.
DropExactlyFromFirstMatch ==
    \A i \in 1 .. Len(history) :
        history[i].fate = "dropped" <=>
            \E j \in 1 .. i : history[j].key = history[i].key /\ Matched(history[j])

\* --block-ip means the address on the wire: a packet whose source bytes spell a
\* blocked address is dropped.  The rule's text and the packet's bytes reach the
\* comparison along different conversions.
BlockedSourceIsDropped ==
    \A w \in rules.blocked_ips, i \in 1 .. Len(history) :
        history[i].packet.data.frame.src_ip = ipToString(w) => history[i].fate = "dropped"

\* A flow made of the packets of one connection alone, those that met such a fate,
\* each parsed on its own and judged by the rules.
Replay(c, fates) ==
    LET flow[n \in 0 .. Len(history)] ==
            IF n = 0 THEN NewFlow
            ELSE LET d == history[n].packet.data
                     p == parse(d, FreshPacket).packet
                 IN  IF Connection(d) = c /\ history[n].fate \in fates
                     THEN Judged(Classify(Counted(flow[n - 1], d), p, d), KeyOf(p))
                     ELSE flow[n - 1]
    IN  flow[Len(history)]

\* Flows do not leak into one another: what the report finds of a flow (its name,
\* its application, its packets and bytes, whether it is blocked) is what the packets
\* of that connection alone would have made of it, however the connections were
\* interleaved and whatever the reused packet object held before.
FlowIsolation ==
    pc = "report" =>
        \A k \in DOMAIN flows :
            LET first == CHOOSE i \in 1 .. Len(history) : history[i].key = k
            IN  flows[k] = Replay(Connection(history[first].packet.data), {"forwarded", "dropped"})

\* What was filtered stays filtered: the forwarded packets alone, without the dropped
\* ones between them, give no flow that the same rules would block.
FilteringAgainDropsNothing ==
    pc = "report" =>
        \A i \in 1 .. Len(history) :
            ~Replay(Connection(history[i].packet.data), {"forwarded"}).blocked

WorthTracking(n) == Tracked(parse(seen[n], FreshPacket))

\* The counters of the report tell the same story as the packets: per flow, per
\* application, and in total.  The total has every packet read, also those the loop
\* passes over; the other counters have every packet but those.
CountersAgree ==
    LET Number(S) == Cardinality(S)
        is == 1 .. Len(history)
    IN  /\ total_packets = Len(seen)
        /\ pc # "inspect" =>
              forwarded + dropped = Number({n \in 1 .. Len(seen) : WorthTracking(n)})
        /\ forwarded = Number({i \in is : history[i].fate = "forwarded"})
        /\ dropped = Number({i \in is : history[i].fate = "dropped"})
        /\ Len(output.records) = forwarded
        /\ DOMAIN flows = {history[i].key : i \in is}
        /\ \A k \in DOMAIN flows : flows[k].packets = Number({i \in is : history[i].key = k})
        /\ DOMAIN app_stats = {history[i].app_type : i \in is}
        /\ \A a \in DOMAIN app_stats : app_stats[a] = Number({i \in is : history[i].app_type = a})

\* Once a flow has a name, neither the name nor the application changes; before
\* that, the application changes only away from UNKNOWN or together with a name.
ClassificationSettles ==
    [][\A k \in DOMAIN flows :
          LET old == flows[k]
              new == flows'[k]
          IN  /\ old.sni # "" => new.sni = old.sni /\ new.app_type = old.app_type
              /\ old.app_type # new.app_type => old.app_type = "UNKNOWN" \/ new.sni # ""]_vars

\* The engine looks for the payload on its own, reading header bytes it does not
\* check: it stays inside the captured bytes and finds the place the parser found.
PayloadWhereParsed ==
    pc = "inspect" /\ Tracked(Stage) /\ Stage.packet.has_tcp =>
        /\ TransportOffset(packet.data) + 12 < packet.data.size
        /\ PayloadOffset(packet.data) <= packet.data.size
        /\ Stage.packet.payload_length = packet.data.size - PayloadOffset(packet.data)

\* A refused length leaves the reader inside of a record.  The engine does not go on
\* from there: what it inspects is always a packet that the writer recorded.
InspectsRecords ==
    pc = "inspect" => disk.at = "record" /\ packet.header = disk.record

\* A name stands for one application: the report's list of hosts does not depend
\* on the order in which the flow table is walked.
ReportUnambiguous ==
    \A k, l \in DOMAIN flows :
        flows[k].sni = flows[l].sni /\ flows[k].sni # "" => flows[k].app_type = flows[l].app_type

WasForwarded(i) == history[i].fate = "forwarded"

\* The place in the output of the packet at place i of the history.
Turn(i) == Cardinality({j \in 1 .. i : WasForwarded(j)})

\* The output, read back by CaptureReader on this host: it accepts every record
\* and delivers the forwarded packets in order, with their times and lengths.
ReadsBack ==
    LET gh == DecodeGlobalHeader(output.header)
        Read(n) == DecodePacketHeader(NeedsByteSwap(output.header), output.records[n].header)
    IN  /\ Len(output.records) = Turn(Len(history))
        /\ \A i \in 1 .. Len(history) :
            WasForwarded(i) =>
                /\ LengthAccepted(gh, Read(Turn(i)))
                /\ Read(Turn(i)).incl_len = WordOf(output.records[Turn(i)].data.size)
                /\ Read(Turn(i)).ts_sec = history[i].packet.header.ts_sec
                /\ output.records[Turn(i)].data = history[i].packet.data

\* The filtered output is a capture again, for an input in this host's byte order.
OutputReadsBack == pc = "exit" /\ disk.order = "native" => ReadsBack
-----------------------------------------------------------------------------
\* The flows that are blocked, by their five values on the wire.
CutConnections ==
    {Connection(history[i].packet.data) :
        i \in {i \in 1 .. Len(history) : flows[history[i].key].blocked}}

\* The packets of the capture, as its writer meant them.
PacketsOnDisk == {[size |-> r.header.incl_len.lo, frame |-> r.frame] : r \in Records}

Filter == INSTANCE FlowFilter WITH
    Packets <- PacketsOnDisk,
    FlowOf  <- Connection,
    arrived <- [i \in 1 .. Len(history) |-> history[i].packet.data],
    passed  <- [i \in 1 .. Len(output.records) |-> output.records[i].data],
    cut     <- CutConnections

\* The engine implements the filter by flow: a packet of a blocked flow never
\* reaches the output, every other tracked packet does, unchanged and in order.
FilterSpec == Filter!FilterSpec
=============================================================================
