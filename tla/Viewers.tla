------------------------------- MODULE Viewers -------------------------------
(***************************************************************************)
(* The two programs that print a capture: flow_sentry (sentry_main) prints *)
(* every packet, up to a limit, and flow_sentry_inspector                  *)
(* (sentry_inspector_simple) a line for every IPv4 packet, with the TLS    *)
(* name it finds.  Both read with CaptureReader, parse with LayerParser,   *)
(* and reuse one packet object; they keep counters and print.              *)
(***************************************************************************)
EXTENDS CaptureReader, FlowClassifier, FiniteSets

CONSTANTS
    Limits,         \* numbers that may follow the file name on flow_sentry's command line
    AnyFrame,       \* the bytes of a buffer nothing was read into
    MaxRecords      \* bound: records read from the capture

ASSUME ViewersAssumption ==
    /\ Records \subseteq [header : PacketHeader, frame : Frame, extent : Extents]
    /\ Limits \subseteq Int /\ AnyFrame \in Frame /\ MaxRecords \in Nat

VARIABLES
    program,        \* "flow_sentry" or "flow_sentry_inspector"
    pc,             \* "start", "open", "read", "show", "limit", "summary", "exit"
    max_packets,
    packet_count, parse_errors, tls_count,
    parsed,         \* the SentryPacket that the loop reuses
    printed,        \* what was printed of each packet
    exit_code,
    seen            \* auxiliary: the data of the records read

printing == <<parse_errors, tls_count, parsed, printed>>
vars == <<program, pc, max_packets, packet_count, printing, exit_code, seen, readerVars>>

ABORTED == 134      \* std::terminate after an exception nobody catches

Init ==
    /\ program \in {"flow_sentry", "flow_sentry_inspector"}
    /\ pc = "start"
    /\ max_packets = -1
    /\ packet_count = 0 /\ parse_errors = 0 /\ tls_count = 0
    /\ parsed = FreshPacket
    /\ printed = <<>>
    /\ exit_code = 0
    /\ seen = <<>>
    /\ ReaderInit(AnyFrame)

Exit(code) == pc' = "exit" /\ exit_code' = code
-----------------------------------------------------------------------------
(* The command line and the file. *)

\* argc < 2
UsageError ==
    /\ pc = "start"
    /\ Exit(1)
    /\ UNCHANGED <<program, max_packets, packet_count, printing, seen, readerVars>>

FileNamed ==
    /\ pc = "start"
    /\ pc' = "open"
    /\ UNCHANGED <<program, max_packets, packet_count, printing, exit_code, seen, readerVars>>

\* A limit after the file name: flow_sentry reads it, the inspector does not look.
LimitNamed(n) ==
    /\ pc = "start" /\ program = "flow_sentry"
    /\ pc' = "open"
    /\ max_packets' = n
    /\ UNCHANGED <<program, packet_count, printing, exit_code, seen, readerVars>>

\* std::stoi throws on a limit that is no number, or none that an int holds.
LimitUnreadable ==
    /\ pc = "start" /\ program = "flow_sentry"
    /\ Exit(ABORTED)
    /\ UNCHANGED <<program, max_packets, packet_count, printing, seen, readerVars>>

OpenFile(c) ==
    /\ pc = "open"
    /\ open(c)
    /\ pc' = "read"
    /\ UNCHANGED <<program, max_packets, packet_count, printing, exit_code, seen>>

OpenFileFails(c) ==
    /\ pc = "open"
    /\ openFails(c)
    /\ Exit(1)
    /\ UNCHANGED <<program, max_packets, packet_count, printing, seen>>
-----------------------------------------------------------------------------
(* The loop. *)

ReadPacket(r) ==
    /\ pc = "read" /\ packet_count < MaxRecords
    /\ readNextPacket(r)
    /\ packet_count' = packet_count + 1
    /\ seen' = Append(seen, packet'.data)
    /\ pc' = "show"
    /\ UNCHANGED <<program, max_packets, printing, exit_code>>

ReadEnds ==
    /\ pc = "read"
    /\ readFails
    /\ pc' = "summary"
    /\ UNCHANGED <<program, max_packets, packet_count, printing, exit_code, seen>>

Stage == parse(packet.data, parsed)

Preview(s) == [from |-> s.offset, size |-> IF s.packet.payload_length < 32 THEN s.packet.payload_length ELSE 32]

Shown(s, names) == [number |-> packet_count, packet |-> s.packet, preview |-> Preview(s), names |-> names]

Show(p, next) ==
    /\ pc = "show" /\ program = p
    /\ parsed' = Stage.packet
    /\ pc' = next
    /\ UNCHANGED <<program, max_packets, packet_count, exit_code, seen, readerVars>>

\* flow_sentry: printPacketSummary, or a warning.
PrintPacket ==
    /\ Show("flow_sentry", "limit")
    /\ Stage.ok
    /\ printed' = Append(printed, Shown(Stage, {}))
    /\ UNCHANGED <<parse_errors, tls_count>>

ParseError ==
    /\ Show("flow_sentry", "limit")
    /\ ~Stage.ok
    /\ parse_errors' = parse_errors + 1
    /\ UNCHANGED <<tls_count, printed>>

\* A limit that lets one packet more through.
LimitReached_OneMore == max_packets > 0 /\ packet_count > max_packets

LimitReached == max_packets > 0 /\ packet_count >= max_packets

LimitStops ==
    /\ pc = "limit"
    /\ pc' = IF LimitReached THEN "summary" ELSE "read"
    /\ UNCHANGED <<program, max_packets, packet_count, printing, exit_code, seen, readerVars>>

\* An inspector that expects the payload behind headers without options.
NamesIn_PlainHeaders(p, d) ==
    IF p.has_tcp /\ p.dest_port = 443 /\ p.payload_length > 0 /\ PayloadOffset(d) = 54
    THEN sniOf(d) ELSE {}

\* flow_sentry_inspector: the name in a ClientHello, where the program looks for it.
NamesIn(p, d) ==
    IF p.has_tcp /\ p.dest_port = 443 /\ p.payload_length > 0 /\ PayloadOffset(d) < d.size
    THEN sniOf(d) ELSE {}

\* The two `continue`s: a frame that does not parse, one without IPv4.
PassOver ==
    /\ Show("flow_sentry_inspector", "read")
    /\ ~(Stage.ok /\ Stage.packet.has_ip)
    /\ UNCHANGED <<parse_errors, tls_count, printed>>

\* A counter of lines.
NamesCounted_Lines(names) == 1

NamesCounted(names) == Cardinality(names)

PrintLine ==
    LET names == NamesIn(Stage.packet, packet.data)
    IN  /\ Show("flow_sentry_inspector", "read")
        /\ Stage.ok /\ Stage.packet.has_ip
        /\ printed' = Append(printed, Shown(Stage, names))
        /\ tls_count' = tls_count + NamesCounted(names)
        /\ UNCHANGED parse_errors

Summary ==
    /\ pc = "summary"
    /\ close
    /\ Exit(0)
    /\ UNCHANGED <<program, max_packets, packet_count, printing, seen>>

Exited == pc = "exit" /\ UNCHANGED vars

Next ==
    \/ UsageError \/ FileNamed \/ LimitUnreadable
    \/ \E n \in Limits : LimitNamed(n)
    \/ \E c \in Captures : OpenFile(c) \/ OpenFileFails(c)
    \/ \E r \in Records : ReadPacket(r)
    \/ ReadEnds
    \/ PrintPacket \/ ParseError \/ LimitStops
    \/ PassOver \/ PrintLine
    \/ Summary
    \/ Exited

Spec == Init /\ [][Next]_vars
-----------------------------------------------------------------------------
Printed == [number : Nat, packet : SentryPacket, preview : [from : Nat, size : Nat],
            names : SUBSET Hosts]

TypeOK ==
    /\ ReaderTypeOK(Frame)
    /\ pc \in {"start", "open", "read", "show", "limit", "summary", "exit"}
    /\ max_packets \in Int
    /\ packet_count \in Nat /\ parse_errors \in Nat /\ tls_count \in Nat
    /\ parsed \in SentryPacket
    /\ printed \in Seq(Printed)
    /\ exit_code \in {0, 1, ABORTED}
    /\ seen \in Seq(Data)

Alone(n) == parse(seen[n], FreshPacket)

\* What is printed under a packet's number is that packet and nothing of the ones
\* before it, although one object is parsed into again and again and some frames
\* are passed over or fail half-way.
ShowsThatPacket ==
    \A i \in DOMAIN printed :
        /\ printed[i].number \in DOMAIN seen
        /\ printed[i].packet = Alone(printed[i].number).packet

\* Every record read is accounted for once: printed, a parse error, or, in the
\* inspector, passed over for want of IPv4; the totals count just that.
EveryPacketAccounted ==
    pc \in {"read", "summary"} =>
        LET readable == {n \in DOMAIN seen : Alone(n).ok}
            wanted == IF program = "flow_sentry" THEN readable
                      ELSE {n \in readable : Alone(n).packet.has_ip}
        IN  /\ packet_count = Len(seen)
            /\ {printed[i].number : i \in DOMAIN printed} = wanted
            /\ Len(printed) = Cardinality(wanted)
            /\ program = "flow_sentry" => parse_errors = Cardinality(DOMAIN seen \ readable)
            /\ tls_count = Cardinality({i \in DOMAIN printed : printed[i].names # {}})

\* A limit is a limit: flow_sentry reads no record past it, so what is after it in
\* the file, be it cut or refused, does not matter.  And nothing else is one: with a
\* limit of zero or below, or before the limit, only the reader ends the loop.
StopsAtLimit ==
    /\ max_packets > 0 => Len(seen) <= max_packets
    /\ pc = "summary" /\ (max_packets <= 0 \/ Len(seen) < max_packets) => disk.at # "record"

\* The preview shows the payload: it begins where the last header of the packet
\* ends, options included, and stays inside the captured bytes.
PreviewIsPayload ==
    \A i \in DOMAIN printed :
        LET shown == printed[i]
            d == seen[shown.number]
        IN  shown.packet.payload_length > 0 =>
                /\ shown.preview.from + shown.preview.size <= d.size
                /\ shown.packet.has_tcp => shown.preview.from = PayloadOffset(d)
                /\ shown.packet.has_udp => shown.preview.from = TransportOffset(d) + 8

\* The flow the engine would make of the packets of one connection.
EngineFlow(c) ==
    LET flow[n \in 0 .. Len(seen)] ==
            IF n = 0 THEN NewFlow
            ELSE IF Connection(seen[n]) = c /\ Tracked(Alone(n))
            THEN Classify(flow[n - 1], Alone(n).packet, seen[n])
            ELSE flow[n - 1]
    IN  flow[Len(seen)]

\* The inspector and the filter look for names in code of their own; a TLS name
\* that the filter would give a flow is on one of the inspector's lines.
InspectorMissesNoName ==
    program = "flow_sentry_inspector" /\ pc = "summary" =>
        \A n \in DOMAIN seen :
            LET name == EngineFlow(Connection(seen[n])).sni
            IN  /\ Tracked(Alone(n)) /\ Alone(n).packet.has_tcp /\ Alone(n).packet.dest_port = 443
                /\ name \in Hosts \ {""}
                => \E i \in DOMAIN printed : name \in printed[i].names
=============================================================================
