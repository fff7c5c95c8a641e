--------------------------- MODULE FlowSentryProofs ---------------------------
(***************************************************************************)
(* Invariants of the engine, for every set of captures, records, rules and *)
(* names, on hosts of either byte order.                                   *)
(***************************************************************************)
EXTENDS FlowSentryEngine, PacketTheorems, ReaderTheorems

(* The rules. *)

\* The rules before the first option.
LEMMA NoRulesType == NoRules \in Rules
BY DEF NoRules, Rules

\* Every option leaves the rules well formed.
LEMMA BlockType ==
    ASSUME NEW r \in Rules
    PROVE  /\ \A ip : IsDottedText(ip) => blockIP(r, ip) \in Rules
           /\ \A app \in AppNames : blockApp(r, app) \in Rules
           /\ \A domain \in Domains : blockDomain(r, domain) \in Rules
<1>1. \A ip : IsDottedText(ip) => blockIP(r, ip) \in Rules
  BY ParsedIpType DEF blockIP, Rules
<1>2. \A app \in AppNames : blockApp(r, app) \in Rules
  BY RuleTextsAssumption DEF blockApp, Rules
<1>3. \A domain \in Domains : blockDomain(r, domain) \in Rules
  <2> TAKE domain \in Domains
  <2>1. Append(r.blocked_domains, domain) \in Seq(Domains)
    BY DEF Rules
  <2>2. \A s \in Seq(Domains) : [r EXCEPT !.blocked_domains = s] \in Rules
    BY DEF Rules
  <2> QED
    BY <2>1, <2>2 DEF blockDomain
<1> QED
  BY <1>1, <1>2, <1>3

-----------------------------------------------------------------------------
(* The loop. *)

\* The records are what the reader expects.
LEMMA RecordsTyped == \A r \in Records : r.header \in PacketHeader /\ r.frame \in Frame
BY RecordsAssumption

\* The packet at hand, parsed.
LEMMA StageType ==
    ASSUME ReaderTypeOK(Frame)
    PROVE  packet.data \in Data /\ Stage \in ParseStage /\ Stage.packet \in SentryPacket
<1>1. packet.data \in Data
  BY DEF ReaderTypeOK, RawPacket, RawPacketOf, Data, Half
<1> QED
  BY <1>1, ParseType DEF Stage, ParseStage

\* An address printed by the parser is read as a word.
LEMMA AddressTextType == ASSUME NEW t \in FourBytes PROVE parseIP(t) \in Word
<1>1. t \in [1 .. 4 -> Byte]
  BY DEF FourBytes
<1> QED
  BY <1>1, ParsedIpType DEF IsDottedText

\* The key of a parsed packet.
LEMMA KeyType == ASSUME NEW p \in SentryPacket PROVE KeyOf(p) \in FlowKey
<1>1. parseIP(p.src_ip) \in Word /\ parseIP(p.dest_ip) \in Word
  BY AddressTextType DEF SentryPacket
<1> QED
  BY <1>1 DEF KeyOf, FlowKey, SentryPacket

\* Asking the rules changes nothing of a flow but its blocking.
LEMMA JudgedType ==
    ASSUME NEW flow \in Flow, NEW k
    PROVE  LET after == Judged(flow, k)
           IN  /\ after \in Flow
               /\ Alike(after, flow)
               /\ after.blocked <=> \/ flow.blocked
                                   \/ isBlocked(rules, k.src_ip, after.app_type, after.sni)
<1>1. CASE flow.blocked
  BY <1>1 DEF Judged, Alike
<1>2. CASE ~flow.blocked
  <2> DEFINE b == isBlocked(rules, k.src_ip, flow.app_type, flow.sni)
  <2>1. b \in BOOLEAN
    BY DEF isBlocked
  <2>2. Judged(flow, k) = [flow EXCEPT !.blocked = b]
    BY <1>2 DEF Judged
  <2> HIDE DEF b
  <2>3. /\ Judged(flow, k) \in Flow
        /\ Alike(Judged(flow, k), flow)
        /\ Judged(flow, k).blocked = b
    BY <2>1, <2>2 DEF Flow, Alike
  <2> QED
    BY <1>2, <2>3 DEF b, Alike
<1> QED
  BY <1>1, <1>2

\* The flow of a key, found or made.
LEMMA FlowAtType == ASSUME TableTypeOK, NEW k PROVE FlowAt(k) \in Flow
BY NewFlowType DEF FlowAt, TableTypeOK

\* The flow after the packet is the one the stages made of it, with one packet
\* more, and blocked if it was, or if the rules match it now.
LEMMA InspectedType ==
    ASSUME TableTypeOK, NEW k, NEW p, NEW d \in Data
    PROVE  LET after == Inspected(k, p, d)
           IN  /\ after \in Flow
               /\ Alike(after, Classify(Counted(FlowAt(k), d), p, d))
               /\ after.packets = FlowAt(k).packets + 1
               /\ after.blocked <=> \/ FlowAt(k).blocked
                                   \/ isBlocked(rules, k.src_ip, after.app_type, after.sni)
<1> DEFINE f0 == FlowAt(k)
           f1 == Counted(f0, d)
           f2 == Classify(f1, p, d)
           after == Inspected(k, p, d)
<1>1. f0 \in Flow
  BY FlowAtType
<1>. HIDE DEF f0
<1>2. f1 \in Flow /\ f1.blocked = f0.blocked /\ f1.packets = f0.packets + 1
  BY <1>1, CountedType
<1>. HIDE DEF f1
<1>3. f2 \in Flow /\ f2.blocked = f1.blocked /\ f2.packets = f1.packets
  BY <1>2, ClassifyType DEF SameTally
<1>. HIDE DEF f2
<1>4. after = Judged(f2, k)
  BY DEF Inspected, f2, f1, f0
<1>5. /\ Judged(f2, k) \in Flow
      /\ Alike(Judged(f2, k), f2)
      /\ Judged(f2, k).blocked <=> \/ f2.blocked
                                  \/ isBlocked(rules, k.src_ip, Judged(f2, k).app_type, Judged(f2, k).sni)
  BY <1>3, JudgedType
<1>6. /\ after \in Flow /\ Alike(after, f2) /\ after.packets = f0.packets + 1
      /\ after.blocked <=> f0.blocked \/ isBlocked(rules, k.src_ip, after.app_type, after.sni)
  BY <1>2, <1>3, <1>4, <1>5 DEF Alike
<1> QED
  BY <1>6 DEF f2, f1, f0

\* The tables after a tracked packet.
LEMMA TrackType ==
    ASSUME ReaderTypeOK(Frame), TableTypeOK, NEW k \in FlowKey, NEW flow \in Flow,
           NEW fate \in {"forwarded", "dropped"}, Track(k, flow, fate)
    PROVE  TableTypeOK'
<1>1. parsed' \in SentryPacket
  BY StageType DEF Track
<1>2. DOMAIN flows' \subseteq FlowKey /\ \A x \in DOMAIN flows' : flows'[x] \in Flow
  <2>1. flows' = Put(flows, k, flow)
    BY DEF Track
  <2>2. DOMAIN flows' = DOMAIN flows \cup {k}
    BY <2>1 DEF Put
  <2>3. flows'[k] = flow /\ \A x \in DOMAIN flows : x # k => flows'[x] = flows[x]
    BY <2>1 DEF Put
  <2> QED
    BY <2>2, <2>3 DEF TableTypeOK
<1>3. AppCount(flow.app_type) + 1 \in Nat
  BY DEF AppCount, TableTypeOK
<1>4. flow.app_type \in AppTypes /\ flow.sni \in Names
  BY DEF Flow
<1>5. DOMAIN app_stats' \subseteq AppTypes /\ \A app \in DOMAIN app_stats' : app_stats'[app] \in Nat
  <2> DEFINE app == flow.app_type
             n == AppCount(app) + 1
  <2>1. app_stats' = Put(app_stats, app, n)
    BY DEF Track
  <2> HIDE DEF app, n
  <2>2. DOMAIN app_stats' = DOMAIN app_stats \cup {app}
    BY <2>1 DEF Put
  <2>3. app_stats'[app] = n /\ \A x \in DOMAIN app_stats : x # app => app_stats'[x] = app_stats[x]
    BY <2>1 DEF Put
  <2>4. app \in AppTypes /\ n \in Nat
    BY <1>3, <1>4 DEF app, n
  <2> QED
    BY <2>2, <2>3, <2>4 DEF TableTypeOK
<1>6. Entry(k, flow, fate) \in HistoryEntry
  BY <1>4 DEF Entry, HistoryEntry, RawPacket, ReaderTypeOK
<1>7. history' \in Seq(HistoryEntry)
  BY <1>6 DEF Track, TableTypeOK
<1> QED
  BY <1>1, <1>2, <1>5, <1>7 DEF TableTypeOK

\* A length of 16 bits as a field of the header.
LEMMA SizeWord == ASSUME NEW n \in Half PROVE WordOf(n) \in Word
<1>1. n \in Int /\ 0 <= n /\ n <= 65535
  BY DEF Half
<1>2. n \div 65536 = 0 /\ n % 65536 = n
  BY <1>1
<1> QED
  BY <1>2, IntoHalf DEF WordOf, Word

\* The header written with a forwarded packet.
LEMMA OutputHeaderType == ASSUME ReaderTypeOK(Frame) PROVE OutputHeader \in PacketHeader
<1>1. WordOf(packet.data.size) \in Word
  BY SizeWord DEF ReaderTypeOK, RawPacket, RawPacketOf
<1> QED
  BY <1>1 DEF OutputHeader, ReaderTypeOK, RawPacket, RawPacketOf, PacketHeader

-----------------------------------------------------------------------------
(* Type correctness. *)

\* The types hold at the start,
LEMMA InitType == ASSUME Init PROVE TypeOK
<1>1. ReaderTypeOK(Frame)
  BY ReaderInitType, EngineAssumption DEF Init
<1>2. CommandTypeOK
  BY NoRulesType DEF Init, CommandTypeOK
<1>3. TableTypeOK
  <2>1. FreshPacket \in SentryPacket
    BY DEF SentryPacket, FreshPacket, Half, Nibble, Byte, FourBytes
  <2> QED
    BY <2>1 DEF Init, TableTypeOK
<1>4. OutcomeTypeOK
  BY ZeroTypes DEF Init, OutcomeTypeOK, NoReport
<1> QED
  BY <1>1, <1>2, <1>3, <1>4 DEF TypeOK

\* after an option,
LEMMA OptionType ==
    ASSUME TypeOK, Option, exporting' \in BOOLEAN, rules' \in Rules
    PROVE  TypeOK'
BY DEF TypeOK, ReaderTypeOK, CommandTypeOK, TableTypeOK, OutcomeTypeOK, Option, tables, counters,
       readerVars

\* after a dropped packet,
LEMMA DropType == ASSUME TypeOK, DropPacket PROVE TypeOK'
<1> DEFINE k == KeyOf(Stage.packet)
           flow == Inspected(k, Stage.packet, packet.data)
<1>1. k \in FlowKey
  BY StageType, KeyType DEF TypeOK
<1>2. flow \in Flow
  BY StageType, InspectedType DEF TypeOK
<1>3. Track(k, flow, "dropped") /\ dropped' = dropped + 1 /\ UNCHANGED <<forwarded, output>>
  BY DEF DropPacket
<1>. HIDE DEF k, flow
<1>4. TableTypeOK'
  BY <1>1, <1>2, <1>3, TrackType DEF TypeOK
<1> QED
  BY <1>3, <1>4 DEF TypeOK, ReaderTypeOK, CommandTypeOK, OutcomeTypeOK, Track, commandLine, readerVars

\* after a forwarded packet,
LEMMA ForwardType == ASSUME TypeOK, ForwardPacket PROVE TypeOK'
<1> DEFINE k == KeyOf(Stage.packet)
           flow == Inspected(k, Stage.packet, packet.data)
           record == [header |-> OutputHeader, data |-> packet.data]
<1>1. k \in FlowKey
  BY StageType, KeyType DEF TypeOK
<1>2. flow \in Flow
  BY StageType, InspectedType DEF TypeOK
<1>3. /\ Track(k, flow, "forwarded") /\ forwarded' = forwarded + 1 /\ UNCHANGED dropped
      /\ output' = [output EXCEPT !.records = Append(@, record)]
  BY DEF ForwardPacket
<1>4. record \in [header : PacketHeader, data : Data]
  BY StageType, OutputHeaderType DEF TypeOK
<1>. HIDE DEF k, flow, record
<1>5. TableTypeOK'
  BY <1>1, <1>2, <1>3, TrackType DEF TypeOK
<1>6. output' \in [header : GlobalHeader, records : Seq([header : PacketHeader, data : Data])]
  <2>1. Append(output.records, record) \in Seq([header : PacketHeader, data : Data])
    BY <1>4 DEF TypeOK, OutcomeTypeOK
  <2> QED
    BY <1>3, <2>1 DEF TypeOK, OutcomeTypeOK
<1> QED
  BY <1>3, <1>5, <1>6
  DEF TypeOK, ReaderTypeOK, CommandTypeOK, OutcomeTypeOK, Track, commandLine, readerVars

\* after the report,
LEMMA ReportType == ASSUME TypeOK, Report PROVE TypeOK'
<1>1. ReaderTypeOK(Frame)'
  BY CloseType DEF TypeOK, Report
<1>2. DetectedNames \subseteq Names
  BY DEF DetectedNames, TypeOK, TableTypeOK, Flow
<1>3. PICK apps \in [1 .. Cardinality(DOMAIN app_stats) -> DOMAIN app_stats],
           names \in [DetectedNames -> {flows[k].app_type : k \in DOMAIN flows}],
           json \in (IF exporting THEN {"written", "failed"} ELSE {"none"}) :
           report' = [sorted_apps |-> apps, unique_snis |-> names, json |-> json]
  BY DEF Report
<1>4. /\ \A i \in DOMAIN report'.sorted_apps : report'.sorted_apps[i] \in AppTypes
      /\ DOMAIN report'.unique_snis \subseteq Names
      /\ report'.json \in {"none", "written", "failed"}
  <2>1. \A i \in DOMAIN apps : apps[i] \in AppTypes
    BY DEF TypeOK, TableTypeOK
  <2>2. DOMAIN names \subseteq Names
    BY <1>2
  <2> QED
    BY <1>3, <2>1, <2>2
<1> QED
  BY <1>1, <1>4
  DEF TypeOK, CommandTypeOK, TableTypeOK, OutcomeTypeOK, Report, commandLine, tables, counters

\* and after every other step.
LEMMA NextType == ASSUME TypeOK, [Next]_vars PROVE TypeOK'
<1> USE DEF TypeOK
<1>1. CASE UsageError \/ BeginArguments
  BY <1>1 DEF UsageError, BeginArguments, ReaderTypeOK, CommandTypeOK, TableTypeOK, OutcomeTypeOK,
       commandLine, tables, counters, readerVars
<1>2. ASSUME NEW ip \in IpTexts, BlockIP(ip) PROVE TypeOK'
  BY <1>2, EngineAssumption, BlockType, OptionType DEF BlockIP, CommandTypeOK
<1>3. ASSUME NEW app \in AppNames, BlockApp(app) PROVE TypeOK'
  BY <1>3, BlockType, OptionType DEF BlockApp, CommandTypeOK
<1>4. ASSUME NEW domain \in Domains, BlockDomain(domain) PROVE TypeOK'
  BY <1>4, BlockType, OptionType DEF BlockDomain, CommandTypeOK
<1>5. CASE ExportJson \/ IgnoreOption
  BY <1>5, OptionType DEF ExportJson, IgnoreOption, CommandTypeOK
<1>6. ASSUME NEW c \in Captures, OpenInput(c) \/ OpenInputFails(c) PROVE TypeOK'
  <2>1. ReaderTypeOK(Frame)'
    BY <1>6, OpenType DEF OpenInput, OpenInputFails
  <2> QED
    BY <1>6, <2>1 DEF OpenInput, OpenInputFails, CommandTypeOK, TableTypeOK, OutcomeTypeOK,
         commandLine, tables, counters
<1>7. CASE OpenOutput
  BY <1>7 DEF OpenOutput, ReaderTypeOK, CommandTypeOK, TableTypeOK, OutcomeTypeOK,
       commandLine, tables, counters, readerVars
<1>8. CASE OpenOutputFails
  <2>1. ReaderTypeOK(Frame)'
    BY <1>8, CloseType DEF OpenOutputFails
  <2> QED
    BY <1>8, <2>1 DEF OpenOutputFails, CommandTypeOK, TableTypeOK, OutcomeTypeOK,
         commandLine, tables, counters
<1>9. ASSUME NEW r \in Records, ReadPacket(r) PROVE TypeOK'
  <2>1. ReaderTypeOK(Frame)'
    BY <1>9, RecordsTyped, ReadType DEF ReadPacket
  <2>2. packet' \in RawPacketOf(Frame)
    BY <2>1 DEF ReaderTypeOK
  <2>3. packet'.data \in Data
    BY <2>2 DEF RawPacketOf, Data, Half
  <2>4. seen' \in Seq(Data)
    BY <1>9, <2>3 DEF ReadPacket, OutcomeTypeOK
  <2> QED
    BY <1>9, <2>1, <2>4 DEF ReadPacket, CommandTypeOK, TableTypeOK, OutcomeTypeOK, commandLine, tables
<1>10. CASE ReadEnds
  <2>1. ReaderTypeOK(Frame)'
    BY <1>10, RecordsTyped, FailsType DEF ReadEnds
  <2> QED
    BY <1>10, <2>1 DEF ReadEnds, CommandTypeOK, TableTypeOK, OutcomeTypeOK,
         commandLine, tables, counters
<1>11. CASE SkipPacket
  <2>1. Stage.packet \in SentryPacket
    BY StageType
  <2> QED
    BY <1>11, <2>1 DEF SkipPacket, ReaderTypeOK, CommandTypeOK, TableTypeOK, OutcomeTypeOK,
         commandLine, counters, readerVars
<1>12. CASE DropPacket
  BY <1>12, DropType
<1>13. CASE ForwardPacket
  BY <1>13, ForwardType
<1>14. CASE Report
  BY <1>14, ReportType
<1>15. CASE UNCHANGED vars
  BY <1>15 DEF ReaderTypeOK, CommandTypeOK, TableTypeOK, OutcomeTypeOK,
       vars, commandLine, tables, counters, readerVars
<1> QED
  BY <1>1, <1>2, <1>3, <1>4, <1>5, <1>6, <1>7, <1>8, <1>9, <1>10, <1>11, <1>12, <1>13, <1>14, <1>15
  DEF Next, Exited

\* In every run of the engine the variables hold values of their C++ types: no
\* conversion of an address, a port or a length leaves the width of its field.
THEOREM TypesCorrect == Spec => []TypeOK
<1>1. Init => TypeOK
  BY InitType
<1>2. TypeOK /\ [Next]_vars => TypeOK'
  BY NextType
<1> QED
  BY <1>1, <1>2, PTL DEF Spec

-----------------------------------------------------------------------------
(* The payload. *)

\* The engine's own way to the payload of a TCP segment ends where the parser's
\* did, and reads no header byte outside the captured ones (sentry_engine_simple
\* 183-250, where the offsets are not checked).
THEOREM PayloadFound == Spec => []PayloadWhereParsed
<1>1. TypeOK => PayloadWhereParsed
  <2>1. SUFFICES ASSUME TypeOK, Tracked(Stage), Stage.packet.has_tcp
                 PROVE  /\ TransportOffset(packet.data) + 12 < packet.data.size
                        /\ PayloadOffset(packet.data) <= packet.data.size
                        /\ Stage.packet.payload_length = packet.data.size - PayloadOffset(packet.data)
    BY DEF PayloadWhereParsed
  <2> DEFINE d == packet.data
  <2>2. d \in Data
    BY <2>1, StageType DEF TypeOK
  <2>3. /\ d.frame.data_offset * 4 >= MIN_TCP_HEADER_LEN
        /\ ETH_HEADER_LEN + d.frame.ihl * 4 + d.frame.data_offset * 4 <= d.size
        /\ Stage.packet.payload_length =
              d.size - (ETH_HEADER_LEN + d.frame.ihl * 4 + d.frame.data_offset * 4)
    BY <2>1, <2>2, TcpHeaderInside DEF Stage
  <2>4. d.frame.ihl \in Nat /\ d.frame.data_offset \in Nat /\ d.size \in Nat
    BY <2>2 DEF Data, Frame, Nibble
  <2> QED
    BY <2>3, <2>4 DEF TransportOffset, PayloadOffset, ETH_HEADER_LEN, MIN_TCP_HEADER_LEN
<1> QED
  BY <1>1, TypesCorrect, PTL

-----------------------------------------------------------------------------
(* Blocking. *)

\* Nothing was inspected while the rules are still being read.
RulesComeFirst == pc \in {"start", "arguments"} => history = <<>>

\* What the flow table remembers of the history.
FlowsRemember ==
    /\ \A i \in 1 .. Len(history) : history[i].key \in DOMAIN flows
    /\ \A k \in DOMAIN flows :
          flows[k].blocked <=> \E j \in 1 .. Len(history) : history[j].key = k /\ Matched(history[j])

\* The inductive invariant: `blocked` alone does not say when it was set, and the
\* history alone does not say what the engine will do with the next packet.
BlockingInv == TypeOK /\ RulesComeFirst /\ FlowsRemember /\ DropExactlyFromFirstMatch

\* A flow the table does not hold yet has no past.
LEMMA Remembered ==
    ASSUME TypeOK, FlowsRemember, NEW k
    PROVE  FlowAt(k).blocked <=>
              \E j \in 1 .. Len(history) : history[j].key = k /\ Matched(history[j])
<1>1. CASE k \in DOMAIN flows
  BY <1>1 DEF FlowAt, FlowsRemember
<1>2. CASE k \notin DOMAIN flows
  BY <1>2 DEF FlowAt, FlowsRemember, NewFlow
<1> QED
  BY <1>1, <1>2

\* The step that inspects a packet: the flow is blocked from now on exactly if
\* some packet of it, up to this one, met a rule.
LEMMA TrackBlocks ==
    ASSUME BlockingInv, NEW k, NEW flow, NEW fate,
           Track(k, flow, fate),
           flow.blocked <=> FlowAt(k).blocked \/ isBlocked(rules, k.src_ip, flow.app_type, flow.sni),
           fate = "dropped" <=> flow.blocked
    PROVE  RulesComeFirst' /\ FlowsRemember' /\ DropExactlyFromFirstMatch'
<1> DEFINE e == Entry(k, flow, fate)
           n == Len(history)
<1>1. /\ history' = Append(history, e) /\ rules' = rules /\ pc' = "read"
      /\ flows' = Put(flows, k, flow)
  BY DEF Track, commandLine
<1>2. history \in Seq(HistoryEntry) /\ n \in Nat
  BY DEF BlockingInv, TypeOK, TableTypeOK
<1>3. /\ Len(history') = n + 1
      /\ history'[n + 1] = e
      /\ \A i \in 1 .. n : history'[i] = history[i]
  BY <1>1, <1>2
<1>4. \A x : Matched(x)' <=> Matched(x)
  BY <1>1 DEF Matched, isBlocked
<1>5. e.key = k /\ e.fate = fate
      /\ (Matched(e) <=> isBlocked(rules, k.src_ip, flow.app_type, flow.sni))
  BY DEF Entry, Matched
<1>. HIDE DEF e, n
<1>6. flow.blocked <=> \E j \in 1 .. n + 1 : history'[j].key = k /\ Matched(history'[j])
  <2>1. FlowAt(k).blocked <=> \E j \in 1 .. n : history[j].key = k /\ Matched(history[j])
    BY Remembered DEF BlockingInv, n
  <2>2. flow.blocked <=> FlowAt(k).blocked \/ Matched(e)
    BY <1>5
  <2>3. 1 .. n + 1 = (1 .. n) \cup {n + 1}
    BY <1>2
  <2> QED
    BY <1>3, <1>5, <2>1, <2>2, <2>3
<1>7. RulesComeFirst'
  BY <1>1 DEF RulesComeFirst
<1>8. FlowsRemember'
  <2>1. \A i \in 1 .. n + 1 : history'[i].key \in DOMAIN flows \cup {k}
    BY <1>2, <1>3, <1>5 DEF BlockingInv, FlowsRemember, n
  <2>2. DOMAIN flows' = DOMAIN flows \cup {k} /\ flows'[k] = flow
    BY <1>1 DEF Put
  <2>3. ASSUME NEW x \in DOMAIN flows', x # k
        PROVE  flows'[x].blocked <=> \E j \in 1 .. n + 1 : history'[j].key = x /\ Matched(history'[j])
    <3>1. x \in DOMAIN flows /\ flows'[x] = flows[x]
      BY <1>1, <2>2, <2>3 DEF Put
    <3>2. flows[x].blocked <=> \E j \in 1 .. n : history[j].key = x /\ Matched(history[j])
      BY <3>1 DEF BlockingInv, FlowsRemember, n
    <3>3. 1 .. n + 1 = (1 .. n) \cup {n + 1}
      BY <1>2
    <3> QED
      BY <1>3, <1>5, <2>3, <3>1, <3>2, <3>3
  <2>4. \A x \in DOMAIN flows' :
           flows'[x].blocked <=> \E j \in 1 .. n + 1 : history'[j].key = x /\ Matched(history'[j])
    BY <1>6, <2>2, <2>3
  <2> QED
    BY <1>3, <1>4, <2>1, <2>2, <2>4 DEF FlowsRemember
<1>9. DropExactlyFromFirstMatch'
  <2>1. ASSUME NEW i \in 1 .. n
        PROVE  history'[i].fate = "dropped" <=>
                  \E j \in 1 .. i : history'[j].key = history'[i].key /\ Matched(history'[j])
    <3>1. history[i].fate = "dropped" <=>
            \E j \in 1 .. i : history[j].key = history[i].key /\ Matched(history[j])
      BY DEF BlockingInv, DropExactlyFromFirstMatch, n
    <3>2. \A j \in 1 .. i : history'[j] = history[j]
      BY <1>2, <1>3
    <3> QED
      BY <1>3, <3>1, <3>2
  <2>2. history'[n + 1].fate = "dropped" <=>
          \E j \in 1 .. n + 1 : history'[j].key = history'[n + 1].key /\ Matched(history'[j])
    BY <1>3, <1>5, <1>6
  <2>3. \A i \in 1 .. n + 1 : i \in 1 .. n \/ i = n + 1
    BY <1>2
  <2>4. \A i \in 1 .. n + 1 :
           history'[i].fate = "dropped" <=>
              \E j \in 1 .. i : history'[j].key = history'[i].key /\ Matched(history'[j])
    BY <2>1, <2>2, <2>3
  <2> QED
    BY <1>3, <1>4, <2>4 DEF DropExactlyFromFirstMatch
<1> QED
  BY <1>7, <1>8, <1>9

\* A step that inspects no packet, and leaves the rules alone or is an option.
LEMMA QuietStep ==
    ASSUME BlockingInv, UNCHANGED <<flows, history>>,
           \/ UNCHANGED rules /\ (pc' \in {"start", "arguments"} => pc \in {"start", "arguments"})
           \/ pc = "arguments"
    PROVE  RulesComeFirst' /\ FlowsRemember' /\ DropExactlyFromFirstMatch'
<1>1. CASE history = <<>>
  <2>1. history' = <<>> /\ Len(history) = 0 /\ Len(history') = 0 /\ flows' = flows
    BY <1>1
  <2>2. \A k \in DOMAIN flows : ~flows[k].blocked
    BY <2>1 DEF BlockingInv, FlowsRemember
  <2>3. FlowsRemember'
    BY <2>1, <2>2 DEF BlockingInv, FlowsRemember, TypeOK, TableTypeOK, Flow
  <2> QED
    BY <2>1, <2>3 DEF RulesComeFirst, DropExactlyFromFirstMatch
<1>2. CASE history # <<>>
  <2>1. rules' = rules /\ history' = history /\ flows' = flows
    BY <1>2 DEF BlockingInv, RulesComeFirst
  <2>2. \A x : Matched(x)' <=> Matched(x)
    BY <2>1 DEF Matched, isBlocked
  <2>3. RulesComeFirst'
    BY <1>2 DEF BlockingInv, RulesComeFirst
  <2>4. FlowsRemember'
    BY <2>1, <2>2 DEF BlockingInv, FlowsRemember
  <2>5. DropExactlyFromFirstMatch'
    BY <2>1, <2>2 DEF BlockingInv, DropExactlyFromFirstMatch
  <2> QED
    BY <2>3, <2>4, <2>5
<1> QED
  BY <1>1, <1>2

\* The blocking invariant holds at the start,
LEMMA BlockingInit == ASSUME Init PROVE BlockingInv
<1>1. TypeOK
  BY InitType
<1>2. history = <<>> /\ Len(history) = 0 /\ flows = <<>> /\ DOMAIN flows = {}
  BY DEF Init
<1> QED
  BY <1>1, <1>2 DEF BlockingInv, RulesComeFirst, FlowsRemember, DropExactlyFromFirstMatch

\* and every step preserves it,
LEMMA BlockingNext ==
    ASSUME BlockingInv, [Next]_vars
    PROVE  RulesComeFirst' /\ FlowsRemember' /\ DropExactlyFromFirstMatch'
<1> DEFINE k == KeyOf(Stage.packet)
           flow == Inspected(k, Stage.packet, packet.data)
<1>1. /\ flow \in Flow
      /\ flow.blocked <=> FlowAt(k).blocked \/ isBlocked(rules, k.src_ip, flow.app_type, flow.sni)
  <2> HIDE DEF k
  <2> QED
    BY StageType, InspectedType DEF BlockingInv, TypeOK
<1>2. CASE DropPacket
  <2>1. Track(k, flow, "dropped") /\ flow.blocked
    BY <1>2 DEF DropPacket
  <2> HIDE DEF k, flow
  <2> QED
    BY <1>1, <2>1, TrackBlocks
<1>3. CASE ForwardPacket
  <2>1. Track(k, flow, "forwarded") /\ ~flow.blocked
    BY <1>3 DEF ForwardPacket
  <2>2. "forwarded" # "dropped"
    OBVIOUS
  <2> HIDE DEF k, flow
  <2> QED
    BY <1>1, <2>1, <2>2, TrackBlocks
<1>. HIDE DEF k, flow
<1>4. CASE UsageError \/ BeginArguments
  BY <1>4, QuietStep DEF UsageError, BeginArguments, commandLine, tables
<1>5. CASE \/ \E ip \in IpTexts : BlockIP(ip)
           \/ \E app \in AppNames : BlockApp(app)
           \/ \E domain \in Domains : BlockDomain(domain)
           \/ ExportJson \/ IgnoreOption
  BY <1>5, QuietStep DEF BlockIP, BlockApp, BlockDomain, ExportJson, IgnoreOption, Option, tables
<1>6. CASE \E c \in Captures : OpenInput(c) \/ OpenInputFails(c)
  BY <1>6, QuietStep DEF OpenInput, OpenInputFails, commandLine, tables
<1>7. CASE OpenOutput \/ OpenOutputFails
  BY <1>7, QuietStep DEF OpenOutput, OpenOutputFails, commandLine, tables
<1>8. CASE ReadEnds \/ \E r \in Records : ReadPacket(r)
  BY <1>8, QuietStep DEF ReadPacket, ReadEnds, commandLine, tables
<1>9. CASE SkipPacket
  BY <1>9, QuietStep DEF SkipPacket, commandLine
<1>10. CASE Report
  BY <1>10, QuietStep DEF Report, commandLine, tables
<1>11. CASE UNCHANGED vars
  BY <1>11, QuietStep DEF vars, commandLine, tables
<1> QED
  BY <1>2, <1>3, <1>4, <1>5, <1>6, <1>7, <1>8, <1>9, <1>10, <1>11 DEF Next, Exited

\* so that it holds in every run of the engine: the flow table, which is all the
\* loop looks at, agrees with the history it stands for.
THEOREM BlockingInductive == Spec => []BlockingInv
<1>1. Init => BlockingInv
  BY BlockingInit
<1>2. BlockingInv /\ [Next]_vars => BlockingInv'
  BY NextType, BlockingNext DEF BlockingInv
<1> QED
  BY <1>1, <1>2, PTL DEF Spec

\* A tracked packet is dropped exactly when it or an earlier packet of its flow
\* met a rule with the name its flow had by then (sentry_engine_simple 258-282),
\* whatever the rules, the names and the interleaving of the flows.
THEOREM DropsFromFirstMatch == Spec => []DropExactlyFromFirstMatch
<1>1. BlockingInv => DropExactlyFromFirstMatch
  BY DEF BlockingInv
<1> QED
  BY <1>1, BlockingInductive, PTL

-----------------------------------------------------------------------------
(* Addresses. *)

\* On a little-endian host the bytes an address is printed as are the bytes it
\* was read from.
LEMMA WordOfText ==
    ASSUME LittleEndian, NEW w \in Word
    PROVE  LoadWord(ipToString(w)) = w
<1>1. w.hi \in Half /\ w.lo \in Half /\ w = [hi |-> w.hi, lo |-> w.lo]
  BY DEF Word
<1>2. \A h \in Half : LoadHalf(<<h % 256, h \div 256>>) = h
  <2> TAKE h \in Half
  <2> DEFINE q == h \div 256
             r == h % 256
  <2>1. q \in Byte /\ r \in Byte /\ h = 256 * q + r
    BY Split
  <2>. HIDE DEF q, r
  <2>2. LoadHalf(<<r, q>>) = h
    BY <2>1, LoadedHalf
  <2> QED
    BY <2>2 DEF q, r
<1>3. LoadWord(ipToString(w)) = [lo |-> LoadHalf(<<w.lo % 256, w.lo \div 256>>),
                                hi |-> LoadHalf(<<w.hi % 256, w.hi \div 256>>)]
  BY DEF LoadWord, ipToString
<1> QED
  BY <1>1, <1>2, <1>3

\* The key of every entry has the source address of the packet it stands for.
SourceRecorded ==
    \A i \in 1 .. Len(history) :
        history[i].key.src_ip = LoadWord(history[i].packet.data.frame.src_ip)

\* The source in the key is the word read from the wire.
LEMMA KeySource ==
    ASSUME TypeOK, Tracked(Stage)
    PROVE  KeyOf(Stage.packet).src_ip = LoadWord(packet.data.frame.src_ip)
<1>1. packet.data \in Data /\ packet.data.frame.src_ip \in FourBytes
  BY StageType DEF TypeOK, Data, Frame
<1>2. Stage.packet.src_ip = ipToString(LoadWord(packet.data.frame.src_ip))
  BY <1>1, ParsedFromTheWire DEF Stage, AddressesOf
<1> QED
  BY <1>1, <1>2, AddressType DEF KeyOf

\* Every entry of the history keeps the source of its packet.
LEMMA SourceNext == ASSUME TypeOK, SourceRecorded, [Next]_vars PROVE SourceRecorded'
<1> DEFINE k == KeyOf(Stage.packet)
           flow == Inspected(k, Stage.packet, packet.data)
<1>1. ASSUME NEW fate, Track(k, flow, fate) PROVE SourceRecorded'
  <2> DEFINE e == Entry(k, flow, fate)
             n == Len(history)
  <2>1. e.key.src_ip = LoadWord(e.packet.data.frame.src_ip)
    BY <1>1, KeySource DEF Entry, Track
  <2>2. history' = Append(history, e)
    BY <1>1 DEF Track
  <2>3. history \in Seq(HistoryEntry) /\ n \in Nat
    BY DEF TypeOK, TableTypeOK
  <2>4. Len(history') = n + 1 /\ history'[n + 1] = e /\ \A i \in 1 .. n : history'[i] = history[i]
    BY <2>2, <2>3
  <2>5. \A i \in 1 .. n + 1 : i \in 1 .. n \/ i = n + 1
    BY <2>3
  <2> HIDE DEF e
  <2> QED
    BY <2>1, <2>4, <2>5 DEF SourceRecorded
<1>2. CASE DropPacket \/ ForwardPacket
  BY <1>1, <1>2 DEF DropPacket, ForwardPacket
<1>3. CASE ~(DropPacket \/ ForwardPacket)
  <2>1. history' = history
    BY <1>3 DEF Next, UsageError, BeginArguments, BlockIP, BlockApp, BlockDomain, ExportJson,
      IgnoreOption, Option, OpenInput, OpenInputFails, OpenOutput, OpenOutputFails, ReadPacket,
      ReadEnds, SkipPacket, Report, Exited, vars, tables
  <2> QED
    BY <2>1 DEF SourceRecorded
<1> QED
  BY <1>2, <1>3

\* On a little-endian host --block-ip means the address on the wire: whatever is
\* captured, every packet with that source is dropped.  (On a big-endian
\* host ipToString would name the octets in the other order.)
THEOREM BlockedSources ==
    ASSUME LittleEndian
    PROVE  Spec => []BlockedSourceIsDropped
<1>1. Init => SourceRecorded
  BY DEF Init, SourceRecorded
<1>2. TypeOK /\ SourceRecorded /\ [Next]_vars => SourceRecorded'
  BY SourceNext
<1>3. BlockingInv /\ SourceRecorded => BlockedSourceIsDropped
  <2> SUFFICES ASSUME BlockingInv, SourceRecorded,
                      NEW w \in rules.blocked_ips, NEW i \in 1 .. Len(history),
                      history[i].packet.data.frame.src_ip = ipToString(w)
               PROVE  history[i].fate = "dropped"
    BY DEF BlockedSourceIsDropped
  <2>1. w \in Word
    BY DEF BlockingInv, TypeOK, CommandTypeOK, Rules
  <2>2. history[i].key.src_ip = w
    BY <2>1, WordOfText DEF SourceRecorded
  <2>3. Matched(history[i])
    BY <2>2 DEF Matched, isBlocked
  <2>4. i \in 1 .. i
    BY DEF BlockingInv, TypeOK, TableTypeOK
  <2> QED
    BY <2>3, <2>4 DEF BlockingInv, DropExactlyFromFirstMatch
<1> QED
  BY <1>1, <1>2, <1>3, TypesCorrect, BlockingInductive, PTL DEF Spec
=============================================================================
