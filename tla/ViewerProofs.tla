----------------------------- MODULE ViewerProofs -----------------------------
(***************************************************************************)
(* Invariants of the two viewers, for every set of captures, records and   *)
(* limits, on hosts of either byte order.                                  *)
(***************************************************************************)
EXTENDS Viewers, PacketTheorems, ReaderTheorems

(* Types. *)

\* The records are what the reader expects.
LEMMA RecordsTyped == \A r \in Records : r.header \in PacketHeader /\ r.frame \in Frame
BY ViewersAssumption

\* The packet at hand, parsed.
LEMMA StageType ==
    ASSUME ReaderTypeOK(Frame)
    PROVE  packet.data \in Data /\ Stage \in ParseStage
<1>1. packet.data \in Data
  BY DEF ReaderTypeOK, RawPacketOf, Data, Half
<1> QED
  BY <1>1, ParseType DEF Stage

\* What is printed of a packet.
LEMMA ShownType ==
    ASSUME TypeOK, NEW names \in SUBSET Hosts
    PROVE  Shown(Stage, names) \in Printed
<1>1. Stage \in ParseStage
  BY StageType DEF TypeOK
<1>2. Stage.packet \in SentryPacket /\ Stage.offset \in Nat /\ Stage.packet.payload_length \in Nat
  BY <1>1 DEF ParseStage, SentryPacket
<1> DEFINE s == Stage
<1> HIDE DEF s
<1>3. Preview(s) \in [from : Nat, size : Nat]
  BY <1>2 DEF Preview, s
<1> QED
  BY <1>2, <1>3 DEF Shown, Printed, TypeOK, s

\* Every iteration keeps the types.
LEMMA ShowType ==
    ASSUME TypeOK, PrintPacket \/ ParseError \/ PassOver \/ PrintLine
    PROVE  TypeOK'
<1>1. /\ ReaderTypeOK(Frame)' /\ parsed' \in SentryPacket /\ pc' \in {"limit", "read"}
      /\ UNCHANGED <<program, max_packets, packet_count, exit_code, seen>>
  BY StageType DEF TypeOK, PrintPacket, ParseError, PassOver, PrintLine, Show, ParseStage,
     ReaderTypeOK, readerVars
<1>2. CASE PrintPacket
  <2>1. Shown(Stage, {}) \in Printed
    BY ShownType
  <2> QED
    BY <1>1, <1>2, <2>1 DEF TypeOK, PrintPacket
<1>3. CASE ParseError
  BY <1>1, <1>3 DEF TypeOK, ParseError
<1>4. CASE PassOver
  BY <1>1, <1>4 DEF TypeOK, PassOver
<1>5. CASE PrintLine
  <2> DEFINE names == NamesIn(Stage.packet, packet.data)
  <2>1. names = {} \/ names = sniOf(packet.data)
    BY DEF NamesIn
  <2>2. names = {} \/ \E host : names = {host}
    BY <2>1 DEF sniOf
  <2>3. names \in SUBSET Hosts
    <3>1. packet.data.frame.payload \in [kind : PayloadKinds, host : Hosts]
      BY StageType, PayloadsAssumption DEF TypeOK, Data, Frame
    <3> QED
      BY <2>1, <3>1 DEF sniOf
  <2>4. /\ printed' = Append(printed, Shown(Stage, names))
        /\ tls_count' = tls_count + NamesCounted(names) /\ UNCHANGED parse_errors
    BY <1>5 DEF PrintLine
  <2> HIDE DEF names
  <2>5. Shown(Stage, names) \in Printed
    BY <2>3, ShownType
  <2>6. Cardinality(names) \in Nat
    <3>1. CASE names = {}
      <4>1. Cardinality(names) = 0
        BY <3>1, FS_EmptySet, Zenon
      <4> QED
        BY <4>1
    <3>2. CASE \E host : names = {host}
      <4>1. PICK host : names = {host}
        BY <3>2
      <4>2. Cardinality(names) = 1
        BY <4>1, FS_Singleton, Zenon
      <4> QED
        BY <4>2
    <3> QED
      BY <2>2, <3>1, <3>2
  <2> QED
    BY <1>1, <2>4, <2>5, <2>6 DEF TypeOK, NamesCounted
<1> QED
  BY <1>2, <1>3, <1>4, <1>5

\* The viewers' variables hold values of their types in every run: what is printed is
\* a packet with fields of their width, a preview and hosts.
THEOREM ViewerTypesCorrect == Spec => []TypeOK
<1>1. Init => TypeOK
  <2>1. FreshPacket \in SentryPacket
    BY DEF SentryPacket, FreshPacket, Half, Nibble, Byte, FourBytes
  <2> QED
    BY <2>1, ReaderInitType, ViewersAssumption DEF Init, TypeOK
<1>2. TypeOK /\ [Next]_vars => TypeOK'
  <2> SUFFICES ASSUME TypeOK, [Next]_vars PROVE TypeOK'
    OBVIOUS
  <2> USE DEF TypeOK, Exit, printing, readerVars
  <2>1. CASE UsageError \/ FileNamed \/ LimitUnreadable \/ LimitStops
    BY <2>1 DEF UsageError, FileNamed, LimitUnreadable, LimitStops, ReaderTypeOK
  <2>2. ASSUME NEW n \in Limits, LimitNamed(n) PROVE TypeOK'
    BY <2>2, ViewersAssumption DEF LimitNamed, ReaderTypeOK
  <2>3. ASSUME NEW c \in Captures, OpenFile(c) \/ OpenFileFails(c) PROVE TypeOK'
    <3>1. ReaderTypeOK(Frame)'
      BY <2>3, OpenType DEF OpenFile, OpenFileFails
    <3> QED
      BY <2>3, <3>1 DEF OpenFile, OpenFileFails
  <2>4. ASSUME NEW r \in Records, ReadPacket(r) PROVE TypeOK'
    <3>1. ReaderTypeOK(Frame)'
      BY <2>4, RecordsTyped, ReadType DEF ReadPacket
    <3>2. packet'.data \in Data
      BY <3>1 DEF ReaderTypeOK, RawPacketOf, Data, Half
    <3> QED
      BY <2>4, <3>1, <3>2 DEF ReadPacket
  <2>5. CASE ReadEnds
    <3>1. ReaderTypeOK(Frame)'
      BY <2>5, RecordsTyped, FailsType DEF ReadEnds
    <3> QED
      BY <2>5, <3>1 DEF ReadEnds
  <2>6. CASE PrintPacket \/ ParseError \/ PassOver \/ PrintLine
    BY <2>6, ShowType
  <2>7. CASE Summary
    <3>1. ReaderTypeOK(Frame)'
      BY <2>7, CloseType DEF Summary
    <3> QED
      BY <2>7, <3>1 DEF Summary
  <2>8. CASE UNCHANGED vars
    BY <2>8 DEF vars, ReaderTypeOK
  <2> QED
    BY <2>1, <2>2, <2>3, <2>4, <2>5, <2>6, <2>7, <2>8 DEF Next, Exited
<1> QED
  BY <1>1, <1>2, PTL DEF Spec
-----------------------------------------------------------------------------
(* The limit. *)

\* The packets counted are the records read, none before the file is open; only
\* flow_sentry has a limit, and it goes on reading only below it.  Below its limit the
\* loop ends where the reader does.
LimitInv ==
    /\ packet_count = Len(seen)
    /\ pc \in {"start", "open"} => packet_count = 0
    /\ program # "flow_sentry" => max_packets = -1
    /\ max_packets > 0 =>
          /\ packet_count <= max_packets
          /\ pc = "read" => packet_count < max_packets
    /\ pc \in {"read", "show", "limit"} => file_open
    /\ pc = "summary" /\ (max_packets <= 0 \/ packet_count < max_packets) => disk.at # "record"

\* A read that fails in an open file is the last one at the beginning of a record.
LEMMA FailsAway ==
    ASSUME ReaderTypeOK(Frame), file_open, readFails
    PROVE  disk'.at # "record"
<1>1. CASE nothingToRead
  BY <1>1 DEF nothingToRead, CanRead, readerVars
<1>2. CASE ~nothingToRead
  <2>1. Stands("inside") \/ Stands("failed")
    BY <1>2 DEF readFails, lengthRefused, dataCutShort, headerCutShort, fileEnds
  <2>2. \A place : Stands(place) => disk'.at = place
    BY DEF Stands, ReaderTypeOK
  <2> QED
    BY <2>1, <2>2
<1> QED
  BY <1>1, <1>2

\* flow_sentry reads no record past its limit, whatever the limit (sentry_main 121-124,
\* where the comparison comes after the packet was counted and printed), and neither
\* viewer leaves one unread before it: a limit of zero or below is none.
THEOREM LimitKept == Spec => []StopsAtLimit
<1>1. Init => LimitInv
  BY DEF Init, LimitInv
<1>2. TypeOK /\ LimitInv /\ [Next]_vars => LimitInv'
  <2> SUFFICES ASSUME TypeOK, LimitInv, [Next]_vars PROVE LimitInv'
    OBVIOUS
  <2>1. packet_count \in Nat /\ max_packets \in Int /\ seen \in Seq(Data)
    BY DEF TypeOK
  <2> USE DEF LimitInv, Exit, printing
  <2>2. CASE UsageError \/ FileNamed \/ LimitUnreadable
    BY <2>1, <2>2 DEF UsageError, FileNamed, LimitUnreadable
  <2>3. ASSUME NEW n \in Limits, LimitNamed(n) PROVE LimitInv'
    BY <2>1, <2>3, ViewersAssumption DEF LimitNamed
  <2>4. ASSUME NEW c \in Captures, OpenFile(c) \/ OpenFileFails(c) PROVE LimitInv'
    BY <2>1, <2>4 DEF OpenFile, OpenFileFails, open
  <2>5. ASSUME NEW r \in Records, ReadPacket(r) PROVE LimitInv'
    <3>1. Len(seen') = Len(seen) + 1 /\ file_open'
      BY <2>1, <2>5 DEF ReadPacket, readNextPacket
    <3> QED
      BY <2>1, <2>5, <3>1 DEF ReadPacket
  <2>6. CASE ReadEnds
    <3>1. disk'.at # "record"
      BY <2>6, FailsAway DEF ReadEnds, TypeOK
    <3> QED
      BY <2>1, <2>6, <3>1 DEF ReadEnds
  <2>7. CASE PrintPacket \/ ParseError
    BY <2>1, <2>7 DEF PrintPacket, ParseError, Show, readerVars
  <2>8. CASE PassOver \/ PrintLine
    BY <2>1, <2>8 DEF PassOver, PrintLine, Show, readerVars
  <2>9. CASE LimitStops
    BY <2>1, <2>9 DEF LimitStops, LimitReached, readerVars
  <2>10. CASE UNCHANGED vars
    BY <2>10 DEF vars, readerVars
  <2>11. CASE Summary
    BY <2>1, <2>11 DEF Summary
  <2> QED
    BY <2>2, <2>3, <2>4, <2>5, <2>6, <2>7, <2>8, <2>9, <2>10, <2>11 DEF Next, Exited
<1>3. LimitInv => StopsAtLimit
  BY DEF LimitInv, StopsAtLimit
<1> QED
  BY <1>1, <1>2, <1>3, ViewerTypesCorrect, PTL DEF Spec
-----------------------------------------------------------------------------
(* What is printed. *)

\* The packet that is about to be shown is the last one read.
LastRead ==
    /\ packet_count = Len(seen)
    /\ pc = "show" => seen # <<>> /\ seen[Len(seen)] = packet.data

\* The line of a record is made of that record, parsed on its own.
Line(n) ==
    [number |-> n, packet |-> Alone(n).packet, preview |-> Preview(Alone(n)),
     names |-> IF program = "flow_sentry" THEN {} ELSE NamesIn(Alone(n).packet, seen[n])]

LinesStand ==
    \A i \in DOMAIN printed :
        /\ printed[i].number \in DOMAIN seen
        /\ Alone(printed[i].number).ok
        /\ printed[i] = Line(printed[i].number)

\* Reading on changes no line.
LEMMA LinesStay ==
    ASSUME LinesStand, UNCHANGED <<program, printed>>, DOMAIN seen \subseteq DOMAIN seen',
           \A n \in DOMAIN seen : seen'[n] = seen[n]
    PROVE  LinesStand'
<1>1. \A n \in DOMAIN seen : Alone(n)' = Alone(n) /\ Line(n)' = Line(n)
  BY DEF Alone, Line
<1> QED
  BY <1>1 DEF LinesStand

\* What the loop is about to show is the last record read, parsed on its own.
LEMMA StageIsAlone ==
    ASSUME TypeOK, LastRead, pc = "show"
    PROVE  /\ packet_count \in DOMAIN seen /\ packet_count = Len(seen) /\ Len(seen) \in Nat
           /\ seen[packet_count] = packet.data
           /\ Stage = Alone(packet_count)
<1>1. seen \in Seq(Data) /\ seen # <<>>
  BY DEF TypeOK, LastRead
<1>2. packet_count \in DOMAIN seen /\ packet_count = Len(seen) /\ seen[packet_count] = packet.data
  BY <1>1 DEF LastRead
<1> QED
  BY <1>1, <1>2 DEF Stage, Alone, parse

\* A line printed now is the line of the last record.
LEMMA PrintsThatLine ==
    ASSUME TypeOK, LastRead, LinesStand, PrintPacket \/ PrintLine
    PROVE  /\ Alone(packet_count).ok
           /\ printed' = Append(printed, Line(packet_count))
           /\ LinesStand'
<1>1. pc = "show" /\ Stage.ok /\ UNCHANGED <<program, seen>>
  BY DEF PrintPacket, PrintLine, Show
<1>2. /\ packet_count \in DOMAIN seen /\ seen[packet_count] = packet.data
      /\ Stage = Alone(packet_count)
  BY <1>1, StageIsAlone
<1>3. printed' = Append(printed, Line(packet_count))
  <2>1. CASE PrintPacket
    BY <1>2, <2>1 DEF PrintPacket, Show, Shown, Line
  <2>2. CASE PrintLine
    <3>1. program # "flow_sentry"
      BY <2>2 DEF PrintLine, Show
    <3> QED
      BY <1>2, <2>2, <3>1 DEF PrintLine, Shown, Line
  <2> QED
    BY <2>1, <2>2
<1>4. \A n : Alone(n)' = Alone(n) /\ Line(n)' = Line(n)
  BY <1>1 DEF Alone, Line
<1>5. printed \in Seq(Printed)
  BY DEF TypeOK
<1> DEFINE line == Line(packet_count)
<1>6. line.number = packet_count
  BY DEF Line
<1> HIDE DEF line
<1>7. /\ DOMAIN printed' = DOMAIN printed \cup {Len(printed) + 1}
      /\ printed'[Len(printed) + 1] = line
      /\ \A i \in DOMAIN printed : printed'[i] = printed[i]
  BY <1>3, <1>5 DEF line
<1>8. LinesStand'
  <2> SUFFICES ASSUME NEW i \in DOMAIN printed'
               PROVE  /\ printed'[i].number \in DOMAIN seen
                      /\ Alone(printed'[i].number).ok
                      /\ printed'[i] = Line(printed'[i].number)
    BY <1>1, <1>4 DEF LinesStand
  <2>1. CASE i \in DOMAIN printed
    BY <1>7, <2>1 DEF LinesStand
  <2>2. CASE i = Len(printed) + 1
    BY <1>1, <1>2, <1>6, <1>7, <2>2 DEF line
  <2> QED
    BY <1>7, <2>1, <2>2
<1> QED
  BY <1>1, <1>2, <1>3, <1>8

\* Between two lines nothing changes what was read and printed, or one record more
\* is read.
LEMMA ReadsOrNot ==
    ASSUME TypeOK, [Next]_vars, ~(PrintPacket \/ ParseError \/ PassOver \/ PrintLine)
    PROVE  /\ UNCHANGED <<program, printed, parse_errors, tls_count>>
           /\ \/ /\ UNCHANGED <<packet_count, seen>>
                 /\ pc' # "show" \/ UNCHANGED packet
                 /\ pc = "show" <=> pc' = "show"
                 /\ pc' = "summary" => pc \in {"read", "limit", "summary"}
              \/ /\ pc = "read" /\ pc' = "show"
                 /\ packet_count' = packet_count + 1
                 /\ seen' = Append(seen, packet'.data) /\ packet'.data \in Data
<1> USE DEF Exit, printing
<1>1. CASE UsageError \/ FileNamed \/ LimitUnreadable \/ LimitStops \/ ReadEnds \/ Summary
  BY <1>1 DEF UsageError, FileNamed, LimitUnreadable, LimitStops, ReadEnds, Summary
<1>2. ASSUME NEW n \in Limits, LimitNamed(n)
      PROVE  /\ UNCHANGED <<program, printed, parse_errors, tls_count, packet_count, seen>>
             /\ pc' = "open" /\ pc = "start"
  BY <1>2 DEF LimitNamed
<1>3. ASSUME NEW c \in Captures, OpenFile(c) \/ OpenFileFails(c)
      PROVE  /\ UNCHANGED <<program, printed, parse_errors, tls_count, packet_count, seen>>
             /\ pc' \in {"read", "exit"} /\ pc = "open"
  BY <1>3 DEF OpenFile, OpenFileFails
<1>4. ASSUME NEW r \in Records, ReadPacket(r)
      PROVE  /\ UNCHANGED <<program, printed, parse_errors, tls_count>>
             /\ pc = "read" /\ pc' = "show" /\ packet_count' = packet_count + 1
             /\ seen' = Append(seen, packet'.data) /\ packet'.data \in Data
  <2>1. ReaderTypeOK(Frame)'
    BY <1>4, RecordsTyped, ReadType DEF ReadPacket, TypeOK
  <2> QED
    BY <1>4, <2>1 DEF ReadPacket, ReaderTypeOK, RawPacketOf, Data, Half
<1>5. CASE UNCHANGED vars
  BY <1>5 DEF vars, readerVars
<1> QED
  BY <1>1, <1>2, <1>3, <1>4, <1>5 DEF Next, Exited

\* The last record and the lines, in every run.
LEMMA LinesHold == Spec => [](LastRead /\ LinesStand)
<1>1. Init => LastRead /\ LinesStand
  BY DEF Init, LastRead, LinesStand
<1>2. TypeOK /\ LastRead /\ LinesStand /\ [Next]_vars => (LastRead /\ LinesStand)'
  <2> SUFFICES ASSUME TypeOK, LastRead, LinesStand, [Next]_vars
               PROVE  LastRead' /\ LinesStand'
    OBVIOUS
  <2>1. CASE ParseError \/ PassOver
    <3>1. UNCHANGED <<packet_count, seen, program, printed>> /\ pc' # "show"
      BY <2>1 DEF ParseError, PassOver, Show
    <3> QED
      BY <3>1, LinesStay DEF LastRead
  <2>2. CASE PrintPacket \/ PrintLine
    <3>1. UNCHANGED <<packet_count, seen>> /\ pc' # "show"
      BY <2>2 DEF PrintPacket, PrintLine, Show
    <3> QED
      BY <2>2, <3>1, PrintsThatLine DEF LastRead
  <2>3. CASE ~(PrintPacket \/ ParseError \/ PassOver \/ PrintLine)
    <3>1. CASE UNCHANGED <<packet_count, seen>>
      <4>1. LastRead'
        BY <2>3, <3>1, ReadsOrNot DEF LastRead
      <4> QED
        BY <2>3, <3>1, <4>1, ReadsOrNot, LinesStay
    <3>2. CASE ~UNCHANGED <<packet_count, seen>>
      <4>1. /\ UNCHANGED <<program, printed>> /\ packet_count' = packet_count + 1
            /\ seen' = Append(seen, packet'.data) /\ packet'.data \in Data
        BY <2>3, <3>2, ReadsOrNot
      <4>2. seen \in Seq(Data)
        BY DEF TypeOK
      <4>3. /\ Len(seen') = Len(seen) + 1 /\ seen' # <<>> /\ seen'[Len(seen')] = packet'.data
            /\ DOMAIN seen \subseteq DOMAIN seen'
            /\ \A n \in DOMAIN seen : seen'[n] = seen[n]
        BY <4>1, <4>2
      <4> QED
        BY <4>1, <4>3, LinesStay DEF LastRead
    <3> QED
      BY <3>1, <3>2
  <2> QED
    BY <2>1, <2>2, <2>3
<1> QED
  BY <1>1, <1>2, ViewerTypesCorrect, PTL DEF Spec

\* Whatever the frames before it left in the packet object the loops reuse, each
\* packet is printed as it would be on its own (sentry_main 106-125,
\* sentry_inspector_simple 20-58, LayerParser::parse's reset).
THEOREM PrintedAlone == Spec => []ShowsThatPacket
<1>1. LinesStand => ShowsThatPacket
  BY DEF LinesStand, ShowsThatPacket, Line
<1> QED
  BY <1>1, LinesHold, PTL

\* The preview of every printed packet starts where its payload does and ends
\* within the captured bytes, for header lengths and captured lengths of every
\* size (sentry_main 55-64).
THEOREM PreviewShowsPayload == Spec => []PreviewIsPayload
<1>1. TypeOK /\ LinesStand => PreviewIsPayload
  <2> SUFFICES ASSUME TypeOK, LinesStand, NEW i \in DOMAIN printed,
                      printed[i].packet.payload_length > 0
               PROVE  LET shown == printed[i]
                          d == seen[shown.number]
                      IN  /\ shown.preview.from + shown.preview.size <= d.size
                          /\ shown.packet.has_tcp => shown.preview.from = PayloadOffset(d)
                          /\ shown.packet.has_udp => shown.preview.from = TransportOffset(d) + 8
    BY DEF PreviewIsPayload
  <2> DEFINE n == printed[i].number
             d == seen[n]
             s == Alone(n)
  <2>1. n \in DOMAIN seen /\ s.ok /\ printed[i] = Line(n)
    BY DEF LinesStand
  <2>2. d \in Data
    BY <2>1 DEF TypeOK
  <2>3. printed[i].packet = s.packet /\ printed[i].preview = Preview(s)
    BY <2>1 DEF Line
  <2> HIDE DEF n
  <2>4. s = parse(d, FreshPacket)
    BY DEF Alone
  <2>5. s \in ParseStage
    BY <2>2, <2>4, ParseType
  <2> HIDE DEF s, d
  <2>6. /\ s.offset + s.packet.payload_length = d.size
        /\ s.packet.has_tcp => s.offset = PayloadOffset(d)
        /\ s.packet.has_udp => s.offset = TransportOffset(d) + 8
    BY <2>1, <2>2, <2>3, <2>4, PayloadIsTheRest DEF UDP_HEADER_LEN
  <2>7. s.offset \in Nat /\ s.packet.payload_length \in Nat
    BY <2>5 DEF ParseStage, SentryPacket
  <2>8. Preview(s).from = s.offset /\ Preview(s).size <= s.packet.payload_length
        /\ Preview(s).size \in Nat
    BY <2>7 DEF Preview
  <2>9. s.offset + Preview(s).size <= d.size
    BY <2>6, <2>7, <2>8
  <2> QED
    BY <2>3, <2>6, <2>8, <2>9 DEF d, n
<1> QED
  BY <1>1, LinesHold, ViewerTypesCorrect, PTL
-----------------------------------------------------------------------------
(* The totals. *)

\* The records the loop is done with, and those it prints.
Handled == {n \in 1 .. Len(seen) : pc = "show" => n < Len(seen)}
Wanted(n) == Alone(n).ok /\ (program = "flow_sentry" \/ Alone(n).packet.has_ip)
Fine == {n \in Handled : Wanted(n)}
Unread == {n \in Handled : ~Alone(n).ok}
NamedLines == {i \in 1 .. Len(printed) : printed[i].names # {}}

TotalsAgree ==
    /\ {printed[i].number : i \in DOMAIN printed} = Fine
    /\ Len(printed) = Cardinality(Fine)
    /\ program = "flow_sentry" => parse_errors = Cardinality(Unread)
    /\ tls_count = Cardinality(NamedLines)

\* Once the loop is done with a record, it is done with one more.
LEMMA HandlesOneMore ==
    ASSUME TypeOK, LastRead, PrintPacket \/ ParseError \/ PassOver \/ PrintLine
    PROVE  LET m == packet_count
           IN  /\ m \in Nat /\ m > 0
               /\ Fine \subseteq 1 .. m - 1 /\ Unread \subseteq 1 .. m - 1
               /\ Fine' = IF Wanted(m) THEN Fine \cup {m} ELSE Fine
               /\ Unread' = IF Alone(m).ok THEN Unread ELSE Unread \cup {m}
<1> DEFINE m == packet_count
<1>1. pc = "show" /\ pc' # "show" /\ UNCHANGED <<program, seen>>
  BY DEF PrintPacket, ParseError, PassOver, PrintLine, Show
<1>2. m = Len(seen) /\ m \in Nat /\ m > 0
  <2>1. m \in DOMAIN seen /\ m = Len(seen) /\ seen \in Seq(Data)
    BY <1>1, StageIsAlone DEF TypeOK
  <2> QED
    BY <2>1
<1>3. \A n : Alone(n)' = Alone(n) /\ Wanted(n)' = Wanted(n)
  BY <1>1 DEF Alone, Wanted
<1>4. Handled = 1 .. m - 1 /\ Handled' = Handled \cup {m}
  BY <1>1, <1>2 DEF Handled
<1> HIDE DEF m
<1>5. Fine' = {n \in Handled' : Wanted(n)} /\ Unread' = {n \in Handled' : ~Alone(n).ok}
  BY <1>3 DEF Fine, Unread
<1> QED
  BY <1>2, <1>4, <1>5 DEF Fine, Unread, m

\* The names of a line are none or one.
LEMMA OneNameAtMost ==
    ASSUME NEW p, NEW d
    PROVE  Cardinality(NamesIn(p, d)) = IF NamesIn(p, d) = {} THEN 0 ELSE 1
<1>1. NamesIn(p, d) = {} \/ NamesIn(p, d) = {d.frame.payload.host}
  BY DEF NamesIn, sniOf
<1>2. Cardinality({}) = 0
  BY FS_EmptySet
<1>3. Cardinality({d.frame.payload.host}) = 1
  BY FS_Singleton
<1> QED
  BY <1>1, <1>2, <1>3

\* Printing the record at hand keeps the totals right.
LEMMA PrintedCounts ==
    ASSUME TypeOK, LastRead, LinesStand, TotalsAgree, PrintPacket \/ PrintLine
    PROVE  TotalsAgree'
<1> DEFINE m == packet_count
           k == Len(printed)
<1>1. /\ Alone(m).ok /\ printed' = Append(printed, Line(m))
      /\ pc = "show" /\ UNCHANGED <<program, parse_errors, seen>>
  BY PrintsThatLine DEF PrintPacket, PrintLine, Show
<1>2. Stage = Alone(m) /\ seen[m] = packet.data
  BY <1>1, StageIsAlone
<1>3. Wanted(m)
  BY <1>1, <1>2 DEF Wanted, PrintPacket, PrintLine, Show
<1>4. /\ m \in Nat /\ m > 0 /\ Fine \subseteq 1 .. m - 1 /\ Fine' = Fine \cup {m} /\ Unread' = Unread
  BY <1>1, <1>3, HandlesOneMore
<1>5. Cardinality(Fine \cup {m}) = Cardinality(Fine) + 1
  <2>1. m - 1 \in Nat /\ (m - 1) + 1 = m
    BY <1>4
  <2> QED
    BY <1>4, <2>1, OnePlaceMore
<1>6. printed \in Seq(Printed)
  BY DEF TypeOK
<1> DEFINE line == Line(m)
<1>7. line.number = m
  BY DEF Line
<1> HIDE DEF line, m
<1>8. /\ k \in Nat /\ Len(printed') = k + 1 /\ DOMAIN printed = 1 .. k
      /\ DOMAIN printed' = (1 .. k) \cup {k + 1} /\ 1 .. k + 1 = (1 .. k) \cup {k + 1}
      /\ printed'[k + 1] = line
      /\ \A i \in 1 .. k : printed'[i] = printed[i]
  BY <1>1, <1>6 DEF line
<1> HIDE DEF k
<1>9. {printed'[i].number : i \in DOMAIN printed'} = {printed[i].number : i \in DOMAIN printed} \cup {m}
  BY <1>7, <1>8
<1>10. Len(printed') = Cardinality(Fine')
  BY <1>4, <1>5, <1>8 DEF TotalsAgree, k
<1>11. NamedLines' = IF line.names = {} THEN NamedLines ELSE NamedLines \cup {k + 1}
  BY <1>8 DEF NamedLines, k
<1>12. /\ Cardinality(NamedLines) \in Nat
       /\ Cardinality(NamedLines \cup {k + 1}) = Cardinality(NamedLines) + 1
  <2>1. NamedLines \in SUBSET (1 .. k)
    BY DEF NamedLines, k
  <2> QED
    BY <1>8, <2>1, OnePlaceMore
<1>13. tls_count' = tls_count + IF line.names = {} THEN 0 ELSE 1
  <2>1. tls_count \in Nat
    BY DEF TypeOK
  <2>2. CASE PrintPacket
    <3>1. line.names = {} /\ tls_count' = tls_count
      BY <2>2 DEF PrintPacket, Show, line, Line
    <3> QED
      BY <2>1, <3>1
  <2>3. CASE PrintLine
    <3>1. line.names = NamesIn(Alone(m).packet, seen[m])
      BY <2>3 DEF PrintLine, Show, line, Line
    <3>2. tls_count' = tls_count + Cardinality(NamesIn(Alone(m).packet, seen[m]))
      BY <1>2, <2>3 DEF PrintLine, NamesCounted
    <3> QED
      BY <3>1, <3>2, OneNameAtMost
  <2> QED
    BY <2>2, <2>3
<1>14. tls_count' = Cardinality(NamedLines')
  BY <1>11, <1>12, <1>13 DEF TotalsAgree
<1> QED
  BY <1>1, <1>4, <1>9, <1>10, <1>14 DEF TotalsAgree

\* Passing a record over keeps them right too.
LEMMA PassedCounts ==
    ASSUME TypeOK, LastRead, LinesStand, TotalsAgree, ParseError \/ PassOver
    PROVE  TotalsAgree'
<1> DEFINE m == packet_count
<1>1. /\ pc = "show" /\ UNCHANGED <<program, printed, tls_count>>
  BY DEF ParseError, PassOver, Show
<1>2. Stage = Alone(m)
  BY <1>1, StageIsAlone
<1>3. ~Wanted(m)
  BY <1>2 DEF Wanted, ParseError, PassOver, Show
<1>4. /\ m \in Nat /\ m > 0 /\ Unread \subseteq 1 .. m - 1
      /\ Fine' = Fine /\ Unread' = IF Alone(m).ok THEN Unread ELSE Unread \cup {m}
  BY <1>3, HandlesOneMore
<1>5. Cardinality(Unread \cup {m}) = Cardinality(Unread) + 1
  <2>1. m - 1 \in Nat /\ (m - 1) + 1 = m
    BY <1>4
  <2> QED
    BY <1>4, <2>1, OnePlaceMore
<1> HIDE DEF m
<1>6. program = "flow_sentry" => parse_errors' = Cardinality(Unread')
  <2> SUFFICES ASSUME program = "flow_sentry" PROVE parse_errors' = Cardinality(Unread')
    OBVIOUS
  <2>1. ParseError /\ ~Alone(m).ok
    BY <1>2 DEF ParseError, PassOver, Show, m
  <2>2. parse_errors' = parse_errors + 1
    BY <2>1 DEF ParseError
  <2> QED
    BY <1>4, <1>5, <2>1, <2>2 DEF TotalsAgree
<1>7. NamedLines' = NamedLines
  BY <1>1 DEF NamedLines
<1> QED
  BY <1>1, <1>4, <1>6, <1>7 DEF TotalsAgree

\* Every other step leaves the records done with as they are.
LEMMA OthersCount ==
    ASSUME TypeOK, LastRead, TotalsAgree, [Next]_vars,
           ~(PrintPacket \/ ParseError \/ PassOver \/ PrintLine)
    PROVE  TotalsAgree'
<1>1. seen \in Seq(Data)
  BY DEF TypeOK
<1>2. /\ UNCHANGED <<program, printed, parse_errors, tls_count>>
      /\ Handled' = Handled
      /\ \A n \in Handled : Alone(n)' = Alone(n) /\ Wanted(n)' = Wanted(n)
  <2>1. CASE UNCHANGED <<packet_count, seen>>
    <3>1. pc = "show" <=> pc' = "show"
      BY <2>1, ReadsOrNot
    <3> QED
      BY <2>1, <3>1, ReadsOrNot DEF Handled, Alone, Wanted
  <2>2. CASE ~UNCHANGED <<packet_count, seen>>
    <3>1. /\ pc = "read" /\ pc' = "show" /\ packet'.data \in Data
          /\ seen' = Append(seen, packet'.data) /\ UNCHANGED <<program, printed, parse_errors, tls_count>>
      BY <2>2, ReadsOrNot
    <3>2. /\ Len(seen) \in Nat /\ Len(seen') = Len(seen) + 1
          /\ \A n \in 1 .. Len(seen) : seen'[n] = seen[n]
      BY <1>1, <3>1
    <3>3. Handled = 1 .. Len(seen) /\ Handled' = 1 .. Len(seen)
      BY <3>1, <3>2 DEF Handled
    <3> QED
      BY <3>1, <3>2, <3>3 DEF Alone, Wanted
  <2> QED
    BY <2>1, <2>2
<1>3. Fine' = Fine /\ Unread' = Unread
  BY <1>2 DEF Fine, Unread
<1> QED
  BY <1>2, <1>3 DEF TotalsAgree, NamedLines

\* The totals, in every run.
LEMMA TotalsHold == Spec => []TotalsAgree
<1>1. Init => TotalsAgree
  <2> SUFFICES ASSUME Init PROVE TotalsAgree
    OBVIOUS
  <2>1. Len(seen) = 0 /\ Len(printed) = 0 /\ DOMAIN printed = {} /\ parse_errors = 0 /\ tls_count = 0
    BY DEF Init
  <2>2. Fine = {} /\ Unread = {} /\ NamedLines = {}
    BY <2>1 DEF Fine, Unread, Handled, NamedLines
  <2>3. Cardinality({}) = 0
    BY FS_EmptySet
  <2> QED
    BY <2>1, <2>2, <2>3 DEF TotalsAgree
<1>2. TypeOK /\ LastRead /\ LinesStand /\ TotalsAgree /\ [Next]_vars => TotalsAgree'
  BY PrintedCounts, PassedCounts, OthersCount
<1> QED
  BY <1>1, <1>2, LinesHold, ViewerTypesCorrect, PTL DEF Spec

\* The totals of both viewers account for every record read, once: printed, a parse
\* error, or passed over for want of IPv4, for captures of every length
\* (sentry_main 105-135, sentry_inspector_simple 22-72).
THEOREM AllAccountedFor == Spec => []EveryPacketAccounted
<1>1. LastRead /\ TypeOK /\ TotalsAgree => EveryPacketAccounted
  <2> SUFFICES ASSUME LastRead, TypeOK, TotalsAgree, pc \in {"read", "summary"}
               PROVE  LET readable == {n \in DOMAIN seen : Alone(n).ok}
                          wanted == IF program = "flow_sentry" THEN readable
                                    ELSE {n \in readable : Alone(n).packet.has_ip}
                      IN  /\ packet_count = Len(seen)
                          /\ {printed[i].number : i \in DOMAIN printed} = wanted
                          /\ Len(printed) = Cardinality(wanted)
                          /\ program = "flow_sentry" => parse_errors = Cardinality(DOMAIN seen \ readable)
                          /\ tls_count = Cardinality({i \in DOMAIN printed : printed[i].names # {}})
    BY DEF EveryPacketAccounted
  <2> DEFINE readable == {n \in DOMAIN seen : Alone(n).ok}
             wanted == IF program = "flow_sentry" THEN readable
                       ELSE {n \in readable : Alone(n).packet.has_ip}
  <2>1. DOMAIN seen = 1 .. Len(seen) /\ DOMAIN printed = 1 .. Len(printed)
    BY DEF TypeOK
  <2>2. Handled = DOMAIN seen
    BY <2>1 DEF Handled
  <2>3. Fine = wanted /\ Unread = DOMAIN seen \ readable
    BY <2>2 DEF Fine, Unread, Wanted
  <2>4. NamedLines = {i \in DOMAIN printed : printed[i].names # {}}
    BY <2>1 DEF NamedLines
  <2> QED
    BY <2>3, <2>4 DEF TotalsAgree, LastRead
<1> QED
  BY <1>1, LinesHold, TotalsHold, ViewerTypesCorrect, PTL
-----------------------------------------------------------------------------
(* The names the inspector finds. *)

\* What one record makes of the flow of connection c.
After(c, d, before) ==
    IF Connection(d) = c /\ Tracked(parse(d, FreshPacket))
    THEN Classify(before, parse(d, FreshPacket).packet, d)
    ELSE before

\* The recursion of EngineFlow has one solution, for every connection: it is carried
\* along the run, from the one over the records read so far to the one over a record
\* more.
Solves(f, c) ==
    f = [n \in 0 .. Len(seen) |-> IF n = 0 THEN NewFlow ELSE After(c, seen[n], f[n - 1])]

FlowDefined ==
    \A c : /\ \E f : Solves(f, c)
           /\ \A f, g : Solves(f, c) /\ Solves(g, c) => f = g

\* The flow is the solution's value at the end.
LEMMA FlowSolves ==
    ASSUME FlowDefined, NEW c
    PROVE  \E f : Solves(f, c) /\ EngineFlow(c) = f[Len(seen)]
<1> DEFINE g == CHOOSE f : Solves(f, c)
<1>1. Solves(g, c)
  BY DEF FlowDefined
<1>2. EngineFlow(c) = g[Len(seen)]
  BY DEF EngineFlow, Solves, After, Alone
<1> QED
  BY <1>1, <1>2

\* A record more makes every solution longer by one.
LEMMA SolvesLonger ==
    ASSUME seen \in Seq(Data), FlowDefined, NEW d \in Data, seen' = Append(seen, d),
           NEW c, NEW f, Solves(f, c)
    PROVE  \A g : Solves(g, c)' <=>
              g = [n \in 0 .. Len(seen) + 1 |->
                      IF n = Len(seen) + 1 THEN After(c, d, f[Len(seen)]) ELSE f[n]]
<1> DEFINE m == Len(seen)
           longer == [n \in 0 .. m + 1 |-> IF n = m + 1 THEN After(c, d, f[m]) ELSE f[n]]
           E(s, k, n) == IF n = 0 THEN NewFlow ELSE After(c, s[n], k[n - 1])
<1>1. /\ m \in Nat /\ Len(seen') = m + 1 /\ seen'[m + 1] = d
      /\ \A i \in 1 .. m : seen'[i] = seen[i]
  OBVIOUS
<1>2. /\ \A g : Solves(g, c) <=> g = [n \in 0 .. m |-> E(seen, g, n)]
      /\ \A g : Solves(g, c)' <=> g = [n \in 0 .. m + 1 |-> E(seen', g, n)]
  BY <1>1 DEF Solves
<1>3. /\ \A n \in 0 .. m : n \in 0 .. m + 1 /\ n # m + 1 /\ n - 1 # m + 1
      /\ \A n \in 0 .. m : n # 0 => n \in 1 .. m /\ n - 1 \in 0 .. m
      /\ m + 1 \in 0 .. m + 1 /\ m \in 0 .. m /\ m + 1 # 0 /\ (m + 1) - 1 = m
      /\ \A n \in 0 .. m + 1 : n \in 0 .. m \/ n = m + 1
  BY <1>1
<1>4. f = [n \in 0 .. m |-> E(seen, f, n)]
  BY <1>2
<1>5. \A k, n : n \in 0 .. m => E(seen', k, n) = E(seen, k, n)
  BY <1>1, <1>3
<1>6. \A k : E(seen', k, m + 1) = After(c, d, k[m])
  BY <1>1, <1>3
<1>7. \A k, l, n : n \in 0 .. m /\ (\A i \in 0 .. m : k[i] = l[i]) => E(seen, k, n) = E(seen, l, n)
  BY <1>3
<1> HIDE DEF m, E
<1>8. longer = [n \in 0 .. m + 1 |-> E(seen', longer, n)]
  <2>1. \A i \in 0 .. m : longer[i] = f[i]
    BY <1>3
  <2>2. \A n \in 0 .. m : E(seen', longer, n) = f[n]
    <3> TAKE n \in 0 .. m
    <3>1. E(seen', longer, n) = E(seen, longer, n)
      BY <1>5
    <3>2. E(seen, longer, n) = E(seen, f, n)
      <4> HIDE DEF longer
      <4> QED
        BY <1>7, <2>1
    <3>3. f[n] = E(seen, f, n)
      BY <1>4
    <3> QED
      BY <3>1, <3>2, <3>3
  <2>3. E(seen', longer, m + 1) = After(c, d, f[m])
    BY <1>3, <1>6, <2>1
  <2>4. \A n \in 0 .. m + 1 : E(seen', longer, n) = longer[n]
    BY <1>3, <2>1, <2>2, <2>3
  <2> QED
    BY <2>4
<1>9. ASSUME NEW g, g = [n \in 0 .. m + 1 |-> E(seen', g, n)] PROVE g = longer
  <2> DEFINE part == [n \in 0 .. m |-> g[n]]
  <2>1. \A n \in 0 .. m : g[n] = E(seen, g, n)
    BY <1>3, <1>5, <1>9
  <2>2. \A n \in 0 .. m : E(seen, part, n) = E(seen, g, n)
    BY <1>7
  <2>3. part = [n \in 0 .. m |-> E(seen, part, n)]
    BY <2>1, <2>2
  <2>4. part = f
    <3> HIDE DEF part
    <3> QED
      BY <1>2, <2>3 DEF FlowDefined
  <2>5. \A n \in 0 .. m : g[n] = f[n]
    BY <2>4
  <2>6. g[m + 1] = After(c, d, f[m])
    BY <1>3, <1>6, <1>9, <2>5
  <2>7. \A n \in 0 .. m + 1 : g[n] = longer[n]
    BY <1>3, <2>5, <2>6
  <2>8. g = [n \in 0 .. m + 1 |-> g[n]]
    BY <1>9
  <2> QED
    BY <2>7, <2>8
<1> HIDE DEF longer
<1>10. \A g : Solves(g, c)' <=> g = longer
  BY <1>2, <1>8, <1>9
<1> QED
  BY <1>10 DEF longer, m

\* A record moves the flow of its own connection on, and no other.
LEMMA FlowMovesOn ==
    ASSUME seen \in Seq(Data), FlowDefined, NEW d \in Data, seen' = Append(seen, d)
    PROVE  /\ FlowDefined'
           /\ \A c : EngineFlow(c)' = After(c, d, EngineFlow(c))
<1> DEFINE m == Len(seen)
<1>1. m \in Nat /\ Len(seen') = m + 1
  OBVIOUS
<1>2. ASSUME NEW c
      PROVE  /\ \E f : Solves(f, c)'
             /\ \A f, g : Solves(f, c)' /\ Solves(g, c)' => f = g
  <2>1. PICK f : Solves(f, c)
    BY DEF FlowDefined
  <2> DEFINE longer == [n \in 0 .. m + 1 |-> IF n = m + 1 THEN After(c, d, f[m]) ELSE f[n]]
  <2>2. \A g : Solves(g, c)' <=> g = longer
    BY <2>1, SolvesLonger
  <2> HIDE DEF longer
  <2> QED
    BY <2>2
<1>3. FlowDefined'
  BY <1>2 DEF FlowDefined
<1>4. ASSUME NEW c PROVE EngineFlow(c)' = After(c, d, EngineFlow(c))
  <2>1. PICK f : Solves(f, c) /\ EngineFlow(c) = f[m]
    BY FlowSolves
  <2> DEFINE longer == [n \in 0 .. m + 1 |-> IF n = m + 1 THEN After(c, d, f[m]) ELSE f[n]]
  <2>2. \A g : Solves(g, c)' <=> g = longer
    BY <2>1, SolvesLonger
  <2>3. \E g : Solves(g, c)' /\ EngineFlow(c)' = g[Len(seen')]
    <3>1. EngineFlow(c)' = (CHOOSE g : Solves(g, c)')[Len(seen')]
      BY DEF EngineFlow, Solves, After, Alone
    <3> QED
      BY <1>2, <3>1
  <2>4. EngineFlow(c)' = longer[m + 1]
    BY <1>1, <2>2, <2>3
  <2>5. longer[m + 1] = After(c, d, f[m])
    BY <1>1
  <2> QED
    BY <2>1, <2>4, <2>5
<1> QED
  BY <1>3, <1>4

\* Names that no payload carries.
NoHost(name) == name \in {"", SshByPortName, SshByBannerName}

\* A record of connection c with a ClientHello that names `name`, where the inspector
\* looks for one.
HelloOf(c, n, name) ==
    /\ Connection(seen[n]) = c
    /\ Alone(n).ok /\ Alone(n).packet.has_ip
    /\ name \in NamesIn(Alone(n).packet, seen[n])

\* A record of connection c to the HTTP port.
RequestOf(c, n) ==
    /\ Connection(seen[n]) = c
    /\ Tracked(Alone(n)) /\ Alone(n).packet.dest_port = 80

\* Every name of a flow comes from a record of its connection, or from no payload.
NamesFromRecords ==
    \A c : LET flow == EngineFlow(c)
           IN  /\ flow \in Flow
               /\ \/ NoHost(flow.sni)
                  \/ \E n \in DOMAIN seen : HelloOf(c, n, flow.sni) \/ RequestOf(c, n)

\* A record read keeps it so.
LEMMA OriginNext ==
    ASSUME seen \in Seq(Data), FlowDefined, NamesFromRecords,
           NEW d \in Data, seen' = Append(seen, d)
    PROVE  NamesFromRecords'
<1> PICK m : m = Len(seen) + 1
  OBVIOUS
<1>1. /\ m \in DOMAIN seen' /\ seen'[m] = d /\ DOMAIN seen \subseteq DOMAIN seen'
      /\ \A n \in DOMAIN seen : seen'[n] = seen[n]
  OBVIOUS
<1>2. \A n \in DOMAIN seen : Alone(n)' = Alone(n)
  BY <1>1 DEF Alone
<1>3. \A c, name : \A n \in DOMAIN seen : /\ HelloOf(c, n, name) => HelloOf(c, n, name)'
                                          /\ RequestOf(c, n) => RequestOf(c, n)'
  BY <1>1, <1>2 DEF HelloOf, RequestOf
<1> SUFFICES ASSUME NEW c, NEW after, after = EngineFlow(c)'
             PROVE  /\ after \in Flow
                    /\ \/ NoHost(after.sni)
                       \/ \E n \in DOMAIN seen' : HelloOf(c, n, after.sni)' \/ RequestOf(c, n)'
  BY DEF NamesFromRecords, HelloOf, RequestOf
<1> DEFINE before == EngineFlow(c)
           s == parse(d, FreshPacket)
           p == s.packet
<1>4. after = After(c, d, before)
  BY FlowMovesOn DEF before
<1>5. /\ before \in Flow
      /\ \/ NoHost(before.sni)
         \/ \E n \in DOMAIN seen : HelloOf(c, n, before.sni) \/ RequestOf(c, n)
  BY DEF NamesFromRecords
<1>6. s \in ParseStage /\ p \in SentryPacket
  BY ParseType DEF ParseStage
<1> HIDE DEF before
<1>7. CASE Connection(d) = c /\ Tracked(s)
  <2>1. after = Classify(before, p, d)
    BY <1>4, <1>7 DEF After
  <2>2. after \in Flow
    BY <1>5, <1>6, <2>1, ClassifyType
  <2>3. \/ after.sni = before.sni
        \/ after.sni \in {SshByPortName, SshByBannerName}
        \/ /\ p.has_tcp /\ p.dest_port = 443 /\ PayloadOffset(d) + 5 < d.size
           /\ after.sni \in sniOf(d)
        \/ p.dest_port = 80
    BY <1>5, <1>6, <2>1, NameOrigin
  <2>4. Alone(m)' = s
    BY <1>1 DEF Alone
  <2>5. CASE after.sni = before.sni
    BY <1>1, <1>3, <1>5, <2>2, <2>5
  <2>6. CASE after.sni \in {SshByPortName, SshByBannerName}
    <3>1. NoHost(after.sni)
      BY <2>6 DEF NoHost
    <3> QED
      BY <2>2, <3>1
  <2>7. CASE /\ p.has_tcp /\ p.dest_port = 443 /\ PayloadOffset(d) + 5 < d.size
             /\ after.sni \in sniOf(d)
    <3>1. p.payload_length = d.size - PayloadOffset(d)
      BY <1>7, <2>7, TcpHeaderInside DEF PayloadOffset, TransportOffset, ETH_HEADER_LEN
    <3>2. PayloadOffset(d) \in Nat /\ d.size \in Nat
      BY DEF PayloadOffset, TransportOffset, Data, Frame, Nibble
    <3>3. after.sni \in NamesIn(p, d)
      BY <2>7, <3>1, <3>2 DEF NamesIn
    <3>4. HelloOf(c, m, after.sni)'
      BY <1>1, <1>7, <2>4, <3>3 DEF HelloOf, Tracked
    <3> QED
      BY <1>1, <2>2, <3>4
  <2>8. CASE p.dest_port = 80
    <3>1. RequestOf(c, m)'
      BY <1>1, <1>7, <2>4, <2>8 DEF RequestOf
    <3> QED
      BY <1>1, <2>2, <3>1
  <2> QED
    BY <2>3, <2>5, <2>6, <2>7, <2>8
<1>8. CASE ~(Connection(d) = c /\ Tracked(s))
  <2>1. after = before
    BY <1>4, <1>8 DEF After
  <2> QED
    BY <1>1, <1>3, <1>5, <2>1
<1> QED
  BY <1>7, <1>8

\* Both hold in every run.
LEMMA OriginHolds == Spec => [](FlowDefined /\ NamesFromRecords)
<1>1. Init => FlowDefined /\ NamesFromRecords
  <2> SUFFICES ASSUME Init PROVE FlowDefined /\ NamesFromRecords
    OBVIOUS
  <2>1. Len(seen) = 0
    BY DEF Init
  <2>2. \A f, c : Solves(f, c) <=> f = [n \in {0} |-> NewFlow]
    <3>1. 0 .. Len(seen) = {0}
      BY <2>1
    <3> QED
      BY <3>1 DEF Solves
  <2>3. FlowDefined
    BY <2>2 DEF FlowDefined
  <2>4. \A c : EngineFlow(c) = NewFlow
    BY <2>1, <2>2, <2>3, FlowSolves
  <2>5. NoHost(NewFlow.sni)
    BY Zenon DEF NoHost, NewFlow
  <2> QED
    BY <2>3, <2>4, <2>5, NewFlowType DEF NamesFromRecords
<1>2. TypeOK /\ FlowDefined /\ NamesFromRecords /\ [Next]_vars => (FlowDefined /\ NamesFromRecords)'
  <2> SUFFICES ASSUME TypeOK, FlowDefined, NamesFromRecords, [Next]_vars
               PROVE  FlowDefined' /\ NamesFromRecords'
    OBVIOUS
  <2>1. CASE UNCHANGED seen
    <3>1. FlowDefined'
      <4>1. \A f, c : Solves(f, c)' <=> Solves(f, c)
        BY <2>1 DEF Solves
      <4> QED
        BY <4>1 DEF FlowDefined
    <3>2. \A n : Alone(n)' = Alone(n)
      BY <2>1 DEF Alone
    <3>3. \A c : EngineFlow(c)' = EngineFlow(c)
      BY <2>1, <3>2 DEF EngineFlow
    <3>4. \A c, n, name : /\ HelloOf(c, n, name)' <=> HelloOf(c, n, name)
                          /\ RequestOf(c, n)' <=> RequestOf(c, n)
      BY <2>1, <3>2 DEF HelloOf, RequestOf
    <3> QED
      BY <2>1, <3>1, <3>3, <3>4 DEF NamesFromRecords
  <2>2. CASE ~UNCHANGED seen
    <3>1. ~(PrintPacket \/ ParseError \/ PassOver \/ PrintLine)
      BY <2>2 DEF PrintPacket, ParseError, PassOver, PrintLine, Show
    <3>2. seen \in Seq(Data) /\ packet'.data \in Data /\ seen' = Append(seen, packet'.data)
      BY <2>2, <3>1, ReadsOrNot DEF TypeOK
    <3> QED
      BY <3>2, FlowMovesOn, OriginNext
  <2> QED
    BY <2>1, <2>2
<1> QED
  BY <1>1, <1>2, ViewerTypesCorrect, PTL DEF Spec

\* The inspector, which looks for names in code of its own and keeps no flows, misses
\* no TLS name the filter would find, for every capture, provided that no host calls
\* itself what the filter calls an SSH flow (sentry_inspector_simple 40-55,
\* sentry_engine_simple 198-221).
THEOREM InspectorFindsThem ==
    ASSUME Hosts \cap {SshByPortName, SshByBannerName} = {}
    PROVE  Spec => []InspectorMissesNoName
<1>1. TypeOK /\ LinesStand /\ TotalsAgree /\ NamesFromRecords => InspectorMissesNoName
  <2>1. \A name \in Hosts \ {""} : ~NoHost(name)
    BY Zenon DEF NoHost
  <2> SUFFICES ASSUME TypeOK, LinesStand, TotalsAgree, NamesFromRecords,
                      program = "flow_sentry_inspector", pc = "summary", NEW n \in DOMAIN seen,
                      Tracked(Alone(n)), Alone(n).packet.dest_port = 443,
                      ~NoHost(EngineFlow(Connection(seen[n])).sni)
               PROVE  \E i \in DOMAIN printed : EngineFlow(Connection(seen[n])).sni \in printed[i].names
    BY <2>1, Zenon DEF InspectorMissesNoName
  <2> DEFINE c == Connection(seen[n])
             name == EngineFlow(c).sni
  <2>2. \A k \in DOMAIN seen : seen[k] \in Data
    BY DEF TypeOK
  <2>3. PICK k \in DOMAIN seen : HelloOf(c, k, name) \/ RequestOf(c, k)
    BY DEF NamesFromRecords
  <2>4. ~RequestOf(c, k)
    <3> SUFFICES ASSUME RequestOf(c, k) PROVE FALSE
      OBVIOUS
    <3>1. PortsOf(seen[n], Alone(n).packet) /\ PortsOf(seen[k], Alone(k).packet)
      BY <2>2, ParsedFromTheWire DEF RequestOf, Alone
    <3>2. seen[n].frame.dst_port = seen[k].frame.dst_port
      BY DEF RequestOf, Connection
    <3> QED
      BY <3>1, <3>2 DEF PortsOf, RequestOf
  <2>5. HelloOf(c, k, name)
    BY <2>3, <2>4
  <2>6. k \in Fine
    <3>1. DOMAIN seen = 1 .. Len(seen)
      BY DEF TypeOK
    <3> QED
      BY <2>5, <3>1 DEF Fine, Handled, Wanted, HelloOf
  <2>7. PICK i \in DOMAIN printed : printed[i].number = k
    BY <2>6 DEF TotalsAgree
  <2>8. printed[i].names = NamesIn(Alone(k).packet, seen[k])
    BY <2>7 DEF LinesStand, Line
  <2> QED
    BY <2>5, <2>7, <2>8 DEF HelloOf
<1> QED
  BY <1>1, LinesHold, TotalsHold, OriginHolds, ViewerTypesCorrect, PTL

=============================================================================
