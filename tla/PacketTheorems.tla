---------------------------- MODULE PacketTheorems ----------------------------
(***************************************************************************)
(* What is made of a packet: the parser on frames of any size, and the     *)
(* stages of the classifier on any flow, on hosts of either byte order.    *)
(***************************************************************************)
EXTENDS FlowClassifier, WordTheorems, FiniteSetTheorems

\* An address is its four bytes.
LEMMA BytesOfFour ==
    ASSUME NEW t \in FourBytes
    PROVE  /\ t[1] \in Byte /\ t[2] \in Byte /\ t[3] \in Byte /\ t[4] \in Byte
           /\ t = <<t[1], t[2], t[3], t[4]>>
BY DEF FourBytes

\* A port is its two bytes.
LEMMA BytesOfTwo ==
    ASSUME NEW t \in TwoBytes
    PROVE  t[1] \in Byte /\ t[2] \in Byte /\ t = <<t[1], t[2]>>
BY DEF TwoBytes

\* A port is read as the big-endian value of its bytes.
LEMMA PortType ==
    ASSUME NEW t \in TwoBytes
    PROVE  netToHost16(LoadHalf(t)) \in Half /\ netToHost16(LoadHalf(t)) = 256 * t[1] + t[2]
<1>1. t[1] \in Byte /\ t[2] \in Byte /\ t = <<t[1], t[2]>>
  BY BytesOfTwo
<1> QED
  BY <1>1, NetworkHalf, Join

\* An address is read as a word; printed and read back it is that word.
LEMMA AddressType ==
    ASSUME NEW t \in FourBytes
    PROVE  /\ LoadWord(t) \in Word
           /\ ipToString(LoadWord(t)) \in FourBytes
           /\ parseIP(ipToString(LoadWord(t))) = LoadWord(t)
<1>1. LoadWord(t) \in Word
  BY BytesOfFour, LoadedWordType
<1>2. ipToString(LoadWord(t)) \in FourBytes
  BY <1>1, TextType DEF ipToString, FourBytes
<1> QED
  BY <1>1, <1>2, TextRoundTrip

\* The Ethernet layer writes what the fields can hold.
LEMMA EthernetType ==
    ASSUME NEW d \in Data, NEW s \in ParseStage
    PROVE  parseEthernet(d, s) \in ParseStage
<1>1. d.frame.ether_type \in TwoBytes
  BY DEF Data, Frame
<1>2. netToHost16(LoadHalf(d.frame.ether_type)) \in Half
  BY <1>1, PortType
<1> QED
  BY <1>2 DEF parseEthernet, ParseStage, SentryPacket, Failed, ETH_HEADER_LEN

\* The addresses are texts of four groups.
LEMMA AddressesType ==
    ASSUME NEW d \in Data, NEW s \in ParseStage
    PROVE  WithAddresses(d, s) \in ParseStage
<1>1. d.frame.src_ip \in FourBytes /\ d.frame.dst_ip \in FourBytes
  BY DEF Data, Frame
<1>2. /\ ipToString(LoadWord(d.frame.src_ip)) \in FourBytes
      /\ ipToString(LoadWord(d.frame.dst_ip)) \in FourBytes
  BY <1>1, AddressType
<1> QED
  BY <1>2 DEF WithAddresses, ParseStage, SentryPacket

\* The IPv4 layer writes what the fields can hold.
LEMMA IPv4Type ==
    ASSUME NEW d \in Data, NEW s \in ParseStage
    PROVE  parseIPv4(d, s) \in ParseStage
<1>1. d.frame.version \in Nibble /\ d.frame.ihl \in Nat /\ d.frame.protocol \in Byte
  BY DEF Data, Frame, Nibble
<1>2. s.offset + d.frame.ihl * 4 \in Nat
  BY <1>1 DEF ParseStage
<1> DEFINE seen == [s EXCEPT !.packet.ip_version = d.frame.version]
           w == WithAddresses(d, seen)
<1>3. seen \in ParseStage
  BY <1>1 DEF ParseStage, SentryPacket
<1>4. w \in ParseStage
  BY <1>3, AddressesType
<1>5. Failed(s) \in ParseStage /\ Failed(seen) \in ParseStage
  BY <1>3 DEF ParseStage, Failed
<1>. HIDE DEF w
<1>6. \A pr \in Byte, n \in Nat :
        [w EXCEPT !.packet.protocol = pr, !.packet.has_ip = TRUE, !.offset = n] \in ParseStage
  BY <1>4 DEF ParseStage, SentryPacket
<1> QED
  BY <1>1, <1>2, <1>5, <1>6 DEF parseIPv4, w

\* The ports are 16-bit values, and reading them does not move on.
LEMMA PortsType ==
    ASSUME NEW d \in Data, NEW s \in ParseStage
    PROVE  WithPorts(d, s) \in ParseStage /\ WithPorts(d, s).offset = s.offset
<1>1. d.frame.src_port \in TwoBytes /\ d.frame.dst_port \in TwoBytes
  BY DEF Data, Frame
<1>2. /\ netToHost16(LoadHalf(d.frame.src_port)) \in Half
      /\ netToHost16(LoadHalf(d.frame.dst_port)) \in Half
  BY <1>1, PortType
<1> QED
  BY <1>2 DEF WithPorts, ParseStage, SentryPacket

\* The transport layers write what the fields can hold.
LEMMA TransportType ==
    ASSUME NEW d \in Data, NEW s \in ParseStage
    PROVE  parseTCP(d, s) \in ParseStage /\ parseUDP(d, s) \in ParseStage
<1> DEFINE w == WithPorts(d, s)
<1>1. w \in ParseStage /\ w.offset = s.offset
  BY PortsType
<1>2. d.frame.data_offset \in Nat
  BY DEF Data, Frame, Nibble
<1>3. s.offset + d.frame.data_offset * 4 \in Nat /\ s.offset + UDP_HEADER_LEN \in Nat
  BY <1>2 DEF ParseStage, UDP_HEADER_LEN
<1>. HIDE DEF w
<1>4. \A n \in Nat :
        /\ [w EXCEPT !.packet.has_tcp = TRUE, !.offset = n] \in ParseStage
        /\ [w EXCEPT !.packet.has_udp = TRUE, !.offset = n] \in ParseStage
  BY <1>1 DEF ParseStage, SentryPacket
<1>5. Failed(s) \in ParseStage /\ Failed(w) \in ParseStage
  BY <1>1 DEF ParseStage, Failed
<1>6. parseTCP(d, s) \in ParseStage
  BY <1>3, <1>4, <1>5 DEF parseTCP, w
<1>7. parseUDP(d, s) \in ParseStage
  BY <1>3, <1>4, <1>5 DEF parseUDP, w
<1> QED
  BY <1>6, <1>7

\* parse writes into the packet only what its fields can hold.
THEOREM ParseType ==
    ASSUME NEW d \in Data, NEW parsed
    PROVE  parse(d, parsed) \in ParseStage
<1> DEFINE s0 == [ok |-> TRUE, offset |-> 0, packet |-> FreshPacket]
           s1 == parseEthernet(d, s0)
           s2 == parseNetwork(d, s1)
<1>1. s0 \in ParseStage
  BY DEF ParseStage, SentryPacket, FreshPacket, Half, Nibble, Byte, FourBytes
<1>2. s1 \in ParseStage
  BY <1>1, EthernetType
<1>3. s2 \in ParseStage
  <2>1. parseIPv4(d, s1) \in ParseStage
    BY <1>2, IPv4Type
  <2>2. parseTransport(d, parseIPv4(d, s1)) \in ParseStage
    BY <2>1, TransportType DEF parseTransport
  <2> QED
    BY <1>2, <2>2 DEF parseNetwork
<1>4. WithPayload(d, s2) \in ParseStage
  <2> HIDE DEF s2
  <2>1. d.size \in Nat
    BY DEF Data
  <2>2. s2.offset < d.size => d.size - s2.offset \in Nat
    BY <2>1, <1>3 DEF ParseStage
  <2> QED
    BY <1>3, <2>2 DEF WithPayload, ParseStage, SentryPacket
<1> QED
  BY <1>4 DEF parse, ParseFrom, s2, s1, s0

\* After the Ethernet layer the parser stands at the IP header.
LEMMA EthernetOffset ==
    ASSUME NEW d \in Data, NEW s \in ParseStage, s.ok, ~s.packet.has_tcp
    PROVE  LET after == parseEthernet(d, s)
           IN  ~after.packet.has_tcp /\ (after.ok => after.offset = ETH_HEADER_LEN)
BY DEF parseEthernet, ParseStage, SentryPacket, Failed

\* After the IPv4 layer the parser stands behind the header and its options.
LEMMA IPv4Offset ==
    ASSUME NEW d \in Data, NEW s \in ParseStage, s.ok, ~s.packet.has_tcp
    PROVE  LET after == parseIPv4(d, s)
           IN  ~after.packet.has_tcp /\ (after.ok => after.offset = s.offset + d.frame.ihl * 4)
<1> DEFINE seen == [s EXCEPT !.packet.ip_version = d.frame.version]
           w == WithAddresses(d, seen)
<1>1. ~Failed(s).ok /\ ~Failed(seen).ok /\ ~Failed(s).packet.has_tcp /\ ~Failed(seen).packet.has_tcp
  BY DEF ParseStage, SentryPacket, Failed
<1>2. w \in ParseStage /\ ~w.packet.has_tcp
  <2>1. d.frame.version \in Nibble
    BY DEF Data, Frame
  <2>2. seen \in ParseStage /\ ~seen.packet.has_tcp
    BY <2>1 DEF ParseStage, SentryPacket
  <2> HIDE DEF seen
  <2>3. WithAddresses(d, seen) \in ParseStage
    BY <2>2, AddressesType
  <2>4. ~WithAddresses(d, seen).packet.has_tcp
    BY <2>2 DEF WithAddresses, ParseStage, SentryPacket
  <2> QED
    BY <2>3, <2>4
<1>. HIDE DEF w
<1>3. \A pr, n : LET r == [w EXCEPT !.packet.protocol = pr, !.packet.has_ip = TRUE, !.offset = n]
                 IN  ~r.packet.has_tcp /\ r.offset = n
  BY <1>2 DEF ParseStage, SentryPacket
<1>4. \/ parseIPv4(d, s) = Failed(s)
      \/ parseIPv4(d, s) = Failed(seen)
      \/ parseIPv4(d, s) = [w EXCEPT !.packet.protocol = d.frame.protocol, !.packet.has_ip = TRUE,
                                     !.offset = s.offset + d.frame.ihl * 4]
  BY DEF parseIPv4, w
<1> DEFINE after == parseIPv4(d, s)
           n == s.offset + d.frame.ihl * 4
<1>5. CASE after = Failed(s)
  BY <1>1, <1>5
<1>6. CASE after = Failed(seen)
  BY <1>1, <1>6
<1>7. CASE after = [w EXCEPT !.packet.protocol = d.frame.protocol, !.packet.has_ip = TRUE, !.offset = n]
  <2> HIDE DEF n, after
  <2>1. ~after.packet.has_tcp /\ after.offset = n
    BY <1>3, <1>7
  <2> QED
    BY <2>1 DEF n, after
<1> QED
  BY <1>4, <1>5, <1>6, <1>7

\* The header of a TCP segment the parser accepts lies inside the captured bytes,
\* and the parser has moved past exactly that header.
LEMMA TcpOffset ==
    ASSUME NEW d \in Data, NEW s \in ParseStage, s.ok, ~s.packet.has_tcp
    PROVE  LET after == parseTransport(d, s)
           IN  after.ok /\ after.packet.has_tcp =>
                  /\ after.offset = s.offset + d.frame.data_offset * 4
                  /\ d.frame.data_offset * 4 >= MIN_TCP_HEADER_LEN
                  /\ after.offset <= d.size
<1> DEFINE w == WithPorts(d, s)
<1>1. w \in ParseStage
  BY PortsType
<1>2. ~w.packet.has_tcp
  BY DEF WithPorts, ParseStage, SentryPacket
<1>. HIDE DEF w
<1>3. ~Failed(s).ok /\ ~Failed(w).ok
  BY <1>1 DEF ParseStage, Failed
<1>4. \A n : [w EXCEPT !.packet.has_tcp = TRUE, !.offset = n].offset = n
  BY <1>1 DEF ParseStage
<1>5. \A n : ~[w EXCEPT !.packet.has_udp = TRUE, !.offset = n].packet.has_tcp
  BY <1>1, <1>2 DEF ParseStage, SentryPacket
<1>6. /\ d.frame.data_offset \in Nat /\ s.offset \in Nat /\ d.size \in Nat
      /\ d.frame.data_offset * 4 \in Nat
  BY DEF Data, Frame, Nibble, ParseStage
<1>7. CASE s.packet.protocol = TCP
  <2>1. parseTransport(d, s) = parseTCP(d, s)
    BY <1>7 DEF parseTransport
  <2>2. \/ parseTCP(d, s) = Failed(s)
        \/ parseTCP(d, s) = Failed(w)
        \/ /\ parseTCP(d, s) = [w EXCEPT !.packet.has_tcp = TRUE,
                                         !.offset = s.offset + d.frame.data_offset * 4]
           /\ ~(d.frame.data_offset * 4 < MIN_TCP_HEADER_LEN)
           /\ ~(d.size < s.offset + d.frame.data_offset * 4)
    BY DEF parseTCP, w
  <2>3. parseTCP(d, s).ok =>
           /\ parseTCP(d, s).offset = s.offset + d.frame.data_offset * 4
           /\ ~(d.frame.data_offset * 4 < MIN_TCP_HEADER_LEN)
           /\ ~(d.size < s.offset + d.frame.data_offset * 4)
    BY <2>2, <1>3, <1>4
  <2> QED
    BY <2>1, <2>3, <1>6 DEF MIN_TCP_HEADER_LEN
<1>8. CASE s.packet.protocol # TCP
  BY <1>3, <1>5, <1>8 DEF parseTransport, parseUDP, w
<1> QED
  BY <1>7, <1>8

\* A tracked TCP packet has its whole header among the captured bytes, and its
\* payload is what follows the three headers: for every frame, captured length
\* and previous content of the packet object.
THEOREM TcpHeaderInside ==
    ASSUME NEW d \in Data, NEW parsed,
           Tracked(parse(d, parsed)), parse(d, parsed).packet.has_tcp
    PROVE  LET payload_offset == ETH_HEADER_LEN + d.frame.ihl * 4 + d.frame.data_offset * 4
           IN  /\ d.frame.data_offset * 4 >= MIN_TCP_HEADER_LEN
               /\ payload_offset <= d.size
               /\ parse(d, parsed).packet.payload_length = d.size - payload_offset
<1> DEFINE s0 == [ok |-> TRUE, offset |-> 0, packet |-> FreshPacket]
           s1 == parseEthernet(d, s0)
           s2 == parseIPv4(d, s1)
           s3 == parseTransport(d, s2)
           s4 == parseNetwork(d, s1)
<1>1. s0 \in ParseStage /\ s0.ok /\ ~s0.packet.has_tcp
  BY DEF ParseStage, SentryPacket, FreshPacket, Half, Nibble, Byte, FourBytes
<1>2. s1 \in ParseStage /\ ~s1.packet.has_tcp /\ (s1.ok => s1.offset = ETH_HEADER_LEN)
  <2> HIDE DEF s0
  <2> QED
    BY <1>1, EthernetType, EthernetOffset
<1>3. parse(d, parsed) = WithPayload(d, s4)
  BY DEF parse, ParseFrom
<1>. HIDE DEF s0, s1
<1>4. s4 \in ParseStage
  BY <1>2, IPv4Type, TransportType DEF parseNetwork, parseTransport
<1>5. WithPayload(d, s4).ok = s4.ok /\ WithPayload(d, s4).packet.has_tcp = s4.packet.has_tcp
  <2> HIDE DEF s4
  <2> QED
    BY <1>4 DEF WithPayload, ParseStage, SentryPacket
<1>6. s4.ok /\ s4.packet.has_tcp
  BY <1>3, <1>5 DEF Tracked
<1>7. s1.ok /\ s1.packet.ether_type = IPv4 /\ s4 = s3
  BY <1>2, <1>6 DEF parseNetwork
<1>8. s2 \in ParseStage /\ ~s2.packet.has_tcp /\ (s2.ok => s2.offset = s1.offset + d.frame.ihl * 4)
  BY <1>2, <1>7, IPv4Type, IPv4Offset
<1>9. s2.ok
  BY <1>6, <1>7 DEF parseTransport
<1>10. /\ s3.offset = s2.offset + d.frame.data_offset * 4
       /\ d.frame.data_offset * 4 >= MIN_TCP_HEADER_LEN
       /\ s3.offset <= d.size
  <2> HIDE DEF s2
  <2> QED
    BY <1>6, <1>7, <1>8, <1>9, TcpOffset
<1>11. s4.offset = ETH_HEADER_LEN + d.frame.ihl * 4 + d.frame.data_offset * 4
  BY <1>2, <1>7, <1>8, <1>9, <1>10
<1>12. WithPayload(d, s4).packet.payload_length = d.size - s4.offset
  <2>1. d.size \in Nat /\ s4.offset \in Nat /\ s4.offset <= d.size
    BY <1>4, <1>7, <1>10 DEF Data, ParseStage
  <2> HIDE DEF s4
  <2>2. WithPayload(d, s4).packet.payload_length = IF s4.offset < d.size THEN d.size - s4.offset ELSE 0
    BY <1>4, <1>6 DEF WithPayload, ParseStage, SentryPacket
  <2> QED
    BY <2>1, <2>2
<1> QED
  BY <1>3, <1>7, <1>10, <1>11, <1>12

-----------------------------------------------------------------------------
(* The five values that make the key of a flow. *)

\* Fields of the packet that come from the IPv4 header.
AddressesOf(d, p) ==
    /\ p.src_ip = ipToString(LoadWord(d.frame.src_ip))
    /\ p.dest_ip = ipToString(LoadWord(d.frame.dst_ip))
    /\ p.protocol = d.frame.protocol

PortsOf(d, p) ==
    /\ p.src_port = netToHost16(LoadHalf(d.frame.src_port))
    /\ p.dest_port = netToHost16(LoadHalf(d.frame.dst_port))

NoTransport(p) == ~p.has_tcp /\ ~p.has_udp

\* The Ethernet layer does not touch the transport flags.
LEMMA EthernetKeeps ==
    ASSUME NEW d \in Data, NEW s \in ParseStage, NoTransport(s.packet)
    PROVE  NoTransport(parseEthernet(d, s).packet)
BY DEF parseEthernet, ParseStage, SentryPacket, Failed, NoTransport

\* A frame the IPv4 layer accepts has left its addresses in the packet.
LEMMA IPv4Addresses ==
    ASSUME NEW d \in Data, NEW s \in ParseStage, NoTransport(s.packet)
    PROVE  LET after == parseIPv4(d, s)
           IN  after.ok => NoTransport(after.packet) /\ AddressesOf(d, after.packet)
<1> DEFINE seen == [s EXCEPT !.packet.ip_version = d.frame.version]
           w == WithAddresses(d, seen)
           after == parseIPv4(d, s)
           n == s.offset + d.frame.ihl * 4
<1>1. ~Failed(s).ok /\ ~Failed(seen).ok
  BY DEF ParseStage, Failed
<1>2. /\ w \in ParseStage /\ NoTransport(w.packet)
      /\ w.packet.src_ip = ipToString(LoadWord(d.frame.src_ip))
      /\ w.packet.dest_ip = ipToString(LoadWord(d.frame.dst_ip))
  <2>1. d.frame.version \in Nibble
    BY DEF Data, Frame
  <2>2. seen \in ParseStage /\ NoTransport(seen.packet)
    BY <2>1 DEF ParseStage, SentryPacket, NoTransport
  <2> HIDE DEF seen
  <2>3. w \in ParseStage
    BY <2>2, AddressesType
  <2>4. /\ NoTransport(w.packet)
        /\ w.packet.src_ip = ipToString(LoadWord(d.frame.src_ip))
        /\ w.packet.dest_ip = ipToString(LoadWord(d.frame.dst_ip))
    BY <2>2 DEF WithAddresses, ParseStage, SentryPacket, NoTransport
  <2> QED
    BY <2>3, <2>4
<1>3. \/ after = Failed(s)
      \/ after = Failed(seen)
      \/ after = [w EXCEPT !.packet.protocol = d.frame.protocol, !.packet.has_ip = TRUE, !.offset = n]
  BY DEF parseIPv4
<1>4. CASE after = [w EXCEPT !.packet.protocol = d.frame.protocol, !.packet.has_ip = TRUE, !.offset = n]
  <2> HIDE DEF w, n, after
  <2>1. /\ after.packet.protocol = d.frame.protocol
        /\ after.packet.src_ip = w.packet.src_ip /\ after.packet.dest_ip = w.packet.dest_ip
        /\ after.packet.has_tcp = w.packet.has_tcp /\ after.packet.has_udp = w.packet.has_udp
    BY <1>2, <1>4 DEF ParseStage, SentryPacket
  <2>2. NoTransport(after.packet) /\ AddressesOf(d, after.packet)
    BY <1>2, <2>1 DEF NoTransport, AddressesOf
  <2> QED
    BY <2>2 DEF after
<1>5. CASE after = Failed(s) \/ after = Failed(seen)
  BY <1>1, <1>5
<1> QED
  BY <1>3, <1>4, <1>5

\* A segment or datagram the parser accepts has left its ports in the packet.
LEMMA TransportPorts ==
    ASSUME NEW d \in Data, NEW s \in ParseStage, s.ok, NoTransport(s.packet), AddressesOf(d, s.packet)
    PROVE  LET after == parseTransport(d, s)
           IN  after.ok /\ ~NoTransport(after.packet) =>
                  AddressesOf(d, after.packet) /\ PortsOf(d, after.packet)
<1> DEFINE w == WithPorts(d, s)
           after == parseTransport(d, s)
<1>1. w \in ParseStage
  BY PortsType
<1>2. AddressesOf(d, w.packet) /\ PortsOf(d, w.packet)
  BY DEF WithPorts, ParseStage, SentryPacket, AddressesOf, PortsOf
<1>. HIDE DEF w
<1>3. ~Failed(s).ok /\ ~Failed(w).ok
  BY <1>1 DEF ParseStage, Failed
<1>4. \A n : LET r == [w EXCEPT !.packet.has_tcp = TRUE, !.offset = n]
             IN  AddressesOf(d, r.packet) /\ PortsOf(d, r.packet)
  BY <1>1, <1>2 DEF ParseStage, SentryPacket, AddressesOf, PortsOf
<1>5. \A n : LET r == [w EXCEPT !.packet.has_udp = TRUE, !.offset = n]
             IN  AddressesOf(d, r.packet) /\ PortsOf(d, r.packet)
  BY <1>1, <1>2 DEF ParseStage, SentryPacket, AddressesOf, PortsOf
<1>6. \/ after = s \/ after = Failed(s) \/ after = Failed(w)
      \/ \E n : after = [w EXCEPT !.packet.has_tcp = TRUE, !.offset = n]
      \/ \E n : after = [w EXCEPT !.packet.has_udp = TRUE, !.offset = n]
  BY DEF parseTransport, parseTCP, parseUDP, w
<1>. HIDE DEF after
<1>7. after.ok /\ ~NoTransport(after.packet) => AddressesOf(d, after.packet) /\ PortsOf(d, after.packet)
  BY <1>3, <1>4, <1>5, <1>6
<1> QED
  BY <1>7 DEF after

\* The addresses, ports and protocol of a tracked packet are those on the wire,
\* and none is left from the packet before.
THEOREM ParsedFromTheWire ==
    ASSUME NEW d \in Data, NEW parsed, Tracked(parse(d, parsed))
    PROVE  AddressesOf(d, parse(d, parsed).packet) /\ PortsOf(d, parse(d, parsed).packet)
<1> DEFINE s0 == [ok |-> TRUE, offset |-> 0, packet |-> FreshPacket]
           s1 == parseEthernet(d, s0)
           s2 == parseIPv4(d, s1)
           s3 == parseTransport(d, s2)
           s4 == parseNetwork(d, s1)
<1>1. s0 \in ParseStage /\ NoTransport(s0.packet)
  BY DEF ParseStage, SentryPacket, FreshPacket, Half, Nibble, Byte, FourBytes, NoTransport
<1>2. s1 \in ParseStage /\ NoTransport(s1.packet)
  <2> HIDE DEF s0
  <2> QED
    BY <1>1, EthernetType, EthernetKeeps
<1>3. parse(d, parsed) = WithPayload(d, s4)
  BY DEF parse, ParseFrom
<1>. HIDE DEF s0, s1
<1>4. s4 \in ParseStage
  BY <1>2, IPv4Type, TransportType DEF parseNetwork, parseTransport
<1>5. LET r == WithPayload(d, s4)
      IN  /\ r.ok = s4.ok
          /\ NoTransport(r.packet) <=> NoTransport(s4.packet)
          /\ AddressesOf(d, s4.packet) => AddressesOf(d, r.packet)
          /\ PortsOf(d, s4.packet) => PortsOf(d, r.packet)
  <2> HIDE DEF s4
  <2> QED
    BY <1>4 DEF WithPayload, ParseStage, SentryPacket, NoTransport, AddressesOf, PortsOf
<1>6. s4.ok /\ ~NoTransport(s4.packet)
  BY <1>3, <1>5 DEF Tracked, NoTransport
<1>7. s1.ok /\ s4 = s3
  BY <1>2, <1>6 DEF parseNetwork
<1>8. s2.ok
  BY <1>6, <1>7 DEF parseTransport
<1>9. s2 \in ParseStage /\ NoTransport(s2.packet) /\ AddressesOf(d, s2.packet)
  BY <1>2, <1>8, IPv4Type, IPv4Addresses
<1>10. AddressesOf(d, s3.packet) /\ PortsOf(d, s3.packet)
  <2> HIDE DEF s2
  <2> QED
    BY <1>6, <1>7, <1>8, <1>9, TransportPorts
<1> QED
  BY <1>3, <1>5, <1>7, <1>10

-----------------------------------------------------------------------------
(* The payload. *)

\* Behind a datagram's header the parser stands eight bytes on.
LEMMA UdpOffset ==
    ASSUME NEW d \in Data, NEW s \in ParseStage, s.ok, NoTransport(s.packet)
    PROVE  LET after == parseTransport(d, s)
           IN  after.ok /\ after.packet.has_udp => after.offset = s.offset + UDP_HEADER_LEN
<1> DEFINE w == WithPorts(d, s)
           after == parseTransport(d, s)
<1>1. w \in ParseStage
  BY PortsType
<1>2. ~w.packet.has_udp
  BY DEF WithPorts, ParseStage, SentryPacket, NoTransport
<1>3. ~s.packet.has_udp
  BY DEF NoTransport
<1>. HIDE DEF w
<1>4. ~Failed(s).ok /\ ~Failed(w).ok
  BY <1>1 DEF ParseStage, Failed
<1>5. \A n : [w EXCEPT !.packet.has_udp = TRUE, !.offset = n].offset = n
  BY <1>1 DEF ParseStage
<1>6. \A n : ~[w EXCEPT !.packet.has_tcp = TRUE, !.offset = n].packet.has_udp
  BY <1>1, <1>2 DEF ParseStage, SentryPacket
<1>7. \/ after = s \/ after = Failed(s) \/ after = Failed(w)
      \/ \E n : after = [w EXCEPT !.packet.has_tcp = TRUE, !.offset = n]
      \/ after = [w EXCEPT !.packet.has_udp = TRUE, !.offset = s.offset + UDP_HEADER_LEN]
  BY DEF parseTransport, parseTCP, parseUDP, w
<1>. HIDE DEF after
<1>8. after.ok /\ after.packet.has_udp => after.offset = s.offset + UDP_HEADER_LEN
  BY <1>3, <1>4, <1>5, <1>6, <1>7
<1> QED
  BY <1>8 DEF after

\* A payload the parser reports is all that was captured behind the place where it
\* stopped, and it stopped behind the last header, options included.
THEOREM PayloadIsTheRest ==
    ASSUME NEW d \in Data, NEW parsed,
           parse(d, parsed).ok, parse(d, parsed).packet.payload_length > 0
    PROVE  LET s == parse(d, parsed)
           IN  /\ s.offset + s.packet.payload_length = d.size
               /\ s.packet.has_tcp => s.offset = PayloadOffset(d)
               /\ s.packet.has_udp => s.offset = TransportOffset(d) + UDP_HEADER_LEN
<1> DEFINE s0 == [ok |-> TRUE, offset |-> 0, packet |-> FreshPacket]
           s1 == parseEthernet(d, s0)
           s2 == parseIPv4(d, s1)
           s3 == parseTransport(d, s2)
           s4 == parseNetwork(d, s1)
           s5 == parse(d, parsed)
<1>1. s0 \in ParseStage /\ s0.ok /\ NoTransport(s0.packet)
  BY DEF ParseStage, SentryPacket, FreshPacket, Half, Nibble, Byte, FourBytes, NoTransport
<1>2. s1 \in ParseStage /\ NoTransport(s1.packet) /\ (s1.ok => s1.offset = ETH_HEADER_LEN)
  <2> HIDE DEF s0
  <2> QED
    BY <1>1, EthernetType, EthernetOffset, EthernetKeeps DEF NoTransport
<1>3. s5 = WithPayload(d, s4)
  BY DEF parse, ParseFrom
<1>. HIDE DEF s0, s1, s5
<1>4. s4 \in ParseStage
  BY <1>2, IPv4Type, TransportType DEF parseNetwork, parseTransport
<1>5. /\ s4.ok /\ s5.offset = s4.offset
      /\ s5.packet.has_tcp = s4.packet.has_tcp /\ s5.packet.has_udp = s4.packet.has_udp
      /\ s5.packet.payload_length = IF s4.offset < d.size THEN d.size - s4.offset ELSE 0
  <2>1. s5.ok
    BY DEF s5
  <2> HIDE DEF s4
  <2> QED
    BY <1>3, <1>4, <2>1 DEF WithPayload, ParseStage, SentryPacket
<1>6. s5.offset + s5.packet.payload_length = d.size
  <2>1. d.size \in Nat /\ s4.offset \in Nat /\ s5.packet.payload_length > 0
    BY <1>4 DEF Data, ParseStage, s5
  <2> HIDE DEF s4
  <2> QED
    BY <1>5, <2>1
<1>7. ASSUME ~NoTransport(s4.packet)
      PROVE  /\ s4.packet.has_tcp => s4.offset = PayloadOffset(d)
             /\ s4.packet.has_udp => s4.offset = TransportOffset(d) + UDP_HEADER_LEN
  <2>1. s1.ok /\ s4 = s3
    BY <1>2, <1>7 DEF parseNetwork
  <2>2. s2.ok
    BY <1>5, <2>1 DEF parseTransport
  <2>3. /\ s2 \in ParseStage /\ ~s2.packet.has_tcp /\ NoTransport(s2.packet)
        /\ s2.offset = ETH_HEADER_LEN + d.frame.ihl * 4
    BY <1>2, <2>1, <2>2, IPv4Type, IPv4Offset, IPv4Addresses DEF NoTransport
  <2>4. /\ s3.packet.has_tcp => s3.offset = s2.offset + d.frame.data_offset * 4
        /\ s3.packet.has_udp => s3.offset = s2.offset + UDP_HEADER_LEN
    <3>1. s3.ok
      BY <1>5, <2>1
    <3> HIDE DEF s2
    <3> QED
      BY <2>2, <2>3, <3>1, TcpOffset, UdpOffset
  <2>5. /\ PayloadOffset(d) = ETH_HEADER_LEN + d.frame.ihl * 4 + d.frame.data_offset * 4
        /\ TransportOffset(d) = ETH_HEADER_LEN + d.frame.ihl * 4
    BY DEF PayloadOffset, TransportOffset, ETH_HEADER_LEN
  <2> QED
    BY <2>1, <2>3, <2>4, <2>5
<1>8. /\ s5.packet.has_tcp => s5.offset = PayloadOffset(d)
      /\ s5.packet.has_udp => s5.offset = TransportOffset(d) + UDP_HEADER_LEN
  BY <1>5, <1>7 DEF NoTransport
<1> QED
  BY <1>6, <1>8 DEF s5

-----------------------------------------------------------------------------
(* The flow a packet belongs to. *)

\* The five values of a connection as the program holds them in a key.
WireKey(d) ==
    [src_ip |-> LoadWord(d.frame.src_ip), dst_ip |-> LoadWord(d.frame.dst_ip),
     src_port |-> netToHost16(LoadHalf(d.frame.src_port)),
     dst_port |-> netToHost16(LoadHalf(d.frame.dst_port)),
     protocol |-> d.frame.protocol]

\* Two addresses that the program takes for equal are equal bytes,
LEMMA AddressesApart ==
    ASSUME NEW t \in FourBytes, NEW u \in FourBytes, LoadWord(t) = LoadWord(u)
    PROVE  t = u
<1>1. /\ t[1] \in Byte /\ t[2] \in Byte /\ t[3] \in Byte /\ t[4] \in Byte
      /\ u[1] \in Byte /\ u[2] \in Byte /\ u[3] \in Byte /\ u[4] \in Byte
      /\ t = <<t[1], t[2], t[3], t[4]>> /\ u = <<u[1], u[2], u[3], u[4]>>
  BY BytesOfFour
<1>2. LoadWord(<<t[1], t[2], t[3], t[4]>>) = LoadWord(<<u[1], u[2], u[3], u[4]>>)
  BY <1>1
<1>3. t[1] = u[1] /\ t[2] = u[2] /\ t[3] = u[3] /\ t[4] = u[4]
  BY <1>1, <1>2, WordsApart
<1> QED
  BY <1>1, <1>3

\* and two ports.
LEMMA PortsApart ==
    ASSUME NEW t \in TwoBytes, NEW u \in TwoBytes,
           netToHost16(LoadHalf(t)) = netToHost16(LoadHalf(u))
    PROVE  t = u
<1>1. t[1] \in Byte /\ t[2] \in Byte /\ t = <<t[1], t[2]>>
  BY BytesOfTwo
<1>2. u[1] \in Byte /\ u[2] \in Byte /\ u = <<u[1], u[2]>>
  BY BytesOfTwo
<1>3. 256 * t[1] + t[2] = 256 * u[1] + u[2]
  BY PortType
<1>4. t[1] = u[1] /\ t[2] = u[2]
  BY <1>1, <1>2, <1>3, HalvesApart
<1> QED
  BY <1>1, <1>2, <1>4

\* Two packets have the same key exactly if they belong to one connection: the key
\* neither joins two connections nor splits one (FlowKey, sentry_engine_simple
\* 154-169), on hosts of either byte order.
THEOREM KeysTellConnections ==
    ASSUME NEW d \in Data, NEW e \in Data
    PROVE  WireKey(d) = WireKey(e) <=> Connection(d) = Connection(e)
<1>1. /\ d.frame.src_ip \in FourBytes /\ d.frame.dst_ip \in FourBytes
      /\ d.frame.src_port \in TwoBytes /\ d.frame.dst_port \in TwoBytes
      /\ e.frame.src_ip \in FourBytes /\ e.frame.dst_ip \in FourBytes
      /\ e.frame.src_port \in TwoBytes /\ e.frame.dst_port \in TwoBytes
  BY DEF Data, Frame
<1>2. ASSUME Connection(d) = Connection(e) PROVE WireKey(d) = WireKey(e)
  BY <1>2 DEF Connection, WireKey
<1>3. ASSUME WireKey(d) = WireKey(e) PROVE Connection(d) = Connection(e)
  <2>1. /\ LoadWord(d.frame.src_ip) = LoadWord(e.frame.src_ip)
        /\ LoadWord(d.frame.dst_ip) = LoadWord(e.frame.dst_ip)
        /\ netToHost16(LoadHalf(d.frame.src_port)) = netToHost16(LoadHalf(e.frame.src_port))
        /\ netToHost16(LoadHalf(d.frame.dst_port)) = netToHost16(LoadHalf(e.frame.dst_port))
        /\ d.frame.protocol = e.frame.protocol
    BY <1>3 DEF WireKey
  <2> QED
    BY <1>1, <2>1, AddressesApart, PortsApart DEF Connection
<1> QED
  BY <1>2, <1>3

-----------------------------------------------------------------------------
(* The classifier. *)

\* What the extractors find are hosts.
LEMMA HostTypes ==
    ASSUME NEW d \in Data
    PROVE  sniOf(d) \subseteq Hosts /\ hostOf(d) \subseteq Hosts
<1>1. d.frame.payload \in [kind : PayloadKinds, host : Hosts]
  BY PayloadsAssumption DEF Data, Frame
<1> QED
  BY <1>1 DEF sniOf, hostOf

SameTally(f, g) == f.packets = g.packets /\ f.bytes = g.bytes /\ f.blocked = g.blocked

\* Naming a flow gives a flow again and leaves what it counts, and its blocking, alone.
LEMMA NamedType ==
    ASSUME NEW flow \in Flow, NEW hosts \in SUBSET Hosts
    PROVE  Named(flow, hosts) \in Flow /\ SameTally(Named(flow, hosts), flow)
<1>1. CASE hosts = {}
  BY <1>1 DEF Named, SameTally
<1>2. CASE hosts # {}
  <2> DEFINE h == CHOOSE h \in hosts : TRUE
  <2>1. h \in Hosts
    BY <1>2
  <2>2. SniToAppType[h] \in AppTypes /\ h \in Names
    BY <2>1, SniToAppTypeAssumption DEF Names
  <2>3. Named(flow, hosts) = [flow EXCEPT !.sni = h, !.app_type = SniToAppType[h]]
    BY <1>2 DEF Named
  <2>. HIDE DEF h
  <2> QED
    BY <2>2, <2>3 DEF Flow, SameTally
<1> QED
  BY <1>1, <1>2

\* The stages that set an application or a name of their own.
LEMMA SetApp ==
    ASSUME NEW flow \in Flow, NEW app \in AppTypes
    PROVE  /\ [flow EXCEPT !.app_type = app] \in Flow
           /\ SameTally([flow EXCEPT !.app_type = app], flow)
BY DEF Flow, SameTally

\* The same with a name of the stage's own.
LEMMA SetAppAndName ==
    ASSUME NEW flow \in Flow, NEW app \in AppTypes, NEW name \in Names
    PROVE  /\ [flow EXCEPT !.app_type = app, !.sni = name] \in Flow
           /\ SameTally([flow EXCEPT !.app_type = app, !.sni = name], flow)
BY DEF Flow, SameTally

\* The two SSH stages (sentry_engine_simple 178-196).
LEMMA SshType ==
    ASSUME NEW flow \in Flow, NEW p, NEW d
    PROVE  /\ SshByPort(flow, p) \in Flow /\ SameTally(SshByPort(flow, p), flow)
           /\ SshByBanner(flow, p, d) \in Flow /\ SameTally(SshByBanner(flow, p, d), flow)
<1>1. "SSH" \in AppTypes /\ SshByPortName \in Names /\ SshByBannerName \in Names
  BY DEF AppTypes, Names
<1> QED
  BY <1>1, SetAppAndName DEF SshByPort, SshByBanner, SameTally

\* The stages that extract a host (sentry_engine_simple 198-244).
LEMMA ExtractedType ==
    ASSUME NEW flow \in Flow, NEW p, NEW d \in Data
    PROVE  /\ TlsSni(flow, p, d) \in Flow /\ SameTally(TlsSni(flow, p, d), flow)
           /\ HttpHost(flow, p, d) \in Flow /\ SameTally(HttpHost(flow, p, d), flow)
<1>1. /\ Named(flow, sniOf(d)) \in Flow /\ SameTally(Named(flow, sniOf(d)), flow)
      /\ Named(flow, hostOf(d)) \in Flow /\ SameTally(Named(flow, hostOf(d)), flow)
  BY HostTypes, NamedType
<1> QED
  BY <1>1 DEF TlsSni, HttpHost, SameTally

\* The stages that guess from the ports (sentry_engine_simple 246-256).
LEMMA GuessedType ==
    ASSUME NEW flow \in Flow, NEW p
    PROVE  /\ DnsByPort(flow, p) \in Flow /\ SameTally(DnsByPort(flow, p), flow)
           /\ Fallback(flow, p) \in Flow /\ SameTally(Fallback(flow, p), flow)
<1>1. "DNS" \in AppTypes /\ "HTTP" \in AppTypes /\ "HTTPS" \in AppTypes
  BY DEF AppTypes
<1> QED
  BY <1>1, SetApp DEF DnsByPort, Fallback, SameTally

\* Classifying a packet gives a flow again and leaves what it counts, and its blocking, alone.
LEMMA ClassifyType ==
    ASSUME NEW flow \in Flow, NEW p, NEW d \in Data
    PROVE  Classify(flow, p, d) \in Flow /\ SameTally(Classify(flow, p, d), flow)
<1> DEFINE f1 == SshByPort(flow, p)
           f2 == SshByBanner(f1, p, d)
           f3 == TlsSni(f2, p, d)
           f4 == HttpHost(f3, p, d)
           f5 == DnsByPort(f4, p)
           f6 == Fallback(f5, p)
<1>1. f1 \in Flow /\ SameTally(f1, flow)
  BY SshType
<1>2. f2 \in Flow /\ SameTally(f2, flow)
  <2> HIDE DEF f1
  <2> QED
    BY <1>1, SshType DEF SameTally
<1>3. f3 \in Flow /\ SameTally(f3, flow)
  <2> HIDE DEF f2
  <2> QED
    BY <1>2, ExtractedType DEF SameTally
<1>4. f4 \in Flow /\ SameTally(f4, flow)
  <2> HIDE DEF f3
  <2> QED
    BY <1>3, ExtractedType DEF SameTally
<1>5. f5 \in Flow /\ SameTally(f5, flow)
  <2> HIDE DEF f4
  <2> QED
    BY <1>4, GuessedType DEF SameTally
<1>6. f6 \in Flow /\ SameTally(f6, flow)
  <2> HIDE DEF f5
  <2> QED
    BY <1>5, GuessedType DEF SameTally
<1>7. Classify(flow, p, d) = f6
  BY DEF Classify
<1>. HIDE DEF f6
<1> QED
  BY <1>6, <1>7

\* Counting a packet gives a flow again and changes nothing but the two counts.
LEMMA CountedType ==
    ASSUME NEW flow \in Flow, NEW d \in Data
    PROVE  /\ Counted(flow, d) \in Flow
           /\ Counted(flow, d).packets = flow.packets + 1
           /\ Counted(flow, d).bytes = flow.bytes + d.size
           /\ Counted(flow, d).blocked = flow.blocked
           /\ Counted(flow, d).sni = flow.sni /\ Counted(flow, d).app_type = flow.app_type
<1> DEFINE n == flow.packets + 1
           m == flow.bytes + d.size
<1>1. n \in Nat /\ m \in Nat
  BY DEF Data, Flow
<1>2. Counted(flow, d) = [flow EXCEPT !.packets = n, !.bytes = m]
  BY DEF Counted
<1> HIDE DEF n, m
<1>3. LET after == [flow EXCEPT !.packets = n, !.bytes = m]
      IN  /\ after \in Flow /\ after.packets = n /\ after.bytes = m
          /\ after.blocked = flow.blocked /\ after.sni = flow.sni /\ after.app_type = flow.app_type
  BY <1>1 DEF Flow
<1> QED
  BY <1>2, <1>3 DEF n, m

\* A default-constructed Flow is a flow.
LEMMA NewFlowType == NewFlow \in Flow
BY PayloadsAssumption DEF NewFlow, Flow, AppTypes, Names

\* Two flows that differ at most in being blocked.
Alike(f, g) ==
    f.app_type = g.app_type /\ f.sni = g.sni /\ f.packets = g.packets /\ f.bytes = g.bytes

-----------------------------------------------------------------------------
(* How the classification of a flow settles. *)

NamedByHost(flow) == flow.sni \in Hosts \ {""} /\ flow.app_type = SniToAppType[flow.sni]

NamedBySsh(flow) == flow.sni \in {SshByPortName, SshByBannerName} /\ flow.app_type = "SSH"

HasName(flow) == NamedByHost(flow) \/ NamedBySsh(flow)

Unnamed(flow) == flow.sni = ""

NothingKnown(flow) == Unnamed(flow) /\ flow.app_type = "UNKNOWN"

\* A flow without a name, whose application is at most a guess from its ports.
Guessed(flow, src_port, dst_port) ==
    /\ Unnamed(flow)
    /\ \/ flow.app_type \in {"UNKNOWN", "DNS"}
       \/ flow.app_type = "HTTPS" /\ dst_port = 443 /\ 53 \notin {dst_port, src_port}
       \/ flow.app_type = "HTTP" /\ dst_port = 80 /\ 53 \notin {dst_port, src_port}

\* What the stages can leave of a flow.  The ports matter: a ClientHello without a
\* name takes a guess back, and the later stages have to make the same one again.
Settled(flow, src_port, dst_port) ==
    HasName(flow) \/ Guessed(flow, src_port, dst_port)

\* A flow that has a name is not classified again.
LEMMA NamedStays ==
    ASSUME NEW flow, NEW p, NEW d, HasName(flow)
    PROVE  /\ flow.app_type # "UNKNOWN" /\ ~Unnamed(flow)
           /\ SshByPort(flow, p) = flow /\ SshByBanner(flow, p, d) = flow
           /\ TlsSni(flow, p, d) = flow /\ HttpHost(flow, p, d) = flow
           /\ DnsByPort(flow, p) = flow /\ Fallback(flow, p) = flow
<1>1. flow.app_type # "UNKNOWN" /\ ~Unnamed(flow)
  BY SniToAppTypeAssumption DEF Unnamed, HasName, NamedByHost, NamedBySsh, SshByPortName, SshByBannerName
<1> QED
  BY <1>1 DEF Unnamed, SshByPort, SshByBanner, TlsSni, HttpHost, DnsByPort, Fallback

\* The SSH stages name a flow of which nothing was known, or leave it alone.
LEMMA SshNames ==
    ASSUME NEW flow \in Flow, NEW p, NEW d
    PROVE  /\ \/ SshByPort(flow, p) = flow
              \/ (NamedBySsh(SshByPort(flow, p)) /\ flow.app_type = "UNKNOWN")
           /\ \/ SshByBanner(flow, p, d) = flow
              \/ (NamedBySsh(SshByBanner(flow, p, d)) /\ flow.app_type = "UNKNOWN")
<1>1. \A name \in {SshByPortName, SshByBannerName} :
        NamedBySsh([flow EXCEPT !.app_type = "SSH", !.sni = name])
  BY DEF NamedBySsh, Flow
<1> QED
  BY <1>1 DEF SshByPort, SshByBanner

\* A host that was found names the flow, unless it is the empty one.
LEMMA HostNames ==
    ASSUME NEW flow \in Flow, NEW hosts \in SUBSET Hosts
    PROVE  LET after == Named(flow, hosts)
           IN  \/ after = flow
               \/ NamedByHost(after)
               \/ NothingKnown(after)
<1>1. CASE hosts = {}
  BY <1>1 DEF Named
<1>2. CASE hosts # {}
  <2> DEFINE h == CHOOSE h \in hosts : TRUE
             after == Named(flow, hosts)
  <2>1. h \in Hosts
    BY <1>2
  <2>2. after = [flow EXCEPT !.sni = h, !.app_type = SniToAppType[h]]
    BY <1>2 DEF Named
  <2>. HIDE DEF h, after
  <2>3. after.sni = h /\ after.app_type = SniToAppType[h]
    BY <2>2 DEF Flow
  <2>4. NamedByHost(after) \/ NothingKnown(after)
    BY <2>1, <2>3, SniToAppTypeAssumption DEF NamedByHost, NothingKnown, Unnamed
  <2> QED
    BY <2>4 DEF after
<1> QED
  BY <1>1, <1>2

\* The stages that extract a host, on a flow without a name.
LEMMA HostStages ==
    ASSUME NEW flow \in Flow, NEW p \in SentryPacket, NEW d \in Data,
           Guessed(flow, p.src_port, p.dest_port)
    PROVE  /\ \/ TlsSni(flow, p, d) = flow
              \/ NamedByHost(TlsSni(flow, p, d))
              \/ /\ NothingKnown(TlsSni(flow, p, d))
                 /\ p.dest_port = 443 /\ flow.app_type \in {"UNKNOWN", "HTTPS"}
           /\ \/ HttpHost(flow, p, d) = flow
              \/ NamedByHost(HttpHost(flow, p, d))
              \/ /\ NothingKnown(HttpHost(flow, p, d))
                 /\ p.dest_port = 80 /\ flow.app_type \in {"UNKNOWN", "HTTP"}
<1> DEFINE t == Named(flow, sniOf(d))
           h == Named(flow, hostOf(d))
<1>1. /\ t = flow \/ NamedByHost(t) \/ NothingKnown(t)
      /\ h = flow \/ NamedByHost(h) \/ NothingKnown(h)
  BY HostTypes, HostNames
<1>2. CASE TlsSni(flow, p, d) = flow
  <2>1. CASE HttpHost(flow, p, d) = flow
    BY <1>2, <2>1
  <2>2. CASE HttpHost(flow, p, d) # flow
    <3>1. /\ HttpHost(flow, p, d) = h
          /\ p.dest_port = 80 /\ flow.app_type \in {"UNKNOWN", "HTTP"}
      BY <2>2 DEF HttpHost
    <3> HIDE DEF h
    <3> QED
      BY <1>1, <1>2, <3>1
  <2> QED
    BY <2>1, <2>2
<1>3. CASE TlsSni(flow, p, d) # flow
  <2>1. /\ TlsSni(flow, p, d) = t
        /\ p.dest_port = 443 /\ flow.app_type \in {"UNKNOWN", "HTTPS"}
    BY <1>3 DEF TlsSni
  <2>2. HttpHost(flow, p, d) = flow
    BY <2>1 DEF HttpHost
  <2> HIDE DEF t
  <2> QED
    BY <1>1, <2>1, <2>2
<1> QED
  BY <1>2, <1>3

\* The ports of a parsed packet are numbers.
LEMMA PortNumbers == ASSUME NEW p \in SentryPacket PROVE p.dest_port \in Int /\ p.src_port \in Int
BY DEF SentryPacket, Half

\* The guesses, on a flow of which nothing is known.
LEMMA GuessStages ==
    ASSUME NEW flow \in Flow, NEW p \in SentryPacket, NothingKnown(flow)
    PROVE  LET after == Fallback(DnsByPort(flow, p), p)
           IN  /\ Guessed(after, p.src_port, p.dest_port)
               /\ 53 \notin {p.dest_port, p.src_port} =>
                     /\ p.dest_port = 443 => after.app_type = "HTTPS"
                     /\ p.dest_port = 80 => after.app_type = "HTTP"
<1> DEFINE guess(app) == [flow EXCEPT !.app_type = app]
           after == Fallback(DnsByPort(flow, p), p)
<1>1. \A app \in {"DNS", "HTTPS", "HTTP"} : Unnamed(guess(app)) /\ guess(app).app_type = app
  BY DEF NothingKnown, Unnamed, Flow
<1>2. p.dest_port \in Int
  BY PortNumbers
<1>3. flow.app_type = "UNKNOWN" /\ Unnamed(flow)
  BY DEF NothingKnown
<1> HIDE DEF guess
<1>4. /\ 53 \in {p.dest_port, p.src_port} => DnsByPort(flow, p) = guess("DNS")
      /\ 53 \notin {p.dest_port, p.src_port} => DnsByPort(flow, p) = flow
  BY <1>3 DEF DnsByPort, guess
<1>5. Fallback(guess("DNS"), p) = guess("DNS")
  BY <1>1 DEF Fallback
<1>6. Fallback(flow, p) =
         IF p.dest_port = 443 THEN guess("HTTPS") ELSE IF p.dest_port = 80 THEN guess("HTTP") ELSE flow
  BY <1>3 DEF Fallback, guess
<1>7. CASE 53 \in {p.dest_port, p.src_port}
  BY <1>1, <1>4, <1>5, <1>7 DEF Guessed
<1>8. CASE 53 \notin {p.dest_port, p.src_port}
  <2>1. /\ p.dest_port = 443 => after = guess("HTTPS")
        /\ p.dest_port = 80 => after = guess("HTTP")
        /\ p.dest_port \notin {443, 80} => after = flow
    BY <1>2, <1>4, <1>6, <1>8
  <2> HIDE DEF after
  <2>2. Guessed(after, p.src_port, p.dest_port)
    BY <1>1, <1>2, <1>3, <1>8, <2>1 DEF Guessed
  <2> QED
    BY <1>1, <2>1, <2>2 DEF after
<1> QED
  BY <1>7, <1>8

\* Whatever a packet carries, it leaves a named flow as it was, and of another it
\* takes back no application but for a name.
LEMMA ClassifySettles ==
    ASSUME NEW flow \in Flow, NEW p \in SentryPacket, NEW d \in Data,
           Settled(flow, p.src_port, p.dest_port)
    PROVE  LET after == Classify(flow, p, d)
           IN  /\ Settled(after, p.src_port, p.dest_port)
               /\ ~Unnamed(flow) => after.sni = flow.sni /\ after.app_type = flow.app_type
               /\ flow.app_type # after.app_type => flow.app_type = "UNKNOWN" \/ ~Unnamed(after)
<1> DEFINE f1 == SshByPort(flow, p)
           f2 == SshByBanner(f1, p, d)
           f3 == TlsSni(f2, p, d)
           f4 == HttpHost(f3, p, d)
           after == Classify(flow, p, d)
           Good(f) == /\ Settled(f, p.src_port, p.dest_port)
                      /\ ~Unnamed(flow) => f.sni = flow.sni /\ f.app_type = flow.app_type
                      /\ flow.app_type # f.app_type => flow.app_type = "UNKNOWN" \/ ~Unnamed(f)
<1>1. after = Fallback(DnsByPort(f4, p), p)
  BY DEF Classify
<1>2. f1 \in Flow /\ f2 \in Flow
  BY SshType
<1>3. f3 \in Flow /\ f4 \in Flow
  <2> HIDE DEF f2
  <2>1. f3 \in Flow
    BY <1>2, ExtractedType
  <2> HIDE DEF f3
  <2> QED
    BY <2>1, ExtractedType
<1>4. p.dest_port \in Int
  BY PortNumbers
<1>5. \A f : HasName(f) => /\ f.app_type # "UNKNOWN" /\ ~Unnamed(f)
                           /\ SshByPort(f, p) = f /\ SshByBanner(f, p, d) = f
                           /\ TlsSni(f, p, d) = f /\ HttpHost(f, p, d) = f
                           /\ Fallback(DnsByPort(f, p), p) = f
  BY NamedStays
<1> HIDE DEF f1, f2, f3, f4, after
<1>6. CASE HasName(flow)
  <2>1. f1 = flow
    BY <1>5, <1>6 DEF f1
  <2>2. f2 = flow
    BY <1>5, <1>6, <2>1 DEF f2
  <2>3. f3 = flow
    BY <1>5, <1>6, <2>2 DEF f3
  <2>4. f4 = flow
    BY <1>5, <1>6, <2>3 DEF f4
  <2>5. after = flow
    BY <1>1, <1>5, <1>6, <2>4
  <2>6. Good(flow)
    OBVIOUS
  <2> QED
    BY <2>5, <2>6 DEF after
<1>7. CASE Guessed(flow, p.src_port, p.dest_port)
  <2>1. Unnamed(flow)
    BY <1>7 DEF Guessed
  <2>2. /\ \/ TlsSni(flow, p, d) = flow
           \/ HasName(TlsSni(flow, p, d))
           \/ /\ NothingKnown(TlsSni(flow, p, d))
              /\ p.dest_port = 443 /\ flow.app_type \in {"UNKNOWN", "HTTPS"}
        /\ \/ HttpHost(flow, p, d) = flow
           \/ HasName(HttpHost(flow, p, d))
           \/ /\ NothingKnown(HttpHost(flow, p, d))
              /\ p.dest_port = 80 /\ flow.app_type \in {"UNKNOWN", "HTTP"}
    BY <1>7, HostStages DEF HasName
  <2>3. ASSUME HasName(after) PROVE Good(after)
    BY <1>5, <2>1, <2>3 DEF Settled
  <2>4. f2 = flow \/ HasName(f2)
    <3>1. f1 = flow \/ HasName(f1)
      BY SshNames DEF f1, HasName
    <3>2. CASE f1 = flow
      BY <3>2, SshNames DEF f2, HasName
    <3>3. CASE HasName(f1)
      BY <1>5, <3>3 DEF f2
    <3> QED
      BY <3>1, <3>2, <3>3
  <2>5. CASE HasName(f2)
    <3>1. f3 = f2
      BY <1>5, <2>5 DEF f3
    <3>2. f4 = f2
      BY <1>5, <2>5, <3>1 DEF f4
    <3>3. after = f2
      BY <1>1, <1>5, <2>5, <3>2
    <3> QED
      BY <2>3, <2>5, <3>3 DEF after
  <2>6. CASE f2 = flow
    <3>1. \/ f3 = flow
          \/ HasName(f3)
          \/ NothingKnown(f3) /\ p.dest_port = 443 /\ flow.app_type \in {"UNKNOWN", "HTTPS"}
      BY <2>6, <2>2 DEF f3
    <3>2. CASE HasName(f3)
      <4>1. f4 = f3
        BY <1>5, <3>2 DEF f4
      <4>2. after = f3
        BY <1>1, <1>5, <3>2, <4>1
      <4> QED
        BY <2>3, <3>2, <4>2 DEF after
    <3>3. CASE ~HasName(f3)
      <4>1. \/ f4 = flow
            \/ HasName(f4)
            \/ NothingKnown(f4) /\ p.dest_port = 80 /\ flow.app_type \in {"UNKNOWN", "HTTP"}
            \/ NothingKnown(f4) /\ p.dest_port = 443 /\ flow.app_type \in {"UNKNOWN", "HTTPS"}
        <5>1. CASE f3 = flow
          BY <2>2, <5>1 DEF f4
        <5>2. CASE NothingKnown(f3) /\ p.dest_port = 443 /\ flow.app_type \in {"UNKNOWN", "HTTPS"}
          <6>1. f4 = f3
            BY <1>4, <5>2 DEF f4, HttpHost
          <6> QED
            BY <5>2, <6>1
        <5> QED
          BY <3>1, <3>3, <5>1, <5>2
      <4>2. CASE HasName(f4)
        <5>1. after = f4
          BY <1>1, <1>5, <4>2
        <5> QED
          BY <2>3, <4>2, <5>1 DEF after
      <4>3. CASE NothingKnown(f4) /\ ~HasName(f4)
        <5>1. /\ Guessed(after, p.src_port, p.dest_port)
              /\ 53 \notin {p.dest_port, p.src_port} =>
                     /\ p.dest_port = 443 => after.app_type = "HTTPS"
                     /\ p.dest_port = 80 => after.app_type = "HTTP"
          BY <1>1, <1>3, <4>3, GuessStages
        <5>2. flow.app_type # after.app_type => flow.app_type = "UNKNOWN"
          BY <1>7, <1>4, <4>1, <4>3, <5>1 DEF Guessed, NothingKnown
        <5>3. Good(after)
          BY <2>1, <5>1, <5>2 DEF Settled
        <5> QED
          BY <5>3 DEF after
      <4>4. CASE f4 = flow /\ flow.app_type # "UNKNOWN"
        <5>1. after = flow
          BY <1>1, <4>4 DEF DnsByPort, Fallback
        <5>2. Good(flow)
          BY <2>1
        <5> QED
          BY <5>1, <5>2 DEF after
      <4> QED
        BY <2>1, <4>1, <4>2, <4>3, <4>4 DEF NothingKnown
    <3> QED
      BY <3>2, <3>3
  <2> QED
    BY <2>4, <2>5, <2>6
<1> QED
  BY <1>6, <1>7 DEF Settled

-----------------------------------------------------------------------------
(* Where a name comes from. *)

\* The name of a flow after a packet is the one it had, one of the two for SSH, the
\* one of a ClientHello in that packet, or of a packet sent to the HTTP port.
LEMMA NameOrigin ==
    ASSUME NEW flow \in Flow, NEW p \in SentryPacket, NEW d \in Data
    PROVE  LET name == Classify(flow, p, d).sni
           IN  \/ name = flow.sni
               \/ name \in {SshByPortName, SshByBannerName}
               \/ /\ p.has_tcp /\ p.dest_port = 443 /\ PayloadOffset(d) + 5 < d.size
                  /\ name \in sniOf(d)
               \/ p.dest_port = 80
<1> DEFINE f1 == SshByPort(flow, p)
           f2 == SshByBanner(f1, p, d)
           f3 == TlsSni(f2, p, d)
           f4 == HttpHost(f3, p, d)
           f5 == DnsByPort(f4, p)
           f6 == Fallback(f5, p)
<1>1. f1 \in Flow /\ f2 \in Flow
  BY SshType
<1>2. f3 \in Flow /\ f4 \in Flow /\ f5 \in Flow
  BY <1>1, ExtractedType, GuessedType
<1>3. f1.sni = flow.sni \/ f1.sni = SshByPortName
  BY DEF SshByPort, Flow
<1> HIDE DEF f1
<1>4. f2.sni = f1.sni \/ f2.sni = SshByBannerName
  BY <1>1 DEF SshByBanner, Flow
<1> HIDE DEF f2
<1>5. \/ f3 = f2
      \/ /\ p.has_tcp /\ p.dest_port = 443 /\ PayloadOffset(d) + 5 < d.size
         /\ f3.sni \in sniOf(d)
  <2>1. CASE f3 = f2
    BY <2>1
  <2>2. CASE f3 # f2
    <3>1. /\ p.has_tcp /\ p.dest_port = 443 /\ PayloadOffset(d) + 5 < d.size
          /\ f3 = Named(f2, sniOf(d))
      BY <2>2 DEF TlsSni
    <3>2. sniOf(d) # {}
      BY <2>2, <3>1 DEF Named
    <3> DEFINE h == CHOOSE h \in sniOf(d) : TRUE
    <3>3. h \in sniOf(d)
      BY <3>2
    <3>4. f3 = [f2 EXCEPT !.sni = h, !.app_type = SniToAppType[h]]
      BY <3>1, <3>2 DEF Named
    <3> HIDE DEF h, f3
    <3>5. f3.sni = h
      BY <1>1, <3>4 DEF Flow
    <3> QED
      BY <3>1, <3>3, <3>5 DEF f3
  <2> QED
    BY <2>1, <2>2
<1> HIDE DEF f3
<1>6. f4 = f3 \/ p.dest_port = 80
  BY DEF HttpHost
<1> HIDE DEF f4
<1>7. f5.sni = f4.sni
  BY <1>2 DEF DnsByPort, Flow
<1> HIDE DEF f5
<1>8. f6.sni = f5.sni
  BY <1>2 DEF Fallback, Flow
<1>9. Classify(flow, p, d) = f6
  BY DEF Classify, f1, f2, f3, f4, f5
<1> HIDE DEF f6
<1>10. CASE p.dest_port = 80
  BY <1>10
<1>11. CASE f3 = f2
  BY <1>3, <1>4, <1>6, <1>7, <1>8, <1>9, <1>11
<1>12. CASE f3 # f2 /\ p.dest_port # 80
  BY <1>5, <1>6, <1>7, <1>8, <1>9, <1>12
<1> QED
  BY <1>10, <1>11, <1>12

-----------------------------------------------------------------------------
(* Counting packets. *)

\* One place more in a list of places.
LEMMA OnePlaceMore ==
    ASSUME NEW n \in Nat, NEW S \in SUBSET (1 .. n)
    PROVE  /\ Cardinality(S) \in Nat
           /\ Cardinality(S \cup {n + 1}) = Cardinality(S) + 1
<1>1. IsFiniteSet(1 .. n)
  BY FS_Interval
<1>2. IsFiniteSet(S)
  BY <1>1, FS_Subset
<1>3. n + 1 \notin S
  OBVIOUS
<1> QED
  BY <1>2, <1>3, FS_AddElement, FS_CardinalityType
=============================================================================
