----------------------------- MODULE LayerParser -----------------------------
(***************************************************************************)
(* LayerParser::parse (sentry_packet_parser): one captured frame is taken  *)
(* apart, Ethernet, then IPv4, then TCP or UDP, every layer checking the   *)
(* captured length before it looks at a byte.                              *)
(*                                                                         *)
(* A frame is the bytes the parser and the engine look at, as they stand   *)
(* on the wire; `size` is how many bytes were captured of it.  A layer     *)
(* takes and returns a stage [ok, offset, packet]: what it wrote into the  *)
(* packet before it failed stays there.                                    *)
(***************************************************************************)
EXTENDS MachineWords

CONSTANT Payloads          \* what may follow the headers of a frame

Nibble == {n \in Nat : n < 16}
TwoBytes == Byte \X Byte
FourBytes == Byte \X Byte \X Byte \X Byte

Frame == [ether_type : TwoBytes, version : Nibble, ihl : Nibble, protocol : Byte,
          src_ip : FourBytes, dst_ip : FourBytes,
          src_port : TwoBytes, dst_port : TwoBytes, data_offset : Nibble,
          payload : Payloads]

Data == [size : Nat, frame : Frame]

IPv4 == 2048            \* EtherType::IPv4, 0x0800
TCP == 6
UDP == 17

ETH_HEADER_LEN == 14
MIN_IP_HEADER_LEN == 20
MIN_TCP_HEADER_LEN == 20
UDP_HEADER_LEN == 8

SentryPacket == [ether_type : Half, ip_version : Nibble, src_ip : FourBytes,
                 dest_ip : FourBytes, protocol : Byte, src_port : Half,
                 dest_port : Half, has_ip : BOOLEAN, has_tcp : BOOLEAN,
                 has_udp : BOOLEAN, payload_length : Nat]

FreshPacket == [ether_type |-> 0, ip_version |-> 0, src_ip |-> <<0, 0, 0, 0>>,
                dest_ip |-> <<0, 0, 0, 0>>, protocol |-> 0, src_port |-> 0,
                dest_port |-> 0, has_ip |-> FALSE, has_tcp |-> FALSE,
                has_udp |-> FALSE, payload_length |-> 0]

ParseStage == [ok : BOOLEAN, offset : Nat, packet : SentryPacket]

Failed(s) == [s EXCEPT !.ok = FALSE]

-----------------------------------------------------------------------------
parseEthernet(d, s) ==
    IF d.size < ETH_HEADER_LEN
    THEN Failed(s)
    ELSE [s EXCEPT !.packet.ether_type = netToHost16(LoadHalf(d.frame.ether_type)),
                   !.offset = ETH_HEADER_LEN]

WithAddresses(d, s) ==
    [s EXCEPT !.packet.src_ip = ipToString(LoadWord(d.frame.src_ip)),
              !.packet.dest_ip = ipToString(LoadWord(d.frame.dst_ip))]

\* A parseIPv4 that knows no options.
parseIPv4_NoOptions(d, s) ==
    IF d.size < s.offset + MIN_IP_HEADER_LEN \/ d.frame.version # 4 \/ d.frame.ihl < 5
    THEN Failed(s)
    ELSE [WithAddresses(d, s) EXCEPT !.packet.ip_version = d.frame.version,
                                     !.packet.protocol = d.frame.protocol,
                                     !.packet.has_ip = TRUE,
                                     !.offset = s.offset + MIN_IP_HEADER_LEN]

\* A parseIPv4 that forgets to shift the version out of its byte: no header has
\* version 4 then.
parseIPv4_Unshifted(d, s) ==
    IF d.size < s.offset + MIN_IP_HEADER_LEN
    THEN Failed(s)
    ELSE Failed([s EXCEPT !.packet.ip_version = d.frame.version * 16 + d.frame.ihl])

parseIPv4(d, s) ==
    LET seen == [s EXCEPT !.packet.ip_version = d.frame.version]
        ip_header_len == d.frame.ihl * 4
    IN  IF d.size < s.offset + MIN_IP_HEADER_LEN
        THEN Failed(s)
        ELSE IF \/ d.frame.version # 4
                \/ ip_header_len < MIN_IP_HEADER_LEN
                \/ d.size < s.offset + ip_header_len
        THEN Failed(seen)
        ELSE [WithAddresses(d, seen) EXCEPT !.packet.protocol = d.frame.protocol,
                                            !.packet.has_ip = TRUE,
                                            !.offset = s.offset + ip_header_len]

WithPorts(d, s) ==
    [s EXCEPT !.packet.src_port = netToHost16(LoadHalf(d.frame.src_port)),
              !.packet.dest_port = netToHost16(LoadHalf(d.frame.dst_port))]

\* A parseTCP that believes the header length the segment announces.
parseTCP_TrustsLength(d, s) ==
    IF d.size < s.offset + MIN_TCP_HEADER_LEN
    THEN Failed(s)
    ELSE [WithPorts(d, s) EXCEPT !.packet.has_tcp = TRUE,
                                 !.offset = s.offset + d.frame.data_offset * 4]

parseTCP(d, s) ==
    LET tcp_header_len == d.frame.data_offset * 4
    IN  IF d.size < s.offset + MIN_TCP_HEADER_LEN
        THEN Failed(s)
        ELSE IF \/ tcp_header_len < MIN_TCP_HEADER_LEN
                \/ d.size < s.offset + tcp_header_len
        THEN Failed(WithPorts(d, s))
        ELSE [WithPorts(d, s) EXCEPT !.packet.has_tcp = TRUE,
                                     !.offset = s.offset + tcp_header_len]

parseUDP(d, s) ==
    IF d.size < s.offset + UDP_HEADER_LEN
    THEN Failed(s)
    ELSE [WithPorts(d, s) EXCEPT !.packet.has_udp = TRUE,
                                 !.offset = s.offset + UDP_HEADER_LEN]

\* The transport layer: nothing to do for a protocol other than the two.
parseTransport(d, s) ==
    IF ~s.ok THEN s
    ELSE IF s.packet.protocol = TCP THEN parseTCP(d, s)
    ELSE IF s.packet.protocol = UDP THEN parseUDP(d, s)
    ELSE s

parseNetwork(d, s) ==
    IF s.ok /\ s.packet.ether_type = IPv4
    THEN parseTransport(d, parseIPv4(d, s))
    ELSE s

WithPayload(d, s) ==
    IF s.ok
    THEN [s EXCEPT !.packet.payload_length = IF s.offset < d.size THEN d.size - s.offset ELSE 0]
    ELSE s

ParseFrom(d, before) ==
    WithPayload(d, parseNetwork(d, parseEthernet(d, [ok |-> TRUE, offset |-> 0, packet |-> before])))

\* A parse that forgets `parsed = SentryPacket()`.
parse_NoReset(d, parsed) == ParseFrom(d, parsed)

\* parse(raw, parsed): the caller's packet object is reset first.
parse(d, parsed) == ParseFrom(d, FreshPacket)

\* The packets the engine tracks: it looks at nothing else.
Tracked(s) == s.ok /\ s.packet.has_ip /\ (s.packet.has_tcp \/ s.packet.has_udp)
=============================================================================
