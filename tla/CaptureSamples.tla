---------------------------- MODULE CaptureSamples ----------------------------
(***************************************************************************)
(* Hosts, frames, records and captures for the instances of the programs   *)
(* that read captures.                                                     *)
(***************************************************************************)
EXTENDS CaptureReader, FlowClassifier

LOCAL Table == INSTANCE AppTypeTable

MCHosts == {"", "www.youtube.com", "www.netflix.com", "example.org"}
MCSniToAppType == [h \in MCHosts |-> Table!sniToAppType(h)]

MCPayload(kind, host) == [kind |-> kind, host |-> host]
NoPayload == MCPayload("none", "")
MCPayloads == {MCPayload(k, "") : k \in PayloadKinds}
                \cup {MCPayload(k, h) : k \in {"client_hello", "http_request", "dns_query"}, h \in MCHosts}

-----------------------------------------------------------------------------
(* Frames *)

Wire(port) == <<port \div 256, port % 256>>
Client == <<192, 168, 1, 100>>
Other  == <<192, 168, 1, 50>>
Server == <<142, 250, 185, 206>>

Segment(src, sport, dport, payload) ==
    [ether_type |-> <<8, 0>>, version |-> 4, ihl |-> 5, protocol |-> TCP,
     src_ip |-> src, dst_ip |-> Server, src_port |-> Wire(sport), dst_port |-> Wire(dport),
     data_offset |-> 5, payload |-> payload]

Datagram(src, sport, dport, payload) ==
    [Segment(src, sport, dport, payload) EXCEPT !.protocol = UDP, !.data_offset = 0]

Reply(frame) == [frame EXCEPT !.src_ip = frame.dst_ip, !.dst_ip = frame.src_ip,
                              !.src_port = frame.dst_port, !.dst_port = frame.src_port]

\* A frame with options in its IP and TCP headers.
WithOptions(frame) == [frame EXCEPT !.ihl = 6, !.data_offset = 8]

Size(frame, length) ==
    14 + frame.ihl * 4 + (IF frame.protocol = TCP THEN frame.data_offset * 4 ELSE 8) + length

\* A record holding the first `size` bytes of a frame that was longer by `lost`.
Captured(frame, size, lost) ==
    [header |-> [ts_sec |-> WordOf(100 * size), incl_len |-> WordOf(size), orig_len |-> WordOf(size + lost)],
     frame |-> frame, extent |-> "whole"]

Whole(frame, length) == Captured(frame, Size(frame, length), 0)

Syn(src, sport, dport) == Whole(Segment(src, sport, dport, NoPayload), 0)
Hello(src, sport, host) == Whole(Segment(src, sport, 443, MCPayload("client_hello", host)), 120)
Get(src, sport, host) == Whole(Segment(src, sport, 80, MCPayload("http_request", host)), 60)
Banner(src, sport, dport) == Whole(Segment(src, sport, dport, MCPayload("ssh_banner", "")), 20)
Query(src, sport, host) == Whole(Datagram(src, sport, 53, MCPayload("dns_query", host)), 30)
Quic(src, sport) == Whole(Datagram(src, sport, 443, MCPayload("opaque", "")), 100)

MCAnyFrame == Segment(<<0, 0, 0, 0>>, 0, 0, NoPayload)

-----------------------------------------------------------------------------
(* Captures *)

CaptureOf(order, magic, snaplen, complete) ==
    [order |-> order, header |-> [magic_number |-> magic, snaplen |-> WordOf(snaplen)],
     complete |-> complete]

NativeCapture == CaptureOf("native", PCAP_MAGIC_NATIVE, 65535, TRUE)
SwappedCapture == CaptureOf("swapped", PCAP_MAGIC_NATIVE, 65535, TRUE)
CutShort == CaptureOf("native", PCAP_MAGIC_NATIVE, 65535, FALSE)
NanoSeconds == CaptureOf("native", [hi |-> 41394, lo |-> 15437], 65535, TRUE)  \* 0xa1b23c4d
=============================================================================
