----------------------------- MODULE MCFlowSentry -----------------------------
(***************************************************************************)
(* Small instances of the engine: the records, captures and options that   *)
(* the configurations combine.                                             *)
(***************************************************************************)
EXTENDS FlowSentryClaims, CaptureSamples

Table == INSTANCE AppTypeTable

MCAppNames == {"youtube", "Twitter", "https", "SSH", "Twitter/X"}
MCNameToAppType == [n \in MCAppNames |-> Table!nameToAppType(n)]
MCDomains == {"example", "SSH", ""}
MCContains == {nd \in (MCHosts \cup {SshByPortName, SshByBannerName}) \X MCDomains :
                    Table!Find(nd[1], nd[2])}

-----------------------------------------------------------------------------
(* Scenarios: the records a capture may hold *)

\* HTTPS: a handshake with and without its SYN, a second ClientHello on the same
\* connection, the same ports from another client, opaque data.
TlsRecords == {
    Syn(Client, 50001, 443),
    Hello(Client, 50001, "www.youtube.com"),
    Hello(Client, 50001, "example.org"),
    Hello(Other, 50001, "example.org"),
    Hello(Client, 50002, "www.youtube.com"),
    Captured(Segment(Client, 50001, 443, MCPayload("opaque", "")), 96, 1400) }

\* Everything else: SSH by port and by banner, HTTP with and without a host, DNS,
\* QUIC, replies, frames the engine passes over, frames with options, cut frames.
MixedRecords == {
    Banner(Client, 50001, 8022),
    Whole(Segment(Client, 50001, 8022, NoPayload), 0),
    Whole(Reply(Segment(Client, 50003, 22, NoPayload)), 0),
    Syn(Client, 50002, 80),
    Get(Client, 50002, "example.org"),
    Get(Client, 50002, ""),
    Query(Other, 50004, "example.org"),
    Quic(Other, 50002),
    Whole(WithOptions(Segment(Client, 50002, 80, MCPayload("http_request", "www.youtube.com"))), 60),
    Whole([MCAnyFrame EXCEPT !.ether_type = <<8, 6>>], 8),
    Captured(Segment(Client, 50002, 80, NoPayload), 40, 80),
    Captured(Segment(Client, 50002, 80, MCPayload("opaque", "")), 90, 1000),
    Captured([Segment(Client, 50002, 80, NoPayload) EXCEPT !.data_offset = 15], 70, 0),
    Captured(Segment(Client, 50002, 80, MCPayload("opaque", "")), 70000, 0),
    [Syn(Other, 50002, 80) EXCEPT !.extent = "header"],
    [Syn(Client, 50002, 80) EXCEPT !.extent = "nothing"] }

MCIpTexts == {Client, <<192, 168, 1>>}

NativeOnly == {NativeCapture}
BothOrders == {NativeCapture, SwappedCapture}
OneIpText == {Client}
TwoAppNames == {"SSH", "http"}
NameToAppTypeOfTwo == [n \in TwoAppNames |-> Table!nameToAppType(n)]
OneDomain == {"example"}
ContainsOne == {nd \in MCContains : nd[2] \in OneDomain}

AllCaptures == {NativeCapture, SwappedCapture, CutShort, NanoSeconds}
-----------------------------------------------------------------------------
(* One scenario for each claim of FlowSentryClaims *)

SwappedOnly == {SwappedCapture}
SynOnly == {Syn(Client, 50001, 443)}
ArpAndSyn == {Whole([MCAnyFrame EXCEPT !.ether_type = <<8, 6>>], 8), Syn(Client, 50001, 443)}
BothWays == {Hello(Client, 50001, "www.youtube.com"), Whole(Reply(Segment(Client, 50001, 443, NoPayload)), 0)}
=============================================================================
