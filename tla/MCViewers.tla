------------------------------ MODULE MCViewers ------------------------------
(***************************************************************************)
(* The viewers on captures of every kind, with frames that parse to each   *)
(* depth and a limit below, at and above the number of records.            *)
(***************************************************************************)
EXTENDS Viewers, CaptureSamples

MCLimits == {-3, 0, 1, 2, 9}

AllCaptures == {NativeCapture, SwappedCapture, CutShort}

Hello443(host) == Segment(Client, 50001, 443, MCPayload("client_hello", host))
Ipv4Of(protocol) == [Segment(Client, 0, 0, MCPayload("opaque", "")) EXCEPT !.protocol = protocol]

MCRecords == {
    Syn(Client, 50001, 443),
    Hello(Client, 50001, "www.youtube.com"),
    Hello(Other, 50001, ""),
    Whole(WithOptions(Hello443("example.org")), 120),
    Whole(Segment(Client, 22, 443, MCPayload("client_hello", "example.org")), 120),
    Query(Other, 50004, "example.org"),
    Captured(Ipv4Of(1), 84, 0),
    Captured([MCAnyFrame EXCEPT !.ether_type = <<8, 6>>], 60, 0),
    Captured(Segment(Client, 50001, 443, NoPayload), 40, 80),
    Captured(Segment(Client, 50001, 443, NoPayload), 10, 80),
    [Syn(Other, 50002, 80) EXCEPT !.extent = "header"],
    [Syn(Client, 50002, 80) EXCEPT !.extent = "nothing"] }
=============================================================================
