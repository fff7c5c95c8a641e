---------------------------- MODULE FlowClassifier ----------------------------
(***************************************************************************)
(* How the engine names the application of a flow: the stages of its loop, *)
(* each a function from a flow (and the packet at hand) to a flow, in the  *)
(* order the code runs them.                                               *)
(*                                                                         *)
(* A payload is what the extractors tell apart: its kind, and the host a   *)
(* ClientHello or an HTTP request names.  The kind speaks of the captured  *)
(* bytes: a ClientHello cut short by the capture is "opaque".              *)
(***************************************************************************)
EXTENDS LayerParser

CONSTANTS
    Hosts,          \* the host names payloads carry, the empty one among them
    SniToAppType    \* sniToAppType on Hosts

AppTypes == {"UNKNOWN", "HTTP", "HTTPS", "DNS", "TLS", "QUIC", "SSH", "GOOGLE",
             "FACEBOOK", "YOUTUBE", "TWITTER", "INSTAGRAM", "NETFLIX", "AMAZON",
             "MICROSOFT", "APPLE", "WHATSAPP", "TELEGRAM", "TIKTOK", "SPOTIFY",
             "ZOOM", "DISCORD", "GITHUB", "CLOUDFLARE"}

PayloadKinds == {"none", "client_hello", "http_request", "ssh_banner", "dns_query", "opaque"}

SshByPortName == "SSH Connection"
SshByBannerName == "SSH Secure Shell"
Names == Hosts \cup {SshByPortName, SshByBannerName}

ASSUME PayloadsAssumption == /\ "" \in Hosts
                             /\ Payloads \subseteq [kind : PayloadKinds, host : Hosts]
\* sniToAppType answers UNKNOWN for the empty name and for no other.
ASSUME SniToAppTypeAssumption ==
    /\ SniToAppType \in [Hosts -> AppTypes]
    /\ \A h \in Hosts : SniToAppType[h] = "UNKNOWN" <=> h = ""

Flow == [app_type : AppTypes, sni : Names, packets : Nat, bytes : Nat, blocked : BOOLEAN]
NewFlow == [app_type |-> "UNKNOWN", sni |-> "", packets |-> 0, bytes |-> 0, blocked |-> FALSE]

-----------------------------------------------------------------------------
(* Where the engine itself looks for the payload of a TCP segment; it does *)
(* not ask the parser, which has found the place already.                  *)

TransportOffset(d) == 14 + d.frame.ihl * 4

PayloadOffset(d) == TransportOffset(d) + d.frame.data_offset * 4

\* The five values on the wire that make a connection.
Connection(d) == <<d.frame.src_ip, d.frame.dst_ip, d.frame.src_port, d.frame.dst_port,
                   d.frame.protocol>>

\* The extractors' answers: at most one host.
sniOf(d)  == IF d.frame.payload.kind = "client_hello" THEN {d.frame.payload.host} ELSE {}
hostOf(d) == IF d.frame.payload.kind = "http_request" THEN {d.frame.payload.host} ELSE {}

\* A name that leaves alone an application guessed from the port.
Named_KeepsGuess(flow, hosts) ==
    IF hosts = {} THEN flow
    ELSE LET h == CHOOSE h \in hosts : TRUE
         IN  [flow EXCEPT !.sni = h,
                          !.app_type = IF @ = "UNKNOWN" THEN SniToAppType[h] ELSE @]

Named(flow, hosts) ==
    IF hosts = {} THEN flow
    ELSE LET h == CHOOSE h \in hosts : TRUE
         IN  [flow EXCEPT !.sni = h, !.app_type = SniToAppType[h]]

-----------------------------------------------------------------------------
SshByPort(flow, p) ==
    IF flow.app_type = "UNKNOWN" /\ 22 \in {p.dest_port, p.src_port}
    THEN [flow EXCEPT !.app_type = "SSH", !.sni = SshByPortName]
    ELSE flow

SshByBanner(flow, p, d) ==
    IF /\ flow.app_type = "UNKNOWN"
       /\ p.has_tcp
       /\ p.payload_length >= 4
       /\ PayloadOffset(d) + 4 <= d.size
       /\ d.frame.payload.kind = "ssh_banner"
    THEN [flow EXCEPT !.app_type = "SSH", !.sni = SshByBannerName]
    ELSE flow

\* A TlsSni that takes the name of every later ClientHello of the flow too.
TlsSni_Again(flow, p, d) ==
    IF p.has_tcp /\ p.dest_port = 443 THEN Named(flow, sniOf(d)) ELSE flow

TlsSni(flow, p, d) ==
    IF /\ flow.app_type \in {"UNKNOWN", "HTTPS"}
       /\ flow.sni = ""
       /\ p.has_tcp
       /\ p.dest_port = 443
       /\ TransportOffset(d) + 12 < d.size
       /\ PayloadOffset(d) + 5 < d.size
    THEN Named(flow, sniOf(d))
    ELSE flow

HttpHost(flow, p, d) ==
    IF /\ flow.app_type \in {"UNKNOWN", "HTTP"}
       /\ flow.sni = ""
       /\ p.has_tcp
       /\ p.dest_port = 80
       /\ TransportOffset(d) + 12 < d.size
       /\ PayloadOffset(d) < d.size
    THEN Named(flow, hostOf(d))
    ELSE flow

DnsByPort(flow, p) ==
    IF flow.app_type = "UNKNOWN" /\ 53 \in {p.dest_port, p.src_port}
    THEN [flow EXCEPT !.app_type = "DNS"]
    ELSE flow

Fallback(flow, p) ==
    IF flow.app_type # "UNKNOWN" THEN flow
    ELSE IF p.dest_port = 443 THEN [flow EXCEPT !.app_type = "HTTPS"]
    ELSE IF p.dest_port = 80 THEN [flow EXCEPT !.app_type = "HTTP"]
    ELSE flow

Classify(flow, p, d) ==
    Fallback(DnsByPort(HttpHost(TlsSni(SshByBanner(SshByPort(flow, p), p, d), p, d), p, d), p), p)

Counted(flow, d) == [flow EXCEPT !.packets = @ + 1, !.bytes = @ + d.size]
=============================================================================
