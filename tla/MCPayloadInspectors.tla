------------------------ MODULE MCPayloadInspectors ------------------------
(***************************************************************************)
(* The extractors on what senders write: ClientHellos, HTTP requests and   *)
(* DNS questions, each captured up to every length.  A message is its      *)
(* bytes and the pieces of the name in it; a piece is known once `needs`   *)
(* bytes of the message were captured.  Its layout is "plain", or          *)
(*   "split"     a handshake whose name lies in a second record,           *)
(*   "shadowed"  a request in which other bytes spell "Host:" first.       *)
(***************************************************************************)
EXTENDS CutCaptures, NameFormats

VARIABLE sent

Printable == " -./0123456789:ABCDEFGHIJKLMNOPQRSTUVWXYZabcdefghijklmnopqrstuvwxyz"
Codes == <<32>> \o [i \in 1 .. 14 |-> 44 + i] \o [i \in 1 .. 26 |-> 64 + i] \o [i \in 1 .. 26 |-> 96 + i]
Code(c) == Codes[CHOOSE i \in 1 .. Len(Printable) : SubSeq(Printable, i, i) = c]
Text(s) == [i \in 1 .. Len(s) |-> Code(SubSeq(s, i, i))]

Larger(a, b) == IF a < b THEN b ELSE a
Piece(text, needs) == [text |-> text, needs |-> needs]
Laid(i, layout, bytes, pieces) ==
    [inspector |-> i, layout |-> layout, bytes |-> bytes, pieces |-> pieces]
Message(i, bytes, pieces) == Laid(i, "plain", bytes, pieces)
Zeros(n) == [i \in 1 .. n |-> 0]
U16(n) == <<n \div 256, n % 256>>
-----------------------------------------------------------------------------
(* ClientHellos *)

Extension(type, body) == U16(type) \o U16(Len(body)) \o body
NameEntry(type, host) == <<type>> \o U16(Len(host)) \o host
NameExtension(entries) == Extension(EXTENSION_SNI, U16(Len(entries)) \o entries)

Versions == Extension(43, <<2, 3, 4>>)
Nothing == Extension(23, <<>>)

\* Everything up to the extensions, for a session id of s bytes, with what the
\* record and the list of extensions announce as their lengths.
HelloStart(s, recordLength, extensionsLength) ==
    <<22, 3, 1>> \o U16(recordLength) \o <<1, 0, 0, 60>> \o <<3, 3>> \o Zeros(32)
        \o <<s>> \o Zeros(s) \o <<0, 2, 19, 1>> \o <<1, 0>> \o U16(extensionsLength)

Hello(s, before, host, after) ==
    LET name == NameExtension(NameEntry(SNI_TYPE_HOSTNAME, Text(host)))
        exts == before \o name \o after
        all == HelloStart(s, 47 + s + Len(exts), Len(exts)) \o exts
    IN  Message("tls", all, <<Piece(Text(host), Len(all))>>)

\* The handshake goes on in a second record, behind a header of its own.
SplitHello(before, host, inFirst) ==
    LET named == before \o NameExtension(NameEntry(SNI_TYPE_HOSTNAME, Text(host)))
        all == HelloStart(0, inFirst, Len(named \o Versions)) \o named \o Versions
        cut == 5 + inFirst
        nameEnd == Len(all) - Len(Versions)
    IN  Laid("tls", IF nameEnd <= cut THEN "plain" ELSE "split",
             SubSeq(all, 1, cut) \o <<22, 3, 1>> \o U16(Len(all) - cut) \o SubSeq(all, cut + 1, Len(all)),
             <<Piece(Text(host), IF nameEnd <= cut THEN cut ELSE nameEnd + 5)>>)

Nameless(exts) == Message("tls", HelloStart(1, 48 + Len(exts), Len(exts)) \o exts, <<>>)

TlsMessages ==
    { Hello(0, <<>>, "a.org", Versions),
      Hello(3, Nothing \o Versions, "b", <<>>),
      Hello(1, Versions \o Versions, "", Nothing),
      SplitHello(Nothing, "a.org", 40),
      SplitHello(Versions, "a.org", 67),
      SplitHello(Nothing, "a.org", 70),
      Nameless(Versions \o Nothing),
      Nameless(NameExtension(<<>>)),
      Nameless(Extension(EXTENSION_SNI, <<>>)),
      Nameless(NameExtension(NameEntry(1, Text("a.org")))),
      Message("tls", <<23>> \o Tail(Hello(0, <<>>, "a.org", <<>>).bytes), <<>>) }
-----------------------------------------------------------------------------
(* HTTP requests *)

Line == <<CR, LF>>

\* A field whose name ends in "host", in some spelling, holding `value` and a port.
HttpMessage(before, field, blanks, value, port, after) ==
    LET upTo == before \o Text(field) \o <<COLON>>
        at == Len(upTo) + Len(blanks)
        atLeast(n) == Larger(n, Len(upTo) + 2)
    IN  Message("http", upTo \o blanks \o Text(value) \o Text(port) \o after,
                IF value = "" THEN (IF port = "" THEN <<>> ELSE <<Piece(<<>>, atLeast(at + 1))>>)
                ELSE [k \in 1 .. Len(value) |-> Piece(<<Text(value)[k]>>, atLeast(at + k))])

GetLine == Text("GET / HTTP/1.1") \o Line
PostLine == Text("POST /host HTTP/1.1") \o Line

Shadowed(before) ==
    [HttpMessage(before, "Host", <<SP>>, "a.org", "", Line \o Line) EXCEPT !.layout = "shadowed"]

HttpMessages ==
    { HttpMessage(GetLine, "Host", <<SP>>, "a.org", "", Line \o Line),
      HttpMessage(GetLine, "hOsT", <<>>, "a.org", ":80", Line \o Line),
      HttpMessage(PostLine \o Text("Via: hosts") \o Line, "HOST", <<TAB, SP>>, "b", "", <<LF>>),
      HttpMessage(GetLine \o Text("Host: ") \o Line, "Host", <<SP>>, "a.org", "", Line),
      Shadowed(GetLine \o Text("X-Forwarded-Host: c") \o Line),
      Shadowed(Text("GET /host:c HTTP/1.1") \o Line),
      HttpMessage(GetLine, "Host", <<SP>>, "", ":80", Line),
      HttpMessage(GetLine, "Host", <<SP>>, "", "", Line),
      Message("http", Text("TRACE / HTTP/1.1") \o Line \o Text("Host: a.org") \o Line, <<>>) }
-----------------------------------------------------------------------------
(* DNS questions *)

DnsHeader(flags, questions) == <<7, 7>> \o <<flags, 0>> \o U16(questions) \o Zeros(6)
LabelBytes(s) == <<Len(s)>> \o Text(s)

\* The labels of a question, and what ends them: the root label or a pointer.
DnsMessage(labels, ending) ==
    LET upTo(k) == FlattenSeq([i \in 1 .. k |-> LabelBytes(labels[i])])
        piece(k) == Piece((IF k = 1 THEN <<>> ELSE <<DOT>>) \o Text(labels[k]), 12 + Len(upTo(k)))
    IN  Message("dns", DnsHeader(1, 1) \o upTo(Len(labels)) \o ending \o <<0, 1, 0, 1>>,
                [k \in 1 .. Len(labels) |-> piece(k)])

DnsMessages ==
    { DnsMessage(<<"www", "a", "org">>, <<0>>),
      DnsMessage(<<"b">>, <<192, 12>>),
      DnsMessage(<<>>, <<0>>),
      Message("dns", DnsHeader(129, 1) \o LabelBytes("a") \o <<0, 0, 1, 0, 1>>, <<>>),
      Message("dns", DnsHeader(1, 0) \o LabelBytes("a") \o <<0>>, <<>>) }
-----------------------------------------------------------------------------
Messages == TlsMessages \cup HttpMessages \cup DnsMessages

\* One byte of a message arrives as another: a length that is too small or too
\* large, a field that begins elsewhere.
Damaged(m) == {[m EXCEPT !.bytes[k] = b] : k \in 1 .. Len(m.bytes), b \in {0, 1, 9, 64, 255}}

Send(m, intact, n) ==
    /\ sent = [message |-> m, intact |-> intact]
    /\ Start(m.inspector, SubSeq(m.bytes, 1, n))
    /\ Whole!Start(m.inspector, m.bytes)

MCInit ==
    \/ \E m \in Messages : \E n \in 0 .. Len(m.bytes) : Send(m, TRUE, n)
    \/ \E m \in TlsMessages \cup DnsMessages, k \in {0, 4, 9} :
          \E d \in Damaged(m) : Send(d, FALSE, Len(d.bytes) - k)
MCNext == CutNext /\ UNCHANGED sent
MCSpec == MCInit /\ [][MCNext]_<<vars, wholeVars, sent>> /\ WF_<<vars, wholeVars>>(CutNext)

\* The pieces of the name that the first n bytes of a message hold.
Heard(m, n) ==
    LET known == SelectSeq(m.pieces, LAMBDA p : p.needs <= n)
    IN  IF known = <<>> THEN {}
        ELSE {FlattenSeq([i \in 1 .. Len(known) |-> known[i].text])}

Intact(i) == pc = "done" /\ sent.intact /\ inspector = i
AsSent == answer = Heard(sent.message, length)

\* However much of a plain message was captured, the extractor answers what the captured
\* part says of the sender's name and nothing else: the whole server name or none,
\* the host as far as it was captured, the labels that are there in full.
NameAsSent == pc = "done" /\ sent.intact /\ sent.message.layout = "plain" => AsSent

\* README.md:226 "Navigates TLS headers to extract the plaintext Server Name Indication
\* (SNI) string": what is answered for a ClientHello is the name its sender put there.
ServerNameExtracted ==
    Intact("tls") => answer \subseteq Heard(sent.message, Len(sent.message.bytes))

\* README.md:200 "HTTP Host: If port is 80, search for `Host:` header in plaintext
\* payload": what is answered for a request is the value of its Host header.
HostHeaderFound == Intact("http") => AsSent

\* Every call comes back, whatever lengths the payload announces.
Terminates == <>(pc = "done")
=============================================================================
