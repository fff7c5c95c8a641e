-------------------------- MODULE PayloadInspectors --------------------------
(***************************************************************************)
(* The extractors (sentry_sni_extractor): PayloadInspector walks over a    *)
(* TLS ClientHello, HttpHostInspector scans an HTTP request,               *)
(* DnsInspector reads the labels of a DNS question.  Each is a call with a *)
(* payload that ends with a name or with none.                             *)
(*                                                                         *)
(* An action is one early return, one field skipped, or one turn of a      *)
(* loop.  Offsets count from zero, as in the code.                         *)
(***************************************************************************)
EXTENDS Integers, Sequences

Byte == 0 .. 255
Inspectors == {"tls", "http", "dns"}

VARIABLES
    inspector,       \* whose call it is
    payload,         \* its argument: the captured bytes of the payload
    pc,              \* what the call is about to look at, or "done"
    offset,          \* offset, or the loop variable i
    extensions_end,
    domain,          \* the labels read so far, joined with dots
    answer,          \* what the optional holds: a set of at most one name
    touched          \* auxiliary: one more than the last byte looked at

vars == <<inspector, payload, pc, offset, extensions_end, domain, answer, touched>>

Stages == {"record", "session_id", "cipher_suites", "compression", "extensions_length",
           "extensions", "method", "header", "question", "labels", "done"}

length == Len(payload)
\* Past the end there could be any byte; ReadsInside says that none is looked at.
At(o) == IF o < length THEN payload[o + 1] ELSE 0
readUint16BE(o) == At(o) * 256 + At(o + 1)
Bytes(o, n) == [i \in 1 .. n |-> At(o + i - 1)]

Smaller(a, b) == IF a < b THEN a ELSE b
Touch(n) == touched' = IF n > touched THEN n ELSE touched

Entry == [tls |-> "record", http |-> "method", dns |-> "question"]

Start(i, bytes) ==
    /\ inspector = i
    /\ payload = bytes
    /\ pc = Entry[i]
    /\ offset = 0 /\ extensions_end = 0 /\ domain = <<>> /\ answer = {} /\ touched = 0

\* Any call: with any bytes.
Init == /\ inspector \in Inspectors
        /\ payload \in Seq(Byte)
        /\ Start(inspector, payload)

Return(names) ==
    /\ pc' = "done"
    /\ answer' = names
    /\ UNCHANGED <<inspector, payload, offset, extensions_end, domain>>

GoTo(stage, o) ==
    /\ pc' = stage
    /\ offset' = o
    /\ UNCHANGED <<inspector, payload, answer>>
-----------------------------------------------------------------------------
(* PayloadInspector::extract *)

CONTENT_TYPE_HANDSHAKE == 22
HANDSHAKE_CLIENT_HELLO == 1
EXTENSION_SNI == 0
SNI_TYPE_HOSTNAME == 0

isTLSClientHello ==
    /\ length >= 9
    /\ At(0) = CONTENT_TYPE_HANDSHAKE
    /\ readUint16BE(1) \in 768 .. 772
    /\ readUint16BE(3) <= length - 5
    /\ At(5) = HANDSHAKE_CLIENT_HELLO

NotClientHello ==
    /\ pc = "record" /\ ~isTLSClientHello
    /\ Return({})
    /\ Touch(IF length < 9 THEN 0 ELSE 6)

\* The two headers, the version and the random bytes are passed over.
ClientHello ==
    /\ pc = "record" /\ isTLSClientHello
    /\ GoTo("session_id", 5 + 4 + 2 + 32)
    /\ Touch(9)
    /\ UNCHANGED <<extensions_end, domain>>

\* Passing over a field that begins with its length in `width` bytes.
SkipField(stage, width, next) ==
    /\ pc = stage
    /\ offset + width <= length
    /\ GoTo(next, offset + width + (IF width = 1 THEN At(offset) ELSE readUint16BE(offset)))
    /\ Touch(offset + width)
    /\ UNCHANGED <<extensions_end, domain>>

SessionId == SkipField("session_id", 1, "cipher_suites")
CipherSuites == SkipField("cipher_suites", 2, "compression")
Compression == SkipField("compression", 1, "extensions_length")

\* An end that believes the announced length.
ExtensionsEnd_Announced == offset + 2 + readUint16BE(offset)

ExtensionsEnd == Smaller(offset + 2 + readUint16BE(offset), length)

ExtensionsLength ==
    /\ pc = "extensions_length"
    /\ offset + 2 <= length
    /\ GoTo("extensions", offset + 2)
    /\ Touch(offset + 2)
    /\ extensions_end' = ExtensionsEnd
    /\ UNCHANGED domain

WidthOf == [session_id |-> 1, cipher_suites |-> 2, compression |-> 1, extensions_length |-> 2]

\* The four early returns on the way to the extensions.
HelloEnds ==
    /\ pc \in DOMAIN WidthOf
    /\ offset + WidthOf[pc] > length
    /\ Return({})
    /\ UNCHANGED touched

ExtensionType == readUint16BE(offset)
ExtensionLength == readUint16BE(offset + 2)

\* A comparison that leaves out the extension at the very end of the list.
ExtensionInside_NotLast == offset + 4 + ExtensionLength < extensions_end

ExtensionInside == offset + 4 + ExtensionLength <= extensions_end

\* A loop that forgets the header of an extension it passes over.
NextOffset_BodyOnly == offset + ExtensionLength

NextOffset == offset + 4 + ExtensionLength

SkipExtension ==
    /\ pc = "extensions"
    /\ offset + 4 <= extensions_end
    /\ ExtensionInside
    /\ ExtensionType # EXTENSION_SNI
    /\ GoTo("extensions", NextOffset)
    /\ Touch(offset + 4)
    /\ UNCHANGED <<extensions_end, domain>>

\* A host name that may be longer than its extension.
HoldsHostName_AnyLength(body) ==
    ExtensionLength >= 5 /\ readUint16BE(body) >= 3 /\ At(body + 2) = SNI_TYPE_HOSTNAME

\* The body of a server_name extension, whose first name is a host name.
HoldsHostName(body) ==
    /\ ExtensionLength >= 5
    /\ readUint16BE(body) >= 3
    /\ At(body + 2) = SNI_TYPE_HOSTNAME
    /\ readUint16BE(body + 3) <= ExtensionLength - 5

ServerName ==
    LET body == offset + 4
    IN  /\ pc = "extensions"
        /\ body <= extensions_end
        /\ ExtensionInside
        /\ ExtensionType = EXTENSION_SNI
        /\ HoldsHostName(body)
        /\ Return({Bytes(body + 5, readUint16BE(body + 3))})
        /\ Touch(body + 5 + readUint16BE(body + 3))

\* The first server_name extension is not to be used.
BadServerName ==
    LET body == offset + 4
    IN  /\ pc = "extensions"
        /\ body <= extensions_end
        /\ ExtensionInside
        /\ ExtensionType = EXTENSION_SNI
        /\ ~HoldsHostName(body)
        /\ Return({})
        /\ Touch(IF ExtensionLength < 5 THEN body ELSE body + 5)

\* No extension is left, or one does not fit.
ExtensionsOver ==
    /\ pc = "extensions"
    /\ offset + 4 <= extensions_end => ~ExtensionInside
    /\ Return({})
    /\ Touch(IF offset + 4 <= extensions_end THEN offset + 4 ELSE 0)

TlsStep ==
    \/ NotClientHello \/ ClientHello
    \/ SessionId \/ CipherSuites \/ Compression \/ ExtensionsLength \/ HelloEnds
    \/ SkipExtension \/ ServerName \/ BadServerName \/ ExtensionsOver
-----------------------------------------------------------------------------
(* HttpHostInspector::extract *)

TAB == 9  LF == 10  CR == 13  SP == 32  DOT == 46  COLON == 58

\* "GET ", "POST", "PUT ", "HEAD", "DELE", "PATC", "OPTI"
Methods == {<<71, 69, 84, 32>>, <<80, 79, 83, 84>>, <<80, 85, 84, 32>>, <<72, 69, 65, 68>>,
            <<68, 69, 76, 69>>, <<80, 65, 84, 67>>, <<79, 80, 84, 73>>}

isHTTPRequest == length >= 4 /\ Bytes(0, 4) \in Methods

NotRequest ==
    /\ pc = "method" /\ ~isHTTPRequest
    /\ Return({})
    /\ Touch(IF length < 4 THEN 0 ELSE 4)

Request ==
    /\ pc = "method" /\ isHTTPRequest
    /\ GoTo("header", 0)
    /\ Touch(4)
    /\ UNCHANGED <<extensions_end, domain>>

\* A scan for "Host:" as it is usually spelled.
HostAt_OneSpelling(i) == Bytes(i, 5) = <<72, 111, 115, 116, 58>>

HostAt(i) ==
    /\ At(i) \in {72, 104} /\ At(i + 1) \in {111, 79}
    /\ At(i + 2) \in {115, 83} /\ At(i + 3) \in {116, 84}
    /\ At(i + 4) = COLON

\* Where a scan from o on stops: at one of the bytes `stops`, or at the end.
Until(o, stops) ==
    CHOOSE e \in o .. length :
        /\ e < length => At(e) \in stops
        /\ \A x \in o .. e - 1 : At(x) \notin stops

ValueStart(i) == Until(i + 5, Byte \ {SP, TAB})
ValueEnd(i) == Until(ValueStart(i), {CR, LF})
HasValue(i) == ValueEnd(i) > ValueStart(i)

HostValue(i) == Bytes(ValueStart(i), ValueEnd(i) - ValueStart(i))

BeforeColon(text) ==
    IF \E k \in 1 .. Len(text) : text[k] = COLON
    THEN SubSeq(text, 1, (CHOOSE k \in 1 .. Len(text) :
                              text[k] = COLON /\ \A j \in 1 .. k - 1 : text[j] # COLON) - 1)
    ELSE text

HostFound == HostAt(offset) /\ HasValue(offset)

Scan ==
    /\ pc = "header"
    /\ offset + 6 < length
    /\ ~HostFound
    /\ GoTo("header", offset + 1)
    /\ Touch(IF HostAt(offset) THEN Smaller(ValueEnd(offset) + 1, length) ELSE offset + 5)
    /\ UNCHANGED <<extensions_end, domain>>

Host ==
    /\ pc = "header"
    /\ offset + 6 < length
    /\ HostFound
    /\ Return({BeforeColon(HostValue(offset))})
    /\ Touch(Smaller(ValueEnd(offset) + 1, length))

NoHost ==
    /\ pc = "header"
    /\ offset + 6 >= length
    /\ Return({})
    /\ UNCHANGED touched

HttpStep == NotRequest \/ Request \/ Scan \/ Host \/ NoHost
-----------------------------------------------------------------------------
(* DnsInspector::extractQuery *)

isDNSQuery == length >= 12 /\ At(2) < 128 /\ readUint16BE(4) # 0

NotQuery ==
    /\ pc = "question" /\ ~isDNSQuery
    /\ Return({})
    /\ Touch(IF length < 12 THEN 0 ELSE 6)

Query ==
    /\ pc = "question" /\ isDNSQuery
    /\ GoTo("labels", 12)
    /\ Touch(6)
    /\ UNCHANGED <<extensions_end, domain>>

LabelInside == /\ offset < length
               /\ At(offset) \in 1 .. 63
               /\ offset + 1 + At(offset) <= length

Label ==
    /\ pc = "labels" /\ LabelInside
    /\ GoTo("labels", offset + 1 + At(offset))
    /\ domain' = (IF domain = <<>> THEN <<>> ELSE Append(domain, DOT)) \o Bytes(offset + 1, At(offset))
    /\ Touch(offset + 1 + At(offset))
    /\ UNCHANGED extensions_end

\* The root label, a pointer, a label that does not fit, or no byte left.
LabelsOver ==
    /\ pc = "labels" /\ ~LabelInside
    /\ Return(IF domain = <<>> THEN {} ELSE {domain})
    /\ Touch(IF offset < length THEN offset + 1 ELSE 0)

DnsStep == NotQuery \/ Query \/ Label \/ LabelsOver
-----------------------------------------------------------------------------
Done == pc = "done" /\ UNCHANGED vars

Next == TlsStep \/ HttpStep \/ DnsStep \/ Done

Spec == Init /\ [][Next]_vars

\* What the optional can hold: one text or none.
Answers == {names \in SUBSET Seq(Byte) : \A a, b \in names : a = b}

TypeOK ==
    /\ inspector \in Inspectors
    /\ payload \in Seq(Byte)
    /\ pc \in Stages
    /\ offset \in Nat /\ extensions_end \in Nat /\ touched \in Nat
    /\ domain \in Seq(Byte)
    /\ answer \in Answers

\* The lengths in a payload are the sender's: whatever they announce, and wherever
\* the capture cut the payload, an extractor looks at captured bytes only.
ReadsInside == touched <= length

StageOrder == [record |-> 0, session_id |-> 1, cipher_suites |-> 2, compression |-> 3,
               extensions_length |-> 4, extensions |-> 5, method |-> 0, header |-> 1,
               question |-> 0, labels |-> 1, done |-> 6]

\* No length in a payload keeps an extractor busy: a step enters a later stage, or is
\* a turn of a loop that begins inside the payload and moves the offset on.  So a
\* stage takes at most as many steps as the payload has bytes.
MovesOn == [][ \/ StageOrder[pc] < StageOrder[pc']
               \/ pc' = pc /\ offset < length /\ offset < offset' ]_vars
=============================================================================
