----------------------------- MODULE NameFormats -----------------------------
(***************************************************************************)
(* What the three formats say of the name in a payload, as reference       *)
(* definitions for the extractors: over the whole payload at once, with no *)
(* walk and no state, and with constants and predicates of their own.      *)
(* Fields that lie behind each other are numbered, and their places are    *)
(* the values of a recursive function.                                     *)
(***************************************************************************)
EXTENDS PayloadInspectors

(* A ClientHello in a record: the session id at 43, then the cipher        *)
(* suites, the compression methods and the list of extensions, each after  *)
(* its length.  What lies behind the record is not of it: a hello may go   *)
(* on there, after the header of the next record.                          *)

IsHello ==
    /\ length >= 9 /\ At(0) = 22 /\ At(1) = 3 /\ At(2) \in 0 .. 4 /\ At(5) = 1
    /\ 5 + readUint16BE(3) <= length

RecordEnd == 5 + readUint16BE(3)
CipherSuitesAt == 44 + At(43)
CompressionAt == CipherSuitesAt + 2 + readUint16BE(CipherSuitesAt)
ExtensionsAt == CompressionAt + 1 + At(CompressionAt)
ListAnnounced == IsHello /\ ExtensionsAt + 2 <= length
AnnouncedEnd == ExtensionsAt + 2 + readUint16BE(ExtensionsAt)

\* The list goes on behind the record.
ListSplit == ListAnnounced /\ AnnouncedEnd > RecordEnd

BehindExtension == [e \in Nat |-> e + 4 + readUint16BE(e + 2)]

\* Where the extensions begin, from number 0 on.
ExtensionAt[n \in Nat] == IF n = 0 THEN ExtensionsAt + 2 ELSE BehindExtension[ExtensionAt[n - 1]]

InList(n) == BehindExtension[ExtensionAt[n]] <= Smaller(AnnouncedEnd, RecordEnd)
IsServerName(n) == readUint16BE(ExtensionAt[n]) = 0

\* The first server_name of the list, whose first entry is a host name that fits.
NamesHost(n) ==
    LET e == ExtensionAt[n]
    IN  /\ \A m \in 0 .. n : InList(m)
        /\ IsServerName(n) /\ \A m \in 0 .. n - 1 : ~IsServerName(m)
        /\ readUint16BE(e + 4) >= 3
        /\ At(e + 6) = 0
        /\ 5 + readUint16BE(e + 7) <= readUint16BE(e + 2)

TlsNames ==
    {Bytes(ExtensionAt[n] + 9, readUint16BE(ExtensionAt[n] + 7)) :
        n \in {n \in 0 .. length : ListAnnounced /\ NamesHost(n)}}
-----------------------------------------------------------------------------
(* A request: a method and a blank, and fields that begin a line each, up  *)
(* to an empty line.  The host is the value of the first field of that     *)
(* name that has one, without blanks before it and without a port.         *)

\* "GET ", "POST ", "PUT ", "HEAD ", "DELETE ", "PATCH ", "OPTIONS "
MethodTokens == {<<71, 69, 84, 32>>, <<80, 79, 83, 84, 32>>, <<80, 85, 84, 32>>, <<72, 69, 65, 68, 32>>,
                 <<68, 69, 76, 69, 84, 69, 32>>, <<80, 65, 84, 67, 72, 32>>,
                 <<79, 80, 84, 73, 79, 78, 83, 32>>}

IsRequest == \E m \in MethodTokens : Len(m) <= length /\ \A k \in 1 .. Len(m) : At(k - 1) = m[k]

LowerCase(b) == IF b \in 65 .. 90 THEN b + 32 ELSE b

\* "host:" in any case
SpellsHost(i) == \A k \in 1 .. 5 : LowerCase(At(i + k - 1)) = <<104, 111, 115, 116, 58>>[k]

BeginsLine(i) == i > 0 /\ At(i - 1) = LF
EmptyLine(i) == BeginsLine(i) /\ (At(i) = LF \/ (At(i) = CR /\ At(i + 1) = LF))
InHead(i) == \A j \in 0 .. i : ~EmptyLine(j)

\* Of a field at the very end of what was captured, two bytes have to be there.
HostFieldAt(i) == i + 6 < length /\ SpellsHost(i) /\ BeginsLine(i) /\ InHead(i)

\* Nothing but a field of the head has the letters: no other field whose name ends with
\* them, no target and no body.
HostOnlyInFields == \A i \in 0 .. length : i + 6 < length /\ SpellsHost(i) => HostFieldAt(i)

ValueAt(i) == Until(i + 5, Byte \ {SP, TAB})
HasHost(i) == HostFieldAt(i) /\ ValueAt(i) < length /\ At(ValueAt(i)) \notin {CR, LF}

HttpNames ==
    {Bytes(ValueAt(i), Until(ValueAt(i), {CR, LF, COLON}) - ValueAt(i)) :
        i \in {i \in 0 .. length : HasHost(i) /\ \A j \in 0 .. i - 1 : ~HasHost(j)}}
-----------------------------------------------------------------------------
(* A question: the labels from 12 on, one behind the other, up to          *)
(* something that is none.  The name is what lies between the first and    *)
(* the last of their bytes, with a dot for each length.                    *)

BehindLabel == [l \in Nat |-> l + 1 + At(l)]

LabelAt[n \in Nat] == IF n = 0 THEN 12 ELSE BehindLabel[LabelAt[n - 1]]

IsLabel(n) == At(LabelAt[n]) \in 1 .. 63 /\ BehindLabel[LabelAt[n]] <= length

Dotted(n) == [k \in 1 .. LabelAt[n] - 13 |-> IF \E m \in 1 .. n - 1 : LabelAt[m] = 12 + k
                                             THEN DOT ELSE At(12 + k)]

DnsNames ==
    {Dotted(n) : n \in {n \in 1 .. length :
                            isDNSQuery /\ (\A m \in 0 .. n - 1 : IsLabel(m)) /\ ~IsLabel(n)}}
-----------------------------------------------------------------------------
\* Whatever the bytes of a payload and wherever it ends, the walk of an extractor over it
\* ends with the name that the format has there, or with none if there is none:
\*   - in a ClientHello, if its record holds the name, or all of the extensions (of a list
\*     that goes on in a second record, the extractor takes the header of that record for
\*     extensions);
\*   - in a request of which only fields named Host have those letters (the extractor
\*     looks for the letters, wherever they stand);
\*   - in a question, without more.
AnswersAsFormatted ==
    pc = "done" =>
        /\ inspector = "tls" /\ (TlsNames # {} \/ ~ListSplit) => answer = TlsNames
        /\ inspector = "http" /\ IsRequest /\ HostOnlyInFields => answer = HttpNames
        /\ inspector = "dns" => answer = DnsNames
=============================================================================
