--------------------------- MODULE ExtractorProofs ---------------------------
(***************************************************************************)
(* Theorems about the extractors, for a payload of any bytes and any       *)
(* length: they look at captured bytes only, every step of a call brings   *)
(* it nearer to its return, a payload cut anywhere gives a name that       *)
(* begins the one in the whole, and the answer is the name that the format *)
(* of the payload puts there.                                              *)
(***************************************************************************)
EXTENDS CutCaptures, NameFormats, WellFoundedInduction, TLAPS

\* A set of naturals that is not empty has a least element.
LEMMA LeastOf ==
    ASSUME NEW T, T \subseteq Nat, T # {}
    PROVE  \E x \in T : \A y \in T : x <= y
<1>1. PICK x \in T : \A y \in T : <<y, x>> \notin OpToRel(<, Nat)
  BY NatLessThanWellFounded, WFMin
<1>2. \A y \in T : ~(y < x)
  BY <1>1 DEF OpToRel
<1> QED
  BY <1>2

\* The bytes of a payload, whether one, two or a range of them.
LEMMA LengthType ==
    ASSUME payload \in Seq(Byte)
    PROVE  length \in Nat
BY DEF length

LEMMA AtType ==
    ASSUME payload \in Seq(Byte), NEW o \in Nat
    PROVE  At(o) \in Byte /\ At(o) \in Nat
<1>1. 0 \in Byte /\ Byte \subseteq Nat
  BY DEF Byte
<1>2. o < length => o + 1 \in 1 .. Len(payload)
  BY LengthType DEF length
<1>3. At(o) \in Byte
  BY <1>1, <1>2 DEF At
<1> QED
  BY <1>1, <1>3

LEMMA Uint16Type ==
    ASSUME payload \in Seq(Byte), NEW o \in Nat
    PROVE  readUint16BE(o) \in Nat
<1>1. \A x \in Nat : At(x) \in Nat
  BY AtType
<1>2. o \in Nat /\ o + 1 \in Nat
  OBVIOUS
<1>3. At(o) \in Nat /\ At(o + 1) \in Nat
  BY <1>1, <1>2, Zenon
<1>4. \A a, b \in Nat : a * 256 + b \in Nat
  OBVIOUS
<1> QED
  BY <1>3, <1>4 DEF readUint16BE

LEMMA BytesType ==
    ASSUME payload \in Seq(Byte), NEW o \in Nat, NEW n \in Nat
    PROVE  Bytes(o, n) \in Seq(Byte)
<1>1. \A i \in 1 .. n : At(o + i - 1) \in Byte
  BY AtType
<1> QED
  BY <1>1 DEF Bytes

\* A scan over n bytes from o on, which stops in a set of places or at the end, has
\* one place to stop at.
StopsAt(e, o, n, T) == /\ e \in o .. n
                       /\ e < n => e \in T
                       /\ \A x \in o .. e - 1 : x \notin T

LEMMA StopExists ==
    ASSUME NEW n \in Nat, NEW o \in 0 .. n, NEW T
    PROVE  \E e : StopsAt(e, o, n, T)
<1> DEFINE S == {e \in o .. n : e < n => e \in T}
<1>1. S \subseteq Nat /\ n \in S
  OBVIOUS
<1>2. PICK e \in S : \A y \in S : e <= y
  <2> HIDE DEF S
  <2> QED
    BY <1>1, LeastOf
<1>3. \A x \in o .. e - 1 : x \notin T
  BY <1>2
<1> QED
  BY <1>2, <1>3 DEF StopsAt

LEMMA StopOnce ==
    ASSUME NEW n \in Nat, NEW o \in 0 .. n, NEW T, NEW e, StopsAt(e, o, n, T), NEW f, StopsAt(f, o, n, T)
    PROVE  e = f
BY DEF StopsAt

\* A scan stops at the first of its bytes, or at the end of the payload.
LEMMA UntilStops ==
    ASSUME payload \in Seq(Byte), NEW o \in Nat, o <= length, NEW stops
    PROVE  StopsAt(Until(o, stops), o, length, {x \in Nat : At(x) \in stops})
<1> DEFINE T == {x \in Nat : At(x) \in stops}
           Stop(e) == /\ e < length => At(e) \in stops
                      /\ \A x \in o .. e - 1 : At(x) \notin stops
<1>1. length \in Nat /\ o \in 0 .. length
  BY LengthType
<1>2. \A x \in Nat : x \in T <=> At(x) \in stops
  OBVIOUS
<1> HIDE DEF T
<1>3. PICK z : StopsAt(z, o, length, T)
  BY <1>1, StopExists
<1>4. z \in o .. length /\ Stop(z)
  BY <1>1, <1>2, <1>3 DEF StopsAt
<1>5. Until(o, stops) = CHOOSE e \in o .. length : Stop(e)
  BY DEF Until
<1>6. Until(o, stops) \in o .. length /\ Stop(Until(o, stops))
  <2> HIDE DEF Stop
  <2> QED
    BY <1>4, <1>5
<1>7. StopsAt(Until(o, stops), o, length, T)
  BY <1>1, <1>2, <1>6 DEF StopsAt
<1> QED
  BY <1>7 DEF T

\* What is left of a host: everything before its first colon.
LEMMA BeforeColonIs ==
    ASSUME NEW text \in Seq(Byte)
    PROVE  \E n \in 0 .. Len(text) : /\ BeforeColon(text) = SubSeq(text, 1, n)
                                     /\ \A j \in 1 .. n : text[j] # COLON
                                     /\ n < Len(text) => text[n + 1] = COLON
<1>1. CASE \E k \in 1 .. Len(text) : text[k] = COLON
  <2> DEFINE T == {k \in 1 .. Len(text) : text[k] = COLON}
  <2>1. T \subseteq Nat /\ T # {}
    BY <1>1
  <2>2. PICK k \in T : \A y \in T : k <= y
    BY <2>1, LeastOf
  <2>3. \A j \in 1 .. k - 1 : text[j] # COLON
    BY <2>2
  <2>4. \E z \in 1 .. Len(text) : text[z] = COLON /\ \A j \in 1 .. z - 1 : text[j] # COLON
    BY <2>2, <2>3
  <2> DEFINE c == CHOOSE z \in 1 .. Len(text) :
                      text[z] = COLON /\ \A j \in 1 .. z - 1 : text[j] # COLON
  <2>5. c \in 1 .. Len(text) /\ text[c] = COLON /\ \A j \in 1 .. c - 1 : text[j] # COLON
    BY <2>4
  <2>6. BeforeColon(text) = SubSeq(text, 1, c - 1)
    BY <1>1 DEF BeforeColon
  <2> HIDE DEF c
  <2>7. c - 1 \in 0 .. Len(text) /\ (c - 1) + 1 = c
    BY <2>5
  <2> QED
    BY <2>5, <2>6, <2>7
<1>2. CASE ~ \E k \in 1 .. Len(text) : text[k] = COLON
  <2>1. BeforeColon(text) = SubSeq(text, 1, Len(text))
    BY <1>2 DEF BeforeColon
  <2> QED
    BY <1>2, <2>1
<1> QED
  BY <1>1, <1>2

LEMMA BeforeColonType ==
    ASSUME NEW text \in Seq(Byte)
    PROVE  BeforeColon(text) \in Seq(Byte)
BY BeforeColonIs

\* The value of a Host field, and where looking for it ends.
LEMMA HostValueType ==
    ASSUME payload \in Seq(Byte), NEW i \in Nat, i + 5 <= length
    PROVE  /\ ValueEnd(i) \in i + 5 .. length
           /\ HasValue(i) => HostValue(i) \in Seq(Byte)
<1>1. ValueStart(i) \in i + 5 .. length
  BY UntilStops, i + 5 \in Nat DEF ValueStart, StopsAt
<1>2. ValueEnd(i) \in ValueStart(i) .. length
  BY <1>1, UntilStops, ValueStart(i) \in Nat DEF ValueEnd, StopsAt
<1>3. HasValue(i) => ValueEnd(i) - ValueStart(i) \in Nat
  BY <1>1, <1>2 DEF HasValue
<1>4. HasValue(i) => HostValue(i) \in Seq(Byte)
  BY <1>1, <1>3, BytesType, ValueStart(i) \in Nat DEF HostValue
<1> QED
  BY <1>1, <1>2, <1>4, LengthType
-----------------------------------------------------------------------------
\* The end of the extensions is inside the payload, whatever length was announced.
EndInside == pc = "extensions" => extensions_end <= length

WalkInv == TypeOK /\ ReadsInside /\ EndInside

\* Every state but the last of a call begins and ends like this.
LEMMA GoToKeeps ==
    ASSUME WalkInv, NEW stage \in Stages, NEW o \in Nat, NEW n \in Nat, n <= length,
           GoTo(stage, o), Touch(n),
           extensions_end' \in Nat, domain' \in Seq(Byte),
           stage = "extensions" => extensions_end' <= length
    PROVE  WalkInv'
<1> USE DEF WalkInv
<1>1. payload' = payload /\ length' = length
  BY DEF GoTo, length
<1>2. touched' \in Nat /\ touched' <= length
  BY DEF Touch, TypeOK, ReadsInside
<1>3. TypeOK'
  BY <1>1, <1>2 DEF GoTo, TypeOK
<1> QED
  BY <1>1, <1>2, <1>3 DEF GoTo, ReadsInside, EndInside

LEMMA ReturnKeeps ==
    ASSUME WalkInv, NEW names \in Answers, NEW n \in Nat, n <= length,
           Return(names), Touch(n) \/ UNCHANGED touched
    PROVE  WalkInv'
<1> USE DEF WalkInv
<1>1. payload' = payload /\ length' = length
  BY DEF Return, length
<1>2. touched' \in Nat /\ touched' <= length
  BY DEF Touch, TypeOK, ReadsInside
<1>3. TypeOK'
  BY <1>1, <1>2 DEF Return, TypeOK, Stages
<1> QED
  BY <1>1, <1>2, <1>3 DEF Return, ReadsInside, EndInside
-----------------------------------------------------------------------------
(* The steps of PayloadInspector. *)

LEMMA SkipFieldKeeps ==
    ASSUME WalkInv, NEW stage, NEW width \in 1 .. 2, NEW next \in Stages \ {"extensions"},
           SkipField(stage, width, next)
    PROVE  WalkInv'
<1>1. payload \in Seq(Byte) /\ offset \in Nat /\ extensions_end \in Nat /\ domain \in Seq(Byte)
  BY DEF WalkInv, TypeOK
<1>2. At(offset) \in Nat /\ readUint16BE(offset) \in Nat
  BY <1>1, AtType, Uint16Type
<1> DEFINE o == offset + width + (IF width = 1 THEN At(offset) ELSE readUint16BE(offset))
<1>3. o \in Nat /\ offset + width \in Nat /\ offset + width <= length
  BY <1>1, <1>2 DEF SkipField
<1>4. GoTo(next, o) /\ Touch(offset + width) /\ UNCHANGED <<extensions_end, domain>>
  BY DEF SkipField
<1> HIDE DEF o
<1> QED
  BY <1>1, <1>3, <1>4, GoToKeeps

LEMMA TlsKeeps ==
    ASSUME WalkInv, TlsStep
    PROVE  WalkInv'
<1>1. /\ payload \in Seq(Byte) /\ offset \in Nat /\ extensions_end \in Nat
      /\ domain \in Seq(Byte) /\ length \in Nat
  BY LengthType DEF WalkInv, TypeOK
<1>2. \A o \in Nat : readUint16BE(o) \in Nat
  BY <1>1, Uint16Type
<1>3. {} \in Answers
  BY DEF Answers
<1>4. offset + 2 \in Nat /\ offset + 4 \in Nat /\ offset + 9 \in Nat
  BY <1>1
<1>5. readUint16BE(offset) \in Nat /\ ExtensionType \in Nat /\ ExtensionLength \in Nat
  BY <1>1, <1>2, <1>4, Zenon DEF ExtensionType, ExtensionLength
<1>6. CASE NotClientHello
  <2> DEFINE n == IF length < 9 THEN 0 ELSE 6
  <2>1. n \in Nat /\ n <= length
    BY <1>1
  <2>2. Return({}) /\ Touch(n)
    BY <1>6 DEF NotClientHello
  <2> HIDE DEF n
  <2> QED
    BY <1>3, <2>1, <2>2, ReturnKeeps
<1>7. CASE ClientHello
  <2>1. 9 <= length
    BY <1>7 DEF ClientHello, isTLSClientHello
  <2>2. GoTo("session_id", 43) /\ Touch(9) /\ UNCHANGED <<extensions_end, domain>>
    BY <1>7 DEF ClientHello
  <2> QED
    BY <1>1, <2>1, <2>2, GoToKeeps DEF Stages
<1>8. CASE SessionId \/ CipherSuites \/ Compression
  BY <1>8, SkipFieldKeeps DEF SessionId, CipherSuites, Compression, Stages
<1>9. CASE ExtensionsLength
  <2>1. ExtensionsEnd \in Nat /\ ExtensionsEnd <= length
    BY <1>1, <1>5 DEF ExtensionsEnd, Smaller
  <2>2. offset + 2 <= length
    BY <1>9 DEF ExtensionsLength
  <2>3. GoTo("extensions", offset + 2) /\ Touch(offset + 2) /\ extensions_end' = ExtensionsEnd
        /\ domain' = domain
    BY <1>9 DEF ExtensionsLength
  <2> QED
    BY <1>1, <1>4, <2>1, <2>2, <2>3, GoToKeeps DEF Stages
<1>10. CASE HelloEnds
  BY <1>1, <1>3, <1>10, ReturnKeeps DEF HelloEnds
<1>11. pc = "extensions" => extensions_end <= length
  BY DEF WalkInv, EndInside
<1>12. CASE SkipExtension
  <2>1. NextOffset \in Nat /\ offset + 4 <= length
    BY <1>1, <1>5, <1>11, <1>12 DEF SkipExtension, NextOffset
  <2>2. /\ pc = "extensions" /\ GoTo("extensions", NextOffset) /\ Touch(offset + 4)
        /\ UNCHANGED <<extensions_end, domain>>
    BY <1>12 DEF SkipExtension
  <2> QED
    BY <1>1, <1>4, <1>11, <2>1, <2>2, GoToKeeps DEF Stages
<1>13. CASE ServerName
  <2> DEFINE body == offset + 4
             size == readUint16BE(body + 3)
  <2>1. body \in Nat /\ body + 3 \in Nat /\ body + 5 \in Nat
    BY <1>1
  <2>2. size \in Nat
    BY <1>2, <2>1, Zenon
  <2>3. body + ExtensionLength <= length
    BY <1>1, <1>5, <1>11, <1>13 DEF ServerName, ExtensionInside
  <2>4. Return({Bytes(body + 5, size)}) /\ Touch(body + 5 + size)
    BY <1>13 DEF ServerName
  <2>5. size <= ExtensionLength - 5
    BY <1>13 DEF ServerName, HoldsHostName
  <2> HIDE DEF size, body
  <2>6. body + 5 + size \in Nat /\ body + 5 + size <= length
    BY <1>1, <1>5, <2>1, <2>2, <2>3, <2>5
  <2>7. {Bytes(body + 5, size)} \in Answers
    BY <1>1, <2>1, <2>2, BytesType DEF Answers
  <2> QED
    BY <2>4, <2>6, <2>7, ReturnKeeps
<1>14. CASE BadServerName
  <2> DEFINE n == IF ExtensionLength < 5 THEN offset + 4 ELSE offset + 4 + 5
  <2>1. n \in Nat /\ n <= length
    BY <1>1, <1>5, <1>11, <1>14 DEF BadServerName, ExtensionInside
  <2>2. Return({}) /\ Touch(n)
    BY <1>14 DEF BadServerName
  <2> HIDE DEF n
  <2> QED
    BY <1>3, <2>1, <2>2, ReturnKeeps
<1>15. CASE ExtensionsOver
  <2> DEFINE n == IF offset + 4 <= extensions_end THEN offset + 4 ELSE 0
  <2>1. n \in Nat /\ n <= length
    BY <1>1, <1>11, <1>15 DEF ExtensionsOver
  <2>2. Return({}) /\ Touch(n)
    BY <1>15 DEF ExtensionsOver
  <2> HIDE DEF n
  <2> QED
    BY <1>3, <2>1, <2>2, ReturnKeeps
<1> QED
  BY <1>6, <1>7, <1>8, <1>9, <1>10, <1>12, <1>13, <1>14, <1>15 DEF TlsStep
-----------------------------------------------------------------------------
(* The steps of HttpHostInspector and DnsInspector. *)

LEMMA HttpKeeps ==
    ASSUME WalkInv, HttpStep
    PROVE  WalkInv'
<1>1. /\ payload \in Seq(Byte) /\ offset \in Nat /\ extensions_end \in Nat
      /\ domain \in Seq(Byte) /\ length \in Nat
  BY LengthType DEF WalkInv, TypeOK
<1>2. {} \in Answers
  BY DEF Answers
<1>3. CASE NotRequest
  <2> DEFINE n == IF length < 4 THEN 0 ELSE 4
  <2>1. n \in Nat /\ n <= length
    BY <1>1
  <2>2. Return({}) /\ Touch(n)
    BY <1>3 DEF NotRequest
  <2> HIDE DEF n
  <2> QED
    BY <1>2, <2>1, <2>2, ReturnKeeps
<1>4. CASE Request
  <2>1. 4 <= length
    BY <1>4 DEF Request, isHTTPRequest
  <2>2. GoTo("header", 0) /\ Touch(4) /\ UNCHANGED <<extensions_end, domain>>
    BY <1>4 DEF Request
  <2> QED
    BY <1>1, <2>1, <2>2, GoToKeeps DEF Stages
<1>5. CASE Scan \/ Host
  <2>1. offset + 6 < length
    BY <1>5 DEF Scan, Host
  <2>2. /\ ValueEnd(offset) \in offset + 5 .. length
        /\ HasValue(offset) => HostValue(offset) \in Seq(Byte)
    BY <1>1, <2>1, HostValueType
  <2> DEFINE end == Smaller(ValueEnd(offset) + 1, length)
  <2>3. end \in Nat /\ end <= length
    BY <1>1, <2>2 DEF Smaller
  <2>4. CASE Scan
    <3> DEFINE n == IF HostAt(offset) THEN end ELSE offset + 5
    <3>1. n \in Nat /\ n <= length /\ offset + 1 \in Nat
      BY <1>1, <2>1, <2>3
    <3>2. GoTo("header", offset + 1) /\ Touch(n) /\ UNCHANGED <<extensions_end, domain>>
      BY <2>4 DEF Scan
    <3> HIDE DEF n, end
    <3> QED
      BY <1>1, <3>1, <3>2, GoToKeeps DEF Stages
  <2>5. CASE Host
    <3>1. {BeforeColon(HostValue(offset))} \in Answers
      BY <2>2, <2>5, BeforeColonType DEF Host, HostFound, Answers
    <3>2. Return({BeforeColon(HostValue(offset))}) /\ Touch(end)
      BY <2>5 DEF Host
    <3> HIDE DEF end
    <3> QED
      BY <2>3, <3>1, <3>2, ReturnKeeps
  <2> QED
    BY <1>5, <2>4, <2>5
<1>6. CASE NoHost
  BY <1>1, <1>2, <1>6, ReturnKeeps DEF NoHost
<1> QED
  BY <1>3, <1>4, <1>5, <1>6 DEF HttpStep

LEMMA DnsKeeps ==
    ASSUME WalkInv, DnsStep
    PROVE  WalkInv'
<1>1. /\ payload \in Seq(Byte) /\ offset \in Nat /\ extensions_end \in Nat
      /\ domain \in Seq(Byte) /\ length \in Nat
  BY LengthType DEF WalkInv, TypeOK
<1>2. {} \in Answers
  BY DEF Answers
<1>3. CASE NotQuery
  <2> DEFINE n == IF length < 12 THEN 0 ELSE 6
  <2>1. n \in Nat /\ n <= length
    BY <1>1
  <2>2. Return({}) /\ Touch(n)
    BY <1>3 DEF NotQuery
  <2> HIDE DEF n
  <2> QED
    BY <1>2, <2>1, <2>2, ReturnKeeps
<1>4. CASE Query
  <2>1. 12 <= length
    BY <1>4 DEF Query, isDNSQuery
  <2>2. GoTo("labels", 12) /\ Touch(6) /\ UNCHANGED <<extensions_end, domain>>
    BY <1>4 DEF Query
  <2> QED
    BY <1>1, <2>1, <2>2, GoToKeeps DEF Stages
<1>5. CASE Label
  <2> DEFINE o == offset + 1 + At(offset)
             label == Bytes(offset + 1, At(offset))
  <2>1. At(offset) \in Nat /\ offset + 1 \in Nat
    BY <1>1, AtType
  <2>2. o \in Nat /\ o <= length
    BY <1>1, <1>5, <2>1 DEF Label, LabelInside
  <2>3. label \in Seq(Byte)
    BY <1>1, <2>1, BytesType
  <2>4. /\ GoTo("labels", o) /\ Touch(o) /\ UNCHANGED extensions_end
        /\ domain' = (IF domain = <<>> THEN <<>> ELSE Append(domain, DOT)) \o label
    BY <1>5 DEF Label
  <2> HIDE DEF o, label
  <2>5. domain' \in Seq(Byte)
    <3>1. DOT \in Byte
      BY DEF DOT, Byte
    <3> QED
      BY <1>1, <2>3, <2>4, <3>1
  <2> QED
    BY <1>1, <2>2, <2>4, <2>5, GoToKeeps DEF Stages
<1>6. CASE LabelsOver
  <2> DEFINE n == IF offset < length THEN offset + 1 ELSE 0
             names == IF domain = <<>> THEN {} ELSE {domain}
  <2>1. n \in Nat /\ n <= length /\ names \in Answers
    BY <1>1 DEF Answers
  <2>2. Return(names) /\ Touch(n)
    BY <1>6 DEF LabelsOver
  <2> HIDE DEF n, names
  <2> QED
    BY <2>1, <2>2, ReturnKeeps
<1> QED
  BY <1>3, <1>4, <1>5, <1>6 DEF DnsStep
-----------------------------------------------------------------------------
\* The invariant of the walk begins with a call and is kept by its steps.
LEMMA InitWalks == Init => WalkInv
BY LengthType DEF Init, Start, Entry, Inspectors, Stages, WalkInv, TypeOK, ReadsInside, EndInside, Answers

LEMMA NextWalks == WalkInv /\ [Next]_vars => WalkInv'
<1> SUFFICES ASSUME WalkInv, [Next]_vars PROVE WalkInv'
  OBVIOUS
<1>1. CASE UNCHANGED vars
  BY <1>1 DEF vars, WalkInv, TypeOK, ReadsInside, EndInside, length
<1> QED
  BY <1>1, TlsKeeps, HttpKeeps, DnsKeeps DEF Next, Done

LEMMA WalkInvHolds == Spec => []WalkInv
BY InitWalks, NextWalks, PTL DEF Spec

\* The variables of a call keep their types, the answer included: at most one text.
THEOREM ExtractorTypesCorrect == Spec => []TypeOK
BY WalkInvHolds, PTL DEF WalkInv

\* Whatever lengths a payload announces and wherever it was cut, no extractor looks
\* past its captured bytes (the bounds checks of the three extractors).
THEOREM CapturedBytesOnly == Spec => []ReadsInside
BY WalkInvHolds, PTL DEF WalkInv
-----------------------------------------------------------------------------
\* Every step of a call goes on to a later stage or moves the offset on from a place
\* inside the payload: no announced length keeps one of the loops turning.
THEOREM StepsMoveOn == Spec => MovesOn
<1> DEFINE Advance == \/ StageOrder[pc] < StageOrder[pc']
                      \/ pc' = pc /\ offset < length /\ offset < offset'
<1>1. WalkInv /\ Next => Advance \/ UNCHANGED vars
  <2> SUFFICES ASSUME WalkInv, Next PROVE Advance \/ UNCHANGED vars
    OBVIOUS
  <2>1. /\ payload \in Seq(Byte) /\ offset \in Nat /\ length \in Nat /\ extensions_end \in Nat
        /\ pc = "extensions" => extensions_end <= length
    BY LengthType DEF WalkInv, TypeOK, EndInside
  <2>2. \A o \in Nat : readUint16BE(o) \in Nat
    BY <2>1, Uint16Type
  <2>3. CASE SkipExtension
    <3>1. offset + 2 \in Nat
      BY <2>1
    <3>2. ExtensionLength \in Nat
      BY <2>2, <3>1, Zenon DEF ExtensionLength
    <3>3. offset < length /\ offset < NextOffset
      BY <2>1, <2>3, <3>2 DEF SkipExtension, NextOffset
    <3> QED
      BY <2>3, <3>3 DEF SkipExtension, GoTo
  <2>4. CASE Scan
    BY <2>1, <2>4 DEF Scan, GoTo
  <2>5. CASE Label
    <3>1. At(offset) \in Nat
      BY <2>1, AtType
    <3> QED
      BY <2>1, <2>5, <3>1 DEF Label, LabelInside, GoTo
  <2>6. CASE \/ NotClientHello \/ ClientHello \/ SessionId \/ CipherSuites \/ Compression
             \/ ExtensionsLength \/ HelloEnds \/ ServerName \/ BadServerName \/ ExtensionsOver
    BY <2>6 DEF NotClientHello, ClientHello, SessionId, CipherSuites, Compression, SkipField,
                ExtensionsLength, HelloEnds, WidthOf, ServerName, BadServerName, ExtensionsOver,
                GoTo, Return, StageOrder
  <2>7. CASE NotRequest \/ Request \/ Host \/ NoHost \/ NotQuery \/ Query \/ LabelsOver
    BY <2>7 DEF NotRequest, Request, Host, NoHost, NotQuery, Query, LabelsOver,
                GoTo, Return, StageOrder
  <2>8. CASE Done
    BY <2>8 DEF Done
  <2> QED
    BY <2>3, <2>4, <2>5, <2>6, <2>7, <2>8 DEF Next, TlsStep, HttpStep, DnsStep
<1>2. WalkInv /\ [Next]_vars => [Advance]_vars
  BY <1>1
<1> QED
  BY WalkInvHolds, <1>2, PTL DEF Spec, MovesOn
-----------------------------------------------------------------------------
(* Two calls side by side, one with the beginning of the other's payload. *)

\* One sequence begins another when it is no longer and agrees with it.
LEMMA PrefixElements ==
    ASSUME NEW S, NEW s \in Seq(S), NEW t \in Seq(S)
    PROVE  IsPrefix(s, t) <=> Len(s) <= Len(t) /\ \A i \in 1 .. Len(s) : s[i] = t[i]
<1> DEFINE m == Len(s)
<1>1. m \in Nat /\ Len(t) \in Nat
  OBVIOUS
<1>2. SubSeq(s, 1, m) = s
  OBVIOUS
<1>3. ASSUME m <= Len(t)
      PROVE  SubSeq(t, 1, m) \in Seq(S) /\ Len(SubSeq(t, 1, m)) = m
             /\ \A i \in 1 .. m : SubSeq(t, 1, m)[i] = t[i]
  BY <1>1, <1>3
<1>4. ASSUME m <= Len(t), \A i \in 1 .. m : s[i] = t[i] PROVE s = SubSeq(t, 1, m)
  BY <1>1, <1>3, <1>4
<1> QED
  BY <1>1, <1>2, <1>3, <1>4 DEF IsPrefix

\* What was captured is the beginning of the whole payload.
IsCut == payload \in Seq(Byte) /\ whole \in Seq(Byte) /\ IsPrefix(payload, whole)

\* Inside the cut payload the two calls see the same bytes.
LEMMA SameBytes ==
    ASSUME IsCut
    PROVE  /\ length \in Nat /\ Whole!length \in Nat /\ length <= Whole!length
           /\ \A o \in Nat : o < length => Whole!At(o) = At(o)
           /\ \A o \in Nat : o + 1 < length => Whole!readUint16BE(o) = readUint16BE(o)
           /\ \A o, n \in Nat : o + n <= length => Whole!Bytes(o, n) = Bytes(o, n)
<1>1. /\ length \in Nat /\ Whole!length \in Nat /\ length <= Whole!length
      /\ \A i \in 1 .. length : whole[i] = payload[i]
  BY PrefixElements DEF IsCut, length, Whole!length
<1>2. \A o \in Nat : o < length => Whole!At(o) = At(o)
  BY <1>1 DEF At, Whole!At
<1>3. ASSUME NEW o \in Nat, o + 1 < length PROVE Whole!readUint16BE(o) = readUint16BE(o)
  <2>1. o < length /\ o + 1 \in Nat
    BY <1>1, <1>3
  <2>2. Whole!At(o) = At(o) /\ Whole!At(o + 1) = At(o + 1)
    BY <1>2, <1>3, <2>1
  <2> QED
    BY <2>2 DEF readUint16BE, Whole!readUint16BE
<1>4. ASSUME NEW o \in Nat, NEW n \in Nat, o + n <= length PROVE Whole!Bytes(o, n) = Bytes(o, n)
  <2>1. \A i \in 1 .. n : o + i - 1 \in Nat /\ o + i - 1 < length
    BY <1>1, <1>4
  <2>2. \A i \in 1 .. n : Whole!At(o + i - 1) = At(o + i - 1)
    BY <1>2, <2>1
  <2> QED
    BY <2>2 DEF Bytes, Whole!Bytes
<1> QED
  BY <1>1, <1>2, <1>3, <1>4

\* The bytes of the whole payload are bytes.
LEMMA WholeBytesType ==
    ASSUME whole \in Seq(Byte), NEW o \in Nat
    PROVE  /\ Whole!At(o) \in Byte
           /\ \A n \in Nat : Whole!Bytes(o, n) \in Seq(Byte)
<1>1. ASSUME NEW x \in Nat PROVE Whole!At(x) \in Byte
  <2>1. x < Len(whole) => x + 1 \in 1 .. Len(whole)
    OBVIOUS
  <2>2. 0 \in Byte
    BY DEF Byte
  <2> QED
    BY <2>1, <2>2 DEF Whole!At, Whole!length
<1>2. ASSUME NEW n \in Nat PROVE Whole!Bytes(o, n) \in Seq(Byte)
  <2>1. \A i \in 1 .. n : Whole!At(o + i - 1) \in Byte
    BY <1>1
  <2> QED
    BY <2>1 DEF Whole!Bytes
<1> QED
  BY <1>1, <1>2

\* A scan of the whole payload stops where the scan of its beginning does, unless that
\* ran into the cut.
LEMMA StopsCut ==
    ASSUME NEW n \in Nat, NEW m \in Nat, n <= m, NEW o \in 0 .. n, NEW S, NEW T,
           \A x \in 0 .. n - 1 : x \in S <=> x \in T,
           NEW e, StopsAt(e, o, n, S), NEW f, StopsAt(f, o, m, T)
    PROVE  e <= f /\ (e < n => f = e)
BY DEF StopsAt

\* What a scan of the whole payload answers is where it stops.
LEMMA WholeUntilStops ==
    ASSUME whole \in Seq(Byte), NEW o \in Nat, o <= Whole!length, NEW stops
    PROVE  StopsAt(Whole!Until(o, stops), o, Whole!length, {x \in Nat : Whole!At(x) \in stops})
<1> DEFINE T == {x \in Nat : Whole!At(x) \in stops}
           Stop(e) == /\ e < Whole!length => Whole!At(e) \in stops
                      /\ \A x \in o .. e - 1 : Whole!At(x) \notin stops
<1>1. Whole!length \in Nat /\ o \in 0 .. Whole!length
  BY DEF Whole!length
<1>2. \A x \in Nat : x \in T <=> Whole!At(x) \in stops
  OBVIOUS
<1> HIDE DEF T
<1>3. PICK z : StopsAt(z, o, Whole!length, T)
  BY <1>1, StopExists
<1>4. z \in o .. Whole!length /\ Stop(z)
  BY <1>1, <1>2, <1>3 DEF StopsAt
<1>5. Whole!Until(o, stops) = CHOOSE e \in o .. Whole!length : Stop(e)
  BY DEF Whole!Until
<1>6. Whole!Until(o, stops) \in o .. Whole!length /\ Stop(Whole!Until(o, stops))
  <2> HIDE DEF Stop
  <2> QED
    BY <1>4, <1>5
<1>7. StopsAt(Whole!Until(o, stops), o, Whole!length, T)
  BY <1>1, <1>2, <1>6 DEF StopsAt
<1> QED
  BY <1>7 DEF T

\* The two scans from one place: the one in the cut payload stops no later.
LEMMA UntilCut ==
    ASSUME IsCut, NEW o \in Nat, o <= length, NEW stops
    PROVE  /\ Until(o, stops) \in o .. length
           /\ Whole!Until(o, stops) \in o .. Whole!length
           /\ Until(o, stops) <= Whole!Until(o, stops)
           /\ Until(o, stops) < length => Whole!Until(o, stops) = Until(o, stops)
<1> DEFINE S == {x \in Nat : At(x) \in stops}
           T == {x \in Nat : Whole!At(x) \in stops}
           e == Until(o, stops)
           f == Whole!Until(o, stops)
<1>1. length \in Nat /\ Whole!length \in Nat /\ length <= Whole!length /\ o \in 0 .. length
  BY SameBytes
<1>2. StopsAt(e, o, length, S)
  BY UntilStops DEF IsCut
<1>3. StopsAt(f, o, Whole!length, T)
  BY <1>1, WholeUntilStops DEF IsCut
<1>4. \A x \in 0 .. length - 1 : x \in S <=> x \in T
  BY <1>1, SameBytes
<1> HIDE DEF S, T, e, f
<1>5. e <= f /\ (e < length => f = e)
  BY <1>1, <1>2, <1>3, <1>4, StopsCut
<1>6. e \in o .. length /\ f \in o .. Whole!length
  BY <1>2, <1>3 DEF StopsAt
<1> QED
  BY <1>5, <1>6 DEF e, f

\* The beginning of a text, cut at its first colon, begins the text cut at its first colon.
LEMMA BeforeColonCut ==
    ASSUME NEW s \in Seq(Byte), NEW t \in Seq(Byte), IsPrefix(s, t)
    PROVE  IsPrefix(BeforeColon(s), BeforeColon(t))
<1>1. Len(s) <= Len(t) /\ \A i \in 1 .. Len(s) : s[i] = t[i]
  BY PrefixElements
<1>2. PICK n \in 0 .. Len(s) : /\ BeforeColon(s) = SubSeq(s, 1, n)
                               /\ \A j \in 1 .. n : s[j] # COLON
                               /\ n < Len(s) => s[n + 1] = COLON
  BY BeforeColonIs
<1>3. PICK m \in 0 .. Len(t) : /\ BeforeColon(t) = SubSeq(t, 1, m)
                               /\ \A j \in 1 .. m : t[j] # COLON
                               /\ m < Len(t) => t[m + 1] = COLON
  BY BeforeColonIs
<1>4. n <= m
  <2>1. SUFFICES ASSUME m < n PROVE FALSE
    BY <1>2, <1>3
  <2>2. m + 1 \in 1 .. n /\ m + 1 \in 1 .. Len(s) /\ m < Len(t)
    BY <1>1, <2>1
  <2> QED
    BY <1>1, <1>2, <1>3, <2>2
<1>5. /\ SubSeq(s, 1, n) \in Seq(Byte) /\ Len(SubSeq(s, 1, n)) = n
      /\ \A i \in 1 .. n : SubSeq(s, 1, n)[i] = s[i]
  OBVIOUS
<1>6. /\ SubSeq(t, 1, m) \in Seq(Byte) /\ Len(SubSeq(t, 1, m)) = m
      /\ \A i \in 1 .. m : SubSeq(t, 1, m)[i] = t[i]
  OBVIOUS
<1>7. \A i \in 1 .. n : SubSeq(s, 1, n)[i] = SubSeq(t, 1, m)[i]
  BY <1>1, <1>4, <1>5, <1>6
<1>8. IsPrefix(SubSeq(s, 1, n), SubSeq(t, 1, m))
  BY <1>4, <1>5, <1>6, <1>7, PrefixElements
<1> QED
  BY <1>2, <1>3, <1>8

\* A Host field that fits is found alike, and its value begins alike.
LEMMA SameHostAt ==
    ASSUME IsCut, NEW i \in Nat, i + 6 < length
    PROVE  Whole!HostAt(i) <=> HostAt(i)
<1>1. \A k \in 0 .. 4 : i + k \in Nat /\ i + k < length
  BY SameBytes
<1>2. /\ Whole!At(i) = At(i) /\ Whole!At(i + 1) = At(i + 1) /\ Whole!At(i + 2) = At(i + 2)
      /\ Whole!At(i + 3) = At(i + 3) /\ Whole!At(i + 4) = At(i + 4)
  <2>1. i \in Nat /\ i < length
    BY SameBytes
  <2> QED
    BY <1>1, <2>1, SameBytes
<1> QED
  BY <1>2 DEF HostAt, Whole!HostAt, COLON, Whole!COLON

\* A Host field with a value in the cut payload has one in the whole that begins with it.
LEMMA HostCut ==
    ASSUME IsCut, NEW i \in Nat, i + 6 < length, HasValue(i)
    PROVE  /\ Whole!HasValue(i)
           /\ IsPrefix(BeforeColon(HostValue(i)), BeforeColon(Whole!HostValue(i)))
<1> DEFINE start == ValueStart(i)
           end == ValueEnd(i)
           wend == Whole!ValueEnd(i)
<1>1. length \in Nat /\ i + 5 \in Nat /\ i + 5 <= length
  BY SameBytes
<1>2. start \in i + 5 .. length /\ (start < length => Whole!ValueStart(i) = start)
  BY <1>1, UntilCut DEF ValueStart, Whole!ValueStart, SP, TAB, Whole!SP, Whole!TAB, Byte, Whole!Byte
<1>3. start \in Nat /\ start <= length
  BY <1>1, <1>2
<1>4. end \in start .. length /\ start < end
  BY <1>3, UntilCut DEF ValueEnd, HasValue
<1>5. Whole!ValueStart(i) = start
  BY <1>1, <1>2, <1>3, <1>4
<1>6. wend \in start .. Whole!length /\ end <= wend
  BY <1>3, <1>5, UntilCut DEF ValueEnd, Whole!ValueEnd, CR, LF, Whole!CR, Whole!LF
<1>7. HostValue(i) = Bytes(start, end - start) /\ Whole!HostValue(i) = Whole!Bytes(start, wend - start)
  BY <1>5 DEF HostValue, Whole!HostValue
<1>8. Whole!HasValue(i)
  BY <1>3, <1>4, <1>5, <1>6, SameBytes DEF Whole!HasValue
<1> HIDE DEF start, end, wend
<1> DEFINE n == end - start
           m == wend - start
<1>9. n \in Nat /\ m \in Nat /\ n <= m /\ start + n <= length
  BY <1>1, <1>3, <1>4, <1>6, SameBytes
<1>10. Bytes(start, n) = Whole!Bytes(start, n)
  BY <1>3, <1>9, SameBytes
<1> HIDE DEF n, m
<1>11. IsPrefix(Whole!Bytes(start, n), Whole!Bytes(start, m))
  <2>1. /\ Whole!Bytes(start, n) \in Seq(Byte) /\ Len(Whole!Bytes(start, n)) = n
        /\ Whole!Bytes(start, m) \in Seq(Byte) /\ Len(Whole!Bytes(start, m)) = m
    BY <1>3, <1>9, WholeBytesType DEF Whole!Bytes, IsCut
  <2>2. \A k \in 1 .. n : Whole!Bytes(start, n)[k] = Whole!Bytes(start, m)[k]
    BY <1>9 DEF Whole!Bytes
  <2> QED
    BY <1>9, <2>1, <2>2, PrefixElements
<1>12. Whole!Bytes(start, n) \in Seq(Byte) /\ Whole!Bytes(start, m) \in Seq(Byte)
  BY <1>3, <1>9, WholeBytesType DEF IsCut
<1>13. IsPrefix(BeforeColon(Bytes(start, n)), BeforeColon(Whole!Bytes(start, m)))
  BY <1>10, <1>11, <1>12, BeforeColonCut
<1> QED
  BY <1>7, <1>8, <1>13 DEF n, m

\* When only the whole payload shows a value after "Host:", nothing but blanks follow
\* up to the cut, and the other call finds no Host field any more.
LEMMA NoHostInBlanks ==
    ASSUME IsCut, NEW i \in Nat, i + 6 < length, HostAt(i), ~HasValue(i), Whole!HasValue(i),
           NEW j \in i + 1 .. length - 1
    PROVE  ~HostAt(j)
<1> DEFINE start == ValueStart(i)
<1>1. length \in Nat /\ i + 5 \in Nat /\ i + 5 <= length
  BY SameBytes
<1>2. start \in i + 5 .. length /\ (start < length => Whole!ValueStart(i) = start)
  BY <1>1, UntilCut DEF ValueStart, Whole!ValueStart, SP, TAB, Whole!SP, Whole!TAB, Byte, Whole!Byte
<1>3. start \in Nat /\ start <= length
  BY <1>1, <1>2
<1>4. start = length
  <2> SUFFICES ASSUME start < length PROVE FALSE
    BY <1>1, <1>3
  <2>1. Whole!ValueStart(i) = start
    BY <1>2
  <2>2. /\ ValueEnd(i) \in start .. length
        /\ ValueEnd(i) < length => Whole!ValueEnd(i) = ValueEnd(i)
    BY <1>3, <2>1, UntilCut DEF ValueEnd, Whole!ValueEnd, CR, LF, Whole!CR, Whole!LF
  <2>3. ValueEnd(i) = start
    BY <1>1, <1>3, <2>2 DEF HasValue
  <2> QED
    BY <1>3, <2>1, <2>2, <2>3 DEF Whole!HasValue
<1>5. StopsAt(start, i + 5, length, {x \in Nat : At(x) \in Byte \ {SP, TAB}})
  BY <1>1, UntilStops DEF ValueStart, IsCut
<1>6. \A x \in Nat : At(x) \in Byte
  BY AtType DEF IsCut
<1>7. ASSUME NEW x \in i + 5 .. length - 1 PROVE At(x) \in {SP, TAB}
  <2>1. x \in i + 5 .. start - 1 /\ x \in Nat
    BY <1>1, <1>4
  <2> QED
    BY <1>5, <1>6, <2>1 DEF StopsAt
<1>8. CASE j \in i + 5 .. length - 1
  BY <1>7, <1>8 DEF HostAt, SP, TAB
<1>9. CASE j \in {i + 1, i + 2, i + 3, i + 4}
  BY <1>9 DEF HostAt, COLON
<1> QED
  BY <1>1, <1>8, <1>9
-----------------------------------------------------------------------------
(* The calls side by side. *)

\* The places of each extractor.
StagesOf == [tls |-> {"record", "session_id", "cipher_suites", "compression",
                      "extensions_length", "extensions"},
             http |-> {"method", "header"}, dns |-> {"question", "labels"}]

\* While the call with the cut payload goes on, the other is at the same place,
Abreast ==
    /\ whole_pc = pc /\ whole_offset = offset /\ whole_domain = domain
    /\ pc = "extensions" => whole_extensions_end \in Nat /\ extensions_end <= whole_extensions_end

\* or has found a Host field whose value is behind the cut.
Missed == /\ pc = "header" /\ whole_pc = "done"
          /\ \A j \in offset .. length - 1 : ~HostAt(j)

\* A name the cut payload gave begins the one that the whole payload gives, or the
\* labels that are still being read from it.
Borne(part) ==
    \/ /\ whole_pc = "done"
       /\ \E name \in whole_answer : IsPrefix(part, name) /\ (inspector = "tls" => part = name)
    \/ /\ whole_pc = "labels" /\ inspector = "dns"
       /\ whole_offset \in Nat /\ whole_domain \in Seq(Byte)
       /\ part \in Seq(Byte) /\ part # <<>> /\ IsPrefix(part, whole_domain)

\* The invariant of the two calls.
CutInv ==
    /\ IsCut
    /\ pc # "done" => pc \in StagesOf[inspector] /\ (Abreast \/ Missed)
    /\ pc = "done" => \A part \in answer : Borne(part)

\* What a call may do at each place.
LEMMA StepOfCall ==
    ASSUME Next
    PROVE  /\ inspector' = inspector /\ payload' = payload
           /\ pc = "record" => NotClientHello \/ ClientHello
           /\ pc = "session_id" => HelloEnds \/ SessionId
           /\ pc = "cipher_suites" => HelloEnds \/ CipherSuites
           /\ pc = "compression" => HelloEnds \/ Compression
           /\ pc = "extensions_length" => HelloEnds \/ ExtensionsLength
           /\ pc = "extensions" => \/ SkipExtension \/ ServerName \/ BadServerName \/ ExtensionsOver
           /\ pc = "method" => NotRequest \/ Request
           /\ pc = "header" => Scan \/ Host \/ NoHost
           /\ pc = "question" => NotQuery \/ Query
           /\ pc = "labels" => Label \/ LabelsOver
           /\ pc = "done" => UNCHANGED vars
BY DEF Next, TlsStep, HttpStep, DnsStep, Done, NotClientHello, ClientHello, SessionId, CipherSuites,
       Compression, SkipField, ExtensionsLength, HelloEnds, WidthOf, SkipExtension, ServerName,
       BadServerName, ExtensionsOver, NotRequest, Request, Scan, Host, NoHost, NotQuery, Query,
       Label, LabelsOver, GoTo, Return, vars

\* The same of the call with the whole payload.
LEMMA StepOfWhole ==
    ASSUME Whole!Next
    PROVE  /\ inspector' = inspector /\ whole' = whole
           /\ whole_pc = "record" => Whole!NotClientHello \/ Whole!ClientHello
           /\ whole_pc = "session_id" => Whole!HelloEnds \/ Whole!SessionId
           /\ whole_pc = "cipher_suites" => Whole!HelloEnds \/ Whole!CipherSuites
           /\ whole_pc = "compression" => Whole!HelloEnds \/ Whole!Compression
           /\ whole_pc = "extensions_length" => Whole!HelloEnds \/ Whole!ExtensionsLength
           /\ whole_pc = "extensions" => \/ Whole!SkipExtension \/ Whole!ServerName
                                         \/ Whole!BadServerName \/ Whole!ExtensionsOver
           /\ whole_pc = "method" => Whole!NotRequest \/ Whole!Request
           /\ whole_pc = "header" => Whole!Scan \/ Whole!Host \/ Whole!NoHost
           /\ whole_pc = "question" => Whole!NotQuery \/ Whole!Query
           /\ whole_pc = "labels" => Whole!Label \/ Whole!LabelsOver
           /\ whole_pc = "done" => UNCHANGED wholeVars
BY DEF Whole!Next, Whole!TlsStep, Whole!HttpStep, Whole!DnsStep, Whole!Done, Whole!NotClientHello,
       Whole!ClientHello, Whole!SessionId, Whole!CipherSuites, Whole!Compression, Whole!SkipField,
       Whole!ExtensionsLength, Whole!HelloEnds, Whole!WidthOf, Whole!SkipExtension, Whole!ServerName,
       Whole!BadServerName, Whole!ExtensionsOver, Whole!NotRequest, Whole!Request, Whole!Scan,
       Whole!Host, Whole!NoHost, Whole!NotQuery, Whole!Query, Whole!Label, Whole!LabelsOver,
       Whole!GoTo, Whole!Return, Whole!vars, wholeVars

\* Two ways for the invariant to go on: the calls stay abreast, or the one with the cut
\* payload is over.
LEMMA StayAbreast ==
    ASSUME TypeOK, IsCut, Next, Whole!Next, pc' \in StagesOf[inspector], Abreast' \/ Missed'
    PROVE  CutInv'
<1>1. inspector' = inspector /\ payload' = payload /\ whole' = whole
  BY StepOfCall, StepOfWhole
<1>2. pc' # "done"
  BY DEF TypeOK, Inspectors, StagesOf
<1>3. IsCut'
  BY <1>1 DEF IsCut
<1> QED
  BY <1>1, <1>2, <1>3 DEF CutInv

\* (the second way)
LEMMA CallOver ==
    ASSUME IsCut, Next, Whole!Next, pc' = "done", \A part \in answer' : Borne(part)'
    PROVE  CutInv'
<1>1. payload' = payload /\ whole' = whole
  BY StepOfCall, StepOfWhole
<1>2. IsCut'
  BY <1>1 DEF IsCut
<1> QED
  BY <1>2 DEF CutInv

\* A field with its length is passed over alike.
LEMMA SkipFieldCut ==
    ASSUME IsCut, offset \in Nat, Abreast, NEW stage, NEW width \in 1 .. 2, NEW next,
           SkipField(stage, width, next), next # "extensions",
           Whole!HelloEnds \/ Whole!SkipField(stage, width, next),
           width = WidthOf[stage], stage \in DOMAIN WidthOf
    PROVE  pc' = next /\ Abreast'
<1>1. /\ length \in Nat /\ Whole!length \in Nat /\ length <= Whole!length
      /\ offset + width <= length /\ pc = stage
  BY SameBytes DEF SkipField
<1>2. Whole!At(offset) = At(offset) /\ (width = 2 => Whole!readUint16BE(offset) = readUint16BE(offset))
  BY <1>1, SameBytes
<1>3. ~Whole!HelloEnds
  BY <1>1 DEF Whole!HelloEnds, Abreast, WidthOf, Whole!WidthOf
<1>4. Whole!SkipField(stage, width, next)
  BY <1>3
<1>5. /\ pc' = next /\ offset' = offset + width + (IF width = 1 THEN At(offset) ELSE readUint16BE(offset))
      /\ domain' = domain
  BY DEF SkipField, GoTo
<1>6. /\ whole_pc' = next /\ whole_domain' = whole_domain
      /\ whole_offset' = whole_offset + width
            + (IF width = 1 THEN Whole!At(whole_offset) ELSE Whole!readUint16BE(whole_offset))
  BY <1>4 DEF Whole!SkipField, Whole!GoTo
<1> QED
  BY <1>2, <1>5, <1>6 DEF Abreast

\* The invariant goes on through a ClientHello,
LEMMA TlsCut ==
    ASSUME WalkInv, CutInv, Next, Whole!Next, pc \in StagesOf["tls"]
    PROVE  CutInv'
<1>1. /\ TypeOK /\ IsCut /\ Abreast /\ inspector = "tls"
      /\ offset \in Nat /\ extensions_end \in Nat /\ payload \in Seq(Byte)
      /\ pc = "extensions" => extensions_end <= length
  BY DEF WalkInv, EndInside, TypeOK, CutInv, Inspectors, StagesOf, Missed
<1>2. /\ length \in Nat /\ Whole!length \in Nat /\ length <= Whole!length
      /\ \A o \in Nat : o < length => Whole!At(o) = At(o)
      /\ \A o \in Nat : o + 1 < length => Whole!readUint16BE(o) = readUint16BE(o)
      /\ \A o, n \in Nat : o + n <= length => Whole!Bytes(o, n) = Bytes(o, n)
  BY <1>1, SameBytes
<1>3. ASSUME pc' = "done", answer' = {} PROVE CutInv'
  BY <1>1, <1>3, CallOver
<1>4. CASE pc = "record"
  <2>1. CASE NotClientHello
    BY <1>3, <2>1 DEF NotClientHello, Return
  <2>2. CASE ClientHello
    <3>1. length >= 9 /\ isTLSClientHello
      BY <2>2 DEF ClientHello, isTLSClientHello
    <3>2. /\ Whole!At(0) = At(0) /\ Whole!At(5) = At(5)
          /\ Whole!readUint16BE(1) = readUint16BE(1) /\ Whole!readUint16BE(3) = readUint16BE(3)
      BY <1>2, <3>1
    <3>3. readUint16BE(3) \in Nat
      BY <1>1, Uint16Type
    <3>4. Whole!isTLSClientHello
      BY <1>2, <3>1, <3>2, <3>3
         DEF isTLSClientHello, Whole!isTLSClientHello, CONTENT_TYPE_HANDSHAKE, HANDSHAKE_CLIENT_HELLO,
             Whole!CONTENT_TYPE_HANDSHAKE, Whole!HANDSHAKE_CLIENT_HELLO
    <3>5. Whole!ClientHello
      BY <1>1, <1>4, <3>4, StepOfWhole DEF Abreast, Whole!NotClientHello
    <3>6. /\ pc' = "session_id" /\ offset' = 43 /\ domain' = domain
          /\ whole_pc' = "session_id" /\ whole_offset' = 43 /\ whole_domain' = whole_domain
      BY <2>2, <3>5 DEF ClientHello, GoTo, Whole!ClientHello, Whole!GoTo
    <3> QED
      BY <1>1, <3>6, StayAbreast DEF Abreast, StagesOf
  <2> QED
    BY <1>4, <2>1, <2>2, StepOfCall
<1>5. CASE pc \in {"session_id", "cipher_suites", "compression"}
  <2>1. CASE HelloEnds
    BY <1>3, <2>1 DEF HelloEnds, Return
  <2>2. CASE pc = "session_id" /\ SessionId
    <3>1. Whole!HelloEnds \/ Whole!SkipField("session_id", 1, "cipher_suites")
      BY <1>1, <2>2, StepOfWhole DEF Abreast, Whole!SessionId
    <3>2. pc' = "cipher_suites" /\ Abreast'
      BY <1>1, <2>2, <3>1, SkipFieldCut DEF SessionId, WidthOf
    <3> QED
      BY <1>1, <3>2, StayAbreast DEF StagesOf
  <2>3. CASE pc = "cipher_suites" /\ CipherSuites
    <3>1. Whole!HelloEnds \/ Whole!SkipField("cipher_suites", 2, "compression")
      BY <1>1, <2>3, StepOfWhole DEF Abreast, Whole!CipherSuites
    <3>2. pc' = "compression" /\ Abreast'
      BY <1>1, <2>3, <3>1, SkipFieldCut DEF CipherSuites, WidthOf
    <3> QED
      BY <1>1, <3>2, StayAbreast DEF StagesOf
  <2>4. CASE pc = "compression" /\ Compression
    <3>1. Whole!HelloEnds \/ Whole!SkipField("compression", 1, "extensions_length")
      BY <1>1, <2>4, StepOfWhole DEF Abreast, Whole!Compression
    <3>2. pc' = "extensions_length" /\ Abreast'
      BY <1>1, <2>4, <3>1, SkipFieldCut DEF Compression, WidthOf
    <3> QED
      BY <1>1, <3>2, StayAbreast DEF StagesOf
  <2> QED
    BY <1>5, <2>1, <2>2, <2>3, <2>4, StepOfCall
<1>6. CASE pc = "extensions_length"
  <2>1. CASE HelloEnds
    BY <1>3, <2>1 DEF HelloEnds, Return
  <2>2. CASE ExtensionsLength
    <3>1. offset + 2 <= length
      BY <2>2 DEF ExtensionsLength
    <3>2. Whole!ExtensionsLength
      BY <1>1, <1>2, <1>6, <3>1, StepOfWhole DEF Abreast, Whole!HelloEnds, Whole!WidthOf
    <3>3. Whole!readUint16BE(offset) = readUint16BE(offset) /\ readUint16BE(offset) \in Nat
      BY <1>1, <1>2, <3>1, Uint16Type
    <3>4. ExtensionsEnd <= Whole!ExtensionsEnd /\ Whole!ExtensionsEnd \in Nat
      BY <1>1, <1>2, <3>3 DEF Abreast, ExtensionsEnd, Whole!ExtensionsEnd, Smaller, Whole!Smaller
    <3>5. /\ pc' = "extensions" /\ offset' = offset + 2 /\ domain' = domain
          /\ extensions_end' = ExtensionsEnd
      BY <2>2 DEF ExtensionsLength, GoTo
    <3>6. /\ whole_pc' = "extensions" /\ whole_offset' = whole_offset + 2
          /\ whole_domain' = whole_domain /\ whole_extensions_end' = Whole!ExtensionsEnd
      BY <3>2 DEF Whole!ExtensionsLength, Whole!GoTo
    <3>7. Abreast'
      BY <1>1, <3>4, <3>5, <3>6 DEF Abreast
    <3> QED
      BY <1>1, <3>5, <3>7, StayAbreast DEF StagesOf
  <2> QED
    BY <1>6, <2>1, <2>2, StepOfCall
<1>7. CASE pc = "extensions"
  <2>1. CASE BadServerName \/ ExtensionsOver
    BY <1>3, <2>1 DEF BadServerName, ExtensionsOver, Return
  <2>2. SUFFICES ASSUME SkipExtension \/ ServerName PROVE CutInv'
    BY <1>7, <2>1, StepOfCall
  <2>3. /\ offset + 4 <= extensions_end /\ extensions_end <= length /\ ExtensionInside
        /\ whole_offset = offset /\ extensions_end <= whole_extensions_end /\ whole_extensions_end \in Nat
    BY <1>1, <1>7, <2>2 DEF SkipExtension, ServerName, Abreast
  <2>4. Whole!ExtensionType = ExtensionType /\ Whole!ExtensionLength = ExtensionLength
    <3>1. /\ offset + 1 < length /\ offset + 2 \in Nat /\ (offset + 2) + 1 < length
      BY <1>1, <1>2, <2>3
    <3> QED
      BY <1>1, <1>2, <2>3, <3>1 DEF ExtensionType, ExtensionLength, Whole!ExtensionType, Whole!ExtensionLength
  <2>5. ExtensionLength \in Nat
    <3>1. offset + 2 \in Nat
      BY <1>1
    <3> QED
      BY <1>1, <3>1, Uint16Type DEF ExtensionLength
  <2>6. whole_offset + 4 <= whole_extensions_end /\ Whole!ExtensionInside
    BY <1>1, <2>3, <2>4, <2>5 DEF ExtensionInside, Whole!ExtensionInside
  <2>7. CASE SkipExtension
    <3>1. ExtensionType # EXTENSION_SNI
      BY <2>7 DEF SkipExtension
    <3>2. Whole!SkipExtension
      BY <1>1, <1>7, <2>4, <2>6, <3>1, StepOfWhole
         DEF Abreast, Whole!ServerName, Whole!BadServerName, Whole!ExtensionsOver,
             EXTENSION_SNI, Whole!EXTENSION_SNI
    <3>3. /\ pc' = "extensions" /\ offset' = NextOffset /\ domain' = domain
          /\ extensions_end' = extensions_end
      BY <2>7 DEF SkipExtension, GoTo
    <3>4. /\ whole_pc' = "extensions" /\ whole_offset' = Whole!NextOffset
          /\ whole_domain' = whole_domain /\ whole_extensions_end' = whole_extensions_end
      BY <3>2 DEF Whole!SkipExtension, Whole!GoTo
    <3>5. Whole!NextOffset = NextOffset
      BY <2>3, <2>4 DEF NextOffset, Whole!NextOffset
    <3>6. Abreast'
      BY <1>1, <2>3, <3>3, <3>4, <3>5 DEF Abreast
    <3> QED
      BY <1>1, <3>3, <3>6, StayAbreast DEF StagesOf
  <2>8. CASE ServerName
    <3> DEFINE body == offset + 4
               size == readUint16BE(body + 3)
    <3>1. /\ ExtensionType = EXTENSION_SNI /\ HoldsHostName(body)
          /\ pc' = "done" /\ answer' = {Bytes(body + 5, size)}
      BY <2>8 DEF ServerName, Return
    <3>2. /\ body \in Nat /\ body + 2 \in Nat /\ body + 3 \in Nat /\ body + 5 \in Nat
          /\ ExtensionLength >= 5 /\ body + ExtensionLength <= length
      BY <1>1, <1>2, <2>3, <2>5, <3>1 DEF HoldsHostName, ExtensionInside
    <3>3. size \in Nat /\ size <= ExtensionLength - 5
      BY <1>1, <3>1, <3>2, Uint16Type DEF HoldsHostName
    <3>4. /\ body + 1 < length /\ body + 2 < length /\ (body + 3) + 1 < length
          /\ (body + 5) + size <= length
      BY <1>2, <2>5, <3>2, <3>3
    <3>5. /\ Whole!readUint16BE(body) = readUint16BE(body) /\ Whole!At(body + 2) = At(body + 2)
          /\ Whole!readUint16BE(body + 3) = size /\ Whole!Bytes(body + 5, size) = Bytes(body + 5, size)
      BY <1>2, <3>2, <3>3, <3>4
    <3>6. Whole!HoldsHostName(body)
      BY <2>4, <3>1, <3>5
         DEF HoldsHostName, Whole!HoldsHostName, SNI_TYPE_HOSTNAME, Whole!SNI_TYPE_HOSTNAME
    <3>7. Whole!ServerName
      BY <1>1, <1>7, <2>3, <2>4, <2>6, <3>1, <3>6, StepOfWhole
         DEF Abreast, Whole!SkipExtension, Whole!BadServerName, Whole!ExtensionsOver,
             EXTENSION_SNI, Whole!EXTENSION_SNI
    <3>8. whole_pc' = "done" /\ whole_answer' = {Whole!Bytes(body + 5, Whole!readUint16BE(body + 3))}
      BY <2>3, <3>7 DEF Whole!ServerName, Whole!Return
    <3> DEFINE name == Bytes(body + 5, size)
    <3>9. answer' = {name} /\ whole_answer' = {name}
      BY <3>1, <3>5, <3>8
    <3>10. name \in Seq(Byte)
      BY <1>1, <3>2, <3>3, BytesType
    <3> HIDE DEF name
    <3>11. IsPrefix(name, name)
      BY <3>10, PrefixElements
    <3>12. \A part \in answer' : Borne(part)'
      BY <3>8, <3>9, <3>11 DEF Borne
    <3> QED
      BY <1>1, <3>1, <3>12, CallOver
  <2> QED
    BY <2>2, <2>7, <2>8
<1> QED
  BY <1>4, <1>5, <1>6, <1>7 DEF StagesOf

\* through a request,
LEMMA HttpCut ==
    ASSUME WalkInv, CutInv, Next, Whole!Next, pc \in StagesOf["http"]
    PROVE  CutInv'
<1>1. /\ TypeOK /\ IsCut /\ inspector = "http" /\ offset \in Nat /\ payload \in Seq(Byte)
      /\ Abreast \/ Missed
  BY DEF WalkInv, TypeOK, CutInv, Inspectors, StagesOf
<1>2. /\ length \in Nat /\ Whole!length \in Nat /\ length <= Whole!length
      /\ \A o, n \in Nat : o + n <= length => Whole!Bytes(o, n) = Bytes(o, n)
  BY <1>1, SameBytes
<1>3. ASSUME pc' = "done", answer' = {} PROVE CutInv'
  BY <1>1, <1>3, CallOver
<1>4. CASE pc = "method"
  <2>1. CASE NotRequest
    BY <1>3, <2>1 DEF NotRequest, Return
  <2>2. CASE Request
    <3>1. isHTTPRequest /\ length >= 4 /\ Abreast
      BY <1>1, <1>4, <2>2 DEF Request, isHTTPRequest, Missed
    <3>2. Whole!isHTTPRequest
      <4>1. 0 \in Nat /\ 4 \in Nat /\ 0 + 4 <= length
        BY <1>2, <3>1
      <4>2. Whole!Bytes(0, 4) = Bytes(0, 4)
        BY <1>2, <4>1
      <4> QED
        BY <1>2, <3>1, <4>2 DEF isHTTPRequest, Whole!isHTTPRequest, Methods, Whole!Methods
    <3>3. Whole!Request
      BY <1>4, <3>1, <3>2, StepOfWhole DEF Abreast, Whole!NotRequest
    <3>4. /\ pc' = "header" /\ offset' = 0 /\ domain' = domain
          /\ whole_pc' = "header" /\ whole_offset' = 0 /\ whole_domain' = whole_domain
      BY <2>2, <3>3 DEF Request, GoTo, Whole!Request, Whole!GoTo
    <3> QED
      BY <1>1, <3>1, <3>4, StayAbreast DEF Abreast, StagesOf
  <2> QED
    BY <1>4, <2>1, <2>2, StepOfCall
<1>5. CASE pc = "header"
  <2>1. CASE NoHost
    BY <1>3, <2>1 DEF NoHost, Return
  <2>2. SUFFICES ASSUME Scan \/ Host PROVE CutInv'
    BY <1>5, <2>1, StepOfCall
  <2>3. offset + 6 < length /\ offset + 6 < Whole!length
    BY <1>1, <1>2, <2>2 DEF Scan, Host
  <2>4. length' = length
    BY StepOfCall DEF length
  <2>5. \A j : HostAt(j)' <=> HostAt(j)
    BY <2>4, StepOfCall DEF HostAt, At
  <2>6. CASE Scan
    <3>1. /\ ~HostFound /\ pc' = "header" /\ offset' = offset + 1 /\ domain' = domain
      BY <2>6 DEF Scan, GoTo
    <3>2. CASE Missed
      <4>1. UNCHANGED wholeVars
        BY <3>2, StepOfWhole DEF Missed
      <4>2. \A j \in offset + 1 .. length - 1 : ~HostAt(j)
        BY <1>1, <3>2 DEF Missed
      <4>3. Missed'
        BY <2>4, <2>5, <3>1, <3>2, <4>1, <4>2 DEF Missed, wholeVars
      <4> QED
        BY <1>1, <3>1, <4>3, StayAbreast DEF StagesOf
    <3>3. CASE Abreast /\ Whole!HostFound
      <4>1. HostAt(offset) /\ Whole!HasValue(offset)
        BY <1>1, <2>3, <3>3, SameHostAt DEF Whole!HostFound, Abreast
      <4>2. ~HasValue(offset)
        BY <3>1, <4>1 DEF HostFound
      <4>3. \A j \in offset + 1 .. length - 1 : ~HostAt(j)
        BY <1>1, <2>3, <4>1, <4>2, NoHostInBlanks
      <4>4. Whole!Host
        BY <1>1, <1>2, <1>5, <2>3, <3>3, StepOfWhole DEF Abreast, Whole!Scan, Whole!NoHost
      <4>5. whole_pc' = "done"
        BY <4>4 DEF Whole!Host, Whole!Return
      <4>6. Missed'
        BY <2>4, <2>5, <3>1, <4>3, <4>5 DEF Missed
      <4> QED
        BY <1>1, <3>1, <4>6, StayAbreast DEF StagesOf
    <3>4. CASE Abreast /\ ~Whole!HostFound
      <4>1. Whole!Scan
        BY <1>1, <1>2, <1>5, <2>3, <3>4, StepOfWhole DEF Abreast, Whole!Host, Whole!NoHost
      <4>2. /\ whole_pc' = "header" /\ whole_offset' = whole_offset + 1 /\ whole_domain' = whole_domain
        BY <4>1 DEF Whole!Scan, Whole!GoTo
      <4> QED
        BY <1>1, <3>1, <3>4, <4>2, StayAbreast DEF Abreast, StagesOf
    <3> QED
      BY <1>1, <3>2, <3>3, <3>4
  <2>7. CASE Host
    <3>1. /\ HostAt(offset) /\ HasValue(offset) /\ pc' = "done"
          /\ answer' = {BeforeColon(HostValue(offset))}
      BY <2>7 DEF Host, HostFound, Return
    <3>2. Abreast
      BY <1>1, <1>2, <2>3, <3>1 DEF Missed
    <3>3. /\ Whole!HostFound
          /\ IsPrefix(BeforeColon(HostValue(offset)), BeforeColon(Whole!HostValue(offset)))
      BY <1>1, <2>3, <3>1, <3>2, SameHostAt, HostCut DEF Whole!HostFound, Abreast
    <3>4. Whole!Host
      BY <1>1, <1>2, <1>5, <2>3, <3>2, <3>3, StepOfWhole DEF Abreast, Whole!Scan, Whole!NoHost
    <3>5. whole_pc' = "done" /\ whole_answer' = {BeforeColon(Whole!HostValue(offset))}
      BY <3>2, <3>4 DEF Whole!Host, Whole!Return, Abreast, BeforeColon, Whole!BeforeColon, COLON, Whole!COLON
    <3>6. inspector' # "tls"
      BY <1>1, StepOfCall
    <3>7. \A part \in answer' : Borne(part)'
      BY <3>1, <3>3, <3>5, <3>6 DEF Borne
    <3> QED
      BY <1>1, <3>1, <3>7, CallOver
  <2> QED
    BY <2>2, <2>6, <2>7
<1> QED
  BY <1>4, <1>5 DEF StagesOf

\* What begins a text begins every longer one.
LEMMA PrefixGrows ==
    ASSUME NEW s \in Seq(Byte), NEW t \in Seq(Byte), NEW u \in Seq(Byte), IsPrefix(s, t)
    PROVE  IsPrefix(s, t \o u)
<1>1. /\ t \o u \in Seq(Byte) /\ Len(t \o u) = Len(t) + Len(u)
      /\ \A i \in 1 .. Len(t) : (t \o u)[i] = t[i]
  OBVIOUS
<1>2. Len(s) <= Len(t) /\ \A i \in 1 .. Len(s) : s[i] = t[i]
  BY PrefixElements
<1>3. Len(s) <= Len(t \o u) /\ \A i \in 1 .. Len(s) : s[i] = (t \o u)[i]
  BY <1>1, <1>2
<1> QED
  BY <1>1, <1>3, PrefixElements

\* What the cut payload gave still begins what is being read from the whole.
LEMMA BorneKept ==
    ASSUME IsCut, Next, Whole!Next, NEW part, Borne(part)
    PROVE  Borne(part)'
<1>1. inspector' = inspector
  BY StepOfCall
<1>2. CASE whole_pc = "done"
  <2>1. UNCHANGED wholeVars
    BY <1>2, StepOfWhole
  <2> QED
    BY <1>1, <1>2, <2>1 DEF Borne, wholeVars
<1>3. CASE whole_pc # "done"
  <2>1. /\ whole_pc = "labels" /\ inspector = "dns"
        /\ whole_offset \in Nat /\ whole_domain \in Seq(Byte)
        /\ part \in Seq(Byte) /\ part # <<>> /\ IsPrefix(part, whole_domain)
    BY <1>3 DEF Borne
  <2>2. whole_domain # <<>>
    <3>1. part \in Seq(Byte) /\ whole_domain \in Seq(Byte) /\ Len(part) <= Len(whole_domain)
      BY <2>1, PrefixElements
    <3> QED
      BY <2>1, <3>1
  <2>3. CASE Whole!LabelsOver
    <3>1. whole_pc' = "done" /\ whole_answer' = {whole_domain}
      BY <2>2, <2>3 DEF Whole!LabelsOver, Whole!Return
    <3> QED
      BY <1>1, <2>1, <3>1 DEF Borne
  <2>4. CASE Whole!Label
    <3> DEFINE o == whole_offset
               label == Whole!Bytes(o + 1, Whole!At(o))
    <3>1. /\ whole_pc' = "labels" /\ whole_offset' = o + 1 + Whole!At(o)
          /\ whole_domain' = Append(whole_domain, DOT) \o label
      BY <2>2, <2>4 DEF Whole!Label, Whole!GoTo, DOT, Whole!DOT
    <3>2. Whole!At(o) \in Nat /\ o + 1 \in Nat
      <4>1. Whole!At(o) \in Byte
        BY <2>1, WholeBytesType DEF IsCut
      <4>2. \A b \in Byte : b \in Nat
        BY DEF Byte
      <4> QED
        BY <2>1, <4>1, <4>2
    <3>3. label \in Seq(Byte)
      BY <3>2, WholeBytesType DEF IsCut
    <3>4. <<DOT>> \in Seq(Byte) /\ Append(whole_domain, DOT) = whole_domain \o <<DOT>>
      BY <2>1 DEF DOT, Byte
    <3>5. o + 1 + Whole!At(o) \in Nat
      BY <2>1, <3>2
    <3> HIDE DEF o, label
    <3>6. \A t, u \in Seq(Byte) : IsPrefix(part, t) => t \o u \in Seq(Byte) /\ IsPrefix(part, t \o u)
      BY <2>1, PrefixGrows
    <3> HIDE DEF IsPrefix
    <3>7. /\ IsPrefix(part, (whole_domain \o <<DOT>>) \o label)
          /\ (whole_domain \o <<DOT>>) \o label \in Seq(Byte)
      BY <2>1, <3>3, <3>4, <3>6
    <3> QED
      BY <1>1, <2>1, <3>1, <3>4, <3>5, <3>7 DEF Borne
  <2> QED
    BY <2>1, <2>3, <2>4, StepOfWhole
<1> QED
  BY <1>2, <1>3

\* and through a question.
LEMMA DnsCut ==
    ASSUME WalkInv, CutInv, Next, Whole!Next, pc \in StagesOf["dns"]
    PROVE  CutInv'
<1>1. /\ TypeOK /\ IsCut /\ Abreast /\ inspector = "dns" /\ offset \in Nat /\ payload \in Seq(Byte)
      /\ domain \in Seq(Byte)
  BY DEF WalkInv, TypeOK, CutInv, Inspectors, StagesOf, Missed
<1>2. /\ length \in Nat /\ Whole!length \in Nat /\ length <= Whole!length
      /\ \A o \in Nat : o < length => Whole!At(o) = At(o)
      /\ \A o \in Nat : o + 1 < length => Whole!readUint16BE(o) = readUint16BE(o)
      /\ \A o, n \in Nat : o + n <= length => Whole!Bytes(o, n) = Bytes(o, n)
  BY <1>1, SameBytes
<1>3. ASSUME pc' = "done", answer' = {} PROVE CutInv'
  BY <1>1, <1>3, CallOver
<1>4. CASE pc = "question"
  <2>1. CASE NotQuery
    BY <1>3, <2>1 DEF NotQuery, Return
  <2>2. CASE Query
    <3>1. isDNSQuery /\ length >= 12
      BY <2>2 DEF Query, isDNSQuery
    <3>2. Whole!At(2) = At(2) /\ Whole!readUint16BE(4) = readUint16BE(4)
      BY <1>2, <3>1
    <3>3. Whole!isDNSQuery
      BY <1>2, <3>1, <3>2 DEF isDNSQuery, Whole!isDNSQuery
    <3>4. Whole!Query
      BY <1>1, <1>4, <3>3, StepOfWhole DEF Abreast, Whole!NotQuery
    <3>5. /\ pc' = "labels" /\ offset' = 12 /\ domain' = domain
          /\ whole_pc' = "labels" /\ whole_offset' = 12 /\ whole_domain' = whole_domain
      BY <2>2, <3>4 DEF Query, GoTo, Whole!Query, Whole!GoTo
    <3> QED
      BY <1>1, <3>5, StayAbreast DEF Abreast, StagesOf
  <2> QED
    BY <1>4, <2>1, <2>2, StepOfCall
<1>5. CASE pc = "labels"
  <2>1. CASE Label
    <3> DEFINE n == At(offset)
    <3>1. /\ offset < length /\ n \in 1 .. 63 /\ offset + 1 + n <= length
          /\ Whole!At(offset) = n /\ whole_offset = offset
      BY <1>1, <1>2, <2>1 DEF Label, LabelInside, Abreast
    <3> HIDE DEF n
    <3>2. n \in Nat /\ offset + 1 \in Nat /\ (offset + 1) + n <= length
      BY <1>1, <1>2, <3>1
    <3>3. Whole!Bytes(offset + 1, n) = Bytes(offset + 1, n)
      BY <1>2, <3>2
    <3>4. Whole!LabelInside
      BY <1>1, <1>2, <3>1, <3>2 DEF Whole!LabelInside
    <3>5. Whole!Label
      BY <1>1, <1>5, <3>4, StepOfWhole DEF Abreast, Whole!LabelsOver
    <3>6. /\ pc' = "labels" /\ offset' = offset + 1 + At(offset)
          /\ domain' = (IF domain = <<>> THEN <<>> ELSE Append(domain, DOT)) \o Bytes(offset + 1, At(offset))
      BY <2>1 DEF Label, GoTo
    <3>7. /\ whole_pc' = "labels" /\ whole_offset' = whole_offset + 1 + Whole!At(whole_offset)
          /\ whole_domain' = (IF whole_domain = <<>> THEN <<>> ELSE Append(whole_domain, DOT))
                                 \o Whole!Bytes(whole_offset + 1, Whole!At(whole_offset))
      BY <3>5 DEF Whole!Label, Whole!GoTo, DOT, Whole!DOT
    <3>8. Abreast'
      BY <1>1, <3>1, <3>3, <3>6, <3>7 DEF Abreast, n
    <3> QED
      BY <1>1, <3>6, <3>8, StayAbreast DEF StagesOf
  <2>2. CASE LabelsOver
    <3>1. pc' = "done" /\ answer' = IF domain = <<>> THEN {} ELSE {domain}
      BY <2>2 DEF LabelsOver, Return
    <3>2. CASE domain = <<>>
      BY <1>3, <3>1, <3>2
    <3>3. CASE domain # <<>>
      <4>1. IsPrefix(domain, domain) /\ domain \in Seq(Byte) /\ domain # <<>>
        BY <1>1, <3>3, PrefixElements
      <4>2. whole_pc = "labels" /\ whole_offset \in Nat /\ whole_domain = domain
        BY <1>1, <1>5 DEF Abreast
      <4>3. Borne(domain)
        BY <1>1, <4>1, <4>2 DEF Borne
      <4>4. PICK part : part = domain
        OBVIOUS
      <4>5. Borne(part)
        BY <4>3, <4>4
      <4>6. Borne(part)'
        BY <4>5, <1>1, BorneKept
      <4>7. answer' = {part}
        BY <3>1, <3>3, <4>4
      <4> QED
        BY <1>1, <3>1, <4>6, <4>7, CallOver
    <3> QED
      BY <3>2, <3>3
  <2> QED
    BY <1>5, <2>1, <2>2, StepOfCall
<1> QED
  BY <1>4, <1>5 DEF StagesOf

\* The two calls begin abreast and every step of both keeps the invariant.
LEMMA CutInvHolds == CutSpec => [](WalkInv /\ CutInv)
<1>1. CutInit => WalkInv /\ CutInv
  <2> SUFFICES ASSUME CutInit PROVE WalkInv /\ CutInv
    OBVIOUS
  <2>1. WalkInv
    BY InitWalks DEF CutInit
  <2>2. IsCut
    BY DEF CutInit, Init, Whole!Init, IsCut, Byte, Whole!Byte
  <2>3. /\ inspector \in Inspectors /\ pc = Entry[inspector] /\ offset = 0 /\ domain = <<>>
        /\ whole_pc = Whole!Entry[inspector] /\ whole_offset = 0 /\ whole_domain = <<>>
    BY DEF CutInit, Init, Start, Whole!Init, Whole!Start
  <2>4. pc \in StagesOf[inspector] /\ pc # "done" /\ Abreast
    BY <2>3 DEF Inspectors, Entry, Whole!Entry, StagesOf, Abreast
  <2> QED
    BY <2>1, <2>2, <2>4 DEF CutInv
<1>2. WalkInv /\ CutInv /\ [CutNext]_<<vars, wholeVars>> => (WalkInv /\ CutInv)'
  <2> SUFFICES ASSUME WalkInv, CutInv, [CutNext]_<<vars, wholeVars>> PROVE WalkInv' /\ CutInv'
    OBVIOUS
  <2>1. CASE UNCHANGED <<vars, wholeVars>>
    <3>1. WalkInv'
      BY <2>1, NextWalks
    <3>2. length' = length /\ \A j : HostAt(j)' <=> HostAt(j)
      BY <2>1 DEF vars, length, HostAt, At
    <3>3. (Abreast \/ Missed) => (Abreast \/ Missed)'
      BY <2>1, <3>2 DEF Abreast, Missed, vars, wholeVars
    <3>4. \A part : Borne(part) => Borne(part)'
      BY <2>1 DEF Borne, vars, wholeVars
    <3> QED
      BY <2>1, <3>1, <3>3, <3>4 DEF CutInv, IsCut, vars, wholeVars
  <2>2. CASE CutNext
    <3>1. Next /\ Whole!Next
      BY <2>2 DEF CutNext
    <3>2. WalkInv'
      BY <3>1, NextWalks
    <3>3. CASE pc = "done"
      <4>1. UNCHANGED vars
        BY <3>1, <3>3, StepOfCall
      <4>2. IsCut /\ \A part \in answer : Borne(part)
        BY <3>3 DEF CutInv
      <4>3. \A part \in answer : Borne(part)'
        BY <3>1, <4>2, BorneKept
      <4>4. pc' = "done" /\ answer' = answer
        BY <3>3, <4>1 DEF vars
      <4> QED
        BY <3>1, <3>2, <4>2, <4>3, <4>4, CallOver
    <3>4. CASE pc # "done"
      <4>1. inspector \in Inspectors /\ pc \in StagesOf[inspector]
        BY <3>4 DEF CutInv, WalkInv, TypeOK
      <4>2. CASE inspector = "tls"
        BY <3>1, <3>2, <4>1, <4>2, TlsCut
      <4>3. CASE inspector = "http"
        BY <3>1, <3>2, <4>1, <4>3, HttpCut
      <4>4. CASE inspector = "dns"
        BY <3>1, <3>2, <4>1, <4>4, DnsCut
      <4> QED
        BY <4>1, <4>2, <4>3, <4>4 DEF Inspectors
    <3> QED
      BY <3>2, <3>3, <3>4
  <2> QED
    BY <2>1, <2>2
<1> QED
  BY <1>1, <1>2, PTL DEF CutSpec

\* Wherever a capture cuts a payload, a name read from what is left begins the name in
\* the whole, and in a ClientHello it is that name (the three extractors).
THEOREM CutsHideOnly == CutSpec => []CutHidesOnly
<1>1. CutInv => CutHidesOnly
  BY DEF CutInv, Borne, CutHidesOnly
<1> QED
  BY CutInvHolds, <1>1, PTL

-----------------------------------------------------------------------------
(* The answers against the formats: first, that an answer is what the      *)
(* walk's own view of its payload says, and then, that this is what the    *)
(* format says. *)

\* The list of extensions as the walk takes it, up to where it is announced to end or
\* the payload ends,
WalkEnd == Smaller(AnnouncedEnd, length)
InWalk(n) == BehindExtension[ExtensionAt[n]] <= WalkEnd

NamesInWalk(n) ==
    LET e == ExtensionAt[n]
    IN  /\ \A m \in 0 .. n : InWalk(m)
        /\ IsServerName(n) /\ \A m \in 0 .. n - 1 : ~IsServerName(m)
        /\ readUint16BE(e + 4) >= 3
        /\ At(e + 6) = SNI_TYPE_HOSTNAME
        /\ 5 + readUint16BE(e + 7) <= readUint16BE(e + 2)

WalkedNames ==
    {Bytes(ExtensionAt[n] + 9, readUint16BE(ExtensionAt[n] + 7)) :
        n \in {n \in 0 .. length : /\ isTLSClientHello /\ ExtensionsAt + 2 <= length
                                  /\ NamesInWalk(n)}}

\* and the first letters of a Host, wherever they stand.
FoundAt(i) == i + 6 < length /\ HostAt(i) /\ HasValue(i)

ScannedNames ==
    {BeforeColon(HostValue(i)) :
        i \in {i \in 0 .. length : /\ isHTTPRequest
                                  /\ FoundAt(i) /\ \A j \in 0 .. i - 1 : ~FoundAt(j)}}

AnswersAsWalked ==
    pc = "done" => /\ inspector = "tls" => answer = WalkedNames
                   /\ inspector = "http" => answer = ScannedNames
                   /\ inspector = "dns" => answer = DnsNames

\* Induction, for a set instead of a predicate: what holds 0 and every successor of
\* what it holds is all the naturals.
LEMMA AllCounted ==
    ASSUME NEW S, 0 \in S, \A n \in Nat : n \in S => n + 1 \in S
    PROVE  \A n \in Nat : n \in S
<1> DEFINE T == Nat \ S
<1>1. SUFFICES ASSUME T # {} PROVE FALSE
  OBVIOUS
<1>2. PICK x \in T : \A y \in T : x <= y
  BY <1>1, LeastOf
<1>3. CASE x = 0
  BY <1>3
<1>4. CASE x # 0
  <2>1. x - 1 \in Nat /\ x - 1 \notin T
    BY <1>2, <1>4
  <2> QED
    BY <1>2, <2>1
<1> QED
  BY <1>3, <1>4

\* Numbered places: a first one, and each later one from the one before.
Places(f, first, next) == f = [n \in Nat |-> IF n = 0 THEN first ELSE next[f[n - 1]]]

Numbered(first, next) == CHOOSE f : Places(f, first, next)

PlacesFollow(f, first, next) ==
    f[0] = first /\ \A n \in Nat : f[n] \in Nat /\ f[n + 1] = next[f[n]]

\* They exist: there are such places up to each number, which agree where they meet.
LEMMA PlacesExist ==
    ASSUME NEW first, NEW next
    PROVE  \E f : Places(f, first, next)
<1> DEFINE From(f, k) == \A n \in 0 .. k : f[n] = IF n = 0 THEN first ELSE next[f[n - 1]]
           S == {k \in Nat : \E f : From(f, k)}
<1>1. \A k \in Nat : k \in S
  <2>1. 0 \in S
    <3> DEFINE f == [n \in 0 .. 0 |-> first]
    <3>1. From(f, 0)
      OBVIOUS
    <3> QED
      BY <3>1
  <2>2. ASSUME NEW k \in Nat, k \in S PROVE k + 1 \in S
    <3>1. PICK f : \A n \in 0 .. k : f[n] = IF n = 0 THEN first ELSE next[f[n - 1]]
      BY <2>2
    <3> DEFINE g == [n \in 0 .. k + 1 |-> IF n = k + 1 THEN next[f[k]] ELSE f[n]]
    <3>2. \A n \in 0 .. k : n \in 0 .. k + 1 /\ g[n] = f[n]
      OBVIOUS
    <3>3. ASSUME NEW n \in 0 .. k + 1 PROVE g[n] = IF n = 0 THEN first ELSE next[g[n - 1]]
      <4>1. CASE n = k + 1
        <5>1. n # 0 /\ n - 1 = k
          BY <4>1
        <5> QED
          BY <3>2, <4>1, <5>1
      <4>2. CASE n # k + 1
        <5>1. n \in 0 .. k /\ (n # 0 => n - 1 \in 0 .. k)
          BY <4>2
        <5> QED
          BY <3>1, <3>2, <5>1
      <4> QED
        BY <4>1, <4>2
    <3>4. From(g, k + 1)
      BY <3>3
    <3>5. \E h : From(h, k + 1)
      <4> HIDE DEF g, From
      <4> QED
        BY <3>4
    <3> QED
      BY <3>5
  <2> HIDE DEF S
  <2> QED
    BY <2>1, <2>2, AllCounted
<1>2. \A k \in Nat : \E f : From(f, k)
  BY <1>1
<1> DEFINE Part(k) == CHOOSE f : From(f, k)
<1>3. \A k \in Nat : From(Part(k), k)
  <2> HIDE DEF From
  <2> QED
    BY <1>2
<1> HIDE DEF Part
<1>4. \A k \in Nat : \A n \in 0 .. k : Part(k)[n] = IF n = 0 THEN first ELSE next[Part(k)[n - 1]]
  BY <1>3
<1>5. ASSUME NEW k \in Nat PROVE Part(k + 1)[k] = Part(k)[k]
  <2> DEFINE A == {n \in Nat : n <= k => Part(k + 1)[n] = Part(k)[n]}
  <2>1. 0 \in A
    <3>1. 0 \in 0 .. k /\ 0 \in 0 .. k + 1 /\ k + 1 \in Nat
      OBVIOUS
    <3> QED
      BY <1>4, <3>1
  <2>2. ASSUME NEW n \in Nat, n \in A PROVE n + 1 \in A
    <3>1. SUFFICES ASSUME n + 1 <= k PROVE Part(k + 1)[n + 1] = Part(k)[n + 1]
      OBVIOUS
    <3>2. /\ n + 1 \in 0 .. k /\ n + 1 \in 0 .. k + 1 /\ n + 1 # 0 /\ (n + 1) - 1 = n
          /\ k + 1 \in Nat /\ n <= k
      BY <3>1
    <3>3. Part(k)[n + 1] = next[Part(k)[n]] /\ Part(k + 1)[n + 1] = next[Part(k + 1)[n]]
      BY <1>4, <3>2
    <3>4. Part(k + 1)[n] = Part(k)[n]
      BY <2>2, <3>2
    <3> QED
      BY <3>3, <3>4
  <2> HIDE DEF A
  <2>3. k \in A
    BY <2>1, <2>2, AllCounted
  <2> QED
    BY <2>3 DEF A
<1> DEFINE f == [n \in Nat |-> Part(n)[n]]
<1>6. ASSUME NEW n \in Nat PROVE f[n] = IF n = 0 THEN first ELSE next[f[n - 1]]
  <2>1. CASE n = 0
    <3>1. 0 \in 0 .. 0
      OBVIOUS
    <3> QED
      BY <1>4, <2>1, <3>1
  <2>2. CASE n # 0
    <3>1. n - 1 \in Nat /\ n \in 0 .. n /\ (n - 1) + 1 = n
      BY <2>2
    <3>2. Part(n)[n] = next[Part(n)[n - 1]]
      BY <1>4, <2>2, <3>1
    <3>3. Part(n)[n - 1] = Part(n - 1)[n - 1]
      BY <1>5, <3>1
    <3> QED
      BY <2>2, <3>1, <3>2, <3>3
  <2> QED
    BY <2>1, <2>2
<1>7. Places(f, first, next)
  BY <1>6 DEF Places
<1> HIDE DEF f
<1> QED
  BY <1>7

\* Places among the naturals follow each other.
LEMMA PlacesAre ==
    ASSUME NEW first \in Nat, NEW next \in [Nat -> Nat]
    PROVE  PlacesFollow(Numbered(first, next), first, next)
<1> DEFINE F == Numbered(first, next)
<1>1. Places(F, first, next)
  BY PlacesExist DEF Numbered
<1> HIDE DEF F
<1>2. \A n \in Nat : F[n] = IF n = 0 THEN first ELSE next[F[n - 1]]
  BY <1>1 DEF Places
<1>3. F[0] = first /\ \A n \in Nat : F[n + 1] = next[F[n]]
  BY <1>2
<1> DEFINE S == {n \in Nat : F[n] \in Nat}
<1>4. 0 \in S /\ \A n \in Nat : n \in S => n + 1 \in S
  BY <1>3
<1> HIDE DEF S
<1>5. \A n \in Nat : n \in S
  BY <1>4, AllCounted
<1>6. PlacesFollow(F, first, next)
  BY <1>3, <1>5 DEF S, PlacesFollow
<1> QED
  BY <1>6 DEF F

\* The places of the extensions are what their equations say,
LEMMA ExtensionPlaces ==
    ASSUME payload \in Seq(Byte)
    PROVE  /\ CipherSuitesAt \in Nat /\ CompressionAt \in Nat /\ ExtensionsAt \in Nat
           /\ PlacesFollow(ExtensionAt, ExtensionsAt + 2, BehindExtension)
<1>1. ASSUME NEW o \in Nat PROVE At(o) \in Nat /\ readUint16BE(o) \in Nat
  BY AtType, Uint16Type
<1>2. CipherSuitesAt \in Nat
  <2>1. At(43) \in Nat
    BY <1>1
  <2> QED
    BY <2>1 DEF CipherSuitesAt
<1>3. CompressionAt \in Nat
  <2>1. readUint16BE(CipherSuitesAt) \in Nat
    BY <1>1, <1>2
  <2> QED
    BY <1>2, <2>1 DEF CompressionAt
<1>4. ExtensionsAt \in Nat
  <2>1. At(CompressionAt) \in Nat
    BY <1>1, <1>3
  <2> QED
    BY <1>3, <2>1 DEF ExtensionsAt
<1>5. BehindExtension \in [Nat -> Nat]
  <2>1. ASSUME NEW e \in Nat PROVE e + 4 + readUint16BE(e + 2) \in Nat
    <3>1. e + 2 \in Nat
      OBVIOUS
    <3>2. readUint16BE(e + 2) \in Nat
      BY <1>1, <3>1
    <3> QED
      BY <3>2
  <2> QED
    BY <2>1 DEF BehindExtension
<1>6. ExtensionAt = Numbered(ExtensionsAt + 2, BehindExtension)
  BY DEF ExtensionAt, Numbered, Places
<1>7. ExtensionsAt + 2 \in Nat
  BY <1>4
<1> QED
  BY <1>2, <1>3, <1>4, <1>5, <1>6, <1>7, PlacesAre

\* and so are those of the labels.
LEMMA LabelPlaces ==
    ASSUME payload \in Seq(Byte)
    PROVE  PlacesFollow(LabelAt, 12, BehindLabel)
<1>1. BehindLabel \in [Nat -> Nat]
  <2>1. ASSUME NEW l \in Nat PROVE l + 1 + At(l) \in Nat
    <3>1. At(l) \in Nat
      BY AtType
    <3> QED
      BY <3>1
  <2> QED
    BY <2>1 DEF BehindLabel
<1>2. LabelAt = Numbered(12, BehindLabel)
  BY DEF LabelAt, Numbered, Places
<1> QED
  BY <1>1, <1>2, PlacesAre

\* A step changes nothing of what the formats say of a payload.
LEMMA BytesStay ==
    ASSUME payload' = payload
    PROVE  /\ length' = length
           /\ \A o : At(o)' = At(o)
           /\ \A o : readUint16BE(o)' = readUint16BE(o)
           /\ \A o, n : Bytes(o, n)' = Bytes(o, n)
<1>1. length' = length
  BY DEF length
<1>2. \A o : At(o)' = At(o)
  BY DEF At, length
<1>3. \A o : readUint16BE(o)' = readUint16BE(o)
  BY <1>2 DEF readUint16BE
<1>4. \A o, n : Bytes(o, n)' = Bytes(o, n)
  BY <1>2 DEF Bytes
<1> QED
  BY <1>1, <1>2, <1>3, <1>4

\* The extensions before number n fit, and none of them is a server name.
PassedOver(n) == \A m \in 0 .. n - 1 : InWalk(m) /\ ~IsServerName(m)

LEMMA HelloStays ==
    ASSUME payload' = payload
    PROVE  /\ CipherSuitesAt' = CipherSuitesAt /\ CompressionAt' = CompressionAt
           /\ ExtensionsAt' = ExtensionsAt /\ WalkEnd' = WalkEnd
           /\ BehindExtension' = BehindExtension /\ ExtensionAt' = ExtensionAt
           /\ \A n : PassedOver(n)' <=> PassedOver(n)
           /\ isTLSClientHello' <=> isTLSClientHello
           /\ WalkedNames' = WalkedNames
<1>1. length' = length /\ \A o : At(o)' = At(o)
  BY BytesStay
<1>2. \A o : readUint16BE(o)' = readUint16BE(o)
  BY BytesStay
<1>3. CipherSuitesAt' = CipherSuitesAt
  BY <1>1 DEF CipherSuitesAt
<1>4. CompressionAt' = CompressionAt
  BY <1>2, <1>3 DEF CompressionAt
<1>5. ExtensionsAt' = ExtensionsAt
  BY <1>1, <1>4 DEF ExtensionsAt
<1>6. WalkEnd' = WalkEnd
  BY <1>1, <1>2, <1>5 DEF WalkEnd, AnnouncedEnd
<1>7. BehindExtension' = BehindExtension
  BY <1>2 DEF BehindExtension
<1>8. ExtensionAt' = ExtensionAt
  <2>1. ExtensionAt = Numbered(ExtensionsAt + 2, BehindExtension)
    BY DEF ExtensionAt, Numbered, Places
  <2>2. ExtensionAt' = Numbered(ExtensionsAt' + 2, BehindExtension')
    BY DEF ExtensionAt, Numbered, Places
  <2> QED
    BY <1>5, <1>7, <2>1, <2>2
<1>9. \A n : InWalk(n)' <=> InWalk(n)
  BY <1>6, <1>7, <1>8 DEF InWalk
<1>10. \A n : IsServerName(n)' <=> IsServerName(n)
  BY <1>2, <1>8 DEF IsServerName
<1>11. \A n : PassedOver(n)' <=> PassedOver(n)
  BY <1>9, <1>10 DEF PassedOver
<1>12. \A n : NamesInWalk(n)' <=> NamesInWalk(n)
  BY <1>1, <1>2, <1>8, <1>9, <1>10 DEF NamesInWalk
<1>13. isTLSClientHello' <=> isTLSClientHello
  BY <1>1, <1>2 DEF isTLSClientHello
<1>14. \A o, n : Bytes(o, n)' = Bytes(o, n)
  BY BytesStay
<1>15. WalkedNames' = WalkedNames
  BY <1>1, <1>2, <1>5, <1>8, <1>12, <1>13, <1>14 DEF WalkedNames
<1> QED
  BY <1>3, <1>4, <1>5, <1>6, <1>7, <1>8, <1>11, <1>13, <1>15

LEMMA RequestStays ==
    ASSUME payload' = payload
    PROVE  /\ \A i : FoundAt(i)' <=> FoundAt(i)
           /\ isHTTPRequest' <=> isHTTPRequest
           /\ ScannedNames' = ScannedNames
<1>1. length' = length /\ \A o : At(o)' = At(o)
  BY BytesStay
<1>2. \A o, n : Bytes(o, n)' = Bytes(o, n)
  BY BytesStay
<1>3. \A o, T : Until(o, T)' = Until(o, T)
  BY <1>1 DEF Until
<1>4. \A i : ValueStart(i)' = ValueStart(i) /\ ValueEnd(i)' = ValueEnd(i)
  BY <1>3 DEF ValueStart, ValueEnd
<1>5. \A i : HostValue(i)' = HostValue(i)
  BY <1>2, <1>4 DEF HostValue
<1>6. \A i : FoundAt(i)' <=> FoundAt(i)
  BY <1>1, <1>4 DEF FoundAt, HostAt, HasValue
<1>7. isHTTPRequest' <=> isHTTPRequest
  BY <1>1, <1>2 DEF isHTTPRequest
<1> QED
  BY <1>1, <1>5, <1>6, <1>7 DEF ScannedNames

LEMMA QuestionStays ==
    ASSUME payload' = payload
    PROVE  /\ BehindLabel' = BehindLabel /\ LabelAt' = LabelAt
           /\ \A n : IsLabel(n)' <=> IsLabel(n)
           /\ \A n : Dotted(n)' = Dotted(n)
           /\ isDNSQuery' <=> isDNSQuery
           /\ DnsNames' = DnsNames
<1>1. length' = length /\ \A o : At(o)' = At(o)
  BY BytesStay
<1>2. \A o : readUint16BE(o)' = readUint16BE(o)
  BY BytesStay
<1>3. BehindLabel' = BehindLabel
  BY <1>1 DEF BehindLabel
<1>4. LabelAt' = LabelAt
  <2>1. LabelAt = Numbered(12, BehindLabel)
    BY DEF LabelAt, Numbered, Places
  <2>2. LabelAt' = Numbered(12, BehindLabel')
    BY DEF LabelAt, Numbered, Places
  <2> QED
    BY <1>3, <2>1, <2>2
<1>5. \A n : IsLabel(n)' <=> IsLabel(n)
  BY <1>1, <1>3, <1>4 DEF IsLabel
<1>6. \A n : Dotted(n)' = Dotted(n)
  BY <1>1, <1>4 DEF Dotted
<1>7. isDNSQuery' <=> isDNSQuery
  BY <1>1, <1>2 DEF isDNSQuery
<1> QED
  BY <1>1, <1>3, <1>4, <1>5, <1>6, <1>7 DEF DnsNames

\* Where the walk over a ClientHello stands in it,
HelloInv ==
    /\ pc # "record" => isTLSClientHello
    /\ pc = "session_id" => offset = 43
    /\ pc = "cipher_suites" => offset = CipherSuitesAt
    /\ pc = "compression" => offset = CompressionAt
    /\ pc = "extensions_length" => offset = ExtensionsAt
    /\ pc = "extensions" =>
          /\ ExtensionsAt + 2 <= length /\ extensions_end = WalkEnd
          /\ \E n \in 0 .. offset : offset = ExtensionAt[n] /\ PassedOver(n)

\* what the scan for a Host has seen,
RequestInv == pc = "header" => isHTTPRequest /\ \A j \in 0 .. offset - 1 : ~FoundAt(j)

\* and what the labels read so far have given.
LabelsRead(n) ==
    /\ offset = LabelAt[n]
    /\ \A m \in 0 .. n - 1 : IsLabel(m) /\ LabelAt[m] < offset
    /\ IF n = 0 THEN domain = <<>> ELSE offset > 13 /\ domain = Dotted(n)

QuestionInv == pc = "labels" => isDNSQuery /\ \E n \in 0 .. offset : LabelsRead(n)

\* The invariant of a call against its format.
FormatInv ==
    /\ pc # "done" => pc \in StagesOf[inspector]
    /\ pc \in StagesOf["tls"] => HelloInv
    /\ RequestInv /\ QuestionInv
    /\ pc = "question" => domain = <<>>
    /\ AnswersAsWalked

\* A call that is over needs only the right answer.
LEMMA CallAnswers ==
    ASSUME Next, pc' = "done",
           inspector = "tls" => answer' = WalkedNames,
           inspector = "http" => answer' = ScannedNames,
           inspector = "dns" => answer' = DnsNames
    PROVE  FormatInv'
<1>1. inspector' = inspector /\ payload' = payload
  BY StepOfCall
<1>2. WalkedNames' = WalkedNames /\ ScannedNames' = ScannedNames /\ DnsNames' = DnsNames
  BY <1>1, HelloStays, RequestStays, QuestionStays
<1>3. AnswersAsWalked'
  BY <1>1, <1>2 DEF AnswersAsWalked
<1>4. RequestInv' /\ QuestionInv'
  BY DEF RequestInv, QuestionInv
<1>5. "done" \notin StagesOf["tls"]
  BY DEF StagesOf
<1> QED
  BY <1>3, <1>4, <1>5 DEF FormatInv

\* Without room for the list of extensions a ClientHello names nobody; behind extensions
\* that are passed over, the next one decides.
LEMMA NoRoom ==
    ASSUME ~isTLSClientHello \/ ~(ExtensionsAt + 2 <= length)
    PROVE  WalkedNames = {}
BY DEF WalkedNames

LEMMA NextDecides ==
    ASSUME payload \in Seq(Byte), NEW n \in Nat, PassedOver(n), ~InWalk(n) \/ IsServerName(n)
    PROVE  /\ ~NamesInWalk(n) => WalkedNames = {}
           /\ isTLSClientHello /\ ExtensionsAt + 2 <= length /\ n <= length /\ NamesInWalk(n)
              => WalkedNames = {Bytes(ExtensionAt[n] + 9, readUint16BE(ExtensionAt[n] + 7))}
<1>1. length \in Nat
  BY LengthType
<1>2. ASSUME NEW m \in Nat, NamesInWalk(m) PROVE m = n
  <2>1. CASE m < n
    <3>1. m \in 0 .. n - 1
      BY <2>1
    <3> QED
      BY <1>2, <3>1 DEF PassedOver, NamesInWalk
  <2>2. CASE m > n
    <3>1. n \in 0 .. m - 1 /\ n \in 0 .. m
      BY <2>2
    <3> QED
      BY <1>2, <3>1 DEF NamesInWalk
  <2> QED
    BY <2>1, <2>2
<1>3. \A m \in 0 .. length : NamesInWalk(m) => m = n
  BY <1>1, <1>2
<1>4. ASSUME ~NamesInWalk(n) PROVE WalkedNames = {}
  BY <1>3, <1>4 DEF WalkedNames
<1>5. ASSUME isTLSClientHello, ExtensionsAt + 2 <= length, n <= length, NamesInWalk(n)
      PROVE  WalkedNames = {Bytes(ExtensionAt[n] + 9, readUint16BE(ExtensionAt[n] + 7))}
  <2>1. n \in 0 .. length
    BY <1>1, <1>5
  <2>2. {m \in 0 .. length : isTLSClientHello /\ ExtensionsAt + 2 <= length /\ NamesInWalk(m)} = {n}
    BY <1>3, <1>5, <2>1
  <2> QED
    BY <2>2 DEF WalkedNames
<1> QED
  BY <1>4, <1>5

\* The fields of a ClientHello lie behind each other.
LEMMA FieldsInOrder ==
    ASSUME payload \in Seq(Byte)
    PROVE  44 <= CipherSuitesAt /\ CipherSuitesAt + 2 <= CompressionAt /\ CompressionAt + 1 <= ExtensionsAt
<1>1. CipherSuitesAt \in Nat /\ CompressionAt \in Nat
  BY ExtensionPlaces
<1>2. At(43) \in Nat /\ readUint16BE(CipherSuitesAt) \in Nat /\ At(CompressionAt) \in Nat
  BY <1>1, AtType, Uint16Type
<1> QED
  BY <1>1, <1>2 DEF CipherSuitesAt, CompressionAt, ExtensionsAt

\* The invariant goes on through a ClientHello,
LEMMA TlsFormat ==
    ASSUME WalkInv, FormatInv, Next, pc \in StagesOf["tls"]
    PROVE  FormatInv'
<1>1. /\ HelloInv /\ inspector = "tls" /\ payload \in Seq(Byte)
      /\ offset \in Nat /\ length \in Nat /\ extensions_end \in Nat
  BY LengthType DEF WalkInv, TypeOK, FormatInv, Inspectors, StagesOf
<1>2. inspector' = inspector /\ payload' = payload
  BY StepOfCall
<1>3. ASSUME pc' = "done", answer' = WalkedNames PROVE FormatInv'
  BY <1>1, <1>3, CallAnswers
<1>4. ASSUME pc' \in StagesOf["tls"], HelloInv' PROVE FormatInv'
  <2>1. pc' \notin {"done", "header", "question", "labels"}
    BY <1>4 DEF StagesOf
  <2> QED
    BY <1>1, <1>2, <1>4, <2>1 DEF FormatInv, RequestInv, QuestionInv, AnswersAsWalked
<1>5. CipherSuitesAt \in Nat /\ CompressionAt \in Nat /\ ExtensionsAt \in Nat
  BY <1>1, ExtensionPlaces
<1>6. 44 <= CipherSuitesAt /\ CipherSuitesAt + 2 <= CompressionAt /\ CompressionAt + 1 <= ExtensionsAt
  BY <1>1, FieldsInOrder
<1>7. /\ CipherSuitesAt' = CipherSuitesAt /\ CompressionAt' = CompressionAt
      /\ ExtensionsAt' = ExtensionsAt /\ WalkEnd' = WalkEnd /\ ExtensionAt' = ExtensionAt
      /\ isTLSClientHello' <=> isTLSClientHello
  BY <1>2, HelloStays
<1>8. \A n : PassedOver(n)' <=> PassedOver(n)
  BY <1>2, HelloStays
<1>9. length' = length
  BY <1>2, BytesStay
<1>10. CASE HelloEnds
  <2>1. pc' = "done" /\ answer' = {} /\ pc \in DOMAIN WidthOf /\ offset + WidthOf[pc] > length
    BY <1>10 DEF HelloEnds, Return
  <2>2. ~(ExtensionsAt + 2 <= length)
    BY <1>1, <1>5, <1>6, <2>1 DEF HelloInv, WidthOf
  <2> QED
    BY <1>3, <2>1, <2>2, NoRoom
<1>11. CASE pc = "record"
  <2>1. CASE NotClientHello
    <3>1. pc' = "done" /\ answer' = {} /\ ~isTLSClientHello
      BY <2>1 DEF NotClientHello, Return
    <3> QED
      BY <1>3, <3>1, NoRoom
  <2>2. CASE ClientHello
    <3>1. pc' = "session_id" /\ offset' = 43 /\ isTLSClientHello
      BY <2>2 DEF ClientHello, GoTo
    <3> QED
      BY <1>4, <1>7, <3>1 DEF HelloInv, StagesOf
  <2> QED
    BY <1>11, <2>1, <2>2, StepOfCall
<1>12. CASE pc = "session_id"
  <2>1. CASE SessionId
    <3>1. pc' = "cipher_suites" /\ offset' = offset + 1 + At(offset)
      BY <2>1 DEF SessionId, SkipField, GoTo
    <3>2. offset' = CipherSuitesAt /\ isTLSClientHello
      BY <1>1, <1>12, <3>1 DEF HelloInv, CipherSuitesAt
    <3> QED
      BY <1>4, <1>7, <3>1, <3>2 DEF HelloInv, StagesOf
  <2> QED
    BY <1>10, <1>12, <2>1, StepOfCall
<1>13. CASE pc = "cipher_suites"
  <2>1. CASE CipherSuites
    <3>1. pc' = "compression" /\ offset' = offset + 2 + readUint16BE(offset)
      BY <2>1 DEF CipherSuites, SkipField, GoTo
    <3>2. offset' = CompressionAt /\ isTLSClientHello
      BY <1>1, <1>13, <3>1 DEF HelloInv, CompressionAt
    <3> QED
      BY <1>4, <1>7, <3>1, <3>2 DEF HelloInv, StagesOf
  <2> QED
    BY <1>10, <1>13, <2>1, StepOfCall
<1>14. CASE pc = "compression"
  <2>1. CASE Compression
    <3>1. pc' = "extensions_length" /\ offset' = offset + 1 + At(offset)
      BY <2>1 DEF Compression, SkipField, GoTo
    <3>2. offset' = ExtensionsAt /\ isTLSClientHello
      BY <1>1, <1>14, <3>1 DEF HelloInv, ExtensionsAt
    <3> QED
      BY <1>4, <1>7, <3>1, <3>2 DEF HelloInv, StagesOf
  <2> QED
    BY <1>10, <1>14, <2>1, StepOfCall
<1>15. CASE pc = "extensions_length"
  <2>1. CASE ExtensionsLength
    <3>1. /\ pc' = "extensions" /\ offset' = offset + 2 /\ offset + 2 <= length
          /\ extensions_end' = ExtensionsEnd
      BY <2>1 DEF ExtensionsLength, GoTo
    <3>2. offset = ExtensionsAt /\ isTLSClientHello
      BY <1>1, <1>15 DEF HelloInv
    <3>3. extensions_end' = WalkEnd
      BY <3>1, <3>2 DEF ExtensionsEnd, WalkEnd, AnnouncedEnd
    <3>4. offset' = ExtensionAt[0] /\ PassedOver(0) /\ 0 \in 0 .. offset'
      BY <1>1, <3>1, <3>2, ExtensionPlaces DEF PlacesFollow, PassedOver
    <3>5. \E n \in 0 .. offset' : offset' = ExtensionAt[n] /\ PassedOver(n)
      BY <3>4
    <3>6. HelloInv'
      BY <1>7, <1>8, <1>9, <3>1, <3>2, <3>3, <3>5 DEF HelloInv
    <3> QED
      BY <1>4, <3>1, <3>6 DEF StagesOf
  <2> QED
    BY <1>10, <1>15, <2>1, StepOfCall
<1>16. CASE pc = "extensions"
  <2>1. PICK n \in 0 .. offset : offset = ExtensionAt[n] /\ PassedOver(n)
    BY <1>1, <1>16 DEF HelloInv
  <2>2. /\ isTLSClientHello /\ ExtensionsAt + 2 <= length /\ extensions_end = WalkEnd
        /\ WalkEnd \in Nat /\ WalkEnd <= length
    BY <1>1, <1>16 DEF HelloInv, WalkInv, EndInside
  <2>3. n \in Nat /\ n <= offset
    BY <1>1, <2>1
  <2>4. /\ BehindExtension[offset] = offset + 4 + ExtensionLength
        /\ ExtensionAt[n + 1] = BehindExtension[offset] /\ ExtensionLength \in Nat
    <3>1. offset + 2 \in Nat
      BY <1>1
    <3>2. readUint16BE(offset + 2) \in Nat
      BY <1>1, <3>1, Uint16Type
    <3> QED
      BY <1>1, <2>1, <2>3, <3>2, ExtensionPlaces DEF PlacesFollow, BehindExtension, ExtensionLength
  <2>5. /\ InWalk(n) <=> ExtensionInside
        /\ IsServerName(n) <=> ExtensionType = EXTENSION_SNI
    BY <2>1, <2>2, <2>4 DEF InWalk, IsServerName, ExtensionInside, ExtensionType, EXTENSION_SNI
  <2>6. CASE SkipExtension
    <3>1. /\ pc' = "extensions" /\ offset' = offset + 4 + ExtensionLength /\ extensions_end' = extensions_end
          /\ ExtensionInside /\ ExtensionType # EXTENSION_SNI
      BY <2>6 DEF SkipExtension, GoTo, NextOffset
    <3>2. offset' = ExtensionAt[n + 1] /\ n + 1 \in 0 .. offset'
      BY <1>1, <2>3, <2>4, <3>1
    <3>3. PassedOver(n + 1)
      <4>1. InWalk(n) /\ ~IsServerName(n)
        BY <2>5, <3>1
      <4>2. \A m \in 0 .. (n + 1) - 1 : m = n \/ m \in 0 .. n - 1
        BY <2>3
      <4> QED
        BY <2>1, <4>1, <4>2 DEF PassedOver
    <3>4. \E k \in 0 .. offset' : offset' = ExtensionAt[k] /\ PassedOver(k)
      BY <3>2, <3>3
    <3>5. HelloInv'
      BY <1>7, <1>8, <1>9, <2>2, <3>1, <3>4 DEF HelloInv
    <3> QED
      BY <1>4, <3>1, <3>5 DEF StagesOf
  <2>7. /\ readUint16BE(offset + 4) = readUint16BE(ExtensionAt[n] + 4)
        /\ At(ExtensionAt[n] + 6) = At(offset + 4 + 2)
        /\ readUint16BE(ExtensionAt[n] + 7) = readUint16BE(offset + 4 + 3)
        /\ readUint16BE(ExtensionAt[n] + 2) = ExtensionLength
        /\ readUint16BE(offset + 4 + 3) \in Nat
    <3>1. offset + 6 = offset + 4 + 2 /\ offset + 7 = offset + 4 + 3 /\ offset + 4 + 3 \in Nat
      BY <1>1
    <3>2. readUint16BE(offset + 4 + 3) \in Nat
      BY <1>1, <3>1, Uint16Type
    <3> QED
      BY <2>1, <3>1, <3>2 DEF ExtensionLength
  <2>8. ASSUME InWalk(n), IsServerName(n) PROVE NamesInWalk(n) <=> HoldsHostName(offset + 4)
    <3>1. \A m \in 0 .. n : m = n \/ m \in 0 .. n - 1
      BY <2>3
    <3>2. /\ \A m \in 0 .. n : InWalk(m)
          /\ \A m \in 0 .. n - 1 : ~IsServerName(m)
      BY <2>1, <2>8, <3>1 DEF PassedOver
    <3>3. NamesInWalk(n) <=> /\ readUint16BE(offset + 4) >= 3
                           /\ At(offset + 4 + 2) = SNI_TYPE_HOSTNAME
                           /\ 5 + readUint16BE(offset + 4 + 3) <= ExtensionLength
      BY <2>7, <2>8, <3>2 DEF NamesInWalk
    <3>4. \A x \in Nat : 5 + x <= ExtensionLength <=> ExtensionLength >= 5 /\ x <= ExtensionLength - 5
      BY <2>4
    <3> QED
      BY <2>7, <3>3, <3>4 DEF HoldsHostName
  <2>9. CASE ServerName
    <3>1. /\ pc' = "done" /\ ExtensionInside /\ ExtensionType = EXTENSION_SNI /\ HoldsHostName(offset + 4)
          /\ answer' = {Bytes(offset + 4 + 5, readUint16BE(offset + 4 + 3))}
      BY <2>9 DEF ServerName, Return
    <3>2. n <= length
      BY <1>1, <2>2, <2>3, <2>4, <3>1 DEF ExtensionInside
    <3>3. NamesInWalk(n) /\ IsServerName(n)
      BY <2>5, <2>8, <3>1
    <3>4. WalkedNames = {Bytes(ExtensionAt[n] + 9, readUint16BE(ExtensionAt[n] + 7))}
      BY <1>1, <2>1, <2>2, <2>3, <3>2, <3>3, NextDecides
    <3>5. ExtensionAt[n] + 9 = offset + 4 + 5
      BY <1>1, <2>1
    <3> QED
      BY <1>3, <2>7, <3>1, <3>4, <3>5
  <2>10. CASE BadServerName
    <3>1. /\ pc' = "done" /\ ExtensionInside /\ ExtensionType = EXTENSION_SNI /\ ~HoldsHostName(offset + 4)
          /\ answer' = {}
      BY <2>10 DEF BadServerName, Return
    <3>2. ~NamesInWalk(n) /\ IsServerName(n)
      BY <2>5, <2>8, <3>1
    <3>3. WalkedNames = {}
      BY <1>1, <2>1, <2>3, <3>2, NextDecides
    <3> QED
      BY <1>3, <3>1, <3>3
  <2>11. CASE ExtensionsOver
    <3>1. pc' = "done" /\ answer' = {} /\ (offset + 4 <= extensions_end => ~ExtensionInside)
      BY <2>11 DEF ExtensionsOver, Return
    <3>2. ~InWalk(n)
      BY <1>1, <2>4, <2>5, <3>1 DEF ExtensionInside
    <3>3. ~NamesInWalk(n)
      <4>1. n \in 0 .. n
        BY <2>3
      <4> QED
        BY <3>2, <4>1 DEF NamesInWalk
    <3>4. WalkedNames = {}
      BY <1>1, <2>1, <2>3, <3>2, <3>3, NextDecides
    <3> QED
      BY <1>3, <3>1, <3>4
  <2> QED
    BY <1>16, <2>6, <2>9, <2>10, <2>11, StepOfCall
<1> QED
  BY <1>11, <1>12, <1>13, <1>14, <1>15, <1>16 DEF StagesOf

\* a scan for a Host,
LEMMA HttpFormat ==
    ASSUME WalkInv, FormatInv, Next, pc \in StagesOf["http"]
    PROVE  FormatInv'
<1>1. /\ RequestInv /\ inspector = "http" /\ offset \in Nat /\ length \in Nat
  BY LengthType DEF WalkInv, TypeOK, FormatInv, Inspectors, StagesOf
<1>2. inspector' = inspector /\ payload' = payload
  BY StepOfCall
<1>3. ASSUME pc' = "done", answer' = ScannedNames PROVE FormatInv'
  BY <1>1, <1>3, CallAnswers
<1>4. ASSUME pc' = "header", isHTTPRequest, \A j \in 0 .. offset' - 1 : ~FoundAt(j)
      PROVE  FormatInv'
  <2>1. RequestInv'
    BY <1>2, <1>4, RequestStays DEF RequestInv
  <2> QED
    BY <1>1, <1>2, <1>4, <2>1 DEF FormatInv, QuestionInv, AnswersAsWalked, StagesOf
<1>5. CASE pc = "method"
  <2>1. CASE NotRequest
    <3>1. pc' = "done" /\ answer' = {} /\ ~isHTTPRequest
      BY <2>1 DEF NotRequest, Return
    <3> QED
      BY <1>3, <3>1 DEF ScannedNames
  <2>2. CASE Request
    <3>1. pc' = "header" /\ offset' = 0 /\ isHTTPRequest
      BY <2>2 DEF Request, GoTo
    <3>2. \A j \in 0 .. offset' - 1 : ~FoundAt(j)
      BY <3>1
    <3> QED
      BY <1>4, <3>1, <3>2
  <2> QED
    BY <1>5, <2>1, <2>2, StepOfCall
<1>6. CASE pc = "header"
  <2>1. isHTTPRequest /\ \A j \in 0 .. offset - 1 : ~FoundAt(j)
    BY <1>1, <1>6 DEF RequestInv
  <2>2. FoundAt(offset) <=> offset + 6 < length /\ HostFound
    BY DEF FoundAt, HostFound
  <2>3. CASE Scan
    <3>1. pc' = "header" /\ offset' = offset + 1 /\ ~FoundAt(offset)
      BY <2>2, <2>3 DEF Scan, GoTo
    <3>2. \A j \in 0 .. offset' - 1 : j = offset \/ j \in 0 .. offset - 1
      BY <1>1, <3>1
    <3>3. \A j \in 0 .. offset' - 1 : ~FoundAt(j)
      BY <2>1, <3>1, <3>2
    <3> QED
      BY <1>4, <2>1, <3>1, <3>3
  <2>4. CASE Host
    <3>1. /\ pc' = "done" /\ answer' = {BeforeColon(HostValue(offset))}
          /\ FoundAt(offset) /\ offset + 6 < length
      BY <2>2, <2>4 DEF Host, Return
    <3>2. ASSUME NEW i \in 0 .. length, FoundAt(i), \A j \in 0 .. i - 1 : ~FoundAt(j)
          PROVE  i = offset
      <4>1. ~(i < offset)
        BY <1>1, <2>1, <3>2
      <4>2. ~(offset < i)
        BY <1>1, <3>1, <3>2
      <4> QED
        BY <1>1, <4>1, <4>2
    <3>3. offset \in 0 .. length
      BY <1>1, <3>1
    <3>4. {i \in 0 .. length : isHTTPRequest /\ FoundAt(i) /\ \A j \in 0 .. i - 1 : ~FoundAt(j)}
          = {offset}
      BY <2>1, <3>1, <3>2, <3>3
    <3>5. ScannedNames = {BeforeColon(HostValue(offset))}
      BY <3>4 DEF ScannedNames
    <3> QED
      BY <1>3, <3>1, <3>5
  <2>5. CASE NoHost
    <3>1. pc' = "done" /\ answer' = {} /\ offset + 6 >= length
      BY <2>5 DEF NoHost, Return
    <3>2. ASSUME NEW i \in 0 .. length, FoundAt(i) PROVE FALSE
      <4>1. i + 6 < length
        BY <3>2 DEF FoundAt
      <4>2. i \in 0 .. offset - 1
        BY <1>1, <3>1, <4>1
      <4> QED
        BY <2>1, <3>2, <4>2
    <3>3. ScannedNames = {}
      BY <3>2 DEF ScannedNames
    <3> QED
      BY <1>3, <3>1, <3>3
  <2> QED
    BY <1>6, <2>3, <2>4, <2>5, StepOfCall
<1> QED
  BY <1>5, <1>6 DEF StagesOf

\* Two texts with a dot between them.
Dotting(r, s, t) ==
    /\ r \in Seq(Byte) /\ Len(r) = Len(s) + 1 + Len(t)
    /\ \A k \in 1 .. Len(s) : r[k] = s[k]
    /\ r[Len(s) + 1] = DOT
    /\ \A k \in 1 .. Len(t) : r[Len(s) + 1 + k] = t[k]

LEMMA DotBetween ==
    ASSUME NEW s \in Seq(Byte), NEW t \in Seq(Byte), NEW r, r = Append(s, DOT) \o t
    PROVE  Dotting(r, s, t)
<1>1. DOT \in Byte
  BY DEF DOT, Byte
<1>2. PICK d \in Seq(Byte) : d = Append(s, DOT)
  <2>1. Append(s, DOT) \in Seq(Byte)
    BY <1>1
  <2> QED
    BY <2>1
<1>3. /\ Len(d) = Len(s) + 1 /\ d[Len(s) + 1] = DOT
      /\ \A k \in 1 .. Len(s) : d[k] = s[k]
  BY <1>1, <1>2
<1>4. r \in Seq(Byte) /\ Len(r) = Len(d) + Len(t)
  BY <1>2
<1>5. ASSUME NEW k \in 1 .. Len(d) + Len(t)
      PROVE  r[k] = IF k <= Len(d) THEN d[k] ELSE t[k - Len(d)]
  BY <1>2
<1>6. Len(s) \in Nat /\ Len(t) \in Nat
  OBVIOUS
<1>7. \A k \in 1 .. Len(s) + 1 : r[k] = d[k]
  BY <1>3, <1>5, <1>6
<1>8. ASSUME NEW k \in 1 .. Len(t) PROVE r[Len(s) + 1 + k] = t[k]
  <2>1. /\ Len(s) + 1 + k \in 1 .. Len(d) + Len(t) /\ ~(Len(s) + 1 + k <= Len(d))
        /\ (Len(s) + 1 + k) - Len(d) = k
    BY <1>3, <1>6
  <2> QED
    BY <1>5, <2>1
<1>9. /\ \A k \in 1 .. Len(s) : k \in 1 .. Len(s) + 1
      /\ Len(s) + 1 \in 1 .. Len(s) + 1
  BY <1>6
<1> QED
  BY <1>3, <1>4, <1>7, <1>8, <1>9 DEF Dotting

\* One more label is what the format says of one more.
LEMMA DottedGrows ==
    ASSUME payload \in Seq(Byte), domain \in Seq(Byte), offset \in Nat,
           NEW n \in Nat, LabelsRead(n), IsLabel(n),
           domain' = (IF domain = <<>> THEN <<>> ELSE Append(domain, DOT)) \o Bytes(offset + 1, At(offset))
    PROVE  domain' = Dotted(n + 1)
<1>1. PICK h \in 1 .. 63 : h = At(offset) /\ offset = LabelAt[n]
  BY DEF LabelsRead, IsLabel
<1>2. LabelAt[n + 1] = offset + 1 + h
  BY <1>1, LabelPlaces DEF PlacesFollow, BehindLabel
<1>3. /\ n # 0 => /\ offset > 13 /\ domain = Dotted(n)
                  /\ \A m \in 0 .. n - 1 : LabelAt[m] < offset
      /\ n = 0 => domain = <<>> /\ offset = 12
  BY <1>1, LabelPlaces DEF LabelsRead, PlacesFollow
<1>4. PICK t : t = Bytes(offset + 1, h)
  OBVIOUS
<1>5. t \in Seq(Byte) /\ Len(t) = h
  <2>1. offset + 1 \in Nat /\ h \in Nat
    OBVIOUS
  <2>2. t \in Seq(Byte)
    BY <1>4, <2>1, BytesType
  <2>3. Len(t) = h
    BY <1>4, <2>1 DEF Bytes
  <2> QED
    BY <2>2, <2>3
<1>6. \A k \in 1 .. h : t[k] = At(offset + k)
  <2>1. \A k \in 1 .. h : offset + 1 + k - 1 = offset + k
    OBVIOUS
  <2> QED
    BY <1>4, <2>1 DEF Bytes
<1> DEFINE DotAt(k) == \E m \in 1 .. (n + 1) - 1 : LabelAt[m] = 12 + k
<1>7. PICK size \in Nat : size = offset - 12 + h
  BY <1>3
<1>8. Dotted(n + 1) = [k \in 1 .. size |-> IF DotAt(k) THEN DOT ELSE At(12 + k)]
  <2>1. LabelAt[n + 1] - 13 = size
    BY <1>2, <1>7
  <2> QED
    BY <2>1 DEF Dotted
<1> HIDE DEF DotAt
<1>9. CASE n = 0
  <2>1. domain' = t
    BY <1>1, <1>3, <1>4, <1>5, <1>9
  <2>2. size = h /\ offset = 12
    BY <1>3, <1>7, <1>9
  <2>3. \A k : ~DotAt(k)
    BY <1>9 DEF DotAt
  <2>4. t = [k \in 1 .. size |-> At(12 + k)]
    BY <1>5, <1>6, <2>2
  <2> QED
    BY <1>8, <2>1, <2>3, <2>4
<1>10. CASE n # 0
  <2>1. PICK read \in Nat : read = offset - 13 /\ read > 0
    BY <1>3, <1>10
  <2>2. domain = [k \in 1 .. read |-> IF \E m \in 1 .. n - 1 : LabelAt[m] = 12 + k THEN DOT ELSE At(12 + k)]
    BY <1>1, <1>3, <1>10, <2>1 DEF Dotted
  <2>3. Len(domain) = read /\ domain # <<>>
    <3>1. DOMAIN domain = 1 .. read
      BY <2>2
    <3>2. DOMAIN domain = 1 .. Len(domain) /\ Len(domain) \in Nat
      OBVIOUS
    <3>3. Len(domain) = read
      BY <3>1, <3>2
    <3> QED
      BY <2>1, <3>3
  <2>4. domain' = Append(domain, DOT) \o t
    BY <1>1, <1>4, <2>3
  <2>5. PICK r : r = domain'
    OBVIOUS
  <2>6. /\ r \in Seq(Byte) /\ Len(r) = size
        /\ \A k \in 1 .. read : r[k] = domain[k]
        /\ r[read + 1] = DOT
        /\ \A k \in 1 .. h : r[read + 1 + k] = t[k]
    <3>1. Dotting(r, domain, t)
      BY <1>5, <2>4, <2>5, DotBetween
    <3>2. size = read + 1 + h
      BY <1>7, <2>1
    <3> QED
      BY <1>5, <2>3, <3>1, <3>2 DEF Dotting
  <2>7. ASSUME NEW k \in 1 .. size PROVE r[k] = IF DotAt(k) THEN DOT ELSE At(12 + k)
    <3>1. CASE k \in 1 .. read
      <4>1. DotAt(k) <=> \E m \in 1 .. n - 1 : LabelAt[m] = 12 + k
        <5>1. LabelAt[n] # 12 + k
          BY <1>1, <2>1, <3>1
        <5>2. \A m : m \in 1 .. (n + 1) - 1 <=> m \in 1 .. n - 1 \/ m = n
          BY <1>10
        <5> QED
          BY <5>1, <5>2 DEF DotAt
      <4> QED
        BY <2>2, <2>6, <3>1, <4>1
    <3>2. CASE k = read + 1
      <4>1. offset = 12 + k
        BY <2>1, <3>2
      <4>2. DotAt(k)
        <5>1. n \in 1 .. (n + 1) - 1
          BY <1>10
        <5> QED
          BY <1>1, <4>1, <5>1 DEF DotAt
      <4> QED
        BY <2>6, <3>2, <4>2
    <3>3. CASE k > read + 1
      <4>1. ~DotAt(k)
        <5>1. 12 + k > offset
          BY <2>1, <3>3
        <5>2. \A m \in 1 .. (n + 1) - 1 : m = n \/ m \in 0 .. n - 1
          OBVIOUS
        <5> QED
          BY <1>1, <1>3, <1>10, <5>1, <5>2 DEF DotAt
      <4>2. PICK j \in 1 .. h : k = read + 1 + j
        <5>1. k - (read + 1) \in 1 .. h /\ k = read + 1 + (k - (read + 1))
          BY <1>7, <2>1, <3>3
        <5> QED
          BY <5>1
      <4>3. r[k] = At(offset + j) /\ offset + j = 12 + k
        <5>1. offset + j = 12 + k
          BY <2>1, <4>2
        <5>2. r[read + 1 + j] = t[j] /\ t[j] = At(offset + j)
          BY <1>6, <2>6
        <5> QED
          BY <4>2, <5>1, <5>2
      <4> QED
        BY <4>1, <4>3
    <3> QED
      BY <2>1, <3>1, <3>2, <3>3
  <2>8. r = [k \in 1 .. size |-> IF DotAt(k) THEN DOT ELSE At(12 + k)]
    BY <2>6, <2>7
  <2> QED
    BY <1>8, <2>5, <2>8
<1> QED
  BY <1>9, <1>10

\* and the labels of a question.
LEMMA DnsFormat ==
    ASSUME WalkInv, FormatInv, Next, pc \in StagesOf["dns"]
    PROVE  FormatInv'
<1>1. /\ QuestionInv /\ inspector = "dns" /\ offset \in Nat /\ length \in Nat
      /\ payload \in Seq(Byte) /\ domain \in Seq(Byte)
  BY LengthType DEF WalkInv, TypeOK, FormatInv, Inspectors, StagesOf
<1>2. inspector' = inspector /\ payload' = payload
  BY StepOfCall
<1>3. ASSUME pc' = "done", answer' = DnsNames PROVE FormatInv'
  BY <1>1, <1>3, CallAnswers
<1>4. ASSUME pc' = "labels", QuestionInv' PROVE FormatInv'
  BY <1>1, <1>2, <1>4 DEF FormatInv, RequestInv, AnswersAsWalked, StagesOf
<1>5. LabelAt' = LabelAt /\ (isDNSQuery' <=> isDNSQuery)
  BY <1>2, QuestionStays
<1>6. \A n : Dotted(n)' = Dotted(n)
  BY <1>2, QuestionStays
<1>7. \A n : IsLabel(n)' <=> IsLabel(n)
  BY <1>2, QuestionStays
<1>8. CASE pc = "question"
  <2>1. CASE NotQuery
    <3>1. pc' = "done" /\ answer' = {} /\ ~isDNSQuery
      BY <2>1 DEF NotQuery, Return
    <3> QED
      BY <1>3, <3>1 DEF DnsNames
  <2>2. CASE Query
    <3>1. pc' = "labels" /\ offset' = 12 /\ domain' = domain /\ isDNSQuery
      BY <2>2 DEF Query, GoTo
    <3>2. domain = <<>>
      BY <1>8 DEF FormatInv
    <3>3. LabelsRead(0)'
      BY <1>1, <1>5, <3>1, <3>2, LabelPlaces DEF LabelsRead, PlacesFollow
    <3>4. 0 \in 0 .. offset'
      BY <3>1
    <3>5. QuestionInv'
      BY <1>5, <3>1, <3>3, <3>4 DEF QuestionInv
    <3> QED
      BY <1>4, <3>1, <3>5
  <2> QED
    BY <1>8, <2>1, <2>2, StepOfCall
<1>9. CASE pc = "labels"
  <2>1. PICK n \in 0 .. offset : LabelsRead(n)
    BY <1>1, <1>9 DEF QuestionInv
  <2>2. n \in Nat /\ n <= offset /\ offset = LabelAt[n] /\ isDNSQuery
    BY <1>1, <1>9, <2>1 DEF QuestionInv, LabelsRead
  <2>3. /\ BehindLabel[offset] = offset + 1 + At(offset) /\ At(offset) \in Nat
        /\ LabelAt[n + 1] = offset + 1 + At(offset)
    BY <1>1, <2>2, AtType, LabelPlaces DEF PlacesFollow, BehindLabel
  <2>4. offset < length \/ At(offset) = 0
    BY DEF At
  <2>5. IsLabel(n) <=> LabelInside
    BY <2>2, <2>3, <2>4 DEF IsLabel, LabelInside
  <2>6. offset >= 12
    <3>1. n = 0 => offset = 12
      BY <1>1, <2>2, LabelPlaces DEF PlacesFollow
    <3>2. n # 0 => offset > 13
      BY <2>1 DEF LabelsRead
    <3> QED
      BY <1>1, <3>1, <3>2
  <2>7. CASE Label
    <3>1. /\ pc' = "labels" /\ LabelInside /\ offset' = offset + 1 + At(offset)
          /\ domain' = (IF domain = <<>> THEN <<>> ELSE Append(domain, DOT)) \o Bytes(offset + 1, At(offset))
      BY <2>7 DEF Label, GoTo
    <3>2. IsLabel(n) /\ At(offset) > 0
      <4>1. At(offset) \in 1 .. 63
        BY <3>1 DEF LabelInside
      <4>2. At(offset) > 0
        BY <4>1
      <4> QED
        BY <2>5, <3>1, <4>2
    <3>3. domain' = Dotted(n + 1)
      BY <1>1, <2>1, <2>2, <3>1, <3>2, DottedGrows
    <3>4. offset' = LabelAt[n + 1] /\ offset' > offset /\ offset' > 13 /\ n + 1 \in 0 .. offset'
      BY <1>1, <2>2, <2>3, <2>6, <3>1, <3>2
    <3>5. ASSUME NEW m \in 0 .. (n + 1) - 1 PROVE IsLabel(m) /\ LabelAt[m] < offset'
      <4>1. CASE m = n
        BY <2>2, <3>2, <3>4, <4>1
      <4>2. CASE m # n
        <5>1. m \in 0 .. n - 1 /\ m \in Nat
          BY <2>2, <4>2
        <5>2. IsLabel(m) /\ LabelAt[m] < offset
          BY <2>1, <5>1 DEF LabelsRead
        <5>3. LabelAt[m] \in Nat
          BY <1>1, <5>1, LabelPlaces DEF PlacesFollow
        <5>4. offset' \in Nat
          BY <1>1, <2>3, <3>1
        <5> QED
          BY <1>1, <3>4, <5>2, <5>3, <5>4
      <4> QED
        BY <4>1, <4>2
    <3>6. LabelsRead(n + 1)'
      <4>1. n + 1 # 0
        BY <2>2
      <4>2. LabelAt'[n + 1] = offset' /\ Dotted(n + 1)' = Dotted(n + 1)
        BY <1>5, <1>6, <3>4
      <4>3. \A m \in 0 .. (n + 1) - 1 : IsLabel(m)' /\ LabelAt'[m] < offset'
        BY <1>5, <1>7, <3>5
      <4> QED
        BY <3>3, <3>4, <4>1, <4>2, <4>3 DEF LabelsRead
    <3>7. QuestionInv'
      BY <1>5, <2>2, <3>4, <3>6 DEF QuestionInv
    <3> QED
      BY <1>4, <3>1, <3>7
  <2>8. CASE LabelsOver
    <3>1. /\ pc' = "done" /\ answer' = (IF domain = <<>> THEN {} ELSE {domain})
          /\ ~IsLabel(n)
      BY <2>5, <2>8 DEF LabelsOver, Return
    <3>2. \A m \in 0 .. n - 1 : IsLabel(m)
      BY <2>1 DEF LabelsRead
    <3>3. ASSUME NEW k \in Nat, \A m \in 0 .. k - 1 : IsLabel(m), ~IsLabel(k) PROVE k = n
      <4>1. ~(k < n)
        BY <2>2, <3>2, <3>3
      <4>2. ~(n < k)
        BY <2>2, <3>1, <3>3
      <4> QED
        BY <2>2, <4>1, <4>2
    <3>4. CASE n = 0
      <4>1. domain = <<>>
        BY <2>1, <3>4 DEF LabelsRead
      <4>2. DnsNames = {}
        BY <3>3, <3>4 DEF DnsNames
      <4> QED
        BY <1>3, <3>1, <4>1, <4>2
    <3>5. CASE n # 0
      <4>1. domain = Dotted(n) /\ offset > 13
        BY <2>1, <3>5 DEF LabelsRead
      <4>2. domain # <<>>
        <5>1. DOMAIN domain = 1 .. offset - 13
          BY <2>2, <4>1 DEF Dotted
        <5>2. 1 \in DOMAIN domain
          BY <1>1, <4>1, <5>1
        <5> QED
          BY <5>2
      <4>3. n \in 1 .. length
        <5>1. offset <= length
          <6>1. n - 1 \in 0 .. n - 1 /\ n - 1 \in Nat /\ (n - 1) + 1 = n
            BY <2>2, <3>5
          <6>2. IsLabel(n - 1)
            BY <3>2, <6>1
          <6>3. BehindLabel[LabelAt[n - 1]] = LabelAt[n]
            BY <1>1, <6>1, LabelPlaces DEF PlacesFollow
          <6> QED
            BY <2>2, <6>2, <6>3 DEF IsLabel
        <5> QED
          BY <1>1, <2>2, <3>5, <5>1
      <4>4. {k \in 1 .. length : isDNSQuery /\ (\A m \in 0 .. k - 1 : IsLabel(m)) /\ ~IsLabel(k)} = {n}
        <5>1. \A k \in 1 .. length : (\A m \in 0 .. k - 1 : IsLabel(m)) /\ ~IsLabel(k) => k = n
          BY <1>1, <3>3
        <5> QED
          BY <2>2, <3>1, <3>2, <4>3, <5>1
      <4>5. DnsNames = {Dotted(n)}
        BY <4>4 DEF DnsNames
      <4> QED
        BY <1>3, <3>1, <4>1, <4>2, <4>5
    <3> QED
      BY <3>4, <3>5
  <2> QED
    BY <1>9, <2>7, <2>8, StepOfCall
<1> QED
  BY <1>8, <1>9 DEF StagesOf

LEMMA FormatInvHolds == Spec => [](WalkInv /\ FormatInv)
<1>1. Init => FormatInv
  <2>1. SUFFICES ASSUME Init PROVE FormatInv
    OBVIOUS
  <2>2. inspector \in Inspectors /\ pc = Entry[inspector] /\ domain = <<>>
    BY <2>1 DEF Init, Start
  <2>3. pc \in StagesOf[inspector] /\ pc \in {"record", "method", "question"}
    BY <2>2 DEF Inspectors, Entry, StagesOf
  <2> QED
    BY <2>2, <2>3 DEF FormatInv, HelloInv, RequestInv, QuestionInv, AnswersAsWalked, StagesOf
<1>2. WalkInv /\ FormatInv /\ [Next]_vars => FormatInv'
  <2>1. SUFFICES ASSUME WalkInv, FormatInv, [Next]_vars PROVE FormatInv'
    OBVIOUS
  <2>2. CASE Next /\ pc # "done"
    <3>1. pc \in StagesOf["tls"] \/ pc \in StagesOf["http"] \/ pc \in StagesOf["dns"]
      BY <2>1, <2>2 DEF WalkInv, TypeOK, Inspectors, FormatInv
    <3> QED
      BY <2>1, <2>2, <3>1, TlsFormat, HttpFormat, DnsFormat
  <2>3. CASE pc = "done" /\ Next
    <3>1. UNCHANGED vars
      BY <2>3, StepOfCall
    <3>2. inspector \in Inspectors
      BY <2>1 DEF WalkInv, TypeOK
    <3> QED
      BY <2>1, <2>3, <3>1, <3>2, CallAnswers DEF vars, FormatInv, AnswersAsWalked
  <2>4. CASE UNCHANGED vars
    <3>1. /\ inspector' = inspector /\ payload' = payload /\ pc' = pc /\ offset' = offset
          /\ extensions_end' = extensions_end /\ domain' = domain /\ answer' = answer
      BY <2>4 DEF vars
    <3>2. length' = length
      BY <3>1, BytesStay
    <3>3. HelloInv => HelloInv'
      BY <3>1, <3>2, HelloStays DEF HelloInv
    <3>4. RequestInv => RequestInv'
      BY <3>1, RequestStays DEF RequestInv
    <3>5. \A n : LabelsRead(n) => LabelsRead(n)'
      BY <3>1, QuestionStays DEF LabelsRead
    <3>6. QuestionInv => QuestionInv'
      BY <3>1, <3>5, QuestionStays DEF QuestionInv
    <3>7. AnswersAsWalked => AnswersAsWalked'
      BY <3>1, HelloStays, RequestStays, QuestionStays DEF AnswersAsWalked
    <3> QED
      BY <2>1, <3>1, <3>3, <3>4, <3>6, <3>7 DEF FormatInv
  <2> QED
    BY <2>1, <2>2, <2>3, <2>4
<1> QED
  BY <1>1, <1>2, InitWalks, NextWalks, PTL DEF Spec
-----------------------------------------------------------------------------
(* What the walk takes for the list, a server name, a Host or a value is    *)
(* what the format says, under the two provisos of AnswersAsFormatted.      *)

LEMMA SameHello ==
    ASSUME payload \in Seq(Byte)
    PROVE  /\ IsHello <=> isTLSClientHello
           /\ IsHello => RecordEnd \in Nat /\ RecordEnd <= length
<1>1. length \in Nat /\ At(1) \in Byte /\ At(2) \in Byte /\ readUint16BE(3) \in Nat
  BY LengthType, AtType, Uint16Type
<1>2. readUint16BE(1) = At(1) * 256 + At(2)
  BY DEF readUint16BE
<1>3. readUint16BE(1) \in 768 .. 772 <=> At(1) = 3 /\ At(2) \in 0 .. 4
  <2>1. \A a, b \in Byte : a * 256 + b \in 768 .. 772 <=> a = 3 /\ b \in 0 .. 4
    BY DEF Byte
  <2> QED
    BY <1>1, <1>2, <2>1
<1>4. IsHello <=> isTLSClientHello
  BY <1>1, <1>3 DEF IsHello, isTLSClientHello, CONTENT_TYPE_HANDSHAKE, HANDSHAKE_CLIENT_HELLO
<1>5. IsHello => RecordEnd \in Nat /\ RecordEnd <= length
  BY <1>1 DEF IsHello, RecordEnd
<1> QED
  BY <1>4, <1>5

\* The record of a ClientHello ends inside the payload, so its list is no longer than the
\* walk's, and is the walk's when it does not go on behind the record.
LEMMA SameList ==
    ASSUME payload \in Seq(Byte), ListAnnounced, NEW n \in Nat
    PROVE  /\ InList(n) => InWalk(n)
           /\ ~ListSplit => (InWalk(n) => InList(n))
<1>1. length \in Nat /\ RecordEnd \in Nat /\ RecordEnd <= length
  BY LengthType, SameHello DEF ListAnnounced
<1>2. AnnouncedEnd \in Nat
  <2>1. ExtensionsAt \in Nat
    BY ExtensionPlaces
  <2>2. readUint16BE(ExtensionsAt) \in Nat
    BY <2>1, Uint16Type
  <2> QED
    BY <2>1, <2>2 DEF AnnouncedEnd
<1>3. BehindExtension[ExtensionAt[n]] \in Nat
  <2>1. n + 1 \in Nat
    OBVIOUS
  <2> QED
    BY <2>1, ExtensionPlaces DEF PlacesFollow
<1> DEFINE b == BehindExtension[ExtensionAt[n]]
<1> HIDE DEF b
<1>4. b \in Nat
  BY <1>3 DEF b
<1>5. (InList(n) <=> b <= Smaller(AnnouncedEnd, RecordEnd)) /\ (InWalk(n) <=> b <= Smaller(AnnouncedEnd, length))
  BY DEF b, InList, InWalk, WalkEnd
<1>6. ~ListSplit => AnnouncedEnd <= RecordEnd
  BY <1>1, <1>2 DEF ListSplit
<1> QED
  BY <1>1, <1>2, <1>4, <1>5, <1>6 DEF Smaller

\* So are the extensions that name a host,
LEMMA SameNames ==
    ASSUME payload \in Seq(Byte), ListAnnounced, NEW n \in Nat
    PROVE  /\ NamesHost(n) => NamesInWalk(n)
           /\ ~ListSplit => (NamesInWalk(n) => NamesHost(n))
<1>1. \A m \in 0 .. n : InList(m) => InWalk(m)
  BY SameList
<1>2. ~ListSplit => \A m \in 0 .. n : InWalk(m) => InList(m)
  BY SameList
<1> QED
  BY <1>1, <1>2 DEF NamesHost, NamesInWalk, SNI_TYPE_HOSTNAME

\* and the name.
LEMMA TlsAsFormatted ==
    ASSUME payload \in Seq(Byte), TlsNames # {} \/ ~ListSplit
    PROVE  WalkedNames = TlsNames
<1>1. length \in Nat
  BY LengthType
<1>2. ListAnnounced <=> isTLSClientHello /\ ExtensionsAt + 2 <= length
  BY SameHello DEF ListAnnounced
<1>3. CASE ~ListAnnounced
  <2>1. WalkedNames = {}
    BY <1>2, <1>3, NoRoom
  <2>2. TlsNames = {}
    BY <1>3 DEF TlsNames
  <2> QED
    BY <2>1, <2>2
<1>4. CASE ListAnnounced /\ ~ListSplit
  <2>1. \A n \in 0 .. length : NamesHost(n) <=> NamesInWalk(n)
    BY <1>1, <1>4, SameNames
  <2>2. {n \in 0 .. length : ListAnnounced /\ NamesHost(n)} =
            {n \in 0 .. length : isTLSClientHello /\ ExtensionsAt + 2 <= length /\ NamesInWalk(n)}
    BY <1>2, <2>1
  <2> QED
    BY <2>2 DEF TlsNames, WalkedNames
<1>5. CASE ListAnnounced /\ TlsNames # {}
  <2>1. \A n \in 0 .. length : NamesHost(n) => NamesInWalk(n)
    BY <1>1, <1>5, SameNames
  <2>2. PICK n \in 0 .. length : NamesHost(n)
    BY <1>5 DEF TlsNames
  <2>3. n \in Nat /\ n <= length /\ NamesInWalk(n)
    BY <1>1, <2>1, <2>2
  <2>4. PassedOver(n) /\ IsServerName(n)
    <3>1. \A m \in 0 .. n - 1 : m \in 0 .. n
      BY <2>3
    <3> QED
      BY <2>3, <3>1 DEF NamesInWalk, PassedOver
  <2>5. WalkedNames = {Bytes(ExtensionAt[n] + 9, readUint16BE(ExtensionAt[n] + 7))}
    BY <1>2, <1>5, <2>3, <2>4, NextDecides
  <2>6. TlsNames \subseteq WalkedNames
    BY <1>2, <2>1 DEF TlsNames, WalkedNames
  <2> QED
    BY <1>5, <2>5, <2>6
<1> QED
  BY <1>3, <1>4, <1>5

\* A method and a blank begin with what the extractor looks for.
LEMMA SameRequest ==
    ASSUME payload \in Seq(Byte), IsRequest
    PROVE  isHTTPRequest
<1>1. PICK m \in MethodTokens : Len(m) <= length /\ \A k \in 1 .. Len(m) : At(k - 1) = m[k]
  BY DEF IsRequest
<1>2. Len(m) \in Nat /\ Len(m) >= 4 /\ <<m[1], m[2], m[3], m[4]>> \in Methods
  <2>1. CASE m = <<71, 69, 84, 32>>
    BY <2>1 DEF Methods
  <2>2. CASE m = <<80, 79, 83, 84, 32>>
    BY <2>2 DEF Methods
  <2>3. CASE m = <<80, 85, 84, 32>>
    BY <2>3 DEF Methods
  <2>4. CASE m = <<72, 69, 65, 68, 32>>
    BY <2>4 DEF Methods
  <2>5. CASE m = <<68, 69, 76, 69, 84, 69, 32>>
    BY <2>5 DEF Methods
  <2>6. CASE m = <<80, 65, 84, 67, 72, 32>>
    BY <2>6 DEF Methods
  <2>7. CASE m = <<79, 80, 84, 73, 79, 78, 83, 32>>
    BY <2>7 DEF Methods
  <2> QED
    BY <2>1, <2>2, <2>3, <2>4, <2>5, <2>6, <2>7 DEF MethodTokens
<1>3. length >= 4
  BY <1>1, <1>2, LengthType
<1>4. \A k \in 1 .. 4 : At(0 + k - 1) = m[k]
  <2>1. \A k \in 1 .. 4 : k \in 1 .. Len(m) /\ 0 + k - 1 = k - 1
    BY <1>2
  <2> QED
    BY <1>1, <2>1
<1>5. Bytes(0, 4) = <<m[1], m[2], m[3], m[4]>>
  <2>1. Bytes(0, 4) = [k \in 1 .. 4 |-> m[k]]
    BY <1>4 DEF Bytes
  <2>2. [k \in 1 .. 4 |-> m[k]] = <<m[1], m[2], m[3], m[4]>>
    OBVIOUS
  <2> QED
    BY <2>1, <2>2
<1> QED
  BY <1>2, <1>3, <1>5 DEF isHTTPRequest

\* The letters of a Host, in any case.
LEMMA SameLetters ==
    ASSUME payload \in Seq(Byte), NEW i \in Nat
    PROVE  SpellsHost(i) <=> HostAt(i)
<1>1. /\ At(i) \in Byte /\ At(i + 1) \in Byte /\ At(i + 2) \in Byte
      /\ At(i + 3) \in Byte /\ At(i + 4) \in Byte
  BY AtType
<1>2. i + 1 - 1 = i /\ i + 2 - 1 = i + 1 /\ i + 3 - 1 = i + 2 /\ i + 4 - 1 = i + 3 /\ i + 5 - 1 = i + 4
  OBVIOUS
<1>3. SpellsHost(i) <=> /\ LowerCase(At(i + 1 - 1)) = 104 /\ LowerCase(At(i + 2 - 1)) = 111
                        /\ LowerCase(At(i + 3 - 1)) = 115 /\ LowerCase(At(i + 4 - 1)) = 116
                        /\ LowerCase(At(i + 5 - 1)) = 58
  <2>1. 1 .. 5 = {1, 2, 3, 4, 5}
    OBVIOUS
  <2>2. /\ <<104, 111, 115, 116, 58>>[1] = 104 /\ <<104, 111, 115, 116, 58>>[2] = 111
        /\ <<104, 111, 115, 116, 58>>[3] = 115 /\ <<104, 111, 115, 116, 58>>[4] = 116
        /\ <<104, 111, 115, 116, 58>>[5] = 58
    OBVIOUS
  <2> QED
    BY <2>1, <2>2 DEF SpellsHost
<1>4. \A b \in Byte : /\ LowerCase(b) = 104 <=> b \in {72, 104}
                      /\ LowerCase(b) = 111 <=> b \in {111, 79}
                      /\ LowerCase(b) = 115 <=> b \in {115, 83}
                      /\ LowerCase(b) = 116 <=> b \in {116, 84}
                      /\ LowerCase(b) = 58 <=> b = COLON
  BY DEF LowerCase, Byte, COLON
<1>5. SpellsHost(i) <=> /\ LowerCase(At(i)) = 104 /\ LowerCase(At(i + 1)) = 111
                        /\ LowerCase(At(i + 2)) = 115 /\ LowerCase(At(i + 3)) = 116
                        /\ LowerCase(At(i + 4)) = 58
  BY <1>2, <1>3
<1> QED
  BY <1>1, <1>4, <1>5 DEF HostAt

\* A value is one that does not end where it begins.
LEMMA SameValue ==
    ASSUME payload \in Seq(Byte), NEW i \in Nat, i + 5 <= length
    PROVE  /\ ValueStart(i) = ValueAt(i) /\ ValueAt(i) \in i + 5 .. length
           /\ HasValue(i) <=> ValueAt(i) < length /\ At(ValueAt(i)) \notin {CR, LF}
<1>1. ValueStart(i) = ValueAt(i)
  BY DEF ValueStart, ValueAt
<1>2. length \in Nat /\ i + 5 \in Nat
  BY LengthType
<1>3. ValueAt(i) \in i + 5 .. length
  BY <1>2, UntilStops DEF ValueAt, StopsAt
<1>4. StopsAt(ValueEnd(i), ValueAt(i), length, {x \in Nat : At(x) \in {CR, LF}})
  BY <1>1, <1>2, <1>3, UntilStops, ValueAt(i) \in Nat DEF ValueEnd
<1> DEFINE v == ValueAt(i)
           e == ValueEnd(i)
<1> HIDE DEF v, e
<1>5. /\ v \in i + 5 .. length /\ e \in v .. length /\ (e < length => At(e) \in {CR, LF})
      /\ \A x \in v .. e - 1 : At(x) \notin {CR, LF}
  <2>1. \A x \in v .. e - 1 : x \in Nat
    BY <1>2, <1>3, <1>4 DEF v, e, StopsAt
  <2> QED
    BY <1>2, <1>3, <1>4, <2>1 DEF v, e, StopsAt
<1>6. e > v <=> v < length /\ At(v) \notin {CR, LF}
  <2>1. ASSUME e > v PROVE v < length /\ At(v) \notin {CR, LF}
    BY <1>2, <1>5, <2>1
  <2>2. ASSUME v < length, At(v) \notin {CR, LF} PROVE e > v
    <3>1. e # v
      BY <1>5, <2>2
    <3> QED
      BY <1>2, <1>5, <3>1
  <2> QED
    BY <2>1, <2>2
<1>7. HasValue(i) <=> v < length /\ At(v) \notin {CR, LF}
  BY <1>1, <1>6 DEF HasValue, v, e
<1> QED
  BY <1>1, <1>3, <1>7 DEF v

\* A host ends at its first colon, or where its line or the payload ends.
LEMMA SameHost ==
    ASSUME payload \in Seq(Byte), NEW i \in Nat, i + 5 <= length
    PROVE  BeforeColon(HostValue(i)) = Bytes(ValueAt(i), Until(ValueAt(i), {CR, LF, COLON}) - ValueAt(i))
<1> DEFINE v == ValueAt(i)
           e == ValueEnd(i)
           u == Until(v, {CR, LF, COLON})
           L == {x \in Nat : At(x) \in {CR, LF}}
           C == {x \in Nat : At(x) \in {CR, LF, COLON}}
           text == Bytes(v, e - v)
<1>1. length \in Nat /\ v \in Nat /\ v <= length /\ ValueStart(i) = v
  BY LengthType, SameValue
<1>2. StopsAt(e, v, length, L) /\ StopsAt(u, v, length, C)
  BY <1>1, UntilStops DEF ValueEnd
<1>3. HostValue(i) = text
  BY <1>1 DEF HostValue
<1>4. \A x \in Nat : (x \in L <=> At(x) \in {CR, LF}) /\ (x \in C <=> At(x) \in {CR, LF, COLON})
  OBVIOUS
<1> HIDE DEF v, e, u, L, C
<1>5. e \in v .. length /\ e - v \in Nat
  BY <1>1, <1>2 DEF StopsAt
<1>6. text \in Seq(Byte) /\ Len(text) = e - v /\ \A k \in 1 .. e - v : text[k] = At(v + k - 1)
  <2>1. text \in Seq(Byte)
    BY <1>1, <1>5, BytesType
  <2> QED
    BY <1>5, <2>1 DEF Bytes
<1> HIDE DEF text
<1>7. PICK n \in 0 .. Len(text) : /\ BeforeColon(text) = SubSeq(text, 1, n)
                                  /\ \A j \in 1 .. n : text[j] # COLON
                                  /\ n < Len(text) => text[n + 1] = COLON
  BY <1>6, BeforeColonIs
<1>8. n \in Nat /\ n <= e - v /\ v + n \in Nat /\ v + n <= e
  BY <1>1, <1>5, <1>6, <1>7
<1>9. v + n < length => v + n \in C
  <2>1. CASE n = e - v
    <3>1. v + n = e
      BY <1>1, <1>5, <2>1
    <3> QED
      BY <1>2, <1>4, <1>8, <3>1 DEF StopsAt
  <2>2. CASE n # e - v
    <3>1. n < Len(text) /\ n + 1 \in 1 .. e - v /\ v + (n + 1) - 1 = v + n
      BY <1>1, <1>5, <1>6, <1>8, <2>2
    <3>2. At(v + n) = COLON
      BY <1>6, <1>7, <3>1
    <3> QED
      BY <1>4, <1>8, <3>2
  <2> QED
    BY <2>1, <2>2
<1>10. ASSUME NEW x \in v .. v + n - 1 PROVE x \notin C
  <2>1. x - v + 1 \in 1 .. n /\ x - v + 1 \in 1 .. e - v /\ v + (x - v + 1) - 1 = x /\ x \in v .. e - 1
        /\ x \in Nat
    BY <1>1, <1>5, <1>8
  <2>2. At(x) # COLON
    BY <1>6, <1>7, <2>1
  <2>3. At(x) \notin {CR, LF}
    BY <1>2, <1>4, <2>1 DEF StopsAt
  <2> QED
    BY <1>4, <2>1, <2>2, <2>3
<1>11. StopsAt(v + n, v, length, C)
  <2>1. v + n \in v .. length
    BY <1>1, <1>5, <1>8
  <2> QED
    BY <1>1, <1>8, <1>9, <1>10, <2>1 DEF StopsAt
<1>12. u = v + n
  BY <1>1, <1>2, <1>11, v \in 0 .. length, StopOnce
<1>13. SubSeq(text, 1, n) = Bytes(v, n)
  <2>1. SubSeq(text, 1, n) = [k \in 1 .. n |-> text[k]]
    BY <1>6, <1>7, <1>8
  <2>2. \A k \in 1 .. n : text[k] = At(v + k - 1)
    BY <1>6, <1>8
  <2> QED
    BY <2>1, <2>2 DEF Bytes
<1>14. u - v = n
  BY <1>1, <1>8, <1>12
<1> QED
  BY <1>3, <1>7, <1>13, <1>14 DEF v, u

\* Where only fields named Host have the letters, the scan finds the fields,
LEMMA SameFields ==
    ASSUME payload \in Seq(Byte), HostOnlyInFields, NEW i \in 0 .. length
    PROVE  FoundAt(i) <=> HasHost(i)
<1>1. length \in Nat /\ i \in Nat
  BY LengthType
<1>2. SpellsHost(i) <=> HostAt(i)
  BY <1>1, SameLetters
<1>3. i + 6 < length => (HasValue(i) <=> ValueAt(i) < length /\ At(ValueAt(i)) \notin {CR, LF})
  BY <1>1, SameValue
<1>4. i + 6 < length /\ SpellsHost(i) <=> HostFieldAt(i)
  BY DEF HostOnlyInFields, HostFieldAt
<1>5. FoundAt(i) <=> i + 6 < length /\ SpellsHost(i) /\ HasValue(i)
  BY <1>2 DEF FoundAt
<1>6. HasHost(i) <=> HostFieldAt(i) /\ ValueAt(i) < length /\ At(ValueAt(i)) \notin {CR, LF}
  BY DEF HasHost
<1> QED
  BY <1>3, <1>4, <1>5, <1>6

\* and the host in the first of them.
LEMMA HttpAsFormatted ==
    ASSUME payload \in Seq(Byte), IsRequest, HostOnlyInFields
    PROVE  ScannedNames = HttpNames
<1>1. length \in Nat
  BY LengthType
<1>2. \A i \in 0 .. length : FoundAt(i) <=> HasHost(i)
  BY SameFields
<1>3. \A i \in 0 .. length : \A j \in 0 .. i - 1 : j \in 0 .. length
  BY <1>1
<1> DEFINE First == {i \in 0 .. length : HasHost(i) /\ \A j \in 0 .. i - 1 : ~HasHost(j)}
<1>4. {i \in 0 .. length : isHTTPRequest /\ FoundAt(i) /\ \A j \in 0 .. i - 1 : ~FoundAt(j)} = First
  BY <1>2, <1>3, SameRequest
<1>5. \A i \in First : BeforeColon(HostValue(i))
                           = Bytes(ValueAt(i), Until(ValueAt(i), {CR, LF, COLON}) - ValueAt(i))
  <2>1. \A i \in First : i \in Nat /\ i + 5 <= length
    BY <1>1 DEF HasHost, HostFieldAt
  <2> HIDE DEF First
  <2> QED
    BY <2>1, SameHost
<1>6. ScannedNames = {BeforeColon(HostValue(i)) : i \in First}
  BY <1>4 DEF ScannedNames
<1>7. HttpNames = {Bytes(ValueAt(i), Until(ValueAt(i), {CR, LF, COLON}) - ValueAt(i)) : i \in First}
  BY DEF HttpNames
<1> HIDE DEF First
<1> QED
  BY <1>5, <1>6, <1>7

\* Whatever the bytes of a payload, and however many: an extractor's walk ends with the
\* name that its format puts there, and with none where it puts none.  The extensions of a
\* ClientHello must not go on in a second record before the name, and nothing but a field
\* named Host may have the letters of one in a request.
THEOREM AnswersFollowFormats == Spec => []AnswersAsFormatted
<1>1. WalkInv /\ FormatInv => AnswersAsFormatted
  <2>1. SUFFICES ASSUME WalkInv, FormatInv PROVE AnswersAsFormatted
    OBVIOUS
  <2>2. payload \in Seq(Byte) /\ AnswersAsWalked
    BY <2>1 DEF WalkInv, TypeOK, FormatInv
  <2>3. TlsNames # {} \/ ~ListSplit => WalkedNames = TlsNames
    BY <2>2, TlsAsFormatted
  <2>4. IsRequest /\ HostOnlyInFields => ScannedNames = HttpNames
    BY <2>2, HttpAsFormatted
  <2> QED
    BY <2>2, <2>3, <2>4 DEF AnswersAsWalked, AnswersAsFormatted
<1> QED
  BY <1>1, FormatInvHolds, PTL
=============================================================================
