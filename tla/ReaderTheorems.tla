---------------------------- MODULE ReaderTheorems ----------------------------
(***************************************************************************)
(* The capture reader, for captures of any contents in either byte order:  *)
(* its types, and that it hands out what the writer meant.                 *)
(***************************************************************************)
EXTENDS CaptureReader, WordTheorems

\* Headers before anything was read.
LEMMA ZeroTypes ==
    NoGlobalHeader \in GlobalHeader /\ NoPacketHeader \in PacketHeader
<1>1. ZeroWord \in Word
  BY IntoHalf DEF ZeroWord, Word
<1> QED
  BY <1>1 DEF NoGlobalHeader, NoPacketHeader, GlobalHeader, PacketHeader

\* Swapping, or not, keeps a word a word.
LEMMA SwapTypes ==
    ASSUME NEW w \in Word
    PROVE  (\A order : Stored(order, w) \in Word) /\ (\A swap : maybeSwap32(swap, w) \in Word)
BY SwapWord DEF Stored, maybeSwap32

\* Headers on the disk, and decoded, have fields of 32 bits.
LEMMA HeaderTypes ==
    /\ \A order : \A h \in GlobalHeader : StoredGlobalHeader(order, h) \in GlobalHeader
    /\ \A h \in GlobalHeader : DecodeGlobalHeader(h) \in GlobalHeader
    /\ \A order : \A h \in PacketHeader : StoredPacketHeader(order, h) \in PacketHeader
    /\ \A swap : \A h \in PacketHeader : DecodePacketHeader(swap, h) \in PacketHeader
<1>1. \A order : \A h \in GlobalHeader : StoredGlobalHeader(order, h) \in GlobalHeader
  BY SwapTypes DEF StoredGlobalHeader, GlobalHeader
<1>2. \A h \in GlobalHeader : DecodeGlobalHeader(h) \in GlobalHeader
  BY SwapTypes DEF DecodeGlobalHeader, GlobalHeader
<1>3. \A order : \A h \in PacketHeader : StoredPacketHeader(order, h) \in PacketHeader
  BY SwapTypes DEF StoredPacketHeader, PacketHeader
<1>4. \A swap : \A h \in PacketHeader : DecodePacketHeader(swap, h) \in PacketHeader
  BY SwapTypes DEF DecodePacketHeader, PacketHeader
<1> QED
  BY <1>1, <1>2, <1>3, <1>4

\* A reader that was just constructed.
LEMMA ReaderInitType ==
    ASSUME NEW frames, NEW anyFrame \in frames, ReaderInit(anyFrame)
    PROVE  ReaderTypeOK(frames)
<1>1. 0 \in Half
  BY IntoHalf
<1> QED
  BY <1>1, ZeroTypes DEF ReaderInit, ReaderTypeOK, RawPacketOf, Orders, Places

\* Opening a capture, or failing to.
LEMMA OpenType ==
    ASSUME NEW frames, ReaderTypeOK(frames), NEW c \in Captures, open(c) \/ openFails(c)
    PROVE  ReaderTypeOK(frames)'
<1>1. c.order \in Orders /\ c.header \in GlobalHeader
  BY CapturesAssumption
<1> DEFINE found == StoredGlobalHeader(c.order, c.header)
<1>2. found \in GlobalHeader /\ DecodeGlobalHeader(found) \in GlobalHeader
  BY <1>1, HeaderTypes
<1>3. NeedsByteSwap(found) \in BOOLEAN
  BY DEF NeedsByteSwap
<1>. HIDE DEF found
<1>4. CASE open(c)
  BY <1>1, <1>2, <1>3, <1>4, ZeroTypes DEF open, found, ReaderTypeOK, Places
<1>5. CASE openFails(c)
  BY <1>2, <1>5 DEF openFails, found, ReaderTypeOK
<1> QED
  BY <1>4, <1>5

\* Closing it.
LEMMA CloseType ==
    ASSUME NEW frames, ReaderTypeOK(frames), close
    PROVE  ReaderTypeOK(frames)'
BY DEF close, ReaderTypeOK

\* The header at the place where the reader stands, as found, meant and decoded.
LEMMA HeaderReadType ==
    ASSUME NEW r, r.header \in PacketHeader
    PROVE  /\ Found(r) \in PacketHeader /\ Meant(r) \in PacketHeader
           /\ HeaderRead(r) \in PacketHeader /\ HeaderRead(r).incl_len.lo \in Half
<1>1. Found(r) \in PacketHeader /\ Meant(r) \in PacketHeader
  BY HeaderTypes, ZeroTypes DEF Found, Meant
<1>2. HeaderRead(r) \in PacketHeader
  BY <1>1, HeaderTypes DEF HeaderRead
<1> QED
  BY <1>1, <1>2 DEF PacketHeader, Word

\* A reader that moves on in its file.
LEMMA MovedType ==
    ASSUME NEW frames, ReaderTypeOK(frames), packet' \in RawPacketOf(frames),
           NEW record \in PacketHeader, NEW place \in Places,
           disk' = [disk EXCEPT !.record = record, !.at = place],
           UNCHANGED <<file_open, needs_byte_swap, global_header>>
    PROVE  ReaderTypeOK(frames)'
<1>1. disk' \in [order : Orders, header : GlobalHeader, record : PacketHeader, at : Places]
  BY DEF ReaderTypeOK
<1> QED
  BY <1>1 DEF ReaderTypeOK

\* Reading a record; a length that was accepted fits in 16 bits.
LEMMA ReadType ==
    ASSUME NEW frames, ReaderTypeOK(frames), NEW r, r.header \in PacketHeader, r.frame \in frames,
           readNextPacket(r)
    PROVE  ReaderTypeOK(frames)'
<1>1. /\ packet' = [header |-> HeaderRead(r),
                    data |-> [size |-> HeaderRead(r).incl_len.lo, frame |-> r.frame]]
      /\ disk' = [disk EXCEPT !.record = Meant(r)]
      /\ UNCHANGED <<file_open, needs_byte_swap, global_header>>
  BY DEF readNextPacket
<1>2. packet' \in RawPacketOf(frames)
  BY <1>1, HeaderReadType DEF RawPacketOf
<1>3. Meant(r) \in PacketHeader
  BY HeaderReadType
<1>4. disk' \in [order : Orders, header : GlobalHeader, record : PacketHeader, at : Places]
  BY <1>1, <1>3 DEF ReaderTypeOK
<1> QED
  BY <1>1, <1>2, <1>4 DEF ReaderTypeOK

\* A read that fails, wherever it came short.
LEMMA FailsType ==
    ASSUME NEW frames, ReaderTypeOK(frames),
           \A r \in Records : r.header \in PacketHeader /\ r.frame \in frames,
           readFails
    PROVE  ReaderTypeOK(frames)'
<1>0. "inside" \in Places /\ "failed" \in Places
  BY DEF Places
<1>1. ASSUME NEW r \in Records, lengthRefused(r) PROVE ReaderTypeOK(frames)'
  <2>1. packet' \in RawPacketOf(frames)
    BY <1>1, HeaderReadType DEF lengthRefused, RawPacketOf, ReaderTypeOK
  <2> QED
    BY <1>0, <1>1, <2>1, ZeroTypes, MovedType DEF lengthRefused, Stands
<1>2. ASSUME NEW r \in Records, dataCutShort(r) PROVE ReaderTypeOK(frames)'
  <2>1. PICK frame \in {r.frame, packet.data.frame} :
           packet' = [header |-> HeaderRead(r),
                      data |-> [size |-> HeaderRead(r).incl_len.lo, frame |-> frame]]
    BY <1>2 DEF dataCutShort
  <2>2. frame \in frames
    BY DEF ReaderTypeOK, RawPacketOf
  <2>3. packet' \in RawPacketOf(frames)
    BY <2>1, <2>2, HeaderReadType DEF RawPacketOf
  <2> QED
    BY <1>0, <1>2, <2>3, ZeroTypes, MovedType DEF dataCutShort, Stands
<1>3. ASSUME NEW r \in Records, headerCutShort(r) PROVE ReaderTypeOK(frames)'
  <2>1. PICK fields \in {{}, {"ts_sec"}, {"ts_sec", "incl_len"}} :
           packet' = [packet EXCEPT !.header =
                         [f \in DOMAIN @ |-> IF f \in fields THEN Found(r)[f] ELSE @[f]]]
    BY <1>3 DEF headerCutShort
  <2>2. packet.header \in PacketHeader /\ Found(r) \in PacketHeader
    BY HeaderReadType DEF ReaderTypeOK, RawPacketOf
  <2> DEFINE h == [f \in DOMAIN packet.header |->
                      IF f \in fields THEN Found(r)[f] ELSE packet.header[f]]
  <2>3. h \in PacketHeader
    BY <2>2 DEF PacketHeader
  <2>4. packet' = [packet EXCEPT !.header = h]
    BY <2>1
  <2> HIDE DEF h
  <2>5. packet' \in RawPacketOf(frames)
    BY <2>3, <2>4 DEF RawPacketOf, ReaderTypeOK
  <2> QED
    BY <1>0, <1>3, <2>5, ZeroTypes, MovedType DEF headerCutShort, Stands
<1>4. CASE fileEnds
  <2>1. packet' \in RawPacketOf(frames)
    BY <1>4 DEF fileEnds, ReaderTypeOK
  <2> QED
    BY <1>0, <1>4, <2>1, ZeroTypes, MovedType DEF fileEnds, Stands
<1>5. CASE nothingToRead
  BY <1>5 DEF nothingToRead, readerVars, ReaderTypeOK
<1> QED
  BY <1>1, <1>2, <1>3, <1>4, <1>5 DEF readFails

-----------------------------------------------------------------------------
(* What the writer meant. *)

\* An open reader swaps exactly the captures of the other byte order.
OrderKnown == file_open => (needs_byte_swap <=> disk.order = "swapped")

ReaderInv(frames) == ReaderTypeOK(frames) /\ OrderKnown /\ DecodedAsWritten

\* Decoding undoes what the writer's byte order did to a word,
LEMMA WordDecoded ==
    ASSUME NEW order \in Orders, NEW swap \in BOOLEAN, swap <=> order = "swapped", NEW w \in Word
    PROVE  maybeSwap32(swap, Stored(order, w)) = w
BY SwapWord DEF maybeSwap32, Stored

\* and to the header of a record.
LEMMA PacketHeaderDecoded ==
    ASSUME NEW order \in Orders, NEW swap \in BOOLEAN, swap <=> order = "swapped",
           NEW h \in PacketHeader
    PROVE  DecodePacketHeader(swap, StoredPacketHeader(order, h)) = h
<1>1. \A f \in DOMAIN h : h[f] \in Word
  BY DEF PacketHeader
<1>2. \A f \in DOMAIN h : maybeSwap32(swap, Stored(order, h[f])) = h[f]
  BY <1>1, WordDecoded
<1>3. h = [f \in DOMAIN h |-> h[f]]
  BY DEF PacketHeader
<1> QED
  BY <1>2, <1>3 DEF DecodePacketHeader, StoredPacketHeader

\* The magic number as it was found tells the writer's byte order.
LEMMA OrderFound ==
    ASSUME NEW c \in Captures,
           StoredGlobalHeader(c.order, c.header).magic_number \in {PCAP_MAGIC_NATIVE, PCAP_MAGIC_SWAPPED}
    PROVE  NeedsByteSwap(StoredGlobalHeader(c.order, c.header)) <=> c.order = "swapped"
<1>1. /\ c.order \in Orders /\ c.header \in GlobalHeader
      /\ c.header.magic_number \in Word /\ c.header.magic_number # PCAP_MAGIC_SWAPPED
  BY CapturesAssumption DEF GlobalHeader
<1>2. StoredGlobalHeader(c.order, c.header).magic_number = Stored(c.order, c.header.magic_number)
  BY <1>1 DEF StoredGlobalHeader, GlobalHeader
<1>3. PCAP_MAGIC_NATIVE # PCAP_MAGIC_SWAPPED
  BY DEF PCAP_MAGIC_NATIVE, PCAP_MAGIC_SWAPPED
<1>4. swapBytes32(PCAP_MAGIC_NATIVE) = PCAP_MAGIC_SWAPPED
  BY DEF PCAP_MAGIC_NATIVE, PCAP_MAGIC_SWAPPED, swapBytes32, swapBytes16
<1>5. CASE c.order = "native"
  BY <1>1, <1>2, <1>5 DEF Stored, NeedsByteSwap
<1>6. CASE c.order = "swapped"
  <2>1. swapBytes32(c.header.magic_number) # PCAP_MAGIC_NATIVE
    BY <1>1, <1>4, SwapWord
  <2> QED
    BY <1>2, <1>6, <2>1 DEF Stored, NeedsByteSwap
<1> QED
  BY <1>1, <1>5, <1>6 DEF Orders

\* An accepted length is below 2^16: its low half is all of it.
LEMMA AcceptedLength ==
    ASSUME NEW w \in Word, ~Exceeds(w, WordOf(65535))
    PROVE  WordOf(w.lo) = w
<1>1. /\ w.hi \in Int /\ 0 <= w.hi /\ w.lo \in Int /\ 0 <= w.lo /\ w.lo <= 65535
      /\ w = [hi |-> w.hi, lo |-> w.lo]
  BY DEF Word, Half
<1>2. WordOf(65535).hi = 0
  BY DEF WordOf
<1>3. w.hi = 0
  BY <1>1, <1>2 DEF Exceeds
<1>4. w.lo \div 65536 = 0 /\ w.lo % 65536 = w.lo
  BY <1>1
<1> QED
  BY <1>1, <1>3, <1>4 DEF WordOf

\* Opening a capture decodes its header.
LEMMA OpenDecodes ==
    ASSUME NEW frames, ReaderInv(frames), NEW c \in Captures, open(c) \/ openFails(c)
    PROVE  ReaderInv(frames)'
<1>1. ReaderTypeOK(frames)'
  BY OpenType DEF ReaderInv
<1>2. CASE open(c)
  <2> DEFINE found == StoredGlobalHeader(c.order, c.header)
  <2>1. /\ c.order \in Orders /\ c.header \in GlobalHeader /\ c.header.snaplen \in Word
    BY CapturesAssumption DEF GlobalHeader
  <2>2. /\ needs_byte_swap' = NeedsByteSwap(found) /\ global_header' = DecodeGlobalHeader(found)
        /\ disk' = [order |-> c.order, header |-> c.header, record |-> NoPacketHeader,
                     at |-> "record"]
        /\ found.magic_number \in {PCAP_MAGIC_NATIVE, PCAP_MAGIC_SWAPPED}
    BY <1>2 DEF open
  <2>3. NeedsByteSwap(found) <=> c.order = "swapped"
    BY <2>2, OrderFound
  <2>4. found.snaplen = Stored(c.order, c.header.snaplen) /\ found \in GlobalHeader
    BY <2>1, HeaderTypes DEF StoredGlobalHeader, GlobalHeader
  <2>5. NeedsByteSwap(found) \in BOOLEAN
    BY DEF NeedsByteSwap
  <2>6. DecodeGlobalHeader(found).snaplen = maybeSwap32(NeedsByteSwap(found), found.snaplen)
    BY <2>4 DEF DecodeGlobalHeader, GlobalHeader
  <2>7. DecodeGlobalHeader(found).snaplen = c.header.snaplen
    BY <2>1, <2>3, <2>4, <2>5, <2>6, WordDecoded
  <2> HIDE DEF found
  <2>8. OrderKnown'
    BY <2>2, <2>3 DEF OrderKnown
  <2>9. DecodedAsWritten'
    BY <2>2, <2>7 DEF DecodedAsWritten
  <2> QED
    BY <1>1, <2>8, <2>9 DEF ReaderInv
<1>3. CASE openFails(c)
  BY <1>1, <1>3 DEF openFails, ReaderInv, OrderKnown, DecodedAsWritten
<1> QED
  BY <1>2, <1>3

\* Reading a record decodes it; what is read inside of a record counts as none.
LEMMA ReadDecodes ==
    ASSUME NEW frames, ReaderInv(frames), NEW r, r.header \in PacketHeader, r.frame \in frames,
           readNextPacket(r)
    PROVE  ReaderInv(frames)'
<1>1. ReaderTypeOK(frames)'
  BY ReadType DEF ReaderInv
<1>2. /\ packet' = [header |-> HeaderRead(r),
                    data |-> [size |-> HeaderRead(r).incl_len.lo, frame |-> r.frame]]
      /\ LengthAccepted(global_header, HeaderRead(r))
      /\ disk' = [disk EXCEPT !.record = Meant(r)]
      /\ UNCHANGED <<file_open, needs_byte_swap, global_header>>
      /\ file_open
  BY DEF readNextPacket, CanRead
<1>3. /\ disk'.record = Meant(r) /\ disk'.header = disk.header
      /\ disk'.order = disk.order /\ disk'.at = disk.at
  BY <1>2 DEF ReaderInv, ReaderTypeOK
<1>4. OrderKnown'
  BY <1>2, <1>3 DEF ReaderInv, OrderKnown
<1>5. global_header.snaplen = disk.header.snaplen
  BY <1>2 DEF ReaderInv, DecodedAsWritten
<1>6. CASE disk.at = "record"
  <2>1. disk.order \in Orders /\ needs_byte_swap \in BOOLEAN /\ (needs_byte_swap <=> disk.order = "swapped")
    BY <1>2 DEF ReaderInv, OrderKnown, ReaderTypeOK
  <2>2. HeaderRead(r) = r.header /\ Meant(r) = r.header
    BY <1>6, <2>1, PacketHeaderDecoded DEF HeaderRead, Found, Meant
  <2>3. r.header.incl_len \in Word
    BY DEF PacketHeader
  <2>4. WordOf(r.header.incl_len.lo) = r.header.incl_len
    BY <1>2, <2>2, <2>3, AcceptedLength DEF LengthAccepted
  <2>5. DecodedAsWritten'
    BY <1>2, <1>3, <1>5, <1>6, <2>2, <2>4 DEF DecodedAsWritten
  <2> QED
    BY <1>1, <1>4, <2>5 DEF ReaderInv
<1>7. CASE disk.at # "record"
  <2>1. Meant(r) = NoPacketHeader
    BY <1>7 DEF Meant
  <2>2. DecodedAsWritten'
    BY <1>2, <1>3, <1>5, <2>1 DEF DecodedAsWritten
  <2> QED
    BY <1>1, <1>4, <2>2 DEF ReaderInv
<1> QED
  BY <1>6, <1>7

\* A read that fails delivers nothing, and what was known of the file stays known.
LEMMA FailsDecodes ==
    ASSUME NEW frames, ReaderInv(frames),
           \A r \in Records : r.header \in PacketHeader /\ r.frame \in frames,
           readFails
    PROVE  ReaderInv(frames)'
<1>1. ReaderTypeOK(frames)'
  BY FailsType DEF ReaderInv
<1>2. CASE nothingToRead
  BY <1>1, <1>2 DEF nothingToRead, readerVars, ReaderInv, OrderKnown, DecodedAsWritten
<1>3. CASE ~nothingToRead
  <2>1. /\ Stands("inside") \/ Stands("failed")
        /\ UNCHANGED <<file_open, needs_byte_swap, global_header>>
    BY <1>3 DEF readFails, lengthRefused, dataCutShort, headerCutShort, fileEnds
  <2>2. /\ disk'.record = NoPacketHeader /\ disk'.header = disk.header
        /\ disk'.order = disk.order
    BY <2>1 DEF Stands, ReaderInv, ReaderTypeOK
  <2>3. OrderKnown' /\ DecodedAsWritten'
    BY <2>1, <2>2 DEF ReaderInv, OrderKnown, DecodedAsWritten
  <2> QED
    BY <1>1, <2>3 DEF ReaderInv
<1> QED
  BY <1>2, <1>3

\* Every step of a reader keeps the invariant.
LEMMA ReaderStep ==
    ASSUME NEW frames, \A r \in Records : r.header \in PacketHeader /\ r.frame \in frames,
           ReaderInv(frames), [ReaderNext]_readerVars
    PROVE  ReaderInv(frames)'
<1>1. ASSUME NEW c \in Captures, open(c) \/ openFails(c) PROVE ReaderInv(frames)'
  BY <1>1, OpenDecodes
<1>2. CASE close
  BY <1>2, CloseType DEF ReaderInv, close, OrderKnown, DecodedAsWritten
<1>3. ASSUME NEW r \in Records, readNextPacket(r) PROVE ReaderInv(frames)'
  BY <1>3, ReadDecodes
<1>4. CASE readFails
  BY <1>4, FailsDecodes
<1>5. CASE UNCHANGED readerVars
  BY <1>5 DEF readerVars, ReaderInv, ReaderTypeOK, OrderKnown, DecodedAsWritten
<1> QED
  BY <1>1, <1>2, <1>3, <1>4, <1>5 DEF ReaderNext

\* A reader used in any order, on captures of either byte order one after another, on
\* whole records and on cut ones, before and after a length that it refuses: every
\* record it delivers while it stands where records begin has the length, the header
\* and as many bytes as its writer meant (sentry_pcap_reader: the swapping of open and
\* readNextPacket).  Of what it delivers from inside of a record, where the early return
\* of lines 79-83 leaves it, nothing is claimed.
THEOREM ReaderDecodes ==
    ASSUME NEW frames, NEW anyFrame \in frames,
           \A r \in Records : r.header \in PacketHeader /\ r.frame \in frames
    PROVE  ReaderSpec(anyFrame) => []DecodedAsWritten
<1>1. ReaderInit(anyFrame) => ReaderInv(frames)
  BY ReaderInitType DEF ReaderInit, ReaderInv, OrderKnown, DecodedAsWritten
<1>2. ReaderInv(frames) /\ [ReaderNext]_readerVars => ReaderInv(frames)'
  BY ReaderStep
<1>3. ReaderInv(frames) => DecodedAsWritten
  BY DEF ReaderInv
<1> QED
  BY <1>1, <1>2, <1>3, PTL DEF ReaderSpec
=============================================================================
