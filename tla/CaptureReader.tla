---------------------------- MODULE CaptureReader ----------------------------
(***************************************************************************)
(* CaptureReader (sentry_pcap_reader): a capture file is opened, its       *)
(* global header tells whether the file was written in this host's byte    *)
(* order, and its records are read one after another until one read fails. *)
(*                                                                         *)
(* The file is the environment's: `disk` holds what the program that wrote *)
(* the capture meant, and where in it the reader stands; Stored is what    *)
(* this host finds on the disk.                                            *)
(***************************************************************************)
EXTENDS MachineWords

CONSTANTS
    Captures,   \* the capture files there may be, each with
                \*   order    "native" or "swapped", the writer's byte order,
                \*   header   its global header, as the writer meant it,
                \*   complete is the header there in full?
    Records     \* the records they may hold, each with its header, its frame, and
                \*   extent   how much of it the file holds

Extents == {"whole", "header", "nothing"}    \* all, no more than its header, not even that

\* Where the next byte comes from: the beginning of a record (or the end of the
\* file), somewhere inside of a record, or nowhere, after a read that came short.
Places == {"record", "inside", "failed"}

Orders == {"native", "swapped"}
GlobalHeader == [magic_number : Word, snaplen : Word]
PacketHeader == [ts_sec : Word, incl_len : Word, orig_len : Word]

VARIABLES
    file_open,          \* file_.is_open()
    needs_byte_swap,
    global_header,
    packet,             \* the caller's SentryRawPacket: header, and data of some size
    disk                \* the file: its order, its header, the record last delivered, and
                        \* the place `at` which file_ stands

readerVars == <<file_open, needs_byte_swap, global_header, packet, disk>>

PCAP_MAGIC_NATIVE  == [hi |-> 41394, lo |-> 50132]     \* 0xa1b2c3d4
PCAP_MAGIC_SWAPPED == [hi |-> 54467, lo |-> 45729]     \* 0xd4c3b2a1

\* A capture has its header in its writer's order, and the writer meant a magic
\* number that no other order turns into the known one.
ASSUME CapturesAssumption ==
    /\ Captures \subseteq [order : Orders, header : GlobalHeader, complete : BOOLEAN]
    /\ \A c \in Captures : c.header.magic_number # PCAP_MAGIC_SWAPPED

ZeroWord == [hi |-> 0, lo |-> 0]
NoGlobalHeader == [magic_number |-> ZeroWord, snaplen |-> ZeroWord]
NoPacketHeader == [ts_sec |-> ZeroWord, incl_len |-> ZeroWord, orig_len |-> ZeroWord]

-----------------------------------------------------------------------------
\* A word as this host finds it in a file of the given order.
Stored(order, w) == IF order = "swapped" THEN swapBytes32(w) ELSE w

StoredGlobalHeader(order, h) == [f \in DOMAIN h |-> Stored(order, h[f])]
StoredPacketHeader(order, h) == [f \in DOMAIN h |-> Stored(order, h[f])]

maybeSwap32(swap, w) == IF swap THEN swapBytes32(w) ELSE w

NeedsByteSwap(h) == h.magic_number = PCAP_MAGIC_SWAPPED

\* open() leaves the magic number as it was found and decodes the rest.
DecodeGlobalHeader(h) == [h EXCEPT !.snaplen = maybeSwap32(NeedsByteSwap(h), @)]

\* readNextPacket that forgets to decode the length.
DecodePacketHeader_RawLength(swap, h) == [h EXCEPT !.ts_sec = maybeSwap32(swap, @)]

DecodePacketHeader(swap, h) == [f \in DOMAIN h |-> maybeSwap32(swap, h[f])]

LengthAccepted(gh, ph) == /\ ~Exceeds(ph.incl_len, gh.snaplen)
                          /\ ~Exceeds(ph.incl_len, WordOf(65535))

-----------------------------------------------------------------------------
ReaderInit(anyFrame) ==
    /\ file_open = FALSE
    /\ needs_byte_swap = FALSE
    /\ global_header = NoGlobalHeader
    /\ packet = [header |-> NoPacketHeader, data |-> [size |-> 0, frame |-> anyFrame]]
    /\ disk = [order |-> "native", header |-> NoGlobalHeader, record |-> NoPacketHeader,
               at |-> "failed"]

\* open() of a file with one of the two magic numbers.
open(c) ==
    LET found == StoredGlobalHeader(c.order, c.header)
    IN  /\ c.complete
        /\ found.magic_number \in {PCAP_MAGIC_NATIVE, PCAP_MAGIC_SWAPPED}
        /\ file_open' = TRUE
        /\ needs_byte_swap' = NeedsByteSwap(found)
        /\ global_header' = DecodeGlobalHeader(found)
        /\ disk' = [order |-> c.order, header |-> c.header, record |-> NoPacketHeader,
                    at |-> "record"]
        /\ UNCHANGED packet

\* open() of a file that does not exist, whose header is cut short, or whose
\* magic number is another; what was read of the header stays in the object.
openFails(c) ==
    LET found == StoredGlobalHeader(c.order, c.header)
    IN  /\ \/ ~c.complete
           \/ found.magic_number \notin {PCAP_MAGIC_NATIVE, PCAP_MAGIC_SWAPPED}
        /\ file_open' = FALSE
        /\ needs_byte_swap' = FALSE
        /\ global_header' \in (IF c.complete THEN {found} ELSE {global_header, found})
        /\ UNCHANGED <<packet, disk>>

close ==
    /\ file_open' = FALSE
    /\ needs_byte_swap' = FALSE
    /\ UNCHANGED <<global_header, packet, disk>>

\* The header at the place where the reader stands: one that the writer stored, or
\* what the bytes inside of a record happen to read as.
Found(r) == IF disk.at = "record" THEN StoredPacketHeader(disk.order, r.header) ELSE r.header
Meant(r) == IF disk.at = "record" THEN r.header ELSE NoPacketHeader

HeaderRead(r) == DecodePacketHeader(needs_byte_swap, Found(r))

CanRead == file_open /\ disk.at # "failed"

Stands(place) == disk' = [disk EXCEPT !.record = NoPacketHeader, !.at = place]

\* readNextPacket() that returns true.  From inside of a record the reader does not
\* find back, unless by chance.
readNextPacket(r) ==
    /\ CanRead
    /\ r.extent = "whole"
    /\ LengthAccepted(global_header, HeaderRead(r))
    /\ packet' = [header |-> HeaderRead(r),
                  data |-> [size |-> HeaderRead(r).incl_len.lo, frame |-> r.frame]]
    /\ disk' = [disk EXCEPT !.record = Meant(r)]
    /\ UNCHANGED <<file_open, needs_byte_swap, global_header>>

\* A length that is refused: the data behind it is not read, and not passed over.
lengthRefused(r) ==
    /\ CanRead
    /\ r.extent # "nothing"
    /\ ~LengthAccepted(global_header, HeaderRead(r))
    /\ packet' = [packet EXCEPT !.header = HeaderRead(r)]
    /\ Stands("inside")
    /\ UNCHANGED <<file_open, needs_byte_swap, global_header>>

\* The file ends inside the data of a record.  The caller's data has its new size
\* already; its bytes are the record's as far as they go, and others.
dataCutShort(r) ==
    /\ CanRead
    /\ r.extent = "header"
    /\ LengthAccepted(global_header, HeaderRead(r)) /\ HeaderRead(r).incl_len # ZeroWord
    /\ \E frame \in {r.frame, packet.data.frame} :
          packet' = [header |-> HeaderRead(r),
                     data |-> [size |-> HeaderRead(r).incl_len.lo, frame |-> frame]]
    /\ Stands("failed")
    /\ UNCHANGED <<file_open, needs_byte_swap, global_header>>

\* The file ends inside a header, whose first fields are the caller's then, as found.
headerCutShort(r) ==
    /\ CanRead
    /\ r.extent = "nothing"
    /\ \E fields \in {{}, {"ts_sec"}, {"ts_sec", "incl_len"}} :
          packet' = [packet EXCEPT !.header =
                        [f \in DOMAIN @ |-> IF f \in fields THEN Found(r)[f] ELSE @[f]]]
    /\ Stands("failed")
    /\ UNCHANGED <<file_open, needs_byte_swap, global_header>>

\* The file ends before another header.
fileEnds ==
    /\ CanRead
    /\ Stands("failed")
    /\ UNCHANGED <<file_open, needs_byte_swap, global_header, packet>>

\* No file, or one of which a read came short before.
nothingToRead == ~CanRead /\ UNCHANGED readerVars

\* readNextPacket() that returns false.
readFails ==
    \/ \E r \in Records : lengthRefused(r) \/ dataCutShort(r) \/ headerCutShort(r)
    \/ fileEnds
    \/ nothingToRead

ReaderNext ==
    \/ \E c \in Captures : open(c) \/ openFails(c)
    \/ close
    \/ \E r \in Records : readNextPacket(r)
    \/ readFails

ReaderSpec(anyFrame) == ReaderInit(anyFrame) /\ [][ReaderNext]_readerVars

-----------------------------------------------------------------------------
\* A packet as it was read; no more than 65535 bytes are read of one.
RawPacketOf(frames) == [header : PacketHeader, data : [size : Half, frame : frames]]

ReaderTypeOK(frames) ==
    /\ file_open \in BOOLEAN
    /\ needs_byte_swap \in BOOLEAN
    /\ global_header \in GlobalHeader
    /\ packet \in RawPacketOf(frames)
    /\ disk \in [order : Orders, header : GlobalHeader, record : PacketHeader, at : Places]

\* As long as it stands where a record begins, the reader hands out what the writer of
\* the capture meant, whatever the byte order of the file: the lengths it checks
\* against, the header of the packet, and exactly as many bytes of data as that header
\* announces.  What it may take for a record once a length was refused is none of the
\* writer's, and counts as none.
DecodedAsWritten ==
    file_open =>
        /\ global_header.snaplen = disk.header.snaplen
        /\ disk.record # NoPacketHeader =>
              /\ disk.at = "record"
              /\ packet.header = disk.record
              /\ WordOf(packet.data.size) = disk.record.incl_len
=============================================================================
