----------------------------- MODULE MachineWords -----------------------------
(***************************************************************************)
(* The unsigned integers of the program and the byte orders it meets.      *)
(* A 32-bit word is a pair of 16-bit halves, so that no value leaves the   *)
(* range of TLC's integers and every operation keeps its width.            *)
(***************************************************************************)
EXTENDS Integers, Sequences

CONSTANT LittleEndian      \* what PortableNet::isLittleEndian() answers on this host

ASSUME HostOrderAssumption == LittleEndian \in BOOLEAN

Byte == {n \in Nat : n < 256}
Half == {n \in Nat : n < 65536}
Word == [hi : Half, lo : Half]

WordOf(n) == [hi |-> n \div 65536, lo |-> n % 65536]

\* a > b on two words
Exceeds(a, b) == \/ a.hi > b.hi
                 \/ a.hi = b.hi /\ a.lo > b.lo

swapBytes16(h) == (h % 256) * 256 + h \div 256
swapBytes32(w) == [hi |-> swapBytes16(w.lo), lo |-> swapBytes16(w.hi)]

\* Reading two or four bytes of a buffer into an integer of the host: a cast of
\* the pointer, or memcpy.
LoadHalf(b) == IF LittleEndian THEN b[1] + 256 * b[2] ELSE 256 * b[1] + b[2]
\* memcpy followed by a conversion to the order of the network.
LoadWord_Converted(b) == [lo |-> 256 * b[3] + b[4], hi |-> 256 * b[1] + b[2]]

LoadWord(b) == IF LittleEndian
               THEN [lo |-> LoadHalf(<<b[1], b[2]>>), hi |-> LoadHalf(<<b[3], b[4]>>)]
               ELSE [hi |-> LoadHalf(<<b[1], b[2]>>), lo |-> LoadHalf(<<b[3], b[4]>>)]

netToHost16(h) == IF LittleEndian THEN swapBytes16(h) ELSE h

-----------------------------------------------------------------------------
(* Addresses as text.  A dotted text is the sequence of its groups, each    *)
(* the number its digits spell; parseIP skips every other character.        *)

IsDottedText(text) == \E n \in 1 .. 4 : text \in [1 .. n -> Byte]

Group(text, i) == IF i \in DOMAIN text THEN text[i] ELSE 0

parseIP(text) == [lo |-> Group(text, 1) + 256 * Group(text, 2),
                  hi |-> Group(text, 3) + 256 * Group(text, 4)]

ipToString(w) == <<w.lo % 256, w.lo \div 256, w.hi % 256, w.hi \div 256>>
=============================================================================
