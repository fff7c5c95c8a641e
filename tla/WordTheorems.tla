----------------------------- MODULE WordTheorems -----------------------------
(***************************************************************************)
(* What the conversions of MachineWords do, on either kind of host.        *)
(***************************************************************************)
EXTENDS MachineWords, TLAPS

\* Small integers are bytes.
LEMMA IntoByte == ASSUME NEW n \in Int, 0 <= n, n <= 255 PROVE n \in Byte
BY DEF Byte

\* Integers below 2^16 are 16-bit values.
LEMMA IntoHalf == ASSUME NEW n \in Int, 0 <= n, n <= 65535 PROVE n \in Half
BY DEF Half

\* A 16-bit value is its two bytes.
LEMMA Split ==
    ASSUME NEW h \in Half
    PROVE  h \div 256 \in Byte /\ h % 256 \in Byte /\ h = 256 * (h \div 256) + (h % 256)
<1>1. h \in Int /\ 0 <= h /\ h <= 65535
  BY DEF Half
<1>2. h \div 256 \in Int /\ 0 <= h \div 256 /\ h \div 256 <= 255
  BY <1>1
<1>3. h % 256 \in Int /\ 0 <= h % 256 /\ h % 256 <= 255
  BY <1>1
<1>4. h = 256 * (h \div 256) + (h % 256)
  BY <1>1
<1> QED
  BY <1>2, <1>3, <1>4, IntoByte

\* Two bytes make a 16-bit value that has them as its bytes.
LEMMA Join ==
    ASSUME NEW q \in Byte, NEW r \in Byte
    PROVE  /\ 256 * q + r \in Half
           /\ (256 * q + r) % 256 = r
           /\ (256 * q + r) \div 256 = q
           /\ 256 * q + r = r + 256 * q
           /\ 256 * q + r = q * 256 + r
<1>1. q \in Int /\ 0 <= q /\ q <= 255 /\ r \in Int /\ 0 <= r /\ r <= 255
  BY DEF Byte
<1>2. 256 * q + r \in Int /\ 0 <= 256 * q + r /\ 256 * q + r <= 65535
  BY <1>1
<1>3. 256 * q + r \in Half
  BY <1>2, IntoHalf
<1>4. (256 * q + r) % 256 = r /\ (256 * q + r) \div 256 = q
  BY <1>1
<1>5. 256 * q + r = r + 256 * q /\ 256 * q + r = q * 256 + r
  BY <1>1
<1> QED
  BY <1>3, <1>4, <1>5

\* A swap stays a 16-bit value, and swapping twice gives the value back.
LEMMA SwapHalf ==
    ASSUME NEW h \in Half
    PROVE  swapBytes16(h) \in Half /\ swapBytes16(swapBytes16(h)) = h
<1> DEFINE q == h \div 256
           r == h % 256
<1>1. q \in Byte /\ r \in Byte /\ h = 256 * q + r
  BY Split
<1>2. swapBytes16(h) = r * 256 + q
  BY DEF swapBytes16
<1>. HIDE DEF q, r
<1>3. swapBytes16(h) = 256 * r + q
  BY <1>1, <1>2, Join
<1>4. /\ swapBytes16(h) \in Half
      /\ swapBytes16(h) % 256 = q
      /\ swapBytes16(h) \div 256 = r
  BY <1>1, <1>3, Join
<1>5. swapBytes16(swapBytes16(h)) = q * 256 + r
  BY <1>4 DEF swapBytes16
<1>6. swapBytes16(swapBytes16(h)) = h
  BY <1>1, <1>5, Join
<1> QED
  BY <1>4, <1>6

\* The same of 32-bit words: what was written in the other byte order is read
\* back by maybeSwap32 (sentry_pcap_reader).
THEOREM SwapWord ==
    ASSUME NEW w \in Word
    PROVE  swapBytes32(w) \in Word /\ swapBytes32(swapBytes32(w)) = w
<1>1. w.hi \in Half /\ w.lo \in Half /\ w = [hi |-> w.hi, lo |-> w.lo]
  BY DEF Word
<1>2. /\ swapBytes16(w.hi) \in Half /\ swapBytes16(swapBytes16(w.hi)) = w.hi
      /\ swapBytes16(w.lo) \in Half /\ swapBytes16(swapBytes16(w.lo)) = w.lo
  BY <1>1, SwapHalf
<1> QED
  BY <1>1, <1>2 DEF Word, swapBytes32

\* The value of two bytes depends on the order of the host.
LEMMA LoadedHalf ==
    ASSUME NEW a \in Byte, NEW b \in Byte
    PROVE  /\ LoadHalf(<<a, b>>) \in Half
           /\ LoadHalf(<<a, b>>) = IF LittleEndian THEN 256 * b + a ELSE 256 * a + b
<1>1. LoadHalf(<<a, b>>) = IF LittleEndian THEN a + 256 * b ELSE 256 * a + b
  BY DEF LoadHalf
<1>2. LoadHalf(<<a, b>>) = IF LittleEndian THEN 256 * b + a ELSE 256 * a + b
  BY <1>1, Join
<1> QED
  BY <1>2, Join

\* ntohs of two bytes read from a packet is their big-endian value, on a host of
\* either byte order (LayerParser's ports and EtherType).
THEOREM NetworkHalf ==
    ASSUME NEW a \in Byte, NEW b \in Byte
    PROVE  netToHost16(LoadHalf(<<a, b>>)) = 256 * a + b
<1>1. CASE LittleEndian
  <2>1. LoadHalf(<<a, b>>) = 256 * b + a
    BY <1>1, LoadedHalf
  <2>2. netToHost16(LoadHalf(<<a, b>>)) = a * 256 + b
    BY <1>1, <2>1, Join DEF netToHost16, swapBytes16
  <2> QED
    BY <2>2, Join
<1>2. CASE ~LittleEndian
  BY <1>2, LoadedHalf DEF netToHost16
<1> QED
  BY <1>1, <1>2

\* No two pairs of bytes are read as the same half, in either byte order.
LEMMA HalvesApart ==
    ASSUME NEW a \in Byte, NEW b \in Byte, NEW c \in Byte, NEW d \in Byte
    PROVE  /\ 256 * a + b = 256 * c + d => a = c /\ b = d
           /\ LoadHalf(<<a, b>>) = LoadHalf(<<c, d>>) => a = c /\ b = d
<1>1. \A q, r, s, t \in Byte : 256 * q + r = 256 * s + t => q = s /\ r = t
  BY Join
<1> QED
  BY <1>1, LoadedHalf

\* Four bytes make a 32-bit word.
LEMMA LoadedWordType ==
    ASSUME NEW a \in Byte, NEW b \in Byte, NEW c \in Byte, NEW d \in Byte
    PROVE  LoadWord(<<a, b, c, d>>) \in Word
<1>1. LoadHalf(<<a, b>>) \in Half /\ LoadHalf(<<c, d>>) \in Half
  BY LoadedHalf
<1> QED
  BY <1>1 DEF LoadWord, Word

\* The groups of a printed address are bytes.
LEMMA TextType ==
    ASSUME NEW w \in Word
    PROVE  /\ w.lo % 256 \in Byte /\ w.lo \div 256 \in Byte
           /\ w.hi % 256 \in Byte /\ w.hi \div 256 \in Byte
<1>1. w.hi \in Half /\ w.lo \in Half
  BY DEF Word
<1> QED
  BY <1>1, Split

\* A dotted text of up to four groups is read as a word.
LEMMA ParsedIpType ==
    ASSUME NEW text, IsDottedText(text)
    PROVE  parseIP(text) \in Word
<1>1. PICK n \in 1 .. 4 : text \in [1 .. n -> Byte]
  BY DEF IsDottedText
<1>2. \A i : Group(text, i) \in Byte
  <2> TAKE i
  <2>1. CASE i \in DOMAIN text
    BY <1>1, <2>1 DEF Group
  <2>2. CASE i \notin DOMAIN text
    BY <2>2, IntoByte DEF Group
  <2> QED
    BY <2>1, <2>2
<1>3. /\ Group(text, 1) + 256 * Group(text, 2) \in Half
      /\ Group(text, 3) + 256 * Group(text, 4) \in Half
  <2> DEFINE g(i) == Group(text, i)
  <2>1. g(1) \in Byte /\ g(2) \in Byte /\ g(3) \in Byte /\ g(4) \in Byte
    BY <1>2
  <2>. HIDE DEF g
  <2>2. g(1) + 256 * g(2) \in Half /\ g(3) + 256 * g(4) \in Half
    BY <2>1, Join
  <2> QED
    BY <2>2 DEF g
<1> QED
  BY <1>3 DEF parseIP, Word

\* parseIP of a complete address.
LEMMA FourGroups ==
    ASSUME NEW a \in Byte, NEW b \in Byte, NEW c \in Byte, NEW d \in Byte
    PROVE  parseIP(<<a, b, c, d>>) = [lo |-> a + 256 * b, hi |-> c + 256 * d]
BY DEF parseIP, Group

\* An address printed by the parser and read back by the engine is the same word.
THEOREM TextRoundTrip ==
    ASSUME NEW w \in Word
    PROVE  parseIP(ipToString(w)) = w
<1>1. w.hi \in Half /\ w.lo \in Half /\ w = [hi |-> w.hi, lo |-> w.lo]
  BY DEF Word
<1>2. parseIP(ipToString(w)) =
        [lo |-> (w.lo % 256) + 256 * (w.lo \div 256), hi |-> (w.hi % 256) + 256 * (w.hi \div 256)]
  BY TextType, FourGroups DEF ipToString
<1>3. \A h \in Half : (h % 256) + 256 * (h \div 256) = h
  <2> TAKE h \in Half
  <2> DEFINE q == h \div 256
             r == h % 256
  <2>1. q \in Byte /\ r \in Byte /\ h = 256 * q + r
    BY Split
  <2>. HIDE DEF q, r
  <2>2. r + 256 * q = h
    BY <2>1, Join
  <2> QED
    BY <2>2 DEF q, r
<1> QED
  BY <1>1, <1>2, <1>3

\* No two addresses on the wire are loaded as the same word.
LEMMA WordsApart ==
    ASSUME NEW a \in Byte, NEW b \in Byte, NEW c \in Byte, NEW d \in Byte,
           NEW p \in Byte, NEW q \in Byte, NEW r \in Byte, NEW s \in Byte,
           LoadWord(<<a, b, c, d>>) = LoadWord(<<p, q, r, s>>)
    PROVE  a = p /\ b = q /\ c = r /\ d = s
<1>1. LoadHalf(<<a, b>>) = LoadHalf(<<p, q>>) /\ LoadHalf(<<c, d>>) = LoadHalf(<<r, s>>)
  BY DEF LoadWord
<1> QED
  BY <1>1, HalvesApart
=============================================================================
