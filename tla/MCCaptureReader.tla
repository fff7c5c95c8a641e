--------------------------- MODULE MCCaptureReader ---------------------------
(***************************************************************************)
(* The reader on its own: captures of both byte orders, opened one after   *)
(* another with the same object, with records at the limits of its checks,  *)
(* and reads that go on after one that failed.                             *)
(***************************************************************************)
EXTENDS CaptureReader

CaptureOf(order, magic, snaplen, complete) ==
    [order |-> order, header |-> [magic_number |-> magic, snaplen |-> WordOf(snaplen)],
     complete |-> complete]

OtherMagic == [hi |-> 41394, lo |-> 15437]        \* 0xa1b23c4d, nanosecond captures

MCCaptures ==
    {CaptureOf(order, PCAP_MAGIC_NATIVE, snaplen, TRUE) : order \in Orders, snaplen \in {0, 96, 65535, 262144}}
        \cup {CaptureOf(order, OtherMagic, 96, TRUE) : order \in Orders}
        \cup {CaptureOf("swapped", PCAP_MAGIC_NATIVE, 96, FALSE)}

RecordOf(incl, orig, extent) ==
    [header |-> [ts_sec |-> WordOf(1700000000), incl_len |-> WordOf(incl), orig_len |-> WordOf(orig)],
     frame |-> "bytes", extent |-> extent]

MCRecords ==
    {RecordOf(incl, incl, "whole") : incl \in {0, 60, 96, 97, 65535, 65536, 70000, 262144}}
        \cup {RecordOf(96, 1500, "whole"), RecordOf(60, 60, "header"), RecordOf(262144, 262144, "header"), RecordOf(60, 60, "nothing")}

Init == ReaderInit("nothing")
Spec == Init /\ [][ReaderNext]_readerVars
=============================================================================
