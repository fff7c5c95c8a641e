--------------------------- MODULE FlowSentryClaims ---------------------------
(***************************************************************************)
(* What the documentation and the comments of the repository say of the    *)
(* engine, where the code does something else.  Each claim is checked by a *)
(* run of its own, in which TLC shows a capture on which it fails.         *)
(***************************************************************************)
EXTENDS FlowSentryEngine

\* README.md:115 "writes a filtered .pcap capture", README.md:171 "Detect
\* endianness and configure byte swapping if needed": the output can be read
\* back whatever the byte order of the input.
FilteredCaptureReadable == pc = "exit" => ReadsBack

\* README.md:315-317, the sample report (77 packets, 76 forwarded, 1 dropped): every
\* packet was either forwarded or dropped.
ForwardedOrDropped == pc = "exit" => total_packets = forwarded + dropped

\* FlowKey::reverse()
reverse(k) == [src_ip |-> k.dst_ip, dst_ip |-> k.src_ip, src_port |-> k.dst_port,
               dst_port |-> k.src_port, protocol |-> k.protocol]

\* sentry_types.h:32 "Create reverse flow key (for matching bidirectional
\* flows)"; README.md:262-269 has the server's SYN-ACK among the packets of the
\* connection, and everything after the match dropped: once one direction is
\* blocked, the packets of the other direction are dropped too.
BothDirectionsBlocked ==
    \A i, j \in 1 .. Len(history) :
        i < j /\ history[i].fate = "dropped" /\ history[j].key = reverse(history[i].key)
            => history[j].fate = "dropped"
=============================================================================
