------------------------------ MODULE FlowFilter ------------------------------
(***************************************************************************)
(* What the engine promises, whatever the rules and the protocols: a       *)
(* filter by flow.  Of the packets that arrive, each either passes, in its *)
(* turn and as it came, or its flow is cut; of a flow that was cut nothing *)
(* passes any more.                                                        *)
(***************************************************************************)
EXTENDS Sequences

CONSTANTS Packets, FlowOf(_)

VARIABLES
    arrived,    \* the packets offered to the filter
    passed,     \* those it let through
    cut         \* the flows it blocks

filterVars == <<arrived, passed, cut>>

FilterInit == arrived = <<>> /\ passed = <<>> /\ cut = {}

Pass(p) ==
    /\ FlowOf(p) \notin cut
    /\ arrived' = Append(arrived, p)
    /\ passed' = Append(passed, p)
    /\ UNCHANGED cut

Cut(p) ==
    /\ arrived' = Append(arrived, p)
    /\ cut' = cut \cup {FlowOf(p)}
    /\ UNCHANGED passed

FilterNext == \E p \in Packets : Pass(p) \/ Cut(p)

FilterSpec == FilterInit /\ [][FilterNext]_filterVars
=============================================================================
