----------------------------- MODULE CutCaptures -----------------------------
(***************************************************************************)
(* What a capture that keeps only the beginning of a payload does to the   *)
(* extractors' answers.  That is a statement about two calls of the same   *)
(* extractor: one with what was captured, which is PayloadInspectors'      *)
(* state, and one with the whole payload.  The calls run side by side, a   *)
(* step of each at a time.                                                 *)
(***************************************************************************)
EXTENDS PayloadInspectors, SequencesExt

VARIABLES
    whole,          \* the payload before it was cut
    whole_pc, whole_offset, whole_extensions_end, whole_domain, whole_answer, whole_touched

wholeVars == <<whole, whole_pc, whole_offset, whole_extensions_end, whole_domain,
               whole_answer, whole_touched>>

Whole == INSTANCE PayloadInspectors WITH
    payload        <- whole,
    pc             <- whole_pc,
    offset         <- whole_offset,
    extensions_end <- whole_extensions_end,
    domain         <- whole_domain,
    answer         <- whole_answer,
    touched        <- whole_touched

CutInit == Init /\ Whole!Init /\ IsPrefix(payload, whole)

CutNext == Next /\ Whole!Next

CutSpec == CutInit /\ [][CutNext]_<<vars, wholeVars>>

\* A cut hides, and does not mislead: a name read from a part of the payload is where
\* the name in the whole begins.  In a ClientHello, whose names carry their length, it
\* is the whole name.
CutHidesOnly ==
    pc = "done" /\ whole_pc = "done" =>
        \A part \in answer : \E name \in whole_answer :
            /\ IsPrefix(part, name)
            /\ inspector = "tls" => part = name
=============================================================================
