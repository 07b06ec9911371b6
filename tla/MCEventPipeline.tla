-------------------------- MODULE MCEventPipeline --------------------------
(* EventPipeline with small sets for TLC. *)
EXTENDS EventPipeline, TLC

CONSTANTS e1, e2

MCEvents == {e1, e2}
MCForwarded == {e1}

\* Uuids are interchangeable; events are not (only e1 is forwarded).
MessageSymmetry == Permutations(Messages)
=============================================================================
