------------------------- MODULE MCRelayConnection -------------------------
(* RelayConnection with small sets for TLC. *)
EXTENDS RelayConnection

\* Subscriptions are interchangeable: the next one to be registered is the first
\* that is left.  TLC cannot use symmetry when it checks liveness.
NumberedSubs == 1 .. 2
FirstUnusedSub ==
  \A s, t \in Subs : s < t /\ channel[t] = "unused" /\ channel'[t] = "open"
                       => channel[s] # "unused"
=============================================================================
