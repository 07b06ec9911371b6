--------------------------- MODULE EventDelivery ---------------------------
(***************************************************************************)
(* What the event pipeline promises, without the database, the queue, the  *)
(* handlers or the process they run in: an event that has been accepted    *)
(* stays pending until it has been published externally and, if it is of a *)
(* kind that is forwarded, until the relay has answered for it.  A crash,  *)
(* a redelivery and a retry leave no trace at this level.                  *)
(***************************************************************************)

CONSTANTS Events,    \* the events the relays may offer
          Forwarded  \* those that are sent to relay.nos.social

VARIABLES pending,   \* accepted and not settled yet
          published, \* published externally at least once
          answered   \* accepted by the relay, or refused for good

vars == <<pending, published, answered>>

Init == /\ pending = {}
        /\ published = {}
        /\ answered = {}

\* An event is taken over from a relay; a settled event may be taken over again.
Accept(e) == /\ e \notin pending
             /\ pending' = pending \cup {e}
             /\ UNCHANGED <<published, answered>>

Publish(e) == /\ e \in pending
              /\ published' = published \cup {e}
              /\ UNCHANGED <<pending, answered>>

\* The relay is only asked once the event has been published.
Answer(e) == /\ e \in pending \cap published \cap Forwarded
             /\ answered' = answered \cup {e}
             /\ UNCHANGED <<pending, published>>

Settle(e) == /\ e \in pending \cap published
             /\ e \in Forwarded => e \in answered
             /\ pending' = pending \ {e}
             /\ UNCHANGED <<published, answered>>

Next == \E e \in Events : Accept(e) \/ Publish(e) \/ Answer(e) \/ Settle(e)

Spec == Init /\ [][Next]_vars
=============================================================================
