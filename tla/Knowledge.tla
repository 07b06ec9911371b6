----------------------------- MODULE Knowledge -----------------------------
(***************************************************************************)
(* What the service promises to know and to ask for, without rows, ids,    *)
(* messages, caches or the process.  It knows the keys that were           *)
(* registered, one contact list of each author and the relays that events  *)
(* have named; it asks for the registered keys and those their lists       *)
(* follow, as they were known at some moment, or for nothing.              *)
(*                                                                         *)
(* Registered keys and relays are never forgotten, and a list only for     *)
(* another list of its author.  A crash, a redelivery, a retry, the        *)
(* deletion of a row and the reuse of its id leave no trace here.          *)
(***************************************************************************)

CONSTANTS Keys,
          Events,    \* records with an author and a kind
          None,      \* no event
          RelaysOf,  \* the addresses an event names
          FollowsOf  \* the keys an event names

VARIABLES registered, \* keys
          told,       \* keys whose owner was told that they are registered
          list,       \* per key its contact list, or None
          relays,     \* addresses
          asked       \* the authors that are asked for

vars == <<registered, told, list, relays, asked>>

Init == /\ registered = {} /\ told = {}
        /\ list = [k \in Keys |-> None]
        /\ relays = {}
        /\ asked = {}

Register(k) == /\ registered' = registered \cup {k}
               /\ UNCHANGED <<told, list, relays, asked>>

Tell(k) == /\ k \in registered
           /\ told' = told \cup {k}
           /\ UNCHANGED <<registered, list, relays, asked>>

\* The relays an event names, and its contacts if it is a contact list, are
\* learned at once; an older list may be kept instead.
Learn(e) == /\ relays' = relays \cup RelaysOf[e]
            /\ \/ UNCHANGED list
               \/ e.kind = "contacts" /\ list' = [list EXCEPT ![e.author] = e]
            /\ UNCHANGED <<registered, told, asked>>

Followed == UNION {FollowsOf[list[k]] : k \in {m \in registered : list[m] # None}}

Ask == /\ asked' = registered \cup Followed
       /\ UNCHANGED <<registered, told, list, relays>>

AskNothing == /\ asked' = {}
              /\ UNCHANGED <<registered, told, list, relays>>

Next == \/ \E k \in Keys : Register(k) \/ Tell(k)
        \/ \E e \in Events : Learn(e)
        \/ Ask \/ AskNothing

Spec == Init /\ [][Next]_vars
=============================================================================
