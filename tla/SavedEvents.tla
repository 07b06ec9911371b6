---------------------------- MODULE SavedEvents ----------------------------
(***************************************************************************)
(* The life of the row of an event and of the messages that name it, which *)
(* is where the pipeline (EventPipeline) and what processing stores        *)
(* (Contacts) meet: both implement it, each with its own half of the       *)
(* handler between Save and Process.                                       *)
(*                                                                         *)
(* A row and a message are made together.  An event is processed because   *)
(* of a message, perhaps after its row has gone.  Its last message goes    *)
(* only when its row is processed or gone, and its row only when it is     *)
(* processed.                                                              *)
(***************************************************************************)

CONSTANT Events

VARIABLES stored,    \* events that have a row
          processed, \* those whose processed_at is set
          queued     \* events that a message names

vars == <<stored, processed, queued>>

Init == stored = {} /\ processed = {} /\ queued = {}

Save(e) == /\ e \notin stored
           /\ stored' = stored \cup {e}
           /\ queued' = queued \cup {e}
           /\ UNCHANGED processed

Process(e) == /\ e \in queued
              /\ processed' = processed \cup ({e} \cap stored)
              /\ queued' \in {queued, queued \ {e}}
              /\ UNCHANGED stored

Settle(e) == /\ e \in queued
             /\ e \notin stored \ processed
             /\ queued' = queued \ {e}
             /\ UNCHANGED <<stored, processed>>

Delete(S) == /\ S \subseteq processed
             /\ stored' = stored \ S
             /\ processed' = processed \ S
             /\ UNCHANGED queued

Next == \/ \E e \in Events : Save(e) \/ Process(e) \/ Settle(e)
        \/ \E S \in SUBSET Events : Delete(S)

Spec == Init /\ [][Next]_vars
=============================================================================
