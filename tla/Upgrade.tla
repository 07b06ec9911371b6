------------------------------ MODULE Upgrade ------------------------------
(***************************************************************************)
(* What the migrations promise to whatever runs after them: each is        *)
(* finished once and for good, in order and only with all it makes in      *)
(* place; what was made is never taken away; the service is up only when   *)
(* all are finished.  Statements that are repeated, failures, crashes and  *)
(* starts that get nowhere leave no trace here.                            *)
(***************************************************************************)
EXTENDS Naturals

CONSTANTS Migrations,  \* numbers, in the order they are to be carried out
          MadeBy       \* the set of objects that each makes

VARIABLES finished, \* migrations
          made,     \* objects
          serving

vars == <<finished, made, serving>>

Init == finished = {} /\ made = {} /\ serving = FALSE

Make(m, object) ==
  /\ m \notin finished
  /\ object \in MadeBy[m]
  /\ made' = made \cup {object}
  /\ UNCHANGED <<finished, serving>>

Finish(m) ==
  /\ m \notin finished
  /\ \A n \in Migrations : n < m => n \in finished
  /\ MadeBy[m] \subseteq made
  /\ finished' = finished \cup {m}
  /\ UNCHANGED <<made, serving>>

Serve ==
  /\ finished = Migrations
  /\ serving' = TRUE
  /\ UNCHANGED <<finished, made>>

Stop ==
  /\ serving' = FALSE
  /\ UNCHANGED <<finished, made>>

Next == \/ \E m \in Migrations : Finish(m) \/ \E object \in MadeBy[m] : Make(m, object)
        \/ Serve \/ Stop

Spec == Init /\ [][Next]_vars
=============================================================================
