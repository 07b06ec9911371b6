------------------------ MODULE SequentialDownload ------------------------
(***************************************************************************)
(* What the scheduler promises for one relay: each query walks through the *)
(* time windows one after the other, skipping none, and asks for a window  *)
(* only when it has elapsed and one more window has passed since.          *)
(* Window w is the interval from w to w + 1.                               *)
(***************************************************************************)
EXTENDS Naturals

CONSTANT Queries

VARIABLES now,  \* the current time, in windows
          next  \* per query, the first window not downloaded yet

vars == <<now, next>>

Init == /\ now \in Nat
        /\ next = [q \in Queries |-> 0]

TimePasses == /\ now' = now + 1
              /\ UNCHANGED next

Download(q) == /\ next[q] + 1 <= now - 1
               /\ next' = [next EXCEPT ![q] = @ + 1]
               /\ UNCHANGED now

Next == TimePasses \/ \E q \in Queries : Download(q)

Spec == Init /\ [][Next]_vars
=============================================================================
