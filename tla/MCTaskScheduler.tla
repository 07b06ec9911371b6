-------------------------- MODULE MCTaskScheduler --------------------------
(* TaskScheduler with small sets for TLC. *)
EXTENDS TaskScheduler, TLC

\* Task objects are interchangeable: for the run that looks for a violation, by
\* symmetry.
TaskSymmetry == Permutations(Tasks)

\* For the run with liveness, where TLC cannot use symmetry, a new task takes the
\* first identity that is free.
NumberedTasks == 1 .. 3
FirstFreeTask ==
  \A t, u \in Tasks :
    u < t /\ task[t] = None /\ task'[t] # None => task[u] # None
=============================================================================
