------------------------ MODULE TaskSchedulerProofs ------------------------
(***************************************************************************)
(* What TaskScheduler guarantees for any number of queries, windows,       *)
(* subscriptions and tasks.                                                *)
(***************************************************************************)
EXTENDS TaskScheduler, SequenceTheorems, TLAPS

\* A tracker is for the last window its generator has given out, and that window
\* had elapsed.
TrackerIsLast ==
  \A q \in Queries : tracker[q] # None =>
    /\ lastWindow[q] = tracker[q].window + 1
    /\ Elapsed(tracker[q].window)

\* The task a tracker refers to was made for it and is alive or still in hand, and
\* the only live task of a query is the one its tracker refers to.
TrackerKnowsItsTask ==
  /\ \A q \in Queries : tracker[q] # None /\ tracker[q].task # None =>
       /\ tracker[q].task \in InUse
       /\ task[tracker[q].task].query = q
       /\ Live(tracker[q].task) \/ tracker[q].task \in result
  /\ \A t \in InUse : Live(t) =>
       /\ tracker[task[t].query] # None
       /\ tracker[task[t].query].task = t

\* What is taken for downloaded has been.
DoneIsDownloaded ==
  /\ \A t \in InUse : task[t].phase = "eose" => <<task[t].query, task[t].window>> \in downloaded
  /\ \A q \in Queries : tracker[q] # None /\ tracker[q].state = "done" =>
       <<q, tracker[q].window>> \in downloaded

\* The scheduler has in hand the tasks of the queries it has been through in this
\* round, those of the last query among them, and they share the fate of the
\* subscription they are for.
RoundInProgress ==
  /\ pc \in {"check", "start"} => \A t \in result : task[t].query < query
  /\ pc # "idle" /\ subs[pos] \in done => \A t \in result : ~Live(t)
  /\ \A t \in InUse :
       Live(t) /\ task[t].query = NumQueries /\ task[t].phase = "generated" =>
         pc = "push" /\ t \in result

IInv == /\ TypeOK
        /\ TrackerIsLast
        /\ TrackerKnowsItsTask
        /\ DoneIsDownloaded
        /\ RoundInProgress
        /\ NoWindowSkipped

-----------------------------------------------------------------------------

\* Cancel and Detach keep the types, and what Cancel forgets was not in hand.
LEMMA CancelTyping ==
  ASSUME TypeOK, NEW S \in SUBSET Tasks, S \subseteq InUse
  PROVE  /\ Cancel(S) \in [Tasks -> TaskType \cup {None}]
         /\ \A t \in result : Cancel(S)[t] # None /\ Cancel(S)[t].phase = "generated"
<1>1. ASSUME NEW r \in TaskType
      PROVE  /\ [r EXCEPT !.cancelled = TRUE] \in TaskType
             /\ [r EXCEPT !.cancelled = TRUE].phase = r.phase
             /\ r # None
  BY <1>1, NoneAssumption DEF TaskType
<1> QED
  BY <1>1 DEF TypeOK, Cancel, Matters, InUse

LEMMA DetachTyping ==
  ASSUME TypeOK, NEW S
  PROVE  Detach(S) \in [Queries -> TrackerType \cup {None}]
<1>1. ASSUME NEW r \in TrackerType PROVE [r EXCEPT !.task = None] \in TrackerType
  BY <1>1 DEF TrackerType
<1> QED
  BY <1>1 DEF TypeOK, Detach

\* The slice keeps its length and holds nothing but subscriptions.
LEMMA SliceTyping ==
  ASSUME TypeOK
  PROVE  WithoutDone(subs) \in Seq(1 .. subscribed) /\ Len(WithoutDone(subs)) = Len(subs)
<1> DEFINE IsKept(i, j) == /\ subs[j] \notin done
                           /\ i = Cardinality({k \in 1 .. j : subs[k] \notin done})
           kept(i) == CHOOSE j \in DOMAIN subs : IsKept(i, j)
           new == WithoutDone(subs)
<1>1. /\ subs \in [1 .. Len(subs) -> 1 .. subscribed]
      /\ DOMAIN subs = 1 .. Len(subs) /\ Len(subs) \in Nat
  BY LenProperties DEF TypeOK
<1>2. new = [i \in DOMAIN subs |-> IF \E j \in DOMAIN subs : IsKept(i, j)
                                   THEN subs[kept(i)] ELSE subs[i]]
  BY Zenon DEF WithoutDone
<1> HIDE DEF new, IsKept
<1>3. ASSUME NEW i, \E j \in DOMAIN subs : IsKept(i, j) PROVE kept(i) \in DOMAIN subs
  BY <1>3, Zenon
<1> HIDE DEF kept
<1>4. new \in [1 .. Len(subs) -> 1 .. subscribed]
  BY <1>1, <1>2, <1>3
<1>5. new \in Seq(1 .. subscribed)
  BY <1>1, <1>4, SeqDef
<1>6. Len(new) = Len(subs)
  BY <1>1, <1>4, <1>5, LenProperties
<1> QED
  BY <1>5, <1>6 DEF new

LEMMA NextQueryTyping ==
  ASSUME TypeOK, NextQuery
  PROVE  /\ query' \in Queries
         /\ \/ pc' = "check" /\ query' = query + 1
            \/ pc' = "push" /\ query' = query /\ query = NumQueries
BY ConstantsAssumption DEF TypeOK, NextQuery, Queries

\* Every step keeps the types.
LEMMA Typing == TypeOK /\ [Next]_vars => TypeOK'
<1> SUFFICES ASSUME TypeOK, [Next]_vars PROVE TypeOK'
  OBVIOUS
<1> USE ConstantsAssumption, NoneAssumption DEF TypeOK, Queries, Windows, slice, scheduler, InUse
<1>1. CASE TimePasses
  BY <1>1 DEF TimePasses
<1>2. CASE AddSubscription
  <2>1. /\ subscribed' = subscribed + 1
        /\ subs' = Append(subs, subscribed')
        /\ subs \in Seq(1 .. subscribed')
    BY <1>2, SeqMonotonic DEF AddSubscription
  <2>2. subs' \in Seq(1 .. subscribed')
    BY <2>1, AppendProperties
  <2> QED
    BY <1>2, <2>1, <2>2 DEF AddSubscription
<1>3. CASE CancelSubscription
  <2>1. InUse \in SUBSET Tasks /\ InUse \subseteq InUse
    OBVIOUS
  <2>2. Cancel(InUse) \in [Tasks -> TaskType \cup {None}] /\ \A t \in result : Cancel(InUse)[t] # None /\ Cancel(InUse)[t].phase = "generated"
    BY <2>1, CancelTyping
  <2>3. Detach(InUse) \in [Queries -> TrackerType \cup {None}]
    BY DetachTyping
  <2> QED
    BY <1>3, <2>2, <2>3 DEF CancelSubscription
<1>4. CASE StartRound
  <2>1. subs' \in Seq(1 .. subscribed) /\ Len(subs') = Len(subs)
    BY <1>4, SliceTyping DEF StartRound
  <2>2. Len(subs) \in Nat \ {0}
    BY <1>4, EmptySeq DEF StartRound
  <2> QED
    BY <1>4, <2>1, <2>2 DEF StartRound
<1>5. CASE SkipQuery
  BY <1>5, NextQueryTyping DEF SkipQuery
<1>6. CASE CheckTracker
  <2> DEFINE old == tracker[query]
             new == IF Elapsed(lastWindow[query])
                    THEN [window |-> lastWindow[query], state |-> "new", task |-> None]
                    ELSE None
             S   == {old.task} \cap InUse
  <2>1. new \in TrackerType \cup {None}
    BY DEF TrackerType, TrackerStates
  <2>2. tracker' \in [Queries -> TrackerType \cup {None}]
    BY <1>6, <2>1 DEF CheckTracker
  <2>3. new # None => lastWindow[query] + 1 \in Windows
    BY DEF Elapsed
  <2>4. lastWindow' \in [Queries -> Windows]
    BY <1>6, <2>3 DEF CheckTracker
  <2>5. /\ task' = task \/ task' = Cancel(S)
        /\ S \in SUBSET Tasks /\ S \subseteq InUse
    BY <1>6 DEF CheckTracker
  <2>6. /\ task' \in [Tasks -> TaskType \cup {None}]
        /\ \A t \in result : task'[t] # None /\ task'[t].phase = "generated"
    <3> HIDE DEF S
    <3>1. /\ Cancel(S) \in [Tasks -> TaskType \cup {None}]
          /\ \A t \in result : Cancel(S)[t] # None /\ Cancel(S)[t].phase = "generated"
      BY <2>5, CancelTyping
    <3> QED
      BY <2>5, <3>1
  <2> QED
    BY <1>6, <2>2, <2>4, <2>6 DEF CheckTracker
<1>7. ASSUME NEW t \in Tasks, StartTask(t) PROVE TypeOK'
  <2> DEFINE S    == {tracker[query].task} \cap InUse
             made == [query |-> query, window |-> tracker[query].window,
                      phase |-> "generated", cancelled |-> subs[pos] \in done]
  <2>1. made \in TaskType /\ made.phase = "generated"
    BY <1>7 DEF StartTask, TaskType, Phases, TrackerType
  <2>2. /\ task' = [Cancel(S) EXCEPT ![t] = made]
        /\ S \in SUBSET Tasks /\ S \subseteq InUse
    BY <1>7 DEF StartTask
  <2>3. /\ Cancel(S) \in [Tasks -> TaskType \cup {None}]
        /\ \A u \in result : Cancel(S)[u] # None /\ Cancel(S)[u].phase = "generated"
    BY <2>2, CancelTyping
  <2>4. /\ task' \in [Tasks -> TaskType \cup {None}]
        /\ \A u \in result \cup {t} : task'[u] # None /\ task'[u].phase = "generated"
    <3> HIDE DEF made, S
    <3> QED
      BY <2>1, <2>2, <2>3
  <2>5. tracker' \in [Queries -> TrackerType \cup {None}]
    <3>1. ASSUME NEW r \in TrackerType
          PROVE  [r EXCEPT !.state = "started", !.task = t] \in TrackerType
      BY <3>1 DEF TrackerType, TrackerStates
    <3>2. tracker' = [tracker EXCEPT ![query] = [@ EXCEPT !.state = "started", !.task = t]]
      BY <1>7 DEF StartTask
    <3>3. tracker[query] \in TrackerType
      BY <1>7 DEF StartTask
    <3> QED
      BY <3>1, <3>2, <3>3
  <2>6. result' \subseteq Tasks /\ \A u \in result' : task'[u] # None /\ task'[u].phase = "generated"
    BY <1>7, <2>4 DEF StartTask
  <2> QED
    BY <1>7, <2>4, <2>5, <2>6, NextQueryTyping DEF StartTask
<1>8. CASE NothingToStart
  BY <1>8, NextQueryTyping DEF NothingToStart
<1>9. ASSUME AbandonRound, UNCHANGED <<now, slice, lastWindow, pos, query, downloaded>>
      PROVE  TypeOK'
  BY <1>9, DetachTyping DEF AbandonRound
<1>10. CASE RoundFails
  BY <1>9, <1>10 DEF RoundFails
<1>11. ASSUME NEW t \in Tasks, PushTask(t) PROVE TypeOK'
  <2>1. task[t] \in TaskType => [task[t] EXCEPT !.phase = "running"] \in TaskType
    BY DEF TaskType, Phases
  <2> QED
    BY <1>11, <2>1, DetachTyping DEF PushTask
<1>12. CASE PushFails
  BY <1>9, <1>12 DEF PushFails
<1>13. CASE NextSubscription
  BY <1>13 DEF NextSubscription
<1>14. ASSUME NEW t \in Tasks, ReceiveEOSE(t) PROVE TypeOK'
  <2>1. task[t] \in TaskType /\ [task[t] EXCEPT !.phase = "eose"] \in TaskType
    BY <1>14 DEF ReceiveEOSE, TaskType, Phases
  <2>2. <<task[t].query, task[t].window>> \in Queries \X Windows
    BY <2>1 DEF TaskType
  <2> QED
    BY <1>14, <2>1, <2>2 DEF ReceiveEOSE
<1>15. ASSUME NEW t \in Tasks, MarkAsDone(t) PROVE TypeOK'
  <2>1. task[t] \in TaskType => [task[t] EXCEPT !.phase = "streaming"] \in TaskType
    BY DEF TaskType, Phases
  <2>2. tracker' \in [Queries -> TrackerType \cup {None}]
    <3>1. ASSUME NEW r \in TrackerType PROVE [r EXCEPT !.state = "done"] \in TrackerType
      BY <3>1 DEF TrackerType, TrackerStates
    <3>2. HasTracker(t) => task[t].query \in Queries /\ tracker[task[t].query] \in TrackerType
      BY <1>15 DEF MarkAsDone, HasTracker, TaskType
    <3>3. tracker' = IF HasTracker(t) /\ tracker[task[t].query].state = "started"
                     THEN [tracker EXCEPT ![task[t].query] = [@ EXCEPT !.state = "done"]]
                     ELSE tracker
      BY <1>15 DEF MarkAsDone
    <3> QED
      BY <3>1, <3>2, <3>3
  <2> QED
    BY <1>15, <2>1, <2>2 DEF MarkAsDone
<1>16. ASSUME NEW t \in Tasks, TaskFails(t) PROVE TypeOK'
  <2>1. task[t] \in TaskType /\ [task[t] EXCEPT !.phase = "failed"] \in TaskType
    BY <1>16 DEF TaskFails, TaskType, Phases
  <2> QED
    BY <1>16, <2>1 DEF TaskFails
<1>17. ASSUME NEW t \in Tasks, MarkAsFailed(t) PROVE TypeOK'
  <2>1. Detach({t}) \in [Queries -> TrackerType \cup {None}]
    BY DetachTyping
  <2>2. HasTracker(t) => task[t].query \in Queries /\ Detach({t})[task[t].query] \in TrackerType
    <3>1. HasTracker(t) => task[t].query \in Queries /\ tracker[task[t].query] \in TrackerType
      BY <1>17 DEF MarkAsFailed, HasTracker, TaskType
    <3> QED
      BY <3>1 DEF Detach, TrackerType
  <2>3. tracker' \in [Queries -> TrackerType \cup {None}]
    <3>1. ASSUME NEW r \in TrackerType PROVE [r EXCEPT !.state = "error"] \in TrackerType
      BY <3>1 DEF TrackerType, TrackerStates
    <3> DEFINE q == task[t].query
               new == [Detach({t})[q] EXCEPT !.state = "error"]
    <3>2. \/ tracker' = Detach({t})
          \/ HasTracker(t) /\ tracker' = [Detach({t}) EXCEPT ![q] = new]
      BY <1>17 DEF MarkAsFailed
    <3>3. HasTracker(t) => q \in Queries /\ new \in TrackerType
      BY <2>2, <3>1
    <3> HIDE DEF q, new
    <3> QED
      BY <2>1, <3>2, <3>3
  <2> QED
    BY <1>17, <2>3 DEF MarkAsFailed
<1>18. CASE UNCHANGED vars
  BY <1>18 DEF vars
<1> QED
  BY <1>1, <1>2, <1>3, <1>4, <1>5, <1>6, <1>7, <1>8, <1>10, <1>11, <1>12, <1>13, <1>14, <1>15,
     <1>16, <1>17, <1>18 DEF Next, SchedulerNext, TaskNext

\* Types, for any number of queries, windows, subscriptions and tasks.
THEOREM TypeCorrect == Spec => []TypeOK
<1>1. Init => TypeOK
  BY ConstantsAssumption DEF Init, TypeOK, Queries, Windows, InUse
<1> QED
  BY <1>1, Typing, PTL DEF Spec

-----------------------------------------------------------------------------

\* The bookkeeping of contexts: Cancel leaves a task alone, marks it or forgets
\* it, and Detach leaves a tracker alone or takes its task away.
LEMMA CancelFacts ==
  ASSUME TypeOK, NEW S, NEW t \in Tasks
  PROVE  LET new == Cancel(S)[t]
         IN  /\ t \notin S => new = task[t]
             /\ new # None /\ task[t] # None =>
                  /\ new.query = task[t].query /\ new.window = task[t].window
                  /\ new.phase = task[t].phase
                  /\ t \in S => new.cancelled
             /\ task[t] # None /\ task[t].phase \in {"eose", "failed"} => new # None
<1>1. task[t] # None => task[t] \in TaskType
  BY DEF TypeOK
<1>2. ASSUME NEW r \in TaskType
      PROVE  LET new == [r EXCEPT !.cancelled = TRUE]
             IN  /\ new # None /\ new.query = r.query /\ new.window = r.window
                 /\ new.phase = r.phase /\ new.cancelled
  BY NoneAssumption DEF TaskType
<1> QED
  BY <1>1, <1>2 DEF Cancel, Matters

LEMMA DetachFacts ==
  ASSUME TypeOK, NEW S, NEW q \in Queries
  PROVE  LET new == Detach(S)[q]
         IN  /\ new = None <=> tracker[q] = None
             /\ tracker[q] # None => /\ new.window = tracker[q].window
                                     /\ new.state = tracker[q].state
                                     /\ new.task = IF tracker[q].task \in S THEN None
                                                   ELSE tracker[q].task
<1>1. tracker[q] # None => tracker[q] \in TrackerType
  BY DEF TypeOK
<1>2. ASSUME NEW r \in TrackerType
      PROVE  LET new == [r EXCEPT !.task = None]
             IN  new # None /\ new.window = r.window /\ new.state = r.state /\ new.task = None
  BY NoneAssumption DEF TrackerType
<1> QED
  BY <1>1, <1>2 DEF Detach

-----------------------------------------------------------------------------

\* The window a query is at changes only when MarkAsDone ends its tracker.
Advances(q) == \E t \in Tasks : /\ MarkAsDone(t)
                                /\ task[t].query = q
                                /\ HasTracker(t)
                                /\ tracker[q].state = "started"

\* What a step does to a tracker that it does not replace: the window stays, and
\* so does the state unless it is said otherwise.
LEMMA TrackerSteps ==
  ASSUME TypeOK, [Next]_vars, NEW q \in Queries
  PROVE  \/ CheckTracker /\ q = query
         \/ tracker'[q] = None /\ tracker[q] = None /\ lastWindow'[q] = lastWindow[q]
         \/ /\ tracker'[q] # None /\ tracker[q] # None
            /\ tracker'[q].window = tracker[q].window
            /\ lastWindow'[q] = lastWindow[q]
            /\ tracker[q].state = "done" => tracker'[q].state = "done"
            /\ tracker'[q].state = "done" => tracker[q].state = "done" \/ Advances(q)
<1> DEFINE Same == \/ tracker'[q] = None /\ tracker[q] = None /\ lastWindow'[q] = lastWindow[q]
                   \/ /\ tracker'[q] # None /\ tracker[q] # None
                      /\ tracker'[q].window = tracker[q].window
                      /\ lastWindow'[q] = lastWindow[q]
                      /\ tracker[q].state = "done" => tracker'[q].state = "done"
                      /\ tracker'[q].state = "done" => tracker[q].state = "done" \/ Advances(q)
<1>1. ASSUME NEW S, tracker' = Detach(S), UNCHANGED lastWindow PROVE Same
  BY <1>1, DetachFacts
<1>2. ASSUME UNCHANGED <<tracker, lastWindow>> PROVE Same
  BY <1>2
<1>3. CASE CancelSubscription
  BY <1>1, <1>3 DEF CancelSubscription
<1>4. ASSUME CheckTracker, q # query PROVE Same
  BY <1>4 DEF CheckTracker, TypeOK
<1>5. ASSUME NEW t \in Tasks, StartTask(t) PROVE Same
  <2>1. /\ tracker' = [tracker EXCEPT ![query].state = "started", ![query].task = t]
        /\ tracker[query] # None /\ tracker[query].state # "done" /\ lastWindow' = lastWindow
    BY <1>5 DEF StartTask
  <2>2. query \in Queries /\ tracker[query] \in TrackerType /\ tracker \in [Queries -> TrackerType \cup {None}]
    BY <2>1 DEF TypeOK
  <2>3. ASSUME NEW r \in TrackerType
        PROVE  LET new == [r EXCEPT !.state = "started", !.task = t]
               IN  new # None /\ new.window = r.window /\ new.state = "started"
    BY <2>3, <1>5, NoneAssumption DEF TrackerType, TrackerStates
  <2> QED
    BY <2>1, <2>2, <2>3
<1>6. ASSUME AbandonRound, UNCHANGED lastWindow PROVE Same
  BY <1>1, <1>6 DEF AbandonRound
<1>7. ASSUME NEW t \in Tasks, PushTask(t) PROVE Same
  BY <1>1, <1>2, <1>7 DEF PushTask
<1>8. ASSUME NEW t \in Tasks, MarkAsDone(t) PROVE Same
  <2> DEFINE p == task[t].query
  <2>1. CASE ~(HasTracker(t) /\ tracker[p].state = "started")
    BY <1>2, <1>8, <2>1 DEF MarkAsDone
  <2>2. CASE HasTracker(t) /\ tracker[p].state = "started"
    <3>1. /\ p \in Queries /\ tracker[p] \in TrackerType
          /\ tracker \in [Queries -> TrackerType \cup {None}]
      BY <1>8, <2>2 DEF MarkAsDone, HasTracker, InUse, TypeOK, TaskType
    <3> DEFINE new == [tracker[p] EXCEPT !.state = "done"]
    <3>2. tracker' = [tracker EXCEPT ![p] = new] /\ lastWindow' = lastWindow
      BY <1>8, <2>2 DEF MarkAsDone
    <3>3. new # None /\ new.window = tracker[p].window /\ new.state = "done"
      BY <3>1, NoneAssumption DEF TrackerType, TrackerStates
    <3>4. p = q => Advances(q)
      BY <1>8, <2>2 DEF Advances
    <3>5. p = q => tracker[q] # None
      BY <2>2 DEF HasTracker
    <3> HIDE DEF p, new
    <3>6. CASE p = q
      BY <3>1, <3>2, <3>3, <3>4, <3>5, <3>6
    <3>7. CASE p # q
      BY <3>1, <3>2, <3>7
    <3> QED
      BY <3>6, <3>7
  <2> QED
    BY <2>1, <2>2
<1>9. ASSUME NEW t \in Tasks, MarkAsFailed(t) PROVE Same
  <2> DEFINE p == task[t].query
             new == [Detach({t})[p] EXCEPT !.state = "error"]
  <2>1. CASE ~(HasTracker(t) /\ tracker[p].state # "done")
    BY <1>1, <1>9, <2>1 DEF MarkAsFailed
  <2>2. CASE HasTracker(t) /\ tracker[p].state # "done"
    <3>1. tracker' = [Detach({t}) EXCEPT ![p] = new] /\ lastWindow' = lastWindow
      BY <1>9, <2>2 DEF MarkAsFailed
    <3>2. p \in Queries /\ tracker[p] # None
      BY <1>9, <2>2 DEF MarkAsFailed, HasTracker, InUse, TypeOK, TaskType
    <3>3. Detach({t}) \in [Queries -> TrackerType \cup {None}]
      BY DetachTyping
    <3>4. Detach({t})[p] \in TrackerType /\ Detach({t})[p].window = tracker[p].window
      <4> HIDE DEF p
      <4>1. Detach({t})[p] # None /\ Detach({t})[p].window = tracker[p].window
        BY <3>2, DetachFacts
      <4> QED
        BY <3>2, <3>3, <4>1
    <3>5. new # None /\ new.window = tracker[p].window /\ new.state = "error"
      BY <3>4, NoneAssumption DEF TrackerType, TrackerStates
    <3> HIDE DEF new, p
    <3>6. CASE q = p
      BY <2>2, <3>1, <3>2, <3>3, <3>5, <3>6 DEF p
    <3>7. CASE q # p
      BY <3>1, <3>3, <3>7, DetachFacts
    <3> QED
      BY <3>6, <3>7
  <2> QED
    BY <2>1, <2>2
<1> QED
  BY <1>2, <1>3, <1>4, <1>5, <1>6, <1>7, <1>8, <1>9 DEF Next, SchedulerNext, TaskNext, TimePasses,
     AddSubscription, StartRound, SkipQuery, NothingToStart, RoundFails, PushFails,
     NextSubscription, ReceiveEOSE, TaskFails, vars

\* What CheckTracker does to the tracker it looks at.
LEMMA CheckedTracker ==
  ASSUME TypeOK, CheckTracker
  PROVE  \/ /\ tracker[query] # None /\ tracker[query].state # "done"
            /\ tracker'[query] = tracker[query] /\ lastWindow'[query] = lastWindow[query]
            /\ UNCHANGED task
         \/ /\ tracker[query] = None \/ tracker[query].state = "done"
            /\ tracker'[query] = None /\ lastWindow'[query] = lastWindow[query]
         \/ /\ tracker[query] = None \/ tracker[query].state = "done"
            /\ Elapsed(lastWindow[query])
            /\ tracker'[query] = [window |-> lastWindow[query], state |-> "new", task |-> None]
            /\ tracker'[query] # None
            /\ lastWindow'[query] = lastWindow[query] + 1
BY DEF CheckTracker, TypeOK

LEMMA OnlyDoneAdvances ==
  ASSUME TypeOK, TrackerIsLast, [Next]_vars, NEW q \in Queries
  PROVE  \/ NextWindow(q)' = NextWindow(q)
         \/ Advances(q) /\ NextWindow(q)' = NextWindow(q) + 1
<1> USE DEF NextWindow
<1>1. CASE CheckTracker /\ q = query
  BY <1>1, CheckedTracker
<1>2. CASE tracker'[q] = None /\ tracker[q] = None /\ lastWindow'[q] = lastWindow[q]
  BY <1>2
<1>3. CASE /\ tracker'[q] # None /\ tracker[q] # None
           /\ tracker'[q].window = tracker[q].window
           /\ lastWindow'[q] = lastWindow[q]
  <2>1. lastWindow[q] = tracker[q].window + 1
    BY <1>3 DEF TrackerIsLast
  <2> QED
    BY <1>3, <2>1, TrackerSteps, CheckedTracker
<1> QED
  BY <1>1, <1>2, <1>3, TrackerSteps

LEMMA KeepsNoWindowSkipped == IInv /\ [Next]_vars => NoWindowSkipped'
<1> SUFFICES ASSUME IInv, [Next]_vars, NEW q \in Queries, NEW w \in Windows,
                    w < NextWindow(q)'
             PROVE  <<q, w>> \in downloaded'
  BY DEF NoWindowSkipped
<1>1. downloaded \subseteq downloaded'
  BY DEF Next, SchedulerNext, TaskNext, TimePasses, AddSubscription, CancelSubscription,
     StartRound, SkipQuery, CheckTracker, StartTask, NothingToStart, RoundFails, PushTask,
     PushFails, NextSubscription, ReceiveEOSE, MarkAsDone, TaskFails, MarkAsFailed, vars
<1>2. CASE NextWindow(q)' = NextWindow(q)
  BY <1>1, <1>2 DEF IInv, NoWindowSkipped
<1>3. CASE Advances(q) /\ NextWindow(q)' = NextWindow(q) + 1
  <2>1. <<q, NextWindow(q)>> \in downloaded
    BY <1>3 DEF Advances, HasTracker, NextWindow, MarkAsDone, IInv, DoneIsDownloaded
  <2>2. NextWindow(q) \in Nat
    BY <1>3, ConstantsAssumption DEF Advances, HasTracker, NextWindow, IInv, TypeOK, TrackerType, Windows
  <2>3. w < NextWindow(q) \/ w = NextWindow(q)
    BY <1>3, <2>2, ConstantsAssumption DEF Windows
  <2> QED
    BY <1>1, <2>1, <2>3 DEF IInv, NoWindowSkipped
<1> QED
  BY <1>2, <1>3, OnlyDoneAdvances DEF IInv

LEMMA KeepsTrackerIsLast == IInv /\ [Next]_vars => TrackerIsLast'
<1> SUFFICES ASSUME IInv, [Next]_vars, NEW q \in Queries, tracker'[q] # None
             PROVE  lastWindow'[q] = tracker'[q].window + 1 /\ tracker'[q].window + 1 <= now' - 1
  BY DEF TrackerIsLast, Elapsed
<1> USE DEF IInv
<1>1. /\ now \in Nat /\ now' \in Nat /\ now <= now'
      /\ now' = now \/ UNCHANGED tracker
  <2>1. now' = now \/ (now' = now + 1 /\ UNCHANGED tracker)
    BY DEF Next, SchedulerNext, TaskNext, TimePasses, AddSubscription, CancelSubscription,
       StartRound, SkipQuery, CheckTracker, StartTask, NothingToStart, RoundFails, PushTask,
       PushFails, NextSubscription, ReceiveEOSE, MarkAsDone, TaskFails, MarkAsFailed, vars
  <2> QED
    BY <2>1, ConstantsAssumption DEF TypeOK
<1>2. tracker[q] # None => tracker[q].window \in Nat
  BY ConstantsAssumption DEF TypeOK, TrackerType, Windows
<1>3. CASE CheckTracker /\ q = query
  <2>1. now' = now
    BY <1>3 DEF CheckTracker
  <2>2. CASE tracker[q] # None /\ tracker'[q] = tracker[q] /\ lastWindow'[q] = lastWindow[q]
    BY <2>1, <2>2 DEF TrackerIsLast, Elapsed
  <2> DEFINE new == [window |-> lastWindow[q], state |-> "new", task |-> None]
  <2>3. CASE tracker'[q] = new /\ Elapsed(lastWindow[q]) /\ lastWindow'[q] = lastWindow[q] + 1
    BY <2>1, <2>3 DEF Elapsed
  <2> QED
    BY <1>3, <2>2, <2>3, CheckedTracker
<1>4. CASE /\ tracker[q] # None /\ tracker'[q].window = tracker[q].window
           /\ lastWindow'[q] = lastWindow[q]
  BY <1>1, <1>2, <1>4 DEF TrackerIsLast, Elapsed
<1> QED
  BY <1>3, <1>4, TrackerSteps

\* What a step does to a task that outlives it: it stays for the same window, a
\* dead context stays dead, and EOSE is not forgotten.
LEMMA TaskSteps ==
  ASSUME TypeOK, [Next]_vars, NEW t \in Tasks, task'[t] # None
  PROVE  \/ StartTask(t)
         \/ /\ task[t] # None
            /\ task'[t].query = task[t].query /\ task'[t].window = task[t].window
            /\ task[t].cancelled => task'[t].cancelled
            /\ task'[t].phase = "generated" => task[t].phase = "generated"
            /\ task'[t].phase = "eose" => \/ task[t].phase = "eose"
                                          \/ <<task[t].query, task[t].window>> \in downloaded'
<1> DEFINE old == task[t]
           Same == /\ old # None
                   /\ task'[t].query = old.query /\ task'[t].window = old.window
                   /\ old.cancelled => task'[t].cancelled
                   /\ task'[t].phase = "generated" => old.phase = "generated"
                   /\ task'[t].phase = "eose" => \/ old.phase = "eose"
                                                 \/ <<old.query, old.window>> \in downloaded'
<1>0. old # None => old \in TaskType
  BY DEF TypeOK
<1>1. CASE task'[t] = old
  BY <1>1
<1>2. ASSUME NEW S, S \subseteq InUse, task'[t] = Cancel(S)[t] PROVE Same
  <2>1. t \in S => old \in TaskType
    BY <1>0, <1>2 DEF InUse
  <2>2. CASE t \notin S
    BY <1>1, <1>2, <2>2, CancelFacts
  <2>3. CASE t \in S
    BY <1>2, <2>1, <2>3, NoneAssumption DEF Cancel, TaskType
  <2> QED
    BY <2>2, <2>3
<1>3. CASE CancelSubscription
  BY <1>2, <1>3 DEF CancelSubscription
<1>4. CASE CheckTracker
  BY <1>1, <1>2, <1>4 DEF CheckTracker
<1>5. ASSUME NEW u \in Tasks, StartTask(u), u # t PROVE Same
  BY <1>2, <1>5, CancelTyping DEF StartTask, Cancel
<1>6. ASSUME AbandonRound PROVE Same
  BY <1>1, <1>6 DEF AbandonRound
<1>7. ASSUME NEW u \in Tasks, PushTask(u) PROVE Same
  BY <1>0, <1>7 DEF PushTask, TypeOK, TaskType, InUse
<1>8. ASSUME NEW u \in Tasks, ReceiveEOSE(u) PROVE Same
  BY <1>0, <1>8 DEF ReceiveEOSE, TypeOK, TaskType, InUse
<1>9. ASSUME NEW u \in Tasks, MarkAsDone(u) PROVE Same
  BY <1>0, <1>9 DEF MarkAsDone, TypeOK, TaskType, InUse
<1>10. ASSUME NEW u \in Tasks, TaskFails(u) PROVE Same
  BY <1>0, <1>10 DEF TaskFails, TypeOK, TaskType, InUse
<1>11. ASSUME NEW u \in Tasks, MarkAsFailed(u) PROVE Same
  BY <1>0, <1>11 DEF MarkAsFailed, TypeOK
<1> HIDE DEF Same
<1>12. CASE UNCHANGED task
  BY <1>1, <1>12
<1> QED
  BY <1>3, <1>4, <1>5, <1>6, <1>7, <1>8, <1>9, <1>10, <1>11, <1>12 DEF Next, SchedulerNext, TaskNext,
     TimePasses, AddSubscription, StartRound, SkipQuery, NothingToStart, RoundFails, PushFails,
     NextSubscription, vars, Same

LEMMA KeepsDoneIsDownloaded == IInv /\ [Next]_vars => DoneIsDownloaded'
<1> SUFFICES ASSUME IInv, [Next]_vars PROVE DoneIsDownloaded'
  OBVIOUS
<1>1. downloaded \subseteq downloaded'
  BY DEF Next, SchedulerNext, TaskNext, TimePasses, AddSubscription, CancelSubscription,
     StartRound, SkipQuery, CheckTracker, StartTask, NothingToStart, RoundFails, PushTask,
     PushFails, NextSubscription, ReceiveEOSE, MarkAsDone, TaskFails, MarkAsFailed, vars
<1>2. ASSUME NEW q \in Queries, tracker'[q] # None, tracker'[q].state = "done"
      PROVE  <<q, tracker'[q].window>> \in downloaded
  <2>1. CASE CheckTracker /\ q = query
    BY <1>2, <2>1, CheckedTracker DEF IInv
  <2>2. CASE /\ tracker[q] # None /\ tracker'[q].window = tracker[q].window
             /\ tracker[q].state = "done"
    BY <1>2, <2>2 DEF IInv, DoneIsDownloaded
  <2>3. CASE tracker[q] # None /\ tracker'[q].window = tracker[q].window /\ Advances(q)
    BY <2>3 DEF Advances, MarkAsDone, HasTracker, IInv, DoneIsDownloaded
  <2> QED
    BY <1>2, <2>1, <2>2, <2>3, TrackerSteps DEF IInv
<1>3. ASSUME NEW t \in Tasks, task'[t] # None, task'[t].phase = "eose"
      PROVE  <<task'[t].query, task'[t].window>> \in downloaded'
  <2>1. ~StartTask(t)
    BY <1>3 DEF StartTask, Cancel
  <2> QED
    BY <1>1, <1>3, <2>1, TaskSteps DEF IInv, DoneIsDownloaded, InUse
<1> QED
  BY <1>1, <1>2, <1>3 DEF DoneIsDownloaded, InUse

\* A step after which the trackers refer to the tasks they did before, apart from
\* those of S, which are gone or dead.
Releases(S) ==
  /\ \A q \in Queries :
       /\ tracker'[q] = None <=> tracker[q] = None
       /\ tracker[q] # None =>
            tracker'[q].task = IF tracker[q].task \in S THEN None ELSE tracker[q].task
  /\ \A u \in Tasks \ S :
       /\ task'[u] = None <=> task[u] = None
       /\ task[u] # None => task'[u].query = task[u].query /\ task'[u].cancelled = task[u].cancelled
       /\ u \in result => u \in result' \/ Live(u)
  /\ \A u \in Tasks \cap S : task'[u] # None => task'[u].cancelled

LEMMA ReleasesKeeps ==
  ASSUME TypeOK, TypeOK', TrackerKnowsItsTask, NEW S, Releases(S)
  PROVE  TrackerKnowsItsTask'
<1> USE DEF Releases
<1>1. ASSUME NEW q \in Queries, tracker'[q] # None, tracker'[q].task # None
      PROVE  /\ tracker'[q].task \in InUse'
             /\ task'[tracker'[q].task].query = q
             /\ ~task'[tracker'[q].task].cancelled \/ tracker'[q].task \in result'
  <2> DEFINE u == tracker[q].task
  <2>1. tracker[q] # None /\ u \notin S /\ tracker'[q].task = u
    BY <1>1
  <2>2. u \in Tasks /\ task[u] # None /\ task[u].query = q /\ (~task[u].cancelled \/ u \in result)
    BY <1>1, <2>1 DEF TrackerKnowsItsTask, InUse, Live
  <2> HIDE DEF u
  <2> QED
    BY <2>1, <2>2 DEF InUse, Live
<1>2. ASSUME NEW u \in Tasks, task'[u] # None, ~task'[u].cancelled
      PROVE  tracker'[task'[u].query] # None /\ tracker'[task'[u].query].task = u
  <2>1. u \notin S /\ task[u] # None /\ ~task[u].cancelled /\ task'[u].query = task[u].query
    BY <1>2
  <2>2. task[u].query \in Queries
    BY <2>1 DEF TypeOK, TaskType
  <2>3. tracker[task[u].query] # None /\ tracker[task[u].query].task = u
    BY <2>1 DEF TrackerKnowsItsTask, InUse, Live
  <2> QED
    BY <2>1, <2>2, <2>3
<1> QED
  BY <1>1, <1>2 DEF TrackerKnowsItsTask, InUse, Live

\* A step that puts another tracker, or another task, in the place of query q's:
\* the task S before it loses its context, and t (or None) takes its place.
Replaces(q, S, t) ==
  /\ S = IF tracker[q] = None THEN {} ELSE {tracker[q].task} \cap InUse
  /\ \A p \in Queries \ {q} : tracker'[p] = tracker[p]
  /\ \A u \in Tasks \ (S \cup {t}) : task'[u] = task[u]
  /\ \A u \in S \ {t} : task'[u] = None \/ task'[u].cancelled
  /\ result \subseteq result'
  /\ tracker'[q] # None => tracker'[q].task = t
  /\ t # None => /\ t \in result' /\ tracker'[q] # None
                 /\ task[t] = None /\ task'[t] # None /\ task'[t].query = q

LEMMA ReplacesKeeps ==
  ASSUME TypeOK, TypeOK', TrackerKnowsItsTask,
         NEW q \in Queries, NEW S, NEW t \in Tasks \cup {None}, Replaces(q, S, t)
  PROVE  TrackerKnowsItsTask'
<1> USE DEF Replaces
<1>1. \A u \in S : task[u] # None /\ task[u].query = q
  BY ConstantsAssumption DEF TrackerKnowsItsTask, InUse
<1>2. ASSUME NEW p \in Queries, tracker'[p] # None, tracker'[p].task # None
      PROVE  /\ tracker'[p].task \in InUse'
             /\ task'[tracker'[p].task].query = p
             /\ ~task'[tracker'[p].task].cancelled \/ tracker'[p].task \in result'
  <2>1. CASE p = q
    BY <1>2, <2>1 DEF InUse
  <2>2. CASE p # q
    <3> DEFINE u == tracker[p].task
    <3>1. tracker[p] # None /\ u # None /\ tracker'[p].task = u
      BY <1>2, <2>2
    <3>2. u \in Tasks /\ task[u] # None /\ task[u].query = p /\ (~task[u].cancelled \/ u \in result)
      BY <3>1 DEF TrackerKnowsItsTask, InUse, Live
    <3> HIDE DEF u
    <3>3. u \notin S
      BY <1>1, <2>2, <3>2
    <3>4. u = t \/ task'[u] = task[u]
      BY <3>2, <3>3
    <3>5. u # t
      BY <3>1, <3>2
    <3> QED
      BY <3>1, <3>2, <3>4, <3>5 DEF InUse
  <2> QED
    BY <2>1, <2>2
<1>3. ASSUME NEW u \in Tasks, task'[u] # None, ~task'[u].cancelled
      PROVE  tracker'[task'[u].query] # None /\ tracker'[task'[u].query].task = u
  <2>1. CASE u = t
    BY <1>3, <2>1, ConstantsAssumption
  <2>2. CASE u # t
    <3>1. u \notin S /\ task'[u] = task[u]
      BY <1>3, <2>2
    <3>2. /\ task[u].query \in Queries /\ tracker[task[u].query] # None
          /\ tracker[task[u].query].task = u
      BY <1>3, <3>1 DEF TrackerKnowsItsTask, InUse, Live, TypeOK, TaskType
    <3>3. task[u].query # q
      BY <1>3, <3>1, <3>2 DEF InUse
    <3> QED
      BY <3>1, <3>2, <3>3
  <2> QED
    BY <2>1, <2>2
<1> QED
  BY <1>2, <1>3 DEF TrackerKnowsItsTask, InUse, Live

LEMMA KeepsTrackerKnowsItsTask == IInv /\ [Next]_vars => TrackerKnowsItsTask'
<1> SUFFICES ASSUME IInv, [Next]_vars PROVE TrackerKnowsItsTask'
  OBVIOUS
<1>0. TypeOK /\ TypeOK' /\ TrackerKnowsItsTask
  BY Typing DEF IInv
<1>a. \A t \in Tasks : task[t] # None => task[t] \in TaskType
  BY <1>0 DEF TypeOK
<1>b. \A q \in Queries : tracker[q] # None => tracker[q] \in TrackerType
  BY <1>0 DEF TypeOK
<1>c. ASSUME NEW r \in TaskType, NEW x \in Phases
      PROVE  LET new == [r EXCEPT !.phase = x]
             IN  new # None /\ new.query = r.query /\ new.cancelled = r.cancelled
  BY NoneAssumption DEF TaskType
<1>1. CASE CancelSubscription
  <2>1. \A q \in Queries : /\ tracker'[q] = None <=> tracker[q] = None
                           /\ tracker[q] # None /\ tracker[q].task \in InUse => tracker'[q].task = None
                           /\ tracker[q] # None /\ tracker[q].task \notin InUse =>
                                tracker'[q].task = tracker[q].task
    BY <1>0, <1>1, DetachFacts DEF CancelSubscription
  <2>2. \A u \in Tasks : /\ u \notin InUse => task[u] = None /\ task'[u] = None
                         /\ u \in InUse => task'[u] = None \/ task'[u].cancelled
    BY <1>0, <1>1, CancelFacts DEF CancelSubscription, InUse
  <2>3. result' = result /\ result \subseteq InUse
    BY <1>0, <1>1 DEF CancelSubscription, scheduler, TypeOK
  <2>4. Releases(InUse)
    BY <2>1, <2>2, <2>3 DEF Releases
  <2> QED
    BY <1>0, <2>4, ReleasesKeeps
<1>2. ASSUME AbandonRound PROVE TrackerKnowsItsTask'
  <2>1. Releases({t \in result : ~Live(t)})
    BY <1>0, <1>2, DetachFacts DEF AbandonRound, Releases, TypeOK
  <2> QED
    BY <1>0, <2>1, ReleasesKeeps
<1>3. ASSUME NEW t \in Tasks, PushTask(t) PROVE TrackerKnowsItsTask'
  <2>1. CASE Live(t)
    <3>1. Releases({})
      <4> DEFINE new == [task[t] EXCEPT !.phase = "running"]
      <4>1. /\ task[t] \in TaskType
            /\ task' = [task EXCEPT ![t] = new]
            /\ tracker' = tracker /\ result' = result \ {t}
        BY <1>0, <1>3, <1>a, <2>1 DEF PushTask, TypeOK, InUse
      <4>2. new # None /\ task[t] # None /\ new.query = task[t].query /\ new.cancelled = task[t].cancelled
        BY <4>1, <1>c, NoneAssumption DEF Phases
      <4> HIDE DEF new
      <4> QED
        BY <1>0, <2>1, <4>1, <4>2 DEF Releases, TypeOK
    <3> QED
      BY <1>0, <3>1, ReleasesKeeps
  <2>2. CASE ~Live(t)
    <3>1. Releases({t})
      BY <1>0, <1>3, <2>2, DetachFacts DEF PushTask, Releases, TypeOK
    <3> QED
      BY <1>0, <3>1, ReleasesKeeps
  <2> QED
    BY <2>1, <2>2
<1>4. ASSUME NEW t \in Tasks, ReceiveEOSE(t) \/ TaskFails(t) PROVE TrackerKnowsItsTask'
  <2>1. Releases({})
    <3>1. PICK x \in {"eose", "failed"} : task' = [task EXCEPT ![t] = [task[t] EXCEPT !.phase = x]]
      BY <1>4 DEF ReceiveEOSE, TaskFails
    <3>2. task[t] \in TaskType /\ UNCHANGED <<tracker, result>>
      BY <1>4, <1>a DEF ReceiveEOSE, TaskFails, scheduler, InUse
    <3> DEFINE new == [task[t] EXCEPT !.phase = x]
    <3>3. new # None /\ task[t] # None /\ new.query = task[t].query /\ new.cancelled = task[t].cancelled
      BY <3>2, <1>c, NoneAssumption DEF Phases
    <3> HIDE DEF new
    <3> QED
      BY <1>0, <3>1, <3>2, <3>3 DEF Releases, TypeOK, new
  <2> QED
    BY <1>0, <2>1, ReleasesKeeps
<1>5. ASSUME NEW t \in Tasks, MarkAsDone(t) PROVE TrackerKnowsItsTask'
  <2>0. task[t] \in TaskType /\ t \notin result
    BY <1>0, <1>5, <1>a DEF MarkAsDone, InUse, TypeOK
  <2>1. \A q \in Queries : /\ tracker'[q] = None <=> tracker[q] = None
                           /\ tracker[q] # None => tracker'[q].task = tracker[q].task
    <3>1. ASSUME NEW r \in TrackerType
          PROVE  [r EXCEPT !.state = "done"] # None /\ [r EXCEPT !.state = "done"].task = r.task
      BY NoneAssumption DEF TrackerType, TrackerStates
    <3>2. HasTracker(t) => task[t].query \in Queries /\ tracker[task[t].query] \in TrackerType
      BY <2>0, <1>b DEF HasTracker, TaskType
    <3> DEFINE p == task[t].query
               new == [tracker[p] EXCEPT !.state = "done"]
    <3>3. \/ tracker' = tracker
          \/ HasTracker(t) /\ tracker' = [tracker EXCEPT ![p] = new]
      <4>1. CASE HasTracker(t) /\ tracker[p].state = "started"
        BY <1>5, <4>1 DEF MarkAsDone
      <4>2. CASE ~(HasTracker(t) /\ tracker[p].state = "started")
        <5>1. tracker' = tracker
          BY <1>5, <4>2 DEF MarkAsDone
        <5> QED
          BY <5>1
      <4> QED
        BY <4>1, <4>2
    <3>4. HasTracker(t) => p \in Queries /\ new # None /\ new.task = tracker[p].task /\ tracker[p] # None
      BY <3>1, <3>2 DEF HasTracker
    <3> HIDE DEF p, new
    <3> QED
      BY <1>0, <3>3, <3>4 DEF TypeOK
  <2>2. CASE Live(t)
    <3> DEFINE new == [task[t] EXCEPT !.phase = "streaming"]
    <3>1. task' = [task EXCEPT ![t] = new] /\ result' = result
      BY <1>5, <2>2 DEF MarkAsDone, scheduler
    <3>2. new # None /\ task[t] # None /\ new.query = task[t].query /\ new.cancelled = task[t].cancelled
      BY <2>0, <1>c, NoneAssumption DEF Phases
    <3> HIDE DEF new
    <3>3. Releases({})
      BY <1>0, <2>1, <3>1, <3>2 DEF Releases, TypeOK
    <3> QED
      BY <1>0, <3>3, ReleasesKeeps
  <2>3. CASE ~Live(t)
    <3>1. \A q \in Queries : tracker[q] # None => tracker[q].task # t
      BY <1>0, <2>0, <2>3, ConstantsAssumption DEF TrackerKnowsItsTask
    <3>2. task' = [task EXCEPT ![t] = None] /\ result' = result
      BY <1>5, <2>3 DEF MarkAsDone, scheduler
    <3>3. Releases({t})
      BY <1>0, <2>1, <3>1, <3>2 DEF Releases, TypeOK
    <3> QED
      BY <1>0, <3>3, ReleasesKeeps
  <2> QED
    BY <2>2, <2>3
<1>6. ASSUME NEW t \in Tasks, MarkAsFailed(t) PROVE TrackerKnowsItsTask'
  <2> DEFINE p == task[t].query
             new == [Detach({t})[p] EXCEPT !.state = "error"]
  <2>1. \/ tracker' = Detach({t})
        \/ HasTracker(t) /\ tracker' = [Detach({t}) EXCEPT ![p] = new]
    BY <1>6 DEF MarkAsFailed
  <2>2. Detach({t}) \in [Queries -> TrackerType \cup {None}]
    BY <1>0, DetachTyping
  <2>3. HasTracker(t) => p \in Queries /\ Detach({t})[p] \in TrackerType
    <3>1. HasTracker(t) => p \in Queries /\ tracker[p] # None
      BY <1>6, <1>a DEF MarkAsFailed, HasTracker, InUse, TaskType
    <3> HIDE DEF p
    <3>2. HasTracker(t) => p \in Queries /\ Detach({t})[p] # None
      BY <1>0, <3>1, DetachFacts
    <3> QED
      BY <2>2, <3>2
  <2>4. HasTracker(t) => new # None /\ new.task = Detach({t})[p].task
    BY <2>3, NoneAssumption DEF TrackerType, TrackerStates
  <2> HIDE DEF p, new
  <2>5. \A q \in Queries : /\ tracker'[q] = None <=> Detach({t})[q] = None
                           /\ Detach({t})[q] # None => tracker'[q].task = Detach({t})[q].task
    BY <2>1, <2>2, <2>3, <2>4, NoneAssumption
  <2>6. task' = [task EXCEPT ![t] = None] /\ result' = result
    BY <1>6 DEF MarkAsFailed, scheduler
  <2>7. \A q \in Queries : /\ tracker'[q] = None <=> tracker[q] = None
                           /\ tracker[q] # None =>
                                tracker'[q].task = IF tracker[q].task \in {t} THEN None
                                                   ELSE tracker[q].task
    BY <1>0, <2>5, DetachFacts
  <2>8. Releases({t})
    BY <1>0, <2>6, <2>7 DEF Releases, TypeOK
  <2> QED
    BY <1>0, <2>8, ReleasesKeeps
<1>9. ASSUME UNCHANGED <<task, tracker>>, result' = result PROVE TrackerKnowsItsTask'
  BY <1>0, <1>9 DEF TrackerKnowsItsTask, InUse, Live
<1>7. CASE CheckTracker
  <2>0. query \in Queries /\ result' = result /\ \A q \in Queries \ {query} : tracker'[q] = tracker[q]
    BY <1>0, <1>7 DEF CheckTracker, TypeOK
  <2>1. CASE tracker'[query] = tracker[query] /\ task' = task
    BY <1>0, <1>9, <2>0, <2>1 DEF TypeOK
  <2>2. CASE tracker[query] = None /\ task' = task
    <3>1. tracker'[query] # None => tracker'[query].task = None
      BY <1>0, <1>7, <2>2, CheckedTracker
    <3>2. Replaces(query, {}, None)
      BY <2>0, <2>2, <3>1 DEF Replaces
    <3> QED
      BY <1>0, <2>0, <3>2, ReplacesKeeps
  <2>3. CASE tracker[query] # None /\ tracker[query].state = "done"
    <3> DEFINE S == {tracker[query].task} \cap InUse
    <3>1. tracker'[query] # None => tracker'[query].task = None
      BY <1>0, <1>7, <2>3, CheckedTracker
    <3>2. task' = Cancel(S)
      BY <1>7, <2>3 DEF CheckTracker
    <3>3. /\ \A u \in Tasks \ S : task'[u] = task[u]
          /\ \A u \in S : task'[u] = None \/ task'[u].cancelled
      <4> HIDE DEF S
      <4>1. \A u \in S : u \in Tasks /\ task[u] # None
        BY DEF S, InUse
      <4> QED
        BY <1>0, <3>2, <4>1, CancelFacts
    <3>4. Replaces(query, S, None)
      BY <2>0, <2>3, <3>1, <3>3 DEF Replaces
    <3> QED
      BY <1>0, <2>0, <3>4, ReplacesKeeps
  <2>4. task' = task \/ (tracker[query] # None /\ tracker[query].state = "done")
    BY <1>7 DEF CheckTracker
  <2> QED
    BY <1>0, <1>7, <2>1, <2>2, <2>3, <2>4, CheckedTracker
<1>8. ASSUME NEW t \in Tasks, StartTask(t) PROVE TrackerKnowsItsTask'
  <2> DEFINE S    == {tracker[query].task} \cap InUse
             made == [query |-> query, window |-> tracker[query].window,
                      phase |-> "generated", cancelled |-> subs[pos] \in done]
  <2>1. /\ task' = [Cancel(S) EXCEPT ![t] = made] /\ task[t] = None /\ made.query = query
        /\ tracker' = [tracker EXCEPT ![query].state = "started", ![query].task = t]
        /\ result' = result \cup {t} /\ tracker[query] # None /\ query \in Queries
    BY <1>0, <1>8 DEF StartTask, TypeOK
  <2>2. task'[t] = made /\ made # None
    <3>1. made \in TaskType
      BY <1>0, <1>8 DEF StartTask, TaskType, Phases, TrackerType, TypeOK
    <3> QED
      BY <2>1, <3>1, NoneAssumption DEF Cancel
  <2>3. /\ tracker'[query] # None /\ tracker'[query].task = t
        /\ \A q \in Queries \ {query} : tracker'[q] = tracker[q]
    <3>1. ASSUME NEW r \in TrackerType
          PROVE  LET new == [r EXCEPT !.state = "started", !.task = t]
                 IN  new # None /\ new.task = t
      BY <1>8, <3>1, NoneAssumption DEF TrackerType, TrackerStates
    <3> QED
      BY <1>0, <1>b, <2>1, <3>1 DEF TypeOK
  <2>4. \A u \in Tasks \ {t} : task'[u] = Cancel(S)[u]
    BY <2>1 DEF Cancel
  <2>5. t # None
    BY ConstantsAssumption
  <2> HIDE DEF S, made
  <2>6. \A u \in S : u \in Tasks /\ task[u] # None
    BY DEF S, InUse
  <2>7. /\ \A u \in Tasks \ (S \cup {t}) : task'[u] = task[u]
        /\ \A u \in S \ {t} : task'[u] = None \/ task'[u].cancelled
    BY <1>0, <2>4, <2>6, CancelFacts
  <2>8. Replaces(query, S, t)
    BY <2>1, <2>2, <2>3, <2>5, <2>7 DEF Replaces, S
  <2> QED
    BY <1>0, <2>1, <2>8, ReplacesKeeps
<1>10. CASE StartRound
  BY <1>0, <1>9, <1>10 DEF StartRound, TypeOK
<1> QED
  BY <1>1, <1>2, <1>3, <1>4, <1>5, <1>6, <1>7, <1>8, <1>9, <1>10 DEF Next, SchedulerNext, TaskNext,
     TimePasses, AddSubscription, SkipQuery, NothingToStart, RoundFails, PushFails,
     NextSubscription, vars, scheduler

LEMMA KeepsRoundInProgress == IInv /\ [Next]_vars => RoundInProgress'
<1> SUFFICES ASSUME IInv, [Next]_vars PROVE RoundInProgress'
  OBVIOUS
<1> USE DEF IInv
<1>1. TypeOK'
  BY Typing
<1>2. ASSUME NEW t \in result', ~\E u \in Tasks : StartTask(u)
      PROVE  /\ t \in Tasks /\ t \in result /\ pc # "idle"
             /\ task'[t].query = task[t].query
             /\ task[t].cancelled => task'[t].cancelled
  <2>1. t \in Tasks /\ task'[t] # None
    BY <1>1 DEF TypeOK, InUse
  <2>2. t \in result
    BY <1>2 DEF Next, SchedulerNext, TaskNext, TimePasses, AddSubscription, CancelSubscription,
       StartRound, SkipQuery, CheckTracker, NothingToStart, RoundFails, AbandonRound, PushTask,
       PushFails, NextSubscription, ReceiveEOSE, MarkAsDone, TaskFails, MarkAsFailed, vars, scheduler
  <2> QED
    BY <1>2, <2>1, <2>2, TaskSteps DEF TypeOK
<1>3. ASSUME NEW u \in Tasks, StartTask(u)
      PROVE  /\ result' = result \cup {u} /\ u \notin result
             /\ task'[u].query = query /\ task'[u].cancelled = (subs[pos] \in done)
             /\ \A t \in result : /\ task'[t].query = task[t].query
                                  /\ task[t].cancelled => task'[t].cancelled
  <2>1. result' = result \cup {u} /\ u \notin result
    BY <1>3 DEF StartTask, TypeOK, InUse
  <2>2. task'[u].query = query /\ task'[u].cancelled = (subs[pos] \in done)
    BY <1>3 DEF StartTask, Cancel
  <2>3. ASSUME NEW t \in result
        PROVE  task'[t].query = task[t].query /\ (task[t].cancelled => task'[t].cancelled)
    <3>1. t \in Tasks /\ task'[t] # None /\ task[t] # None
      BY <1>1, <2>1 DEF TypeOK, InUse
    <3>2. ~StartTask(t)
      BY <3>1 DEF StartTask
    <3> QED
      BY <3>1, <3>2, TaskSteps
  <2> QED
    BY <2>1, <2>2, <2>3
<1>4. ASSUME pc' \in {"check", "start"}, NEW t \in result'
      PROVE  task'[t].query < query'
  <2>1. query \in Nat /\ query' \in Nat
    BY <1>1, ConstantsAssumption DEF TypeOK, Queries
  <2>2. CASE \E u \in Tasks : StartTask(u)
    <3>1. PICK u \in Tasks : StartTask(u)
      BY <2>2
    <3>2. pc = "start" /\ query' = query + 1
      BY <1>4, <3>1, NextQueryTyping DEF StartTask
    <3>3. \A v \in result : task[v].query < query /\ task[v].query \in Nat
      BY <3>2, ConstantsAssumption DEF RoundInProgress, TypeOK, InUse, TaskType, Queries
    <3> QED
      BY <1>3, <1>4, <2>1, <3>1, <3>2, <3>3
  <2>3. CASE ~\E u \in Tasks : StartTask(u)
    <3>1. t \in result /\ task'[t].query = task[t].query /\ pc # "idle"
      BY <1>2, <2>3
    <3>2. task[t].query \in Nat
      BY <3>1, ConstantsAssumption DEF TypeOK, InUse, TaskType, Queries
    <3>3. pc \in {"check", "start"} /\ (query' = query \/ query' = query + 1)
      BY <1>4, <2>3, <3>1, NextQueryTyping DEF Next, SchedulerNext, TaskNext, TimePasses,
         AddSubscription, CancelSubscription, StartRound, SkipQuery, CheckTracker, NothingToStart,
         RoundFails, AbandonRound, PushTask, PushFails, NextSubscription, ReceiveEOSE, MarkAsDone,
         TaskFails, MarkAsFailed, vars, scheduler, TypeOK
    <3> QED
      BY <2>1, <3>1, <3>2, <3>3 DEF RoundInProgress
  <2> QED
    BY <2>2, <2>3
<1>5. ASSUME pc' # "idle", subs'[pos'] \in done', NEW t \in result'
      PROVE  task'[t].cancelled
  <2>1. CASE \E u \in Tasks : StartTask(u)
    <3>1. PICK u \in Tasks : StartTask(u)
      BY <2>1
    <3>2. pc # "idle" /\ subs[pos] \in done
      BY <1>5, <3>1 DEF StartTask, slice
    <3> QED
      BY <1>3, <1>5, <3>1, <3>2 DEF RoundInProgress, Live
  <2>2. CASE CancelSubscription
    <3>1. t \in Tasks /\ task[t] # None /\ task'[t] # None /\ t \in InUse
      BY <1>1, <1>5, <2>2 DEF CancelSubscription, TypeOK, scheduler, InUse
    <3> QED
      BY <2>2, <3>1, CancelFacts DEF CancelSubscription
  <2>3. CASE ~(\E u \in Tasks : StartTask(u)) /\ ~CancelSubscription
    <3>1. t \in result /\ pc # "idle" /\ (task[t].cancelled => task'[t].cancelled)
      BY <1>2, <1>5, <2>3
    <3>2. UNCHANGED <<subs, pos, done>>
      BY <2>3, <3>1 DEF Next, SchedulerNext, TaskNext, TimePasses, AddSubscription,
         StartRound, SkipQuery, CheckTracker, NothingToStart, RoundFails, AbandonRound, PushTask,
         PushFails, NextSubscription, ReceiveEOSE, MarkAsDone, TaskFails, MarkAsFailed, vars,
         scheduler, slice
    <3> QED
      BY <1>5, <3>1, <3>2 DEF RoundInProgress, Live
  <2> QED
    BY <2>1, <2>2, <2>3
<1>6. ASSUME NEW t \in Tasks, task'[t] # None, ~task'[t].cancelled,
             task'[t].query = NumQueries, task'[t].phase = "generated"
      PROVE  pc' = "push" /\ t \in result'
  <2>1. CASE StartTask(t)
    <3>1. query = NumQueries
      BY <1>3, <1>6, <2>1
    <3> QED
      BY <1>3, <2>1, <3>1, ConstantsAssumption DEF StartTask, NextQuery
  <2>2. CASE ~StartTask(t)
    <3>1. /\ task[t] # None /\ ~task[t].cancelled
          /\ task[t].query = NumQueries /\ task[t].phase = "generated"
      BY <1>6, <2>2, TaskSteps
    <3>2. pc = "push" /\ t \in result
      BY <3>1 DEF RoundInProgress, InUse, Live
    <3>3. subs[pos] \notin done
      BY <3>1, <3>2 DEF RoundInProgress, Live
    <3>4. ASSUME NEW u \in Tasks, PushTask(u) PROVE u # t
      BY <1>6, <3>1, <3>4 DEF PushTask, TypeOK, Live, TaskType
    <3> QED
      BY <3>2, <3>3, <3>4 DEF Next, SchedulerNext, TaskNext, TimePasses, AddSubscription,
         CancelSubscription, StartRound, SkipQuery, CheckTracker, StartTask, NothingToStart,
         RoundFails, PushTask, PushFails, NextSubscription, ReceiveEOSE, MarkAsDone, TaskFails,
         MarkAsFailed, vars, scheduler
  <2> QED
    BY <2>1, <2>2
<1> QED
  BY <1>4, <1>5, <1>6 DEF RoundInProgress, Live, InUse

-----------------------------------------------------------------------------

LEMMA Invariance == Spec => []IInv
<1>1. Init => IInv
  <2>1. Init => TypeOK
    BY ConstantsAssumption DEF Init, TypeOK, Queries, Windows, InUse
  <2>2. Init => NoWindowSkipped
    BY DEF Init, NoWindowSkipped, NextWindow, Windows, Queries
  <2> QED
    BY <2>1, <2>2 DEF Init, IInv, TrackerIsLast, TrackerKnowsItsTask, DoneIsDownloaded,
       RoundInProgress, InUse
<1>2. IInv /\ [Next]_vars => IInv'
  BY Typing, KeepsTrackerIsLast, KeepsTrackerKnowsItsTask, KeepsDoneIsDownloaded,
     KeepsRoundInProgress, KeepsNoWindowSkipped DEF IInv
<1> QED
  BY <1>1, <1>2, PTL DEF Spec

\* No query skips a window the relay has not sent EOSE for, however many
\* queries, subscriptions and tasks there are.
THEOREM WindowsAreNotSkipped == Spec => []NoWindowSkipped
<1>1. IInv => NoWindowSkipped
  BY DEF IInv
<1> QED
  BY <1>1, Invariance, PTL

\* At most one task of each query has a live context: both would be the one its
\* tracker refers to.
THEOREM OneTaskAtATime == Spec => []OneLiveTaskPerQuery
<1>1. IInv => OneLiveTaskPerQuery
  BY DEF IInv, TrackerKnowsItsTask, OneLiveTaskPerQuery
<1> QED
  BY <1>1, Invariance, PTL

\* The task of the last query is never lost between MaybeStart and pushTasks.
THEOREM LastQueryReachesTheRelay == Spec => []LastQueryIsPushed
<1>1. IInv => LastQueryIsPushed
  BY DEF IInv, RoundInProgress, LastQueryIsPushed
<1> QED
  BY <1>1, Invariance, PTL

\* The scheduler implements the abstract one: each query walks through the
\* windows in order.
THEOREM ImplementsSequential == Spec => SequentialSpec
<1> DEFINE next == [q \in Queries |-> NextWindow(q)]
<1>1. Init => Sequential!Init
  BY ConstantsAssumption DEF Init, Sequential!Init, NextWindow, Queries
<1>2. IInv /\ [Next]_vars => [Sequential!Next]_(Sequential!vars)
  <2> SUFFICES ASSUME IInv, [Next]_vars
               PROVE  Sequential!Next \/ UNCHANGED Sequential!vars
    OBVIOUS
  <2>1. TypeOK /\ TrackerIsLast
    BY DEF IInv
  <2>2. CASE TimePasses
    <3>1. \A q \in Queries : NextWindow(q)' = NextWindow(q)
      BY <2>2 DEF TimePasses, NextWindow
    <3>2. next' = next
      BY <3>1
    <3> QED
      BY <2>2, <3>2 DEF TimePasses, Sequential!Next, Sequential!TimePasses
  <2>3. CASE \E p \in Queries : Advances(p)
    <3>1. PICK p \in Queries : Advances(p)
      BY <2>3
    <3> DEFINE new == [tracker[p] EXCEPT !.state = "done"]
    <3>a. /\ tracker[p] # None /\ tracker[p].state = "started" /\ tracker[p] \in TrackerType
          /\ tracker' = [tracker EXCEPT ![p] = new]
          /\ lastWindow' = lastWindow /\ now' = now
      BY <2>1, <3>1 DEF Advances, MarkAsDone, HasTracker, TypeOK
    <3>b. new # None /\ new.state = "done"
      BY <3>a, NoneAssumption DEF TrackerType, TrackerStates
    <3>c. lastWindow[p] = tracker[p].window + 1 /\ Elapsed(tracker[p].window)
      BY <2>1, <3>a DEF TrackerIsLast
    <3> HIDE DEF new
    <3>2. now' = now /\ Elapsed(NextWindow(p))
      BY <3>a, <3>c DEF NextWindow
    <3>3. \A q \in Queries \ {p} : NextWindow(q)' = NextWindow(q)
      BY <2>1, <3>a DEF NextWindow, TypeOK
    <3>4. NextWindow(p)' = NextWindow(p) + 1
      BY <2>1, <3>a, <3>b, <3>c DEF NextWindow, TypeOK
    <3>5. next' = [next EXCEPT ![p] = @ + 1]
      BY <3>3, <3>4
    <3> QED
      BY <3>2, <3>5 DEF Elapsed, Sequential!Next, Sequential!Download
  <2>4. CASE ~TimePasses /\ ~\E p \in Queries : Advances(p)
    <3>1. \A q \in Queries : NextWindow(q)' = NextWindow(q)
      BY <2>1, <2>4, OnlyDoneAdvances
    <3>2. next' = next
      BY <3>1
    <3>3. now' = now
      BY <2>4 DEF Next, SchedulerNext, TaskNext, AddSubscription, CancelSubscription,
         StartRound, SkipQuery, CheckTracker, StartTask, NothingToStart, RoundFails, PushTask,
         PushFails, NextSubscription, ReceiveEOSE, MarkAsDone, TaskFails, MarkAsFailed, vars
    <3> QED
      BY <3>2, <3>3 DEF Sequential!vars
  <2> QED
    BY <2>2, <2>3, <2>4
<1> QED
  BY <1>1, <1>2, Invariance, PTL DEF Spec, SequentialSpec, Sequential!Spec

-----------------------------------------------------------------------------
(* Orphans *)

\* A live task that was generated and will not be pushed.  GeneratedTasksArePushed
\* says that there are none.
Orphan(t) ==
  /\ t \in InUse /\ Live(t)
  /\ task[t].phase = "generated" /\ t \notin result

\* A task of query q that lost its context after it had looked at it tells the tracker
\* what became of it.
LateAnswer(q) ==
  \E u \in InUse : /\ task[u].query = q /\ ~Live(u)
                   /\ MarkAsDone(u) \/ MarkAsFailed(u)

\* A live task leaves the scheduler's hands by being pushed or in a round that fails.
LEMMA OrphansFromFailedRounds ==
  ASSUME IInv, [Next]_vars, NEW t \in Tasks, ~Orphan(t), Orphan(t)'
  PROVE  RoundFails /\ task[t].query < query
<1>1. /\ task'[t] # None /\ ~task'[t].cancelled
      /\ task'[t].phase = "generated" /\ t \notin result'
  BY DEF Orphan, InUse, Live
<1>2. ~StartTask(t)
  BY <1>1 DEF StartTask
<1>3. t \in result /\ t \in InUse /\ Live(t)
  BY <1>1, <1>2, TaskSteps DEF Orphan, InUse, Live, IInv
<1>4. pc # "idle"
  BY <1>3 DEF IInv, TypeOK
<1>5. ~PushFails
  BY <1>3, <1>4 DEF PushFails, IInv, RoundInProgress
<1>6. ASSUME NEW u \in Tasks, PushTask(u)
      PROVE  FALSE
  <2>1. u = t
    BY <1>1, <1>3, <1>6 DEF PushTask
  <2>2. task[t] \in TaskType
    BY <1>3 DEF InUse, IInv, TypeOK
  <2>3. task'[t].phase = "running"
    BY <1>3, <1>6, <2>1, <2>2 DEF PushTask, IInv, TypeOK, TaskType
  <2> QED
    BY <1>1, <2>3
<1>7. RoundFails
  BY <1>1, <1>3, <1>4, <1>5, <1>6 DEF Next, SchedulerNext, TaskNext, TimePasses, AddSubscription,
     CancelSubscription, StartRound, SkipQuery, CheckTracker, StartTask, NothingToStart,
     NextSubscription, ReceiveEOSE, MarkAsDone, TaskFails, MarkAsFailed, scheduler, vars
<1> QED
  BY <1>3, <1>7 DEF RoundFails, IInv, RoundInProgress

\* To the scheduler an orphan is a task that is running.
LEMMA OrphansStay ==
  ASSUME IInv, [Next]_vars, NEW t \in Tasks, Orphan(t), tracker[task[t].query].state = "started"
  PROVE  \/ Orphan(t)' /\ UNCHANGED <<task[t], tracker[task[t].query]>>
         \/ CancelSubscription
         \/ LateAnswer(task[t].query)
<1> DEFINE q == task[t].query
<1>1. /\ task[t] \in TaskType /\ task[t] # None /\ t # None /\ q \in Queries
      /\ tracker[q] # None /\ tracker[q].task = t
  BY ConstantsAssumption DEF Orphan, InUse, IInv, TypeOK, TaskType, TrackerKnowsItsTask
<1>2. \A p \in Queries : tracker[p] # None /\ tracker[p].task = t => p = q
  BY <1>1 DEF IInv, TrackerKnowsItsTask
<1> DEFINE Same == task'[t] = task[t] /\ tracker'[q] = tracker[q]
<1> HIDE DEF q
<1>3. ASSUME Same, t \notin result' PROVE Orphan(t)'
  BY <1>1, <1>3 DEF Orphan, InUse, Live
<1>4. ASSUME NEW S, t \notin S
      PROVE  Cancel(S)[t] = task[t] /\ Detach(S)[q] = tracker[q]
  BY <1>1, <1>4 DEF Cancel, Detach
<1>5. ASSUME CheckTracker PROVE Same /\ t \notin result'
  <2>1. CASE q = query
    BY <1>1, <1>5, <2>1 DEF CheckTracker, Orphan, q
  <2>2. CASE q # query
    <3>1. tracker[query] = None \/ tracker[query].task # t
      BY <1>2, <2>2 DEF IInv, TypeOK
    <3>2. tracker'[q] = tracker[q]
      BY <1>5, <2>2 DEF CheckTracker
    <3>3. task'[t] = task[t]
      BY <1>4, <1>5, <3>1 DEF CheckTracker
    <3> QED
      BY <1>5, <3>2, <3>3 DEF CheckTracker, scheduler, Orphan
  <2> QED
    BY <2>1, <2>2
<1>6. ASSUME NEW u \in Tasks, StartTask(u) PROVE Same /\ t \notin result'
  <2>1. q # query
    BY <1>1, <1>6 DEF StartTask, IsDead, Orphan, q
  <2>2. u # t /\ tracker[query].task # t
    BY <1>1, <1>2, <1>6, <2>1 DEF StartTask, IInv, TypeOK
  <2>3. task'[t] = task[t]
    BY <1>4, <1>6, <2>2 DEF StartTask, Cancel
  <2>4. tracker'[q] = tracker[q]
    BY <1>1, <1>6, <2>1 DEF StartTask, IInv, TypeOK
  <2> QED
    BY <1>6, <2>2, <2>3, <2>4 DEF StartTask, Orphan
<1>7. ASSUME RoundFails \/ PushFails PROVE Same /\ t \notin result'
  BY <1>4, <1>7 DEF RoundFails, PushFails, AbandonRound, Orphan
<1>8. ASSUME NEW u \in Tasks, PushTask(u) PROVE Same /\ t \notin result'
  <2>1. u # t
    BY <1>8 DEF PushTask, Orphan
  <2> QED
    BY <1>4, <1>8, <2>1 DEF PushTask, Orphan
<1>9. ASSUME NEW u \in Tasks, ReceiveEOSE(u) \/ TaskFails(u) PROVE Same /\ t \notin result'
  <2>1. u # t
    BY <1>9 DEF ReceiveEOSE, TaskFails, Orphan
  <2> QED
    BY <1>9, <2>1 DEF ReceiveEOSE, TaskFails, scheduler, Orphan, InUse, IInv, TypeOK
<1>10. ASSUME NEW u \in Tasks, MarkAsDone(u) \/ MarkAsFailed(u), ~LateAnswer(q)
       PROVE  Same /\ t \notin result'
  <2>1. u # t /\ u \in InUse /\ result' = result
    BY <1>10 DEF MarkAsDone, MarkAsFailed, scheduler, Orphan
  <2>2. task[u].query # q
    BY <1>1, <1>10, <2>1 DEF LateAnswer, IInv, TrackerKnowsItsTask
  <2>3. task'[t] = task[t]
    BY <1>10, <2>1 DEF MarkAsDone, MarkAsFailed, IInv, TypeOK
  <2>4. CASE MarkAsDone(u)
    <3>1. tracker'[q] = tracker[q]
      BY <1>1, <2>2, <2>4 DEF MarkAsDone, IInv, TypeOK
    <3> QED
      BY <2>1, <2>3, <3>1 DEF Orphan
  <2>5. CASE MarkAsFailed(u)
    <3>1. Detach({u})[q] = tracker[q]
      BY <1>4, <2>1
    <3>2. tracker'[q] = Detach({u})[q]
      BY <1>1, <2>2, <2>5, DetachTyping DEF MarkAsFailed, IInv, Detach
    <3> QED
      BY <2>1, <2>3, <3>1, <3>2 DEF Orphan
  <2> QED
    BY <1>10, <2>4, <2>5
<1>11. ASSUME UNCHANGED <<task, tracker>>, result' = result \/ result' = {}
       PROVE  Same /\ t \notin result'
  BY <1>11 DEF Orphan
<1>12. (Same /\ t \notin result') \/ CancelSubscription \/ LateAnswer(q)
  BY <1>5, <1>6, <1>7, <1>8, <1>9, <1>10, <1>11 DEF Next, SchedulerNext, TaskNext, TimePasses,
     AddSubscription, StartRound, SkipQuery, NothingToStart, NextSubscription, scheduler, vars
<1> QED
  BY <1>3, <1>12 DEF q

\* The tasks that are never pushed are those MaybeStart had returned in a round that
\* fails at a later query, whose tracker got done in between: nothing else loses a task
\* whose context is alive.
THEOREM OnlyFailedRoundsOrphan ==
  Spec => [][\A t \in Tasks : Orphan(t)' /\ ~Orphan(t) => RoundFails /\ task[t].query < query]_vars
<1>1. IInv /\ [Next]_vars =>
        [\A t \in Tasks : Orphan(t)' /\ ~Orphan(t) => RoundFails /\ task[t].query < query]_vars
  BY OrphansFromFailedRounds
<1> QED
  BY <1>1, Invariance, PTL DEF Spec

\* An orphan blocks its query, which stays at its window: the tracker takes the task for
\* a running one in every later round, until the relay is dropped or, by chance, a task
\* of the same query that has lost its context answers late.
THEOREM OrphansBlockTheirQuery ==
  Spec => [][\A t \in Tasks : Orphan(t) /\ tracker[task[t].query].state = "started" =>
               \/ /\ Orphan(t)' /\ UNCHANGED <<task[t], tracker[task[t].query]>>
                  /\ UNCHANGED NextWindow(task[t].query)
               \/ CancelSubscription
               \/ LateAnswer(task[t].query)]_vars
<1>1. ASSUME IInv, [Next]_vars, NEW t \in Tasks,
             Orphan(t), tracker[task[t].query].state = "started"
      PROVE  \/ /\ Orphan(t)' /\ UNCHANGED <<task[t], tracker[task[t].query]>>
                /\ UNCHANGED NextWindow(task[t].query)
             \/ CancelSubscription
             \/ LateAnswer(task[t].query)
  <2>1. tracker[task[t].query] # None
    BY <1>1 DEF Orphan, IInv, TrackerKnowsItsTask
  <2>2. ASSUME UNCHANGED <<task[t], tracker[task[t].query]>>
        PROVE  UNCHANGED NextWindow(task[t].query)
    BY <1>1, <2>1, <2>2 DEF NextWindow
  <2> QED
    BY <1>1, <2>2, OrphansStay
<1>2. IInv /\ [Next]_vars =>
        [\A t \in Tasks : Orphan(t) /\ tracker[task[t].query].state = "started" =>
           \/ /\ Orphan(t)' /\ UNCHANGED <<task[t], tracker[task[t].query]>>
              /\ UNCHANGED NextWindow(task[t].query)
           \/ CancelSubscription
           \/ LateAnswer(task[t].query)]_vars
  BY <1>1
<1> QED
  BY <1>2, Invariance, PTL DEF Spec
=============================================================================
