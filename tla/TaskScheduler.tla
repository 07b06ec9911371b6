--------------------------- MODULE TaskScheduler ---------------------------
(***************************************************************************)
(* TaskScheduler for one relay: its RelayTaskGenerator, the                *)
(* TimeWindowTaskGenerator of each query with its TimeWindowTaskTracker,   *)
(* and the goroutines of RelayDownloader that perform the tasks.           *)
(*                                                                         *)
(* The scheduler goroutine holds RelayTaskGenerator.lock for a whole round *)
(* (SendOutTasks).  What runs concurrently with it is                      *)
(*  - the goroutines performing tasks, which change a tracker under the    *)
(*    tracker's own lock after having looked at their context outside it;  *)
(*  - the downloader, which cancels the context of a subscription when the *)
(*    relay is dropped.                                                    *)
(* The other relays are not modelled: a round that fails for one of them   *)
(* delays this one.                                                        *)
(*                                                                         *)
(* Time is counted in windows: window w is the interval from w to w + 1.   *)
(* Definitions whose names begin with Faulty are not part of the system,   *)
(* see EventPipeline.                                                      *)
(***************************************************************************)
EXTENDS Naturals, Sequences, FiniteSets

CONSTANTS
  NumQueries,        \* generators of a relay: 3 in the code (global, author, tag)
  InitialWindowAge,  \* 16 windows in the code
  MaxTime,           \* bound on the time
  MaxSubscriptions,  \* bound on the number of subscriptions ever made
  Tasks,             \* identities of task objects in use; bounds their number
  None               \* no tracker, no task

ASSUME ConstantsAssumption ==
  /\ NumQueries \in Nat \ {0}
  /\ MaxTime \in Nat
  /\ InitialWindowAge \in 0 .. MaxTime
  /\ MaxSubscriptions \in Nat \ {0}
  /\ None \notin Tasks

Queries == 1 .. NumQueries
Windows == 0 .. MaxTime

VARIABLES
  now,
  \* RelayTaskGenerator
  subscribed,  \* number of subscriptions ever added: they are 1 .. subscribed
  done,        \* subscriptions whose context has been cancelled
  subs,        \* the slice taskSubscriptions
  \* TimeWindowTaskGenerator, one per query
  lastWindow,  \* start of the window the next tracker will be for
  tracker,     \* its only tracker (timeWindowTaskConcurrency = 1) or None
  \* the scheduler goroutine
  pc, pos, query, result,
  \* tasks in use
  task,
  downloaded   \* history: <<q, w>> such that a live task got EOSE for it

scheduler == <<pc, pos, query, result>>
slice     == <<subscribed, done, subs>>
vars      == <<now, slice, lastWindow, tracker, scheduler, task, downloaded>>

TrackerStates == {"new", "started", "done", "error"}
TrackerType == [window : Windows, state : TrackerStates, task : Tasks \cup {None}]

(* Phases of a task: generated by MaybeStart and not pushed yet; running in   *)
(* performTask; past the check of ctx.Err() in OnReceivedEOSE or OnError and  *)
(* about to lock the tracker; streaming, after EOSE has been handled.         *)
Phases   == {"generated", "running", "eose", "failed", "streaming"}
TaskType == [query : Queries, window : Windows, phase : Phases, cancelled : BOOLEAN]

ASSUME NoneAssumption == None \notin TaskType \cup TrackerType

InUse == {t \in Tasks : task[t] # None}

\* task.Ctx().Err() = nil
Live(t) == ~task[t].cancelled

\* The tracker the task was made by is still its generator's.
HasTracker(t) == /\ tracker[task[t].query] # None
                 /\ tracker[task[t].query].window = task[t].window

\* The contexts of the tasks in S are cancelled.  Such a task does nothing more
\* and is forgotten, unless the scheduler still has it in hand or it has looked
\* at its context before.
Matters(t) == t \in result \/ task[t].phase \in {"eose", "failed"}
Cancel(S) == [t \in Tasks |-> CASE t \notin S -> task[t]
                               [] t \in S /\ Matters(t) -> [task[t] EXCEPT !.cancelled = TRUE]
                               [] OTHER -> None]

\* The trackers when the tasks of S are no more.
Detach(S) == [q \in Queries |-> IF tracker[q] # None /\ tracker[q].task \in S
                                THEN [tracker[q] EXCEPT !.task = None] ELSE tracker[q]]

\* A task that lost its context is not started again.
FaultyIsDead(q) == tracker[q].state \in {"new", "error"}

\* TimeWindowTaskTracker.isDead
IsDead(q) == \/ tracker[q].state \in {"new", "error"}
             \/ tracker[q].task \notin {t \in InUse : Live(t)}

Init ==
  /\ now = InitialWindowAge
  /\ subscribed = 0 /\ done = {} /\ subs = <<>>
  /\ lastWindow = [q \in Queries |-> 0]
  /\ tracker = [q \in Queries |-> None]
  /\ pc = "idle" /\ pos = 1 /\ query = 1 /\ result = {}
  /\ task = [t \in Tasks |-> None]
  /\ downloaded = {}

-----------------------------------------------------------------------------
(* The downloader and the clock *)

TimePasses ==
  /\ now < MaxTime
  /\ now' = now + 1
  /\ UNCHANGED <<slice, lastWindow, tracker, scheduler, task, downloaded>>

\* The relay is (again) one to download from: RelayDownloader.Start.  A relay
\* has one downloader at a time, and the generator survives it.
AddSubscription ==
  /\ pc = "idle"
  /\ subscribed < MaxSubscriptions
  /\ 1 .. subscribed \subseteq done
  /\ subscribed' = subscribed + 1
  /\ subs' = Append(subs, subscribed + 1)
  /\ UNCHANGED <<now, done, lastWindow, tracker, scheduler, task, downloaded>>

\* The relay is dropped.  The last subscription the model allows is kept.
CancelSubscription ==
  /\ subscribed \in 1 .. MaxSubscriptions - 1
  /\ subscribed \notin done
  /\ done' = done \cup {subscribed}
  /\ task' = Cancel(InUse)
  /\ tracker' = Detach(InUse)
  /\ UNCHANGED <<now, subscribed, subs, lastWindow, scheduler, downloaded>>

-----------------------------------------------------------------------------
(* One round of sendOutTasks *)

\* slices.DeleteFunc moves what it keeps to the front; its result is dropped, so
\* the slice keeps its length and its old tail.
WithoutDone(s) ==
  LET IsKept(i, j) == /\ s[j] \notin done
                      /\ i = Cardinality({k \in 1 .. j : s[k] \notin done})
  IN  [i \in DOMAIN s |-> IF \E j \in DOMAIN s : IsKept(i, j)
                         THEN s[CHOOSE j \in DOMAIN s : IsKept(i, j)] ELSE s[i]]

StartRound ==
  /\ pc = "idle"
  /\ subs # <<>>
  /\ subs' = WithoutDone(subs)
  /\ pc' = "check" /\ pos' = 1 /\ query' = 1 /\ result' = {}
  /\ UNCHANGED <<now, subscribed, done, lastWindow, tracker, task, downloaded>>

\* getTasksToPush goes on to the next query, or returns the tasks it has.
NextQuery == IF query < NumQueries
             THEN pc' = "check" /\ query' = query + 1
             ELSE pc' = "push" /\ UNCHANGED query

\* There are no authors, or no monitored keys, to ask for; the kinds of the
\* global query are hardcoded.
SkipQuery ==
  /\ pc = "check"
  /\ query > 1
  /\ NextQuery
  /\ UNCHANGED <<now, slice, lastWindow, tracker, pos, result, task, downloaded>>

\* A window may be asked for as soon as it has elapsed.
FaultyElapsed(w) == w + 1 <= now

\* maybeGenerateNewTracker gives no tracker before the window and a buffer of
\* one more have elapsed.
Elapsed(w) == w + 1 <= now - 1

\* CheckIfDoneAndEnd drops a tracker that is done, and maybeGenerateNewTracker
\* replaces it: the first half of Generate.
CheckTracker ==
  /\ pc = "check"
  /\ LET old     == tracker[query]
         isDone  == old # None /\ old.state = "done"
         missing == old = None \/ isDone
         new     == IF Elapsed(lastWindow[query])
                    THEN [window |-> lastWindow[query], state |-> "new", task |-> None]
                    ELSE None
     IN  /\ task' = IF isDone THEN Cancel({old.task} \cap InUse) ELSE task
         /\ tracker' = IF missing THEN [tracker EXCEPT ![query] = new] ELSE tracker
         /\ lastWindow' = IF missing /\ new # None
                          THEN [lastWindow EXCEPT ![query] = @ + 1] ELSE lastWindow
  /\ pc' = "start"
  /\ UNCHANGED <<now, slice, pos, query, result, downloaded>>

\* The context of the task before is not cancelled.
FaultyStartTask(t) ==
  /\ pc = "start"
  /\ task[t] = None
  /\ tracker[query] # None
  /\ tracker[query].state # "done"
  /\ IsDead(query)
  /\ task' = [task EXCEPT ![t] = [query |-> query, window |-> tracker[query].window,
                                 phase |-> "generated", cancelled |-> subs[pos] \in done]]
  /\ tracker' = [tracker EXCEPT ![query].state = "started", ![query].task = t]
  /\ result' = result \cup {t}
  /\ NextQuery
  /\ UNCHANGED <<now, slice, lastWindow, pos, downloaded>>

\* MaybeStart, the second half of Generate, for a tracker that needs a task: a
\* new one or one whose task has failed or lost its context.
StartTask(t) ==
  /\ pc = "start"
  /\ task[t] = None
  /\ tracker[query] # None
  /\ tracker[query].state # "done"
  /\ IsDead(query)
  /\ task' = [Cancel({tracker[query].task} \cap InUse) EXCEPT
                ![t] = [query |-> query, window |-> tracker[query].window,
                        phase |-> "generated", cancelled |-> subs[pos] \in done]]
  /\ tracker' = [tracker EXCEPT ![query].state = "started", ![query].task = t]
  /\ result' = result \cup {t}
  /\ NextQuery
  /\ UNCHANGED <<now, slice, lastWindow, pos, downloaded>>

\* MaybeStart for a tracker whose task is still running, or no tracker at all.
NothingToStart ==
  /\ pc = "start"
  /\ query \notin {q \in Queries : /\ tracker[q] # None
                                 /\ (tracker[q].state = "done" \/ IsDead(q))}
  /\ NextQuery
  /\ UNCHANGED <<now, slice, lastWindow, tracker, pos, result, task, downloaded>>

\* The tasks of the failed round are kept for the next one.
FaultyAbandonRound ==
  /\ pc' = "idle"
  /\ UNCHANGED <<result, task, tracker>>

\* An error ends the round.  Nobody will run the tasks collected so far.
AbandonRound ==
  LET dead == {t \in result : ~Live(t)}
  IN  /\ pc' = "idle" /\ result' = {}
      /\ task' = [t \in Tasks |-> IF t \in dead THEN None ELSE task[t]]
      /\ tracker' = Detach(dead)

\* MaybeStart fails for a tracker that got done after CheckIfDoneAndEnd looked at
\* it.
RoundFails ==
  /\ pc = "start"
  /\ tracker[query] # None
  /\ tracker[query].state = "done"
  /\ AbandonRound
  /\ UNCHANGED <<now, slice, lastWindow, pos, query, downloaded>>

\* pushTasks hands the tasks over in the order of their queries.
PushTask(t) ==
  /\ pc = "push"
  /\ t \in result
  /\ \A u \in result : task[t].query <= task[u].query
  /\ task' = [task EXCEPT ![t] = IF Live(t) THEN [@ EXCEPT !.phase = "running"] ELSE None]
  /\ tracker' = IF Live(t) THEN tracker ELSE Detach({t})
  /\ result' = result \ {t}
  /\ UNCHANGED <<now, slice, lastWindow, pc, pos, query, downloaded>>

\* A task that nobody is ready to receive is dropped.
FaultyPushFails ==
  /\ pc = "push"
  /\ result # {}
  /\ AbandonRound
  /\ UNCHANGED <<now, slice, lastWindow, pos, query, downloaded>>

\* The subscription is done: pushTasks may return its error instead.
PushFails ==
  /\ pc = "push"
  /\ result # {}
  /\ subs[pos] \in done
  /\ AbandonRound
  /\ UNCHANGED <<now, slice, lastWindow, pos, query, downloaded>>

NextSubscription ==
  /\ pc = "push"
  /\ result = {}
  /\ IF pos < Len(subs)
     THEN pc' = "check" /\ pos' = pos + 1 /\ query' = 1
     ELSE pc' = "idle" /\ UNCHANGED <<pos, query>>
  /\ UNCHANGED <<now, slice, lastWindow, tracker, result, task, downloaded>>

-----------------------------------------------------------------------------
(* RelayDownloader.performTask *)

\* The relay has sent all stored events of the window; the context is alive.
ReceiveEOSE(t) ==
  /\ t \in InUse /\ task[t].phase = "running"
  /\ Live(t)
  /\ task' = [task EXCEPT ![t].phase = "eose"]
  /\ downloaded' = downloaded \cup {<<task[t].query, task[t].window>>}
  /\ UNCHANGED <<now, slice, lastWindow, tracker, scheduler>>

MarkAsDone(t) ==
  /\ t \in InUse /\ task[t].phase = "eose"
  /\ tracker' = IF HasTracker(t) /\ tracker[task[t].query].state = "started"
                THEN [tracker EXCEPT ![task[t].query].state = "done"] ELSE tracker
  /\ task' = [task EXCEPT ![t] = IF Live(t) THEN [@ EXCEPT !.phase = "streaming"] ELSE None]
  /\ UNCHANGED <<now, slice, lastWindow, scheduler, downloaded>>

\* GetEvents fails; the context is alive.
TaskFails(t) ==
  /\ t \in InUse /\ task[t].phase = "running"
  /\ Live(t)
  /\ task' = [task EXCEPT ![t].phase = "failed"]
  /\ UNCHANGED <<now, slice, lastWindow, tracker, scheduler, downloaded>>

\* A failed task counts as done.
FaultyMarkAsFailed(t) ==
  /\ t \in InUse /\ task[t].phase = "failed"
  /\ LET q == task[t].query
     IN  tracker' = IF HasTracker(t) /\ tracker[q].state # "done"
                    THEN [Detach({t}) EXCEPT ![q].state = "done"] ELSE Detach({t})
  /\ task' = [task EXCEPT ![t] = None]
  /\ UNCHANGED <<now, slice, lastWindow, scheduler, downloaded>>

\* performTask returns.
MarkAsFailed(t) ==
  /\ t \in InUse /\ task[t].phase = "failed"
  /\ LET q == task[t].query
     IN  tracker' = IF HasTracker(t) /\ tracker[q].state # "done"
                    THEN [Detach({t}) EXCEPT ![q].state = "error"] ELSE Detach({t})
  /\ task' = [task EXCEPT ![t] = None]
  /\ UNCHANGED <<now, slice, lastWindow, scheduler, downloaded>>

-----------------------------------------------------------------------------

SchedulerNext ==
  \/ StartRound
  \/ SkipQuery
  \/ CheckTracker
  \/ \E t \in Tasks : StartTask(t)
  \/ NothingToStart
  \/ RoundFails
  \/ \E t \in Tasks : PushTask(t)
  \/ PushFails
  \/ NextSubscription

TaskNext(t) ==
  \/ ReceiveEOSE(t)
  \/ MarkAsDone(t)
  \/ TaskFails(t)
  \/ MarkAsFailed(t)

Next ==
  \/ TimePasses
  \/ AddSubscription
  \/ CancelSubscription
  \/ SchedulerNext
  \/ \E t \in Tasks : TaskNext(t)

Spec == Init /\ [][Next]_vars

(* Fairness.  The scheduler's loop and the goroutines keep running, and the   *)
(* downloader's refresh loop brings a dropped relay back; it gets the lock    *)
(* between two rounds (sync.Mutex does not starve).  A relay that is          *)
(* asked for a window again and again answers with EOSE in the end, and now   *)
(* and then there is something to ask every query for.                        *)
Fairness ==
  /\ WF_vars(TimePasses) /\ SF_vars(AddSubscription)
  /\ WF_vars(StartRound)
  /\ \A q \in Queries : SF_vars(query = q /\ CheckTracker)
  /\ WF_vars(\E t \in Tasks : StartTask(t)) /\ WF_vars(NothingToStart \/ RoundFails)
  /\ WF_vars(PushFails \/ \E t \in Tasks : PushTask(t)) /\ WF_vars(NextSubscription)
  /\ \A q \in Queries : SF_vars(\E t \in Tasks : ReceiveEOSE(t) /\ task[t].query = q)
  /\ \A t \in Tasks : WF_vars(MarkAsDone(t)) /\ WF_vars(MarkAsFailed(t))

FairSpec == Spec /\ Fairness

-----------------------------------------------------------------------------
(* Properties *)

TypeOK ==
  /\ now \in InitialWindowAge .. MaxTime
  /\ subscribed \in 0 .. MaxSubscriptions
  /\ done \subseteq 1 .. subscribed
  /\ subs \in Seq(1 .. subscribed)
  /\ lastWindow \in [Queries -> Windows]
  /\ tracker \in [Queries -> TrackerType \cup {None}]
  /\ pc \in {"idle", "check", "start", "push"}
  /\ pos \in Nat \ {0} /\ query \in Queries
  /\ pc # "idle" => pos <= Len(subs)
  /\ result \subseteq {t \in InUse : task[t].phase = "generated"}
  /\ pc = "idle" => result = {}
  /\ task \in [Tasks -> TaskType \cup {None}]
  /\ downloaded \subseteq Queries \X Windows

\* The first window that query q has not got done with.
NextWindow(q) == IF tracker[q] # None /\ tracker[q].state # "done"
                 THEN tracker[q].window
                 ELSE lastWindow[q]

\* A window is left behind only when the relay has sent EOSE for it to a live
\* task of the query: failed tasks, dropped subscriptions and late answers never
\* make a query skip a window (scheduler.go, time_window_task.go).
NoWindowSkipped ==
  \A q \in Queries : \A w \in Windows : w < NextWindow(q) => <<q, w>> \in downloaded

\* "we only allow 3 running queries at a time; for global, author and tag
\* queries across all subscription channels" (scheduler.go:162): at most one
\* task of each query has a live context, whatever the subscriptions do.
OneLiveTaskPerQuery ==
  \A t, u \in InUse :
    t # u /\ Live(t) /\ Live(u) => task[t].query # task[u].query

\* A task of the last query always reaches the relay's downloader: it is never
\* lost between MaybeStart and pushTasks.
LastQueryIsPushed ==
  pc = "idle" =>
    \A t \in InUse : Live(t) /\ task[t].query = NumQueries => task[t].phase # "generated"

\* Only one tracker waits for a window at a time, so the windows of a query are
\* downloaded in order and as the abstract scheduler does it.
Sequential == INSTANCE SequentialDownload WITH next <- [q \in Queries |-> NextWindow(q)]
SequentialSpec == Sequential!Spec

\* The last query keeps up: however often tasks fail and subscriptions are replaced,
\* it gets to where every window that has elapsed is downloaded.  As the time of the
\* model ends, no elapsed window is left out for ever.
LastQueryKeepsUp ==
  []<>(\A w \in Windows : Elapsed(w) => <<NumQueries, w>> \in downloaded)

\* "Each task generated will be pushed to all subscribers of the scheduler"
\* (scheduler.go:343): between rounds no live task is left that was not pushed.
GeneratedTasksArePushed ==
  pc = "idle" => \A t \in InUse : Live(t) => task[t].phase # "generated"
=============================================================================
