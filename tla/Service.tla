------------------------------ MODULE Service ------------------------------
(***************************************************************************)
(* The process as a whole: once the migrations are done, di.Service.Run    *)
(* starts the runners, waits for the first of them to return, tells the    *)
(* others to stop and collects them or, after shutdownTimeout, exits.      *)
(*                                                                         *)
(* Two runners matter by themselves.  Received, ReceivedEventSubscriber,   *)
(* takes the received events from a GoChannelPubSub, to which the tasks of *)
(* the relay downloaders publish them under the pubsub's lock.  Saved,     *)
(* EventSavedEventSubscriber, ranges over a channel that is never closed   *)
(* (PubSub.Subscribe of package sqlite), so it does not stop when told to. *)
(*                                                                         *)
(* A task publishes the events of its window one after the other and then  *)
(* sees the end of stored events.  The channel of the subscription and its *)
(* place in the list of subscriptions are one variable: it goes from none  *)
(* to open, removed from the list, and closed.                             *)
(***************************************************************************)
EXTENDS Migrations

CONSTANTS Runners,         \* the runners of Service.Run
          Received, Saved, \* two of them
          Tasks,           \* tasks of relay downloaders
          NumEvents,       \* events of a task's window
          Nobody           \* holder of a lock that is free

ASSUME ServiceAssumption ==
  /\ Received \in Runners /\ Saved \in Runners /\ Received # Saved
  /\ NumEvents \in Nat
  /\ Nobody \notin Tasks

VARIABLES
  runner,       \* what each runner does
  cancelled,    \* the context of Service.Run is done
  subscription, \* the channel of GoChannelPubSub.Subscribe
  lock,         \* holder of GoChannelPubSub.lock across steps
  busy,         \* Received is inside SaveReceivedEventHandler.Handle
  taskPc,
  published,    \* events each task is done with
  handed,       \* history: events of each task that were handed over
  missed        \* history: tasks that published before there was a subscription

runnerVars == <<runner, cancelled>>
pubsubVars == <<subscription, lock, busy, taskPc, published, handed, missed>>
vars == <<migrationVars, runnerVars, pubsubVars>>

AllOff ==
  /\ runner' = [r \in Runners |-> "off"] /\ cancelled' = FALSE
  /\ subscription' = "none" /\ lock' = Nobody /\ busy' = FALSE
  /\ taskPc' = [t \in Tasks |-> "publishing"]
  /\ published' = [t \in Tasks |-> 0] /\ handed' = [t \in Tasks |-> 0]
  /\ missed' = {}

Init ==
  /\ MigrationsInit
  /\ runner = [r \in Runners |-> "off"] /\ cancelled = FALSE
  /\ subscription = "none" /\ lock = Nobody /\ busy = FALSE
  /\ taskPc = [t \in Tasks |-> "publishing"]
  /\ published = [t \in Tasks |-> 0] /\ handed = [t \in Tasks |-> 0]
  /\ missed = {}

Up == phase \in {"running", "stopping"}

KeepMigrations == UNCHANGED <<schema, status, migration, statement, failed>>

-----------------------------------------------------------------------------
(* Service.Run and goroutine.Run *)

StartRunners ==
  /\ phase = "migrated"
  /\ phase' = "running"
  /\ runner' = [r \in Runners |-> "running"]
  /\ KeepMigrations
  /\ UNCHANGED <<faults, cancelled, pubsubVars>>

\* A runner that panics is gone and nobody is told.
FaultyRunnerFails(r) ==
  /\ Up
  /\ runner[r] = "running"
  /\ Fault
  /\ runner' = [runner EXCEPT ![r] = "gone"]
  /\ busy' = IF r = Received THEN FALSE ELSE busy
  /\ phase' = phase
  /\ KeepMigrations
  /\ UNCHANGED <<cancelled, subscription, lock, taskPc, published, handed, missed>>

\* A runner returns an error or panics, which goroutine.Run turns into an error;
\* it waits to send it to errCh.
RunnerFails(r) ==
  /\ Up
  /\ runner[r] = "running"
  /\ Fault
  /\ runner' = [runner EXCEPT ![r] = "returned"]
  /\ busy' = IF r = Received THEN FALSE ELSE busy
  /\ phase' = phase
  /\ KeepMigrations
  /\ UNCHANGED <<cancelled, subscription, lock, taskPc, published, handed, missed>>

\* A runner notices that its context is done.
RunnerStops(r) ==
  /\ cancelled
  /\ runner[r] = "running"
  /\ r \notin {Received, Saved}
  /\ runner' = [runner EXCEPT ![r] = "returned"]
  /\ UNCHANGED <<migrationVars, cancelled, pubsubVars>>

\* ReceivedEventSubscriber.Run returns when its channel is closed.
ReceivedStops ==
  /\ runner[Received] = "running"
  /\ subscription = "closed"
  /\ ~busy
  /\ runner' = [runner EXCEPT ![Received] = "returned"]
  /\ UNCHANGED <<migrationVars, cancelled, pubsubVars>>

\* The first error ends the wait of Service.Run, which cancels the context.
CollectFirst(r) ==
  /\ phase = "running"
  /\ runner[r] = "returned"
  /\ runner' = [runner EXCEPT ![r] = "collected"]
  /\ cancelled' = TRUE
  /\ phase' = "stopping"
  /\ KeepMigrations
  /\ UNCHANGED <<faults, pubsubVars>>

Collect(r) ==
  /\ phase = "stopping"
  /\ runner[r] = "returned"
  /\ runner' = [runner EXCEPT ![r] = "collected"]
  /\ UNCHANGED <<migrationVars, cancelled, pubsubVars>>

Exit ==
  /\ phase' = "down"
  /\ AllOff
  /\ KeepMigrations

\* All runners are collected and Service.Run returns.
Return ==
  /\ phase = "stopping"
  /\ \A r \in Runners : runner[r] = "collected"
  /\ Exit
  /\ UNCHANGED faults

\* The collector waits without a limit.
FaultyShutdownTimeout == FALSE /\ UNCHANGED vars

\* shutdownTimeout has passed: os.Exit(1).
ShutdownTimeout ==
  /\ phase = "stopping"
  /\ Exit
  /\ UNCHANGED faults

Kill ==
  /\ Up
  /\ Fault
  /\ Exit

-----------------------------------------------------------------------------
(* GoChannelPubSub, its subscriber and its publishers *)

\* addSubscription
Subscribe ==
  /\ runner[Received] = "running"
  /\ subscription = "none"
  /\ lock = Nobody
  /\ subscription' = "open"
  /\ UNCHANGED <<migrationVars, runnerVars, lock, busy, taskPc, published, handed,
                 missed>>

\* The channel is closed while a publisher may be offering an event on it.
FaultyRemoveSubscription ==
  /\ cancelled
  /\ subscription = "open"
  /\ subscription' = "removed"
  /\ UNCHANGED <<migrationVars, runnerVars, lock, busy, taskPc, published, handed,
                 missed>>

\* The goroutine of Subscribe, once the context is done: removeSubscription takes
\* the lock, and then the channel is closed.
RemoveSubscription ==
  /\ cancelled
  /\ subscription = "open"
  /\ lock = Nobody
  /\ subscription' = "removed"
  /\ UNCHANGED <<migrationVars, runnerVars, lock, busy, taskPc, published, handed,
                 missed>>

CloseChannel ==
  /\ subscription = "removed"
  /\ subscription' = "closed"
  /\ UNCHANGED <<migrationVars, runnerVars, lock, busy, taskPc, published, handed,
                 missed>>

\* SaveReceivedEventHandler.Handle returns; an error is only logged.
Handled ==
  /\ busy
  /\ busy' = FALSE
  /\ UNCHANGED <<migrationVars, runnerVars, subscription, lock, taskPc, published,
                 handed, missed>>

\* t is done with an event.
Advance(t) ==
  /\ published' = [published EXCEPT ![t] = @ + 1]
  /\ taskPc' = [taskPc EXCEPT ![t] = "publishing"]

\* Publish finds no subscription.
PublishToNobody(t) ==
  /\ Up
  /\ taskPc[t] = "publishing" /\ published[t] < NumEvents
  /\ lock = Nobody
  /\ subscription # "open"
  /\ Advance(t)
  /\ missed' = IF subscription = "none" THEN missed \cup {t} ELSE missed
  /\ UNCHANGED <<migrationVars, runnerVars, subscription, lock, busy, handed>>

\* Publish takes the lock and waits for the subscriber or the end of its context.
Publish(t) ==
  /\ Up
  /\ taskPc[t] = "publishing" /\ published[t] < NumEvents
  /\ lock = Nobody
  /\ subscription = "open"
  /\ lock' = t
  /\ taskPc' = [taskPc EXCEPT ![t] = "offering"]
  /\ UNCHANGED <<migrationVars, runnerVars, subscription, busy, published, handed,
                 missed>>

HandOver(t) ==
  /\ taskPc[t] = "offering"
  /\ runner[Received] = "running" /\ ~busy
  /\ busy' = TRUE
  /\ Advance(t)
  /\ handed' = [handed EXCEPT ![t] = @ + 1]
  /\ lock' = Nobody
  /\ UNCHANGED <<migrationVars, runnerVars, subscription, missed>>

\* An event is given up when the subscriber does not take it at once.
FaultyGiveUp(t) ==
  /\ taskPc[t] = "offering"
  /\ Advance(t)
  /\ lock' = Nobody
  /\ UNCHANGED <<migrationVars, runnerVars, subscription, busy, handed, missed>>

GiveUp(t) ==
  /\ taskPc[t] = "offering"
  /\ cancelled
  /\ Advance(t)
  /\ lock' = Nobody
  /\ UNCHANGED <<migrationVars, runnerVars, subscription, busy, handed, missed>>

\* The end of stored events follows the last event in the channel of GetEvents.
ReceiveEOSE(t) ==
  /\ Up
  /\ taskPc[t] = "publishing" /\ published[t] = NumEvents
  /\ taskPc' = [taskPc EXCEPT ![t] = "done"]
  /\ UNCHANGED <<migrationVars, runnerVars, subscription, lock, busy, published,
                 handed, missed>>

\* The window after that is asked for.
NextTask(t) ==
  /\ taskPc[t] = "done"
  /\ taskPc' = [taskPc EXCEPT ![t] = "publishing"]
  /\ published' = [published EXCEPT ![t] = 0]
  /\ handed' = [handed EXCEPT ![t] = 0]
  /\ missed' = missed \ {t}
  /\ UNCHANGED <<migrationVars, runnerVars, subscription, lock, busy>>

Migrate == (Start \/ MigrationStep \/ Die) /\ UNCHANGED <<runnerVars, pubsubVars>>

Next ==
  \/ Migrate
  \/ StartRunners \/ Return \/ ShutdownTimeout \/ Kill
  \/ \E r \in Runners :
       RunnerFails(r) \/ RunnerStops(r) \/ CollectFirst(r) \/ Collect(r)
  \/ ReceivedStops
  \/ Subscribe \/ RemoveSubscription \/ CloseChannel \/ Handled
  \/ \E t \in Tasks :
       PublishToNobody(t) \/ Publish(t) \/ HandOver(t) \/ GiveUp(t)
       \/ ReceiveEOSE(t) \/ NextTask(t)

Spec == Init /\ [][Next]_vars

\* The process is started again whenever it is down and works through its
\* migrations; Service.Run receives from errCh; the timer of the shutdown fires.
Fairness ==
  /\ WF_vars(Start /\ UNCHANGED <<runnerVars, pubsubVars>>)
  /\ WF_vars(MigrationStep /\ UNCHANGED <<runnerVars, pubsubVars>>)
  /\ WF_vars(StartRunners)
  /\ WF_vars(\E r \in Runners : CollectFirst(r))
  /\ WF_vars(ShutdownTimeout)

FairSpec == Spec /\ Fairness

-----------------------------------------------------------------------------
TypeOK ==
  /\ schema \subseteq Objects
  /\ status \in [Migrations -> {"none", "failed", "finished"}]
  /\ phase \in {"down", "considering", "executing", "saving", "migrated", "running",
                "stopping"}
  /\ migration \in Migrations
  /\ statement \in 1 .. Len(Statements[migration]) + 1
  /\ failed \in BOOLEAN
  /\ faults \in 0 .. MaxFaults
  /\ runner \in [Runners -> {"off", "running", "returned", "collected"}]
  /\ cancelled \in BOOLEAN
  /\ subscription \in {"none", "open", "removed", "closed"}
  /\ lock \in Tasks \cup {Nobody}
  /\ busy \in BOOLEAN
  /\ taskPc \in [Tasks -> {"publishing", "offering", "done"}]
  /\ published \in [Tasks -> 0 .. NumEvents]
  /\ handed \in [Tasks -> 0 .. NumEvents]
  /\ missed \subseteq Tasks

\* No runner works on a database that lacks a table, a column or an index it
\* needs, whatever failed or crashed in earlier starts.
SchemaBeforeRunners == Up => schema = Objects

\* A goroutine that sends on a closed channel brings the process down, and the
\* tasks are not run by goroutine.Run: while a publisher offers an event on the
\* channel of the subscription it is not closed.
NoSendOnClosedChannel ==
  \A t \in Tasks : taskPc[t] = "offering" => subscription = "open"

\* A window is done when its end of stored events is seen, and is not asked for
\* again.  By then each of its events has been handed to the saver, unless the
\* task published before the saver subscribed or the service is stopping.
HandedOverBeforeEOSE ==
  \A t \in Tasks :
    taskPc[t] = "done" /\ ~cancelled /\ t \notin missed => handed[t] = NumEvents

\* When a runner is not running any more, be it by a panic, the process ends, so
\* that it can be started again: there is no half-dead service.
StopsAfterFirstError ==
  (Up /\ \E r \in Runners : runner[r] # "running") ~> phase = "down"

\* Once crashes and failures cease the service runs, unless one of them fell
\* between the ALTER TABLE of the last migration and the save of its status: then
\* it never starts again.
StartsUnlessTorn == <>[](phase = "running") \/ <>[]Torn

=============================================================================
