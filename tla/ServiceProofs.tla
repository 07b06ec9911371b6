--------------------------- MODULE ServiceProofs ---------------------------
(***************************************************************************)
(* What the migrations, the runners and the in-memory pubsub guarantee for *)
(* any number of runners, tasks, events, crashes and failed calls.         *)
(***************************************************************************)
EXTENDS Service, TLAPS

\* The migrations m has carried out are there.
Done(m) == \A i \in DOMAIN Statements[m] : Statements[m][i] \in schema

\* A status says "finished" only of what was carried out, and a migration is
\* looked at only when all before it are finished.
MigrationsInv ==
  /\ \A m \in Migrations : status[m] = "finished" => Done(m)
  /\ phase = "executing" =>
       \A i \in DOMAIN Statements[migration] :
         i < statement => Statements[migration][i] \in schema
  /\ phase = "saving" /\ ~failed => Done(migration)
  /\ phase \in {"considering", "executing", "saving"} =>
       \A m \in Migrations : m < migration => status[m] = "finished"
  /\ phase \in {"migrated", "running", "stopping"} =>
       \A m \in Migrations : status[m] = "finished"
  /\ phase # "executing" => statement = 1

\* A publisher that offers an event holds the lock, and until the service stops
\* everything a task is done with has been handed over.
PubSubInv ==
  /\ \A t \in Tasks :
       /\ taskPc[t] = "offering" =>
            lock = t /\ subscription = "open" /\ published[t] < NumEvents
       /\ taskPc[t] = "done" => published[t] = NumEvents
       /\ handed[t] <= published[t]
       /\ ~cancelled /\ t \notin missed => handed[t] = published[t]
  /\ subscription \in {"removed", "closed"} => cancelled

IInv == TypeOK /\ MigrationsInv /\ PubSubInv

-----------------------------------------------------------------------------
(* The migrations *)

\* There are three migrations, and each is a sequence of objects to make.
LEMMA StatementsTyping ==
  /\ Migrations = 1 .. 3
  /\ \A m \in Migrations :
       /\ Len(Statements[m]) \in Nat
       /\ DOMAIN Statements[m] = 1 .. Len(Statements[m])
       /\ \A i \in DOMAIN Statements[m] : Statements[m][i] \in Objects
  /\ \A x \in Objects : \E m \in Migrations :
       \E i \in DOMAIN Statements[m] : x = Statements[m][i]
<1>1. Migrations = 1 .. 3
  BY DEF Migrations, Statements
<1>2. ASSUME NEW m \in Migrations
      PROVE  Len(Statements[m]) \in Nat /\ DOMAIN Statements[m] = 1 .. Len(Statements[m])
  <2>1. CASE m = 1
    BY <2>1 DEF Statements, Initial
  <2>2. CASE m = 2
    BY <2>2 DEF Statements, CreatePubsubTables
  <2>3. CASE m = 3
    BY <2>3 DEF Statements, AddProcessedAtColumn
  <2> QED
    BY <1>1, <2>1, <2>2, <2>3
<1>3. ASSUME NEW x \in Objects
      PROVE  \E m \in Migrations : \E i \in DOMAIN Statements[m] : x = Statements[m][i]
  BY DEF Objects
<1>4. ASSUME NEW m \in Migrations, NEW i \in DOMAIN Statements[m]
      PROVE  Statements[m][i] \in Objects
  BY DEF Objects
<1> QED
  BY <1>1, <1>2, <1>3, <1>4

LEMMA Initially == Init => IInv
<1> SUFFICES ASSUME Init PROVE IInv
  OBVIOUS
<1>1. failed \in BOOLEAN /\ cancelled \in BOOLEAN /\ busy \in BOOLEAN
  BY Zenon DEF Init, MigrationsInit
<1>2. TypeOK
  BY <1>1, StatementsTyping, MigrationsAssumption, ServiceAssumption
  DEF Init, MigrationsInit, TypeOK
<1> QED
  BY <1>2 DEF Init, MigrationsInit, IInv, MigrationsInv, PubSubInv

\* The variables of the migrations and those of the rest are typed apart.
MigrationsTypeOK ==
  /\ schema \subseteq Objects
  /\ status \in [Migrations -> {"none", "failed", "finished"}]
  /\ phase \in {"down", "considering", "executing", "saving", "migrated", "running",
                "stopping"}
  /\ migration \in Migrations
  /\ statement \in 1 .. Len(Statements[migration]) + 1
  /\ failed \in BOOLEAN
  /\ faults \in 0 .. MaxFaults

RunnersTypeOK ==
  /\ runner \in [Runners -> {"off", "running", "returned", "collected"}]
  /\ cancelled \in BOOLEAN
  /\ subscription \in {"none", "open", "removed", "closed"}
  /\ lock \in Tasks \cup {Nobody}
  /\ busy \in BOOLEAN
  /\ taskPc \in [Tasks -> {"publishing", "offering", "done"}]
  /\ published \in [Tasks -> 0 .. NumEvents]
  /\ handed \in [Tasks -> 0 .. NumEvents]
  /\ missed \subseteq Tasks

LEMMA TypesApart == TypeOK <=> MigrationsTypeOK /\ RunnersTypeOK
BY DEF TypeOK, MigrationsTypeOK, RunnersTypeOK

\* A step of the migrations leaves what it has to leave.
LEMMA MigrationsKeep ==
  ASSUME MigrationsTypeOK, MigrationsInv, Start \/ MigrationStep \/ Die
  PROVE  MigrationsTypeOK' /\ MigrationsInv'
<1> USE StatementsTyping, MigrationsAssumption
    DEF MigrationsTypeOK, MigrationsInv, Fault
<1>1. CASE Start
  BY <1>1 DEF Start, Done
<1>2. CASE RunMigration
  BY <1>2 DEF RunMigration, Done
<1>3. CASE SkipMigration
  BY <1>3 DEF SkipMigration, NextMigration, ShouldRun, Done
<1>4. CASE ExecuteStatement
  BY <1>4 DEF ExecuteStatement, Done
<1>5. CASE FunctionSucceeds
  <2>1. statement = Len(Statements[migration]) + 1
    BY <1>5 DEF FunctionSucceeds
  <2>2. Done(migration)
    BY <1>5, <2>1 DEF FunctionSucceeds, Done
  <2>3. failed' \in BOOLEAN
    BY <1>5, Zenon DEF FunctionSucceeds, FunctionReturns
  <2>4. Done(migration)'
    BY <1>5, <2>2 DEF FunctionSucceeds, FunctionReturns, Done
  <2> QED
    BY <1>5, <2>3, <2>4 DEF FunctionSucceeds, FunctionReturns, Done
<1>6. CASE StatementFails
  BY <1>6 DEF StatementFails, FunctionReturns, Done
<1>7. CASE SaveStatus
  <2>1. /\ StatusFromError \in {"failed", "finished"}
        /\ StatusFromError = "finished" => ~failed
    BY DEF StatusFromError
  <2>2. \A m \in Migrations : status'[m] = IF m = migration THEN StatusFromError ELSE status[m]
    BY <1>7 DEF SaveStatus
  <2> QED
    BY <1>7, <2>1, <2>2 DEF SaveStatus, NextMigration, StatusFromError, Done
<1>8. CASE Die
  BY <1>8 DEF Die, Done
<1> QED
  BY <1>1, <1>2, <1>3, <1>4, <1>5, <1>6, <1>7, <1>8 DEF MigrationStep

\* The other steps change the phase and count faults, and no more, of what the
\* migrations keep.
LEMMA MigrationsRest ==
  ASSUME MigrationsTypeOK, MigrationsInv, KeepMigrations,
         \/ phase' = phase \/ phase' = "down"
         \/ /\ phase \in {"migrated", "running", "stopping"}
            /\ phase' \in {"migrated", "running", "stopping"},
         Fault \/ UNCHANGED faults, phase # "executing"
  PROVE  MigrationsTypeOK' /\ MigrationsInv'
BY StatementsTyping, MigrationsAssumption
DEF MigrationsTypeOK, MigrationsInv, Fault, KeepMigrations, Done

-----------------------------------------------------------------------------
(* The runners and the pubsub *)

\* The actions of the runners that leave the pubsub alone.
LEMMA RunnersStep ==
  ASSUME RunnersTypeOK, PubSubInv, NEW r \in Runners,
         \/ StartRunners \/ RunnerFails(r) \/ RunnerStops(r) \/ ReceivedStops
         \/ CollectFirst(r) \/ Collect(r)
  PROVE  RunnersTypeOK' /\ PubSubInv'
<1> USE ServiceAssumption DEF RunnersTypeOK, PubSubInv, pubsubVars
<1>1. CASE StartRunners
  BY <1>1 DEF StartRunners
<1>2. CASE RunnerFails(r)
  BY <1>2 DEF RunnerFails
<1>3. CASE RunnerStops(r)
  BY <1>3 DEF RunnerStops
<1>4. CASE ReceivedStops
  BY <1>4 DEF ReceivedStops
<1>5. CASE CollectFirst(r)
  BY <1>5 DEF CollectFirst
<1>6. CASE Collect(r)
  BY <1>6 DEF Collect
<1> QED
  BY <1>1, <1>2, <1>3, <1>4, <1>5, <1>6

\* The process has gone and the next one starts with nothing.
LEMMA ExitStep == Exit => RunnersTypeOK' /\ PubSubInv'
<1> SUFFICES ASSUME Exit PROVE RunnersTypeOK' /\ PubSubInv'
  OBVIOUS
<1>1. cancelled' \in BOOLEAN /\ busy' \in BOOLEAN
  BY Zenon DEF Exit, AllOff
<1> QED
  BY <1>1, ServiceAssumption DEF Exit, AllOff, RunnersTypeOK, PubSubInv

\* The subscription is only removed when nobody publishes.
LEMMA SubscriptionStep ==
  ASSUME RunnersTypeOK, PubSubInv,
         Subscribe \/ RemoveSubscription \/ CloseChannel \/ Handled
  PROVE  RunnersTypeOK' /\ PubSubInv'
<1> USE ServiceAssumption DEF RunnersTypeOK, PubSubInv, runnerVars
<1>1. CASE Subscribe
  BY <1>1 DEF Subscribe
<1>2. CASE RemoveSubscription
  BY <1>2 DEF RemoveSubscription
<1>3. CASE CloseChannel
  BY <1>3 DEF CloseChannel
<1>4. CASE Handled
  BY <1>4 DEF Handled
<1> QED
  BY <1>1, <1>2, <1>3, <1>4

\* A publisher holds the lock from its first look at the subscriptions on.
LEMMA TaskStep ==
  ASSUME RunnersTypeOK, PubSubInv, NEW t \in Tasks,
         \/ PublishToNobody(t) \/ Publish(t) \/ HandOver(t) \/ GiveUp(t)
         \/ ReceiveEOSE(t) \/ NextTask(t)
  PROVE  RunnersTypeOK' /\ PubSubInv'
<1> USE ServiceAssumption DEF RunnersTypeOK, PubSubInv, runnerVars, Advance
<1>1. CASE PublishToNobody(t)
  BY <1>1 DEF PublishToNobody
<1>2. CASE Publish(t)
  BY <1>2 DEF Publish
<1>3. CASE HandOver(t)
  BY <1>3 DEF HandOver
<1>4. CASE GiveUp(t)
  BY <1>4 DEF GiveUp
<1>5. CASE ReceiveEOSE(t)
  BY <1>5 DEF ReceiveEOSE
<1>6. CASE NextTask(t)
  BY <1>6 DEF NextTask
<1> QED
  BY <1>1, <1>2, <1>3, <1>4, <1>5, <1>6

-----------------------------------------------------------------------------

LEMMA Preserved == IInv /\ [Next]_vars => IInv'
<1> SUFFICES ASSUME MigrationsTypeOK, MigrationsInv, RunnersTypeOK, PubSubInv, [Next]_vars
             PROVE  /\ MigrationsTypeOK' /\ MigrationsInv'
                    /\ RunnersTypeOK' /\ PubSubInv'
  BY TypesApart, PTL DEF IInv
<1>1. CASE Migrate
  <2>1. RunnersTypeOK' /\ PubSubInv'
    BY <1>1 DEF Migrate, runnerVars, pubsubVars, RunnersTypeOK, PubSubInv
  <2> QED
    BY <1>1, <2>1, MigrationsKeep DEF Migrate
<1>2. ASSUME NEW r \in Runners,
             \/ StartRunners \/ RunnerFails(r) \/ RunnerStops(r) \/ ReceivedStops
             \/ CollectFirst(r) \/ Collect(r)
      PROVE  /\ MigrationsTypeOK' /\ MigrationsInv'
             /\ RunnersTypeOK' /\ PubSubInv'
  <2>1. MigrationsTypeOK' /\ MigrationsInv'
    <3>1. CASE UNCHANGED migrationVars
      BY <3>1 DEF migrationVars, MigrationsTypeOK, MigrationsInv, Done
    <3>2. CASE StartRunners \/ RunnerFails(r) \/ CollectFirst(r)
      BY <3>2, MigrationsRest DEF StartRunners, RunnerFails, CollectFirst, Up
    <3> QED
      BY <1>2, <3>1, <3>2 DEF RunnerStops, ReceivedStops, Collect
  <2> QED
    BY <1>2, <2>1, RunnersStep
<1>3. ASSUME Return \/ ShutdownTimeout \/ Kill
      PROVE  /\ MigrationsTypeOK' /\ MigrationsInv'
             /\ RunnersTypeOK' /\ PubSubInv'
  <2>1. Exit
    BY <1>3 DEF Return, ShutdownTimeout, Kill
  <2>2. MigrationsTypeOK' /\ MigrationsInv'
    BY <1>3, <2>1, MigrationsRest DEF Return, ShutdownTimeout, Kill, Exit, Up
  <2> QED
    BY <2>1, <2>2, ExitStep
<1>4. ASSUME NEW t \in Tasks,
             \/ PublishToNobody(t) \/ Publish(t) \/ HandOver(t) \/ GiveUp(t)
             \/ ReceiveEOSE(t) \/ NextTask(t)
      PROVE  /\ MigrationsTypeOK' /\ MigrationsInv'
             /\ RunnersTypeOK' /\ PubSubInv'
  <2>1. UNCHANGED migrationVars
    BY <1>4 DEF PublishToNobody, Publish, HandOver, GiveUp, ReceiveEOSE, NextTask
  <2>2. MigrationsTypeOK' /\ MigrationsInv'
    BY <2>1 DEF migrationVars, MigrationsTypeOK, MigrationsInv, Done
  <2> QED
    BY <1>4, <2>2, TaskStep
<1>5. ASSUME Subscribe \/ RemoveSubscription \/ CloseChannel \/ Handled
      PROVE  /\ MigrationsTypeOK' /\ MigrationsInv'
             /\ RunnersTypeOK' /\ PubSubInv'
  <2>1. UNCHANGED migrationVars
    BY <1>5 DEF Subscribe, RemoveSubscription, CloseChannel, Handled
  <2>2. MigrationsTypeOK' /\ MigrationsInv'
    BY <2>1 DEF migrationVars, MigrationsTypeOK, MigrationsInv, Done
  <2> QED
    BY <1>5, <2>2, SubscriptionStep
<1>6. CASE UNCHANGED vars
  BY <1>6 DEF vars, migrationVars, runnerVars, pubsubVars, MigrationsTypeOK, MigrationsInv,
     Done, RunnersTypeOK, PubSubInv
<1> QED
  BY <1>1, <1>2, <1>3, <1>4, <1>5, <1>6, ServiceAssumption DEF Next

LEMMA Invariant == Spec => []IInv
BY Initially, Preserved, PTL DEF Spec

-----------------------------------------------------------------------------

\* Type correctness of the whole process.
THEOREM TypeCorrect == Spec => []TypeOK
<1>1. IInv => TypeOK
  BY DEF IInv
<1> QED
  BY <1>1, Invariant, PTL

\* The runners are only started on the whole schema: a status that says "finished"
\* is saved after every statement of its migration, however often a start was cut
\* short, and the runners follow the last status.
THEOREM RunnersFindTheSchema == Spec => []SchemaBeforeRunners
<1>1. IInv => SchemaBeforeRunners
  <2> SUFFICES ASSUME IInv, Up PROVE Objects \subseteq schema /\ schema \subseteq Objects
    BY DEF SchemaBeforeRunners
  <2>1. \A m \in Migrations : Done(m)
    BY DEF IInv, MigrationsInv, Up
  <2>2. Objects \subseteq schema
    BY <2>1, StatementsTyping DEF Done
  <2> QED
    BY <2>2 DEF IInv, TypeOK
<1> QED
  BY <1>1, Invariant, PTL

\* The channel of a subscription is closed only after nobody can send on it: the
\* goroutine that closes it has held the lock of the publishers in between.
THEOREM ChannelIsOpen == Spec => []NoSendOnClosedChannel
<1>1. IInv => NoSendOnClosedChannel
  BY DEF IInv, PubSubInv, NoSendOnClosedChannel
<1> QED
  BY <1>1, Invariant, PTL

\* When a task sees the end of stored events, all its events have been handed over.
THEOREM WindowsAreHandedOver == Spec => []HandedOverBeforeEOSE
<1>1. IInv => HandedOverBeforeEOSE
  BY DEF IInv, PubSubInv, HandedOverBeforeEOSE
<1> QED
  BY <1>1, Invariant, PTL

-----------------------------------------------------------------------------
(* Migrations that are finished, and one that cannot be *)

\* A migration that is being carried out is not known to be finished.
NotAgain == phase \in {"executing", "saving"} => status[migration] # "finished"

\* A status turns to "finished" only as the runner goes on to the next migration.
LEMMA NotAgainKept ==
  ASSUME IInv, NotAgain, [Next]_vars
  PROVE  NotAgain'
<1> USE DEF NotAgain, migrationVars
<1>1. CASE UNCHANGED <<phase, status, migration>>
  BY <1>1
<1>2. CASE phase' \notin {"executing", "saving"}
  BY <1>2
<1>3. CASE Migrate
  BY <1>1, <1>2, <1>3 DEF Migrate, Start, MigrationStep, RunMigration, ShouldRun,
     SkipMigration, NextMigration, ExecuteStatement, FunctionSucceeds, StatementFails,
     FunctionReturns, SaveStatus, Die
<1> QED
  BY <1>1, <1>2, <1>3 DEF Next, StartRunners, Return, ShutdownTimeout, Kill, Exit,
     KeepMigrations, RunnerFails, RunnerStops, CollectFirst, Collect, ReceivedStops, Subscribe,
     RemoveSubscription, CloseChannel, Handled, PublishToNobody, Publish, HandOver, GiveUp,
     ReceiveEOSE, NextTask, vars

LEMMA MigrationsInvariant == Spec => [](IInv /\ NotAgain)
<1>1. Init => NotAgain
  BY DEF Init, MigrationsInit, NotAgain
<1> QED
  BY <1>1, Initially, Preserved, NotAgainKept, PTL DEF Spec

\* All steps but those of Migrate keep the schema and the statuses; they come when
\* the migrations are through.
LEMMA OtherSteps ==
  ASSUME [Next]_vars, ~Migrate
  PROVE  /\ UNCHANGED <<schema, status, migration, statement, failed>>
         /\ \/ UNCHANGED phase
            \/ StartRunners /\ phase = "migrated" /\ phase' = "running"
            \/ phase = "running" /\ phase' = "stopping"
            \/ phase \in {"running", "stopping"} /\ phase' = "down"
BY DEF Next, StartRunners, Return, ShutdownTimeout, Kill, Exit, Up, KeepMigrations,
   RunnerFails, RunnerStops, CollectFirst, Collect, ReceivedStops, Subscribe,
   RemoveSubscription, CloseChannel, Handled, PublishToNobody, Publish, HandOver, GiveUp,
   ReceiveEOSE, NextTask, vars, migrationVars

Upgrades == INSTANCE Upgrade
  WITH finished <- {m \in Migrations : status[m] = "finished"}, made <- schema, serving <- Up,
       MadeBy <- [m \in Migrations |-> {Statements[m][i] : i \in DOMAIN Statements[m]}]

\* What a statement makes is one of the objects of its migration.
LEMMA MadeByStatements ==
  ASSUME NEW m \in Migrations
  PROVE  /\ \A i \in DOMAIN Statements[m] :
              Statements[m][i] \in {Statements[m][j] : j \in DOMAIN Statements[m]}
         /\ Done(m) => {Statements[m][j] : j \in DOMAIN Statements[m]} \subseteq schema
BY DEF Done

\* Saving a status finishes a migration or tells that it has failed, which is no news
\* to anybody above.
LEMMA SaveStatusFinishes ==
  ASSUME IInv, NotAgain, SaveStatus
  PROVE  Upgrades!Finish(migration) \/ UNCHANGED Upgrades!vars
<1> DEFINE Finished == {m \in Migrations : status[m] = "finished"}
<1> USE DEF IInv, TypeOK
<1>1. /\ phase = "saving" /\ migration \in Migrations /\ UNCHANGED schema
      /\ status[migration] # "finished"
      /\ status' = [status EXCEPT ![migration] = StatusFromError]
  BY DEF SaveStatus, NotAgain
<1>2. Up = FALSE /\ Up' = FALSE
  BY <1>1 DEF SaveStatus, NextMigration, Up
<1>3. CASE failed
  <2>1. Finished' = Finished
    BY <1>1, <1>3 DEF StatusFromError
  <2> QED
    BY <1>1, <1>2, <2>1 DEF Upgrades!vars
<1>4. CASE ~failed
  <2>1. Finished' = Finished \cup {migration}
    BY <1>1, <1>4 DEF StatusFromError
  <2>2. \A n \in Migrations : n < migration => n \in Finished
    BY <1>1 DEF MigrationsInv
  <2>3. {Statements[migration][j] : j \in DOMAIN Statements[migration]} \subseteq schema
    BY <1>1, <1>4, MadeByStatements DEF MigrationsInv
  <2> QED
    BY <1>1, <1>2, <2>1, <2>2, <2>3 DEF Upgrades!Finish
<1> QED
  BY <1>3, <1>4

\* However often the process dies between two statements or before a status is saved,
\* and whatever fails and is done again, the migrations are finished in order, each
\* once and for good, and the service is up only when all are.
THEOREM ImplementsUpgrade == Spec => Upgrades!Spec
<1> DEFINE Finished == {m \in Migrations : status[m] = "finished"}
<1>1. Init => Upgrades!Init
  <2> SUFFICES ASSUME Init PROVE Upgrades!Init
    OBVIOUS
  <2>1. Finished = {} /\ schema = {}
    BY DEF Init, MigrationsInit
  <2>2. Up = FALSE
    BY DEF Init, MigrationsInit, Up
  <2> QED
    BY <2>1, <2>2 DEF Upgrades!Init
<1>2. IInv /\ NotAgain /\ [Next]_vars => [Upgrades!Next]_(Upgrades!vars)
  <2> SUFFICES ASSUME IInv, NotAgain, [Next]_vars
               PROVE  Upgrades!Next \/ UNCHANGED Upgrades!vars
    OBVIOUS
  <2>1. CASE UNCHANGED <<schema, status>> /\ Up' = Up
    BY <2>1 DEF Upgrades!vars
  <2>2. CASE ExecuteStatement
    <3>1. /\ migration \in Migrations /\ migration \notin Finished
          /\ statement \in DOMAIN Statements[migration]
          /\ schema' = schema \cup {Statements[migration][statement]}
          /\ UNCHANGED status
      BY <2>2 DEF ExecuteStatement, NotAgain, IInv, TypeOK
    <3>2. Up' = Up
      BY <2>2 DEF ExecuteStatement, Up
    <3>3. Upgrades!Make(migration, Statements[migration][statement])
      BY <3>1, <3>2, MadeByStatements DEF Upgrades!Make
    <3> QED
      BY <3>1, <3>3, MadeByStatements DEF Upgrades!Next
  <2>3. CASE SaveStatus
    <3>1. migration \in Migrations
      BY DEF IInv, TypeOK
    <3>2. Upgrades!Finish(migration) \/ UNCHANGED Upgrades!vars
      BY <2>3, SaveStatusFinishes
    <3>3. CASE Upgrades!Finish(migration)
      <4>1. \E m \in Migrations : Upgrades!Finish(m)
        BY <3>1, <3>3 DEF Upgrades!Finish
      <4> QED
        BY <4>1 DEF Upgrades!Next
    <3> QED
      BY <3>2, <3>3, Zenon
  <2>4. CASE Migrate
    <3>1. ASSUME Start \/ RunMigration \/ SkipMigration \/ FunctionSucceeds \/ StatementFails \/ Die
          PROVE  UNCHANGED <<schema, status>> /\ Up' = Up
      BY <3>1 DEF Start, RunMigration, SkipMigration, NextMigration, FunctionSucceeds,
         StatementFails, FunctionReturns, Die, Up
    <3> QED
      BY <2>1, <2>2, <2>3, <2>4, <3>1 DEF Migrate, MigrationStep
  <2>5. CASE ~Migrate
    <3>1. UNCHANGED <<schema, status>>
      BY <2>5, OtherSteps
    <3>2. Finished' = Finished
      BY <3>1
    <3>3. CASE StartRunners /\ phase = "migrated" /\ phase' = "running"
      <4>1. Finished = Migrations
        BY <3>3 DEF IInv, MigrationsInv
      <4>2. Up' = TRUE
        BY <3>3 DEF Up
      <4> QED
        BY <3>1, <3>2, <4>1, <4>2 DEF Upgrades!Serve, Upgrades!Next
    <3>4. CASE phase' = "down"
      <4>1. Up' = FALSE
        BY <3>4 DEF Up
      <4> QED
        BY <3>1, <3>2, <4>1 DEF Upgrades!Stop, Upgrades!Next
    <3>5. CASE UNCHANGED phase \/ (phase = "running" /\ phase' = "stopping")
      <4>1. Up' = Up
        BY <3>5 DEF Up
      <4> QED
        BY <2>1, <3>1, <4>1
    <3> QED
      BY <2>5, <3>3, <3>4, <3>5, OtherSteps
  <2> QED
    BY <2>4, <2>5
<1> QED
  BY <1>1, <1>2, MigrationsInvariant, PTL DEF Spec, Upgrades!Spec

-----------------------------------------------------------------------------
(* The migration that cannot be repeated *)

\* The column is there, its migration is not finished, and it is not being carried out
\* beyond the ALTER TABLE by the process that executed that.
TornForGood ==
  /\ Torn
  /\ ~(phase = "executing" /\ migration = 3 /\ statement > 1)
  /\ ~(phase = "saving" /\ migration = 3 /\ ~failed)

\* Where the statements are that depend on others.
LEMMA StatementPositions ==
  /\ 3 \in Migrations /\ DOMAIN Statements[3] = 1 .. 2
  /\ Statements[1][1] = "events" /\ 1 \in DOMAIN Statements[1] /\ 1 \in Migrations
  /\ Statements[3][1] = "processed_at" /\ Statements[3][2] = "idx_events_processed_at"
  /\ \A m \in Migrations : \A i \in DOMAIN Statements[m] :
       /\ Statements[m][i] = "processed_at" => m = 3 /\ i = 1
       /\ Statements[m][i] = "idx_events_processed_at" => m = 3 /\ i = 2
<1>1. ASSUME NEW m \in Migrations, NEW i \in DOMAIN Statements[m]
      PROVE  /\ Statements[m][i] = "processed_at" => m = 3 /\ i = 1
             /\ Statements[m][i] = "idx_events_processed_at" => m = 3 /\ i = 2
  <2>1. m \in 1 .. 3
    BY StatementsTyping
  <2>2. CASE m = 1
    BY <2>2 DEF Statements, Initial
  <2>3. CASE m = 2
    BY <2>3 DEF Statements, CreatePubsubTables
  <2>4. CASE m = 3
    BY <2>4 DEF Statements, AddProcessedAtColumn
  <2> QED
    BY <2>1, <2>2, <2>3, <2>4
<1>2. DOMAIN Statements[3] = 1 .. 2 /\ Statements[3][1] = "processed_at"
      /\ Statements[3][2] = "idx_events_processed_at"
  BY DEF Statements, AddProcessedAtColumn
<1>3. Statements[1][1] = "events" /\ 1 \in DOMAIN Statements[1]
  BY DEF Statements, Initial
<1> QED
  BY <1>1, <1>2, <1>3, StatementsTyping

\* sqlite refuses a statement only in a database that is torn for good.
LEMMA RefusedWhenTorn ==
  ASSUME IInv, NotAgain, phase = "executing", statement \in DOMAIN Statements[migration],
         ~CanExecute(Statements[migration][statement])
  PROVE  TornForGood
<1> USE StatementPositions, StatementsTyping
<1>1. migration \in Migrations /\ statement \in Nat
  BY DEF IInv, TypeOK
<1>2. migration = 3 /\ (statement = 1 \/ statement = 2)
  BY <1>1 DEF CanExecute
<1>3. "events" \in schema
  <2>1. status[1] = "finished"
    BY <1>2 DEF IInv, MigrationsInv
  <2> QED
    BY <2>1 DEF IInv, MigrationsInv, Done
<1>4. statement # 2
  <2> SUFFICES ASSUME statement = 2 PROVE FALSE
    OBVIOUS
  <2>1. "processed_at" \in schema
    BY <1>2 DEF IInv, MigrationsInv
  <2> QED
    BY <1>2, <2>1 DEF CanExecute
<1>5. "processed_at" \in schema
  BY <1>2, <1>3, <1>4 DEF CanExecute
<1> QED
  BY <1>2, <1>4, <1>5 DEF TornForGood, Torn, NotAgain

\* No step mends it.
LEMMA TornStays ==
  ASSUME IInv, NotAgain, TornForGood, [Next]_vars
  PROVE  TornForGood'
<1> USE DEF TornForGood, Torn
<1>1. migration \in Migrations /\ statement \in Nat \ {0}
      /\ status \in [Migrations -> {"none", "failed", "finished"}]
  BY StatementsTyping DEF IInv, TypeOK
<1>2. phase # "executing" => statement = 1
  BY DEF IInv, MigrationsInv
<1>3. CASE Migrate
  <2>1. CASE Start \/ RunMigration \/ SkipMigration \/ Die
    BY <1>2, <2>1 DEF Start, RunMigration, SkipMigration, NextMigration, Die
  <2>2. CASE ExecuteStatement
    BY <1>1, <2>2, StatementPositions DEF ExecuteStatement, CanExecute
  <2>3. CASE FunctionSucceeds
    BY <1>1, <2>3, StatementPositions DEF FunctionSucceeds, FunctionReturns
  <2>4. CASE StatementFails
    BY <2>4 DEF StatementFails, FunctionReturns
  <2>5. CASE SaveStatus
    <3>1. failed \/ migration # 3
      BY <2>5 DEF SaveStatus
    <3>2. status'[3] # "finished"
      BY <1>1, <2>5, <3>1, StatementPositions DEF SaveStatus, StatusFromError
    <3>3. phase' \notin {"executing", "saving"}
      BY <2>5 DEF SaveStatus, NextMigration
    <3> QED
      BY <2>5, <3>2, <3>3 DEF SaveStatus
  <2> QED
    BY <1>3, <2>1, <2>2, <2>3, <2>4, <2>5 DEF Migrate, MigrationStep
<1>4. CASE ~Migrate
  BY <1>4, OtherSteps
<1> QED
  BY <1>3, <1>4

\* A step that tears it is a crash or a failed call in the last migration.
LEMMA TornByFault ==
  ASSUME IInv, NotAgain, ~TornForGood, TornForGood', [Next]_vars
  PROVE  migration = 3 /\ Fault
<1> USE DEF TornForGood, Torn
<1>1. /\ migration \in Migrations /\ statement \in Nat
      /\ status \in [Migrations -> {"none", "failed", "finished"}]
  BY StatementsTyping DEF IInv, TypeOK
<1>2. CASE Migrate
  <2>1. CASE Start \/ RunMigration \/ SkipMigration
    BY <2>1 DEF Start, RunMigration, SkipMigration, NextMigration
  <2>2. CASE ExecuteStatement
    BY <1>1, <2>2, StatementPositions, StatementsTyping DEF ExecuteStatement, IInv, MigrationsInv
  <2>3. CASE FunctionSucceeds
    BY <2>3 DEF FunctionSucceeds, FunctionReturns
  <2>4. CASE StatementFails
    <3>1. UNCHANGED <<schema, status, migration>> /\ phase = "executing"
      BY <2>4 DEF StatementFails, FunctionReturns
    <3>2. migration = 3
      BY <3>1
    <3>3. CanExecute(Statements[migration][statement])
      BY <2>4, RefusedWhenTorn DEF StatementFails
    <3> QED
      BY <2>4, <3>2, <3>3 DEF StatementFails
  <2>5. CASE SaveStatus
    <3>1. /\ phase = "saving" /\ UNCHANGED schema
          /\ status' = [status EXCEPT ![migration] = StatusFromError]
      BY <2>5 DEF SaveStatus
    <3>2. status[migration] # "finished"
      BY <3>1 DEF NotAgain
    <3>3. status[3] # "finished"
      BY <1>1, <3>1, <3>2
    <3>4. migration = 3 /\ ~failed
      BY <3>1, <3>3
    <3> QED
      BY <1>1, <3>1, <3>4 DEF StatusFromError
  <2>6. CASE Die
    BY <2>6 DEF Die
  <2> QED
    BY <1>2, <2>1, <2>2, <2>3, <2>4, <2>5, <2>6 DEF Migrate, MigrationStep
<1>3. CASE ~Migrate
  BY <1>3, OtherSteps
<1> QED
  BY <1>2, <1>3

\* Except in a database that is torn for good every function of MigrationFns can be
\* repeated from its first statement, whatever an earlier start has left: sqlite
\* refuses nothing.
THEOREM RepeatableUnlessTorn ==
  Spec => [](phase = "executing" /\ statement \in DOMAIN Statements[migration]
               => CanExecute(Statements[migration][statement]) \/ TornForGood)
<1>1. IInv /\ NotAgain =>
        (phase = "executing" /\ statement \in DOMAIN Statements[migration]
           => CanExecute(Statements[migration][statement]) \/ TornForGood)
  BY RefusedWhenTorn
<1> QED
  BY <1>1, MigrationsInvariant, PTL

\* Only a crash or a failed call in the last migration, between its ALTER TABLE and
\* the save of its status, tears the database.
THEOREM OnlyFaultsTear ==
  Spec => [][TornForGood' /\ ~TornForGood => migration = 3 /\ Fault]_vars
<1>1. IInv /\ NotAgain /\ [Next]_vars
        => [TornForGood' /\ ~TornForGood => migration = 3 /\ Fault]_vars
  BY TornByFault
<1> QED
  BY <1>1, MigrationsInvariant, PTL DEF Spec

\* A database that is torn stays so, and the service never runs on it again: no start,
\* however often repeated, mends it (see StartsUnlessTorn).
THEOREM TornIsPermanent ==
  Spec => [](TornForGood => ~Up) /\ [][TornForGood => TornForGood']_vars
<1>1. IInv => (TornForGood => ~Up)
  BY StatementPositions DEF IInv, MigrationsInv, TornForGood, Torn, Up
<1>2. IInv /\ NotAgain /\ [Next]_vars => [TornForGood => TornForGood']_vars
  BY TornStays
<1> QED
  BY <1>1, <1>2, MigrationsInvariant, PTL DEF Spec

-----------------------------------------------------------------------------
(* Service.Run *)

\* Runners live between the start and the end of Service.Run, the first that returns
\* is collected and cancels the context, and only the holder of the lock is between
\* its two steps of Publish.
RunnersInv ==
  /\ cancelled <=> phase = "stopping"
  /\ ~Up => \A r \in Runners : runner[r] = "off"
  /\ phase = "running" => \A r \in Runners : runner[r] \in {"running", "returned"}
  /\ phase = "stopping" =>
       /\ \A r \in Runners : runner[r] # "off"
       /\ \E r \in Runners : runner[r] = "collected"
  /\ lock # Nobody => lock \in Tasks /\ taskPc[lock] = "offering"

\* No step leaves a runner that has ended, or the lock, to nobody.
LEMMA RunnersInvKept ==
  ASSUME IInv, RunnersInv, [Next]_vars
  PROVE  RunnersInv'
<1> USE ServiceAssumption DEF RunnersInv, Up
<1>1. /\ runner \in [Runners -> {"off", "running", "returned", "collected"}]
      /\ taskPc \in [Tasks -> {"publishing", "offering", "done"}]
  BY DEF IInv, TypeOK
<1>2. CASE Migrate
  <2>1. /\ phase \notin {"running", "stopping"} /\ phase' \notin {"running", "stopping"}
        /\ UNCHANGED <<runnerVars, pubsubVars>>
    BY <1>2 DEF Migrate, Start, MigrationStep, RunMigration, SkipMigration, NextMigration,
       ExecuteStatement, FunctionSucceeds, StatementFails, FunctionReturns, SaveStatus, Die
  <2> QED
    BY <2>1 DEF runnerVars, pubsubVars
<1>3. CASE StartRunners
  BY <1>1, <1>3 DEF StartRunners, pubsubVars
<1>4. ASSUME NEW r \in Runners, RunnerFails(r)
      PROVE  RunnersInv'
  BY <1>1, <1>4 DEF RunnerFails
<1>5. ASSUME NEW r \in Runners, RunnerStops(r)
      PROVE  RunnersInv'
  BY <1>1, <1>5 DEF RunnerStops, migrationVars, pubsubVars
<1>6. CASE ReceivedStops
  BY <1>1, <1>6 DEF ReceivedStops, migrationVars, pubsubVars
<1>7. ASSUME NEW r \in Runners, CollectFirst(r)
      PROVE  RunnersInv'
  BY <1>1, <1>7 DEF CollectFirst, pubsubVars
<1>8. ASSUME NEW r \in Runners, Collect(r)
      PROVE  RunnersInv'
  BY <1>1, <1>8 DEF Collect, migrationVars, pubsubVars
<1>9. CASE Return \/ ShutdownTimeout \/ Kill
  <2>1. Exit
    BY <1>9 DEF Return, ShutdownTimeout, Kill
  <2> QED
    BY <2>1 DEF Exit, AllOff
<1>10. CASE Subscribe \/ RemoveSubscription \/ CloseChannel \/ Handled
  BY <1>10 DEF Subscribe, RemoveSubscription, CloseChannel, Handled, migrationVars, runnerVars
<1>11. ASSUME NEW t \in Tasks,
              \/ PublishToNobody(t) \/ Publish(t) \/ HandOver(t) \/ GiveUp(t)
              \/ ReceiveEOSE(t) \/ NextTask(t)
       PROVE  RunnersInv'
  <2>1. UNCHANGED <<phase, runner, cancelled>>
    BY <1>11 DEF PublishToNobody, Publish, HandOver, GiveUp, ReceiveEOSE, NextTask,
       migrationVars, runnerVars
  <2>2. lock' # Nobody => lock' \in Tasks /\ taskPc'[lock'] = "offering"
    BY <1>1, <1>11 DEF PublishToNobody, Publish, HandOver, GiveUp, ReceiveEOSE, NextTask, Advance
  <2> QED
    BY <2>1, <2>2
<1>12. CASE UNCHANGED vars
  BY <1>12 DEF vars, migrationVars, runnerVars, pubsubVars
<1> QED
  BY <1>2, <1>3, <1>4, <1>5, <1>6, <1>7, <1>8, <1>9, <1>10, <1>11, <1>12 DEF Next

LEMMA RunnersInvariant == Spec => [](IInv /\ RunnersInv)
<1>1. Init => RunnersInv
  BY DEF Init, MigrationsInit, RunnersInv, Up
<1> QED
  BY <1>1, Initially, Preserved, RunnersInvKept, PTL DEF Spec

\* There is no half-dead service: when a runner is not running any more, Service.Run
\* has a returned runner to collect, or it is stopping and its timer will fire (the
\* safety half of StopsAfterFirstError).
THEOREM FirstErrorIsCollected ==
  Spec => [](Up /\ (\E r \in Runners : runner[r] # "running")
               => \/ phase = "running" /\ \E r \in Runners : runner[r] = "returned"
                  \/ phase = "stopping" /\ cancelled)
<1>1. IInv /\ RunnersInv =>
        (Up /\ (\E r \in Runners : runner[r] # "running")
           => \/ phase = "running" /\ \E r \in Runners : runner[r] = "returned"
              \/ phase = "stopping" /\ cancelled)
  BY DEF RunnersInv, Up
<1> QED
  BY <1>1, RunnersInvariant, PTL

\* The lock of GoChannelPubSub is never left locked: whoever has it is offering an event
\* on an open channel, which ends when the subscriber takes it or, once the service
\* stops, with the context; the goroutine that removes the subscription gets its turn.
THEOREM LockIsReleased ==
  Spec => [](lock # Nobody => /\ taskPc[lock] = "offering" /\ subscription = "open"
                              /\ \A t \in Tasks : taskPc[t] = "offering" => t = lock)
<1>1. IInv /\ RunnersInv =>
        (lock # Nobody => /\ taskPc[lock] = "offering" /\ subscription = "open"
                          /\ \A t \in Tasks : taskPc[t] = "offering" => t = lock)
  BY DEF IInv, PubSubInv, RunnersInv
<1> QED
  BY <1>1, RunnersInvariant, PTL

=============================================================================
