------------------------ MODULE EventPipelineProofs ------------------------
(***************************************************************************)
(* What EventPipeline guarantees for any set of events, any number of      *)
(* queue messages and any number of crashes.                               *)
(***************************************************************************)
EXTENDS EventPipeline, TLAPS

\* Published externally and, if it is forwarded, answered for by the relay.
Delivered(e) == e \in published /\ (e \in Forwarded => e \in answered)

\* What the handler has achieved for its message at each of its control points.
HandlerProgress ==
  /\ consumerPc \in {"published", "sent", "ack"} => handling \in published
  /\ consumerPc \in {"sent", "ack"} => Delivered(handling)

\* A message that is about to be acked is not the only one of an event that has
\* been stored again since it was marked as processed.
AckIsHarmless ==
  consumerPc = "ack" /\ handling \in stored \ processed =>
    \E m \in Messages \ {inHand} : queue[m] = handling

\* Nobody stores an event while it is being saved.
StagedIsNew == saverPc = "staged" => saverEvent \notin stored

\* A message outlives the row of its event only after the event was delivered.
QueuedIsStoredOrDelivered ==
  \A m \in Messages : queue[m] # None => queue[m] \in stored \/ Delivered(queue[m])

\* The inductive invariant.
IInv == /\ TypeOK
        /\ HandlerProgress
        /\ AckIsHarmless
        /\ StagedIsNew
        /\ QueuedIsStoredOrDelivered
        /\ MessageInHandIsQueued
        /\ ProcessedWasDelivered
        /\ UnprocessedIsQueued
        /\ NothingSavedIsLost
        /\ QueuedOnceUntilPublished

-----------------------------------------------------------------------------

\* Every step keeps the types (one leaf per action of Next).
LEMMA Typing == TypeOK /\ [Next]_vars => TypeOK'
<1> SUFFICES ASSUME TypeOK, [Next]_vars PROVE TypeOK'
  OBVIOUS
<1> USE ConstantsAssumption DEF TypeOK, SaverPcs, ConsumerPcs, HandlerPcs
<1>1. CASE SkipDuplicate
  BY <1>1 DEF SkipDuplicate, vars, rows, pubsub, filter, saver, consumer, world
<1>2. ASSUME NEW e \in Events, ReceiveEvent(e) PROVE TypeOK'
  BY <1>2 DEF ReceiveEvent, rows, pubsub, filter, consumer, world
<1>3. CASE SaveGivesUp
  BY <1>3 DEF SaveGivesUp, SaverReturns, rows, pubsub, filter, consumer, world
<1>4. CASE SaveFindsExisting
  BY <1>4 DEF SaveFindsExisting, SaverReturns, Add, AddAll, rows, pubsub, consumer, world
<1>5. CASE SaveStages
  BY <1>5 DEF SaveStages, Add, AddAll, rows, pubsub, consumer, world
<1>6. ASSUME NEW m \in Messages, SaveCommits(m) PROVE TypeOK'
  BY <1>6 DEF SaveCommits, SaverReturns, filter, consumer
<1>7. CASE SaveRollsBack
  BY <1>7 DEF SaveRollsBack, SaverReturns, rows, pubsub, filter, consumer, world
<1>8. CASE AddAnother
  BY <1>8 DEF AddAnother, AddAll, rows, pubsub, saver, consumer, world
<1>9. ASSUME NEW m \in Messages, ReadMessage(m) PROVE TypeOK'
  BY <1>9 DEF ReadMessage, rows, pubsub, filter, saver, world
<1>10. CASE LoadEvent
  BY <1>10 DEF LoadEvent, HandlerMoves, rows, pubsub, filter, saver, world
<1>11. CASE SaveRelaysAndContacts
  BY <1>11 DEF SaveRelaysAndContacts, HandlerMoves, rows, pubsub, filter, saver, world
<1>12. ASSUME NEW next \in {"published", "nack"}, PublishExternally(next) PROVE TypeOK'
  BY <1>12 DEF PublishExternally, HandlerMoves, rows, pubsub, filter, saver
<1>13. CASE SkipRelay
  BY <1>13 DEF SkipRelay, HandlerMoves, rows, pubsub, filter, saver, world
<1>14. ASSUME NEW next \in {"sent", "nack"}, SendToRelay(next) PROVE TypeOK'
  BY <1>14 DEF SendToRelay, HandlerMoves, rows, pubsub, filter, saver
<1>15. ASSUME NEW next \in {"ack", "nack"}, MarkAsProcessed(next) PROVE TypeOK'
  BY <1>15 DEF MarkAsProcessed, HandlerMoves, pubsub, filter, saver, world
<1>16. CASE HandlerFails
  BY <1>16 DEF HandlerFails, rows, pubsub, filter, saver, world
<1>17. CASE AckMessage
  BY <1>17 DEF AckMessage, ConsumerReturns, rows, filter, saver, world
<1>18. CASE NackMessage
  BY <1>18 DEF NackMessage, ConsumerReturns, rows, filter, saver, world
<1>19. CASE AckOrNackFails
  BY <1>19 DEF AckOrNackFails, ConsumerReturns, rows, pubsub, filter, saver, world
<1>20. CASE CleanupProcessedEvents
  BY <1>20 DEF CleanupProcessedEvents, pubsub, filter, saver, consumer, world
<1>21. ASSUME NEW m \in Messages, BackoffElapses(m) PROVE TypeOK'
  BY <1>21 DEF BackoffElapses, rows, filter, saver, consumer, world
<1>22. ASSUME NEW e \in Events, RetentionElapses(e) PROVE TypeOK'
  BY <1>22 DEF RetentionElapses, pubsub, filter, saver, consumer, world
<1>23. CASE RotationElapses
  BY <1>23 DEF RotationElapses, rows, pubsub, saver, consumer, world
<1>24. CASE CrashAndRestart
  <2>1. crashes' \in 0 .. MaxCrashes
    BY <1>24, SMT DEF CrashAndRestart
  <2> QED
    BY <1>24, <2>1, Zenon DEF CrashAndRestart, SaverReturns, ConsumerReturns, rows,
       pubsub, world
<1>25. CASE UNCHANGED vars
  BY <1>25 DEF vars, rows, pubsub, filter, saver, consumer, world
<1> QED
  BY <1>1, <1>2, <1>3, <1>4, <1>5, <1>6, <1>7, <1>8, <1>9, <1>10, <1>11, <1>12,
     <1>13, <1>14, <1>15, <1>16, <1>17, <1>18, <1>19, <1>20, <1>21, <1>22, <1>23,
     <1>24, <1>25 DEF Next, SaverNext, ConsumerNext, TimeNext

\* Types, and what each goroutine holds on to between its steps, for every value
\* of the constants.
THEOREM TypeCorrect == Spec => []TypeOK
<1>1. Init => TypeOK
  <2>1. 0 \in 0 .. MaxCrashes
    BY ConstantsAssumption, SMT
  <2> QED
    BY <2>1, Zenon DEF Init, TypeOK, SaverPcs, ConsumerPcs
<1> QED
  BY <1>1, Typing, PTL DEF Spec

-----------------------------------------------------------------------------

\* Every step keeps the inductive invariant.
LEMMA Preservation == IInv /\ [Next]_vars => IInv'
<1> SUFFICES ASSUME IInv, [Next]_vars PROVE IInv'
  OBVIOUS
<1>0. TypeOK'
  BY Typing DEF IInv
<1> USE ConstantsAssumption, <1>0 DEF IInv, TypeOK, HandlerProgress, Delivered, AckIsHarmless,
    StagedIsNew, QueuedIsStoredOrDelivered, MessageInHandIsQueued, ProcessedWasDelivered,
    UnprocessedIsQueued, NothingSavedIsLost, QueuedOnceUntilPublished, Queued
<1>1. CASE SkipDuplicate
  BY <1>1 DEF SkipDuplicate, vars, rows, pubsub, filter, saver, consumer, world
<1>2. ASSUME NEW e \in Events, ReceiveEvent(e) PROVE IInv'
  BY <1>2 DEF ReceiveEvent, rows, pubsub, filter, consumer, world
<1>3. CASE SaveGivesUp
  BY <1>3 DEF SaveGivesUp, SaverReturns, rows, pubsub, filter, consumer, world
<1>4. CASE SaveFindsExisting
  BY <1>4 DEF SaveFindsExisting, SaverReturns, rows, pubsub, consumer, world
<1>5. CASE SaveStages
  BY <1>5 DEF SaveStages, rows, pubsub, consumer, world
<1>6. ASSUME NEW m \in Messages, SaveCommits(m) PROVE IInv'
  \* The new row is unprocessed and m is its message; StagedIsNew makes another
  \* message of the event one that has been delivered.
  <2> USE <1>6 DEF SaveCommits, SaverReturns, filter, consumer
  <2>1. /\ saverEvent \in Events \ stored
        /\ queue' = [queue EXCEPT ![m] = saverEvent]
        /\ queue[m] = None
    OBVIOUS
  <2>2. HandlerProgress' /\ StagedIsNew' /\ ProcessedWasDelivered'
    OBVIOUS
  <2>3. MessageInHandIsQueued' /\ QueuedIsStoredOrDelivered'
    BY <2>1
  <2>4. AckIsHarmless'
    BY <2>1
  <2>5. UnprocessedIsQueued' /\ NothingSavedIsLost'
    BY <2>1
  <2>6. QueuedOnceUntilPublished'
    BY <2>1
  <2> QED
    BY <2>2, <2>3, <2>4, <2>5, <2>6
<1>7. CASE SaveRollsBack
  BY <1>7 DEF SaveRollsBack, SaverReturns, rows, pubsub, filter, consumer, world
<1>8. CASE AddAnother
  BY <1>8 DEF AddAnother, rows, pubsub, saver, consumer, world
<1>9. ASSUME NEW m \in Messages, ReadMessage(m) PROVE IInv'
  BY <1>9 DEF ReadMessage, rows, pubsub, filter, saver, world
<1>10. CASE LoadEvent
  BY <1>10 DEF LoadEvent, HandlerMoves, rows, pubsub, filter, saver, world
<1>11. CASE SaveRelaysAndContacts
  BY <1>11 DEF SaveRelaysAndContacts, HandlerMoves, rows, pubsub, filter, saver, world
<1>12. ASSUME NEW next \in {"published", "nack"}, PublishExternally(next) PROVE IInv'
  BY <1>12 DEF PublishExternally, HandlerMoves, rows, pubsub, filter, saver
<1>13. CASE SkipRelay
  BY <1>13 DEF SkipRelay, HandlerMoves, rows, pubsub, filter, saver, world
<1>14. ASSUME NEW next \in {"sent", "nack"}, SendToRelay(next) PROVE IInv'
  BY <1>14 DEF SendToRelay, HandlerMoves, rows, pubsub, filter, saver
<1>15. ASSUME NEW next \in {"ack", "nack"}, MarkAsProcessed(next) PROVE IInv'
  \* At "sent" the event has been delivered, whether it still has a row or not.
  <2> USE <1>15 DEF MarkAsProcessed, HandlerMoves, RunnerFree, pubsub, filter, saver, world
  <2>1. Delivered(handling)
    OBVIOUS
  <2>2. HandlerProgress' /\ AckIsHarmless' /\ ProcessedWasDelivered'
    BY <2>1
  <2>3. UnprocessedIsQueued' /\ MessageInHandIsQueued'
    OBVIOUS
  <2>4. /\ StagedIsNew' /\ QueuedIsStoredOrDelivered'
        /\ NothingSavedIsLost' /\ QueuedOnceUntilPublished'
    OBVIOUS
  <2> QED
    BY <2>2, <2>3, <2>4
<1>16. CASE HandlerFails
  BY <1>16 DEF HandlerFails, rows, pubsub, filter, saver, world
<1>17. CASE AckMessage
  \* If the event has been stored again, AckIsHarmless has another message of it.
  <2> USE <1>17 DEF AckMessage, RunnerFree, ConsumerReturns, rows, filter, saver, world
  <2>1. /\ Delivered(handling)
        /\ queue[inHand] = handling
        /\ queue' = [queue EXCEPT ![inHand] = None]
    OBVIOUS
  <2>2. UnprocessedIsQueued'
    <3>1. SUFFICES ASSUME NEW e \in stored \ processed
                   PROVE  \E m \in Messages : queue'[m] = e
      OBVIOUS
    <3>2. PICK m \in Messages : queue[m] = e
      BY <3>1
    <3>3. CASE m = inHand
      BY <2>1, <3>1, <3>2, <3>3
    <3>4. CASE m # inHand
      BY <2>1, <3>2, <3>4
    <3> QED
      BY <3>3, <3>4
  <2>3. NothingSavedIsLost'
    BY <2>1
  <2>4. /\ HandlerProgress' /\ AckIsHarmless' /\ StagedIsNew' /\ MessageInHandIsQueued'
        /\ QueuedIsStoredOrDelivered' /\ ProcessedWasDelivered' /\ QueuedOnceUntilPublished'
    BY <2>1
  <2> QED
    BY <2>2, <2>3, <2>4
<1>18. CASE NackMessage
  BY <1>18 DEF NackMessage, ConsumerReturns, rows, filter, saver, world
<1>19. CASE AckOrNackFails
  BY <1>19 DEF AckOrNackFails, ConsumerReturns, rows, pubsub, filter, saver, world
<1>20. CASE CleanupProcessedEvents
  \* Only processed events are deleted, and those have been delivered.
  <2> USE <1>20 DEF CleanupProcessedEvents, RunnerFree, pubsub, filter, saver, consumer, world
  <2>1. /\ \A e \in stored \ stored' : Delivered(e)
        /\ stored' \ processed' = stored \ processed
    OBVIOUS
  <2>2. QueuedIsStoredOrDelivered' /\ NothingSavedIsLost'
    BY <2>1
  <2>3. UnprocessedIsQueued' /\ AckIsHarmless'
    BY <2>1
  <2>4. /\ HandlerProgress' /\ StagedIsNew' /\ MessageInHandIsQueued'
        /\ ProcessedWasDelivered' /\ QueuedOnceUntilPublished'
    OBVIOUS
  <2> QED
    BY <2>2, <2>3, <2>4
<1>21. ASSUME NEW m \in Messages, BackoffElapses(m) PROVE IInv'
  BY <1>21 DEF BackoffElapses, rows, filter, saver, consumer, world
<1>22. ASSUME NEW e \in Events, RetentionElapses(e) PROVE IInv'
  BY <1>22 DEF RetentionElapses, pubsub, filter, saver, consumer, world
<1>23. CASE RotationElapses
  BY <1>23 DEF RotationElapses, rows, pubsub, saver, consumer, world
<1>24. CASE CrashAndRestart
  BY <1>24 DEF CrashAndRestart, SaverReturns, ConsumerReturns, rows, pubsub, world
<1>25. CASE UNCHANGED vars
  BY <1>25 DEF vars, rows, pubsub, filter, saver, consumer, world
<1> QED
  BY <1>1, <1>2, <1>3, <1>4, <1>5, <1>6, <1>7, <1>8, <1>9, <1>10, <1>11, <1>12, <1>13, <1>14, <1>15, <1>16, <1>17, <1>18, <1>19, <1>20, <1>21, <1>22, <1>23, <1>24, <1>25 DEF Next, SaverNext, ConsumerNext, TimeNext

LEMMA Invariance == Spec => []IInv
<1>1. Init => IInv
  <2>1. Init => TypeOK
    <3>1. 0 \in 0 .. MaxCrashes
      BY ConstantsAssumption, SMT
    <3> QED
      BY <3>1, Zenon DEF Init, TypeOK, SaverPcs, ConsumerPcs
  <2>2. Init => IInv
    BY <2>1 DEF Init, IInv, HandlerProgress, AckIsHarmless, StagedIsNew,
       QueuedIsStoredOrDelivered, MessageInHandIsQueued, ProcessedWasDelivered,
       UnprocessedIsQueued, NothingSavedIsLost, QueuedOnceUntilPublished
  <2> QED
    BY <2>2
<1> QED
  BY <1>1, Preservation, PTL DEF Spec

\* A stored event that has not been processed has a message in the queue, for
\* any number of messages and crashes: a save and its message are one
\* transaction, and no ack takes the last message of an unprocessed event.
THEOREM UnprocessedStaysQueued == Spec => []UnprocessedIsQueued
<1>1. IInv => UnprocessedIsQueued
  BY DEF IInv
<1> QED
  BY <1>1, Invariance, PTL

\* processed_at is only ever set for an event that has been delivered.
THEOREM ProcessedImpliesDelivered == Spec => []ProcessedWasDelivered
<1>1. IInv => ProcessedWasDelivered
  BY DEF IInv
<1> QED
  BY <1>1, Invariance, PTL

\* No committed event is lost: neither cleanup nor retries nor crashes remove an
\* event that has not been published.
THEOREM NothingIsLost == Spec => []NothingSavedIsLost
<1>1. IInv => NothingSavedIsLost
  BY DEF IInv
<1> QED
  BY <1>1, Invariance, PTL

\* Before it is published, an event has at most one message.
THEOREM QueuedOnce == Spec => []QueuedOnceUntilPublished
<1>1. IInv => QueuedOnceUntilPublished
  BY DEF IInv
<1> QED
  BY <1>1, Invariance, PTL

\* The consumer's message keeps its row and its payload while it is handled.
THEOREM InHandStaysQueued == Spec => []MessageInHandIsQueued
<1>1. IInv => MessageInHandIsQueued
  BY DEF IInv
<1> QED
  BY <1>1, Invariance, PTL

-----------------------------------------------------------------------------

\* Only AckMessage removes a message.
LEMMA OnlyAckRemoves ==
  ASSUME IInv, [Next]_vars, NEW m \in Messages, queue[m] # None, queue'[m] = None
  PROVE  AckMessage /\ m = inHand
<1> USE DEF IInv, TypeOK
<1>1. ASSUME UNCHANGED queue PROVE FALSE
  BY <1>1
<1>2. CASE SaverNext
  <2>1. ASSUME NEW n \in Messages, SaveCommits(n) PROVE FALSE
    BY <2>1 DEF SaveCommits, SaverPcs
  <2> QED
    BY <1>1, <1>2, <2>1 DEF SaverNext, SkipDuplicate, ReceiveEvent, SaveGivesUp,
       SaveFindsExisting, SaveStages, SaveRollsBack, AddAnother, vars, pubsub
<1>3. CASE ConsumerNext
  <2>1. ASSUME AckMessage PROVE m = inHand
    BY <2>1 DEF AckMessage
  <2> QED
    BY <1>1, <1>3, <2>1 DEF ConsumerNext, ReadMessage, LoadEvent, SaveRelaysAndContacts,
       PublishExternally, SkipRelay, SendToRelay, MarkAsProcessed, HandlerFails,
       NackMessage, AckOrNackFails, pubsub
<1>4. CASE TimeNext
  BY <1>1, <1>4 DEF TimeNext, CleanupProcessedEvents, BackoffElapses, RetentionElapses,
     RotationElapses, pubsub
<1>5. CASE CrashAndRestart
  BY <1>1, <1>5 DEF CrashAndRestart, pubsub
<1>6. CASE UNCHANGED vars
  BY <1>1, <1>6 DEF vars, pubsub
<1> QED
  BY <1>2, <1>3, <1>4, <1>5, <1>6 DEF Next

\* A message leaves the queue only when its event has been delivered everywhere
\* it should be.
THEOREM RemovalMeansDelivery == Spec => RemovedOnlyWhenDelivered
<1> DEFINE Removal == \A m \in Messages :
             queue[m] # None /\ queue'[m] = None =>
               /\ queue[m] \in published
               /\ queue[m] \in Forwarded => queue[m] \in answered
<1>1. IInv /\ [Next]_vars => [Removal]_vars
  <2> SUFFICES ASSUME IInv, [Next]_vars, NEW m \in Messages,
                      queue[m] # None, queue'[m] = None
               PROVE  Delivered(queue[m])
    BY DEF Delivered
  <2>1. consumerPc = "ack" /\ m = inHand
    BY OnlyAckRemoves DEF AckMessage
  <2> QED
    BY <2>1 DEF IInv, HandlerProgress, MessageInHandIsQueued, TypeOK
<1> QED
  BY <1>1, Invariance, PTL DEF Spec, RemovedOnlyWhenDelivered

\* The pipeline implements the abstract delivery of events.
THEOREM ImplementsDelivery == Spec => DeliverySpec
<1>1. Init => Delivery!Init
  BY DEF Init, Delivery!Init
<1>2. IInv /\ [Next]_vars => [Delivery!Next]_(Delivery!vars)
  <2> SUFFICES ASSUME IInv, [Next]_vars
               PROVE  Delivery!Next \/ UNCHANGED Delivery!vars
    OBVIOUS
  <2> USE DEF IInv, TypeOK
  <2>1. ASSUME NEW m \in Messages, SaveCommits(m) PROVE Delivery!Accept(saverEvent)
    BY <2>1 DEF SaveCommits, StagedIsNew, SaverPcs, Delivery!Accept
  <2>2. ASSUME NEW next \in {"published", "nack"}, PublishExternally(next),
               handling \notin published
        PROVE  Delivery!Publish(handling)
    <3>1. consumerPc = "extracted" /\ queue[inHand] = handling
      BY <2>2 DEF PublishExternally, HandlerMoves, MessageInHandIsQueued
    <3>2. handling \in stored \ processed
      BY <2>2, <3>1 DEF QueuedIsStoredOrDelivered, Delivered, ProcessedWasDelivered
    <3> QED
      BY <2>2, <3>2 DEF PublishExternally, rows, Delivery!Publish
  <2>3. ASSUME NEW next \in {"sent", "nack"}, SendToRelay(next), handling \notin answered
        PROVE  Delivery!Answer(handling)
    <3>1. consumerPc = "published" /\ queue[inHand] = handling /\ handling \in Forwarded
      BY <2>3 DEF SendToRelay, HandlerMoves, MessageInHandIsQueued
    <3>2. handling \in stored \ processed
      BY <2>3, <3>1 DEF QueuedIsStoredOrDelivered, Delivered, ProcessedWasDelivered
    <3> QED
      BY <2>3, <3>1, <3>2 DEF SendToRelay, HandlerProgress, rows, Delivery!Answer
  <2>4. ASSUME NEW next \in {"ack", "nack"}, MarkAsProcessed(next),
               handling \in stored \ processed
        PROVE  Delivery!Settle(handling)
    <3>1. Delivered(handling)
      BY <2>4 DEF MarkAsProcessed, HandlerMoves, HandlerProgress
    <3> QED
      BY <2>4, <3>1 DEF MarkAsProcessed, Delivered, world, Delivery!Settle
  <2>5. CASE SaverNext
    BY <2>1, <2>5 DEF SaverNext, SkipDuplicate, ReceiveEvent, SaveGivesUp, SaverPcs,
       SaveFindsExisting, SaveStages, SaveRollsBack, AddAnother, SaveCommits, vars, rows, world,
       Delivery!vars, Delivery!Next
  <2>6. CASE ConsumerNext
    <3>1. ASSUME NEW next \in {"published", "nack"}, PublishExternally(next)
          PROVE  Delivery!Next \/ UNCHANGED Delivery!vars
      BY <2>2, <3>1 DEF PublishExternally, HandlerMoves, ConsumerPcs, HandlerPcs, rows,
         Delivery!Next, Delivery!vars
    <3>2. ASSUME NEW next \in {"sent", "nack"}, SendToRelay(next)
          PROVE  Delivery!Next \/ UNCHANGED Delivery!vars
      BY <2>3, <3>2 DEF SendToRelay, HandlerMoves, rows, Delivery!Next, Delivery!vars
    <3>3. ASSUME NEW next \in {"ack", "nack"}, MarkAsProcessed(next)
          PROVE  Delivery!Next \/ UNCHANGED Delivery!vars
      BY <2>4, <3>3 DEF MarkAsProcessed, HandlerMoves, world, Delivery!Next, Delivery!vars
    <3> QED
      BY <2>6, <3>1, <3>2, <3>3 DEF ConsumerNext, ReadMessage, LoadEvent, HandlerFails,
         SaveRelaysAndContacts, SkipRelay, AckMessage, NackMessage, AckOrNackFails, rows, world,
         Delivery!vars
  <2>7. CASE TimeNext
    BY <2>7 DEF TimeNext, CleanupProcessedEvents, BackoffElapses, RetentionElapses,
       RotationElapses, rows, world, Delivery!vars
  <2>8. CASE CrashAndRestart
    BY <2>8 DEF CrashAndRestart, rows, world, Delivery!vars
  <2>9. CASE UNCHANGED vars
    BY <2>9 DEF vars, rows, world, Delivery!vars
  <2> QED
    BY <2>5, <2>6, <2>7, <2>8, <2>9 DEF Next
<1> QED
  BY <1>1, <1>2, Invariance, PTL DEF Spec, DeliverySpec, Delivery!Spec

-----------------------------------------------------------------------------

\* A message that outlives the row of its event, which the handler can never load,
\* is of an event that has been delivered: what pipeline_poison shows costs retries
\* and no events.
THEOREM PoisonIsDelivered ==
  Spec => [](\A m \in Messages : queue[m] # None /\ queue[m] \notin stored => Delivered(queue[m]))
<1>1. IInv => \A m \in Messages : queue[m] # None /\ queue[m] \notin stored => Delivered(queue[m])
  BY DEF IInv, QueuedIsStoredOrDelivered
<1> QED
  BY <1>1, Invariance, PTL

\* Nothing is sent to the relay that has not been published externally before, and
\* nothing that is not to be sent.
SentAfterPublished == answered \subseteq published /\ answered \subseteq Forwarded

\* The handler sends an event to the relay after PublishExternally has taken effect, in
\* this delivery of the message or an earlier one.
THEOREM RelayComesSecond == Spec => []SentAfterPublished
<1>1. Init => SentAfterPublished
  BY DEF Init, SentAfterPublished
<1>2. IInv /\ SentAfterPublished /\ [Next]_vars => SentAfterPublished'
  <2> SUFFICES ASSUME IInv, SentAfterPublished, [Next]_vars PROVE SentAfterPublished'
    OBVIOUS
  <2> USE DEF SentAfterPublished
  <2>1. ASSUME NEW next \in {"sent", "nack"}, SendToRelay(next) PROVE SentAfterPublished'
    BY <2>1 DEF SendToRelay, HandlerMoves, IInv, HandlerProgress
  <2>2. ASSUME NEW next \in {"published", "nack"}, PublishExternally(next)
        PROVE  SentAfterPublished'
    BY <2>2 DEF PublishExternally
  <2>3. CASE SaverNext
    BY <2>3 DEF SaverNext, SkipDuplicate, ReceiveEvent, SaveGivesUp, SaveFindsExisting,
       SaveStages, SaveCommits, SaveRollsBack, AddAnother, vars, world
  <2>4. CASE ConsumerNext
    BY <2>1, <2>2, <2>4 DEF ConsumerNext, ReadMessage, LoadEvent, SaveRelaysAndContacts,
       SkipRelay, MarkAsProcessed, HandlerFails, AckMessage, NackMessage, AckOrNackFails, world
  <2>5. CASE TimeNext
    BY <2>5 DEF TimeNext, CleanupProcessedEvents, BackoffElapses, RetentionElapses,
       RotationElapses, world
  <2>6. CASE CrashAndRestart
    BY <2>6 DEF CrashAndRestart, world
  <2>7. CASE UNCHANGED vars
    BY <2>7 DEF vars, world
  <2> QED
    BY <2>3, <2>4, <2>5, <2>6, <2>7 DEF Next
<1> QED
  BY <1>1, <1>2, Invariance, PTL DEF Spec

-----------------------------------------------------------------------------
(* The life of rows and messages *)

QueuedEvents == {queue[m] : m \in Messages} \ {None}

Rows == INSTANCE SavedEvents WITH queued <- QueuedEvents

\* The message that leaves the queue may have been the last one of its event.
LEMMA QueueOfAck ==
  ASSUME IInv, AckMessage
  PROVE  /\ handling \in QueuedEvents
         /\ QueuedEvents' \in {QueuedEvents, QueuedEvents \ {handling}}
         /\ handling \in stored \ processed => QueuedEvents' = QueuedEvents
<1> USE ConstantsAssumption DEF IInv, TypeOK, QueuedEvents
<1>1. /\ inHand \in Messages /\ queue[inHand] = handling /\ handling \in Events
      /\ queue' = [queue EXCEPT ![inHand] = None]
  BY DEF AckMessage, MessageInHandIsQueued, ConsumerPcs
<1>2. handling \in QueuedEvents
  BY <1>1
<1>3. CASE \E n \in Messages \ {inHand} : queue[n] = handling
  BY <1>1, <1>3
<1>4. CASE ~ \E n \in Messages \ {inHand} : queue[n] = handling
  <2>1. handling \notin stored \ processed
    BY <1>4 DEF AckMessage, AckIsHarmless
  <2>2. QueuedEvents' = QueuedEvents \ {handling}
    BY <1>1, <1>4
  <2> QED
    BY <1>2, <2>1, <2>2
<1> QED
  BY <1>2, <1>3, <1>4

\* The pipeline keeps to the life of rows and messages that Contacts keeps to as
\* well: a row and its message come together, a crash between two steps included.
THEOREM ImplementsSavedEvents == Spec => Rows!Spec
<1>1. Init => Rows!Init
  BY DEF Init, Rows!Init, QueuedEvents
<1>2. IInv /\ [Next]_vars => [Rows!Next]_(Rows!vars)
  <2> SUFFICES ASSUME IInv, [Next]_vars
               PROVE  Rows!Next \/ UNCHANGED Rows!vars
    OBVIOUS
  <2> USE DEF IInv, TypeOK
  <2>1. ASSUME NEW m \in Messages, SaveCommits(m) PROVE Rows!Next
    <3>1. saverEvent \in Events \ stored
      BY <2>1 DEF SaveCommits, StagedIsNew, SaverPcs
    <3>2. QueuedEvents' = QueuedEvents \cup {saverEvent}
      BY <2>1, <3>1, ConstantsAssumption DEF SaveCommits, QueuedEvents
    <3>3. Rows!Save(saverEvent)
      BY <2>1, <3>1, <3>2 DEF SaveCommits, Rows!Save
    <3> QED
      BY <3>1, <3>3 DEF Rows!Next
  <2>2. ASSUME NEW next \in {"ack", "nack"}, MarkAsProcessed(next) PROVE Rows!Next
    <3>1. handling \in Events /\ inHand \in Messages /\ queue[inHand] = handling
      BY <2>2 DEF MarkAsProcessed, HandlerMoves, MessageInHandIsQueued
    <3>2. handling \in QueuedEvents
      BY <3>1, ConstantsAssumption DEF QueuedEvents
    <3>3. QueuedEvents' = QueuedEvents
      BY <2>2 DEF MarkAsProcessed, pubsub, QueuedEvents
    <3>4. Rows!Process(handling)
      BY <2>2, <3>2, <3>3 DEF MarkAsProcessed, Rows!Process
    <3> QED
      BY <3>1, <3>4 DEF Rows!Next
  <2>3. CASE AckMessage
    <3>1. handling \in Events /\ UNCHANGED <<stored, processed>>
      BY <2>3 DEF AckMessage, rows, ConsumerPcs
    <3>2. Rows!Settle(handling) \/ UNCHANGED Rows!vars
      BY <2>3, <3>1, QueueOfAck DEF Rows!Settle, Rows!vars
    <3> QED
      BY <3>1, <3>2 DEF Rows!Next
  <2>4. CASE CleanupProcessedEvents
    <3>1. QueuedEvents' = QueuedEvents
      BY <2>4 DEF CleanupProcessedEvents, pubsub, QueuedEvents
    <3>2. Rows!Delete(expired)
      BY <2>4, <3>1 DEF CleanupProcessedEvents, Rows!Delete
    <3> QED
      BY <3>2 DEF Rows!Next
  <2>5. CASE UNCHANGED <<stored, processed, queue>>
    BY <2>5 DEF Rows!vars, QueuedEvents
  <2>6. CASE SaverNext
    BY <2>1, <2>5, <2>6 DEF SaverNext, SkipDuplicate, ReceiveEvent, SaveGivesUp,
       SaveFindsExisting, SaveStages, SaveRollsBack, AddAnother, vars, rows, pubsub
  <2>7. CASE ConsumerNext
    BY <2>2, <2>3, <2>5, <2>7 DEF ConsumerNext, ReadMessage, LoadEvent,
       SaveRelaysAndContacts, PublishExternally, SkipRelay, SendToRelay, HandlerFails,
       NackMessage, AckOrNackFails, rows, pubsub
  <2>8. CASE TimeNext
    BY <2>4, <2>5, <2>8 DEF TimeNext, BackoffElapses, RetentionElapses, RotationElapses,
       rows, pubsub
  <2>9. CASE CrashAndRestart \/ UNCHANGED vars
    BY <2>5, <2>9 DEF CrashAndRestart, vars, rows, pubsub
  <2> QED
    BY <2>6, <2>7, <2>8, <2>9 DEF Next
<1> QED
  BY <1>1, <1>2, Invariance, PTL DEF Spec, Rows!Spec
=============================================================================
