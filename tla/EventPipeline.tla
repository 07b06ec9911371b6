--------------------------- MODULE EventPipeline ---------------------------
(***************************************************************************)
(* The life of an event inside the service, from the moment a relay offers *)
(* it to the moment its row is cleaned up.                                 *)
(*                                                                         *)
(*  - the saver is the ReceivedEventSubscriber goroutine, which runs       *)
(*    SaveReceivedEventHandler.Handle for one event at a time;             *)
(*  - the consumer is PubSub.subscribe together with the                   *)
(*    EventSavedEventSubscriber it hands its messages to: one message is   *)
(*    read, handled by ProcessSavedEventHandler.Handle, acked or nacked,   *)
(*    and only then is the next one read;                                  *)
(*  - the database holds the rows of "events" and of "pubsub".  Only one   *)
(*    transaction is open at a time (sqlite.TransactionRunner), so every   *)
(*    transaction but the saver's is a single step.  The saver's is open   *)
(*    while saverPc = "staged": it has already touched the duplicate       *)
(*    filter, which no rollback restores;                                  *)
(*  - the process may crash at any point.  The rows survive, the filter    *)
(*    and what the goroutines were doing do not.                           *)
(*                                                                         *)
(* Every failing call (a database error, an expired context, an error of   *)
(* the external publisher or of the relay) is a step that may be taken     *)
(* instead of the successful one.                                          *)
(*                                                                         *)
(* The definitions whose names begin with Faulty are not part of the       *)
(* system: each is a mistake the code could have made, substituted for the *)
(* definition that follows it to show which property notices.              *)
(***************************************************************************)
EXTENDS Naturals

CONSTANTS Events,     \* event ids
          Messages,   \* uuids of queue messages; bounds the length of the queue
          None,       \* no event, no message
          Forwarded,  \* the events ShouldSendEventToRelay holds for
          Stuck,      \* the forwarded events that the relay never settles
          MaxCrashes  \* bound on the number of crashes

ASSUME ConstantsAssumption ==
  /\ None \notin Events
  /\ None \notin Messages
  /\ Forwarded \subseteq Events
  /\ Stuck \subseteq Forwarded
  /\ MaxCrashes \in Nat

VARIABLES
  \* table "events"
  stored,       \* rows, by event_id
  processed,    \* rows whose processed_at is set
  expired,      \* processed rows whose processed_at is more than an hour ago
  \* table "pubsub"
  queue,        \* uuid -> the event its payload names, None if there is no row
  backingOff,   \* rows whose backoff_until is in the future
  \* bloom.EventFilter
  current, previous,
  rotationDue,  \* lastRotated is at least RotationInterval ago
  \* the goroutines
  saverPc, saverEvent,
  consumerPc, inHand, handling,
  \* the outside world, and history
  published,    \* events PublishNewEventReceived has been called for
  answered,     \* events the relay accepted, or refused as replaced or invalid
  saved,        \* events whose saving transaction ever committed
  crashes

rows     == <<stored, processed, expired>>
pubsub   == <<queue, backingOff>>
filter   == <<current, previous, rotationDue>>
saver    == <<saverPc, saverEvent>>
consumer == <<consumerPc, inHand, handling>>
world    == <<published, answered, saved>>
vars     == <<rows, pubsub, filter, saver, consumer, world, crashes>>

SaverPcs    == {"idle", "called", "staged"}
\* The consumer's control points, and the step of Handle each of them precedes.
HandlerPcs  == {"delivered", "loaded", "extracted", "published", "sent"}
ConsumerPcs == {"idle", "ack", "nack"} \cup HandlerPcs

\* bloom.EventFilter.Contains, apart from its false positives: one of those
\* makes Handle return without doing anything, as SkipDuplicate does.
Contains(e) == e \in current \cup previous

\* The transaction runner is free to run another transaction.
RunnerFree == saverPc # "staged"

Queued(e) == {m \in Messages : queue[m] = e}

Init ==
  /\ stored = {} /\ processed = {} /\ expired = {}
  /\ queue = [m \in Messages |-> None] /\ backingOff = {}
  /\ current = {} /\ previous = {} /\ rotationDue = FALSE
  /\ saverPc = "idle" /\ saverEvent = None
  /\ consumerPc = "idle" /\ inHand = None /\ handling = None
  /\ published = {} /\ answered = {} /\ saved = {}
  /\ crashes = 0

-----------------------------------------------------------------------------
(* SaveReceivedEventHandler.Handle *)

\* bloom.EventFilter.Add, which is also where the filters rotate.
AddAll(S) ==
  \/ /\ ~rotationDue
     /\ current' = current \cup S
     /\ UNCHANGED <<previous, rotationDue>>
  \/ /\ rotationDue
     /\ previous' = current
     /\ current' = S
     /\ rotationDue' = FALSE

Add(e) == AddAll({e})

FaultySaverReturns == saverPc' = "idle" /\ UNCHANGED saverEvent

SaverReturns == /\ saverPc' = "idle"
                /\ saverEvent' = None

\* A relay offers an event that is found in the filter.
SkipDuplicate ==
  /\ saverPc = "idle"
  /\ \E e \in Events : Contains(e)
  /\ UNCHANGED vars

\* A relay offers e, which the filter does not know.
ReceiveEvent(e) ==
  /\ saverPc = "idle"
  /\ ~Contains(e)
  /\ saverPc' = "called"
  /\ saverEvent' = e
  /\ UNCHANGED <<rows, pubsub, filter, consumer, world, crashes>>

\* The transaction does not start or fails early (an error of Exists, of
\* shouldBeDownloaded, of the signature check or of Save), or the event is not
\* one that should have been downloaded.
SaveGivesUp ==
  /\ saverPc = "called"
  /\ SaverReturns
  /\ UNCHANGED <<rows, pubsub, filter, consumer, world, crashes>>

SaveFindsExisting ==
  /\ saverPc = "called"
  /\ saverEvent \in stored
  /\ Add(saverEvent)
  /\ SaverReturns
  /\ UNCHANGED <<rows, pubsub, consumer, world, crashes>>

\* The transaction does not look whether the event exists.
FaultySaveStages ==
  /\ saverPc = "called"
  /\ Add(saverEvent)
  /\ saverPc' = "staged"
  /\ UNCHANGED <<rows, pubsub, saverEvent, consumer, world, crashes>>

\* Events.Save has succeeded inside the transaction and the event is added to
\* the filter; what was saved is not visible to anybody yet.
SaveStages ==
  /\ saverPc = "called"
  /\ saverEvent \notin stored
  /\ Add(saverEvent)
  /\ saverPc' = "staged"
  /\ UNCHANGED <<rows, pubsub, saverEvent, consumer, world, crashes>>

\* PublishEventSaved inserts a message with a new uuid and the transaction
\* commits, whether or not the handler still waits for it.
SaveCommits(m) ==
  /\ saverPc = "staged"
  /\ queue[m] = None
  /\ stored' = stored \cup {saverEvent}
  /\ queue' = [queue EXCEPT ![m] = saverEvent]
  /\ saved' = saved \cup {saverEvent}
  /\ SaverReturns
  /\ UNCHANGED <<processed, expired, backingOff, filter, consumer, published,
                 answered, crashes>>

\* The row is written outside the transaction that publishes the message.
FaultySaveRollsBack ==
  /\ saverPc = "staged"
  /\ stored' = stored \cup {saverEvent}
  /\ SaverReturns
  /\ UNCHANGED <<processed, expired, pubsub, filter, consumer, world, crashes>>

\* PublishEventSaved or the commit fails, or the context has expired.
SaveRollsBack ==
  /\ saverPc = "staged"
  /\ SaverReturns
  /\ UNCHANGED <<rows, pubsub, filter, consumer, world, crashes>>

\* The events of the model are not the only ones: adding another one rotates the
\* filters as well.
AddAnother ==
  /\ rotationDue
  /\ saverPc = "idle"
  /\ AddAll({})
  /\ UNCHANGED <<rows, pubsub, saver, consumer, world, crashes>>

-----------------------------------------------------------------------------
(* PubSub.subscribe and ProcessSavedEventHandler.Handle *)

\* readMsg picks any message that is not backing off and hands it over.
ReadMessage(m) ==
  /\ RunnerFree
  /\ consumerPc = "idle"
  /\ queue[m] # None
  /\ m \notin backingOff
  /\ consumerPc' = "delivered"
  /\ inHand' = m
  /\ handling' = queue[m]
  /\ UNCHANGED <<rows, pubsub, filter, saver, world, crashes>>

\* Handle gets past the call it was at: to next, or to the error of a call
\* whose effect took place but whose answer was lost.
HandlerMoves(from, next) ==
  /\ consumerPc = from
  /\ consumerPc' = next
  /\ UNCHANGED <<inHand, handling, filter, saver, crashes>>

LoadEvent ==
  /\ RunnerFree
  /\ handling \in stored
  /\ HandlerMoves("delivered", "loaded")
  /\ UNCHANGED <<rows, pubsub, world>>

\* What the transaction stores is the subject of module Contacts.
SaveRelaysAndContacts ==
  /\ RunnerFree
  /\ HandlerMoves("loaded", "extracted")
  /\ UNCHANGED <<rows, pubsub, world>>

PublishExternally(next) ==
  /\ HandlerMoves("extracted", next)
  /\ published' = published \cup {handling}
  /\ UNCHANGED <<rows, pubsub, answered, saved>>

\* An event that should be sent is not.
FaultySkipRelay ==
  /\ HandlerMoves("published", "sent")
  /\ UNCHANGED <<rows, pubsub, world>>

\* maybeSendEventToRelay for an event that is not to be sent.
SkipRelay ==
  /\ handling \notin Forwarded
  /\ HandlerMoves("published", "sent")
  /\ UNCHANGED <<rows, pubsub, world>>

\* The relay says OK, or gives an error shouldDisregardSendEventErr covers.
SendToRelay(next) ==
  /\ handling \in Forwarded \ Stuck
  /\ HandlerMoves("published", next)
  /\ answered' = answered \cup {handling}
  /\ UNCHANGED <<rows, pubsub, published, saved>>

\* The event is marked as processed before it is sent to the relay.
FaultyMarkAsProcessed(next) ==
  /\ RunnerFree
  /\ HandlerMoves("published", next)
  /\ processed' = processed \cup ({handling} \cap stored)
  /\ expired' = expired \ {handling}
  /\ UNCHANGED <<stored, pubsub, world>>

\* An UPDATE: it touches no row if the event has been cleaned up meanwhile, and
\* sets processed_at anew if the event had been processed before.
MarkAsProcessed(next) ==
  /\ RunnerFree
  /\ HandlerMoves("sent", next)
  /\ processed' = processed \cup ({handling} \cap stored)
  /\ expired' = expired \ {handling}
  /\ UNCHANGED <<stored, pubsub, world>>

\* Any call of Handle fails before it has had an effect.  A call that needs the
\* transaction runner is served before it fails: the runner's channel serves its
\* senders in turn, and a context outlasts the transaction in progress.
HandlerFails ==
  /\ consumerPc \in HandlerPcs
  /\ consumerPc \in {"delivered", "loaded", "sent"} => RunnerFree
  /\ consumerPc' = "nack"
  /\ UNCHANGED <<inHand, handling, rows, pubsub, filter, saver, world, crashes>>

ConsumerReturns ==
  /\ consumerPc' = "idle"
  /\ inHand' = None
  /\ handling' = None

\* The message is deleted whether the handler succeeded or not.
FaultyAckMessage ==
  /\ RunnerFree
  /\ consumerPc \in {"ack", "nack"}
  /\ queue' = [queue EXCEPT ![inHand] = None]
  /\ backingOff' = backingOff \ {inHand}
  /\ ConsumerReturns
  /\ UNCHANGED <<rows, filter, saver, world, crashes>>

AckMessage ==
  /\ RunnerFree
  /\ consumerPc = "ack"
  /\ queue' = [queue EXCEPT ![inHand] = None]
  /\ backingOff' = backingOff \ {inHand}
  /\ ConsumerReturns
  /\ UNCHANGED <<rows, filter, saver, world, crashes>>

\* A failed message is tried again before any other is read.
FaultyNackMessage ==
  /\ consumerPc = "nack"
  /\ consumerPc' = "delivered"
  /\ UNCHANGED <<rows, pubsub, filter, saver, inHand, handling, world, crashes>>

NackMessage ==
  /\ RunnerFree
  /\ consumerPc = "nack"
  /\ queue[inHand] # None
  /\ backingOff' = backingOff \cup {inHand}
  /\ ConsumerReturns
  /\ UNCHANGED <<rows, queue, filter, saver, world, crashes>>

\* An error of ack or of nack is logged and the loop goes on.
AckOrNackFails ==
  /\ consumerPc \in {"ack", "nack"}
  /\ ConsumerReturns
  /\ UNCHANGED <<rows, pubsub, filter, saver, world, crashes>>

-----------------------------------------------------------------------------
(* The cleanup timer, the passage of time, crashes *)

\* "processed_at IS NOT NULL" is missing from the DELETE.
FaultyCleanup ==
  /\ RunnerFree
  /\ stored # {}
  /\ stored' = {} /\ processed' = {} /\ expired' = {}
  /\ UNCHANGED <<pubsub, filter, saver, consumer, world, crashes>>

\* Nothing is deleted while anything is left to process.
FaultyIdleCleanup ==
  /\ RunnerFree
  /\ expired # {} /\ stored = processed
  /\ stored' = stored \ expired
  /\ processed' = processed \ expired
  /\ expired' = {}
  /\ UNCHANGED <<pubsub, filter, saver, consumer, world, crashes>>

CleanupProcessedEvents ==
  /\ RunnerFree
  /\ expired # {}
  /\ stored' = stored \ expired
  /\ processed' = processed \ expired
  /\ expired' = {}
  /\ UNCHANGED <<pubsub, filter, saver, consumer, world, crashes>>

BackoffElapses(m) ==
  /\ m \in backingOff
  /\ backingOff' = backingOff \ {m}
  /\ UNCHANGED <<rows, queue, filter, saver, consumer, world, crashes>>

RetentionElapses(e) ==
  /\ e \in processed \ expired
  /\ expired' = expired \cup {e}
  /\ UNCHANGED <<stored, processed, pubsub, filter, saver, consumer, world, crashes>>

RotationElapses ==
  /\ ~rotationDue
  /\ rotationDue' = TRUE
  /\ UNCHANGED <<rows, pubsub, current, previous, saver, consumer, world, crashes>>

\* The process dies and is started again: an open transaction is rolled back
\* and the filter is empty.  The time it was down for is the Elapses steps that
\* follow.
CrashAndRestart ==
  /\ crashes < MaxCrashes
  /\ crashes' = crashes + 1
  /\ current' = {} /\ previous' = {} /\ rotationDue' = FALSE
  /\ SaverReturns
  /\ ConsumerReturns
  /\ UNCHANGED <<rows, pubsub, world>>

-----------------------------------------------------------------------------

SaverNext ==
  \/ SkipDuplicate
  \/ \E e \in Events : ReceiveEvent(e)
  \/ SaveGivesUp
  \/ SaveFindsExisting
  \/ SaveStages
  \/ \E m \in Messages : SaveCommits(m)
  \/ SaveRollsBack
  \/ AddAnother

ConsumerNext ==
  \/ \E m \in Messages : ReadMessage(m)
  \/ LoadEvent
  \/ SaveRelaysAndContacts
  \/ \E next \in {"published", "nack"} : PublishExternally(next)
  \/ SkipRelay
  \/ \E next \in {"sent", "nack"} : SendToRelay(next)
  \/ \E next \in {"ack", "nack"} : MarkAsProcessed(next)
  \/ HandlerFails
  \/ AckMessage
  \/ NackMessage
  \/ AckOrNackFails

TimeNext ==
  \/ CleanupProcessedEvents
  \/ \E m \in Messages : BackoffElapses(m)
  \/ \E e \in Events : RetentionElapses(e)
  \/ RotationElapses

Next == SaverNext \/ ConsumerNext \/ TimeNext \/ CrashAndRestart

Spec == Init /\ [][Next]_vars

(* Fairness.  A goroutine of a running process keeps running, and every call  *)
(* it makes returns: the handlers bound theirs by contexts that expire.  A    *)
(* call that is made again and again succeeds in the end, which is what the   *)
(* strong fairness of the successful outcomes says; the relay never settles   *)
(* an event of Stuck.  readMsg draws at random (ORDER BY RANDOM()), so a      *)
(* message that is readable again and again is drawn in the end.              *)
For(e, A) == handling = e /\ A

Fairness ==
  /\ WF_vars(SaveGivesUp \/ SaveStages)
  /\ WF_vars((\E m \in Messages : SaveCommits(m)) \/ SaveRollsBack)
  /\ \A m \in Messages : SF_vars(ReadMessage(m)) /\ WF_vars(BackoffElapses(m))
  /\ \A e \in Events \ Stuck : /\ SF_vars(For(e, LoadEvent))
                               /\ SF_vars(For(e, SaveRelaysAndContacts))
                               /\ SF_vars(For(e, PublishExternally("published")))
                               /\ SF_vars(For(e, SkipRelay \/ SendToRelay("sent")))
                               /\ SF_vars(For(e, MarkAsProcessed("ack")))
                               /\ SF_vars(For(e, AckMessage))
                               /\ WF_vars(RetentionElapses(e))
  /\ WF_vars(HandlerFails)
  /\ WF_vars(NackMessage \/ AckOrNackFails)
  /\ SF_vars(CleanupProcessedEvents)

FairSpec == Spec /\ Fairness

-----------------------------------------------------------------------------
(* Properties *)

\* Types, and what each goroutine holds on to between its steps.
TypeOK ==
  /\ stored \subseteq Events
  /\ processed \subseteq stored
  /\ expired \subseteq processed
  /\ queue \in [Messages -> Events \cup {None}]
  /\ backingOff \subseteq Messages
  /\ current \subseteq Events /\ previous \subseteq Events
  /\ rotationDue \in BOOLEAN
  /\ saverPc \in SaverPcs /\ saverEvent \in Events \cup {None}
  /\ saverPc = "idle" <=> saverEvent = None
  /\ consumerPc \in ConsumerPcs
  /\ inHand \in Messages \cup {None} /\ handling \in Events \cup {None}
  /\ consumerPc = "idle" => inHand = None /\ handling = None
  /\ consumerPc # "idle" => inHand # None /\ handling # None
  /\ published \subseteq Events
  /\ answered \subseteq Events
  /\ saved \subseteq Events
  /\ crashes \in 0..MaxCrashes

\* An event that has been stored and not processed has a message in the queue,
\* whatever failed and wherever the process crashed: the handler that saves it
\* writes both in one transaction, and only a message of a processed event is
\* deleted (pubsub.go, event_saved.go, handler_save_received_event.go).
UnprocessedIsQueued == \A e \in stored \ processed : Queued(e) # {}

\* processed_at is set only after the event has been published externally and,
\* if it is forwarded, after the relay has answered for it
\* (handler_process_saved_event.go).
ProcessedWasDelivered == /\ processed \subseteq published
                         /\ processed \cap Forwarded \subseteq answered

\* Once the transaction that saved an event has committed, the event has been
\* published externally or is still there to be processed: the cleanup timer,
\* retries and crashes never lose it.
NothingSavedIsLost ==
  \A e \in saved : e \in published \/ (e \in stored /\ Queued(e) # {})

\* An event has a second message in the queue only once it has been published:
\* until then relays that offer it again find the row, the filter or the
\* transaction in progress.
QueuedOnceUntilPublished ==
  \A m, n \in Messages :
    m # n /\ queue[m] = queue[n] /\ queue[m] # None => queue[m] \in published

\* While a message is in the consumer's hands its row stays in the queue, with
\* the payload that was read, so that ack and nack find it.
MessageInHandIsQueued == inHand # None => queue[inHand] = handling

\* A message leaves the queue only when its event has been delivered everywhere
\* it should be: a handler that failed never loses its message.
RemovedOnlyWhenDelivered ==
  [][\A m \in Messages :
       queue[m] # None /\ queue'[m] = None =>
         /\ queue[m] \in published
         /\ queue[m] \in Forwarded => queue[m] \in answered]_vars

\* The pipeline implements the abstract delivery of events: what it accepts is
\* settled only after it has been delivered, crashes and retries included.
Delivery == INSTANCE EventDelivery WITH pending <- stored \ processed
DeliverySpec == Delivery!Spec

\* Every stored event is eventually processed although another one may never
\* be: a message that keeps being nacked does not hold up the rest of the queue.
EverySavedEventIsProcessed ==
  \A e \in Events \ Stuck : e \in stored \ processed ~> e \in processed

\* The rows of processed events do not accumulate: each is deleted in the end,
\* however often its message is delivered again.
ProcessedEventsAreCleanedUp ==
  \A e \in Events : e \in processed ~> e \notin processed

\* "Add to filter after successful save" (handler_save_received_event.go:119):
\* when no save is in progress, the filter remembers only events that have been
\* saved.
FilterOnlyRemembersSaved ==
  saverPc # "staged" => current \cup previous \subseteq saved

\* "the event is already in the database" (handler_process_saved_event.go:74):
\* the event of a message handed to the handler has a row.
HandledEventIsStored == consumerPc = "delivered" => handling \in stored
=============================================================================
