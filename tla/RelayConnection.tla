--------------------------- MODULE RelayConnection ---------------------------
(***************************************************************************)
(* RelayConnection as far as subscriptions and backpressure go: its        *)
(* connections to a relay one after another, the subscriptions GetEvents   *)
(* registers, and the state that the backpressure loop writes.             *)
(*                                                                         *)
(*  - the runner is the goroutine of Run.  It connects, reads and handles  *)
(*    messages, and waits for the goroutines of a connection to end;       *)
(*  - the manager is manageSubs, one per connection;                       *)
(*  - each subscription has a consumer, which ranges over its channel      *)
(*    (RelayDownloader.performTask), and a goroutine that removes it when  *)
(*    its context is cancelled;                                            *)
(*  - the monitor is the backpressure loop of EventSavedEventSubscriber,   *)
(*    seen from a connection other than the one to relay.nos.social.       *)
(* What two of them share is the map of subscriptions, under               *)
(* subscriptionsMutex; subscriptionsUpdatedCh, which loses a wakeup that   *)
(* nobody waits for; and the state, which the runner reads unlocked.       *)
(*                                                                         *)
(* The relay is the environment.  It may send anything about what it was   *)
(* asked for, close subscriptions, and go away.  Events to send are the    *)
(* subject of another module.  Definitions whose names begin with Faulty   *)
(* are not part of the system, see EventPipeline.                          *)
(***************************************************************************)
EXTENDS Naturals, Sequences

CONSTANTS Subs,      \* subscription ids, used once each
          None,      \* no message
          MaxInbox   \* bound on the messages on their way from the relay

ASSUME ConstantsAssumption == MaxInbox \in Nat \ {0}

\* Messages about a subscription: EVENT and EOSE, which take the same way to its
\* consumer, and CLOSED.
Kinds == {"value", "closed"}
Message == [kind : Kinds, sub : Subs]

ASSUME NoneAssumption == None \notin Message

VARIABLES
  state,      \* RelayConnection.state
  monitor,    \* the state the monitor has decided to set, or "idle"
  \* the runner
  runPc,
  message,    \* the message it is handling
  \* the manager
  managerPc,
  active,     \* activeSubscriptions
  \* RelayConnection.subscriptions
  channel,    \* per subscription: "unused", "open" (it is in the map), "closed"
  mutex,      \* who holds subscriptionsMutex between two steps
  cancelled,  \* subscriptions whose context is cancelled
  busy,       \* subscriptions whose consumer is handling a value
  \* the connection and the relay at its other end
  up,         \* reading and writing do not fail yet
  asked,      \* what the relay has been asked for, on this connection
  served,     \* those it has not closed
  inbox       \* messages that can be read

runner  == <<runPc, message>>
manager == <<managerPc, active>>
network == <<up, asked, served, inbox>>
clients == <<channel, cancelled, busy>>
vars    == <<state, monitor, runner, manager, clients, mutex, network>>

Open == {s \in Subs : channel[s] = "open"}

Init ==
  /\ state = "initializing" /\ monitor = "idle"
  /\ runPc = "dialing" /\ message = None
  /\ managerPc = "off" /\ active = {}
  /\ channel = [s \in Subs |-> "unused"] /\ mutex = "free"
  /\ cancelled = {} /\ busy = {}
  /\ up = FALSE /\ asked = {} /\ served = {} /\ inbox = <<>>

-----------------------------------------------------------------------------
(* The relay *)

RelaySends(kind, s) ==
  /\ up
  /\ s \in served
  /\ Len(inbox) < MaxInbox
  /\ inbox' = Append(inbox, [kind |-> kind, sub |-> s])
  /\ served' = IF kind = "closed" THEN served \ {s} ELSE served
  /\ UNCHANGED <<state, monitor, runner, manager, clients, mutex, up, asked>>

\* The connection is closed, by whoever does it.
Close == /\ up' = FALSE
         /\ asked' = {} /\ served' = {}
         /\ inbox' = <<>>

ConnectionBreaks ==
  /\ up
  /\ Close
  /\ UNCHANGED <<state, monitor, runner, manager, clients, mutex>>

-----------------------------------------------------------------------------
(* Run and run *)

\* The manager remembers what the relay was asked for on the last connection.
FaultyConnect ==
  /\ runPc = "dialing"
  /\ runPc' = "reading" /\ state' = "connected"
  /\ managerPc' = "locking" /\ UNCHANGED active
  /\ up' = TRUE
  /\ UNCHANGED <<monitor, message, clients, mutex, asked, served, inbox>>

Connect ==
  /\ runPc = "dialing"
  /\ runPc' = "reading" /\ state' = "connected"
  /\ managerPc' = "locking" /\ active' = {}
  /\ up' = TRUE
  /\ UNCHANGED <<monitor, message, clients, mutex, asked, served, inbox>>

\* The deferred setState runs although nothing was connected.
DialFails ==
  /\ runPc = "dialing"
  /\ state' = "disconnected"
  /\ UNCHANGED <<monitor, runner, manager, clients, mutex, network>>

ReadMessage ==
  /\ runPc = "reading"
  /\ up
  /\ inbox # <<>>
  /\ message' = Head(inbox) /\ inbox' = Tail(inbox)
  /\ runPc' = "received"
  /\ UNCHANGED <<state, monitor, manager, clients, mutex, up, asked, served>>

\* The context of the connection is cancelled.
ReadFails ==
  /\ runPc = "reading"
  /\ ~up
  /\ runPc' = "stopping"
  /\ UNCHANGED <<state, monitor, message, manager, clients, mutex, network>>

\* The message is dropped and the connection with it: the context is cancelled
\* and the connection closed.
StopOnBackPressure ==
  /\ runPc = "received"
  /\ state = "backpressured"
  /\ runPc' = "stopping" /\ message' = None
  /\ Close
  /\ UNCHANGED <<state, monitor, manager, clients, mutex>>

\* handleMessage.  A CLOSED message, or one that has nothing to do with
\* subscriptions, does not change them.
HandleMessage ==
  /\ runPc = "received"
  /\ state # "backpressured"
  /\ IF message.kind = "closed"
     THEN runPc' = "reading" /\ message' = None
     ELSE runPc' = "passing" /\ UNCHANGED message
  /\ UNCHANGED <<state, monitor, manager, clients, mutex, network>>

\* passEventOrEOSEToChannel locks the map and finds the subscription, or not.
FindChannel ==
  /\ runPc = "passing"
  /\ mutex = "free"
  /\ IF message.sub \in Open
     THEN mutex' = "runner" /\ UNCHANGED runner
     ELSE runPc' = "reading" /\ message' = None /\ UNCHANGED mutex
  /\ UNCHANGED <<state, monitor, manager, clients, network>>

Passed == /\ mutex' = "free"
          /\ runPc' = "reading"
          /\ message' = None

\* The consumer receives the value.
PassMessage ==
  /\ runPc = "passing" /\ mutex = "runner"
  /\ message.sub \notin busy
  /\ busy' = busy \cup {message.sub}
  /\ Passed
  /\ UNCHANGED <<state, monitor, manager, channel, cancelled, network>>

\* The lock is not released when the context turns out to be cancelled.
FaultyDropMessage ==
  /\ runPc = "passing" /\ mutex = "runner"
  /\ message.sub \in cancelled
  /\ runPc' = "reading" /\ message' = None
  /\ UNCHANGED <<state, monitor, manager, clients, mutex, network>>

\* The context of the subscription is cancelled, whether or not the consumer is
\* ready to receive.
DropMessage ==
  /\ runPc = "passing" /\ mutex = "runner"
  /\ message.sub \in cancelled
  /\ Passed
  /\ UNCHANGED <<state, monitor, manager, clients, network>>

\* run returns without waiting for its goroutines.
FaultyDisconnect ==
  /\ runPc = "stopping"
  /\ runPc' = "dialing" /\ state' = "disconnected"
  /\ UNCHANGED <<monitor, message, manager, clients, mutex, network>>

\* The goroutines of the connection have ended and run returns.  Run tries
\* again after a backoff.
Disconnect ==
  /\ runPc = "stopping"
  /\ managerPc = "off"
  /\ runPc' = "dialing" /\ state' = "disconnected"
  /\ UNCHANGED <<monitor, message, manager, clients, mutex, network>>

-----------------------------------------------------------------------------
(* manageSubs and updateSubs *)

LockSubscriptions ==
  /\ managerPc = "locking"
  /\ mutex = "free"
  /\ mutex' = "manager" /\ managerPc' = "updating"
  /\ UNCHANGED <<state, monitor, runner, active, clients, network>>

\* A subscription the relay still has although it was removed.
Stale == active \ Open

SendClose(s) ==
  /\ managerPc = "updating"
  /\ s \in Stale
  /\ up
  /\ active' = active \ {s}
  /\ asked' = asked \ {s} /\ served' = served \ {s}
  /\ UNCHANGED <<state, monitor, runner, managerPc, clients, mutex, up, inbox>>

\* The subscription is not added to activeSubscriptions.
FaultySendReq(s) ==
  /\ managerPc = "updating"
  /\ Stale = {} /\ s \in Open \ active
  /\ up
  /\ asked' = asked \cup {s} /\ served' = served \cup {s}
  /\ UNCHANGED <<state, monitor, runner, manager, clients, mutex, up, inbox>>

SendReq(s) ==
  /\ managerPc = "updating"
  /\ Stale = {} /\ s \in Open \ active
  /\ up
  /\ active' = active \cup {s}
  /\ asked' = asked \cup {s} /\ served' = served \cup {s}
  /\ UNCHANGED <<state, monitor, runner, managerPc, clients, mutex, up, inbox>>

\* Writing fails, which it may do on a connection that can still be read.
\* manageSubs returns and closes the connection.
SendFails ==
  /\ managerPc = "updating"
  /\ active # Open
  /\ mutex' = "free" /\ managerPc' = "off"
  /\ Close
  /\ UNCHANGED <<state, monitor, runner, active, clients>>

\* The lock is not released.
FaultyUpdateDone ==
  /\ managerPc = "updating"
  /\ active = Open
  /\ managerPc' = "updated"
  /\ UNCHANGED <<state, monitor, runner, active, clients, mutex, network>>

UpdateDone ==
  /\ managerPc = "updating"
  /\ active = Open
  /\ mutex' = "free" /\ managerPc' = "updated"
  /\ UNCHANGED <<state, monitor, runner, active, clients, network>>

\* The manager arrives at its select.  Until then a trigger is lost.
WaitForUpdate ==
  /\ managerPc = "updated"
  /\ managerPc' = "waiting"
  /\ UNCHANGED <<state, monitor, runner, active, clients, mutex, network>>

\* The context of the connection is done.
StopManaging ==
  /\ managerPc = "waiting"
  /\ runPc = "stopping"
  /\ managerPc' = "off"
  /\ Close
  /\ UNCHANGED <<state, monitor, runner, active, clients, mutex>>

\* A send on subscriptionsUpdatedCh that does not block.
TriggerSubscriptionUpdate ==
  managerPc' = IF managerPc = "waiting" THEN "locking" ELSE managerPc

-----------------------------------------------------------------------------
(* GetEvents and the goroutines of a subscription *)

GetEvents(s) ==
  /\ channel[s] = "unused"
  /\ mutex = "free"
  /\ channel' = [channel EXCEPT ![s] = "open"]
  /\ TriggerSubscriptionUpdate
  /\ UNCHANGED <<state, monitor, runner, active, cancelled, busy, mutex, network>>

\* The task is done or replaced.  A context that is cancelled before GetEvents
\* is called is like one that is cancelled right after.
CancelContext(s) ==
  /\ s \in Open \ cancelled
  /\ cancelled' = cancelled \cup {s}
  /\ UNCHANGED <<state, monitor, runner, manager, channel, busy, mutex, network>>

\* The channel is closed without the lock.
FaultyRemoveSubscriptionChannel(s) ==
  /\ s \in cancelled \cap Open
  /\ channel' = [channel EXCEPT ![s] = "closed"]
  /\ TriggerSubscriptionUpdate
  /\ UNCHANGED <<state, monitor, runner, active, cancelled, busy, mutex, network>>

RemoveSubscriptionChannel(s) ==
  /\ s \in cancelled \cap Open
  /\ mutex = "free"
  /\ channel' = [channel EXCEPT ![s] = "closed"]
  /\ TriggerSubscriptionUpdate
  /\ UNCHANGED <<state, monitor, runner, active, cancelled, busy, mutex, network>>

\* performTask is ready for the next value.
ConsumeMessage(s) ==
  /\ s \in busy
  /\ busy' = busy \ {s}
  /\ UNCHANGED <<state, monitor, runner, manager, channel, cancelled, mutex, network>>

-----------------------------------------------------------------------------
(* NotifyBackPressure and ResolveBackPressure, for one connection *)

\* The queue is too long, or it is not, and the state is one to be changed.
Decide(from, to) ==
  /\ monitor = "idle"
  /\ state = from
  /\ monitor' = to
  /\ UNCHANGED <<state, runner, manager, clients, mutex, network>>

\* setState, whatever the state is by now.
SetState ==
  /\ monitor # "idle"
  /\ state' = monitor
  /\ monitor' = "idle"
  /\ UNCHANGED <<runner, manager, clients, mutex, network>>

-----------------------------------------------------------------------------

RelayNext ==
  \/ \E kind \in Kinds, s \in Subs : RelaySends(kind, s)
  \/ ConnectionBreaks

RunNext ==
  \/ Connect
  \/ DialFails
  \/ ReadMessage
  \/ ReadFails
  \/ StopOnBackPressure
  \/ HandleMessage
  \/ FindChannel
  \/ PassMessage
  \/ DropMessage
  \/ Disconnect

ManagerNext ==
  \/ LockSubscriptions
  \/ \E s \in Subs : SendClose(s) \/ SendReq(s)
  \/ SendFails
  \/ UpdateDone
  \/ WaitForUpdate
  \/ StopManaging

ClientNext ==
  \E s \in Subs :
    \/ GetEvents(s)
    \/ CancelContext(s)
    \/ RemoveSubscriptionChannel(s)
    \/ ConsumeMessage(s)

MonitorNext ==
  \/ Decide("connected", "backpressured")
  \/ Decide("backpressured", "connected")
  \/ SetState

Next == RelayNext \/ RunNext \/ ManagerNext \/ ClientNext \/ MonitorNext

Spec == Init /\ [][Next]_vars

(* Fairness.  Every goroutine keeps running, and sync.Mutex does not starve   *)
(* the goroutines that wait for it.  Writing a message returns, and a relay   *)
(* sends something, EOSE at least, for what it was asked for.  That dialing   *)
(* ever succeeds is not assumed.                                              *)
Fairness ==
  /\ WF_vars(ReadMessage \/ ReadFails)
  /\ WF_vars(StopOnBackPressure \/ HandleMessage)
  /\ SF_vars(FindChannel) /\ WF_vars(PassMessage \/ DropMessage) /\ WF_vars(Disconnect)
  /\ SF_vars(LockSubscriptions)
  /\ WF_vars(SendFails \/ \E s \in Subs : SendClose(s) \/ SendReq(s))
  /\ WF_vars(UpdateDone) /\ WF_vars(WaitForUpdate) /\ WF_vars(StopManaging)
  /\ \A s \in Subs : /\ SF_vars(RelaySends("value", s))
                     /\ SF_vars(RemoveSubscriptionChannel(s)) /\ WF_vars(ConsumeMessage(s))

FairSpec == Spec /\ Fairness

-----------------------------------------------------------------------------
(* Properties *)

TypeOK ==
  /\ state \in {"initializing", "connected", "backpressured", "disconnected"}
  /\ monitor \in {"idle", "connected", "backpressured"}
  /\ runPc \in {"dialing", "reading", "received", "passing", "stopping"}
  /\ message \in Message \cup {None}
  /\ message # None <=> runPc \in {"received", "passing"}
  /\ managerPc \in {"off", "locking", "updating", "updated", "waiting"}
  /\ active \subseteq Subs
  /\ channel \in [Subs -> {"unused", "open", "closed"}]
  /\ mutex \in {"free", "runner", "manager"}
  /\ mutex = "manager" <=> managerPc = "updating"
  /\ mutex = "runner" => runPc = "passing"
  /\ cancelled \subseteq Subs /\ busy \subseteq Subs
  /\ up \in BOOLEAN
  /\ served \subseteq asked /\ asked \subseteq Subs
  /\ inbox \in Seq(Message)

\* The runner never sends on a closed channel, which would end the process: the
\* channel it has found in the map stays open until the value is passed or
\* dropped, although its context may be cancelled meanwhile.
NoSendOnClosedChannel == mutex = "runner" => message.sub \in Open

\* On every connection the manager knows exactly what the relay has been asked
\* for: it forgets to close nothing, and takes no subscription for requested
\* because a connection before was asked for it.
ActiveIsAsked == up /\ managerPc # "off" => active = asked

\* The goroutines of a connection have ended before the next one is made: no two
\* managers write, and nobody holds the lock for a connection that is gone.
OneConnectionAtATime ==
  runPc = "dialing" => managerPc = "off" /\ ~up /\ mutex = "free"

\* The channel of a cancelled subscription is closed in the end, so that its
\* consumer ends, even while the relay goes on sending to it.
CancelledChannelsAreClosed ==
  \A s \in Subs : s \in cancelled /\ s \in Open ~> s \notin Open

\* A new connection, or a wakeup, makes up for what was missed before: every
\* subscription that is in the map by then is requested, unless it is removed or
\* the connection is lost.
UpdateRequestsEverything ==
  \A s \in Subs : managerPc = "locking" /\ s \in Open ~> s \in asked \/ s \notin Open \/ ~up

\* What a relay sends for a subscription reaches its consumer, unless the
\* subscription is cancelled or closed or the connection is lost: the runner is
\* never stuck with a value, whatever other consumers and the manager do.
ServedSubscriptionsReceive ==
  \A s \in Subs : s \in served ~> s \in busy \cup cancelled \/ s \notin served

\* "Run the filter specified by the task" (downloader.go:342): a subscription is
\* requested from the relay unless it is cancelled or the connection is lost.
FilterIsRun ==
  \A s \in Subs : s \in Open /\ up ~> s \in asked \cup cancelled \/ ~up
=============================================================================
