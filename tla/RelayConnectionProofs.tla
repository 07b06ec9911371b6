----------------------- MODULE RelayConnectionProofs -----------------------
(***************************************************************************)
(* What RelayConnection guarantees for any number of subscriptions and     *)
(* messages on their way.                                                  *)
(***************************************************************************)
EXTENDS RelayConnection, TLAPS

\* Nothing is asked for on a connection that is gone, and the runner only waits
\* for the goroutines of such a one.
GoneMeansClosed ==
  /\ ~up => asked = {} /\ served = {}
  /\ runPc = "stopping" => ~up

IInv == /\ TypeOK
        /\ GoneMeansClosed
        /\ NoSendOnClosedChannel
        /\ ActiveIsAsked
        /\ OneConnectionAtATime

-----------------------------------------------------------------------------

LEMMA Initially == Init => IInv
<1> SUFFICES ASSUME Init PROVE IInv
  OBVIOUS
<1>1. TypeOK
  <2>1. up \in BOOLEAN
    BY Zenon DEF Init
  <2>2. message # None <=> runPc \in {"received", "passing"}
    BY DEF Init
  <2>3. channel \in [Subs -> {"unused", "open", "closed"}]
    BY DEF Init
  <2> QED
    BY <2>1, <2>2, <2>3 DEF Init, TypeOK
<1> QED
  BY <1>1 DEF Init, IInv, GoneMeansClosed, NoSendOnClosedChannel, ActiveIsAsked,
     OneConnectionAtATime

\* What the relay sends and the runner reads are messages.
LEMMA MessageTyping ==
  ASSUME TypeOK
  PROVE  /\ \A kind \in Kinds, s \in Subs :
              Append(inbox, [kind |-> kind, sub |-> s]) \in Seq(Message)
         /\ inbox # <<>> => Head(inbox) \in Message /\ Tail(inbox) \in Seq(Message)
         /\ <<>> \in Seq(Message)
         /\ \A m \in Message : m # None /\ m.sub \in Subs /\ m.kind \in Kinds
<1>1. ASSUME NEW kind \in Kinds, NEW s \in Subs
      PROVE  [kind |-> kind, sub |-> s] \in Message
  BY DEF Message
<1>2. \A m \in Message : m # None /\ m.sub \in Subs /\ m.kind \in Kinds
  BY NoneAssumption DEF Message
<1> QED
  BY <1>1, <1>2 DEF TypeOK

\* Every step keeps the types.  That the lock is released in time is needed for
\* them: it is held by the runner while it passes a value and by the manager while
\* it updates, and by one of them only.
LEMMA Typing == IInv /\ [Next]_vars => TypeOK'
<1> SUFFICES ASSUME IInv, TypeOK, [Next]_vars PROVE TypeOK'
  BY DEF IInv
<1> USE DEF TypeOK, runner, manager, clients, network, Open
<1>1. CASE RelayNext
  <2>1. ASSUME NEW kind \in Kinds, NEW s \in Subs, RelaySends(kind, s) PROVE TypeOK'
    BY <2>1, MessageTyping DEF RelaySends
  <2>2. CASE ConnectionBreaks
    BY <2>2, MessageTyping DEF ConnectionBreaks, Close
  <2> QED
    BY <1>1, <2>1, <2>2 DEF RelayNext
<1>2. CASE RunNext
  <2>1. ASSUME Connect \/ DialFails PROVE TypeOK'
    BY <2>1 DEF Connect, DialFails, IInv, OneConnectionAtATime
  <2>2. CASE ReadMessage
    BY <2>2, MessageTyping DEF ReadMessage
  <2>3. ASSUME ReadFails \/ StopOnBackPressure PROVE TypeOK'
    BY <2>3, MessageTyping DEF ReadFails, StopOnBackPressure, Close
  <2>4. ASSUME HandleMessage \/ FindChannel PROVE TypeOK'
    BY <2>4 DEF HandleMessage, FindChannel
  <2>5. ASSUME PassMessage \/ DropMessage PROVE TypeOK'
    BY <2>5, MessageTyping DEF PassMessage, DropMessage, Passed
  <2>6. CASE Disconnect
    BY <2>6 DEF Disconnect
  <2> QED
    BY <1>2, <2>1, <2>2, <2>3, <2>4, <2>5, <2>6 DEF RunNext
<1>3. CASE ManagerNext
  <2>1. CASE LockSubscriptions
    BY <2>1 DEF LockSubscriptions
  <2>2. ASSUME NEW s \in Subs, SendClose(s) \/ SendReq(s) PROVE TypeOK'
    BY <2>2 DEF SendClose, SendReq, Stale
  <2>3. ASSUME SendFails \/ StopManaging PROVE TypeOK'
    BY <2>3, MessageTyping DEF SendFails, StopManaging, Close
  <2>4. ASSUME UpdateDone \/ WaitForUpdate PROVE TypeOK'
    BY <2>4 DEF UpdateDone, WaitForUpdate
  <2> QED
    BY <1>3, <2>1, <2>2, <2>3, <2>4 DEF ManagerNext
<1>4. CASE ClientNext
  BY <1>4 DEF ClientNext, GetEvents, CancelContext, RemoveSubscriptionChannel, ConsumeMessage,
     TriggerSubscriptionUpdate
<1>5. CASE MonitorNext
  BY <1>5 DEF MonitorNext, Decide, SetState
<1>6. CASE UNCHANGED vars
  BY <1>6 DEF vars
<1> QED
  BY <1>1, <1>2, <1>3, <1>4, <1>5, <1>6 DEF Next

\* A connection ends before the next begins, and begins with nothing asked for.
LEMMA Connecting ==
  IInv /\ [Next]_vars => GoneMeansClosed' /\ ActiveIsAsked' /\ OneConnectionAtATime'
<1> SUFFICES ASSUME IInv, [Next]_vars
             PROVE  GoneMeansClosed' /\ ActiveIsAsked' /\ OneConnectionAtATime'
  OBVIOUS
<1> USE DEF IInv, GoneMeansClosed, ActiveIsAsked, OneConnectionAtATime,
        runner, manager, clients, network
<1>1. CASE RelayNext
  BY <1>1 DEF RelayNext, RelaySends, ConnectionBreaks, Close
<1>2. CASE RunNext
  <2>1. CASE Connect
    BY <2>1 DEF Connect
  <2>2. CASE StopOnBackPressure
    BY <2>2 DEF StopOnBackPressure, Close
  \* The manager has ended, and the runner passes nothing: nobody holds the lock.
  <2>3. CASE Disconnect
    BY <2>3 DEF Disconnect, TypeOK
  <2>4. ASSUME DialFails \/ ReadMessage \/ ReadFails \/ HandleMessage
        PROVE  GoneMeansClosed' /\ ActiveIsAsked' /\ OneConnectionAtATime'
    BY <2>4 DEF DialFails, ReadMessage, ReadFails, HandleMessage
  <2>5. ASSUME FindChannel \/ PassMessage \/ DropMessage
        PROVE  GoneMeansClosed' /\ ActiveIsAsked' /\ OneConnectionAtATime'
    BY <2>5 DEF FindChannel, PassMessage, DropMessage, Passed
  <2> QED
    BY <1>2, <2>1, <2>2, <2>3, <2>4, <2>5 DEF RunNext
<1>3. CASE ManagerNext
  <2>1. ASSUME NEW s \in Subs, SendClose(s) \/ SendReq(s)
        PROVE  GoneMeansClosed' /\ ActiveIsAsked' /\ OneConnectionAtATime'
    BY <2>1 DEF SendClose, SendReq
  <2>2. ASSUME SendFails \/ StopManaging
        PROVE  GoneMeansClosed' /\ ActiveIsAsked' /\ OneConnectionAtATime'
    BY <2>2 DEF SendFails, StopManaging, Close
  <2>3. ASSUME LockSubscriptions \/ UpdateDone \/ WaitForUpdate
        PROVE  GoneMeansClosed' /\ ActiveIsAsked' /\ OneConnectionAtATime'
    BY <2>3 DEF LockSubscriptions, UpdateDone, WaitForUpdate
  <2> QED
    BY <1>3, <2>1, <2>2, <2>3 DEF ManagerNext
<1>4. CASE ClientNext
  BY <1>4 DEF ClientNext, GetEvents, CancelContext, RemoveSubscriptionChannel, ConsumeMessage,
     TriggerSubscriptionUpdate
<1>5. CASE MonitorNext
  BY <1>5 DEF MonitorNext, Decide, SetState
<1>6. CASE UNCHANGED vars
  BY <1>6 DEF vars
<1> QED
  BY <1>1, <1>2, <1>3, <1>4, <1>5, <1>6 DEF Next

\* While the runner holds the lock the map stays as it is.
LEMMA Passing == IInv /\ [Next]_vars => NoSendOnClosedChannel'
<1> SUFFICES ASSUME IInv, [Next]_vars, mutex' = "runner" PROVE (message.sub \in Open)'
  BY DEF NoSendOnClosedChannel
<1> USE DEF IInv, NoSendOnClosedChannel, Open, runner, manager, clients, network
<1>1. CASE FindChannel
  BY <1>1 DEF FindChannel
<1>2. ASSUME mutex = "runner" /\ UNCHANGED <<channel, message>> PROVE (message.sub \in Open)'
  BY <1>2
<1>3. CASE RelayNext
  BY <1>2, <1>3 DEF RelayNext, RelaySends, ConnectionBreaks
<1>4. CASE RunNext
  \* Whoever reads or stops does not hold the lock.
  <2>1. ASSUME ReadMessage \/ StopOnBackPressure \/ HandleMessage PROVE FALSE
    BY <2>1 DEF ReadMessage, StopOnBackPressure, HandleMessage, TypeOK
  <2> QED
    BY <1>1, <1>2, <1>4, <2>1 DEF RunNext, Connect, DialFails, ReadFails, PassMessage, DropMessage,
       Passed, Disconnect
<1>5. CASE ManagerNext
  BY <1>2, <1>5 DEF ManagerNext, LockSubscriptions, SendClose, SendReq, SendFails, UpdateDone,
     WaitForUpdate, StopManaging
<1>6. CASE ClientNext
  BY <1>2, <1>6 DEF ClientNext, GetEvents, CancelContext, RemoveSubscriptionChannel, ConsumeMessage
<1>7. CASE MonitorNext
  BY <1>2, <1>7 DEF MonitorNext, Decide, SetState
<1>8. CASE UNCHANGED vars
  BY <1>2, <1>8 DEF vars
<1> QED
  BY <1>3, <1>4, <1>5, <1>6, <1>7, <1>8 DEF Next

LEMMA Invariance == Spec => []IInv
<1>1. IInv /\ [Next]_vars => IInv'
  BY Typing, Connecting, Passing DEF IInv
<1> QED
  BY Initially, <1>1, PTL DEF Spec

-----------------------------------------------------------------------------

\* The types of a connection's state, for any set of subscriptions.
THEOREM TypeCorrect == Spec => []TypeOK
<1>1. IInv => TypeOK
  BY DEF IInv
<1> QED
  BY <1>1, Invariance, PTL

\* passEventOrEOSEToChannel sends on a channel only while removeSubscriptionChannel
\* cannot close it.
THEOREM SendsOnOpenChannels == Spec => []NoSendOnClosedChannel
<1>1. IInv => NoSendOnClosedChannel
  BY DEF IInv
<1> QED
  BY <1>1, Invariance, PTL

\* updateSubs starts from nothing on each connection and agrees with what was
\* written to it from then on.
THEOREM ManagerKnowsWhatIsAsked == Spec => []ActiveIsAsked
<1>1. IInv => ActiveIsAsked
  BY DEF IInv
<1> QED
  BY <1>1, Invariance, PTL

\* run returns when everything it has started for its connection has ended.
THEOREM ConnectionsDoNotOverlap == Spec => []OneConnectionAtATime
<1>1. IInv => OneConnectionAtATime
  BY DEF IInv
<1> QED
  BY <1>1, Invariance, PTL

-----------------------------------------------------------------------------
(* The channels of the subscriptions *)

Channels == INSTANCE SubscriptionChannels

\* Connections that come and go, the lock that is released between any two steps,
\* and a context that is cancelled while a value is being passed change nothing for
\* those that range over the channels.
THEOREM ImplementsSubscriptionChannels == Spec => Channels!Spec
<1>1. Init => Channels!Init
  BY DEF Init, Channels!Init
<1>2. IInv /\ [Next]_vars => [Channels!Next]_(Channels!vars)
  <2> SUFFICES ASSUME IInv, TypeOK, [Next]_vars
               PROVE  Channels!Next \/ UNCHANGED Channels!vars
    BY DEF IInv
  <2> USE DEF clients
  <2>1. CASE UNCHANGED clients
    BY <2>1 DEF Channels!vars
  <2>2. CASE RelayNext \/ ManagerNext \/ MonitorNext \/ UNCHANGED vars
    BY <2>1, <2>2 DEF RelayNext, RelaySends, ConnectionBreaks, ManagerNext, LockSubscriptions,
       SendClose, SendReq, SendFails, UpdateDone, WaitForUpdate, StopManaging, MonitorNext, Decide,
       SetState, vars
  <2>3. CASE PassMessage
    <3>1. message.sub \in Subs /\ channel[message.sub] = "open"
      BY <2>3 DEF PassMessage, IInv, NoSendOnClosedChannel, Open
    <3>2. Channels!Send(message.sub)
      BY <2>3, <3>1 DEF PassMessage, Passed, Channels!Send
    <3> QED
      BY <3>1, <3>2 DEF Channels!Next
  <2>4. CASE RunNext /\ ~PassMessage
    BY <2>1, <2>4 DEF RunNext, Connect, DialFails, ReadMessage, ReadFails, StopOnBackPressure,
       HandleMessage, FindChannel, DropMessage, Passed, Disconnect
  <2>5. ASSUME NEW s \in Subs, GetEvents(s)
        PROVE  Channels!Next
    <3>1. Channels!Open(s)
      BY <2>5 DEF GetEvents, Channels!Open
    <3> QED
      BY <3>1 DEF Channels!Next
  <2>6. ASSUME NEW s \in Subs, CancelContext(s)
        PROVE  Channels!Next
    <3>1. Channels!Cancel(s)
      BY <2>6 DEF CancelContext, Channels!Cancel, Open
    <3> QED
      BY <3>1 DEF Channels!Next
  <2>7. ASSUME NEW s \in Subs, RemoveSubscriptionChannel(s)
        PROVE  Channels!Next
    <3>1. Channels!Close(s)
      BY <2>7 DEF RemoveSubscriptionChannel, Channels!Close, Open
    <3> QED
      BY <3>1 DEF Channels!Next
  <2>8. ASSUME NEW s \in Subs, ConsumeMessage(s)
        PROVE  Channels!Next
    <3>1. Channels!Consume(s)
      BY <2>8 DEF ConsumeMessage, Channels!Consume
    <3> QED
      BY <3>1 DEF Channels!Next
  <2> QED
    BY <2>2, <2>3, <2>4, <2>5, <2>6, <2>7, <2>8 DEF Next, ClientNext
<1> QED
  BY <1>1, <1>2, Invariance, PTL DEF Spec, Channels!Spec

-----------------------------------------------------------------------------
(* Wakeups that are lost *)

\* An update ends with the relay asked for what is in the map, no more and no less
\* (the safety half of UpdateRequestsEverything).
THEOREM UpdatesAreComplete == Spec => [][UpdateDone /\ up => asked' = Open' /\ Open' = Open]_vars
<1>1. IInv /\ [Next]_vars => [UpdateDone /\ up => asked' = Open' /\ Open' = Open]_vars
  <2> SUFFICES ASSUME IInv, UpdateDone, up PROVE asked' = Open' /\ Open' = Open
    OBVIOUS
  <2>1. active = asked /\ active = Open
    BY DEF IInv, ActiveIsAsked, UpdateDone
  <2> QED
    BY <2>1 DEF UpdateDone, Open, clients, network
<1> QED
  BY <1>1, Invariance, PTL DEF Spec

\* History: the subscriptions that were registered or removed after the last update
\* and before the manager arrived at its select.
VARIABLE missed

MissedNext ==
  missed' = IF managerPc' = "locking" THEN {}
            ELSE IF managerPc = "updated" THEN missed \cup {s \in Subs : channel'[s] # channel[s]}
            ELSE missed

HistoryVars == <<vars, missed>>
HistorySpec == Init /\ missed = {} /\ [][Next /\ MissedNext]_HistoryVars

\* Outside an update the relay is asked for the subscriptions in the map but for
\* those.
OnlyMissedDiffer ==
  /\ managerPc \in {"locking", "updating"} => missed = {}
  /\ up /\ managerPc \in {"updated", "waiting"} =>
       \A s \in Subs \ missed : s \in Open <=> s \in asked

\* An update starts with nothing missed and ends with nothing to ask for, and a manager
\* at its select is woken by every change.
LEMMA OnlyMissedDifferKept ==
  ASSUME IInv, OnlyMissedDiffer, [Next /\ MissedNext]_HistoryVars
  PROVE  OnlyMissedDiffer'
<1> USE DEF OnlyMissedDiffer, Open, runner, manager, clients, network
<1>1. ASSUME UNCHANGED <<channel, asked, managerPc>>, MissedNext, up' => up
      PROVE  OnlyMissedDiffer'
  BY <1>1 DEF MissedNext
<1>2. ASSUME MissedNext, managerPc' = "locking"
      PROVE  OnlyMissedDiffer'
  BY <1>2 DEF MissedNext
<1>3. CASE UNCHANGED HistoryVars
  BY <1>3 DEF HistoryVars, vars
<1>4. CASE RelayNext /\ MissedNext
  <2>1. CASE ConnectionBreaks
    BY <1>4, <2>1 DEF ConnectionBreaks, Close, MissedNext
  <2> QED
    BY <1>1, <1>4, <2>1 DEF RelayNext, RelaySends
<1>5. CASE RunNext /\ MissedNext
  <2>1. CASE Connect
    BY <1>2, <1>5, <2>1 DEF Connect
  <2>2. CASE StopOnBackPressure
    BY <1>5, <2>2 DEF StopOnBackPressure, Close, MissedNext
  <2> QED
    BY <1>1, <1>5, <2>1, <2>2 DEF RunNext, DialFails, ReadMessage, ReadFails, HandleMessage,
       FindChannel, PassMessage, DropMessage, Passed, Disconnect
<1>6. CASE ManagerNext /\ MissedNext
  <2>1. ASSUME LockSubscriptions \/ \E s \in Subs : SendClose(s) \/ SendReq(s)
        PROVE  OnlyMissedDiffer'
    BY <1>6, <2>1 DEF LockSubscriptions, SendClose, SendReq, MissedNext
  <2>2. ASSUME SendFails \/ StopManaging
        PROVE  OnlyMissedDiffer'
    BY <1>6, <2>2 DEF SendFails, StopManaging, Close, MissedNext
  <2>3. CASE UpdateDone
    BY <1>6, <2>3 DEF UpdateDone, MissedNext, IInv, ActiveIsAsked
  <2>4. CASE WaitForUpdate
    BY <1>6, <2>4 DEF WaitForUpdate, MissedNext
  <2> QED
    BY <1>6, <2>1, <2>2, <2>3, <2>4 DEF ManagerNext
<1>7. CASE ClientNext /\ MissedNext
  <2>1. ASSUME NEW s \in Subs, GetEvents(s) \/ RemoveSubscriptionChannel(s)
        PROVE  OnlyMissedDiffer'
    <3>1. CASE managerPc = "waiting"
      BY <1>2, <1>7, <2>1, <3>1 DEF GetEvents, RemoveSubscriptionChannel, TriggerSubscriptionUpdate
    <3>2. CASE managerPc # "waiting"
      BY <1>7, <2>1, <3>2 DEF GetEvents, RemoveSubscriptionChannel, TriggerSubscriptionUpdate,
         MissedNext
    <3> QED
      BY <3>1, <3>2
  <2>2. ASSUME NEW s \in Subs, CancelContext(s) \/ ConsumeMessage(s)
        PROVE  OnlyMissedDiffer'
    BY <1>1, <1>7, <2>2 DEF CancelContext, ConsumeMessage
  <2> QED
    BY <1>7, <2>1, <2>2 DEF ClientNext
<1>8. CASE MonitorNext /\ MissedNext
  BY <1>1, <1>8 DEF MonitorNext, Decide, SetState
<1> QED
  BY <1>3, <1>4, <1>5, <1>6, <1>7, <1>8 DEF Next

\* A wakeup is lost in one way only: while a connection lives and its manager is not
\* in an update, the relay is asked for exactly what is in the map, except for what was
\* registered or removed between the manager's last update and its next arrival at the
\* select.  That is where FilterIsRun fails.
THEOREM OnlyTheGapLosesWakeups ==
  HistorySpec => /\ Spec
                 /\ [](up /\ managerPc \in {"updated", "waiting"} =>
                         \A s \in Subs \ missed : s \in Open <=> s \in asked)
<1>1. [Next /\ MissedNext]_HistoryVars => [Next]_vars
  BY DEF HistoryVars
<1>2. HistorySpec => Spec
  BY <1>1, PTL DEF HistorySpec, Spec
<1>3. Init /\ missed = {} => OnlyMissedDiffer
  BY DEF Init, OnlyMissedDiffer
<1>4. OnlyMissedDiffer => (up /\ managerPc \in {"updated", "waiting"} =>
                             \A s \in Subs \ missed : s \in Open <=> s \in asked)
  BY DEF OnlyMissedDiffer
<1> QED
  BY <1>2, <1>3, <1>4, OnlyMissedDifferKept, Invariance, PTL DEF HistorySpec
=============================================================================
