-------------------------- MODULE SendEventsProofs --------------------------
(***************************************************************************)
(* What SendEvents guarantees for any number of callers and events.        *)
(***************************************************************************)
EXTENDS SendEvents, TLAPS

\* The runner has nobody to serve unless it is passing a response, and a response
\* that is good news was given by the relay.
ResponseIsHonest ==
  /\ runPc # "passing" => unserved = {} /\ serving = None
  /\ response.ok => response.event \in accepted

Offered(e) == \E c \in Callers : callPc[c] = "offering" /\ callEvent[c] = e

\* How often an event has been written leaves room for what is about to be written
\* and what is still offered.
WritesAreCounted ==
  /\ senderPc # "sending" => toWrite = {}
  /\ senderPc = "copying" => \A e \in Events : written[e] = 0
  /\ \A e \in Events \ Pending : written[e] = 0
  /\ senderPc = "sending" =>
       \A e \in Events : /\ e \in toWrite \/ Offered(e) => written[e] <= 1
                         /\ e \in toWrite /\ Offered(e) => written[e] = 0

IInv == /\ TypeOK
        /\ RequestsAreCallers
        /\ OneOffer
        /\ ServedHaveRequests
        /\ ResponseIsHonest
        /\ SuccessMeansAccepted
        /\ PendingIsSent
        /\ WritesAreCounted
        /\ WrittenAtMostTwice

-----------------------------------------------------------------------------

LEMMA Initially == Init => IInv
<1> SUFFICES ASSUME Init PROVE IInv
  OBVIOUS
<1> USE ConstantsAssumption DEF Init
<1>1. TypeOK
  <2>1. up \in BOOLEAN
    BY Zenon
  <2>2. response # NoResponse <=> runPc \in {"received", "passing"}
    OBVIOUS
  <2> QED
    BY <2>1, <2>2 DEF TypeOK
<1>2. RequestsAreCallers
  BY DEF RequestsAreCallers
<1> QED
  BY <1>1, <1>2 DEF IInv, OneOffer, ServedHaveRequests, ResponseIsHonest, SuccessMeansAccepted,
     PendingIsSent, WritesAreCounted, WrittenAtMostTwice, Pending, Offered, NoResponse

\* Whoever is in SendEvent is there with an event.
LEMMA CallHasEvent ==
  ASSUME TypeOK, NEW c \in Callers, callPc[c] # "idle"
  PROVE  callEvent[c] \in Events
BY DEF TypeOK

\* Every step keeps the types.
LEMMA Typing == IInv /\ [Next]_vars => TypeOK'
<1> SUFFICES ASSUME IInv, TypeOK, [Next]_vars PROVE TypeOK'
  BY DEF IInv
<1> USE ConstantsAssumption DEF TypeOK, calls, sender, runner, relay, history
<1>1. CASE CallNext
  <2>1. ASSUME NEW c \in Callers, NEW e \in Events, ScheduleSendingEvent(c, e) PROVE TypeOK'
    BY <2>1 DEF ScheduleSendingEvent
  <2>2. ASSUME NEW c \in Callers, Expire(c) \/ GiveUp(c) PROVE TypeOK'
    BY <2>2, CallHasEvent DEF Expire, GiveUp
  <2>3. ASSUME NEW c \in Callers, RemoveEventChannel(c) PROVE TypeOK'
    BY <2>3, CallHasEvent DEF RemoveEventChannel, Return, ForgetEntry
  <2> QED
    BY <1>1, <2>1, <2>2, <2>3 DEF CallNext
<1>2. CASE SendNext
  <2>1. ASSUME NEW c \in Callers, TakeEvent(c) PROVE TypeOK'
    BY <2>1, CallHasEvent DEF TakeEvent
  <2>2. ASSUME NEW e \in Events, WriteEvent(e) PROVE TypeOK'
    BY <2>2 DEF WriteEvent
  <2>3. ASSUME CopyAllPastEvents \/ WriteFails \/ StopSending PROVE TypeOK'
    BY <2>3 DEF CopyAllPastEvents, WriteFails, StopSending, Pending
  <2> QED
    BY <1>2, <2>1, <2>2, <2>3 DEF SendNext
<1>3. CASE RunNext
  <2>1. ASSUME NEW e \in Events, NEW ok \in BOOLEAN, ReadOK(e, ok) PROVE TypeOK'
    <3>1. [event |-> e, ok |-> ok] \in Response /\ [event |-> e, ok |-> ok] # NoResponse
      BY DEF Response, NoResponse
    <3> QED
      BY <2>1, <3>1 DEF ReadOK
  <2>2. CASE Connect
    BY <2>2 DEF Connect
  <2>3. CASE StartPassing
    BY <2>3 DEF StartPassing, Response, NoResponse
  <2>4. ASSUME NEW c \in Callers, ServeNext(c) PROVE TypeOK'
    BY <2>4 DEF ServeNext
  <2>5. CASE PassResponse
    BY <2>5 DEF PassResponse
  <2>6. ASSUME SkipCaller \/ DonePassing \/ ReadFails \/ Disconnect PROVE TypeOK'
    BY <2>6 DEF SkipCaller, DonePassing, ReadFails, Disconnect
  <2> QED
    BY <1>3, <2>1, <2>2, <2>3, <2>4, <2>5, <2>6 DEF RunNext
<1>4. CASE ConnectionBreaks
  <2>1. up' \in BOOLEAN
    BY <1>4, Zenon DEF ConnectionBreaks
  <2>2. unanswered' \in [Events -> 0 .. MaxUnanswered]
    BY <1>4 DEF ConnectionBreaks
  <2> QED
    BY <1>4, <2>1, <2>2 DEF ConnectionBreaks
<1>5. CASE UNCHANGED vars
  BY <1>5 DEF vars
<1> QED
  BY <1>1, <1>2, <1>3, <1>4, <1>5 DEF Next

\* A caller without an event has no request; the first caller with an event finds no
\* request for it, and so nobody who offers it.
LEMMA Requesting == IInv /\ [Next]_vars => RequestsAreCallers' /\ OneOffer'
<1> SUFFICES ASSUME IInv, TypeOK, [Next]_vars PROVE RequestsAreCallers' /\ OneOffer'
  BY DEF IInv
<1> USE ConstantsAssumption DEF IInv, RequestsAreCallers, OneOffer,
        calls, sender, runner, relay, history
<1>1. ASSUME NEW c \in Callers, NEW e \in Events, ScheduleSendingEvent(c, e)
      PROVE  RequestsAreCallers' /\ OneOffer'
  BY <1>1 DEF ScheduleSendingEvent, TypeOK
<1>2. ASSUME NEW c \in Callers, RemoveEventChannel(c)
      PROVE  RequestsAreCallers' /\ OneOffer'
  BY <1>2, CallHasEvent DEF RemoveEventChannel, Return, TypeOK
<1>3. ASSUME UNCHANGED <<requests, callEvent>>,
             \A c \in Callers : callPc'[c] = "offering" => callPc[c] = "offering"
      PROVE  RequestsAreCallers' /\ OneOffer'
  BY <1>3
<1>4. ASSUME NEW c \in Callers, Expire(c) \/ GiveUp(c)
      PROVE  RequestsAreCallers' /\ OneOffer'
  BY <1>3, <1>4 DEF Expire, GiveUp, TypeOK
<1>5. CASE SendNext
  BY <1>3, <1>5 DEF SendNext, CopyAllPastEvents, WriteEvent, WriteFails, TakeEvent, StopSending, TypeOK
<1>6. CASE RunNext
  <2>1. CASE PassResponse
    BY <1>3, <2>1 DEF PassResponse, TypeOK
  <2> QED
    BY <1>3, <1>6, <2>1 DEF RunNext, Connect, ReadOK, ReadFails, StartPassing, ServeNext, SkipCaller,
       DonePassing, Disconnect
<1>7. ASSUME ConnectionBreaks \/ UNCHANGED vars PROVE RequestsAreCallers' /\ OneOffer'
  BY <1>3, <1>7 DEF ConnectionBreaks, vars
<1> QED
  BY <1>1, <1>2, <1>4, <1>5, <1>6, <1>7 DEF Next, CallNext

\* Requests come and go only while the runner does not hold the lock.
LEMMA Serving == IInv /\ [Next]_vars => ServedHaveRequests'
<1> SUFFICES ASSUME IInv, TypeOK, [Next]_vars PROVE ServedHaveRequests'
  BY DEF IInv
<1> USE ConstantsAssumption DEF IInv, ServedHaveRequests, calls, sender, runner, relay, history
<1>1. ASSUME NEW c \in Callers,
             RemoveEventChannel(c) \/ \E e \in Events : ScheduleSendingEvent(c, e)
      PROVE  ServedHaveRequests'
  BY <1>1 DEF RemoveEventChannel, ScheduleSendingEvent, TypeOK
<1>2. ASSUME NEW c \in Callers, Expire(c) \/ GiveUp(c) PROVE ServedHaveRequests'
  BY <1>2 DEF Expire, GiveUp
<1>3. CASE SendNext
  BY <1>3 DEF SendNext, CopyAllPastEvents, WriteEvent, WriteFails, TakeEvent, StopSending
<1>4. CASE StartPassing
  BY <1>4 DEF StartPassing, ResponseIsHonest
<1>5. ASSUME NEW c \in Callers, ServeNext(c) PROVE ServedHaveRequests'
  BY <1>5 DEF ServeNext
<1>6. ASSUME PassResponse \/ SkipCaller PROVE ServedHaveRequests'
  BY <1>6 DEF PassResponse, SkipCaller
<1>7. ASSUME \/ Connect
             \/ \E e \in Events, ok \in BOOLEAN : ReadOK(e, ok)
             \/ ReadFails
             \/ DonePassing
             \/ Disconnect
      PROVE  ServedHaveRequests'
  BY <1>7 DEF Connect, ReadOK, ReadFails, DonePassing, Disconnect
<1>8. ASSUME ConnectionBreaks \/ UNCHANGED vars PROVE ServedHaveRequests'
  BY <1>8 DEF ConnectionBreaks, vars
<1> QED
  BY <1>1, <1>2, <1>3, <1>4, <1>5, <1>6, <1>7, <1>8 DEF Next, CallNext, RunNext

\* A caller is passed the response for its own event.
LEMMA Answering == IInv /\ [Next]_vars => ResponseIsHonest' /\ SuccessMeansAccepted'
<1> SUFFICES ASSUME IInv, TypeOK, [Next]_vars PROVE ResponseIsHonest' /\ SuccessMeansAccepted'
  BY DEF IInv
<1> USE ConstantsAssumption DEF IInv, ResponseIsHonest, SuccessMeansAccepted,
        calls, sender, runner, relay, history
<1>1. ASSUME NEW c \in Callers, NEW e \in Events, ScheduleSendingEvent(c, e)
      PROVE  ResponseIsHonest' /\ SuccessMeansAccepted'
  BY <1>1 DEF ScheduleSendingEvent, TypeOK
<1>2. ASSUME NEW c \in Callers, Expire(c) \/ GiveUp(c)
      PROVE  ResponseIsHonest' /\ SuccessMeansAccepted'
  BY <1>2 DEF Expire, GiveUp, TypeOK
<1>3. ASSUME NEW c \in Callers, RemoveEventChannel(c)
      PROVE  ResponseIsHonest' /\ SuccessMeansAccepted'
  BY <1>3 DEF RemoveEventChannel, Return, ForgetEntry, TypeOK
<1>4. CASE SendNext
  BY <1>4 DEF SendNext, CopyAllPastEvents, WriteEvent, WriteFails, TakeEvent, StopSending
<1>5. ASSUME NEW e \in Events, NEW ok \in BOOLEAN, ReadOK(e, ok)
      PROVE  ResponseIsHonest' /\ SuccessMeansAccepted'
  BY <1>5 DEF ReadOK
<1>6. CASE PassResponse
  <2>1. serving \in Callers /\ callEvent[serving] = response.event
    <3>1. serving \in requests[response.event] /\ response.event \in Events
      BY <1>6 DEF PassResponse, ServedHaveRequests, TypeOK, Response, NoResponse
    <3> QED
      BY <3>1 DEF RequestsAreCallers
  <2> QED
    BY <1>6, <2>1 DEF PassResponse, TypeOK
<1>7. ASSUME StartPassing \/ SkipCaller \/ DonePassing \/ \E c \in Callers : ServeNext(c)
      PROVE  ResponseIsHonest' /\ SuccessMeansAccepted'
  BY <1>7 DEF StartPassing, SkipCaller, DonePassing, ServeNext, NoResponse
<1>8. ASSUME Connect \/ ReadFails \/ Disconnect
      PROVE  ResponseIsHonest' /\ SuccessMeansAccepted'
  BY <1>8 DEF Connect, ReadFails, Disconnect
<1>9. ASSUME ConnectionBreaks \/ UNCHANGED vars
      PROVE  ResponseIsHonest' /\ SuccessMeansAccepted'
  BY <1>9 DEF ConnectionBreaks, vars
<1> QED
  BY <1>1, <1>2, <1>3, <1>4, <1>5, <1>6, <1>7, <1>8, <1>9 DEF Next, CallNext, RunNext

\* An event with requests has been written, or will be, or its first caller has given
\* up; and what is still to be written has room left.
LEMMA Sending ==
  IInv /\ [Next]_vars => PendingIsSent' /\ WritesAreCounted' /\ WrittenAtMostTwice'
<1> DEFINE Goal == PendingIsSent /\ WritesAreCounted /\ WrittenAtMostTwice
<1> SUFFICES ASSUME IInv, TypeOK, [Next]_vars PROVE Goal'
  BY DEF IInv
<1> USE ConstantsAssumption DEF IInv, PendingIsSent, WritesAreCounted, WrittenAtMostTwice,
        Pending, Offered, calls, sender, runner, relay, history
<1>1. ASSUME NEW c \in Callers, NEW e \in Events, ScheduleSendingEvent(c, e) PROVE Goal'
  BY <1>1 DEF ScheduleSendingEvent, RequestsAreCallers, TypeOK
<1>2. ASSUME NEW c \in Callers, GiveUp(c) PROVE Goal'
  <2>1. \A d \in Callers, e \in Events :
          d \in requests[e] /\ callPc[d] = "offering" =>
            callPc'[d] = "offering" \/ e \in abandoned'
    BY <1>2 DEF GiveUp, RequestsAreCallers, TypeOK
  <2>2. PendingIsSent'
    BY <1>2, <2>1 DEF GiveUp, TypeOK
  <2>3. WritesAreCounted' /\ WrittenAtMostTwice'
    BY <1>2 DEF GiveUp, TypeOK
  <2> QED
    BY <2>2, <2>3
<1>3. ASSUME NEW c \in Callers, RemoveEventChannel(c) PROVE Goal'
  BY <1>3 DEF RemoveEventChannel, Return, ForgetEntry, TypeOK
<1>4. ASSUME NEW e \in Events, WriteEvent(e) PROVE Goal'
  BY <1>4 DEF WriteEvent, TypeOK
<1>5. ASSUME NEW c \in Callers, TakeEvent(c) PROVE Goal'
  <2>1. \A d \in Callers, e \in Events :
          d \in requests[e] /\ callPc[d] = "offering" =>
            callPc'[d] = "offering" \/ e \in toWrite'
    BY <1>5 DEF TakeEvent, RequestsAreCallers, TypeOK
  <2>2. PendingIsSent'
    BY <1>5, <2>1 DEF TakeEvent, TypeOK
  <2>3. \A e \in toWrite' : Offered(e) /\ ~Offered(e)'
    BY <1>5 DEF TakeEvent, OneOffer, TypeOK
  <2>4. WritesAreCounted' /\ WrittenAtMostTwice'
    BY <1>5, <2>3 DEF TakeEvent, TypeOK
  <2> QED
    BY <2>2, <2>4
<1>6. CASE CopyAllPastEvents
  BY <1>6 DEF CopyAllPastEvents, TypeOK
<1>7. ASSUME WriteFails \/ StopSending PROVE Goal'
  BY <1>7 DEF WriteFails, StopSending
<1>8. CASE Connect
  BY <1>8 DEF Connect, TypeOK
<1>9. CASE PassResponse
  BY <1>9 DEF PassResponse, TypeOK
<1>10. ASSUME UNCHANGED <<callPc, callEvent, requests, sender, written, abandoned>> PROVE Goal'
  BY <1>10
<1>11. ASSUME NEW c \in Callers, Expire(c) \/ ServeNext(c) PROVE Goal'
  BY <1>10, <1>11 DEF Expire, ServeNext
<1>12. ASSUME \/ \E e \in Events, ok \in BOOLEAN : ReadOK(e, ok)
              \/ ReadFails \/ StartPassing \/ SkipCaller \/ DonePassing \/ Disconnect
       PROVE  Goal'
  BY <1>10, <1>12 DEF ReadOK, ReadFails, StartPassing, SkipCaller, DonePassing, Disconnect
<1>13. ASSUME ConnectionBreaks \/ UNCHANGED vars PROVE Goal'
  BY <1>10, <1>13 DEF ConnectionBreaks, vars
<1> HIDE DEF Goal
<1> QED
  BY <1>1, <1>2, <1>3, <1>4, <1>5, <1>6, <1>7, <1>8, <1>9, <1>11, <1>12, <1>13
     DEF Next, CallNext, SendNext, RunNext

LEMMA Invariance == Spec => []IInv
<1>1. IInv /\ [Next]_vars => IInv'
  BY Typing, Requesting, Serving, Answering, Sending DEF IInv
<1> QED
  BY Initially, <1>1, PTL DEF Spec

-----------------------------------------------------------------------------

\* The types of the state, for any callers and events; the runner alone keeps the lock,
\* and a sender has ended before the next connection is made.
THEOREM TypeCorrect == Spec => []TypeOK
<1>1. IInv => TypeOK
  BY DEF IInv
<1> QED
  BY <1>1, Invariance, PTL

\* scheduleSendingEvent and removeEventChannel keep the entry of an event in step with
\* its callers, whoever comes and goes first.
THEOREM NobodyIsForgotten == Spec => []RequestsAreCallers
<1>1. IInv => RequestsAreCallers
  BY DEF IInv
<1> QED
  BY <1>1, Invariance, PTL

\* Only the caller that has made the entry of an event offers it on newEventsCh.
THEOREM OneCallerOffers == Spec => []OneOffer
<1>1. IInv => OneOffer
  BY DEF IInv
<1> QED
  BY <1>1, Invariance, PTL

\* passSendEventResponseToChannel goes through requests nobody removes meanwhile.
THEOREM RequestsOutliveTheLoop == Spec => []ServedHaveRequests
<1>1. IInv => ServedHaveRequests
  BY DEF IInv
<1> QED
  BY <1>1, Invariance, PTL

\* SendEvent returns no error only if the relay accepted the event.
THEOREM SuccessIsTrue == Spec => []SuccessMeansAccepted
<1>1. IInv => SuccessMeansAccepted
  BY DEF IInv
<1> QED
  BY <1>1, Invariance, PTL

\* A connection with a sender misses no event but one whose first caller gave up.
THEOREM PendingEventsAreSent == Spec => []PendingIsSent
<1>1. IInv => PendingIsSent
  BY DEF IInv
<1> QED
  BY <1>1, Invariance, PTL

\* copyAllPastEvents and newEventsCh write an event once each on a connection.
THEOREM TwoWritesAtMost == Spec => []WrittenAtMostTwice
<1>1. IInv => WrittenAtMostTwice
  BY DEF IInv
<1> QED
  BY <1>1, Invariance, PTL

-----------------------------------------------------------------------------
(* What reaches a caller *)

\* While the runner passes a response, each caller with a request for the event is
\* still to be served, is being served, has an answer, or its time is up.
Served ==
  runPc = "passing" =>
    \A c \in requests[response.event] :
      c \in unserved \/ c = serving \/ callPc[c] = "leaving" \/ c \in expired

\* Callers come and go only while the runner does not hold the lock, and while it does
\* it drops a caller only with its answer or because its time is up.
LEMMA ServedKept == IInv /\ Served /\ [Next]_vars => Served'
<1> SUFFICES ASSUME IInv, TypeOK, Served, [Next]_vars PROVE Served'
  BY DEF IInv
<1> USE ConstantsAssumption DEF Served, calls, sender, runner, relay, history
<1>1. ASSUME NEW c \in Callers,
             RemoveEventChannel(c) \/ \E e \in Events : ScheduleSendingEvent(c, e)
      PROVE  Served'
  BY <1>1 DEF RemoveEventChannel, ScheduleSendingEvent, TypeOK
<1>2. ASSUME UNCHANGED <<requests, runner>>, expired \subseteq expired',
             \A c \in Callers : callPc[c] = "leaving" => callPc'[c] = "leaving"
      PROVE  Served'
  <2>1. runPc = "passing" => requests[response.event] \subseteq Callers
    BY DEF TypeOK, Response, NoResponse
  <2> QED
    BY <1>2, <2>1
<1>3. ASSUME NEW c \in Callers, Expire(c) \/ GiveUp(c) PROVE Served'
  BY <1>2, <1>3 DEF Expire, GiveUp, TypeOK
<1>4. CASE SendNext
  BY <1>2, <1>4 DEF SendNext, CopyAllPastEvents, WriteEvent, WriteFails, TakeEvent, StopSending,
     TypeOK
<1>5. CASE StartPassing
  BY <1>5 DEF StartPassing
<1>6. ASSUME NEW c \in Callers, ServeNext(c) PROVE Served'
  <2>1. runPc = "passing" => requests[response.event] \subseteq Callers
    BY DEF TypeOK, Response, NoResponse
  <2> QED
    BY <1>6, <2>1 DEF ServeNext
<1>7. CASE PassResponse
  BY <1>7 DEF PassResponse, TypeOK
<1>8. CASE SkipCaller
  BY <1>8 DEF SkipCaller
<1>9. ASSUME \/ Connect
             \/ \E e \in Events, ok \in BOOLEAN : ReadOK(e, ok)
             \/ ReadFails
             \/ DonePassing
             \/ Disconnect
      PROVE  Served'
  BY <1>9 DEF Connect, ReadOK, ReadFails, DonePassing, Disconnect
<1>10. ASSUME ConnectionBreaks \/ UNCHANGED vars PROVE Served'
  BY <1>10 DEF ConnectionBreaks, vars
<1> QED
  BY <1>1, <1>3, <1>4, <1>5, <1>6, <1>7, <1>8, <1>9, <1>10 DEF Next, CallNext, RunNext

LEMMA ServedInvariant == Spec => [](IInv /\ Served)
<1>1. Init => Served
  BY DEF Init, Served
<1>2. IInv /\ [Next]_vars => IInv'
  BY Typing, Requesting, Serving, Answering, Sending DEF IInv
<1> QED
  BY <1>1, <1>2, Initially, ServedKept, PTL DEF Spec

Promise == INSTANCE SendPromise
  WITH sending <- callEvent, late <- expired, answer <- outcome, heard <- response

\* The caller the runner is passing a response to sends the event of the response.
LEMMA ServingSends ==
  ASSUME TypeOK, RequestsAreCallers, ServedHaveRequests, runPc = "passing", serving # None
  PROVE  /\ serving \in Callers /\ response.event \in Events
         /\ callEvent[serving] = response.event
<1>1. response.event \in Events
  BY DEF TypeOK, Response, NoResponse
<1>2. serving \in requests[response.event]
  BY DEF ServedHaveRequests
<1> QED
  BY <1>1, <1>2 DEF RequestsAreCallers

\* The end of the loop over the requests: whoever sends the event has the answer, or
\* its time is up.
LEMMA DoneMeansTold ==
  ASSUME IInv, Served, DonePassing
  PROVE  \A c \in Callers : callEvent[c] = response.event => outcome[c] # "none" \/ c \in expired
<1>1. runPc = "passing" /\ serving = None /\ unserved = {} /\ response.event \in Events
  BY DEF DonePassing, IInv, TypeOK, Response, NoResponse
<1>2. ASSUME NEW c \in Callers, callEvent[c] = response.event
      PROVE  callPc[c] = "leaving" \/ c \in expired
  <2>1. c \in requests[response.event] /\ c # None
    BY <1>1, <1>2, ConstantsAssumption DEF IInv, RequestsAreCallers
  <2> QED
    BY <1>1, <2>1 DEF Served
<1> QED
  BY <1>2 DEF IInv, TypeOK

\* Callers that come, leave early or share an event, the lock, the sender, and
\* connections that break between any two steps change nothing of what SendEvent
\* promises: an answer is one the relay gave to that event, all who wait for it get
\* it unless their time is up, and it is not lost or replaced on the way out.
THEOREM ImplementsSendPromise == Spec => Promise!Spec
<1>1. Init => Promise!Init
  BY DEF Init, Promise!Init, NoResponse, Promise!Silence
<1>2. IInv /\ Served /\ [Next]_vars => [Promise!Next]_(Promise!vars)
  <2> SUFFICES ASSUME IInv, TypeOK, Served, [Next]_vars
               PROVE  Promise!Next \/ UNCHANGED Promise!vars
    BY DEF IInv
  <2> USE ConstantsAssumption DEF calls, sender, runner, relay, history
  <2>1. CASE UNCHANGED <<callEvent, expired, outcome, response>>
    BY <2>1 DEF Promise!vars
  <2>2. ASSUME NEW c \in Callers, NEW e \in Events, ScheduleSendingEvent(c, e)
        PROVE  Promise!Next
    <3>1. Promise!Send(c, e)
      BY <2>2 DEF ScheduleSendingEvent, Promise!Send, TypeOK
    <3> QED
      BY <3>1 DEF Promise!Next
  <2>3. ASSUME NEW c \in Callers, Expire(c)
        PROVE  Promise!Next
    <3>1. Promise!TimeIsUp(c)
      BY <2>3 DEF Expire, Promise!TimeIsUp, TypeOK
    <3> QED
      BY <3>1 DEF Promise!Next
  <2>4. ASSUME NEW c \in Callers, GiveUp(c)
        PROVE  Promise!Next
    <3>1. Promise!GiveUp(c)
      BY <2>4 DEF GiveUp, Promise!GiveUp, TypeOK
    <3> QED
      BY <3>1 DEF Promise!Next
  <2>5. ASSUME NEW c \in Callers, RemoveEventChannel(c)
        PROVE  Promise!Next
    <3>1. Promise!Return(c)
      BY <2>5 DEF RemoveEventChannel, Return, Promise!Return, TypeOK
    <3> QED
      BY <3>1 DEF Promise!Next
  <2>6. CASE SendNext
    BY <2>1, <2>6 DEF SendNext, CopyAllPastEvents, WriteEvent, WriteFails, TakeEvent, StopSending
  <2>7. ASSUME NEW e \in Events, NEW ok \in BOOLEAN, ReadOK(e, ok)
        PROVE  Promise!Next
    <3>1. Promise!Hear(e, ok)
      BY <2>7 DEF ReadOK, Promise!Hear, TypeOK, Promise!Silence, NoResponse
    <3> QED
      BY <3>1 DEF Promise!Next
  <2>8. CASE PassResponse
    <3>1. serving \in Callers /\ response.event \in Events /\ callEvent[serving] = response.event
      BY <2>8, ServingSends DEF PassResponse, IInv
    <3>2. Promise!Tell(serving)
      BY <2>8, <3>1 DEF PassResponse, Promise!Tell, TypeOK
    <3> QED
      BY <3>1, <3>2 DEF Promise!Next
  <2>9. CASE DonePassing
    <3>1. Promise!Forget
      BY <2>9, DoneMeansTold DEF DonePassing, Promise!Forget, Promise!Silence, NoResponse, TypeOK
    <3> QED
      BY <3>1 DEF Promise!Next
  <2>10. ASSUME \/ Connect \/ ReadFails \/ StartPassing \/ SkipCaller \/ Disconnect
                \/ \E c \in Callers : ServeNext(c)
         PROVE  Promise!Next \/ UNCHANGED Promise!vars
    BY <2>1, <2>10 DEF Connect, ReadFails, StartPassing, SkipCaller, Disconnect, ServeNext
  <2>11. ASSUME ConnectionBreaks \/ UNCHANGED vars
         PROVE  Promise!Next \/ UNCHANGED Promise!vars
    BY <2>1, <2>11 DEF ConnectionBreaks, vars
  <2> QED
    BY <2>2, <2>3, <2>4, <2>5, <2>6, <2>7, <2>8, <2>9, <2>10, <2>11 DEF Next, CallNext, RunNext
<1> QED
  BY <1>1, <1>2, ServedInvariant, PTL DEF Spec, Promise!Spec

\* When the runner goes back to reading, the response has reached every caller of
\* SendEvent with that event whose time is not up, the ones included that joined the
\* request of another.
THEOREM EveryCallerIsTold ==
  Spec => [][DonePassing => \A c \in Callers :
               callEvent[c] = response.event => outcome[c] # "none" \/ c \in expired]_vars
<1>1. IInv /\ Served /\ [Next]_vars =>
        [DonePassing => \A c \in Callers :
           callEvent[c] = response.event => outcome[c] # "none" \/ c \in expired]_vars
  BY DoneMeansTold
<1> QED
  BY <1>1, ServedInvariant, PTL DEF Spec
=============================================================================
