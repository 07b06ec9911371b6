----------------------------- MODULE SendEvents -----------------------------
(***************************************************************************)
(* RelayConnection.SendEvent: callers wait until the relay has answered    *)
(* with OK, or until their time is up, while the connection to the relay   *)
(* comes and goes.                                                         *)
(*                                                                         *)
(*  - a caller registers a request, removes it when it returns, and, if it *)
(*    is the first one for its event, offers the event on newEventsCh;     *)
(*  - the sender is sendEvents, one per connection: it writes the events   *)
(*    that have requests when it starts, and then those it is offered;     *)
(*  - the runner is the goroutine of Run.  It passes each OK to all        *)
(*    requests for the event, one after the other, under                   *)
(*    eventsToSendMutex.                                                   *)
(* Callers may ask for the same event, as the comment of SendEvent says;   *)
(* those of the service and of send-all-events-to-relay never do at the    *)
(* same time.                                                              *)
(*                                                                         *)
(* Subscriptions, which the same connection serves, are the subject of     *)
(* RelayConnection.                                                        *)
(***************************************************************************)
EXTENDS Naturals

CONSTANTS Callers,
          Events,
          None,           \* nobody, no event
          MaxUnanswered   \* copies of an event the relay can be told to have

ASSUME ConstantsAssumption == /\ None \notin Callers
                              /\ None \notin Events
                              /\ MaxUnanswered \in Nat \ {0}

VARIABLES
  \* SendEvent
  callPc,      \* per caller: "idle", "offering", "waiting" or "leaving"
  callEvent,   \* the event it sends
  expired,     \* callers whose context is done
  outcome,     \* what it is going to return, if it is leaving
  \* eventsToSend
  requests,    \* per event the callers that have a request
  mutex,       \* "runner" while it passes a response, else "free"
  \* the sender
  senderPc,    \* "off", "copying" or "sending"
  toWrite,     \* events it is about to write
  \* the runner
  runPc,       \* "dialing", "reading", "received", "passing" or "stopping"
  response,    \* the OK it is handling
  unserved,    \* callers it still has to pass it to
  serving,     \* the caller it is passing it to
  \* the relay
  up,
  unanswered,  \* per event how often the relay has to answer
  \* history
  accepted,    \* events that got an OK that says so
  written,     \* per event how often it was written on this connection
  abandoned    \* events whose first caller gave up before anybody took them

calls   == <<callPc, callEvent, expired, outcome>>
sender  == <<senderPc, toWrite>>
runner  == <<runPc, response, unserved, serving>>
relay   == <<up, unanswered>>
history == <<accepted, written, abandoned>>
vars    == <<calls, requests, mutex, sender, runner, relay, history>>

Response == [event : Events, ok : BOOLEAN]
NoResponse == [event |-> None, ok |-> FALSE]

Init ==
  /\ callPc = [c \in Callers |-> "idle"] /\ callEvent = [c \in Callers |-> None]
  /\ expired = {} /\ outcome = [c \in Callers |-> "none"]
  /\ requests = [e \in Events |-> {}] /\ mutex = "free"
  /\ senderPc = "off" /\ toWrite = {}
  /\ runPc = "dialing" /\ response = NoResponse /\ unserved = {} /\ serving = None
  /\ up = FALSE /\ unanswered = [e \in Events |-> 0]
  /\ accepted = {} /\ written = [e \in Events |-> 0] /\ abandoned = {}

-----------------------------------------------------------------------------
(* SendEvent *)

\* Every caller offers the event.
FaultyScheduleSendingEvent(c, e) ==
  /\ callPc[c] = "idle"
  /\ mutex = "free"
  /\ requests' = [requests EXCEPT ![e] = @ \cup {c}]
  /\ callPc' = [callPc EXCEPT ![c] = "offering"]
  /\ callEvent' = [callEvent EXCEPT ![c] = e]
  /\ UNCHANGED <<expired, outcome, mutex, sender, runner, relay, history>>

\* The first request for an event makes its entry, and its caller offers it.
ScheduleSendingEvent(c, e) ==
  /\ callPc[c] = "idle"
  /\ mutex = "free"
  /\ requests' = [requests EXCEPT ![e] = @ \cup {c}]
  /\ callPc' = [callPc EXCEPT ![c] = IF requests[e] = {} THEN "offering" ELSE "waiting"]
  /\ callEvent' = [callEvent EXCEPT ![c] = e]
  /\ UNCHANGED <<expired, outcome, mutex, sender, runner, relay, history>>

\* After sendEventTimeout, or because the caller's own context is cancelled.
Expire(c) ==
  /\ callPc[c] # "idle"
  /\ expired' = expired \cup {c}
  /\ UNCHANGED <<callPc, callEvent, outcome, requests, mutex, sender, runner, relay, history>>

\* The error of the context is not returned.
FaultyGiveUp(c) ==
  /\ callPc[c] \in {"offering", "waiting"}
  /\ c \in expired
  /\ callPc' = [callPc EXCEPT ![c] = "leaving"]
  /\ outcome' = [outcome EXCEPT ![c] = "ok"]
  /\ abandoned' = IF callPc[c] = "offering" THEN abandoned \cup {callEvent[c]} ELSE abandoned
  /\ UNCHANGED <<callEvent, expired, requests, mutex, sender, runner, relay, accepted, written>>

GiveUp(c) ==
  /\ callPc[c] \in {"offering", "waiting"}
  /\ c \in expired
  /\ callPc' = [callPc EXCEPT ![c] = "leaving"]
  /\ outcome' = [outcome EXCEPT ![c] = "timeout"]
  /\ abandoned' = IF callPc[c] = "offering" THEN abandoned \cup {callEvent[c]} ELSE abandoned
  /\ UNCHANGED <<callEvent, expired, requests, mutex, sender, runner, relay, accepted, written>>

Return(c) ==
  /\ callPc' = [callPc EXCEPT ![c] = "idle"]
  /\ callEvent' = [callEvent EXCEPT ![c] = None]
  /\ expired' = expired \ {c}
  /\ outcome' = [outcome EXCEPT ![c] = "none"]

\* What is known of the entry of an event goes with the entry.
ForgetEntry(e) ==
  /\ written' = IF requests'[e] = {} THEN [written EXCEPT ![e] = 0] ELSE written
  /\ abandoned' = IF requests'[e] = {} THEN abandoned \ {e} ELSE abandoned
  /\ UNCHANGED accepted

\* The entry is deleted together with the requests of other callers.
FaultyRemoveEventChannel(c) ==
  /\ callPc[c] = "leaving"
  /\ mutex = "free"
  /\ requests' = [requests EXCEPT ![callEvent[c]] = {}]
  /\ ForgetEntry(callEvent[c])
  /\ Return(c)
  /\ UNCHANGED <<mutex, sender, runner, relay>>

\* The context is cancelled after the request was removed, not before.
RemoveEventChannel(c) ==
  /\ callPc[c] = "leaving"
  /\ mutex = "free"
  /\ requests' = [requests EXCEPT ![callEvent[c]] = @ \ {c}]
  /\ ForgetEntry(callEvent[c])
  /\ Return(c)
  /\ UNCHANGED <<mutex, sender, runner, relay>>

-----------------------------------------------------------------------------
(* sendEvents *)

Pending == {e \in Events : requests[e] # {}}

\* Only what is offered is sent.
FaultyCopyAllPastEvents ==
  /\ senderPc = "copying"
  /\ mutex = "free"
  /\ senderPc' = "sending" /\ toWrite' = {}
  /\ UNCHANGED <<calls, requests, mutex, runner, relay, history>>

CopyAllPastEvents ==
  /\ senderPc = "copying"
  /\ mutex = "free"
  /\ senderPc' = "sending" /\ toWrite' = Pending
  /\ UNCHANGED <<calls, requests, mutex, runner, relay, history>>

\* The relay may have to answer more often than that, but not to more effect.
WriteEvent(e) ==
  /\ senderPc = "sending"
  /\ e \in toWrite
  /\ up
  /\ toWrite' = toWrite \ {e}
  /\ unanswered' = [unanswered EXCEPT ![e] = IF @ < MaxUnanswered THEN @ + 1 ELSE @]
  /\ written' = IF e \in Pending THEN [written EXCEPT ![e] = @ + 1] ELSE written
  /\ UNCHANGED <<calls, requests, mutex, senderPc, runner, up, accepted, abandoned>>

\* sendEvents returns.  Nobody else notices if the connection can still be read.
WriteFails ==
  /\ senderPc = "sending"
  /\ toWrite # {}
  /\ senderPc' = "off" /\ toWrite' = {}
  /\ UNCHANGED <<calls, requests, mutex, runner, relay, history>>

\* The sender receives from newEventsCh what a caller offers.
TakeEvent(c) ==
  /\ senderPc = "sending"
  /\ toWrite = {}
  /\ callPc[c] = "offering"
  /\ callPc' = [callPc EXCEPT ![c] = "waiting"]
  /\ toWrite' = {callEvent[c]}
  /\ UNCHANGED <<callEvent, expired, outcome, requests, mutex, senderPc, runner, relay, history>>

\* The context of the connection is done.
StopSending ==
  /\ senderPc = "sending"
  /\ toWrite = {}
  /\ runPc = "stopping"
  /\ senderPc' = "off"
  /\ UNCHANGED <<calls, requests, mutex, toWrite, runner, relay, history>>

-----------------------------------------------------------------------------
(* Run, run and handleMessage *)

\* What was written on the connection before says nothing about this one.
Connect ==
  /\ runPc = "dialing"
  /\ runPc' = "reading" /\ senderPc' = "copying"
  /\ up' = TRUE
  /\ written' = [e \in Events |-> 0] /\ abandoned' = {}
  /\ UNCHANGED <<calls, requests, mutex, toWrite, response, unserved, serving, unanswered, accepted>>

\* The relay answers and its OK is read.
ReadOK(e, ok) ==
  /\ runPc = "reading"
  /\ up
  /\ unanswered[e] > 0
  /\ unanswered' = [unanswered EXCEPT ![e] = @ - 1]
  /\ response' = [event |-> e, ok |-> ok]
  /\ accepted' = IF ok THEN accepted \cup {e} ELSE accepted
  /\ runPc' = "received"
  /\ UNCHANGED <<calls, requests, mutex, sender, unserved, serving, up, written, abandoned>>

ReadFails ==
  /\ runPc = "reading"
  /\ ~up
  /\ runPc' = "stopping"
  /\ UNCHANGED <<calls, requests, mutex, sender, response, unserved, serving, relay, history>>

\* passSendEventResponseToChannel.  An event that nobody waits for has no entry.
StartPassing ==
  /\ runPc = "received"
  /\ mutex = "free"
  /\ mutex' = "runner" /\ runPc' = "passing"
  /\ unserved' = requests[response.event]
  /\ UNCHANGED <<calls, requests, sender, response, serving, relay, history>>

\* The next request of the loop.
ServeNext(c) ==
  /\ runPc = "passing" /\ serving = None
  /\ c \in unserved
  /\ serving' = c /\ unserved' = unserved \ {c}
  /\ UNCHANGED <<calls, requests, mutex, sender, runPc, response, relay, history>>

\* The caller is at its second select and receives.
PassResponse ==
  /\ runPc = "passing" /\ serving # None
  /\ callPc[serving] = "waiting"
  /\ callPc' = [callPc EXCEPT ![serving] = "leaving"]
  /\ outcome' = [outcome EXCEPT ![serving] = IF response.ok THEN "ok" ELSE "refused"]
  /\ serving' = None
  /\ UNCHANGED <<callEvent, expired, requests, mutex, sender, runPc, response, unserved, relay, history>>

\* The runner waits for the caller whatever happens to it.
FaultySkipCaller == FALSE /\ UNCHANGED vars

\* The context of the request is done.  Otherwise the runner waits for a caller
\* that does not receive: because it still offers the event, or because it has its
\* answer, and waits for the lock that the runner holds.
SkipCaller ==
  /\ runPc = "passing" /\ serving # None
  /\ serving \in expired
  /\ serving' = None
  /\ UNCHANGED <<calls, requests, mutex, sender, runPc, response, unserved, relay, history>>

DonePassing ==
  /\ runPc = "passing" /\ serving = None
  /\ unserved = {}
  /\ mutex' = "free" /\ runPc' = "reading" /\ response' = NoResponse
  /\ UNCHANGED <<calls, requests, sender, unserved, serving, relay, history>>

\* The sender is not waited for.
FaultyDisconnect ==
  /\ runPc = "stopping"
  /\ runPc' = "dialing"
  /\ UNCHANGED <<calls, requests, mutex, sender, response, unserved, serving, relay, history>>

Disconnect ==
  /\ runPc = "stopping"
  /\ senderPc = "off"
  /\ runPc' = "dialing"
  /\ UNCHANGED <<calls, requests, mutex, sender, response, unserved, serving, relay, history>>

ConnectionBreaks ==
  /\ up
  /\ up' = FALSE /\ unanswered' = [e \in Events |-> 0]
  /\ UNCHANGED <<calls, requests, mutex, sender, runner, history>>

-----------------------------------------------------------------------------

CallNext ==
  \E c \in Callers :
    \/ \E e \in Events : ScheduleSendingEvent(c, e)
    \/ Expire(c)
    \/ GiveUp(c)
    \/ RemoveEventChannel(c)

SendNext ==
  \/ CopyAllPastEvents
  \/ \E e \in Events : WriteEvent(e)
  \/ WriteFails
  \/ \E c \in Callers : TakeEvent(c)
  \/ StopSending

RunNext ==
  \/ Connect
  \/ \E e \in Events, ok \in BOOLEAN : ReadOK(e, ok)
  \/ ReadFails
  \/ StartPassing
  \/ \E c \in Callers : ServeNext(c)
  \/ PassResponse
  \/ SkipCaller
  \/ DonePassing
  \/ Disconnect

Next == CallNext \/ SendNext \/ RunNext \/ ConnectionBreaks

Spec == Init /\ [][Next]_vars

(* Fairness.  Timers fire, the goroutines go on, and sync.Mutex does not     *)
(* starve.  Nothing is assumed of the relay, of dialing or of the sender.    *)
Fairness ==
  /\ \A c \in Callers : /\ WF_vars(Expire(c)) /\ WF_vars(GiveUp(c))
                        /\ SF_vars(RemoveEventChannel(c))
  /\ WF_vars(\E c \in Callers : ServeNext(c))
  /\ WF_vars(PassResponse \/ SkipCaller)
  /\ WF_vars(DonePassing)

FairSpec == Spec /\ Fairness

-----------------------------------------------------------------------------
(* Properties *)

TypeOK ==
  /\ callPc \in [Callers -> {"idle", "offering", "waiting", "leaving"}]
  /\ callEvent \in [Callers -> Events \cup {None}]
  /\ \A c \in Callers : callPc[c] = "idle" <=> callEvent[c] = None
  /\ expired \subseteq Callers
  /\ outcome \in [Callers -> {"none", "ok", "refused", "timeout"}]
  /\ \A c \in Callers : callPc[c] = "leaving" <=> outcome[c] # "none"
  /\ requests \in [Events -> SUBSET Callers]
  /\ mutex \in {"free", "runner"} /\ mutex = "runner" <=> runPc = "passing"
  /\ senderPc \in {"off", "copying", "sending"}
  /\ toWrite \subseteq Events
  /\ runPc \in {"dialing", "reading", "received", "passing", "stopping"}
  /\ runPc = "dialing" => senderPc = "off"
  /\ response \in Response \cup {NoResponse}
  /\ response # NoResponse <=> runPc \in {"received", "passing"}
  /\ unserved \subseteq Callers /\ serving \in Callers \cup {None}
  /\ up \in BOOLEAN
  /\ unanswered \in [Events -> 0 .. MaxUnanswered]
  /\ accepted \subseteq Events /\ abandoned \subseteq Events
  /\ written \in [Events -> Nat]

\* The requests for an event are those of the callers that are in SendEvent with
\* it: nobody waits without one, and nobody who has left is passed a response.
RequestsAreCallers ==
  \A e \in Events : requests[e] = {c \in Callers : callEvent[c] = e}

\* "This approach prevents multiple requests for sending the same event from being
\* initiated" (relay_connection.go:162): of the callers with an event one at most
\* offers it.
OneOffer ==
  \A c, d \in Callers :
    callPc[c] = "offering" /\ callPc[d] = "offering" /\ callEvent[c] = callEvent[d] => c = d

\* The list the runner goes through is not changed behind its back.
ServedHaveRequests ==
  runPc = "passing" => unserved \cup ({serving} \ {None}) \subseteq requests[response.event]

\* Whoever is told that the event was sent can rely on the relay having said so,
\* on whichever connection, for whichever caller.
SuccessMeansAccepted ==
  \A c \in Callers :
    outcome[c] = "ok" => callEvent[c] \in accepted

\* While there is a sender, an event with requests has been written on the
\* connection, is about to be, or is offered; only if its first caller gave up do the
\* others have to wait for the next connection.
PendingIsSent ==
  senderPc = "sending" =>
    \A e \in Pending :
      \/ written[e] > 0
      \/ e \in toWrite
      \/ \E c \in requests[e] : callPc[c] = "offering"
      \/ e \in abandoned

\* An event may be written twice on a connection for the same requests, once
\* because it was there and once because it was offered, but never more often.
WrittenAtMostTwice == \A e \in Events : written[e] <= 2

\* Every call returns, whatever becomes of the connection, and although the runner
\* may hold the lock and wait for a caller that waits for the lock.
CallsReturn == \A c \in Callers : callPc[c] # "idle" ~> callPc[c] = "idle"
=============================================================================
