------------------------ MODULE SubscriptionChannels ------------------------
(***************************************************************************)
(* What GetEvents promises to those that range over the channels it        *)
(* returns, without connections, locks and wakeups: a channel is opened    *)
(* once and closed once, not before its context is cancelled, and nothing  *)
(* is sent on it before, after, or while the consumer has its hands full.  *)
(***************************************************************************)
CONSTANT Subs

VARIABLES channel,   \* per subscription "unused", "open" or "closed"
          cancelled, \* subscriptions whose context is cancelled
          busy       \* subscriptions whose consumer is handling a value

vars == <<channel, cancelled, busy>>

Init == channel = [s \in Subs |-> "unused"] /\ cancelled = {} /\ busy = {}

Open(s) ==
  /\ channel[s] = "unused"
  /\ channel' = [channel EXCEPT ![s] = "open"]
  /\ UNCHANGED <<cancelled, busy>>

Cancel(s) ==
  /\ channel[s] = "open"
  /\ cancelled' = cancelled \cup {s}
  /\ UNCHANGED <<channel, busy>>

Send(s) ==
  /\ channel[s] = "open" /\ s \notin busy
  /\ busy' = busy \cup {s}
  /\ UNCHANGED <<channel, cancelled>>

Consume(s) ==
  /\ s \in busy
  /\ busy' = busy \ {s}
  /\ UNCHANGED <<channel, cancelled>>

Close(s) ==
  /\ channel[s] = "open" /\ s \in cancelled
  /\ channel' = [channel EXCEPT ![s] = "closed"]
  /\ UNCHANGED <<cancelled, busy>>

Next == \E s \in Subs : Open(s) \/ Cancel(s) \/ Send(s) \/ Consume(s) \/ Close(s)

Spec == Init /\ [][Next]_vars
=============================================================================
