---------------------------- MODULE SendPromise ----------------------------
(***************************************************************************)
(* What SendEvent promises to its callers, without connections, requests,  *)
(* locks and a sender: what a relay says of an event goes to everybody who *)
(* is waiting for that, and nobody else; only those whose time is up can   *)
(* miss it or are told that it is up; an answer that is given stays.       *)
(***************************************************************************)
CONSTANTS Callers, Events, None

VARIABLES sending, \* per caller the event it is sending, or None
          late,    \* callers whose time is up
          answer,  \* per caller what it is told, "none" as long as it is not
          heard    \* what the relay said and the callers are being told

vars == <<sending, late, answer, heard>>

Silence == [event |-> None, ok |-> FALSE]

Init ==
  /\ sending = [c \in Callers |-> None]
  /\ late = {}
  /\ answer = [c \in Callers |-> "none"]
  /\ heard = Silence

Send(c, e) ==
  /\ sending[c] = None
  /\ sending' = [sending EXCEPT ![c] = e]
  /\ UNCHANGED <<late, answer, heard>>

TimeIsUp(c) ==
  /\ sending[c] # None
  /\ late' = late \cup {c}
  /\ UNCHANGED <<sending, answer, heard>>

Hear(e, ok) ==
  /\ heard = Silence
  /\ heard' = [event |-> e, ok |-> ok]
  /\ UNCHANGED <<sending, late, answer>>

Tell(c) ==
  /\ sending[c] # None /\ answer[c] = "none"
  /\ heard.event = sending[c]
  /\ answer' = [answer EXCEPT ![c] = IF heard.ok THEN "ok" ELSE "refused"]
  /\ UNCHANGED <<sending, late, heard>>

\* Everybody has been told who could be.
Forget ==
  /\ heard # Silence
  /\ \A c \in Callers : sending[c] = heard.event => answer[c] # "none" \/ c \in late
  /\ heard' = Silence
  /\ UNCHANGED <<sending, late, answer>>

GiveUp(c) ==
  /\ c \in late /\ answer[c] = "none"
  /\ answer' = [answer EXCEPT ![c] = "timeout"]
  /\ UNCHANGED <<sending, late, heard>>

Return(c) ==
  /\ answer[c] # "none"
  /\ sending' = [sending EXCEPT ![c] = None]
  /\ late' = late \ {c}
  /\ answer' = [answer EXCEPT ![c] = "none"]
  /\ UNCHANGED heard

Next ==
  \/ \E c \in Callers : \/ \E e \in Events : Send(c, e)
                        \/ TimeIsUp(c) \/ Tell(c) \/ GiveUp(c) \/ Return(c)
  \/ \E e \in Events, ok \in BOOLEAN : Hear(e, ok)
  \/ Forget

Spec == Init /\ [][Next]_vars
=============================================================================
