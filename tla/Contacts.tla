------------------------------ MODULE Contacts ------------------------------
(***************************************************************************)
(* What the service keeps of the events it saved: the relays they name and *)
(* the contact list of each author.                                        *)
(*                                                                         *)
(* ProcessSavedEventHandler.Handle loads the event a message names, stores *)
(* its relays and contacts in one transaction and marks it as processed;   *)
(* the cleanup deletes the rows that were processed long ago.  The table   *)
(* contacts_events refers to rows of "events" by their integer id.  That   *)
(* column is not AUTOINCREMENT and foreign keys are not enforced, so the   *)
(* row a contact list came from may be gone, or another event may have got *)
(* its id, when the next list of the author arrives.                       *)
(*                                                                         *)
(* The queue, the external publisher and the relay the event is sent to    *)
(* are the subject of module EventPipeline: here "pending" is the set of   *)
(* events with a message in the queue.  The table events_to_relays is      *)
(* written but never read, and is left out.                                *)
(*                                                                         *)
(* An event is a record; its id is a hash of it, so the record stands for  *)
(* the id as well.  Definitions named Faulty are mistakes the code could   *)
(* have made (see EventPipeline).                                          *)
(***************************************************************************)
EXTENDS Integers

CONSTANTS Keys,       \* public keys
          Addresses,  \* strings found where a relay address is expected
          Malformed,  \* a profile tag that is not a public key
          Events,     \* the events relays may have
          None,       \* no event
          MaxId       \* bound on the ids of rows of table "events"

\* "global" are the other kinds that are downloaded whoever their author is.
Kinds == {"contacts", "metadata", "global", "other"}

ASSUME ContactsAssumption ==
  /\ Malformed \notin Keys
  /\ Events \subseteq [author : Keys, kind : Kinds, createdAt : Nat,
                       profiles : SUBSET (Keys \cup {Malformed}),
                       relayTags : SUBSET Addresses,
                       content : SUBSET Addresses, signed : BOOLEAN]
  /\ None \notin Events
  /\ MaxId \in Nat \ {0}

VARIABLES
  row,            \* table "events": id -> event, None if there is no such row
  processed,      \* the events whose row has its processed_at set
  older,          \* pairs of them, the first processed before the second
  pending,        \* events that a message in the queue names
  handlerPc, handling,
  contactsEvent,  \* table "contacts_events": follower -> id, 0 if there is none
  followees,      \* table "contacts_followees"
  relays,         \* table "relays"
  current         \* history: the event whose contacts were set last

events   == <<row, processed, older, pending>>
handler  == <<handlerPc, handling>>
contacts == <<contactsEvent, followees, relays, current>>
contactsVars == <<events, handler, contacts>>

Ids == 1 .. MaxId

Stored == {row[i] : i \in Ids} \ {None}

ContactsInit ==
  /\ row = [i \in Ids |-> None] /\ processed = {} /\ older = {} /\ pending = {}
  /\ handlerPc = "idle" /\ handling = None
  /\ contactsEvent = [k \in Keys |-> 0]
  /\ followees = [k \in Keys |-> {}]
  /\ relays = {}
  /\ current = [k \in Keys |-> None]

-----------------------------------------------------------------------------
(* Extraction *)

\* RelaysExtractor.Extract: the "r" tags of metadata, and what the content of a
\* contact list names, be it a map or a list of lists; a content that is neither
\* names nothing.
ExtractRelays(e) ==
  CASE e.kind = "metadata" -> e.relayTags
    [] e.kind = "contacts" -> e.content
    [] OTHER               -> {}

\* ContactsExtractor.Extract; only a contact list has contacts.
ExtractContacts(e) == e.profiles \cap Keys

\* The list that arrives last replaces the one that is kept.
FaultyShouldReplaceContactsEvent(old, new) == TRUE

ShouldReplaceContactsEvent(old, new) == new.createdAt > old.createdAt

-----------------------------------------------------------------------------
(* EventRepository *)

\* The id sqlite gives to a new row is one more than the largest in use.
IsNextId(id) ==
  /\ id > 1 => row[id - 1] # None
  /\ \A i \in Ids : row[i] # None => i < id

\* The saver's transaction: the row and the message that names it.
SaveEvent(e) ==
  /\ e \notin Stored
  /\ \E id \in Ids : IsNextId(id) /\ row' = [row EXCEPT ![id] = e]
  /\ pending' = pending \cup {e}
  /\ UNCHANGED <<processed, older, handler, contacts>>

\* DeleteProcessedEventsBefore: the rows processed before some moment.
Cleanup(deleted) ==
  /\ deleted # {} /\ deleted \subseteq processed
  /\ \A pair \in older : pair[2] \in deleted => pair[1] \in deleted
  /\ row' = [i \in Ids |-> IF row[i] \in deleted THEN None ELSE row[i]]
  /\ processed' = processed \ deleted
  /\ older' = older \cap (processed' \X processed')
  /\ UNCHANGED <<pending, handler, contacts>>

-----------------------------------------------------------------------------
(* ContactRepository *)

\* GetCurrentContactsEvent, which joins contacts_events with events: None
\* stands for ErrNoContactsEvent.
CurrentContactsEvent(k) ==
  IF contactsEvent[k] = 0 THEN None ELSE row[contactsEvent[k]]

IdOf(e) == CHOOSE i \in Ids : row[i] = e

\* The followees of the previous list are not deleted.
FaultySetContacts(e) ==
  /\ \A k \in Keys \ {e.author} : contactsEvent[k] # IdOf(e)
  /\ contactsEvent' = [contactsEvent EXCEPT ![e.author] = IdOf(e)]
  /\ followees' = [followees EXCEPT ![e.author] = @ \cup ExtractContacts(e)]
  /\ current' = [current EXCEPT ![e.author] = e]

\* SetContacts: contacts_events.event_id is UNIQUE, so the statement fails when
\* another author's list is recorded under the id of the row.
SetContacts(e) ==
  /\ \A k \in Keys \ {e.author} : contactsEvent[k] # IdOf(e)
  /\ contactsEvent' = [contactsEvent EXCEPT ![e.author] = IdOf(e)]
  /\ followees' = [followees EXCEPT ![e.author] = ExtractContacts(e)]
  /\ current' = [current EXCEPT ![e.author] = e]

KeepContacts == UNCHANGED <<contactsEvent, followees, current>>

-----------------------------------------------------------------------------
(* ProcessSavedEventHandler.Handle *)

LoadEvent(e) ==
  /\ handlerPc = "idle"
  /\ e \in pending \cap Stored
  /\ handlerPc' = "loaded"
  /\ handling' = e
  /\ UNCHANGED <<events, contacts>>

HandlerMoves(from, next) == /\ handlerPc = from
                            /\ handlerPc' = next
                            /\ UNCHANGED handling

HandlerReturns == handlerPc' = "idle" /\ handling' = None

\* saveRelaysAndContacts for an event without contacts.  Relays are recorded
\* with the id of the row, which has to exist if there are any.
StoreRelays ==
  /\ HandlerMoves("loaded", "stored")
  /\ handling.kind # "contacts"
  /\ ExtractRelays(handling) = {} \/ handling \in Stored
  /\ relays' = relays \cup ExtractRelays(handling)
  /\ KeepContacts
  /\ UNCHANGED events

\* saveRelaysAndContacts for a contact list.  ShouldReplaceContactsEvent refuses
\* to compare it with an event of another kind, which then fails the transaction.
StoreRelaysAndContacts ==
  LET old == CurrentContactsEvent(handling.author) IN
  /\ HandlerMoves("loaded", "stored")
  /\ handling.kind = "contacts"
  /\ ExtractRelays(handling) = {} \/ handling \in Stored
  /\ relays' = relays \cup ExtractRelays(handling)
  /\ \/ /\ old = None
        /\ handling \in Stored
        /\ SetContacts(handling)
     \/ /\ old # None
        /\ old.kind = "contacts"
        /\ ShouldReplaceContactsEvent(old, handling)
        /\ handling \in Stored
        /\ SetContacts(handling)
     \/ /\ old # None
        /\ old.kind = "contacts"
        /\ ~ShouldReplaceContactsEvent(old, handling)
        /\ KeepContacts
  /\ UNCHANGED events

\* Any call fails, those that have to fail among them: the transaction has no
\* effect and the message stays.
HandlerFails ==
  /\ handlerPc # "idle"
  /\ HandlerReturns
  /\ UNCHANGED <<events, contacts>>

\* e is now the one processed last.
SetProcessedAt(e) ==
  /\ processed' = processed \cup {e}
  /\ older' = {pair \in older : pair[1] # e} \cup ((processed \ {e}) \X {e})

\* processed_at is set for an event whose row has been cleaned up meanwhile.
FaultyMarkAsProcessed(acked) ==
  /\ handlerPc = "stored"
  /\ HandlerReturns
  /\ SetProcessedAt(handling)
  /\ pending' = IF acked THEN pending \ {handling} ELSE pending
  /\ UNCHANGED <<row, contacts>>

\* processed_at is set, or set anew; the message is removed unless that fails.
\* An UPDATE of a row that is gone changes nothing.
MarkAsProcessed(acked) ==
  /\ handlerPc = "stored"
  /\ HandlerReturns
  /\ IF handling \in Stored THEN SetProcessedAt(handling)
                           ELSE UNCHANGED <<processed, older>>
  /\ pending' = IF acked THEN pending \ {handling} ELSE pending
  /\ UNCHANGED <<row, contacts>>

ProcessingStep ==
  \/ \E e \in Events : LoadEvent(e)
  \/ StoreRelays \/ StoreRelaysAndContacts \/ HandlerFails
  \/ \E acked \in BOOLEAN : MarkAsProcessed(acked)
  \/ \E deleted \in SUBSET Events : Cleanup(deleted)

-----------------------------------------------------------------------------
ContactsTypeOK ==
  /\ row \in [Ids -> Events \cup {None}]
  /\ \A i, j \in Ids : row[i] = row[j] /\ row[i] # None => i = j
  /\ processed \subseteq Stored /\ older \subseteq processed \X processed
  /\ pending \subseteq Events
  /\ handlerPc \in {"idle", "loaded", "stored"}
  /\ handling \in Events \cup {None}
  /\ handlerPc = "idle" <=> handling = None
  /\ contactsEvent \in [Keys -> 0 .. MaxId]
  /\ followees \in [Keys -> SUBSET Keys]
  /\ relays \subseteq Addresses
  /\ current \in [Keys -> Events \cup {None}]

\* The row that the contact list of k was taken from is still that event's.
Kept(k) == contactsEvent[k] # 0 /\ row[contactsEvent[k]] = current[k]

\* A list whose row is kept is never replaced by one that is not newer.
NewerWinsWhileKept ==
  [][\A k \in Keys : Kept(k) /\ current'[k] # current[k] =>
       current'[k].createdAt > current[k].createdAt]_contactsVars

=============================================================================
