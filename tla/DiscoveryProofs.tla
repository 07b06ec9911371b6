-------------------------- MODULE DiscoveryProofs --------------------------
(***************************************************************************)
(* What Discovery and Contacts guarantee for any keys, events, relays and  *)
(* registrations.                                                          *)
(***************************************************************************)
EXTENDS Discovery, TLAPS

\* What is recorded of a contact list is what was set last: the id of a row, and
\* the followees of the list.
CurrentIsRecorded ==
  \A k \in Keys :
    /\ contactsEvent[k] # 0 => current[k] # None
    /\ followees[k] = IF current[k] = None THEN {} ELSE ExtractContacts(current[k])

IInv == TypeOK /\ CurrentIsRecorded

DiscoveryTypeOK ==
  /\ monitored \subseteq Keys /\ accepted \subseteq Keys
  /\ client \in Keys \cup {None}
  /\ cache \in [monitored : SUBSET Keys, followed : SUBSET Keys] \cup {NoKeys}
  /\ downloaders \subseteq Relays
  /\ crashes \in 0 .. MaxCrashes

LEMMA TypesApart == TypeOK <=> ContactsTypeOK /\ DiscoveryTypeOK
BY DEF TypeOK, DiscoveryTypeOK

LEMMA Initially == Init => IInv
<1> SUFFICES ASSUME Init PROVE IInv
  OBVIOUS
<1>1. handlerPc = "idle" <=> handling = None
  BY DEF Init, ContactsInit
<1>2. ContactsTypeOK
  BY <1>1, ContactsAssumption DEF Init, ContactsInit, ContactsTypeOK, Stored, Ids
<1>3. DiscoveryTypeOK
  BY DiscoveryAssumption DEF Init, DiscoveryTypeOK
<1> QED
  BY <1>2, <1>3, TypesApart DEF Init, ContactsInit, IInv, CurrentIsRecorded

-----------------------------------------------------------------------------
(* Contacts *)

\* What is taken from an event.
LEMMA Extraction ==
  ASSUME NEW e \in Events
  PROVE  /\ e # None
         /\ e.author \in Keys /\ e.createdAt \in Nat
         /\ ExtractRelays(e) \subseteq Addresses
         /\ ExtractContacts(e) \subseteq Keys
BY ContactsAssumption DEF ExtractRelays, ExtractContacts

\* A stored event has a row.
LEMMA RowOf ==
  ASSUME NEW e \in Stored
  PROVE  IdOf(e) \in Ids /\ row[IdOf(e)] = e
<1>1. \E i \in Ids : row[i] = e
  BY DEF Stored
<1> QED
  BY <1>1 DEF IdOf

\* A new row is put where there was none, so all other events keep theirs.
LEMMA SaveKeeps ==
  ASSUME ContactsTypeOK, CurrentIsRecorded, NEW e \in Events, SaveEvent(e)
  PROVE  ContactsTypeOK' /\ CurrentIsRecorded'
<1> USE ContactsAssumption DEF ContactsTypeOK
<1>1. PICK id \in Ids : IsNextId(id) /\ row' = [row EXCEPT ![id] = e]
  BY DEF SaveEvent
<1>2. row[id] = None
  BY <1>1 DEF IsNextId, Ids
<1>3. \A i \in Ids : row[i] # e
  BY Extraction DEF SaveEvent, Stored
<1>4. Stored \subseteq Stored'
  BY <1>1, <1>2 DEF Stored
<1>5. /\ row' \in [Ids -> Events \cup {None}]
      /\ \A i, j \in Ids : row'[i] = row'[j] /\ row'[i] # None => i = j
  BY <1>1, <1>3
<1>6. UNCHANGED <<processed, older, handler, contacts>> /\ pending' \subseteq Events
  BY DEF SaveEvent
<1> QED
  BY <1>4, <1>5, <1>6 DEF handler, contacts, CurrentIsRecorded

\* The rows of events that are not deleted stay.
LEMMA CleanupKeeps ==
  ASSUME ContactsTypeOK, CurrentIsRecorded, NEW deleted \in SUBSET Events, Cleanup(deleted)
  PROVE  ContactsTypeOK' /\ CurrentIsRecorded'
<1> USE ContactsAssumption DEF ContactsTypeOK
<1>1. \A i \in Ids : row'[i] = IF row[i] \in deleted THEN None ELSE row[i]
  BY DEF Cleanup
<1>2. row' \in [Ids -> Events \cup {None}]
  BY DEF Cleanup
<1>3. \A i, j \in Ids : row'[i] = row'[j] /\ row'[i] # None => i = j
  BY <1>1
<1>4. processed' \subseteq Stored'
  BY <1>1 DEF Cleanup, Stored
<1>5. older' \subseteq processed' \X processed'
  BY DEF Cleanup
<1>6. UNCHANGED <<pending, handler, contacts>>
  BY DEF Cleanup
<1> QED
  BY <1>2, <1>3, <1>4, <1>5, <1>6 DEF handler, contacts, CurrentIsRecorded

\* A contact list is recorded as a whole.
LEMMA SetContactsKeeps ==
  ASSUME ContactsTypeOK, CurrentIsRecorded, NEW e \in Events \cap Stored, SetContacts(e)
  PROVE  /\ contactsEvent' \in [Keys -> 0 .. MaxId]
         /\ followees' \in [Keys -> SUBSET Keys]
         /\ current' \in [Keys -> Events \cup {None}]
         /\ CurrentIsRecorded'
<1>1. /\ e # None /\ e.author \in Keys
      /\ ExtractContacts(e) \subseteq Keys /\ IdOf(e) \in 0 .. MaxId
  BY Extraction, RowOf, ContactsAssumption DEF Ids
<1>2. /\ contactsEvent' = [contactsEvent EXCEPT ![e.author] = IdOf(e)]
      /\ followees' = [followees EXCEPT ![e.author] = ExtractContacts(e)]
      /\ current' = [current EXCEPT ![e.author] = e]
  BY DEF SetContacts
<1>3. /\ contactsEvent' \in [Keys -> 0 .. MaxId]
      /\ followees' \in [Keys -> SUBSET Keys]
      /\ current' \in [Keys -> Events \cup {None}]
  BY <1>1, <1>2 DEF ContactsTypeOK
<1>4. ASSUME NEW k \in Keys
      PROVE  /\ contactsEvent'[k] # 0 => current'[k] # None
             /\ followees'[k] = IF current'[k] = None THEN {}
                                ELSE ExtractContacts(current'[k])
  <2>1. CASE k = e.author
    BY <1>1, <1>2, <2>1 DEF ContactsTypeOK
  <2>2. CASE k # e.author
    BY <1>2, <2>2 DEF ContactsTypeOK, CurrentIsRecorded
  <2> QED
    BY <2>1, <2>2
<1> QED
  BY <1>3, <1>4 DEF CurrentIsRecorded

\* The handler stores what it extracts from the event it has loaded.
LEMMA StoreKeeps ==
  ASSUME ContactsTypeOK, CurrentIsRecorded, StoreRelays \/ StoreRelaysAndContacts
  PROVE  ContactsTypeOK' /\ CurrentIsRecorded'
<1>1. /\ handling \in Events /\ handling # None
      /\ relays' = relays \cup ExtractRelays(handling)
      /\ handlerPc' = "stored" /\ UNCHANGED handling /\ UNCHANGED events
  BY ContactsAssumption
  DEF StoreRelays, StoreRelaysAndContacts, HandlerMoves, ContactsTypeOK
<1>2. relays' \subseteq Addresses
  BY <1>1, Extraction DEF ContactsTypeOK
<1>3. \/ KeepContacts
      \/ handling \in Stored /\ SetContacts(handling)
  BY DEF StoreRelays, StoreRelaysAndContacts
<1>4. /\ contactsEvent' \in [Keys -> 0 .. MaxId]
      /\ followees' \in [Keys -> SUBSET Keys]
      /\ current' \in [Keys -> Events \cup {None}]
      /\ CurrentIsRecorded'
  <2>1. CASE KeepContacts
    BY <2>1 DEF KeepContacts, ContactsTypeOK, CurrentIsRecorded
  <2> QED
    BY <1>1, <1>3, <2>1, SetContactsKeeps
<1> QED
  BY <1>1, <1>2, <1>4 DEF ContactsTypeOK, events, Stored

\* The other steps of the handler.
LEMMA HandlerKeeps ==
  ASSUME ContactsTypeOK, CurrentIsRecorded,
         \/ \E e \in Events : LoadEvent(e)
         \/ HandlerFails
         \/ \E acked \in BOOLEAN : MarkAsProcessed(acked)
  PROVE  ContactsTypeOK' /\ CurrentIsRecorded'
<1> USE ContactsAssumption DEF ContactsTypeOK, CurrentIsRecorded, events, contacts
<1>1. ASSUME NEW e \in Events, LoadEvent(e)
      PROVE  ContactsTypeOK' /\ CurrentIsRecorded'
  BY <1>1 DEF LoadEvent, Stored
<1>2. CASE HandlerFails
  BY <1>2 DEF HandlerFails, HandlerReturns, Stored
<1>3. ASSUME NEW acked \in BOOLEAN, MarkAsProcessed(acked)
      PROVE  ContactsTypeOK' /\ CurrentIsRecorded'
  <2>1. processed' \subseteq Stored /\ older' \subseteq processed' \X processed'
    BY <1>3 DEF MarkAsProcessed, SetProcessedAt
  <2>2. pending' \subseteq Events
    BY <1>3 DEF MarkAsProcessed
  <2>3. UNCHANGED <<row, contacts>> /\ handlerPc' = "idle" /\ handling' = None
    BY <1>3 DEF MarkAsProcessed, HandlerReturns
  <2> QED
    BY <2>1, <2>2, <2>3 DEF Stored
<1> QED
  BY <1>1, <1>2, <1>3

LEMMA ProcessingKeeps ==
  ASSUME ContactsTypeOK, CurrentIsRecorded, ProcessingStep
  PROVE  ContactsTypeOK' /\ CurrentIsRecorded'
BY StoreKeeps, HandlerKeeps, CleanupKeeps DEF ProcessingStep

-----------------------------------------------------------------------------
(* Discovery *)

\* The keys and the relays of the tables are keys and relays.
LEMMA SourcesTyping ==
  ASSUME ContactsTypeOK, DiscoveryTypeOK
  PROVE  /\ PublicKeys \in [monitored : SUBSET Keys, followed : SUBSET Keys]
         /\ Bootstrap \cup UsableRelays \subseteq Relays
<1>1. FolloweesOfMonitored \subseteq Keys
  BY DEF FolloweesOfMonitored, ContactsTypeOK, DiscoveryTypeOK
<1>2. DatabaseRelays \subseteq Relays
  BY DiscoveryAssumption DEF DatabaseRelays, IsAddress, ContactsTypeOK
<1> QED
  BY <1>1, <1>2, DiscoveryAssumption DEF PublicKeys, DiscoveryTypeOK, UsableRelays

\* The steps that leave the tables of contacts and events alone.
LEMMA DiscoveryKeeps ==
  ASSUME ContactsTypeOK, DiscoveryTypeOK,
         \/ \E reg \in Registrations : AddPublicKeyToMonitor(reg)
         \/ \E delivered \in BOOLEAN : AnswerRegistration(delivered)
         \/ \E expired \in BOOLEAN : SendOutTasks(expired)
         \/ UpdateDownloaders
  PROVE  DiscoveryTypeOK' /\ UNCHANGED contactsVars
<1> USE DEF DiscoveryTypeOK, registering
<1>1. ASSUME NEW reg \in Registrations, AddPublicKeyToMonitor(reg)
      PROVE  DiscoveryTypeOK' /\ UNCHANGED contactsVars
  <2>1. reg.author \in Keys
    BY DiscoveryAssumption
  <2> QED
    BY <1>1, <2>1 DEF AddPublicKeyToMonitor, SaveKeyToMonitor
<1>2. ASSUME NEW delivered \in BOOLEAN, AnswerRegistration(delivered)
      PROVE  DiscoveryTypeOK' /\ UNCHANGED contactsVars
  BY <1>2 DEF AnswerRegistration
<1>3. ASSUME NEW expired \in BOOLEAN, SendOutTasks(expired)
      PROVE  DiscoveryTypeOK' /\ UNCHANGED contactsVars
  BY <1>3, SourcesTyping DEF SendOutTasks, CachedPublicKeys
<1>4. CASE UpdateDownloaders
  BY <1>4, SourcesTyping DEF UpdateDownloaders
<1> QED
  BY <1>1, <1>2, <1>3, <1>4

LEMMA CrashKeeps ==
  ASSUME ContactsTypeOK, DiscoveryTypeOK, CurrentIsRecorded, Crash
  PROVE  ContactsTypeOK' /\ DiscoveryTypeOK' /\ CurrentIsRecorded'
<1>1. UNCHANGED <<events, contacts>> /\ handlerPc' = "idle" /\ handling' = None
  BY DEF Crash, HandlerReturns
<1>2. ContactsTypeOK' /\ CurrentIsRecorded'
  BY <1>1 DEF ContactsTypeOK, CurrentIsRecorded, events, contacts, Stored
<1>3. DiscoveryTypeOK'
  BY DiscoveryAssumption DEF Crash, DiscoveryTypeOK
<1> QED
  BY <1>2, <1>3

LEMMA ContactsUnchanged ==
  ASSUME ContactsTypeOK, CurrentIsRecorded, UNCHANGED contactsVars
  PROVE  ContactsTypeOK' /\ CurrentIsRecorded'
BY DEF contactsVars, events, handler, contacts, ContactsTypeOK, CurrentIsRecorded, Stored

LEMMA Preserved == IInv /\ [Next]_vars => IInv'
<1> SUFFICES ASSUME ContactsTypeOK, DiscoveryTypeOK, CurrentIsRecorded, [Next]_vars
             PROVE  ContactsTypeOK' /\ DiscoveryTypeOK' /\ CurrentIsRecorded'
  BY TypesApart, PTL DEF IInv
<1>1. CASE ProcessingStep /\ UNCHANGED <<registering, cache, downloaders, crashes>>
  BY <1>1, ProcessingKeeps DEF DiscoveryTypeOK, registering
<1>2. CASE \/ \E reg \in Registrations : AddPublicKeyToMonitor(reg)
           \/ \E delivered \in BOOLEAN : AnswerRegistration(delivered)
           \/ \E expired \in BOOLEAN : SendOutTasks(expired)
           \/ UpdateDownloaders
  BY <1>2, DiscoveryKeeps, ContactsUnchanged
<1>3. ASSUME NEW e \in Events, ReceiveEvent(e)
      PROVE  ContactsTypeOK' /\ DiscoveryTypeOK' /\ CurrentIsRecorded'
  BY <1>3, SaveKeeps DEF ReceiveEvent, DiscoveryTypeOK, registering
<1>4. CASE Crash
  BY <1>4, CrashKeeps
<1>5. CASE UNCHANGED vars
  BY <1>5, ContactsUnchanged DEF vars, DiscoveryTypeOK, registering
<1> QED
  BY <1>1, <1>2, <1>3, <1>4, <1>5 DEF Next

LEMMA Invariant == Spec => []IInv
BY Initially, Preserved, PTL DEF Spec

\* All that changes what is recorded is the transaction of a contact list, and it
\* changes the list of its author only.
LEMMA SetByTheHandler ==
  ASSUME IInv, [Next]_vars, ~KeepContacts
  PROVE  /\ StoreRelaysAndContacts
         /\ handling \in Events /\ handling.kind = "contacts"
         /\ SetContacts(handling)
         /\ current' = [current EXCEPT ![handling.author] = handling]
<1>1. StoreRelaysAndContacts
  BY DEF Next, vars, contactsVars, contacts, ProcessingStep, LoadEvent, StoreRelays,
     KeepContacts, HandlerFails, MarkAsProcessed, Cleanup, AddPublicKeyToMonitor,
     AnswerRegistration, SendOutTasks, UpdateDownloaders, ReceiveEvent, SaveEvent, Crash
<1>2. handling \in Events
  BY <1>1 DEF StoreRelaysAndContacts, HandlerMoves, IInv, TypeOK, ContactsTypeOK
<1> QED
  BY <1>1, <1>2 DEF StoreRelaysAndContacts, SetContacts

\* The followees in the table are those of the lists.
LEMMA WantedByTheLists == IInv => monitored \cup FolloweesOfMonitored = Wanted
BY DEF IInv, TypeOK, CurrentIsRecorded, FolloweesOfMonitored, Wanted

-----------------------------------------------------------------------------

\* Type correctness: the table of events, the queue, the contact lists and the
\* lists made of them.
THEOREM TypeCorrect == Spec => []TypeOK
<1>1. IInv => TypeOK
  BY DEF IInv
<1> QED
  BY <1>1, Invariant, PTL

\* The followees the sources and the saver read are those of the contact lists
\* set last, whatever rows were deleted and ids given away since.
THEOREM FolloweesAreThoseOfTheLists ==
  Spec => [](monitored \cup FolloweesOfMonitored = Wanted)
BY WantedByTheLists, Invariant, PTL

\* Only the handler sets contacts, and as long as the row of the list that is kept
\* is there, only those of a newer list.
THEOREM NewerContactsWin == Spec => NewerWinsWhileKept
<1>1. IInv /\ [Next]_vars =>
        [\A k \in Keys : Kept(k) /\ current'[k] # current[k] =>
           current'[k].createdAt > current[k].createdAt]_contactsVars
  <2> SUFFICES ASSUME IInv, [Next]_vars, NEW k \in Keys, Kept(k),
                      current'[k] # current[k]
               PROVE  current'[k].createdAt > current[k].createdAt
    OBVIOUS
  <2>1. /\ handling \in Events /\ StoreRelaysAndContacts /\ SetContacts(handling)
    BY SetByTheHandler DEF KeepContacts
  <2>2. k = handling.author /\ current'[k] = handling
    BY <2>1, Extraction DEF SetContacts, IInv, TypeOK, ContactsTypeOK
  <2>3. CurrentContactsEvent(k) = current[k] /\ current[k] # None
    BY DEF Kept, CurrentContactsEvent, IInv, CurrentIsRecorded
  <2>4. ShouldReplaceContactsEvent(current[k], handling)
    <3>1. ~KeepContacts
      BY DEF KeepContacts
    <3> QED
      BY <2>1, <2>2, <2>3, <3>1 DEF StoreRelaysAndContacts
  <2> QED
    BY <2>2, <2>4 DEF ShouldReplaceContactsEvent
<1> QED
  BY <1>1, Invariant, PTL DEF Spec, NewerWinsWhileKept

-----------------------------------------------------------------------------
(* What is never undone *)

\* A key is registered before its owner is told so.
ToldKeysAreMonitored == accepted \subseteq monitored /\ client \in monitored \cup {None}

\* The message in the hands of the handler stays in the queue until it is acked,
\* and a row that is still to be processed has a message.
MessagesOfRows ==
  /\ handling \in pending \cup {None}
  /\ Stored \subseteq processed \cup pending

\* What is recorded for an author is a contact list of that author.
ListsOfAuthors ==
  \A k \in Keys : current[k] # None => current[k].author = k /\ current[k].kind = "contacts"

\* Nothing is downloaded from but the bootstrap relays and usable ones.
OnlyUsable == downloaders \subseteq Bootstrap \cup UsableRelays

\* A relay that was found stays usable.
LEMMA UsableStays ==
  ASSUME relays \subseteq relays'
  PROVE  UsableRelays \subseteq UsableRelays'
BY DEF UsableRelays, DatabaseRelays, IsAddress

\* Relays are only ever added to the table.
LEMMA RelaysGrow == [Next]_vars => relays \subseteq relays'
BY DEF Next, ProcessingStep, LoadEvent, StoreRelays, StoreRelaysAndContacts, HandlerFails,
   MarkAsProcessed, Cleanup, AddPublicKeyToMonitor, AnswerRegistration, SendOutTasks,
   UpdateDownloaders, ReceiveEvent, SaveEvent, Crash, vars, contactsVars, contacts

\* A save adds one row, with a message, and a cleanup takes away what it deletes.
LEMMA RowsOfSave ==
  ASSUME ContactsTypeOK, NEW e \in Events, SaveEvent(e)
  PROVE  Stored' = Stored \cup {e}
<1> USE ContactsAssumption DEF ContactsTypeOK
<1>1. PICK id \in Ids : IsNextId(id) /\ row' = [row EXCEPT ![id] = e]
  BY DEF SaveEvent
<1>2. row[id] = None
  BY <1>1 DEF IsNextId, Ids
<1>3. e # None
  OBVIOUS
<1> QED
  BY <1>1, <1>2, <1>3 DEF Stored

LEMMA RowsOfCleanup ==
  ASSUME ContactsTypeOK, NEW deleted \in SUBSET Events, Cleanup(deleted)
  PROVE  Stored' = Stored \ deleted
<1>1. \A i \in Ids : row'[i] = IF row[i] \in deleted THEN None ELSE row[i]
  BY DEF Cleanup
<1>2. None \notin deleted
  BY ContactsAssumption
<1> QED
  BY <1>1, <1>2 DEF Stored

\* The steps of the handler and the cleanup leave what is registered alone.
LEMMA MonitoredKeep ==
  ASSUME ToldKeysAreMonitored, [Next]_vars
  PROVE  ToldKeysAreMonitored'
<1> USE DEF ToldKeysAreMonitored, registering
<1>1. ASSUME NEW reg \in Registrations, AddPublicKeyToMonitor(reg)
      PROVE  ToldKeysAreMonitored'
  BY <1>1 DEF AddPublicKeyToMonitor, SaveKeyToMonitor
<1>2. ASSUME NEW delivered \in BOOLEAN, AnswerRegistration(delivered)
      PROVE  ToldKeysAreMonitored'
  BY <1>2 DEF AnswerRegistration
<1>3. CASE Crash
  BY <1>3 DEF Crash
<1>4. CASE UNCHANGED registering
  BY <1>4
<1> QED
  BY <1>1, <1>2, <1>3, <1>4 DEF Next, SendOutTasks, UpdateDownloaders, ReceiveEvent, vars

\* A message is taken away only by the ack that ends the handling of it.
LEMMA MessagesKeep ==
  ASSUME IInv, MessagesOfRows, [Next]_vars
  PROVE  MessagesOfRows'
<1> USE DEF MessagesOfRows, IInv, TypeOK
<1>1. ASSUME NEW e \in Events, SaveEvent(e) PROVE MessagesOfRows'
  BY <1>1, RowsOfSave DEF SaveEvent, handler
<1>2. ASSUME NEW deleted \in SUBSET Events, Cleanup(deleted) PROVE MessagesOfRows'
  BY <1>2, RowsOfCleanup DEF Cleanup, handler
<1>3. ASSUME NEW acked \in BOOLEAN, MarkAsProcessed(acked) PROVE MessagesOfRows'
  <2>1. Stored' = Stored /\ handling' = None
    BY <1>3 DEF MarkAsProcessed, HandlerReturns, Stored
  <2>2. handling \in Stored => processed' = processed \cup {handling}
    BY <1>3 DEF MarkAsProcessed, SetProcessedAt
  <2>3. handling \notin Stored => processed' = processed
    BY <1>3 DEF MarkAsProcessed
  <2>4. pending' \in {pending, pending \ {handling}}
    BY <1>3 DEF MarkAsProcessed
  <2> QED
    BY <2>1, <2>2, <2>3, <2>4
<1>4. ASSUME NEW e \in Events, LoadEvent(e) PROVE MessagesOfRows'
  BY <1>4 DEF LoadEvent, events, Stored
<1>5. CASE UNCHANGED events /\ handling' \in {handling, None}
  BY <1>5 DEF events, Stored
<1>6. CASE ProcessingStep
  BY <1>2, <1>3, <1>4, <1>5, <1>6 DEF ProcessingStep, StoreRelays, StoreRelaysAndContacts,
     HandlerMoves, HandlerFails, HandlerReturns
<1>7. CASE Crash
  BY <1>5, <1>7 DEF Crash, HandlerReturns
<1>8. CASE UNCHANGED contactsVars
  BY <1>5, <1>8 DEF contactsVars, handler
<1> QED
  BY <1>1, <1>6, <1>7, <1>8 DEF Next, AddPublicKeyToMonitor, AnswerRegistration, SendOutTasks,
     UpdateDownloaders, ReceiveEvent, vars

LEMMA ListsKeep ==
  ASSUME IInv, ListsOfAuthors, [Next]_vars
  PROVE  ListsOfAuthors'
<1>1. CASE KeepContacts
  BY <1>1 DEF KeepContacts, ListsOfAuthors
<1>2. CASE ~KeepContacts
  BY <1>2, SetByTheHandler DEF ListsOfAuthors, IInv, TypeOK, ContactsTypeOK
<1> QED
  BY <1>1, <1>2

LEMMA UsableKeep ==
  ASSUME OnlyUsable, [Next]_vars
  PROVE  OnlyUsable'
<1>1. UsableRelays \subseteq UsableRelays'
  BY RelaysGrow, UsableStays
<1>2. CASE UpdateDownloaders
  BY <1>1, <1>2 DEF UpdateDownloaders, OnlyUsable
<1>3. CASE Crash
  BY <1>3 DEF Crash, OnlyUsable
<1>4. CASE UNCHANGED downloaders
  BY <1>1, <1>4 DEF OnlyUsable
<1> QED
  BY <1>2, <1>3, <1>4 DEF Next, AddPublicKeyToMonitor, AnswerRegistration, SendOutTasks,
     ReceiveEvent, vars

Lasting == ToldKeysAreMonitored /\ MessagesOfRows /\ ListsOfAuthors /\ OnlyUsable

LEMMA LastingInvariant == Spec => [](IInv /\ Lasting)
<1>1. Init => Lasting
  BY DEF Init, ContactsInit, Lasting, ToldKeysAreMonitored, MessagesOfRows, ListsOfAuthors,
     OnlyUsable, Stored
<1>2. IInv /\ Lasting /\ [Next]_vars => Lasting'
  BY MonitoredKeep, MessagesKeep, ListsKeep, UsableKeep DEF Lasting
<1> QED
  BY <1>1, <1>2, Initially, Preserved, PTL DEF Spec

\* Every round that reads the keys asks for exactly what is wanted by then, and
\* for every key whose owner was told that it is registered, wherever the process or
\* the connection to the owner broke: the safety half of RegisteredKeysAreAsked and
\* of AskedKeysConverge.
THEOREM RoundsAskForTheWanted ==
  Spec => [][SendOutTasks(TRUE) => AskedAuthors' = Wanted /\ accepted \subseteq AskedAuthors']_vars
<1>1. IInv /\ Lasting =>
        [SendOutTasks(TRUE) => AskedAuthors' = Wanted /\ accepted \subseteq AskedAuthors']_vars
  <2> SUFFICES ASSUME IInv, Lasting, SendOutTasks(TRUE)
               PROVE  AskedAuthors' = Wanted /\ accepted \subseteq AskedAuthors'
    OBVIOUS
  <2>1. PublicKeys # NoKeys
    BY SourcesTyping, DiscoveryAssumption, TypesApart DEF IInv
  <2>2. cache' = PublicKeys
    BY DEF SendOutTasks, CachedPublicKeys
  <2>3. AskedAuthors' = monitored \cup FolloweesOfMonitored
    BY <2>1, <2>2 DEF AskedAuthors, PublicKeys
  <2> QED
    BY <2>3, WantedByTheLists DEF Lasting, ToldKeysAreMonitored
<1> QED
  BY <1>1, LastingInvariant, PTL

\* What the tables hold for a key is all of one contact list that its owner wrote,
\* never a mixture of two or a list of somebody else, although the ids of rows by which
\* contacts_events refers to lists are given away again.
THEOREM ListsAreTheAuthors ==
  Spec => [](\A k \in Keys : contactsEvent[k] # 0 \/ followees[k] # {} =>
               \E e \in Events : /\ e.author = k /\ e.kind = "contacts"
                                 /\ followees[k] = ExtractContacts(e))
<1>1. IInv /\ Lasting =>
        \A k \in Keys : contactsEvent[k] # 0 \/ followees[k] # {} =>
          \E e \in Events : /\ e.author = k /\ e.kind = "contacts"
                            /\ followees[k] = ExtractContacts(e)
  <2> SUFFICES ASSUME IInv, Lasting, NEW k \in Keys, contactsEvent[k] # 0 \/ followees[k] # {}
               PROVE  \E e \in Events : /\ e.author = k /\ e.kind = "contacts"
                                        /\ followees[k] = ExtractContacts(e)
    OBVIOUS
  <2>1. current[k] # None /\ followees[k] = ExtractContacts(current[k])
    BY DEF IInv, CurrentIsRecorded
  <2>2. current[k] \in Events
    BY <2>1 DEF IInv, TypeOK, ContactsTypeOK
  <2>3. current[k].author = k /\ current[k].kind = "contacts"
    BY <2>1 DEF Lasting, ListsOfAuthors
  <2> WITNESS current[k] \in Events
  <2> QED
    BY <2>1, <2>3
<1> QED
  BY <1>1, LastingInvariant, PTL

\* Relays on local addresses and those of the list to skip are not connected to
\* because of what an event names.
THEOREM DownloadsFromUsable ==
  Spec => [](downloaders \cap (Local \cup Skipped) \subseteq Bootstrap)
<1>1. Lasting => downloaders \cap (Local \cup Skipped) \subseteq Bootstrap
  BY DEF Lasting, OnlyUsable, UsableRelays, DatabaseRelays
<1> QED
  BY <1>1, LastingInvariant, PTL

\* updateDownloaders never stops a downloader, since it lists at least the relays it
\* listed before; only a restart does.  With the liveness of its rounds this is
\* KnownRelaysAreDownloaded.
THEOREM DownloadersKeepRunning ==
  Spec => [][downloaders \subseteq downloaders' \/ Crash]_vars
<1>1. Lasting /\ [Next]_vars => [downloaders \subseteq downloaders' \/ Crash]_vars
  <2> SUFFICES ASSUME Lasting, [Next]_vars, ~Crash PROVE downloaders \subseteq downloaders'
    OBVIOUS
  <2>1. UsableRelays \subseteq UsableRelays'
    BY RelaysGrow, UsableStays
  <2>2. CASE UpdateDownloaders
    BY <2>1, <2>2 DEF UpdateDownloaders, Lasting, OnlyUsable
  <2> QED
    BY <2>2 DEF Next, AddPublicKeyToMonitor, AnswerRegistration, SendOutTasks, ReceiveEvent, vars
<1> QED
  BY <1>1, LastingInvariant, PTL DEF Spec

-----------------------------------------------------------------------------
(* The life of rows and messages *)

Rows == INSTANCE SavedEvents WITH stored <- Stored, queued <- pending

\* Contacts and Discovery keep to the life of rows and messages that EventPipeline
\* keeps to as well, although here rows have ids that are given away again.
THEOREM ImplementsSavedEvents == Spec => Rows!Spec
<1>1. Init => Rows!Init
  BY DEF Init, ContactsInit, Rows!Init, Stored
<1>2. IInv /\ Lasting /\ [Next]_vars => [Rows!Next]_(Rows!vars)
  <2> SUFFICES ASSUME IInv, Lasting, [Next]_vars
               PROVE  Rows!Next \/ UNCHANGED Rows!vars
    OBVIOUS
  <2> USE DEF IInv, TypeOK
  <2>1. ASSUME NEW e \in Events, SaveEvent(e) PROVE Rows!Save(e)
    BY <2>1, RowsOfSave DEF SaveEvent, Rows!Save
  <2>2. ASSUME NEW deleted \in SUBSET Events, Cleanup(deleted) PROVE Rows!Delete(deleted)
    BY <2>2, RowsOfCleanup DEF Cleanup, Rows!Delete
  <2>3. ASSUME NEW acked \in BOOLEAN, MarkAsProcessed(acked) PROVE Rows!Process(handling)
    <3>1. handling \in Events /\ handling \in pending
      BY <2>3 DEF MarkAsProcessed, ContactsTypeOK, Lasting, MessagesOfRows
    <3>2. processed' = processed \cup ({handling} \cap Stored)
      BY <2>3 DEF MarkAsProcessed, SetProcessedAt
    <3>3. pending' \in {pending, pending \ {handling}}
      BY <2>3 DEF MarkAsProcessed
    <3>4. Stored' = Stored
      BY <2>3 DEF MarkAsProcessed, Stored
    <3> QED
      BY <3>1, <3>2, <3>3, <3>4 DEF Rows!Process
  <2>4. CASE UNCHANGED <<row, processed, pending>>
    BY <2>4 DEF Rows!vars, Stored
  <2>5. CASE ProcessingStep
    <3>1. ASSUME NEW acked \in BOOLEAN, MarkAsProcessed(acked) PROVE Rows!Next
      <4>1. handling \in Events
        BY <3>1 DEF MarkAsProcessed, ContactsTypeOK
      <4> QED
        BY <2>3, <3>1, <4>1 DEF Rows!Next
    <3> QED
      BY <2>2, <2>4, <2>5, <3>1 DEF ProcessingStep, LoadEvent, StoreRelays,
         StoreRelaysAndContacts, HandlerFails, events, Rows!Next
  <2>6. ASSUME NEW e \in Events, ReceiveEvent(e) PROVE Rows!Next
    BY <2>1, <2>6 DEF ReceiveEvent, Rows!Next
  <2> QED
    BY <2>4, <2>5, <2>6 DEF Next, AddPublicKeyToMonitor, AnswerRegistration, SendOutTasks,
       UpdateDownloaders, Crash, vars, contactsVars, events
<1> QED
  BY <1>1, <1>2, LastingInvariant, PTL DEF Spec, Rows!Spec

-----------------------------------------------------------------------------
(* What is known and asked for *)

Known == INSTANCE Knowledge
  WITH registered <- monitored, told <- accepted, list <- current, asked <- AskedAuthors,
       RelaysOf <- [e \in Events |-> ExtractRelays(e)],
       FollowsOf <- [e \in Events |-> ExtractContacts(e)]

\* What a round asks for that reads the keys.
LEMMA AskedByRound ==
  ASSUME IInv, NEW expired \in BOOLEAN, SendOutTasks(expired)
  PROVE  AskedAuthors' \in {AskedAuthors, monitored \cup Known!Followed}
<1>1. CASE cache' = cache
  BY <1>1 DEF AskedAuthors
<1>2. CASE cache' = PublicKeys
  <2>1. PublicKeys # NoKeys
    BY SourcesTyping, DiscoveryAssumption, TypesApart DEF IInv
  <2>2. AskedAuthors' = monitored \cup FolloweesOfMonitored
    BY <1>2, <2>1 DEF AskedAuthors, PublicKeys
  <2>3. FolloweesOfMonitored = Known!Followed
    <3>1. \A k \in monitored : current[k] # None =>
            /\ current[k] \in Events
            /\ followees[k] = [e \in Events |-> ExtractContacts(e)][current[k]]
      BY DEF IInv, TypeOK, ContactsTypeOK, CurrentIsRecorded
    <3>2. \A k \in monitored : current[k] = None => followees[k] = {}
      BY DEF IInv, TypeOK, CurrentIsRecorded
    <3>3. \A x : x \in FolloweesOfMonitored <=> \E k \in monitored : x \in followees[k]
      BY DEF FolloweesOfMonitored
    <3>4. \A x : x \in Known!Followed <=>
            \E k \in {m \in monitored : current[m] # None} :
              x \in [e \in Events |-> ExtractContacts(e)][current[k]]
      BY DEF Known!Followed
    <3>5. ASSUME NEW x \in FolloweesOfMonitored PROVE x \in Known!Followed
      <4>1. PICK k \in monitored : x \in followees[k]
        BY <3>3
      <4> QED
        BY <3>1, <3>2, <3>4, <4>1
    <3>6. ASSUME NEW x \in Known!Followed PROVE x \in FolloweesOfMonitored
      <4>1. PICK k \in {m \in monitored : current[m] # None} :
              x \in [e \in Events |-> ExtractContacts(e)][current[k]]
        BY <3>4
      <4> QED
        BY <3>1, <3>3, <4>1
    <3> QED
      BY <3>5, <3>6
  <2> QED
    BY <2>2, <2>3
<1> QED
  BY <1>1, <1>2 DEF SendOutTasks, CachedPublicKeys

\* Registrations, contact lists and relays are learned and asked for as Knowledge
\* says: rows that are deleted, ids that are given away again, failed calls, messages
\* that come again, the cache and crashes do not show.
THEOREM ImplementsKnowledge == Spec => Known!Spec
<1>1. Init => Known!Init
  BY DEF Init, ContactsInit, AskedAuthors, Known!Init
<1>2. IInv /\ Lasting /\ [Next]_vars => [Known!Next]_(Known!vars)
  <2> SUFFICES ASSUME IInv, Lasting, [Next]_vars
               PROVE  Known!Next \/ UNCHANGED Known!vars
    OBVIOUS
  <2> USE DEF registering, AskedAuthors
  <2>1. ASSUME NEW reg \in Registrations, AddPublicKeyToMonitor(reg) PROVE Known!Next
    <3>1. reg.author \in Keys
      BY DiscoveryAssumption
    <3>2. Known!Register(reg.author)
      BY <2>1 DEF AddPublicKeyToMonitor, SaveKeyToMonitor, contactsVars, contacts,
         Known!Register
    <3> QED
      BY <3>1, <3>2 DEF Known!Next
  <2>2. ASSUME NEW delivered \in BOOLEAN, AnswerRegistration(delivered)
        PROVE  Known!Next \/ UNCHANGED Known!vars
    <3>1. client \in monitored /\ client \in Keys
      BY <2>2 DEF AnswerRegistration, Lasting, ToldKeysAreMonitored, IInv, TypeOK
    <3>2. Known!Tell(client) \/ UNCHANGED Known!vars
      BY <2>2, <3>1 DEF AnswerRegistration, contactsVars, contacts, Known!Tell, Known!vars
    <3> QED
      BY <3>1, <3>2 DEF Known!Next
  <2>3. ASSUME NEW expired \in BOOLEAN, SendOutTasks(expired)
        PROVE  Known!Next \/ UNCHANGED Known!vars
    <3>1. UNCHANGED <<monitored, accepted, current, relays>>
      BY <2>3 DEF SendOutTasks, contactsVars, contacts
    <3>2. AskedAuthors' \in {AskedAuthors, monitored \cup Known!Followed}
      BY <2>3, AskedByRound
    <3> QED
      BY <3>1, <3>2 DEF Known!Ask, Known!Next, Known!vars
  <2>4. CASE Crash
    <3>1. Known!AskNothing
      BY <2>4 DEF Crash, contacts, Known!AskNothing
    <3> QED
      BY <3>1 DEF Known!Next
  <2>5. ASSUME StoreRelays \/ StoreRelaysAndContacts,
               UNCHANGED <<registering, cache, downloaders, crashes>>
        PROVE  Known!Next
    <3>1. handling \in Events /\ relays' = relays \cup ExtractRelays(handling)
      BY <2>5 DEF StoreRelays, StoreRelaysAndContacts, HandlerMoves, IInv, TypeOK, ContactsTypeOK
    <3>2. \/ UNCHANGED current
          \/ handling.kind = "contacts" /\ current' = [current EXCEPT ![handling.author] = handling]
      BY SetByTheHandler DEF KeepContacts
    <3>3. Known!Learn(handling)
      BY <2>5, <3>1, <3>2 DEF Known!Learn
    <3> QED
      BY <3>1, <3>3 DEF Known!Next
  <2>6. CASE UNCHANGED <<monitored, accepted, current, relays, cache>>
    BY <2>6 DEF Known!vars
  <2>7. CASE ProcessingStep /\ UNCHANGED <<registering, cache, downloaders, crashes>>
    BY <2>5, <2>6, <2>7 DEF ProcessingStep, LoadEvent, HandlerFails, MarkAsProcessed, Cleanup,
       contacts
  <2> QED
    BY <2>1, <2>2, <2>3, <2>4, <2>6, <2>7 DEF Next, UpdateDownloaders, ReceiveEvent, SaveEvent,
       vars, contactsVars, contacts
<1> QED
  BY <1>1, <1>2, LastingInvariant, PTL DEF Spec, Known!Spec

=============================================================================
