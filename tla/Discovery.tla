----------------------------- MODULE Discovery -----------------------------
(***************************************************************************)
(* How the service decides what to download and what to keep of it.        *)
(*                                                                         *)
(*  - a client registers a public key over a websocket;                    *)
(*  - the task scheduler asks for the events of the registered keys and of *)
(*    the keys in their contact lists, and for those that mention a        *)
(*    registered key; it reads the keys through a cache of one minute;     *)
(*  - the downloader keeps a relay downloader for each bootstrap relay and *)
(*    for each usable relay found in events;                               *)
(*  - the saver keeps a received event only if, by the tables, it should   *)
(*    have been downloaded.                                                *)
(*                                                                         *)
(* The loop is closed: what is saved yields relays and contacts (module    *)
(* Contacts), which change what is asked for and kept.  The process may    *)
(* crash and start again; the tables survive.  A read that fails skips one *)
(* round and changes nothing, so it is not an action; no fairness is asked *)
(* of calls on which the properties do not depend.                         *)
(***************************************************************************)
EXTENDS Contacts

CONSTANTS Relays,         \* relay addresses, normalized
          AddressOf,      \* NewRelayAddress: the relay of an address, or None
          InvalidTags,    \* addresses that HasInvalidRTags objects to
          Bootstrap,      \* BootstrapRelaySource
          Local,          \* relays on a loopback or private address
          Skipped,        \* relays whose host ends as in relaySuffixesToSkip
          Registrations,  \* the events clients send
          NoKeys,         \* the cache of public keys is empty
          MaxCrashes      \* bound on the number of crashes

ASSUME DiscoveryAssumption ==
  /\ None \notin Relays
  /\ AddressOf \in [Addresses -> Relays \cup {None}]
  /\ InvalidTags \subseteq Addresses
  /\ Bootstrap \subseteq Relays /\ Local \subseteq Relays /\ Skipped \subseteq Relays
  /\ Registrations \subseteq [author : Keys, isRegistration : BOOLEAN,
                              relays : SUBSET Addresses]
  /\ None \notin Keys
  /\ NoKeys \notin [monitored : SUBSET Keys, followed : SUBSET Keys]
  /\ MaxCrashes \in Nat

VARIABLES
  monitored,      \* table "public_keys_to_monitor"
  client,         \* the key whose registration waits to be answered
  accepted,       \* history: keys whose registration was answered with success
  cache,          \* CachedDatabasePublicKeySource.keys
  downloaders,    \* Downloader.relayDownloaders
  crashes

registering == <<monitored, client, accepted>>
vars == <<contactsVars, registering, cache, downloaders, crashes>>

Init ==
  /\ ContactsInit
  /\ monitored = {} /\ accepted = {} /\ client = None
  /\ cache = NoKeys /\ downloaders = {} /\ crashes = 0

-----------------------------------------------------------------------------
(* Registration over the websocket: Server.handleConnection.  An event that is *)
(* not a registration, or a handler that fails, is answered with an error and   *)
(* changes nothing.                                                             *)

\* NewRelayAddress returns no error.
IsAddress(a) == AddressOf[a] # None

\* NewRegistrationFromEvent: the kind is right and every relay is an address.
IsRegistration(reg) == reg.isRegistration /\ \A a \in reg.relays : IsAddress(a)

\* PublicKeysToMonitorRepository.Save inserts the key or updates its row.
SaveKeyToMonitor(k) == monitored' = monitored \cup {k}

\* The client is told of success before the transaction has been carried out.
FaultyAddPublicKeyToMonitor(reg) ==
  /\ client = None
  /\ IsRegistration(reg)
  /\ client' = reg.author
  /\ UNCHANGED <<monitored, accepted, contactsVars, cache, downloaders,
                 crashes>>

AddPublicKeyToMonitor(reg) ==
  /\ client = None
  /\ IsRegistration(reg)
  /\ SaveKeyToMonitor(reg.author)
  /\ client' = reg.author
  /\ UNCHANGED <<accepted, contactsVars, cache, downloaders, crashes>>

\* The success is written to the client, unless the connection is lost.
AnswerRegistration(delivered) ==
  /\ client # None
  /\ accepted' = IF delivered THEN accepted \cup {client} ELSE accepted
  /\ client' = None
  /\ UNCHANGED <<monitored, contactsVars, cache, downloaders, crashes>>

-----------------------------------------------------------------------------
(* The keys and the relays to ask *)

\* ContactRepository.GetFollowees of each monitored key.
FolloweesOfMonitored == UNION {followees[k] : k \in monitored}

\* DatabasePublicKeySource.GetPublicKeys: one read-only transaction.
PublicKeys == [monitored |-> monitored, followed |-> FolloweesOfMonitored]

\* CachedDatabasePublicKeySource.GetPublicKeys
CachedPublicKeys(expired) ==
  IF cache = NoKeys \/ expired THEN PublicKeys ELSE cache

\* A round of TaskScheduler.Run, cachePublicKeysFor after the keys were read or
\* earlier.  Which tasks it makes depends on the windows (module TaskScheduler);
\* those it makes have the keys of the round in their filters.
SendOutTasks(expired) ==
  /\ cache' = CachedPublicKeys(expired)
  /\ UNCHANGED <<contactsVars, registering, downloaders, crashes>>

\* PublicKeys.All, the authors the tasks of the last round ask for.
AskedAuthors == IF cache = NoKeys THEN {} ELSE cache.monitored \cup cache.followed

\* The values of the "p" tag that the tasks of the last round may ask for:
\* NewFilter keeps one value per tag name, the last of a list made from a map.
AskedTags ==
  IF cache = NoKeys THEN {} ELSE {{k} : k \in cache.monitored}

\* DatabaseRelaySource.GetRelays
DatabaseRelays == {AddressOf[a] : a \in {b \in relays : IsAddress(b)}} \ Local

\* What Downloader.getRelays keeps of them.
UsableRelays == DatabaseRelays \ Skipped

\* Downloaders are made at the start only.
FaultyUpdateDownloaders ==
  /\ downloaders = {}
  /\ downloaders' = Bootstrap \cup UsableRelays
  /\ UNCHANGED <<contactsVars, registering, cache, crashes>>

\* Downloader.updateDownloaders: those that are not listed any more are stopped.
UpdateDownloaders ==
  /\ downloaders' = Bootstrap \cup UsableRelays
  /\ UNCHANGED <<contactsVars, registering, cache, crashes>>

-----------------------------------------------------------------------------
(* Received events: RelayDownloader and SaveReceivedEventHandler.Handle *)

HasInvalidProfileTags(e) == Malformed \in e.profiles
HasInvalidRTags(e) == e.relayTags \cap InvalidTags # {}

\* An event with such tags is not passed on.
IsInvalid(e) == HasInvalidProfileTags(e) \/ HasInvalidRTags(e)

\* ContactRepository.IsFolloweeOfMonitoredPublicKey
IsFolloweeOfMonitored(k) == \E m \in monitored : k \in followees[m]

\* PublicKeysToMonitorRepository.Get finds the key.
IsMonitored(k) == k \in monitored

\* shouldBeDownloaded: the global kinds, and the events of monitored keys and of
\* their followees.
ShouldBeDownloaded(e) ==
  \/ e.kind \in {"contacts", "metadata", "global"}
  \/ IsMonitored(e.author)
  \/ IsFolloweeOfMonitored(e.author)

\* NewEventFromUnverifiedEvent checks the signature.
IsVerified(e) == e.signed

\* A relay returns an event, asked for or not, and the saver stores it.
ReceiveEvent(e) ==
  /\ downloaders # {}
  /\ ~IsInvalid(e)
  /\ ShouldBeDownloaded(e)
  /\ IsVerified(e)
  /\ SaveEvent(e)
  /\ UNCHANGED <<registering, cache, downloaders, crashes>>

\* The process dies and starts again.
Crash ==
  /\ crashes < MaxCrashes
  /\ crashes' = crashes + 1
  /\ HandlerReturns
  /\ client' = None
  /\ cache' = NoKeys
  /\ downloaders' = {}
  /\ UNCHANGED <<events, contacts, monitored, accepted>>

Next ==
  \/ /\ ProcessingStep
     /\ UNCHANGED <<registering, cache, downloaders, crashes>>
  \/ \E reg \in Registrations : AddPublicKeyToMonitor(reg)
  \/ \E delivered \in BOOLEAN : AnswerRegistration(delivered)
  \/ \E expired \in BOOLEAN : SendOutTasks(expired)
  \/ UpdateDownloaders
  \/ \E e \in Events : ReceiveEvent(e)
  \/ Crash

Spec == Init /\ [][Next]_vars

\* The scheduler's loop goes round for ever, so one of its rounds comes a minute
\* after any read, and Downloader.Run goes round as well.
Fairness == WF_vars(SendOutTasks(TRUE)) /\ WF_vars(UpdateDownloaders)

FairSpec == Spec /\ Fairness

-----------------------------------------------------------------------------
TypeOK ==
  /\ ContactsTypeOK
  /\ monitored \subseteq Keys /\ accepted \subseteq Keys
  /\ client \in Keys \cup {None}
  /\ cache \in [monitored : SUBSET Keys, followed : SUBSET Keys] \cup {NoKeys}
  /\ downloaders \subseteq Relays
  /\ crashes \in 0 .. MaxCrashes

\* The events of a key whose owner was told that it is registered are asked for
\* in the end, whatever crashes and lost connections come before that.
RegisteredKeysAreAsked == \A k \in Keys : k \in accepted ~> k \in AskedAuthors

\* The keys that should be asked for, by the contact lists set last.
Wanted ==
  monitored \cup UNION {ExtractContacts(current[k]) :
                          k \in {m \in monitored : current[m] # None}}

\* Once registrations and contact lists settle, exactly the registered keys and
\* those they follow are asked for: a key that is no longer followed is dropped.
AskedKeysConverge ==
  \A wanted \in SUBSET Keys :
    <>[](Wanted = wanted) => <>[](AskedAuthors = wanted)

\* A relay that was found in an event and is usable gets a downloader in the end
\* and keeps it, unless the process restarts, which happens finitely often.
KnownRelaysAreDownloaded ==
  \A r \in Relays : r \in UsableRelays ~> [](r \in downloaders)

\* README.md: events "of any kind which include Nos users in their p tags" are
\* replicated.  What a task asks for by a tag is an event the saver keeps.
MentionsAreSaved ==
  \A e \in Events, tags \in AskedTags :
    e.profiles \cap tags # {} /\ ~IsInvalid(e) => ShouldBeDownloaded(e)

=============================================================================
