---------------------------- MODULE MCDiscovery ----------------------------
\* Two keys, of which a client registers one.  Its owner publishes two contact
\* lists, and the other key, which the first list has and the second has not, a
\* note that mentions the first.  The newer list names a usable relay.
EXTENDS Discovery

CONSTANTS k1, k2, r1, r2, good, bad

List(author, time, followed, addresses) ==
  [author |-> author, kind |-> "contacts", createdAt |-> time, profiles |-> followed,
   relayTags |-> {}, content |-> addresses, signed |-> TRUE]

Note == [author |-> k2, kind |-> "other", createdAt |-> 1, profiles |-> {k1},
         relayTags |-> {}, content |-> {}, signed |-> TRUE]

MCEvents == {List(k1, 1, {k2}, {}), List(k1, 2, {}, {good, bad}), Note}

MCAddressOf == [a \in {good, bad} |-> IF a = good THEN r2 ELSE None]

MCRegistrations ==
  {[author |-> k1, isRegistration |-> TRUE, relays |-> {}],
   [author |-> k2, isRegistration |-> TRUE, relays |-> {bad}]}

=============================================================================
