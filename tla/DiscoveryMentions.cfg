SPECIFICATION Spec
CONSTANTS
  k1 = k1
  k2 = k2
  r1 = r1
  r2 = r2
  good = good
  bad = bad
  None = None
  NoKeys = NoKeys
  Malformed = Malformed
  Keys = {k1, k2}
  Addresses = {good, bad}
  Relays = {r1, r2}
  Bootstrap = {r1}
  InvalidTags = {bad}
  Local = {}
  Skipped = {}
  Events <- MCEvents
  AddressOf <- MCAddressOf
  Registrations <- MCRegistrations
  MaxId = 2
  MaxCrashes = 1
INVARIANT
  MentionsAreSaved
