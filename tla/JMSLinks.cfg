SPECIFICATION FairSpec
CONSTANTS
  p1 = p1
  p2 = p2
  listener = listener
  sender = sender
  other = other
  NoHandle = NoHandle
  Nobody = Nobody
  Providers = {p1, p2}
  Users = {listener, sender, other}
  ProviderOf <- TwoAndOne
  Calls <- PutOrGet
  First = p1
  Retries = 2
  MaxBreaks = 1
  MaxOutages = 1
INVARIANT PutsAreTrue
PROPERTY LiveLinksStay Recovers
CHECK_DEADLOCK FALSE
