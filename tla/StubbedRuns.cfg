SPECIFICATION FairSpec
CONSTANTS
  Tests = {"a", "b"}
  Runs = {"a1", "a2", "b1"}
  TestOf <- TwoTests
  Whens <- TwoWhens
  Thens <- TwoThens
  MaxRuns = 2
  OnLoop = {"a1", "b1"}
  Requests = {1, 2}
  Servers = {s1, s2}
  Kinds = {"x", "y"}
  HttpRules <- SomeRules
  Sends <- SomeSends
  Endpoints <- SomeEndpoints
  AnyServer = none
  s1 = s1
  s2 = s2
  none = none
INVARIANT NothingLeftBehind MatchedWasCalled CallsCount OutputsOnce
PROPERTY EverythingEnds
CHECK_DEADLOCK FALSE
