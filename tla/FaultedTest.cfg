SPECIFICATION Spec
CONSTANTS
  Tests = {"a"}
  Runs = {"a1"}
  TestOf <- OneTest
  Whens <- FaultWhens
  Thens <- FaultThens
  MaxRuns = 2
  OnLoop = {"a1"}
  Requests = {}
  Servers = {s1, s2}
  Kinds = {"x", "y"}
  HttpRules <- SomeRules
  Sends <- SomeSends
  Endpoints <- SomeEndpoints
  AnyServer = none
  s1 = s1
  s2 = s2
  none = none
INVARIANT SkippedCauseNoFailure
CHECK_DEADLOCK FALSE
