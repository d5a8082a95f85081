SPECIFICATION FairSpec
CONSTANTS
  f1 = f1
  f2 = f2
  orders = orders
  replies = replies
  kind = kind
  trace = trace
  new = new
  old = old
  customer = customer
  broken = broken
  None = None
  Empty = Empty
  Word = Word
  NoRule = NoRule
  Absent = Absent
  Within <- McWithin
  Found <- McWithin
  Files = {f1, f2}
  Contents <- McContents
  Broken <- McBroken
  Topics = {orders, replies}
  TestTopics = {replies}
  Messages <- McMessages
  Scenarios <- McScenarios
CHECK_DEADLOCK FALSE
PROPERTY ListedTopicsAreHeard FilesTakeEffect
