SPECIFICATION Spec
CONSTANTS
  order = order
  answer = answer
  junk = junk
  garbled = garbled
  orders = orders
  answers = answers
  requests = requests
  replies = replies
  t1 = t1
  t2 = t2
  NoRecord = NoRecord
  NoDest = NoDest
  Payloads = {order, answer, garbled}
  Undecodable = {garbled}
  Poison = order
  KafkaTopics = {orders, answers}
  Queues = {}
  Subscribed = {orders, answers}
  Partitions = {0, 1}
  KafkaRules <- OneRule
  JMSRules <- NoRules
  MaxBatch = 2
  Tests = {}
  Waiters = {}
  Injections <- InjectOrder
  Expectations <- ExpectAnswer
  Epoch = 2
  MaxTime = 5
  TTL = 2
  Wait = 2
  PollWait = 1
  Margin = 1
  MaxLosses = 1
  MaxExternal = 2
  Foreign = {order, answer, garbled}
  Pausable = {}
INVARIANTS ConsumedFlagSound NothingSkippedOnceCommitted InOrderWithoutLoss
PROPERTY NoEarlyEviction
CHECK_DEADLOCK FALSE
