SPECIFICATION Spec
CONSTANTS
  order = order
  answer = answer
  junk = junk
  garbled = garbled
  orders = orders
  answers = answers
  requests = requests
  replies = replies
  t1 = t1
  t2 = t2
  NoRecord = NoRecord
  NoDest = NoDest
  Payloads = {order, answer, garbled}
  Undecodable = {garbled}
  Poison = order
  KafkaTopics = {orders, answers}
  Queues = {}
  Subscribed = {orders, answers}
  Partitions = {0, 1}
  KafkaRules <- OneRule
  JMSRules <- NoRules
  MaxBatch = 2
  Tests = {t1}
  Waiters = {t1}
  Injections <- InjectOrder
  Expectations <- ExpectAnswer
  Epoch = 2
  MaxTime = 4
  TTL = 2
  Wait = 2
  PollWait = 1
  Margin = 0
  MaxLosses = 0
  MaxExternal = 1
  Foreign = {order, answer, garbled}
  Pausable = {}
INVARIANTS MatchedSound NoTopicMessagePassedOver
PROPERTY ImplementsContract
CHECK_DEADLOCK FALSE
