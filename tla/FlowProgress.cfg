SPECIFICATION FairSpec
CONSTANTS
  order = order
  answer = answer
  junk = junk
  garbled = garbled
  orders = orders
  answers = answers
  requests = requests
  replies = replies
  t1 = t1
  t2 = t2
  NoRecord = NoRecord
  NoDest = NoDest
  Payloads = {order, answer, junk, garbled}
  Undecodable = {garbled}
  Poison = junk
  KafkaTopics = {orders, answers}
  Queues = {replies}
  Subscribed = {orders, answers}
  Partitions = {0}
  KafkaRules <- ManyRules
  JMSRules <- NoRules
  MaxBatch = 2
  Tests = {t1}
  Waiters = {t1}
  Injections <- InjectPoisoned
  Expectations <- ExpectBoth
  Epoch = 2
  MaxTime = 3
  TTL = 2
  Wait = 2
  PollWait = 1
  Margin = 1
  MaxLosses = 0
  MaxExternal = 1
  Foreign = {garbled}
  Pausable = {}
INVARIANT AtMostTwoAnswers
PROPERTIES TestsConclude RecordsReachCache
CHECK_DEADLOCK FALSE
