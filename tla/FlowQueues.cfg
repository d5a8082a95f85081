SPECIFICATION Spec
CONSTANTS
  order = order
  answer = answer
  junk = junk
  garbled = garbled
  orders = orders
  answers = answers
  requests = requests
  replies = replies
  t1 = t1
  t2 = t2
  NoRecord = NoRecord
  NoDest = NoDest
  Payloads = {order, answer, junk}
  Undecodable = {}
  Poison = junk
  KafkaTopics = {answers}
  Queues = {requests, replies}
  Subscribed = {answers}
  Partitions = {0}
  KafkaRules <- NoKafkaRules
  JMSRules <- RequestRules
  MaxBatch = 2
  Tests = {t1}
  Waiters = {t1}
  Injections <- InjectFaultyRequest
  Expectations <- ExpectReply
  Epoch = 2
  MaxTime = 3
  TTL = 2
  Wait = 2
  PollWait = 1
  Margin = 1
  MaxLosses = 0
  MaxExternal = 0
  Foreign = {order, answer, junk}
  Pausable = {requests}
INVARIANTS TypeOK RepliesWerePut ConsumedFlagSound
CHECK_DEADLOCK FALSE
