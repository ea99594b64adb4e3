\* One replica, a crash, a stall, two messages, one of them a shadow evaluation.
SPECIFICATION FairWorkerSpec
CONSTANTS
  c1 = c1
  a = a
  b = b
  k = k
  Free = Free
  Orphan = Orphan
  Consumer = {c1}
  Envelope = {a, b}
  Malformed = {}
  Shadow = {b}
  Conversation = {k}
  ConversationOf <- OneConversation
  Deduped = TRUE
  MaxAttempts = 2
  ReadCount = 1
  MaxLen = 2
  MaxEntry = 2
  MaxFaults = 1
  MaxStalls = 0
  Redelivery = FALSE
  RenewalErrors = TRUE
  Replays = TRUE
INVARIANTS NoAnswerLost
PROPERTIES EveryMessageSettles LeaseIsFreed
