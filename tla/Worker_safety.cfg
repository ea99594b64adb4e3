\* Two replicas, one conversation, redelivered updates, a crash and a
\* stalled worker.
SPECIFICATION WorkerSpec
CONSTANTS
  c1 = c1
  c2 = c2
  a = a
  k = k
  Free = Free
  Orphan = Orphan
  Consumer = {c1, c2}
  Envelope = {a}
  Malformed = {}
  Shadow = {}
  Conversation = {k}
  ConversationOf <- OneConversation
  Deduped = TRUE
  MaxAttempts = 2
  ReadCount = 1
  MaxLen = 2
  MaxEntry = 2
  MaxFaults = 1
  MaxStalls = 1
  Redelivery = TRUE
  RenewalErrors = FALSE
  Replays = FALSE
SYMMETRY ConsumerSymmetry
INVARIANTS OneTurnPerConversation RepeatsOnlyOnRetry
PROPERTY LeaseLeavesOnlyItsOwner
