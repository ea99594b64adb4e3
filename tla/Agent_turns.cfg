\* Two workers, three conversations, one approval, and three turns or faults.
SPECIFICATION Spec
CONSTANTS
  m1 = m1
  m2 = m2
  w1 = w1
  w2 = w2
  k1 = k1
  k2 = k2
  k3 = k3
  None = None
  Worker = {w1, w2}
  Channel = {m1, m2}
  Slots <- TwoSlots
  Priority <- Preferred
  Tier = {"default"}
  TierOf <- DefaultTier
  Lists <- WithAndWithout
  CursorPeriod = 1
  Conversation = {k1, k2, k3}
  GlobalCeiling = 2
  ConversationCeiling = 1
  MaxToolCalls = 1
  MaxReplies = 2
  FlushTokens = 0
  ExtractTokens = 1
  MaxRequest = 1
  MaxDay = 2
  MaxEvents = 3
SYMMETRY Symmetric
INVARIANTS RunsAreApproved BudgetOvershoot
PROPERTY ImplementsContract
CHECK_DEADLOCK FALSE
