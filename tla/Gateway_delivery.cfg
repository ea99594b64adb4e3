\* Two gateways, a crash, a cancellation, a lost answer.
SPECIFICATION GatewaySpec
CONSTANTS
  c1 = c1
  c2 = c2
  a = a
  Consumer = {c1, c2}
  Envelope = {a}
  Malformed = {}
  Deduped = FALSE
  MaxAttempts = 2
  ReadCount = 1
  MaxLen = 2
  MaxEntry = 2
  MaxFaults = 1
  Segments <- TwoSegments
  Unroutable = {}
  MaxCancels = 1
  MaxLapses = 1
SYMMETRY ConsumerSymmetry
INVARIANTS AtLeastOnce RepliesAreGrowing AcceptedOnce
