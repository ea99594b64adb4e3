\* Ingest stream: two replicas, a good and a malformed payload, duplicates,
\* replays, one crash, and a MAXLEN that trims entries still pending.
SPECIFICATION Spec
CONSTANTS
  c1 = c1
  c2 = c2
  a = a
  b = b
  Consumer = {c1, c2}
  Envelope = {a, b}
  Malformed = {b}
  Deduped = TRUE
  MaxAttempts = 2
  ReadCount = 2
  MaxLen = 1
  MaxEntry = 2
  MaxFaults = 2
SYMMETRY ConsumerSymmetry
INVARIANTS NothingLost OnceMeansCompleted
PROPERTY SettledStaysSettled
