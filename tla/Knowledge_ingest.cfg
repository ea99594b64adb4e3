\* Two workers, one dispatcher, one document with two generations, and a crash, a
\* stall or a task published twice.
SPECIFICATION IngestSpec
CONSTANTS
  c1 = c1
  c2 = c2
  doc = doc
  p1 = p1
  NoTask = NoTask
  Consumer = {c1, c2}
  Document = {doc}
  Dispatcher = {p1}
  Envelope <- Tasks
  ContentOf <- SameContent
  Malformed = {}
  Deduped = FALSE
  MaxGeneration = 2
  MaxAttempts = 2
  ReadCount = 1
  MaxLen = 2
  MaxEntry = 2
  MaxFaults = 1
  MaxStalls = 1
CONSTRAINT OneDisturbance
SYMMETRY ConsumerSymmetry
INVARIANTS ReadyIsCurrent NothingStranded OneWorkerPerGeneration
