\* The supervisor: a reload, switching off and on, and a fault; no calls.
SPECIFICATION FairHostSpec
CONSTANTS
  k1 = k1
  None = None
  Child = {k1}
  Object = {1, 2}
  Poll = {1}
  Call = {}
  MaxConfig = 0
  MaxFaults = 2
  MaxGeneration = 1
  CrashLimit = 2
INVARIANTS OneChildPerPlugin
PROPERTY ServedAgain
