\* A child that comes and goes, a call, two configurations and a fault.
SPECIFICATION BrokerSpec
CONSTRAINT LastConfigAlone
CONSTANTS
  k1 = k1
  i1 = i1
  None = None
  Child = {k1}
  Object = {1, 2}
  Poll = {1, 2}
  Call = {i1}
  MaxConfig = 2
  MaxFaults = 1
INVARIANTS RunAtMostOnce NoSleepOnWork
PROPERTY ConfigNeverGoesBack
