\* Two calls, reconnects, restarts, broken sockets and failed publishes.
SPECIFICATION FairQQSpec
CONSTANTS
  MaxCall = 2
  MaxEvent = 2
  MaxConn = 3
  MaxRestarts = 1
  StreamErrors = TRUE
INVARIANTS SuccessIsAccepted WaitsOnLiveConnection EventsInOrder
PROPERTY CallsEnd
CHECK_DEADLOCK FALSE
