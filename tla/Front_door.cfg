\* The way of a message from access to answer, with operators at work.
SPECIFICATION Spec
CONSTANTS
    Proc = {p1, p2}
    Subject = {s1, s2}
    Evaluator = evaluator
    Group = group
    None = none
    MaxCase = 2
    MaxJobs = 3
    MaxFaults = 1
    PendingLimit = 1
    MaxRequest = 2
    Backends = 2
    UserLimit = 1
    ChatLimit = 1
    MaxMinute = 1
    MaxProfile = 2
    MaxVersion = 2
    Letter = {a, b}
    MaxTerms = 3
    MaxWord = 3
    MaxText = 5
SYMMETRY Symmetry
CONSTRAINT OneFailure
INVARIANTS
    PairingBounded
    FlaggedIsWithheld
    RateLimited
    PersonaIsNewest
    RunCounts
CHECK_DEADLOCK FALSE
