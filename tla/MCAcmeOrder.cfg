SPECIFICATION FairSpec
CONSTANTS
    NumAuthz = 2
    Namings <- EitherNames
    MaxAttempts = 4
    MaxFailures = 3
INVARIANTS
    LastChallengeInPlace
    NoPileUp
PROPERTIES
    EventuallyIssued
CHECK_DEADLOCK FALSE
