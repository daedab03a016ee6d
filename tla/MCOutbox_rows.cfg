SPECIFICATION FairOutboxSpec
CONSTANTS
    Events = {pay, cart}
    Initiates = {pay}
    MaxAttempts = 2
    BatchSize = 1
    Instances = {i1}
    Slots = {1, 2}
INVARIANTS
    AttemptsAreDistinct
    CompletedWasDone
    FailedAfterAllAttempts
    ExhaustedIsCompensated
PROPERTIES
    UnsettledRowsAreRetried
