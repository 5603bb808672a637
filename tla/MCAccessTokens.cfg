SPECIFICATION Spec
CONSTANTS
    Jobs = {1, 2, 3}
    TrialsOf <- OneOrTwo
    MaxTrials = 5
    MaxExpiries = 1
    MaxFaults = 1
INVARIANTS
    RefreshTokenServesOnce
    JobsEndAuthorised
    StoredTokenIsCurrent
