SPECIFICATION MCSpec
CONSTANTS
    j1 = j1
    j2 = j2
    n1 = n1
    n2 = n2
    alias2 = alias2
    ghost = ghost
    Providers = {"aws", "azure", "gcp"}
    Jobs = {j1, j2}
    Other = Other
    None = None
    NoNetwork = NoNetwork
    Spellings = {n1, n2, alias2, ghost}
    Networks = {n1, n2}
    Resolved <- MCResolved
    MaxAttempts = 2
    Limits = {None, 0, 1, 2, 3, 4}
    Bursts = {0, 1, 2}
    MaxEntries = 2
    MaxChanges = 1
INVARIANTS
    TypeOK
    PassedOnEvidence
    DeliveredIsFound
    
    RateVerdict
    GuardrailVerdict
PROPERTIES
    TouchKeepsLabels
CHECK_DEADLOCK FALSE
