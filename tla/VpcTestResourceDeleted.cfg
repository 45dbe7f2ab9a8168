SPECIFICATION MCSpec
CONSTANTS
    Providers = {"aws", "azure", "gcp"}
    Jobs = {j1, j2}
    Subnets = {1, 2, 3}
    NoSubnet = NoSubnet
    MaxInstances = 2
INVARIANT
    TerminatedBeforeReturning
CHECK_DEADLOCK FALSE
