SPECIFICATION MCSpec
CONSTANTS
    Providers = {"aws", "azure", "gcp"}
    Jobs = {j1, j2}
    Subnets = {1, 2, 3}
    NoSubnet = NoSubnet
    MaxInstances = 2
INVARIANTS
    TypeOK
    NoSilentLeak
    NicAccountedFor
    
    PassedMeansPrivate
PROPERTIES
    DeletedDisappears
    JobsEnd
CHECK_DEADLOCK FALSE
