SPECIFICATION MCSpec
CONSTANTS
    s1 = s1
    s2 = s2
    main = main
    probe = probe
    data = data
    Providers = {"aws", "azure", "gcp"}
    Services = {s1, s2}
    Buckets = {main}
    Keys = {probe, data}
    Probe = probe
    MaxWrites = 2
    Owner = Owner
    Nowhere = Nowhere
SYMMETRY MCSymmetry
INVARIANTS
    TypeOK
    ObjectsTracked
    TearDownLeavesNothing
    OwnersObjectsKept
CHECK_DEADLOCK FALSE
