SPECIFICATION Spec
CONSTANTS
    r1 = r1
    r2 = r2
    r3 = r3
    s1 = s1
    s2 = s2
    s3 = s3
    Resources = {r1, r2, r3}
    Scenarios = {s1, s2, s3}
    Requirements <- MCRequirements
    Plan <- MCPlan
    Steps <- MCSteps
    Requirement <- MCRequirement
    Name <- MCName
    Badge <- MCBadge
    Report <- MCReport
    Combined = "combined"
    MaxRuns = 2
    MaxFaults = 1
    MaxAttached = 2
    Nobody = Nobody
INVARIANTS
    TypeOK
    CollectorsAgree
    FindingsAgree
    AttachmentsPlaced
    CombinedComplete
    ExitTellsFailure
    VerdictFaithful
CHECK_DEADLOCK FALSE
