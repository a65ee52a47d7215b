SPECIFICATION FairSpec
CONSTANTS
    Claims = {c1}
    Members = {m1, m2}
    None = None
    TTL = 1
    EndOfTime = 3
    MaxNow = 3
    MaxLives = 1
    MaxLag = 1
    MaxFaults = 1
INVARIANTS TypeOK OneMemberPerClaim ReleaseAfterDestroy
PROPERTIES ReboundOnlyIfStale OverdueSandboxGoes DeletedClaimGoes
CHECK_DEADLOCK FALSE
