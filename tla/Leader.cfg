SPECIFICATION FairSpec
CONSTANTS
    Procs = {p1, p2, p3}
    Nobody = Nobody
    LeaseDuration = 2
    Faults = {"crash", "acquire", "renew", "reread", "delete"}
    MaxFaults = 2
INVARIANTS TypeOK OneLeaderWhileCalm ReadyzTruthful
PROPERTIES LeaderEmerges
