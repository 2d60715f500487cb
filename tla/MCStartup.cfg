SPECIFICATION FairStartupSpec
CONSTANTS
    r1 = r1
    v1 = v1
    v2 = v2
    w1 = w1
    b1 = b1
    Records = {r1}
    Labels = {v1, v2}
    Builders = {w1, b1}
    Workers = {w1}
    FirstLabel = v1
    NULL = NULL
    MaxTroubles = 2
    MaxScripts = 1
    Faults = {"crash", "reset"}
    Primary <- MCPrimary
INVARIANTS
    StartupTypeOK
    SingleActive

    
