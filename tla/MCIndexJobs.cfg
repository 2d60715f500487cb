SPECIFICATION JobsSpec
CONSTANTS
    r1 = r1
    e1 = e1
    e2 = e2
    l1 = l1
    l2 = l2
    j1 = j1
    j2 = j2
    Records = {r1}
    Builders = {e1, e2}
    Labels = {l1, l2}
    Jobs = {j1, j2}
    NULL = NULL
    Faults = {"crash", "activate"}
    Primary <- MCPrimary
SYMMETRY JobSymmetry
INVARIANTS
    JobsTypeOK
    
    SucceededIsFresh
