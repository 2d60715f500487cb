SPECIFICATION FairJobsSpec
CONSTANTS
    r1 = r1
    e1 = e1
    e2 = e2
    l1 = l1
    l2 = l2
    l3 = l3
    j1 = j1
    Records = {r1}
    Builders = {e1, e2}
    Labels = {l1, l2, l3}
    Jobs = {j1}
    NULL = NULL
    Faults = {"crash", "build"}
    Primary <- MCPrimary
PROPERTIES
    JobsSettle
    BuildTerminates
