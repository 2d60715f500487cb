SPECIFICATION Spec
CONSTANTS
    r1 = r1
    l1 = l1
    l2 = l2
    l3 = l3
    b1 = b1
    b2 = b2
    Records = {r1}
    Labels = {l1, l2, l3}
    Builders = {b1, b2}
    NULL = NULL
    Faults = {"crash", "build", "embed", "activate", "rollback", "cleanup"}
    Primary <- MCPrimary
SYMMETRY LabelAndBuilderSymmetry
INVARIANTS
    TypeOK
    SingleActive
    ActiveIntact
PROPERTY
    PublishesAtomically
