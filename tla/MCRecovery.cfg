SPECIFICATION RecoverySpec
CONSTANTS
  b1 = b1
  l1 = l1
  l2 = l2
  l3 = l3
  r1 = r1
  r2 = r2
  Records = {r1, r2}
  Labels = {l1, l2, l3}
  Builders = {b1}
  NULL = NULL
  Faults = {"crash", "build", "embed", "activate", "rollback", "cleanup"}
  Primary <- MCPrimary
SYMMETRY LabelSymmetry
INVARIANTS
  RecoveryTypeOK
  AliasFollows
  RetiredIsDeleted
  
  IndexedIsRetrievable
