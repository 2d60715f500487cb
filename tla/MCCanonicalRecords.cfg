SPECIFICATION RecordsSpec
CONSTANTS
    Blocked = {}
    NoParent = NoParent
    Pools <- MCPools
    BatchSizes = {1, 4}
    MaxDay = 3
INVARIANTS RecordsTypeOK OneCurrentValue  HeldBackIsReviewed
PROPERTIES FailsClosed RejectionHolds AuditPasses
