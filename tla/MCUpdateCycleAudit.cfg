SPECIFICATION FairCycleSpec
CONSTANTS
    Home = Home
    List = List
    Old = Old
    NoPage = NoPage
    Pages <- MCPages
    Seeds = {Home}
    Ingested = {{}, {Home, List, Old}}
    ParentOf <- MCParentOf
    Research = {Home}
    Removable = {List}
    Links <- MCLinks
    Redirects <- MCRedirects
    Priority <- MCPriority
    Interval <- MCInterval
    Grace <- MCGrace
    Limits = {9}
    MaxDay = 2
INVARIANTS AuditHolds
CHECK_DEADLOCK FALSE
