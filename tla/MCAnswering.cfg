SPECIFICATION AnswerSpec
CONSTANTS
    NoHint = NoHint
    Versions <- MCVersions
    Record <- MCRecord
    MinScore = 1000
    MaxPerSource = 2
    ReservedSlots = 2
    Asks <- MCAsks
    Drafts <- MCDrafts
    Rankings <- MCRankings
    Scores = {5, 50, 60}
    Threshold = 50
    Confidence = 4900
INVARIANTS CitesWhatWasShown OutrankedIsSilent RiskIsGrounded
CHECK_DEADLOCK FALSE
