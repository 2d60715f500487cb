SPECIFICATION QuerySpec
CONSTANTS
    c1 = c1
    c2 = c2
    q1 = q1
    r1 = r1
    Clients = {c1, c2}
    Streaming = {c2}
    Questions = {q1}
    Words <- MCWords
    Rewrites = {"original"}
    Records = {r1}
    MaxGeneration = 2
    None = None
INVARIANTS QueryTypeOK RepliesFromNewest WithdrawnStayOut
