\* Two launches of one connection under fair scheduling.
SPECIFICATION FairSpec
CONSTANTS
    Session = {s1, s2}
    Connection = {c1}
    Sink = {}
    Caller = {u1}
    Protocol = {"ssh"}
    Calls = {"cancel"}
    Limited = {}
    StopAttempts = 2
    None = None
PROPERTIES CancelTakesEffect ReplacementCompletes EndedSessionLeaves
CHECK_DEADLOCK FALSE
