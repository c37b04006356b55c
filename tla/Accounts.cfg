\* One account, two requests at a time, two sessions and a handoff.
SPECIFICATION Spec
CONSTANTS
    Call = {c1, c2}
    Session = {s1, s2}
    Handoff = {h1}
    Password = {p1, p2}
    Limit = 1
    Window = 1
    IdleTime = 1
    HandoffTTL = 1
    Keep = 0
    Horizon = 1
    User = u
    None = None
SYMMETRY Symmetry
INVARIANTS AccountsInv PasswordAsSet SignedOut
PROPERTIES DeadStaysDead KeepsPromise
CHECK_DEADLOCK FALSE
