\* Two Moonlight launches sharing one sink and the screen, every request that hides or ends them.
SPECIFICATION Spec
CONSTANTS
    Session = {s1, s2}
    Connection = {c1, c2}
    Sink = {k1}
    Caller = {u1}
    Protocol = {"moonlight"}
    Calls = {"cancel", "minimize", "resume"}
    Limited = {}
    StopAttempts = 1
    None = None
SYMMETRY Symmetry
INVARIANTS UnusedSinkReleased SoleSessionHasAudio HiddenWindowsRestorable
CHECK_DEADLOCK FALSE
