\* Two launches, SSH and Moonlight, requests from one caller, no audio device, so
\* that Moonlight asks whether to go on without one.
SPECIFICATION Spec
CONSTANTS
    Session = {s1, s2}
    Connection = {c1, c2}
    Sink = {}
    Caller = {u1}
    Protocol = {"moonlight", "ssh"}
    Calls = {"cancel", "cancel_all", "ssh", "audio"}
    Limited = {s1, s2}
    StopAttempts = 1
    None = None
SYMMETRY Symmetry
INVARIANTS LaunchInv OneClientPerConnection NoOrphanClient TerminalHasNoClient
           NoStuckSession EventProtocol TwoClientsAtMost
CHECK_DEADLOCK FALSE
