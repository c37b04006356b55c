\* Two connections, one session at the agent, two requests under way; the
\* connecting screen is left under fair replies.  The kiosk may be left alone.
SPECIFICATION FairSpec
CONSTANTS
    Connection = {c1, c2}
    MaxSessions = 1
    MaxWire = 2
    None = None
INVARIANTS LauncherInv SignedOutIsLocked
PROPERTIES ConnectingScreenLeft
CHECK_DEADLOCK FALSE
