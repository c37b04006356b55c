\* One ticket, two devices, two calls at a time, a remote session in the way.
SPECIFICATION FairSpec
CONSTANTS
    Device = {d1, d2}
    Administrator = {a1}
    Ticket = {t1}
    Call = {c1, c2}
    TicketTTL = 1
    Horizon = 1
    MaxSessions = 1
    Revocable = {d1}
    None = None
INVARIANTS MaintenanceInv ShellAuthorised OldSessionsClosed
PROPERTIES KeepsPromise BrokerReleased
CHECK_DEADLOCK FALSE
