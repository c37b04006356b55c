\* Two devices, two tickets and two requests at once, replies and reports lost, the connection deleted.
SPECIFICATION Spec
CONSTANTS
    User = {u1}
    Group = {}
    Connection = {c1}
    Device = {d1, d2}
    Ticket = {t1, t2}
    Request = {r1, r2}
    Admin = {"connections"}
    TicketTTL = 1
    Horizon = 2
    None = None
SYMMETRY Symmetry
INVARIANTS TicketInv
PROPERTIES KeepsPromise
CHECK_DEADLOCK FALSE
