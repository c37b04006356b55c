\* Administration of every kind between any two statements of two requests.
SPECIFICATION Spec
CONSTANTS
    User = {u1}
    Group = {g1}
    Connection = {c1}
    Device = {d1}
    Ticket = {t1}
    Request = {r1, r2}
    Admin = {"users", "devices", "connections", "permissions", "groups", "policies"}
    TicketTTL = 1
    Horizon = 1
    None = None
SYMMETRY Symmetry
INVARIANTS RowsIntact TicketsFollowPolicy
CHECK_DEADLOCK FALSE
