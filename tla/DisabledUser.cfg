\* A user disabled between the issue and the use of a ticket.
SPECIFICATION Spec
CONSTANTS
    User = {u1}
    Group = {}
    Connection = {c1}
    Device = {d1}
    Ticket = {t1}
    Request = {r1, r2}
    Admin = {"users"}
    TicketTTL = 1
    Horizon = 1
    None = None
PROPERTIES DisabledUserDenied
CHECK_DEADLOCK FALSE
