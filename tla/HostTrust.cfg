\* Two tasks, two hosts, two keys, two changes of identity; one store at a time.
SPECIFICATION Spec
CONSTANTS
    Task = {p1, p2}
    Host = {h1, h2}
    Key = {k1, k2}
    MaxRekeys = 2
    Mixes <- OneStore
    None = None
SYMMETRY Symmetry
INVARIANTS TrustInv ChangedKeyBlocked
PROPERTY PinsSurvive
