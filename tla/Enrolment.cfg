\* Two kiosks, two tokens, two identifiers, one clock tick.
SPECIFICATION Spec
CONSTANTS
    Kiosk = {k1, k2}
    Identifier = {i1, i2}
    Token = {t1, t2}
    TokenTTL = 1
    Horizon = 1
    MaxWire = 2
    Anyone = Anyone
    None = None
SYMMETRY Symmetry
INVARIANT EnrolmentInv
PROPERTY KeepsPromise
CHECK_DEADLOCK FALSE
