SPECIFICATION Spec
CONSTANTS
    Handlers = {h1, h2}
    Passwords = {old, new}
    First = old
    Passkey = passkey
    LegacyHash = FALSE
    MaxAge = 1
    MaxTime = 1
    MaxVersion = 2
    MaxTorn = 0
SYMMETRY HandlerSymmetry
INVARIANTS NoResurrection PasswordSessionsCurrent
PROPERTY ChangeRevokes
CHECK_DEADLOCK FALSE
