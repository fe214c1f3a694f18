SPECIFICATION Spec
CONSTANTS
    Handlers = {h1, h2}
    Passwords = {old, new}
    First = old
    Passkey = passkey
    LegacyHash = TRUE
    MaxAge = 0
    MaxTime = 1
    MaxVersion = 1
    MaxTorn = 1
PROPERTY ImplementsAuthority
CHECK_DEADLOCK FALSE
