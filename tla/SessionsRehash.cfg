SPECIFICATION Spec
CONSTANTS
    Handlers = {h1, h2}
    Passwords = {old, new}
    First = old
    Passkey = passkey
    LegacyHash = TRUE
    MaxAge = 1
    MaxTime = 1
    MaxVersion = 2
    MaxTorn = 0
PROPERTY PasswordSticks
CHECK_DEADLOCK FALSE
