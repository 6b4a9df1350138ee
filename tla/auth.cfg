SPECIFICATION Spec
CONSTANTS
    Users = {u1, u2}
    Passwords = {p1}
    Secrets = {k1, k2}
    Requests = {r1, r2}
    Hours = 1
    Hour = 2
    HalfRange = 8
    Epoch = 6
    MaxTime = 10
    MaxStarts = 2
    MaxTokens = 1
    MaxRestores = 1
SYMMETRY Symmetry
INVARIANTS
    AuthTypeOK
    Earned
    KnownLogin
    LifetimeAsConfigured
