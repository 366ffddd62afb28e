\* Four keys and three places of the limiter.  Two logins of one machine or of two, where
\* one may be pending and an account holds one token; the clock's bound stops the system.
SPECIFICATION DevicesSpec
CONSTANTS
    Callers = {c1, c2, c3, c4}
    Limit = 2
    Window = 1
    MaxKeys = 3
    Sample = 2
    Enough = 3
    Logins = {l1, l2}
    Machines = {m1, m2}
    Accounts = {a1}
    Codes = {u1, u2}
    None = None
    TTL = 2
    Interval = 1
    MaxPending = 1
    MaxTokens = 1
    MaxTime = 7
    MaxFaults = 1
SYMMETRY Symmetry
INVARIANTS LimiterInv DeviceInv
CHECK_DEADLOCK FALSE
