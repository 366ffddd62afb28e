\* Two accounts sharing a queue of one place: ErrBusy, ErrQuota, a failing store, restarts, ageing.
SPECIFICATION Spec
CONSTANTS
    u1 = u1  u2 = u2  r1 = r1  r2 = r2  k1 = k1  k2 = k2  p1 = p1
    Users = {u1, u2}
    Repos = {r1, r2}
    Keys = {k1, k2, p1}
    RepoOf <- TwoUsersRepoOf
    UserOf <- TwoUsersUserOf
    Plans = {p1}
    Clients = {c1, c2}
    Workers = {w1}
    QueueSize = 1
    UserQuota = 1
    NoRun = NoRun
    MaxAttempts = 2
    MaxCancels = 1
    MaxFailures = 1
    MaxCrashes = 1
    MaxAged = 1
SYMMETRY Symmetry
INVARIANT AcceptedNotLost
PROPERTY ImplementsLifecycle
