\* A cancellation racing the announcement of the same attempt.
SPECIFICATION Spec
CONSTANTS
    u1 = u1  u2 = u2  r1 = r1  r2 = r2  k1 = k1  k2 = k2  p1 = p1
    Users = {u1}
    Repos = {r1}
    Keys = {k1, k2}
    RepoOf <- TwoCommits
    UserOf <- OneRepoUserOf
    Plans = {}
    Clients = {c1, c2}
    Workers = {w1}
    QueueSize = 2
    UserQuota = 2
    NoRun = NoRun
    MaxAttempts = 1
    MaxCancels = 1
    MaxFailures = 0
    MaxCrashes = 0
    MaxAged = 0
SYMMETRY Symmetry
INVARIANT BadgeSettles
