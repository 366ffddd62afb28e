\* One repository, two commits, two workers: a commit can be cancelled and requested again.
SPECIFICATION Spec
CONSTANTS
    u1 = u1  u2 = u2  r1 = r1  r2 = r2  k1 = k1  k2 = k2  p1 = p1
    Users = {u1}
    Repos = {r1}
    Keys = {k1, k2}
    RepoOf <- TwoCommits
    UserOf <- OneRepoUserOf
    Plans = {}
    Clients = {c1, c2}
    Workers = {w1, w2}
    QueueSize = 2
    UserQuota = 2
    NoRun = NoRun
    MaxAttempts = 3
    MaxCancels = 1
    MaxFailures = 0
    MaxCrashes = 0
    MaxAged = 0
SYMMETRY Symmetry
INVARIANTS ExclusiveRun StreamOrder BadgeIsNewest DeliveryInv
