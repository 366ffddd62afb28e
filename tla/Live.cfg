\* One component at a time: one worker, two handlers and two commits; one login, two
\* accounts and two faults; a drive with one document and its folder, one change and one
\* fault; three requests for one place; one page and one sync.
SPECIFICATION LiveSpec
CONSTANTS
    u1 = u1  r1 = r1  k1 = k1  k2 = k2
    Users = {u1}
    Repos = {r1}
    Keys = {k1, k2}
    Plans = {}
    Clients = {c1, c2}
    Workers = {w1}
    QueueSize = 1
    UserQuota = 2
    NoRun = NoRun
    MaxAttempts = 2
    MaxCancels = 1
    MaxFailures = 0
    MaxCrashes = 0
    MaxAged = 0
    Logins = {l1}
    Machines = {m1}
    Accounts = {a1, a2}
    Codes = {u1}
    None = None
    TTL = 5
    Interval = 1
    MaxPending = 2
    MaxTokens = 1
    MaxTime = 7
    MaxFaults = 2
    Files = {f}
    Sub = s
    SourceTime = 1
    SourceFaults = 1
    rq1 = rq1
    alice = alice
    bob = bob
    Requests = {rq1, rq2, rq3}
    Account <- OneOfBob
    Parallel = 1
    Slots = 1
    Quota = 2
    MaxCost = 1
    MaxDay = 0
    MaxTotal = 3
    Owners = {o1}
    Mine = {o1}
    Syncs = {s1}
    Buffer = 1
    PageFaults = 1
INVARIANTS DeviceInv ApprovedInTimeIsKept
PROPERTIES AttemptsEnd LoginEnds CatchesUp RequestsEnd PageCatchesUp
CHECK_DEADLOCK FALSE
