\* One component at a time: two requests of one account that compete for one slot over two
\* days, where an account may have one in flight (once the quota of the last day is used
\* up every request is refused), with one writer of its whole record; two reviews that share a cache, with one fault; three checks
\* of a review and what follows; the tests of three to five names, in two units of two
\* names, with three units of time; a drive with one document and its folder, two changes
\* and two faults; four operations on an account, with two connections, one rotation and
\* one fault.
SPECIFICATION PartsSpec
CONSTANTS
    Requests = {r1, r2}
    alice = alice
    Account <- OfAlice
    Writers = {w}
    Parallel = 1
    Slots = 1
    Quota = 1
    MaxCost = 1
    MaxDay = 1
    MaxTotal = 5
    None = None
    Reviews = {a, b}
    MaxFailures = 2
    MaxRuns = 3
    MaxFaults = 1
    Checks = 3
    MaxRuntime = 5
    Timeout = 2
    Reserves = {0, 2, 5}
    Parallels = {1, 2, 3}
    Capacities = {0, 2, 3}
    Slack = 1
    MaxLater = 3
    Selections <- Lists
    MaxNames = 2
    MaxTests = 3
    MaxUnits = 2
    SubCap = 3
    NoRun = NoRun
    Files = {f}
    Sub = s
    SourceTime = 2
    SourceFaults = 2
    Calls = {c}
    MaxConnects = 2
    MaxStarts = 4
    MaxRotations = 1
    AccountFaults = 1
INVARIANTS GatewayInv QuotaOvershootIsBounded
INVARIANTS CacheInv VerdictsStand BudgetInv
INVARIANTS ReportAgrees EveryTestIsAnswered ContradictedSupportsNothing TimeIsBounded
INVARIANTS CacheMissesNothing ConnectionInv
SYMMETRY Symmetry
CHECK_DEADLOCK FALSE
