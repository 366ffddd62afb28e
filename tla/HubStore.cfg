\* Two records kept out of two commits and a plan, a checkpoint every two writes; two
\* requests and a sync on one repository, with one fault.
SPECIFICATION HubSpec
CONSTANTS
    Names = {n1, n2, plan}
    Plans = {plan}
    Times <- SmallTimes
    MaxRecords = 2
    MaxRecent = 1
    CheckpointWrites = 2
    None = None
    MaxPuts = 3
    MaxFailures = 1
    MaxCrashes = 1
    Requests = {p1, p2}
    Syncs = {s1}
    MaxHooks = 2
    MaxFaults = 1
SYMMETRY Symmetry
INVARIANTS RecordInv RecentIsHonest MonitorInv
PROPERTY EvictsOldest
