\* A change of the owner is stored while a sync asks the forge.
SPECIFICATION PageSpec
CONSTANTS
    Owners = {o1}
    Mine = {o1}
    Syncs = {s1}
    Buffer = 1
    MaxFaults = 0
INVARIANT SyncKeepsOwnerWrites
CHECK_DEADLOCK FALSE
