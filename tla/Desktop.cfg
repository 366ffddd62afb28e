\* One document of each kind of source, with one approval and one event, and contents
\* whose reports list one change, one change twice or two changes; three versions
\* of the application of which one does not start, two launches and two faults.
SPECIFICATION DesktopSpec
CONSTANTS
    Contents = {1, 2, 3, 4}
    Large = {4}
    Keys = {"raised", "signed"}
    Changes <- ChangesOf
    Truncated = {}
    Kinds = {"folder", "uploaded", "exported"}
    Requests = {r1}
    None = None
    Nil = Nil
    MaxSaves = 3
    MaxExports = 2
    MaxReviews = 1
    MaxEvents = 1
    Procs = {p1, p2, p3, p4}
    MaxVersion = 3
    Broken = {2}
    MaxLaunches = 2
    MaxFaults = 2
INVARIANTS WatchInv ChangeIsKeptWithoutClash ExplanationIsOfTheseChanges UpdateInv
PROPERTIES TruthComesBack EngineComesBack
CHECK_DEADLOCK FALSE
