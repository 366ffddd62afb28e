\* A scan between the opening of the page and the approval.
SPECIFICATION Spec
CONSTANTS
    Contents = {1, 2}
    Large = {}
    Keys = {1, 2}
    Changes <- ChangesOf
    Truncated = {}
    Kinds = {"folder", "uploaded", "exported"}
    Requests = {r1}
    None = None
    MaxSaves = 3
    MaxExports = 2
    MaxReviews = 1
    MaxEvents = 1
INVARIANT NobodyApprovesUnseen
CHECK_DEADLOCK FALSE
