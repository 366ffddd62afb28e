\* A call stores the record it read before a token was revoked.
SPECIFICATION Spec
CONSTANTS
    Calls = {c1}
    SignIns = {}
    Agents = {}
    TokenIds = {t1, t2}
    t1 = t1
    t2 = t2
    Name <- OneName
    MaxTokens = 1
    None = None
    MaxIssued = 2
    MaxFailures = 0
INVARIANT RevokedStays
