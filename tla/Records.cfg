\* One record at a time.  Two calls, a sign-in, a request of an agent and its two tokens meet on one
\* account; the credential expires at any time and an answer or a write may be
\* lost.  Two changes and a sync of a repository that a page shows, with room for two
\* events and one fault, until all are done.
SPECIFICATION RecordsSpec
CONSTANTS
    Calls = {c1, c2}
    SignIns = {s1}
    Agents = {a1}
    TokenIds = {t1, t2}
    t1 = t1
    t2 = t2
    Name <- OneName
    MaxTokens = 1
    None = None
    MaxIssued = 3
    MaxFailures = 2
    Owners = {o1, o2}
    Mine = {o1}
    Syncs = {y1}
    Buffer = 2
    MaxFaults = 1
SYMMETRY Symmetry
INVARIANTS AccountInv NoReplay PageInv
PROPERTY OnlySavesUndo
