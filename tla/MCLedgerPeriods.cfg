\* Periods, locks, the fiscal year, the protective state and the accounts change
\* between the checks of a posting and its batch.
SPECIFICATION Spec
CONSTANTS
    e1 = e1  e2 = e2  e3 = e3  r1 = r1  r2 = r2  p1 = p1  p2 = p2
    k1 = k1  k2 = k2  h1 = h1  h2 = h2  cash = cash  gifts = gifts
    Entries = {e1}
    Requests = {r1, r2}
    Periods = {p1, p2}
    Keys = {k1}
    Hashes = {h1}
    Accounts = {cash}
    LineSets <- OneTransfer
    Operations = {"create", "post", "period", "year", "protect", "archive"}
    MaxVersion = 2
    None = None
SYMMETRY RequestAndEntrySymmetry

PROPERTIES PostsIntoAcceptingPeriod
CHECK_DEADLOCK FALSE
