\* One bill and one payment on two dates, an eviction and closed periods: attempts
\* stop anywhere and are made again.  No symmetry, because of the liveness properties.
SPECIFICATION FairSpec
CONSTANTS
    b1 = b1  p1 = p1  p2 = p2  e1 = e1  e2 = e2  e3 = e3  e4 = e4
    a1 = a1  a2 = a2  r1 = r1  r2 = r2  d1 = d1  d2 = d2  k1 = k1  h1 = h1
    Bills = {b1}
    Payments = {p1}
    Entries = {e1, e2, e3}
    Dates = {d1, d2}
    Sources <- AllSources
    Keys <- AllKeys
    Hashes = {h1}
    Totals <- BillTotals
    DateOf <- FirstDate
    Applications <- PartOrAll
    Actors = {a1, a2}
    Requests = {r1, r2}
    StaffAmounts = {}
    MaxChanges = 0
    MaxCrashes = 1
    None = None
PROPERTIES ApprovedIsPosted StartedVoidEnds
CHECK_DEADLOCK FALSE
