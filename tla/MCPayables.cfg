\* Two requests enter, decide on, post, pay and void one bill of 2 and two payments of
\* 1 or 2, while staff edit, remove, void, post or reverse what they find.
SPECIFICATION PayablesSpec
CONSTANTS
    b1 = b1  p1 = p1  p2 = p2  e1 = e1  e2 = e2  e3 = e3  e4 = e4
    a1 = a1  a2 = a2  r1 = r1  r2 = r2  d1 = d1  d2 = d2  k1 = k1  h1 = h1
    Bills = {b1}
    Payments = {p1, p2}
    Entries = {e1, e2, e3, e4}
    Dates = {d1}
    Sources <- AllSources
    Keys <- AllKeys
    Hashes = {h1}
    Totals <- BillTotals
    DateOf <- FirstDate
    Applications <- PartOrAll
    Actors = {a1, a2}
    Requests = {r1, r2}
    StaffAmounts = {0}
    MaxChanges = 2
    MaxCrashes = 0
    None = None
SYMMETRY Interchangeable
INVARIANTS TypeOK BillsBalance ControlAccountAgrees ApprovedByAnother
CHECK_DEADLOCK FALSE
