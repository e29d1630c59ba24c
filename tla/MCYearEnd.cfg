\* Executions, reopenings and ordinary postings and reversals that run at once, one of
\* which is evicted, or a draft changed, removed or voided by staff, while the closing
\* period is closed and reopened.
SPECIFICATION YearEndSpec
CONSTANTS
    e1 = e1  e2 = e2  e3 = e3  e4 = e4  c1 = c1  c2 = c2  r1 = r1  r2 = r2  h1 = h1
    november = november  december = december  january = january
    year2026 = year2026  reopen = reopen
    Entries = {e1, e2, e3}
    Closes = {c1, c2}
    Requests = {r1, r2}
    Dates = {december}
    YearDates = {december}
    ClosingDate = december
    Closing = year2026
    ReopenKey = reopen
    Sources <- AllSources
    Keys <- AllKeys
    Hashes = {h1}
    Effects = {1}
    MaxMishaps = 1
    None = None
SYMMETRY Interchangeable
INVARIANTS TypeOK ReopenedIsReversed OneCompletedClose ClosedYearWasClosedOut
PROPERTY ClosedYearIsFrozen
CHECK_DEADLOCK FALSE
