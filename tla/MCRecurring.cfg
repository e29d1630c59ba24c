\* One schedule of either kind with two due dates, and two runs of the scheduler or
\* changes by users that overlap or follow one another, while they are evicted, periods
\* close and staff work on the entries.  No symmetry: liveness is checked.
SPECIFICATION FairSpec
CONSTANTS
    s1 = s1  e1 = e1  e2 = e2  e3 = e3  r1 = r1  r2 = r2  h1 = h1
    byHand = byHand
    Schedules = {s1}
    Horizon = 2
    EndDate <- Until
    Entries = {e1, e2, e3}
    Dates <- CalendarDates
    Sources <- AllSources
    Keys <- AllKeys
    Hashes = {h1}
    Runs = {r1, r2}
    MaxMishaps = 2
    None = None
INVARIANTS TypeOK NothingSkipped ExecutionsAreTrue
PROPERTY DueIsSettled
CHECK_DEADLOCK FALSE
