\* A ready session is completed and reopened by two requests that are evicted and repeated.
SPECIFICATION ReadySpec
CONSTANTS
    s1 = s1  s2 = s2  r1 = r1  r2 = r2  ledger = ledger  drafts = drafts
    Sessions = {s1}
    Requests = {r1, r2}
    CloseTypes = {"month_end"}
    CheckCodes <- LedgerOnly
    Blocking = {ledger}
    Operations = {"complete", "reopen"}
    MaxVersion = 0
    MaxCrashes = 2
    None = None
PROPERTIES CompletionRecovers ReopeningRecovers
CHECK_DEADLOCK FALSE
