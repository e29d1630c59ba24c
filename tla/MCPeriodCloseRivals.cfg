\* Two requests create, validate, complete and reopen two sessions of one period.
SPECIFICATION Spec
CONSTANTS
    s1 = s1  s2 = s2  r1 = r1  r2 = r2  ledger = ledger  drafts = drafts
    Sessions = {s1, s2}
    Requests = {r1, r2}
    CloseTypes = {"month_end"}
    CheckCodes <- LedgerOnly
    Blocking = {ledger}
    Operations = {"create", "validate", "complete", "reopen"}
    MaxVersion = 3
    MaxCrashes = 0
    None = None
SYMMETRY RequestAndSessionSymmetry
INVARIANTS OneActiveSession CompletedHasItsSnapshot LockFollowsSnapshot
CHECK_DEADLOCK FALSE
