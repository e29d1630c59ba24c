\* Two requests create, validate, waive, review and complete a session while the records change and the period is opened.
SPECIFICATION Spec
CONSTANTS
    s1 = s1  s2 = s2  r1 = r1  r2 = r2  ledger = ledger  drafts = drafts
    Sessions = {s1}
    Requests = {r1, r2}
    CloseTypes = {"month_end"}
    CheckCodes <- LedgerThenDrafts
    Blocking = {ledger}
    Operations = {"create", "validate", "waive", "review", "complete", "records", "open"}
    MaxVersion = 3
    MaxCrashes = 0
    None = None
SYMMETRY RequestSymmetry
INVARIANTS TypeOK
PROPERTIES CompletesCompletable WaivesWhatWasSeen
CHECK_DEADLOCK FALSE
