--------------------------- MODULE MCPeriodClose ---------------------------
(* Small instances of the close of a period.                               *)
EXTENDS PeriodCloseProperties, TLC

CONSTANTS s1, s2, r1, r2, ledger, drafts

\* One blocking and one advisory check, in the order of CORE_CHECKS.
LedgerThenDrafts == <<ledger, drafts>>
LedgerOnly == <<ledger>>

RequestSymmetry == Permutations(Requests)
RequestAndSessionSymmetry == Permutations(Requests) \cup Permutations(Sessions)

=============================================================================
