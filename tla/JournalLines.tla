---------------------------- MODULE JournalLines ----------------------------
(***************************************************************************)
(* The lines of a journal entry: a sequence of records that name an        *)
(* account and carry a whole-cent debit or credit.  An account here stands *)
(* for the account-and-fund coordinates of the source's lines: the code    *)
(* treats an archived fund exactly as it treats an archived account.       *)
(***************************************************************************)
EXTENDS Integers, Sequences, FiniteSetsExt

Debits(lines)  == MapThenSumSet(LAMBDA i : lines[i].debit, DOMAIN lines)
Credits(lines) == MapThenSumSet(LAMBDA i : lines[i].credit, DOMAIN lines)

AccountsOf(lines) == {lines[i].account : i \in DOMAIN lines}

\* The balance and line-count part of the posting check.
Balanced(lines) ==
    /\ Len(lines) >= 2
    /\ Debits(lines) > 0
    /\ Debits(lines) = Credits(lines)

\* What validateJournalDraftInput accepts: a draft may be out of balance.
Draftable(lines) ==
    /\ Len(lines) >= 2
    /\ \A i \in DOMAIN lines : (lines[i].debit > 0) # (lines[i].credit > 0)

\* The lines of a reversal: every debit becomes a credit and vice versa.
Mirror(lines) ==
    [i \in DOMAIN lines |-> [account |-> lines[i].account,
                             debit   |-> lines[i].credit,
                             credit  |-> lines[i].debit]]

=============================================================================
