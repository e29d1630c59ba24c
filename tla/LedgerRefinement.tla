-------------------------- MODULE LedgerRefinement --------------------------
(* The journal of Ledger.tla, for all its interleaved round trips, does    *)
(* what Books.tla says: every operation takes effect in one step.          *)
EXTENDS LedgerProperties

\* What a caller can tell of a row: a draft has been edited if its version says so.
View(row) ==
    [status |-> IF row.status = "draft" /\ row.version # 1 THEN "edited" ELSE row.status,
     date   |-> row.date,
     source |-> row.source]

JournalView == [e \in Entries |-> View(entries[e])]

AcceptingPeriods == {p \in Periods : Accepting(p)}

Abstract == INSTANCE Books WITH
    Dates <- Periods, Sources <- Entries, Keys <- IdempotencyKeys,
    journal <- JournalView, keys <- idempotency, accepting <- AcceptingPeriods

\* Whatever requests interleave, an entry is drafted, edited, posted or reversed
\* in one step that meets the conditions under which Books allows it: a posting
\* under a free key into an accepting period, a reversal by the unedited draft
\* made for it, together with the new status of what it reverses.
ImplementsBooks == Abstract!Spec

=============================================================================
