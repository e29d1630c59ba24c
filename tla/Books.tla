------------------------------- MODULE Books --------------------------------
(***************************************************************************)
(* The journal as its callers see it.  Ledger.tla models the operations of *)
(* ledger/service.ts with a step for every database round trip; here each  *)
(* of them takes effect in one step or is refused.  Ledger implements this *)
(* specification (LedgerRefinement.tla), and the services that post to the *)
(* journal are modelled over it.                                           *)
(*                                                                         *)
(* The operators Draft, Edit, Remove, Void, Post and Reverse constrain the *)
(* next journal and keys only, so that a caller can put them in the step   *)
(* in which it also changes its own tables.                                *)
(***************************************************************************)
EXTENDS Naturals

CONSTANTS
    Entries,   \* identifiers of journal entries, each used at most once
    Dates,     \* entry dates, each standing for the period it falls in
    Sources,   \* what an entry may be posted for, the reversed entry among it
    Keys,      \* idempotency keys
    Hashes,    \* request hashes
    None

VARIABLES
    journal,   \* per entry: status, date and source
    keys,      \* per idempotency key: the entry posted under it and the hash
    accepting  \* the dates whose period accepts ordinary posting

journalVars == <<journal, keys>>

NoEntry == [status |-> "absent", date |-> None, source |-> None]
Removed == [status |-> "deleted", date |-> None, source |-> None]

\* A "draft" is still what it was created as; once changed it is "edited".
Pending(e) == journal[e].status \in {"draft", "edited"}

Stored(e) == journal[e].status \notin {"absent", "deleted"}
Posted(e) == journal[e].status \in {"posted", "reversed"}

EntriesOf(source) == {e \in Entries : Stored(e) /\ journal[e].source = source}
DraftsOf(source) == {e \in EntriesOf(source) : Pending(e)}

\* A source has one entry as long as that entry is stored, whatever its status.
SourceFree(source) == source = None \/ EntriesOf(source) = {}

\* crypto.randomUUID: which of the unused identifiers it is makes no difference.
IdsLeft == \E e \in Entries : journal[e].status = "absent"
FreshId == CHOOSE e \in Entries : journal[e].status = "absent"

PutEntry(e, entry) == journal' = [journal EXCEPT ![e] = entry]

Draft(e, date, source) ==
    /\ journal[e].status = "absent"
    /\ SourceFree(source)
    /\ PutEntry(e, [status |-> "draft", date |-> date, source |-> source])
    /\ UNCHANGED keys

Edit(e, date) ==
    /\ Pending(e)
    /\ PutEntry(e, [status |-> "edited", date |-> date, source |-> journal[e].source])
    /\ UNCHANGED keys

Remove(e) ==
    /\ Pending(e)
    /\ PutEntry(e, Removed)
    /\ UNCHANGED keys

Void(e) ==
    /\ Pending(e)
    /\ PutEntry(e, [journal[e] EXCEPT !.status = "voided"])
    /\ UNCHANGED keys

\* Posting under a key that is taken either answers again or is refused.
Replayed(e, k, h) == keys[k] = [entry |-> e, hash |-> h]

Postable(e, k) ==
    /\ Pending(e)
    /\ journal[e].date \in accepting
    /\ keys[k] = None

Post(e, k, h) ==
    /\ Postable(e, k)
    /\ PutEntry(e, [journal[e] EXCEPT !.status = "posted"])
    /\ keys' = [keys EXCEPT ![k] = [entry |-> e, hash |-> h]]

\* The unedited reversal e of o and the new status of o are one step.
Reversible(o, e, k) ==
    /\ journal[o].status = "posted"
    /\ journal[e].source = o
    /\ journal[e].status = "draft"
    /\ Postable(e, k)

Reverse(o, e, k, h) ==
    /\ Reversible(o, e, k)
    /\ journal' = [journal EXCEPT ![e].status = "posted", ![o].status = "reversed"]
    /\ keys' = [keys EXCEPT ![k] = [entry |-> e, hash |-> h]]

-----------------------------------------------------------------------------
(* Ordinary operations do not ask what an entry is for.  The services, whose *)
(* documents have entries, let staff take them at any time.                *)

\* A reversal is drafted with the entry it reverses as its source.
Mirror(o, e, date) == journal[o].status = "posted" /\ Draft(e, date, o)

\* Under keys that are not the ones of documents.
Handle(e, own, h) ==
    \/ Remove(e)
    \/ Void(e)
    \/ \E k \in own : Post(e, k, h) \/ \E o \in Entries : Reverse(o, e, k, h)

-----------------------------------------------------------------------------

Init ==
    /\ journal = [e \in Entries |-> NoEntry]
    /\ keys = [k \in Keys |-> None]
    /\ accepting \in SUBSET Dates

Drafting(e) ==
    \/ \E date \in Dates, source \in Sources \cup {None} : Draft(e, date, source)
    \/ \E date \in Dates : Edit(e, date)
    \/ Remove(e)
    \/ Void(e)

Posting(e) ==
    \E k \in Keys, h \in Hashes :
        \/ Post(e, k, h)
        \/ \E o \in Entries : Reverse(o, e, k, h)

\* Periods open, close and are locked, and so does the fiscal year.
Reschedule == accepting' \in SUBSET Dates /\ UNCHANGED journalVars

Next ==
    \/ \E e \in Entries : (Drafting(e) \/ Posting(e)) /\ UNCHANGED accepting
    \/ Reschedule

Spec == Init /\ [][Next]_<<journalVars, accepting>>

=============================================================================
