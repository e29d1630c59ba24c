------------------------------- MODULE Ledger -------------------------------
(***************************************************************************)
(* The journal of one parish: src/src/accounting/ledger/service.ts and     *)
(* workspace.ts over the tables of accounting-migrations/0002_core_ledger. *)
(*                                                                         *)
(* A request is one invocation of an operation by a Worker isolate.  Every *)
(* await in the code is a point where other requests run, so each database *)
(* round trip is one action, and what an earlier trip returned is kept in  *)
(* the request's record.  A db.batch is atomic: it is one action that      *)
(* happens entirely or, when a constraint in it fails, not at all.         *)
(***************************************************************************)
EXTENDS JournalLines

CONSTANTS
    Entries,     \* identifiers crypto.randomUUID hands out, each at most once
    Requests,    \* in-flight invocations
    Periods,     \* accounting periods; an entry date is the period it falls in
    Keys,        \* idempotency keys chosen by callers
    Hashes,      \* request hashes
    Accounts,
    LineSets,    \* the line sequences callers submit
    Operations,  \* the operations callers use in this instance
    MaxVersion,  \* bound on the version column of drafts and accounts
    None         \* a column or local variable that is NULL

ASSUME NoneAssumption ==
    /\ None \notin Entries \cup Periods \cup Keys \cup Hashes \cup Accounts
    /\ None \notin [entry : Entries, hash : Hashes]
ASSUME VersionAssumption == MaxVersion \in Nat \ {0}
ASSUME LineSetsAssumption ==
    \A lines \in LineSets : Draftable(lines) /\ Mirror(lines) \in LineSets

VARIABLES
    entries,      \* accounting_journal_entries with their accounting_journal_lines
    idempotency,  \* accounting_posting_idempotency, by idempotency_key
    reversals,    \* accounting_entry_links of relationship 'reversal', by source_id
    periods,      \* accounting_periods.status
    locks,        \* periods with an active row in accounting_period_locks
    fiscalYear,   \* accounting_fiscal_years.status of the year of the periods
    protective,   \* accounting_protective_state.state
    accounts,     \* accounting_accounts: is_active and version
    req           \* the requests' local variables

books == <<entries, idempotency, reversals>>
controls == <<periods, locks, fiscalYear, protective>>
vars == <<books, controls, accounts, req>>

-----------------------------------------------------------------------------
(* Rows and local variables.                                               *)

\* split_deposit:${draft.id} and its like: a key derived from an entry's id.
IdempotencyKeys == Keys \cup Entries

EntryStatus == {"absent", "draft", "posted", "reversed", "voided", "deleted"}
PeriodStatus == {"future", "open", "locked", "closed"}
YearStatus == {"open", "closed"}
ProtectiveStatus == {"normal", "posting_blocked"}

AbsentRow == [status  |-> "absent", version |-> 0, lines |-> <<>>, date |-> None,
              source  |-> None, period |-> None, debits |-> 0, credits |-> 0]

DraftRow(lines, date, source) ==
    [status |-> "draft", version |-> 1, lines |-> lines, date |-> date,
     source |-> source, period |-> None, debits |-> 0, credits |-> 0]

\* A row the database holds; "deleted" remembers that an id was used.
Exists(e) == entries[e].status \notin {"absent", "deleted"}
InBooks(e) == entries[e].status \in {"posted", "reversed"}

\* The value of expectedVersion when the caller leaves it undefined.
AnyVersion == 0

Idle == [pc |-> "idle", op |-> "none", entry |-> None, original |-> None,
         key |-> None, hash |-> None, expected |-> AnyVersion, version |-> 0,
         date |-> None, lines |-> <<>>, account |-> None]

IdempotencyRow == [entry : Entries, hash : Hashes]

\* Periods in the state ordinary posting needs, as the guard of the batch sees it.
Accepting(p) == periods[p] = "open" /\ fiscalYear = "open" /\ p \notin locks

Become(r, local) == req' = [req EXCEPT ![r] = local]
Goto(r, pc) == Become(r, [req[r] EXCEPT !.pc = pc])
Return(r) == Become(r, Idle)

SetRow(e, row) == entries' = [entries EXCEPT ![e] = row]

At(r, pc) == req[r].pc = pc

\* A source column identifies one row: idx_accounting_entry_source.
SourceFree(source) ==
    source = None \/ \A e \in Entries : Exists(e) => entries[e].source # source

-----------------------------------------------------------------------------
(* createJournalDraft, duplicateJournalDraft which calls it, and           *)
(* recordSplitDeposit and recordInKindGift which post what they created.   *)

\* The batch of createJournalDraft: entry, lines and event together.
InsertDraft(e, lines, date, source) ==
    /\ entries[e].status = "absent"
    /\ SourceFree(source)
    /\ SetRow(e, DraftRow(lines, date, source))

CreateDraft(r) ==
    /\ At(r, "idle") /\ "create" \in Operations
    /\ \E e \in Entries, lines \in LineSets, date \in Periods :
          InsertDraft(e, lines, date, None)
    /\ UNCHANGED <<idempotency, reversals, controls, accounts, req>>

RecordDeposit(r) ==
    /\ At(r, "idle") /\ "deposit" \in Operations
    /\ \E e \in Entries, date \in Periods, hash \in Hashes,
          lines \in {l \in LineSets : Balanced(l)} :
          /\ InsertDraft(e, lines, date, None)
          /\ Become(r, [Idle EXCEPT !.pc = "prior", !.op = "deposit", !.entry = e,
                                    !.key = e, !.hash = hash, !.expected = 1])
    /\ UNCHANGED <<idempotency, reversals, controls, accounts>>

-----------------------------------------------------------------------------
(* updateJournalDraft, deleteJournalDraft, voidJournalDraft.               *)

\* The first SELECT of an edit or a deletion refuses any row but a draft of the
\* version the caller expects.
ReadDraft(r, op) ==
    /\ At(r, "idle") /\ op \in Operations
    /\ \E e \in Entries :
          /\ entries[e].status = "draft"
          /\ op = "edit" => entries[e].version < MaxVersion
          /\ Become(r, [Idle EXCEPT !.pc = op, !.op = op, !.entry = e,
                                    !.expected = entries[e].version])
    /\ UNCHANGED <<books, controls, accounts>>

\* Mutants of the guard: one that no longer compares versions, and a batch
\* that neither the guard nor the immutability triggers protect.
DraftGuardUnversioned(e, expected) == entries[e].status = "draft"
DraftGuardMissing(e, expected) == TRUE

\* The CASE ... ELSE NULL guard that opens the batch of an edit or a deletion.
DraftGuard(e, expected) ==
    entries[e].status = "draft" /\ entries[e].version = expected

BatchEdit(r) ==
    /\ At(r, "edit")
    /\ LET e == req[r].entry IN
       \/ /\ DraftGuard(e, req[r].expected)
          /\ \E lines \in LineSets, date \in Periods :
                SetRow(e, [entries[e] EXCEPT !.lines = lines, !.date = date,
                                             !.version = @ + 1])
       \/ ~DraftGuard(e, req[r].expected) /\ UNCHANGED entries
    /\ Return(r)
    /\ UNCHANGED <<idempotency, reversals, controls, accounts>>

BatchDelete(r) ==
    /\ At(r, "delete")
    /\ LET e == req[r].entry IN
       \/ /\ DraftGuard(e, req[r].expected)
          /\ SetRow(e, [AbsentRow EXCEPT !.status = "deleted"])
       \/ ~DraftGuard(e, req[r].expected) /\ UNCHANGED entries
    /\ Return(r)
    /\ UNCHANGED <<idempotency, reversals, controls, accounts>>

VoidDraft(r) ==
    /\ At(r, "idle") /\ "void" \in Operations
    /\ \E e \in Entries :
          /\ entries[e].status = "draft"
          /\ SetRow(e, [entries[e] EXCEPT !.status = "voided", !.version = @ + 1])
    /\ UNCHANGED <<idempotency, reversals, controls, accounts, req>>

-----------------------------------------------------------------------------
(* postJournalEntry.                                                       *)

BeginPost(r) ==
    /\ At(r, "idle") /\ "post" \in Operations
    /\ \E e \in Entries, key \in Keys, hash \in Hashes,
          expected \in 0..MaxVersion :
          /\ entries[e].status # "absent"
          /\ expected <= entries[e].version
          /\ Become(r, [Idle EXCEPT !.pc = "prior", !.op = "post", !.entry = e,
                                    !.key = key, !.hash = hash, !.expected = expected])
    /\ UNCHANGED <<books, controls, accounts>>

\* Mutant: a key replays for whatever entry, if the hash is the same.
ReadPriorUnbound(r) ==
    /\ At(r, "prior")
    /\ LET prior == idempotency[req[r].key] IN
       \/ prior = None /\ Goto(r, "entry")
       \/ prior # None /\ prior.hash = req[r].hash /\ Goto(r, "answer")
       \/ prior # None /\ prior.hash # req[r].hash /\ Return(r)
    /\ UNCHANGED <<books, controls, accounts>>

\* The SELECT of the idempotency row: a replay answers, a conflict is refused.
ReadPrior(r) ==
    /\ At(r, "prior")
    /\ LET prior == idempotency[req[r].key] IN
       \/ prior = None /\ Goto(r, "entry")
       \/ prior = [entry |-> req[r].entry, hash |-> req[r].hash] /\ Goto(r, "answer")
       \/ prior \notin {None, [entry |-> req[r].entry, hash |-> req[r].hash]} /\ Return(r)
    /\ UNCHANGED <<books, controls, accounts>>

\* validateJournalEntryForPosting reads the entry, its lines, the period, its
\* lock and the protective state, one after the other.  A failed check is only
\* reported at the end; it is a refusal here as soon as it is certain.
Check(r, pc, ok, next) ==
    /\ At(r, pc)
    /\ \/ ok /\ Goto(r, next)
       \/ ~ok /\ Return(r)
    /\ UNCHANGED <<books, controls, accounts>>

ReadEntry(r) ==
    /\ At(r, "entry")
    /\ LET row == entries[req[r].entry] IN
       \/ /\ row.status = "draft"
          /\ req[r].expected \in {AnyVersion, row.version}
          /\ Become(r, [req[r] EXCEPT !.pc = "lines", !.version = row.version,
                                      !.date = row.date])
       \/ /\ row.status # "draft" \/ req[r].expected \notin {AnyVersion, row.version}
          /\ Return(r)
    /\ UNCHANGED <<books, controls, accounts>>

ActiveAccounts == {a \in Accounts : accounts[a].active}

ReadLines(r) ==
    /\ At(r, "lines")
    /\ LET lines == entries[req[r].entry].lines
           ok == Balanced(lines) /\ AccountsOf(lines) \subseteq ActiveAccounts IN
       \/ ok /\ Become(r, [req[r] EXCEPT !.pc = "period", !.lines = lines])
       \/ ~ok /\ Return(r)
    /\ UNCHANGED <<books, controls, accounts>>

ReadPeriod(r) ==
    Check(r, "period", periods[req[r].date] = "open" /\ fiscalYear = "open", "lock")

ReadLock(r) == Check(r, "lock", req[r].date \notin locks, "protective")

ReadProtective(r) == Check(r, "protective", protective = "normal", "batch")

\* Mutants of the batch's constraints, each without one of them.
PostGuardUnversioned(r) ==
    LET e == req[r].entry IN
    /\ entries[e].status = "draft"
    /\ Accepting(req[r].date)
    /\ idempotency[req[r].key] = None
    /\ req[r].op = "reverse" => reversals[req[r].original] = None

PostGuardUnguarded(r) == idempotency[req[r].key] = None

PostGuardWithoutKey(r) ==
    LET e == req[r].entry IN
    /\ entries[e].status = "draft" /\ entries[e].version = req[r].version
    /\ Accepting(req[r].date)
    /\ req[r].op = "reverse" => reversals[req[r].original] = None

PostGuardWithoutBarrier(r) ==
    LET e == req[r].entry IN
    /\ entries[e].status = "draft" /\ entries[e].version = req[r].version
    /\ idempotency[req[r].key] = None
    /\ req[r].op = "reverse" => reversals[req[r].original] = None

\* What aborts the batch: the version-and-period guard, the unique key, the
\* foreign key of a deleted entry and, for a reversal, the unique entry link.
PostGuard(r) ==
    LET e == req[r].entry IN
    /\ entries[e].status = "draft"
    /\ entries[e].version = req[r].version
    /\ Accepting(req[r].date)
    /\ idempotency[req[r].key] = None
    /\ req[r].op = "reverse" => reversals[req[r].original] = None

\* Mutant: the totals are left NULL.
PostedRowWithoutTotals(r) ==
    [entries[req[r].entry] EXCEPT !.status = "posted", !.version = @ + 1,
        !.period = req[r].date, !.debits = None, !.credits = None]

PostedRow(r) ==
    [entries[req[r].entry] EXCEPT !.status = "posted", !.version = @ + 1,
        !.period = req[r].date,
        !.debits = Debits(req[r].lines), !.credits = Credits(req[r].lines)]

\* The additional statements of a reversal mark the original and link it.
ReversedRow(original) ==
    IF entries[original].status = "posted"
    THEN [entries[original] EXCEPT !.status = "reversed"]
    ELSE entries[original]

BatchPost(r) ==
    /\ At(r, "batch")
    /\ LET e == req[r].entry
           o == req[r].original IN
       \/ /\ PostGuard(r)
          /\ \/ /\ req[r].op = "reverse"
                /\ entries' = [entries EXCEPT ![e] = PostedRow(r), ![o] = ReversedRow(o)]
                /\ reversals' = [reversals EXCEPT ![o] = e]
             \/ /\ req[r].op # "reverse"
                /\ SetRow(e, PostedRow(r))
                /\ UNCHANGED reversals
          /\ idempotency' = [idempotency EXCEPT
                               ![req[r].key] = [entry |-> e, hash |-> req[r].hash]]
          /\ Goto(r, "answer")
       \/ ~PostGuard(r) /\ Return(r) /\ UNCHANGED books
    /\ UNCHANGED <<controls, accounts>>

\* The last SELECT: the caller is told the entry as it now stands.
Answer(r) ==
    /\ At(r, "answer")
    /\ Return(r)
    /\ UNCHANGED <<books, controls, accounts>>

-----------------------------------------------------------------------------
(* reverseJournalEntry up to its call of postJournalEntry.                 *)

BeginReverse(r) ==
    /\ At(r, "idle") /\ "reverse" \in Operations
    /\ \E o \in Entries, date \in Periods, key \in Keys, hash \in Hashes :
          /\ entries[o].status = "posted"
          /\ Become(r, [Idle EXCEPT !.pc = "link", !.op = "reverse", !.original = o,
                                    !.date = date, !.key = key, !.hash = hash,
                                    !.expected = 1])
    /\ UNCHANGED <<books, controls, accounts>>

ReadLink(r) == Check(r, "link", reversals[req[r].original] = None, "original_lines")

ReadOriginalLines(r) ==
    /\ At(r, "original_lines")
    /\ Become(r, [req[r] EXCEPT !.pc = "unfinished",
                                !.lines = entries[req[r].original].lines])
    /\ UNCHANGED <<books, controls, accounts>>

\* An unfinished reversal draft is taken up again, if its date is the same.
Unfinished(original) ==
    {e \in Entries : entries[e].status = "draft" /\ entries[e].source = original}

ReadUnfinished(r) ==
    /\ At(r, "unfinished")
    /\ LET o == req[r].original IN
       \/ Unfinished(o) = {} /\ Goto(r, "insert_reversal")
       \/ \E e \in Unfinished(o) :
             \/ /\ entries[e].date = req[r].date
                /\ Become(r, [req[r] EXCEPT !.pc = "prior", !.entry = e])
             \/ entries[e].date # req[r].date /\ Return(r)
    /\ UNCHANGED <<books, controls, accounts>>

InsertReversal(r) ==
    /\ At(r, "insert_reversal")
    /\ \/ \E e \in Entries :
             /\ InsertDraft(e, Mirror(req[r].lines), req[r].date, req[r].original)
             /\ Become(r, [req[r] EXCEPT !.pc = "prior", !.entry = e])
       \/ ~SourceFree(req[r].original) /\ Return(r) /\ UNCHANGED entries
    /\ UNCHANGED <<idempotency, reversals, controls, accounts>>

-----------------------------------------------------------------------------
(* archiveAccount and unarchiveAccount of setup/service.ts.                *)

ReadAccount(r) ==
    /\ At(r, "idle") /\ "archive" \in Operations
    /\ \E a \in Accounts :
          /\ accounts[a].active /\ accounts[a].version < MaxVersion
          /\ Become(r, [Idle EXCEPT !.pc = "activity", !.op = "archive", !.account = a,
                                    !.version = accounts[a].version])
    /\ UNCHANGED <<books, controls, accounts>>

\* Posted activity of the account in a period that is still open.
OpenActivity(a) ==
    \E e \in Entries : /\ entries[e].status = "posted"
                       /\ a \in AccountsOf(entries[e].lines)
                       /\ periods[entries[e].period] = "open"

\* Vendors and open bills, which are not modelled, may name the account as well.
ReadActivity(r) ==
    \E named \in BOOLEAN :
        Check(r, "activity", ~named /\ ~OpenActivity(req[r].account), "archive")

WriteArchive(r) ==
    /\ At(r, "archive")
    /\ LET a == req[r].account IN
       \/ /\ accounts[a].version = req[r].version
          /\ accounts' = [accounts EXCEPT ![a] = [active |-> FALSE, version |-> @.version + 1]]
       \/ accounts[a].version # req[r].version /\ UNCHANGED accounts
    /\ Return(r)
    /\ UNCHANGED <<books, controls>>

Unarchive(a) ==
    /\ "archive" \in Operations
    /\ ~accounts[a].active
    /\ accounts' = [accounts EXCEPT ![a] = [active |-> TRUE, version |-> @.version + 1]]
    /\ UNCHANGED <<books, controls, req>>

-----------------------------------------------------------------------------
(* What the rest of the system does to the posting controls: the close     *)
(* services, openAccountingPeriod and the integrity scanner.  The journal  *)
(* must be right whatever they do, so their writes may come at any time.   *)

SetPeriod(p) ==
    /\ "period" \in Operations
    /\ \E status \in PeriodStatus : periods' = [periods EXCEPT ![p] = status]
    /\ UNCHANGED <<books, locks, fiscalYear, protective, accounts, req>>

SetLock(p) ==
    /\ "period" \in Operations
    /\ locks' \in {locks \cup {p}, locks \ {p}}
    /\ UNCHANGED <<books, periods, fiscalYear, protective, accounts, req>>

SetFiscalYear ==
    /\ "year" \in Operations
    /\ fiscalYear' \in YearStatus
    /\ UNCHANGED <<books, periods, locks, protective, accounts, req>>

SetProtective ==
    /\ "protect" \in Operations
    /\ protective' \in ProtectiveStatus
    /\ UNCHANGED <<books, periods, locks, fiscalYear, accounts, req>>

\* A Worker isolate may be evicted, or its client disconnect, at any await.
Crash(r) ==
    /\ ~At(r, "idle") /\ "crash" \in Operations
    /\ Return(r)
    /\ UNCHANGED <<books, controls, accounts>>

-----------------------------------------------------------------------------

Init ==
    /\ entries = [e \in Entries |-> AbsentRow]
    /\ idempotency = [k \in IdempotencyKeys |-> None]
    /\ reversals = [e \in Entries |-> None]
    /\ periods \in [Periods -> {"open", "future"}]
    /\ locks = {}
    /\ fiscalYear = "open"
    /\ protective = "normal"
    /\ accounts = [a \in Accounts |-> [active |-> TRUE, version |-> 1]]
    /\ req = [r \in Requests |-> Idle]

Drafting(r) ==
    \/ CreateDraft(r) \/ RecordDeposit(r) \/ VoidDraft(r)
    \/ ReadDraft(r, "edit") \/ BatchEdit(r)
    \/ ReadDraft(r, "delete") \/ BatchDelete(r)

Posting(r) ==
    \/ BeginPost(r) \/ ReadPrior(r) \/ ReadEntry(r) \/ ReadLines(r) \/ ReadPeriod(r)
    \/ ReadLock(r) \/ ReadProtective(r) \/ BatchPost(r) \/ Answer(r)

Reversing(r) ==
    \/ BeginReverse(r) \/ ReadLink(r) \/ ReadOriginalLines(r)
    \/ ReadUnfinished(r) \/ InsertReversal(r)

Archiving(r) == ReadAccount(r) \/ ReadActivity(r) \/ WriteArchive(r)

Environment ==
    \/ \E p \in Periods : SetPeriod(p) \/ SetLock(p)
    \/ \E a \in Accounts : Unarchive(a)
    \/ SetFiscalYear \/ SetProtective
    \/ \E r \in Requests : Crash(r)

Next ==
    \/ \E r \in Requests : Drafting(r) \/ Posting(r) \/ Reversing(r) \/ Archiving(r)
    \/ Environment

Spec == Init /\ [][Next]_vars

=============================================================================
