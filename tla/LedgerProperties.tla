-------------------------- MODULE LedgerProperties --------------------------
(* What the journal of Ledger.tla promises.                                *)
EXTENDS Ledger

EntryOrNone == Entries \cup {None}

\* What the lines column holds, and the totals posting computes from it.
Lines == LineSets \cup {<<>>}
Totals == {0} \cup {Debits(lines) : lines \in Lines} \cup {Credits(lines) : lines \in Lines}

RowType == [status : EntryStatus, version : Nat, lines : Lines,
            date   : Periods \cup {None}, source : EntryOrNone,
            period : Periods \cup {None}, debits : Totals, credits : Totals]

PostingPC == {"prior", "entry", "lines", "period", "lock", "protective", "batch", "answer"}
CheckedPC == {"lines", "period", "lock", "protective", "batch"}
ReversingPC == {"link", "original_lines", "unfinished", "insert_reversal"}
PC == PostingPC \cup ReversingPC \cup {"idle", "edit", "delete", "activity", "archive"}

RequestType ==
    [pc : PC, op : {"none", "edit", "delete", "post", "deposit", "reverse", "archive"},
     entry : EntryOrNone, original : EntryOrNone,
     key : IdempotencyKeys \cup {None}, hash : Hashes \cup {None},
     expected : Nat, version : Nat, date : Periods \cup {None},
     lines : Lines, account : Accounts \cup {None}]

TablesTyped ==
    /\ entries \in [Entries -> RowType]
    /\ idempotency \in [IdempotencyKeys -> IdempotencyRow \cup {None}]
    /\ reversals \in [Entries -> EntryOrNone]
    /\ periods \in [Periods -> PeriodStatus]
    /\ locks \subseteq Periods
    /\ fiscalYear \in YearStatus
    /\ protective \in ProtectiveStatus
    /\ accounts \in [Accounts -> [active : BOOLEAN, version : Nat]]
    /\ req \in [Requests -> RequestType]

\* A row that exists has lines and a date.
RowComplete(e) == Exists(e) => entries[e].lines \in LineSets /\ entries[e].date \in Periods

\* A request that is past a step holds what that step was given or has read.
LocalsComplete(r) ==
    /\ req[r].pc \in PostingPC \cup {"edit", "delete"} => req[r].entry \in Entries
    /\ req[r].pc \in PostingPC \cup ReversingPC =>
          req[r].key \in IdempotencyKeys /\ req[r].hash \in Hashes
    /\ req[r].pc \in ReversingPC \cup CheckedPC => req[r].date \in Periods
    /\ req[r].pc \in {"unfinished", "insert_reversal"} => req[r].lines \in LineSets
    /\ req[r].pc \in ReversingPC => req[r].op = "reverse"
    /\ req[r].op = "reverse" => req[r].original \in Entries /\ InBooks(req[r].original)
    /\ req[r].pc = "idle" => req[r].op = "none"
    /\ req[r].pc \in {"activity", "archive"} => req[r].account \in Accounts

\* Every column and local variable has a value of its type and is set when it is used.
TypeOK ==
    /\ TablesTyped
    /\ \A e \in Entries : RowComplete(e)
    /\ \A r \in Requests : LocalsComplete(r)

-----------------------------------------------------------------------------
(* Safety.                                                                 *)

\* The totals and the period of an entry in the books were computed from rows
\* read before the batch that posted it; they agree with the rows the books hold.
BooksBalance ==
    \A e \in Entries : InBooks(e) =>
        /\ Balanced(entries[e].lines)
        /\ entries[e].debits = Debits(entries[e].lines)
        /\ entries[e].credits = Credits(entries[e].lines)
        /\ entries[e].period = entries[e].date

\* reverseJournalEntry: an entry is reversed exactly when one entry of the books
\* is linked to it, and the two cancel line by line, although the reversal draft
\* could be edited, voided, deleted or taken up by another request meanwhile.
ReversalsMirror ==
    \A o \in Entries :
        /\ entries[o].status = "reversed" <=> reversals[o] # None
        /\ reversals[o] # None =>
              /\ InBooks(reversals[o])
              /\ entries[reversals[o]].source = o
              /\ entries[reversals[o]].lines = Mirror(entries[o].lines)

\* postJournalEntry: an entry of the books was posted under exactly one
\* idempotency key, and a key names an entry only once its posting has happened.
PostedUnderOneKey ==
    /\ \A k \in IdempotencyKeys : idempotency[k] # None => InBooks(idempotency[k].entry)
    /\ \A e \in Entries : InBooks(e) =>
          \E k \in IdempotencyKeys :
             /\ idempotency[k] # None /\ idempotency[k].entry = e
             /\ \A other \in IdempotencyKeys \ {k} :
                   idempotency[other] # None => idempotency[other].entry # e

\* postJournalEntry: whoever is answered, by the posting or as a replay of one,
\* is answered with an entry that is in the books.
AnsweredIsPosted ==
    \A r \in Requests : At(r, "answer") => InBooks(req[r].entry)

-----------------------------------------------------------------------------
(* The inductive invariant: why optimistic concurrency makes the batch safe. *)

\* A reversal draft that nobody has edited mirrors its original, which is and
\* stays in the books.
RowSound(e) ==
    /\ Exists(e) => entries[e].version >= 1
    /\ Exists(e) /\ entries[e].source # None => InBooks(entries[e].source)
    /\ entries[e].status = "draft" /\ entries[e].version = 1 /\ entries[e].source # None =>
          entries[e].lines = Mirror(entries[entries[e].source].lines)

\* The row a request has read is the row as it stands: unless the version has
\* moved on, in which case the batch aborts.
SameVersion(r) ==
    /\ entries[req[r].entry].status = "draft"
    /\ entries[req[r].entry].version = req[r].version

LocalsSound(r) ==
    /\ req[r].pc \in PostingPC => entries[req[r].entry].status # "absent"
    /\ req[r].pc \in CheckedPC =>
          /\ entries[req[r].entry].status = "draft" =>
                req[r].version <= entries[req[r].entry].version
          /\ SameVersion(r) => req[r].date = entries[req[r].entry].date
    /\ req[r].pc \in CheckedPC \ {"lines"} =>
          /\ Balanced(req[r].lines)
          /\ SameVersion(r) => req[r].lines = entries[req[r].entry].lines
    /\ req[r].op = "reverse" => req[r].expected = 1
    /\ req[r].op = "reverse" /\ req[r].pc \in PostingPC /\ Exists(req[r].entry) =>
          entries[req[r].entry].source = req[r].original
    /\ req[r].op = "reverse" /\ req[r].pc \in CheckedPC => req[r].version = 1
    /\ req[r].pc \in {"unfinished", "insert_reversal"} =>
          req[r].lines = entries[req[r].original].lines
    /\ req[r].pc = "answer" => InBooks(req[r].entry)

IInv ==
    /\ TypeOK
    /\ \A e \in Entries : RowSound(e)
    /\ \A r \in Requests : LocalsSound(r)
    /\ BooksBalance
    /\ ReversalsMirror
    /\ PostedUnderOneKey

-----------------------------------------------------------------------------
(* Action properties.                                                      *)

\* The immutability triggers and every handler together: what has entered the
\* books keeps its lines, date, source, totals and period, leaves the books
\* never, and once reversed stays reversed.
BooksAreAppendOnly ==
    [][\A e \in Entries : InBooks(e) =>
          /\ InBooks(e)'
          /\ entries[e].status = "reversed" => entries'[e].status = "reversed"
          /\ \A column \in {"lines", "date", "source", "debits", "credits", "period"} :
                entries'[e][column] = entries[e][column]]_vars

\* The barriers rechecked inside the posting batch: an entry enters the books
\* only while its period is open and unlocked in an open fiscal year.
PostsIntoAcceptingPeriod ==
    [][\A e \in Entries : ~InBooks(e) /\ InBooks(e)' => Accepting(entries'[e].period)]_vars

\* Of two edits that started from one version of a draft only one is kept: the
\* lines change together with a version no earlier lines had.
NoLostEdit ==
    [][\A e \in Entries :
          Exists(e) /\ Exists(e)' /\ entries'[e].lines # entries[e].lines =>
             /\ entries'[e].version > entries[e].version
             /\ \A r \in Requests :
                   At(r, "edit") /\ req[r].entry = e /\ req[r] # req'[r] =>
                      req[r].expected = entries[e].version]_vars

=============================================================================
