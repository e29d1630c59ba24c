------------------------------- MODULE YearEnd -------------------------------
(***************************************************************************)
(* Closing a fiscal year and reopening it: executeYearEndClose and         *)
(* reopenYearEndClose of src/src/accounting/close/year-end.ts, over the    *)
(* journal and with the months and the ordinary postings beside them.      *)
(*                                                                         *)
(* Neither function is a transaction: each await that decides or changes   *)
(* something is a step of its own, the closing entry, the row of the       *)
(* close, the year, its periods and the session are written one after the  *)
(* other, and a request may be evicted anywhere in between.                *)
(***************************************************************************)
EXTENDS Books, FiniteSets, Sums

CONSTANTS
    Closes,       \* ids of accounting_fiscal_year_closes
    Requests,
    YearDates,    \* the dates of the fiscal year, one for each of its periods
    ClosingDate,  \* end_date of the year
    Closing,      \* the year as the source of its closing entry, and its key
    ReopenKey,    \* year-end:<id>:reopen
    Effects,      \* what an ordinary entry may add to the revenue of the year
    MaxMishaps    \* bound on evictions and on what staff do with drafts, together

ASSUME YearEndAssumption ==
    /\ YearDates \subseteq Dates /\ ClosingDate \in YearDates
    /\ Closing \in Sources \cap Keys
    /\ ReopenKey \in Keys \ {Closing}
    /\ Entries \subseteq Sources \cap Keys
    /\ IsFiniteSet(Entries) /\ Effects \subseteq Int
    /\ Hashes # {} /\ MaxMishaps \in Nat

VARIABLES
    amount,   \* per entry: its effect on the revenue and expense accounts
    periods,  \* accounting_periods.status, by date
    locks,    \* the dates with an active row in accounting_period_locks
    year,     \* accounting_fiscal_years.status
    closes,   \* accounting_fiscal_year_closes
    session,  \* status of the close session of type year_end
    request,  \* the requests' local variables
    mishaps

calendar == <<periods, locks, year>>
tables == <<amount, calendar, closes, session>>
vars == <<journalVars, accepting, tables, request, mishaps>>

-----------------------------------------------------------------------------

PeriodStatus == {"open", "closed", "locked"}
CloseStatus == {"absent", "completed", "failed", "reopened"}

NoClose == [status |-> "absent", entry |-> None, post |-> {}]
Idle == [pc |-> "idle", entry |-> None, close |-> None, seen |-> {}]

At(r, pc) == request[r].pc = pc
Become(r, local) == request' = [request EXCEPT ![r] = local]
Goto(r, pc) == Become(r, [request[r] EXCEPT !.pc = pc])
Return(r) == Become(r, Idle)

\* Mutant: the year of the period is not looked at.
PeriodAccepts == {d \in Dates : periods[d] = "open" /\ d \notin locks}

\* The dates that take ordinary postings; the year after this one is open.
Open == {d \in Dates : periods[d] = "open" /\ d \notin locks /\ (d \in YearDates => year = "open")}

\* Revenue less expense of the year, as previews and trial balances read it.  What an
\* entry of the books adds never changes, so that a request may keep the entries
\* it has seen for the totals it has read.
InYear == {e \in Entries : Posted(e) /\ journal[e].date \in YearDates}
Total(entries) == SumOver(amount, entries)
Balance == Total(InYear)

Completed == {c \in Closes : closes[c].status = "completed"}

RequestHash == CHOOSE h \in Hashes : TRUE

-----------------------------------------------------------------------------
(* executeYearEndClose.                                                    *)

\* A close that is completed is answered with, whatever has become of the year.
BeginExecute(r) ==
    /\ At(r, "idle") /\ Completed = {}
    /\ Goto(r, "activity")
    /\ UNCHANGED <<journalVars, tables>>

ReadActivity(r) ==
    /\ At(r, "activity")
    /\ Become(r, [request[r] EXCEPT !.pc = "months", !.seen = InYear])
    /\ UNCHANGED <<journalVars, tables>>

\* One blocker is enough to refuse.
Unless(blocked, r, next) ==
    /\ IF blocked THEN Return(r) ELSE Goto(r, next)
    /\ UNCHANGED <<journalVars, tables>>

ReadMonths(r) ==
    /\ At(r, "months")
    /\ Unless(\E d \in YearDates \ {ClosingDate} : periods[d] = "open", r, "closing_period")

ReadClosingPeriod(r) ==
    /\ At(r, "closing_period")
    /\ Unless(periods[ClosingDate] # "open", r, "prior")

\* Without activity there is nothing to post.
ReadPrior(r) ==
    /\ At(r, "prior")
    /\ Unless(Completed # {}, r, IF Total(request[r].seen) = 0 THEN "check" ELSE "draft")

\* One closing entry per year, as long as it is stored.
DraftClosing(r) ==
    /\ At(r, "draft")
    /\ LET e == FreshId
       IN  IF IdsLeft /\ SourceFree(Closing)
           THEN /\ Draft(e, ClosingDate, Closing)
                /\ amount' = [amount EXCEPT ![e] = -Total(request[r].seen)]
                /\ Become(r, [request[r] EXCEPT !.pc = "post", !.entry = e])
           ELSE Return(r) /\ UNCHANGED <<journalVars, amount>>
    /\ UNCHANGED <<calendar, closes, session>>

PostClosing(r) ==
    /\ At(r, "post")
    /\ LET e == request[r].entry
       IN  IF Postable(e, Closing) /\ journal[e].status = "draft"
           THEN Post(e, Closing, RequestHash) /\ Goto(r, "check")
           ELSE Return(r) /\ UNCHANGED journalVars
    /\ UNCHANGED tables

CheckBalance(r) ==
    /\ At(r, "check")
    /\ Become(r, [request[r] EXCEPT !.pc = "insert", !.seen = InYear])
    /\ UNCHANGED <<journalVars, tables>>

\* Mutant: only the difference of debits and credits is looked at.
LedgerBalances(r) == TRUE

Passed(r) == Total(request[r].seen) = 0

\* Mutant: the table without its unique index.
NotUnique == TRUE

\* idx_year_close_active, which failed and reopened closes are not in.
IndexFree == Completed = {}

\* A close that failed stays and throws.
InsertClose(r) ==
    /\ At(r, "insert")
    /\ LET stored == Passed(r) => IndexFree
           status == IF Passed(r) THEN "completed" ELSE "failed"
       IN  /\ \E c \in Closes :
                 /\ closes[c].status = "absent"
                 /\ closes' = IF stored
                              THEN [closes EXCEPT ![c] = [status |-> status,
                                                          entry  |-> request[r].entry,
                                                          post   |-> request[r].seen]]
                              ELSE closes
           /\ IF Passed(r) /\ stored THEN Goto(r, "close_year") ELSE Return(r)
    /\ UNCHANGED <<journalVars, amount, calendar, session>>

CloseYear(r) ==
    /\ At(r, "close_year")
    /\ year' = "closed"
    /\ Goto(r, "lock")
    /\ UNCHANGED <<journalVars, amount, periods, locks, closes, session>>

LockPeriods(r) ==
    /\ At(r, "lock")
    /\ periods' = [d \in Dates |-> IF d \in YearDates THEN "locked" ELSE periods[d]]
    /\ Goto(r, "complete")
    /\ UNCHANGED <<journalVars, amount, locks, year, closes, session>>

CompleteSession(r) ==
    /\ At(r, "complete")
    /\ session' = "completed"
    /\ Return(r)
    /\ UNCHANGED <<journalVars, amount, calendar, closes>>

-----------------------------------------------------------------------------
(* reopenYearEndClose.                                                     *)

BeginReopen(r) ==
    /\ At(r, "idle")
    /\ \E c \in Completed :
          Become(r, [Idle EXCEPT !.pc = "later", !.close = c, !.entry = closes[c].entry])
    /\ UNCHANGED <<journalVars, tables>>

ReadLater(r) ==
    /\ At(r, "later")
    /\ IF \E e \in Entries : Posted(e) /\ journal[e].date \notin YearDates
       THEN Return(r)
       ELSE Goto(r, "unlock")
    /\ UNCHANGED <<journalVars, tables>>

Unlock(r) ==
    /\ At(r, "unlock")
    /\ locks' = locks \ YearDates
    /\ Goto(r, "open_periods")
    /\ UNCHANGED <<journalVars, amount, periods, year, closes, session>>

OpenPeriods(r) ==
    /\ At(r, "open_periods")
    /\ periods' = [d \in Dates |-> IF d = ClosingDate THEN "open"
                                   ELSE IF d \in YearDates THEN "closed" ELSE periods[d]]
    /\ Goto(r, "open_year")
    /\ UNCHANGED <<journalVars, amount, locks, year, closes, session>>

\* Mutant: the year without a closing entry is not told apart.
ReversedRegardless(r) == "reverse"

AfterOpening(r) == IF request[r].entry = None THEN "reopened" ELSE "reverse"

OpenYear(r) ==
    /\ At(r, "open_year")
    /\ year' = "open"
    /\ Goto(r, AfterOpening(r))
    /\ UNCHANGED <<journalVars, amount, periods, locks, closes, session>>

\* A link of a reversal is stored when the status of what it reverses is changed, so
\* that both reads ask the same of it, one after the other.
ReadOriginal(r, pc, next) ==
    /\ At(r, pc)
    /\ Unless(journal[request[r].entry].status # "posted", r, next)

\* The reversal draft of an earlier attempt or of staff is taken up.
FindReversal(r) ==
    /\ At(r, "find_reversal")
    /\ LET found == DraftsOf(request[r].entry)
       IN  \/ \E e \in found :
                 IF journal[e].date = ClosingDate
                 THEN Become(r, [request[r] EXCEPT !.pc = "post_reversal", !.entry = e])
                 ELSE Return(r)
           \/ found = {} /\ Goto(r, "create_reversal")
    /\ UNCHANGED <<journalVars, tables>>

\* One that was posted or voided still holds the source.
CreateReversal(r) ==
    /\ At(r, "create_reversal")
    /\ LET o == request[r].entry
           e == FreshId
       IN  IF IdsLeft /\ SourceFree(o)
           THEN /\ Draft(e, ClosingDate, o)
                /\ amount' = [amount EXCEPT ![e] = -amount[o]]
                /\ Become(r, [request[r] EXCEPT !.pc = "post_reversal", !.entry = e])
           ELSE Return(r) /\ UNCHANGED <<journalVars, amount>>
    /\ UNCHANGED <<calendar, closes, session>>

\* Mutant: the exception of a refused reversal is swallowed.
RefusalUnnoticed(r) == Goto(r, "reopened") /\ UNCHANGED journalVars

ReversalRefused(r) == Return(r) /\ UNCHANGED journalVars

PostReversal(r) ==
    /\ At(r, "post_reversal")
    /\ LET o == closes[request[r].close].entry
           e == request[r].entry
       IN  IF Reversible(o, e, ReopenKey)
           THEN Reverse(o, e, ReopenKey, RequestHash) /\ Goto(r, "reopened")
           ELSE ReversalRefused(r)
    /\ UNCHANGED tables

\* WHERE version=?: the row counts its version up when it is reopened and only then.
MarkReopened(r) ==
    /\ At(r, "reopened")
    /\ LET c == request[r].close
       IN  closes' = [closes EXCEPT ![c].status = "reopened"]
    /\ Goto(r, "reopen_session")
    /\ UNCHANGED <<journalVars, amount, calendar, session>>

ReopenSession(r) ==
    /\ At(r, "reopen_session")
    /\ session' = "reopened"
    /\ Return(r)
    /\ UNCHANGED <<journalVars, amount, calendar, closes>>

-----------------------------------------------------------------------------
(* Ordinary operations, month-end closes and evictions.                    *)

\* Ordinary requests draft, post and reverse entries, that of the year and its reversal
\* included, under keys of their own.
DraftOrdinary ==
    /\ IdsLeft
    /\ \E d \in Dates, x \in Effects :
          /\ Draft(FreshId, d, None)
          /\ amount' = [amount EXCEPT ![FreshId] = x]

DraftMirror ==
    /\ IdsLeft
    /\ \E o \in Entries, d \in Dates :
          /\ Mirror(o, FreshId, d)
          /\ amount' = [amount EXCEPT ![FreshId] = -amount[o]]

PostOrdinary ==
    /\ \E e \in Entries :
          \/ Post(e, e, RequestHash)
          \/ \E o \in Entries : Reverse(o, e, e, RequestHash)
    /\ UNCHANGED amount

\* Each is one step of an idle request.
Ordinary(r) ==
    /\ At(r, "idle")
    /\ DraftOrdinary \/ DraftMirror \/ PostOrdinary
    /\ UNCHANGED <<calendar, closes, session, request>>

\* completeCloseSession and reopenCloseSession of a month, each taken as one step:
\* PeriodClose has their writes apart.
CloseMonth ==
    \E d \in Dates :
        /\ periods' = [periods EXCEPT ![d] = "locked"]
        /\ locks' = locks \cup {d}
        /\ UNCHANGED <<journalVars, amount, year, closes, session, request, mishaps>>

ReopenMonth ==
    \E d \in locks :
        /\ periods' = [periods EXCEPT ![d] = "open"]
        /\ locks' = locks \ {d}
        /\ UNCHANGED <<journalVars, amount, year, closes, session, request, mishaps>>

\* Staff change, delete and void the drafts they find at any time.
StaffEdit(e) ==
    \E d \in Dates, x \in Effects \cup {amount[e]} :
        Edit(e, d) /\ amount' = [amount EXCEPT ![e] = x]

StaffCancel(e) == (Remove(e) \/ Void(e)) /\ UNCHANGED amount

Staff ==
    /\ mishaps < MaxMishaps /\ mishaps' = mishaps + 1
    /\ \E e \in Entries : StaffEdit(e) \/ StaffCancel(e)
    /\ UNCHANGED <<calendar, closes, session, request>>

Evict(r) ==
    /\ ~At(r, "idle") /\ mishaps < MaxMishaps
    /\ mishaps' = mishaps + 1
    /\ Return(r)
    /\ UNCHANGED <<journalVars, tables>>

-----------------------------------------------------------------------------
(* Specification.                                                          *)

Execute(r) ==
    \/ BeginExecute(r) \/ ReadActivity(r)
    \/ ReadMonths(r) \/ ReadClosingPeriod(r) \/ ReadPrior(r)
    \/ DraftClosing(r) \/ PostClosing(r) \/ CheckBalance(r) \/ InsertClose(r)
    \/ CloseYear(r) \/ LockPeriods(r) \/ CompleteSession(r)

Reopen(r) ==
    \/ BeginReopen(r) \/ ReadLater(r) \/ Unlock(r) \/ OpenPeriods(r) \/ OpenYear(r)
    \/ ReadOriginal(r, "reverse", "read_link") \/ ReadOriginal(r, "read_link", "find_reversal")
    \/ FindReversal(r) \/ CreateReversal(r) \/ PostReversal(r)
    \/ MarkReopened(r) \/ ReopenSession(r)

YearEndInit ==
    /\ journal = [e \in Entries |-> NoEntry]
    /\ keys = [k \in Keys |-> None]
    /\ amount = [e \in Entries |-> 0]
    /\ periods = [d \in Dates |-> "open"]
    /\ locks = {}
    /\ year = "open"
    /\ accepting = Open
    /\ closes = [c \in Closes |-> NoClose]
    /\ session = "in_progress"
    /\ request = [r \in Requests |-> Idle]
    /\ mishaps = 0

YearEndNext ==
    /\ \/ \E r \in Requests :
             \/ (Execute(r) \/ Reopen(r) \/ Ordinary(r)) /\ UNCHANGED mishaps
             \/ Evict(r)
       \/ CloseMonth \/ ReopenMonth \/ Staff
    /\ accepting' = Open'

YearEndSpec == YearEndInit /\ [][YearEndNext]_vars

=============================================================================
