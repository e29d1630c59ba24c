------------------------------ MODULE Recurring ------------------------------
(***************************************************************************)
(* Schedules that fall due: processDueRecurringTransactions of src/src/    *)
(* accounting/recurring/service.ts posts an expense for every due date of  *)
(* a schedule, processDueRecurringBills of payables/recurring-bills.ts     *)
(* enters a bill.  The two loops are one text with the names changed; they *)
(* differ in what they make, which is why one module models both.          *)
(*                                                                         *)
(* A run is an invocation by the scheduler.  Runs overlap when one is slow *)
(* or delivered twice, and any of them may be evicted at an await.         *)
(***************************************************************************)
EXTENDS Books, FiniteSets

CONSTANTS
    Schedules,
    Horizon,     \* bound on the calendar; dates are 1..Horizon, one due date apart
    EndDate,     \* end_date of every schedule, Horizon + 1 when it has none
    Runs,
    MaxMishaps   \* bound on evictions, changes by users and what staff do, together

DueDates == 1..Horizon

\* ${schedule.id}:${scheduledDate}, in the source as in the idempotency key.
Occurrence(s, date) == <<s, date>>
Occurrences == {Occurrence(s, date) : s \in Schedules, date \in DueDates}

ASSUME ScheduleAssumption ==
    /\ Horizon \in Nat \ {0} /\ MaxMishaps \in Nat
    /\ EndDate \in [Schedules -> 1..(Horizon + 1)]
    /\ Dates = DueDates
    /\ Occurrences \subseteq (Sources \cap Keys) \ {None}
    /\ Entries \subseteq Sources
    /\ Hashes # {}

VARIABLES
    kind,        \* which table a schedule is in, and so what is made of it
    schedules,   \* status, next date and version of each schedule
    executions,  \* accounting_recurring_(bill_)executions by schedule and date
    made,        \* bills entered for a date: none, one, or 2 for several
    today,
    run,         \* the runs' local variables
    mishaps

tables == <<schedules, executions, made>>
vars == <<journalVars, accepting, kind, tables, today, run, mishaps>>

-----------------------------------------------------------------------------

ScheduleStatus == {"active", "paused", "completed"}

\* accounting_recurring_transactions and accounting_recurring_bill_schedules.
Kinds == {"expense", "bill"}

\* A "done" execution is called posted for expenses and created for bills.
ExecutionStatus == {"none", "done", "failed"}

Idle == [pc |-> "idle", due |-> [s \in Schedules |-> 0], schedule |-> None,
         prior |-> "none", entry |-> None, version |-> 0, status |-> None, next |-> 0]

At(r, pc) == run[r].pc = pc
Become(r, local) == run' = [run EXCEPT ![r] = local]
Goto(r, pc) == Become(r, [run[r] EXCEPT !.pc = pc])
Return(r) == Become(r, Idle)

Scheduled(r) == run[r].due[run[r].schedule]
SetSchedule(s, row) == schedules' = [schedules EXCEPT ![s] = row]
SetExecution(s, date, status) == executions' = [executions EXCEPT ![s][date] = status]

RequestHash == CHOOSE h \in Hashes : TRUE

-----------------------------------------------------------------------------
(* One run: the schedules that are due, as they were read at its start.    *)

Due(s) == schedules[s].status = "active" /\ schedules[s].next <= today

Begin(r, of) ==
    /\ At(r, "idle")
    /\ \E s \in Schedules : kind[s] = of /\ Due(s)
    /\ Become(r, [Idle EXCEPT !.pc = "next",
                              !.due = [s \in Schedules |-> IF kind[s] = of /\ Due(s)
                                                           THEN schedules[s].next ELSE 0]])
    /\ UNCHANGED <<journalVars, tables>>

\* The rest of the loop: what is left of the rows read at the start.
Left(r) == [run[r].due EXCEPT ![run[r].schedule] = 0]
Proceed(r) ==
    IF \A s \in Schedules : Left(r)[s] = 0
    THEN Return(r)
    ELSE Become(r, [Idle EXCEPT !.pc = "next", !.due = Left(r)])

\* Rows are in the order of their dates.
ReadPrior(r) ==
    /\ At(r, "next")
    /\ \E s \in Schedules :
          LET due == run[r].due
              prior == executions[s][due[s]]
          IN  /\ due[s] > 0
              /\ \A t \in Schedules : due[t] > 0 => due[s] <= due[t]
              /\ Become(r, [run[r] EXCEPT !.schedule = s, !.prior = prior,
                                          !.pc = IF prior = "done" THEN "advance" ELSE "make"])
    /\ UNCHANGED <<journalVars, tables>>

Ended(s, next) == next > EndDate[s]

\* The execution is there, the schedule was not moved on: the version stays.
AdvancePast(r) ==
    /\ At(r, "advance")
    /\ LET s == run[r].schedule
           next == Scheduled(r) + 1
       IN  SetSchedule(s, [schedules[s] EXCEPT
               !.next = next,
               !.status = IF Ended(s, next) THEN "completed" ELSE @])
    /\ Proceed(r)
    /\ UNCHANGED <<journalVars, executions, made>>

\* createJournalDraft, refused when the date has an entry of any status already
\* or when an account of the schedule is gone.
DraftExpense(r) ==
    /\ At(r, "make") /\ kind[run[r].schedule] = "expense"
    /\ \/ /\ IdsLeft
          /\ Draft(FreshId, Scheduled(r), Occurrence(run[r].schedule, Scheduled(r)))
          /\ Become(r, [run[r] EXCEPT !.pc = "post", !.entry = FreshId])
       \/ Goto(r, "catch") /\ UNCHANGED journalVars
    /\ UNCHANGED tables

\* Mutant: the exception of a refused posting is swallowed.
RefusalUnnoticed(r) == Goto(r, "record") /\ UNCHANGED journalVars

PostingRefused(r) == Goto(r, "catch") /\ UNCHANGED journalVars

PostExpense(r) ==
    /\ At(r, "post")
    /\ LET e == run[r].entry
           k == Occurrence(run[r].schedule, Scheduled(r))
       IN  IF Postable(e, k) /\ journal[e].status = "draft"
           THEN Post(e, k, RequestHash) /\ Goto(r, "record")
           ELSE PostingRefused(r)
    /\ UNCHANGED tables

\* createBillDraft: nothing identifies the bill with the date it is entered for.
MakeBill(r) ==
    /\ At(r, "make") /\ kind[run[r].schedule] = "bill"
    /\ \/ /\ made' = [made EXCEPT ![run[r].schedule][Scheduled(r)] = IF @ = 0 THEN 1 ELSE 2]
          /\ Goto(r, "record")
       \/ Goto(r, "catch") /\ UNCHANGED made
    /\ UNCHANGED <<journalVars, schedules, executions>>

\* The execution that was read is updated by its id; a new one must be the only
\* one of its date.
Writable(r) ==
    run[r].prior # "none" \/ executions[run[r].schedule][Scheduled(r)] = "none"

Record(r) ==
    /\ At(r, "record")
    /\ IF Writable(r)
       THEN SetExecution(run[r].schedule, Scheduled(r), "done") /\ Goto(r, "finish")
       ELSE Goto(r, "catch") /\ UNCHANGED executions
    /\ UNCHANGED <<journalVars, schedules, made>>

\* Mutant: the date to come is counted from the schedule as it is now.
FollowingCurrent(r) == schedules[run[r].schedule].next + 1

Following(r) == Scheduled(r) + 1

\* Whatever has become of the schedule, it is active again or completed.
Finish(r) ==
    /\ At(r, "finish")
    /\ LET s == run[r].schedule
           next == Following(r)
       IN  SetSchedule(s, [status  |-> IF Ended(s, next) THEN "completed" ELSE "active",
                           next    |-> next,
                           version |-> schedules[s].version + 1])
    /\ Proceed(r)
    /\ UNCHANGED <<journalVars, executions, made>>

\* Mutant: a failure is forgotten.
FailureForgotten(r) == Proceed(r) /\ UNCHANGED executions

\* The handler records the failure, over whatever the execution it read says now;
\* when it can not, the exception ends the run.
RecordFailure(r) ==
    IF Writable(r)
    THEN SetExecution(run[r].schedule, Scheduled(r), "failed") /\ Proceed(r)
    ELSE Return(r) /\ UNCHANGED executions

Catch(r) ==
    /\ At(r, "catch")
    /\ RecordFailure(r)
    /\ UNCHANGED <<journalVars, schedules, made>>

-----------------------------------------------------------------------------
(* updateRecurringTransaction and updateRecurringBillSchedule.             *)

\* Users pause, resume, complete or just rename; the columns they leave alone are
\* written as they were read.  A schedule that is past its end date is refused.
BeginChange(r) ==
    /\ At(r, "idle")
    /\ mishaps < MaxMishaps /\ mishaps' = mishaps + 1
    /\ \E s \in Schedules, status \in ScheduleStatus :
          /\ ~Ended(s, schedules[s].next)
          /\ Become(r, [Idle EXCEPT !.pc = "change", !.schedule = s, !.status = status,
                                    !.version = schedules[s].version,
                                    !.next = schedules[s].next])
    /\ UNCHANGED <<journalVars, tables>>

Change(r) ==
    /\ At(r, "change")
    /\ LET s == run[r].schedule
       IN  IF schedules[s].version = run[r].version
           THEN SetSchedule(s, [status |-> run[r].status, next |-> run[r].next,
                                version |-> run[r].version + 1])
           ELSE UNCHANGED schedules
    /\ Return(r)
    /\ UNCHANGED <<journalVars, executions, made>>

-----------------------------------------------------------------------------
(* What happens beside the runs.                                           *)

Evict(r) ==
    /\ ~At(r, "idle") /\ mishaps < MaxMishaps
    /\ mishaps' = mishaps + 1
    /\ Return(r)
    /\ UNCHANGED <<journalVars, accepting, kind, tables, today>>

Tomorrow ==
    /\ today < Horizon /\ today' = today + 1
    /\ UNCHANGED <<journalVars, accepting, kind, tables, run, mishaps>>

\* Staff open and close periods, and edit, delete, void, post or reverse what they find.
StaffKeys == Keys \ Occurrences

StaffDraftReversal(e) ==
    /\ IdsLeft /\ e = FreshId
    /\ \E o \in Entries, date \in Dates : Mirror(o, e, date)

Staff ==
    /\ mishaps < MaxMishaps /\ mishaps' = mishaps + 1
    /\ \/ Reschedule
       \/ /\ UNCHANGED accepting
          /\ \E e \in Entries :
                \/ \E date \in Dates : Edit(e, date)
                \/ Handle(e, StaffKeys, RequestHash)
                \/ StaffDraftReversal(e)
    /\ UNCHANGED <<kind, tables, today, run>>

-----------------------------------------------------------------------------
(* Specification.                                                          *)

Continue(r) ==
    \/ ReadPrior(r) \/ AdvancePast(r) \/ DraftExpense(r) \/ PostExpense(r)
    \/ MakeBill(r) \/ Record(r) \/ Finish(r) \/ Catch(r)

beside == <<accepting, kind, today, mishaps>>

Running(r) == Continue(r) /\ UNCHANGED beside
Starting(r, of) == Begin(r, of) /\ UNCHANGED beside
Asking(r) == BeginChange(r) /\ UNCHANGED <<accepting, kind, today>>
Changing(r) == Change(r) /\ UNCHANGED beside

RecurringInit ==
    /\ Init
    /\ kind \in [Schedules -> Kinds]
    /\ schedules = [s \in Schedules |-> [status |-> "active", next |-> 1, version |-> 1]]
    /\ executions = [s \in Schedules |-> [date \in DueDates |-> "none"]]
    /\ made = [s \in Schedules |-> [date \in DueDates |-> 0]]
    /\ today = 1
    /\ run = [r \in Runs |-> Idle]
    /\ mishaps = 0

RecurringNext ==
    \/ \E r \in Runs :
          \/ Running(r) \/ Asking(r) \/ Changing(r) \/ Evict(r)
          \/ \E of \in Kinds : Starting(r, of)
    \/ Tomorrow
    \/ Staff

RecurringSpec == RecurringInit /\ [][RecurringNext]_vars

\* The scheduler starts a run every morning, and a run or a request that is not evicted
\* ends; nobody has to ask for anything.
Scheduling ==
    /\ \A r \in Runs : WF_vars(Running(r)) /\ WF_vars(Changing(r))
    /\ \A of \in Kinds : SF_vars(\E r \in Runs : Starting(r, of))

FairSpec == RecurringSpec /\ Scheduling

=============================================================================
