------------------------ MODULE RecurringProperties ------------------------
(* What schedules promise about the dates they have passed.                *)
EXTENDS Recurring

ScheduleType == [status : ScheduleStatus, next : 1..(Horizon + 1), version : Nat]
PC == {"idle", "next", "advance", "make", "post", "record", "finish", "catch", "change"}
RunType == [pc : PC, due : [Schedules -> 0..Horizon], schedule : Schedules \cup {None},
            prior : ExecutionStatus, entry : Entries \cup {None}, version : Nat,
            status : ScheduleStatus \cup {None}, next : 0..(Horizon + 1)]

\* Every column and local variable has its type; a run past its first step is at
\* work on a schedule that it read as due.
TypeOK ==
    /\ kind \in [Schedules -> Kinds]
    /\ schedules \in [Schedules -> ScheduleType]
    /\ executions \in [Schedules -> [DueDates -> ExecutionStatus]]
    /\ made \in [Schedules -> [DueDates -> 0..2]]
    /\ today \in DueDates
    /\ run \in [Runs -> RunType]
    /\ mishaps \in 0..MaxMishaps
    /\ \A r \in Runs : run[r].pc \notin {"idle", "next", "change"} => Scheduled(r) > 0

-----------------------------------------------------------------------------

InBooks(s, date) == {e \in EntriesOf(Occurrence(s, date)) : Posted(e)}

\* A schedule is done with the dates before its next one.  (One that users complete
\* early has dates left, which are nobody's any more.)
DoneWith(s, date) == date < schedules[s].next

\* What was passed was made: a schedule is done with a date only when the expense of
\* that date is in the books, on that date and once, or a bill was entered for it,
\* whatever runs overlapped, were delivered twice or stopped half-way.
NothingSkipped ==
    \A s \in Schedules : \A date \in DueDates : DoneWith(s, date) =>
        IF kind[s] = "expense"
        THEN \E e \in Entries : InBooks(s, date) = {e} /\ journal[e].date = date
        ELSE made[s][date] > 0

\* An execution that says posted or created tells the truth.
ExecutionsAreTrue ==
    \A s \in Schedules : \A date \in DueDates : executions[s][date] = "done" =>
        IF kind[s] = "expense" THEN InBooks(s, date) # {} ELSE made[s][date] > 0

-----------------------------------------------------------------------------

OpenDate(s, date) == Due(s) /\ schedules[s].next = date
Settled(s, date) == schedules[s].next # date \/ executions[s][date] = "failed"

\* Nothing that is due is silently left: it is made, or its failure is on record, or
\* users have paused or completed the schedule.
DueIsSettled ==
    \A s \in Schedules : \A date \in DueDates :
        OpenDate(s, date) ~> Settled(s, date) \/ schedules[s].status # "active"

=============================================================================
