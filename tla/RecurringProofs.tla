--------------------------- MODULE RecurringProofs ---------------------------
(***************************************************************************)
(* For any number of schedules, runs and dates: what a schedule has passed *)
(* was made, and what an execution says was done.  Both rest on the same   *)
(* fact about what runs know: whatever a run has read as passed stays      *)
(* made, however late the run writes what follows from it.                 *)
(***************************************************************************)
EXTENDS RecurringProperties, BooksProofs, TLAPS

\* The expense of a date is in the books, on that date; or its bill was entered.
MadeFor(s, date) ==
    IF kind[s] = "expense"
    THEN \E e \in Entries : /\ Posted(e)
                            /\ journal[e].source = Occurrence(s, date)
                            /\ journal[e].date = date
    ELSE made[s][date] > 0

Passed(s, next) == \A date \in DueDates : date < next => MadeFor(s, date)

\* What a run read of its schedules holds from then on.
Works(r) ==
    /\ run[r].pc \notin {"idle", "next"} => run[r].schedule \in Schedules
    /\ run[r].pc \notin {"idle", "next", "change"} => Scheduled(r) > 0
    /\ \A s \in Schedules : run[r].due[s] > 0 => Passed(s, run[r].due[s])
    /\ run[r].pc = "change" =>
          /\ run[r].status \in ScheduleStatus
          /\ run[r].next > 0
          /\ Passed(run[r].schedule, run[r].next)
    /\ run[r].pc = "post" =>
          /\ kind[run[r].schedule] = "expense"
          /\ run[r].entry \in Entries
          /\ journal[run[r].entry].status # "absent"
          /\ journal[run[r].entry].status = "draft" =>
                /\ journal[run[r].entry].source = Occurrence(run[r].schedule, Scheduled(r))
                /\ journal[run[r].entry].date = Scheduled(r)
    /\ run[r].pc \in {"advance", "record", "finish"} => MadeFor(run[r].schedule, Scheduled(r))

ScheduleKept(s) == Passed(s, schedules[s].next)

ExecutionTrue(s, date) == executions[s][date] = "done" => MadeFor(s, date)

SchedulesInv ==
    /\ schedules \in [Schedules -> ScheduleType]
    /\ \A s \in Schedules : ScheduleKept(s)

ExecutionsInv ==
    /\ executions \in [Schedules -> [DueDates -> ExecutionStatus]]
    /\ \A s \in Schedules : \A date \in DueDates : ExecutionTrue(s, date)

RecurringInv ==
    /\ TypeOK
    /\ JournalInv
    /\ SchedulesInv
    /\ ExecutionsInv
    /\ \A r \in Runs : Works(r)

-----------------------------------------------------------------------------
(* What was made stays made.                                               *)

MadeStays ==
    \A s \in Schedules : \A date \in DueDates : MadeFor(s, date) => MadeFor(s, date)'

LEMMA MadeForStays ==
    ASSUME RecurringInv, JournalStep, UNCHANGED kind,
           \A s \in Schedules : \A date \in DueDates : made[s][date] > 0 => made'[s][date] > 0
    PROVE  MadeStays
BY DEF JournalStep, MadeStays, MadeFor, Posted

LEMMA OthersWork ==
    ASSUME RecurringInv, JournalStep, MadeStays, UNCHANGED kind,
           NEW r \in Runs, UNCHANGED run[r]
    PROVE  Works(r)'
<1>1. Works(r)
  BY DEF RecurringInv
<1>2. run[r].due \in [Schedules -> 0..Horizon]
  BY DEF RecurringInv, TypeOK, RunType
<1>3. \A s \in Schedules : \A next : Passed(s, next) => Passed(s, next)'
  BY DEF MadeStays, Passed
<1>4. run[r].pc \in {"advance", "record", "finish"} => Scheduled(r) \in DueDates
  BY <1>1, <1>2 DEF Works, Scheduled, DueDates, RecurringInv, TypeOK
<1>5. Scheduled(r)' = Scheduled(r)
  BY DEF Scheduled
<1>6. (\A s \in Schedules : run[r].due[s] > 0 => Passed(s, run[r].due[s]))'
  BY <1>1, <1>3 DEF Works
<1>7. (run[r].pc = "post" =>
          /\ kind[run[r].schedule] = "expense"
          /\ run[r].entry \in Entries
          /\ journal[run[r].entry].status # "absent"
          /\ journal[run[r].entry].status = "draft" =>
                /\ journal[run[r].entry].source = Occurrence(run[r].schedule, Scheduled(r))
                /\ journal[run[r].entry].date = Scheduled(r))'
  BY <1>1, <1>5 DEF Works, JournalStep
<1>8. (run[r].pc \in {"advance", "record", "finish"} => MadeFor(run[r].schedule, Scheduled(r)))'
  BY <1>1, <1>4, <1>5 DEF Works, MadeStays
<1>. QED
  BY <1>1, <1>3, <1>5, <1>6, <1>7, <1>8 DEF Works

-----------------------------------------------------------------------------
(* The tables.                                                             *)

LEMMA SchedulesStay ==
    ASSUME RecurringInv, MadeStays, UNCHANGED schedules
    PROVE  SchedulesInv'
BY DEF RecurringInv, SchedulesInv, ScheduleKept, MadeStays, Passed

LEMMA ExecutionsStay ==
    ASSUME RecurringInv, MadeStays, UNCHANGED executions
    PROVE  ExecutionsInv'
BY DEF RecurringInv, ExecutionsInv, ExecutionTrue, MadeStays

LEMMA ScheduleMoves ==
    ASSUME RecurringInv, MadeStays, NEW s \in Schedules, NEW row \in ScheduleType,
           SetSchedule(s, row), Passed(s, row.next)
    PROVE  SchedulesInv'
<1>1. \A t \in Schedules : \A next : Passed(t, next) => Passed(t, next)'
  BY DEF MadeStays, Passed
<1>2. /\ schedules' \in [Schedules -> ScheduleType]
      /\ schedules'[s] = row
      /\ \A t \in Schedules : t # s => schedules'[t] = schedules[t]
  BY DEF RecurringInv, SchedulesInv, SetSchedule
<1>3. ASSUME NEW t \in Schedules
      PROVE  ScheduleKept(t)'
  <2>1. CASE t = s
    BY <2>1, <1>1, <1>2 DEF ScheduleKept
  <2>2. CASE t # s
    BY <2>2, <1>1, <1>2 DEF RecurringInv, SchedulesInv, ScheduleKept
  <2>. QED
    BY <2>1, <2>2
<1>. QED
  BY <1>2, <1>3 DEF SchedulesInv

LEMMA ExecutionMoves ==
    ASSUME RecurringInv, MadeStays, NEW s \in Schedules, NEW date \in DueDates,
           NEW status \in ExecutionStatus, SetExecution(s, date, status),
           status = "done" => MadeFor(s, date)
    PROVE  ExecutionsInv'
<1>1. executions' \in [Schedules -> [DueDates -> ExecutionStatus]]
  BY DEF RecurringInv, ExecutionsInv, SetExecution
<1>2. ASSUME NEW t \in Schedules, NEW day \in DueDates, executions'[t][day] = "done"
      PROVE  MadeFor(t, day)
  <2>1. executions'[t][day] = IF t = s /\ day = date THEN status ELSE executions[t][day]
    BY DEF RecurringInv, ExecutionsInv, SetExecution
  <2>. QED
    BY <1>2, <2>1 DEF RecurringInv, ExecutionsInv, ExecutionTrue
<1>3. \A t \in Schedules : \A day \in DueDates : ExecutionTrue(t, day)'
  BY <1>2 DEF ExecutionTrue, MadeStays
<1>. QED
  BY <1>1, <1>3 DEF ExecutionsInv

-----------------------------------------------------------------------------
(* The local variables of a run.                                           *)

\* What a step of a run has to show.
LEMMA RunMoves ==
    ASSUME RecurringInv, JournalInv', JournalStep, MadeStays, SchedulesInv', ExecutionsInv',
           UNCHANGED <<kind, today>>, mishaps' \in 0..MaxMishaps,
           made' \in [Schedules -> [DueDates -> 0..2]],
           NEW r \in Runs, NEW local \in RunType, Become(r, local), Works(r)'
    PROVE  RecurringInv'
<1>1. run' \in [Runs -> RunType]
  BY DEF Become, RecurringInv, TypeOK
<1>2. ASSUME NEW q \in Runs
      PROVE  Works(q)'
  <2>1. CASE q # r
    <3>1. UNCHANGED run[q]
      BY <2>1 DEF Become, RecurringInv, TypeOK
    <3>. QED
      BY <3>1, OthersWork
  <2>. QED
    BY <2>1
<1>3. TypeOK'
  BY <1>1, <1>2 DEF RecurringInv, TypeOK, SchedulesInv, ExecutionsInv, Works
<1>. QED
  BY <1>2, <1>3 DEF RecurringInv

\* A run between two schedules knows of what it has left only.
LEMMA Between ==
    ASSUME RecurringInv, MadeStays, NEW r \in Runs, NEW local \in RunType, Become(r, local),
           local.pc \in {"idle", "next"},
           \A s \in Schedules : local.due[s] > 0 => Passed(s, local.due[s])
    PROVE  Works(r)'
<1>1. run'[r] = local
  BY DEF Become, RecurringInv, TypeOK
<1>2. \A s \in Schedules : \A next : Passed(s, next) => Passed(s, next)'
  BY DEF MadeStays, Passed
<1>. QED
  BY <1>1, <1>2 DEF Works

LEMMA IdleIsTyped ==
    ASSUME ScheduleAssumption
    PROVE  Idle \in RunType /\ Idle.pc = "idle" /\ \A s \in Schedules : Idle.due[s] = 0
BY DEF Idle, RunType, PC, ExecutionStatus, ScheduleAssumption

LEMMA NextIsTyped ==
    ASSUME ScheduleAssumption, NEW due \in [Schedules -> 0..Horizon]
    PROVE  /\ [Idle EXCEPT !.pc = "next", !.due = due] \in RunType
           /\ [Idle EXCEPT !.pc = "next", !.due = due].pc = "next"
           /\ [Idle EXCEPT !.pc = "next", !.due = due].due = due
BY IdleIsTyped DEF RunType, PC

LEMMA ReturnWorks ==
    ASSUME RecurringInv, ScheduleAssumption, MadeStays, NEW r \in Runs, Return(r)
    PROVE  \E local \in RunType : Become(r, local) /\ Works(r)'
<1>1. Become(r, Idle)
  BY DEF Return
<1>2. \A s \in Schedules : ~(Idle.due[s] > 0)
  BY IdleIsTyped
<1>. QED
  BY <1>1, <1>2, IdleIsTyped, Between

LEMMA ProceedWorks ==
    ASSUME RecurringInv, ScheduleAssumption, MadeStays, NEW r \in Runs, Proceed(r)
    PROVE  \E local \in RunType : Become(r, local) /\ Works(r)'
<1>1. CASE Return(r)
  BY <1>1, ReturnWorks
<1>2. CASE Become(r, [Idle EXCEPT !.pc = "next", !.due = Left(r)])
  <2>. DEFINE local == [Idle EXCEPT !.pc = "next", !.due = Left(r)]
  <2>1. run[r].due \in [Schedules -> 0..Horizon]
    BY DEF RecurringInv, TypeOK, RunType
  <2>2. /\ Left(r) \in [Schedules -> 0..Horizon]
        /\ \A s \in Schedules : Left(r)[s] > 0 => Left(r)[s] = run[r].due[s]
    <3>1. 0 \in 0..Horizon
      BY DEF ScheduleAssumption
    <3>2. \A s \in Schedules :
              Left(r)[s] = IF s = run[r].schedule THEN 0 ELSE run[r].due[s]
      BY <2>1 DEF Left
    <3>3. Left(r) \in [Schedules -> 0..Horizon]
      BY <2>1, <3>1 DEF Left
    <3>. QED
      BY <2>1, <3>2, <3>3
  <2>3. local \in RunType /\ local.pc = "next" /\ local.due = Left(r)
    BY <2>2, NextIsTyped
  <2>4. \A s \in Schedules : Left(r)[s] > 0 => Passed(s, Left(r)[s])
    BY <2>2 DEF RecurringInv, Works
  <2>5. Become(r, local)
    BY <1>2
  <2>. HIDE DEF local
  <2>. QED
    BY <2>3, <2>4, <2>5, Between
<1>. QED
  BY <1>1, <1>2 DEF Proceed

\* A run that goes on keeps what it has read.
LEMMA GotoKeeps ==
    ASSUME RecurringInv, NEW r \in Runs, NEW pc \in PC, Goto(r, pc)
    PROVE  \E local \in RunType :
              /\ Become(r, local)
              /\ run'[r] = local
              /\ local.pc = pc
              /\ local.schedule = run[r].schedule
              /\ local.due = run[r].due
<1>. DEFINE local == [run[r] EXCEPT !.pc = pc]
<1>1. run[r] \in RunType
  BY DEF RecurringInv, TypeOK
<1>2. /\ local \in RunType /\ local.pc = pc
      /\ local.schedule = run[r].schedule /\ local.due = run[r].due
  BY <1>1 DEF RunType
<1>3. Become(r, local) /\ run'[r] = local
  BY DEF Goto, Become, RecurringInv, TypeOK
<1>. QED
  BY <1>2, <1>3

LEMMA GotoWorks ==
    ASSUME RecurringInv, MadeStays, UNCHANGED kind, NEW r \in Runs,
           run[r].pc \notin {"idle", "next", "change"},
           NEW pc \in {"make", "record", "finish", "catch"}, Goto(r, pc),
           pc \in {"record", "finish"} => MadeFor(run[r].schedule, Scheduled(r))'
    PROVE  \E local \in RunType : Become(r, local) /\ Works(r)'
<1>1. PICK local \in RunType :
          /\ Become(r, local)
          /\ run'[r] = local
          /\ local.pc = pc
          /\ local.schedule = run[r].schedule
          /\ local.due = run[r].due
  BY GotoKeeps DEF PC
<1>2. \A s \in Schedules : \A next : Passed(s, next) => Passed(s, next)'
  BY DEF MadeStays, Passed
<1>3. Scheduled(r)' = Scheduled(r)
  BY <1>1 DEF Scheduled
<1>4. Works(r)
  BY DEF RecurringInv
<1>5. (\A s \in Schedules : run[r].due[s] > 0 => Passed(s, run[r].due[s]))'
  BY <1>1, <1>2, <1>4 DEF Works
<1>6. (run[r].schedule \in Schedules /\ Scheduled(r) > 0)'
  BY <1>1, <1>3, <1>4 DEF Works
<1>. QED
  BY <1>1, <1>5, <1>6 DEF Works

-----------------------------------------------------------------------------
(* Each step of a run.                                                     *)

\* A step that changes none of the tables.
LEMMA StillStep ==
    ASSUME RecurringInv, UNCHANGED <<journal, kind, schedules, executions, made>>
    PROVE  /\ JournalInv' /\ JournalStep /\ MadeStays
           /\ SchedulesInv' /\ ExecutionsInv'
           /\ made' \in [Schedules -> [DueDates -> 0..2]]
<1>1. JournalInv' /\ JournalStep
  BY UnchangedJournal DEF RecurringInv
<1>2. MadeStays
  BY <1>1, MadeForStays
<1>. QED
  BY <1>1, <1>2, SchedulesStay, ExecutionsStay DEF RecurringInv, TypeOK

LEMMA BeginKeeps ==
    ASSUME RecurringInv, ScheduleAssumption, NEW r \in Runs, NEW of \in Kinds, Starting(r, of)
    PROVE  RecurringInv'
<1>. DEFINE due == [s \in Schedules |-> IF kind[s] = of /\ Due(s) THEN schedules[s].next ELSE 0]
            local == [Idle EXCEPT !.pc = "next", !.due = due]
<1>1. Become(r, local)
  BY DEF Starting, Begin
<1>2. /\ due \in [Schedules -> 0..Horizon]
      /\ \A s \in Schedules : due[s] > 0 => due[s] = schedules[s].next
  <2>1. ASSUME NEW s \in Schedules
        PROVE  due[s] \in 0..Horizon /\ (due[s] > 0 => due[s] = schedules[s].next)
    BY DEF Due, RecurringInv, TypeOK, ScheduleType, ScheduleAssumption, DueDates
  <2>. QED
    BY <2>1
<1>. HIDE DEF due
<1>3. local \in RunType /\ local.pc = "next" /\ local.due = due
  BY <1>2, NextIsTyped
<1>4. \A s \in Schedules : due[s] > 0 => Passed(s, due[s])
  BY <1>2 DEF RecurringInv, SchedulesInv, ScheduleKept
<1>. HIDE DEF local
<1>5. UNCHANGED <<journal, kind, schedules, executions, made, today, mishaps>>
  BY DEF Starting, Begin, beside, tables, journalVars
<1>6. Works(r)'
  BY <1>1, <1>3, <1>4, <1>5, Between, StillStep
<1>. QED
  BY <1>1, <1>3, <1>5, <1>6, StillStep, RunMoves DEF RecurringInv, TypeOK

LEMMA ReadPriorKeeps ==
    ASSUME RecurringInv, ScheduleAssumption, NEW r \in Runs, ReadPrior(r),
           UNCHANGED beside
    PROVE  RecurringInv'
<1>1. PICK s \in Schedules :
          /\ run[r].due[s] > 0
          /\ Become(r, [run[r] EXCEPT !.schedule = s, !.prior = executions[s][run[r].due[s]],
                                      !.pc = IF executions[s][run[r].due[s]] = "done"
                                             THEN "advance" ELSE "make"])
  BY DEF ReadPrior
<1>. DEFINE date == run[r].due[s]
            prior == executions[s][date]
            pc == IF prior = "done" THEN "advance" ELSE "make"
            local == [run[r] EXCEPT !.schedule = s, !.prior = prior, !.pc = pc]
<1>2. run[r] \in RunType
  BY DEF RecurringInv, TypeOK
<1>3. date \in DueDates
  BY <1>1, <1>2 DEF RunType, DueDates
<1>4. prior \in ExecutionStatus /\ pc \in PC /\ (pc = "advance" => MadeFor(s, date))
  BY <1>3 DEF RecurringInv, ExecutionsInv, ExecutionTrue, PC
<1>5. Become(r, local)
  BY <1>1
<1>6. pc \in {"advance", "make"}
  OBVIOUS
<1>. HIDE DEF pc, prior
<1>7. /\ local \in RunType /\ local.pc = pc /\ local.schedule = s
      /\ local.due = run[r].due
  BY <1>2, <1>4 DEF RunType
<1>. HIDE DEF local
<1>8. run'[r] = local
  BY <1>5 DEF Become, RecurringInv, TypeOK
<1>9. UNCHANGED <<journal, kind, schedules, executions, made, today, mishaps>>
  BY DEF ReadPrior, beside, tables, journalVars
<1>10. Scheduled(r)' = date
  BY <1>7, <1>8 DEF Scheduled
<1>11. Works(r)'
  <2>1. MadeStays
    BY <1>9, StillStep
  <2>2. (run[r].schedule \in Schedules /\ Scheduled(r) > 0)'
    BY <1>1, <1>7, <1>8, <1>10
  <2>3. (\A t \in Schedules : run[r].due[t] > 0 => Passed(t, run[r].due[t]))'
    BY <2>1, <1>7, <1>8 DEF RecurringInv, Works, MadeStays, Passed
  <2>4. (run[r].pc \in {"advance", "record", "finish"} => MadeFor(run[r].schedule, Scheduled(r)))'
    BY <2>1, <1>3, <1>4, <1>6, <1>7, <1>8, <1>10 DEF MadeStays
  <2>. QED
    BY <2>2, <2>3, <2>4, <1>6, <1>7, <1>8 DEF Works
<1>. QED
  BY <1>5, <1>7, <1>9, <1>11, StillStep, RunMoves DEF RecurringInv, TypeOK

\* A run past its first step is at work on a date of the calendar.
LEMMA AtWork ==
    ASSUME RecurringInv, NEW r \in Runs, run[r].pc \notin {"idle", "next", "change"}
    PROVE  run[r].schedule \in Schedules /\ Scheduled(r) \in DueDates
BY DEF RecurringInv, TypeOK, RunType, Works, Scheduled, DueDates

LEMMA AdvancePastKeeps ==
    ASSUME RecurringInv, ScheduleAssumption, NEW r \in Runs, AdvancePast(r), UNCHANGED beside
    PROVE  RecurringInv'
<1>. DEFINE s == run[r].schedule
            next == Scheduled(r) + 1
            status == IF Ended(s, next) THEN "completed" ELSE schedules[s].status
            row == [schedules[s] EXCEPT !.next = next, !.status = status]
<1>1. s \in Schedules /\ Scheduled(r) \in DueDates /\ MadeFor(s, Scheduled(r))
  BY AtWork DEF AdvancePast, At, RecurringInv, Works
<1>2. UNCHANGED <<journal, kind, executions, made, today, mishaps>>
  BY DEF AdvancePast, beside, journalVars
<1>3. JournalInv' /\ JournalStep /\ MadeStays /\ ExecutionsInv'
  BY <1>2, UnchangedJournal, MadeForStays, ExecutionsStay DEF RecurringInv
<1>4. Passed(s, next)
  BY <1>1 DEF RecurringInv, Works, Passed, Scheduled, DueDates
<1>5. status \in ScheduleStatus
  BY <1>1 DEF RecurringInv, SchedulesInv, ScheduleType, ScheduleStatus
<1>. HIDE DEF status
<1>6. row \in ScheduleType /\ row.next = next /\ row.status = status
  <2>1. next \in 1..(Horizon + 1)
    BY <1>1 DEF DueDates, ScheduleAssumption
  <2>2. schedules[s] \in ScheduleType
    BY <1>1 DEF RecurringInv, SchedulesInv
  <2>. HIDE DEF next
  <2>. QED
    BY <2>1, <2>2, <1>5 DEF ScheduleType
<1>7. SetSchedule(s, row)
  BY DEF AdvancePast, status
<1>. HIDE DEF row
<1>8. SchedulesInv'
  BY <1>1, <1>3, <1>4, <1>5, <1>6, <1>7, ScheduleMoves
<1>. QED
  BY <1>2, <1>3, <1>8, ProceedWorks, RunMoves DEF AdvancePast, RecurringInv, TypeOK

LEMMA FinishKeeps ==
    ASSUME RecurringInv, ScheduleAssumption, NEW r \in Runs, Finish(r), UNCHANGED beside
    PROVE  RecurringInv'
<1>. DEFINE s == run[r].schedule
            next == Following(r)
            status == IF Ended(s, next) THEN "completed" ELSE "active"
            row == [status |-> status, next |-> next, version |-> schedules[s].version + 1]
<1>1. s \in Schedules /\ Scheduled(r) \in DueDates /\ MadeFor(s, Scheduled(r))
  BY AtWork DEF Finish, At, RecurringInv, Works
<1>2. UNCHANGED <<journal, kind, executions, made, today, mishaps>>
  BY DEF Finish, beside, journalVars
<1>3. JournalInv' /\ JournalStep /\ MadeStays /\ ExecutionsInv'
  BY <1>2, UnchangedJournal, MadeForStays, ExecutionsStay DEF RecurringInv
<1>4. Passed(s, next)
  BY <1>1 DEF RecurringInv, Works, Passed, Scheduled, Following, DueDates
<1>5. status \in ScheduleStatus
  BY DEF ScheduleStatus
<1>6. next \in 1..(Horizon + 1)
  BY <1>1 DEF Following, DueDates, ScheduleAssumption
<1>7. schedules[s].version + 1 \in Nat
  BY <1>1 DEF RecurringInv, SchedulesInv, ScheduleType
<1>8. row \in ScheduleType /\ row.next = next /\ row.status = status
  BY <1>5, <1>6, <1>7 DEF ScheduleType
<1>9. SetSchedule(s, row)
  BY DEF Finish
<1>. HIDE DEF row, status, next
<1>10. SchedulesInv'
  BY <1>1, <1>3, <1>4, <1>5, <1>8, <1>9, ScheduleMoves
<1>. QED
  BY <1>2, <1>3, <1>10, ProceedWorks, RunMoves DEF Finish, RecurringInv, TypeOK

LEMMA DraftExpenseKeeps ==
    ASSUME RecurringInv, ScheduleAssumption, NEW r \in Runs, DraftExpense(r), UNCHANGED beside
    PROVE  RecurringInv'
<1>. DEFINE s == run[r].schedule
            date == Scheduled(r)
<1>1. s \in Schedules /\ date \in DueDates /\ kind[s] = "expense"
  BY AtWork DEF DraftExpense, At
<1>2. UNCHANGED <<kind, schedules, executions, made, today, mishaps>>
  BY DEF DraftExpense, beside, tables
<1>3. CASE Goto(r, "catch") /\ UNCHANGED journalVars
  <2>1. UNCHANGED journal
    BY <1>3 DEF journalVars
  <2>2. \E local \in RunType : Become(r, local) /\ Works(r)'
    BY <2>1, <1>2, <1>3, StillStep, GotoWorks DEF DraftExpense, At
  <2>. QED
    BY <2>1, <2>2, <1>2, StillStep, RunMoves DEF RecurringInv, TypeOK
<1>4. CASE /\ IdsLeft
           /\ Draft(FreshId, date, Occurrence(s, date))
           /\ Become(r, [run[r] EXCEPT !.pc = "post", !.entry = FreshId])
  <2>. DEFINE e == FreshId
              local == [run[r] EXCEPT !.pc = "post", !.entry = e]
  <2>1. e \in Entries
    BY <1>4, FreshIdIsFree
  <2>2. date \in Dates /\ Occurrence(s, date) \in Sources \cup {None}
    BY <1>1 DEF ScheduleAssumption, Occurrences
  <2>3. /\ JournalInv' /\ JournalStep
        /\ journal'[e] = [status |-> "draft", date |-> date, source |-> Occurrence(s, date)]
    BY <2>1, <2>2, <1>4, DraftKeeps DEF RecurringInv
  <2>4. MadeStays
    BY <2>3, <1>2, MadeForStays
  <2>5. Become(r, local)
    BY <1>4
  <2>6. run[r] \in RunType
    BY DEF RecurringInv, TypeOK
  <2>. HIDE DEF e
  <2>7. /\ local \in RunType /\ local.pc = "post" /\ local.entry = e
        /\ local.schedule = s /\ local.due = run[r].due
    BY <2>1, <2>6 DEF RunType, PC
  <2>. HIDE DEF local
  <2>8. run'[r] = local
    BY <2>5 DEF Become, RecurringInv, TypeOK
  <2>9. Scheduled(r)' = date
    BY <2>7, <2>8 DEF Scheduled
  <2>10. Works(r)'
    <3>1. (run[r].schedule \in Schedules /\ Scheduled(r) > 0)'
      BY <1>1, <2>7, <2>8, <2>9 DEF DueDates
    <3>2. (\A t \in Schedules : run[r].due[t] > 0 => Passed(t, run[r].due[t]))'
      BY <2>4, <2>7, <2>8 DEF RecurringInv, Works, MadeStays, Passed
    <3>. QED
      BY <3>1, <3>2, <1>1, <1>2, <2>1, <2>3, <2>7, <2>8, <2>9 DEF Works
  <2>. QED
    BY <1>2, <2>3, <2>4, <2>5, <2>7, <2>10, SchedulesStay, ExecutionsStay, RunMoves
    DEF RecurringInv, TypeOK
<1>. QED
  BY <1>3, <1>4 DEF DraftExpense

LEMMA PostExpenseKeeps ==
    ASSUME RecurringInv, ScheduleAssumption, NEW r \in Runs, PostExpense(r), UNCHANGED beside
    PROVE  RecurringInv'
<1>. DEFINE s == run[r].schedule
            date == Scheduled(r)
            e == run[r].entry
            k == Occurrence(s, date)
<1>1. s \in Schedules /\ date \in DueDates
  BY AtWork DEF PostExpense, At
<1>2. UNCHANGED <<kind, schedules, executions, made, today, mishaps>>
  BY DEF PostExpense, beside, tables
<1>3. CASE PostingRefused(r)
  <2>1. UNCHANGED journal
    BY <1>3 DEF PostingRefused, journalVars
  <2>2. \E local \in RunType : Become(r, local) /\ Works(r)'
    BY <2>1, <1>2, <1>3, StillStep, GotoWorks DEF PostingRefused, PostExpense, At
  <2>. QED
    BY <2>1, <2>2, <1>2, StillStep, RunMoves DEF RecurringInv, TypeOK
<1>4. CASE journal[e].status = "draft" /\ Post(e, k, RequestHash) /\ Goto(r, "record")
  <2>1. /\ e \in Entries /\ kind[s] = "expense"
        /\ journal[e].source = k /\ journal[e].date = date
    BY <1>4 DEF PostExpense, At, RecurringInv, Works
  <2>2. /\ JournalInv' /\ JournalStep
        /\ journal'[e].status = "posted"
        /\ journal'[e].date = date /\ journal'[e].source = k
    BY <2>1, <1>4, StatusKeeps DEF RecurringInv, Post, Postable, PutEntry
  <2>3. MadeStays
    BY <2>2, <1>2, MadeForStays
  <2>4. MadeFor(s, date)'
    BY <1>2, <2>1, <2>2, GotoKeeps, <1>4 DEF MadeFor, Posted, Scheduled, PC
  <2>5. \E local \in RunType : Become(r, local) /\ Works(r)'
    BY <1>2, <1>4, <2>3, <2>4, GotoWorks DEF PostExpense, At
  <2>. QED
    BY <1>2, <2>2, <2>3, <2>5, SchedulesStay, ExecutionsStay, RunMoves DEF RecurringInv, TypeOK
<1>. QED
  BY <1>3, <1>4 DEF PostExpense

LEMMA MakeBillKeeps ==
    ASSUME RecurringInv, ScheduleAssumption, NEW r \in Runs, MakeBill(r), UNCHANGED beside
    PROVE  RecurringInv'
<1>. DEFINE s == run[r].schedule
            date == Scheduled(r)
<1>1. s \in Schedules /\ date \in DueDates /\ kind[s] # "expense"
  BY AtWork DEF MakeBill, At
<1>2. UNCHANGED <<journal, kind, schedules, executions, today, mishaps>>
  BY DEF MakeBill, beside, journalVars
<1>3. JournalInv' /\ JournalStep
  BY <1>2, UnchangedJournal DEF RecurringInv
<1>4. CASE Goto(r, "catch") /\ UNCHANGED made
  <2>1. \E local \in RunType : Become(r, local) /\ Works(r)'
    BY <1>2, <1>4, StillStep, GotoWorks DEF MakeBill, At
  <2>. QED
    BY <2>1, <1>2, <1>4, StillStep, RunMoves DEF RecurringInv, TypeOK
<1>5. CASE /\ made' = [made EXCEPT ![s][date] = IF @ = 0 THEN 1 ELSE 2]
           /\ Goto(r, "record")
  <2>1. /\ made' \in [Schedules -> [DueDates -> 0..2]]
        /\ made'[s][date] > 0
        /\ \A t \in Schedules : \A day \in DueDates : made[t][day] > 0 => made'[t][day] > 0
    BY <1>1, <1>5 DEF RecurringInv, TypeOK
  <2>2. MadeStays
    BY <1>2, <1>3, <2>1, MadeForStays
  <2>3. Scheduled(r)' = date /\ run'[r].schedule = s
    BY <1>5, GotoKeeps DEF Scheduled, PC
  <2>4. MadeFor(s, date)'
    BY <1>1, <1>2, <2>1, <2>3 DEF MadeFor
  <2>5. \E local \in RunType : Become(r, local) /\ Works(r)'
    BY <1>2, <1>5, <2>2, <2>4, GotoWorks DEF MakeBill, At
  <2>. QED
    BY <1>2, <1>3, <2>1, <2>2, <2>5, SchedulesStay, ExecutionsStay, RunMoves
    DEF RecurringInv, TypeOK
<1>. QED
  BY <1>4, <1>5 DEF MakeBill

LEMMA RecordKeeps ==
    ASSUME RecurringInv, ScheduleAssumption, NEW r \in Runs, Record(r) \/ Catch(r),
           UNCHANGED beside
    PROVE  RecurringInv'
<1>. DEFINE s == run[r].schedule
            date == Scheduled(r)
<1>1. s \in Schedules /\ date \in DueDates /\ run[r].pc \in {"record", "catch"}
  BY AtWork DEF Record, Catch, At
<1>2. UNCHANGED <<journal, kind, schedules, made, today, mishaps>>
  BY DEF Record, Catch, beside, journalVars
<1>3. JournalInv' /\ JournalStep /\ MadeStays /\ SchedulesInv'
  BY <1>2, UnchangedJournal, MadeForStays, SchedulesStay DEF RecurringInv
<1>4. ExecutionsInv'
  <2>1. CASE UNCHANGED executions
    BY <2>1, <1>3, ExecutionsStay
  <2>2. CASE Record(r) /\ SetExecution(s, date, "done")
    <3>1. MadeFor(s, date)
      BY <2>2 DEF Record, At, RecurringInv, Works
    <3>. QED
      BY <2>2, <3>1, <1>1, <1>3, ExecutionMoves DEF ExecutionStatus
  <2>3. CASE SetExecution(s, date, "failed")
    BY <2>3, <1>1, <1>3, ExecutionMoves DEF ExecutionStatus
  <2>. QED
    BY <2>1, <2>2, <2>3 DEF Record, Catch, RecordFailure
<1>5. \E local \in RunType : Become(r, local) /\ Works(r)'
  <2>1. CASE Goto(r, "finish") /\ run[r].pc = "record"
    <3>1. MadeFor(s, date)
      BY <2>1 DEF RecurringInv, Works
    <3>2. Scheduled(r)' = date /\ run'[r].schedule = s
      BY <2>1, GotoKeeps DEF Scheduled, PC
    <3>3. MadeFor(s, date)'
      BY <3>1, <3>2, <1>1, <1>3 DEF MadeStays
    <3>. QED
      BY <2>1, <3>3, <1>2, <1>3, GotoWorks
  <2>2. CASE Goto(r, "catch")
    BY <2>2, <1>1, <1>2, <1>3, GotoWorks
  <2>3. CASE Proceed(r) \/ Return(r)
    BY <2>3, <1>3, ProceedWorks, ReturnWorks
  <2>. QED
    BY <2>1, <2>2, <2>3 DEF Record, Catch, RecordFailure, At
<1>. QED
  BY <1>2, <1>3, <1>4, <1>5, RunMoves DEF RecurringInv, TypeOK

-----------------------------------------------------------------------------
(* Users, evictions, the calendar and staff.                               *)

LEMMA BeginChangeKeeps ==
    ASSUME RecurringInv, ScheduleAssumption, NEW r \in Runs, BeginChange(r),
           UNCHANGED <<accepting, kind, today>>
    PROVE  RecurringInv'
<1>1. PICK s \in Schedules, status \in ScheduleStatus :
          Become(r, [Idle EXCEPT !.pc = "change", !.schedule = s, !.status = status,
                                 !.version = schedules[s].version,
                                 !.next = schedules[s].next])
  BY DEF BeginChange
<1>. DEFINE local == [Idle EXCEPT !.pc = "change", !.schedule = s, !.status = status,
                                  !.version = schedules[s].version,
                                  !.next = schedules[s].next]
<1>2. Become(r, local)
  BY <1>1
<1>3. UNCHANGED <<journal, kind, schedules, executions, made, today>>
  BY DEF BeginChange, tables, journalVars
<1>4. /\ schedules[s].version \in Nat
      /\ schedules[s].next \in 0..(Horizon + 1) /\ schedules[s].next > 0
      /\ Passed(s, schedules[s].next)
  BY DEF RecurringInv, SchedulesInv, ScheduleKept, ScheduleType, ScheduleAssumption
<1>5. Idle \in RunType /\ \A t \in Schedules : Idle.due[t] = 0
  BY IdleIsTyped
<1>6. /\ local \in RunType /\ local.pc = "change" /\ local.schedule = s
      /\ local.status = status /\ local.next = schedules[s].next
      /\ local.due = Idle.due
  BY <1>4, <1>5 DEF RunType, PC, ScheduleStatus
<1>. HIDE DEF local
<1>7. run'[r] = local
  BY <1>2 DEF Become, RecurringInv, TypeOK
<1>8. Works(r)'
  <2>1. MadeStays
    BY <1>3, StillStep
  <2>2. Passed(s, schedules[s].next)'
    BY <1>3, <1>4, <2>1 DEF MadeStays, Passed
  <2>. QED
    BY <1>3, <1>4, <1>5, <1>6, <1>7, <2>2 DEF Works
<1>9. mishaps' \in 0..MaxMishaps
  BY DEF BeginChange, RecurringInv, TypeOK
<1>. QED
  BY <1>2, <1>3, <1>6, <1>8, <1>9, StillStep, RunMoves DEF RecurringInv, TypeOK

LEMMA ChangeKeeps ==
    ASSUME RecurringInv, ScheduleAssumption, NEW r \in Runs, Change(r), UNCHANGED beside
    PROVE  RecurringInv'
<1>. DEFINE s == run[r].schedule
            row == [status |-> run[r].status, next |-> run[r].next,
                    version |-> run[r].version + 1]
<1>1. UNCHANGED <<journal, kind, executions, made, today, mishaps>> /\ Return(r)
  BY DEF Change, beside, journalVars
<1>2. JournalInv' /\ JournalStep /\ MadeStays /\ ExecutionsInv'
  BY <1>1, UnchangedJournal, MadeForStays, ExecutionsStay DEF RecurringInv
<1>3. SchedulesInv'
  <2>1. CASE UNCHANGED schedules
    BY <2>1, <1>2, SchedulesStay
  <2>2. CASE SetSchedule(s, row)
    <3>1. /\ s \in Schedules /\ run[r].status \in ScheduleStatus
          /\ run[r].next > 0 /\ Passed(s, run[r].next)
      BY DEF Change, At, RecurringInv, Works
    <3>2. run[r].next \in 1..(Horizon + 1) /\ run[r].version + 1 \in Nat
      BY <3>1 DEF RecurringInv, TypeOK, RunType, ScheduleAssumption
    <3>3. row \in ScheduleType /\ row.next = run[r].next
      BY <3>1, <3>2 DEF ScheduleType
    <3>. HIDE DEF row
    <3>. QED
      BY <2>2, <3>1, <3>3, <1>2, ScheduleMoves
  <2>. QED
    BY <2>1, <2>2 DEF Change
<1>. QED
  BY <1>1, <1>2, <1>3, ReturnWorks, RunMoves DEF RecurringInv, TypeOK

LEMMA EvictKeeps ==
    ASSUME RecurringInv, ScheduleAssumption, NEW r \in Runs, Evict(r)
    PROVE  RecurringInv'
<1>1. UNCHANGED <<journal, kind, schedules, executions, made, today>> /\ Return(r)
  BY DEF Evict, tables, journalVars
<1>2. mishaps' \in 0..MaxMishaps
  BY DEF Evict, RecurringInv, TypeOK
<1>3. \E local \in RunType : Become(r, local) /\ Works(r)'
  BY <1>1, StillStep, ReturnWorks
<1>. QED
  BY <1>1, <1>2, <1>3, StillStep, RunMoves

\* Steps that leave the runs alone.
LEMMA BesideKeeps ==
    ASSUME RecurringInv, JournalInv', JournalStep, today' \in DueDates,
           UNCHANGED <<kind, schedules, executions, made, run>>, mishaps' \in 0..MaxMishaps
    PROVE  RecurringInv'
<1>1. MadeStays
  BY MadeForStays
<1>2. SchedulesInv' /\ ExecutionsInv'
  BY <1>1, SchedulesStay, ExecutionsStay
<1>3. \A r \in Runs : Works(r)'
  BY <1>1, OthersWork
<1>4. TypeOK'
  BY <1>3 DEF RecurringInv, TypeOK, Works
<1>. QED
  BY <1>2, <1>3, <1>4 DEF RecurringInv

LEMMA RecurringInductive ==
    ASSUME RecurringInv, ScheduleAssumption, [RecurringNext]_vars
    PROVE  RecurringInv'
<1>1. ASSUME NEW r \in Runs, Running(r)
      PROVE  RecurringInv'
  BY <1>1, ReadPriorKeeps, AdvancePastKeeps, DraftExpenseKeeps, PostExpenseKeeps,
     MakeBillKeeps, RecordKeeps, FinishKeeps DEF Running, Continue
<1>2. ASSUME NEW r \in Runs, Asking(r) \/ Changing(r)
      PROVE  RecurringInv'
  BY <1>2, BeginChangeKeeps, ChangeKeeps DEF Asking, Changing
<1>3. ASSUME NEW r \in Runs, Evict(r)
      PROVE  RecurringInv'
  BY <1>3, EvictKeeps
<1>4. ASSUME NEW r \in Runs, NEW of \in Kinds, Starting(r, of)
      PROVE  RecurringInv'
  BY <1>4, BeginKeeps
<1>5. CASE Tomorrow
  <2>1. today' \in DueDates
    BY <1>5 DEF Tomorrow, RecurringInv, TypeOK, DueDates, ScheduleAssumption
  <2>. QED
    BY <1>5, <2>1, UnchangedJournal, BesideKeeps DEF Tomorrow, tables, journalVars, RecurringInv, TypeOK
<1>6. CASE Staff
  <2>1. JournalInv' /\ JournalStep
    <3>1. CASE Reschedule
      BY <3>1, UnchangedJournal DEF Reschedule, journalVars, RecurringInv
    <3>2. ASSUME NEW e \in Entries, NEW date \in Dates, Edit(e, date)
          PROVE  JournalInv' /\ JournalStep
      BY <3>2, EditKeeps DEF RecurringInv
    <3>3. ASSUME NEW e \in Entries, Handle(e, StaffKeys, RequestHash)
          PROVE  JournalInv' /\ JournalStep
      BY <3>3, HandleKeeps DEF RecurringInv
    <3>4. ASSUME NEW e \in Entries, StaffDraftReversal(e)
          PROVE  JournalInv' /\ JournalStep
      BY <3>4, MirrorKeeps DEF RecurringInv, StaffDraftReversal, ScheduleAssumption
    <3>. QED
      BY <1>6, <3>1, <3>2, <3>3, <3>4 DEF Staff
  <2>. QED
    BY <1>6, <2>1, BesideKeeps DEF Staff, tables, RecurringInv, TypeOK
<1>7. CASE UNCHANGED vars
  BY <1>7, UnchangedJournal, BesideKeeps DEF vars, tables, journalVars, RecurringInv, TypeOK
<1>. QED
  BY <1>1, <1>2, <1>3, <1>4, <1>5, <1>6, <1>7 DEF RecurringNext

-----------------------------------------------------------------------------

\* The inductive invariant: what a schedule, an execution or a run has passed was made.
THEOREM RecurringInvariant == RecurringSpec => []RecurringInv
<1>1. ASSUME RecurringInit, MaxMishaps \in Nat
      PROVE  RecurringInv
  <2>1. JournalInv
    BY <1>1, EmptyJournal DEF RecurringInit, Init
  <2>2. SchedulesInv
    BY <1>1, ScheduleAssumption
    DEF RecurringInit, SchedulesInv, ScheduleType, ScheduleStatus, ScheduleKept, Passed,
        DueDates, ScheduleAssumption
  <2>3. ExecutionsInv
    BY <1>1 DEF RecurringInit, ExecutionsInv, ExecutionStatus, ExecutionTrue
  <2>4. \A r \in Runs : run[r] = Idle
    BY <1>1 DEF RecurringInit
  <2>5. \A r \in Runs : Works(r)
    <3>1. \A r \in Runs : run[r].pc = "idle" /\ \A s \in Schedules : ~(run[r].due[s] > 0)
      BY <2>4, IdleIsTyped, ScheduleAssumption
    <3>. QED
      BY <3>1 DEF Works
  <2>6. TypeOK
    <3>1. run \in [Runs -> RunType]
      BY <1>1, IdleIsTyped, ScheduleAssumption DEF RecurringInit
    <3>2. made \in [Schedules -> [DueDates -> 0..2]] /\ today \in DueDates /\ mishaps \in 0..MaxMishaps
      BY <1>1, ScheduleAssumption DEF RecurringInit, DueDates, ScheduleAssumption
    <3>. QED
      BY <1>1, <2>2, <2>3, <2>4, <3>1, <3>2, IdleIsTyped, ScheduleAssumption
      DEF RecurringInit, TypeOK, SchedulesInv, ExecutionsInv
  <2>. QED
    BY <2>1, <2>2, <2>3, <2>5, <2>6 DEF RecurringInv
<1>2. RecurringInv /\ [RecurringNext]_vars => RecurringInv'
  BY RecurringInductive, ScheduleAssumption
<1>. QED
  BY <1>1, <1>2, ScheduleAssumption, PTL DEF RecurringSpec, ScheduleAssumption

\* Every column and local variable keeps its type.
THEOREM TypeCorrect == RecurringSpec => []TypeOK
<1>1. RecurringInv => TypeOK
  BY DEF RecurringInv
<1>. QED
  BY <1>1, RecurringInvariant, PTL

\* Whatever runs overlap, repeat or stop: a schedule is done with a date only when its
\* expense is in the books, once and on that date, or its bill was entered.
THEOREM NothingSkippedEver == RecurringSpec => []NothingSkipped
<1>1. ASSUME RecurringInv, NEW s \in Schedules, NEW date \in DueDates, DoneWith(s, date)
      PROVE  MadeFor(s, date)
  BY <1>1 DEF RecurringInv, SchedulesInv, ScheduleKept, Passed, DoneWith
<1>2. ASSUME RecurringInv, NEW s \in Schedules, NEW date \in DueDates, MadeFor(s, date),
             kind[s] = "expense"
      PROVE  \E e \in Entries : InBooks(s, date) = {e} /\ journal[e].date = date
  <2>1. PICK e \in Entries :
            Posted(e) /\ journal[e].source = Occurrence(s, date) /\ journal[e].date = date
    BY <1>2 DEF MadeFor
  <2>2. Occurrence(s, date) # None
    BY ScheduleAssumption DEF ScheduleAssumption, Occurrences
  <2>3. InBooks(s, date) = {e}
    BY <1>2, <2>1, <2>2
    DEF InBooks, EntriesOf, RecurringInv, JournalInv, OneEntryPerSource, Posted, Stored
  <2>. QED
    BY <2>1, <2>3
<1>3. RecurringInv => NothingSkipped
  BY <1>1, <1>2 DEF NothingSkipped, MadeFor
<1>. QED
  BY <1>3, RecurringInvariant, PTL

\* An execution that says posted or created tells the truth, for ever after.
THEOREM ExecutionsAreTrueAlways == RecurringSpec => []ExecutionsAreTrue
<1>1. RecurringInv => ExecutionsAreTrue
  BY DEF RecurringInv, ExecutionsInv, ExecutionTrue, ExecutionsAreTrue, MadeFor, InBooks,
         EntriesOf, Posted, Stored
<1>. QED
  BY <1>1, RecurringInvariant, PTL

-----------------------------------------------------------------------------
(* To the journal, a run is a caller of its operations.                    *)

LEMMA NextIsABooksStep ==
    ASSUME RecurringInv, ScheduleAssumption, [RecurringNext]_vars
    PROVE  [Next]_<<journalVars, accepting>>
<1>1. RequestHash \in Hashes
  BY DEF RequestHash, ScheduleAssumption
<1>2. ASSUME NEW r \in Runs, DraftExpense(r), UNCHANGED accepting
      PROVE  [Next]_<<journalVars, accepting>>
  <2>. DEFINE date == Scheduled(r)
              source == Occurrence(run[r].schedule, date)
  <2>1. date \in Dates /\ source \in Sources \cup {None}
    BY <1>2, AtWork DEF DraftExpense, At, ScheduleAssumption, Occurrences
  <2>2. CASE IdsLeft /\ Draft(FreshId, date, source)
    BY <1>2, <2>1, <2>2, FreshIdIsFree, DraftIsAStep
  <2>. QED
    BY <1>2, <2>2 DEF DraftExpense
<1>3. ASSUME NEW r \in Runs, PostExpense(r), UNCHANGED accepting
      PROVE  [Next]_<<journalVars, accepting>>
  <2>. DEFINE k == Occurrence(run[r].schedule, Scheduled(r))
  <2>1. k \in Keys /\ run[r].entry \in Entries
    BY <1>3, AtWork DEF PostExpense, At, ScheduleAssumption, Occurrences, RecurringInv, Works
  <2>2. CASE Post(run[r].entry, k, RequestHash)
    BY <1>1, <1>3, <2>1, <2>2, PostIsAStep, Zenon
  <2>. QED
    BY <1>3, <2>2 DEF PostExpense, PostingRefused
<1>4. ASSUME NEW r \in Runs, Running(r)
      PROVE  [Next]_<<journalVars, accepting>>
  BY <1>2, <1>3, <1>4 DEF Running, beside, Continue, ReadPrior, AdvancePast, MakeBill, Record,
                          Finish, Catch
<1>5. ASSUME NEW r \in Runs,
             Asking(r) \/ Changing(r) \/ Evict(r) \/ \E of \in Kinds : Starting(r, of)
      PROVE  UNCHANGED <<journalVars, accepting>>
  BY <1>5 DEF Asking, Changing, BeginChange, Change, Evict, Starting, Begin, beside
<1>6. CASE Staff
  <2>1. StaffKeys \in SUBSET Keys
    BY DEF StaffKeys
  <2>2. ASSUME NEW e \in Entries, UNCHANGED accepting,
               Handle(e, StaffKeys, RequestHash) \/ StaffDraftReversal(e)
        PROVE  Next
    BY <1>1, <2>1, <2>2, HandleIsAStep, MirrorIsAStep, ScheduleAssumption
    DEF StaffDraftReversal, ScheduleAssumption
  <2>. QED
    BY <1>6, <2>2, StaffIsAStep DEF Staff, Next
<1>7. CASE Tomorrow \/ UNCHANGED vars
  BY <1>7 DEF Tomorrow, vars
<1>. QED
  BY <1>4, <1>5, <1>6, <1>7 DEF RecurringNext

\* Runs implement the journal: what they, evictions and staff do to entries are steps
\* that Books allows.
THEOREM RecurringImplementsBooks == RecurringSpec => Spec
<1>1. RecurringInit => Init
  BY DEF RecurringInit
<1>2. RecurringInv /\ [RecurringNext]_vars => [Next]_<<journalVars, accepting>>
  BY ScheduleAssumption, NextIsABooksStep
<1>. QED
  BY <1>1, <1>2, RecurringInvariant, PTL DEF RecurringSpec, Spec

=============================================================================
