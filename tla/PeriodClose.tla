---------------------------- MODULE PeriodClose ----------------------------
(***************************************************************************)
(* The close of one accounting period: src/src/accounting/close/service.ts *)
(* over the tables of accounting-migrations/0011_phase3d_closing_and_audit *)
(* and openAccountingPeriod of setup/periods.ts.                           *)
(*                                                                         *)
(* Unlike the journal, the close writes no batches: every statement is a   *)
(* round trip of its own, so every statement is an action, and a request   *)
(* that is evicted leaves the statements it has executed.  An UPDATE whose *)
(* WHERE clause no longer matches changes nothing and is not noticed.      *)
(***************************************************************************)
EXTENDS Integers, Sequences, SequencesExt

CONSTANTS
    Sessions,    \* identifiers of close sessions, each used at most once
    Requests,    \* in-flight invocations
    CloseTypes,  \* close types of sessions about a period
    CheckCodes,  \* the codes of a session's checks, in the order they are inserted
    Blocking,    \* the codes whose check blocks completion
    Operations,  \* the operations callers use in this instance
    MaxVersion,  \* bound on the session version from which validations start
    MaxCrashes,  \* bound on the number of evictions
    None         \* a local variable that is not set

Codes == ToSet(CheckCodes)

ASSUME CheckCodesAssumption == CheckCodes \in Seq(Codes) /\ CheckCodes # <<>>
ASSUME BlockingAssumption == Blocking \subseteq Codes
ASSUME BoundsAssumption == MaxVersion \in Nat /\ MaxCrashes \in Nat
ASSUME NoneAssumption == None \notin Sessions \cup Codes

VARIABLES
    period,     \* accounting_periods.status of the period
    locks,      \* sessions with an active hard_close row in accounting_period_locks
    sessions,   \* accounting_close_sessions: status, close_type and version
    checks,     \* accounting_close_checks: status and version, by session and code
    snapshots,  \* accounting_close_snapshots of a session in sequence_number order:
                \* for each the version of the session whose completion took it
    issues,     \* the checks the authoritative records would not pass now
    crashes,    \* evictions so far
    req         \* the requests' local variables

tables == <<period, locks, sessions, checks, snapshots>>
vars == <<tables, issues, crashes, req>>

-----------------------------------------------------------------------------
(* Rows and local variables.                                               *)

PeriodStatus == {"future", "open", "locked"}
SessionStatus == {"absent", "draft", "validating", "blocked", "ready_for_review",
                  "reviewed", "approved", "completed", "reopened"}
CheckStatus == {"absent", "pending", "passed", "warning", "failed", "waived"}

\* The partial index idx_close_active_period covers these sessions.
Active == SessionStatus \ {"absent", "completed", "reopened"}

Completable == {"ready_for_review", "reviewed", "approved"}

AbsentSession == [status |-> "absent", type |-> None, version |-> 0]
AbsentCheck == [status |-> "absent", version |-> 0]

Idle == [pc |-> "idle", session |-> None, version |-> 0, type |-> None,
         todo |-> <<>>, failing |-> {}, target |-> None, code |-> None, sequence |-> 0]

At(r, pc) == req[r].pc = pc
Session(r) == sessions[req[r].session]

Become(r, local) == req' = [req EXCEPT ![r] = local]
Goto(r, pc) == Become(r, [req[r] EXCEPT !.pc = pc])
Return(r) == Become(r, Idle)
Begin(r, s, pc) ==
    Become(r, [Idle EXCEPT !.pc = pc, !.session = s, !.version = sessions[s].version])

\* Mutant: there is no partial unique index.
NoOtherActiveUnindexed(s, type) == TRUE

\* The partial unique index: no other active session of the type.
NoOtherActive(s, type) ==
    \A other \in Sessions \ {s} :
        sessions[other].status \in Active => sessions[other].type # type

Unchanged(r) == sessions[req[r].session].version = req[r].version

\* UPDATE accounting_close_sessions SET status, version=version+1 WHERE id.
SetStatus(s, status) ==
    sessions' = [sessions EXCEPT ![s].status = status, ![s].version = @ + 1]

\* Mutant: the version is not compared.
SetStatusUnversioned(r, status) == SetStatus(req[r].session, status)

\* The same with AND version=expectedVersion: nothing happens to a changed row.
SetStatusIfUnchanged(r, status) ==
    \/ Unchanged(r) /\ SetStatus(req[r].session, status)
    \/ ~Unchanged(r) /\ UNCHANGED sessions

-----------------------------------------------------------------------------
(* createCloseSession.                                                     *)

\* An active session of the type is returned instead of a new one.
BeginCreate(r) ==
    /\ At(r, "idle") /\ "create" \in Operations
    /\ \E type \in CloseTypes :
          /\ NoOtherActive(None, type)
          /\ Become(r, [Idle EXCEPT !.pc = "insert_session", !.type = type])
    /\ UNCHANGED <<tables, issues, crashes>>

InsertSession(r) ==
    /\ At(r, "insert_session")
    /\ \/ \E s \in Sessions :
             /\ sessions[s].status = "absent"
             /\ NoOtherActive(s, req[r].type)
             /\ sessions' = [sessions EXCEPT
                               ![s] = [status |-> "draft", type |-> req[r].type, version |-> 1]]
             /\ Become(r, [Idle EXCEPT !.pc = "insert_checks", !.session = s,
                                       !.todo = CheckCodes])
       \/ ~NoOtherActive(None, req[r].type) /\ Return(r) /\ UNCHANGED sessions
    /\ UNCHANGED <<period, locks, checks, snapshots, issues, crashes>>

\* Mutant: the loop does not see its end.
AdvanceWithoutEnd(r, pc) == Become(r, [req[r] EXCEPT !.todo = Tail(@)])

\* What is left to do after the head of the list; the last one ends the loop.
Advance(r, pc) ==
    Become(r, [req[r] EXCEPT !.todo = Tail(@),
                             !.pc = IF Len(req[r].todo) = 1 THEN pc ELSE @])

\* A session has one check of a code.
InsertCheck(r) ==
    /\ At(r, "insert_checks")
    /\ LET s == req[r].session
           code == Head(req[r].todo)
       IN  IF checks[s][code].status = "absent"
           THEN /\ checks' = [checks EXCEPT ![s][code] = [status |-> "pending", version |-> 1]]
                /\ \/ Len(req[r].todo) > 1 /\ Advance(r, "insert_checks")
                   \/ Len(req[r].todo) = 1 /\ Return(r)
           ELSE Return(r) /\ UNCHANGED checks
    /\ UNCHANGED <<period, locks, sessions, snapshots, issues, crashes>>

-----------------------------------------------------------------------------
(* validateCloseSession.                                                   *)

BeginValidate(r) ==
    /\ At(r, "idle") /\ "validate" \in Operations
    /\ \E s \in Sessions :
          /\ sessions[s].status \notin {"absent", "completed"}
          /\ sessions[s].version < MaxVersion
          /\ Begin(r, s, "mark")
    /\ UNCHANGED <<tables, issues, crashes>>

\* Marking a reopened session makes it active again, which the index may refuse.
MarkValidating(r) ==
    /\ At(r, "mark")
    /\ \/ /\ NoOtherActive(req[r].session, Session(r).type)
          /\ SetStatusIfUnchanged(r, "validating")
          /\ Goto(r, "evaluate")
       \/ /\ ~NoOtherActive(req[r].session, Session(r).type)
          /\ \/ Unchanged(r) /\ Return(r)
             \/ ~Unchanged(r) /\ Goto(r, "evaluate")
          /\ UNCHANGED sessions
    /\ UNCHANGED <<period, locks, checks, snapshots, issues, crashes>>

EvaluateChecks(r) ==
    /\ At(r, "evaluate")
    /\ Become(r, [req[r] EXCEPT !.pc = "write_checks", !.failing = issues,
                                !.todo = CheckCodes])
    /\ UNCHANGED <<tables, issues, crashes>>

\* The result of an evaluation for one check.
Result(code, failing) ==
    IF code \notin failing THEN "passed"
    ELSE IF code \in Blocking THEN "failed" ELSE "warning"

\* The UPDATE of a check whose row was never inserted changes nothing.
WriteCheck(r) ==
    /\ At(r, "write_checks")
    /\ LET s == req[r].session
           code == Head(req[r].todo) IN
       checks' = IF checks[s][code].status = "absent" THEN checks
                 ELSE [checks EXCEPT ![s][code] =
                         [status |-> Result(code, req[r].failing), version |-> @.version + 1]]
    /\ Advance(r, "read_blockers")
    /\ UNCHANGED <<period, locks, sessions, snapshots, issues, crashes>>

ReadBlockers(r) ==
    /\ At(r, "read_blockers")
    /\ \/ /\ \E code \in Blocking : checks[req[r].session][code].status = "failed"
          /\ Become(r, [req[r] EXCEPT !.pc = "finish_validate", !.target = "blocked"])
       \/ /\ \A code \in Blocking : checks[req[r].session][code].status # "failed"
          /\ Become(r, [req[r] EXCEPT !.pc = "finish_validate", !.target = "ready_for_review"])
    /\ UNCHANGED <<tables, issues, crashes>>

\* The last UPDATE names the session by its id alone.
FinishValidate(r) ==
    /\ At(r, "finish_validate")
    /\ \/ /\ NoOtherActive(req[r].session, Session(r).type)
          /\ SetStatus(req[r].session, req[r].target)
       \/ ~NoOtherActive(req[r].session, Session(r).type) /\ UNCHANGED sessions
    /\ Return(r)
    /\ UNCHANGED <<period, locks, checks, snapshots, issues, crashes>>

-----------------------------------------------------------------------------
(* waiveCloseCheck and reviewCloseSession.                                 *)

BeginWaive(r) ==
    /\ At(r, "idle") /\ "waive" \in Operations
    /\ \E s \in Sessions, code \in Codes \ Blocking :
          /\ checks[s][code].status \in {"warning", "pending"}
          /\ Become(r, [Idle EXCEPT !.pc = "waive", !.session = s, !.code = code,
                                    !.version = checks[s][code].version])
    /\ UNCHANGED <<tables, issues, crashes>>

\* Mutant: the check is waived whatever became of it.
CheckUnchangedAlways(r) == TRUE

CheckUnchanged(r) == checks[req[r].session][req[r].code].version = req[r].version

WriteWaive(r) ==
    /\ At(r, "waive")
    /\ checks' = IF CheckUnchanged(r)
                 THEN [checks EXCEPT ![req[r].session][req[r].code] =
                         [status |-> "waived", version |-> @.version + 1]]
                 ELSE checks
    /\ Return(r)
    /\ UNCHANGED <<period, locks, sessions, snapshots, issues, crashes>>

BeginReview(r) ==
    /\ At(r, "idle") /\ "review" \in Operations
    /\ \E s \in Sessions, target \in {"reviewed", "approved"} :
          /\ \/ sessions[s].status = "ready_for_review"
             \/ sessions[s].status = "reviewed" /\ target = "approved"
          /\ Become(r, [Idle EXCEPT !.pc = "review", !.session = s, !.target = target,
                                    !.version = sessions[s].version])
    /\ UNCHANGED <<tables, issues, crashes>>

WriteReview(r) ==
    /\ At(r, "review")
    /\ SetStatusIfUnchanged(r, req[r].target)
    /\ Return(r)
    /\ UNCHANGED <<period, locks, checks, snapshots, issues, crashes>>

-----------------------------------------------------------------------------
(* completeCloseSession.                                                   *)

\* A completed session is returned as it is.
BeginComplete(r) ==
    /\ At(r, "idle") /\ "complete" \in Operations
    /\ \E s \in Sessions :
          sessions[s].status \in Completable /\ Begin(r, s, "read_blocking")
    /\ UNCHANGED <<tables, issues, crashes>>

\* Checks that were inserted and are blocking must have passed.
NoneBlocks(s) ==
    \A code \in Blocking : checks[s][code].status \in {"absent", "passed"}

\* Mutant: the snapshot is forgotten.
ReadBlockingThenLock(r) ==
    /\ At(r, "read_blocking")
    /\ \/ NoneBlocks(req[r].session) /\ Goto(r, "lock_period")
       \/ ~NoneBlocks(req[r].session) /\ Return(r)
    /\ UNCHANGED <<tables, issues, crashes>>

ReadBlocking(r) ==
    /\ At(r, "read_blocking")
    /\ \/ NoneBlocks(req[r].session) /\ Goto(r, "read_sequence")
       \/ ~NoneBlocks(req[r].session) /\ Return(r)
    /\ UNCHANGED <<tables, issues, crashes>>

\* Mutant: every completion takes the snapshot number 1.
ReadSequenceFirst(r) ==
    /\ At(r, "read_sequence")
    /\ Become(r, [req[r] EXCEPT !.pc = "insert_snapshot", !.sequence = 1])
    /\ UNCHANGED <<tables, issues, crashes>>

ReadSequence(r) ==
    /\ At(r, "read_sequence")
    /\ Become(r, [req[r] EXCEPT !.pc = "insert_snapshot",
                                !.sequence = Len(snapshots[req[r].session]) + 1])
    /\ UNCHANGED <<tables, issues, crashes>>

\* UNIQUE (close_session_id, sequence_number) refuses a number taken meanwhile.
InsertSnapshot(r) ==
    /\ At(r, "insert_snapshot")
    /\ LET s == req[r].session IN
       \/ /\ req[r].sequence > Len(snapshots[s])
          /\ snapshots' = [snapshots EXCEPT ![s] = Append(@, req[r].version)]
          /\ Goto(r, "lock_period")
       \/ req[r].sequence <= Len(snapshots[s]) /\ Return(r) /\ UNCHANGED snapshots
    /\ UNCHANGED <<period, locks, sessions, checks, issues, crashes>>

LockPeriod(r) ==
    /\ At(r, "lock_period")
    /\ period' = "locked"
    /\ Goto(r, "insert_lock")
    /\ UNCHANGED <<locks, sessions, checks, snapshots, issues, crashes>>

InsertLock(r) ==
    /\ At(r, "insert_lock")
    /\ locks' = locks \cup {req[r].session}
    /\ Goto(r, "finish_complete")
    /\ UNCHANGED <<period, sessions, checks, snapshots, issues, crashes>>

FinishComplete(r) ==
    /\ At(r, "finish_complete")
    /\ SetStatusIfUnchanged(r, "completed")
    /\ Return(r)
    /\ UNCHANGED <<period, locks, checks, snapshots, issues, crashes>>

-----------------------------------------------------------------------------
(* reopenCloseSession, and openAccountingPeriod of setup/periods.ts.       *)

\* Mutant: a period that is no longer locked needs no reopening.
BeginReopenLocked(r) ==
    /\ At(r, "idle") /\ "reopen" \in Operations
    /\ \E s \in Sessions :
          sessions[s].status = "completed" /\ period = "locked" /\ Begin(r, s, "unlock")
    /\ UNCHANGED <<tables, issues, crashes>>

BeginReopen(r) ==
    /\ At(r, "idle") /\ "reopen" \in Operations
    /\ \E s \in Sessions : sessions[s].status = "completed" /\ Begin(r, s, "unlock")
    /\ UNCHANGED <<tables, issues, crashes>>

Unlock(r) ==
    /\ At(r, "unlock")
    /\ locks' = {}
    /\ Goto(r, "reopen_period")
    /\ UNCHANGED <<period, sessions, checks, snapshots, issues, crashes>>

ReopenPeriod(r) ==
    /\ At(r, "reopen_period")
    /\ period' = "open"
    /\ Goto(r, "finish_reopen")
    /\ UNCHANGED <<locks, sessions, checks, snapshots, issues, crashes>>

FinishReopen(r) ==
    /\ At(r, "finish_reopen")
    /\ SetStatusIfUnchanged(r, "reopened")
    /\ Return(r)
    /\ UNCHANGED <<period, locks, checks, snapshots, issues, crashes>>

BeginOpen(r) ==
    /\ At(r, "idle") /\ "open" \in Operations
    /\ period = "future"
    /\ Become(r, [Idle EXCEPT !.pc = "read_lock"])
    /\ UNCHANGED <<tables, issues, crashes>>

ReadLock(r) ==
    /\ At(r, "read_lock")
    /\ \/ locks = {} /\ Goto(r, "open_period")
       \/ locks # {} /\ Return(r)
    /\ UNCHANGED <<tables, issues, crashes>>

\* The batch aborts unless the period is still unopened and unlocked.
BatchOpen(r) ==
    /\ At(r, "open_period")
    /\ \/ period = "future" /\ locks = {} /\ period' = "open"
       \/ (period # "future" \/ locks # {}) /\ UNCHANGED period
    /\ Return(r)
    /\ UNCHANGED <<locks, sessions, checks, snapshots, issues, crashes>>

-----------------------------------------------------------------------------
(* The environment.                                                        *)

\* Work elsewhere in the books makes an evaluation of a check come out otherwise.
ChangeRecords(code) ==
    /\ "records" \in Operations
    /\ issues' \in {issues \cup {code}, issues \ {code}}
    /\ UNCHANGED <<tables, crashes, req>>

\* A Worker isolate may be evicted at any await.
Crash(r) ==
    /\ ~At(r, "idle") /\ crashes < MaxCrashes
    /\ crashes' = crashes + 1
    /\ Return(r)
    /\ UNCHANGED <<tables, issues>>

-----------------------------------------------------------------------------

Init ==
    /\ period \in {"future", "open"}
    /\ locks = {}
    /\ sessions = [s \in Sessions |-> AbsentSession]
    /\ checks = [s \in Sessions |-> [code \in Codes |-> AbsentCheck]]
    /\ snapshots = [s \in Sessions |-> <<>>]
    /\ issues = {}
    /\ crashes = 0
    /\ req = [r \in Requests |-> Idle]

Creating(r) == BeginCreate(r) \/ InsertSession(r) \/ InsertCheck(r)

Validating(r) ==
    \/ BeginValidate(r) \/ MarkValidating(r) \/ EvaluateChecks(r)
    \/ WriteCheck(r) \/ ReadBlockers(r) \/ FinishValidate(r)

Reviewing(r) == BeginWaive(r) \/ WriteWaive(r) \/ BeginReview(r) \/ WriteReview(r)

Completing(r) ==
    \/ ReadBlocking(r) \/ ReadSequence(r) \/ InsertSnapshot(r)
    \/ LockPeriod(r) \/ InsertLock(r) \/ FinishComplete(r)

Reopening(r) == Unlock(r) \/ ReopenPeriod(r) \/ FinishReopen(r)

Opening(r) == BeginOpen(r) \/ ReadLock(r) \/ BatchOpen(r)

Next ==
    \/ \E r \in Requests :
          \/ Creating(r) \/ Validating(r) \/ Reviewing(r)
          \/ BeginComplete(r) \/ Completing(r)
          \/ BeginReopen(r) \/ Reopening(r)
          \/ Opening(r) \/ Crash(r)
    \/ \E code \in Codes : ChangeRecords(code)

Spec == Init /\ [][Next]_vars

=============================================================================
