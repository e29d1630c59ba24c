----------------------- MODULE PeriodCloseProperties -----------------------
(* What the close of a period keeps.                                       *)
EXTENDS PeriodClose

SessionType == [status : SessionStatus, type : CloseTypes \cup {None}, version : Nat]
CheckType == [status : CheckStatus, version : Nat]

PC == {"idle", "insert_session", "insert_checks", "mark", "evaluate", "write_checks",
       "read_blockers", "finish_validate", "waive", "review", "read_blocking",
       "read_sequence", "insert_snapshot", "lock_period", "insert_lock",
       "finish_complete", "unlock", "reopen_period", "finish_reopen", "read_lock",
       "open_period"}

RequestType ==
    [pc : PC, session : Sessions \cup {None}, version : Nat, type : CloseTypes \cup {None},
     todo : Seq(Codes), failing : SUBSET Codes, target : SessionStatus \cup {None},
     code : Codes \cup {None}, sequence : Nat]

\* Requests that need no session, and those that walk through a list of checks.
Sessionless == {"idle", "insert_session", "read_lock", "open_period"}
Walking == {"insert_checks", "write_checks"}

TablesTyped ==
    /\ period \in PeriodStatus
    /\ locks \subseteq Sessions
    /\ sessions \in [Sessions -> SessionType]
    /\ checks \in [Sessions -> [Codes -> CheckType]]
    /\ snapshots \in [Sessions -> Seq(Nat)]
    /\ issues \subseteq Codes
    /\ crashes \in Nat
    /\ \A s \in Sessions : sessions[s].status # "absent" =>
          sessions[s].type \in CloseTypes /\ sessions[s].version >= 1

\* The local variables of a request are set when it uses them.
LocalsComplete(local) ==
    /\ local \in RequestType
    /\ local.pc \notin Sessionless =>
          local.session \in Sessions /\ sessions[local.session].status # "absent"
    /\ local.pc \in Walking => local.todo # <<>>
    /\ local.pc = "insert_session" => local.type \in CloseTypes
    /\ local.pc = "waive" => local.code \in Codes \ Blocking
    /\ local.pc = "review" => local.target \in {"reviewed", "approved"}
    /\ local.pc = "finish_validate" => local.target \in {"blocked", "ready_for_review"}

\* Every column and local variable has its type and is set when it is used; a
\* session that exists has a type, and its version counts its updates.
TypeOK ==
    /\ TablesTyped
    /\ req \in [Requests -> RequestType]
    /\ \A r \in Requests : LocalsComplete(req[r])

-----------------------------------------------------------------------------
(* Safety.                                                                 *)

\* createCloseSession reads before it inserts, and a validation makes a reopened
\* session active again: still a period has one active session of a type.
OneActiveSession ==
    \A s, other \in Sessions :
        /\ sessions[s].status \in Active /\ sessions[other].status \in Active
        /\ sessions[s].type = sessions[other].type
        => s = other

\* completeCloseSession: a completed session has the snapshot that this very
\* completion took, not only one that an earlier completion has left behind.
CompletedHasItsSnapshot ==
    \A s \in Sessions : sessions[s].status = "completed" =>
        \E i \in DOMAIN snapshots[s] : snapshots[s][i] = sessions[s].version - 1

\* The hard lock follows the snapshot: whatever crashes or races with it, a
\* session has no lock row before it has a snapshot.
LockFollowsSnapshot == \A s \in locks : snapshots[s] # <<>>

\* The version a completion read stands for the status it read: nothing but a
\* session that could be completed becomes completed.
CompletesCompletable ==
    [][\A s \in Sessions :
          sessions[s].status # "completed" /\ sessions'[s].status = "completed" =>
             sessions[s].status \in Completable]_vars

\* waiveCloseCheck: a check is waived as the reviewer saw it, never one that a
\* concurrent validation has found to pass.
WaivesWhatWasSeen ==
    [][\A s \in Sessions, code \in Codes :
          checks[s][code].status # "waived" /\ checks'[s][code].status = "waived" =>
             checks[s][code].status \in {"warning", "pending"}]_vars

-----------------------------------------------------------------------------
(* The inductive invariant.                                                *)

Holding == {"lock_period", "insert_lock", "finish_complete"}
Committed == {"read_blocking", "read_sequence", "insert_snapshot", "review"} \cup Holding

\* A review or a completion has read a version the session has or had, and while
\* it has it the status it read; the snapshot a completion locks on is there.
LocalsSound(local) ==
    /\ local.pc \in Committed =>
          /\ local.version <= sessions[local.session].version
          /\ sessions[local.session].version = local.version =>
                sessions[local.session].status \in Completable
    /\ local.pc \in Holding =>
          \E i \in DOMAIN snapshots[local.session] :
             snapshots[local.session][i] = local.version

\* Only a session that was inserted has checks.
ChecksOfSessions ==
    \A s \in Sessions, code \in Codes :
        checks[s][code].status # "absent" => sessions[s].status # "absent"

IInv ==
    /\ TypeOK
    /\ ChecksOfSessions
    /\ OneActiveSession
    /\ CompletedHasItsSnapshot
    /\ LockFollowsSnapshot
    /\ \A r \in Requests : LocalsSound(req[r])

-----------------------------------------------------------------------------
(* Liveness: a user who presses the button again after every failure gets  *)
(* through, because a request that was evicted half-way can be repeated.   *)

\* A session that was validated and found ready.
ReadyInit ==
    /\ period = "open"
    /\ locks = {}
    /\ \E ready \in Sessions, type \in CloseTypes :
          /\ sessions = [s \in Sessions |->
                           IF s = ready
                           THEN [status |-> "ready_for_review", type |-> type, version |-> 3]
                           ELSE AbsentSession]
          /\ checks = [s \in Sessions |-> [code \in Codes |->
                           IF s = ready THEN [status |-> "passed", version |-> 2]
                           ELSE AbsentCheck]]
    /\ snapshots = [s \in Sessions |-> <<>>]
    /\ issues = {}
    /\ crashes = 0
    /\ req = [r \in Requests |-> Idle]

\* An isolate that is not evicted runs on; the user repeats what has not succeeded.
Fairness ==
    \A r \in Requests :
        /\ WF_vars(Completing(r)) /\ WF_vars(Reopening(r))
        /\ WF_vars(BeginComplete(r)) /\ WF_vars(BeginReopen(r))

ReadySpec == ReadyInit /\ [][Next]_vars /\ Fairness

\* completeCloseSession may be evicted after its snapshot, its period update or
\* its lock row: repeated, it still completes the session.
CompletionRecovers ==
    \A s \in Sessions :
        sessions[s].status \in Completable ~> sessions[s].status = "completed"

\* reopenCloseSession may be evicted after its unlock or its period update:
\* repeated, it still reopens the session.
ReopeningRecovers ==
    \A s \in Sessions : sessions[s].status = "completed" ~> sessions[s].status = "reopened"

=============================================================================
