-------------------------- MODULE PeriodCloseProofs --------------------------
(* Proofs about the close of a period, for any number of sessions, requests, *)
(* checks and evictions.  A step of a request leaves the others' local       *)
(* variables sound because a session only moves to a higher version and the  *)
(* snapshots of a session only grow.                                         *)
EXTENDS PeriodCloseProperties, SequenceTheorems, TLAPS

\* How a session may change in one step.
SessionMoved(s) ==
    \/ sessions'[s] = sessions[s]
    \/ sessions[s].status = "absent"
    \/ /\ sessions'[s].version = sessions[s].version + 1
       /\ sessions'[s].status # "absent"

SessionsMove == \A s \in Sessions : SessionMoved(s)

\* No step takes a snapshot away.
SnapshotsGrow ==
    \A s \in Sessions : \A i \in DOMAIN snapshots[s] :
        i \in DOMAIN snapshots'[s] /\ snapshots'[s][i] = snapshots[s][i]

\* A request without local variables is complete and sound.
LEMMA IdleSound == LocalsComplete(Idle) /\ LocalsSound(Idle)
<1>1. Idle \in RequestType
    BY NoneAssumption DEF Idle, RequestType, PC
<1>2. QED
    BY <1>1 DEF Idle, LocalsComplete, LocalsSound, Sessionless, Walking, Committed, Holding

LEMMA IdleSoundNext == LocalsComplete(Idle)' /\ LocalsSound(Idle)'
<1>1. Idle \in RequestType
    BY IdleSound DEF LocalsComplete
<1>2. QED
    BY <1>1 DEF Idle, LocalsComplete, LocalsSound, Sessionless, Walking, Committed, Holding

\* A request that does not move stays complete and sound.
LEMMA KeptSound ==
    ASSUME TablesTyped, TablesTyped', SessionsMove, SnapshotsGrow,
           NEW local, LocalsComplete(local), LocalsSound(local)
    PROVE  LocalsComplete(local)' /\ LocalsSound(local)'
<1>1. LocalsComplete(local)'
    BY DEF LocalsComplete, SessionsMove, SessionMoved
<1>2. ASSUME local.pc \in Committed
      PROVE  /\ local.version <= sessions'[local.session].version
             /\ sessions'[local.session].version = local.version =>
                   sessions'[local.session].status \in Completable
    <2>1. local.session \in Sessions /\ sessions[local.session].status # "absent"
        BY <1>2 DEF LocalsComplete, Committed, Holding, Sessionless
    <2>2. local.version \in Nat /\ sessions[local.session].version \in Nat
        BY <2>1 DEF LocalsComplete, RequestType, TablesTyped, SessionType
    <2>3. SessionMoved(local.session)
        BY <2>1 DEF SessionsMove
    <2>4. QED
        BY <1>2, <2>1, <2>2, <2>3 DEF SessionMoved, LocalsSound
<1>3. ASSUME local.pc \in Holding
      PROVE  \E i \in DOMAIN snapshots'[local.session] :
                snapshots'[local.session][i] = local.version
    <2>1. local.session \in Sessions
        BY <1>3 DEF LocalsComplete, Holding, Sessionless
    <2>2. QED
        BY <1>3, <2>1 DEF LocalsSound, SnapshotsGrow
<1>4. QED
    BY <1>1, <1>2, <1>3 DEF LocalsSound

LEMMA BecomeKeeps ==
    ASSUME IInv, NEW r \in Requests, NEW local, Become(r, local),
           TablesTyped', SessionsMove, SnapshotsGrow,
           LocalsComplete(local)', LocalsSound(local)',
           ChecksOfSessions', OneActiveSession', CompletedHasItsSnapshot', LockFollowsSnapshot'
    PROVE  IInv'
<1>1. TypeOK /\ TablesTyped /\ req \in [Requests -> RequestType]
    BY DEF IInv, TypeOK
<1>2. local \in RequestType
    BY DEF LocalsComplete
<1>3. req' \in [Requests -> RequestType]
    BY <1>1, <1>2 DEF Become
<1>4. ASSUME NEW q \in Requests
      PROVE  LocalsComplete(req[q])' /\ LocalsSound(req[q])'
    <2>1. CASE q = r
        BY <1>1, <2>1 DEF Become, LocalsComplete, LocalsSound
    <2>2. CASE q # r
        <3>1. req'[q] = req[q]
            BY <1>1, <2>2 DEF Become
        <3>2. PICK kept : kept = req[q]
            OBVIOUS
        <3>3. LocalsComplete(kept) /\ LocalsSound(kept)
            BY <3>2 DEF IInv, TypeOK
        <3>4. LocalsComplete(kept)' /\ LocalsSound(kept)'
            BY <1>1, <3>3, KeptSound
        <3>5. QED
            BY <3>1, <3>2, <3>4 DEF LocalsComplete, LocalsSound
    <2>3. QED
        BY <2>1, <2>2
<1>5. QED
    BY <1>3, <1>4 DEF IInv, TypeOK

-----------------------------------------------------------------------------
(* The steps that only move a request.                                     *)

\* A step that leaves sessions and snapshots alone.
LEMMA TableStep ==
    ASSUME IInv, NEW r \in Requests, NEW local, Become(r, local),
           UNCHANGED <<sessions, snapshots>>,
           issues' \subseteq Codes, crashes' \in Nat, period' \in PeriodStatus,
           checks' \in [Sessions -> [Codes -> CheckType]], ChecksOfSessions',
           \A s \in locks' : s \in Sessions /\ snapshots[s] # <<>>,
           LocalsComplete(local), LocalsSound(local)
    PROVE  IInv'
<1>1. TablesTyped /\ TablesTyped'
    BY DEF IInv, TypeOK, TablesTyped
<1>2. SessionsMove /\ SnapshotsGrow
    BY DEF SessionsMove, SessionMoved, SnapshotsGrow
<1>3. OneActiveSession' /\ CompletedHasItsSnapshot' /\ LockFollowsSnapshot'
    BY DEF IInv, OneActiveSession, CompletedHasItsSnapshot, LockFollowsSnapshot
<1>4. LocalsComplete(local)' /\ LocalsSound(local)'
    BY <1>1, <1>2, KeptSound
<1>5. QED
    BY <1>1, <1>2, <1>3, <1>4, BecomeKeeps

LEMMA LocalStep ==
    ASSUME IInv, NEW r \in Requests, NEW local, Become(r, local), UNCHANGED tables,
           issues' \subseteq Codes, crashes' \in Nat,
           LocalsComplete(local), LocalsSound(local)
    PROVE  IInv'
BY TableStep DEF tables, IInv, TypeOK, TablesTyped, LockFollowsSnapshot, ChecksOfSessions

LEMMA ReturnStep ==
    ASSUME IInv, NEW r \in Requests, Return(r), UNCHANGED tables,
           issues' \subseteq Codes, crashes' \in Nat
    PROVE  IInv'
BY LocalStep, IdleSound DEF Return

LEMMA Parts ==
    ASSUME IInv
    PROVE  /\ TypeOK /\ TablesTyped /\ req \in [Requests -> RequestType]
           /\ issues \subseteq Codes /\ crashes \in Nat
           /\ \A r \in Requests :
                 req[r] \in RequestType /\ LocalsComplete(req[r]) /\ LocalsSound(req[r])
BY DEF IInv, TypeOK, TablesTyped

\* A request that is about to work on a session it has just read.
LEMMA BeginSound ==
    ASSUME IInv, NEW s \in Sessions, sessions[s].status # "absent", NEW pc \in PC,
           NEW local, pc \notin Walking \cup Holding \cup
               {"insert_session", "waive", "review", "finish_validate"},
           local = [Idle EXCEPT !.pc = pc, !.session = s, !.version = sessions[s].version],
           pc \in Committed => sessions[s].status \in Completable
    PROVE  LocalsComplete(local) /\ LocalsSound(local)
<1>1. Idle \in RequestType /\ sessions[s].version \in Nat
    BY IdleSound, Parts DEF LocalsComplete, TablesTyped, SessionType
<1>2. local \in RequestType
    BY <1>1 DEF RequestType
<1>3. local.pc = pc /\ local.session = s /\ local.version = sessions[s].version
    BY <1>1 DEF RequestType
<1>4. QED
    BY <1>1, <1>2, <1>3 DEF LocalsComplete, LocalsSound

LEMMA BeginsKeep ==
    ASSUME IInv, NEW r \in Requests,
           BeginValidate(r) \/ BeginComplete(r) \/ BeginReopen(r)
    PROVE  IInv'
<1>1. CASE BeginValidate(r)
    <2>1. PICK s \in Sessions : sessions[s].status # "absent" /\ Begin(r, s, "mark")
        BY <1>1 DEF BeginValidate
    <2>2. QED
        BY <1>1, <2>1, BeginSound, LocalStep, Parts
        DEF BeginValidate, Begin, PC, Walking, Holding, Committed
<1>2. CASE BeginComplete(r)
    <2>1. PICK s \in Sessions :
             sessions[s].status \in Completable /\ Begin(r, s, "read_blocking")
        BY <1>2 DEF BeginComplete
    <2>2. QED
        BY <1>2, <2>1, BeginSound, LocalStep, Parts
        DEF BeginComplete, Begin, PC, Walking, Holding, Committed, Completable
<1>3. CASE BeginReopen(r)
    <2>1. PICK s \in Sessions :
             sessions[s].status = "completed" /\ Begin(r, s, "unlock")
        BY <1>3 DEF BeginReopen
    <2>2. QED
        BY <1>3, <2>1, BeginSound, LocalStep, Parts
        DEF BeginReopen, Begin, PC, Walking, Holding, Committed
<1>4. QED
    BY <1>1, <1>2, <1>3

\* A request that goes on to a step which needs no more than it has.
LEMMA GotoSound ==
    ASSUME IInv, NEW r \in Requests, ~At(r, "idle"),
           NEW pc \in PC \ (Walking \cup Committed \cup
                             {"insert_session", "waive", "finish_validate"}),
           NEW local, local = [req[r] EXCEPT !.pc = pc],
           pc \notin Sessionless => req[r].pc \notin Sessionless
    PROVE  LocalsComplete(local) /\ LocalsSound(local)
<1>1. req[r] \in RequestType /\ LocalsComplete(req[r])
    BY Parts
<1>2. local \in RequestType /\ local.pc = pc /\ local.session = req[r].session
    BY <1>1 DEF RequestType
<1>3. QED
    BY <1>1, <1>2 DEF LocalsComplete, LocalsSound, Committed

LEMMA CreatingLocals ==
    ASSUME IInv, NEW r \in Requests, BeginCreate(r)
    PROVE  IInv'
<1>1. PICK type \in CloseTypes : Become(r, [Idle EXCEPT !.pc = "insert_session", !.type = type])
    BY DEF BeginCreate
<1> DEFINE local == [Idle EXCEPT !.pc = "insert_session", !.type = type]
<1>2. local \in RequestType /\ local.pc = "insert_session" /\ local.type = type
    BY IdleSound DEF LocalsComplete, RequestType, PC
<1>3. LocalsComplete(local) /\ LocalsSound(local)
    BY <1>2 DEF LocalsComplete, LocalsSound, Sessionless, Walking, Committed, Holding
<1>4. QED
    BY <1>1, <1>3, LocalStep, Parts DEF BeginCreate

LEMMA ValidatingLocals ==
    ASSUME IInv, NEW r \in Requests, EvaluateChecks(r) \/ ReadBlockers(r)
    PROVE  IInv'
<1>1. req[r] \in RequestType /\ LocalsComplete(req[r]) /\ LocalsSound(req[r])
    BY Parts
<1>2. CASE EvaluateChecks(r)
    <2> DEFINE local == [req[r] EXCEPT !.pc = "write_checks", !.failing = issues,
                                       !.todo = CheckCodes]
    <2>1. /\ local \in RequestType /\ local.pc = "write_checks" /\ local.todo = CheckCodes
          /\ local.session = req[r].session
        BY <1>1, Parts, CheckCodesAssumption DEF RequestType, PC
    <2>2. LocalsComplete(local) /\ LocalsSound(local)
        BY <1>1, <1>2, <2>1, CheckCodesAssumption
        DEF EvaluateChecks, At, LocalsComplete, LocalsSound, Sessionless, Walking, Committed, Holding
    <2>3. QED
        BY <1>2, <2>2, LocalStep, Parts DEF EvaluateChecks
<1>3. CASE ReadBlockers(r)
    <2>1. PICK target \in {"blocked", "ready_for_review"} :
             Become(r, [req[r] EXCEPT !.pc = "finish_validate", !.target = target])
        BY <1>3 DEF ReadBlockers
    <2> DEFINE local == [req[r] EXCEPT !.pc = "finish_validate", !.target = target]
    <2>2. /\ local \in RequestType /\ local.pc = "finish_validate" /\ local.target = target
          /\ local.session = req[r].session
        BY <1>1, <2>1 DEF RequestType, PC, SessionStatus
    <2>3. LocalsComplete(local) /\ LocalsSound(local)
        BY <1>1, <1>3, <2>2
        DEF ReadBlockers, At, LocalsComplete, LocalsSound, Sessionless, Walking, Committed, Holding
    <2>4. QED
        BY <1>3, <2>1, <2>3, LocalStep, Parts DEF ReadBlockers
<1>4. QED
    BY <1>2, <1>3

LEMMA ReviewingLocals ==
    ASSUME IInv, NEW r \in Requests, BeginWaive(r) \/ BeginReview(r)
    PROVE  IInv'
<1>1. Idle \in RequestType /\ TablesTyped
    BY IdleSound, Parts DEF LocalsComplete
<1>2. CASE BeginWaive(r)
    <2>1. PICK s \in Sessions, code \in Codes \ Blocking :
             /\ checks[s][code].status \in {"warning", "pending"}
             /\ Become(r, [Idle EXCEPT !.pc = "waive", !.session = s, !.code = code,
                                       !.version = checks[s][code].version])
        BY <1>2 DEF BeginWaive
    <2> DEFINE version == checks[s][code].version
               local == [Idle EXCEPT !.pc = "waive", !.session = s, !.code = code,
                                     !.version = version]
    <2>0. version \in Nat
        BY <1>1 DEF TablesTyped, CheckType
    <2>2. /\ local \in RequestType /\ local.pc = "waive" /\ local.session = s
          /\ local.code = code
        <3> HIDE DEF version
        <3>1. QED
            BY <1>1, <2>0 DEF RequestType, PC
    <2>3. sessions[s].status # "absent"
        BY <2>1, Parts DEF IInv, ChecksOfSessions
    <2>4. LocalsComplete(local) /\ LocalsSound(local)
        BY <2>2, <2>3 DEF LocalsComplete, LocalsSound, Walking, Committed, Holding
    <2>5. QED
        BY <1>2, <2>1, <2>4, LocalStep, Parts DEF BeginWaive
<1>3. CASE BeginReview(r)
    <2>1. PICK s \in Sessions, target \in {"reviewed", "approved"} :
             /\ sessions[s].status \in Completable
             /\ Become(r, [Idle EXCEPT !.pc = "review", !.session = s, !.target = target,
                                       !.version = sessions[s].version])
        BY <1>3 DEF BeginReview, Completable
    <2> DEFINE local == [Idle EXCEPT !.pc = "review", !.session = s, !.target = target,
                                     !.version = sessions[s].version]
    <2>2. /\ local \in RequestType /\ local.pc = "review" /\ local.session = s
          /\ local.target = target /\ local.version = sessions[s].version
        BY <1>1 DEF RequestType, PC, TablesTyped, SessionType, SessionStatus
    <2>3. LocalsComplete(local) /\ LocalsSound(local)
        BY <1>1, <2>1, <2>2
        DEF LocalsComplete, LocalsSound, Walking, Committed, Holding, Completable,
            TablesTyped, SessionType
    <2>4. QED
        BY <1>3, <2>1, <2>3, LocalStep, Parts DEF BeginReview
<1>4. QED
    BY <1>2, <1>3

LEMMA CompletingLocals ==
    ASSUME IInv, NEW r \in Requests, ReadBlocking(r) \/ ReadSequence(r)
    PROVE  IInv'
<1>1. req[r] \in RequestType /\ LocalsComplete(req[r]) /\ LocalsSound(req[r]) /\ TablesTyped
    BY Parts
<1>2. CASE ReadBlocking(r) /\ ~Return(r)
    <2> DEFINE local == [req[r] EXCEPT !.pc = "read_sequence"]
    <2>1. /\ local \in RequestType /\ local.pc = "read_sequence"
          /\ local.session = req[r].session /\ local.version = req[r].version
        BY <1>1 DEF RequestType, PC
    <2>2. LocalsComplete(local) /\ LocalsSound(local)
        BY <1>1, <1>2, <2>1
        DEF ReadBlocking, At, LocalsComplete, LocalsSound, Sessionless, Walking, Committed, Holding
    <2>3. QED
        BY <1>2, <2>2, LocalStep, Parts DEF ReadBlocking, Goto
<1>3. CASE ReadSequence(r)
    <2> DEFINE sequence == Len(snapshots[req[r].session]) + 1
               local == [req[r] EXCEPT !.pc = "insert_snapshot", !.sequence = sequence]
    <2>1. req[r].session \in Sessions
        BY <1>1, <1>3 DEF ReadSequence, At, LocalsComplete, Sessionless
    <2>2. sequence \in Nat
        BY <1>1, <2>1 DEF TablesTyped
    <2>3. /\ local \in RequestType /\ local.pc = "insert_snapshot"
          /\ local.session = req[r].session /\ local.version = req[r].version
        <3> HIDE DEF sequence
        <3>1. QED
            BY <1>1, <2>2 DEF RequestType, PC
    <2>4. LocalsComplete(local) /\ LocalsSound(local)
        BY <1>1, <1>3, <2>3
        DEF ReadSequence, At, LocalsComplete, LocalsSound, Sessionless, Walking, Committed, Holding
    <2>5. QED
        BY <1>3, <2>4, LocalStep, Parts DEF ReadSequence
<1>4. CASE ReadBlocking(r) /\ Return(r)
    BY <1>4, ReturnStep, Parts DEF ReadBlocking
<1>5. QED
    BY <1>2, <1>3, <1>4

LEMMA OpeningLocals ==
    ASSUME IInv, NEW r \in Requests, BeginOpen(r) \/ ReadLock(r)
    PROVE  IInv'
<1>1. CASE BeginOpen(r)
    <2> DEFINE local == [Idle EXCEPT !.pc = "read_lock"]
    <2>1. local \in RequestType /\ local.pc = "read_lock"
        BY IdleSound DEF LocalsComplete, RequestType, PC
    <2>2. LocalsComplete(local) /\ LocalsSound(local)
        BY <2>1 DEF LocalsComplete, LocalsSound, Sessionless, Walking, Committed, Holding
    <2>3. QED
        BY <1>1, <2>2, LocalStep, Parts DEF BeginOpen
<1>2. CASE ReadLock(r)
    BY <1>2, GotoSound, LocalStep, ReturnStep, Parts
    DEF ReadLock, At, Goto, PC, Walking, Committed, Holding, Sessionless
<1>3. QED
    BY <1>1, <1>2

-----------------------------------------------------------------------------
(* The steps that write checks, locks and the period.                      *)

LEMMA AdvanceSound ==
    ASSUME IInv, NEW r \in Requests, req[r].pc \in Walking,
           NEW end, Len(req[r].todo) = 1 => end = "read_blockers",
           NEW local,
           local = [req[r] EXCEPT !.todo = Tail(@),
                                  !.pc = IF Len(req[r].todo) = 1 THEN end ELSE @]
    PROVE  LocalsComplete(local) /\ LocalsSound(local)
<1>1. req[r] \in RequestType /\ LocalsComplete(req[r])
    BY Parts
<1>2. req[r].todo \in Seq(Codes) /\ req[r].todo # <<>>
    BY <1>1 DEF LocalsComplete, RequestType
<1>3. Tail(req[r].todo) \in Seq(Codes) /\ Len(Tail(req[r].todo)) = Len(req[r].todo) - 1
    BY <1>2, HeadTailProperties
<1>4. Len(req[r].todo) # 1 => Tail(req[r].todo) # <<>>
    <2>1. Len(req[r].todo) \in Nat /\ Len(<<>>) = 0
        BY <1>2, LenProperties, EmptySeq
    <2>2. Tail(req[r].todo) = <<>> => Len(Tail(req[r].todo)) = Len(<<>>)
        BY Zenon
    <2>3. QED
        BY <1>3, <2>1, <2>2
<1>5. /\ local \in RequestType /\ local.session = req[r].session
      /\ local.todo = Tail(req[r].todo)
      /\ local.pc = IF Len(req[r].todo) = 1 THEN end ELSE req[r].pc
    <2> DEFINE todo == Tail(req[r].todo)
               pc == IF Len(req[r].todo) = 1 THEN end ELSE req[r].pc
    <2>1. todo \in Seq(Codes) /\ pc \in PC
        BY <1>1, <1>3 DEF RequestType, PC
    <2>2. local = [req[r] EXCEPT !.todo = todo, !.pc = pc]
        OBVIOUS
    <2> HIDE DEF todo, pc
    <2>3. local \in RequestType /\ local.session = req[r].session /\ local.todo = todo /\ local.pc = pc
        BY <1>1, <2>1, <2>2 DEF RequestType
    <2>4. QED
        BY <2>3 DEF todo, pc
<1>6. QED
    BY <1>1, <1>4, <1>5
    DEF LocalsComplete, LocalsSound, Sessionless, Walking, Committed, Holding

\* Writing one check of a session that exists.
LEMMA CheckWritten ==
    ASSUME IInv, NEW s \in Sessions, NEW code \in Codes, NEW row \in CheckType,
           sessions[s].status # "absent", UNCHANGED sessions,
           checks' = [checks EXCEPT ![s][code] = row]
    PROVE  checks' \in [Sessions -> [Codes -> CheckType]] /\ ChecksOfSessions'
<1>1. checks \in [Sessions -> [Codes -> CheckType]]
    BY Parts DEF TablesTyped
<1>2. checks' \in [Sessions -> [Codes -> CheckType]]
    BY <1>1
<1>3. \A t \in Sessions, c \in Codes : checks'[t][c] = checks[t][c] \/ t = s
    BY <1>1
<1>4. QED
    BY <1>2, <1>3 DEF IInv, ChecksOfSessions

LEMMA ChecksKept ==
    ASSUME IInv, UNCHANGED <<checks, sessions>>
    PROVE  checks' \in [Sessions -> [Codes -> CheckType]] /\ ChecksOfSessions'
BY Parts DEF TablesTyped, IInv, ChecksOfSessions

LEMMA LocksKept ==
    ASSUME IInv
    PROVE  /\ \A s \in locks : s \in Sessions /\ snapshots[s] # <<>>
           /\ period \in PeriodStatus
BY Parts DEF TablesTyped, IInv, LockFollowsSnapshot

LEMMA CheckSteps ==
    ASSUME IInv, NEW r \in Requests, InsertCheck(r) \/ WriteCheck(r) \/ WriteWaive(r)
    PROVE  IInv'
<1>1. /\ req[r] \in RequestType /\ LocalsComplete(req[r]) /\ TablesTyped
      /\ req[r].session \in Sessions /\ sessions[req[r].session].status # "absent"
    BY Parts DEF InsertCheck, WriteCheck, WriteWaive, At, LocalsComplete, Sessionless
<1>2. ASSUME NEW s \in Sessions, NEW code \in Codes
      PROVE  checks[s][code] \in CheckType
    BY <1>1 DEF TablesTyped
<1>3. ASSUME req[r].pc \in Walking
      PROVE  Head(req[r].todo) \in Codes
    BY <1>1, <1>3, HeadTailProperties DEF LocalsComplete, RequestType
<1>4. CASE InsertCheck(r)
    <2>1. [status |-> "pending", version |-> 1] \in CheckType
        BY DEF CheckType, CheckStatus
    <2>2. checks' \in [Sessions -> [Codes -> CheckType]] /\ ChecksOfSessions'
        BY <1>1, <1>3, <1>4, <2>1, CheckWritten, ChecksKept DEF InsertCheck, At, Walking
    <2>3. CASE Return(r)
        BY <1>4, <2>2, <2>3, TableStep, IdleSound, LocksKept, Parts DEF InsertCheck, Return
    <2>4. CASE Len(req[r].todo) > 1 /\ Advance(r, "insert_checks")
        <3>1. Len(req[r].todo) = 1 => "insert_checks" = "read_blockers"
            BY <2>4
        <3> DEFINE local == [req[r] EXCEPT !.todo = Tail(@),
                               !.pc = IF Len(req[r].todo) = 1 THEN "insert_checks" ELSE @]
        <3>2. Become(r, local)
            BY <2>4 DEF Advance
        <3>3. LocalsComplete(local) /\ LocalsSound(local)
            BY <1>4, <3>1, AdvanceSound DEF InsertCheck, At, Walking
        <3> HIDE DEF local
        <3>4. QED
            BY <1>4, <2>2, <3>2, <3>3, TableStep, LocksKept, Parts DEF InsertCheck
    <2>5. QED
        BY <1>4, <2>3, <2>4 DEF InsertCheck
<1>5. CASE WriteCheck(r)
    <2> DEFINE s == req[r].session
               code == Head(req[r].todo)
               row == [status |-> Result(code, req[r].failing),
                       version |-> checks[s][code].version + 1]
               local == [req[r] EXCEPT !.todo = Tail(@),
                           !.pc = IF Len(req[r].todo) = 1 THEN "read_blockers" ELSE @]
    <2>1. code \in Codes /\ s \in Sessions
        BY <1>1, <1>3, <1>5 DEF WriteCheck, At, Walking
    <2>2. row \in CheckType
        BY <1>2, <2>1 DEF CheckType, CheckStatus, Result
    <2>3. checks' = checks \/ checks' = [checks EXCEPT ![s][code] = row]
        BY <1>1, <1>5, <2>1 DEF WriteCheck, TablesTyped
    <2>4. checks' \in [Sessions -> [Codes -> CheckType]] /\ ChecksOfSessions'
        <3> HIDE DEF s, code, row
        <3>1. sessions[s].status # "absent" /\ UNCHANGED sessions
            BY <1>1, <1>5 DEF s, WriteCheck
        <3>2. QED
            BY <2>1, <2>2, <2>3, <3>1, CheckWritten, ChecksKept
    <2>5. Become(r, local) /\ LocalsComplete(local) /\ LocalsSound(local)
        BY <1>5, AdvanceSound DEF WriteCheck, At, Walking, Advance
    <2> HIDE DEF local
    <2>6. QED
        BY <1>5, <2>4, <2>5, TableStep, LocksKept, Parts DEF WriteCheck
<1>6. CASE WriteWaive(r)
    <2> DEFINE s == req[r].session
               code == req[r].code
               row == [status |-> "waived", version |-> checks[s][code].version + 1]
    <2>1. code \in Codes /\ s \in Sessions
        BY <1>1, <1>6 DEF WriteWaive, At, LocalsComplete
    <2>2. row \in CheckType
        BY <1>2, <2>1 DEF CheckType, CheckStatus
    <2>3. checks' = checks \/ checks' = [checks EXCEPT ![s][code] = row]
        BY <1>1, <1>6, <2>1 DEF WriteWaive, TablesTyped
    <2>4. checks' \in [Sessions -> [Codes -> CheckType]] /\ ChecksOfSessions'
        <3> HIDE DEF s, code, row
        <3>1. sessions[s].status # "absent" /\ UNCHANGED sessions
            BY <1>1, <1>6 DEF s, WriteWaive
        <3>2. QED
            BY <2>1, <2>2, <2>3, <3>1, CheckWritten, ChecksKept
    <2>5. QED
        BY <1>6, <2>4, TableStep, IdleSound, LocksKept, Parts DEF WriteWaive, Return
<1>7. QED
    BY <1>4, <1>5, <1>6

\* A completion that has its snapshot goes on holding it.
LEMMA HoldingSound ==
    ASSUME IInv, NEW r \in Requests, req[r].pc \in Holding, NEW pc \in Holding,
           NEW local, local = [req[r] EXCEPT !.pc = pc]
    PROVE  /\ LocalsComplete(local) /\ LocalsSound(local)
           /\ req[r].session \in Sessions
           /\ snapshots[req[r].session] # <<>>
<1>1. req[r] \in RequestType /\ LocalsComplete(req[r]) /\ LocalsSound(req[r])
    BY Parts
<1>2. /\ local \in RequestType /\ local.pc = pc /\ local.session = req[r].session
      /\ local.version = req[r].version
    BY <1>1 DEF RequestType, Holding, PC
<1>3. LocalsComplete(local) /\ LocalsSound(local)
    BY <1>1, <1>2 DEF LocalsComplete, LocalsSound, Sessionless, Walking, Committed, Holding
<1>4. QED
    BY <1>1, <1>3 DEF LocalsComplete, LocalsSound, Sessionless, Holding

LEMMA ControlSteps ==
    ASSUME IInv, NEW r \in Requests,
           \/ LockPeriod(r) \/ InsertLock(r)
           \/ Unlock(r) \/ ReopenPeriod(r) \/ BatchOpen(r)
    PROVE  IInv'
<1>1. CASE LockPeriod(r)
    <2>1. UNCHANGED <<checks, sessions>>
        BY <1>1 DEF LockPeriod
    <2>2. QED
        BY <1>1, <2>1, TableStep, HoldingSound, ChecksKept, LocksKept, Parts
        DEF LockPeriod, At, Goto, Holding, PeriodStatus
<1>2. CASE InsertLock(r)
    <2>1. UNCHANGED <<checks, sessions>>
        BY <1>2 DEF InsertLock
    <2>2. QED
        BY <1>2, <2>1, TableStep, HoldingSound, ChecksKept, LocksKept, Parts
        DEF InsertLock, At, Goto, Holding
<1>3. CASE Unlock(r)
    <2>1. UNCHANGED <<checks, sessions>>
        BY <1>3 DEF Unlock
    <2>2. QED
        BY <1>3, <2>1, TableStep, GotoSound, ChecksKept, LocksKept, Parts
        DEF Unlock, At, Goto, PC, Walking, Committed, Holding, Sessionless
<1>4. CASE ReopenPeriod(r)
    <2>1. UNCHANGED <<checks, sessions>>
        BY <1>4 DEF ReopenPeriod
    <2>2. QED
        BY <1>4, <2>1, TableStep, GotoSound, ChecksKept, LocksKept, Parts
        DEF ReopenPeriod, At, Goto, PC, Walking, Committed, Holding, Sessionless, PeriodStatus
<1>5. CASE BatchOpen(r)
    <2>1. UNCHANGED <<checks, sessions>>
        BY <1>5 DEF BatchOpen
    <2>2. QED
        BY <1>5, <2>1, TableStep, IdleSound, ChecksKept, LocksKept, Parts
        DEF BatchOpen, Return, PeriodStatus
<1>6. QED
    BY <1>1, <1>2, <1>3, <1>4, <1>5

-----------------------------------------------------------------------------
(* The steps that write a snapshot or a session.                           *)

LEMMA SnapshotStep ==
    ASSUME IInv, NEW r \in Requests, InsertSnapshot(r)
    PROVE  IInv'
<1>1. /\ req[r] \in RequestType /\ LocalsComplete(req[r]) /\ LocalsSound(req[r])
      /\ TablesTyped
    BY Parts
<1>2. CASE UNCHANGED snapshots /\ Return(r)
    BY <1>2, ReturnStep, Parts DEF InsertSnapshot, tables
<1>3. CASE /\ snapshots' = [snapshots EXCEPT ![req[r].session] = Append(@, req[r].version)]
           /\ Goto(r, "lock_period")
    <2> DEFINE s == req[r].session
    <2>0. PICK version, taken, local :
             /\ version = req[r].version /\ taken = snapshots[s]
             /\ local = [req[r] EXCEPT !.pc = "lock_period"]
        OBVIOUS
    <2>1. /\ s \in Sessions /\ sessions[s].status # "absent"
          /\ version \in Nat /\ taken \in Seq(Nat)
        BY <1>1, <2>0
        DEF InsertSnapshot, At, LocalsComplete, Sessionless, RequestType, TablesTyped
    <2>2. /\ Append(taken, version) \in Seq(Nat)
          /\ Len(Append(taken, version)) = Len(taken) + 1
          /\ Append(taken, version)[Len(taken) + 1] = version
          /\ \A i \in 1..Len(taken) : Append(taken, version)[i] = taken[i]
        BY <2>1, AppendProperties
    <2>3. /\ DOMAIN taken = 1..Len(taken) /\ Len(taken) \in Nat
          /\ DOMAIN Append(taken, version) = 1..(Len(taken) + 1)
        BY <2>1, <2>2, LenProperties
    <2>4. /\ snapshots' \in [Sessions -> Seq(Nat)]
          /\ snapshots'[s] = Append(taken, version)
          /\ \A t \in Sessions \ {s} : snapshots'[t] = snapshots[t]
        BY <1>1, <1>3, <2>0, <2>1, <2>2 DEF TablesTyped
    <2>5. UNCHANGED <<period, locks, sessions, checks, issues, crashes>>
        BY DEF InsertSnapshot
    <2>6. TablesTyped'
        BY <1>1, <2>4, <2>5 DEF TablesTyped
    <2>7. SessionsMove
        BY <2>5 DEF SessionsMove, SessionMoved
    <2>8. SnapshotsGrow
        <3> SUFFICES ASSUME NEW t \in Sessions, NEW i \in DOMAIN snapshots[t]
                     PROVE  i \in DOMAIN snapshots'[t] /\ snapshots'[t][i] = snapshots[t][i]
            BY DEF SnapshotsGrow
        <3>1. CASE t # s
            BY <2>4, <3>1
        <3>2. CASE t = s
            <4>1. i \in 1..Len(taken) /\ snapshots[t] = taken
                BY <2>0, <2>3, <3>2
            <4>2. i \in 1..(Len(taken) + 1) /\ Append(taken, version)[i] = taken[i]
                BY <2>2, <2>3, <4>1
            <4>3. snapshots'[t] = Append(taken, version)
                BY <2>4, <3>2
            <4>4. QED
                BY <2>3, <4>1, <4>2, <4>3
        <3>3. QED
            BY <3>1, <3>2
    <2>9. /\ local \in RequestType /\ local.pc = "lock_period"
          /\ local.session = s /\ local.version = version
        BY <1>1, <2>0 DEF RequestType, PC
    <2>10. Len(taken) + 1 \in DOMAIN snapshots'[s] /\ snapshots'[s][Len(taken) + 1] = version
        BY <2>2, <2>3, <2>4
    <2>11. LocalsComplete(local)'
        BY <2>1, <2>5, <2>9 DEF LocalsComplete, Sessionless, Walking
    <2>12. LocalsSound(local)'
        <3>1. /\ version <= sessions[s].version
              /\ sessions[s].version = version => sessions[s].status \in Completable
            BY <1>1, <2>0 DEF InsertSnapshot, At, LocalsSound, Committed
        <3>2. QED
            BY <2>5, <2>9, <2>10, <3>1 DEF LocalsSound
    <2>13. OneActiveSession' /\ ChecksOfSessions'
        BY <2>5 DEF IInv, OneActiveSession, ChecksOfSessions
    <2>14. CompletedHasItsSnapshot'
        <3> SUFFICES ASSUME NEW t \in Sessions, sessions[t].status = "completed"
                     PROVE  \E i \in DOMAIN snapshots'[t] :
                               snapshots'[t][i] = sessions[t].version - 1
            BY <2>5 DEF CompletedHasItsSnapshot
        <3>1. PICK i \in DOMAIN snapshots[t] : snapshots[t][i] = sessions[t].version - 1
            BY DEF IInv, CompletedHasItsSnapshot
        <3>2. QED
            BY <2>8, <3>1 DEF SnapshotsGrow
    <2>15. LockFollowsSnapshot'
        <3> SUFFICES ASSUME NEW t \in locks, snapshots'[t] = <<>>
                     PROVE  FALSE
            BY <2>5 DEF LockFollowsSnapshot
        <3>1. t \in Sessions /\ snapshots[t] # <<>>
            BY LocksKept
        <3>2. t = s
            BY <2>4, <3>1
        <3>3. Len(<<>>) = 0
            BY EmptySeq
        <3>4. Len(snapshots'[t]) = Len(<<>>)
            BY Zenon
        <3>5. QED
            BY <2>2, <2>3, <2>4, <3>2, <3>3, <3>4
    <2>16. Become(r, local)
        BY <1>3, <2>0 DEF Goto
    <2>17. QED
        BY <2>6, <2>7, <2>8, <2>11, <2>12, <2>13, <2>14, <2>15, <2>16, BecomeKeeps
<1>4. QED
    BY <1>2, <1>3 DEF InsertSnapshot

\* One session is inserted or gets a new status: it becomes active only beside no
\* other, or was active already, and completed only with its snapshot.
LEMMA StatusStep ==
    ASSUME IInv, NEW r \in Requests, NEW local, Become(r, local),
           NEW s \in Sessions, NEW row \in SessionType,
           sessions' = [sessions EXCEPT ![s] = row],
           UNCHANGED <<period, locks, checks, snapshots, issues, crashes>>,
           row.status # "absent", row.type \in CloseTypes, row.version >= 1,
           sessions[s].status = "absent" \/ row.version = sessions[s].version + 1,
           row.status \in Active =>
              \/ NoOtherActive(s, row.type)
              \/ sessions[s].status \in Active /\ row.type = sessions[s].type,
           row.status = "completed" =>
              \E i \in DOMAIN snapshots[s] : snapshots[s][i] = row.version - 1,
           \/ LocalsComplete(local)' /\ LocalsSound(local)'
           \/ LocalsComplete(local) /\ LocalsSound(local)
    PROVE  IInv'
<1>1. TablesTyped
    BY Parts
<1>2. /\ sessions' \in [Sessions -> SessionType]
      /\ sessions'[s] = row
      /\ \A t \in Sessions \ {s} : sessions'[t] = sessions[t]
    BY <1>1 DEF TablesTyped
<1>3. TablesTyped'
    BY <1>1, <1>2 DEF TablesTyped
<1>4. SessionsMove
    BY <1>2 DEF SessionsMove, SessionMoved
<1>5. SnapshotsGrow
    BY DEF SnapshotsGrow
<1>6. LocalsComplete(local)' /\ LocalsSound(local)'
    BY <1>1, <1>3, <1>4, <1>5, KeptSound
<1>7. ChecksOfSessions'
    BY <1>2 DEF IInv, ChecksOfSessions
<1>8. OneActiveSession'
    <2> SUFFICES ASSUME NEW t \in Sessions, NEW other \in Sessions,
                        sessions'[t].status \in Active, sessions'[other].status \in Active,
                        sessions'[t].type = sessions'[other].type, t # other
                 PROVE  FALSE
        BY DEF OneActiveSession
    <2>1. OneActiveSession
        BY DEF IInv
    <2>2. CASE t # s /\ other # s
        BY <1>2, <2>1, <2>2 DEF OneActiveSession
    <2>3. CASE t = s
        BY <1>2, <2>1, <2>3 DEF OneActiveSession, NoOtherActive
    <2>4. CASE other = s
        BY <1>2, <2>1, <2>4 DEF OneActiveSession, NoOtherActive
    <2>5. QED
        BY <2>2, <2>3, <2>4
<1>9. CompletedHasItsSnapshot'
    <2> SUFFICES ASSUME NEW t \in Sessions, sessions'[t].status = "completed"
                 PROVE  \E i \in DOMAIN snapshots[t] :
                           snapshots[t][i] = sessions'[t].version - 1
        BY DEF CompletedHasItsSnapshot
    <2>1. QED
        BY <1>2 DEF IInv, CompletedHasItsSnapshot
<1>10. LockFollowsSnapshot'
    BY DEF IInv, LockFollowsSnapshot
<1>11. QED
    BY <1>3, <1>4, <1>5, <1>6, <1>7, <1>8, <1>9, <1>10, BecomeKeeps

\* What an UPDATE of its status makes of a session.
LEMMA StatusSet ==
    ASSUME IInv, NEW s \in Sessions, sessions[s].status # "absent",
           NEW status \in SessionStatus, SetStatus(s, status)
    PROVE  \E row \in SessionType :
              /\ sessions' = [sessions EXCEPT ![s] = row]
              /\ row.status = status /\ row.type = sessions[s].type /\ row.type \in CloseTypes
              /\ row.version = sessions[s].version + 1 /\ row.version >= 1
<1>1. sessions[s] \in SessionType /\ sessions[s].type \in CloseTypes
    BY Parts DEF TablesTyped
<1> DEFINE row == [status |-> status, type |-> sessions[s].type,
                   version |-> sessions[s].version + 1]
<1>2. /\ row \in SessionType /\ row.status = status /\ row.type = sessions[s].type
      /\ row.version = sessions[s].version + 1 /\ row.version >= 1
    BY <1>1 DEF SessionType
<1>3. sessions' = [sessions EXCEPT ![s] = row]
    BY <1>1, Parts DEF SetStatus, SessionType, TablesTyped
<1> HIDE DEF row
<1>4. QED
    BY <1>1, <1>2, <1>3

LEMMA InsertSessionStep ==
    ASSUME IInv, NEW r \in Requests, InsertSession(r)
    PROVE  IInv'
<1>1. req[r].type \in CloseTypes /\ TablesTyped
    BY Parts DEF InsertSession, At, LocalsComplete
<1>2. CASE UNCHANGED sessions /\ Return(r)
    BY <1>2, ReturnStep, Parts DEF InsertSession, tables
<1>3. CASE ~(UNCHANGED sessions /\ Return(r))
    <2>1. PICK s \in Sessions :
             /\ sessions[s].status = "absent"
             /\ NoOtherActive(s, req[r].type)
             /\ sessions' = [sessions EXCEPT
                               ![s] = [status |-> "draft", type |-> req[r].type, version |-> 1]]
             /\ Become(r, [Idle EXCEPT !.pc = "insert_checks", !.session = s,
                                       !.todo = CheckCodes])
        BY <1>3 DEF InsertSession
    <2>0. PICK row, local :
             /\ row = [status |-> "draft", type |-> req[r].type, version |-> 1]
             /\ local = [Idle EXCEPT !.pc = "insert_checks", !.session = s,
                                     !.todo = CheckCodes]
        OBVIOUS
    <2>2. /\ row \in SessionType /\ row.status = "draft" /\ row.type = req[r].type
          /\ row.version = 1
        BY <1>1, <2>0 DEF SessionType, SessionStatus
    <2>3. /\ local \in RequestType /\ local.pc = "insert_checks" /\ local.session = s
          /\ local.todo = CheckCodes
        BY <2>0, IdleSound, CheckCodesAssumption DEF LocalsComplete, RequestType, PC
    <2>4. sessions'[s] = row
        BY <1>1, <2>0, <2>1 DEF TablesTyped
    <2>5. LocalsComplete(local)' /\ LocalsSound(local)'
        BY <2>2, <2>3, <2>4, CheckCodesAssumption
        DEF LocalsComplete, LocalsSound, Sessionless, Walking, Committed, Holding
    <2>6. UNCHANGED <<period, locks, checks, snapshots, issues, crashes>>
        BY DEF InsertSession
    <2>7. /\ Become(r, local)
          /\ sessions' = [sessions EXCEPT ![s] = row]
        BY <2>0, <2>1
    <2>8. /\ row.status # "absent" /\ row.status # "completed" /\ row.version >= 1
          /\ row.type \in CloseTypes /\ NoOtherActive(s, row.type)
          /\ sessions[s].status = "absent"
        BY <1>1, <2>1, <2>2
    <2>9. row \in SessionType
        BY <2>2
    <2>10. QED
        BY <2>5, <2>6, <2>7, <2>8, <2>9, StatusStep
<1>4. QED
    BY <1>2, <1>3

\* The validation's two UPDATEs of the session, and those of a review, a
\* completion and a reopening.
LEMMA StatusSteps ==
    ASSUME IInv, NEW r \in Requests,
           \/ MarkValidating(r) \/ FinishValidate(r) \/ WriteReview(r)
           \/ FinishComplete(r) \/ FinishReopen(r)
    PROVE  IInv'
<1> DEFINE s == req[r].session
<1>1. /\ req[r] \in RequestType /\ LocalsComplete(req[r]) /\ LocalsSound(req[r])
      /\ s \in Sessions /\ sessions[s].status # "absent" /\ TablesTyped
    BY Parts DEF MarkValidating, FinishValidate, WriteReview, FinishComplete, FinishReopen,
                 At, LocalsComplete, Sessionless
<1>2. UNCHANGED <<period, locks, checks, snapshots, issues, crashes>>
    BY DEF MarkValidating, FinishValidate, WriteReview, FinishComplete, FinishReopen
<1>3. ASSUME NEW local, Become(r, local), UNCHANGED sessions,
             LocalsComplete(local) /\ LocalsSound(local)
      PROVE  IInv'
    BY <1>2, <1>3, LocalStep, Parts DEF tables
<1>4. ASSUME NEW local, Become(r, local), NEW status \in SessionStatus \ {"absent"},
             SetStatus(s, status), LocalsComplete(local) /\ LocalsSound(local),
             status \in Active => \/ NoOtherActive(s, sessions[s].type)
                                  \/ sessions[s].status \in Active,
             status = "completed" =>
                \E i \in DOMAIN snapshots[s] : snapshots[s][i] = sessions[s].version
      PROVE  IInv'
    <2>1. PICK row \in SessionType :
             /\ sessions' = [sessions EXCEPT ![s] = row]
             /\ row.status = status /\ row.type = sessions[s].type /\ row.type \in CloseTypes
             /\ row.version = sessions[s].version + 1 /\ row.version >= 1
        BY <1>1, <1>4, StatusSet
    <2>2. row.version - 1 = sessions[s].version
        BY <1>1, <2>1 DEF TablesTyped, SessionType
    <2> HIDE DEF s
    <2>3. QED
        BY <1>1, <1>2, <1>4, <2>1, <2>2, StatusStep
<1>5. LocalsComplete(Idle) /\ LocalsSound(Idle)
    BY IdleSound
<1>6. CASE MarkValidating(r)
    <2>1. CASE Return(r)
        <3>1. Become(r, Idle)
            BY <2>1 DEF Return
        <3>2. CASE UNCHANGED sessions
            BY <1>3, <1>5, <3>1, <3>2
        <3>3. CASE NoOtherActive(s, sessions[s].type) /\ SetStatus(s, "validating")
            BY <1>4, <1>5, <3>1, <3>3 DEF SessionStatus
        <3>4. QED
            BY <1>6, <3>2, <3>3 DEF MarkValidating, SetStatusIfUnchanged, Session
    <2>2. CASE ~Return(r)
        <3> DEFINE local == [req[r] EXCEPT !.pc = "evaluate"]
        <3>1. Become(r, local)
            BY <1>6, <2>2 DEF MarkValidating, Goto
        <3>2. LocalsComplete(local) /\ LocalsSound(local)
            BY <1>6, GotoSound
            DEF MarkValidating, At, PC, Walking, Committed, Holding, Sessionless
        <3> HIDE DEF local
        <3>3. CASE UNCHANGED sessions
            BY <1>3, <3>1, <3>2, <3>3
        <3>4. CASE NoOtherActive(s, sessions[s].type) /\ SetStatus(s, "validating")
            BY <1>4, <3>1, <3>2, <3>4 DEF SessionStatus
        <3>5. QED
            BY <1>6, <2>2, <3>3, <3>4 DEF MarkValidating, SetStatusIfUnchanged, Session
    <2>3. QED
        BY <2>1, <2>2
<1>7. CASE FinishValidate(r)
    <2>1. CASE UNCHANGED sessions
        BY <1>3, <1>5, <1>7, <2>1 DEF FinishValidate, Return
    <2>2. CASE NoOtherActive(s, sessions[s].type) /\ SetStatus(s, req[r].target)
        <3>1. req[r].target \in {"blocked", "ready_for_review"}
            BY <1>1, <1>7 DEF FinishValidate, At, LocalsComplete
        <3>2. QED
            BY <1>4, <1>5, <1>7, <2>2, <3>1 DEF FinishValidate, Return, SessionStatus
    <2>3. QED
        BY <1>7, <2>1, <2>2 DEF FinishValidate, Session
<1>8. CASE WriteReview(r)
    <2>1. CASE UNCHANGED sessions
        BY <1>3, <1>5, <1>8, <2>1 DEF WriteReview, Return
    <2>2. CASE Unchanged(r) /\ SetStatus(s, req[r].target)
        <3>1. req[r].target \in {"reviewed", "approved"}
            BY <1>1, <1>8 DEF WriteReview, At, LocalsComplete
        <3>2. sessions[s].status \in Active
            BY <1>1, <1>8, <2>2
            DEF WriteReview, At, LocalsSound, Committed, Unchanged, Completable, Active, SessionStatus
        <3>3. QED
            BY <1>4, <1>5, <1>8, <2>2, <3>1, <3>2 DEF WriteReview, Return, SessionStatus
    <2>3. QED
        BY <1>8, <2>1, <2>2 DEF WriteReview, SetStatusIfUnchanged
<1>9. CASE FinishComplete(r)
    <2>1. CASE UNCHANGED sessions
        BY <1>3, <1>5, <1>9, <2>1 DEF FinishComplete, Return
    <2>2. CASE Unchanged(r) /\ SetStatus(s, "completed")
        <3>1. \E i \in DOMAIN snapshots[s] : snapshots[s][i] = sessions[s].version
            BY <1>1, <1>9, <2>2 DEF FinishComplete, At, LocalsSound, Holding, Unchanged
        <3>2. "completed" \in SessionStatus \ {"absent"} /\ "completed" \notin Active
            BY DEF SessionStatus, Active
        <3>3. Become(r, Idle)
            BY <1>9 DEF FinishComplete, Return
        <3>4. QED
            BY <1>4, <1>5, <2>2, <3>1, <3>2, <3>3
    <2>3. QED
        BY <1>9, <2>1, <2>2 DEF FinishComplete, SetStatusIfUnchanged
<1>10. CASE FinishReopen(r)
    <2>1. CASE UNCHANGED sessions
        BY <1>3, <1>5, <1>10, <2>1 DEF FinishReopen, Return
    <2>2. CASE Unchanged(r) /\ SetStatus(s, "reopened")
        <3>1. "reopened" \in SessionStatus \ {"absent"} /\ "reopened" \notin Active
            BY DEF SessionStatus, Active
        <3>2. Become(r, Idle)
            BY <1>10 DEF FinishReopen, Return
        <3>3. QED
            BY <1>4, <1>5, <2>2, <3>1, <3>2
    <2>3. QED
        BY <1>10, <2>1, <2>2 DEF FinishReopen, SetStatusIfUnchanged
<1>11. QED
    BY <1>6, <1>7, <1>8, <1>9, <1>10

-----------------------------------------------------------------------------
(* The invariant.                                                          *)

LEMMA InitInvariant == Init => IInv
<1> SUFFICES ASSUME Init PROVE IInv
    OBVIOUS
<1>1. Idle \in RequestType
    BY IdleSound DEF LocalsComplete
<1>2. TablesTyped
    BY NoneAssumption
    DEF Init, TablesTyped, PeriodStatus, AbsentSession, AbsentCheck, SessionType, CheckType,
        SessionStatus, CheckStatus
<1>3. req \in [Requests -> RequestType] /\ \A r \in Requests : req[r] = Idle
    BY <1>1 DEF Init
<1>4. \A s \in Sessions : sessions[s].status = "absent"
    BY DEF Init, AbsentSession
<1>5. ChecksOfSessions
    BY DEF Init, ChecksOfSessions, AbsentCheck
<1>6. OneActiveSession /\ CompletedHasItsSnapshot /\ LockFollowsSnapshot
    BY <1>4 DEF Init, OneActiveSession, CompletedHasItsSnapshot, LockFollowsSnapshot, Active
<1>7. QED
    BY <1>2, <1>3, <1>5, <1>6, IdleSound DEF IInv, TypeOK

LEMMA InvariantStep ==
    ASSUME IInv, [Next]_vars
    PROVE  IInv'
<1>1. CASE UNCHANGED vars
    BY <1>1
    DEF vars, tables, IInv, TypeOK, TablesTyped, LocalsComplete, LocalsSound, ChecksOfSessions,
        OneActiveSession, CompletedHasItsSnapshot, LockFollowsSnapshot
<1>2. ASSUME NEW r \in Requests, Creating(r) \/ Validating(r) \/ Reviewing(r)
      PROVE  IInv'
    BY <1>2, CreatingLocals, InsertSessionStep, CheckSteps, BeginsKeep, ValidatingLocals,
       ReviewingLocals, StatusSteps
    DEF Creating, Validating, Reviewing
<1>3. ASSUME NEW r \in Requests, BeginComplete(r) \/ Completing(r)
      PROVE  IInv'
    BY <1>3, BeginsKeep, CompletingLocals, SnapshotStep, ControlSteps, StatusSteps
    DEF Completing
<1>4. ASSUME NEW r \in Requests, BeginReopen(r) \/ Reopening(r) \/ Opening(r)
      PROVE  IInv'
    BY <1>4, BeginsKeep, OpeningLocals, ControlSteps, StatusSteps DEF Reopening, Opening
<1>5. ASSUME NEW r \in Requests, Crash(r)
      PROVE  IInv'
    BY <1>5, ReturnStep, Parts DEF Crash
<1>6. ASSUME NEW code \in Codes, ChangeRecords(code)
      PROVE  IInv'
    <2>1. issues' \subseteq Codes
        BY <1>6, Parts DEF ChangeRecords
    <2>2. UNCHANGED <<tables, crashes, req>>
        BY <1>6 DEF ChangeRecords
    <2>3. QED
        BY <2>1, <2>2
        DEF tables, IInv, TypeOK, TablesTyped, LocalsComplete, LocalsSound, ChecksOfSessions,
            OneActiveSession, CompletedHasItsSnapshot, LockFollowsSnapshot
<1>7. QED
    BY <1>1, <1>2, <1>3, <1>4, <1>5, <1>6 DEF Next

-----------------------------------------------------------------------------
(* The theorems.                                                           *)

\* The inductive invariant: what a completion or a review has read of its session
\* still holds as long as the session's version does, and its snapshot stays.
THEOREM Invariant == Spec => []IInv
BY InitInvariant, InvariantStep, PTL DEF Spec

\* Every column and every local variable of the close keeps its type, and is set
\* by the time a statement uses it.
THEOREM TypeCorrect == Spec => []TypeOK
<1>1. IInv => TypeOK
    BY DEF IInv
<1>2. QED
    BY <1>1, Invariant, PTL

\* createCloseSession and validateCloseSession: a period never has two active
\* sessions of a type, though both look before they write.
THEOREM OneActiveSessionAlways == Spec => []OneActiveSession
<1>1. IInv => OneActiveSession
    BY DEF IInv
<1>2. QED
    BY <1>1, Invariant, PTL

\* completeCloseSession: a completed session has the snapshot its own completion
\* took, whatever ran or was evicted beside it.
THEOREM CompletedHasItsSnapshotAlways == Spec => []CompletedHasItsSnapshot
<1>1. IInv => CompletedHasItsSnapshot
    BY DEF IInv
<1>2. QED
    BY <1>1, Invariant, PTL

\* completeCloseSession: no session locks its period before it has a snapshot.
THEOREM LockFollowsSnapshotAlways == Spec => []LockFollowsSnapshot
<1>1. IInv => LockFollowsSnapshot
    BY DEF IInv
<1>2. QED
    BY <1>1, Invariant, PTL

\* completeCloseSession: the version a completion read vouches for the status it
\* read, so that only a session that could be completed becomes completed.
THEOREM CompletesCompletableAlways == Spec => CompletesCompletable
<1>1. ASSUME IInv, Next, NEW s \in Sessions,
             sessions[s].status # "completed", sessions'[s].status = "completed"
      PROVE  sessions[s].status \in Completable
    <2>1. PICK r \in Requests :
             \/ InsertSession(r) \/ MarkValidating(r) \/ FinishValidate(r)
             \/ WriteReview(r) \/ FinishComplete(r) \/ FinishReopen(r)
        BY <1>1
        DEF Next, Creating, Validating, Reviewing, Completing, Reopening, Opening,
            BeginCreate, InsertCheck, BeginValidate, EvaluateChecks, WriteCheck, ReadBlockers,
            BeginWaive, WriteWaive, BeginReview, BeginComplete, ReadBlocking, ReadSequence,
            InsertSnapshot, LockPeriod, InsertLock, BeginReopen, Unlock, ReopenPeriod,
            BeginOpen, ReadLock, BatchOpen, Crash, ChangeRecords, tables
    <2>2. /\ LocalsComplete(req[r]) /\ LocalsSound(req[r])
          /\ sessions \in [Sessions -> SessionType]
        BY <1>1, Parts DEF TablesTyped
    <2>3. CASE FinishComplete(r)
        BY <1>1, <2>2, <2>3
        DEF FinishComplete, At, SetStatusIfUnchanged, SetStatus, Unchanged, LocalsSound,
            Committed, Holding, SessionType
    <2>4. CASE ~FinishComplete(r)
        <3>1. ASSUME NEW other \in Sessions, NEW status, SetStatus(other, status),
                     status # "completed"
              PROVE  FALSE
            BY <1>1, <2>2, <3>1 DEF SetStatus, SessionType
        <3>2. ~InsertSession(r)
            <4> SUFFICES ASSUME InsertSession(r)
                         PROVE  FALSE
                OBVIOUS
            <4>1. PICK other \in Sessions :
                     sessions' = [sessions EXCEPT ![other] =
                         [status |-> "draft", type |-> req[r].type, version |-> 1]]
                BY <1>1 DEF InsertSession
            <4>2. QED
                BY <1>1, <2>2, <4>1
        <3>3. req[r].session \in Sessions
            BY <2>1, <2>2, <2>4, <3>2
            DEF MarkValidating, FinishValidate, WriteReview, FinishReopen, At, LocalsComplete,
                Sessionless
        <3>4. ~MarkValidating(r) /\ ~FinishReopen(r)
            BY <1>1, <3>1, <3>3 DEF MarkValidating, FinishReopen, SetStatusIfUnchanged
        <3>5. ~FinishValidate(r)
            BY <1>1, <2>2, <3>1, <3>3 DEF FinishValidate, At, LocalsComplete
        <3>6. ~WriteReview(r)
            BY <1>1, <2>2, <3>1, <3>3 DEF WriteReview, SetStatusIfUnchanged, At, LocalsComplete
        <3>7. QED
            BY <2>1, <2>4, <3>2, <3>4, <3>5, <3>6
    <2>5. QED
        BY <2>3, <2>4, Zenon
<1>2. IInv /\ [Next]_vars => [\A s \in Sessions :
          sessions[s].status # "completed" /\ sessions'[s].status = "completed" =>
             sessions[s].status \in Completable]_vars
    BY <1>1
<1>3. QED
    BY <1>2, Invariant, PTL DEF Spec, CompletesCompletable

-----------------------------------------------------------------------------
(* Waivers.                                                                *)

\* What a waiver has read of its check is the check as it stands, unless the version
\* has moved on.
WaiveSound(r) ==
    LET row == checks[req[r].session][req[r].code] IN
    At(r, "waive") =>
        /\ req[r].version <= row.version
        /\ req[r].version = row.version => row.status \in {"warning", "pending"}

WaiveInv ==
    /\ \A s \in Sessions, code \in Codes :
          checks[s][code].status = "absent" => checks[s][code].version = 0
    /\ \A r \in Requests : WaiveSound(r)

\* A check is left alone or moves to a version it never had, and stays from then on.
CheckMoved(s, code) ==
    \/ checks'[s][code] = checks[s][code]
    \/ checks'[s][code].version > checks[s][code].version /\ checks'[s][code].status # "absent"

LEMMA RowWritten ==
    ASSUME IInv, NEW s \in Sessions, NEW code \in Codes, NEW row,
           checks' = [checks EXCEPT ![s][code] = row],
           row.version > checks[s][code].version, row.status # "absent"
    PROVE  \A t \in Sessions, c \in Codes : CheckMoved(t, c)
<1>1. checks \in [Sessions -> [Codes -> CheckType]]
    BY Parts DEF TablesTyped
<1>2. ASSUME NEW t \in Sessions, NEW c \in Codes
      PROVE  CheckMoved(t, c)
    <2>1. CASE t = s /\ c = code
        BY <1>1, <2>1 DEF CheckMoved
    <2>2. CASE ~(t = s /\ c = code)
        BY <1>1, <2>2, Zenon DEF CheckMoved
    <2>3. QED
        BY <2>1, <2>2
<1>3. QED
    BY <1>2

LEMMA ChecksMove ==
    ASSUME IInv, WaiveInv, Next
    PROVE  \A s \in Sessions, code \in Codes : CheckMoved(s, code)
<1>1. CASE UNCHANGED checks
    BY <1>1 DEF CheckMoved
<1>2. ASSUME NEW r \in Requests, InsertCheck(r) \/ WriteCheck(r) \/ WriteWaive(r)
      PROVE  \A s \in Sessions, code \in Codes : CheckMoved(s, code)
    <2>1. /\ LocalsComplete(req[r]) /\ req[r].session \in Sessions
          /\ checks \in [Sessions -> [Codes -> CheckType]]
        BY <1>2, Parts
        DEF TablesTyped, InsertCheck, WriteCheck, WriteWaive, At, LocalsComplete, Sessionless
    <2>2. req[r].pc \in Walking => Head(req[r].todo) \in Codes
        BY <2>1, HeadTailProperties DEF LocalsComplete, RequestType
    <2> DEFINE s == req[r].session
               head == Head(req[r].todo)
    <2>3. CASE InsertCheck(r)
        <3> DEFINE row == [status |-> "pending", version |-> 1]
        <3>1. head \in Codes
            BY <2>2, <2>3 DEF InsertCheck, At, Walking
        <3>2. CASE checks[s][head].status = "absent"
            <4>1. checks[s][head].version = 0
                BY <2>1, <3>1, <3>2 DEF WaiveInv
            <4>2. checks' = [checks EXCEPT ![s][head] = row]
                BY <2>3, <3>2 DEF InsertCheck
            <4>3. row.version > checks[s][head].version /\ row.status # "absent"
                BY <4>1
            <4> HIDE DEF s, head, row
            <4>4. QED
                BY <2>1, <3>1, <4>2, <4>3, RowWritten DEF s
        <3>3. QED
            BY <1>1, <2>3, <3>2 DEF InsertCheck
    <2>4. CASE WriteCheck(r)
        <3> DEFINE row == [status |-> Result(head, req[r].failing),
                           version |-> checks[s][head].version + 1]
        <3>1. head \in Codes
            BY <2>2, <2>4 DEF WriteCheck, At, Walking
        <3>2. checks' = checks \/ checks' = [checks EXCEPT ![s][head] = row]
            BY <2>1, <2>4, <3>1 DEF WriteCheck
        <3>3. row.version > checks[s][head].version /\ row.status # "absent"
            BY <2>1, <3>1 DEF CheckType, Result
        <3> HIDE DEF s, head, row
        <3>4. QED
            BY <1>1, <2>1, <3>1, <3>2, <3>3, RowWritten DEF s
    <2>5. CASE WriteWaive(r)
        <3> DEFINE code == req[r].code
                   row == [status |-> "waived", version |-> checks[s][code].version + 1]
        <3>1. code \in Codes
            BY <2>1, <2>5 DEF WriteWaive, At, LocalsComplete
        <3>2. checks' = checks \/ checks' = [checks EXCEPT ![s][code] = row]
            BY <2>1, <2>5, <3>1 DEF WriteWaive
        <3>3. row.version > checks[s][code].version /\ row.status # "absent"
            BY <2>1, <3>1 DEF CheckType
        <3> HIDE DEF s, code, row
        <3>4. QED
            BY <1>1, <2>1, <3>1, <3>2, <3>3, RowWritten DEF s
    <2>6. QED
        BY <1>2, <2>3, <2>4, <2>5
<1>3. QED
    BY <1>1, <1>2
    DEF Next, Creating, Validating, Reviewing, Completing, Reopening, Opening, BeginCreate,
        InsertSession, BeginValidate, MarkValidating, EvaluateChecks, ReadBlockers,
        FinishValidate, BeginWaive, BeginReview, WriteReview, BeginComplete, ReadBlocking,
        ReadSequence, InsertSnapshot, LockPeriod, InsertLock, FinishComplete, BeginReopen,
        Unlock, ReopenPeriod, FinishReopen, BeginOpen, ReadLock, BatchOpen, Crash,
        ChangeRecords, tables

\* What the step of a request does to the locals when it is not a waiver's start.
OthersStay(r) ==
    /\ req'[r].pc # "waive"
    /\ \A q \in Requests \ {r} : req'[q] = req[q]

LEMMA BecomeStays ==
    ASSUME IInv, NEW r \in Requests, NEW local, local.pc # "waive", Become(r, local)
    PROVE  OthersStay(r)
BY DEF IInv, TypeOK, Become, OthersStay

LEMMA MovesStay ==
    ASSUME IInv, NEW r \in Requests
    PROVE  /\ Return(r) => OthersStay(r)
           /\ \A pc : pc # "waive" /\ Goto(r, pc) => OthersStay(r)
           /\ \A s, pc : pc # "waive" /\ Begin(r, s, pc) => OthersStay(r)
           /\ \A pc : ~At(r, "waive") /\ pc # "waive" /\ Advance(r, pc) => OthersStay(r)
<1>1. req[r] \in RequestType
    BY DEF IInv, TypeOK
<1>2. Return(r) => OthersStay(r)
    BY BecomeStays DEF Return, Idle
<1>3. ASSUME NEW pc, pc # "waive", Goto(r, pc)
      PROVE  OthersStay(r)
    <2>1. [req[r] EXCEPT !.pc = pc].pc # "waive"
        BY <1>1, <1>3 DEF RequestType
    <2>2. QED
        BY <1>3, <2>1, BecomeStays DEF Goto
<1>4. ASSUME NEW s, NEW pc, pc # "waive", Begin(r, s, pc)
      PROVE  OthersStay(r)
    BY <1>4, BecomeStays DEF Begin, Idle
<1>5. ASSUME NEW pc, ~At(r, "waive"), pc # "waive", Advance(r, pc)
      PROVE  OthersStay(r)
    <2> DEFINE local == [req[r] EXCEPT !.todo = Tail(@),
                                       !.pc = IF Len(req[r].todo) = 1 THEN pc ELSE @]
    <2>1. local.pc # "waive"
        BY <1>1, <1>5 DEF RequestType, At
    <2>2. Become(r, local)
        BY <1>5 DEF Advance
    <2> HIDE DEF local
    <2>3. QED
        BY <2>1, <2>2, BecomeStays
<1>6. QED
    BY <1>2, <1>3, <1>4, <1>5

LEMMA WritersStay ==
    ASSUME IInv, NEW r \in Requests,
           Creating(r) \/ Validating(r) \/ WriteWaive(r) \/ BeginReview(r) \/ WriteReview(r)
    PROVE  OthersStay(r)
<1>1. req[r] \in RequestType
    BY DEF IInv, TypeOK
<1>2. CASE BeginCreate(r) \/ InsertSession(r)
    BY <1>2, BecomeStays, MovesStay DEF BeginCreate, InsertSession, Idle
<1>3. CASE InsertCheck(r)
    BY <1>3, MovesStay DEF InsertCheck, At
<1>4. CASE BeginValidate(r) \/ MarkValidating(r)
    BY <1>4, MovesStay DEF BeginValidate, MarkValidating
<1>5. CASE EvaluateChecks(r)
    <2> DEFINE local == [req[r] EXCEPT !.pc = "write_checks", !.failing = issues,
                                       !.todo = CheckCodes]
    <2>1. local.pc # "waive" /\ Become(r, local)
        BY <1>1, <1>5 DEF EvaluateChecks, RequestType
    <2> HIDE DEF local
    <2>2. QED
        BY <2>1, BecomeStays
<1>6. CASE WriteCheck(r) \/ FinishValidate(r)
    BY <1>6, MovesStay DEF WriteCheck, FinishValidate, At
<1>7. CASE ReadBlockers(r)
    <2>1. PICK target : Become(r, [req[r] EXCEPT !.pc = "finish_validate", !.target = target])
        BY <1>7 DEF ReadBlockers
    <2>2. [req[r] EXCEPT !.pc = "finish_validate", !.target = target].pc # "waive"
        BY <1>1, Zenon DEF RequestType
    <2>3. QED
        BY <2>1, <2>2, BecomeStays
<1>8. CASE WriteWaive(r) \/ BeginReview(r) \/ WriteReview(r)
    BY <1>8, BecomeStays, MovesStay DEF WriteWaive, BeginReview, WriteReview, Idle
<1>9. QED
    BY <1>2, <1>3, <1>4, <1>5, <1>6, <1>7, <1>8 DEF Creating, Validating

LEMMA ClosersStay ==
    ASSUME IInv, NEW r \in Requests,
           \/ BeginComplete(r) \/ Completing(r) \/ BeginReopen(r) \/ Reopening(r)
           \/ Opening(r) \/ Crash(r)
    PROVE  OthersStay(r)
<1>1. req[r] \in RequestType
    BY DEF IInv, TypeOK
<1>2. CASE ReadSequence(r)
    <2> DEFINE local == [req[r] EXCEPT !.pc = "insert_snapshot",
                                       !.sequence = Len(snapshots[req[r].session]) + 1]
    <2>1. local.pc # "waive" /\ Become(r, local)
        BY <1>1, <1>2 DEF ReadSequence, RequestType
    <2> HIDE DEF local
    <2>2. QED
        BY <2>1, BecomeStays
<1>3. CASE BeginComplete(r) \/ ReadBlocking(r) \/ InsertSnapshot(r)
    BY <1>3, MovesStay DEF BeginComplete, ReadBlocking, InsertSnapshot
<1>4. CASE LockPeriod(r) \/ InsertLock(r) \/ FinishComplete(r)
    BY <1>4, MovesStay DEF LockPeriod, InsertLock, FinishComplete
<1>5. CASE BeginReopen(r) \/ Reopening(r)
    BY <1>5, MovesStay DEF BeginReopen, Reopening, Unlock, ReopenPeriod, FinishReopen
<1>6. CASE Opening(r) \/ Crash(r)
    BY <1>6, BecomeStays, MovesStay DEF Opening, BeginOpen, ReadLock, BatchOpen, Crash, Idle
<1>7. QED
    BY <1>2, <1>3, <1>4, <1>5, <1>6 DEF Completing

LEMMA WaiverBegins ==
    ASSUME IInv, Next, NEW q \in Requests, At(q, "waive")'
    PROVE  req'[q] = req[q] \/ BeginWaive(q)
<1>1. ASSUME NEW r \in Requests, OthersStay(r)
      PROVE  req'[q] = req[q]
    BY <1>1 DEF OthersStay, At
<1>2. ASSUME NEW r \in Requests, BeginWaive(r)
      PROVE  req'[q] = req[q] \/ BeginWaive(q)
    <2>1. req \in [Requests -> RequestType]
        BY DEF IInv, TypeOK
    <2>2. CASE q # r
        BY <1>2, <2>1, <2>2 DEF BeginWaive, Become
    <2>3. QED
        BY <1>2, <2>2
<1>3. ASSUME NEW code \in Codes, ChangeRecords(code)
      PROVE  req'[q] = req[q]
    BY <1>3 DEF ChangeRecords
<1>4. QED
    BY <1>1, <1>2, <1>3, WritersStay, ClosersStay DEF Next, Reviewing

LEMMA WaiveInit == Init => WaiveInv
BY DEF Init, WaiveInv, WaiveSound, AbsentCheck, Idle, At

LEMMA WaiveStep ==
    ASSUME IInv, WaiveInv, Next
    PROVE  WaiveInv'
<1>1. checks \in [Sessions -> [Codes -> CheckType]]
    BY Parts DEF TablesTyped
<1>2. \A s \in Sessions, code \in Codes : CheckMoved(s, code)
    BY ChecksMove
<1>3. \A s \in Sessions, code \in Codes :
          checks'[s][code].status = "absent" => checks'[s][code].version = 0
    BY <1>2 DEF CheckMoved, WaiveInv
<1>4. ASSUME NEW q \in Requests
      PROVE  WaiveSound(q)'
    <2> SUFFICES ASSUME At(q, "waive")'
                 PROVE  WaiveSound(q)'
        BY DEF WaiveSound
    <2>1. CASE req'[q] = req[q]
        <3>1. At(q, "waive") /\ WaiveSound(q) /\ LocalsComplete(req[q])
            BY <2>1, Parts DEF At, WaiveInv
        <3>2. /\ req[q].session \in Sessions /\ req[q].code \in Codes
              /\ req[q].version \in Nat
            BY <3>1 DEF At, LocalsComplete, Sessionless, RequestType
        <3>3. checks[req[q].session][req[q].code].version \in Nat
            BY <1>1, <3>2 DEF CheckType
        <3>4. CheckMoved(req[q].session, req[q].code)
            BY <1>2, <3>2
        <3>5. CASE checks'[req[q].session][req[q].code] = checks[req[q].session][req[q].code]
            BY <2>1, <3>1, <3>5 DEF WaiveSound
        <3>6. CASE /\ checks'[req[q].session][req[q].code].version
                         > checks[req[q].session][req[q].code].version
            <4>1. checks'[req[q].session][req[q].code].version \in Nat
                BY <3>2, InvariantStep, Parts DEF IInv, TypeOK, TablesTyped, CheckType
            <4>2. req[q].version < checks'[req[q].session][req[q].code].version
                BY <3>1, <3>2, <3>3, <3>6, <4>1 DEF WaiveSound
            <4>3. QED
                BY <2>1, <3>2, <4>1, <4>2 DEF WaiveSound
        <3>7. QED
            BY <3>4, <3>5, <3>6 DEF CheckMoved
    <2>2. CASE BeginWaive(q)
        <3>1. checks' = checks
            BY <2>2 DEF BeginWaive, tables
        <3>2. PICK s \in Sessions, code \in Codes \ Blocking :
                 /\ checks[s][code].status \in {"warning", "pending"}
                 /\ Become(q, [Idle EXCEPT !.pc = "waive", !.session = s, !.code = code,
                                           !.version = checks[s][code].version])
            BY <2>2 DEF BeginWaive
        <3>3. /\ req'[q].session = s /\ req'[q].code = code
              /\ req'[q].version = checks[s][code].version
            BY <3>2 DEF Become, Idle, IInv, TypeOK
        <3>4. checks[s][code].version \in Nat
            BY <1>1, <3>2 DEF CheckType
        <3>5. QED
            BY <3>1, <3>2, <3>3, <3>4 DEF WaiveSound
    <2>3. QED
        BY <2>1, <2>2, WaiverBegins
<1>5. QED
    BY <1>3, <1>4 DEF WaiveInv

\* waiveCloseCheck: the version a waiver has read vouches for the finding the
\* reviewer saw, so that a check found to pass meanwhile is never marked waived.
THEOREM WaivesWhatWasSeenAlways == Spec => WaivesWhatWasSeen
<1>1. UNCHANGED vars /\ IInv /\ WaiveInv => WaiveInv'
    BY DEF vars, tables, WaiveInv, WaiveSound, At
<1>2. Spec => [](IInv /\ WaiveInv)
    BY <1>1, Invariant, WaiveInit, WaiveStep, PTL DEF Spec
<1>3. ASSUME IInv, WaiveInv, Next, NEW s \in Sessions, NEW code \in Codes,
             checks[s][code].status # "waived", checks'[s][code].status = "waived"
      PROVE  checks[s][code].status \in {"warning", "pending"}
    <2>1. checks \in [Sessions -> [Codes -> CheckType]]
        BY <1>3, Zenon DEF IInv, TypeOK, TablesTyped
    <2>2. PICK r \in Requests : InsertCheck(r) \/ WriteCheck(r) \/ WriteWaive(r)
        BY <1>3
        DEF Next, Creating, Validating, Reviewing, Completing, Reopening, Opening, BeginCreate,
            InsertSession, BeginValidate, MarkValidating, EvaluateChecks, ReadBlockers,
            FinishValidate, BeginWaive, BeginReview, WriteReview, BeginComplete, ReadBlocking,
            ReadSequence, InsertSnapshot, LockPeriod, InsertLock, FinishComplete, BeginReopen,
            Unlock, ReopenPeriod, FinishReopen, BeginOpen, ReadLock, BatchOpen, Crash,
            ChangeRecords, tables
    <2>3. ASSUME NEW t, NEW c, NEW row,
                 checks' = [checks EXCEPT ![t][c] = row], row.status # "waived"
          PROVE  FALSE
        BY <1>3, <2>1, <2>3
    <2>4. ~InsertCheck(r)
        <3> SUFFICES ASSUME InsertCheck(r)
                     PROVE  FALSE
            OBVIOUS
        <3> DEFINE t == req[r].session
                   c == Head(req[r].todo)
                   row == [status |-> "pending", version |-> 1]
        <3>1. checks' = checks \/ checks' = [checks EXCEPT ![t][c] = row]
            BY DEF InsertCheck
        <3>2. row.status # "waived"
            OBVIOUS
        <3> HIDE DEF t, c, row
        <3>3. QED
            BY <1>3, <2>3, <3>1, <3>2
    <2>5. ~WriteCheck(r)
        <3> SUFFICES ASSUME WriteCheck(r)
                     PROVE  FALSE
            OBVIOUS
        <3> DEFINE t == req[r].session
                   c == Head(req[r].todo)
                   row == [status |-> Result(c, req[r].failing),
                           version |-> checks[t][c].version + 1]
        <3>1. t \in Sessions /\ c \in Codes
            BY <1>3, Parts, HeadTailProperties
            DEF WriteCheck, At, LocalsComplete, Sessionless, Walking, RequestType
        <3>2. checks' = checks \/ checks' = [checks EXCEPT ![t][c] = row]
            BY <2>1, <3>1 DEF WriteCheck
        <3>3. row.status # "waived"
            BY DEF Result
        <3> HIDE DEF t, c, row
        <3>4. QED
            BY <1>3, <2>3, <3>2, <3>3
    <2>6. CASE WriteWaive(r)
        <3>1. WaiveSound(r) /\ LocalsComplete(req[r]) /\ At(r, "waive")
            BY <1>3, <2>6, Parts DEF WaiveInv, WriteWaive
        <3>2. req[r].session \in Sessions /\ req[r].code \in Codes
            BY <3>1 DEF At, LocalsComplete, Sessionless
        <3>3. CheckUnchanged(r) /\ s = req[r].session /\ code = req[r].code
            BY <1>3, <2>1, <2>6, <3>2 DEF WriteWaive
        <3>4. QED
            BY <3>1, <3>3 DEF WaiveSound, CheckUnchanged
    <2>7. QED
        BY <2>2, <2>4, <2>5, <2>6
<1>4. IInv /\ WaiveInv /\ [Next]_vars => [\A s \in Sessions, code \in Codes :
          checks[s][code].status # "waived" /\ checks'[s][code].status = "waived" =>
             checks[s][code].status \in {"warning", "pending"}]_vars
    BY <1>3
<1>5. QED
    BY <1>2, <1>4, PTL DEF Spec, WaivesWhatWasSeen

=============================================================================
