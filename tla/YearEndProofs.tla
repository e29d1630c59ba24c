---------------------------- MODULE YearEndProofs ----------------------------
(***************************************************************************)
(* For any number of requests, closes and entries:                         *)
(*   - the types of the variables;                                         *)
(*   - a close that was reopened has its closing entry reversed: a request *)
(*     that reopens it carries the entry from the first read to the        *)
(*     reversal, and what the books have reversed stays reversed;          *)
(*   - a closed year keeps its balance, since the books accept an entry    *)
(*     only at a date that is open;                                        *)
(*   - one close of the year is completed at a time, and a closed year     *)
(*     has one that was closed out when it was stored: what the books had  *)
(*     then they keep, at the amount it was posted with.                   *)
(* That the year is still closed out when it is closed needs requests that *)
(* follow one another: year_end_late shows two that do not.                *)
(***************************************************************************)
EXTENDS YearEndProperties, BooksProofs, SumTheorems

Typed ==
    /\ JournalInv
    /\ closes \in [Closes -> CloseRow]
    /\ request \in [Requests -> RequestType]

Reversing == {"reverse", "read_link", "find_reversal", "create_reversal"}
Carrying == {"later", "unlock", "open_periods", "open_year"} \cup Reversing
Reopening == Carrying \cup {"post_reversal", "reopened"}

Done == {"completed", "reopened"}

ReversedEntry(c) == closes[c].entry # None => journal[closes[c].entry].status = "reversed"

\* What a request knows of the close it is reopening and of the entry it is to post.
Carries(r) ==
    /\ request[r].pc \in {"post", "post_reversal"} => request[r].entry \in Entries
    /\ request[r].pc \in Reopening =>
          /\ request[r].close \in Closes
          /\ closes[request[r].close].status \in Done
    /\ request[r].pc \in Carrying => request[r].entry = closes[request[r].close].entry
    /\ request[r].pc \in Reversing \cup {"post_reversal"}
          => closes[request[r].close].entry \in Entries
    /\ request[r].pc = "reopened" => ReversedEntry(request[r].close)

YearEndInv ==
    /\ Typed
    /\ \A r \in Requests : Carries(r)
    /\ \A c \in Closes : closes[c].status = "reopened" => ReversedEntry(c)

-----------------------------------------------------------------------------
(* What a step leaves alone stays true.                                    *)

\* A step that keeps the closes and what is reversed disturbs the invariant only at
\* the request that takes it.
LEMMA OneRequestMoves ==
    ASSUME YearEndInv, JournalInv', StillReversed, UNCHANGED closes,
           NEW r \in Requests, NEW local \in RequestType,
           request' = [request EXCEPT ![r] = local],
           Carries(r)'
    PROVE  YearEndInv'
<1>1. Typed'
  BY DEF YearEndInv, Typed
<1>2. \A c \in Closes : ReversedEntry(c) => ReversedEntry(c)'
  BY DEF YearEndInv, Typed, CloseRow, ReversedEntry, StillReversed
<1>3. ASSUME NEW q \in Requests
      PROVE  Carries(q)'
  <2>1. CASE q = r
    BY <2>1
  <2>2. CASE q # r
    <3>1. request'[q] = request[q]
      BY <2>2 DEF YearEndInv, Typed
    <3>. QED
      BY <1>2, <3>1 DEF YearEndInv, Carries, Reopening
  <2>. QED
    BY <2>1, <2>2
<1>4. ASSUME NEW c \in Closes, closes'[c].status = "reopened"
      PROVE  ReversedEntry(c)'
  BY <1>2, <1>4 DEF YearEndInv
<1>. QED
  BY <1>1, <1>3, <1>4 DEF YearEndInv

\* Steps beside the requests.
LEMMA NoRequestMoves ==
    ASSUME YearEndInv, JournalInv', StillReversed, UNCHANGED <<closes, request>>
    PROVE  YearEndInv'
<1>1. \A c \in Closes : ReversedEntry(c) => ReversedEntry(c)'
  BY DEF YearEndInv, Typed, CloseRow, ReversedEntry, StillReversed
<1>2. \A r \in Requests : Carries(r)'
  BY <1>1 DEF YearEndInv, Carries, Reopening
<1>. QED
  BY <1>1, <1>2 DEF YearEndInv, Typed

\* A request that returns is to post nothing and reopens nothing.
LEMMA ReturnCarries ==
    ASSUME YearEndInv, NEW r \in Requests, Return(r)
    PROVE  /\ Idle \in RequestType
           /\ request' = [request EXCEPT ![r] = Idle]
           /\ Carries(r)'
<1>1. Idle \in RequestType
  BY DEF Idle, RequestType, PC
<1>2. request'[r] = Idle
  BY DEF Return, Become, YearEndInv, Typed
<1>. QED
  BY <1>1, <1>2 DEF Return, Become, Carries, Carrying, Reversing, Reopening, Idle

\* A request that goes on keeps its other local variables.
LEMMA GotoKeeps ==
    ASSUME YearEndInv, NEW r \in Requests, NEW pc \in PC, Goto(r, pc)
    PROVE  \E local \in RequestType :
              /\ request' = [request EXCEPT ![r] = local]
              /\ request'[r] = local
              /\ local.pc = pc
              /\ local.entry = request[r].entry
              /\ local.close = request[r].close
<1>. DEFINE local == [request[r] EXCEPT !.pc = pc]
<1>1. request[r] \in RequestType
  BY DEF YearEndInv, Typed
<1>2. local \in RequestType /\ local.pc = pc
  /\ local.entry = request[r].entry /\ local.close = request[r].close
  BY <1>1 DEF RequestType
<1>3. request' = [request EXCEPT ![r] = local] /\ request'[r] = local
  BY DEF Goto, Become, YearEndInv, Typed
<1>. QED
  BY <1>2, <1>3

LEMMA BooksUnchanged ==
    ASSUME YearEndInv, UNCHANGED journal
    PROVE  JournalInv' /\ StillReversed
BY UnchangedJournal, ReversedStay DEF YearEndInv, Typed

-----------------------------------------------------------------------------
(* Each step of a request.                                                 *)

\* A request returns and the closes stay as they are.
LEMMA ReturnKeeps ==
    ASSUME YearEndInv, JournalInv', StillReversed, UNCHANGED closes,
           NEW r \in Requests, Return(r)
    PROVE  YearEndInv'
BY ReturnCarries, OneRequestMoves

\* A request that reopens nothing goes on, closes and reversals stay as they are.
LEMMA ExecutionKeeps ==
    ASSUME YearEndInv, JournalInv', StillReversed, UNCHANGED closes,
           NEW r \in Requests, NEW local \in RequestType, Become(r, local),
           local.pc \notin Reopening,
           local.pc = "post" => local.entry \in Entries
    PROVE  YearEndInv'
<1>1. request'[r] = local
  BY DEF Become, YearEndInv, Typed
<1>2. Carries(r)'
  BY <1>1 DEF Carries, Carrying, Reversing, Reopening
<1>. QED
  BY <1>2, OneRequestMoves DEF Become

LEMMA GotoExecution ==
    ASSUME YearEndInv, JournalInv', StillReversed, UNCHANGED closes,
           NEW r \in Requests,
           NEW pc \in PC \ (Reopening \cup {"post"}), Goto(r, pc)
    PROVE  YearEndInv'
<1>1. PICK local \in RequestType :
          /\ request' = [request EXCEPT ![r] = local]
          /\ local.pc = pc
  BY GotoKeeps
<1>. QED
  BY <1>1, ExecutionKeeps DEF Become

LEMMA ExecuteKeeps ==
    ASSUME YearEndInv, YearEndAssumption, NEW r \in Requests, Execute(r)
    PROVE  YearEndInv'
<1>a. JournalInv /\ request[r] \in RequestType
  BY DEF YearEndInv, Typed
<1>b. ASSUME UNCHANGED journal
      PROVE  JournalInv' /\ StillReversed
  BY <1>b, BooksUnchanged
<1>1. CASE BeginExecute(r)
  BY <1>1, <1>b, GotoExecution
  DEF BeginExecute, journalVars, tables, PC, Reopening, Carrying, Reversing
<1>2. CASE ReadActivity(r)
  <2>1. [request[r] EXCEPT !.pc = "months", !.seen = InYear] \in RequestType
    BY <1>a DEF RequestType, PC, InYear
  <2>2. [request[r] EXCEPT !.pc = "months", !.seen = InYear].pc = "months"
    BY <1>a DEF RequestType
  <2>. QED
    BY <1>2, <2>1, <2>2, <1>b, ExecutionKeeps
    DEF ReadActivity, journalVars, tables, Reopening, Carrying, Reversing
<1>3. CASE ReadMonths(r) \/ ReadClosingPeriod(r) \/ ReadPrior(r)
  <2>1. PICK pc \in {"closing_period", "prior", "check", "draft"} : Return(r) \/ Goto(r, pc)
    BY <1>3 DEF ReadMonths, ReadClosingPeriod, ReadPrior, Unless
  <2>2. UNCHANGED <<journal, closes>>
    BY <1>3 DEF ReadMonths, ReadClosingPeriod, ReadPrior, Unless, journalVars, tables
  <2>3. pc \in PC \ (Reopening \cup {"post"})
    BY DEF PC, Reopening, Carrying, Reversing
  <2>. QED
    BY <2>1, <2>2, <2>3, <1>b, ReturnKeeps, GotoExecution
<1>4. CASE DraftClosing(r)
  <2>1. CASE IdsLeft /\ SourceFree(Closing)
    <3>. DEFINE local == [request[r] EXCEPT !.pc = "post", !.entry = FreshId]
    <3>1. FreshId \in Entries
      BY <2>1, FreshIdIsFree
    <3>2. Draft(FreshId, ClosingDate, Closing) /\ Become(r, local) /\ UNCHANGED closes
      BY <1>4, <2>1 DEF DraftClosing
    <3>3. JournalInv' /\ StillReversed
      BY <3>1, <3>2, <1>a, DraftKeeps, ReversedStay DEF YearEndAssumption
    <3>4. local \in RequestType /\ local.pc = "post" /\ local.entry = FreshId
      BY <3>1, <1>a DEF RequestType, PC
    <3>. HIDE DEF local
    <3>. QED
      BY <3>1, <3>2, <3>3, <3>4, ExecutionKeeps DEF Reopening, Carrying, Reversing
  <2>2. CASE ~(IdsLeft /\ SourceFree(Closing))
    BY <1>4, <2>2, <1>b, ReturnKeeps DEF DraftClosing, journalVars
  <2>. QED
    BY <2>1, <2>2
<1>5. CASE PostClosing(r)
  <2>1. UNCHANGED closes
    BY <1>5 DEF PostClosing, tables
  <2>2. CASE Return(r) /\ UNCHANGED journalVars
    BY <2>1, <2>2, <1>b, ReturnKeeps DEF journalVars
  <2>3. CASE Post(request[r].entry, Closing, RequestHash) /\ Goto(r, "check")
    <3>1. request[r].entry \in Entries
      BY <1>5 DEF PostClosing, At, YearEndInv, Carries
    <3>. QED
      BY <2>1, <2>3, <3>1, <1>a, PostKeeps, ReversedStay, GotoExecution
      DEF PC, Reopening, Carrying, Reversing
  <2>. QED
    BY <1>5, <2>2, <2>3 DEF PostClosing
<1>6. CASE CheckBalance(r)
  <2>1. [request[r] EXCEPT !.pc = "insert", !.seen = InYear] \in RequestType
    BY <1>a DEF RequestType, PC, InYear
  <2>2. [request[r] EXCEPT !.pc = "insert", !.seen = InYear].pc = "insert"
    BY <1>a DEF RequestType
  <2>. QED
    BY <1>6, <2>1, <2>2, <1>b, ExecutionKeeps
    DEF CheckBalance, journalVars, tables, Reopening, Carrying, Reversing
<1>7. CASE InsertClose(r)
  <2>1. PICK c \in Closes, status \in {"completed", "failed"} :
            /\ closes[c].status = "absent"
            /\ closes' \in {closes, [closes EXCEPT ![c] = [status |-> status,
                                                          entry  |-> request[r].entry,
                                                          post   |-> request[r].seen]]}
            /\ Goto(r, "close_year") \/ Return(r)
            /\ UNCHANGED journal
    BY <1>7 DEF InsertClose, journalVars
  <2>2. closes' \in [Closes -> CloseRow] /\ closes'[c].status # "reopened"
    BY <2>1, <1>a DEF YearEndInv, Typed, CloseRow, CloseStatus, RequestType
  <2>3. ASSUME NEW d \in Closes, d # c
        PROVE  closes'[d] = closes[d]
    BY <2>1, <2>3 DEF YearEndInv, Typed
  <2>4. PICK local \in RequestType :
            /\ request' = [request EXCEPT ![r] = local]
            /\ local.pc \in {"close_year", "idle"}
    <3>1. CASE Goto(r, "close_year")
      BY <3>1, GotoKeeps DEF PC
    <3>2. CASE Return(r)
      BY <3>2, ReturnCarries DEF Idle
    <3>. QED
      BY <2>1, <3>1, <3>2
  <2>5. request' \in [Requests -> RequestType] /\ request'[r] = local
    BY <2>4 DEF YearEndInv, Typed
  <2>6. ASSUME NEW q \in Requests
        PROVE  Carries(q)'
    <3>1. CASE q = r
      BY <3>1, <2>4, <2>5 DEF Carries, Carrying, Reversing, Reopening
    <3>2. CASE q # r
      <4>1. request'[q] = request[q]
        BY <3>2, <2>4 DEF YearEndInv, Typed
      <4>2. request[q].pc \in Reopening => closes'[request[q].close] = closes[request[q].close]
        BY <2>1, <2>3 DEF YearEndInv, Carries, Done
      <4>. QED
        BY <2>1, <4>1, <4>2 DEF YearEndInv, Carries, Carrying, Reversing, Reopening, ReversedEntry
    <3>. QED
      BY <3>1, <3>2
  <2>7. ASSUME NEW d \in Closes, closes'[d].status = "reopened"
        PROVE  ReversedEntry(d)'
    BY <2>7, <2>1, <2>2, <2>3 DEF YearEndInv, ReversedEntry
  <2>8. Typed'
    BY <2>1, <2>2, <2>5, <1>b DEF Typed
  <2>. QED
    BY <2>6, <2>7, <2>8 DEF YearEndInv
<1>8. CASE CloseYear(r)
  BY <1>8, <1>b, GotoExecution DEF CloseYear, journalVars, PC, Reopening, Carrying, Reversing
<1>9. CASE LockPeriods(r)
  BY <1>9, <1>b, GotoExecution DEF LockPeriods, journalVars, PC, Reopening, Carrying, Reversing
<1>10. CASE CompleteSession(r)
  BY <1>10, <1>b, ReturnKeeps DEF CompleteSession, journalVars
<1>. QED
  BY <1>1, <1>2, <1>3, <1>4, <1>5, <1>6, <1>7, <1>8, <1>9, <1>10 DEF Execute

\* A request goes on with the close it is reopening and the closing entry it carries.
LEMMA GotoReopening ==
    ASSUME YearEndInv, JournalInv', StillReversed, UNCHANGED closes,
           NEW r \in Requests, request[r].pc \in Carrying,
           NEW pc \in Carrying \cup {"reopened"}, Goto(r, pc),
           pc \in Reversing => request[r].entry \in Entries,
           pc = "reopened" => request[r].entry = None
    PROVE  YearEndInv'
<1>1. PICK local \in RequestType :
          /\ request' = [request EXCEPT ![r] = local]
          /\ request'[r] = local
          /\ local.pc = pc
          /\ local.entry = request[r].entry
          /\ local.close = request[r].close
  BY GotoKeeps DEF Carrying, Reversing, PC
<1>2. Carries(r)'
  BY <1>1 DEF YearEndInv, Carries, Carrying, Reversing, Reopening, ReversedEntry
<1>. QED
  BY <1>1, <1>2, OneRequestMoves

LEMMA ReopenKeeps ==
    ASSUME YearEndInv, YearEndAssumption, NEW r \in Requests, Reopen(r)
    PROVE  YearEndInv'
<1>a. JournalInv /\ request[r] \in RequestType
  BY DEF YearEndInv, Typed
<1>b. ASSUME UNCHANGED journal
      PROVE  JournalInv' /\ StillReversed
  BY <1>b, BooksUnchanged
<1>1. CASE BeginReopen(r)
  <2>1. PICK c \in Closes :
            /\ closes[c].status = "completed"
            /\ Become(r, [Idle EXCEPT !.pc = "later", !.close = c, !.entry = closes[c].entry])
    BY <1>1 DEF BeginReopen, Completed
  <2>. DEFINE local == [Idle EXCEPT !.pc = "later", !.close = c, !.entry = closes[c].entry]
  <2>2. /\ local \in RequestType
        /\ local.pc = "later" /\ local.close = c /\ local.entry = closes[c].entry
    BY DEF YearEndInv, Typed, CloseRow, Idle, RequestType, PC
  <2>3. Become(r, local)
    BY <2>1
  <2>. HIDE DEF local
  <2>4. request' = [request EXCEPT ![r] = local] /\ request'[r] = local
    BY <2>3 DEF Become, YearEndInv, Typed
  <2>5. UNCHANGED <<closes, journal>>
    BY <1>1 DEF BeginReopen, journalVars, tables
  <2>6. Carries(r)'
    BY <2>1, <2>2, <2>4, <2>5 DEF Carries, Carrying, Reversing, Reopening, Done
  <2>. QED
    BY <2>2, <2>4, <2>5, <2>6, <1>b, OneRequestMoves
<1>2. CASE ReadLater(r)
  <2>1. Return(r) \/ Goto(r, "unlock")
    BY <1>2 DEF ReadLater
  <2>. QED
    BY <1>2, <2>1, <1>b, ReturnKeeps, GotoReopening
    DEF ReadLater, At, journalVars, tables, Carrying, Reversing
<1>3. CASE Unlock(r)
  BY <1>3, <1>b, GotoReopening DEF Unlock, At, journalVars, Carrying, Reversing
<1>4. CASE OpenPeriods(r)
  BY <1>4, <1>b, GotoReopening DEF OpenPeriods, At, journalVars, Carrying, Reversing
<1>5. CASE OpenYear(r)
  <2>1. CASE request[r].entry = None
    BY <1>5, <2>1, <1>b, GotoReopening
    DEF OpenYear, AfterOpening, At, journalVars, Carrying, Reversing
  <2>2. CASE request[r].entry # None
    BY <1>5, <2>2, <1>a, <1>b, GotoReopening
    DEF OpenYear, AfterOpening, At, journalVars, Carrying, Reversing, RequestType
  <2>. QED
    BY <2>1, <2>2
<1>6. CASE \E pc, next \in Reversing : ReadOriginal(r, pc, next)
  <2>1. PICK pc \in Reversing, next \in Reversing : ReadOriginal(r, pc, next)
    BY <1>6
  <2>2. Return(r) \/ Goto(r, next)
    BY <2>1 DEF ReadOriginal, Unless
  <2>3. UNCHANGED <<journal, closes>> /\ request[r].pc \in Reversing
    BY <2>1 DEF ReadOriginal, Unless, At, journalVars, tables
  <2>4. request[r].entry \in Entries
    BY <2>3 DEF YearEndInv, Carries, Carrying, Reversing
  <2>5. next # "reopened"
    BY DEF Reversing
  <2>. QED
    BY <2>2, <2>3, <2>4, <2>5, <1>b, ReturnKeeps, GotoReopening DEF Carrying, Reversing
<1>7. CASE FindReversal(r) \/ CreateReversal(r)
  <2>. DEFINE o == request[r].entry
  <2>1. UNCHANGED closes /\ request[r].pc \in Reversing
    BY <1>7 DEF FindReversal, CreateReversal, At, Reversing, tables
  <2>2. CASE Return(r) /\ UNCHANGED journalVars
    BY <2>1, <2>2, <1>b, ReturnKeeps DEF journalVars
  <2>3. ASSUME NEW e \in Entries, JournalInv', StillReversed,
               Become(r, [request[r] EXCEPT !.pc = "post_reversal", !.entry = e])
        PROVE  YearEndInv'
    <3>. DEFINE local == [request[r] EXCEPT !.pc = "post_reversal", !.entry = e]
    <3>1. /\ local \in RequestType
          /\ local.pc = "post_reversal" /\ local.entry = e
          /\ local.close = request[r].close
      BY <1>a DEF RequestType, PC
    <3>2. Become(r, local)
      BY <2>3
    <3>. HIDE DEF local
    <3>3. request' = [request EXCEPT ![r] = local] /\ request'[r] = local
      BY <3>2 DEF Become, YearEndInv, Typed
    <3>4. Carries(r)'
      BY <2>1, <3>1, <3>3 DEF YearEndInv, Carries, Reopening, Carrying, Reversing
    <3>. QED
      BY <2>1, <2>3, <3>1, <3>3, <3>4, OneRequestMoves
  <2>4. ASSUME NEW e \in DraftsOf(o), UNCHANGED journalVars,
               Become(r, [request[r] EXCEPT !.pc = "post_reversal", !.entry = e])
        PROVE  YearEndInv'
    BY <2>3, <2>4, <1>b DEF DraftsOf, EntriesOf, journalVars
  <2>5. CASE /\ IdsLeft /\ Draft(FreshId, ClosingDate, o)
             /\ Become(r, [request[r] EXCEPT !.pc = "post_reversal", !.entry = FreshId])
    <3>1. FreshId \in Entries /\ o \in Entries
      BY <2>1, <2>5, FreshIdIsFree DEF YearEndInv, Carries, Carrying, Reversing
    <3>2. JournalInv' /\ StillReversed
      BY <2>5, <3>1, <1>a, DraftKeeps, ReversedStay DEF YearEndAssumption
    <3>. QED
      BY <2>3, <2>5, <3>1, <3>2
  <2>6. CASE Goto(r, "create_reversal") /\ UNCHANGED journalVars
    <3>1. request[r].entry \in Entries
      BY <2>1 DEF YearEndInv, Carries, Carrying, Reversing
    <3>. QED
      BY <2>1, <2>6, <3>1, <1>b, GotoReopening DEF Carrying, Reversing, journalVars
  <2>7. CASE FindReversal(r)
    BY <2>2, <2>4, <2>6, <2>7 DEF FindReversal
  <2>8. CASE CreateReversal(r)
    BY <2>2, <2>5, <2>8 DEF CreateReversal
  <2>. QED
    BY <1>7, <2>7, <2>8
<1>8. CASE PostReversal(r)
  <2>. DEFINE o == closes[request[r].close].entry
              e == request[r].entry
  <2>1. /\ UNCHANGED closes
        /\ o \in Entries /\ e \in Entries
        /\ request[r].close \in Closes /\ closes[request[r].close].status \in Done
    BY <1>8 DEF PostReversal, At, tables, YearEndInv, Carries, Reopening
  <2>2. CASE ReversalRefused(r)
    BY <2>1, <2>2, <1>b, ReturnKeeps DEF ReversalRefused, journalVars
  <2>3. CASE Reverse(o, e, ReopenKey, RequestHash) /\ Goto(r, "reopened")
    <3>1. JournalInv' /\ StillReversed /\ journal'[o].status = "reversed"
      BY <2>1, <2>3, <1>a, ReverseKeeps, ReversedStay
    <3>2. PICK local \in RequestType :
              /\ request' = [request EXCEPT ![r] = local]
              /\ request'[r] = local
              /\ local.pc = "reopened"
              /\ local.close = request[r].close
      BY <2>3, GotoKeeps DEF PC
    <3>3. Carries(r)'
      BY <2>1, <3>1, <3>2 DEF Carries, Carrying, Reversing, Reopening, ReversedEntry
    <3>. QED
      BY <2>1, <3>1, <3>2, <3>3, OneRequestMoves
  <2>. QED
    BY <1>8, <2>2, <2>3 DEF PostReversal
<1>9. CASE MarkReopened(r)
  <2>. DEFINE c == request[r].close
  <2>1. /\ c \in Closes /\ closes[c].status \in Done /\ ReversedEntry(c)
        /\ closes' = [closes EXCEPT ![c].status = "reopened"]
        /\ UNCHANGED journal
    BY <1>9 DEF MarkReopened, At, journalVars, YearEndInv, Carries, Reopening
  <2>2. closes' \in [Closes -> CloseRow]
    BY <2>1 DEF YearEndInv, Typed, CloseRow, CloseStatus
  <2>3. ASSUME NEW d \in Closes
        PROVE  /\ closes'[d].entry = closes[d].entry
               /\ d # c => closes'[d].status = closes[d].status
               /\ d = c => closes'[d].status = "reopened"
    BY <2>1 DEF YearEndInv, Typed, CloseRow
  <2>4. PICK local \in RequestType :
            /\ request' = [request EXCEPT ![r] = local]
            /\ request'[r] = local
            /\ local.pc = "reopen_session"
    BY <1>9, GotoKeeps DEF MarkReopened, PC
  <2>5. ASSUME NEW q \in Requests
        PROVE  Carries(q)'
    <3>1. CASE q = r
      BY <3>1, <2>4 DEF Carries, Carrying, Reversing, Reopening
    <3>2. CASE q # r
      <4>1. request'[q] = request[q]
        BY <3>2, <2>4 DEF YearEndInv, Typed
      <4>. QED
        BY <2>1, <2>3, <4>1
        DEF YearEndInv, Carries, Carrying, Reversing, Reopening, ReversedEntry, Done
    <3>. QED
      BY <3>1, <3>2
  <2>6. ASSUME NEW d \in Closes, closes'[d].status = "reopened"
        PROVE  ReversedEntry(d)'
    BY <2>6, <2>1, <2>3 DEF YearEndInv, ReversedEntry
  <2>7. Typed'
    BY <2>1, <2>2, <2>4, <1>b DEF YearEndInv, Typed
  <2>. QED
    BY <2>5, <2>6, <2>7 DEF YearEndInv
<1>10. CASE ReopenSession(r)
  BY <1>10, <1>b, ReturnKeeps DEF ReopenSession, journalVars
<1>. QED
  BY <1>1, <1>2, <1>3, <1>4, <1>5, <1>6, <1>7, <1>8, <1>9, <1>10 DEF Reopen, Reversing

\* What an ordinary request does to the journal.
LEMMA OrdinaryOperation ==
    ASSUME JournalInv, YearEndAssumption, DraftOrdinary \/ DraftMirror \/ PostOrdinary
    PROVE  JournalInv' /\ JournalStep
<1>1. CASE DraftOrdinary
  BY <1>1, FreshIdIsFree, DraftKeeps DEF DraftOrdinary
<1>2. CASE DraftMirror
  BY <1>2, FreshIdIsFree, MirrorKeeps DEF DraftMirror, YearEndAssumption
<1>3. CASE PostOrdinary
  BY <1>3, PostKeeps, ReverseKeeps DEF PostOrdinary
<1>. QED
  BY <1>1, <1>2, <1>3

\* What staff do to drafts.
LEMMA StaffOperation ==
    ASSUME JournalInv, Staff
    PROVE  JournalInv' /\ JournalStep
BY EditKeeps, RemoveKeeps, VoidKeeps DEF Staff, StaffEdit, StaffCancel

-----------------------------------------------------------------------------

\* No journal operation, statement or eviction breaks what requests carry.
LEMMA YearEndInductive ==
    ASSUME YearEndInv, YearEndAssumption, [YearEndNext]_vars
    PROVE  YearEndInv'
<1>b. ASSUME UNCHANGED journal
      PROVE  JournalInv' /\ StillReversed
  BY <1>b, BooksUnchanged
<1>0. JournalInv
  BY DEF YearEndInv, Typed
<1>1. ASSUME NEW r \in Requests, Execute(r) \/ Reopen(r)
      PROVE  YearEndInv'
  BY <1>1, ExecuteKeeps, ReopenKeeps
<1>2. ASSUME NEW r \in Requests, Evict(r)
      PROVE  YearEndInv'
  BY <1>2, <1>b, ReturnKeeps DEF Evict, journalVars, tables
<1>3. CASE CloseMonth \/ ReopenMonth
  BY <1>3, <1>b, NoRequestMoves DEF CloseMonth, ReopenMonth, journalVars
<1>4. CASE Staff \/ \E r \in Requests : Ordinary(r)
  <2>1. JournalInv' /\ StillReversed
    BY <1>0, <1>4, OrdinaryOperation, StaffOperation, ReversedStay DEF Ordinary
  <2>. QED
    BY <1>4, <2>1, NoRequestMoves DEF Staff, Ordinary
<1>5. CASE UNCHANGED vars
  BY <1>5, <1>b, NoRequestMoves DEF vars, journalVars, tables
<1>. QED
  BY <1>1, <1>2, <1>3, <1>4, <1>5 DEF YearEndNext

\* The inductive invariant.
THEOREM YearEndInvariant == YearEndSpec => []YearEndInv
<1>1. YearEndInit => YearEndInv
  BY EmptyJournal DEF YearEndInit, YearEndInv, Typed, NoClose,
         CloseRow, CloseStatus, Idle, RequestType, PC, Carries, Carrying, Reversing, Reopening
<1>2. YearEndInv /\ [YearEndNext]_vars => YearEndInv'
  BY YearEndInductive, YearEndAssumption
<1>. QED
  BY <1>1, <1>2, PTL DEF YearEndSpec

\* A close that was reopened has its closing entry reversed, for any number of
\* concurrent executions, reopenings and evictions.
THEOREM ReopenedIsReversedAlways == YearEndSpec => []ReopenedIsReversed
<1>1. YearEndInv => ReopenedIsReversed
  BY DEF YearEndInv, ReversedEntry, ReopenedIsReversed
<1>. QED
  BY <1>1, YearEndInvariant, PTL

-----------------------------------------------------------------------------
(* Types.                                                                  *)

OtherTypes ==
    /\ amount \in [Entries -> Int]
    /\ periods \in [Dates -> PeriodStatus]
    /\ locks \subseteq Dates
    /\ year \in {"open", "closed"}
    /\ session \in {"in_progress", "completed", "reopened"}
    /\ \A r \in Requests : request[r].pc = "reopen_session" => request[r].close \in Closes
    /\ mishaps \in 0..MaxMishaps
    /\ accepting = Open

LEMMA TotalType ==
    ASSUME OtherTypes, YearEndAssumption, NEW S \in SUBSET Entries
    PROVE  Total(S) \in Int
<1>1. IsFiniteSet(S) /\ \A e \in S : amount[e] \in Int
  BY FS_Subset DEF OtherTypes, YearEndAssumption
<1>. QED
  BY <1>1, SumType DEF Total

\* What an operation of the year end writes beside the journal and the closes.
LEMMA ColumnsTyped ==
    ASSUME YearEndInv, OtherTypes, YearEndAssumption, [YearEndNext]_vars
    PROVE  /\ periods' \in [Dates -> PeriodStatus] /\ locks' \subseteq Dates
           /\ year' \in {"open", "closed"} /\ session' \in {"in_progress", "completed", "reopened"}
           /\ mishaps' \in 0..MaxMishaps /\ accepting' = Open'
<1>1. ASSUME NEW r \in Requests, Execute(r)
      PROVE  /\ periods' \in [Dates -> PeriodStatus] /\ UNCHANGED locks
             /\ year' \in {"open", "closed"} /\ session' \in {"in_progress", "completed", "reopened"}
  BY <1>1 DEF Execute, BeginExecute, ReadActivity, ReadMonths, ReadClosingPeriod, ReadPrior,
              Unless, DraftClosing, PostClosing, CheckBalance, InsertClose, CloseYear,
              LockPeriods, CompleteSession, tables, calendar, OtherTypes, PeriodStatus
<1>2. ASSUME NEW r \in Requests, Reopen(r)
      PROVE  /\ periods' \in [Dates -> PeriodStatus] /\ locks' \subseteq Dates
             /\ year' \in {"open", "closed"} /\ session' \in {"in_progress", "completed", "reopened"}
  BY <1>2 DEF Reopen, BeginReopen, ReadLater, Unlock, OpenPeriods, OpenYear, ReadOriginal,
              Unless, FindReversal, CreateReversal, PostReversal, MarkReopened, ReopenSession,
              tables, calendar, OtherTypes, PeriodStatus
<1>3. ASSUME NEW r \in Requests, Ordinary(r) \/ Evict(r)
      PROVE  UNCHANGED <<periods, locks, year, session>>
  BY <1>3 DEF Ordinary, Evict, tables, calendar
<1>4. ASSUME CloseMonth \/ ReopenMonth
      PROVE  /\ periods' \in [Dates -> PeriodStatus] /\ locks' \subseteq Dates
             /\ UNCHANGED <<year, session>>
  BY <1>4 DEF CloseMonth, ReopenMonth, OtherTypes, PeriodStatus
<1>5. ASSUME Staff \/ UNCHANGED vars
      PROVE  UNCHANGED <<periods, locks, year, session>>
  BY <1>5 DEF Staff, vars, tables, calendar
<1>6. accepting' = Open'
  <2>1. CASE UNCHANGED vars
    <3>1. UNCHANGED <<accepting, periods, locks, year>>
      BY <2>1 DEF vars, tables, calendar
    <3>. QED
      BY <3>1 DEF OtherTypes, Open
  <2>. QED
    BY <2>1 DEF YearEndNext
<1>7. mishaps' \in 0..MaxMishaps
  BY DEF YearEndNext, CloseMonth, ReopenMonth, Staff, Evict, vars, OtherTypes,
         YearEndAssumption
<1>. QED
  BY <1>1, <1>2, <1>3, <1>4, <1>5, <1>6, <1>7 DEF YearEndNext, OtherTypes

\* An amount is given to an entry when it is drafted, and another one while it is a draft.
AmountsGiven ==
    \/ UNCHANGED amount
    \/ \E e \in Entries, x \in Int :
          ~Posted(e) /\ ~Posted(e)' /\ amount' = [amount EXCEPT ![e] = x]

LEMMA AmountOfDraft ==
    ASSUME JournalInv, YearEndAssumption, NEW e \in Entries, NEW x \in Int,
           amount' = [amount EXCEPT ![e] = x],
           \/ \E date \in Dates, source \in Sources \cup {None} : Draft(e, date, source)
           \/ \E date \in Dates : Edit(e, date)
    PROVE  AmountsGiven
<1>1. ASSUME NEW date \in Dates, NEW source \in Sources \cup {None}, Draft(e, date, source)
      PROVE  ~Posted(e) /\ ~Posted(e)'
  <2>1. journal[e].status = "absent" /\ journal'[e].status = "draft"
    BY <1>1, DraftKeeps DEF Draft
  <2>. QED
    BY <2>1 DEF Posted
<1>2. ASSUME NEW date \in Dates, Edit(e, date)
      PROVE  ~Posted(e) /\ ~Posted(e)'
  <2>1. Pending(e) /\ journal'[e].status = "edited"
    BY <1>2 DEF Edit, PutEntry, JournalInv
  <2>. QED
    BY <2>1 DEF Posted, Pending
<1>. QED
  BY <1>1, <1>2 DEF AmountsGiven

LEMMA AmountsStep ==
    ASSUME YearEndInv, OtherTypes, YearEndAssumption, [YearEndNext]_vars
    PROVE  AmountsGiven
<1>0. JournalInv
  BY DEF YearEndInv, Typed
<1>1. ASSUME NEW r \in Requests, DraftClosing(r)
      PROVE  AmountsGiven
  <2>1. request[r].seen \in SUBSET Entries
    BY DEF YearEndInv, Typed, RequestType
  <2>2. -Total(request[r].seen) \in Int
    BY <2>1, TotalType
  <2>3. CASE IdsLeft /\ SourceFree(Closing)
    <3>1. /\ amount' = [amount EXCEPT ![FreshId] = -Total(request[r].seen)]
          /\ Draft(FreshId, ClosingDate, Closing)
      BY <1>1, <2>3 DEF DraftClosing
    <3>2. ClosingDate \in Dates /\ Closing \in Sources \cup {None} /\ FreshId \in Entries
      BY <2>3, FreshIdIsFree DEF YearEndAssumption
    <3>. QED
      BY <1>0, <2>2, <3>1, <3>2, AmountOfDraft
  <2>. QED
    BY <1>1, <2>3 DEF DraftClosing, AmountsGiven
<1>2. ASSUME NEW r \in Requests, CreateReversal(r)
      PROVE  AmountsGiven
  <2>1. request[r].entry \in Entries
    BY <1>2 DEF CreateReversal, At, YearEndInv, Carries, Carrying, Reversing
  <2>2. -amount[request[r].entry] \in Int
    BY <2>1 DEF OtherTypes
  <2>3. CASE IdsLeft /\ SourceFree(request[r].entry)
    <3>1. /\ amount' = [amount EXCEPT ![FreshId] = -amount[request[r].entry]]
          /\ Draft(FreshId, ClosingDate, request[r].entry)
      BY <1>2, <2>3 DEF CreateReversal
    <3>2. /\ ClosingDate \in Dates /\ request[r].entry \in Sources \cup {None}
          /\ FreshId \in Entries
      BY <2>1, <2>3, FreshIdIsFree DEF YearEndAssumption
    <3>. QED
      BY <1>0, <2>2, <3>1, <3>2, AmountOfDraft
  <2>. QED
    BY <1>2, <2>3 DEF CreateReversal, AmountsGiven
<1>3. ASSUME NEW r \in Requests, Ordinary(r)
      PROVE  AmountsGiven
  <2>1. CASE DraftOrdinary
    BY <1>0, <2>1, FreshIdIsFree, AmountOfDraft DEF DraftOrdinary, YearEndAssumption
  <2>2. CASE DraftMirror
    <3>1. PICK o \in Entries, d \in Dates :
              Draft(FreshId, d, o) /\ amount' = [amount EXCEPT ![FreshId] = -amount[o]]
      BY <2>2 DEF DraftMirror, Mirror
    <3>2. -amount[o] \in Int /\ FreshId \in Entries /\ o \in Sources
      BY <2>2, FreshIdIsFree DEF DraftMirror, OtherTypes, YearEndAssumption
    <3>. QED
      BY <1>0, <3>1, <3>2, AmountOfDraft
  <2>3. CASE PostOrdinary
    BY <2>3 DEF PostOrdinary, AmountsGiven
  <2>. QED
    BY <1>3, <2>1, <2>2, <2>3 DEF Ordinary
<1>4. ASSUME NEW r \in Requests, Execute(r), ~DraftClosing(r)
      PROVE  UNCHANGED amount
  BY <1>4 DEF Execute, BeginExecute, ReadActivity, ReadMonths, ReadClosingPeriod, ReadPrior,
              Unless, PostClosing, CheckBalance, InsertClose, CloseYear, LockPeriods,
              CompleteSession, tables
<1>5. ASSUME NEW r \in Requests, Reopen(r), ~CreateReversal(r)
      PROVE  UNCHANGED amount
  BY <1>5 DEF Reopen, BeginReopen, ReadLater, Unlock, OpenPeriods, OpenYear, ReadOriginal,
              Unless, FindReversal, PostReversal, MarkReopened, ReopenSession, tables
<1>6. ASSUME \/ \E r \in Requests : Evict(r)
             \/ CloseMonth \/ ReopenMonth \/ UNCHANGED vars
      PROVE  UNCHANGED amount
  BY <1>6 DEF Evict, CloseMonth, ReopenMonth, vars, tables
<1>7. ASSUME Staff
      PROVE  AmountsGiven
  <2>1. PICK e \in Entries : StaffEdit(e) \/ StaffCancel(e)
    BY <1>7 DEF Staff
  <2>2. CASE StaffEdit(e)
    <3>1. PICK d \in Dates, x \in Effects \cup {amount[e]} :
              Edit(e, d) /\ amount' = [amount EXCEPT ![e] = x]
      BY <2>2 DEF StaffEdit
    <3>2. x \in Int
      BY DEF OtherTypes, YearEndAssumption
    <3>. QED
      BY <1>0, <3>1, <3>2, AmountOfDraft
  <2>. QED
    BY <2>1, <2>2 DEF StaffCancel, AmountsGiven
<1>. QED
  BY <1>1, <1>2, <1>3, <1>4, <1>5, <1>6, <1>7 DEF YearEndNext, AmountsGiven

\* Only the request that has marked its close is at the session of it.
LEMMA SessionReopener ==
    ASSUME YearEndInv, OtherTypes, [YearEndNext]_vars, NEW r \in Requests,
           request'[r].pc = "reopen_session"
    PROVE  request'[r].close \in Closes
<1>0. request \in [Requests -> RequestType]
  BY DEF YearEndInv, Typed
<1>1. CASE request'[r] = request[r]
  BY <1>1 DEF OtherTypes
<1>2. ASSUME NEW q \in Requests, MarkReopened(q)
      PROVE  request'[r].close \in Closes
  <2>1. request[q].close \in Closes
    BY <1>2 DEF MarkReopened, At, YearEndInv, Carries, Reopening
  <2>2. q # r => request'[r] = request[r]
    BY <1>0, <1>2 DEF MarkReopened, Goto, Become
  <2>3. request'[q].close = request[q].close
    BY <1>0, <1>2 DEF MarkReopened, Goto, Become, RequestType
  <2>. QED
    BY <1>1, <2>1, <2>2, <2>3
<1>3. ASSUME NEW q \in Requests, NEW local, Become(q, local), local.pc # "reopen_session"
      PROVE  request'[r] = request[r]
  BY <1>0, <1>3 DEF Become
<1>4. ASSUME NEW q \in Requests, NEW pc \in PC \ {"reopen_session"}, Goto(q, pc)
      PROVE  request'[r] = request[r]
  <2>1. [request[q] EXCEPT !.pc = pc].pc = pc
    BY <1>0 DEF RequestType
  <2>. QED
    BY <1>3, <1>4, <2>1 DEF Goto
<1>5. ASSUME NEW q \in Requests, Return(q)
      PROVE  request'[r] = request[r]
  BY <1>3, <1>5 DEF Return, Idle
<1>6. ASSUME NEW q \in Requests, Execute(q)
      PROVE  request'[r] = request[r]
  <2>1. CASE \/ BeginExecute(q) \/ ReadMonths(q) \/ ReadClosingPeriod(q) \/ ReadPrior(q)
             \/ PostClosing(q) \/ InsertClose(q) \/ CloseYear(q) \/ LockPeriods(q)
             \/ CompleteSession(q)
    BY <1>4, <1>5, <2>1 DEF BeginExecute, ReadMonths, ReadClosingPeriod, ReadPrior, Unless,
                            PostClosing, InsertClose, CloseYear, LockPeriods, CompleteSession, PC
  <2>2. CASE ReadActivity(q) \/ CheckBalance(q) \/ DraftClosing(q)
    BY <1>0, <1>3, <1>5, <2>2 DEF ReadActivity, CheckBalance, DraftClosing, RequestType
  <2>. QED
    BY <1>6, <2>1, <2>2 DEF Execute
<1>7. ASSUME NEW q \in Requests, Reopen(q), ~MarkReopened(q)
      PROVE  request'[r] = request[r]
  <2>1. CASE \/ ReadLater(q) \/ Unlock(q) \/ OpenPeriods(q) \/ OpenYear(q) \/ PostReversal(q)
             \/ ReopenSession(q)
    BY <1>4, <1>5, <2>1 DEF ReadLater, Unlock, OpenPeriods, OpenYear, AfterOpening,
                            PostReversal, ReversalRefused, ReopenSession, PC
  <2>2. CASE BeginReopen(q) \/ FindReversal(q) \/ CreateReversal(q)
    BY <1>0, <1>3, <1>4, <1>5, <2>2
    DEF BeginReopen, FindReversal, CreateReversal, RequestType, Idle, PC
  <2>3. CASE \E pc, next \in Reversing : ReadOriginal(q, pc, next)
    BY <1>4, <1>5, <2>3 DEF ReadOriginal, Unless, Reversing, PC
  <2>. QED
    BY <1>7, <2>1, <2>2, <2>3 DEF Reopen, Reversing
<1>8. ASSUME NEW q \in Requests, Ordinary(q) \/ Evict(q)
      PROVE  request'[r] = request[r]
  BY <1>5, <1>8 DEF Ordinary, Evict
<1>9. CASE CloseMonth \/ ReopenMonth \/ Staff \/ UNCHANGED vars
  BY <1>1, <1>9 DEF CloseMonth, ReopenMonth, Staff, vars
<1>. QED
  BY <1>1, <1>2, <1>6, <1>7, <1>8, <1>9 DEF YearEndNext

LEMMA OtherTypesKept ==
    ASSUME YearEndInv, OtherTypes, YearEndAssumption, [YearEndNext]_vars
    PROVE  OtherTypes'
<1>1. amount' \in [Entries -> Int]
  BY AmountsStep DEF AmountsGiven, OtherTypes
<1>. QED
  BY <1>1, ColumnsTyped, SessionReopener DEF OtherTypes

\* Every column and local variable has its type, and a request has what it is to post or
\* to reopen.
THEOREM YearEndTypeCorrect == YearEndSpec => []TypeOK
<1>1. YearEndInit => OtherTypes
  BY YearEndAssumption DEF YearEndInit, OtherTypes, PeriodStatus, Idle, YearEndAssumption
<1>2. YearEndInv /\ OtherTypes /\ [YearEndNext]_vars => OtherTypes'
  BY YearEndAssumption, OtherTypesKept
<1>3. YearEndInv /\ OtherTypes => TypeOK
  BY DEF YearEndInv, Typed, CloseRow, Carries, Carrying, Reversing, Reopening, OtherTypes, TypeOK
<1>. QED
  BY <1>1, <1>2, <1>3, YearEndInvariant, PTL DEF YearEndSpec

-----------------------------------------------------------------------------
(* The books of the year.                                                  *)

\* Entries are added to the year by postings of its dates only, and none is taken away.
LEMMA BookedOutside ==
    ASSUME JournalInv, NEW e \in Entries, NEW o \in Entries, NEW k, NEW h,
           \/ UNCHANGED journal
           \/ \E date \in Dates, source \in Sources \cup {None} : Draft(e, date, source)
           \/ \E date \in Dates : Edit(e, date)
           \/ Remove(e) \/ Void(e)
           \/ Post(e, k, h) /\ journal[e].date \notin YearDates
           \/ Reverse(o, e, k, h) /\ journal[e].date \notin YearDates
    PROVE  UNCHANGED InYear
<1>1. ASSUME JournalStep,
             \A f \in Entries : Posted(f)' => Posted(f) \/ journal'[f].date \notin YearDates
      PROVE  UNCHANGED InYear
  <2>1. \A f \in Entries : Posted(f) => Posted(f)' /\ journal'[f].date = journal[f].date
    BY <1>1 DEF JournalStep, Posted
  <2>2. \A f \in Entries : Posted(f)' /\ journal'[f].date \in YearDates <=>
                              Posted(f) /\ journal[f].date \in YearDates
    BY <1>1, <2>1
  <2>. QED
    BY <2>2 DEF InYear
<1>2. CASE UNCHANGED journal
  BY <1>2 DEF InYear, Posted
<1>3. ASSUME NEW date \in Dates, NEW source \in Sources \cup {None}, Draft(e, date, source)
      PROVE  UNCHANGED InYear
  <2>1. /\ JournalStep
        /\ journal'[e] = [status |-> "draft", date |-> date, source |-> source]
    BY <1>3, DraftKeeps
  <2>2. \A f \in Entries : f # e => journal'[f] = journal[f]
    BY <1>3 DEF Draft, PutEntry, JournalInv
  <2>. QED
    BY <1>1, <2>1, <2>2 DEF Posted
<1>4. CASE Remove(e) \/ Void(e)
  <2>1. JournalStep
    BY <1>4, RemoveKeeps, VoidKeeps
  <2>2. /\ journal'[e].status \in {"deleted", "voided"}
        /\ \A f \in Entries : f # e => journal'[f] = journal[f]
    BY <1>4 DEF Remove, Void, PutEntry, Removed, JournalInv, EntryRow
  <2>. QED
    BY <1>1, <2>1, <2>2 DEF Posted
<1>5. CASE Post(e, k, h) /\ journal[e].date \notin YearDates
  <2>1. JournalStep /\ journal'[e].date = journal[e].date
    BY <1>5, PostKeeps
  <2>2. \A f \in Entries : f # e => journal'[f] = journal[f]
    BY <1>5 DEF Post, PutEntry, JournalInv
  <2>. QED
    BY <1>1, <1>5, <2>1, <2>2 DEF Posted
<1>6. CASE Reverse(o, e, k, h) /\ journal[e].date \notin YearDates
  <2>1. /\ \A f \in Entries : f \notin {o, e} => journal'[f] = journal[f]
        /\ Posted(o) /\ Posted(o)'
    BY <1>6, ReverseStep DEF Posted
  <2>2. \A f \in Entries : journal'[f].date = journal[f].date
    BY <1>6 DEF Reverse, JournalInv, EntryRow
  <2>3. \A f \in Entries : Posted(f)' /\ journal'[f].date \in YearDates <=>
                              Posted(f) /\ journal[f].date \in YearDates
    <3>1. ~Posted(e)
      BY <1>6, ReverseStep DEF Posted, Pending
    <3>. QED
      BY <1>6, <2>1, <2>2, <3>1 DEF Posted
  <2>. QED
    BY <2>3 DEF InYear
<1>7. ASSUME NEW date \in Dates, Edit(e, date)
      PROVE  UNCHANGED InYear
  <2>1. JournalStep
    BY <1>7, EditKeeps
  <2>2. /\ journal'[e].status = "edited"
        /\ \A f \in Entries : f # e => journal'[f] = journal[f]
    BY <1>7 DEF Edit, PutEntry, JournalInv
  <2>. QED
    BY <1>1, <2>1, <2>2 DEF Posted
<1>. QED
  BY <1>2, <1>3, <1>4, <1>5, <1>6, <1>7

Books(r) == PostClosing(r) \/ PostReversal(r) \/ (Ordinary(r) /\ PostOrdinary)

\* What is not a posting adds nothing to the year.
LEMMA OtherStepsBookNothing ==
    ASSUME YearEndInv, YearEndAssumption, [YearEndNext]_vars,
           ~\E r \in Requests : Books(r)
    PROVE  UNCHANGED InYear
<1>0. JournalInv
  BY DEF YearEndInv, Typed
<1>1. CASE UNCHANGED journal
  BY <1>1 DEF InYear, Posted
<1>2. ASSUME NEW r \in Requests, DraftClosing(r)
      PROVE  UNCHANGED InYear
  <2>1. CASE IdsLeft /\ Draft(FreshId, ClosingDate, Closing)
    BY <1>0, <2>1, FreshIdIsFree, BookedOutside DEF YearEndAssumption
  <2>. QED
    BY <1>1, <1>2, <2>1 DEF DraftClosing, journalVars
<1>3. ASSUME NEW r \in Requests, CreateReversal(r)
      PROVE  UNCHANGED InYear
  <2>1. CASE IdsLeft /\ Draft(FreshId, ClosingDate, request[r].entry)
    <3>1. request[r].entry \in Sources
      BY <1>3 DEF CreateReversal, At, YearEndInv, Carries, Carrying, Reversing, YearEndAssumption
    <3>. QED
      BY <1>0, <2>1, <3>1, FreshIdIsFree, BookedOutside DEF YearEndAssumption
  <2>. QED
    BY <1>1, <1>3, <2>1 DEF CreateReversal, journalVars
<1>4. CASE DraftOrdinary
  BY <1>0, <1>4, FreshIdIsFree, BookedOutside DEF DraftOrdinary
<1>9. CASE DraftMirror
  BY <1>0, <1>9, FreshIdIsFree, BookedOutside DEF DraftMirror, Mirror, YearEndAssumption
<1>5. CASE Staff
  BY <1>0, <1>5, BookedOutside DEF Staff, StaffEdit, StaffCancel
<1>6. ASSUME NEW r \in Requests, Execute(r), ~DraftClosing(r), ~PostClosing(r)
      PROVE  UNCHANGED journal
  BY <1>6 DEF Execute, BeginExecute, ReadActivity, ReadMonths, ReadClosingPeriod,
              ReadPrior, Unless, CheckBalance, InsertClose, CloseYear, LockPeriods,
              CompleteSession, journalVars
<1>7. ASSUME NEW r \in Requests, Reopen(r), ~CreateReversal(r), ~PostReversal(r)
      PROVE  UNCHANGED journal
  BY <1>7 DEF Reopen, BeginReopen, ReadLater, Unlock, OpenPeriods, OpenYear,
              ReadOriginal, Unless, FindReversal, MarkReopened, ReopenSession, journalVars
<1>8. CASE CloseMonth \/ ReopenMonth \/ UNCHANGED vars \/ \E r \in Requests : Evict(r)
  BY <1>1, <1>8 DEF CloseMonth, ReopenMonth, vars, Evict, journalVars
<1>. QED
  BY <1>1, <1>2, <1>3, <1>4, <1>5, <1>6, <1>7, <1>8, <1>9 DEF YearEndNext, Ordinary, Books

\* A closed year takes no posting.
LEMMA ClosedYearTakesNothing ==
    ASSUME YearEndInv, OtherTypes, YearEndAssumption, [YearEndNext]_vars, year = "closed"
    PROVE  UNCHANGED InYear
<1>0. JournalInv /\ \A e \in Entries : journal[e].date \in accepting => journal[e].date \notin YearDates
  BY DEF YearEndInv, Typed, OtherTypes, Open
<1>1. ASSUME NEW r \in Requests, PostClosing(r)
      PROVE  UNCHANGED InYear
  <2>1. request[r].entry \in Entries
    BY <1>1 DEF PostClosing, At, YearEndInv, Carries
  <2>2. \/ UNCHANGED journal
        \/ \E k : Post(request[r].entry, k, RequestHash) /\ journal[request[r].entry].date \in accepting
    BY <1>1 DEF PostClosing, Postable, journalVars
  <2>. QED
    BY <1>0, <2>1, <2>2, BookedOutside
<1>3. CASE PostOrdinary
  <2>1. PICK e \in Entries :
            \/ Post(e, e, RequestHash)
            \/ \E o \in Entries : Reverse(o, e, e, RequestHash)
    BY <1>3 DEF PostOrdinary
  <2>2. journal[e].date \notin YearDates
    BY <1>0, <2>1 DEF Post, Reverse, Reversible, Postable
  <2>3. CASE Post(e, e, RequestHash)
    BY <1>0, <2>2, <2>3, BookedOutside
  <2>4. ASSUME NEW o \in Entries, Reverse(o, e, e, RequestHash)
        PROVE  UNCHANGED InYear
    BY <1>0, <2>2, <2>4, BookedOutside
  <2>. QED
    BY <2>1, <2>3, <2>4
<1>2. ASSUME NEW r \in Requests, PostReversal(r)
      PROVE  UNCHANGED InYear
  <2>. DEFINE o == closes[request[r].close].entry
              e == request[r].entry
  <2>1. o \in Entries /\ e \in Entries
    BY <1>2 DEF PostReversal, At, YearEndInv, Carries
  <2>2. \/ UNCHANGED journal
        \/ Reverse(o, e, ReopenKey, RequestHash) /\ journal[e].date \in accepting
    BY <1>2 DEF PostReversal, ReversalRefused, Reversible, Postable, journalVars
  <2>. HIDE DEF o, e
  <2>. QED
    BY <1>0, <2>1, <2>2, BookedOutside
<1>. QED
  BY <1>1, <1>2, <1>3, OtherStepsBookNothing DEF Books

\* The amounts of what is booked are given before it is.
LEMMA BalanceKept ==
    ASSUME YearEndInv, OtherTypes, YearEndAssumption, [YearEndNext]_vars, UNCHANGED InYear
    PROVE  UNCHANGED Balance
<1>1. IsFiniteSet(InYear) /\ InYear \subseteq Entries
  BY FS_Subset DEF InYear, YearEndAssumption
<1>2. \A e \in InYear : amount'[e] = amount[e]
  BY AmountsStep DEF AmountsGiven, OtherTypes, InYear
<1>3. SumOver(amount', InYear) = SumOver(amount, InYear)
  BY <1>1, <1>2, SumOfSame
<1>. QED
  BY <1>3 DEF Balance, Total

\* Nothing is booked to a year while it is closed, for any number of requests.
THEOREM ClosedYearIsFrozenAlways == YearEndSpec => ClosedYearIsFrozen
<1>1. YearEndInit => OtherTypes
  BY YearEndAssumption DEF YearEndInit, OtherTypes, PeriodStatus, Idle, YearEndAssumption
<1>2. YearEndInv /\ OtherTypes /\ [YearEndNext]_vars => OtherTypes'
  BY YearEndAssumption, OtherTypesKept
<1>3. YearEndInv /\ OtherTypes /\ [YearEndNext]_vars => [year = "closed" => UNCHANGED Balance]_vars
  BY YearEndAssumption, ClosedYearTakesNothing, BalanceKept
<1>. QED
  BY <1>1, <1>2, <1>3, YearEndInvariant, PTL DEF YearEndSpec, ClosedYearIsFrozen

-----------------------------------------------------------------------------

-----------------------------------------------------------------------------
(* To the journal, a request is a caller of its operations.                *)

LEMMA RequestIsABooksStep ==
    ASSUME YearEndInv, OtherTypes, YearEndAssumption, NEW r \in Requests,
           Execute(r) \/ Reopen(r), accepting' = Open'
    PROVE  [Next]_<<journalVars, accepting>>
<1>0. /\ Carries(r) /\ RequestHash \in Hashes
      /\ Entries \cup {Closing} \subseteq Sources \cap Keys
      /\ ReopenKey \in Keys /\ ClosingDate \in Dates
  BY DEF YearEndInv, RequestHash, YearEndAssumption
<1>1. UNCHANGED calendar => UNCHANGED accepting
  BY DEF OtherTypes, Open, calendar
<1>2. CASE UNCHANGED journalVars
  <2>1. accepting' \in SUBSET Dates
    BY DEF Open
  <2>. QED
    BY <1>2, <2>1 DEF Next, Reschedule
<1>3. CASE DraftClosing(r)
  <2>1. CASE IdsLeft /\ Draft(FreshId, ClosingDate, Closing)
    BY <1>0, <1>1, <1>3, <2>1, FreshIdIsFree, DraftIsAStep DEF DraftClosing
  <2>. QED
    BY <1>2, <1>3, <2>1 DEF DraftClosing
<1>4. CASE CreateReversal(r)
  <2>1. request[r].entry \in Sources \cup {None}
    BY <1>0, <1>4 DEF CreateReversal, At, Carries, Carrying, Reversing
  <2>2. CASE IdsLeft /\ Draft(FreshId, ClosingDate, request[r].entry)
    BY <1>0, <1>1, <1>4, <2>1, <2>2, FreshIdIsFree, DraftIsAStep DEF CreateReversal
  <2>. QED
    BY <1>2, <1>4, <2>2 DEF CreateReversal
<1>5. CASE PostClosing(r)
  <2>1. request[r].entry \in Entries /\ UNCHANGED accepting
    BY <1>0, <1>1, <1>5 DEF PostClosing, At, Carries, tables
  <2>2. ASSUME NEW k \in Keys, Post(request[r].entry, k, RequestHash)
        PROVE  Next
    BY <1>0, <2>1, <2>2, PostIsAStep
  <2>. QED
    BY <1>0, <1>2, <1>5, <2>1, <2>2 DEF PostClosing
<1>6. CASE PostReversal(r)
  <2>. DEFINE o == closes[request[r].close].entry
  <2>1. o \in Entries /\ request[r].entry \in Entries /\ UNCHANGED accepting
    BY <1>0, <1>1, <1>6 DEF PostReversal, At, Carries, tables
  <2>2. CASE Reverse(o, request[r].entry, ReopenKey, RequestHash)
    BY <1>0, <2>1, <2>2, ReverseIsAStep
  <2>. QED
    BY <1>2, <1>6, <2>2 DEF PostReversal, ReversalRefused
<1>7. CASE Execute(r) /\ ~DraftClosing(r) /\ ~PostClosing(r)
  BY <1>2, <1>7 DEF Execute, BeginExecute, ReadActivity, ReadMonths, ReadClosingPeriod,
                    ReadPrior, Unless, CheckBalance, InsertClose, CloseYear, LockPeriods,
                    CompleteSession
<1>8. CASE Reopen(r) /\ ~CreateReversal(r) /\ ~PostReversal(r)
  BY <1>2, <1>8 DEF Reopen, BeginReopen, ReadLater, Unlock, OpenPeriods, OpenYear,
                    ReadOriginal, Unless, FindReversal, MarkReopened, ReopenSession
<1>. QED
  BY <1>3, <1>4, <1>5, <1>6, <1>7, <1>8

LEMMA OrdinaryIsABooksStep ==
    ASSUME YearEndAssumption, DraftOrdinary \/ DraftMirror \/ PostOrdinary, UNCHANGED accepting
    PROVE  Next
<1>1. Entries \subseteq Sources \cap Keys /\ RequestHash \in Hashes
  BY DEF YearEndAssumption, RequestHash
<1>2. CASE DraftOrdinary
  BY <1>2, FreshIdIsFree, DraftIsAStep DEF DraftOrdinary
<1>3. CASE DraftMirror
  BY <1>1, <1>3, FreshIdIsFree, MirrorIsAStep DEF DraftMirror
<1>4. CASE PostOrdinary
  <2>1. PICK e \in Entries :
            \/ Post(e, e, RequestHash)
            \/ \E o \in Entries : Reverse(o, e, e, RequestHash)
    BY <1>4 DEF PostOrdinary
  <2>. QED
    BY <1>1, <2>1, PostIsAStep, ReverseIsAStep
<1>. QED
  BY <1>2, <1>3, <1>4

LEMMA NextIsABooksStep ==
    ASSUME YearEndInv, OtherTypes, YearEndAssumption, [YearEndNext]_vars
    PROVE  [Next]_<<journalVars, accepting>>
<1>1. CASE (CloseMonth \/ ReopenMonth \/ \E r \in Requests : Evict(r)) /\ accepting' = Open'
  <2>1. accepting' \in SUBSET Dates
    BY <1>1 DEF Open
  <2>. QED
    BY <1>1, <2>1 DEF CloseMonth, ReopenMonth, Evict, Next, Reschedule
<1>2. CASE Staff /\ accepting' = Open'
  <2>1. UNCHANGED accepting
    BY <1>2 DEF Staff, calendar, OtherTypes, Open
  <2>. QED
    BY <1>2, <2>1, StaffIsAStep DEF Staff, StaffEdit, StaffCancel
<1>4. ASSUME NEW r \in Requests, Ordinary(r), accepting' = Open'
      PROVE  Next
  <2>1. UNCHANGED accepting
    BY <1>4 DEF Ordinary, calendar, OtherTypes, Open
  <2>. QED
    BY <1>4, <2>1, OrdinaryIsABooksStep DEF Ordinary
<1>3. CASE UNCHANGED vars
  BY <1>3 DEF vars
<1>. QED
  BY <1>1, <1>2, <1>3, <1>4, RequestIsABooksStep DEF YearEndNext

\* The year end implements the journal: what requests, evictions and staff do to
\* entries are steps that Books allows, while months and the year open and close.
THEOREM YearEndImplementsBooks == YearEndSpec => Spec
<1>1. YearEndInit => Init /\ OtherTypes
  BY YearEndAssumption DEF YearEndInit, Init, Open, OtherTypes, PeriodStatus, Idle,
                           YearEndAssumption
<1>2. YearEndInv /\ OtherTypes /\ [YearEndNext]_vars => OtherTypes'
  BY YearEndAssumption, OtherTypesKept
<1>3. YearEndInv /\ OtherTypes /\ [YearEndNext]_vars => [Next]_<<journalVars, accepting>>
  BY YearEndAssumption, NextIsABooksStep
<1>. QED
  BY <1>1, <1>2, <1>3, YearEndInvariant, PTL DEF YearEndSpec, Spec

-----------------------------------------------------------------------------
(* The closes.                                                             *)

HasClose == \E c \in Closes : closes[c].status \in Done

DoneAreClosedOut == \A c \in Closes : closes[c].status \in Done => ClosedOut(closes[c].post)

\* What a request has read of the books is in them, and it closes the year after it has
\* stored a close.
ClosesInv ==
    /\ OneCompletedClose
    /\ DoneAreClosedOut
    /\ \A r \in Requests :
          /\ request[r].pc = "insert" => request[r].seen \subseteq {e \in Entries : Posted(e)}
          /\ request[r].pc = "close_year" => HasClose
    /\ year = "closed" => HasClose

\* A trial balance of booked entries is what it was.
LEMMA ClosedOutStays ==
    ASSUME YearEndInv, OtherTypes, YearEndAssumption, [YearEndNext]_vars,
           NEW S \in SUBSET Entries
    PROVE  /\ S \subseteq {e \in Entries : Posted(e)} => S \subseteq {e \in Entries : Posted(e)'}
           /\ ClosedOut(S) => ClosedOut(S)'
<1>1. JournalInv /\ JournalStep
  BY NextIsABooksStep, BooksKeep DEF YearEndInv, Typed
<1>2. \A e \in Entries : Posted(e) => Posted(e)'
  BY <1>1 DEF JournalStep, Posted
<1>3. \A e \in Entries : Posted(e) => amount'[e] = amount[e]
  BY AmountsStep DEF AmountsGiven, OtherTypes
<1>4. ASSUME S \subseteq {e \in Entries : Posted(e)}
      PROVE  Total(S)' = Total(S)
  <2>1. IsFiniteSet(S) /\ \A e \in S : amount'[e] = amount[e]
    BY <1>3, <1>4, FS_Subset DEF YearEndAssumption
  <2>2. SumOver(amount', S) = SumOver(amount, S)
    BY <2>1, SumOfSame
  <2>. QED
    BY <2>2 DEF Total
<1>. QED
  BY <1>2, <1>4 DEF ClosedOut

\* Where a request is after it has moved.
LEMMA MovedTo ==
    ASSUME YearEndInv, NEW r \in Requests
    PROVE  /\ \A local : Become(r, local) => request'[r] = local
           /\ \A pc : Goto(r, pc) => request'[r].pc = pc /\ request'[r].seen = request[r].seen
           /\ Return(r) => request'[r].pc = "idle"
<1>1. request \in [Requests -> RequestType]
  BY DEF YearEndInv, Typed
<1>. QED
  BY <1>1 DEF Become, Goto, Return, Idle, RequestType

\* A request is at its close when it has read the trial balance, and at the year when it
\* has stored the close.
LEMMA ClosingMoves ==
    ASSUME YearEndInv, OtherTypes, [YearEndNext]_vars, NEW r \in Requests,
           request'[r].pc \in {"insert", "close_year"}
    PROVE  \/ request'[r] = request[r]
           \/ CheckBalance(r) /\ request'[r].pc = "insert" /\ request'[r].seen = InYear
           \/ InsertClose(r) /\ request'[r].pc = "close_year" /\ Passed(r) /\ IndexFree
<1>0. request \in [Requests -> RequestType]
  BY DEF YearEndInv, Typed
<1>1. ASSUME NEW q \in Requests, NEW local, Become(q, local),
             local.pc \notin {"insert", "close_year"}
      PROVE  request'[r] = request[r]
  BY <1>0, <1>1 DEF Become
<1>2. ASSUME NEW q \in Requests, NEW pc \in PC \ {"insert", "close_year"}, Goto(q, pc)
      PROVE  request'[r] = request[r]
  <2>1. [request[q] EXCEPT !.pc = pc].pc = pc
    BY <1>0 DEF RequestType
  <2>. QED
    BY <1>1, <1>2, <2>1 DEF Goto
<1>3. ASSUME NEW q \in Requests, Return(q)
      PROVE  request'[r] = request[r]
  BY <1>1, <1>3 DEF Return, Idle
<1>4. ASSUME NEW q \in Requests, CheckBalance(q)
      PROVE  \/ request'[r] = request[r]
             \/ CheckBalance(r) /\ request'[r].pc = "insert" /\ request'[r].seen = InYear
  <2>1. CASE q = r
    BY <1>0, <1>4, <2>1, MovedTo DEF CheckBalance, RequestType
  <2>2. CASE q # r
    BY <1>0, <1>4, <2>2 DEF CheckBalance, Become
  <2>. QED
    BY <2>1, <2>2
<1>5. ASSUME NEW q \in Requests, InsertClose(q)
      PROVE  \/ request'[r] = request[r]
             \/ InsertClose(r) /\ request'[r].pc = "close_year" /\ Passed(r) /\ IndexFree
  <2>1. CASE Return(q)
    BY <1>3, <2>1
  <2>2. CASE Goto(q, "close_year") /\ Passed(q) /\ IndexFree
    <3>1. CASE q = r
      BY <1>5, <2>2, <3>1, MovedTo
    <3>2. CASE q # r
      BY <1>0, <2>2, <3>2 DEF Goto, Become
    <3>. QED
      BY <3>1, <3>2
  <2>. QED
    BY <1>5, <2>1, <2>2 DEF InsertClose
<1>6. ASSUME NEW q \in Requests, Execute(q), ~CheckBalance(q), ~InsertClose(q)
      PROVE  request'[r] = request[r]
  <2>1. CASE \/ BeginExecute(q) \/ ReadMonths(q) \/ ReadClosingPeriod(q) \/ ReadPrior(q)
             \/ PostClosing(q) \/ CloseYear(q) \/ LockPeriods(q) \/ CompleteSession(q)
    BY <1>2, <1>3, <2>1 DEF BeginExecute, ReadMonths, ReadClosingPeriod, ReadPrior, Unless,
                            PostClosing, CloseYear, LockPeriods, CompleteSession, PC
  <2>2. CASE ReadActivity(q) \/ DraftClosing(q)
    BY <1>0, <1>1, <1>3, <2>2 DEF ReadActivity, DraftClosing, RequestType
  <2>. QED
    BY <1>6, <2>1, <2>2 DEF Execute
<1>7. ASSUME NEW q \in Requests, Reopen(q)
      PROVE  request'[r] = request[r]
  <2>1. CASE \/ ReadLater(q) \/ Unlock(q) \/ OpenPeriods(q) \/ OpenYear(q) \/ PostReversal(q)
             \/ MarkReopened(q) \/ ReopenSession(q)
    BY <1>2, <1>3, <2>1 DEF ReadLater, Unlock, OpenPeriods, OpenYear, AfterOpening,
                            PostReversal, ReversalRefused, MarkReopened, ReopenSession, PC
  <2>2. CASE BeginReopen(q) \/ FindReversal(q) \/ CreateReversal(q)
    BY <1>0, <1>1, <1>2, <1>3, <2>2
    DEF BeginReopen, FindReversal, CreateReversal, RequestType, Idle, PC
  <2>3. CASE \E pc, next \in Reversing : ReadOriginal(q, pc, next)
    BY <1>2, <1>3, <2>3 DEF ReadOriginal, Unless, Reversing, PC
  <2>. QED
    BY <1>7, <2>1, <2>2, <2>3 DEF Reopen, Reversing
<1>8. ASSUME NEW q \in Requests, Ordinary(q) \/ Evict(q)
      PROVE  request'[r] = request[r]
  BY <1>3, <1>8 DEF Ordinary, Evict
<1>9. CASE CloseMonth \/ ReopenMonth \/ Staff \/ UNCHANGED vars
  BY <1>9 DEF CloseMonth, ReopenMonth, Staff, vars
<1>. QED
  BY <1>4, <1>5, <1>6, <1>7, <1>8, <1>9 DEF YearEndNext

\* Two operations write the closes and one closes the year.
LEMMA ClosesWritten ==
    ASSUME [YearEndNext]_vars
    PROVE  /\ UNCHANGED closes \/ \E r \in Requests : InsertClose(r) \/ MarkReopened(r)
           /\ year' \in {year, "open"} \/ \E r \in Requests : CloseYear(r)
<1>1. ASSUME NEW r \in Requests, Execute(r), ~InsertClose(r)
      PROVE  UNCHANGED closes
  BY <1>1 DEF Execute, BeginExecute, ReadActivity, ReadMonths, ReadClosingPeriod, ReadPrior,
              Unless, DraftClosing, PostClosing, CheckBalance, CloseYear, LockPeriods,
              CompleteSession, tables
<1>2. ASSUME NEW r \in Requests, Execute(r), ~CloseYear(r)
      PROVE  UNCHANGED year
  BY <1>2 DEF Execute, BeginExecute, ReadActivity, ReadMonths, ReadClosingPeriod, ReadPrior,
              Unless, DraftClosing, PostClosing, CheckBalance, InsertClose, LockPeriods,
              CompleteSession, tables, calendar
<1>3. ASSUME NEW r \in Requests, Reopen(r)
      PROVE  UNCHANGED closes \/ MarkReopened(r)
  BY <1>3 DEF Reopen, BeginReopen, ReadLater, Unlock, OpenPeriods, OpenYear, ReadOriginal,
              Unless, FindReversal, CreateReversal, PostReversal, ReopenSession, tables
<1>4. ASSUME NEW r \in Requests, Reopen(r)
      PROVE  year' \in {year, "open"}
  BY <1>4 DEF Reopen, BeginReopen, ReadLater, Unlock, OpenPeriods, OpenYear, ReadOriginal,
              Unless, FindReversal, CreateReversal, PostReversal, MarkReopened, ReopenSession,
              tables, calendar
<1>5. ASSUME \/ \E r \in Requests : Ordinary(r) \/ Evict(r)
             \/ CloseMonth \/ ReopenMonth \/ Staff \/ UNCHANGED vars
      PROVE  UNCHANGED <<closes, year>>
  BY <1>5 DEF Ordinary, Evict, CloseMonth, ReopenMonth, Staff, vars, tables, calendar
<1>. QED
  BY <1>1, <1>2, <1>3, <1>4, <1>5 DEF YearEndNext

\* The closes themselves.
LEMMA ClosesKept ==
    ASSUME YearEndInv, OtherTypes, YearEndAssumption, ClosesInv, [YearEndNext]_vars
    PROVE  /\ OneCompletedClose'
           /\ DoneAreClosedOut'
           /\ HasClose => HasClose'
<1>1. closes \in [Closes -> CloseRow]
  BY DEF YearEndInv, Typed
<1>2. ASSUME NEW c \in Closes, closes[c].status \in Done, NEW S, S = closes[c].post
      PROVE  ClosedOut(S)'
  BY <1>1, <1>2, ClosedOutStays DEF ClosesInv, DoneAreClosedOut, CloseRow
<1>3. CASE UNCHANGED closes
  <2>1. DoneAreClosedOut'
    BY <1>2, <1>3 DEF DoneAreClosedOut
  <2>. QED
    BY <1>3, <2>1 DEF ClosesInv, OneCompletedClose, Completed, HasClose
<1>4. ASSUME NEW r \in Requests, MarkReopened(r)
      PROVE  /\ OneCompletedClose'
             /\ DoneAreClosedOut'
             /\ HasClose => HasClose'
  <2>. DEFINE d == request[r].close
  <2>1. d \in Closes /\ closes[d].status \in Done
    BY <1>4 DEF MarkReopened, At, YearEndInv, Carries, Reopening
  <2>2. ASSUME NEW c \in Closes
        PROVE  /\ closes'[c].post = closes[c].post
               /\ closes'[c].status = IF c = d THEN "reopened" ELSE closes[c].status
    BY <1>1, <1>4 DEF MarkReopened, CloseRow
  <2>. HIDE DEF d
  <2>3. \A c \in Closes : closes'[c].status \in Done <=> closes[c].status \in Done
    BY <2>1, <2>2 DEF Done
  <2>4. \A c \in Closes : closes'[c].status = "completed" => closes[c].status = "completed"
    BY <2>2
  <2>5. OneCompletedClose'
    BY <2>4 DEF ClosesInv, OneCompletedClose, Completed
  <2>6. HasClose => HasClose'
    BY <2>3 DEF HasClose
  <2>7. DoneAreClosedOut'
    BY <1>2, <2>2, <2>3 DEF DoneAreClosedOut
  <2>. QED
    BY <2>5, <2>6, <2>7
<1>5. ASSUME NEW r \in Requests, InsertClose(r)
      PROVE  /\ OneCompletedClose'
             /\ DoneAreClosedOut'
             /\ HasClose => HasClose'
  <2>1. PICK d \in Closes :
            /\ closes[d].status = "absent"
            /\ closes' = IF Passed(r) => IndexFree
                         THEN [closes EXCEPT ![d] =
                                  [status |-> IF Passed(r) THEN "completed" ELSE "failed",
                                   entry  |-> request[r].entry,
                                   post   |-> request[r].seen]]
                         ELSE closes
    BY <1>5 DEF InsertClose
  <2>2. CASE ~(Passed(r) => IndexFree)
    BY <1>3, <2>1, <2>2
  <2>3. CASE Passed(r) => IndexFree
    <3>1. /\ closes'[d].status = IF Passed(r) THEN "completed" ELSE "failed"
          /\ closes'[d].post = request[r].seen
          /\ \A c \in Closes : c # d => closes'[c] = closes[c]
      BY <1>1, <2>1, <2>3
    <3>2. request[r].seen \in SUBSET Entries
      BY DEF YearEndInv, Typed, RequestType
    <3>3. Passed(r) => ClosedOut(request[r].seen)
      BY <1>5 DEF InsertClose, At, ClosesInv, ClosedOut, Passed
    <3>4. ASSUME NEW c \in Closes, closes'[c].status \in Done, NEW S, S = closes'[c].post
          PROVE  ClosedOut(S)'
      <4>1. CASE c = d
        <5>1. Passed(r)
          BY <3>1, <3>4, <4>1 DEF Done
        <5>2. S \in SUBSET Entries /\ ClosedOut(S)
          BY <3>1, <3>2, <3>3, <3>4, <4>1, <5>1
        <5>. QED
          BY <5>2, ClosedOutStays
      <4>2. CASE c # d
        BY <1>2, <3>1, <3>4, <4>2
      <4>. QED
        BY <4>1, <4>2
    <3>7. DoneAreClosedOut'
      BY <3>4 DEF DoneAreClosedOut
    <3>5. OneCompletedClose'
      <4>1. CASE Passed(r)
        BY <2>3, <3>1, <4>1 DEF IndexFree, Completed, OneCompletedClose
      <4>2. CASE ~Passed(r)
        BY <3>1, <4>2 DEF ClosesInv, Completed, OneCompletedClose
      <4>. QED
        BY <4>1, <4>2
    <3>6. HasClose => HasClose'
      BY <2>1, <3>1 DEF HasClose, Done
    <3>. QED
      BY <3>5, <3>6, <3>7
  <2>. QED
    BY <2>2, <2>3
<1>. QED
  BY <1>3, <1>4, <1>5, ClosesWritten

LEMMA ClosesInductive ==
    ASSUME YearEndInv, OtherTypes, YearEndAssumption, ClosesInv, [YearEndNext]_vars
    PROVE  ClosesInv'
<1>1. ASSUME NEW r \in Requests, request'[r].pc = "insert"
      PROVE  request'[r].seen \subseteq {e \in Entries : Posted(e)'}
  <2>1. CASE request'[r] = request[r]
    <3>1. /\ request[r].seen \in SUBSET Entries
          /\ request[r].seen \subseteq {e \in Entries : Posted(e)}
      BY <1>1, <2>1 DEF ClosesInv, YearEndInv, Typed, RequestType
    <3>. QED
      BY <2>1, <3>1, ClosedOutStays
  <2>2. CASE CheckBalance(r) /\ request'[r].seen = InYear
    BY <2>2 DEF CheckBalance, journalVars, InYear, Posted
  <2>. QED
    BY <1>1, <2>1, <2>2, ClosingMoves
<1>2. ASSUME NEW r \in Requests, request'[r].pc = "close_year"
      PROVE  HasClose'
  <2>1. CASE request'[r] = request[r]
    BY <1>2, <2>1, ClosesKept DEF ClosesInv
  <2>2. CASE InsertClose(r) /\ Passed(r) /\ IndexFree
    <3>1. PICK d \in Closes :
              closes' = [closes EXCEPT ![d] = [status |-> "completed",
                                               entry  |-> request[r].entry,
                                               post   |-> request[r].seen]]
      BY <2>2 DEF InsertClose
    <3>2. closes'[d].status = "completed"
      BY <3>1 DEF YearEndInv, Typed
    <3>. QED
      BY <3>2 DEF HasClose, Done
  <2>. QED
    BY <1>2, <2>1, <2>2, ClosingMoves
<1>3. ASSUME year' = "closed"
      PROVE  HasClose'
  <2>1. CASE year' \in {year, "open"}
    BY <1>3, <2>1, ClosesKept DEF ClosesInv
  <2>2. ASSUME NEW r \in Requests, CloseYear(r)
        PROVE  HasClose'
    BY <2>2, ClosesKept DEF CloseYear, At, ClosesInv
  <2>. QED
    BY <2>1, <2>2, ClosesWritten
<1>. QED
  BY <1>1, <1>2, <1>3, ClosesKept DEF ClosesInv

LEMMA ClosesInvariant == YearEndSpec => []ClosesInv
<1>1. YearEndInit => OtherTypes
  BY YearEndAssumption DEF YearEndInit, OtherTypes, PeriodStatus, Idle, YearEndAssumption
<1>2. YearEndInv /\ OtherTypes /\ [YearEndNext]_vars => OtherTypes'
  BY YearEndAssumption, OtherTypesKept
<1>3. YearEndInit => ClosesInv
  BY DEF YearEndInit, ClosesInv, DoneAreClosedOut, OneCompletedClose, Completed, NoClose,
         Done, Idle
<1>4. YearEndInv /\ OtherTypes /\ ClosesInv /\ [YearEndNext]_vars => ClosesInv'
  BY YearEndAssumption, ClosesInductive
<1>. QED
  BY <1>1, <1>2, <1>3, <1>4, YearEndInvariant, PTL DEF YearEndSpec

\* Of any number of executions that run at once one completes the close of the year.
THEOREM OneCompletedCloseAlways == YearEndSpec => []OneCompletedClose
<1>1. ClosesInv => OneCompletedClose
  BY DEF ClosesInv
<1>. QED
  BY <1>1, ClosesInvariant, PTL

\* A close is completed only of a year that was found closed out, and a year is closed
\* only by one, whichever requests run at once.
THEOREM ClosedYearWasClosedOutAlways == YearEndSpec => []ClosedYearWasClosedOut
<1>1. ClosesInv => ClosedYearWasClosedOut
  BY DEF ClosesInv, DoneAreClosedOut, HasClose, Done, ClosedYearWasClosedOut
<1>. QED
  BY <1>1, ClosesInvariant, PTL

=============================================================================
