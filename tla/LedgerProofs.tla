---------------------------- MODULE LedgerProofs ----------------------------
(***************************************************************************)
(* What TLAPS proves of the journal, for every set of entries, requests,   *)
(* periods, keys and lines: its types and safety properties, and that it   *)
(* implements Books.                                                       *)
(***************************************************************************)
EXTENDS LedgerRefinement, TLAPS

-----------------------------------------------------------------------------
(* Lemmas about the operators of the model.                                *)

LEMMA IdleType == Idle \in RequestType
BY DEF Idle, RequestType, PC, PostingPC, ReversingPC, EntryOrNone, Lines, AnyVersion

LEMMA AbsentType == AbsentRow \in RowType
BY DEF AbsentRow, RowType, EntryStatus, EntryOrNone, Lines, Totals

\* A draft that may be inserted makes a row of the table.
LEMMA DraftType ==
    ASSUME NEW lines \in LineSets, NEW date \in Periods, NEW source \in EntryOrNone
    PROVE  DraftRow(lines, date, source) \in RowType
BY DEF DraftRow, RowType, EntryStatus, EntryOrNone, Lines, Totals

\* Every sequence of lines that callers submit has its mirror among them.
LEMMA MirrorType == \A lines \in LineSets : Mirror(lines) \in LineSets
BY LineSetsAssumption

-----------------------------------------------------------------------------
(* Type correctness.                                                       *)

LEMMA InitTypeOK == Init => TypeOK
<1> SUFFICES ASSUME Init PROVE TypeOK
    OBVIOUS
<1>1. entries \in [Entries -> RowType]
    BY AbsentType DEF Init
<1>2. req \in [Requests -> RequestType]
    BY IdleType DEF Init
<1>3. \A r \in Requests : req[r].pc = "idle" /\ req[r].op = "none"
    BY DEF Init, Idle
<1>4. \A e \in Entries : ~Exists(e)
    BY DEF Init, Exists, AbsentRow
<1>5. QED
    BY <1>1, <1>2, <1>3, <1>4
    DEF Init, TypeOK, TablesTyped, RowComplete, LocalsComplete, EntryOrNone, PeriodStatus, YearStatus, ProtectiveStatus,
        PostingPC, ReversingPC, CheckedPC


LEMMA BecomeType ==
    ASSUME TablesTyped, NEW r \in Requests, NEW local \in RequestType, Become(r, local)
    PROVE  req' \in [Requests -> RequestType]
BY DEF TablesTyped, Become

LEMMA GotoType ==
    ASSUME TablesTyped, NEW r \in Requests, NEW pc \in PC, Goto(r, pc)
    PROVE  req' \in [Requests -> RequestType]
<1>1. [req[r] EXCEPT !.pc = pc] \in RequestType
    BY DEF TablesTyped, RequestType
<1>2. QED
    BY <1>1, BecomeType DEF Goto

LEMMA ReturnType ==
    ASSUME TablesTyped, NEW r \in Requests, Return(r)
    PROVE  req' \in [Requests -> RequestType]
BY IdleType, BecomeType DEF Return

LEMMA SetRowType ==
    ASSUME TablesTyped, NEW e \in Entries, NEW row \in RowType, SetRow(e, row)
    PROVE  entries' \in [Entries -> RowType]
BY DEF TablesTyped, SetRow

LEMMA NextVersion == \A row \in RowType : row.version + 1 \in Nat
BY DEF RowType

LEMMA VoidedType ==
    ASSUME NEW row \in RowType
    PROVE  [row EXCEPT !.status = "voided", !.version = @ + 1] \in RowType
<1>1. ASSUME NEW version \in Nat
      PROVE  [row EXCEPT !.status = "voided", !.version = version] \in RowType
    BY DEF RowType, EntryStatus
<1>2. QED
    BY <1>1, NextVersion

LEMMA EditedType ==
    ASSUME NEW row \in RowType, NEW lines \in LineSets, NEW date \in Periods
    PROVE  [row EXCEPT !.lines = lines, !.date = date, !.version = @ + 1] \in RowType
<1>1. ASSUME NEW version \in Nat
      PROVE  [row EXCEPT !.lines = lines, !.date = date, !.version = version] \in RowType
    BY DEF RowType, Lines
<1>2. QED
    BY <1>1, NextVersion

LEMMA PostedType ==
    ASSUME NEW row \in RowType, NEW period \in Periods, NEW debits \in Totals, NEW credits \in Totals
    PROVE  [row EXCEPT !.status = "posted", !.version = @ + 1, !.period = period,
                       !.debits = debits, !.credits = credits] \in RowType
<1>1. ASSUME NEW version \in Nat
      PROVE  [row EXCEPT !.status = "posted", !.version = version, !.period = period,
                         !.debits = debits, !.credits = credits] \in RowType
    BY DEF RowType, EntryStatus
<1>2. QED
    BY <1>1, NextVersion

LEMMA TablesStep ==
    ASSUME TypeOK, [Next]_vars
    PROVE  TablesTyped'
<1> USE DEF books, controls
<1>a. TablesTyped /\ (\A e \in Entries : RowComplete(e)) /\ (\A r \in Requests : LocalsComplete(r))
    BY DEF TypeOK
<1>b. \A e \in Entries : entries[e] \in RowType /\ entries[e].version \in Nat
    BY <1>a DEF TablesTyped, RowType
<1>c. \A r \in Requests : req[r] \in RequestType
    BY <1>a DEF TablesTyped
<1>1. CASE UNCHANGED vars
    BY <1>1, <1>a DEF vars, TablesTyped
<1>2. ASSUME NEW r \in Requests, CreateDraft(r) PROVE TablesTyped'
    BY <1>2, <1>a, DraftType, SetRowType DEF CreateDraft, InsertDraft, EntryOrNone, TablesTyped
<1>3. ASSUME NEW r \in Requests, RecordDeposit(r) PROVE TablesTyped'
    <2>1. PICK e \in Entries, date \in Periods, hash \in Hashes, lines \in LineSets :
             /\ InsertDraft(e, lines, date, None)
             /\ Become(r, [Idle EXCEPT !.pc = "prior", !.op = "deposit", !.entry = e,
                                       !.key = e, !.hash = hash, !.expected = 1])
        BY <1>3 DEF RecordDeposit
    <2>2. [Idle EXCEPT !.pc = "prior", !.op = "deposit", !.entry = e,
                       !.key = e, !.hash = hash, !.expected = 1] \in RequestType
        BY IdleType DEF RequestType, PC, PostingPC, IdempotencyKeys, EntryOrNone
    <2>3. entries' \in [Entries -> RowType]
        BY <2>1, <1>a, DraftType, SetRowType DEF InsertDraft, EntryOrNone
    <2>4. QED
        BY <2>1, <2>2, <2>3, <1>3, <1>a, BecomeType DEF RecordDeposit, TablesTyped
<1>4. ASSUME NEW r \in Requests, VoidDraft(r) PROVE TablesTyped'
    <2>1. PICK e \in Entries : SetRow(e, [entries[e] EXCEPT !.status = "voided", !.version = @ + 1])
        BY <1>4 DEF VoidDraft
    <2>2. [entries[e] EXCEPT !.status = "voided", !.version = @ + 1] \in RowType
        BY <1>b, VoidedType
    <2>3. QED
        BY <2>1, <2>2, <1>4, <1>a, SetRowType DEF VoidDraft, TablesTyped
<1>5. ASSUME NEW r \in Requests, NEW op \in {"edit", "delete"}, ReadDraft(r, op) PROVE TablesTyped'
    <2>1. PICK e \in Entries : Become(r, [Idle EXCEPT !.pc = op, !.op = op, !.entry = e,
                                                      !.expected = entries[e].version])
        BY <1>5 DEF ReadDraft
    <2>2. entries[e].version \in Nat
        BY <1>a DEF TablesTyped, RowType
    <2>3. [Idle EXCEPT !.pc = op, !.op = op, !.entry = e, !.expected = entries[e].version] \in RequestType
        BY <2>2, IdleType DEF RequestType, PC, EntryOrNone
    <2>4. QED
        BY <2>1, <2>3, <1>5, <1>a, BecomeType DEF ReadDraft, TablesTyped
<1>6. ASSUME NEW r \in Requests, BatchEdit(r) PROVE TablesTyped'
    <2>1. req[r].entry \in Entries
        BY <1>6, <1>a DEF BatchEdit, At, LocalsComplete
    <2>2. ASSUME NEW lines \in LineSets, NEW date \in Periods
          PROVE  [entries[req[r].entry] EXCEPT !.lines = lines, !.date = date, !.version = @ + 1] \in RowType
        BY <2>1, <1>b, EditedType
    <2>3. entries' \in [Entries -> RowType]
        BY <2>1, <2>2, <1>6, <1>a, SetRowType DEF BatchEdit, TablesTyped
    <2>4. QED
        BY <2>3, <1>6, <1>a, ReturnType DEF BatchEdit, TablesTyped
<1>7. ASSUME NEW r \in Requests, BatchDelete(r) PROVE TablesTyped'
    <2>1. req[r].entry \in Entries
        BY <1>7, <1>a DEF BatchDelete, At, LocalsComplete
    <2>2. [AbsentRow EXCEPT !.status = "deleted"] \in RowType
        BY AbsentType DEF RowType, EntryStatus
    <2>3. entries' \in [Entries -> RowType]
        BY <2>1, <2>2, <1>7, <1>a, SetRowType DEF BatchDelete, TablesTyped
    <2>4. QED
        BY <2>3, <1>7, <1>a, ReturnType DEF BatchDelete, TablesTyped
<1>8. ASSUME NEW r \in Requests, BeginPost(r) PROVE TablesTyped'
    <2>1. PICK e \in Entries, key \in Keys, hash \in Hashes, expected \in 0..MaxVersion :
             Become(r, [Idle EXCEPT !.pc = "prior", !.op = "post", !.entry = e,
                                    !.key = key, !.hash = hash, !.expected = expected])
        BY <1>8 DEF BeginPost
    <2>2. [Idle EXCEPT !.pc = "prior", !.op = "post", !.entry = e,
                       !.key = key, !.hash = hash, !.expected = expected] \in RequestType
        <3>1. expected \in Nat
            BY VersionAssumption
        <3>2. QED
            BY <3>1, IdleType DEF RequestType, PC, PostingPC, IdempotencyKeys, EntryOrNone
    <2>3. QED
        BY <2>1, <2>2, <1>8, <1>a, BecomeType DEF BeginPost, TablesTyped
<1>9. ASSUME NEW r \in Requests, ReadPrior(r) PROVE TablesTyped'
    BY <1>9, <1>a, GotoType, ReturnType DEF ReadPrior, PC, PostingPC, TablesTyped
<1>10. ASSUME NEW r \in Requests, ReadEntry(r) PROVE TablesTyped'
    <2>1. req[r].entry \in Entries
        BY <1>10, <1>a DEF ReadEntry, At, LocalsComplete, PostingPC
    <2>2. [req[r] EXCEPT !.pc = "lines", !.version = entries[req[r].entry].version,
                         !.date = entries[req[r].entry].date] \in RequestType
        <3>1. entries[req[r].entry].version \in Nat /\ entries[req[r].entry].date \in Periods \cup {None}
            BY <2>1, <1>b DEF RowType
        <3>2. QED
            BY <3>1, <1>c DEF RequestType, PC, PostingPC
    <2>3. QED
        BY <2>2, <1>10, <1>a, BecomeType, ReturnType DEF ReadEntry, TablesTyped
<1>11. ASSUME NEW r \in Requests, ReadLines(r) PROVE TablesTyped'
    <2>1. req[r].entry \in Entries
        BY <1>11, <1>a DEF ReadLines, At, LocalsComplete, PostingPC
    <2>2. [req[r] EXCEPT !.pc = "period", !.lines = entries[req[r].entry].lines] \in RequestType
        <3>1. entries[req[r].entry].lines \in Lines
            BY <2>1, <1>b DEF RowType
        <3>2. QED
            BY <3>1, <1>c DEF RequestType, PC, PostingPC
    <2>3. QED
        BY <2>2, <1>11, <1>a, BecomeType, ReturnType DEF ReadLines, TablesTyped
<1>12. ASSUME NEW r \in Requests, NEW pc \in PC, NEW next \in PC, NEW ok \in BOOLEAN,
              Check(r, pc, ok, next)
       PROVE  TablesTyped'
    BY <1>12, <1>a, GotoType, ReturnType DEF Check, TablesTyped
<1>13. ASSUME NEW r \in Requests,
              ReadPeriod(r) \/ ReadLock(r) \/ ReadProtective(r) \/ ReadLink(r) \/ ReadActivity(r)
       PROVE  TablesTyped'
    BY <1>13, <1>12 DEF ReadPeriod, ReadLock, ReadProtective, ReadLink, ReadActivity, PC, PostingPC, ReversingPC
<1>14. ASSUME NEW r \in Requests, BatchPost(r) PROVE TablesTyped'
    <2>1. /\ req[r].entry \in Entries /\ req[r].key \in IdempotencyKeys /\ req[r].hash \in Hashes
          /\ req[r].date \in Periods /\ req[r].lines \in Lines
          /\ req[r].op = "reverse" => req[r].original \in Entries
        BY <1>14, <1>a DEF BatchPost, At, LocalsComplete, PostingPC, CheckedPC, TablesTyped, RequestType
    <2>2. PostedRow(r) \in RowType
        <3>1. Debits(req[r].lines) \in Totals /\ Credits(req[r].lines) \in Totals
            BY <2>1 DEF Totals
        <3>2. QED
            BY <3>1, <2>1, <1>b, PostedType DEF PostedRow
    <2>3. req[r].op = "reverse" => ReversedRow(req[r].original) \in RowType
        BY <2>1, <1>b DEF ReversedRow, RowType, EntryStatus
    <2>4. CASE ~PostGuard(r)
        BY <2>4, <1>14, <1>a, ReturnType DEF BatchPost, TablesTyped
    <2>5. CASE PostGuard(r)
        <3>1. entries' \in [Entries -> RowType] /\ reversals' \in [Entries -> EntryOrNone]
            BY <2>1, <2>2, <2>3, <2>5, <1>14, <1>a DEF BatchPost, TablesTyped, SetRow, EntryOrNone
        <3>2. idempotency' \in [IdempotencyKeys -> IdempotencyRow \cup {None}]
            BY <2>1, <2>5, <1>14, <1>a DEF BatchPost, TablesTyped, IdempotencyRow
        <3>3. QED
            BY <3>1, <3>2, <2>5, <1>14, <1>a, GotoType DEF BatchPost, TablesTyped, PC, PostingPC
    <2>6. QED
        BY <2>4, <2>5
<1>15. ASSUME NEW r \in Requests, Answer(r) PROVE TablesTyped'
    BY <1>15, <1>a, ReturnType DEF Answer, TablesTyped
<1>16. ASSUME NEW r \in Requests, BeginReverse(r) PROVE TablesTyped'
    <2>1. PICK o \in Entries, date \in Periods, key \in Keys, hash \in Hashes :
             Become(r, [Idle EXCEPT !.pc = "link", !.op = "reverse", !.original = o,
                                    !.date = date, !.key = key, !.hash = hash, !.expected = 1])
        BY <1>16 DEF BeginReverse
    <2>2. [Idle EXCEPT !.pc = "link", !.op = "reverse", !.original = o,
                       !.date = date, !.key = key, !.hash = hash, !.expected = 1] \in RequestType
        BY IdleType DEF RequestType, PC, ReversingPC, IdempotencyKeys, EntryOrNone
    <2>3. QED
        BY <2>1, <2>2, <1>16, <1>a, BecomeType DEF BeginReverse, TablesTyped
<1>17. ASSUME NEW r \in Requests, ReadOriginalLines(r) PROVE TablesTyped'
    <2>1. entries[req[r].original].lines \in Lines
        BY <1>17, <1>a DEF ReadOriginalLines, At, LocalsComplete, RowComplete, InBooks, Exists,
                           ReversingPC, Lines
    <2>2. [req[r] EXCEPT !.pc = "unfinished", !.lines = entries[req[r].original].lines] \in RequestType
        BY <2>1, <1>a DEF TablesTyped, RequestType, PC, ReversingPC
    <2>3. QED
        BY <2>2, <1>17, <1>a, BecomeType DEF ReadOriginalLines, TablesTyped
<1>18. ASSUME NEW r \in Requests, NEW e \in Entries
       PROVE  [req[r] EXCEPT !.pc = "prior", !.entry = e] \in RequestType
    BY <1>c DEF RequestType, PC, PostingPC, EntryOrNone
<1>19. ASSUME NEW r \in Requests, ReadUnfinished(r) PROVE TablesTyped'
    <2>1. CASE Goto(r, "insert_reversal")
        BY <2>1, <1>19, <1>a, GotoType DEF ReadUnfinished, TablesTyped, PC, ReversingPC
    <2>2. CASE \E e \in Entries : Become(r, [req[r] EXCEPT !.pc = "prior", !.entry = e])
        BY <2>2, <1>18, <1>19, <1>a, BecomeType DEF ReadUnfinished, TablesTyped
    <2>3. CASE Return(r)
        BY <2>3, <1>19, <1>a, ReturnType DEF ReadUnfinished, TablesTyped
    <2>4. QED
        BY <2>1, <2>2, <2>3, <1>19 DEF ReadUnfinished, Unfinished
<1>20. ASSUME NEW r \in Requests, InsertReversal(r) PROVE TablesTyped'
    <2>1. /\ req[r].original \in Entries /\ req[r].date \in Periods /\ Mirror(req[r].lines) \in LineSets
        BY <1>20, <1>a, MirrorType DEF InsertReversal, At, LocalsComplete, ReversingPC
    <2>2. DraftRow(Mirror(req[r].lines), req[r].date, req[r].original) \in RowType
        BY <2>1, DraftType DEF EntryOrNone
    <2>3. CASE Return(r) /\ UNCHANGED entries
        BY <2>3, <1>20, <1>a, ReturnType DEF InsertReversal, TablesTyped
    <2>4. CASE \E e \in Entries :
                  /\ InsertDraft(e, Mirror(req[r].lines), req[r].date, req[r].original)
                  /\ Become(r, [req[r] EXCEPT !.pc = "prior", !.entry = e])
        BY <2>2, <2>4, <1>18, <1>20, <1>a, BecomeType, SetRowType DEF InsertReversal, InsertDraft, TablesTyped
    <2>5. QED
        BY <2>3, <2>4, <1>20 DEF InsertReversal
<1>21. ASSUME NEW r \in Requests, ReadAccount(r) PROVE TablesTyped'
    <2>1. PICK a \in Accounts : Become(r, [Idle EXCEPT !.pc = "activity", !.op = "archive", !.account = a,
                                                       !.version = accounts[a].version])
        BY <1>21 DEF ReadAccount
    <2>2. [Idle EXCEPT !.pc = "activity", !.op = "archive", !.account = a,
                       !.version = accounts[a].version] \in RequestType
        BY <1>a, IdleType DEF TablesTyped, RequestType, PC
    <2>3. QED
        BY <2>1, <2>2, <1>21, <1>a, BecomeType DEF ReadAccount, TablesTyped
<1>22. ASSUME NEW r \in Requests, WriteArchive(r) PROVE TablesTyped'
    <2>1. req[r].account \in Accounts
        BY <1>22, <1>a DEF WriteArchive, At, LocalsComplete
    <2>2. accounts' \in [Accounts -> [active : BOOLEAN, version : Nat]]
        <3>1. accounts[req[r].account] \in [active : BOOLEAN, version : Nat]
            BY <2>1, <1>a DEF TablesTyped
        <3>2. [active |-> FALSE, version |-> accounts[req[r].account].version + 1]
                 \in [active : BOOLEAN, version : Nat]
            BY <3>1
        <3>3. QED
            BY <2>1, <3>2, <1>22, <1>a DEF WriteArchive, TablesTyped
    <2>3. QED
        BY <2>2, <1>22, <1>a, ReturnType DEF WriteArchive, TablesTyped
<1>23. ASSUME NEW a \in Accounts, Unarchive(a) PROVE TablesTyped'
    BY <1>23, <1>a DEF Unarchive, TablesTyped
<1>24. ASSUME NEW p \in Periods, SetPeriod(p) \/ SetLock(p) PROVE TablesTyped'
    BY <1>24, <1>a DEF SetPeriod, SetLock, TablesTyped
<1>25. CASE SetFiscalYear \/ SetProtective
    BY <1>25, <1>a DEF SetFiscalYear, SetProtective, TablesTyped
<1>26. ASSUME NEW r \in Requests, Crash(r) PROVE TablesTyped'
    BY <1>26, <1>a, ReturnType DEF Crash, TablesTyped
<1>27. QED
    BY <1>1, <1>2, <1>3, <1>4, <1>5, <1>6, <1>7, <1>8, <1>9, <1>10, <1>11, <1>13, <1>14, <1>15,
       <1>16, <1>17, <1>19, <1>20, <1>21, <1>22, <1>23, <1>24, <1>25, <1>26
    DEF Next, Drafting, Posting, Reversing, Archiving, Environment

-----------------------------------------------------------------------------
(* What one step does to a row.                                            *)

Inserted(old, new) ==
    /\ old.status = "absent"
    /\ new.status = "draft" /\ new.version = 1
    /\ new.lines \in LineSets /\ new.date \in Periods
    /\ new.source # None =>
          /\ new.source \in Entries /\ InBooks(new.source)
          /\ new.lines = Mirror(entries[new.source].lines)

Edited(old, new) ==
    /\ old.status = "draft"
    /\ new.status \in {"draft", "voided"}
    /\ new.version = old.version + 1
    /\ new.source = old.source
    /\ new.lines \in LineSets /\ new.date \in Periods

Deleted(old, new) == old.status = "draft" /\ new.status = "deleted"

Posted(old, new) ==
    /\ old.status = "draft"
    /\ new.status = "posted"
    /\ new.version = old.version + 1
    /\ new.lines = old.lines /\ new.date = old.date /\ new.source = old.source
    /\ Balanced(new.lines)
    /\ new.debits = Debits(new.lines) /\ new.credits = Credits(new.lines)
    /\ new.period = new.date /\ Accepting(new.period)

Reversed(old, new) ==
    /\ old.status = "posted"
    /\ new = [old EXCEPT !.status = "reversed"]

Drafted(e) ==
    \/ entries'[e] = entries[e]
    \/ Inserted(entries[e], entries'[e])
    \/ Edited(entries[e], entries'[e])
    \/ Deleted(entries[e], entries'[e])

Moved(e) ==
    \/ Drafted(e)
    \/ Posted(entries[e], entries'[e])
    \/ Reversed(entries[e], entries'[e])

LocalsGood(r) == LocalsComplete(r) /\ LocalsSound(r)

\* The parts of the invariant, for one row and one request.
LEMMA Parts ==
    ASSUME IInv
    PROVE  /\ TypeOK /\ TablesTyped /\ BooksBalance /\ ReversalsMirror /\ PostedUnderOneKey
           /\ \A e \in Entries : RowComplete(e) /\ RowSound(e) /\ entries[e] \in RowType
           /\ \A r \in Requests : LocalsGood(r) /\ req[r] \in RequestType
BY DEF IInv, TypeOK, TablesTyped, LocalsGood

\* A row in the books keeps its lines, and stays there.
LEMMA MovedKeepsBooks ==
    ASSUME IInv, NEW e \in Entries, Moved(e), InBooks(e)
    PROVE  InBooks(e)' /\ entries'[e].lines = entries[e].lines
<1>1. entries[e] \in RowType
    BY Parts
<1>2. QED
    BY <1>1 DEF Moved, Drafted, Inserted, Edited, Deleted, Posted, Reversed, InBooks, RowType

LEMMA RowsStep ==
    ASSUME IInv, TablesTyped', \A e \in Entries : Moved(e), NEW e \in Entries
    PROVE  RowComplete(e)' /\ RowSound(e)'
<1>1. /\ entries[e] \in RowType /\ entries'[e] \in RowType /\ RowComplete(e) /\ RowSound(e)
      /\ Moved(e)
    BY Parts DEF TablesTyped
<1>2. \A o \in Entries : InBooks(o) => InBooks(o)' /\ entries'[o].lines = entries[o].lines
    BY MovedKeepsBooks
<1>3. CASE entries'[e] = entries[e]
    BY <1>1, <1>2, <1>3 DEF RowComplete, RowSound, Exists, RowType, EntryOrNone
<1>4. CASE Inserted(entries[e], entries'[e])
    BY <1>1, <1>2, <1>4 DEF Inserted, RowComplete, RowSound, Exists
<1>5. CASE Edited(entries[e], entries'[e])
    <2>1. entries[e].version \in Nat /\ entries[e].version >= 1 /\ entries[e].source \in EntryOrNone
        BY <1>1, <1>5 DEF Edited, RowSound, Exists, RowType
    <2>2. QED
        BY <2>1, <1>1, <1>2, <1>5 DEF Edited, RowComplete, RowSound, Exists, EntryOrNone
<1>6. CASE Deleted(entries[e], entries'[e])
    BY <1>6 DEF Deleted, RowComplete, RowSound, Exists
<1>7. CASE Posted(entries[e], entries'[e])
    <2>1. entries[e].version \in Nat /\ entries[e].version >= 1 /\ entries[e].source \in EntryOrNone
        BY <1>1, <1>7 DEF Posted, RowSound, Exists, RowType
    <2>2. QED
        BY <2>1, <1>1, <1>2, <1>7 DEF Posted, RowComplete, RowSound, Exists, EntryOrNone
<1>8. CASE Reversed(entries[e], entries'[e])
    <2>1. /\ entries'[e].status = "reversed" /\ entries[e].status = "posted"
          /\ entries'[e].version = entries[e].version /\ entries'[e].source = entries[e].source
          /\ entries'[e].lines = entries[e].lines /\ entries'[e].date = entries[e].date
        BY <1>1, <1>8 DEF Reversed, RowType
    <2>2. QED
        BY <2>1, <1>1, <1>2 DEF RowComplete, RowSound, Exists, RowType, EntryOrNone
<1>9. QED
    BY <1>1, <1>3, <1>4, <1>5, <1>6, <1>7, <1>8 DEF Moved, Drafted

LEMMA BalanceStep ==
    ASSUME IInv, TablesTyped', \A e \in Entries : Moved(e)
    PROVE  BooksBalance'
<1> SUFFICES ASSUME NEW e \in Entries, InBooks(e)'
             PROVE  /\ Balanced(entries'[e].lines)
                    /\ entries'[e].debits = Debits(entries'[e].lines)
                    /\ entries'[e].credits = Credits(entries'[e].lines)
                    /\ entries'[e].period = entries'[e].date
    BY DEF BooksBalance
<1>1. entries[e] \in RowType /\ Moved(e) /\ BooksBalance
    BY Parts
<1>2. CASE entries'[e] = entries[e]
    BY <1>1, <1>2 DEF BooksBalance, InBooks
<1>3. CASE Posted(entries[e], entries'[e])
    BY <1>3 DEF Posted
<1>4. CASE Reversed(entries[e], entries'[e])
    BY <1>1, <1>4 DEF Reversed, BooksBalance, InBooks, RowType
<1>5. QED
    BY <1>1, <1>2, <1>3, <1>4 DEF Moved, Drafted, Inserted, Edited, Deleted, InBooks

\* Nobody enters the books or is reversed by a step that only drafts.
LEMMA DraftedStep ==
    ASSUME IInv, \A e \in Entries : Drafted(e), UNCHANGED <<idempotency, reversals>>
    PROVE  ReversalsMirror' /\ PostedUnderOneKey'
<1>1. \A e \in Entries : /\ InBooks(e) => entries'[e] = entries[e]
                         /\ InBooks(e)' <=> InBooks(e)
                         /\ entries'[e].status = "reversed" <=> entries[e].status = "reversed"
    BY DEF Drafted, Inserted, Edited, Deleted, InBooks
<1>2. TablesTyped /\ ReversalsMirror /\ PostedUnderOneKey
    BY Parts
<1>3. \A k \in IdempotencyKeys : idempotency[k] # None => idempotency[k].entry \in Entries
    BY <1>2 DEF TablesTyped, IdempotencyRow
<1>4. PostedUnderOneKey'
    BY <1>1, <1>2, <1>3 DEF PostedUnderOneKey
<1>5. ReversalsMirror'
    <2> SUFFICES ASSUME NEW o \in Entries
                 PROVE  /\ entries'[o].status = "reversed" <=> reversals[o] # None
                        /\ reversals[o] # None =>
                              /\ InBooks(reversals[o])'
                              /\ entries'[reversals[o]].source = o
                              /\ entries'[reversals[o]].lines = Mirror(entries'[o].lines)
        BY DEF ReversalsMirror, InBooks
    <2>1. reversals[o] \in EntryOrNone
        BY <1>2 DEF TablesTyped
    <2>2. CASE reversals[o] = None
        BY <2>2, <1>1, <1>2 DEF ReversalsMirror
    <2>3. CASE reversals[o] # None
        BY <2>1, <2>3, <1>1, <1>2 DEF ReversalsMirror, EntryOrNone, InBooks
    <2>4. QED
        BY <2>2, <2>3
<1>6. QED
    BY <1>4, <1>5

-----------------------------------------------------------------------------
(* What one step does to the local variables of a request.                 *)

\* What a request has read survives whatever the others do to the rows.
LEMMA OthersStep ==
    ASSUME IInv, TablesTyped', \A e \in Entries : Moved(e), NEW q \in Requests, req'[q] = req[q]
    PROVE  LocalsGood(q)'
<1> DEFINE e == req[q].entry
<1> DEFINE o == req[q].original
<1>1. LocalsComplete(q) /\ LocalsSound(q) /\ req[q] \in RequestType
    BY Parts DEF LocalsGood
<1>2. \A x \in Entries : InBooks(x) => InBooks(x)' /\ entries'[x].lines = entries[x].lines
    BY MovedKeepsBooks
<1>3. LocalsComplete(q)'
    BY <1>1, <1>2 DEF LocalsComplete
<1>4. req[q].pc \in PostingPC => entries'[e].status # "absent"
    <2>1. req[q].pc \in PostingPC =>
              Moved(e) /\ entries[e].status # "absent" /\ entries[e] \in RowType
        BY <1>1, Parts DEF LocalsComplete, LocalsSound
    <2>2. QED
        BY <2>1 DEF Moved, Drafted, Inserted, Edited, Deleted, Posted, Reversed, RowType
<1>5. req[q].pc \in CheckedPC =>
          /\ entries'[e].status = "draft" => req[q].version <= entries'[e].version
          /\ SameVersion(q)' => entries'[e] = entries[e]
    <2> SUFFICES ASSUME req[q].pc \in CheckedPC, entries'[e].status = "draft"
                 PROVE  /\ req[q].version <= entries'[e].version
                        /\ SameVersion(q)' => entries'[e] = entries[e]
        BY DEF SameVersion
    <2>1. /\ e \in Entries /\ Moved(e) /\ entries[e].status # "absent"
          /\ entries[e].status = "draft" => req[q].version <= entries[e].version
        BY <1>1 DEF LocalsComplete, LocalsSound, CheckedPC, PostingPC
    <2>2. entries[e].version \in Nat /\ req[q].version \in Nat
        BY <2>1, <1>1, Parts DEF RowType, RequestType
    <2>3. CASE entries'[e] = entries[e]
        BY <2>1, <2>3
    <2>4. CASE Edited(entries[e], entries'[e])
        BY <2>1, <2>2, <2>4 DEF Edited, SameVersion
    <2>5. CASE Reversed(entries[e], entries'[e])
        BY <2>1, <2>5, Parts DEF Reversed, RowType
    <2>6. QED
        BY <2>1, <2>3, <2>4, <2>5 DEF Moved, Drafted, Inserted, Deleted, Posted
<1>6. req[q].op = "reverse" /\ req[q].pc \in PostingPC /\ Exists(e)' =>
          entries'[e].source = o
    <2> SUFFICES ASSUME req[q].op = "reverse", req[q].pc \in PostingPC, Exists(e)'
                 PROVE  entries'[e].source = o
        OBVIOUS
    <2>1. /\ e \in Entries /\ Moved(e) /\ entries[e].status # "absent"
          /\ Exists(e) => entries[e].source = o
        BY <1>1 DEF LocalsComplete, LocalsSound
    <2>2. entries[e] \in RowType
        BY <2>1, Parts
    <2>3. QED
        BY <2>1, <2>2 DEF Moved, Drafted, Inserted, Edited, Deleted, Posted, Reversed, Exists, RowType
<1>7. req[q].pc \in {"unfinished", "insert_reversal"} =>
          req[q].lines = entries'[o].lines
    BY <1>1, <1>2 DEF LocalsComplete, LocalsSound, ReversingPC
<1>8. req[q].pc = "answer" => InBooks(e)'
    BY <1>1, <1>2 DEF LocalsComplete, LocalsSound, PostingPC
<1>9. LocalsSound(q)'
    BY <1>1, <1>4, <1>5, <1>6, <1>7, <1>8 DEF LocalsSound, SameVersion
<1>10. QED
    BY <1>3, <1>9 DEF LocalsGood

LEMMA BecomeLocal ==
    ASSUME IInv, NEW r \in Requests, NEW local, Become(r, local)
    PROVE  req'[r] = local /\ \A q \in Requests \ {r} : req'[q] = req[q]
BY Parts DEF TablesTyped, Become

\* A request that has returned holds nothing.
LEMMA ReturnGood ==
    ASSUME IInv, NEW r \in Requests, Return(r)
    PROVE  LocalsGood(r)'
<1>1. req'[r] = Idle
    BY BecomeLocal DEF Return
<1>2. QED
    BY <1>1 DEF LocalsGood, LocalsComplete, LocalsSound, Idle, PostingPC, ReversingPC, CheckedPC

\* A request that only passes a check holds what it held.
LEMMA GotoGood ==
    ASSUME IInv, NEW r \in Requests, NEW pc \in PC, Goto(r, pc), UNCHANGED entries,
           \/ req[r].pc \in CheckedPC \ {"lines"} /\ pc \in CheckedPC \ {"lines"}
           \/ req[r].pc = "prior" /\ pc = "entry"
           \/ req[r].pc = "link" /\ pc = "original_lines"
           \/ req[r].pc = "unfinished" /\ pc = "insert_reversal"
           \/ req[r].pc = "activity" /\ pc = "archive"
    PROVE  LocalsGood(r)'
<1>1. LocalsComplete(r) /\ LocalsSound(r) /\ req[r] \in RequestType
    BY Parts DEF LocalsGood
<1>2. req'[r] = [req[r] EXCEPT !.pc = pc]
    BY BecomeLocal DEF Goto
<1>3. /\ req'[r].pc = pc /\ req'[r].op = req[r].op /\ req'[r].entry = req[r].entry
      /\ req'[r].original = req[r].original /\ req'[r].key = req[r].key /\ req'[r].hash = req[r].hash
      /\ req'[r].expected = req[r].expected /\ req'[r].version = req[r].version
      /\ req'[r].date = req[r].date /\ req'[r].lines = req[r].lines /\ req'[r].account = req[r].account
    BY <1>1, <1>2 DEF RequestType
<1>4. LocalsComplete(r)'
    BY <1>1, <1>3 DEF LocalsComplete, InBooks, PostingPC, ReversingPC, CheckedPC
<1>5. LocalsSound(r)'
    BY <1>1, <1>3 DEF LocalsSound, SameVersion, InBooks, Exists, PostingPC, ReversingPC, CheckedPC
<1>6. QED
    BY <1>4, <1>5 DEF LocalsGood

-----------------------------------------------------------------------------
(* Every action is a step that keeps the invariant.                        *)

StepGood ==
    /\ \A e \in Entries : Moved(e)
    /\ \A q \in Requests : req'[q] = req[q] \/ LocalsGood(q)'
    /\ ReversalsMirror' /\ PostedUnderOneKey'

\* A step that at most drafts, and leaves only request r, if any, in doubt.
LEMMA DraftingIsGood ==
    ASSUME IInv, NEW r \in Requests, \A e \in Entries : Drafted(e),
           UNCHANGED <<idempotency, reversals>>,
           UNCHANGED req \/ (LocalsGood(r)' /\ \E local : Become(r, local))
    PROVE  StepGood
<1>1. \A q \in Requests \ {r} : req'[q] = req[q]
    BY BecomeLocal
<1>2. ReversalsMirror' /\ PostedUnderOneKey'
    BY DraftedStep
<1>3. QED
    BY <1>1, <1>2 DEF StepGood, Moved

\* A step that only a request's local variables feel.
LEMMA QuietIsGood ==
    ASSUME IInv, NEW r \in Requests, UNCHANGED books, LocalsGood(r)', \E local : Become(r, local)
    PROVE  StepGood
BY DraftingIsGood DEF Drafted, books

LEMMA ReturnIsGood ==
    ASSUME IInv, NEW r \in Requests, UNCHANGED books, Return(r)
    PROVE  StepGood
BY ReturnGood, QuietIsGood DEF Return

LEMMA GotoIsGood ==
    ASSUME IInv, NEW r \in Requests, NEW pc \in PC, Goto(r, pc), UNCHANGED books,
           \/ req[r].pc \in CheckedPC \ {"lines"} /\ pc \in CheckedPC \ {"lines"}
           \/ req[r].pc = "prior" /\ pc = "entry"
           \/ req[r].pc = "link" /\ pc = "original_lines"
           \/ req[r].pc = "unfinished" /\ pc = "insert_reversal"
           \/ req[r].pc = "activity" /\ pc = "archive"
    PROVE  StepGood
BY GotoGood, QuietIsGood DEF Goto, books

\* The checks of a posting, a reversal and an archival.
LEMMA ChecksAreGood ==
    ASSUME IInv, NEW r \in Requests,
           ReadPeriod(r) \/ ReadLock(r) \/ ReadProtective(r) \/ ReadLink(r) \/ ReadActivity(r)
    PROVE  StepGood
BY GotoIsGood, ReturnIsGood
   DEF ReadPeriod, ReadLock, ReadProtective, ReadLink, ReadActivity, Check, At,
       CheckedPC, PC, PostingPC, ReversingPC

LEMMA InsertIsDrafted ==
    ASSUME IInv, NEW e \in Entries, NEW lines \in LineSets, NEW date \in Periods,
           NEW source \in EntryOrNone, InsertDraft(e, lines, date, source),
           source # None => InBooks(source) /\ lines = Mirror(entries[source].lines)
    PROVE  /\ \A x \in Entries : Drafted(x)
           /\ entries'[e] = DraftRow(lines, date, source)
<1>1. entries'[e] = DraftRow(lines, date, source) /\ \A x \in Entries \ {e} : entries'[x] = entries[x]
    BY Parts DEF TablesTyped, InsertDraft, SetRow
<1>2. Inserted(entries[e], entries'[e])
    BY <1>1 DEF InsertDraft, Inserted, DraftRow, EntryOrNone
<1>3. QED
    BY <1>1, <1>2 DEF Drafted

\* A row that an edit, a voiding or a deletion gives another value.
LEMMA SetRowIsDrafted ==
    ASSUME IInv, NEW e \in Entries, NEW row, SetRow(e, row),
           Edited(entries[e], row) \/ Deleted(entries[e], row)
    PROVE  \A x \in Entries : Drafted(x)
BY Parts DEF TablesTyped, SetRow, Drafted

LEMMA CreateDraftIsGood ==
    ASSUME IInv, NEW r \in Requests, CreateDraft(r)
    PROVE  StepGood
<1>1. PICK e \in Entries, lines \in LineSets, date \in Periods : InsertDraft(e, lines, date, None)
    BY DEF CreateDraft
<1>2. \A x \in Entries : Drafted(x)
    BY <1>1, InsertIsDrafted DEF EntryOrNone
<1>3. QED
    BY <1>2, DraftingIsGood DEF CreateDraft

LEMMA RecordDepositIsGood ==
    ASSUME IInv, NEW r \in Requests, RecordDeposit(r)
    PROVE  StepGood
<1>1. PICK e \in Entries, date \in Periods, hash \in Hashes, lines \in LineSets :
         /\ InsertDraft(e, lines, date, None)
         /\ Become(r, [Idle EXCEPT !.pc = "prior", !.op = "deposit", !.entry = e,
                                   !.key = e, !.hash = hash, !.expected = 1])
    BY DEF RecordDeposit
<1>2. (\A x \in Entries : Drafted(x)) /\ entries'[e] = DraftRow(lines, date, None)
    BY <1>1, InsertIsDrafted DEF EntryOrNone
<1>3. req'[r] = [Idle EXCEPT !.pc = "prior", !.op = "deposit", !.entry = e,
                             !.key = e, !.hash = hash, !.expected = 1]
    BY <1>1, BecomeLocal
<1>4. /\ req'[r].pc = "prior" /\ req'[r].op = "deposit" /\ req'[r].entry = e
      /\ req'[r].key = e /\ req'[r].hash = hash
    BY <1>3 DEF Idle
<1>5. LocalsGood(r)'
    BY <1>2, <1>4 DEF LocalsGood, LocalsComplete, LocalsSound, DraftRow, IdempotencyKeys,
                      PostingPC, ReversingPC, CheckedPC
<1>6. QED
    BY <1>1, <1>2, <1>5, DraftingIsGood DEF RecordDeposit

LEMMA VoidDraftIsGood ==
    ASSUME IInv, NEW r \in Requests, VoidDraft(r)
    PROVE  StepGood
<1>1. PICK e \in Entries :
         /\ entries[e].status = "draft"
         /\ SetRow(e, [entries[e] EXCEPT !.status = "voided", !.version = @ + 1])
    BY DEF VoidDraft
<1>2. Edited(entries[e], [entries[e] EXCEPT !.status = "voided", !.version = @ + 1])
    BY <1>1, Parts DEF Edited, RowType, RowComplete, Exists
<1>3. \A x \in Entries : Drafted(x)
    BY <1>1, <1>2, SetRowIsDrafted
<1>4. QED
    BY <1>3, DraftingIsGood DEF VoidDraft

LEMMA ReadDraftIsGood ==
    ASSUME IInv, NEW r \in Requests, NEW op \in {"edit", "delete"}, ReadDraft(r, op)
    PROVE  StepGood
<1>1. PICK e \in Entries : Become(r, [Idle EXCEPT !.pc = op, !.op = op, !.entry = e,
                                                  !.expected = entries[e].version])
    BY DEF ReadDraft
<1>2. req'[r].pc = op /\ req'[r].op = op /\ req'[r].entry = e
    <2>1. req'[r] = [Idle EXCEPT !.pc = op, !.op = op, !.entry = e,
                                 !.expected = entries[e].version]
        BY <1>1, BecomeLocal
    <2>2. QED
        BY <2>1 DEF Idle
<1>3. LocalsGood(r)'
    BY <1>2 DEF LocalsGood, LocalsComplete, LocalsSound, PostingPC, ReversingPC, CheckedPC
<1>4. QED
    BY <1>1, <1>3, QuietIsGood DEF ReadDraft

LEMMA BatchEditIsGood ==
    ASSUME IInv, NEW r \in Requests, BatchEdit(r) \/ BatchDelete(r)
    PROVE  StepGood
<1> DEFINE e == req[r].entry
<1>1. e \in Entries /\ entries[e] \in RowType
    BY Parts DEF BatchEdit, BatchDelete, At, LocalsGood, LocalsComplete
<1>2. LocalsGood(r)' /\ \E local : Become(r, local)
    BY ReturnGood DEF BatchEdit, BatchDelete, Return
<1>3. CASE UNCHANGED entries
    BY <1>2, <1>3, DraftingIsGood DEF BatchEdit, BatchDelete, Drafted
<1>4. ASSUME NEW lines \in LineSets, NEW date \in Periods, DraftGuard(e, req[r].expected),
             SetRow(e, [entries[e] EXCEPT !.lines = lines, !.date = date, !.version = @ + 1])
      PROVE  \A x \in Entries : Drafted(x)
    <2>1. Edited(entries[e], [entries[e] EXCEPT !.lines = lines, !.date = date, !.version = @ + 1])
        BY <1>1, <1>4 DEF Edited, RowType, DraftGuard
    <2>2. QED
        BY <1>1, <1>4, <2>1, SetRowIsDrafted
<1>5. ASSUME DraftGuard(e, req[r].expected), SetRow(e, [AbsentRow EXCEPT !.status = "deleted"])
      PROVE  \A x \in Entries : Drafted(x)
    <2>1. Deleted(entries[e], [AbsentRow EXCEPT !.status = "deleted"])
        BY <1>5 DEF Deleted, DraftGuard, AbsentRow
    <2>2. QED
        BY <1>1, <1>5, <2>1, SetRowIsDrafted
<1>6. QED
    BY <1>2, <1>3, <1>4, <1>5, DraftingIsGood DEF BatchEdit, BatchDelete

LEMMA BeginPostIsGood ==
    ASSUME IInv, NEW r \in Requests, BeginPost(r)
    PROVE  StepGood
<1>1. PICK e \in Entries, key \in Keys, hash \in Hashes, expected \in 0..MaxVersion :
         /\ entries[e].status # "absent"
         /\ Become(r, [Idle EXCEPT !.pc = "prior", !.op = "post", !.entry = e,
                                   !.key = key, !.hash = hash, !.expected = expected])
    BY DEF BeginPost
<1>2. req'[r] = [Idle EXCEPT !.pc = "prior", !.op = "post", !.entry = e,
                             !.key = key, !.hash = hash, !.expected = expected]
    BY <1>1, BecomeLocal
<1>3. /\ req'[r].pc = "prior" /\ req'[r].op = "post" /\ req'[r].entry = e
      /\ req'[r].key = key /\ req'[r].hash = hash
    BY <1>2 DEF Idle
<1>4. entries' = entries
    BY DEF BeginPost, books
<1>5. LocalsGood(r)'
    BY <1>1, <1>3, <1>4 DEF LocalsGood, LocalsComplete, LocalsSound, IdempotencyKeys,
                            PostingPC, ReversingPC, CheckedPC
<1>6. QED
    BY <1>1, <1>5, QuietIsGood DEF BeginPost

\* A replay answers with an entry that the key proves to be in the books.
LEMMA ReadPriorIsGood ==
    ASSUME IInv, NEW r \in Requests, ReadPrior(r)
    PROVE  StepGood
<1> DEFINE prior == idempotency[req[r].key]
<1>1. LocalsComplete(r) /\ LocalsSound(r) /\ req[r] \in RequestType /\ req[r].pc = "prior"
    BY Parts DEF LocalsGood, ReadPrior, At
<1>2. CASE prior = None /\ Goto(r, "entry")
    BY <1>1, <1>2, GotoIsGood DEF ReadPrior, PC, PostingPC
<1>3. CASE Return(r)
    BY <1>3, ReturnIsGood DEF ReadPrior
<1>4. CASE prior = [entry |-> req[r].entry, hash |-> req[r].hash] /\ Goto(r, "answer")
    <2>1. /\ req'[r].pc = "answer" /\ req'[r].op = req[r].op /\ req'[r].entry = req[r].entry
          /\ req'[r].original = req[r].original /\ req'[r].key = req[r].key /\ req'[r].hash = req[r].hash
          /\ req'[r].expected = req[r].expected
        BY <1>1, <1>4, BecomeLocal DEF Goto, RequestType
    <2>2. entries' = entries
        BY DEF ReadPrior, books
    <2>3. InBooks(req[r].entry)
        <3>1. prior # None /\ prior.entry = req[r].entry
            BY <1>1, <1>4, NoneAssumption DEF LocalsComplete, PostingPC
        <3>2. QED
            BY <1>1, <3>1, Parts DEF PostedUnderOneKey, LocalsComplete, PostingPC
    <2>4. LocalsGood(r)'
        BY <1>1, <2>1, <2>2, <2>3 DEF LocalsGood, LocalsComplete, LocalsSound, InBooks, Exists,
                                      PostingPC, ReversingPC, CheckedPC
    <2>5. QED
        BY <1>4, <2>4, QuietIsGood DEF ReadPrior, Goto
<1>5. QED
    BY <1>2, <1>3, <1>4 DEF ReadPrior

LEMMA ReadEntryIsGood ==
    ASSUME IInv, NEW r \in Requests, ReadEntry(r)
    PROVE  StepGood
<1> DEFINE row == entries[req[r].entry]
<1>1. /\ LocalsComplete(r) /\ LocalsSound(r) /\ req[r] \in RequestType /\ req[r].pc = "entry"
      /\ req[r].entry \in Entries /\ row \in RowType /\ RowComplete(req[r].entry)
    BY Parts DEF LocalsGood, LocalsComplete, ReadEntry, At, PostingPC
<1>2. CASE Return(r)
    BY <1>2, ReturnIsGood DEF ReadEntry
<1>3. CASE /\ row.status = "draft"
           /\ req[r].expected \in {AnyVersion, row.version}
           /\ Become(r, [req[r] EXCEPT !.pc = "lines", !.version = row.version, !.date = row.date])
    <2>1. req'[r] = [req[r] EXCEPT !.pc = "lines", !.version = row.version, !.date = row.date]
        BY <1>3, BecomeLocal
    <2>2. /\ req'[r].pc = "lines" /\ req'[r].version = row.version /\ req'[r].date = row.date
          /\ req'[r].op = req[r].op /\ req'[r].entry = req[r].entry
          /\ req'[r].original = req[r].original /\ req'[r].key = req[r].key /\ req'[r].hash = req[r].hash
          /\ req'[r].expected = req[r].expected
        BY <1>1, <2>1 DEF RequestType
    <2>3. entries' = entries
        BY DEF ReadEntry, books
    <2>4. row.date \in Periods /\ row.version \in Nat
        BY <1>1, <1>3 DEF RowComplete, Exists, RowType
    <2>5. LocalsComplete(r)'
        BY <1>1, <2>2, <2>3, <2>4 DEF LocalsComplete, InBooks, PostingPC, ReversingPC, CheckedPC
    <2>6. req[r].op = "reverse" => row.version = 1
        BY <1>1, <1>3 DEF LocalsSound, AnyVersion
    <2>7. LocalsSound(r)'
        BY <1>1, <1>3, <2>2, <2>3, <2>4, <2>6 DEF LocalsSound, SameVersion, Exists, PostingPC, CheckedPC
    <2>8. QED
        BY <1>3, <2>5, <2>7, QuietIsGood DEF ReadEntry, LocalsGood
<1>4. QED
    BY <1>2, <1>3 DEF ReadEntry

LEMMA ReadLinesIsGood ==
    ASSUME IInv, NEW r \in Requests, ReadLines(r)
    PROVE  StepGood
<1> DEFINE lines == entries[req[r].entry].lines
<1>1. /\ LocalsComplete(r) /\ LocalsSound(r) /\ req[r] \in RequestType /\ req[r].pc = "lines"
    BY Parts DEF LocalsGood, ReadLines, At
<1>2. CASE Return(r)
    BY <1>2, ReturnIsGood DEF ReadLines
<1>3. CASE Balanced(lines) /\ Become(r, [req[r] EXCEPT !.pc = "period", !.lines = lines])
    <2>1. req'[r] = [req[r] EXCEPT !.pc = "period", !.lines = lines]
        BY <1>3, BecomeLocal
    <2>2. /\ req'[r].pc = "period" /\ req'[r].lines = lines
          /\ req'[r].version = req[r].version /\ req'[r].date = req[r].date
          /\ req'[r].op = req[r].op /\ req'[r].entry = req[r].entry
          /\ req'[r].original = req[r].original /\ req'[r].key = req[r].key /\ req'[r].hash = req[r].hash
          /\ req'[r].expected = req[r].expected
        BY <1>1, <2>1 DEF RequestType
    <2>3. entries' = entries
        BY DEF ReadLines, books
    <2>4. LocalsComplete(r)'
        BY <1>1, <2>2, <2>3 DEF LocalsComplete, InBooks, PostingPC, ReversingPC, CheckedPC
    <2>5. LocalsSound(r)'
        BY <1>1, <1>3, <2>2, <2>3 DEF LocalsSound, SameVersion, Exists, PostingPC, CheckedPC
    <2>6. QED
        BY <1>3, <2>4, <2>5, QuietIsGood DEF ReadLines, LocalsGood
<1>4. QED
    BY <1>2, <1>3 DEF ReadLines

LEMMA BeginReverseIsGood ==
    ASSUME IInv, NEW r \in Requests, BeginReverse(r)
    PROVE  StepGood
<1>1. PICK o \in Entries, date \in Periods, key \in Keys, hash \in Hashes :
         /\ entries[o].status = "posted"
         /\ Become(r, [Idle EXCEPT !.pc = "link", !.op = "reverse", !.original = o,
                                   !.date = date, !.key = key, !.hash = hash, !.expected = 1])
    BY DEF BeginReverse
<1>2. req'[r] = [Idle EXCEPT !.pc = "link", !.op = "reverse", !.original = o,
                             !.date = date, !.key = key, !.hash = hash, !.expected = 1]
    BY <1>1, BecomeLocal
<1>3. /\ req'[r].pc = "link" /\ req'[r].op = "reverse" /\ req'[r].original = o
      /\ req'[r].date = date /\ req'[r].key = key /\ req'[r].hash = hash /\ req'[r].expected = 1
    BY <1>2 DEF Idle
<1>4. entries' = entries
    BY DEF BeginReverse, books
<1>5. LocalsGood(r)'
    BY <1>1, <1>3, <1>4 DEF LocalsGood, LocalsComplete, LocalsSound, IdempotencyKeys, InBooks,
                            PostingPC, ReversingPC, CheckedPC
<1>6. QED
    BY <1>1, <1>5, QuietIsGood DEF BeginReverse

LEMMA ReadOriginalLinesIsGood ==
    ASSUME IInv, NEW r \in Requests, ReadOriginalLines(r)
    PROVE  StepGood
<1> DEFINE o == req[r].original
<1>1. LocalsComplete(r) /\ LocalsSound(r) /\ req[r] \in RequestType /\ req[r].pc = "original_lines"
    BY Parts DEF LocalsGood, ReadOriginalLines, At
<1>2. req'[r] = [req[r] EXCEPT !.pc = "unfinished", !.lines = entries[o].lines]
    BY BecomeLocal DEF ReadOriginalLines
<1>3. /\ req'[r].pc = "unfinished" /\ req'[r].lines = entries[o].lines
      /\ req'[r].op = req[r].op /\ req'[r].entry = req[r].entry /\ req'[r].date = req[r].date
      /\ req'[r].original = o /\ req'[r].key = req[r].key /\ req'[r].hash = req[r].hash
      /\ req'[r].expected = req[r].expected
    BY <1>1, <1>2 DEF RequestType
<1>4. entries' = entries
    BY DEF ReadOriginalLines, books
<1>5. /\ o \in Entries /\ InBooks(o) /\ req[r].op = "reverse" /\ entries[o].lines \in LineSets
    BY <1>1, Parts DEF LocalsComplete, ReversingPC, RowComplete, InBooks, Exists
<1>6. LocalsGood(r)'
    BY <1>1, <1>3, <1>4, <1>5 DEF LocalsGood, LocalsComplete, LocalsSound, InBooks,
                                  PostingPC, ReversingPC, CheckedPC
<1>7. QED
    BY <1>6, QuietIsGood DEF ReadOriginalLines

LEMMA ReadUnfinishedIsGood ==
    ASSUME IInv, NEW r \in Requests, ReadUnfinished(r)
    PROVE  StepGood
<1> DEFINE o == req[r].original
<1>1. /\ LocalsComplete(r) /\ LocalsSound(r) /\ req[r] \in RequestType /\ req[r].pc = "unfinished"
    BY Parts DEF LocalsGood, ReadUnfinished, At
<1>2. CASE Return(r)
    BY <1>2, ReturnIsGood DEF ReadUnfinished
<1>3. CASE Goto(r, "insert_reversal")
    BY <1>1, <1>3, GotoIsGood DEF ReadUnfinished, PC, ReversingPC
<1>4. CASE \E e \in Unfinished(o) : Become(r, [req[r] EXCEPT !.pc = "prior", !.entry = e])
    <2>1. PICK e \in Entries : /\ entries[e].status = "draft" /\ entries[e].source = o
                               /\ Become(r, [req[r] EXCEPT !.pc = "prior", !.entry = e])
        BY <1>4 DEF Unfinished
    <2>2. req'[r] = [req[r] EXCEPT !.pc = "prior", !.entry = e]
        BY <2>1, BecomeLocal
    <2>3. /\ req'[r].pc = "prior" /\ req'[r].entry = e
          /\ req'[r].op = req[r].op /\ req'[r].original = o
          /\ req'[r].key = req[r].key /\ req'[r].hash = req[r].hash /\ req'[r].expected = req[r].expected
        BY <1>1, <2>2 DEF RequestType
    <2>4. entries' = entries
        BY DEF ReadUnfinished, books
    <2>5. LocalsGood(r)'
        BY <1>1, <2>1, <2>3, <2>4 DEF LocalsGood, LocalsComplete, LocalsSound, InBooks,
                                      PostingPC, ReversingPC, CheckedPC
    <2>6. QED
        BY <2>1, <2>5, QuietIsGood DEF ReadUnfinished
<1>5. QED
    BY <1>2, <1>3, <1>4 DEF ReadUnfinished

LEMMA InsertReversalIsGood ==
    ASSUME IInv, NEW r \in Requests, InsertReversal(r)
    PROVE  StepGood
<1> DEFINE o == req[r].original
<1>1. /\ LocalsComplete(r) /\ LocalsSound(r) /\ req[r] \in RequestType /\ req[r].pc = "insert_reversal"
    BY Parts DEF LocalsGood, InsertReversal, At
<1>2. CASE Return(r) /\ UNCHANGED entries
    BY <1>2, ReturnIsGood DEF InsertReversal, books
<1>3. ASSUME NEW e \in Entries, InsertDraft(e, Mirror(req[r].lines), req[r].date, o),
             Become(r, [req[r] EXCEPT !.pc = "prior", !.entry = e])
      PROVE  StepGood
    <2>1. /\ o \in Entries /\ InBooks(o) /\ req[r].op = "reverse" /\ req[r].date \in Periods
          /\ req[r].lines = entries[o].lines /\ Mirror(req[r].lines) \in LineSets
        BY <1>1, MirrorType DEF LocalsComplete, LocalsSound, ReversingPC
    <2>2. /\ \A x \in Entries : Drafted(x)
          /\ entries'[e] = DraftRow(Mirror(req[r].lines), req[r].date, o)
        BY <1>3, <2>1, InsertIsDrafted DEF EntryOrNone
    <2>3. req'[r] = [req[r] EXCEPT !.pc = "prior", !.entry = e]
        BY <1>3, BecomeLocal
    <2>4. /\ req'[r].pc = "prior" /\ req'[r].entry = e
          /\ req'[r].op = req[r].op /\ req'[r].original = o
          /\ req'[r].key = req[r].key /\ req'[r].hash = req[r].hash /\ req'[r].expected = req[r].expected
        BY <1>1, <2>3 DEF RequestType
    <2>5. entries'[o].status \in {"posted", "reversed"}
        <3>1. \A x \in Entries : InBooks(x) => InBooks(x)'
            BY <2>2, MovedKeepsBooks DEF Moved
        <3>2. QED
            BY <3>1, <2>1 DEF InBooks
    <2>6. LocalsGood(r)'
        BY <1>1, <2>1, <2>2, <2>4, <2>5 DEF LocalsGood, LocalsComplete, LocalsSound, DraftRow, InBooks,
                                            PostingPC, ReversingPC, CheckedPC
    <2>7. QED
        BY <1>3, <2>2, <2>6, DraftingIsGood DEF InsertReversal
<1>4. QED
    BY <1>2, <1>3 DEF InsertReversal

LEMMA ReadAccountIsGood ==
    ASSUME IInv, NEW r \in Requests, ReadAccount(r)
    PROVE  StepGood
<1>1. PICK a \in Accounts : Become(r, [Idle EXCEPT !.pc = "activity", !.op = "archive", !.account = a,
                                                   !.version = accounts[a].version])
    BY DEF ReadAccount
<1>2. req'[r] = [Idle EXCEPT !.pc = "activity", !.op = "archive", !.account = a,
                             !.version = accounts[a].version]
    BY <1>1, BecomeLocal
<1>3. req'[r].pc = "activity" /\ req'[r].op = "archive" /\ req'[r].account = a
    BY <1>2 DEF Idle
<1>4. LocalsGood(r)'
    BY <1>3 DEF LocalsGood, LocalsComplete, LocalsSound, PostingPC, ReversingPC, CheckedPC
<1>5. QED
    BY <1>1, <1>4, QuietIsGood DEF ReadAccount

\* The batch of a posting: the only step that puts an entry in the books.
LEMMA BatchPostIsGood ==
    ASSUME IInv, NEW r \in Requests, BatchPost(r)
    PROVE  StepGood
<1> DEFINE e == req[r].entry
<1> DEFINE o == req[r].original
<1> DEFINE k == req[r].key
<1>1. /\ LocalsComplete(r) /\ LocalsSound(r) /\ req[r] \in RequestType /\ req[r].pc = "batch"
      /\ TablesTyped /\ ReversalsMirror /\ PostedUnderOneKey
    BY Parts DEF LocalsGood, BatchPost, At
<1>2. CASE ~PostGuard(r)
    BY <1>2, ReturnIsGood DEF BatchPost
<1>3. CASE PostGuard(r)
    <2>1. /\ e \in Entries /\ k \in IdempotencyKeys /\ req[r].hash \in Hashes /\ req[r].date \in Periods
          /\ req[r].op = "reverse" => o \in Entries /\ InBooks(o)
        BY <1>1 DEF LocalsComplete, PostingPC, CheckedPC
    <2>2. /\ entries[e].status = "draft" /\ entries[e].version = req[r].version
          /\ Accepting(req[r].date) /\ idempotency[k] = None
          /\ req[r].op = "reverse" => reversals[o] = None
        BY <1>3 DEF PostGuard
    <2>3. /\ Balanced(req[r].lines) /\ req[r].lines = entries[e].lines
          /\ req[r].date = entries[e].date
          /\ req[r].op = "reverse" => req[r].version = 1 /\ entries[e].source = o
        BY <1>1, <2>1, <2>2 DEF LocalsSound, SameVersion, Exists, CheckedPC, PostingPC
    <2>4. Posted(entries[e], PostedRow(r)) /\ entries[e] \in RowType
        BY <1>1, <2>1, <2>2, <2>3 DEF TablesTyped, RowType, Posted, PostedRow
    <2>5. req[r].op = "reverse" => /\ o \in Entries /\ o # e
                                   /\ entries[o] \in RowType
                                   /\ entries[o].status = "posted"
                                   /\ Reversed(entries[o], ReversedRow(o))
        BY <1>1, <2>1, <2>2 DEF InBooks, Reversed, ReversedRow, ReversalsMirror, TablesTyped
    <2>6. /\ entries'[e] = PostedRow(r)
          /\ req[r].op = "reverse" => entries'[o] = ReversedRow(o)
          /\ \A x \in Entries : x # e /\ (req[r].op = "reverse" => x # o) => entries'[x] = entries[x]
        BY <1>1, <1>3, <2>1, <2>5 DEF BatchPost, SetRow, TablesTyped
    <2>7. \A x \in Entries : Moved(x)
        BY <2>4, <2>5, <2>6 DEF Moved, Drafted
    <2>8. \A x \in Entries : /\ entries'[x].status \in {"posted", "reversed"} <=> InBooks(x) \/ x = e
                             /\ InBooks(x) => entries'[x].lines = entries[x].lines
                                              /\ entries'[x].source = entries[x].source
        BY <2>2, <2>4, <2>5, <2>6 DEF InBooks, Posted, Reversed, RowType
    <2>9. PostedUnderOneKey'
        <3>1. /\ idempotency' = [idempotency EXCEPT ![k] = [entry |-> e, hash |-> req[r].hash]]
              /\ idempotency'[k] # None /\ idempotency'[k].entry = e
              /\ \A j \in IdempotencyKeys \ {k} : idempotency'[j] = idempotency[j]
            BY <1>1, <1>3, <2>1, NoneAssumption DEF BatchPost, TablesTyped
        <3>2. \A j \in IdempotencyKeys : idempotency[j] # None =>
                 idempotency[j].entry \in Entries /\ idempotency[j].entry # e
            BY <1>1, <2>1, <2>2 DEF PostedUnderOneKey, InBooks, TablesTyped, IdempotencyRow
        <3>3. \A j \in IdempotencyKeys : idempotency'[j] # None =>
                 entries'[idempotency'[j].entry].status \in {"posted", "reversed"}
            BY <3>1, <3>2, <1>1, <2>1, <2>8 DEF PostedUnderOneKey
        <3>4. ASSUME NEW x \in Entries, entries'[x].status \in {"posted", "reversed"}
              PROVE  \E j \in IdempotencyKeys :
                        /\ idempotency'[j] # None /\ idempotency'[j].entry = x
                        /\ \A other \in IdempotencyKeys \ {j} :
                              idempotency'[other] # None => idempotency'[other].entry # x
            <4>1. CASE x = e
                BY <4>1, <3>1, <3>2, <2>1
            <4>2. CASE x # e
                BY <4>2, <3>1, <3>4, <1>1, <2>1, <2>2, <2>8 DEF PostedUnderOneKey
            <4>3. QED
                BY <4>1, <4>2
        <3>5. QED
            BY <3>3, <3>4 DEF PostedUnderOneKey, InBooks
    <2>10. ReversalsMirror'
        <3> SUFFICES ASSUME NEW x \in Entries
                     PROVE  /\ entries'[x].status = "reversed" <=> reversals'[x] # None
                            /\ reversals'[x] # None =>
                                  /\ entries'[reversals'[x]].status \in {"posted", "reversed"}
                                  /\ entries'[reversals'[x]].source = x
                                  /\ entries'[reversals'[x]].lines = Mirror(entries'[x].lines)
            BY DEF ReversalsMirror, InBooks
        <3>1. reversals[x] \in EntryOrNone
            BY <1>1 DEF TablesTyped
        <3>2. /\ entries[x].status = "reversed" <=> reversals[x] # None
              /\ reversals[x] # None =>
                    /\ InBooks(reversals[x])
                    /\ entries[reversals[x]].source = x
                    /\ entries[reversals[x]].lines = Mirror(entries[x].lines)
            BY <1>1 DEF ReversalsMirror
        <3>3. CASE req[r].op = "reverse" /\ x = o
            <4>1. reversals'[x] = e /\ e # None
                BY <1>1, <1>3, <2>1, <3>3, NoneAssumption DEF BatchPost, TablesTyped
            <4>2. entries[e].lines = Mirror(entries[o].lines)
                BY <2>1, <2>2, <2>3, <2>5, <3>3, NoneAssumption, Parts DEF RowSound
            <4>3. entries'[x].status = "reversed" /\ entries'[x].lines = entries[o].lines
                BY <2>5, <2>6, <3>3 DEF Reversed, RowType
            <4>4. entries'[e].source = o /\ entries'[e].lines = entries[e].lines
                BY <2>3, <2>4, <2>6, <3>3 DEF Posted
            <4>5. QED
                BY <4>1, <4>2, <4>3, <4>4, <2>1, <2>8, <3>3 DEF InBooks
        <3>4. CASE ~(req[r].op = "reverse" /\ x = o)
            <4>1. reversals'[x] = reversals[x]
                BY <1>1, <1>3, <3>4 DEF BatchPost, TablesTyped
            <4>2. entries'[x].status = "reversed" <=> entries[x].status = "reversed"
                BY <2>2, <2>4, <2>6, <3>4 DEF Posted
            <4>3. reversals[x] # None => InBooks(x)
                BY <3>2 DEF InBooks
            <4>4. QED
                BY <4>1, <4>2, <4>3, <3>1, <3>2, <2>8 DEF EntryOrNone, InBooks
        <3>5. QED
            BY <3>3, <3>4
    <2>11. LocalsGood(r)'
        <3>1. Goto(r, "answer")
            BY <1>3 DEF BatchPost
        <3>2. /\ req'[r].pc = "answer" /\ req'[r].entry = e /\ req'[r].op = req[r].op
              /\ req'[r].original = o /\ req'[r].key = k /\ req'[r].hash = req[r].hash
              /\ req'[r].expected = req[r].expected
            BY <1>1, <3>1, BecomeLocal DEF Goto, RequestType
        <3>3. /\ entries'[e].status \in {"posted", "reversed"}
              /\ req[r].op = "reverse" => entries'[o].status \in {"posted", "reversed"}
            BY <2>1, <2>8
        <3>4. entries'[e].source = entries[e].source /\ entries'[e].status = "posted"
            BY <2>4, <2>6 DEF Posted
        <3>5. QED
            BY <1>1, <2>1, <2>3, <3>2, <3>3, <3>4
            DEF LocalsGood, LocalsComplete, LocalsSound, InBooks, PostingPC, ReversingPC, CheckedPC
    <2>12. QED
        <3>1. Goto(r, "answer")
            BY <1>3 DEF BatchPost
        <3>2. \A q \in Requests \ {r} : req'[q] = req[q]
            BY <3>1, BecomeLocal DEF Goto
        <3>3. QED
            BY <3>2, <2>7, <2>9, <2>10, <2>11 DEF StepGood
<1>4. QED
    BY <1>2, <1>3

\* The rest of the system writes neither the journal nor a request's variables.
LEMMA StutterIsGood ==
    ASSUME IInv, UNCHANGED <<books, req>>
    PROVE  StepGood
<1>1. \A e \in Entries : Drafted(e)
    BY DEF Drafted, books
<1>2. ReversalsMirror' /\ PostedUnderOneKey'
    BY <1>1, DraftedStep DEF books
<1>3. QED
    BY <1>1, <1>2 DEF StepGood, Moved

LEMMA NextIsGood ==
    ASSUME IInv, [Next]_vars
    PROVE  StepGood
<1>1. CASE UNCHANGED vars
    BY <1>1, StutterIsGood DEF vars
<1>2. ASSUME NEW r \in Requests, Drafting(r) PROVE StepGood
    BY <1>2, CreateDraftIsGood, RecordDepositIsGood, VoidDraftIsGood, ReadDraftIsGood, BatchEditIsGood
    DEF Drafting
<1>3. ASSUME NEW r \in Requests, Posting(r) PROVE StepGood
    BY <1>3, BeginPostIsGood, ReadPriorIsGood, ReadEntryIsGood, ReadLinesIsGood, ChecksAreGood,
       BatchPostIsGood, ReturnIsGood
    DEF Posting, Answer
<1>4. ASSUME NEW r \in Requests, Reversing(r) PROVE StepGood
    BY <1>4, BeginReverseIsGood, ChecksAreGood, ReadOriginalLinesIsGood, ReadUnfinishedIsGood,
       InsertReversalIsGood
    DEF Reversing
<1>5. ASSUME NEW r \in Requests, Archiving(r) PROVE StepGood
    BY <1>5, ReadAccountIsGood, ChecksAreGood, ReturnIsGood DEF Archiving, WriteArchive
<1>6. ASSUME NEW r \in Requests, Crash(r) PROVE StepGood
    BY <1>6, ReturnIsGood DEF Crash
<1>7. CASE Environment
    BY <1>6, <1>7, StutterIsGood
    DEF Environment, SetPeriod, SetLock, Unarchive, SetFiscalYear, SetProtective
<1>8. QED
    BY <1>1, <1>2, <1>3, <1>4, <1>5, <1>7 DEF Next

LEMMA InitInvariant == Init => IInv
<1> SUFFICES ASSUME Init PROVE IInv
    OBVIOUS
<1>1. \A e \in Entries : ~Exists(e) /\ ~InBooks(e) /\ entries[e].status = "absent"
    BY DEF Init, Exists, InBooks, AbsentRow
<1>2. \A r \in Requests : req[r].pc = "idle" /\ req[r].op = "none"
    BY DEF Init, Idle
<1>3. BooksBalance /\ ReversalsMirror /\ PostedUnderOneKey
    BY <1>1 DEF Init, BooksBalance, ReversalsMirror, PostedUnderOneKey
<1>4. \A e \in Entries : RowSound(e)
    BY <1>1 DEF RowSound
<1>5. \A r \in Requests : LocalsSound(r)
    BY <1>2 DEF LocalsSound, PostingPC, CheckedPC
<1>6. QED
    BY <1>3, <1>4, <1>5, InitTypeOK DEF IInv

LEMMA InvariantStep ==
    ASSUME IInv, [Next]_vars
    PROVE  IInv'
<1>1. StepGood
    BY NextIsGood
<1>2. TablesTyped'
    BY TablesStep, Parts
<1>3. \A e \in Entries : RowComplete(e)' /\ RowSound(e)'
    BY <1>1, <1>2, RowsStep DEF StepGood
<1>4. \A r \in Requests : LocalsGood(r)'
    BY <1>1, <1>2, OthersStep DEF StepGood
<1>5. BooksBalance'
    BY <1>1, <1>2, BalanceStep DEF StepGood
<1>6. ReversalsMirror' /\ PostedUnderOneKey'
    BY <1>1 DEF StepGood
<1>7. QED
    BY <1>2, <1>3, <1>4, <1>5, <1>6 DEF IInv, TypeOK, LocalsGood

-----------------------------------------------------------------------------
(* The theorems.                                                           *)

\* The inductive invariant holds of every reachable state: what a request has read
\* is what the row still says, unless the row's version has moved on.
THEOREM Invariant == Spec => []IInv
BY InitInvariant, InvariantStep, PTL DEF Spec

\* Every column and every local variable of the journal's operations keeps its
\* type, and is set by the time an operation uses it.
THEOREM TypeCorrect == Spec => []TypeOK
<1>1. IInv => TypeOK
    BY DEF IInv
<1>2. QED
    BY <1>1, Invariant, PTL

\* postJournalEntry: what the books hold balances, with the totals of the very
\* lines they hold, however edits, postings and crashes interleave.
THEOREM BooksBalanceAlways == Spec => []BooksBalance
<1>1. IInv => BooksBalance
    BY DEF IInv
<1>2. QED
    BY <1>1, Invariant, PTL

\* reverseJournalEntry: a reversed entry has exactly one linked reversal, which
\* cancels it line by line.
THEOREM ReversalsMirrorAlways == Spec => []ReversalsMirror
<1>1. IInv => ReversalsMirror
    BY DEF IInv
<1>2. QED
    BY <1>1, Invariant, PTL

\* postJournalEntry: every entry of the books was posted under exactly one
\* idempotency key.
THEOREM OneKeyAlways == Spec => []PostedUnderOneKey
<1>1. IInv => PostedUnderOneKey
    BY DEF IInv
<1>2. QED
    BY <1>1, Invariant, PTL

\* postJournalEntry: a caller is only ever answered with an entry of the books.
THEOREM AnswersAlways == Spec => []AnsweredIsPosted
<1>1. IInv => AnsweredIsPosted
    BY Parts DEF LocalsGood, LocalsSound, AnsweredIsPosted, At
<1>2. QED
    BY <1>1, Invariant, PTL

\* The immutability triggers and the handlers: the books are append-only.
THEOREM AppendOnly == Spec => BooksAreAppendOnly
<1>1. ASSUME IInv, Next, NEW e \in Entries, InBooks(e)
      PROVE  /\ InBooks(e)'
             /\ entries[e].status = "reversed" => entries'[e].status = "reversed"
             /\ \A column \in {"lines", "date", "source", "debits", "credits", "period"} :
                   entries'[e][column] = entries[e][column]
    <2>1. Moved(e) /\ entries[e] \in RowType
        BY <1>1, NextIsGood, Parts DEF StepGood
    <2>2. CASE entries'[e] = entries[e]
        BY <1>1, <2>2 DEF InBooks
    <2>3. CASE Reversed(entries[e], entries'[e])
        BY <2>1, <2>3 DEF Reversed, InBooks, RowType
    <2>4. QED
        BY <1>1, <2>1, <2>2, <2>3 DEF Moved, Drafted, Inserted, Edited, Deleted, Posted, InBooks
<1>2. IInv /\ [Next]_vars => [\A e \in Entries : InBooks(e) =>
          /\ InBooks(e)'
          /\ entries[e].status = "reversed" => entries'[e].status = "reversed"
          /\ \A column \in {"lines", "date", "source", "debits", "credits", "period"} :
                entries'[e][column] = entries[e][column]]_vars
    BY <1>1
<1>3. QED
    BY <1>2, Invariant, PTL DEF Spec, BooksAreAppendOnly

\* The guard of the posting batch: an entry enters the books only while its
\* period is open and unlocked in an open fiscal year, whatever was read before.
THEOREM PostsWhileAccepting == Spec => PostsIntoAcceptingPeriod
<1>1. ASSUME IInv, Next, NEW e \in Entries, ~InBooks(e), InBooks(e)'
      PROVE  Accepting(entries'[e].period)
    <2>1. Moved(e) /\ entries[e] \in RowType
        BY <1>1, NextIsGood, Parts DEF StepGood
    <2>2. QED
        BY <1>1, <2>1 DEF Moved, Drafted, Inserted, Edited, Deleted, Posted, Reversed, InBooks
<1>2. IInv /\ [Next]_vars =>
         [\A e \in Entries : ~InBooks(e) /\ InBooks(e)' => Accepting(entries'[e].period)]_vars
    BY <1>1
<1>3. QED
    BY <1>2, Invariant, PTL DEF Spec, PostsIntoAcceptingPeriod

\* The requests that wait to write an edit are moved by that write or by an eviction.
LEMMA EditingMoves ==
    ASSUME IInv, Next, NEW r \in Requests, At(r, "edit"), req'[r] # req[r]
    PROVE  UNCHANGED entries \/ DraftGuard(req[r].entry, req[r].expected)
<1>1. ASSUME NEW q \in Requests, NEW local, Become(q, local) PROVE q = r
    BY <1>1, BecomeLocal
<1>2. ASSUME NEW q \in Requests, Drafting(q)
      PROVE  UNCHANGED entries \/ DraftGuard(req[r].entry, req[r].expected)
    <2>1. CASE CreateDraft(q) \/ VoidDraft(q)
        BY <2>1 DEF CreateDraft, VoidDraft
    <2>2. CASE RecordDeposit(q)
        BY <1>1, <2>2 DEF RecordDeposit, At
    <2>3. CASE ReadDraft(q, "edit") \/ ReadDraft(q, "delete")
        BY <2>3 DEF ReadDraft, books
    <2>4. CASE BatchEdit(q) \/ BatchDelete(q)
        <3>1. q = r
            BY <1>1, <2>4 DEF BatchEdit, BatchDelete, Return
        <3>2. QED
            BY <2>4, <3>1 DEF BatchEdit, BatchDelete
    <2>5. QED
        BY <1>2, <2>1, <2>2, <2>3, <2>4 DEF Drafting
<1>3. ASSUME NEW q \in Requests, Posting(q) PROVE UNCHANGED entries
    <2>1. CASE BatchPost(q)
        <3>1. q # r
            BY <2>1 DEF BatchPost, At
        <3>2. \E local : Become(q, local)
            BY <2>1 DEF BatchPost, Goto, Return
        <3>3. QED
            BY <1>1, <3>1, <3>2
    <2>2. CASE ~BatchPost(q)
        BY <1>3, <2>2
        DEF Posting, BeginPost, ReadPrior, ReadEntry, ReadLines, ReadPeriod, ReadLock, ReadProtective,
            Check, Answer, books
    <2>3. QED
        BY <2>1, <2>2
<1>4. ASSUME NEW q \in Requests, Reversing(q) PROVE UNCHANGED entries
    <2>1. CASE InsertReversal(q)
        <3>1. q # r
            BY <2>1 DEF InsertReversal, At
        <3>2. \E local : Become(q, local)
            BY <2>1 DEF InsertReversal, Return
        <3>3. QED
            BY <1>1, <3>1, <3>2
    <2>2. CASE ~InsertReversal(q)
        BY <1>4, <2>2 DEF Reversing, BeginReverse, ReadLink, Check, ReadOriginalLines, ReadUnfinished, books
    <2>3. QED
        BY <2>1, <2>2
<1>5. ASSUME NEW q \in Requests, Archiving(q) PROVE UNCHANGED entries
    BY <1>5 DEF Archiving, ReadAccount, ReadActivity, Check, WriteArchive, books
<1>6. CASE Environment
    BY <1>6 DEF Environment, SetPeriod, SetLock, Unarchive, SetFiscalYear, SetProtective, Crash, books
<1>7. QED
    BY <1>2, <1>3, <1>4, <1>5, <1>6 DEF Next

\* updateJournalDraft: of two edits that started from one version one is kept.
THEOREM EditsAreKept == Spec => NoLostEdit
<1>1. ASSUME IInv, Next, NEW e \in Entries, Exists(e), Exists(e)', entries'[e].lines # entries[e].lines
      PROVE  /\ entries'[e].version > entries[e].version
             /\ \A r \in Requests : At(r, "edit") /\ req[r].entry = e /\ req[r] # req'[r] =>
                   req[r].expected = entries[e].version
    <2>1. Moved(e) /\ entries[e] \in RowType
        BY <1>1, NextIsGood, Parts DEF StepGood
    <2>2. Edited(entries[e], entries'[e])
        <3>1. CASE Reversed(entries[e], entries'[e])
            BY <1>1, <2>1, <3>1 DEF Reversed, RowType
        <3>2. QED
            BY <1>1, <2>1, <3>1 DEF Moved, Drafted, Inserted, Deleted, Posted, Exists
    <2>3. entries'[e].version > entries[e].version
        BY <2>1, <2>2 DEF Edited, RowType
    <2>4. ~UNCHANGED entries
        BY <1>1
    <2>5. QED
        BY <1>1, <2>3, <2>4, EditingMoves DEF DraftGuard
<1>2. IInv /\ [Next]_vars =>
         [\A e \in Entries :
             Exists(e) /\ Exists(e)' /\ entries'[e].lines # entries[e].lines =>
                /\ entries'[e].version > entries[e].version
                /\ \A r \in Requests : At(r, "edit") /\ req[r].entry = e /\ req[r] # req'[r] =>
                      req[r].expected = entries[e].version]_vars
    BY <1>1
<1>3. QED
    BY <1>2, Invariant, PTL DEF Spec, NoLostEdit

-----------------------------------------------------------------------------
(* The journal implements Books: every step is a step of Books or leaves   *)
(* what Books sees alone.                                                  *)

BooksUnseen == UNCHANGED <<JournalView, idempotency, AcceptingPeriods>>
BooksStep == Abstract!Next \/ BooksUnseen

-----------------------------------------------------------------------------
(* The view of the rows and of the controls, from one state to the next.   *)

LEMMA SameView ==
    ASSUME UNCHANGED entries
    PROVE  UNCHANGED JournalView
BY DEF JournalView

LEMMA PutView ==
    ASSUME TablesTyped, NEW e \in Entries, NEW row, SetRow(e, row)
    PROVE  JournalView' = [JournalView EXCEPT ![e] = View(row)]
BY DEF TablesTyped, SetRow, JournalView

LEMMA SameAccepting ==
    ASSUME UNCHANGED controls
    PROVE  UNCHANGED AcceptingPeriods
BY DEF AcceptingPeriods, Accepting, controls

\* What Books reads of an entry is what the row says.
LEMMA ViewOf ==
    ASSUME NEW e \in Entries
    PROVE  /\ JournalView[e] = View(entries[e])
           /\ entries[e].status # "draft" => JournalView[e].status = entries[e].status
           /\ entries[e].status = "draft" => JournalView[e].status \in {"draft", "edited"}
           /\ entries[e].status = "draft" /\ entries[e].version = 1 => JournalView[e].status = "draft"
           /\ JournalView[e].date = entries[e].date
           /\ JournalView[e].source = entries[e].source
BY DEF JournalView, View

LEMMA SourceView ==
    ASSUME NEW source, SourceFree(source)
    PROVE  Abstract!SourceFree(source)
BY ViewOf DEF SourceFree, Abstract!SourceFree, Abstract!EntriesOf, Abstract!Stored, Exists

\* A row that is no longer an unedited draft.
LEMMA ChangedView ==
    ASSUME NEW old, NEW row, row.source = old.source, row.date = old.date, row.status # "draft"
    PROVE  View(row) = [View(old) EXCEPT !.status = row.status]
BY DEF View

LEMMA EditedView ==
    ASSUME NEW old, NEW row, row.source = old.source, row.status = "draft", row.version # 1
    PROVE  View(row) = [status |-> "edited", date |-> row.date, source |-> View(old).source]
BY DEF View

-----------------------------------------------------------------------------
(* Drafting.                                                               *)

LEMMA InsertRefines ==
    ASSUME IInv, NEW e \in Entries, NEW lines, NEW date \in Periods, NEW source \in EntryOrNone,
           InsertDraft(e, lines, date, source), UNCHANGED <<idempotency, controls>>
    PROVE  Abstract!Next
<1> DEFINE entry == [status |-> "draft", date |-> date, source |-> source]
<1>1. View(DraftRow(lines, date, source)) = entry
    BY DEF View, DraftRow
<1>2. JournalView' = [JournalView EXCEPT ![e] = entry]
    BY <1>1, PutView, Parts DEF InsertDraft
<1>3. JournalView[e].status = "absent" /\ Abstract!SourceFree(source)
    BY ViewOf, SourceView DEF InsertDraft
<1>4. Abstract!Draft(e, date, source)
    BY <1>2, <1>3 DEF Abstract!Draft, Abstract!PutEntry
<1>5. Abstract!Drafting(e)
    BY <1>4 DEF Abstract!Drafting, EntryOrNone
<1>6. QED
    BY <1>5, SameAccepting DEF Abstract!Next

\* An edit, a deletion or a voiding of a draft.
LEMMA DraftingRefines ==
    ASSUME IInv, NEW e \in Entries, NEW row, SetRow(e, row), entries[e].status = "draft",
           UNCHANGED <<idempotency, controls>>,
           \/ \E date \in Periods : View(row) = [status |-> "edited", date |-> date, source |-> View(entries[e]).source]
           \/ View(row) = Abstract!Removed
           \/ View(row) = [View(entries[e]) EXCEPT !.status = "voided"]
    PROVE  Abstract!Next
<1>1. JournalView' = [JournalView EXCEPT ![e] = View(row)]
    BY PutView, Parts
<1>2. Abstract!Pending(e) /\ JournalView[e] = View(entries[e])
    BY ViewOf DEF Abstract!Pending
<1>3. \/ \E date \in Periods : Abstract!Edit(e, date)
      \/ Abstract!Remove(e)
      \/ Abstract!Void(e)
    BY <1>1, <1>2 DEF Abstract!Edit, Abstract!Remove, Abstract!Void, Abstract!PutEntry
<1>4. Abstract!Drafting(e)
    BY <1>3 DEF Abstract!Drafting
<1>5. QED
    BY <1>4, SameAccepting DEF Abstract!Next

LEMMA EditRefines ==
    ASSUME IInv, NEW r \in Requests, BatchEdit(r)
    PROVE  BooksStep
<1> DEFINE e == req[r].entry
<1>1. e \in Entries /\ entries[e] \in RowType
    BY Parts DEF BatchEdit, At, LocalsGood, LocalsComplete
<1>2. CASE UNCHANGED entries
    BY <1>2, SameView, SameAccepting DEF BatchEdit, BooksStep, BooksUnseen
<1>3. ASSUME NEW lines \in LineSets, NEW date \in Periods, DraftGuard(e, req[r].expected),
             SetRow(e, [entries[e] EXCEPT !.lines = lines, !.date = date, !.version = @ + 1])
      PROVE  BooksStep
    <2> DEFINE row == [entries[e] EXCEPT !.lines = lines, !.date = date, !.version = @ + 1]
    <2>1. entries[e].status = "draft" /\ entries[e].version \in Nat /\ entries[e].version >= 1
        BY <1>1, <1>3, Parts DEF DraftGuard, RowType, RowSound, Exists
    <2>2. row.status = "draft" /\ row.date = date /\ row.source = entries[e].source /\ row.version # 1
        BY <1>1, <2>1 DEF RowType
    <2>3. View(row) = [status |-> "edited", date |-> date, source |-> View(entries[e]).source]
        <3> HIDE DEF row
        <3> QED
            BY <2>2, EditedView
    <2>4. UNCHANGED <<idempotency, controls>>
        BY DEF BatchEdit
    <2>5. QED
        BY <1>1, <1>3, <2>1, <2>3, <2>4, DraftingRefines, Zenon DEF BooksStep
<1>4. QED
    BY <1>2, <1>3 DEF BatchEdit

LEMMA DeleteRefines ==
    ASSUME IInv, NEW r \in Requests, BatchDelete(r)
    PROVE  BooksStep
<1> DEFINE e == req[r].entry
<1>1. e \in Entries
    BY Parts DEF BatchDelete, At, LocalsGood, LocalsComplete
<1>2. View([AbsentRow EXCEPT !.status = "deleted"]) = Abstract!Removed
    BY DEF View, AbsentRow, Abstract!Removed, Abstract!NoEntry
<1>3. QED
    <2>1. CASE UNCHANGED entries
        BY <2>1, SameView, SameAccepting DEF BatchDelete, BooksStep, BooksUnseen
    <2>2. CASE DraftGuard(e, req[r].expected) /\ SetRow(e, [AbsentRow EXCEPT !.status = "deleted"])
        <3>1. entries[e].status = "draft" /\ UNCHANGED <<idempotency, controls>>
            BY <2>2 DEF BatchDelete, DraftGuard
        <3>2. QED
            BY <1>1, <1>2, <2>2, <3>1, DraftingRefines, Zenon DEF BooksStep
    <2>3. QED
        BY <2>1, <2>2 DEF BatchDelete

LEMMA VoidRefines ==
    ASSUME IInv, NEW r \in Requests, VoidDraft(r)
    PROVE  BooksStep
<1>1. PICK e \in Entries :
         /\ entries[e].status = "draft"
         /\ SetRow(e, [entries[e] EXCEPT !.status = "voided", !.version = @ + 1])
    BY DEF VoidDraft
<1> DEFINE row == [entries[e] EXCEPT !.status = "voided", !.version = @ + 1]
<1>2. row.status = "voided" /\ row.date = entries[e].date /\ row.source = entries[e].source
    BY Parts DEF RowType
<1>3. View(row) = [View(entries[e]) EXCEPT !.status = "voided"]
    <2> HIDE DEF row
    <2> QED
        BY <1>2, ChangedView
<1>4. UNCHANGED <<idempotency, controls>>
    BY DEF VoidDraft
<1>5. QED
    BY <1>1, <1>3, <1>4, DraftingRefines, Zenon DEF BooksStep

-----------------------------------------------------------------------------
(* Posting and reversing.                                                  *)

LEMMA PostRefines ==
    ASSUME IInv, NEW r \in Requests, BatchPost(r)
    PROVE  BooksStep
<1> DEFINE e == req[r].entry
<1> DEFINE o == req[r].original
<1> DEFINE k == req[r].key
<1> DEFINE h == req[r].hash
<1>1. /\ LocalsComplete(r) /\ LocalsSound(r) /\ req[r] \in RequestType /\ req[r].pc = "batch"
      /\ TablesTyped /\ ReversalsMirror
    BY Parts DEF LocalsGood, BatchPost, At
<1>2. UNCHANGED controls
    BY DEF BatchPost
<1>3. CASE ~PostGuard(r)
    <2>1. UNCHANGED entries /\ UNCHANGED idempotency
        BY <1>3 DEF BatchPost, books
    <2>2. QED
        BY <2>1, <1>2, SameView, SameAccepting DEF BooksStep, BooksUnseen
<1>4. CASE PostGuard(r)
    <2>1. /\ e \in Entries /\ k \in IdempotencyKeys /\ h \in Hashes /\ req[r].date \in Periods
          /\ req[r].op = "reverse" => o \in Entries /\ InBooks(o)
        BY <1>1 DEF LocalsComplete, PostingPC, CheckedPC
    <2>2. /\ entries[e].status = "draft" /\ entries[e].version = req[r].version
          /\ Accepting(req[r].date) /\ idempotency[k] = None
          /\ req[r].op = "reverse" => reversals[o] = None
        BY <1>4 DEF PostGuard
    <2>3. /\ req[r].date = entries[e].date
          /\ req[r].op = "reverse" => entries[e].version = 1 /\ entries[e].source = o
        BY <1>1, <2>1, <2>2 DEF LocalsSound, SameVersion, Exists, CheckedPC, PostingPC
    <2>4. Abstract!Postable(e, k)
        BY <2>1, <2>2, <2>3, ViewOf DEF Abstract!Postable, Abstract!Pending, AcceptingPeriods
    <2>5. View(PostedRow(r)) = [View(entries[e]) EXCEPT !.status = "posted"]
        <3>1. /\ PostedRow(r).status = "posted" /\ PostedRow(r).date = entries[e].date
              /\ PostedRow(r).source = entries[e].source
            BY <1>1, <2>1 DEF PostedRow, TablesTyped, RowType
        <3>2. QED
            BY <3>1, ChangedView
    <2>6. idempotency' = [idempotency EXCEPT ![k] = [entry |-> e, hash |-> h]]
        BY <1>4 DEF BatchPost
    <2>7. CASE req[r].op # "reverse"
        <3>1. SetRow(e, PostedRow(r))
            BY <1>4, <2>7 DEF BatchPost
        <3>2. JournalView' = [JournalView EXCEPT ![e] = [JournalView[e] EXCEPT !.status = "posted"]]
            BY <1>1, <2>1, <2>5, <3>1, PutView, ViewOf
        <3>3. Abstract!Post(e, k, h)
            BY <2>4, <2>6, <3>2 DEF Abstract!Post, Abstract!PutEntry
        <3>4. Abstract!Posting(e)
            BY <2>1, <3>3 DEF Abstract!Posting
        <3>5. QED
            BY <2>1, <3>4, <1>2, SameAccepting DEF Abstract!Next, BooksStep
    <2>8. CASE req[r].op = "reverse"
        <3>1. /\ o \in Entries /\ entries[o].status = "posted" /\ entries[o] \in RowType
              /\ entries[e] \in RowType /\ o # e
            BY <1>1, <2>1, <2>2, <2>8 DEF InBooks, ReversalsMirror, TablesTyped
        <3>2. entries' = [entries EXCEPT ![e] = PostedRow(r), ![o] = ReversedRow(o)]
            BY <1>4, <2>8 DEF BatchPost
        <3>3. View(ReversedRow(o)) = [View(entries[o]) EXCEPT !.status = "reversed"]
            <4>1. /\ ReversedRow(o).status = "reversed" /\ ReversedRow(o).date = entries[o].date
                  /\ ReversedRow(o).source = entries[o].source
                BY <3>1 DEF ReversedRow, RowType
            <4>2. QED
                BY <4>1, ChangedView
        <3>4. \A x \in Entries :
                 entries'[x] = IF x = o THEN ReversedRow(o) ELSE IF x = e THEN PostedRow(r) ELSE entries[x]
            BY <1>1, <3>1, <3>2, <2>1 DEF TablesTyped
        <3>5. JournalView' = [JournalView EXCEPT ![e].status = "posted", ![o].status = "reversed"]
            <4>1. \A x \in Entries : JournalView'[x] = View(entries'[x])
                BY DEF JournalView
            <4>2. QED
                BY <2>1, <2>5, <3>1, <3>3, <3>4, <4>1 DEF JournalView
        <3>6. Abstract!Reversible(o, e, k)
            BY <2>1, <2>2, <2>3, <2>4, <2>8, <3>1, ViewOf DEF Abstract!Reversible
        <3>7. Abstract!Reverse(o, e, k, h)
            BY <2>6, <3>5, <3>6 DEF Abstract!Reverse
        <3>8. Abstract!Posting(e)
            BY <2>1, <3>1, <3>7 DEF Abstract!Posting
        <3>9. QED
            BY <2>1, <3>8, <1>2, SameAccepting DEF Abstract!Next, BooksStep
    <2>9. QED
        BY <2>7, <2>8
<1>5. QED
    BY <1>3, <1>4

\* A deposit drafts, and only then becomes a posting; a reversal drafts too.
LEMMA CreationRefines ==
    ASSUME IInv, NEW r \in Requests, CreateDraft(r) \/ RecordDeposit(r) \/ InsertReversal(r)
    PROVE  BooksStep
<1>1. CASE CreateDraft(r)
    BY <1>1, InsertRefines DEF CreateDraft, BooksStep, EntryOrNone
<1>2. CASE RecordDeposit(r)
    <2>1. PICK e \in Entries, date \in Periods, lines \in LineSets : InsertDraft(e, lines, date, None)
        BY <1>2 DEF RecordDeposit
    <2>2. QED
        BY <1>2, <2>1, InsertRefines DEF RecordDeposit, BooksStep, EntryOrNone
<1>3. CASE InsertReversal(r)
    <2>1. req[r].original \in EntryOrNone /\ req[r].date \in Periods
        BY <1>3, Parts DEF InsertReversal, At, LocalsGood, LocalsComplete, ReversingPC, RequestType
    <2>2. CASE UNCHANGED entries
        BY <1>3, <2>2, SameView, SameAccepting DEF InsertReversal, BooksStep, BooksUnseen
    <2>3. ASSUME NEW e \in Entries, InsertDraft(e, Mirror(req[r].lines), req[r].date, req[r].original)
          PROVE  BooksStep
        BY <1>3, <2>1, <2>3, InsertRefines DEF InsertReversal, BooksStep
    <2>4. QED
        BY <1>3, <2>2, <2>3 DEF InsertReversal
<1>4. QED
    BY <1>1, <1>2, <1>3

\* Reads and answers do not touch the journal or what controls posting.
LEMMA ReadsAreUnseen ==
    ASSUME UNCHANGED <<books, controls>>
    PROVE  BooksStep
BY SameView, SameAccepting DEF books, BooksStep, BooksUnseen

\* The posting controls change, the journal does not.
LEMMA EnvironmentRefines ==
    ASSUME UNCHANGED books
    PROVE  BooksStep
<1>1. UNCHANGED JournalView /\ UNCHANGED idempotency
    BY SameView DEF books
<1>2. AcceptingPeriods' \in SUBSET Periods
    BY DEF AcceptingPeriods
<1>3. QED
    BY <1>1, <1>2 DEF BooksStep, Abstract!Next, Abstract!Reschedule, Abstract!journalVars

LEMMA NextRefines ==
    ASSUME IInv, [Next]_vars
    PROVE  BooksStep
<1>1. CASE UNCHANGED vars
    BY <1>1, EnvironmentRefines DEF vars
<1>2. ASSUME NEW r \in Requests, Drafting(r) PROVE BooksStep
    BY <1>2, CreationRefines, VoidRefines, EditRefines, DeleteRefines, ReadsAreUnseen
    DEF Drafting, ReadDraft
<1>3. ASSUME NEW r \in Requests, Posting(r) PROVE BooksStep
    BY <1>3, PostRefines, ReadsAreUnseen
    DEF Posting, BeginPost, ReadPrior, ReadEntry, ReadLines, ReadPeriod, ReadLock, ReadProtective,
        Check, Answer
<1>4. ASSUME NEW r \in Requests, Reversing(r) PROVE BooksStep
    BY <1>4, CreationRefines, ReadsAreUnseen
    DEF Reversing, BeginReverse, ReadLink, Check, ReadOriginalLines, ReadUnfinished
<1>5. ASSUME NEW r \in Requests, Archiving(r) PROVE BooksStep
    BY <1>5, EnvironmentRefines DEF Archiving, ReadAccount, ReadActivity, Check, WriteArchive
<1>6. CASE Environment
    BY <1>6, EnvironmentRefines
    DEF Environment, SetPeriod, SetLock, Unarchive, SetFiscalYear, SetProtective, Crash
<1>7. QED
    BY <1>1, <1>2, <1>3, <1>4, <1>5, <1>6 DEF Next

LEMMA InitRefines == Init => Abstract!Init
<1> SUFFICES ASSUME Init PROVE Abstract!Init
    OBVIOUS
<1>1. JournalView = [e \in Entries |-> Abstract!NoEntry]
    <2>1. View(AbsentRow) = Abstract!NoEntry
        BY DEF View, AbsentRow, Abstract!NoEntry
    <2>2. QED
        BY <2>1 DEF JournalView, Init
<1>2. QED
    BY <1>1 DEF Init, Abstract!Init, AcceptingPeriods

\* Whatever requests interleave and wherever they are evicted, a caller of the
\* journal sees operations that take effect in one step, under the conditions
\* Books states.
THEOREM LedgerImplementsBooks == Spec => ImplementsBooks
<1>1. IInv /\ [Next]_vars =>
         [Abstract!Next]_<<Abstract!journalVars, AcceptingPeriods>>
    BY NextRefines DEF BooksStep, BooksUnseen, Abstract!journalVars
<1>2. QED
    BY <1>1, InitRefines, Invariant, PTL DEF Spec, ImplementsBooks, Abstract!Spec
=============================================================================
