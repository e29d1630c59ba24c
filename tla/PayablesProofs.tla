--------------------------- MODULE PayablesProofs ---------------------------
(***************************************************************************)
(* For any number of bills, payments, actors and requests: no bill is      *)
(* approved, posted or paid without the approval of someone other than the *)
(* one who entered it, what a bill has paid and due is what the posted     *)
(* payments leave of it, and the control account in the journal agrees up  *)
(* to what staff have posted and reversed themselves.                      *)
(*                                                                         *)
(* The decision is recorded in one step and acted upon in a later one, and *)
(* a payment that is voided gives its bills a status from the ledger: the  *)
(* invariant follows the approval from one to the other, and keeps the     *)
(* bills of a posted payment in the ledger.                                *)
(***************************************************************************)
EXTENDS PayablesProperties, BooksProofs, SumTheorems

BillRow == [status : BillStatus, paid : Int, due : Int, version : Nat,
            creator : Actors \cup {None}]
PaymentRow == [status : PaymentStatus, amounts : [Bills -> Int], version : Nat,
               entry : Entries \cup {None}]
Local == [pc : PC, document : Bills \cup Payments \cup {None}, version : Nat,
          entry : Entries \cup {None}, date : Dates \cup {None}]

TablesTyped == bills \in [Bills -> BillRow] /\ payments \in [Payments -> PaymentRow]

\* Someone other than who entered it has approved the bill.
Independent(b) ==
    \E d \in decisions : d.bill = b /\ d.decision = "approved" /\ d.actor # bills[b].creator

InApproval(b) == bills[b].status = "approved" \/ InLedger(b)

\* A payment with an entry has been posted, whether it was voided since or not.
PaidInLedger ==
    \A p \in Payments :
        /\ payments[p].status = "posted" => payments[p].entry # None
        /\ payments[p].status = "absent" => payments[p].entry = None
        /\ payments[p].entry # None => \A b \in PaidBy(p) : InLedger(b)

\* Where the reversal of a posted payment is under way.
Reversing == {"reverse", "read_link", "find_reversal", "create_reversal"}
Voiding == Reversing \cup {"read_pending", "void"}

\* What a request has read of its document still holds when it acts.
Knows(r) ==
    /\ req[r].pc \in {"approved", "rejected"} =>
          req[r].document \in Bills /\ bills[req[r].document].status # "absent"
    /\ req[r].pc = "approved" => Independent(req[r].document)
    /\ req[r].pc \in {"read_bills", "find", "create"} => req[r].document \in Bills \cup Payments
    /\ req[r].pc \in {"post", "void"} => req[r].entry \in Entries
    /\ req[r].pc \in Voiding \cup {"void_unposted"} => req[r].document \in Payments
    /\ req[r].pc \in Voiding => payments[req[r].document].entry # None

ApprovalInv ==
    /\ TablesTyped
    /\ ApprovedByAnother
    /\ PaidInLedger
    /\ req \in [Requests -> Local]
    /\ \A r \in Requests : Knows(r)

\* What no step undoes: a bill stays in approval or in the ledger, keeps who entered
\* it, and a payment keeps having an entry.
TablesStep ==
    /\ \A b \in Bills : bills[b].status # "absent" =>
          bills'[b].status # "absent" /\ bills'[b].creator = bills[b].creator
    /\ decisions \subseteq decisions'
    /\ \A p \in Payments : payments[p].entry # None => payments'[p].entry # None

-----------------------------------------------------------------------------

LEMMA KnowsStays ==
    ASSUME ApprovalInv, TablesStep, NEW r \in Requests, req'[r] = req[r]
    PROVE  Knows(r)'
<1>1. ASSUME NEW b \in Bills, bills[b].status # "absent", Independent(b)
      PROVE  Independent(b)'
  BY <1>1 DEF Independent, TablesStep
<1>2. Knows(r)
  BY DEF ApprovalInv
<1>. QED
  BY <1>1, <1>2 DEF Voiding, Reversing, Knows, TablesStep

\* The request of a step goes on with what it knows, the others with what they knew.
LEMMA RequestMoves ==
    ASSUME ApprovalInv, TablesStep, TablesTyped', ApprovedByAnother', PaidInLedger',
           NEW r \in Requests, NEW local \in Local, Become(r, local), Knows(r)'
    PROVE  ApprovalInv'
<1>1. req' \in [Requests -> Local] /\ \A x \in Requests : x # r => req'[x] = req[x]
  BY DEF ApprovalInv, Become
<1>2. \A x \in Requests : Knows(x)'
  BY <1>1, KnowsStays
<1>. QED
  BY <1>1, <1>2 DEF ApprovalInv

\* A step that leaves the tables of payables alone.
LEMMA TablesStay ==
    ASSUME ApprovalInv, UNCHANGED tables
    PROVE  TablesStep /\ TablesTyped' /\ ApprovedByAnother' /\ PaidInLedger'
<1>1. TablesStep /\ TablesTyped'
  BY DEF ApprovalInv, tables, TablesStep, TablesTyped
<1>2. ApprovedByAnother'
  BY DEF ApprovalInv, tables, ApprovedByAnother, InLedger, Payable
<1>3. PaidInLedger'
  BY DEF ApprovalInv, tables, PaidInLedger, PaidBy, InLedger, Payable
<1>. QED
  BY <1>1, <1>2, <1>3

LEMMA RequestsStay ==
    ASSUME ApprovalInv, TablesStep, TablesTyped', ApprovedByAnother', PaidInLedger',
           UNCHANGED req
    PROVE  ApprovalInv'
<1>1. \A x \in Requests : Knows(x)'
  BY KnowsStays
<1>. QED
  BY <1>1 DEF ApprovalInv

\* Returning is always possible, and a refusal changes nothing else.
LEMMA ReturnMoves ==
    ASSUME ApprovalInv, TablesStep, TablesTyped', ApprovedByAnother', PaidInLedger',
           NEW r \in Requests, Return(r)
    PROVE  ApprovalInv'
<1>1. Idle \in Local /\ Become(r, Idle) /\ Idle.pc = "idle"
  BY DEF Idle, Local, PC, Return
<1>2. req'[r] = Idle
  BY <1>1 DEF Become, ApprovalInv
<1>3. Knows(r)'
  BY <1>1, <1>2 DEF Voiding, Reversing, Knows
<1>. QED
  BY <1>1, <1>3, RequestMoves

LEMMA RefuseKeeps ==
    ASSUME ApprovalInv, NEW r \in Requests, Refuse(r)
    PROVE  ApprovalInv'
BY TablesStay, ReturnMoves DEF Refuse

\* A step that only moves a request.
LEMMA ReadingKeeps ==
    ASSUME ApprovalInv, UNCHANGED tables, NEW r \in Requests, NEW local \in Local,
           Become(r, local), Knows(r)'
    PROVE  ApprovalInv'
BY TablesStay, RequestMoves

-----------------------------------------------------------------------------
(* Bills.                                                                  *)

\* A step of the bills keeps the invariant when no bill is lost, none leaves the ledger
\* and none enters approval or the ledger without an approval.
LEMMA BillsStep ==
    ASSUME ApprovalInv, TablesTyped', decisions \subseteq decisions',
           \A b \in Bills : bills[b].status # "absent" =>
               bills'[b].status # "absent" /\ bills'[b].creator = bills[b].creator,
           \A b \in Bills : InApproval(b)' => bills[b].status # "absent" /\ Independent(b),
           \A p \in Payments : payments[p].entry # None => payments'[p].entry # None
    PROVE  TablesStep /\ ApprovedByAnother'
<1>1. TablesStep
  BY DEF TablesStep
<1>2. \A b \in Bills : InApproval(b)' => Independent(b)'
  BY DEF Independent
<1>3. ApprovedByAnother'
  BY <1>2 DEF ApprovedByAnother, InApproval, Independent
<1>. QED
  BY <1>1, <1>3

\* A bill that changes its status before it is in the ledger.
LEMMA MoveKeeps ==
    ASSUME ApprovalInv, NEW b \in Bills, NEW to \in {"submitted", "approved", "rejected", "posted"},
           bills[b].status \in {"draft", "submitted", "approved"}, Move(b, to),
           to \in {"approved", "posted"} => Independent(b),
           UNCHANGED <<decisions, payments>>
    PROVE  TablesStep /\ TablesTyped' /\ ApprovedByAnother' /\ PaidInLedger'
<1>1. bills \in [Bills -> BillRow] /\ bills[b] \in BillRow
  BY DEF ApprovalInv, TablesTyped
<1>2. bills' \in [Bills -> BillRow]
  BY <1>1 DEF Move, BillRow, BillStatus
<1>3. bills'[b].status = to /\ bills'[b].creator = bills[b].creator
  BY <1>1 DEF Move, BillRow
<1>5. \A x \in Bills : x # b => bills'[x] = bills[x]
  BY <1>1 DEF Move
<1>6. TablesTyped'
  BY <1>2 DEF ApprovalInv, TablesTyped
<1>7. \A x \in Bills : bills[x].status # "absent" =>
          bills'[x].status # "absent" /\ bills'[x].creator = bills[x].creator
  BY <1>3, <1>5
<1>8. \A x \in Bills : InApproval(x)' => bills[x].status # "absent" /\ Independent(x)
  <2>1. \A x \in Bills : InApproval(x) => bills[x].status # "absent" /\ Independent(x)
    BY DEF ApprovalInv, ApprovedByAnother, InApproval, InLedger, Payable, Independent
  <2>2. InApproval(b)' => to \in {"approved", "posted"}
    BY <1>3, <1>5 DEF InApproval, InLedger, Payable
  <2>3. \A x \in Bills : x # b => (InApproval(x)' <=> InApproval(x))
    BY <1>5 DEF InApproval, InLedger, Payable
  <2>. QED
    BY <2>1, <2>2, <2>3
<1>9. PaidInLedger'
  <2>1. \A x \in Bills : InLedger(x) => InLedger(x)'
    BY <1>5 DEF InLedger, Payable
  <2>. QED
    BY <2>1 DEF ApprovalInv, PaidInLedger, PaidBy
<1>. QED
  BY <1>6, <1>7, <1>8, <1>9, BillsStep

LEMMA CreateBillKeeps ==
    ASSUME ApprovalInv, DocumentsAssumption, NEW r \in Requests, CreateBill(r)
    PROVE  ApprovalInv'
<1>1. PICK b \in Bills, a \in Actors :
          /\ bills[b].status = "absent"
          /\ bills' = [bills EXCEPT ![b] = [status |-> "draft", paid |-> 0, due |-> Totals[b],
                                            version |-> 1, creator |-> a]]
  BY DEF CreateBill
<1>. DEFINE row == [status |-> "draft", paid |-> 0, due |-> Totals[b], version |-> 1, creator |-> a]
<1>2. row \in BillRow /\ row.status = "draft"
  BY DEF BillRow, BillStatus, DocumentsAssumption
<1>3. bills' = [bills EXCEPT ![b] = row]
  BY <1>1
<1>. HIDE DEF row
<1>4. bills' \in [Bills -> BillRow] /\ bills'[b] = row /\ \A x \in Bills : x # b => bills'[x] = bills[x]
  BY <1>2, <1>3 DEF ApprovalInv, TablesTyped
<1>5. TablesTyped' /\ UNCHANGED <<decisions, payments, req>>
  BY <1>4 DEF ApprovalInv, TablesTyped, CreateBill
<1>6. \A x \in Bills : bills[x].status # "absent" =>
          bills'[x].status # "absent" /\ bills'[x].creator = bills[x].creator
  BY <1>1, <1>4
<1>7. \A x \in Bills : InApproval(x)' => bills[x].status # "absent" /\ Independent(x)
  BY <1>2, <1>4 DEF ApprovalInv, ApprovedByAnother, InApproval, InLedger, Payable, Independent
<1>8. PaidInLedger'
  <2>1. \A x \in Bills : InLedger(x) => InLedger(x)'
    BY <1>1, <1>4 DEF InLedger, Payable
  <2>. QED
    BY <1>5, <2>1 DEF ApprovalInv, PaidInLedger, PaidBy
<1>. QED
  BY <1>5, <1>6, <1>7, <1>8, BillsStep, RequestsStay

LEMMA SubmitBillKeeps ==
    ASSUME ApprovalInv, NEW r \in Requests, SubmitBill(r)
    PROVE  ApprovalInv'
BY MoveKeeps, RequestsStay DEF SubmitBill, MayMove

\* The decision is recorded, and the request knows of the approval.
LEMMA DecideKeeps ==
    ASSUME ApprovalInv, NEW r \in Requests, NEW decision \in {"approved", "rejected"},
           Decide(r, decision)
    PROVE  ApprovalInv'
<1>1. PICK b \in Bills, a \in Actors :
          /\ MayDecide(b, a, decision)
          /\ decisions' = decisions \cup {[bill |-> b, actor |-> a, decision |-> decision]}
          /\ Become(r, [Idle EXCEPT !.pc = decision, !.document = b, !.version = bills[b].version])
  BY DEF Decide
<1>. DEFINE local == [Idle EXCEPT !.pc = decision, !.document = b, !.version = bills[b].version]
<1>2. local \in Local /\ local.pc = decision /\ local.document = b
  BY DEF Idle, Local, PC, ApprovalInv, TablesTyped, BillRow
<1>3. Become(r, local)
  BY <1>1
<1>. HIDE DEF local
<1>4. req'[r] = local
  BY <1>3 DEF ApprovalInv, Become
<1>5. UNCHANGED <<bills, payments>> /\ TablesTyped'
  BY DEF Decide, ApprovalInv, TablesTyped
<1>6. TablesStep /\ ApprovedByAnother'
  <2>1. \A x \in Bills : InApproval(x)' => bills[x].status # "absent" /\ Independent(x)
    BY <1>5 DEF ApprovalInv, ApprovedByAnother, InApproval, InLedger, Payable, Independent
  <2>. QED
    BY <1>1, <1>5, <2>1, BillsStep
<1>7. PaidInLedger'
  BY <1>5 DEF ApprovalInv, PaidInLedger, PaidBy, InLedger, Payable
<1>8. decision = "approved" => Independent(b)'
  <2>1. ASSUME decision = "approved"
        PROVE  Independent(b)'
    <3>. DEFINE d == [bill |-> b, actor |-> a, decision |-> decision]
    <3>1. d \in decisions' /\ d.bill = b /\ d.actor = a /\ d.decision = "approved"
      BY <1>1, <2>1
    <3>2. a # bills'[b].creator
      BY <1>1, <1>5, <2>1 DEF MayDecide
    <3>. HIDE DEF d
    <3>. QED
      BY <3>1, <3>2 DEF Independent
  <2>. QED
    BY <2>1
<1>9. Knows(r)'
  BY <1>1, <1>2, <1>4, <1>5, <1>8 DEF Voiding, Reversing, Knows, MayDecide
<1>. QED
  BY <1>2, <1>3, <1>5, <1>6, <1>7, <1>9, RequestMoves

LEMMA ApplyDecisionKeeps ==
    ASSUME ApprovalInv, NEW r \in Requests, NEW decision \in {"approved", "rejected"},
           ApplyDecision(r, decision)
    PROVE  ApprovalInv'
<1>. DEFINE b == req[r].document
<1>1. b \in Bills /\ (decision = "approved" => Independent(b))
  BY DEF ApprovalInv, Knows, Voiding, Reversing, ApplyDecision, At
<1>2. CASE MayMove(b, req[r].version, "submitted") /\ Move(b, decision) /\ Return(r)
           /\ UNCHANGED <<books, decisions, payments>>
  BY <1>1, <1>2, MoveKeeps, ReturnMoves DEF MayMove
<1>3. CASE Refuse(r)
  BY <1>3, RefuseKeeps
<1>. QED
  BY <1>2, <1>3 DEF ApplyDecision

\* The guard of the batch lets only an approved bill into the ledger.
LEMMA PostBillKeeps ==
    ASSUME ApprovalInv, NEW r \in Requests, PostBill(r)
    PROVE  ApprovalInv'
<1>. DEFINE b == req[r].document
<1>1. CASE BillGuard(b, req[r].version) /\ Move(b, "posted") /\ Return(r)
           /\ UNCHANGED <<decisions, payments>>
  <2>1. b \in Bills /\ bills[b].status = "approved" /\ Independent(b)
    BY <1>1 DEF PostBill, BillGuard, ApprovalInv, ApprovedByAnother, Independent
  <2>. QED
    BY <1>1, <2>1, MoveKeeps, ReturnMoves
<1>2. CASE Refuse(r)
  BY <1>2, RefuseKeeps
<1>. QED
  BY <1>1, <1>2 DEF PostBill

-----------------------------------------------------------------------------
(* Payments.                                                               *)

\* A step in which payments change the bills of the ledger, and only those.
LEMMA LedgerStep ==
    ASSUME ApprovalInv, bills' \in [Bills -> BillRow], payments' \in [Payments -> PaymentRow],
           UNCHANGED decisions,
           \A b \in Bills : bills'[b].creator = bills[b].creator,
           \A b \in Bills : bills'[b] = bills[b] \/ (InLedger(b) /\ InLedger(b)'),
           \A p \in Payments : payments[p].entry # None => payments'[p].entry # None
    PROVE  TablesStep /\ TablesTyped' /\ ApprovedByAnother'
<1>1. TablesTyped'
  BY DEF TablesTyped
<1>2. \A b \in Bills : InApproval(b) => bills[b].status # "absent" /\ Independent(b)
  BY DEF ApprovalInv, ApprovedByAnother, InApproval, InLedger, Payable, Independent
<1>3. \A b \in Bills : InApproval(b)' => InApproval(b)
  BY DEF InApproval, InLedger, Payable
<1>4. \A b \in Bills : bills[b].status # "absent" => bills'[b].status # "absent"
  BY DEF InLedger, Payable
<1>. QED
  BY <1>1, <1>2, <1>3, <1>4, BillsStep

\* A payment keeps what it applies, and bills in the ledger stay there.
LEMMA PaidInLedgerStays ==
    ASSUME ApprovalInv, UNCHANGED bills \/ \A b \in Bills : InLedger(b) => InLedger(b)',
           NEW p \in Payments, \A q \in Payments : q # p => payments'[q] = payments[q],
           payments'[p].entry # None =>
               payments'[p].amounts = payments[p].amounts /\ \A b \in PaidBy(p) : InLedger(b)',
           payments'[p].status = "posted" => payments'[p].entry # None,
           payments'[p].status # "absent"
    PROVE  PaidInLedger'
<1>1. \A b \in Bills : InLedger(b) => InLedger(b)'
  BY DEF InLedger, Payable
<1>. QED
  BY <1>1 DEF ApprovalInv, PaidInLedger, PaidBy

LEMMA CreatePaymentKeeps ==
    ASSUME ApprovalInv, DocumentsAssumption, NEW r \in Requests, CreatePayment(r)
    PROVE  ApprovalInv'
<1>1. PICK p \in Payments, amounts \in Applications :
          /\ payments[p].status = "absent"
          /\ payments' = [payments EXCEPT ![p] =
                [status |-> "approved", amounts |-> amounts, version |-> 1, entry |-> None]]
  BY DEF CreatePayment
<1>. DEFINE row == [status |-> "approved", amounts |-> amounts, version |-> 1, entry |-> None]
<1>2. amounts \in [Bills -> Int]
  <2>1. amounts \in [Bills -> Nat]
    BY DEF DocumentsAssumption
  <2>. QED
    BY <2>1
<1>3. row \in PaymentRow /\ row.status = "approved" /\ row.entry = None
  BY <1>2 DEF PaymentRow, PaymentStatus
<1>4. payments' = [payments EXCEPT ![p] = row]
  BY <1>1
<1>. HIDE DEF row
<1>5. /\ payments' \in [Payments -> PaymentRow] /\ payments'[p] = row
      /\ \A q \in Payments : q # p => payments'[q] = payments[q]
  BY <1>3, <1>4 DEF ApprovalInv, TablesTyped
<1>6. UNCHANGED <<bills, decisions, req>>
  BY DEF CreatePayment
<1>7. \A q \in Payments : payments[q].entry # None => payments'[q].entry # None
  BY <1>1, <1>5 DEF ApprovalInv, PaidInLedger
<1>8. TablesStep /\ TablesTyped' /\ ApprovedByAnother'
  BY <1>5, <1>6, <1>7, LedgerStep DEF ApprovalInv, TablesTyped
<1>9. PaidInLedger'
  BY <1>3, <1>5, <1>6, PaidInLedgerStays
<1>. QED
  BY <1>6, <1>8, <1>9, RequestsStay

LEMMA MarkVoidedRow ==
    ASSUME ApprovalInv, NEW p \in Payments, MarkVoided(p)
    PROVE  /\ payments' \in [Payments -> PaymentRow]
           /\ payments'[p].status = "voided" /\ payments'[p].entry = payments[p].entry
           /\ payments'[p].amounts = payments[p].amounts
           /\ \A q \in Payments : q # p => payments'[q] = payments[q]
<1>1. payments \in [Payments -> PaymentRow] /\ payments[p] \in PaymentRow
  BY DEF ApprovalInv, TablesTyped
<1>2. payments' \in [Payments -> PaymentRow]
  BY <1>1 DEF MarkVoided, PaymentRow, PaymentStatus
<1>3. /\ payments'[p].status = "voided" /\ payments'[p].entry = payments[p].entry
      /\ payments'[p].amounts = payments[p].amounts
  BY <1>1 DEF MarkVoided, PaymentRow
<1>4. \A q \in Payments : q # p => payments'[q] = payments[q]
  BY <1>1 DEF MarkVoided
<1>. QED
  BY <1>2, <1>3, <1>4

\* The row that posting leaves, one column at a time.
LEMMA PostedRow ==
    ASSUME ApprovalInv, NEW p \in Payments, NEW e \in Entries,
           payments' = [payments EXCEPT ![p].status = "posted", ![p].entry = e,
                                        ![p].version = @ + 1]
    PROVE  /\ payments' \in [Payments -> PaymentRow]
           /\ payments'[p].status = "posted" /\ payments'[p].entry = e
           /\ payments'[p].amounts = payments[p].amounts
           /\ \A q \in Payments : q # p => payments'[q] = payments[q]
<1>. DEFINE one == [payments EXCEPT ![p].status = "posted"]
            two == [one EXCEPT ![p].entry = e]
<1>1. payments \in [Payments -> PaymentRow] /\ payments[p] \in PaymentRow
  BY DEF ApprovalInv, TablesTyped
<1>2. /\ one \in [Payments -> PaymentRow] /\ one[p].status = "posted"
      /\ one[p].amounts = payments[p].amounts /\ one[p].version = payments[p].version
      /\ \A q \in Payments : q # p => one[q] = payments[q]
  BY <1>1 DEF PaymentRow, PaymentStatus
<1>3. payments' = [two EXCEPT ![p].version = payments[p].version + 1]
  BY <1>1, <1>2 DEF PaymentRow
<1>. HIDE DEF one
<1>4. /\ two \in [Payments -> PaymentRow] /\ two[p].status = "posted" /\ two[p].entry = e
      /\ two[p].amounts = payments[p].amounts
      /\ \A q \in Payments : q # p => two[q] = payments[q]
  BY <1>2 DEF PaymentRow
<1>. HIDE DEF two
<1>. QED
  BY <1>1, <1>3, <1>4 DEF PaymentRow

\* Reducing and restoring leave a bill in the ledger.
LEMMA AmountRows ==
    ASSUME NEW row \in BillRow, NEW amount \in Int
    PROVE  /\ Reduce(row, amount) \in BillRow /\ Restore(row, amount) \in BillRow
           /\ Reduce(row, amount).creator = row.creator
           /\ Restore(row, amount).creator = row.creator
           /\ Reduce(row, amount).status \in {"paid", "partially_paid"}
           /\ Restore(row, amount).status \in {"posted", "partially_paid"}
<1>1. Reduce(row, amount) \in BillRow
  <2>. DEFINE status == IF row.due = amount THEN "paid" ELSE "partially_paid"
              one == [row EXCEPT !.paid = row.paid + amount]
              two == [one EXCEPT !.due = row.due - amount]
              three == [two EXCEPT !.version = row.version + 1]
  <2>1. status \in BillStatus
    BY DEF BillStatus
  <2>2. Reduce(row, amount) = [three EXCEPT !.status = status]
    BY DEF Reduce, BillRow
  <2>. HIDE DEF status
  <2>3. one \in BillRow
    BY DEF BillRow
  <2>. HIDE DEF one
  <2>4. two \in BillRow
    BY <2>3 DEF BillRow
  <2>. HIDE DEF two
  <2>5. three \in BillRow
    BY <2>4 DEF BillRow
  <2>. HIDE DEF three
  <2>. QED
    BY <2>1, <2>2, <2>5 DEF BillRow
<1>2. Restore(row, amount) \in BillRow
  <2>. DEFINE status == IF row.paid = amount THEN "posted" ELSE "partially_paid"
              one == [row EXCEPT !.paid = row.paid - amount]
              two == [one EXCEPT !.due = row.due + amount]
              three == [two EXCEPT !.version = row.version + 1]
  <2>1. status \in BillStatus
    BY DEF BillStatus
  <2>2. Restore(row, amount) = [three EXCEPT !.status = status]
    BY DEF Restore, BillRow
  <2>. HIDE DEF status
  <2>3. one \in BillRow
    BY DEF BillRow
  <2>. HIDE DEF one
  <2>4. two \in BillRow
    BY <2>3 DEF BillRow
  <2>. HIDE DEF two
  <2>5. three \in BillRow
    BY <2>4 DEF BillRow
  <2>. HIDE DEF three
  <2>. QED
    BY <2>1, <2>2, <2>5 DEF BillRow
<1>3. /\ Reduce(row, amount).creator = row.creator
      /\ Reduce(row, amount).status \in {"paid", "partially_paid"}
  BY DEF Reduce, BillRow
<1>4. /\ Restore(row, amount).creator = row.creator
      /\ Restore(row, amount).status \in {"posted", "partially_paid"}
  BY DEF Restore, BillRow
<1>. QED
  BY <1>1, <1>2, <1>3, <1>4

\* The bills of a payment are in the ledger when it is posted and when it is voided.
LEMMA AmountsApplied ==
    ASSUME ApprovalInv, NEW p \in Payments, \A b \in PaidBy(p) : InLedger(b),
           ApplyPayment(p) \/ RestoreBills(p)
    PROVE  /\ bills' \in [Bills -> BillRow]
           /\ \A b \in Bills : bills'[b].creator = bills[b].creator
           /\ \A b \in Bills : bills'[b] = bills[b] \/ (InLedger(b) /\ InLedger(b)')
           /\ \A b \in Bills : InLedger(b) => InLedger(b)'
<1>1. \A b \in Bills : bills[b] \in BillRow /\ payments[p].amounts[b] \in Int
  BY DEF ApprovalInv, TablesTyped, PaymentRow
<1>2. ASSUME NEW b \in Bills
      PROVE  /\ bills'[b] \in BillRow /\ bills'[b].creator = bills[b].creator
             /\ bills'[b] = bills[b] \/ (b \in PaidBy(p) /\ InLedger(b)')
  <2>1. CASE b \in PaidBy(p)
    <3>1. bills'[b] = Reduce(bills[b], payments[p].amounts[b])
          \/ bills'[b] = Restore(bills[b], payments[p].amounts[b])
      BY <2>1 DEF ApplyPayment, RestoreBills
    <3>2. /\ bills'[b] \in BillRow /\ bills'[b].creator = bills[b].creator
          /\ bills'[b].status \in {"paid", "partially_paid", "posted"}
      BY <1>1, <3>1, AmountRows
    <3>. QED
      BY <2>1, <3>2 DEF InLedger, Payable
  <2>2. CASE b \notin PaidBy(p)
    BY <1>1, <2>2 DEF ApplyPayment, RestoreBills
  <2>. QED
    BY <2>1, <2>2
<1>3. bills' \in [Bills -> BillRow]
  BY <1>2 DEF ApplyPayment, RestoreBills
<1>4. \A b \in Bills : bills'[b] = bills[b] \/ (InLedger(b) /\ InLedger(b)')
  BY <1>2
<1>5. \A b \in Bills : InLedger(b) => InLedger(b)'
  BY <1>4 DEF InLedger, Payable
<1>. QED
  BY <1>2, <1>3, <1>4, <1>5

LEMMA PostPaymentKeeps ==
    ASSUME ApprovalInv, DocumentsAssumption, NEW r \in Requests, PostPayment(r)
    PROVE  ApprovalInv'
<1>. DEFINE p == req[r].document
            e == req[r].entry
<1>1. p \in Payments /\ e \in Entries /\ e # None
  BY DEF PostPayment, At, ApprovalInv, Knows, Voiding, Reversing, DocumentsAssumption
<1>. HIDE DEF p, e
<1>2. CASE Refuse(r)
  BY <1>2, RefuseKeeps
<1>3. CASE /\ Accepted(p) /\ ApplyPayment(p)
           /\ payments' = [payments EXCEPT ![p].status = "posted", ![p].entry = e,
                                           ![p].version = @ + 1]
           /\ Return(r) /\ UNCHANGED decisions
  <2>1. \A b \in PaidBy(p) : InLedger(b)
    BY <1>3 DEF Accepted, InLedger
  <2>2. /\ bills' \in [Bills -> BillRow]
        /\ \A b \in Bills : bills'[b].creator = bills[b].creator
        /\ \A b \in Bills : bills'[b] = bills[b] \/ (InLedger(b) /\ InLedger(b)')
        /\ \A b \in Bills : InLedger(b) => InLedger(b)'
    BY <1>1, <1>3, <2>1, AmountsApplied
  <2>3. /\ payments' \in [Payments -> PaymentRow]
        /\ payments'[p].status = "posted" /\ payments'[p].entry = e
        /\ payments'[p].amounts = payments[p].amounts
        /\ \A q \in Payments : q # p => payments'[q] = payments[q]
    BY <1>1, <1>3, PostedRow
  <2>7. TablesStep /\ TablesTyped' /\ ApprovedByAnother'
    BY <1>1, <1>3, <2>2, <2>3, LedgerStep
  <2>8. \A b \in PaidBy(p) : InLedger(b)'
    BY <2>1, <2>2 DEF PaidBy
  <2>9. PaidInLedger'
    BY <1>1, <2>2, <2>3, <2>8, PaidInLedgerStays
  <2>. QED
    BY <1>3, <2>7, <2>9, ReturnMoves
<1>. QED
  BY <1>2, <1>3 DEF PostPayment, p, e

LEMMA VoidUnpostedKeeps ==
    ASSUME ApprovalInv, NEW r \in Requests, VoidUnposted(r)
    PROVE  ApprovalInv'
<1>. DEFINE p == req[r].document
<1>. p \in Payments
  BY DEF VoidUnposted, At, ApprovalInv, Knows, Voiding, Reversing
<1>1. CASE MarkVoided(p) /\ Return(r) /\ UNCHANGED <<books, bills, decisions>>
  <2>1. TablesStep /\ TablesTyped' /\ ApprovedByAnother'
    BY <1>1, MarkVoidedRow, LedgerStep DEF ApprovalInv, TablesTyped
  <2>2. payments[p].entry # None => \A b \in PaidBy(p) : InLedger(b)'
    BY <1>1 DEF ApprovalInv, PaidInLedger, InLedger, Payable
  <2>3. PaidInLedger'
    BY <1>1, <2>2, MarkVoidedRow, PaidInLedgerStays
  <2>. QED
    BY <1>1, <2>1, <2>3, ReturnMoves
<1>2. CASE Refuse(r)
  BY <1>2, RefuseKeeps
<1>. QED
  BY <1>1, <1>2 DEF VoidUnposted

LEMMA VoidPostedKeeps ==
    ASSUME ApprovalInv, NEW r \in Requests, VoidPosted(r)
    PROVE  ApprovalInv'
<1>. DEFINE p == req[r].document
<1>1. p \in Payments /\ payments[p].entry # None
  BY DEF VoidPosted, At, ApprovalInv, Knows, Voiding, Reversing
<1>2. \A b \in PaidBy(p) : InLedger(b)
  BY <1>1 DEF ApprovalInv, PaidInLedger
<1>. HIDE DEF p
<1>3. CASE Refuse(r)
  BY <1>3, RefuseKeeps
<1>4. CASE MarkVoided(p) /\ RestoreBills(p) /\ Return(r) /\ UNCHANGED decisions
  <2>1. /\ bills' \in [Bills -> BillRow]
        /\ \A b \in Bills : bills'[b].creator = bills[b].creator
        /\ \A b \in Bills : bills'[b] = bills[b] \/ (InLedger(b) /\ InLedger(b)')
        /\ \A b \in Bills : InLedger(b) => InLedger(b)'
    BY <1>1, <1>2, <1>4, AmountsApplied
  <2>2. TablesStep /\ TablesTyped' /\ ApprovedByAnother'
    BY <1>1, <1>4, <2>1, MarkVoidedRow, LedgerStep
  <2>3. \A b \in PaidBy(p) : InLedger(b)'
    BY <1>2, <2>1 DEF PaidBy
  <2>4. PaidInLedger'
    BY <1>1, <1>4, <2>1, <2>3, MarkVoidedRow, PaidInLedgerStays
  <2>. QED
    BY <1>4, <2>2, <2>4, ReturnMoves
<1>. QED
  BY <1>3, <1>4 DEF VoidPosted, p

-----------------------------------------------------------------------------
(* Steps that only move a request.                                         *)

LEMMA BeginKeeps ==
    ASSUME ApprovalInv, NEW r \in Requests, Begin(r)
    PROVE  ApprovalInv' \/ CreateBill(r) \/ CreatePayment(r)
<1>1. ASSUME NEW b \in Bills, BeginPostBill(r, b)
      PROVE  ApprovalInv'
  <2>. DEFINE local == [Idle EXCEPT !.pc = "find", !.document = b, !.version = bills[b].version]
  <2>1. local \in Local /\ local.pc = "find" /\ local.document = b /\ Become(r, local)
    BY <1>1 DEF BeginPostBill, Idle, Local, PC, ApprovalInv, TablesTyped, BillRow
  <2>. HIDE DEF local
  <2>2. Knows(r)'
    BY <2>1 DEF Become, ApprovalInv, Knows, Voiding, Reversing
  <2>. QED
    BY <1>1, <2>1, <2>2, ReadingKeeps DEF BeginPostBill
<1>2. ASSUME NEW p \in Payments, BeginPostPayment(r, p)
      PROVE  ApprovalInv'
  <2>. DEFINE local == [Idle EXCEPT !.pc = "read_bills", !.document = p,
                                    !.version = payments[p].version]
  <2>1. local \in Local /\ local.pc = "read_bills" /\ local.document = p /\ Become(r, local)
    BY <1>2 DEF BeginPostPayment, Idle, Local, PC, ApprovalInv, TablesTyped, PaymentRow
  <2>. HIDE DEF local
  <2>2. Knows(r)'
    BY <2>1 DEF Become, ApprovalInv, Knows, Voiding, Reversing
  <2>. QED
    BY <1>2, <2>1, <2>2, ReadingKeeps DEF BeginPostPayment
<1>3. ASSUME NEW p \in Payments, BeginVoid(r, p)
      PROVE  ApprovalInv'
  <2>. DEFINE pc == IF payments[p].status = "posted" THEN "read_pending" ELSE "void_unposted"
              local == [Idle EXCEPT !.document = p, !.version = payments[p].version, !.pc = pc]
  <2>1. pc \in {"read_pending", "void_unposted"} /\ payments[p].version \in Nat
    BY DEF ApprovalInv, TablesTyped, PaymentRow
  <2>2. pc = "read_pending" => payments[p].entry # None
    BY DEF ApprovalInv, PaidInLedger
  <2>3. Become(r, local)
    BY <1>3 DEF BeginVoid
  <2>. HIDE DEF pc
  <2>4. local \in Local /\ local.pc = pc /\ local.document = p
    BY <2>1 DEF Idle, Local, PC
  <2>. HIDE DEF local
  <2>5. UNCHANGED tables /\ req'[r] = local
    BY <1>3, <2>3 DEF BeginVoid, Become, ApprovalInv
  <2>6. Knows(r)'
    BY <2>1, <2>2, <2>4, <2>5 DEF Voiding, Reversing, Knows, tables
  <2>. QED
    BY <2>3, <2>4, <2>5, <2>6, ReadingKeeps
<1>. QED
  BY <1>1, <1>2, <1>3, SubmitBillKeeps, DecideKeeps DEF Begin

LEMMA ReadBillsKeeps ==
    ASSUME ApprovalInv, NEW r \in Requests, ReadBills(r)
    PROVE  ApprovalInv'
<1>1. CASE Goto(r, "find") /\ UNCHANGED tables
  <2>. DEFINE local == [req[r] EXCEPT !.pc = "find"]
  <2>1. /\ local \in Local /\ local.pc = "find" /\ Become(r, local)
        /\ local.document = req[r].document
    BY <1>1 DEF Goto, Local, PC, ApprovalInv
  <2>. HIDE DEF local
  <2>2. req[r].document \in Bills \cup Payments
    BY DEF ReadBills, At, ApprovalInv, Knows, Voiding, Reversing
  <2>3. Knows(r)'
    BY <2>1, <2>2 DEF Become, ApprovalInv, Knows, Voiding, Reversing
  <2>. QED
    BY <1>1, <2>1, <2>3, ReadingKeeps
<1>. QED
  BY <1>1, RefuseKeeps DEF ReadBills

\* A request that goes on to post or to void has an entry to do it with.
LEMMA WithEntryKeeps ==
    ASSUME ApprovalInv, NEW r \in Requests, NEW e \in Entries, UNCHANGED tables,
           NEW pc \in {"post", "void"}, Become(r, [req[r] EXCEPT !.pc = pc, !.entry = e]),
           pc = "void" => req[r].pc \in Reversing
    PROVE  ApprovalInv'
<1>. DEFINE local == [req[r] EXCEPT !.pc = pc, !.entry = e]
<1>1. req[r] \in Local
  BY DEF ApprovalInv
<1>2. local \in Local
  BY <1>1 DEF Local, PC
<1>3. local.pc = pc /\ local.entry = e /\ local.document = req[r].document
  BY <1>1 DEF Local
<1>4. Become(r, local)
  OBVIOUS
<1>. HIDE DEF local
<1>5. req'[r] = local
  BY <1>4 DEF Become, ApprovalInv
<1>6. Knows(r)'
  BY <1>3, <1>5 DEF Voiding, Reversing, Knows, ApprovalInv, tables
<1>. QED
  BY <1>2, <1>4, <1>6, ReadingKeeps

LEMMA FindDraftKeeps ==
    ASSUME ApprovalInv, NEW r \in Requests, FindDraft(r)
    PROVE  ApprovalInv'
<1>1. CASE Goto(r, "create")
  <2>. DEFINE local == [req[r] EXCEPT !.pc = "create"]
  <2>1. /\ local \in Local /\ local.pc = "create" /\ Become(r, local)
        /\ local.document = req[r].document
    BY <1>1 DEF Goto, Local, PC, ApprovalInv
  <2>. HIDE DEF local
  <2>2. req[r].document \in Bills \cup Payments
    BY DEF FindDraft, At, ApprovalInv, Knows, Voiding, Reversing
  <2>3. Knows(r)'
    BY <2>1, <2>2 DEF Become, ApprovalInv, Knows, Voiding, Reversing
  <2>. QED
    BY <2>1, <2>3, ReadingKeeps DEF FindDraft
<1>2. ASSUME NEW e \in Unfinished(req[r].document),
             Become(r, [req[r] EXCEPT !.pc = "post", !.entry = e])
      PROVE  ApprovalInv'
  <2>1. e \in Entries
    BY DEF Unfinished, DraftsOf, EntriesOf
  <2>. QED
    BY <1>2, <2>1, WithEntryKeeps DEF FindDraft
<1>. QED
  BY <1>1, <1>2 DEF FindDraft

LEMMA FreshInEntries ==
    ASSUME IdsLeft
    PROVE  FreshId \in Entries
BY DEF IdsLeft, FreshId

LEMMA CreateDraftKeeps ==
    ASSUME ApprovalInv, NEW r \in Requests, CreateDraft(r)
    PROVE  ApprovalInv'
<1>1. FreshId \in Entries
  BY FreshInEntries DEF CreateDraft
<1>2. CASE Become(r, [req[r] EXCEPT !.pc = "post", !.entry = FreshId]) /\ UNCHANGED tables
  BY <1>1, <1>2, WithEntryKeeps
<1>. QED
  BY <1>2, RefuseKeeps DEF CreateDraft

LEMMA ReadPendingKeeps ==
    ASSUME ApprovalInv, JournalInv, NEW r \in Requests, ReadPending(r)
    PROVE  ApprovalInv'
<1>. DEFINE original == payments[req[r].document].entry
<1>1. PICK today \in Dates : \E date \in ReversalDate(original, today) :
          Become(r, [req[r] EXCEPT !.pc = "reverse", !.date = date])
  BY DEF ReadPending
<1>2. PICK date \in ReversalDate(original, today) :
          Become(r, [req[r] EXCEPT !.pc = "reverse", !.date = date])
  BY <1>1
<1>3. date \in Dates \cup {None}
  BY DEF ReversalDate, DraftsOf, EntriesOf, JournalInv, EntryRow
<1>. DEFINE local == [req[r] EXCEPT !.pc = "reverse", !.date = date]
<1>4. req[r] \in Local
  BY DEF ApprovalInv
<1>5. local \in Local
  BY <1>3, <1>4 DEF Local, PC
<1>6. local.pc = "reverse" /\ local.document = req[r].document
  BY <1>4 DEF Local
<1>7. Become(r, local)
  BY <1>2
<1>. HIDE DEF local
<1>8. req'[r] = local /\ UNCHANGED tables
  BY <1>7 DEF Become, ApprovalInv, ReadPending
<1>9. Knows(r)'
  BY <1>6, <1>8 DEF Voiding, Reversing, Knows, ApprovalInv, ReadPending, At, tables
<1>. QED
  BY <1>5, <1>7, <1>8, <1>9, ReadingKeeps

\* A reversal goes on from one await to the next.
LEMMA GoOnKeeps ==
    ASSUME ApprovalInv, NEW r \in Requests, req[r].pc \in Reversing, UNCHANGED tables,
           NEW pc \in Reversing, Goto(r, pc)
    PROVE  ApprovalInv'
<1>. DEFINE local == [req[r] EXCEPT !.pc = pc]
<1>1. /\ local \in Local /\ local.pc = pc /\ Become(r, local)
      /\ local.document = req[r].document
  BY DEF Goto, Local, PC, ApprovalInv, Reversing
<1>. HIDE DEF local
<1>2. req'[r] = local
  BY <1>1 DEF Become, ApprovalInv
<1>3. Knows(r)'
  BY <1>1, <1>2 DEF Knows, Voiding, Reversing, ApprovalInv, tables
<1>. QED
  BY <1>1, <1>3, ReadingKeeps

LEMMA FindReversalKeeps ==
    ASSUME ApprovalInv, NEW r \in Requests,
           \/ ReadOriginal(r, "reverse", "read_link")
           \/ ReadOriginal(r, "read_link", "find_reversal")
           \/ FindReversal(r) \/ CreateReversal(r)
    PROVE  ApprovalInv'
<1>1. ASSUME NEW e \in Entries, Become(r, [req[r] EXCEPT !.pc = "void", !.entry = e]),
             UNCHANGED tables, req[r].pc \in Reversing
      PROVE  ApprovalInv'
  BY <1>1, WithEntryKeeps
<1>2. IdsLeft => FreshId \in Entries
  BY FreshInEntries
<1>3. \A o : DraftsOf(o) \subseteq Entries
  BY DEF DraftsOf, EntriesOf
<1>4. ASSUME NEW pc, NEW next \in Reversing, pc \in Reversing, ReadOriginal(r, pc, next)
      PROVE  ApprovalInv'
  BY <1>4, GoOnKeeps, RefuseKeeps DEF ReadOriginal, At
<1>5. CASE FindReversal(r)
  <2>1. req[r].pc \in Reversing /\ "create_reversal" \in Reversing
    BY <1>5 DEF FindReversal, At, Reversing
  <2>. QED
    BY <1>1, <1>3, <1>5, <2>1, GoOnKeeps, RefuseKeeps DEF FindReversal
<1>6. CASE CreateReversal(r)
  <2>1. req[r].pc \in Reversing
    BY <1>6 DEF CreateReversal, At, Reversing
  <2>. QED
    BY <1>1, <1>2, <1>6, <2>1, RefuseKeeps DEF CreateReversal
<1>. QED
  BY <1>4, <1>5, <1>6 DEF Reversing

-----------------------------------------------------------------------------
(* The journal.                                                            *)

\* So do staff: what they change is a draft, what they reverse stays in the books.
LEMMA StaffJournal ==
    ASSUME JournalInv, DocumentsAssumption, NEW e \in Entries, Staff(e)
    PROVE  JournalInv' /\ JournalStep
<1>1. CASE StaffEdit(e) \/ Remove(e) \/ Void(e) \/ \E k \in StaffKeys : Post(e, k, RequestHash)
  BY <1>1, EditKeeps, RemoveKeeps, VoidKeeps, PostKeeps DEF StaffEdit
<1>2. CASE StaffReverse(e)
  BY <1>2, ReverseKeeps DEF StaffReverse
<1>3. CASE StaffDraftReversal(e)
  <2>1. PICK o \in Entries, date \in Dates : Draft(e, date, o)
    BY <1>3 DEF StaffDraftReversal, DraftFor
  <2>. QED
    BY <2>1, DraftKeeps DEF DocumentsAssumption
<1>. QED
  BY <1>1, <1>2, <1>3 DEF Staff

\* Payables change the journal by its operations only.
LEMMA JournalKeeps ==
    ASSUME ApprovalInv, JournalInv, DocumentsAssumption, PayablesNext
    PROVE  JournalInv' /\ JournalStep
<1>1. CASE UNCHANGED journal
  BY <1>1, UnchangedJournal
<1>2. ASSUME NEW r \in Requests, CreateDraft(r)
      PROVE  JournalInv' /\ JournalStep
  <2>1. CASE IdsLeft /\ Draft(FreshId, DateOf[req[r].document], req[r].document)
    <3>1. req[r].document \in Bills \cup Payments
      BY <1>2 DEF CreateDraft, At, ApprovalInv, Knows, Voiding, Reversing
    <3>2. DateOf[req[r].document] \in Dates \cup {None} /\ req[r].document \in Sources \cup {None}
      BY <3>1 DEF DocumentsAssumption
    <3>. QED
      BY <2>1, <3>2, FreshInEntries, DraftKeeps
  <2>. QED
    BY <1>1, <1>2, <2>1 DEF CreateDraft, DraftFor, Refuse, books, journalVars
<1>3. ASSUME NEW r \in Requests, CreateReversal(r)
      PROVE  JournalInv' /\ JournalStep
  <2>. DEFINE o == payments[req[r].document].entry
  <2>1. CASE IdsLeft /\ Draft(FreshId, req[r].date, o)
    <3>1. o \in Sources \cup {None} /\ req[r].date \in Dates \cup {None}
      BY <1>3 DEF CreateReversal, At, ApprovalInv, Knows, Voiding, Reversing, TablesTyped,
                  PaymentRow, Local, DocumentsAssumption
    <3>. QED
      BY <2>1, <3>1, FreshInEntries, DraftKeeps
  <2>. QED
    BY <1>1, <1>3, <2>1 DEF CreateReversal, DraftFor, Refuse, books, journalVars
<1>4. ASSUME NEW r \in Requests, PostBill(r) \/ PostPayment(r)
      PROVE  JournalInv' /\ JournalStep
  <2>1. req[r].entry \in Entries
    BY <1>4 DEF PostBill, PostPayment, At, ApprovalInv, Knows, Voiding, Reversing
  <2>. QED
    BY <1>1, <1>4, <2>1, PostKeeps DEF PostBill, PostPayment, Refuse, books, journalVars
<1>5. ASSUME NEW r \in Requests, VoidPosted(r)
      PROVE  JournalInv' /\ JournalStep
  <2>1. CASE Refuse(r)
    BY <1>1, <2>1 DEF Refuse, books, journalVars
  <2>2. CASE Reverse(payments[req[r].document].entry, req[r].entry,
                     VoidKey(req[r].document), RequestHash)
    <3>1. payments[req[r].document].entry \in Entries /\ req[r].entry \in Entries
      BY <1>5 DEF VoidPosted, At, ApprovalInv, Knows, Voiding, Reversing, TablesTyped, PaymentRow
    <3>. QED
      BY <2>2, <3>1, ReverseKeeps
  <2>. QED
    BY <1>5, <2>1, <2>2 DEF VoidPosted
<1>6. ASSUME NEW e \in Entries, Staff(e)
      PROVE  JournalInv' /\ JournalStep
  BY <1>6, StaffJournal
<1>7. ASSUME NEW r \in Requests, Begin(r)
      PROVE  JournalInv' /\ JournalStep
  BY <1>1, <1>7 DEF Begin, CreateBill, SubmitBill, CreatePayment, Decide, BeginPostBill,
                    BeginPostPayment, BeginVoid, books, journalVars
<1>8. ASSUME NEW r \in Requests,
             \/ \E decision \in {"approved", "rejected"} : ApplyDecision(r, decision)
             \/ ReadBills(r) \/ FindDraft(r) \/ VoidUnposted(r) \/ ReadPending(r)
             \/ ReadOriginal(r, "reverse", "read_link")
             \/ ReadOriginal(r, "read_link", "find_reversal") \/ FindReversal(r)
      PROVE  JournalInv' /\ JournalStep
  BY <1>1, <1>8 DEF ApplyDecision, ReadBills, FindDraft, VoidUnposted, ReadPending, Refuse,
                    ReadOriginal, FindReversal,
                    books, journalVars
<1>9. ASSUME NEW r \in Requests, Evict(r) PROVE JournalInv' /\ JournalStep
  BY <1>1, <1>9 DEF Evict, Refuse, books, journalVars
<1>10. CASE OpenPeriod
  BY <1>1, <1>10 DEF OpenPeriod, books, journalVars
<1>. QED
  BY <1>2, <1>3, <1>4, <1>5, <1>6, <1>7, <1>8, <1>9, <1>10 DEF PayablesNext, Step, Continue

-----------------------------------------------------------------------------

LEMMA NextKeeps ==
    ASSUME ApprovalInv, JournalInv, DocumentsAssumption, [PayablesNext]_vars
    PROVE  ApprovalInv' /\ JournalInv' /\ JournalStep
<1>1. CASE UNCHANGED vars
  BY <1>1, TablesStay, RequestsStay, UnchangedJournal DEF vars, books, journalVars, tables
<1>2. CASE PayablesNext
  <2>1. ASSUME NEW r \in Requests, Begin(r)
        PROVE  ApprovalInv'
    BY <2>1, BeginKeeps, CreateBillKeeps, CreatePaymentKeeps
  <2>2. ASSUME NEW r \in Requests, Continue(r)
        PROVE  ApprovalInv'
    BY <2>2, ApplyDecisionKeeps, ReadBillsKeeps, FindDraftKeeps, CreateDraftKeeps,
       PostBillKeeps, PostPaymentKeeps, VoidUnpostedKeeps, ReadPendingKeeps,
       FindReversalKeeps, VoidPostedKeeps DEF Continue
  <2>3. ASSUME NEW r \in Requests, Evict(r)
        PROVE  ApprovalInv'
    BY <2>3, RefuseKeeps DEF Evict
  <2>4. ASSUME NEW e \in Entries, Staff(e)
        PROVE  ApprovalInv'
    BY <2>4, TablesStay, RequestsStay DEF Staff
  <2>5. ASSUME OpenPeriod
        PROVE  ApprovalInv'
    BY <2>5, TablesStay, RequestsStay DEF OpenPeriod
  <2>6. ApprovalInv'
    BY <1>2, <2>1, <2>2, <2>3, <2>4, <2>5 DEF PayablesNext, Step
  <2>. QED
    BY <1>2, <2>6, JournalKeeps
<1>. QED
  BY <1>1, <1>2

LEMMA InitiallyKept ==
    ASSUME PayablesInit, DocumentsAssumption
    PROVE  ApprovalInv /\ JournalInv
<1>1. JournalInv
  BY EmptyJournal DEF PayablesInit, Init
<1>2. /\ AbsentBill \in BillRow /\ AbsentBill.status = "absent"
      /\ AbsentPayment \in PaymentRow /\ AbsentPayment.status = "absent"
      /\ AbsentPayment.entry = None
      /\ Idle \in Local /\ Idle.pc = "idle"
  BY DEF AbsentBill, BillRow, BillStatus, AbsentPayment, PaymentRow, PaymentStatus, Idle,
         Local, PC
<1>3. TablesTyped /\ req \in [Requests -> Local]
  BY <1>2 DEF PayablesInit, TablesTyped
<1>4. ApprovedByAnother /\ PaidInLedger
  BY <1>2 DEF PayablesInit, ApprovedByAnother, PaidInLedger, InLedger, Payable
<1>5. \A r \in Requests : Knows(r)
  BY <1>2 DEF PayablesInit, Knows, Voiding, Reversing
<1>. QED
  BY <1>1, <1>3, <1>4, <1>5 DEF ApprovalInv

\* What an approval under way has recorded stands, whatever other requests do.
THEOREM PayablesInvariant == PayablesSpec => [](ApprovalInv /\ JournalInv)
<1>1. PayablesInit => ApprovalInv /\ JournalInv
  BY DocumentsAssumption, InitiallyKept
<1>2. ApprovalInv /\ JournalInv /\ [PayablesNext]_vars => (ApprovalInv /\ JournalInv)'
  BY DocumentsAssumption, NextKeeps
<1>. QED
  BY <1>1, <1>2, PTL DEF PayablesSpec

\* No bill is approved, posted or paid on the word of the one who entered it alone.
THEOREM ApprovedByAnotherAlways == PayablesSpec => []ApprovedByAnother
<1>1. ApprovalInv => ApprovedByAnother
  BY DEF ApprovalInv
<1>. QED
  BY <1>1, PayablesInvariant, PTL

-----------------------------------------------------------------------------
(* The accounts.  What a bill says was paid follows from the payments that *)
(* are posted, and what is posted from the keys of the journal: the        *)
(* balance of a bill is not inductive without its entry, and the entry of  *)
(* a payment not without what the requests have read of its version.       *)

\* A bill is in the ledger when an entry was posted under its key.
BillsLinked == \A b \in Bills : keys[b] # None <=> InLedger(b)

\* A payment was posted when an entry was posted under its key, which it keeps when it is
\* voided.
PaymentsLinked ==
    \A p \in Payments :
        /\ keys[p] # None <=> payments[p].entry # None
        /\ payments[p].entry # None =>
              /\ keys[p].entry = payments[p].entry
              /\ payments[p].status \in {"posted", "voided"}
        /\ payments[p].status = "absent" => payments[p].version = 0

\* Only a bill of some amount is drafted.
DraftsWorth ==
    \A e \in Entries : journal[e].source \in Bills => Totals[journal[e].source] > 0

AmountsNatural == \A p \in Payments : payments[p].amounts \in [Bills -> Nat]

\* Nothing was paid of a bill before it is in the ledger.
OffLedger ==
    \A b \in Bills : ~InLedger(b) =>
        /\ bills[b].paid = 0
        /\ bills[b].status # "absent" => bills[b].due = Totals[b]

\* While the version a request has read of a payment is still the payment's, so is the
\* status.
Reads(r) ==
    LET d == req[r].document
        ReadAs(status) == d \in Payments =>
            /\ req[r].version <= payments[d].version
            /\ req[r].version = payments[d].version => payments[d].status = status
    IN  /\ req[r].pc \in {"read_bills", "find", "create", "post", "void_unposted"} =>
              ReadAs("approved")
        /\ req[r].pc \in Voiding => ReadAs("posted")
        /\ req[r].pc = "post" =>
              /\ d \in Bills => Totals[d] > 0
              /\ journal[req[r].entry].status # "absent"
              /\ journal[req[r].entry].status = "draft" => journal[req[r].entry].source = d

\* What the entries, the bills and the payments have to do with each other.
Linked == BillsLinked /\ PaymentsLinked /\ DraftsWorth

\* The CHECK on amount_due: no bill is paid more than it is.
NotOverpaid == \A b \in Bills : bills[b].due >= 0

Summed == AmountsNatural /\ OffLedger /\ NotOverpaid /\ BillsBalance

\* An unedited draft is worth what its document or the entry it reverses makes it.
CreditOfDraft(e) ==
    LET source == journal[e].source
    IN  /\ source \in Bills => worth[e] = Totals[source]
        /\ source \in Payments =>
              /\ payments[source].status # "absent"
              /\ worth[e] = -SumOver(payments[source].amounts, Bills)
        /\ source \in Entries => Posted(source) /\ worth[e] = -worth[source]

\* The entry of a payment debits what the payment applies.
CreditOfPayment(p) ==
    payments[p].entry # None =>
        worth[payments[p].entry] = -SumOver(payments[p].amounts, Bills)

Valued ==
    /\ worth \in [Entries -> Int]
    /\ \A e \in Entries : journal[e].status = "draft" => CreditOfDraft(e)
    /\ \A p \in Payments : CreditOfPayment(p)
    /\ ControlAccountAgrees

AccountsInv ==
    /\ ApprovalInv /\ JournalInv /\ KeysInv
    /\ Linked /\ Summed /\ Valued
    /\ \A r \in Requests : Reads(r)

Documents == Bills \cup Payments

\* A step of the journal that posts no document.
BesideDocuments ==
    /\ JournalStep /\ KeysInv' /\ DraftsWorth'
    /\ \A d \in Documents : keys'[d] = keys[d]

\* A row of payments is not changed without its version.
PaymentsStep ==
    \A p \in Payments :
        payments'[p] = payments[p] \/ payments'[p].version > payments[p].version

-----------------------------------------------------------------------------
(* The journal beside the documents.                                       *)

LEMMA BooksAlone ==
    ASSUME AccountsInv, UNCHANGED books
    PROVE  BesideDocuments
<1>1. UNCHANGED <<journal, keys>>
  BY DEF books, journalVars
<1>2. JournalStep /\ KeysInv'
  BY <1>1, UnchangedJournal, KeysStay DEF AccountsInv
<1>. QED
  BY <1>1, <1>2 DEF BesideDocuments, AccountsInv, Linked, DraftsWorth

\* Drafting takes no key.
LEMMA DraftBeside ==
    ASSUME AccountsInv, NEW e \in Entries, NEW date \in Dates \cup {None},
           NEW source \in Sources \cup {None}, Draft(e, date, source),
           source \in Bills => Totals[source] > 0
    PROVE  BesideDocuments
<1>1. /\ JournalStep
      /\ journal'[e] = [status |-> "draft", date |-> date, source |-> source]
  BY DraftKeeps DEF AccountsInv
<1>2. UNCHANGED keys /\ \A f \in Entries : f # e => journal'[f] = journal[f]
  BY DEF Draft, PutEntry, AccountsInv, JournalInv
<1>3. KeysInv'
  BY <1>1, <1>2, KeysStay DEF AccountsInv
<1>4. DraftsWorth'
  BY <1>1, <1>2 DEF AccountsInv, Linked, DraftsWorth
<1>. QED
  BY <1>1, <1>2, <1>3, <1>4 DEF BesideDocuments

LEMMA StaffKeysApart ==
    ASSUME NEW k \in StaffKeys
    PROVE  k \in Keys /\ k \notin Documents /\ \A p \in Payments : k # VoidKey(p)
BY DEF StaffKeys, Documents

LEMMA RequestHashExists ==
    ASSUME KeysAssumption
    PROVE  RequestHash \in Hashes /\ ReceiptsAreNotNull
BY DEF KeysAssumption, RequestHash, ReceiptsAreNotNull

\* Staff post and reverse under keys of their own.
LEMMA StaffBeside ==
    ASSUME AccountsInv, DocumentsAssumption, KeysAssumption, NEW e \in Entries, Staff(e)
    PROVE  BesideDocuments
<1>0. JournalInv /\ KeysInv /\ JournalStep
  BY StaffJournal DEF AccountsInv
<1>1. CASE StaffEdit(e) \/ Remove(e) \/ Void(e)
  <2>1. UNCHANGED keys
    BY <1>1 DEF StaffEdit, Edit, Remove, Void
  <2>2. \A f \in Entries : journal'[f].source \in {journal[f].source, None}
    BY <1>0, <1>1, SourcesStay DEF StaffEdit
  <2>. QED
    BY <1>0, <2>1, <2>2, KeysStay DEF BesideDocuments, AccountsInv, Linked, DraftsWorth, KeysAssumption
<1>2. ASSUME NEW k \in StaffKeys, NEW o \in Entries,
             Post(e, k, RequestHash) \/ Reverse(o, e, k, RequestHash)
      PROVE  BesideDocuments
  <2>1. k \in Keys /\ k \notin Documents
    BY StaffKeysApart
  <2>3. KeysInv' /\ \A l \in Keys : l # k => keys'[l] = keys[l]
    BY <1>0, <1>2, <2>1, RequestHashExists, PostTakesKey, ReverseTakesKey
  <2>4. \A f \in Entries : journal'[f].source \in {journal[f].source, None}
    BY <1>0, <1>2, SourcesStay
  <2>5. DraftsWorth'
    BY <2>4 DEF AccountsInv, Linked, DraftsWorth, KeysAssumption
  <2>6. \A d \in Documents : keys'[d] = keys[d]
    BY <2>1, <2>3 DEF Documents, DocumentsAssumption
  <2>. QED
    BY <1>0, <2>3, <2>5, <2>6 DEF BesideDocuments
<1>3. CASE StaffDraftReversal(e)
  <2>1. PICK o \in Entries, date \in Dates : Draft(e, date, o)
    BY <1>3 DEF StaffDraftReversal, DraftFor
  <2>. QED
    BY <2>1, DraftBeside DEF DocumentsAssumption, KeysAssumption
<1>. QED
  BY <1>1, <1>2, <1>3 DEF Staff, StaffReverse

LEMMA CreateDraftBeside ==
    ASSUME AccountsInv, DocumentsAssumption, KeysAssumption, NEW r \in Requests, CreateDraft(r)
    PROVE  BesideDocuments
<1>. DEFINE d == req[r].document
<1>1. CASE Refuse(r)
  BY <1>1, BooksAlone DEF Refuse
<1>2. CASE Draftable(d) /\ DraftFor(FreshId, DateOf[d], d)
  <2>1. d \in Bills \cup Payments
    BY DEF CreateDraft, At, AccountsInv, ApprovalInv, Knows, Voiding, Reversing
  <2>2. DateOf[d] \in Dates \cup {None} /\ d \in Sources \cup {None}
    BY <2>1 DEF DocumentsAssumption
  <2>3. FreshId \in Entries
    BY FreshInEntries DEF CreateDraft
  <2>4. d \in Bills => Totals[d] > 0
    BY <1>2 DEF Draftable
  <2>. QED
    BY <1>2, <2>2, <2>3, <2>4, DraftBeside DEF DraftFor
<1>. QED
  BY <1>1, <1>2 DEF CreateDraft

LEMMA CreateReversalBeside ==
    ASSUME AccountsInv, DocumentsAssumption, KeysAssumption, NEW r \in Requests,
           CreateReversal(r)
    PROVE  BesideDocuments
<1>. DEFINE o == payments[req[r].document].entry
<1>1. CASE Refuse(r)
  BY <1>1, BooksAlone DEF Refuse
<1>2. CASE IdsLeft /\ Draft(FreshId, req[r].date, o)
  <2>1. o \in Entries /\ req[r].date \in Dates \cup {None}
    BY DEF CreateReversal, At, AccountsInv, ApprovalInv, Knows, Voiding, Reversing,
           TablesTyped, PaymentRow, Local
  <2>2. o \in Sources \cup {None} /\ o \notin Bills
    BY <2>1 DEF DocumentsAssumption, KeysAssumption
  <2>. QED
    BY <1>2, <2>1, <2>2, FreshInEntries, DraftBeside
<1>. QED
  BY <1>1, <1>2 DEF CreateReversal, DraftFor

-----------------------------------------------------------------------------
(* Rows that stay, and what they sum up to.                                *)

Balanced(b) ==
    /\ bills[b].paid = SumOver(Applied(b), PostedFor(b))
    /\ bills[b].paid + bills[b].due = Totals[b]
    /\ bills[b].status = StatusOf(b)

\* A bill that stays as it is, with the payments posted for it, keeps its balance.
LEMMA BalanceStays ==
    ASSUME AccountsInv, KeysAssumption, NEW b \in Bills, InLedger(b), bills'[b] = bills[b],
           UNCHANGED PostedFor(b),
           \A p \in PostedFor(b) : payments'[p].amounts[b] = payments[p].amounts[b]
    PROVE  Balanced(b)'
<1>1. IsFiniteSet(PostedFor(b)) /\ PostedFor(b) \subseteq Payments
  BY FS_Subset DEF PostedFor, KeysAssumption
<1>2. \A p \in PostedFor(b) : (Applied(b)')[p] = Applied(b)[p]
  BY <1>1 DEF Applied
<1>3. SumOver(Applied(b)', PostedFor(b)) = SumOver(Applied(b), PostedFor(b))
  BY <1>1, <1>2, SumOfSame
<1>4. Balanced(b)
  BY DEF AccountsInv, Summed, BillsBalance, Balanced
<1>. QED
  BY <1>3, <1>4 DEF Balanced, StatusOf

\* The same for all bills.
LEMMA SumsStay ==
    ASSUME AccountsInv, DocumentsAssumption, KeysAssumption, UNCHANGED <<bills, payments>>
    PROVE  Summed'
<1>1. \A b \in Bills : InLedger(b)' <=> InLedger(b)
  BY DEF InLedger, Payable
<1>2. ASSUME NEW b \in Bills, InLedger(b)
      PROVE  Balanced(b)'
  <2>1. UNCHANGED PostedFor(b)
    BY DEF PostedFor, PaidBy
  <2>. QED
    BY <1>2, <2>1, BalanceStays
<1>3. BillsBalance'
  BY <1>1, <1>2 DEF BillsBalance, Balanced
<1>4. AmountsNatural' /\ OffLedger' /\ NotOverpaid'
  BY <1>1 DEF AccountsInv, Summed, AmountsNatural, OffLedger, NotOverpaid, DocumentsAssumption
<1>. QED
  BY <1>3, <1>4 DEF Summed

\* A step that posts no document and leaves bills and payments alone.
LEMMA TablesAlone ==
    ASSUME AccountsInv, DocumentsAssumption, KeysAssumption, BesideDocuments,
           UNCHANGED <<bills, payments>>
    PROVE  Linked' /\ Summed'
<1>1. \A b \in Bills : InLedger(b)' <=> InLedger(b)
  BY DEF InLedger, Payable
<1>2. \A d \in Documents : keys'[d] = keys[d]
  BY DEF BesideDocuments
<1>3. BillsLinked'
  BY <1>1, <1>2 DEF AccountsInv, Linked, BillsLinked, Documents
<1>4. PaymentsLinked'
  BY <1>2 DEF AccountsInv, Linked, PaymentsLinked, Documents
<1>. QED
  BY <1>3, <1>4, SumsStay DEF Linked, BesideDocuments

\* Bills that change before they are in the ledger.
LEMMA BillsOffLedger ==
    ASSUME AccountsInv, DocumentsAssumption, KeysAssumption, UNCHANGED <<payments, books>>,
           \A b \in Bills :
              \/ bills'[b] = bills[b]
              \/ /\ ~InLedger(b) /\ ~InLedger(b)'
                 /\ bills'[b].paid = 0 /\ bills'[b].due = Totals[b]
    PROVE  Linked' /\ Summed'
<1>0. UNCHANGED <<journal, keys>>
  BY DEF books, journalVars
<1>1. \A b \in Bills : InLedger(b)' <=> InLedger(b)
  BY DEF InLedger, Payable
<1>2. ASSUME NEW b \in Bills, InLedger(b)
      PROVE  Balanced(b)'
  <2>1. UNCHANGED PostedFor(b)
    BY DEF PostedFor, PaidBy
  <2>. QED
    BY <1>2, <2>1, BalanceStays
<1>3. BillsBalance'
  BY <1>1, <1>2 DEF BillsBalance, Balanced
<1>4. AmountsNatural' /\ OffLedger' /\ NotOverpaid'
  BY <1>1 DEF AccountsInv, Summed, AmountsNatural, OffLedger, NotOverpaid, DocumentsAssumption
<1>5. Linked'
  BY <1>0, <1>1 DEF AccountsInv, Linked, BillsLinked, PaymentsLinked, DraftsWorth
<1>. QED
  BY <1>3, <1>4, <1>5 DEF Summed

\* A payment that changes while it is not posted.
LEMMA PaymentUnposted ==
    ASSUME AccountsInv, DocumentsAssumption, KeysAssumption, UNCHANGED <<bills, books>>,
           NEW p \in Payments, \A q \in Payments : q # p => payments'[q] = payments[q],
           payments[p].status # "posted", payments[p].entry = None,
           payments'[p].status \in {"approved", "voided"}, payments'[p].entry = None,
           payments'[p].amounts \in [Bills -> Nat]
    PROVE  Linked' /\ Summed'
<1>0. UNCHANGED <<journal, keys>>
  BY DEF books, journalVars
<1>1. \A b \in Bills : InLedger(b)' <=> InLedger(b)
  BY DEF InLedger, Payable
<1>2. ASSUME NEW b \in Bills, InLedger(b)
      PROVE  Balanced(b)'
  <2>1. UNCHANGED PostedFor(b)
    BY DEF PostedFor, PaidBy
  <2>2. \A q \in PostedFor(b) : payments'[q].amounts[b] = payments[q].amounts[b]
    BY DEF PostedFor
  <2>. QED
    BY <1>2, <2>1, <2>2, BalanceStays
<1>3. BillsBalance'
  BY <1>1, <1>2 DEF BillsBalance, Balanced
<1>4. AmountsNatural' /\ OffLedger' /\ NotOverpaid'
  BY <1>1 DEF AccountsInv, Summed, AmountsNatural, OffLedger, NotOverpaid, DocumentsAssumption
<1>5. BillsLinked' /\ DraftsWorth'
  BY <1>0, <1>1 DEF AccountsInv, Linked, BillsLinked, DraftsWorth
<1>6. PaymentsLinked'
  BY <1>0 DEF AccountsInv, Linked, PaymentsLinked
<1>. QED
  BY <1>3, <1>4, <1>5, <1>6 DEF Linked, Summed

-----------------------------------------------------------------------------
(* Postings and voids.                                                     *)

\* What a bill has due and what was paid of it are amounts.
LEMMA AmountsAreNatural ==
    ASSUME AccountsInv, KeysAssumption, NEW b \in Bills, InLedger(b)
    PROVE  bills[b].paid \in Nat /\ bills[b].due \in Nat /\ Balanced(b)
<1>1. Balanced(b)
  BY DEF AccountsInv, Summed, BillsBalance, Balanced
<1>2. IsFiniteSet(PostedFor(b)) /\ PostedFor(b) \subseteq Payments
  BY FS_Subset DEF PostedFor, KeysAssumption
<1>3. \A p \in PostedFor(b) : Applied(b)[p] \in Nat
  BY <1>2 DEF Applied, AccountsInv, Summed, AmountsNatural
<1>4. SumOver(Applied(b), PostedFor(b)) \in Nat
  BY <1>2, <1>3, SumOfNaturals
<1>. QED
  BY <1>1, <1>4 DEF Balanced, AccountsInv, ApprovalInv, TablesTyped, BillRow, Summed, NotOverpaid

\* No payment is posted for a bill that is not in the ledger yet.
LEMMA NothingPaidBefore ==
    ASSUME AccountsInv, NEW b \in Bills, ~InLedger(b)
    PROVE  PostedFor(b) = {}
BY DEF AccountsInv, ApprovalInv, PaidInLedger, PostedFor

LEMMA PostBillBalances ==
    ASSUME AccountsInv, DocumentsAssumption, KeysAssumption, NEW r \in Requests, PostBill(r),
           ~Refuse(r)
    PROVE  KeysInv' /\ Linked' /\ Summed'
<1>1. PICK b \in Bills, e \in Entries :
          /\ Totals[b] > 0 /\ bills[b].status = "approved"
          /\ Post(e, b, RequestHash) /\ Move(b, "posted") /\ UNCHANGED payments
  <2>1. req[r].document \in Bills /\ req[r].entry \in Entries /\ Totals[req[r].document] > 0
    BY DEF PostBill, At, AccountsInv, ApprovalInv, Knows, Voiding, Reversing, Reads
  <2>. QED
    BY <2>1 DEF PostBill, BillGuard
<1>2. b \in Keys /\ JournalInv /\ KeysInv
  BY <1>1 DEF AccountsInv, DocumentsAssumption
<1>3. JournalStep /\ journal'[e].status = "posted"
  BY <1>1, <1>2, PostKeeps
<1>4. /\ KeysInv' /\ keys'[b] # None /\ keys'[b].entry = e
      /\ \A l \in Keys : l # b => keys'[l] = keys[l]
  BY <1>1, <1>2, RequestHashExists, PostTakesKey
<1>5. \A f \in Entries : journal'[f].source \in {journal[f].source, None}
  BY <1>1, <1>2, SourcesStay
<1>6. /\ bills'[b].status = "posted" /\ bills'[b].paid = bills[b].paid /\ bills'[b].due = bills[b].due
      /\ \A x \in Bills : x # b => bills'[x] = bills[x]
  BY <1>1 DEF Move, AccountsInv, ApprovalInv, TablesTyped, BillRow
<1>7. /\ ~InLedger(b) /\ InLedger(b)'
      /\ \A x \in Bills : x # b => (InLedger(x)' <=> InLedger(x))
  BY <1>1, <1>6 DEF InLedger, Payable
<1>8. \A x \in Bills \cup Payments : x # b => keys'[x] = keys[x]
  BY <1>2, <1>4 DEF DocumentsAssumption
<1>9. BillsLinked'
  BY <1>4, <1>7, <1>8 DEF AccountsInv, Linked, BillsLinked
<1>10. PaymentsLinked'
  BY <1>1, <1>8 DEF AccountsInv, Linked, PaymentsLinked, DocumentsAssumption
<1>11. DraftsWorth'
  BY <1>5 DEF AccountsInv, Linked, DraftsWorth, KeysAssumption
<1>12. AmountsNatural' /\ OffLedger' /\ NotOverpaid'
  BY <1>1, <1>6, <1>7 DEF AccountsInv, Summed, AmountsNatural, OffLedger, NotOverpaid
<1>13. \A x \in Bills : UNCHANGED <<PostedFor(x), Applied(x)>>
  BY <1>1 DEF PostedFor, PaidBy, Applied
<1>14. Balanced(b)'
  <2>1. bills[b].paid = 0 /\ bills[b].due = Totals[b] /\ Totals[b] \in Nat
    BY <1>1, <1>7 DEF AccountsInv, Summed, OffLedger, DocumentsAssumption
  <2>2. PostedFor(b) = {}
    BY <1>1, <1>7, NothingPaidBefore
  <2>3. SumOver(Applied(b), PostedFor(b)) = 0
    BY <2>2, SumOfNone
  <2>. QED
    BY <1>1, <1>6, <1>13, <2>1, <2>3 DEF Balanced, StatusOf
<1>15. ASSUME NEW x \in Bills, x # b, InLedger(x)
       PROVE  Balanced(x)'
  BY <1>1, <1>6, <1>13, <1>15, BalanceStays
<1>16. BillsBalance'
  BY <1>7, <1>14, <1>15 DEF BillsBalance, Balanced
<1>. QED
  BY <1>4, <1>9, <1>10, <1>11, <1>12, <1>16 DEF Linked, Summed

\* The arithmetic of a posting and of a void.
LEMMA ReducedRow ==
    ASSUME NEW row \in BillRow, row.paid \in Nat, row.due \in Nat,
           NEW amount \in Nat, amount > 0, amount <= row.due
    PROVE  LET r == Reduce(row, amount)
           IN  /\ r.paid = row.paid + amount /\ r.due = row.due - amount /\ r.due >= 0
               /\ r.status = IF r.due = 0 THEN "paid"
                             ELSE IF r.paid = 0 THEN "posted" ELSE "partially_paid"
BY DEF Reduce, BillRow

LEMMA RestoredRow ==
    ASSUME NEW row \in BillRow, row.paid \in Nat, row.due \in Nat,
           NEW amount \in Nat, amount > 0
    PROVE  LET r == Restore(row, amount)
           IN  /\ r.paid = row.paid - amount /\ r.due = row.due + amount /\ r.due >= 0
               /\ r.status = IF r.due = 0 THEN "paid"
                             ELSE IF r.paid = 0 THEN "posted" ELSE "partially_paid"
BY DEF Restore, BillRow

\* Which payments are posted for a bill, before and after one of them changes.
LEMMA PostedForMoves ==
    ASSUME NEW p \in Payments, NEW b \in Bills,
           \A q \in Payments : q # p => payments'[q] = payments[q],
           payments'[p].amounts = payments[p].amounts
    PROVE  /\ b \notin PaidBy(p) => UNCHANGED PostedFor(b)
           /\ PostedFor(b)' \ {p} = PostedFor(b) \ {p}
           /\ b \in PaidBy(p) =>
                 /\ p \in PostedFor(b)' <=> payments'[p].status = "posted"
                 /\ p \in PostedFor(b) <=> payments[p].status = "posted"
           /\ UNCHANGED Applied(b)
BY DEF PostedFor, PaidBy, Applied

\* What a payment does to the bills it is applied to it does to their balances.
LEMMA PaymentBalances ==
    ASSUME AccountsInv, KeysAssumption, NEW p \in Payments,
           \A b \in PaidBy(p) : InLedger(b),
           \A q \in Payments : q # p => payments'[q] = payments[q],
           payments'[p].amounts = payments[p].amounts,
           \/ /\ payments[p].status # "posted" /\ payments'[p].status = "posted"
              /\ ApplyPayment(p) /\ Covered(p)
           \/ /\ payments[p].status = "posted" /\ payments'[p].status # "posted"
              /\ RestoreBills(p)
    PROVE  Summed' /\ \A b \in Bills : InLedger(b)' <=> InLedger(b)
<1>1. /\ bills' \in [Bills -> BillRow]
      /\ \A b \in Bills : bills'[b] = bills[b] \/ (InLedger(b) /\ InLedger(b)')
      /\ \A b \in Bills : InLedger(b) => InLedger(b)'
  BY AmountsApplied DEF AccountsInv
<1>2. \A b \in Bills : InLedger(b)' <=> InLedger(b)
  BY <1>1 DEF InLedger, Payable
<1>3. ASSUME NEW b \in PaidBy(p)
      PROVE  Balanced(b)' /\ bills'[b].due >= 0
  <2>. DEFINE amount == payments[p].amounts[b]
  <2>1. b \in Bills /\ InLedger(b) /\ bills[b] \in BillRow /\ amount \in Nat /\ amount > 0
    BY <1>3 DEF PaidBy, AccountsInv, ApprovalInv, TablesTyped, Summed, AmountsNatural
  <2>2. bills[b].paid \in Nat /\ bills[b].due \in Nat /\ Balanced(b)
    BY <2>1, AmountsAreNatural
  <2>3. IsFiniteSet(PostedFor(b)) /\ \A q \in PostedFor(b) \cup {p} : Applied(b)[q] \in Int
    BY <2>1, FS_Subset DEF PostedFor, KeysAssumption, Applied, AccountsInv, Summed, AmountsNatural
  <2>4. Applied(b)[p] = amount /\ UNCHANGED Applied(b)
    BY <2>1, PostedForMoves DEF Applied
  <2>5. CASE payments[p].status # "posted" /\ payments'[p].status = "posted"
             /\ ApplyPayment(p) /\ Covered(p)
    <3>1. p \notin PostedFor(b) /\ PostedFor(b)' = PostedFor(b) \cup {p}
      BY <1>3, <2>1, <2>5, PostedForMoves
    <3>2. SumOver(Applied(b), PostedFor(b) \cup {p}) = amount + SumOver(Applied(b), PostedFor(b))
      BY <2>3, <2>4, <3>1, SumWith
    <3>3. bills'[b] = Reduce(bills[b], amount) /\ amount <= bills[b].due
      BY <1>3, <2>1, <2>5 DEF ApplyPayment, Covered
    <3>. HIDE DEF amount
    <3>4. /\ bills'[b].paid = bills[b].paid + amount /\ bills'[b].due = bills[b].due - amount
          /\ bills'[b].due >= 0 /\ bills'[b].status = StatusOf(b)'
      BY <2>1, <2>2, <3>3, ReducedRow DEF StatusOf
    <3>5. bills'[b].paid = SumOver(Applied(b)', PostedFor(b)')
      BY <2>1, <2>2, <2>4, <3>1, <3>2, <3>4 DEF Balanced
    <3>6. bills'[b].paid + bills'[b].due = Totals[b]
      BY <2>1, <2>2, <3>4 DEF Balanced
    <3>. QED
      BY <3>4, <3>5, <3>6 DEF Balanced
  <2>6. CASE payments[p].status = "posted" /\ payments'[p].status # "posted" /\ RestoreBills(p)
    <3>1. p \in PostedFor(b) /\ PostedFor(b)' = PostedFor(b) \ {p}
      BY <1>3, <2>1, <2>6, PostedForMoves
    <3>2. SumOver(Applied(b), PostedFor(b)) = amount + SumOver(Applied(b), PostedFor(b) \ {p})
      BY <2>3, <2>4, <3>1, SumWithout
    <3>3. bills'[b] = Restore(bills[b], amount)
      BY <1>3, <2>1, <2>6 DEF RestoreBills
    <3>4. SumOver(Applied(b), PostedFor(b) \ {p}) \in Int
      BY <2>3, FS_Subset, SumType
    <3>. HIDE DEF amount
    <3>5. /\ bills'[b].paid = bills[b].paid - amount /\ bills'[b].due = bills[b].due + amount
          /\ bills'[b].due >= 0 /\ bills'[b].status = StatusOf(b)'
      BY <2>1, <2>2, <3>3, RestoredRow DEF StatusOf
    <3>6. bills'[b].paid = SumOver(Applied(b)', PostedFor(b)')
      BY <2>1, <2>2, <2>4, <3>1, <3>2, <3>4, <3>5 DEF Balanced
    <3>7. bills'[b].paid + bills'[b].due = Totals[b]
      BY <2>1, <2>2, <3>5 DEF Balanced
    <3>. QED
      BY <3>5, <3>6, <3>7 DEF Balanced
  <2>. QED
    BY <2>5, <2>6
<1>4. ASSUME NEW b \in Bills, b \notin PaidBy(p)
      PROVE  bills'[b] = bills[b]
  BY <1>4 DEF ApplyPayment, RestoreBills
<1>5. ASSUME NEW b \in Bills, b \notin PaidBy(p), InLedger(b)
      PROVE  Balanced(b)'
  <2>1. UNCHANGED PostedFor(b) /\ UNCHANGED Applied(b) /\ bills'[b] = bills[b]
    BY <1>4, <1>5, PostedForMoves
  <2>. QED
    BY <1>5, <2>1, AmountsAreNatural DEF Balanced, StatusOf
<1>6. BillsBalance'
  BY <1>2, <1>3, <1>5 DEF BillsBalance, Balanced
<1>7. NotOverpaid'
  BY <1>3, <1>4 DEF AccountsInv, Summed, NotOverpaid
<1>8. AmountsNatural'
  BY DEF AccountsInv, Summed, AmountsNatural
<1>9. OffLedger'
  BY <1>1, <1>2 DEF AccountsInv, Summed, OffLedger
<1>. QED
  BY <1>2, <1>6, <1>7, <1>8, <1>9 DEF Summed

LEMMA PostPaymentBalances ==
    ASSUME AccountsInv, DocumentsAssumption, KeysAssumption, NEW r \in Requests, PostPayment(r),
           ~Refuse(r)
    PROVE  KeysInv' /\ Linked' /\ Summed'
<1>1. PICK p \in Payments, e \in Entries :
          /\ payments[p].status = "approved" /\ Accepted(p)
          /\ Post(e, p, RequestHash) /\ ApplyPayment(p)
          /\ payments' = [payments EXCEPT ![p].status = "posted", ![p].entry = e,
                                          ![p].version = @ + 1]
  <2>1. /\ req[r].document \in Payments /\ req[r].entry \in Entries
        /\ req[r].version = payments[req[r].document].version =>
              payments[req[r].document].status = "approved"
    BY DEF PostPayment, At, AccountsInv, ApprovalInv, Knows, Voiding, Reversing, Reads
  <2>. QED
    BY <2>1 DEF PostPayment, PaymentGuard
<1>2. p \in Keys /\ JournalInv /\ KeysInv
  BY DEF AccountsInv, DocumentsAssumption
<1>3. JournalStep /\ journal'[e].status = "posted"
  BY <1>1, <1>2, PostKeeps
<1>4. /\ KeysInv' /\ keys'[p] # None /\ keys'[p].entry = e
      /\ \A l \in Keys : l # p => keys'[l] = keys[l]
  BY <1>1, <1>2, RequestHashExists, PostTakesKey
<1>5. \A f \in Entries : journal'[f].source \in {journal[f].source, None}
  BY <1>1, <1>2, SourcesStay
<1>6. /\ payments'[p].status = "posted" /\ payments'[p].entry = e
      /\ payments'[p].amounts = payments[p].amounts
      /\ \A q \in Payments : q # p => payments'[q] = payments[q]
  BY <1>1, PostedRow DEF AccountsInv
<1>7. \A b \in PaidBy(p) : InLedger(b)
  BY <1>1 DEF Accepted, InLedger
<1>8. Summed' /\ \A b \in Bills : InLedger(b)' <=> InLedger(b)
  BY <1>1, <1>6, <1>7, PaymentBalances DEF Accepted
<1>9. \A d \in Bills \cup Payments : d # p => keys'[d] = keys[d]
  BY <1>2, <1>4 DEF DocumentsAssumption
<1>10. BillsLinked'
  BY <1>8, <1>9 DEF AccountsInv, Linked, BillsLinked, DocumentsAssumption
<1>11. PaymentsLinked'
  <2>1. e # None
    BY DEF DocumentsAssumption
  <2>. QED
    BY <1>4, <1>6, <1>9, <2>1 DEF AccountsInv, Linked, PaymentsLinked
<1>12. DraftsWorth'
  BY <1>5 DEF AccountsInv, Linked, DraftsWorth, KeysAssumption
<1>. QED
  BY <1>4, <1>8, <1>10, <1>11, <1>12 DEF Linked

\* The reversal of the payment's entry takes a key of its own.
LEMMA VoidPostedBalances ==
    ASSUME AccountsInv, DocumentsAssumption, KeysAssumption, NEW r \in Requests, VoidPosted(r),
           ~Refuse(r)
    PROVE  KeysInv' /\ Linked' /\ Summed'
<1>1. PICK p \in Payments, o \in Entries, e \in Entries :
          /\ payments[p].status = "posted" /\ payments[p].entry = o
          /\ Reverse(o, e, VoidKey(p), RequestHash) /\ MarkVoided(p) /\ RestoreBills(p)
  <2>1. /\ req[r].document \in Payments /\ req[r].entry \in Entries
        /\ payments[req[r].document].entry \in Entries
        /\ req[r].version = payments[req[r].document].version =>
              payments[req[r].document].status = "posted"
    BY DEF VoidPosted, At, AccountsInv, ApprovalInv, TablesTyped, PaymentRow, Knows, Voiding, Reversing, Reads
  <2>. QED
    BY <2>1 DEF VoidPosted, PaymentGuard
<1>2. /\ VoidKey(p) \in Keys /\ VoidKey(p) \notin Bills \cup Payments
      /\ Bills \cup Payments \subseteq Keys /\ JournalInv /\ KeysInv
  BY DEF AccountsInv, DocumentsAssumption, KeysAssumption
<1>3. /\ \A f \in Entries : f \notin {o, e} => journal'[f] = journal[f]
      /\ Pending(e) /\ journal'[o].status = "reversed"
  BY <1>1, <1>2, ReverseStep
<1>4. /\ KeysInv' /\ \A l \in Keys : l # VoidKey(p) => keys'[l] = keys[l]
  BY <1>1, <1>2, RequestHashExists, ReverseTakesKey
<1>5. \A f \in Entries : journal'[f].source \in {journal[f].source, None}
  BY <1>1, <1>2, SourcesStay
<1>6. /\ payments'[p].status = "voided" /\ payments'[p].entry = o
      /\ payments'[p].amounts = payments[p].amounts
      /\ \A q \in Payments : q # p => payments'[q] = payments[q]
  BY <1>1, MarkVoidedRow DEF AccountsInv
<1>7. \A b \in PaidBy(p) : InLedger(b)
  BY <1>1 DEF AccountsInv, ApprovalInv, PaidInLedger
<1>8. Summed' /\ \A b \in Bills : InLedger(b)' <=> InLedger(b)
  BY <1>1, <1>6, <1>7, PaymentBalances
<1>9. keys[p] # None /\ keys[p].entry = o /\ o # None
  BY <1>1 DEF AccountsInv, Linked, PaymentsLinked, DocumentsAssumption
<1>10. \A d \in Bills \cup Payments : keys'[d] = keys[d]
  BY <1>2, <1>4
<1>13. BillsLinked'
  BY <1>8, <1>10 DEF AccountsInv, Linked, BillsLinked, DocumentsAssumption
<1>14. PaymentsLinked'
  BY <1>6, <1>9, <1>10 DEF AccountsInv, Linked, PaymentsLinked
<1>15. DraftsWorth'
  BY <1>5 DEF AccountsInv, Linked, DraftsWorth, KeysAssumption
<1>. QED
  BY <1>4, <1>8, <1>13, <1>14, <1>15 DEF Linked

LEMMA CreatePaymentBalances ==
    ASSUME AccountsInv, DocumentsAssumption, KeysAssumption, NEW r \in Requests, CreatePayment(r)
    PROVE  Linked' /\ Summed'
<1>1. PICK p \in Payments, amounts \in Applications :
          /\ payments[p].status = "absent"
          /\ payments' = [payments EXCEPT ![p] =
                [status |-> "approved", amounts |-> amounts, version |-> 1, entry |-> None]]
  BY DEF CreatePayment
<1>2. payments[p].entry = None
  BY <1>1 DEF AccountsInv, ApprovalInv, PaidInLedger
<1>3. amounts \in [Bills -> Nat]
  BY DEF DocumentsAssumption
<1>4. /\ payments'[p].status = "approved" /\ payments'[p].entry = None
      /\ payments'[p].amounts = amounts
      /\ \A q \in Payments : q # p => payments'[q] = payments[q]
  BY <1>1 DEF AccountsInv, ApprovalInv, TablesTyped
<1>5. UNCHANGED <<bills, books>>
  BY DEF CreatePayment
<1>. QED
  BY <1>1, <1>2, <1>3, <1>4, <1>5, PaymentUnposted

LEMMA VoidUnpostedBalances ==
    ASSUME AccountsInv, DocumentsAssumption, KeysAssumption, NEW r \in Requests, VoidUnposted(r),
           ~Refuse(r)
    PROVE  Linked' /\ Summed'
<1>1. PICK p \in Payments : payments[p].status = "approved" /\ MarkVoided(p)
  <2>1. /\ req[r].document \in Payments
        /\ req[r].version = payments[req[r].document].version =>
              payments[req[r].document].status = "approved"
    BY DEF VoidUnposted, At, AccountsInv, ApprovalInv, Knows, Voiding, Reversing, Reads
  <2>. QED
    BY <2>1 DEF VoidUnposted, PaymentGuard
<1>2. payments[p].entry = None
  BY <1>1 DEF AccountsInv, Linked, PaymentsLinked
<1>3. /\ payments'[p].status = "voided" /\ payments'[p].entry = payments[p].entry
      /\ payments'[p].amounts = payments[p].amounts
      /\ \A q \in Payments : q # p => payments'[q] = payments[q]
  BY <1>1, MarkVoidedRow DEF AccountsInv
<1>4. UNCHANGED <<bills, books>>
  BY DEF VoidUnposted, Refuse, tables
<1>5. payments[p].amounts \in [Bills -> Nat]
  BY DEF AccountsInv, Summed, AmountsNatural
<1>. QED
  BY <1>1, <1>2, <1>3, <1>4, <1>5, PaymentUnposted

\* Bills move before they are in the ledger: entered, submitted, decided on.
LEMMA BillMoves ==
    ASSUME AccountsInv, DocumentsAssumption, KeysAssumption, NEW r \in Requests,
           \/ CreateBill(r) \/ SubmitBill(r)
           \/ \E decision \in {"approved", "rejected"} : ApplyDecision(r, decision)
    PROVE  Linked' /\ Summed'
<1>1. UNCHANGED <<payments, books>>
  BY DEF CreateBill, SubmitBill, ApplyDecision, Refuse, tables
<1>2. ASSUME NEW b \in Bills, NEW to \in {"submitted", "approved", "rejected"},
             bills[b].status \in {"draft", "submitted"}, Move(b, to)
      PROVE  Linked' /\ Summed'
  <2>1. /\ \A x \in Bills : x # b => bills'[x] = bills[x]
        /\ bills'[b].status = to /\ bills'[b].paid = bills[b].paid /\ bills'[b].due = bills[b].due
    BY <1>2 DEF Move, AccountsInv, ApprovalInv, TablesTyped, BillRow
  <2>2. ~InLedger(b) /\ ~InLedger(b)' /\ bills[b].paid = 0 /\ bills[b].due = Totals[b]
    BY <1>2, <2>1 DEF InLedger, Payable, AccountsInv, Summed, OffLedger
  <2>. QED
    BY <1>1, <2>1, <2>2, BillsOffLedger
<1>3. ASSUME CreateBill(r)
      PROVE  Linked' /\ Summed'
  <2>1. PICK b \in Bills, a \in Actors :
            /\ bills[b].status = "absent"
            /\ bills' = [bills EXCEPT ![b] = [status |-> "draft", paid |-> 0, due |-> Totals[b],
                                              version |-> 1, creator |-> a]]
    BY <1>3 DEF CreateBill
  <2>2. /\ \A x \in Bills : x # b => bills'[x] = bills[x]
        /\ bills'[b].status = "draft" /\ bills'[b].paid = 0 /\ bills'[b].due = Totals[b]
    BY <2>1 DEF AccountsInv, ApprovalInv, TablesTyped
  <2>3. ~InLedger(b) /\ ~InLedger(b)'
    BY <2>1, <2>2 DEF InLedger, Payable
  <2>. QED
    BY <1>1, <2>2, <2>3, BillsOffLedger
<1>4. CASE SubmitBill(r)
  BY <1>2, <1>4 DEF SubmitBill, MayMove
<1>5. ASSUME NEW decision \in {"approved", "rejected"}, ApplyDecision(r, decision)
      PROVE  Linked' /\ Summed'
  <2>1. CASE UNCHANGED <<bills, payments>>
    BY <1>1, <2>1, BillsOffLedger
  <2>2. req[r].document \in Bills
    BY <1>5 DEF ApplyDecision, At, AccountsInv, ApprovalInv, Knows, Voiding, Reversing
  <2>. QED
    BY <1>2, <1>5, <2>1, <2>2 DEF ApplyDecision, MayMove, Refuse, tables
<1>. QED
  BY <1>3, <1>4, <1>5

-----------------------------------------------------------------------------
(* What the requests have read.                                            *)

LEMMA VersionsGrow ==
    ASSUME AccountsInv, [PayablesNext]_vars
    PROVE  PaymentsStep
<1>1. CASE UNCHANGED payments
  BY <1>1 DEF PaymentsStep
<1>2. ASSUME NEW r \in Requests, CreatePayment(r)
      PROVE  PaymentsStep
  <2>1. PICK p \in Payments, amounts \in Applications :
            /\ payments[p].status = "absent"
            /\ payments' = [payments EXCEPT ![p] =
                  [status |-> "approved", amounts |-> amounts, version |-> 1, entry |-> None]]
    BY <1>2 DEF CreatePayment
  <2>2. payments[p].version = 0
    BY <2>1 DEF AccountsInv, Linked, PaymentsLinked
  <2>3. /\ payments'[p].version = 1
        /\ \A q \in Payments : q # p => payments'[q] = payments[q]
    BY <2>1 DEF AccountsInv, ApprovalInv, TablesTyped
  <2>. QED
    BY <2>2, <2>3 DEF PaymentsStep
<1>3. ASSUME NEW p \in Payments, MarkVoided(p)
      PROVE  PaymentsStep
  <2>1. payments'[p].version = payments[p].version + 1 /\ payments[p].version \in Int
    BY <1>3 DEF MarkVoided, AccountsInv, ApprovalInv, TablesTyped, PaymentRow
  <2>2. \A q \in Payments : q # p => payments'[q] = payments[q]
    BY <1>3 DEF MarkVoided, AccountsInv, ApprovalInv, TablesTyped
  <2>. QED
    BY <2>1, <2>2 DEF PaymentsStep
<1>4. ASSUME NEW p \in Payments, NEW e,
             payments' = [payments EXCEPT ![p].status = "posted", ![p].entry = e,
                                          ![p].version = @ + 1]
      PROVE  PaymentsStep
  <2>1. payments'[p].version = payments[p].version + 1 /\ payments[p].version \in Int
    BY <1>4 DEF AccountsInv, ApprovalInv, TablesTyped, PaymentRow
  <2>2. \A q \in Payments : q # p => payments'[q] = payments[q]
    BY <1>4 DEF AccountsInv, ApprovalInv, TablesTyped
  <2>. QED
    BY <2>1, <2>2 DEF PaymentsStep
<1>5. ASSUME NEW r \in Requests, PostPayment(r)
      PROVE  PaymentsStep
  BY <1>1, <1>4, <1>5 DEF PostPayment, Refuse, tables
<1>6. ASSUME NEW r \in Requests, VoidUnposted(r) \/ VoidPosted(r)
      PROVE  PaymentsStep
  <2>1. req[r].document \in Payments
    BY <1>6 DEF VoidUnposted, VoidPosted, At, AccountsInv, ApprovalInv, Knows, Voiding, Reversing
  <2>. QED
    BY <1>1, <1>3, <1>6, <2>1 DEF VoidUnposted, VoidPosted, Refuse, tables
<1>7. ASSUME NEW r \in Requests, Begin(r), ~CreatePayment(r)
      PROVE  UNCHANGED payments
  BY <1>7 DEF Begin, CreateBill, SubmitBill, Decide, BeginPostBill, BeginPostPayment, BeginVoid,
              tables
<1>8. ASSUME NEW r \in Requests,
             \/ \E decision \in {"approved", "rejected"} : ApplyDecision(r, decision)
             \/ ReadBills(r) \/ FindDraft(r) \/ CreateDraft(r) \/ PostBill(r)
             \/ ReadPending(r) \/ ReadOriginal(r, "reverse", "read_link")
             \/ ReadOriginal(r, "read_link", "find_reversal")
             \/ FindReversal(r) \/ CreateReversal(r) \/ Evict(r)
      PROVE  UNCHANGED payments
  BY <1>8 DEF ApplyDecision, ReadBills, FindDraft, CreateDraft, PostBill, ReadPending,
              ReadOriginal, FindReversal, CreateReversal, Evict, Refuse, tables
<1>9. ASSUME UNCHANGED vars \/ OpenPeriod \/ \E e \in Entries : Staff(e)
      PROVE  UNCHANGED payments
  BY <1>9 DEF vars, OpenPeriod, Staff, tables
<1>. QED
  BY <1>1, <1>2, <1>5, <1>6, <1>7, <1>8, <1>9 DEF PayablesNext, Step, Continue

\* A request that waits has read of a version that is still there, or is not any more,
\* and of a draft that is still what it was, or none.
LEMMA ReadsStay ==
    ASSUME AccountsInv, PaymentsStep, JournalStep, TablesTyped', NEW r \in Requests,
           req'[r] = req[r]
    PROVE  Reads(r)'
<1>1. Reads(r) /\ Knows(r) /\ req[r].version \in Int
  BY DEF AccountsInv, ApprovalInv, Local
<1>2. \A p \in Payments : payments[p].version \in Int /\ payments'[p].version \in Int
  BY DEF AccountsInv, ApprovalInv, TablesTyped, PaymentRow
<1>3. ASSUME req[r].document \in Payments, NEW status,
             req[r].version <= payments[req[r].document].version,
             req[r].version = payments[req[r].document].version =>
                payments[req[r].document].status = status
      PROVE  /\ req[r].version <= payments'[req[r].document].version
             /\ req[r].version = payments'[req[r].document].version =>
                   payments'[req[r].document].status = status
  BY <1>1, <1>2, <1>3 DEF PaymentsStep
<1>4. req[r].pc = "post" =>
          /\ journal'[req[r].entry].status # "absent"
          /\ journal'[req[r].entry].status = "draft" =>
                journal'[req[r].entry].source = req[r].document
  BY <1>1 DEF Knows, Reads, JournalStep
<1>. QED
  BY <1>1, <1>3, <1>4 DEF Voiding, Reversing, Reads

\* A request that goes on with the document and the version it has read.
LEMMA ReadsGoOn ==
    ASSUME AccountsInv, UNCHANGED tables, NEW r \in Requests, NEW local \in Local,
           Become(r, local), local.document = req[r].document, local.version = req[r].version,
           \/ /\ local.pc \in {"find", "create", "post"}
              /\ req[r].pc \in {"read_bills", "find", "create"}
           \/ /\ local.pc \in Reversing \cup {"void"}
              /\ req[r].pc \in Reversing \cup {"read_pending"},
           local.pc = "post" =>
              /\ local.document \in Bills => Totals[local.document] > 0
              /\ journal'[local.entry].status # "absent"
              /\ journal'[local.entry].source = local.document
    PROVE  Reads(r)'
<1>1. req'[r] = local /\ UNCHANGED payments /\ Reads(r)
  BY DEF Become, AccountsInv, ApprovalInv, tables
<1>. QED
  BY <1>1 DEF Voiding, Reversing, Reads

\* One that begins reads the status together with the version.
LEMMA BeginReads ==
    ASSUME AccountsInv, DocumentsAssumption, NEW r \in Requests, Begin(r)
    PROVE  Reads(r)'
<1>0. req \in [Requests -> Local] /\ \A p \in Payments : payments[p].version \in Int
  BY DEF AccountsInv, ApprovalInv, TablesTyped, PaymentRow
<1>1. CASE At(r, "idle") /\ UNCHANGED req
  BY <1>1 DEF Voiding, Reversing, Reads, At
<1>2. ASSUME NEW decision \in {"approved", "rejected"}, Decide(r, decision)
      PROVE  Reads(r)'
  BY <1>0, <1>2 DEF Decide, Reads, Voiding, Reversing, Become, Idle
<1>3. ASSUME NEW b \in Bills, BeginPostBill(r, b)
      PROVE  Reads(r)'
  <2>1. req'[r].pc = "find" /\ req'[r].document = b
    BY <1>0, <1>3 DEF BeginPostBill, Become, Idle
  <2>. QED
    BY <2>1 DEF Voiding, Reversing, Reads, DocumentsAssumption
<1>4. ASSUME NEW p \in Payments, BeginPostPayment(r, p)
      PROVE  Reads(r)'
  <2>1. /\ req'[r].pc = "read_bills" /\ req'[r].document = p
        /\ req'[r].version = payments[p].version
        /\ payments[p].status = "approved" /\ UNCHANGED payments
    BY <1>0, <1>4 DEF BeginPostPayment, Become, Idle, tables
  <2>. QED
    BY <1>0, <2>1 DEF Voiding, Reversing, Reads
<1>5. ASSUME NEW p \in Payments, BeginVoid(r, p)
      PROVE  Reads(r)'
  <2>1. /\ req'[r].pc = IF payments[p].status = "posted" THEN "read_pending" ELSE "void_unposted"
        /\ req'[r].document = p /\ req'[r].version = payments[p].version
        /\ payments[p].status \in {"approved", "posted"} /\ UNCHANGED payments
    BY <1>0, <1>5 DEF BeginVoid, Become, Idle, tables
  <2>. QED
    BY <1>0, <2>1 DEF Voiding, Reversing, Reads
<1>. QED
  BY <1>1, <1>2, <1>3, <1>4, <1>5 DEF Begin, CreateBill, SubmitBill, CreatePayment

LEMMA ReturnReads ==
    ASSUME AccountsInv, NEW r \in Requests, Return(r)
    PROVE  Reads(r)'
<1>1. req'[r].pc = "idle"
  BY DEF AccountsInv, ApprovalInv, Return, Become, Idle
<1>. QED
  BY <1>1 DEF Voiding, Reversing, Reads

\* Only a bill of some amount has a draft or is given one.
LEMMA DraftReads ==
    ASSUME AccountsInv, DocumentsAssumption, NEW r \in Requests, FindDraft(r) \/ CreateDraft(r)
    PROVE  Reads(r)'
<1>0. req[r] \in Local
  BY DEF AccountsInv, ApprovalInv
<1>1. CASE Refuse(r)
  BY <1>1, ReturnReads DEF Refuse
<1>2. CASE FindDraft(r) /\ Goto(r, "create")
  <2>. DEFINE local == [req[r] EXCEPT !.pc = "create"]
  <2>1. /\ local \in Local /\ local.pc = "create" /\ local.document = req[r].document
        /\ local.version = req[r].version
    BY <1>0 DEF Local, PC
  <2>2. Become(r, local) /\ UNCHANGED tables /\ req[r].pc = "find"
    BY <1>2 DEF FindDraft, Goto, At
  <2>. HIDE DEF local
  <2>. QED
    BY <2>1, <2>2, ReadsGoOn
<1>3. ASSUME NEW e \in Entries, Become(r, [req[r] EXCEPT !.pc = "post", !.entry = e]),
             UNCHANGED tables, req[r].pc \in {"find", "create"},
             req[r].document \in Bills => Totals[req[r].document] > 0,
             journal'[e].status # "absent", journal'[e].source = req[r].document
      PROVE  Reads(r)'
  <2>. DEFINE local == [req[r] EXCEPT !.pc = "post", !.entry = e]
  <2>1. /\ local \in Local /\ local.pc = "post" /\ local.document = req[r].document
        /\ local.version = req[r].version /\ local.entry = e
    BY <1>0 DEF Local, PC
  <2>2. Become(r, local)
    BY <1>3
  <2>. HIDE DEF local
  <2>. QED
    BY <1>3, <2>1, <2>2, ReadsGoOn
<1>4. ASSUME NEW e \in DraftsOf(req[r].document)
      PROVE  /\ e \in Entries /\ (req[r].document \in Bills => Totals[req[r].document] > 0)
             /\ journal[e].status # "absent" /\ journal[e].source = req[r].document
  BY <1>4 DEF DraftsOf, EntriesOf, Stored, AccountsInv, Linked, DraftsWorth
<1>5. CASE FindDraft(r)
  BY <1>2, <1>3, <1>4, <1>5 DEF FindDraft, Unfinished, At, books, journalVars
<1>6. CASE CreateDraft(r)
  <2>1. FreshId \in Entries /\ req[r].pc = "create"
    BY <1>6, FreshInEntries DEF CreateDraft, At
  <2>2. Draft(FreshId, DateOf[req[r].document], req[r].document) =>
            /\ journal'[FreshId].status # "absent"
            /\ journal'[FreshId].source = req[r].document
    BY <2>1 DEF Draft, PutEntry, AccountsInv, JournalInv
  <2>. QED
    BY <1>1, <1>3, <1>6, <2>1, <2>2 DEF CreateDraft, DraftFor, Draftable
<1>. QED
  BY <1>5, <1>6

LEMMA VoidReads ==
    ASSUME AccountsInv, DocumentsAssumption, NEW r \in Requests,
           \/ ReadBills(r) \/ ReadPending(r)
           \/ ReadOriginal(r, "reverse", "read_link")
           \/ ReadOriginal(r, "read_link", "find_reversal")
           \/ FindReversal(r) \/ CreateReversal(r)
    PROVE  Reads(r)'
<1>0. req[r] \in Local
  BY DEF AccountsInv, ApprovalInv
<1>1. CASE Refuse(r)
  BY <1>1, ReturnReads DEF Refuse
<1>2. CASE ReadBills(r) /\ Goto(r, "find")
  <2>. DEFINE local == [req[r] EXCEPT !.pc = "find"]
  <2>1. /\ local \in Local /\ local.pc = "find" /\ local.document = req[r].document
        /\ local.version = req[r].version
    BY <1>0 DEF Local, PC
  <2>2. Become(r, local) /\ UNCHANGED tables /\ req[r].pc = "read_bills"
    BY <1>2 DEF ReadBills, Goto, At, Refuse
  <2>. HIDE DEF local
  <2>. QED
    BY <2>1, <2>2, ReadsGoOn
<1>3. CASE ReadPending(r)
  <2>1. PICK today \in Dates :
            \E date \in ReversalDate(payments[req[r].document].entry, today) :
               Become(r, [req[r] EXCEPT !.pc = "reverse", !.date = date])
    BY <1>3 DEF ReadPending
  <2>2. PICK date \in ReversalDate(payments[req[r].document].entry, today) :
            Become(r, [req[r] EXCEPT !.pc = "reverse", !.date = date])
    BY <2>1
  <2>3. date \in Dates \cup {None}
    BY DEF ReversalDate, DraftsOf, EntriesOf, AccountsInv, JournalInv, EntryRow
  <2>. DEFINE local == [req[r] EXCEPT !.pc = "reverse", !.date = date]
  <2>4. /\ local \in Local /\ local.pc = "reverse" /\ local.document = req[r].document
        /\ local.version = req[r].version
    BY <1>0, <2>3 DEF Local, PC
  <2>5. Become(r, local) /\ UNCHANGED tables /\ req[r].pc = "read_pending"
    BY <1>3, <2>2 DEF ReadPending, At
  <2>. HIDE DEF local
  <2>. QED
    BY <2>4, <2>5, ReadsGoOn DEF Reversing
<1>4. ASSUME NEW e \in Entries, Become(r, [req[r] EXCEPT !.pc = "void", !.entry = e]),
             UNCHANGED tables, req[r].pc \in Reversing
      PROVE  Reads(r)'
  <2>. DEFINE local == [req[r] EXCEPT !.pc = "void", !.entry = e]
  <2>1. /\ local \in Local /\ local.pc = "void" /\ local.document = req[r].document
        /\ local.version = req[r].version
    BY <1>0 DEF Local, PC
  <2>2. Become(r, local)
    BY <1>4
  <2>. HIDE DEF local
  <2>. QED
    BY <1>4, <2>1, <2>2, ReadsGoOn
<1>5. \A o : DraftsOf(o) \subseteq Entries
  BY DEF DraftsOf, EntriesOf
<1>6. ASSUME NEW pc \in Reversing, req[r].pc \in Reversing, UNCHANGED tables, Goto(r, pc)
      PROVE  Reads(r)'
  <2>. DEFINE local == [req[r] EXCEPT !.pc = pc]
  <2>1. /\ local \in Local /\ local.pc = pc /\ local.document = req[r].document
        /\ local.version = req[r].version
    BY <1>0 DEF Local, PC, Reversing
  <2>2. Become(r, local)
    BY <1>6 DEF Goto
  <2>. HIDE DEF local
  <2>. QED
    BY <1>6, <2>1, <2>2, ReadsGoOn DEF Reversing
<1>7. ASSUME NEW pc \in Reversing, NEW next \in Reversing, ReadOriginal(r, pc, next)
      PROVE  Reads(r)'
  BY <1>1, <1>6, <1>7 DEF ReadOriginal, At
<1>8. CASE FindReversal(r)
  BY <1>1, <1>4, <1>5, <1>6, <1>8 DEF FindReversal, At, Reversing
<1>9. CASE CreateReversal(r)
  BY <1>1, <1>4, <1>9, FreshInEntries DEF CreateReversal, At, Reversing
<1>. QED
  BY <1>1, <1>2, <1>3, <1>7, <1>8, <1>9 DEF ReadBills, Reversing

-----------------------------------------------------------------------------
(* What entries are worth to accounts payable.                             *)

\* It changes only while an entry is edited.
WorthStep ==
    /\ worth' \in [Entries -> Int]
    /\ \A e \in Entries : journal[e].status # "absent" =>
          worth'[e] = worth[e] \/ journal'[e].status = "edited"

\* A new entry is a draft, and worth what its source makes it.
DraftsStep ==
    \A e \in Entries : journal[e].status = "absent" /\ journal'[e].status # "absent" =>
        LET source == journal'[e].source
        IN  /\ journal'[e].status = "draft" /\ worth'[e] = Credit(source)
            /\ source \in Payments => payments[source].status # "absent"
            /\ source \in Entries => Posted(source)

LEMMA CreditType ==
    ASSUME AccountsInv, DocumentsAssumption, KeysAssumption,
           NEW source \in Bills \cup Payments \cup Entries
    PROVE  Credit(source) \in Int
<1>1. CASE source \in Bills
  BY <1>1 DEF Credit, DocumentsAssumption
<1>2. CASE source \in Payments
  <2>1. SumOver(payments[source].amounts, Bills) \in Int
    BY <1>2, SumType DEF AccountsInv, Summed, AmountsNatural, KeysAssumption
  <2>. QED
    BY <1>2, <2>1 DEF Credit, DocumentsAssumption
<1>3. CASE source \in Entries
  BY <1>3 DEF Credit, KeysAssumption, AccountsInv, Valued
<1>. QED
  BY <1>1, <1>2, <1>3

LEMMA DraftForSteps ==
    ASSUME AccountsInv, DocumentsAssumption, KeysAssumption, NEW e \in Entries, NEW date,
           NEW source \in Bills \cup Payments \cup Entries, DraftFor(e, date, source),
           source \in Payments => payments[source].status # "absent",
           source \in Entries => Posted(source)
    PROVE  WorthStep /\ DraftsStep
<1>1. Credit(source) \in Int
  BY CreditType
<1>2. worth \in [Entries -> Int] /\ journal \in [Entries -> EntryRow]
  BY DEF AccountsInv, Valued, JournalInv
<1>3. /\ worth' = [worth EXCEPT ![e] = Credit(source)]
      /\ journal' = [journal EXCEPT ![e] = [status |-> "draft", date |-> date, source |-> source]]
      /\ journal[e].status = "absent"
  BY DEF DraftFor, Draft, PutEntry
<1>. HIDE DEF Credit
<1>4. WorthStep
  BY <1>1, <1>2, <1>3 DEF WorthStep
<1>5. DraftsStep
  BY <1>1, <1>2, <1>3 DEF DraftsStep
<1>. QED
  BY <1>4, <1>5

LEMMA SameWorth ==
    ASSUME AccountsInv, UNCHANGED worth,
           \A e \in Entries : journal[e].status = "absent" => journal'[e].status = "absent"
    PROVE  WorthStep /\ DraftsStep
BY DEF AccountsInv, Valued, WorthStep, DraftsStep

\* The entry of a payment is posted under its key.
LEMMA PaymentsEntry ==
    ASSUME AccountsInv, DocumentsAssumption, NEW p \in Payments, payments[p].entry # None
    PROVE  /\ payments[p].entry \in Entries /\ Posted(payments[p].entry)
           /\ payments[p].status # "absent"
BY DEF AccountsInv, ApprovalInv, PaidInLedger, TablesTyped, PaymentRow, Linked, PaymentsLinked,
       KeysInv, DocumentsAssumption

LEMMA WorthMoves ==
    ASSUME AccountsInv, DocumentsAssumption, KeysAssumption, [PayablesNext]_vars
    PROVE  WorthStep /\ DraftsStep
<1>1. CASE UNCHANGED books
  BY <1>1, SameWorth DEF books, journalVars
<1>2. ASSUME NEW e \in Entries, NEW o \in Entries, NEW k, UNCHANGED worth,
             \/ Remove(e) \/ Void(e) \/ Post(e, k, RequestHash)
             \/ Reverse(o, e, k, RequestHash)
      PROVE  WorthStep /\ DraftsStep
  <2>1. journal \in [Entries -> EntryRow] /\ Pending(e)
    BY <1>2 DEF AccountsInv, JournalInv, Remove, Void, Post, Reverse, Reversible, Postable
  <2>2. \A f \in Entries : journal[f].status = "absent" => journal'[f] = journal[f]
    BY <1>2, <2>1 DEF Remove, Void, Post, Reverse, Reversible, PutEntry, Pending
  <2>. QED
    BY <1>2, <2>2, SameWorth
<1>3. ASSUME NEW r \in Requests, CreateDraft(r)
      PROVE  WorthStep /\ DraftsStep
  <2>1. CASE Refuse(r)
    BY <1>1, <2>1 DEF Refuse
  <2>2. CASE DraftFor(FreshId, DateOf[req[r].document], req[r].document)
    <3>1. FreshId \in Entries
      BY <1>3, FreshInEntries DEF CreateDraft
    <3>2. req[r].pc = "create" /\ Reads(r) /\ Knows(r) /\ req[r].version \in Nat
      BY <1>3 DEF CreateDraft, At, AccountsInv, ApprovalInv, Local
    <3>3. req[r].document \in Bills \cup Payments
      BY <3>2 DEF Knows
    <3>4. req[r].document \in Payments => payments[req[r].document].status # "absent"
      BY <3>2 DEF Reads, AccountsInv, Linked, PaymentsLinked
    <3>5. req[r].document \notin Entries
      BY <3>3 DEF KeysAssumption
    <3>. QED
      BY <2>2, <3>1, <3>3, <3>4, <3>5, DraftForSteps
  <2>. QED
    BY <1>3, <2>1, <2>2 DEF CreateDraft
<1>4. ASSUME NEW r \in Requests, CreateReversal(r)
      PROVE  WorthStep /\ DraftsStep
  <2>. DEFINE o == payments[req[r].document].entry
  <2>1. CASE Refuse(r)
    BY <1>1, <2>1 DEF Refuse
  <2>2. CASE DraftFor(FreshId, req[r].date, o)
    <3>1. FreshId \in Entries
      BY <1>4, FreshInEntries DEF CreateReversal
    <3>2. o \in Entries /\ Posted(o)
      BY <1>4, PaymentsEntry DEF CreateReversal, At, AccountsInv, ApprovalInv, Knows, Voiding,
                                 Reversing
    <3>3. o \notin Payments
      BY <3>2 DEF KeysAssumption
    <3>. HIDE DEF o
    <3>. QED
      BY <2>2, <3>1, <3>2, <3>3, DraftForSteps
  <2>. QED
    BY <1>4, <2>1, <2>2 DEF CreateReversal
<1>5. ASSUME NEW e \in Entries, Staff(e)
      PROVE  WorthStep /\ DraftsStep
  <2>1. CASE StaffEdit(e)
    <3>1. PICK date \in Dates, amount \in StaffAmounts \cup {worth[e]} :
              Edit(e, date) /\ worth' = [worth EXCEPT ![e] = amount]
      BY <2>1 DEF StaffEdit
    <3>2. worth \in [Entries -> Int] /\ journal \in [Entries -> EntryRow] /\ amount \in Int
      BY DEF AccountsInv, Valued, JournalInv, DocumentsAssumption
    <3>3. /\ journal'[e].status = "edited" /\ journal[e].status # "absent"
          /\ \A f \in Entries : f # e => journal'[f] = journal[f]
      BY <3>1, <3>2 DEF Edit, Pending, PutEntry
    <3>. QED
      BY <3>1, <3>2, <3>3 DEF WorthStep, DraftsStep
  <2>2. CASE StaffDraftReversal(e)
    <3>1. PICK o \in Entries, date \in Dates :
              journal[o].status = "posted" /\ DraftFor(e, date, o)
      BY <2>2 DEF StaffDraftReversal
    <3>2. o \notin Payments /\ Posted(o)
      BY <3>1 DEF KeysAssumption, Posted
    <3>. QED
      BY <3>1, <3>2, DraftForSteps
  <2>. QED
    BY <1>2, <1>5, <2>1, <2>2 DEF Staff, StaffReverse
<1>6. ASSUME NEW r \in Requests, PostBill(r) \/ PostPayment(r) \/ VoidPosted(r)
      PROVE  WorthStep /\ DraftsStep
  <2>1. CASE Refuse(r)
    BY <1>1, <2>1 DEF Refuse
  <2>2. req[r].entry \in Entries
    BY <1>6 DEF PostBill, PostPayment, VoidPosted, At, AccountsInv, ApprovalInv, Knows
  <2>3. CASE VoidPosted(r)
    <3>1. payments[req[r].document].entry \in Entries
      BY <2>3 DEF VoidPosted, At, AccountsInv, ApprovalInv, Knows, Voiding, TablesTyped, PaymentRow
    <3>. QED
      BY <1>2, <2>1, <2>2, <2>3, <3>1 DEF VoidPosted
  <2>. QED
    BY <1>2, <1>6, <2>1, <2>2, <2>3 DEF PostBill, PostPayment
<1>7. ASSUME NEW r \in Requests,
             \/ Begin(r) \/ Evict(r)
             \/ \E decision \in {"approved", "rejected"} : ApplyDecision(r, decision)
             \/ ReadBills(r) \/ FindDraft(r) \/ VoidUnposted(r) \/ ReadPending(r)
             \/ ReadOriginal(r, "reverse", "read_link")
             \/ ReadOriginal(r, "read_link", "find_reversal") \/ FindReversal(r)
      PROVE  UNCHANGED books
  BY <1>7 DEF Begin, CreateBill, SubmitBill, CreatePayment, Decide, BeginPostBill,
              BeginPostPayment, BeginVoid, Evict, ApplyDecision, ReadBills, FindDraft,
              VoidUnposted, ReadPending, ReadOriginal, FindReversal, Refuse
<1>8. ASSUME UNCHANGED vars \/ OpenPeriod
      PROVE  UNCHANGED books
  BY <1>8 DEF vars, OpenPeriod
<1>. QED
  BY <1>1, <1>3, <1>4, <1>5, <1>6, <1>7, <1>8, Zenon DEF PayablesNext, Step, Continue

\* A payment keeps what it applies, and an entry it gets was the draft made for it.
PaymentRowsStep ==
    \A p \in Payments :
        /\ payments[p].status # "absent" =>
              payments'[p].status # "absent" /\ payments'[p].amounts = payments[p].amounts
        /\ payments'[p].entry # payments[p].entry =>
              /\ payments'[p].entry \in Entries /\ payments'[p].amounts = payments[p].amounts
              /\ journal[payments'[p].entry].status = "draft"
              /\ journal[payments'[p].entry].source = p /\ UNCHANGED worth

LEMMA PaymentRowsMove ==
    ASSUME AccountsInv, DocumentsAssumption, KeysAssumption, [PayablesNext]_vars
    PROVE  PaymentRowsStep
<1>1. CASE UNCHANGED payments
  BY <1>1 DEF PaymentRowsStep
<1>2. ASSUME NEW r \in Requests, CreatePayment(r)
      PROVE  PaymentRowsStep
  <2>1. PICK p \in Payments, amounts \in Applications :
            /\ payments[p].status = "absent"
            /\ payments' = [payments EXCEPT ![p] =
                  [status |-> "approved", amounts |-> amounts, version |-> 1, entry |-> None]]
    BY <1>2 DEF CreatePayment
  <2>2. payments[p].entry = None
    BY <2>1 DEF AccountsInv, ApprovalInv, PaidInLedger
  <2>3. payments'[p].entry = None /\ \A q \in Payments : q # p => payments'[q] = payments[q]
    BY <2>1 DEF AccountsInv, ApprovalInv, TablesTyped
  <2>. QED
    BY <2>1, <2>2, <2>3 DEF PaymentRowsStep
<1>3. ASSUME NEW p \in Payments, MarkVoided(p)
      PROVE  PaymentRowsStep
  BY <1>3, MarkVoidedRow DEF AccountsInv, PaymentRowsStep
<1>4. ASSUME NEW r \in Requests, VoidUnposted(r) \/ VoidPosted(r)
      PROVE  PaymentRowsStep
  <2>1. req[r].document \in Payments
    BY <1>4 DEF VoidUnposted, VoidPosted, At, AccountsInv, ApprovalInv, Knows, Voiding
  <2>. QED
    BY <1>1, <1>3, <1>4, <2>1 DEF VoidUnposted, VoidPosted, Refuse, tables
<1>5. ASSUME NEW r \in Requests, PostPayment(r)
      PROVE  PaymentRowsStep
  <2>. DEFINE p == req[r].document
              e == req[r].entry
  <2>1. p \in Payments /\ e \in Entries /\ Reads(r) /\ req[r].pc = "post"
    BY <1>5 DEF PostPayment, At, AccountsInv, ApprovalInv, Knows
  <2>2. CASE Refuse(r)
    BY <1>1, <2>2 DEF Refuse, tables
  <2>3. CASE /\ journal[e].status = "draft" /\ UNCHANGED worth
             /\ payments' = [payments EXCEPT ![p].status = "posted", ![p].entry = e,
                                             ![p].version = @ + 1]
    <3>1. journal[e].source = p
      BY <2>1, <2>3 DEF Reads
    <3>2. /\ payments'[p].status = "posted" /\ payments'[p].entry = e
          /\ payments'[p].amounts = payments[p].amounts
          /\ \A q \in Payments : q # p => payments'[q] = payments[q]
      BY <2>1, <2>3, PostedRow DEF AccountsInv
    <3>. HIDE DEF p, e
    <3>. QED
      BY <2>1, <2>3, <3>1, <3>2 DEF PaymentRowsStep
  <2>. QED
    BY <1>5, <2>2, <2>3 DEF PostPayment, Fresh
<1>6. ASSUME NEW r \in Requests, Begin(r), ~CreatePayment(r)
      PROVE  UNCHANGED payments
  BY <1>6 DEF Begin, CreateBill, SubmitBill, Decide, BeginPostBill, BeginPostPayment, BeginVoid,
              tables
<1>7. ASSUME NEW r \in Requests,
             \/ \E decision \in {"approved", "rejected"} : ApplyDecision(r, decision)
             \/ ReadBills(r) \/ FindDraft(r) \/ CreateDraft(r) \/ PostBill(r)
             \/ ReadPending(r) \/ ReadOriginal(r, "reverse", "read_link")
             \/ ReadOriginal(r, "read_link", "find_reversal")
             \/ FindReversal(r) \/ CreateReversal(r) \/ Evict(r)
      PROVE  UNCHANGED payments
  BY <1>7 DEF ApplyDecision, ReadBills, FindDraft, CreateDraft, PostBill, ReadPending,
              ReadOriginal, FindReversal, CreateReversal, Evict, Refuse, tables
<1>8. ASSUME UNCHANGED vars \/ OpenPeriod \/ \E e \in Entries : Staff(e)
      PROVE  UNCHANGED payments
  BY <1>8 DEF vars, OpenPeriod, Staff, tables
<1>. QED
  BY <1>1, <1>2, <1>4, <1>5, <1>6, <1>7, <1>8, Zenon DEF PayablesNext, Step, Continue

\* Drafts and the entries of payments are worth what they stand for.
LEMMA CreditsKept ==
    ASSUME AccountsInv, DocumentsAssumption, KeysAssumption, JournalStep, WorthStep, DraftsStep,
           PaymentRowsStep
    PROVE  /\ worth' \in [Entries -> Int]
           /\ \A e \in Entries : Posted(e) => Posted(e)' /\ worth'[e] = worth[e]
           /\ \A e \in Entries : journal'[e].status = "draft" => CreditOfDraft(e)'
           /\ \A p \in Payments : CreditOfPayment(p)'
<1>1. \A e \in Entries : Posted(e) => Posted(e)' /\ worth'[e] = worth[e]
  BY DEF JournalStep, WorthStep, Posted
<1>2. ASSUME NEW e \in Entries, journal'[e].status = "draft", journal[e].status # "absent"
      PROVE  CreditOfDraft(e)'
  <2>1. journal'[e] = journal[e] /\ worth'[e] = worth[e]
    BY <1>2 DEF JournalStep, WorthStep
  <2>2. CreditOfDraft(e)
    BY <1>2, <2>1 DEF AccountsInv, Valued
  <2>3. PICK source : source = journal[e].source
    OBVIOUS
  <2>4. source \in Entries => Posted(source)' /\ worth'[source] = worth[source]
    BY <1>1, <2>2, <2>3 DEF CreditOfDraft
  <2>. QED
    BY <2>1, <2>2, <2>3, <2>4 DEF CreditOfDraft, PaymentRowsStep
<1>3. ASSUME NEW e \in Entries, journal'[e].status = "draft", journal[e].status = "absent"
      PROVE  CreditOfDraft(e)'
  <2>0. PICK source : source = journal'[e].source
    OBVIOUS
  <2>1. /\ worth'[e] = Credit(source)
        /\ source \in Payments => payments[source].status # "absent"
        /\ source \in Entries => Posted(source)
    BY <1>3, <2>0 DEF DraftsStep
  <2>2. source \in Bills => worth'[e] = Totals[source]
    BY <2>1 DEF Credit
  <2>3. source \in Payments =>
            payments'[source].status # "absent"
            /\ worth'[e] = -SumOver(payments'[source].amounts, Bills)
    BY <2>1 DEF Credit, PaymentRowsStep, DocumentsAssumption
  <2>4. source \in Entries => Posted(source)' /\ worth'[e] = -worth'[source]
    BY <1>1, <2>1 DEF Credit, KeysAssumption
  <2>. QED
    BY <2>0, <2>2, <2>3, <2>4 DEF CreditOfDraft
<1>4. ASSUME NEW p \in Payments, payments'[p].entry # None
      PROVE  worth'[payments'[p].entry] = -SumOver(payments'[p].amounts, Bills)
  <2>1. CASE payments'[p].entry = payments[p].entry
    <3>1. CreditOfPayment(p) /\ payments[p].entry # None
      BY <1>4, <2>1 DEF AccountsInv, Valued
    <3>2. worth'[payments[p].entry] = worth[payments[p].entry] /\ payments'[p].amounts = payments[p].amounts
      BY <1>1, <3>1, PaymentsEntry DEF PaymentRowsStep
    <3>. QED
      BY <2>1, <3>1, <3>2 DEF CreditOfPayment
  <2>2. CASE payments'[p].entry # payments[p].entry
    <3>. DEFINE e == payments'[p].entry
    <3>1. /\ e \in Entries /\ journal[e].status = "draft" /\ journal[e].source = p
          /\ payments'[p].amounts = payments[p].amounts
      BY <2>2 DEF PaymentRowsStep
    <3>2. worth[e] = -SumOver(payments[p].amounts, Bills)
      BY <3>1 DEF AccountsInv, Valued, CreditOfDraft
    <3>3. worth'[e] = worth[e]
      BY <2>2 DEF PaymentRowsStep
    <3>. QED
      BY <3>1, <3>2, <3>3
  <2>. QED
    BY <2>1, <2>2
<1>. QED
  BY <1>1, <1>2, <1>3, <1>4 DEF WorthStep, CreditOfPayment

\* The account in the journal: what is posted under the keys of staff, and all of it.
StaffBalance == SumOver(worth, PostedByStaff)

LEMMA AccountsFinite ==
    ASSUME AccountsInv, KeysAssumption
    PROVE  /\ IsFiniteSet(InBooks) /\ IsFiniteSet(PostedByStaff)
           /\ PostedByStaff \subseteq InBooks /\ InBooks \subseteq Entries
           /\ IsFiniteSet({b \in Bills : InLedger(b)})
           /\ Balance \in Int /\ StaffBalance \in Int /\ Outstanding \in Int
<1>1. PostedByStaff \subseteq InBooks /\ InBooks \subseteq Entries
  BY DEF PostedByStaff, InBooks
<1>2. /\ IsFiniteSet(InBooks) /\ IsFiniteSet(PostedByStaff)
      /\ IsFiniteSet({b \in Bills : InLedger(b)})
  BY <1>1, FS_Subset DEF KeysAssumption
<1>3. \A e \in Entries : worth[e] \in Int
  BY DEF AccountsInv, Valued
<1>4. \A b \in {x \in Bills : InLedger(x)} : Due[b] \in Int
  BY DEF Due, AccountsInv, ApprovalInv, TablesTyped, BillRow
<1>. QED
  BY <1>1, <1>2, <1>3, <1>4, SumType DEF Balance, StaffBalance, Outstanding

\* A step that posts nothing, whatever it drafts and edits.
LEMMA NothingPosted ==
    ASSUME AccountsInv, KeysAssumption, \A e \in Entries : Posted(e)' <=> Posted(e),
           UNCHANGED keys, \A e \in Entries : Posted(e) => worth'[e] = worth[e]
    PROVE  Balance' = Balance /\ StaffBalance' = StaffBalance
<1>1. InBooks' = InBooks /\ PostedByStaff' = PostedByStaff
  BY DEF InBooks, PostedByStaff, StaffKeys
<1>2. \A e \in InBooks : worth'[e] = worth[e]
  BY DEF InBooks
<1>. QED
  BY <1>1, <1>2, AccountsFinite, SumOfSame DEF Balance, StaffBalance

\* One that posts an entry adds what it is worth, also to what staff have posted when the
\* key is one of theirs.
LEMMA OnePosted ==
    ASSUME AccountsInv, DocumentsAssumption, KeysAssumption, UNCHANGED worth,
           NEW e \in Entries, NEW o \in Entries, NEW k \in Keys,
           Post(e, k, RequestHash) \/ Reverse(o, e, k, RequestHash)
    PROVE  /\ Balance' = Balance + worth[e]
           /\ StaffBalance' = StaffBalance + (IF k \in StaffKeys THEN worth[e] ELSE 0)
<1>1. JournalInv /\ KeysInv /\ RequestHash \in Hashes /\ ReceiptsAreNotNull
  BY RequestHashExists DEF AccountsInv
<1>2. /\ ~Posted(e) /\ Posted(e)'
      /\ \A f \in Entries : f # e => (Posted(f)' <=> Posted(f))
  <2>1. CASE Post(e, k, RequestHash)
    <3>1. journal'[e].status = "posted" /\ Pending(e)
      BY <1>1, <2>1, PostKeeps DEF Post, Postable
    <3>2. \A f \in Entries : f # e => journal'[f] = journal[f]
      BY <1>1, <2>1 DEF Post, PutEntry, JournalInv
    <3>. QED
      BY <3>1, <3>2 DEF Posted, Pending
  <2>2. CASE Reverse(o, e, k, RequestHash)
    BY <1>1, <2>2, ReverseStep DEF Posted, Pending
  <2>. QED
    BY <2>1, <2>2
<1>3. /\ keys'[k] # None /\ keys'[k].entry = e /\ \A l \in Keys : l # k => keys'[l] = keys[l]
      /\ \A l \in Keys : keys[l] # None => keys[l].entry \in Entries /\ Posted(keys[l].entry)
      /\ keys[k] = None
  BY <1>1, PostTakesKey, ReverseTakesKey DEF KeysInv
<1>4. e \notin InBooks /\ InBooks' = InBooks \cup {e}
  BY <1>2 DEF InBooks
<1>5. worth[e] \in Int /\ \A f \in InBooks \cup {e} : worth[f] \in Int
  BY <1>4, AccountsFinite DEF AccountsInv, Valued
<1>6. Balance' = Balance + worth[e]
  <2>1. SumOver(worth, InBooks \cup {e}) = worth[e] + SumOver(worth, InBooks)
    BY <1>4, <1>5, AccountsFinite, SumWith
  <2>. QED
    BY <1>4, <1>5, <2>1, AccountsFinite DEF Balance
<1>7. CASE k \in StaffKeys
  <2>1. PostedByStaff' = PostedByStaff \cup {e} /\ e \notin PostedByStaff
    <3>1. StaffKeys \subseteq Keys
      BY DEF StaffKeys
    <3>. QED
      BY <1>2, <1>3, <1>7, <3>1 DEF PostedByStaff, InBooks, StaffKeys
  <2>2. SumOver(worth, PostedByStaff \cup {e}) = worth[e] + SumOver(worth, PostedByStaff)
    BY <1>5, <2>1, AccountsFinite, SumWith
  <2>. QED
    BY <1>5, <1>6, <1>7, <2>1, <2>2, AccountsFinite DEF StaffBalance
<1>8. CASE k \notin StaffKeys
  <2>1. PostedByStaff' = PostedByStaff
    <3>1. StaffKeys \subseteq Keys
      BY DEF StaffKeys
    <3>. QED
      BY <1>2, <1>3, <1>8, <3>1 DEF PostedByStaff, InBooks, StaffKeys
  <2>. QED
    BY <1>6, <1>8, <2>1, AccountsFinite DEF StaffBalance
<1>. QED
  BY <1>6, <1>7, <1>8

\* What bills have due while they stay in the ledger.
LEMMA OutstandingStays ==
    ASSUME AccountsInv, KeysAssumption, \A b \in Bills : InLedger(b)' <=> InLedger(b),
           \A b \in Bills : InLedger(b) => bills'[b].due = bills[b].due
    PROVE  Outstanding' = Outstanding
<1>. DEFINE L == {b \in Bills : InLedger(b)}
            after == [b \in Bills |-> bills'[b].due]
<1>1. IsFiniteSet(L) /\ Outstanding = SumOver(Due, L)
  BY AccountsFinite DEF Outstanding
<1>2. Outstanding' = SumOver(after, L)
  BY DEF Outstanding, Due
<1>3. \A b \in L : Due[b] = after[b]
  BY DEF Due
<1>. HIDE DEF L, after
<1>. QED
  BY <1>1, <1>2, <1>3, SumOfSame

\* A payment, and the void of one, change what is due by what the payment applies.
LEMMA OutstandingMoves ==
    ASSUME AccountsInv, KeysAssumption, NEW p \in Payments,
           \A b \in PaidBy(p) : InLedger(b), \A b \in Bills : InLedger(b)' <=> InLedger(b),
           ApplyPayment(p) \/ RestoreBills(p)
    PROVE  /\ ApplyPayment(p) =>
                 Outstanding' = Outstanding - SumOver(payments[p].amounts, Bills)
           /\ RestoreBills(p) =>
                 Outstanding' = Outstanding + SumOver(payments[p].amounts, Bills)
<1>. DEFINE L == {b \in Bills : InLedger(b)}
            amounts == payments[p].amounts
            after == [b \in Bills |-> bills'[b].due]
<1>1. IsFiniteSet(L) /\ L \subseteq Bills /\ Outstanding = SumOver(Due, L)
  BY AccountsFinite DEF Outstanding
<1>2. \A b \in Bills : amounts[b] \in Nat /\ (b \notin L => amounts[b] = 0)
  BY DEF PaidBy, AccountsInv, Summed, AmountsNatural
<1>3. SumOver(amounts, Bills) = SumOver(amounts, L)
  BY <1>1, <1>2, SumOnSubset DEF KeysAssumption
<1>4. Outstanding' = SumOver(after, L)
  BY DEF Outstanding, Due
<1>5. \A b \in Bills : bills[b] \in BillRow
  BY DEF AccountsInv, ApprovalInv, TablesTyped
<1>. HIDE DEF L
<1>6. ASSUME ApplyPayment(p)
      PROVE  Outstanding' = Outstanding - SumOver(amounts, Bills)
  <2>1. \A b \in Bills : after[b] = bills[b].due - amounts[b]
    <3>1. ASSUME NEW b \in Bills PROVE bills'[b].due = bills[b].due - amounts[b]
      <4>1. bills[b] \in BillRow /\ amounts[b] \in Nat /\ (b \notin PaidBy(p) => amounts[b] = 0)
        BY <1>2, <1>5 DEF PaidBy
      <4>2. bills'[b] = IF b \in PaidBy(p) THEN Reduce(bills[b], amounts[b]) ELSE bills[b]
        BY <1>6 DEF ApplyPayment
      <4>. HIDE DEF amounts
      <4>. QED
        BY <4>1, <4>2 DEF Reduce, BillRow
    <3>. QED
      BY <3>1
  <2>2. \A b \in L : after[b] \in Int /\ amounts[b] \in Int /\ Due[b] = after[b] + amounts[b]
    BY <1>1, <1>2, <1>5, <2>1 DEF Due, BillRow
  <2>. HIDE DEF after, amounts
  <2>3. SumOver(Due, L) = SumOver(after, L) + SumOver(amounts, L)
    BY <1>1, <2>2, SumOfPairs
  <2>4. SumOver(after, L) \in Int /\ SumOver(amounts, L) \in Int
    BY <1>1, <2>2, SumType
  <2>. QED
    BY <1>1, <1>3, <1>4, <2>3, <2>4
<1>7. ASSUME RestoreBills(p)
      PROVE  Outstanding' = Outstanding + SumOver(amounts, Bills)
  <2>1. \A b \in Bills : after[b] = bills[b].due + amounts[b]
    <3>1. ASSUME NEW b \in Bills PROVE bills'[b].due = bills[b].due + amounts[b]
      <4>1. bills[b] \in BillRow /\ amounts[b] \in Nat /\ (b \notin PaidBy(p) => amounts[b] = 0)
        BY <1>2, <1>5 DEF PaidBy
      <4>2. bills'[b] = IF b \in PaidBy(p) THEN Restore(bills[b], amounts[b]) ELSE bills[b]
        BY <1>7 DEF RestoreBills
      <4>. HIDE DEF amounts
      <4>. QED
        BY <4>1, <4>2 DEF Restore, BillRow
    <3>. QED
      BY <3>1
  <2>2. \A b \in L : Due[b] \in Int /\ amounts[b] \in Int /\ after[b] = Due[b] + amounts[b]
    BY <1>1, <1>2, <1>5, <2>1 DEF Due, BillRow
  <2>. HIDE DEF after, amounts
  <2>3. SumOver(after, L) = SumOver(Due, L) + SumOver(amounts, L)
    BY <1>1, <2>2, SumOfPairs
  <2>. QED
    BY <1>1, <1>3, <1>4, <2>3
<1>. QED
  BY <1>6, <1>7

LEMMA PostBillAgrees ==
    ASSUME AccountsInv, DocumentsAssumption, KeysAssumption, NEW r \in Requests, PostBill(r),
           ~Refuse(r)
    PROVE  ControlAccountAgrees'
<1>1. PICK b \in Bills, e \in Entries :
          /\ b = req[r].document /\ e = req[r].entry
          /\ bills[b].status = "approved" /\ journal[e].status = "draft" /\ req[r].pc = "post"
          /\ Post(e, b, RequestHash) /\ Move(b, "posted") /\ UNCHANGED worth
  <2>1. req[r].document \in Bills /\ req[r].entry \in Entries
    BY DEF PostBill, At, AccountsInv, ApprovalInv, Knows
  <2>. QED
    BY <2>1 DEF PostBill, BillGuard, Fresh, At
<1>2. worth[e] = Totals[b] /\ Totals[b] \in Nat
  BY <1>1 DEF AccountsInv, Reads, Valued, CreditOfDraft, DocumentsAssumption
<1>3. b \in Keys /\ b \notin StaffKeys
  BY DEF DocumentsAssumption, StaffKeys
<1>4. Balance' = Balance + Totals[b] /\ StaffBalance' = StaffBalance
  BY <1>1, <1>2, <1>3, OnePosted, AccountsFinite
<1>5. /\ bills'[b].status = "posted" /\ bills'[b].due = bills[b].due
      /\ \A x \in Bills : x # b => bills'[x] = bills[x]
  BY <1>1 DEF Move, AccountsInv, ApprovalInv, TablesTyped, BillRow
<1>6. /\ ~InLedger(b) /\ InLedger(b)'
      /\ \A x \in Bills : x # b => (InLedger(x)' <=> InLedger(x))
  BY <1>1, <1>5 DEF InLedger, Payable
<1>7. Outstanding' = Outstanding + Totals[b]
  <2>. DEFINE L == {x \in Bills : InLedger(x)}
  <2>1. {x \in Bills : InLedger(x)}' = L \cup {b} /\ b \notin L
    BY <1>6
  <2>2. Due' = Due /\ Due[b] = Totals[b]
    BY <1>1, <1>5, <1>6 DEF Due, AccountsInv, Summed, OffLedger
  <2>3. \A x \in L \cup {b} : Due[x] \in Int
    BY DEF Due, AccountsInv, ApprovalInv, TablesTyped, BillRow
  <2>4. IsFiniteSet(L) /\ Outstanding = SumOver(Due, L) /\ Outstanding \in Int
    BY AccountsFinite DEF Outstanding
  <2>5. Outstanding' = SumOver(Due, L \cup {b})
    BY <2>1, <2>2 DEF Outstanding
  <2>. HIDE DEF L
  <2>. QED
    BY <1>2, <2>1, <2>2, <2>3, <2>4, <2>5, SumWith
<1>. QED
  BY <1>2, <1>4, <1>7, AccountsFinite DEF AccountsInv, Valued, ControlAccountAgrees, StaffBalance

LEMMA PostPaymentAgrees ==
    ASSUME AccountsInv, DocumentsAssumption, KeysAssumption, NEW r \in Requests, PostPayment(r),
           ~Refuse(r), \A b \in Bills : InLedger(b)' <=> InLedger(b)
    PROVE  ControlAccountAgrees'
<1>1. PICK p \in Payments, e \in Entries :
          /\ p = req[r].document /\ e = req[r].entry
          /\ Accepted(p) /\ journal[e].status = "draft" /\ req[r].pc = "post"
          /\ Post(e, p, RequestHash) /\ ApplyPayment(p) /\ UNCHANGED worth
  <2>1. req[r].document \in Payments /\ req[r].entry \in Entries
    BY DEF PostPayment, At, AccountsInv, ApprovalInv, Knows
  <2>. QED
    BY <2>1 DEF PostPayment, Fresh, At
<1>2. /\ worth[e] = -SumOver(payments[p].amounts, Bills)
      /\ SumOver(payments[p].amounts, Bills) \in Int
  <2>1. journal[e].source = p
    BY <1>1 DEF AccountsInv, Reads
  <2>2. SumOver(payments[p].amounts, Bills) \in Int
    BY SumType DEF AccountsInv, Summed, AmountsNatural, KeysAssumption
  <2>. QED
    BY <1>1, <2>1, <2>2 DEF AccountsInv, Valued, CreditOfDraft
<1>3. p \in Keys /\ p \notin StaffKeys
  BY DEF DocumentsAssumption, StaffKeys
<1>4. Balance' = Balance + worth[e] /\ StaffBalance' = StaffBalance
  BY <1>1, <1>3, OnePosted, AccountsFinite
<1>5. \A b \in PaidBy(p) : InLedger(b)
  BY <1>1 DEF Accepted, InLedger
<1>6. Outstanding' = Outstanding - SumOver(payments[p].amounts, Bills)
  BY <1>1, <1>5, OutstandingMoves
<1>. QED
  BY <1>2, <1>4, <1>6, AccountsFinite DEF AccountsInv, Valued, ControlAccountAgrees, StaffBalance

LEMMA VoidPostedAgrees ==
    ASSUME AccountsInv, DocumentsAssumption, KeysAssumption, NEW r \in Requests, VoidPosted(r),
           ~Refuse(r), \A b \in Bills : InLedger(b)' <=> InLedger(b)
    PROVE  ControlAccountAgrees'
<1>1. PICK p \in Payments, o \in Entries, e \in Entries :
          /\ payments[p].entry = o /\ journal[e].status = "draft" /\ journal[e].source = o
          /\ Reverse(o, e, VoidKey(p), RequestHash) /\ RestoreBills(p) /\ UNCHANGED worth
  <2>1. /\ req[r].document \in Payments /\ req[r].entry \in Entries
        /\ payments[req[r].document].entry \in Entries
    BY DEF VoidPosted, At, AccountsInv, ApprovalInv, TablesTyped, PaymentRow, Knows, Voiding
  <2>. QED
    BY <2>1 DEF VoidPosted, Reversible
<1>2. /\ worth[e] = SumOver(payments[p].amounts, Bills)
      /\ SumOver(payments[p].amounts, Bills) \in Int
  <2>1. SumOver(payments[p].amounts, Bills) \in Int
    BY SumType DEF AccountsInv, Summed, AmountsNatural, KeysAssumption
  <2>2. worth[e] = -worth[o]
    BY <1>1 DEF AccountsInv, Valued, CreditOfDraft
  <2>3. worth[o] = -SumOver(payments[p].amounts, Bills)
    BY <1>1 DEF AccountsInv, Valued, CreditOfPayment, DocumentsAssumption
  <2>. QED
    BY <2>1, <2>2, <2>3
<1>3. VoidKey(p) \in Keys /\ VoidKey(p) \notin StaffKeys
  BY DEF DocumentsAssumption, StaffKeys
<1>4. Balance' = Balance + worth[e] /\ StaffBalance' = StaffBalance
  BY <1>1, <1>3, OnePosted, AccountsFinite
<1>5. \A b \in PaidBy(p) : InLedger(b)
  BY <1>1 DEF AccountsInv, ApprovalInv, PaidInLedger, DocumentsAssumption
<1>6. Outstanding' = Outstanding + SumOver(payments[p].amounts, Bills)
  BY <1>1, <1>5, OutstandingMoves
<1>. QED
  BY <1>2, <1>4, <1>6, AccountsFinite DEF AccountsInv, Valued, ControlAccountAgrees, StaffBalance

LEMMA StaffAgrees ==
    ASSUME AccountsInv, DocumentsAssumption, KeysAssumption, NEW e \in Entries, Staff(e),
           \A f \in Entries : Posted(f) => worth'[f] = worth[f]
    PROVE  ControlAccountAgrees'
<1>1. Outstanding' = Outstanding
  BY DEF Staff, tables, Outstanding, Due, InLedger, Payable
<1>2. CASE \/ StaffEdit(e) \/ Remove(e) \/ Void(e) \/ StaffDraftReversal(e)
  <2>1. UNCHANGED keys
    BY <1>2 DEF StaffEdit, Edit, Remove, Void, StaffDraftReversal, DraftFor, Draft
  <2>2. ~Posted(e) /\ ~Posted(e)' /\ \A f \in Entries : f # e => journal'[f] = journal[f]
    BY <1>2 DEF AccountsInv, JournalInv, EntryRow, StaffEdit, Edit, Remove, Removed, Void,
                StaffDraftReversal, DraftFor, Draft, PutEntry, Pending, Posted
  <2>3. \A f \in Entries : Posted(f)' <=> Posted(f)
    BY <2>2 DEF Posted
  <2>4. Balance' = Balance /\ StaffBalance' = StaffBalance
    BY <2>1, <2>3, NothingPosted
  <2>. QED
    BY <1>1, <2>4 DEF AccountsInv, Valued, ControlAccountAgrees, StaffBalance
<1>3. ASSUME NEW k \in StaffKeys, NEW o \in Entries, UNCHANGED worth,
             Post(e, k, RequestHash) \/ Reverse(o, e, k, RequestHash)
      PROVE  ControlAccountAgrees'
  <2>1. Balance' = Balance + worth[e] /\ StaffBalance' = StaffBalance + worth[e]
    BY <1>3, StaffKeysApart, OnePosted
  <2>2. worth[e] \in Int
    BY DEF AccountsInv, Valued
  <2>. QED
    BY <1>1, <2>1, <2>2, AccountsFinite DEF AccountsInv, Valued, ControlAccountAgrees, StaffBalance
<1>. QED
  BY <1>2, <1>3 DEF Staff, StaffReverse

\* Bills are posted and paid in the ledger, and decided on before it.
LEMMA PaymentsKeepLedger ==
    ASSUME AccountsInv, DocumentsAssumption, KeysAssumption, NEW r \in Requests,
           PostPayment(r) \/ VoidPosted(r), ~Refuse(r)
    PROVE  \A b \in Bills : InLedger(b)' <=> InLedger(b)
<1>. DEFINE p == req[r].document
<1>1. p \in Payments /\ (VoidPosted(r) => payments[p].entry # None)
  BY DEF PostPayment, VoidPosted, At, AccountsInv, ApprovalInv, Knows, Voiding
<1>2. (ApplyPayment(p) /\ Accepted(p)) \/ (RestoreBills(p) /\ VoidPosted(r))
  BY DEF PostPayment, VoidPosted
<1>. HIDE DEF p
<1>3. \A b \in PaidBy(p) : InLedger(b)
  BY <1>1, <1>2 DEF Accepted, InLedger, AccountsInv, ApprovalInv, PaidInLedger
<1>4. /\ \A b \in Bills : bills'[b] = bills[b] \/ (InLedger(b) /\ InLedger(b)')
      /\ \A b \in Bills : InLedger(b) => InLedger(b)'
  BY <1>1, <1>2, <1>3, AmountsApplied DEF AccountsInv
<1>. QED
  BY <1>4 DEF InLedger, Payable

LEMMA BillsMoveOffLedger ==
    ASSUME AccountsInv, NEW r \in Requests,
           \/ CreateBill(r) \/ SubmitBill(r)
           \/ \E decision \in {"approved", "rejected"} : ApplyDecision(r, decision)
    PROVE  \A b \in Bills :
               /\ InLedger(b)' <=> InLedger(b)
               /\ InLedger(b) => bills'[b] = bills[b]
<1>1. ASSUME NEW b \in Bills, ~InLedger(b), ~InLedger(b)',
             \A x \in Bills : x # b => bills'[x] = bills[x]
      PROVE  \A x \in Bills :
                 /\ InLedger(x)' <=> InLedger(x)
                 /\ InLedger(x) => bills'[x] = bills[x]
  BY <1>1 DEF InLedger, Payable
<1>2. ASSUME NEW b \in Bills, NEW to \in {"submitted", "approved", "rejected"},
             bills[b].status \in {"draft", "submitted"}, Move(b, to)
      PROVE  \A x \in Bills :
                 /\ InLedger(x)' <=> InLedger(x)
                 /\ InLedger(x) => bills'[x] = bills[x]
  <2>1. /\ \A x \in Bills : x # b => bills'[x] = bills[x]
        /\ bills'[b].status = to
    BY <1>2 DEF Move, AccountsInv, ApprovalInv, TablesTyped, BillRow
  <2>. QED
    BY <1>1, <1>2, <2>1 DEF InLedger, Payable
<1>3. CASE CreateBill(r)
  <2>1. PICK b \in Bills, a \in Actors :
            /\ bills[b].status = "absent"
            /\ bills' = [bills EXCEPT ![b] = [status |-> "draft", paid |-> 0, due |-> Totals[b],
                                              version |-> 1, creator |-> a]]
    BY <1>3 DEF CreateBill
  <2>2. /\ \A x \in Bills : x # b => bills'[x] = bills[x]
        /\ bills'[b].status = "draft"
    BY <2>1 DEF AccountsInv, ApprovalInv, TablesTyped
  <2>. QED
    BY <1>1, <2>1, <2>2 DEF InLedger, Payable
<1>4. CASE SubmitBill(r)
  BY <1>2, <1>4 DEF SubmitBill, MayMove
<1>5. ASSUME NEW decision \in {"approved", "rejected"}, ApplyDecision(r, decision)
      PROVE  \A x \in Bills :
                 /\ InLedger(x)' <=> InLedger(x)
                 /\ InLedger(x) => bills'[x] = bills[x]
  <2>1. CASE UNCHANGED bills
    BY <2>1 DEF InLedger, Payable
  <2>2. req[r].document \in Bills
    BY <1>5 DEF ApplyDecision, At, AccountsInv, ApprovalInv, Knows
  <2>. QED
    BY <1>2, <1>5, <2>1, <2>2 DEF ApplyDecision, MayMove, Refuse, tables
<1>. QED
  BY <1>3, <1>4, <1>5

LEMMA NextValued ==
    ASSUME AccountsInv, DocumentsAssumption, KeysAssumption, [PayablesNext]_vars, JournalStep
    PROVE  Valued'
<1>1. WorthStep /\ DraftsStep /\ PaymentRowsStep
  BY WorthMoves, PaymentRowsMove
<1>2. /\ worth' \in [Entries -> Int]
      /\ \A e \in Entries : Posted(e) => Posted(e)' /\ worth'[e] = worth[e]
      /\ \A e \in Entries : journal'[e].status = "draft" => CreditOfDraft(e)'
      /\ \A p \in Payments : CreditOfPayment(p)'
  BY <1>1, CreditsKept
<1>3. ASSUME UNCHANGED keys, \A e \in Entries : Posted(e)' <=> Posted(e),
             \A b \in Bills : InLedger(b)' <=> InLedger(b),
             \A b \in Bills : InLedger(b) => bills'[b].due = bills[b].due
      PROVE  ControlAccountAgrees'
  <2>1. Balance' = Balance /\ StaffBalance' = StaffBalance
    BY <1>2, <1>3, NothingPosted
  <2>2. Outstanding' = Outstanding
    BY <1>3, OutstandingStays
  <2>. QED
    BY <2>1, <2>2 DEF AccountsInv, Valued, ControlAccountAgrees, StaffBalance
<1>4. ASSUME UNCHANGED bills, UNCHANGED books
      PROVE  ControlAccountAgrees'
  <2>1. \A b \in Bills : InLedger(b)' <=> InLedger(b)
    BY <1>4 DEF InLedger, Payable
  <2>2. UNCHANGED keys /\ \A e \in Entries : Posted(e)' <=> Posted(e)
    BY <1>4 DEF books, journalVars, Posted
  <2>3. \A b \in Bills : bills'[b].due = bills[b].due
    BY <1>4
  <2>. QED
    BY <1>3, <2>1, <2>2, <2>3, Zenon
<1>5. ASSUME NEW r \in Requests, Refuse(r)
      PROVE  ControlAccountAgrees'
  BY <1>4, <1>5 DEF Refuse, tables
<1>6. ASSUME NEW r \in Requests, PostBill(r) \/ PostPayment(r) \/ VoidPosted(r)
      PROVE  ControlAccountAgrees'
  <2>1. ASSUME PostPayment(r) \/ VoidPosted(r), ~Refuse(r)
        PROVE  \A b \in Bills : InLedger(b)' <=> InLedger(b)
    BY <2>1, PaymentsKeepLedger
  <2>. QED
    BY <1>5, <1>6, <2>1, PostBillAgrees, PostPaymentAgrees, VoidPostedAgrees
<1>7. ASSUME NEW r \in Requests,
             \/ CreateBill(r) \/ SubmitBill(r)
             \/ \E decision \in {"approved", "rejected"} : ApplyDecision(r, decision)
      PROVE  ControlAccountAgrees'
  <2>1. UNCHANGED books
    BY <1>7 DEF CreateBill, SubmitBill, ApplyDecision, Refuse
  <2>2. \A b \in Bills :
            /\ InLedger(b)' <=> InLedger(b)
            /\ InLedger(b) => bills'[b] = bills[b]
    BY <1>7, BillsMoveOffLedger
  <2>. QED
    BY <1>3, <2>1, <2>2 DEF books, journalVars, Posted
<1>8. ASSUME NEW r \in Requests, CreateDraft(r) \/ CreateReversal(r)
      PROVE  ControlAccountAgrees'
  <2>1. CASE Refuse(r)
    BY <1>5, <2>1
  <2>2. CASE ~Refuse(r)
    <3>1. PICK date, source : Draft(FreshId, date, source)
      BY <1>8, <2>2 DEF CreateDraft, CreateReversal, DraftFor
    <3>2. UNCHANGED keys /\ UNCHANGED bills
      BY <1>8, <3>1 DEF CreateDraft, CreateReversal, Draft, Refuse, tables
    <3>3. \A e \in Entries : Posted(e)' <=> Posted(e)
      BY <3>1 DEF Draft, PutEntry, Posted, AccountsInv, JournalInv
    <3>4. \A b \in Bills : InLedger(b)' <=> InLedger(b)
      BY <3>2 DEF InLedger, Payable
    <3>. QED
      BY <1>3, <3>2, <3>3, <3>4
  <2>. QED
    BY <2>1, <2>2
<1>9. ASSUME NEW r \in Requests,
             \/ CreatePayment(r) \/ VoidUnposted(r) \/ Evict(r)
             \/ \E decision \in {"approved", "rejected"} : Decide(r, decision)
             \/ \E b \in Bills : BeginPostBill(r, b)
             \/ \E p \in Payments : BeginPostPayment(r, p) \/ BeginVoid(r, p)
             \/ ReadBills(r) \/ FindDraft(r) \/ ReadPending(r)
             \/ ReadOriginal(r, "reverse", "read_link")
             \/ ReadOriginal(r, "read_link", "find_reversal") \/ FindReversal(r)
      PROVE  UNCHANGED bills /\ UNCHANGED books
  BY <1>9 DEF CreatePayment, VoidUnposted, Evict, Decide, BeginPostBill, BeginPostPayment,
              BeginVoid, ReadBills, FindDraft, ReadPending, ReadOriginal, FindReversal, Refuse,
              tables
<1>10. ASSUME UNCHANGED vars \/ OpenPeriod
       PROVE  UNCHANGED bills /\ UNCHANGED books
  BY <1>10 DEF vars, OpenPeriod, tables
<1>11. ASSUME NEW r \in Requests, Step(r) \/ Evict(r)
       PROVE  ControlAccountAgrees'
  BY <1>4, <1>6, <1>7, <1>8, <1>9, <1>11, Zenon DEF Step, Begin, Continue
<1>12. ASSUME NEW e \in Entries, Staff(e)
       PROVE  ControlAccountAgrees'
  BY <1>2, <1>12, StaffAgrees
<1>13. ControlAccountAgrees'
  BY <1>4, <1>10, <1>11, <1>12, Zenon DEF PayablesNext
<1>. QED
  BY <1>2, <1>13 DEF Valued

-----------------------------------------------------------------------------
(* Every step.                                                             *)

LEMMA NextReads ==
    ASSUME AccountsInv, DocumentsAssumption, [PayablesNext]_vars, TablesTyped', JournalStep
    PROVE  \A r \in Requests : Reads(r)'
<1>1. PaymentsStep
  BY VersionsGrow
<1>2. CASE UNCHANGED req
  BY <1>1, <1>2, ReadsStay
<1>3. ASSUME NEW r \in Requests, Reads(r)', NEW local, Become(r, local)
      PROVE  \A x \in Requests : Reads(x)'
  <2>1. \A x \in Requests : x # r => req'[x] = req[x]
    BY <1>3 DEF Become, AccountsInv, ApprovalInv
  <2>. QED
    BY <1>1, <1>3, <2>1, ReadsStay
<1>4. ASSUME NEW r \in Requests, Return(r)
      PROVE  \A x \in Requests : Reads(x)'
  BY <1>3, <1>4, ReturnReads DEF Return
<1>5. ASSUME NEW r \in Requests, Begin(r)
      PROVE  \A x \in Requests : Reads(x)'
  <2>1. UNCHANGED req \/ \E local : Become(r, local)
    BY <1>5 DEF Begin, CreateBill, SubmitBill, CreatePayment, Decide, BeginPostBill,
                BeginPostPayment, BeginVoid
  <2>. QED
    BY <1>2, <1>3, <1>5, <2>1, BeginReads
<1>6. ASSUME NEW r \in Requests, FindDraft(r) \/ CreateDraft(r)
      PROVE  \A x \in Requests : Reads(x)'
  <2>1. \E local : Become(r, local)
    BY <1>6 DEF FindDraft, CreateDraft, Goto, Refuse, Return
  <2>. QED
    BY <1>3, <1>6, <2>1, DraftReads
<1>7. ASSUME NEW r \in Requests,
             \/ ReadBills(r) \/ ReadPending(r)
             \/ ReadOriginal(r, "reverse", "read_link")
             \/ ReadOriginal(r, "read_link", "find_reversal")
             \/ FindReversal(r) \/ CreateReversal(r)
      PROVE  \A x \in Requests : Reads(x)'
  <2>1. \E local : Become(r, local)
    BY <1>7 DEF ReadBills, ReadPending, ReadOriginal, FindReversal, CreateReversal, Goto, Refuse,
                Return
  <2>. QED
    BY <1>3, <1>7, <2>1, VoidReads, Zenon
<1>8. ASSUME NEW r \in Requests,
             \/ \E decision \in {"approved", "rejected"} : ApplyDecision(r, decision)
             \/ PostBill(r) \/ PostPayment(r) \/ VoidUnposted(r) \/ VoidPosted(r) \/ Evict(r)
      PROVE  \A x \in Requests : Reads(x)'
  <2>1. Return(r)
    BY <1>8 DEF ApplyDecision, PostBill, PostPayment, VoidUnposted, VoidPosted, Evict, Refuse
  <2>. QED
    BY <1>4, <2>1
<1>9. CASE PayablesNext
  BY <1>2, <1>5, <1>6, <1>7, <1>8, <1>9 DEF PayablesNext, Step, Continue, Staff, OpenPeriod
<1>. QED
  BY <1>2, <1>9 DEF vars

LEMMA NextBalances ==
    ASSUME AccountsInv, DocumentsAssumption, KeysAssumption, [PayablesNext]_vars
    PROVE  KeysInv' /\ Linked' /\ Summed'
<1>1. CASE BesideDocuments /\ UNCHANGED <<bills, payments>>
  BY <1>1, TablesAlone DEF BesideDocuments
<1>2. CASE UNCHANGED books /\ UNCHANGED <<bills, payments>>
  BY <1>1, <1>2, BooksAlone
<1>3. CASE UNCHANGED books /\ Linked' /\ Summed'
  BY <1>3, BooksAlone DEF BesideDocuments
<1>4. ASSUME NEW r \in Requests, Refuse(r)
      PROVE  KeysInv' /\ Linked' /\ Summed'
  BY <1>2, <1>4 DEF Refuse, tables
<1>5. ASSUME NEW r \in Requests,
             \/ CreateBill(r) \/ SubmitBill(r)
             \/ \E decision \in {"approved", "rejected"} : ApplyDecision(r, decision)
      PROVE  KeysInv' /\ Linked' /\ Summed'
  <2>1. UNCHANGED books
    BY <1>5 DEF CreateBill, SubmitBill, ApplyDecision, Refuse
  <2>. QED
    BY <1>3, <1>5, <2>1, BillMoves
<1>6. ASSUME NEW r \in Requests, CreatePayment(r)
      PROVE  KeysInv' /\ Linked' /\ Summed'
  BY <1>3, <1>6, CreatePaymentBalances DEF CreatePayment
<1>7. ASSUME NEW r \in Requests, VoidUnposted(r)
      PROVE  KeysInv' /\ Linked' /\ Summed'
  BY <1>3, <1>4, <1>7, VoidUnpostedBalances DEF VoidUnposted
<1>8. ASSUME NEW r \in Requests, PostBill(r) \/ PostPayment(r) \/ VoidPosted(r)
      PROVE  KeysInv' /\ Linked' /\ Summed'
  BY <1>4, <1>8, PostBillBalances, PostPaymentBalances, VoidPostedBalances
<1>9. ASSUME NEW r \in Requests, CreateDraft(r) \/ CreateReversal(r)
      PROVE  KeysInv' /\ Linked' /\ Summed'
  <2>1. UNCHANGED <<bills, payments>>
    BY <1>9 DEF CreateDraft, CreateReversal, Refuse, tables
  <2>. QED
    BY <1>1, <1>9, <2>1, CreateDraftBeside, CreateReversalBeside, Zenon
<1>10. ASSUME NEW r \in Requests,
              \/ \E decision \in {"approved", "rejected"} : Decide(r, decision)
              \/ \E b \in Bills : BeginPostBill(r, b)
              \/ \E p \in Payments : BeginPostPayment(r, p) \/ BeginVoid(r, p)
              \/ ReadBills(r) \/ FindDraft(r) \/ ReadPending(r) \/ Evict(r)
              \/ ReadOriginal(r, "reverse", "read_link")
              \/ ReadOriginal(r, "read_link", "find_reversal") \/ FindReversal(r)
       PROVE  KeysInv' /\ Linked' /\ Summed'
  BY <1>2, <1>10 DEF Decide, BeginPostBill, BeginPostPayment, BeginVoid, ReadBills, FindDraft,
                     ReadPending, ReadOriginal, FindReversal, Evict, Refuse, tables
<1>11. ASSUME NEW e \in Entries, Staff(e)
       PROVE  KeysInv' /\ Linked' /\ Summed'
  BY <1>1, <1>11, StaffBeside DEF Staff, tables
<1>12. CASE OpenPeriod \/ UNCHANGED vars
  BY <1>2, <1>12 DEF OpenPeriod, vars, tables
<1>. QED
  BY <1>5, <1>6, <1>7, <1>8, <1>9, <1>10, <1>11, <1>12 DEF PayablesNext, Step, Begin, Continue

LEMMA NextKeepsAccounts ==
    ASSUME AccountsInv, DocumentsAssumption, KeysAssumption, [PayablesNext]_vars
    PROVE  AccountsInv'
<1>1. ApprovalInv' /\ JournalInv' /\ JournalStep
  BY NextKeeps DEF AccountsInv
<1>2. \A r \in Requests : Reads(r)'
  BY <1>1, NextReads DEF ApprovalInv
<1>3. KeysInv' /\ Linked' /\ Summed'
  BY NextBalances
<1>4. Valued'
  BY <1>1, <1>3, NextValued
<1>. QED
  BY <1>1, <1>2, <1>3, <1>4 DEF AccountsInv

LEMMA InitiallyBalanced ==
    ASSUME PayablesInit, DocumentsAssumption, KeysAssumption
    PROVE  AccountsInv
<1>1. ApprovalInv /\ JournalInv /\ KeysInv
  BY InitiallyKept, NoKeys DEF PayablesInit, Init
<1>2. \A b \in Bills : ~InLedger(b) /\ bills[b].status = "absent" /\ bills[b].due = 0 /\ bills[b].paid = 0
  BY DEF PayablesInit, AbsentBill, InLedger, Payable
<1>3. \A k \in Keys : keys[k] = None
  BY DEF PayablesInit, Init
<1>4. /\ \A p \in Payments :
            /\ payments[p].status = "absent" /\ payments[p].entry = None
            /\ payments[p].version = 0 /\ payments[p].amounts = [b \in Bills |-> 0]
  BY DEF PayablesInit, AbsentPayment
<1>5. Linked
  <2>1. \A e \in Entries : journal[e].source = None
    BY DEF PayablesInit, Init, NoEntry
  <2>. QED
    BY <1>2, <1>3, <1>4, <2>1 DEF Linked, BillsLinked, PaymentsLinked, DraftsWorth,
       DocumentsAssumption, KeysAssumption
<1>6. Summed
  BY <1>2, <1>4 DEF Summed, AmountsNatural, OffLedger, NotOverpaid, BillsBalance
<1>7. \A r \in Requests : Reads(r)
  BY DEF PayablesInit, Idle, Reads, Voiding, Reversing
<1>8. Valued
  <2>1. \A e \in Entries : journal[e].status = "absent"
    BY DEF PayablesInit, Init, NoEntry
  <2>2. InBooks = {} /\ PostedByStaff = {} /\ {b \in Bills : InLedger(b)} = {}
    BY <1>2, <2>1 DEF InBooks, PostedByStaff, Posted
  <2>3. ControlAccountAgrees
    BY <2>2, SumOfNone DEF ControlAccountAgrees, Balance, Outstanding
  <2>4. worth \in [Entries -> Int]
    BY DEF PayablesInit
  <2>. QED
    BY <1>4, <2>1, <2>3, <2>4 DEF Valued, CreditOfPayment
<1>. QED
  BY <1>1, <1>5, <1>6, <1>7, <1>8 DEF AccountsInv

\* The accounts of bills and payments, their entries and what the requests have read of
\* them fit together in every state.
THEOREM AccountsInvariant == PayablesSpec => []AccountsInv
<1>1. PayablesInit => AccountsInv
  BY DocumentsAssumption, KeysAssumption, InitiallyBalanced
<1>2. AccountsInv /\ [PayablesNext]_vars => AccountsInv'
  BY DocumentsAssumption, KeysAssumption, NextKeepsAccounts
<1>. QED
  BY <1>1, <1>2, PTL DEF PayablesSpec

\* What a bill says was paid is what the posted payments applied to it, whatever
\* payments were posted and voided concurrently.
THEOREM BillsBalanceAlways == PayablesSpec => []BillsBalance
<1>1. AccountsInv => BillsBalance
  BY DEF AccountsInv, Summed
<1>. QED
  BY <1>1, AccountsInvariant, PTL

-----------------------------------------------------------------------------
(* The control account.                                                    *)

\* The balance of accounts payable in the journal is what the bills have due and what
\* staff have posted or reversed themselves, however postings, payments and voids overlap
\* and wherever they stop.
THEOREM ControlAccountAgreesAlways == PayablesSpec => []ControlAccountAgrees
<1>1. AccountsInv => ControlAccountAgrees
  BY DEF AccountsInv, Valued
<1>. QED
  BY <1>1, AccountsInvariant, PTL

-----------------------------------------------------------------------------
(* Types.  The rows and local variables have theirs in ApprovalInv; that   *)
(* amounts are not negative follows from the accounts.                     *)

OtherTypes ==
    /\ decisions \subseteq [bill : Bills, actor : Actors, decision : {"approved", "rejected"}]
    /\ \A p \in Payments : payments[p].amounts \in Applications \cup {AbsentPayment.amounts}
    /\ changes \in 0..MaxChanges /\ crashes \in 0..MaxCrashes

\* A payment gets its amounts when it is created.
LEMMA AmountsStay ==
    ASSUME AccountsInv, OtherTypes, NEW p \in Payments,
           \A q \in Payments : q # p => payments'[q] = payments[q],
           payments'[p].amounts \in Applications \cup {payments[p].amounts}
    PROVE  \A q \in Payments : payments'[q].amounts \in Applications \cup {AbsentPayment.amounts}
BY DEF OtherTypes

LEMMA NextOtherTypes ==
    ASSUME AccountsInv, OtherTypes, KeysAssumption, [PayablesNext]_vars
    PROVE  OtherTypes'
<1>1. decisions' \subseteq [bill : Bills, actor : Actors, decision : {"approved", "rejected"}]
  <2>1. ASSUME NEW r \in Requests, NEW decision \in {"approved", "rejected"}, Decide(r, decision)
        PROVE  decisions' \subseteq [bill : Bills, actor : Actors,
                                     decision : {"approved", "rejected"}]
    <3>1. PICK b \in Bills, a \in Actors :
              decisions' = decisions \cup {[bill |-> b, actor |-> a, decision |-> decision]}
      BY <2>1, Zenon DEF Decide
    <3>. QED
      BY <2>1, <3>1 DEF OtherTypes
  <2>2. \/ UNCHANGED decisions
        \/ \E r \in Requests, decision \in {"approved", "rejected"} : Decide(r, decision)
    BY DEF PayablesNext, Step, Begin, Continue, CreateBill, SubmitBill, CreatePayment,
           BeginPostBill, BeginPostPayment, BeginVoid, ApplyDecision, ReadBills, FindDraft,
           CreateDraft, PostBill, PostPayment, VoidUnposted, ReadPending, ReadOriginal,
           FindReversal, CreateReversal, VoidPosted, Evict, Staff, OpenPeriod, Refuse, tables, vars
  <2>. QED
    BY <2>1, <2>2 DEF OtherTypes
<1>2. \A p \in Payments : payments'[p].amounts \in Applications \cup {AbsentPayment.amounts}
  <2>1. ASSUME NEW r \in Requests, CreatePayment(r)
        PROVE  \A p \in Payments : payments'[p].amounts \in Applications \cup {AbsentPayment.amounts}
    <3>1. PICK p \in Payments, amounts \in Applications :
              payments' = [payments EXCEPT ![p] =
                  [status |-> "approved", amounts |-> amounts, version |-> 1, entry |-> None]]
      BY <2>1 DEF CreatePayment
    <3>2. payments'[p].amounts = amounts /\ \A q \in Payments : q # p => payments'[q] = payments[q]
      BY <3>1 DEF AccountsInv, ApprovalInv, TablesTyped
    <3>. QED
      BY <3>2, AmountsStay
  <2>2. ASSUME NEW p \in Payments,
               \/ MarkVoided(p)
               \/ \E e \in Entries :
                     payments' = [payments EXCEPT ![p].status = "posted", ![p].entry = e,
                                                  ![p].version = @ + 1]
        PROVE  \A q \in Payments : payments'[q].amounts \in Applications \cup {AbsentPayment.amounts}
    <3>1. /\ payments'[p].amounts = payments[p].amounts
          /\ \A q \in Payments : q # p => payments'[q] = payments[q]
      BY <2>2, MarkVoidedRow, PostedRow DEF AccountsInv
    <3>. QED
      BY <3>1, AmountsStay
  <2>3. ASSUME NEW r \in Requests, PostPayment(r) \/ VoidUnposted(r) \/ VoidPosted(r),
               ~UNCHANGED payments
        PROVE  \E p \in Payments :
                   \/ MarkVoided(p)
                   \/ \E e \in Entries :
                         payments' = [payments EXCEPT ![p].status = "posted", ![p].entry = e,
                                                      ![p].version = @ + 1]
    <3>1. /\ req[r].document \in Payments
          /\ req[r].pc = "post" => req[r].entry \in Entries
      BY <2>3, Zenon DEF PostPayment, VoidUnposted, VoidPosted, At, AccountsInv, ApprovalInv, Knows, Voiding, Reversing
    <3>. QED
      BY <2>3, <3>1 DEF PostPayment, VoidUnposted, VoidPosted, At, Refuse, tables
  <2>4. \/ UNCHANGED payments
        \/ \E r \in Requests :
              CreatePayment(r) \/ PostPayment(r) \/ VoidUnposted(r) \/ VoidPosted(r)
    BY DEF PayablesNext, Step, Begin, Continue, CreateBill, SubmitBill, Decide,
           BeginPostBill, BeginPostPayment, BeginVoid, ApplyDecision, ReadBills, FindDraft,
           CreateDraft, PostBill, ReadPending, ReadOriginal, FindReversal, CreateReversal, Evict,
           Staff, OpenPeriod, Refuse, tables, vars
  <2>5. CASE UNCHANGED payments
    BY <2>5 DEF OtherTypes
  <2>. QED
    BY <2>1, <2>2, <2>3, <2>4, <2>5
<1>3. changes' \in 0..MaxChanges /\ crashes' \in 0..MaxCrashes
  <2>1. /\ UNCHANGED crashes \/ (crashes < MaxCrashes /\ crashes' = crashes + 1)
        /\ UNCHANGED changes \/ (changes < MaxChanges /\ changes' = changes + 1)
    BY DEF PayablesNext, Step, Evict, Staff, OpenPeriod, vars, bounds
  <2>. QED
    BY <2>1 DEF OtherTypes, KeysAssumption
<1>. QED
  BY <1>1, <1>2, <1>3 DEF OtherTypes

LEMMA TypesFollow ==
    ASSUME AccountsInv, OtherTypes, DocumentsAssumption, KeysAssumption
    PROVE  TypeOK
<1>1. bills \in [Bills -> BillType]
  <2>1. ASSUME NEW b \in Bills
        PROVE  bills[b].paid \in Nat /\ bills[b].due \in Nat
    <3>1. bills[b].due \in Nat
      BY DEF AccountsInv, ApprovalInv, TablesTyped, BillRow, Summed, NotOverpaid
    <3>2. bills[b].paid \in Nat
      BY AmountsAreNatural DEF AccountsInv, Summed, OffLedger
    <3>. QED
      BY <3>1, <3>2
  <2>2. bills \in [Bills -> BillRow]
    BY DEF AccountsInv, ApprovalInv, TablesTyped
  <2>3. \A b \in Bills : bills[b] \in BillType
    BY <2>1, <2>2 DEF BillRow, BillType
  <2>. QED
    BY <2>2, <2>3
<1>2. payments \in [Payments -> PaymentType]
  <2>1. payments \in [Payments -> PaymentRow]
    BY DEF AccountsInv, ApprovalInv, TablesTyped
  <2>2. \A p \in Payments : payments[p] \in PaymentType
    BY <2>1 DEF PaymentRow, PaymentType, OtherTypes
  <2>. QED
    BY <2>1, <2>2
<1>. QED
  BY <1>1, <1>2 DEF TypeOK, OtherTypes, AccountsInv, ApprovalInv, Local, Valued

\* Every column and local variable has its type; that no amount due is negative takes
\* the accounts to know.
THEOREM PayablesTypeCorrect == PayablesSpec => []TypeOK
<1>1. PayablesInit => OtherTypes
  BY KeysAssumption DEF PayablesInit, OtherTypes, AbsentPayment
<1>2. AccountsInv /\ OtherTypes /\ [PayablesNext]_vars => OtherTypes'
  BY KeysAssumption, NextOtherTypes
<1>3. AccountsInv /\ OtherTypes => TypeOK
  BY DocumentsAssumption, KeysAssumption, TypesFollow
<1>. QED
  BY <1>1, <1>2, <1>3, AccountsInvariant, PTL DEF PayablesSpec

-----------------------------------------------------------------------------
(* To the journal, payables are callers of its operations.                 *)

\* A void has a date from when it looks for its reversal.
Dated == EntriesDated /\ \A r \in Requests : req[r].pc \in Reversing => req[r].date \in Dates

JournalMoves == [Next]_<<journalVars, accepting>>

LEMMA ContinueIsABooksStep ==
    ASSUME AccountsInv, Dated, DocumentsAssumption, KeysAssumption, NEW r \in Requests,
           Continue(r), UNCHANGED accepting
    PROVE  JournalMoves
<1>0. /\ Knows(r) /\ RequestHash \in Hashes /\ TablesTyped
      /\ Sources = Bills \cup Payments \cup Entries
      /\ Bills \cup Payments \cup {VoidKey(p) : p \in Payments} \subseteq Keys
  BY RequestHashExists DEF AccountsInv, ApprovalInv, DocumentsAssumption
<1>1. CASE UNCHANGED books
  BY <1>1 DEF JournalMoves, books
<1>2. CASE CreateDraft(r) /\ ~UNCHANGED books
  <2>1. /\ Draft(FreshId, DateOf[req[r].document], req[r].document)
        /\ FreshId \in Entries /\ req[r].document \in Bills \cup Payments
    BY <1>0, <1>2, FreshInEntries DEF CreateDraft, DraftFor, Refuse, Knows, Voiding, Reversing, At
  <2>. QED
    BY <1>0, <2>1, DraftIsAStep DEF JournalMoves, DocumentsAssumption
<1>3. CASE (PostBill(r) \/ PostPayment(r)) /\ ~UNCHANGED books
  <2>1. /\ Post(req[r].entry, req[r].document, RequestHash)
        /\ req[r].entry \in Entries /\ req[r].document \in Bills \cup Payments
    BY <1>0, <1>3 DEF PostBill, PostPayment, Refuse, Knows, Voiding, Reversing, At
  <2>. QED
    BY <1>0, <2>1, PostIsAStep DEF JournalMoves
<1>4. CASE CreateReversal(r) /\ ~UNCHANGED books
  <2>1. /\ Draft(FreshId, req[r].date, payments[req[r].document].entry)
        /\ FreshId \in Entries /\ req[r].pc \in Reversing
    BY <1>4, FreshInEntries DEF CreateReversal, DraftFor, Refuse, At, Reversing
  <2>2. payments[req[r].document].entry \in Sources \cup {None} /\ req[r].date \in Dates
    BY <1>0, <2>1 DEF Voiding, Reversing, Knows, TablesTyped, PaymentRow, Dated
  <2>. QED
    BY <2>1, <2>2, DraftIsAStep DEF JournalMoves
<1>5. CASE VoidPosted(r) /\ ~UNCHANGED books
  <2>1. PICK p \in Payments : p = req[r].document /\ payments[p].entry # None
    BY <1>0, <1>5 DEF VoidPosted, Knows, Voiding, Reversing, At
  <2>2. /\ Reverse(payments[p].entry, req[r].entry, VoidKey(p), RequestHash)
        /\ req[r].entry \in Entries
    BY <1>0, <1>5, <2>1 DEF VoidPosted, Refuse, Knows, Voiding, Reversing, At
  <2>3. payments[p].entry \in Entries /\ VoidKey(p) \in Keys
    BY <1>0, <2>1 DEF TablesTyped, PaymentRow
  <2>. QED
    BY <1>0, <2>2, <2>3, ReverseIsAStep DEF JournalMoves
<1>6. CASE ~(CreateDraft(r) \/ PostBill(r) \/ PostPayment(r) \/ CreateReversal(r)
             \/ VoidPosted(r))
  BY <1>1, <1>6 DEF Continue, ApplyDecision, ReadBills, FindDraft, VoidUnposted, ReadPending,
                    ReadOriginal, FindReversal, Refuse
<1>. QED
  BY <1>1, <1>2, <1>3, <1>4, <1>5, <1>6

LEMMA NextIsABooksStep ==
    ASSUME AccountsInv, Dated, DocumentsAssumption, KeysAssumption, [PayablesNext]_vars
    PROVE  JournalMoves
<1>1. ASSUME NEW r \in Requests, Step(r)
      PROVE  JournalMoves
  <2>1. CASE Begin(r)
    <3>1. UNCHANGED books
      BY <2>1 DEF Begin, CreateBill, SubmitBill, CreatePayment, Decide, BeginPostBill,
                  BeginPostPayment, BeginVoid
    <3>. QED
      BY <1>1, <3>1 DEF Step, JournalMoves, books
  <2>. QED
    BY <1>1, <2>1, ContinueIsABooksStep DEF Step
<1>2. ASSUME NEW e \in Entries, Staff(e)
      PROVE  JournalMoves
  <2>1. UNCHANGED accepting /\ RequestHash \in Hashes /\ \A k \in StaffKeys : k \in Keys
    BY <1>2, StaffKeysApart, RequestHashExists DEF Staff
  <2>2. CASE StaffEdit(e) \/ Remove(e) \/ Void(e)
    BY <2>1, <2>2, StaffIsAStep DEF StaffEdit, JournalMoves
  <2>3. CASE (\E k \in StaffKeys : Post(e, k, RequestHash)) \/ StaffReverse(e)
    BY <2>1, <2>3, PostIsAStep, ReverseIsAStep DEF StaffReverse, JournalMoves
  <2>4. CASE StaffDraftReversal(e)
    BY <2>1, <2>4, DraftIsAStep DEF StaffDraftReversal, DraftFor, JournalMoves, DocumentsAssumption
  <2>. QED
    BY <1>2, <2>2, <2>3, <2>4 DEF Staff
<1>3. CASE OpenPeriod
  BY <1>3 DEF OpenPeriod, JournalMoves, Next, Reschedule, books
<1>4. CASE UNCHANGED vars \/ \E r \in Requests : Evict(r)
  BY <1>4 DEF vars, Evict, Refuse, JournalMoves, books
<1>. QED
  BY <1>1, <1>2, <1>3, <1>4 DEF PayablesNext

\* A void is dated by today or by the draft of an earlier attempt.
LEMMA DatesStay ==
    ASSUME AccountsInv, Dated, EntriesDated', [PayablesNext]_vars
    PROVE  Dated'
<1>0. req \in [Requests -> Local]
  BY DEF AccountsInv, ApprovalInv
<1>1. ASSUME NEW r \in Requests, NEW local, Become(r, local),
             local.pc \in Reversing => local.date \in Dates
      PROVE  Dated'
  <2>1. \A q \in Requests : req'[q] = IF q = r THEN local ELSE req[q]
    BY <1>0, <1>1 DEF Become
  <2>. QED
    BY <1>1, <2>1 DEF Dated
<1>2. CASE UNCHANGED req
  BY <1>2 DEF Dated
<1>3. ASSUME NEW r \in Requests, Return(r)
      PROVE  Dated'
  BY <1>1, <1>3 DEF Return, Idle, Reversing
<1>4. ASSUME NEW r \in Requests, ReadPending(r)
      PROVE  Dated'
  <2>1. PICK today \in Dates : \E date \in ReversalDate(payments[req[r].document].entry, today) :
          Become(r, [req[r] EXCEPT !.pc = "reverse", !.date = date])
    BY <1>4 DEF ReadPending
  <2>2. PICK date \in ReversalDate(payments[req[r].document].entry, today) :
          Become(r, [req[r] EXCEPT !.pc = "reverse", !.date = date])
    BY <2>1
  <2>3. date \in Dates
    BY <2>2 DEF ReversalDate, DraftsOf, EntriesOf, Dated, EntriesDated
  <2>4. [req[r] EXCEPT !.pc = "reverse", !.date = date].date = date
    BY <1>0 DEF Local
  <2>. QED
    BY <1>1, <2>2, <2>3, <2>4
<1>5. ASSUME NEW r \in Requests, Begin(r)
      PROVE  Dated'
  <2>1. ASSUME NEW decision \in {"approved", "rejected"}, Decide(r, decision)
        PROVE  Dated'
    BY <1>1, <2>1 DEF Decide, Idle, Reversing
  <2>2. ASSUME NEW b \in Bills, BeginPostBill(r, b)
        PROVE  Dated'
    BY <1>1, <2>2 DEF BeginPostBill, Idle, Reversing
  <2>3. ASSUME NEW p \in Payments, BeginPostPayment(r, p) \/ BeginVoid(r, p)
        PROVE  Dated'
    BY <1>1, <2>3 DEF BeginPostPayment, BeginVoid, Idle, Reversing
  <2>. QED
    BY <1>2, <1>5, <2>1, <2>2, <2>3 DEF Begin, CreateBill, SubmitBill, CreatePayment
<1>6. ASSUME NEW r \in Requests,
             \/ ReadBills(r) \/ FindDraft(r) \/ CreateDraft(r)
             \/ FindReversal(r) \/ CreateReversal(r)
             \/ ReadOriginal(r, "reverse", "read_link")
             \/ ReadOriginal(r, "read_link", "find_reversal")
      PROVE  Dated'
  <2>1. \/ Return(r)
        \/ \E pc \in {"find", "create"} : Become(r, [req[r] EXCEPT !.pc = pc])
        \/ /\ req[r].pc \in Reversing
           /\ \E pc \in Reversing : Become(r, [req[r] EXCEPT !.pc = pc])
        \/ \E pc \in {"post", "void"} : \E e : Become(r, [req[r] EXCEPT !.pc = pc, !.entry = e])
    BY <1>6 DEF ReadBills, FindDraft, CreateDraft, ReadOriginal, FindReversal, CreateReversal,
                Goto, Refuse, At, Reversing
  <2>2. \A pc \in {"find", "create", "post", "void"} : \A e :
           [req[r] EXCEPT !.pc = pc].pc = pc /\ [req[r] EXCEPT !.pc = pc, !.entry = e].pc = pc
    BY <1>0 DEF Local
  <2>3. \A pc \in Reversing : [req[r] EXCEPT !.pc = pc].date = req[r].date
    BY <1>0 DEF Local
  <2>4. req[r].pc \in Reversing => req[r].date \in Dates
    BY DEF Dated
  <2>5. \A pc \in {"find", "create", "post", "void"} : pc \notin Reversing
    BY DEF Reversing
  <2>6. ASSUME NEW pc \in {"find", "create"}, Become(r, [req[r] EXCEPT !.pc = pc])
        PROVE  Dated'
    <3>. DEFINE local == [req[r] EXCEPT !.pc = pc]
    <3>1. local.pc \notin Reversing /\ Become(r, local)
      BY <2>2, <2>5, <2>6
    <3>. HIDE DEF local
    <3>. QED
      BY <1>1, <3>1
  <2>7. ASSUME NEW pc \in {"post", "void"}, NEW e, Become(r, [req[r] EXCEPT !.pc = pc, !.entry = e])
        PROVE  Dated'
    <3>. DEFINE local == [req[r] EXCEPT !.pc = pc, !.entry = e]
    <3>1. local.pc \notin Reversing /\ Become(r, local)
      BY <2>2, <2>5, <2>7
    <3>. HIDE DEF local
    <3>. QED
      BY <1>1, <3>1
  <2>8. ASSUME NEW pc \in Reversing, req[r].pc \in Reversing, Become(r, [req[r] EXCEPT !.pc = pc])
        PROVE  Dated'
    BY <1>1, <2>3, <2>4, <2>8
  <2>. QED
    BY <1>3, <2>1, <2>6, <2>7, <2>8, Zenon
<1>7. ASSUME NEW r \in Requests,
             \/ \E decision \in {"approved", "rejected"} : ApplyDecision(r, decision)
             \/ PostBill(r) \/ PostPayment(r) \/ VoidUnposted(r) \/ VoidPosted(r) \/ Evict(r)
      PROVE  Dated'
  <2>1. Return(r)
    BY <1>7 DEF ApplyDecision, PostBill, PostPayment, VoidUnposted, VoidPosted, Evict, Refuse
  <2>. QED
    BY <1>3, <2>1
<1>8. CASE PayablesNext
  BY <1>2, <1>4, <1>5, <1>6, <1>7, <1>8 DEF PayablesNext, Step, Continue, Staff, OpenPeriod
<1>. QED
  BY <1>2, <1>8 DEF vars

\* Payables implement the journal: whatever its requests, its evictions and staff do,
\* entries are drafted, posted and reversed in the steps that Books allows.
THEOREM PayablesImplementBooks == PayablesSpec => Spec
<1>1. PayablesInit => Init /\ Dated
  BY DEF PayablesInit, Init, Dated, EntriesDated, Stored, NoEntry, Idle, Reversing
<1>2. AccountsInv /\ Dated /\ [PayablesNext]_vars => [Next]_<<journalVars, accepting>>
  BY DocumentsAssumption, KeysAssumption, NextIsABooksStep DEF JournalMoves
<1>3. AccountsInv /\ Dated /\ [PayablesNext]_vars => Dated'
  BY <1>2, EntriesStayDated, DatesStay DEF AccountsInv, Dated
<1>. QED
  BY <1>1, <1>2, <1>3, AccountsInvariant, PTL DEF PayablesSpec, Spec

=============================================================================
