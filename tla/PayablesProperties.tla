------------------------- MODULE PayablesProperties -------------------------
(* What bills and payments keep between themselves and the journal.        *)
EXTENDS Payables

BillType == [status : BillStatus, paid : Nat, due : Nat, version : Nat,
             creator : Actors \cup {None}]
PaymentType == [status : PaymentStatus, amounts : Applications \cup {AbsentPayment.amounts},
                version : Nat, entry : Entries \cup {None}]
PC == {"idle", "approved", "rejected", "read_bills", "find", "create", "post",
       "void_unposted", "read_pending", "reverse", "read_link", "find_reversal",
       "create_reversal", "void"}

\* Every column and local variable has its type, and amounts due are not negative.
TypeOK ==
    /\ bills \in [Bills -> BillType]
    /\ decisions \subseteq [bill : Bills, actor : Actors, decision : {"approved", "rejected"}]
    /\ payments \in [Payments -> PaymentType]
    /\ req \in [Requests -> [pc : PC, document : Bills \cup Payments \cup {None},
                             version : Nat, entry : Entries \cup {None},
                             date : Dates \cup {None}]]
    /\ worth \in [Entries -> Int]
    /\ changes \in 0..MaxChanges /\ crashes \in 0..MaxCrashes

-----------------------------------------------------------------------------

InLedger(b) == Payable(b) \/ bills[b].status = "paid"

PostedFor(b) == {p \in Payments : payments[p].status = "posted" /\ b \in PaidBy(p)}

Applied(b) == [p \in Payments |-> payments[p].amounts[b]]

StatusOf(b) == IF bills[b].due = 0 THEN "paid"
               ELSE IF bills[b].paid = 0 THEN "posted" ELSE "partially_paid"

\* What a bill says was paid is what the posted payments applied to it, what is
\* due is the rest, and its status says the same, whatever payments were posted
\* and voided concurrently.
BillsBalance ==
    \A b \in {x \in Bills : InLedger(x)} :
        /\ bills[b].paid = SumOver(Applied(b), PostedFor(b))
        /\ bills[b].paid + bills[b].due = Totals[b]
        /\ bills[b].status = StatusOf(b)

\* The accounts payable account: what the posted entries and the reversed ones credit.
InBooks == {e \in Entries : Posted(e)}
Balance == SumOver(worth, InBooks)

Due == [b \in Bills |-> bills[b].due]
Outstanding == SumOver(Due, {b \in Bills : InLedger(b)})

\* What staff have posted, a reversal among it, under keys of their own.
PostedByStaff == {e \in InBooks : \E k \in StaffKeys : keys[k] # None /\ keys[k].entry = e}

\* The control account departs from the subledger by what staff post or reverse by the
\* ordinary operations, and by nothing else: whatever bills and payments are posted and
\* voided concurrently, over whatever draft.
ControlAccountAgrees == Balance = Outstanding + SumOver(worth, PostedByStaff)

\* No bill was approved by the decision of the one who entered it alone.
ApprovedByAnother ==
    \A b \in Bills : bills[b].status = "approved" \/ InLedger(b) =>
        \E d \in decisions :
            d.bill = b /\ d.decision = "approved" /\ d.actor # bills[b].creator

-----------------------------------------------------------------------------

\* An approved bill of some amount that is asked for again reaches the books, whatever
\* draft an earlier attempt left behind.
ApprovedIsPosted ==
    \A b \in Bills : bills[b].status = "approved" /\ Totals[b] > 0 ~> InLedger(b)

ReversalOf(p) == payments[p].entry # None /\ DraftsOf(payments[p].entry) # {}

\* A void that stopped between its reversal draft and its posting can be finished,
\* on whatever day that is tried.
StartedVoidEnds ==
    \A p \in Payments : ReversalOf(p) ~> payments[p].status = "voided"

=============================================================================
