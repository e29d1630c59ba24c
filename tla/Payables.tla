------------------------------ MODULE Payables ------------------------------
(***************************************************************************)
(* Bills and the payments of them: src/src/accounting/payables/service.ts, *)
(* service-shared.ts and checks.ts over the tables of accounting-migrations*)
(* 0008_phase3a_accounts_payable.sql.                                      *)
(*                                                                         *)
(* Every await of an operation is a point where other requests run.  What  *)
(* the journal does for a bill or a payment is a step of Books: a posting  *)
(* takes effect or is refused together with the additionalStatements that  *)
(* the operation adds to its batch.                                        *)
(***************************************************************************)
EXTENDS Books, FiniteSets, Sums

CONSTANTS
    Bills,
    Payments,
    Totals,           \* total_amount of each bill, 0 when it has a line of nothing
    DateOf,           \* bill_date and payment_date
    Applications,     \* what payments apply: an amount, often zero, to each bill
    Actors,
    Requests,
    StaffAmounts,     \* what staff may make of the line on accounts payable
    MaxChanges,       \* bound on what staff do with the entries of documents
    MaxCrashes        \* bound on evictions

VoidKey(p) == <<"void", p>>

\* An entry is posted for a bill, for a payment or to reverse another.  The part
\* of a key that callers choose is left out: a document is posted only once.
ASSUME DocumentsAssumption ==
    /\ Sources = Bills \cup Payments \cup Entries
    /\ Bills \cup Payments \cup {VoidKey(p) : p \in Payments} \subseteq Keys
    /\ DateOf \in [Bills \cup Payments -> Dates]
    /\ Totals \in [Bills -> Nat]
    /\ Applications \subseteq [Bills -> Nat]
    /\ None \notin Entries /\ Bills \cap Payments = {}
    /\ StaffAmounts \subseteq Int

\* Rows are finitely many, prefixes keep the keys of documents, of voids and of staff
\* apart, the sources bills and entries are of different types, and nothing is null.
ASSUME KeysAssumption ==
    /\ IsFiniteSet(Bills) /\ IsFiniteSet(Payments) /\ IsFiniteSet(Entries)
    /\ (Bills \cup Payments) \cap Entries = {} /\ None \notin Bills \cup Payments
    /\ \A p \in Payments : VoidKey(p) \notin Bills \cup Payments
    /\ Hashes # {} /\ \A e \in Entries, h \in Hashes : None # [entry |-> e, hash |-> h]
    /\ MaxChanges \in Nat /\ MaxCrashes \in Nat

VARIABLES
    worth,      \* per entry: what its lines credit to accounts payable
    bills,      \* accounting_bills
    decisions,  \* accounting_bill_approvals: bill, actor and decision
    payments,   \* accounting_payments with their accounting_payment_applications
    req,        \* the requests' local variables
    changes,
    crashes

books == <<journalVars, worth>>
tables == <<bills, decisions, payments>>
bounds == <<changes, crashes>>
vars == <<books, accepting, tables, req, bounds>>

-----------------------------------------------------------------------------
(* Rows and local variables.                                               *)

BillStatus == {"absent", "draft", "submitted", "approved", "rejected",
               "posted", "partially_paid", "paid"}
PaymentStatus == {"absent", "approved", "posted", "voided"}

AbsentBill == [status |-> "absent", paid |-> 0, due |-> 0, version |-> 0, creator |-> None]
AbsentPayment ==
    [status |-> "absent", amounts |-> [b \in Bills |-> 0], version |-> 0, entry |-> None]

PaidBy(p) == {b \in Bills : payments[p].amounts[b] > 0}

\* The bills a payment may be applied to.
Payable(b) == bills[b].status \in {"posted", "partially_paid"}

Idle == [pc |-> "idle", document |-> None, version |-> 0, entry |-> None, date |-> None]

At(r, pc) == req[r].pc = pc
Become(r, local) == req' = [req EXCEPT ![r] = local]
Goto(r, pc) == Become(r, [req[r] EXCEPT !.pc = pc])
Return(r) == Become(r, Idle)

\* An exception: nothing has been written.
Refuse(r) == Return(r) /\ UNCHANGED <<books, tables>>

RequestHash == CHOOSE h \in Hashes : TRUE

-----------------------------------------------------------------------------
(* createBillDraft, submitBill, approveBill, rejectBill.                   *)

CreateBill(r) ==
    /\ At(r, "idle")
    /\ \E b \in Bills, a \in Actors :
          /\ bills[b].status = "absent"
          /\ bills' = [bills EXCEPT ![b] = [status |-> "draft", paid |-> 0, due |-> Totals[b],
                                            version |-> 1, creator |-> a]]
    /\ UNCHANGED <<books, decisions, payments, req>>

\* The guarded UPDATE of transition(), and the row it leaves.
MayMove(b, version, from) == bills[b].status = from /\ bills[b].version = version
Move(b, to) == bills' = [bills EXCEPT ![b].status = to, ![b].version = @ + 1]

SubmitBill(r) ==
    /\ At(r, "idle")
    /\ \E b \in Bills : MayMove(b, bills[b].version, "draft") /\ Move(b, "submitted")
    /\ UNCHANGED <<books, decisions, payments, req>>

\* Mutant: approvals by the one who entered the bill count.
MayDecideAlone(b, a, decision) == bills[b].status # "absent"

MayDecide(b, a, decision) ==
    /\ bills[b].status # "absent"
    /\ decision = "approved" => bills[b].creator # a

\* The decision is recorded before the status of the bill has been looked at.
Decide(r, decision) ==
    /\ At(r, "idle")
    /\ \E b \in Bills, a \in Actors :
          /\ MayDecide(b, a, decision)
          /\ decisions' = decisions \cup {[bill |-> b, actor |-> a, decision |-> decision]}
          /\ Become(r, [Idle EXCEPT !.pc = decision, !.document = b,
                                    !.version = bills[b].version])
    /\ UNCHANGED <<books, bills, payments>>

ApplyDecision(r, decision) ==
    /\ At(r, decision)
    /\ LET b == req[r].document
       IN  IF MayMove(b, req[r].version, "submitted")
           THEN Move(b, decision) /\ Return(r) /\ UNCHANGED <<books, decisions, payments>>
           ELSE Refuse(r)

-----------------------------------------------------------------------------
(* postBill and postPayment: a draft for the document, reused when one is  *)
(* left from an earlier attempt, and the batch that posts it.              *)

BeginPostBill(r, b) ==
    /\ At(r, "idle")
    /\ bills[b].status = "approved"
    /\ Become(r, [Idle EXCEPT !.pc = "find", !.document = b, !.version = bills[b].version])
    /\ UNCHANGED <<books, tables>>

BeginPostPayment(r, p) ==
    /\ At(r, "idle")
    /\ payments[p].status = "approved"
    /\ Become(r, [Idle EXCEPT !.pc = "read_bills", !.document = p,
                              !.version = payments[p].version])
    /\ UNCHANGED <<books, tables>>

\* Mutant: amounts are not compared with what is still due.
CoveredBefore(p) == PaidBy(p) # {}

Covered(p) == \A b \in PaidBy(p) : payments[p].amounts[b] <= bills[b].due

ReadBills(r) ==
    /\ At(r, "read_bills")
    /\ IF Covered(req[r].document)
       THEN Goto(r, "find") /\ UNCHANGED <<books, tables>>
       ELSE Refuse(r)

\* Mutant: the attempt that went before is not looked for.
UnfinishedNone(source) == {}

Unfinished(source) == DraftsOf(source)

FindDraft(r) ==
    /\ At(r, "find")
    /\ LET found == Unfinished(req[r].document)
       IN  IF found = {}
           THEN Goto(r, "create")
           ELSE \E e \in found : Become(r, [req[r] EXCEPT !.pc = "post", !.entry = e])
    /\ UNCHANGED <<books, tables>>

\* The journal takes no line of nothing.
Draftable(document) == document \in Bills => Totals[document] > 0

\* A bill is credited, a payment of it debited, and a reversal is the mirror image.
Credit(source) ==
    IF source \in Bills THEN Totals[source]
    ELSE IF source \in Payments THEN -SumOver(payments[source].amounts, Bills)
    ELSE -worth[source]

DraftFor(e, date, source) ==
    Draft(e, date, source) /\ worth' = [worth EXCEPT ![e] = Credit(source)]

\* A draft that lost its source to another, or whose entry is voided, is refused.
CreateDraft(r) ==
    /\ At(r, "create") /\ IdsLeft
    /\ LET document == req[r].document
       IN  IF Draftable(document) /\ SourceFree(document)
           THEN /\ DraftFor(FreshId, DateOf[document], document)
                /\ Become(r, [req[r] EXCEPT !.pc = "post", !.entry = FreshId])
                /\ UNCHANGED tables
           ELSE Refuse(r)

\* The journal's part of the batch: a free key and the draft as it was created.
Fresh(e, k) == Postable(e, k) /\ journal[e].status = "draft"

BillGuard(b, version) == bills[b].status = "approved" /\ bills[b].version = version

PostBill(r) ==
    /\ At(r, "post") /\ req[r].document \in Bills
    /\ LET b == req[r].document
           e == req[r].entry
       IN  IF Fresh(e, b) /\ BillGuard(b, req[r].version)
           THEN Post(e, b, RequestHash) /\ Move(b, "posted")
                /\ Return(r) /\ UNCHANGED <<worth, decisions, payments>>
           ELSE Refuse(r)

Reduce(row, amount) ==
    [row EXCEPT !.paid = @ + amount, !.due = @ - amount, !.version = @ + 1,
                !.status = IF row.due = amount THEN "paid" ELSE "partially_paid"]

Restore(row, amount) ==
    [row EXCEPT !.paid = @ - amount, !.due = @ + amount, !.version = @ + 1,
                !.status = IF row.paid = amount THEN "posted" ELSE "partially_paid"]

\* Mutant: the status of the payment is not compared again in the batch.
PaymentGuardMissing(p, version) == TRUE

\* The CASE ... ELSE NULL that opens the batches of postPayment and voidPayment:
\* the version is that of the row whose status was read.
PaymentGuard(p, version) == payments[p].version = version

\* Bills must be payable when they are paid, and CHECK keeps amount_due from
\* becoming negative.
Accepted(p) == Covered(p) /\ \A b \in PaidBy(p) : Payable(b)

ApplyPayment(p) ==
    bills' = [b \in Bills |-> IF b \in PaidBy(p)
                              THEN Reduce(bills[b], payments[p].amounts[b])
                              ELSE bills[b]]

PostPayment(r) ==
    /\ At(r, "post") /\ req[r].document \in Payments
    /\ LET p == req[r].document
           e == req[r].entry
       IN  IF Fresh(e, p) /\ PaymentGuard(p, req[r].version) /\ Accepted(p)
           THEN /\ Post(e, p, RequestHash)
                /\ ApplyPayment(p)
                /\ payments' = [payments EXCEPT ![p].status = "posted", ![p].entry = e,
                                                ![p].version = @ + 1]
                /\ Return(r) /\ UNCHANGED <<worth, decisions>>
           ELSE Refuse(r)

-----------------------------------------------------------------------------
(* createPayment and voidPayment.                                          *)

\* A payment is only compared with what is due then: nothing is reserved.
CreatePayment(r) ==
    /\ At(r, "idle")
    /\ \E p \in Payments, amounts \in Applications :
          /\ payments[p].status = "absent"
          /\ \A b \in Bills : amounts[b] > 0 => Payable(b) /\ amounts[b] <= bills[b].due
          /\ payments' = [payments EXCEPT ![p] =
                [status |-> "approved", amounts |-> amounts, version |-> 1, entry |-> None]]
    /\ UNCHANGED <<books, bills, decisions, req>>

BeginVoid(r, p) ==
    /\ At(r, "idle")
    /\ payments[p].status \in {"approved", "posted"}
    /\ Become(r, [Idle EXCEPT !.document = p, !.version = payments[p].version,
                              !.pc = IF payments[p].status = "posted"
                                     THEN "read_pending" ELSE "void_unposted"])
    /\ UNCHANGED <<books, tables>>

MarkVoided(p) ==
    payments' = [payments EXCEPT ![p].status = "voided", ![p].version = @ + 1]

VoidUnposted(r) ==
    /\ At(r, "void_unposted")
    /\ LET p == req[r].document
       IN  IF PaymentGuard(p, req[r].version)
           THEN MarkVoided(p) /\ Return(r) /\ UNCHANGED <<books, bills, decisions>>
           ELSE Refuse(r)

\* Mutant: every attempt is made as of the day of that attempt.
ReversalDateToday(original, today) == {today}

\* The date of the attempt before, when it left a draft.
ReversalDate(original, today) ==
    IF DraftsOf(original) = {} THEN {today} ELSE {journal[e].date : e \in DraftsOf(original)}

ReadPending(r) ==
    /\ At(r, "read_pending")
    /\ \E today \in Dates :
          \E date \in ReversalDate(payments[req[r].document].entry, today) :
             Become(r, [req[r] EXCEPT !.pc = "reverse", !.date = date])
    /\ UNCHANGED <<books, tables>>

\* reverseJournalEntry: the entry has to be posted, and then to have no link to a
\* reversal, which the batch that reverses it adds.
ReadOriginal(r, pc, next) ==
    /\ At(r, pc)
    /\ IF journal[payments[req[r].document].entry].status = "posted"
       THEN Goto(r, next) /\ UNCHANGED <<books, tables>>
       ELSE Refuse(r)

FindReversal(r) ==
    /\ At(r, "find_reversal")
    /\ LET found == DraftsOf(payments[req[r].document].entry)
       IN  \/ \E e \in found :
                 IF journal[e].date = req[r].date
                 THEN /\ Become(r, [req[r] EXCEPT !.pc = "void", !.entry = e])
                      /\ UNCHANGED <<books, tables>>
                 ELSE Refuse(r)
           \/ found = {} /\ Goto(r, "create_reversal") /\ UNCHANGED <<books, tables>>

CreateReversal(r) ==
    /\ At(r, "create_reversal") /\ IdsLeft
    /\ LET o == payments[req[r].document].entry
       IN  IF SourceFree(o)
           THEN /\ DraftFor(FreshId, req[r].date, o)
                /\ Become(r, [req[r] EXCEPT !.pc = "void", !.entry = FreshId])
                /\ UNCHANGED tables
           ELSE Refuse(r)

\* Mutant: the bills keep what the voided payment paid.
BillsKept(p) == bills' = bills

RestoreBills(p) ==
    bills' = [b \in Bills |-> IF b \in PaidBy(p)
                              THEN Restore(bills[b], payments[p].amounts[b])
                              ELSE bills[b]]

VoidPosted(r) ==
    /\ At(r, "void")
    /\ LET p == req[r].document
           o == payments[p].entry
           e == req[r].entry
       IN  IF Reversible(o, e, VoidKey(p)) /\ PaymentGuard(p, req[r].version)
           THEN /\ Reverse(o, e, VoidKey(p), RequestHash)
                /\ MarkVoided(p) /\ RestoreBills(p)
                /\ Return(r) /\ UNCHANGED <<worth, decisions>>
           ELSE Refuse(r)

-----------------------------------------------------------------------------
(* What happens beside the requests.                                       *)

Evict(r) ==
    /\ ~At(r, "idle") /\ crashes < MaxCrashes
    /\ crashes' = crashes + 1
    /\ Refuse(r)
    /\ UNCHANGED <<accepting, changes>>

\* Ordinary operations on journal entries do not ask what an entry is for: drafts are
\* changed, removed, voided and posted, and what is posted is reversed.
StaffKeys == Keys \ (Bills \cup Payments \cup {VoidKey(p) : p \in Payments})

StaffEdit(e) ==
    \E date \in Dates, amount \in StaffAmounts \cup {worth[e]} :
        Edit(e, date) /\ worth' = [worth EXCEPT ![e] = amount]

StaffDraftReversal(e) ==
    /\ IdsLeft /\ e = FreshId
    /\ \E o \in Entries, date \in Dates :
          journal[o].status = "posted" /\ DraftFor(e, date, o)

StaffReverse(e) == \E o \in Entries, k \in StaffKeys : Reverse(o, e, k, RequestHash)

Staff(e) ==
    /\ changes < MaxChanges /\ changes' = changes + 1
    /\ \/ StaffEdit(e) \/ StaffDraftReversal(e)
       \/ Remove(e) /\ UNCHANGED worth
       \/ Void(e) /\ UNCHANGED worth
       \/ \E k \in StaffKeys : Post(e, k, RequestHash) /\ UNCHANGED worth
       \/ StaffReverse(e) /\ UNCHANGED worth
    /\ UNCHANGED <<accepting, tables, req, crashes>>

\* Staff open a period that did not accept postings.
OpenPeriod ==
    /\ accepting' = Dates /\ accepting # Dates
    /\ UNCHANGED <<books, tables, req, bounds>>

-----------------------------------------------------------------------------
(* Specification.                                                          *)

Begin(r) ==
    \/ CreateBill(r) \/ SubmitBill(r) \/ CreatePayment(r)
    \/ \E decision \in {"approved", "rejected"} : Decide(r, decision)
    \/ \E b \in Bills : BeginPostBill(r, b)
    \/ \E p \in Payments : BeginPostPayment(r, p) \/ BeginVoid(r, p)

Continue(r) ==
    \/ \E decision \in {"approved", "rejected"} : ApplyDecision(r, decision)
    \/ ReadBills(r) \/ FindDraft(r) \/ CreateDraft(r)
    \/ PostBill(r) \/ PostPayment(r)
    \/ VoidUnposted(r) \/ ReadPending(r)
    \/ ReadOriginal(r, "reverse", "read_link") \/ ReadOriginal(r, "read_link", "find_reversal")
    \/ FindReversal(r) \/ CreateReversal(r) \/ VoidPosted(r)

Step(r) == (Begin(r) \/ Continue(r)) /\ UNCHANGED <<accepting, bounds>>

PayablesInit ==
    /\ Init
    /\ worth = [e \in Entries |-> 0]
    /\ bills = [b \in Bills |-> AbsentBill]
    /\ decisions = {}
    /\ payments = [p \in Payments |-> AbsentPayment]
    /\ req = [r \in Requests |-> Idle]
    /\ changes = 0 /\ crashes = 0

PayablesNext ==
    \/ \E r \in Requests : Step(r) \/ Evict(r)
    \/ \E e \in Entries : Staff(e)
    \/ OpenPeriod

PayablesSpec == PayablesInit /\ [][PayablesNext]_vars

\* A client asks for a bill until it is posted, and for a void it has started until
\* it is made.
AskToPost(b) == \E r \in Requests : BeginPostBill(r, b) /\ UNCHANGED <<accepting, bounds>>
AskAgainToVoid(p) ==
    /\ payments[p].entry # None /\ DraftsOf(payments[p].entry) # {}
    /\ \E r \in Requests : BeginVoid(r, p) /\ UNCHANGED <<accepting, bounds>>

\* The runtime drives a request to its end, clients get their turn among the others
\* that occupy the requests of the instance, and closed periods are opened.
Retried ==
    /\ \A r \in Requests : WF_vars(Continue(r) /\ UNCHANGED <<accepting, bounds>>)
    /\ \A b \in Bills : SF_vars(AskToPost(b))
    /\ \A p \in Payments : SF_vars(AskAgainToVoid(p))
    /\ WF_vars(OpenPeriod)

FairSpec == PayablesSpec /\ Retried

=============================================================================
