-------------------------------- MODULE Inbox --------------------------------
(***************************************************************************)
(* Source events: ingestAccountingSourceEvent and                          *)
(* processAccountingSourceEvent of src/src/accounting/integrations/        *)
(* service.ts, with the three callers that feed them: gifts and refunds    *)
(* from source-wiring.ts and subscription invoices from service-costs.ts.  *)
(*                                                                         *)
(* A worker is one request that carries an event: a webhook delivery, which *)
(* may be repeated, a pass over the outstanding invoices, or the "Review & *)
(* post" by which a treasurer approves.  Between two awaits the others run. *)
(***************************************************************************)
EXTENDS Books, FiniteSets

CONSTANTS
    Gifts,
    Refunds,
    Invoices,
    GiftOf,      \* the gift that each refund gives back
    DateOf,      \* occurred_at of each event
    Sent,        \* the sets of events that the outside may send
    Accounts,    \* revenue accounts a gift can be mapped to
    Default,     \* acct_4010, the one that the migration puts in the settings
    Service,     \* acct_5860, the expense account of every invoice
    Workers,
    MaxChanges,  \* bound on what staff do, to the settings and to entries
    MaxCrashes

Events == Gifts \cup Refunds \cup Invoices

ASSUME InboxAssumption ==
    /\ Gifts \cap Refunds = {} /\ Invoices \cap (Gifts \cup Refunds) = {}
    /\ GiftOf \in [Refunds -> Gifts]
    /\ DateOf \in [Events -> Dates]
    /\ Sent \subseteq SUBSET Events
    /\ \A sent \in Sent : \A e \in sent \cap Refunds : GiftOf[e] \in sent
    /\ Events \subseteq Sources \cap Keys /\ Entries \subseteq Sources
    /\ Default \in Accounts
    /\ Accounts \cup {Service} \subseteq Hashes
    /\ None \notin Events \cup Accounts \cup {Service}
    /\ None \notin [entry : Entries, hash : Hashes]
    /\ MaxChanges \in Nat /\ MaxCrashes \in Nat

VARIABLES
    sent,      \* the gifts, refunds and invoices that there are
    events,    \* accounting_integration_source_events
    settings,  \* accounting_integration_settings and what the mappings resolve to
    account,   \* per entry: its revenue account, for an invoice its expense account
    invoices,  \* agapay_service_invoices.accounting_status, in the control plane
    worker,    \* the workers' local variables
    changes,
    crashes

tables == <<events, account, invoices>>
beside == <<sent, accepting, settings, changes, crashes>>
vars == <<journalVars, tables, worker, beside>>

-----------------------------------------------------------------------------

EventStatus == {"absent", "received", "waiting_for_review", "posting", "posted", "exception"}

NoEvent == [status |-> "absent", entry |-> None, original |-> None]

Idle == [pc |-> "idle", event |-> None, by |-> None, original |-> None,
         account |-> None, entry |-> None]

Working(w) == worker[w].pc # "idle"
At(w, pc) == worker[w].pc = pc
Become(w, local) == worker' = [worker EXCEPT ![w] = local]
Goto(w, pc) == Become(w, [worker[w] EXCEPT !.pc = pc])
Fail(w) == Become(w, [Idle EXCEPT !.pc = "exception", !.event = worker[w].event,
                                  !.by = worker[w].by])
Return(w) == Become(w, Idle)

\* The row is read again for the answer, which only postServiceInvoices looks at.
Answer(w) ==
    IF worker[w].event \in Invoices /\ worker[w].by = "source"
    THEN Become(w, [Idle EXCEPT !.pc = "result", !.event = worker[w].event])
    ELSE Return(w)

Event(w) == worker[w].event
Row(w) == events[Event(w)]

\* UPDATE ... WHERE id=?, whatever the row says now.
SetStatus(w, status) == events' = [events EXCEPT ![Event(w)].status = status]

\* The idempotency key names the object and the operation; the request hash is of
\* the proposal, which differs when the account does.
KeyOf(w) == Event(w)
HashOf(w) == worker[w].account

-----------------------------------------------------------------------------
(* What brings an event in.                                                *)

Start(w, e, by, pc) ==
    /\ At(w, "idle") /\ e \in sent
    /\ Become(w, [Idle EXCEPT !.pc = pc, !.event = e, !.by = by])
    /\ UNCHANGED <<journalVars, tables>>

\* Webhooks come any number of times, a refund's maybe before its gift was recorded.
DeliverGift(w, e) == e \in Gifts /\ Start(w, e, "source", "look_up")
DeliverRefund(w, e) == e \in Refunds /\ Start(w, e, "source", "original")

\* SELECT ... WHERE accounting_status NOT IN ('posted','no_charge').
Outstanding(e) == invoices[e] # "posted"
SynchronizeInvoice(w, e) == e \in Invoices /\ Outstanding(e) /\ Start(w, e, "source", "look_up")

ReviewInvoice(w, e) ==
    e \in Invoices /\ events[e].status # "absent" /\ Start(w, e, "treasurer", "read")

\* The gift is found by its event id, once: a refund is tied to it now or never.
FindOriginal(w) ==
    /\ At(w, "original")
    /\ LET gift == GiftOf[Event(w)]
       IN  Become(w, [worker[w] EXCEPT
               !.pc = "find",
               !.original = IF events[gift].status = "absent" THEN None ELSE gift])
    /\ UNCHANGED <<journalVars, tables>>

\* A refund that was recorded stays tied to what it was tied to.
FindRefund(w) ==
    /\ At(w, "find")
    /\ IF Row(w).status = "absent"
       THEN Goto(w, "look_up")
       ELSE Become(w, [worker[w] EXCEPT !.pc = "read", !.original = None])
    /\ UNCHANGED <<journalVars, tables>>

\* The facts of a repetition, the original among them, must be those of the event; the
\* ones of an invoice are, but a gift may have been changed since.
FindEvent(w) ==
    /\ At(w, "look_up")
    /\ \/ Row(w).status = "absent" /\ Goto(w, "ingest")
       \/ /\ Row(w).status # "absent" /\ Row(w).original = worker[w].original
          /\ Become(w, [worker[w] EXCEPT !.pc = "read", !.original = None])
       \/ Row(w).status # "absent" /\ Event(w) \notin Invoices /\ Return(w)
    /\ UNCHANGED <<journalVars, tables>>

\* The event id is unique: of two concurrent deliveries one fails.
Ingest(w) ==
    /\ At(w, "ingest")
    /\ IF Row(w).status = "absent"
       THEN /\ events' = [events EXCEPT ![Event(w)] =
                   [NoEvent EXCEPT !.status = "received", !.original = worker[w].original]]
            /\ Become(w, [worker[w] EXCEPT !.pc = "read", !.original = None])
       ELSE Return(w) /\ UNCHANGED events
    /\ UNCHANGED <<journalVars, account, invoices>>

-----------------------------------------------------------------------------
(* processAccountingSourceEvent.                                           *)

ReadEvent(w) ==
    /\ At(w, "read")
    /\ IF Row(w).status = "posted" THEN Answer(w) ELSE Goto(w, "resolve")
    /\ UNCHANGED <<journalVars, tables>>

\* The account of the entry the original was posted with comes before the mapping.
OriginalEntry(w) ==
    IF Row(w).original = None THEN None ELSE events[Row(w).original].entry

\* Mutant: without an original there is no account.
HistoricalAccount(w) ==
    IF Event(w) \in Invoices THEN Service
    ELSE IF OriginalEntry(w) # None THEN account[OriginalEntry(w)]
    ELSE None

ResolvedAccount(w) ==
    IF Event(w) \in Invoices THEN Service
    ELSE IF OriginalEntry(w) # None THEN account[OriginalEntry(w)]
    ELSE settings.account

Held(w) == settings.mode = "review_required" /\ worker[w].by = "source"

\* Settings, mapping and accounts; "ready" stands for every check that would
\* put the event into exception.
Resolve(w) ==
    /\ At(w, "resolve")
    /\ IF ~settings.ready THEN Fail(w)
       ELSE IF Held(w) THEN Goto(w, "hold")
       ELSE Become(w, [worker[w] EXCEPT !.pc = "mark", !.account = ResolvedAccount(w)])
    /\ UNCHANGED <<journalVars, tables>>

Hold(w) ==
    /\ At(w, "hold")
    /\ SetStatus(w, "waiting_for_review")
    /\ Answer(w)
    /\ UNCHANGED <<journalVars, account, invoices>>

\* Mutant: an attempt that was interrupted is not taken up again.
NothingResumed(w) == FALSE

\* The entry of an earlier attempt, of any status.
Resumes(w) == EntriesOf(Event(w)) # {}

\* Only an invoice looks for an earlier attempt.
MarkPosting(w) ==
    /\ At(w, "mark")
    /\ SetStatus(w, "posting")
    /\ Goto(w, IF Event(w) \in Invoices THEN "look" ELSE "draft")
    /\ UNCHANGED <<journalVars, account, invoices>>

FindEntry(w) ==
    /\ At(w, "look")
    /\ IF Resumes(w)
       THEN \E e \in EntriesOf(Event(w)) :
                Become(w, [worker[w] EXCEPT !.pc = "post", !.entry = e])
       ELSE Goto(w, "draft")
    /\ UNCHANGED <<journalVars, tables>>

CreateDraft(w) ==
    /\ At(w, "draft")
    /\ LET e == FreshId
       IN  IF IdsLeft /\ SourceFree(Event(w))
           THEN /\ Draft(e, DateOf[Event(w)], Event(w))
                /\ account' = [account EXCEPT ![e] = worker[w].account]
                /\ Become(w, [worker[w] EXCEPT !.pc = "post", !.entry = e])
           ELSE Fail(w) /\ UNCHANGED <<journalVars, account>>
    /\ UNCHANGED <<events, invoices>>

\* Mutant: the exception of a refused posting is swallowed.
RefusalUnnoticed(w) == Goto(w, "posted") /\ UNCHANGED journalVars

PostingRefused(w) == Fail(w) /\ UNCHANGED journalVars

\* postJournalEntry of the first version, so that an edited draft is refused.
PostEntry(w) ==
    /\ At(w, "post")
    /\ LET e == worker[w].entry
           k == KeyOf(w)
       IN  CASE Replayed(e, k, HashOf(w)) -> Goto(w, "posted") /\ UNCHANGED journalVars
             [] Postable(e, k) /\ journal[e].status = "draft" ->
                    Post(e, k, HashOf(w)) /\ Goto(w, "posted")
             [] OTHER -> PostingRefused(w)
    /\ UNCHANGED tables

MarkPosted(w) ==
    /\ At(w, "posted")
    /\ events' = [events EXCEPT ![Event(w)].status = "posted",
                                ![Event(w)].entry = worker[w].entry]
    /\ Goto(w, "log")
    /\ UNCHANGED <<journalVars, account, invoices>>

Log(w) == At(w, "log") /\ Answer(w) /\ UNCHANGED <<journalVars, tables>>

\* Over whatever another worker has made of the event meanwhile.
Except(w) ==
    /\ At(w, "exception")
    /\ SetStatus(w, "exception")
    /\ Answer(w)
    /\ UNCHANGED <<journalVars, account, invoices>>

\* postServiceInvoices stores what the row said, in the other database.
ReadResult(w) ==
    /\ At(w, "result")
    /\ Goto(w, IF Row(w).status = "posted" THEN "store_posted" ELSE "store_unposted")
    /\ UNCHANGED <<journalVars, tables>>

\* Mutant: an invoice that was attempted is stored as posted.
AnyResult(w) == "posted"

Result(w) == IF At(w, "store_posted") THEN "posted" ELSE "unposted"

StoreResult(w) ==
    /\ worker[w].pc \in {"store_posted", "store_unposted"}
    /\ invoices' = [invoices EXCEPT ![Event(w)] = Result(w)]
    /\ Return(w)
    /\ UNCHANGED <<journalVars, events, account>>

-----------------------------------------------------------------------------
(* What happens beside the workers.                                        *)

Evict(w) ==
    /\ Working(w) /\ crashes < MaxCrashes
    /\ crashes' = crashes + 1
    /\ Return(w)
    /\ UNCHANGED <<journalVars, tables, sent, accepting, settings, changes>>

Modes == {"automatic", "review_required"}
Settings == [ready : BOOLEAN, mode : Modes, account : Accounts]

\* A statement of the try fails for reasons of the database: the catch takes it, and
\* after MarkPosted it does so too.
Fault(w) ==
    /\ worker[w].pc \in {"look", "draft", "post", "posted", "log"} /\ crashes < MaxCrashes
    /\ crashes' = crashes + 1
    /\ Fail(w)
    /\ UNCHANGED <<journalVars, tables, sent, accepting, settings, changes>>

ChangeSettings ==
    /\ changes < MaxChanges /\ changes' = changes + 1
    /\ settings' \in Settings \ {settings}
    /\ UNCHANGED <<journalVars, tables, worker, sent, accepting, crashes>>

\* Staff open and close periods, and edit, delete, void, post or reverse what they find.
StaffKeys == Keys \ Events

StaffEdit(e) ==
    \E date \in Dates, to \in Accounts \cup {Service} :
        Edit(e, date) /\ account' = [account EXCEPT ![e] = to]

StaffDraftReversal(e) ==
    /\ IdsLeft /\ e = FreshId
    /\ \E o \in Entries, date \in Dates :
          Mirror(o, e, date) /\ account' = [account EXCEPT ![e] = account[o]]

StaffHash == CHOOSE h \in Hashes : TRUE
StaffHandle(e) == Handle(e, StaffKeys, StaffHash) /\ UNCHANGED account

Staff ==
    /\ changes < MaxChanges /\ changes' = changes + 1
    /\ \/ Reschedule /\ UNCHANGED account
       \/ /\ UNCHANGED accepting
          /\ \E e \in Entries : StaffEdit(e) \/ StaffDraftReversal(e) \/ StaffHandle(e)
    /\ UNCHANGED <<sent, events, invoices, worker, settings, crashes>>

-----------------------------------------------------------------------------
(* Specification.                                                          *)

Deliver(w) ==
    /\ \E e \in Events :
          DeliverGift(w, e) \/ DeliverRefund(w, e) \/ ReviewInvoice(w, e)
    /\ UNCHANGED beside

Synchronize(w, e) == SynchronizeInvoice(w, e) /\ UNCHANGED beside

Continue(w) ==
    /\ \/ FindOriginal(w) \/ FindRefund(w) \/ FindEvent(w) \/ Ingest(w) \/ ReadEvent(w) \/ Resolve(w)
       \/ Hold(w) \/ MarkPosting(w) \/ FindEntry(w) \/ CreateDraft(w) \/ PostEntry(w)
       \/ MarkPosted(w) \/ Log(w) \/ Except(w) \/ ReadResult(w) \/ StoreResult(w)
    /\ UNCHANGED beside

\* The integration has been set up, with review or without.
InboxInit ==
    /\ Init
    /\ sent \in Sent
    /\ events = [e \in Events |-> NoEvent]
    /\ settings \in [ready : {TRUE}, mode : Modes, account : {Default}]
    /\ account = [e \in Entries |-> None]
    /\ invoices = [e \in Invoices |-> "pending"]
    /\ worker = [w \in Workers |-> Idle]
    /\ changes = 0
    /\ crashes = 0

InboxNext ==
    \/ \E w \in Workers :
          \/ Deliver(w) \/ Continue(w) \/ Evict(w) \/ Fault(w)
          \/ \E e \in Events : Synchronize(w, e)
    \/ ChangeSettings
    \/ Staff

InboxSpec == InboxInit /\ [][InboxNext]_vars

\* A request that is not evicted ends, and every request to Accounting passes over
\* the outstanding invoices: the other requests leave room for that.
Requests ==
    /\ \A w \in Workers : WF_vars(Continue(w))
    /\ \A e \in Invoices : SF_vars(\E w \in Workers : Synchronize(w, e))

FairSpec == InboxSpec /\ Requests

=============================================================================
