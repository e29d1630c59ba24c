--------------------------- MODULE InboxProperties ---------------------------
(* What the inbox promises about its events and the journal.               *)
EXTENDS Inbox

EventType == [status : EventStatus, entry : Entries \cup {None}, original : Gifts \cup {None}]
PC == {"idle", "original", "find", "look_up", "ingest", "read", "resolve", "hold", "mark", "look",
       "draft", "post", "posted", "log", "exception", "result", "store_posted", "store_unposted"}
WorkerType == [pc : PC, event : Events \cup {None}, by : {"source", "treasurer", None},
               original : Gifts \cup {None}, account : Accounts \cup {Service, None},
               entry : Entries \cup {None}]

\* Every column and local variable has its type, a worker at work has an event and one
\* past the resolution of the mapping has an account.
TypeOK ==
    /\ sent \in Sent
    /\ events \in [Events -> EventType]
    /\ settings \in Settings
    /\ account \in [Entries -> Accounts \cup {Service, None}]
    /\ invoices \in [Invoices -> {"pending", "posted", "unposted"}]
    /\ worker \in [Workers -> WorkerType]
    /\ \A w \in Workers :
          /\ Working(w) => Event(w) # None
          /\ worker[w].pc \in {"mark", "look", "draft", "post"} => worker[w].account # None
    /\ changes \in 0..MaxChanges /\ crashes \in 0..MaxCrashes

-----------------------------------------------------------------------------

InBooks(e) == {x \in EntriesOf(e) : Posted(x)}

\* An event is in the books at most once, however often it was delivered or retried,
\* and when it says that it is posted it names that entry.
BookedOnce ==
    \A e \in Events :
        /\ Cardinality(InBooks(e)) <= 1
        /\ events[e].status = "posted" => InBooks(e) = {events[e].entry}

\* The control plane calls an invoice posted only when the parish's books have it: the
\* two databases agree although no transaction spans them.
InvoiceIsBooked ==
    \A e \in Invoices : invoices[e] = "posted" => InBooks(e) # {}

\* A refund debits the revenue account that its gift has credited.
RefundFollowsGift ==
    \A e \in Refunds : \A x \in InBooks(e) : \A y \in InBooks(GiftOf[e]) :
        account[x] = account[y]

-----------------------------------------------------------------------------

\* What an invoice has to wait for: settings and a period that let it through, and no
\* entry of its own that staff have edited, voided or posted themselves.
Clear(e) ==
    /\ settings.ready /\ settings.mode = "automatic"
    /\ DateOf[e] \in accepting
    /\ \A x \in EntriesOf(e) : journal[x].status = "draft" \/ Replayed(x, e, Service)
    /\ EntriesOf(e) # {} \/ IdsLeft

Alone(e) == \A v, w \in Workers : Event(v) = e /\ Event(w) = e => v = w

\* Once nothing stands in the way any more, a paid invoice gets into the books, whatever
\* attempts failed, raced or stopped before; and the control plane learns of it for good
\* once the attempts no longer overlap.  (While they do, each can put the event back
\* into posting before the other has read that it is posted.)
InvoiceSettles ==
    \A e \in Invoices : e \in sent =>
        /\ <>[]Clear(e) => <>(InBooks(e) # {})
        /\ <>[](Clear(e) /\ Alone(e)) => <>[](invoices[e] = "posted")

=============================================================================
