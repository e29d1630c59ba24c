----------------------------- MODULE InboxProofs -----------------------------
(***************************************************************************)
(* For any number of events, workers and deliveries: an event is booked    *)
(* once and what is called posted is in the books, in either database.     *)
(* Rows and idempotency keys point at entries, and the books keep what     *)
(* they have, so that whatever a worker has seen posted is so when it      *)
(* writes that down, however late that is.                                 *)
(***************************************************************************)
EXTENDS InboxProperties, BooksProofs, FiniteSetTheorems, TLAPS

Booked(x, e) == Posted(x) /\ journal[x].source = e

\* A key names an entry that is posted for the event of that key.
EventKeysInv ==
    /\ keys \in [Keys -> Receipts]
    /\ \A e \in Events, x \in Entries, h \in Hashes :
          keys[e] = [entry |-> x, hash |-> h] => Booked(x, e)

AccountsInv ==
    /\ account \in [Entries -> Accounts \cup {Service, None}]
    /\ \A x \in Entries : journal[x].status # "absent" => account[x] # None

EventKept(e) ==
    /\ events[e].entry # None =>
          events[e].entry \in Entries /\ journal[events[e].entry].status # "absent"
    /\ events[e].status = "posted" => events[e].entry \in Entries /\ Booked(events[e].entry, e)

EventsInv == events \in [Events -> EventType] /\ \A e \in Events : EventKept(e)

InvoicesInv ==
    /\ invoices \in [Invoices -> {"pending", "posted", "unposted"}]
    /\ \A e \in Invoices : invoices[e] = "posted" => \E x \in Entries : Booked(x, e)

\* What a worker knows of its event and of the entry it is to post.
Works(w) ==
    /\ Working(w) => Event(w) \in Events
    /\ worker[w].pc = "original" => Event(w) \in Refunds
    /\ worker[w].pc \in {"result", "store_posted", "store_unposted"} => Event(w) \in Invoices
    /\ worker[w].pc \in {"mark", "look", "draft", "post"} => worker[w].account # None
    /\ worker[w].pc \in {"post", "posted"} =>
          worker[w].entry \in Entries /\ journal[worker[w].entry].status # "absent"
    /\ worker[w].pc = "post" /\ journal[worker[w].entry].status = "draft" =>
          journal[worker[w].entry].source = Event(w)
    /\ worker[w].pc = "posted" => Booked(worker[w].entry, Event(w))
    /\ worker[w].pc = "store_posted" => \E x \in Entries : Booked(x, Event(w))

TablesInv == JournalInv /\ EventKeysInv /\ AccountsInv /\ EventsInv /\ InvoicesInv

BesideInv ==
    /\ sent \in Sent
    /\ settings \in Settings
    /\ changes \in 0..MaxChanges /\ crashes \in 0..MaxCrashes

InboxInv ==
    /\ TablesInv
    /\ BesideInv
    /\ worker \in [Workers -> WorkerType]
    /\ \A w \in Workers : Works(w)

-----------------------------------------------------------------------------
(* What is booked stays booked.                                            *)

LEMMA BookedStays ==
    ASSUME JournalStep, NEW x \in Entries, NEW e, Booked(x, e)
    PROVE  Booked(x, e)'
BY DEF JournalStep, Booked, Posted

LEMMA EventKeysStay ==
    ASSUME TablesInv, JournalStep, UNCHANGED keys
    PROVE  EventKeysInv'
BY BookedStays DEF TablesInv, EventKeysInv

LEMMA EventsStay ==
    ASSUME TablesInv, JournalStep, UNCHANGED events
    PROVE  EventsInv'
BY BookedStays DEF TablesInv, EventsInv, EventKept, JournalStep

LEMMA InvoicesStay ==
    ASSUME TablesInv, JournalStep, UNCHANGED invoices
    PROVE  InvoicesInv'
BY BookedStays DEF TablesInv, InvoicesInv

LEMMA TablesStay ==
    ASSUME TablesInv, UNCHANGED <<journal, keys, account, events, invoices>>
    PROVE  TablesInv' /\ JournalStep
<1>1. JournalInv' /\ JournalStep
  BY UnchangedJournal DEF TablesInv
<1>2. AccountsInv'
  BY DEF TablesInv, AccountsInv
<1>. QED
  BY <1>1, <1>2, EventKeysStay, EventsStay, InvoicesStay DEF TablesInv

LEMMA OthersWork ==
    ASSUME InboxInv, JournalStep, NEW w \in Workers, UNCHANGED worker[w]
    PROVE  Works(w)'
<1>1. Works(w)
  BY DEF InboxInv
<1>2. \A x \in Entries : journal[x].status # "absent" =>
          /\ journal'[x].status # "absent"
          /\ journal'[x].status = "draft" => journal'[x] = journal[x]
  BY DEF JournalStep
<1>3. \A x \in Entries : Booked(x, Event(w)) => Booked(x, Event(w))'
  BY BookedStays DEF Booked, Event, JournalStep, Posted
<1>. QED
  BY <1>1, <1>2, <1>3 DEF Works, Working, Event

-----------------------------------------------------------------------------
(* The local variables of a worker.                                        *)

\* What a step of a worker has to show.
LEMMA WorkerMoves ==
    ASSUME InboxInv, JournalStep, TablesInv', BesideInv',
           NEW w \in Workers, NEW local \in WorkerType, Become(w, local), Works(w)'
    PROVE  InboxInv'
<1>1. worker' \in [Workers -> WorkerType]
  BY DEF Become, InboxInv
<1>2. ASSUME NEW v \in Workers, v # w
      PROVE  Works(v)'
  <2>1. UNCHANGED worker[v]
    BY <1>2 DEF Become, InboxInv
  <2>. QED
    BY <2>1, OthersWork
<1>. QED
  BY <1>1, <1>2 DEF InboxInv

LEMMA IdleIsTyped == Idle \in WorkerType /\ Idle.pc = "idle"
BY DEF Idle, WorkerType, PC

LEMMA ReturnWorks ==
    ASSUME InboxInv, NEW w \in Workers, Return(w)
    PROVE  \E local \in WorkerType : Become(w, local) /\ Works(w)'
<1>1. Become(w, Idle) /\ worker'[w] = Idle
  BY DEF Return, Become, InboxInv
<1>. QED
  BY <1>1, IdleIsTyped DEF Works, Working

\* A worker that goes on with its event and nothing else.
LEMMA Restarts ==
    ASSUME InboxInv, NEW w \in Workers, NEW e \in Events, NEW by \in {"source", "treasurer", None},
           NEW pc \in {"original", "look_up", "read", "exception", "result"},
           pc = "original" => e \in Refunds,
           pc = "result" => e \in Invoices,
           Become(w, [Idle EXCEPT !.pc = pc, !.event = e, !.by = by])
    PROVE  \E local \in WorkerType : Become(w, local) /\ Works(w)'
<1>. DEFINE local == [Idle EXCEPT !.pc = pc, !.event = e, !.by = by]
<1>1. local \in WorkerType /\ local.pc = pc /\ local.event = e
  BY IdleIsTyped DEF WorkerType, PC
<1>2. Become(w, local)
  OBVIOUS
<1>. HIDE DEF local
<1>3. worker'[w] = local
  BY <1>2 DEF Become, InboxInv
<1>4. Works(w)'
  BY <1>1, <1>3 DEF Works, Working, Event
<1>. QED
  BY <1>1, <1>2, <1>4

LEMMA FailWorks ==
    ASSUME InboxInv, NEW w \in Workers, Working(w), Fail(w)
    PROVE  \E local \in WorkerType : Become(w, local) /\ Works(w)'
<1>1. worker[w].event \in Events /\ worker[w].by \in {"source", "treasurer", None}
  BY DEF InboxInv, Works, Event, WorkerType
<1>. QED
  BY <1>1, Restarts DEF Fail

LEMMA AnswerWorks ==
    ASSUME InboxInv, NEW w \in Workers, Working(w), Answer(w)
    PROVE  \E local \in WorkerType : Become(w, local) /\ Works(w)'
<1>1. CASE Return(w)
  BY <1>1, ReturnWorks
<1>2. CASE /\ worker[w].event \in Invoices
           /\ Become(w, [Idle EXCEPT !.pc = "result", !.event = worker[w].event])
  <2>. DEFINE local == [Idle EXCEPT !.pc = "result", !.event = worker[w].event]
  <2>1. local \in WorkerType /\ local.pc = "result" /\ local.event = worker[w].event
    BY <1>2, IdleIsTyped DEF WorkerType, PC, Events
  <2>2. Become(w, local)
    BY <1>2
  <2>. HIDE DEF local
  <2>3. worker'[w] = local
    BY <2>2 DEF Become, InboxInv
  <2>4. Works(w)'
    BY <1>2, <2>1, <2>3 DEF Works, Working, Event, Events
  <2>. QED
    BY <2>1, <2>2, <2>4
<1>. QED
  BY <1>1, <1>2 DEF Answer

\* A worker that goes on keeps what it has read.
LEMMA GotoKeeps ==
    ASSUME InboxInv, NEW w \in Workers, NEW pc \in PC, Goto(w, pc)
    PROVE  \E local \in WorkerType :
              /\ Become(w, local)
              /\ worker'[w] = local
              /\ local.pc = pc
              /\ local.event = worker[w].event
              /\ local.account = worker[w].account
              /\ local.entry = worker[w].entry
<1>. DEFINE local == [worker[w] EXCEPT !.pc = pc]
<1>1. worker[w] \in WorkerType
  BY DEF InboxInv
<1>2. /\ local \in WorkerType /\ local.pc = pc /\ local.event = worker[w].event
      /\ local.account = worker[w].account /\ local.entry = worker[w].entry
  BY <1>1 DEF WorkerType
<1>3. Become(w, local) /\ worker'[w] = local
  BY DEF Goto, Become, InboxInv
<1>. QED
  BY <1>2, <1>3

LEMMA GotoWorks ==
    ASSUME InboxInv, NEW w \in Workers, Working(w),
           NEW pc \in {"look_up", "ingest", "log", "resolve", "hold", "look", "draft", "posted",
                       "store_posted", "store_unposted"}, Goto(w, pc),
           pc \in {"look", "draft"} => worker[w].account # None,
           pc = "posted" =>
              /\ worker[w].entry \in Entries
              /\ Booked(worker[w].entry, Event(w))',
           pc \in {"store_posted", "store_unposted"} => Event(w) \in Invoices,
           pc = "store_posted" => \E x \in Entries : Booked(x, Event(w))'
    PROVE  \E local \in WorkerType : Become(w, local) /\ Works(w)'
<1>1. PICK local \in WorkerType :
          /\ Become(w, local)
          /\ worker'[w] = local
          /\ local.pc = pc
          /\ local.event = worker[w].event
          /\ local.account = worker[w].account
          /\ local.entry = worker[w].entry
  BY GotoKeeps DEF PC
<1>2. Event(w)' = Event(w) /\ Event(w) \in Events
  BY <1>1 DEF Event, InboxInv, Works
<1>3. Works(w)'
  BY <1>1, <1>2 DEF Works, Working, Event, Booked, Posted
<1>. QED
  BY <1>1, <1>3

-----------------------------------------------------------------------------
(* Each step of a worker.                                                  *)

\* A step that changes no table has to account for the worker only.
LEMMA ReadingKeeps ==
    ASSUME InboxInv, UNCHANGED <<journalVars, tables, beside>>, NEW w \in Workers,
           \E local \in WorkerType : Become(w, local) /\ Works(w)'
    PROVE  InboxInv'
<1>1. TablesInv' /\ JournalStep
  BY TablesStay DEF InboxInv, journalVars, tables
<1>2. BesideInv'
  BY DEF InboxInv, BesideInv, beside
<1>. QED
  BY <1>1, <1>2, WorkerMoves

LEMMA BesideStays ==
    ASSUME InboxInv, UNCHANGED beside
    PROVE  BesideInv'
BY Zenon DEF InboxInv, BesideInv, beside

LEMMA StartKeeps ==
    ASSUME InboxInv, NEW w \in Workers, NEW e \in Events, NEW by \in {"source", "treasurer"},
           NEW pc \in {"original", "look_up", "read"}, pc = "original" => e \in Refunds,
           Start(w, e, by, pc), UNCHANGED beside
    PROVE  InboxInv'
BY Restarts, ReadingKeeps DEF Start

LEMMA DeliverKeeps ==
    ASSUME InboxInv, NEW w \in Workers, Deliver(w)
    PROVE  InboxInv'
<1>1. PICK e \in Events : DeliverGift(w, e) \/ DeliverRefund(w, e) \/ ReviewInvoice(w, e)
  BY DEF Deliver
<1>2. CASE DeliverGift(w, e)
  BY <1>2, StartKeeps DEF Deliver, DeliverGift
<1>3. CASE DeliverRefund(w, e)
  BY <1>3, StartKeeps DEF Deliver, DeliverRefund
<1>4. CASE ReviewInvoice(w, e)
  BY <1>4, StartKeeps DEF Deliver, ReviewInvoice
<1>. QED
  BY <1>1, <1>2, <1>3, <1>4

LEMMA FindOriginalKeeps ==
    ASSUME InboxInv, InboxAssumption, NEW w \in Workers, FindOriginal(w), UNCHANGED beside
    PROVE  InboxInv'
<1>. DEFINE gift == GiftOf[Event(w)]
            original == IF events[gift].status = "absent" THEN None ELSE gift
            local == [worker[w] EXCEPT !.pc = "find", !.original = original]
<1>1. Event(w) \in Refunds
  BY DEF FindOriginal, At, InboxInv, Works
<1>2. original \in Gifts \cup {None}
  BY <1>1 DEF InboxAssumption
<1>3. Become(w, local)
  BY DEF FindOriginal
<1>. HIDE DEF original
<1>4. local \in WorkerType /\ local.pc = "find" /\ local.event = worker[w].event
  <2>1. worker[w] \in WorkerType
    BY DEF InboxInv
  <2>. QED
    BY <1>2, <2>1 DEF WorkerType, PC
<1>. HIDE DEF local
<1>5. worker'[w] = local
  BY <1>3 DEF Become, InboxInv
<1>6. Works(w)'
  BY <1>1, <1>4, <1>5 DEF Works, Working, Event, Events
<1>. QED
  BY <1>3, <1>4, <1>6, ReadingKeeps DEF FindOriginal

\* A worker whose event is in the inbox reads it.
LEMMA ReadNext ==
    ASSUME InboxInv, NEW w \in Workers, Working(w),
           Become(w, [worker[w] EXCEPT !.pc = "read", !.original = None])
    PROVE  \E local \in WorkerType : Become(w, local) /\ Works(w)'
<1>. DEFINE local == [worker[w] EXCEPT !.pc = "read", !.original = None]
<1>1. local \in WorkerType /\ local.pc = "read" /\ local.event = worker[w].event
  BY DEF InboxInv, WorkerType, PC
<1>2. Become(w, local)
  OBVIOUS
<1>. HIDE DEF local
<1>3. worker'[w] = local
  BY <1>2 DEF Become, InboxInv
<1>4. Works(w)'
  BY <1>1, <1>3 DEF InboxInv, Works, Working, Event
<1>. QED
  BY <1>1, <1>2, <1>4

LEMMA FindKeeps ==
    ASSUME InboxInv, NEW w \in Workers, FindRefund(w) \/ FindEvent(w), UNCHANGED beside
    PROVE  InboxInv'
<1>1. Working(w) /\ UNCHANGED <<journalVars, tables>>
  BY DEF FindRefund, FindEvent, At, Working
<1>2. CASE Goto(w, "look_up")
  BY <1>1, <1>2, GotoWorks, ReadingKeeps
<1>3. CASE Goto(w, "ingest")
  BY <1>1, <1>3, GotoWorks, ReadingKeeps
<1>4. CASE Become(w, [worker[w] EXCEPT !.pc = "read", !.original = None])
  BY <1>1, <1>4, ReadNext, ReadingKeeps
<1>5. CASE Return(w)
  BY <1>1, <1>5, ReturnWorks, ReadingKeeps
<1>. QED
  BY <1>2, <1>3, <1>4, <1>5 DEF FindRefund, FindEvent

\* A row that changes, with what it says of the books.
LEMMA EventMoves ==
    ASSUME InboxInv, JournalStep, NEW e \in Events, NEW row \in EventType,
           events' = [events EXCEPT ![e] = row],
           row.entry # None => row.entry \in Entries /\ journal'[row.entry].status # "absent",
           row.status = "posted" => row.entry \in Entries /\ Booked(row.entry, e)
    PROVE  EventsInv'
<1>1. /\ events' \in [Events -> EventType] /\ events'[e] = row
      /\ \A f \in Events : f # e => events'[f] = events[f]
  BY DEF InboxInv, TablesInv, EventsInv
<1>2. ASSUME NEW f \in Events
      PROVE  EventKept(f)'
  <2>1. CASE f = e
    BY <2>1, <1>1, BookedStays DEF EventKept
  <2>2. CASE f # e
    BY <2>2, <1>1, BookedStays DEF InboxInv, TablesInv, EventsInv, EventKept, JournalStep
  <2>. QED
    BY <2>1, <2>2
<1>. QED
  BY <1>1, <1>2 DEF EventsInv

\* A step that changes an event and no other table.
LEMMA EventStep ==
    ASSUME InboxInv, NEW w \in Workers, UNCHANGED <<journalVars, account, invoices, beside>>,
           EventsInv', \E local \in WorkerType : Become(w, local) /\ Works(w)'
    PROVE  InboxInv'
<1>1. JournalInv' /\ JournalStep
  BY UnchangedJournal DEF InboxInv, TablesInv, journalVars
<1>2. EventKeysInv' /\ InvoicesInv'
  BY <1>1, EventKeysStay, InvoicesStay DEF InboxInv, journalVars
<1>3. AccountsInv'
  BY DEF InboxInv, TablesInv, AccountsInv, journalVars
<1>4. TablesInv'
  BY <1>1, <1>2, <1>3 DEF TablesInv
<1>. QED
  BY <1>1, <1>4, BesideStays, WorkerMoves

LEMMA SetStatusKeeps ==
    ASSUME InboxInv, NEW w \in Workers, Working(w), JournalStep, UNCHANGED journal,
           NEW status \in EventStatus \ {"posted"}, SetStatus(w, status)
    PROVE  EventsInv'
<1>. DEFINE row == [events[Event(w)] EXCEPT !.status = status]
<1>1. Event(w) \in Events
  BY DEF InboxInv, Works
<1>2. events[Event(w)] \in EventType /\ EventKept(Event(w))
  BY <1>1 DEF InboxInv, TablesInv, EventsInv
<1>3. row \in EventType /\ row.status = status /\ row.entry = events[Event(w)].entry
  BY <1>2 DEF EventType
<1>4. events' = [events EXCEPT ![Event(w)] = row]
  BY DEF SetStatus
<1>. HIDE DEF row
<1>. QED
  BY <1>1, <1>2, <1>3, <1>4, EventMoves DEF EventKept

LEMMA IngestKeeps ==
    ASSUME InboxInv, NEW w \in Workers, Ingest(w), UNCHANGED beside
    PROVE  InboxInv'
<1>1. Working(w) /\ Event(w) \in Events
  BY DEF Ingest, At, Working, InboxInv, Works
<1>2. CASE Return(w) /\ UNCHANGED events
  BY <1>2, ReturnWorks, ReadingKeeps DEF Ingest, tables
<1>3. CASE /\ events' = [events EXCEPT ![Event(w)] =
                 [NoEvent EXCEPT !.status = "received", !.original = worker[w].original]]
           /\ Become(w, [worker[w] EXCEPT !.pc = "read", !.original = None])
  <2>. DEFINE row == [NoEvent EXCEPT !.status = "received", !.original = worker[w].original]
  <2>1. worker[w].original \in Gifts \cup {None}
    BY DEF InboxInv, WorkerType
  <2>2. row \in EventType /\ row.status = "received" /\ row.entry = None
    BY <2>1 DEF NoEvent, EventType, EventStatus
  <2>3. events' = [events EXCEPT ![Event(w)] = row]
    BY <1>3
  <2>. HIDE DEF row
  <2>4. JournalStep
    BY UnchangedJournal DEF Ingest, InboxInv, TablesInv, journalVars
  <2>5. EventsInv'
    BY <1>1, <2>2, <2>3, <2>4, EventMoves
  <2>. QED
    BY <1>1, <1>3, <2>5, ReadNext, EventStep DEF Ingest
<1>. QED
  BY <1>2, <1>3 DEF Ingest

LEMMA ReadEventKeeps ==
    ASSUME InboxInv, NEW w \in Workers, ReadEvent(w), UNCHANGED beside
    PROVE  InboxInv'
<1>1. Working(w)
  BY DEF ReadEvent, At, Working
<1>2. Answer(w) \/ Goto(w, "resolve")
  BY DEF ReadEvent
<1>. QED
  BY <1>1, <1>2, AnswerWorks, GotoWorks, ReadingKeeps DEF ReadEvent

LEMMA ResolvedIsAnAccount ==
    ASSUME InboxInv, InboxAssumption, NEW w \in Workers, Working(w)
    PROVE  ResolvedAccount(w) \in Accounts \cup {Service}
<1>1. Event(w) \in Events
  BY DEF InboxInv, Works
<1>2. events[Event(w)].original \in Gifts \cup {None}
  BY <1>1 DEF InboxInv, TablesInv, EventsInv, EventType
<1>3. ASSUME OriginalEntry(w) # None
      PROVE  account[OriginalEntry(w)] \in Accounts \cup {Service}
  <2>. DEFINE gift == events[Event(w)].original
  <2>1. gift \in Events /\ OriginalEntry(w) = events[gift].entry
    BY <1>2, <1>3 DEF OriginalEntry, Row, Events
  <2>2. OriginalEntry(w) \in Entries /\ journal[OriginalEntry(w)].status # "absent"
    BY <1>3, <2>1 DEF InboxInv, TablesInv, EventsInv, EventKept
  <2>. QED
    BY <2>2 DEF InboxInv, TablesInv, AccountsInv
<1>4. settings.account \in Accounts
  BY DEF InboxInv, BesideInv, Settings
<1>. QED
  BY <1>3, <1>4 DEF ResolvedAccount

LEMMA ResolveKeeps ==
    ASSUME InboxInv, InboxAssumption, NEW w \in Workers, Resolve(w), UNCHANGED beside
    PROVE  InboxInv'
<1>1. Working(w)
  BY DEF Resolve, At, Working
<1>2. CASE Fail(w)
  BY <1>1, <1>2, FailWorks, ReadingKeeps DEF Resolve
<1>3. CASE Goto(w, "hold")
  BY <1>1, <1>3, GotoWorks, ReadingKeeps DEF Resolve
<1>4. CASE Become(w, [worker[w] EXCEPT !.pc = "mark", !.account = ResolvedAccount(w)])
  <2>. DEFINE resolved == ResolvedAccount(w)
              local == [worker[w] EXCEPT !.pc = "mark", !.account = resolved]
  <2>1. resolved \in Accounts \cup {Service} /\ resolved # None
    BY <1>1, ResolvedIsAnAccount DEF InboxAssumption
  <2>2. Become(w, local)
    BY <1>4
  <2>. HIDE DEF resolved
  <2>3. worker[w] \in WorkerType
    BY DEF InboxInv
  <2>4. /\ local \in WorkerType /\ local.pc = "mark" /\ local.event = worker[w].event
        /\ local.account = resolved
    BY <2>1, <2>3 DEF WorkerType, PC
  <2>. HIDE DEF local
  <2>5. worker'[w] = local
    BY <2>2 DEF Become, InboxInv
  <2>6. Works(w)'
    BY <1>1, <2>1, <2>4, <2>5 DEF InboxInv, Works, Working, Event
  <2>. QED
    BY <2>2, <2>4, <2>6, ReadingKeeps DEF Resolve
<1>. QED
  BY <1>2, <1>3, <1>4 DEF Resolve

\* Holding, marking and failing an event.
LEMMA StatusStepKeeps ==
    ASSUME InboxInv, NEW w \in Workers, Hold(w) \/ MarkPosting(w) \/ Except(w), UNCHANGED beside
    PROVE  InboxInv'
<1>1. Working(w) /\ UNCHANGED <<journalVars, account, invoices>>
  BY DEF Hold, MarkPosting, Except, At, Working
<1>2. JournalStep /\ UNCHANGED journal
  BY <1>1, UnchangedJournal DEF InboxInv, TablesInv, journalVars
<1>3. EventsInv'
  BY <1>1, <1>2, SetStatusKeeps DEF Hold, MarkPosting, Except, EventStatus
<1>4. \E local \in WorkerType : Become(w, local) /\ Works(w)'
  <2>1. CASE Hold(w) \/ Except(w)
    BY <1>1, <2>1, AnswerWorks DEF Hold, Except
  <2>2. CASE MarkPosting(w)
    <3>1. worker[w].account # None
      BY <2>2 DEF MarkPosting, At, InboxInv, Works
    <3>2. Goto(w, "look") \/ Goto(w, "draft")
      BY <2>2 DEF MarkPosting
    <3>. QED
      BY <1>1, <3>1, <3>2, GotoWorks
  <2>. QED
    BY <2>1, <2>2
<1>. QED
  BY <1>1, <1>3, <1>4, EventStep

\* A worker that has found or made the entry of its event is to post it.
LEMMA PostNext ==
    ASSUME InboxInv, NEW w \in Workers, Working(w), worker[w].account # None,
           NEW x \in Entries, Become(w, [worker[w] EXCEPT !.pc = "post", !.entry = x]),
           journal'[x].status # "absent",
           journal'[x].status = "draft" => journal'[x].source = Event(w)
    PROVE  \E local \in WorkerType : Become(w, local) /\ Works(w)'
<1>. DEFINE local == [worker[w] EXCEPT !.pc = "post", !.entry = x]
<1>1. worker[w] \in WorkerType
  BY DEF InboxInv
<1>2. /\ local \in WorkerType /\ local.pc = "post" /\ local.entry = x
      /\ local.event = worker[w].event /\ local.account = worker[w].account
  BY <1>1 DEF WorkerType, PC
<1>3. Become(w, local)
  OBVIOUS
<1>. HIDE DEF local
<1>4. worker'[w] = local
  BY <1>3 DEF Become, InboxInv
<1>5. Works(w)'
  BY <1>2, <1>4 DEF InboxInv, Works, Working, Event
<1>. QED
  BY <1>2, <1>3, <1>5

LEMMA FindEntryKeeps ==
    ASSUME InboxInv, NEW w \in Workers, FindEntry(w), UNCHANGED beside
    PROVE  InboxInv'
<1>1. Working(w) /\ worker[w].account # None /\ UNCHANGED journal
  BY DEF FindEntry, At, Working, InboxInv, Works, journalVars
<1>2. CASE Goto(w, "draft")
  BY <1>1, <1>2, GotoWorks, ReadingKeeps DEF FindEntry
<1>3. ASSUME NEW x \in EntriesOf(Event(w)),
             Become(w, [worker[w] EXCEPT !.pc = "post", !.entry = x])
      PROVE  InboxInv'
  <2>1. x \in Entries /\ journal[x].status # "absent" /\ journal[x].source = Event(w)
    BY DEF EntriesOf, Stored
  <2>. QED
    BY <1>1, <1>3, <2>1, PostNext, ReadingKeeps DEF FindEntry
<1>. QED
  BY <1>2, <1>3 DEF FindEntry

LEMMA CreateDraftKeeps ==
    ASSUME InboxInv, InboxAssumption, NEW w \in Workers, CreateDraft(w), UNCHANGED beside
    PROVE  InboxInv'
<1>1. Working(w) /\ Event(w) \in Events /\ worker[w].account # None
  BY DEF CreateDraft, At, Working, InboxInv, Works
<1>2. UNCHANGED <<events, invoices>>
  BY DEF CreateDraft
<1>3. CASE Fail(w) /\ UNCHANGED <<journalVars, account>>
  BY <1>1, <1>2, <1>3, FailWorks, ReadingKeeps DEF tables
<1>4. CASE IdsLeft /\ SourceFree(Event(w))
  <2>. DEFINE x == FreshId
              date == DateOf[Event(w)]
  <2>1. /\ Draft(x, date, Event(w))
        /\ account' = [account EXCEPT ![x] = worker[w].account]
        /\ Become(w, [worker[w] EXCEPT !.pc = "post", !.entry = x])
    BY <1>4 DEF CreateDraft
  <2>2. x \in Entries
    BY <1>4, FreshIdIsFree
  <2>3. date \in Dates /\ Event(w) \in Sources \cup {None}
    BY <1>1 DEF InboxAssumption
  <2>4. /\ JournalInv' /\ JournalStep
        /\ journal'[x] = [status |-> "draft", date |-> date, source |-> Event(w)]
    BY <2>1, <2>2, <2>3, DraftKeeps DEF InboxInv, TablesInv
  <2>. HIDE DEF x, date
  <2>5. UNCHANGED keys /\ \A y \in Entries : y # x => journal'[y] = journal[y]
    BY <2>1 DEF Draft, PutEntry, InboxInv, TablesInv, JournalInv
  <2>6. AccountsInv'
    <3>1. worker[w].account \in Accounts \cup {Service, None}
      BY DEF InboxInv, WorkerType
    <3>2. account' \in [Entries -> Accounts \cup {Service, None}]
      BY <2>1, <3>1 DEF InboxInv, TablesInv, AccountsInv
    <3>3. ASSUME NEW y \in Entries, journal'[y].status # "absent"
          PROVE  account'[y] # None
      <4>1. account \in [Entries -> Accounts \cup {Service, None}]
        BY DEF InboxInv, TablesInv, AccountsInv
      <4>2. CASE y = x
        BY <1>1, <2>1, <2>2, <4>1, <4>2
      <4>3. CASE y # x
        <5>1. account'[y] = account[y]
          BY <2>1, <2>2, <4>1, <4>3
        <5>2. journal[y].status # "absent"
          BY <2>5, <3>3, <4>3
        <5>. QED
          BY <5>1, <5>2 DEF InboxInv, TablesInv, AccountsInv
      <4>. QED
        BY <4>2, <4>3
    <3>. QED
      BY <3>2, <3>3 DEF AccountsInv
  <2>7. TablesInv'
    BY <1>2, <2>4, <2>5, <2>6, EventKeysStay, EventsStay, InvoicesStay DEF InboxInv, TablesInv
  <2>8. \E local \in WorkerType : Become(w, local) /\ Works(w)'
    <3>1. journal'[x].status # "absent" /\ journal'[x].source = Event(w)
      BY <2>4
    <3>2. Become(w, [worker[w] EXCEPT !.pc = "post", !.entry = x])
      BY <2>1
    <3>. QED
      BY <1>1, <2>2, <3>1, <3>2, PostNext
  <2>. QED
    BY <2>4, <2>7, <2>8, BesideStays, WorkerMoves
<1>. QED
  BY <1>3, <1>4 DEF CreateDraft

LEMMA PostEntryKeeps ==
    ASSUME InboxInv, InboxAssumption, NEW w \in Workers, PostEntry(w), UNCHANGED beside
    PROVE  InboxInv'
<1>. DEFINE x == worker[w].entry
            e == Event(w)
            h == HashOf(w)
<1>1. /\ Working(w) /\ e \in Events /\ x \in Entries
      /\ journal[x].status = "draft" => journal[x].source = e
      /\ worker[w].account # None
  BY DEF PostEntry, At, Working, InboxInv, Works
<1>2. h \in Hashes
  BY <1>1 DEF HashOf, InboxInv, WorkerType, InboxAssumption
<1>3. CASE Replayed(x, e, h) /\ Goto(w, "posted") /\ UNCHANGED journalVars
  <2>1. Booked(x, e) /\ UNCHANGED <<journal, tables>>
    BY <1>1, <1>2, <1>3 DEF Replayed, InboxInv, TablesInv, EventKeysInv, PostEntry, journalVars
  <2>2. Event(w)' = e
    BY <1>3, GotoKeeps DEF Event, PC
  <2>3. worker'[w].entry = x
    BY <1>3, GotoKeeps DEF PC
  <2>4. Booked(worker[w].entry, Event(w))'
    BY <2>1, <2>2, <2>3 DEF Booked, Posted
  <2>. QED
    BY <1>1, <1>3, <2>1, <2>4, GotoWorks, ReadingKeeps
<1>4. CASE PostingRefused(w)
  BY <1>1, <1>4, FailWorks, ReadingKeeps DEF PostingRefused, PostEntry
<1>5. CASE journal[x].status = "draft" /\ Post(x, e, h) /\ Goto(w, "posted")
  <2>1. /\ JournalInv' /\ JournalStep
        /\ journal'[x].status = "posted" /\ journal'[x].source = e
    BY <1>1, <1>5, PostKeeps DEF InboxInv, TablesInv
  <2>2. /\ keys' = [keys EXCEPT ![e] = [entry |-> x, hash |-> h]]
        /\ \A y \in Entries : journal'[y].status # "absent" => journal[y].status # "absent"
    BY <1>1, <1>5 DEF Post, PutEntry, InboxInv, TablesInv, JournalInv
  <2>3. EventKeysInv'
    <3>1. keys' \in [Keys -> Receipts]
      BY <1>1, <1>2, <2>2 DEF InboxInv, TablesInv, EventKeysInv, Receipts
    <3>2. ASSUME NEW f \in Events, NEW y \in Entries, NEW g \in Hashes,
                 keys'[f] = [entry |-> y, hash |-> g]
          PROVE  Booked(y, f)'
      <4>1. CASE f = e
        <5>1. e \in Keys
          BY <1>1 DEF InboxAssumption
        <5>2. keys'[e] = [entry |-> x, hash |-> h]
          BY <2>2, <5>1 DEF InboxInv, TablesInv, EventKeysInv
        <5>3. y = x
          BY <3>2, <4>1, <5>2
        <5>. QED
          BY <2>1, <4>1, <5>3 DEF Booked, Posted
      <4>2. CASE f # e
        <5>1. keys'[f] = keys[f]
          BY <2>2, <4>2 DEF InboxInv, TablesInv, EventKeysInv, InboxAssumption
        <5>. QED
          BY <2>1, <3>2, <5>1, BookedStays DEF InboxInv, TablesInv, EventKeysInv
      <4>. QED
        BY <4>1, <4>2
    <3>. QED
      BY <3>1, <3>2 DEF EventKeysInv
  <2>4. AccountsInv'
    BY <2>2 DEF PostEntry, tables, InboxInv, TablesInv, AccountsInv
  <2>5. TablesInv'
    BY <2>1, <2>3, <2>4, EventsStay, InvoicesStay DEF PostEntry, tables, InboxInv, TablesInv
  <2>6. Event(w)' = e /\ worker'[w].entry = x
    BY <1>5, GotoKeeps DEF Event, PC
  <2>7. Booked(worker[w].entry, Event(w))'
    BY <2>1, <2>6 DEF Booked, Posted
  <2>. QED
    BY <1>1, <1>5, <2>1, <2>5, <2>7, GotoWorks, BesideStays, WorkerMoves
<1>. QED
  BY <1>3, <1>4, <1>5 DEF PostEntry, KeyOf

LEMMA MarkPostedKeeps ==
    ASSUME InboxInv, NEW w \in Workers, MarkPosted(w), UNCHANGED beside
    PROVE  InboxInv'
<1>. DEFINE e == Event(w)
            row == [events[e] EXCEPT !.status = "posted", !.entry = worker[w].entry]
<1>1. /\ Working(w) /\ e \in Events
      /\ worker[w].entry \in Entries /\ journal[worker[w].entry].status # "absent"
      /\ Booked(worker[w].entry, e)
  BY DEF MarkPosted, At, Working, InboxInv, Works
<1>2. events[e] \in EventType
  BY <1>1 DEF InboxInv, TablesInv, EventsInv
<1>3. row \in EventType /\ row.status = "posted" /\ row.entry = worker[w].entry
  BY <1>1, <1>2 DEF EventType, EventStatus
<1>4. events' = [events EXCEPT ![e] = row]
  BY <1>1, <1>2 DEF MarkPosted, InboxInv, TablesInv, EventsInv, EventType
<1>. HIDE DEF row
<1>5. JournalStep /\ UNCHANGED journal
  BY UnchangedJournal DEF MarkPosted, InboxInv, TablesInv, journalVars
<1>6. EventsInv'
  BY <1>1, <1>3, <1>4, <1>5, EventMoves
<1>7. \E local \in WorkerType : Become(w, local) /\ Works(w)'
  BY <1>1, GotoWorks DEF MarkPosted
<1>. QED
  BY <1>6, <1>7, EventStep DEF MarkPosted

LEMMA LogKeeps ==
    ASSUME InboxInv, NEW w \in Workers, Log(w), UNCHANGED beside
    PROVE  InboxInv'
BY AnswerWorks, ReadingKeeps DEF Log, At, Working

LEMMA ReadResultKeeps ==
    ASSUME InboxInv, NEW w \in Workers, ReadResult(w), UNCHANGED beside
    PROVE  InboxInv'
<1>1. Working(w) /\ Event(w) \in Invoices /\ Event(w) \in Events
  BY DEF ReadResult, At, Working, InboxInv, Works
<1>2. CASE Goto(w, "store_unposted")
  BY <1>1, <1>2, GotoWorks, ReadingKeeps DEF ReadResult
<1>3. CASE events[Event(w)].status = "posted" /\ Goto(w, "store_posted")
  <2>1. PICK x \in Entries : Booked(x, Event(w))
    BY <1>1, <1>3 DEF InboxInv, TablesInv, EventsInv, EventKept
  <2>2. Event(w)' = Event(w)
    BY <1>3, GotoKeeps DEF Event, PC
  <2>3. Booked(x, Event(w))'
    BY <2>1, <2>2 DEF ReadResult, journalVars, Booked, Posted
  <2>. QED
    BY <1>1, <1>3, <2>3, GotoWorks, ReadingKeeps DEF ReadResult
<1>. QED
  BY <1>2, <1>3 DEF ReadResult, Row

LEMMA StoreResultKeeps ==
    ASSUME InboxInv, NEW w \in Workers, StoreResult(w), UNCHANGED beside
    PROVE  InboxInv'
<1>1. UNCHANGED <<journal, keys, account, events>> /\ Return(w)
  BY DEF StoreResult, journalVars
<1>2. JournalInv' /\ JournalStep
  BY <1>1, UnchangedJournal DEF InboxInv, TablesInv
<1>3. InvoicesInv'
  <2>1. Event(w) \in Invoices
    BY DEF StoreResult, InboxInv, Works
  <2>2. /\ invoices' = [invoices EXCEPT ![Event(w)] = Result(w)]
        /\ Result(w) \in {"posted", "unposted"}
        /\ Result(w) = "posted" => \E x \in Entries : Booked(x, Event(w))
    BY DEF StoreResult, Result, At, InboxInv, Works
  <2>3. invoices' \in [Invoices -> {"pending", "posted", "unposted"}]
    BY <2>2 DEF InboxInv, TablesInv, InvoicesInv
  <2>4. ASSUME NEW e \in Invoices, invoices'[e] = "posted"
        PROVE  (\E x \in Entries : Booked(x, e))'
    <3>1. \E x \in Entries : Booked(x, e)
      BY <2>1, <2>2, <2>4 DEF InboxInv, TablesInv, InvoicesInv
    <3>. QED
      BY <1>2, <3>1, BookedStays
  <2>. QED
    BY <2>3, <2>4 DEF InvoicesInv
<1>4. AccountsInv'
  BY <1>1 DEF InboxInv, TablesInv, AccountsInv
<1>5. TablesInv'
  BY <1>1, <1>2, <1>3, <1>4, EventKeysStay, EventsStay DEF InboxInv, TablesInv
<1>. QED
  BY <1>1, <1>2, <1>5, ReturnWorks, BesideStays, WorkerMoves

-----------------------------------------------------------------------------

\* What staff do to an entry changes no key of an event, and leaves it an account.
StaffSteps ==
    /\ JournalInv' /\ JournalStep /\ AccountsInv'
    /\ keys' \in [Keys -> Receipts] /\ \A e \in Events : keys'[e] = keys[e]

LEMMA StaffHandleSteps ==
    ASSUME InboxInv, InboxAssumption, NEW x \in Entries, StaffHandle(x)
    PROVE  StaffSteps
<1>1. StaffHash \in Hashes
  BY DEF StaffHash, InboxAssumption
<1>2. StaffKeys \in SUBSET Keys /\ Events \subseteq Keys \ StaffKeys
  BY DEF StaffKeys, InboxAssumption
<1>3. keys \in [Keys -> Receipts] /\ JournalInv
  BY DEF InboxInv, TablesInv, EventKeysInv
<1>4. Handle(x, StaffKeys, StaffHash) /\ UNCHANGED account
  BY DEF StaffHandle
<1>5. JournalInv' /\ JournalStep
  BY <1>3, <1>4, HandleKeeps
<1>6. \A y \in Entries : journal'[y].status # "absent" => journal[y].status # "absent"
  BY <1>3, <1>4, HandleMakesNone
<1>7. keys' \in [Keys -> Receipts] /\ \A e \in Events : keys'[e] = keys[e]
  BY <1>1, <1>2, <1>3, <1>4, HandleKeys
<1>8. AccountsInv'
  BY <1>4, <1>6 DEF InboxInv, TablesInv, AccountsInv
<1>. QED
  BY <1>5, <1>7, <1>8 DEF StaffSteps

LEMMA StaffEditSteps ==
    ASSUME InboxInv, InboxAssumption, NEW x \in Entries, StaffEdit(x)
    PROVE  StaffSteps
<1>1. PICK date \in Dates, to \in Accounts \cup {Service} :
          Edit(x, date) /\ account' = [account EXCEPT ![x] = to]
  BY DEF StaffEdit
<1>2. JournalInv' /\ JournalStep
  BY <1>1, EditKeeps DEF InboxInv, TablesInv
<1>3. UNCHANGED keys
  BY <1>1 DEF Edit
<1>4. \A y \in Entries : y # x => journal'[y] = journal[y]
  BY <1>1 DEF Edit, PutEntry, InboxInv, TablesInv, JournalInv
<1>5. AccountsInv'
  BY <1>1, <1>4 DEF InboxInv, TablesInv, AccountsInv, InboxAssumption
<1>. QED
  BY <1>2, <1>3, <1>5 DEF StaffSteps, InboxInv, TablesInv, EventKeysInv

LEMMA StaffReversalSteps ==
    ASSUME InboxInv, InboxAssumption, NEW x \in Entries, StaffDraftReversal(x)
    PROVE  StaffSteps
<1>1. PICK o \in Entries, date \in Dates :
          Mirror(o, x, date) /\ account' = [account EXCEPT ![x] = account[o]]
  BY DEF StaffDraftReversal
<1>2. JournalInv' /\ JournalStep
  BY <1>1, MirrorKeeps DEF InboxInv, TablesInv, InboxAssumption
<1>3. UNCHANGED keys /\ journal[o].status = "posted"
  BY <1>1 DEF Mirror, Draft
<1>4. \A y \in Entries : y # x => journal'[y] = journal[y]
  BY <1>1 DEF Mirror, Draft, PutEntry, InboxInv, TablesInv, JournalInv
<1>5. account[o] \in Accounts \cup {Service, None} /\ account[o] # None
  BY <1>3 DEF InboxInv, TablesInv, AccountsInv
<1>6. AccountsInv'
  BY <1>1, <1>4, <1>5 DEF InboxInv, TablesInv, AccountsInv
<1>. QED
  BY <1>2, <1>3, <1>6 DEF StaffSteps, InboxInv, TablesInv, EventKeysInv

LEMMA StaffKeeps ==
    ASSUME InboxInv, InboxAssumption, Staff
    PROVE  InboxInv'
<1>1. StaffSteps
  <2>1. CASE Reschedule /\ UNCHANGED account
    <3>1. UNCHANGED <<journal, keys>>
      BY <2>1 DEF Reschedule, journalVars
    <3>2. AccountsInv'
      BY <2>1, <3>1 DEF InboxInv, TablesInv, AccountsInv
    <3>. QED
      BY <3>1, <3>2, UnchangedJournal DEF StaffSteps, InboxInv, TablesInv, EventKeysInv
  <2>. QED
    BY <2>1, StaffHandleSteps, StaffEditSteps, StaffReversalSteps DEF Staff
<1>2. UNCHANGED <<sent, events, invoices, worker, settings, crashes>>
  BY DEF Staff
<1>3. EventKeysInv'
  BY <1>1, BookedStays DEF StaffSteps, InboxInv, TablesInv, EventKeysInv
<1>4. TablesInv'
  BY <1>1, <1>2, <1>3, EventsStay, InvoicesStay DEF StaffSteps, InboxInv, TablesInv
<1>5. \A w \in Workers : Works(w)'
  BY <1>1, <1>2, OthersWork DEF StaffSteps
<1>6. changes' \in 0..MaxChanges
  BY DEF Staff, InboxInv, BesideInv, InboxAssumption
<1>. QED
  BY <1>2, <1>4, <1>5, <1>6 DEF InboxInv, BesideInv

LEMMA InboxInductive ==
    ASSUME InboxInv, InboxAssumption, [InboxNext]_vars
    PROVE  InboxInv'
<1>1. ASSUME NEW w \in Workers, Deliver(w)
      PROVE  InboxInv'
  BY <1>1, DeliverKeeps
<1>2. ASSUME NEW w \in Workers, Continue(w)
      PROVE  InboxInv'
  BY <1>2, FindOriginalKeeps, FindKeeps, IngestKeeps, ReadEventKeeps, ResolveKeeps,
     StatusStepKeeps, FindEntryKeeps, CreateDraftKeeps, PostEntryKeeps, MarkPostedKeeps,
     LogKeeps, ReadResultKeeps, StoreResultKeeps DEF Continue
<1>3. ASSUME NEW w \in Workers, NEW e \in Events, Synchronize(w, e)
      PROVE  InboxInv'
  BY <1>3, StartKeeps DEF Synchronize, SynchronizeInvoice
<1>4. ASSUME NEW w \in Workers, Evict(w) \/ Fault(w)
      PROVE  InboxInv'
  <2>1. TablesInv' /\ JournalStep
    BY <1>4, TablesStay DEF Evict, Fault, InboxInv, journalVars, tables
  <2>2. BesideInv'
    BY <1>4 DEF Evict, Fault, InboxInv, BesideInv, InboxAssumption
  <2>3. CASE Evict(w)
    BY <2>1, <2>2, <2>3, ReturnWorks, WorkerMoves DEF Evict
  <2>4. CASE Fault(w)
    BY <2>1, <2>2, <2>4, FailWorks, WorkerMoves DEF Fault, Working
  <2>. QED
    BY <1>4, <2>3, <2>4
<1>5. CASE ChangeSettings \/ UNCHANGED vars
  <2>1. TablesInv' /\ JournalStep /\ UNCHANGED worker
    BY <1>5, TablesStay DEF ChangeSettings, InboxInv, vars, journalVars, tables
  <2>2. BesideInv'
    BY <1>5 DEF ChangeSettings, vars, beside, InboxInv, BesideInv, InboxAssumption
  <2>3. \A w \in Workers : Works(w)'
    BY <2>1, OthersWork
  <2>. QED
    BY <2>1, <2>2, <2>3 DEF InboxInv
<1>6. CASE Staff
  BY <1>6, StaffKeeps
<1>. QED
  BY <1>1, <1>2, <1>3, <1>4, <1>5, <1>6 DEF InboxNext

\* The inductive invariant.
THEOREM InboxInvariant == InboxSpec => []InboxInv
<1>1. ASSUME InboxInit, InboxAssumption
      PROVE  InboxInv
  <2>1. JournalInv /\ \A x \in Entries : journal[x].status = "absent"
    BY <1>1, EmptyJournal DEF InboxInit, Init, NoEntry
  <2>2. EventKeysInv
    BY <1>1 DEF InboxInit, Init, EventKeysInv, Receipts, InboxAssumption
  <2>3. AccountsInv /\ InvoicesInv
    BY <1>1, <2>1 DEF InboxInit, AccountsInv, InvoicesInv
  <2>4. EventsInv
    BY <1>1 DEF InboxInit, EventsInv, EventKept, NoEvent, EventType, EventStatus
  <2>5. BesideInv
    <3>1. settings \in Settings
      BY <1>1, Zenon DEF InboxInit, Settings, InboxAssumption
    <3>2. sent \in Sent /\ changes = 0 /\ crashes = 0
      BY <1>1 DEF InboxInit
    <3>. QED
      BY <1>1, <3>1, <3>2 DEF BesideInv, InboxAssumption
  <2>6. worker \in [Workers -> WorkerType] /\ \A w \in Workers : Works(w)
    BY <1>1, IdleIsTyped DEF InboxInit, Works, Working
  <2>. QED
    BY <2>1, <2>2, <2>3, <2>4, <2>5, <2>6 DEF InboxInv, TablesInv
<1>2. InboxInv /\ [InboxNext]_vars => InboxInv'
  BY InboxInductive, InboxAssumption
<1>. QED
  BY <1>1, <1>2, InboxAssumption, PTL DEF InboxSpec

\* Every column and local variable keeps its type and is set when it is used.
THEOREM TypeCorrect == InboxSpec => []TypeOK
<1>1. ASSUME InboxInv, InboxAssumption
      PROVE  TypeOK
  BY <1>1 DEF InboxInv, TablesInv, BesideInv, EventsInv, AccountsInv, InvoicesInv, Works,
              TypeOK, InboxAssumption
<1>. QED
  BY <1>1, InboxAssumption, InboxInvariant, PTL

\* An event is in the books at most once, and one that says posted names its entry,
\* for any number of concurrent and repeated deliveries.
THEOREM BookedOnceAlways == InboxSpec => []BookedOnce
<1>1. ASSUME InboxInv, InboxAssumption, NEW e \in Events
      PROVE  /\ Cardinality(InBooks(e)) <= 1
             /\ events[e].status = "posted" => InBooks(e) = {events[e].entry}
  <2>1. e # None
    BY <1>1 DEF InboxAssumption
  <2>2. \A x, y \in InBooks(e) : x = y
    BY <1>1, <2>1
    DEF InBooks, EntriesOf, InboxInv, TablesInv, JournalInv, OneEntryPerSource
  <2>3. CASE InBooks(e) = {}
    <3>1. Cardinality(InBooks(e)) = 0
      BY <2>3, FS_EmptySet
    <3>2. events[e].status # "posted"
      BY <1>1, <2>3
      DEF InBooks, EntriesOf, InboxInv, TablesInv, EventsInv, EventKept, Booked, Posted, Stored
    <3>. QED
      BY <3>1, <3>2
  <2>4. ASSUME NEW x \in InBooks(e)
        PROVE  /\ Cardinality(InBooks(e)) <= 1
               /\ events[e].status = "posted" => InBooks(e) = {events[e].entry}
    <3>1. InBooks(e) = {x}
      BY <2>2
    <3>2. Cardinality(InBooks(e)) <= 1
      BY <3>1, FS_Singleton
    <3>3. events[e].status = "posted" => events[e].entry \in InBooks(e)
      BY <1>1
      DEF InBooks, EntriesOf, InboxInv, TablesInv, EventsInv, EventKept, Booked, Posted, Stored
    <3>. QED
      BY <3>1, <3>2, <3>3
  <2>. QED
    BY <2>3, <2>4
<1>2. InboxInv /\ InboxAssumption => BookedOnce
  BY <1>1 DEF BookedOnce
<1>. QED
  BY <1>2, InboxAssumption, InboxInvariant, PTL

\* The control plane calls an invoice posted only when the books have it.
THEOREM InvoiceIsBookedAlways == InboxSpec => []InvoiceIsBooked
<1>1. InboxInv => InvoiceIsBooked
  BY DEF InboxInv, TablesInv, InvoicesInv, InvoiceIsBooked, InBooks, EntriesOf, Booked,
         Posted, Stored
<1>. QED
  BY <1>1, InboxInvariant, PTL

-----------------------------------------------------------------------------
(* To the journal, a worker is a caller of its operations.                 *)

LEMMA NextIsABooksStep ==
    ASSUME InboxInv, InboxAssumption, [InboxNext]_vars
    PROVE  [Next]_<<journalVars, accepting>>
<1>1. ASSUME NEW w \in Workers, CreateDraft(w), UNCHANGED accepting
      PROVE  [Next]_<<journalVars, accepting>>
  <2>1. Event(w) \in Events
    BY <1>1 DEF CreateDraft, At, InboxInv, Works, Working
  <2>2. DateOf[Event(w)] \in Dates /\ Event(w) \in Sources \cup {None}
    BY <2>1 DEF InboxAssumption
  <2>3. CASE IdsLeft /\ Draft(FreshId, DateOf[Event(w)], Event(w))
    BY <1>1, <2>2, <2>3, FreshIdIsFree, DraftIsAStep
  <2>. QED
    BY <1>1, <2>3 DEF CreateDraft
<1>2. ASSUME NEW w \in Workers, PostEntry(w), UNCHANGED accepting
      PROVE  [Next]_<<journalVars, accepting>>
  <2>1. /\ Event(w) \in Events /\ worker[w].entry \in Entries
        /\ worker[w].account \in Accounts \cup {Service}
    BY <1>2 DEF PostEntry, At, InboxInv, Works, Working, WorkerType
  <2>2. KeyOf(w) \in Keys /\ HashOf(w) \in Hashes
    BY <2>1 DEF KeyOf, HashOf, InboxAssumption
  <2>3. CASE Post(worker[w].entry, KeyOf(w), HashOf(w))
    BY <1>2, <2>1, <2>2, <2>3, PostIsAStep
  <2>. QED
    BY <1>2, <2>3 DEF PostEntry, PostingRefused
<1>3. ASSUME NEW w \in Workers, Continue(w)
      PROVE  [Next]_<<journalVars, accepting>>
  BY <1>1, <1>2, <1>3 DEF Continue, beside, FindOriginal, FindRefund, FindEvent, Log, Ingest, ReadEvent, Resolve,
                          Hold, MarkPosting, FindEntry, MarkPosted, Except, ReadResult,
                          StoreResult
<1>4. ASSUME NEW w \in Workers,
             Deliver(w) \/ Evict(w) \/ Fault(w) \/ \E e \in Events : Synchronize(w, e)
      PROVE  UNCHANGED <<journalVars, accepting>>
  BY <1>4 DEF Deliver, DeliverGift, DeliverRefund, ReviewInvoice, Synchronize,
              SynchronizeInvoice, Start, Evict, Fault, beside
<1>5. CASE Staff
  <2>1. StaffKeys \in SUBSET Keys /\ StaffHash \in Hashes
    BY DEF StaffKeys, StaffHash, InboxAssumption
  <2>2. ASSUME NEW x \in Entries, UNCHANGED accepting, StaffEdit(x)
        PROVE  Next
    BY <2>2, StaffIsAStep DEF StaffEdit
  <2>3. ASSUME NEW x \in Entries, UNCHANGED accepting, StaffDraftReversal(x)
        PROVE  Next
    BY <2>3, MirrorIsAStep DEF StaffDraftReversal, InboxAssumption
  <2>4. ASSUME NEW x \in Entries, UNCHANGED accepting, StaffHandle(x)
        PROVE  Next
    BY <2>1, <2>4, HandleIsAStep DEF StaffHandle
  <2>. QED
    BY <1>5, <2>2, <2>3, <2>4 DEF Staff, Next
<1>6. CASE ChangeSettings \/ UNCHANGED vars
  BY <1>6 DEF ChangeSettings, vars, beside
<1>. QED
  BY <1>3, <1>4, <1>5, <1>6 DEF InboxNext

\* The inbox implements the journal: what workers, evictions and staff do to entries
\* are steps that Books allows.
THEOREM InboxImplementsBooks == InboxSpec => Spec
<1>1. InboxInit => Init
  BY DEF InboxInit
<1>2. InboxInv /\ [InboxNext]_vars => [Next]_<<journalVars, accepting>>
  BY InboxAssumption, NextIsABooksStep
<1>. QED
  BY <1>1, <1>2, InboxInvariant, PTL DEF InboxSpec, Spec

=============================================================================
