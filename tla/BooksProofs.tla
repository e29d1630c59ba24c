----------------------------- MODULE BooksProofs -----------------------------
(***************************************************************************)
(* What every operation of the journal keeps, for the services that are    *)
(* proved over it: a source has one stored entry, what is posted stays, a  *)
(* draft that is still one is as it was created, and what has been         *)
(* reversed stays reversed.                                                *)
(***************************************************************************)
EXTENDS Books, TLAPS

EntryStatus == {"absent", "draft", "edited", "posted", "reversed", "voided", "deleted"}
EntryRow == [status : EntryStatus, date : Dates \cup {None}, source : Sources \cup {None}]

OneEntryPerSource ==
    \A e, f \in Entries :
        Stored(e) /\ Stored(f) /\ journal[e].source # None /\ journal[e].source = journal[f].source
            => e = f

JournalInv == journal \in [Entries -> EntryRow] /\ OneEntryPerSource

\* What is posted stays as it is or is reversed, and a draft that is still one was not
\* changed.
JournalStep ==
    \A e \in Entries :
        /\ Posted(e) =>
              /\ journal'[e].status \in {journal[e].status, "reversed"}
              /\ journal'[e].date = journal[e].date /\ journal'[e].source = journal[e].source
        /\ journal[e].status # "absent" =>
              /\ journal'[e].status # "absent"
              /\ journal'[e].status = "draft" => journal'[e] = journal[e]

StillReversed ==
    \A e \in Entries : journal[e].status = "reversed" => journal'[e].status = "reversed"

-----------------------------------------------------------------------------

\* The identifier a new entry gets is one that was never used.
LEMMA FreshIdIsFree ==
    ASSUME IdsLeft
    PROVE  FreshId \in Entries /\ journal[FreshId].status = "absent"
BY DEF IdsLeft, FreshId

\* A new draft is the only entry of its source.
LEMMA DraftKeeps ==
    ASSUME JournalInv, NEW e \in Entries, NEW date \in Dates \cup {None},
           NEW source \in Sources \cup {None}, Draft(e, date, source)
    PROVE  /\ JournalInv' /\ JournalStep
           /\ journal'[e] = [status |-> "draft", date |-> date, source |-> source]
<1>1. /\ journal'[e] = [status |-> "draft", date |-> date, source |-> source]
      /\ \A f \in Entries : f # e => journal'[f] = journal[f]
      /\ journal' \in [Entries -> EntryRow]
  BY DEF JournalInv, EntryRow, EntryStatus, Draft, PutEntry
<1>2. JournalStep
  BY <1>1 DEF JournalStep, Draft, Posted
<1>3. \A f \in Entries : f # e /\ Stored(f) /\ journal[f].source = source => source = None
  BY DEF Draft, SourceFree, EntriesOf
<1>4. OneEntryPerSource'
  BY <1>1, <1>3 DEF JournalInv, OneEntryPerSource, Stored
<1>. QED
  BY <1>1, <1>2, <1>4 DEF JournalInv

\* Deleting takes a draft only.
LEMMA RemoveKeeps ==
    ASSUME JournalInv, NEW e \in Entries, Remove(e)
    PROVE  JournalInv' /\ JournalStep
<1>1. /\ journal'[e] = Removed /\ journal[e].status \in {"draft", "edited"}
      /\ \A f \in Entries : f # e => journal'[f] = journal[f]
      /\ journal' \in [Entries -> EntryRow]
  BY DEF JournalInv, EntryRow, EntryStatus, Remove, Removed, Pending, PutEntry
<1>2. JournalStep
  BY <1>1 DEF JournalStep, Posted, Removed
<1>3. OneEntryPerSource'
  BY <1>1 DEF JournalInv, OneEntryPerSource, Stored, Removed
<1>. QED
  BY <1>1, <1>2, <1>3 DEF JournalInv

\* Voiding and posting change the status of a draft only.
LEMMA StatusKeeps ==
    ASSUME JournalInv, NEW e \in Entries, Pending(e), NEW status \in {"voided", "posted"},
           journal' = [journal EXCEPT ![e] = [journal[e] EXCEPT !.status = status]]
    PROVE  /\ JournalInv' /\ JournalStep
           /\ journal'[e].status = status
           /\ journal'[e].date = journal[e].date /\ journal'[e].source = journal[e].source
<1>1. /\ journal'[e].status = status
      /\ journal'[e].date = journal[e].date /\ journal'[e].source = journal[e].source
      /\ \A f \in Entries : f # e => journal'[f] = journal[f]
      /\ journal' \in [Entries -> EntryRow]
  BY DEF JournalInv, EntryRow, EntryStatus
<1>2. JournalStep
  BY <1>1 DEF JournalStep, Posted, Pending
<1>3. OneEntryPerSource'
  BY <1>1 DEF JournalInv, OneEntryPerSource, Stored, Pending
<1>. QED
  BY <1>1, <1>2, <1>3 DEF JournalInv

\* Neither disturbs another entry.
LEMMA VoidKeeps ==
    ASSUME JournalInv, NEW e \in Entries, Void(e)
    PROVE  JournalInv' /\ JournalStep
BY StatusKeeps DEF Void, PutEntry

LEMMA PostKeeps ==
    ASSUME JournalInv, NEW e \in Entries, NEW k, NEW h, Post(e, k, h)
    PROVE  /\ JournalInv' /\ JournalStep
           /\ journal'[e].status = "posted"
           /\ journal'[e].date = journal[e].date /\ journal'[e].source = journal[e].source
BY StatusKeeps DEF Post, Postable, PutEntry

\* A step that leaves the journal alone.
LEMMA UnchangedJournal ==
    ASSUME JournalInv, UNCHANGED journal
    PROVE  JournalInv' /\ JournalStep
BY DEF JournalInv, OneEntryPerSource, Stored, JournalStep

\* An edited draft is not what it was created as any more.
LEMMA EditKeeps ==
    ASSUME JournalInv, NEW e \in Entries, NEW date \in Dates, Edit(e, date)
    PROVE  JournalInv' /\ JournalStep
<1>1. /\ journal'[e] = [status |-> "edited", date |-> date, source |-> journal[e].source]
      /\ journal[e].status \in {"draft", "edited"}
      /\ \A f \in Entries : f # e => journal'[f] = journal[f]
      /\ journal' \in [Entries -> EntryRow]
  BY DEF JournalInv, EntryRow, EntryStatus, Edit, Pending, PutEntry
<1>2. JournalStep
  BY <1>1 DEF JournalStep, Posted
<1>3. OneEntryPerSource'
  BY <1>1 DEF JournalInv, OneEntryPerSource, Stored
<1>. QED
  BY <1>1, <1>2, <1>3 DEF JournalInv

\* The reversed entry leaves the books together with the posting of its reversal.
LEMMA ReverseKeeps ==
    ASSUME JournalInv, NEW o \in Entries, NEW e \in Entries, NEW k, NEW h, Reverse(o, e, k, h)
    PROVE  /\ JournalInv' /\ JournalStep
           /\ journal'[o].status = "reversed" /\ journal'[e].status = "posted"
<1>1. o # e /\ Pending(e)
  BY DEF Reverse, Reversible, Postable
<1>2. /\ journal' \in [Entries -> EntryRow]
      /\ journal'[o].status = "reversed" /\ journal'[e].status = "posted"
      /\ \A f \in Entries : journal'[f].source = journal[f].source
      /\ \A f \in Entries : f \notin {o, e} => journal'[f] = journal[f]
  BY <1>1 DEF JournalInv, EntryRow, EntryStatus, Reverse
<1>3. \A f \in Entries : Stored(f)' <=> Stored(f)
  BY <1>1, <1>2 DEF Stored, Pending, Reverse, Reversible
<1>4. OneEntryPerSource'
  BY <1>2, <1>3 DEF JournalInv, OneEntryPerSource
<1>5. /\ \A f \in Entries : journal'[f].date = journal[f].date
      /\ journal[o].status = "posted" /\ journal[e].status = "draft"
  BY <1>1 DEF JournalInv, EntryRow, Reverse, Reversible
<1>6. JournalStep
  BY <1>2, <1>5 DEF JournalStep, Posted
<1>. QED
  BY <1>2, <1>4, <1>6 DEF JournalInv

\* What staff do to the entry of another is no different.
LEMMA HandleKeeps ==
    ASSUME JournalInv, NEW e \in Entries, NEW own, NEW h, Handle(e, own, h)
    PROVE  JournalInv' /\ JournalStep
BY RemoveKeeps, VoidKeeps, PostKeeps, ReverseKeeps DEF Handle

\* They make no entry by it.
LEMMA HandleMakesNone ==
    ASSUME JournalInv, NEW e \in Entries, NEW own, NEW h, Handle(e, own, h)
    PROVE  \A f \in Entries : journal'[f].status # "absent" => journal[f].status # "absent"
<1>1. journal \in [Entries -> EntryRow]
  BY DEF JournalInv
<1>2. CASE Remove(e) \/ Void(e)
  BY <1>1, <1>2 DEF Remove, Void, Pending, PutEntry, EntryRow
<1>3. ASSUME NEW k \in own, Post(e, k, h)
      PROVE  \A f \in Entries : journal'[f].status # "absent" => journal[f].status # "absent"
  BY <1>1, <1>3 DEF Post, Postable, Pending, PutEntry, EntryRow
<1>4. ASSUME NEW k \in own, NEW o \in Entries, Reverse(o, e, k, h)
      PROVE  \A f \in Entries : journal'[f].status # "absent" => journal[f].status # "absent"
  BY <1>1, <1>4 DEF Reverse, Reversible, EntryRow
<1>. QED
  BY <1>2, <1>3, <1>4 DEF Handle

LEMMA MirrorKeeps ==
    ASSUME JournalInv, Entries \subseteq Sources, NEW o \in Entries, NEW e \in Entries,
           NEW date \in Dates, Mirror(o, e, date)
    PROVE  /\ JournalInv' /\ JournalStep
           /\ journal'[e] = [status |-> "draft", date |-> date, source |-> o]
BY DraftKeeps DEF Mirror

\* What an entry was drafted for is not rewritten.
LEMMA SourcesStay ==
    ASSUME JournalInv, NEW e \in Entries, NEW o \in Entries, NEW k, NEW h,
           \/ \E date \in Dates : Edit(e, date)
           \/ Remove(e) \/ Void(e) \/ Post(e, k, h) \/ Reverse(o, e, k, h)
    PROVE  \A f \in Entries : journal'[f].source \in {journal[f].source, None}
<1>1. journal \in [Entries -> EntryRow]
  BY DEF JournalInv
<1>2. ASSUME NEW date \in Dates, Edit(e, date)
      PROVE  \A f \in Entries : journal'[f].source \in {journal[f].source, None}
  BY <1>1, <1>2 DEF Edit, PutEntry
<1>3. CASE Remove(e)
  BY <1>1, <1>3 DEF Remove, PutEntry, Removed
<1>4. CASE Void(e) \/ Post(e, k, h)
  BY <1>1, <1>4 DEF Void, Post, PutEntry, EntryRow
<1>5. CASE Reverse(o, e, k, h)
  BY <1>1, <1>5 DEF Reverse, EntryRow
<1>. QED
  BY <1>2, <1>3, <1>4, <1>5

\* The steps that change nothing in the books.
LEMMA ReversedStay ==
    ASSUME JournalStep
    PROVE  StillReversed
BY DEF JournalStep, StillReversed, Posted

\* No entry has been drafted yet.
LEMMA EmptyJournal ==
    ASSUME journal = [e \in Entries |-> NoEntry]
    PROVE  JournalInv
BY DEF JournalInv, OneEntryPerSource, Stored, NoEntry, EntryRow, EntryStatus

-----------------------------------------------------------------------------
(* The keys: each names a posted entry, and no entry was posted under two. *)

Receipts == {None} \cup [entry : Entries, hash : Hashes]

KeysInv ==
    /\ keys \in [Keys -> Receipts]
    /\ \A k \in Keys : keys[k] # None => keys[k].entry \in Entries /\ Posted(keys[k].entry)
    /\ \A k, l \in Keys :
          keys[k] # None /\ keys[l] # None /\ keys[k].entry = keys[l].entry => k = l

\* No step posts under a key again or takes one back.
KeysStep == \A k \in Keys : keys[k] # None => keys'[k] = keys[k]

ReceiptsAreNotNull == \A e \in Entries, h \in Hashes : None # [entry |-> e, hash |-> h]

\* Staff do not touch the keys of documents.
LEMMA HandleKeys ==
    ASSUME NEW e \in Entries, NEW own \in SUBSET Keys, NEW h \in Hashes, Handle(e, own, h),
           keys \in [Keys -> Receipts]
    PROVE  keys' \in [Keys -> Receipts] /\ \A k \in Keys \ own : keys'[k] = keys[k]
<1>1. CASE UNCHANGED keys
  BY <1>1
<1>2. ASSUME NEW k \in own, keys' = [keys EXCEPT ![k] = [entry |-> e, hash |-> h]]
      PROVE  keys' \in [Keys -> Receipts] /\ \A l \in Keys \ own : keys'[l] = keys[l]
  BY <1>2 DEF Receipts
<1>. QED
  BY <1>1, <1>2 DEF Handle, Remove, Void, Post, Reverse

LEMMA NoKeys ==
    ASSUME keys = [k \in Keys |-> None]
    PROVE  KeysInv
BY DEF KeysInv, Receipts

\* What is posted stays, under the keys it was posted under.
LEMMA KeysStay ==
    ASSUME KeysInv, JournalStep, UNCHANGED keys
    PROVE  KeysInv' /\ KeysStep
BY DEF KeysInv, KeysStep, JournalStep, Posted

\* A key is used for an entry that was not posted before.
LEMMA KeyTaken ==
    ASSUME KeysInv, ReceiptsAreNotNull, NEW e \in Entries, NEW k \in Keys, NEW h \in Hashes,
           Pending(e), keys[k] = None,
           keys' = [keys EXCEPT ![k] = [entry |-> e, hash |-> h]],
           \A f \in Entries : Posted(f) => Posted(f)', Posted(e)'
    PROVE  /\ KeysInv' /\ KeysStep
           /\ keys'[k] # None /\ keys'[k].entry = e
           /\ \A l \in Keys : l # k => keys'[l] = keys[l]
<1>. DEFINE receipt == [entry |-> e, hash |-> h]
<1>1. receipt \in Receipts /\ receipt # None /\ receipt.entry = e
  BY DEF Receipts, ReceiptsAreNotNull
<1>2. keys' = [keys EXCEPT ![k] = receipt]
  OBVIOUS
<1>. HIDE DEF receipt
<1>3. /\ keys' \in [Keys -> Receipts] /\ keys'[k] = receipt
      /\ \A l \in Keys : l # k => keys'[l] = keys[l]
  BY <1>1, <1>2 DEF KeysInv
<1>4. \A l \in Keys : keys[l] # None => keys[l].entry # e
  BY DEF KeysInv, Posted, Pending
<1>5. \A l \in Keys : keys'[l] # None =>
          keys'[l].entry \in Entries /\ journal'[keys'[l].entry].status \in {"posted", "reversed"}
  <2>1. ASSUME NEW l \in Keys, keys'[l] # None
        PROVE  /\ keys'[l].entry \in Entries
               /\ journal'[keys'[l].entry].status \in {"posted", "reversed"}
    <3>1. CASE l = k
      BY <1>1, <1>3, <3>1 DEF Posted
    <3>2. CASE l # k
      <4>1. keys'[l] = keys[l] /\ keys[l].entry \in Entries /\ Posted(keys[l].entry)
        BY <1>3, <2>1, <3>2 DEF KeysInv
      <4>. QED
        BY <4>1 DEF Posted
    <3>. QED
      BY <3>1, <3>2
  <2>. QED
    BY <2>1
<1>6. \A l, m \in Keys : keys'[l] # None /\ keys'[m] # None /\ keys'[l].entry = keys'[m].entry
                            => l = m
  BY <1>1, <1>3, <1>4 DEF KeysInv
<1>7. KeysInv'
  BY <1>3, <1>5, <1>6 DEF KeysInv, Posted
<1>8. KeysStep
  BY <1>3 DEF KeysStep
<1>. QED
  BY <1>1, <1>3, <1>7, <1>8

LEMMA PostTakesKey ==
    ASSUME JournalInv, KeysInv, ReceiptsAreNotNull,
           NEW e \in Entries, NEW k \in Keys, NEW h \in Hashes, Post(e, k, h)
    PROVE  /\ KeysInv' /\ KeysStep
           /\ keys[k] = None /\ keys'[k] # None /\ keys'[k].entry = e
           /\ \A l \in Keys : l # k => keys'[l] = keys[l]
<1>1. JournalStep /\ journal'[e].status = "posted"
  BY PostKeeps
<1>2. \A f \in Entries : Posted(f) => Posted(f)'
  BY <1>1 DEF JournalStep, Posted
<1>3. Posted(e)' /\ Pending(e) /\ keys[k] = None
  BY <1>1 DEF Posted, Post, Postable
<1>. QED
  BY <1>2, <1>3, KeyTaken DEF Post

\* Beside the reversal and what it reverses, a reversal changes no entry.
LEMMA ReverseStep ==
    ASSUME JournalInv, NEW o \in Entries, NEW e \in Entries, NEW k, NEW h, Reverse(o, e, k, h)
    PROVE  /\ \A f \in Entries : f \notin {o, e} => journal'[f] = journal[f]
           /\ journal[o].status = "posted" /\ Pending(e)
           /\ journal'[o].status = "reversed" /\ journal'[e].status = "posted"
<1>1. o # e /\ Pending(e) /\ journal[o].status = "posted"
  BY DEF Reverse, Reversible, Postable, Pending
<1>. QED
  BY <1>1, ReverseKeeps DEF JournalInv, Reverse

LEMMA ReverseTakesKey ==
    ASSUME JournalInv, KeysInv, ReceiptsAreNotNull,
           NEW o \in Entries, NEW e \in Entries, NEW k \in Keys, NEW h \in Hashes,
           Reverse(o, e, k, h)
    PROVE  /\ KeysInv' /\ KeysStep
           /\ keys[k] = None /\ keys'[k] # None /\ keys'[k].entry = e
           /\ \A l \in Keys : l # k => keys'[l] = keys[l]
<1>1. \A f \in Entries : Posted(f) => Posted(f)'
  BY ReverseStep DEF Posted
<1>2. Posted(e)' /\ Pending(e) /\ keys[k] = None
  BY ReverseStep DEF Posted, Reverse, Reversible, Postable
<1>. QED
  BY <1>1, <1>2, KeyTaken DEF Reverse

-----------------------------------------------------------------------------
(* The specification of the journal itself.                                *)

BooksInv == JournalInv /\ KeysInv

LEMMA PostingKeeps ==
    ASSUME BooksInv, ReceiptsAreNotNull, NEW e \in Entries, Posting(e)
    PROVE  BooksInv' /\ KeysStep
<1>1. PICK k \in Keys, h \in Hashes : Post(e, k, h) \/ \E o \in Entries : Reverse(o, e, k, h)
  BY DEF Posting
<1>2. CASE Post(e, k, h)
  BY <1>2, PostKeeps, PostTakesKey DEF BooksInv
<1>3. ASSUME NEW o \in Entries, Reverse(o, e, k, h)
      PROVE  BooksInv' /\ KeysStep
  BY <1>3, ReverseKeeps, ReverseTakesKey DEF BooksInv
<1>. QED
  BY <1>1, <1>2, <1>3

LEMMA DraftingKeeps ==
    ASSUME BooksInv, NEW e \in Entries, Drafting(e)
    PROVE  BooksInv' /\ KeysStep
<1>1. JournalInv' /\ JournalStep
  BY DraftKeeps, EditKeeps, RemoveKeeps, VoidKeeps DEF BooksInv, Drafting
<1>2. UNCHANGED keys
  BY DEF Drafting, Draft, Edit, Remove, Void
<1>. QED
  BY <1>1, <1>2, KeysStay DEF BooksInv

LEMMA BooksStep ==
    ASSUME BooksInv, ReceiptsAreNotNull, [Next]_<<journalVars, accepting>>
    PROVE  BooksInv' /\ KeysStep
<1>1. CASE UNCHANGED journalVars
  BY <1>1, UnchangedJournal, KeysStay DEF journalVars, BooksInv
<1>. QED
  BY <1>1, PostingKeeps, DraftingKeeps DEF Next, Reschedule

\* What the books have, they keep.
LEMMA BooksKeep ==
    ASSUME JournalInv, [Next]_<<journalVars, accepting>>
    PROVE  JournalStep
<1>1. CASE UNCHANGED journal
  BY <1>1, UnchangedJournal
<1>2. ASSUME NEW e \in Entries, Drafting(e)
      PROVE  JournalStep
  BY <1>2, DraftKeeps, EditKeeps, RemoveKeeps, VoidKeeps DEF Drafting
<1>3. ASSUME NEW e \in Entries, Posting(e)
      PROVE  JournalStep
  BY <1>3, PostKeeps, ReverseKeeps DEF Posting
<1>. QED
  BY <1>1, <1>2, <1>3 DEF Next, Reschedule, journalVars

\* A source has one stored entry, a key names an entry that is posted, and no entry
\* has two keys, in the journal and in every service that is a specification over it.
THEOREM BooksInvariant == ReceiptsAreNotNull => (Spec => []BooksInv)
<1>. SUFFICES ASSUME ReceiptsAreNotNull PROVE Spec => []BooksInv
  OBVIOUS
<1>1. Init => BooksInv
  BY EmptyJournal, NoKeys DEF Init, BooksInv
<1>2. BooksInv /\ [Next]_<<journalVars, accepting>> => BooksInv'
  BY BooksStep
<1>. QED
  BY <1>1, <1>2, PTL DEF Spec

-----------------------------------------------------------------------------
(* The operations of services are steps of the journal.                    *)

\* A stored entry is dated, and for a source if for anything.
EntriesDated ==
    \A e \in Entries : Stored(e) =>
        journal[e].date \in Dates /\ journal[e].source \in Sources \cup {None}

LEMMA EntriesStayDated ==
    ASSUME JournalInv, EntriesDated, [Next]_<<journalVars, accepting>>
    PROVE  EntriesDated'
<1>1. CASE UNCHANGED journal
  BY <1>1 DEF EntriesDated, Stored
<1>2. ASSUME NEW e \in Entries, Drafting(e)
      PROVE  EntriesDated'
  <2>1. \A f \in Entries : f # e => journal'[f] = journal[f]
    BY <1>2 DEF JournalInv, Drafting, Draft, Edit, Remove, Void, PutEntry
  <2>2. \/ journal'[e].status = "deleted"
        \/ /\ journal'[e].date \in Dates /\ journal'[e].source \in Sources \cup {None}
    BY <1>2 DEF JournalInv, EntryRow, EntriesDated, Stored, Pending, Drafting, Draft, Edit,
                Remove, Removed, Void, PutEntry
  <2>. QED
    BY <2>1, <2>2 DEF EntriesDated, Stored
<1>3. ASSUME NEW e \in Entries, Posting(e)
      PROVE  EntriesDated'
  <2>1. PICK k \in Keys, h \in Hashes : Post(e, k, h) \/ \E o \in Entries : Reverse(o, e, k, h)
    BY <1>3 DEF Posting
  <2>2. CASE Post(e, k, h)
    <3>1. /\ \A f \in Entries : f # e => journal'[f] = journal[f]
          /\ journal'[e].date = journal[e].date /\ journal'[e].source = journal[e].source
          /\ Stored(e)
      BY <2>2 DEF JournalInv, EntryRow, Post, Postable, Pending, PutEntry, Stored
    <3>. QED
      BY <3>1 DEF EntriesDated, Stored
  <2>3. ASSUME NEW o \in Entries, Reverse(o, e, k, h)
        PROVE  EntriesDated'
    <3>1. Stored(o) /\ Stored(e)
      BY <2>3 DEF Reverse, Reversible, Postable, Pending, Stored
    <3>2. \A f \in Entries :
            /\ f \notin {o, e} => journal'[f] = journal[f]
            /\ journal'[f].date = journal[f].date /\ journal'[f].source = journal[f].source
      BY <2>3 DEF JournalInv, EntryRow, Reverse
    <3>. QED
      BY <3>1, <3>2 DEF EntriesDated, Stored
  <2>. QED
    BY <2>1, <2>2, <2>3
<1>. QED
  BY <1>1, <1>2, <1>3 DEF Next, Reschedule, journalVars

LEMMA DraftIsAStep ==
    ASSUME NEW e \in Entries, NEW date \in Dates, NEW source \in Sources \cup {None},
           Draft(e, date, source), UNCHANGED accepting
    PROVE  Next
BY DEF Next, Drafting

LEMMA StaffIsAStep ==
    ASSUME NEW e \in Entries, Remove(e) \/ Void(e) \/ \E date \in Dates : Edit(e, date),
           UNCHANGED accepting
    PROVE  Next
BY DEF Next, Drafting

LEMMA PostIsAStep ==
    ASSUME NEW e \in Entries, NEW k \in Keys, NEW h \in Hashes, Post(e, k, h),
           UNCHANGED accepting
    PROVE  Next
BY DEF Next, Posting

LEMMA ReverseIsAStep ==
    ASSUME NEW o \in Entries, NEW e \in Entries, NEW k \in Keys, NEW h \in Hashes,
           Reverse(o, e, k, h), UNCHANGED accepting
    PROVE  Next
BY DEF Next, Posting

LEMMA HandleIsAStep ==
    ASSUME NEW e \in Entries, NEW own \in SUBSET Keys, NEW h \in Hashes, Handle(e, own, h),
           UNCHANGED accepting
    PROVE  Next
BY StaffIsAStep, PostIsAStep, ReverseIsAStep DEF Handle

LEMMA MirrorIsAStep ==
    ASSUME Entries \subseteq Sources, NEW o \in Entries, NEW e \in Entries,
           NEW date \in Dates, Mirror(o, e, date), UNCHANGED accepting
    PROVE  Next
BY DraftIsAStep DEF Mirror

=============================================================================
