\* Two requests that draft, deposit, edit, delete, void, post and reverse two entries,
\* each other's included, and may be evicted at any await.
SPECIFICATION Spec
CONSTANTS
    e1 = e1  e2 = e2  e3 = e3  r1 = r1  r2 = r2  p1 = p1  p2 = p2
    k1 = k1  k2 = k2  h1 = h1  h2 = h2  cash = cash  gifts = gifts
    Entries = {e1, e2}
    Requests = {r1, r2}
    Periods = {p1}
    Keys = {k1}
    Hashes = {h1}
    Accounts = {cash, gifts}
    LineSets <- GiftOrUneven
    Operations = {"create", "deposit", "post", "reverse", "edit", "delete", "void", "crash"}
    MaxVersion = 2
    None = None
SYMMETRY RequestAndEntrySymmetry
INVARIANTS TypeOK BooksBalance ReversalsMirror PostedUnderOneKey AnsweredIsPosted
PROPERTIES BooksAreAppendOnly NoLostEdit ImplementsBooks
CHECK_DEADLOCK FALSE
