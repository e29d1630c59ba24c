\* Two workers bring in a gift and its refund, or an invoice, while the settings or a period
\* change, staff work on the entries and attempts fail or are evicted.  No symmetry: liveness
\* is checked.
SPECIFICATION FairSpec
CONSTANTS
    g1 = g1  f1 = f1  i1 = i1  e1 = e1  e2 = e2  e3 = e3  a1 = a1  a2 = a2  x1 = x1
    w1 = w1  w2 = w2  d1 = d1  byHand = byHand
    Gifts = {g1}
    Refunds = {f1}
    Invoices = {i1}
    GiftOf <- AllGifts
    DateOf <- OneDate
    Sent <- GivingOrBilling
    Entries = {e1, e2}
    Dates = {d1}
    Sources <- AllSources
    Keys <- AllKeys
    Hashes = {a1, x1}
    Accounts = {a1}
    Default = a1
    Service = x1
    Workers = {w1, w2}
    MaxChanges = 1
    MaxCrashes = 1
    None = None
INVARIANTS TypeOK BookedOnce InvoiceIsBooked
PROPERTY InvoiceSettles
CHECK_DEADLOCK FALSE
