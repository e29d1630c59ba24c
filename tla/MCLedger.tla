------------------------------ MODULE MCLedger ------------------------------
(* Small instances of the journal.                                         *)
EXTENDS LedgerRefinement, TLC

CONSTANTS e1, e2, e3, r1, r2, p1, p2, k1, k2, h1, h2, cash, gifts

Line(account, debit, credit) == [account |-> account, debit |-> debit, credit |-> credit]

\* A gift, its mirror, and a draft that does not balance and its mirror.
Gift == <<Line(cash, 2, 0), Line(gifts, 0, 2)>>
Uneven == <<Line(cash, 2, 0), Line(gifts, 0, 1)>>
OneGift == {Gift, Mirror(Gift)}

\* Both lines name one account, so that an instance needs only that account.
Transfer == <<Line(cash, 2, 0), Line(cash, 0, 2)>>
OneTransfer == {Transfer, Mirror(Transfer)}
GiftOrUneven == OneGift \cup {Uneven, Mirror(Uneven)}

\* The requests run the same code and are interchangeable, and so are the ids.
RequestSymmetry == Permutations(Requests)
RequestAndEntrySymmetry == Permutations(Requests) \cup Permutations(Entries)

=============================================================================
