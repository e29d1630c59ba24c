----------------------------- MODULE MCPayables -----------------------------
(* Small instances of accounts payable.                                    *)
EXTENDS PayablesProperties, TLC

CONSTANTS b1, p1, p2, e1, e2, e3, e4, a1, a2, r1, r2, d1, d2, k1, h1

Amounts(amount) == [b \in Bills |-> amount]

\* A bill of 2 that is paid in part or in full.
BillTotals == Amounts(2)
PartOrAll == {Amounts(1), Amounts(2)}

FirstDate == [document \in Bills \cup Payments |-> d1]

AllSources == Bills \cup Payments \cup Entries
AllKeys == Bills \cup Payments \cup {VoidKey(p) : p \in Payments} \cup {k1}

Interchangeable == Permutations(Requests) \cup Permutations(Payments) \cup Permutations(Actors)

=============================================================================
