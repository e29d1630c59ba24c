------------------------------- MODULE MCInbox -------------------------------
(* Small instances of the inbox.                                           *)
EXTENDS InboxProperties, TLC

CONSTANTS g1, f1, i1, e1, e2, e3, a1, a2, x1, w1, w2, d1, byHand

AllGifts == [f \in Refunds |-> g1]
OneDate == [e \in Events |-> d1]

AllSources == Events \cup Entries
AllKeys == Events \cup {byHand}

GivingOrBilling == {{g1, f1}, {i1}}

Interchangeable == Permutations(Workers)

=============================================================================
