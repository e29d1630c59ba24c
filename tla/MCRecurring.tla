---------------------------- MODULE MCRecurring ----------------------------
(* Small instances of the schedules.                                       *)
EXTENDS RecurringProperties

CONSTANTS s1, e1, e2, e3, r1, r2, h1, byHand

CalendarDates == 1..Horizon
DatesDue == {Occurrence(s, date) : s \in Schedules, date \in CalendarDates}
AllSources == DatesDue \cup Entries
AllKeys == DatesDue \cup {byHand}

Until == [s \in Schedules |-> Horizon]

=============================================================================
