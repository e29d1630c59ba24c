------------------------------ MODULE MCYearEnd ------------------------------
(* Small instances of the year-end close.                                  *)
EXTENDS YearEndProperties, TLC

CONSTANTS e1, e2, e3, e4, c1, c2, r1, r2, november, december, january, year2026, reopen, h1

AllSources == Entries \cup {year2026}
AllKeys == Entries \cup {year2026, reopen}

Interchangeable == Permutations(Requests) \cup Permutations(Closes)

=============================================================================
