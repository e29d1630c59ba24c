-------------------------------- MODULE Sums ---------------------------------
(* Sums of amounts that a function gives for the members of a finite set:  *)
(* what SUM(...) adds up over the rows of a table.                         *)
EXTENDS Integers, FiniteSetsExt

SumOver(f, S) == MapThenSumSet(LAMBDA x : f[x], S)

=============================================================================
