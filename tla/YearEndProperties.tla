-------------------------- MODULE YearEndProperties --------------------------
(* What a closed and what a reopened year promise.                         *)
EXTENDS YearEnd

PC == {"idle", "activity", "months", "closing_period", "prior", "draft", "post", "check",
       "insert", "close_year", "lock", "complete", "later", "unlock", "open_periods",
       "open_year", "reverse", "read_link", "find_reversal", "create_reversal",
       "post_reversal", "reopened", "reopen_session"}
CloseRow == [status : CloseStatus, entry : Entries \cup {None}, post : SUBSET Entries]
RequestType == [pc : PC, entry : Entries \cup {None}, close : Closes \cup {None},
                seen : SUBSET Entries]

\* Every column and local variable has its type, and a request that is to post or to
\* reopen something has it.
TypeOK ==
    /\ amount \in [Entries -> Int]
    /\ periods \in [Dates -> PeriodStatus]
    /\ locks \subseteq Dates
    /\ year \in {"open", "closed"}
    /\ closes \in [Closes -> CloseRow]
    /\ session \in {"in_progress", "completed", "reopened"}
    /\ request \in [Requests -> RequestType]
    /\ \A r \in Requests :
          /\ request[r].pc \in {"post", "post_reversal", "reverse", "read_link",
                               "find_reversal", "create_reversal"}
                => request[r].entry \in Entries
          /\ request[r].pc \in {"reverse", "read_link", "find_reversal", "create_reversal",
                               "post_reversal", "reopened", "reopen_session"}
                => request[r].close \in Closes
    /\ mishaps \in 0..MaxMishaps

-----------------------------------------------------------------------------

\* A close that was reopened has its closing entry reversed, however many requests
\* reopened it at once and wherever they stopped.
ReopenedIsReversed ==
    \A c \in Closes :
        closes[c].status = "reopened" /\ closes[c].entry # None
            => journal[closes[c].entry].status = "reversed"

\* A year that is closed has no revenue or expense left open, as
\* docs/accounting/111-phase-3d-year-end-close.md says of the close.
ClosedYearIsClosedOut == year = "closed" => Balance = 0

\* A trial balance over entries that are in the books of the year, with nothing left in
\* its revenue and expense accounts.
ClosedOut(entries) == entries \subseteq {e \in Entries : Posted(e)} /\ Total(entries) = 0

\* Every close that was completed, the second one of a year that was reopened included,
\* had found the year closed out, and no year is closed without one, whichever requests
\* execute and reopen it meanwhile.
ClosedYearWasClosedOut ==
    LET done == {c \in Closes : closes[c].status \in {"completed", "reopened"}}
    IN  /\ \A c \in done : ClosedOut(closes[c].post)
        /\ year = "closed" => done # {}

\* Of executions that run at once one completes the close of the year, and so there is
\* one for a reopening to take back.
OneCompletedClose == \A c, d \in Completed : c = d

\* Nothing is booked to a year while it is closed, by whatever request and whichever
\* of its months was opened again.
ClosedYearIsFrozen == [][year = "closed" => UNCHANGED Balance]_vars

=============================================================================
