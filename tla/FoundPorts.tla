----------------------------- MODULE FoundPorts -----------------------------
(***************************************************************************)
(* What the search for a port promises of the ports it passes and finds:   *)
(* PortAllocation is how it searches.                                      *)
(***************************************************************************)
EXTENDS Naturals

CONSTANTS Instance, Worker

VARIABLES pc, last, port, first, free, known  \* see PortAllocation

\* What the search of i has gone past.
Passed(i) == first[i]..(IF pc[i] = "reserve" THEN port[i] - 1 ELSE last[i])

\* From where it began the search goes past no port that was free all the time,
\* over batches, retries and changing reservations: it takes the first one.
SearchSkipsNothing ==
    \A i \in Instance : first[i] # 0 => free[i] \cap Passed(i) = {}

\* A port on a target worker that the log and every snapshot showed when the
\* search began is never chosen, whichever snapshot, cached by whichever
\* process, the search then reads.
KnownPortsAvoided ==
    \A i \in Instance : pc[i] = "reserve" =>
        \A w \in Worker : port[i] \notin known[i][w]
=============================================================================
