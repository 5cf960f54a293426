------------------------------ MODULE LogPaging ------------------------------
(***************************************************************************)
(* Reading the logs of a stack page by page, newest first, while more logs *)
(* arrive.  The service keeps nothing between two pages: the client sends  *)
(* back the timestamp the last page ended with.                            *)
(*                                                                         *)
(* Axiom keeps instants finer than a millisecond, Fine of them in one; a   *)
(* timestamp that went through the service is a whole millisecond.         *)
(***************************************************************************)
EXTENDS Integers, Sequences, FiniteSets

CONSTANTS
    Limit,      \* logs on a page: the requested number, or 100
    Fine,       \* instants that a millisecond is divided into
    MaxTime,    \* bound on the instants
    MaxLogs     \* bound on the logs that arrive

VARIABLES
    logs,       \* what Axiom has for the stack, stream and dates, by arrival
    reader,     \* the client: [at, cursor]
    first,      \* the logs that were there when it asked for its first page
    pages,      \* the pages it was given
    skipped     \* history: a page had a row the parser does not take
\* Its property is PagesLoseEdgesOnly.
INSTANCE LogPages

vars == <<logs, reader, first, pages, skipped>>

NoCursor == MaxTime \div Fine + 1

\* buildDatabaseLogsQuery: strictly before the cursor, which is an instant.
Matching(cursor) == {k \in DOMAIN logs : logs[k].time < cursor * Fine}

\* sort by _time desc | limit: which of several logs of one instant make it to
\* the page is not said.
Answers(cursor) ==
    {rows \in SUBSET Matching(cursor) :
        /\ Cardinality(rows) <= Limit
        /\ Cardinality(rows) < Limit => rows = Matching(cursor)
        /\ \A k \in rows, l \in Matching(cursor) \ rows : logs[l].time <= logs[k].time}

\* parseAxiomResponse: a row without a time, source, container or text, as an
\* empty line of output is, is left out.
Parsed(rows) == {k \in rows : ~logs[k].blank}

\* Mutant of NextCursor: the millisecond of the last log is read once more.
NextCursorAgain(page) == LastOf(page) + 1

NextCursor(page) == LastOf(page)

\* AxiomClient: an answer of 200, with a status.
Answered(reply) == reply.ok /\ reply.status

-----------------------------------------------------------------------------
\* A line of output reaches Axiom, possibly later than younger ones.
Arrive(t, blank) ==
    /\ Len(logs) < MaxLogs
    /\ logs' = Append(logs, [time |-> t, blank |-> blank])
    /\ UNCHANGED <<reader, first, pages, skipped>>

\* The client sets out; until it asks for more, that is one request.
Begin ==
    /\ reader.at = "away"
    /\ reader' = [at |-> "reading", cursor |-> NoCursor]
    /\ first' = DOMAIN logs
    /\ UNCHANGED <<logs, pages, skipped>>

\* queryLogs
Read ==
    /\ reader.at = "reading"
    /\ \E rows \in Answers(reader.cursor) :
          LET page == Parsed(rows) IN
          /\ pages' = Append(pages, page)
          /\ skipped' = (skipped \/ page # rows)
          /\ reader' = IF HasNext(page) THEN [reader EXCEPT !.cursor = NextCursor(page)]
                       ELSE [reader EXCEPT !.at = "ended"]
    /\ UNCHANGED <<logs, first>>

\* A failing request is an error for the client, which may repeat it.
ReadFails ==
    /\ reader.at = "reading"
    /\ \E reply \in [ok : BOOLEAN, status : BOOLEAN] : ~Answered(reply)
    /\ reader' = [reader EXCEPT !.at = "failed"]
    /\ UNCHANGED <<logs, first, pages, skipped>>

Repeat ==
    /\ reader.at = "failed"
    /\ reader' = [reader EXCEPT !.at = "reading"]
    /\ UNCHANGED <<logs, first, pages, skipped>>

Init ==
    /\ logs = <<>> /\ first = {} /\ pages = <<>> /\ skipped = FALSE
    /\ reader = [at |-> "away", cursor |-> NoCursor]

Next ==
    \/ \E t \in 0 .. MaxTime, blank \in BOOLEAN : Arrive(t, blank)
    \/ Begin \/ Read \/ ReadFails \/ Repeat

Spec == Init /\ [][Next]_vars

-----------------------------------------------------------------------------
TypeOK ==
    /\ logs \in Seq([time : 0 .. MaxTime, blank : BOOLEAN])
    /\ reader \in [at : {"away", "reading", "failed", "ended"}, cursor : 0 .. NoCursor]
    /\ \A n \in DOMAIN pages : pages[n] \subseteq DOMAIN logs
=============================================================================
