------------------------------- MODULE LogPages -------------------------------
(***************************************************************************)
(* What is promised of the pages of logs that one reading is given:        *)
(* LogPaging is how they are asked for and answered.                       *)
(***************************************************************************)
EXTENDS Integers, Sequences, FiniteSets

CONSTANTS
    Limit,      \* logs on a page: the requested number, or 100
    Fine        \* instants that a millisecond is divided into

VARIABLES
    logs,       \* what Axiom has for the stack, stream and dates, by arrival
    reader,     \* the client: [at, cursor]
    first,      \* the logs that were there when it asked for its first page
    pages,      \* the pages it was given
    skipped     \* history: a page had a row the parser does not take

Milli(t) == t \div Fine

\* mapSourceToLogSource: the sources that are known by name.
LogSource == {"stdout", "stderr", "apprunner", "scheduler", "build", "builderr",
              "build-info", "build-error", "build-warn",
              "deploy-info", "deploy-error", "deploy-warn"}

\* mapSourceToStream
StreamOf(source) ==
    CASE source \in {"build-info", "build-error", "build-warn"} -> "build"
      [] source \in {"deploy-info", "deploy-error", "deploy-warn"} -> "galaxy"
      [] source = "stderr" -> "error"
      [] OTHER -> "app"

\* buildStreamFilter: the sources that are asked for.
SourcesOf(stream) ==
    CASE stream = "app" -> {"stdout", "stderr"}
      [] stream = "build" -> {"build-info", "build-error", "build-warn"}
      [] stream = "galaxy" -> {"deploy-info", "deploy-error", "deploy-warn"}
      [] stream = "error" -> {"stderr"}

\* calculateNextPageTimestamp: there is a next page if this one is full, and
\* it begins with the millisecond of its last log.
LastOf(page) == CHOOSE m \in {Milli(logs[k].time) : k \in page} :
                    \A k \in page : m <= Milli(logs[k].time)
HasNext(page) == Cardinality(page) = Limit

-----------------------------------------------------------------------------
\* Paging goes back in time and shows no log twice, although logs arrive between
\* two pages and the cursor has lost what is finer than a millisecond.
PagesGoBack ==
    \A m \in DOMAIN pages, n \in DOMAIN pages :
        m < n => \A k \in pages[m], l \in pages[n] :
                    Milli(logs[l].time) < Milli(logs[k].time)

Shown == UNION {pages[n] : n \in DOMAIN pages}

\* The milliseconds a page other than the last one ended in.
Edges == {LastOf(pages[n]) : n \in {m \in DOMAIN pages : HasNext(pages[m])}}

\* A log that was there from the beginning is missed only if it shares its
\* millisecond with the end of a page, or a row that was left out made a page
\* look like the last one.
MissedAtAnEdge ==
    reader.at = "ended" =>
        \A k \in first \ Shown :
            logs[k].blank \/ skipped \/ Milli(logs[k].time) \in Edges

\* What is shown for a stream is labelled as of it, but errors are of the
\* application as well; what is labelled as of another stream than the
\* application is found there.
StreamsAgree ==
    \A source \in LogSource, stream \in {"app", "build", "galaxy", "error"} :
        /\ source \in SourcesOf(stream) =>
              StreamOf(source) = stream \/ (stream = "app" /\ StreamOf(source) = "error")
        /\ StreamOf(source) = stream /\ stream # "app" => source \in SourcesOf(stream)

\* What the pages of one reading lose, they lose at their edges, and a reading
\* of a stream has what is labelled with it.
PagesLoseEdgesOnly == PagesGoBack /\ MissedAtAnEdge /\ StreamsAgree
=============================================================================
