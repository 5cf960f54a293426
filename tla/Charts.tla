------------------------------- MODULE Charts -------------------------------
(***************************************************************************)
(* The charts of a database: its queries are sent to Prometheus together,  *)
(* each is answered or fails on its own, and the series of an answer       *)
(* become the rows of a chart (ChartRows).                                 *)
(***************************************************************************)
EXTENDS Integers, Sequences

CONSTANTS
    Query,      \* keys of the queries of one page: some of MetricKeys, or of InsightKeys
    NoName,     \* the label of a series is not there
    Replies,    \* answers of Prometheus: sequences of series, each a
                \* [name, values]: what the label says up to its
                \* first dot, and the values by instant
    Null        \* no value

VARIABLES
    answers,    \* the answers so far, by key
    charts,     \* the charts made so far, by key
    failed,     \* keys whose query failed
    response    \* what the service answers: keys with a chart, keys with an error
vars == <<answers, charts, failed, response>>

INSTANCE ChartRows

-----------------------------------------------------------------------------
(* MetricsService and DatabaseQueryInsightsService                          *)

Pending == Query \ (DOMAIN answers \cup failed)

\* PrometheusClient: an answer of 200, that says success.
Reply == [ok : BOOLEAN, success : BOOLEAN, series : Replies]
Answered(reply) == reply.ok /\ reply.success

Succeed(q, series) ==
    /\ q \in Pending
    /\ answers' = [k \in DOMAIN answers \cup {q} |->
                      IF k = q THEN series ELSE answers[k]]
    /\ charts' = [k \in DOMAIN charts \cup {q} |->
                      IF k = q THEN Chart(q, series) ELSE charts[k]]
    /\ UNCHANGED <<failed, response>>

\* Mutant of FailQuery: no chart stands for the query that failed.
FailUncharted(q) ==
    /\ q \in Pending
    /\ failed' = failed \cup {q}
    /\ UNCHANGED <<answers, charts, response>>

\* handleQueryError: an empty chart, and the message beside it.
FailQuery(q) ==
    /\ q \in Pending
    /\ failed' = failed \cup {q}
    /\ charts' = [k \in DOMAIN charts \cup {q} |->
                      IF k = q THEN <<>> ELSE charts[k]]
    /\ UNCHANGED <<answers, response>>

\* executeQuery
ExecuteQuery(q) ==
    \E reply \in Reply :
        IF Answered(reply) THEN Succeed(q, reply.series) ELSE FailQuery(q)

\* The results are put together when the last one is there.
Respond ==
    /\ Pending = {}
    /\ response = {}
    /\ response' = {[key |-> q, error |-> q \in failed] : q \in DOMAIN charts}
    /\ UNCHANGED <<answers, charts, failed>>

Init == answers = <<>> /\ charts = <<>> /\ failed = {} /\ response = {}
Next == (\E q \in Query : ExecuteQuery(q)) \/ Respond
Spec == Init /\ [][Next]_vars

-----------------------------------------------------------------------------
TypeOK ==
    /\ DOMAIN charts = DOMAIN answers \cup failed
    /\ DOMAIN charts \subseteq Query
    /\ \A r \in response : r.key \in Query /\ r.error \in BOOLEAN
=============================================================================
