------------------------------ MODULE ChartRows ------------------------------
(***************************************************************************)
(* From the series of an answer of Prometheus to the rows of a chart, one  *)
(* per instant, and what is promised of it: Charts is how the answers are  *)
(* asked for.                                                              *)
(***************************************************************************)
EXTENDS Integers, Sequences, FiniteSets, FiniteSetsExt, Functions

CONSTANTS
    NoName,     \* the label of a series is not there
    Null        \* no value

VARIABLES
    answers,    \* the answers so far, by key
    charts      \* the charts made so far, by key

-----------------------------------------------------------------------------
(* The keys of a MongoDB database, and how a chart is made of each.         *)

OperationOf ==
    [operations_command |-> "command", operations_query |-> "query",
     operations_update |-> "update", operations_delete |-> "delete",
     operations_getMore |-> "getMore", operations_insert |-> "insert"]
MetricKeys ==
    {"cpu", "network_in", "network_out", "memory_usage", "memory_limit",
     "disk_usage", "disk_total", "connections"} \cup DOMAIN OperationOf
InsightKeys == {"duration", "indexEfficiency", "efficiency", "rate", "slowQueries"}

\* processingRules: the keys whose series are summed up, and the column they fill.
SummedInto ==
    [memory_limit |-> "total", disk_usage |-> "usage", disk_total |-> "total",
     connections |-> "total"]

\* Operations are always summed up, and so is no insight.
IsAggregatedMetric(q) == q \in DOMAIN SummedInto \cup DOMAIN OperationOf

\* getMetricAggregationKey
AggregationKey(q) == IF q \in DOMAIN OperationOf THEN OperationOf[q] ELSE SummedInto[q]

-----------------------------------------------------------------------------
(* PrometheusParser                                                         *)

Instants(series) == UNION {DOMAIN series[k].values : k \in DOMAIN series}

\* point?.value || null: a zero counts as no value.
ValueShown(s, t) ==
    IF t \in DOMAIN s.values /\ s.values[t] # 0 THEN s.values[t] ELSE Null

\* toFlatRechartsData: one column per name, without those that have none.  Of
\* the series with one name the last one fills it.
Columns(series) == {series[k].name : k \in DOMAIN series} \ {NoName}
Filler(series, n) ==
    Max({k \in DOMAIN series : series[k].name = n})
Flat(series) ==
    [t \in Instants(series) |->
        [n \in Columns(series) |-> ValueShown(series[Filler(series, n)], t)]]

\* Mutant of Total: the last series that has a value is shown.
TotalOfLast(series, column) ==
    [t \in Instants(series) |->
        [n \in {column} |->
            LET ks == {k \in DOMAIN series : ValueShown(series[k], t) # Null}
            IN  IF ks = {} THEN 0 ELSE series[Max(ks)].values[t]]]

\* toTotalRechartsData: one column, in which what is missing counts nothing.
Number(v) == IF v = Null THEN 0 ELSE v
Total(series, column) ==
    [t \in Instants(series) |->
        [n \in {column} |->
            SumFunction([k \in DOMAIN series |-> Number(ValueShown(series[k], t))])]]

\* DataFormatterService: what a chart shows its values in, the digits aside.  No
\* value stays no value.
UnitOf(q) ==
    CASE q \in {"memory_usage", "memory_limit"} -> "MB"
      [] q \in {"disk_usage", "disk_total"} -> "GB"
      [] q \in {"network_in", "network_out"} -> "KB/s"
      [] q = "cpu" -> "%"
      [] OTHER -> "as it is"
Formatted(q, chart) ==
    [t \in DOMAIN chart |->
        [n \in DOMAIN chart[t] |->
            IF chart[t][n] = Null THEN Null
            ELSE [value |-> chart[t][n], unit |-> UnitOf(q)]]]

\* processQueryResult, of the metrics and of the insights.
MetricChart(q, series) ==
    IF IsAggregatedMetric(q) THEN Total(series, AggregationKey(q)) ELSE Flat(series)
InsightChart(series) == Flat(series)
Chart(q, series) ==
    Formatted(q, IF q \in InsightKeys THEN InsightChart(series) ELSE MetricChart(q, series))

-----------------------------------------------------------------------------
SumOf(row) ==
    SumFunction([n \in {m \in DOMAIN row : row[m] # Null} |-> row[n].value])
ValueOf(series, k, t) == IF t \in DOMAIN series[k].values THEN series[k].values[t] ELSE 0

\* Series whose names tell them apart.
ToldApart(series) ==
    /\ \A k \in DOMAIN series : series[k].name # NoName
    /\ \A k \in DOMAIN series, l \in DOMAIN series :
          series[k].name = series[l].name => k = l

\* Split by instance or summed up, a chart accounts for every value of its
\* series at every instant that one of them has; split charts do so as long as
\* the names tell the series apart.
ChartsAccountForTheirSeries ==
    \A q \in DOMAIN answers : IsAggregatedMetric(q) \/ ToldApart(answers[q]) =>
        \A t \in Instants(answers[q]) :
            SumOf(charts[q][t]) =
                SumFunction([k \in DOMAIN answers[q] |-> ValueOf(answers[q], k, t)])
=============================================================================
