------------------------------ MODULE PromQuery ------------------------------
(***************************************************************************)
(* From the QuerySpec of a metric to the text of a Prometheus query: the   *)
(* validator, the builder, and how Prometheus reads the text.              *)
(*                                                                         *)
(* A text is a sequence of tokens.  Parentheses are kept as they are       *)
(* written, around the text inside; between operators there are none.      *)
(***************************************************************************)
EXTENDS Integers, Sequences, FiniteSets, SequencesExt

CONSTANTS
    Specs,      \* the QuerySpecs that are tried
    None        \* an optional part of a QuerySpec that is absent

VARIABLES
    spec,       \* the QuerySpec that is asked for
    outcome,    \* "asked", "refused" or "built"
    query       \* the text that was built
vars == <<spec, outcome, query>>

-----------------------------------------------------------------------------
(* PrometheusQueryValidator                                                 *)

Rights(s) == {s.dividedBy} \cup (IF s.binaryOp = None THEN {} ELSE {s.binaryOp.right})

\* At most one of dividedBy, binaryOp and mathExpression.
OneOperation(s) ==
    Cardinality({f \in {"dividedBy", "binaryOp", "mathExpression"} : s[f] # None}) <= 1

GoodAggregation(a) ==
    \/ a = None
    \/ /\ a.overTime = (a.interval # None)
       /\ a.by = None \/ a.without = None
       /\ a.by # <<>> /\ a.without # <<>>

GoodMatching(b) ==
    \/ b = None
    \/ /\ b.groupLeft = None \/ b.groupRight = None
       /\ (b.groupLeft # None \/ b.groupRight # None) => b.on # None
       /\ b.on # <<>>

\* A function is written with its parentheses, a rate with its interval.
GoodFunctions(functions) ==
    \A k \in DOMAIN functions : functions[k] \notin {"avg", "rate()"}

\* A label is [key, not, value]: key! with not, and a value that is plain or
\* begins with ~ or !~.  A reserved key is refused as it is, but not with its !.
Reserved == {"__name__"}
GoodLabels(labels) ==
    \A k \in DOMAIN labels : labels[k].key \in {""} \cup Reserved => labels[k].not

GoodMetric(s) == s.metric # ""

RECURSIVE Accepted(_)
Accepted(s) ==
    /\ GoodMetric(s)
    /\ GoodFunctions(s.functions)
    /\ GoodLabels(s.labels)
    /\ OneOperation(s)
    /\ GoodAggregation(s.aggregation)
    /\ GoodMatching(s.binaryOp)
    /\ \A r \in Rights(s) \ {None} : Accepted(r)

-----------------------------------------------------------------------------
(* PrometheusQueryBuilder                                                   *)

Atom(name) == [kind |-> "atom", name |-> name, matchers |-> <<>>]
Operator(sign) == [kind |-> "operator", sign |-> sign]
Call(func, text) == [kind |-> "call", func |-> func, text |-> text]
Group(text) == [kind |-> "group", text |-> text]
Clause(word, labels) == [kind |-> "clause", word |-> word, labels |-> labels]

If(part, tokens) == IF part = None THEN <<>> ELSE tokens
Clauses(word, labels) == If(labels, <<Clause(word, labels)>>)

\* addLabels: a key keeps its ! before ~ and !~.
Written(label) ==
    CASE label.value = "~" -> IF label.not THEN "!=~" ELSE "=~"
      [] label.value = "!~" -> IF label.not THEN "!!~" ELSE "!~"
      [] OTHER -> IF label.not THEN "!=" ELSE "="

AddLabels(metric, labels) ==
    [Atom(metric) EXCEPT !.matchers =
        [k \in DOMAIN labels |-> [label |-> labels[k].key, sign |-> Written(labels[k])]]]

\* A function with an interval needs a selector for its argument.
Ranged(func) == func \in {"rate()[1m]", "max_over_time"}

ApplyFunctions(text, functions) ==
    FoldLeft(LAMBDA inner, func : <<Call(func, inner)>>, text, functions)


ApplyAggregation(text, a) ==
    IF a = None THEN text
    ELSE <<Call(IF a.overTime THEN "max_over_time" ELSE "sum", text)>>
         \o Clauses("by", a.by) \o Clauses("without", a.without)

ApplyFilter(text, filter) ==
    text \o If(filter, <<Operator("<"), Atom("+Inf")>>)

\* Mutant of ApplyMathExpression: without the parentheses.
ApplyMathBare(text, math) ==
    IF math = None THEN text ELSE text \o <<Operator("*"), Atom(math)>>

ApplyMathExpression(text, math) ==
    IF math = None THEN text ELSE <<Group(text), Operator("*"), Atom(math)>>

\* buildQuery.  The right side is built in the same way and written as it is.
RECURSIVE Build(_)
ApplyDivision(text, right) ==
    text \o If(right, <<Operator("/")>> \o Build(right))
ApplyBinaryOperation(text, b) ==
    IF b = None THEN text
    ELSE text \o <<Operator(b.sign)>> \o Clauses("on", b.on)
         \o Clauses("group_left", b.groupLeft) \o Clauses("group_right", b.groupRight)
         \o Build(b.right)
Build(s) ==
    LET base == ApplyFunctions(<<AddLabels(s.metric, s.labels)>>, s.functions)
        aggregated == ApplyAggregation(base, s.aggregation)
        divided == ApplyDivision(aggregated, s.dividedBy)
        combined == ApplyBinaryOperation(divided, s.binaryOp)
    IN  ApplyMathExpression(ApplyFilter(combined, s.filter), s.mathExpression)

BuildQuery ==
    /\ outcome = "asked"
    /\ outcome' = IF Accepted(spec) THEN "built" ELSE "refused"
    /\ query' = IF Accepted(spec) THEN Build(spec) ELSE <<>>
    /\ UNCHANGED spec

Init == spec \in Specs /\ outcome = "asked" /\ query = <<>>
Next == BuildQuery
Spec == Init /\ [][Next]_vars

-----------------------------------------------------------------------------
(* How Prometheus reads a text: comparisons bind loosest, then + and -, then *)
(* * and /; operators of one level group from the left.                      *)

Level(sign) == CASE sign = "<" -> 1 [] sign \in {"+", "-"} -> 2 [] OTHER -> 3

Signs(text) == {k \in DOMAIN text : text[k].kind = "operator"}

\* The operator that is carried out last.
Root(text) ==
    CHOOSE k \in Signs(text) : \A l \in Signs(text) :
        \/ Level(text[k].sign) < Level(text[l].sign)
        \/ Level(text[k].sign) = Level(text[l].sign) /\ l <= k

\* An operation or a function, how it groups and matches series, and what it is of.
Broken == [op |-> "syntax error", how |-> <<>>, of |-> <<>>]
Matched(op, how, of) == IF Broken \in ToSet(of) THEN Broken ELSE [op |-> op, how |-> how, of |-> of]
Tree(op, of) == Matched(op, <<>>, of)
Words(how) == [k \in DOMAIN how |-> how[k].word]

\* After an operator: on, and after it one of group_left and group_right.
Matchings == {<<>>, <<"on">>, <<"on", "group_left">>, <<"on", "group_right">>}

\* After an aggregation: by or without; after a function of a range, nothing.
Groupings == {<<>>, <<"by">>, <<"without">>}

\* A metric with a matcher for each label.
ReadMetric(name, matchers) ==
    IF \E k \in DOMAIN matchers :
          matchers[k].label = "" \/ matchers[k].sign \notin {"=", "!=", "=~", "!~"}
    THEN Broken
    ELSE Tree(name, [k \in DOMAIN matchers |->
                        Tree(matchers[k].sign, <<Tree(matchers[k].label, <<>>)>>)])

RECURSIVE Read(_)
Read(text) ==
    IF Signs(text) # {}
    THEN LET k == Root(text)
             right == SubSeq(text, k + 1, Len(text))
             n == Cardinality({j \in DOMAIN right :
                                  \A i \in 1 .. j : right[i].kind = "clause"})
             how == SubSeq(right, 1, n)
         IN  IF Words(how) \notin Matchings THEN Broken
             ELSE Matched(text[k].sign, how, <<Read(SubSeq(text, 1, k - 1)),
                                               Read(SubSeq(right, n + 1, Len(right)))>>)
    ELSE LET first == text[1]
             how == Tail(text) IN
         CASE first.kind = "atom" -> ReadMetric(first.name, first.matchers)
           [] first.kind = "group" -> Read(first.text)
           [] first.kind = "call" ->
                IF \/ Words(how) \notin Groupings
                   \/ Ranged(first.func) /\ (how # <<>> \/ first.text[1].kind # "atom")
                THEN Broken ELSE Matched(first.func, how, <<Read(first.text)>>)

\* A label excludes what its value says, or keeps to it.
MeaningOfLabel(label) ==
    Tree(CASE label.value = "~" -> "=~"
           [] label.value = "!~" -> "!~"
           [] label.not -> "!="
           [] OTHER -> "=",
         <<Tree(label.key, <<>>)>>)

\* What a BinaryOperation matches its sides on.
MeaningOfMatching(b) ==
    Clauses("on", b.on) \o (IF b.groupLeft # None THEN Clauses("group_left", b.groupLeft)
                            ELSE Clauses("group_right", b.groupRight))

\* What a QuerySpec says: its parts are applied one after another, and the
\* right side of an operation is a query of its own.
RECURSIVE Meaning(_)
Meaning(s) ==
    LET base == FoldLeft(LAMBDA t, func : Tree(func, <<t>>),
                         Tree(s.metric, [k \in DOMAIN s.labels |-> MeaningOfLabel(s.labels[k])]),
                         s.functions)
        aggregated == IF s.aggregation = None THEN base
                      ELSE Matched(IF s.aggregation.overTime THEN "max_over_time" ELSE "sum",
                                   Clauses("by", s.aggregation.by)
                                       \o Clauses("without", s.aggregation.without), <<base>>)
        divided == IF s.dividedBy = None THEN aggregated
                   ELSE Tree("/", <<aggregated, Meaning(s.dividedBy)>>)
        combined == IF s.binaryOp = None THEN divided
                    ELSE Matched(s.binaryOp.sign, MeaningOfMatching(s.binaryOp),
                                 <<divided, Meaning(s.binaryOp.right)>>)
        filtered == IF s.filter = None THEN combined
                    ELSE Tree("<", <<combined, Tree("+Inf", <<>>)>>)
    IN  IF s.mathExpression = None THEN filtered
        ELSE Tree("*", <<filtered, Tree(s.mathExpression, <<>>)>>)

-----------------------------------------------------------------------------
(* The specs the service asks for.                                          *)

Metric(m, functions) ==
    [metric |-> m, labels |-> <<>>, functions |-> functions, aggregation |-> None,
     dividedBy |-> None, binaryOp |-> None, filter |-> None, mathExpression |-> None]

\* MongodbMetricsConfig: rates, averages and plain gauges.
\* The exporter's own container is left out by a negated label.
Label(key, not, value) == [key |-> key, not |-> not, value |-> value]
MetricSpecs ==
    {[Metric("m", f) EXCEPT !.labels = l] :
        f \in {<<>>, <<"rate()[1m]">>, <<"avg()">>},
        l \in {<<Label("service_name", FALSE, "plain")>>,
               <<Label("namespace", FALSE, "plain"), Label("metric_source", TRUE, "plain")>>}}

\* MongodbQueryInsightsConfig: rates, quotients of two rates without those that
\* are infinite, and the rate of each slow query joined with what is known of it.
OfProfiler(m) ==
    [Metric(m, <<"rate()[1m]">>) EXCEPT
        !.labels = <<Label("job", FALSE, "~"), Label("service_name", FALSE, "~")>>]
InsightSpecs ==
    {OfProfiler("m"),
     [OfProfiler("m") EXCEPT !.dividedBy = OfProfiler("n"), !.filter = "< +Inf"],
     [OfProfiler("m") EXCEPT
        !.aggregation = [overTime |-> FALSE, interval |-> None,
                         by |-> <<"query_hash", "ns">>, without |-> None],
        !.binaryOp = [sign |-> "*", on |-> <<"query_hash", "ns">>,
                      groupLeft |-> <<"op">>, groupRight |-> None,
                      right |-> [Metric("info", <<>>) EXCEPT
                                    !.labels = <<Label("service_name", FALSE, "~")>>,
                                    !.aggregation = [overTime |-> TRUE, interval |-> "1m",
                                                     by |-> None, without |-> None]]]]}

Shipped == MetricSpecs \cup InsightSpecs

-----------------------------------------------------------------------------
\* A query that is one operand: no operation, filter or expression of its own.
IsOperand(s) == Rights(s) = {None} /\ s.filter = None /\ s.mathExpression = None

\* An interval is asked for the metric itself only, and what is taken over time is
\* not grouped: the validator asks for neither, and Prometheus refuses the rest.
RangesMetrics(s) ==
    /\ \A k \in DOMAIN s.functions : Ranged(s.functions[k]) => k = 1
    /\ s.aggregation # None /\ s.aggregation.overTime =>
          s.functions = <<>> /\ s.aggregation.by = None /\ s.aggregation.without = None

TypeOK ==
    /\ outcome \in {"asked", "refused", "built"}
    /\ (outcome = "built") = (query # <<>>)
    /\ \A k \in DOMAIN query : query[k].kind \in {"atom", "call", "group", "operator", "clause"}

\* A negation has one of its two places, and a key.
NegatedOnce(s) ==
    \A k \in DOMAIN s.labels :
        s.labels[k].not => s.labels[k].value = "plain" /\ s.labels[k].key # ""

\* What the validator lets through computes what the spec says, grouped by and
\* matched on the labels it names, as long as the spec asks for ranges of metrics,
\* negates labels in one way and has one operand on the right of an operation.
QueriesMeanTheirSpec ==
    (/\ outcome = "built"
     /\ RangesMetrics(spec) /\ NegatedOnce(spec)
     /\ \A r \in Rights(spec) \ {None} : IsOperand(r) /\ RangesMetrics(r))
    => Read(query) = Meaning(spec)

\* Every query the service asks for is accepted and computes what it says.
ShippedQueriesAreSound ==
    spec \in Shipped /\ outcome # "asked" => query # <<>> /\ Read(query) = Meaning(spec)

=============================================================================
