--------------------------- MODULE SemanticSamples --------------------------
(***************************************************************************)
(* aggregate_semantic_samples of evaluator.py: several samples of the      *)
(* semantic evaluation become one.  Probabilities are whole percents and   *)
(* risk scores hundredths; a mean is rounded down.                         *)
(***************************************************************************)
EXTENDS Integers, Sequences, FiniteSetsExt, SequencesExt

CONSTANTS NoScore, NoConfidence

Indices(samples) == 1 .. Len(samples)

Aggregate(values, method) ==
    LET sorted == SortSeq(values, <)
        n == Len(values)
    IN  CASE method = "max"    -> Max(ToSet(values))
          [] method = "mean"   -> FoldSeq(+, 0, values) \div n
          [] method = "median" ->
                (sorted[(n + 1) \div 2] + sorted[(n + 2) \div 2]) \div 2

Level(choice) == IF choice = "low" THEN 0 ELSE IF choice = "medium" THEN 1 ELSE 2

\* Without scores the commonest class; of equally common ones the mildest.
Commonest(choices) ==
    LET count(c) == Cardinality({i \in DOMAIN choices : choices[i] = c})
    IN  CHOOSE c \in ToSet(choices) :
            \A d \in ToSet(choices) :
                count(d) < count(c) \/ (count(d) = count(c) /\ Level(c) <= Level(d))

AggregateSamples(samples, method) ==
    LET scored == SelectSeq(samples, LAMBDA s : s.score # NoScore)
        sure == {samples[i].confidence : i \in Indices(samples)} \ {NoConfidence}
        names == UNION {DOMAIN samples[i].signals : i \in Indices(samples)}
        value(s, n) == IF n \in DOMAIN s.signals THEN s.signals[n] ELSE 0
        score == Aggregate([i \in DOMAIN scored |-> scored[i].score], method)
    IN  [signals |-> [n \in names |->
            Aggregate([i \in Indices(samples) |-> value(samples[i], n)], method)],
         risk |-> IF scored = <<>>
                  THEN Commonest([i \in Indices(samples) |-> samples[i].risk])
                  ELSE IF score < 67 THEN "low" ELSE IF score < 134 THEN "medium" ELSE "high",
         confidence |-> IF sure = {} THEN NoConfidence ELSE Min(sure),
         degraded |-> \E i \in Indices(samples) : samples[i].degraded]
=============================================================================
