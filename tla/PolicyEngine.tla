---------------------------- MODULE PolicyEngine ----------------------------
(***************************************************************************)
(* The verdict of policy.py, and the merge of a central policy with a      *)
(* local one (policy_source.py), as operators on records.                  *)
(*                                                                         *)
(* Probabilities are whole percents.  A policy has the fields that decide; *)
(* an input has the deterministic findings by their effect, the semantic   *)
(* signals that are present, the risk class, its confidence (NoConfidence  *)
(* when the evaluator gave none) and whether the evaluation is degraded.   *)
(***************************************************************************)
EXTENDS Integers

CONSTANTS Signals,       \* names of semantic signals
          NoConfidence   \* risk_confidence is None

ASSUME PolicyAssumption == NoConfidence \notin Int

Percent == 0..100
Modes == {"advisory", "review", "enforce"}

\* ReflexConfig, the part that decides.
Policies ==
    [mode : Modes, strong : Percent, review : Percent,
     hold_on : SUBSET Signals, review_on : SUBSET Signals,
     conservative : BOOLEAN, margin : Percent, allow_hold_override : BOOLEAN]

\* What ThresholdConfig demands.
Valid(c) == c \in Policies /\ c.review < c.strong

IsEvaluation(e) ==
    /\ e.findings \subseteq {"blocking", "notable"}
    /\ e.signals \in [DOMAIN e.signals -> Percent] /\ DOMAIN e.signals \subseteq Signals
    /\ e.risk \in {"low", "medium", "high"}
    /\ e.confidence \in Percent \cup {NoConfidence}
    /\ e.degraded \in BOOLEAN

Names(n) == IF n = "wrong_repo" THEN {n, "wrong_repo_semantic"} ELSE {n}

Value(e, n) == IF n \in DOMAIN e.signals THEN e.signals[n] ELSE 0

\* In conservative mode a probability within the margin of a threshold decides nothing.
Near(c, p, threshold) ==
    /\ c.conservative
    /\ c.margin > 0
    /\ threshold - c.margin <= p
    /\ p <= threshold + c.margin

\* The probability of an aliased signal is the larger of the two; it exceeds
\* a bound exactly when one of them does.
SemanticHold(e, c) ==
    \E n \in c.hold_on : \E m \in Names(n) :
        Value(e, m) >= c.strong /\ ~Near(c, Value(e, m), c.strong)

SignalReview(e, c) ==
    \E n \in DOMAIN e.signals :
        \/ Near(c, e.signals[n], c.strong)
        \/ Near(c, e.signals[n], c.review)
        \/ c.review <= e.signals[n] /\ e.signals[n] < c.strong
        \/ e.signals[n] >= c.strong /\ (n \in c.review_on \/ n \notin c.hold_on)

NeedsReview(e, c) ==
    \/ "notable" \in e.findings
    \/ SignalReview(e, c)
    \/ e.risk # "low"
    \/ e.confidence # NoConfidence /\ e.confidence < c.review
    \/ Value(e, "human_review") >= c.strong
    \/ c.mode = "review"
    \/ e.degraded

Decide(e, c) ==
    IF "blocking" \in e.findings \/ SemanticHold(e, c) THEN "HOLD"
    ELSE IF NeedsReview(e, c) THEN "REVIEW" ELSE "ALLOW"

ExecutionAllowed(decision, mode, degraded) ==
    \/ mode = "advisory"
    \/ /\ ~degraded
       /\ IF mode = "review" THEN decision = "ALLOW" ELSE decision # "HOLD"

Runs(e, c) == ExecutionAllowed(Decide(e, c), c.mode, e.degraded)

-----------------------------------------------------------------------------
\* PolicyMerger: what the local policy may change of the central one.

Least(a, b) == IF a <= b THEN a ELSE b

Strictness(mode) == IF mode = "advisory" THEN 0 ELSE IF mode = "review" THEN 1 ELSE 2

\* Mutant: the local policy replaces the list of the central one.
MergeReplacing(central, local) ==
    [central EXCEPT !.hold_on = local.hold_on, !.strong = Least(@, local.strong),
                    !.review = Least(@, local.review)]

MergePolicies(central, local) ==
    [central EXCEPT
        !.hold_on = @ \cup local.hold_on,
        !.review_on = @ \cup local.review_on,
        !.strong = Least(@, local.strong),
        !.review = Least(@, local.review),
        !.mode = IF Strictness(local.mode) > Strictness(@) THEN local.mode ELSE @,
        !.allow_hold_override = @ /\ local.allow_hold_override]

Rank(decision) == IF decision = "HOLD" THEN 2 ELSE IF decision = "REVIEW" THEN 1 ELSE 0

\* Every evaluation in E is judged by c at least as strictly as by d, and runs
\* under c only when it runs under d.
AtLeastAsStrict(c, d, E) ==
    \A e \in E : Rank(Decide(e, c)) >= Rank(Decide(e, d)) /\ (Runs(e, c) => Runs(e, d))
=============================================================================
