--------------------------- MODULE MCPolicyReload ---------------------------
EXTENDS PolicyReload, TLC

Base == [mode |-> "enforce", strong |-> 90, review |-> 70, hold_on |-> {"wrong_repo"},
         review_on |-> {}, conservative |-> FALSE, margin |-> 0, allow_hold_override |-> TRUE]

\* The second central policy reviews everything, conservatively near a threshold.
MCCentrals == {Base, [Base EXCEPT !.mode = "advisory", !.conservative = TRUE, !.margin = 5]}

\* One override stays within LocalOnlyTightens, one lowers the review threshold.
MCLocals == {[Base EXCEPT !.strong = 80, !.hold_on = {"tests"}],
             [Base EXCEPT !.review = 50, !.allow_hold_override = FALSE]}

Clean == [findings |-> {}, signals |-> <<>>, risk |-> "low", confidence |-> NoConfidence,
          degraded |-> FALSE]

MCInputs ==
    {[Clean EXCEPT !.signals = (n :> p), !.confidence = k] :
        n \in {"wrong_repo_semantic", "tests"}, p \in {0, 60, 78, 85, 93, 97}, k \in {NoConfidence, 60}}
    \cup {[Clean EXCEPT !.findings = {"notable"}], [Clean EXCEPT !.degraded = TRUE]}
=============================================================================
