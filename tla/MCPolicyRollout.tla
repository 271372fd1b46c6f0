--------------------------- MODULE MCPolicyRollout --------------------------
EXTENDS PolicyRollout, TLC

Base == [mode |-> "enforce", strong |-> 90, review |-> 70, hold_on |-> {"wrong_repo"},
         review_on |-> {}, conservative |-> FALSE, margin |-> 0, allow_hold_override |-> TRUE]
Looser == [Base EXCEPT !.review = 80]
Stricter == [Base EXCEPT !.strong = 75]
MCCandidates == {Base, Looser, Stricter}

Entry(p, k, base) ==
    LET e == [findings |-> {}, signals |-> ("tests" :> p), risk |-> "low", confidence |-> k,
              degraded |-> FALSE]
    IN  [input |-> e, forced |-> FALSE, version |-> Version(base), decision |-> Decide(e, base)]

MCRecorded == {Entry(72, NoConfidence, Base), Entry(72, NoConfidence, Stricter),
               Entry(82, NoConfidence, Looser), [Entry(10, 60, Base) EXCEPT !.forced = TRUE]}

MCBucket == "repoA" :> 5 @@ "repoB" :> 40
=============================================================================
