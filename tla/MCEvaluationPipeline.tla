------------------------ MODULE MCEvaluationPipeline ------------------------
EXTENDS EvaluationPipeline, TLC

CONSTANTS e1, e2, o1

MCConfig == [mode |-> "enforce", strong |-> 90, review |-> 70, hold_on |-> {"wrong_repo"},
             review_on |-> {}, conservative |-> FALSE, margin |-> 0, allow_hold_override |-> TRUE]

MCOverrideOf == o1 :> e1

\* Nothing is asked any more of a run that has ended.
MCView == <<vars, intentVars,
           [e \in Evals |-> IF stage[e] = "ended" THEN <<>>
                ELSE <<stage[e], verdict[e], degraded[e], mode[e], request[e], denied[e], fault[e], late[e]>>]>>

Sample(p, bad) == [signals |-> ("scope" :> p), risk |-> "low", confidence |-> 95, score |-> NoScore,
                   degraded |-> bad]
Plain == [findings |-> {}, redacted |-> TRUE, useJev |-> TRUE, outside |-> FALSE, creep |-> 6,
          samples |-> <<Sample(10, FALSE), Sample(0, FALSE)>>]

\* A clean action, one that is held, and one with a degraded sample.
MCRequests == e1 :> {Plain, [Plain EXCEPT !.findings = {"blocking"}]}
           @@ e2 :> {Plain, [Plain EXCEPT !.samples = <<Sample(95, FALSE), Sample(0, TRUE)>>, !.creep = 3]}
=============================================================================
