-------------------------- MODULE PolicyActivation --------------------------
(***************************************************************************)
(* What RolloutStore promises: one activation state that changes only by   *)
(* whole steps, whatever happens to the processes that change it.          *)
(***************************************************************************)
EXTENDS Integers

CONSTANTS Candidates, None, Percents

VARIABLE activation

Fresh(policy) == [active |-> policy, candidate |-> None, previous |-> None, percent |-> 0]

\* The state that staging finds: none yet, or one whose active policy is the baseline.
Stage(baseline, candidate) ==
    /\ \/ activation = None
       \/ activation # None /\ activation.active = baseline
                            /\ activation.candidate = None /\ activation.percent = 0
    /\ activation' =
        [(IF activation = None THEN Fresh(baseline) ELSE activation) EXCEPT !.candidate = candidate]

Promote(percent) ==
    /\ activation # None /\ activation.candidate # None
    /\ percent >= activation.percent
    /\ activation' =
        IF percent = 100
        THEN [Fresh(activation.candidate) EXCEPT !.previous = activation.active]
        ELSE [activation EXCEPT !.percent = percent]

Rollback ==
    /\ activation # None
    /\ \/ /\ activation.candidate # None
          /\ activation' = [activation EXCEPT !.candidate = None, !.percent = 0]
       \/ /\ activation.candidate = None /\ activation.previous # None
          /\ activation' = [activation EXCEPT !.active = activation.previous, !.previous = None]

Init == activation = None

Next ==
    \/ \E b, c \in Candidates : Stage(b, c)
    \/ \E p \in Percents : Promote(p)
    \/ Rollback

Spec == Init /\ [][Next]_activation
=============================================================================
