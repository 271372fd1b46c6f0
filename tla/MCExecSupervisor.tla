-------------------------- MODULE MCExecSupervisor --------------------------
(* Instances of ExecSupervisor for TLC: two `jrx exec' of the same action  *)
(* and, in the safety runs, a check of another one.                        *)
EXTENDS ExecSupervisor, TLC

CONSTANTS e1, e2, c1, actA, actB

MCActionOf == [r \in Runs |-> IF r = c1 THEN actB ELSE actA]
MCSamplesOf == [r \in Runs |-> IF r = c1 THEN 2 ELSE 1]
=============================================================================
