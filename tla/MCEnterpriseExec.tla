-------------------------- MODULE MCEnterpriseExec --------------------------
(* Instances of EnterpriseExec for TLC: a developer, two reviewers, a user *)
(* with both roles; runs of the same action in production.                 *)
EXTENDS EnterpriseExec

CONSTANTS dev, rev, lead, both, prod, stage, cmd

MCCanReview == {rev, lead, both} \X Environments
MCCanExecute == {dev, both} \X Environments
MCUserOf == [r \in Runs |-> dev]
MCCommandOf == [r \in Runs |-> cmd]
MCEnvironmentOf == [r \in Runs |-> prod]
=============================================================================
