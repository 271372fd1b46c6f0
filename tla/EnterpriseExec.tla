--------------------------- MODULE EnterpriseExec ---------------------------
(***************************************************************************)
(* Execution with `access' configured: concurrent `jrx exec' runs and      *)
(* shell hooks evaluate an action, and an action that is not plainly       *)
(* allowed needs an approval.  The repository can be edited at any time,   *)
(* also between the steps of one run.                                      *)
(***************************************************************************)
EXTENDS ApprovalStore

CONSTANTS
    Execs,              \* `jrx exec' processes
    Hooks,              \* agent hook invocations for shell commands
    UserOf, CommandOf, EnvironmentOf,
    NoApproval,         \* no --approval-id / JRX_APPROVAL_ID given
    Mode,               \* config.mode
    AllowHoldOverride   \* config.policy.allow_hold_override

Runs == Execs \cup Hooks

ASSUME EnterpriseAssumption ==
    /\ Execs \cap Hooks = {}
    /\ UserOf \in [Runs -> Users]
    /\ CommandOf \in [Runs -> Commands]
    /\ EnvironmentOf \in [Runs -> Environments]
    /\ NoApproval \notin Ids
    /\ Mode \in {"advisory", "review", "enforce"}
    /\ AllowHoldOverride \in BOOLEAN

VARIABLES
    tree,       \* the state of the repository
    pc,
    approval,   \* the approval id each run was given
    bound,      \* the tree the run's own binding was computed from
    verdict     \* what evaluate_context returned

vars == <<storeVars, tree, pc, approval, bound, verdict>>

Verdict == [decision : {"ALLOW", "REVIEW", "HOLD"}, degraded : BOOLEAN]

Unjudged == [decision |-> "HOLD", degraded |-> TRUE]

BindingOf(r, t) ==
    [command |-> CommandOf[r], tree |-> t, environment |-> EnvironmentOf[r]]

Goto(r, label) == pc' = [pc EXCEPT ![r] = label]

Init ==
    /\ StoreInit
    /\ tree \in Trees
    /\ pc = [r \in Runs |-> "idle"]
    /\ approval = [r \in Runs |-> NoApproval]
    /\ bound = [r \in Runs |-> tree]
    /\ verdict = [r \in Runs |-> Unjudged]

-----------------------------------------------------------------------------

\* Identity, for `jrx exec' the first binding, and the execute permission.
Begin(r) ==
    /\ pc[r] = "idle"
    /\ \E a \in Ids \cup {NoApproval} : approval' = [approval EXCEPT ![r] = a]
    /\ bound' = [bound EXCEPT ![r] = tree]
    /\ Goto(r, IF <<UserOf[r], EnvironmentOf[r]>> \in CanExecute
               THEN "evaluate" ELSE "blocked")
    /\ UNCHANGED <<storeVars, tree, verdict>>

Evaluate(r) ==
    /\ pc[r] = "evaluate"
    /\ \E v \in Verdict : verdict' = [verdict EXCEPT ![r] = v]
    /\ Goto(r, "gate")
    /\ UNCHANGED <<storeVars, tree, approval, bound>>

Plain(v) == v.decision = "ALLOW" /\ ~v.degraded

\* Mutant: HOLD is treated like REVIEW.
VetoedHoldForgotten(r) ==
    verdict[r].degraded /\ Mode = "enforce"

\* Neither an approval nor a reviewer can lift these.
Vetoed(r) ==
    \/ verdict[r].degraded /\ Mode = "enforce"
    \/ verdict[r].degraded /\ Mode # "advisory" /\ r \in Execs
    \/ verdict[r].decision = "HOLD" /\ ~AllowHoldOverride

\* The gate of exec_action and _run_hook.  A denial by an agent control, or an
\* identity that expired or changed during the evaluation, blocks as well.
Gate(r) ==
    /\ pc[r] = "gate"
    /\ \/ Goto(r, "blocked")
       \/ /\ ~Vetoed(r)
          /\ IF Plain(verdict[r])
             THEN /\ approval[r] = NoApproval \/ r \in Hooks
                  /\ Goto(r, "launch")
             ELSE /\ approval[r] # NoApproval
                  /\ Goto(r, "rebind")
    /\ UNCHANGED <<storeVars, tree, approval, bound, verdict>>

\* Mutant: the repository is not compared with the one the evaluation started in.
RebindUnchecked(r) ==
    /\ pc[r] = "rebind"
    /\ bound' = [bound EXCEPT ![r] = tree]
    /\ Goto(r, "consume")
    /\ UNCHANGED <<storeVars, tree, approval, verdict>>

\* The binding is computed again; `jrx exec' insists that it did not change
\* during the evaluation, a hook takes it as it is now.
Rebind(r) ==
    /\ pc[r] = "rebind"
    /\ bound' = [bound EXCEPT ![r] = tree]
    /\ Goto(r, IF r \in Execs /\ tree # bound[r] THEN "blocked" ELSE "consume")
    /\ UNCHANGED <<storeVars, tree, approval, verdict>>

ConsumeApproval(r) ==
    /\ pc[r] = "consume"
    /\ \/ /\ Consume(approval[r], UserOf[r], BindingOf(r, bound[r]))
          /\ Goto(r, "launch")
       \/ /\ ~Consumable(approval[r], UserOf[r], BindingOf(r, bound[r]))
          /\ Goto(r, "blocked")
          /\ UNCHANGED storeVars
    /\ UNCHANGED <<tree, approval, bound, verdict>>

\* The command starts, or a hook answers `allow'.  Not every run gets there:
\* the session, the sandbox or a crash can still end it.
Launch(r) ==
    /\ pc[r] = "launch"
    /\ Goto(r, "launched")
    /\ UNCHANGED <<storeVars, tree, approval, bound, verdict>>

-----------------------------------------------------------------------------

\* approval_request and approval_grant.
RequestApproval(id, user) ==
    /\ \E c \in Commands, e \in Environments :
          Request(id, user, [command |-> c, tree |-> tree, environment |-> e])
    /\ UNCHANGED <<tree, pc, approval, bound, verdict>>

GrantApproval(id, user) ==
    /\ Grant(id, user)
    /\ UNCHANGED <<tree, pc, approval, bound, verdict>>

Edit ==
    /\ \E t \in Trees \ {tree} : tree' = t
    /\ UNCHANGED <<storeVars, pc, approval, bound, verdict>>

Time == ClockTick /\ UNCHANGED <<tree, pc, approval, bound, verdict>>

Next ==
    \/ \E r \in Runs : \/ Begin(r) \/ Evaluate(r) \/ Gate(r)
                       \/ Rebind(r) \/ ConsumeApproval(r) \/ Launch(r)
    \/ \E id \in Ids, u \in Users : RequestApproval(id, u) \/ GrantApproval(id, u)
    \/ Edit
    \/ Time

Spec == Init /\ [][Next]_vars

-----------------------------------------------------------------------------

TypeOK ==
    /\ StoreTypeOK
    /\ tree \in Trees
    /\ pc \in [Runs -> {"idle", "evaluate", "gate", "rebind", "consume",
                        "launch", "launched", "blocked"}]
    /\ approval \in [Runs -> Ids \cup {NoApproval}]
    /\ bound \in [Runs -> Trees]
    /\ verdict \in [Runs -> Verdict]

Cleared(r) == pc[r] \in {"launch", "launched"}

(* One approval, one action: two runs that race with the same approval id  *)
(* are never both let through on it, even if they are the same action of   *)
(* the same user (consume is one BEGIN IMMEDIATE transaction).             *)
OneActionPerApproval ==
    \A r, s \in Runs :
        /\ r # s
        /\ Cleared(r) /\ ~Plain(verdict[r])
        /\ Cleared(s) /\ ~Plain(verdict[s])
        => approval[r] # approval[s]

(* An action that is not plainly allowed goes through only on a spent      *)
(* approval that its own user requested for this very command,             *)
(* environment and repository state; a HOLD never does while overriding    *)
(* is disabled, and in enforce mode no degraded result does.               *)
RiskyNeedsItsApproval ==
    \A r \in Runs :
        Cleared(r) /\ ~Plain(verdict[r]) =>
            /\ Exists(approval[r])
            /\ approvals[approval[r]].consumed
            /\ approvals[approval[r]].requester = UserOf[r]
            /\ approvals[approval[r]].binding = BindingOf(r, bound[r])
            /\ verdict[r].decision = "HOLD" => AllowHoldOverride
            /\ verdict[r].degraded => Mode # "enforce"

(* `jrx exec' spends an approval only if the repository it found when it   *)
(* began is, after the evaluation, still the reviewed one: the tree of its *)
(* first binding never gives way to another (exec_action, "Repository      *)
(* state changed during evaluation").                                      *)
ExecKeepsItsTree ==
    [][\A r \in Execs :
         pc[r] \notin {"idle"} /\ pc'[r] \in {"consume", "launch", "launched"} =>
             bound'[r] = bound[r]]_vars
=============================================================================
