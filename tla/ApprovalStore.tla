---------------------------- MODULE ApprovalStore ----------------------------
(***************************************************************************)
(* The approvals database: tables `approvals' and `grants'.  A request     *)
(* binds one action (command, repository state, environment) to its        *)
(* requester for a limited time; reviewers grant it; the execution         *)
(* consumes it.  Each operation is one SQLite transaction, hence one step. *)
(***************************************************************************)
EXTENDS Integers, FiniteSets

CONSTANTS
    Ids,            \* approval ids (uuid4, so never issued twice)
    Users,          \* OIDC subjects
    Commands,       \* argument vectors
    Trees,          \* repository states action_binding can tell apart
    Environments,
    Production,     \* access.production_environments
    CanReview,      \* <<user, environment>> pairs a rule grants `review'
    CanExecute,     \* <<user, environment>> pairs a rule grants `execute'
    Ttl,            \* access.approval_ttl_seconds
    MaxTime         \* bound on the modelled clock

ASSUME ApprovalAssumption ==
    /\ Production \subseteq Environments
    /\ CanReview \subseteq Users \X Environments
    /\ CanExecute \subseteq Users \X Environments
    /\ Ttl \in Nat \ {0}
    /\ MaxTime \in Nat

VARIABLES
    approvals,   \* [Ids -> approval row, or None]
    grants,      \* [Ids -> the reviewers who granted it]
    clock        \* time.time()

storeVars == <<approvals, grants, clock>>

\* action_binding: a digest of everything below, equal iff all of it is equal.
Binding == [command : Commands, tree : Trees, environment : Environments]

Approval == [requester : Users, binding : Binding, expires : Nat,
             required : {1, 2}, consumed : BOOLEAN]

None == [requester |-> "none"]

Exists(id) == approvals[id] # None

Live(id) == /\ Exists(id)
            /\ approvals[id].expires > clock
            /\ ~approvals[id].consumed

StoreInit ==
    /\ approvals = [id \in Ids |-> None]
    /\ grants = [id \in Ids |-> {}]
    /\ clock = 0

Required(environment) == IF environment \in Production THEN 2 ELSE 1

Request(id, user, binding) ==
    /\ ~Exists(id)
    /\ <<user, binding.environment>> \in CanExecute
    /\ approvals' = [approvals EXCEPT ![id] =
          [requester |-> user, binding |-> binding, expires |-> clock + Ttl,
           required |-> Required(binding.environment), consumed |-> FALSE]]
    /\ UNCHANGED <<grants, clock>>

\* Mutant: the requester may review as well.
GrantableBySelf(id, user) ==
    /\ Live(id)
    /\ <<user, approvals[id].binding.environment>> \in CanReview
    /\ user \notin grants[id]

\* grant() raises AccessDenied unless this holds; the primary key of `grants'
\* refuses the second grant of a reviewer.
Grantable(id, user) ==
    /\ Live(id)
    /\ <<user, approvals[id].binding.environment>> \in CanReview
    /\ user # approvals[id].requester
    /\ user \notin grants[id]

Grant(id, user) ==
    /\ Grantable(id, user)
    /\ grants' = [grants EXCEPT ![id] = @ \cup {user}]
    /\ UNCHANGED <<approvals, clock>>

\* Mutant: a spent approval is accepted again.
ConsumableTwice(id, user, binding) ==
    /\ Exists(id)
    /\ approvals[id].requester = user
    /\ approvals[id].binding = binding
    /\ approvals[id].expires > clock
    /\ Cardinality(grants[id]) >= approvals[id].required

\* consume() raises AccessDenied unless this holds.
Consumable(id, user, binding) ==
    /\ Live(id)
    /\ approvals[id].requester = user
    /\ approvals[id].binding = binding
    /\ Cardinality(grants[id]) >= approvals[id].required

Consume(id, user, binding) ==
    /\ Consumable(id, user, binding)
    /\ approvals' = [approvals EXCEPT ![id].consumed = TRUE]
    /\ UNCHANGED <<grants, clock>>

ClockTick ==
    /\ clock < MaxTime
    /\ clock' = clock + 1
    /\ UNCHANGED <<approvals, grants>>

-----------------------------------------------------------------------------

StoreTypeOK ==
    /\ approvals \in [Ids -> Approval \cup {None}]
    /\ grants \in [Ids -> SUBSET Users]
    /\ clock \in Nat

(* Separation of duties: whatever requests, grants and executions raced,   *)
(* an approval was spent only after enough distinct, entitled reviewers    *)
(* granted it, two of them in production, and never its requester          *)
(* (ApprovalStore.grant, consume).                                         *)
SpentOnlyWhenReviewed ==
    \A id \in Ids :
        Exists(id) =>
            /\ \A u \in grants[id] : <<u, approvals[id].binding.environment>> \in CanReview
            /\ approvals[id].requester \notin grants[id]
            /\ approvals[id].consumed =>
                  /\ grants[id] # {}
                  /\ approvals[id].binding.environment \in Production =>
                        \E u, v \in grants[id] : u # v
=============================================================================
