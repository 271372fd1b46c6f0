--------------------------- MODULE ApprovalProofs ---------------------------
(***************************************************************************)
(* Proofs about ApprovalStore and EnterpriseExec, for any users, rules,    *)
(* processes, approvals and repository states.                             *)
(***************************************************************************)
EXTENDS EnterpriseExec, FiniteSetTheorems, TLAPS

(* Two reviewers are two different people.                                 *)
LEMMA TwoOfThem ==
    ASSUME NEW S, IsFiniteSet(S), Cardinality(S) >= 2
    PROVE  \E u, v \in S : u # v
  <1> SUFFICES ASSUME \A u, v \in S : u = v PROVE FALSE
    OBVIOUS
  <1>1. S # {}
    BY FS_EmptySet
  <1>2. PICK u : u \in S
    BY <1>1
  <1>3. S = {u}
    BY <1>2
  <1>4. Cardinality(S) = 1
    BY <1>3, FS_Singleton
  <1> QED BY <1>4

(* A row of the table is not the absence of one.                           *)
LEMMA RowIsNotNone == \A a \in Approval : a # None
  <1> SUFFICES ASSUME NEW a \in Approval, a = None PROVE FALSE
    OBVIOUS
  <1>1. "consumed" \in DOMAIN a
    BY DEF Approval
  <1>2. DOMAIN None = {"requester"}
    BY DEF None
  <1> QED BY <1>1, <1>2

\* SpentOnlyWhenReviewed with what makes it inductive: the stored number of
\* required grants is the one the environment calls for, and a spent approval
\* had that many.
ReviewInv ==
    \A id \in Ids :
        /\ IsFiniteSet(grants[id])
        /\ Exists(id) =>
              /\ \A u \in grants[id] : <<u, approvals[id].binding.environment>> \in CanReview
              /\ approvals[id].requester \notin grants[id]
              /\ approvals[id].required = Required(approvals[id].binding.environment)
              /\ approvals[id].consumed =>
                    Cardinality(grants[id]) >= approvals[id].required
        /\ ~Exists(id) => grants[id] = {}

StoreInv == StoreTypeOK /\ ReviewInv

(* The inductive invariant of the store implies separation of duties.      *)
LEMMA ReviewedMeansReviewers == StoreInv => SpentOnlyWhenReviewed
  <1> SUFFICES ASSUME StoreInv, NEW id \in Ids, Exists(id)
               PROVE  /\ \A u \in grants[id] :
                            <<u, approvals[id].binding.environment>> \in CanReview
                      /\ approvals[id].requester \notin grants[id]
                      /\ approvals[id].consumed =>
                            /\ grants[id] # {}
                            /\ approvals[id].binding.environment \in Production =>
                                  \E u, v \in grants[id] : u # v
    BY DEF SpentOnlyWhenReviewed
  <1>1. ASSUME approvals[id].consumed
        PROVE  /\ grants[id] # {}
               /\ approvals[id].binding.environment \in Production =>
                     \E u, v \in grants[id] : u # v
    <2>1. /\ IsFiniteSet(grants[id])
          /\ Cardinality(grants[id]) >= Required(approvals[id].binding.environment)
      BY <1>1 DEF StoreInv, ReviewInv
    <2>2. grants[id] # {}
      BY <2>1, FS_EmptySet DEF Required
    <2>3. ASSUME approvals[id].binding.environment \in Production
          PROVE  \E u, v \in grants[id] : u # v
      BY <2>1, <2>3, TwoOfThem DEF Required
    <2> QED BY <2>2, <2>3
  <1> QED BY <1>1 DEF StoreInv, ReviewInv

(* An empty approvals database satisfies the store invariant.              *)
LEMMA StoreInitInv == StoreInit => StoreInv
  BY FS_EmptySet DEF StoreInit, StoreInv, StoreTypeOK, ReviewInv, Exists

(* A request keeps the store invariant (ApprovalStore.request).            *)
LEMMA RequestInv ==
    ASSUME StoreInv, NEW id \in Ids, NEW user \in Users, NEW b \in Binding,
           Request(id, user, b)
    PROVE  /\ StoreInv'
           /\ \A other \in Ids : Exists(other) => approvals'[other] = approvals[other]
  <1> DEFINE new == [requester |-> user, binding |-> b, expires |-> clock + Ttl,
                     required |-> Required(b.environment), consumed |-> FALSE]
  <1>1. new \in Approval
    BY ApprovalAssumption DEF StoreInv, StoreTypeOK, Approval, Required
  <1>2. new # None
    BY <1>1, RowIsNotNone
  <1>3. /\ approvals' = [approvals EXCEPT ![id] = new]
        /\ grants' = grants /\ clock' = clock /\ ~Exists(id)
    BY DEF Request
  <1>4. new.requester = user /\ new.binding = b /\ ~new.consumed
        /\ new.required = Required(new.binding.environment)
    OBVIOUS
  <1> HIDE DEF new
  <1>5. grants[id] = {}
    BY <1>3 DEF StoreInv, ReviewInv
  <1>6. StoreTypeOK'
    BY <1>1, <1>3 DEF StoreInv, StoreTypeOK
  <1>7. ReviewInv'
    BY <1>1, <1>2, <1>3, <1>4, <1>5 DEF StoreInv, StoreTypeOK, ReviewInv, Exists
  <1> QED BY <1>3, <1>6, <1>7 DEF StoreInv, StoreTypeOK, Exists

(* A grant keeps the store invariant (ApprovalStore.grant).                *)
LEMMA GrantInv ==
    ASSUME StoreInv, NEW id \in Ids, NEW user \in Users, Grant(id, user)
    PROVE  StoreInv'
  <1>1. /\ grants' = [grants EXCEPT ![id] = grants[id] \cup {user}]
        /\ approvals' = approvals /\ clock' = clock
        /\ Exists(id) /\ ~approvals[id].consumed
        /\ <<user, approvals[id].binding.environment>> \in CanReview
        /\ user # approvals[id].requester
    BY DEF Grant, Grantable, Live
  <1>2. IsFiniteSet(grants[id] \cup {user})
    BY FS_AddElement DEF StoreInv, ReviewInv
  <1>3. StoreTypeOK'
    BY <1>1 DEF StoreInv, StoreTypeOK
  <1>4. ReviewInv'
    BY <1>1, <1>2 DEF StoreInv, StoreTypeOK, ReviewInv, Exists
  <1> QED BY <1>3, <1>4 DEF StoreInv

(* Spending an approval keeps the store invariant (ApprovalStore.consume). *)
LEMMA ConsumeInv ==
    ASSUME StoreInv, NEW id \in Ids, NEW user, NEW b, Consume(id, user, b)
    PROVE  /\ StoreInv'
           /\ Exists(id) /\ ~approvals[id].consumed
           /\ approvals'[id].consumed
           /\ approvals[id].requester = user /\ approvals[id].binding = b
           /\ \A other \in Ids :
                 /\ Exists(other) => Exists(other)'
                 /\ approvals'[other].requester = approvals[other].requester
                 /\ Exists(other) => approvals'[other].binding = approvals[other].binding
                 /\ other # id => approvals'[other] = approvals[other]
  <1> DEFINE new == [approvals[id] EXCEPT !.consumed = TRUE]
  <1>1. /\ approvals' = [approvals EXCEPT ![id] = new]
        /\ grants' = grants /\ clock' = clock
        /\ Exists(id) /\ ~approvals[id].consumed
        /\ approvals[id].requester = user /\ approvals[id].binding = b
        /\ Cardinality(grants[id]) >= approvals[id].required
    BY DEF Consume, Consumable, Live
  <1>2. approvals[id] \in Approval
    BY <1>1 DEF StoreInv, StoreTypeOK, Exists
  <1>3. /\ new \in Approval
        /\ new.consumed /\ new.requester = approvals[id].requester
        /\ new.binding = approvals[id].binding /\ new.required = approvals[id].required
    BY <1>2 DEF Approval
  <1>4. new # None
    BY <1>3, RowIsNotNone
  <1> HIDE DEF new
  <1>5. StoreTypeOK'
    BY <1>1, <1>3 DEF StoreInv, StoreTypeOK
  <1>6. ReviewInv'
    BY <1>1, <1>3, <1>4 DEF StoreInv, StoreTypeOK, ReviewInv, Exists
  <1> QED
    BY <1>1, <1>3, <1>4, <1>5, <1>6 DEF StoreInv, StoreTypeOK, Exists

-----------------------------------------------------------------------------
(* The runs.                                                               *)

\* Between the gate and the launch a risky run carries an approval id and a
\* verdict that approvals can lift; after it, a spent approval of its own.
RunInv ==
    \A r \in Runs :
        /\ pc[r] \in {"rebind", "consume"} =>
              ~Plain(verdict[r]) /\ ~Vetoed(r) /\ approval[r] \in Ids
        /\ Cleared(r) /\ ~Plain(verdict[r]) =>
              /\ ~Vetoed(r) /\ approval[r] \in Ids
              /\ Exists(approval[r])
              /\ approvals[approval[r]].consumed
              /\ approvals[approval[r]].requester = UserOf[r]
              /\ approvals[approval[r]].binding = BindingOf(r, bound[r])

Inv == StoreInv /\ TypeOK /\ RunInv /\ OneActionPerApproval

(* Steps of a run that leave the database alone and clear nobody.          *)
LEMMA QuietStep ==
    ASSUME Inv, TypeOK', UNCHANGED storeVars, NEW r \in Runs,
           \A s \in Runs : s # r => /\ pc'[s] = pc[s] /\ approval'[s] = approval[s]
                                    /\ bound'[s] = bound[s] /\ verdict'[s] = verdict[s],
           ~Cleared(r)' \/ Plain(verdict[r])',
           pc'[r] \in {"rebind", "consume"} =>
              (~Plain(verdict[r]) /\ ~Vetoed(r) /\ approval[r] \in Ids)'
    PROVE  Inv'
  <1>1. StoreInv'
    BY DEF Inv, StoreInv, StoreTypeOK, ReviewInv, storeVars, Exists
  <1>2. RunInv'
    BY DEF Inv, RunInv, Cleared, Vetoed, Plain, Exists, storeVars, BindingOf
  <1>3. OneActionPerApproval'
    BY DEF Inv, OneActionPerApproval, Cleared, Plain
  <1> QED BY <1>1, <1>2, <1>3 DEF Inv

(* Steps that only the store takes: it may add rows and grants, and keeps  *)
(* the rows that are there.                                                *)
LEMMA StoreStep ==
    ASSUME Inv, StoreInv', TypeOK', UNCHANGED <<pc, approval, bound, verdict>>,
           \A id \in Ids : Exists(id) => Exists(id)' /\ approvals'[id] = approvals[id]
    PROVE  Inv'
  <1>1. RunInv'
    BY DEF Inv, RunInv, Cleared, Vetoed, Plain, BindingOf
  <1>2. OneActionPerApproval'
    BY DEF Inv, OneActionPerApproval, Cleared, Plain
  <1> QED BY <1>1, <1>2 DEF Inv

(* The run that spends an approval is the only one cleared by it (consume). *)
LEMMA ConsumeStep ==
    ASSUME Inv, TypeOK', NEW r \in Runs, ConsumeApproval(r)
    PROVE  Inv'
  <1> DEFINE id == approval[r]
  <1>1. pc[r] = "consume" /\ UNCHANGED <<tree, approval, bound, verdict>>
    BY DEF ConsumeApproval
  <1>2. id \in Ids /\ ~Plain(verdict[r]) /\ ~Vetoed(r)
    BY <1>1 DEF Inv, RunInv
  <1>3. CASE Consume(id, UserOf[r], BindingOf(r, bound[r])) /\ Goto(r, "launch")
    <2>1. /\ StoreInv'
          /\ Exists(id) /\ ~approvals[id].consumed
          /\ approvals'[id].consumed
          /\ approvals[id].requester = UserOf[r]
          /\ approvals[id].binding = BindingOf(r, bound[r])
          /\ \A other \in Ids :
                 /\ Exists(other) => Exists(other)'
                 /\ approvals'[other].requester = approvals[other].requester
                 /\ Exists(other) => approvals'[other].binding = approvals[other].binding
                 /\ other # id => approvals'[other] = approvals[other]
      BY <1>2, <1>3, ConsumeInv DEF Inv
    <2>2. /\ pc' = [pc EXCEPT ![r] = "launch"]
          /\ approval' = approval /\ bound' = bound /\ verdict' = verdict
      BY <1>1, <1>3 DEF Goto
    <2>3. ASSUME NEW s \in Runs, s # r, Cleared(s), ~Plain(verdict[s])
          PROVE  approval[s] # id
      BY <2>1, <2>3 DEF Inv, RunInv
    <2>4. RunInv'
      <3> SUFFICES ASSUME NEW s \in Runs
                   PROVE  /\ pc'[s] \in {"rebind", "consume"} =>
                               (~Plain(verdict[s]) /\ ~Vetoed(s) /\ approval[s] \in Ids)'
                          /\ (Cleared(s) /\ ~Plain(verdict[s]))' =>
                               /\ (~Vetoed(s) /\ approval[s] \in Ids)'
                               /\ Exists(approval[s])'
                               /\ approvals'[approval'[s]].consumed
                               /\ approvals'[approval'[s]].requester = UserOf[s]
                               /\ approvals'[approval'[s]].binding = BindingOf(s, bound[s])'
        BY DEF RunInv
      <3>1. CASE s = r
        BY <3>1, <1>2, <2>1, <2>2 DEF Inv, TypeOK, Cleared, Vetoed, Plain, BindingOf
      <3>2. CASE s # r
        <4>1. pc'[s] = pc[s] /\ approval'[s] = approval[s] /\ verdict'[s] = verdict[s]
              /\ bound'[s] = bound[s]
          BY <3>2, <2>2 DEF Inv, TypeOK
        <4>2. CASE Cleared(s) /\ ~Plain(verdict[s])
          BY <4>1, <4>2, <2>1, <2>3, <3>2 DEF Inv, RunInv, Cleared, Vetoed, Plain, BindingOf
        <4>3. CASE ~(Cleared(s) /\ ~Plain(verdict[s]))
          BY <4>1, <4>3 DEF Inv, RunInv, Cleared, Vetoed, Plain
        <4> QED BY <4>2, <4>3
      <3> QED BY <3>1, <3>2
    <2>5. OneActionPerApproval'
      BY <2>2, <2>3 DEF Inv, TypeOK, OneActionPerApproval, Cleared, Plain
    <2> QED BY <2>1, <2>4, <2>5 DEF Inv
  <1>4. CASE Goto(r, "blocked") /\ UNCHANGED storeVars
    <2>1. /\ pc' = [pc EXCEPT ![r] = "blocked"]
          /\ approval' = approval /\ bound' = bound /\ verdict' = verdict
      BY <1>1, <1>4 DEF Goto
    <2> QED BY <1>4, <2>1, QuietStep DEF Inv, TypeOK, Cleared
  <1> QED BY <1>3, <1>4 DEF ConsumeApproval

(* Every step keeps the types of the runs and of the repository.           *)
LEMMA TypeStep ==
    ASSUME Inv, [Next]_vars
    PROVE  TypeOK'
  <1> USE DEF Goto, TypeOK
  <1>1. ASSUME NEW r \in Runs, Begin(r) \/ Evaluate(r) \/ Gate(r) \/ Rebind(r) \/ Launch(r)
        PROVE  TypeOK'
    BY <1>1 DEF Inv, Begin, Evaluate, Gate, Rebind, Launch, storeVars, StoreTypeOK
  <1>2. ASSUME NEW r \in Runs, ConsumeApproval(r)
        PROVE  TypeOK'
    <2>1. CASE Consume(approval[r], UserOf[r], BindingOf(r, bound[r])) /\ Goto(r, "launch")
      <3>1. approval[r] \in Ids
        BY <1>2 DEF Inv, RunInv, ConsumeApproval
      <3>2. StoreInv'
        BY <2>1, <3>1, ConsumeInv DEF Inv
      <3> QED BY <1>2, <2>1, <3>2 DEF Inv, ConsumeApproval, StoreInv
    <2>2. CASE Goto(r, "blocked") /\ UNCHANGED storeVars
      BY <1>2, <2>2 DEF Inv, ConsumeApproval, storeVars, StoreTypeOK
    <2> QED BY <1>2, <2>1, <2>2 DEF ConsumeApproval
  <1>3. ASSUME NEW id \in Ids, NEW u \in Users, RequestApproval(id, u)
        PROVE  TypeOK'
    <2>1. PICK b \in Binding : Request(id, u, b)
      BY <1>3 DEF RequestApproval, Binding, Inv
    <2>2. StoreInv'
      BY <2>1, RequestInv DEF Inv
    <2> QED BY <1>3, <2>2 DEF Inv, RequestApproval, StoreInv
  <1>4. ASSUME NEW id \in Ids, NEW u \in Users, GrantApproval(id, u)
        PROVE  TypeOK'
    <2>1. StoreInv'
      BY <1>4, GrantInv DEF Inv, GrantApproval
    <2> QED BY <1>4, <2>1 DEF Inv, GrantApproval, StoreInv
  <1>5. CASE Edit
    BY <1>5 DEF Inv, Edit, storeVars, StoreTypeOK
  <1>6. CASE Time
    BY <1>6 DEF Inv, Time, ClockTick, StoreTypeOK
  <1>7. CASE UNCHANGED vars
    BY <1>7 DEF Inv, vars, storeVars, StoreTypeOK
  <1> QED BY <1>1, <1>2, <1>3, <1>4, <1>5, <1>6, <1>7 DEF Next

(* Every step of the composed system keeps its invariant.                  *)
LEMMA InvStep ==
    ASSUME Inv, [Next]_vars
    PROVE  Inv'
  <1> USE DEF Goto
  <1>1. TypeOK'
    BY TypeStep
  <1>2. ASSUME NEW r \in Runs, Begin(r)
        PROVE  Inv'
    BY <1>1, <1>2, QuietStep DEF Inv, TypeOK, Begin, Cleared
  <1>3. ASSUME NEW r \in Runs, Evaluate(r)
        PROVE  Inv'
    BY <1>1, <1>3, QuietStep DEF Inv, TypeOK, Evaluate, Cleared
  <1>4. ASSUME NEW r \in Runs, Gate(r)
        PROVE  Inv'
    BY <1>1, <1>4, QuietStep DEF Inv, TypeOK, Gate, Cleared, Plain, Vetoed
  <1>5. ASSUME NEW r \in Runs, Rebind(r)
        PROVE  Inv'
    BY <1>1, <1>5, QuietStep DEF Inv, TypeOK, RunInv, Rebind, Cleared, Plain, Vetoed
  <1>6. ASSUME NEW r \in Runs, ConsumeApproval(r)
        PROVE  Inv'
    BY <1>1, <1>6, ConsumeStep
  <1>7. ASSUME NEW r \in Runs, Launch(r)
        PROVE  Inv'
    <2>1. /\ pc[r] = "launch" /\ pc' = [pc EXCEPT ![r] = "launched"]
          /\ UNCHANGED <<approvals, grants, clock, tree, approval, bound, verdict>>
      BY <1>7 DEF Launch, storeVars
    <2>2. \A s \in Runs : Cleared(s)' <=> Cleared(s)
      BY <2>1 DEF Inv, TypeOK, Cleared
    <2>3. RunInv'
      BY <2>1, <2>2 DEF Inv, TypeOK, RunInv, Vetoed, Plain, Exists, BindingOf
    <2>4. OneActionPerApproval'
      BY <2>1, <2>2 DEF Inv, OneActionPerApproval, Plain
    <2>5. StoreInv'
      BY <2>1 DEF Inv, StoreInv, StoreTypeOK, ReviewInv, Exists
    <2> QED BY <1>1, <2>3, <2>4, <2>5 DEF Inv
  <1>8. ASSUME NEW id \in Ids, NEW u \in Users, RequestApproval(id, u)
        PROVE  Inv'
    <2>1. PICK b \in Binding : Request(id, u, b)
      BY <1>8 DEF RequestApproval, Binding, Inv, TypeOK
    <2>2. /\ StoreInv'
          /\ \A other \in Ids : Exists(other) => approvals'[other] = approvals[other]
      BY <2>1, RequestInv DEF Inv
    <2> QED BY <1>1, <1>8, <2>2, StoreStep DEF RequestApproval, Exists
  <1>9. ASSUME NEW id \in Ids, NEW u \in Users, GrantApproval(id, u)
        PROVE  Inv'
    <2>1. StoreInv' /\ approvals' = approvals
      BY <1>9, GrantInv DEF Inv, GrantApproval, Grant
    <2> QED BY <1>1, <1>9, <2>1, StoreStep DEF GrantApproval, Exists
  <1>10. CASE Edit
    <2>1. StoreInv' /\ approvals' = approvals
      BY <1>10 DEF Edit, storeVars, Inv, StoreInv, StoreTypeOK, ReviewInv, Exists
    <2> QED BY <1>1, <1>10, <2>1, StoreStep DEF Edit, Exists
  <1>11. CASE Time
    <2>1. StoreInv' /\ approvals' = approvals
      BY <1>11 DEF Time, ClockTick, Inv, StoreInv, StoreTypeOK, ReviewInv, Exists
    <2> QED BY <1>1, <1>11, <2>1, StoreStep DEF Time, Exists
  <1>12. CASE UNCHANGED vars
    <2>1. StoreInv' /\ approvals' = approvals
      BY <1>12 DEF vars, storeVars, Inv, StoreInv, StoreTypeOK, ReviewInv, Exists
    <2> QED BY <1>1, <1>12, <2>1, StoreStep DEF vars, Exists
  <1> QED
    BY <1>2, <1>3, <1>4, <1>5, <1>6, <1>7, <1>8, <1>9, <1>10, <1>11, <1>12 DEF Next

(* The invariant of the composed system holds in every reachable state.    *)
LEMMA InvAlways == Spec => []Inv
  <1>1. Init => Inv
    <2> SUFFICES ASSUME Init PROVE Inv
      OBVIOUS
    <2>1. StoreInv
      BY StoreInitInv DEF Init
    <2>2. TypeOK
      BY <2>1 DEF Init, TypeOK, StoreInv, Verdict, Unjudged
    <2>3. RunInv /\ OneActionPerApproval
      BY DEF Init, RunInv, OneActionPerApproval, Cleared
    <2> QED BY <2>1, <2>2, <2>3 DEF Inv
  <1>2. Inv /\ [Next]_vars => Inv'
    BY InvStep
  <1> QED BY <1>1, <1>2, PTL DEF Spec

(* Every reachable state of enterprise execution is well typed.            *)
THEOREM EnterpriseTypes == Spec => []TypeOK
  <1>1. Inv => TypeOK
    BY DEF Inv
  <1> QED BY InvAlways, <1>1, PTL

(* Separation of duties for every set of users, rules and races            *)
(* (ApprovalStore.grant, consume).                                         *)
THEOREM SeparationOfDuties == Spec => []SpentOnlyWhenReviewed
  <1>1. Inv => SpentOnlyWhenReviewed
    BY ReviewedMeansReviewers DEF Inv
  <1> QED BY InvAlways, <1>1, PTL

(* An approval lets one action through, however many processes present it  *)
(* at once (ApprovalStore.consume).                                        *)
THEOREM ApprovalsAreSingleUse == Spec => []OneActionPerApproval
  <1>1. Inv => OneActionPerApproval
    BY DEF Inv
  <1> QED BY InvAlways, <1>1, PTL

(* No risky action goes through except on its own spent approval, and none *)
(* that approvals cannot lift (exec_action, _run_hook).                    *)
THEOREM RiskyActionsAreApproved == Spec => []RiskyNeedsItsApproval
  <1>1. Inv => RiskyNeedsItsApproval
    BY DEF Inv, RunInv, RiskyNeedsItsApproval, Vetoed
  <1> QED BY InvAlways, <1>1, PTL

(* A run of `jrx exec' goes on to spend an approval, and to the launch,    *)
(* with the repository state it was begun in, whatever is edited in the    *)
(* meantime and however many runs there are (exec_action).                 *)
THEOREM ExecsKeepTheirTree == Spec => ExecKeepsItsTree
  <1> DEFINE Kept == \A r \in Execs :
          pc[r] \notin {"idle"} /\ pc'[r] \in {"consume", "launch", "launched"} =>
              bound'[r] = bound[r]
  <1>1. ASSUME Inv, [Next]_vars
        PROVE  Kept
    <2> USE DEF Inv, TypeOK, Goto, Runs
    <2>1. ASSUME NEW r \in Runs, Begin(r)
          PROVE  Kept
      BY <1>1, <2>1 DEF Begin
    <2>2. ASSUME NEW r \in Runs, Rebind(r)
          PROVE  Kept
      <3>1. CASE r \in Execs /\ tree # bound[r]
        <4>1. pc' = [pc EXCEPT ![r] = "blocked"] /\ bound' = [bound EXCEPT ![r] = tree]
          BY <2>2, <3>1 DEF Rebind
        <4> QED BY <1>1, <4>1
      <3>2. CASE ~(r \in Execs /\ tree # bound[r])
        <4>1. bound' = [bound EXCEPT ![r] = tree]
          BY <2>2 DEF Rebind
        <4> QED BY <1>1, <3>2, <4>1
      <3> QED BY <3>1, <3>2
    <2>3. ASSUME UNCHANGED bound
          PROVE  Kept
      BY <2>3
    <2>4. ASSUME NEW r \in Runs, Evaluate(r) \/ Gate(r) \/ ConsumeApproval(r) \/ Launch(r)
          PROVE  UNCHANGED bound
      BY <2>4 DEF Evaluate, Gate, ConsumeApproval, Launch
    <2>5. CASE UNCHANGED vars \/ Edit \/ Time
      BY <2>3, <2>5 DEF vars, Edit, Time
    <2>6. ASSUME NEW id \in Ids, NEW u \in Users, RequestApproval(id, u) \/ GrantApproval(id, u)
          PROVE  UNCHANGED bound
      BY <2>6 DEF RequestApproval, GrantApproval
    <2> QED BY <1>1, <2>1, <2>2, <2>3, <2>4, <2>5, <2>6 DEF Next
  <1>2. Inv /\ [Next]_vars => [Kept]_vars
    BY <1>1
  <1> QED BY <1>2, InvAlways, PTL DEF Spec, ExecKeepsItsTree

=============================================================================
