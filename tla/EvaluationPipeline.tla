-------------------------- MODULE EvaluationPipeline ------------------------
(***************************************************************************)
(* One run of `jrx exec` from evaluate_context to the launch, for several  *)
(* runs of one session: the checks and the semantic samples, the policy,   *)
(* the agent controls (intent envelope, then authority lease), the audit   *)
(* log, the gate of exec_action with its human override, and the last look *)
(* at the controls before the launch.                                      *)
(*                                                                         *)
(* The session store and the authority store appear as what they answer,   *)
(* which may be a refusal at any time: ExecSupervisor and AuthorityLeases  *)
(* have their detail.                                                      *)
(***************************************************************************)
EXTENDS AuditLog, IntentStore, PolicyEngine, Functions

CONSTANTS Config,       \* the policy; its mode is chosen per run (--mode)
          RunModes,     \* the modes that are used
          Requests,     \* what each evaluation may meet, see IsRequest
          Method,       \* jev.aggregation
          NoScore,
          OverrideOf    \* the evaluation that an override is of; of the others none is confirmed

Semantic == INSTANCE SemanticSamples

IsRequest(r) ==
    /\ r.findings \subseteq {"blocking", "notable"}
    /\ r.redacted \in BOOLEAN /\ r.useJev \in BOOLEAN /\ r.outside \in BOOLEAN
    /\ r.creep \in Creeps
    /\ Len(r.samples) > 0

ASSUME PipelineAssumption ==
    /\ Valid(Config) /\ RunModes \subseteq Modes
    /\ \A e \in Evals : \A r \in Requests[e] : IsRequest(r)
    /\ Writers = Evals \cup Overrides /\ Evals \cap Overrides = {}
    /\ OverrideOf \in [Overrides -> Evals] /\ IsInjective(OverrideOf)

VARIABLES stage,      \* where the run of each evaluation stands
          verdict, degraded, mode,
          request,    \* what it evaluates
          denied,     \* findings of apply_controls
          fault,      \* what failed on the way (history)
          late        \* the intent was stopped before it began (history)

pipeVars == <<stage, verdict, degraded, mode, request, denied, fault, late>>
allVars == <<vars, intentVars, pipeVars>>

\* A run ends in its launch, or refused or killed before.
Final == {"launched", "ended"}

PipelineInit ==
    /\ Init /\ IntentInit
    /\ stage = [e \in Evals |-> "start"]
    /\ verdict = [e \in Evals |-> "none"] /\ degraded = [e \in Evals |-> FALSE]
    /\ mode \in [Evals -> RunModes]
    /\ request \in {f \in [Evals -> UNION Range(Requests)] : \A e \in Evals : f[e] \in Requests[e]}
    /\ denied = [e \in Evals |-> {}] /\ fault = [e \in Evals |-> {}]
    /\ late = [e \in Evals |-> FALSE]

To(e, from, to) == stage[e] = from /\ stage' = [stage EXCEPT ![e] = to]

\* A step that the session store ends if the session is stopped or over budget.
UnlessOver(e, from, to) == To(e, from, to) \/ To(e, from, "ended")

-----------------------------------------------------------------------------
\* evaluate_context.  A gateway that fails or answers nonsense is a degraded
\* sample; a failure of the redaction skips the samples.

SkippedSample == [signals |-> [n \in Signals |-> 0], risk |-> "low", confidence |-> NoConfidence,
                  score |-> NoScore, degraded |-> FALSE]

Outcome(r) ==
    IF ~r.redacted THEN [SkippedSample EXCEPT !.degraded = TRUE]
    ELSE IF ~r.useJev THEN SkippedSample
    ELSE Semantic!AggregateSamples(r.samples, Method)

Judged(e) ==
    LET o == Outcome(request[e])
        d == Decide([findings |-> request[e].findings, signals |-> o.signals, risk |-> o.risk,
                     confidence |-> o.confidence, degraded |-> o.degraded],
                    [Config EXCEPT !.mode = mode[e]])
        forced == ~request[e].redacted /\ d # "HOLD"
    IN  [decision |-> IF forced THEN "REVIEW" ELSE d, degraded |-> o.degraded]

Judge(e) ==
    /\ UnlessOver(e, "start", "judged")
    /\ verdict' = [verdict EXCEPT ![e] = Judged(e).decision]
    /\ degraded' = [degraded EXCEPT ![e] = Judged(e).degraded]
    /\ fault' = [fault EXCEPT ![e] = IF Judged(e).degraded THEN {"evaluation"} ELSE {}]
    /\ late' = [late EXCEPT ![e] = envelope.stopped]
    /\ UNCHANGED <<vars, intentVars, mode, request, denied>>

\* apply_controls: first the intent ...
ControlIntent(e) ==
    /\ To(e, "judged", "intent")
    /\ \/ /\ ~EnvelopeRefuses
          /\ RecordAction(e, request[e].creep, request[e].outside)
          /\ denied' = [denied EXCEPT ![e] =
                IF Evidence(request[e].creep, request[e].outside) = {} THEN {} ELSE {"INTENT_DENIED"}]
       \/ /\ denied' = [denied EXCEPT ![e] = {"INTENT_DENIED"}]  \* it refuses, or the database fails
          /\ UNCHANGED intentVars
    /\ UNCHANGED <<vars, verdict, degraded, mode, request, fault, late>>

\* ... then the lease, and a denial by either holds the action.
ControlLease(e) ==
    /\ To(e, "intent", "controlled")
    /\ \E ok \in BOOLEAN :
        /\ denied' = [denied EXCEPT ![e] = @ \cup IF ok THEN {} ELSE {"AUTHORITY_DENIED"}]
        /\ verdict' = [verdict EXCEPT ![e] = IF denied'[e] = {} THEN @ ELSE "HOLD"]
    /\ UNCHANGED <<vars, intentVars, degraded, mode, request, fault, late>>

\* The steps of the audit log, of the evaluation and of its override.
MayWrite(w) ==
    \/ w \in Evals /\ stage[w] = "controlled"
    \/ w \in Overrides /\ stage[OverrideOf[w]] = "override"

AuditStep(w) ==
    /\ MayWrite(w)
    /\ \/ Lock(w) \/ ReadTip(w) \/ Write(w) \/ WriteFails(w)
       \/ Sync(w) \/ SyncFails(w) \/ Unlock(w) \/ Close(w)
    /\ UNCHANGED <<intentVars, pipeVars>>

Unrecorded(e) == result[e] = "hold" /\ mode[e] # "advisory"

\* Mutant: an audit failure holds the action, and that is all.
AnswerUndegraded(e) ==
    /\ pc[e] = "done"
    /\ UnlessOver(e, "controlled", "answered")
    /\ verdict' = [verdict EXCEPT ![e] = IF Unrecorded(e) THEN "HOLD" ELSE @]
    /\ fault' = [fault EXCEPT ![e] = @ \cup IF result[e] = "hold" THEN {"audit"} ELSE {}]
    /\ UNCHANGED <<vars, intentVars, degraded, mode, request, denied, late>>

\* The audit failed or not, the session is looked at again, and evaluate_context returns.
Answer(e) ==
    /\ pc[e] = "done"
    /\ UnlessOver(e, "controlled", "answered")
    /\ verdict' = [verdict EXCEPT ![e] = IF Unrecorded(e) THEN "HOLD" ELSE @]
    /\ degraded' = [degraded EXCEPT ![e] = @ \/ Unrecorded(e)]
    /\ fault' = [fault EXCEPT ![e] = @ \cup IF result[e] = "hold" THEN {"audit"} ELSE {}]
    /\ UNCHANGED <<vars, intentVars, mode, request, denied, late>>

-----------------------------------------------------------------------------
\* exec_action without an access configuration.

Blocked(e) == denied[e] # {} \/ (degraded[e] /\ mode[e] # "advisory")

Overridable(e) == mode[e] = "enforce" /\ verdict[e] = "HOLD" => Config.allow_hold_override

Gate(e) ==
    /\ \/ /\ ~Blocked(e) /\ ExecutionAllowed(verdict[e], mode[e], degraded[e])
          /\ To(e, "answered", "cleared")
       \/ /\ ~Blocked(e) /\ ~ExecutionAllowed(verdict[e], mode[e], degraded[e])
          /\ Overridable(e) /\ e \in Range(OverrideOf)
          /\ To(e, "answered", "override")     \* a person confirms
       \/ /\ Blocked(e) \/ ~ExecutionAllowed(verdict[e], mode[e], degraded[e])
          /\ To(e, "answered", "ended")      \* nobody is asked, or nobody confirms
    /\ UNCHANGED <<vars, intentVars, verdict, degraded, mode, request, denied, fault, late>>

\* The override is written down if that is possible.
Overridden(e) ==
    /\ \E w \in Overrides : OverrideOf[w] = e /\ pc[w] = "done"
    /\ To(e, "override", "cleared")
    /\ UNCHANGED <<vars, intentVars, verdict, degraded, mode, request, denied, fault, late>>

\* check_liveness at the start of _execute_argv; ControlError leads to no launch.
CheckLiveness(e) ==
    /\ \/ LineageIntact /\ ~envelope.stopped /\ To(e, "cleared", "live")
       \/ To(e, "cleared", "ended")      \* stopped, or the lease is revoked or expired
    /\ UNCHANGED <<vars, intentVars, verdict, degraded, mode, request, denied, fault, late>>

LaunchRun(e) ==
    /\ UnlessOver(e, "live", "launched")
    /\ UNCHANGED <<vars, intentVars, verdict, degraded, mode, request, denied, fault, late>>

-----------------------------------------------------------------------------
\* What happens to them: kills, power losses, and the operators of the host.

Owner(w) == IF w \in Evals THEN w ELSE OverrideOf[w]

KillWriter(w) ==
    /\ MayWrite(w) /\ Kill(w)
    /\ stage' = [stage EXCEPT ![Owner(w)] = "ended"]
    /\ UNCHANGED <<intentVars, verdict, degraded, mode, request, denied, fault, late>>

KillElsewhere(e) ==
    /\ stage[e] \in {"judged", "intent", "answered", "cleared", "live"}
    /\ stage' = [stage EXCEPT ![e] = "ended"]
    /\ UNCHANGED <<vars, intentVars, verdict, degraded, mode, request, denied, fault, late>>

LosePower ==
    /\ PowerLoss
    /\ stage' = [e \in Evals |-> IF stage[e] \in Final \cup {"start"} THEN stage[e] ELSE "ended"]
    /\ UNCHANGED <<intentVars, verdict, degraded, mode, request, denied, fault, late>>

HostStopsIntent ==
    /\ ~envelope.stopped /\ StopIntent
    /\ UNCHANGED <<vars, pipeVars>>

PipelineNext ==
    \/ \E e \in Evals :
        \/ Judge(e) \/ ControlIntent(e) \/ ControlLease(e) \/ Answer(e)
        \/ Gate(e) \/ Overridden(e) \/ CheckLiveness(e) \/ LaunchRun(e) \/ KillElsewhere(e)
    \/ \E w \in Writers : AuditStep(w) \/ KillWriter(w)
    \/ LosePower \/ HostStopsIntent

PipelineSpec == PipelineInit /\ [][PipelineNext]_allVars

-----------------------------------------------------------------------------
Launched == {e \in Evals : stage[e] = "launched"}

\* The scope creep of some evaluations together, of = request or action.
TotalCreep(of, E) == MapThenSumSet(LAMBDA e : of[e].creep, E)

(* A failure on the way never lets an action through: what ran outside of
   advisory mode met no failed redaction, sample or audit write, overridden or
   not, and no run of any mode was denied by a control. *)
FaultsBlock ==
    \A e \in Launched : denied[e] = {} /\ (mode[e] # "advisory" => fault[e] = {})

(* What a session has run never drifts further than its intent permits, though
   each run is judged on its own and denied ones count as well. *)
DriftBounded == TotalCreep(request, Launched) <= MaxDrift

(* The counters of the envelope agree with the chain of its records: no
   interleaving or crash makes a later evaluation fail on the lineage. *)
LineageAgrees ==
    LET recorded == {e \in Evals : action[e].recorded}
    IN  /\ LineageIntact
        /\ envelope.count = Cardinality(recorded)
        /\ envelope.drift = TotalCreep(action, recorded)

(* A run that begins after the intent was stopped is not launched, whatever the
   runs that began before it write to the envelope in the meantime. *)
NoRunAfterStop == \A e \in Launched : ~late[e]
=============================================================================
