----------------------------- MODULE IntentStore ----------------------------
(***************************************************************************)
(* The intent envelope of one session (intent.py): a signed row with       *)
(* counters, and one signed row per evaluated action, chained to the       *)
(* envelope's last_action_id.  Every operation is one transaction that     *)
(* reads and rewrites whole rows.                                          *)
(***************************************************************************)
EXTENDS Integers

CONSTANTS Evals,        \* evaluations; each records at most one action
          Creeps,       \* scope_creep of an evaluation, in tenths
          MaxDrift,     \* max_drift_score, in tenths
          MaxActions,   \* max_actions_per_session
          Null

ASSUME IntentAssumption ==
    /\ Creeps \subseteq Nat /\ MaxDrift \in Nat /\ MaxActions \in Nat
    /\ Null \notin Evals

VARIABLES envelope, action

intentVars == <<envelope, action>>

NoAction == [parent |-> Null, creep |-> 0, allowed |-> FALSE, recorded |-> FALSE]

IntentInit ==
    /\ envelope = [last |-> Null, count |-> 0, drift |-> 0, stopped |-> FALSE]
    /\ action = [e \in Evals |-> NoAction]

\* _lineage: n steps back from the tip.
Back[n \in Nat] ==
    IF n = 0 THEN envelope.last
    ELSE IF Back[n - 1] = Null THEN Null ELSE action[Back[n - 1]].parent

LineageIntact ==
    /\ \A n \in 0 .. envelope.count - 1 : Back[n] # Null
    /\ Back[envelope.count] = Null

\* What makes evaluate raise; apply_controls turns it into a denial.
EnvelopeRefuses == ~LineageIntact \/ envelope.count >= MaxActions

\* Mutant: each action is compared with the limit alone.
EvidenceAlone(creep, outside) ==
    (IF envelope.stopped THEN {"session_stopped"} ELSE {})
    \cup (IF outside THEN {"outside_intent"} ELSE {})
    \cup (IF creep > MaxDrift THEN {"cumulative_drift"} ELSE {})

\* Why evaluate denies an action.  "Outside" stands for another task, repository
\* or policy, and for a capability or a resource beyond the intent.
Evidence(creep, outside) ==
    (IF envelope.stopped THEN {"session_stopped"} ELSE {})
    \cup (IF outside THEN {"outside_intent"} ELSE {})
    \cup (IF envelope.drift + creep > MaxDrift THEN {"cumulative_drift"} ELSE {})

\* Mutant: a denied action leaves no trace on the envelope, though its row is written.
RecordAllowedOnly(e, creep, outside) ==
    /\ action' = [action EXCEPT ![e] =
            [parent |-> envelope.last, creep |-> creep, recorded |-> TRUE,
             allowed |-> Evidence(creep, outside) = {}]]
    /\ envelope' = IF Evidence(creep, outside) = {}
                   THEN [envelope EXCEPT !.last = e, !.count = @ + 1, !.drift = @ + creep]
                   ELSE [envelope EXCEPT !.count = @ + 1]

\* Mutant: the row of the envelope is rebuilt without the stop.
RecordForgetsStop(e, creep, outside) ==
    /\ action' = [action EXCEPT ![e] =
            [parent |-> envelope.last, creep |-> creep, recorded |-> TRUE,
             allowed |-> Evidence(creep, outside) = {}]]
    /\ envelope' = [last |-> e, count |-> envelope.count + 1, drift |-> envelope.drift + creep,
                    stopped |-> FALSE]

\* The transaction of evaluate, when it does not raise.
RecordAction(e, creep, outside) ==
    /\ action' = [action EXCEPT ![e] =
            [parent |-> envelope.last, creep |-> creep, recorded |-> TRUE,
             allowed |-> Evidence(creep, outside) = {}]]
    /\ envelope' = [envelope EXCEPT !.last = e, !.count = @ + 1, !.drift = @ + creep]

StopIntent ==
    /\ envelope' = [envelope EXCEPT !.stopped = TRUE]
    /\ UNCHANGED action
=============================================================================
