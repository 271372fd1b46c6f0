---------------------------- MODULE PolicyRollout ---------------------------
(***************************************************************************)
(* Staged activation of a signed policy (policy_rollout.py): the file with *)
(* the activation state, its lock, and the commands `jrx policy rollout`   *)
(* of several administrators.  A command reads and rewrites the file under *)
(* the lock, through a temporary file that is renamed over it; evaluations *)
(* read it without the lock (load_config).  Staging is preceded, outside   *)
(* the lock, by a replay of the audit log under both policies.             *)
(***************************************************************************)
EXTENDS PolicyEngine, FiniteSets

CONSTANTS Admins,
          Candidates,     \* policies an administrator holds or the source serves
          Percents,       \* what promote is called with
          Recorded,       \* entries of the audit log
          MaxNewAllows,   \* --max-new-allows
          Scopes,         \* repositories
          Bucket,         \* hash of the scope, modulo 100
          None

ASSUME RolloutAssumption ==
    /\ \A c \in Candidates : Valid(c)
    /\ None \notin Policies /\ None \notin Admins
    /\ None \notin [active : Candidates, candidate : Candidates \cup {None},
                    previous : Candidates \cup {None}, percent : Percent]
    /\ Percents \subseteq 1..100
    /\ MaxNewAllows \in Nat
    /\ Bucket \in [Scopes -> 0..99]
    /\ \A r \in Recorded : IsEvaluation(r.input)

VARIABLES file,      \* the activation state, None when there is no file
          holder,    \* who holds the lock, None when it is free
          phase,     \* where the command of each administrator stands
          command,   \* its arguments
          changed    \* the state it is about to rename into place

rolloutVars == <<file, holder, phase, command, changed>>

Idle == [op |-> "none"]

-----------------------------------------------------------------------------
\* simulate: both policies on the entries that the baseline explains.

\* policy_version_hash leaves out the conservative margin.
Version(c) == <<c.mode, c.strong, c.review, c.hold_on, c.review_on, c.allow_hold_override>>

Verdict(r, c) ==
    LET d == Decide(r.input, c) IN IF r.forced /\ d # "HOLD" THEN "REVIEW" ELSE d

Replayed(baseline) ==
    {r \in Recorded : r.version = Version(baseline) /\ Verdict(r, baseline) = r.decision}

NewAllows(baseline, candidate) ==
    {r \in Replayed(baseline) : r.decision # "ALLOW" /\ Verdict(r, candidate) = "ALLOW"}

Gate(baseline, candidate) ==
    /\ Replayed(baseline) # {}
    /\ Cardinality(NewAllows(baseline, candidate)) <= MaxNewAllows

\* RolloutStore.select, called by load_config for every evaluation.
Select(state, scope) ==
    IF state = None THEN None
    ELSE IF state.candidate # None /\ Bucket[scope] < state.percent
    THEN state.candidate ELSE state.active

-----------------------------------------------------------------------------
\* The callbacks of _change: what they refuse and what they return.

Fresh(policy) == [active |-> policy, candidate |-> None, previous |-> None, percent |-> 0]

\* Mutant: the baseline is not compared again under the lock.
StageAllowedUnchecked(state, baseline) ==
    \/ state = None
    \/ state # None /\ state.candidate = None /\ state.percent = 0

StageAllowed(state, baseline) ==
    \/ state = None
    \/ state # None /\ state.active = baseline /\ state.candidate = None /\ state.percent = 0

\* Mutant: promote may lower the percentage.
RefusesNoReduction(state, c) ==
    CASE c.op = "stage" -> ~StageAllowed(state, c.baseline)
      [] c.op = "promote" -> state = None \/ (state # None /\ state.candidate = None)
      [] c.op = "rollback" -> \/ state = None
                              \/ state # None /\ state.candidate = None /\ state.previous = None

Refuses(state, c) ==
    CASE c.op = "stage" -> ~StageAllowed(state, c.baseline)
      [] c.op = "promote" -> \/ state = None
                             \/ state # None /\ (state.candidate = None \/ c.percent < state.percent)
      [] c.op = "rollback" -> \/ state = None
                              \/ state # None /\ state.candidate = None /\ state.previous = None

Result(state, c) ==
    CASE c.op = "stage" ->
            [(IF state = None THEN Fresh(c.baseline) ELSE state) EXCEPT !.candidate = c.candidate]
      [] c.op = "promote" ->
            IF c.percent = 100
            THEN [Fresh(state.candidate) EXCEPT !.previous = state.active]
            ELSE [state EXCEPT !.percent = c.percent]
      [] c.op = "rollback" ->
            IF state.candidate # None THEN [state EXCEPT !.candidate = None, !.percent = 0]
            ELSE [state EXCEPT !.active = state.previous, !.previous = None]

-----------------------------------------------------------------------------
RolloutInit ==
    /\ file = None /\ holder = None
    /\ phase = [a \in Admins |-> "idle"]
    /\ command = [a \in Admins |-> Idle]
    /\ changed = [a \in Admins |-> None]

\* policy_rollout_stage: the early look at the state, the fetch of a signed
\* candidate, and the replay.  None of it holds the lock.
CheckBaseline(a, baseline) ==
    /\ phase[a] = "idle"
    /\ file # None => file.active = baseline
    /\ phase' = [phase EXCEPT ![a] = "replay"]
    /\ command' = [command EXCEPT ![a] = [op |-> "stage", baseline |-> baseline, candidate |-> baseline]]
    /\ UNCHANGED <<file, holder, changed>>

Simulate(a, candidate) ==
    /\ phase[a] = "replay"
    /\ Gate(command[a].baseline, candidate)
    /\ phase' = [phase EXCEPT ![a] = "wait"]
    /\ command' = [command EXCEPT ![a].candidate = candidate]
    /\ UNCHANGED <<file, holder, changed>>

Call(a, c) ==
    /\ phase[a] = "idle"
    /\ phase' = [phase EXCEPT ![a] = "wait"]
    /\ command' = [command EXCEPT ![a] = c]
    /\ UNCHANGED <<file, holder, changed>>

\* Mutant: a command that finds the lock taken goes on without it.
LockNot(a) ==
    /\ phase[a] = "wait"
    /\ holder' = a
    /\ phase' = [phase EXCEPT ![a] = "locked"]
    /\ UNCHANGED <<file, command, changed>>

\* _change: take the lock, read, and call back.
Lock(a) ==
    /\ phase[a] = "wait" /\ holder = None
    /\ holder' = a
    /\ phase' = [phase EXCEPT ![a] = "locked"]
    /\ UNCHANGED <<file, command, changed>>

Change(a) ==
    /\ phase[a] = "locked"
    /\ ~Refuses(file, command[a])
    /\ changed' = [changed EXCEPT ![a] = Result(file, command[a])]
    /\ phase' = [phase EXCEPT ![a] = "temporary"]
    /\ UNCHANGED <<file, holder, command>>

\* The rename.  Until here the new state is in a file that nobody reads.
Replace(a) ==
    /\ phase[a] = "temporary"
    /\ file' = changed[a]
    /\ phase' = [phase EXCEPT ![a] = "unlock"]
    /\ UNCHANGED <<holder, command, changed>>

\* The command ends: done, refused, failed, or its process killed at any
\* point.  The kernel gives the lock of a dead process back.
End(a) ==
    /\ phase[a] # "idle"
    /\ phase' = [phase EXCEPT ![a] = "idle"]
    /\ command' = [command EXCEPT ![a] = Idle]
    /\ changed' = [changed EXCEPT ![a] = None]
    /\ holder' = IF holder = a THEN None ELSE holder
    /\ UNCHANGED file

Step(a) ==
    \/ \E b \in Candidates : CheckBaseline(a, b) \/ Simulate(a, b)
    \/ \E p \in Percents : Call(a, [op |-> "promote", percent |-> p])
    \/ Call(a, [op |-> "rollback"])
    \/ Lock(a) \/ Change(a) \/ Replace(a) \/ End(a)

RolloutNext == \E a \in Admins : Step(a)

RolloutSpec == RolloutInit /\ [][RolloutNext]_rolloutVars

-----------------------------------------------------------------------------
Activation == INSTANCE PolicyActivation WITH activation <- file

(* The file behaves as one register that is staged, promoted and rolled back
   by whole steps: the lock, the rename and crashes between them never lose an
   update nor show a state in the making. *)
ImplementsActivation == Activation!Spec

(* A staged candidate has passed the replay against the policy that is active
   now, not against one that was active when the command looked. *)
CandidatePassedGate ==
    file # None /\ file.candidate # None => Gate(file.active, file.candidate)

(* A repository that has been given the candidate keeps it for as long as it
   stays the candidate, whatever percentages the administrators ask for. *)
StickyScope ==
    [][\A s \in Scopes :
        /\ file # None /\ file.candidate # None /\ file' # None
        /\ file'.candidate = file.candidate /\ file'.active = file.active
        /\ Select(file, s) = file.candidate
        => Select(file', s) = file.candidate]_rolloutVars
=============================================================================
