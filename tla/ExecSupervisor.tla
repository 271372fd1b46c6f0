--------------------------- MODULE ExecSupervisor ---------------------------
(***************************************************************************)
(* Concurrent JRX processes that share one session: `jrx exec' runs, which *)
(* evaluate an action, launch it and supervise the child until it ends,    *)
(* and evaluations without execution (`jrx check', an agent hook).  Each   *)
(* transaction of the session store (SessionLedger) is one step; between   *)
(* two of them anything another process does can happen.  A transaction    *)
(* can also fail with sqlite3.Error (the ten-second busy timeout, a full   *)
(* disk), and a JRX process can be killed at any point.                    *)
(***************************************************************************)
EXTENDS SessionLedger

CONSTANTS
    Execs,          \* `jrx exec' invocations
    Checks,         \* evaluations that execute nothing
    ActionOf,       \* fingerprint of the action each invocation proposes
    SamplesOf,      \* semantic evaluations each invocation asks for
    MaxExecution,   \* config.session.max_execution_seconds
    LastArrival,    \* bound: no invocation begins after this time
    LastSpawn       \* bound: no child is launched after this time

Runs == Execs \cup Checks

ASSUME ExecAssumption ==
    /\ Execs \cap Checks = {}
    /\ ActionOf \in [Runs -> Actions]
    /\ SamplesOf \in [Runs -> Samples]
    /\ MaxExecution \in Nat \ {0}
    /\ LastArrival \in Nat
    /\ LastSpawn \in Nat

VARIABLES
    pc,         \* where each JRX process is
    child,      \* what each `jrx exec' launched: the leader of a process group
    others,     \* whether further processes of that group run
    deadline,   \* when _execute_argv gives up on the child
    used        \* history: semantic evaluations requested so far

vars == <<row, risky, now, pc, child, others, deadline, used>>

Idle == {"idle"}
Evaluating == {"evaluate", "risky", "recheck"}
Launching == {"launch", "prepare", "spawn"}
Supervising == {"watch", "grace"}
Unsupervised == {"failed", "crashed", "abandoned"}
Ended == {"refused", "done"} \cup Unsupervised

Goto(r, label) == pc' = [pc EXCEPT ![r] = label]

\* store.reserve(session, semantic=sem, tool_calls=calls) by process r: on to
\* `next', or to `refusal' when the store raises SessionLimitError.
ReserveThen(r, sem, calls, next, refusal) ==
    \/ Reserve(sem, calls) /\ Goto(r, next)
    \/ Refused(sem, calls) /\ Goto(r, refusal) /\ UNCHANGED ledgerVars

Init ==
    /\ LedgerInit
    /\ pc = [r \in Runs |-> "idle"]
    /\ child = [e \in Execs |-> "none"]
    /\ others = [e \in Execs |-> FALSE]
    /\ deadline = [e \in Execs |-> 0]
    /\ used = 0

-----------------------------------------------------------------------------
\* evaluate_context

\* Mutant: only one sample is reserved, however many are requested.
BeginReservesOneSample(r) ==
    /\ pc[r] = "idle"
    /\ now <= LastArrival
    /\ ReserveThen(r, 1, 1, "evaluate", "refused")
    /\ UNCHANGED <<child, others, deadline, used>>

\* The call and all its semantic samples are reserved before any work.
Begin(r) ==
    /\ pc[r] = "idle"
    /\ now <= LastArrival
    /\ ReserveThen(r, SamplesOf[r], 1, "evaluate", "refused")
    /\ UNCHANGED <<child, others, deadline, used>>

\* The samples are requested (none when redaction failed or a hard rule
\* already blocked); anything but a sound ALLOW counts as a risky attempt.
Evaluate(r) ==
    /\ pc[r] = "evaluate"
    /\ \E n \in {0, SamplesOf[r]} : used' = used + n
    /\ \E next \in {"risky", "recheck"} : Goto(r, next)
    /\ UNCHANGED <<ledgerVars, child, others, deadline>>

CountRisky(r) ==
    /\ pc[r] = "risky"
    /\ \/ /\ RecordRisky(ActionOf[r])
          /\ Goto(r, IF RiskyLimitHit(ActionOf[r]) THEN "refused" ELSE "recheck")
       \/ RiskyRefused /\ Goto(r, "refused") /\ UNCHANGED ledgerVars
    /\ UNCHANGED <<child, others, deadline, used>>

\* The result is returned only if the session is still open.  `jrx exec' goes
\* on if the decision or a human override lets it.
Recheck(r) ==
    /\ pc[r] = "recheck"
    /\ \E next \in IF r \in Execs THEN {"launch", "refused"} ELSE {"done"} :
          ReserveThen(r, 0, 0, next, "refused")
    /\ UNCHANGED <<child, others, deadline, used>>

-----------------------------------------------------------------------------
\* _execute_argv

Launch(r) ==
    /\ pc[r] = "launch"
    /\ ReserveThen(r, 0, 0, "prepare", "refused")
    /\ UNCHANGED <<child, others, deadline, used>>

\* Mutant: no second check after the egress has been prepared.
PrepareUnchecked(r) ==
    /\ pc[r] = "prepare"
    /\ \/ Goto(r, "spawn") /\ UNCHANGED ledgerVars
       \/ Goto(r, "refused") /\ UNCHANGED ledgerVars
    /\ UNCHANGED <<child, others, deadline, used>>

\* After the sandbox egress is up, which can take minutes or fail, the session
\* is checked again.
Prepare(r) ==
    /\ pc[r] = "prepare"
    /\ \/ ReserveThen(r, 0, 0, "spawn", "refused")
       \/ Goto(r, "refused") /\ UNCHANGED ledgerVars
    /\ UNCHANGED <<child, others, deadline, used>>

Spawn(r) ==
    /\ pc[r] = "spawn"
    /\ \/ /\ now <= LastSpawn
          /\ Goto(r, "watch")
          /\ child' = [child EXCEPT ![r] = "running"]
          /\ deadline' = [deadline EXCEPT ![r] = now + MaxExecution]
          /\ UNCHANGED others
       \/ Goto(r, "refused") /\ UNCHANGED <<child, others, deadline>>
    /\ UNCHANGED <<ledgerVars, used>>

\* process.wait(timeout=0.1) returned: the child is gone.  Nobody asks for the others.
Reap(r) ==
    /\ pc[r] = "watch"
    /\ child[r] = "exited"
    /\ Goto(r, "done")
    /\ UNCHANGED <<ledgerVars, child, others, deadline, used>>

\* Mutant: the session is not checked while the child runs.
WatchDeadlineOnly(r) ==
    /\ pc[r] = "watch"
    /\ child[r] = "running"
    /\ now >= deadline[r]
    /\ Goto(r, "grace")
    /\ UNCHANGED <<ledgerVars, child, others, deadline, used>>

\* Mutant: the execution time limit is not enforced.
WatchSessionOnly(r) ==
    /\ pc[r] = "watch"
    /\ child[r] = "running"
    /\ ReserveThen(r, 0, 0, "watch", "grace")
    /\ UNCHANGED <<child, others, deadline, used>>

\* process.wait timed out: the deadline first, then the session.  Either sends
\* SIGTERM to the group.
Watch(r) ==
    /\ pc[r] = "watch"
    /\ child[r] = "running"
    /\ \/ now >= deadline[r] /\ Goto(r, "grace") /\ UNCHANGED ledgerVars
       \/ now < deadline[r] /\ ReserveThen(r, 0, 0, "watch", "grace")
    /\ UNCHANGED <<child, others, deadline, used>>

\* The child went within a second of SIGTERM: nothing more is sent to the group.
Terminated(r) ==
    /\ pc[r] = "grace"
    /\ child[r] = "exited"
    /\ Goto(r, "done")
    /\ UNCHANGED <<ledgerVars, child, others, deadline, used>>

\* Mutant: process.kill() in place of os.killpg.
KillLeader(r) ==
    /\ pc[r] = "grace"
    /\ child[r] = "running"
    /\ child' = [child EXCEPT ![r] = "killed"]
    /\ Goto(r, "done")
    /\ UNCHANGED <<ledgerVars, others, deadline, used>>

\* It did not: SIGKILL to the group.
Kill(r) ==
    /\ pc[r] = "grace"
    /\ child[r] = "running"
    /\ child' = [child EXCEPT ![r] = "killed"]
    /\ others' = [others EXCEPT ![r] = FALSE]
    /\ Goto(r, "done")
    /\ UNCHANGED <<ledgerVars, deadline, used>>

-----------------------------------------------------------------------------
\* The environment

\* sqlite3.Error is none of the exceptions _execute_argv and its callers
\* handle: it ends the JRX process where it stands, the child keeps running.
DatabaseError(r) ==
    /\ pc[r] \in {"idle", "risky", "recheck", "launch", "prepare", "watch"}
    /\ pc[r] = "idle" => now <= LastArrival
    /\ pc[r] = "watch" => child[r] = "running" /\ now < deadline[r]
    /\ Goto(r, "failed")
    /\ UNCHANGED <<ledgerVars, child, others, deadline, used>>

Killed(r) ==
    /\ pc[r] \notin Idle \cup Ended
    /\ Goto(r, "crashed")
    /\ UNCHANGED <<ledgerVars, child, others, deadline, used>>

\* KeyboardInterrupt is handled like a refusal; a second one, in the second after
\* SIGTERM, leaves the handler before it comes to SIGKILL.
Interrupt(r) ==
    /\ \/ pc[r] \in Evaluating \cup Launching /\ Goto(r, "refused")
       \/ pc[r] = "watch" /\ Goto(r, "grace")
       \/ pc[r] = "grace" /\ Goto(r, "abandoned")
    /\ UNCHANGED <<ledgerVars, child, others, deadline, used>>

\* The child ends, by itself or of SIGTERM; both are its own affair.
ChildExits(r) ==
    /\ child[r] = "running"
    /\ child' = [child EXCEPT ![r] = "exited"]
    /\ UNCHANGED <<ledgerVars, pc, others, deadline, used>>

\* The child starts processes of its own.  That they may end is left out: they go on
\* for as long as nothing ends them.
Forks(r) ==
    /\ child[r] = "running"
    /\ others' = [others EXCEPT ![r] = TRUE]
    /\ UNCHANGED <<ledgerVars, pc, child, deadline, used>>

AdminStop == Stop /\ UNCHANGED <<pc, child, others, deadline, used>>

ClockTick == Tick /\ UNCHANGED <<pc, child, others, deadline, used>>

Supervise(r) ==
    Launch(r) \/ Prepare(r) \/ Spawn(r) \/ Reap(r) \/ Watch(r) \/ Terminated(r) \/ Kill(r)

Next ==
    \/ \E r \in Runs : Begin(r) \/ Evaluate(r) \/ CountRisky(r) \/ Recheck(r)
    \/ \E r \in Execs : Supervise(r) \/ ChildExits(r) \/ Forks(r)
    \/ \E r \in Runs : DatabaseError(r) \/ Killed(r) \/ Interrupt(r)
    \/ AdminStop
    \/ ClockTick

Spec == Init /\ [][Next]_vars

\* _execute_argv polls for as long as its process lives, and time passes.  No
\* fairness for the child, the administrator or the faults.
FairSpec == Spec /\ WF_vars(ClockTick) /\ \A r \in Execs : WF_vars(Supervise(r))

-----------------------------------------------------------------------------

TypeOK ==
    /\ LedgerTypeOK
    /\ pc \in [Runs -> Idle \cup Evaluating \cup Launching \cup Supervising \cup Ended]
    /\ child \in [Execs -> {"none", "running", "exited", "killed"}]
    /\ others \in [Execs -> BOOLEAN]
    /\ deadline \in [Execs -> Nat]
    /\ used \in Nat

SessionOver == row.stopped \/ (row.exists /\ now - row.started >= MaxElapsed)

(* No process gets past the session's last check once the session is over: *)
(* only a launch whose second check had already passed can still happen,   *)
(* and no evaluation starts (evaluate_context, _execute_argv).             *)
NoLaunchWhenOver ==
    [][SessionOver =>
         /\ \A r \in Runs : pc'[r] \in {"evaluate", "launch", "prepare"} => pc'[r] = pc[r]
         /\ \A r \in Execs :
               /\ pc'[r] = "spawn" => pc[r] = "spawn"
               /\ child[r] = "none" /\ child'[r] = "running" => pc[r] = "spawn"]_vars

(* The ledger is an upper bound of what was really spent: at no time have  *)
(* concurrent invocations requested more evaluations than are booked, even *)
(* if some were refused, killed or crashed halfway (evaluate_context       *)
(* reserves before it evaluates).                                          *)
SpendBooked == used <= row.semantic /\ used * Cost <= MaxSpend

(* A session in which one action has been judged risky as often as it may  *)
(* starts nothing any more, whoever counted and whatever other processes   *)
(* are between their checks: the count is in one table, the stop that the  *)
(* checks read in the other (record_risky, reserve).                       *)
RiskyLimitEndsLaunches ==
    [][(\E a \in Actions : risky[a] >= MaxRisky) =>
         \A r \in Runs : pc'[r] \in {"evaluate", "launch", "prepare", "spawn"} => pc'[r] = pc[r]]_vars

(* A child runs only under a supervisor that watches it or is ending it,   *)
(* unless JRX was killed, met a database error or was interrupted a second *)
(* time while it waited for the child; and what outlives it in its group   *)
(* does so only if the child went without SIGKILL (_execute_argv).         *)
NoOrphan ==
    \A r \in Execs :
        /\ child[r] = "running" => pc[r] \in Supervising \cup Unsupervised
        /\ others[r] => child[r] \in {"running", "exited"}

(* Stopping a session, or its time running out, ends every child it has    *)
(* running whose supervisor is at work.                                    *)
OverEndsChildren ==
    \A r \in Execs :
        SessionOver ~> (child[r] # "running" \/ pc[r] \in Unsupervised)

(* max_execution_seconds ends a child that would never end by itself,      *)
(* however the administrator and other runs use the session meanwhile      *)
(* (bound: deadlines that lie within the modelled time).                   *)
DeadlineEndsChildren ==
    \A r \in Execs :
        child[r] = "running" /\ deadline[r] <= MaxTime ~> (child[r] # "running" \/ pc[r] \in Unsupervised)
=============================================================================
