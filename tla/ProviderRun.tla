----------------------------- MODULE ProviderRun ----------------------------
(***************************************************************************)
(* The interactive workspace (and jrx harness acp) running a provider's    *)
(* CLI in the workspace: directly, or with a checkpoint that is handed     *)
(* over from another provider after the user has reviewed it.  A streamed  *)
(* run that needs an approval ends, and the provider's own terminal        *)
(* interface is offered; a handoff lends its lock to every run it starts.  *)
(*                                                                         *)
(* The provider is the process that JRX started, Cli, and the processes    *)
(* that it starts itself in its group, Child.                              *)
(***************************************************************************)
EXTENDS WorkspaceLock

CONSTANTS Tui, Cli, Child

ASSUME ProviderAssumption == Tui \in Jrx /\ {Cli, Child} \subseteq Managed /\ Cli # Child

VARIABLES run,       \* how the provider is run: streamed, in its own terminal, over ACP
                     \* or as the fallback of a stream; under a lent lock; how it ended
          task,      \* the task record on disk
          reviewed,  \* the workspace in the checkpoint that is handed over
          sent       \* a provider was started with the checkpoint (history)

providerVars == <<run, task, reviewed, sent>>

NoRun == [kind |-> "none", lent |-> FALSE, ended |-> "no"]

ProviderInit ==
    /\ run = NoRun
    /\ task = [delivery |-> "none", process |-> "none"]
    /\ reviewed = {} /\ sent = FALSE

Group == {Cli, Child}
Told(delivery) == task' = [task EXCEPT !.delivery = delivery]
\* Back to the menu.
Back == Release(Tui) /\ run' = NoRun /\ reviewed' = {}

-----------------------------------------------------------------------------
\* _handoff_screen

\* The snapshot is taken under the lock, and saved with the checkpoint.
StartHandoff(kind) ==
    /\ To(Tui, "idle", "reviewing") /\ Acquire(Tui)
    /\ run' = [kind |-> kind, lent |-> TRUE, ended |-> "no"]
    /\ reviewed' = Snapshot /\ sent' = FALSE
    /\ task' = [delivery |-> "prepared", process |-> "none"]
    /\ UNCHANGED <<files, version, author, touched, owner>>

GiveUp(from, delivery) ==
    /\ To(Tui, from, "idle") /\ Back /\ Told(delivery)
    /\ UNCHANGED <<files, version, author, touched, owner, sent>>

\* Mutant: the workspace is not compared once more before the launch.
UnchangedAssumed == TRUE

\* refresh_workspace_snapshot: also when the snapshot fails or is incomplete.
Unchanged == Snapshot = reviewed

Review ==
    \/ GiveUp("reviewing", "declined")
    \/ \E delivery \in {"invalid", "changed"} : GiveUp("reviewing", delivery)
    \/ /\ Unchanged /\ To(Tui, "reviewing", "confirming") /\ touched' = FALSE
       /\ UNCHANGED <<holder, files, version, author, owner, providerVars>>

\* Mutant: the delivery is recorded when the provider has answered.
ConfirmUnrecorded ==
    \/ \E delivery \in {"invalid", "changed"} : GiveUp("confirming", delivery)
    \/ run.kind = "stream" /\ GiveUp("confirming", task.delivery)
    \/ /\ Unchanged /\ To(Tui, "confirming", "launching") /\ touched' = FALSE
       /\ UNCHANGED <<holder, files, version, author, owner, providerVars>>

\* A question the user answers no, or the second comparison.  The answer no to Codex'
\* write scope is no status that record_delivery takes: it raises, and JRX stops.
Confirm ==
    \/ \E delivery \in {"invalid", "changed"} : GiveUp("confirming", delivery)
    \/ run.kind = "stream" /\ GiveUp("confirming", task.delivery)
    \/ /\ Unchanged /\ To(Tui, "confirming", "launching") /\ touched' = FALSE
       /\ task' = [delivery |-> "passed", process |-> "starting"]
       /\ UNCHANGED <<holder, files, version, author, owner, run, reviewed, sent>>

-----------------------------------------------------------------------------
\* launch_native, stream_structured and run_acp

Start ==
    /\ at' = [at EXCEPT ![Tui] = "running"]
    /\ ~Running(Cli) /\ ~Running(Child)
    /\ owner' = [owner EXCEPT ![Cli] = Tui]

\* With the lent lock, once the delivery is recorded; or after a fallback, with a lock
\* of its own if none is lent.
Launch ==
    /\ at[Tui] = "launching" /\ Start
    /\ IF run.lent THEN UNCHANGED holder ELSE Acquire(Tui)
    /\ sent' = (sent \/ run.lent)
    /\ UNCHANGED <<files, version, author, touched, run, task, reviewed>>

\* The executable is missing, or another process has the lock.
CannotLaunch ==
    /\ To(Tui, "launching", "stopped")
    /\ run' = [run EXCEPT !.ended = IF run.kind = "fallback" THEN "exited" ELSE "spawn failed"]
    /\ UNCHANGED <<holder, files, version, author, touched, owner, task, reviewed, sent>>

\* _run_selected and acp_run: the task record first, then the lock.
StartRun(kind) ==
    /\ at[Tui] = "idle" /\ Start /\ Acquire(Tui)
    /\ run' = [kind |-> kind, lent |-> FALSE, ended |-> "no"]
    /\ task' = [delivery |-> "direct", process |-> "starting"] /\ sent' = FALSE
    /\ UNCHANGED <<files, version, author, touched, reviewed>>

\* It does not start.  That the lock is taken is an error which JRX does not record
\* when it streams.
RunRefused(kind) ==
    /\ at[Tui] = "idle"
    /\ task' = [delivery |-> "direct",
                process |-> IF kind # "native" /\ holder # Nobody THEN "starting" ELSE "spawn failed"]
    /\ sent' = FALSE
    /\ UNCHANGED <<lockVars, run, reviewed>>

-----------------------------------------------------------------------------
\* The provider

CliWrites(f) == \E m \in Group : Works(m, f) /\ UNCHANGED providerVars

Forks ==
    /\ Running(Cli) /\ ~Running(Child)
    /\ owner' = [owner EXCEPT ![Child] = Tui]
    /\ UNCHANGED <<at, holder, files, version, author, touched, providerVars>>

-----------------------------------------------------------------------------
\* The end of a run

\* _terminate_group: SIGINT to the group, and nothing more once the leader is gone,
\* as it is at the latest with SIGKILL.  A child that ignores SIGINT may live on.
TerminateGroup == \E loose \in SUBSET {Child} : Stopped(Group, loose)

\* run_acp kills the whole group, also when its leader has exited.
TerminateAll == Stopped(Group, {})

Terminated == IF run.kind = "acp" THEN TerminateAll ELSE TerminateGroup

\* What the task record says of a run that ended.  An ACP run has none, and a handoff
\* to the provider's own terminal does not come to recording how it ended.
Recorded(r) ==
    LET ended == IF r.ended = "asks" THEN "exited" ELSE r.ended IN
    IF r.kind = "acp" THEN task
    ELSE IF ~r.lent THEN [task EXCEPT !.process = ended]
    ELSE IF r.kind = "native" /\ ended # "interrupted" THEN task
    ELSE [delivery |-> CASE ended = "exited" -> task.delivery
                         [] ended = "cancelled" -> "cancelled"
                         [] OTHER -> "failed",
          process |-> ended]

\* The provider exits, and its child may go on.  Or JRX terminates it: the user cancels
\* a stream, an ACP run times out, a stream stops where the provider asks for an
\* approval, an error that JRX handles or an interrupt ends the run.  Then JRX frees
\* its own lock.
Ends(ended) ==
    LET r == [run EXCEPT !.ended = ended] IN
    /\ at[Tui] = "running" /\ Running(Cli)
    /\ \/ ended = "exited" /\ (IF run.kind = "acp" THEN TerminateAll ELSE Stopped(Group, {Child}))
       \/ ended = "cancelled" /\ run.kind \in {"stream", "acp"} /\ Terminated
       \/ ended = "asks" /\ run.kind = "stream" /\ Terminated
       \/ ended \in {"spawn failed", "interrupted"} /\ Terminated
    /\ IF run.lent \/ ended = "asks"
       THEN /\ To(Tui, "running", "stopped") /\ run' = r
            /\ IF run.lent THEN UNCHANGED holder ELSE Release(Tui)
            /\ UNCHANGED <<task, reviewed>>
       ELSE To(Tui, "running", "idle") /\ Back /\ task' = Recorded(r)
    /\ UNCHANGED <<files, version, author, touched, sent>>

\* An exception that nothing terminates the provider for gets out of JRX: a second
\* interrupt while the group is being terminated; in a stream, whatever is no interrupt,
\* OSError or WorkspaceError (a line that json.loads cannot take, the window).  The
\* lock is freed all the same.  An interrupt may be recorded on the way out.
Escapes ==
    /\ To(Tui, "running", "idle") /\ Running(Cli) /\ Back
    /\ \E loose \in SUBSET Group : Stopped(Group, loose)
    /\ task' \in {task, Recorded([run EXCEPT !.ended = "interrupted"])}
    /\ UNCHANGED <<files, version, author, touched, sent>>

\* _offer_native_approval_fallback: the prompt is not sent again.
Fallback ==
    /\ run.ended = "asks" /\ To(Tui, "stopped", "launching")
    /\ run' = [run EXCEPT !.kind = "fallback", !.ended = "no"]
    /\ UNCHANGED <<holder, files, version, author, touched, owner, task, reviewed, sent>>

Record ==
    /\ To(Tui, "stopped", "idle") /\ Back /\ task' = Recorded(run)
    /\ UNCHANGED <<files, version, author, touched, owner, sent>>

TuiKilled ==
    /\ Killed(Tui) /\ run' = NoRun /\ reviewed' = {}
    /\ UNCHANGED <<task, sent>>

ProviderNext ==
    \/ \E kind \in {"stream", "native"} : StartHandoff(kind)
    \/ \E kind \in {"stream", "native", "acp"} : StartRun(kind) \/ RunRefused(kind)
    \/ Review \/ Confirm \/ Launch \/ CannotLaunch \/ Forks
    \/ \E ended \in {"exited", "cancelled", "asks", "spawn failed", "interrupted"} : Ends(ended)
    \/ Escapes \/ Fallback \/ Record \/ TuiKilled
    \/ \E f \in Files : CliWrites(f)
=============================================================================
