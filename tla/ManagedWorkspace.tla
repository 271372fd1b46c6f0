-------------------------- MODULE ManagedWorkspace --------------------------
(***************************************************************************)
(* A workspace that the managed harness, the interactive workspace and     *)
(* outsiders work in: DeepHarness and ProviderRun over one lock and the    *)
(* same files.                                                             *)
(***************************************************************************)
EXTENDS DeepHarness, ProviderRun

\* A command's container and proxy are of its own, not the provider's processes.
ASSUME WorkspaceAssumption ==
    Tui \notin Harness /\ \A c \in Commands : {Box[c], Proxy[c]} \cap Group = {}

vars == <<lockVars, harnessVars, providerVars>>

Init == LockInit /\ HarnessInit /\ ProviderInit

Next ==
    \/ HarnessNext /\ UNCHANGED providerVars
    \/ ProviderNext /\ UNCHANGED harnessVars
    \/ (\E f \in Files : Edit(f)) /\ UNCHANGED <<harnessVars, providerVars>>

Spec == Init /\ [][Next]_vars

-----------------------------------------------------------------------------
\* A provider, a command's container and its proxy run under the lock of the JRX
\* process that started them, so one JRX process at a time: when their run has ended,
\* timed out, failed in a way that JRX handles, or was cancelled or interrupted, they
\* are gone before the lock is.  (What runs on after JRX was killed, after an exception
\* that got out of it, after a removal that was reported to have failed, or in the
\* background of a provider that has ended, is excepted.)  [WorkspaceLock, the finally
\* of run_command and run_acp, launch_native, stream_structured]
OneWriter == \A m \in Managed : Running(m) => holder = owner[m]

\* While an approved run, or a provider with a checkpoint, is at work, each file that a
\* snapshot tells of is as the user reviewed it, or was changed by this very run, or by
\* an outsider after the last comparison.  (Of the files that no snapshot tells of,
\* what Git ignores, or all of them outside Git, nothing is said.)  [review_digest in
\* run, refresh_workspace_snapshot, the lock held from the comparison to the end]
AsReviewed ==
    LET Untouched(seenFiles, own) ==
            \A before \in seenFiles, f \in Seen :
                \/ files[f] = before[f]
                \/ author[f] \in own
                \/ touched /\ author[f] = Outsider
    IN  /\ Untouched(basis, Calls \cup {Box[c] : c \in Commands})
        /\ at[Tui] = "running" /\ run.lent => Untouched(reviewed, Group)

\* A call that needs approval is evaluated and run only in a round that the user
\* approved, and no approval is taken for a round one of whose calls has changed such
\* a file already: also when JRX died or failed in the middle, and the graph has gone
\* further than the record.  [interrupt_on, the ids in Command(resume), review_digest]
ApprovalsBind ==
    [][/\ \A c \in Gated : step[c] # "evaluate" /\ step'[c] = "evaluate" => graph.round \in approved
       /\ basis = {} /\ basis' # {} => rec.pending \notin landed]_vars

\* No call is made that the record on disk has not counted, and the count stays in
\* the budget, whatever the order of the workers and of the processes that resume the
\* session, and wherever they die.  [_reserve, _save, the load under the lock in run]
CallsCounted ==
    \A k \in {"model", "tool"} : ran[k] <= rec[k] /\ rec[k] <= Limit(k)

\* "Recovery does not replay the interrupted action automatically": a command that has
\* changed its file in this round is not started again.
RecoveryDoesNotReplay ==
    [][\A c \in Commands : step[c] = "off" /\ step'[c] = "start" =>
         Fits(c) \/ author[Target[c]] # Box[c]]_vars

\* A file that changed after a write's last comparison was changed by an outsider, a
\* provider or a command, and not by another write.  [the lock of build_tools]
ToolsDoNotClobber ==
    [][\A c \in Gated : step[c] = "replace" /\ step'[c] = "done" =>
         Fits(c) \/ author[Target[c]] \notin Calls]_vars

\* A checkpoint whose record says that it was not handed over was not: the record
\* is ahead of the launch, and says more only of what happened.  [record_delivery]
DeliveryIsTold == sent => task.delivery \notin {"prepared", "declined", "changed", "invalid"}

\* "JRX cancelled the provider process tree": after a cancellation no process of the
\* provider's group is left.
CancelStopsTree ==
    [][Ends("cancelled") => \A m \in Group : owner'[m] = Nobody]_vars
=============================================================================
