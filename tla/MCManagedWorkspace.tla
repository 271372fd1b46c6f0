------------------------- MODULE MCManagedWorkspace -------------------------
\* A small workspace: one session, the interactive workspace, two writes of one file,
\* a command and a read-only worker; Git ignores a second file.
EXTENDS ManagedWorkspace, TLC

CONSTANTS h, u, w1, w2, c1, t1, box, proxy, cli, child, f1, f2

MCKind == w1 :> "write" @@ w2 :> "write" @@ c1 :> "command" @@ t1 :> "task"
MCTarget == [c \in {w1, w2, c1, t1} |-> f1]
MCPlans == {{w1, w2}, {w1, c1}, {t1}}
MCBox == c1 :> box
MCProxy == c1 :> proxy

\* States that differ in what no later step or property reads are one: what is loose
\* writes as outsiders do; who wrote a file, and when, matters to a run of the harness
\* or of a handoff; no snapshot tells of f2, and no call has it for a target; the task
\* record, when no handoff is under way, matters to DeliveryIsTold only.
MCView ==
    <<at, holder, [f \in Seen |-> files[f]], version,
      [m \in Managed |-> IF Running(m) THEN owner[m] ELSE Nobody],
      IF at[h] = "running" \/ run.lent THEN <<[f \in Seen |-> author[f]], touched>> ELSE <<>>,
      IF graph.calls = {} THEN <<>> ELSE <<expects>>,
      rec, graph, step, seen, toolLock, ran, approved, landed, basis, run, reviewed,
      IF run.lent THEN <<task, sent>> ELSE <<DeliveryIsTold>>>>
=============================================================================
