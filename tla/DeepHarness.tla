----------------------------- MODULE DeepHarness ----------------------------
(***************************************************************************)
(* One durable session of the managed harness (HarnessSession): its record *)
(* on disk, the calls of the model and of the tools against a budget that  *)
(* the coordinator, its workers and all processes that resume the session  *)
(* share, the approval of a round of calls that is bound to the workspace  *)
(* as it was reviewed, and the tools that write and run commands.          *)
(*                                                                         *)
(* LangGraph is external: its checkpoint outlives a crash, it runs the     *)
(* calls of a round in parallel, keeps those that have answered, and runs  *)
(* the others again when the session is resumed.  An answer to an          *)
(* interrupt counts only for the interrupt whose id it names.              *)
(***************************************************************************)
EXTENDS WorkspaceLock

CONSTANTS Harness,              \* the JRX processes that run the session
          Calls, Kind, Target,  \* tool calls: what each is, the file it writes
          Plans,                \* the sets of calls that the model may ask for
          Lead,                 \* the coordinator
          MaxModel, MaxTool,    \* the budget
          Box, Proxy,           \* container and egress proxy of a command
          Git                   \* the workspace is in Git: approvals need that

Workers == Calls \cup {Lead}
Gated == {c \in Calls : Kind[c] \in {"write", "command"}}
Commands == {c \in Calls : Kind[c] = "command"}

ASSUME HarnessAssumption ==
    /\ Harness \subseteq Jrx /\ Lead \notin Calls
    /\ Calls \cap (Managed \cup {Outsider, Nobody}) = {}    \* authors and holders are told apart
    /\ MaxModel \in Nat /\ MaxTool \in Nat
    /\ Git \in BOOLEAN /\ (~Git => Seen = {})
    /\ Plans \subseteq (SUBSET Calls) \ {{}}
    /\ Kind \in [Calls -> {"write", "command", "task"}] /\ Target \in [Calls -> Files]
    /\ \A c \in Commands : {Box[c], Proxy[c]} \subseteq Managed

VARIABLES rec,       \* the session record: on disk, and the same in the process that runs it
          graph,     \* LangGraph's checkpoint
          step,      \* where each worker of the run stands
          seen,      \* the count that each worker read when it reserves a call
          toolLock,  \* of the file tools
          expects,   \* the version of its target that a write expects
          ran,       \* calls made, of each sort, but for those a recovery repeats (history)
          approved,  \* rounds approved (history)
          landed,    \* rounds with a call that changed one of Seen (history)
          basis      \* the workspace that the user saw when approving this run (history)

runVars == <<graph, step, seen, toolLock, expects, ran, landed>>
harnessVars == <<rec, runVars, approved, basis>>

HarnessInit ==
    /\ rec = [state |-> "new", pending |-> 0, digest |-> {}, model |-> 0, tool |-> 0]
    /\ graph = [at |-> "start", round |-> 0, calls |-> {}, done |-> {}]
    /\ step = [w \in Workers |-> "off"]
    /\ seen = [w \in Workers |-> 0] /\ toolLock = Nobody
    /\ expects = [c \in Calls |-> 0]
    /\ ran = [k \in {"model", "tool"} |-> 0]
    /\ approved = {} /\ landed = {} /\ basis = {}

Idle == \A w \in Workers : step[w] \in {"off", "done", "raised"}
Raised == \E w \in Workers : step[w] = "raised"
Go(w, from, to) == step[w] = from /\ step' = [step EXCEPT ![w] = to]

\* A call has changed f.
Landed(f) == landed' = IF f \in Seen THEN landed \cup {graph.round} ELSE landed

\* A tool that raises ends the run, or becomes a message to the model.
Raises(c, from) == \E to \in {"done", "raised"} : Go(c, from, to)

-----------------------------------------------------------------------------
\* run, up to the stream

\* The conditions of run, on the record r.
Accepts(r, task, decision, recover) ==
    /\ task => r.pending = 0
    /\ (decision # "none") = (r.pending # 0)
    /\ r.state \in {"running", "interrupted", "failed"} => recover
    /\ decision = "approve" => Git /\ r.digest = Snapshot
    /\ r.pending = 0 /\ r.state \in {"new", "completed"} => task

\* Where the graph goes on.  A task starts a new turn; an answer to its interrupt
\* lets the round run, or its other calls only; anything else resumes it.
Resumed(g, task, decision, pending) ==
    IF task THEN [g EXCEPT !.at = "model", !.calls = {}, !.done = {}]
    ELSE IF g.at # "gate" \/ pending # g.round THEN g
    ELSE LET calls == IF decision = "approve" THEN g.calls ELSE g.calls \ Gated
         IN [g EXCEPT !.at = IF calls = {} THEN "model" ELSE "tools", !.calls = calls]

\* A model call that was cut off is made again: the middleware's reservation is a
\* step of LangGraph's of its own, and done.
First(g) == CASE g.at = "model" -> "start" [] g.at = "reserved" -> "thinking" [] OTHER -> "off"

\* The record is read again under the lock.
Begin(p, task, decision, recover) ==
    /\ To(p, "idle", "running") /\ Acquire(p)
    /\ Accepts(rec, task, decision, recover)
    /\ rec' = [rec EXCEPT !.state = "running"]
    /\ graph' = Resumed(graph, task, decision, rec.pending)
    /\ step' = [w \in Workers |->
                  IF w = Lead THEN First(graph') ELSE
                  IF graph'.at = "tools" /\ w \in graph'.calls \ graph'.done THEN "start" ELSE "off"]
    /\ approved' = IF decision = "approve" THEN approved \cup {rec.pending} ELSE approved
    /\ basis' = IF decision = "approve" THEN rec.digest ELSE {}
    /\ touched' = FALSE
    /\ UNCHANGED <<files, version, author, owner, seen, toolLock, expects, ran, landed>>

-----------------------------------------------------------------------------
\* _reserve, before a model call and around a tool call; a worker of the
\* coordinator makes a model call of its own.

Sort(w) == IF w = Lead \/ step[w] \in {"ask", "asking"} THEN "model" ELSE "tool"
Limit(k) == IF k = "model" THEN MaxModel ELSE MaxTool
Reserving == [start |-> "reserving", ask |-> "asking"]

\* Mutant: _reserve takes no mutex.
MutexIgnored == TRUE

MutexFree == \A w \in Workers : step[w] \notin {"reserving", "asking"}

\* The deadline may have passed.
Reserve(p, w) ==
    /\ at[p] = "running" /\ step[w] \in {"start", "ask"} /\ MutexFree
    /\ \/ /\ rec[Sort(w)] < Limit(Sort(w))
          /\ step' = [step EXCEPT ![w] = Reserving[@]]
          /\ seen' = [seen EXCEPT ![w] = rec[Sort(w)]]
       \/ step' = [step EXCEPT ![w] = "raised"] /\ UNCHANGED seen
    /\ UNCHANGED <<lockVars, rec, graph, toolLock, expects, ran, landed, approved, basis>>

Body(w) ==
    IF Sort(w) = "model" THEN "thinking"
    ELSE CASE Kind[w] = "write" -> "evaluate" [] Kind[w] = "command" -> "evaluate" [] OTHER -> "ask"

Count(p, w) ==
    /\ at[p] = "running" /\ step[w] \in {"reserving", "asking"}
    /\ rec' = [rec EXCEPT ![Sort(w)] = seen[w] + 1]
    /\ step' = [step EXCEPT ![w] = Body(w)]
    /\ ran' = [ran EXCEPT ![Sort(w)] = @ + 1]
    /\ seen' = [seen EXCEPT ![w] = 0]
    /\ graph' = IF w = Lead THEN [graph EXCEPT !.at = "reserved"] ELSE graph
    /\ UNCHANGED <<lockVars, toolLock, expects, landed, approved, basis>>

\* The read-only worker has its answer.
Studied(p, c) ==
    /\ at[p] = "running" /\ Raises(c, "thinking")
    /\ UNCHANGED <<lockVars, rec, graph, seen, toolLock, expects, ran, landed, approved, basis>>

\* The coordinator asks for calls, or ends the turn.
Think(p) ==
    /\ at[p] = "running" /\ Go(Lead, "thinking", "off")
    /\ \/ \E calls \in Plans :
            /\ graph' = [at |-> "asked", round |-> graph.round + 1, calls |-> calls, done |-> {}]
            /\ expects' = [c \in Calls |-> IF c \in calls THEN files[Target[c]] ELSE 0]
       \/ graph' = [graph EXCEPT !.at = "end", !.calls = {}, !.done = {}] /\ UNCHANGED expects
    /\ UNCHANGED <<lockVars, rec, seen, toolLock, ran, landed, approved, basis>>

\* The human in the loop: a round with a call that needs approval is an interrupt.
Asked(p) ==
    LET free == graph.calls \cap Gated = {} IN
    /\ at[p] = "running" /\ graph.at = "asked" /\ Idle
    /\ graph' = [graph EXCEPT !.at = IF free THEN "tools" ELSE "gate"]
    /\ step' = [w \in Workers |-> IF free /\ w \in graph.calls THEN "start" ELSE "off"]
    /\ UNCHANGED <<lockVars, rec, seen, toolLock, expects, ran, landed, approved, basis>>

\* What has answered is in the checkpoint; the model is next when all have.
Answered(p, c) ==
    /\ at[p] = "running" /\ Go(c, "done", "off") /\ c \in graph.calls \ graph.done
    /\ graph' = [graph EXCEPT !.done = @ \cup {c}]
    /\ UNCHANGED <<lockVars, rec, seen, toolLock, expects, ran, landed, approved, basis>>

Turn(p) ==
    /\ at[p] = "running" /\ graph.at = "tools" /\ Idle /\ ~Raised /\ graph.done = graph.calls
    /\ graph' = [graph EXCEPT !.at = "model", !.calls = {}, !.done = {}]
    /\ step' = [step EXCEPT ![Lead] = "start"]
    /\ UNCHANGED <<lockVars, rec, seen, toolLock, expects, ran, landed, approved, basis>>

-----------------------------------------------------------------------------
\* run, after the stream.  The digest of the review may not be had; the record
\* then has the new requests with the old digest.

Leave(p) ==
    /\ at' = [at EXCEPT ![p] = "idle"] /\ Release(p)
    /\ step' = [w \in Workers |-> "off"]
    /\ basis' = {}
    /\ UNCHANGED <<files, version, author, touched, owner, graph, seen, toolLock, expects, ran,
                   landed, approved>>

Finish(p) ==
    LET waits == graph.at = "gate"
        found == [rec EXCEPT !.pending = IF waits THEN graph.round ELSE 0,
                              !.state = IF waits THEN "awaiting_approval" ELSE "completed"]
    IN  /\ at[p] = "running" /\ graph.at \in {"gate", "end"} /\ Idle /\ ~Raised
        /\ Leave(p)
        /\ \/ (waits => Git) /\ rec' = [found EXCEPT !.digest = IF waits THEN Snapshot ELSE {}]
           \/ waits /\ rec' = [found EXCEPT !.state = "failed"]

\* Mutant: a failed run binds its requests to the workspace it leaves.
FailureRebinds(r) == [r EXCEPT !.state = "failed", !.digest = Snapshot]

Failure(r) == [r EXCEPT !.state = "failed"]

\* The model's answer is an error or a worker raised, and those that run are waited
\* for; or the user interrupts.
Fail(p) ==
    /\ at[p] = "running"
    /\ \A w \in Workers : step[w] \in {"off", "start", "done", "raised"} \/ step[Lead] = "thinking"
    /\ Leave(p)
    /\ \/ rec' = [rec EXCEPT !.state = "interrupted"]
       \/ (Raised \/ step[Lead] = "thinking") /\ rec' = Failure(rec)

HarnessKilled(p) ==
    /\ p \in Harness /\ Killed(p)
    /\ step' = [w \in Workers |-> "off"] /\ seen' = [w \in Workers |-> 0]
    /\ toolLock' = Nobody /\ basis' = {}
    /\ UNCHANGED <<rec, graph, expects, ran, landed, approved>>

-----------------------------------------------------------------------------
\* The tools.  The evaluation holds no lock; it may refuse, or the deadline pass.

Evaluated(p, c) ==
    /\ at[p] = "running"
    /\ \/ Go(c, "evaluate", IF Kind[c] = "write" THEN "open" ELSE "prepare")
       \/ Raises(c, "evaluate")
    /\ UNCHANGED <<lockVars, rec, graph, seen, toolLock, expects, ran, landed, approved, basis>>

\* Mutant: the file tools share no lock.
ToolLockIgnored == TRUE

Fits(c) == files[Target[c]] = expects[c]
ToolLockFree == toolLock = Nobody

\* workspace_write: compared when it is opened and once more before it is replaced;
\* a new file is linked, which fails if it exists.
OpenFile(p, c) ==
    /\ at[p] = "running" /\ ToolLockFree
    /\ \/ Fits(c) /\ Go(c, "open", "staged") /\ toolLock' = c
       \/ ~Fits(c) /\ Raises(c, "open") /\ UNCHANGED toolLock
    /\ UNCHANGED <<lockVars, rec, graph, seen, expects, ran, landed, approved, basis>>

Recheck(p, c) ==
    /\ at[p] = "running" /\ expects[c] # 0
    /\ \/ Fits(c) /\ Go(c, "staged", "replace") /\ UNCHANGED toolLock
       \/ ~Fits(c) /\ Raises(c, "staged") /\ toolLock' = Nobody
    /\ UNCHANGED <<lockVars, rec, graph, seen, expects, ran, landed, approved, basis>>

Replace(p, c) ==
    /\ at[p] = "running" /\ toolLock' = Nobody
    /\ \/ /\ \/ Go(c, "replace", "done")
             \/ expects[c] = 0 /\ Fits(c) /\ Go(c, "staged", "done")
          /\ Write(c, Target[c]) /\ Landed(Target[c])
       \/ /\ expects[c] = 0 /\ ~Fits(c) /\ Raises(c, "staged")
          /\ UNCHANGED <<files, version, author, touched, landed>>
    /\ UNCHANGED <<at, holder, owner, rec, graph, seen, expects, ran, approved, basis>>

\* run_command: the proxy, then the container; both go, whatever happens.
Starts(p, m) == owner' = [owner EXCEPT ![m] = p]

\* A failed preparation removes what it made; that this fails too is not reported.
Prepare(p, c) ==
    /\ at[p] = "running"
    /\ \/ Go(c, "prepare", "launch") /\ Starts(p, Proxy[c])
       \/ Go(c, "prepare", "prepared badly") /\ UNCHANGED owner
    /\ UNCHANGED <<at, holder, files, version, author, touched, rec, graph, seen, toolLock, expects,
                   ran, landed, approved, basis>>

\* The deadline may have passed, or the container client not start.
RunClient(p, c) ==
    /\ at[p] = "running" /\ Go(c, "launch", "command")
    /\ \/ Starts(p, Box[c])
       \/ UNCHANGED owner
    /\ UNCHANGED <<at, holder, files, version, author, touched, rec, graph, seen, toolLock, expects,
                   ran, landed, approved, basis>>

CommandWrites(c, f) ==
    /\ Works(Box[c], f)
    /\ Landed(f)
    /\ UNCHANGED <<rec, graph, step, seen, toolLock, expects, ran, approved, basis>>

\* Mutant: the client is terminated, and the container left to itself.
RemovedProxyOnly(c) == {Proxy[c]}

\* The end of the command, its deadline or an error: the client is terminated, and
\* the container and the proxy are removed.  A removal that fails raises.
Removed(c) == {Box[c], Proxy[c]}

Cleanup(p, c) ==
    /\ at[p] = "running" /\ step[c] \in {"command", "prepared badly"}
    /\ \/ Stopped(Removed(c), {}) /\ Go(c, "command", "done")
       \/ \E loose \in SUBSET Removed(c) : Stopped(Removed(c), loose) /\ Raises(c, step[c])
    /\ UNCHANGED <<at, holder, files, version, author, touched, rec, graph, seen, toolLock, expects,
                   ran, landed, approved, basis>>

HarnessNext ==
    \/ \E p \in Harness :
        \/ \E task, recover \in BOOLEAN, decision \in {"none", "approve", "reject"} :
             Begin(p, task, decision, recover)
        \/ \E w \in Workers : Reserve(p, w) \/ Count(p, w)
        \/ Think(p) \/ Asked(p) \/ Turn(p) \/ Finish(p) \/ Fail(p) \/ HarnessKilled(p)
        \/ \E c \in Calls : Answered(p, c) \/ Studied(p, c) \/ Evaluated(p, c) \/ OpenFile(p, c) \/ Recheck(p, c) \/ Replace(p, c)
        \/ \E c \in Commands : Prepare(p, c) \/ RunClient(p, c) \/ Cleanup(p, c)
    \/ \E c \in Commands, f \in Files : CommandWrites(c, f)
=============================================================================
