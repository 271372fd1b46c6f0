--------------------------- MODULE WorkspaceProofs --------------------------
(***************************************************************************)
(* ManagedWorkspace, for any number of harness processes, calls, commands  *)
(* and files: who runs holds the lock, what JRX runs was started by who    *)
(* holds it (OneWriter), the record is ahead of the calls (CallsCounted),  *)
(* and the task record ahead of the launch (DeliveryIsTold).  On top of    *)
(* that, the files are as the user reviewed them (AsReviewed), approvals   *)
(* bind (ApprovalsBind), and no tool writes over another's work            *)
(* (ToolsDoNotClobber).                                                    *)
(***************************************************************************)
EXTENDS ManagedWorkspace, TLAPS

Busy == {"reserving", "asking"}       \* a worker in _reserve
Quiet == {"off", "done", "raised"}
Unsent == {"prepared", "declined", "changed", "invalid"}

Types ==
    /\ DOMAIN at = Jrx /\ DOMAIN owner = Managed /\ DOMAIN step = Workers
    /\ seen \in [Workers -> Nat] /\ ran \in [{"model", "tool"} -> Nat]
    /\ DOMAIN rec = {"state", "pending", "digest", "model", "tool"}
    /\ rec.model \in Nat /\ rec.tool \in Nat
    /\ DOMAIN run = {"kind", "lent", "ended"} /\ run.lent \in BOOLEAN /\ sent \in BOOLEAN
    /\ DOMAIN task = {"delivery", "process"}

\* Who is at work holds the lock: between a run and its fallback a lent one only.
LockInv ==
    /\ \A p \in Harness : at[p] # "idle" => holder = p
    /\ at[Tui] \in {"reviewing", "confirming", "running"} => holder = Tui
    /\ at[Tui] \in {"launching", "stopped"} /\ run.lent => holder = Tui

\* While the coordinator is at work, its calls are not.
LeadAlone == step[Lead] # "off" => \A c \in Calls : step[c] \in Quiet

\* What runs belongs to a command that has begun, or to the provider's run.
OwnerInv ==
    \A m \in Managed :
        /\ owner[m] \in Harness =>
             /\ at[owner[m]] # "idle"
             /\ \E c \in Commands : m \in {Box[c], Proxy[c]} /\ step[c] \in {"launch", "command"}
        /\ owner[m] = Tui => m \in Group /\ at[Tui] = "running"
        /\ owner[m] \in Jrx => owner[m] \in Harness \cup {Tui}

\* One worker reserves at a time, and what it read is the record still.
CountInv ==
    /\ \A k \in {"model", "tool"} : ran[k] <= rec[k] /\ rec[k] <= Limit(k)
    /\ \A v, w \in Workers : step[v] \in Busy /\ step[w] \in Busy => v = w
    /\ \A w \in Workers : step[w] \in Busy => seen[w] = rec[Sort(w)] /\ rec[Sort(w)] < Limit(Sort(w))

TaskInv ==
    /\ sent => task.delivery \notin Unsent
    /\ at[Tui] \in {"reviewing", "confirming"} => ~sent
    /\ at[Tui] \in {"launching", "running", "stopped"} /\ run.lent => task.delivery \notin Unsent

\* A checkpoint asks for calls only.
GraphInv == DOMAIN graph = {"at", "round", "calls", "done"} /\ graph.calls \subseteq Calls

WorkspaceInv == Types /\ LockInv /\ LeadAlone /\ OwnerInv /\ CountInv /\ TaskInv
-----------------------------------------------------------------------------
\* Facts on the constants.
LEMMA Constants ==
    /\ Tui \in Jrx /\ Harness \subseteq Jrx /\ Tui \notin Harness
    /\ Nobody \notin Jrx /\ Outsider \notin Jrx
    /\ Lead \in Workers /\ Calls \subseteq Workers /\ Lead \notin Calls /\ Commands \subseteq Calls
    /\ {Cli, Child} \subseteq Managed
    /\ \A c \in Commands : {Box[c], Proxy[c]} \subseteq Managed /\ {Box[c], Proxy[c]} \cap Group = {}
BY LockAssumption, HarnessAssumption, ProviderAssumption, WorkspaceAssumption DEF Workers, Commands

LEMMA Limits == \A w \in Workers : Sort(w) \in {"model", "tool"}
                  /\ MaxModel \in Nat /\ MaxTool \in Nat
BY HarnessAssumption DEF Sort

LEMMA InitInv == Init => WorkspaceInv
<1> SUFFICES ASSUME Init PROVE WorkspaceInv
    OBVIOUS
<1> USE Constants, Limits DEF Init, LockInit, HarnessInit, ProviderInit
<1>1. Types
    BY DEF Types, NoRun
<1>2. LockInv /\ OwnerInv /\ TaskInv
    BY DEF LockInv, OwnerInv, TaskInv, Unsent
<1>3. LeadAlone
    BY DEF LeadAlone
<1>4. CountInv
    <2>1. \A w \in Workers : step[w] \notin Busy
        BY DEF Busy
    <2> QED
        BY <2>1, HarnessAssumption DEF CountInv, Limit
<1> QED
    BY <1>1, <1>2, <1>3, <1>4 DEF WorkspaceInv

\* A step that takes no lock, starts and stops nothing and counts nothing.
LEMMA Plain ==
    ASSUME WorkspaceInv, UNCHANGED <<at, holder, owner, rec, seen, ran, providerVars>>,
           DOMAIN step' = Workers, LeadAlone',
           \A w \in Workers : step'[w] \in Busy => step'[w] = step[w],
           \A c \in Commands : step[c] \in {"launch", "command"} => step'[c] = step[c]
    PROVE  WorkspaceInv'
<1>1. Types'
    BY DEF WorkspaceInv, Types, providerVars
<1>2. LockInv' /\ TaskInv'
    BY DEF WorkspaceInv, LockInv, TaskInv, providerVars
<1>3. OwnerInv'
    BY Constants DEF WorkspaceInv, OwnerInv
<1>4. CountInv'
    BY DEF WorkspaceInv, CountInv, Sort, Limit
<1> QED
    BY <1>1, <1>2, <1>3, <1>4 DEF WorkspaceInv

\* A call goes from one step to another that is not in _reserve.
LEMMA CallGoes ==
    ASSUME WorkspaceInv, NEW c \in Calls, NEW from, NEW to, Go(c, from, to),
           UNCHANGED <<at, holder, owner, rec, seen, ran, providerVars>>,
           to \notin Busy, to \in Quiet \/ from \notin Quiet, from \notin {"launch", "command"}
    PROVE  WorkspaceInv'
<1>1. DOMAIN step' = Workers /\ step[c] = from /\ step' = [step EXCEPT ![c] = to]
    BY DEF WorkspaceInv, Types, Go
<1>2. LeadAlone'
    BY <1>1, Constants DEF WorkspaceInv, LeadAlone
<1>3. /\ \A w \in Workers : step'[w] \in Busy => step'[w] = step[w]
      /\ \A d \in Commands : step[d] \in {"launch", "command"} => step'[d] = step[d]
    BY <1>1, Constants DEF WorkspaceInv, Types
<1> QED
    BY <1>1, <1>2, <1>3, Plain

\* The holder is alone: who begins finds nobody at work, and nothing running.
LEMMA Alone ==
    ASSUME WorkspaceInv
    PROVE  /\ OneWriter
           /\ \A p \in Harness : at[p] # "idle" => holder = p
           /\ holder = Nobody => \A m \in Managed : ~Running(m)
<1> USE Constants DEF WorkspaceInv, LockInv, OwnerInv
<1>1. OneWriter
    BY DEF OneWriter, Running
<1> QED
    BY <1>1 DEF OneWriter, Running
-----------------------------------------------------------------------------
\* The harness

LEMMA BeginInv ==
    ASSUME WorkspaceInv, UNCHANGED providerVars,
           NEW p \in Harness, NEW task1 \in BOOLEAN, NEW recover \in BOOLEAN, NEW decision,
           Begin(p, task1, decision, recover)
    PROVE  WorkspaceInv'
<1>1. /\ holder = Nobody /\ holder' = p /\ at' = [at EXCEPT ![p] = "running"]
      /\ rec' = [rec EXCEPT !.state = "running"] /\ owner' = owner /\ seen' = seen /\ ran' = ran
    BY DEF Begin, To, Acquire
<1>2. step' = [w \in Workers |-> IF w = Lead THEN First(graph') ELSE
                 IF graph'.at = "tools" /\ w \in graph'.calls \ graph'.done THEN "start" ELSE "off"]
    BY DEF Begin
<1>3. First(graph') \in {"start", "thinking", "off"} /\ (First(graph') # "off" => graph'.at # "tools")
    <2>1. CASE graph'.at = "model"
        BY <2>1 DEF First
    <2>2. CASE graph'.at = "reserved"
        BY <2>2 DEF First
    <2>3. CASE graph'.at \notin {"model", "reserved"}
        BY <2>3 DEF First
    <2> QED
        BY <2>1, <2>2, <2>3
<1>4. \A w \in Workers : step'[w] \in {"start", "thinking", "off"}
    BY <1>2, <1>3
<1>5. Types'
    BY <1>1, <1>2 DEF WorkspaceInv, Types, providerVars
<1>6. LockInv' /\ TaskInv'
    BY <1>1, Constants DEF WorkspaceInv, Types, LockInv, TaskInv, providerVars
<1>7. LeadAlone'
    BY <1>2, <1>3, Constants DEF LeadAlone, Quiet
<1>8. OwnerInv'
    BY <1>1, Alone, Constants DEF WorkspaceInv, OwnerInv, Running
<1>9. CountInv'
    BY <1>1, <1>4 DEF WorkspaceInv, Types, CountInv, Busy, Limit
<1> QED
    BY <1>5, <1>6, <1>7, <1>8, <1>9 DEF WorkspaceInv

\* The mutex makes the count that is read the count that is there when it is saved.
LEMMA ReserveInv ==
    ASSUME WorkspaceInv, UNCHANGED providerVars, NEW p \in Harness, NEW w \in Workers, Reserve(p, w)
    PROVE  WorkspaceInv'
<1>1. /\ UNCHANGED <<at, holder, owner, rec, ran>> /\ step[w] \in {"start", "ask"}
      /\ \A v \in Workers : step[v] \notin Busy
    BY DEF Reserve, MutexFree, lockVars, Busy
<1>2. CASE step' = [step EXCEPT ![w] = "raised"] /\ UNCHANGED seen
    <2>1. DOMAIN step' = Workers /\ LeadAlone'
        BY <1>2, <1>1, Constants DEF WorkspaceInv, Types, LeadAlone, Quiet
    <2>2. \A v \in Workers : step'[v] \notin Busy
        BY <1>1, <1>2 DEF WorkspaceInv, Types, Busy
    <2>3. \A c \in Commands : step[c] \in {"launch", "command"} => step'[c] = step[c]
        BY <1>1, <1>2, Constants DEF WorkspaceInv, Types
    <2> QED
        BY <1>1, <1>2, <2>1, <2>2, <2>3, Plain
<1>3. CASE /\ rec[Sort(w)] < Limit(Sort(w))
           /\ step' = [step EXCEPT ![w] = Reserving[@]]
           /\ seen' = [seen EXCEPT ![w] = rec[Sort(w)]]
    <2>1. step' = [step EXCEPT ![w] = IF step[w] = "start" THEN "reserving" ELSE "asking"]
        <3>1. Reserving[step[w]] = IF step[w] = "start" THEN "reserving" ELSE "asking"
            BY <1>1 DEF Reserving
        <3> QED
            BY <1>3, <3>1
    <2>2. Types'
        BY <1>1, <1>3, <2>1, Limits DEF WorkspaceInv, Types, providerVars
    <2>3. LockInv' /\ TaskInv'
        BY <1>1 DEF WorkspaceInv, LockInv, TaskInv, providerVars
    <2>4. LeadAlone'
        BY <1>1, <2>1, Constants DEF WorkspaceInv, Types, LeadAlone, Quiet
    <2>5. OwnerInv'
        BY <1>1, <2>1, Constants DEF WorkspaceInv, Types, OwnerInv
    <2>6. CountInv'
        <3>1. \A v \in Workers : step'[v] \in Busy => v = w
            BY <1>1, <2>1 DEF WorkspaceInv, Types
        <3>2. Sort(w)' = Sort(w)
            BY <1>1, <2>1 DEF WorkspaceInv, Types, Sort
        <3>3. seen'[w] = rec[Sort(w)]
            BY <1>3 DEF WorkspaceInv, Types
        <3> QED
            BY <1>1, <1>3, <3>1, <3>2, <3>3 DEF WorkspaceInv, CountInv, Limit
    <2> QED
        BY <2>2, <2>3, <2>4, <2>5, <2>6 DEF WorkspaceInv
<1> QED
    BY <1>2, <1>3 DEF Reserve

LEMMA CountStepInv ==
    ASSUME WorkspaceInv, UNCHANGED providerVars, NEW p \in Harness, NEW w \in Workers, Count(p, w)
    PROVE  WorkspaceInv'
<1> DEFINE k == Sort(w)
<1>1. /\ UNCHANGED <<at, holder, owner>> /\ step[w] \in Busy
      /\ rec' = [rec EXCEPT ![k] = seen[w] + 1] /\ ran' = [ran EXCEPT ![k] = @ + 1]
      /\ seen' = [seen EXCEPT ![w] = 0] /\ step' = [step EXCEPT ![w] = Body(w)]
    BY DEF Count, lockVars, Busy
<1>2. k \in {"model", "tool"} /\ seen[w] = rec[k] /\ rec[k] < Limit(k)
    BY <1>1, Limits DEF WorkspaceInv, CountInv
<1>3. Body(w) \in {"thinking", "evaluate", "ask"}
    BY DEF Body
<1> HIDE DEF k
<1>4. /\ rec.model \in Nat /\ rec.tool \in Nat /\ ran[k] \in Nat /\ rec[k] \in Nat
      /\ Limit("model") \in Nat /\ Limit("tool") \in Nat
    BY <1>2, Limits DEF WorkspaceInv, Types, Limit
<1>5. Types'
    BY <1>1, <1>2, <1>4 DEF WorkspaceInv, Types, providerVars
<1>6. LockInv' /\ TaskInv'
    BY <1>1 DEF WorkspaceInv, LockInv, TaskInv, providerVars
<1>7. LeadAlone'
    BY <1>1, Constants DEF WorkspaceInv, Types, LeadAlone, Quiet, Busy
<1>8. OwnerInv'
    BY <1>1, Constants DEF WorkspaceInv, Types, OwnerInv, Busy
<1>9. CountInv'
    <2>1. \A v \in Workers : step'[v] \notin Busy
        BY <1>1, <1>3 DEF WorkspaceInv, Types, CountInv, Busy
    <2>2. \A j \in {"model", "tool"} : ran'[j] <= rec'[j] /\ rec'[j] <= Limit(j)
        BY <1>1, <1>2, <1>4 DEF WorkspaceInv, Types, CountInv
    <2> QED
        BY <2>1, <2>2 DEF CountInv, Limit
<1> QED
    BY <1>5, <1>6, <1>7, <1>8, <1>9 DEF WorkspaceInv
\* The steps of a call that start and stop nothing.
LEMMA CallInv ==
    ASSUME WorkspaceInv, UNCHANGED providerVars, NEW p \in Harness, NEW c \in Calls,
           \/ Answered(p, c) \/ Studied(p, c) \/ Evaluated(p, c)
           \/ OpenFile(p, c) \/ Recheck(p, c) \/ Replace(p, c)
    PROVE  WorkspaceInv'
<1> SUFFICES ASSUME NEW from, NEW to, Go(c, from, to),
                    UNCHANGED <<at, holder, owner, rec, seen, ran>>,
                    \/ from = "done" /\ to = "off"
                    \/ from \in {"thinking", "evaluate", "open", "staged", "replace"}
                         /\ to \in {"done", "raised", "open", "prepare", "staged", "replace"}
             PROVE  WorkspaceInv'
    <2>1. CASE Answered(p, c)
        BY <2>1 DEF Answered, lockVars
    <2>2. CASE Studied(p, c)
        BY <2>2 DEF Studied, Raises, lockVars
    <2>3. CASE Evaluated(p, c)
        BY <2>3 DEF Evaluated, Raises, lockVars
    <2>4. CASE OpenFile(p, c)
        BY <2>4 DEF OpenFile, Raises, lockVars
    <2>5. CASE Recheck(p, c)
        BY <2>5 DEF Recheck, Raises, lockVars
    <2>6. CASE Replace(p, c)
        BY <2>6 DEF Replace, Raises, Write
    <2> QED
        BY <2>1, <2>2, <2>3, <2>4, <2>5, <2>6
<1> QED
    BY CallGoes DEF Busy, Quiet

LEMMA GraphStep == GraphInv /\ [Next]_vars => GraphInv'
<1> SUFFICES ASSUME GraphInv, [Next]_vars PROVE GraphInv'
    OBVIOUS
<1> USE DEF GraphInv
<1>1. ASSUME NEW p \in Harness, NEW task1 \in BOOLEAN, NEW recover \in BOOLEAN, NEW decision,
             Begin(p, task1, decision, recover)
      PROVE  GraphInv'
    BY <1>1 DEF Begin, Resumed
<1>2. ASSUME NEW p \in Harness, NEW w \in Workers, Count(p, w)
      PROVE  GraphInv'
    BY <1>2 DEF Count
<1>3. ASSUME NEW p \in Harness, Think(p)
      PROVE  GraphInv'
    <2>1. ASSUME NEW calls \in Plans,
                 graph' = [at |-> "asked", round |-> graph.round + 1, calls |-> calls, done |-> {}]
          PROVE  GraphInv'
        BY <2>1, HarnessAssumption
    <2> QED
        BY <1>3, <2>1 DEF Think
<1>4. ASSUME NEW p \in Harness, Asked(p) \/ Turn(p)
      PROVE  GraphInv'
    BY <1>4 DEF Asked, Turn
<1>5. ASSUME NEW p \in Harness, NEW c \in Calls, Answered(p, c)
      PROVE  GraphInv'
    BY <1>5 DEF Answered
<1>6. ASSUME UNCHANGED graph PROVE GraphInv'
    BY <1>6
<1>7. CASE HarnessNext
    <2>1. ASSUME NEW p \in Harness, NEW w \in Workers, Reserve(p, w) PROVE UNCHANGED graph
        BY <2>1 DEF Reserve
    <2>2. ASSUME NEW p \in Harness, Finish(p) \/ Fail(p) \/ HarnessKilled(p) PROVE UNCHANGED graph
        BY <2>2 DEF Finish, Fail, Leave, HarnessKilled
    <2>3. ASSUME NEW p \in Harness, NEW c \in Calls,
                 \/ Studied(p, c) \/ Evaluated(p, c) \/ OpenFile(p, c)
                 \/ Recheck(p, c) \/ Replace(p, c)
          PROVE  UNCHANGED graph
        BY <2>3 DEF Studied, Evaluated, OpenFile, Recheck, Replace
    <2>4. ASSUME NEW p \in Harness, NEW c \in Commands, Prepare(p, c) \/ RunClient(p, c) \/ Cleanup(p, c)
          PROVE  UNCHANGED graph
        BY <2>4 DEF Prepare, RunClient, Cleanup
    <2>5. ASSUME NEW c \in Commands, NEW f \in Files, CommandWrites(c, f) PROVE UNCHANGED graph
        BY <2>5 DEF CommandWrites
    <2> QED
        BY <1>1, <1>2, <1>3, <1>4, <1>5, <1>6, <1>7, <2>1, <2>2, <2>3, <2>4, <2>5 DEF HarnessNext
<1>8. CASE UNCHANGED harnessVars
    BY <1>8, <1>6 DEF harnessVars, runVars
<1> QED
    BY <1>7, <1>8 DEF Next, vars

\* The steps of the coordinator between its calls.
LEMMA LeadInv ==
    ASSUME WorkspaceInv, GraphInv, UNCHANGED providerVars, NEW p \in Harness,
           Think(p) \/ Asked(p) \/ Turn(p)
    PROVE  WorkspaceInv'
<1>1. UNCHANGED <<at, holder, owner, rec, seen, ran>>
    BY DEF Think, Asked, Turn, lockVars
<1>2. CASE Think(p)
    <2>1. step[Lead] = "thinking" /\ step' = [step EXCEPT ![Lead] = "off"]
        BY <1>2 DEF Think, Go
    <2> QED
        BY <1>1, <2>1, Plain, Constants DEF WorkspaceInv, Types, LeadAlone, Busy
<1>3. CASE Asked(p)
    <2> DEFINE runs == graph.calls \cap Gated = {}
    <2>1. /\ \A w \in Workers : step[w] \in Quiet
          /\ step' = [w \in Workers |-> IF runs /\ w \in graph.calls THEN "start" ELSE "off"]
        BY <1>3 DEF Asked, Idle, Quiet
    <2>2. step'[Lead] = "off" /\ \A w \in Workers : step'[w] \in {"start", "off"}
        BY <2>1, Constants DEF GraphInv
    <2> QED
        BY <1>1, <2>1, <2>2, Plain, Constants DEF LeadAlone, Busy, Quiet
<1>4. CASE Turn(p)
    <2>1. (\A w \in Workers : step[w] \in Quiet) /\ step' = [step EXCEPT ![Lead] = "start"]
        BY <1>4 DEF Turn, Idle, Quiet
    <2> QED
        BY <1>1, <2>1, Plain, Constants DEF WorkspaceInv, Types, LeadAlone, Busy, Quiet
<1> QED
    BY <1>2, <1>3, <1>4
\* The end of a run: the calls have ended, or none was at work, and nothing runs.
LEMMA LeaveInv ==
    ASSUME WorkspaceInv, UNCHANGED providerVars, NEW p \in Harness, at[p] = "running",
           at' = [at EXCEPT ![p] = "idle"], holder' = Nobody \/ (holder' = holder /\ holder # p),
           step' = [w \in Workers |-> "off"], UNCHANGED <<owner, ran>>, seen' \in [Workers -> Nat],
           \A m \in Managed : owner[m] # p,
           DOMAIN rec' = DOMAIN rec, rec'.model = rec.model, rec'.tool = rec.tool
    PROVE  WorkspaceInv'
<1>1. Types'
    BY Constants DEF WorkspaceInv, Types, providerVars
<1>2. LockInv' /\ TaskInv'
    BY Constants DEF WorkspaceInv, Types, LockInv, TaskInv, providerVars
<1>3. LeadAlone'
    BY Constants DEF LeadAlone
<1>4. OwnerInv'
    BY Alone, Constants DEF WorkspaceInv, Types, LockInv, OwnerInv
<1>5. CountInv'
    BY DEF WorkspaceInv, CountInv, Busy, Limit
<1> QED
    BY <1>1, <1>2, <1>3, <1>4, <1>5 DEF WorkspaceInv
LEMMA EndInv ==
    ASSUME WorkspaceInv, UNCHANGED providerVars, NEW p \in Harness, Finish(p) \/ Fail(p)
    PROVE  WorkspaceInv'
<1>1. /\ at[p] = "running" /\ at' = [at EXCEPT ![p] = "idle"]
      /\ holder' = IF holder = p THEN Nobody ELSE holder
      /\ step' = [w \in Workers |-> "off"] /\ UNCHANGED <<owner, ran, seen>>
    BY DEF Finish, Fail, Leave, Release
<1>2. \A c \in Commands : step[c] \notin {"launch", "command"}
    <2>1. CASE Finish(p)
        BY <2>1, Constants DEF Finish, Idle
    <2>2. CASE Fail(p)
        BY <2>2, Constants DEF Fail, WorkspaceInv, LeadAlone, Quiet
    <2> QED
        BY <2>1, <2>2
<1>3. \A m \in Managed : owner[m] # p
    BY <1>2 DEF WorkspaceInv, OwnerInv
<1>4. DOMAIN rec' = DOMAIN rec /\ rec'.model = rec.model /\ rec'.tool = rec.tool
    <2>1. CASE Finish(p)
        BY <2>1 DEF Finish, WorkspaceInv, Types
    <2>2. CASE Fail(p)
        BY <2>2 DEF Fail, Failure, WorkspaceInv, Types
    <2> QED
        BY <2>1, <2>2
<1>5. seen' \in [Workers -> Nat] /\ UNCHANGED <<owner, ran>>
    BY <1>1 DEF WorkspaceInv, Types
<1>6. holder' = Nobody \/ (holder' = holder /\ holder # p)
    BY <1>1
<1>7. /\ at[p] = "running" /\ at' = [at EXCEPT ![p] = "idle"]
      /\ step' = [w \in Workers |-> "off"]
    BY <1>1
<1> QED
    BY <1>3, <1>4, <1>5, <1>6, <1>7, LeaveInv

LEMMA KilledInv ==
    ASSUME WorkspaceInv, UNCHANGED providerVars, NEW p \in Harness, HarnessKilled(p)
    PROVE  WorkspaceInv'
<1>1. /\ at[p] # "idle" /\ at' = [at EXCEPT ![p] = "idle"]
      /\ holder' = IF holder = p THEN Nobody ELSE holder
      /\ owner' = [m \in Managed |-> IF owner[m] # p THEN owner[m]
                                     ELSE IF Running(m) THEN Outsider ELSE Nobody]
      /\ step' = [w \in Workers |-> "off"] /\ seen' = [w \in Workers |-> 0]
      /\ UNCHANGED <<rec, ran>>
    BY DEF HarnessKilled, Killed, Release, Stopped
<1>2. \A m \in Managed : owner'[m] \notin Jrx
    BY <1>1, Alone, Constants DEF OneWriter, Running
<1>3. Types'
    BY <1>1 DEF WorkspaceInv, Types, providerVars
<1>4. LockInv' /\ TaskInv'
    BY <1>1, Constants DEF WorkspaceInv, Types, LockInv, TaskInv, providerVars
<1>5. LeadAlone'
    BY <1>1, Constants DEF LeadAlone
<1>6. OwnerInv'
    BY <1>2, Constants DEF OwnerInv
<1>7. CountInv'
    BY <1>1 DEF WorkspaceInv, CountInv, Busy, Limit
<1> QED
    BY <1>3, <1>4, <1>5, <1>6, <1>7 DEF WorkspaceInv

\* A command's step: what it starts is its own, and what it leaves is stopped.
LEMMA CommandInv ==
    ASSUME WorkspaceInv, UNCHANGED providerVars, NEW p \in Harness, NEW c \in Commands,
           Prepare(p, c) \/ RunClient(p, c) \/ Cleanup(p, c)
    PROVE  WorkspaceInv'
<1>1. /\ at[p] = "running" /\ UNCHANGED <<at, holder, rec, seen, ran>>
    BY DEF Prepare, RunClient, Cleanup
<1>2. PICK to \in {"launch", "command", "prepared badly", "done", "raised"} :
         /\ step' = [step EXCEPT ![c] = to]
         /\ step[c] \notin Quiet
         /\ DOMAIN owner' = Managed
         /\ to \in {"launch", "command"} =>
              \A m \in Managed : owner'[m] = owner[m] \/ (m \in {Box[c], Proxy[c]} /\ owner'[m] = p)
         /\ to \notin {"launch", "command"} =>
              \A m \in Managed :
                 \/ owner'[m] = owner[m] /\ (m \notin {Box[c], Proxy[c]} \/ step[c] = "prepare")
                 \/ owner'[m] \in {Outsider, Nobody}
    <2>1. CASE Prepare(p, c)
        <3>1. CASE Go(c, "prepare", "launch") /\ Starts(p, Proxy[c])
            BY <3>1 DEF Go, Starts, Quiet, WorkspaceInv, Types
        <3>2. CASE Go(c, "prepare", "prepared badly") /\ UNCHANGED owner
            BY <3>2 DEF Go, Quiet, WorkspaceInv, Types
        <3> QED
            BY <2>1, <3>1, <3>2 DEF Prepare
    <2>2. CASE RunClient(p, c)
        <3>1. step[c] \notin Quiet /\ step' = [step EXCEPT ![c] = "command"]
            BY <2>2 DEF RunClient, Go, Quiet
        <3>2. /\ DOMAIN owner' = Managed
              /\ \A m \in Managed : owner'[m] = owner[m] \/ (m \in {Box[c], Proxy[c]} /\ owner'[m] = p)
            BY <2>2 DEF RunClient, Starts, WorkspaceInv, Types
        <3> QED
            BY <3>1, <3>2
    <2>3. CASE Cleanup(p, c)
        <3>1. PICK loose \in SUBSET Removed(c) : Stopped(Removed(c), loose)
            BY <2>3 DEF Cleanup
        <3>2. /\ DOMAIN owner' = Managed
              /\ \A m \in Managed : \/ owner'[m] = owner[m] /\ m \notin {Box[c], Proxy[c]}
                                    \/ owner'[m] \in {Outsider, Nobody}
            BY <3>1 DEF Stopped, Removed
        <3>3. step[c] \notin Quiet /\ \E to \in {"done", "raised"} : step' = [step EXCEPT ![c] = to]
            BY <2>3 DEF Cleanup, Go, Raises, Quiet
        <3> QED
            BY <3>2, <3>3
    <2> QED
        BY <2>1, <2>2, <2>3
<1>3. holder = p
    BY <1>1 DEF WorkspaceInv, LockInv
<1>4. Types'
    BY <1>1, <1>2 DEF WorkspaceInv, Types, providerVars
<1>5. LockInv' /\ TaskInv'
    BY <1>1 DEF WorkspaceInv, LockInv, TaskInv, providerVars
<1>6. LeadAlone'
    BY <1>2, Constants DEF WorkspaceInv, Types, LeadAlone, Quiet
<1>7. OwnerInv'
    <2> SUFFICES ASSUME NEW m \in Managed
                 PROVE  /\ owner'[m] \in Harness =>
                             /\ at'[owner'[m]] # "idle"
                             /\ \E d \in Commands : m \in {Box[d], Proxy[d]}
                                                      /\ step'[d] \in {"launch", "command"}
                        /\ owner'[m] = Tui => m \in Group /\ at'[Tui] = "running"
                        /\ owner'[m] \in Jrx => owner'[m] \in Harness \cup {Tui}
        BY DEF OwnerInv
    <2>1. CASE owner'[m] = owner[m] /\ (m \notin {Box[c], Proxy[c]} \/ step[c] \notin {"launch", "command"})
        <3>1. /\ owner[m] \in Harness => at[owner[m]] # "idle"
              /\ owner[m] = Tui => m \in Group /\ at[Tui] = "running"
              /\ owner[m] \in Jrx => owner[m] \in Harness \cup {Tui}
            BY DEF WorkspaceInv, OwnerInv
        <3>2. ASSUME owner[m] \in Harness
              PROVE  \E d \in Commands : m \in {Box[d], Proxy[d]} /\ step'[d] \in {"launch", "command"}
            <4>1. PICK d \in Commands : m \in {Box[d], Proxy[d]} /\ step[d] \in {"launch", "command"}
                BY <3>2 DEF WorkspaceInv, OwnerInv
            <4>2. d # c
                BY <2>1, <4>1
            <4>3. step'[d] = step[d]
                BY <1>2, <4>2, Constants DEF WorkspaceInv, Types
            <4> QED
                BY <4>1, <4>3
        <3> QED
            BY <1>1, <2>1, <3>1, <3>2
    <2>2. CASE owner'[m] \in {Outsider, Nobody}
        BY <2>2, Constants
    <2>3. CASE m \in {Box[c], Proxy[c]} /\ step'[c] \in {"launch", "command"} /\ owner'[m] = p
        BY <1>1, <2>3, Constants
    <2>4. CASE m \in {Box[c], Proxy[c]} /\ step'[c] \in {"launch", "command"} /\ owner'[m] = owner[m]
        BY <1>1, <2>4, Constants DEF WorkspaceInv, OwnerInv
    <2> QED
        BY <1>2, <2>1, <2>2, <2>3, <2>4, Constants DEF WorkspaceInv, Types
<1>8. CountInv'
    BY <1>1, <1>2, Constants DEF WorkspaceInv, Types, CountInv, Sort, Limit, Busy
<1> QED
    BY <1>4, <1>5, <1>6, <1>7, <1>8 DEF WorkspaceInv

LEMMA HarnessInv ==
    ASSUME WorkspaceInv, GraphInv, HarnessNext, UNCHANGED providerVars
    PROVE  WorkspaceInv'
<1>1. ASSUME NEW c \in Commands, NEW f \in Files, CommandWrites(c, f) PROVE WorkspaceInv'
    <2>1. UNCHANGED <<at, holder, owner, rec, seen, ran, step>>
        BY <1>1 DEF CommandWrites, Works
    <2> QED
        BY <2>1, Plain DEF WorkspaceInv, Types, LeadAlone
<1> QED
    BY <1>1, BeginInv, ReserveInv, CountStepInv, CallInv, LeadInv, EndInv, KilledInv, CommandInv
    DEF HarnessNext
-----------------------------------------------------------------------------
\* The provider

\* What a step of the interactive workspace has to keep.
LEMMA TuiStep ==
    ASSUME WorkspaceInv, UNCHANGED harnessVars, NEW to,
           DOMAIN at' = Jrx, at'[Tui] = to, \A p \in Harness : at'[p] = at[p],
           \/ holder' = holder
           \/ holder = Nobody /\ holder' = Tui
           \/ holder = Tui /\ holder' = Nobody,
           to \in {"reviewing", "confirming", "running"} => holder' = Tui,
           to \in {"launching", "stopped"} /\ run'.lent => holder' = Tui,
           DOMAIN owner' = Managed,
           \A m \in Managed : owner'[m] = owner[m] \/ owner'[m] \notin Jrx \/ owner'[m] = Tui,
           \A m \in Managed : owner'[m] = Tui => m \in Group /\ to = "running",
           DOMAIN run' = {"kind", "lent", "ended"}, run'.lent \in BOOLEAN, sent' \in BOOLEAN,
           DOMAIN task' = {"delivery", "process"},
           sent' => task'.delivery \notin Unsent,
           to \in {"reviewing", "confirming"} => ~sent',
           to \in {"launching", "running", "stopped"} /\ run'.lent => task'.delivery \notin Unsent
    PROVE  WorkspaceInv'
<1>1. UNCHANGED <<rec, step, seen, ran>>
    BY DEF harnessVars, runVars
<1>2. Types'
    BY <1>1 DEF WorkspaceInv, Types
<1>3. LockInv' /\ TaskInv'
    <2>1. \A p \in Harness : at'[p] # "idle" => holder' = p
        BY Constants DEF WorkspaceInv, LockInv
    <2> QED
        BY <2>1 DEF LockInv, TaskInv
<1>4. LeadAlone' /\ CountInv'
    BY <1>1 DEF WorkspaceInv, LeadAlone, CountInv, Sort, Limit
<1>5. OwnerInv'
    BY <1>1, Constants DEF WorkspaceInv, OwnerInv
<1> QED
    BY <1>2, <1>3, <1>4, <1>5 DEF WorkspaceInv

\* Outside a run nothing of the provider's is owned by JRX.
LEMMA NoneOfTui ==
    ASSUME WorkspaceInv, at[Tui] # "running"
    PROVE  \A m \in Managed : owner[m] # Tui
BY DEF WorkspaceInv, OwnerInv

LEMMA HandoffInv ==
    ASSUME WorkspaceInv, UNCHANGED harnessVars,
           (\E kind \in {"stream", "native"} : StartHandoff(kind)) \/ Review \/ Confirm
    PROVE  WorkspaceInv'
<1> USE Constants
<1>1. ASSUME NEW kind, StartHandoff(kind) PROVE WorkspaceInv'
    <2>1. at[Tui] = "idle" /\ at' = [at EXCEPT ![Tui] = "reviewing"] /\ holder = Nobody /\ holder' = Tui
        BY <1>1 DEF StartHandoff, To, Acquire
    <2>2. /\ run' = [kind |-> kind, lent |-> TRUE, ended |-> "no"] /\ sent' = FALSE
          /\ task' = [delivery |-> "prepared", process |-> "none"] /\ owner' = owner
        BY <1>1 DEF StartHandoff
    <2>3. /\ DOMAIN at' = Jrx /\ at'[Tui] = "reviewing" /\ \A p \in Harness : at'[p] = at[p]
          /\ DOMAIN owner' = Managed /\ \A m \in Managed : owner'[m] = owner[m] /\ owner'[m] # Tui
        BY <2>1, <2>2, NoneOfTui DEF WorkspaceInv, Types
    <2>4. /\ DOMAIN run' = {"kind", "lent", "ended"} /\ run'.lent = TRUE /\ ~sent'
          /\ sent' \in BOOLEAN /\ DOMAIN task' = {"delivery", "process"}
        BY <2>2
    <2> QED
        BY <2>1, <2>3, <2>4, TuiStep
<1>2. ASSUME NEW from \in {"reviewing", "confirming"}, NEW delivery, GiveUp(from, delivery)
      PROVE  WorkspaceInv'
    <2>1. /\ at[Tui] = from /\ at' = [at EXCEPT ![Tui] = "idle"]
          /\ holder' = (IF holder = Tui THEN Nobody ELSE holder)
          /\ run' = NoRun /\ task' = [task EXCEPT !.delivery = delivery] /\ UNCHANGED <<owner, sent>>
        BY <1>2 DEF GiveUp, To, Back, Release, Told
    <2>2. ~sent
        BY <1>2, <2>1 DEF WorkspaceInv, TaskInv
    <2> QED
        BY <2>1, <2>2, TuiStep, NoneOfTui DEF WorkspaceInv, Types, NoRun
<1>3. ASSUME To(Tui, "reviewing", "confirming"), UNCHANGED <<holder, owner, providerVars>>
      PROVE  WorkspaceInv'
    <2>1. at[Tui] = "reviewing" /\ at' = [at EXCEPT ![Tui] = "confirming"]
          /\ UNCHANGED <<holder, owner, run, task, sent>>
        BY <1>3 DEF To, providerVars
    <2> QED
        BY <2>1, TuiStep, NoneOfTui DEF WorkspaceInv, Types, LockInv, TaskInv
<1>4. ASSUME To(Tui, "confirming", "launching"), UNCHANGED <<holder, owner, run, sent>>,
             task' = [delivery |-> "passed", process |-> "starting"]
      PROVE  WorkspaceInv'
    <2>1. at[Tui] = "confirming" /\ at' = [at EXCEPT ![Tui] = "launching"] /\ task'.delivery \notin Unsent
        BY <1>4 DEF To, Unsent
    <2> QED
        BY <1>4, <2>1, TuiStep, NoneOfTui DEF WorkspaceInv, Types, LockInv
<1>5. CASE Review
    BY <1>2, <1>3, <1>5 DEF Review
<1>6. CASE Confirm
    BY <1>2, <1>4, <1>6 DEF Confirm
<1> QED
    BY <1>1, <1>5, <1>6

LEMMA StartsInv ==
    ASSUME WorkspaceInv, UNCHANGED harnessVars,
           \/ \E kind \in {"stream", "native", "acp"} : StartRun(kind) \/ RunRefused(kind)
           \/ Launch \/ CannotLaunch \/ Forks \/ (\E f \in Files : CliWrites(f))
    PROVE  WorkspaceInv'
<1> USE Constants
<1>1. Cli \in Managed /\ Child \in Managed /\ {Cli, Child} = Group
    BY DEF Group
<1>2. ASSUME NEW kind, StartRun(kind) PROVE WorkspaceInv'
    <2>1. /\ at' = [at EXCEPT ![Tui] = "running"] /\ owner' = [owner EXCEPT ![Cli] = Tui]
          /\ holder = Nobody /\ holder' = Tui /\ at[Tui] = "idle"
        BY <1>2 DEF StartRun, Start, Acquire
    <2>2. /\ run' = [kind |-> kind, lent |-> FALSE, ended |-> "no"] /\ sent' = FALSE
          /\ task' = [delivery |-> "direct", process |-> "starting"]
        BY <1>2 DEF StartRun
    <2>3. /\ DOMAIN at' = Jrx /\ at'[Tui] = "running" /\ \A p \in Harness : at'[p] = at[p]
          /\ DOMAIN owner' = Managed
          /\ \A m \in Managed : owner'[m] = owner[m] \/ owner'[m] \notin Jrx \/ owner'[m] = Tui
          /\ \A m \in Managed : owner'[m] = Tui => m \in Group
        BY <1>1, <2>1, NoneOfTui DEF WorkspaceInv, Types
    <2>4. /\ DOMAIN run' = {"kind", "lent", "ended"} /\ run'.lent = FALSE /\ ~sent'
          /\ sent' \in BOOLEAN /\ DOMAIN task' = {"delivery", "process"}
        BY <2>2
    <2> QED
        BY <2>1, <2>3, <2>4, TuiStep
<1>3. ASSUME NEW kind, RunRefused(kind) PROVE WorkspaceInv'
    <2>1. at[Tui] = "idle" /\ UNCHANGED <<at, holder, owner, run>> /\ sent' = FALSE
          /\ DOMAIN task' = {"delivery", "process"}
        BY <1>3 DEF RunRefused, lockVars
    <2> QED
        BY <2>1, TuiStep, NoneOfTui DEF WorkspaceInv, Types
<1>4. ASSUME Launch PROVE WorkspaceInv'
    <2>1. /\ at' = [at EXCEPT ![Tui] = "running"] /\ owner' = [owner EXCEPT ![Cli] = Tui]
          /\ at[Tui] = "launching" /\ UNCHANGED <<run, task>> /\ sent' = (sent \/ run.lent)
          /\ IF run.lent THEN holder' = holder ELSE holder = Nobody /\ holder' = Tui
        BY <1>4 DEF Launch, Start, Acquire
    <2>2. holder' = Tui /\ (holder' = holder \/ holder = Nobody)
        BY <2>1 DEF WorkspaceInv, LockInv
    <2>3. sent' \in BOOLEAN /\ (sent' => task.delivery \notin Unsent)
          /\ (run.lent => task.delivery \notin Unsent)
        BY <2>1 DEF WorkspaceInv, Types, TaskInv
    <2> QED
        BY <1>1, <2>1, <2>2, <2>3, TuiStep, NoneOfTui DEF WorkspaceInv, Types
<1>5. ASSUME CannotLaunch PROVE WorkspaceInv'
    <2>1. /\ at[Tui] = "launching" /\ at' = [at EXCEPT ![Tui] = "stopped"]
          /\ UNCHANGED <<holder, owner, task, sent>>
          /\ DOMAIN run' = DOMAIN run /\ run'.lent = run.lent
        BY <1>5 DEF CannotLaunch, To, WorkspaceInv, Types
    <2> QED
        BY <2>1, TuiStep, NoneOfTui DEF WorkspaceInv, Types, LockInv, TaskInv
<1>6. ASSUME Forks PROVE WorkspaceInv'
    <2>1. Running(Cli) /\ owner' = [owner EXCEPT ![Child] = Tui] /\ UNCHANGED <<at, holder, run, task, sent>>
        BY <1>6 DEF Forks, providerVars
    <2>2. owner[Cli] = Tui
        BY <1>1, <2>1 DEF Running, WorkspaceInv, OwnerInv
    <2>3. at[Tui] = "running"
        BY <1>1, <2>2 DEF WorkspaceInv, OwnerInv
    <2> QED
        BY <1>1, <2>1, <2>3, TuiStep DEF WorkspaceInv, Types, OwnerInv, LockInv, TaskInv
<1>7. ASSUME NEW f \in Files, CliWrites(f) PROVE WorkspaceInv'
    <2>1. UNCHANGED <<at, holder, owner, run, task, sent>>
        BY <1>7 DEF CliWrites, Works, providerVars
    <2> QED
        BY <2>1, TuiStep DEF WorkspaceInv, Types, OwnerInv, LockInv, TaskInv
<1> QED
    BY <1>2, <1>3, <1>4, <1>5, <1>6, <1>7

\* The ways a run ends.
LEMMA EndsInv ==
    ASSUME WorkspaceInv, UNCHANGED harnessVars,
           \/ \E ended \in {"exited", "cancelled", "asks", "spawn failed", "interrupted"} : Ends(ended)
           \/ Escapes \/ Fallback \/ Record \/ TuiKilled
    PROVE  WorkspaceInv'
<1> USE Constants
<1>1. /\ DOMAIN run = {"kind", "lent", "ended"} /\ DOMAIN task = {"delivery", "process"}
      /\ DOMAIN at = Jrx /\ DOMAIN owner = Managed /\ run.lent \in BOOLEAN /\ sent \in BOOLEAN
    BY DEF WorkspaceInv, Types
<1>3. \A r : /\ DOMAIN Recorded(r) = {"delivery", "process"}
             /\ Recorded(r).delivery \in {task.delivery, "cancelled", "failed"}
    BY <1>1 DEF Recorded
<1>4. ASSUME NEW ended, Ends(ended) PROVE WorkspaceInv'
    <2>1. at[Tui] = "running" /\ holder = Tui
        BY <1>4 DEF Ends, WorkspaceInv, LockInv
    <2>2. PICK loose \in SUBSET Group : Stopped(Group, loose)
        BY <1>4 DEF Ends, Terminated, TerminateGroup, TerminateAll, Group
    <2>3. /\ DOMAIN owner' = Managed
          /\ \A m \in Managed : (owner'[m] = owner[m] /\ m \notin Group) \/ owner'[m] \in {Outsider, Nobody}
        BY <2>2 DEF Stopped, WorkspaceInv, Types, OwnerInv, Running
    <2>4. \A m \in Managed : owner'[m] # Tui /\ (owner'[m] = owner[m] \/ owner'[m] \notin Jrx)
        <3>1. \A m \in Managed : owner[m] = Tui => m \in Group
            BY DEF WorkspaceInv, OwnerInv
        <3> QED
            BY <2>3, <3>1
    <2>5. sent' = sent
        BY <1>4 DEF Ends
    <2>6. CASE run.lent \/ ended = "asks"
        <3>1. /\ at' = [at EXCEPT ![Tui] = "stopped"] /\ run' = [run EXCEPT !.ended = ended]
              /\ UNCHANGED task /\ holder' = IF run.lent THEN holder ELSE Nobody
            BY <1>4, <2>1, <2>6 DEF Ends, To, Release
        <3>2. DOMAIN run' = DOMAIN run /\ run'.lent = run.lent
            BY <3>1, <1>1
        <3>3. DOMAIN at' = Jrx /\ at'[Tui] = "stopped" /\ \A p \in Harness : at'[p] = at[p]
            BY <3>1, <1>1
        <3> QED
            BY <1>1, <2>1, <2>3, <2>4, <2>5, <3>1, <3>2, <3>3, TuiStep DEF WorkspaceInv, TaskInv
    <2>7. CASE ~(run.lent \/ ended = "asks")
        <3>1. /\ at' = [at EXCEPT ![Tui] = "idle"] /\ run' = NoRun /\ holder' = Nobody
              /\ task' = Recorded([run EXCEPT !.ended = ended])
            BY <1>4, <2>1, <2>7 DEF Ends, To, Back, Release
        <3>2. DOMAIN run' = {"kind", "lent", "ended"} /\ run'.lent = FALSE
            BY <3>1 DEF NoRun
        <3>3. DOMAIN at' = Jrx /\ at'[Tui] = "idle" /\ \A p \in Harness : at'[p] = at[p]
            BY <3>1, <1>1
        <3>4. DOMAIN task' = {"delivery", "process"} /\ (sent => task'.delivery \notin Unsent)
            BY <1>3, <3>1 DEF WorkspaceInv, TaskInv, Unsent
        <3> QED
            BY <1>1, <2>1, <2>3, <2>4, <2>5, <3>1, <3>2, <3>3, <3>4, TuiStep
    <2> QED
        BY <2>6, <2>7
<1>5. ASSUME Fallback PROVE WorkspaceInv'
    <2>1. /\ at[Tui] = "stopped" /\ at' = [at EXCEPT ![Tui] = "launching"]
          /\ UNCHANGED <<holder, owner, task, sent>> /\ run' = [run EXCEPT !.kind = "fallback", !.ended = "no"]
        BY <1>5 DEF Fallback, To
    <2>2. DOMAIN run' = DOMAIN run /\ run'.lent = run.lent
        BY <1>1, <2>1
    <2>3. DOMAIN at' = Jrx /\ at'[Tui] = "launching" /\ \A p \in Harness : at'[p] = at[p]
        BY <1>1, <2>1
    <2>4. \A m \in Managed : owner'[m] = owner[m] /\ owner'[m] # Tui
        BY <2>1, NoneOfTui
    <2>5. /\ sent' => task'.delivery \notin Unsent
          /\ run'.lent => holder' = Tui /\ task'.delivery \notin Unsent
        BY <2>1, <2>2 DEF WorkspaceInv, LockInv, TaskInv
    <2> QED
        BY <1>1, <2>1, <2>2, <2>3, <2>4, <2>5, TuiStep
<1>6. ASSUME Record PROVE WorkspaceInv'
    <2>1. /\ at[Tui] = "stopped" /\ at' = [at EXCEPT ![Tui] = "idle"] /\ UNCHANGED <<owner, sent>>
          /\ run' = NoRun /\ holder' = (IF holder = Tui THEN Nobody ELSE holder) /\ task' = Recorded(run)
        BY <1>6 DEF Record, To, Back, Release
    <2>2. DOMAIN task' = {"delivery", "process"} /\ (sent => task'.delivery \notin Unsent)
        BY <1>3, <2>1 DEF WorkspaceInv, TaskInv, Unsent
    <2>3. DOMAIN run' = {"kind", "lent", "ended"} /\ run'.lent = FALSE
        BY <2>1 DEF NoRun
    <2>4. \A m \in Managed : owner'[m] = owner[m] /\ owner'[m] # Tui
        BY <2>1, NoneOfTui
    <2>5. DOMAIN at' = Jrx /\ at'[Tui] = "idle" /\ \A p \in Harness : at'[p] = at[p]
        BY <1>1, <2>1
    <2>6. holder' = holder \/ (holder = Tui /\ holder' = Nobody)
        BY <2>1
    <2> QED
        BY <1>1, <2>1, <2>2, <2>3, <2>4, <2>5, <2>6, TuiStep
<1>7. ASSUME TuiKilled PROVE WorkspaceInv'
    <2>1. /\ at' = [at EXCEPT ![Tui] = "idle"] /\ holder' = (IF holder = Tui THEN Nobody ELSE holder)
          /\ run' = NoRun /\ UNCHANGED <<task, sent>>
          /\ owner' = [m \in Managed |-> IF owner[m] # Tui THEN owner[m]
                                         ELSE IF Running(m) THEN Outsider ELSE Nobody]
        BY <1>7 DEF TuiKilled, Killed, Release, Stopped
    <2>2. \A m \in Managed : owner'[m] # Tui /\ (owner'[m] = owner[m] \/ owner'[m] \notin Jrx)
        BY <2>1
    <2>3. DOMAIN run' = {"kind", "lent", "ended"} /\ run'.lent = FALSE
        BY <2>1 DEF NoRun
    <2>4. DOMAIN at' = Jrx /\ at'[Tui] = "idle" /\ \A p \in Harness : at'[p] = at[p]
        BY <1>1, <2>1
    <2>5. holder' = holder \/ (holder = Tui /\ holder' = Nobody)
        BY <2>1
    <2>6. DOMAIN owner' = Managed /\ (sent' => task'.delivery \notin Unsent)
        BY <2>1 DEF WorkspaceInv, TaskInv
    <2> QED
        BY <1>1, <2>1, <2>2, <2>3, <2>4, <2>5, <2>6, TuiStep
<1>8. ASSUME Escapes PROVE WorkspaceInv'
    <2>1. /\ at[Tui] = "running" /\ at' = [at EXCEPT ![Tui] = "idle"] /\ run' = NoRun
          /\ holder' = (IF holder = Tui THEN Nobody ELSE holder) /\ sent' = sent
        BY <1>8 DEF Escapes, To, Back, Release
    <2>2. PICK loose \in SUBSET Group : Stopped(Group, loose)
        BY <1>8 DEF Escapes
    <2>3. /\ DOMAIN owner' = Managed
          /\ \A m \in Managed : (owner'[m] = owner[m] /\ m \notin Group) \/ owner'[m] \in {Outsider, Nobody}
        BY <2>2 DEF Stopped, WorkspaceInv, Types, OwnerInv, Running
    <2>4. \A m \in Managed : owner'[m] # Tui /\ (owner'[m] = owner[m] \/ owner'[m] \notin Jrx)
        <3>1. \A m \in Managed : owner[m] = Tui => m \in Group
            BY DEF WorkspaceInv, OwnerInv
        <3> QED
            BY <2>3, <3>1
    <2>5. DOMAIN task' = {"delivery", "process"} /\ (sent => task'.delivery \notin Unsent)
        <3>1. task' = task \/ task' = Recorded([run EXCEPT !.ended = "interrupted"])
            BY <1>8 DEF Escapes
        <3> QED
            BY <1>1, <1>3, <3>1 DEF WorkspaceInv, TaskInv, Unsent
    <2>6. DOMAIN run' = {"kind", "lent", "ended"} /\ run'.lent = FALSE
        BY <2>1 DEF NoRun
    <2>7. DOMAIN at' = Jrx /\ at'[Tui] = "idle" /\ \A p \in Harness : at'[p] = at[p]
        BY <1>1, <2>1
    <2>8. holder' = holder \/ (holder = Tui /\ holder' = Nobody)
        BY <2>1
    <2> QED
        BY <1>1, <2>1, <2>3, <2>4, <2>5, <2>6, <2>7, <2>8, TuiStep
<1> QED
    BY <1>4, <1>5, <1>6, <1>7, <1>8
-----------------------------------------------------------------------------
LEMMA StepInv == WorkspaceInv /\ GraphInv /\ [Next]_vars => WorkspaceInv'
<1> SUFFICES ASSUME WorkspaceInv, GraphInv, [Next]_vars PROVE WorkspaceInv'
    OBVIOUS
<1>1. CASE HarnessNext /\ UNCHANGED providerVars
    BY <1>1, HarnessInv
<1>2. CASE ProviderNext /\ UNCHANGED harnessVars
    BY <1>2, HandoffInv, StartsInv, EndsInv DEF ProviderNext
<1>3. CASE (\E f \in Files : Edit(f)) /\ UNCHANGED <<harnessVars, providerVars>>
    <2>1. UNCHANGED <<at, holder, owner, rec, seen, ran, step, providerVars>>
        BY <1>3 DEF Edit, harnessVars, runVars
    <2> QED
        BY <2>1, Plain DEF WorkspaceInv, Types, LeadAlone
<1>4. CASE UNCHANGED vars
    <2>1. UNCHANGED <<at, holder, owner, rec, seen, ran, step, providerVars>>
        BY <1>4 DEF vars, lockVars, harnessVars, runVars
    <2> QED
        BY <2>1, Plain DEF WorkspaceInv, Types, LeadAlone
<1> QED
    BY <1>1, <1>2, <1>3, <1>4 DEF Next

\* WorkspaceInv and GraphInv are an inductive invariant.
THEOREM WorkspaceHolds == Spec => [](WorkspaceInv /\ GraphInv)
<1>1. Init => WorkspaceInv /\ GraphInv
    <2>1. Init => GraphInv
        BY DEF Init, HarnessInit, GraphInv
    <2> QED
        BY <2>1, InitInv
<1>2. WorkspaceInv /\ GraphInv /\ [Next]_vars => (WorkspaceInv /\ GraphInv)'
    BY StepInv, GraphStep
<1> QED
    BY <1>1, <1>2, PTL DEF Spec

\* What JRX runs in the workspace was started by the process that holds its lock,
\* however many processes and commands there are and wherever they are killed.
THEOREM RunsUnderTheLock == Spec => []OneWriter
<1>1. WorkspaceInv => OneWriter
    BY Alone
<1> QED
    BY <1>1, WorkspaceHolds, PTL

\* The record counts every call before it is made and keeps to the budget, for any
\* number of workers and of processes that resume the session.
THEOREM BudgetsAreShared == Spec => []CallsCounted
<1>1. WorkspaceInv => CallsCounted
    BY DEF WorkspaceInv, CountInv, CallsCounted
<1> QED
    BY <1>1, WorkspaceHolds, PTL

\* A checkpoint that was handed over is never recorded as one that was not.
THEOREM DeliveriesAreTold == Spec => []DeliveryIsTold
<1>1. WorkspaceInv => DeliveryIsTold
    BY DEF WorkspaceInv, TaskInv, DeliveryIsTold, Unsent
<1> QED
    BY <1>1, WorkspaceHolds, PTL
-----------------------------------------------------------------------------
\* What the user has seen: a second invariant, on top of the first, that relates the
\* files and their authors to the review, to the approval and to the comparison.
FilesOK ==
    /\ version \in Nat /\ DOMAIN author = Files
    /\ files \in [Files -> Nat] /\ \A f \in Files : files[f] <= version

\* A call that has begun is of the round of the graph; one that needs approval is of a
\* round that has it; and nothing has landed of a round that waits for it.
RoundInv ==
    /\ graph.round \in Nat /\ landed \subseteq 0 .. graph.round
    /\ \A c \in Calls : step[c] \notin Quiet => graph.at = "tools"
    /\ \A c \in Gated : step[c] \notin Quiet => graph.round \in approved
    /\ graph.at = "tools" /\ graph.calls \cap Gated # {} => graph.round \in approved
    /\ graph.at \in {"asked", "gate"} => graph.round \notin landed

\* What has landed since the review shows in the files that the digest tells of.
DigestInv ==
    \A before \in rec.digest :
        /\ \A f \in Seen : before[f] \in Nat /\ before[f] <= version
        /\ rec.pending \in landed => \E f \in Seen : files[f] > before[f]

\* A write between its comparison and its replacement is alone among the tools.
ToolInv ==
    \A c \in Calls :
        /\ step[c] \in {"staged", "replace"} => toolLock = c
        /\ step[c] = "replace" => Fits(c) \/ author[Target[c]] \notin Calls

Kept(seenFiles, own) ==
    \A before \in seenFiles, f \in Seen :
        \/ files[f] = before[f]
        \/ author[f] \in own
        \/ touched /\ author[f] = Outsider

HarnessAuthors == Calls \cup {Box[c] : c \in Commands}

BasisInv == Kept(basis, HarnessAuthors) /\ (basis # {} => \E p \in Harness : at[p] # "idle")
ReviewInv ==
    at[Tui] \in {"launching", "running", "stopped"} /\ run.lent => Kept(reviewed, Group)

ReviewedInv == FilesOK /\ RoundInv /\ DigestInv /\ ToolInv /\ BasisInv /\ ReviewInv

LEMMA Apart ==
    /\ Calls \cap (Managed \cup {Outsider, Nobody}) = {} /\ Group \subseteq Managed
    /\ Outsider \notin Managed
BY LockAssumption, HarnessAssumption, ProviderAssumption DEF Group

LEMMA ReviewedInit == Init => ReviewedInv
<1> SUFFICES ASSUME Init PROVE ReviewedInv
    OBVIOUS
<1> USE DEF Init, LockInit, HarnessInit, ProviderInit
<1>1. FilesOK
    BY DEF FilesOK
<1>2. RoundInv /\ ToolInv
    BY Constants DEF RoundInv, ToolInv, Quiet, Gated
<1>3. DigestInv /\ BasisInv
    BY DEF DigestInv, BasisInv, Kept
<1>4. ReviewInv
    BY Constants DEF ReviewInv
<1> QED
    BY <1>1, <1>2, <1>3, <1>4 DEF ReviewedInv

\* A step that writes no file keeps what speaks of files if it forgets what was
\* reviewed, or keeps it with the run that it is for.
LEMMA FilesStay ==
    ASSUME FilesOK, DigestInv, BasisInv, ReviewInv,
           UNCHANGED <<files, version, author, touched, landed>>,
           rec'.digest = rec.digest, rec'.pending = rec.pending,
           basis' = {} \/ (basis' = basis /\ \A p \in Harness : at'[p] = at[p]),
           at'[Tui] \in {"launching", "running", "stopped"} /\ run'.lent =>
               at[Tui] \in {"launching", "running", "stopped"} /\ run.lent /\ reviewed' = reviewed
    PROVE  FilesOK' /\ DigestInv' /\ BasisInv' /\ ReviewInv'
<1>1. FilesOK'
    BY DEF FilesOK
<1>2. DigestInv'
    BY DEF DigestInv
<1>3. BasisInv'
    BY DEF BasisInv, Kept
<1>4. ReviewInv'
    BY DEF ReviewInv, Kept
<1> QED
    BY <1>1, <1>2, <1>3, <1>4

LEMMA RoundStays ==
    ASSUME RoundInv, UNCHANGED <<graph, approved, landed>>,
           \A c \in Calls : step'[c] \notin Quiet => step[c] \notin Quiet
    PROVE  RoundInv'
BY DEF RoundInv, Gated

LEMMA ToolsStay ==
    ASSUME ToolInv, UNCHANGED <<files, author, expects, toolLock>>,
           \A c \in Calls : step'[c] \in {"staged", "replace"} => step'[c] = step[c]
    PROVE  ToolInv'
BY DEF ToolInv, Fits

\* With the calls at rest and none to be run, the rest is about what has landed.
LEMMA OtherRound ==
    ASSUME graph'.round \in Nat, landed' \subseteq 0 .. graph'.round,
           \A c \in Calls : step'[c] \in Quiet, graph'.at # "tools",
           graph'.at \in {"asked", "gate"} => graph'.round \notin landed'
    PROVE  RoundInv'
BY DEF RoundInv, Gated

\* The digest stays with the record unless Finish gives it another.
LEMMA RecordKeeps ==
    ASSUME WorkspaceInv, NEW p \in Harness,
           \/ \E w \in Workers : Count(p, w)
           \/ Fail(p)
           \/ \E task1, recover \in BOOLEAN, decision \in {"none", "approve", "reject"} :
                  Begin(p, task1, decision, recover)
    PROVE  rec'.digest = rec.digest /\ rec'.pending = rec.pending
<1> USE DEF WorkspaceInv, Types
<1>1. ASSUME NEW w \in Workers, Count(p, w) PROVE rec'.digest = rec.digest /\ rec'.pending = rec.pending
    <2>1. Sort(w) \in {"model", "tool"}
        BY Limits
    <2> QED
        BY <1>1, <2>1 DEF Count
<1>2. CASE Fail(p)
    BY <1>2 DEF Fail, Failure
<1>3. ASSUME NEW task1 \in BOOLEAN, NEW recover \in BOOLEAN, NEW decision,
             Begin(p, task1, decision, recover)
      PROVE  rec'.digest = rec.digest /\ rec'.pending = rec.pending
    BY <1>3 DEF Begin
<1> QED
    BY <1>1, <1>2, <1>3

LEMMA BeginReviewed ==
    ASSUME WorkspaceInv, GraphInv, ReviewedInv, UNCHANGED providerVars,
           NEW p \in Harness, NEW task1 \in BOOLEAN, NEW recover \in BOOLEAN,
           NEW decision \in {"none", "approve", "reject"}, Begin(p, task1, decision, recover)
    PROVE  ReviewedInv'
<1> USE DEF ReviewedInv
<1>1. /\ UNCHANGED <<files, version, author, toolLock, expects, landed>>
      /\ holder = Nobody /\ at' = [at EXCEPT ![p] = "running"]
      /\ graph' = Resumed(graph, task1, decision, rec.pending)
      /\ approved' = IF decision = "approve" THEN approved \cup {rec.pending} ELSE approved
      /\ basis' = IF decision = "approve" THEN rec.digest ELSE {}
      /\ decision = "approve" => rec.digest = Snapshot /\ rec.pending # 0
      /\ step' = [w \in Workers |-> IF w = Lead THEN First(graph') ELSE
                    IF graph'.at = "tools" /\ w \in graph'.calls \ graph'.done THEN "start" ELSE "off"]
    BY DEF Begin, To, Acquire, Accepts
<1>2. rec'.digest = rec.digest /\ rec'.pending = rec.pending
    BY RecordKeeps
<1>3. \A c \in Calls : step'[c] = IF graph'.at = "tools" /\ c \in graph'.calls \ graph'.done
                                  THEN "start" ELSE "off"
    BY <1>1, Constants
<1>4. FilesOK' /\ DigestInv'
    BY <1>1, <1>2 DEF FilesOK, DigestInv
<1>5. ToolInv'
    BY <1>3 DEF ToolInv
<1>6. BasisInv'
    <2>1. at'[p] # "idle"
        BY <1>1, Constants DEF WorkspaceInv, Types
    <2>2. \A before \in basis', f \in Seen : before[f] = files[f]
        BY <1>1 DEF Snapshot
    <2> QED
        BY <1>1, <2>1, <2>2 DEF BasisInv, Kept
<1>7. ReviewInv'
    <2>1. at'[Tui] = at[Tui] /\ UNCHANGED <<run, reviewed>> /\ holder # Tui
        BY <1>1, Constants DEF WorkspaceInv, Types, providerVars
    <2> QED
        BY <2>1 DEF ReviewInv, WorkspaceInv, LockInv
<1>8. RoundInv'
    <2>1. CASE task1
        <3>1. graph'.at = "model" /\ graph'.round = graph.round
            BY <1>1, <2>1 DEF Resumed, GraphInv
        <3> QED
            BY <1>1, <1>3, <3>1 DEF RoundInv, Quiet, Gated
    <2>2. CASE ~task1 /\ (graph.at # "gate" \/ rec.pending # graph.round)
        <3>1. graph' = graph
            BY <1>1, <2>2 DEF Resumed
        <3>2. \A c \in Calls : step'[c] \notin Quiet => graph.at = "tools" /\ c \in graph.calls
            BY <1>3, <3>1 DEF Quiet
        <3> QED
            BY <1>1, <3>1, <3>2 DEF RoundInv, Gated
    <2>3. CASE ~task1 /\ graph.at = "gate" /\ rec.pending = graph.round
        <3> DEFINE calls == IF decision = "approve" THEN graph.calls ELSE graph.calls \ Gated
        <3>1. /\ graph'.at = IF calls = {} THEN "model" ELSE "tools"
              /\ graph'.calls = calls /\ graph'.round = graph.round
            BY <1>1, <2>3 DEF Resumed, GraphInv
        <3>2. calls \cap Gated # {} => graph.round \in approved'
            BY <1>1, <2>3
        <3>3. \A c \in Calls : step'[c] \notin Quiet => graph'.at = "tools" /\ c \in calls
            BY <1>3, <3>1 DEF Quiet
        <3> HIDE DEF calls
        <3>4. \A c \in Gated : step'[c] \notin Quiet => graph.round \in approved'
            BY <3>2, <3>3 DEF Gated
        <3> QED
            BY <1>1, <3>1, <3>2, <3>3, <3>4 DEF RoundInv
    <2> QED
        BY <2>1, <2>2, <2>3
<1> QED
    BY <1>4, <1>5, <1>6, <1>7, <1>8

\* The steps of the coordinator, and of the graph between the calls.
LEMMA LeadReviewed ==
    ASSUME WorkspaceInv, GraphInv, ReviewedInv, UNCHANGED providerVars, NEW p \in Harness,
           \/ \E w \in Workers : Count(p, w)
           \/ Think(p) \/ Asked(p) \/ Turn(p)
           \/ \E c \in Calls : Answered(p, c)
    PROVE  ReviewedInv'
<1> USE DEF ReviewedInv
<1>1. /\ UNCHANGED <<at, files, version, author, touched, landed, toolLock, approved, basis>>
      /\ UNCHANGED <<run, reviewed>>
    BY DEF Count, Think, Asked, Turn, Answered, lockVars, providerVars
<1>2. rec'.digest = rec.digest /\ rec'.pending = rec.pending
    <2>1. (\E w \in Workers : Count(p, w)) \/ rec' = rec
        BY DEF Think, Asked, Turn, Answered
    <2> QED
        BY <2>1, RecordKeeps
<1>3. FilesOK' /\ DigestInv' /\ BasisInv' /\ ReviewInv'
    BY <1>1, <1>2, FilesStay
<1>4. ASSUME NEW w \in Workers, Count(p, w) PROVE RoundInv' /\ ToolInv'
    <2>1. /\ step[w] \in Busy /\ step' = [step EXCEPT ![w] = Body(w)] /\ expects' = expects
          /\ Body(w) \in {"thinking", "evaluate", "ask"}
          /\ graph' = IF w = Lead THEN [graph EXCEPT !.at = "reserved"] ELSE graph
        BY <1>4 DEF Count, Body, Busy
    <2>2. \A c \in Calls : step'[c] \notin Quiet => step[c] \notin Quiet
        BY <2>1 DEF WorkspaceInv, Types, Busy, Quiet
    <2>3. \A c \in Calls : step'[c] \in {"staged", "replace"} => step'[c] = step[c]
        BY <2>1, Constants DEF WorkspaceInv, Types
    <2>4. ToolInv'
        BY <1>1, <2>1, <2>3, ToolsStay
    <2>5. CASE w = Lead
        <3>1. \A c \in Calls : step[c] \in Quiet
            BY <2>1, <2>5 DEF WorkspaceInv, LeadAlone, Busy
        <3>2. graph'.at = "reserved" /\ graph'.round = graph.round
            BY <2>1, <2>5 DEF GraphInv
        <3> QED
            BY <1>1, <2>2, <2>4, <3>1, <3>2 DEF RoundInv, Gated
    <2>6. CASE w # Lead
        BY <1>1, <2>1, <2>2, <2>4, <2>6, RoundStays
    <2> QED
        BY <2>5, <2>6
<1>5. CASE Think(p)
    <2>1. step[Lead] = "thinking" /\ step' = [step EXCEPT ![Lead] = "off"]
        BY <1>5 DEF Think, Go
    <2>2. \A c \in Calls : step[c] \in Quiet /\ step'[c] = step[c]
        BY <2>1, Constants DEF WorkspaceInv, Types, LeadAlone
    <2>3. ToolInv'
        BY <2>2 DEF ToolInv, Quiet
    <2>4. \/ graph'.at = "asked" /\ graph'.round = graph.round + 1
          \/ graph'.at = "end" /\ graph'.round = graph.round
        <3>1. ASSUME NEW calls \in Plans,
                     graph' = [at |-> "asked", round |-> graph.round + 1, calls |-> calls, done |-> {}]
              PROVE  graph'.at = "asked" /\ graph'.round = graph.round + 1
            BY <3>1
        <3>2. ASSUME graph' = [graph EXCEPT !.at = "end", !.calls = {}, !.done = {}]
              PROVE  graph'.at = "end" /\ graph'.round = graph.round
            BY <3>2 DEF GraphInv
        <3> QED
            BY <1>5, <3>1, <3>2 DEF Think
    <2>5. graph.round \in Nat /\ landed \subseteq 0 .. graph.round
        BY DEF RoundInv
    <2>6. graph'.round \in Nat /\ landed \subseteq 0 .. graph'.round
          /\ (graph'.at \in {"asked", "gate"} => graph'.round \notin landed)
        BY <2>4, <2>5
    <2>7. graph'.at # "tools"
        BY <2>4
    <2> QED
        <3>1. landed' = landed /\ \A c \in Calls : step'[c] \in Quiet
            BY <1>1, <2>2
        <3>2. RoundInv'
            BY <2>6, <2>7, <3>1, OtherRound
        <3> QED
            BY <1>3, <2>3, <3>2
<1>6. CASE Asked(p)
    <2> DEFINE free == graph.calls \cap Gated = {}
    <2>1. /\ graph.at = "asked" /\ graph'.at = (IF free THEN "tools" ELSE "gate")
          /\ graph'.calls = graph.calls /\ graph'.round = graph.round /\ expects' = expects
          /\ step' = [w \in Workers |-> IF free /\ w \in graph.calls THEN "start" ELSE "off"]
        BY <1>6 DEF Asked, GraphInv
    <2>2. \A c \in Calls : step'[c] = IF free /\ c \in graph.calls THEN "start" ELSE "off"
        BY <2>1, Constants
    <2>3. ToolInv'
        BY <2>2 DEF ToolInv
    <2>4. \A c \in Calls : step'[c] \notin Quiet => graph'.at = "tools"
        BY <2>1, <2>2 DEF Quiet
    <2>5. \A c \in Gated : step'[c] \in Quiet
        BY <2>2 DEF Gated, Quiet
    <2>6. graph'.at = "tools" => graph'.calls \cap Gated = {}
        BY <2>1
    <2> HIDE DEF free
    <2> QED
        <3>1. graph'.at = "gate" => graph'.round \notin landed
            BY <2>1 DEF RoundInv
        <3>2. graph'.round \in Nat /\ landed \subseteq 0 .. graph'.round /\ graph'.at # "asked"
            BY <2>1 DEF RoundInv
        <3> QED
            <4>1. landed' = landed
                BY <1>1
            <4>2. RoundInv'
                BY <2>4, <2>5, <2>6, <3>1, <3>2, <4>1 DEF RoundInv
            <4> QED
                BY <1>3, <2>3, <4>2
<1>7. CASE Turn(p)
    <2>1. /\ graph'.at = "model" /\ graph'.round = graph.round /\ expects' = expects
          /\ step' = [step EXCEPT ![Lead] = "start"] /\ \A c \in Calls : step[c] \in Quiet
        BY <1>7, Constants DEF Turn, GraphInv, Idle, Quiet
    <2>2. \A c \in Calls : step'[c] = step[c]
        BY <2>1, Constants DEF WorkspaceInv, Types
    <2> QED
        <3>1. ToolInv'
            BY <1>1, <2>1, <2>2, ToolsStay
        <3>2. graph'.round \in Nat /\ landed \subseteq 0 .. graph'.round
            BY <2>1 DEF RoundInv
        <3>3. \A c \in Calls : step'[c] \in Quiet
            BY <2>1, <2>2
        <3> QED
            <4>1. landed' = landed /\ graph'.at = "model"
                BY <1>1, <2>1
            <4>2. RoundInv'
                BY <3>2, <3>3, <4>1, OtherRound
            <4> QED
                BY <1>3, <3>1, <4>2
<1>8. ASSUME NEW c \in Calls, Answered(p, c) PROVE RoundInv' /\ ToolInv'
    <2>1. /\ graph'.at = graph.at /\ graph'.round = graph.round /\ graph'.calls = graph.calls
          /\ expects' = expects /\ step' = [step EXCEPT ![c] = "off"]
        BY <1>8 DEF Answered, Go, GraphInv
    <2>2. \A d \in Calls : step'[d] \notin Quiet => step'[d] = step[d]
        BY <2>1, Constants DEF WorkspaceInv, Types, Quiet
    <2>3. ToolInv'
        BY <1>1, <2>1, <2>2, ToolsStay DEF Quiet
    <2> QED
        BY <1>1, <2>1, <2>2, <2>3 DEF RoundInv, Gated
<1> QED
    BY <1>3, <1>4, <1>5, <1>6, <1>7, <1>8

\* A run that ends forgets its basis, and its calls are at rest.
LEMMA EndReviewed ==
    ASSUME WorkspaceInv, ReviewedInv, UNCHANGED providerVars, NEW p \in Harness,
           Finish(p) \/ Fail(p) \/ HarnessKilled(p)
    PROVE  ReviewedInv'
<1> USE DEF ReviewedInv
<1>1. /\ UNCHANGED <<files, version, author, touched, landed, approved, graph, expects>>
      /\ basis' = {} /\ step' = [w \in Workers |-> "off"] /\ at'[Tui] = at[Tui]
      /\ UNCHANGED <<run, reviewed>>
    BY Constants DEF Finish, Fail, HarnessKilled, Leave, Killed, WorkspaceInv, Types, providerVars
<1>2. \A c \in Calls : step'[c] = "off"
    BY <1>1, Constants
<1>3. RoundInv' /\ ToolInv'
    BY <1>1, <1>2, RoundStays DEF ToolInv, Quiet
<1>4. CASE Fail(p) \/ HarnessKilled(p)
    <2>1. rec'.digest = rec.digest /\ rec'.pending = rec.pending
        BY <1>4, RecordKeeps DEF HarnessKilled
    <2> QED
        BY <1>1, <1>3, <2>1, FilesStay
<1>5. CASE Finish(p)
    <2> DEFINE waits == graph.at = "gate"
    <2>1. rec'.digest = Snapshot \/ rec'.digest = {} \/ (waits /\ rec'.digest = rec.digest)
        BY <1>5 DEF Finish, WorkspaceInv, Types
    <2>2. waits => rec'.pending = graph.round
        BY <1>5 DEF Finish, WorkspaceInv, Types
    <2>3. rec'.digest = {} \/ rec'.pending \notin landed
        <3>1. CASE waits
            BY <2>2, <3>1 DEF RoundInv
        <3>2. CASE ~waits
            BY <1>5, <3>2 DEF Finish, WorkspaceInv, Types
        <3> QED
            BY <3>1, <3>2
    <2>4. \A before \in rec'.digest : \A f \in Seen : before[f] \in Nat /\ before[f] <= version
        <3>1. \A f \in Seen : files[f] \in Nat /\ files[f] <= version
            BY LockAssumption DEF FilesOK
        <3> QED
            BY <2>1, <3>1 DEF DigestInv, Snapshot
    <2>5. DigestInv'
        BY <1>1, <2>3, <2>4 DEF DigestInv
    <2>6. FilesOK' /\ BasisInv' /\ ReviewInv'
        BY <1>1 DEF FilesOK, BasisInv, ReviewInv, Kept
    <2> QED
        BY <1>3, <2>5, <2>6
<1> QED
    BY <1>4, <1>5

\* A worker goes on, and at most gives up the lock of the tools.
LEMMA CallMoves ==
    ASSUME WorkspaceInv, ReviewedInv, UNCHANGED providerVars, NEW w \in Workers, NEW to,
           step[w] \notin Quiet, step' = [step EXCEPT ![w] = to], to \notin {"staged", "replace"},
           UNCHANGED <<at, files, version, author, touched, rec, graph, expects, landed, approved, basis>>,
           toolLock' = toolLock \/ (w \in Calls /\ step[w] \in {"staged", "replace"})
    PROVE  ReviewedInv'
<1> USE DEF ReviewedInv
<1>1. \A c \in Calls : step'[c] = IF c = w THEN to ELSE step[c]
    BY Constants DEF WorkspaceInv, Types
<1>2. RoundInv'
    BY <1>1, RoundStays
<1>3. FilesOK' /\ DigestInv' /\ BasisInv' /\ ReviewInv'
    BY FilesStay DEF providerVars
<1>4. \A c \in Calls \ {w} : step[c] \in {"staged", "replace"} => toolLock' = toolLock
    BY DEF ToolInv
<1>5. ToolInv'
    BY <1>1, <1>4 DEF ToolInv, Fits
<1> QED
    BY <1>2, <1>3, <1>5

LEMMA CallReviewed ==
    ASSUME WorkspaceInv, ReviewedInv, UNCHANGED providerVars, NEW p \in Harness,
           \/ \E w \in Workers : Reserve(p, w)
           \/ \E c \in Calls : Studied(p, c) \/ Evaluated(p, c)
           \/ \E c \in Commands : Prepare(p, c) \/ RunClient(p, c) \/ Cleanup(p, c)
    PROVE  ReviewedInv'
<1>1. UNCHANGED <<at, files, version, author, touched, rec, graph, toolLock, expects, landed,
                  approved, basis>>
    BY DEF Reserve, Studied, Evaluated, Prepare, RunClient, Cleanup, lockVars
<1> DEFINE Elsewhere == {"reserving", "asking", "raised", "done", "open", "prepare", "launch",
                         "prepared badly", "command"}
<1>2. ASSUME NEW w \in Workers, Reserve(p, w)
      PROVE  step[w] \notin Quiet /\ \E to \in Elsewhere : step' = [step EXCEPT ![w] = to]
    <2>1. step[w] \in {"start", "ask"} /\ Reserving[step[w]] \in {"reserving", "asking"}
        BY <1>2 DEF Reserve, Reserving
    <2> QED
        BY <1>2, <2>1 DEF Reserve, Quiet
<1>3. ASSUME NEW c \in Calls, Studied(p, c) \/ Evaluated(p, c)
      PROVE  step[c] \notin Quiet /\ \E to \in Elsewhere : step' = [step EXCEPT ![c] = to]
    BY <1>3 DEF Studied, Evaluated, Raises, Go, Quiet
<1>4. ASSUME NEW c \in Commands, Prepare(p, c) \/ RunClient(p, c)
      PROVE  step[c] \notin Quiet /\ \E to \in Elsewhere : step' = [step EXCEPT ![c] = to]
    BY <1>4 DEF Prepare, RunClient, Go, Quiet
<1>5. ASSUME NEW c \in Commands, Cleanup(p, c)
      PROVE  step[c] \notin Quiet /\ \E to \in Elsewhere : step' = [step EXCEPT ![c] = to]
    BY <1>5 DEF Cleanup, Raises, Go, Quiet
<1>6. PICK w \in Workers, to \in Elsewhere : step[w] \notin Quiet /\ step' = [step EXCEPT ![w] = to]
    BY <1>2, <1>3, <1>4, <1>5, Constants
<1> QED
    BY <1>1, <1>6, CallMoves

\* The comparisons of a write, and its refusal.
LEMMA CompareReviewed ==
    ASSUME WorkspaceInv, ReviewedInv, UNCHANGED providerVars, NEW p \in Harness, NEW c \in Calls,
           OpenFile(p, c) \/ Recheck(p, c)
    PROVE  ReviewedInv'
<1> USE DEF ReviewedInv
<1>1. UNCHANGED <<at, files, version, author, touched, rec, graph, expects, landed, approved, basis>>
    BY DEF OpenFile, Recheck, lockVars
<1>2. c \in Workers /\ DOMAIN step = Workers
    BY Constants DEF WorkspaceInv, Types
<1>3. ASSUME NEW to \in {"done", "raised"}, step' = [step EXCEPT ![c] = to], step[c] \notin Quiet,
             toolLock' = toolLock \/ step[c] \in {"staged", "replace"}
      PROVE  ReviewedInv'
    BY <1>1, <1>2, <1>3, CallMoves
<1>4. CASE \/ OpenFile(p, c) /\ Fits(c) /\ Go(c, "open", "staged") /\ toolLock' = c
           \/ Recheck(p, c) /\ Fits(c) /\ Go(c, "staged", "replace") /\ UNCHANGED toolLock
    <2>1. FilesOK' /\ DigestInv' /\ BasisInv' /\ ReviewInv'
        BY <1>1, FilesStay DEF providerVars
    <2>2. /\ step[c] \notin Quiet /\ \A d \in Calls \ {c} : step'[d] = step[d]
          /\ step'[c] \in {"staged", "replace"} /\ Fits(c)
        BY <1>2, <1>4, Constants DEF Go, Quiet
    <2>3. RoundInv'
        BY <1>1, <2>2, RoundStays
    <2>4. toolLock' = c /\ \A d \in Calls \ {c} : step[d] \notin {"staged", "replace"}
        BY <1>4, Apart DEF OpenFile, ToolLockFree, Go, ToolInv
    <2>5. ToolInv'
        BY <1>1, <2>2, <2>4 DEF ToolInv, Fits
    <2> QED
        BY <2>1, <2>3, <2>5
<1>5. CASE OpenFile(p, c) /\ ~Fits(c)
    BY <1>3, <1>5 DEF OpenFile, Raises, Go, Quiet
<1>6. CASE Recheck(p, c) /\ ~Fits(c)
    BY <1>3, <1>6 DEF Recheck, Raises, Go, Quiet
<1> QED
    BY <1>4, <1>5, <1>6 DEF OpenFile, Recheck

\* A file is written from outside, or by the provider in its run.
LEMMA OutsideReviewed ==
    ASSUME WorkspaceInv, ReviewedInv, UNCHANGED <<at, harnessVars, providerVars>>,
           NEW w \in {Outsider} \cup Group, w \in Group => at[Tui] = "running",
           NEW f \in Files, Write(w, f)
    PROVE  ReviewedInv'
<1> USE DEF ReviewedInv
<1>1. /\ version' = version + 1 /\ files' = [files EXCEPT ![f] = version + 1]
      /\ author' = [author EXCEPT ![f] = w] /\ touched' = (touched \/ (w = Outsider /\ f \in Seen))
    BY DEF Write
<1>2. /\ version' \in Nat /\ version < version'
      /\ files' \in [Files -> Nat] /\ files'[f] = version' /\ author'[f] = w
      /\ \A g \in Files \ {f} : files'[g] = files[g] /\ author'[g] = author[g]
    BY <1>1 DEF FilesOK
<1>10. \A g \in Seen : IF g = f THEN files'[g] = version' /\ author'[g] = w
                            ELSE files'[g] = files[g] /\ author'[g] = author[g]
    BY <1>2, LockAssumption
<1>3. FilesOK'
    BY <1>1, <1>2 DEF FilesOK
<1>4. RoundInv'
    BY RoundStays DEF harnessVars, runVars
<1>5. UNCHANGED <<rec, step, toolLock, expects, landed, basis, run, reviewed>>
    BY DEF harnessVars, runVars, providerVars
<1>6. DigestInv'
    <2>1. \A g \in Seen : g \in Files /\ files[g] \in Nat /\ files[g] <= files'[g]
        BY <1>2, LockAssumption DEF FilesOK
    <2>2. \A before \in rec.digest, g \in Seen :
             before[g] \in Nat /\ before[g] <= version' /\ (files[g] > before[g] => files'[g] > before[g])
        BY <1>2, <2>1 DEF DigestInv, FilesOK
    <2> QED
        BY <1>5, <2>2 DEF DigestInv
<1>7. ToolInv'
    <2>1. w \notin Calls
        BY Apart
    <2>2. \A c \in Calls : Target[c] \in Files
        BY HarnessAssumption
    <2> QED
        BY <1>2, <1>5, <2>1, <2>2 DEF ToolInv, Fits
<1>8. BasisInv'
    <2>1. basis # {} => w = Outsider
        BY Constants DEF BasisInv, WorkspaceInv, LockInv
    <2> QED
        BY <1>1, <1>5, <1>10, <2>1 DEF BasisInv, Kept
<1>9. ReviewInv'
    BY <1>1, <1>5, <1>10 DEF ReviewInv, Kept
<1> QED
    BY <1>3, <1>4, <1>6, <1>7, <1>8, <1>9

\* A file is written by the run of the harness, by a call that is at work.
LEMMA InsideReviewed ==
    ASSUME WorkspaceInv, ReviewedInv, UNCHANGED <<at, rec, graph, expects, approved, basis, providerVars>>,
           NEW p \in Harness, at[p] # "idle", NEW c \in Calls, step[c] \notin Quiet,
           NEW w \in HarnessAuthors, NEW f \in Files, Write(w, f),
           Landed(f),
           \/ w \notin Calls /\ UNCHANGED <<step, toolLock>>
           \/ w = c /\ step[c] \in {"staged", "replace"} /\ step' = [step EXCEPT ![c] = "done"]
    PROVE  ReviewedInv'
<1> USE DEF ReviewedInv
<1>1. /\ version' = version + 1 /\ files' = [files EXCEPT ![f] = version + 1]
      /\ author' = [author EXCEPT ![f] = w] /\ touched' = (touched \/ (w = Outsider /\ f \in Seen))
    BY DEF Write
<1>2. /\ version' \in Nat /\ version < version'
      /\ files' \in [Files -> Nat] /\ files'[f] = version' /\ author'[f] = w
      /\ \A g \in Files \ {f} : files'[g] = files[g] /\ author'[g] = author[g]
    BY <1>1 DEF FilesOK
<1>12. \A g \in Seen : IF g = f THEN files'[g] = version' /\ author'[g] = w
                            ELSE files'[g] = files[g] /\ author'[g] = author[g]
    BY <1>2, LockAssumption
<1>3. FilesOK'
    BY <1>1, <1>2 DEF FilesOK
<1>4. DOMAIN step = Workers /\ c \in Workers
    BY Constants DEF WorkspaceInv, Types
<1>5. graph.at = "tools"
    BY DEF RoundInv
<1>6. \A d \in Calls : step'[d] \notin Quiet => step'[d] = step[d]
    BY <1>4, Constants DEF Quiet
<1>7. RoundInv'
    <2>1. graph.round \in Nat /\ landed' \subseteq 0 .. graph.round
        <3>1. graph.round \in Nat /\ landed \subseteq 0 .. graph.round
            BY DEF RoundInv
        <3>2. graph.round \in 0 .. graph.round
            BY <3>1
        <3> QED
            BY <3>1, <3>2 DEF Landed
    <2> QED
        BY <1>5, <1>6, <2>1 DEF RoundInv, Gated
<1>8. DigestInv'
    <2> SUFFICES ASSUME NEW before \in rec.digest
                 PROVE  /\ \A g \in Seen : before[g] \in Nat /\ before[g] <= version'
                        /\ rec.pending \in landed' => \E g \in Seen : files'[g] > before[g]
        BY DEF DigestInv
    <2>1. /\ \A g \in Seen : before[g] \in Nat /\ before[g] <= version
          /\ rec.pending \in landed => \E g \in Seen : files[g] > before[g]
        BY DEF DigestInv
    <2>2. \A g \in Seen : before[g] <= version' /\ (files[g] > before[g] => files'[g] > before[g])
        <3>1. \A g \in Seen : g \in Files /\ files[g] \in Nat /\ files[g] <= files'[g]
            BY <1>2, LockAssumption DEF FilesOK
        <3> QED
            BY <1>2, <2>1, <3>1 DEF FilesOK
    <2>3. CASE f \in Seen
        <3>1. files'[f] > before[f]
            BY <1>2, <2>1, <2>3 DEF FilesOK
        <3> QED
            BY <2>1, <2>2, <2>3, <3>1
    <2>4. CASE f \notin Seen
        BY <2>1, <2>2, <2>4 DEF Landed
    <2> QED
        BY <2>3, <2>4
<1>9. ToolInv'
    <2>1. \A d \in Calls : Target[d] \in Files
        BY HarnessAssumption
    <2>2. CASE w \notin Calls /\ UNCHANGED <<step, toolLock>>
        BY <1>2, <2>1, <2>2 DEF ToolInv, Fits
    <2>3. CASE w = c /\ step[c] \in {"staged", "replace"} /\ step' = [step EXCEPT ![c] = "done"]
        <3>1. \A d \in Calls \ {c} : step[d] \notin {"staged", "replace"}
            BY <2>3 DEF ToolInv
        <3> QED
            BY <1>4, <2>3, <3>1, Constants DEF ToolInv
    <2> QED
        BY <2>2, <2>3
<1>10. BasisInv'
    BY <1>1, <1>12 DEF BasisInv, Kept
<1>11. ReviewInv'
    <2>1. holder # Tui
        BY Constants DEF WorkspaceInv, LockInv
    <2> QED
        BY <2>1 DEF ReviewInv, WorkspaceInv, LockInv, providerVars
<1> QED
    BY <1>3, <1>7, <1>8, <1>9, <1>10, <1>11

\* What the harness does.
LEMMA HarnessReviewed ==
    ASSUME WorkspaceInv, GraphInv, ReviewedInv, HarnessNext, UNCHANGED providerVars
    PROVE  ReviewedInv'
<1>1. ASSUME NEW p \in Harness, NEW c \in Calls, Replace(p, c) PROVE ReviewedInv'
    <2>1. CASE Write(c, Target[c]) /\ Landed(Target[c])
        <3>1. /\ step[c] \in {"staged", "replace"} /\ step' = [step EXCEPT ![c] = "done"]
              /\ at[p] # "idle" /\ Target[c] \in Files /\ c \in HarnessAuthors
              /\ UNCHANGED <<at, rec, graph, expects, approved, basis>>
            <4>1. expects[c] = 0 /\ ~Fits(c) => files' # files
                BY <2>1, HarnessAssumption DEF Write, ReviewedInv, FilesOK
            <4> QED
                BY <1>1, <2>1, <4>1, HarnessAssumption DEF Replace, Go, HarnessAuthors
        <3> QED
            BY <2>1, <3>1, InsideReviewed DEF Quiet
    <2>2. CASE /\ expects[c] = 0 /\ ~Fits(c) /\ Raises(c, "staged")
               /\ UNCHANGED <<files, version, author, touched, landed>>
        <3>1. /\ step[c] = "staged" /\ \E to \in {"done", "raised"} : step' = [step EXCEPT ![c] = to]
              /\ UNCHANGED <<at, rec, graph, expects, approved, basis>> /\ c \in Workers
            BY <1>1, <2>2, Constants DEF Replace, Raises, Go
        <3> QED
            BY <2>2, <3>1, CallMoves DEF Quiet
    <2> QED
        BY <1>1, <2>1, <2>2 DEF Replace
<1>2. ASSUME NEW c \in Commands, NEW f \in Files, CommandWrites(c, f) PROVE ReviewedInv'
    <2>1. /\ owner[Box[c]] \in Jrx /\ Write(Box[c], f) /\ Landed(f)
          /\ UNCHANGED <<at, rec, graph, step, toolLock, expects, approved, basis>>
        BY <1>2 DEF CommandWrites, Works, Running
    <2>2. /\ Box[c] \in Managed /\ Box[c] \notin Group /\ Box[c] \notin Calls
          /\ Box[c] \in HarnessAuthors
        BY Constants, Apart DEF HarnessAuthors
    <2>3. /\ owner[Box[c]] \in Harness /\ at[owner[Box[c]]] # "idle"
          /\ \E d \in Commands : step[d] \in {"launch", "command"}
        BY <2>1, <2>2 DEF WorkspaceInv, OwnerInv
    <2>4. PICK d \in Calls : step[d] \in {"launch", "command"}
        BY <2>3, Constants
    <2> QED
        BY <2>1, <2>2, <2>3, <2>4, InsideReviewed DEF Quiet
<1>3. ASSUME NEW p \in Harness, NEW c \in Calls,
             \/ Answered(p, c) \/ Studied(p, c) \/ Evaluated(p, c)
             \/ OpenFile(p, c) \/ Recheck(p, c) \/ Replace(p, c)
      PROVE  ReviewedInv'
    BY <1>1, <1>3, LeadReviewed, CallReviewed, CompareReviewed
<1> QED
    BY <1>2, <1>3, BeginReviewed, LeadReviewed, EndReviewed, CallReviewed DEF HarnessNext

\* What the interactive workspace and its provider do.
LEMMA ProviderReviewed ==
    ASSUME WorkspaceInv, ReviewedInv, ProviderNext, UNCHANGED harnessVars
    PROVE  ReviewedInv'
<1> USE DEF ReviewedInv
<1>1. RoundInv'
    BY RoundStays DEF harnessVars, runVars
<1>2. UNCHANGED <<rec, landed, basis, step, expects, toolLock>>
    BY DEF harnessVars, runVars
<1>3. ASSUME UNCHANGED <<files, author>> PROVE ToolInv'
    BY <1>2, <1>3, ToolsStay
<1> DEFINE Running3 == {"launching", "running", "stopped"}
           Quietly ==
               /\ UNCHANGED <<files, version, author, touched>>
               /\ \A q \in Harness : at'[q] = at[q]
               /\ (at'[Tui] \in Running3 /\ run'.lent) =>
                      at[Tui] \in Running3 /\ run.lent /\ reviewed' = reviewed
<1>4. ASSUME Quietly PROVE ReviewedInv'
    BY <1>1, <1>2, <1>3, <1>4, FilesStay
<1>5. DOMAIN at = Jrx /\ Tui \in Jrx /\ (\A q \in Harness : q # Tui) /\ Harness \subseteq Jrx
      /\ DOMAIN run = {"kind", "lent", "ended"}
    BY Constants DEF WorkspaceInv, Types
<1>6. ASSUME NEW kind \in {"stream", "native", "acp"},
             \/ StartHandoff(kind)
             \/ StartRun(kind)
             \/ RunRefused(kind)
      PROVE  ReviewedInv'
    <2>1. CASE StartHandoff(kind)
        <3>1. at'[Tui] = "reviewing" /\ \A q \in Harness : at'[q] = at[q]
            BY <1>5, <2>1 DEF StartHandoff, To
        <3>2. Quietly
            BY <2>1, <3>1 DEF StartHandoff
        <3> QED
            BY <1>4, <3>2
    <2>2. CASE StartRun(kind)
        <3>1. run'.lent = FALSE /\ \A q \in Harness : at'[q] = at[q]
            BY <1>5, <2>2 DEF StartRun, Start
        <3>2. Quietly
            BY <2>2, <3>1 DEF StartRun
        <3> QED
            BY <1>4, <3>2
    <2>3. CASE RunRefused(kind)
        <3>1. Quietly
            BY <2>3 DEF RunRefused, lockVars
        <3> QED
            BY <1>4, <3>1
    <2> QED
        BY <1>6, <2>1, <2>2, <2>3
<1>7. CASE Review \/ Confirm
    <2>1. ASSUME NEW from, NEW delivery, GiveUp(from, delivery) PROVE ReviewedInv'
        <3>1. Quietly
            BY <1>5, <2>1 DEF GiveUp, To, Back
        <3> QED
            BY <1>4, <3>1
    <2>2. CASE /\ Unchanged /\ touched' = FALSE /\ UNCHANGED <<holder, files, version, author, run, reviewed>>
               /\ \/ To(Tui, "reviewing", "confirming")
                  \/ To(Tui, "confirming", "launching")
        <3>1. \A q \in Harness : at'[q] = at[q]
            BY <1>5, <2>2 DEF To
        <3>2. basis = {}
            BY <1>5, <2>2 DEF To, BasisInv, WorkspaceInv, LockInv
        <3>3. FilesOK' /\ DigestInv' /\ BasisInv' /\ ToolInv'
            BY <1>2, <1>3, <2>2, <3>2 DEF FilesOK, DigestInv, BasisInv, Kept
        <3>4. \A before \in reviewed, f \in Seen : before[f] = files[f]
            BY <2>2 DEF Unchanged, Snapshot
        <3>5. ReviewInv'
            BY <2>2, <3>4 DEF ReviewInv, Kept
        <3> QED
            BY <1>1, <3>3, <3>5
    <2> QED
        BY <1>7, <2>1, <2>2 DEF Review, Confirm, providerVars
<1>8. CASE Launch \/ CannotLaunch \/ Forks \/ Fallback \/ Escapes \/ Record \/ TuiKilled
    <2>1. CASE Launch \/ CannotLaunch
        <3>1. Quietly
            BY <1>5, <2>1 DEF Launch, CannotLaunch, Start, To
        <3> QED
            BY <1>4, <3>1
    <2>2. CASE Forks \/ Fallback
        <3>1. Quietly
            BY <1>5, <2>2 DEF Forks, Fallback, To, providerVars
        <3> QED
            BY <1>4, <3>1
    <2>3. CASE Escapes \/ Record \/ TuiKilled
        <3>1. Quietly
            BY <1>5, <2>3 DEF Escapes, Record, TuiKilled, Killed, Back, To, NoRun
        <3> QED
            BY <1>4, <3>1
    <2> QED
        BY <1>8, <2>1, <2>2, <2>3
<1>9. ASSUME NEW ended, Ends(ended) PROVE ReviewedInv'
    <2>1. /\ UNCHANGED <<files, version, author, touched>> /\ at[Tui] = "running"
          /\ \E to \in {"stopped", "idle"} : at' = [at EXCEPT ![Tui] = to]
        BY <1>9 DEF Ends, To
    <2>2. at'[Tui] = "stopped" => run'.lent = run.lent /\ reviewed' = reviewed
        BY <1>5, <1>9 DEF Ends, To
    <2>3. Quietly
        BY <1>5, <2>1, <2>2
    <2> QED
        BY <1>4, <2>3
<1>10. ASSUME NEW f \in Files, CliWrites(f) PROVE ReviewedInv'
    <2>1. PICK m \in Group : Running(m) /\ Write(m, f) /\ UNCHANGED <<at, providerVars>>
        BY <1>10 DEF CliWrites, Works
    <2>2. at[Tui] = "running"
        <3>1. m \in Managed /\ owner[m] \in Jrx
            BY <2>1, Apart DEF Running
        <3>2. owner[m] \notin Harness
            BY <2>1, <3>1, Constants DEF WorkspaceInv, OwnerInv
        <3> QED
            BY <3>1, <3>2 DEF WorkspaceInv, OwnerInv
    <2> QED
        BY <2>1, <2>2, OutsideReviewed
<1> QED
    BY <1>6, <1>7, <1>8, <1>9, <1>10 DEF ProviderNext

LEMMA ReviewedStep == WorkspaceInv /\ GraphInv /\ ReviewedInv /\ [Next]_vars => ReviewedInv'
<1> SUFFICES ASSUME WorkspaceInv, GraphInv, ReviewedInv, [Next]_vars PROVE ReviewedInv'
    OBVIOUS
<1>1. CASE (\E f \in Files : Edit(f)) /\ UNCHANGED <<harnessVars, providerVars>>
    BY <1>1, OutsideReviewed, Apart DEF Edit
<1>2. CASE UNCHANGED vars
    <2> USE DEF vars, lockVars, harnessVars, runVars, providerVars, ReviewedInv
    <2>1. FilesOK' /\ DigestInv' /\ BasisInv' /\ ReviewInv'
        BY <1>2, FilesStay
    <2>2. RoundInv' /\ ToolInv'
        BY <1>2, RoundStays, ToolsStay
    <2> QED
        BY <2>1, <2>2
<1> QED
    BY <1>1, <1>2, HarnessReviewed, ProviderReviewed DEF Next
-----------------------------------------------------------------------------
\* A call comes to its evaluation from its reservation only.
LEMMA OnlyCounted ==
    ASSUME WorkspaceInv, [Next]_vars, NEW c \in Gated, step[c] # "evaluate", step'[c] = "evaluate"
    PROVE  step[c] \in Busy
<1> USE DEF WorkspaceInv, Types
<1>1. c \in Calls /\ c \in Workers /\ c # Lead /\ DOMAIN step = Workers
    BY Constants DEF Gated
<1>2. CASE UNCHANGED step
    BY <1>2
<1>3. ASSUME NEW w, NEW from, NEW to, Go(w, from, to), to # "evaluate" PROVE FALSE
    BY <1>1, <1>3 DEF Go
<1>4. ASSUME NEW d, NEW from, Raises(d, from) PROVE FALSE
    BY <1>3, <1>4 DEF Raises
<1>5. ASSUME NEW p \in Harness, NEW task1 \in BOOLEAN, NEW recover \in BOOLEAN, NEW decision,
             Begin(p, task1, decision, recover)
      PROVE  FALSE
    <2>1. step'[c] \in {"start", "off"}
        BY <1>1, <1>5 DEF Begin
    <2> QED
        BY <2>1
<1>6. ASSUME NEW p \in Harness, NEW w \in Workers, Reserve(p, w) PROVE step[c] \in Busy
    <2>1. step[w] \in {"start", "ask"} => Reserving[step[w]] # "evaluate"
        BY DEF Reserving
    <2> QED
        BY <1>1, <1>6, <2>1 DEF Reserve
<1>7. ASSUME NEW p \in Harness, NEW w \in Workers, Count(p, w) PROVE step[c] \in Busy
    <2>1. step[w] \in Busy /\ step' = [step EXCEPT ![w] = Body(w)]
        BY <1>7 DEF Count, Busy
    <2> QED
        BY <1>1, <2>1
<1>8. ASSUME NEW p \in Harness, Asked(p) \/ Finish(p) \/ Fail(p) \/ HarnessKilled(p) PROVE FALSE
    <2>1. step'[c] \in {"start", "off"}
        BY <1>1, <1>8 DEF Asked, Finish, Fail, HarnessKilled, Leave
    <2> QED
        BY <2>1
<1>9. ASSUME NEW p \in Harness, Think(p) \/ Turn(p) PROVE FALSE
    BY <1>1, <1>9 DEF Think, Turn, Go
<1>10. ASSUME NEW p \in Harness, NEW d \in Calls,
              \/ Answered(p, d) \/ Studied(p, d) \/ Evaluated(p, d)
              \/ OpenFile(p, d) \/ Recheck(p, d) \/ Replace(p, d)
       PROVE  FALSE
    <2>1. (IF Kind[d] = "write" THEN "open" ELSE "prepare") # "evaluate"
        OBVIOUS
    <2> QED
        BY <1>3, <1>4, <1>10, <2>1 DEF Answered, Studied, Evaluated, OpenFile, Recheck, Replace
<1>11. ASSUME NEW p \in Harness, NEW d \in Commands, Prepare(p, d) \/ RunClient(p, d) \/ Cleanup(p, d)
       PROVE  FALSE
    BY <1>3, <1>4, <1>11 DEF Prepare, RunClient, Cleanup
<1>12. CASE HarnessNext
    <2>1. ASSUME NEW d \in Commands, NEW f \in Files, CommandWrites(d, f) PROVE step[c] \in Busy
        BY <1>2, <2>1 DEF CommandWrites
    <2> QED
        BY <1>5, <1>6, <1>7, <1>8, <1>9, <1>10, <1>11, <1>12, <2>1 DEF HarnessNext
<1>13. CASE UNCHANGED harnessVars \/ UNCHANGED vars
    BY <1>2, <1>13 DEF harnessVars, runVars, vars
<1> QED
    BY <1>12, <1>13 DEF Next

\* Only a run with an approval has a basis, and its digest is that of the workspace.
LEMMA OnlyApproved ==
    ASSUME WorkspaceInv, [Next]_vars, basis = {}, basis' # {}
    PROVE  rec.digest = Snapshot
<1>1. CASE UNCHANGED basis \/ basis' = {}
    BY <1>1
<1>2. ASSUME NEW p \in Harness, NEW task1 \in BOOLEAN, NEW recover \in BOOLEAN, NEW decision,
             Begin(p, task1, decision, recover)
      PROVE  rec.digest = Snapshot
    BY <1>2 DEF Begin, Accepts
<1>3. CASE HarnessNext
    <2>1. ASSUME NEW p \in Harness,
                 \/ \E w \in Workers : Reserve(p, w) \/ Count(p, w)
                 \/ Think(p) \/ Asked(p) \/ Turn(p) \/ Finish(p) \/ Fail(p) \/ HarnessKilled(p)
          PROVE  rec.digest = Snapshot
        BY <1>1, <2>1 DEF Reserve, Count, Think, Asked, Turn, Finish, Fail, HarnessKilled, Leave
    <2>2. ASSUME NEW p \in Harness, NEW c \in Calls,
                 \/ Answered(p, c) \/ Studied(p, c) \/ Evaluated(p, c)
                 \/ OpenFile(p, c) \/ Recheck(p, c) \/ Replace(p, c)
          PROVE  rec.digest = Snapshot
        BY <1>1, <2>2 DEF Answered, Studied, Evaluated, OpenFile, Recheck, Replace
    <2>3. ASSUME NEW p \in Harness, NEW c \in Commands, Prepare(p, c) \/ RunClient(p, c) \/ Cleanup(p, c)
          PROVE  rec.digest = Snapshot
        BY <1>1, <2>3 DEF Prepare, RunClient, Cleanup
    <2>4. ASSUME NEW c \in Commands, NEW f \in Files, CommandWrites(c, f) PROVE rec.digest = Snapshot
        BY <1>1, <2>4 DEF CommandWrites
    <2> QED
        BY <1>2, <1>3, <2>1, <2>2, <2>3, <2>4 DEF HarnessNext
<1>4. CASE UNCHANGED harnessVars \/ UNCHANGED vars
    BY <1>1, <1>4 DEF harnessVars, vars
<1> QED
    BY <1>3, <1>4 DEF Next

\* ReviewedInv is inductive together with the first invariant.
THEOREM ReviewHolds == Spec => [](WorkspaceInv /\ GraphInv /\ ReviewedInv)
<1>1. Init => ReviewedInv
    BY ReviewedInit
<1>2. WorkspaceInv /\ GraphInv /\ ReviewedInv /\ [Next]_vars => ReviewedInv'
    BY ReviewedStep
<1> QED
    BY <1>1, <1>2, WorkspaceHolds, PTL DEF Spec

\* While an approved run or a handed over checkpoint is at work, no file differs from
\* what the user reviewed, but for what this run wrote and what an outsider wrote after
\* the last comparison: for any number of processes, calls, commands and files.
THEOREM WorksOnWhatWasReviewed == Spec => []AsReviewed
<1>1. ReviewedInv => AsReviewed
    BY DEF ReviewedInv, BasisInv, ReviewInv, Kept, HarnessAuthors, AsReviewed
<1> QED
    BY <1>1, ReviewHolds, PTL

\* A call is evaluated only in a round the user approved, and a round one of whose
\* calls has changed a file is approved no more, wherever JRX failed or died before.
THEOREM ApprovalsHold == Spec => ApprovalsBind
<1> DEFINE Step == /\ \A c \in Gated : step[c] # "evaluate" /\ step'[c] = "evaluate" => graph.round \in approved
                   /\ basis = {} /\ basis' # {} => rec.pending \notin landed
<1>1. ASSUME WorkspaceInv, ReviewedInv, [Next]_vars,
             NEW c \in Gated, step[c] # "evaluate", step'[c] = "evaluate"
      PROVE  graph.round \in approved
    <2> USE DEF WorkspaceInv, Types
    <2>1. step[c] \in Busy
        BY <1>1, OnlyCounted
    <2>2. c \in Gated /\ step[c] \notin Quiet
        BY <1>1, <2>1 DEF Busy, Quiet
    <2> QED
        BY <1>1, <2>2 DEF ReviewedInv, RoundInv
<1>2. ASSUME WorkspaceInv, ReviewedInv, [Next]_vars, basis = {}, basis' # {}
      PROVE  rec.pending \notin landed
    <2>1. rec.digest = Snapshot
        BY <1>2, OnlyApproved
    <2>2. FilesOK /\ DigestInv
        BY <1>2 DEF ReviewedInv
    <2>3. SUFFICES ASSUME rec.pending \in landed PROVE FALSE
        OBVIOUS
    <2>4. PICK f \in Seen : files[f] > files[f]
        BY <2>1, <2>2, <2>3 DEF DigestInv, Snapshot
    <2>5. files[f] \in Nat
        BY <2>2, LockAssumption DEF FilesOK
    <2> QED
        BY <2>4, <2>5
<1>3. WorkspaceInv /\ ReviewedInv /\ [Next]_vars => [Step]_vars
    BY <1>1, <1>2
<1> QED
    BY <1>3, ReviewHolds, PTL DEF Spec, ApprovalsBind

\* A tool that writes a file replaces no other tool's write that it has not seen.
THEOREM ToolsKeepApart == Spec => ToolsDoNotClobber
<1> DEFINE Step == \A c \in Gated : step[c] = "replace" /\ step'[c] = "done" =>
                       Fits(c) \/ author[Target[c]] \notin Calls
<1>1. ReviewedInv => Step
    BY DEF ReviewedInv, ToolInv, Gated
<1>2. ReviewedInv /\ [Next]_vars => [Step]_vars
    BY <1>1
<1> QED
    BY <1>2, ReviewHolds, PTL DEF Spec, ToolsDoNotClobber
=============================================================================
