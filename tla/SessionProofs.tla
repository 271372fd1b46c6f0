--------------------------- MODULE SessionProofs ---------------------------
(***************************************************************************)
(* Proofs about SessionLedger and ExecSupervisor, for any number of        *)
(* processes, actions and samples and every value of the limits.           *)
(***************************************************************************)
EXTENDS ExecSupervisor, FiniteSetTheorems, TLAPS

(* The inductive invariant of the ledger.  StopFreezes needs to know that  *)
(* a row that is not in the table is not a stopped one.                    *)
AbsentRowEmpty == ~row.exists => row = NoRow

LedgerInv == LedgerTypeOK /\ AbsentRowEmpty /\ BudgetsHold /\ RiskyLimitStops

(* A row that does not exist yet has booked nothing, so the row a          *)
(* transaction works on satisfies whatever the stored row satisfies.       *)
LEMMA FreshRowType ==
    ASSUME LedgerTypeOK, NEW stop \in BOOLEAN
    PROVE  /\ FreshRow(stop) \in Row
           /\ FreshRow(stop).exists
           /\ FreshRow(stop).stopped = stop
           /\ FreshRow(stop).calls = 0
           /\ FreshRow(stop).semantic = 0
           /\ FreshRow(stop).spend = 0
  BY DEF LedgerTypeOK, FreshRow, NoRow, Row

(* What one successful reservation books.                                  *)
LEMMA ReserveBooks ==
    ASSUME LedgerInv, NEW sem \in Nat, NEW calls \in Nat, Reserve(sem, calls)
    PROVE  /\ row' \in Row
           /\ row'.exists /\ ~row'.stopped
           /\ row'.calls <= MaxToolCalls
           /\ row'.semantic <= MaxSemantic
           /\ row'.spend = row'.semantic * Cost
           /\ row'.spend <= MaxSpend
           /\ ~row.stopped
           /\ row.exists => now - row.started < MaxElapsed
  <1> DEFINE base == RowOrFresh
  <1>1. /\ base \in Row
        /\ base.exists
        /\ base.spend = base.semantic * Cost
    <2>1. CASE row.exists
      BY <2>1 DEF LedgerInv, LedgerTypeOK, BudgetsHold, RowOrFresh
    <2>2. CASE ~row.exists
      <3>1. base = FreshRow(FALSE)
        BY <2>2 DEF RowOrFresh
      <3>2. LedgerTypeOK
        BY DEF LedgerInv
      <3>3. /\ base \in Row
            /\ base.exists /\ base.semantic = 0 /\ base.spend = 0
        BY <3>1, <3>2, FreshRowType
      <3>4. 0 * Cost = 0
        BY LedgerAssumption
      <3> HIDE DEF base
      <3> QED BY <3>3, <3>4
    <2> QED BY <2>1, <2>2
  <1>2. /\ ~base.stopped
        /\ base.calls + calls <= MaxToolCalls
        /\ base.semantic + sem <= MaxSemantic
        /\ base.spend + sem * Cost <= MaxSpend
        /\ now - base.started < MaxElapsed
    <2>1. sem * Cost \in Nat
      BY LedgerAssumption
    <2> QED
      BY <1>1, <2>1, LedgerAssumption DEF Reserve, Refused, LedgerInv, LedgerTypeOK, Row
  <1>3. row' = [base EXCEPT !.calls = base.calls + calls,
                            !.semantic = base.semantic + sem,
                            !.spend = base.spend + sem * Cost]
    BY DEF Reserve
  <1>4. base.spend + sem * Cost = (base.semantic + sem) * Cost
    BY <1>1, LedgerAssumption DEF Row
  <1>5. sem * Cost \in Nat
    BY LedgerAssumption
  <1>6. ~row.stopped /\ (row.exists => now - row.started < MaxElapsed)
    <2>1. CASE row.exists
      BY <2>1, <1>2 DEF RowOrFresh
    <2>2. CASE ~row.exists
      BY <2>2 DEF LedgerInv, AbsentRowEmpty, NoRow
    <2> QED BY <2>1, <2>2
  <1>7. /\ row' \in Row
        /\ row'.exists = base.exists /\ row'.stopped = base.stopped
        /\ row'.calls = base.calls + calls
        /\ row'.semantic = base.semantic + sem
        /\ row'.spend = base.spend + sem * Cost
    <2>1. /\ base.calls + calls \in Nat
          /\ base.semantic + sem \in Nat
          /\ base.spend + sem * Cost \in Nat
      BY <1>1, <1>5 DEF Row
    <2> DEFINE c == base.calls + calls
               s == base.semantic + sem
               x == base.spend + sem * Cost
    <2>2. /\ base \in Row /\ c \in Nat /\ s \in Nat /\ x \in Nat
          /\ row' = [base EXCEPT !.calls = c, !.semantic = s, !.spend = x]
      BY <1>1, <1>3, <2>1
    <2> HIDE DEF base, c, s, x
    <2>3. /\ row' \in Row
          /\ row'.exists = base.exists /\ row'.stopped = base.stopped
          /\ row'.calls = c /\ row'.semantic = s /\ row'.spend = x
      BY <2>2 DEF Row
    <2> QED BY <2>3 DEF c, s, x
  <1>8. row'.spend = row'.semantic * Cost
    <2> HIDE DEF base
    <2> QED BY <1>1, <1>4, <1>7
  <1> HIDE DEF base
  <1> QED BY <1>1, <1>2, <1>6, <1>7, <1>8

(* An empty database satisfies the invariant of the ledger.                *)
LEMMA LedgerInitInv == LedgerInit => LedgerInv
  <1> SUFFICES ASSUME LedgerInit PROVE LedgerInv
    OBVIOUS
  <1>1. LedgerTypeOK
    BY DEF LedgerInit, LedgerTypeOK, NoRow, Row
  <1>2. BudgetsHold
    BY LedgerAssumption DEF LedgerInit, BudgetsHold, NoRow
  <1>3. RiskyLimitStops
    BY LedgerAssumption DEF LedgerInit, RiskyLimitStops, NoRow
  <1> QED BY <1>1, <1>2, <1>3 DEF LedgerInv, AbsentRowEmpty, LedgerInit

(* Counting a risky attempt writes both tables, and keeps them in step.    *)
LEMMA RecordRiskyInv ==
    ASSUME LedgerInv, NEW a \in Actions, RecordRisky(a)
    PROVE  LedgerInv'
  <1>1. row.exists /\ ~row.stopped /\ row \in Row /\ risky \in [Actions -> Nat] /\ now \in Nat
    BY DEF RecordRisky, RiskyRefused, LedgerInv, LedgerTypeOK, Row
  <1> DEFINE stop == risky[a] + 1 >= MaxRisky
  <1>2. row' = [row EXCEPT !.stopped = stop]
    BY DEF RecordRisky
  <1>3. stop \in BOOLEAN
    OBVIOUS
  <1>4. /\ row' \in Row /\ row'.exists /\ row'.stopped = stop
        /\ row'.calls = row.calls /\ row'.semantic = row.semantic /\ row'.spend = row.spend
    <2> HIDE DEF stop
    <2> QED BY <1>1, <1>2, <1>3 DEF Row
  <1>5. risky' = [risky EXCEPT ![a] = risky[a] + 1] /\ now' = now
    BY DEF RecordRisky
  <1>6. LedgerTypeOK' /\ AbsentRowEmpty'
    BY <1>1, <1>4, <1>5 DEF LedgerTypeOK, AbsentRowEmpty
  <1>7. BudgetsHold'
    BY <1>4 DEF BudgetsHold, LedgerInv
  <1>8. RiskyLimitStops'
    <2>1. risky[a] < MaxRisky
      BY <1>1, LedgerAssumption DEF LedgerInv, RiskyLimitStops
    <2>2. ASSUME NEW b \in Actions
          PROVE  (risky'[b] >= MaxRisky => stop) /\ risky'[b] <= MaxRisky
      <3>1. CASE b = a
        BY <1>1, <1>5, <2>1, <3>1, LedgerAssumption
      <3>2. CASE b # a
        BY <1>1, <1>5, <3>2, LedgerAssumption DEF LedgerInv, RiskyLimitStops
      <3> QED BY <3>1, <3>2
    <2> HIDE DEF stop
    <2> QED BY <1>4, <2>2 DEF RiskyLimitStops
  <1> QED BY <1>6, <1>7, <1>8 DEF LedgerInv

(* `jrx session stop' keeps the invariant, on a stored row and on a new one. *)
LEMMA StopInv ==
    ASSUME LedgerInv, Stop
    PROVE  LedgerInv' /\ row'.stopped
  <1>1. LedgerTypeOK /\ row \in Row
    BY DEF LedgerInv, LedgerTypeOK
  <1>2. CASE row.exists
    <2>1. row' = [row EXCEPT !.stopped = TRUE] /\ risky' = risky /\ now' = now
      BY <1>2 DEF Stop
    <2>2. /\ row' \in Row /\ row'.exists /\ row'.stopped
          /\ row'.calls = row.calls /\ row'.semantic = row.semantic
          /\ row'.spend = row.spend
      BY <1>1, <2>1, <1>2 DEF Row
    <2> QED
      BY <2>1, <2>2 DEF LedgerInv, LedgerTypeOK, AbsentRowEmpty, BudgetsHold, RiskyLimitStops
  <1>3. CASE ~row.exists
    <2>1. row' = FreshRow(TRUE) /\ risky' = risky /\ now' = now
      BY <1>3 DEF Stop
    <2>2. /\ row' \in Row /\ row'.exists /\ row'.stopped
          /\ row'.calls = 0 /\ row'.semantic = 0 /\ row'.spend = 0
      BY <1>1, <2>1, FreshRowType
    <2>3. BudgetsHold'
      BY <2>2, LedgerAssumption DEF BudgetsHold
    <2> QED
      BY <2>1, <2>2, <2>3 DEF LedgerInv, LedgerTypeOK, AbsentRowEmpty, RiskyLimitStops
  <1> QED BY <1>2, <1>3

(* Every transaction, and the passing of time, keeps the ledger invariant. *)
LEMMA LedgerStep ==
    ASSUME LedgerInv, [LedgerNext]_ledgerVars
    PROVE  LedgerInv'
  <1>1. CASE UNCHANGED ledgerVars
    BY <1>1 DEF ledgerVars, LedgerInv, LedgerTypeOK, AbsentRowEmpty, BudgetsHold, RiskyLimitStops
  <1>2. ASSUME NEW sem \in Samples \cup {0}, NEW calls \in {0, 1}, Reserve(sem, calls)
        PROVE  LedgerInv'
    <2>1. sem \in Nat /\ calls \in Nat
      BY LedgerAssumption
    <2>2. /\ row' \in Row /\ row'.exists /\ ~row'.stopped
          /\ row'.calls <= MaxToolCalls /\ row'.semantic <= MaxSemantic
          /\ row'.spend = row'.semantic * Cost /\ row'.spend <= MaxSpend
          /\ ~row.stopped
      BY <1>2, <2>1, ReserveBooks
    <2>3. risky' = risky /\ now' = now
      BY <1>2 DEF Reserve
    <2>4. LedgerTypeOK' /\ AbsentRowEmpty'
      BY <2>2, <2>3 DEF LedgerInv, LedgerTypeOK, AbsentRowEmpty
    <2>5. BudgetsHold'
      BY <2>2 DEF BudgetsHold
    <2>6. RiskyLimitStops'
      BY <2>2, <2>3, LedgerAssumption DEF RiskyLimitStops, LedgerInv, LedgerTypeOK
    <2> QED BY <2>4, <2>5, <2>6 DEF LedgerInv
  <1>3. ASSUME NEW a \in Actions, RecordRisky(a)
        PROVE  LedgerInv'
    BY <1>3, RecordRiskyInv
  <1>4. CASE Stop
    BY <1>4, StopInv
  <1>5. CASE Tick
    BY <1>5 DEF Tick, LedgerInv, LedgerTypeOK, AbsentRowEmpty, BudgetsHold, RiskyLimitStops
  <1> QED BY <1>1, <1>2, <1>3, <1>4, <1>5 DEF LedgerNext

(* Type correctness, the budgets and the agreement of the two tables hold  *)
(* in every reachable state of the ledger (session_limits.py).             *)
THEOREM LedgerSafe == LedgerSpec => [](LedgerTypeOK /\ BudgetsHold /\ RiskyLimitStops)
  <1>1. LedgerInit => LedgerInv
    BY LedgerInitInv
  <1>2. LedgerInv /\ [LedgerNext]_ledgerVars => LedgerInv'
    BY LedgerStep
  <1>3. LedgerInv => LedgerTypeOK /\ BudgetsHold /\ RiskyLimitStops
    BY DEF LedgerInv
  <1> QED BY <1>1, <1>2, <1>3, PTL DEF LedgerSpec

(* A stop is irrevocable: whatever any process does to a stopped session,  *)
(* its row and its risky attempts stay as they are (session_limits.py).    *)
THEOREM StopIsForGood == LedgerSpec => StopFreezes
  <1>1. ASSUME LedgerInv, [LedgerNext]_ledgerVars, row.stopped
        PROVE  row' = row /\ risky' = risky
    <2>1. ASSUME NEW sem \in Samples \cup {0}, NEW calls \in {0, 1}, Reserve(sem, calls)
          PROVE  FALSE
      <3>1. sem \in Nat /\ calls \in Nat
        BY LedgerAssumption
      <3> QED BY <1>1, <2>1, <3>1, ReserveBooks
    <2>2. ASSUME NEW a \in Actions, RecordRisky(a)
          PROVE  FALSE
      BY <1>1, <2>2 DEF RecordRisky, RiskyRefused
    <2>3. CASE Stop
      <3>1. row.exists /\ row \in Row
        BY <1>1 DEF LedgerInv, LedgerTypeOK, AbsentRowEmpty, NoRow
      <3>2. row' = [row EXCEPT !.stopped = TRUE] /\ risky' = risky
        BY <2>3, <3>1 DEF Stop
      <3>3. row.stopped = TRUE
        BY <1>1, <3>1 DEF Row
      <3> QED BY <3>1, <3>2, <3>3 DEF Row
    <2>4. CASE Tick
      BY <2>4 DEF Tick
    <2>5. CASE UNCHANGED ledgerVars
      BY <2>5 DEF ledgerVars
    <2> QED BY <1>1, <2>1, <2>2, <2>3, <2>4, <2>5 DEF LedgerNext
  <1>2. LedgerInv /\ [LedgerNext]_ledgerVars
          => [row.stopped => row' = row /\ risky' = risky]_ledgerVars
    BY <1>1
  <1>3. LedgerInit => LedgerInv
    BY LedgerInitInv
  <1>4. LedgerInv /\ [LedgerNext]_ledgerVars => LedgerInv'
    BY LedgerStep
  <1> QED BY <1>2, <1>3, <1>4, PTL DEF LedgerSpec, StopFreezes

-----------------------------------------------------------------------------
(* The processes.                                                          *)

USE DEF Idle, Evaluating, Launching, Supervising, Unsupervised, Ended

(* Every step of the processes is a step of the ledger or leaves it alone. *)
LEMMA ProcessStep ==
    ASSUME TypeOK, [Next]_vars
    PROVE  [LedgerNext]_ledgerVars
  <1> USE DEF ReserveThen
  <1>1. ASSUME NEW r \in Runs, Begin(r)
        PROVE  [LedgerNext]_ledgerVars
    <2>1. SamplesOf[r] \in Samples
      BY ExecAssumption
    <2> QED BY <1>1, <2>1 DEF Begin, LedgerNext
  <1>2. ASSUME NEW r \in Runs, Evaluate(r)
        PROVE  [LedgerNext]_ledgerVars
    BY <1>2 DEF Evaluate
  <1>3. ASSUME NEW r \in Runs, CountRisky(r)
        PROVE  [LedgerNext]_ledgerVars
    <2>1. ActionOf[r] \in Actions
      BY ExecAssumption
    <2> QED BY <1>3, <2>1 DEF CountRisky, LedgerNext
  <1>4. ASSUME NEW r \in Runs, Recheck(r)
        PROVE  [LedgerNext]_ledgerVars
    BY <1>4 DEF Recheck, LedgerNext
  <1>5. ASSUME NEW r \in Execs, Supervise(r)
        PROVE  [LedgerNext]_ledgerVars
    BY <1>5 DEF Supervise, Launch, Prepare, Spawn, Reap, Watch, Terminated, Kill, LedgerNext
  <1>6. ASSUME NEW r \in Execs, ChildExits(r) \/ Forks(r)
        PROVE  [LedgerNext]_ledgerVars
    BY <1>6 DEF ChildExits, Forks
  <1>7. ASSUME NEW r \in Runs, DatabaseError(r) \/ Killed(r) \/ Interrupt(r)
        PROVE  [LedgerNext]_ledgerVars
    BY <1>7 DEF DatabaseError, Killed, Interrupt
  <1>8. CASE AdminStop
    BY <1>8 DEF AdminStop, LedgerNext
  <1>9. CASE ClockTick
    BY <1>9 DEF ClockTick, LedgerNext
  <1>10. CASE UNCHANGED vars
    BY <1>10 DEF vars, ledgerVars
  <1> QED
    BY <1>1, <1>2, <1>3, <1>4, <1>5, <1>6, <1>7, <1>8, <1>9, <1>10 DEF Next

ProcTypeOK ==
    /\ pc \in [Runs -> Idle \cup Evaluating \cup Launching \cup Supervising \cup Ended]
    /\ child \in [Execs -> {"none", "running", "exited", "killed"}]
    /\ others \in [Execs -> BOOLEAN]
    /\ deadline \in [Execs -> Nat]
    /\ used \in Nat

\* NoOrphan with its other half, which makes it inductive: before the launch
\* there is no child, so a run that ends early leaves none behind.
ChildInv ==
    \A r \in Execs :
        /\ pc[r] \in Idle \cup Evaluating \cup Launching => child[r] = "none" /\ ~others[r]
        /\ child[r] = "running" => pc[r] \in Supervising \cup Unsupervised
        /\ others[r] => child[r] \in {"running", "exited"}

Inv == LedgerInv /\ ProcTypeOK /\ ChildInv

(* The invariant of the composed system contains its type correctness.     *)
LEMMA InvTypeOK == Inv => TypeOK
  BY DEF Inv, LedgerInv, ProcTypeOK, TypeOK

(* Every step keeps the types of the processes' own variables.             *)
LEMMA ProcTypeStep ==
    ASSUME LedgerTypeOK, ProcTypeOK, [Next]_vars
    PROVE  ProcTypeOK'
  <1> USE DEF ReserveThen, Goto, ProcTypeOK
  <1>1. ASSUME NEW r \in Runs, Begin(r) \/ CountRisky(r) \/ Recheck(r)
        PROVE  ProcTypeOK'
    BY <1>1 DEF Begin, CountRisky, Recheck
  <1>2. ASSUME NEW r \in Runs, Evaluate(r)
        PROVE  ProcTypeOK'
    <2>1. SamplesOf[r] \in Nat
      BY ExecAssumption, LedgerAssumption
    <2> QED BY <1>2, <2>1 DEF Evaluate
  <1>3. ASSUME NEW r \in Execs, Supervise(r)
        PROVE  ProcTypeOK'
    <2>1. r \in Runs /\ now + MaxExecution \in Nat
      BY ExecAssumption DEF Runs, LedgerTypeOK
    <2>2. CASE Launch(r) \/ Prepare(r) \/ Reap(r) \/ Watch(r) \/ Terminated(r)
      BY <2>1, <2>2 DEF Launch, Prepare, Reap, Watch, Terminated
    <2>3. CASE Spawn(r)
      BY <2>1, <2>3 DEF Spawn
    <2>4. CASE Kill(r)
      BY <2>1, <2>4 DEF Kill
    <2> QED BY <1>3, <2>2, <2>3, <2>4 DEF Supervise
  <1>4. ASSUME NEW r \in Execs, ChildExits(r) \/ Forks(r)
        PROVE  ProcTypeOK'
    BY <1>4 DEF ChildExits, Forks
  <1>5. ASSUME NEW r \in Runs, DatabaseError(r) \/ Killed(r) \/ Interrupt(r)
        PROVE  ProcTypeOK'
    BY <1>5 DEF DatabaseError, Killed, Interrupt
  <1>6. CASE AdminStop \/ ClockTick
    BY <1>6 DEF AdminStop, ClockTick
  <1>7. CASE UNCHANGED vars
    BY <1>7 DEF vars
  <1> QED
    BY <1>1, <1>2, <1>3, <1>4, <1>5, <1>6, <1>7 DEF Next

(* No step leaves a child running behind a run that JRX ended itself.      *)
LEMMA ChildStep ==
    ASSUME ProcTypeOK, ChildInv, [Next]_vars
    PROVE  ChildInv'
  <1> USE DEF ReserveThen, Goto, ProcTypeOK, ChildInv, Runs
  <1>1. ASSUME NEW r \in Runs, Begin(r) \/ Evaluate(r) \/ CountRisky(r) \/ Recheck(r)
        PROVE  ChildInv'
    BY <1>1 DEF Begin, Evaluate, CountRisky, Recheck
  <1>2. ASSUME NEW r \in Execs, Supervise(r)
        PROVE  ChildInv'
    <2>1. CASE Launch(r) \/ Prepare(r)
      BY <2>1 DEF Launch, Prepare
    <2>2. CASE Spawn(r)
      BY <2>2 DEF Spawn
    <2>3. CASE Reap(r) \/ Watch(r) \/ Terminated(r)
      BY <2>3 DEF Reap, Watch, Terminated
    <2>4. CASE Kill(r)
      BY <2>4 DEF Kill
    <2> QED BY <1>2, <2>1, <2>2, <2>3, <2>4 DEF Supervise
  <1>3. ASSUME NEW r \in Execs, ChildExits(r) \/ Forks(r)
        PROVE  ChildInv'
    BY <1>3 DEF ChildExits, Forks
  <1>4. ASSUME NEW r \in Runs, DatabaseError(r) \/ Killed(r)
        PROVE  ChildInv'
    BY <1>4 DEF DatabaseError, Killed
  <1>5. ASSUME NEW r \in Runs, Interrupt(r)
        PROVE  ChildInv'
    BY <1>5 DEF Interrupt
  <1>6. CASE AdminStop \/ ClockTick
    BY <1>6 DEF AdminStop, ClockTick
  <1>7. CASE UNCHANGED vars
    BY <1>7 DEF vars
  <1> QED
    BY <1>1, <1>2, <1>3, <1>4, <1>5, <1>6, <1>7 DEF Next

(* The invariant of the composed system holds in every reachable state.    *)
LEMMA InvInductive == Spec => []Inv
  <1>1. Init => Inv
    <2> SUFFICES ASSUME Init PROVE Inv
      OBVIOUS
    <2>1. LedgerInv
      BY LedgerInitInv DEF Init
    <2>2. ProcTypeOK /\ ChildInv
      BY DEF Init, ProcTypeOK, ChildInv, Runs
    <2> QED BY <2>1, <2>2 DEF Inv
  <1>2. Inv /\ [Next]_vars => Inv'
    <2> SUFFICES ASSUME Inv, [Next]_vars PROVE Inv'
      OBVIOUS
    <2>1. LedgerInv'
      BY InvTypeOK, ProcessStep, LedgerStep DEF Inv
    <2>2. ProcTypeOK'
      BY ProcTypeStep DEF Inv, LedgerInv
    <2>3. ChildInv'
      BY ChildStep DEF Inv
    <2> QED BY <2>1, <2>2, <2>3 DEF Inv
  <1> QED BY <1>1, <1>2, PTL DEF Spec

(* Every reachable state of the composed system is well typed.             *)
THEOREM TypeCorrect == Spec => []TypeOK
  <1>1. Inv => TypeOK
    BY InvTypeOK
  <1> QED BY InvInductive, <1>1, PTL

(* No run of `jrx exec' leaves its child behind unless JRX was killed, met *)
(* a database error or was interrupted twice; the rest of the child's      *)
(* group survives only where the child went before SIGKILL was due (the    *)
(* except clause of _execute_argv, cli.py).                                *)
THEOREM NoChildLeftBehind == Spec => []NoOrphan
  <1>1. Inv => NoOrphan
    BY DEF Inv, ChildInv, NoOrphan
  <1> QED BY InvInductive, <1>1, PTL

(* The processes use the session only through its transactions, so the     *)
(* composed system inherits the properties of the ledger.                  *)
LEMMA ImplementsLedger == Spec => LedgerSpec
  <1>1. Init => LedgerInit
    BY DEF Init
  <1>2. Inv /\ [Next]_vars => [LedgerNext]_ledgerVars
    BY InvTypeOK, ProcessStep
  <1> QED BY <1>1, <1>2, InvInductive, PTL DEF Spec, LedgerSpec

(* However many JRX processes share a session, its budgets hold, its two   *)
(* tables agree, and a stop is final (session_limits.py, evaluator.py,     *)
(* cli.py).                                                                *)
THEOREM SessionSafe == Spec => [](BudgetsHold /\ RiskyLimitStops) /\ StopFreezes
  <1>1. LedgerSpec => [](BudgetsHold /\ RiskyLimitStops)
    <2>1. (LedgerTypeOK /\ BudgetsHold /\ RiskyLimitStops) => (BudgetsHold /\ RiskyLimitStops)
      OBVIOUS
    <2> QED BY LedgerSafe, <2>1, PTL
  <1> QED BY <1>1, ImplementsLedger, StopIsForGood, PTL

-----------------------------------------------------------------------------
(* What is spent.  A sum over the processes is the number of elements of a *)
(* set here: what has been booked and may still be requested.              *)

Block(r) == {r} \X (1 .. SamplesOf[r])

Due == {u \in Runs \X Nat : pc[u[1]] = "evaluate" /\ u[2] \in 1 .. SamplesOf[u[1]]}

\* SpendBooked with the evaluations that are still to come.
SpendInv == IsFiniteSet(Due) /\ used + Cardinality(Due) <= row.semantic

(* A process that enters or leaves `evaluate' brings its samples or takes  *)
(* them away.                                                              *)
LEMMA BlockSize ==
    ASSUME NEW r \in Runs
    PROVE  IsFiniteSet(Block(r)) /\ Cardinality(Block(r)) = SamplesOf[r]
  <1>1. SamplesOf[r] \in Nat
    BY ExecAssumption, LedgerAssumption
  <1>2. IsFiniteSet(1 .. SamplesOf[r]) /\ Cardinality(1 .. SamplesOf[r]) = SamplesOf[r]
    BY <1>1, FS_Interval
  <1>3. IsFiniteSet({r}) /\ Cardinality({r}) = 1
    BY FS_Singleton
  <1> DEFINE U == {r}
             V == 1 .. SamplesOf[r]
  <1>4. IsFiniteSet(U \X V) /\ Cardinality(U \X V) = Cardinality(U) * Cardinality(V)
    <2> HIDE DEF U, V
    <2>1. IsFiniteSet(U) /\ IsFiniteSet(V)
      BY <1>2, <1>3 DEF U, V
    <2> QED BY <2>1, FS_Product
  <1>5. Cardinality(U) * Cardinality(V) = SamplesOf[r]
    BY <1>1, <1>2, <1>3
  <1> QED BY <1>4, <1>5 DEF Block

LEMMA SetGrows ==
    ASSUME NEW U, NEW V, IsFiniteSet(U), IsFiniteSet(V), U \cap V = {}
    PROVE  /\ IsFiniteSet(U \cup V)
           /\ Cardinality(U \cup V) = Cardinality(U) + Cardinality(V)
  <1>1. Cardinality(U \cap V) = 0
    BY FS_EmptySet
  <1>2. Cardinality(U) \in Nat /\ Cardinality(V) \in Nat
    BY FS_CardinalityType
  <1>3. /\ IsFiniteSet(U \cup V)
        /\ Cardinality(U \cup V) = Cardinality(U) + Cardinality(V) - Cardinality(U \cap V)
    BY FS_Union
  <1> QED BY <1>1, <1>2, <1>3

(* A reservation books the samples it is for, no step takes any back.      *)
LEMMA ReserveAdds ==
    ASSUME LedgerInv, NEW sem \in Nat, NEW calls, Reserve(sem, calls)
    PROVE  row'.semantic = row.semantic + sem
  <1>1. RowOrFresh.semantic = row.semantic /\ "semantic" \in DOMAIN RowOrFresh
    BY DEF RowOrFresh, FreshRow, LedgerInv, LedgerTypeOK, AbsentRowEmpty, NoRow, Row
  <1> DEFINE base == RowOrFresh
             x == sem * Cost
  <1>2. row' = [base EXCEPT !.calls = @ + calls, !.semantic = @ + sem, !.spend = @ + x]
    BY DEF Reserve
  <1>3. "semantic" \in DOMAIN base /\ base.semantic = row.semantic
    BY <1>1
  <1> HIDE DEF base, x
  <1> QED BY <1>2, <1>3

LEMMA BookedStays ==
    ASSUME LedgerInv, [LedgerNext]_ledgerVars
    PROVE  row'.semantic >= row.semantic
  <1>1. row.semantic \in Nat
    BY DEF LedgerInv, LedgerTypeOK, Row
  <1>2. ASSUME NEW sem \in Samples \cup {0}, NEW calls \in {0, 1}, Reserve(sem, calls)
        PROVE  row'.semantic >= row.semantic
    BY <1>1, <1>2, ReserveAdds, LedgerAssumption
  <1>3. ASSUME NEW a \in Actions, RecordRisky(a)
        PROVE  row'.semantic >= row.semantic
    BY <1>1, <1>3 DEF RecordRisky, LedgerInv, LedgerTypeOK, Row
  <1>4. CASE Stop
    BY <1>1, <1>4 DEF Stop, FreshRow, LedgerInv, LedgerTypeOK, AbsentRowEmpty, NoRow, Row
  <1>5. CASE Tick \/ UNCHANGED ledgerVars
    BY <1>1, <1>5 DEF Tick, ledgerVars
  <1> QED BY <1>2, <1>3, <1>4, <1>5 DEF LedgerNext

(* A step that brings no process to `evaluate' and requests nothing.       *)
LEMMA NothingDue ==
    ASSUME Inv, SpendInv, [Next]_vars, used' = used,
           \A r \in Runs : pc'[r] = "evaluate" => pc[r] = "evaluate"
    PROVE  SpendInv'
  <1>1. Due' \subseteq Due
    BY DEF Due
  <1>2. /\ IsFiniteSet(Due') /\ Cardinality(Due') <= Cardinality(Due)
        /\ Cardinality(Due) \in Nat /\ Cardinality(Due') \in Nat
    BY <1>1, FS_Subset, FS_CardinalityType DEF SpendInv
  <1>3. row'.semantic >= row.semantic /\ row.semantic \in Nat /\ row'.semantic \in Nat
    <2>1. LedgerInv /\ [LedgerNext]_ledgerVars
      BY InvTypeOK, ProcessStep DEF Inv
    <2>2. row'.semantic >= row.semantic
      BY <2>1, BookedStays
    <2> QED BY <2>1, <2>2, LedgerStep DEF LedgerInv, LedgerTypeOK, Row
  <1>4. used \in Nat
    BY DEF Inv, ProcTypeOK
  <1> QED BY <1>2, <1>3, <1>4 DEF SpendInv

LEMMA BeginSpends ==
    ASSUME Inv, SpendInv, NEW r \in Runs, Begin(r), [Next]_vars
    PROVE  SpendInv'
  <1> USE DEF Inv, ProcTypeOK
  <1>1. /\ pc[r] = "idle" /\ used' = used
        /\ \/ Reserve(SamplesOf[r], 1) /\ pc' = [pc EXCEPT ![r] = "evaluate"]
           \/ pc' = [pc EXCEPT ![r] = "refused"]
    BY DEF Begin, ReserveThen, Goto
  <1>2. CASE pc' = [pc EXCEPT ![r] = "refused"]
    BY <1>1, <1>2, NothingDue
  <1>3. CASE Reserve(SamplesOf[r], 1) /\ pc' = [pc EXCEPT ![r] = "evaluate"]
    <2>1. SamplesOf[r] \in Nat
      BY ExecAssumption, LedgerAssumption
    <2>2. row'.semantic = row.semantic + SamplesOf[r]
      BY <1>3, <2>1, ReserveAdds
    <2>3. Due' = Due \cup Block(r) /\ Due \cap Block(r) = {}
      BY <1>1, <1>3, <2>1 DEF Due, Block
    <2>4. IsFiniteSet(Due') /\ Cardinality(Due') = Cardinality(Due) + SamplesOf[r]
      BY <2>3, BlockSize, SetGrows DEF SpendInv
    <2>5. Cardinality(Due) \in Nat /\ used \in Nat /\ row.semantic \in Nat
      BY FS_CardinalityType DEF SpendInv, LedgerInv, LedgerTypeOK, Row
    <2> QED BY <1>1, <2>1, <2>2, <2>4, <2>5 DEF SpendInv
  <1> QED BY <1>1, <1>2, <1>3

LEMMA EvaluateSpends ==
    ASSUME Inv, SpendInv, NEW r \in Runs, Evaluate(r)
    PROVE  SpendInv'
  <1> USE DEF Inv, ProcTypeOK
  <1>1. /\ pc[r] = "evaluate" /\ row' = row /\ used' \in {used + 0, used + SamplesOf[r]}
        /\ \/ pc' = [pc EXCEPT ![r] = "risky"]
           \/ pc' = [pc EXCEPT ![r] = "recheck"]
    BY DEF Evaluate, Goto, ledgerVars
  <1>2. SamplesOf[r] \in Nat
    BY ExecAssumption, LedgerAssumption
  <1>3. Due = Due' \cup Block(r) /\ Due' \cap Block(r) = {} /\ Due' \subseteq Due
    BY <1>1, <1>2 DEF Due, Block
  <1>4. IsFiniteSet(Due') /\ Cardinality(Due') \in Nat
    BY <1>3, FS_Subset, FS_CardinalityType DEF SpendInv
  <1>5. Cardinality(Due) = Cardinality(Due') + SamplesOf[r]
    BY <1>3, <1>4, BlockSize, SetGrows
  <1>6. used \in Nat /\ row.semantic \in Nat
    BY DEF LedgerInv, LedgerTypeOK, Row
  <1> QED BY <1>1, <1>2, <1>4, <1>5, <1>6 DEF SpendInv

(* What is booked covers what was requested and what is still to come.     *)
LEMMA SpendStep ==
    ASSUME Inv, SpendInv, [Next]_vars
    PROVE  SpendInv'
  <1> USE DEF Inv, ProcTypeOK, Goto, ReserveThen
  <1>1. ASSUME NEW r \in Runs, CountRisky(r) \/ Recheck(r) \/ DatabaseError(r) \/ Killed(r) \/ Interrupt(r)
        PROVE  SpendInv'
    <2>1. used' = used /\ \A q \in Runs : pc'[q] = "evaluate" => pc[q] = "evaluate"
      BY <1>1 DEF CountRisky, Recheck, DatabaseError, Killed, Interrupt
    <2> QED BY <2>1, NothingDue
  <1>2. ASSUME NEW r \in Execs, Supervise(r) \/ ChildExits(r) \/ Forks(r)
        PROVE  SpendInv'
    <2>1. used' = used /\ \A q \in Runs : pc'[q] = "evaluate" => pc[q] = "evaluate"
      BY <1>2 DEF Supervise, Launch, Prepare, Spawn, Reap, Watch, Terminated, Kill, ChildExits, Forks, Runs
    <2> QED BY <2>1, NothingDue
  <1>3. CASE AdminStop \/ ClockTick \/ UNCHANGED vars
    BY <1>3, NothingDue DEF AdminStop, ClockTick, vars
  <1> QED BY <1>1, <1>2, <1>3, BeginSpends, EvaluateSpends DEF Next

(* However many processes share the session, and wherever they are killed  *)
(* or refused, no more evaluations have been requested than are booked,    *)
(* and their cost is within the limit (evaluate_context, reserve).         *)
THEOREM SpendIsBooked == Spec => []SpendBooked
  <1>1. Init => SpendInv
    <2> SUFFICES ASSUME Init PROVE SpendInv
      OBVIOUS
    <2>1. Due = {}
      BY DEF Init, Due
    <2> QED BY <2>1, FS_EmptySet DEF Init, LedgerInit, NoRow, SpendInv
  <1>2. Inv /\ SpendInv /\ [Next]_vars => SpendInv'
    BY SpendStep
  <1>3. Inv /\ SpendInv => SpendBooked
    <2> SUFFICES ASSUME Inv, SpendInv PROVE SpendBooked
      OBVIOUS
    <2>1. /\ used \in Nat /\ row.semantic \in Nat /\ Cost \in Nat /\ MaxSpend \in Nat
          /\ row.semantic * Cost <= MaxSpend
      BY LedgerAssumption DEF Inv, ProcTypeOK, LedgerInv, LedgerTypeOK, BudgetsHold, Row
    <2>2. used <= row.semantic
      <3>1. Cardinality(Due) \in Nat
        BY FS_CardinalityType DEF SpendInv
      <3> QED BY <2>1, <3>1 DEF SpendInv
    <2>3. used * Cost <= row.semantic * Cost
      BY <2>1, <2>2
    <2>4. used * Cost \in Nat /\ row.semantic * Cost \in Nat
      BY <2>1
    <2> QED BY <2>1, <2>2, <2>3, <2>4 DEF SpendBooked
  <1> QED BY <1>1, <1>2, <1>3, InvInductive, PTL DEF Spec

(* Once the session is over, every check refuses: only a child whose       *)
(* second check had passed can still be launched.                          *)
LEMMA OverRefuses ==
    ASSUME Inv, SessionOver, [Next]_vars
    PROVE  /\ \A r \in Runs : pc'[r] \in {"evaluate", "launch", "prepare", "spawn"} => pc'[r] = pc[r]
           /\ \A r \in Execs : child[r] = "none" /\ child'[r] = "running" => pc[r] = "spawn"
  <1> DEFINE Stays ==
        /\ \A r \in Runs : pc'[r] \in {"evaluate", "launch", "prepare", "spawn"} => pc'[r] = pc[r]
        /\ \A r \in Execs : child[r] = "none" /\ child'[r] = "running" => pc[r] = "spawn"
  <1> USE DEF Inv, ProcTypeOK, Goto, Runs
  <1>1. ASSUME NEW sem \in Nat, NEW calls \in Nat, NEW r, NEW next, NEW refusal,
               ReserveThen(r, sem, calls, next, refusal)
        PROVE  pc' = [pc EXCEPT ![r] = refusal]
    <2>1. ~Reserve(sem, calls)
      <3>1. row.exists => now - row.started \in Int /\ MaxElapsed \in Int
        BY LedgerAssumption DEF LedgerInv, LedgerTypeOK, Row
      <3> QED BY <3>1, ReserveBooks DEF SessionOver
    <2> QED BY <1>1, <2>1 DEF ReserveThen
  <1>2. ASSUME NEW r \in Runs, Begin(r)
        PROVE  Stays
    <2>1. SamplesOf[r] \in Nat /\ pc' = [pc EXCEPT ![r] = "refused"] /\ child' = child
      BY <1>1, <1>2, ExecAssumption, LedgerAssumption DEF Begin
    <2> QED BY <2>1
  <1>3. ASSUME NEW r \in Runs, Evaluate(r) \/ CountRisky(r)
        PROVE  Stays
    BY <1>3 DEF Evaluate, CountRisky
  <1>4. ASSUME NEW r \in Runs, Recheck(r)
        PROVE  Stays
    <2>1. pc' = [pc EXCEPT ![r] = "refused"] /\ child' = child
      BY <1>1, <1>4 DEF Recheck
    <2> QED BY <2>1
  <1>5. ASSUME NEW r \in Execs, Launch(r) \/ Prepare(r)
        PROVE  Stays
    <2>1. pc' = [pc EXCEPT ![r] = "refused"] /\ child' = child
      BY <1>1, <1>5 DEF Launch, Prepare
    <2> QED BY <2>1
  <1>6. ASSUME NEW r \in Execs,
               Spawn(r) \/ Reap(r) \/ Terminated(r) \/ Kill(r) \/ ChildExits(r) \/ Forks(r)
        PROVE  Stays
    BY <1>6 DEF Spawn, Reap, Terminated, Kill, ChildExits, Forks
  <1>7. ASSUME NEW r \in Execs, Watch(r)
        PROVE  Stays
    <2>1. pc' = [pc EXCEPT ![r] = "grace"] /\ child' = child
      BY <1>1, <1>7 DEF Watch
    <2> QED BY <2>1
  <1>8. ASSUME NEW r \in Runs, DatabaseError(r) \/ Killed(r) \/ Interrupt(r)
        PROVE  Stays
    BY <1>8 DEF DatabaseError, Killed, Interrupt
  <1>9. CASE AdminStop \/ ClockTick \/ UNCHANGED vars
    BY <1>9 DEF AdminStop, ClockTick, vars
  <1> QED
    BY <1>2, <1>3, <1>4, <1>5, <1>6, <1>7, <1>8, <1>9 DEF Next, Supervise

(* Once the session is over, no evaluation begins and no process gets past *)
(* a check: only a child whose second check had passed can still be        *)
(* launched (evaluate_context, _execute_argv).                             *)
THEOREM OverIsOver == Spec => NoLaunchWhenOver
  <1> DEFINE Stays ==
        /\ \A r \in Runs : pc'[r] \in {"evaluate", "launch", "prepare"} => pc'[r] = pc[r]
        /\ \A r \in Execs :
              /\ pc'[r] = "spawn" => pc[r] = "spawn"
              /\ child[r] = "none" /\ child'[r] = "running" => pc[r] = "spawn"
  <1>1. Inv /\ [Next]_vars => [SessionOver => Stays]_vars
    BY OverRefuses DEF Runs
  <1> QED BY <1>1, InvInductive, PTL DEF Spec, NoLaunchWhenOver

(* An action that has used up its attempts ends the session for every      *)
(* process: the count and the stop, which are in two tables, are written   *)
(* together (record_risky), and every check reads the stop (reserve).      *)
THEOREM AttemptsAreLimited == Spec => RiskyLimitEndsLaunches
  <1> DEFINE Stays ==
        \A r \in Runs : pc'[r] \in {"evaluate", "launch", "prepare", "spawn"} => pc'[r] = pc[r]
  <1>1. Inv /\ [Next]_vars => [(\E a \in Actions : risky[a] >= MaxRisky) => Stays]_vars
    <2> SUFFICES ASSUME Inv, [Next]_vars, NEW a \in Actions, risky[a] >= MaxRisky PROVE Stays
      OBVIOUS
    <2>1. SessionOver
      BY DEF Inv, LedgerInv, RiskyLimitStops, SessionOver
    <2> QED BY <2>1, OverRefuses
  <1> QED BY <1>1, InvInductive, PTL DEF Spec, RiskyLimitEndsLaunches

=============================================================================
