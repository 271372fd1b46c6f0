# Formal model of JRX (jev_reflex)

JRX stands between a coding agent and the actions it proposes. It evaluates an
action (hard rules, an optional semantic evaluation, a policy), and allows it,
sends it to review or holds it; around that verdict it keeps budgets, leases,
approvals, an audit chain, a broker for the API key and a gateway in front of
MCP servers. These modules model the parts of JRX that keep state and are used
by several processes or threads at once. Python sources are named relative to
`src/src/jev_reflex/`; the documents quoted are the repository's own.

Run a model with `tlc -workers 2 -config X.cfg MCModule`, a proof with
`tlapm Module.tla`.

## Inventory

| Part | State | Operations | Who calls it | What is hard | What makes it correct |
|---|---|---|---|---|---|
| `session_limits.py` SessionStore | SQLite: one row per session (start, stopped, calls, evaluations, dollars), risky attempts per action | `reserve`, `record_risky`, `stop`, `status` | every evaluation, `jrx exec`, the MCP gateway, `jrx session stop` | processes racing for the last unit of a budget; a stop between a check and a launch; database errors | budgets never overdrawn; a stop is final; the risky limit stops |
| `cli.py` `_execute_argv` | the child, its deadline | launch, poll, terminate | `jrx exec`, agent runs | child outlives its supervisor, deadline against exit, stop against launch | nobody is launched in a session that is over; a child ends with its session or deadline |
| `enterprise.py` ApprovalStore | SQLite: approvals, grants | `request`, `pending`, `grant`, `consume` | `jrx approval`, `jrx exec`, hooks | two runs on one approval; reviewers racing; repository edited between binding and launch | four eyes, quorum, single use, binding to the reviewed action |
| `authority.py` AuthorityStore | signed rows: leases, uses | `issue`, `validate`, `check_live`, `revoke` | hosts, agents that delegate, evaluations, the gateway | chains of delegation, revocation above a lease in use, nonce races, expiry | attenuation to the root, nonces once, revocation reaches descendants |
| `mcp_gateway.py` | pending calls, catalog generation, trusted schemas, cursors; three kinds of threads; two pipes | read agent, read server, time out, watch the session, drain | one agent and one MCP server | late answers, stale catalog pages, blocked pipes, dying server | each call one outcome, pins current, nothing waits for ever |
| `broker.py` | lock file, socket, client count, worker slot, usage counters | `run`, `handle`, `evaluate`, client | evaluations that may not see the API key | brokers following each other, worker outliving its timeout, stale socket | the socket is served, one worker, no leak of the limit, every request ends |
| `audit.py` | append-only file of chained lines, flock | `write_entry`, `write_human_override`, `verify` | every evaluation, `jrx exec` overrides | crash and power loss in a write, full disk, buffered files | nothing runs before its entry is durable; chain stays verifiable |
| `evaluator.py`, `context.py`, `redaction.py`, `git_inspection.py` | none of its own | `evaluate_context` | CLI, hooks, gateway | order of the calls into the stores above, each of which can fail | a failure never loosens the verdict |
| `policy.py`, `models.py`, `calibration.py`, `checks/` | none | `decide`, the deterministic checks | the evaluator | thresholds and modes | monotone in risk and mode |
| `policy_source.py`, `config.py` | current policy, cached policy, reload thread | fetch, verify, merge, reload | CLI start, reload thread | stale cache, failing override, concurrent reload | local settings only tighten |
| `policy_rollout.py` | activation file and its lock | `stage`, `promote`, `rollback`, `select` | `jrx policy`, evaluations | crash between write and rename, reader without lock | only staged policies become active; rollback restores |
| `intent.py`, `agent_controls.py`, `agent_state.py`, `action_scope.py` | signed envelope and action records | create, evaluate, stop | evaluations | drift and counters under races; two stores, two transactions | lineage, count and drift agree |
| `workspace/` provider runs (`ui.py`, `process.py`, `handoff.py`, `acp_harness.py`, `state.py`) | workspace lock, task records, provider process groups | run, stream, hand over, cancel, fall back | the interactive workspace, `jrx harness acp` | a checkpoint on a changed workspace, lent locks, children that ignore signals, kills | one writer, as reviewed, the delivery record is ahead of the launch |
| `workspace/` deep harness (`deep_harness.py`, `harness_tools.py`) | session record with budget and pending approvals, LangGraph's checkpoint | `run`, `_reserve`, approve, reject, recover, write, run a command | `jrx harness` | parallel calls, a crash between record and checkpoint, approvals on a changed workspace | counted before made, approvals bind to the reviewed workspace, writes do not clobber |
| `sandbox.py`, `_egress_proxy.py` | container network and proxy, worker slots | prepare, clean up, proxy a connection | `jrx exec` with a sandbox | one step of several failing | nothing left behind, slots returned |
| adapters, providers, metrics, logging, benchmarks, command groups | none a decision depends on | translation and presentation | | | |

The parts meet in three places. One evaluation calls, in this order, the session
store (reserve), the checks, the semantic evaluator (directly or through the
broker), the policy, the agent controls, the session store again (risky
attempt), the audit log, and the session store once more; `jrx exec` then spends
an approval, checks its lease and the session and launches. The other place is
the gateway, whose main thread runs an evaluation per tool call while two other
kinds of threads act on its state. The third is the workspace lock, under which
the harness, the interactive workspace and the ACP adapter take turns on the
same files. Each store is a SQLite database with
`BEGIN IMMEDIATE`, or a file with `flock`, so one operation of a store is one
step of a model and everything between two operations may be interleaved.

`PROJECT.json` lists every component with its status and every hazard with the
line where it bites and the properties that would catch it.

## Modules

| Module | Models | State and actions in the code |
|---|---|---|
| `SessionLedger` | the tables of SessionStore | `row` is the row of `sessions`, `risky` the table `risky_attempts`, `now` the clock; `Reserve`, `RecordRisky`, `Stop` are the transactions, `Refused` and `RiskyRefused` the conditions under which they raise |
| `ExecSupervisor` (extends it) | the processes over one session | `pc` is where each JRX process stands in `evaluate_context` and `_execute_argv`, `child` what it launched, the leader of a process group, `others` whether further processes of that group run, `deadline` when it gives up; `Begin`, `Evaluate`, `CountRisky`, `Recheck`, `Launch`, `Prepare`, `Spawn`, `Watch`, `Reap`, and in the second after SIGTERM `Terminated` and `Kill`, are the steps between two calls of the store, `DatabaseError`, `Killed`, `Interrupt` (also a second one, during the cleanup), `ChildExits`, `Forks`, `AdminStop` what can happen to them |
| `ApprovalStore` | the approvals database | `approvals` and `grants` are the tables; `Request`, `Grant`, `Consume` the transactions |
| `EnterpriseExec` (extends it) | `exec_action` and the shell hook of `_run_hook` | `bound` is the binding a run computed, `verdict` what the evaluation returned, `tree` the repository; `Gate`, `Rebind`, `ConsumeApproval`, `Launch` are the steps from the verdict to the launch, `Edit` a change of the repository between any two of them |
| `AuthorityLeases` | AuthorityStore and the evaluations that hold a lease | `lease` and `uses` are the records; `Issue`, `Revoke`, `Authorize` (validate), `CheckLive` the operations, `Chain` the walk of `_chain` |
| `MCPGateway` | the threads of the gateway and the pipes | `main` and `reader` are the two threads, the remaining variables carry the code's names (`pending`, `expired`, `generation`, `trusted`, ...); a section under one of the two locks is one step, except that the main thread holds the catalog lock across its blocking write (`CatalogLocked`); what the reader has taken from `pending` and not sent yet is `Held`; `StopServer`, `LeaveRun` and `Exit` are the way out of `run`, after which the daemon thread is cut off; `server` is external, and may close one end of its pipes and live on |
| `Broker` | brokers following each other on one path and their clients | `phase` is where `run` stands, `slot` is `worker_lock`, `handler` the task of `handle` and its future, `worker` the thread, `result` what the client's `evaluate` returns; the client limit is checked at the connection, the slot when the evaluation begins |
| `AuditLog` | writers of one log file | `file` and `synced` are the file and what a power loss leaves of it, `tip`, `buffer` the local state of a writer, `lock` the flock |
| `PolicyEngine` | `decide`, `execution_allowed`, the merge of an override | operators: `Decide` follows the hard rules, signals, thresholds and mode in the code's order, `MergePolicies` the fields of `merge_policies` |
| `PolicyReload` (extends it) | the central source and its reload thread | `doc`, `sig` are what the source serves, `cache` the policy that the fetcher keeps, `current` the policy in force; fetch of the document and fetch of the signature are two steps |
| `PolicyActivation` | the register a rollout promises | `Stage`, `Promote`, `Rollback` of one value, each one step |
| `PolicyRollout` (extends `PolicyEngine`) | the rollout commands | `file` is the activation file, `holder` who has its flock, `phase` where an administrator's command stands; gate, lock, load, temporary file and rename are steps, and it may be killed at each |
| `IntentStore` | the intent envelope | `envelope` and `action` are the signed rows; evaluate with lineage, count and drift, and stop, are transactions |
| `SemanticSamples` | `aggregate_semantic_samples` | one operator: signals, risk class, confidence and degradation of several samples |
| `EvaluationPipeline` (extends `AuditLog`, `IntentStore`, uses `PolicyEngine`, `SemanticSamples`) | one evaluation from its reservation to the launch | `stage` is where `evaluate_context` and `exec_action` stand, `verdict`, `denied`, `degraded` what the evaluation holds; every call into a store can refuse or fail |
| `WorkspaceLock` | what the processes of a workspace share | `holder` is the flock, `files` the versions of the files, `owner` the processes JRX started; `Snapshot` is what `collect_workspace_state` tells of the files, that is of `Seen`; `Edit` is a change by an outsider, `Killed` the end of a JRX process |
| `DeepHarness` (extends it) | HarnessSession and its tools | `rec` is the session record, `graph` LangGraph's checkpoint (external), `step` where each worker stands; `Begin`, `Reserve`, `Count`, `Think`, `Asked`, `Finish`, `Fail` are `run` and `_reserve`, the rest are `workspace_write` and `run_command` |
| `ProviderRun` (extends it) | the runs and the handoff of the interactive workspace | `run` is how the provider is run, `task` the task record, `reviewed` the snapshot in the checkpoint; `Review` and `Confirm` are the two comparisons, `Ends` each way a run ends that JRX handles, `Escapes` an exception that frees the lock and terminates nobody, `Fallback` the provider's own terminal |
| `ManagedWorkspace` | both, over one lock and the same files | their composition |
| `MC*` | instances for TLC | values of the constants, and views |
| `SessionProofs`, `ApprovalProofs`, `AuthorityProofs`, `PolicyProofs`, `EvaluationProofs`, `BrokerProofs`, `GatewayProofs`, `WorkspaceProofs` | theorems | see below |

`PolicyRollout` is shown to implement the abstract register `PolicyActivation`, by TLC
as a property and by proof: that the lock, the temporary file, the rename, readers
without a lock and a kill at any point amount to one atomic step is not in the shape
of the definitions. `ExecSupervisor` is composed from the transactions of
`SessionLedger`, and `EvaluationPipeline` from the steps of `AuditLog`, so that they
implement those two is a matter of construction; the lemmas `ImplementsLedger` and
`PipelineImplementsLog` say so, and only serve to carry theorems from one to the other.
Operators whose comment begins with `Mutant` are
deliberately wrong variants of the definition that follows them; no
specification uses them. Each is a slip that a change to the code could make and
that the named property then detects.

Abstractions used throughout: ids, users, commands, tools and repository states
are model values; a digest stands for what it is a digest of, so two bindings are
equal if and only if their contents are; a signature that verifies is not
modelled, tampering with the files is out of scope.

## What each run checks

| Run | Instance | Question | States |
|---|---|---|---|
| `exec` | two `jrx exec` and one check, two actions; budgets so small that each of the five limits refuses somebody (2 calls, 3 evaluations, 8 units at 3 per evaluation, elapsed 2, risky 2); a child may run 1; time to 2; two interrupts, children that ignore SIGTERM or start others | do the budgets hold, is nothing launched once the session is over or its risky attempts are used up, which child is left by whom and what remains of its group, does a session that is over, or a deadline, end the children | 540,002 |
| `enterprise_exec` | one exec and one hook of the same developer and command, one approval, two reviewers and a user with both roles, two repository states, production and staging, enforce mode | separation of duties, one action per approval, binding to the reviewed action | 2,404,956 |
| `authority_leases` | three leases, so grandchildren; three terms of which each exceeds another in one respect; two evaluations and one nonce; time 1 with a lock wait of 1 | attenuation, uses, nonces, revocation | 356,381 (under symmetry) |
| `mcp` | one call on a pinned tool, one list id asked for twice, pipes of one message, one change of the catalog; a server that closes either end of its pipes; up to the exit of the interpreter | one outcome per call, no stale trust, writes under trust, every call answered and the main thread freed as long as the call has its timer | 1,067,715 |
| `broker` | two brokers, two clients, limit 1 | the socket, the slot, and that every request ends | 1,443,304 |
| `evaluation` | two evaluations of one intent, one with a possible human override; a clean, a held and a degraded action; drift 6 or 3 of 10; two actions per intent; kills, power loss, failing writes and samples | does any fault let an action through, do drift, count and lineage agree, is every decision durable before it counts | 536,989 (under the view) |
| `policy_reload` | two central policies, an override that only tightens and one that lowers the review threshold, a source that publishes, signs, fails and serves garbage between the two reads | are only signed policies in force, does an override tighten, does the thread catch up | 29,736 |
| `policy_rollout` | two administrators, three policies of which one is looser than the recorded decisions allow, percentages 10, 50 and 100, two repositories in different buckets, kills at every step | is the file one register, has every staged candidate passed against what is active, do scopes keep their candidate | 45,221 |
| `workspace` | one harness session (two writes of one file, a command and a read-only worker; 2 model and 3 tool calls) and the interactive workspace; two files with 3 versions, of which a snapshot tells of one; outsiders, kills of both, exceptions that get out | one writer, as reviewed, calls counted, approvals bind, tools do not clobber, deliveries told | 1,601,804 (under the view) |
| `replay` | as `workspace` | finding | |
| `cancel_tree` | as `workspace` | finding | |
| `audit_chain` | four writers, one of them an override | finding | |

Why these bounds are enough to be interesting. The races of the stores need two
parties and a unit to fight for, so two runs share one approval, one nonce, or a
budget of which one can be served; the check with two samples adds a call that
fits one limit and not the other. A chain of three leases is the shortest on
which a comparison with the direct parent could miss an ancestor. A catalog scan
becomes stale with a second scan or one change, so both occur while a page, a
call or a notification is in a pipe that is full. Two brokers are enough for a
start during a stop; one client above the limit makes the limit bite. Two
evaluations whose drifts (6 and 3, or 6 and 6) fit or do not fit into 10 together
tell a shared counter from one that is kept per run. The budget of the harness is
one call short of what its plans may ask for, so that parallel workers meet at
the limit, before and after a recovery; three versions of one file are the
initial one, the one a write expects and one of somebody else; the second file is one
that a command or the provider can change without any snapshot showing it.
All clocks and counters are bounded: `MaxTime`, `LastArrival`, `LastSpawn`,
`LockWait`, the server's changes (`MaxChanges`), the scans (`MaxScans`), the pipes
(`InRoom`, `OutRoom`), the versions of files (`MaxVersion`), `MaxDrift` and
`MaxActions` are limits of the code's own, given small values, as are `MaxModel`
and `MaxTool`. `CHECK_DEADLOCK FALSE` stands in every configuration because every
one of these systems may stop: all invocations have ended, or a bound is reached.
The proofs lift most of the safety properties to all values of the constants.

Symmetry is used for leases, nonces and runs that the definitions treat alike
(`authority_leases`, whose action property compares no named values). Two runs
use a view. `evaluation` drops what an evaluation that has ended knew: no action
and no property reads it any more. `workspace` drops history variables at times
when no action or property reads them: who wrote a file matters only while a run
of the harness or of a handoff is under way, the expected versions only while
calls are asked for, a process that outlived JRX writes exactly as an
outsider does, and of the file that no snapshot tells of it keeps only that a version
was used. Both runs have no liveness properties.

## Fairness

- `ExecSupervisor`: weak fairness of the clock and of the steps of
  `_execute_argv` of each run. The code polls `process.wait(timeout=0.1)` in a
  loop without any other wait, so a process that lives takes its next step. The
  child, the administrator and all failures have none: a child need never exit.
  The properties excuse a supervisor that was killed, met a database error or was
  interrupted a second time while it waited for the child after SIGTERM.
- `MCPGateway`: weak fairness of the main thread's own steps, of the reader, of
  each timer, and of the exit of a server that has been sent SIGTERM. The
  interpreter runs each runnable thread; `threading.Timer` fires. The agent and
  the server owe nothing: the server need never read, answer or exit by itself. Nor
  do the steps after the agent has gone (`Ending`): `run` may wait without a limit
  for a server that does not exit, or for the stream that the reader reads.
  A server that ignores SIGTERM is outside the claim: the code sends SIGKILL
  only at its end, and `MainReturns` would not hold. Nor is it claimed of a call that
  the reader has answered as `stopped`, whose timer it cancels.
- `Broker`: weak fairness of each handler on the event loop and of each client,
  whose socket has a timeout. The worker thread has none: it may hang for ever,
  and `EveryRequestEnds` holds with that.
- `PolicyReload`: weak fairness of the steps of the reload thread, which sleeps
  on an event with a timeout. The source, the administrator and the override owe
  nothing; `CatchesUp` presupposes a source that stays up with one signed policy.

## What is proved

Each theorem holds for every value of the constants that satisfies the named
assumption of its module.

`SessionProofs` (assumptions `LedgerAssumption`, `ExecAssumption`). The
invariant of the ledger, `LedgerInv`, adds to types, budgets and the risky limit
that a session without a row has booked nothing: the row a transaction works on
is a fresh one then, and only with this does what holds of the stored row hold of
it. `LedgerStep` shows it kept by every transaction. For the processes, `ProcessStep`
shows that each of their steps is a transaction of the ledger or leaves it alone,
which carries the ledger's properties to any number of processes (`SessionSafe`).
`NoChildLeftBehind` needs `ChildInv`: before the launch a run has no child, and only
a child that runs, or has exited by itself, has others in its group. `SpendIsBooked`
ties what was requested to what is booked, for runs that are refused or killed halfway
as well. `OverIsOver` is an action property: the session's last check before an
evaluation or a launch is a transaction, and one that a session which is over refuses.
`AttemptsAreLimited` adds that an action with no attempts left means a stopped session,
although the count and the stop are in two tables (`RiskyLimitStops`).

`ApprovalProofs` (`ApprovalAssumption`, `EnterpriseAssumption`). `ReviewInv`
keeps the number of required reviewers tied to the environment and the grants
tied to entitled reviewers other than the requester; with a cardinality argument
(`TwoOfThem`) two required grants are two people (`SeparationOfDuties`). `RunInv`
says that a run let through on an approval finds it spent, by this user, for what
this run bound; since spending needs an approval that is not spent, two runs
cannot share one (`ApprovalsAreSingleUse`, `RiskyActionsAreApproved`).
`ExecsKeepTheirTree` is the action property that a run of `jrx exec` computes its
binding a second time only to find it unchanged.

`AuthorityProofs` (`AuthorityAssumption`). The chain of a lease is defined as the
least set that contains the lease and the parent of each of its members, which
needs no recursion. To show that all of a chain has a property it is enough that
the leases with the property are closed under parents (`ChainIsLeast`).
`LeaseForest` says that every lease is no stronger than its parent; as this is
transitive (`CoveredTransitive`), the ancestors a lease is within are a closed
set, so they include the chain (`AttenuationReachesTheRoot`), and with it all
uses (`UsesStayWithinTheRoot`). `ChainLengths` ties the depth a lease carries to
the size of its chain: issuing adds one element to the chain of the parent and
leaves the others as they are (`IssueGrowsForest`).
`RevocationReachesDescendants` is an action property: validation, delegation and
the launch check walk the whole chain, and no step can change one.

`PolicyProofs`. `OverridesTighten` needs no state: it follows the clauses of
`Decide` one by one and shows that for each of them the merged policy has a
clause at least as strict, for all policies, overrides and inputs; an invariant
ties the policy in force to its central policy by `MergePolicies`. The condition it
carries, that the review threshold stays and mode review is not replaced by
enforce, is what the code makes necessary (see the observations below).
`OnlySignedPoliciesRule` needs that whatever is cached, fetched or in force was
endorsed (`Origin`).

Two theorems are about the verdict alone. `EvidenceNeverLoosens`: under one
policy, evidence that is no better (`NoBetter`: more findings and signals, no lower
probability, no milder risk class, no more confidence, degraded if the other was)
is judged no looser and runs no sooner. What could break it are the two margins,
between which a rising probability might have left a gap; `SignalReviewGrows` shows
that there is none. `ReviewIsStrictest`: whatever runs in mode review runs in mode
enforce. The merge (`mode_strictness` in `policy_source.py`) ranks them the other
way round, which is why `OverridesTighten` needs its condition on the mode.

For the rollout (`RolloutAssumption`), the state an administrator has loaded and
is about to write is the content of the file as long as he holds the lock; with
that, writing it is a step of the register (`FileIsOneRegister`), and staging,
which is refused under the lock unless the baseline of its replay is still the
active policy, stages only what passed against that policy
(`StagedPassedTheGate`). `ScopesKeepTheirCandidate` follows from the percentage
never decreasing while the candidate stays.

`EvaluationProofs` (`PipelineAssumption`, `IntentAssumption`, `AuditAssumption`), for
any number of evaluations and overrides. Several invariants stand on each other.

- `PipeInv` is the pipeline's own. Its part `FaultsRemembered` says that what has
  failed is still in `degraded` or `denied` when the gate looks (`FailuresBlock`),
  and `StopRemembered` that the last look at the envelope comes after the first
  (`StopsHold`). `ChainOfRecords` says that there is a sequence of all recorded
  actions, each with the one before it as its parent and the last one in the
  envelope; no variable holds it, so it is quantified in the invariant, and each
  step names the new sequence. With `CountersAgree` it gives
  `CountersMatchTheChain`, and with `RecordOfRun`, which ties what a run asked for to
  what its record says, `DriftStaysBounded`: what was launched is part of what was
  permitted.
- `LogInv` is that of the log: who is between its lock and its release is alone
  (`OneWriter`), so what it has read of the end of the file is still the end of the
  file (`TipIsRead`) and what it syncs is its entry (`EntryIsLast`). It needs that
  no buffer holds anything after its write (`Flushed`), which is what a failed flush
  breaks: the invariant is conditional on `~failed` there, and the finding
  `audit_chain` shows that it has to be. `LogRecordsFirst` is about the log alone;
  the pipeline is one of the systems it holds for (`PipelineRecordsFirst`).
- `AnswersTheLog` relates the two, and `LaunchesAreRecorded` says of the whole what
  neither says alone: as long as no write has failed, what is launched outside
  advisory mode is in the part of the log that verifies and is durable.
- `JudgementStands` follows a verdict through the pipeline. It gives
  `JudgementIsFinal`: what is launched is what `decide` and `execution_allowed` let
  run on the evidence at the beginning, or what a person confirmed as far as the
  policy lets a person do so.

`LaunchedAreRecorded` and `JudgementDecides` have no run of their own; they and the
invariants above were checked on the instance of `evaluation` (those of the log on a
smaller one of `audit_chain`) before they were proved.

Two definitions here are recursive functions, the walk back through the records and
the sum of drifts. Their defining equations are CHOOSE expressions, so nothing is
known of them until some function is shown to satisfy the equation: the lemmas
`BackIs` and `SumIs` give one, and show that any other agrees with it because there
is no least argument at which they differ (`LeastNat`). A sum is expressed as the
size of a set with one element for each unit of each number (`Units`), which the
theorems on cardinality can handle.

`BrokerProofs` (`BrokerAssumption`). `LifeInv`: whoever is between its lock and
its release holds the lock, and who serves has its own socket on the path; a
probe, bind or unlink needs the lock, so no other broker can replace it.
`SlotInv`: a handler reaches a broker before its worker runs and the slot goes
back only from the worker itself, so a timeout cannot let a second one in.

`GatewayProofs` (`GatewayAssumption`). A request is in one place at a time: in
one of the pipes or with the server. From this follow the agreement of the
calls' states (who may still answer a call, and that a refused call is in no
place at all) and, for the catalog, that a page that could bring back the trust
in a changed tool belongs to an older generation, or has an announcement of the
change behind it in the pipe. A call that the reader has taken from `_pending` is
nobody else's to answer (`Held`), which is why the end of the stream, the timer and a
result cannot meet although the reader sends later than it takes. The theorems are
`StaleTrustIsAnnounced`, `CallsEndOnce` and `WritesAreTrusted`, for pipes of any size.

`WorkspaceProofs` (`LockAssumption`, `HarnessAssumption`, `ProviderAssumption`,
`WorkspaceAssumption`). The inductive invariant `WorkspaceInv` says who is at work
holds the lock (`LockInv`; between a streamed run and its fallback only if the
lock is lent), what runs belongs to a command that has begun or to the provider's
run (`OwnerInv`), a worker in `_reserve` is alone there and what it has read is
the record still (`CountInv`), and that the delivery is recorded before anything
is launched (`TaskInv`). That a failed run leaves nothing behind also needs that
the calls have ended when the coordinator thinks (`LeadAlone`), which in turn
needs that a checkpoint asks for calls only (`GraphInv`). The theorems are
`RunsUnderTheLock`, `BudgetsAreShared` and `DeliveriesAreTold`.
`ReviewedInv`, on top of it, is about what the user has seen. Who writes while the
lock is held is the run itself, or an outsider after the comparison, which gives
`WorksOnWhatWasReviewed`, for the files that a snapshot tells of (`Seen`, any set of
files; outside Git it is empty, and the theorem says nothing). For `ApprovalsHold`
two facts meet. A call that has begun is of the round the checkpoint stands at, and
that round is approved if one of its calls needs it (`RoundInv`). And a digest whose
round has landed something in `Seen` is older than some file (`DigestInv`), so that an
approval, for which the digest must be that of the files, cannot come through: this is
what makes an approval void after a crash in the middle of a round, although nothing in
the record says so.
`ToolsKeepApart` needs `ToolInv`: a write between its comparison and its
replacement has the lock of the file tools.

All safety properties of the passing runs, invariants and action properties, are
stated by a theorem. Only model-checked is liveness under fairness
(`OverEndsChildren`, `DeadlineEndsChildren`, `EveryCallAnswered`, `MainReturns`,
`EveryRequestEnds`, `CatchesUp`), which is out of the prover's reach, as are
statements with ENABLED. Of the aggregation of samples (`SemanticSamples`), whose
means and medians are folds and a sort, nothing is proved: the theorems hold
whatever it yields.

The assumptions say no more than the code guarantees. Most are types and ranges.
The others keep apart what the code keeps apart: a JRX process, a tool call, a
process that JRX started, an outsider and "nobody" are different things
(`LockAssumption`, `HarnessAssumption`, `AuditAssumption`), and an evaluation has at
most one override (`PipelineAssumption`).

## Findings

Runs with expectation `violation` state what the documents or comments say and
show a behaviour of the code that contradicts it. The lines are quoted in
`PROJECT.json`.

1. `audit_chain`: a failed flush leaves the entry in the file object's buffer,
   which `close` writes after the lock was given back (`audit.py:367`); another
   writer's entry may have been chained meanwhile.
2. `cancel_tree`: `_terminate_group` (`workspace/process.py:37`) sends nothing more
   once the leader has gone, so a child that ignores SIGINT outlives the
   cancellation.
3. `replay`: `docs/agent-harness.md:19` says that recovery does not replay the
   interrupted action automatically. `run` (`workspace/deep_harness.py:314`) gives
   LangGraph the answer to the recorded interrupt, or nothing, and LangGraph goes on
   from its checkpoint: if JRX died while approved calls ran, those without a result
   are run again from their beginning. The trace has an approved command that changes
   its file, a kill of JRX, and a resume with `--recover --decision reject`, for which
   no digest is compared: the record still holds the request as pending, the checkpoint
   is past it, and the command is started again.

Observed while modelling, and in the models, without a run of their own:

- `_execute_argv` (`cli.py:592`) does not handle `sqlite3.Error` of the polling;
  JRX ends with a traceback and the child runs on without deadline or stop.
- The error path of a call (`mcp_gateway.py:461`) answers a call that its timer
  has answered already.
- `handle` (`broker.py:452`) reads the request count after its await, when the
  next worker may have reset it.
- A handoff to a provider's own terminal does not come to recording how it ended
  (`workspace/ui.py:1334` reads a variable that only the stream branch sets).
- A declined Codex write scope (`handoff.py:215`) passes a status to
  `record_delivery` that it refuses with ValueError.
- A signal that ends JRX during a streamed run leaves the provider running, and
  SIGKILL leaves a sandbox container; both go on writing after the lock is free.
- A model call cut off after its reservation is repeated on recovery without a
  new reservation.
- `docs/security.md:217` says that an override "can only TIGHTEN policy, never loosen
  it", :221 "Local can lower thresholds (making them stricter)" and :222 "advisory <
  enforce < review". The merge takes the lower review threshold
  (`policy_source.py:241`), but `decide` sends an evaluation to REVIEW when its
  `risk_confidence` is below it (`policy.py:130`), so a lower one turns REVIEW into
  ALLOW; and it ranks enforce above review (`policy_source.py:259`), which runs what
  review keeps for a person. `LocalOnlyTightens` excepts these two; without the
  first, TLC refutes it on the instance of `policy_reload`.
- A second Ctrl-C in the second that `_execute_argv` waits after SIGTERM
  (`cli.py:598`) leaves the handler before SIGKILL: a child that ignores SIGTERM runs
  on. And once the leader has gone nothing more is sent to its group, so another
  process of it that ignores SIGTERM, or was there when the child exited by itself,
  runs on (`cli.py:594-605`).
- A live MCP server that closes its output while the main thread is blocked in a
  write to it: the reader comes to the end of the stream, answers the call as stopped
  and cancels the timer, and nobody terminates the server (`mcp_gateway.py:296-302`);
  the write may wait for good.
- Once the reader has taken a call from `_pending`, it is a daemon thread that owes
  the answer (`mcp_gateway.py:284`, `:301`, `:473`): if the interpreter exits first,
  the agent does not get one.
- `stream_structured` terminates the provider on KeyboardInterrupt, OSError and
  WorkspaceError only (`workspace/process.py:351-358`). Another exception, as of a line
  that `json.loads` refuses with RecursionError or ValueError
  (`workspace/streaming.py:104` catches JSONDecodeError and TypeError) or of the
  window, frees the lock with the provider still writing.
- What is compared with the reviewed workspace is what `git status` reports, without
  ignored files, sensitive names and long paths (`workspace/state.py:267-295`); outside
  Git it is empty and `refresh_workspace_snapshot` (`workspace/handoff.py:197`) always
  says unchanged. `docs/unified-agent-workspace.md:293` calls this an "explicit
  reduced-capability snapshot". A round that has changed only such paths leaves its
  digest as it was, and can be approved again after a failure
  (`workspace/deep_harness.py:302`).

Properties that hold only with an exception say so: `RecordedBeforeRun` is
conditional on no write having failed; `NoOrphan`, `OverEndsChildren` and
`DeadlineEndsChildren` except a supervisor that was killed, met a database error or was
interrupted twice; `EveryCallAnswered` and `MainReturns` except the two cases of the
reader above; `OneWriter` excepts what runs on after a kill, an exception that got out
of JRX, a removal that was reported to have failed, or in the background of a provider
that has ended; `AsReviewed` and `ApprovalsBind` are about the files of `Seen`, and
the former excepts an outsider's writes after the last comparison.

## Not modelled, and why

- Verification of OIDC tokens, signatures, hashes and redaction: computations on
  data whose results the models take as given.
- The deterministic checks and the adapters: pattern matching and translation
  without state. What they find is an input of the evaluation.
- Whether an action lies outside its intent (`action_scope.py`): an input too.
- Symlinks below a granted path (`agent_state.py`), acknowledged by the documents.
- A wall clock that is set back: it would lengthen sessions, leases and
  approvals, and the modelled clocks only advance.
- Daily rotation of the audit file and remote anchors; the replay gate of the
  rollout reads a fixed log.
- TCP transport and peer authentication of the broker; framing.
- The sandbox of `jrx exec` and the relaying of connections by the egress proxy;
  of the proxy the models have the start and the removal.
- Installing hooks (`workspace/hooks.py`), parsing of provider events
  (`workspace/streaming.py`; its PendingApprovals is used by tests only), the
  screens of the terminal interface.
- User interface, metrics, benchmarks, logging, command groups: no decision reads
  them.

## Plan

Done: session and exec, approvals, authority, gateway, broker, audit, policy,
reload, rollout, intent and evaluation, managed workspace, and theorems of all of
them.

Next, in this order:

1. Composition by proof: what a launch of `jrx exec` rests on spans the ledger, the
   approvals and the pipeline, which have no common module. `EnterpriseExec` as an
   implementation of an abstract store of single-use approvals would be the first
   step.
2. Type correctness of the gateway, the broker and the audit log as theorems of
   their own; the invariants imply it only in part.
3. `SandboxEgress`: the worker slots of the proxy and the sandbox of `jrx exec`,
   whose preparation and cleanup are several steps that can each fail.
4. The installation of hooks: several files written one after the other, with a
   backup of each.
