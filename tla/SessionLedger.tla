---------------------------- MODULE SessionLedger ----------------------------
(***************************************************************************)
(* The persistent budget and stop switch of one agent session: the tables  *)
(* `sessions' and `risky_attempts' that SessionStore keeps in SQLite.      *)
(* Every operation is one BEGIN IMMEDIATE transaction, so it is one step   *)
(* here, whatever process performs it; a transaction that raises rolls     *)
(* back and leaves the tables as they were.  The sessions of other ids     *)
(* live in other rows that no operation on this one reads or writes.       *)
(***************************************************************************)
EXTENDS Integers

CONSTANTS
    Actions,            \* fingerprints of proposed actions
    MaxToolCalls,       \* config.session.max_tool_calls
    MaxSemantic,        \* config.session.max_semantic_evaluations
    MaxSpend,           \* config.session.max_semantic_spend_usd, in units of 1e-9 USD or coarser
    Cost,               \* config.session.reserved_cost_per_evaluation_usd, same unit
    MaxElapsed,         \* config.session.max_elapsed_seconds
    MaxRisky,           \* config.session.max_risky_attempts
    Samples,            \* the numbers of semantic evaluations one call reserves
    MaxTime             \* bound on the modelled clock

ASSUME LedgerAssumption ==
    /\ MaxToolCalls \in Nat \ {0}
    /\ MaxSemantic \in Nat \ {0}
    /\ MaxSpend \in Nat \ {0}
    /\ Cost \in Nat \ {0}
    /\ MaxElapsed \in Nat \ {0}
    /\ MaxRisky \in Nat \ {0}
    /\ Samples \subseteq Nat
    /\ MaxTime \in Nat

VARIABLES
    row,      \* the row of table `sessions', or NoRow
    risky,    \* risky_attempts.count by fingerprint; 0 where there is no row
    now       \* time.time()

ledgerVars == <<row, risky, now>>

Row == [exists : BOOLEAN, started : Nat, stopped : BOOLEAN,
        calls : Nat, semantic : Nat, spend : Nat]

NoRow == [exists |-> FALSE, started |-> 0, stopped |-> FALSE,
          calls |-> 0, semantic |-> 0, spend |-> 0]

FreshRow(stop) == [NoRow EXCEPT !.exists = TRUE, !.started = now, !.stopped = stop]

\* The row a transaction works on: INSERT OR IGNORE, then SELECT.
RowOrFresh == IF row.exists THEN row ELSE FreshRow(FALSE)

\* Mutant: the limit is compared with what is booked, not with what will be.
RefusedTooLate(sem, calls) ==
    \/ RowOrFresh.stopped
    \/ now - RowOrFresh.started >= MaxElapsed
    \/ RowOrFresh.calls + calls > MaxToolCalls
    \/ RowOrFresh.semantic > MaxSemantic
    \/ RowOrFresh.spend > MaxSpend

\* reserve() raises SessionLimitError and rolls back, the INSERT included.
Refused(sem, calls) ==
    \/ RowOrFresh.stopped
    \/ now - RowOrFresh.started >= MaxElapsed
    \/ RowOrFresh.calls + calls > MaxToolCalls
    \/ RowOrFresh.semantic + sem > MaxSemantic
    \/ RowOrFresh.spend + sem * Cost > MaxSpend

-----------------------------------------------------------------------------

LedgerInit ==
    /\ row = NoRow
    /\ risky = [a \in Actions |-> 0]
    /\ now = 0

Reserve(sem, calls) ==
    /\ ~Refused(sem, calls)
    /\ row' = [RowOrFresh EXCEPT !.calls = @ + calls,
                                 !.semantic = @ + sem,
                                 !.spend = @ + sem * Cost]
    /\ UNCHANGED <<risky, now>>

\* record_risky() on a missing or stopped session raises before it writes.
RiskyRefused == ~row.exists \/ row.stopped

\* Mutant: the stop is left to a transaction of its own, which a crash may prevent.
RecordRiskyStopsLater(a) ==
    /\ ~RiskyRefused
    /\ risky' = [risky EXCEPT ![a] = @ + 1]
    /\ UNCHANGED <<row, now>>

\* The attempt is counted and, at the limit, the session stopped in the same
\* transaction; at the limit the caller then gets SessionLimitError.
RecordRisky(a) ==
    /\ ~RiskyRefused
    /\ risky' = [risky EXCEPT ![a] = @ + 1]
    /\ row' = [row EXCEPT !.stopped = risky[a] + 1 >= MaxRisky]
    /\ UNCHANGED now

RiskyLimitHit(a) == risky[a] + 1 >= MaxRisky

\* `jrx session stop': stops the row, or creates it stopped.
Stop ==
    /\ row' = IF row.exists THEN [row EXCEPT !.stopped = TRUE] ELSE FreshRow(TRUE)
    /\ UNCHANGED <<risky, now>>

Tick ==
    /\ now < MaxTime
    /\ now' = now + 1
    /\ UNCHANGED <<row, risky>>

LedgerNext ==
    \/ \E sem \in Samples \cup {0}, calls \in {0, 1} : Reserve(sem, calls)
    \/ \E a \in Actions : RecordRisky(a)
    \/ Stop
    \/ Tick

LedgerSpec == LedgerInit /\ [][LedgerNext]_ledgerVars

-----------------------------------------------------------------------------

LedgerTypeOK ==
    /\ row \in Row
    /\ risky \in [Actions -> Nat]
    /\ now \in Nat

(* However many processes reserve, no budget of the session is ever        *)
(* overdrawn, and the spend on the books is exactly what the reserved      *)
(* evaluations cost at most: a call that fits one limit and not another    *)
(* books nothing at all (reserve, session_limits.py).                      *)
BudgetsHold ==
    /\ row.calls <= MaxToolCalls
    /\ row.semantic <= MaxSemantic
    /\ row.spend = row.semantic * Cost
    /\ row.spend <= MaxSpend

(* The two tables agree: an action reached the risky limit only in a       *)
(* session that is stopped, and a missing session has no risky attempts,   *)
(* so no crash or interleaving between counting and stopping leaves a      *)
(* session that used up its attempts open (record_risky).                  *)
RiskyLimitStops ==
    /\ \A a \in Actions : risky[a] >= MaxRisky => row.stopped
    /\ \A a \in Actions : risky[a] <= MaxRisky
    /\ ~row.exists => \A a \in Actions : risky[a] = 0

(* A stop is for good: afterwards no operation of any process books a      *)
(* call, an evaluation or a risky attempt, reopens the session or moves    *)
(* its start time (reserve, record_risky, stop).                           *)
StopFreezes == [][row.stopped => row' = row /\ risky' = risky]_ledgerVars
=============================================================================
