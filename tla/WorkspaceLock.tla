---------------------------- MODULE WorkspaceLock ---------------------------
(***************************************************************************)
(* What every JRX process that manages a workspace shares: the writer lock *)
(* (flock, not blocking, released by the kernel when its holder dies), the *)
(* files, and the processes that JRX starts to write in them: provider     *)
(* CLIs, command containers and their network proxies.  The files are also *)
(* written by outsiders, who take no lock.                                 *)
(*                                                                         *)
(* A file is its version, as its SHA-256 and modification time tell it; 0  *)
(* stands for a file that does not exist.                                  *)
(***************************************************************************)
EXTENDS Integers, FiniteSets

CONSTANTS Jrx,         \* JRX processes
          Nobody,
          Outsider,    \* whoever writes without JRX
          Files, MaxVersion,
          Seen,        \* the files that a snapshot of the workspace tells of
          Managed      \* what JRX starts

ASSUME LockAssumption ==
    /\ MaxVersion \in Nat /\ {Outsider, Nobody} \cap (Jrx \cup Managed) = {}
    /\ Seen \subseteq Files

VARIABLES at,       \* where each JRX process stands
          holder,   \* of the lock
          files, version,
          author,   \* who wrote each file last (history)
          touched,  \* an outsider wrote one of Seen since the holder last compared (history)
          owner     \* of what is running: the JRX process that started it; of what
                    \* outlived that, or could not be removed: Outsider

lockVars == <<at, holder, files, version, author, touched, owner>>

LockInit ==
    /\ at = [p \in Jrx |-> "idle"] /\ holder = Nobody
    /\ files \in [Files -> {0, 1}] /\ version = 1
    /\ author = [f \in Files |-> Outsider] /\ touched = FALSE
    /\ owner = [m \in Managed |-> Nobody]

To(p, from, to) == at[p] = from /\ at' = [at EXCEPT ![p] = to]

\* collect_workspace_state: what git status reports, each file with its digest.  Seen
\* leaves out what Git ignores, names that look sensitive, long paths and what is
\* beyond the first files; outside Git it is empty, and all snapshots are the same.
Snapshot == {[f \in Seen |-> files[f]]}

-----------------------------------------------------------------------------
\* WorkspaceLock.acquire and release

Acquire(p) == holder = Nobody /\ holder' = p

Release(p) == holder' = IF holder = p THEN Nobody ELSE holder

Running(m) == owner[m] \in Jrx

\* Of ms, all but the loose are gone; the loose go on without JRX, if they ran.
Stopped(ms, loose) ==
    owner' = [m \in Managed |-> IF m \notin ms THEN owner[m]
                               ELSE IF m \in loose /\ Running(m) THEN Outsider ELSE Nobody]

\* A write by w, who is an outsider or works for the holder.
Write(w, f) ==
    /\ version < MaxVersion
    /\ version' = version + 1
    /\ files' = [files EXCEPT ![f] = version']
    /\ author' = [author EXCEPT ![f] = w]
    /\ touched' = (touched \/ (w = Outsider /\ f \in Seen))

-----------------------------------------------------------------------------
\* The world

Edit(f) == Write(Outsider, f) /\ UNCHANGED <<at, holder, owner>>

\* What JRX runs writes.
Works(m, f) == Running(m) /\ Write(m, f) /\ UNCHANGED <<at, holder, owner>>

\* JRX is killed: the kernel frees its lock, and what it had started goes on.
Killed(p) ==
    LET its == {m \in Managed : owner[m] = p} IN
    /\ at[p] # "idle" /\ at' = [at EXCEPT ![p] = "idle"]
    /\ Release(p) /\ Stopped(its, its)
    /\ UNCHANGED <<files, version, author, touched>>
=============================================================================
