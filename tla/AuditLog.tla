------------------------------ MODULE AuditLog ------------------------------
(***************************************************************************)
(* The hash-chained audit log: every evaluation and every human override   *)
(* appends one line to a file that many processes share.  Each line names  *)
(* its number and the hash of the line before; a writer holds a flock from *)
(* reading the chain's tip to fsync.  Processes are killed, writes fail    *)
(* for want of space, and the machine loses power.                         *)
(***************************************************************************)
EXTENDS Integers, Sequences, FiniteSets, SequencesExt

CONSTANTS
    Writers,      \* processes that each write one entry
    Overrides     \* those of them that write a human override

Nobody == "nobody"
Genesis == "genesis"

ASSUME AuditAssumption ==
    /\ Overrides \subseteq Writers
    /\ Nobody \notin Writers     \* a lock that is held has a holder

VARIABLES
    file,     \* the lines of the log
    synced,   \* how many of them a power loss cannot take
    lock,     \* who holds the flock
    pc,       \* where each writer is
    tip,      \* the number and predecessor it gives its entry
    buffer,   \* the part of its entry that its file object still holds
    result,   \* what its caller learns: proceed or hold
    failed    \* has any write or fsync failed so far

vars == <<file, synced, lock, pc, tip, buffer, result, failed>>

(* An entry is <<whole>>, the beginning of one <<torn>>, or two entries run *)
(* together in one line <<bad>>; hashes stand for the entry they are of.    *)
Line == [by : Writers, seq : Nat, prev : Writers \cup {Genesis},
         state : {"whole", "torn", "bad"}]

Init ==
    /\ file = <<>> /\ synced = 0
    /\ lock = Nobody
    /\ pc = [w \in Writers |-> "idle"]
    /\ tip = [w \in Writers |-> [seq |-> 0, prev |-> Genesis]]
    /\ buffer = [w \in Writers |-> "none"]
    /\ result = [w \in Writers |-> "none"]
    /\ failed = FALSE

-----------------------------------------------------------------------------
(* Line i continues the chain, as _chain_tip and verify see it. *)
Continues(i) ==
    /\ file[i].state = "whole"
    /\ file[i].seq = i
    /\ file[i].prev = IF i = 1 THEN Genesis ELSE file[i - 1].by

Verifies(n) == \A i \in 1 .. n : Continues(i)

Intact == Verifies(Len(file))

LastTorn == file # <<>> /\ Last(file).state = "torn"

Entry(w, state) == [by |-> w, seq |-> tip[w].seq, prev |-> tip[w].prev, state |-> state]

(* write(2) with O_APPEND: bytes go to the end of the file, be it the end *)
(* of a line or the middle of one.                                        *)
Appended(w, state) ==
    IF ~LastTorn THEN Append(file, Entry(w, state))
    ELSE IF Last(file).by = w /\ buffer[w] = "rest" /\ state = "whole"
           THEN Front(file) \o <<Entry(w, "whole")>>
           ELSE Front(file) \o <<[Last(file) EXCEPT !.state = IF state = "torn" THEN "torn" ELSE "bad"]>>

Learns(w, ok) ==
    result' = [result EXCEPT ![w] = IF ok \/ w \in Overrides THEN "proceed" ELSE "hold"]

Step(w, from, to) == pc[w] = from /\ pc' = [pc EXCEPT ![w] = to]

-----------------------------------------------------------------------------
(* _write_with_lock_atomic and write_human_override. *)

Lock(w) ==
    /\ Step(w, "idle", "tip") /\ lock = Nobody
    /\ lock' = w
    /\ UNCHANGED <<file, synced, tip, buffer, result, failed>>

(* _chain_tip raises on a damaged chain; otherwise it yields hash and number. *)
ReadTip(w) ==
    /\ IF Intact
         THEN /\ Step(w, "tip", "write")
              /\ tip' = [tip EXCEPT ![w] = [seq |-> Len(file) + 1,
                            prev |-> IF file = <<>> THEN Genesis ELSE Last(file).by]]
              /\ buffer' = [buffer EXCEPT ![w] = "entry"]
         ELSE Step(w, "tip", "unlock") /\ UNCHANGED <<tip, buffer>>
    /\ UNCHANGED <<file, synced, lock, result, failed>>

(* f.write and f.flush. *)
Write(w) ==
    /\ Step(w, "write", "sync")
    /\ file' = Appended(w, "whole")
    /\ buffer' = [buffer EXCEPT ![w] = "none"]
    /\ UNCHANGED <<synced, lock, tip, result, failed>>

(* flush raises: nothing or a part has been written, the buffer keeps the rest. *)
WriteFails(w) ==
    /\ Step(w, "write", "unlock")
    /\ \/ UNCHANGED <<file, buffer>>
       \/ file' = Appended(w, "torn") /\ buffer' = [buffer EXCEPT ![w] = "rest"]
    /\ failed' = TRUE
    /\ UNCHANGED <<synced, lock, tip, result>>

(* Mutant of Sync: flush without fsync. *)
SyncFlushed(w) ==
    /\ Step(w, "sync", "unlock")
    /\ Learns(w, TRUE)
    /\ UNCHANGED <<file, synced, lock, tip, buffer, failed>>

Sync(w) ==
    /\ Step(w, "sync", "unlock")
    /\ synced' = Len(file)
    /\ Learns(w, TRUE)
    /\ UNCHANGED <<file, lock, tip, buffer, failed>>

(* os.fsync raises: the line is there, its caller is told otherwise. *)
SyncFails(w) ==
    /\ Step(w, "sync", "unlock")
    /\ failed' = TRUE
    /\ UNCHANGED <<file, synced, lock, tip, buffer, result>>

(* finally: flock(LOCK_UN). *)
Unlock(w) ==
    /\ Step(w, "unlock", "close")
    /\ lock' = Nobody
    /\ UNCHANGED <<file, synced, tip, buffer, result, failed>>

(* Leaving the with statement closes the file object, which writes what its *)
(* buffer holds; an error then or before leads to audit_unavailable.        *)
Close(w) ==
    /\ Step(w, "close", "done")
    /\ \/ buffer[w] # "none" /\ file' = Appended(w, "whole")
       \/ buffer[w] = "entry" /\ file' = Appended(w, "torn")
       \/ UNCHANGED file
    /\ buffer' = [buffer EXCEPT ![w] = "none"]
    /\ IF result[w] = "none" THEN Learns(w, FALSE) ELSE UNCHANGED result
    /\ UNCHANGED <<synced, lock, tip, failed>>

-----------------------------------------------------------------------------
(* A process is killed, perhaps in the middle of its write(2). *)
Kill(w) ==
    /\ pc[w] \notin {"idle", "done", "killed"}
    /\ pc' = [pc EXCEPT ![w] = "killed"]
    /\ lock' = IF lock = w THEN Nobody ELSE lock
    /\ file' \in {file} \cup (IF pc[w] = "write" THEN {Appended(w, "torn")} ELSE {})
    /\ buffer' = [buffer EXCEPT ![w] = "none"]
    /\ UNCHANGED <<synced, tip, result, failed>>

(* Power fails: every writer is gone and lines not synced may be, too. *)
PowerLoss ==
    /\ \E n \in synced .. Len(file) :
         \/ file' = SubSeq(file, 1, n)
         \/ n < Len(file) /\ file' = Append(SubSeq(file, 1, n), [file[n + 1] EXCEPT !.state = "torn"])
    /\ pc' = [w \in Writers |-> IF pc[w] \in {"idle", "done"} THEN pc[w] ELSE "killed"]
    /\ buffer' = [w \in Writers |-> "none"]
    /\ lock' = Nobody
    /\ UNCHANGED <<synced, tip, result, failed>>

Next ==
    \/ \E w \in Writers :
         \/ Lock(w) \/ ReadTip(w) \/ Write(w) \/ WriteFails(w) \/ Sync(w) \/ SyncFails(w)
         \/ Unlock(w) \/ Close(w) \/ Kill(w)
    \/ PowerLoss

Spec == Init /\ [][Next]_vars

-----------------------------------------------------------------------------
(* Properties. *)

Evaluations == Writers \ Overrides

(* Decisions whose entry verifies and stays verifiable after a power loss. *)
Recorded(w) == \E i \in 1 .. synced : file[i].by = w /\ Verifies(i)

(* As long as no write has failed, an evaluation lets nothing run before    *)
(* its entry is in the verifiable, durable part of the log: kills and power *)
(* losses of any writer cost at most the entries of the killed.             *)
RecordedBeforeRun ==
    ~failed => \A w \in Evaluations : result[w] = "proceed" => Recorded(w)

(* The same without the condition: the lock protects the entire cycle. *)
DecisionsVerify == \A w \in Evaluations : result[w] = "proceed" => Recorded(w)
=============================================================================
