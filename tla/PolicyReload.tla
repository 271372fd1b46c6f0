---------------------------- MODULE PolicyReload ----------------------------
(***************************************************************************)
(* The central policy of policy_source.py: a source that serves a document *)
(* and its signature, the file with the local override, and the thread of  *)
(* PolicyReloader that fetches, verifies, merges and swaps.  The document  *)
(* and the signature are read one after the other (two requests, or two    *)
(* files), so the source may change between the reads.                     *)
(***************************************************************************)
EXTENDS PolicyEngine

CONSTANTS Centrals,   \* policies the source may serve
          Locals,     \* policies the override file may hold
          Inputs,     \* evaluations the properties compare verdicts on
          Garbage,    \* a document that is no policy, an override that does not parse
          Nothing     \* no policy, no override file, nothing fetched

ASSUME ReloadAssumption ==
    /\ \A c \in Centrals \cup Locals : Valid(c)
    /\ \A e \in Inputs : IsEvaluation(e)
    /\ Garbage # Nothing
    /\ Garbage \notin Policies /\ Nothing \notin Policies

Documents == Centrals \cup {Garbage}
Overrides == Locals \cup {Garbage, Nothing}

VARIABLES doc,        \* the document the source serves
          sig,        \* the document its signature is of
          reachable,  \* requests succeed
          endorsed,   \* documents the owner of the pinned key has signed (history)
          override,   \* local_config_path
          cache,      \* PolicyFetcher._cached_policy
          current,    \* PolicyReloader._current_policy and the central one it came from
          stopping,   \* _stop_event
          pc,         \* where start() or the reload thread stands
          got         \* the document read, or the merged policy about to be swapped in

sourceVars == <<doc, sig, reachable, endorsed, override>>
vars == <<doc, sig, reachable, endorsed, override, cache, current, stopping, pc, got>>

Calling == {"new", "refused"}              \* start() may be called
Waiting == {"idle", "stopped"}             \* the thread waits, or has ended

TypeOK ==
    /\ doc \in Documents /\ sig \in Documents
    /\ reachable \in BOOLEAN /\ stopping \in BOOLEAN
    /\ endorsed \subseteq Documents
    /\ override \in Overrides
    /\ cache \in Centrals \cup {Nothing}
    /\ current.central \in Centrals \cup {Nothing}
    /\ pc \in Calling \cup Waiting \cup {"start_sig", "poll_sig", "fetched", "merged"}

Init ==
    /\ doc \in Centrals
    /\ sig = doc /\ endorsed = {doc}
    /\ reachable \in BOOLEAN
    /\ override \in Overrides
    /\ cache = Nothing
    /\ current = [policy |-> Nothing, central |-> Nothing]
    /\ stopping = FALSE
    /\ pc = "new" /\ got = Nothing

-----------------------------------------------------------------------------
\* The source and the local file.

Publish(d) ==
    /\ doc' = d
    /\ UNCHANGED <<sig, reachable, endorsed, override, cache, current, stopping, pc, got>>

Sign ==
    /\ sig' = doc
    /\ endorsed' = endorsed \cup {doc}
    /\ UNCHANGED <<doc, reachable, override, cache, current, stopping, pc, got>>

Outage ==
    /\ reachable' = ~reachable
    /\ UNCHANGED <<doc, sig, endorsed, override, cache, current, stopping, pc, got>>

EditOverride(o) ==
    /\ override' = o
    /\ UNCHANGED <<doc, sig, reachable, endorsed, cache, current, stopping, pc, got>>

-----------------------------------------------------------------------------
\* One reload.  What a fetch or signature error does: the cached policy stays,
\* and without one start() refuses.  Any other exception ends start() and is
\* logged by the thread.

Raised(starting) == IF starting THEN "refused" ELSE "idle"

FetchFailed(starting) ==
    /\ pc' = IF cache # Nothing THEN "idle" ELSE Raised(starting)
    /\ got' = Nothing
    /\ UNCHANGED <<cache, current>>

ReadDocument(starting) ==
    /\ IF starting THEN pc \in Calling ELSE pc = "idle" /\ ~stopping
    /\ \/ /\ reachable
          /\ got' = doc
          /\ pc' = IF starting THEN "start_sig" ELSE "poll_sig"
          /\ UNCHANGED <<cache, current>>
       \/ ~reachable /\ FetchFailed(starting)
    /\ UNCHANGED <<sourceVars, stopping>>

\* Mutant: the signature is fetched and not compared.
VerifiedNever(document) == TRUE

Verified(document) == sig = document

ReadSignature(starting) ==
    /\ pc = IF starting THEN "start_sig" ELSE "poll_sig"
    /\ \/ /\ reachable /\ Verified(got) /\ got # Garbage
          /\ cache' = got /\ pc' = "fetched"
          /\ UNCHANGED <<current, got>>
       \/ /\ reachable /\ Verified(got) /\ got = Garbage
          /\ pc' = Raised(starting) /\ got' = Nothing
          /\ UNCHANGED <<cache, current>>
       \/ ~(reachable /\ Verified(got)) /\ FetchFailed(starting)
    /\ UNCHANGED <<sourceVars, stopping>>

Effective(central, local) ==
    IF local \in Policies THEN MergePolicies(central, local) ELSE central

LoadLocal ==
    /\ pc = "fetched"
    /\ got' = Effective(cache, override)
    /\ pc' = "merged"
    /\ UNCHANGED <<sourceVars, cache, current, stopping>>

\* Mutant: the policy of the first fetch stays for good.
SwapOnce ==
    /\ pc = "merged"
    /\ current' = IF current.central = Nothing THEN [policy |-> got, central |-> cache] ELSE current
    /\ pc' = "idle" /\ got' = Nothing
    /\ UNCHANGED <<sourceVars, cache, stopping>>

\* The swap under the lock; the audit entry that follows is best effort.
Swap ==
    /\ pc = "merged"
    /\ current' = [policy |-> got, central |-> cache]
    /\ pc' = "idle" /\ got' = Nothing
    /\ UNCHANGED <<sourceVars, cache, stopping>>

\* stop() waits five seconds for the thread; a reload in progress ends on its own.
Stop ==
    /\ pc \notin Calling \cup {"start_sig"}
    /\ ~stopping
    /\ stopping' = TRUE
    /\ UNCHANGED <<sourceVars, cache, current, pc, got>>

ThreadEnds ==
    /\ pc = "idle" /\ stopping
    /\ pc' = "stopped"
    /\ UNCHANGED <<sourceVars, cache, current, stopping, got>>

Source == (\E d \in Documents : Publish(d)) \/ Sign \/ Outage \/ (\E o \in Overrides : EditOverride(o))

Start == ReadDocument(TRUE) \/ ReadSignature(TRUE)
Reload == ReadDocument(FALSE) \/ ReadSignature(FALSE) \/ LoadLocal \/ Swap \/ ThreadEnds

Next == Source \/ Start \/ Reload \/ Stop

Spec == Init /\ [][Next]_vars
FairSpec == Spec /\ WF_vars(Reload)

-----------------------------------------------------------------------------
(* The policy in force comes from a document that the owner of the key
   signed, whatever the source served between the two requests. *)
InForceIsSigned == current.central # Nothing => current.central \in endorsed

(* An override makes no verdict looser, as long as it leaves the review
   threshold alone and does not replace mode review by enforce: it may lengthen
   the lists, lower the strong threshold, and leave advisory mode. *)
LocalOnlyTightens ==
    LET c == current.policy
        d == current.central
    IN  (c # Nothing /\ c.review = d.review /\ (c.mode = d.mode \/ d.mode = "advisory"))
            => AtLeastAsStrict(c, d, Inputs)

(* A source that stays up with one signed policy, and an override that stays,
   are in force in the end, unless the reloader is stopped or never started. *)
CatchesUp ==
    \A d \in Centrals : \A o \in Overrides :
        <>[](/\ reachable /\ doc = d /\ sig = d /\ override = o
             /\ ~stopping /\ pc \notin Calling \cup {"start_sig"})
            => <>[](current.policy = Effective(d, o))
=============================================================================
