--------------------------- MODULE AuthorityLeases ---------------------------
(***************************************************************************)
(* Authority leases: a host issues root leases, agents delegate weaker     *)
(* ones to sub-agents, and every action consumes a nonce of its lease.     *)
(* AuthorityStore keeps leases and uses as signed rows of one SQLite       *)
(* table; each operation is one BEGIN IMMEDIATE transaction, hence one     *)
(* step, and an operation that raises changes nothing.                     *)
(***************************************************************************)
EXTENDS Integers, FiniteSets

CONSTANTS
    Leases,         \* lease ids (uuid4, so never issued twice)
    Principals,     \* <<subject, session>> pairs
    Contexts,       \* <<repository, environment, policy revision>> triples
    Capabilities,
    Paths,          \* relative paths inside a repository
    Under,          \* <<p, q>>: p is q or lies below it
    Nonces,
    Terms,          \* what is asked for in one issue: scopes, capabilities, ...
    Requests,       \* what an action needs: capabilities and resources
    Root,           \* the parent of a lease without parent_id
    MaxLeases,      \* config.authority.max_leases
    MaxRecords,     \* config.authority.max_records
    MaxDepth,       \* config.authority.max_depth
    LockWait,       \* bound: longest wait for the database lock
    MaxTime,        \* bound on the modelled clock
    Runs            \* evaluations: `jrx exec', hooks, MCP calls

Term == [caps : SUBSET Capabilities \ {{}}, forbidden : SUBSET Capabilities,
         scopes : SUBSET Paths \ {{}}, ttl : Nat \ {0}]

Request == [caps : SUBSET Capabilities \ {{}}, resources : SUBSET Paths \ {{}}]

ASSUME AuthorityAssumption ==
    /\ IsFiniteSet(Leases) /\ IsFiniteSet(Nonces)
    /\ Root \notin Leases
    /\ Under \subseteq Paths \X Paths
    /\ \A p \in Paths : <<p, p>> \in Under
    /\ \A p, q, s \in Paths : <<p, q>> \in Under /\ <<q, s>> \in Under => <<p, s>> \in Under
    /\ Terms \subseteq Term
    /\ Requests \subseteq Request
    /\ MaxLeases \in Nat /\ MaxRecords \in Nat /\ MaxDepth \in Nat
    /\ LockWait \in Nat /\ MaxTime \in Nat

VARIABLES
    lease,   \* [Leases -> lease record, or NoLease]
    uses,    \* the use records
    clock,   \* time.time()
    pc,      \* where each evaluation is
    held     \* the principal, lease and nonce each evaluation runs under

vars == <<lease, uses, clock, pc, held>>

Lease == [issuer : Principals, principal : Principals, context : Contexts,
          caps : SUBSET Capabilities, forbidden : SUBSET Capabilities,
          scopes : SUBSET Paths, issued : Int, expires : Int,
          parent : Leases \cup {Root}, depth : Nat, revoked : BOOLEAN, count : Nat]

NoLease == [issuer |-> "none"]

Use == [lease : Leases, nonce : Nonces, caps : SUBSET Capabilities,
        resources : SUBSET Paths]

Holding == [principal : Principals, lease : Leases, nonce : Nonces]

Issued == { l \in Leases : lease[l] # NoLease }

UsesOf(l) == { u \in uses : u.lease = l }

Parents(l) == IF lease[l].parent = Root THEN {} ELSE {lease[l].parent}

\* A set of leases that contains the parent of each of its issued members.
Closed(S) == \A a \in S \cap Issued : Parents(a) \subseteq S

\* The walk of _chain from a lease to its root: the lease, its parent, ...
Chain(l) == { a \in Leases : \A S \in SUBSET Leases : l \in S /\ Closed(S) => a \in S }

Covered(paths, scopes) == \A p \in paths : \E s \in scopes : <<p, s>> \in Under

Live(a) == ~lease[a].revoked /\ lease[a].issued <= clock /\ clock < lease[a].expires

\* Mutant: the scopes of the parent are not looked at.
SubsetAnyScope(c, p) ==
    /\ c.issuer = p.principal
    /\ c.context = p.context
    /\ c.expires <= p.expires
    /\ c.issued >= p.issued
    /\ c.depth = p.depth + 1
    /\ c.caps \subseteq p.caps
    /\ p.forbidden \subseteq c.forbidden

\* _subset: record c is no stronger than record p of its parent.
Subset(c, p) ==
    /\ c.issuer = p.principal
    /\ c.context = p.context
    /\ c.expires <= p.expires
    /\ c.issued >= p.issued
    /\ c.depth = p.depth + 1
    /\ c.caps \subseteq p.caps
    /\ p.forbidden \subseteq c.forbidden
    /\ Covered(c.scopes, p.scopes)

\* Mutant: only the lease itself is looked at, not where it comes from.
ChainValidLeafOnly(l) ==
    /\ l \in Issued /\ Live(l)
    /\ Cardinality(UsesOf(l)) = lease[l].count

\* _chain(l) returns; otherwise it raises ControlError.
ChainValid(l) ==
    /\ Chain(l) \subseteq Issued
    /\ Cardinality(Chain(l)) <= MaxDepth + 1
    /\ \A a \in Chain(l) :
          /\ Live(a)
          /\ Cardinality(UsesOf(a)) = lease[a].count
          /\ \A p \in Parents(a) : Subset(lease[a], lease[p])

\* put(new=True) refuses when the table is full, whatever its rows are.
RoomForOne == Cardinality(Issued) + Cardinality(uses) < MaxRecords

Goto(r, label) == pc' = [pc EXCEPT ![r] = label]

Init ==
    /\ lease = [l \in Leases |-> NoLease]
    /\ uses = {}
    /\ clock = 0
    /\ pc = [r \in Runs |-> "idle"]
    /\ held \in [Runs -> Holding]

-----------------------------------------------------------------------------

\* The record issue() builds; a child inherits what its parent forbids.
NewLease(issuer, principal, context, t, at, parent) ==
    [issuer |-> issuer, principal |-> principal, context |-> context,
     caps |-> t.caps, scopes |-> t.scopes,
     forbidden |-> IF parent = Root THEN t.forbidden
                   ELSE t.forbidden \cup lease[parent].forbidden,
     issued |-> at, expires |-> at + t.ttl, parent |-> parent,
     depth |-> IF parent = Root THEN 0 ELSE lease[parent].depth + 1,
     revoked |-> FALSE, count |-> 0]

Sound(new) == new.depth <= MaxDepth /\ new.caps \cap new.forbidden = {}

\* issue() takes the time before it waits for the database lock, so the times
\* of the lease can be stale when it is stored.
Issue(l, issuer, principal, context, t, parent) ==
    \E at \in clock - LockWait .. clock :
        LET new == NewLease(issuer, principal, context, t, at, parent) IN
        /\ l \notin Issued
        /\ Cardinality(Issued) < MaxLeases
        /\ parent # Root => ChainValid(parent) /\ Subset(new, lease[parent])
        /\ Sound(new)
        /\ RoomForOne
        /\ lease' = [lease EXCEPT ![l] = new]
        /\ UNCHANGED <<uses, clock, pc, held>>

\* revoke() does not look at the chain: a dead lease can be revoked as well.
Revoke(l) ==
    /\ l \in Issued
    /\ lease' = [lease EXCEPT ![l].revoked = TRUE]
    /\ UNCHANGED <<uses, clock, pc, held>>

\* Mutant: one resource inside the scopes is enough.
AuthorizesAnyResource(l, principal, context, request) ==
    /\ principal = lease[l].principal
    /\ context = lease[l].context
    /\ request.caps \subseteq lease[l].caps
    /\ request.caps \cap lease[l].forbidden = {}
    /\ \E p \in request.resources : Covered({p}, lease[l].scopes)

\* The leaf lease covers the action and belongs to who asks.
Authorizes(l, principal, context, request) ==
    /\ principal = lease[l].principal
    /\ context = lease[l].context
    /\ request.caps \subseteq lease[l].caps
    /\ request.caps \cap lease[l].forbidden = {}
    /\ Covered(request.resources, lease[l].scopes)

\* Mutant: the nonce record is overwritten instead of inserted.
FreshEverything(l, nonce) == TRUE

\* The primary key (`use', lease_id:nonce) is free.
Fresh(l, nonce) == \A u \in UsesOf(l) : u.nonce # nonce

NewUse(l, nonce, request) ==
    [lease |-> l, nonce |-> nonce, caps |-> request.caps, resources |-> request.resources]

BookUse(l, nonce, request) ==
    /\ uses' = uses \cup {NewUse(l, nonce, request)}
    /\ lease' = [lease EXCEPT ![l].count = @ + 1]

\* apply_controls: validate() reserves the nonce; any error is a denial.
Authorize(r, context, request) ==
    LET h == held[r] IN
    /\ pc[r] = "idle"
    /\ ChainValid(h.lease)
    /\ Authorizes(h.lease, h.principal, context, request)
    /\ RoomForOne
    /\ Fresh(h.lease, h.nonce)
    /\ BookUse(h.lease, h.nonce, request)
    /\ Goto(r, "authorized")
    /\ UNCHANGED <<clock, held>>

\* check_liveness, right before the launch or the forwarding to the MCP server.
CheckLive(r) ==
    /\ pc[r] = "authorized"
    /\ ChainValid(held[r].lease)
    /\ lease[held[r].lease].principal = held[r].principal
    /\ Goto(r, "launch")
    /\ UNCHANGED <<lease, uses, clock, held>>

Launch(r) ==
    /\ pc[r] = "launch"
    /\ Goto(r, "launched")
    /\ UNCHANGED <<lease, uses, clock, held>>

\* A refusal, an error or a crash ends the evaluation; a nonce it has reserved
\* stays spent.
GiveUp(r) ==
    /\ pc[r] \in {"idle", "authorized", "launch"}
    /\ Goto(r, "ended")
    /\ UNCHANGED <<lease, uses, clock, held>>

Tick ==
    /\ clock < MaxTime
    /\ clock' = clock + 1
    /\ UNCHANGED <<lease, uses, pc, held>>

Next ==
    \/ \E l \in Leases, i, p \in Principals, c \in Contexts, t \in Terms :
          \E parent \in Issued \cup {Root} : Issue(l, i, p, c, t, parent)
    \/ \E l \in Leases : Revoke(l)
    \/ \E r \in Runs :
          \/ \E c \in Contexts, q \in Requests : Authorize(r, c, q)
          \/ CheckLive(r) \/ Launch(r) \/ GiveUp(r)
    \/ Tick

Spec == Init /\ [][Next]_vars

-----------------------------------------------------------------------------

TypeOK ==
    /\ lease \in [Leases -> Lease \cup {NoLease}]
    /\ uses \subseteq Use
    /\ clock \in Nat
    /\ pc \in [Runs -> {"idle", "authorized", "launch", "launched", "ended"}]
    /\ held \in [Runs -> Holding]

(* Attenuation is transitive although _subset only ever compares a lease   *)
(* with its direct parent: no lease is stronger or lives longer than any   *)
(* of its ancestors, and what an ancestor forbids stays forbidden.         *)
Attenuated ==
    \A l \in Issued : \A a \in Chain(l) :
        /\ a \in Issued
        /\ lease[l].context = lease[a].context
        /\ lease[l].expires <= lease[a].expires
        /\ lease[l].caps \subseteq lease[a].caps
        /\ lease[a].forbidden \subseteq lease[l].forbidden
        /\ Covered(lease[l].scopes, lease[a].scopes)

(* What was really authorised stays within the root: every recorded use    *)
(* needed only capabilities and resources that every ancestor of its lease *)
(* had, and none that one of them forbade (validate, issue).               *)
UsesWithinEveryAncestor ==
    \A u \in uses : \A a \in Chain(u.lease) :
        /\ u.caps \subseteq lease[a].caps
        /\ u.caps \cap lease[a].forbidden = {}
        /\ Covered(u.resources, lease[a].scopes)

(* The chain a lease was issued under is as long as its depth says and     *)
(* never longer than max_depth allows, so that _chain, which rejects       *)
(* cycles and longer chains, accepts everything issue() accepted.          *)
DepthIsChainLength ==
    \A l \in Issued :
        /\ Cardinality(Chain(l)) = lease[l].depth + 1
        /\ lease[l].depth <= MaxDepth

(* The signed use counter and the use records agree after any sequence of  *)
(* calls: the integrity check of _chain never locks out an honest lease    *)
(* and all its descendants.                                                *)
CountersAgree == \A l \in Issued : lease[l].count = Cardinality(UsesOf(l))

\* The evaluation has passed validate() (an ended one may have).
Passed(r) == pc[r] \in {"authorized", "launch", "launched"}

(* Two evaluations that race with one nonce of one lease, or a retry after *)
(* a crash, never both get through, and whoever got through left its use   *)
(* record behind (validate inserts under BEGIN IMMEDIATE).                 *)
NonceSpentOnce ==
    \A r, s \in Runs :
        Passed(r) =>
            /\ ~Fresh(held[r].lease, held[r].nonce)
            /\ r # s /\ Passed(s) =>
                  \/ held[r].lease # held[s].lease
                  \/ held[r].nonce # held[s].nonce

Dead(a) == a \in Issued /\ ~Live(a)

(* Revoking a lease, or its expiry, takes effect on all its descendants at *)
(* once: from then on none of them is used, is delegated further or        *)
(* passes the check before a launch (_chain walks to the root every time). *)
DeadChainsAuthorizeNothing ==
    [][\A a \in Leases : Dead(a) =>
         \A l \in Issued : a \in Chain(l) =>
            /\ UsesOf(l)' = UsesOf(l)
            /\ \A k \in Leases \ Issued : lease'[k] # NoLease => lease'[k].parent # l
            /\ \A r \in Runs :
                  held[r].lease = l /\ pc'[r] \in {"authorized", "launch"} => pc'[r] = pc[r]]_vars
=============================================================================
