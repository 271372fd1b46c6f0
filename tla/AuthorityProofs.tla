--------------------------- MODULE AuthorityProofs ---------------------------
(***************************************************************************)
(* What authority leases guarantee for any number of leases, principals    *)
(* and evaluations.  The chain of a lease is the least set that contains   *)
(* it and is closed under parents, so a fact about every ancestor follows  *)
(* from the set of leases that have it being closed under parents.         *)
(***************************************************************************)
EXTENDS AuthorityLeases, FiniteSetTheorems, TLAPS

\* Every lease hangs, no stronger than its parent, in a forest.
LeaseForest ==
    \A l \in Issued :
        /\ lease[l].parent = Root => lease[l].depth = 0
        /\ lease[l].parent # Root =>
              /\ lease[l].parent \in Issued
              /\ Subset(lease[l], lease[lease[l].parent])
        /\ lease[l].depth <= MaxDepth

\* Every use is within its own lease.
UsesWithinLease ==
    \A u \in uses :
        /\ u.lease \in Issued
        /\ u.caps \subseteq lease[u.lease].caps
        /\ u.caps \cap lease[u.lease].forbidden = {}
        /\ Covered(u.resources, lease[u.lease].scopes)

\* Chains are finite and as long as the depth of their lease says.
ChainLengths ==
    \A l \in Issued :
        IsFiniteSet(Chain(l)) /\ Cardinality(Chain(l)) = lease[l].depth + 1

Inv ==
    /\ TypeOK
    /\ IsFiniteSet(uses)
    /\ LeaseForest
    /\ UsesWithinLease
    /\ CountersAgree
    /\ NonceSpentOnce
    /\ ChainLengths

\* NoLease is told apart from every lease record by its missing fields.
LEMMA NoLeaseIsNone == NoLease \notin Lease
BY DEF NoLease, Lease

\* An issued lease is a lease record.
LEMMA IssuedType ==
    ASSUME TypeOK
    PROVE  /\ Issued \subseteq Leases
           /\ \A l \in Issued : lease[l] \in Lease
BY NoLeaseIsNone DEF TypeOK, Issued

-----------------------------------------------------------------------------
\* Chains

\* A chain holds its own lease and lies in every closed set that does.
LEMMA ChainIsLeast ==
    ASSUME NEW l \in Leases
    PROVE  /\ l \in Chain(l)
           /\ \A S \in SUBSET Leases : l \in S /\ Closed(S) => Chain(l) \subseteq S
BY DEF Chain

\* A chain is itself closed under parents.
LEMMA ChainClosed ==
    ASSUME TypeOK, NEW l \in Leases
    PROVE  Closed(Chain(l))
<1> SUFFICES ASSUME NEW a \in Chain(l) \cap Issued, NEW p \in Parents(a)
             PROVE  p \in Chain(l)
  BY DEF Closed
<1>1. p \in Leases
  BY IssuedType, AuthorityAssumption DEF Parents, Lease
<1>2. \A S \in SUBSET Leases : l \in S /\ Closed(S) => p \in S
  BY DEF Chain, Closed
<1> QED BY <1>1, <1>2 DEF Chain

\* Covering is transitive, as a path below a path below a scope is below it.
LEMMA CoveredTransitive ==
    ASSUME NEW A \in SUBSET Paths, NEW B \in SUBSET Paths, NEW C \in SUBSET Paths,
           Covered(A, B), Covered(B, C)
    PROVE  Covered(A, C)
<1> SUFFICES ASSUME NEW x \in A PROVE \E z \in C : <<x, z>> \in Under
  BY DEF Covered
<1>1. PICK y \in B : <<x, y>> \in Under  BY DEF Covered
<1>2. PICK z \in C : <<y, z>> \in Under  BY <1>1 DEF Covered
<1> QED BY <1>1, <1>2, AuthorityAssumption

\* Scopes cover themselves.
LEMMA CoveredReflexive ==
    ASSUME NEW A \in SUBSET Paths
    PROVE  Covered(A, A)
BY AuthorityAssumption DEF Covered

\* Attenuation with respect to one ancestor.
Weaker(l, a) ==
    /\ lease[l].context = lease[a].context
    /\ lease[l].expires <= lease[a].expires
    /\ lease[l].caps \subseteq lease[a].caps
    /\ lease[a].forbidden \subseteq lease[l].forbidden
    /\ Covered(lease[l].scopes, lease[a].scopes)

\* The comparison with the direct parent reaches every ancestor.
LEMMA ForestAttenuates ==
    ASSUME TypeOK, LeaseForest
    PROVE  Attenuated
<1> SUFFICES ASSUME NEW l \in Issued
             PROVE  \A a \in Chain(l) : a \in Issued /\ Weaker(l, a)
  BY DEF Attenuated, Weaker
<1> DEFINE S == { a \in Issued : Weaker(l, a) }
<1>1. Issued \subseteq Leases /\ \A k \in Issued : lease[k] \in Lease
  BY IssuedType
<1>2. l \in S
  <2>1. lease[l] \in Lease  BY <1>1
  <2>2. lease[l].expires \in Int /\ lease[l].scopes \in SUBSET Paths  BY <2>1 DEF Lease
  <2> QED BY <2>2, CoveredReflexive DEF Weaker
<1>3. Closed(S)
  <2> SUFFICES ASSUME NEW a \in S, NEW p \in Parents(a)
               PROVE  p \in S
    BY DEF Closed
  <2>1. p = lease[a].parent /\ p # Root  BY DEF Parents
  <2>2. p \in Issued /\ Subset(lease[a], lease[p])  BY <2>1 DEF LeaseForest
  <2>3. lease[l] \in Lease /\ lease[a] \in Lease /\ lease[p] \in Lease  BY <1>1, <2>2
  <2>4. /\ lease[l].expires \in Int /\ lease[a].expires \in Int /\ lease[p].expires \in Int
        /\ lease[l].scopes \in SUBSET Paths
        /\ lease[a].scopes \in SUBSET Paths
        /\ lease[p].scopes \in SUBSET Paths
    BY <2>3 DEF Lease
  <2>5. Covered(lease[l].scopes, lease[p].scopes)
    BY <2>2, <2>4, CoveredTransitive DEF Subset, Weaker
  <2>6. lease[l].expires <= lease[p].expires
    BY <2>2, <2>4 DEF Subset, Weaker
  <2> QED BY <2>2, <2>5, <2>6 DEF Subset, Weaker
<1>4. S \in SUBSET Leases  BY <1>1
<1>5. Chain(l) \subseteq S  BY <1>1, <1>2, <1>3, <1>4, ChainIsLeast
<1> QED BY <1>5

\* A use within its lease is within every ancestor.
LEMMA UsesReachAncestors ==
    ASSUME TypeOK, LeaseForest, UsesWithinLease
    PROVE  UsesWithinEveryAncestor
<1> SUFFICES ASSUME NEW u \in uses, NEW a \in Chain(u.lease)
             PROVE  /\ u.caps \subseteq lease[a].caps
                    /\ u.caps \cap lease[a].forbidden = {}
                    /\ Covered(u.resources, lease[a].scopes)
  BY DEF UsesWithinEveryAncestor
<1> DEFINE l == u.lease
<1>1. /\ l \in Issued /\ u.caps \subseteq lease[l].caps
      /\ u.caps \cap lease[l].forbidden = {}
      /\ Covered(u.resources, lease[l].scopes)
  BY DEF UsesWithinLease
<1>2. Weaker(l, a) /\ a \in Issued
  BY <1>1, ForestAttenuates DEF Attenuated, Weaker
<1>3. lease[l] \in Lease /\ lease[a] \in Lease /\ u \in Use
  BY <1>1, <1>2, IssuedType DEF TypeOK
<1>4. /\ lease[l].scopes \in SUBSET Paths /\ lease[a].scopes \in SUBSET Paths
      /\ u.resources \in SUBSET Paths
  BY <1>3 DEF Lease, Use
<1>5. Covered(u.resources, lease[a].scopes)
  BY <1>1, <1>2, <1>4, CoveredTransitive DEF Weaker
<1> QED BY <1>1, <1>2, <1>5 DEF Weaker

-----------------------------------------------------------------------------
\* Chains and steps

\* Steps that issue nothing leave every chain as it is.
LEMMA SameTreeSameChains ==
    ASSUME Issued' = Issued,
           \A l \in Issued : lease'[l].parent = lease[l].parent
    PROVE  \A l \in Leases : Chain(l)' = Chain(l)
<1>1. \A l \in Issued : Parents(l)' = Parents(l)
  BY DEF Parents
<1>2. \A S \in SUBSET Leases : Closed(S)' = Closed(S)
  BY <1>1 DEF Closed
<1> QED BY <1>2 DEF Chain

\* Ancestors of an issued lease are issued.
LEMMA ChainsAreIssued ==
    ASSUME TypeOK, LeaseForest, NEW l \in Issued
    PROVE  Chain(l) \subseteq Issued
BY ForestAttenuates DEF Attenuated

\* A new lease adds a chain of its own and leaves the others as they are.
LEMMA IssueGrowsForest ==
    ASSUME TypeOK, LeaseForest, NEW n \in Leases, n \notin Issued,
           NEW rec \in Lease, lease' = [lease EXCEPT ![n] = rec],
           rec.parent \in Issued \cup {Root}
    PROVE  /\ Issued' = Issued \cup {n}
           /\ \A l \in Issued : Chain(l)' = Chain(l)
           /\ rec.parent = Root => Chain(n)' = {n}
           /\ rec.parent # Root =>
                 Chain(n)' = {n} \cup Chain(rec.parent) /\ n \notin Chain(rec.parent)
<1>1. Issued \subseteq Leases /\ DOMAIN lease = Leases /\ lease \in [Leases -> Lease \cup {NoLease}]
  BY IssuedType DEF TypeOK
<1>2. /\ lease'[n] = rec
      /\ \A l \in Issued : lease'[l] = lease[l] /\ l # n
      /\ Issued' = Issued \cup {n}
  BY <1>1, NoLeaseIsNone DEF Issued
<1>3. /\ \A l \in Issued : Parents(l)' = Parents(l)
      /\ Parents(n)' = IF rec.parent = Root THEN {} ELSE {rec.parent}
  BY <1>2 DEF Parents
<1>4. \A S \in SUBSET Leases : Closed(S)' => Closed(S)
  BY <1>2, <1>3 DEF Closed
<1>5. \A S \in SUBSET Issued : Closed(S) => Closed(S)'
  BY <1>2, <1>3 DEF Closed
<1>6. ASSUME NEW l \in Issued PROVE Chain(l)' = Chain(l)
  <2>1. Chain(l) \subseteq Chain(l)'
    BY <1>4 DEF Chain
  <2>2. Chain(l) \in SUBSET Issued /\ Closed(Chain(l)) /\ l \in Chain(l)
    BY <1>1, ChainsAreIssued, ChainClosed, ChainIsLeast
  <2>3. Chain(l) \in SUBSET Leases
    BY <1>1, <2>2
  <2>4. Chain(l)' \subseteq Chain(l)
    <3> DEFINE C == Chain(l)
    <3>1. C \in SUBSET Leases /\ l \in C  BY <2>2, <2>3
    <3>2. \A a \in C \cap Issued : Parents(a) \subseteq C  BY <2>2 DEF Closed
    <3>3. C \subseteq Issued  BY <2>2
    <3> SUFFICES ASSUME NEW a \in Chain(l)' PROVE a \in C
      OBVIOUS
    <3>4. \A S \in SUBSET Leases : l \in S /\ Closed(S)' => a \in S
      BY DEF Chain
    <3> HIDE DEF C
    <3>5. PICK S : S = C  OBVIOUS
    <3>6. S \in SUBSET Issued /\ Closed(S)  BY <3>2, <3>3, <3>5 DEF Closed
    <3>7. S \in SUBSET Leases /\ l \in S /\ Closed(S)'  BY <1>1, <1>5, <3>1, <3>5, <3>6
    <3> QED BY <3>4, <3>5, <3>7
  <2> QED BY <2>1, <2>4
<1>7. CASE rec.parent = Root
  <2>1. \A S \in SUBSET Leases : S = {n} => Closed(S)'
    BY <1>2, <1>3, <1>7 DEF Closed
  <2>2. Chain(n)' = {n}
    BY <2>1 DEF Chain
  <2> QED BY <1>2, <1>6, <1>7, <2>2
<1>8. CASE rec.parent # Root
  <2> DEFINE p == rec.parent
             D == {n} \cup Chain(p)
  <2>1. p \in Issued /\ p \in Leases  BY <1>1, <1>8
  <2>2. Chain(p) \subseteq Issued /\ Closed(Chain(p)) /\ p \in Chain(p)
    BY <2>1, ChainsAreIssued, ChainClosed, ChainIsLeast
  <2>3. n \notin Chain(p)  BY <2>2
  <2>4. D \in SUBSET Leases  BY <1>1, <2>2
  <2>5. \A a \in Chain(p) : Parents(a) \subseteq Chain(p)  BY <2>2 DEF Closed
  <2>6. \A S \in SUBSET Leases : S = D => Closed(S)'
    BY <1>2, <1>3, <1>8, <2>2, <2>5 DEF Closed
  <2>7. Chain(n)' \subseteq D
    BY <2>4, <2>6 DEF Chain
  <2>8. D \subseteq Chain(n)'
    <3> SUFFICES ASSUME NEW S \in SUBSET Leases, n \in S, Closed(S)'
                 PROVE  D \subseteq S
      BY <2>4 DEF Chain
    <3>1. p \in S  BY <1>2, <1>3, <1>8 DEF Closed
    <3>2. Closed(S)  BY <1>4
    <3> QED BY <3>1, <3>2, <2>1, ChainIsLeast
  <2>9. Chain(n)' = D  BY <2>7, <2>8
  <2> QED BY <1>2, <1>6, <1>8, <2>3, <2>9
<1> QED BY <1>7, <1>8

-----------------------------------------------------------------------------
\* Steps

\* The record issue() stores is a lease record.
LEMMA NewLeaseType ==
    ASSUME TypeOK, NEW i \in Principals, NEW p \in Principals, NEW c \in Contexts,
           NEW t \in Terms, NEW at \in Int, NEW parent \in Issued \cup {Root}
    PROVE  NewLease(i, p, c, t, at, parent) \in Lease
<1>1. t \in Term  BY AuthorityAssumption
<1>2. /\ t.caps \in SUBSET Capabilities /\ t.forbidden \in SUBSET Capabilities
      /\ t.scopes \in SUBSET Paths /\ t.ttl \in Nat
  BY <1>1 DEF Term
<1>3. parent # Root => /\ lease[parent].forbidden \in SUBSET Capabilities
                       /\ lease[parent].depth \in Nat /\ parent \in Leases
  BY IssuedType DEF Lease
<1> DEFINE f == IF parent = Root THEN t.forbidden ELSE t.forbidden \cup lease[parent].forbidden
           d == IF parent = Root THEN 0 ELSE lease[parent].depth + 1
           e == at + t.ttl
<1>4. f \in SUBSET Capabilities /\ d \in Nat /\ e \in Int /\ parent \in Leases \cup {Root}
  BY <1>2, <1>3
<1>5. NewLease(i, p, c, t, at, parent) =
        [issuer |-> i, principal |-> p, context |-> c, caps |-> t.caps,
         scopes |-> t.scopes, forbidden |-> f, issued |-> at, expires |-> e,
         parent |-> parent, depth |-> d, revoked |-> FALSE, count |-> 0]
  BY DEF NewLease
<1> HIDE DEF f, d, e
<1> QED BY <1>2, <1>4, <1>5 DEF Lease

\* Issuing keeps the invariant.
LEMMA IssueStep ==
    ASSUME Inv, NEW l \in Leases, NEW i \in Principals, NEW p \in Principals,
           NEW c \in Contexts, NEW t \in Terms, NEW parent \in Issued \cup {Root},
           Issue(l, i, p, c, t, parent)
    PROVE  Inv'
<1>1. PICK at \in clock - LockWait .. clock :
        LET new == NewLease(i, p, c, t, at, parent) IN
        /\ l \notin Issued
        /\ Cardinality(Issued) < MaxLeases
        /\ parent # Root => ChainValid(parent) /\ Subset(new, lease[parent])
        /\ Sound(new)
        /\ RoomForOne
        /\ lease' = [lease EXCEPT ![l] = new]
        /\ UNCHANGED <<uses, clock, pc, held>>
  BY DEF Issue
<1> DEFINE new == NewLease(i, p, c, t, at, parent)
<1>2. at \in Int  BY AuthorityAssumption DEF Inv, TypeOK
<1>3. TypeOK /\ LeaseForest  BY DEF Inv
<1>4. new \in Lease  BY <1>2, <1>3, NewLeaseType
<1>5. /\ new.parent = parent /\ new.count = 0
      /\ new.depth = IF parent = Root THEN 0 ELSE lease[parent].depth + 1
  BY DEF NewLease
<1>6. /\ l \notin Issued /\ lease' = [lease EXCEPT ![l] = new]
      /\ parent # Root => Subset(new, lease[parent])
      /\ new.depth <= MaxDepth
      /\ UNCHANGED <<uses, clock, pc, held>>
  BY <1>1 DEF Sound
<1> HIDE DEF new
<1>7. /\ Issued' = Issued \cup {l}
      /\ \A k \in Issued : Chain(k)' = Chain(k)
      /\ parent = Root => Chain(l)' = {l}
      /\ parent # Root =>
            Chain(l)' = {l} \cup Chain(parent) /\ l \notin Chain(parent)
  BY <1>3, <1>4, <1>5, <1>6, IssueGrowsForest
<1>8. /\ lease'[l] = new
      /\ \A k \in Issued : lease'[k] = lease[k] /\ k # l
      /\ \A k \in Issued : lease[k] \in Lease
  BY <1>3, <1>6, IssuedType DEF TypeOK
<1>9. TypeOK'
  BY <1>3, <1>4, <1>6 DEF TypeOK
<1>10. IsFiniteSet(uses)'
  BY <1>6 DEF Inv
<1>11. LeaseForest'
  <2> SUFFICES ASSUME NEW k \in Issued'
               PROVE  /\ lease'[k].parent = Root => lease'[k].depth = 0
                      /\ lease'[k].parent # Root =>
                            /\ lease'[k].parent \in Issued'
                            /\ Subset(lease'[k], lease'[lease'[k].parent])
                      /\ lease'[k].depth <= MaxDepth
    BY DEF LeaseForest
  <2>1. CASE k = l
    BY <2>1, <1>5, <1>6, <1>7, <1>8
  <2>2. CASE k \in Issued
    BY <2>2, <1>3, <1>7, <1>8 DEF LeaseForest
  <2> QED BY <2>1, <2>2, <1>7
<1>12. UsesWithinLease'
  BY <1>6, <1>7, <1>8 DEF Inv, UsesWithinLease
<1>13. CountersAgree'
  <2>1. \A k \in Issued : UsesOf(k)' = UsesOf(k)  BY <1>6 DEF UsesOf
  <2>2. UsesOf(l)' = {}  BY <1>6 DEF UsesOf, Inv, UsesWithinLease
  <2> QED BY <1>5, <1>7, <1>8, <2>1, <2>2, FS_EmptySet DEF CountersAgree, Inv
<1>14. NonceSpentOnce'
  BY <1>6 DEF NonceSpentOnce, Inv, Passed, Fresh, UsesOf
<1>15. ChainLengths'
  <2> SUFFICES ASSUME NEW k \in Issued'
               PROVE  IsFiniteSet(Chain(k)') /\ Cardinality(Chain(k)') = lease'[k].depth + 1
    BY DEF ChainLengths
  <2>1. CASE k \in Issued
    BY <2>1, <1>7, <1>8 DEF Inv, ChainLengths
  <2>2. CASE k = l /\ parent = Root
    <3>1. IsFiniteSet({l}) /\ Cardinality({l}) = 1  BY FS_Singleton
    <3>2. Chain(l)' = {l} /\ lease'[l].depth = 0  BY <2>2, <1>5, <1>7, <1>8
    <3> QED BY <2>2, <3>1, <3>2
  <2>3. CASE k = l /\ parent # Root
    <3>1. IsFiniteSet(Chain(parent)) /\ Cardinality(Chain(parent)) = lease[parent].depth + 1
      BY <2>3 DEF Inv, ChainLengths
    <3>2. /\ IsFiniteSet(Chain(parent) \cup {l})
          /\ Cardinality(Chain(parent) \cup {l}) = Cardinality(Chain(parent)) + 1
      BY <2>3, <3>1, <1>7, FS_AddElement
    <3>3. Chain(l)' = Chain(parent) \cup {l}  BY <1>7, <2>3
    <3> QED BY <2>3, <3>1, <3>2, <3>3, <1>5, <1>8
  <2> QED BY <1>7, <2>1, <2>2, <2>3
<1> QED BY <1>9, <1>10, <1>11, <1>12, <1>13, <1>14, <1>15 DEF Inv

\* Changing nothing of a lease but its revocation or its counter.
SameTerms ==
    /\ Issued' = Issued
    /\ \A k \in Issued : \A f \in {"issuer", "principal", "context", "caps", "forbidden",
                                   "scopes", "issued", "expires", "parent", "depth"} :
          lease'[k][f] = lease[k][f]

\* Changing only the revocation or the counter of leases keeps the forest.
LEMMA SameTermsSameForest ==
    ASSUME Inv, SameTerms
    PROVE  LeaseForest' /\ ChainLengths' /\ (\A k \in Leases : Chain(k)' = Chain(k))
<1>1. \A k \in Issued :
        /\ lease'[k].parent = lease[k].parent /\ lease'[k].depth = lease[k].depth
        /\ lease'[k].caps = lease[k].caps /\ lease'[k].forbidden = lease[k].forbidden
        /\ lease'[k].scopes = lease[k].scopes /\ lease'[k].context = lease[k].context
        /\ lease'[k].issuer = lease[k].issuer /\ lease'[k].principal = lease[k].principal
        /\ lease'[k].issued = lease[k].issued /\ lease'[k].expires = lease[k].expires
  BY DEF SameTerms
<1>2. Issued' = Issued  BY DEF SameTerms
<1>3. \A k \in Leases : Chain(k)' = Chain(k)
  BY <1>1, <1>2, SameTreeSameChains
<1>4. LeaseForest'
  BY <1>1, <1>2 DEF Inv, LeaseForest, Subset
<1>5. Issued \subseteq Leases  BY IssuedType DEF Inv
<1>6. ChainLengths'
  BY <1>1, <1>2, <1>3, <1>5 DEF Inv, ChainLengths
<1> QED BY <1>3, <1>4, <1>6

\* Revoking keeps the invariant.
LEMMA RevokeStep ==
    ASSUME Inv, NEW l \in Leases, Revoke(l)
    PROVE  Inv'
<1>1. /\ l \in Issued /\ lease' = [lease EXCEPT ![l].revoked = TRUE]
      /\ UNCHANGED <<uses, clock, pc, held>>
  BY DEF Revoke
<1>2. TypeOK /\ Issued \subseteq Leases /\ (\A k \in Issued : lease[k] \in Lease)
  BY IssuedType DEF Inv
<1>3. /\ lease'[l] = [lease[l] EXCEPT !.revoked = TRUE]
      /\ \A k \in Leases : k # l => lease'[k] = lease[k]
  BY <1>1, <1>2 DEF TypeOK
<1>4. lease'[l] \in Lease
  <2> DEFINE old == lease[l]
  <2>1. old \in Lease /\ lease'[l] = [old EXCEPT !.revoked = TRUE]  BY <1>1, <1>2, <1>3
  <2> HIDE DEF old
  <2> QED BY <2>1 DEF Lease
<1>5. TypeOK'  BY <1>1, <1>2, <1>3, <1>4 DEF TypeOK
<1>6. Issued' = Issued
  BY <1>1, <1>3, <1>4, NoLeaseIsNone DEF Issued
<1>7. SameTerms
  BY <1>1, <1>2, <1>3, <1>6 DEF SameTerms, Lease
<1>8. \A k \in Issued : lease'[k].count = lease[k].count
  <2>1. lease'[l].count = lease[l].count  BY <1>1, <1>2, <1>3 DEF Lease
  <2> QED BY <1>2, <1>3, <2>1
<1>9. CountersAgree'
  BY <1>1, <1>6, <1>8 DEF Inv, CountersAgree, UsesOf
<1>10. UsesWithinLease'
  BY <1>1, <1>6, <1>7 DEF Inv, UsesWithinLease, SameTerms
<1>11. NonceSpentOnce'
  BY <1>1 DEF Inv, NonceSpentOnce, Passed, Fresh, UsesOf
<1> QED BY <1>1, <1>5, <1>7, <1>9, <1>10, <1>11, SameTermsSameForest DEF Inv

\* Reserving a nonce keeps the invariant.
LEMMA AuthorizeStep ==
    ASSUME Inv, NEW r \in Runs, NEW c \in Contexts, NEW q \in Requests, Authorize(r, c, q)
    PROVE  Inv'
<1>0. PICK l \in Leases, n \in Nonces : held[r].lease = l /\ held[r].nonce = n
  BY DEF Inv, TypeOK, Holding
<1> DEFINE u == NewUse(l, n, q)
<1>1. /\ pc[r] = "idle" /\ ChainValid(l) /\ Authorizes(l, held[r].principal, c, q)
      /\ Fresh(l, n) /\ pc' = [pc EXCEPT ![r] = "authorized"]
      /\ uses' = uses \cup {u} /\ lease' = [lease EXCEPT ![l].count = @ + 1]
      /\ UNCHANGED <<clock, held>>
  BY <1>0 DEF Authorize, Goto, BookUse
<1>2. TypeOK /\ Issued \subseteq Leases /\ (\A k \in Issued : lease[k] \in Lease)
  BY IssuedType DEF Inv
<1>3. l \in Leases /\ n \in Nonces  OBVIOUS
<1>4. l \in Issued  BY <1>1, ChainIsLeast DEF ChainValid
<1>5. q \in Request  BY AuthorityAssumption
<1>6. /\ u \in Use /\ u.lease = l /\ u.nonce = n /\ u.caps = q.caps
      /\ u.resources = q.resources
  BY <1>3, <1>5 DEF NewUse, Use, Request
<1>7. u \notin uses  BY <1>1, <1>6 DEF Fresh, UsesOf
<1> HIDE DEF u
<1>8. /\ lease'[l] = [lease[l] EXCEPT !.count = @ + 1]
      /\ \A k \in Leases : k # l => lease'[k] = lease[k]
  BY <1>1, <1>2, <1>3 DEF TypeOK
<1>9. /\ lease'[l] \in Lease /\ lease'[l].count = lease[l].count + 1
      /\ \A f \in {"issuer", "principal", "context", "caps", "forbidden", "scopes",
                   "issued", "expires", "parent", "depth"} : lease'[l][f] = lease[l][f]
  <2> DEFINE old == lease[l]
             more == old.count + 1
  <2>1. old \in Lease /\ lease'[l] = [old EXCEPT !.count = more]  BY <1>2, <1>4, <1>8
  <2>2. more \in Nat  BY <2>1 DEF Lease
  <2> HIDE DEF old, more
  <2>3. lease'[l].count = more  BY <2>1 DEF Lease
  <2>4. lease'[l] \in Lease  BY <2>1, <2>2 DEF Lease
  <2>5. \A f \in {"issuer", "principal", "context", "caps", "forbidden", "scopes",
                  "issued", "expires", "parent", "depth"} : lease'[l][f] = old[f]
    BY <2>1 DEF Lease
  <2> QED BY <2>3, <2>4, <2>5 DEF old, more
<1>10. TypeOK'
  <2>1. lease' \in [Leases -> Lease \cup {NoLease}]  BY <1>1, <1>2, <1>8, <1>9 DEF TypeOK
  <2>2. uses' \subseteq Use  BY <1>1, <1>2, <1>6 DEF TypeOK
  <2>3. pc' \in [Runs -> {"idle", "authorized", "launch", "launched", "ended"}]
    BY <1>1, <1>2 DEF TypeOK
  <2> QED BY <1>1, <1>2, <2>1, <2>2, <2>3 DEF TypeOK
<1>11. IsFiniteSet(uses)'
  BY <1>1, FS_AddElement DEF Inv
<1>12. Issued' = Issued
  BY <1>4, <1>8, <1>9, NoLeaseIsNone DEF Issued
<1>13. SameTerms
  BY <1>2, <1>8, <1>9, <1>12 DEF SameTerms
<1>14. CountersAgree'
  <2>1. \A k \in Issued : k # l => UsesOf(k)' = UsesOf(k)
    BY <1>1, <1>6 DEF UsesOf
  <2>2. UsesOf(l)' = UsesOf(l) \cup {u}
    BY <1>1, <1>6 DEF UsesOf
  <2>3. IsFiniteSet(UsesOf(l)) /\ u \notin UsesOf(l)
    BY <1>7, FS_Subset DEF Inv, UsesOf
  <2>4. Cardinality(UsesOf(l) \cup {u}) = Cardinality(UsesOf(l)) + 1
    BY <2>3, FS_AddElement
  <2>5. lease[l].count = Cardinality(UsesOf(l))
    BY <1>4 DEF Inv, CountersAgree
  <2>6. lease'[l].count = Cardinality(UsesOf(l)')
    BY <2>2, <2>4, <2>5, <1>9
  <2>7. \A k \in Issued : k # l => lease'[k].count = Cardinality(UsesOf(k)')
    BY <2>1, <1>2, <1>8 DEF Inv, CountersAgree
  <2>8. \A k \in Issued : lease'[k].count = Cardinality(UsesOf(k)')  BY <2>6, <2>7
  <2> QED BY <1>12, <2>8 DEF CountersAgree
<1>15. UsesWithinLease'
  <2>1. \A k \in Issued : /\ lease'[k].caps = lease[k].caps
                          /\ lease'[k].forbidden = lease[k].forbidden
                          /\ lease'[k].scopes = lease[k].scopes
    BY <1>13 DEF SameTerms
  <2>2. /\ u.caps \subseteq lease[l].caps /\ u.caps \cap lease[l].forbidden = {}
        /\ Covered(u.resources, lease[l].scopes)
    BY <1>1, <1>6 DEF Authorizes
  <2> QED BY <1>1, <1>4, <1>6, <1>12, <2>1, <2>2 DEF Inv, UsesWithinLease
<1>16. NonceSpentOnce'
  <2>1. ~Fresh(l, n)'
    <3>1. u \in uses' /\ u.lease = l /\ u.nonce = n /\ held' = held  BY <1>1, <1>6
    <3> QED BY <3>1 DEF Fresh, UsesOf
  <2>2. \A s \in Runs : Passed(s)' => s = r \/ Passed(s)
    BY <1>1, <1>2 DEF Passed, TypeOK
  <2>3. \A s \in Runs : Passed(s) =>
          /\ ~Fresh(held[s].lease, held[s].nonce)
          /\ ~Fresh(held[s].lease, held[s].nonce)'
          /\ (held[s].lease # l \/ held[s].nonce # n)
    BY <1>0, <1>1 DEF Inv, NonceSpentOnce, Fresh, UsesOf
  <2>4. held' = held  BY <1>1
  <2>5. \A s \in Runs : Passed(s)' => ~Fresh(held[s].lease, held[s].nonce)'
    BY <1>0, <2>1, <2>2, <2>3, <2>4
  <2>6. \A s, k \in Runs : Passed(s)' /\ Passed(k)' /\ s # k =>
          held[s].lease # held[k].lease \/ held[s].nonce # held[k].nonce
    BY <1>0, <2>2, <2>3 DEF Inv, NonceSpentOnce
  <2> QED BY <2>4, <2>5, <2>6 DEF NonceSpentOnce
<1> QED BY <1>10, <1>11, <1>13, <1>14, <1>15, <1>16, SameTermsSameForest DEF Inv

\* Steps that leave leases and uses alone keep the invariant.
LEMMA QuietStep ==
    ASSUME Inv, UNCHANGED <<lease, uses, held>>, TypeOK',
           \A s \in Runs : Passed(s)' => Passed(s)
    PROVE  Inv'
<1>1. SameTerms  BY DEF SameTerms, Issued
<1>2. CountersAgree' /\ UsesWithinLease' /\ IsFiniteSet(uses)'
  BY DEF Inv, CountersAgree, UsesWithinLease, UsesOf, Issued
<1>3. NonceSpentOnce'
  BY DEF Inv, NonceSpentOnce, Fresh, UsesOf
<1> QED BY <1>1, <1>2, <1>3, SameTermsSameForest DEF Inv

\* The invariant holds in every reachable state.
LEMMA InvInductive == Spec => []Inv
<1>1. Init => Inv
  <2> SUFFICES ASSUME Init PROVE Inv
    OBVIOUS
  <2>1. Issued = {}  BY DEF Init, Issued
  <2>2. TypeOK  BY DEF Init, TypeOK
  <2>3. IsFiniteSet(uses)  BY FS_EmptySet DEF Init
  <2>4. NonceSpentOnce  BY DEF Init, NonceSpentOnce, Passed
  <2> QED BY <2>1, <2>2, <2>3, <2>4
          DEF Init, Inv, LeaseForest, UsesWithinLease, CountersAgree, ChainLengths
<1>2. Inv /\ [Next]_vars => Inv'
  <2> SUFFICES ASSUME Inv, [Next]_vars PROVE Inv'
    OBVIOUS
  <2>1. ASSUME NEW l \in Leases, NEW i \in Principals, NEW p \in Principals,
               NEW c \in Contexts, NEW t \in Terms, NEW parent \in Issued \cup {Root},
               Issue(l, i, p, c, t, parent)
        PROVE  Inv'
    BY <2>1, IssueStep
  <2>2. ASSUME NEW l \in Leases, Revoke(l) PROVE Inv'
    BY <2>2, RevokeStep
  <2>3. ASSUME NEW r \in Runs, NEW c \in Contexts, NEW q \in Requests, Authorize(r, c, q)
        PROVE  Inv'
    BY <2>3, AuthorizeStep
  <2>4. ASSUME NEW r \in Runs, CheckLive(r) \/ Launch(r) \/ GiveUp(r)
        PROVE  Inv'
    <3>1. UNCHANGED <<lease, uses, held, clock>>
      BY <2>4 DEF CheckLive, Launch, GiveUp
    <3>2. \E label \in {"launch", "launched", "ended"} :
            /\ pc' = [pc EXCEPT ![r] = label]
            /\ label # "ended" => Passed(r)
      BY <2>4 DEF CheckLive, Launch, GiveUp, Goto, Passed
    <3>3. TypeOK'  BY <3>1, <3>2 DEF Inv, TypeOK
    <3>4. \A s \in Runs : Passed(s)' => Passed(s)
      BY <3>2 DEF Inv, TypeOK, Passed
    <3> QED BY <3>1, <3>3, <3>4, QuietStep
  <2>5. CASE Tick
    <3>1. TypeOK'  BY <2>5 DEF Tick, Inv, TypeOK
    <3> QED BY <2>5, <3>1, QuietStep DEF Tick, Passed
  <2>6. CASE UNCHANGED vars
    <3>1. TypeOK'  BY <2>6 DEF vars, Inv, TypeOK
    <3> QED BY <2>6, <3>1, QuietStep DEF vars, Passed
  <2> QED BY <2>1, <2>2, <2>3, <2>4, <2>5, <2>6 DEF Next
<1> QED BY <1>1, <1>2, PTL DEF Spec

-----------------------------------------------------------------------------

(* Attenuation reaches the root, however long the chain is, although every *)
(* comparison is with the direct parent (AuthorityStore._subset).          *)
THEOREM AttenuationReachesTheRoot == Spec => []Attenuated
<1>1. Inv => Attenuated  BY ForestAttenuates DEF Inv
<1> QED BY <1>1, InvInductive, PTL

(* No action is ever authorised beyond what the root lease, and every      *)
(* lease on the way, allows (AuthorityStore.validate).                     *)
THEOREM UsesStayWithinTheRoot == Spec => []UsesWithinEveryAncestor
<1>1. Inv => UsesWithinEveryAncestor  BY UsesReachAncestors DEF Inv
<1> QED BY <1>1, InvInductive, PTL

(* Any number of racing or repeated evaluations spend a nonce once.        *)
THEOREM NoncesAreSingleUse == Spec => []NonceSpentOnce
<1>1. Inv => NonceSpentOnce  BY DEF Inv
<1> QED BY <1>1, InvInductive, PTL

(* The integrity checks of _chain hold by themselves in a store only these *)
(* operations write: counters match the use records, and chains are as     *)
(* deep as their leases say, within max_depth.                             *)
THEOREM HonestLeasesPassTheirChecks == Spec => [](TypeOK /\ CountersAgree /\ DepthIsChainLength)
<1>1. Inv => TypeOK /\ CountersAgree /\ DepthIsChainLength
  BY DEF Inv, ChainLengths, DepthIsChainLength, LeaseForest
<1> QED BY <1>1, InvInductive, PTL

(* Revocation and expiry take effect on all descendants at once.           *)
THEOREM RevocationReachesDescendants == Spec => DeadChainsAuthorizeNothing
<1> DEFINE DeadStep ==
      \A a \in Leases : Dead(a) =>
         \A l \in Issued : a \in Chain(l) =>
            /\ UsesOf(l)' = UsesOf(l)
            /\ \A k \in Leases \ Issued : lease'[k] # NoLease => lease'[k].parent # l
            /\ \A r \in Runs :
                  held[r].lease = l /\ pc'[r] \in {"authorized", "launch"} => pc'[r] = pc[r]
<1>1. Inv /\ [Next]_vars => [DeadStep]_vars
  <2> SUFFICES ASSUME Inv, Next, NEW a \in Leases, Dead(a), NEW l \in Issued, a \in Chain(l)
               PROVE  /\ UsesOf(l)' = UsesOf(l)
                      /\ \A k \in Leases \ Issued : lease'[k] # NoLease => lease'[k].parent # l
                      /\ \A r \in Runs :
                            held[r].lease = l /\ pc'[r] \in {"authorized", "launch"}
                              => pc'[r] = pc[r]
    OBVIOUS
  <2>1. ~ChainValid(l)  BY DEF ChainValid, Dead
  <2>2. TypeOK /\ Issued \subseteq Leases  BY IssuedType DEF Inv
  <2>3. \A k \in Leases \ Issued : lease[k] = NoLease  BY DEF Issued
  <2>4. ASSUME NEW n \in Leases, NEW i \in Principals, NEW p \in Principals,
               NEW c \in Contexts, NEW t \in Terms, NEW parent \in Issued \cup {Root},
               Issue(n, i, p, c, t, parent)
        PROVE  /\ uses' = uses /\ pc' = pc
               /\ \A k \in Leases \ Issued : lease'[k] # NoLease => lease'[k].parent # l
    <3>1. PICK at \in clock - LockWait .. clock :
            /\ parent # Root => ChainValid(parent)
            /\ lease' = [lease EXCEPT ![n] = NewLease(i, p, c, t, at, parent)]
            /\ UNCHANGED <<uses, pc>>
      BY <2>4 DEF Issue
    <3>2. NewLease(i, p, c, t, at, parent).parent = parent  BY DEF NewLease
    <3>3. parent # l  BY <2>1, <2>2, <3>1, AuthorityAssumption
    <3> QED BY <2>2, <2>3, <3>1, <3>2, <3>3 DEF TypeOK
  <2>5. ASSUME NEW n \in Leases, Revoke(n)
        PROVE  /\ uses' = uses /\ pc' = pc
               /\ \A k \in Leases \ Issued : lease'[k] = lease[k]
    BY <2>2, <2>5 DEF Revoke, TypeOK
  <2>6. ASSUME NEW r \in Runs, NEW c \in Contexts, NEW q \in Requests, Authorize(r, c, q)
        PROVE  /\ UsesOf(l)' = UsesOf(l)
               /\ held[r].lease # l /\ pc' = [pc EXCEPT ![r] = "authorized"]
               /\ \A k \in Leases \ Issued : lease'[k] = lease[k]
    <3>1. held[r].lease # l  BY <2>1, <2>6 DEF Authorize
    <3>2. ChainValid(held[r].lease)  BY <2>6 DEF Authorize
    <3>3. held[r].lease \in Issued
      BY <2>2, <3>2, ChainIsLeast DEF ChainValid, TypeOK, Holding
    <3>4. UsesOf(l)' = UsesOf(l)
      BY <2>6, <3>1 DEF Authorize, BookUse, NewUse, UsesOf
    <3> QED BY <2>2, <2>6, <3>1, <3>3, <3>4 DEF Authorize, BookUse, Goto, TypeOK
  <2>7. ASSUME NEW r \in Runs, CheckLive(r) \/ Launch(r) \/ GiveUp(r)
        PROVE  /\ UNCHANGED <<uses, lease>>
               /\ \E label \in {"launch", "launched", "ended"} :
                     /\ pc' = [pc EXCEPT ![r] = label]
                     /\ label = "launch" => held[r].lease # l
    BY <2>1, <2>7 DEF CheckLive, Launch, GiveUp, Goto
  <2>8. CASE Tick
    BY <2>3, <2>8 DEF Tick, UsesOf
  <2>9. ASSUME NEW n \in Leases, NEW i \in Principals, NEW p \in Principals,
               NEW c \in Contexts, NEW t \in Terms, NEW parent \in Issued \cup {Root},
               Issue(n, i, p, c, t, parent)
        PROVE  /\ UsesOf(l)' = UsesOf(l) /\ pc' = pc
               /\ \A k \in Leases \ Issued : lease'[k] # NoLease => lease'[k].parent # l
    BY <2>4, <2>9 DEF UsesOf
  <2>10. ASSUME NEW r \in Runs, NEW c \in Contexts, NEW q \in Requests, Authorize(r, c, q)
         PROVE  /\ \A k \in Leases \ Issued : lease'[k] = NoLease
                /\ \A s \in Runs : held[s].lease = l => pc'[s] = pc[s]
    BY <2>2, <2>3, <2>6, <2>10 DEF TypeOK
  <2>11. ASSUME NEW r \in Runs, CheckLive(r) \/ Launch(r) \/ GiveUp(r)
         PROVE  /\ UsesOf(l)' = UsesOf(l) /\ lease' = lease
                /\ \A s \in Runs : held[s].lease = l /\ pc'[s] \in {"authorized", "launch"}
                                     => pc'[s] = pc[s]
    BY <2>2, <2>7, <2>11 DEF UsesOf, TypeOK
  <2> QED BY <2>3, <2>5, <2>6, <2>8, <2>9, <2>10, <2>11 DEF Next, UsesOf
<1> QED BY <1>1, InvInductive, PTL DEF Spec, DeadChainsAuthorizeNothing
=============================================================================
