-------------------------- MODULE EvaluationProofs --------------------------
(***************************************************************************)
(* Proofs about EvaluationPipeline, AuditLog and IntentStore, for any      *)
(* number of evaluations and overrides: failures block, drift stays within *)
(* the intent, the lineage agrees with its counters, what is let through   *)
(* is in the log, and no step after the judgement loosens it.              *)
(***************************************************************************)
EXTENDS EvaluationPipeline, FiniteSetTheorems, WellFoundedInduction, TLAPS

-----------------------------------------------------------------------------
\* Functions that are defined by recursion.  The prover knows of them what their
\* defining equation says once some function satisfies it.

\* A set of naturals has a least element.
LEMMA LeastNat ==
    ASSUME NEW T, T \subseteq Nat, T # {}
    PROVE  \E m \in T : \A k \in T : m <= k
<1> DEFINE R == {ss \in Nat \X Nat : ss[1] < ss[2]}
<1>1. IsWellFoundedOn(R, Nat)
    BY NatLessThanWellFounded DEF OpToRel
<1>2. \A x, y \in Nat : x < y => <<x, y>> \in R
    OBVIOUS
<1> HIDE DEF R
<1>3. PICK m \in T : \A k \in T : ~(<<k, m>> \in R)
    BY <1>1, WFMin
<1>4. \A k \in T : ~(k < m)
    BY <1>2, <1>3, Zenon
<1> QED
    BY <1>4

\* _lineage (IntentStore): if there is a function that goes back as Back does, Back
\* is that function.
LEMMA BackIs ==
    ASSUME NEW w,
           w = [n \in Nat |-> IF n = 0 THEN envelope.last
                              ELSE IF w[n - 1] = Null THEN Null ELSE action[w[n - 1]].parent]
    PROVE  \A n \in Nat : Back[n] = w[n]
<1> DEFINE F(g) == [n \in Nat |-> IF n = 0 THEN envelope.last
                                  ELSE IF g[n - 1] = Null THEN Null ELSE action[g[n - 1]].parent]
<1>1. Back = CHOOSE g : g = F(g)
    BY DEF Back
<1>2. w = F(w)
    OBVIOUS
<1> HIDE DEF F
<1>3. Back = F(Back)
    BY <1>1, <1>2, Zenon
<1> DEFINE T == {n \in Nat : Back[n] # w[n]}
<1>4. ASSUME T # {} PROVE FALSE
    <2>1. PICK m \in T : \A k \in T : m <= k
        BY <1>4, LeastNat
    <2>2. m = 0 \/ (m - 1 \in Nat /\ Back[m - 1] = w[m - 1])
        BY <2>1
    <2>3. Back[m] = w[m]
        BY <1>2, <1>3, <2>1, <2>2 DEF F
    <2> QED
        BY <2>1, <2>3
<1> QED
    BY <1>4

\* A sum is the number of elements of a set: one for each unit of creep.
LEMMA BlockSize ==
    ASSUME NEW x, NEW n \in Nat
    PROVE  IsFiniteSet({x} \X (1 .. n)) /\ Cardinality({x} \X (1 .. n)) = n
<1>1. IsFiniteSet(1 .. n) /\ Cardinality(1 .. n) = n
    BY FS_Interval
<1>2. IsFiniteSet({x}) /\ Cardinality({x}) = 1
    BY FS_Singleton
<1>3. IsFiniteSet({x} \X (1 .. n)) /\ Cardinality({x} \X (1 .. n)) = 1 * n
    BY <1>1, <1>2, FS_Product
<1> QED
    BY <1>3

Units(of, E) == {u \in E \X Nat : u[2] \in 1 .. of[u[1]].creep}

\* The units of a set and of the same set with one element more.
LEMMA AddUnits ==
    ASSUME NEW of, NEW E, NEW x, x \notin E, of[x].creep \in Nat,
           IsFiniteSet(Units(of, E))
    PROVE  /\ IsFiniteSet(Units(of, E \cup {x}))
           /\ Cardinality(Units(of, E \cup {x})) = of[x].creep + Cardinality(Units(of, E))
<1> DEFINE n == of[x].creep
           new == {x} \X (1 .. n)
<1>1. Units(of, E \cup {x}) = Units(of, E) \cup new /\ Units(of, E) \cap new = {}
    BY DEF Units
<1>2. n \in Nat
    OBVIOUS
<1>3. n = of[x].creep
    OBVIOUS
<1> HIDE DEF n
<1>4. IsFiniteSet(new) /\ Cardinality(new) = n
    BY <1>2, BlockSize
<1> HIDE DEF new
<1>5. /\ IsFiniteSet(Units(of, E) \cup new)
      /\ Cardinality(Units(of, E) \cup new) =
            Cardinality(Units(of, E)) + Cardinality(new) - Cardinality(Units(of, E) \cap new)
    BY <1>4, FS_Union
<1>6. Cardinality(Units(of, E) \cap new) = 0 /\ Cardinality(Units(of, E)) \in Nat
    BY <1>1, FS_EmptySet, FS_CardinalityType
<1>7. Cardinality(Units(of, E) \cup new) = n + Cardinality(Units(of, E))
    BY <1>2, <1>4, <1>5, <1>6
<1> QED
    BY <1>1, <1>3, <1>5, <1>7

\* The units of finitely many evaluations are finitely many.
LEMMA UnitsFinite ==
    ASSUME NEW of, NEW E, IsFiniteSet(E), \A e \in E : of[e].creep \in Nat
    PROVE  IsFiniteSet(Units(of, E))
<1> DEFINE block(e) == {e} \X (1 .. of[e].creep)
           blocks == {block(e) : e \in E}
<1>1. \A e \in E : IsFiniteSet(block(e))
    BY BlockSize
<1>2. Units(of, E) = UNION blocks
    BY DEF Units
<1>3. IsFiniteSet(blocks)
    <2> DEFINE g == [e \in E |-> block(e)]
    <2> HIDE DEF block
    <2>1. g \in Surjection(E, blocks)
        BY DEF Surjection
    <2> HIDE DEF g, blocks
    <2> QED
        BY <2>1, FS_Surjection
<1>4. \A b \in blocks : IsFiniteSet(b)
    BY <1>1
<1> HIDE DEF blocks
<1> QED
    BY <1>2, <1>3, <1>4, FS_UNION

\* TotalCreep, which folds over the set, is the number of its units.
LEMMA SumIs ==
    ASSUME NEW of, NEW E, IsFiniteSet(E), \A e \in E : of[e].creep \in Nat
    PROVE  TotalCreep(of, E) = Cardinality(Units(of, E))
<1> DEFINE F(g) == [s \in SUBSET E |-> IF s = {} THEN 0
                        ELSE LET x == CHOOSE x \in s : TRUE IN of[x].creep + g[s \ {x}]]
           w == [s \in SUBSET E |-> Cardinality(Units(of, s))]
           f == CHOOSE g : g = F(g)
<1>1. TotalCreep(of, E) = f[E]
    BY DEF TotalCreep, MapThenSumSet, MapThenFoldSet
<1>2. \A s \in SUBSET E : IsFiniteSet(s) /\ IsFiniteSet(Units(of, s))
    BY FS_Subset, UnitsFinite
<1>3. ASSUME NEW s \in SUBSET E
      PROVE  w[s] = F(w)[s]
    <2>1. CASE s = {}
        <3>1. Units(of, s) = {}
            BY <2>1 DEF Units
        <3> QED
            BY <2>1, <3>1, FS_EmptySet
    <2>2. CASE s # {}
        <3> DEFINE x == CHOOSE x \in s : TRUE
                   t == s \ {x}
        <3>1. x \in s
            BY <2>2
        <3>2. F(w)[s] = of[x].creep + Cardinality(Units(of, t))
            BY <2>2
        <3> HIDE DEF x
        <3>3. t \in SUBSET E /\ x \notin t /\ s = t \cup {x} /\ of[x].creep \in Nat
            BY <3>1
        <3> HIDE DEF t
        <3>4. Cardinality(Units(of, s)) = of[x].creep + Cardinality(Units(of, t))
            BY <1>2, <3>3, AddUnits
        <3> QED
            BY <3>2, <3>4
    <2> QED
        BY <2>1, <2>2
<1>4. w = F(w)
    BY <1>3
<1> HIDE DEF F, w
<1>5. f = F(f)
    BY <1>4, Zenon
<1> HIDE DEF f
<1> DEFINE T == {n \in Nat : \E s \in SUBSET E : Cardinality(s) = n /\ f[s] # w[s]}
<1>6. ASSUME T # {} PROVE FALSE
    <2>1. PICK m \in T : \A k \in T : m <= k
        BY <1>6, LeastNat
    <2>2. PICK s \in SUBSET E : Cardinality(s) = m /\ f[s] # w[s]
        BY <2>1
    <2>3. CASE s = {}
        BY <1>4, <1>5, <2>2, <2>3 DEF F
    <2>4. CASE s # {}
        <3> DEFINE x == CHOOSE x \in s : TRUE
                   t == s \ {x}
        <3>1. x \in s
            BY <2>4
        <3>2. f[s] = of[x].creep + f[t] /\ w[s] = of[x].creep + w[t]
            BY <1>4, <1>5, <2>4 DEF F
        <3> HIDE DEF x
        <3>3. t \in SUBSET E /\ IsFiniteSet(s) /\ m \in Nat
            BY <1>2, <2>1
        <3>4. Cardinality(t) = m - 1 /\ IsFiniteSet(t)
            BY <2>2, <3>1, <3>3, FS_RemoveElement
        <3>5. Cardinality(t) \in Nat
            BY <3>4, FS_CardinalityType
        <3> HIDE DEF t
        <3>6. m - 1 \notin T /\ m - 1 \in Nat
            BY <2>1, <3>3, <3>4, <3>5
        <3>7. f[t] = w[t]
            BY <3>3, <3>4, <3>6
        <3> QED
            BY <2>2, <3>2, <3>7
    <2> QED
        BY <2>3, <2>4
<1>7. Cardinality(E) \in Nat
    BY FS_CardinalityType
<1>8. f[E] = w[E]
    BY <1>6, <1>7
<1> QED
    BY <1>1, <1>8 DEF w

-----------------------------------------------------------------------------
\* The inductive invariant of the pipeline, without the log.

Evaluated == {e \in Evals : action[e].recorded}
Permitted == {e \in Evaluated : action[e].allowed}

EnvelopeOK ==
    /\ DOMAIN envelope = {"last", "count", "drift", "stopped"}
    /\ envelope.last \in Evals \cup {Null} /\ envelope.count \in Nat
    /\ envelope.drift \in Nat /\ envelope.stopped \in BOOLEAN

PipeTypeOK ==
    /\ DOMAIN stage = Evals /\ late \in [Evals -> BOOLEAN]
    /\ DOMAIN degraded = Evals /\ DOMAIN denied = Evals /\ DOMAIN fault = Evals
    /\ \A e \in Evals : request[e].creep \in Nat
    /\ EnvelopeOK
    /\ action \in [Evals -> [parent : Evals \cup {Null}, creep : Nat,
                             allowed : BOOLEAN, recorded : BOOLEAN]]

\* What failed is remembered until the gate, and what the gate blocks stays there.
FaultsRemembered ==
    \A e \in Evals :
        /\ (mode[e] # "advisory" /\ fault[e] # {}) => degraded[e]
        /\ stage[e] \in {"override", "cleared", "live", "launched"} => ~Blocked(e)

\* Once stopped is always stopped, and the last look comes after the first.
StopRemembered ==
    \A e \in Evals :
        /\ late[e] => envelope.stopped
        /\ stage[e] \in {"live", "launched"} => ~late[e]

\* The records, oldest first.
ChainOfRecords ==
    \E chain \in [1 .. envelope.count -> Evals] :
        /\ {chain[i] : i \in 1 .. envelope.count} = Evaluated
        /\ envelope.last = IF envelope.count = 0 THEN Null ELSE chain[envelope.count]
        /\ \A i \in 1 .. envelope.count :
               action[chain[i]].parent = IF i = 1 THEN Null ELSE chain[i - 1]

CountersAgree ==
    /\ IsFiniteSet(Evaluated)
    /\ envelope.count = Cardinality(Evaluated)
    /\ envelope.drift = Cardinality(Units(action, Evaluated))
    /\ Cardinality(Units(action, Permitted)) <= MaxDrift

\* A run has no record before apply_controls, and a run that is not denied has one.
RecordOfRun ==
    \A e \in Evals :
        /\ stage[e] \in {"start", "judged"} => ~action[e].recorded
        /\ (stage[e] \notin {"start", "judged", "ended"} /\ denied[e] = {}) =>
               e \in Permitted /\ action[e].creep = request[e].creep

PipeInv ==
    /\ PipeTypeOK /\ FaultsRemembered /\ StopRemembered
    /\ ChainOfRecords /\ CountersAgree /\ RecordOfRun

LEMMA PipelineInitInv ==
    ASSUME PipelineInit
    PROVE  PipeInv
<1> USE DEF PipelineInit, IntentInit
<1>1. PipeTypeOK
    <2>1. \A e \in Evals : request[e].creep \in Nat
        BY PipelineAssumption, IntentAssumption DEF IsRequest
    <2>2. EnvelopeOK
        BY DEF EnvelopeOK
    <2>3. NoAction \in [parent : Evals \cup {Null}, creep : Nat, allowed : BOOLEAN, recorded : BOOLEAN]
        BY DEF NoAction
    <2>4. action \in [Evals -> [parent : Evals \cup {Null}, creep : Nat,
                                allowed : BOOLEAN, recorded : BOOLEAN]]
        BY <2>3
    <2>5. /\ DOMAIN stage = Evals /\ late \in [Evals -> BOOLEAN]
          /\ DOMAIN degraded = Evals /\ DOMAIN denied = Evals /\ DOMAIN fault = Evals
        OBVIOUS
    <2> QED
        BY <2>1, <2>2, <2>4, <2>5 DEF PipeTypeOK
<1>2. Evaluated = {} /\ Permitted = {} /\ Units(action, {}) = {}
    BY DEF Evaluated, Permitted, NoAction, Units
<1>3. ChainOfRecords
    <2> DEFINE chain == [i \in 1 .. 0 |-> i]
    <2>1. chain \in [1 .. 0 -> Evals] /\ {chain[i] : i \in 1 .. 0} = {}
        OBVIOUS
    <2> HIDE DEF chain
    <2> QED
        BY <1>2, <2>1 DEF ChainOfRecords
<1>4. CountersAgree
    <2>1. IsFiniteSet({}) /\ Cardinality({}) = 0 /\ 0 <= MaxDrift
        BY FS_EmptySet, IntentAssumption
    <2>2. envelope.count = 0 /\ envelope.drift = 0
        OBVIOUS
    <2> QED
        BY <1>2, <2>1, <2>2 DEF CountersAgree
<1>5. FaultsRemembered /\ StopRemembered /\ RecordOfRun
    BY <1>2 DEF FaultsRemembered, StopRemembered, RecordOfRun, NoAction
<1> QED
    BY <1>1, <1>3, <1>4, <1>5 DEF PipeInv

LEMMA RecordsStay ==
    ASSUME ChainOfRecords, CountersAgree, UNCHANGED intentVars
    PROVE  ChainOfRecords' /\ CountersAgree'
BY DEF ChainOfRecords, CountersAgree, Evaluated, Permitted, Units, intentVars

\* The transaction of evaluate appends to the chain and to the counters.
LEMMA RecordStep ==
    ASSUME PipeTypeOK, ChainOfRecords, CountersAgree,
           NEW e \in Evals, ~action[e].recorded, RecordAction(e, request[e].creep, request[e].outside)
    PROVE  /\ ChainOfRecords' /\ CountersAgree'
           /\ EnvelopeOK' /\ envelope'.stopped = envelope.stopped
           /\ action' \in [Evals -> [parent : Evals \cup {Null}, creep : Nat,
                                     allowed : BOOLEAN, recorded : BOOLEAN]]
           /\ \A d \in Evals \ {e} : action'[d] = action[d]
           /\ action'[e].recorded /\ action'[e].creep = request[e].creep
           /\ action'[e].allowed <=> Evidence(request[e].creep, request[e].outside) = {}
<1> DEFINE c == request[e].creep
           ok == Evidence(request[e].creep, request[e].outside) = {}
           row == [parent |-> envelope.last, creep |-> c, recorded |-> TRUE, allowed |-> ok]
<1>1. action' = [action EXCEPT ![e] = row] /\ c \in Nat /\ ok \in BOOLEAN
    BY DEF RecordAction, PipeTypeOK
<1>2. /\ envelope'.last = e /\ envelope'.count = envelope.count + 1
      /\ envelope'.drift = envelope.drift + c /\ envelope'.stopped = envelope.stopped
      /\ EnvelopeOK'
    <2> DEFINE next == [envelope EXCEPT !.last = e, !.count = @ + 1, !.drift = @ + c]
    <2>1. envelope' = next
        BY DEF RecordAction
    <2> HIDE DEF c
    <2>2. c \in Nat /\ EnvelopeOK
        BY <1>1 DEF PipeTypeOK
    <2>3. /\ next.last = e /\ next.count = envelope.count + 1
          /\ next.drift = envelope.drift + c /\ next.stopped = envelope.stopped
          /\ DOMAIN next = {"last", "count", "drift", "stopped"}
        BY <2>2 DEF EnvelopeOK
    <2> HIDE DEF next
    <2> QED
        BY <2>1, <2>2, <2>3 DEF EnvelopeOK
<1>3. ok => envelope.drift + c <= MaxDrift
    <2>1. envelope.drift \in Nat /\ MaxDrift \in Nat
        BY IntentAssumption DEF PipeTypeOK, EnvelopeOK
    <2>2. ok => ~(envelope.drift + c > MaxDrift)
        BY DEF Evidence
    <2> QED
        BY <1>1, <2>1, <2>2
<1>4. row \in [parent : Evals \cup {Null}, creep : Nat, allowed : BOOLEAN, recorded : BOOLEAN]
    BY <1>1 DEF PipeTypeOK, EnvelopeOK
<1>5. row.recorded /\ row.creep = c /\ (row.allowed <=> ok) /\ row.parent = envelope.last
    OBVIOUS
<1> HIDE DEF row, ok, c
<1>6. /\ action' \in [Evals -> [parent : Evals \cup {Null}, creep : Nat,
                                allowed : BOOLEAN, recorded : BOOLEAN]]
      /\ action'[e] = row /\ \A d \in Evals \ {e} : action'[d] = action[d]
    BY <1>1, <1>4 DEF PipeTypeOK
<1>7. /\ Evaluated' = Evaluated \cup {e} /\ e \notin Evaluated
      /\ Permitted' = IF ok THEN Permitted \cup {e} ELSE Permitted
      /\ Permitted \subseteq Evaluated /\ Evaluated \subseteq Evals
    BY <1>5, <1>6 DEF Evaluated, Permitted
<1>8. CountersAgree'
    <2>1. /\ Units(action', Evaluated) = Units(action, Evaluated)
          /\ Units(action', Permitted) = Units(action, Permitted)
        BY <1>6, <1>7 DEF Units
    <2>2. IsFiniteSet(Evaluated) /\ IsFiniteSet(Units(action, Evaluated))
        <3>1. \A d \in Evaluated : action[d].creep \in Nat
            BY <1>7 DEF PipeTypeOK
        <3>2. IsFiniteSet(Evaluated)
            BY DEF CountersAgree
        <3> QED
            BY <3>1, <3>2, UnitsFinite
    <2>3. /\ IsFiniteSet(Units(action, Permitted))
          /\ Cardinality(Units(action, Permitted)) <= envelope.drift
        <3>1. Units(action, Permitted) \subseteq Units(action, Evaluated)
            BY <1>7 DEF Units
        <3> QED
            BY <2>2, <3>1, FS_Subset DEF CountersAgree
    <2>4. IsFiniteSet(Evaluated') /\ envelope'.count = Cardinality(Evaluated')
        <3>1. /\ IsFiniteSet(Evaluated \cup {e})
              /\ Cardinality(Evaluated \cup {e}) = Cardinality(Evaluated) + 1
            BY <1>7, <2>2, FS_AddElement
        <3> QED
            BY <1>2, <1>7, <3>1 DEF CountersAgree
    <2>5. e \notin Permitted /\ action'[e].creep = c /\ c \in Nat
        BY <1>1, <1>5, <1>6, <1>7
    <2>6. Cardinality(Units(action', Evaluated \cup {e})) = c + envelope.drift
        <3>1. envelope.drift = Cardinality(Units(action', Evaluated))
            BY <2>1 DEF CountersAgree
        <3>2. action'[e].creep \in Nat /\ IsFiniteSet(Units(action', Evaluated))
            BY <2>1, <2>2, <2>5
        <3>3. Cardinality(Units(action', Evaluated \cup {e}))
                = action'[e].creep + Cardinality(Units(action', Evaluated))
            BY <1>7, <3>2, AddUnits
        <3> QED
            BY <2>5, <3>1, <3>3
    <2>7. Cardinality(Units(action', Permitted \cup {e})) = c + Cardinality(Units(action, Permitted))
        BY <2>1, <2>3, <2>5, AddUnits
    <2>8. Cardinality(Units(action, Permitted)) \in Nat /\ envelope.drift \in Nat /\ MaxDrift \in Nat
        BY <2>3, FS_CardinalityType, IntentAssumption DEF PipeTypeOK, EnvelopeOK
    <2>9. envelope'.drift = Cardinality(Units(action', Evaluated'))
        BY <1>2, <1>7, <2>5, <2>6, <2>8
    <2>10. Cardinality(Units(action', Permitted')) <= MaxDrift
        <3>1. CASE ok
            BY <1>3, <1>7, <2>3, <2>5, <2>7, <2>8, <3>1
        <3>2. CASE ~ok
            BY <1>7, <2>1, <3>2 DEF CountersAgree
        <3> QED
            BY <3>1, <3>2
    <2> QED
        BY <2>4, <2>9, <2>10 DEF CountersAgree
<1>9. ChainOfRecords'
    <2> DEFINE n == envelope.count
    <2>1. PICK chain \in [1 .. n -> Evals] :
              /\ {chain[i] : i \in 1 .. n} = Evaluated
              /\ envelope.last = IF n = 0 THEN Null ELSE chain[n]
              /\ \A i \in 1 .. n : action[chain[i]].parent = IF i = 1 THEN Null ELSE chain[i - 1]
        BY DEF ChainOfRecords
    <2>2. n \in Nat /\ envelope'.count = n + 1 /\ envelope'.last = e
        BY <1>2 DEF PipeTypeOK, EnvelopeOK
    <2> HIDE DEF n
    <2> DEFINE next == [i \in 1 .. n + 1 |-> IF i = n + 1 THEN e ELSE chain[i]]
    <2>3. /\ next \in [1 .. n + 1 -> Evals] /\ next[n + 1] = e
          /\ \A i \in 1 .. n : next[i] = chain[i]
        BY <2>2
    <2> HIDE DEF next
    <2>4. {next[i] : i \in 1 .. n + 1} = Evaluated'
        <3>1. ASSUME NEW d \in Evaluated' PROVE \E i \in 1 .. n + 1 : d = next[i]
            <4>1. CASE d = e
                <5>1. n + 1 \in 1 .. n + 1
                    BY <2>2
                <5> QED
                    BY <2>3, <4>1, <5>1
            <4>2. CASE d # e
                <5>1. d \in Evaluated
                    BY <1>7, <4>2
                <5>2. PICK i \in 1 .. n : d = chain[i]
                    BY <2>1, <5>1
                <5>3. i \in 1 .. n + 1
                    BY <2>2
                <5> QED
                    BY <2>3, <5>2, <5>3
            <4> QED
                BY <4>1, <4>2
        <3>2. ASSUME NEW i \in 1 .. n + 1 PROVE next[i] \in Evaluated'
            <4>1. CASE i = n + 1
                BY <1>7, <2>3, <4>1
            <4>2. CASE i # n + 1
                <5>1. i \in 1 .. n
                    BY <2>2, <4>2
                <5> QED
                    BY <1>7, <2>1, <2>3, <5>1
            <4> QED
                BY <4>1, <4>2
        <3> QED
            BY <3>1, <3>2
    <2>5. ASSUME NEW i \in 1 .. n + 1
          PROVE  action'[next[i]].parent = IF i = 1 THEN Null ELSE next[i - 1]
        <3>1. CASE i = n + 1
            <4>1. action'[next[i]].parent = envelope.last
                BY <1>5, <1>6, <2>3, <3>1
            <4> QED
                BY <2>1, <2>2, <2>3, <3>1, <4>1
        <3>2. CASE i # n + 1
            <4>1. i \in 1 .. n /\ (i # 1 => i - 1 \in 1 .. n)
                BY <2>2, <3>2
            <4>2. next[i] = chain[i] /\ chain[i] \in Evaluated
                BY <2>1, <2>3, <4>1
            <4>3. action'[next[i]].parent = action[chain[i]].parent
                BY <1>6, <1>7, <4>2
            <4> QED
                BY <2>1, <2>3, <4>1, <4>3
        <3> QED
            BY <3>1, <3>2
    <2>6. n + 1 # 0
        BY <2>2
    <2> QED
        BY <2>2, <2>3, <2>4, <2>5, <2>6 DEF ChainOfRecords
<1> QED
    BY <1>2, <1>5, <1>6, <1>8, <1>9 DEF c, ok

\* A step that leaves the rows of intent.py, the requests and the modes alone keeps the
\* invariant if it keeps the parts that speak of each run.
LEMMA RunStep ==
    ASSUME PipeInv, UNCHANGED <<intentVars, request, mode>>,
           DOMAIN stage' = Evals, late' \in [Evals -> BOOLEAN],
           DOMAIN degraded' = Evals, DOMAIN denied' = Evals, DOMAIN fault' = Evals,
           FaultsRemembered', StopRemembered',
           \A e \in Evals :
               /\ stage'[e] \in {"start", "judged"} => stage[e] \in {"start", "judged"}
               /\ (stage'[e] \notin {"start", "judged", "ended"} /\ denied'[e] = {}) =>
                      stage[e] \notin {"start", "judged", "ended"} /\ denied[e] = {}
    PROVE  PipeInv'
<1>1. ChainOfRecords' /\ CountersAgree'
    BY RecordsStay DEF PipeInv
<1>2. PipeTypeOK'
    BY DEF PipeInv, PipeTypeOK, EnvelopeOK, intentVars
<1>3. RecordOfRun'
    BY DEF PipeInv, RecordOfRun, Permitted, Evaluated, intentVars
<1> QED
    BY <1>1, <1>2, <1>3 DEF PipeInv

\* A run moves on or ends, and nothing but its stage changes.
LEMMA MoveStep ==
    ASSUME PipeInv, UNCHANGED <<intentVars, degraded, mode, request, denied, fault, late>>,
           DOMAIN stage' = Evals,
           \A e \in Evals :
               \/ stage'[e] = stage[e] \/ stage'[e] = "ended"
               \/ stage[e] = "answered" /\ stage'[e] \in {"cleared", "override"} /\ ~Blocked(e)
               \/ stage[e] = "override" /\ stage'[e] = "cleared"
               \/ stage[e] = "cleared" /\ stage'[e] = "live" /\ ~envelope.stopped
               \/ stage[e] = "live" /\ stage'[e] = "launched"
    PROVE  PipeInv'
<1> USE DEF PipeInv
<1>1. FaultsRemembered'
    BY DEF FaultsRemembered, Blocked
<1>2. StopRemembered'
    BY DEF StopRemembered, intentVars
<1>3. late' \in [Evals -> BOOLEAN] /\ DOMAIN degraded' = Evals /\ DOMAIN denied' = Evals
      /\ DOMAIN fault' = Evals
    BY DEF PipeTypeOK
<1>4. \A e \in Evals :
          /\ stage'[e] \in {"start", "judged"} => stage[e] \in {"start", "judged"}
          /\ (stage'[e] \notin {"start", "judged", "ended"} /\ denied'[e] = {}) =>
                 stage[e] \notin {"start", "judged", "ended"} /\ denied[e] = {}
    OBVIOUS
<1> HIDE DEF PipeInv
<1> QED
    BY <1>1, <1>2, <1>3, <1>4, RunStep

LEMMA JudgeStep ==
    ASSUME PipeInv, NEW e \in Evals, Judge(e)
    PROVE  PipeInv'
<1> USE DEF PipeInv, PipeTypeOK
<1>1. /\ stage[e] = "start"
      /\ stage' = [stage EXCEPT ![e] = "judged"] \/ stage' = [stage EXCEPT ![e] = "ended"]
    BY DEF Judge, UnlessOver, To
<1> DEFINE bad == Judged(e).degraded
<1>2. /\ degraded' = [degraded EXCEPT ![e] = bad]
      /\ fault' = [fault EXCEPT ![e] = IF bad THEN {"evaluation"} ELSE {}]
      /\ late' = [late EXCEPT ![e] = envelope.stopped]
      /\ UNCHANGED <<intentVars, mode, request, denied>>
    BY DEF Judge
<1> HIDE DEF bad
<1>3. FaultsRemembered'
    <2>1. \A d \in Evals : (mode[d] # "advisory" /\ fault'[d] # {}) => degraded'[d]
        BY <1>2 DEF FaultsRemembered
    <2>2. \A d \in Evals : stage'[d] \in {"override", "cleared", "live", "launched"} =>
              d # e /\ ~Blocked(d)
        BY <1>1 DEF FaultsRemembered
    <2>3. \A d \in Evals \ {e} : Blocked(d)' <=> Blocked(d)
        BY <1>2 DEF Blocked
    <2> QED
        BY <1>2, <2>1, <2>2, <2>3 DEF FaultsRemembered
<1>4. StopRemembered'
    BY <1>1, <1>2 DEF StopRemembered, intentVars
<1>5. /\ DOMAIN stage' = Evals /\ late' \in [Evals -> BOOLEAN]
      /\ DOMAIN degraded' = Evals /\ DOMAIN denied' = Evals /\ DOMAIN fault' = Evals
    BY <1>1, <1>2 DEF EnvelopeOK
<1>6. \A d \in Evals :
          /\ stage'[d] \in {"start", "judged"} => stage[d] \in {"start", "judged"}
          /\ (stage'[d] \notin {"start", "judged", "ended"} /\ denied'[d] = {}) =>
                 stage[d] \notin {"start", "judged", "ended"} /\ denied[d] = {}
    BY <1>1, <1>2
<1> HIDE DEF PipeInv, PipeTypeOK
<1> QED
    BY <1>2, <1>3, <1>4, <1>5, <1>6, RunStep

LEMMA ControlIntentStep ==
    ASSUME PipeInv, NEW e \in Evals, ControlIntent(e)
    PROVE  PipeInv'
<1> DEFINE clean == Evidence(request[e].creep, request[e].outside) = {}
<1>1. /\ stage[e] = "judged" /\ stage' = [stage EXCEPT ![e] = "intent"]
      /\ UNCHANGED <<degraded, mode, request, fault, late>>
    BY DEF ControlIntent, To
<1>2. CASE /\ RecordAction(e, request[e].creep, request[e].outside)
           /\ denied' = [denied EXCEPT ![e] = IF clean THEN {} ELSE {"INTENT_DENIED"}]
    <2>1. ~action[e].recorded
        BY <1>1 DEF PipeInv, RecordOfRun
    <2>2. /\ ChainOfRecords' /\ CountersAgree'
          /\ EnvelopeOK' /\ envelope'.stopped = envelope.stopped
          /\ action' \in [Evals -> [parent : Evals \cup {Null}, creep : Nat,
                                    allowed : BOOLEAN, recorded : BOOLEAN]]
          /\ \A d \in Evals \ {e} : action'[d] = action[d]
          /\ action'[e].recorded /\ action'[e].creep = request[e].creep
          /\ action'[e].allowed <=> clean
        BY <1>2, <2>1, RecordStep DEF PipeInv
    <2> HIDE DEF clean
    <2>3. PipeTypeOK'
        BY <1>1, <1>2, <2>2 DEF PipeInv, PipeTypeOK
    <2>4. FaultsRemembered' /\ StopRemembered'
        BY <1>1, <1>2, <2>2 DEF PipeInv, PipeTypeOK, FaultsRemembered, StopRemembered, Blocked
    <2>5. RecordOfRun'
        <3>1. denied'[e] = {} => clean
            BY <1>2 DEF PipeInv, PipeTypeOK
        <3> QED
            BY <1>1, <1>2, <2>2, <3>1
               DEF PipeInv, PipeTypeOK, RecordOfRun, Permitted, Evaluated
    <2> QED
        BY <2>2, <2>3, <2>4, <2>5 DEF PipeInv
<1>3. CASE denied' = [denied EXCEPT ![e] = {"INTENT_DENIED"}] /\ UNCHANGED intentVars
    <2> USE DEF PipeInv, PipeTypeOK
    <2>1. FaultsRemembered' /\ StopRemembered'
        BY <1>1, <1>3 DEF FaultsRemembered, StopRemembered, Blocked, intentVars
    <2>2. /\ DOMAIN stage' = Evals /\ late' \in [Evals -> BOOLEAN]
          /\ DOMAIN degraded' = Evals /\ DOMAIN denied' = Evals /\ DOMAIN fault' = Evals
        BY <1>1, <1>3
    <2>3. \A d \in Evals :
              /\ stage'[d] \in {"start", "judged"} => stage[d] \in {"start", "judged"}
              /\ (stage'[d] \notin {"start", "judged", "ended"} /\ denied'[d] = {}) =>
                     stage[d] \notin {"start", "judged", "ended"} /\ denied[d] = {}
        BY <1>1, <1>3
    <2> HIDE DEF PipeInv, PipeTypeOK
    <2> QED
        BY <1>1, <1>3, <2>1, <2>2, <2>3, RunStep
<1> QED
    BY <1>2, <1>3 DEF ControlIntent

\* ControlLease and Answer add to what is denied and to what has failed.
LEMMA AddStep ==
    ASSUME PipeInv, NEW e \in Evals, ControlLease(e) \/ Answer(e)
    PROVE  PipeInv'
<1> USE DEF PipeInv, PipeTypeOK
<1>1. /\ UNCHANGED <<intentVars, mode, request, late>>
      /\ stage[e] \in {"intent", "controlled"}
      /\ \E s \in {"controlled", "answered", "ended"} : stage' = [stage EXCEPT ![e] = s]
    BY DEF ControlLease, Answer, To, UnlessOver
<1>2. /\ DOMAIN degraded' = Evals /\ DOMAIN denied' = Evals /\ DOMAIN fault' = Evals
      /\ \A d \in Evals \ {e} : degraded'[d] = degraded[d] /\ denied'[d] = denied[d]
                                /\ fault'[d] = fault[d]
      /\ denied'[e] = {} => denied[e] = {}
    BY DEF ControlLease, Answer
<1>3. (mode[e] # "advisory" /\ fault'[e] # {}) => degraded'[e]
    <2>1. CASE ControlLease(e)
        BY <2>1 DEF ControlLease, FaultsRemembered
    <2>2. CASE Answer(e)
        BY <2>2 DEF Answer, FaultsRemembered, Unrecorded
    <2> QED
        BY <2>1, <2>2
<1>4. FaultsRemembered'
    BY <1>1, <1>2, <1>3 DEF FaultsRemembered, Blocked
<1>5. StopRemembered'
    BY <1>1 DEF StopRemembered, intentVars
<1>6. \A d \in Evals :
          /\ stage'[d] \in {"start", "judged"} => stage[d] \in {"start", "judged"}
          /\ (stage'[d] \notin {"start", "judged", "ended"} /\ denied'[d] = {}) =>
                 stage[d] \notin {"start", "judged", "ended"} /\ denied[d] = {}
    BY <1>1, <1>2
<1>7. DOMAIN stage' = Evals /\ late' \in [Evals -> BOOLEAN]
    BY <1>1
<1> HIDE DEF PipeInv, PipeTypeOK
<1> QED
    BY <1>1, <1>2, <1>4, <1>5, <1>6, <1>7, RunStep

LEMMA PipeStep ==
    ASSUME PipeInv, [PipelineNext]_allVars
    PROVE  PipeInv'
<1>0. DOMAIN stage = Evals
    BY DEF PipeInv, PipeTypeOK
<1>1. ASSUME NEW e \in Evals, Gate(e) PROVE PipeInv'
    <2>1. /\ UNCHANGED <<intentVars, degraded, mode, request, denied, fault, late>>
          /\ stage[e] = "answered"
          /\ \/ stage' = [stage EXCEPT ![e] = "cleared"] /\ ~Blocked(e)
             \/ stage' = [stage EXCEPT ![e] = "override"] /\ ~Blocked(e)
             \/ stage' = [stage EXCEPT ![e] = "ended"]
        BY <1>1 DEF Gate, To
    <2> QED
        BY <1>0, <2>1, MoveStep
<1>2. ASSUME NEW e \in Evals, Overridden(e) PROVE PipeInv'
    BY <1>0, <1>2, MoveStep DEF Overridden, To
<1>3. ASSUME NEW e \in Evals, CheckLiveness(e) PROVE PipeInv'
    <2>1. /\ UNCHANGED <<intentVars, degraded, mode, request, denied, fault, late>>
          /\ stage[e] = "cleared"
          /\ \/ stage' = [stage EXCEPT ![e] = "live"] /\ ~envelope.stopped
             \/ stage' = [stage EXCEPT ![e] = "ended"]
        BY <1>3 DEF CheckLiveness, To
    <2> QED
        BY <1>0, <2>1, MoveStep
<1>4. ASSUME NEW e \in Evals, LaunchRun(e) PROVE PipeInv'
    BY <1>0, <1>4, MoveStep DEF LaunchRun, UnlessOver, To
<1>5. ASSUME NEW e \in Evals, KillElsewhere(e) PROVE PipeInv'
    BY <1>0, <1>5, MoveStep DEF KillElsewhere
<1>6. ASSUME NEW w \in Writers, AuditStep(w) PROVE PipeInv'
    BY <1>0, <1>6, MoveStep DEF AuditStep, pipeVars
<1>7. ASSUME NEW w \in Writers, KillWriter(w) PROVE PipeInv'
    <2>1. /\ UNCHANGED <<intentVars, degraded, mode, request, denied, fault, late>>
          /\ stage' = [stage EXCEPT ![Owner(w)] = "ended"]
        BY <1>7 DEF KillWriter
    <2> QED
        BY <1>0, <2>1, MoveStep
<1>8. CASE LosePower
    <2>1. /\ UNCHANGED <<intentVars, degraded, mode, request, denied, fault, late>>
          /\ DOMAIN stage' = Evals
          /\ \A e \in Evals : stage'[e] = stage[e] \/ stage'[e] = "ended"
        BY <1>8 DEF LosePower
    <2> QED
        BY <2>1, MoveStep
<1>9. CASE HostStopsIntent
    <2>1. envelope' = [envelope EXCEPT !.stopped = TRUE] /\ UNCHANGED <<action, pipeVars>>
        BY <1>9 DEF HostStopsIntent, StopIntent
    <2>2. /\ EnvelopeOK' /\ envelope'.stopped /\ envelope'.last = envelope.last
          /\ envelope'.count = envelope.count /\ envelope'.drift = envelope.drift
        BY <2>1 DEF PipeInv, PipeTypeOK, EnvelopeOK
    <2>3. ChainOfRecords' /\ CountersAgree'
        <3>1. action' = action /\ Evaluated' = Evaluated /\ Permitted' = Permitted
            BY <2>1 DEF Evaluated, Permitted
        <3>2. CountersAgree'
            BY <2>2, <3>1 DEF PipeInv, CountersAgree, Units
        <3>3. ChainOfRecords'
            <4>1. PICK chain \in [1 .. envelope.count -> Evals] :
                      /\ {chain[i] : i \in 1 .. envelope.count} = Evaluated
                      /\ envelope.last = IF envelope.count = 0 THEN Null ELSE chain[envelope.count]
                      /\ \A i \in 1 .. envelope.count :
                             action[chain[i]].parent = IF i = 1 THEN Null ELSE chain[i - 1]
                BY DEF PipeInv, ChainOfRecords
            <4> HIDE DEF PipeInv
            <4>2. /\ chain \in [1 .. envelope'.count -> Evals]
                  /\ {chain[i] : i \in 1 .. envelope'.count} = Evaluated'
                BY <2>2, <3>1, <4>1
            <4>3. /\ envelope'.last = IF envelope'.count = 0 THEN Null ELSE chain[envelope'.count]
                  /\ \A i \in 1 .. envelope'.count :
                         action'[chain[i]].parent = IF i = 1 THEN Null ELSE chain[i - 1]
                BY <2>2, <3>1, <4>1
            <4> QED
                BY <4>2, <4>3 DEF ChainOfRecords
        <3> QED
            BY <3>2, <3>3
    <2>4. PipeTypeOK' /\ FaultsRemembered' /\ StopRemembered' /\ RecordOfRun'
        BY <2>1, <2>2 DEF PipeInv, PipeTypeOK, FaultsRemembered, StopRemembered, RecordOfRun,
                          Blocked, Permitted, Evaluated, pipeVars
    <2> QED
        BY <2>3, <2>4 DEF PipeInv
<1>10. CASE UNCHANGED allVars
    BY <1>0, <1>10, MoveStep DEF allVars, pipeVars
<1> QED
    BY <1>1, <1>2, <1>3, <1>4, <1>5, <1>6, <1>7, <1>8, <1>9, <1>10,
       JudgeStep, ControlIntentStep, AddStep DEF PipelineNext

LEMMA PipelineInvariant == PipelineSpec => []PipeInv
<1>1. PipelineInit => PipeInv
    BY PipelineInitInv
<1>2. PipeInv /\ [PipelineNext]_allVars => PipeInv'
    BY PipeStep
<1> QED
    BY <1>1, <1>2, PTL DEF PipelineSpec

(* exec_action launches nothing that a control denied, and outside advisory
   mode nothing whose redaction, samples or audit write failed, whatever the
   override says (evaluate_context, apply_controls and the gate of
   exec_action). *)
THEOREM FailuresBlock == PipelineSpec => []FaultsBlock
<1>1. PipeInv => FaultsBlock
    BY DEF PipeInv, FaultsRemembered, FaultsBlock, Launched, Blocked
<1> QED
    BY <1>1, PipelineInvariant, PTL

(* check_liveness stops each run that began after its intent was stopped: the
   transactions of evaluate and stop_intent never lose the stop. *)
THEOREM StopsHold == PipelineSpec => []NoRunAfterStop
<1>1. PipeInv => NoRunAfterStop
    BY DEF PipeInv, StopRemembered, NoRunAfterStop, Launched
<1> QED
    BY <1>1, PipelineInvariant, PTL

\* What _lineage walks along is the chain of the records, newest first.
LEMMA ChainGoesBack ==
    ASSUME PipeTypeOK, ChainOfRecords
    PROVE  LineageIntact
<1> DEFINE n == envelope.count
<1>1. PICK chain \in [1 .. n -> Evals] :
          /\ {chain[i] : i \in 1 .. n} = Evaluated
          /\ envelope.last = IF n = 0 THEN Null ELSE chain[n]
          /\ \A i \in 1 .. n : action[chain[i]].parent = IF i = 1 THEN Null ELSE chain[i - 1]
    BY DEF ChainOfRecords
<1>2. n \in Nat
    BY DEF PipeTypeOK, EnvelopeOK
<1> HIDE DEF n
<1> DEFINE w == [i \in Nat |-> IF i < n THEN chain[n - i] ELSE Null]
<1>3. \A i \in 0 .. n - 1 : n - i \in 1 .. n /\ w[i] = chain[n - i] /\ w[i] \in Evals
    BY <1>2
<1>4. \A i \in Nat : i >= n => w[i] = Null
    BY <1>2
<1>5. ASSUME NEW i \in Nat
      PROVE  w[i] = IF i = 0 THEN envelope.last
                    ELSE IF w[i - 1] = Null THEN Null ELSE action[w[i - 1]].parent
    <2>1. CASE i = 0
        BY <1>1, <1>2, <2>1
    <2>2. CASE i # 0 /\ i - 1 < n
        <3>1. i - 1 \in 0 .. n - 1
            BY <1>2, <2>2
        <3> DEFINE k == n - (i - 1)
        <3>2. k \in 1 .. n /\ w[i - 1] = chain[k] /\ w[i - 1] # Null
            BY <1>3, <3>1, IntentAssumption
        <3>3. action[w[i - 1]].parent = IF k = 1 THEN Null ELSE chain[k - 1]
            BY <1>1, <3>2
        <3>4. w[i] = IF k = 1 THEN Null ELSE chain[k - 1]
            BY <1>2, <2>2
        <3> HIDE DEF w
        <3> QED
            BY <2>2, <3>2, <3>3, <3>4
    <2>3. CASE i # 0 /\ ~(i - 1 < n)
        <3>1. i - 1 \in Nat /\ i - 1 >= n /\ i >= n
            BY <1>2, <2>3
        <3> QED
            BY <1>4, <2>3, <3>1
    <2> QED
        BY <2>1, <2>2, <2>3
<1>6. w = [i \in Nat |-> IF i = 0 THEN envelope.last
                         ELSE IF w[i - 1] = Null THEN Null ELSE action[w[i - 1]].parent]
    <2>1. w = [i \in Nat |-> w[i]]
        OBVIOUS
    <2> HIDE DEF w
    <2> QED
        BY <1>5, <2>1
<1> HIDE DEF w
<1>7. \A i \in Nat : Back[i] = w[i]
    BY <1>6, BackIs
<1>8. \A i \in 0 .. n - 1 : Back[i] # Null
    BY <1>2, <1>3, <1>7, IntentAssumption
<1>9. Back[n] = Null
    BY <1>2, <1>4, <1>7
<1> QED
    BY <1>8, <1>9 DEF LineageIntact, n

(* The counters that evaluate keeps on the envelope agree with the signed rows
   that they count, and the rows are one chain down from last_action_id: no
   interleaving, kill or crash makes _lineage fail for a later evaluation. *)
THEOREM CountersMatchTheChain == PipelineSpec => []LineageAgrees
<1>1. PipeInv => LineageAgrees
    <2> SUFFICES ASSUME PipeInv PROVE LineageAgrees
        OBVIOUS
    <2>1. \A e \in Evaluated : action[e].creep \in Nat
        BY DEF PipeInv, PipeTypeOK, Evaluated
    <2>2. IsFiniteSet(Evaluated) /\ envelope.count = Cardinality(Evaluated)
          /\ envelope.drift = Cardinality(Units(action, Evaluated))
        BY DEF PipeInv, CountersAgree
    <2>3. TotalCreep(action, Evaluated) = Cardinality(Units(action, Evaluated))
        BY <2>1, <2>2, SumIs
    <2>4. LineageIntact
        BY ChainGoesBack DEF PipeInv
    <2> QED
        BY <2>2, <2>3, <2>4 DEF LineageAgrees, Evaluated
<1> QED
    BY <1>1, PipelineInvariant, PTL

(* All that a session has launched stays together within max_drift_score: the
   evaluations that run at the same time cannot each use up the rest of it. *)
THEOREM DriftStaysBounded == PipelineSpec => []DriftBounded
<1>1. PipeInv => DriftBounded
    <2> SUFFICES ASSUME PipeInv PROVE DriftBounded
        OBVIOUS
    <2>1. \A e \in Launched : e \in Permitted /\ action[e].creep = request[e].creep
        BY DEF PipeInv, RecordOfRun, FaultsRemembered, Blocked, Launched
    <2>2. Permitted \subseteq Evaluated /\ Evaluated \subseteq Evals
        BY DEF Permitted, Evaluated
    <2>3. IsFiniteSet(Launched) /\ IsFiniteSet(Permitted)
        BY <2>1, <2>2, FS_Subset DEF PipeInv, CountersAgree
    <2>4. /\ \A e \in Launched : request[e].creep \in Nat
          /\ \A e \in Permitted : action[e].creep \in Nat
        BY <2>2 DEF PipeInv, PipeTypeOK, Launched
    <2>5. TotalCreep(request, Launched) = Cardinality(Units(request, Launched))
        BY <2>3, <2>4, SumIs
    <2>6. Units(request, Launched) \subseteq Units(action, Permitted)
        BY <2>1 DEF Units
    <2>7. IsFiniteSet(Units(action, Permitted))
        BY <2>3, <2>4, UnitsFinite
    <2>8. /\ IsFiniteSet(Units(request, Launched))
          /\ Cardinality(Units(request, Launched)) <= Cardinality(Units(action, Permitted))
        BY <2>6, <2>7, FS_Subset
    <2>9. /\ Cardinality(Units(request, Launched)) \in Nat
          /\ Cardinality(Units(action, Permitted)) \in Nat /\ MaxDrift \in Nat
        BY <2>7, <2>8, FS_CardinalityType, IntentAssumption
    <2>10. Cardinality(Units(action, Permitted)) <= MaxDrift
        BY DEF PipeInv, CountersAgree
    <2> QED
        BY <2>5, <2>8, <2>9, <2>10 DEF DriftBounded
<1> QED
    BY <1>1, PipelineInvariant, PTL

-----------------------------------------------------------------------------
\* The audit log, on its own and as a part of the pipeline.

LogTypeOK ==
    /\ DOMAIN pc = Writers /\ DOMAIN tip = Writers
    /\ DOMAIN buffer = Writers /\ DOMAIN result = Writers

OneWriter == \A w \in Writers : pc[w] \in {"tip", "write", "sync", "unlock"} => lock = w

SyncedVerifies == file \in Seq(Line) /\ synced \in 0 .. Len(file) /\ Verifies(synced)

\* Nothing is left in a buffer after its write.
Flushed == \A w \in Writers : buffer[w] # "none" => pc[w] = "write"

\* Who is about to write extends the chain, and who is about to sync has.
TipIsRead ==
    \A w \in Writers : pc[w] = "write" =>
        /\ Intact
        /\ tip[w].seq = Len(file) + 1
        /\ tip[w].prev = IF file = <<>> THEN Genesis ELSE file[Len(file)].by

EntryIsLast ==
    \A w \in Writers : pc[w] = "sync" => Intact /\ Len(file) > 0 /\ file[Len(file)].by = w

ProceedsAreSynced ==
    \A w \in Evaluations : result[w] = "proceed" => \E i \in 1 .. synced : file[i].by = w

LogInv ==
    /\ LogTypeOK /\ OneWriter
    /\ ~failed => SyncedVerifies /\ Flushed /\ TipIsRead /\ EntryIsLast /\ ProceedsAreSynced

\* What a writer appends to an intact file, whole or torn.
LEMMA AppendsLine ==
    ASSUME LogInv, ~failed, NEW w \in Writers, pc[w] = "write",
           NEW state \in {"whole", "torn"}, file' = Appended(w, state)
    PROVE  /\ file' \in Seq(Line) /\ Len(file') = Len(file) + 1
           /\ \A i \in 1 .. Len(file) : file'[i] = file[i]
           /\ file'[Len(file) + 1].by = w
           /\ state = "whole" => Intact'
<1>1. Intact /\ file \in Seq(Line) /\ Len(file) \in Nat
    BY DEF LogInv, TipIsRead, SyncedVerifies
<1>2. ~LastTorn
    BY <1>1 DEF LastTorn, Intact, Verifies, Continues, Last
<1> DEFINE entry == Entry(w, state)
<1>3. entry.by = w /\ entry.seq = Len(file) + 1 /\ entry.state = state
      /\ entry.prev = IF file = <<>> THEN Genesis ELSE file[Len(file)].by
    BY DEF Entry, LogInv, TipIsRead
<1>4. entry \in Line
    <2>1. tip[w].seq \in Nat
        BY <1>1 DEF LogInv, TipIsRead
    <2>2. tip[w].prev \in Writers \cup {Genesis}
        <3>1. CASE file = <<>>
            BY <3>1 DEF LogInv, TipIsRead
        <3>2. CASE file # <<>>
            <4>1. Len(file) \in 1 .. Len(file)
                BY <1>1, <3>2
            <4>2. file[Len(file)] \in Line
                BY <1>1, <4>1
            <4>3. file[Len(file)].by \in Writers
                BY <4>2 DEF Line
            <4> QED
                BY <3>2, <4>3 DEF LogInv, TipIsRead
        <3> QED
            BY <3>1, <3>2
    <2> QED
        BY <2>1, <2>2 DEF Entry, Line
<1>5. file' = Append(file, entry)
    BY <1>2 DEF Appended
<1> HIDE DEF entry
<1>6. /\ file' \in Seq(Line) /\ Len(file') = Len(file) + 1
      /\ \A i \in 1 .. Len(file) : file'[i] = file[i]
      /\ file'[Len(file) + 1] = entry
    BY <1>1, <1>4, <1>5
<1>7. ASSUME state = "whole" PROVE Intact'
    <2>1. \A i \in 1 .. Len(file) : Continues(i)
        BY <1>1 DEF Intact, Verifies
    <2>2. ASSUME NEW i \in 1 .. Len(file) PROVE Continues(i)'
        <3>1. file'[i] = file[i] /\ (i # 1 => i - 1 \in 1 .. Len(file))
            BY <1>1, <1>6, <2>2
        <3>2. i # 1 => file'[i - 1] = file[i - 1]
            BY <1>6, <3>1
        <3> QED
            BY <2>1, <3>1, <3>2 DEF Continues
    <2>3. ASSUME NEW i, i = Len(file) + 1 PROVE Continues(i)'
        <3>1. Len(file) # 0 => file'[Len(file)] = file[Len(file)] /\ file # <<>>
            BY <1>1, <1>6
        <3>2. Len(file) = 0 => file = <<>>
            BY <1>1
        <3>3. /\ file'[Len(file) + 1].state = "whole" /\ file'[Len(file) + 1].seq = Len(file) + 1
              /\ file'[Len(file) + 1].prev = IF Len(file) = 0 THEN Genesis ELSE file'[Len(file)].by
            BY <1>3, <1>6, <1>7, <3>1, <3>2
        <3>4. i - 1 = Len(file) /\ (i = 1 <=> Len(file) = 0)
            BY <1>1, <2>3
        <3> QED
            BY <2>3, <3>3, <3>4 DEF Continues
    <2>4. \A i \in 1 .. Len(file') : i \in 1 .. Len(file) \/ i = Len(file) + 1
        BY <1>1, <1>6
    <2> QED
        BY <2>2, <2>3, <2>4 DEF Intact, Verifies
<1> QED
    BY <1>3, <1>6, <1>7

LEMMA LogInitInv ==
    ASSUME Init
    PROVE  LogInv
<1>1. file \in Seq(Line) /\ Len(file) = 0
    BY DEF Init
<1>2. SyncedVerifies
    BY <1>1 DEF Init, SyncedVerifies, Verifies
<1> QED
    BY <1>2 DEF Init, LogInv, LogTypeOK, OneWriter, Flushed, TipIsRead, EntryIsLast,
                ProceedsAreSynced, Evaluations

\* The steps that change neither the file nor what of it is synced.
LEMMA QuietStep ==
    ASSUME LogInv, NEW w \in Writers,
           Lock(w) \/ ReadTip(w) \/ SyncFails(w) \/ Unlock(w)
    PROVE  LogInv'
<1> USE DEF LogInv, LogTypeOK, Step
<1>1. LogTypeOK' /\ file' = file /\ synced' = synced
    BY DEF Lock, ReadTip, SyncFails, Unlock
<1>2. OneWriter'
    BY AuditAssumption DEF Lock, ReadTip, SyncFails, Unlock, OneWriter
<1>3. ASSUME ~failed'
      PROVE  (SyncedVerifies /\ Flushed /\ TipIsRead /\ EntryIsLast /\ ProceedsAreSynced)'
    <2>1. ~failed /\ ~SyncFails(w)
        BY <1>3 DEF Lock, ReadTip, SyncFails, Unlock
    <2>2. SyncedVerifies'
        BY <1>1, <2>1 DEF SyncedVerifies, Verifies, Continues
    <2>3. result' = result
        BY <2>1 DEF Lock, ReadTip, Unlock
    <2>4. ProceedsAreSynced'
        BY <1>1, <2>1, <2>3 DEF ProceedsAreSynced
    <2>5. Intact' <=> Intact
        BY <1>1 DEF Intact, Verifies, Continues
    <2>6. CASE Lock(w) \/ Unlock(w)
        BY <1>1, <2>1, <2>2, <2>4, <2>5, <2>6 DEF Lock, Unlock, Flushed, TipIsRead, EntryIsLast
    <2>7. CASE ReadTip(w)
        <3>1. CASE Intact
            <4>1. /\ pc' = [pc EXCEPT ![w] = "write"] /\ buffer' = [buffer EXCEPT ![w] = "entry"]
                  /\ tip' = [tip EXCEPT ![w] = [seq |-> Len(file) + 1,
                                prev |-> IF file = <<>> THEN Genesis ELSE Last(file).by]]
                BY <2>7, <3>1 DEF ReadTip
            <4>2. TipIsRead'
                BY <1>1, <2>1, <2>5, <3>1, <4>1 DEF TipIsRead, Last
            <4> QED
                BY <1>1, <2>1, <2>2, <2>4, <2>5, <4>1, <4>2 DEF Flushed, EntryIsLast
        <3>2. CASE ~Intact
            BY <1>1, <2>1, <2>2, <2>4, <2>5, <2>7, <3>2 DEF ReadTip, Flushed, TipIsRead, EntryIsLast
        <3> QED
            BY <3>1, <3>2
    <2> QED
        BY <2>1, <2>6, <2>7
<1> QED
    BY <1>1, <1>2, <1>3

\* The steps that write to the file, and a kill.
LEMMA WritingStep ==
    ASSUME LogInv, NEW w \in Writers, Write(w) \/ WriteFails(w) \/ Close(w) \/ Kill(w)
    PROVE  LogInv'
<1> USE DEF LogInv, LogTypeOK, Step
<1>1. LogTypeOK' /\ synced' = synced /\ tip' = tip
    BY DEF Write, WriteFails, Close, Kill, Learns
<1>2. OneWriter'
    BY AuditAssumption DEF Write, WriteFails, Close, Kill, OneWriter
<1>3. ASSUME ~failed'
      PROVE  (SyncedVerifies /\ Flushed /\ TipIsRead /\ EntryIsLast /\ ProceedsAreSynced)'
    <2>1. ~failed /\ ~WriteFails(w)
        <3>1. /\ WriteFails(w) => failed' = TRUE
              /\ Write(w) \/ Close(w) \/ Kill(w) => failed' = failed
            BY DEF Write, WriteFails, Close, Kill
        <3> QED
            BY <1>3, <3>1
    <2>2. Flushed'
        BY <2>1 DEF Write, Close, Kill, Flushed
    <2>3. \A v \in Evaluations : result'[v] = "proceed" => result[v] = "proceed"
        BY <2>1 DEF Write, Close, Kill, Learns, Evaluations
    <2>4. CASE file' = file
        <3>1. ~Write(w)
            <4>1. ASSUME Write(w) PROVE FALSE
                <5>1. pc[w] = "write" /\ file' = Appended(w, "whole")
                    BY <4>1 DEF Write
                <5>2. Len(file') = Len(file) + 1 /\ Len(file) \in Nat
                    BY <2>1, <5>1, AppendsLine DEF SyncedVerifies
                <5> QED
                    BY <2>4, <5>2
            <4> QED
                BY <4>1
        <3>2. \A v \in Writers : pc'[v] \in {"write", "sync"} => pc'[v] = pc[v]
            BY <2>1, <3>1 DEF Close, Kill
        <3>3. Intact' <=> Intact
            BY <2>4 DEF Intact, Verifies, Continues
        <3>4. SyncedVerifies' /\ ProceedsAreSynced'
            BY <1>1, <2>1, <2>3, <2>4
               DEF SyncedVerifies, ProceedsAreSynced, Verifies, Continues
        <3>5. TipIsRead' /\ EntryIsLast'
            BY <1>1, <2>1, <2>4, <3>2, <3>3 DEF TipIsRead, EntryIsLast
        <3> QED
            BY <2>2, <3>4, <3>5
    <2>5. CASE file' # file
        <3>1. pc[w] = "write"
            BY <2>1, <2>5 DEF Close, Kill, Write, Flushed
        <3>2. \/ Write(w) /\ file' = Appended(w, "whole")
              \/ Kill(w) /\ file' = Appended(w, "torn")
            BY <2>1, <2>5, <3>1 DEF Close, Kill, Write
        <3>3. /\ file' \in Seq(Line) /\ Len(file') = Len(file) + 1
              /\ \A i \in 1 .. Len(file) : file'[i] = file[i]
              /\ file'[Len(file) + 1].by = w
              /\ Write(w) => Intact'
            <4>1. CASE Write(w)
                <5>1. file' = Appended(w, "whole")
                    BY <4>1 DEF Write
                <5> QED
                    BY <2>1, <3>1, <5>1, AppendsLine
            <4>2. CASE ~Write(w)
                BY <2>1, <3>1, <3>2, <4>2, AppendsLine
            <4> QED
                BY <4>1, <4>2
        <3>4. Len(file) \in Nat /\ synced \in 0 .. Len(file) /\ Verifies(synced)
            BY <2>1 DEF SyncedVerifies
        <3>5. \A i \in 1 .. synced : file'[i] = file[i]
            BY <3>3, <3>4
        <3>6. Verifies(synced)'
            BY <1>1, <3>4, <3>5 DEF Verifies, Continues
        <3>7. SyncedVerifies'
            BY <1>1, <3>3, <3>4, <3>6 DEF SyncedVerifies
        <3>8. ProceedsAreSynced'
            BY <1>1, <2>1, <2>3, <3>5 DEF ProceedsAreSynced
        <3>9. \A v \in Writers \ {w} : pc'[v] = pc[v] /\ pc[v] \notin {"write", "sync"}
            BY <2>1, <3>1, <3>2 DEF Write, Kill, OneWriter
        <3>10. pc'[w] \in {"sync", "killed"} /\ (pc'[w] = "sync" => Write(w))
            BY <3>2 DEF Write, Kill
        <3>11. TipIsRead'
            BY <3>9, <3>10 DEF TipIsRead
        <3>12. EntryIsLast'
            BY <3>3, <3>4, <3>9, <3>10 DEF EntryIsLast
        <3> QED
            BY <2>2, <3>7, <3>8, <3>11, <3>12
    <2> QED
        BY <2>4, <2>5
<1> QED
    BY <1>1, <1>2, <1>3

LEMMA SyncStep ==
    ASSUME LogInv, NEW w \in Writers, Sync(w)
    PROVE  LogInv'
<1> USE DEF LogInv, LogTypeOK, Step
<1>1. /\ LogTypeOK' /\ OneWriter'
      /\ UNCHANGED <<file, tip, buffer, failed>> /\ synced' = Len(file)
      /\ pc[w] = "sync" /\ pc' = [pc EXCEPT ![w] = "unlock"]
    BY DEF Sync, Learns, OneWriter
<1>2. ASSUME ~failed
      PROVE  (SyncedVerifies /\ Flushed /\ TipIsRead /\ EntryIsLast /\ ProceedsAreSynced)'
    <2>1. /\ file \in Seq(Line) /\ Len(file) \in Nat /\ Intact
          /\ Len(file) \in 1 .. Len(file) /\ file[Len(file)].by = w
        BY <1>1, <1>2 DEF SyncedVerifies, EntryIsLast
    <2>2. SyncedVerifies'
        BY <1>1, <2>1 DEF SyncedVerifies, Intact, Verifies, Continues
    <2>3. Flushed' /\ TipIsRead' /\ EntryIsLast'
        BY <1>1, <1>2, <2>1
           DEF Flushed, TipIsRead, EntryIsLast, Intact, Verifies, Continues
    <2>4. ASSUME NEW v \in Evaluations, result'[v] = "proceed"
          PROVE  \E i \in 1 .. Len(file) : file[i].by = v
        <3>1. CASE v = w
            BY <2>1, <3>1
        <3>2. CASE v # w
            <4>1. result[v] = "proceed"
                BY <2>4, <3>2 DEF Sync, Learns, Evaluations
            <4>2. PICK i \in 1 .. synced : file[i].by = v
                BY <1>2, <4>1 DEF ProceedsAreSynced
            <4>3. i \in 1 .. Len(file)
                BY <1>2, <2>1, <4>2 DEF SyncedVerifies
            <4> QED
                BY <4>2, <4>3
        <3> QED
            BY <3>1, <3>2
    <2> QED
        BY <1>1, <2>2, <2>3, <2>4 DEF ProceedsAreSynced
<1> QED
    BY <1>1, <1>2

LEMMA PowerLossStep ==
    ASSUME LogInv, PowerLoss
    PROVE  LogInv'
<1> USE DEF LogInv, LogTypeOK
<1>1. /\ pc' = [w \in Writers |-> IF pc[w] \in {"idle", "done"} THEN pc[w] ELSE "killed"]
      /\ buffer' = [w \in Writers |-> "none"]
      /\ UNCHANGED <<synced, tip, result, failed>>
    BY DEF PowerLoss
<1>2. \A w \in Writers : pc'[w] \in {"idle", "done", "killed"}
    BY <1>1
<1>3. LogTypeOK' /\ OneWriter' /\ Flushed' /\ TipIsRead' /\ EntryIsLast'
    BY <1>1, <1>2 DEF OneWriter, Flushed, TipIsRead, EntryIsLast
<1>4. ASSUME ~failed
      PROVE  SyncedVerifies' /\ ProceedsAreSynced'
    <2>1. file \in Seq(Line) /\ Len(file) \in Nat /\ synced \in 0 .. Len(file) /\ Verifies(synced)
        BY <1>4 DEF SyncedVerifies
    <2>2. PICK n \in synced .. Len(file) :
              \/ file' = SubSeq(file, 1, n)
              \/ n < Len(file) /\ file' = Append(SubSeq(file, 1, n), [file[n + 1] EXCEPT !.state = "torn"])
        BY DEF PowerLoss
    <2> DEFINE kept == SubSeq(file, 1, n)
    <2>3. n \in Nat /\ n <= Len(file) /\ synced <= n
        BY <2>1, <2>2
    <2>4. kept \in Seq(Line) /\ Len(kept) = n /\ \A i \in 1 .. n : kept[i] = file[i]
        BY <2>1, <2>3
    <2> HIDE DEF kept
    <2>5. file' \in Seq(Line) /\ Len(file') >= n /\ Len(file') \in Nat
          /\ \A i \in 1 .. n : file'[i] = file[i]
        <3>1. CASE file' = kept
            BY <2>3, <2>4, <3>1
        <3>2. CASE /\ n < Len(file)
                   /\ file' = Append(kept, [file[n + 1] EXCEPT !.state = "torn"])
            <4> DEFINE torn == [file[n + 1] EXCEPT !.state = "torn"]
            <4>1. n + 1 \in 1 .. Len(file)
                BY <2>1, <2>3, <3>2
            <4>2. file[n + 1] \in Line
                BY <2>1, <4>1
            <4>3. torn \in Line
                BY <4>2 DEF Line
            <4> HIDE DEF torn
            <4>4. file' = Append(kept, torn)
                BY <3>2 DEF torn
            <4> QED
                BY <2>3, <2>4, <4>3, <4>4
        <3> QED
            BY <2>2, <3>1, <3>2 DEF kept
    <2>6. \A i \in 1 .. synced : file'[i] = file[i] /\ i <= n
        BY <2>1, <2>3, <2>5
    <2>7. Verifies(synced)'
        <3>1. ASSUME NEW i \in 1 .. synced PROVE Continues(i)'
            <4>1. file'[i] = file[i] /\ (i # 1 => file'[i - 1] = file[i - 1])
                BY <2>1, <2>6
            <4> QED
                BY <2>1, <4>1 DEF Verifies, Continues
        <3> QED
            BY <1>1, <3>1 DEF Verifies
    <2>8. SyncedVerifies'
        BY <1>1, <2>1, <2>3, <2>5, <2>7 DEF SyncedVerifies
    <2> QED
        BY <1>1, <1>4, <2>6, <2>8 DEF ProceedsAreSynced
<1> QED
    BY <1>1, <1>3, <1>4

LEMMA LogStep ==
    ASSUME LogInv, [Next]_vars
    PROVE  LogInv'
<1>1. CASE UNCHANGED vars
    BY <1>1 DEF vars, LogInv, LogTypeOK, OneWriter, SyncedVerifies, Flushed, TipIsRead, EntryIsLast,
                ProceedsAreSynced, Intact, Verifies, Continues
<1> QED
    BY <1>1, QuietStep, WritingStep, SyncStep, PowerLossStep DEF Next

LEMMA LogInvImplies ==
    ASSUME LogInv
    PROVE  RecordedBeforeRun
<1> SUFFICES ASSUME ~failed, NEW w \in Evaluations, result[w] = "proceed"
             PROVE  Recorded(w)
    BY DEF RecordedBeforeRun
<1>1. PICK i \in 1 .. synced : file[i].by = w
    BY DEF LogInv, ProceedsAreSynced
<1>2. synced \in Nat /\ Verifies(synced)
    BY DEF LogInv, SyncedVerifies
<1>3. Verifies(i)
    BY <1>1, <1>2 DEF Verifies
<1> QED
    BY <1>1, <1>3 DEF Recorded

(* As long as no write and no fsync has failed, an evaluation is told to
   proceed only with its entry in the part of the log that verifies and that
   survives a power loss, for any number of writers that are killed at any
   point and any power losses (_write_with_lock_atomic). *)
THEOREM LogRecordsFirst == Spec => []RecordedBeforeRun
<1>1. LogInv /\ [Next]_vars => LogInv'
    BY LogStep
<1>2. Init => LogInv
    BY LogInitInv
<1>3. LogInv => RecordedBeforeRun
    BY LogInvImplies
<1> QED
    BY <1>1, <1>2, <1>3, PTL DEF Spec

\* The pipeline uses the log as AuditLog says.
LEMMA PipelineUsesLog ==
    ASSUME [PipelineNext]_allVars
    PROVE  [Next]_vars
<1>1. ASSUME NEW e \in Evals,
             \/ Judge(e) \/ ControlIntent(e) \/ ControlLease(e) \/ Answer(e)
             \/ Gate(e) \/ Overridden(e) \/ CheckLiveness(e) \/ LaunchRun(e) \/ KillElsewhere(e)
      PROVE  UNCHANGED vars
    BY <1>1 DEF Judge, ControlIntent, ControlLease, Answer, Gate, Overridden, CheckLiveness,
                LaunchRun, KillElsewhere
<1>2. ASSUME NEW w \in Writers, AuditStep(w) \/ KillWriter(w) PROVE Next
    BY <1>2 DEF AuditStep, KillWriter, Next
<1>3. LosePower => Next
    BY DEF LosePower, Next
<1>4. HostStopsIntent \/ UNCHANGED allVars => UNCHANGED vars
    BY DEF HostStopsIntent, allVars
<1> QED
    BY <1>1, <1>2, <1>3, <1>4 DEF PipelineNext

(* The evaluations and overrides of `jrx exec` are writers of the log: whatever
   else the pipeline does, its log behaves as AuditLog says. *)
LEMMA PipelineImplementsLog == PipelineSpec => Spec
<1>1. PipelineInit => Init
    BY DEF PipelineInit
<1>2. [PipelineNext]_allVars => [Next]_vars
    BY PipelineUsesLog
<1> QED
    BY <1>1, <1>2, PTL DEF PipelineSpec, Spec

(* So in the whole pipeline, too, an evaluation proceeds only with its entry
   verified and synced, as long as no write has failed. *)
THEOREM PipelineRecordsFirst == PipelineSpec => []RecordedBeforeRun
BY PipelineImplementsLog, LogRecordsFirst, PTL

-----------------------------------------------------------------------------
\* What is launched is in the log.

PastAnswer == {"answered", "override", "cleared", "live", "launched"}

\* An answer is given once the writer is done, and says what the writer has learnt.
AnswersTheLog ==
    /\ \A w \in Writers :
           /\ result[w] \in {"none", "proceed", "hold"}
           /\ pc[w] = "done" => result[w] # "none"
    /\ \A e \in Evals : stage[e] \in PastAnswer =>
           /\ pc[e] = "done"
           /\ (mode[e] # "advisory" /\ ~degraded[e]) => result[e] = "proceed"

\* A writer that is done stays so with the result it has.
LEMMA DoneStays ==
    ASSUME LogTypeOK, [Next]_vars, NEW w \in Writers, pc[w] = "done"
    PROVE  pc'[w] = "done" /\ result'[w] = result[w]
<1>1. ASSUME NEW v \in Writers,
             \/ Lock(v) \/ ReadTip(v) \/ Write(v) \/ WriteFails(v) \/ Sync(v) \/ SyncFails(v)
             \/ Unlock(v) \/ Close(v) \/ Kill(v)
      PROVE  pc'[w] = "done" /\ result'[w] = result[w]
    <2>1. v # w
        BY <1>1 DEF Lock, ReadTip, Write, WriteFails, Sync, SyncFails, Unlock, Close, Kill, Step
    <2>2. \E to : pc' = [pc EXCEPT ![v] = to]
        BY <1>1 DEF Lock, ReadTip, Write, WriteFails, Sync, SyncFails, Unlock, Close, Kill, Step
    <2>3. result' = result \/ \E x : result' = [result EXCEPT ![v] = x]
        BY <1>1 DEF Lock, ReadTip, Write, WriteFails, Sync, SyncFails, Unlock, Close, Kill, Learns
    <2> QED
        BY <2>1, <2>2, <2>3 DEF LogTypeOK
<1>2. CASE PowerLoss
    BY <1>2 DEF PowerLoss, LogTypeOK
<1>3. CASE UNCHANGED vars
    BY <1>3 DEF vars
<1> QED
    BY <1>1, <1>2, <1>3 DEF Next

LEMMA AnswerStep ==
    ASSUME PipeInv, LogTypeOK, AnswersTheLog, [PipelineNext]_allVars
    PROVE  AnswersTheLog'
<1> USE DEF PastAnswer
<1>1. [Next]_vars
    BY PipelineUsesLog
<1>2. ASSUME NEW w \in Writers PROVE result'[w] \in {"none", "proceed", "hold"}
    <2>1. result' = result
          \/ \E v \in Writers, x \in {"proceed", "hold"} : result' = [result EXCEPT ![v] = x]
        BY <1>1 DEF Next, Lock, ReadTip, Write, WriteFails, Sync, SyncFails, Unlock, Close, Kill,
                    PowerLoss, Learns, vars
    <2> QED
        BY <2>1 DEF LogTypeOK, AnswersTheLog
<1>3. ASSUME NEW w \in Writers, pc'[w] = "done" PROVE result'[w] # "none"
    <2>1. CASE pc[w] = "done"
        BY <1>1, <2>1, DoneStays DEF AnswersTheLog
    <2>2. CASE pc[w] # "done"
        <3>1. ASSUME NEW v \in Writers,
                     \/ Lock(v) \/ ReadTip(v) \/ Write(v) \/ WriteFails(v) \/ Sync(v)
                     \/ SyncFails(v) \/ Unlock(v) \/ Kill(v)
              PROVE  FALSE
            BY <1>3, <2>2, <3>1
               DEF Lock, ReadTip, Write, WriteFails, Sync, SyncFails, Unlock, Kill, Step, LogTypeOK
        <3>2. ~PowerLoss /\ ~UNCHANGED vars
            BY <1>3, <2>2 DEF PowerLoss, vars
        <3>3. PICK v \in Writers : Close(v)
            BY <1>1, <3>1, <3>2 DEF Next
        <3>4. v = w
            BY <1>3, <2>2, <3>3 DEF Close, Step, LogTypeOK
        <3> QED
            BY <3>3, <3>4 DEF Close, Learns, LogTypeOK, AnswersTheLog
    <2> QED
        BY <2>1, <2>2
<1>4. ASSUME NEW e \in Evals, stage'[e] \in PastAnswer
      PROVE  /\ mode'[e] = mode[e]
             /\ Answer(e) \/ (stage[e] \in PastAnswer /\ (degraded'[e] <=> degraded[e]))
    <2> USE DEF PipeInv, PipeTypeOK
    <2>1. ASSUME NEW d \in Evals,
                 \/ Judge(d) \/ ControlIntent(d) \/ ControlLease(d) \/ Answer(d)
                 \/ Gate(d) \/ Overridden(d) \/ CheckLiveness(d) \/ LaunchRun(d) \/ KillElsewhere(d)
          PROVE  /\ mode' = mode
                 /\ Answer(e) \/ (stage[e] \in PastAnswer /\ (degraded'[e] <=> degraded[e]))
        <3>1. CASE d # e
            <4>1. \E s : stage' = [stage EXCEPT ![d] = s]
                BY <2>1 DEF Judge, ControlIntent, ControlLease, Answer, Gate, Overridden,
                            CheckLiveness, LaunchRun, KillElsewhere, To, UnlessOver
            <4>2. mode' = mode /\ (degraded' = degraded \/ \E x : degraded' = [degraded EXCEPT ![d] = x])
                BY <2>1 DEF Judge, ControlIntent, ControlLease, Answer, Gate, Overridden,
                            CheckLiveness, LaunchRun, KillElsewhere
            <4> QED
                BY <1>4, <3>1, <4>1, <4>2
        <3>2. CASE d = e
            <4>1. ASSUME Judge(e) \/ ControlIntent(e) \/ ControlLease(e) \/ KillElsewhere(e)
                  PROVE  FALSE
                BY <1>4, <4>1 DEF Judge, ControlIntent, ControlLease, KillElsewhere, To, UnlessOver
            <4>2. CASE Gate(e) \/ Overridden(e) \/ CheckLiveness(e) \/ LaunchRun(e)
                BY <4>2 DEF Gate, Overridden, CheckLiveness, LaunchRun, To, UnlessOver
            <4>3. CASE Answer(e)
                BY <4>3 DEF Answer
            <4> QED
                BY <2>1, <3>2, <4>1, <4>2, <4>3
        <3> QED
            BY <3>1, <3>2
    <2>2. ASSUME NEW w \in Writers, AuditStep(w) PROVE UNCHANGED <<mode, degraded, stage>>
        BY <2>2 DEF AuditStep, pipeVars
    <2>3. ASSUME NEW w \in Writers, KillWriter(w)
          PROVE  UNCHANGED <<mode, degraded>> /\ stage[e] = stage'[e]
        BY <1>4, <2>3 DEF KillWriter
    <2>4. LosePower => UNCHANGED <<mode, degraded>> /\ stage[e] = stage'[e]
        BY <1>4 DEF LosePower
    <2>5. HostStopsIntent \/ UNCHANGED allVars => UNCHANGED <<mode, degraded, stage>>
        BY DEF HostStopsIntent, allVars, pipeVars
    <2> QED
        BY <1>4, <2>1, <2>2, <2>3, <2>4, <2>5 DEF PipelineNext
<1>5. ASSUME NEW e \in Evals, stage'[e] \in PastAnswer
      PROVE  pc'[e] = "done" /\ ((mode'[e] # "advisory" /\ ~degraded'[e]) => result'[e] = "proceed")
    <2>1. e \in Writers
        BY PipelineAssumption
    <2>2. CASE Answer(e)
        <3>1. pc[e] = "done" /\ UNCHANGED <<pc, result>>
            BY <2>2 DEF Answer, vars
        <3>2. (mode[e] # "advisory" /\ ~degraded'[e]) => result[e] # "hold"
            BY <2>2 DEF Answer, Unrecorded, PipeInv, PipeTypeOK
        <3> QED
            BY <1>4, <1>5, <2>1, <3>1, <3>2 DEF AnswersTheLog
    <2>3. CASE stage[e] \in PastAnswer /\ (degraded'[e] <=> degraded[e])
        <3>1. pc[e] = "done" /\ ((mode[e] # "advisory" /\ ~degraded[e]) => result[e] = "proceed")
            BY <2>3 DEF AnswersTheLog
        <3>2. pc'[e] = "done" /\ result'[e] = result[e]
            BY <1>1, <2>1, <3>1, DoneStays
        <3> QED
            BY <1>4, <1>5, <2>3, <3>1, <3>2
    <2> QED
        BY <1>4, <1>5, <2>2, <2>3
<1> QED
    BY <1>2, <1>3, <1>5 DEF AnswersTheLog

(* What a session launches outside advisory mode has its decision in the part
   of the log that verifies and that a power loss cannot take, as long as no
   write has failed.  The log and the pipeline have each a part in it: the
   writer is told to proceed after the fsync, evaluate_context holds what is
   told otherwise, and the gate keeps what is held. *)
LaunchedAreRecorded ==
    ~failed => \A e \in Launched : mode[e] # "advisory" => Recorded(e)

(* exec_action launches nothing whose decision is not recorded first. *)
THEOREM LaunchesAreRecorded == PipelineSpec => []LaunchedAreRecorded
<1>1. PipelineInit => PipeInv /\ LogInv /\ AnswersTheLog
    <2>1. PipelineInit => AnswersTheLog
        BY DEF PipelineInit, Init, AnswersTheLog, PastAnswer
    <2>2. PipelineInit => Init
        BY DEF PipelineInit
    <2> QED
        BY <2>1, <2>2, PipelineInitInv, LogInitInv
<1>2. PipeInv /\ LogInv /\ AnswersTheLog /\ [PipelineNext]_allVars
          => PipeInv' /\ LogInv' /\ AnswersTheLog'
    <2>1. LogInv => LogTypeOK
        BY DEF LogInv
    <2> QED
        BY <2>1, PipeStep, LogStep, AnswerStep, PipelineUsesLog
<1>3. PipeInv /\ LogInv /\ AnswersTheLog => LaunchedAreRecorded
    <2> SUFFICES ASSUME PipeInv, LogInv, AnswersTheLog, ~failed,
                        NEW e \in Launched, mode[e] # "advisory"
                 PROVE  Recorded(e)
        BY DEF LaunchedAreRecorded
    <2>1. e \in Evals /\ stage[e] = "launched" /\ ~Blocked(e)
        BY DEF Launched, PipeInv, FaultsRemembered
    <2>2. result[e] = "proceed"
        BY <2>1 DEF AnswersTheLog, PastAnswer, Blocked
    <2>3. e \in Evaluations
        BY <2>1, PipelineAssumption DEF Evaluations
    <2>4. RecordedBeforeRun
        BY LogInvImplies
    <2> QED
        BY <2>2, <2>3, <2>4 DEF RecordedBeforeRun
<1> QED
    BY <1>1, <1>2, <1>3, PTL DEF PipelineSpec

-----------------------------------------------------------------------------
\* The judgement on an action reaches its launch.

\* A person has confirmed what the policy lets a person confirm.
Confirmed(e) ==
    /\ Overridable(e)
    /\ \E w \in Overrides : OverrideOf[w] = e /\ pc[w] = "done"

\* A verdict only tightens once it is given, and the gate lets through what the verdict
\* allows or a person confirmed.
JudgementStands ==
    /\ \A e \in Evals : stage[e] # "start" =>
           /\ verdict[e] \in {"HOLD", "REVIEW", "ALLOW"}
           /\ Rank(verdict[e]) >= Rank(Judged(e).decision)
           /\ Judged(e).degraded => degraded[e]
    /\ \A e \in Evals :
           /\ stage[e] = "override" => Overridable(e)
           /\ stage[e] \in {"cleared", "live", "launched"} =>
                  ExecutionAllowed(verdict[e], mode[e], degraded[e]) \/ Confirmed(e)

(* What `jrx exec' launches is what decide and execution_allowed let run on the evidence
   that evaluate_context found, or what a person has confirmed: then it was not degraded,
   and a hold in mode enforce only if the policy has allow_hold_override.  The controls,
   the log, the override of another action, kills and power losses in between loosen
   nothing. *)
JudgementDecides ==
    \A e \in Launched :
        LET judged == Judged(e)
        IN  \/ ExecutionAllowed(judged.decision, mode[e], judged.degraded)
            \/ /\ ~judged.degraded
               /\ mode[e] = "enforce" /\ judged.decision = "HOLD" => Config.allow_hold_override
               /\ \E w \in Overrides : OverrideOf[w] = e /\ pc[w] = "done"
\* The judgement is a matter of the action, the policy and the mode, which stay.
LEMMA JudgedStays ==
    ASSUME UNCHANGED <<request, mode>>, NEW e
    PROVE  Judged(e)' = Judged(e)
BY DEF Judged, Outcome

LEMMA JudgedType ==
    ASSUME NEW e
    PROVE  Judged(e).decision \in {"HOLD", "REVIEW", "ALLOW"}
BY DEF Judged, Decide

\* A step of one evaluation is none of another's.
LEMMA OthersStay ==
    ASSUME PipeTypeOK, DOMAIN verdict = Evals, NEW d \in Evals, NEW e \in Evals, d # e,
           \/ Judge(d) \/ ControlIntent(d) \/ ControlLease(d) \/ Answer(d)
           \/ Gate(d) \/ Overridden(d) \/ CheckLiveness(d) \/ LaunchRun(d) \/ KillElsewhere(d)
    PROVE  stage'[e] = stage[e] /\ verdict'[e] = verdict[e] /\ degraded'[e] = degraded[e]
<1>1. \E s : stage' = [stage EXCEPT ![d] = s]
    BY DEF Judge, ControlIntent, ControlLease, Answer, Gate, Overridden,
           CheckLiveness, LaunchRun, KillElsewhere, To, UnlessOver
<1>2. verdict' = verdict \/ \E x : verdict' = [verdict EXCEPT ![d] = x]
    BY DEF Judge, ControlIntent, ControlLease, Answer, Gate, Overridden,
           CheckLiveness, LaunchRun, KillElsewhere
<1>3. degraded' = degraded \/ \E x : degraded' = [degraded EXCEPT ![d] = x]
    BY DEF Judge, ControlIntent, ControlLease, Answer, Gate, Overridden,
           CheckLiveness, LaunchRun, KillElsewhere
<1> QED
    BY <1>1, <1>2, <1>3 DEF PipeTypeOK

\* An override that was written down stays so, and with it the confirmation.
LEMMA ConfirmedStays ==
    ASSUME LogTypeOK, [PipelineNext]_allVars, NEW e \in Evals,
           Confirmed(e), mode'[e] = mode[e], verdict'[e] = verdict[e]
    PROVE  Confirmed(e)'
<1>1. PICK w \in Overrides : OverrideOf[w] = e /\ pc[w] = "done"
    BY DEF Confirmed
<1>2. w \in Writers /\ [Next]_vars
    BY PipelineUsesLog, PipelineAssumption
<1>3. pc'[w] = "done"
    BY <1>1, <1>2, DoneStays
<1>4. Overridable(e)'
    BY DEF Confirmed, Overridable
<1> QED
    BY <1>1, <1>3, <1>4 DEF Confirmed

LEMMA JudgementStep ==
    ASSUME PipeInv, LogTypeOK, DOMAIN verdict = Evals, JudgementStands, [PipelineNext]_allVars
    PROVE  DOMAIN verdict' = Evals /\ JudgementStands'
<1> USE DEF PipeInv, PipeTypeOK
<1> DEFINE Past(e) == stage[e] \in {"cleared", "live", "launched"}
           Kept(e) == stage[e] # "start" =>
               /\ verdict[e] \in {"HOLD", "REVIEW", "ALLOW"}
               /\ Rank(verdict[e]) >= Rank(Judged(e).decision)
               /\ Judged(e).degraded => degraded[e]
           Passed(e) ==
               /\ stage[e] = "override" => Overridable(e)
               /\ Past(e) => ExecutionAllowed(verdict[e], mode[e], degraded[e]) \/ Confirmed(e)
<1>1. \A e \in Evals : Kept(e) /\ Passed(e)
    BY DEF JudgementStands
<1>2. UNCHANGED <<request, mode>>
    BY DEF PipelineNext, Judge, ControlIntent, ControlLease, Answer, Gate, Overridden, CheckLiveness,
           LaunchRun, KillElsewhere, AuditStep, KillWriter, LosePower, HostStopsIntent, pipeVars, allVars
<1>3. \A e \in Evals : Judged(e)' = Judged(e)
    BY <1>2, JudgedStays
<1>4. \A e : Judged(e).decision \in {"HOLD", "REVIEW", "ALLOW"}
    BY JudgedType
\* It keeps its verdict, and does not pass the gate.
<1>5. ASSUME NEW e \in Evals, verdict'[e] = verdict[e], degraded'[e] = degraded[e],
             stage'[e] # "start" => stage[e] # "start",
             stage'[e] = "override" => stage[e] = "override",
             Past(e)' => Past(e)
      PROVE  Kept(e)' /\ Passed(e)'
    <2>1. Kept(e)'
        BY <1>1, <1>3, <1>5
    <2>2. Overridable(e) => Overridable(e)'
        BY <1>2, <1>5 DEF Overridable
    <2>3. Confirmed(e) => Confirmed(e)'
        BY <1>2, <1>5, ConfirmedStays
    <2>4. Passed(e)'
        BY <1>1, <1>2, <1>5, <2>2, <2>3
    <2> QED
        BY <2>1, <2>4
<1>6. ASSUME NEW e \in Evals, Judge(e) PROVE Kept(e)' /\ Passed(e)'
    <2>1. /\ stage'[e] \in {"judged", "ended"} /\ verdict'[e] = Judged(e).decision
          /\ degraded'[e] = Judged(e).degraded
        BY <1>6 DEF Judge, UnlessOver, To
    <2>2. Kept(e)'
        BY <1>3, <1>4, <2>1 DEF Rank
    <2> QED
        BY <2>1, <2>2
\* Only a hold takes the place of a verdict.
<1>7. ASSUME NEW e \in Evals, ControlLease(e) \/ Answer(e) PROVE Kept(e)' /\ Passed(e)'
    <2>1. /\ stage[e] # "start" /\ stage'[e] \in {"controlled", "answered", "ended"}
          /\ verdict'[e] = verdict[e] \/ verdict'[e] = "HOLD"
          /\ degraded[e] => degraded'[e]
        BY <1>7 DEF ControlLease, Answer, UnlessOver, To
    <2>2. Rank(verdict'[e]) >= Rank(Judged(e).decision) /\ verdict'[e] \in {"HOLD", "REVIEW", "ALLOW"}
        BY <1>1, <1>4, <2>1 DEF Rank
    <2>3. Kept(e)'
        BY <1>1, <1>3, <2>1, <2>2
    <2> QED
        BY <2>1, <2>3
<1>8. ASSUME NEW e \in Evals, Gate(e) PROVE Kept(e)' /\ Passed(e)'
    <2>1. UNCHANGED <<verdict, degraded, mode>> /\ stage[e] = "answered"
        BY <1>8 DEF Gate, To
    <2>2. \/ stage'[e] = "cleared" /\ ExecutionAllowed(verdict[e], mode[e], degraded[e])
          \/ stage'[e] = "override" /\ Overridable(e)
          \/ stage'[e] = "ended"
        BY <1>8 DEF Gate, To
    <2>3. Kept(e)'
        BY <1>1, <1>3, <2>1
    <2>4. Overridable(e) => Overridable(e)'
        BY <2>1 DEF Overridable
    <2>5. Passed(e)'
        BY <2>1, <2>2, <2>4
    <2> QED
        BY <2>3, <2>5
<1>9. ASSUME NEW e \in Evals, Overridden(e) PROVE Kept(e)' /\ Passed(e)'
    <2>1. /\ UNCHANGED <<verdict, degraded, mode>>
          /\ stage[e] = "override" /\ stage'[e] = "cleared"
        BY <1>9 DEF Overridden, To
    <2>2. Confirmed(e)
        BY <1>1, <1>9, <2>1 DEF Overridden, Confirmed
    <2>3. Confirmed(e)'
        BY <2>1, <2>2, ConfirmedStays
    <2>4. Kept(e)'
        BY <1>1, <1>3, <2>1
    <2> QED
        BY <2>1, <2>3, <2>4
<1>10. ASSUME NEW e \in Evals,
              ControlIntent(e) \/ CheckLiveness(e) \/ LaunchRun(e) \/ KillElsewhere(e)
       PROVE  Kept(e)' /\ Passed(e)'
    <2>1. UNCHANGED <<verdict, degraded>>
        BY <1>10 DEF ControlIntent, CheckLiveness, LaunchRun, KillElsewhere
    <2>2. /\ stage[e] # "start" /\ stage'[e] \in {"intent", "live", "launched", "ended"}
          /\ Past(e)' => Past(e)
        BY <1>10 DEF ControlIntent, CheckLiveness, LaunchRun, KillElsewhere, UnlessOver, To
    <2> QED
        BY <1>5, <2>1, <2>2
<1> DEFINE EvalStep(d) ==
        \/ Judge(d) \/ ControlIntent(d) \/ ControlLease(d) \/ Answer(d)
        \/ Gate(d) \/ Overridden(d) \/ CheckLiveness(d) \/ LaunchRun(d) \/ KillElsewhere(d)
<1>11. ASSUME NEW d \in Evals, EvalStep(d), NEW e \in Evals PROVE Kept(e)' /\ Passed(e)'
    <2>1. CASE d = e
        BY <1>6, <1>7, <1>8, <1>9, <1>10, <1>11, <2>1
    <2>2. CASE d # e
        <3>1. stage'[e] = stage[e] /\ verdict'[e] = verdict[e] /\ degraded'[e] = degraded[e]
            BY <1>11, <2>2, OthersStay
        <3> QED
            BY <1>5, <3>1
    <2> QED
        BY <2>1, <2>2
<1>12. ASSUME ~\E d \in Evals : EvalStep(d), NEW e \in Evals PROVE Kept(e)' /\ Passed(e)'
    <2>1. UNCHANGED <<verdict, degraded>>
        BY <1>12 DEF PipelineNext, AuditStep, KillWriter, LosePower, HostStopsIntent, pipeVars, allVars
    <2>2. stage'[e] = stage[e] \/ (stage'[e] = "ended" /\ stage[e] # "start")
        <3>1. ASSUME NEW w \in Writers, KillWriter(w)
              PROVE  stage'[e] = stage[e] \/ (stage'[e] = "ended" /\ stage[e] # "start")
            BY <3>1, PipelineAssumption DEF KillWriter, MayWrite, Owner
        <3>2. LosePower => stage'[e] = stage[e] \/ (stage'[e] = "ended" /\ stage[e] # "start")
            BY DEF LosePower
        <3>3. (\E w \in Writers : AuditStep(w)) \/ HostStopsIntent \/ UNCHANGED allVars => stage' = stage
            BY DEF AuditStep, HostStopsIntent, pipeVars, allVars
        <3> QED
            BY <1>12, <3>1, <3>2, <3>3 DEF PipelineNext
    <2> QED
        BY <1>5, <2>1, <2>2
<1>13. DOMAIN verdict' = Evals
    BY DEF PipelineNext, Judge, ControlIntent, ControlLease, Answer, Gate, Overridden, CheckLiveness,
           LaunchRun, KillElsewhere, AuditStep, KillWriter, LosePower, HostStopsIntent, pipeVars, allVars
<1>14. \A e \in Evals : Kept(e)' /\ Passed(e)'
    BY <1>11, <1>12
<1> QED
    BY <1>13, <1>14 DEF JudgementStands

\* No step after the judgement loosens it, for any number of evaluations and overrides.
THEOREM JudgementIsFinal == PipelineSpec => []JudgementDecides
<1> DEFINE Inv == /\ PipeInv /\ LogInv
                  /\ DOMAIN verdict = Evals /\ JudgementStands
<1>1. PipelineInit => Inv
    <2>1. PipelineInit => DOMAIN verdict = Evals /\ JudgementStands
        BY DEF PipelineInit, JudgementStands
    <2>2. PipelineInit => Init
        BY DEF PipelineInit
    <2> QED
        BY <2>1, <2>2, PipelineInitInv, LogInitInv
<1>2. Inv /\ [PipelineNext]_allVars => Inv'
    <2>1. LogInv => LogTypeOK
        BY DEF LogInv
    <2> QED
        BY <2>1, PipeStep, LogStep, JudgementStep, PipelineUsesLog
<1>3. Inv => JudgementDecides
    <2> SUFFICES ASSUME Inv, NEW e \in Launched
                 PROVE  \/ ExecutionAllowed(Judged(e).decision, mode[e], Judged(e).degraded)
                        \/ /\ ~Judged(e).degraded
                           /\ mode[e] = "enforce" /\ Judged(e).decision = "HOLD"
                                  => Config.allow_hold_override
                           /\ \E w \in Overrides : OverrideOf[w] = e /\ pc[w] = "done"
        BY DEF JudgementDecides
    <2>1. e \in Evals /\ stage[e] = "launched" /\ ~Blocked(e)
        BY DEF Launched, PipeInv, FaultsRemembered
    <2>2. /\ verdict[e] \in {"HOLD", "REVIEW", "ALLOW"}
          /\ Judged(e).decision \in {"HOLD", "REVIEW", "ALLOW"}
          /\ Rank(verdict[e]) >= Rank(Judged(e).decision)
          /\ Judged(e).degraded => degraded[e]
          /\ ExecutionAllowed(verdict[e], mode[e], degraded[e]) \/ Confirmed(e)
        BY <2>1, JudgedType DEF JudgementStands
    <2>3. /\ Judged(e).decision = "HOLD" => verdict[e] = "HOLD"
          /\ verdict[e] = "ALLOW" => Judged(e).decision = "ALLOW"
        BY <2>2 DEF Rank
    <2>4. CASE ExecutionAllowed(verdict[e], mode[e], degraded[e])
        BY <2>2, <2>3, <2>4 DEF ExecutionAllowed
    <2>5. CASE Confirmed(e) /\ mode[e] # "advisory"
        BY <2>1, <2>2, <2>3, <2>5 DEF Confirmed, Overridable, Blocked
    <2>6. CASE mode[e] = "advisory"
        BY <2>6 DEF ExecutionAllowed
    <2> QED
        BY <2>2, <2>4, <2>5, <2>6
<1> QED
    BY <1>1, <1>2, <1>3, PTL DEF PipelineSpec
=============================================================================
