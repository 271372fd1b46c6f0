---------------------------- MODULE PolicyProofs ----------------------------
(***************************************************************************)
(* Proofs about PolicyEngine, PolicyReload and PolicyRollout.  Pure lemmas *)
(* first: what MergePolicies does to each field, why the verdict of the    *)
(* merged policy is never looser when the review threshold stays, and why  *)
(* more evidence never loosens a verdict.  Then the invariant of the       *)
(* reloader, which says where the document at hand and the policy in force *)
(* come from, and that of the rollout, with its refinement.                *)
(***************************************************************************)
EXTENDS PolicyReload, PolicyRollout, TLAPS

-----------------------------------------------------------------------------
\* The fields of a merged policy.
LEMMA MergedFields ==
    ASSUME NEW d \in Policies, NEW l \in Policies
    PROVE  LET c == MergePolicies(d, l)
           IN  /\ c \in Policies
               /\ d.hold_on \subseteq c.hold_on
               /\ d.review_on \subseteq c.review_on
               /\ c.strong <= d.strong
               /\ c.conservative = d.conservative
               /\ c.margin = d.margin
<1>1. Least(d.strong, l.strong) \in Percent /\ Least(d.strong, l.strong) <= d.strong
  BY DEF Policies, Least, Percent
<1>2. Least(d.review, l.review) \in Percent
  BY DEF Policies, Least, Percent
<1>. QED BY <1>1, <1>2 DEF MergePolicies, Policies

\* The shared setting of the lemmas below: c is stricter than d field by field.
Tighter(c, d) ==
    /\ c \in Policies /\ d \in Policies
    /\ d.hold_on \subseteq c.hold_on
    /\ d.review_on \subseteq c.review_on
    /\ c.strong <= d.strong
    /\ c.conservative <=> d.conservative
    /\ c.margin = d.margin
    /\ c.review = d.review /\ d.review < d.strong
    /\ c.mode = d.mode \/ d.mode = "advisory"

\* A value that is beyond a threshold for certain is so beyond a lower one.
LEMMA BeyondLower ==
    ASSUME NEW c, NEW d, Tighter(c, d),
           NEW p \in Percent, p >= d.strong, ~Near(d, p, d.strong)
    PROVE  p >= c.strong /\ ~Near(c, p, c.strong)
<1>1. /\ c.strong \in Int /\ d.strong \in Int /\ p \in Int
      /\ d.margin \in Int /\ d.margin >= 0 /\ c.margin = d.margin /\ c.strong <= d.strong
  BY DEF Tighter, Policies, Percent
<1>2. p >= c.strong
  BY <1>1
<1>3. CASE ~c.conservative
  BY <1>2, <1>3, Zenon DEF Near
<1>4. CASE c.conservative
  <2>1. d.conservative
    BY <1>4, Zenon DEF Tighter
  <2>2. ~(d.margin > 0 /\ d.strong - d.margin <= p /\ p <= d.strong + d.margin)
    BY <2>1, Zenon DEF Near
  <2>3. ~(c.margin > 0 /\ c.strong - c.margin <= p /\ p <= c.strong + c.margin)
    BY <1>1, <2>2
  <2>. QED BY <1>2, <2>3, Zenon DEF Near
<1>. QED BY <1>3, <1>4

LEMMA ValueIsPercent ==
    ASSUME NEW e, IsEvaluation(e), NEW n
    PROVE  Value(e, n) \in Percent
BY DEF IsEvaluation, Value, Percent

\* What the semantic signals hold under d they hold under c.
LEMMA HoldStays ==
    ASSUME NEW c, NEW d, Tighter(c, d), NEW e, IsEvaluation(e), SemanticHold(e, d)
    PROVE  SemanticHold(e, c)
<1>1. PICK n \in d.hold_on : \E m \in Names(n) :
          Value(e, m) >= d.strong /\ ~Near(d, Value(e, m), d.strong)
  BY DEF SemanticHold
<1>2. PICK m \in Names(n) : Value(e, m) >= d.strong /\ ~Near(d, Value(e, m), d.strong)
  BY <1>1
<1>3. Value(e, m) \in Percent
  BY ValueIsPercent
<1>4. Value(e, m) >= c.strong /\ ~Near(c, Value(e, m), c.strong)
  BY <1>2, <1>3, BeyondLower
<1>5. n \in c.hold_on
  BY DEF Tighter
<1>. QED BY <1>2, <1>4, <1>5 DEF SemanticHold

\* A signal beyond the strong threshold of c either holds or asks for review.
LEMMA StrongDecides ==
    ASSUME NEW c \in Policies, NEW e, IsEvaluation(e),
           NEW n \in DOMAIN e.signals, e.signals[n] >= c.strong
    PROVE  SemanticHold(e, c) \/ SignalReview(e, c)
<1>1. CASE n \in c.hold_on
  <2>1. n \in Names(n) /\ Value(e, n) = e.signals[n]
    BY DEF Names, Value
  <2>2. CASE Near(c, e.signals[n], c.strong)
    BY <2>2 DEF SignalReview
  <2>3. CASE ~Near(c, e.signals[n], c.strong)
    BY <1>1, <2>1, <2>3 DEF SemanticHold
  <2>. QED BY <2>2, <2>3
<1>2. CASE n \notin c.hold_on
  BY <1>2 DEF SignalReview
<1>. QED BY <1>1, <1>2

\* A signal that asks for review under d still does under c, or it holds.
LEMMA SignalReviewStays ==
    ASSUME NEW c, NEW d, Tighter(c, d), NEW e, IsEvaluation(e), SignalReview(e, d)
    PROVE  SemanticHold(e, c) \/ SignalReview(e, c)
<1>1. PICK n \in DOMAIN e.signals :
        \/ Near(d, e.signals[n], d.strong)
        \/ Near(d, e.signals[n], d.review)
        \/ d.review <= e.signals[n] /\ e.signals[n] < d.strong
        \/ e.signals[n] >= d.strong /\ (n \in d.review_on \/ n \notin d.hold_on)
  BY DEF SignalReview
<1>2. e.signals[n] \in Percent
  BY DEF IsEvaluation
<1>3. CASE e.signals[n] >= c.strong
  BY <1>3, StrongDecides DEF Tighter
<1>4. CASE e.signals[n] < c.strong
  <2>1. /\ c.strong \in Int /\ d.strong \in Int /\ c.review \in Int /\ e.signals[n] \in Int
        /\ d.margin \in Int /\ c.margin = d.margin /\ c.strong <= d.strong
        /\ c.review = d.review /\ d.review < d.strong
    BY <1>2 DEF Tighter, Policies, Percent
  <2>2. CASE Near(d, e.signals[n], d.strong) \/ Near(d, e.signals[n], d.review)
    <3>1. c.conservative
      BY <2>2, Zenon DEF Near, Tighter
    <3>2. /\ d.margin > 0
          /\ \/ d.strong - d.margin <= e.signals[n]
             \/ d.review - d.margin <= e.signals[n] /\ e.signals[n] <= d.review + d.margin
      BY <2>2, Zenon DEF Near
    <3>3. CASE c.review <= e.signals[n]
      BY <1>4, <3>3 DEF SignalReview
    <3>4. CASE e.signals[n] < c.review
      <4>1. /\ c.margin > 0
            /\ c.review - c.margin <= e.signals[n] /\ e.signals[n] <= c.review + c.margin
        BY <2>1, <3>2, <3>4
      <4>2. Near(c, e.signals[n], c.review)
        BY <3>1, <4>1, Zenon DEF Near
      <4>. QED BY <4>2, Zenon DEF SignalReview
    <3>. QED BY <2>1, <3>3, <3>4
  <2>3. CASE d.review <= e.signals[n]
    BY <1>4, <2>1, <2>3 DEF SignalReview
  <2>4. e.signals[n] >= d.strong => d.review <= e.signals[n]
    BY <2>1
  <2>. QED BY <1>1, <2>2, <2>3, <2>4
<1>. QED BY <1>2, <1>3, <1>4 DEF Tighter, Policies, Percent

\* What needs a review under d needs one under c, or is held.
LEMMA ReviewStays ==
    ASSUME NEW c, NEW d, Tighter(c, d), NEW e, IsEvaluation(e), NeedsReview(e, d)
    PROVE  SemanticHold(e, c) \/ NeedsReview(e, c)
<1>1. CASE SignalReview(e, d)
  BY <1>1, SignalReviewStays DEF NeedsReview
<1>2. CASE Value(e, "human_review") >= d.strong
  <2>1. Value(e, "human_review") \in Percent
    BY ValueIsPercent
  <2>2. Value(e, "human_review") >= c.strong
    BY <1>2, <2>1 DEF Tighter, Policies, Percent
  <2>. QED BY <2>2 DEF NeedsReview
<1>3. CASE d.mode = "review"
  BY <1>3 DEF Tighter, NeedsReview
<1>4. CASE \/ "notable" \in e.findings \/ e.risk # "low" \/ e.degraded
           \/ e.confidence # NoConfidence /\ e.confidence < d.review
  BY <1>4 DEF Tighter, NeedsReview
<1>. QED BY <1>1, <1>2, <1>3, <1>4 DEF NeedsReview

\* A policy that is stricter field by field judges and runs no looser.
LEMMA TighterJudges ==
    ASSUME NEW c, NEW d, Tighter(c, d), NEW e, IsEvaluation(e)
    PROVE  Rank(Decide(e, c)) >= Rank(Decide(e, d)) /\ (Runs(e, c) => Runs(e, d))
<1>1. Decide(e, d) = "HOLD" => Decide(e, c) = "HOLD"
  BY HoldStays DEF Decide
<1>2. Decide(e, d) = "REVIEW" => Decide(e, c) \in {"HOLD", "REVIEW"}
  BY ReviewStays DEF Decide
<1>3. Decide(e, d) \in {"HOLD", "REVIEW", "ALLOW"} /\ Decide(e, c) \in {"HOLD", "REVIEW", "ALLOW"}
  BY DEF Decide
<1>4. Rank(Decide(e, c)) >= Rank(Decide(e, d))
  BY <1>1, <1>2, <1>3 DEF Rank
<1>5. c.mode = d.mode \/ d.mode = "advisory"
  BY DEF Tighter
<1>6. Runs(e, c) => Runs(e, d)
  BY <1>1, <1>2, <1>3, <1>5 DEF Runs, ExecutionAllowed
<1>. QED BY <1>4, <1>6

-----------------------------------------------------------------------------
\* The verdict on more or less evidence, under one policy.

\* All that speaks against the action of d speaks against that of e, and no weaker.
\* A confidence that is missing speaks for nothing.
NoBetter(e, d) ==
    /\ d.findings \subseteq e.findings
    /\ \A n \in DOMAIN d.signals : n \in DOMAIN e.signals /\ e.signals[n] >= d.signals[n]
    /\ e.risk = "low" => d.risk = "low"
    /\ d.confidence # NoConfidence =>
           e.confidence # NoConfidence /\ e.confidence <= d.confidence
    /\ d.degraded => e.degraded

LEMMA ValueGrows ==
    ASSUME NEW e, NEW d, IsEvaluation(e), IsEvaluation(d), NoBetter(e, d), NEW n
    PROVE  Value(e, n) >= Value(d, n)
<1>1. CASE n \in DOMAIN d.signals
  BY <1>1 DEF NoBetter, Value
<1>2. CASE n \notin DOMAIN d.signals
  <2>1. Value(e, n) \in Int /\ Value(e, n) >= 0
    BY ValueIsPercent DEF Percent
  <2>. QED BY <1>2, <2>1 DEF Value
<1>. QED BY <1>1, <1>2

\* A value that has passed the margin of a threshold does not come back into it.
LEMMA BeyondStays ==
    ASSUME NEW c \in Policies, NEW threshold \in Percent, NEW p \in Percent, NEW q \in Percent,
           p >= threshold, ~Near(c, p, threshold), q >= p
    PROVE  q >= threshold /\ ~Near(c, q, threshold)
<1>1. c.margin \in Int /\ c.margin >= 0 /\ threshold \in Int /\ p \in Int /\ q \in Int
  BY DEF Policies, Percent
<1>2. CASE c.conservative /\ c.margin > 0
  <2>1. p > threshold + c.margin
    BY <1>1, <1>2 DEF Near
  <2>. QED BY <1>1, <2>1 DEF Near
<1>3. CASE ~(c.conservative /\ c.margin > 0)
  BY <1>1, <1>3 DEF Near
<1>. QED BY <1>2, <1>3

LEMMA HoldGrows ==
    ASSUME NEW c, Valid(c), NEW e, NEW d, IsEvaluation(e), IsEvaluation(d), NoBetter(e, d),
           SemanticHold(d, c)
    PROVE  SemanticHold(e, c)
<1>1. PICK n \in c.hold_on : \E m \in Names(n) :
          Value(d, m) >= c.strong /\ ~Near(c, Value(d, m), c.strong)
  BY DEF SemanticHold
<1>2. PICK m \in Names(n) : Value(d, m) >= c.strong /\ ~Near(c, Value(d, m), c.strong)
  BY <1>1
<1>3. /\ Value(d, m) \in Percent /\ Value(e, m) \in Percent /\ Value(e, m) >= Value(d, m)
      /\ c \in Policies /\ c.strong \in Percent
  BY ValueIsPercent, ValueGrows DEF Valid, Policies
<1>4. Value(e, m) >= c.strong /\ ~Near(c, Value(e, m), c.strong)
  BY <1>2, <1>3, BeyondStays
<1>. QED BY <1>4 DEF SemanticHold

\* A signal that asks for review never rises into a gap: it asks still, or it holds.
LEMMA SignalReviewGrows ==
    ASSUME NEW c, Valid(c), NEW e, NEW d, IsEvaluation(e), IsEvaluation(d), NoBetter(e, d),
           SignalReview(d, c)
    PROVE  SemanticHold(e, c) \/ SignalReview(e, c)
<1>1. PICK n \in DOMAIN d.signals :
        \/ Near(c, d.signals[n], c.strong)
        \/ Near(c, d.signals[n], c.review)
        \/ c.review <= d.signals[n] /\ d.signals[n] < c.strong
        \/ d.signals[n] >= c.strong /\ (n \in c.review_on \/ n \notin c.hold_on)
  BY DEF SignalReview
<1> DEFINE p == d.signals[n]
           q == e.signals[n]
<1>2. /\ n \in DOMAIN e.signals /\ q >= p /\ p \in Int /\ q \in Int
      /\ c \in Policies /\ c.strong \in Int /\ c.review \in Int /\ c.margin \in Int
      /\ c.review < c.strong
  BY DEF IsEvaluation, NoBetter, Valid, Policies, Percent
<1>3. CASE q >= c.strong
  BY <1>2, <1>3, StrongDecides
<1>4. CASE c.review <= q /\ q < c.strong
  BY <1>2, <1>4 DEF SignalReview
<1>5. CASE q < c.review
  <2>1. c.conservative /\ c.margin > 0 /\ c.review - c.margin <= p
    BY <1>1, <1>2, <1>5 DEF Near
  <2>2. Near(c, q, c.review)
    BY <1>2, <1>5, <2>1 DEF Near
  <2>. QED BY <1>2, <2>2 DEF SignalReview
<1>. QED BY <1>2, <1>3, <1>4, <1>5

\* Evidence is monotone: no finding, signal, risk class, loss of confidence or failed
\* sample that is added, and no probability that rises, ever loosens the verdict or lets
\* an action run that was kept before, in any mode and with any margin.  [Policy.decide,
\* execution_allowed]
THEOREM EvidenceNeverLoosens ==
    ASSUME NEW c, Valid(c), NEW e, NEW d, IsEvaluation(e), IsEvaluation(d), NoBetter(e, d)
    PROVE  Rank(Decide(e, c)) >= Rank(Decide(d, c)) /\ (Runs(e, c) => Runs(d, c))
<1>1. Decide(d, c) = "HOLD" => Decide(e, c) = "HOLD"
  BY HoldGrows DEF Decide, NoBetter
<1>2. NeedsReview(d, c) => SemanticHold(e, c) \/ NeedsReview(e, c)
  <2>1. CASE SignalReview(d, c)
    BY <2>1, SignalReviewGrows DEF NeedsReview
  <2>2. CASE Value(d, "human_review") >= c.strong
    <3>1. /\ Value(e, "human_review") >= Value(d, "human_review") /\ c.strong \in Int
          /\ Value(e, "human_review") \in Int /\ Value(d, "human_review") \in Int
      BY ValueGrows, ValueIsPercent DEF Percent, Valid, Policies
    <3>2. Value(e, "human_review") >= c.strong
      BY <2>2, <3>1
    <3>. QED BY <3>2 DEF NeedsReview
  <2>3. CASE d.confidence # NoConfidence /\ d.confidence < c.review
    <3>1. /\ e.confidence # NoConfidence /\ e.confidence <= d.confidence
          /\ e.confidence \in Percent /\ d.confidence \in Percent /\ c.review \in Percent
      BY <2>3 DEF NoBetter, IsEvaluation, Valid, Policies
    <3>2. e.confidence \in Int /\ d.confidence \in Int /\ c.review \in Int
      BY <3>1 DEF Percent
    <3>3. e.confidence < c.review
      BY <2>3, <3>1, <3>2
    <3>. QED BY <3>1, <3>3 DEF NeedsReview
  <2>4. CASE "notable" \in d.findings \/ d.risk # "low" \/ c.mode = "review" \/ d.degraded
    BY <2>4 DEF NoBetter, NeedsReview
  <2>. QED BY <2>1, <2>2, <2>3, <2>4 DEF NeedsReview
<1>3. Decide(d, c) = "REVIEW" => Decide(e, c) \in {"HOLD", "REVIEW"}
  BY <1>2 DEF Decide
<1>4. Decide(d, c) \in {"HOLD", "REVIEW", "ALLOW"} /\ Decide(e, c) \in {"HOLD", "REVIEW", "ALLOW"}
  BY DEF Decide
<1>5. Rank(Decide(e, c)) >= Rank(Decide(d, c))
  BY <1>1, <1>3, <1>4 DEF Rank
<1>6. Runs(e, c) => Runs(d, c)
  BY <1>1, <1>3, <1>4 DEF Runs, ExecutionAllowed, NoBetter
<1>. QED BY <1>5, <1>6

\* What runs in mode review runs in mode enforce, and what runs there in mode advisory:
\* review is the strictest of the three, though mode_strictness ranks enforce above it.
\* [execution_allowed, decide]
THEOREM ReviewIsStrictest ==
    ASSUME NEW c \in Policies, NEW e
    PROVE  LET in(mode) == [c EXCEPT !.mode = mode]
           IN  /\ Runs(e, in("review")) => Runs(e, in("enforce"))
               /\ Runs(e, in("enforce")) => Runs(e, in("advisory"))
<1> DEFINE review == [c EXCEPT !.mode = "review"]
           enforce == [c EXCEPT !.mode = "enforce"]
           advisory == [c EXCEPT !.mode = "advisory"]
<1>1. review.mode = "review" /\ enforce.mode = "enforce" /\ advisory.mode = "advisory"
  BY DEF Policies
<1>2. /\ review.hold_on = enforce.hold_on /\ review.strong = enforce.strong
      /\ review.conservative = enforce.conservative /\ review.margin = enforce.margin
  BY DEF Policies
<1> HIDE DEF review, enforce, advisory
<1>3. SemanticHold(e, enforce) => SemanticHold(e, review)
  BY <1>2 DEF SemanticHold, Near
<1>4. Runs(e, review) => Runs(e, enforce)
  <2>1. Decide(e, review) = "ALLOW" => Decide(e, enforce) # "HOLD"
    BY <1>3 DEF Decide
  <2>. QED BY <1>1, <2>1 DEF Runs, ExecutionAllowed
<1>5. Runs(e, advisory)
  BY <1>1 DEF Runs, ExecutionAllowed
<1>. QED BY <1>4, <1>5 DEF review, enforce, advisory

-----------------------------------------------------------------------------
\* Where the policies of the reloader come from.

MergedFrom(policy, central) == \E o \in Overrides : policy = Effective(central, o)

Origin ==
    /\ sig \in endorsed
    /\ cache # Nothing => cache \in endorsed
    /\ pc \in {"start_sig", "poll_sig"} => got \in Documents
    /\ pc \in {"fetched", "merged"} => cache # Nothing
    /\ pc = "merged" => MergedFrom(got, cache)
    /\ current.central = Nothing => current.policy = Nothing
    /\ current.central # Nothing =>
           current.central \in endorsed /\ MergedFrom(current.policy, current.central)

ReloadInv == TypeOK /\ Origin

LEMMA ReloadInit == Init => ReloadInv
<1>. SUFFICES ASSUME Init PROVE ReloadInv
  OBVIOUS
<1>1. current.policy = Nothing /\ current.central = Nothing
  BY DEF Init
<1>2. TypeOK
  BY <1>1 DEF Init, TypeOK, Documents, Calling
<1>3. Origin
  BY <1>1 DEF Init, Origin
<1>. QED BY <1>2, <1>3 DEF ReloadInv

LEMMA ReloadNext == ReloadInv /\ [Next]_vars => ReloadInv'
<1>. SUFFICES ASSUME ReloadInv, [Next]_vars PROVE ReloadInv'
  OBVIOUS
<1>. USE DEF ReloadInv, TypeOK, Origin, Documents
<1>1. ASSUME NEW x \in Documents, Publish(x) PROVE ReloadInv'
  BY <1>1 DEF Publish, MergedFrom
<1>2. CASE Sign
  BY <1>2 DEF Sign, MergedFrom
<1>3. CASE Outage
  BY <1>3 DEF Outage, MergedFrom
<1>4. ASSUME NEW o \in Overrides, EditOverride(o) PROVE ReloadInv'
  BY <1>4 DEF EditOverride, MergedFrom
<1>5. ASSUME NEW starting \in BOOLEAN, ReadDocument(starting) PROVE ReloadInv'
  BY <1>5 DEF ReadDocument, FetchFailed, Raised, sourceVars, MergedFrom, Calling, Waiting
<1>6. ASSUME NEW starting \in BOOLEAN, ReadSignature(starting) PROVE ReloadInv'
  <2>1. Nothing \notin Centrals
    BY ReloadAssumption DEF Valid
  <2>2. CASE reachable /\ Verified(got) /\ got # Garbage /\ cache' = got /\ pc' = "fetched"
             /\ UNCHANGED <<current, got>>
    <3>1. got \in Centrals
      BY <1>6, <2>2 DEF ReadSignature
    <3>2. got \in endorsed
      BY <2>2 DEF Verified
    <3>. QED BY <1>6, <2>1, <2>2, <3>1, <3>2
             DEF ReadSignature, sourceVars, MergedFrom, Calling, Waiting
  <2>3. CASE reachable /\ Verified(got) /\ got = Garbage /\ pc' = Raised(starting) /\ got' = Nothing
             /\ UNCHANGED <<cache, current>>
    BY <1>6, <2>3 DEF ReadSignature, Raised, sourceVars, MergedFrom, Calling, Waiting
  <2>4. CASE FetchFailed(starting)
    BY <1>6, <2>4 DEF ReadSignature, FetchFailed, Raised, sourceVars, MergedFrom, Calling, Waiting
  <2>. QED BY <1>6, <2>2, <2>3, <2>4 DEF ReadSignature
<1>7. CASE LoadLocal
  BY <1>7 DEF LoadLocal, sourceVars, MergedFrom, Calling, Waiting
<1>8. CASE Swap
  BY <1>8 DEF Swap, sourceVars, MergedFrom, Calling, Waiting
<1>9. CASE Stop
  BY <1>9 DEF Stop, sourceVars, MergedFrom
<1>10. CASE ThreadEnds
  BY <1>10 DEF ThreadEnds, sourceVars, MergedFrom, Calling, Waiting
<1>11. CASE UNCHANGED vars
  BY <1>11 DEF vars, MergedFrom
<1>. QED BY <1>1, <1>2, <1>3, <1>4, <1>5, <1>6, <1>7, <1>8, <1>9, <1>10, <1>11
         DEF Next, Source, Start, Reload

LEMMA ReloadSafe == Spec => []ReloadInv
BY ReloadInit, ReloadNext, PTL DEF Spec

(* Whatever the source serves between the two requests, the policy in force
   comes from a document the owner of the key has signed
   (policy_source.py, PolicyFetcher.fetch). *)
THEOREM OnlySignedPoliciesRule == Spec => []InForceIsSigned
<1>1. ReloadInv => InForceIsSigned
  BY DEF ReloadInv, Origin, InForceIsSigned
<1>. QED BY <1>1, ReloadSafe, PTL

(* Every override within the condition of LocalOnlyTightens makes every verdict
   at least as strict, for every central policy, every override and every
   evaluation (policy_source.py, PolicyMerger.merge; policy.py, decide). *)
THEOREM OverridesTighten == Spec => []LocalOnlyTightens
<1>1. ReloadInv => LocalOnlyTightens
  <2>. DEFINE c == current.policy
              d == current.central
  <2>. SUFFICES ASSUME ReloadInv, c # Nothing, c.review = d.review,
                       c.mode = d.mode \/ d.mode = "advisory",
                       NEW e \in Inputs
                PROVE  Rank(Decide(e, c)) >= Rank(Decide(e, d)) /\ (Runs(e, c) => Runs(e, d))
    BY DEF LocalOnlyTightens, AtLeastAsStrict
  <2>1. d \in Centrals /\ Valid(d) /\ IsEvaluation(e)
    BY ReloadAssumption DEF ReloadInv, TypeOK, Origin
  <2>2. PICK o \in Overrides : c = Effective(d, o)
    BY <2>1, ReloadAssumption DEF ReloadInv, Origin, MergedFrom, Valid
  <2>3. CASE o \in Policies
    <3>1. c = MergePolicies(d, o)
      BY <2>2, <2>3 DEF Effective
    <3>. HIDE DEF c, d
    <3>2. Tighter(c, d)
      BY <2>1, <2>3, <3>1, MergedFields DEF Tighter, Valid
    <3>. QED BY <2>1, <3>2, TighterJudges
  <2>4. CASE o \notin Policies
    <3>1. c = d
      BY <2>2, <2>4 DEF Effective
    <3>. HIDE DEF c, d
    <3>2. Tighter(d, d)
      BY <2>1 DEF Tighter, Valid, Policies, Percent
    <3>. QED BY <2>1, <3>1, <3>2, TighterJudges
  <2>. QED BY <2>3, <2>4
<1>. QED BY <1>1, ReloadSafe, PTL

-----------------------------------------------------------------------------
\* The rollout commands, for any number of administrators, policies and
\* repositories: the lock makes the read of the file and the rename one step, so
\* the state that is renamed into place is still the answer to the file it replaces.

States ==
    [active : Candidates, candidate : Candidates \cup {None},
     previous : Candidates \cup {None}, percent : Percent]

StageCommands == [op : {"stage"}, baseline : Candidates, candidate : Candidates]
Commands == StageCommands \cup [op : {"promote"}, percent : Percents] \cup [op : {"rollback"}]

Locking == {"locked", "temporary", "unlock"}
Places == {"idle", "replay", "wait"} \cup Locking

RolloutTypeOK ==
    /\ file \in States \cup {None}
    /\ phase \in [Admins -> Places]
    /\ command \in [Admins -> Commands \cup {Idle}]
    /\ DOMAIN changed = Admins

\* The file holds no candidate that has not passed the gate.
FileGated == file # None /\ file.candidate # None => Gate(file.active, file.candidate)

\* What a command knows at each place.
CommandKnows(a) ==
    /\ phase[a] = "replay" => command[a] \in StageCommands
    /\ phase[a] \in {"wait", "locked", "temporary"} => command[a] \in Commands
    /\ phase[a] \in {"wait", "locked", "temporary"} /\ command[a].op = "stage"
           => Gate(command[a].baseline, command[a].candidate)

\* The state about to be renamed into place is the answer to the file.
ChangeIsCurrent(a) ==
    phase[a] = "temporary" => ~Refuses(file, command[a]) /\ changed[a] = Result(file, command[a])

OnlyHolder(a) == phase[a] \in Locking => holder = a

RolloutInv ==
    /\ RolloutTypeOK
    /\ FileGated
    /\ \A a \in Admins : CommandKnows(a) /\ ChangeIsCurrent(a) /\ OnlyHolder(a)

-----------------------------------------------------------------------------
\* A command that is not refused makes a state of a state, a whole step of
\* PolicyActivation, keeps the gate, and never takes a candidate from a repository.

LEMMA CandidatesAreNot == None \notin Candidates /\ None \notin States
BY RolloutAssumption DEF Valid, States

LEMMA StageResult ==
    ASSUME NEW s \in States \cup {None}, NEW c \in StageCommands, ~Refuses(s, c)
    PROVE  LET t == Result(s, c)
           IN  /\ t \in States
               /\ s # None => s.candidate = None
               /\ t.active = c.baseline /\ t.candidate = c.candidate
               /\ t = [(IF s = None THEN Fresh(c.baseline) ELSE s) EXCEPT !.candidate = c.candidate]
<1>1. c.op = "stage" /\ c.baseline \in Candidates /\ c.candidate \in Candidates
  BY DEF StageCommands
<1>2. StageAllowed(s, c.baseline)
  BY <1>1 DEF Refuses
<1>3. Result(s, c) = [(IF s = None THEN Fresh(c.baseline) ELSE s) EXCEPT !.candidate = c.candidate]
  BY <1>1 DEF Result
<1>4. CASE s = None
  BY <1>1, <1>3, <1>4 DEF Fresh, States, Percent
<1>5. CASE s # None
  BY <1>1, <1>2, <1>3, <1>5 DEF StageAllowed, States
<1>. QED BY <1>4, <1>5

LEMMA PromoteResult ==
    ASSUME NEW s \in States \cup {None}, NEW c \in [op : {"promote"}, percent : Percents],
           ~Refuses(s, c)
    PROVE  LET t == Result(s, c)
           IN  /\ s # None /\ s.candidate # None /\ c.percent >= s.percent
               /\ t = IF c.percent = 100
                      THEN [Fresh(s.candidate) EXCEPT !.previous = s.active]
                      ELSE [s EXCEPT !.percent = c.percent]
               /\ t \in States
               /\ t.candidate = None \/ (t.candidate = s.candidate /\ t.active = s.active
                                         /\ t.percent = c.percent)
<1>1. c.op = "promote" /\ c.percent \in Percents /\ c.percent \in Percent
  BY RolloutAssumption DEF Percent
<1>2. s # None /\ s.candidate # None /\ ~(c.percent < s.percent) /\ s \in States
  BY <1>1 DEF Refuses
<1>3. c.percent >= s.percent
  BY <1>1, <1>2 DEF States, Percent
<1>4. Result(s, c) = IF c.percent = 100
                     THEN [Fresh(s.candidate) EXCEPT !.previous = s.active]
                     ELSE [s EXCEPT !.percent = c.percent]
  BY <1>1 DEF Result
<1>5. CASE c.percent = 100
  BY <1>2, <1>3, <1>4, <1>5 DEF Fresh, States, Percent
<1>6. CASE c.percent # 100
  BY <1>1, <1>2, <1>3, <1>4, <1>6 DEF States
<1>. QED BY <1>5, <1>6

LEMMA RollbackResult ==
    ASSUME NEW s \in States \cup {None}, NEW c \in [op : {"rollback"}], ~Refuses(s, c)
    PROVE  LET t == Result(s, c)
           IN  /\ s # None
               /\ s.candidate # None \/ s.previous # None
               /\ t = IF s.candidate # None THEN [s EXCEPT !.candidate = None, !.percent = 0]
                      ELSE [s EXCEPT !.active = s.previous, !.previous = None]
               /\ t \in States
               /\ t.candidate = None
<1>1. c.op = "rollback"
  OBVIOUS
<1>2. s # None /\ (s.candidate # None \/ s.previous # None) /\ s \in States
  BY <1>1 DEF Refuses
<1>3. Result(s, c) = IF s.candidate # None THEN [s EXCEPT !.candidate = None, !.percent = 0]
                     ELSE [s EXCEPT !.active = s.previous, !.previous = None]
  BY <1>1 DEF Result
<1>4. CASE s.candidate # None
  <2>1. Result(s, c) = [s EXCEPT !.candidate = None, !.percent = 0]
    BY <1>3, <1>4
  <2>2. Result(s, c) \in States /\ Result(s, c).candidate = None
    <3>1. 0 \in Percent
      BY DEF Percent
    <3>. QED BY <1>2, <2>1, <3>1 DEF States
  <2>. QED BY <1>2, <1>3, <2>2
<1>5. CASE s.candidate = None
  <2>1. Result(s, c) = [s EXCEPT !.active = s.previous, !.previous = None]
    BY <1>3, <1>5
  <2>2. Result(s, c) \in States /\ Result(s, c).candidate = None
    BY <1>2, <1>5, <2>1 DEF States
  <2>. QED BY <1>2, <1>3, <2>2
<1>. QED BY <1>4, <1>5

-----------------------------------------------------------------------------
LEMMA RolloutInitInv == RolloutInit => RolloutInv
BY DEF RolloutInit, RolloutInv, RolloutTypeOK, FileGated, CommandKnows, ChangeIsCurrent, OnlyHolder,
       Places, Locking, Idle, StageCommands, Commands

\* The rename: what it puts in place.
LEMMA ReplaceResult ==
    ASSUME RolloutInv, NEW a \in Admins, Replace(a)
    PROVE  /\ file' = Result(file, command[a]) /\ ~Refuses(file, command[a])
           /\ command[a] \in Commands
           /\ file' \in States
           /\ FileGated'
<1>1. /\ file' = Result(file, command[a]) /\ ~Refuses(file, command[a])
      /\ command[a] \in Commands
      /\ command[a].op = "stage" => Gate(command[a].baseline, command[a].candidate)
      /\ file \in States \cup {None}
  BY DEF Replace, RolloutInv, RolloutTypeOK, CommandKnows, ChangeIsCurrent
<1>2. CASE command[a] \in StageCommands
  <2>1. file' \in States /\ file'.active = command[a].baseline /\ file'.candidate = command[a].candidate
    BY <1>1, <1>2, StageResult
  <2>2. Gate(command[a].baseline, command[a].candidate)
    BY <1>1, <1>2 DEF StageCommands
  <2>3. FileGated'
    BY <2>1, <2>2, Zenon DEF FileGated, Gate, Replayed, NewAllows
  <2>. QED BY <1>1, <2>1, <2>3
<1>3. CASE command[a] \in [op : {"promote"}, percent : Percents]
  <2>1. /\ file # None /\ file.candidate # None
        /\ file' \in States
        /\ file'.candidate = None \/ (file'.candidate = file.candidate /\ file'.active = file.active)
    BY <1>1, <1>3, PromoteResult
  <2>2. FileGated'
    BY <2>1, Zenon DEF FileGated, RolloutInv, Gate, Replayed, NewAllows
  <2>. QED BY <1>1, <2>1, <2>2
<1>4. CASE command[a] \in [op : {"rollback"}]
  <2>1. file' \in States /\ file'.candidate = None
    BY <1>1, <1>4, RollbackResult
  <2>2. FileGated'
    BY <2>1 DEF FileGated
  <2>. QED BY <1>1, <2>1, <2>2
<1>. QED BY <1>1, <1>2, <1>3, <1>4 DEF Commands

\* While an administrator is between the lock and its release, no other is.
LEMMA OthersWait ==
    ASSUME RolloutInv, NEW a \in Admins, NEW b \in Admins, a # b, holder = a
    PROVE  phase[b] \notin Locking
BY DEF RolloutInv, OnlyHolder

LEMMA RolloutStep == RolloutInv /\ [RolloutNext]_rolloutVars => RolloutInv'
<1>. SUFFICES ASSUME RolloutInv, [RolloutNext]_rolloutVars PROVE RolloutInv'
  OBVIOUS
<1>. USE DEF RolloutInv, RolloutTypeOK
\* A step of a outside the lock: the file stays, and a does not take the lock.
<1>1. ASSUME NEW a \in Admins, UNCHANGED <<file, holder, changed>>,
             NEW next \in {"replay", "wait"}, phase' = [phase EXCEPT ![a] = next],
             NEW c \in Commands, command' = [command EXCEPT ![a] = c],
             next = "replay" => c \in StageCommands,
             next = "wait" /\ c.op = "stage" => Gate(c.baseline, c.candidate),
             phase[a] \notin Locking
      PROVE  RolloutInv'
  <2>1. RolloutTypeOK'
    BY <1>1 DEF Places
  <2>2. FileGated'
    BY <1>1, Zenon DEF FileGated, Gate, Replayed, NewAllows
  <2>3. ASSUME NEW b \in Admins PROVE CommandKnows(b)' /\ ChangeIsCurrent(b)' /\ OnlyHolder(b)'
    <3>1. CASE b = a
      <4>1. phase'[b] = next /\ command'[b] = c
        BY <1>1, <3>1
      <4>2. CommandKnows(b)'
        BY <1>1, <4>1 DEF CommandKnows, Gate, Replayed, NewAllows
      <4>. QED BY <4>1, <4>2 DEF ChangeIsCurrent, OnlyHolder, Locking
    <3>2. CASE b # a
      <4>1. phase'[b] = phase[b] /\ command'[b] = command[b] /\ changed'[b] = changed[b]
            /\ holder' = holder /\ file' = file
        BY <1>1, <3>2
      <4>. QED BY <4>1, Zenon DEF CommandKnows, ChangeIsCurrent, OnlyHolder, Gate, Replayed, NewAllows
    <3>. QED BY <3>1, <3>2
  <2>. QED BY <2>1, <2>2, <2>3
<1>2. ASSUME NEW a \in Admins, NEW b \in Candidates, CheckBaseline(a, b) PROVE RolloutInv'
  <2>. DEFINE c == [op |-> "stage", baseline |-> b, candidate |-> b]
  <2>1. c \in StageCommands /\ c \in Commands
    BY DEF StageCommands, Commands
  <2>2. phase[a] \notin Locking
    BY <1>2 DEF CheckBaseline, Locking
  <2>3. UNCHANGED <<file, holder, changed>> /\ phase' = [phase EXCEPT ![a] = "replay"]
        /\ command' = [command EXCEPT ![a] = c]
    BY <1>2 DEF CheckBaseline
  <2>. HIDE DEF c
  <2>. QED BY <1>1, <2>1, <2>2, <2>3
<1>3. ASSUME NEW a \in Admins, NEW b \in Candidates, Simulate(a, b) PROVE RolloutInv'
  <2>. DEFINE c == [command[a] EXCEPT !.candidate = b]
  <2>1. command[a] \in StageCommands /\ phase[a] \notin Locking
    BY <1>3 DEF Simulate, Locking, CommandKnows
  <2>2. c \in StageCommands /\ c \in Commands /\ c.baseline = command[a].baseline /\ c.candidate = b
    BY <2>1 DEF StageCommands, Commands
  <2>3. UNCHANGED <<file, holder, changed>> /\ phase' = [phase EXCEPT ![a] = "wait"]
        /\ command' = [command EXCEPT ![a] = c] /\ Gate(c.baseline, c.candidate)
    BY <1>3, <2>2 DEF Simulate
  <2>. HIDE DEF c
  <2>. QED BY <1>1, <2>1, <2>2, <2>3
<1>4. ASSUME NEW a \in Admins, NEW c \in Commands, c.op # "stage", Call(a, c) PROVE RolloutInv'
  <2>1. UNCHANGED <<file, holder, changed>> /\ phase' = [phase EXCEPT ![a] = "wait"]
        /\ command' = [command EXCEPT ![a] = c] /\ phase[a] \notin Locking
    BY <1>4 DEF Call, Locking
  <2>. QED BY <1>1, <1>4, <2>1
<1>5. ASSUME NEW a \in Admins, Lock(a) PROVE RolloutInv'
  <2>1. RolloutTypeOK'
    BY <1>5 DEF Lock, Places, Locking
  <2>2. FileGated'
    BY <1>5, Zenon DEF Lock, FileGated, Gate, Replayed, NewAllows
  <2>3. ASSUME NEW b \in Admins PROVE CommandKnows(b)' /\ ChangeIsCurrent(b)' /\ OnlyHolder(b)'
    <3>1. CASE b = a
      <4>1. /\ phase[b] = "wait" /\ phase'[b] = "locked" /\ holder' = b
            /\ command'[b] = command[b]
        BY <1>5, <3>1 DEF Lock
      <4>. QED BY <4>1 DEF CommandKnows, ChangeIsCurrent, OnlyHolder, Gate, Replayed, NewAllows
    <3>2. CASE b # a
      <4>1. phase'[b] = phase[b] /\ command'[b] = command[b] /\ changed'[b] = changed[b] /\ file' = file
        BY <1>5, <3>2 DEF Lock
      <4>2. phase[b] \notin Locking
        BY <1>5, RolloutAssumption DEF Lock, OnlyHolder
      <4>. QED BY <4>1, <4>2, Zenon
              DEF CommandKnows, ChangeIsCurrent, OnlyHolder, Gate, Replayed, NewAllows
    <3>. QED BY <3>1, <3>2
  <2>. QED BY <2>1, <2>2, <2>3
<1>6. ASSUME NEW a \in Admins, Change(a) PROVE RolloutInv'
  <2>1. RolloutTypeOK'
    BY <1>6 DEF Change, Places, Locking
  <2>2. FileGated'
    BY <1>6, Zenon DEF Change, FileGated, Gate, Replayed, NewAllows
  <2>3. ASSUME NEW b \in Admins PROVE CommandKnows(b)' /\ ChangeIsCurrent(b)' /\ OnlyHolder(b)'
    <3>1. CASE b = a
      <4>1. /\ phase[b] = "locked" /\ phase'[b] = "temporary" /\ holder' = holder /\ file' = file
            /\ command'[b] = command[b]
            /\ ~Refuses(file, command[b]) /\ changed'[b] = Result(file, command[b])
        BY <1>6, <3>1 DEF Change
      <4>2. ChangeIsCurrent(b)'
        BY <4>1, Zenon DEF ChangeIsCurrent
      <4>. QED BY <4>1, <4>2 DEF CommandKnows, OnlyHolder, Locking, Gate, Replayed, NewAllows
    <3>2. CASE b # a
      <4>1. phase'[b] = phase[b] /\ command'[b] = command[b] /\ changed'[b] = changed[b]
            /\ holder' = holder /\ file' = file
        BY <1>6, <3>2 DEF Change
      <4>. QED BY <4>1, Zenon DEF CommandKnows, ChangeIsCurrent, OnlyHolder, Gate, Replayed, NewAllows
    <3>. QED BY <3>1, <3>2
  <2>. QED BY <2>1, <2>2, <2>3
<1>7. ASSUME NEW a \in Admins, Replace(a) PROVE RolloutInv'
  <2>1. file' \in States /\ FileGated'
    BY <1>7, ReplaceResult
  <2>2. RolloutTypeOK'
    BY <1>7, <2>1 DEF Replace, Places, Locking
  <2>3. holder = a
    BY <1>7 DEF Replace, OnlyHolder, Locking
  <2>4. ASSUME NEW b \in Admins PROVE CommandKnows(b)' /\ ChangeIsCurrent(b)' /\ OnlyHolder(b)'
    <3>1. CASE b = a
      <4>1. phase'[b] = "unlock" /\ holder' = holder
        BY <1>7, <3>1 DEF Replace
      <4>. QED BY <2>3, <3>1, <4>1 DEF CommandKnows, ChangeIsCurrent, OnlyHolder
    <3>2. CASE b # a
      <4>1. phase'[b] = phase[b] /\ command'[b] = command[b]
        BY <1>7, <3>2 DEF Replace
      <4>2. phase[b] \notin Locking
        BY <2>3, <3>2, OthersWait
      <4>3. CommandKnows(b)'
        BY <4>1, Zenon DEF CommandKnows, Gate, Replayed, NewAllows
      <4>. QED BY <4>1, <4>2, <4>3 DEF ChangeIsCurrent, OnlyHolder, Locking
    <3>. QED BY <3>1, <3>2
  <2>. QED BY <2>1, <2>2, <2>4
<1>8. ASSUME NEW a \in Admins, End(a) PROVE RolloutInv'
  <2>1. RolloutTypeOK'
    BY <1>8 DEF End, Places
  <2>2. FileGated'
    BY <1>8, Zenon DEF End, FileGated, Gate, Replayed, NewAllows
  <2>3. ASSUME NEW b \in Admins PROVE CommandKnows(b)' /\ ChangeIsCurrent(b)' /\ OnlyHolder(b)'
    <3>1. CASE b = a
      <4>1. phase'[b] = "idle"
        BY <1>8, <3>1 DEF End
      <4>. QED BY <4>1 DEF CommandKnows, ChangeIsCurrent, OnlyHolder, Locking
    <3>2. CASE b # a
      <4>1. /\ phase'[b] = phase[b] /\ command'[b] = command[b] /\ changed'[b] = changed[b] /\ file' = file
            /\ holder' = IF holder = a THEN None ELSE holder
        BY <1>8, <3>2 DEF End
      <4>2. OnlyHolder(b)'
        BY <3>2, <4>1 DEF OnlyHolder
      <4>. QED BY <4>1, <4>2, Zenon DEF CommandKnows, ChangeIsCurrent, Gate, Replayed, NewAllows
    <3>. QED BY <3>1, <3>2
  <2>. QED BY <2>1, <2>2, <2>3
<1>9. CASE UNCHANGED rolloutVars
  BY <1>9, Zenon DEF rolloutVars, FileGated, CommandKnows, ChangeIsCurrent, OnlyHolder, Gate, Replayed, NewAllows
<1>10. ASSUME NEW a \in Admins, Step(a) PROVE RolloutInv'
  <2>1. ASSUME NEW p \in Percents PROVE [op |-> "promote", percent |-> p] \in Commands
                                        /\ [op |-> "promote", percent |-> p].op # "stage"
    BY DEF Commands
  <2>2. [op |-> "rollback"] \in Commands /\ [op |-> "rollback"].op # "stage"
    BY DEF Commands
  <2>. QED BY <1>2, <1>3, <1>4, <1>5, <1>6, <1>7, <1>8, <1>10, <2>1, <2>2 DEF Step
<1>. QED BY <1>9, <1>10 DEF RolloutNext

LEMMA RolloutSafe == RolloutSpec => []RolloutInv
BY RolloutInitInv, RolloutStep, PTL DEF RolloutSpec

-----------------------------------------------------------------------------
\* Only the rename changes the file, and it is a whole step of one command.
LEMMA FileSteps ==
    ASSUME RolloutInv, [RolloutNext]_rolloutVars
    PROVE  file' = file \/ \E a \in Admins : Replace(a)
BY DEF RolloutNext, Step, CheckBaseline, Simulate, Call, Lock, Change, End, rolloutVars

LEMMA ReplaceIsActivation ==
    ASSUME RolloutInv, NEW a \in Admins, Replace(a)
    PROVE  Activation!Next
<1>1. /\ file' = Result(file, command[a]) /\ ~Refuses(file, command[a])
      /\ command[a] \in Commands /\ file \in States \cup {None}
  BY ReplaceResult DEF RolloutInv, RolloutTypeOK
<1>2. CASE command[a] \in StageCommands
  <2>1. command[a].baseline \in Candidates /\ command[a].candidate \in Candidates
        /\ command[a].op = "stage"
    BY <1>2 DEF StageCommands
  <2>2. StageAllowed(file, command[a].baseline)
    BY <1>1, <2>1 DEF Refuses
  <2>3. file' = [(IF file = None THEN Fresh(command[a].baseline) ELSE file)
                    EXCEPT !.candidate = command[a].candidate]
    BY <1>1, <1>2, StageResult
  <2>4. Activation!Stage(command[a].baseline, command[a].candidate)
    BY <2>2, <2>3 DEF StageAllowed, Activation!Stage, Fresh, Activation!Fresh
  <2>. QED BY <2>1, <2>4 DEF Activation!Next
<1>3. CASE command[a] \in [op : {"promote"}, percent : Percents]
  <2>1. Activation!Promote(command[a].percent)
    BY <1>1, <1>3, PromoteResult DEF Activation!Promote, Fresh, Activation!Fresh
  <2>. QED BY <1>3, <2>1 DEF Activation!Next
<1>4. CASE command[a] \in [op : {"rollback"}]
  <2>1. Activation!Rollback
    BY <1>1, <1>4, RollbackResult DEF Activation!Rollback
  <2>. QED BY <2>1 DEF Activation!Next
<1>. QED BY <1>1, <1>2, <1>3, <1>4 DEF Commands

(* The lock, the rename and the crashes between them implement one register
   that is staged, promoted and rolled back by whole steps
   (policy_rollout.py, RolloutStore._change). *)
THEOREM FileIsOneRegister == RolloutSpec => ImplementsActivation
<1>1. RolloutInit => Activation!Init
  BY DEF RolloutInit, Activation!Init
<1>2. RolloutInv /\ [RolloutNext]_rolloutVars => [Activation!Next]_file
  BY FileSteps, ReplaceIsActivation
<1>. QED BY <1>1, <1>2, RolloutSafe, PTL DEF RolloutSpec, ImplementsActivation, Activation!Spec

(* Whatever happens between the replay and the lock, a staged candidate has
   passed the gate against the active policy (cli.py, policy_rollout_stage;
   policy_rollout.py, stage). *)
THEOREM StagedPassedTheGate == RolloutSpec => []CandidatePassedGate
<1>1. RolloutInv => CandidatePassedGate
  BY Zenon DEF RolloutInv, FileGated, CandidatePassedGate
<1>. QED BY <1>1, RolloutSafe, PTL

(* No command takes the candidate from a repository that has it, short of a
   rollback or the end of the rollout (policy_rollout.py, promote and select). *)
THEOREM ScopesKeepTheirCandidate == RolloutSpec => StickyScope
<1>. DEFINE Sticky ==
        \A s \in Scopes :
            /\ file # None /\ file.candidate # None /\ file' # None
            /\ file'.candidate = file.candidate /\ file'.active = file.active
            /\ Select(file, s) = file.candidate
            => Select(file', s) = file.candidate
<1>1. RolloutInv /\ [RolloutNext]_rolloutVars => [Sticky]_rolloutVars
  <2>. SUFFICES ASSUME RolloutInv, [RolloutNext]_rolloutVars, NEW s \in Scopes,
                       file # None, file.candidate # None, file' # None,
                       file'.candidate = file.candidate, file'.active = file.active,
                       Select(file, s) = file.candidate
                PROVE  Select(file', s) = file.candidate
    OBVIOUS
  <2>1. CASE file' = file
    BY <2>1
  <2>2. ASSUME NEW a \in Admins, Replace(a) PROVE Select(file', s) = file.candidate
    <3>1. /\ file' = Result(file, command[a]) /\ ~Refuses(file, command[a])
          /\ command[a] \in Commands /\ file \in States \cup {None}
      BY <2>2, ReplaceResult DEF RolloutInv, RolloutTypeOK
    <3>2. command[a] \notin StageCommands
      BY <3>1, StageResult
    <3>3. command[a] \notin [op : {"rollback"}]
      BY <3>1, RollbackResult
    <3>4. file'.percent >= file.percent
      BY <3>1, <3>2, <3>3, PromoteResult DEF Commands
    <3>5. file'.percent \in Percent /\ file.percent \in Percent
      BY <2>2, <3>1, ReplaceResult DEF States
    <3>6. Bucket[s] \in 0..99
      BY RolloutAssumption
    <3>7. CASE Bucket[s] < file.percent
      <4>1. Bucket[s] < file'.percent
        <5>1. \A m, n \in Percent, k \in 0..99 : m >= n /\ k < n => k < m
          BY DEF Percent
        <5>. QED BY <3>4, <3>5, <3>6, <3>7, <5>1, Zenon
      <4>. QED BY <4>1 DEF Select
    <3>8. CASE ~(Bucket[s] < file.percent)
      <4>1. file.active = file.candidate
        BY <3>8 DEF Select
      <4>. QED BY <4>1 DEF Select
    <3>. QED BY <3>7, <3>8
  <2>. QED BY <2>1, <2>2, FileSteps
<1>. QED BY <1>1, RolloutSafe, PTL DEF RolloutSpec, StickyScope
=============================================================================
