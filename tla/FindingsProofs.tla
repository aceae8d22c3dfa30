---------------------------- MODULE FindingsProofs ----------------------------
(***************************************************************************)
(* Theorems about one review, from the diff to the comments.               *)
(***************************************************************************)
EXTENDS SettingsProofs, FiniteSetTheorems, WellFoundedInduction, TLAPS

-----------------------------------------------------------------------------
(* Numbers and orders.                                                     *)

\* Some number of a set is the least.
LEMMA LeastNumber ==
    ASSUME NEW S \in SUBSET Nat, S # {}
    PROVE  \E n \in S : \A m \in S : n <= m
<1>1. PICK n \in S : \A m \in S : ~(<<m, n>> \in OpToRel(<, Nat))
  <2>. HIDE DEF OpToRel
  <2>. QED
    BY NatLessThanWellFounded, WFMin
<1>2. ASSUME NEW m \in S, m < n PROVE FALSE
  <2>1. <<m, n>> \in Nat \X Nat
    OBVIOUS
  <2>. QED
    BY <1>1, <1>2, <2>1 DEF OpToRel
<1>. QED
  BY <1>2

LEMMA ScoreOf ==
    ASSUME NEW s \in Int, NEW t \in Int, NEW x \in Int, NEW y \in Int
    PROVE  100 * s + 10 * t + x + y \in Int /\ 100 * s + 10 * t + x + y = 100 * s + 10 * t + (x + y)
OBVIOUS

\* The lexicographic order is strict.
LEMMA PrecedesIrreflexive == ASSUME NEW s \in Seq(Int) PROVE ~Precedes(s, s)
BY DEF Precedes

LEMMA PrecedesTransitive ==
    ASSUME NEW s \in Seq(Int), NEW t \in Seq(Int), NEW u \in Seq(Int), Len(s) = Len(t), Len(t) = Len(u),
           Precedes(s, t), Precedes(t, u)
    PROVE  Precedes(s, u)
<1>1. DOMAIN s = 1..Len(s) /\ DOMAIN t = 1..Len(s) /\ DOMAIN u = 1..Len(s) /\ Len(s) \in Nat
  OBVIOUS
<1>2. PICK k \in 1..Len(s) : s[k] > t[k] /\ \A m \in 1..k - 1 : s[m] = t[m]
  BY <1>1 DEF Precedes
<1>3. PICK l \in 1..Len(s) : t[l] > u[l] /\ \A m \in 1..l - 1 : t[m] = u[m]
  BY <1>1 DEF Precedes
<1>4. \A m \in 1..Len(s) : s[m] \in Int /\ t[m] \in Int /\ u[m] \in Int
  BY <1>1
<1>5. CASE k <= l
  <2>1. \A m \in 1..k - 1 : s[m] = u[m]
    BY <1>2, <1>3, <1>5
  <2>2. s[k] > u[k]
    BY <1>2, <1>3, <1>4, <1>5, SMTT(30)
  <2>. QED
    BY <1>1, <2>1, <2>2 DEF Precedes
<1>6. CASE l < k
  <2>1. s[l] > u[l] /\ \A m \in 1..l - 1 : s[m] = u[m]
    BY <1>2, <1>3, <1>4, <1>6
  <2>. QED
    BY <1>1, <2>1 DEF Precedes
<1>. QED
  BY <1>1, <1>5, <1>6

\* Of two sequences that differ one precedes the other.
LEMMA PrecedesTotal ==
    ASSUME NEW s \in Seq(Int), NEW t \in Seq(Int), Len(s) = Len(t), NEW k \in 1..Len(s), s[k] # t[k]
    PROVE  Precedes(s, t) \/ Precedes(t, s)
<1>1. DOMAIN s = 1..Len(s) /\ DOMAIN t = 1..Len(s) /\ Len(s) \in Nat
  OBVIOUS
<1>2. \A m \in 1..Len(s) : s[m] \in Int /\ t[m] \in Int
  BY <1>1
<1>. DEFINE D == {m \in 1..Len(s) : s[m] # t[m]}
<1>3. D \in SUBSET Nat /\ k \in D
  OBVIOUS
<1>4. PICK n \in D : \A m \in D : n <= m
  BY <1>3, LeastNumber
<1>5. \A m \in 1..n - 1 : s[m] = t[m]
  BY <1>4, <1>1
<1>6. s[n] > t[n] \/ t[n] > s[n]
  BY <1>2, <1>4
<1>. QED
  BY <1>1, <1>4, <1>5, <1>6 DEF Precedes

\* Some member of a finite set has a key that no other precedes.
LEMMA TopOf ==
    ASSUME NEW S, IsFiniteSet(S), S # {}, NEW n \in Nat, NEW key,
           \A i \in S : key[i] \in Seq(Int) /\ Len(key[i]) = n
    PROVE  \E i \in S : \A j \in S : ~Precedes(key[j], key[i])
<1>. DEFINE A(i) == {j \in S : Precedes(key[j], key[i])}
            Cards == {Cardinality(A(i)) : i \in S}
<1>1. \A i \in S : IsFiniteSet(A(i)) /\ Cardinality(A(i)) \in Nat
  BY FS_Subset, FS_CardinalityType
<1>2. Cards \in SUBSET Nat /\ Cards # {}
  BY <1>1
<1>3. PICK c \in Cards : \A d \in Cards : c <= d
  <2>. HIDE DEF Cards
  <2>. QED
    BY <1>2, LeastNumber
<1>4. PICK i \in S : c = Cardinality(A(i))
  BY <1>3
<1>5. ASSUME NEW j \in S, Precedes(key[j], key[i]) PROVE FALSE
  <2>1. A(j) \in SUBSET A(i)
    <3>. SUFFICES ASSUME NEW k \in S, Precedes(key[k], key[j]) PROVE Precedes(key[k], key[i])
      OBVIOUS
    <3>. QED
      BY <1>5, PrecedesTransitive
  <2>2. j \in A(i) /\ j \notin A(j)
    BY <1>5, PrecedesIrreflexive
  <2>3. Cardinality(A(j)) <= Cardinality(A(i)) /\ Cardinality(A(j)) # Cardinality(A(i))
    <3>. HIDE DEF A
    <3>. QED
      BY <1>1, <2>1, <2>2, FS_Subset
  <2>4. c <= Cardinality(A(j))
    BY <1>3
  <2>. QED
    <3>. HIDE DEF A
    <3>. QED
      BY <1>1, <1>4, <2>3, <2>4
<1>. QED
  BY <1>5

-----------------------------------------------------------------------------
(* The order in which validation goes through findings.                    *)

\* Findings are visited by severity, then confidence.
LEMMA VisitKeyIs ==
    ASSUME NEW all \in Seq(Finding), NEW i \in DOMAIN all
    PROVE  /\ VisitKey(all, i) \in Seq(Int) /\ Len(VisitKey(all, i)) = 4
           /\ VisitKey(all, i)[1] = all[i].severity /\ VisitKey(all, i)[2] = all[i].confidence
<1>1. all[i] \in Finding /\ i \in Int
  OBVIOUS
<1>2. all[i].severity \in Int /\ all[i].confidence \in Int
  BY <1>1 DEF Finding, LOW, CRITICAL
<1>. QED
  BY <1>1, <1>2 DEF VisitKey

\* The score of a finding, with its bonus for an action and for a ground.
Bonus(f) == (IF {"action", "patch"} \cap f.has # {} THEN 4 ELSE 0) + (IF {"causal", "why"} \cap f.has # {} THEN 1 ELSE 0)
LEMMA RankIs ==
    ASSUME NEW all \in Seq(Finding), NEW i \in DOMAIN all
    PROVE  /\ Rank(all, i) \in Seq(Int) /\ Len(Rank(all, i)) = 8
           /\ Rank(all, i)[1] = 100 * all[i].severity + 10 * TypeOrder[all[i].type] + Bonus(all[i])
           /\ Rank(all, i)[8] = -i
<1>1. all[i] \in Finding /\ i \in Int
  OBVIOUS
<1>2. all[i].severity \in Int /\ all[i].confidence \in Int /\ all[i].line \in Int /\ TypeOrder[all[i].type] \in Int
  BY <1>1 DEF Finding, LOW, CRITICAL, TypeOrder
<1>3. PICK a \in Int, b \in Int, c \in Int, d \in Int :
          /\ SelectionScore(all[i]) = <<a, b, c, d>>
          /\ a = 100 * all[i].severity + 10 * TypeOrder[all[i].type] + Bonus(all[i])
  <2>. DEFINE x == IF {"action", "patch"} \cap all[i].has # {} THEN 4 ELSE 0
              y == IF {"causal", "why"} \cap all[i].has # {} THEN 1 ELSE 0
              a == 100 * all[i].severity + 10 * TypeOrder[all[i].type] + x + y
  <2>1. x \in Int /\ y \in Int
    OBVIOUS
  <2>2. /\ SelectionScore(all[i]) = <<a, all[i].confidence, TypeOrder[all[i].type], -all[i].line>>
        /\ Bonus(all[i]) = x + y
    BY Zenon DEF SelectionScore, Bonus
  <2>. HIDE DEF x, y
  <2>3. a \in Int /\ a = 100 * all[i].severity + 10 * TypeOrder[all[i].type] + Bonus(all[i])
    <3>1. PICK s \in Int : s = all[i].severity
      BY <1>2
    <3>2. PICK t \in Int : t = TypeOrder[all[i].type]
      BY <1>2
    <3>3. a = 100 * s + 10 * t + x + y /\ Bonus(all[i]) = x + y
      BY <2>2, <3>1, <3>2, Zenon
    <3>. HIDE DEF a
    <3>4. a \in Int /\ a = 100 * s + 10 * t + Bonus(all[i])
      BY <2>1, <3>3, ScoreOf
    <3>. QED
      BY <3>1, <3>2, <3>4, Zenon
  <2>4. -all[i].line \in Int
    BY <1>2
  <2>. HIDE DEF a
  <2>. QED
    BY <1>2, <2>2, <2>3, <2>4
<1>4. PICK e \in Int, f \in Int, g \in Int : VisitKey(all, i) = <<e, f, g, -i>>
  BY <1>1, <1>2 DEF VisitKey
<1>5. -i \in Int
  BY <1>1
<1>6. Rank(all, i) = <<a, b, c, d>> \o <<e, f, g, -i>>
  BY <1>3, <1>4, Zenon DEF Rank
<1>7. <<a, b, c, d>> \in Seq(Int) /\ <<e, f, g, -i>> \in Seq(Int)
  BY <1>5
<1>. QED
  BY <1>3, <1>5, <1>6, <1>7

-----------------------------------------------------------------------------
(* What is kept of the accepted findings.                                  *)

\* There is one set that the rule describes, whatever the findings and the budget are:
\* it is built up from the top of the order.
LEMMA KeptIs ==
    ASSUME NEW all \in Seq(Finding), NEW accepted \in SUBSET DOMAIN all, NEW budget
    PROVE  /\ Kept(all, accepted, budget) \in SUBSET accepted
           /\ \A i \in accepted :
                 i \in Kept(all, accepted, budget) <=> Admits(all, Kept(all, accepted, budget), budget, i)
<1>. DEFINE Higher(j, i) == Precedes(Rank(all, j), Rank(all, i))
            Upper(U) == \A i \in U, j \in accepted : Higher(j, i) => j \in U
            Rule(U, K) == \A i \in U : i \in K <=> Admits(all, K, budget, i)
            Sizes == {Cardinality(U) : U \in {V \in SUBSET accepted : Upper(V) /\ \E K \in SUBSET V : Rule(V, K)}}
            Left == {Len(all) - n : n \in Sizes}
<1>1. IsFiniteSet(accepted) /\ Cardinality(accepted) <= Len(all)
  <2>1. Len(all) \in Nat /\ DOMAIN all = 1..Len(all)
    OBVIOUS
  <2>2. IsFiniteSet(1..Len(all)) /\ Cardinality(1..Len(all)) = IF 1 > Len(all) THEN 0 ELSE Len(all) - 1 + 1
    BY <2>1, FS_Interval
  <2>. QED
    BY <2>1, <2>2, FS_Subset
<1>2. \A U \in SUBSET accepted : IsFiniteSet(U) /\ Cardinality(U) \in Nat /\ Cardinality(U) <= Len(all)
  BY <1>1, FS_Subset, FS_CardinalityType
<1>3. Left \in SUBSET Nat
  BY <1>2
<1>4. Left # {}
  <2>1. Upper({}) /\ Rule({}, {})
    OBVIOUS
  <2>2. Cardinality({}) \in Sizes
    BY <2>1
  <2>. QED
    BY <2>2
<1>5. PICK l \in Left : \A m \in Left : l <= m
  <2>. HIDE DEF Left
  <2>. QED
    BY <1>3, <1>4, LeastNumber
<1>6. PICK U \in SUBSET accepted : Upper(U) /\ (\E K \in SUBSET U : Rule(U, K)) /\ l = Len(all) - Cardinality(U)
  BY <1>5
<1>7. PICK K \in SUBSET U : Rule(U, K)
  BY <1>6
<1>8. ASSUME U # accepted PROVE FALSE
  <2>1. PICK i \in accepted \ U : \A j \in accepted \ U : ~Higher(j, i)
    <3>1. IsFiniteSet(accepted \ U) /\ accepted \ U # {}
      BY <1>2, <1>8
    <3>. DEFINE key == [j \in accepted |-> Rank(all, j)]
    <3>2. \A j \in accepted \ U : key[j] \in Seq(Int) /\ Len(key[j]) = 8 /\ key[j] = Rank(all, j)
      BY RankIs
    <3>3. PICK i \in accepted \ U : \A j \in accepted \ U : ~Precedes(key[j], key[i])
      <4>1. \A j \in accepted \ U : key[j] \in Seq(Int) /\ Len(key[j]) = 8
        BY <3>2
      <4>. HIDE DEF key
      <4>. QED
        BY <3>1, <4>1, TopOf
    <3>4. key[i] = Rank(all, i) /\ \A j \in accepted \ U : key[j] = Rank(all, j)
      BY <3>2
    <3>. QED
      BY <3>3, <3>4
  <2>. DEFINE V == U \cup {i}
              L == IF Admits(all, K, budget, i) THEN K \cup {i} ELSE K
  <2>2. Upper(V)
    BY <1>6, <2>1
  <2>3. \A u \in V : Ahead(all, L, u) = Ahead(all, K, u)
    <3>1. ~Higher(i, i)
      BY RankIs, PrecedesIrreflexive
    <3>2. \A u \in U : ~Higher(i, u)
      BY <1>6, <2>1
    <3>. QED
      BY <3>1, <3>2 DEF Ahead
  <2>4. Rule(V, L)
    <3>. SUFFICES ASSUME NEW u \in V PROVE u \in L <=> Admits(all, L, budget, u)
      OBVIOUS
    <3>1. Admits(all, L, budget, u) <=> Admits(all, K, budget, u)
      BY <2>3 DEF Admits
    <3>. QED
      BY <1>7, <2>1, <3>1
  <2>5. Cardinality(V) = Cardinality(U) + 1
    BY <1>2, <2>1, FS_AddElement
  <2>6. Len(all) - Cardinality(V) \in Left
    <3>1. V \in SUBSET accepted /\ L \in SUBSET V
      BY <1>6, <1>7, <2>1
    <3>. QED
      BY <2>2, <2>4, <3>1
  <2>7. l <= Len(all) - Cardinality(V)
    BY <1>5, <2>6
  <2>8. Cardinality(U) \in Nat /\ Len(all) \in Nat
    BY <1>2
  <2>. HIDE DEF V
  <2>. QED
    BY <1>6, <2>5, <2>7, <2>8
<1>9. \E kept \in SUBSET accepted : \A i \in accepted : i \in kept <=> Admits(all, kept, budget, i)
  BY <1>7, <1>8
<1>. QED
  BY <1>9, Zenon DEF Kept

-----------------------------------------------------------------------------
(* What the verdict of a validation says of its findings.                  *)

\* The parts of a verdict.
PassingOf(all, manifest, policy) == {i \in DOMAIN all : Passes(all[i], manifest, policy)}
DuplicatesOf(all, manifest, policy, known) == Duplicates(all, PassingOf(all, manifest, policy), known)
AcceptedOf(all, manifest, policy, known) ==
    PassingOf(all, manifest, policy) \ DuplicatesOf(all, manifest, policy, known)
BudgetOf(all, manifest, policy, known) == InlineBudget(all, AcceptedOf(all, manifest, policy, known), policy)

RejectedAre(rejected, reason, failing, duplicates, over) ==
    rejected = {<<reason[i], i>> : i \in failing} \cup {<<"DUPLICATE", i>> : i \in duplicates} \cup over

\* Every finding fails a check, is a duplicate, is over a limit, or is kept.
LEMMA VerdictIs ==
    ASSUME NEW all \in Seq(Finding), NEW manifest, NEW policy, NEW known,
           NEW v, v = ValidateFindings(all, manifest, policy, known)
    PROVE  LET passing == PassingOf(all, manifest, policy)
               duplicates == DuplicatesOf(all, manifest, policy, known)
               accepted == AcceptedOf(all, manifest, policy, known)
           IN  /\ v.evident = passing /\ v.accepted = accepted
               /\ v.kept = Kept(all, accepted, BudgetOf(all, manifest, policy, known))
               /\ v.kept \subseteq accepted
               /\ accepted = passing \ duplicates /\ duplicates \subseteq passing /\ passing \subseteq DOMAIN all
               /\ passing \subseteq v.scope /\ v.scope \subseteq DOMAIN all
<1>. DEFINE passing == PassingOf(all, manifest, policy)
            duplicates == DuplicatesOf(all, manifest, policy, known)
            accepted == AcceptedOf(all, manifest, policy, known)
            kept == Kept(all, accepted, BudgetOf(all, manifest, policy, known))
            rejection == [i \in DOMAIN all \ passing |-> Rejection(all[i], manifest, policy)]
            scope == {i \in DOMAIN all \ passing : rejection[i][1] \notin {"scope", "relation", "grounding"}} \cup passing
<1>1. v = [kept |-> kept, accepted |-> accepted, evident |-> passing, scope |-> scope,
           rejected |-> {<<rejection[i][2], i>> : i \in DOMAIN all \ passing}
                          \cup {<<"DUPLICATE", i>> : i \in duplicates}
                          \cup OverLimit(all, kept, accepted \ kept)]
  BY Zenon DEF ValidateFindings, PassingOf, DuplicatesOf, AcceptedOf, BudgetOf
<1>2. accepted = passing \ duplicates /\ passing \subseteq DOMAIN all
  BY Zenon DEF AcceptedOf, PassingOf
<1>3. duplicates \subseteq passing
  BY DEF DuplicatesOf, Duplicates
<1>4. kept \subseteq accepted
  <2>. HIDE DEF accepted
  <2>1. accepted \in SUBSET DOMAIN all
    BY <1>2
  <2>. QED
    BY <2>1, KeptIs
<1>5. passing \subseteq scope /\ scope \subseteq DOMAIN all
  BY <1>2
<1>. HIDE DEF passing, duplicates, accepted, kept, scope, rejection
<1>8. v.kept = kept /\ v.evident = passing /\ v.accepted = accepted /\ v.scope = scope
  BY <1>1
<1>. QED
  BY <1>2, <1>3, <1>4, <1>5, <1>8 DEF passing, duplicates, accepted, kept, scope

\* Each finding that is not kept is counted with its place.
LEMMA RejectedIs ==
    ASSUME NEW all \in Seq(Finding), NEW manifest, NEW policy, NEW known,
           NEW v, v = ValidateFindings(all, manifest, policy, known)
    PROVE  \E reason : RejectedAre(v.rejected, reason, DOMAIN all \ PassingOf(all, manifest, policy),
                                  DuplicatesOf(all, manifest, policy, known),
                                  OverLimit(all, v.kept, AcceptedOf(all, manifest, policy, known) \ v.kept))
<1>. DEFINE passing == PassingOf(all, manifest, policy)
            duplicates == DuplicatesOf(all, manifest, policy, known)
            accepted == AcceptedOf(all, manifest, policy, known)
            kept == Kept(all, accepted, BudgetOf(all, manifest, policy, known))
            rejection == [i \in DOMAIN all \ passing |-> Rejection(all[i], manifest, policy)]
            reason == [i \in DOMAIN all \ passing |-> rejection[i][2]]
            scope == {i \in DOMAIN all \ passing : rejection[i][1] \notin {"scope", "relation", "grounding"}} \cup passing
<1>1. v = [kept |-> kept, accepted |-> accepted, evident |-> passing, scope |-> scope,
           rejected |-> {<<rejection[i][2], i>> : i \in DOMAIN all \ passing}
                          \cup {<<"DUPLICATE", i>> : i \in duplicates}
                          \cup OverLimit(all, kept, accepted \ kept)]
  BY Zenon DEF ValidateFindings, PassingOf, DuplicatesOf, AcceptedOf, BudgetOf
<1>6. {<<rejection[i][2], i>> : i \in DOMAIN all \ passing} = {<<reason[i], i>> : i \in DOMAIN all \ passing}
  BY DEF PassingOf
<1>. HIDE DEF passing, duplicates, accepted, kept, scope, rejection, reason
<1>7. RejectedAre(v.rejected, reason, DOMAIN all \ passing, duplicates, OverLimit(all, kept, accepted \ kept))
  BY <1>1, <1>6 DEF RejectedAre
<1>8. v.kept = kept
  BY <1>1
<1>. QED
  BY <1>7, <1>8 DEF passing, duplicates, accepted

\* What is over the limits is counted with its place, under one limit and once more.
LEMMA OverLimitIs ==
    ASSUME NEW all, NEW kept, NEW over
    PROVE  /\ \A i \in over : <<"MAX_FINDINGS_EXCEEDED", i>> \in OverLimit(all, kept, over)
           /\ \A r \in OverLimit(all, kept, over) :
                 /\ r[2] \in over /\ r[1] # "DUPLICATE" /\ r = <<r[1], r[2]>>
           /\ over = {} => OverLimit(all, kept, over) = {}
BY DEF OverLimit

-----------------------------------------------------------------------------
(* The numbers of a review.                                                *)

\* Any subset of the findings is finite, and one in another is no larger.
LEMMA Countable ==
    ASSUME NEW all \in Seq(Finding)
    PROVE  /\ IsFiniteSet(DOMAIN all) /\ Cardinality(DOMAIN all) = Len(all) /\ Len(all) \in Nat
           /\ \A S \in SUBSET DOMAIN all : IsFiniteSet(S) /\ Cardinality(S) \in Nat /\ Cardinality(S) <= Len(all)
           /\ \A S \in SUBSET DOMAIN all : \A T \in SUBSET S : Cardinality(T) <= Cardinality(S)
<1>1. Len(all) \in Nat /\ DOMAIN all = 1..Len(all)
  OBVIOUS
<1>2. IsFiniteSet(1..Len(all)) /\ Cardinality(1..Len(all)) = IF 1 > Len(all) THEN 0 ELSE Len(all) - 1 + 1
  BY <1>1, FS_Interval
<1>3. IsFiniteSet(DOMAIN all) /\ Cardinality(DOMAIN all) = Len(all)
  BY <1>1, <1>2
<1>4. \A S \in SUBSET DOMAIN all : IsFiniteSet(S) /\ Cardinality(S) \in Nat /\ Cardinality(S) <= Len(all)
  BY <1>3, FS_Subset, FS_CardinalityType
<1>5. \A S \in SUBSET DOMAIN all : \A T \in SUBSET S : Cardinality(T) <= Cardinality(S)
  BY <1>4, FS_Subset
<1>. QED
  BY <1>1, <1>3, <1>4, <1>5

\* Reasons that each come with another finding are as many as the findings.
LEMMA AsManyReasons ==
    ASSUME NEW S, IsFiniteSet(S), NEW reason
    PROVE  Cardinality({<<reason[i], i>> : i \in S}) = Cardinality(S)
<1>. DEFINE T == {<<reason[i], i>> : i \in S}
            f == [i \in S |-> <<reason[i], i>>]
<1>1. f \in [S -> T] /\ (\A i, j \in S : f[i] = f[j] => i = j) /\ \A t \in T : \E i \in S : f[i] = t
  OBVIOUS
<1>2. f \in Bijection(S, T)
  <2>. HIDE DEF f, T
  <2>. QED
    BY <1>1 DEF Bijection, Injection, Surjection, IsInjective
<1>3. ExistsBijection(S, T)
  BY <1>2 DEF ExistsBijection
<1>. QED
  BY <1>3, FS_Bijection

\* Every finding is kept or has a reason, and the numbers only fail to add up when some
\* finding was over a limit.
LEMMA Accounted ==
    ASSUME NEW all \in Seq(Finding), NEW manifest, NEW policy, NEW known,
           NEW v, v = ValidateFindings(all, manifest, policy, known)
    PROVE  /\ v.kept \cup {r[2] : r \in v.rejected} = DOMAIN all
           /\ v.kept \cap {r[2] : r \in v.rejected} = {}
           /\ v.accepted = v.kept => CountsHold(all, v)
<1>. DEFINE passing == PassingOf(all, manifest, policy)
            duplicates == DuplicatesOf(all, manifest, policy, known)
            accepted == AcceptedOf(all, manifest, policy, known)
            over == accepted \ v.kept
<1>1. /\ v.evident = passing /\ v.accepted = accepted /\ v.kept \subseteq accepted
      /\ accepted = passing \ duplicates /\ duplicates \subseteq passing /\ passing \subseteq DOMAIN all
      /\ passing \subseteq v.scope /\ v.scope \subseteq DOMAIN all
  BY VerdictIs
<1>2. PICK reason : v.rejected = {<<reason[i], i>> : i \in DOMAIN all \ passing}
                                   \cup {<<"DUPLICATE", i>> : i \in duplicates}
                                   \cup OverLimit(all, v.kept, over)
  <2>1. PICK reason : RejectedAre(v.rejected, reason, DOMAIN all \ passing, duplicates, OverLimit(all, v.kept, over))
    BY RejectedIs
  <2>. QED
    BY <2>1 DEF RejectedAre
<1>. HIDE DEF passing, duplicates, accepted
<1>3. {r[2] : r \in v.rejected} = (DOMAIN all \ passing) \cup duplicates \cup over
  <2>1. ASSUME NEW r \in v.rejected PROVE r[2] \in (DOMAIN all \ passing) \cup duplicates \cup over
    BY <1>2, OverLimitIs
  <2>2. ASSUME NEW i \in (DOMAIN all \ passing) \cup duplicates \cup over
        PROVE  \E r \in v.rejected : r[2] = i
    <3>1. CASE i \in DOMAIN all \ passing
      <4>1. <<reason[i], i>> \in v.rejected
        BY <1>2, <3>1
      <4>. QED
        BY <4>1
    <3>2. CASE i \in duplicates
      <4>1. <<"DUPLICATE", i>> \in v.rejected
        BY <1>2, <3>2
      <4>. QED
        BY <4>1
    <3>3. CASE i \in over
      <4>1. <<"MAX_FINDINGS_EXCEEDED", i>> \in v.rejected
        BY <1>2, <3>3, OverLimitIs
      <4>. QED
        BY <4>1
    <3>. QED
      BY <2>2, <3>1, <3>2, <3>3
  <2>. QED
    BY <2>1, <2>2
<1>4. v.kept \cup {r[2] : r \in v.rejected} = DOMAIN all /\ v.kept \cap {r[2] : r \in v.rejected} = {}
  BY <1>1, <1>3
<1>5. ASSUME accepted = v.kept PROVE CountsHold(all, v)
  <2>. DEFINE rest == DOMAIN all \ v.kept
              label == [i \in rest |-> IF i \in passing THEN "DUPLICATE" ELSE reason[i]]
  <2>1. v.rejected = {<<label[i], i>> : i \in rest}
    <3>1. over = {} /\ OverLimit(all, v.kept, over) = {}
      BY <1>5, OverLimitIs
    <3>2. rest = (DOMAIN all \ passing) \cup duplicates /\ duplicates \cap (DOMAIN all \ passing) = {}
      BY <1>1, <1>5
    <3>3. (\A i \in DOMAIN all \ passing : label[i] = reason[i]) /\ \A i \in duplicates : label[i] = "DUPLICATE"
      BY <1>1, <3>2
    <3>4. v.rejected = {<<reason[i], i>> : i \in DOMAIN all \ passing} \cup {<<"DUPLICATE", i>> : i \in duplicates}
      BY <1>2, <3>1
    <3>. HIDE DEF label, rest, over
    <3>. QED
      BY <3>2, <3>3, <3>4
  <2>2. v.kept \in SUBSET DOMAIN all /\ rest \in SUBSET DOMAIN all
    BY <1>1
  <2>3. Cardinality(v.rejected) = Cardinality(rest)
    <3>. HIDE DEF rest, label
    <3>. QED
      BY <2>1, <2>2, Countable, AsManyReasons
  <2>4. Len(all) = Cardinality(v.kept) + Cardinality(rest)
    <3>1. v.kept \cup rest = DOMAIN all /\ v.kept \cap rest = {}
      BY <2>2
    <3>. HIDE DEF rest
    <3>2. Cardinality(v.kept \cup rest) = Cardinality(v.kept) + Cardinality(rest) - Cardinality({})
      BY <2>2, <3>1, Countable, FS_Union
    <3>3. Cardinality({}) = 0
      BY FS_EmptySet
    <3>. QED
      BY <2>2, <3>1, <3>2, <3>3, Countable
  <2>5. NonIncreasing(<<Len(all), Cardinality(v.scope), Cardinality(v.evident), Cardinality(v.accepted), Cardinality(v.kept)>>)
    <3>1. /\ Len(all) >= Cardinality(v.scope)
          /\ Cardinality(v.scope) >= Cardinality(passing)
          /\ Cardinality(passing) >= Cardinality(accepted)
          /\ Cardinality(accepted) >= Cardinality(v.kept)
      BY <1>1, Countable
    <3>. QED
      BY <1>1, <3>1 DEF NonIncreasing
  <2>. QED
    BY <2>3, <2>4, <2>5 DEF CountsHold
<1>. QED
  BY <1>1, <1>4, <1>5

-----------------------------------------------------------------------------
(* What duplicates and limits take away.                                   *)

\* A sequence that is preceded has no greater first element, and none that is greater in
\* the second where the first are the same.
LEMMA FirstOf ==
    ASSUME NEW s \in Seq(Int), NEW t \in Seq(Int), Len(s) = Len(t), Len(s) >= 2, ~Precedes(s, t)
    PROVE  t[1] >= s[1] /\ (t[1] = s[1] => t[2] >= s[2])
<1>1. {1, 2} \subseteq DOMAIN s /\ s[1] \in Int /\ s[2] \in Int /\ t[1] \in Int /\ t[2] \in Int
  OBVIOUS
<1>2. ASSUME s[1] > t[1] PROVE FALSE
  <2>1. \A m \in 1..1 - 1 : s[m] = t[m]
    OBVIOUS
  <2>. QED
    BY <1>1, <1>2, <2>1 DEF Precedes
<1>3. ASSUME s[1] = t[1], s[2] > t[2] PROVE FALSE
  <2>1. \A m \in 1..2 - 1 : s[m] = t[m]
    BY <1>3
  <2>. QED
    BY <1>1, <1>3, <2>1 DEF Precedes
<1>. QED
  BY <1>1, <1>2, <1>3

LEMMA WorstIsKept ==
    ASSUME NEW all \in Seq(Finding), NEW manifest, NEW policy, NEW known,
           NEW v, v = ValidateFindings(all, manifest, policy, known),
           NEW d \in v.evident \ v.accepted, Fingerprint(Placed(all[d])) \notin known
    PROVE  \E i \in v.accepted :
              /\ Fingerprint(Placed(all[i])) = Fingerprint(Placed(all[d]))
              /\ all[i].severity >= all[d].severity
              /\ all[i].severity = all[d].severity => all[i].confidence >= all[d].confidence
<1>. DEFINE passing == PassingOf(all, manifest, policy)
            Twin(j) == Fingerprint(Placed(all[j])) = Fingerprint(Placed(all[d]))
            twins == {j \in passing : Twin(j)}
            key == [j \in twins |-> VisitKey(all, j)]
<1>. DEFINE duplicates == DuplicatesOf(all, manifest, policy, known)
            accepted == AcceptedOf(all, manifest, policy, known)
<1>0. /\ v.evident = passing /\ passing \subseteq DOMAIN all
      /\ v.accepted = accepted /\ accepted = passing \ duplicates
  BY VerdictIs
<1>1. /\ v.evident = passing /\ passing \subseteq DOMAIN all
      /\ v.accepted = passing \ Duplicates(all, passing, known)
  BY <1>0, Zenon DEF DuplicatesOf
<1>. HIDE DEF passing
<1>2. IsFiniteSet(twins) /\ d \in twins /\ twins \subseteq passing /\ twins \subseteq DOMAIN all
  BY <1>1, Countable
<1>. HIDE DEF twins
<1>3. \A j \in twins : key[j] \in Seq(Int) /\ Len(key[j]) = 4 /\ key[j] = VisitKey(all, j)
  BY <1>2, VisitKeyIs
<1>4. PICK t \in twins : \A j \in twins : ~Precedes(key[j], key[t])
  <2>1. twins # {} /\ 4 \in Nat /\ \A j \in twins : key[j] \in Seq(Int) /\ Len(key[j]) = 4
    BY <1>2, <1>3
  <2>. HIDE DEF key
  <2>. QED
    BY <1>2, <2>1, TopOf
<1>. HIDE DEF key
<1>5. Twin(t) /\ \A j \in passing : Twin(j) => ~Precedes(VisitKey(all, j), VisitKey(all, t))
  BY <1>3, <1>4 DEF twins
<1>6. t \notin Duplicates(all, passing, known)
  BY <1>5 DEF Duplicates
<1>7. t \in v.accepted
  BY <1>1, <1>2, <1>6
<1>8. VisitKey(all, t)[1] >= VisitKey(all, d)[1]
        /\ (VisitKey(all, t)[1] = VisitKey(all, d)[1] => VisitKey(all, t)[2] >= VisitKey(all, d)[2])
  <2>1. /\ VisitKey(all, t) \in Seq(Int) /\ VisitKey(all, d) \in Seq(Int)
        /\ Len(VisitKey(all, d)) = Len(VisitKey(all, t)) /\ Len(VisitKey(all, d)) >= 2
    <3>1. t \in DOMAIN all /\ d \in DOMAIN all
      BY <1>2
    <3>. QED
      BY <3>1, VisitKeyIs
  <2>2. ~Precedes(VisitKey(all, d), VisitKey(all, t))
    BY <1>2, <1>3, <1>4
  <2>. QED
    BY <2>1, <2>2, FirstOf
<1>9. /\ all[t].severity >= all[d].severity
      /\ all[t].severity = all[d].severity => all[t].confidence >= all[d].confidence
  <2>1. t \in DOMAIN all /\ d \in DOMAIN all
    BY <1>2
  <2>. QED
    BY <1>8, <2>1, VisitKeyIs
<1>. QED
  BY <1>5, <1>7, <1>9

\* A MUST_FIX scores more than what is less severe, or as severe and of another type.
LEMMA MustFixScores ==
    ASSUME NEW f \in Finding, NEW g \in Finding, f.type = "MUST_FIX",
           100 * g.severity + 10 * TypeOrder[g.type] + Bonus(g)
              >= 100 * f.severity + 10 * TypeOrder[f.type] + Bonus(f)
    PROVE  g.severity > f.severity \/ (g.severity = f.severity /\ g.type = "MUST_FIX")
<1>1. /\ g.severity \in Int /\ f.severity \in Int
      /\ TypeOrder[f.type] = 5 /\ TypeOrder[g.type] \in 1..5
      /\ g.type # "MUST_FIX" => TypeOrder[g.type] <= 4
  BY DEF Finding, LOW, CRITICAL, TypeOrder
<1>2. Bonus(f) \in 0..5 /\ Bonus(g) \in 0..5
  BY DEF Bonus
<1>. QED
  BY <1>1, <1>2

LEMMA BudgetKeeps ==
    ASSUME NEW all \in Seq(Finding), NEW manifest, NEW policy, NEW known,
           policy.inline \in Nat, policy.findings \in Nat,
           NEW v, v = ValidateFindings(all, manifest, policy, known),
           NEW i \in v.accepted \ v.kept, NEW j \in Lines(all, v.kept), all[i].type = "MUST_FIX"
    PROVE  \/ all[j].severity > all[i].severity
           \/ all[j].severity = all[i].severity /\ all[j].type = "MUST_FIX"
<1>. DEFINE accepted == AcceptedOf(all, manifest, policy, known)
            budget == BudgetOf(all, manifest, policy, known)
            Higher(a, b) == Precedes(Rank(all, a), Rank(all, b))
            Above(a) == Lines(all, Ahead(all, v.kept, a))
<1>1. /\ v.accepted = accepted /\ v.kept = Kept(all, accepted, budget)
      /\ v.kept \subseteq accepted /\ accepted \in SUBSET DOMAIN all
  <2>1. /\ v.accepted = accepted /\ v.kept = Kept(all, accepted, budget) /\ v.kept \subseteq accepted
        /\ accepted \subseteq PassingOf(all, manifest, policy) /\ PassingOf(all, manifest, policy) \subseteq DOMAIN all
    BY VerdictIs
  <2>. HIDE DEF accepted
  <2>. QED
    BY <2>1
<1>2. budget \in Int
  BY FindingsAssumption DEF BudgetOf, InlineBudget, Least
<1>. HIDE DEF accepted, budget
<1>3. \A a \in accepted : a \in v.kept <=> Admits(all, v.kept, budget, a)
  BY <1>1, KeptIs
<1>4. ~Admits(all, v.kept, budget, i) /\ Admits(all, v.kept, budget, j) /\ all[j].scope = "LINE"
  BY <1>1, <1>3 DEF Lines
<1>5. ~(Cardinality(Above(i)) < budget) /\ Cardinality(Above(j)) < budget
  BY <1>4 DEF Admits
<1>6. i \in DOMAIN all /\ j \in DOMAIN all /\ i # j /\ v.kept \subseteq DOMAIN all
  BY <1>1 DEF Lines
<1>7. Higher(j, i)
  <2>. SUFFICES ASSUME ~Higher(j, i) PROVE FALSE
    OBVIOUS
  <2>1. Rank(all, i)[8] # Rank(all, j)[8]
    BY <1>6, RankIs
  <2>2. Higher(i, j)
    <3>1. /\ Rank(all, i) \in Seq(Int) /\ Rank(all, j) \in Seq(Int)
          /\ Len(Rank(all, i)) = 8 /\ Len(Rank(all, j)) = 8
      BY <1>6, RankIs
    <3>2. Len(Rank(all, i)) = Len(Rank(all, j)) /\ 8 \in 1..Len(Rank(all, i))
      BY <3>1
    <3>. QED
      BY <2>1, <3>1, <3>2, PrecedesTotal
  <2>3. Above(i) \subseteq Above(j)
    <3>1. ASSUME NEW k \in v.kept, Higher(k, i) PROVE Higher(k, j)
      BY <1>6, <2>2, <3>1, RankIs, PrecedesTransitive, ZenonT(30)
    <3>. QED
      BY <3>1 DEF Lines, Ahead
  <2>4. Above(j) \subseteq DOMAIN all
    BY <1>6 DEF Lines, Ahead
  <2>. HIDE DEF Above
  <2>5. Cardinality(Above(i)) \in Nat /\ Cardinality(Above(j)) \in Nat /\ Cardinality(Above(i)) <= Cardinality(Above(j))
    BY <2>3, <2>4, Countable
  <2>. QED
    BY <1>2, <1>5, <2>5
<1>8. Rank(all, j)[1] >= Rank(all, i)[1]
  <2>1. ~Precedes(Rank(all, i), Rank(all, j))
    BY <1>6, <1>7, RankIs, PrecedesTransitive, PrecedesIrreflexive, ZenonT(30)
  <2>2. /\ Rank(all, i) \in Seq(Int) /\ Rank(all, j) \in Seq(Int)
        /\ Len(Rank(all, i)) = Len(Rank(all, j)) /\ Len(Rank(all, i)) >= 2
    BY <1>6, RankIs
  <2>. QED
    BY <2>1, <2>2, FirstOf
<1>9. all[i] \in Finding /\ all[j] \in Finding
  BY <1>6
<1>. QED
  BY <1>6, <1>8, <1>9, RankIs, MustFixScores

-----------------------------------------------------------------------------
(* Where comments stand.                                                   *)

\* The counters move by one at the lines of their kinds.
LEMMA BeforeIs ==
    ASSUME NEW file \in FileDiff, NEW kinds
    PROVE  /\ Before(file, 1, kinds) = 0
           /\ \A k \in DOMAIN file.hunk :
                 /\ Before(file, k, kinds) \in Nat
                 /\ Before(file, k + 1, kinds) = Before(file, k, kinds) + (IF file.hunk[k] \in kinds THEN 1 ELSE 0)
<1>. DEFINE Up(k) == {m \in 1..k - 1 : file.hunk[m] \in kinds}
<1>1. \A k \in Nat : IsFiniteSet(Up(k)) /\ Cardinality(Up(k)) \in Nat
  <2>. SUFFICES ASSUME NEW k \in Nat PROVE IsFiniteSet(Up(k)) /\ Cardinality(Up(k)) \in Nat
    OBVIOUS
  <2>1. IsFiniteSet(1..k - 1)
    BY FS_Interval
  <2>. QED
    BY <2>1, FS_Subset, FS_CardinalityType
<1>2. Up(1) = {}
  OBVIOUS
<1>3. ASSUME NEW k \in DOMAIN file.hunk
      PROVE  Cardinality(Up(k + 1)) = Cardinality(Up(k)) + (IF file.hunk[k] \in kinds THEN 1 ELSE 0)
  <2>1. k \in Nat /\ k >= 1 /\ 1..(k + 1) - 1 = (1..k - 1) \cup {k}
    BY DEF FileDiff
  <2>2. Up(k + 1) = (IF file.hunk[k] \in kinds THEN Up(k) \cup {k} ELSE Up(k)) /\ k \notin Up(k)
    BY <2>1
  <2>. HIDE DEF Up
  <2>3. IsFiniteSet(Up(k)) /\ Cardinality(Up(k)) \in Nat
    BY <1>1, <2>1
  <2>4. k \notin Up(k) => Cardinality(Up(k) \cup {k}) = Cardinality(Up(k)) + 1
    BY <2>3, FS_AddElement
  <2>. QED
    BY <2>2, <2>3, <2>4
<1>4. \A k \in DOMAIN file.hunk : k \in Nat
  BY DEF FileDiff
<1>. QED
  BY <1>1, <1>2, <1>3, <1>4, FS_EmptySet DEF Before

\* In a hunk without lines that count twice the number of a recorded line is that of a line
\* which is added, although it may be another one.
LEMMA RecordedIsAdded ==
    ASSUME NEW file \in FileDiff, "split" \notin Range(file.hunk), NEW k \in LinesOf(file, Recorded)
    PROVE  \E m \in LinesOf(file, Added) : InFile(file, m) = RecordedAt(file, k)
<1>. DEFINE c == Before(file, k, Recorded)
            A(m) == Before(file, m, Added)
<1>1. /\ Len(file.hunk) \in Nat /\ DOMAIN file.hunk = 1..Len(file.hunk) /\ file.start \in Nat
      /\ k \in 1..Len(file.hunk) /\ file.hunk[k] \in Added
  BY DEF FileDiff, LinesOf, Recorded, Added
<1>2. c \in Nat /\ A(1) = 0
  BY <1>1, BeforeIs
<1>3. \A m \in 1..Len(file.hunk) : A(m) \in Nat /\ A(m + 1) = A(m) + (IF file.hunk[m] \in Added THEN 1 ELSE 0)
  BY <1>1, BeforeIs
<1>4. c <= A(k)
  <2>. DEFINE R == {m \in 1..k - 1 : file.hunk[m] \in Recorded}
              T == {m \in 1..k - 1 : file.hunk[m] \in Added}
  <2>1. R \subseteq T
    BY DEF Recorded, Added
  <2>2. IsFiniteSet(1..k - 1) /\ T \subseteq 1..k - 1
    <3>1. 1 \in Int /\ k - 1 \in Int
      BY <1>1
    <3>. QED
      BY <3>1, FS_Interval
  <2>. HIDE DEF R, T
  <2>3. Cardinality(R) <= Cardinality(T)
    BY <2>1, <2>2, FS_Subset
  <2>. QED
    BY <2>3 DEF Before, R, T
<1>5. Before(file, k, {"split"}) = 0
  <2>1. {m \in 1..k - 1 : file.hunk[m] \in {"split"}} = {}
    BY <1>1 DEF Range
  <2>. QED
    BY <2>1, FS_EmptySet DEF Before
<1>6. RecordedAt(file, k) = file.start + c
  BY <1>1, <1>2, <1>5 DEF RecordedAt, Counted
<1>. HIDE DEF c, A
<1>. DEFINE S == {m \in 1..k : A(m + 1) > c}
<1>7. k \in S
  BY <1>1, <1>2, <1>3, <1>4
<1>8. PICK m \in S : \A n \in S : m <= n
  <2>1. S \in SUBSET Nat /\ S # {}
    BY <1>7
  <2>. HIDE DEF S
  <2>. QED
    BY <2>1, LeastNumber
<1>9. A(m) <= c
  <2>1. CASE m = 1
    BY <1>2, <2>1
  <2>2. CASE m # 1
    <3>0. m \in 1..k /\ m - 1 \in 1..k /\ (m - 1) + 1 = m /\ ~(m <= m - 1)
      BY <1>1, <2>2
    <3>1. m - 1 \in 1..k /\ m - 1 \notin S /\ (m - 1) + 1 = m
      BY <1>8, <3>0
    <3>2. A(m) \in Nat
      BY <1>1, <1>3, <1>8
    <3>. QED
      BY <1>2, <3>1, <3>2
  <2>. QED
    BY <2>1, <2>2
<1>10. m \in 1..Len(file.hunk) /\ file.hunk[m] \in Added /\ A(m) = c
  BY <1>1, <1>2, <1>3, <1>8, <1>9
<1>. QED
  BY <1>1, <1>6, <1>10 DEF InFile, LinesOf, A

\* The lines of the manifest of a diff that the parser reads as git means it are added.
LEMMA ManifestAdds ==
    ASSUME NEW diff \in Seq(FileDiff), Plain(diff), NEW patterns,
           NEW manifest, manifest = ParseUnifiedDiff(diff, patterns),
           NEW p \in DOMAIN manifest, NEW l \in manifest[p]
    PROVE  <<p, l>> \in AddedPlaces(diff)
<1>. DEFINE saved == Saved(diff, patterns)
            For == {k \in saved : NormalizePath(diff[k].path) = p}
            last == CHOOSE k \in For : \A n \in For : n <= k
<1>1. p \in {NormalizePath(diff[k].path) : k \in saved} /\ l \in UNION {ParsedLines(diff[n]) : n \in Section(diff, last)}
  BY Zenon DEF ParseUnifiedDiff
<1>2. saved \subseteq DOMAIN diff
  BY DEF Saved
<1>. HIDE DEF saved
<1>3. last \in For
  <2>. DEFINE Left == {Len(diff) - k : k \in For}
  <2>1. Left \in SUBSET Nat /\ Left # {}
    BY <1>1, <1>2
  <2>2. PICK x \in Left : \A y \in Left : x <= y
    <3>. HIDE DEF Left
    <3>. QED
      BY <2>1, LeastNumber
  <2>3. PICK k \in For : x = Len(diff) - k
    BY <2>2
  <2>4. \A n \in For : n <= k
    <3>. SUFFICES ASSUME NEW n \in For PROVE n <= k
      OBVIOUS
    <3>1. Len(diff) - k <= Len(diff) - n
      BY <2>2, <2>3
    <3>2. n \in Int /\ k \in Int /\ Len(diff) \in Int
      BY <1>2
    <3>. QED
      BY <3>1, <3>2
  <2>5. \E i \in For : \A n \in For : n <= i
    BY <2>4
  <2>. HIDE DEF For
  <2>. QED
    BY <2>5
<1>. HIDE DEF last
<1>4. last \in 1..Len(diff) /\ diff[last].path = p /\ diff[last] \in FileDiff /\ "split" \notin Range(diff[last].hunk)
  BY <1>2, <1>3 DEF Plain
<1>5. Section(diff, last) \subseteq {last}
  BY <1>4 DEF Section, Plain
<1>6. PICK k \in LinesOf(diff[last], Recorded) : l = RecordedAt(diff[last], k)
  BY <1>1, <1>5 DEF ParsedLines
<1>7. PICK m \in LinesOf(diff[last], Added) : InFile(diff[last], m) = l
  BY <1>4, <1>6, RecordedIsAdded
<1>. QED
  BY <1>4, <1>7 DEF AddedPlaces

\* The elements of two sequences that are joined.
LEMMA Behind ==
    ASSUME NEW S, NEW s \in Seq(S), NEW t \in Seq(S), NEW i \in DOMAIN t
    PROVE  s \o t \in Seq(S) /\ Len(s) + i \in DOMAIN (s \o t) /\ (s \o t)[Len(s) + i] = t[i]
OBVIOUS

LEMMA InFront ==
    ASSUME NEW S, NEW s \in Seq(S), NEW t \in Seq(S)
    PROVE  s \o t \in Seq(S) /\ \A i \in DOMAIN s : i \in DOMAIN (s \o t) /\ (s \o t)[i] = s[i]
OBVIOUS

\* A finding for a line that passes names a line of the manifest.
LEMMA PassesLine ==
    ASSUME NEW f, NEW manifest, NEW policy, Passes(f, manifest, policy), f.scope = "LINE"
    PROVE  NormalizePath(f.path) \in DOMAIN manifest /\ f.line \in manifest[NormalizePath(f.path)]
<1>. DEFINE g == Grounding(f, manifest)
            l == Location(f, manifest)
            p == Policy(f, policy)
            e == Evidence(f)
            S == {g[i] : i \in 1..9} \cup {l[i] : i \in 1..7} \cup {p[i] : i \in 1..7} \cup {e[i] : i \in 1..3}
<1>1. g \in Seq(S) /\ Len(g) = 9
  <2>1. g = [i \in 1..9 |-> g[i]]
    BY DEF Grounding
  <2>. HIDE DEF g
  <2>. QED
    BY <2>1
<1>2. l \in Seq(S) /\ Len(l) = 7
  <2>1. l = [i \in 1..7 |-> l[i]]
    BY DEF Location
  <2>. HIDE DEF l
  <2>. QED
    BY <2>1
<1>3. p \in Seq(S)
  <2>1. p = [i \in 1..7 |-> p[i]]
    BY DEF Policy
  <2>. HIDE DEF p
  <2>. QED
    BY <2>1
<1>4. e \in Seq(S)
  <2>1. e = [i \in 1..3 |-> e[i]]
    BY DEF Evidence
  <2>. HIDE DEF e
  <2>. QED
    BY <2>1
<1>5. \A i \in 1..7 : ~l[i][3]
  <2>. HIDE DEF S, g, l, p, e
  <2>1. ChecksOf(f, manifest, policy) = g \o l \o p \o e
    BY DEF ChecksOf, g, l, p, e
  <2>2. ASSUME NEW i \in 1..7 PROVE 9 + i \in DOMAIN (g \o l \o p \o e) /\ (g \o l \o p \o e)[9 + i] = l[i]
    <3>1. g \o l \in Seq(S) /\ 9 + i \in DOMAIN (g \o l) /\ (g \o l)[9 + i] = l[i]
      <4>1. i \in DOMAIN l /\ g \in Seq(S) /\ l \in Seq(S)
        BY <1>1, <1>2
      <4>2. g \o l \in Seq(S) /\ Len(g) + i \in DOMAIN (g \o l) /\ (g \o l)[Len(g) + i] = l[i]
        BY <4>1, Behind
      <4>. QED
        BY <1>1, <4>2, Zenon
    <3>2. g \o l \o p \in Seq(S) /\ 9 + i \in DOMAIN (g \o l \o p) /\ (g \o l \o p)[9 + i] = l[i]
      BY <1>3, <3>1, InFront
    <3>. QED
      BY <1>4, <3>2, InFront
  <2>. QED
    BY <2>1, <2>2 DEF Passes
<1>6. ~l[3][3] /\ ~l[5][3] /\ ~l[7][3]
  BY <1>5
<1>. QED
  BY <1>6 DEF Location

-----------------------------------------------------------------------------
(* The review.                                                             *)

\* What each phase of the review knows of the ones before it.
FindingsInv ==
    /\ review.phase \in Phases
    /\ review.phase # "none" => review.diff \in Diffs /\ changed = ParseUnifiedDiff(review.diff, Ignored)
    /\ raw \in Seq(Finding)
    /\ IF Validated
       THEN /\ verdict = ValidateFindings(raw, changed, review.policy, review.known)
            /\ review.phase = "miscounted" => ~CountsHold(raw, verdict)
       ELSE verdict = NoVerdict
    /\ IF review.phase = "published"
       THEN /\ posted.comments \subseteq Inline /\ posted.summary \subseteq verdict.kept
            /\ posted.fallback \in BOOLEAN
            /\ posted.fallback => ~(Inline \subseteq AddedPlaces(review.diff))
       ELSE posted = [comments |-> {}, summary |-> {}, fallback |-> FALSE]

\* What the wire model makes of a finding is a finding.
LEMMA DecodedFinding == ASSUME NEW f \in Finding PROVE Decoded(f) \in Finding
<1>. DEFINE more == (IF f.scope = "LINE" /\ "null side" \notin f.has THEN {"side"} ELSE {})
                      \cup (IF "fix" \in f.has THEN {"action"} ELSE {})
<1>1. Decoded(f) = [f EXCEPT !.has = f.has \cup more]
  BY DEF Decoded, Finding
<1>2. more \in SUBSET Texts
  BY DEF Texts
<1>. HIDE DEF more
<1>. QED
  BY <1>1, <1>2 DEF Finding

\* A step of the system is one of the review or leaves it alone.
LEMMA FindingsFrame ==
    [Next]_vars => \/ Fetch(ReviewPolicyOf(global, repository), Ignored)
                   \/ FindingsSteps
                   \/ UNCHANGED findings
<1>. SUFFICES ASSUME [Next]_vars
              PROVE  Fetch(ReviewPolicyOf(global, repository), Ignored) \/ FindingsSteps \/ UNCHANGED findings
  OBVIOUS
<1>1. CASE Administration
  BY <1>1 DEF Administration
<1>2. CASE Sending
  BY <1>2 DEF Sending
<1>3. CASE Handling
  BY <1>3 DEF Handling
<1>4. CASE Reviewing
  BY <1>4 DEF Reviewing
<1>5. CASE Watching
  BY <1>5 DEF Watching
<1>6. CASE \E j \in DOMAIN jobs : Working(j)
  <2>1. PICK j \in DOMAIN jobs : Working(j)
    BY <1>6
  <2>2. CASE Starting(j)
    BY <2>2 DEF Starting
  <2>3. CASE Ending(j)
    BY <2>3 DEF Ending
  <2>4. CASE (Claim(j) \/ Tell(j)) /\ UNCHANGED <<findings, case>>
    BY <2>4
  <2>. QED
    BY <2>1, <2>2, <2>3, <2>4 DEF Working
<1>7. CASE UNCHANGED vars
  BY <1>7 DEF vars
<1>. QED
  BY <1>1, <1>2, <1>3, <1>4, <1>5, <1>6, <1>7 DEF Next

LEMMA FetchStep == ASSUME FindingsInv, NEW policy, Fetch(policy, Ignored) PROVE FindingsInv'
<1>1. PICK diff \in Diffs :
          /\ changed' = ParseUnifiedDiff(diff, Ignored)
          /\ review'.diff = diff /\ review'.phase \in {"refused", "fetched"}
  BY DEF Fetch
<1>2. review.phase = "none" /\ UNCHANGED <<raw, verdict, posted>>
  BY DEF Fetch
<1>3. ~Validated /\ ~Validated' /\ review'.phase # "published" /\ review'.phase \in Phases
  BY <1>1, <1>2 DEF Validated, Phases
<1>. QED
  BY <1>1, <1>2, <1>3, Zenon DEF FindingsInv

LEMMA AnswerStep == ASSUME FindingsInv, Answer PROVE FindingsInv'
<1>1. PICK output \in Outputs[review.diff] : raw' = [k \in DOMAIN output |-> Decoded(output[k])]
  BY DEF Answer
<1>2. /\ review.phase = "fetched" /\ review'.phase = "answered" /\ review'.diff = review.diff
      /\ UNCHANGED <<changed, verdict, posted>>
  BY DEF Answer, FindingsInv
<1>3. output \in Seq(Finding)
  BY <1>1, <1>2, FindingsAssumption DEF FindingsInv
<1>4. raw' \in Seq(Finding)
  BY <1>1, <1>3, DecodedFinding
<1>5. ~Validated /\ ~Validated' /\ review'.phase # "published" /\ review'.phase \in Phases /\ review'.phase # "none"
  BY <1>2 DEF Validated, Phases
<1>6. review.phase # "none" /\ review.phase # "published"
  BY <1>2
<1>. QED
  BY <1>2, <1>4, <1>5, <1>6, Zenon DEF FindingsInv

LEMMA ValidateStep == ASSUME FindingsInv, Validate PROVE FindingsInv'
<1>1. PICK known \in Known :
          /\ verdict' = ValidateFindings(raw, changed, review.policy, known)
          /\ review'.known = known
          /\ review'.phase = IF CountsHold(raw, verdict') THEN "validated" ELSE "miscounted"
          /\ review'.diff = review.diff /\ review'.policy = review.policy
  BY DEF Validate
<1>2. review.phase = "answered" /\ UNCHANGED <<changed, raw, posted>>
  BY DEF Validate
<1>3. Validated' /\ review'.phase \in Phases /\ review'.phase # "published" /\ review'.phase # "none"
  BY <1>1 DEF Validated, Phases
<1>4. review'.phase = "miscounted" => ~CountsHold(raw', verdict')
  BY <1>1, <1>2
<1>5. verdict' = ValidateFindings(raw', changed', review'.policy, review'.known)
  BY <1>1, <1>2, Zenon
<1>6. review.phase # "none" /\ review.phase # "published"
  BY <1>2
<1>. QED
  BY <1>1, <1>2, <1>3, <1>4, <1>5, <1>6, Zenon DEF FindingsInv

LEMMA PublishStep == ASSUME FindingsInv, Publish PROVE FindingsInv'
<1>1. PICK refused \in BOOLEAN :
          /\ refused => ~(Inline \subseteq AddedPlaces(review.diff))
          /\ posted'.comments \subseteq Inline /\ posted'.summary \subseteq verdict.kept
          /\ posted'.fallback = refused
  BY DEF Publish
<1>2. /\ review.phase = "validated" /\ UNCHANGED <<changed, raw, verdict>>
      /\ review' = [review EXCEPT !.phase = "published"]
  BY DEF Publish
<1>3. review'.phase = "published" /\ review'.diff = review.diff
      /\ review'.policy = review.policy /\ review'.known = review.known
  BY <1>2
<1>4. Validated /\ Validated' /\ review'.phase \in Phases /\ review'.phase # "none" /\ review'.phase # "miscounted"
  BY <1>2, <1>3 DEF Validated, Phases
<1>5. Inline' = Inline
  BY <1>2 DEF Inline
<1>6. review.phase # "none"
  BY <1>2
<1>. QED
  BY <1>1, <1>2, <1>3, <1>4, <1>5, <1>6, Zenon DEF FindingsInv

LEMMA FindingsStep == ASSUME FindingsInv, [Next]_vars PROVE FindingsInv'
<1>1. CASE UNCHANGED findings
  BY <1>1 DEF findings, FindingsInv, Validated, Inline
<1>. QED
  BY <1>1, FindingsFrame, FetchStep, AnswerStep, ValidateStep, PublishStep DEF FindingsSteps

LEMMA FindingsInvariant == Spec => []FindingsInv
<1>1. Init => FindingsInv
  BY DEF Init, FindingsInit, FindingsInv, Phases, Validated
<1>2. FindingsInv /\ [Next]_vars => FindingsInv'
  BY FindingsStep
<1>. QED
  BY <1>1, <1>2, PTL DEF Spec

-----------------------------------------------------------------------------
(* Theorems.                                                               *)

\* Whatever the model answers, each of its findings is published or rejected for a
\* reason, and a review only fails on its numbers when findings were over its limits
\* (app/review/validator.py, app/review/diagnostics.py).
THEOREM EveryFindingAccountedHolds == Spec => []EveryFindingAccounted
<1>1. FindingsInv => EveryFindingAccounted
  <2>. SUFFICES ASSUME FindingsInv, Validated
                PROVE  /\ verdict.kept \cup Dropped = DOMAIN raw
                       /\ verdict.kept \cap Dropped = {}
                       /\ review.phase = "miscounted" => verdict.accepted # verdict.kept
    BY DEF EveryFindingAccounted
  <2>1. /\ verdict = ValidateFindings(raw, changed, review.policy, review.known) /\ raw \in Seq(Finding)
        /\ review.phase = "miscounted" => ~CountsHold(raw, verdict)
    BY DEF FindingsInv
  <2>2. /\ verdict.kept \cup {r[2] : r \in verdict.rejected} = DOMAIN raw
        /\ verdict.kept \cap {r[2] : r \in verdict.rejected} = {}
        /\ verdict.accepted = verdict.kept => CountsHold(raw, verdict)
    BY <2>1, Accounted
  <2>. QED
    BY <2>1, <2>2 DEF Dropped
<1>. QED
  BY <1>1, FindingsInvariant, PTL

\* A finding that is dropped as a duplicate within a review leaves a twin that is no
\* weaker (app/review/validator.py, app/review/deduplicator.py).
THEOREM DuplicateKeepsWorstHolds == Spec => []DuplicateKeepsWorst
<1>1. FindingsInv => DuplicateKeepsWorst
  <2>. SUFFICES ASSUME FindingsInv, Validated, NEW d \in verdict.evident \ verdict.accepted,
                       Fingerprint(Placed(raw[d])) \notin review.known
                PROVE  \E i \in verdict.accepted :
                          /\ Fingerprint(Placed(raw[i])) = Fingerprint(Placed(raw[d]))
                          /\ raw[i].severity >= raw[d].severity
                          /\ raw[i].severity = raw[d].severity => raw[i].confidence >= raw[d].confidence
    BY DEF DuplicateKeepsWorst
  <2>1. verdict = ValidateFindings(raw, changed, review.policy, review.known) /\ raw \in Seq(Finding)
    BY DEF FindingsInv
  <2>. QED
    BY <2>1, WorstIsKept
<1>. QED
  BY <1>1, FindingsInvariant, PTL

\* Where the parser reads the diff as git means it, the comments of a review stand on
\* lines that the pull request adds, and GitHub has no cause to refuse it
\* (app/review/diff.py, app/review/publisher.py, app/review/service.py).
THEOREM CommentsOnAddedLinesHolds == Spec => []CommentsOnAddedLines
<1>1. FindingsInv => CommentsOnAddedLines
  <2>. SUFFICES ASSUME FindingsInv, review.phase = "published", Plain(review.diff)
                PROVE  posted.comments \subseteq AddedPlaces(review.diff) /\ ~posted.fallback
    BY DEF CommentsOnAddedLines
  <2>1. /\ verdict = ValidateFindings(raw, changed, review.policy, review.known) /\ raw \in Seq(Finding)
        /\ changed = ParseUnifiedDiff(review.diff, Ignored)
        /\ posted.comments \subseteq Inline
        /\ posted.fallback => ~(Inline \subseteq AddedPlaces(review.diff))
    BY DEF FindingsInv, Validated
  <2>2. review.diff \in Seq(FileDiff)
    BY FindingsAssumption DEF FindingsInv
  <2>3. ASSUME NEW i \in Lines(raw, verdict.kept) PROVE Place(raw[i]) \in AddedPlaces(review.diff)
    <3>1. i \in PassingOf(raw, changed, review.policy) /\ raw[i].scope = "LINE"
      BY <2>1, VerdictIs DEF Lines
    <3>2. /\ NormalizePath(raw[i].path) \in DOMAIN changed
          /\ raw[i].line \in changed[NormalizePath(raw[i].path)]
      BY <3>1, PassesLine DEF PassingOf
    <3>3. <<NormalizePath(raw[i].path), raw[i].line>> \in AddedPlaces(review.diff)
      BY <2>1, <2>2, <3>2, ManifestAdds
    <3>. QED
      BY <3>3 DEF Place
  <2>4. Inline \subseteq AddedPlaces(review.diff)
    BY <2>3 DEF Inline
  <2>. QED
    BY <2>1, <2>4
<1>. QED
  BY <1>1, FindingsInvariant, PTL

-----------------------------------------------------------------------------
(* The budget.                                                             *)

\* The columns resolve to numbers.
BudgetInv == review.phase # "none" => review.policy.inline \in Nat /\ review.policy.findings \in Nat

LEMMA ResolvedBudget ==
    ASSUME ColumnsInv
    PROVE  /\ ReviewPolicyOf(global, repository).inline \in Nat
           /\ ReviewPolicyOf(global, repository).findings \in Nat
<1>1. {"profile", "inline", "findings"} \subseteq GlobalFields /\ "inline" \notin Quality
  BY DEF GlobalFields, Switches, Quality
<1>2. \A f \in {"profile", "inline", "findings"} :
          global.values[f] \in Column(f) /\ (repository.values[f] # None => repository.values[f] \in Column(f))
  BY <1>1 DEF ColumnsInv, ColumnsHold
<1>3. Column("inline") \subseteq Nat /\ Column("findings") \subseteq Nat /\ Column("profile") = DOMAIN ProfileDefaults
  BY DEF Column, Switches
<1>4. \A p \in DOMAIN ProfileDefaults : ProfileDefaults[p]["findings"] \in Nat
  BY DEF ProfileDefaults
<1>5. Chosen(global, repository, "inline") \in Nat
  BY <1>1, <1>2, <1>3 DEF Chosen
<1>6. Chosen(global, repository, "findings") \in Nat
  BY <1>2, <1>3, <1>4 DEF Chosen
<1>. QED
  BY <1>1, <1>5, <1>6 DEF ReviewPolicyOf, Effective

LEMMA BudgetInvariant == Spec => []BudgetInv
<1>1. Init => BudgetInv
  BY DEF Init, FindingsInit, BudgetInv
<1>2. ColumnsInv /\ BudgetInv /\ [Next]_vars => BudgetInv'
  <2>. SUFFICES ASSUME ColumnsInv, BudgetInv, [Next]_vars PROVE BudgetInv'
    OBVIOUS
  <2>1. CASE Fetch(ReviewPolicyOf(global, repository), Ignored)
    <3>1. review'.policy = ReviewPolicyOf(global, repository)
      BY <2>1 DEF Fetch
    <3>. QED
      BY <3>1, ResolvedBudget DEF BudgetInv
  <2>2. CASE FindingsSteps
    <3>1. Answer => review.phase # "none" /\ review'.policy = review.policy
      BY DEF Answer
    <3>2. Validate => review.phase # "none" /\ review'.policy = review.policy
      BY DEF Validate
    <3>3. Publish => review.phase # "none" /\ review'.policy = review.policy
      BY DEF Publish
    <3>. QED
      BY <2>2, <3>1, <3>2, <3>3 DEF FindingsSteps, BudgetInv
  <2>3. CASE UNCHANGED findings
    BY <2>3 DEF BudgetInv, findings
  <2>. QED
    BY <2>1, <2>2, <2>3, FindingsFrame
<1>. QED
  BY <1>1, <1>2, ColumnsInvariant, PTL DEF Spec

\* The budget for inline comments never drops a MUST_FIX for a finding that is worth
\* less (app/review/validator.py).
THEOREM BudgetKeepsDefectsHolds == Spec => []BudgetKeepsDefects
<1>1. FindingsInv /\ BudgetInv => BudgetKeepsDefects
  <2>. SUFFICES ASSUME FindingsInv, BudgetInv, Validated,
                       NEW i \in verdict.accepted \ verdict.kept, NEW j \in Lines(raw, verdict.kept),
                       raw[i].type = "MUST_FIX"
                PROVE  \/ raw[j].severity > raw[i].severity
                       \/ raw[j].severity = raw[i].severity /\ raw[j].type = "MUST_FIX"
    BY DEF BudgetKeepsDefects
  <2>1. /\ verdict = ValidateFindings(raw, changed, review.policy, review.known) /\ raw \in Seq(Finding)
        /\ review.policy.inline \in Nat /\ review.policy.findings \in Nat
    BY DEF FindingsInv, BudgetInv, Validated
  <2>. QED
    BY <2>1, BudgetKeeps
<1>. QED
  BY <1>1, FindingsInvariant, BudgetInvariant, PTL

-----------------------------------------------------------------------------
(* Types.                                                                  *)

\* The numbers of the manifest are lines.
LEMMA ManifestNumbers ==
    ASSUME NEW diff \in Seq(FileDiff), NEW patterns,
           NEW manifest, manifest = ParseUnifiedDiff(diff, patterns), NEW p \in DOMAIN manifest
    PROVE  manifest[p] \subseteq Nat
<1>. DEFINE saved == Saved(diff, patterns)
            For == {k \in saved : NormalizePath(diff[k].path) = p}
            last == CHOOSE k \in For : \A n \in For : n <= k
<1>1. p \in {NormalizePath(diff[k].path) : k \in saved} /\ manifest[p] = UNION {ParsedLines(diff[n]) : n \in Section(diff, last)}
  BY Zenon DEF ParseUnifiedDiff
<1>2. last \in DOMAIN diff
  <2>1. saved \subseteq DOMAIN diff
    BY DEF Saved
  <2>. HIDE DEF saved
  <2>2. For # {} /\ For \subseteq DOMAIN diff
    BY <1>1, <2>1
  <2>. DEFINE Left == {Len(diff) - k : k \in For}
  <2>3. Left \in SUBSET Nat /\ Left # {}
    BY <2>2
  <2>4. PICK x \in Left : \A y \in Left : x <= y
    <3>. HIDE DEF Left
    <3>. QED
      BY <2>3, LeastNumber
  <2>5. \E k \in For : \A n \in For : n <= k
    <3>1. PICK k \in For : x = Len(diff) - k
      BY <2>4
    <3>2. \A n \in For : n <= k
      <4>. SUFFICES ASSUME NEW n \in For PROVE n <= k
        OBVIOUS
      <4>1. Len(diff) - n \in Left /\ n \in Int /\ k \in Int
        BY <2>2, <3>1
      <4>2. x <= Len(diff) - n
        BY <2>4, <4>1
      <4>. QED
        BY <3>1, <4>1, <4>2
    <3>. QED
      BY <3>2
  <2>6. last \in For
    <3>. HIDE DEF For
    <3>. QED
      BY <2>5, Zenon
  <2>. QED
    BY <2>2, <2>6
<1>. HIDE DEF last
<1>3. ASSUME NEW n \in Section(diff, last) PROVE ParsedLines(diff[n]) \subseteq Nat
  <2>1. PICK file \in FileDiff : file = diff[n]
    BY <1>2, <1>3 DEF Section
  <2>2. \A k \in DOMAIN file.hunk : Before(file, k, Counted) \in Nat /\ Before(file, k, {"split"}) \in Nat
    BY BeforeIs
  <2>3. file.start \in Nat
    BY DEF FileDiff
  <2>4. ParsedLines(file) \subseteq Nat
    BY <2>2, <2>3 DEF ParsedLines, LinesOf, RecordedAt
  <2>. QED
    BY <2>1, <2>4
<1>. QED
  BY <1>1, <1>3

\* Before a review starts nothing is known of it.
ReviewInv ==
    /\ review.known \in Known \cup {{}}
    /\ review.phase = "none" => review.diff = <<>> /\ changed = <<>>

LEMMA ReviewInvariant == Spec => [](FindingsInv /\ ReviewInv)
<1>1. Init => ReviewInv
  BY DEF Init, FindingsInit, ReviewInv
<1>2. ReviewInv /\ [Next]_vars => ReviewInv'
  <2>. SUFFICES ASSUME ReviewInv, [Next]_vars PROVE ReviewInv'
    OBVIOUS
  <2>1. CASE Fetch(ReviewPolicyOf(global, repository), Ignored)
    <3>1. review'.phase # "none" /\ review'.known = {}
      BY <2>1 DEF Fetch
    <3>. QED
      BY <3>1 DEF ReviewInv
  <2>2. Answer => review'.phase # "none" /\ review'.known = review.known
    BY DEF Answer
  <2>3. Validate => review'.phase # "none" /\ review'.known \in Known
    BY DEF Validate
  <2>4. Publish => review'.phase # "none" /\ review'.known = review.known
    BY DEF Publish
  <2>5. CASE FindingsSteps
    BY <2>2, <2>3, <2>4, <2>5 DEF FindingsSteps, ReviewInv
  <2>6. CASE UNCHANGED findings
    BY <2>6 DEF findings, ReviewInv
  <2>. QED
    BY <2>1, <2>5, <2>6, FindingsFrame
<1>. QED
  BY <1>1, <1>2, FindingsInvariant, PTL DEF Spec

LEMMA FindingsTypes == ASSUME FindingsInv, ReviewInv PROVE FindingsTypeOK
<1>1. review.phase \in Phases /\ review.diff \in Diffs \cup {<<>>} /\ review.known \in Known \cup {{}}
  BY DEF FindingsInv, ReviewInv
<1>2. ASSUME NEW p \in DOMAIN changed PROVE changed[p] \subseteq Nat
  <2>1. CASE review.phase = "none"
    BY <2>1 DEF ReviewInv
  <2>2. CASE review.phase # "none"
    <3>1. review.diff \in Seq(FileDiff) /\ changed = ParseUnifiedDiff(review.diff, Ignored)
      BY <2>2, FindingsAssumption DEF FindingsInv
    <3>. QED
      BY <1>2, <3>1, ManifestNumbers
  <2>. QED
    BY <2>1, <2>2
<1>3. verdict.kept \cup verdict.accepted \cup verdict.evident \cup verdict.scope \subseteq DOMAIN raw
  <2>1. CASE Validated
    <3>1. raw \in Seq(Finding) /\ verdict = ValidateFindings(raw, changed, review.policy, review.known)
      BY <2>1 DEF FindingsInv
    <3>. QED
      BY <3>1, VerdictIs
  <2>2. CASE ~Validated
    BY <2>2 DEF FindingsInv, NoVerdict
  <2>. QED
    BY <2>1, <2>2
<1>4. posted.fallback \in BOOLEAN /\ posted.summary \subseteq DOMAIN raw
  <2>1. CASE review.phase = "published"
    BY <1>3, <2>1 DEF FindingsInv
  <2>2. CASE review.phase # "published"
    <3>1. posted = [comments |-> {}, summary |-> {}, fallback |-> FALSE]
      BY <2>2, Zenon DEF FindingsInv
    <3>. QED
      BY <3>1
  <2>. QED
    BY <2>1, <2>2
<1>. QED
  BY <1>1, <1>2, <1>3, <1>4 DEF FindingsTypeOK

\* Inputs are taken while some are left.
CaseInv == "left" \in DOMAIN case /\ case.left \in [Inputs -> Nat]

LEMMA CaseFrame == [Next]_vars => UNCHANGED case \/ \E kind \in Inputs : Input(kind)
<1>. SUFFICES ASSUME [Next]_vars PROVE UNCHANGED case \/ \E kind \in Inputs : Input(kind)
  OBVIOUS
<1>. USE DEF Inputs
<1>1. CASE Administration
  BY <1>1 DEF Administration
<1>2. CASE Sending
  BY <1>2 DEF Sending
<1>3. CASE Handling
  BY <1>3 DEF Handling
<1>4. CASE Reviewing
  BY <1>4 DEF Reviewing
<1>5. CASE Watching
  BY <1>5 DEF Watching
<1>6. CASE \E j \in DOMAIN jobs : Working(j)
  BY <1>6 DEF Working, Starting, Ending
<1>7. CASE UNCHANGED vars
  BY <1>7 DEF vars
<1>. QED
  BY <1>1, <1>2, <1>3, <1>4, <1>5, <1>6, <1>7 DEF Next

LEMMA CaseInvariant == Spec => []CaseInv
<1>1. Init => CaseInv
  BY CasesAssumption DEF Init, CaseInv
<1>2. CaseInv /\ [Next]_vars => CaseInv'
  <2>1. ASSUME CaseInv, NEW kind \in Inputs, Input(kind) PROVE CaseInv'
    <3>1. PICK left : left = case.left /\ left \in [Inputs -> Nat]
      BY <2>1 DEF CaseInv
    <3>2. "left" \in DOMAIN case' /\ case'.left = [left EXCEPT ![kind] = @ - 1] /\ left[kind] > 0
      BY <2>1, <3>1 DEF CaseInv, Input
    <3>. QED
      BY <3>1, <3>2 DEF CaseInv
  <2>2. CaseInv /\ UNCHANGED case => CaseInv'
    BY DEF CaseInv
  <2>. QED
    BY <2>1, <2>2, CaseFrame
<1>. QED
  BY <1>1, <1>2, PTL DEF Spec

LEMMA PolicyTypes == ASSUME CatalogInv, PairInv, ColumnsInv PROVE PolicyTypeOK
<1>1. \A f \in GlobalFields : global.values[f] \in Column(f) /\ repository.values[f] \in {None} \cup Column(f)
  BY DEF ColumnsInv, ColumnsHold
<1>2. \A s \in Sessions : session[s] # None => SessionRow(session[s])
  BY DEF PairInv, SessionsInv, SessionOK, SessionFields, ColumnsInv, SessionRow
<1>. QED
  BY <1>1, <1>2 DEF PolicyTypeOK, CatalogInv, PairInv, SessionsInv, ColumnsInv, ColumnsHold, Unset

LEMMA DeliveriesTypes == ASSUME DeliveryInv, CarriedInv, EffortsInv PROVE DeliveriesTypeOK
<1>1. PICK V : Typed(V)
  BY DEF DeliveryInv
<1>. DEFINE RequestRow ==
                [delivery : Deliveries, step : Steps, head : Heads, attempts : Nat, model : Models \cup {None},
                 effort : Efforts \cup {None}, code : Codes \cup {None}, result : DeliveryStates \cup {None}]
            JobRow ==
                [delivery : Deliveries, trigger : {"AUTO", "COMMAND"}, head : Heads,
                 status : Active \cup {"SUCCEEDED", "FAILED", "SKIPPED"},
                 model : Models \cup {None}, effort : Efforts, untold : BOOLEAN]
<1>2. \A h \in Handlers : handler[h] \in {None} \cup RequestRow
  <2>. SUFFICES ASSUME NEW h \in Handlers, handler[h] # None PROVE handler[h] \in RequestRow
    OBVIOUS
  <2>1. PICK r \in RequestOf(V) : r = handler[h]
    BY <1>1, RequestAt
  <2>2. r.model \in Models \cup {None} /\ r.effort \in Efforts \cup {None}
    BY <2>1 DEF CarriedInv, Carries, Names, EffortsInv, HasEffort
  <2>. QED
    BY <2>1, <2>2 DEF RequestOf
<1>3. \A j \in DOMAIN jobs : jobs[j] \in JobRow
  <2>. SUFFICES ASSUME NEW j \in DOMAIN jobs PROVE jobs[j] \in JobRow
    OBVIOUS
  <2>1. PICK r \in JobOf(V) : r = jobs[j]
    <3>. HIDE DEF JobOf
    <3>. QED
      BY <1>1 DEF Typed
  <2>2. r.model \in Models \cup {None} /\ r.effort \in Efforts
    BY <2>1 DEF CarriedInv, Carries, Names, EffortsInv
  <2>. QED
    BY <2>1, <2>2 DEF JobOf
<1>. HIDE DEF RequestRow, JobRow
<1>4. handler \in [Handlers -> {None} \cup RequestRow]
  BY <1>1, <1>2 DEF Typed, Requests
<1>5. jobs \in Seq(JobRow)
  <2>1. Len(jobs) \in Nat /\ DOMAIN jobs = 1..Len(jobs) /\ jobs = [j \in 1..Len(jobs) |-> jobs[j]]
    <3>. HIDE DEF JobOf
    <3>. QED
      BY <1>1 DEF Typed
  <2>. QED
    BY <1>3, <2>1
<1>6. deliveries \in [Deliveries -> {None} \cup DeliveryRow] /\ head \in Heads
      /\ notices \in [Codes \X Heads -> [row : BOOLEAN, posted : Nat, known : BOOLEAN, lost : Nat]]
  BY <1>1 DEF Typed, Rows, Notices, NoticeRow
<1>. QED
  BY <1>4, <1>5, <1>6, Zenon DEF DeliveriesTypeOK, RequestRow, JobRow

\* The rows of the settings hold what their columns allow, whoever writes them in which
\* order; requests and jobs carry a model and an effort that exist, and what a review
\* keeps are findings of the model (app/admin/control_plane.py, app/github/webhook.py,
\* app/review/validator.py).
THEOREM IntakeTypes == Spec => []TypeOK
<1>1. CatalogInv /\ PairInv /\ ColumnsInv => PolicyTypeOK
  BY PolicyTypes
<1>2. DeliveryInv /\ CarriedInv /\ EffortsInv => DeliveriesTypeOK
  BY DeliveriesTypes
<1>3. FindingsInv /\ ReviewInv => FindingsTypeOK
  BY FindingsTypes
<1>4. PolicyTypeOK /\ DeliveriesTypeOK /\ FindingsTypeOK /\ CaseInv => TypeOK
  BY DEF TypeOK, CaseInv
<1>. QED
  BY <1>1, <1>2, <1>3, <1>4, ColumnsInvariant, CarriedInvariant, EffortsInvariant, ReviewInvariant, CaseInvariant, PTL
=============================================================================
