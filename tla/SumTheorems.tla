---------------------------- MODULE SumTheorems ----------------------------
(***************************************************************************)
(* Sums of the values of an integer function over finite sets: what the    *)
(* folds of the models compute, for operands of every length.              *)
(*                                                                         *)
(* The induction theorems of the library take an operator as a parameter.  *)
(* Their set-theoretic origin, that every non-empty set of natural numbers *)
(* has a least element, does not: induction is a lemma about sets here.    *)
(***************************************************************************)
EXTENDS Integers, FiniteSets, FiniteSetTheorems, WellFoundedInduction, TLAPS

\* A set of naturals with zero and all successors has every natural number.
LEMMA SetInduction ==
  ASSUME NEW G, 0 \in G, \A n \in Nat : n \in G => n + 1 \in G
  PROVE  Nat \subseteq G
<1> DEFINE T == Nat \ G
           R == OpToRel(<, Nat)
<1>1. SUFFICES ASSUME T # {} PROVE FALSE
  OBVIOUS
<1>2. \E x \in T : \A y \in T : ~ (<<y, x>> \in R)
  <2>1. IsWellFoundedOn(R, Nat) 
    BY NatLessThanWellFounded
  <2> HIDE DEF R
  <2> QED
    BY <1>1, <2>1, WFMin
<1>3. \A x, y \in Nat : x < y => <<x, y>> \in R
  BY DEF OpToRel
<1> HIDE DEF R
<1> QED
  <2>1. PICK x \in T : \A y \in T : ~ (<<y, x>> \in R)
    BY <1>2
  <2>2. x # 0 /\ x - 1 \in Nat /\ x - 1 < x
    BY <2>1
  <2>3. x - 1 \in G
    BY <1>3, <2>1, <2>2
  <2> QED
    BY <2>1, <2>2, <2>3

\* The function that adds up w over each subset of its domain, and its total.
Adds(g, w) ==
    /\ g \in [SUBSET DOMAIN w -> Int]
    /\ g[{}] = 0
    /\ \A S \in SUBSET DOMAIN w : \A x \in S : g[S] = g[S \ {x}] + w[x]
SumOf(w) == CHOOSE g : Adds(g, w)
Total(w) == SumOf(w)[DOMAIN w]

\* Weights are integers over a finite set.
Weights(w) == IsFiniteSet(DOMAIN w) /\ w \in [DOMAIN w -> Int]

\* A subset that loses an element loses one of its cardinality.
LEMMA Smaller ==
  ASSUME NEW D, IsFiniteSet(D), NEW S \in SUBSET D, NEW x \in S
  PROVE  /\ S \ {x} \in SUBSET D
         /\ Cardinality(S) \in Nat /\ Cardinality(S \ {x}) = Cardinality(S) - 1
         /\ Cardinality(S) > 0
<1>1. IsFiniteSet(S)
  BY FS_Subset
<1>2. Cardinality(S) \in Nat /\ Cardinality(S \ {x}) = Cardinality(S) - 1
  BY <1>1, FS_RemoveElement, FS_CardinalityType
<1>3. Cardinality(S) # 0
  BY <1>1, FS_EmptySet
<1> QED
  BY <1>2, <1>3

\* The subsets of w's domain of at most k elements, and a function that adds up w over them.
UpTo(w, k) == {S \in SUBSET DOMAIN w : Cardinality(S) <= k}
AddsUpTo(g, w, k) ==
    /\ g \in [UpTo(w, k) -> Int]
    /\ g[{}] = 0
    /\ \A S \in UpTo(w, k) : \A x \in S : g[S] = g[S \ {x}] + w[x]

\* Which subsets there are, and what is left when one loses an element.
LEMMA UpToFacts ==
  ASSUME NEW w, Weights(w), NEW k \in Nat
  PROVE  /\ \A S \in UpTo(w, 0) : S = {}
         /\ {} \in UpTo(w, k)
         /\ \A S \in UpTo(w, k + 1) : S \in UpTo(w, k) \/ (S # {} /\ S \notin UpTo(w, k))
         /\ \A S \in UpTo(w, k + 1) : \A x \in S : S \ {x} \in UpTo(w, k)
         /\ \A S \in UpTo(w, k) : \A x \in S : S \ {x} \in UpTo(w, k)
         /\ UpTo(w, k) \subseteq UpTo(w, k + 1)
         /\ \A S \in UpTo(w, k + 1) : \A x \in S : w[x] \in Int
<1> DEFINE D == DOMAIN w
<1>1. IsFiniteSet(D) /\ w \in [D -> Int]
  BY DEF Weights
<1>2. \A S \in SUBSET D : Cardinality(S) \in Nat /\ (Cardinality(S) = 0 <=> S = {})
  BY <1>1, FS_Subset, FS_CardinalityType, FS_EmptySet
<1>3. \A S \in SUBSET D : \A x \in S : /\ S \ {x} \in SUBSET D
                                       /\ Cardinality(S \ {x}) = Cardinality(S) - 1
  BY <1>1, Smaller
<1>4. {} \in SUBSET D /\ Cardinality({}) = 0
  BY FS_EmptySet
<1>5. \A S : \A j : S \in UpTo(w, j) <=> S \in SUBSET D /\ Cardinality(S) <= j
  BY DEF UpTo
<1> HIDE DEF D
<1>6. \A S \in UpTo(w, k + 1) : S \in UpTo(w, k) \/ (S # {} /\ S \notin UpTo(w, k))
  BY <1>2, <1>4, <1>5
<1>7. ASSUME NEW j \in {k, k + 1}, NEW S \in UpTo(w, j), NEW x \in S
      PROVE  S \ {x} \in UpTo(w, k)
  <2>1. S \in SUBSET D /\ Cardinality(S) <= j /\ Cardinality(S) \in Nat
    BY <1>2, <1>5
  <2>2. S \ {x} \in SUBSET D /\ Cardinality(S \ {x}) = Cardinality(S) - 1
    BY <1>3, <2>1
  <2>3. Cardinality(S \ {x}) <= k
    BY <2>1, <2>2
  <2> QED
    BY <1>5, <2>2, <2>3
<1>8. UpTo(w, k) \subseteq UpTo(w, k + 1)
  BY <1>2, <1>5
<1>9. \A S \in UpTo(w, k + 1) : \A x \in S : w[x] \in Int
  BY <1>1, <1>5
<1> QED
  BY <1>2, <1>4, <1>5, <1>6, <1>7, <1>8, <1>9

\* Sums over subsets of one more element, whichever element is taken first.
LEMMA NextSums ==
  ASSUME NEW w, Weights(w), NEW k \in Nat, NEW g, AddsUpTo(g, w, k)
  PROVE  \E h : AddsUpTo(h, w, k + 1)
<1> DEFINE pick(S) == CHOOSE x \in S : TRUE
           h == [S \in UpTo(w, k + 1) |->
                   IF S \in UpTo(w, k) THEN g[S] ELSE g[S \ {pick(S)}] + w[pick(S)]]
<1>1. \A S : S # {} => pick(S) \in S
  OBVIOUS
<1> HIDE DEF pick
<1>2. ASSUME NEW S \in UpTo(w, k)
      PROVE  g[S] \in Int /\ h[S] = g[S]
  BY UpToFacts DEF AddsUpTo
<1>3. ASSUME NEW S \in UpTo(w, k + 1), S \notin UpTo(w, k)
      PROVE  /\ pick(S) \in S
             /\ h[S] = g[S \ {pick(S)}] + w[pick(S)]
  BY <1>1, <1>3, UpToFacts
<1>4. h \in [UpTo(w, k + 1) -> Int]
  <2>h. h = [S \in UpTo(w, k + 1) |-> h[S]]
    OBVIOUS
  <2> HIDE DEF h
  <2>1. ASSUME NEW S \in UpTo(w, k + 1) PROVE h[S] \in Int
    <3>1. CASE S \in UpTo(w, k)
      BY <1>2, <3>1
    <3>2. CASE S \notin UpTo(w, k)
      <4>1. pick(S) \in S /\ S \ {pick(S)} \in UpTo(w, k) /\ w[pick(S)] \in Int
        BY <1>3, <3>2, UpToFacts
      <4>2. h[S] = g[S \ {pick(S)}] + w[pick(S)]
        BY <1>3, <3>2
      <4> QED
        BY <1>2, <4>1, <4>2
    <3> QED
      BY <3>1, <3>2
  <2> QED
    BY <2>h, <2>1
<1> HIDE DEF h
<1>5. h[{}] = 0
  BY <1>2, UpToFacts DEF AddsUpTo
<1>6. ASSUME NEW S \in UpTo(w, k + 1), NEW x \in S
      PROVE  h[S] = h[S \ {x}] + w[x]
  <2>1. S \ {x} \in UpTo(w, k)
    BY UpToFacts
  <2>2. h[S \ {x}] = g[S \ {x}]
    BY <1>2, <2>1
  <2>3. CASE S \in UpTo(w, k)
    BY <1>2, <2>2, <2>3 DEF AddsUpTo
  <2>4. CASE S \notin UpTo(w, k) /\ x = pick(S)
    BY <1>3, <2>2, <2>4
  <2>5. CASE S \notin UpTo(w, k) /\ x # pick(S)
    <3> DEFINE p == pick(S)
    <3>1. p \in S /\ h[S] = g[S \ {p}] + w[p]
      BY <1>3, <2>5
    <3>2. S \ {p} \in UpTo(w, k) /\ x \in S \ {p} /\ p \in S \ {x}
      BY <2>5, <3>1, UpToFacts
    <3> HIDE DEF p
    <3>3. g[S \ {p}] = g[(S \ {p}) \ {x}] + w[x]
      BY <3>2 DEF AddsUpTo
    <3>4. g[S \ {x}] = g[(S \ {x}) \ {p}] + w[p]
      BY <2>1, <3>2 DEF AddsUpTo
    <3>5. (S \ {x}) \ {p} = (S \ {p}) \ {x}
      OBVIOUS
    <3>6. g[(S \ {p}) \ {x}] \in Int /\ w[x] \in Int /\ w[p] \in Int
      BY <1>2, <3>1, <3>2, UpToFacts
    <3>7. \A a, b, c \in Int : (a + b) + c = (a + c) + b
      OBVIOUS
    <3>8. h[S] = (g[(S \ {p}) \ {x}] + w[x]) + w[p]
      BY <3>1, <3>3
    <3>9. h[S \ {x}] = g[(S \ {p}) \ {x}] + w[p]
      BY <2>2, <3>4, <3>5
    <3> QED
      BY <3>6, <3>7, <3>8, <3>9
  <2> QED
    BY <2>3, <2>4, <2>5
<1>7. AddsUpTo(h, w, k + 1)
  BY <1>4, <1>5, <1>6 DEF AddsUpTo
<1> QED
  BY <1>7

\* Subsets of every size can be added up.
LEMMA PartialSums ==
  ASSUME NEW w, Weights(w), NEW n \in Nat
  PROVE  \E g : AddsUpTo(g, w, n)
<1> DEFINE G == {k \in Nat : \E g : AddsUpTo(g, w, k)}
<1>1. 0 \in G
  <2> DEFINE g == [S \in UpTo(w, 0) |-> 0]
  <2>1. AddsUpTo(g, w, 0)
    BY UpToFacts DEF AddsUpTo
  <2> QED
    BY <2>1
<1>2. \A k \in Nat : k \in G => k + 1 \in G
  BY NextSums
<1> HIDE DEF G
<1>3. Nat \subseteq G
  BY <1>1, <1>2, SetInduction
<1> QED
  BY <1>3 DEF G

\* Every finite integer function has its sums.
LEMMA SumsExist ==
  ASSUME NEW w, Weights(w)
  PROVE  Adds(SumOf(w), w)
<1> DEFINE n == Cardinality(DOMAIN w)
<1>1. n \in Nat
  BY FS_CardinalityType DEF Weights
<1>2. UpTo(w, n) = SUBSET DOMAIN w
  BY FS_Subset DEF Weights, UpTo
<1> HIDE DEF n
<1>3. \E g : AddsUpTo(g, w, n)
  BY <1>1, PartialSums
<1>4. \E g : Adds(g, w)
  BY <1>2, <1>3 DEF Adds, AddsUpTo
<1> QED
  BY <1>4 DEF SumOf

-----------------------------------------------------------------------------
(***************************************************************************)
(* What holds of sums.                                                     *)
(***************************************************************************)
\* A set of subsets that has the empty one, and every subset of which it has those
\* that lack one element, has every subset of a finite set.
LEMMA SubsetInduction ==
  ASSUME NEW D, IsFiniteSet(D), NEW G, {} \in G,
         \A S \in SUBSET D : S # {} /\ (\A x \in S : S \ {x} \in G) => S \in G
  PROVE  SUBSET D \subseteq G
<1> DEFINE H == {n \in Nat : \A S \in SUBSET D : Cardinality(S) = n => S \in G}
<1>1. \A S \in SUBSET D : Cardinality(S) \in Nat /\ (Cardinality(S) = 0 => S = {})
  BY FS_Subset, FS_CardinalityType, FS_EmptySet
<1>2. 0 \in H
  BY <1>1
<1>3. ASSUME NEW n \in Nat, n \in H PROVE n + 1 \in H
  <2>1. ASSUME NEW S \in SUBSET D, Cardinality(S) = n + 1
        PROVE  S \in G
    <3>1. Cardinality({}) = 0
      BY FS_EmptySet
    <3>2. S # {}
      <4>1. n + 1 # 0
        OBVIOUS
      <4> QED
        BY <2>1, <3>1, <4>1
    <3>3. ASSUME NEW x \in S PROVE S \ {x} \in G
      <4>1. S \ {x} \in SUBSET D /\ Cardinality(S \ {x}) = n
        BY <2>1, Smaller
      <4> QED
        BY <1>3, <4>1
    <3> QED
      BY <3>2, <3>3
  <2> QED
    BY <2>1
<1> HIDE DEF H
<1>4. Nat \subseteq H
  BY <1>2, <1>3, SetInduction
<1>5. ASSUME NEW S \in SUBSET D PROVE S \in G
  <2>1. Cardinality(S) \in H
    BY <1>1, <1>4
  <2> QED
    BY <2>1 DEF H
<1> QED
  BY <1>5

\* The same, where any one element will do.
LEMMA ElementInduction ==
  ASSUME NEW D, IsFiniteSet(D), NEW G, {} \in G,
         \A S \in SUBSET D : \A x \in S : S \ {x} \in G => S \in G
  PROVE  SUBSET D \subseteq G
<1>1. ASSUME NEW S \in SUBSET D, S # {}, \A x \in S : S \ {x} \in G
      PROVE  S \in G
  <2>1. PICK x \in S : TRUE
    BY <1>1
  <2> QED
    BY <1>1, <2>1
<1> QED
  BY <1>1, SubsetInduction

\* Sums are integers, the empty one is zero, and an element can be taken out.
LEMMA SumFacts ==
  ASSUME NEW w, Weights(w)
  PROVE  /\ \A S \in SUBSET DOMAIN w : SumOf(w)[S] \in Int
         /\ SumOf(w)[{}] = 0 /\ Total(w) \in Int
         /\ \A S \in SUBSET DOMAIN w : \A x \in S :
              w[x] \in Int /\ SumOf(w)[S] = SumOf(w)[S \ {x}] + w[x]
<1>1. \A x \in DOMAIN w : w[x] \in Int
  BY DEF Weights
<1> QED
  BY <1>1, SumsExist DEF Adds, Total

\* Whatever element a fold takes next, it computes the sum.
LEMMA FoldIsSum ==
  ASSUME NEW w, Weights(w), NEW pick,
         \A S \in SUBSET DOMAIN w : S # {} => pick[S] \in S,
         NEW g, g[{}] = 0,
         \A S \in SUBSET DOMAIN w : S # {} => g[S] = g[S \ {pick[S]}] + w[pick[S]]
  PROVE  g[DOMAIN w] = Total(w)
<1> DEFINE D == DOMAIN w
           G == {S \in SUBSET D : g[S] = SumOf(w)[S]}
<1>0. IsFiniteSet(D)
  BY DEF Weights
<1>1. {} \in G
  BY SumFacts
<1>2. ASSUME NEW S \in SUBSET D, S # {}, \A x \in S : S \ {x} \in G
      PROVE  S \in G
  <2> DEFINE x == pick[S]
  <2>1. x \in S /\ g[S] = g[S \ {x}] + w[x]
    BY <1>2
  <2> HIDE DEF x
  <2>2. g[S \ {x}] = SumOf(w)[S \ {x}]
    BY <1>2, <2>1
  <2>3. SumOf(w)[S] = SumOf(w)[S \ {x}] + w[x]
    BY <2>1, SumFacts
  <2> QED
    BY <2>1, <2>2, <2>3
<1> HIDE DEF G
<1>d. \A S \in SUBSET D : S # {} /\ (\A x \in S : S \ {x} \in G) => S \in G
  BY <1>2
<1> HIDE DEF D
<1>3. SUBSET D \subseteq G
  BY <1>0, <1>1, <1>d, SubsetInduction
<1> QED
  BY <1>3 DEF D, G, Total

\* Functions that agree on a set have the same sum over it.
LEMMA SumAgree ==
  ASSUME NEW v, Weights(v), NEW w, Weights(w),
         NEW D \in SUBSET DOMAIN v, D \in SUBSET DOMAIN w, \A x \in D : v[x] = w[x]
  PROVE  SumOf(v)[D] = SumOf(w)[D]
<1> DEFINE G == {S \in SUBSET D : SumOf(v)[S] = SumOf(w)[S]}
<1>0. IsFiniteSet(D)
  BY FS_Subset DEF Weights
<1>1. {} \in G
  BY SumFacts
<1>2. ASSUME NEW S \in SUBSET D, NEW x \in S, S \ {x} \in G PROVE S \in G
  <2>1. SumOf(v)[S] = SumOf(v)[S \ {x}] + v[x]
    BY SumFacts
  <2>2. SumOf(w)[S] = SumOf(w)[S \ {x}] + w[x]
    BY SumFacts
  <2> QED
    BY <1>2, <2>1, <2>2
<1> HIDE DEF G
<1>3. SUBSET D \subseteq G
  BY <1>0, <1>1, <1>2, ElementInduction
<1> QED
  BY <1>3 DEF G

\* Elements of weight zero do not count.
LEMMA SumSupport ==
  ASSUME NEW w, Weights(w), NEW D \in SUBSET DOMAIN w, NEW T \in SUBSET D,
         \A x \in D \ T : w[x] = 0
  PROVE  SumOf(w)[D] = SumOf(w)[T]
<1> DEFINE G == {S \in SUBSET D : SumOf(w)[S] = SumOf(w)[S \cap T]}
<1>0. IsFiniteSet(D)
  BY FS_Subset DEF Weights
<1>1. {} \in G
  OBVIOUS
<1>2. ASSUME NEW S \in SUBSET D, NEW x \in S, S \ {x} \in G PROVE S \in G
  <2>1. SumOf(w)[S] = SumOf(w)[S \ {x}] + w[x] /\ w[x] \in Int
    BY SumFacts
  <2>2. SumOf(w)[S \ {x}] = SumOf(w)[(S \ {x}) \cap T]
    BY <1>2
  <2>3. CASE x \in T
    <3>1. x \in S \cap T /\ S \cap T \in SUBSET DOMAIN w
      BY <2>3
    <3>2. SumOf(w)[S \cap T] = SumOf(w)[(S \cap T) \ {x}] + w[x]
      BY <3>1, SumFacts
    <3>3. (S \cap T) \ {x} = (S \ {x}) \cap T
      OBVIOUS
    <3> QED
      BY <2>1, <2>2, <3>2, <3>3
  <2>4. CASE x \notin T
    <3>1. (S \ {x}) \cap T = S \cap T /\ w[x] = 0
      BY <2>4
    <3>2. SumOf(w)[S \cap T] \in Int
      BY SumFacts
    <3> QED
      BY <2>1, <2>2, <3>1, <3>2
  <2> QED
    BY <2>3, <2>4
<1> HIDE DEF G
<1>3. SUBSET D \subseteq G
  BY <1>0, <1>1, <1>2, ElementInduction
<1>4. D \cap T = T
  OBVIOUS
<1> QED
  BY <1>3, <1>4 DEF G

\* One value changes.
LEMMA SumChange ==
  ASSUME NEW v, Weights(v), NEW w, Weights(w), NEW k,
         DOMAIN v = DOMAIN w, k \in DOMAIN w,
         \A x \in DOMAIN w : x # k => v[x] = w[x]
  PROVE  /\ Total(v) = Total(w) + (v[k] - w[k])
         /\ Total(w) \in Int /\ v[k] \in Int /\ w[k] \in Int
<1> DEFINE D == DOMAIN w
<1>1. SumOf(v)[D] = SumOf(v)[D \ {k}] + v[k] /\ v[k] \in Int
  BY SumFacts
<1>2. SumOf(w)[D] = SumOf(w)[D \ {k}] + w[k] /\ w[k] \in Int
  BY SumFacts
<1>3. SumOf(v)[D \ {k}] = SumOf(w)[D \ {k}] /\ SumOf(w)[D \ {k}] \in Int
  BY SumAgree, SumFacts
<1> QED
  BY <1>1, <1>2, <1>3 DEF Total

\* One element is added.
LEMMA SumAdd ==
  ASSUME NEW v, Weights(v), NEW w, Weights(w), NEW k,
         DOMAIN v = DOMAIN w \cup {k}, k \notin DOMAIN w,
         \A x \in DOMAIN w : v[x] = w[x]
  PROVE  Total(v) = Total(w) + v[k] /\ Total(w) \in Int /\ v[k] \in Int
<1>1. /\ SumOf(v)[DOMAIN v] = SumOf(v)[DOMAIN v \ {k}] + v[k] /\ v[k] \in Int
  <2>1. k \in DOMAIN v /\ DOMAIN v \in SUBSET DOMAIN v
    OBVIOUS
  <2> QED
    BY <2>1, SumFacts
<1>2. DOMAIN v \ {k} = DOMAIN w
  OBVIOUS
<1>3. SumOf(v)[DOMAIN w] = SumOf(w)[DOMAIN w]
  BY SumAgree
<1> QED
  BY <1>1, <1>2, <1>3, SumFacts DEF Total

\* q names every element of T once, by an element of v's domain of the same weight.
Names(q, v, w, T) ==
    /\ \A i \in DOMAIN v : q[i] \in T /\ v[i] = w[q[i]]
    /\ \A x \in T : \E i \in DOMAIN v : q[i] = x
    /\ \A i, j \in DOMAIN v : q[i] = q[j] => i = j

\* A sum may be taken over names instead of the elements they name, each once.
LEMMA SumRename ==
  ASSUME NEW v, Weights(v), NEW w, Weights(w), NEW q, NEW T \in SUBSET DOMAIN w,
         Names(q, v, w, T)
  PROVE  Total(v) = SumOf(w)[T]
<1> USE DEF Names
<1> DEFINE Im(S) == {q[i] : i \in S}
           G == {S \in SUBSET DOMAIN v : SumOf(v)[S] = SumOf(w)[Im(S)]}
<1>0. IsFiniteSet(DOMAIN v)
  BY DEF Weights
<1>1. {} \in G
  <2>1. Im({}) = {}
    OBVIOUS
  <2> QED
    BY <2>1, SumFacts
<1>2. ASSUME NEW S \in SUBSET DOMAIN v, NEW x \in S, S \ {x} \in G PROVE S \in G
  <2>1. SumOf(v)[S] = SumOf(v)[S \ {x}] + v[x]
    BY SumFacts
  <2>2. q[x] \in Im(S) /\ Im(S) \in SUBSET DOMAIN w
    <3>1. \A i \in S : q[i] \in DOMAIN w
      OBVIOUS
    <3> QED
      BY <3>1
  <2>3. Im(S) \ {q[x]} = Im(S \ {x})
    OBVIOUS
  <2> HIDE DEF Im
  <2>4. SumOf(w)[Im(S)] = SumOf(w)[Im(S \ {x})] + w[q[x]]
    <3>1. \A I \in SUBSET DOMAIN w : \A y \in I : SumOf(w)[I] = SumOf(w)[I \ {y}] + w[y]
      BY SumsExist DEF Adds
    <3>2. SumOf(w)[Im(S)] = SumOf(w)[Im(S) \ {q[x]}] + w[q[x]]
      BY <2>2, <3>1
    <3> QED
      BY <2>3, <3>2
  <2> QED
    BY <1>2, <2>1, <2>4
<1> HIDE DEF G
<1> DEFINE D == DOMAIN v
<1>d. /\ IsFiniteSet(D)
      /\ \A S \in SUBSET D : \A x \in S : S \ {x} \in G => S \in G
  BY <1>0, <1>2
<1> HIDE DEF D
<1>e. SUBSET D \subseteq G
  BY <1>d, <1>1, ElementInduction
<1>3. SUBSET DOMAIN v \subseteq G
  BY <1>e DEF D
<1>4. DOMAIN v \in G
  BY <1>3
<1>5. T = Im(DOMAIN v)
  OBVIOUS
<1> HIDE DEF Im
<1> QED
  BY <1>4, <1>5 DEF G, Total

\* A recursive function that picks the elements of a set one after the other has a
\* solution, and every solution gives the sum.
LEMMA RecursiveSum ==
  ASSUME NEW w, Weights(w), NEW pick, \A S \in SUBSET DOMAIN w : S # {} => pick[S] \in S
  PROVE  LET F(g) == [S \in SUBSET DOMAIN w |->
                        IF S = {} THEN 0 ELSE g[S \ {pick[S]}] + w[pick[S]]]
         IN /\ SumOf(w) = F(SumOf(w))
            /\ \A g : g = F(g) => g[DOMAIN w] = Total(w)
<1> DEFINE F(g) == [S \in SUBSET DOMAIN w |->
                      IF S = {} THEN 0 ELSE g[S \ {pick[S]}] + w[pick[S]]]
<1>1. SumOf(w) = F(SumOf(w))
  <2> DEFINE h == SumOf(w)
  <2>1. Adds(h, w)
    BY SumsExist
  <2> HIDE DEF h
  <2>2. h = [S \in SUBSET DOMAIN w |-> h[S]]
    BY <2>1 DEF Adds
  <2>3. \A S \in SUBSET DOMAIN w :
          h[S] = IF S = {} THEN 0 ELSE h[S \ {pick[S]}] + w[pick[S]]
    BY <2>1 DEF Adds
  <2> QED
    BY <2>2, <2>3 DEF h
<1>2. ASSUME NEW g, g = F(g) PROVE g[DOMAIN w] = Total(w)
  <2>1. \A S \in SUBSET DOMAIN w :
          g[S] = IF S = {} THEN 0 ELSE g[S \ {pick[S]}] + w[pick[S]]
    BY <1>2
  <2> QED
    BY <2>1, FoldIsSum
<1> QED
  BY <1>1, <1>2

\* Every non-empty finite set of integers has a greatest element.
LEMMA Greatest ==
  ASSUME NEW D \in SUBSET Int, IsFiniteSet(D), NEW S \in SUBSET D, S # {}
  PROVE  \E x \in S : \A y \in S : x >= y
<1> DEFINE G == {T \in SUBSET D : T # {} => \E x \in T : \A y \in T : x >= y}
<1>1. {} \in G
  OBVIOUS
<1>2. ASSUME NEW T \in SUBSET D, NEW z \in T, T \ {z} \in G PROVE T \in G
  <2>1. CASE T \ {z} = {}
    <3>1. \A y \in T : z >= y
      BY <2>1
    <3> QED
      BY <3>1
  <2>2. CASE T \ {z} # {}
    <3>1. PICK x \in T \ {z} : \A y \in T \ {z} : x >= y
      BY <1>2, <2>2
    <3>2. CASE x >= z
      BY <3>1, <3>2
    <3>3. CASE ~ (x >= z)
      <4>1. \A y \in T : z >= y
        BY <3>1, <3>3
      <4> QED
        BY <4>1
    <3> QED
      BY <3>2, <3>3
  <2> QED
    BY <2>1, <2>2
<1> HIDE DEF G
<1>3. SUBSET D \subseteq G
  BY <1>1, <1>2, ElementInduction
<1> QED
  BY <1>3 DEF G
=============================================================================
