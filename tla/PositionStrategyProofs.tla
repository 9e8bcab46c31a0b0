----------------------- MODULE PositionStrategyProofs -----------------------
(***************************************************************************)
(* Proofs about PositionStrategy: the account's balances and the booked    *)
(* profit are sums over the rows of the session, whatever the number of    *)
(* buy-backs, and the ladder that a restart rebuilds is the one it left.   *)
(* The sums rest on SumTheorems; PInv, which says of each location what the *)
(* loop's list, the rows and the account have in common, is inductive.     *)
(***************************************************************************)
EXTENDS PositionStrategy, SumTheorems, SequenceTheorems

-----------------------------------------------------------------------------
(***************************************************************************)
(* The folds of the model are sums.                                        *)
(***************************************************************************)
Amounts(q) == [i \in DOMAIN q |-> q[i].amount]
Values(q) == [i \in DOMAIN q |-> q[i].price * q[i].amount]
SignedAmounts(q) == [i \in DOMAIN q |-> IF q[i].side = "buy" THEN q[i].amount ELSE -q[i].amount]
SignedValues(q) ==
    [i \in DOMAIN q |-> IF q[i].side = "buy" THEN q[i].price * q[i].amount
                        ELSE -(q[i].price * q[i].amount)]
EntryAmounts(q) == [i \in DOMAIN q |-> IF q[i].side = q[1].side THEN q[i].amount ELSE 0]
EntryValues(q) ==
    [i \in DOMAIN q |-> IF q[i].side = q[1].side THEN q[i].price * q[i].amount ELSE 0]

\* What a list's orders took from the quote balance.
Cost(q) == Total(SignedValues(q))

\* A fold from the left takes the greatest index of what is left.
LastFirst(q) == [S \in SUBSET DOMAIN q |-> Max(S)]

\* It picks an element of whatever is left.
LEMMA LastFirstPicks ==
  ASSUME NEW q \in Seq(Order)
  PROVE  /\ IsFiniteSet(DOMAIN q) /\ DOMAIN q \in SUBSET Int
         /\ \A S \in SUBSET DOMAIN q : S # {} =>
              LastFirst(q)[S] = Max(S) /\ Max(S) \in S
<1>1. IsFiniteSet(DOMAIN q) /\ DOMAIN q \in SUBSET Int
  BY FS_Interval
<1>2. ASSUME NEW S \in SUBSET DOMAIN q, S # {} PROVE Max(S) \in S
  <2>1. \E x \in S : \A y \in S : x >= y
    BY <1>1, <1>2, Greatest
  <2> QED
    BY <2>1 DEF Max
<1> QED
  BY <1>1, <1>2 DEF LastFirst

\* Orders have natural amounts and prices, and the weights of a list are integers.
LEMMA OrderWeights ==
  ASSUME NEW q \in Seq(Order)
  PROVE  /\ \A i \in DOMAIN q : /\ q[i] \in Order /\ q[i].amount \in Nat \ {0}
                                /\ q[i].price \in Nat \ {0}
                                /\ q[i].price * q[i].amount \in Nat \ {0}
         /\ Weights(Amounts(q)) /\ Weights(Values(q)) /\ Weights(SignedAmounts(q))
         /\ Weights(EntryAmounts(q)) /\ Weights(EntryValues(q)) /\ Weights(SignedValues(q))
<1>1. IsFiniteSet(DOMAIN q)
  BY LastFirstPicks
<1>2. ASSUME NEW i \in DOMAIN q
      PROVE  /\ q[i] \in Order /\ q[i].amount \in Nat \ {0} /\ q[i].price \in Nat \ {0}
             /\ q[i].price * q[i].amount \in Nat \ {0}
  <2>1. q[i] \in Order
    OBVIOUS
  <2>2. q[i].amount \in Nat \ {0} /\ q[i].price \in Nat \ {0}
    BY <2>1 DEF Order
  <2>3. \A a, b \in Nat \ {0} : a * b \in Nat \ {0}
    OBVIOUS
  <2> QED
    BY <2>1, <2>2, <2>3
<1>3. Weights(Amounts(q))
  BY <1>1, <1>2 DEF Weights, Amounts
<1>4. Weights(Values(q))
  BY <1>1, <1>2 DEF Weights, Values
<1>5. Weights(SignedAmounts(q))
  BY <1>1, <1>2 DEF Weights, SignedAmounts
<1>6. Weights(EntryAmounts(q))
  BY <1>1, <1>2 DEF Weights, EntryAmounts
<1>7. Weights(EntryValues(q))
  BY <1>1, <1>2 DEF Weights, EntryValues
<1>8. Weights(SignedValues(q))
  BY <1>1, <1>2 DEF Weights, SignedValues
<1> QED
  BY <1>2, <1>3, <1>4, <1>5, <1>6, <1>7, <1>8

\* What the orders of a list amount to.
LEMMA AmountIsTotal ==
  ASSUME NEW q \in Seq(Order)
  PROVE  Amount(q) = Total(Amounts(q))
<1> DEFINE w == Amounts(q)
           F(g) == [S \in SUBSET DOMAIN q |->
                      IF S = {} THEN 0 ELSE g[S \ {Max(S)}] + q[Max(S)].amount]
           pick == LastFirst(q)
           H(g) == [S \in SUBSET DOMAIN w |->
                      IF S = {} THEN 0 ELSE g[S \ {pick[S]}] + w[pick[S]]]
<1>1. DOMAIN w = DOMAIN q /\ Weights(w)
  BY OrderWeights DEF Amounts
<1>2. \A S \in SUBSET DOMAIN q : S # {} => pick[S] = Max(S) /\ Max(S) \in S
  BY LastFirstPicks
<1> HIDE DEF pick
<1>3. \A g : F(g) = H(g)
  BY <1>1, <1>2 DEF Amounts
<1> HIDE DEF w
<1>4. SumOf(w) = H(SumOf(w)) /\ \A g : g = H(g) => g[DOMAIN w] = Total(w)
  <2>1. \A S \in SUBSET DOMAIN w : S # {} => pick[S] \in S
    BY <1>1, <1>2
  <2> QED
    BY <1>1, <2>1, RecursiveSum
<1> HIDE DEF H
<1>5. \E g : g = F(g)
  <2> HIDE DEF F
  <2> QED
    BY <1>3, <1>4
<1>6. \A g : g = F(g) => g[DOMAIN q] = Total(w)
  <2> HIDE DEF F
  <2> QED
    BY <1>1, <1>3, <1>4
<1>7. Amount(q) = Total(w)
  BY <1>5, <1>6 DEF Amount, SumOver, FoldLeft, MapThenFoldSet
<1> QED
  BY <1>7 DEF w

\* What they are worth.
LEMMA ValueIsTotal ==
  ASSUME NEW q \in Seq(Order)
  PROVE  Value(q) = Total(Values(q))
<1> DEFINE w == Values(q)
           F(g) == [S \in SUBSET DOMAIN q |->
                      IF S = {} THEN 0 ELSE g[S \ {Max(S)}] + q[Max(S)].price * q[Max(S)].amount]
           pick == LastFirst(q)
           H(g) == [S \in SUBSET DOMAIN w |->
                      IF S = {} THEN 0 ELSE g[S \ {pick[S]}] + w[pick[S]]]
<1>1. DOMAIN w = DOMAIN q /\ Weights(w)
  BY OrderWeights DEF Values
<1>2. \A S \in SUBSET DOMAIN q : S # {} => pick[S] = Max(S) /\ Max(S) \in S
  BY LastFirstPicks
<1> HIDE DEF pick
<1>3. \A g : F(g) = H(g)
  BY <1>1, <1>2 DEF Values
<1> HIDE DEF w
<1>4. SumOf(w) = H(SumOf(w)) /\ \A g : g = H(g) => g[DOMAIN w] = Total(w)
  <2>1. \A S \in SUBSET DOMAIN w : S # {} => pick[S] \in S
    BY <1>1, <1>2
  <2> QED
    BY <1>1, <2>1, RecursiveSum
<1> HIDE DEF H
<1>5. \E g : g = F(g)
  <2> HIDE DEF F
  <2> QED
    BY <1>3, <1>4
<1>6. \A g : g = F(g) => g[DOMAIN q] = Total(w)
  <2> HIDE DEF F
  <2> QED
    BY <1>1, <1>3, <1>4
<1>7. Value(q) = Total(w)
  BY <1>5, <1>6 DEF Value, SumOver, FoldLeft, MapThenFoldSet
<1> QED
  BY <1>7 DEF w

\* Their exposure.
LEMMA NetIsTotal ==
  ASSUME NEW q \in Seq(Order)
  PROVE  Net(q) = Total(SignedAmounts(q))
<1> DEFINE w == SignedAmounts(q)
           F(g) == [S \in SUBSET DOMAIN q |->
                      IF S = {} THEN 0 ELSE g[S \ {Max(S)}] + (IF q[Max(S)].side = "buy" THEN q[Max(S)].amount ELSE -q[Max(S)].amount)]
           pick == LastFirst(q)
           H(g) == [S \in SUBSET DOMAIN w |->
                      IF S = {} THEN 0 ELSE g[S \ {pick[S]}] + w[pick[S]]]
<1>1. DOMAIN w = DOMAIN q /\ Weights(w)
  BY OrderWeights DEF SignedAmounts
<1>2. \A S \in SUBSET DOMAIN q : S # {} => pick[S] = Max(S) /\ Max(S) \in S
  BY LastFirstPicks
<1> HIDE DEF pick
<1>3. \A g : F(g) = H(g)
  BY <1>1, <1>2 DEF SignedAmounts
<1> HIDE DEF w
<1>4. SumOf(w) = H(SumOf(w)) /\ \A g : g = H(g) => g[DOMAIN w] = Total(w)
  <2>1. \A S \in SUBSET DOMAIN w : S # {} => pick[S] \in S
    BY <1>1, <1>2
  <2> QED
    BY <1>1, <2>1, RecursiveSum
<1> HIDE DEF H
<1>5. \E g : g = F(g)
  <2> HIDE DEF F
  <2> QED
    BY <1>3, <1>4
<1>6. \A g : g = F(g) => g[DOMAIN q] = Total(w)
  <2> HIDE DEF F
  <2> QED
    BY <1>1, <1>3, <1>4
<1>7. Net(q) = Total(w)
  BY <1>5, <1>6 DEF Net, SumOver, FoldLeft, MapThenFoldSet
<1> QED
  BY <1>7 DEF w

\* The amount of those on the first one's side.
LEMMA EntryAmountIsTotal ==
  ASSUME NEW q \in Seq(Order)
  PROVE  EntryAmount(q) = Total(EntryAmounts(q))
<1> DEFINE w == EntryAmounts(q)
           F(g) == [S \in SUBSET DOMAIN q |->
                      IF S = {} THEN 0 ELSE g[S \ {Max(S)}] + (IF q[Max(S)].side = q[1].side THEN q[Max(S)].amount ELSE 0)]
           pick == LastFirst(q)
           H(g) == [S \in SUBSET DOMAIN w |->
                      IF S = {} THEN 0 ELSE g[S \ {pick[S]}] + w[pick[S]]]
<1>1. DOMAIN w = DOMAIN q /\ Weights(w)
  BY OrderWeights DEF EntryAmounts
<1>2. \A S \in SUBSET DOMAIN q : S # {} => pick[S] = Max(S) /\ Max(S) \in S
  BY LastFirstPicks
<1> HIDE DEF pick
<1>3. \A g : F(g) = H(g)
  BY <1>1, <1>2 DEF EntryAmounts
<1> HIDE DEF w
<1>4. SumOf(w) = H(SumOf(w)) /\ \A g : g = H(g) => g[DOMAIN w] = Total(w)
  <2>1. \A S \in SUBSET DOMAIN w : S # {} => pick[S] \in S
    BY <1>1, <1>2
  <2> QED
    BY <1>1, <2>1, RecursiveSum
<1> HIDE DEF H
<1>5. \E g : g = F(g)
  <2> HIDE DEF F
  <2> QED
    BY <1>3, <1>4
<1>6. \A g : g = F(g) => g[DOMAIN q] = Total(w)
  <2> HIDE DEF F
  <2> QED
    BY <1>1, <1>3, <1>4
<1>7. EntryAmount(q) = Total(w)
  BY <1>5, <1>6 DEF EntryAmount, SumOver, FoldLeft, MapThenFoldSet, IsEntry, ResolvePositionSide
<1> QED
  BY <1>7 DEF w

\* The value of those on the first one's side.
LEMMA EntryValueIsTotal ==
  ASSUME NEW q \in Seq(Order)
  PROVE  EntryValue(q) = Total(EntryValues(q))
<1> DEFINE w == EntryValues(q)
           F(g) == [S \in SUBSET DOMAIN q |->
                      IF S = {} THEN 0 ELSE g[S \ {Max(S)}] + (IF q[Max(S)].side = q[1].side THEN q[Max(S)].price * q[Max(S)].amount ELSE 0)]
           pick == LastFirst(q)
           H(g) == [S \in SUBSET DOMAIN w |->
                      IF S = {} THEN 0 ELSE g[S \ {pick[S]}] + w[pick[S]]]
<1>1. DOMAIN w = DOMAIN q /\ Weights(w)
  BY OrderWeights DEF EntryValues
<1>2. \A S \in SUBSET DOMAIN q : S # {} => pick[S] = Max(S) /\ Max(S) \in S
  BY LastFirstPicks
<1> HIDE DEF pick
<1>3. \A g : F(g) = H(g)
  BY <1>1, <1>2 DEF EntryValues
<1> HIDE DEF w
<1>4. SumOf(w) = H(SumOf(w)) /\ \A g : g = H(g) => g[DOMAIN w] = Total(w)
  <2>1. \A S \in SUBSET DOMAIN w : S # {} => pick[S] \in S
    BY <1>1, <1>2
  <2> QED
    BY <1>1, <2>1, RecursiveSum
<1> HIDE DEF H
<1>5. \E g : g = F(g)
  <2> HIDE DEF F
  <2> QED
    BY <1>3, <1>4
<1>6. \A g : g = F(g) => g[DOMAIN q] = Total(w)
  <2> HIDE DEF F
  <2> QED
    BY <1>1, <1>3, <1>4
<1>7. EntryValue(q) = Total(w)
  BY <1>5, <1>6 DEF EntryValue, SumOver, FoldLeft, MapThenFoldSet, IsEntry, ResolvePositionSide
<1> QED
  BY <1>7 DEF w

-----------------------------------------------------------------------------
(***************************************************************************)
(* Lists of orders: the signs of their sums, and what one more order adds. *)
(***************************************************************************)
\* Weights that are natural numbers have a natural sum, positive with one of them.
LEMMA NaturalSum ==
  ASSUME NEW w, Weights(w), \A x \in DOMAIN w : w[x] \in Nat
  PROVE  /\ \A S \in SUBSET DOMAIN w : SumOf(w)[S] \in Nat
         /\ Total(w) \in Nat
         /\ \A k \in DOMAIN w : w[k] # 0 => Total(w) \in Nat \ {0}
<1> DEFINE D == DOMAIN w
           G == {S \in SUBSET D : SumOf(w)[S] \in Nat}
<1>1. /\ IsFiniteSet(D) /\ SumOf(w)[{}] = 0 /\ Total(w) = SumOf(w)[D]
      /\ \A S \in SUBSET D : \A x \in S : SumOf(w)[S] = SumOf(w)[S \ {x}] + w[x]
  BY SumFacts DEF Weights, Total
<1>2. {} \in G
  BY <1>1
<1>3. ASSUME NEW S \in SUBSET D, NEW x \in S, S \ {x} \in G PROVE S \in G
  <2>1. SumOf(w)[S \ {x}] \in Nat /\ w[x] \in Nat
    BY <1>3
  <2>2. SumOf(w)[S] = SumOf(w)[S \ {x}] + w[x]
    BY <1>1
  <2> QED
    BY <2>1, <2>2
<1>4. SUBSET D \subseteq G
  <2>1. \A S \in SUBSET D : \A x \in S : S \ {x} \in G => S \in G
    BY <1>3
  <2> HIDE DEF D, G
  <2>2. IsFiniteSet(D) /\ {} \in G
    BY <1>1, <1>2
  <2> QED
    BY <2>1, <2>2, ElementInduction
<1>5. ASSUME NEW k \in D, w[k] # 0 PROVE SumOf(w)[D] \in Nat \ {0}
  <2>1. SumOf(w)[D] = SumOf(w)[D \ {k}] + w[k]
    BY <1>1
  <2>2. SumOf(w)[D \ {k}] \in Nat /\ w[k] \in Nat
    BY <1>4
  <2> QED
    BY <1>5, <2>1, <2>2
<1> QED
  BY <1>1, <1>4, <1>5

\* Weights of the other sign have a sum of the other sign.
LEMMA NegatedSum ==
  ASSUME NEW v, Weights(v), NEW w, Weights(w), DOMAIN v = DOMAIN w,
         \A x \in DOMAIN w : v[x] = -w[x]
  PROVE  Total(v) = -Total(w)
<1> DEFINE D == DOMAIN w
           G == {S \in SUBSET D : SumOf(v)[S] = -SumOf(w)[S]}
<1>1. /\ IsFiniteSet(D) /\ SumOf(w)[{}] = 0 /\ SumOf(v)[{}] = 0
      /\ Total(w) = SumOf(w)[D] /\ Total(v) = SumOf(v)[D]
      /\ \A S \in SUBSET D : SumOf(w)[S] \in Int
      /\ \A S \in SUBSET D : \A x \in S : /\ SumOf(w)[S] = SumOf(w)[S \ {x}] + w[x]
                                          /\ SumOf(v)[S] = SumOf(v)[S \ {x}] + v[x]
                                          /\ w[x] \in Int
  BY SumFacts DEF Weights, Total
<1>2. {} \in G
  BY <1>1
<1>3. ASSUME NEW S \in SUBSET D, NEW x \in S, S \ {x} \in G PROVE S \in G
  <2>1. SumOf(v)[S \ {x}] = -SumOf(w)[S \ {x}] /\ v[x] = -w[x] /\ SumOf(w)[S \ {x}] \in Int
    BY <1>1, <1>3
  <2>2. /\ SumOf(w)[S] = SumOf(w)[S \ {x}] + w[x]
        /\ SumOf(v)[S] = SumOf(v)[S \ {x}] + v[x]
        /\ w[x] \in Int
    BY <1>1
  <2> QED
    BY <2>1, <2>2
<1>4. SUBSET D \subseteq G
  <2>1. \A S \in SUBSET D : \A x \in S : S \ {x} \in G => S \in G
    BY <1>3
  <2> HIDE DEF D, G
  <2>2. IsFiniteSet(D) /\ {} \in G
    BY <1>1, <1>2
  <2> QED
    BY <2>1, <2>2, ElementInduction
<1> QED
  BY <1>1, <1>4

\* A list of orders that is not empty has a first one.
LEMMA FirstOrder ==
  ASSUME NEW q \in Seq(Order), q # <<>>
  PROVE  1 \in DOMAIN q /\ q[1].price \in Nat /\ Len(q) \in Nat
<1>1. 1 \in DOMAIN q /\ Len(q) \in Nat
  OBVIOUS
<1> QED
  BY <1>1, OrderWeights

\* The sums of a list; the first order is an entry.
LEMMA Sums ==
  ASSUME NEW q \in Seq(Order)
  PROVE  /\ Amount(q) \in Nat /\ Value(q) \in Nat /\ Net(q) \in Int /\ Cost(q) \in Int
         /\ q # <<>> => EntryAmount(q) \in Nat \ {0} /\ EntryValue(q) \in Nat \ {0}
<1>1. Amount(q) \in Nat
  <2> DEFINE w == Amounts(q)
  <2>1. Weights(w) /\ \A x \in DOMAIN w : w[x] \in Nat
    BY OrderWeights DEF Amounts
  <2> HIDE DEF w
  <2>2. Total(w) \in Nat
    BY <2>1, NaturalSum
  <2> QED
    BY <2>2, AmountIsTotal DEF w
<1>2. Value(q) \in Nat
  <2> DEFINE w == Values(q)
  <2>1. Weights(w) /\ \A x \in DOMAIN w : w[x] \in Nat
    BY OrderWeights DEF Values
  <2> HIDE DEF w
  <2>2. Total(w) \in Nat
    BY <2>1, NaturalSum
  <2> QED
    BY <2>2, ValueIsTotal DEF w
<1>3. Net(q) \in Int /\ Cost(q) \in Int
  BY OrderWeights, NetIsTotal, SumFacts DEF Cost
<1>4. ASSUME q # <<>> PROVE EntryAmount(q) \in Nat \ {0}
  <2> DEFINE w == EntryAmounts(q)
  <2>0. 1 \in DOMAIN q /\ DOMAIN w = DOMAIN q
    BY <1>4 DEF EntryAmounts
  <2>1. /\ Weights(w) /\ \A x \in DOMAIN w : w[x] \in Nat
        /\ 1 \in DOMAIN w /\ w[1] # 0
    BY <2>0, OrderWeights DEF EntryAmounts
  <2> HIDE DEF w
  <2>2. Total(w) \in Nat \ {0}
    BY <2>1, NaturalSum
  <2> QED
    BY <2>2, EntryAmountIsTotal DEF w
<1>5. ASSUME q # <<>> PROVE EntryValue(q) \in Nat \ {0}
  <2> DEFINE w == EntryValues(q)
  <2>0. 1 \in DOMAIN q /\ DOMAIN w = DOMAIN q
    BY <1>5 DEF EntryValues
  <2>1. /\ Weights(w) /\ \A x \in DOMAIN w : w[x] \in Nat
        /\ 1 \in DOMAIN w /\ w[1] # 0
    BY <2>0, OrderWeights DEF EntryValues
  <2> HIDE DEF w
  <2>2. Total(w) \in Nat \ {0}
    BY <2>1, NaturalSum
  <2> QED
    BY <2>2, EntryValueIsTotal DEF w
<1> QED
  BY <1>1, <1>2, <1>3, <1>4, <1>5

Signed(side, n) == IF side = "buy" THEN n ELSE -n

\* An order at the end of a list adds its own weight to each sum.
LEMMA Appended ==
  ASSUME NEW q \in Seq(Order), NEW o \in Order
  PROVE  /\ Append(q, o) \in Seq(Order) /\ Len(Append(q, o)) = Len(q) + 1 /\ Len(q) \in Nat
         /\ Append(q, o)[Len(q) + 1] = o /\ \A i \in 1..Len(q) : Append(q, o)[i] = q[i]
         /\ Append(q, o) # <<>>
         /\ Amount(Append(q, o)) = Amount(q) + o.amount
         /\ Value(Append(q, o)) = Value(q) + o.price * o.amount
         /\ Net(Append(q, o)) = Net(q) + Signed(o.side, o.amount)
         /\ Cost(Append(q, o)) = Cost(q) + Signed(o.side, o.price * o.amount)
         /\ q # <<>> /\ o.side = q[1].side =>
              /\ EntryAmount(Append(q, o)) = EntryAmount(q) + o.amount
              /\ EntryValue(Append(q, o)) = EntryValue(q) + o.price * o.amount
<1> DEFINE r == Append(q, o)
           k == Len(q) + 1
<1>1. /\ r \in Seq(Order) /\ DOMAIN r = DOMAIN q \cup {k} /\ k \notin DOMAIN q
      /\ \A i \in DOMAIN q : r[i] = q[i]
      /\ r[k] = o /\ k \in DOMAIN r /\ DOMAIN q = 1..Len(q) /\ Len(r) = k /\ Len(q) \in Nat
  OBVIOUS
<1> HIDE DEF r, k
<1>0. r # <<>>
  BY <1>1
<1>2. Amount(r) = Amount(q) + o.amount
  <2> DEFINE v == Amounts(r)
             w == Amounts(q)
  <2>1. /\ Weights(v) /\ Weights(w) /\ DOMAIN v = DOMAIN w \cup {k} /\ k \notin DOMAIN w
        /\ \A i \in DOMAIN w : v[i] = w[i]
        /\ v[k] = o.amount
    BY <1>1, OrderWeights DEF Amounts
  <2> HIDE DEF v, w
  <2>2. Total(v) = Total(w) + v[k]
    BY <2>1, SumAdd
  <2>3. Amount(r) = Total(v) /\ Amount(q) = Total(w)
    BY <1>1, AmountIsTotal DEF v, w
  <2> QED
    BY <2>1, <2>2, <2>3
<1>3. Value(r) = Value(q) + o.price * o.amount
  <2> DEFINE v == Values(r)
             w == Values(q)
  <2>1. /\ Weights(v) /\ Weights(w) /\ DOMAIN v = DOMAIN w \cup {k} /\ k \notin DOMAIN w
        /\ \A i \in DOMAIN w : v[i] = w[i]
        /\ v[k] = o.price * o.amount
    BY <1>1, OrderWeights DEF Values
  <2> HIDE DEF v, w
  <2>2. Total(v) = Total(w) + v[k]
    BY <2>1, SumAdd
  <2>3. Value(r) = Total(v) /\ Value(q) = Total(w)
    BY <1>1, ValueIsTotal DEF v, w
  <2> QED
    BY <2>1, <2>2, <2>3
<1>4. Net(r) = Net(q) + Signed(o.side, o.amount)
  <2> DEFINE v == SignedAmounts(r)
             w == SignedAmounts(q)
  <2>1. /\ Weights(v) /\ Weights(w) /\ DOMAIN v = DOMAIN w \cup {k} /\ k \notin DOMAIN w
        /\ \A i \in DOMAIN w : v[i] = w[i]
        /\ v[k] = Signed(o.side, o.amount)
    BY <1>1, OrderWeights DEF SignedAmounts, Signed
  <2> HIDE DEF v, w
  <2>2. Total(v) = Total(w) + v[k]
    BY <2>1, SumAdd
  <2>3. Net(r) = Total(v) /\ Net(q) = Total(w)
    BY <1>1, NetIsTotal DEF v, w
  <2> QED
    BY <2>1, <2>2, <2>3
<1>5. Cost(r) = Cost(q) + Signed(o.side, o.price * o.amount)
  <2> DEFINE v == SignedValues(r)
             w == SignedValues(q)
  <2>1. /\ Weights(v) /\ Weights(w) /\ DOMAIN v = DOMAIN w \cup {k} /\ k \notin DOMAIN w
        /\ \A i \in DOMAIN w : v[i] = w[i]
        /\ v[k] = Signed(o.side, o.price * o.amount)
    BY <1>1, OrderWeights DEF SignedValues, Signed
  <2> HIDE DEF v, w
  <2>2. Total(v) = Total(w) + v[k]
    BY <2>1, SumAdd
  <2>3. Cost(r) = Total(v) /\ Cost(q) = Total(w)
    BY DEF v, w, Cost
  <2> QED
    BY <2>1, <2>2, <2>3
<1>6. ASSUME q # <<>>, o.side = q[1].side
      PROVE  EntryAmount(r) = EntryAmount(q) + o.amount
  <2> DEFINE v == EntryAmounts(r)
             w == EntryAmounts(q)
  <2>0. 1 \in DOMAIN q /\ r[1] = q[1]
    BY <1>1, <1>6
  <2>1. /\ Weights(v) /\ Weights(w) /\ DOMAIN v = DOMAIN w \cup {k} /\ k \notin DOMAIN w
        /\ \A i \in DOMAIN w : v[i] = w[i]
        /\ v[k] = o.amount
    BY <1>1, <1>6, <2>0, OrderWeights DEF EntryAmounts
  <2> HIDE DEF v, w
  <2>2. Total(v) = Total(w) + v[k]
    BY <2>1, SumAdd
  <2>3. EntryAmount(r) = Total(v) /\ EntryAmount(q) = Total(w)
    BY <1>1, EntryAmountIsTotal DEF v, w
  <2> QED
    BY <2>1, <2>2, <2>3
<1>7. ASSUME q # <<>>, o.side = q[1].side
      PROVE  EntryValue(r) = EntryValue(q) + o.price * o.amount
  <2> DEFINE v == EntryValues(r)
             w == EntryValues(q)
  <2>0. 1 \in DOMAIN q /\ r[1] = q[1]
    BY <1>1, <1>7
  <2>1. /\ Weights(v) /\ Weights(w) /\ DOMAIN v = DOMAIN w \cup {k} /\ k \notin DOMAIN w
        /\ \A i \in DOMAIN w : v[i] = w[i]
        /\ v[k] = o.price * o.amount
    BY <1>1, <1>7, <2>0, OrderWeights DEF EntryValues
  <2> HIDE DEF v, w
  <2>2. Total(v) = Total(w) + v[k]
    BY <2>1, SumAdd
  <2>3. EntryValue(r) = Total(v) /\ EntryValue(q) = Total(w)
    BY <1>1, EntryValueIsTotal DEF v, w
  <2> QED
    BY <2>1, <2>2, <2>3
<1> QED
  BY <1>0, <1>1, <1>2, <1>3, <1>4, <1>5, <1>6, <1>7 DEF r, k

\* Nothing amounts to nothing.
LEMMA NoOrders == Amount(<<>>) = 0 /\ Net(<<>>) = 0 /\ Cost(<<>>) = 0 /\ Value(<<>>) = 0
<1> DEFINE q == <<>>
<1>1. q \in Seq(Order) /\ DOMAIN q = {}
  OBVIOUS
<1> HIDE DEF q
<1>2. \A w : Weights(w) /\ DOMAIN w = {} => Total(w) = 0
  BY SumFacts DEF Total
<1>3. /\ Total(Amounts(q)) = 0 /\ Total(Values(q)) = 0
      /\ Total(SignedAmounts(q)) = 0 /\ Total(SignedValues(q)) = 0
  BY <1>1, <1>2, OrderWeights DEF Amounts, Values, SignedAmounts, SignedValues
<1>4. Amount(q) = 0 /\ Value(q) = 0 /\ Net(q) = 0 /\ Cost(q) = 0
  BY <1>1, <1>3, AmountIsTotal, ValueIsTotal, NetIsTotal DEF Cost
<1> QED
  BY <1>4 DEF q

\* Orders of one side cost what they are worth and expose what they amount to.
LEMMA OneSided ==
  ASSUME NEW q \in Seq(Order), q # <<>>, \A i \in DOMAIN q : q[i].side = q[1].side
  PROVE  Net(q) = Signed(q[1].side, Amount(q)) /\ Cost(q) = Signed(q[1].side, Value(q))
<1>1. CASE q[1].side = "buy"
  <2>1. SignedAmounts(q) = Amounts(q)
    BY <1>1 DEF SignedAmounts, Amounts
  <2>2. SignedValues(q) = Values(q)
    BY <1>1 DEF SignedValues, Values
  <2> QED
    BY <1>1, <2>1, <2>2, NetIsTotal, AmountIsTotal, ValueIsTotal DEF Cost, Signed
<1>2. CASE q[1].side # "buy"
  <2>1. Total(SignedAmounts(q)) = -Total(Amounts(q))
    <3> DEFINE v == SignedAmounts(q)
               w == Amounts(q)
    <3>1. /\ Weights(v) /\ Weights(w) /\ DOMAIN v = DOMAIN w
          /\ \A x \in DOMAIN w : v[x] = -w[x]
      BY <1>2, OrderWeights DEF SignedAmounts, Amounts
    <3> HIDE DEF v, w
    <3>2. Total(v) = -Total(w)
      BY <3>1, NegatedSum
    <3> QED
      BY <3>2 DEF v, w
  <2>2. Total(SignedValues(q)) = -Total(Values(q))
    <3> DEFINE v == SignedValues(q)
               w == Values(q)
    <3>1. /\ Weights(v) /\ Weights(w) /\ DOMAIN v = DOMAIN w
          /\ \A x \in DOMAIN w : v[x] = -w[x]
      BY <1>2, OrderWeights DEF SignedValues, Values
    <3> HIDE DEF v, w
    <3>2. Total(v) = -Total(w)
      BY <3>1, NegatedSum
    <3> QED
      BY <3>2 DEF v, w
  <2> QED
    BY <1>2, <2>1, <2>2, NetIsTotal, AmountIsTotal, ValueIsTotal DEF Cost, Signed
<1> QED
  BY <1>1, <1>2

-----------------------------------------------------------------------------
(***************************************************************************)
(* The account and the lists.                                              *)
(***************************************************************************)
\* The account has changed by what the session's rows cost and brought.
Account == free = [quote |-> Quote - Cost(rows), base |-> Base + Net(rows)]

\* The position is open, on the side of its first order.
Exposed == rows # <<>> /\ IF rows[1].side = "buy" THEN Net(rows) > 0 ELSE Net(rows) < 0

\* The last order closed the position or a part of it, alone or after others.
Reduced ==
    /\ rows # <<>>
    /\ ClosedOnce => GetProfitForTradeSession(rows) =
                       (free.quote - Quote) + Last(rows).price * (free.base - Base)
    /\ IF rows[1].side = "buy" THEN Net(rows) >= 0 ELSE Net(rows) <= 0

\* The list in memory mirrors the rows, and the loop's options follow from it.
Alike == mem # <<>> /\ Len(mem) = Len(rows) /\ mem[1].side = rows[1].side
Counted == options = [step |-> Len(mem), buyingBack |-> Amount(mem), price |-> mem[1].price]

BookedProfit ==
    /\ Reduced
    /\ DOMAIN booked = {1}
    /\ booked[1].profit = GetProfitForTradeSession(rows)
    /\ booked[1].delta = 0 \/ Len(rows) > 2

\* The inductive invariant of the proofs below, next to the types.
PInv ==
    /\ Account
    /\ pc = "enter" => rows = <<>> /\ mem = <<>>
    /\ pc \in Running => Exposed /\ Alike /\ Counted
    /\ pc \in {"down", "too small", "unfunded"} =>
         rows = <<>> \/ Exposed \/ (Covered(rows) /\ Reduced)
    /\ pc = "decide" => lastPrice \in Prices
    /\ IF pc = "ended" THEN BookedProfit ELSE booked = <<>>

\* A price and an amount no greater than others cost no more.
LEMMA Cheaper ==
  ASSUME NEW a \in Nat, NEW b \in Nat, NEW c \in Nat, NEW d \in Nat, a <= c, b <= d
  PROVE  a * b <= c * d /\ a * b \in Nat /\ c * d \in Nat
<1>1. PICK e \in Nat : c = a + e
  <2>1. c - a \in Nat /\ c = a + (c - a)
    OBVIOUS
  <2> QED
    BY <2>1
<1>2. PICK f \in Nat : d = b + f
  <2>1. d - b \in Nat /\ d = b + (d - b)
    OBVIOUS
  <2> QED
    BY <2>1
<1>3. c * d = a * b + (a * f + e * b + e * f)
  BY <1>1, <1>2
<1>4. a * b \in Nat /\ a * f \in Nat /\ e * b \in Nat /\ e * f \in Nat
  OBVIOUS
<1>5. \A m, x, y, z \in Nat : m <= m + (x + y + z) /\ m + (x + y + z) \in Nat
  OBVIOUS
<1> QED
  BY <1>3, <1>4, <1>5

\* Prices are positive, and a better one exists for no other side.
LEMMA BetterPrices ==
  ASSUME NEW side \in Sides, NEW price, NEW p \in Better(side, price)
  PROVE  /\ p \in Prices /\ p \in Nat \ {0}
         /\ side = "buy" => p <= price
         /\ side # "buy" => p >= price
BY ConfigsAssumption DEF Better

\* An executed order that is paid for enters the account with its row.
LEMMA Books ==
  ASSUME TypeOK, Account, NEW o \in Order, Executed(o), rows' = Append(rows, o),
         IF o.side = "buy" THEN o.price * o.amount <= free.quote ELSE o.amount <= free.base
  PROVE  Account' /\ free' \in [quote : Nat, base : Nat] /\ rows' \in Seq(Order)
<1>1. /\ free \in [quote : Nat, base : Nat] /\ rows \in Seq(Order)
      /\ Quote \in Nat /\ Base \in Nat
  BY NumbersAssumption DEF TypeOK
<1>2. o.amount \in Nat /\ o.price * o.amount \in Nat
  <2>1. o.price \in Nat /\ o.amount \in Nat
    BY DEF Order
  <2> QED
    BY <2>1
<1>3. PICK c : c = o.price * o.amount
  OBVIOUS
<1>4. /\ rows' \in Seq(Order)
      /\ Net(rows') = Net(rows) + Signed(o.side, o.amount) /\ Net(rows) \in Int
      /\ Cost(rows') = Cost(rows) + Signed(o.side, c) /\ Cost(rows) \in Int
  <2>1. PICK q \in Seq(Order) : q = rows
    BY <1>1
  <2>2. PICK r : r = Append(q, o)
    OBVIOUS
  <2>3. /\ r \in Seq(Order) /\ Net(r) = Net(q) + Signed(o.side, o.amount)
        /\ Cost(r) = Cost(q) + Signed(o.side, o.price * o.amount)
    BY <2>2, Appended
  <2>4. Net(q) \in Int /\ Cost(q) \in Int
    BY Sums
  <2> QED
    BY <1>3, <2>1, <2>2, <2>3, <2>4
<1>5. free.quote = Quote - Cost(rows) /\ free.base = Base + Net(rows)
  BY DEF Account
<1>6. PICK n \in Nat : n = o.amount
  BY <1>2
<1>7. PICK spent \in Int : spent = Cost(rows)
  BY <1>4
<1>8. PICK held \in Int : held = Net(rows)
  BY <1>4
<1>9. c \in Nat
  BY <1>2, <1>3
<1>10. CASE o.side = "buy"
  <2>1. free' = [quote |-> free.quote - c, base |-> free.base + n] /\ c <= free.quote
    BY <1>3, <1>6, <1>10 DEF Executed
  <2>2. Net(rows') = held + n /\ Cost(rows') = spent + c
    BY <1>4, <1>6, <1>7, <1>8, <1>10 DEF Signed
  <2>3. (Quote - spent) - c = Quote - (spent + c) /\ (Base + held) + n = Base + (held + n)
    BY <1>1, <1>9
  <2>4. Account'
    BY <1>5, <1>7, <1>8, <2>1, <2>2, <2>3 DEF Account
  <2>5. free' \in [quote : Nat, base : Nat]
    BY <1>1, <1>9, <2>1
  <2> QED
    BY <1>4, <2>4, <2>5
<1>11. CASE o.side # "buy"
  <2>1. free' = [quote |-> free.quote + c, base |-> free.base - n] /\ n <= free.base
    BY <1>3, <1>6, <1>11 DEF Executed
  <2>2. Net(rows') = held + (-n) /\ Cost(rows') = spent + (-c)
    BY <1>4, <1>6, <1>7, <1>8, <1>11 DEF Signed
  <2>3. (Quote - spent) + c = Quote - (spent + (-c)) /\ (Base + held) - n = Base + (held + (-n))
    BY <1>1, <1>9
  <2>4. Account'
    BY <1>5, <1>7, <1>8, <2>1, <2>2, <2>3 DEF Account
  <2>5. free' \in [quote : Nat, base : Nat]
    BY <1>1, <1>9, <2>1
  <2> QED
    BY <1>4, <2>4, <2>5
<1> QED
  BY <1>10, <1>11

\* A limit that the account can pay for pays for any better price and any part.
LEMMA Affordable ==
  ASSUME TypeOK, NEW side \in Sides, NEW limit \in Prices, NEW amount \in Nat,
         Required(side, limit, amount) <= Available(side),
         NEW p \in Better(side, limit), NEW q \in 1..amount
  PROVE  IF side = "buy" THEN p * q <= free.quote ELSE q <= free.base
<1>1. free \in [quote : Nat, base : Nat]
  BY DEF TypeOK
<1>2. p \in Nat /\ q \in Nat /\ limit \in Nat /\ q <= amount /\ (side = "buy" => p <= limit)
  BY BetterPrices, ConfigsAssumption
<1>3. CASE side = "buy"
  <2> DEFINE c == p * q
             d == limit * amount
  <2>1. c <= d /\ c \in Nat /\ d \in Nat
    BY <1>2, <1>3, Cheaper
  <2>2. d <= free.quote
    BY <1>3 DEF Required, Available
  <2> HIDE DEF c, d
  <2>3. c <= free.quote
    BY <1>1, <2>1, <2>2
  <2> QED
    BY <1>3, <2>3 DEF c
<1>4. CASE side # "buy"
  <2>1. amount <= free.base
    BY <1>4 DEF Required, Available
  <2> QED
    BY <1>1, <1>2, <1>4, <2>1
<1> QED
  BY <1>3, <1>4

\* An order that is opened extends both lists, and spends what the account has.
LEMMA OpenKeeps ==
  ASSUME TypeOK, Account, NEW side \in Sides, NEW price \in Prices, NEW amount \in Nat,
         \/ rows = <<>> /\ mem = <<>>
         \/ Exposed /\ Alike /\ mem[1].side = side,
         OpenPosition(side, price, amount)
  PROVE  /\ Account' /\ Exposed' /\ Alike' /\ rows' \in Seq(Order) /\ mem' \in Seq(Order)
         /\ free' \in [quote : Nat, base : Nat]
         /\ Len(mem') = Len(mem) + 1 /\ Amount(mem') = Amount(mem) + amount
         /\ Len(mem) \in Nat /\ Amount(mem) \in Nat
         /\ mem # <<>> => mem'[1].price = mem[1].price
         /\ mem = <<>> => mem'[1].price = price /\ Amount(mem') = amount /\ Len(mem') = 1
<1>1. PICK p \in Better(side, price), q \in 1..amount :
        /\ Executed([side |-> side, price |-> p, amount |-> q])
        /\ rows' = Append(rows, [side |-> side, price |-> p, amount |-> q])
  BY DEF OpenPosition
<1>2. /\ p \in Nat \ {0} /\ q \in Nat \ {0} /\ price \in Nat \ {0} /\ amount \in Nat \ {0}
      /\ mem \in Seq(Order) /\ rows \in Seq(Order)
  <2>1. p \in Nat \ {0} /\ price \in Nat \ {0}
    BY BetterPrices, ConfigsAssumption
  <2>2. q \in Nat \ {0} /\ amount \in Nat \ {0}
    BY DEF OpenPosition
  <2> QED
    BY <2>1, <2>2 DEF TypeOK
<1>3. PICK done : done = [side |-> side, price |-> p, amount |-> q]
  OBVIOUS
<1>4. PICK asked : asked = [side |-> side, price |-> price, amount |-> amount]
  OBVIOUS
<1>5. /\ done \in Order /\ done.side = side /\ done.amount = q /\ done.price = p
      /\ asked \in Order /\ asked.side = side /\ asked.amount = amount /\ asked.price = price
      /\ Executed(done) /\ rows' = Append(rows, done) /\ mem' = Append(mem, asked)
  BY <1>1, <1>2, <1>3, <1>4 DEF Order, OpenPosition
<1>6. IF side = "buy" THEN p * q <= free.quote ELSE q <= free.base
  <2>1. Required(side, price, amount) <= Available(side)
    BY DEF OpenPosition
  <2> QED
    BY <2>1, Affordable
<1>7. Account' /\ free' \in [quote : Nat, base : Nat] /\ rows' \in Seq(Order)
  BY <1>5, <1>6, Books
<1>8. /\ mem' \in Seq(Order) /\ mem' # <<>> /\ Len(mem') = Len(mem) + 1 /\ Len(mem) \in Nat
      /\ mem'[Len(mem) + 1] = asked /\ \A i \in 1..Len(mem) : mem'[i] = mem[i]
      /\ Amount(mem') = Amount(mem) + amount /\ Amount(mem) \in Nat
  <2>0. PICK m \in Seq(Order) : m = mem
    BY <1>2
  <2>1. PICK r : r = Append(m, asked)
    OBVIOUS
  <2>2. /\ r \in Seq(Order) /\ r # <<>> /\ Len(r) = Len(m) + 1 /\ Len(m) \in Nat
        /\ r[Len(m) + 1] = asked /\ \A i \in 1..Len(m) : r[i] = m[i]
        /\ Amount(r) = Amount(m) + asked.amount
    <3>1. asked \in Order
      BY <1>5
    <3> QED
      BY <2>1, <3>1, Appended
  <2>3. Amount(mem) \in Nat
    BY <1>2, Sums
  <2> QED
    BY <1>5, <2>0, <2>1, <2>2, <2>3
<1>9. /\ rows' # <<>> /\ Len(rows') = Len(rows) + 1 /\ Len(rows) \in Nat
      /\ rows'[Len(rows) + 1] = done /\ \A i \in 1..Len(rows) : rows'[i] = rows[i]
      /\ Net(rows') = Net(rows) + Signed(side, q) /\ Net(rows) \in Int
  <2>0. PICK m \in Seq(Order) : m = rows
    BY <1>2
  <2>1. PICK r : r = Append(m, done)
    OBVIOUS
  <2>2. /\ r # <<>> /\ Len(r) = Len(m) + 1 /\ Len(m) \in Nat
        /\ r[Len(m) + 1] = done /\ \A i \in 1..Len(m) : r[i] = m[i]
        /\ Net(r) = Net(m) + Signed(done.side, done.amount)
    <3>1. done \in Order
      BY <1>5
    <3> QED
      BY <2>1, <3>1, Appended
  <2>3. Net(rows) \in Int
    BY <1>2, Sums
  <2> QED
    BY <1>5, <2>0, <2>1, <2>2, <2>3
<1>10. CASE rows = <<>> /\ mem = <<>>
  <2>1. Net(rows) = 0 /\ Amount(mem) = 0 /\ Len(mem) = 0 /\ Len(rows) = 0
    BY <1>10, NoOrders
  <2>2. rows'[1].side = side /\ mem'[1] = asked /\ Len(mem') = 1
    BY <1>5, <1>8, <1>9, <2>1
  <2>3. Exposed'
    BY <1>2, <1>9, <2>1, <2>2 DEF Exposed, Signed
  <2>4. Alike'
    BY <1>5, <1>8, <1>9, <2>1, <2>2 DEF Alike
  <2> QED
    BY <1>2, <1>5, <1>7, <1>8, <1>10, <2>1, <2>2, <2>3, <2>4
<1>11. CASE Exposed /\ Alike /\ mem[1].side = side
  <2>1. /\ mem # <<>> /\ rows # <<>> /\ 1 \in 1..Len(mem) /\ 1 \in 1..Len(rows)
        /\ rows[1].side = side /\ Len(mem) = Len(rows)
    BY <1>2, <1>11 DEF Exposed, Alike
  <2>2. rows'[1] = rows[1] /\ mem'[1] = mem[1]
    BY <1>8, <1>9, <2>1
  <2>3. Exposed'
    BY <1>2, <1>9, <1>11, <2>1, <2>2 DEF Exposed, Signed
  <2>4. Alike'
    BY <1>8, <1>9, <1>11, <2>1, <2>2 DEF Alike
  <2> QED
    BY <1>7, <1>8, <2>1, <2>2, <2>3, <2>4
<1> QED
  BY <1>10, <1>11

\* The products of a price with two amounts.
LEMMA Products ==
  ASSUME NEW a \in Int, NEW q \in Int, NEW p \in Int
  PROVE  /\ (a + q) * p = p * a + p * q
         /\ p * (a + (-q)) = p * a - p * q /\ p * ((-a) + q) = p * q - p * a
         /\ p * a \in Int /\ p * q \in Int
OBVIOUS

\* What the SQL computes when one order closes a list of entries.
LEMMA ProfitOfOneClose ==
  ASSUME NEW q \in Seq(Order), q # <<>>, \A i \in DOMAIN q : q[i].side = q[1].side,
         NEW o \in Order, o.side # q[1].side
  PROVE  GetProfitForTradeSession(Append(q, o)) =
           -Cost(Append(q, o)) + o.price * Net(Append(q, o))
<1>1. PICK r : r = Append(q, o)
  OBVIOUS
<1>2. /\ r \in Seq(Order) /\ Last(r) = o
      /\ Amount(r) = Amount(q) + o.amount /\ Value(r) = Value(q) + o.price * o.amount
      /\ Net(r) = Net(q) + Signed(o.side, o.amount)
      /\ Cost(r) = Cost(q) + Signed(o.side, o.price * o.amount)
  BY <1>1, Appended DEF Last
<1>3. /\ Net(q) = Signed(q[1].side, Amount(q)) /\ Cost(q) = Signed(q[1].side, Value(q))
      /\ Amount(q) \in Int /\ Value(q) \in Int
  BY OneSided, Sums
<1>4. o.side \in Sides /\ q[1].side \in Sides /\ o.price \in Int /\ o.amount \in Int
  <2>1. 1 \in DOMAIN q /\ q[1] \in Order
    OBVIOUS
  <2> QED
    BY <2>1 DEF Order
<1>5. PICK a \in Int : a = Amount(q)
  BY <1>3
<1>6. PICK v \in Int : v = Value(q)
  BY <1>3
<1>7. PICK p \in Int : p = o.price
  BY <1>4
<1>8. PICK n \in Int : n = o.amount
  BY <1>4
<1>9. PICK c \in Int : c = p * a
  BY Products
<1>10. PICK d \in Int : d = p * n
  BY Products
<1>11. (a + n) * p = c + d /\ p * (a + (-n)) = c - d /\ p * ((-a) + n) = d - c
  BY <1>9, <1>10, Products
<1>12. Amount(r) * Last(r).price - Value(r) = c - v
  <2>1. Amount(r) * Last(r).price = c + d /\ Value(r) = v + d
    BY <1>2, <1>5, <1>6, <1>7, <1>8, <1>10, <1>11
  <2> QED
    BY <2>1
<1>13. CASE o.side = "sell"
  <2>1. q[1].side = "buy"
    BY <1>4, <1>13 DEF Sides
  <2>2. Net(r) = a + (-n) /\ Cost(r) = v + (-d)
    BY <1>2, <1>3, <1>5, <1>6, <1>7, <1>8, <1>10, <1>13, <2>1 DEF Signed
  <2>3. GetProfitForTradeSession(r) = c - v
    BY <1>2, <1>12, <1>13 DEF GetProfitForTradeSession
  <2>4. o.price * Net(r) = c - d
    BY <1>7, <1>11, <2>2
  <2> QED
    BY <1>1, <2>2, <2>3, <2>4
<1>14. CASE o.side # "sell"
  <2>1. q[1].side # "buy" /\ o.side = "buy"
    BY <1>4, <1>14 DEF Sides
  <2>2. Net(r) = (-a) + n /\ Cost(r) = (-v) + d
    BY <1>2, <1>3, <1>5, <1>6, <1>7, <1>8, <1>10, <2>1 DEF Signed
  <2>3. GetProfitForTradeSession(r) = -(c - v)
    BY <1>2, <1>12, <1>14 DEF GetProfitForTradeSession
  <2>4. o.price * Net(r) = d - c
    BY <1>7, <1>11, <2>2
  <2> QED
    BY <1>1, <2>2, <2>3, <2>4
<1> QED
  BY <1>13, <1>14

\* The SQL computes an integer.
LEMMA ProfitIsInteger ==
  ASSUME NEW q \in Seq(Order), q # <<>>
  PROVE  GetProfitForTradeSession(q) \in Int
<1>1. Len(q) \in DOMAIN q
  OBVIOUS
<1>2. Last(q).price \in Int
  BY <1>1, OrderWeights DEF Last
<1>3. Amount(q) \in Int /\ Value(q) \in Int
  BY Sums
<1>4. PICK c \in Int : c = Amount(q) * Last(q).price
  BY <1>2, <1>3
<1> QED
  BY <1>3, <1>4 DEF GetProfitForTradeSession

\* A closing order covers the exposure or leaves some of it, and turns nothing over.
LEMMA CloseKeeps ==
  ASSUME TypeOK, Account, Exposed, CloseFilledPosition
  PROVE  /\ Account' /\ free' \in [quote : Nat, base : Nat] /\ rows' \in Seq(Order)
         /\ Reduced' /\ (Exposed' \/ Covered(rows'))
         /\ Len(rows') = Len(rows) + 1
<1>1. rows \in Seq(Order) /\ rows # <<>> /\ Net(rows) \in Int
  BY Sums DEF TypeOK, Exposed
<1>2. PICK side \in Sides : side = rows[1].side
  <2>1. 1 \in DOMAIN rows
    BY <1>1
  <2> QED
    BY <1>1, <2>1, OrderWeights DEF Order
<1>3. PICK a \in Nat \ {0} : a = ClosingAmount
  BY <1>1 DEF ClosingAmount, Exposed
<1>4. PICK cs \in Sides : cs = ClosingSide
  BY DEF ClosingSide, Sides
<1>5. /\ cs = IF side = "buy" THEN "sell" ELSE "buy"
      /\ Net(rows) = Signed(side, a)
  BY <1>1, <1>2, <1>3, <1>4 DEF ClosingSide, ClosingAmount, Exposed, Signed
<1>6. PICK p \in ClosingPrices, q \in 1..a :
        /\ Executed([side |-> cs, price |-> p, amount |-> q])
        /\ rows' = Append(rows, [side |-> cs, price |-> p, amount |-> q])
  BY <1>3, <1>4 DEF CloseFilledPosition
<1>7. PICK l \in Prices : Required(cs, l, a) <= Available(cs) /\ p \in Better(cs, l)
  BY <1>3, <1>4 DEF ClosingPrices
<1>8. p \in Nat \ {0} /\ q \in Nat \ {0} /\ q <= a
  BY <1>7, BetterPrices
<1>9. PICK done : done = [side |-> cs, price |-> p, amount |-> q]
  OBVIOUS
<1>10. /\ done \in Order /\ done.side = cs /\ done.price = p /\ done.amount = q
       /\ Executed(done) /\ rows' = Append(rows, done)
  BY <1>6, <1>8, <1>9 DEF Order
<1>11. Account' /\ free' \in [quote : Nat, base : Nat] /\ rows' \in Seq(Order)
  <2>1. IF cs = "buy" THEN p * q <= free.quote ELSE q <= free.base
    BY <1>7, Affordable
  <2> QED
    BY <1>10, <2>1, Books
<1>12. /\ rows' # <<>> /\ Len(rows') = Len(rows) + 1 /\ Len(rows) \in Nat \ {0}
       /\ rows'[Len(rows) + 1] = done /\ \A i \in 1..Len(rows) : rows'[i] = rows[i]
       /\ Net(rows') = Net(rows) + Signed(cs, q)
  BY <1>1, <1>10, Appended
<1>13. rows'[1] = rows[1] /\ Last(rows') = done
  BY <1>12 DEF Last
<1>14. IF side = "buy" THEN Net(rows') >= 0 ELSE Net(rows') <= 0
  BY <1>5, <1>8, <1>12 DEF Signed
<1>15. ASSUME ClosedOnce'
       PROVE  GetProfitForTradeSession(rows') =
                (free'.quote - Quote) + Last(rows').price * (free'.base - Base)
  <2>1. \A i \in DOMAIN rows : rows[i].side = rows[1].side
    <3> SUFFICES ASSUME NEW i \in DOMAIN rows PROVE rows[i].side = rows[1].side
      OBVIOUS
    <3>1. i \in 1..Len(rows) /\ i \in 1..(Len(rows') - 1)
      BY <1>1, <1>12
    <3>2. rows'[i].side = rows'[1].side
      BY <1>15, <3>1 DEF ClosedOnce
    <3> QED
      BY <1>12, <1>13, <3>1, <3>2
  <2>2. done.side # rows[1].side
    BY <1>2, <1>5, <1>10
  <2>3. GetProfitForTradeSession(rows') = -Cost(rows') + done.price * Net(rows')
    BY <1>1, <1>10, <2>1, <2>2, ProfitOfOneClose
  <2>4. free'.quote = Quote - Cost(rows') /\ free'.base = Base + Net(rows')
    BY <1>11 DEF Account
  <2>5. Quote \in Nat /\ Base \in Nat /\ Cost(rows') \in Int /\ Net(rows') \in Int
    BY <1>11, Sums, NumbersAssumption
  <2>6. free'.quote - Quote = -Cost(rows') /\ free'.base - Base = Net(rows')
    BY <2>4, <2>5
  <2> QED
    BY <1>13, <2>3, <2>6
<1>16. Reduced'
  BY <1>2, <1>12, <1>13, <1>14, <1>15 DEF Reduced
<1>17. Exposed' \/ Covered(rows')
  <2>1. CASE Net(rows') = 0
    <3>1. done \in Range(rows')
      <4>1. Len(rows) + 1 \in DOMAIN rows'
        BY <1>11, <1>12
      <4> QED
        BY <1>12, <4>1 DEF Range
    <3>2. done.side # rows'[1].side
      BY <1>2, <1>5, <1>10, <1>13
    <3> QED
      BY <2>1, <3>1, <3>2 DEF Covered
  <2>2. CASE Net(rows') # 0
    <3>1. Net(rows') \in Int
      BY <1>11, Sums
    <3> QED
      BY <1>2, <1>12, <1>13, <1>14, <2>2, <3>1 DEF Exposed
  <2> QED
    BY <2>1, <2>2
<1> QED
  BY <1>11, <1>12, <1>16, <1>17

\* What the configuration's numbers are, and what the ladder's next amount is.
LEMMA ConfigTypes ==
  ASSUME TypeOK
  PROVE  /\ config.positionSize \in Nat \ {0} /\ config.percentProfit \in Nat
         /\ config.stopLoss \in Nat /\ config.percentBuyBackStep \in Nat
         /\ config.percentFromBalance \in Nat \ {0}
         /\ config.percentTargetAfterTakeProfit \in Nat
         /\ Unit \in Nat \ {0}
<1>1. config \in Config
  BY ConfigsAssumption DEF TypeOK
<1> QED
  BY <1>1, NumbersAssumption DEF Config

\* A buy-back of either schedule is a whole number of lots.
LEMMA LotsAreNatural ==
  ASSUME TypeOK, NEW side \in Sides, NEW price \in Prices
  PROVE  BuyBackLots(side, price) \in Nat
<1>1. price \in Nat \ {0}
  BY ConfigsAssumption
<1>2. \A a, b \in Nat : a * b \in Nat
  OBVIOUS
<1>3. \A a, b \in Nat \ {0} : a * b \in Nat \ {0}
  OBVIOUS
<1>4. CASE config.isFibonacci
  <2>1. options.step \in Nat
    BY DEF TypeOK
  <2> QED
    BY <1>2, <1>4, <2>1, ConfigTypes DEF BuyBackLots
<1>5. CASE ~config.isFibonacci
  <2>1. Required(side, price, 1) \in Nat \ {0}
    BY <1>1 DEF Required
  <2>2. Available(side) \in Nat
    BY DEF TypeOK, Available
  <2> DEFINE n == Available(side) * config.percentFromBalance
             d == Unit * Required(side, price, 1)
  <2>3. n \in Nat
    BY <1>2, <2>2, ConfigTypes
  <2>4. d \in Nat \ {0}
    BY <1>3, <2>1, ConfigTypes
  <2>5. BuyBackLots(side, price) = n \div d
    BY <1>5 DEF BuyBackLots
  <2> HIDE DEF n, d
  <2>6. n \div d \in Nat
    BY <2>3, <2>4
  <2> QED
    BY <2>5, <2>6
<1> QED
  BY <1>4, <1>5

\* A position's side is one of the two, and every running session has one.
LEMMA HeldSide ==
  ASSUME TypeOK, Alike
  PROVE  /\ mem # <<>> /\ ResolvePositionSide(mem) \in Sides /\ ClosesAs \in Sides
         /\ mem[1].side = rows[1].side /\ Len(mem) \in Nat \ {0}
         /\ mem[1].price \in Nat \ {0}
<1>0. mem \in Seq(Order) /\ mem # <<>>
  BY DEF Alike, TypeOK
<1>1. 1 \in DOMAIN mem /\ mem \in Seq(Order) /\ mem # <<>>
  BY <1>0
<1>2. mem[1] \in Order
  BY <1>1
<1> QED
  BY <1>1, <1>2 DEF Order, ResolvePositionSide, ClosesAs, Opposite, Sides, Alike

-----------------------------------------------------------------------------
(***************************************************************************)
(* Every step keeps the types and the invariant.                           *)
(***************************************************************************)
\* The parts of the invariant follow the variables they are about.
LEMMA Quiet ==
  /\ UNCHANGED <<free, rows>> => (Account' <=> Account) /\ (Reduced' <=> Reduced)
  /\ UNCHANGED rows => (Exposed' <=> Exposed)
  /\ UNCHANGED <<mem, rows>> => (Alike' <=> Alike)
  /\ UNCHANGED <<mem, options>> => (Counted' <=> Counted)
  /\ UNCHANGED <<free, rows, booked>> => (BookedProfit' <=> BookedProfit)
<1>1. UNCHANGED <<free, rows>> => (Account' <=> Account) /\ (Reduced' <=> Reduced)
  BY DEF Account, Reduced, ClosedOnce
<1>2. UNCHANGED rows => (Exposed' <=> Exposed)
  BY DEF Exposed
<1>3. UNCHANGED <<mem, rows>> => (Alike' <=> Alike)
  BY DEF Alike
<1>4. UNCHANGED <<mem, options>> => (Counted' <=> Counted)
  BY DEF Counted
<1>5. UNCHANGED <<free, rows, booked>> => (BookedProfit' <=> BookedProfit)
  BY <1>1 DEF BookedProfit
<1> QED
  BY <1>1, <1>2, <1>3, <1>4, <1>5

\* A first start, before any order.
LEMMA Initially == Init => TypeOK /\ PInv
<1> SUFFICES ASSUME Init PROVE TypeOK /\ PInv
  OBVIOUS
<1>1. TypeOK
  BY NumbersAssumption DEF Init, TypeOK, NoTarget, Running
<1>2. PInv
  <2>1. Account
    <3>1. Quote - 0 = Quote /\ Base + 0 = Base
      BY NumbersAssumption
    <3> QED
      BY <3>1, NoOrders DEF Init, Account
  <2> QED
    BY <2>1 DEF Init, PInv, Running
<1> QED
  BY <1>1, <1>2

\* The first order.
LEMMA OpenFirstKeeps ==
  ASSUME TypeOK, PInv, NEW side \in Sides, NEW price \in Prices, OpenFirstPosition(side, price)
  PROVE  TypeOK' /\ PInv'
<1>1. pc = "enter" /\ Account /\ rows = <<>> /\ mem = <<>> /\ booked = <<>>
  BY DEF OpenFirstPosition, PInv
<1>2. /\ UNCHANGED <<config, lastPrice, target, booked, restarts>>
      /\ options' = [step |-> 1, buyingBack |-> config.positionSize, price |-> price]
  BY DEF OpenFirstPosition
<1>3. config.positionSize \in Nat \ {0} /\ price \in Nat \ {0}
  BY ConfigTypes, ConfigsAssumption
<1>4. CASE OpenPosition(side, price, config.positionSize) /\ pc' = "watch"
  <2>1. /\ Account' /\ Exposed' /\ Alike' /\ free' \in [quote : Nat, base : Nat]
        /\ mem' \in Seq(Order) /\ rows' \in Seq(Order)
        /\ mem'[1].price = price /\ Amount(mem') = config.positionSize /\ Len(mem') = 1
    BY <1>1, <1>3, <1>4, OpenKeeps
  <2>2. Counted'
    BY <1>2, <2>1 DEF Counted
  <2>3. PInv'
    BY <1>1, <1>2, <1>4, <2>1, <2>2 DEF PInv, Running
  <2>4. TypeOK'
    BY <1>2, <1>3, <1>4, <2>1 DEF TypeOK, Running
  <2> QED
    BY <2>3, <2>4
<1>5. CASE Refused(side, price, config.positionSize)
  <2>1. UNCHANGED <<free, mem, rows>> /\ pc' \in {"unfunded", "too small"}
    BY <1>5 DEF Refused
  <2>2. PInv'
    BY <1>1, <1>2, <2>1, Quiet DEF PInv, Running
  <2>3. TypeOK'
    BY <1>2, <1>3, <2>1 DEF TypeOK, Running
  <2> QED
    BY <2>2, <2>3
<1> QED
  BY <1>4, <1>5 DEF OpenFirstPosition

\* A step that leaves the account, the lists and the options alone.
LEMMA LoopKeeps ==
  ASSUME TypeOK, PInv, pc \in Running, pc' \in Running,
         UNCHANGED <<config, free, mem, rows, options, booked, restarts>>,
         target' \in [indent : Nat, take : Int, stop : Int],
         lastPrice' \in Prices \cup {0}, pc' = "decide" => lastPrice' \in Prices
  PROVE  TypeOK' /\ PInv'
<1>1. Account' /\ Exposed' /\ Alike' /\ Counted' /\ booked = <<>>
  BY Quiet DEF PInv, Running
<1>2. PInv'
  BY <1>1 DEF PInv, Running
<1>3. TypeOK'
  BY DEF TypeOK, Running
<1> QED
  BY <1>2, <1>3

\* The process ends with nothing booked.
LEMMA DownKeeps ==
  ASSUME TypeOK, PInv, pc \in Running, pc' = "down", mem' = <<>>, lastPrice' = 0, target' = NoTarget,
         UNCHANGED <<config, options, booked, restarts>>,
         Account', Exposed' \/ (Covered(rows') /\ Reduced'), free' \in [quote : Nat, base : Nat], rows' \in Seq(Order)
  PROVE  TypeOK' /\ PInv'
<1>1. booked = <<>>
  BY DEF PInv, Running
<1>2. PInv'
  BY <1>1 DEF PInv, Running
<1>t. <<>> \in Seq(Order) /\ NoTarget \in [indent : Nat, take : Int, stop : Int]
  BY DEF NoTarget
<1>3. TypeOK'
  BY <1>t DEF TypeOK, Running
<1> QED
  BY <1>2, <1>3

\* A list of one order has no more than that order's sums.
LEMMA OneOrder ==
  ASSUME NEW q \in Seq(Order), Len(q) = 1
  PROVE  Amount(q) = q[1].amount /\ Value(q) = q[1].price * q[1].amount
<1>1. q = Append(<<>>, q[1]) /\ q[1] \in Order /\ <<>> \in Seq(Order)
  OBVIOUS
<1>2. q[1].amount \in Int /\ q[1].price * q[1].amount \in Int
  BY OrderWeights
<1>3. Amount(q) = 0 + q[1].amount /\ Value(q) = 0 + q[1].price * q[1].amount
  <2>1. PICK o \in Order : o = q[1]
    BY <1>1
  <2>2. PICK e \in Seq(Order) : e = <<>>
    BY <1>1
  <2>3. Amount(Append(e, o)) = Amount(e) + o.amount
        /\ Value(Append(e, o)) = Value(e) + o.price * o.amount
    BY Appended
  <2> QED
    BY <1>1, <2>1, <2>2, <2>3, NoOrders
<1> QED
  BY <1>2, <1>3

\* The loop and the tracker close the position and end the session.
LEMMA CloseAndEndKeeps ==
  ASSUME TypeOK, PInv, pc \in Running, CloseAndEnd
  PROVE  TypeOK' /\ PInv'
<1>1. Account /\ Exposed /\ Alike /\ Counted
  BY DEF PInv
<1>2. /\ Account' /\ Reduced' /\ free' \in [quote : Nat, base : Nat] /\ rows' \in Seq(Order)
      /\ Len(rows') = Len(rows) + 1 /\ GetProfitForTradeSession(rows') \in Int
  <2>1. /\ Account' /\ Reduced' /\ free' \in [quote : Nat, base : Nat] /\ rows' \in Seq(Order)
        /\ Len(rows') = Len(rows) + 1
    BY <1>1, CloseKeeps DEF CloseAndEnd
  <2>2. GetProfitForTradeSession(rows') \in Int
    BY <2>1, ProfitIsInteger DEF Reduced
  <2> QED
    BY <2>1, <2>2
<1>3. /\ booked' = <<[profit |-> GetProfitForTradeSession(rows'), delta |-> DeltaForSale]>>
      /\ mem' = <<>> /\ pc' = "ended" /\ lastPrice' = 0 /\ target' = NoTarget
      /\ UNCHANGED <<config, options, restarts>>
  BY DEF CloseAndEnd, EndTradeSession
<1>4. mem \in Seq(Order) /\ Len(mem) = Len(rows) /\ Len(mem) \in Nat \ {0}
  BY <1>1, HeldSide DEF Alike, TypeOK
<1>5. /\ options.buyingBack \in Nat /\ options.price \in Nat /\ Value(mem) \in Int
      /\ options.buyingBack = Amount(mem) /\ options.price = mem[1].price
  <2>1. options.buyingBack \in Nat /\ options.price \in Nat
    BY DEF TypeOK
  <2>2. Value(mem) \in Int
    BY <1>4, Sums
  <2> QED
    BY <1>1, <2>1, <2>2 DEF Counted
<1>6. DeltaForSale \in Int
  <2>1. options.buyingBack * options.price \in Int
    BY <1>5
  <2> QED
    BY <1>5, <2>1 DEF DeltaForSale
<1>7. DeltaForSale = 0 \/ Len(rows') > 2
  <2>1. CASE Len(mem) = 1
    <3>1. Amount(mem) = mem[1].amount /\ Value(mem) = mem[1].price * mem[1].amount
      BY <1>4, <2>1, OneOrder
    <3>2. \A a, b \in Int : b * a - a * b = 0
      OBVIOUS
    <3>3. Value(mem) - options.buyingBack * options.price = 0
      BY <1>5, <3>1, <3>2
    <3> QED
      BY <3>3 DEF DeltaForSale
  <2>2. CASE Len(mem) # 1
    BY <1>2, <1>4, <2>2
  <2> QED
    BY <2>1, <2>2
<1>8. /\ DOMAIN booked' = {1} /\ booked'[1].profit = GetProfitForTradeSession(rows')
      /\ booked'[1].delta = DeltaForSale
      /\ booked' \in [{1} -> [profit : Int, delta : Int]]
  <2>1. \A x : DOMAIN <<x>> = {1} /\ <<x>>[1] = x
    OBVIOUS
  <2>2. booked' \in [{1} -> [profit : Int, delta : Int]]
    <3> DEFINE x == [profit |-> GetProfitForTradeSession(rows'), delta |-> DeltaForSale]
    <3>1. x \in [profit : Int, delta : Int]
      BY <1>2, <1>6
    <3> HIDE DEF x
    <3>2. <<x>> \in [{1} -> [profit : Int, delta : Int]]
      BY <3>1
    <3> QED
      BY <1>3, <3>2 DEF x
  <2> QED
    BY <1>3, <2>1, <2>2
<1>9. BookedProfit'
  BY <1>2, <1>7, <1>8 DEF BookedProfit
<1>10. PInv'
  BY <1>2, <1>3, <1>9 DEF PInv, Running
<1>t. <<>> \in Seq(Order) /\ NoTarget \in [indent : Nat, take : Int, stop : Int]
  BY DEF NoTarget
<1>11. TypeOK'
  <2>1. booked' \in [{1} -> [profit : Int, delta : Int]]
    BY <1>8
  <2> QED
    BY <1>2, <1>3, <1>t, <2>1 DEF TypeOK, Running
<1> QED
  BY <1>10, <1>11

\* Another order of the ladder, or an exchange that refuses it.
LEMMA BuyBackKeeps ==
  ASSUME TypeOK, PInv, BuyBack
  PROVE  TypeOK' /\ PInv'
<1> DEFINE side == ResolvePositionSide(mem)
           amount == BuyBackLots(side, lastPrice)
<1>1. /\ pc = "decide" /\ Account /\ Exposed /\ Alike /\ Counted /\ booked = <<>>
      /\ lastPrice \in Prices
  BY DEF BuyBack, PInv, Running
<1>2. side \in Sides /\ side = mem[1].side /\ mem # <<>>
  BY <1>1, HeldSide DEF ResolvePositionSide
<1>3. amount \in Nat
  BY <1>1, <1>2, LotsAreNatural
<1>4. UNCHANGED <<config, target, booked, restarts>> /\ lastPrice' = 0
  BY DEF BuyBack
<1>5. \/ /\ OpenPosition(side, lastPrice, amount)
         /\ options' = [options EXCEPT !.step = @ + 1, !.buyingBack = @ + amount]
         /\ pc' = "watch"
      \/ Refused(side, lastPrice, amount) /\ UNCHANGED options
  BY DEF BuyBack
<1> HIDE DEF side, amount
<1>6. CASE /\ OpenPosition(side, lastPrice, amount)
           /\ options' = [options EXCEPT !.step = @ + 1, !.buyingBack = @ + amount]
           /\ pc' = "watch"
  <2>1. /\ Account' /\ Exposed' /\ Alike' /\ free' \in [quote : Nat, base : Nat]
        /\ mem' \in Seq(Order) /\ rows' \in Seq(Order)
        /\ Len(mem') = Len(mem) + 1 /\ Amount(mem') = Amount(mem) + amount
        /\ mem'[1].price = mem[1].price
    BY <1>1, <1>2, <1>3, <1>6, OpenKeeps
  <2>2. options \in [step : Nat, buyingBack : Nat, price : Nat]
    BY DEF TypeOK
  <2>3. /\ options' = [step |-> Len(mem) + 1, buyingBack |-> Amount(mem) + amount,
                       price |-> mem[1].price]
        /\ options' \in [step : Nat, buyingBack : Nat, price : Nat]
    <3>1. options'.step = Len(mem) + 1 /\ options'.buyingBack = Amount(mem) + amount
      BY <1>1, <1>6, <2>2 DEF Counted
    <3>2. options' = [step |-> options.step + 1, buyingBack |-> options.buyingBack + amount,
                      price |-> options.price]
      BY <1>6, <2>2
    <3>3. options.price = mem[1].price
      BY <1>1 DEF Counted
    <3> QED
      BY <1>3, <2>2, <3>1, <3>2, <3>3
  <2>4. Counted'
    BY <2>1, <2>3 DEF Counted
  <2>5. PInv'
    BY <1>1, <1>4, <1>6, <2>1, <2>4 DEF PInv, Running
  <2>6. TypeOK'
    BY <1>4, <1>6, <2>1, <2>3 DEF TypeOK, Running
  <2> QED
    BY <2>5, <2>6
<1>7. CASE Refused(side, lastPrice, amount) /\ UNCHANGED options
  <2>1. UNCHANGED <<free, mem, rows>> /\ pc' \in {"unfunded", "too small"}
    BY <1>7 DEF Refused
  <2>2. PInv'
    BY <1>1, <1>4, <2>1, Quiet DEF PInv, Running
  <2>3. TypeOK'
    BY <1>4, <1>7, <2>1 DEF TypeOK, Running
  <2> QED
    BY <2>2, <2>3
<1> QED
  BY <1>5, <1>6, <1>7

\* The targets of the tracker are integers.
LEMMA TargetTypes ==
  ASSUME NEW side, NEW price \in Prices, NEW indent \in Nat
  PROVE  CalculateTarget(side, price, indent) \in [indent : Nat, take : Int, stop : Int]
<1>1. price \in Nat /\ Unit \in Nat
  BY ConfigsAssumption, NumbersAssumption
<1>2. Unit * price \in Int
  BY <1>1
<1> DEFINE c == Unit * price
           sign == IF side = "sell" THEN 1 ELSE -1
<1>3. c \in Int /\ sign \in Int /\ sign * indent \in Int
  BY <1>2
<1> HIDE DEF c, sign
<1>4. c + sign * indent \in Int /\ c - sign * indent \in Int
  BY <1>3
<1> QED
  BY <1>4 DEF CalculateTarget, c, sign

\* The next start resumes a position that is open and ends a session whose position is not.
LEMMA RestartKeeps ==
  ASSUME TypeOK, PInv, Restart
  PROVE  TypeOK' /\ PInv'
<1>1. /\ pc \in {"down", "too small", "unfunded"} /\ rows # <<>> /\ booked = <<>>
      /\ Account /\ (Exposed \/ (Covered(rows) /\ Reduced))
  BY DEF Restart, PInv
<1>2. /\ UNCHANGED <<config, free, lastPrice, target>> /\ rows' = rows
      /\ restarts' \in 0..MaxRestarts
  <2>1. restarts \in 0..MaxRestarts /\ MaxRestarts \in Nat
    BY NumbersAssumption DEF TypeOK
  <2>2. restarts < MaxRestarts /\ restarts' = restarts + 1
    BY DEF Restart
  <2>3. restarts' \in 0..MaxRestarts
    BY <2>1, <2>2
  <2> QED
    BY <2>3 DEF Restart
<1>3. Exposed => ~Covered(rows)
  BY DEF Exposed, Covered
<1>4. CASE Covered(rows)
  <2>1. Reduced /\ EndTradeSession(0) /\ UNCHANGED options
    BY <1>1, <1>3, <1>4 DEF Restart
  <2>2. /\ booked' = <<[profit |-> GetProfitForTradeSession(rows), delta |-> 0]>>
        /\ mem' = <<>> /\ pc' = "ended"
    BY <1>2, <2>1 DEF EndTradeSession
  <2>3. GetProfitForTradeSession(rows) \in Int
    BY <1>1, ProfitIsInteger DEF TypeOK
  <2>4. /\ DOMAIN booked' = {1} /\ booked'[1].profit = GetProfitForTradeSession(rows)
        /\ booked'[1].delta = 0 /\ booked' \in [{1} -> [profit : Int, delta : Int]]
    <3> DEFINE x == [profit |-> GetProfitForTradeSession(rows), delta |-> 0]
    <3>1. x \in [profit : Int, delta : Int] /\ x.delta = 0
          /\ x.profit = GetProfitForTradeSession(rows)
      BY <2>3
    <3> HIDE DEF x
    <3>2. booked' = <<x>>
      BY <2>2 DEF x
    <3>3. /\ DOMAIN booked' = {1} /\ booked'[1] = x
          /\ booked' \in [{1} -> [profit : Int, delta : Int]]
      BY <3>1, <3>2
    <3> QED
      BY <3>1, <3>3
  <2>5. BookedProfit'
    <3>1. Reduced'
      BY <1>2, <2>1, Quiet
    <3> QED
      BY <1>2, <2>4, <3>1 DEF BookedProfit
  <2>6. PInv'
    <3>1. Account'
      BY <1>1, <1>2, Quiet
    <3> QED
      BY <2>2, <2>5, <3>1 DEF PInv, Running
  <2>7. <<>> \in Seq(Order)
    OBVIOUS
  <2>8. TypeOK'
    BY <1>2, <2>1, <2>2, <2>4, <2>7 DEF TypeOK, Running
  <2> QED
    BY <2>6, <2>8
<1>5. CASE ~Covered(rows)
  <2>1. Exposed /\ CheckingExistingOrders
    BY <1>1, <1>5 DEF Restart
  <2>2. /\ mem' = rows /\ pc' = "watch" /\ booked' = booked
        /\ options' = [step |-> Len(rows), buyingBack |-> Amount(rows), price |-> rows[1].price]
    BY <2>1 DEF CheckingExistingOrders
  <2>3. /\ Len(rows) \in Nat /\ Amount(rows) \in Nat /\ rows[1].price \in Nat
        /\ rows \in Seq(Order)
    <3>1. rows \in Seq(Order) /\ rows # <<>>
      BY <1>1 DEF TypeOK
    <3> QED
      BY <3>1, FirstOrder, Sums
  <2>4. Account' /\ Exposed' /\ Alike' /\ Counted'
    <3>1. Account' /\ Exposed'
      BY <1>1, <1>2, <2>1, Quiet
    <3> QED
      BY <1>1, <1>2, <2>2, <2>3, <3>1 DEF Alike, Counted
  <2>5. PInv'
    BY <1>1, <2>2, <2>4 DEF PInv, Running
  <2>6. TypeOK'
    BY <1>2, <2>2, <2>3 DEF TypeOK, Running
  <2> QED
    BY <2>5, <2>6
<1> QED
  BY <1>4, <1>5

\* The invariant is inductive: one case for each action.
LEMMA Steps ==
  ASSUME TypeOK, PInv, [Next]_vars
  PROVE  TypeOK' /\ PInv'
<1>1. ASSUME NEW p \in Prices, NEW side \in Sides, OpenFirstPosition(side, p)
      PROVE  TypeOK' /\ PInv'
  BY <1>1, OpenFirstKeeps
<1>2. ASSUME NEW p \in Prices, ReadPrice(p)
      PROVE  TypeOK' /\ PInv'
  <2>1. /\ pc \in Running /\ pc' \in Running /\ lastPrice' \in Prices
        /\ UNCHANGED <<config, free, mem, rows, options, booked, restarts>>
        /\ target' \in [indent : Nat, take : Int, stop : Int]
    BY <1>2 DEF ReadPrice, Running, TypeOK
  <2> QED
    BY <2>1, LoopKeeps
<1>3. ASSUME NEW p \in Prices, OnPriceTracker(p)
      PROVE  TypeOK' /\ PInv'
  <2>1. p * config.percentTargetAfterTakeProfit \in Nat
    <3>1. p \in Nat /\ config.percentTargetAfterTakeProfit \in Nat
      BY ConfigTypes, ConfigsAssumption
    <3> QED
      BY <3>1
  <2>2. target' \in [indent : Nat, take : Int, stop : Int]
    BY <1>3, <2>1, TargetTypes DEF OnPriceTracker
  <2>3. /\ pc \in Running /\ pc' \in Running /\ pc' # "decide" /\ lastPrice' \in Prices \cup {0}
        /\ UNCHANGED <<config, free, mem, rows, options, booked, restarts>>
    BY <1>3 DEF OnPriceTracker, Running, TypeOK
  <2> QED
    BY <2>2, <2>3, LoopKeeps
<1>4. ASSUME NEW p \in Prices, TrackerMoves(p)
      PROVE  TypeOK' /\ PInv'
  <2>1. target.indent \in Nat
    BY DEF TypeOK
  <2>2. target' \in [indent : Nat, take : Int, stop : Int]
    BY <1>4, <2>1, TargetTypes DEF TrackerMoves
  <2>3. /\ pc \in Running /\ pc' \in Running /\ pc' # "decide" /\ lastPrice' \in Prices \cup {0}
        /\ UNCHANGED <<config, free, mem, rows, options, booked, restarts>>
    BY <1>4 DEF TrackerMoves, Running, TypeOK
  <2> QED
    BY <2>2, <2>3, LoopKeeps
<1>5. CASE EmergencyStop \/ StopLoss \/ TakeProfit \/ TrackerStops
  <2>1. pc \in Running /\ CloseAndEnd
    BY <1>5 DEF EmergencyStop, StopLoss, TakeProfit, TrackerStops, Running
  <2> QED
    BY <2>1, CloseAndEndKeeps
<1>6. CASE StartTracker \/ Sleep
  <2>1. /\ pc \in Running /\ pc' \in Running /\ pc' # "decide" /\ lastPrice' \in Prices \cup {0}
        /\ UNCHANGED <<config, free, mem, rows, options, booked, restarts>>
        /\ target' \in [indent : Nat, take : Int, stop : Int]
    BY <1>6 DEF StartTracker, Sleep, Running, TypeOK
  <2> QED
    BY <2>1, LoopKeeps
<1>7. CASE TrackerFails
  <2>1. /\ pc \in Running /\ pc' \in Running /\ pc' # "decide" /\ lastPrice' \in Prices \cup {0}
        /\ UNCHANGED <<config, free, mem, rows, options, booked, restarts>>
        /\ target' \in [indent : Nat, take : Int, stop : Int]
    BY <1>7 DEF TrackerFails, Running, TypeOK, NoTarget
  <2> QED
    BY <2>1, LoopKeeps
<1>8. CASE BuyBack
  BY <1>8, BuyBackKeeps
<1>9. CASE Crash
  <2>1. pc \in Running /\ Account /\ Exposed
    BY <1>9 DEF Crash, PInv
  <2>2. /\ pc' = "down" /\ mem' = <<>> /\ lastPrice' = 0 /\ target' = NoTarget
        /\ UNCHANGED <<config, free, rows, options, booked, restarts>>
    BY <1>9 DEF Crash
  <2>3. Account' /\ Exposed' /\ free' \in [quote : Nat, base : Nat] /\ rows' \in Seq(Order)
    <3>1. Account' /\ Exposed'
      BY <2>1, <2>2, Quiet
    <3> QED
      BY <2>2, <3>1 DEF TypeOK
  <2> QED
    BY <2>1, <2>2, <2>3, DownKeeps
<1>10. CASE EndAlgorithms
  <2>1. pc \in Running /\ Account /\ Exposed /\ CloseFilledPosition
    BY <1>10 DEF EndAlgorithms, PInv
  <2>2. /\ pc' = "down" /\ mem' = <<>> /\ lastPrice' = 0 /\ target' = NoTarget
        /\ UNCHANGED <<config, options, booked, restarts>>
    BY <1>10 DEF EndAlgorithms
  <2>3. /\ Account' /\ (Exposed' \/ (Covered(rows') /\ Reduced'))
        /\ free' \in [quote : Nat, base : Nat] /\ rows' \in Seq(Order)
    BY <2>1, CloseKeeps
  <2> QED
    BY <2>1, <2>2, <2>3, DownKeeps
<1>11. CASE Restart
  BY <1>11, RestartKeeps
<1>12. CASE UNCHANGED vars
  <2>1. PInv'
    BY <1>12, Quiet DEF vars, PInv, Running
  <2>2. TypeOK'
    BY <1>12 DEF vars, TypeOK
  <2> QED
    BY <2>1, <2>2
<1> QED
  BY <1>1, <1>2, <1>3, <1>4, <1>5, <1>6, <1>7, <1>8, <1>9, <1>10, <1>11, <1>12 DEF Next

\* The account's free balances stay natural numbers on every path: no order of the ladder
\* and no closing order spends what the account does not have.
THEOREM TypeCorrect == Spec => []TypeOK
<1>1. TypeOK /\ PInv /\ [Next]_vars => TypeOK' /\ PInv'
  BY Steps
<1> QED
  BY Initially, <1>1, PTL DEF Spec

\* The balances have changed by exactly what the rows cost and brought.  While the loop runs
\* the position is open on its first side, the list in memory mirrors the rows and the
\* options are those of the list; down, the position is open or covered; ended, the last
\* order closed it or a part of it, and its profit is booked.
THEOREM LadderInvariant == Spec => []PInv
<1>1. TypeOK /\ PInv /\ [Next]_vars => TypeOK' /\ PInv'
  BY Steps
<1> QED
  BY Initially, <1>1, PTL DEF Spec

\* The profit booked for a session that one order closed is what the account gained, what
\* is left of the position at the closing price, for every number of entries, every price
\* and every partial fill, of an entry or of the closing order; and no session ends on the
\* other side of the position it opened.
THEOREM ProfitIsRealised == Spec => []BookedIsRealised
<1>1. TypeOK /\ PInv => BookedIsRealised
  <2> SUFFICES ASSUME TypeOK, PInv, booked # <<>> PROVE BookedIsRealised
    BY DEF BookedIsRealised
  <2>1. BookedProfit /\ Account
    BY DEF PInv
  <2>2. rows \in Seq(Order) /\ Net(rows) \in Int /\ Base \in Nat
    BY Sums, NumbersAssumption DEF TypeOK
  <2>3. free.base = Base + Net(rows)
    BY <2>1 DEF Account
  <2>4. IF rows[1].side = "buy" THEN free.base >= Base ELSE free.base <= Base
    BY <2>1, <2>2, <2>3 DEF BookedProfit, Reduced
  <2> QED
    BY <2>1, <2>4 DEF BookedIsRealised, BookedProfit, Reduced
<1> QED
  BY <1>1, TypeCorrect, LadderInvariant, PTL

\* While every order of the list was executed whole and at its own price, a start after a
\* crash finds the ladder's step, amount and first price where the loop left them.
THEOREM RestartsKeepLadder == Spec => []RestartKeepsLadder
<1>1. PInv => RestartKeepsLadder
  BY DEF PInv, RestartKeepsLadder, Counted, Exact
<1> QED
  BY <1>1, LadderInvariant, PTL

-----------------------------------------------------------------------------
(***************************************************************************)
(* Buy-backs improve the average price.                                    *)
(***************************************************************************)
\* An order below the average price lowers it, one above raises it.
LEMMA NewAverage ==
  ASSUME NEW a \in Nat \ {0}, NEW v \in Nat \ {0}, NEW p \in Nat \ {0}, NEW q \in Nat \ {0}
  PROVE  /\ p * a < v => (v + p * q) * a < v * (a + q)
         /\ p * a > v => (v + p * q) * a > v * (a + q)
<1>1. (v + p * q) * a = v * a + (p * a) * q
  OBVIOUS
<1>2. v * (a + q) = v * a + v * q
  OBVIOUS
<1> DEFINE c == p * a
           d == v * a
<1>3. c \in Nat /\ d \in Nat
  OBVIOUS
<1> HIDE DEF c, d
<1>4. c < v => c * q < v * q
  BY <1>3
<1>5. c > v => c * q > v * q
  BY <1>3
<1>6. c * q \in Int /\ v * q \in Int
  BY <1>3
<1>7. \A x, y, z \in Int : (x < y => z + x < z + y) /\ (x > y => z + x > z + y)
  OBVIOUS
<1>8. (c < v => d + c * q < d + v * q) /\ (c > v => d + c * q > d + v * q)
  <2> DEFINE x == c * q
             y == v * q
  <2>1. x \in Int /\ y \in Int /\ d \in Int /\ (c < v => x < y) /\ (c > v => x > y)
    BY <1>3, <1>4, <1>5, <1>6
  <2> HIDE DEF x, y
  <2>2. (c < v => d + x < d + y) /\ (c > v => d + x > d + y)
    BY <1>7, <2>1
  <2> QED
    BY <2>2 DEF x, y
<1> QED
  BY <1>1, <1>2, <1>8 DEF c, d

\* A buy-back is made at a loss.
LEMMA BuyBackAtLoss ==
  ASSUME TypeOK, Alike, Counted, lastPrice \in Prices, BuyBackHit
  PROVE  IF mem[1].side = "buy" THEN lastPrice * EntryAmount(mem) < EntryValue(mem)
                                ELSE lastPrice * EntryAmount(mem) > EntryValue(mem)
<1> DEFINE a == EntryAmount(mem)
           v == EntryValue(mem)
           n == Pnl(mem, lastPrice)
           m == config.percentBuyBackStep * options.step
<1>1. a \in Nat \ {0} /\ v \in Nat \ {0} /\ lastPrice \in Nat \ {0}
  BY Sums, ConfigsAssumption DEF Alike, TypeOK
<1>2. n = IF mem[1].side = "buy" THEN lastPrice * a - v ELSE -(lastPrice * a - v)
  BY <1>1 DEF Pnl, ResolvePositionSide
<1>3. m \in Nat \ {0}
  <2>1. config.percentBuyBackStep \in Nat \ {0}
    BY ConfigTypes DEF BuyBackHit
  <2>2. options.step \in Nat \ {0}
    BY HeldSide DEF Counted
  <2>3. \A x, y \in Nat \ {0} : x * y \in Nat \ {0}
    OBVIOUS
  <2> QED
    BY <2>1, <2>2, <2>3
<1>4. Unit * n <= (-m) * v
  BY <1>1 DEF BuyBackHit, PnlRatioAtMost, BuyBackPercent
<1>5. lastPrice * a \in Int /\ n \in Int
  <2>1. lastPrice * a \in Int
    BY <1>1
  <2> DEFINE c == lastPrice * a
  <2> HIDE DEF c
  <2>2. c \in Int
    BY <2>1 DEF c
  <2>3. c - v \in Int /\ -(c - v) \in Int
    BY <1>1, <2>2
  <2> QED
    BY <1>2, <2>1, <2>3 DEF c
<1> HIDE DEF a, v, n, m
<1>6. n < 0
  <2>1. (-m) * v < 0
    <3>1. m * v \in Nat \ {0}
      BY <1>1, <1>3
    <3>2. (-m) * v = -(m * v)
      BY <1>1, <1>3
    <3> QED
      BY <3>1, <3>2
  <2>2. Unit \in Nat \ {0}
    BY NumbersAssumption
  <2>3. n >= 0 => Unit * n >= 0
    BY <1>5, <2>2
  <2>4. Unit * n \in Int /\ (-m) * v \in Int
    BY <1>1, <1>3, <1>5, <2>2
  <2> QED
    BY <1>4, <1>5, <2>1, <2>3, <2>4
<1> DEFINE c == lastPrice * a
<1>7. c \in Int /\ n = IF mem[1].side = "buy" THEN c - v ELSE -(c - v)
  BY <1>2, <1>5
<1> HIDE DEF c
<1>8. IF mem[1].side = "buy" THEN c < v ELSE c > v
  BY <1>1, <1>6, <1>7
<1> QED
  BY <1>8 DEF a, c, v

\* While every entry so far was executed whole and at its own price, a buy-back of any amount,
\* at any price its limit allows, moves the average entry price towards the market.
THEOREM BuyBacksAverage == Spec => AveragesTowardsMarket
<1> DEFINE Improves ==
      LET was == EntryValue(rows) * EntryAmount(rows')
          is == EntryValue(rows') * EntryAmount(rows)
      IN IF rows[1].side = "buy" THEN is < was ELSE is > was
<1>1. ASSUME TypeOK, PInv, [Next]_vars,
             pc = "decide", Len(rows') = Len(rows) + 1, pc' = "watch", Exact
      PROVE  Improves
  <2>1. /\ Exposed /\ Alike /\ Counted /\ lastPrice \in Prices /\ Len(rows) \in Nat
    BY <1>1 DEF PInv, Running, TypeOK
  <2>2. BuyBack
    <3>1. rows' # rows
      BY <1>1, <2>1
    <3>2. ~UNCHANGED vars
      BY <3>1 DEF vars
    <3>3. Next
      BY <1>1, <3>2
    <3> QED
      BY <1>1, <3>1, <3>3 DEF Next, OpenFirstPosition, ReadPrice, OnPriceTracker, TrackerMoves,
         EmergencyStop, StopLoss, TakeProfit, StartTracker, Sleep, TrackerStops, TrackerFails,
         Crash, EndAlgorithms, Restart, CloseAndEnd, EndTradeSession
  <2> DEFINE side == ResolvePositionSide(mem)
             amount == BuyBackLots(side, lastPrice)
  <2>3. side \in Sides /\ side = mem[1].side /\ side = rows[1].side /\ amount \in Nat
    BY <1>1, <2>1, HeldSide, LotsAreNatural DEF ResolvePositionSide
  <2>4. OpenPosition(side, lastPrice, amount) /\ BuyBackHit
    BY <1>1, <2>2 DEF BuyBack, Refused
  <2> HIDE DEF side, amount
  <2>5. PICK p \in Better(side, lastPrice), q \in 1..amount :
          rows' = Append(rows, [side |-> side, price |-> p, amount |-> q])
    BY <2>4 DEF OpenPosition
  <2> DEFINE a == EntryAmount(rows)
             v == EntryValue(rows)
             o == [side |-> side, price |-> p, amount |-> q]
  <2>6. /\ p \in Nat \ {0} /\ q \in Nat \ {0} /\ lastPrice \in Nat \ {0}
        /\ side = "buy" => p <= lastPrice
        /\ side # "buy" => p >= lastPrice
        /\ o \in Order /\ o.amount = q /\ o.price = p /\ o.side = rows[1].side
    <3>1. /\ p \in Nat \ {0} /\ q \in Nat \ {0} /\ lastPrice \in Nat \ {0}
          /\ side = "buy" => p <= lastPrice
          /\ side # "buy" => p >= lastPrice
      BY <2>1, <2>3, BetterPrices, ConfigsAssumption
    <3> QED
      BY <2>3, <3>1 DEF Order
  <2>7. a \in Nat \ {0} /\ v \in Nat \ {0} /\ rows \in Seq(Order)
    BY <1>1, <2>1, Sums DEF TypeOK, Exposed
  <2>8. rows' = Append(rows, o)
    BY <2>5
  <2> HIDE DEF o
  <2>9. EntryAmount(rows') = a + q /\ EntryValue(rows') = v + p * q
    BY <2>1, <2>6, <2>7, <2>8, Appended DEF Exposed
  <2>10. IF side = "buy" THEN lastPrice * a < v ELSE lastPrice * a > v
    BY <1>1, <2>1, <2>3, <2>4, BuyBackAtLoss DEF Exact
  <2> HIDE DEF a, v
  <2>11. IF side = "buy" THEN p * a < v ELSE p * a > v
    <3> DEFINE c == lastPrice * a
               d == p * a
    <3>1. c \in Int /\ d \in Int
      BY <2>6, <2>7
    <3>2. (side = "buy" => d <= c) /\ (side # "buy" => c <= d)
      BY <2>6, <2>7, Cheaper
    <3>3. IF side = "buy" THEN c < v ELSE c > v
      BY <2>10
    <3> HIDE DEF c, d
    <3>4. IF side = "buy" THEN d < v ELSE d > v
      BY <2>7, <3>1, <3>2, <3>3
    <3> QED
      BY <3>4 DEF d
  <2>12. IF side = "buy" THEN (v + p * q) * a < v * (a + q) ELSE (v + p * q) * a > v * (a + q)
    BY <2>6, <2>7, <2>11, NewAverage
  <2> QED
    BY <2>3, <2>9, <2>12 DEF a, v
<1>2. TypeOK /\ PInv /\ [Next]_vars =>
        [pc = "decide" /\ Len(rows') = Len(rows) + 1 /\ pc' = "watch" /\ Exact => Improves]_vars
  BY <1>1
<1> QED
  BY <1>2, TypeCorrect, LadderInvariant, PTL DEF Spec, AveragesTowardsMarket
=============================================================================
