--------------------------- MODULE RecursionFacts ---------------------------
(***************************************************************************)
(* Functions defined by recursion, which the properties use to describe    *)
(* paths of any length and the algorithms to sweep and to climb: that they *)
(* exist, and what they come to.  A step that keeps what is there ends, in *)
(* a finite set, after as many applications as the set has members, with   *)
(* the least set that is closed under it.  And what is in a list from      *)
(* which only the members at some places have been kept, and in which      *)
(* order (Picked); and that finitely many numbers have a greatest.         *)
(***************************************************************************)
EXTENDS Integers, Sequences, FiniteSets, Picking, FiniteSetTheorems, WellFoundedInduction, TLAPS

\* What holds of 0 and of the successor of whatever it holds of.
LEMMA AllNaturals ==
  ASSUME NEW T, 0 \in T, \A n \in Nat : n \in T => n + 1 \in T
  PROVE  \A n \in Nat : n \in T
<1> SUFFICES ASSUME NEW k \in Nat, k \notin T PROVE FALSE
  OBVIOUS
<1> DEFINE Rest == {n \in Nat : n \notin T}
           Less == {ss \in Nat \X Nat : ss[1] < ss[2]}
<1>1. Rest \in SUBSET Nat /\ Rest # {}
  OBVIOUS
<1>2. IsWellFoundedOn(Less, Nat)
  BY NatLessThanWellFounded, Zenon DEF OpToRel
<1>3. PICK n \in Rest : \A m \in Rest : <<m, n>> \notin Less
  <2> HIDE DEF Rest, Less
  <2>1. QED
    BY <1>1, <1>2, WFMin, Zenon
<1>4. n \in Nat /\ n \notin T /\ n # 0
  OBVIOUS
<1>5. n - 1 \in Nat /\ (n - 1) + 1 = n /\ n - 1 < n
  BY <1>4
<1>6. <<n - 1, n>> \in Less
  BY <1>4, <1>5
<1>7. n - 1 \notin Rest
  <2> HIDE DEF Rest, Less
  <2>1. QED
    BY <1>3, <1>6
<1>8. n - 1 \in T
  BY <1>5, <1>7
<1>9. QED
  BY <1>4, <1>5, <1>8

\* Repeated application of a step to subsets of B.
Chain(g, B, first, step) ==
  /\ g \in [Nat -> SUBSET B]
  /\ g[0] = first
  /\ \A n \in Nat : g[n + 1] = step[g[n]]

Monotone(B, step) ==
  /\ step \in [SUBSET B -> SUBSET B]
  /\ \A X, Y \in SUBSET B : X \subseteq Y => step[X] \subseteq step[Y]

LEMMA ChainExists ==
  ASSUME NEW B, NEW first \in SUBSET B, NEW step \in [SUBSET B -> SUBSET B]
  PROVE  \E g : Chain(g, B, first, step)
<1> DEFINE Upto(h, n) == /\ h \in [Nat -> SUBSET B] /\ h[0] = first
                         /\ \A m \in Nat : m < n => h[m + 1] = step[h[m]]
           T == {n \in Nat : \E h : Upto(h, n)}
<1>1. 0 \in T
  <2> DEFINE h == [n \in Nat |-> first]
  <2>1. h \in [Nat -> SUBSET B] /\ h[0] = first
    OBVIOUS
  <2> HIDE DEF h
  <2>2. Upto(h, 0)
    BY <2>1
  <2>3. QED
    BY <2>2
<1>2. ASSUME NEW n \in Nat, n \in T PROVE n + 1 \in T
  <2>1. PICK h : Upto(h, n)
    BY <1>2
  <2> DEFINE k == [m \in Nat |-> IF m = n + 1 THEN step[h[n]] ELSE h[m]]
  <2>2. step[h[n]] \in SUBSET B
    BY <2>1
  <2>3. k \in [Nat -> SUBSET B] /\ k[0] = first
    BY <2>1, <2>2
  <2>4. ASSUME NEW m \in Nat, m < n + 1 PROVE k[m + 1] = step[k[m]]
    <3>1. k[m] = h[m]
      BY <2>4
    <3>2. CASE m = n
      <4>1. k[m + 1] = step[h[n]]
        BY <3>2
      <4>2. QED
        BY <3>1, <3>2, <4>1
    <3>3. CASE m < n
      <4>1. k[m + 1] = h[m + 1]
        BY <3>3
      <4>2. h[m + 1] = step[h[m]]
        BY <2>1, <3>3
      <4>3. QED
        BY <3>1, <4>1, <4>2
    <3>4. QED
      BY <2>4, <3>2, <3>3
  <2> HIDE DEF k
  <2>5. Upto(k, n + 1)
    BY <2>3, <2>4
  <2>6. QED
    BY <2>5
<1>3. \A n \in Nat : n \in T
  <2> HIDE DEF T
  <2>1. QED
    BY <1>1, <1>2, AllNaturals
<1>4. \A n \in Nat : \E h : Upto(h, n)
  BY <1>3
\* Two of them agree as far as both go.
<1>5. ASSUME NEW h, NEW k, NEW p \in Nat, Upto(h, p), Upto(k, p)
      PROVE  \A n \in Nat : n <= p => h[n] = k[n]
  <2> DEFINE S == {n \in Nat : n <= p => h[n] = k[n]}
  <2>1. 0 \in S
    BY <1>5
  <2>2. ASSUME NEW n \in Nat, n \in S PROVE n + 1 \in S
    <3>1. CASE n + 1 <= p
      <4>1. n < p /\ n <= p
        BY <3>1
      <4>2. h[n + 1] = step[h[n]] /\ k[n + 1] = step[k[n]] /\ h[n] = k[n]
        BY <1>5, <2>2, <4>1
      <4>3. QED
        BY <4>2
    <3>2. QED
      BY <3>1
  <2>3. \A n \in Nat : n \in S
    <3> HIDE DEF S
    <3>1. QED
      BY <2>1, <2>2, AllNaturals
  <2>4. QED
    BY <2>3
<1> DEFINE H(n) == CHOOSE h : Upto(h, n)
           g == [n \in Nat |-> H(n)[n]]
<1>6. \A n \in Nat : Upto(H(n), n)
  BY <1>4
<1>7. g[0] = first /\ g \in [Nat -> SUBSET B]
  <2> HIDE DEF H
  <2>1. QED
    BY <1>6
<1>8. ASSUME NEW n \in Nat PROVE g[n + 1] = step[g[n]]
  <2> HIDE DEF H
  <2>1. Upto(H(n), n) /\ Upto(H(n + 1), n + 1)
    BY <1>6
  <2>2. Upto(H(n + 1), n)
    BY <2>1
  <2>3. H(n)[n] = H(n + 1)[n]
    <3> HIDE DEF Upto
    <3>1. QED
      BY <1>5, <2>1, <2>2
  <2>4. H(n + 1)[n + 1] = step[H(n + 1)[n]]
    BY <2>1
  <2>5. QED
    BY <2>3, <2>4
<1> HIDE DEF g
<1>9. QED
  BY <1>7, <1>8 DEF Chain

LEMMA ChainGrows ==
  ASSUME NEW B, NEW first \in SUBSET B, NEW step, Monotone(B, step), first \subseteq step[first],
         NEW g, Chain(g, B, first, step)
  PROVE  \A n \in Nat : g[n] \subseteq g[n + 1]
<1> DEFINE T == {n \in Nat : g[n] \subseteq g[n + 1]}
<1>1. 0 \in T
  BY DEF Chain
<1>2. ASSUME NEW n \in Nat, n \in T PROVE n + 1 \in T
  <2>1. g[n] \in SUBSET B /\ g[n + 1] \in SUBSET B /\ n + 1 \in Nat
    BY DEF Chain
  <2>2. step[g[n]] \subseteq step[g[n + 1]]
    BY <1>2, <2>1 DEF Monotone
  <2>3. g[n + 1] = step[g[n]] /\ g[(n + 1) + 1] = step[g[n + 1]]
    BY <2>1 DEF Chain
  <2>4. QED
    BY <2>1, <2>2, <2>3
<1>3. QED
  <2> HIDE DEF T
  <2>1. \A n \in Nat : n \in T
    BY <1>1, <1>2, AllNaturals
  <2>2. QED
    BY <2>1 DEF T

\* Nothing is in the chain that is not in every closed set.
LEMMA ChainLeast ==
  ASSUME NEW B, NEW first, NEW step, Monotone(B, step), NEW g, Chain(g, B, first, step),
         NEW Y \in SUBSET B, first \subseteq Y, step[Y] \subseteq Y
  PROVE  \A n \in Nat : g[n] \subseteq Y
<1> DEFINE T == {n \in Nat : g[n] \subseteq Y}
<1>1. 0 \in T
  BY DEF Chain
<1>2. ASSUME NEW n \in Nat, n \in T PROVE n + 1 \in T
  <2>1. g[n] \in SUBSET B /\ g[n + 1] = step[g[n]] /\ n + 1 \in Nat
    BY DEF Chain
  <2>2. step[g[n]] \subseteq step[Y]
    BY <1>2, <2>1 DEF Monotone
  <2>3. QED
    BY <2>1, <2>2
<1>3. QED
  <2> HIDE DEF T
  <2>1. \A n \in Nat : n \in T
    BY <1>1, <1>2, AllNaturals
  <2>2. QED
    BY <2>1 DEF T

\* Each application that is not the last one adds a member.
LEMMA ChainSettles ==
  ASSUME NEW B, IsFiniteSet(B), NEW first \in SUBSET B, NEW step, Monotone(B, step),
         first \subseteq step[first], NEW g, Chain(g, B, first, step)
  PROVE  \A n \in Nat : n >= Cardinality(B) => step[g[n]] = g[n]
<1> DEFINE Size(n) == Cardinality(g[n])
           T == {n \in Nat : Size(n) >= n \/ g[n + 1] = g[n]}
<1>0. \A n \in Nat : g[n] \in SUBSET B /\ g[n + 1] = step[g[n]] /\ g[n] \subseteq g[n + 1]
  <2>1. \A n \in Nat : g[n] \subseteq g[n + 1]
    BY ChainGrows
  <2>2. \A n \in Nat : g[n] \in SUBSET B /\ g[n + 1] = step[g[n]]
    BY DEF Chain
  <2>3. QED
    BY <2>1, <2>2
<1>1. \A n \in Nat : /\ IsFiniteSet(g[n]) /\ Size(n) \in Nat
                     /\ Cardinality(B) \in Nat /\ Size(n) <= Cardinality(B)
                     /\ Size(n) = Cardinality(B) => g[n] = B
  BY <1>0, FS_Subset, FS_CardinalityType
<1>2. 0 \in T
  BY <1>1
<1>3. ASSUME NEW n \in Nat, n \in T PROVE n + 1 \in T
  <2>1. CASE g[n + 1] = g[n]
    <3>1. g[(n + 1) + 1] = g[n + 1]
      BY <1>0, <2>1
    <3>2. QED
      BY <3>1
  <2>2. CASE g[n + 1] # g[n] /\ Size(n) >= n
    <3>1. g[n] \in SUBSET g[n + 1] /\ IsFiniteSet(g[n + 1])
      BY <1>0, <1>1
    <3>2. Size(n) <= Size(n + 1) /\ Size(n) # Size(n + 1)
      BY <2>2, <3>1, FS_Subset
    <3>3. Size(n + 1) >= n + 1
      <4> HIDE DEF Size
      <4>1. Size(n) \in Nat /\ Size(n + 1) \in Nat
        BY <1>1
      <4>2. QED
        BY <2>2, <3>2, <4>1
    <3>4. QED
      BY <3>3
  <2>3. QED
    BY <1>3, <2>1, <2>2
<1>4. \A n \in Nat : n \in T
  <2> HIDE DEF T
  <2>1. QED
    BY <1>2, <1>3, AllNaturals
<1>5. ASSUME NEW n \in Nat, n >= Cardinality(B) PROVE step[g[n]] = g[n]
  <2>1. n \in T
    BY <1>4
  <2>2. CASE g[n + 1] = g[n]
    BY <1>0, <2>2
  <2>3. CASE Size(n) >= n
    <3>1. Size(n) = Cardinality(B)
      <4> HIDE DEF Size
      <4>1. Size(n) \in Nat /\ Cardinality(B) \in Nat /\ Size(n) <= Cardinality(B)
        BY <1>1
      <4>2. QED
        BY <1>5, <2>3, <4>1
    <3>2. g[n] = B
      BY <1>1, <3>1
    <3>3. g[n + 1] \subseteq B /\ g[n] \subseteq g[n + 1]
      BY <1>0
    <3>4. g[n + 1] = g[n]
      BY <3>2, <3>3
    <3>5. QED
      BY <1>0, <3>4
  <2>4. QED
    BY <2>1, <2>2, <2>3
<1>6. QED
  BY <1>5

\* The same with values of any kind.
Sequel(g, V, first, step) ==
  /\ g \in [Nat -> V]
  /\ g[0] = first
  /\ \A n \in Nat : g[n + 1] = step[g[n]]

LEMMA AChain ==
  ASSUME NEW B, NEW first, NEW step, NEW g
  PROVE  Chain(g, B, first, step) <=> Sequel(g, SUBSET B, first, step)
BY DEF Chain, Sequel

LEMMA SequelExists ==
  ASSUME NEW V, NEW first \in V, NEW step \in [V -> V]
  PROVE  \E g : Sequel(g, V, first, step)
<1> DEFINE all == [X \in SUBSET V |-> {step[x] : x \in X}]
<1>1. {first} \in SUBSET V /\ all \in [SUBSET V -> SUBSET V]
  OBVIOUS
<1>2. \A x \in V : all[{x}] = {step[x]}
  OBVIOUS
<1> HIDE DEF all
<1>3. PICK c : Chain(c, V, {first}, all)
  BY <1>1, ChainExists
<1> DEFINE T == {n \in Nat : \E x \in V : c[n] = {x}}
<1>4. 0 \in T
  BY <1>3 DEF Chain
<1>5. ASSUME NEW n \in Nat, n \in T PROVE n + 1 \in T
  <2>1. PICK x \in V : c[n] = {x}
    BY <1>5
  <2>2. c[n + 1] = all[{x}]
    BY <1>3, <2>1 DEF Chain
  <2>3. c[n + 1] = {step[x]} /\ step[x] \in V /\ n + 1 \in Nat
    BY <1>2, <2>2
  <2>4. QED
    BY <2>3
<1> HIDE DEF T
<1>6. \A n \in Nat : n \in T
  BY <1>4, <1>5, AllNaturals
<1>7. \A n \in Nat : \E x \in V : c[n] = {x}
  BY <1>6 DEF T
<1> DEFINE g == [n \in Nat |-> CHOOSE x \in V : c[n] = {x}]
<1>8. ASSUME NEW n \in Nat PROVE g[n] \in V /\ c[n] = {g[n]}
  BY <1>7
<1>9. g \in [Nat -> V]
  BY <1>8
<1> HIDE DEF g
<1>10. g[0] = first
  BY <1>3, <1>8 DEF Chain
<1>11. ASSUME NEW n \in Nat PROVE g[n + 1] = step[g[n]]
  <2>1. c[n] = {g[n]} /\ c[n + 1] = {g[n + 1]} /\ g[n] \in V
    BY <1>8
  <2>2. c[n + 1] = all[c[n]]
    BY <1>3 DEF Chain
  <2>3. all[{g[n]}] = {step[g[n]]}
    BY <1>2, <2>1
  <2>4. {g[n + 1]} = {step[g[n]]}
    BY <2>1, <2>2, <2>3
  <2>5. QED
    BY <2>4
<1>12. QED
  BY <1>9, <1>10, <1>11 DEF Sequel

LEMMA SequelUnfolds ==
  ASSUME NEW V, NEW first, NEW step, NEW g, Sequel(g, V, first, step), NEW n \in Nat
  PROVE  /\ g[n] \in V
         /\ n = 0 => g[n] = first
         /\ n # 0 => g[n - 1] \in V /\ g[n] = step[g[n - 1]]
<1>1. g[n] \in V /\ (n = 0 => g[n] = first)
  BY DEF Sequel
<1>2. ASSUME n # 0 PROVE g[n - 1] \in V /\ g[n] = step[g[n - 1]]
  <2>1. n - 1 \in Nat /\ (n - 1) + 1 = n
    BY <1>2
  <2>2. QED
    BY <2>1 DEF Sequel
<1>3. QED
  BY <1>1, <1>2

LEMMA SequelFolds ==
  ASSUME NEW V, NEW first \in V, NEW step \in [V -> V], NEW g,
         g = [n \in Nat |-> g[n]], g[0] = first,
         \A n \in Nat : g[n] \in V => g[n + 1] = step[g[n]]
  PROVE  Sequel(g, V, first, step)
<1> DEFINE T == {n \in Nat : g[n] \in V}
<1>1. 0 \in T
  OBVIOUS
<1>2. ASSUME NEW n \in Nat, n \in T PROVE n + 1 \in T
  <2>1. step[g[n]] \in V /\ n + 1 \in Nat
    BY <1>2
  <2>2. QED
    BY <1>2, <2>1
<1> HIDE DEF T
<1>3. \A n \in Nat : n \in T
  BY <1>1, <1>2, AllNaturals
<1>4. \A n \in Nat : g[n] \in V
  BY <1>3 DEF T
<1>5. g \in [Nat -> V]
  BY <1>4
<1>6. QED
  BY <1>4, <1>5 DEF Sequel

\* A function defined from 0 up to N, each value by the one before.
Stepwise(g, N, V, first, step) ==
  /\ g \in [0 .. N -> V]
  /\ g[0] = first
  /\ \A n \in 1 .. N : g[n] = step[<<n, g[n - 1]>>]

LEMMA StepByStep ==
  ASSUME NEW N \in Nat, NEW V, NEW first \in V, NEW step \in [(1 .. N) \X V -> V]
  PROVE  \E g : Stepwise(g, N, V, first, step)
<1> DEFINE Good(g, k) == /\ g \in [0 .. N -> V] /\ g[0] = first
                         /\ \A n \in 1 .. N : n <= k => g[n] = step[<<n, g[n - 1]>>]
           T == {k \in Nat : k <= N => \E g : Good(g, k)}
<1>1. 0 \in T
  <2> DEFINE g == [n \in 0 .. N |-> first]
  <2>1. g \in [0 .. N -> V] /\ g[0] = first
    OBVIOUS
  <2> HIDE DEF g
  <2>2. Good(g, 0)
    BY <2>1
  <2>3. QED
    BY <2>2
<1>2. ASSUME NEW k \in Nat, k \in T PROVE k + 1 \in T
  <2>1. SUFFICES ASSUME k + 1 <= N PROVE \E g : Good(g, k + 1)
    OBVIOUS
  <2>2. PICK h : Good(h, k)
    BY <1>2, <2>1
  <2> DEFINE new == step[<<k + 1, h[k]>>]
             g == [h EXCEPT ![k + 1] = new]
  <2>3. new \in V
    <3>1. h[k] \in V /\ k + 1 \in 1 .. N
      BY <2>1, <2>2
    <3>2. QED
      BY <3>1
  <2> HIDE DEF new
  <2>4. /\ g \in [0 .. N -> V] /\ g[0] = first /\ g[k + 1] = new
        /\ \A n \in 0 .. N : n # k + 1 => g[n] = h[n]
    BY <2>1, <2>2, <2>3
  <2> HIDE DEF g
  <2>5. ASSUME NEW n \in 1 .. N, n <= k + 1 PROVE g[n] = step[<<n, g[n - 1]>>]
    <3>1. n - 1 \in 0 .. N /\ n - 1 # k + 1
      BY <2>5
    <3>2. g[n - 1] = h[n - 1]
      BY <2>4, <3>1
    <3>3. CASE n = k + 1
      <4>1. n - 1 = k
        BY <3>3
      <4>2. g[n] = new
        BY <2>4, <3>3
      <4>3. QED
        BY <3>2, <3>3, <4>1, <4>2 DEF new
    <3>4. CASE n # k + 1
      <4>1. n <= k
        BY <2>5, <3>4
      <4>2. g[n] = h[n]
        BY <2>4, <3>4
      <4>3. h[n] = step[<<n, h[n - 1]>>]
        BY <2>2, <4>1
      <4>4. QED
        BY <3>2, <4>2, <4>3
    <3>5. QED
      BY <3>3, <3>4
  <2>6. Good(g, k + 1)
    BY <2>4, <2>5
  <2>7. QED
    BY <2>6
<1>3. \A k \in Nat : k \in T
  <2> HIDE DEF T
  <2>1. QED
    BY <1>1, <1>2, AllNaturals
<1>4. PICK g : Good(g, N)
  BY <1>3
<1>5. Stepwise(g, N, V, first, step)
  BY <1>4 DEF Stepwise
<1>6. QED
  BY <1>5

\* Following next from anywhere, until a place in stop is reached, comes to an
\* end: the measure m goes down.  The value found there is a function.
Climbing(g, D, V, stop, val, next) ==
  /\ g \in [D -> V]
  /\ \A p \in D : g[p] = IF p \in stop THEN val[p] ELSE g[next[p]]

LEMMA ClimbEnds ==
  ASSUME NEW D, NEW V, NEW stop, NEW val \in [D -> V], NEW next \in [D -> D],
         NEW m \in [D -> Nat], NEW K \in Nat, \A p \in D : m[p] <= K,
         \A p \in D : p \notin stop => m[next[p]] < m[p]
  PROVE  \E g : Climbing(g, D, V, stop, val, next)
<1> DEFINE Good(h, k) == /\ h \in [D -> V]
                         /\ \A p \in D : m[p] <= k =>
                              h[p] = IF p \in stop THEN val[p] ELSE h[next[p]]
           T == {k \in Nat : \E h : Good(h, k)}
<1>1. 0 \in T
  <2>1. ASSUME NEW p \in D, m[p] <= 0 PROVE p \in stop
    <3>1. m[p] \in Nat /\ next[p] \in D /\ m[next[p]] \in Nat
      OBVIOUS
    <3>2. QED
      BY <2>1, <3>1
  <2>2. Good(val, 0)
    BY <2>1
  <2>3. QED
    BY <2>2
<1>2. ASSUME NEW k \in Nat, k \in T PROVE k + 1 \in T
  <2>1. PICK h : Good(h, k)
    BY <1>2
  <2> DEFINE new(p) == IF m[p] <= k THEN h[p] ELSE IF p \in stop THEN val[p] ELSE h[next[p]]
             g == [p \in D |-> new(p)]
  <2>2. \A p \in D : new(p) \in V
    BY <2>1
  <2>3. g \in [D -> V] /\ \A p \in D : g[p] = new(p)
    <3> HIDE DEF new
    <3>1. QED
      BY <2>2
  <2> HIDE DEF g
  <2>4. ASSUME NEW p \in D, m[p] <= k + 1
        PROVE  g[p] = IF p \in stop THEN val[p] ELSE g[next[p]]
    <3>1. m[p] \in Nat /\ next[p] \in D /\ m[next[p]] \in Nat
      OBVIOUS
    <3>2. g[p] = IF p \in stop THEN val[p] ELSE h[next[p]]
      BY <2>1, <2>3
    <3>3. CASE p \notin stop
      <4>1. m[next[p]] <= k
        BY <2>4, <3>1, <3>3
      <4>2. g[next[p]] = h[next[p]]
        BY <2>3, <3>1, <4>1
      <4>3. QED
        BY <3>2, <3>3, <4>2
    <3>4. QED
      BY <3>2, <3>3
  <2>5. Good(g, k + 1)
    BY <2>3, <2>4
  <2>6. QED
    BY <2>5
<1>3. \A k \in Nat : k \in T
  <2> HIDE DEF T
  <2>1. QED
    BY <1>1, <1>2, AllNaturals
<1>4. PICK g : Good(g, K)
  BY <1>3
<1>5. Climbing(g, D, V, stop, val, next)
  BY <1>4 DEF Climbing
<1>6. QED
  BY <1>5

\* How many of P are at most n.
Rank(P, n) == Cardinality({j \in P : j <= n})

\* Ranks count up to the size of P, one by one.
LEMMA RankIs ==
  ASSUME NEW N \in Nat, NEW P \in SUBSET (1 .. N)
  PROVE  /\ IsFiniteSet(P) /\ Cardinality(P) \in Nat
         /\ Rank(P, 0) = 0 /\ Rank(P, N) = Cardinality(P)
         /\ \A n \in 0 .. N : Rank(P, n) \in 0 .. Cardinality(P)
         /\ \A n \in 1 .. N : Rank(P, n) = IF n \in P THEN Rank(P, n - 1) + 1 ELSE Rank(P, n - 1)
         /\ \A m, n \in 0 .. N : m <= n => Rank(P, m) <= Rank(P, n)
         /\ \A m \in 0 .. N, n \in P : m < n => Rank(P, m) < Rank(P, n)
         /\ \A k \in 1 .. Cardinality(P) : \E n \in P : Rank(P, n) = k
<1> DEFINE upto(n) == {j \in P : j <= n}
           C == Cardinality(P)
<1>0. \A j \in P : j \in Int /\ 1 <= j /\ j <= N
  OBVIOUS
<1>1. IsFiniteSet(P) /\ C \in Nat
  <2>1. IsFiniteSet(1 .. N)
    BY FS_Interval
  <2>2. QED
    BY <2>1, FS_Subset, FS_CardinalityType
<1>r. ASSUME NEW n PROVE Rank(P, n) = Cardinality(upto(n))
  BY DEF Rank
<1>2. ASSUME NEW n \in Int
      PROVE  IsFiniteSet(upto(n)) /\ Rank(P, n) \in 0 .. C
  <2>1. upto(n) \in SUBSET P
    OBVIOUS
  <2> HIDE DEF upto
  <2>2. IsFiniteSet(upto(n)) /\ Cardinality(upto(n)) <= C /\ Cardinality(upto(n)) \in Nat
    BY <1>1, <2>1, FS_Subset, FS_CardinalityType
  <2> HIDE DEF C
  <2>4. QED
    BY <1>1, <2>2, <1>r
<1>3. Rank(P, 0) = 0
  <2>1. ASSUME NEW j \in upto(0) PROVE FALSE
    <3>1. j \in Int /\ 1 <= j /\ j <= 0
      BY <1>0
    <3>2. QED
      BY <3>1
  <2>2. upto(0) = {}
    BY <2>1
  <2>3. QED
    BY <2>2, <1>r, FS_EmptySet
<1>4. Rank(P, N) = C
  <2>1. upto(N) = P
    BY <1>0
  <2>2. QED
    BY <2>1, <1>r
<1>5. ASSUME NEW n \in 1 .. N
      PROVE  Rank(P, n) = IF n \in P THEN Rank(P, n - 1) + 1 ELSE Rank(P, n - 1)
  <2>1. n \in Int /\ n - 1 \in Int /\ n \notin upto(n - 1)
    OBVIOUS
  <2>2. ASSUME NEW j \in P PROVE j <= n <=> j <= n - 1 \/ j = n
    <3>1. j \in Int
      BY <1>0
    <3>2. QED
      BY <2>1, <3>1
  <2>3. upto(n) = IF n \in P THEN upto(n - 1) \cup {n} ELSE upto(n - 1)
    <3>1. n - 1 <= n /\ n <= n
      BY <2>1
    <3>2. ASSUME n \in P PROVE upto(n) = upto(n - 1) \cup {n}
      BY <2>2, <3>1, <3>2, Zenon
    <3>3. ASSUME n \notin P PROVE upto(n) = upto(n - 1)
      BY <2>2, <3>3, Zenon
    <3>4. QED
      BY <3>2, <3>3
  <2>4. IsFiniteSet(upto(n - 1))
    BY <1>2, <2>1
  <2> HIDE DEF upto
  <2>5. Cardinality(upto(n - 1) \cup {n}) = Cardinality(upto(n - 1)) + 1
    BY <2>1, <2>4, FS_AddElement
  <2>6. QED
    BY <2>3, <2>5, <1>r
<1>6. ASSUME NEW m \in 0 .. N, NEW n \in 0 .. N, m <= n PROVE Rank(P, m) <= Rank(P, n)
  <2>1. ASSUME NEW j \in upto(m) PROVE j \in upto(n)
    <3>1. j \in P /\ j \in Int /\ j <= m
      BY <1>0
    <3>2. j <= n
      BY <1>6, <3>1
    <3>3. QED
      BY <3>1, <3>2
  <2>2. IsFiniteSet(upto(n)) /\ upto(m) \in SUBSET upto(n)
    <3>1. n \in Int
      OBVIOUS
    <3>2. IsFiniteSet(upto(n))
      BY <1>2, <3>1
    <3>3. QED
      BY <2>1, <3>2
  <2> HIDE DEF upto
  <2>3. Cardinality(upto(m)) <= Cardinality(upto(n))
    BY <2>2, FS_Subset
  <2>4. QED
    BY <2>3, <1>r
<1>7. ASSUME NEW m \in 0 .. N, NEW n \in P, m < n PROVE Rank(P, m) < Rank(P, n)
  <2>0. n \in Int /\ 1 <= n /\ n <= N
    BY <1>0
  <2>1. n \in 1 .. N /\ n - 1 \in 0 .. N /\ m <= n - 1 /\ m \in Int /\ n - 1 \in Int
    BY <1>7, <2>0
  <2>2. Rank(P, m) <= Rank(P, n - 1)
    BY <1>6, <2>1
  <2>3. Rank(P, n) = Rank(P, n - 1) + 1
    BY <1>5, <2>1
  <2>4. Rank(P, m) \in 0 .. C /\ Rank(P, n - 1) \in 0 .. C
    BY <1>2, <2>1
  <2> HIDE DEF C
  <2>5. QED
    BY <1>1, <2>2, <2>3, <2>4
<1>8. ASSUME NEW k \in 1 .. C PROVE \E n \in P : Rank(P, n) = k
  <2> DEFINE T == 1 .. C
             r == [n \in P |-> Rank(P, n)]
  <2>1. ASSUME NEW n \in P PROVE Rank(P, n) \in T
    <3>1. n \in Int /\ 0 \in 0 .. N /\ 0 < n
      BY <1>0
    <3>2. Rank(P, 0) < Rank(P, n) /\ Rank(P, n) \in 0 .. C
      BY <1>2, <1>7, <3>1
    <3> HIDE DEF C
    <3>3. QED
      BY <1>1, <1>3, <3>2
  <2>2. ASSUME NEW m \in P, NEW n \in P, Rank(P, m) = Rank(P, n) PROVE m = n
    <3>1. m \in 0 .. N /\ n \in 0 .. N /\ m \in Int /\ n \in Int
      BY <1>0
    <3>2. Rank(P, m) \in 0 .. C
      BY <1>2, <3>1
    <3>3. ~(m < n) /\ ~(n < m)
      <4> HIDE DEF C
      <4>1. ~(Rank(P, m) < Rank(P, n)) /\ ~(Rank(P, n) < Rank(P, m))
        BY <1>1, <2>2, <3>2
      <4>2. QED
        BY <1>7, <3>1, <4>1
    <3>4. QED
      BY <3>1, <3>3
  <2> HIDE DEF T
  <2>3. r \in Injection(P, T)
    BY <2>1, <2>2 DEF Injection, IsInjective
  <2>4. IsFiniteSet(T) /\ Cardinality(T) = C
    <3>1. IsFiniteSet(1 .. C)
          /\ Cardinality(1 .. C) = IF 1 > C THEN 0 ELSE C - 1 + 1
      BY <1>1, FS_Interval
    <3> HIDE DEF C
    <3>2. QED
      BY <1>1, <3>1 DEF T
  <2> HIDE DEF r, C
  <2>5. r \in Surjection(P, T)
    BY <1>1, <2>3, <2>4, FS_Injection DEF C
  <2>6. k \in T
    BY DEF T
  <2>7. PICK n \in P : r[n] = k
    BY <2>5, <2>6 DEF Surjection
  <2>8. QED
    BY <2>7 DEF r
<1> HIDE DEF upto
<1>9. QED
  BY <1>1, <1>2, <1>3, <1>4, <1>5, <1>6, <1>7, <1>8

\* The members of s at the places of P, in their order.
PickedFrom(t, s, P) ==
  /\ Len(t) = Cardinality(P) /\ DOMAIN t = 1 .. Cardinality(P)
  /\ \A n \in P : Rank(P, n) \in 1 .. Cardinality(P) /\ t[Rank(P, n)] = s[n]
  /\ \A k \in 1 .. Cardinality(P) : \E n \in P : Rank(P, n) = k /\ t[k] = s[n]

\* What is picked is what P names, in order.
LEMMA PickedIs ==
  ASSUME NEW S, NEW s \in Seq(S), NEW P \in SUBSET DOMAIN s
  PROVE  Picked(s, P) \in Seq(S) /\ PickedFrom(Picked(s, P), s, P)
<1> DEFINE N == Len(s)
           C == Cardinality(P)
           place(k) == CHOOSE n \in P : Rank(P, n) = k
           t == [k \in 1 .. C |-> s[place(k)]]
<1>1. N \in Nat /\ DOMAIN s = 1 .. N /\ \A n \in 1 .. N : s[n] \in S
  OBVIOUS
<1> HIDE DEF N
<1>2. P \in SUBSET (1 .. N)
  BY <1>1
<1>3. /\ C \in Nat
      /\ \A n \in P : Rank(P, n) \in 1 .. C
      /\ \A m, n \in P : Rank(P, m) = Rank(P, n) => m = n
      /\ \A k \in 1 .. C : \E n \in P : Rank(P, n) = k
  <2>1. C \in Nat /\ \A k \in 1 .. C : \E n \in P : Rank(P, n) = k
    BY <1>1, <1>2, RankIs
  <2>2. ASSUME NEW n \in P PROVE Rank(P, n) \in 1 .. C
    <3>1. n \in 1 .. N /\ n \in 0 .. N /\ 0 \in 0 .. N /\ 0 < n
      BY <1>1, <1>2
    <3>2. Rank(P, 0) < Rank(P, n) /\ Rank(P, n) \in 0 .. Cardinality(P) /\ Rank(P, 0) = 0
      BY <1>1, <1>2, <3>1, RankIs
    <3>3. QED
      BY <2>1, <3>2
  <2>3. ASSUME NEW m \in P, NEW n \in P, Rank(P, m) = Rank(P, n) PROVE m = n
    <3>1. m \in 0 .. N /\ n \in 0 .. N /\ m \in Int /\ n \in Int
      BY <1>1, <1>2
    <3>2. Rank(P, m) \in 1 .. C
      BY <2>2
    <3>4. ~(Rank(P, m) < Rank(P, n)) /\ ~(Rank(P, n) < Rank(P, m))
      BY <2>1, <2>3, <3>2
    <3>5. \A a \in 0 .. N, e \in P : a < e => Rank(P, a) < Rank(P, e)
      BY <1>1, <1>2, RankIs
    <3>6. ~(m < n) /\ ~(n < m)
      BY <3>1, <3>4, <3>5
    <3>3. QED
      BY <3>1, <3>6
  <2>4. QED
    BY <2>1, <2>2, <2>3
<1>4. ASSUME NEW k \in 1 .. C PROVE place(k) \in P /\ Rank(P, place(k)) = k
  <2>1. \E n \in P : Rank(P, n) = k
    BY <1>3
  <2>2. QED
    BY <2>1
<1>5. ASSUME NEW n \in P PROVE place(Rank(P, n)) = n
  BY <1>3, <1>4
<1>6. Picked(s, P) = t
  BY DEF Picked, Rank
<1> HIDE DEF place, C
<1>7. t \in Seq(S) /\ Len(t) = C /\ DOMAIN t = 1 .. C
  <2>1. \A k \in 1 .. C : s[place(k)] \in S
    BY <1>1, <1>2, <1>4
  <2>2. QED
    BY <1>3, <2>1
<1>8. ASSUME NEW n \in P PROVE Rank(P, n) \in 1 .. C /\ t[Rank(P, n)] = s[n]
  BY <1>3, <1>5
<1>9. ASSUME NEW k \in 1 .. C PROVE \E n \in P : Rank(P, n) = k /\ t[k] = s[n]
  BY <1>4
<1> HIDE DEF t
<1>10. PickedFrom(t, s, P)
  BY <1>7, <1>8, <1>9 DEF PickedFrom, C
<1>11. QED
  BY <1>6, <1>7, <1>10

\* The greatest of finitely many numbers.
LEMMA GreatestIs ==
  ASSUME NEW S \in SUBSET Nat, IsFiniteSet(S), S # {}
  PROVE  \E x \in S : \A n \in S : n <= x
<1> DEFINE T == {k \in Nat : \A R \in SUBSET Nat :
                   IsFiniteSet(R) /\ Cardinality(R) = k /\ R # {} =>
                     \E x \in R : \A n \in R : n <= x}
<1>1. 0 \in T
  <2>1. \A R \in SUBSET Nat : IsFiniteSet(R) /\ Cardinality(R) = 0 => R = {}
    BY FS_EmptySet
  <2>2. QED
    BY <2>1
<1>2. ASSUME NEW k \in Nat, k \in T PROVE k + 1 \in T
  <2>1. ASSUME NEW R \in SUBSET Nat, IsFiniteSet(R), Cardinality(R) = k + 1, R # {}
        PROVE  \E x \in R : \A n \in R : n <= x
    <3>1. PICK x \in R : TRUE
      BY <2>1
    <3> DEFINE Q == R \ {x}
    <3>2. IsFiniteSet(Q) /\ Cardinality(Q) = k
      <4>1. IsFiniteSet(Q) /\ Cardinality(Q) = Cardinality(R) - 1
        BY <2>1, <3>1, FS_RemoveElement
      <4>2. QED
        BY <1>2, <2>1, <4>1
    <3>3. CASE Q = {}
      BY <3>3
    <3>4. CASE Q # {}
      <4>1. Q \in SUBSET Nat
        OBVIOUS
      <4> HIDE DEF Q
      <4>2. PICK y \in Q : \A n \in Q : n <= y
        BY <1>2, <3>2, <3>4, <4>1
      <4>3. \A n \in Q : n \in R /\ n \in Nat
        BY <4>1 DEF Q
      <4>4. y \in R /\ y \in Nat /\ x \in Nat
        BY <4>3
      <4>5. \A n \in R : n = x \/ n \in Q
        BY DEF Q
      <4>6. CASE x <= y
        BY <4>2, <4>4, <4>5, <4>6
      <4>7. CASE y <= x
        <5>1. \A n \in Q : n <= x
          BY <4>2, <4>3, <4>4, <4>7
        <5>2. x <= x
          BY <4>4
        <5>3. QED
          BY <4>5, <5>1, <5>2
      <4>8. QED
        BY <4>4, <4>6, <4>7
    <3>5. QED
      BY <3>3, <3>4
  <2>2. QED
    BY <2>1
<1> HIDE DEF T
<1>3. \A k \in Nat : k \in T
  BY <1>1, <1>2, AllNaturals
<1>4. Cardinality(S) \in T
  BY <1>3, FS_CardinalityType
<1>5. QED
  BY <1>4 DEF T
=============================================================================
