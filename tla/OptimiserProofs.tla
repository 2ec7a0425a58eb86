-------------------------- MODULE OptimiserProofs --------------------------
(***************************************************************************)
(* What holds of the optimiser for all modules, not only for those the     *)
(* runs optimise: the modules stay well formed, with exactly the phi       *)
(* entries their edges call for, and every rewriting of run_optim's loop   *)
(* but licm's leaves less to do.                                           *)
(***************************************************************************)
EXTENDS Optimiser, RecursionFacts

-----------------------------------------------------------------------------
(* Sequences. *)

\* A sequence in the sense of the model is one in the sense of the library.
LEMMA SequenceIs ==
  ASSUME NEW s
  PROVE  IsSequence(s) <=> s \in Seq({s[i] : i \in DOMAIN s})
<1>1. ASSUME IsSequence(s) PROVE s \in Seq({s[i] : i \in DOMAIN s})
  <2> DEFINE n == Len(s)
             S == {s[i] : i \in DOMAIN s}
  <2>1. n \in Nat /\ s = [i \in 1 .. n |-> s[i]]
    BY <1>1 DEF IsSequence
  <2>2. DOMAIN s = 1 .. n
    BY <2>1
  <2>3. \A i \in 1 .. n : s[i] \in S
    BY <2>2
  <2> HIDE DEF S
  <2>4. s \in [1 .. n -> S]
    BY <2>1, <2>3
  <2> HIDE DEF n
  <2>5. QED
    BY <2>1, <2>4 DEF S
<1>2. ASSUME s \in Seq({s[i] : i \in DOMAIN s}) PROVE IsSequence(s)
  BY <1>2 DEF IsSequence
<1>3. QED
  BY <1>1, <1>2

LEMMA ASequence ==
  ASSUME NEW S, NEW s \in Seq(S)
  PROVE  IsSequence(s)
<1>1. Len(s) \in Nat /\ s = [i \in 1 .. Len(s) |-> s[i]]
  OBVIOUS
<1>2. QED
  BY <1>1 DEF IsSequence

\* What is known of the places of a sequence.
LEMMA Places ==
  ASSUME NEW s, IsSequence(s)
  PROVE  /\ Len(s) \in Nat /\ DOMAIN s = 1 .. Len(s)
         /\ s # << >> <=> Len(s) # 0
BY SequenceIs DEF IsSequence

\* A function on 1 .. n is a sequence of length n.
LEMMA ListIs ==
  ASSUME NEW n \in Nat, NEW s, s = [i \in 1 .. n |-> s[i]]
  PROVE  IsSequence(s) /\ Len(s) = n /\ DOMAIN s = 1 .. n
<1> DEFINE S == {s[i] : i \in 1 .. n}
<1>1. s \in [1 .. n -> S]
  OBVIOUS
<1> HIDE DEF S
<1>2. s \in Seq(S) /\ Len(s) = n /\ DOMAIN s = 1 .. n
  BY <1>1
<1>3. QED
  BY <1>2 DEF IsSequence

\* Two sequences, one behind the other.
LEMMA JoinIs ==
  ASSUME NEW s, NEW t, IsSequence(s), IsSequence(t)
  PROVE  /\ IsSequence(s \o t) /\ Len(s \o t) = Len(s) + Len(t)
         /\ DOMAIN (s \o t) = 1 .. Len(s) + Len(t)
         /\ \A i \in 1 .. Len(s) : (s \o t)[i] = s[i]
         /\ \A i \in 1 .. Len(t) : (s \o t)[Len(s) + i] = t[i]
<1> DEFINE S == {s[i] : i \in DOMAIN s} \cup {t[i] : i \in DOMAIN t}
<1>1. s \in Seq(S) /\ t \in Seq(S)
  <2> DEFINE A == {s[i] : i \in DOMAIN s}
             B == {t[i] : i \in DOMAIN t}
  <2>1. s \in Seq(A) /\ t \in Seq(B)
    BY SequenceIs
  <2> HIDE DEF A, B
  <2>2. s \in Seq(A \cup B) /\ t \in Seq(A \cup B)
    BY <2>1
  <2>3. QED
    BY <2>2 DEF A, B
<1> HIDE DEF S
<1>2. s \o t \in Seq(S) /\ Len(s \o t) = Len(s) + Len(t)
  BY <1>1
<1>3. IsSequence(s \o t)
  BY <1>2, ASequence
<1>4. DOMAIN (s \o t) = 1 .. Len(s) + Len(t)
  BY <1>2
<1>5. \A i \in 1 .. Len(s) : (s \o t)[i] = s[i]
  BY <1>1
<1>6. \A i \in 1 .. Len(t) : (s \o t)[Len(s) + i] = t[i]
  BY <1>1
<1>7. QED
  BY <1>2, <1>3, <1>4, <1>5, <1>6

\* What is in two lists; once, if it is in only one of them.
LEMMA JoinHas ==
  ASSUME NEW s, NEW t, IsSequence(s), IsSequence(t)
  PROVE  /\ ToSet(s \o t) = ToSet(s) \cup ToSet(t)
         /\ /\ \A i, j \in DOMAIN s : s[i] = s[j] => i = j
            /\ \A i, j \in DOMAIN t : t[i] = t[j] => i = j
            /\ ToSet(s) \cap ToSet(t) = {}
            => \A i, j \in DOMAIN (s \o t) : (s \o t)[i] = (s \o t)[j] => i = j
<1> DEFINE w == s \o t
           m == Len(s)
           n == Len(t)
<1>1. m \in Nat /\ DOMAIN s = 1 .. m /\ n \in Nat /\ DOMAIN t = 1 .. n
  BY Places
<1>2. /\ DOMAIN w = 1 .. m + n
      /\ \A i \in 1 .. m : w[i] = s[i]
      /\ \A i \in 1 .. n : w[m + i] = t[i]
  BY JoinIs
<1> HIDE DEF w, m, n
<1>3. ASSUME NEW i \in DOMAIN w
      PROVE  \/ i \in DOMAIN s /\ w[i] = s[i]
             \/ i \notin DOMAIN s /\ i - m \in DOMAIN t /\ w[i] = t[i - m]
  <2>1. CASE i \in 1 .. m
    BY <1>1, <1>2, <2>1
  <2>2. CASE i \notin 1 .. m
    <3>1. i - m \in 1 .. n /\ m + (i - m) = i
      BY <1>1, <1>2, <2>2
    <3>2. QED
      BY <1>1, <1>2, <2>2, <3>1
  <2>3. QED
    BY <2>1, <2>2
<1>4. ToSet(w) = ToSet(s) \cup ToSet(t)
  <2>1. \A i \in DOMAIN w : w[i] \in ToSet(s) \cup ToSet(t)
    BY <1>3 DEF ToSet
  <2>2. ASSUME NEW i \in DOMAIN s PROVE s[i] \in ToSet(w)
    <3>1. i \in DOMAIN w /\ w[i] = s[i]
      BY <1>1, <1>2
    <3>2. QED
      BY <3>1 DEF ToSet
  <2>3. ASSUME NEW i \in DOMAIN t PROVE t[i] \in ToSet(w)
    <3>1. m + i \in DOMAIN w /\ w[m + i] = t[i]
      BY <1>1, <1>2
    <3>2. QED
      BY <3>1 DEF ToSet
  <2>4. QED
    BY <2>1, <2>2, <2>3 DEF ToSet
<1>5. ASSUME \A i, j \in DOMAIN s : s[i] = s[j] => i = j,
             \A i, j \in DOMAIN t : t[i] = t[j] => i = j,
             ToSet(s) \cap ToSet(t) = {},
             NEW i \in DOMAIN w, NEW j \in DOMAIN w, w[i] = w[j]
      PROVE  i = j
  <2>1. \A k \in DOMAIN s, l \in DOMAIN t : s[k] # t[l]
    BY <1>5 DEF ToSet
  <2>2. i \in DOMAIN s <=> j \in DOMAIN s
    BY <1>3, <1>5, <2>1
  <2>3. CASE i \in DOMAIN s
    BY <1>3, <1>5, <2>2, <2>3
  <2>4. CASE i \notin DOMAIN s
    <3>1. i - m = j - m
      BY <1>3, <1>5, <2>2, <2>4
    <3>2. i \in Int /\ j \in Int
      BY <1>1, <1>2
    <3>3. QED
      BY <1>1, <3>1, <3>2
  <2>5. QED
    BY <2>3, <2>4
<1>6. QED
  BY <1>4, <1>5 DEF w

\* A list of one member.
LEMMA SingleIs ==
  ASSUME NEW x
  PROVE  /\ IsSequence(<<x>>) /\ ToSet(<<x>>) = {x} /\ Len(<<x>>) = 1 /\ DOMAIN <<x>> = {1}
         /\ <<x>>[1] = x
         /\ \A i, j \in DOMAIN <<x>> : i = j
<1> DEFINE t == <<x>>
<1>1. t = [i \in 1 .. 1 |-> t[i]] /\ t[1] = x /\ Len(t) = 1
  OBVIOUS
<1>2. IsSequence(t) /\ DOMAIN t = 1 .. 1
  <2> HIDE DEF t
  <2>1. QED
    BY <1>1, ListIs
<1>3. DOMAIN t = {1} /\ ToSet(t) = {x}
  BY DEF ToSet
<1>4. QED
  BY <1>1, <1>2, <1>3

\* A stretch of a sequence.
LEMMA StretchIs ==
  ASSUME NEW s, IsSequence(s), NEW m \in 1 .. Len(s) + 1, NEW n \in 0 .. Len(s), m <= n + 1
  PROVE  /\ IsSequence(SubSeq(s, m, n)) /\ Len(SubSeq(s, m, n)) = n - m + 1
         /\ DOMAIN SubSeq(s, m, n) = 1 .. n - m + 1
         /\ \A i \in 1 .. n - m + 1 : SubSeq(s, m, n)[i] = s[m + i - 1] /\ m + i - 1 \in 1 .. Len(s)
<1> DEFINE S == {s[i] : i \in DOMAIN s}
<1>1. s \in Seq(S) /\ Len(s) \in Nat
  BY SequenceIs
<1> HIDE DEF S
<1>2. SubSeq(s, m, n) \in Seq(S) /\ Len(SubSeq(s, m, n)) = n - m + 1
  BY <1>1
<1>3. IsSequence(SubSeq(s, m, n))
  BY <1>2, ASequence
<1>4. DOMAIN SubSeq(s, m, n) = 1 .. n - m + 1
  BY <1>2
<1>5. \A i \in 1 .. n - m + 1 : SubSeq(s, m, n)[i] = s[m + i - 1] /\ m + i - 1 \in 1 .. Len(s)
  BY <1>1
<1>6. QED
  BY <1>2, <1>3, <1>4, <1>5

-----------------------------------------------------------------------------
(* Blocks. *)

\* Where control goes from a block, and the lists of predecessors in its phis.
Targets(s) == IF s # << >> /\ s[Len(s)].op \in {"br", "condbr"} THEN ToSet(s[Len(s)].to) ELSE {}
Tos(s) == {s[i].to : i \in {j \in DOMAIN s : s[j].op = "phi"}}

\* A block in the middle of which nothing leaves it or joins.
Straightforward(s) == \A i \in DOMAIN s : s[i].op \notin Terminators
PhiFree(s) == \A i \in DOMAIN s : s[i].op # "phi"

\* The instruction y does for the control flow what x does.
Like(y, x, names) ==
  /\ InstOk(y, names)
  /\ y.op \in Terminators <=> x.op \in Terminators
  /\ y.op = "phi" <=> x.op = "phi"
  /\ x.op \in Terminators \cup {"phi"} => y.op = x.op /\ y.to = x.to

\* And so the block t what s does.
Alike(t, s, names) ==
  BlockOk(t, names) /\ Targets(t) = Targets(s) /\ Tos(t) \subseteq Tos(s)

\* Blocks of a function, by the blocks themselves.
LEMMA ControlIs ==
  ASSUME NEW f, NEW b
  PROVE  Succs(f, b) = Targets(f.blocks[b])
BY DEF Succs, Terminated, Last, Targets

LEMMA PhisAre ==
  ASSUME NEW f, NEW b, NEW names, BlockOk(f.blocks[b], names)
  PROVE  /\ PhiSites(f, b) = {i \in DOMAIN f.blocks[b] : f.blocks[b][i].op = "phi"}
         /\ Phis(f, b) = {f.blocks[b][i] : i \in {j \in DOMAIN f.blocks[b] : f.blocks[b][j].op = "phi"}}
         /\ Phis(f, b) = {} <=> PhiFree(f.blocks[b])
         /\ \A phi \in Phis(f, b) : phi.op = "phi" /\ phi.to \in Tos(f.blocks[b])
<1> DEFINE s == f.blocks[b]
<1>1. Len(s) \in Nat /\ DOMAIN s = 1 .. Len(s)
  BY Places DEF BlockOk
<1>2. ASSUME NEW i \in DOMAIN s PROVE i \in PhiSites(f, b) <=> s[i].op = "phi"
  <2>1. i \in 1 .. i /\ \A j \in 1 .. i : j \in DOMAIN s
    BY <1>1
  <2>2. s[i].op = "phi" => \A j \in 1 .. i : s[j].op = "phi"
    BY DEF BlockOk
  <2>3. QED
    BY <2>1, <2>2 DEF PhiSites
<1>3. PhiSites(f, b) = {i \in DOMAIN s : s[i].op = "phi"}
  <2>1. PhiSites(f, b) \subseteq DOMAIN s
    BY DEF PhiSites
  <2>2. QED
    BY <1>2, <2>1
<1>4. Phis(f, b) = {s[i] : i \in {j \in DOMAIN s : s[j].op = "phi"}}
  BY <1>3 DEF Phis
<1>5. QED
  BY <1>3, <1>4 DEF Tos, PhiFree

LEMMA PhiSitesAre ==
  ASSUME NEW f, NEW b, NEW names, BlockOk(f.blocks[b], names), NEW i \in DOMAIN f.blocks[b]
  PROVE  i \in PhiSites(f, b) <=> f.blocks[b][i].op = "phi"
<1>1. Len(f.blocks[b]) \in Nat /\ DOMAIN f.blocks[b] = 1 .. Len(f.blocks[b])
  BY Places DEF BlockOk
<1>2. i \in 1 .. i
  BY <1>1
<1>3. f.blocks[b][i].op = "phi" => \A j \in 1 .. i : f.blocks[b][j].op = "phi"
  BY DEF BlockOk
<1>4. QED
  BY <1>2, <1>3 DEF PhiSites

\* No phis, no lists of predecessors.
LEMMA NoTos ==
  ASSUME NEW s
  PROVE  PhiFree(s) <=> Tos(s) = {}
<1>1. ASSUME NEW i \in DOMAIN s, s[i].op = "phi" PROVE s[i].to \in Tos(s)
  BY <1>1 DEF Tos
<1>2. ASSUME PhiFree(s) PROVE Tos(s) = {}
  BY <1>2 DEF PhiFree, Tos
<1>3. ASSUME Tos(s) = {} PROVE PhiFree(s)
  BY <1>1, <1>3 DEF PhiFree
<1>4. QED
  BY <1>2, <1>3

\* Results are numbered; only what is there for its effect may have none.
LEMMA NamedIs ==
  /\ \A n \in Nat : V(n) \in ValueNames
  /\ \A v \in ValueNames : v[1] = "v" /\ v[2] \in Nat /\ v # NoValue
  /\ \A op : \A r \in ValueNames : Named(op, r)
  /\ \A op \in Essential : Named(op, NoValue)
  /\ \A op, r : Named(op, r) /\ op \notin Essential => r \in ValueNames
BY NoValueAssumption DEF V, ValueNames, Named

\* Only arguments are changed.
LEMMA ArgsOnly ==
  ASSUME NEW names, NEW x, InstOk(x, names), NEW a
  PROVE  /\ Like([x EXCEPT !.args = a], x, names)
         /\ [x EXCEPT !.args = a].op = x.op /\ [x EXCEPT !.args = a].res = x.res
         /\ [x EXCEPT !.args = a].to = x.to
<1> DEFINE y == [x EXCEPT !.args = a]
<1>1. y = [op |-> x.op, res |-> x.res, args |-> a, to |-> x.to]
  BY DEF InstOk, Inst
<1>2. y.op = x.op /\ y.res = x.res /\ y.args = a /\ y.to = x.to
  BY <1>1
<1>3. y = Inst(y.op, y.res, y.args, y.to)
  BY <1>1, <1>2 DEF Inst
<1> HIDE DEF y
<1>4. InstOk(y, names)
  BY <1>2, <1>3 DEF InstOk
<1>5. Like(y, x, names)
  BY <1>2, <1>4 DEF Like
<1>6. QED
  BY <1>2, <1>5 DEF y

\* Instructions in the place of others like them.
LEMMA LikeAlike ==
  ASSUME NEW names, NEW s, BlockOk(s, names), NEW t, t = [i \in DOMAIN s |-> t[i]],
         \A i \in DOMAIN s : Like(t[i], s[i], names)
  PROVE  Alike(t, s, names) /\ Len(t) = Len(s) /\ DOMAIN t = DOMAIN s
<1>1. Len(s) \in Nat /\ DOMAIN s = 1 .. Len(s) /\ (s # << >> <=> Len(s) # 0)
  BY Places DEF BlockOk
<1>2. IsSequence(t) /\ Len(t) = Len(s) /\ DOMAIN t = DOMAIN s
  BY <1>1, ListIs
<1>3. t # << >> <=> s # << >>
  BY <1>1, <1>2, Places
<1>4. ASSUME NEW i \in DOMAIN t
      PROVE  /\ InstOk(t[i], names)
             /\ t[i].op \in Terminators => i = Len(t)
             /\ t[i].op = "phi" => \A j \in 1 .. i : t[j].op = "phi"
  <2>1. InstOk(t[i], names)
    BY <1>2 DEF Like
  <2>2. t[i].op \in Terminators => i = Len(t)
    BY <1>2 DEF Like, BlockOk
  <2>3. ASSUME t[i].op = "phi", NEW j \in 1 .. i PROVE t[j].op = "phi"
    <3>1. s[i].op = "phi" /\ j \in DOMAIN s
      BY <1>1, <1>2, <2>3 DEF Like
    <3>2. s[j].op = "phi"
      BY <1>2, <3>1 DEF BlockOk
    <3>3. QED
      BY <3>1, <3>2 DEF Like
  <2>4. QED
    BY <2>1, <2>2, <2>3
<1>5. BlockOk(t, names)
  BY <1>2, <1>4 DEF BlockOk
<1>6. Targets(t) = Targets(s)
  <2>1. CASE s = << >>
    BY <1>3, <2>1 DEF Targets
  <2>2. CASE s # << >>
    <3>1. Len(s) \in DOMAIN s
      BY <1>1, <2>2
    <3>2. Like(t[Len(s)], s[Len(s)], names)
      BY <3>1
    <3>3. t[Len(s)].op \in {"br", "condbr"} <=> s[Len(s)].op \in {"br", "condbr"}
      BY <3>2 DEF Like, Terminators
    <3>4. s[Len(s)].op \in {"br", "condbr"} => t[Len(s)].to = s[Len(s)].to
      BY <3>2 DEF Like, Terminators
    <3>5. QED
      BY <1>2, <1>3, <2>2, <3>3, <3>4 DEF Targets
  <2>3. QED
    BY <2>1, <2>2
<1>7. Tos(t) \subseteq Tos(s)
  <2>1. ASSUME NEW i \in DOMAIN t, t[i].op = "phi" PROVE t[i].to \in Tos(s)
    <3>1. s[i].op = "phi" /\ t[i].to = s[i].to
      BY <1>2, <2>1 DEF Like
    <3>2. QED
      BY <1>2, <3>1 DEF Tos
  <2>2. QED
    BY <2>1 DEF Tos
<1>8. QED
  BY <1>2, <1>5, <1>6, <1>7 DEF Alike

\* The members of s at the places P: where each has been, in the same order.
Drawn(t, s, P, e) ==
  /\ IsSequence(t)
  /\ e \in [DOMAIN t -> P]
  /\ \A k \in DOMAIN t : t[k] = s[e[k]]
  /\ \A k, l \in DOMAIN t : k < l => e[k] < e[l]
  /\ \A n \in P : \E k \in DOMAIN t : e[k] = n

LEMMA PickedAre ==
  ASSUME NEW s, IsSequence(s), NEW P \in SUBSET DOMAIN s
  PROVE  \E e : Drawn(Picked(s, P), s, P, e)
<1> DEFINE t == Picked(s, P)
           S == {s[i] : i \in DOMAIN s}
           e == [k \in DOMAIN t |-> CHOOSE n \in P : Rank(P, n) = k /\ t[k] = s[n]]
<1>1. s \in Seq(S) /\ Len(s) \in Nat /\ DOMAIN s = 1 .. Len(s)
  BY SequenceIs, Places
<1> HIDE DEF S
<1>2. t \in Seq(S) /\ PickedFrom(t, s, P)
  BY <1>1, PickedIs
<1>3. IsSequence(t)
  BY <1>2, ASequence
<1> HIDE DEF t
<1>4. /\ DOMAIN t = 1 .. Cardinality(P)
      /\ \A n \in P : Rank(P, n) \in DOMAIN t /\ t[Rank(P, n)] = s[n]
      /\ \A k \in DOMAIN t : \E n \in P : Rank(P, n) = k /\ t[k] = s[n]
  BY <1>2 DEF PickedFrom
<1>5. ASSUME NEW k \in DOMAIN t PROVE e[k] \in P /\ Rank(P, e[k]) = k /\ t[k] = s[e[k]]
  <2>1. \E n \in P : Rank(P, n) = k /\ t[k] = s[n]
    BY <1>4
  <2>2. QED
    BY <2>1
<1>6. e \in [DOMAIN t -> P]
  BY <1>5
<1> HIDE DEF e
<1>7. ASSUME NEW k \in DOMAIN t, NEW l \in DOMAIN t, k < l PROVE e[k] < e[l]
  <2>1. e[k] \in 0 .. Len(s) /\ e[l] \in 0 .. Len(s)
    BY <1>1, <1>5
  <2>2. \A m, n \in 0 .. Len(s) : m <= n => Rank(P, m) <= Rank(P, n)
    BY <1>1, RankIs
  <2>3. Rank(P, e[k]) = k /\ Rank(P, e[l]) = l
    BY <1>5
  <2>4. k \in Int /\ l \in Int
    BY <1>3, Places
  <2>5. ~(e[l] <= e[k])
    BY <1>7, <2>1, <2>2, <2>3, <2>4
  <2>6. QED
    BY <2>1, <2>5
<1>8. ASSUME NEW n \in P PROVE \E k \in DOMAIN t : e[k] = n
  <2>1. Rank(P, n) \in DOMAIN t
    BY <1>4
  <2> DEFINE k == Rank(P, n)
  <2>2. e[k] \in P /\ Rank(P, e[k]) = k
    BY <1>5, <2>1
  <2>3. n \in 1 .. Len(s) /\ e[k] \in 1 .. Len(s)
    BY <1>1, <2>2
  <2>4. \A m \in 0 .. Len(s), q \in P : m < q => Rank(P, m) < Rank(P, q)
    BY <1>1, RankIs
  <2>5. k \in Int
    BY <1>3, <2>1, Places
  <2>6. ~(e[k] < n) /\ ~(n < e[k])
    BY <2>2, <2>3, <2>4, <2>5
  <2>7. e[k] = n
    BY <2>3, <2>6
  <2>8. QED
    BY <2>1, <2>7
<1>9. Drawn(t, s, P, e)
  BY <1>3, <1>5, <1>6, <1>7, <1>8 DEF Drawn
<1>10. QED
  BY <1>9 DEF t

\* What has been picked is in the list, and only once if the list has no member twice.
LEMMA PickedFew ==
  ASSUME NEW s, IsSequence(s), NEW P \in SUBSET DOMAIN s
  PROVE  /\ IsSequence(Picked(s, P))
         /\ ToSet(Picked(s, P)) = {s[i] : i \in P}
         /\ (\A i, j \in DOMAIN s : s[i] = s[j] => i = j)
              => \A i, j \in DOMAIN Picked(s, P) : Picked(s, P)[i] = Picked(s, P)[j] => i = j
<1> DEFINE t == Picked(s, P)
<1>1. PICK e : Drawn(t, s, P, e)
  BY PickedAre
<1> HIDE DEF t
<1>2. \A k \in DOMAIN t : e[k] \in P /\ e[k] \in DOMAIN s /\ t[k] = s[e[k]]
  BY <1>1 DEF Drawn
<1>3. ToSet(t) = {s[i] : i \in P}
  <2>1. ASSUME NEW k \in DOMAIN t PROVE t[k] \in {s[i] : i \in P}
    BY <1>2
  <2>2. ASSUME NEW i \in P PROVE s[i] \in ToSet(t)
    <3>1. PICK k \in DOMAIN t : e[k] = i
      BY <1>1 DEF Drawn
    <3>2. t[k] = s[i]
      BY <1>2, <3>1
    <3>3. QED
      BY <3>2 DEF ToSet
  <2>3. QED
    BY <2>1, <2>2 DEF ToSet
<1>4. ASSUME \A i, j \in DOMAIN s : s[i] = s[j] => i = j,
             NEW k \in DOMAIN t, NEW l \in DOMAIN t, t[k] = t[l]
      PROVE  k = l
  <2>1. e[k] = e[l]
    BY <1>2, <1>4
  <2>2. k \in Int /\ l \in Int /\ e[k] \in Int
    BY <1>1, <1>2, Places DEF Drawn
  <2>3. ~(k < l) /\ ~(l < k)
    BY <1>1, <2>1, <2>2 DEF Drawn
  <2>4. QED
    BY <2>2, <2>3
<1>5. IsSequence(t)
  BY <1>1 DEF Drawn
<1>6. QED
  BY <1>3, <1>4, <1>5 DEF t

\* Instructions are taken out of a block.
LEMMA PickedOk ==
  ASSUME NEW names, NEW s, BlockOk(s, names), NEW P \in SUBSET DOMAIN s,
         NEW t, t = Picked(s, P), NEW e, Drawn(t, s, P, e)
  PROVE  /\ BlockOk(t, names) /\ Tos(t) \subseteq Tos(s)
         /\ Len(t) \in Nat /\ DOMAIN t = 1 .. Len(t) /\ (t # << >> <=> Len(t) # 0)
         /\ \A k \in DOMAIN t : /\ e[k] \in P /\ e[k] \in DOMAIN s /\ t[k] = s[e[k]]
                                /\ t[k].op \in Terminators => k = Len(t)
<1>1. Len(s) \in Nat /\ DOMAIN s = 1 .. Len(s) /\ IsSequence(s)
  BY Places DEF BlockOk
<1>2. Len(t) \in Nat /\ DOMAIN t = 1 .. Len(t) /\ IsSequence(t) /\ (t # << >> <=> Len(t) # 0)
  BY Places DEF Drawn
<1>3. ASSUME NEW k \in DOMAIN t
      PROVE  e[k] \in P /\ e[k] \in DOMAIN s /\ e[k] \in 1 .. Len(s) /\ t[k] = s[e[k]]
  BY <1>1 DEF Drawn
<1>4. ASSUME NEW k \in DOMAIN t, t[k].op \in Terminators PROVE k = Len(t)
  <2>1. e[k] = Len(s) /\ k \in 1 .. Len(t)
    BY <1>2, <1>3, <1>4 DEF BlockOk
  <2>2. Len(t) \in DOMAIN t
    BY <1>2, <2>1
  <2>3. e[Len(t)] \in 1 .. Len(s)
    BY <1>3, <2>2
  <2>4. ~(k < Len(t))
    BY <1>1, <2>1, <2>2, <2>3 DEF Drawn
  <2>5. QED
    BY <1>2, <2>1, <2>4
<1>5. ASSUME NEW k \in DOMAIN t, t[k].op = "phi", NEW l \in 1 .. k PROVE t[l].op = "phi"
  <2>1. l \in DOMAIN t /\ (l < k \/ l = k) /\ k \in Int /\ l \in Int
    BY <1>2
  <2>2. CASE l < k
    <3>1. e[l] \in 1 .. e[k] /\ e[k] \in DOMAIN s /\ s[e[k]].op = "phi"
      BY <1>1, <1>3, <1>5, <2>1, <2>2 DEF Drawn
    <3>2. s[e[l]].op = "phi"
      BY <3>1 DEF BlockOk
    <3>3. QED
      BY <1>3, <2>1, <3>2
  <2>3. QED
    BY <1>5, <2>1, <2>2
<1>6. BlockOk(t, names)
  <2>1. \A k \in DOMAIN t : InstOk(t[k], names)
    BY <1>3 DEF BlockOk
  <2>2. QED
    BY <1>2, <1>4, <1>5, <2>1 DEF BlockOk
<1>7. Tos(t) \subseteq Tos(s)
  <2>1. ASSUME NEW k \in DOMAIN t, t[k].op = "phi" PROVE t[k].to \in Tos(s)
    BY <1>3, <2>1 DEF Tos
  <2>2. QED
    BY <2>1 DEF Tos
<1>8. QED
  BY <1>2, <1>3, <1>4, <1>6, <1>7

\* ... but not the last one if it leaves it.
LEMMA PickedAlike ==
  ASSUME NEW names, NEW s, BlockOk(s, names), NEW P \in SUBSET DOMAIN s,
         \A i \in DOMAIN s : s[i].op \in Terminators => i \in P
  PROVE  Alike(Picked(s, P), s, names)
<1> DEFINE t == Picked(s, P)
<1>1. Len(s) \in Nat /\ DOMAIN s = 1 .. Len(s) /\ IsSequence(s)
  BY Places DEF BlockOk
<1>2. PICK e : Drawn(t, s, P, e)
  BY <1>1, PickedAre
<1>3. /\ BlockOk(t, names) /\ Tos(t) \subseteq Tos(s)
      /\ Len(t) \in Nat /\ DOMAIN t = 1 .. Len(t) /\ (t # << >> <=> Len(t) # 0)
      /\ \A k \in DOMAIN t : /\ e[k] \in P /\ e[k] \in DOMAIN s /\ t[k] = s[e[k]]
                             /\ t[k].op \in Terminators => k = Len(t)
  BY <1>2, PickedOk
<1> HIDE DEF t
<1>4. Targets(t) = Targets(s)
  <2>1. CASE s # << >> /\ s[Len(s)].op \in Terminators
    <3>1. Len(s) # 0
      BY <1>1, <2>1, Places
    <3>2. Len(s) \in P
      BY <1>1, <2>1, <3>1
    <3>3. PICK k \in DOMAIN t : e[k] = Len(s)
      BY <1>2, <3>2 DEF Drawn
    <3>4. t[k] = s[Len(s)]
      BY <1>3, <3>3
    <3>5. k = Len(t)
      BY <1>3, <2>1, <3>4
    <3>6. t # << >>
      BY <1>3, <3>5
    <3>7. QED
      BY <2>1, <3>4, <3>5, <3>6 DEF Targets
  <2>2. CASE ~(s # << >> /\ s[Len(s)].op \in Terminators)
    <3>1. ASSUME NEW i \in DOMAIN s PROVE s[i].op \notin Terminators
      <4>1. s # << >>
        BY <1>1, Places
      <4>2. s[i].op \in Terminators => i = Len(s)
        BY DEF BlockOk
      <4>3. QED
        BY <2>2, <4>1, <4>2
    <3>2. ASSUME t # << >> PROVE t[Len(t)].op \notin Terminators
      <4>1. Len(t) \in DOMAIN t
        BY <1>3, <3>2
      <4>2. QED
        BY <1>3, <3>1, <4>1
    <3>3. Targets(t) = {} /\ Targets(s) = {}
      BY <2>2, <3>2 DEF Targets, Terminators
    <3>4. QED
      BY <3>3
  <2>3. QED
    BY <2>1, <2>2
<1>5. QED
  BY <1>3, <1>4 DEF Alike, t

\* Other instructions of the same kind in the places of those of a block.
LEMMA SameOpsOk ==
  ASSUME NEW names, NEW s, BlockOk(s, names), NEW t, t = [i \in DOMAIN s |-> t[i]],
         \A i \in DOMAIN s : InstOk(t[i], names) /\ t[i].op = s[i].op
  PROVE  /\ BlockOk(t, names) /\ DOMAIN t = DOMAIN s /\ Len(t) = Len(s) /\ (t # << >> <=> s # << >>)
         /\ PhiFree(s) => PhiFree(t)
         /\ Straightforward(s) => Straightforward(t)
<1>1. Len(s) \in Nat /\ DOMAIN s = 1 .. Len(s) /\ (s # << >> <=> Len(s) # 0)
  BY Places DEF BlockOk
<1>2. IsSequence(t) /\ Len(t) = Len(s) /\ DOMAIN t = DOMAIN s
  BY <1>1, ListIs
<1>3. t # << >> <=> s # << >>
  BY <1>1, <1>2, Places
<1>4. ASSUME NEW i \in DOMAIN t
      PROVE  /\ InstOk(t[i], names)
             /\ t[i].op \in Terminators => i = Len(t)
             /\ t[i].op = "phi" => \A j \in 1 .. i : t[j].op = "phi"
  <2>1. InstOk(t[i], names) /\ (t[i].op \in Terminators => i = Len(t))
    BY <1>2 DEF BlockOk
  <2>2. ASSUME t[i].op = "phi", NEW j \in 1 .. i PROVE t[j].op = "phi"
    <3>1. s[i].op = "phi" /\ j \in DOMAIN s
      BY <1>1, <1>2, <2>2
    <3>2. s[j].op = "phi"
      BY <1>2, <3>1 DEF BlockOk
    <3>3. QED
      BY <3>1, <3>2
  <2>3. QED
    BY <2>1, <2>2
<1>5. BlockOk(t, names)
  BY <1>2, <1>4 DEF BlockOk
<1>6. QED
  BY <1>2, <1>3, <1>5 DEF PhiFree, Straightforward

\* A stretch of a block.
LEMMA StretchOk ==
  ASSUME NEW names, NEW s, BlockOk(s, names), NEW m \in 1 .. Len(s) + 1, NEW n \in 0 .. Len(s), m <= n + 1
  PROVE  /\ BlockOk(SubSeq(s, m, n), names)
         /\ Tos(SubSeq(s, m, n)) \subseteq Tos(s)
         /\ n # Len(s) => Straightforward(SubSeq(s, m, n))
         /\ n = Len(s) /\ m <= n => Targets(SubSeq(s, m, n)) = Targets(s)
         /\ (\E k \in 1 .. m : k \in DOMAIN s /\ s[k].op # "phi") => PhiFree(SubSeq(s, m, n))
<1> DEFINE t == SubSeq(s, m, n)
<1>1. Len(s) \in Nat /\ DOMAIN s = 1 .. Len(s) /\ IsSequence(s) /\ m \in Int /\ n \in Int
  BY Places DEF BlockOk
<1>2. /\ IsSequence(t) /\ Len(t) = n - m + 1 /\ DOMAIN t = 1 .. n - m + 1
      /\ \A i \in DOMAIN t : t[i] = s[m + i - 1] /\ m + i - 1 \in DOMAIN s /\ i \in Int
  BY <1>1, StretchIs
<1> HIDE DEF t
<1>3. ASSUME NEW i \in DOMAIN t, t[i].op \in Terminators PROVE i = Len(t) /\ n = Len(s)
  <2>1. m + i - 1 = Len(s)
    BY <1>2, <1>3 DEF BlockOk
  <2>2. i \in Int /\ i <= n - m + 1 /\ n <= Len(s) /\ Len(s) \in Int /\ m \in Int /\ n \in Int
    BY <1>1, <1>2
  <2>3. n = Len(s) /\ i = n - m + 1
    BY <2>1, <2>2
  <2>4. QED
    BY <1>2, <2>3
<1>4. ASSUME NEW i \in DOMAIN t, t[i].op = "phi", NEW j \in 1 .. m + i - 1 PROVE s[j].op = "phi"
  <2>1. m + i - 1 \in DOMAIN s /\ s[m + i - 1].op = "phi"
    BY <1>2, <1>4
  <2>2. QED
    BY <2>1 DEF BlockOk
<1>5. ASSUME NEW i \in DOMAIN t, t[i].op = "phi", NEW j \in 1 .. i PROVE t[j].op = "phi"
  <2>1. j \in DOMAIN t /\ m + j - 1 \in 1 .. m + i - 1
    BY <1>1, <1>2
  <2>2. QED
    BY <1>2, <1>4, <1>5, <2>1
<1>6. BlockOk(t, names)
  <2>1. \A i \in DOMAIN t : InstOk(t[i], names)
    BY <1>2 DEF BlockOk
  <2>2. QED
    BY <1>2, <1>3, <1>5, <2>1 DEF BlockOk
<1>7. Tos(t) \subseteq Tos(s)
  <2>1. ASSUME NEW i \in DOMAIN t, t[i].op = "phi" PROVE t[i].to \in Tos(s)
    BY <1>2, <2>1 DEF Tos
  <2>2. QED
    BY <2>1 DEF Tos
<1>8. n # Len(s) => Straightforward(t)
  BY <1>3 DEF Straightforward
<1>9. ASSUME n = Len(s), m <= n PROVE Targets(t) = Targets(s)
  <2>1. Len(t) \in DOMAIN t /\ m + Len(t) - 1 = Len(s) /\ Len(s) # 0
    BY <1>1, <1>2, <1>9
  <2>2. t[Len(t)] = s[Len(s)]
    BY <1>2, <2>1
  <2>3. t # << >> /\ s # << >>
    BY <1>1, <1>2, <2>1, Places
  <2>4. QED
    BY <2>2, <2>3 DEF Targets
<1>10. ASSUME NEW k \in 1 .. m, k \in DOMAIN s, s[k].op # "phi" PROVE PhiFree(t)
  <2>1. ASSUME NEW i \in DOMAIN t, t[i].op = "phi" PROVE FALSE
    <3>1. k \in 1 .. m + i - 1
      BY <1>1, <1>2
    <3>2. QED
      BY <1>4, <1>10, <2>1, <3>1
  <2>2. QED
    BY <2>1 DEF PhiFree
<1>11. QED
  BY <1>6, <1>7, <1>8, <1>9, <1>10 DEF t

\* Two blocks made one.
LEMMA JoinOk ==
  ASSUME NEW names, NEW s, BlockOk(s, names), NEW t, BlockOk(t, names),
         Straightforward(s), PhiFree(t) \/ \A i \in DOMAIN s : s[i].op = "phi"
  PROVE  /\ BlockOk(s \o t, names)
         /\ Targets(s \o t) = Targets(t)
         /\ Tos(s \o t) = Tos(s) \cup Tos(t)
         /\ Straightforward(t) => Straightforward(s \o t)
         /\ PhiFree(s) /\ PhiFree(t) => PhiFree(s \o t)
<1> DEFINE w == s \o t
           m == Len(s)
           n == Len(t)
<1>1. /\ IsSequence(s) /\ m \in Nat /\ DOMAIN s = 1 .. m
      /\ IsSequence(t) /\ n \in Nat /\ DOMAIN t = 1 .. n /\ (t # << >> <=> n # 0)
      /\ (s # << >> <=> m # 0)
  BY Places DEF BlockOk
<1>2. /\ IsSequence(w) /\ Len(w) = m + n /\ DOMAIN w = 1 .. m + n
      /\ \A i \in 1 .. m : w[i] = s[i]
      /\ \A i \in 1 .. n : w[m + i] = t[i]
  BY <1>1, JoinIs
<1> HIDE DEF w, m, n
<1>3. w # << >> <=> m + n # 0
  BY <1>2, Places
<1>4. ASSUME NEW i \in DOMAIN w
      PROVE  \/ i \in 1 .. m /\ w[i] = s[i] /\ i \in DOMAIN s
             \/ i - m \in 1 .. n /\ i = m + (i - m) /\ w[i] = t[i - m] /\ i - m \in DOMAIN t
  <2>1. i \in 1 .. m + n
    BY <1>2
  <2>2. CASE i \in 1 .. m
    BY <1>1, <1>2, <2>2
  <2>3. CASE i \notin 1 .. m
    <3>1. i - m \in 1 .. n /\ i = m + (i - m)
      BY <1>1, <2>1, <2>3
    <3>2. w[m + (i - m)] = t[i - m]
      BY <1>2, <3>1
    <3>3. w[i] = t[i - m]
      BY <3>1, <3>2
    <3>4. QED
      BY <1>1, <3>1, <3>3
  <2>4. QED
    BY <2>2, <2>3
<1>5. ASSUME NEW i \in DOMAIN w
      PROVE  /\ InstOk(w[i], names)
             /\ w[i].op \in Terminators => i = Len(w)
             /\ w[i].op = "phi" => \A j \in 1 .. i : w[j].op = "phi"
  <2>1. InstOk(w[i], names)
    BY <1>4 DEF BlockOk
  <2>2. ASSUME w[i].op \in Terminators PROVE i = Len(w)
    <3>1. i \notin DOMAIN s \/ w[i] # s[i]
      BY <2>2 DEF Straightforward
    <3>2. i - m \in 1 .. n /\ i = m + (i - m) /\ w[i] = t[i - m] /\ i - m \in DOMAIN t
      BY <1>4, <3>1
    <3>3. i - m = n
      BY <2>2, <3>2 DEF BlockOk, n
    <3>4. QED
      BY <1>2, <3>2, <3>3
  <2>3. ASSUME w[i].op = "phi", NEW j \in 1 .. i PROVE w[j].op = "phi"
    <3>1. i \in 1 .. m + n /\ j \in 1 .. m + n /\ j \in DOMAIN w
      BY <1>1, <1>2
    <3>2. CASE i \in 1 .. m
      <4>1. j \in 1 .. m /\ w[j] = s[j] /\ w[i] = s[i] /\ i \in DOMAIN s
        BY <1>1, <1>2, <3>1, <3>2
      <4>2. QED
        BY <2>3, <4>1 DEF BlockOk
    <3>3. CASE i \notin 1 .. m
      <4>1. i - m \in 1 .. n /\ w[i] = t[i - m] /\ i - m \in DOMAIN t
        BY <1>4, <3>3
      <4>2. ~PhiFree(t)
        BY <2>3, <4>1 DEF PhiFree
      <4>3. \A k \in DOMAIN s : s[k].op = "phi"
        BY <4>2
      <4>4. CASE j \in 1 .. m
        BY <1>1, <1>2, <4>3, <4>4
      <4>5. CASE j \notin 1 .. m
        <5>1. j - m \in 1 .. i - m /\ w[j] = t[j - m]
          BY <1>1, <1>4, <3>1, <4>5
        <5>2. QED
          BY <2>3, <4>1, <5>1 DEF BlockOk
      <4>6. QED
        BY <4>4, <4>5
    <3>4. QED
      BY <3>2, <3>3
  <2>4. QED
    BY <2>1, <2>2, <2>3
<1>6. BlockOk(w, names)
  BY <1>2, <1>5 DEF BlockOk
<1>7. Targets(w) = Targets(t)
  <2>1. CASE n # 0
    <3>1. n \in 1 .. n /\ Len(w) = m + n /\ w[m + n] = t[n] /\ t # << >> /\ w # << >>
      BY <1>1, <1>2, <1>3, <2>1
    <3>2. QED
      BY <3>1 DEF Targets, n
  <2>2. CASE n = 0 /\ m # 0
    <3>1. m \in DOMAIN s /\ Len(w) = m /\ w[m] = s[m]
      BY <1>1, <1>2, <2>2
    <3>2. w[Len(w)].op \notin Terminators
      BY <3>1 DEF Straightforward
    <3>3. QED
      BY <1>1, <2>2, <3>2 DEF Targets, Terminators
  <2>3. CASE n = 0 /\ m = 0
    BY <1>1, <1>3, <2>3 DEF Targets
  <2>4. QED
    BY <2>1, <2>2, <2>3
<1>8. Tos(w) = Tos(s) \cup Tos(t)
  <2>1. ASSUME NEW i \in DOMAIN w, w[i].op = "phi" PROVE w[i].to \in Tos(s) \cup Tos(t)
    BY <1>4, <2>1 DEF Tos
  <2>2. ASSUME NEW i \in DOMAIN s, s[i].op = "phi" PROVE s[i].to \in Tos(w)
    <3>1. i \in DOMAIN w /\ w[i] = s[i]
      BY <1>1, <1>2
    <3>2. QED
      BY <2>2, <3>1 DEF Tos
  <2>3. ASSUME NEW i \in DOMAIN t, t[i].op = "phi" PROVE t[i].to \in Tos(w)
    <3>1. m + i \in DOMAIN w /\ w[m + i] = t[i]
      BY <1>1, <1>2
    <3>2. QED
      BY <2>3, <3>1 DEF Tos
  <2>4. QED
    BY <2>1, <2>2, <2>3 DEF Tos
<1>9. Straightforward(t) => Straightforward(w)
  BY <1>4 DEF Straightforward
<1>10. PhiFree(s) /\ PhiFree(t) => PhiFree(w)
  BY <1>4 DEF PhiFree
<1>11. QED
  BY <1>6, <1>7, <1>8, <1>9, <1>10 DEF w

-----------------------------------------------------------------------------
(* Functions. *)

\* The least of some positions.
LEMMA LeastIs ==
  ASSUME NEW N \in Nat, NEW P \in SUBSET (1 .. N), P # {}
  PROVE  Min(P) \in P /\ \A n \in P : Min(P) <= n
<1> DEFINE T == {k \in Nat : \A n \in P : k <= n}
<1>1. \E m \in P : \A n \in P : m <= n
  <2> SUFFICES ASSUME \A m \in P : \E n \in P : n < m PROVE FALSE
    OBVIOUS
  <2>1. 0 \in T
    OBVIOUS
  <2>2. ASSUME NEW k \in Nat, k \in T PROVE k + 1 \in T
    <3>1. ASSUME NEW n \in P, n <= k PROVE FALSE
      <4>1. PICK m \in P : m < n
        OBVIOUS
      <4>2. k <= m /\ m \in Nat /\ n \in Nat
        BY <2>2
      <4>3. QED
        BY <3>1, <4>1, <4>2
    <3>2. QED
      BY <3>1
  <2> HIDE DEF T
  <2>3. \A k \in Nat : k \in T
    BY <2>1, <2>2, AllNaturals
  <2>4. PICK n \in P : TRUE
    OBVIOUS
  <2>5. N + 1 \in T
    BY <2>3
  <2>6. QED
    BY <2>4, <2>5 DEF T
<1>2. QED
  BY <1>1 DEF Min

\* Phis have an entry for each edge; no entry twice, nor for what is no block;
\* none for what is no edge.
Covered(f) == \A b \in Blocks(f) : \A t \in Tos(f.blocks[b]) :
                IsSequence(t) /\ PredsOf(f, b) \subseteq ToSet(t)
Tidy(f) == \A b \in Blocks(f) : \A t \in Tos(f.blocks[b]) :
             (\A i, j \in DOMAIN t : t[i] = t[j] => i = j) /\ ToSet(t) \subseteq Blocks(f)
Tight(f) == \A b \in Blocks(f) : \A t \in Tos(f.blocks[b]) : ToSet(t) \subseteq PredsOf(f, b)

\* What a pass has to leave of the function f, when it makes g of it; what those
\* leave that work on the branches; and the others.
Keeps(g, f, names) ==
  FunctionOk(g, names) /\ g.name = f.name /\ g.params = f.params /\ Covered(g)
Fits(g, f, names) == Keeps(g, f, names) /\ (Tidy(f) => Tidy(g))
FitsExactly(g, f, names) == Keeps(g, f, names) /\ (Tidy(f) /\ Tight(f) => Tidy(g) /\ Tight(g))

\* A function is what is said of it.
LEMMA FieldsAre ==
  ASSUME NEW f, NEW names, FunctionOk(f, names), NEW B
  PROVE  LET g == [f EXCEPT !.blocks = B]
         IN  /\ g = [name |-> g.name, params |-> g.params, blocks |-> g.blocks, order |-> g.order,
                     next |-> g.next, void |-> g.void]
             /\ g.name = f.name /\ g.params = f.params /\ g.blocks = B /\ g.order = f.order
             /\ g.next = f.next /\ g.void = f.void /\ Blocks(g) = DOMAIN B
BY DEF FunctionOk, Blocks

LEMMA BlocksAre ==
  ASSUME NEW f, NEW names, FunctionOk(f, names), NEW B, NEW g, g = [f EXCEPT !.blocks = B]
  PROVE  g.blocks = B /\ Blocks(g) = DOMAIN B
<1>1. f.blocks = f.blocks /\ DOMAIN f = {"name", "params", "blocks", "order", "next", "void"}
  BY DEF FunctionOk
<1>2. QED
  BY <1>1 DEF Blocks

\* The entry of a function, and its list of blocks.
LEMMA EntryIs ==
  ASSUME NEW f, NEW names, FunctionOk(f, names)
  PROVE  /\ EntryOf(f) \in Blocks(f)
         /\ IsSequence(f.order) /\ Len(f.order) \in Nat /\ DOMAIN f.order = 1 .. Len(f.order)
         /\ \A b \in Blocks(f) : \E i \in DOMAIN f.order : f.order[i] = b
         /\ \A i \in DOMAIN f.order : f.order[i] \in Blocks(f)
         /\ 1 \in DOMAIN f.order
<1>1. IsSequence(f.order) /\ f.order # << >>
  BY ASequence DEF FunctionOk
<1>2. Len(f.order) \in Nat /\ DOMAIN f.order = 1 .. Len(f.order) /\ Len(f.order) # 0
  BY <1>1, Places
<1>3. \A i \in DOMAIN f.order : f.order[i] \in Blocks(f)
  BY DEF FunctionOk
<1>4. \A b \in Blocks(f) : \E i \in DOMAIN f.order : f.order[i] = b
  BY DEF FunctionOk, ToSet
<1>5. QED
  BY <1>1, <1>2, <1>3, <1>4 DEF EntryOf

\* The first of some instructions is one of them.
LEMMA FirstIs ==
  ASSUME NEW f, NEW names, FunctionOk(f, names), NEW sites \in SUBSET Sites(f), sites # {}
  PROVE  FirstOf(f, sites) \in sites
<1> DEFINE inBlock(i) == {s[2] : s \in {t \in sites : t[1] = f.order[i]}}
           I == {i \in DOMAIN f.order : inBlock(i) # {}}
<1>1. PICK s \in sites : TRUE
  OBVIOUS
<1>2. \A t \in sites : t = <<t[1], t[2]>> /\ t[1] \in Blocks(f) /\ t[2] \in DOMAIN f.blocks[t[1]]
  BY DEF Sites
<1>3. PICK i \in DOMAIN f.order : f.order[i] = s[1]
  BY <1>2, EntryIs
<1>4. s[2] \in inBlock(i)
  BY <1>3
<1>5. I \subseteq 1 .. Len(f.order) /\ I # {} /\ Len(f.order) \in Nat
  BY <1>3, <1>4, EntryIs
<1>6. Min(I) \in I
  BY <1>5, LeastIs
<1> DEFINE first == Min(I)
           block == f.blocks[f.order[first]]
<1>7. first \in DOMAIN f.order /\ inBlock(first) # {} /\ f.order[first] \in Blocks(f)
  BY <1>6, EntryIs
<1>8. Len(block) \in Nat /\ DOMAIN block = 1 .. Len(block)
  BY <1>7, Places DEF FunctionOk, BlockOk
<1>9. inBlock(first) \subseteq DOMAIN block
  BY <1>2
<1>10. Min(inBlock(first)) \in inBlock(first)
  BY <1>7, <1>8, <1>9, LeastIs
<1>11. FirstOf(f, sites) = <<f.order[first], Min(inBlock(first))>>
  BY DEF FirstOf
<1>12. QED
  BY <1>2, <1>10, <1>11

\* What a site of some kind is.
LEMMA SiteIs ==
  ASSUME NEW f, NEW names, FunctionOk(f, names), NEW s \in Sites(f)
  PROVE  /\ s = <<s[1], s[2]>> /\ s[1] \in Blocks(f) /\ s[2] \in DOMAIN f.blocks[s[1]]
         /\ At(f, s) = f.blocks[s[1]][s[2]] /\ InstOk(At(f, s), names)
         /\ BlockOk(f.blocks[s[1]], names)
<1>1. s = <<s[1], s[2]>> /\ s[1] \in Blocks(f) /\ s[2] \in DOMAIN f.blocks[s[1]]
  BY DEF Sites
<1>2. QED
  BY <1>1 DEF FunctionOk, BlockOk, At

\* Each block in the place of one like it.
LEMMA AlikeFits ==
  ASSUME NEW f, NEW names, FunctionOk(f, names), Covered(f), NEW B, DOMAIN B = Blocks(f),
         \A b \in Blocks(f) : Alike(B[b], f.blocks[b], names)
  PROVE  FitsExactly([f EXCEPT !.blocks = B], f, names)
<1> DEFINE g == [f EXCEPT !.blocks = B]
<1>1. /\ g = [name |-> g.name, params |-> g.params, blocks |-> g.blocks, order |-> g.order,
              next |-> g.next, void |-> g.void]
      /\ g.name = f.name /\ g.params = f.params /\ g.blocks = B /\ g.order = f.order
      /\ g.next = f.next /\ g.void = f.void /\ Blocks(g) = Blocks(f)
  BY FieldsAre
<1> HIDE DEF g
<1>2. EntryOf(g) = EntryOf(f) /\ EntryOf(f) \in Blocks(f)
  BY <1>1, EntryIs DEF EntryOf
<1>3. \A b \in Blocks(f) : BlockOk(g.blocks[b], names) /\ BlockOk(f.blocks[b], names)
  BY <1>1 DEF Alike, FunctionOk
<1>4. \A b \in Blocks(f) : Succs(g, b) = Succs(f, b)
  BY <1>1, ControlIs DEF Alike
<1>5. \A b \in Blocks(f) : PredsOf(g, b) = PredsOf(f, b)
  BY <1>1, <1>4 DEF PredsOf
<1>6. \A b \in Blocks(f) : Tos(g.blocks[b]) \subseteq Tos(f.blocks[b])
  BY <1>1 DEF Alike
<1>7. Phis(g, EntryOf(g)) = {}
  <2>1. Phis(f, EntryOf(f)) = {}
    BY DEF FunctionOk
  <2>2. PhiFree(f.blocks[EntryOf(f)])
    BY <1>2, <1>3, <2>1, PhisAre
  <2>3. Tos(f.blocks[EntryOf(f)]) = {}
    BY <2>2, NoTos
  <2>4. Tos(g.blocks[EntryOf(f)]) = {}
    BY <1>2, <1>6, <2>3
  <2>5. PhiFree(g.blocks[EntryOf(f)])
    BY <2>4, NoTos
  <2>6. QED
    BY <1>2, <1>3, <2>5, PhisAre
<1>8. FunctionOk(g, names)
  BY <1>1, <1>2, <1>3, <1>4, <1>7 DEF FunctionOk
<1>9. Covered(g)
  BY <1>1, <1>5, <1>6 DEF Covered
<1>10. Tidy(f) => Tidy(g)
  BY <1>1, <1>6 DEF Tidy
<1>11. Tight(f) => Tight(g)
  BY <1>1, <1>5, <1>6 DEF Tight
<1>12. QED
  BY <1>1, <1>8, <1>9, <1>10, <1>11 DEF Keeps, FitsExactly, g

\* One pass behind the other.
LEMMA FitsInTurn ==
  ASSUME NEW f, NEW g, NEW h, NEW names, FitsExactly(g, f, names), FitsExactly(h, g, names)
  PROVE  FitsExactly(h, f, names)
BY DEF Keeps, FitsExactly

-----------------------------------------------------------------------------
(* The edits the passes are made of. *)

LEMMA ReplaceUsesAlike ==
  ASSUME NEW f, NEW names, FunctionOk(f, names), NEW v, NEW w
  PROVE  \E B : /\ ReplaceUses(f, v, w) = [f EXCEPT !.blocks = B]
                /\ DOMAIN B = Blocks(f)
                /\ \A b \in Blocks(f) : Alike(B[b], f.blocks[b], names)
<1> DEFINE args(x) == [k \in DOMAIN x.args |-> IF x.args[k] = v THEN w ELSE x.args[k]]
           block(b) == [i \in DOMAIN f.blocks[b] |->
                          [f.blocks[b][i] EXCEPT !.args = args(f.blocks[b][i])]]
           B == [b \in DOMAIN f.blocks |-> block(b)]
<1>1. ReplaceUses(f, v, w) = [f EXCEPT !.blocks = B]
  BY DEF ReplaceUses
<1> HIDE DEF args
<1>2. ASSUME NEW b \in Blocks(f) PROVE Alike(block(b), f.blocks[b], names)
  <2>1. BlockOk(f.blocks[b], names)
    BY DEF FunctionOk
  <2>2. ASSUME NEW i \in DOMAIN f.blocks[b] PROVE Like(block(b)[i], f.blocks[b][i], names)
    <3>1. InstOk(f.blocks[b][i], names)
      BY <2>1 DEF BlockOk
    <3>2. Like([f.blocks[b][i] EXCEPT !.args = args(f.blocks[b][i])], f.blocks[b][i], names)
      BY <3>1, ArgsOnly
    <3>3. QED
      BY <3>2
  <2>3. block(b) = [i \in DOMAIN f.blocks[b] |-> block(b)[i]]
    OBVIOUS
  <2> HIDE DEF block
  <2>4. QED
    BY <2>1, <2>2, <2>3, LikeAlike
<1> HIDE DEF block
<1>3. DOMAIN B = Blocks(f) /\ \A b \in Blocks(f) : Alike(B[b], f.blocks[b], names)
  BY <1>2 DEF Blocks
<1> HIDE DEF B
<1>4. QED
  BY <1>1, <1>3

LEMMA ReplaceUsesFits ==
  ASSUME NEW f, NEW names, FunctionOk(f, names), Covered(f), NEW v, NEW w
  PROVE  FitsExactly(ReplaceUses(f, v, w), f, names)
<1>1. PICK B : /\ ReplaceUses(f, v, w) = [f EXCEPT !.blocks = B]
               /\ DOMAIN B = Blocks(f)
               /\ \A b \in Blocks(f) : Alike(B[b], f.blocks[b], names)
  BY ReplaceUsesAlike
<1>2. QED
  BY <1>1, AlikeFits

LEMMA EraseValuesFits ==
  ASSUME NEW f, NEW names, FunctionOk(f, names), Covered(f), NEW dead
  PROVE  FitsExactly(EraseValues(f, dead), f, names)
<1> DEFINE lives(inst) == inst.res = NoValue \/ inst.res \notin dead
           P(block) == {i \in DOMAIN block : lives(block[i])}
           B == [b \in DOMAIN f.blocks |-> Picked(f.blocks[b], P(f.blocks[b]))]
<1>1. EraseValues(f, dead) = [f EXCEPT !.blocks = B]
  BY DEF EraseValues
<1>2. ASSUME NEW b \in Blocks(f)
      PROVE  Alike(Picked(f.blocks[b], P(f.blocks[b])), f.blocks[b], names)
  <2> DEFINE s == f.blocks[b]
  <2>1. BlockOk(s, names)
    BY DEF FunctionOk
  <2>2. ASSUME NEW i \in DOMAIN s, s[i].op \in Terminators PROVE i \in P(s)
    <3>1. s[i].res = NoValue
      BY <2>1, <2>2 DEF BlockOk, InstOk
    <3>2. QED
      BY <3>1
  <2>3. P(s) \in SUBSET DOMAIN s
    OBVIOUS
  <2> HIDE DEF P, s
  <2>4. QED
    BY <2>1, <2>2, <2>3, PickedAlike DEF s
<1> HIDE DEF P
<1>3. DOMAIN B = Blocks(f) /\ \A b \in Blocks(f) : Alike(B[b], f.blocks[b], names)
  BY <1>2 DEF Blocks
<1> HIDE DEF B
<1>4. QED
  BY <1>1, <1>3, AlikeFits

LEMMA SubstituteFits ==
  ASSUME NEW f, NEW names, FunctionOk(f, names), Covered(f), NEW v, NEW w
  PROVE  FitsExactly(Substitute(f, v, w), f, names)
<1> DEFINE g == ReplaceUses(f, v, w)
<1>1. FitsExactly(g, f, names)
  BY ReplaceUsesFits
<1> HIDE DEF g
<1>2. FitsExactly(EraseValues(g, {v}), g, names)
  BY <1>1, EraseValuesFits DEF Keeps, FitsExactly
<1>3. QED
  BY <1>1, <1>2, FitsInTurn DEF Substitute, g

\* A block is like itself.
LEMMA AlikeItself ==
  ASSUME NEW s, NEW names, BlockOk(s, names)
  PROVE  Alike(s, s, names)
BY DEF Alike

\* One block in the place of another like it.
LEMMA OneBlockFits ==
  ASSUME NEW f, NEW names, FunctionOk(f, names), Covered(f), NEW b \in Blocks(f), NEW t,
         Alike(t, f.blocks[b], names)
  PROVE  FitsExactly([f EXCEPT !.blocks = [f.blocks EXCEPT ![b] = t]], f, names)
<1> DEFINE B == [f.blocks EXCEPT ![b] = t]
<1>1. DOMAIN B = Blocks(f)
  BY DEF Blocks
<1>2. B[b] = t /\ \A c \in Blocks(f) \ {b} : B[c] = f.blocks[c]
  BY DEF Blocks
<1>3. \A c \in Blocks(f) : Alike(B[c], f.blocks[c], names)
  BY <1>2, AlikeItself DEF FunctionOk
<1> HIDE DEF B
<1>4. FitsExactly([f EXCEPT !.blocks = B], f, names)
  BY <1>1, <1>3, AlikeFits
<1>5. QED
  BY <1>4 DEF B

\* Computations for computations.
LEMMA SetInstFits ==
  ASSUME NEW f, NEW names, FunctionOk(f, names), Covered(f), NEW s \in Sites(f), NEW x,
         Like(x, At(f, s), names)
  PROVE  FitsExactly(SetInst(f, s, x), f, names)
<1> DEFINE b == s[1]
           block == f.blocks[b]
           t == [block EXCEPT ![s[2]] = x]
<1>1. b \in Blocks(f) /\ s[2] \in DOMAIN block /\ BlockOk(block, names) /\ At(f, s) = block[s[2]]
  BY SiteIs
<1>2. SetInst(f, s, x) = [f EXCEPT !.blocks = [f.blocks EXCEPT ![b] = t]]
  BY DEF SetInst
<1>3. t = [i \in DOMAIN block |-> t[i]] /\ t[s[2]] = x
  BY <1>1 DEF BlockOk, IsSequence
<1>4. \A i \in DOMAIN block \ {s[2]} : t[i] = block[i]
  BY <1>1
<1> HIDE DEF block, t
<1>5. \A i \in DOMAIN block : Like(t[i], block[i], names)
  BY <1>1, <1>3, <1>4 DEF Like, BlockOk
<1>6. Alike(t, block, names)
  BY <1>1, <1>3, <1>5, LikeAlike
<1>7. QED
  BY <1>1, <1>2, <1>6, OneBlockFits DEF block

LEMMA ReduceMultiplicationFits ==
  ASSUME NEW f, NEW names, FunctionOk(f, names), Covered(f), NEW s \in Multiplications(f)
  PROVE  FitsExactly(ReduceMultiplication(f, s), f, names)
<1> DEFINE inst == At(f, s)
           k == Factor(inst)
           x == Inst("shl", inst.res, <<inst.args[3 - k]>>, <<Log(inst.args[k])>>)
<1>1. s \in Sites(f) /\ inst.op = "mul"
  BY DEF Multiplications, SitesWith
<1>2. Like(x, inst, names)
  <2>1. /\ x = Inst(x.op, x.res, x.args, x.to)
        /\ x.op = "shl" /\ x.res = inst.res
    BY DEF Inst
  <2>2. Named(x.op, x.res)
    <3>1. Named(inst.op, inst.res)
      BY <1>1, SiteIs DEF InstOk
    <3>2. QED
      BY <1>1, <2>1, <3>1, NamedIs DEF Essential
  <2> HIDE DEF x
  <2>3. QED
    BY <1>1, <2>1, <2>2 DEF Like, InstOk, Terminators
<1>3. ReduceMultiplication(f, s) = SetInst(f, s, x)
  BY DEF ReduceMultiplication
<1>4. QED
  BY <1>1, <1>2, <1>3, SetInstFits

LEMMA ReduceDivisionFits ==
  ASSUME NEW f, NEW names, FunctionOk(f, names), Covered(f), NEW s \in Divisions(f)
  PROVE  FitsExactly(ReduceDivision(f, s), f, names)
<1> DEFINE inst == At(f, s)
           k == Log(inst.args[2])
           y == Inst("shr", inst.res, <<inst.args[1]>>, <<k>>)
           z == Inst("and", inst.res, <<inst.args[1], Const(Power(k) - 1)>>, << >>)
           x == IF inst.op = "div" THEN y ELSE z
<1>1. s \in Sites(f) /\ inst.op \in {"div", "rem"}
  BY DEF Divisions, SitesWith
<1>2. Like(x, inst, names)
  <2>1. y = Inst(y.op, y.res, y.args, y.to) /\ y.op = "shr" /\ y.res = inst.res
    BY DEF Inst
  <2>2. z = Inst(z.op, z.res, z.args, z.to) /\ z.op = "and" /\ z.res = inst.res
    BY DEF Inst
  <2>3. x = y \/ x = z
    OBVIOUS
  <2> HIDE DEF x, y, z
  <2>4. Named(x.op, x.res)
    <3>1. Named(inst.op, inst.res)
      BY <1>1, SiteIs DEF InstOk
    <3>2. QED
      BY <1>1, <2>1, <2>2, <2>3, <3>1, NamedIs DEF Essential
  <2>5. QED
    BY <1>1, <2>1, <2>2, <2>3, <2>4 DEF Like, InstOk, Terminators
<1>3. ReduceDivision(f, s) = SetInst(f, s, x)
  BY DEF ReduceDivision
<1>4. QED
  BY <1>1, <1>2, <1>3, SetInstFits

-----------------------------------------------------------------------------
(* Instructions put into a block. *)

\* Nothing but computations, stores and calls.
Plain(t, names) ==
  /\ IsSequence(t)
  /\ \A i \in DOMAIN t : InstOk(t[i], names) /\ t[i].op \notin Terminators /\ t[i].op # "phi"

LEMMA PlainOk ==
  ASSUME NEW names, NEW t, Plain(t, names)
  PROVE  BlockOk(t, names) /\ Straightforward(t) /\ PhiFree(t) /\ Tos(t) = {} /\ Targets(t) = {}
<1>1. IsSequence(t) /\ Len(t) \in Nat /\ DOMAIN t = 1 .. Len(t) /\ (t # << >> <=> Len(t) # 0)
  BY Places DEF Plain
<1>2. BlockOk(t, names)
  BY <1>1 DEF Plain, BlockOk
<1>3. Straightforward(t) /\ PhiFree(t)
  BY DEF Plain, Straightforward, PhiFree
<1>4. Tos(t) = {}
  BY <1>3, NoTos
<1>5. Targets(t) = {}
  <2>1. ASSUME t # << >> PROVE t[Len(t)].op \notin Terminators
    BY <1>1, <2>1 DEF Plain
  <2>2. QED
    BY <2>1 DEF Targets, Terminators
<1>6. QED
  BY <1>2, <1>3, <1>4, <1>5

\* A block of a single instruction.
LEMMA SingleOk ==
  ASSUME NEW names, NEW x, InstOk(x, names), x.op # "phi"
  PROVE  /\ BlockOk(<<x>>, names) /\ PhiFree(<<x>>) /\ Tos(<<x>>) = {}
         /\ Targets(<<x>>) = IF x.op \in {"br", "condbr"} THEN ToSet(x.to) ELSE {}
         /\ x.op \notin Terminators => Plain(<<x>>, names) /\ Straightforward(<<x>>)
<1> DEFINE t == <<x>>
<1>1. t = [i \in 1 .. 1 |-> t[i]]
  OBVIOUS
<1>2. t[1] = x
  OBVIOUS
<1> HIDE DEF t
<1>3. IsSequence(t) /\ Len(t) = 1 /\ DOMAIN t = 1 .. 1
  BY <1>1, ListIs
<1>4. t # << >>
  BY <1>3, Places
<1>5. \A i \in DOMAIN t : i = 1 /\ t[i] = x
  BY <1>2, <1>3
<1>6. BlockOk(t, names)
  BY <1>3, <1>5 DEF BlockOk
<1>7. PhiFree(t)
  BY <1>5 DEF PhiFree
<1>8. Tos(t) = {}
  BY <1>7, NoTos
<1>9. Targets(t) = IF x.op \in {"br", "condbr"} THEN ToSet(x.to) ELSE {}
  BY <1>2, <1>3, <1>4 DEF Targets
<1>10. x.op \notin Terminators => Plain(t, names) /\ Straightforward(t)
  BY <1>3, <1>5 DEF Plain, Straightforward
<1>11. QED
  BY <1>6, <1>7, <1>8, <1>9, <1>10 DEF t

\* The list t between the beginning s and the end u of a block.
LEMMA BetweenOk ==
  ASSUME NEW names, NEW s, BlockOk(s, names), Straightforward(s), NEW t, Plain(t, names),
         NEW u, BlockOk(u, names), PhiFree(u)
  PROVE  /\ BlockOk(s \o t \o u, names)
         /\ Targets(s \o t \o u) = Targets(u)
         /\ Tos(s \o t \o u) = Tos(s)
         /\ Straightforward(u) => Straightforward(s \o t \o u)
<1>1. BlockOk(t, names) /\ Straightforward(t) /\ PhiFree(t) /\ Tos(t) = {}
  BY PlainOk
<1> DEFINE w == s \o t
<1>2. BlockOk(w, names) /\ Tos(w) = Tos(s) \cup Tos(t) /\ Straightforward(w)
  BY <1>1, JoinOk
<1> HIDE DEF w
<1>3. /\ BlockOk(w \o u, names) /\ Targets(w \o u) = Targets(u) /\ Tos(w \o u) = Tos(w) \cup Tos(u)
      /\ Straightforward(u) => Straightforward(w \o u)
  BY <1>2, JoinOk
<1>4. Tos(u) = {}
  BY NoTos
<1>5. QED
  BY <1>1, <1>2, <1>3, <1>4 DEF w

\* What is behind the instruction i.
LEMMA TailOk ==
  ASSUME NEW names, NEW s, BlockOk(s, names), NEW i \in DOMAIN s, s[i].op \notin Terminators,
         s[i].op # "phi"
  PROVE  LET u == SubSeq(s, i + 1, Len(s))
         IN  BlockOk(u, names) /\ PhiFree(u) /\ Targets(u) = Targets(s)
<1> DEFINE u == SubSeq(s, i + 1, Len(s))
           n == Len(s)
<1>1. /\ n \in Nat /\ DOMAIN s = 1 .. n /\ (s # << >> <=> n # 0) /\ i \in 1 .. n
      /\ i + 1 \in 1 .. n + 1 /\ n \in 0 .. n /\ i + 1 <= n + 1 /\ i \in 1 .. i + 1
      /\ IsSequence(s)
  BY Places DEF BlockOk
<1>2. BlockOk(u, names) /\ PhiFree(u) /\ (i + 1 <= n => Targets(u) = Targets(s))
  BY <1>1, StretchOk
<1>3. Targets(u) = Targets(s)
  <2>1. CASE i = n
    <3>1. Len(u) = n - (i + 1) + 1 /\ IsSequence(u)
      BY <1>1, StretchIs
    <3> HIDE DEF u
    <3>2. n \in Nat
      BY <1>1
    <3> HIDE DEF n
    <3>3. Len(u) = 0
      BY <2>1, <3>1, <3>2
    <3>4. u = << >>
      BY <3>1, <3>3, Places
    <3>5. QED
      BY <2>1, <3>4 DEF Targets, Terminators, n
  <2>2. CASE i # n
    BY <1>1, <1>2, <2>2
  <2>3. QED
    BY <2>1, <2>2
<1>4. QED
  BY <1>2, <1>3

\* ... in the place of the instruction i.
LEMMA SpliceAlike ==
  ASSUME NEW names, NEW s, BlockOk(s, names), NEW i \in DOMAIN s, s[i].op \notin Terminators,
         s[i].op # "phi", NEW t, Plain(t, names)
  PROVE  Alike(SubSeq(s, 1, i - 1) \o t \o SubSeq(s, i + 1, Len(s)), s, names)
<1> DEFINE a == SubSeq(s, 1, i - 1)
           u == SubSeq(s, i + 1, Len(s))
           n == Len(s)
<1>1. /\ n \in Nat /\ i \in 1 .. n
      /\ i - 1 \in 0 .. n /\ 1 \in 1 .. n + 1 /\ 1 <= (i - 1) + 1 /\ i - 1 # n
  BY Places DEF BlockOk
<1>2. BlockOk(a, names) /\ Tos(a) \subseteq Tos(s) /\ Straightforward(a)
  BY <1>1, StretchOk
<1>3. BlockOk(u, names) /\ PhiFree(u) /\ Targets(u) = Targets(s)
  BY TailOk
<1> HIDE DEF a, u
<1>4. /\ BlockOk(a \o t \o u, names) /\ Targets(a \o t \o u) = Targets(u)
      /\ Tos(a \o t \o u) = Tos(a)
  BY <1>2, <1>3, BetweenOk
<1>5. QED
  BY <1>2, <1>3, <1>4 DEF Alike, a, u

\* ... before the branch or return at the end.
LEMMA InsertAlike ==
  ASSUME NEW names, NEW s, BlockOk(s, names), s # << >>, s[Len(s)].op \in Terminators,
         NEW t, Plain(t, names)
  PROVE  Alike(Front(s) \o t \o <<Last(s)>>, s, names)
<1> DEFINE a == Front(s)
           u == <<Last(s)>>
           n == Len(s)
<1>1. /\ n \in Nat /\ DOMAIN s = 1 .. n /\ n # 0 /\ n \in 1 .. n
      /\ n - 1 \in 0 .. n /\ 1 \in 1 .. n + 1 /\ 1 <= (n - 1) + 1 /\ n - 1 # n
  BY Places DEF BlockOk
<1>2. BlockOk(a, names) /\ Tos(a) \subseteq Tos(s) /\ Straightforward(a)
  BY <1>1, StretchOk DEF Front
<1>3. InstOk(s[n], names) /\ s[n].op # "phi" /\ Last(s) = s[n]
  BY <1>1 DEF BlockOk, Terminators, Last
<1>4. BlockOk(u, names) /\ PhiFree(u) /\ Targets(u) = Targets(s)
  BY <1>3, SingleOk DEF Targets
<1> HIDE DEF a, u
<1>5. /\ BlockOk(a \o t \o u, names) /\ Targets(a \o t \o u) = Targets(u)
      /\ Tos(a \o t \o u) = Tos(a)
  BY <1>2, <1>4, BetweenOk
<1>6. QED
  BY <1>2, <1>4, <1>5 DEF Alike, a, u

-----------------------------------------------------------------------------
(* licm *)

\* The instructions of a function can be counted.
LEMMA SitesFinite ==
  ASSUME NEW f, NEW names, FunctionOk(f, names)
  PROVE  IsFiniteSet(Sites(f))
<1>1. IsFiniteSet(Blocks(f))
  <2>1. f.next \in Nat /\ Blocks(f) \subseteq 0 .. f.next - 1
    BY DEF FunctionOk
  <2>2. IsFiniteSet(0 .. f.next - 1)
    BY <2>1, FS_Interval
  <2>3. QED
    BY <2>1, <2>2, FS_Subset
<1> DEFINE of(b) == {b} \X DOMAIN f.blocks[b]
           each == [b \in Blocks(f) |-> of(b)]
           all == {each[b] : b \in Blocks(f)}
<1>2. ASSUME NEW b \in Blocks(f) PROVE IsFiniteSet(of(b))
  <2>1. Len(f.blocks[b]) \in Nat /\ DOMAIN f.blocks[b] = 1 .. Len(f.blocks[b])
    BY Places DEF FunctionOk, BlockOk
  <2>2. IsFiniteSet(DOMAIN f.blocks[b])
    BY <2>1, FS_Interval
  <2>3. IsFiniteSet({b})
    BY FS_Singleton
  <2>4. QED
    BY <2>2, <2>3, FS_Product
<1> HIDE DEF of
<1>3. {each[b] : b \in Blocks(f)} = {of(b) : b \in Blocks(f)}
  OBVIOUS
<1>4. \A T \in all : IsFiniteSet(T)
  BY <1>2
<1> HIDE DEF each
<1>5. IsFiniteSet(all)
  <2> DEFINE e == [b \in Blocks(f) |-> each[b]]
  <2>1. e \in Surjection(Blocks(f), all)
    BY DEF Surjection
  <2> HIDE DEF e, all
  <2>2. QED
    BY <1>1, <2>1, FS_Surjection
<1>6. IsFiniteSet(UNION all)
  BY <1>4, <1>5, FS_UNION
<1>7. QED
  BY <1>3, <1>6 DEF Sites, of

\* What licm moves are computations of the function.
LEMMA InvariantsAre ==
  ASSUME NEW f, NEW names, FunctionOk(f, names), NEW h
  PROVE  Invariant(f, h) \subseteq {s \in Sites(f) : At(f, s).op \in Hoistable}
<1> DEFINE blocks == LoopBlocks(f, h)
           computed == {At(f, s).res : s \in {t \in Sites(f) : t[1] \in blocks}}
           candidates == {s \in SitesWith(f, Hoistable) : s[1] \in blocks}
           grow(X) == Given({At(f, t).res : t \in X}, LAMBDA known :
                        {s \in candidates : ToSet(At(f, s).args) \cap computed \subseteq known})
           step == [X \in SUBSET candidates |-> grow(X)]
           Body(g) == [n \in Nat |-> IF n = 0 THEN {} ELSE grow(g[n - 1])]
           w == CHOOSE g : g = Body(g)
<1> HIDE DEF computed, blocks
<1>1. ASSUME NEW X PROVE grow(X) \in SUBSET candidates
  <2> DEFINE known == {At(f, t).res : t \in X}
             those(k) == {s \in candidates : ToSet(At(f, s).args) \cap computed \subseteq k}
  <2>1. grow(X) = CHOOSE r \in {those(k) : k \in {known}} : TRUE
    BY DEF Given
  <2> HIDE DEF known, grow
  <2>2. those(known) \in {those(k) : k \in {known}}
    OBVIOUS
  <2>3. grow(X) \in {those(k) : k \in {known}}
    BY <2>1, <2>2
  <2>4. QED
    BY <2>3
<1> HIDE DEF grow
<1>2. step \in [SUBSET candidates -> SUBSET candidates] /\ {} \in SUBSET candidates
  BY <1>1
<1> HIDE DEF candidates
<1>3. ASSUME NEW g, Sequel(g, SUBSET candidates, {}, step) PROVE g = Body(g)
  <2>1. ASSUME NEW n \in Nat PROVE g[n] = Body(g)[n]
    BY <1>3, SequelUnfolds
  <2>2. g \in [Nat -> SUBSET candidates]
    BY <1>3 DEF Sequel
  <2>3. Body(g) = [n \in Nat |-> Body(g)[n]]
    OBVIOUS
  <2> HIDE DEF Body
  <2>4. QED
    BY <2>1, <2>2, <2>3
<1>4. w = Body(w)
  <2> HIDE DEF Body, step
  <2>1. \E g : Sequel(g, SUBSET candidates, {}, step)
    BY <1>2, SequelExists
  <2>2. QED
    BY <1>3, <2>1
<1>5. Invariant(f, h) = w[Cardinality(candidates)]
  BY DEF Invariant, InvariantIn, Given, candidates, computed, blocks, grow
<1> HIDE DEF w
<1>6. \A n \in Nat : w[n] \in SUBSET candidates
  BY <1>1, <1>4
<1>7. Cardinality(candidates) \in Nat
  <2>1. candidates \subseteq Sites(f)
    BY DEF candidates, SitesWith
  <2>2. IsFiniteSet(candidates)
    BY <2>1, SitesFinite, FS_Subset
  <2>3. QED
    BY <2>2, FS_CardinalityType
<1>8. QED
  BY <1>5, <1>6, <1>7 DEF candidates, SitesWith

\* They are listed one by one.
LEMMA ScheduledAre ==
  ASSUME NEW f, NEW names, FunctionOk(f, names), NEW sites \in SUBSET Sites(f)
  PROVE  Scheduled(f, sites) \in Seq(sites)
<1> DEFINE rest(t) == sites \ ToSet(t)
           waiting(t) == {At(f, s).res : s \in rest(t)}
           ready(t) == {s \in rest(t) : ToSet(At(f, s).args) \cap waiting(t) = {}}
           grow(t) == IF ready(t) = {} THEN t ELSE Append(t, FirstOf(f, ready(t)))
           step == [t \in Seq(sites) |-> grow(t)]
           Body(g) == [n \in Nat |-> IF n = 0 THEN << >> ELSE grow(g[n - 1])]
           w == CHOOSE g : g = Body(g)
<1>1. ASSUME NEW t \in Seq(sites) PROVE grow(t) \in Seq(sites)
  <2>1. ready(t) \in SUBSET sites
    OBVIOUS
  <2> HIDE DEF ready
  <2>2. ready(t) # {} => FirstOf(f, ready(t)) \in sites
    BY <2>1, FirstIs
  <2>3. CASE ready(t) = {}
    BY <2>3
  <2>4. CASE ready(t) # {}
    <3> DEFINE x == FirstOf(f, ready(t))
    <3>1. x \in sites
      BY <2>2, <2>4
    <3>2. grow(t) = Append(t, x)
      BY <2>4
    <3> HIDE DEF x, grow
    <3>3. QED
      BY <3>1, <3>2
  <2>5. QED
    BY <2>3, <2>4
<1>2. Scheduled(f, sites) = w[Cardinality(sites)]
  BY DEF Scheduled
<1> HIDE DEF grow
<1>3. step \in [Seq(sites) -> Seq(sites)] /\ << >> \in Seq(sites)
  BY <1>1
<1>4. ASSUME NEW g, Sequel(g, Seq(sites), << >>, step) PROVE g = Body(g)
  <2>1. ASSUME NEW n \in Nat PROVE g[n] = Body(g)[n]
    BY <1>4, SequelUnfolds
  <2>2. g \in [Nat -> Seq(sites)]
    BY <1>4 DEF Sequel
  <2>3. Body(g) = [n \in Nat |-> Body(g)[n]]
    OBVIOUS
  <2> HIDE DEF Body
  <2>4. QED
    BY <2>1, <2>2, <2>3
<1>5. w = Body(w)
  <2> HIDE DEF Body, step
  <2>1. \E g : Sequel(g, Seq(sites), << >>, step)
    BY <1>3, SequelExists
  <2>2. QED
    BY <1>4, <2>1
<1> HIDE DEF w
<1>6. Sequel(w, Seq(sites), << >>, step)
  <2>1. w = [n \in Nat |-> w[n]] /\ w[0] = << >>
    BY <1>5
  <2>2. ASSUME NEW n \in Nat, w[n] \in Seq(sites) PROVE w[n + 1] = step[w[n]]
    <3>1. n + 1 \in Nat /\ n + 1 # 0 /\ (n + 1) - 1 = n
      OBVIOUS
    <3>2. Body(w)[n + 1] = grow(w[n])
      BY <3>1
    <3>3. w[n + 1] = grow(w[n])
      BY <1>5, <3>2
    <3>4. QED
      BY <2>2, <3>3
  <2> HIDE DEF step
  <2>3. QED
    BY <1>3, <2>1, <2>2, SequelFolds
<1>7. Cardinality(sites) \in Nat
  BY SitesFinite, FS_Subset, FS_CardinalityType
<1>8. QED
  BY <1>2, <1>6, <1>7 DEF Sequel

LEMMA HoistFits ==
  ASSUME NEW f, NEW names, FunctionOk(f, names), Covered(f), NEW h, Preheaders(f, h) # {}
  PROVE  FitsExactly(HoistInvariants(f, h), f, names)
<1> DEFINE p == CHOOSE b \in Preheaders(f, h) : TRUE
           sites == Scheduled(f, Invariant(f, h))
           moved == [i \in DOMAIN sites |-> At(f, sites[i])]
           left == EraseValues(f, {moved[i].res : i \in DOMAIN moved})
           s == left.blocks[p]
           t == Front(s) \o moved \o <<Last(s)>>
<1>1. p \in Preheaders(f, h)
  OBVIOUS
<1>2. sites \in Seq({c \in Sites(f) : At(f, c).op \in Hoistable})
  <2>1. Invariant(f, h) \subseteq {c \in Sites(f) : At(f, c).op \in Hoistable}
    BY InvariantsAre
  <2>2. Scheduled(f, Invariant(f, h)) \in Seq(Invariant(f, h))
    BY <2>1, ScheduledAre
  <2>3. QED
    BY <2>1, <2>2
<1> HIDE DEF p, sites
<1>3. Plain(moved, names)
  <2>1. Len(sites) \in Nat /\ DOMAIN sites = 1 .. Len(sites)
    BY <1>2
  <2>2. ASSUME NEW i \in DOMAIN sites
        PROVE  InstOk(moved[i], names) /\ moved[i].op \in Hoistable
    <3>1. sites[i] \in Sites(f) /\ At(f, sites[i]).op \in Hoistable
      BY <1>2, <2>2
    <3>2. QED
      BY <3>1, SiteIs
  <2>3. moved = [i \in 1 .. Len(sites) |-> moved[i]] /\ DOMAIN moved = DOMAIN sites
    BY <2>1
  <2> HIDE DEF moved
  <2>4. IsSequence(moved)
    BY <2>1, <2>3, ListIs
  <2>5. \A op \in Hoistable : op \notin Terminators /\ op # "phi"
    BY DEF Hoistable, Binary, Arithmetic, Comparisons, Unary, Terminators
  <2>6. QED
    BY <2>2, <2>3, <2>4, <2>5 DEF Plain
<1>4. HoistInvariants(f, h) = [left EXCEPT !.blocks = [left.blocks EXCEPT ![p] = t]]
  BY DEF HoistInvariants, p, sites
<1> HIDE DEF moved
<1>5. FitsExactly(left, f, names)
  BY EraseValuesFits
<1>6. p \in Blocks(f) /\ h \in Succs(f, p)
  BY <1>1 DEF Preheaders, PredsOf
<1>7. Blocks(left) = Blocks(f) /\ Succs(left, p) = Succs(f, p)
  <2> DEFINE lives(inst) == inst.res = NoValue \/ inst.res \notin {moved[i].res : i \in DOMAIN moved}
             P(block) == {i \in DOMAIN block : lives(block[i])}
             B == [b \in DOMAIN f.blocks |-> Picked(f.blocks[b], P(f.blocks[b]))]
  <2>1. left = [f EXCEPT !.blocks = B]
    BY DEF EraseValues
  <2>2. Blocks(left) = Blocks(f) /\ left.blocks = B
    <3> HIDE DEF B, left
    <3>1. Blocks(left) = DOMAIN B /\ left.blocks = B
      BY <2>1, BlocksAre
    <3>2. QED
      BY <3>1 DEF B, Blocks
  <2> HIDE DEF P
  <2>3. BlockOk(f.blocks[p], names)
    BY <1>6 DEF FunctionOk
  <2>4. Alike(Picked(f.blocks[p], P(f.blocks[p])), f.blocks[p], names)
    <3>1. P(f.blocks[p]) \in SUBSET DOMAIN f.blocks[p]
      BY DEF P
    <3>2. ASSUME NEW i \in DOMAIN f.blocks[p], f.blocks[p][i].op \in Terminators
          PROVE  i \in P(f.blocks[p])
      BY <2>3, <3>2 DEF BlockOk, InstOk, P
    <3>3. QED
      BY <2>3, <3>1, <3>2, PickedAlike
  <2>5. left.blocks[p] = Picked(f.blocks[p], P(f.blocks[p]))
    BY <1>6, <2>2 DEF Blocks
  <2>6. QED
    BY <2>2, <2>4, <2>5, ControlIs DEF Alike
<1>8. FunctionOk(left, names) /\ Covered(left)
  BY <1>5 DEF Keeps, FitsExactly
<1> HIDE DEF left
<1>9. BlockOk(s, names) /\ p \in Blocks(left)
  BY <1>6, <1>7, <1>8 DEF FunctionOk
<1>10. s # << >> /\ s[Len(s)].op \in Terminators
  <2>1. Targets(s) # {}
    BY <1>6, <1>7, ControlIs
  <2>2. QED
    BY <2>1 DEF Targets, Terminators
<1> HIDE DEF s
<1>11. Alike(t, s, names)
  BY <1>3, <1>9, <1>10, InsertAlike
<1> HIDE DEF t
<1>12. FitsExactly(HoistInvariants(f, h), left, names)
  BY <1>4, <1>8, <1>9, <1>11, OneBlockFits DEF s
<1>13. QED
  BY <1>5, <1>12, FitsInTurn

-----------------------------------------------------------------------------
(* localize_globals and limited_inline *)

\* No phi is made where each block is put in the place of one like it.
LEMMA AlikeWithoutPhis ==
  ASSUME NEW f, NEW names, FunctionOk(f, names), WithoutPhis(f), NEW B, DOMAIN B = Blocks(f),
         \A b \in Blocks(f) : Alike(B[b], f.blocks[b], names),
         NEW g, g = [f EXCEPT !.blocks = B]
  PROVE  WithoutPhis(g)
<1>1. g.blocks = B /\ Blocks(g) = Blocks(f)
  BY BlocksAre
<1>2. ASSUME NEW b \in Blocks(f) PROVE Phis(g, b) = {}
  <2>1. BlockOk(f.blocks[b], names) /\ Phis(f, b) = {}
    BY DEF FunctionOk, WithoutPhis
  <2>2. PhiFree(f.blocks[b])
    BY <2>1, PhisAre
  <2>3. Tos(f.blocks[b]) = {}
    BY <2>2, NoTos
  <2>4. Alike(g.blocks[b], f.blocks[b], names)
    BY <1>1
  <2>5. Tos(g.blocks[b]) = {} /\ BlockOk(g.blocks[b], names)
    BY <2>3, <2>4 DEF Alike
  <2>6. PhiFree(g.blocks[b])
    BY <2>5, NoTos
  <2>7. QED
    BY <2>5, <2>6, PhisAre
<1>3. QED
  BY <1>1, <1>2 DEF WithoutPhis

LEMMA LocalizeFits ==
  ASSUME NEW f, NEW names, FunctionOk(f, names), Covered(f), NEW m, NEW x \in Localizable(m, f),
         NEW id \in Nat
  PROVE  /\ FitsExactly(LocalizeGlobal(f, x, id), f, names)
         /\ WithoutPhis(f) => WithoutPhis(LocalizeGlobal(f, x, id))
<1> DEFINE slot == V(id)
           opening == <<Inst("alloca", slot, << >>, << >>), Inst("load", V(id + 1), <<x>>, << >>),
                        Inst("store", NoValue, <<slot, V(id + 1)>>, << >>)>>
           redirected(inst) ==
             IF inst.op \in {"load", "store"} /\ inst.args[1] = x
             THEN [inst EXCEPT !.args[1] = slot] ELSE inst
           back(b) == <<Inst("load", V(id + 2 + b), <<slot>>, << >>),
                        Inst("store", NoValue, <<x, V(id + 2 + b)>>, << >>)>>
           closing(b) ==
             IF Written(f, x) /\ Last(f.blocks[b]).op = "ret" THEN back(b) ELSE << >>
           body(b) == [i \in DOMAIN f.blocks[b] |-> redirected(f.blocks[b][i])]
           closed(b) == IF closing(b) = << >> THEN body(b)
                        ELSE Front(body(b)) \o closing(b) \o <<Last(body(b))>>
           B == [b \in Blocks(f) |->
                   IF b = EntryOf(f) THEN opening \o closed(b) ELSE closed(b)]
<1>1. LocalizeGlobal(f, x, id) = [f EXCEPT !.blocks = B]
  BY DEF LocalizeGlobal
<1>2. ASSUME NEW y, InstOk(y, names) PROVE Like(redirected(y), y, names)
  <2>1. CASE y.op \in {"load", "store"} /\ y.args[1] = x
    <3> DEFINE a == [y.args EXCEPT ![1] = slot]
    <3>1. redirected(y) = [y EXCEPT !.args = a]
      BY <2>1
    <3> HIDE DEF redirected, a
    <3>2. QED
      BY <1>2, <3>1, ArgsOnly
  <2>2. CASE ~(y.op \in {"load", "store"} /\ y.args[1] = x)
    BY <1>2, <2>2 DEF Like
  <2>3. QED
    BY <2>1, <2>2
<1> HIDE DEF redirected
<1>3. ASSUME NEW b \in Blocks(f)
      PROVE  /\ Alike(body(b), f.blocks[b], names) /\ Len(body(b)) = Len(f.blocks[b])
             /\ DOMAIN body(b) = DOMAIN f.blocks[b]
             /\ \A i \in DOMAIN body(b) : Like(body(b)[i], f.blocks[b][i], names)
  <2>1. BlockOk(f.blocks[b], names)
    BY DEF FunctionOk
  <2>2. \A i \in DOMAIN f.blocks[b] : Like(body(b)[i], f.blocks[b][i], names)
    BY <1>2, <2>1 DEF BlockOk
  <2>3. body(b) = [i \in DOMAIN f.blocks[b] |-> body(b)[i]]
    OBVIOUS
  <2> HIDE DEF body
  <2>4. QED
    BY <2>1, <2>2, <2>3, LikeAlike
<1> HIDE DEF body
<1>4. Plain(opening, names)
  <2>1. opening = [i \in 1 .. 3 |-> opening[i]]
    OBVIOUS
  <2>2. /\ opening[1] = Inst("alloca", slot, << >>, << >>)
        /\ opening[2] = Inst("load", V(id + 1), <<x>>, << >>)
        /\ opening[3] = Inst("store", NoValue, <<slot, V(id + 1)>>, << >>)
    OBVIOUS
  <2>3. Named("alloca", slot) /\ Named("load", V(id + 1)) /\ Named("store", NoValue)
    <3>1. id + 1 \in Nat
      OBVIOUS
    <3>2. QED
      BY <3>1, NamedIs DEF Essential
  <2> HIDE DEF opening, slot
  <2>4. IsSequence(opening) /\ DOMAIN opening = 1 .. 3
    BY <2>1, ListIs
  <2>5. \A i \in 1 .. 3 : i = 1 \/ i = 2 \/ i = 3
    OBVIOUS
  <2>6. QED
    BY <2>2, <2>3, <2>4, <2>5 DEF Plain, InstOk, Inst, Terminators
<1>5. ASSUME NEW b \in Blocks(f) PROVE Plain(back(b), names) /\ back(b) # << >>
  <2> DEFINE t == back(b)
             v == V(id + 2 + b)
  <2>1. t = [i \in 1 .. 2 |-> t[i]]
    OBVIOUS
  <2>2. t[1] = Inst("load", v, <<slot>>, << >>) /\ t[2] = Inst("store", NoValue, <<x, v>>, << >>)
    OBVIOUS
  <2> HIDE DEF back
  <2>3. IsSequence(t) /\ DOMAIN t = 1 .. 2 /\ Len(t) = 2
    BY <2>1, ListIs
  <2>4. \A i \in 1 .. 2 : i = 1 \/ i = 2
    OBVIOUS
  <2>5. Named("load", v) /\ Named("store", NoValue)
    <3>1. b \in 0 .. f.next - 1 /\ f.next \in Nat
      BY DEF FunctionOk
    <3>2. id + 2 + b \in Nat
      BY <3>1
    <3>3. QED
      BY <3>2, NamedIs DEF Essential
  <2> HIDE DEF t, v, slot
  <2>6. Plain(t, names)
    BY <2>2, <2>3, <2>4, <2>5 DEF Plain, InstOk, Inst, Terminators
  <2>7. t # << >>
    <3>1. IsSequence(t) /\ Len(t) # 0
      BY <2>3
    <3>2. QED
      BY <3>1, Places
  <2>8. QED
    BY <2>6, <2>7 DEF t
<1> HIDE DEF opening, back
<1>6. ASSUME NEW b \in Blocks(f) PROVE Alike(closed(b), f.blocks[b], names)
  <2>1. CASE ~(Written(f, x) /\ Last(f.blocks[b]).op = "ret")
    BY <1>3, <2>1
  <2>2. CASE Written(f, x) /\ Last(f.blocks[b]).op = "ret"
    <3>1. closed(b) = Front(body(b)) \o back(b) \o <<Last(body(b))>>
      BY <1>5, <2>2
    <3>2. Terminated(f, b)
      BY <2>2 DEF Localizable
    <3>3. f.blocks[b] # << >> /\ f.blocks[b][Len(f.blocks[b])].op \in Terminators
      BY <3>2 DEF Terminated, Last, Terminators
    <3>4. Len(f.blocks[b]) \in DOMAIN f.blocks[b] /\ Len(f.blocks[b]) # 0
      BY <3>3, Places DEF FunctionOk, BlockOk
    <3> DEFINE s == body(b)
    <3>5. BlockOk(s, names) /\ Len(s) # 0 /\ s[Len(s)].op \in Terminators
      BY <1>3, <3>3, <3>4 DEF Alike, Like
    <3>6. s # << >>
      BY <3>5, Places DEF BlockOk
    <3>7. Alike(Front(s) \o back(b) \o <<Last(s)>>, s, names)
      BY <1>5, <3>5, <3>6, InsertAlike
    <3>8. Alike(closed(b), s, names)
      BY <3>1, <3>7
    <3> HIDE DEF closed
    <3>9. QED
      BY <1>3, <3>8 DEF Alike
  <2>3. QED
    BY <2>1, <2>2
<1> HIDE DEF closed
<1>7. ASSUME NEW b \in Blocks(f) PROVE Alike(B[b], f.blocks[b], names)
  <2>1. CASE b # EntryOf(f)
    BY <1>6, <2>1
  <2>2. CASE b = EntryOf(f)
    <3>1. B[b] = opening \o closed(b)
      BY <2>2
    <3>2. BlockOk(f.blocks[b], names) /\ Phis(f, b) = {}
      BY <2>2 DEF FunctionOk
    <3>3. PhiFree(f.blocks[b])
      BY <3>2, PhisAre
    <3>4. Tos(f.blocks[b]) = {}
      BY <3>3, NoTos
    <3>5. BlockOk(closed(b), names) /\ Targets(closed(b)) = Targets(f.blocks[b]) /\ Tos(closed(b)) = {}
      BY <1>6, <3>4 DEF Alike
    <3>6. PhiFree(closed(b))
      BY <3>5, NoTos
    <3>7. BlockOk(opening, names) /\ Straightforward(opening) /\ Tos(opening) = {}
      BY <1>4, PlainOk
    <3>8. /\ BlockOk(opening \o closed(b), names)
          /\ Targets(opening \o closed(b)) = Targets(closed(b))
          /\ Tos(opening \o closed(b)) = Tos(opening) \cup Tos(closed(b))
      BY <3>5, <3>6, <3>7, JoinOk
    <3>9. QED
      BY <3>1, <3>5, <3>7, <3>8 DEF Alike
  <2>3. QED
    BY <2>1, <2>2
<1>8. DOMAIN B = Blocks(f)
  OBVIOUS
<1> HIDE DEF B
<1>9. FitsExactly([f EXCEPT !.blocks = B], f, names)
  BY <1>7, <1>8, AlikeFits
<1>10. WithoutPhis(f) => WithoutPhis([f EXCEPT !.blocks = B])
  BY <1>7, <1>8, AlikeWithoutPhis
<1>11. QED
  BY <1>1, <1>9, <1>10

\* The same operation with another result and other arguments.
LEMMA ResultAndArgsOnly ==
  ASSUME NEW names, NEW x, InstOk(x, names), x.op \notin Terminators, NEW y,
         y = Inst(x.op, y.res, y.args, x.to), y.res \in ValueNames
  PROVE  InstOk(y, names) /\ y.op = x.op
<1>1. y.op = x.op /\ y.to = x.to
  BY DEF Inst
<1>2. y = Inst(y.op, y.res, y.args, y.to)
  BY <1>1
<1>3. Named(y.op, y.res)
  BY NamedIs
<1>4. QED
  BY <1>1, <1>2, <1>3 DEF InstOk, Terminators

LEMMA InlineStraightFits ==
  ASSUME NEW f, NEW names, FunctionOk(f, names), Covered(f), NEW s \in Sites(f),
         At(f, s).op = "call", NEW callee, FunctionOk(callee, names), Straight(callee), NEW id \in Nat
  PROVE  FitsExactly(InlineStraight(f, s, callee, id), f, names)
<1> DEFINE call == At(f, s)
           body == callee.blocks[EntryOf(callee)]
           site == f.blocks[s[1]]
           clone(v) == CASE v[1] = "arg" -> call.args[v[2]]
                         [] IsInst(v) -> V(id + v[2])
                         [] OTHER -> v
           args(y) == [k \in DOMAIN y.args |-> clone(y.args[k])]
           cloned == [i \in DOMAIN Front(body) |->
                        Inst(body[i].op, clone(body[i].res), args(body[i]), body[i].to)]
           t == SubSeq(site, 1, s[2] - 1) \o cloned \o SubSeq(site, s[2] + 1, Len(site))
           spliced == [f EXCEPT !.blocks = [f.blocks EXCEPT ![s[1]] = t]]
<1>1. InlineStraight(f, s, callee, id) =
        IF call.res = NoValue THEN spliced
        ELSE ReplaceUses(spliced, call.res, clone(Last(body).args[1]))
  BY DEF InlineStraight
<1>2. ASSUME NEW v \in ValueNames PROVE clone(v) \in ValueNames
  <2>1. v[1] = "v" /\ v[2] \in Nat
    BY NamedIs
  <2>2. clone(v) = V(id + v[2]) /\ id + v[2] \in Nat
    BY <2>1 DEF IsInst
  <2> HIDE DEF clone
  <2>3. QED
    BY <2>2, NamedIs
<1> HIDE DEF clone
<1>3. Plain(cloned, names)
  <2> DEFINE n == Len(body)
  <2>1. BlockOk(body, names)
    BY EntryIs DEF FunctionOk
  <2>2. n \in Nat /\ DOMAIN body = 1 .. n /\ n # 0
    BY <2>1, Places DEF BlockOk, Straight
  <2>3. /\ n - 1 \in 0 .. n /\ 1 \in 1 .. n + 1 /\ 1 <= (n - 1) + 1 /\ (n - 1) - 1 + 1 = n - 1
        /\ n - 1 \in Nat
    BY <2>2
  <2>4. DOMAIN Front(body) = 1 .. n - 1
    BY <2>1, <2>2, <2>3, StretchIs DEF Front, BlockOk
  <2>5. ASSUME NEW i \in 1 .. n - 1
        PROVE  InstOk(cloned[i], names) /\ cloned[i].op \in Binary \cup Unary
    <3>1. i \in DOMAIN body /\ i # n
      BY <2>2
    <3>2. InstOk(body[i], names) /\ body[i].op \notin Terminators
      BY <2>1, <3>1 DEF BlockOk
    <3>3. body[i].op \in Binary \cup Unary
      BY <3>1, <3>2 DEF Straight, Terminators
    <3>4. clone(body[i].res) \in ValueNames
      <4>1. body[i].op \notin Essential
        BY <3>3 DEF Binary, Arithmetic, Comparisons, Unary, Essential
      <4>2. QED
        BY <1>2, <3>2, <4>1, NamedIs DEF InstOk
    <3>5. cloned[i] = Inst(body[i].op, clone(body[i].res), args(body[i]), body[i].to)
      BY <2>4
    <3> HIDE DEF cloned, args
    <3> DEFINE r == clone(body[i].res)
               y == body[i]
               a == args(y)
    <3>6. InstOk(y, names) /\ y.op \notin Terminators /\ r \in ValueNames
      BY <3>2, <3>4
    <3>7. cloned[i] = Inst(y.op, r, a, y.to)
      BY <3>5
    <3> HIDE DEF r, y, a
    <3> DEFINE z == cloned[i]
    <3>8. z = Inst(y.op, z.res, z.args, y.to) /\ z.res \in ValueNames
      <4>1. z.res = r /\ z.args = a
        BY <3>7 DEF Inst
      <4>2. QED
        BY <3>6, <3>7, <4>1
    <3> HIDE DEF z
    <3>9. InstOk(z, names) /\ z.op = y.op
      BY <3>6, <3>8, ResultAndArgsOnly
    <3>10. QED
      BY <3>3, <3>9 DEF y, z
  <2>6. cloned = [i \in 1 .. n - 1 |-> cloned[i]]
    BY <2>4
  <2> HIDE DEF cloned
  <2>7. IsSequence(cloned) /\ DOMAIN cloned = 1 .. n - 1
    BY <2>3, <2>6, ListIs
  <2>8. \A op \in Binary \cup Unary : op \notin Terminators /\ op # "phi"
    BY DEF Binary, Arithmetic, Comparisons, Unary, Terminators
  <2>9. QED
    BY <2>5, <2>7, <2>8 DEF Plain
<1> HIDE DEF cloned
<1>4. s[1] \in Blocks(f) /\ s[2] \in DOMAIN site /\ BlockOk(site, names) /\ site[s[2]].op = "call"
  BY SiteIs
<1>5. Alike(t, site, names)
  BY <1>3, <1>4, SpliceAlike DEF Terminators
<1> HIDE DEF t
<1>6. FitsExactly(spliced, f, names)
  BY <1>4, <1>5, OneBlockFits
<1> HIDE DEF spliced
<1>7. FunctionOk(spliced, names) /\ Covered(spliced)
  BY <1>6 DEF FitsExactly, Keeps
<1> DEFINE w == clone(Last(body).args[1])
<1>8. FitsExactly(ReplaceUses(spliced, call.res, w), spliced, names)
  BY <1>7, ReplaceUsesFits
<1>9. FitsExactly(ReplaceUses(spliced, call.res, w), f, names)
  BY <1>6, <1>8, FitsInTurn
<1>10. QED
  BY <1>1, <1>6, <1>9

-----------------------------------------------------------------------------
(* cfs: branches *)

\* A branch to the block c.
LEMMA BrIs ==
  ASSUME NEW names, NEW c
  PROVE  /\ InstOk(Br(c), names) /\ Br(c).op = "br" /\ Br(c).to = <<c>> /\ ToSet(Br(c).to) = {c}
         /\ BlockOk(<<Br(c)>>, names) /\ PhiFree(<<Br(c)>>) /\ Tos(<<Br(c)>>) = {}
         /\ Targets(<<Br(c)>>) = {c}
<1> DEFINE x == Br(c)
<1>1. x = Inst(x.op, x.res, x.args, x.to) /\ x.op = "br" /\ x.res = NoValue /\ x.to = <<c>>
  BY DEF Br, Inst
<1>2. DOMAIN <<c>> = {1} /\ ToSet(<<c>>) = {c}
  BY DEF ToSet
<1> HIDE DEF x
<1>3. InstOk(x, names)
  BY <1>1, <1>2, NamedIs DEF InstOk, Terminators, Essential
<1>4. /\ BlockOk(<<x>>, names) /\ PhiFree(<<x>>) /\ Tos(<<x>>) = {}
      /\ Targets(<<x>>) = {c}
  BY <1>1, <1>2, <1>3, SingleOk
<1>5. QED
  BY <1>1, <1>2, <1>3, <1>4 DEF x

\* An edge may go with nothing put in its place.
LEMMA FewerEdgesFit ==
  ASSUME NEW f, NEW names, FunctionOk(f, names), Covered(f), NEW B, DOMAIN B = Blocks(f),
         \A b \in Blocks(f) : /\ BlockOk(B[b], names)
                              /\ Targets(B[b]) \subseteq Targets(f.blocks[b])
                              /\ Tos(B[b]) \subseteq Tos(f.blocks[b])
  PROVE  Fits([f EXCEPT !.blocks = B], f, names)
<1> DEFINE g == [f EXCEPT !.blocks = B]
<1>1. /\ g = [name |-> g.name, params |-> g.params, blocks |-> g.blocks, order |-> g.order,
              next |-> g.next, void |-> g.void]
      /\ g.name = f.name /\ g.params = f.params /\ g.blocks = B /\ g.order = f.order
      /\ g.next = f.next /\ g.void = f.void /\ Blocks(g) = Blocks(f)
  BY FieldsAre
<1> HIDE DEF g
<1>2. EntryOf(g) = EntryOf(f) /\ EntryOf(f) \in Blocks(f)
  BY <1>1, EntryIs DEF EntryOf
<1>3. \A b \in Blocks(f) : BlockOk(g.blocks[b], names) /\ BlockOk(f.blocks[b], names)
  BY <1>1 DEF FunctionOk
<1>4. \A b \in Blocks(f) : Succs(g, b) \subseteq Succs(f, b)
  BY <1>1, ControlIs
<1>5. \A b \in Blocks(f) : PredsOf(g, b) \subseteq PredsOf(f, b)
  BY <1>1, <1>4 DEF PredsOf
<1>6. \A b \in Blocks(f) : Tos(g.blocks[b]) \subseteq Tos(f.blocks[b])
  BY <1>1
<1>7. Phis(g, EntryOf(g)) = {}
  <2>1. Phis(f, EntryOf(f)) = {}
    BY DEF FunctionOk
  <2>2. PhiFree(f.blocks[EntryOf(f)])
    BY <1>2, <1>3, <2>1, PhisAre
  <2>3. Tos(f.blocks[EntryOf(f)]) = {}
    BY <2>2, NoTos
  <2>4. Tos(g.blocks[EntryOf(f)]) = {}
    BY <1>2, <1>6, <2>3
  <2>5. PhiFree(g.blocks[EntryOf(f)])
    BY <2>4, NoTos
  <2>6. QED
    BY <1>2, <1>3, <2>5, PhisAre
<1>8. FunctionOk(g, names)
  BY <1>1, <1>2, <1>3, <1>4, <1>7 DEF FunctionOk
<1>9. Covered(g)
  BY <1>1, <1>5, <1>6 DEF Covered
<1>10. Tidy(f) => Tidy(g)
  BY <1>1, <1>6 DEF Tidy
<1>11. QED
  BY <1>1, <1>8, <1>9, <1>10 DEF Keeps, Fits, g

LEMMA FoldBranchFits ==
  ASSUME NEW f, NEW names, FunctionOk(f, names), Covered(f), NEW s \in ConstantBranches(f)
  PROVE  Fits(FoldBranch(f, s), f, names)
<1> DEFINE inst == At(f, s)
           c == IF inst.args[1][2] # 0 THEN inst.to[1] ELSE inst.to[2]
           x == Br(c)
           block == f.blocks[s[1]]
           t == [block EXCEPT ![s[2]] = x]
           B == [f.blocks EXCEPT ![s[1]] = t]
<1>1. s \in Sites(f) /\ inst.op = "condbr"
  BY DEF ConstantBranches, SitesWith
<1>2. /\ s[1] \in Blocks(f) /\ s[2] \in DOMAIN block /\ BlockOk(block, names)
      /\ inst = block[s[2]] /\ InstOk(inst, names)
  BY <1>1, SiteIs
<1>3. FoldBranch(f, s) = [f EXCEPT !.blocks = B]
  BY DEF FoldBranch, SetInst
<1>4. c \in ToSet(inst.to)
  <2>1. DOMAIN inst.to = {1, 2}
    BY <1>1, <1>2 DEF InstOk
  <2>2. QED
    BY <2>1 DEF ToSet
<1> HIDE DEF c
<1>5. InstOk(x, names) /\ x.op = "br" /\ ToSet(x.to) = {c}
  BY BrIs
<1>6. /\ Len(block) \in Nat /\ DOMAIN block = 1 .. Len(block)
      /\ (block # << >> <=> Len(block) # 0) /\ IsSequence(block)
  BY <1>2, Places DEF BlockOk
<1>7. s[2] = Len(block)
  BY <1>1, <1>2 DEF BlockOk, Terminators
<1>8. t = [i \in DOMAIN block |-> t[i]] /\ t[s[2]] = x /\ \A i \in DOMAIN block \ {s[2]} : t[i] = block[i]
  BY <1>2 DEF BlockOk, IsSequence
<1> HIDE DEF inst, x, block, t
<1>9. IsSequence(t) /\ Len(t) = Len(block) /\ DOMAIN t = DOMAIN block
  BY <1>6, <1>8, ListIs
<1>10. ASSUME NEW i \in DOMAIN t
       PROVE  /\ InstOk(t[i], names)
              /\ t[i].op \in Terminators => i = Len(t)
              /\ t[i].op = "phi" => i # s[2] /\ t[i] = block[i] /\ \A j \in 1 .. i : t[j].op = "phi"
  <2>1. CASE i = s[2]
    BY <1>5, <1>7, <1>8, <1>9, <2>1
  <2>2. CASE i # s[2]
    <3>1. t[i] = block[i] /\ i \in DOMAIN block
      BY <1>8, <1>9, <2>2
    <3>2. InstOk(t[i], names) /\ (t[i].op \in Terminators => i = Len(t))
      BY <1>2, <1>9, <3>1 DEF BlockOk
    <3>3. ASSUME t[i].op = "phi", NEW j \in 1 .. i PROVE t[j].op = "phi"
      <4>1. block[j].op = "phi"
        BY <1>2, <3>1, <3>3 DEF BlockOk
      <4>2. j # s[2] /\ j \in DOMAIN block
        BY <1>1, <1>2, <1>6, <3>1, <4>1
      <4>3. QED
        BY <1>8, <4>1, <4>2
    <3>4. QED
      BY <2>2, <3>1, <3>2, <3>3
  <2>3. QED
    BY <2>1, <2>2
<1>11. BlockOk(t, names)
  BY <1>9, <1>10 DEF BlockOk
<1>12. Targets(t) \subseteq Targets(block)
  <2>1. Targets(block) = ToSet(inst.to)
    BY <1>1, <1>2, <1>6, <1>7 DEF Targets
  <2>2. t # << >> /\ t[Len(t)] = x
    BY <1>2, <1>6, <1>7, <1>8, <1>9, Places
  <2>3. Targets(t) = {c}
    BY <1>5, <2>2 DEF Targets
  <2>4. QED
    BY <1>4, <2>1, <2>3
<1>13. Tos(t) \subseteq Tos(block)
  <2>1. ASSUME NEW i \in DOMAIN t, t[i].op = "phi" PROVE t[i].to \in Tos(block)
    BY <1>9, <1>10, <2>1 DEF Tos
  <2>2. QED
    BY <2>1 DEF Tos
<1>14. DOMAIN B = Blocks(f) /\ B[s[1]] = t /\ \A b \in Blocks(f) \ {s[1]} : B[b] = f.blocks[b]
  BY <1>2 DEF Blocks
<1> HIDE DEF B
<1>15. ASSUME NEW b \in Blocks(f)
       PROVE  /\ BlockOk(B[b], names)
              /\ Targets(B[b]) \subseteq Targets(f.blocks[b])
              /\ Tos(B[b]) \subseteq Tos(f.blocks[b])
  BY <1>11, <1>12, <1>13, <1>14 DEF FunctionOk, block
<1>16. QED
  BY <1>3, <1>14, <1>15, FewerEdgesFit

-----------------------------------------------------------------------------
(* Functions with other blocks, or in another order. *)

Anew(g, f, o, n, B) ==
  /\ g = [name |-> g.name, params |-> g.params, blocks |-> g.blocks, order |-> g.order,
          next |-> g.next, void |-> g.void]
  /\ g.name = f.name /\ g.params = f.params /\ g.blocks = B /\ g.order = o
  /\ g.next = n /\ g.void = f.void /\ Blocks(g) = DOMAIN B

LEMMA OrderedAnew ==
  ASSUME NEW f, NEW names, FunctionOk(f, names), NEW o, NEW B,
         NEW g, g = [f EXCEPT !.order = o, !.blocks = B]
  PROVE  Anew(g, f, o, f.next, B)
<1> DEFINE z == [f EXCEPT !.order = o]
           y == [z EXCEPT !.blocks = B]
<1>1. z = [name |-> f.name, params |-> f.params, blocks |-> f.blocks, order |-> o,
           next |-> f.next, void |-> f.void]
  BY DEF FunctionOk
<1>2. g = y
  OBVIOUS
<1> HIDE DEF z
<1>3. y = [name |-> f.name, params |-> f.params, blocks |-> B, order |-> o,
           next |-> f.next, void |-> f.void]
  BY <1>1
<1> HIDE DEF y
<1>4. g = [name |-> f.name, params |-> f.params, blocks |-> B, order |-> o,
           next |-> f.next, void |-> f.void]
  BY <1>2, <1>3
<1>5. /\ g.name = f.name /\ g.params = f.params /\ g.blocks = B /\ g.order = o
      /\ g.next = f.next /\ g.void = f.void
  BY <1>4
<1>6. QED
  BY <1>4, <1>5 DEF Blocks, Anew

LEMMA ExtendedAnew ==
  ASSUME NEW f, NEW names, FunctionOk(f, names), NEW o, NEW n, NEW B,
         NEW g, g = [f EXCEPT !.order = o, !.next = n, !.blocks = B]
  PROVE  Anew(g, f, o, n, B)
<1> DEFINE z == [f EXCEPT !.order = o]
           y == [z EXCEPT !.next = n]
           x == [y EXCEPT !.blocks = B]
<1>1. z = [name |-> f.name, params |-> f.params, blocks |-> f.blocks, order |-> o,
           next |-> f.next, void |-> f.void]
  BY DEF FunctionOk
<1>2. g = x
  OBVIOUS
<1> HIDE DEF z
<1>3. y = [name |-> f.name, params |-> f.params, blocks |-> f.blocks, order |-> o,
           next |-> n, void |-> f.void]
  BY <1>1
<1> HIDE DEF y
<1>4. x = [name |-> f.name, params |-> f.params, blocks |-> B, order |-> o,
           next |-> n, void |-> f.void]
  BY <1>3
<1> HIDE DEF x
<1>5. g = [name |-> f.name, params |-> f.params, blocks |-> B, order |-> o,
           next |-> n, void |-> f.void]
  BY <1>2, <1>4
<1>6. /\ g.name = f.name /\ g.params = f.params /\ g.blocks = B /\ g.order = o
      /\ g.next = n /\ g.void = f.void
  BY <1>5
<1>7. QED
  BY <1>5, <1>6 DEF Blocks, Anew

\* The entry, and where control can go from blocks that can be reached.
LEMMA ReachableIs ==
  ASSUME NEW f, NEW names, FunctionOk(f, names)
  PROVE  /\ Reachable(f) \subseteq Blocks(f)
         /\ EntryOf(f) \in Reachable(f)
         /\ \A b \in Reachable(f) : Succs(f, b) \subseteq Reachable(f)
<1> DEFINE first == {EntryOf(f)} \ {}
           grow(X) == X \cup ((UNION {Succs(f, c) : c \in X}) \ {})
           step == [X \in SUBSET Blocks(f) |-> grow(X)]
           Body(g) == [n \in Nat |-> IF n = 0 THEN first ELSE grow(g[n - 1])]
           w == CHOOSE g : g = Body(g)
           N == Len(f.order)
<1>1. /\ first \in SUBSET Blocks(f) /\ step \in [SUBSET Blocks(f) -> SUBSET Blocks(f)]
      /\ \A X, Y \in SUBSET Blocks(f) : X \subseteq Y => step[X] \subseteq step[Y]
      /\ first \subseteq step[first]
  <2>1. EntryOf(f) \in Blocks(f)
    BY EntryIs
  <2>2. \A b \in Blocks(f) : Succs(f, b) \subseteq Blocks(f)
    BY DEF FunctionOk
  <2>3. step \in [SUBSET Blocks(f) -> SUBSET Blocks(f)]
    BY <2>2
  <2>4. \A X, Y \in SUBSET Blocks(f) : X \subseteq Y => step[X] \subseteq step[Y]
    OBVIOUS
  <2>5. first \subseteq step[first]
    BY <2>1
  <2>6. QED
    BY <2>1, <2>3, <2>4, <2>5
<1>2. Reachable(f) = w[N]
  BY DEF Reachable, Flooded
<1>3. \A X \in SUBSET Blocks(f) : step[X] = grow(X)
  OBVIOUS
<1> HIDE DEF grow
<1>4. ASSUME NEW g, Sequel(g, SUBSET Blocks(f), first, step) PROVE g = Body(g)
  <2>1. ASSUME NEW n \in Nat PROVE g[n] = Body(g)[n]
    BY <1>4, SequelUnfolds
  <2>2. g \in [Nat -> SUBSET Blocks(f)]
    BY <1>4 DEF Sequel
  <2>3. Body(g) = [n \in Nat |-> Body(g)[n]]
    OBVIOUS
  <2> HIDE DEF Body
  <2>4. QED
    BY <2>1, <2>2, <2>3
<1>5. w = Body(w)
  <2> HIDE DEF Body, step, first
  <2>1. \E g : Sequel(g, SUBSET Blocks(f), first, step)
    BY <1>1, SequelExists
  <2>2. QED
    BY <1>4, <2>1
<1> HIDE DEF w
<1>6. Sequel(w, SUBSET Blocks(f), first, step)
  <2>1. w = [n \in Nat |-> w[n]] /\ w[0] = first
    BY <1>5
  <2>2. ASSUME NEW n \in Nat, w[n] \in SUBSET Blocks(f) PROVE w[n + 1] = step[w[n]]
    <3>1. n + 1 \in Nat /\ n + 1 # 0 /\ (n + 1) - 1 = n
      OBVIOUS
    <3>2. Body(w)[n + 1] = grow(w[n])
      BY <3>1
    <3>3. w[n + 1] = grow(w[n])
      BY <1>5, <3>2
    <3>4. QED
      BY <2>2, <3>3
  <2> HIDE DEF step, first
  <2>3. QED
    BY <1>1, <2>1, <2>2, SequelFolds
<1>7. Chain(w, Blocks(f), first, step)
  BY <1>6, AChain
<1>8. IsFiniteSet(Blocks(f)) /\ N \in Nat /\ N >= Cardinality(Blocks(f))
  <2>1. N \in Nat /\ f.order \in Surjection(1 .. N, Blocks(f))
    <3>1. N \in Nat /\ DOMAIN f.order = 1 .. N /\ f.order \in Seq(Blocks(f))
      BY EntryIs DEF FunctionOk
    <3>2. f.order \in [1 .. N -> Blocks(f)]
      BY <3>1
    <3>3. \A b \in Blocks(f) : \E i \in 1 .. N : f.order[i] = b
      BY <3>1, EntryIs
    <3>4. QED
      BY <3>1, <3>2, <3>3 DEF Surjection
  <2>2. IsFiniteSet(1 .. N) /\ Cardinality(1 .. N) = N
    BY <2>1, FS_Interval
  <2>3. IsFiniteSet(Blocks(f)) /\ Cardinality(Blocks(f)) <= Cardinality(1 .. N)
    BY <2>1, <2>2, FS_Surjection
  <2>4. Cardinality(Blocks(f)) \in Nat
    BY <2>3, FS_CardinalityType
  <2>5. QED
    BY <2>1, <2>2, <2>3, <2>4
<1> HIDE DEF N, first, step
<1>9. Monotone(Blocks(f), step)
  BY <1>1 DEF Monotone
<1>10. w[N] \in SUBSET Blocks(f) /\ step[w[N]] = w[N]
  BY <1>1, <1>7, <1>8, <1>9, ChainSettles DEF Chain
<1>11. \A n \in Nat : w[n] \subseteq w[n + 1]
  BY <1>1, <1>7, <1>9, ChainGrows
<1>12. first \subseteq w[N]
  <2> DEFINE T == {n \in Nat : first \subseteq w[n]}
  <2>1. 0 \in T
    BY <1>7 DEF Chain
  <2>2. ASSUME NEW n \in Nat, n \in T PROVE n + 1 \in T
    BY <1>11, <2>2
  <2> HIDE DEF T
  <2>3. N \in T
    BY <1>8, <2>1, <2>2, AllNaturals
  <2>4. QED
    BY <2>3 DEF T
<1>13. EntryOf(f) \in w[N]
  BY <1>12 DEF first
<1>14. ASSUME NEW b \in w[N] PROVE Succs(f, b) \subseteq w[N]
  <2>1. grow(w[N]) = w[N]
    BY <1>3, <1>10
  <2>2. QED
    BY <1>14, <2>1 DEF grow
<1>15. QED
  BY <1>2, <1>10, <1>13, <1>14

-----------------------------------------------------------------------------
(* cfs: blocks *)

\* The instruction y is x, but for the entries if it is a phi.
Similar(y, x, names) ==
  /\ InstOk(y, names)
  /\ y.op = x.op
  /\ x.op # "phi" => y.to = x.to

LEMMA SimilarIs ==
  ASSUME NEW names, NEW s, BlockOk(s, names), NEW t, t = [i \in DOMAIN s |-> t[i]],
         \A i \in DOMAIN s : Similar(t[i], s[i], names)
  PROVE  /\ BlockOk(t, names) /\ Targets(t) = Targets(s) /\ DOMAIN t = DOMAIN s
         /\ PhiFree(s) => PhiFree(t)
<1>1. Len(s) \in Nat /\ DOMAIN s = 1 .. Len(s) /\ (s # << >> <=> Len(s) # 0)
  BY Places DEF BlockOk
<1>2. \A i \in DOMAIN s : InstOk(t[i], names) /\ t[i].op = s[i].op
  BY DEF Similar
<1>3. /\ BlockOk(t, names) /\ DOMAIN t = DOMAIN s /\ Len(t) = Len(s) /\ (t # << >> <=> s # << >>)
      /\ PhiFree(s) => PhiFree(t)
  BY <1>2, SameOpsOk
<1>4. Targets(t) = Targets(s)
  <2>1. CASE s = << >>
    BY <1>3, <2>1 DEF Targets
  <2>2. CASE s # << >>
    <3>1. Len(s) \in DOMAIN s
      BY <1>1, <2>2
    <3>2. Similar(t[Len(s)], s[Len(s)], names)
      BY <3>1
    <3>3. t[Len(s)].op = s[Len(s)].op
      BY <3>2 DEF Similar
    <3>4. s[Len(s)].op \in {"br", "condbr"} => t[Len(s)].to = s[Len(s)].to
      BY <3>2 DEF Similar
    <3>5. QED
      BY <1>3, <2>2, <3>3, <3>4 DEF Targets
  <2>3. QED
    BY <2>1, <2>2
<1>5. QED
  BY <1>3, <1>4

\* What is picked begins with what the list begins with, if that is picked.
LEMMA FirstPicked ==
  ASSUME NEW s, IsSequence(s), NEW P \in SUBSET DOMAIN s, 1 \in P
  PROVE  Picked(s, P)[1] = s[1] /\ 1 \in DOMAIN Picked(s, P)
<1> DEFINE t == Picked(s, P)
<1>1. PICK e : Drawn(t, s, P, e)
  BY PickedAre
<1> HIDE DEF t
<1>2. IsSequence(t) /\ Len(t) \in Nat /\ DOMAIN t = 1 .. Len(t)
  BY <1>1, Places DEF Drawn
<1>3. PICK k \in DOMAIN t : e[k] = 1
  BY <1>1 DEF Drawn
<1>4. 1 \in DOMAIN t /\ k \in Int /\ 1 <= k
  BY <1>2
<1>5. e[1] \in DOMAIN s /\ DOMAIN s = 1 .. Len(s) /\ Len(s) \in Nat
  BY <1>1, <1>4, Places DEF Drawn
<1>6. ~(1 < k)
  <2>1. ASSUME 1 < k PROVE FALSE
    <3>1. e[1] < e[k]
      BY <1>1, <1>4, <2>1 DEF Drawn
    <3>2. e[1] \in Int /\ 1 <= e[1]
      BY <1>5
    <3>3. QED
      BY <1>3, <3>1, <3>2
  <2>2. QED
    BY <2>1
<1>7. k = 1
  BY <1>4, <1>6
<1>8. t[1] = s[1]
  BY <1>1, <1>3, <1>7 DEF Drawn
<1>9. QED
  BY <1>4, <1>8 DEF t

LEMMA RemoveUnreachableFits ==
  ASSUME NEW f, NEW names, FunctionOk(f, names), Covered(f)
  PROVE  Fits(RemoveUnreachable(f), f, names)
<1> DEFINE reach == Reachable(f)
           kept(list) == Picked(list, {i \in DOMAIN list : list[i] \in reach})
           block(b) == [i \in DOMAIN f.blocks[b] |->
                          IF i \in PhiSites(f, b) /\ kept(f.blocks[b][i].to) # f.blocks[b][i].to
                          THEN EntriesFor(f.blocks[b][i], kept(f.blocks[b][i].to))
                          ELSE f.blocks[b][i]]
           B == [b \in reach |-> block(b)]
           o == kept(f.order)
           g == RemoveUnreachable(f)
<1>1. g = [f EXCEPT !.order = o, !.blocks = B]
  BY DEF RemoveUnreachable
<1>2. /\ reach \subseteq Blocks(f) /\ EntryOf(f) \in reach
      /\ \A b \in reach : Succs(f, b) \subseteq reach
  BY ReachableIs
<1> HIDE DEF reach
<1>3. ASSUME NEW l, IsSequence(l)
      PROVE  /\ IsSequence(kept(l)) /\ ToSet(kept(l)) = ToSet(l) \cap reach
             /\ (\A i, j \in DOMAIN l : l[i] = l[j] => i = j)
                  => \A i, j \in DOMAIN kept(l) : kept(l)[i] = kept(l)[j] => i = j
  <2> DEFINE P == {i \in DOMAIN l : l[i] \in reach}
  <2>1. P \in SUBSET DOMAIN l
    OBVIOUS
  <2>2. {l[i] : i \in P} = ToSet(l) \cap reach
    BY DEF ToSet
  <2> HIDE DEF P
  <2>3. /\ IsSequence(Picked(l, P)) /\ ToSet(Picked(l, P)) = {l[i] : i \in P}
        /\ (\A i, j \in DOMAIN l : l[i] = l[j] => i = j)
             => \A i, j \in DOMAIN Picked(l, P) : Picked(l, P)[i] = Picked(l, P)[j] => i = j
    BY <1>3, <2>1, PickedFew
  <2>4. QED
    BY <2>2, <2>3 DEF P
<1>4. o[1] = EntryOf(f) /\ 1 \in DOMAIN o
  <2> DEFINE P == {i \in DOMAIN f.order : f.order[i] \in reach}
  <2>1. IsSequence(f.order) /\ 1 \in DOMAIN f.order /\ f.order[1] = EntryOf(f)
    BY EntryIs DEF EntryOf
  <2>2. P \in SUBSET DOMAIN f.order /\ 1 \in P
    BY <1>2, <2>1
  <2> HIDE DEF P
  <2>3. Picked(f.order, P)[1] = f.order[1] /\ 1 \in DOMAIN Picked(f.order, P)
    BY <2>1, <2>2, FirstPicked
  <2>4. QED
    BY <2>1, <2>3 DEF P
<1>5. /\ IsSequence(o) /\ ToSet(o) = reach
      /\ \A i, j \in DOMAIN o : o[i] = o[j] => i = j
  <2>1. /\ IsSequence(f.order) /\ ToSet(f.order) = Blocks(f)
        /\ \A i, j \in DOMAIN f.order : f.order[i] = f.order[j] => i = j
    BY EntryIs DEF FunctionOk
  <2> HIDE DEF kept
  <2>2. /\ IsSequence(o) /\ ToSet(o) = Blocks(f) \cap reach
        /\ \A i, j \in DOMAIN o : o[i] = o[j] => i = j
    BY <1>3, <2>1
  <2>3. QED
    BY <1>2, <2>2
<1> HIDE DEF kept
<1> DEFINE shorter(u, b) == \E l \in Tos(f.blocks[b]) : u = kept(l)
<1>6. ASSUME NEW b \in reach
      PROVE  /\ BlockOk(block(b), names) /\ Targets(block(b)) = Succs(f, b)
             /\ PhiFree(f.blocks[b]) => PhiFree(block(b))
             /\ \A u \in Tos(block(b)) : shorter(u, b)
  <2> DEFINE s == f.blocks[b]
             t == block(b)
  <2>1. BlockOk(s, names) /\ b \in Blocks(f)
    BY <1>2 DEF FunctionOk
  <2>2. \A i \in DOMAIN s : i \in PhiSites(f, b) <=> s[i].op = "phi"
    BY <2>1, PhiSitesAre
  <2>3. ASSUME NEW i \in DOMAIN s
        PROVE  Similar(t[i], s[i], names) /\ (s[i].op = "phi" => t[i].to = kept(s[i].to))
    <3> DEFINE y == EntriesFor(s[i], kept(s[i].to))
    <3>1. /\ y.op = "phi" /\ y = Inst(y.op, y.res, y.args, y.to) /\ y.to = kept(s[i].to)
          /\ y.res = s[i].res
      BY DEF EntriesFor, Inst
    <3>2. t[i] = IF s[i].op = "phi" /\ kept(s[i].to) # s[i].to THEN y ELSE s[i]
      BY <2>2
    <3> HIDE DEF y, t
    <3>3. InstOk(s[i], names)
      BY <2>1 DEF BlockOk
    <3>4. s[i].op = "phi" => InstOk(y, names)
      BY <3>1, <3>3 DEF InstOk, Terminators
    <3>5. QED
      BY <3>1, <3>2, <3>3, <3>4 DEF Similar
  <2>4. t = [i \in DOMAIN s |-> t[i]]
    OBVIOUS
  <2> HIDE DEF t, block
  <2>5. BlockOk(t, names) /\ Targets(t) = Targets(s) /\ DOMAIN t = DOMAIN s /\ (PhiFree(s) => PhiFree(t))
    BY <2>1, <2>3, <2>4, SimilarIs
  <2>6. ASSUME NEW i \in DOMAIN t, t[i].op = "phi" PROVE \E l \in Tos(s) : t[i].to = kept(l)
    <3>1. s[i].op = "phi" /\ t[i].to = kept(s[i].to)
      BY <2>3, <2>5, <2>6 DEF Similar
    <3>2. s[i].to \in Tos(s)
      BY <2>5, <3>1 DEF Tos
    <3>3. QED
      BY <3>1, <3>2
  <2>7. \A u \in Tos(t) : shorter(u, b)
    BY <2>6 DEF Tos
  <2> HIDE DEF shorter
  <2>8. Targets(t) = Succs(f, b)
    BY <2>5, ControlIs
  <2>9. BlockOk(t, names) /\ Targets(t) = Succs(f, b) /\ (PhiFree(s) => PhiFree(t))
    BY <2>5, <2>8
  <2>10. QED
    BY <2>7, <2>9 DEF t
<1> HIDE DEF block
<1>7. Anew(g, f, o, f.next, B)
  <2> HIDE DEF g, B, o
  <2>1. QED
    BY <1>1, OrderedAnew
<1>8. Blocks(g) = reach /\ \A b \in reach : g.blocks[b] = block(b)
  <2> HIDE DEF g
  <2>1. QED
    BY <1>7 DEF Anew
<1> HIDE DEF g, B, o
<1>9. EntryOf(g) = EntryOf(f)
  BY <1>4, <1>7 DEF EntryOf, Anew
<1>10. \A b \in reach : Succs(g, b) = Succs(f, b)
  BY <1>6, <1>8, ControlIs
<1>11. \A b \in reach : PredsOf(g, b) = PredsOf(f, b) \cap reach
  BY <1>2, <1>8, <1>10 DEF PredsOf
<1>12. FunctionOk(g, names)
  <2>1. f.next \in Nat /\ reach \subseteq 0 .. f.next - 1
    BY <1>2 DEF FunctionOk
  <2>2. o \in Seq(reach) /\ o # << >>
    <3>1. o \in Seq({o[i] : i \in DOMAIN o}) /\ o # << >>
      BY <1>4, <1>5, SequenceIs, Places
    <3>2. {o[i] : i \in DOMAIN o} = reach
      BY <1>5 DEF ToSet
    <3>3. QED
      BY <3>1, <3>2
  <2>3. Phis(g, EntryOf(g)) = {}
    <3> DEFINE e == EntryOf(f)
    <3>1. e \in reach /\ BlockOk(f.blocks[e], names) /\ Phis(f, e) = {}
      BY <1>2 DEF FunctionOk
    <3>2. PhiFree(f.blocks[e])
      BY <3>1, PhisAre
    <3>3. BlockOk(g.blocks[e], names) /\ PhiFree(g.blocks[e])
      BY <1>6, <1>8, <3>1, <3>2
    <3>4. QED
      BY <1>9, <3>3, PhisAre
  <2>4. ASSUME NEW b \in Blocks(g)
        PROVE  BlockOk(g.blocks[b], names) /\ Succs(g, b) \subseteq Blocks(g) \ {EntryOf(g)}
    <3>1. Succs(f, b) \subseteq Blocks(f) \ {EntryOf(f)}
      BY <1>2, <1>8 DEF FunctionOk
    <3>2. QED
      BY <1>2, <1>6, <1>8, <1>9, <1>10, <3>1
  <2>5. QED
    BY <1>5, <1>7, <1>8, <2>1, <2>2, <2>3, <2>4 DEF FunctionOk, Anew
<1>13. Covered(g)
  <2>1. ASSUME NEW b \in reach, NEW u \in Tos(g.blocks[b])
        PROVE  IsSequence(u) /\ PredsOf(g, b) \subseteq ToSet(u)
    <3>1. PICK l \in Tos(f.blocks[b]) : u = kept(l)
      BY <1>6, <1>8
    <3>2. IsSequence(l) /\ PredsOf(f, b) \subseteq ToSet(l)
      BY <1>2 DEF Covered
    <3>3. QED
      BY <1>3, <1>11, <3>1, <3>2
  <2>2. QED
    BY <1>8, <2>1 DEF Covered
<1>14. ASSUME Tidy(f) PROVE Tidy(g)
  <2>1. ASSUME NEW b \in reach, NEW u \in Tos(g.blocks[b])
        PROVE  (\A i, j \in DOMAIN u : u[i] = u[j] => i = j) /\ ToSet(u) \subseteq reach
    <3>1. PICK l \in Tos(f.blocks[b]) : u = kept(l)
      BY <1>6, <1>8
    <3>2. IsSequence(l) /\ \A i, j \in DOMAIN l : l[i] = l[j] => i = j
      BY <1>2, <1>14 DEF Covered, Tidy
    <3>3. QED
      BY <1>3, <3>1, <3>2
  <2>2. QED
    BY <1>8, <2>1 DEF Tidy
<1>15. QED
  BY <1>7, <1>12, <1>13, <1>14 DEF Keeps, Fits, Anew, g

\* A block goes behind the only one that jumps to it; one that only jumps to itself is just gone.
LEMMA MergeBlocksFits ==
  ASSUME NEW f, NEW names, FunctionOk(f, names), Covered(f), CanMerge(f)
  PROVE  FitsExactly(MergeBlocks(f), f, names)
<1> DEFINE s0 == FirstOf(f, MergeSites(f))
           a == s0[1]
           b == Last(f.blocks[a]).to[1]
           new(x) == IF x = b THEN a ELSE x
           tos(l) == [k \in DOMAIN l |-> new(l[k])]
           retargeted(inst) == IF inst.op = "phi" THEN [inst EXCEPT !.to = tos(@)] ELSE inst
           merged(c) == IF c = a THEN Front(f.blocks[a]) \o f.blocks[b] ELSE f.blocks[c]
           block(c) == IF c \in Succs(f, b)
                       THEN [i \in DOMAIN merged(c) |-> retargeted(merged(c)[i])] ELSE merged(c)
           left == Blocks(f) \ {b}
           B == [c \in left |-> block(c)]
           P == {i \in DOMAIN f.order : f.order[i] # b}
           o == Picked(f.order, P)
           g == MergeBlocks(f)
<1>1. g = [f EXCEPT !.order = o, !.blocks = B]
  BY DEF MergeBlocks
<1>2. s0 \in MergeSites(f) /\ MergeSites(f) \subseteq Sites(f) /\ Phis(f, At(f, s0).to[1]) = {}
  <2>1. MergeSites(f) \in SUBSET Sites(f)
    BY DEF MergeSites, SitesWith
  <2>2. QED
    BY <2>1, FirstIs DEF CanMerge
<1>3. /\ a \in Blocks(f) /\ BlockOk(f.blocks[a], names) /\ s0[2] \in DOMAIN f.blocks[a]
      /\ At(f, s0) = f.blocks[a][s0[2]] /\ At(f, s0).op = "br"
      /\ PredsOf(f, At(f, s0).to[1]) = {a}
  BY <1>2, SiteIs DEF MergeSites, SitesWith
<1> HIDE DEF s0
<1>4. s0[2] = Len(f.blocks[a])
  BY <1>3 DEF BlockOk, Terminators
<1>5. Last(f.blocks[a]) = At(f, s0)
  BY <1>3, <1>4 DEF Last
<1>6. Len(f.blocks[a]) \in Nat \ {0} /\ f.blocks[a] # << >> /\ DOMAIN f.blocks[a] = 1 .. Len(f.blocks[a])
  BY <1>3, Places DEF BlockOk
<1>7. DOMAIN At(f, s0).to = {1}
  BY <1>3 DEF BlockOk, InstOk
<1>8. Succs(f, a) = {b} /\ PredsOf(f, b) = {a} /\ Phis(f, b) = {}
  <2>1. Succs(f, a) = ToSet(At(f, s0).to)
    BY <1>3, <1>4, <1>6, ControlIs DEF Targets
  <2>2. ToSet(At(f, s0).to) = {b}
    BY <1>5, <1>7 DEF ToSet
  <2>3. QED
    BY <1>2, <1>3, <1>5, <2>1, <2>2
<1>9. b \in Blocks(f) /\ b # EntryOf(f) /\ BlockOk(f.blocks[b], names) /\ PhiFree(f.blocks[b])
  <2>1. b \in Blocks(f) \ {EntryOf(f)}
    BY <1>3, <1>8 DEF FunctionOk
  <2>2. BlockOk(f.blocks[b], names)
    BY <2>1 DEF FunctionOk
  <2>3. QED
    BY <1>8, <2>1, <2>2, PhisAre
<1> HIDE DEF a, b
<1>10. EntryOf(f) \in left /\ EntryOf(f) \in Blocks(f)
  BY <1>9, EntryIs
<1>11. /\ IsSequence(o) /\ ToSet(o) = left
       /\ \A i, j \in DOMAIN o : o[i] = o[j] => i = j
       /\ o[1] = EntryOf(f) /\ 1 \in DOMAIN o
  <2>1. /\ IsSequence(f.order) /\ ToSet(f.order) = Blocks(f) /\ 1 \in DOMAIN f.order
        /\ f.order[1] = EntryOf(f)
        /\ \A i, j \in DOMAIN f.order : f.order[i] = f.order[j] => i = j
    BY EntryIs DEF FunctionOk, EntryOf
  <2>2. P \in SUBSET DOMAIN f.order /\ 1 \in P
    BY <1>9, <2>1
  <2>3. {f.order[i] : i \in P} = left
    BY <2>1 DEF ToSet
  <2> HIDE DEF P
  <2>4. /\ IsSequence(Picked(f.order, P)) /\ ToSet(Picked(f.order, P)) = {f.order[i] : i \in P}
        /\ (\A i, j \in DOMAIN f.order : f.order[i] = f.order[j] => i = j)
             => \A i, j \in DOMAIN Picked(f.order, P) :
                  Picked(f.order, P)[i] = Picked(f.order, P)[j] => i = j
    BY <2>1, <2>2, PickedFew
  <2>5. Picked(f.order, P)[1] = f.order[1] /\ 1 \in DOMAIN Picked(f.order, P)
    BY <2>1, <2>2, FirstPicked
  <2>6. QED
    BY <2>1, <2>3, <2>4, <2>5
<1> DEFINE moved(u, c) == \E l \in Tos(f.blocks[c]) : u = IF c \in Succs(f, b) THEN tos(l) ELSE l
<1>12. ASSUME NEW c \in left
       PROVE  /\ BlockOk(merged(c), names)
              /\ Targets(merged(c)) = IF c = a THEN Succs(f, b) ELSE Succs(f, c)
              /\ PhiFree(f.blocks[c]) => PhiFree(merged(c))
              /\ Tos(merged(c)) \subseteq Tos(f.blocks[c])
  <2>1. BlockOk(f.blocks[c], names) /\ Targets(f.blocks[c]) = Succs(f, c)
    BY ControlIs DEF FunctionOk
  <2>2. CASE c # a
    BY <2>1, <2>2
  <2>3. CASE c = a
    <3> DEFINE s == Front(f.blocks[a])
               n == Len(f.blocks[a])
    <3>1. /\ n - 1 \in 0 .. n /\ 1 \in 1 .. n + 1 /\ 1 <= (n - 1) + 1 /\ n - 1 # n
      BY <1>6
    <3>2. BlockOk(s, names) /\ Tos(s) \subseteq Tos(f.blocks[a]) /\ Straightforward(s)
      BY <1>3, <3>1, StretchOk DEF Front
    <3> HIDE DEF s
    <3>3. /\ BlockOk(s \o f.blocks[b], names) /\ Targets(s \o f.blocks[b]) = Targets(f.blocks[b])
          /\ Tos(s \o f.blocks[b]) = Tos(s) \cup Tos(f.blocks[b])
          /\ PhiFree(s) /\ PhiFree(f.blocks[b]) => PhiFree(s \o f.blocks[b])
      BY <1>9, <3>2, JoinOk
    <3>4. Tos(f.blocks[b]) = {} /\ Targets(f.blocks[b]) = Succs(f, b)
      BY <1>9, NoTos, ControlIs
    <3>5. PhiFree(f.blocks[a]) => PhiFree(s)
      BY <3>2, NoTos
    <3>6. merged(c) = s \o f.blocks[b]
      BY <2>3 DEF s
    <3> HIDE DEF merged
    <3>7. QED
      BY <1>9, <2>3, <3>2, <3>3, <3>4, <3>5, <3>6
  <2>4. QED
    BY <2>2, <2>3
<1> HIDE DEF merged
<1>13. ASSUME NEW c \in left
       PROVE  /\ BlockOk(block(c), names)
              /\ Targets(block(c)) = IF c = a THEN Succs(f, b) ELSE Succs(f, c)
              /\ PhiFree(f.blocks[c]) => PhiFree(block(c))
              /\ \A u \in Tos(block(c)) : moved(u, c)
  <2> DEFINE s == merged(c)
             t == block(c)
  <2>1. /\ BlockOk(s, names) /\ Targets(s) = IF c = a THEN Succs(f, b) ELSE Succs(f, c)
        /\ PhiFree(f.blocks[c]) => PhiFree(s)
        /\ Tos(s) \subseteq Tos(f.blocks[c])
    BY <1>12
  <2>2. CASE c \notin Succs(f, b)
    <3>1. t = s
      BY <2>2
    <3>2. \A u \in Tos(s) : moved(u, c)
      BY <2>1, <2>2
    <3> HIDE DEF t, s, moved
    <3>3. QED
      BY <2>1, <3>1, <3>2 DEF t
  <2>3. CASE c \in Succs(f, b)
    <3> HIDE DEF s
    <3>1. t = [i \in DOMAIN s |-> t[i]] /\ \A i \in DOMAIN s : t[i] = retargeted(s[i])
      BY <2>3 DEF s
    <3>2. ASSUME NEW i \in DOMAIN s
          PROVE  Similar(t[i], s[i], names) /\ (s[i].op = "phi" => t[i].to = tos(s[i].to))
      <4> DEFINE y == [s[i] EXCEPT !.to = tos(s[i].to)]
      <4>1. InstOk(s[i], names)
        BY <2>1 DEF BlockOk
      <4>2. t[i] = IF s[i].op = "phi" THEN y ELSE s[i]
        BY <3>1
      <4>3. y = Inst(s[i].op, s[i].res, s[i].args, tos(s[i].to))
        BY <4>1 DEF InstOk, Inst
      <4>4. /\ y.op = s[i].op /\ y = Inst(y.op, y.res, y.args, y.to) /\ y.to = tos(s[i].to)
            /\ y.res = s[i].res
        BY <4>3 DEF Inst
      <4> HIDE DEF y, t, tos
      <4>5. s[i].op = "phi" => InstOk(y, names)
        BY <4>1, <4>4 DEF InstOk, Terminators
      <4>6. QED
        BY <4>1, <4>2, <4>4, <4>5 DEF Similar
    <3> HIDE DEF t, tos
    <3>3. BlockOk(t, names) /\ Targets(t) = Targets(s) /\ DOMAIN t = DOMAIN s /\ (PhiFree(s) => PhiFree(t))
      BY <2>1, <3>1, <3>2, SimilarIs
    <3>4. ASSUME NEW i \in DOMAIN t, t[i].op = "phi"
          PROVE  \E l \in Tos(f.blocks[c]) : t[i].to = tos(l)
      <4>1. s[i].op = "phi" /\ t[i].to = tos(s[i].to)
        BY <3>2, <3>3, <3>4 DEF Similar
      <4>2. s[i].to \in Tos(s)
        BY <3>3, <4>1 DEF Tos
      <4>3. QED
        BY <2>1, <4>1, <4>2
    <3>5. \A u \in Tos(t) : moved(u, c)
      BY <2>3, <3>4 DEF Tos
    <3> HIDE DEF moved, block
    <3>6. QED
      BY <2>1, <3>3, <3>5 DEF t
  <2>4. QED
    BY <2>2, <2>3
<1> HIDE DEF block
<1>14. Anew(g, f, o, f.next, B)
  <2> HIDE DEF g, B, o
  <2>1. QED
    BY <1>1, OrderedAnew
<1>15. Blocks(g) = left /\ \A c \in left : g.blocks[c] = block(c)
  <2> HIDE DEF g
  <2>1. QED
    BY <1>14 DEF Anew
<1> HIDE DEF g, B, o, P, left
<1>16. EntryOf(g) = EntryOf(f)
  BY <1>11, <1>14 DEF EntryOf, Anew
<1>17. \A c \in left : Succs(g, c) = IF c = a THEN Succs(f, b) ELSE Succs(f, c)
  BY <1>13, <1>15, ControlIs
<1>18. \A c \in left : c \in Blocks(f) /\ c # b
  BY DEF left
<1>19. ASSUME NEW c \in left PROVE Succs(g, c) \subseteq left \ {EntryOf(g)}
  <2>1. \A d \in Blocks(f) : Succs(f, d) \subseteq Blocks(f) \ {EntryOf(f)}
    BY DEF FunctionOk
  <2>2. \A d \in Blocks(f) : b \in Succs(f, d) => d = a
    BY <1>8 DEF PredsOf
  <2>3. b \notin Succs(g, c)
    BY <1>9, <1>17, <1>18, <2>2
  <2>4. Succs(g, c) \subseteq Blocks(f) \ {EntryOf(f)}
    BY <1>9, <1>17, <1>18, <2>1
  <2>5. QED
    BY <1>16, <2>3, <2>4 DEF left
<1>20. ASSUME NEW c \in left
       PROVE  PredsOf(g, c) = {new(x) : x \in PredsOf(f, c)} /\ a \notin PredsOf(f, c)
  <2>1. a \notin PredsOf(f, c)
    BY <1>8, <1>18 DEF PredsOf
  <2>2. ASSUME NEW x \in PredsOf(g, c) PROVE \E y \in PredsOf(f, c) : x = new(y)
    <3>1. x \in left /\ c \in Succs(g, x) /\ x \in Blocks(f) /\ x # b
      BY <1>15, <1>18 DEF PredsOf
    <3>2. CASE x = a
      <4>1. b \in PredsOf(f, c)
        BY <1>9, <1>17, <3>1, <3>2 DEF PredsOf
      <4>2. QED
        BY <3>2, <4>1
    <3>3. CASE x # a
      <4>1. x \in PredsOf(f, c)
        BY <1>17, <3>1, <3>3 DEF PredsOf
      <4>2. QED
        BY <3>1, <4>1
    <3>4. QED
      BY <3>2, <3>3
  <2>3. ASSUME NEW y \in PredsOf(f, c) PROVE new(y) \in PredsOf(g, c)
    <3>1. y \in Blocks(f) /\ c \in Succs(f, y) /\ y # a
      BY <2>1 DEF PredsOf
    <3>2. CASE y = b
      <4>1. a # b
        BY <3>1, <3>2
      <4>2. a \in left
        BY <1>3, <4>1 DEF left
      <4>3. c \in Succs(g, a)
        BY <1>17, <3>1, <3>2, <4>2
      <4>4. QED
        BY <1>15, <3>2, <4>2, <4>3 DEF PredsOf
    <3>3. CASE y # b
      <4>1. y \in left
        BY <3>1, <3>3 DEF left
      <4>2. c \in Succs(g, y)
        BY <1>17, <3>1, <4>1
      <4>3. QED
        BY <1>15, <3>3, <4>1, <4>2 DEF PredsOf
    <3>4. QED
      BY <3>2, <3>3
  <2>4. QED
    BY <2>1, <2>2, <2>3
<1>21. FunctionOk(g, names)
  <2>1. f.next \in Nat /\ left \subseteq 0 .. f.next - 1
    BY DEF FunctionOk, left
  <2>2. o \in Seq(left) /\ o # << >>
    <3>1. o \in Seq({o[i] : i \in DOMAIN o}) /\ o # << >>
      BY <1>11, SequenceIs, Places
    <3>2. {o[i] : i \in DOMAIN o} = left
      BY <1>11 DEF ToSet
    <3>3. QED
      BY <3>1, <3>2
  <2>3. Phis(g, EntryOf(g)) = {}
    <3> DEFINE e == EntryOf(f)
    <3>1. BlockOk(f.blocks[e], names) /\ Phis(f, e) = {}
      BY <1>10 DEF FunctionOk
    <3>2. PhiFree(f.blocks[e])
      BY <3>1, PhisAre
    <3>3. BlockOk(g.blocks[e], names) /\ PhiFree(g.blocks[e])
      BY <1>10, <1>13, <1>15, <3>2
    <3>4. QED
      BY <1>16, <3>3, PhisAre
  <2>4. \A c \in Blocks(g) :
          BlockOk(g.blocks[c], names) /\ Succs(g, c) \subseteq Blocks(g) \ {EntryOf(g)}
    BY <1>13, <1>15, <1>19
  <2>5. QED
    BY <1>11, <1>14, <1>15, <2>1, <2>2, <2>3, <2>4 DEF FunctionOk, Anew
<1>22. ASSUME NEW c \in left, NEW u \in Tos(g.blocks[c])
       PROVE  \E l \in Tos(f.blocks[c]) :
                /\ DOMAIN u = DOMAIN l /\ IsSequence(u)
                /\ \A k \in DOMAIN l : l[k] \in PredsOf(f, c) => u[k] = new(l[k])
  <2>1. moved(u, c)
    BY <1>13, <1>15
  <2>2. PICK l \in Tos(f.blocks[c]) : u = IF c \in Succs(f, b) THEN tos(l) ELSE l
    BY <2>1
  <2>3. IsSequence(l)
    BY <1>18 DEF Covered
  <2>4. CASE c \in Succs(f, b)
    <3>1. u = tos(l) /\ DOMAIN u = DOMAIN l /\ \A k \in DOMAIN l : u[k] = new(l[k])
      BY <2>2, <2>4
    <3>2. Len(l) \in Nat /\ DOMAIN l = 1 .. Len(l)
      BY <2>3, Places
    <3>3. u = [k \in 1 .. Len(l) |-> u[k]]
      BY <3>1, <3>2
    <3>4. IsSequence(u)
      BY <3>2, <3>3, ListIs
    <3>5. QED
      BY <3>1, <3>4
  <2>5. CASE c \notin Succs(f, b)
    <3>1. u = l
      BY <2>2, <2>5
    <3>2. b \notin PredsOf(f, c)
      BY <2>5 DEF PredsOf
    <3>3. QED
      BY <2>3, <3>1, <3>2
  <2>6. QED
    BY <2>4, <2>5
<1> HIDE DEF new
<1>23. ASSUME NEW c \in left, NEW u \in Tos(g.blocks[c])
       PROVE  IsSequence(u) /\ PredsOf(g, c) \subseteq ToSet(u)
  <2>1. PICK l \in Tos(f.blocks[c]) :
          /\ DOMAIN u = DOMAIN l /\ IsSequence(u)
          /\ \A k \in DOMAIN l : l[k] \in PredsOf(f, c) => u[k] = new(l[k])
    BY <1>22
  <2>2. PredsOf(f, c) \subseteq ToSet(l)
    BY <1>18 DEF Covered
  <2>3. ASSUME NEW x \in PredsOf(g, c) PROVE x \in ToSet(u)
    <3>1. PICK y \in PredsOf(f, c) : x = new(y)
      BY <1>20
    <3>2. PICK k \in DOMAIN l : l[k] = y
      BY <2>2 DEF ToSet
    <3>3. u[k] = x /\ k \in DOMAIN u
      BY <2>1, <3>1, <3>2
    <3>4. QED
      BY <3>3 DEF ToSet
  <2>4. QED
    BY <2>1, <2>3
<1>24. ASSUME Tidy(f), Tight(f), NEW c \in left, NEW u \in Tos(g.blocks[c])
       PROVE  /\ \A i, j \in DOMAIN u : u[i] = u[j] => i = j
              /\ ToSet(u) \subseteq PredsOf(g, c)
  <2>1. PICK l \in Tos(f.blocks[c]) :
          /\ DOMAIN u = DOMAIN l /\ IsSequence(u)
          /\ \A k \in DOMAIN l : l[k] \in PredsOf(f, c) => u[k] = new(l[k])
    BY <1>22
  <2>2. \A i, j \in DOMAIN l : l[i] = l[j] => i = j
    BY <1>18, <1>24 DEF Tidy
  <2>3. \A k \in DOMAIN l : l[k] \in PredsOf(f, c)
    BY <1>18, <1>24 DEF Tight, ToSet
  <2>4. \A k \in DOMAIN u : u[k] = new(l[k]) /\ u[k] \in PredsOf(g, c)
    BY <1>20, <2>1, <2>3
  <2>5. ASSUME NEW i \in DOMAIN u, NEW j \in DOMAIN u, u[i] = u[j] PROVE i = j
    <3>1. new(l[i]) = new(l[j]) /\ l[i] # a /\ l[j] # a
      BY <1>20, <2>1, <2>3, <2>4, <2>5
    <3>2. l[i] = l[j]
      BY <3>1 DEF new
    <3>3. QED
      BY <2>1, <2>2, <3>2
  <2>6. QED
    BY <2>4, <2>5 DEF ToSet
<1>25. Covered(g)
  BY <1>15, <1>23 DEF Covered
<1>26. Tidy(f) /\ Tight(f) => Tidy(g) /\ Tight(g)
  <2>1. ASSUME NEW c \in left PROVE PredsOf(g, c) \subseteq Blocks(g)
    BY DEF PredsOf
  <2>2. QED
    BY <1>15, <1>24, <2>1 DEF Tidy, Tight
<1>27. QED
  BY <1>14, <1>21, <1>25, <1>26 DEF Keeps, FitsExactly, Anew, g

-----------------------------------------------------------------------------
(* eliminate_tail_recursion *)

\* A list of phis for the same edges.
PhiList(s, n, l) ==
  /\ s = [i \in 1 .. n |-> s[i]]
  /\ \A i \in 1 .. n : s[i] = Inst(s[i].op, s[i].res, s[i].args, s[i].to)
                        /\ s[i].op = "phi" /\ s[i].to = l /\ s[i].res \in ValueNames

LEMMA PhiListOk ==
  ASSUME NEW names, NEW n \in Nat, NEW l, NEW s, PhiList(s, n, l)
  PROVE  /\ BlockOk(s, names) /\ Straightforward(s) /\ Tos(s) \subseteq {l}
         /\ \A i \in DOMAIN s : s[i].op = "phi"
<1>1. IsSequence(s) /\ Len(s) = n /\ DOMAIN s = 1 .. n
  BY ListIs DEF PhiList
<1>2. \A i \in DOMAIN s : InstOk(s[i], names) /\ s[i].op = "phi" /\ s[i].op \notin Terminators
  BY <1>1, NamedIs DEF InstOk, Terminators, PhiList
<1>3. BlockOk(s, names)
  <2>1. \A i \in DOMAIN s : \A j \in 1 .. i : j \in DOMAIN s
    BY <1>1
  <2>2. QED
    BY <1>1, <1>2, <2>1 DEF BlockOk
<1>4. Tos(s) \subseteq {l}
  BY <1>1 DEF Tos, PhiList
<1>5. QED
  BY <1>2, <1>3, <1>4 DEF Straightforward

\* The parameters become phis of the old entry, with an entry for each tail call.
LEMMA EliminateTailRecursionFits ==
  ASSUME NEW f, NEW names, FunctionOk(f, names), Covered(f), NEW id \in Nat
  PROVE  FitsExactly(EliminateTailRecursion(f, id), f, names)
<1> DEFINE header == EntryOf(f)
           P == {i \in DOMAIN f.order : f.order[i] \in TailBlocks(f)}
           sites == Picked(f.order, P)
           phi(i) == V(id + i)
           reads(v) == IF v[1] = "arg" THEN phi(v[2]) ELSE v
           args(x) == [k \in DOMAIN x.args |-> reads(x.args[k])]
           redirected(inst) == [inst EXCEPT !.args = args(inst)]
           body(b) == [i \in DOMAIN f.blocks[b] |-> redirected(f.blocks[b][i])]
           call(b) == body(b)[Len(body(b)) - 1]
           list == <<f.next>> \o sites
           given(i) == <<Arg(i)>> \o [k \in DOMAIN sites |-> call(sites[k]).args[i]]
           phis == [i \in DOMAIN f.params |-> Inst("phi", phi(i), given(i), list)]
           jumping(b) == IF b \in TailBlocks(f)
                         THEN SubSeq(body(b), 1, Len(body(b)) - 2) \o <<Br(header)>>
                         ELSE body(b)
           all == Blocks(f) \cup {f.next}
           B == [b \in all |->
                   CASE b = f.next -> <<Br(header)>>
                     [] b = header -> Reverse(phis) \o jumping(b)
                     [] OTHER -> jumping(b)]
           o == <<f.next>> \o f.order
           g == EliminateTailRecursion(f, id)
<1>1. g = [f EXCEPT !.order = o, !.next = f.next + 1, !.blocks = B]
  BY DEF EliminateTailRecursion
<1> HIDE DEF args, given
<1>2. /\ header \in Blocks(f) /\ f.next \notin Blocks(f) /\ f.next \in Nat
      /\ Blocks(f) \subseteq 0 .. f.next - 1
  <2>1. f.next \in Nat /\ Blocks(f) \subseteq 0 .. f.next - 1
    BY DEF FunctionOk
  <2>2. header \in Blocks(f)
    BY EntryIs
  <2>3. f.next \notin 0 .. f.next - 1
    BY <2>1
  <2>4. QED
    BY <2>1, <2>2, <2>3
<1> HIDE DEF header
<1>3. ASSUME NEW b \in TailBlocks(f)
      PROVE  /\ b \in Blocks(f) /\ Succs(f, b) = {}
             /\ Len(f.blocks[b]) \in Nat /\ Len(f.blocks[b]) >= 2
  <2> DEFINE s == f.blocks[b]
  <2>1. b \in Blocks(f) /\ Len(s) >= 2 /\ s[Len(s)].op = "ret"
    BY DEF TailBlocks
  <2>2. Len(s) \in Nat
    BY <2>1, Places DEF FunctionOk, BlockOk
  <2>3. Succs(f, b) = {}
    BY <2>1, ControlIs DEF Targets
  <2>4. QED
    BY <2>1, <2>2, <2>3
<1>4. ASSUME NEW b \in Blocks(f)
      PROVE  /\ BlockOk(jumping(b), names) /\ Tos(jumping(b)) \subseteq Tos(f.blocks[b])
             /\ Targets(jumping(b)) = IF b \in TailBlocks(f) THEN {header} ELSE Succs(f, b)
  <2> DEFINE s == f.blocks[b]
             t == body(b)
             n == Len(t)
             u == SubSeq(t, 1, n - 2)
  <2>1. BlockOk(s, names)
    BY DEF FunctionOk
  <2>2. ASSUME NEW i \in DOMAIN s PROVE Like(t[i], s[i], names)
    <3>1. InstOk(s[i], names)
      BY <2>1 DEF BlockOk
    <3>2. Like([s[i] EXCEPT !.args = args(s[i])], s[i], names)
      BY <3>1, ArgsOnly
    <3>3. QED
      BY <3>2
  <2>3. t = [i \in DOMAIN s |-> t[i]]
    OBVIOUS
  <2>4. jumping(b) = IF b \in TailBlocks(f) THEN u \o <<Br(header)>> ELSE t
    OBVIOUS
  <2> HIDE DEF t, u, body, jumping
  <2>5. Alike(t, s, names) /\ Len(t) = Len(s)
    BY <2>1, <2>2, <2>3, LikeAlike
  <2>6. BlockOk(t, names) /\ Tos(t) \subseteq Tos(s) /\ Targets(t) = Succs(f, b)
    BY <2>5, ControlIs DEF Alike
  <2>7. CASE b \in TailBlocks(f)
    <3>1. n \in Nat /\ n >= 2
      BY <1>3, <2>5, <2>7
    <3>2. n - 2 \in 0 .. n /\ 1 \in 1 .. n + 1 /\ 1 <= (n - 2) + 1 /\ n - 2 # n
      BY <3>1
    <3>3. BlockOk(u, names) /\ Tos(u) \subseteq Tos(t) /\ Straightforward(u)
      BY <2>6, <3>2, StretchOk DEF u
    <3>4. /\ BlockOk(<<Br(header)>>, names) /\ PhiFree(<<Br(header)>>) /\ Tos(<<Br(header)>>) = {}
          /\ Targets(<<Br(header)>>) = {header}
      BY BrIs
    <3>5. /\ BlockOk(u \o <<Br(header)>>, names)
          /\ Targets(u \o <<Br(header)>>) = {header}
          /\ Tos(u \o <<Br(header)>>) = Tos(u) \cup {}
      BY <3>3, <3>4, JoinOk
    <3>6. QED
      BY <2>4, <2>6, <2>7, <3>3, <3>5
  <2>8. CASE b \notin TailBlocks(f)
    BY <2>4, <2>6, <2>8
  <2>9. QED
    BY <2>7, <2>8
<1>5. /\ BlockOk(Reverse(phis), names) /\ Straightforward(Reverse(phis))
      /\ Tos(Reverse(phis)) \subseteq {list}
      /\ \A i \in DOMAIN Reverse(phis) : Reverse(phis)[i].op = "phi"
  <2> DEFINE n == Len(f.params)
             r == Reverse(phis)
  <2>1. n \in Nat /\ DOMAIN f.params = 1 .. n /\ \A i \in 1 .. n : phi(i) \in ValueNames
    <3>1. n \in Nat /\ DOMAIN f.params = 1 .. n
      BY Places DEF FunctionOk
    <3>2. \A i \in 1 .. n : id + i \in Nat
      BY <3>1
    <3>3. QED
      BY <3>1, <3>2, NamedIs
  <2> HIDE DEF list, phi
  <2>2. phis = [i \in 1 .. n |-> phis[i]]
    BY <2>1
  <2>3. ASSUME NEW i \in 1 .. n
        PROVE  /\ phis[i] = Inst(phis[i].op, phis[i].res, phis[i].args, phis[i].to)
               /\ phis[i].op = "phi" /\ phis[i].to = list /\ phis[i].res \in ValueNames
    BY <2>1 DEF Inst
  <2> HIDE DEF phis, n
  <2>4. Len(phis) = n
    BY <2>1, <2>2, ListIs
  <2>5. r = [i \in 1 .. n |-> phis[(n - i) + 1]]
    BY <2>4 DEF Reverse
  <2> HIDE DEF r
  <2>6. r = [i \in 1 .. n |-> r[i]] /\ \A i \in 1 .. n : r[i] = phis[(n - i) + 1]
    BY <2>5
  <2>7. \A i \in 1 .. n : (n - i) + 1 \in 1 .. n
    BY <2>1
  <2>8. \A i \in 1 .. n : r[i] = Inst(r[i].op, r[i].res, r[i].args, r[i].to)
                          /\ r[i].op = "phi" /\ r[i].to = list /\ r[i].res \in ValueNames
    BY <2>3, <2>6, <2>7
  <2>9. /\ BlockOk(r, names) /\ Straightforward(r) /\ Tos(r) \subseteq {list}
        /\ \A i \in DOMAIN r : r[i].op = "phi"
    <3>1. PhiList(r, n, list)
      BY <2>6, <2>8 DEF PhiList
    <3>2. QED
      BY <2>1, <3>1, PhiListOk
  <2>10. QED
    BY <2>9 DEF r
<1>6. /\ IsSequence(sites) /\ ToSet(sites) = TailBlocks(f)
      /\ \A i, j \in DOMAIN sites : sites[i] = sites[j] => i = j
  <2>1. /\ IsSequence(f.order) /\ ToSet(f.order) = Blocks(f)
        /\ \A i, j \in DOMAIN f.order : f.order[i] = f.order[j] => i = j
    BY EntryIs DEF FunctionOk
  <2>2. P \in SUBSET DOMAIN f.order
    OBVIOUS
  <2>3. {f.order[i] : i \in P} = TailBlocks(f)
    BY <1>3, <2>1 DEF ToSet
  <2> HIDE DEF P
  <2>4. /\ IsSequence(Picked(f.order, P)) /\ ToSet(Picked(f.order, P)) = {f.order[i] : i \in P}
        /\ (\A i, j \in DOMAIN f.order : f.order[i] = f.order[j] => i = j)
             => \A i, j \in DOMAIN Picked(f.order, P) :
                  Picked(f.order, P)[i] = Picked(f.order, P)[j] => i = j
    BY <2>1, <2>2, PickedFew
  <2>5. QED
    BY <2>1, <2>3, <2>4
<1> HIDE DEF P, sites, phis, jumping
<1>7. ASSUME NEW s, NEW S, IsSequence(s), ToSet(s) = S, S \subseteq Blocks(f),
             \A i, j \in DOMAIN s : s[i] = s[j] => i = j
      PROVE  LET t == <<f.next>> \o s
             IN  /\ IsSequence(t) /\ ToSet(t) = S \cup {f.next} /\ t[1] = f.next /\ 1 \in DOMAIN t
                 /\ \A i, j \in DOMAIN t : t[i] = t[j] => i = j
  <2> DEFINE h == <<f.next>>
             t == h \o s
  <2>1. /\ IsSequence(h) /\ ToSet(h) = {f.next} /\ Len(h) = 1 /\ h[1] = f.next
        /\ \A i, j \in DOMAIN h : i = j
    BY SingleIs
  <2> HIDE DEF h
  <2>2. IsSequence(s) /\ Len(s) \in Nat /\ ToSet(h) \cap ToSet(s) = {}
    BY <1>2, <1>7, <2>1, Places
  <2>3. /\ IsSequence(t) /\ DOMAIN t = 1 .. Len(h) + Len(s)
        /\ \A i \in 1 .. Len(h) : t[i] = h[i]
    <3>1. IsSequence(h) /\ IsSequence(s)
      BY <2>1, <2>2
    <3>2. QED
      BY <3>1, JoinIs
  <2>4. /\ ToSet(t) = ToSet(h) \cup ToSet(s)
        /\ \A i, j \in DOMAIN t : t[i] = t[j] => i = j
    <3>1. \A i, j \in DOMAIN s : s[i] = s[j] => i = j
      BY <1>7
    <3>2. \A i, j \in DOMAIN h : h[i] = h[j] => i = j
      BY <2>1
    <3>3. IsSequence(h) /\ IsSequence(s) /\ ToSet(h) \cap ToSet(s) = {}
      BY <2>1, <2>2
    <3>4. QED
      BY <3>1, <3>2, <3>3, JoinHas
  <2> HIDE DEF t
  <2>5. 1 \in DOMAIN t /\ t[1] = f.next
    BY <2>1, <2>2, <2>3
  <2>6. QED
    BY <1>7, <2>1, <2>3, <2>4, <2>5 DEF h, t
<1>8. /\ IsSequence(list) /\ ToSet(list) = TailBlocks(f) \cup {f.next}
      /\ \A i, j \in DOMAIN list : list[i] = list[j] => i = j
  <2>1. TailBlocks(f) \subseteq Blocks(f)
    BY <1>3
  <2>2. QED
    BY <1>6, <1>7, <2>1
<1>9. /\ IsSequence(o) /\ ToSet(o) = all /\ o[1] = f.next /\ 1 \in DOMAIN o
      /\ \A i, j \in DOMAIN o : o[i] = o[j] => i = j
  <2>1. /\ IsSequence(f.order) /\ ToSet(f.order) = Blocks(f)
        /\ \A i, j \in DOMAIN f.order : f.order[i] = f.order[j] => i = j
    BY EntryIs DEF FunctionOk
  <2>2. QED
    BY <1>7, <2>1
<1> HIDE DEF list, o
<1>10. Anew(g, f, o, f.next + 1, B)
  <2> HIDE DEF g, B
  <2>1. QED
    BY <1>1, ExtendedAnew
<1>11. /\ Blocks(g) = all /\ g.blocks[f.next] = <<Br(header)>>
       /\ g.blocks[header] = Reverse(phis) \o jumping(header)
       /\ \A b \in Blocks(f) \ {header} : g.blocks[b] = jumping(b)
  <2> HIDE DEF g
  <2>1. Blocks(g) = all /\ g.blocks = B
    BY <1>10 DEF Anew
  <2>2. QED
    BY <1>2, <2>1
<1> HIDE DEF g, B
<1>12. /\ BlockOk(g.blocks[f.next], names) /\ PhiFree(g.blocks[f.next]) /\ Tos(g.blocks[f.next]) = {}
       /\ Succs(g, f.next) = {header}
  <2>1. /\ BlockOk(<<Br(header)>>, names) /\ PhiFree(<<Br(header)>>) /\ Tos(<<Br(header)>>) = {}
        /\ Targets(<<Br(header)>>) = {header}
    BY BrIs
  <2>2. g.blocks[f.next] = <<Br(header)>> /\ Succs(g, f.next) = Targets(g.blocks[f.next])
    BY <1>11, ControlIs
  <2>3. QED
    BY <2>1, <2>2
<1>13. /\ BlockOk(g.blocks[header], names) /\ Tos(g.blocks[header]) \subseteq {list}
       /\ Targets(g.blocks[header]) = Targets(jumping(header))
  <2>1. Tos(f.blocks[header]) = {} /\ PhiFree(f.blocks[header])
    <3>1. BlockOk(f.blocks[header], names) /\ Phis(f, header) = {}
      BY <1>2 DEF FunctionOk, header
    <3>2. QED
      BY <3>1, PhisAre, NoTos
  <2>2. Tos(jumping(header)) = {} /\ BlockOk(jumping(header), names)
    BY <1>2, <1>4, <2>1
  <2>3. QED
    BY <1>5, <1>11, <2>2, JoinOk
<1>14. ASSUME NEW b \in Blocks(f)
       PROVE  /\ BlockOk(g.blocks[b], names)
              /\ Succs(g, b) = IF b \in TailBlocks(f) THEN {header} ELSE Succs(f, b)
              /\ b # header => Tos(g.blocks[b]) \subseteq Tos(f.blocks[b])
  BY <1>4, <1>11, <1>13, ControlIs
<1>15. \A b \in Blocks(f) : Succs(f, b) \subseteq Blocks(f) \ {header}
  BY DEF FunctionOk, header
<1>16. PredsOf(g, header) = TailBlocks(f) \cup {f.next}
  BY <1>2, <1>3, <1>11, <1>12, <1>14, <1>15 DEF PredsOf
<1>17. \A b \in Blocks(f) \ {header} : PredsOf(g, b) = PredsOf(f, b)
  BY <1>2, <1>3, <1>11, <1>12, <1>14, <1>15 DEF PredsOf
<1>18. EntryOf(g) = f.next
  BY <1>9, <1>10 DEF EntryOf, Anew
<1>19. FunctionOk(g, names)
  <2>1. f.next + 1 \in Nat /\ all \subseteq 0 .. (f.next + 1) - 1
    BY <1>2
  <2>2. o \in Seq(all) /\ o # << >>
    <3>1. o \in Seq({o[i] : i \in DOMAIN o}) /\ o # << >>
      BY <1>9, SequenceIs, Places
    <3>2. {o[i] : i \in DOMAIN o} = all
      BY <1>9 DEF ToSet
    <3>3. QED
      BY <3>1, <3>2
  <2>3. Phis(g, EntryOf(g)) = {}
    BY <1>12, <1>18, PhisAre
  <2>4. ASSUME NEW b \in Blocks(g)
        PROVE  BlockOk(g.blocks[b], names) /\ Succs(g, b) \subseteq Blocks(g) \ {EntryOf(g)}
    <3>1. Blocks(f) \subseteq Blocks(g) \ {EntryOf(g)}
      BY <1>2, <1>11, <1>18
    <3>2. CASE b = f.next
      BY <1>2, <1>12, <3>1, <3>2
    <3>3. CASE b # f.next
      <4>1. b \in Blocks(f)
        BY <1>11, <3>3
      <4>2. BlockOk(g.blocks[b], names) /\ Succs(g, b) \subseteq Blocks(f)
        BY <1>2, <1>14, <1>15, <4>1
      <4>3. QED
        BY <3>1, <4>2
    <3>4. QED
      BY <3>2, <3>3
  <2>5. QED
    BY <1>9, <1>10, <1>11, <2>1, <2>2, <2>3, <2>4 DEF FunctionOk, Anew
<1>20. ASSUME NEW b \in all, NEW l \in Tos(g.blocks[b])
       PROVE  \/ b = header /\ l = list
              \/ b \in Blocks(f) \ {header} /\ l \in Tos(f.blocks[b])
  BY <1>12, <1>13, <1>14
<1>21. Covered(g)
  BY <1>8, <1>11, <1>16, <1>17, <1>20 DEF Covered
<1>22. ASSUME Tidy(f), Tight(f) PROVE Tidy(g) /\ Tight(g)
  <2>1. TailBlocks(f) \cup {f.next} \subseteq all
    BY <1>3
  <2>2. Tidy(g)
    BY <1>8, <1>11, <1>20, <1>22, <2>1 DEF Tidy
  <2>3. Tight(g)
    BY <1>8, <1>11, <1>16, <1>17, <1>20, <1>22 DEF Tight
  <2>4. QED
    BY <2>2, <2>3
<1>23. QED
  BY <1>10, <1>19, <1>21, <1>22 DEF Keeps, FitsExactly, Anew, g

-----------------------------------------------------------------------------
(* mem2reg *)

\* Only blocks that something jumps to get phis.
LEMMA JoinsAre ==
  ASSUME NEW f, NEW avoidable, NEW stores, IsSequence(f.order)
  PROVE  \A c \in JoinsOf(f, avoidable, stores) : PredsOf(f, c) # {}
<1> DEFINE joined == {c \in Blocks(f) : PredsOf(f, c) # {}}
           grow(X) == {c \in Blocks(f) : \E b \in stores \cup X : InFrontier(f, avoidable, b, c)}
           step == [X \in SUBSET joined |-> grow(X)]
           Body(g) == [n \in Nat |-> IF n = 0 THEN {} ELSE grow(g[n - 1])]
           w == CHOOSE g : g = Body(g)
<1>1. ASSUME NEW X PROVE grow(X) \in SUBSET joined
  BY DEF InFrontier
<1>2. JoinsOf(f, avoidable, stores) = w[Len(f.order)]
  BY DEF JoinsOf
<1> HIDE DEF grow
<1>3. step \in [SUBSET joined -> SUBSET joined] /\ {} \in SUBSET joined
  BY <1>1
<1> HIDE DEF joined
<1>4. ASSUME NEW g, Sequel(g, SUBSET joined, {}, step) PROVE g = Body(g)
  <2>1. ASSUME NEW n \in Nat PROVE g[n] = Body(g)[n]
    BY <1>4, SequelUnfolds
  <2>2. g \in [Nat -> SUBSET joined]
    BY <1>4 DEF Sequel
  <2>3. Body(g) = [n \in Nat |-> Body(g)[n]]
    OBVIOUS
  <2> HIDE DEF Body
  <2>4. QED
    BY <2>1, <2>2, <2>3
<1>5. w = Body(w)
  <2> HIDE DEF Body, step
  <2>1. \E g : Sequel(g, SUBSET joined, {}, step)
    BY <1>3, SequelExists
  <2>2. QED
    BY <1>4, <2>1
<1> HIDE DEF w
<1>6. \A n \in Nat : w[n] \in SUBSET joined
  BY <1>1, <1>5
<1>7. Len(f.order) \in Nat
  BY Places
<1>8. QED
  BY <1>2, <1>6, <1>7 DEF joined

\* The local variables of a function.
LEMMA SlotsAre ==
  ASSUME NEW f, NEW names, FunctionOk(f, names)
  PROVE  /\ IsSequence(Slots(f))
         /\ \A k \in DOMAIN Slots(f) :
              /\ InstOk(Slots(f)[k], names) /\ Slots(f)[k].op = "alloca"
              /\ Slots(f)[k].res \in ValueNames
<1> DEFINE entry == f.blocks[EntryOf(f)]
           P == {i \in DOMAIN entry : entry[i].op = "alloca"}
<1>1. EntryOf(f) \in Blocks(f)
  BY EntryIs
<1>2. BlockOk(entry, names)
  BY <1>1 DEF FunctionOk
<1>3. IsSequence(entry)
  BY <1>2 DEF BlockOk
<1>4. P \in SUBSET DOMAIN entry /\ Slots(f) = Picked(entry, P)
  BY DEF Slots
<1>5. \A i \in P : InstOk(entry[i], names) /\ entry[i].op = "alloca"
  BY <1>2 DEF BlockOk
<1> HIDE DEF P, entry
<1>6. IsSequence(Slots(f)) /\ ToSet(Slots(f)) = {entry[i] : i \in P}
  BY <1>3, <1>4, PickedFew
<1>7. \A k \in DOMAIN Slots(f) : \E i \in P : Slots(f)[k] = entry[i]
  BY <1>6 DEF ToSet
<1>8. \A k \in DOMAIN Slots(f) : InstOk(Slots(f)[k], names) /\ Slots(f)[k].op = "alloca"
  BY <1>5, <1>7
<1>9. ASSUME NEW k \in DOMAIN Slots(f) PROVE Slots(f)[k].res \in ValueNames
  BY <1>8 DEF InstOk, Named, Essential
<1>10. QED
  BY <1>6, <1>8, <1>9

\* Blocks may get phis with an entry for each edge, except the entry.
LEMMA MorePhisFit ==
  ASSUME NEW f, NEW names, FunctionOk(f, names), Covered(f), NEW B, DOMAIN B = Blocks(f),
         \A b \in Blocks(f) : BlockOk(B[b], names) /\ Targets(B[b]) = Targets(f.blocks[b]),
         \A b \in Blocks(f) : \A l \in Tos(B[b]) :
            \/ l \in Tos(f.blocks[b])
            \/ /\ PredsOf(f, b) # {} /\ IsSequence(l) /\ ToSet(l) = PredsOf(f, b)
               /\ \A i, j \in DOMAIN l : l[i] = l[j] => i = j
  PROVE  FitsExactly([f EXCEPT !.blocks = B], f, names)
<1> DEFINE g == [f EXCEPT !.blocks = B]
<1>1. /\ g = [name |-> g.name, params |-> g.params, blocks |-> g.blocks, order |-> g.order,
              next |-> g.next, void |-> g.void]
      /\ g.name = f.name /\ g.params = f.params /\ g.blocks = B /\ g.order = f.order
      /\ g.next = f.next /\ g.void = f.void /\ Blocks(g) = Blocks(f)
  BY FieldsAre
<1> HIDE DEF g
<1>2. EntryOf(g) = EntryOf(f) /\ EntryOf(f) \in Blocks(f)
  BY <1>1, EntryIs DEF EntryOf
<1>3. \A b \in Blocks(f) : BlockOk(g.blocks[b], names) /\ Succs(g, b) = Succs(f, b)
  BY <1>1, ControlIs
<1>4. \A b \in Blocks(f) : PredsOf(g, b) = PredsOf(f, b)
  BY <1>1, <1>3 DEF PredsOf
<1>5. Phis(g, EntryOf(g)) = {}
  <2> DEFINE e == EntryOf(f)
  <2>1. BlockOk(f.blocks[e], names) /\ Phis(f, e) = {} /\ PredsOf(f, e) = {}
    BY <1>2 DEF FunctionOk, PredsOf
  <2>2. Tos(f.blocks[e]) = {}
    BY <2>1, PhisAre, NoTos
  <2>3. Tos(g.blocks[e]) = {}
    BY <1>1, <1>2, <2>1, <2>2
  <2>4. PhiFree(g.blocks[e])
    BY <2>3, NoTos
  <2>5. QED
    BY <1>2, <1>3, <2>4, PhisAre
<1>6. FunctionOk(g, names)
  BY <1>1, <1>2, <1>3, <1>5 DEF FunctionOk
<1>7. Covered(g)
  BY <1>1, <1>4 DEF Covered
<1>8. ASSUME Tidy(f), Tight(f) PROVE Tidy(g) /\ Tight(g)
  <2>1. \A b \in Blocks(f) : PredsOf(f, b) \subseteq Blocks(f)
    BY DEF PredsOf
  <2>2. Tidy(g)
    BY <1>1, <1>8, <2>1 DEF Tidy
  <2>3. Tight(g)
    BY <1>1, <1>4, <1>8 DEF Tight
  <2>4. QED
    BY <2>2, <2>3
<1>9. QED
  BY <1>1, <1>6, <1>7, <1>8 DEF Keeps, FitsExactly, g

\* Where the plan has phis there are edges, and they have names.
PlanOk(f, plan) ==
  \A k \in DOMAIN Slots(f) :
    /\ \A c \in plan.joins[Slots(f)[k].res] : PredsOf(f, c) # {}
    /\ \A c \in Blocks(f) : plan.phi[<<Slots(f)[k].res, c>>] \in ValueNames

LEMMA PromotedFits ==
  ASSUME NEW f, NEW names, FunctionOk(f, names), Covered(f), NEW plan,
         PlanOk(f, plan)
  PROVE  FitsExactly(Promoted(f, plan), f, names)
<1> DEFINE local(inst) == \/ inst.op = "alloca"
                          \/ inst.op \in {"load", "store"} /\ inst.args[1] \in plan.slots
           held == HeldBefore(f, plan)
           slots == Reverse(Slots(f))
           C(b) == {i \in DOMAIN slots : b \in plan.joins[slots[i].res]}
           chosen(b) == Picked(slots, C(b))
           Q(b) == {i \in DOMAIN f.order : f.order[i] \in PredsOf(f, b)}
           preds(b) == Picked(f.order, Q(b))
           args(k, b) == [j \in DOMAIN preds(b) |->
                            held[<<chosen(b)[k].res, preds(b)[j], Len(f.blocks[preds(b)[j]]) + 1>>]]
           phis(b) == [k \in DOMAIN chosen(b) |->
                         Inst("phi", plan.phi[<<chosen(b)[k].res, b>>], args(k, b), preds(b))]
           R(b) == {i \in DOMAIN f.blocks[b] : ~local(f.blocks[b][i])}
           rest(b) == Picked(f.blocks[b], R(b))
           meant(x) == [k \in DOMAIN x.args |-> Meant(f, plan, held, x.args[k])]
           kept(b) == [i \in DOMAIN rest(b) |-> [rest(b)[i] EXCEPT !.args = meant(rest(b)[i])]]
           B == [b \in Blocks(f) |-> phis(b) \o kept(b)]
<1>1. Promoted(f, plan) = [f EXCEPT !.blocks = B]
  BY DEF Promoted
<1> HIDE DEF held, meant, args
<1>2. ASSUME NEW b \in Blocks(f) PROVE Alike(kept(b), f.blocks[b], names)
  <2> DEFINE s == f.blocks[b]
             t == rest(b)
             u == kept(b)
  <2>1. BlockOk(s, names)
    BY DEF FunctionOk
  <2>2. R(b) \in SUBSET DOMAIN s /\ \A i \in DOMAIN s : s[i].op \in Terminators => i \in R(b)
    BY DEF Terminators
  <2> HIDE DEF R, s
  <2>3. Alike(t, s, names)
    BY <2>1, <2>2, PickedAlike DEF s
  <2>4. u = [i \in DOMAIN t |-> u[i]] /\ \A i \in DOMAIN t : u[i] = [t[i] EXCEPT !.args = meant(t[i])]
    OBVIOUS
  <2> HIDE DEF t, u, rest, kept
  <2>5. BlockOk(t, names)
    BY <2>3 DEF Alike
  <2>6. \A i \in DOMAIN t : Like(u[i], t[i], names)
    <3> SUFFICES ASSUME NEW i \in DOMAIN t PROVE Like(u[i], t[i], names)
      OBVIOUS
    <3>1. InstOk(t[i], names)
      BY <2>5 DEF BlockOk
    <3>2. Like([t[i] EXCEPT !.args = meant(t[i])], t[i], names)
      BY <3>1, ArgsOnly
    <3>3. QED
      BY <2>4, <3>2
  <2>7. Alike(u, t, names)
    BY <2>4, <2>5, <2>6, LikeAlike
  <2>8. Alike(u, s, names)
    BY <2>3, <2>7 DEF Alike
  <2>9. QED
    BY <2>8 DEF u, s
<1>3. ASSUME NEW b \in Blocks(f)
      PROVE  /\ IsSequence(preds(b)) /\ ToSet(preds(b)) = PredsOf(f, b)
             /\ \A i, j \in DOMAIN preds(b) : preds(b)[i] = preds(b)[j] => i = j
  <2>1. /\ IsSequence(f.order) /\ ToSet(f.order) = Blocks(f)
        /\ \A i, j \in DOMAIN f.order : f.order[i] = f.order[j] => i = j
    BY EntryIs DEF FunctionOk
  <2>2. Q(b) \in SUBSET DOMAIN f.order
    OBVIOUS
  <2>3. {f.order[i] : i \in Q(b)} = PredsOf(f, b)
    BY <2>1 DEF ToSet, PredsOf
  <2> HIDE DEF Q
  <2>4. /\ IsSequence(Picked(f.order, Q(b))) /\ ToSet(Picked(f.order, Q(b))) = {f.order[i] : i \in Q(b)}
        /\ (\A i, j \in DOMAIN f.order : f.order[i] = f.order[j] => i = j)
             => \A i, j \in DOMAIN Picked(f.order, Q(b)) :
                  Picked(f.order, Q(b))[i] = Picked(f.order, Q(b))[j] => i = j
    BY <2>1, <2>2, PickedFew
  <2>5. QED
    BY <2>1, <2>3, <2>4
<1> HIDE DEF Q, preds
<1>4. /\ IsSequence(slots)
      /\ \A i \in DOMAIN slots : \A c \in plan.joins[slots[i].res] : PredsOf(f, c) # {}
      /\ \A i \in DOMAIN slots : \A c \in Blocks(f) : plan.phi[<<slots[i].res, c>>] \in ValueNames
  <2> DEFINE l == Slots(f)
             n == Len(l)
  <2>1. IsSequence(l)
    BY SlotsAre
  <2> HIDE DEF l
  <2>4. n \in Nat /\ DOMAIN l = 1 .. n
    BY <2>1, Places
  <2>5. slots = [i \in 1 .. n |-> l[(n - i) + 1]]
    BY DEF Reverse, l
  <2> HIDE DEF slots, n
  <2>6. slots = [i \in 1 .. n |-> slots[i]] /\ \A i \in 1 .. n : slots[i] = l[(n - i) + 1]
    BY <2>5
  <2>7. IsSequence(slots) /\ DOMAIN slots = 1 .. n
    BY <2>4, <2>6, ListIs
  <2>8. \A i \in 1 .. n : (n - i) + 1 \in 1 .. n
    BY <2>4
  <2>9. /\ \A k \in DOMAIN l : \A c \in plan.joins[l[k].res] : PredsOf(f, c) # {}
        /\ \A k \in DOMAIN l : \A c \in Blocks(f) : plan.phi[<<l[k].res, c>>] \in ValueNames
    BY DEF l, PlanOk
  <2>10. ASSUME NEW i \in DOMAIN slots
         PROVE  /\ \A c \in plan.joins[slots[i].res] : PredsOf(f, c) # {}
                /\ \A c \in Blocks(f) : plan.phi[<<slots[i].res, c>>] \in ValueNames
    <3>1. (n - i) + 1 \in DOMAIN l /\ slots[i] = l[(n - i) + 1]
      BY <2>4, <2>6, <2>7, <2>8
    <3>2. QED
      BY <2>9, <3>1
  <2>11. QED
    BY <2>7, <2>10
<1> HIDE DEF slots
<1>5. ASSUME NEW b \in Blocks(f)
      PROVE  /\ BlockOk(phis(b), names) /\ Straightforward(phis(b))
             /\ \A i \in DOMAIN phis(b) : phis(b)[i].op = "phi"
             /\ \A l \in Tos(phis(b)) : l = preds(b) /\ PredsOf(f, b) # {}
  <2> DEFINE t == chosen(b)
             n == Len(t)
             r == phis(b)
  <2>1. C(b) \in SUBSET DOMAIN slots
    OBVIOUS
  <2>2. /\ C(b) # {} => PredsOf(f, b) # {}
        /\ \A i \in C(b) : plan.phi[<<slots[i].res, b>>] \in ValueNames
    BY <1>4
  <2> HIDE DEF C
  <2>3. IsSequence(t) /\ ToSet(t) = {slots[i] : i \in C(b)}
    BY <1>4, <2>1, PickedFew
  <2>4. r = [k \in DOMAIN t |-> Inst("phi", plan.phi[<<t[k].res, b>>], args(k, b), preds(b))]
    OBVIOUS
  <2> HIDE DEF t, r, chosen, phis
  <2>5. n \in Nat /\ DOMAIN t = 1 .. n
    BY <2>3, Places
  <2>6. DOMAIN t # {} => PredsOf(f, b) # {}
    BY <2>2, <2>3 DEF ToSet
  <2> HIDE DEF n
  <2>7. r = [k \in 1 .. n |-> r[k]]
    BY <2>4, <2>5
  <2>8. \A k \in 1 .. n : /\ r[k] = Inst(r[k].op, r[k].res, r[k].args, r[k].to)
                          /\ r[k].op = "phi" /\ r[k].to = preds(b)
                          /\ r[k].res \in ValueNames
    <3>1. \A k \in DOMAIN t : \E i \in C(b) : t[k] = slots[i]
      BY <2>3 DEF ToSet
    <3>2. \A k \in DOMAIN t : plan.phi[<<t[k].res, b>>] \in ValueNames
      BY <2>2, <3>1
    <3>3. SUFFICES ASSUME NEW k \in 1 .. n
                   PROVE  /\ r[k] = Inst(r[k].op, r[k].res, r[k].args, r[k].to)
                          /\ r[k].op = "phi" /\ r[k].to = preds(b)
                          /\ r[k].res \in ValueNames
      OBVIOUS
    <3>4. k \in DOMAIN t /\ r[k] = Inst("phi", plan.phi[<<t[k].res, b>>], args(k, b), preds(b))
      BY <2>4, <2>5
    <3>5. r[k].res = plan.phi[<<t[k].res, b>>]
      BY <3>4 DEF Inst
    <3>6. QED
      BY <3>2, <3>4, <3>5 DEF Inst
  <2>9. /\ BlockOk(r, names) /\ Straightforward(r) /\ Tos(r) \subseteq {preds(b)}
        /\ \A i \in DOMAIN r : r[i].op = "phi"
    <3>1. n \in Nat /\ PhiList(r, n, preds(b))
      BY <2>5, <2>7, <2>8 DEF PhiList
    <3>2. BlockOk(r, names) /\ Straightforward(r) /\ Tos(r) \subseteq {preds(b)}
      BY <3>1, PhiListOk
    <3>3. \A i \in DOMAIN r : r[i].op = "phi"
      BY <3>1, PhiListOk
    <3>4. QED
      BY <3>2, <3>3
  <2>10. Tos(r) # {} => PredsOf(f, b) # {}
    <3>1. Tos(r) # {} => DOMAIN r # {}
      BY DEF Tos
    <3>2. QED
      BY <2>5, <2>6, <2>7, <3>1
  <2>11. QED
    BY <2>9, <2>10 DEF r
<1> HIDE DEF phis, kept
<1>6. ASSUME NEW b \in Blocks(f)
      PROVE  /\ BlockOk(B[b], names) /\ Targets(B[b]) = Targets(f.blocks[b])
             /\ \A l \in Tos(B[b]) : l \in Tos(f.blocks[b]) \/ (l = preds(b) /\ PredsOf(f, b) # {})
  <2>1. BlockOk(kept(b), names) /\ Targets(kept(b)) = Targets(f.blocks[b])
        /\ Tos(kept(b)) \subseteq Tos(f.blocks[b])
    BY <1>2 DEF Alike
  <2>2. /\ BlockOk(phis(b) \o kept(b), names)
        /\ Targets(phis(b) \o kept(b)) = Targets(kept(b))
        /\ Tos(phis(b) \o kept(b)) = Tos(phis(b)) \cup Tos(kept(b))
    BY <1>5, <2>1, JoinOk
  <2>3. B[b] = phis(b) \o kept(b)
    OBVIOUS
  <2> HIDE DEF B
  <2>4. QED
    BY <1>5, <2>1, <2>2, <2>3
<1>7. DOMAIN B = Blocks(f)
  OBVIOUS
<1> HIDE DEF B
<1>8. \A b \in Blocks(f) : \A l \in Tos(B[b]) :
        \/ l \in Tos(f.blocks[b])
        \/ /\ PredsOf(f, b) # {} /\ IsSequence(l) /\ ToSet(l) = PredsOf(f, b)
           /\ \A i, j \in DOMAIN l : l[i] = l[j] => i = j
  BY <1>3, <1>6
<1>9. QED
  BY <1>1, <1>6, <1>7, <1>8, MorePhisFit

LEMMA PromoteFits ==
  ASSUME NEW f, NEW names, FunctionOk(f, names), Covered(f), NEW id \in Nat
  PROVE  FitsExactly(Promote(f, id), f, names)
<1> DEFINE plan(a) == PlanOf(f, id, a)
           aPlan == Given(Avoidable(f), LAMBDA avoidable : PlanOf(f, id, avoidable))
<1>1. PICK a : aPlan = plan(a)
  <2> DEFINE a == Avoidable(f)
  <2>1. aPlan = CHOOSE r \in {plan(x) : x \in {a}} : TRUE
    BY DEF Given
  <2> HIDE DEF plan, a, aPlan
  <2>2. plan(a) \in {plan(x) : x \in {a}}
    OBVIOUS
  <2>3. aPlan \in {plan(x) : x \in {a}}
    BY <2>1, <2>2
  <2>4. QED
    BY <2>3
<1>2. Promote(f, id) = Promoted(f, aPlan)
  <2>1. Promote(f, id) = CHOOSE r \in {Promoted(f, x) : x \in {aPlan}} : TRUE
    BY DEF Promote, Given
  <2> HIDE DEF aPlan
  <2>2. Promoted(f, aPlan) \in {Promoted(f, x) : x \in {aPlan}}
    OBVIOUS
  <2>3. Promote(f, id) \in {Promoted(f, x) : x \in {aPlan}}
    BY <2>1, <2>2
  <2>4. QED
    BY <2>3
<1> HIDE DEF aPlan
<1>3. ASSUME NEW k \in DOMAIN Slots(f), NEW c \in plan(a).joins[Slots(f)[k].res]
      PROVE  PredsOf(f, c) # {}
  <2> DEFINE x == Slots(f)[k].res
             all == [j \in DOMAIN Slots(f) |-> Slots(f)[j].res]
             stores == {s[1] : s \in {t \in AccessesOf(f, x) : At(f, t).op = "store"}}
  <2>1. x \in ToSet(all)
    BY DEF ToSet
  <2>2. plan(a).joins[x] = JoinsOf(f, a, stores)
    BY <2>1 DEF PlanOf
  <2>3. IsSequence(f.order)
    BY EntryIs
  <2> HIDE DEF stores, plan
  <2>4. QED
    BY <1>3, <2>2, <2>3, JoinsAre
<1>4. ASSUME NEW k \in DOMAIN Slots(f), NEW c \in Blocks(f)
      PROVE  plan(a).phi[<<Slots(f)[k].res, c>>] \in ValueNames
  <2> DEFINE slots == [j \in DOMAIN Slots(f) |-> Slots(f)[j].res]
             x == slots[k]
             place == CHOOSE j \in DOMAIN slots : slots[j] = x
  <2>1. x \in ToSet(slots) /\ x = Slots(f)[k].res
    BY DEF ToSet
  <2>2. plan(a).phi[<<x, c>>] = V(id + f.next * place + c)
    BY <2>1 DEF PlanOf
  <2>3. IsSequence(Slots(f))
    BY SlotsAre
  <2>4. DOMAIN Slots(f) \subseteq Nat
    BY <2>3, Places
  <2>5. place \in Nat
    <3>1. k \in DOMAIN slots /\ slots[k] = x
      OBVIOUS
    <3>2. place \in DOMAIN Slots(f)
      BY <3>1
    <3>3. QED
      BY <2>4, <3>2
  <2>6. c \in Nat /\ f.next \in Nat
    BY DEF FunctionOk
  <2> HIDE DEF plan, place, x
  <2>7. f.next * place \in Nat
    BY <2>5, <2>6
  <2>8. id + f.next * place + c \in Nat
    BY <2>6, <2>7
  <2>9. V(id + f.next * place + c) \in ValueNames
    BY <2>8, NamedIs
  <2>10. QED
    BY <2>1, <2>2, <2>9
<1> HIDE DEF plan
<1>7. PlanOk(f, plan(a))
  BY <1>3, <1>4 DEF PlanOk
<1>5. FitsExactly(Promoted(f, plan(a)), f, names)
  BY <1>7, PromotedFits
<1>6. QED
  BY <1>1, <1>2, <1>5

-----------------------------------------------------------------------------
(* The inliner on memory form. *)

\* Without phis there is nothing to say of their entries.
LEMMA NoPhisFit ==
  ASSUME NEW f, NEW names, FunctionOk(f, names), WithoutPhis(f)
  PROVE  Covered(f) /\ Tidy(f) /\ Tight(f)
<1>1. ASSUME NEW b \in Blocks(f) PROVE Tos(f.blocks[b]) = {}
  <2>1. BlockOk(f.blocks[b], names) /\ Phis(f, b) = {}
    BY DEF FunctionOk, WithoutPhis
  <2>2. QED
    BY <2>1, PhisAre, NoTos
<1>2. QED
  BY <1>1 DEF Covered, Tidy, Tight

\* A block of two instructions.
LEMMA PairOk ==
  ASSUME NEW names, NEW x, InstOk(x, names), x.op # "phi", x.op \notin Terminators,
         NEW y, InstOk(y, names), y.op # "phi"
  PROVE  /\ BlockOk(<<x, y>>, names) /\ PhiFree(<<x, y>>)
         /\ Targets(<<x, y>>) = IF y.op \in {"br", "condbr"} THEN ToSet(y.to) ELSE {}
<1> DEFINE t == <<x, y>>
<1>1. t = [i \in 1 .. 2 |-> t[i]] /\ t[1] = x /\ t[2] = y
  OBVIOUS
<1> HIDE DEF t
<1>2. IsSequence(t) /\ Len(t) = 2 /\ DOMAIN t = 1 .. 2
  BY <1>1, ListIs
<1>3. t # << >>
  BY <1>2, Places
<1>4. \A i \in DOMAIN t : (i = 1 /\ t[i] = x) \/ (i = 2 /\ t[i] = y)
  BY <1>1, <1>2
<1>5. BlockOk(t, names)
  BY <1>2, <1>4 DEF BlockOk
<1>6. PhiFree(t)
  BY <1>4 DEF PhiFree
<1>7. Targets(t) = IF y.op \in {"br", "condbr"} THEN ToSet(y.to) ELSE {}
  BY <1>1, <1>2, <1>3 DEF Targets
<1>8. QED
  BY <1>5, <1>6, <1>7 DEF t

\* The instructions of a block that are cloned where they are, and a clone.
Cloneable(s) == {i \in DOMAIN s : s[i].op \notin {"alloca", "ret"}}
CloneOf(y, x, blockOf) ==
  /\ y = Inst(y.op, y.res, y.args, y.to)
  /\ y.op = x.op
  /\ x.res = NoValue => y.res = NoValue
  /\ Named(x.op, x.res) => Named(x.op, y.res)
  /\ y.to = IF x.op \in {"br", "condbr"} THEN [k \in DOMAIN x.to |-> blockOf[x.to[k]]] ELSE x.to

\* What is cloned of a block goes to the clones of the blocks it goes to.
LEMMA ClonedOk ==
  ASSUME NEW names, NEW s, BlockOk(s, names), PhiFree(s), NEW blockOf,
         NEW rest, rest = Picked(s, Cloneable(s)),
         NEW copy, copy = [i \in DOMAIN rest |-> copy[i]],
         \A i \in DOMAIN rest : CloneOf(copy[i], rest[i], blockOf)
  PROVE  /\ BlockOk(copy, names) /\ PhiFree(copy)
         /\ Targets(copy) \subseteq {blockOf[b] : b \in Targets(s)}
         /\ s[Len(s)].op = "ret" => Straightforward(copy)
<1> DEFINE P == Cloneable(s)
<1>1. P \in SUBSET DOMAIN s /\ IsSequence(s)
  BY DEF BlockOk, Cloneable
<1>2. \A i \in P : s[i].op # "ret"
  BY DEF Cloneable
<1>3. PICK e : Drawn(rest, s, P, e)
  BY <1>1, PickedAre
<1>4. /\ BlockOk(rest, names) /\ Tos(rest) \subseteq Tos(s)
      /\ Len(rest) \in Nat /\ DOMAIN rest = 1 .. Len(rest) /\ (rest # << >> <=> Len(rest) # 0)
      /\ \A k \in DOMAIN rest : /\ e[k] \in P /\ e[k] \in DOMAIN s /\ rest[k] = s[e[k]]
                                /\ rest[k].op \in Terminators => k = Len(rest)
  BY <1>1, <1>3, PickedOk
<1>5. PhiFree(rest)
  BY <1>4, NoTos
<1>6. ASSUME NEW i \in DOMAIN rest PROVE InstOk(copy[i], names)
  <2> DEFINE x == rest[i]
             y == copy[i]
  <2>1. InstOk(x, names)
    BY <1>4 DEF BlockOk
  <2>2. /\ y = Inst(y.op, y.res, y.args, y.to) /\ y.op = x.op
        /\ x.res = NoValue => y.res = NoValue
        /\ Named(x.op, x.res) => Named(x.op, y.res)
        /\ x.op \in {"br", "condbr"} => DOMAIN y.to = DOMAIN x.to
        /\ x.op \notin {"br", "condbr"} => y.to = x.to
    BY DEF CloneOf
  <2> HIDE DEF x, y
  <2>3. InstOk(y, names)
    BY <2>1, <2>2 DEF InstOk
  <2>4. QED
    BY <2>3 DEF y
<1>7. /\ BlockOk(copy, names) /\ DOMAIN copy = DOMAIN rest /\ Len(copy) = Len(rest)
      /\ (copy # << >> <=> rest # << >>) /\ PhiFree(copy)
      /\ Straightforward(rest) => Straightforward(copy)
  <2>1. \A i \in DOMAIN rest : InstOk(copy[i], names) /\ copy[i].op = rest[i].op
    BY <1>6 DEF CloneOf
  <2>2. QED
    BY <1>4, <1>5, <2>1, SameOpsOk
<1>8. ASSUME NEW k \in DOMAIN rest, rest[k].op \in Terminators PROVE e[k] = Len(s)
  BY <1>4, <1>8 DEF BlockOk
<1>9. ASSUME s[Len(s)].op = "ret" PROVE Straightforward(copy)
  <2>1. \A k \in DOMAIN rest : rest[k].op \notin Terminators
    BY <1>2, <1>4, <1>8, <1>9
  <2>2. QED
    BY <1>7, <2>1 DEF Straightforward
<1>10. Targets(copy) \subseteq {blockOf[b] : b \in Targets(s)}
  <2>1. CASE copy # << >> /\ copy[Len(copy)].op \in {"br", "condbr"}
    <3> DEFINE n == Len(rest)
               x == rest[n]
    <3>1. n \in DOMAIN rest /\ Len(copy) = n
      BY <1>4, <1>7, <2>1
    <3>2. x.op \in {"br", "condbr"} /\ copy[n].to = [k \in DOMAIN x.to |-> blockOf[x.to[k]]]
      BY <2>1, <3>1 DEF CloneOf
    <3>3. e[n] = Len(s) /\ x = s[e[n]] /\ e[n] \in DOMAIN s
      BY <1>4, <1>8, <3>1, <3>2 DEF Terminators
    <3>4. s # << >>
      <4>1. Len(s) \in Nat /\ DOMAIN s = 1 .. Len(s)
        BY <1>1, Places
      <4>2. Len(s) # 0
        BY <3>3, <4>1
      <4>3. QED
        BY <1>1, <4>2, Places
    <3>5. Targets(s) = ToSet(x.to)
      BY <3>2, <3>3, <3>4 DEF Targets
    <3>6. Targets(copy) = ToSet(copy[n].to)
      BY <2>1, <3>1 DEF Targets
    <3> HIDE DEF x, n
    <3>7. ToSet(copy[n].to) \subseteq {blockOf[b] : b \in ToSet(x.to)}
      BY <3>2 DEF ToSet
    <3>8. QED
      BY <3>5, <3>6, <3>7
  <2>2. CASE ~(copy # << >> /\ copy[Len(copy)].op \in {"br", "condbr"})
    BY <2>2 DEF Targets
  <2>3. QED
    BY <2>1, <2>2
<1>11. QED
  BY <1>7, <1>9, <1>10

\* The blocks of the callee follow those of the caller, in their own order.
Following(blockOf, f, callee) ==
  blockOf = [b \in Blocks(callee) |->
               f.next - 1 + (CHOOSE i \in DOMAIN callee.order : callee.order[i] = b)]
Clones(new, blockOf, callee) == new = {blockOf[c] : c \in Blocks(callee)}
Together(all, f, new, cont) == all = Blocks(f) \cup new \cup {cont}
WithClones(o, f, callee, cont) ==
  o = f.order \o [i \in DOMAIN callee.order |-> f.next - 1 + i] \o <<cont>>

\* The new blocks are none of the caller's, and the list has every block once.
Apart(f, cont, new, all, o) ==
  /\ cont \in Nat /\ cont \notin Blocks(f) /\ cont \notin new
  /\ Blocks(f) \cap new = {}
  /\ all \subseteq 0 .. (cont + 1) - 1
  /\ IsSequence(o) /\ ToSet(o) = all
  /\ \A i, j \in DOMAIN o : o[i] = o[j] => i = j
  /\ 1 \in DOMAIN o /\ o[1] = EntryOf(f)

\* Where the clones of the blocks of the callee stand.
LEMMA ClonesAre ==
  ASSUME NEW f, NEW callee, NEW names, FunctionOk(f, names), FunctionOk(callee, names),
         NEW blockOf, Following(blockOf, f, callee),
         NEW cont, cont = f.next + Len(callee.order),
         NEW o, WithClones(o, f, callee, cont), NEW new, Clones(new, blockOf, callee),
         NEW all, Together(all, f, new, cont)
  PROVE  Apart(f, cont, new, all, o)
<1> DEFINE position(b) == CHOOSE i \in DOMAIN callee.order : callee.order[i] = b
           N == Len(callee.order)
           u == [i \in DOMAIN callee.order |-> f.next - 1 + i]
<1>1. /\ IsSequence(callee.order) /\ N \in Nat /\ DOMAIN callee.order = 1 .. N
      /\ \A b \in Blocks(callee) : \E i \in DOMAIN callee.order : callee.order[i] = b
      /\ \A i \in DOMAIN callee.order : callee.order[i] \in Blocks(callee)
      /\ \A i, j \in DOMAIN callee.order : callee.order[i] = callee.order[j] => i = j
  BY EntryIs DEF FunctionOk
<1>2. f.next \in Nat /\ Blocks(f) \subseteq 0 .. f.next - 1
  BY DEF FunctionOk
<1>3. \A b \in Blocks(callee) : position(b) \in 1 .. N /\ blockOf[b] = f.next - 1 + position(b)
  <2> SUFFICES ASSUME NEW b \in Blocks(callee)
               PROVE  position(b) \in 1 .. N /\ blockOf[b] = f.next - 1 + position(b)
    OBVIOUS
  <2>1. \E i \in DOMAIN callee.order : callee.order[i] = b
    BY <1>1
  <2>2. position(b) \in DOMAIN callee.order
    BY <2>1
  <2>3. blockOf[b] = f.next - 1 + position(b)
    BY DEF Following
  <2> HIDE DEF position
  <2>4. QED
    BY <1>1, <2>2, <2>3
<1>4. \A i \in 1 .. N : callee.order[i] \in Blocks(callee) /\ position(callee.order[i]) = i
  BY <1>1
<1> HIDE DEF position
<1>5. u = [i \in 1 .. N |-> u[i]] /\ \A i \in 1 .. N : u[i] = f.next - 1 + i
  BY <1>1
<1> HIDE DEF u
<1>6. IsSequence(u) /\ Len(u) = N /\ DOMAIN u = 1 .. N
  BY <1>1, <1>5, ListIs
<1> HIDE DEF N
<1>7. ToSet(u) = new
  <2>1. ASSUME NEW i \in 1 .. N PROVE u[i] \in new
    <3>1. callee.order[i] \in Blocks(callee) /\ position(callee.order[i]) = i
      BY <1>4
    <3>2. blockOf[callee.order[i]] = u[i]
      BY <1>3, <1>5, <3>1
    <3>3. blockOf[callee.order[i]] \in new
      BY <3>1 DEF Clones
    <3>4. QED
      BY <3>2, <3>3
  <2>2. ASSUME NEW b \in Blocks(callee) PROVE blockOf[b] \in ToSet(u)
    <3>1. position(b) \in DOMAIN u /\ u[position(b)] = blockOf[b]
      BY <1>3, <1>5, <1>6
    <3>2. QED
      BY <3>1 DEF ToSet
  <2>3. new \subseteq ToSet(u)
    BY <2>2 DEF Clones
  <2>4. ToSet(u) \subseteq new
    BY <1>6, <2>1 DEF ToSet
  <2>5. QED
    BY <2>3, <2>4
<1>8. \A i, j \in DOMAIN u : u[i] = u[j] => i = j
  BY <1>1, <1>2, <1>5, <1>6
<1>9. cont = f.next + N
  BY DEF N
<1>10. \A x \in new : x \in f.next .. cont - 1
  <2>1. \A i \in 1 .. N : u[i] \in f.next .. cont - 1
    BY <1>1, <1>2, <1>5, <1>9
  <2>2. QED
    BY <1>6, <1>7, <2>1 DEF ToSet
<1>11. cont \in Nat /\ cont \notin Blocks(f) /\ cont \notin new
  BY <1>1, <1>2, <1>9, <1>10
<1>12. Blocks(f) \cap new = {}
  BY <1>2, <1>10
<1>13. all \subseteq 0 .. (cont + 1) - 1
  <2>1. Blocks(f) \subseteq 0 .. cont
    BY <1>1, <1>2, <1>9
  <2>2. new \subseteq 0 .. cont
    BY <1>2, <1>10, <1>11
  <2>3. cont \in 0 .. cont /\ (cont + 1) - 1 = cont
    BY <1>11
  <2>4. QED
    BY <2>1, <2>2, <2>3 DEF Together
<1>14. /\ IsSequence(f.order) /\ ToSet(f.order) = Blocks(f)
       /\ \A i, j \in DOMAIN f.order : f.order[i] = f.order[j] => i = j
       /\ 1 \in DOMAIN f.order /\ f.order[1] = EntryOf(f)
       /\ Len(f.order) \in Nat /\ DOMAIN f.order = 1 .. Len(f.order)
  BY EntryIs DEF FunctionOk, EntryOf
<1> DEFINE v == f.order \o u
           h == <<cont>>
<1>15. /\ IsSequence(v) /\ ToSet(v) = Blocks(f) \cup new
       /\ \A i, j \in DOMAIN v : v[i] = v[j] => i = j
       /\ DOMAIN v = 1 .. Len(f.order) + N /\ \A i \in 1 .. Len(f.order) : v[i] = f.order[i]
       /\ Len(v) \in Nat /\ DOMAIN v = 1 .. Len(v)
  <2>1. IsSequence(f.order) /\ IsSequence(u)
    BY <1>6, <1>14
  <2>2. /\ IsSequence(v) /\ DOMAIN v = 1 .. Len(f.order) + Len(u)
        /\ \A i \in 1 .. Len(f.order) : v[i] = f.order[i]
    BY <2>1, JoinIs
  <2>3. /\ ToSet(v) = ToSet(f.order) \cup ToSet(u)
        /\ \A i, j \in DOMAIN v : v[i] = v[j] => i = j
    BY <1>7, <1>8, <1>12, <1>14, <2>1, JoinHas
  <2> HIDE DEF v
  <2>4. Len(v) \in Nat /\ DOMAIN v = 1 .. Len(v)
    BY <2>2, Places
  <2>5. QED
    BY <1>6, <1>7, <1>14, <2>2, <2>3, <2>4
<1>16. /\ IsSequence(h) /\ ToSet(h) = {cont} /\ Len(h) = 1
       /\ \A i, j \in DOMAIN h : i = j
  BY SingleIs
<1>17. o = v \o h
  BY DEF u, WithClones
<1> HIDE DEF v, h
<1>18. /\ IsSequence(o) /\ DOMAIN o = 1 .. Len(v) + Len(h)
       /\ \A i \in 1 .. Len(v) : o[i] = v[i]
  <2>1. IsSequence(v) /\ IsSequence(h)
    BY <1>15, <1>16
  <2>2. QED
    BY <1>17, <2>1, JoinIs
<1>19. /\ ToSet(o) = ToSet(v) \cup ToSet(h)
       /\ \A i, j \in DOMAIN o : o[i] = o[j] => i = j
  <2>1. ToSet(v) \cap ToSet(h) = {}
    BY <1>11, <1>15, <1>16
  <2>2. \A i, j \in DOMAIN h : h[i] = h[j] => i = j
    BY <1>16
  <2>3. IsSequence(v) /\ IsSequence(h)
    BY <1>15, <1>16
  <2>4. \A i, j \in DOMAIN v : v[i] = v[j] => i = j
    BY <1>15
  <2>5. QED
    BY <1>17, <2>1, <2>2, <2>3, <2>4, JoinHas
<1>20. 1 \in DOMAIN o /\ o[1] = EntryOf(f)
  <2>1. 1 \in 1 .. Len(v) /\ v[1] = EntryOf(f)
    <3>1. 1 \in 1 .. Len(f.order)
      BY <1>14
    <3>2. 1 \in DOMAIN v /\ v[1] = f.order[1]
      BY <1>1, <1>14, <1>15, <3>1
    <3>3. QED
      BY <1>14, <1>15, <3>2
  <2>2. 1 \in 1 .. Len(v) + Len(h) /\ o[1] = v[1]
    BY <1>15, <1>16, <1>18, <2>1
  <2>3. QED
    BY <1>18, <2>1, <2>2
<1>21. QED
  BY <1>11, <1>12, <1>13, <1>15, <1>16, <1>18, <1>19, <1>20 DEF Together, Apart


\* A block without phis whose targets are known.
Good(t, names, T) == BlockOk(t, names) /\ PhiFree(t) /\ Targets(t) \subseteq T

\* The clone of a block: a return becomes a store and a branch.
LEMMA BodyOk ==
  ASSUME NEW names, NEW s, BlockOk(s, names), PhiFree(s), NEW blockOf, NEW T,
         {blockOf[b] : b \in Targets(s)} \subseteq T, NEW cont \in T,
         NEW rest, rest = Picked(s, Cloneable(s)),
         NEW copy, copy = [i \in DOMAIN rest |-> copy[i]],
         \A i \in DOMAIN rest : CloneOf(copy[i], rest[i], blockOf),
         NEW x, InstOk(x, names), x.op # "phi", x.op \notin Terminators,
         NEW body, body = IF Last(s).op = "ret" THEN copy \o <<x, Br(cont)>> ELSE copy
  PROVE  Good(body, names, T)
<1>1. /\ BlockOk(copy, names) /\ PhiFree(copy)
      /\ Targets(copy) \subseteq {blockOf[b] : b \in Targets(s)}
      /\ s[Len(s)].op = "ret" => Straightforward(copy)
  BY ClonedOk
<1>2. CASE Last(s).op # "ret"
  BY <1>1, <1>2 DEF Good
<1>3. CASE Last(s).op = "ret"
  <2> DEFINE t == <<x, Br(cont)>>
  <2>1. /\ InstOk(Br(cont), names) /\ Br(cont).op = "br" /\ ToSet(Br(cont).to) = {cont}
    BY BrIs
  <2>2. BlockOk(t, names) /\ PhiFree(t) /\ Targets(t) = {cont}
    BY <2>1, PairOk
  <2>3. body = copy \o t
    BY <1>3
  <2> HIDE DEF t
  <2>4. Straightforward(copy)
    BY <1>1, <1>3 DEF Last
  <2>5. /\ BlockOk(copy \o t, names) /\ Targets(copy \o t) = Targets(t)
        /\ PhiFree(copy) /\ PhiFree(t) => PhiFree(copy \o t)
    BY <1>1, <2>2, <2>4, JoinOk
  <2>6. QED
    BY <1>1, <2>2, <2>3, <2>5 DEF Good
<1>4. QED
  BY <1>2, <1>3

\* A function whose blocks are all new, without phis.
LEMMA PlainFunctionOk ==
  ASSUME NEW f, NEW names, FunctionOk(f, names), NEW all, NEW n \in Nat, all \subseteq 0 .. n - 1,
         NEW o, IsSequence(o), ToSet(o) = all, \A i, j \in DOMAIN o : o[i] = o[j] => i = j,
         1 \in DOMAIN o, o[1] = EntryOf(f),
         NEW B, DOMAIN B = all, \A b \in all : Good(B[b], names, all \ {EntryOf(f)}),
         NEW g, Anew(g, f, o, n, B)
  PROVE  FunctionOk(g, names) /\ WithoutPhis(g)
<1>1. Blocks(g) = all /\ g.blocks = B /\ EntryOf(g) = EntryOf(f)
  BY DEF Anew, EntryOf
<1>2. EntryOf(f) \in all
  BY DEF ToSet
<1>3. ASSUME NEW b \in all
      PROVE  /\ BlockOk(g.blocks[b], names) /\ Phis(g, b) = {}
             /\ Succs(g, b) \subseteq all \ {EntryOf(g)}
  <2>1. Good(g.blocks[b], names, all \ {EntryOf(g)})
    BY <1>1
  <2>2. BlockOk(g.blocks[b], names) /\ PhiFree(g.blocks[b])
    BY <2>1 DEF Good
  <2>3. QED
    BY <2>1, <2>2, PhisAre, ControlIs DEF Good
<1>4. o \in Seq(all) /\ o # << >>
  <2>1. o \in Seq({o[i] : i \in DOMAIN o}) /\ o # << >>
    BY SequenceIs, Places
  <2>2. {o[i] : i \in DOMAIN o} = all
    BY DEF ToSet
  <2>3. QED
    BY <2>1, <2>2
<1>5. IsSequence(f.params)
  BY DEF FunctionOk
<1>6. FunctionOk(g, names)
  BY <1>1, <1>2, <1>3, <1>4, <1>5 DEF FunctionOk, Anew
<1>7. QED
  BY <1>1, <1>3, <1>6 DEF WithoutPhis


\* inline_call leaves a function as it has to be, without phis if it had none.
LEMMA InlineCallFits ==
  ASSUME NEW f, NEW names, FunctionOk(f, names), WithoutPhis(f), NEW s \in Sites(f),
         At(f, s).op = "call", NEW callee, FunctionOk(callee, names), InlineSafe(callee), NEW id \in Nat
  PROVE  /\ FitsExactly(InlineCall(f, s, callee, id), f, names)
         /\ WithoutPhis(InlineCall(f, s, callee, id))
<1> DEFINE call == At(f, s)
           position(b) == CHOOSE i \in DOMAIN callee.order : callee.order[i] = b
           blockOf == [b \in Blocks(callee) |-> f.next - 1 + position(b)]
           cont == f.next + Len(callee.order)
           slot == V(id)
           clone(v) == CASE v[1] = "arg" -> call.args[v[2]]
                         [] IsInst(v) -> V(id + 2 + v[2])
                         [] OTHER -> v
           res(x) == IF x.res = NoValue THEN NoValue ELSE clone(x.res)
           args(x) == [k \in DOMAIN x.args |-> clone(x.args[k])]
           to(x) == IF x.op \in {"br", "condbr"} THEN [k \in DOMAIN x.to |-> blockOf[x.to[k]]] ELSE x.to
           cloned(x) == Inst(x.op, res(x), args(x), to(x))
           block(c) == callee.blocks[c]
           rest(c) == Picked(block(c), {i \in DOMAIN block(c) : block(c)[i].op \notin {"alloca", "ret"}})
           copy(c) == [i \in DOMAIN rest(c) |-> cloned(rest(c)[i])]
           back(c) == Inst("store", NoValue, <<slot, clone(Last(block(c)).args[1])>>, << >>)
           body(c) == IF Last(block(c)).op = "ret" THEN copy(c) \o <<back(c), Br(cont)>> ELSE copy(c)
           own == Slots(callee)
           slots == [i \in DOMAIN own |-> Inst("alloca", clone(own[i].res), << >>, << >>)]
           site == f.blocks[s[1]]
           new == {blockOf[c] : c \in Blocks(callee)}
           all == Blocks(f) \cup new \cup {cont}
           front == SubSeq(site, 1, s[2] - 1) \o <<Br(blockOf[EntryOf(callee)])>>
           load == Inst("load", V(id + 1), <<slot>>, << >>)
           tail == <<load>> \o SubSeq(site, s[2] + 1, Len(site))
           origin(b) == CHOOSE c \in Blocks(callee) : blockOf[c] = b
           pieces == [b \in all |->
                        CASE b = s[1] -> front
                          [] b = cont -> tail
                          [] b \in Blocks(f) \ {s[1]} -> f.blocks[b]
                          [] OTHER -> body(origin(b))]
           e == EntryOf(f)
           alloca == Inst("alloca", slot, << >>, << >>)
           B == [pieces EXCEPT ![e] = <<alloca>> \o Reverse(slots) \o pieces[e]]
           o == f.order \o [i \in DOMAIN callee.order |-> f.next - 1 + i] \o <<cont>>
           n == cont + 1
           g == [f EXCEPT !.order = o, !.next = n, !.blocks = B]
           T == all \ {e}
<1>1. InlineCall(f, s, callee, id) = ReplaceUses(g, call.res, V(id + 1))
  BY DEF InlineCall
<1>2. Anew(g, f, o, n, B)
  <2> HIDE DEF o, n, B
  <2>1. QED
    BY ExtendedAnew
<1>30. \A v \in ValueNames : clone(v) \in ValueNames
  <2> SUFFICES ASSUME NEW v \in ValueNames PROVE clone(v) \in ValueNames
    OBVIOUS
  <2>1. v[1] = "v" /\ v[2] \in Nat
    BY NamedIs
  <2>2. clone(v) = V(id + 2 + v[2])
    BY <2>1 DEF IsInst
  <2>3. id + 2 + v[2] \in Nat
    BY <2>1
  <2> HIDE DEF clone
  <2>4. QED
    BY <2>2, <2>3, NamedIs
<1>31. V(id) \in ValueNames /\ V(id + 1) \in ValueNames
  BY NamedIs
<1> HIDE DEF g, clone
<1>3. Following(blockOf, f, callee) /\ WithClones(o, f, callee, cont)
  BY DEF Following, WithClones
<1>4. /\ cont \in Nat /\ cont \notin Blocks(f) /\ cont \notin new
      /\ Blocks(f) \cap new = {}
      /\ all \subseteq 0 .. (cont + 1) - 1
      /\ IsSequence(o) /\ ToSet(o) = all
      /\ \A i, j \in DOMAIN o : o[i] = o[j] => i = j
      /\ 1 \in DOMAIN o /\ o[1] = e
  <2>1. Clones(new, blockOf, callee)
    BY DEF Clones
  <2>2. cont = f.next + Len(callee.order) /\ Together(all, f, new, cont)
    BY DEF Together
  <2> HIDE DEF blockOf, cont, o, new, all
  <2>3. Apart(f, cont, new, all, o)
    BY <1>3, <2>1, <2>2, ClonesAre
  <2>4. QED
    BY <2>3 DEF Apart
<1>5. /\ DOMAIN B = all /\ B[e] = <<alloca>> \o Reverse(slots) \o pieces[e]
      /\ \A b \in all : b # e => B[b] = pieces[b]
  <2>1. e \in all /\ DOMAIN pieces = all
    BY EntryIs
  <2> HIDE DEF pieces, slots, alloca, all, e
  <2>2. QED
    BY <2>1
<1>6. /\ \A b \in Blocks(f) \ {s[1]} : b # cont => pieces[b] = f.blocks[b]
      /\ pieces[s[1]] = front
      /\ cont # s[1] => pieces[cont] = tail
      /\ \A b \in new : b \notin Blocks(f) /\ b # cont => pieces[b] = body(origin(b))
  <2>1. s[1] \in Blocks(f)
    BY SiteIs
  <2> HIDE DEF front, tail, body, blockOf, cont, new, origin
  <2>2. \A b \in Blocks(f) \ {s[1]} : b # cont => pieces[b] = f.blocks[b]
    OBVIOUS
  <2>3. pieces[s[1]] = front
    BY <1>4, <2>1
  <2>4. cont # s[1] => pieces[cont] = tail
    BY <1>4
  <2>5. \A b \in new : b \notin Blocks(f) /\ b # cont => pieces[b] = body(origin(b))
    BY <2>1
  <2>6. QED
    BY <2>2, <2>3, <2>4, <2>5
<1>7. ASSUME NEW c \in Blocks(callee)
      PROVE  \A i \in DOMAIN rest(c) : CloneOf(copy(c)[i], rest(c)[i], blockOf)
  <2> DEFINE r == rest(c)
  <2> SUFFICES ASSUME NEW i \in DOMAIN r PROVE CloneOf(copy(c)[i], r[i], blockOf)
    OBVIOUS
  <2>1. copy(c)[i] = cloned(r[i])
    OBVIOUS
  <2> HIDE DEF r, copy, rest, blockOf, res, args
  <2>2. cloned(r[i]).op = r[i].op /\ cloned(r[i]).res = res(r[i]) /\ cloned(r[i]).args = args(r[i])
    BY DEF Inst
  <2>3. cloned(r[i]).to = to(r[i])
    BY DEF Inst
  <2>4. /\ r[i].res = NoValue => res(r[i]) = NoValue
        /\ Named(r[i].op, r[i].res) => Named(r[i].op, res(r[i]))
    <3>1. CASE r[i].res = NoValue
      BY <3>1 DEF res
    <3>2. CASE r[i].res # NoValue
      <4>1. res(r[i]) = clone(r[i].res)
        BY <3>2 DEF res
      <4>2. Named(r[i].op, r[i].res) => r[i].res \in ValueNames
        BY <3>2 DEF Named
      <4>3. QED
        BY <1>30, <3>2, <4>1, <4>2, NamedIs
    <3>3. QED
      BY <3>1, <3>2
  <2>5. to(r[i]) = IF r[i].op \in {"br", "condbr"}
                   THEN [k \in DOMAIN r[i].to |-> blockOf[r[i].to[k]]] ELSE r[i].to
    OBVIOUS
  <2> DEFINE y == cloned(r[i])
  <2>6. y = Inst(y.op, y.res, y.args, y.to)
    BY <2>2, <2>3
  <2> HIDE DEF to, y
  <2>7. y.op = r[i].op /\ y.res = res(r[i]) /\ y.to = to(r[i])
    BY <2>2, <2>3 DEF y
  <2> HIDE DEF cloned
  <2>8. CloneOf(y, r[i], blockOf)
    BY <2>4, <2>5, <2>6, <2>7 DEF CloneOf
  <2>9. QED
    BY <2>1, <2>8 DEF y
<1>8. \A c \in Blocks(callee) :
        /\ rest(c) = Picked(block(c), Cloneable(block(c)))
        /\ copy(c) = [i \in DOMAIN rest(c) |-> copy(c)[i]]
  <2>1. \A c \in Blocks(callee) : rest(c) = Picked(block(c), Cloneable(block(c)))
    BY DEF Cloneable
  <2> HIDE DEF rest, cloned
  <2>2. \A c \in Blocks(callee) : copy(c) = [i \in DOMAIN rest(c) |-> copy(c)[i]]
    OBVIOUS
  <2>3. QED
    BY <2>1, <2>2
<1> HIDE DEF blockOf, B, pieces, o, copy, rest, new
<1> HIDE DEF cont
<1>9. e \in Blocks(f)
  BY EntryIs
<1> HIDE DEF e
<1>10. T \subseteq all /\ cont \in T /\ new \subseteq T /\ \A b \in Blocks(f) : Succs(f, b) \subseteq T
  <2>1. \A b \in Blocks(f) : Succs(f, b) \subseteq Blocks(f) \ {e}
    BY DEF FunctionOk, e
  <2>2. QED
    BY <1>4, <1>9, <2>1
<1>11. \A c \in Blocks(callee) : blockOf[c] \in new
  BY DEF new
<1> HIDE DEF T, all
<1>12. ASSUME NEW b \in Blocks(f) PROVE Good(f.blocks[b], names, T)
  <2>1. BlockOk(f.blocks[b], names) /\ Phis(f, b) = {}
    BY DEF FunctionOk, WithoutPhis
  <2>2. PhiFree(f.blocks[b]) /\ Targets(f.blocks[b]) = Succs(f, b)
    BY <2>1, PhisAre, ControlIs
  <2>3. QED
    BY <1>10, <2>1, <2>2 DEF Good
<1> HIDE DEF site, front, tail, body, block, back, slots, alloca, load, origin
<1>13. ASSUME NEW c \in Blocks(callee) PROVE Good(body(c), names, T)
  <2> DEFINE t == block(c)
  <2>1. BlockOk(t, names) /\ PhiFree(t) /\ Targets(t) \subseteq Blocks(callee)
    <3>1. BlockOk(t, names) /\ Succs(callee, c) \subseteq Blocks(callee)
      BY DEF FunctionOk, block
    <3>2. PhiFree(t)
      BY DEF InlineSafe, PhiFree, block
    <3>3. QED
      BY <3>1, <3>2, ControlIs DEF block
  <2>2. {blockOf[b] : b \in Targets(t)} \subseteq T
    BY <1>10, <1>11, <2>1
  <2>3. InstOk(back(c), names) /\ back(c).op = "store" /\ back(c).op # "phi" /\ back(c).op \notin Terminators
    BY NamedIs DEF back, Inst, InstOk, Terminators, Essential
  <2>4. body(c) = IF Last(t).op = "ret" THEN copy(c) \o <<back(c), Br(cont)>> ELSE copy(c)
    BY DEF body
  <2>5. rest(c) = Picked(t, Cloneable(t)) /\ copy(c) = [i \in DOMAIN rest(c) |-> copy(c)[i]]
    BY <1>8
  <2>6. \A i \in DOMAIN rest(c) : CloneOf(copy(c)[i], rest(c)[i], blockOf)
    BY <1>7
  <2> DEFINE r == rest(c)
             k == copy(c)
             x == back(c)
             w == body(c)
  <2>7. /\ r = Picked(t, Cloneable(t)) /\ k = [i \in DOMAIN r |-> k[i]]
        /\ \A i \in DOMAIN r : CloneOf(k[i], r[i], blockOf)
    BY <2>5, <2>6
  <2>8. InstOk(x, names) /\ x.op # "phi" /\ x.op \notin Terminators
    BY <2>3
  <2>9. w = IF Last(t).op = "ret" THEN k \o <<x, Br(cont)>> ELSE k
    BY <2>4
  <2> HIDE DEF t, r, k, x, w
  <2>10. Good(w, names, T)
    BY <1>10, <2>1, <2>2, <2>7, <2>8, <2>9, BodyOk
  <2>11. QED
    BY <2>10 DEF w
<1>14. /\ s[1] \in Blocks(f) /\ s[2] \in DOMAIN site /\ BlockOk(site, names)
       /\ site[s[2]].op = "call"
  BY SiteIs DEF site
<1>15. PhiFree(site) /\ Targets(site) \subseteq T
  BY <1>12, <1>14 DEF Good, site
<1>16. Good(front, names, T)
  <2> DEFINE t == SubSeq(site, 1, s[2] - 1)
             c == blockOf[EntryOf(callee)]
  <2>1. Len(site) \in Nat /\ DOMAIN site = 1 .. Len(site)
    BY <1>14, Places DEF BlockOk
  <2>2. /\ s[2] - 1 \in 0 .. Len(site) /\ 1 \in 1 .. Len(site) + 1 /\ 1 <= (s[2] - 1) + 1
        /\ s[2] - 1 # Len(site)
    BY <1>14, <2>1
  <2>3. BlockOk(t, names) /\ Tos(t) \subseteq Tos(site) /\ Straightforward(t)
    BY <1>14, <2>2, StretchOk
  <2>4. PhiFree(t)
    BY <1>15, <2>3, NoTos
  <2>5. c \in T
    BY <1>10, <1>11, EntryIs
  <2>6. /\ BlockOk(<<Br(c)>>, names) /\ PhiFree(<<Br(c)>>) /\ Targets(<<Br(c)>>) = {c}
    BY BrIs
  <2>7. front = t \o <<Br(c)>>
    BY DEF front
  <2> HIDE DEF t, c
  <2> DEFINE u == <<Br(c)>>
  <2>8. BlockOk(u, names) /\ PhiFree(u) /\ Targets(u) = {c} /\ front = t \o u
    BY <2>6, <2>7
  <2> HIDE DEF u
  <2>9. /\ BlockOk(t \o u, names) /\ Targets(t \o u) = Targets(u)
        /\ PhiFree(t) /\ PhiFree(u) => PhiFree(t \o u)
    BY <2>3, <2>8, JoinOk
  <2>10. QED
    BY <2>4, <2>5, <2>8, <2>9 DEF Good
<1>17. Good(tail, names, T)
  <2> DEFINE t == SubSeq(site, s[2] + 1, Len(site))
             u == <<load>>
  <2>1. BlockOk(t, names) /\ PhiFree(t) /\ Targets(t) = Targets(site)
    BY <1>14, TailOk DEF Terminators
  <2>2. InstOk(load, names) /\ load.op # "phi" /\ load.op \notin Terminators
    BY <1>31, NamedIs DEF load, Inst, InstOk, Terminators
  <2>3. BlockOk(u, names) /\ PhiFree(u) /\ Straightforward(u)
    BY <2>2, SingleOk
  <2>4. tail = u \o t
    BY DEF tail
  <2> HIDE DEF t, u
  <2>5. /\ BlockOk(u \o t, names) /\ Targets(u \o t) = Targets(t)
        /\ PhiFree(u) /\ PhiFree(t) => PhiFree(u \o t)
    BY <2>1, <2>3, JoinOk
  <2>6. QED
    BY <1>15, <2>1, <2>3, <2>4, <2>5 DEF Good
<1>18. ASSUME NEW b \in all PROVE Good(pieces[b], names, T)
  <2>1. CASE b = s[1]
    BY <1>6, <1>16, <2>1
  <2>2. CASE b = cont
    BY <1>6, <1>4, <1>14, <1>17, <2>2
  <2>3. CASE b \in Blocks(f) \ {s[1]}
    BY <1>6, <1>4, <1>12, <2>3
  <2>4. CASE b \in new
    <3>1. PICK c \in Blocks(callee) : b = blockOf[c]
      BY <2>4 DEF new
    <3>2. origin(b) \in Blocks(callee)
      BY <3>1 DEF origin
    <3>3. pieces[b] = body(origin(b))
      BY <1>6, <1>4, <2>4
    <3>4. QED
      BY <1>13, <3>2, <3>3
  <2>5. QED
    BY <2>1, <2>2, <2>3, <2>4 DEF all
<1>19. Plain(Reverse(slots), names)
  <2> DEFINE m == Len(slots)
             t == Reverse(slots)
  <2>1. IsSequence(own) /\ \A i \in DOMAIN own : own[i].res \in ValueNames
    BY SlotsAre
  <2>2. Len(own) \in Nat /\ DOMAIN own = 1 .. Len(own)
    BY <2>1, Places
  <2> HIDE DEF own
  <2>3. slots = [i \in 1 .. Len(own) |-> slots[i]]
    BY <2>2 DEF slots
  <2>4. \A i \in 1 .. Len(own) : /\ InstOk(slots[i], names)
                                 /\ slots[i].op \notin Terminators /\ slots[i].op # "phi"
    <3>1. \A i \in 1 .. Len(own) : clone(own[i].res) \in ValueNames
      BY <1>30, <2>1, <2>2
    <3>2. \A i \in 1 .. Len(own) : slots[i] = Inst("alloca", clone(own[i].res), << >>, << >>)
      BY <2>2 DEF slots
    <3>3. ASSUME NEW i \in 1 .. Len(own)
          PROVE  /\ InstOk(slots[i], names)
                 /\ slots[i].op \notin Terminators /\ slots[i].op # "phi"
      <4> DEFINE x == slots[i]
      <4>1. x = Inst("alloca", clone(own[i].res), << >>, << >>) /\ clone(own[i].res) \in ValueNames
        BY <3>1, <3>2
      <4> HIDE DEF x
      <4>2. x = Inst(x.op, x.res, x.args, x.to) /\ x.op = "alloca" /\ x.res \in ValueNames
        BY <4>1 DEF Inst
      <4>3. InstOk(x, names) /\ x.op \notin Terminators /\ x.op # "phi"
        BY <4>2, NamedIs DEF InstOk, Terminators
      <4>4. QED
        BY <4>3 DEF x
    <3>4. QED
      BY <3>3
  <2>5. m \in Nat /\ m = Len(own)
    BY <2>2, <2>3, ListIs
  <2>6. t = [i \in 1 .. m |-> slots[(m - i) + 1]]
    BY DEF Reverse
  <2> HIDE DEF t, m
  <2>7. t = [i \in 1 .. m |-> t[i]] /\ \A i \in 1 .. m : t[i] = slots[(m - i) + 1]
    BY <2>6
  <2>8. IsSequence(t) /\ DOMAIN t = 1 .. m
    BY <2>5, <2>7, ListIs
  <2>9. \A i \in 1 .. m : (m - i) + 1 \in 1 .. m
    BY <2>5
  <2>10. Plain(t, names)
    BY <2>4, <2>5, <2>7, <2>8, <2>9 DEF Plain
  <2>11. QED
    BY <2>10 DEF t
<1>20. Good(B[e], names, T)
  <2> DEFINE t == <<alloca>>
             r == Reverse(slots)
             u == pieces[e]
  <2>1. InstOk(alloca, names) /\ alloca.op # "phi" /\ alloca.op \notin Terminators
    BY <1>31, NamedIs DEF alloca, Inst, InstOk, Terminators
  <2>2. BlockOk(t, names) /\ Straightforward(t) /\ Tos(t) = {}
    BY <2>1, SingleOk
  <2>3. BlockOk(u, names) /\ PhiFree(u) /\ Targets(u) \subseteq T
    BY <1>9, <1>18 DEF Good, all
  <2>4. B[e] = t \o r \o u /\ Plain(r, names)
    BY <1>5, <1>19
  <2> HIDE DEF t, r, u
  <2>5. /\ BlockOk(t \o r \o u, names) /\ Targets(t \o r \o u) = Targets(u)
        /\ Tos(t \o r \o u) = Tos(t)
    BY <2>2, <2>3, <2>4, BetweenOk
  <2>6. QED
    BY <2>2, <2>3, <2>4, <2>5, NoTos DEF Good
<1>21. \A b \in all : Good(B[b], names, all \ {EntryOf(f)})
  <2>1. \A b \in all : Good(B[b], names, T)
    BY <1>5, <1>18, <1>20
  <2>2. QED
    BY <2>1 DEF T, e
<1>22. n \in Nat /\ all \subseteq 0 .. n - 1 /\ o[1] = EntryOf(f)
  BY <1>4 DEF e
<1> HIDE DEF n
<1>23. FunctionOk(g, names) /\ WithoutPhis(g)
  BY <1>2, <1>5, <1>4, <1>21, <1>22, PlainFunctionOk
<1>24. Covered(g) /\ Tidy(g) /\ Tight(g)
  BY <1>23, NoPhisFit
<1>25. FitsExactly(g, f, names)
  BY <1>2, <1>23, <1>24 DEF FitsExactly, Keeps, Anew
<1> DEFINE h == ReplaceUses(g, call.res, V(id + 1))
<1>26. FitsExactly(h, g, names)
  BY <1>23, <1>24, ReplaceUsesFits
<1>27. WithoutPhis(h)
  <2>1. PICK C : /\ h = [g EXCEPT !.blocks = C] /\ DOMAIN C = Blocks(g)
                 /\ \A b \in Blocks(g) : Alike(C[b], g.blocks[b], names)
    BY <1>23, ReplaceUsesAlike
  <2> HIDE DEF h
  <2>2. QED
    BY <1>23, <2>1, AlikeWithoutPhis
<1>28. FitsExactly(h, f, names)
  BY <1>25, <1>26, FitsInTurn
<1>29. QED
  BY <1>1, <1>27, <1>28


-----------------------------------------------------------------------------
(* The invariant. *)

ModuleOk(m) ==
  /\ IsSequence(m) /\ m # << >>
  /\ \A i \in DOMAIN m : FunctionOk(m[i], Names(m)) /\ Covered(m[i])

Early == stage \in {"globals", "inlining", "promoting", "straight", "tail"}
Loose == Running("branches") \/ Running("unreachable")

ControlOk ==
  /\ stage \in {"globals", "inlining", "promoting", "straight", "tail", "scalar", "done",
                "trapped", "undefined"}
  /\ at \in DOMAIN module
  /\ pass \in 1 .. 16
  /\ round \in 1 .. MaxRounds
  /\ iteration \in 1 .. MaxIterations
  /\ inRound => changed

DanglingOk ==
  /\ \A d \in dangling : d[1] \in DOMAIN module /\ d[2] \in SsaValues(module[d[1]])
  /\ Early => dangling = {}

EntriesOk ==
  ~stale => \A i \in DOMAIN module :
              Tidy(module[i]) /\ (Tight(module[i]) \/ (i = at /\ Loose))

\* What holds in every state, and is kept by every step: each function is as IR
\* generation sees to, each phi has an entry for each edge; before mem2reg
\* there are no phis and before the loop of run_optim no erased user; and while
\* no entry has gone stale phis have entries for nothing but edges, except in a
\* function whose branches are being folded.
OptInv ==
  /\ ModuleOk(module)
  /\ ControlOk
  /\ DOMAIN expected = Calls(module)
  /\ DanglingOk
  /\ stage \in {"globals", "inlining"} => \A i \in DOMAIN module : WithoutPhis(module[i])
  /\ EntriesOk

\* Where the passes stand in the list.
LEMMA PassesAre ==
  /\ DOMAIN Passes = 1 .. 16 /\ Len(Passes) = 16
  /\ \A p \in 1 .. 16 : Passes[p] = "branches" => p \in {2, 13}
  /\ Passes[3] = "unreachable" /\ Passes[14] = "unreachable"
BY DEF Passes

\* What is known of a module in which function a has been replaced by g.
Replaced(w, m, a, g) ==
  /\ ModuleOk(w) /\ DOMAIN w = DOMAIN m /\ w[a] = g
  /\ \A i \in DOMAIN m : i # a => w[i] = m[i]
  /\ Calls(w) = Calls(m)

\* A module one function of which is replaced by one with its name and parameters.
LEMMA UpdatedIs ==
  ASSUME NEW m, ModuleOk(m), NEW a \in DOMAIN m, NEW g, Keeps(g, m[a], Names(m)),
         NEW w, w = [m EXCEPT ![a] = g]
  PROVE  Replaced(w, m, a, g)
<1>1. Len(m) \in Nat /\ DOMAIN m = 1 .. Len(m) /\ Len(m) # 0
  BY Places DEF ModuleOk
<1>2. /\ DOMAIN w = 1 .. Len(m) /\ w[a] = g /\ w = [i \in 1 .. Len(m) |-> w[i]]
      /\ \A i \in DOMAIN m : i # a => w[i] = m[i]
  BY <1>1
<1>3. IsSequence(w) /\ Len(w) = Len(m)
  BY <1>1, <1>2, ListIs
<1>4. w # << >>
  BY <1>1, <1>3, Places
<1>5. \A i \in DOMAIN m : w[i].name = m[i].name /\ w[i].params = m[i].params
  BY <1>2 DEF Keeps
<1>6. Names(w) = Names(m)
  BY <1>1, <1>2, <1>5 DEF Names
<1>7. \A i \in DOMAIN w : FunctionOk(w[i], Names(m)) /\ Covered(w[i])
  BY <1>1, <1>2 DEF ModuleOk, Keeps
<1>8. Last(w).params = Last(m).params
  <2>1. Len(m) \in DOMAIN m
    BY <1>1
  <2>2. QED
    BY <1>3, <1>5, <2>1 DEF Last
<1>9. QED
  BY <1>1, <1>2, <1>3, <1>4, <1>6, <1>7, <1>8 DEF ModuleOk, Calls, Replaced

\* The functions of the module.
LEMMA FunctionsAre ==
  ASSUME NEW m, ModuleOk(m), NEW a \in DOMAIN m
  PROVE  /\ FunctionOk(m[a], Names(m)) /\ Covered(m[a])
         /\ \A s \in Sites(m[a]) : At(m[a], s).op = "call" =>
              \E i \in DOMAIN m : FunctionNamed(m, At(m[a], s).to[1]) = m[i]
<1>1. FunctionOk(m[a], Names(m)) /\ Covered(m[a])
  BY DEF ModuleOk
<1>2. ASSUME NEW s \in Sites(m[a]), At(m[a], s).op = "call"
      PROVE  \E i \in DOMAIN m : FunctionNamed(m, At(m[a], s).to[1]) = m[i]
  <2> DEFINE name == At(m[a], s).to[1]
  <2>1. name \in Names(m)
    BY <1>1, <1>2, SiteIs DEF InstOk
  <2> HIDE DEF name
  <2>2. \E i \in DOMAIN m : m[i].name = name
    BY <2>1 DEF Names
  <2>3. QED
    BY <2>2 DEF FunctionNamed, name
<1>3. QED
  BY <1>1, <1>2

\* A rewriting of the function the driver works on keeps the invariant.
LEMMA RewritingKeeps ==
  ASSUME OptInv, NEW g, module' = [module EXCEPT ![at] = g],
         Keeps(g, This, Names(module)),
         \/ Loose /\ stage' = stage /\ (Tidy(This) => Tidy(g))
         \/ ~Loose /\ (Tidy(This) /\ Tight(This) => Tidy(g) /\ Tight(g)),
         stage \in {"globals", "inlining"} => WithoutPhis(g),
         stage' = stage \/ stage' = "undefined",
         \A d \in dangling' : \/ d \in dangling /\ (d[1] # at \/ d[2] \in SsaValues(g))
                              \/ d[1] = at /\ d[2] \in SsaValues(g) /\ stage = "scalar",
         inRound' => changed',
         UNCHANGED <<expected, at, pass, round, iteration, stale>>
  PROVE  OptInv'
<1>1. ModuleOk(module) /\ at \in DOMAIN module
  BY DEF OptInv, ControlOk
<1>2. /\ ModuleOk(module') /\ DOMAIN module' = DOMAIN module /\ module'[at] = g
      /\ \A i \in DOMAIN module : i # at => module'[i] = module[i]
      /\ Calls(module') = Calls(module)
  <2> DEFINE m == module
             w == module'
  <2>1. /\ ModuleOk(m) /\ at \in DOMAIN m /\ Keeps(g, m[at], Names(m))
        /\ w = [m EXCEPT ![at] = g]
    BY <1>1 DEF This
  <2> HIDE DEF m, w
  <2>2. Replaced(w, m, at, g)
    BY <2>1, UpdatedIs
  <2>3. QED
    BY <2>2 DEF Replaced, m, w
<1>3. ControlOk'
  BY <1>2 DEF OptInv, ControlOk
<1>4. (DOMAIN expected = Calls(module))'
  BY <1>2 DEF OptInv
<1>5. DanglingOk'
  <2>1. ASSUME NEW d \in dangling'
        PROVE  d[1] \in DOMAIN module' /\ d[2] \in SsaValues(module'[d[1]])
    <3>1. d[1] # at \/ d[2] \in SsaValues(g)
      OBVIOUS
    <3>2. d[1] \in DOMAIN module
      BY <1>1 DEF OptInv, DanglingOk
    <3>3. CASE d[1] = at
      BY <1>2, <3>1, <3>2, <3>3
    <3>4. CASE d[1] # at
      BY <1>2, <3>2, <3>4 DEF OptInv, DanglingOk
    <3>5. QED
      BY <3>3, <3>4
  <2>2. Early' => dangling' = {}
    <3>1. Early' => Early /\ stage # "scalar"
      BY DEF Early
    <3>2. Early => dangling = {}
      BY DEF OptInv, DanglingOk
    <3>3. QED
      BY <3>1, <3>2
  <2>3. QED
    BY <2>1, <2>2 DEF DanglingOk
<1>6. (stage \in {"globals", "inlining"} => \A i \in DOMAIN module : WithoutPhis(module[i]))'
  <2>1. ASSUME stage' \in {"globals", "inlining"}, NEW i \in DOMAIN module'
        PROVE  WithoutPhis(module'[i])
    <3>1. stage \in {"globals", "inlining"}
      BY <2>1
    <3>2. WithoutPhis(g) /\ \A j \in DOMAIN module : WithoutPhis(module[j])
      BY <3>1 DEF OptInv
    <3>3. QED
      BY <1>2, <3>2
  <2>2. QED
    BY <2>1
<1>7. EntriesOk'
  <2>1. ASSUME ~stale', NEW i \in DOMAIN module'
        PROVE  Tidy(module'[i]) /\ (Tight(module'[i]) \/ (i = at' /\ Loose'))
    <3>1. \A j \in DOMAIN module : Tidy(module[j]) /\ (Tight(module[j]) \/ (j = at /\ Loose))
      BY <2>1 DEF OptInv, EntriesOk
    <3>2. CASE i # at
      BY <1>2, <3>1, <3>2
    <3>3. CASE i = at
      <4>1. Tidy(This)
        BY <1>1, <3>1 DEF This
      <4>2. CASE Loose
        <5>1. Loose' /\ Tidy(g)
          BY <4>1, <4>2 DEF Loose, Running
        <5>2. QED
          BY <1>2, <3>3, <5>1
      <4>3. CASE ~Loose
        <5>1. Tight(This)
          BY <1>1, <3>1, <4>3 DEF This
        <5>2. Tidy(g) /\ Tight(g)
          BY <4>1, <4>3, <5>1
        <5>3. QED
          BY <1>2, <3>3, <5>2
      <4>4. QED
        BY <4>2, <4>3
    <3>4. QED
      BY <3>2, <3>3
  <2>2. QED
    BY <2>1 DEF EntriesOk
<1>8. QED
  BY <1>2, <1>3, <1>4, <1>5, <1>6, <1>7 DEF OptInv


\* A step that leaves the module, what dangles and what has gone stale as it is
\* keeps the invariant.
LEMMA MovingKeeps ==
  ASSUME OptInv, UNCHANGED <<module, expected, dangling>>, ControlOk',
         Early' => Early,
         stage' \in {"globals", "inlining"} => stage \in {"globals", "inlining"},
         stale => stale',
         ~stale' => \A i \in DOMAIN module :
                      ~Tight(module[i]) /\ Tidy(module[i]) /\ i = at /\ Loose => at' = at /\ Loose'
  PROVE  OptInv'
<1>1. ModuleOk(module') /\ (DOMAIN expected = Calls(module))'
  BY DEF OptInv
<1>2. DanglingOk'
  BY DEF OptInv, DanglingOk
<1>3. (stage \in {"globals", "inlining"} => \A i \in DOMAIN module : WithoutPhis(module[i]))'
  BY DEF OptInv
<1>4. EntriesOk'
  <2>1. ASSUME ~stale', NEW i \in DOMAIN module'
        PROVE  Tidy(module'[i]) /\ (Tight(module'[i]) \/ (i = at' /\ Loose'))
    <3>1. ~stale /\ i \in DOMAIN module /\ module'[i] = module[i]
      BY <2>1
    <3>2. Tidy(module[i]) /\ (Tight(module[i]) \/ (i = at /\ Loose))
      BY <3>1 DEF OptInv, EntriesOk
    <3>3. QED
      BY <2>1, <3>1, <3>2
  <2>2. QED
    BY <2>1 DEF EntriesOk
<1>5. QED
  BY <1>1, <1>2, <1>3, <1>4 DEF OptInv

LEMMA NextFunctionKeeps ==
  ASSUME OptInv, Early, NEW next,
         next \in {"inlining", "promoting", "straight", "tail", "scalar"},
         next = "inlining" => stage = "globals",
         NextFunction(next)
  PROVE  OptInv'
<1>1. UNCHANGED <<module, expected, dangling, stale>>
  BY DEF NextFunction, history
<1>2. ModuleOk(module) /\ ControlOk
  BY DEF OptInv
<1>3. Len(module) \in Nat \ {0} /\ DOMAIN module = 1 .. Len(module)
  BY <1>2, Places DEF ModuleOk
<1>4. /\ at' \in 1 .. Len(module)
      /\ stage' = stage \/ stage' = next
      /\ UNCHANGED <<pass, round, iteration, inRound, changed>>
  BY <1>2, <1>3 DEF NextFunction, flags, ControlOk
<1>5. ControlOk'
  BY <1>1, <1>2, <1>3, <1>4 DEF ControlOk
<1>6. ~Loose
  BY DEF Early, Loose, Running
<1>7. stage' \in {"globals", "inlining"} => stage \in {"globals", "inlining"}
  BY <1>4
<1>8. QED
  BY <1>1, <1>5, <1>6, <1>7, MovingKeeps

\* A function whose phis have no entry for an edge that is no more.
LEMMA NoStaleEntry ==
  ASSUME NEW f, NEW names, FunctionOk(f, names), Tidy(f), ~HasStaleEntry(f)
  PROVE  Tight(f)
<1> SUFFICES ASSUME NEW b \in Blocks(f), NEW t \in Tos(f.blocks[b]), NEW x \in ToSet(t)
             PROVE  x \in PredsOf(f, b)
  BY DEF Tight
<1>1. PICK phi \in Phis(f, b) : phi.to = t
  <2>1. BlockOk(f.blocks[b], names)
    BY DEF FunctionOk
  <2>2. PICK i \in DOMAIN f.blocks[b] : f.blocks[b][i].op = "phi" /\ t = f.blocks[b][i].to
    BY DEF Tos
  <2>3. i \in PhiSites(f, b)
    BY <2>1, <2>2, PhiSitesAre
  <2>4. f.blocks[b][i] \in Phis(f, b)
    BY <2>3 DEF Phis
  <2>5. QED
    BY <2>2, <2>4
<1>2. PICK k \in DOMAIN phi.to : phi.to[k] = x
  BY <1>1 DEF ToSet
<1>3. x \in Blocks(f)
  BY DEF Tidy
<1>4. QED
  BY <1>2, <1>3 DEF HasStaleEntry, PredsOf

\* Where the driver goes when a pass is over: to the next round of sccp, to the
\* next pass, or behind the last one.
NextRound == pass' = 1 /\ round' = round + 1 /\ inRound' = FALSE
             /\ UNCHANGED <<stage, at, iteration, changed>>
Further == pass' = pass + 1 /\ UNCHANGED <<stage, at, round, iteration, flags>>
Ended == /\ pass' = 1 /\ round' = 1 /\ inRound' = FALSE
         /\ IF at < Len(module)
            THEN at' = at + 1 /\ UNCHANGED <<stage, iteration, changed>>
            ELSE /\ at' = 1
                 /\ IF GoesOn
                    THEN iteration' = iteration + 1 /\ changed' = FALSE /\ UNCHANGED stage
                    ELSE stage' = "done" /\ UNCHANGED <<iteration, changed>>

LEMMA NextPassIs ==
  ASSUME NextPass
  PROVE  \/ pass = 6 /\ inRound /\ round < MaxRounds /\ NextRound
         \/ pass < 16 /\ Further
         \/ ~(pass < 16) /\ Ended
<1>1. IF pass = RoundLength /\ inRound /\ round < MaxRounds THEN NextRound
      ELSE IF pass < Len(Passes) THEN Further ELSE Ended
  BY DEF NextPass, NextRound, Further, Ended
<1>2. QED
  BY <1>1, PassesAre DEF RoundLength

LEMMA NextPassKeeps ==
  ASSUME OptInv, NextPass
  PROVE  OptInv'
<1>1. UNCHANGED <<module, expected, dangling>> /\ stage = "scalar"
  BY DEF NextPass
<1>2. stale' = (stale \/ (Running("unreachable") /\ HasStaleEntry(This)))
  BY DEF NextPass
<1>3. ModuleOk(module) /\ ControlOk
  BY DEF OptInv
<1>4. Len(module) \in Nat \ {0} /\ DOMAIN module = 1 .. Len(module)
  BY <1>3, Places DEF ModuleOk
<1>5. \/ pass = 6 /\ round < MaxRounds /\ NextRound
      \/ pass < 16 /\ Further
      \/ ~(pass < 16) /\ Ended
  BY NextPassIs
<1>6. ControlOk' /\ stage' \in {"scalar", "done"}
  <2>1. CASE pass = 6 /\ round < MaxRounds /\ NextRound
    BY <1>1, <1>3, <2>1 DEF NextRound, ControlOk, MaxRounds
  <2>2. CASE pass < 16 /\ Further
    BY <1>1, <1>3, <2>2 DEF Further, ControlOk, flags
  <2>3. CASE ~(pass < 16) /\ Ended
    BY <1>1, <1>3, <1>4, <2>3 DEF Ended, GoesOn, ControlOk, MaxIterations, MaxRounds
  <2>4. QED
    BY <1>5, <2>1, <2>2, <2>3
<1>7. pass \in 1 .. 16
  BY <1>3 DEF ControlOk
<1>8. Running("branches") => at' = at /\ Loose'
  <2>1. Running("branches") => pass \in {2, 13}
    BY <1>7, PassesAre DEF Running
  <2>2. pass \in {2, 13} => pass < 16 /\ Further
    BY <1>5
  <2>3. pass \in {2, 13} /\ Further => at' = at /\ pass' \in {3, 14} /\ stage' = "scalar"
    BY <1>1 DEF Further
  <2>4. pass' \in {3, 14} => Passes[pass'] = "unreachable"
    BY PassesAre
  <2>5. QED
    BY <2>1, <2>2, <2>3, <2>4 DEF Loose, Running
<1>9. ASSUME ~stale', NEW i \in DOMAIN module, ~Tight(module[i]), Tidy(module[i]), i = at, Loose
      PROVE  at' = at /\ Loose'
  <2>1. CASE Running("branches")
    BY <1>8, <2>1
  <2>2. CASE Running("unreachable")
    <3>1. ~HasStaleEntry(module[i])
      BY <1>2, <1>9, <2>2 DEF This
    <3>2. FunctionOk(module[i], Names(module))
      BY <1>3 DEF ModuleOk
    <3>3. Tight(module[i])
      BY <1>9, <3>1, <3>2, NoStaleEntry
    <3>4. QED
      BY <1>9, <3>3
  <2>3. QED
    BY <1>9, <2>1, <2>2 DEF Loose
<1>10. Early' => Early
  BY <1>6 DEF Early
<1>11. QED
  BY <1>1, <1>2, <1>6, <1>9, <1>10, MovingKeeps


\* What is known of the function the driver works on.
LEMMA ThisIs ==
  ASSUME OptInv
  PROVE  /\ FunctionOk(This, Names(module)) /\ Covered(This)
         /\ at \in DOMAIN module /\ This = module[at] /\ ModuleOk(module)
         /\ stage \in {"globals", "inlining"} => WithoutPhis(This)
         /\ \A s \in Sites(This) : At(This, s).op = "call" =>
              \E i \in DOMAIN module : FunctionNamed(module, At(This, s).to[1]) = module[i]
         /\ Early => dangling = {}
<1>1. ModuleOk(module) /\ at \in DOMAIN module /\ (Early => dangling = {})
  BY DEF OptInv, ControlOk, DanglingOk
<1>2. stage \in {"globals", "inlining"} => WithoutPhis(This)
  BY <1>1 DEF OptInv, This
<1>3. QED
  BY <1>1, <1>2, FunctionsAre DEF This

\* A rewriting after which phis still have an entry for each edge.
LEMMA ExactKeeps ==
  ASSUME OptInv, NEW g, FitsExactly(g, This, Names(module)), ~Loose,
         module' = [module EXCEPT ![at] = g],
         stage \in {"globals", "inlining"} => WithoutPhis(g),
         stage' = stage \/ stage' = "undefined",
         dangling' \subseteq StillDangling(g),
         inRound' => changed',
         UNCHANGED <<expected, at, pass, round, iteration, stale>>
  PROVE  OptInv'
<1>1. Keeps(g, This, Names(module)) /\ (Tidy(This) /\ Tight(This) => Tidy(g) /\ Tight(g))
  BY DEF FitsExactly
<1>2. \A d \in dangling' : d \in dangling /\ (d[1] # at \/ d[2] \in SsaValues(g))
  BY DEF StillDangling
<1>3. QED
  BY <1>1, <1>2, RewritingKeeps

\* A rewriting inside the loop of run_optim that replaces a value.
LEMMA ReplacingKeeps ==
  ASSUME OptInv, NEW g, FitsExactly(g, This, Names(module)), ~Loose, stage = "scalar",
         NEW v, Replacing(v, g)
  PROVE  OptInv'
<1>1. /\ module' = [module EXCEPT ![at] = g] /\ dangling' = StillDangling(g)
      /\ stage' = stage \/ stage' = "undefined"
      /\ UNCHANGED <<expected, at, pass, round, iteration, stale>>
      /\ inRound' => changed'
  BY DEF Replacing, Rewrite
<1>2. stage \notin {"globals", "inlining"}
  OBVIOUS
<1>3. QED
  BY <1>1, <1>2, ExactKeeps

LEMMA ReplaceValueKeeps ==
  ASSUME OptInv, ~Loose, stage = "scalar", NEW v, NEW w, ReplaceValue(v, w)
  PROVE  OptInv'
<1>1. FitsExactly(Substitute(This, v, w), This, Names(module))
  BY ThisIs, SubstituteFits
<1>2. Replacing(v, Substitute(This, v, w))
  BY DEF ReplaceValue
<1>3. QED
  BY <1>1, <1>2, ReplacingKeeps

LEMMA RewriteOnlyKeeps ==
  ASSUME OptInv, NEW g, FitsExactly(g, This, Names(module)), ~Loose, RewriteOnly(g),
         stage \in {"globals", "inlining"} => WithoutPhis(g)
  PROVE  OptInv'
<1>1. /\ module' = [module EXCEPT ![at] = g] /\ dangling' = StillDangling(g)
      /\ stage' = stage
      /\ UNCHANGED <<expected, at, pass, round, iteration, stale>>
      /\ inRound' => changed'
  BY DEF RewriteOnly, Rewrite
<1>2. QED
  BY <1>1, ExactKeeps

-----------------------------------------------------------------------------
(* The steps before run_optim's loop. *)

\* Finitely many things have finitely many images.
LEMMA FewImages ==
  ASSUME NEW S, IsFiniteSet(S), NEW e, e = [x \in S |-> e[x]],
         NEW T, \A y \in T : \E x \in S : y = e[x]
  PROVE  IsFiniteSet(T)
<1> DEFINE all == {e[x] : x \in S}
<1>1. T \subseteq all
  OBVIOUS
<1>2. e \in Surjection(S, all)
  BY DEF Surjection
<1> HIDE DEF all
<1>3. IsFiniteSet(all)
  BY <1>2, FS_Surjection
<1>4. QED
  BY <1>1, <1>3, FS_Subset

\* Values are numbered, and there are finitely many.
LEMMA NumbersAre ==
  ASSUME NEW f, NEW names, FunctionOk(f, names)
  PROVE  IsFiniteSet({v[2] : v \in Results(f)}) /\ {v[2] : v \in Results(f)} \subseteq Nat
<1> DEFINE numbers == {v[2] : v \in Results(f)}
           e == [s \in Sites(f) |-> At(f, s).res[2]]
<1>1. ASSUME NEW s \in Sites(f) PROVE At(f, s).res = NoValue \/ At(f, s).res \in ValueNames
  <2>1. InstOk(At(f, s), names)
    BY SiteIs
  <2>2. QED
    BY <2>1 DEF InstOk, Named
<1>2. numbers \subseteq Nat
  <2>1. Results(f) \subseteq ValueNames
    BY <1>1 DEF Results
  <2>2. QED
    BY <2>1, NamedIs
<1>3. IsFiniteSet(Sites(f))
  BY SitesFinite
<1>4. e = [s \in Sites(f) |-> e[s]] /\ \A y \in numbers : \E s \in Sites(f) : y = e[s]
  BY DEF Results
<1> HIDE DEF e, numbers
<1>5. IsFiniteSet(numbers)
  BY <1>3, <1>4, FewImages
<1>6. QED
  BY <1>2, <1>5 DEF numbers

\* There is always a number no value has.
LEMMA FreshIdIs ==
  ASSUME NEW m, ModuleOk(m)
  PROVE  FreshId(m) \in Nat
<1> DEFINE numbers(i) == {v[2] : v \in Results(m[i])}
           e == [i \in DOMAIN m |-> numbers(i)]
           all == {numbers(i) : i \in DOMAIN m}
           S == {0} \cup UNION all
<1>1. FreshId(m) = 1 + Max(S)
  BY DEF FreshId
<1>2. ASSUME NEW i \in DOMAIN m PROVE IsFiniteSet(numbers(i)) /\ numbers(i) \subseteq Nat
  BY NumbersAre DEF ModuleOk
<1>3. IsFiniteSet(DOMAIN m)
  <2>1. Len(m) \in Nat /\ DOMAIN m = 1 .. Len(m)
    BY Places DEF ModuleOk
  <2>2. QED
    BY <2>1, FS_Interval
<1>4. e = [i \in DOMAIN m |-> e[i]] /\ \A T \in all : \E i \in DOMAIN m : T = e[i]
  OBVIOUS
<1>5. (\A T \in all : IsFiniteSet(T)) /\ UNION all \subseteq Nat
  BY <1>2
<1> HIDE DEF e, all
<1>6. IsFiniteSet(all)
  BY <1>3, <1>4, FewImages
<1>7. IsFiniteSet(UNION all)
  BY <1>5, <1>6, FS_UNION
<1>8. IsFiniteSet({0})
  BY FS_Singleton
<1>9. S \in SUBSET Nat /\ IsFiniteSet(S) /\ S # {}
  <2> DEFINE U == UNION all
  <2>1. U \subseteq Nat /\ IsFiniteSet(U)
    BY <1>5, <1>7
  <2> HIDE DEF U
  <2>2. IsFiniteSet({0} \cup U)
    BY <1>8, <2>1, FS_Union
  <2>3. {0} \cup U \in SUBSET Nat /\ {0} \cup U # {}
    BY <2>1
  <2>4. QED
    BY <2>2, <2>3 DEF U
<1> HIDE DEF S
<1>10. \E x \in S : \A n \in S : n <= x
  BY <1>9, GreatestIs
<1>11. \E x \in S : \A n \in S : x >= n
  BY <1>9, <1>10
<1>12. Max(S) \in S
  BY <1>11 DEF Max
<1>13. Max(S) \in Nat
  BY <1>9, <1>12
<1> DEFINE x == Max(S)
<1>14. x \in Nat /\ FreshId(m) = 1 + x
  BY <1>1, <1>13
<1> HIDE DEF x
<1>15. QED
  BY <1>14

LEMMA LocalizeKeeps ==
  ASSUME OptInv, NEW x, Localize(x)
  PROVE  OptInv'
<1> DEFINE g == LocalizeGlobal(This, x, FreshId(module))
<1>1. /\ stage = "globals" /\ x \in Localizable(module, This)
      /\ module' = [module EXCEPT ![at] = g] /\ dangling' = dangling /\ stage' = stage
      /\ UNCHANGED <<expected, at, pass, round, iteration, stale>>
      /\ inRound' => changed'
  BY DEF Localize, Rewrite
<1> HIDE DEF g
<1>5. FreshId(module) \in Nat
  BY ThisIs, FreshIdIs
<1>2. FitsExactly(g, This, Names(module)) /\ WithoutPhis(g)
  BY <1>1, <1>5, ThisIs, LocalizeFits DEF g
<1>3. ~Loose /\ dangling' = {}
  BY <1>1, ThisIs DEF Loose, Running, Early
<1>4. QED
  BY <1>1, <1>2, <1>3, ExactKeeps

LEMMA InlineKeeps ==
  ASSUME OptInv, Inline
  PROVE  OptInv'
<1> DEFINE s == FirstOf(This, Inlinable(module, This))
           callee == FunctionNamed(module, At(This, s).to[1])
           g == InlineCall(This, s, callee, FreshId(module))
<1>1. stage = "inlining" /\ Inlinable(module, This) # {} /\ RewriteOnly(g)
  BY DEF Inline
<1>2. s \in Inlinable(module, This) /\ Inlinable(module, This) \subseteq Sites(This)
  <2>1. Inlinable(module, This) \in SUBSET Sites(This)
    BY DEF Inlinable, SitesWith
  <2>2. QED
    BY <1>1, <2>1, ThisIs, FirstIs
<1> HIDE DEF s
<1>3. s \in Sites(This) /\ At(This, s).op = "call" /\ InlineSafe(callee)
  BY <1>2 DEF Inlinable, SitesWith
<1>4. FunctionOk(callee, Names(module))
  BY <1>3, ThisIs DEF ModuleOk
<1> HIDE DEF callee
<1>8. FreshId(module) \in Nat
  BY ThisIs, FreshIdIs
<1>5. FitsExactly(g, This, Names(module)) /\ WithoutPhis(g)
  BY <1>1, <1>3, <1>4, <1>8, ThisIs, InlineCallFits
<1>6. ~Loose
  BY <1>1 DEF Loose, Running
<1> HIDE DEF g
<1>7. QED
  BY <1>1, <1>5, <1>6, RewriteOnlyKeeps

LEMMA PromoteLocalsKeeps ==
  ASSUME OptInv, PromoteLocals
  PROVE  OptInv'
<1> DEFINE g == Promote(This, FreshId(module))
<1>1. stage = "promoting" /\ RewriteOnly(g)
  BY DEF PromoteLocals
<1>2. FitsExactly(g, This, Names(module))
  BY ThisIs, FreshIdIs, PromoteFits
<1>3. ~Loose /\ stage \notin {"globals", "inlining"}
  BY <1>1 DEF Loose, Running
<1> HIDE DEF g
<1>4. QED
  BY <1>1, <1>2, <1>3, RewriteOnlyKeeps

LEMMA InlineStraightLineKeeps ==
  ASSUME OptInv, InlineStraightLine
  PROVE  OptInv'
<1> DEFINE calls == StraightCalls(module, This, inserted, budget)
           s == FirstOf(This, calls)
           callee == FunctionNamed(module, At(This, s).to[1])
           g == InlineStraight(This, s, callee, FreshId(module))
<1>1. /\ stage = "straight" /\ calls # {} /\ module' = [module EXCEPT ![at] = g]
      /\ UNCHANGED <<expected, control, flags, history>>
  BY DEF InlineStraightLine
<1>2. s \in calls /\ calls \subseteq Sites(This)
  <2>1. calls \in SUBSET Sites(This)
    BY DEF StraightCalls, SitesWith
  <2> HIDE DEF calls
  <2>2. QED
    BY <1>1, <2>1, ThisIs, FirstIs
<1> HIDE DEF s
<1>3. s \in Sites(This) /\ At(This, s).op = "call" /\ Straight(callee)
  BY <1>2 DEF StraightCalls, SitesWith
<1>4. FunctionOk(callee, Names(module))
  BY <1>3, ThisIs DEF ModuleOk
<1> HIDE DEF callee
<1>5. FitsExactly(g, This, Names(module))
  BY <1>3, <1>4, ThisIs, FreshIdIs, InlineStraightFits
<1> HIDE DEF g
<1>6. ~Loose /\ stage \notin {"globals", "inlining"} /\ dangling = {}
  BY <1>1, ThisIs DEF Loose, Running, Early
<1>7. /\ stage' = stage /\ dangling' = {}
      /\ UNCHANGED <<expected, at, pass, round, iteration, stale>>
  BY <1>1, <1>6 DEF control, history
<1>8. inRound' => changed'
  BY <1>1 DEF flags, OptInv, ControlOk
<1>9. QED
  BY <1>1, <1>5, <1>6, <1>7, <1>8, ExactKeeps

LEMMA TailCallsKeeps ==
  ASSUME OptInv, TailCalls
  PROVE  OptInv'
<1> DEFINE g == EliminateTailRecursion(This, FreshId(module))
<1>1. stage = "tail" /\ RewriteOnly(g)
  BY DEF TailCalls
<1>2. FitsExactly(g, This, Names(module))
  BY ThisIs, FreshIdIs, EliminateTailRecursionFits
<1>3. ~Loose /\ stage \notin {"globals", "inlining"}
  BY <1>1 DEF Loose, Running
<1> HIDE DEF g
<1>4. QED
  BY <1>1, <1>2, <1>3, RewriteOnlyKeeps


-----------------------------------------------------------------------------
(* The steps of run_optim's loop. *)

\* The passes that leave edges alone, or the entries of phis right.
LEMMA NotLoose ==
  ASSUME NEW p, Running(p), p \notin {"branches", "unreachable"}
  PROVE  ~Loose /\ stage = "scalar"
BY DEF Loose, Running

\* The driver stops.
LEMMA StoppingKeeps ==
  ASSUME OptInv, ~Loose, stage' \in {"trapped", "undefined", "done"},
         UNCHANGED <<module, expected, at, pass, round, iteration, flags, history>>
  PROVE  OptInv'
<1>1. ControlOk'
  BY DEF OptInv, ControlOk, flags
<1>2. UNCHANGED <<module, expected, dangling, stale>>
  BY DEF history
<1>3. ~Early' /\ stage' \notin {"globals", "inlining"}
  BY DEF Early
<1>4. QED
  BY <1>1, <1>2, <1>3, MovingKeeps

LEMMA FoldConstantKeeps ==
  ASSUME OptInv, FoldConstant
  PROVE  OptInv'
<1> DEFINE inst == At(This, FirstOf(This, {s \in Sites(This) : Foldable(At(This, s))}))
<1>1. /\ Running("constprop")
      /\ \/ stage' = "trapped"
            /\ UNCHANGED <<module, expected, at, pass, round, iteration, flags, history>>
         \/ ReplaceValue(inst.res, Folded(inst))
  BY DEF FoldConstant, history
<1> HIDE DEF inst
<1>2. ~Loose /\ stage = "scalar"
  BY <1>1, NotLoose
<1>3. CASE ReplaceValue(inst.res, Folded(inst))
  BY <1>2, <1>3, ReplaceValueKeeps
<1>4. CASE /\ stage' = "trapped"
           /\ UNCHANGED <<module, expected, at, pass, round, iteration, flags, history>>
  BY <1>2, <1>4, StoppingKeeps
<1>5. QED
  BY <1>1, <1>3, <1>4

LEMMA FoldConstantBranchKeeps ==
  ASSUME OptInv, FoldConstantBranch
  PROVE  OptInv'
<1> DEFINE s == FirstOf(This, ConstantBranches(This))
           g == FoldBranch(This, s)
<1>1. Running("branches") /\ ConstantBranches(This) # {} /\ RewriteOnly(g)
  BY DEF FoldConstantBranch
<1>2. s \in ConstantBranches(This)
  <2>1. ConstantBranches(This) \in SUBSET Sites(This)
    BY DEF ConstantBranches, SitesWith
  <2>2. QED
    BY <1>1, <2>1, ThisIs, FirstIs
<1> HIDE DEF s
<1>3. Fits(g, This, Names(module))
  BY <1>2, ThisIs, FoldBranchFits
<1> HIDE DEF g
<1>4. Loose /\ stage = "scalar"
  BY <1>1 DEF Loose, Running
<1>5. /\ module' = [module EXCEPT ![at] = g] /\ dangling' = StillDangling(g)
      /\ stage' = stage
      /\ UNCHANGED <<expected, at, pass, round, iteration, stale>>
      /\ inRound' => changed'
  BY <1>1 DEF RewriteOnly, Rewrite
<1>6. \A d \in dangling' : d \in dangling /\ (d[1] # at \/ d[2] \in SsaValues(g))
  BY <1>5 DEF StillDangling
<1>7. Keeps(g, This, Names(module)) /\ (Tidy(This) => Tidy(g))
  BY <1>3 DEF Fits
<1>8. QED
  BY <1>4, <1>5, <1>6, <1>7, RewritingKeeps

LEMMA EraseUnreachableKeeps ==
  ASSUME OptInv, EraseUnreachable
  PROVE  OptInv'
<1> DEFINE g == RemoveUnreachable(This)
<1>1. /\ Running("unreachable") /\ Rewrite(g) /\ stage' = stage
      /\ dangling' = StillDangling(g) \cup ({at} \X LeftDangling(This))
  BY DEF EraseUnreachable
<1>2. LeftDangling(This) \subseteq SsaValues(g)
  <2> DEFINE read == UNION {ToSet(At(This, s).args) :
                              s \in {z \in Sites(This) : z[1] \notin Reachable(This)}}
  <2>1. LeftDangling(This) = read \cap SsaValues(g)
    BY DEF LeftDangling
  <2> HIDE DEF read, g
  <2>2. QED
    BY <2>1
<1>3. Fits(g, This, Names(module))
  BY ThisIs, RemoveUnreachableFits
<1> HIDE DEF g
<1>4. Loose /\ stage = "scalar"
  BY <1>1 DEF Loose, Running
<1>5. /\ module' = [module EXCEPT ![at] = g]
      /\ UNCHANGED <<expected, at, pass, round, iteration, stale>>
      /\ inRound' => changed'
  BY <1>1 DEF Rewrite
<1>6. \A d \in dangling' : \/ d \in dangling /\ (d[1] # at \/ d[2] \in SsaValues(g))
                           \/ d[1] = at /\ d[2] \in SsaValues(g) /\ stage = "scalar"
  <2> SUFFICES ASSUME NEW d \in dangling'
               PROVE  \/ d \in dangling /\ (d[1] # at \/ d[2] \in SsaValues(g))
                      \/ d[1] = at /\ d[2] \in SsaValues(g)
    BY <1>4
  <2>1. CASE d \in StillDangling(g)
    BY <2>1 DEF StillDangling
  <2>2. CASE d \in {at} \X LeftDangling(This)
    BY <1>2, <2>2
  <2>3. QED
    BY <1>1, <2>1, <2>2
<1>7. Keeps(g, This, Names(module)) /\ (Tidy(This) => Tidy(g))
  BY <1>3 DEF Fits
<1>8. QED
  BY <1>1, <1>4, <1>5, <1>6, <1>7, RewritingKeeps

LEMMA SimplifyPhiKeeps ==
  ASSUME OptInv, SimplifyPhi
  PROVE  OptInv'
<1> DEFINE phi == At(This, FirstOf(This, RedundantPhis(This)))
<1>1. Running("phis") /\ ReplaceValue(phi.res, phi.args[1])
  BY DEF SimplifyPhi
<1> HIDE DEF phi
<1>2. QED
  BY <1>1, NotLoose, ReplaceValueKeeps

LEMMA MergeKeeps ==
  ASSUME OptInv, Merge
  PROVE  OptInv'
<1> DEFINE g == MergeBlocks(This)
<1>1. Running("blocks") /\ CanMerge(This) /\ RewriteOnly(g)
  BY DEF Merge
<1>2. FitsExactly(g, This, Names(module))
  BY <1>1, ThisIs, MergeBlocksFits
<1> HIDE DEF g
<1>3. ~Loose /\ stage = "scalar" /\ stage \notin {"globals", "inlining"}
  BY <1>1, NotLoose
<1>4. QED
  BY <1>1, <1>2, <1>3, RewriteOnlyKeeps

LEMMA EraseDeadKeeps ==
  ASSUME OptInv, EraseDead
  PROVE  OptInv'
<1> DEFINE g == EraseValues(This, DeadValues(This))
<1>1. Running("dce") /\ RewriteOnly(g)
  BY DEF EraseDead
<1>2. FitsExactly(g, This, Names(module))
  BY ThisIs, EraseValuesFits
<1> HIDE DEF g
<1>3. ~Loose /\ stage = "scalar" /\ stage \notin {"globals", "inlining"}
  BY <1>1, NotLoose
<1>4. QED
  BY <1>1, <1>2, <1>3, RewriteOnlyKeeps

LEMMA SimplifyKeeps ==
  ASSUME OptInv, Simplify
  PROVE  OptInv'
<1> DEFINE inst == At(This, FirstOf(This, ToSimplify))
           v == CHOOSE v \in Simpler(This, inst) : TRUE
<1>1. Running("algebraic") /\ ReplaceValue(inst.res, v)
  BY DEF Simplify
<1> HIDE DEF inst, v
<1>2. QED
  BY <1>1, NotLoose, ReplaceValueKeeps

LEMMA ReduceMultiplicationsKeeps ==
  ASSUME OptInv, ReduceMultiplications
  PROVE  OptInv'
<1> DEFINE s == FirstOf(This, Multiplications(This))
           g == ReduceMultiplication(This, s)
           v == At(This, s).res
<1>1. Running("multiplications") /\ Multiplications(This) # {} /\ Replacing(v, g)
  BY DEF ReduceMultiplications
<1>2. s \in Multiplications(This)
  <2>1. Multiplications(This) \in SUBSET Sites(This)
    BY DEF Multiplications, SitesWith
  <2>2. QED
    BY <1>1, <2>1, ThisIs, FirstIs
<1> HIDE DEF s
<1>3. FitsExactly(g, This, Names(module))
  BY <1>2, ThisIs, ReduceMultiplicationFits
<1> HIDE DEF g, v
<1>4. QED
  BY <1>1, <1>3, NotLoose, ReplacingKeeps

LEMMA FollowErasedUserKeeps ==
  ASSUME OptInv, FollowErasedUser
  PROVE  OptInv'
<1>1. /\ Running("divisions") /\ stage' = "undefined"
      /\ UNCHANGED <<module, expected, at, pass, round, iteration, flags, history>>
  BY DEF FollowErasedUser
<1>2. ~Loose
  BY <1>1, NotLoose
<1>3. QED
  BY <1>1, <1>2, StoppingKeeps

LEMMA ReduceDivisionsKeeps ==
  ASSUME OptInv, ReduceDivisions
  PROVE  OptInv'
<1> DEFINE s == FirstOf(This, Divisions(This))
           g == ReduceDivision(This, s)
           v == At(This, s).res
<1>1. Running("divisions") /\ Divisions(This) # {} /\ Replacing(v, g)
  BY DEF ReduceDivisions
<1>2. s \in Divisions(This)
  <2>1. Divisions(This) \in SUBSET Sites(This)
    BY DEF Divisions, SitesWith
  <2>2. QED
    BY <1>1, <2>1, ThisIs, FirstIs
<1> HIDE DEF s
<1>3. FitsExactly(g, This, Names(module))
  BY <1>2, ThisIs, ReduceDivisionFits
<1> HIDE DEF g, v
<1>4. QED
  BY <1>1, <1>3, NotLoose, ReplacingKeeps

LEMMA HoistKeeps ==
  ASSUME OptInv, NEW h, Hoist(h)
  PROVE  OptInv'
<1> DEFINE g == HoistInvariants(This, h)
<1>1. /\ Running("licm") /\ h \in LoopsLeft /\ Rewrite(g) /\ dangling' = StillDangling(g)
      /\ stage' = stage
  BY DEF Hoist
<1>2. Preheaders(This, h) # {}
  BY <1>1 DEF LoopsLeft
<1>3. FitsExactly(g, This, Names(module))
  BY <1>2, ThisIs, HoistFits
<1> HIDE DEF g
<1>4. ~Loose /\ stage = "scalar" /\ stage \notin {"globals", "inlining"}
  BY <1>1, NotLoose
<1>5. /\ module' = [module EXCEPT ![at] = g] /\ (inRound' => changed')
      /\ UNCHANGED <<expected, at, pass, round, iteration, stale>>
  BY <1>1 DEF Rewrite
<1>6. QED
  BY <1>1, <1>3, <1>4, <1>5, ExactKeeps

LEMMA NumberKeeps ==
  ASSUME OptInv, Number
  PROVE  OptInv'
<1> DEFINE s == FirstOf(This, Repeated(This))
           v == At(This, s).res
           w == At(This, Original(This, s)).res
<1>1. Running("gvn") /\ ReplaceValue(v, w)
  BY DEF Number
<1> HIDE DEF v, w
<1>2. QED
  BY <1>1, NotLoose, ReplaceValueKeeps

-----------------------------------------------------------------------------
(* The theorems. *)

\* It holds of the module IR generation has made.
LEMMA OptInit ==
  ASSUME Init
  PROVE  OptInv
<1>1. module \in Modules
  BY DEF Init
<1>2. /\ IsSequence(module) /\ module # << >>
      /\ \A i \in DOMAIN module : FunctionOk(module[i], Names(module)) /\ WithoutPhis(module[i])
  BY <1>1, ModulesAssumption
<1>3. \A i \in DOMAIN module : Covered(module[i]) /\ Tidy(module[i]) /\ Tight(module[i])
  BY <1>2, NoPhisFit
<1>4. Len(module) \in Nat \ {0} /\ DOMAIN module = 1 .. Len(module)
  BY <1>2, Places
<1>5. ModuleOk(module)
  BY <1>2, <1>3 DEF ModuleOk
<1>6. ControlOk
  BY <1>4 DEF Init, ControlOk, MaxRounds, MaxIterations
<1>7. DOMAIN expected = Calls(module) /\ dangling = {}
  BY DEF Init, Outcomes
<1>8. QED
  BY <1>2, <1>3, <1>5, <1>6, <1>7 DEF OptInv, DanglingOk, EntriesOk

\* Every step keeps it.
LEMMA OptStep ==
  ASSUME OptInv, [Next]_vars
  PROVE  OptInv'
<1>1. CASE UNCHANGED vars
  BY <1>1 DEF vars, control, flags, history, OptInv, ModuleOk, ControlOk, DanglingOk, EntriesOk,
              Early, Loose, Running
<1>2. ASSUME NEW x \in GlobalsOf(This), Localize(x) PROVE OptInv'
  BY <1>2, LocalizeKeeps
<1>3. CASE GlobalsDone
  <2>1. stage = "globals" /\ NextFunction("inlining")
    BY <1>3 DEF GlobalsDone
  <2>2. QED
    BY <2>1, NextFunctionKeeps DEF Early
<1>4. CASE Inline
  BY <1>4, InlineKeeps
<1>5. CASE InliningDone
  <2>1. stage = "inlining" /\ NextFunction("promoting")
    BY <1>5 DEF InliningDone
  <2>2. QED
    BY <2>1, NextFunctionKeeps DEF Early
<1>6. CASE PromoteLocals
  BY <1>6, PromoteLocalsKeeps
<1>7. CASE PromotingDone
  <2>1. stage = "promoting" /\ NextFunction("straight")
    BY <1>7 DEF PromotingDone
  <2>2. QED
    BY <2>1, NextFunctionKeeps DEF Early
<1>8. CASE InlineStraightLine
  BY <1>8, InlineStraightLineKeeps
<1>9. CASE StraightDone
  <2>1. stage = "straight" /\ NextFunction("tail")
    BY <1>9 DEF StraightDone
  <2>2. QED
    BY <2>1, NextFunctionKeeps DEF Early
<1>10. CASE TailCalls
  BY <1>10, TailCallsKeeps
<1>11. CASE TailDone
  <2>1. stage = "tail" /\ NextFunction("scalar")
    BY <1>11 DEF TailDone
  <2>2. QED
    BY <2>1, NextFunctionKeeps DEF Early
<1>12. CASE FoldConstant
  BY <1>12, FoldConstantKeeps
<1>13. CASE FoldConstantBranch
  BY <1>13, FoldConstantBranchKeeps
<1>14. CASE EraseUnreachable
  BY <1>14, EraseUnreachableKeeps
<1>15. CASE SimplifyPhi
  BY <1>15, SimplifyPhiKeeps
<1>16. CASE Merge
  BY <1>16, MergeKeeps
<1>17. CASE EraseDead
  BY <1>17, EraseDeadKeeps
<1>18. CASE Simplify
  BY <1>18, SimplifyKeeps
<1>19. CASE ReduceMultiplications
  BY <1>19, ReduceMultiplicationsKeeps
<1>20. CASE FollowErasedUser
  BY <1>20, FollowErasedUserKeeps
<1>21. CASE ReduceDivisions
  BY <1>21, ReduceDivisionsKeeps
<1>22. ASSUME NEW h \in Blocks(This), Hoist(h) PROVE OptInv'
  BY <1>22, HoistKeeps
<1>23. CASE Number
  BY <1>23, NumberKeeps
<1>24. CASE NextPass
  BY <1>24, NextPassKeeps
<1>25. CASE Over
  BY <1>1, <1>25 DEF Over
<1>26. QED
  BY <1>1, <1>2, <1>3, <1>4, <1>5, <1>6, <1>7, <1>8, <1>9, <1>10, <1>11, <1>12, <1>13, <1>14,
     <1>15, <1>16, <1>17, <1>18, <1>19, <1>20, <1>21, <1>22, <1>23, <1>24, <1>25 DEF Next


THEOREM OptInvAlways == Spec => []OptInv
<1>1. Init => OptInv
  BY OptInit
<1>2. OptInv /\ [Next]_vars => OptInv'
  BY OptStep
<1>3. QED
  BY <1>1, <1>2, PTL DEF Spec

\* The state of the driver is what it should be; in particular no use list of a
\* value that is gone is kept, and the stages and passes stay within their
\* bounds (build_ir, run_optim).
THEOREM OptimiserTypeCorrect == Spec => []TypeOK
<1>1. OptInv => TypeOK
  <2> SUFFICES ASSUME OptInv PROVE TypeOK
    OBVIOUS
  <2>1. ControlOk /\ DanglingOk /\ ModuleOk(module) /\ DOMAIN expected = Calls(module)
    BY DEF OptInv
  <2>2. pass \in DOMAIN Passes
    BY <2>1, PassesAre DEF ControlOk
  <2>3. ASSUME NEW i \in DOMAIN module, NEW b \in Blocks(module[i]) PROVE b < module[i].next
    <3>1. FunctionOk(module[i], Names(module))
      BY <2>1 DEF ModuleOk
    <3>2. module[i].next \in Nat /\ b \in 0 .. module[i].next - 1
      BY <3>1 DEF FunctionOk
    <3>3. QED
      BY <3>2
  <2>4. QED
    BY <2>1, <2>2, <2>3 DEF TypeOK, ControlOk, DanglingOk
<1>2. QED
  BY <1>1, OptInvAlways, PTL

\* Whatever the passes do, every function of the module stays one: blocks end
\* where they branch or return, phis come first, nothing branches to the entry
\* or to a block that is not there, every block is in the list once, and every
\* call is of a function of the module (what ir_builder and the passes of
\* optim.cpp and inliner.cpp rely on).
WellFormedModule == \A i \in DOMAIN module : FunctionOk(module[i], Names(module))

THEOREM ModuleStaysWellFormed == Spec => []WellFormedModule
<1>1. OptInv => WellFormedModule
  BY DEF OptInv, ModuleOk, WellFormedModule
<1>2. QED
  BY <1>1, OptInvAlways, PTL

\* At any time, stale entries or not, every phi has an entry for every edge into
\* its block: codegen, which takes the first entry for an edge, finds one
\* (phi_incoming_for_edge in codegen.cpp).
NoEntryMissing ==
  \A i \in DOMAIN module : \A b \in Blocks(module[i]) : \A phi \in Phis(module[i], b) :
    \A p \in PredsOf(module[i], b) : HasIncoming(phi, p)

THEOREM EveryEdgeHasEntry == Spec => []NoEntryMissing
<1>1. OptInv => NoEntryMissing
  <2> SUFFICES ASSUME OptInv, NEW i \in DOMAIN module, NEW b \in Blocks(module[i]),
                      NEW phi \in Phis(module[i], b), NEW p \in PredsOf(module[i], b)
               PROVE  HasIncoming(phi, p)
    BY DEF NoEntryMissing
  <2> DEFINE f == module[i]
  <2>1. FunctionOk(f, Names(module)) /\ Covered(f)
    BY DEF OptInv, ModuleOk
  <2>2. BlockOk(f.blocks[b], Names(module))
    BY <2>1 DEF FunctionOk
  <2>3. phi.to \in Tos(f.blocks[b])
    BY <2>2, PhisAre
  <2>4. p \in ToSet(phi.to)
    BY <2>1, <2>3 DEF Covered
  <2>5. QED
    BY <2>4 DEF ToSet, HasIncoming
<1>2. QED
  BY <1>1, OptInvAlways, PTL

\* The entries of a phi, when they name the edges and each once, are as many.
LEMMA ExactlyMatches ==
  ASSUME NEW f, NEW names, FunctionOk(f, names), Covered(f), Tidy(f), Tight(f)
  PROVE  PhisMatchEdges(f)
<1> SUFFICES ASSUME NEW b \in Blocks(f), NEW phi \in Phis(f, b)
             PROVE  /\ ToSet(phi.to) = PredsOf(f, b)
                    /\ Len(phi.to) = Cardinality(PredsOf(f, b))
  BY DEF PhisMatchEdges
<1> DEFINE t == phi.to
           n == Len(t)
           S == PredsOf(f, b)
<1>1. t \in Tos(f.blocks[b])
  <2>1. BlockOk(f.blocks[b], names)
    BY DEF FunctionOk
  <2>2. QED
    BY <2>1, PhisAre
<1>2. IsSequence(t) /\ S \subseteq ToSet(t)
  BY <1>1 DEF Covered
<1>3. (\A i, j \in DOMAIN t : t[i] = t[j] => i = j) /\ ToSet(t) \subseteq S
  BY <1>1 DEF Tidy, Tight
<1> HIDE DEF t, S
<1>4. ToSet(t) = S
  BY <1>2, <1>3
<1>5. n \in Nat /\ DOMAIN t = 1 .. n /\ t = [i \in 1 .. n |-> t[i]]
  BY <1>2, Places DEF IsSequence
<1> HIDE DEF n
<1>6. t \in Bijection(1 .. n, S)
  <2>1. \A i \in 1 .. n : t[i] \in S
    BY <1>4, <1>5 DEF ToSet
  <2>2. t \in [1 .. n -> S]
    BY <1>5, <2>1
  <2>3. \A x \in S : \E i \in 1 .. n : t[i] = x
    BY <1>4, <1>5 DEF ToSet
  <2>4. \A i, j \in 1 .. n : t[i] = t[j] => i = j
    BY <1>3, <1>5
  <2>5. QED
    BY <2>2, <2>3, <2>4 DEF Bijection, Injection, Surjection, IsInjective
<1>7. Cardinality(S) = n
  <2>1. IsFiniteSet(1 .. n) /\ Cardinality(1 .. n) = n
    BY <1>5, FS_Interval
  <2>2. QED
    BY <1>6, <2>1, FS_Bijection DEF ExistsBijection
<1>8. QED
  BY <1>4, <1>7 DEF n, t, S

\* Phis have one entry for each edge after any number of rewritings of any
\* module, as long as no entry has gone stale (reorder_incoming, mem2reg's
\* fill, and the passes of optim.cpp that retarget phis).
THEOREM EntriesAlwaysExact == Spec => []EntriesExact
<1>1. OptInv => EntriesExact
  <2> SUFFICES ASSUME OptInv, Exact, ~Loose, NEW i \in DOMAIN module
               PROVE  PhisMatchEdges(module[i])
    BY DEF EntriesExact, Loose
  <2>1. FunctionOk(module[i], Names(module)) /\ Covered(module[i])
    BY DEF OptInv, ModuleOk
  <2>2. Tidy(module[i]) /\ Tight(module[i])
    BY DEF OptInv, EntriesOk, Exact
  <2>3. QED
    BY <2>1, <2>2, ExactlyMatches
<1>2. QED
  BY <1>1, OptInvAlways, PTL
-----------------------------------------------------------------------------
(* The work that is left. *)

\* As many members at most, and fewer if one is left out.
LEMMA FewerOf ==
  ASSUME NEW S, NEW T, IsFiniteSet(T), NEW e \in [S -> T],
         \A x, y \in S : e[x] = e[y] => x = y
  PROVE  /\ Cardinality(S) \in Nat /\ Cardinality(T) \in Nat
         /\ Cardinality(S) <= Cardinality(T)
         /\ \A z \in T : (\A x \in S : e[x] # z) => Cardinality(S) < Cardinality(T)
<1>1. e \in Injection(S, T)
  BY DEF Injection, IsInjective
<1>2. IsFiniteSet(S) /\ Cardinality(S) <= Cardinality(T)
  BY <1>1, FS_Injection
<1>3. Cardinality(S) \in Nat /\ Cardinality(T) \in Nat
  BY <1>2, FS_CardinalityType
<1>4. ASSUME NEW z \in T, \A x \in S : e[x] # z PROVE Cardinality(S) < Cardinality(T)
  <2>1. ~(e \in Surjection(S, T))
    BY <1>4 DEF Surjection
  <2>2. Cardinality(S) # Cardinality(T)
    BY <1>1, <2>1, FS_Injection
  <2>3. QED
    BY <1>2, <1>3, <2>2
<1>5. QED
  BY <1>2, <1>3, <1>4

Costly == {"condbr", "mul", "div", "rem"}

\* Every instruction of g comes from one of f of its own, which is costly if it
\* is, and every block is one of f.
Comes(g, f, e) ==
  /\ e \in [Sites(g) -> Sites(f)]
  /\ \A t, u \in Sites(g) : e[t] = e[u] => t = u
  /\ \A t \in Sites(g) : At(g, t).op \in Costly => At(f, e[t]).op \in Costly
  /\ Blocks(g) \subseteq Blocks(f)

\* A block, an instruction or a costly one is left out.
LeavesOut(g, f, e) ==
  \/ Blocks(g) # Blocks(f)
  \/ \E s \in Sites(f) : \A t \in Sites(g) : e[t] # s
  \/ \E s \in SitesWith(f, Costly) : \A t \in SitesWith(g, Costly) : e[t] # s

LEMMA LessWork ==
  ASSUME NEW f, NEW names, FunctionOk(f, names), NEW g, NEW e, Comes(g, f, e),
         LeavesOut(g, f, e)
  PROVE  Work(g) < Work(f)
<1> DEFINE c == [t \in SitesWith(g, Costly) |-> e[t]]
           i == [b \in Blocks(g) |-> b]
           x == Cardinality(Sites(g))
           y == Cardinality(Blocks(g))
           z == Cardinality(SitesWith(g, Costly))
           l == Cardinality(Sites(f))
           m == Cardinality(Blocks(f))
           n == Cardinality(SitesWith(f, Costly))
<1>1. IsFiniteSet(Sites(f)) /\ IsFiniteSet(Blocks(f)) /\ IsFiniteSet(SitesWith(f, Costly))
  <2>1. IsFiniteSet(Sites(f))
    BY SitesFinite
  <2>2. f.next \in Nat /\ Blocks(f) \subseteq 0 .. f.next - 1
    BY DEF FunctionOk
  <2>3. IsFiniteSet(0 .. f.next - 1)
    <3>1. 0 \in Int /\ f.next - 1 \in Int
      BY <2>2
    <3>2. QED
      BY <3>1, FS_Interval
  <2>4. IsFiniteSet(Blocks(f))
    BY <2>2, <2>3, FS_Subset
  <2>5. SitesWith(f, Costly) \in SUBSET Sites(f)
    BY DEF SitesWith
  <2>6. IsFiniteSet(SitesWith(f, Costly))
    BY <2>1, <2>5, FS_Subset
  <2>7. QED
    BY <2>1, <2>4, <2>6
<1>2. /\ x \in Nat /\ l \in Nat /\ x <= l
      /\ \A s \in Sites(f) : (\A t \in Sites(g) : e[t] # s) => x < l
  BY <1>1, FewerOf DEF Comes
<1>3. /\ c \in [SitesWith(g, Costly) -> SitesWith(f, Costly)]
      /\ \A t, u \in SitesWith(g, Costly) : c[t] = c[u] => t = u
      /\ \A t \in SitesWith(g, Costly) : c[t] = e[t]
  BY DEF Comes, SitesWith
<1>4. i \in [Blocks(g) -> Blocks(f)] /\ \A b \in Blocks(g) : i[b] = b
  BY DEF Comes
<1> HIDE DEF c, i
<1>5. /\ z \in Nat /\ n \in Nat /\ z <= n
      /\ \A s \in SitesWith(f, Costly) : (\A t \in SitesWith(g, Costly) : c[t] # s) => z < n
  BY <1>1, <1>3, FewerOf
<1>6. /\ y \in Nat /\ m \in Nat /\ y <= m
      /\ \A b \in Blocks(f) : (\A a \in Blocks(g) : i[a] # b) => y < m
  BY <1>1, <1>4, FewerOf
<1>7. Blocks(g) # Blocks(f) => y < m
  <2>1. SUFFICES ASSUME Blocks(g) # Blocks(f) PROVE y < m
    OBVIOUS
  <2>2. PICK b \in Blocks(f) : b \notin Blocks(g)
    BY <2>1 DEF Comes
  <2>3. \A a \in Blocks(g) : i[a] # b
    BY <1>4, <2>2
  <2>4. QED
    BY <1>6, <2>3
<1>8. Work(g) = x + y + z /\ Work(f) = l + m + n
  BY DEF Work, Size, Costly
<1>9. x < l \/ y < m \/ z < n
  BY <1>2, <1>3, <1>5, <1>7 DEF LeavesOut
<1> HIDE DEF x, y, z, l, m, n
<1>10. QED
  BY <1>2, <1>5, <1>6, <1>8, <1>9

\* Only the operands of instructions change.
LEMMA SameWork ==
  ASSUME NEW f, NEW names, FunctionOk(f, names), NEW v, NEW w
  PROVE  LET g == ReplaceUses(f, v, w)
         IN  /\ Work(g) = Work(f) /\ Sites(g) = Sites(f)
             /\ \A s \in Sites(f) : At(g, s).op = At(f, s).op /\ At(g, s).res = At(f, s).res
<1> DEFINE args(x) == [k \in DOMAIN x.args |-> IF x.args[k] = v THEN w ELSE x.args[k]]
           B == [b \in DOMAIN f.blocks |-> [i \in DOMAIN f.blocks[b] |->
                   [f.blocks[b][i] EXCEPT !.args = args(f.blocks[b][i])]]]
           g == ReplaceUses(f, v, w)
<1>1. g = [f EXCEPT !.blocks = B]
  BY DEF ReplaceUses
<1> HIDE DEF g, args
<1>2. g.blocks = B /\ Blocks(g) = DOMAIN B
  BY <1>1, BlocksAre
<1>3. /\ DOMAIN B = Blocks(f)
      /\ \A b \in Blocks(f) : /\ DOMAIN B[b] = DOMAIN f.blocks[b]
                              /\ \A i \in DOMAIN f.blocks[b] :
                                   B[b][i] = [f.blocks[b][i] EXCEPT !.args = args(f.blocks[b][i])]
  BY DEF Blocks
<1> HIDE DEF B
<1>4. ASSUME NEW b \in Blocks(f), NEW i \in DOMAIN f.blocks[b]
      PROVE  B[b][i].op = f.blocks[b][i].op /\ B[b][i].res = f.blocks[b][i].res
  <2>1. InstOk(f.blocks[b][i], names)
    BY DEF FunctionOk, BlockOk
  <2> DEFINE x == f.blocks[b][i]
             a == args(x)
             y == [x EXCEPT !.args = a]
  <2>2. B[b][i] = y
    BY <1>3
  <2> HIDE DEF x, a
  <2>3. y.op = x.op /\ y.res = x.res
    BY <2>1, ArgsOnly DEF x
  <2> HIDE DEF y
  <2>4. QED
    BY <2>2, <2>3 DEF x
<1>5. Blocks(g) = Blocks(f) /\ Sites(g) = Sites(f)
  BY <1>2, <1>3 DEF Sites
<1>6. ASSUME NEW s \in Sites(f) PROVE At(g, s).op = At(f, s).op /\ At(g, s).res = At(f, s).res
  <2>1. s[1] \in Blocks(f) /\ s[2] \in DOMAIN f.blocks[s[1]]
    BY SiteIs
  <2>2. QED
    BY <1>2, <1>4, <2>1 DEF At
<1>7. \A ops : SitesWith(g, ops) = SitesWith(f, ops)
  BY <1>5, <1>6 DEF SitesWith
<1>8. Work(g) = Work(f)
  BY <1>5, <1>7 DEF Work, Size
<1>9. QED
  BY <1>5, <1>6, <1>8 DEF g

\* An instruction is gone.
LEMMA ErasingShrinks ==
  ASSUME NEW f, NEW names, FunctionOk(f, names), NEW dead,
         NEW s \in Sites(f), At(f, s).res \in dead, At(f, s).res # NoValue
  PROVE  Work(EraseValues(f, dead)) < Work(f)
<1> DEFINE lives(inst) == inst.res = NoValue \/ inst.res \notin dead
           P(b) == {i \in DOMAIN f.blocks[b] : lives(f.blocks[b][i])}
           B == [b \in DOMAIN f.blocks |-> Picked(f.blocks[b], P(b))]
           g == EraseValues(f, dead)
           from == [b \in Blocks(f) |-> CHOOSE e : Drawn(B[b], f.blocks[b], P(b), e)]
           e == [t \in Sites(g) |-> <<t[1], from[t[1]][t[2]]>>]
<1>1. g = [f EXCEPT !.blocks = B]
  BY DEF EraseValues
<1> HIDE DEF g
<1>2. g.blocks = B /\ Blocks(g) = DOMAIN B
  BY <1>1, BlocksAre
<1>3. DOMAIN B = Blocks(f) /\ \A b \in Blocks(f) : B[b] = Picked(f.blocks[b], P(b))
  BY DEF Blocks
<1>4. /\ \A b \in Blocks(f) : P(b) \in SUBSET DOMAIN f.blocks[b]
      /\ s[1] \in Blocks(f) /\ s[2] \notin P(s[1])
  <2>1. s[1] \in Blocks(f) /\ At(f, s) = f.blocks[s[1]][s[2]]
    BY SiteIs
  <2>2. QED
    BY <2>1
<1> HIDE DEF P, B
<1>5. ASSUME NEW b \in Blocks(f) PROVE Drawn(B[b], f.blocks[b], P(b), from[b])
  <2>1. IsSequence(f.blocks[b])
    BY DEF FunctionOk, BlockOk
  <2>2. \E d : Drawn(B[b], f.blocks[b], P(b), d)
    BY <1>3, <1>4, <2>1, PickedAre
  <2>3. QED
    BY <2>2
<1> HIDE DEF from
<1>6. ASSUME NEW t \in Sites(g)
      PROVE  /\ t = <<t[1], t[2]>> /\ t[1] \in Blocks(f) /\ t[2] \in DOMAIN B[t[1]]
             /\ from[t[1]][t[2]] \in P(t[1]) /\ from[t[1]][t[2]] \in DOMAIN f.blocks[t[1]]
             /\ At(g, t) = f.blocks[t[1]][from[t[1]][t[2]]]
  <2>1. t = <<t[1], t[2]>> /\ t[1] \in Blocks(g) /\ t[2] \in DOMAIN g.blocks[t[1]]
    BY DEF Sites
  <2>2. t[1] \in Blocks(f) /\ t[2] \in DOMAIN B[t[1]] /\ At(g, t) = B[t[1]][t[2]]
    BY <1>2, <1>3, <2>1 DEF At
  <2>3. QED
    BY <1>4, <1>5, <2>1, <2>2 DEF Drawn
<1>7. ASSUME NEW t \in Sites(g)
      PROVE  e[t] \in Sites(f) /\ At(f, e[t]) = At(g, t) /\ e[t] # s
  <2>1. e[t] = <<t[1], from[t[1]][t[2]]>>
    OBVIOUS
  <2> HIDE DEF e
  <2>2. e[t][1] = t[1] /\ e[t][2] = from[t[1]][t[2]]
    BY <2>1
  <2>3. e[t] \in Sites(f)
    BY <1>6, <2>1 DEF Sites
  <2>4. e[t] # s
    BY <1>4, <1>6, <2>2
  <2>5. QED
    BY <1>6, <2>2, <2>3, <2>4 DEF At
<1>8. ASSUME NEW t \in Sites(g), NEW u \in Sites(g), e[t] = e[u] PROVE t = u
  <2>1. t[1] = u[1] /\ from[t[1]][t[2]] = from[u[1]][u[2]]
    BY <1>8
  <2>2. t[1] \in Blocks(f) /\ t[2] \in DOMAIN B[t[1]] /\ u[2] \in DOMAIN B[t[1]]
    BY <1>6, <2>1
  <2>3. IsSequence(B[t[1]])
    BY <1>5, <2>2 DEF Drawn
  <2>4. t[2] \in Nat /\ u[2] \in Nat
    BY <2>2, <2>3, Places
  <2>5. from[t[1]][t[2]] \in Nat
    <3>1. IsSequence(f.blocks[t[1]])
      BY <2>2 DEF FunctionOk, BlockOk
    <3>2. QED
      BY <1>6, <3>1, Places
  <2>6. ~(t[2] < u[2]) /\ ~(u[2] < t[2])
    BY <1>5, <2>1, <2>2, <2>5 DEF Drawn
  <2>7. t[2] = u[2]
    BY <2>4, <2>6
  <2>8. QED
    BY <1>6, <2>1, <2>7
<1> HIDE DEF from
<1>9. e = [t \in Sites(g) |-> e[t]]
  OBVIOUS
<1> HIDE DEF e
<1>10. e \in [Sites(g) -> Sites(f)]
  BY <1>7, <1>9
<1>11. Comes(g, f, e)
  BY <1>2, <1>3, <1>7, <1>8, <1>10 DEF Comes
<1>12. \A t \in Sites(g) : e[t] # s
  BY <1>7
<1>13. Work(g) < Work(f)
  BY <1>11, <1>12, LessWork DEF LeavesOut
<1>14. QED
  BY <1>13 DEF g

\* A value is replaced: the instruction that computes it goes.
LEMMA SubstitutingShrinks ==
  ASSUME NEW f, NEW names, FunctionOk(f, names), Covered(f), NEW s \in Sites(f),
         At(f, s).op \notin Essential, NEW w
  PROVE  Work(Substitute(f, At(f, s).res, w)) < Work(f)
<1> DEFINE v == At(f, s).res
           g == ReplaceUses(f, v, w)
<1>1. v # NoValue
  <2>1. InstOk(At(f, s), names)
    BY SiteIs
  <2>2. QED
    BY <2>1, NamedIs DEF InstOk
<1> HIDE DEF v
<1>2. FunctionOk(g, names)
  BY ReplaceUsesFits DEF FitsExactly, Keeps
<1>3. Work(g) = Work(f) /\ s \in Sites(g) /\ At(g, s).res = v
  BY SameWork DEF v
<1> HIDE DEF g
<1>4. Work(EraseValues(g, {v})) < Work(g)
  BY <1>1, <1>2, <1>3, ErasingShrinks
<1>5. QED
  BY <1>3, <1>4 DEF Substitute, g, v

\* A costly instruction becomes one that is not.
LEMMA CheaperShrinks ==
  ASSUME NEW f, NEW names, FunctionOk(f, names), NEW s \in Sites(f),
         At(f, s).op \in Costly, NEW x, x.op \notin Costly
  PROVE  Work(SetInst(f, s, x)) < Work(f)
<1> DEFINE b == s[1]
           block == f.blocks[b]
           t == [block EXCEPT ![s[2]] = x]
           B == [f.blocks EXCEPT ![b] = t]
           g == SetInst(f, s, x)
           e == [u \in Sites(g) |-> u]
<1>1. s = <<s[1], s[2]>> /\ b \in Blocks(f) /\ s[2] \in DOMAIN block /\ BlockOk(block, names)
  BY SiteIs
<1>2. g = [f EXCEPT !.blocks = B]
  BY DEF SetInst
<1>3. DOMAIN t = DOMAIN block /\ t[s[2]] = x /\ \A i \in DOMAIN block \ {s[2]} : t[i] = block[i]
  BY <1>1
<1>4. DOMAIN B = Blocks(f) /\ B[b] = t /\ \A c \in Blocks(f) \ {b} : B[c] = f.blocks[c]
  BY <1>1 DEF Blocks
<1> HIDE DEF g, t, B
<1>5. g.blocks = B /\ Blocks(g) = Blocks(f)
  BY <1>2, <1>4, BlocksAre
<1>6. \A c \in Blocks(f) : DOMAIN B[c] = DOMAIN f.blocks[c]
  BY <1>3, <1>4
<1>7. Sites(g) = Sites(f)
  BY <1>5, <1>6 DEF Sites
<1>8. At(g, s) = x
  BY <1>3, <1>4, <1>5 DEF At
<1>9. ASSUME NEW u \in Sites(f), u # s PROVE At(g, u) = At(f, u)
  <2>1. u = <<u[1], u[2]>> /\ u[1] \in Blocks(f) /\ u[2] \in DOMAIN f.blocks[u[1]]
    BY SiteIs
  <2>2. CASE u[1] # b
    BY <1>4, <1>5, <2>1, <2>2 DEF At
  <2>3. CASE u[1] = b
    <3>1. u[2] # s[2]
      BY <1>1, <1>9, <2>1, <2>3
    <3>2. QED
      BY <1>3, <1>4, <1>5, <2>1, <2>3, <3>1 DEF At
  <2>4. QED
    BY <2>2, <2>3
<1> HIDE DEF b, block
<1>10. e \in [Sites(g) -> Sites(f)] /\ \A u \in Sites(g) : e[u] = u
  BY <1>7
<1> HIDE DEF e
<1>11. \A u \in Sites(g) : At(g, u).op \in Costly => u # s /\ At(f, u).op \in Costly
  BY <1>7, <1>8, <1>9
<1>12. Comes(g, f, e)
  BY <1>5, <1>7, <1>10, <1>11 DEF Comes
<1>13. LeavesOut(g, f, e)
  <2>1. s \in SitesWith(f, Costly)
    BY DEF SitesWith
  <2>2. \A u \in SitesWith(g, Costly) : e[u] # s
    BY <1>10, <1>11 DEF SitesWith
  <2>3. QED
    BY <2>1, <2>2 DEF LeavesOut
<1>14. QED
  BY <1>12, <1>13, LessWork DEF g

LEMMA FoldingShrinks ==
  ASSUME NEW f, NEW names, FunctionOk(f, names), NEW s \in ConstantBranches(f)
  PROVE  Work(FoldBranch(f, s)) < Work(f)
<1>1. s \in Sites(f) /\ At(f, s).op \in Costly
  BY DEF ConstantBranches, SitesWith, Costly
<1>2. \E c : FoldBranch(f, s) = SetInst(f, s, Br(c))
  BY DEF FoldBranch
<1>3. \A c : Br(c).op \notin Costly
  BY DEF Br, Inst, Costly
<1>4. QED
  BY <1>1, <1>2, <1>3, CheaperShrinks

LEMMA ReducingShrinks ==
  ASSUME NEW f, NEW names, FunctionOk(f, names), NEW s
  PROVE  /\ s \in Multiplications(f) => Work(ReduceMultiplication(f, s)) < Work(f)
         /\ s \in Divisions(f) => Work(ReduceDivision(f, s)) < Work(f)
<1>1. \A op \in {"shl", "shr", "and"} : \A res, args, to : Inst(op, res, args, to).op \notin Costly
  BY DEF Inst, Costly
<1>2. ASSUME s \in Multiplications(f) PROVE Work(ReduceMultiplication(f, s)) < Work(f)
  <2>1. s \in Sites(f) /\ At(f, s).op \in Costly
    BY <1>2 DEF Multiplications, SitesWith, Costly
  <2>2. \E x : ReduceMultiplication(f, s) = SetInst(f, s, x) /\ x.op \notin Costly
    BY <1>1 DEF ReduceMultiplication
  <2>3. QED
    BY <2>1, <2>2, CheaperShrinks
<1>3. ASSUME s \in Divisions(f) PROVE Work(ReduceDivision(f, s)) < Work(f)
  <2>1. s \in Sites(f) /\ At(f, s).op \in Costly
    BY <1>3 DEF Divisions, SitesWith, Costly
  <2>2. \E x : ReduceDivision(f, s) = SetInst(f, s, x) /\ x.op \notin Costly
    BY <1>1 DEF ReduceDivision
  <2>3. QED
    BY <2>1, <2>2, CheaperShrinks
<1>4. QED
  BY <1>2, <1>3

\* Blocks are gone.
LEMMA UnreachableShrinks ==
  ASSUME NEW f, NEW names, FunctionOk(f, names), Reachable(f) # Blocks(f)
  PROVE  Work(RemoveUnreachable(f)) < Work(f)
<1> DEFINE reach == Reachable(f)
           kept(list) == Picked(list, {i \in DOMAIN list : list[i] \in reach})
           block(b) == [i \in DOMAIN f.blocks[b] |->
                          IF i \in PhiSites(f, b) /\ kept(f.blocks[b][i].to) # f.blocks[b][i].to
                          THEN EntriesFor(f.blocks[b][i], kept(f.blocks[b][i].to))
                          ELSE f.blocks[b][i]]
           B == [b \in reach |-> block(b)]
           o == kept(f.order)
           g == RemoveUnreachable(f)
           e == [t \in Sites(g) |-> t]
<1>1. g = [f EXCEPT !.order = o, !.blocks = B]
  BY DEF RemoveUnreachable
<1>2. reach \subseteq Blocks(f)
  BY ReachableIs
<1>3. ASSUME NEW b \in reach, NEW i \in DOMAIN f.blocks[b]
      PROVE  block(b)[i].op = f.blocks[b][i].op
  <2> DEFINE x == f.blocks[b][i]
             y == EntriesFor(x, kept(x.to))
  <2>1. y.op = "phi"
    BY DEF EntriesFor, Inst
  <2>2. block(b)[i] = IF i \in PhiSites(f, b) /\ kept(x.to) # x.to THEN y ELSE x
    OBVIOUS
  <2>3. i \in PhiSites(f, b) => x.op = "phi"
    <3>1. BlockOk(f.blocks[b], names)
      BY <1>2 DEF FunctionOk
    <3>2. QED
      BY <3>1, PhiSitesAre
  <2> HIDE DEF y, block, kept
  <2>4. QED
    BY <2>1, <2>2, <2>3
<1>4. DOMAIN B = reach /\ \A b \in reach : B[b] = block(b) /\ DOMAIN B[b] = DOMAIN f.blocks[b]
  OBVIOUS
<1> HIDE DEF block, B, o, g
<1>5. g.blocks = B /\ Blocks(g) = reach
  <2> HIDE DEF reach
  <2>1. Anew(g, f, o, f.next, B)
    BY <1>1, OrderedAnew
  <2>2. QED
    BY <1>4, <2>1 DEF Anew
<1> HIDE DEF reach
<1>6. \A t \in Sites(g) : t = <<t[1], t[2]>> /\ t[1] \in reach /\ t[2] \in DOMAIN f.blocks[t[1]]
  BY <1>4, <1>5 DEF Sites
<1>7. ASSUME NEW t \in Sites(g) PROVE t \in Sites(f) /\ At(g, t).op = At(f, t).op
  <2>1. t \in Sites(f)
    BY <1>2, <1>6 DEF Sites
  <2>2. QED
    BY <1>3, <1>4, <1>5, <1>6, <2>1 DEF At
<1>8. e \in [Sites(g) -> Sites(f)] /\ \A t \in Sites(g) : e[t] = t
  BY <1>7
<1> HIDE DEF e
<1>9. Comes(g, f, e)
  BY <1>2, <1>5, <1>7, <1>8 DEF Comes
<1>10. LeavesOut(g, f, e)
  BY <1>5 DEF LeavesOut, reach
<1>11. QED
  BY <1>9, <1>10, LessWork DEF g

\* The two blocks that cfs_merge_blocks makes one of, and what is known of them.
MergedPair(f, a, b, names) ==
  /\ a \in Blocks(f) /\ b \in Blocks(f) /\ b # EntryOf(f)
  /\ BlockOk(f.blocks[a], names) /\ BlockOk(f.blocks[b], names)
  /\ Len(f.blocks[a]) \in Nat \ {0} /\ DOMAIN f.blocks[a] = 1 .. Len(f.blocks[a])
  /\ f.blocks[a][Len(f.blocks[a])].op = "br"
  /\ Succs(f, a) = {b} /\ PredsOf(f, b) = {a}

LEMMA MergedAre ==
  ASSUME NEW f, NEW names, FunctionOk(f, names), CanMerge(f)
  PROVE  LET a == FirstOf(f, MergeSites(f))[1]
         IN  MergedPair(f, a, Last(f.blocks[a]).to[1], names)
<1> DEFINE s0 == FirstOf(f, MergeSites(f))
           a == s0[1]
           b == Last(f.blocks[a]).to[1]
<1>1. s0 \in MergeSites(f) /\ MergeSites(f) \subseteq Sites(f)
  <2>1. MergeSites(f) \in SUBSET Sites(f)
    BY DEF MergeSites, SitesWith
  <2>2. QED
    BY <2>1, FirstIs DEF CanMerge
<1>2. /\ a \in Blocks(f) /\ BlockOk(f.blocks[a], names) /\ s0[2] \in DOMAIN f.blocks[a]
      /\ At(f, s0) = f.blocks[a][s0[2]] /\ At(f, s0).op = "br"
      /\ PredsOf(f, At(f, s0).to[1]) = {a}
  BY <1>1, SiteIs DEF MergeSites, SitesWith
<1> HIDE DEF s0
<1>3. s0[2] = Len(f.blocks[a])
  BY <1>2 DEF BlockOk, Terminators
<1>4. Last(f.blocks[a]) = At(f, s0)
  BY <1>2, <1>3 DEF Last
<1>5. /\ Len(f.blocks[a]) \in Nat \ {0} /\ f.blocks[a] # << >>
      /\ DOMAIN f.blocks[a] = 1 .. Len(f.blocks[a])
  BY <1>2, Places DEF BlockOk
<1>6. DOMAIN At(f, s0).to = {1}
  BY <1>2 DEF BlockOk, InstOk
<1>7. Succs(f, a) = {b} /\ PredsOf(f, b) = {a}
  <2>1. Succs(f, a) = ToSet(At(f, s0).to)
    BY <1>2, <1>3, <1>5, ControlIs DEF Targets
  <2>2. ToSet(At(f, s0).to) = {b}
    BY <1>4, <1>6 DEF ToSet
  <2>3. QED
    BY <1>2, <1>4, <2>1, <2>2
<1>8. b \in Blocks(f) /\ b # EntryOf(f) /\ BlockOk(f.blocks[b], names)
  BY <1>2, <1>7 DEF FunctionOk
<1>9. f.blocks[a][Len(f.blocks[a])].op = "br"
  BY <1>2, <1>3
<1> HIDE DEF b
<1>10. MergedPair(f, a, b, names)
  BY <1>2, <1>5, <1>7, <1>8, <1>9 DEF MergedPair
<1>11. QED
  BY <1>10 DEF b, s0

\* Where an instruction of a merged block was before.
LEMMA JoinedAre ==
  ASSUME NEW s, IsSequence(s), Len(s) \in Nat \ {0}, NEW t, IsSequence(t)
  PROVE  \A i \in DOMAIN (Front(s) \o t) :
           \/ i \in 1 .. Len(s) - 1 /\ i \in DOMAIN s /\ (Front(s) \o t)[i] = s[i]
           \/ /\ i \in Nat /\ i - (Len(s) - 1) \in DOMAIN t /\ i >= Len(s)
              /\ (Front(s) \o t)[i] = t[i - (Len(s) - 1)]
<1> DEFINE u == Front(s)
           w == u \o t
           n == Len(s)
<1>1. n \in Nat \ {0} /\ DOMAIN s = 1 .. n /\ Len(t) \in Nat /\ DOMAIN t = 1 .. Len(t)
  BY Places
<1>2. u = SubSeq(s, 1, n - 1)
  BY DEF Front
<1>3. 1 \in 1 .. n + 1 /\ n - 1 \in 0 .. n /\ 1 <= (n - 1) + 1 /\ (n - 1) - 1 + 1 = n - 1
  BY <1>1
<1>4. /\ IsSequence(u) /\ Len(u) = (n - 1) - 1 + 1
      /\ \A i \in 1 .. (n - 1) - 1 + 1 : u[i] = s[1 + i - 1]
  BY <1>2, <1>3, StretchIs
<1> HIDE DEF u
<1>5. IsSequence(u) /\ Len(u) = n - 1 /\ \A i \in 1 .. n - 1 : u[i] = s[i]
  BY <1>1, <1>3, <1>4
<1>6. /\ DOMAIN w = 1 .. Len(u) + Len(t) /\ \A i \in 1 .. Len(u) : w[i] = u[i]
      /\ \A i \in 1 .. Len(t) : w[Len(u) + i] = t[i]
  <2>1. IsSequence(u) /\ IsSequence(t)
    BY <1>5
  <2>2. QED
    BY <2>1, JoinIs
<1> HIDE DEF w, n
<1>7. ASSUME NEW i \in DOMAIN w
      PROVE  \/ i \in 1 .. n - 1 /\ i \in DOMAIN s /\ w[i] = s[i]
             \/ i \in Nat /\ i - (n - 1) \in DOMAIN t /\ i >= n /\ w[i] = t[i - (n - 1)]
  <2>1. i \in Nat /\ 1 <= i /\ i <= (n - 1) + Len(t)
    BY <1>1, <1>5, <1>6
  <2>2. CASE i <= n - 1
    BY <1>1, <1>5, <1>6, <2>1, <2>2
  <2>3. CASE ~(i <= n - 1)
    <3> DEFINE j == i - (n - 1)
    <3>1. j \in 1 .. Len(t) /\ Len(u) + j = i /\ i >= n
      BY <1>1, <1>5, <2>1, <2>3
    <3> HIDE DEF j
    <3>2. w[i] = t[j]
      BY <1>6, <3>1
    <3>3. QED
      BY <1>1, <2>1, <3>1, <3>2 DEF j
  <2>4. QED
    BY <2>2, <2>3
<1>8. QED
  BY <1>7 DEF w, u, n

\* One block is gone, and the branch to it.
LEMMA MergingShrinks ==
  ASSUME NEW f, NEW names, FunctionOk(f, names), CanMerge(f)
  PROVE  Work(MergeBlocks(f)) < Work(f)
<1> DEFINE a == FirstOf(f, MergeSites(f))[1]
           b == Last(f.blocks[a]).to[1]
           n == Len(f.blocks[a])
           new(x) == IF x = b THEN a ELSE x
           tos(l) == [k \in DOMAIN l |-> new(l[k])]
           retargeted(inst) == IF inst.op = "phi" THEN [inst EXCEPT !.to = tos(@)] ELSE inst
           merged(c) == IF c = a THEN Front(f.blocks[a]) \o f.blocks[b] ELSE f.blocks[c]
           block(c) == IF c \in Succs(f, b)
                       THEN [i \in DOMAIN merged(c) |-> retargeted(merged(c)[i])] ELSE merged(c)
           left == Blocks(f) \ {b}
           B == [c \in left |-> block(c)]
           o == Picked(f.order, {i \in DOMAIN f.order : f.order[i] # b})
           g == MergeBlocks(f)
           from(c, i) == IF c = a /\ i >= n THEN <<b, i - (n - 1)>> ELSE <<c, i>>
           e == [t \in Sites(g) |-> from(t[1], t[2])]
<1>1. g = [f EXCEPT !.order = o, !.blocks = B]
  BY DEF MergeBlocks
<1>2. a \in Blocks(f) /\ b \in Blocks(f) /\ n \in Nat \ {0}
  BY MergedAre DEF MergedPair
<1>3. \A c \in Blocks(f) : IsSequence(f.blocks[c]) /\ \A i \in DOMAIN f.blocks[c] : InstOk(f.blocks[c][i], names)
  BY DEF FunctionOk, BlockOk
<1>4. DOMAIN B = left /\ \A c \in left : B[c] = block(c)
  OBVIOUS
<1> HIDE DEF a, b, B, o, g
<1>5. g.blocks = B /\ Blocks(g) = left
  <2> HIDE DEF left
  <2>1. Anew(g, f, o, f.next, B)
    BY <1>1, OrderedAnew
  <2>2. QED
    BY <1>4, <2>1 DEF Anew
<1>6. ASSUME NEW c \in left, NEW i \in DOMAIN merged(c)
      PROVE  /\ from(c, i) \in Sites(f) /\ At(f, from(c, i)) = merged(c)[i]
             /\ i \in Nat /\ InstOk(merged(c)[i], names)
             /\ from(c, i) = <<c, i>> \/ (from(c, i) = <<b, i - (n - 1)>> /\ c = a)
  <2>1. CASE c # a
    <3>1. i \in DOMAIN f.blocks[c] /\ merged(c)[i] = f.blocks[c][i] /\ from(c, i) = <<c, i>>
      BY <2>1
    <3>2. i \in Nat
      BY <1>3, <3>1, Places
    <3> DEFINE y == merged(c)[i]
               s == from(c, i)
    <3>3. s = <<c, i>> /\ y = f.blocks[c][i] /\ i \in DOMAIN f.blocks[c] /\ c \in Blocks(f)
      BY <3>1
    <3> HIDE DEF y, s, merged, from
    <3>4. s \in Sites(f) /\ At(f, s) = y
      BY <3>3 DEF Sites, At
    <3>5. InstOk(y, names)
      BY <1>3, <3>3
    <3>6. QED
      BY <3>2, <3>3, <3>4, <3>5 DEF y, s
  <2>2. CASE c = a
    <3> DEFINE w == Front(f.blocks[a]) \o f.blocks[b]
    <3>1. merged(c) = w /\ i \in DOMAIN w
      BY <2>2
    <3>2. \/ i \in 1 .. n - 1 /\ i \in DOMAIN f.blocks[a] /\ w[i] = f.blocks[a][i]
          \/ i \in Nat /\ i - (n - 1) \in DOMAIN f.blocks[b] /\ i >= n /\ w[i] = f.blocks[b][i - (n - 1)]
      BY <1>2, <1>3, <3>1, JoinedAre
    <3> HIDE DEF w, merged, n
    <3>3. CASE i \in 1 .. n - 1 /\ i \in DOMAIN f.blocks[a] /\ w[i] = f.blocks[a][i]
      <4>1. i \in Nat /\ ~(i >= n) /\ from(c, i) = <<c, i>>
        BY <1>2, <3>3
      <4>2. QED
        BY <1>2, <1>3, <2>2, <3>1, <3>3, <4>1 DEF Sites, At
    <3>4. CASE i \in Nat /\ i - (n - 1) \in DOMAIN f.blocks[b] /\ i >= n /\ w[i] = f.blocks[b][i - (n - 1)]
      <4>1. from(c, i) = <<b, i - (n - 1)>>
        BY <2>2, <3>4
      <4> DEFINE j == i - (n - 1)
      <4> HIDE DEF j, from
      <4>2. j \in DOMAIN f.blocks[b] /\ w[i] = f.blocks[b][j] /\ from(c, i) = <<b, j>>
        BY <3>4, <4>1 DEF j
      <4>3. QED
        BY <1>2, <1>3, <2>2, <3>1, <3>4, <4>1, <4>2 DEF Sites, At
    <3>5. QED
      BY <3>2, <3>3, <3>4
  <2>3. QED
    BY <2>1, <2>2
<1> HIDE DEF merged, n
<1>7. ASSUME NEW x, InstOk(x, names) PROVE retargeted(x).op = x.op
  <2> DEFINE y == [x EXCEPT !.to = tos(x.to)]
  <2>1. y.op = x.op
    BY <1>7 DEF InstOk, Inst
  <2>2. retargeted(x) = x \/ retargeted(x) = y
    OBVIOUS
  <2> HIDE DEF y, retargeted
  <2>3. QED
    BY <2>1, <2>2
<1> HIDE DEF retargeted
<1>8. ASSUME NEW c \in left
      PROVE  DOMAIN B[c] = DOMAIN merged(c) /\ \A i \in DOMAIN merged(c) : B[c][i].op = merged(c)[i].op
  <2>1. CASE c \notin Succs(f, b)
    BY <1>4, <2>1
  <2>2. CASE c \in Succs(f, b)
    <3>1. B[c] = [i \in DOMAIN merged(c) |-> retargeted(merged(c)[i])]
      BY <1>4, <2>2
    <3>2. \A i \in DOMAIN merged(c) : InstOk(merged(c)[i], names)
      BY <1>6
    <3>3. QED
      BY <1>7, <3>1, <3>2
  <2>3. QED
    BY <2>1, <2>2
<1> HIDE DEF block
<1>9. ASSUME NEW t \in Sites(g)
      PROVE  /\ t = <<t[1], t[2]>> /\ t[1] \in left /\ t[2] \in DOMAIN merged(t[1])
             /\ At(g, t).op = merged(t[1])[t[2]].op
  <2>1. t = <<t[1], t[2]>> /\ t[1] \in left /\ t[2] \in DOMAIN B[t[1]] /\ At(g, t) = B[t[1]][t[2]]
    BY <1>5 DEF Sites, At
  <2>2. QED
    BY <1>8, <2>1
<1>10. e = [t \in Sites(g) |-> e[t]] /\ \A t \in Sites(g) : e[t] = from(t[1], t[2])
  OBVIOUS
<1> HIDE DEF e, from
<1>11. ASSUME NEW t \in Sites(g)
       PROVE  /\ e[t] \in Sites(f) /\ At(g, t).op = At(f, e[t]).op
              /\ t[2] \in Nat /\ t[1] # b
              /\ e[t] = <<t[1], t[2]>> \/ (e[t] = <<b, t[2] - (n - 1)>> /\ t[1] = a)
  BY <1>6, <1>9, <1>10 DEF left
<1>12. ASSUME NEW t \in Sites(g), NEW u \in Sites(g), e[t] = e[u] PROVE t = u
  <2>1. t[1] = u[1] /\ t[2] = u[2]
    BY <1>2, <1>11, <1>12
  <2>2. QED
    BY <1>9, <2>1
<1>13. e \in [Sites(g) -> Sites(f)]
  BY <1>10, <1>11
<1>14. Comes(g, f, e)
  BY <1>5, <1>11, <1>12, <1>13 DEF Comes
<1>15. LeavesOut(g, f, e)
  BY <1>2, <1>5 DEF LeavesOut
<1>16. QED
  BY <1>14, <1>15, LessWork DEF g

Shrink == Work(module'[at]) < Work(This)

\* The function that is rewritten takes its place in the module.
LEMMA RewrittenIs ==
  ASSUME OptInv, NEW g, module' = [module EXCEPT ![at] = g]
  PROVE  module'[at] = g
BY ThisIs

LEMMA ReplacedShrinks ==
  ASSUME OptInv, NEW s \in Sites(This), At(This, s).op \notin Essential, NEW w,
         ReplaceValue(At(This, s).res, w)
  PROVE  Shrink
<1> DEFINE g == Substitute(This, At(This, s).res, w)
<1>1. Work(g) < Work(This)
  BY ThisIs, SubstitutingShrinks
<1>2. module' = [module EXCEPT ![at] = g]
  BY DEF ReplaceValue, Replacing, Rewrite
<1> HIDE DEF g
<1>3. QED
  BY <1>1, <1>2, RewrittenIs DEF Shrink

LEMMA FoldConstantShrinks ==
  ASSUME OptInv, FoldConstant, rewritten'
  PROVE  Shrink
<1> DEFINE sites == {s \in Sites(This) : Foldable(At(This, s))}
           s == FirstOf(This, sites)
           inst == At(This, s)
<1>1. sites # {} /\ ReplaceValue(inst.res, Folded(inst))
  BY DEF FoldConstant
<1>2. sites \in SUBSET Sites(This) /\ \A t \in sites : Foldable(At(This, t))
  OBVIOUS
<1> HIDE DEF sites
<1>3. s \in sites
  BY <1>1, <1>2, ThisIs, FirstIs
<1> HIDE DEF s
<1>4. s \in Sites(This) /\ inst.op \notin Essential
  BY <1>2, <1>3 DEF Foldable, Binary, Unary, Arithmetic, Comparisons, Essential
<1>5. QED
  BY <1>1, <1>4, ReplacedShrinks

LEMMA SimplifyPhiShrinks ==
  ASSUME OptInv, SimplifyPhi
  PROVE  Shrink
<1> DEFINE s == FirstOf(This, RedundantPhis(This))
<1>1. RedundantPhis(This) # {} /\ ReplaceValue(At(This, s).res, At(This, s).args[1])
  BY DEF SimplifyPhi
<1>2. RedundantPhis(This) \in SUBSET Sites(This)
      /\ \A t \in RedundantPhis(This) : At(This, t).op = "phi"
  BY DEF RedundantPhis, SitesWith
<1>3. s \in RedundantPhis(This)
  BY <1>1, <1>2, ThisIs, FirstIs
<1> HIDE DEF s
<1>4. s \in Sites(This) /\ At(This, s).op \notin Essential
  BY <1>2, <1>3 DEF Essential
<1>5. QED
  BY <1>1, <1>4, ReplacedShrinks

LEMMA SimplifyShrinks ==
  ASSUME OptInv, Simplify
  PROVE  Shrink
<1> DEFINE s == FirstOf(This, ToSimplify)
           v == CHOOSE v \in Simpler(This, At(This, s)) : TRUE
<1>1. ToSimplify # {} /\ ReplaceValue(At(This, s).res, v)
  BY DEF Simplify
<1>2. ToSimplify \in SUBSET Sites(This) /\ \A t \in ToSimplify : Simplifiable(This, t)
  BY DEF ToSimplify
<1>3. s \in ToSimplify
  BY <1>1, <1>2, ThisIs, FirstIs
<1> HIDE DEF s, v
<1>4. Simpler(This, At(This, s)) # {}
  BY <1>2, <1>3 DEF Simplifiable
<1>5. At(This, s).op \notin Essential
  BY <1>4 DEF Simpler, Essential
<1>6. QED
  BY <1>1, <1>2, <1>3, <1>5, ReplacedShrinks

LEMMA NumberShrinks ==
  ASSUME OptInv, Number
  PROVE  Shrink
<1> DEFINE s == FirstOf(This, Repeated(This))
           w == At(This, Original(This, s)).res
<1>1. Repeated(This) # {} /\ ReplaceValue(At(This, s).res, w)
  BY DEF Number
<1>2. Repeated(This) \in SUBSET Sites(This) /\ \A t \in Repeated(This) : At(This, t).op \in Numbered
  BY DEF Repeated, SitesWith
<1>3. s \in Repeated(This)
  BY <1>1, <1>2, ThisIs, FirstIs
<1> HIDE DEF s, w
<1>4. s \in Sites(This) /\ At(This, s).op \notin Essential
  BY <1>2, <1>3 DEF Numbered, Arithmetic, Comparisons, Essential
<1>5. QED
  BY <1>1, <1>4, ReplacedShrinks

LEMMA FoldConstantBranchShrinks ==
  ASSUME OptInv, FoldConstantBranch
  PROVE  Shrink
<1> DEFINE s == FirstOf(This, ConstantBranches(This))
           g == FoldBranch(This, s)
<1>1. ConstantBranches(This) # {} /\ RewriteOnly(g)
  BY DEF FoldConstantBranch
<1>2. ConstantBranches(This) \in SUBSET Sites(This)
  BY DEF ConstantBranches, SitesWith
<1>3. s \in ConstantBranches(This)
  BY <1>1, <1>2, ThisIs, FirstIs
<1> HIDE DEF s
<1>4. Work(g) < Work(This)
  BY <1>3, ThisIs, FoldingShrinks
<1> HIDE DEF g
<1>5. module' = [module EXCEPT ![at] = g]
  BY <1>1 DEF RewriteOnly, Rewrite
<1>6. QED
  BY <1>4, <1>5, RewrittenIs DEF Shrink

LEMMA EraseUnreachableShrinks ==
  ASSUME OptInv, EraseUnreachable
  PROVE  Shrink
<1> DEFINE g == RemoveUnreachable(This)
<1>1. Work(g) < Work(This)
  BY ThisIs, UnreachableShrinks DEF EraseUnreachable
<1>2. module' = [module EXCEPT ![at] = g]
  BY DEF EraseUnreachable, Rewrite
<1> HIDE DEF g
<1>3. QED
  BY <1>1, <1>2, RewrittenIs DEF Shrink

LEMMA MergeShrinks ==
  ASSUME OptInv, Merge
  PROVE  Shrink
<1> DEFINE g == MergeBlocks(This)
<1>1. Work(g) < Work(This)
  BY ThisIs, MergingShrinks DEF Merge
<1>2. module' = [module EXCEPT ![at] = g]
  BY DEF Merge, RewriteOnly, Rewrite
<1> HIDE DEF g
<1>3. QED
  BY <1>1, <1>2, RewrittenIs DEF Shrink

LEMMA EraseDeadShrinks ==
  ASSUME OptInv, EraseDead
  PROVE  Shrink
<1> DEFINE g == EraseValues(This, DeadValues(This))
<1>1. PICK v \in DeadValues(This) : TRUE
  BY DEF EraseDead
<1>2. PICK s \in Sites(This) : At(This, s).res = v /\ At(This, s).op \notin Essential
  BY DEF DeadValues
<1>3. InstOk(At(This, s), Names(module))
  BY ThisIs, SiteIs
<1>4. At(This, s).res # NoValue
  BY <1>2, <1>3, NamedIs DEF InstOk
<1>5. Work(g) < Work(This)
  BY <1>1, <1>2, <1>4, ThisIs, ErasingShrinks
<1>6. module' = [module EXCEPT ![at] = g]
  BY DEF EraseDead, RewriteOnly, Rewrite
<1> HIDE DEF g
<1>7. QED
  BY <1>5, <1>6, RewrittenIs DEF Shrink

LEMMA ReductionsShrink ==
  ASSUME OptInv, ReduceMultiplications \/ ReduceDivisions
  PROVE  Shrink
<1>1. CASE ReduceMultiplications
  <2> DEFINE s == FirstOf(This, Multiplications(This))
             g == ReduceMultiplication(This, s)
  <2>1. Multiplications(This) # {} /\ module' = [module EXCEPT ![at] = g]
    BY <1>1 DEF ReduceMultiplications, Replacing, Rewrite
  <2>2. Multiplications(This) \in SUBSET Sites(This)
    BY DEF Multiplications, SitesWith
  <2>3. s \in Multiplications(This)
    BY <2>1, <2>2, ThisIs, FirstIs
  <2> HIDE DEF s
  <2>4. Work(g) < Work(This)
    BY <2>3, ThisIs, ReducingShrinks
  <2> HIDE DEF g
  <2>5. QED
    BY <2>1, <2>4, RewrittenIs DEF Shrink
<1>2. CASE ReduceDivisions
  <2> DEFINE s == FirstOf(This, Divisions(This))
             g == ReduceDivision(This, s)
  <2>1. Divisions(This) # {} /\ module' = [module EXCEPT ![at] = g]
    BY <1>2 DEF ReduceDivisions, Replacing, Rewrite
  <2>2. Divisions(This) \in SUBSET Sites(This)
    BY DEF Divisions, SitesWith
  <2>3. s \in Divisions(This)
    BY <2>1, <2>2, ThisIs, FirstIs
  <2> HIDE DEF s
  <2>4. Work(g) < Work(This)
    BY <2>3, ThisIs, ReducingShrinks
  <2> HIDE DEF g
  <2>5. QED
    BY <2>1, <2>4, RewrittenIs DEF Shrink
<1>3. QED
  BY <1>1, <1>2

\* Every rewriting of run_optim's loop but licm's leaves less work: no pass goes
\* on for ever, and no two undo each other's work, whatever the module.
THEOREM EveryRewritingShrinks == Spec => Shrinks
<1>1. OptInv /\ [Next]_vars =>
        [stage = "scalar" /\ rewritten' /\ ~Running("licm") => Shrink]_vars
  <2> SUFFICES ASSUME OptInv, Next, stage = "scalar", rewritten', ~Running("licm")
               PROVE  Shrink
    OBVIOUS
  <2>1. ASSUME NEW x \in GlobalsOf(This), Localize(x) PROVE Shrink
    BY <2>1 DEF Localize
  <2>2. ASSUME \/ GlobalsDone \/ Inline \/ InliningDone \/ PromoteLocals \/ PromotingDone
               \/ InlineStraightLine \/ StraightDone \/ TailCalls \/ TailDone
        PROVE  Shrink
    BY <2>2 DEF GlobalsDone, Inline, InliningDone, PromoteLocals, PromotingDone,
                InlineStraightLine, StraightDone, TailCalls, TailDone
  <2>3. CASE FoldConstant
    BY <2>3, FoldConstantShrinks
  <2>4. CASE FoldConstantBranch
    BY <2>4, FoldConstantBranchShrinks
  <2>5. CASE EraseUnreachable
    BY <2>5, EraseUnreachableShrinks
  <2>6. CASE SimplifyPhi
    BY <2>6, SimplifyPhiShrinks
  <2>7. CASE Merge
    BY <2>7, MergeShrinks
  <2>8. CASE EraseDead
    BY <2>8, EraseDeadShrinks
  <2>9. CASE Simplify
    BY <2>9, SimplifyShrinks
  <2>10. CASE ReduceMultiplications \/ ReduceDivisions
    BY <2>10, ReductionsShrink
  <2>11. CASE FollowErasedUser
    BY <2>11 DEF FollowErasedUser
  <2>12. ASSUME NEW h \in Blocks(This), Hoist(h) PROVE Shrink
    BY <2>12 DEF Hoist
  <2>13. CASE Number
    BY <2>13, NumberShrinks
  <2>14. CASE NextPass
    BY <2>14 DEF NextPass
  <2>15. CASE Over
    BY <2>15 DEF Over
  <2>16. QED
    BY <2>1, <2>2, <2>3, <2>4, <2>5, <2>6, <2>7, <2>8, <2>9, <2>10, <2>11, <2>12, <2>13,
       <2>14, <2>15 DEF Next
<1>2. QED
  BY <1>1, OptInvAlways, PTL DEF Spec, Shrinks, Shrink

-----------------------------------------------------------------------------
(* Where the loop over the passes ends. *)

\* Pass number p has nothing to do in f.
Quiet(p, f) ==
  /\ Passes[p] = "constprop" => \A s \in Sites(f) : ~Foldable(At(f, s))
  /\ Passes[p] = "branches" => ConstantBranches(f) = {}
  /\ Passes[p] = "unreachable" => Reachable(f) = Blocks(f)
  /\ Passes[p] = "phis" => RedundantPhis(f) = {}
  /\ Passes[p] = "blocks" => ~CanMerge(f)
  /\ Passes[p] = "dce" => DeadValues(f) = {}
  /\ Passes[p] = "algebraic" => \A s \in Sites(f) : ~Simplifiable(f, s)
  /\ Passes[p] = "multiplications" => Multiplications(f) = {}
  /\ Passes[p] = "divisions" => Divisions(f) = {}
  /\ Passes[p] = "licm" => \A h \in Headers(f) : Preheaders(f, h) = {} \/ Invariant(f, h) = {}
  /\ Passes[p] = "gvn" => Repeated(f) = {}

AllQuiet == \A i \in DOMAIN module : \A p \in 1 .. 16 : Quiet(p, module[i])

\* While an iteration has changed nothing, no pass it has come past has anything
\* to do, in the functions before this one and in this one.
Unchanging ==
  /\ visited = {}
  /\ \A i \in DOMAIN module : \A p \in 1 .. 16 : i < at \/ (i = at /\ p < pass) => Quiet(p, module[i])

FixpointInv ==
  /\ Early => pass = 1
  /\ stage = "scalar" /\ ~changed => Unchanging
  /\ stage = "done" /\ (iteration < MaxIterations \/ ~changed) => AllQuiet

\* All passes together.
LEMMA QuietIs ==
  ASSUME NEW f, \A p \in 1 .. 16 : Quiet(p, f)
  PROVE  NothingLeft(f)
<1>1. /\ Passes[1] = "constprop" /\ Passes[2] = "branches" /\ Passes[3] = "unreachable"
      /\ Passes[4] = "phis" /\ Passes[5] = "blocks" /\ Passes[6] = "dce"
      /\ Passes[7] = "algebraic" /\ Passes[8] = "multiplications" /\ Passes[9] = "divisions"
      /\ Passes[10] = "licm" /\ Passes[12] = "gvn"
  BY DEF Passes
<1>2. /\ Quiet(1, f) /\ Quiet(2, f) /\ Quiet(3, f) /\ Quiet(4, f) /\ Quiet(5, f) /\ Quiet(6, f)
      /\ Quiet(7, f) /\ Quiet(8, f) /\ Quiet(9, f) /\ Quiet(10, f) /\ Quiet(12, f)
  OBVIOUS
<1>3. /\ \A s \in Sites(f) : ~Foldable(At(f, s)) /\ ~Simplifiable(f, s)
      /\ ConstantBranches(f) = {} /\ Reachable(f) = Blocks(f)
      /\ RedundantPhis(f) = {} /\ ~CanMerge(f)
  BY <1>1, <1>2 DEF Quiet
<1>4. /\ DeadValues(f) = {} /\ Repeated(f) = {}
      /\ Multiplications(f) = {} /\ Divisions(f) = {}
      /\ \A h \in Headers(f) : Preheaders(f, h) = {} \/ Invariant(f, h) = {}
  BY <1>1, <1>2 DEF Quiet
<1>5. QED
  BY <1>3, <1>4 DEF NothingLeft

\* A pass that is over, and had nothing to do, has nothing to do.
LEMMA OverIsQuiet ==
  ASSUME stage = "scalar", PassOver, visited = {}
  PROVE  Quiet(pass, This)
<1>1. Passes[pass] = "algebraic" => \A s \in Sites(This) : ~Simplifiable(This, s)
  BY DEF PassOver, Running, ToSimplify
<1>2. Passes[pass] = "licm" =>
        \A h \in Headers(This) : Preheaders(This, h) = {} \/ Invariant(This, h) = {}
  BY DEF PassOver, Running, LoopsLeft
<1>3. QED
  BY <1>1, <1>2 DEF PassOver, Running, Quiet

\* The stages before run_optim's loop.
LEMMA EarlyKeepsFixpoint ==
  ASSUME Early, FixpointInv, OptInv,
         \/ UNCHANGED <<stage, pass>>
         \/ \E next \in {"inlining", "promoting", "straight", "tail", "scalar"} : NextFunction(next)
  PROVE  FixpointInv'
<1>1. pass = 1 /\ pass' = 1
  BY DEF FixpointInv, NextFunction
<1>2. CASE UNCHANGED <<stage, pass>>
  BY <1>1, <1>2 DEF FixpointInv, Early
<1>3. ASSUME NEW next \in {"inlining", "promoting", "straight", "tail", "scalar"}, NextFunction(next)
      PROVE  FixpointInv'
  <2>1. stage' # "done" /\ visited' = {} /\ module' = module
    BY <1>3 DEF NextFunction, Early
  <2>2. stage' = "scalar" => at' = 1
    BY <1>3 DEF NextFunction, Early
  <2>3. DOMAIN module \subseteq Nat \ {0}
    BY Places DEF OptInv, ModuleOk
  <2>4. stage' = "scalar" => Unchanging'
    BY <1>1, <2>1, <2>2, <2>3 DEF Unchanging
  <2>5. QED
    BY <1>1, <2>1, <2>4 DEF FixpointInv
<1>4. QED
  BY <1>2, <1>3

\* A rewriting of the loop says that it has changed something.
LEMMA RewritingKeepsFixpoint ==
  ASSUME stage = "scalar",
         \/ stage' \in {"trapped", "undefined"}
         \/ stage' = "scalar" /\ \E f : Rewrite(f)
  PROVE  FixpointInv'
<1>1. stage' = "scalar" => changed'
  BY DEF Rewrite
<1>2. QED
  BY <1>1 DEF FixpointInv, Early

LEMMA NextPassKeepsFixpoint ==
  ASSUME OptInv, FixpointInv, NextPass
  PROVE  FixpointInv'
<1>1. stage = "scalar" /\ PassOver /\ module' = module /\ visited' = {}
  BY DEF NextPass
<1>2. /\ Len(module) \in Nat \ {0} /\ DOMAIN module = 1 .. Len(module)
      /\ at \in 1 .. Len(module) /\ pass \in 1 .. 16 /\ (inRound => changed)
  BY Places DEF OptInv, ModuleOk, ControlOk
<1>3. ~Early'
  BY <1>1, NextPassIs DEF NextRound, Further, Ended, Early
<1>4. CASE ~changed
  <2>1. visited = {} /\ Quiet(pass, This)
    BY <1>1, <1>4, OverIsQuiet DEF FixpointInv, Unchanging
  <2>2. \A i \in DOMAIN module : \A p \in 1 .. 16 :
          i < at \/ (i = at /\ p <= pass) => Quiet(p, module[i])
    <3> SUFFICES ASSUME NEW i \in DOMAIN module, NEW p \in 1 .. 16, i < at \/ (i = at /\ p <= pass)
                 PROVE  Quiet(p, module[i])
      OBVIOUS
    <3>1. CASE i = at /\ p = pass
      BY <2>1, <3>1 DEF This
    <3>2. CASE ~(i = at /\ p = pass)
      <4>1. i < at \/ (i = at /\ p < pass)
        BY <1>2, <3>2
      <4>2. QED
        BY <1>1, <1>4, <4>1 DEF FixpointInv, Unchanging
    <3>3. QED
      BY <3>1, <3>2
  <2>3. CASE pass < 16 /\ Further
    <3>1. stage' = "scalar" /\ at' = at /\ pass' = pass + 1
      BY <1>1, <2>3 DEF Further
    <3>2. Unchanging'
      BY <1>1, <1>2, <2>2, <3>1 DEF Unchanging
    <3>3. QED
      BY <1>3, <3>1, <3>2 DEF FixpointInv
  <2>4. CASE ~(pass < 16) /\ Ended
    <3>1. pass = 16
      BY <1>2, <2>4
    <3>2. \A i \in DOMAIN module : i <= at => \A p \in 1 .. 16 : Quiet(p, module[i])
      BY <1>2, <2>2, <3>1
    <3>3. CASE at < Len(module)
      <4>1. stage' = "scalar" /\ at' = at + 1 /\ pass' = 1
        BY <1>1, <2>4, <3>3 DEF Ended
      <4>2. Unchanging'
        BY <1>1, <1>2, <3>2, <4>1 DEF Unchanging
      <4>3. QED
        BY <1>3, <4>1, <4>2 DEF FixpointInv
    <3>4. CASE ~(at < Len(module))
      <4>1. stage' = "done"
        BY <1>4, <2>4, <3>4 DEF Ended, GoesOn
      <4>2. AllQuiet'
        BY <1>1, <1>2, <3>2, <3>4 DEF AllQuiet
      <4>3. QED
        BY <1>3, <4>1, <4>2 DEF FixpointInv
    <3>5. QED
      BY <3>3, <3>4
  <2>5. QED
    BY <1>2, <1>4, <2>3, <2>4, NextPassIs
<1>5. CASE changed
  <2>1. CASE changed' /\ stage' = "scalar"
    BY <1>3, <2>1 DEF FixpointInv
  <2>2. CASE ~(changed' /\ stage' = "scalar")
    <3>1. ~(pass < 16) /\ Ended /\ ~(at < Len(module))
      BY <1>1, <1>5, <2>2, NextPassIs DEF NextRound, Further, Ended, flags
    <3>2. CASE GoesOn
      <4>1. stage' = "scalar" /\ at' = 1 /\ pass' = 1
        BY <1>1, <3>1, <3>2 DEF Ended
      <4>2. Unchanging'
        BY <1>1, <1>2, <4>1 DEF Unchanging
      <4>3. QED
        BY <1>3, <4>1, <4>2 DEF FixpointInv
    <3>3. CASE ~GoesOn
      <4>1. stage' = "done" /\ iteration' = iteration /\ changed' = changed
        BY <3>1, <3>3 DEF Ended
      <4>2. ~(iteration < MaxIterations)
        BY <1>5, <3>3 DEF GoesOn
      <4>3. QED
        BY <1>3, <1>5, <4>1, <4>2 DEF FixpointInv
    <3>4. QED
      BY <3>2, <3>3
  <2>3. QED
    BY <2>1, <2>2
<1>6. QED
  BY <1>4, <1>5

LEMMA FixpointStep ==
  ASSUME OptInv, FixpointInv, [Next]_vars
  PROVE  FixpointInv'
<1>1. CASE UNCHANGED vars
  BY <1>1 DEF vars, control, flags, FixpointInv, Early, Unchanging, AllQuiet, Quiet
<1>2. ASSUME NEW x \in GlobalsOf(This), Localize(x) PROVE FixpointInv'
  BY <1>2, EarlyKeepsFixpoint DEF Localize, Rewrite, Early
<1>3. CASE GlobalsDone \/ InliningDone \/ PromotingDone \/ StraightDone \/ TailDone
  BY <1>3, EarlyKeepsFixpoint DEF GlobalsDone, InliningDone, PromotingDone, StraightDone, TailDone, Early
<1>4. CASE Inline \/ PromoteLocals \/ TailCalls
  BY <1>4, EarlyKeepsFixpoint DEF Inline, PromoteLocals, TailCalls, RewriteOnly, Rewrite, Early
<1>5. CASE InlineStraightLine
  BY <1>5, EarlyKeepsFixpoint DEF InlineStraightLine, control, Early
<1>6. CASE FoldConstant
  BY <1>6, RewritingKeepsFixpoint DEF FoldConstant, Running, ReplaceValue, Replacing
<1>7. CASE FoldConstantBranch \/ Merge \/ EraseDead
  BY <1>7, RewritingKeepsFixpoint DEF FoldConstantBranch, Merge, EraseDead, Running, RewriteOnly
<1>8. CASE EraseUnreachable
  BY <1>8, RewritingKeepsFixpoint DEF EraseUnreachable, Running
<1>9. CASE SimplifyPhi \/ Simplify \/ Number
  BY <1>9, RewritingKeepsFixpoint DEF SimplifyPhi, Simplify, Number, Running, ReplaceValue, Replacing
<1>10. CASE ReduceMultiplications \/ ReduceDivisions
  BY <1>10, RewritingKeepsFixpoint DEF ReduceMultiplications, ReduceDivisions, Running, Replacing
<1>11. CASE FollowErasedUser
  BY <1>11, RewritingKeepsFixpoint DEF FollowErasedUser, Running
<1>12. ASSUME NEW h \in Blocks(This), Hoist(h) PROVE FixpointInv'
  BY <1>12, RewritingKeepsFixpoint DEF Hoist, Running
<1>13. CASE NextPass
  BY <1>13, NextPassKeepsFixpoint
<1>14. CASE Over
  BY <1>1, <1>14 DEF Over
<1>15. QED
  BY <1>1, <1>2, <1>3, <1>4, <1>5, <1>6, <1>7, <1>8, <1>9, <1>10, <1>11, <1>12, <1>13, <1>14 DEF Next

\* Whatever the module: when run_optim ends, and not because its tenth iteration
\* still changed something, no function has work left for any of its passes, also
\* where sccp has used up its rounds on the way.
THEOREM EndsWithNothingLeft == Spec => []EndsAtFixpoint
<1>1. Init => FixpointInv
  BY DEF Init, FixpointInv, Early
<1>2. OptInv /\ FixpointInv /\ [Next]_vars => FixpointInv'
  BY FixpointStep
<1>3. FixpointInv => EndsAtFixpoint
  BY QuietIs DEF FixpointInv, AllQuiet, EndsAtFixpoint
<1>4. QED
  BY <1>1, <1>2, <1>3, OptInvAlways, PTL DEF Spec
=============================================================================
