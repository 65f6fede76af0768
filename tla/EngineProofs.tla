------------------------------ MODULE EngineProofs ------------------------------
(***************************************************************************)
(* Proofs about Optimizer, for any number of stops and vehicles, any       *)
(* distances, any tolerance and any number of annealing turns.             *)
(***************************************************************************)
EXTENDS Optimizer, FiniteSetTheorems, SequenceTheorems, TLAPS

-----------------------------------------------------------------------------

(***************************************************************************)
(* The loops, each as a run of LoopProofs: m is a distance matrix, r a     *)
(* route or the routes, ds their distances.                                *)
(***************************************************************************)

Measuring == INSTANCE LoopProofs WITH
    Turn <- LAMBDA m, r, c, d, e, g, total, i :
              total + m[Node(r, i - 1)][Node(r, i)]

ReversingFrom == INSTANCE LoopProofs WITH
    Turn <- LAMBDA m, s, c, d, e, g, r, k :
              IF Shortens(m, r, s, s + k) THEN Reversed(r, s, s + k) ELSE r

Reversing == INSTANCE LoopProofs WITH
    Turn <- LAMBDA m, b, c, d, e, g, r, s : ReverseFrom(m, r, s)

\* What the first k legs of a closed route come to.
Partial(m, r, k) == Measuring!Run(m, r, 0, 0, 0, 0, 0, k)

LEMMA LoopsOfARoute ==
    ASSUME NEW m, NEW r, NEW s
    PROVE  /\ RouteDistance(m, r) = Partial(m, r, Len(r) + 1)
           /\ ReverseFrom(m, r, s)
                = ReversingFrom!Run(m, s, 0, 0, 0, 0, r, Len(r) - s)
           /\ TwoOpt(m, r) = IF Len(r) < 3 THEN r
                             ELSE Reversing!Run(m, 0, 0, 0, 0, 0, r, Len(r) - 1)
<1>1. RouteDistance(m, r) = Partial(m, r, Len(r) + 1)
  BY DEF RouteDistance, Partial, Measuring!Run, Loop, Once, Measuring!Loop, Measuring!Once
<1>2. ReverseFrom(m, r, s) = ReversingFrom!Run(m, s, 0, 0, 0, 0, r, Len(r) - s)
  BY DEF ReverseFrom, ReversingFrom!Run, Loop, Once, ReversingFrom!Loop, ReversingFrom!Once
<1>3. TwoOpt(m, r) = IF Len(r) < 3 THEN r
                     ELSE Reversing!Run(m, 0, 0, 0, 0, 0, r, Len(r) - 1)
  BY DEF TwoOpt, Reversing!Run, Loop, Once, Reversing!Loop, Reversing!Once
<1> QED BY <1>1, <1>2, <1>3

-----------------------------------------------------------------------------

(***************************************************************************)
(* Distances of routes                                                     *)
(***************************************************************************)

Matrices(n) == [0..n -> [0..n -> Nat]]

LEMMA NodesOfRoute ==
    ASSUME NEW n \in Nat, NEW r \in Seq(1..n), NEW i
    PROVE  Node(r, i) \in 0..n
BY DEF Node

LEMMA PartialUnfolds ==
    ASSUME NEW m, NEW r, NEW k \in Nat
    PROVE  /\ Partial(m, r, 0) = 0
           /\ Partial(m, r, k + 1) = Partial(m, r, k) + m[Node(r, k)][Node(r, k + 1)]
<1>1. k + 1 - 1 = k
  OBVIOUS
<1> QED BY <1>1, Measuring!LoopUnfolds DEF Partial

LEMMA NoLegs ==
    ASSUME NEW m, NEW r
    PROVE  Partial(m, r, 0) = 0
<1>1. 0 \in Nat
  OBVIOUS
<1> QED BY <1>1, PartialUnfolds

LEMMA PartialIsNat ==
    ASSUME NEW n \in Nat, NEW m \in Matrices(n), NEW r \in Seq(1..n), NEW k \in Nat
    PROVE  Partial(m, r, k) \in Nat
<1> DEFINE I == [i \in 0..k |-> Nat]
<1>1. 0 \in I[0]
  OBVIOUS
<1>2. ASSUME NEW i \in 1..k, NEW total \in I[i - 1]
      PROVE  total + m[Node(r, i - 1)][Node(r, i)] \in I[i]
  <2>1. Node(r, i - 1) \in 0..n /\ Node(r, i) \in 0..n
    BY NodesOfRoute
  <2>2. m[Node(r, i - 1)][Node(r, i)] \in Nat
    BY <2>1 DEF Matrices
  <2>3. total \in Nat
    OBVIOUS
  <2> QED BY <2>2, <2>3
<1>3. I[k] = Nat
  OBVIOUS
<1> HIDE DEF I
<1>4. Measuring!Run(m, r, 0, 0, 0, 0, 0, k) \in I[k]
  BY <1>1, <1>2, Measuring!LoopKeeps
<1> QED BY <1>3, <1>4 DEF Partial

LEMMA RouteDistanceIsNat ==
    ASSUME NEW n \in Nat, NEW m \in Matrices(n), NEW r \in Seq(1..n)
    PROVE  RouteDistance(m, r) \in Nat
<1>1. Len(r) + 1 \in Nat
  OBVIOUS
<1> QED BY <1>1, LoopsOfARoute, PartialIsNat

-----------------------------------------------------------------------------

(***************************************************************************)
(* 2-opt brings the stops of a route into another order.                   *)
(***************************************************************************)

Distinct(r) == \A i, j \in 1..Len(r) : r[i] = r[j] => i = j

\* The orders in which the stops of r can be visited.
Orders(r) ==
    {q \in Seq(ToSet(r)) : Len(q) = Len(r) /\ ToSet(q) = ToSet(r) /\ Distinct(q)}

LEMMA ReversedIsAnOrder ==
    ASSUME NEW S, NEW r \in Seq(S), NEW q \in Orders(r),
           NEW s \in 1..Len(r), NEW e \in s..Len(r)
    PROVE  Reversed(q, s, e) \in Orders(r)
<1> DEFINE p == Reversed(q, s, e)
           back(i) == IF i \in s..e THEN s + e - i ELSE i
<1>1. /\ q \in Seq(ToSet(r)) /\ Len(q) = Len(r) /\ Len(r) \in Nat
      /\ ToSet(q) = ToSet(r) /\ Distinct(q)
  BY DEF Orders
<1>2. /\ p = [i \in 1..Len(r) |-> q[back(i)]]
      /\ \A i \in 1..Len(r) : back(i) \in 1..Len(r) /\ back(back(i)) = i
  BY <1>1 DEF Reversed
<1>3. p \in Seq(ToSet(r)) /\ Len(p) = Len(r)
  BY <1>1, <1>2
<1>4. ToSet(p) = ToSet(r)
  <2>1. ASSUME NEW x \in ToSet(r) PROVE x \in ToSet(p)
    <3>1. x \in ToSet(q) /\ DOMAIN q = 1..Len(r)
      BY <1>1, <2>1
    <3>2. PICK i \in 1..Len(r) : q[i] = x
      BY <3>1, Zenon DEF ToSet
    <3>3. p[back(i)] = x /\ back(i) \in 1..Len(r)
      BY <1>2, <3>2
    <3>4. DOMAIN p = 1..Len(r)
      BY <1>2
    <3> HIDE DEF p, back
    <3> QED BY <3>3, <3>4, Zenon DEF ToSet
  <2>2. ToSet(p) \subseteq ToSet(r)
    BY <1>3 DEF ToSet
  <2> QED BY <2>1, <2>2
<1>5. Distinct(p)
  <2> SUFFICES ASSUME NEW i \in 1..Len(p), NEW j \in 1..Len(p), p[i] = p[j]
               PROVE  i = j
    BY DEF Distinct
  <2>1. back(i) = back(j)
    BY <1>1, <1>2, <1>3 DEF Distinct
  <2> QED BY <1>2, <1>3, <2>1
<1> QED BY <1>3, <1>4, <1>5 DEF Orders

LEMMA ReverseFromIsAnOrder ==
    ASSUME NEW S, NEW r \in Seq(S), NEW q \in Orders(r), NEW s \in 1..Len(r), NEW m
    PROVE  ReverseFrom(m, q, s) \in Orders(r)
<1> DEFINE n == Len(q) - s
           I == [i \in 0..n |-> Orders(r)]
<1>1. n \in Nat /\ Len(q) = Len(r)
  BY DEF Orders
<1>2. q \in I[0] /\ I[n] = Orders(r)
  BY <1>1
<1>3. \A k \in 1..n : \A p \in I[k - 1] :
        (IF Shortens(m, p, s, s + k) THEN Reversed(p, s, s + k) ELSE p) \in I[k]
  BY <1>1, ReversedIsAnOrder
<1> HIDE DEF I, n
<1>4. ReversingFrom!Run(m, s, 0, 0, 0, 0, q, n) \in I[n]
  BY <1>1, <1>2, <1>3, ReversingFrom!LoopKeeps
<1> QED BY <1>2, <1>4, LoopsOfARoute DEF n

LEMMA TwoOptIsAnOrder ==
    ASSUME NEW S, NEW r \in Seq(S), Distinct(r), NEW m
    PROVE  TwoOpt(m, r) \in Orders(r)
<1> DEFINE n == Len(r) - 1
           I == [i \in 0..n |-> Orders(r)]
<1>1. r \in Orders(r)
  BY DEF Orders, ToSet
<1>2. CASE Len(r) < 3
  BY <1>1, <1>2, LoopsOfARoute
<1>3. CASE Len(r) >= 3
  <2>1. n \in Nat /\ r \in I[0] /\ I[n] = Orders(r)
    BY <1>1, <1>3
  <2>2. \A s \in 1..n : \A q \in I[s - 1] : ReverseFrom(m, q, s) \in I[s]
    BY <1>3, ReverseFromIsAnOrder
  <2> HIDE DEF I
  <2>3. Reversing!Run(m, 0, 0, 0, 0, 0, r, n) \in I[n]
    BY <2>1, <2>2, Reversing!LoopKeeps
  <2>4. TwoOpt(m, r) = Reversing!Run(m, 0, 0, 0, 0, 0, r, n)
    <3>1. ~(Len(r) < 3)
      BY <1>3
    <3> QED BY <3>1, LoopsOfARoute, Zenon
  <2> QED BY <2>1, <2>3, <2>4
<1> QED BY <1>2, <1>3


-----------------------------------------------------------------------------

(***************************************************************************)
(* The moves keep an assignment: r are routes, V the vehicles, A the stops *)
(* that are on a route.                                                    *)
(***************************************************************************)

Partition(r, V, A) ==
    /\ \A v \in V : \A i \in 1..Len(r[v]) : r[v][i] \in A
    /\ \A a \in A : \E v \in V : \E i \in 1..Len(r[v]) : r[v][i] = a
    /\ \A v, w \in V : \A i \in 1..Len(r[v]), j \in 1..Len(r[w]) :
          r[v][i] = r[w][j] => v = w /\ i = j

NoneEmpty(r, V) == \A v \in V : Len(r[v]) > 0

LEMMA Joined ==
    ASSUME NEW S, NEW a \in Seq(S), NEW b \in Seq(S), NEW p, p = a \o b
    PROVE  /\ p \in Seq(S) /\ Len(p) = Len(a) + Len(b)
           /\ \A k \in 1..Len(a) : p[k] = a[k]
           /\ \A k \in 1..Len(p) : k > Len(a) => p[k] = b[k - Len(a)]
BY ConcatProperties

LEMMA Removed ==
    ASSUME NEW S, NEW r \in Seq(S), NEW i \in 1..Len(r), NEW p, p = RemoveAt(r, i)
    PROVE  /\ p \in Seq(S) /\ Len(p) = Len(r) - 1
           /\ \A k \in 1..Len(p) : p[k] = IF k < i THEN r[k] ELSE r[k + 1]
<1>0. PICK a, b : a = SubSeq(r, 1, i - 1) /\ b = SubSeq(r, i + 1, Len(r))
  OBVIOUS
<1>1. /\ a \in Seq(S) /\ Len(a) = i - 1 /\ \A k \in 1..(i - 1) : a[k] = r[k]
      /\ b \in Seq(S) /\ Len(b) = Len(r) - i /\ \A k \in 1..(Len(r) - i) : b[k] = r[i + k]
  BY <1>0
<1>2. p = a \o b
  BY <1>0 DEF RemoveAt
<1>3. /\ p \in Seq(S) /\ Len(p) = Len(a) + Len(b)
      /\ \A k \in 1..Len(a) : p[k] = a[k]
      /\ \A k \in 1..Len(p) : k > Len(a) => p[k] = b[k - Len(a)]
  <2>1. a \in Seq(S)
    BY <1>1
  <2>2. b \in Seq(S)
    BY <1>1
  <2>3. p \in Seq(S) /\ Len(p) = Len(a) + Len(b)
    BY <2>1, <2>2, <1>2, Joined
  <2>4. \A k \in 1..Len(a) : p[k] = a[k]
    BY <2>1, <2>2, <1>2, Joined
  <2>5. \A k \in 1..Len(p) : k > Len(a) => p[k] = b[k - Len(a)]
    BY <2>1, <2>2, <1>2, Joined
  <2> QED BY <2>3, <2>4, <2>5
<1>4. ASSUME NEW k \in 1..Len(p)
      PROVE  p[k] = IF k < i THEN r[k] ELSE r[k + 1]
  <2>1. CASE k < i
    BY <1>1, <1>3, <2>1
  <2>2. CASE ~(k < i)
    <3>1. p[k] = b[k - (i - 1)] /\ k - (i - 1) \in 1..(Len(r) - i)
      BY <1>1, <1>3, <2>2
    <3>2. i + (k - (i - 1)) = k + 1
      OBVIOUS
    <3> QED BY <1>1, <2>2, <3>1, <3>2
  <2> QED BY <2>1, <2>2
<1> QED BY <1>1, <1>3, <1>4

LEMMA Inserted ==
    ASSUME NEW S, NEW r \in Seq(S), NEW e \in S, NEW j \in 1..(Len(r) + 1),
           NEW p, p = InsertAt(r, j, e)
    PROVE  /\ p \in Seq(S) /\ Len(p) = Len(r) + 1
           /\ \A k \in 1..Len(p) :
                 p[k] = IF k < j THEN r[k] ELSE IF k = j THEN e ELSE r[k - 1]
<1>0. PICK a, b, c : /\ a = SubSeq(r, 1, j - 1) /\ b = SubSeq(r, j, Len(r))
                     /\ c = a \o <<e>>
  OBVIOUS
<1>1. /\ a \in Seq(S) /\ Len(a) = j - 1 /\ \A k \in 1..(j - 1) : a[k] = r[k]
      /\ b \in Seq(S) /\ Len(b) = Len(r) - j + 1
      /\ \A k \in 1..(Len(r) - j + 1) : b[k] = r[j + k - 1]
  BY <1>0
<1>2. p = c \o b
  BY <1>0 DEF InsertAt
<1>3. /\ c \in Seq(S) /\ Len(c) = j
      /\ \A k \in 1..j : c[k] = IF k < j THEN r[k] ELSE e
  <2>1. a \in Seq(S)
    BY <1>1
  <2>2. c = Append(a, e)
    BY <1>0, <2>1
  <2> QED BY <1>1, <2>2
<1>4. /\ p \in Seq(S) /\ Len(p) = Len(c) + Len(b)
      /\ \A k \in 1..Len(c) : p[k] = c[k]
      /\ \A k \in 1..Len(p) : k > Len(c) => p[k] = b[k - Len(c)]
  <2>1. c \in Seq(S)
    BY <1>3
  <2>2. b \in Seq(S)
    BY <1>1
  <2>3. p \in Seq(S) /\ Len(p) = Len(c) + Len(b)
    BY <2>1, <2>2, <1>2, Joined
  <2>4. \A k \in 1..Len(c) : p[k] = c[k]
    BY <2>1, <2>2, <1>2, Joined
  <2>5. \A k \in 1..Len(p) : k > Len(c) => p[k] = b[k - Len(c)]
    BY <2>1, <2>2, <1>2, Joined
  <2> QED BY <2>3, <2>4, <2>5
<1>5. ASSUME NEW k \in 1..Len(p)
      PROVE  p[k] = IF k < j THEN r[k] ELSE IF k = j THEN e ELSE r[k - 1]
  <2>1. CASE k <= j
    BY <1>1, <1>3, <1>4, <2>1
  <2>2. CASE ~(k <= j)
    <3>1. p[k] = b[k - j] /\ k - j \in 1..(Len(r) - j + 1)
      BY <1>1, <1>3, <1>4, <2>2
    <3>2. j + (k - j) - 1 = k - 1
      OBVIOUS
    <3> QED BY SMTT(30), <1>1, <2>2, <3>1, <3>2
  <2> QED BY <2>1, <2>2
<1> QED BY <1>1, <1>3, <1>4, <1>5

-----------------------------------------------------------------------------

LEMMA Appended ==
    ASSUME NEW V, NEW S, NEW r \in [V -> Seq(S)], NEW A, Partition(r, V, A),
           NEW v \in V, NEW a \in S, a \notin A,
           NEW q, q = Append(r[v], a), NEW p, p = [r EXCEPT ![v] = q]
    PROVE  p \in [V -> Seq(S)] /\ Partition(p, V, A \cup {a})
<1>1. p \in [V -> Seq(S)]
  OBVIOUS
<1>2. /\ \A u \in V : u # v => p[u] = r[u]
      /\ Len(p[v]) = Len(r[v]) + 1 /\ Len(r[v]) \in Nat
      /\ \A k \in 1..Len(r[v]) : p[v][k] = r[v][k]
      /\ p[v][Len(r[v]) + 1] = a
  OBVIOUS
<1>3. ASSUME NEW u \in V, NEW k \in 1..Len(p[u])
      PROVE  \/ k \in 1..Len(r[u]) /\ p[u][k] = r[u][k] /\ p[u][k] \in A
             \/ u = v /\ k = Len(r[v]) + 1 /\ p[u][k] = a
  <2>1. CASE u = v /\ k = Len(r[v]) + 1
    BY <1>2, <2>1
  <2>2. CASE u = v /\ k # Len(r[v]) + 1
    <3>1. k \in 1..Len(r[v])
      BY <1>2, <2>2
    <3> QED BY <1>2, <2>2, <3>1 DEF Partition
  <2>3. CASE u # v
    BY <1>2, <2>3 DEF Partition
  <2> QED BY <2>1, <2>2, <2>3
<1>4. ASSUME NEW u \in V, NEW k \in 1..Len(r[u])
      PROVE  k \in 1..Len(p[u]) /\ p[u][k] = r[u][k]
  BY <1>2
<1>5. \A u \in V : \A k \in 1..Len(p[u]) : p[u][k] \in A \cup {a}
  BY <1>3
<1>6. \A b \in A \cup {a} : \E u \in V : \E k \in 1..Len(p[u]) : p[u][k] = b
  <2>1. ASSUME NEW b \in A PROVE \E u \in V : \E k \in 1..Len(p[u]) : p[u][k] = b
    <3>1. PICK u \in V : \E k \in 1..Len(r[u]) : r[u][k] = b
      BY DEF Partition
    <3>2. PICK k \in 1..Len(r[u]) : r[u][k] = b
      BY <3>1
    <3> QED BY <1>4, <3>2
  <2>2. Len(r[v]) + 1 \in 1..Len(p[v])
    BY <1>2
  <2> QED BY <1>2, <2>1, <2>2
<1>7. ASSUME NEW u \in V, NEW w \in V, NEW k \in 1..Len(p[u]), NEW j \in 1..Len(p[w]),
             p[u][k] = p[w][j]
      PROVE  u = w /\ k = j
  <2>1. CASE p[u][k] = a
    BY <1>3, <1>7, <2>1
  <2>2. CASE p[u][k] # a
    <3>1. /\ k \in 1..Len(r[u]) /\ p[u][k] = r[u][k]
          /\ j \in 1..Len(r[w]) /\ p[w][j] = r[w][j]
      BY <1>3, <1>7, <2>2
    <3> QED BY <1>7, <3>1 DEF Partition
  <2> QED BY <2>1, <2>2
<1> QED BY <1>1, <1>5, <1>6, <1>7 DEF Partition

LEMMA Reordered ==
    ASSUME NEW V, NEW S, NEW r \in [V -> Seq(S)], NEW A, Partition(r, V, A),
           NEW v \in V, NEW q \in Orders(r[v]), NEW p, p = [r EXCEPT ![v] = q]
    PROVE  /\ p \in [V -> Seq(S)] /\ Partition(p, V, A)
           /\ NoneEmpty(r, V) => NoneEmpty(p, V)
<1>1. /\ q \in Seq(ToSet(r[v])) /\ Len(q) = Len(r[v]) /\ Len(q) \in Nat
      /\ ToSet(q) = ToSet(r[v]) /\ Distinct(q)
  BY DEF Orders
<1>2. DOMAIN q = 1..Len(q) /\ DOMAIN r[v] = 1..Len(q)
  BY <1>1
<1>3. q \in Seq(S)
  <2>1. ToSet(r[v]) \subseteq S
    BY DEF ToSet
  <2> QED BY <1>1, <2>1
<1>4. p \in [V -> Seq(S)] /\ p[v] = q /\ \A u \in V : u # v => p[u] = r[u]
  BY <1>3
<1>5. /\ \A k \in 1..Len(q) : \E i \in 1..Len(r[v]) : r[v][i] = q[k]
      /\ \A i \in 1..Len(r[v]) : \E k \in 1..Len(q) : q[k] = r[v][i]
  BY <1>1, <1>2, Zenon DEF ToSet
\* A stop of p is one of r on the same route.
<1>6. ASSUME NEW u \in V, NEW k \in 1..Len(p[u])
      PROVE  \E i \in 1..Len(r[u]) : r[u][i] = p[u][k]
  <2>1. CASE u = v
    BY <1>4, <1>5, <2>1
  <2>2. CASE u # v
    BY <1>4, <2>2
  <2> QED BY <2>1, <2>2
<1>7. \A u \in V : \A k \in 1..Len(p[u]) : p[u][k] \in A
  <2> SUFFICES ASSUME NEW u \in V, NEW k \in 1..Len(p[u]) PROVE p[u][k] \in A
    OBVIOUS
  <2>1. PICK i \in 1..Len(r[u]) : r[u][i] = p[u][k]
    BY <1>6
  <2> QED BY <2>1 DEF Partition
<1>8. ASSUME NEW b \in A PROVE \E u \in V : \E k \in 1..Len(p[u]) : p[u][k] = b
  <2>1. PICK u \in V : \E i \in 1..Len(r[u]) : r[u][i] = b
    BY DEF Partition
  <2>2. PICK i \in 1..Len(r[u]) : r[u][i] = b
    BY <2>1
  <2>3. CASE u = v
    BY <1>4, <1>5, <2>2, <2>3
  <2>4. CASE u # v
    BY <1>4, <2>2, <2>4
  <2> QED BY <2>3, <2>4
<1>9. ASSUME NEW u \in V, NEW w \in V, NEW k \in 1..Len(p[u]), NEW j \in 1..Len(p[w]),
             p[u][k] = p[w][j]
      PROVE  u = w /\ k = j
  <2>1. PICK i \in 1..Len(r[u]) : r[u][i] = p[u][k]
    BY <1>6
  <2>2. PICK l \in 1..Len(r[w]) : r[w][l] = p[w][j]
    BY <1>6
  <2>3. u = w /\ i = l
    BY <1>9, <2>1, <2>2 DEF Partition
  <2>4. CASE u = v
    <3>1. k \in 1..Len(q) /\ j \in 1..Len(q) /\ q[k] = q[j]
      BY <1>4, <1>9, <2>3, <2>4
    <3> QED BY <1>1, <2>3, <3>1 DEF Distinct
  <2>5. CASE u # v
    BY <1>4, <1>9, <2>3, <2>5 DEF Partition
  <2> QED BY <2>4, <2>5
<1>10. NoneEmpty(r, V) => NoneEmpty(p, V)
  BY <1>1, <1>4 DEF NoneEmpty
<1> QED BY <1>4, <1>7, <1>8, <1>9, <1>10 DEF Partition

\* The stop at position k of u in the new routes was at position fk of fv; the
\* one at position k of u before is at position gk of gv.
LEMMA Relocated ==
    ASSUME NEW V, NEW S, NEW r \in [V -> Seq(S)], NEW A, Partition(r, V, A),
           NEW v \in V, NEW w \in V, v # w,
           NEW i \in 1..Len(r[v]), NEW j \in 1..(Len(r[w]) + 1),
           NEW p, p = Relocate(r, v, i, w, j)
    PROVE  /\ p \in [V -> Seq(S)] /\ Partition(p, V, A)
           /\ NoneEmpty(r, V) /\ GivesAway(r[v]) => NoneEmpty(p, V)
<1> DEFINE fv(u, k) == IF u = w /\ k = j THEN v ELSE u
           fk(u, k) == IF u = v /\ k >= i THEN k + 1
                       ELSE IF u = w /\ k = j THEN i
                       ELSE IF u = w /\ k > j THEN k - 1
                       ELSE k
           gv(u, k) == IF u = v /\ k = i THEN w ELSE u
           gk(u, k) == IF u = v /\ k = i THEN j
                       ELSE IF u = v /\ k > i THEN k - 1
                       ELSE IF u = w /\ k >= j THEN k + 1
                       ELSE k
<1>1. /\ r[v] \in Seq(S) /\ r[w] \in Seq(S) /\ r[v][i] \in S
      /\ Len(r[v]) \in Nat /\ Len(r[w]) \in Nat
  OBVIOUS
<1>2. /\ p[v] = RemoveAt(r[v], i) /\ p[w] = InsertAt(r[w], j, r[v][i])
      /\ \A u \in V \ {v, w} : p[u] = r[u]
      /\ DOMAIN p = V
      /\ p = [u \in V |-> p[u]]
  BY DEF Relocate
<1>3. /\ p[v] \in Seq(S) /\ Len(p[v]) = Len(r[v]) - 1
      /\ \A k \in 1..Len(p[v]) : p[v][k] = IF k < i THEN r[v][k] ELSE r[v][k + 1]
  BY <1>1, <1>2, Removed
<1>4. /\ p[w] \in Seq(S) /\ Len(p[w]) = Len(r[w]) + 1
      /\ \A k \in 1..Len(p[w]) :
            p[w][k] = IF k < j THEN r[w][k] ELSE IF k = j THEN r[v][i] ELSE r[w][k - 1]
  BY SMTT(30), <1>1, <1>2, Inserted
<1>5. p \in [V -> Seq(S)]
  <2>1. ASSUME NEW u \in V PROVE p[u] \in Seq(S)
    BY <1>2, <1>3, <1>4
  <2> QED BY <1>2, <2>1
<1>6. ASSUME NEW u \in V, NEW k \in 1..Len(p[u])
      PROVE  /\ fv(u, k) \in V /\ fk(u, k) \in 1..Len(r[fv(u, k)])
             /\ p[u][k] = r[fv(u, k)][fk(u, k)]
  <2>1. CASE u = v
    BY SMTT(30), <1>1, <1>3, <2>1
  <2>2. CASE u = w
    BY <1>1, <1>4, <2>2
  <2>3. CASE u \notin {v, w}
    BY <1>2, <2>3
  <2> QED BY <2>1, <2>2, <2>3
<1>7. ASSUME NEW u \in V, NEW k \in 1..Len(r[u])
      PROVE  /\ gv(u, k) \in V /\ gk(u, k) \in 1..Len(p[gv(u, k)])
             /\ p[gv(u, k)][gk(u, k)] = r[u][k]
  <2>1. CASE u = v /\ k = i
    BY <1>1, <1>4, <2>1
  <2>4. CASE u = v /\ k < i
    <3>1. k \in 1..Len(p[v]) /\ k < i
      BY <1>1, <1>3, <2>4
    <3>2. p[v][k] = r[v][k]
      BY <1>3, <3>1
    <3> QED BY <2>4, <3>1, <3>2
  <2>5. CASE u = v /\ k > i
    <3>1. k - 1 \in 1..Len(p[v]) /\ ~(k - 1 < i) /\ k - 1 + 1 = k
      BY <1>1, <1>3, <2>5
    <3>2. p[v][k - 1] = r[v][k]
      BY <1>3, <3>1
    <3> QED BY <2>5, <3>1, <3>2
  <2>2. CASE u = w
    BY <1>1, <1>4, <2>2
  <2>3. CASE u \notin {v, w}
    BY <1>2, <2>3
  <2>6. u = v => k = i \/ k < i \/ k > i
    BY <1>1
  <2> QED BY <2>1, <2>2, <2>3, <2>4, <2>5, <2>6
<1>8. ASSUME NEW u \in V, NEW k \in 1..Len(p[u]), NEW x \in V, NEW l \in 1..Len(p[x]),
             fv(u, k) = fv(x, l), fk(u, k) = fk(x, l)
      PROVE  u = x /\ k = l
  <2>1. Len(p[u]) \in Nat /\ Len(p[x]) \in Nat
    BY <1>5
  <2> QED BY <1>1, <1>8, <2>1
<1>9. ASSUME NEW u \in V, NEW k \in 1..Len(p[u]) PROVE p[u][k] \in A
  <2> HIDE DEF fv, fk
  <2>1. /\ fv(u, k) \in V /\ fk(u, k) \in 1..Len(r[fv(u, k)])
        /\ p[u][k] = r[fv(u, k)][fk(u, k)]
    BY <1>6
  <2> QED BY <2>1 DEF Partition
<1>10. \A b \in A : \E u \in V : \E k \in 1..Len(p[u]) : p[u][k] = b
  <2> SUFFICES ASSUME NEW b \in A PROVE \E u \in V : \E k \in 1..Len(p[u]) : p[u][k] = b
    OBVIOUS
  <2>1. PICK u \in V : \E k \in 1..Len(r[u]) : r[u][k] = b
    BY DEF Partition
  <2>2. PICK k \in 1..Len(r[u]) : r[u][k] = b
    BY <2>1
  <2> HIDE DEF gv, gk
  <2> QED BY <1>7, <2>2
<1>11. ASSUME NEW u \in V, NEW x \in V, NEW k \in 1..Len(p[u]), NEW l \in 1..Len(p[x]),
              p[u][k] = p[x][l]
       PROVE  u = x /\ k = l
  <2> HIDE DEF fv, fk
  <2>1. /\ fv(u, k) \in V /\ fk(u, k) \in 1..Len(r[fv(u, k)])
        /\ fv(x, l) \in V /\ fk(x, l) \in 1..Len(r[fv(x, l)])
        /\ r[fv(u, k)][fk(u, k)] = r[fv(x, l)][fk(x, l)]
    BY <1>6, <1>11
  <2>2. fv(u, k) = fv(x, l) /\ fk(u, k) = fk(x, l)
    BY <2>1 DEF Partition
  <2> QED BY <1>8, <2>2
<1>12. NoneEmpty(r, V) /\ GivesAway(r[v]) => NoneEmpty(p, V)
  BY SMTT(30), <1>1, <1>2, <1>3, <1>4 DEF NoneEmpty, GivesAway
<1> QED BY <1>5, <1>9, <1>10, <1>11, <1>12 DEF Partition

LEMMA Swapped ==
    ASSUME NEW V, NEW S, NEW r \in [V -> Seq(S)], NEW A, Partition(r, V, A),
           NEW v \in V, NEW w \in V, v # w,
           NEW i \in 1..Len(r[v]), NEW j \in 1..Len(r[w]),
           NEW p, p = Swap(r, v, i, w, j)
    PROVE  /\ p \in [V -> Seq(S)] /\ Partition(p, V, A)
           /\ NoneEmpty(r, V) => NoneEmpty(p, V)
<1> DEFINE fv(u, k) == IF u = v /\ k = i THEN w ELSE IF u = w /\ k = j THEN v ELSE u
           fk(u, k) == IF u = v /\ k = i THEN j ELSE IF u = w /\ k = j THEN i ELSE k
<1>1. /\ r[v] \in Seq(S) /\ r[w] \in Seq(S) /\ r[v][i] \in S /\ r[w][j] \in S
      /\ Len(r[v]) \in Nat /\ Len(r[w]) \in Nat
  OBVIOUS
<1>2. /\ p[v] = [r[v] EXCEPT ![i] = r[w][j]] /\ p[w] = [r[w] EXCEPT ![j] = r[v][i]]
      /\ \A u \in V \ {v, w} : p[u] = r[u]
      /\ p = [u \in V |-> p[u]]
  BY DEF Swap
<1>3. /\ p[v] \in Seq(S) /\ Len(p[v]) = Len(r[v])
      /\ \A k \in 1..Len(p[v]) : p[v][k] = IF k = i THEN r[w][j] ELSE r[v][k]
  BY <1>1, <1>2
<1>4. /\ p[w] \in Seq(S) /\ Len(p[w]) = Len(r[w])
      /\ \A k \in 1..Len(p[w]) : p[w][k] = IF k = j THEN r[v][i] ELSE r[w][k]
  BY <1>1, <1>2
<1>5. p \in [V -> Seq(S)] /\ \A u \in V : Len(p[u]) = Len(r[u])
  <2>1. ASSUME NEW u \in V PROVE p[u] \in Seq(S) /\ Len(p[u]) = Len(r[u])
    BY <1>2, <1>3, <1>4
  <2> QED BY <1>2, <2>1
<1>6. ASSUME NEW u \in V, NEW k \in 1..Len(p[u])
      PROVE  /\ fv(u, k) \in V /\ fk(u, k) \in 1..Len(r[fv(u, k)])
             /\ p[u][k] = r[fv(u, k)][fk(u, k)]
  <2>1. CASE u = v
    BY <1>1, <1>3, <2>1
  <2>2. CASE u = w
    BY <1>1, <1>4, <2>2
  <2>3. CASE u \notin {v, w}
    BY <1>2, <2>3
  <2> QED BY <2>1, <2>2, <2>3
<1>7. ASSUME NEW u \in V, NEW k \in 1..Len(r[u])
      PROVE  /\ fv(u, k) \in V /\ fk(u, k) \in 1..Len(p[fv(u, k)])
             /\ p[fv(u, k)][fk(u, k)] = r[u][k]
  <2>1. fv(u, k) \in V /\ fk(u, k) \in 1..Len(p[fv(u, k)])
    BY <1>1, <1>5
  <2>2. fv(fv(u, k), fk(u, k)) = u /\ fk(fv(u, k), fk(u, k)) = k
    OBVIOUS
  <2> HIDE DEF fv, fk
  <2> QED BY <1>6, <2>1, <2>2
<1>8. ASSUME NEW u \in V, NEW k \in 1..Len(p[u]), NEW x \in V, NEW l \in 1..Len(p[x]),
             fv(u, k) = fv(x, l), fk(u, k) = fk(x, l)
      PROVE  u = x /\ k = l
  BY <1>1, <1>5, <1>8
<1>9. ASSUME NEW u \in V, NEW k \in 1..Len(p[u]) PROVE p[u][k] \in A
  <2> HIDE DEF fv, fk
  <2>1. /\ fv(u, k) \in V /\ fk(u, k) \in 1..Len(r[fv(u, k)])
        /\ p[u][k] = r[fv(u, k)][fk(u, k)]
    BY <1>6
  <2> QED BY <2>1 DEF Partition
<1>10. \A b \in A : \E u \in V : \E k \in 1..Len(p[u]) : p[u][k] = b
  <2> SUFFICES ASSUME NEW b \in A PROVE \E u \in V : \E k \in 1..Len(p[u]) : p[u][k] = b
    OBVIOUS
  <2>1. PICK u \in V : \E k \in 1..Len(r[u]) : r[u][k] = b
    BY DEF Partition
  <2>2. PICK k \in 1..Len(r[u]) : r[u][k] = b
    BY <2>1
  <2> HIDE DEF fv, fk
  <2> QED BY <1>7, <2>2
<1>11. ASSUME NEW u \in V, NEW x \in V, NEW k \in 1..Len(p[u]), NEW l \in 1..Len(p[x]),
              p[u][k] = p[x][l]
       PROVE  u = x /\ k = l
  <2> HIDE DEF fv, fk
  <2>1. /\ fv(u, k) \in V /\ fk(u, k) \in 1..Len(r[fv(u, k)])
        /\ fv(x, l) \in V /\ fk(x, l) \in 1..Len(r[fv(x, l)])
        /\ r[fv(u, k)][fk(u, k)] = r[fv(x, l)][fk(x, l)]
    BY <1>6, <1>11
  <2>2. fv(u, k) = fv(x, l) /\ fk(u, k) = fk(x, l)
    BY <2>1 DEF Partition
  <2> QED BY <1>8, <2>2
<1>12. NoneEmpty(r, V) => NoneEmpty(p, V)
  BY <1>5 DEF NoneEmpty
<1> QED BY <1>5, <1>9, <1>10, <1>11, <1>12 DEF Partition

-----------------------------------------------------------------------------

(***************************************************************************)
(* The searches for a move.  T is a set that a search does not leave, U one*)
(* that it does not leave once it has considered a certain move.           *)
(***************************************************************************)

RelocatingInto == INSTANCE LoopProofs WITH
    Turn <- LAMBDA m, r, ds, v, i, w, best, j :
              Consider(best, Move("relocate", v, i, w, j,
                                  RelocateObjective(m, r, ds, v, i, w, j)))

RelocatingOf == INSTANCE LoopProofs WITH
    Turn <- LAMBDA m, r, ds, v, i, g, best, w :
              IF w = v THEN best ELSE RelocationsInto(m, r, ds, v, i, w, best)

RelocatingFrom == INSTANCE LoopProofs WITH
    Turn <- LAMBDA m, r, ds, v, e, g, best, i : RelocationsOf(m, r, ds, v, i, best)

Relocating == INSTANCE LoopProofs WITH
    Turn <- LAMBDA m, r, ds, d, e, g, best, v :
              IF GivesAway(r[v]) THEN RelocationsFrom(m, r, ds, v, best) ELSE best

SwappingAt == INSTANCE LoopProofs WITH
    Turn <- LAMBDA m, r, ds, v, w, i, best, j :
              Consider(best, Move("swap", v, i, w, j,
                                  SwapObjective(m, r, ds, v, i, w, j)))

SwappingBetween == INSTANCE LoopProofs WITH
    Turn <- LAMBDA m, r, ds, v, w, g, best, i : SwapsAt(m, r, ds, v, w, i, best)

SwappingFrom == INSTANCE LoopProofs WITH
    Turn <- LAMBDA m, r, ds, v, e, g, best, k : SwapsBetween(m, r, ds, v, v + k, best)

Swapping == INSTANCE LoopProofs WITH
    Turn <- LAMBDA m, r, ds, d, e, g, best, v : SwapsFrom(m, r, ds, v, best)

LEMMA LoopsOfRelocations ==
    ASSUME NEW m, NEW r, NEW ds, NEW start, NEW v, NEW i, NEW w
    PROVE  /\ RelocationsInto(m, r, ds, v, i, w, start)
                = RelocatingInto!Run(m, r, ds, v, i, w, start, Len(r[w]) + 1)
           /\ RelocationsOf(m, r, ds, v, i, start)
                = RelocatingOf!Run(m, r, ds, v, i, 0, start, Len(r))
           /\ RelocationsFrom(m, r, ds, v, start)
                = RelocatingFrom!Run(m, r, ds, v, 0, 0, start, Len(r[v]))
           /\ SearchRelocations(m, r, ds, start)
                = Relocating!Run(m, r, ds, 0, 0, 0, start, Len(r))
<1>1. RelocationsInto(m, r, ds, v, i, w, start)
        = RelocatingInto!Run(m, r, ds, v, i, w, start, Len(r[w]) + 1)
  BY DEF RelocationsInto, RelocatingInto!Run, Loop, Once, RelocatingInto!Loop,
         RelocatingInto!Once
<1>2. RelocationsOf(m, r, ds, v, i, start)
        = RelocatingOf!Run(m, r, ds, v, i, 0, start, Len(r))
  BY DEF RelocationsOf, RelocatingOf!Run, Loop, Once, RelocatingOf!Loop, RelocatingOf!Once
<1>3. RelocationsFrom(m, r, ds, v, start)
        = RelocatingFrom!Run(m, r, ds, v, 0, 0, start, Len(r[v]))
  BY DEF RelocationsFrom, RelocatingFrom!Run, Loop, Once, RelocatingFrom!Loop,
         RelocatingFrom!Once
<1>4. SearchRelocations(m, r, ds, start)
        = Relocating!Run(m, r, ds, 0, 0, 0, start, Len(r))
  BY DEF SearchRelocations, Relocating!Run, Loop, Once, Relocating!Loop, Relocating!Once
<1> QED BY <1>1, <1>2, <1>3, <1>4

LEMMA LoopsOfSwaps ==
    ASSUME NEW m, NEW r, NEW ds, NEW start, NEW v, NEW i, NEW w
    PROVE  /\ SwapsAt(m, r, ds, v, w, i, start)
                = SwappingAt!Run(m, r, ds, v, w, i, start, Len(r[w]))
           /\ SwapsBetween(m, r, ds, v, w, start)
                = SwappingBetween!Run(m, r, ds, v, w, 0, start, Len(r[v]))
           /\ SwapsFrom(m, r, ds, v, start)
                = SwappingFrom!Run(m, r, ds, v, 0, 0, start, Len(r) - v)
           /\ SearchSwaps(m, r, ds, start)
                = Swapping!Run(m, r, ds, 0, 0, 0, start, Len(r))
<1>1. SwapsAt(m, r, ds, v, w, i, start)
        = SwappingAt!Run(m, r, ds, v, w, i, start, Len(r[w]))
  BY DEF SwapsAt, SwappingAt!Run, Loop, Once, SwappingAt!Loop, SwappingAt!Once
<1>2. SwapsBetween(m, r, ds, v, w, start)
        = SwappingBetween!Run(m, r, ds, v, w, 0, start, Len(r[v]))
  BY DEF SwapsBetween, SwappingBetween!Run, Loop, Once, SwappingBetween!Loop,
         SwappingBetween!Once
<1>3. SwapsFrom(m, r, ds, v, start)
        = SwappingFrom!Run(m, r, ds, v, 0, 0, start, Len(r) - v)
  BY DEF SwapsFrom, SwappingFrom!Run, Loop, Once, SwappingFrom!Loop, SwappingFrom!Once
<1>4. SearchSwaps(m, r, ds, start)
        = Swapping!Run(m, r, ds, 0, 0, 0, start, Len(r))
  BY DEF SearchSwaps, Swapping!Run, Loop, Once, Swapping!Loop, Swapping!Once
<1> QED BY <1>1, <1>2, <1>3, <1>4

LEMMA ConsiderIsEither ==
    ASSUME NEW best, NEW candidate
    PROVE  Consider(best, candidate)
             = IF IsBetter(candidate.objective, best.objective) THEN candidate ELSE best
BY DEF Consider, Once

\* The moves of a kind that the searches consider.
RelocationOf(m, r, ds, v, i, w, j) ==
    Move("relocate", v, i, w, j, RelocateObjective(m, r, ds, v, i, w, j))
SwapOf(m, r, ds, v, i, w, j) ==
    Move("swap", v, i, w, j, SwapObjective(m, r, ds, v, i, w, j))

KeptByRelocations(m, r, ds, T) ==
    \A v, w \in 1..Len(r) : \A i \in 1..Len(r[v]), j \in 1..(Len(r[w]) + 1) :
        v # w /\ GivesAway(r[v]) =>
            \A b \in T : Consider(b, RelocationOf(m, r, ds, v, i, w, j)) \in T

KeptBySwaps(m, r, ds, T) ==
    \A v, w \in 1..Len(r) : \A i \in 1..Len(r[v]), j \in 1..Len(r[w]) :
        v < w => \A b \in T : Consider(b, SwapOf(m, r, ds, v, i, w, j)) \in T

Routings(r) == Len(r) \in Nat /\ \A v \in 1..Len(r) : Len(r[v]) \in Nat

LEMMA RelocationsStay ==
    ASSUME NEW m, NEW r, Routings(r), NEW ds, NEW T, KeptByRelocations(m, r, ds, T)
    PROVE  /\ \A v, w \in 1..Len(r) : \A i \in 1..Len(r[v]) :
                v # w /\ GivesAway(r[v]) =>
                    \A b \in T : RelocationsInto(m, r, ds, v, i, w, b) \in T
           /\ \A v \in 1..Len(r) : \A i \in 1..Len(r[v]) :
                GivesAway(r[v]) => \A b \in T : RelocationsOf(m, r, ds, v, i, b) \in T
           /\ \A v \in 1..Len(r) :
                GivesAway(r[v]) => \A b \in T : RelocationsFrom(m, r, ds, v, b) \in T
           /\ \A b \in T : SearchRelocations(m, r, ds, b) \in T
<1>1. ASSUME NEW v \in 1..Len(r), NEW w \in 1..Len(r), NEW i \in 1..Len(r[v]),
             v # w, GivesAway(r[v]), NEW b \in T
      PROVE  RelocationsInto(m, r, ds, v, i, w, b) \in T
  <2>1. Len(r[w]) + 1 \in Nat
    BY DEF Routings
  <2>2. \A j \in 1..(Len(r[w]) + 1) : \A y \in T :
           Consider(y, Move("relocate", v, i, w, j,
                            RelocateObjective(m, r, ds, v, i, w, j))) \in T
    BY <1>1 DEF KeptByRelocations, RelocationOf
  <2>3. RelocatingInto!Run(m, r, ds, v, i, w, b, Len(r[w]) + 1) \in T
    BY <2>1, <2>2, RelocatingInto!LoopStays
  <2> QED BY <2>3, LoopsOfRelocations
<1>2. ASSUME NEW v \in 1..Len(r), NEW i \in 1..Len(r[v]), GivesAway(r[v]), NEW b \in T
      PROVE  RelocationsOf(m, r, ds, v, i, b) \in T
  <2>1. Len(r) \in Nat
    BY DEF Routings
  <2>2. \A w \in 1..Len(r) : \A y \in T :
           (IF w = v THEN y ELSE RelocationsInto(m, r, ds, v, i, w, y)) \in T
    BY <1>1, <1>2
  <2>3. RelocatingOf!Run(m, r, ds, v, i, 0, b, Len(r)) \in T
    BY <2>1, <2>2, RelocatingOf!LoopStays
  <2> QED BY <2>3, LoopsOfRelocations
<1>3. ASSUME NEW v \in 1..Len(r), GivesAway(r[v]), NEW b \in T
      PROVE  RelocationsFrom(m, r, ds, v, b) \in T
  <2>1. Len(r[v]) \in Nat
    BY DEF Routings
  <2>2. \A i \in 1..Len(r[v]) : \A y \in T : RelocationsOf(m, r, ds, v, i, y) \in T
    BY <1>2, <1>3
  <2>3. RelocatingFrom!Run(m, r, ds, v, 0, 0, b, Len(r[v])) \in T
    BY <2>1, <2>2, RelocatingFrom!LoopStays
  <2> QED BY <2>3, LoopsOfRelocations
<1>4. ASSUME NEW b \in T PROVE SearchRelocations(m, r, ds, b) \in T
  <2>1. Len(r) \in Nat
    BY DEF Routings
  <2>2. \A v \in 1..Len(r) : \A y \in T :
           (IF GivesAway(r[v]) THEN RelocationsFrom(m, r, ds, v, y) ELSE y) \in T
    BY <1>3
  <2>3. Relocating!Run(m, r, ds, 0, 0, 0, b, Len(r)) \in T
    BY <2>1, <2>2, Relocating!LoopStays
  <2> QED BY <2>3, LoopsOfRelocations
<1> QED BY <1>1, <1>2, <1>3, <1>4

LEMMA RelocationsReach ==
    ASSUME NEW m, NEW r, Routings(r), NEW ds,
           NEW T, KeptByRelocations(m, r, ds, T), NEW U, KeptByRelocations(m, r, ds, U),
           NEW v \in 1..Len(r), GivesAway(r[v]), NEW w \in 1..Len(r), v # w,
           NEW i \in 1..Len(r[v]), NEW j \in 1..(Len(r[w]) + 1),
           \A b \in T : Consider(b, RelocationOf(m, r, ds, v, i, w, j)) \in U,
           NEW start \in T
    PROVE  SearchRelocations(m, r, ds, start) \in U
<1>0. Len(r) \in Nat /\ Len(r[v]) \in Nat /\ Len(r[w]) + 1 \in Nat
  BY DEF Routings
<1>1. ASSUME NEW b \in T PROVE RelocationsInto(m, r, ds, v, i, w, b) \in U
  <2>1. \A k \in 1..(Len(r[w]) + 1) :
          /\ \A y \in T : Consider(y, Move("relocate", v, i, w, k,
                                  RelocateObjective(m, r, ds, v, i, w, k))) \in T
          /\ \A y \in U : Consider(y, Move("relocate", v, i, w, k,
                                  RelocateObjective(m, r, ds, v, i, w, k))) \in U
    BY DEF KeptByRelocations, RelocationOf
  <2>2. \A y \in T : Consider(y, Move("relocate", v, i, w, j,
                               RelocateObjective(m, r, ds, v, i, w, j))) \in U
    BY DEF RelocationOf
  <2>3. RelocatingInto!Run(m, r, ds, v, i, w, b, Len(r[w]) + 1) \in U
    BY <1>0, <2>1, <2>2, RelocatingInto!LoopReaches
  <2> QED BY <2>3, LoopsOfRelocations
<1>2. ASSUME NEW b \in T PROVE RelocationsOf(m, r, ds, v, i, b) \in U
  <2>1. \A k \in 1..Len(r) :
          /\ \A y \in T :
                (IF k = v THEN y ELSE RelocationsInto(m, r, ds, v, i, k, y)) \in T
          /\ \A y \in U :
                (IF k = v THEN y ELSE RelocationsInto(m, r, ds, v, i, k, y)) \in U
    BY RelocationsStay
  <2>2. \A y \in T :
           (IF w = v THEN y ELSE RelocationsInto(m, r, ds, v, i, w, y)) \in U
    BY <1>1
  <2>3. RelocatingOf!Run(m, r, ds, v, i, 0, b, Len(r)) \in U
    BY <1>0, <2>1, <2>2, RelocatingOf!LoopReaches
  <2> QED BY <2>3, LoopsOfRelocations
<1>3. ASSUME NEW b \in T PROVE RelocationsFrom(m, r, ds, v, b) \in U
  <2>1. \A k \in 1..Len(r[v]) :
          /\ \A y \in T : RelocationsOf(m, r, ds, v, k, y) \in T
          /\ \A y \in U : RelocationsOf(m, r, ds, v, k, y) \in U
    BY RelocationsStay
  <2>2. RelocatingFrom!Run(m, r, ds, v, 0, 0, b, Len(r[v])) \in U
    BY <1>0, <1>2, <2>1, RelocatingFrom!LoopReaches
  <2> QED BY <2>2, LoopsOfRelocations
<1>4. SearchRelocations(m, r, ds, start) \in U
  <2>1. \A k \in 1..Len(r) :
          /\ \A y \in T :
                (IF GivesAway(r[k]) THEN RelocationsFrom(m, r, ds, k, y) ELSE y) \in T
          /\ \A y \in U :
                (IF GivesAway(r[k]) THEN RelocationsFrom(m, r, ds, k, y) ELSE y) \in U
    BY RelocationsStay
  <2>2. \A y \in T :
           (IF GivesAway(r[v]) THEN RelocationsFrom(m, r, ds, v, y) ELSE y) \in U
    BY <1>3
  <2>3. Relocating!Run(m, r, ds, 0, 0, 0, start, Len(r)) \in U
    BY <1>0, <2>1, <2>2, Relocating!LoopReaches
  <2> QED BY <2>3, LoopsOfRelocations
<1> QED BY <1>4

LEMMA SwapsStay ==
    ASSUME NEW m, NEW r, Routings(r), NEW ds, NEW T, KeptBySwaps(m, r, ds, T)
    PROVE  /\ \A v, w \in 1..Len(r) : \A i \in 1..Len(r[v]) :
                v < w => \A b \in T : SwapsAt(m, r, ds, v, w, i, b) \in T
           /\ \A v, w \in 1..Len(r) :
                v < w => \A b \in T : SwapsBetween(m, r, ds, v, w, b) \in T
           /\ \A v \in 1..Len(r) : \A b \in T : SwapsFrom(m, r, ds, v, b) \in T
           /\ \A b \in T : SearchSwaps(m, r, ds, b) \in T
<1>1. ASSUME NEW v \in 1..Len(r), NEW w \in 1..Len(r), NEW i \in 1..Len(r[v]),
             v < w, NEW b \in T
      PROVE  SwapsAt(m, r, ds, v, w, i, b) \in T
  <2>1. Len(r[w]) \in Nat
    BY DEF Routings
  <2>2. \A j \in 1..Len(r[w]) : \A y \in T :
           Consider(y, Move("swap", v, i, w, j,
                            SwapObjective(m, r, ds, v, i, w, j))) \in T
    BY <1>1 DEF KeptBySwaps, SwapOf
  <2>3. SwappingAt!Run(m, r, ds, v, w, i, b, Len(r[w])) \in T
    BY <2>1, <2>2, SwappingAt!LoopStays
  <2> QED BY <2>3, LoopsOfSwaps
<1>2. ASSUME NEW v \in 1..Len(r), NEW w \in 1..Len(r), v < w, NEW b \in T
      PROVE  SwapsBetween(m, r, ds, v, w, b) \in T
  <2>1. Len(r[v]) \in Nat
    BY DEF Routings
  <2>2. \A i \in 1..Len(r[v]) : \A y \in T : SwapsAt(m, r, ds, v, w, i, y) \in T
    BY <1>1, <1>2
  <2>3. SwappingBetween!Run(m, r, ds, v, w, 0, b, Len(r[v])) \in T
    BY <2>1, <2>2, SwappingBetween!LoopStays
  <2> QED BY <2>3, LoopsOfSwaps
<1>3. ASSUME NEW v \in 1..Len(r), NEW b \in T
      PROVE  SwapsFrom(m, r, ds, v, b) \in T
  <2>1. Len(r) - v \in Nat
    BY DEF Routings
  <2>2. \A k \in 1..(Len(r) - v) : v + k \in 1..Len(r) /\ v < v + k
    BY DEF Routings
  <2>3. \A k \in 1..(Len(r) - v) : \A y \in T :
           SwapsBetween(m, r, ds, v, v + k, y) \in T
    BY <1>2, <2>2
  <2>4. SwappingFrom!Run(m, r, ds, v, 0, 0, b, Len(r) - v) \in T
    BY <2>1, <2>3, SwappingFrom!LoopStays
  <2> QED BY <2>4, LoopsOfSwaps
<1>4. ASSUME NEW b \in T PROVE SearchSwaps(m, r, ds, b) \in T
  <2>1. Len(r) \in Nat
    BY DEF Routings
  <2>2. Swapping!Run(m, r, ds, 0, 0, 0, b, Len(r)) \in T
    BY <1>3, <2>1, Swapping!LoopStays
  <2> QED BY <2>2, LoopsOfSwaps
<1> QED BY <1>1, <1>2, <1>3, <1>4

LEMMA SwapsReach ==
    ASSUME NEW m, NEW r, Routings(r), NEW ds,
           NEW T, KeptBySwaps(m, r, ds, T), NEW U, KeptBySwaps(m, r, ds, U),
           NEW v \in 1..Len(r), NEW w \in 1..Len(r), v < w,
           NEW i \in 1..Len(r[v]), NEW j \in 1..Len(r[w]),
           \A b \in T : Consider(b, SwapOf(m, r, ds, v, i, w, j)) \in U,
           NEW start \in T
    PROVE  SearchSwaps(m, r, ds, start) \in U
<1>0. Len(r) \in Nat /\ Len(r[v]) \in Nat /\ Len(r[w]) \in Nat /\ Len(r) - v \in Nat
  BY DEF Routings
<1>1. ASSUME NEW b \in T PROVE SwapsAt(m, r, ds, v, w, i, b) \in U
  <2>1. \A k \in 1..Len(r[w]) :
          /\ \A y \in T : Consider(y, Move("swap", v, i, w, k,
                                  SwapObjective(m, r, ds, v, i, w, k))) \in T
          /\ \A y \in U : Consider(y, Move("swap", v, i, w, k,
                                  SwapObjective(m, r, ds, v, i, w, k))) \in U
    BY DEF KeptBySwaps, SwapOf
  <2>2. \A y \in T : Consider(y, Move("swap", v, i, w, j,
                               SwapObjective(m, r, ds, v, i, w, j))) \in U
    BY DEF SwapOf
  <2>3. SwappingAt!Run(m, r, ds, v, w, i, b, Len(r[w])) \in U
    BY <1>0, <2>1, <2>2, SwappingAt!LoopReaches
  <2> QED BY <2>3, LoopsOfSwaps
<1>2. ASSUME NEW b \in T PROVE SwapsBetween(m, r, ds, v, w, b) \in U
  <2>1. \A k \in 1..Len(r[v]) :
          /\ \A y \in T : SwapsAt(m, r, ds, v, w, k, y) \in T
          /\ \A y \in U : SwapsAt(m, r, ds, v, w, k, y) \in U
    BY SwapsStay
  <2>2. SwappingBetween!Run(m, r, ds, v, w, 0, b, Len(r[v])) \in U
    BY <1>0, <1>1, <2>1, SwappingBetween!LoopReaches
  <2> QED BY <2>2, LoopsOfSwaps
<1>3. ASSUME NEW b \in T PROVE SwapsFrom(m, r, ds, v, b) \in U
  <2>1. \A k \in 1..(Len(r) - v) : v + k \in 1..Len(r) /\ v < v + k
    BY <1>0
  <2>2. \A k \in 1..(Len(r) - v) :
          /\ \A y \in T : SwapsBetween(m, r, ds, v, v + k, y) \in T
          /\ \A y \in U : SwapsBetween(m, r, ds, v, v + k, y) \in U
    BY <2>1, SwapsStay
  <2>3. w - v \in 1..(Len(r) - v) /\ v + (w - v) = w
    BY <1>0
  <2>4. \A y \in T : SwapsBetween(m, r, ds, v, v + (w - v), y) \in U
    BY <1>2, <2>3
  <2>5. SwappingFrom!Run(m, r, ds, v, 0, 0, b, Len(r) - v) \in U
    BY <1>0, <2>2, <2>3, <2>4, SwappingFrom!LoopReaches
  <2> QED BY <2>5, LoopsOfSwaps
<1>4. SearchSwaps(m, r, ds, start) \in U
  <2>1. \A k \in 1..Len(r) :
          /\ \A y \in T : SwapsFrom(m, r, ds, k, y) \in T
          /\ \A y \in U : SwapsFrom(m, r, ds, k, y) \in U
    BY SwapsStay
  <2>2. Swapping!Run(m, r, ds, 0, 0, 0, start, Len(r)) \in U
    BY <1>0, <1>3, <2>1, Swapping!LoopReaches
  <2> QED BY <2>2, LoopsOfSwaps
<1> QED BY <1>4

-----------------------------------------------------------------------------

(***************************************************************************)
(* What a change of a route changes of its distance: m is a matrix of z    *)
(* stops, p the route r changed.                                           *)
(***************************************************************************)

Leg(m, r, i) == m[Node(r, i - 1)][Node(r, i)]

LEMMA LegIsNat ==
    ASSUME NEW z \in Nat, NEW m \in Matrices(z), NEW r \in Seq(1..z), NEW i
    PROVE  Leg(m, r, i) \in Nat
<1>1. Node(r, i - 1) \in 0..z /\ Node(r, i) \in 0..z
  BY NodesOfRoute
<1> QED BY <1>1 DEF Leg, Matrices

LEMMA LegUnfolds ==
    ASSUME NEW m, NEW r, NEW j \in Nat, NEW k, k = j + 1
    PROVE  Partial(m, r, k) = Partial(m, r, j) + Leg(m, r, k)
<1>1. k - 1 = j
  OBVIOUS
<1> QED BY <1>1, PartialUnfolds DEF Leg

\* n legs of p after the first a are n legs of r after the first b.
Follows(m, p, a, r, b, n) == \A i \in 1..n : Leg(m, p, a + i) = Leg(m, r, b + i)

LEMMA SameLegs ==
    ASSUME NEW z \in Nat, NEW m \in Matrices(z), NEW r \in Seq(1..z), NEW p \in Seq(1..z),
           NEW a \in Nat, NEW b \in Nat, NEW n \in Nat, Follows(m, p, a, r, b, n)
    PROVE  Partial(m, p, a + n) = Partial(m, p, a) + (Partial(m, r, b + n) - Partial(m, r, b))
<1> DEFINE S == {i \in 0..n : Partial(m, p, a + i)
                    = Partial(m, p, a) + (Partial(m, r, b + i) - Partial(m, r, b))}
<1>1. \A k \in Nat : Partial(m, p, k) \in Nat /\ Partial(m, r, k) \in Nat
  BY PartialIsNat
<1>2. 0 \in S
  <2>1. a + 0 = a /\ b + 0 = b /\ 0 \in 0..n
    OBVIOUS
  <2>2. Partial(m, p, a) = Partial(m, p, a) + (Partial(m, r, b) - Partial(m, r, b))
    BY <1>1
  <2> QED BY <2>1, <2>2
<1>3. ASSUME NEW i \in 1..n, i - 1 \in S PROVE i \in S
  <2>1. a + (i - 1) \in Nat /\ a + i = a + (i - 1) + 1
    OBVIOUS
  <2>2. b + (i - 1) \in Nat /\ b + i = b + (i - 1) + 1
    OBVIOUS
  <2>3. Partial(m, p, a + i) = Partial(m, p, a + (i - 1)) + Leg(m, p, a + i)
    BY <2>1, LegUnfolds
  <2>4. Partial(m, r, b + i) = Partial(m, r, b + (i - 1)) + Leg(m, r, b + i)
    BY <2>2, LegUnfolds
  <2>5. Leg(m, p, a + i) = Leg(m, r, b + i) /\ Leg(m, p, a + i) \in Nat
    BY LegIsNat DEF Follows
  <2>6. Partial(m, p, a + (i - 1))
          = Partial(m, p, a) + (Partial(m, r, b + (i - 1)) - Partial(m, r, b))
    BY <1>3
  <2>7. /\ Partial(m, p, a) \in Nat /\ Partial(m, r, b) \in Nat
        /\ Partial(m, p, a + (i - 1)) \in Nat /\ Partial(m, r, b + (i - 1)) \in Nat
    BY <1>1, <2>1, <2>2
  <2>8. Partial(m, p, a + i)
          = Partial(m, p, a) + (Partial(m, r, b + i) - Partial(m, r, b))
    BY SMTT(30), <2>3, <2>4, <2>5, <2>6, <2>7
  <2> QED BY <2>8
<1> HIDE DEF S
<1>4. \A i \in 0..n : i \in S
  BY <1>2, <1>3, Measuring!InductionUpTo
<1>5. n \in S
  BY <1>4
<1> QED BY <1>5 DEF S

LEMMA SameFirstLegs ==
    ASSUME NEW z \in Nat, NEW m \in Matrices(z), NEW r \in Seq(1..z), NEW p \in Seq(1..z),
           NEW n \in Nat, \A i \in 1..n : Leg(m, p, i) = Leg(m, r, i)
    PROVE  Partial(m, p, n) = Partial(m, r, n)
<1>1. Follows(m, p, 0, r, 0, n)
  BY DEF Follows
<1>2. Partial(m, p, 0 + n) = Partial(m, p, 0) + (Partial(m, r, 0 + n) - Partial(m, r, 0))
  BY <1>1, SameLegs
<1>3. Partial(m, p, 0) = 0 /\ Partial(m, r, 0) = 0
  BY NoLegs
<1>4. Partial(m, r, n) \in Nat
  BY PartialIsNat
<1>5. 0 + n = n
  OBVIOUS
<1> QED BY <1>2, <1>3, <1>4, <1>5

LEMMA AppendedDistance ==
    ASSUME NEW z \in Nat, NEW m \in Matrices(z), NEW r \in Seq(1..z), NEW stop \in 1..z,
           NEW p, p = Append(r, stop)
    PROVE  RouteDistance(m, p)
             = RouteDistance(m, r)
                 + (m[Node(r, Len(r))][stop] + m[stop][0] - m[Node(r, Len(r))][0])
<1>0. PICK n, x : n = Len(r) /\ x = Node(r, n)
  OBVIOUS
<1>1. p \in Seq(1..z) /\ Len(p) = n + 1 /\ n \in Nat
  BY <1>0
<1>2. /\ \A k \in 0..n : Node(p, k) = Node(r, k)
      /\ Node(p, n + 1) = stop /\ Node(p, n + 2) = 0 /\ Node(r, n + 1) = 0
  BY <1>0, <1>1 DEF Node
<1>3. Partial(m, p, n) = Partial(m, r, n)
  <2>1. \A i \in 1..n : Leg(m, p, i) = Leg(m, r, i)
    BY <1>1, <1>2 DEF Leg
  <2> QED BY <1>1, <2>1, SameFirstLegs
<1>4. n + 1 \in Nat /\ n + 1 - 1 = n /\ n + 2 = n + 1 + 1 /\ n + 2 - 1 = n + 1
  BY <1>1
<1>5. /\ Leg(m, p, n + 1) = m[x][stop] /\ Leg(m, p, n + 2) = m[stop][0]
      /\ Leg(m, r, n + 1) = m[x][0]
  <2>1. Node(p, n) = x
    BY <1>0, <1>1, <1>2
  <2> QED BY <1>0, <1>2, <1>4, <2>1 DEF Leg
<1>6. /\ Partial(m, p, n + 1) = Partial(m, p, n) + m[x][stop]
      /\ Partial(m, p, n + 2) = Partial(m, p, n + 1) + m[stop][0]
      /\ Partial(m, r, n + 1) = Partial(m, r, n) + m[x][0]
  <2>1. Partial(m, p, n + 1) = Partial(m, p, n) + Leg(m, p, n + 1)
    BY <1>1, LegUnfolds
  <2>2. Partial(m, p, n + 2) = Partial(m, p, n + 1) + Leg(m, p, n + 2)
    BY <1>4, LegUnfolds
  <2>3. Partial(m, r, n + 1) = Partial(m, r, n) + Leg(m, r, n + 1)
    BY <1>1, LegUnfolds
  <2> QED BY <1>5, <2>1, <2>2, <2>3
<1>7. /\ RouteDistance(m, p) = Partial(m, p, n + 2)
      /\ RouteDistance(m, r) = Partial(m, r, n + 1)
  <2>1. Len(p) + 1 = n + 2
    BY <1>1
  <2> QED BY <1>0, <2>1, LoopsOfARoute
<1>8. /\ Partial(m, r, n) \in Nat
      /\ m[x][stop] \in Nat /\ m[stop][0] \in Nat /\ m[x][0] \in Nat
  BY <1>1, <1>5, LegIsNat, PartialIsNat
<1>9. RouteDistance(m, p) = RouteDistance(m, r) + (m[x][stop] + m[stop][0] - m[x][0])
  BY SMTT(30), <1>3, <1>6, <1>7, <1>8
<1> QED BY <1>0, <1>9

\* p is r but for legs after the first a: b legs of p come to where c of r do, n
\* legs before the end.
IsSpliced(m, p, r, a, b, c, n) ==
    /\ a \in Nat /\ b \in Nat /\ c \in Nat /\ n \in Nat
    /\ Len(p) + 1 = b + n /\ Len(r) + 1 = c + n
    /\ Follows(m, p, 0, r, 0, a)
    /\ Follows(m, p, b, r, c, n)

LEMMA Spliced ==
    ASSUME NEW z \in Nat, NEW m \in Matrices(z), NEW r \in Seq(1..z), NEW p \in Seq(1..z),
           NEW a, NEW b, NEW c, NEW n, IsSpliced(m, p, r, a, b, c, n)
    PROVE  RouteDistance(m, p)
             = RouteDistance(m, r)
                 + ((Partial(m, p, b) - Partial(m, p, a)) - (Partial(m, r, c) - Partial(m, r, a)))
<1>0. /\ a \in Nat /\ b \in Nat /\ c \in Nat /\ n \in Nat /\ c + n \in Nat
      /\ Len(p) + 1 = b + n /\ Len(r) + 1 = c + n
  BY DEF IsSpliced
<1>1. Partial(m, p, a) = Partial(m, r, a)
  <2>1. \A i \in 1..a : Leg(m, p, i) = Leg(m, r, i)
    BY <1>0 DEF Follows, IsSpliced
  <2> QED BY <1>0, <2>1, SameFirstLegs
<1>2. Partial(m, p, b + n) = Partial(m, p, b) + (Partial(m, r, c + n) - Partial(m, r, c))
  <2>1. Follows(m, p, b, r, c, n)
    BY DEF IsSpliced
  <2> QED BY <1>0, <2>1, SameLegs
<1>3. RouteDistance(m, p) = Partial(m, p, b + n) /\ RouteDistance(m, r) = Partial(m, r, c + n)
  BY <1>0, LoopsOfARoute
<1>4. PICK w, x, y, v : /\ w = Partial(m, r, a) /\ x = Partial(m, p, b)
                        /\ y = Partial(m, r, c) /\ v = Partial(m, r, c + n)
  OBVIOUS
<1>5. w \in Nat /\ x \in Nat /\ y \in Nat /\ v \in Nat
  BY <1>0, <1>4, PartialIsNat
<1>6. RouteDistance(m, p) = x + (v - y) /\ RouteDistance(m, r) = v /\ Partial(m, p, a) = w
  BY <1>1, <1>2, <1>3, <1>4
<1>7. x + (v - y) = v + ((x - w) - (y - w))
  BY <1>5
<1> QED BY <1>4, <1>6, <1>7

LEMMA RemovedDistance ==
    ASSUME NEW z \in Nat, NEW m \in Matrices(z), NEW r \in Seq(1..z), NEW i \in 1..Len(r),
           NEW p, p = RemoveAt(r, i)
    PROVE  RouteDistance(m, p) = RouteDistance(m, r) + RemovalDelta(m, r, i)
<1>1. /\ p \in Seq(1..z) /\ Len(p) = Len(r) - 1 /\ Len(r) \in Nat
      /\ \A k \in 1..Len(p) : p[k] = IF k < i THEN r[k] ELSE r[k + 1]
  <2>1. /\ p \in Seq(1..z) /\ Len(p) = Len(r) - 1
        /\ \A k \in 1..Len(p) : p[k] = IF k < i THEN r[k] ELSE r[k + 1]
    BY Removed
  <2>2. Len(r) \in Nat
    OBVIOUS
  <2> QED BY <2>1, <2>2
<1>2. ASSUME NEW k \in 0..(i - 1) PROVE Node(p, k) = Node(r, k)
  BY <1>1 DEF Node
<1>3. ASSUME NEW k \in i..Len(r) PROVE Node(p, k) = Node(r, k + 1)
  <2>1. CASE k < Len(r)
    <3>1. k \in 1..Len(p) /\ ~(k < i) /\ k + 1 \in 1..Len(r)
      BY <1>1, <2>1
    <3> QED BY <1>1, <3>1 DEF Node
  <2>2. CASE k = Len(r)
    BY <1>1, <2>2 DEF Node
  <2> QED BY <1>1, <2>1, <2>2
<1>0. PICK n : n = Len(r) - i
  OBVIOUS
<1>4. n \in Nat /\ Len(r) = i + n /\ Len(p) + 1 = i + n /\ Len(r) + 1 = i + 1 + n
  BY <1>0, <1>1
<1>5. Follows(m, p, 0, r, 0, i - 1)
  <2>1. \A k \in 1..(i - 1) : Leg(m, p, k) = Leg(m, r, k)
    BY <1>2 DEF Leg
  <2> QED BY <2>1 DEF Follows
<1>6. Follows(m, p, i, r, i + 1, n)
  <2> SUFFICES ASSUME NEW k \in 1..n PROVE Leg(m, p, i + k) = Leg(m, r, i + 1 + k)
    BY DEF Follows
  <2>1. n \in Nat /\ Len(r) = i + n
    BY <1>4
  <2>2. /\ i + k - 1 \in i..Len(r) /\ i + k \in i..Len(r)
        /\ i + k - 1 + 1 = i + 1 + k - 1 /\ i + k + 1 = i + 1 + k
    BY <2>1
  <2>3. Node(p, i + k - 1) = Node(r, i + 1 + k - 1) /\ Node(p, i + k) = Node(r, i + 1 + k)
    BY <1>3, <2>2
  <2> QED BY <2>3 DEF Leg
<1>7. RouteDistance(m, p)
        = RouteDistance(m, r) + ((Partial(m, p, i) - Partial(m, p, i - 1))
                                   - (Partial(m, r, i + 1) - Partial(m, r, i - 1)))
  <2>1. i - 1 \in Nat /\ i \in Nat /\ i + 1 \in Nat
    OBVIOUS
  <2>2. IsSpliced(m, p, r, i - 1, i, i + 1, n)
    BY <1>4, <1>5, <1>6, <2>1 DEF IsSpliced
  <2>3. p \in Seq(1..z)
    BY <1>1
  <2> QED BY <2>2, <2>3, Spliced
<1>8. /\ Partial(m, p, i) = Partial(m, p, i - 1) + Leg(m, p, i)
      /\ Partial(m, r, i) = Partial(m, r, i - 1) + Leg(m, r, i)
      /\ Partial(m, r, i + 1) = Partial(m, r, i) + Leg(m, r, i + 1)
  <2>1. i - 1 \in Nat /\ i = i - 1 + 1 /\ i \in Nat
    OBVIOUS
  <2> QED BY <2>1, LegUnfolds
<1>9. Leg(m, p, i) = m[Node(r, i - 1)][Node(r, i + 1)]
  <2>1. i - 1 \in 0..(i - 1) /\ i \in i..Len(r)
    BY <1>1
  <2>2. Node(p, i - 1) = Node(r, i - 1) /\ Node(p, i) = Node(r, i + 1)
    BY <1>2, <1>3, <2>1
  <2> QED BY <2>2 DEF Leg
<1>10. /\ Leg(m, r, i) = m[Node(r, i - 1)][r[i]]
       /\ Leg(m, r, i + 1) = m[r[i]][Node(r, i + 1)]
  <2>1. Node(r, i) = r[i] /\ i + 1 - 1 = i
    BY DEF Node
  <2> QED BY <2>1 DEF Leg
<1>11. /\ Leg(m, p, i) \in Nat /\ Leg(m, r, i) \in Nat /\ Leg(m, r, i + 1) \in Nat
       /\ Partial(m, p, i - 1) \in Nat /\ Partial(m, r, i - 1) \in Nat
       /\ RouteDistance(m, r) \in Nat
  <2>1. /\ Leg(m, p, i) \in Nat /\ Leg(m, r, i) \in Nat
        /\ Leg(m, p, i + 1) \in Nat /\ Leg(m, r, i + 1) \in Nat
    BY <1>1, LegIsNat
  <2>2. i - 1 \in Nat
    OBVIOUS
  <2>3. Partial(m, p, i - 1) \in Nat /\ Partial(m, r, i - 1) \in Nat
    BY <1>1, <2>2, PartialIsNat
  <2>4. RouteDistance(m, r) \in Nat
    BY RouteDistanceIsNat
  <2> QED BY <2>1, <2>3, <2>4
<1>12. RemovalDelta(m, r, i) = Leg(m, p, i) - Leg(m, r, i) - Leg(m, r, i + 1)
  BY <1>9, <1>10 DEF RemovalDelta
<1> QED BY SMTT(30), <1>7, <1>8, <1>11, <1>12

LEMMA InsertedDistance ==
    ASSUME NEW z \in Nat, NEW m \in Matrices(z), NEW r \in Seq(1..z), NEW stop \in 1..z,
           NEW j \in 1..(Len(r) + 1), NEW p, p = InsertAt(r, j, stop)
    PROVE  RouteDistance(m, p) = RouteDistance(m, r) + InsertionDelta(m, r, stop, j)
<1>1. /\ p \in Seq(1..z) /\ Len(p) = Len(r) + 1 /\ Len(r) \in Nat
      /\ \A k \in 1..Len(p) :
            p[k] = IF k < j THEN r[k] ELSE IF k = j THEN stop ELSE r[k - 1]
  <2>1. PICK S : S = 1..z
    OBVIOUS
  <2>2. r \in Seq(S) /\ stop \in S
    BY <2>1
  <2>3. /\ p \in Seq(S) /\ Len(p) = Len(r) + 1
        /\ \A k \in 1..Len(p) :
              p[k] = IF k < j THEN r[k] ELSE IF k = j THEN stop ELSE r[k - 1]
    BY <2>2, Inserted
  <2> QED BY <2>1, <2>3
<1>2. ASSUME NEW k \in 0..(j - 1) PROVE Node(p, k) = Node(r, k)
  BY <1>1 DEF Node
<1>3. Node(p, j) = stop
  BY <1>1 DEF Node
<1>4. ASSUME NEW k \in j..(Len(r) + 1) PROVE Node(p, k + 1) = Node(r, k)
  <2>1. CASE k <= Len(r)
    <3>1. k + 1 \in 1..Len(p) /\ ~(k + 1 < j) /\ k + 1 # j /\ k + 1 - 1 = k /\ k \in 1..Len(r)
      BY <1>1, <2>1
    <3> QED BY <1>1, <3>1 DEF Node
  <2>2. CASE k = Len(r) + 1
    BY <1>1, <2>2 DEF Node
  <2> QED BY <1>1, <2>1, <2>2
<1>0. PICK n : n = Len(r) + 1 - j
  OBVIOUS
<1>5. n \in Nat /\ Len(p) + 1 = j + 1 + n /\ Len(r) + 1 = j + n
  BY <1>0, <1>1
<1>6. Follows(m, p, 0, r, 0, j - 1)
  <2>1. \A k \in 1..(j - 1) : Leg(m, p, k) = Leg(m, r, k)
    BY SMTT(30), <1>2 DEF Leg
  <2> QED BY <2>1 DEF Follows
<1>7. Follows(m, p, j + 1, r, j, n)
  <2> SUFFICES ASSUME NEW k \in 1..n PROVE Leg(m, p, j + 1 + k) = Leg(m, r, j + k)
    BY DEF Follows
  <2>1. n \in Nat /\ Len(r) + 1 = j + n
    BY <1>5
  <2>2. /\ j + k - 1 \in j..(Len(r) + 1) /\ j + k \in j..(Len(r) + 1)
        /\ j + 1 + k - 1 = j + k - 1 + 1 /\ j + 1 + k = j + k + 1
    BY <2>1
  <2>3. Node(p, j + 1 + k - 1) = Node(r, j + k - 1) /\ Node(p, j + 1 + k) = Node(r, j + k)
    BY <1>4, <2>2
  <2> QED BY <2>3 DEF Leg
<1>8. RouteDistance(m, p)
        = RouteDistance(m, r) + ((Partial(m, p, j + 1) - Partial(m, p, j - 1))
                                   - (Partial(m, r, j) - Partial(m, r, j - 1)))
  <2>1. j - 1 \in Nat /\ j \in Nat /\ j + 1 \in Nat
    OBVIOUS
  <2>2. IsSpliced(m, p, r, j - 1, j + 1, j, n)
    BY <1>5, <1>6, <1>7, <2>1 DEF IsSpliced
  <2>3. p \in Seq(1..z)
    BY <1>1
  <2> QED BY <2>2, <2>3, Spliced
<1>9. /\ Partial(m, p, j) = Partial(m, p, j - 1) + Leg(m, p, j)
      /\ Partial(m, p, j + 1) = Partial(m, p, j) + Leg(m, p, j + 1)
      /\ Partial(m, r, j) = Partial(m, r, j - 1) + Leg(m, r, j)
  <2>1. j - 1 \in Nat /\ j = j - 1 + 1 /\ j \in Nat
    OBVIOUS
  <2> QED BY <2>1, LegUnfolds
<1>10. /\ Leg(m, p, j) = m[Node(r, j - 1)][stop]
       /\ Leg(m, p, j + 1) = m[stop][Node(r, j)]
  <2>1. j + 1 - 1 = j /\ Node(p, j - 1) = Node(r, j - 1) /\ Node(p, j + 1) = Node(r, j)
    BY <1>1, <1>2, <1>4
  <2> QED BY <1>3, <2>1 DEF Leg
<1>11. /\ Leg(m, p, j) \in Nat /\ Leg(m, p, j + 1) \in Nat /\ Leg(m, r, j) \in Nat
       /\ Partial(m, p, j - 1) \in Nat /\ Partial(m, r, j - 1) \in Nat
       /\ RouteDistance(m, r) \in Nat
  <2>1. /\ Leg(m, p, j) \in Nat /\ Leg(m, r, j) \in Nat
        /\ Leg(m, p, j + 1) \in Nat /\ Leg(m, r, j + 1) \in Nat
    BY <1>1, LegIsNat
  <2>2. j - 1 \in Nat
    OBVIOUS
  <2>3. Partial(m, p, j - 1) \in Nat /\ Partial(m, r, j - 1) \in Nat
    BY <1>1, <2>2, PartialIsNat
  <2>4. RouteDistance(m, r) \in Nat
    BY RouteDistanceIsNat
  <2> QED BY <2>1, <2>3, <2>4
<1>12. InsertionDelta(m, r, stop, j) = Leg(m, p, j) + Leg(m, p, j + 1) - Leg(m, r, j)
  BY <1>10 DEF InsertionDelta, Leg
<1> QED BY <1>8, <1>9, <1>11, <1>12

IsReplaced(p, r, i, stop) ==
    Len(p) = Len(r) /\ p[i] = stop /\ \A k \in 1..Len(r) : k # i => p[k] = r[k]

LEMMA ReplacedDistance ==
    ASSUME NEW z \in Nat, NEW m \in Matrices(z), NEW r \in Seq(1..z), NEW stop \in 1..z,
           NEW i \in 1..Len(r), NEW p \in Seq(1..z), IsReplaced(p, r, i, stop)
    PROVE  RouteDistance(m, p) = RouteDistance(m, r) + ReplacementDelta(m, r, i, stop)
<1>0. PICK n : n = Len(r) - i
  OBVIOUS
<1>1. /\ Len(p) = Len(r) /\ Len(r) \in Nat
      /\ p[i] = stop /\ \A k \in 1..Len(r) : k # i => p[k] = r[k]
  BY DEF IsReplaced
<1>2. Node(p, i) = stop /\ \A k \in 0..(Len(r) + 1) : k # i => Node(p, k) = Node(r, k)
  BY <1>1 DEF Node
<1>3. n \in Nat /\ Len(r) = i + n /\ Len(p) + 1 = i + 1 + n /\ Len(r) + 1 = i + 1 + n
  BY <1>0, <1>1
<1>4. Follows(m, p, 0, r, 0, i - 1)
  <2>1. ASSUME NEW k \in 1..(i - 1) PROVE Leg(m, p, k) = Leg(m, r, k)
    <3>1. /\ k - 1 \in 0..(Len(r) + 1) /\ k - 1 # i
          /\ k \in 0..(Len(r) + 1) /\ k # i
      BY <1>1
    <3> QED BY <1>2, <3>1 DEF Leg
  <2> QED BY <2>1 DEF Follows
<1>5. Follows(m, p, i + 1, r, i + 1, n)
  <2> SUFFICES ASSUME NEW k \in 1..n PROVE Leg(m, p, i + 1 + k) = Leg(m, r, i + 1 + k)
    BY DEF Follows
  <2>1. n \in Nat /\ Len(r) = i + n
    BY <1>3
  <2>2. /\ i + 1 + k - 1 \in 0..(Len(r) + 1) /\ i + 1 + k - 1 # i
        /\ i + 1 + k \in 0..(Len(r) + 1) /\ i + 1 + k # i
    BY <2>1
  <2>3. Node(p, i + 1 + k - 1) = Node(r, i + 1 + k - 1) /\ Node(p, i + 1 + k) = Node(r, i + 1 + k)
    BY <1>2, <2>2
  <2> QED BY <2>3 DEF Leg
<1>6. RouteDistance(m, p)
        = RouteDistance(m, r) + ((Partial(m, p, i + 1) - Partial(m, p, i - 1))
                                   - (Partial(m, r, i + 1) - Partial(m, r, i - 1)))
  <2>1. i - 1 \in Nat /\ i + 1 \in Nat
    OBVIOUS
  <2>2. IsSpliced(m, p, r, i - 1, i + 1, i + 1, n)
    BY <1>3, <1>4, <1>5, <2>1 DEF IsSpliced
  <2> QED BY <2>2, Spliced
<1>7. /\ Partial(m, p, i) = Partial(m, p, i - 1) + Leg(m, p, i)
      /\ Partial(m, p, i + 1) = Partial(m, p, i) + Leg(m, p, i + 1)
      /\ Partial(m, r, i) = Partial(m, r, i - 1) + Leg(m, r, i)
      /\ Partial(m, r, i + 1) = Partial(m, r, i) + Leg(m, r, i + 1)
  <2>1. i - 1 \in Nat /\ i = i - 1 + 1 /\ i \in Nat
    OBVIOUS
  <2> QED BY <2>1, LegUnfolds
<1>8. /\ Leg(m, p, i) = m[Node(r, i - 1)][stop]
      /\ Leg(m, p, i + 1) = m[stop][Node(r, i + 1)]
      /\ Leg(m, r, i) = m[Node(r, i - 1)][r[i]]
      /\ Leg(m, r, i + 1) = m[r[i]][Node(r, i + 1)]
  <2>1. /\ i - 1 \in 0..(Len(r) + 1) /\ i - 1 # i
        /\ i + 1 \in 0..(Len(r) + 1) /\ i + 1 # i /\ i + 1 - 1 = i
    BY <1>1
  <2>2. /\ Node(p, i - 1) = Node(r, i - 1) /\ Node(p, i + 1) = Node(r, i + 1)
        /\ Node(r, i) = r[i]
    BY <1>2, <2>1 DEF Node
  <2> QED BY <1>2, <2>1, <2>2 DEF Leg
<1>9. /\ Leg(m, p, i) \in Nat /\ Leg(m, p, i + 1) \in Nat
      /\ Leg(m, r, i) \in Nat /\ Leg(m, r, i + 1) \in Nat
      /\ Partial(m, p, i - 1) \in Nat /\ Partial(m, r, i - 1) \in Nat
      /\ RouteDistance(m, r) \in Nat
  <2>1. /\ Leg(m, p, i) \in Nat /\ Leg(m, r, i) \in Nat
        /\ Leg(m, p, i + 1) \in Nat /\ Leg(m, r, i + 1) \in Nat
    BY <1>1, LegIsNat
  <2>2. i - 1 \in Nat
    OBVIOUS
  <2>3. Partial(m, p, i - 1) \in Nat /\ Partial(m, r, i - 1) \in Nat
    BY <1>1, <2>2, PartialIsNat
  <2>4. RouteDistance(m, r) \in Nat
    BY RouteDistanceIsNat
  <2> QED BY <2>1, <2>3, <2>4
<1>10. ReplacementDelta(m, r, i, stop)
         = Leg(m, p, i) + Leg(m, p, i + 1) - Leg(m, r, i) - Leg(m, r, i + 1)
  BY <1>8 DEF ReplacementDelta
<1>11. /\ Partial(m, p, i + 1) - Partial(m, p, i - 1) = Leg(m, p, i) + Leg(m, p, i + 1)
       /\ Partial(m, r, i + 1) - Partial(m, r, i - 1) = Leg(m, r, i) + Leg(m, r, i + 1)
  BY SMTT(30), <1>7, <1>9
<1> QED BY <1>6, <1>9, <1>10, <1>11

LEMMA LargerThanNothing ==
    ASSUME NEW x \in Nat PROVE Max({0, x}) = x
BY DEF Max

\* The objective predicted for a move is that of the routes after it.
LEMMA MovesAreMeasured ==
    ASSUME NEW z \in Nat, NEW m \in Matrices(z), NEW V, NEW r \in [V -> Seq(1..z)], NEW ds,
           ds = RouteDistances(m, r), NEW v \in V, NEW w \in V, v # w,
           NEW i \in 1..Len(r[v]), NEW j
    PROVE  /\ j \in 1..(Len(r[w]) + 1) =>
                RelocateObjective(m, r, ds, v, i, w, j)
                  = ObjectiveOf(m, Relocate(r, v, i, w, j))
           /\ j \in 1..Len(r[w]) =>
                SwapObjective(m, r, ds, v, i, w, j) = ObjectiveOf(m, Swap(r, v, i, w, j))
<1>1. /\ r[v] \in Seq(1..z) /\ r[w] \in Seq(1..z) /\ r[v][i] \in 1..z
      /\ DOMAIN r = V /\ ds = [u \in V |-> RouteDistance(m, r[u])]
  BY DEF RouteDistances
<1>2. RouteDistance(m, r[v]) \in Nat /\ RouteDistance(m, r[w]) \in Nat
  BY <1>1, RouteDistanceIsNat
<1>3. ASSUME j \in 1..(Len(r[w]) + 1)
      PROVE  RelocateObjective(m, r, ds, v, i, w, j) = ObjectiveOf(m, Relocate(r, v, i, w, j))
  <2>1. PICK p, x, y : /\ p = Relocate(r, v, i, w, j)
                       /\ x = RemoveAt(r[v], i) /\ y = InsertAt(r[w], j, r[v][i])
    OBVIOUS
  <2>2. p[v] = x /\ p[w] = y /\ DOMAIN p = V /\ \A u \in V \ {v, w} : p[u] = r[u]
    BY <1>1, <2>1 DEF Relocate
  <2>3. RouteDistance(m, x) = RouteDistance(m, r[v]) + RemovalDelta(m, r[v], i)
    BY <1>1, <2>1, RemovedDistance
  <2>4. RouteDistance(m, y) = RouteDistance(m, r[w]) + InsertionDelta(m, r[w], r[v][i], j)
    BY <1>1, <1>3, <2>1, InsertedDistance
  <2>5. RouteDistance(m, x) \in Nat
    <3>1. x \in Seq(1..z)
      BY <1>1, <2>1, Removed
    <3> QED BY <3>1, RouteDistanceIsNat
  <2>6. Max({0, ds[v] + RemovalDelta(m, r[v], i)}) = RouteDistance(m, x)
    BY <1>1, <2>3, <2>5, LargerThanNothing
  <2>7. ds[w] + InsertionDelta(m, r[w], r[v][i], j) = RouteDistance(m, y)
    BY <1>1, <2>4
  <2>8. [ds EXCEPT ![v] = RouteDistance(m, x), ![w] = RouteDistance(m, y)]
          = RouteDistances(m, p)
    BY <1>1, <2>2 DEF RouteDistances
  <2> QED BY <2>1, <2>6, <2>7, <2>8 DEF RelocateObjective, ObjectiveWithChanged, ObjectiveOf
<1>4. ASSUME j \in 1..Len(r[w])
      PROVE  SwapObjective(m, r, ds, v, i, w, j) = ObjectiveOf(m, Swap(r, v, i, w, j))
  <2>0. r[w][j] \in 1..z
    BY <1>1, <1>4
  <2>1. PICK p, x, y : /\ p = Swap(r, v, i, w, j)
                       /\ x = [r[v] EXCEPT ![i] = r[w][j]]
                       /\ y = [r[w] EXCEPT ![j] = r[v][i]]
    OBVIOUS
  <2>2. p[v] = x /\ p[w] = y /\ DOMAIN p = V /\ \A u \in V \ {v, w} : p[u] = r[u]
    BY <1>1, <2>1 DEF Swap
  <2>3. RouteDistance(m, x) = RouteDistance(m, r[v]) + ReplacementDelta(m, r[v], i, r[w][j])
    <3>1. x \in Seq(1..z) /\ IsReplaced(x, r[v], i, r[w][j])
      BY <1>1, <2>0, <2>1 DEF IsReplaced
    <3> QED BY <1>1, <2>0, <3>1, ReplacedDistance
  <2>4. RouteDistance(m, y) = RouteDistance(m, r[w]) + ReplacementDelta(m, r[w], j, r[v][i])
    <3>1. y \in Seq(1..z) /\ IsReplaced(y, r[w], j, r[v][i])
      BY <1>1, <1>4, <2>1 DEF IsReplaced
    <3> QED BY <1>1, <1>4, <3>1, ReplacedDistance
  <2>5. /\ ds[v] + ReplacementDelta(m, r[v], i, r[w][j]) = RouteDistance(m, x)
        /\ ds[w] + ReplacementDelta(m, r[w], j, r[v][i]) = RouteDistance(m, y)
    BY <1>1, <2>3, <2>4
  <2>6. [ds EXCEPT ![v] = RouteDistance(m, x), ![w] = RouteDistance(m, y)]
          = RouteDistances(m, p)
    BY <1>1, <2>2 DEF RouteDistances
  <2> QED BY <2>1, <2>5, <2>6 DEF SwapObjective, ObjectiveWithChanged, ObjectiveOf
<1> QED BY <1>3, <1>4

-----------------------------------------------------------------------------

(***************************************************************************)
(* The invariant                                                           *)
(***************************************************************************)

InputInv ==
    phase \in Running =>
        /\ input.depot \in Places /\ input.stops \in Seq(Places)
        /\ input.vehicles \in 1..Len(input.stops)
        /\ D = DistanceMatrix

\* The routes visit the assigned stops, each once, and none is empty once each
\* vehicle has its seed.
PlanInv ==
    phase \in Running =>
        /\ Partition(routes, Vehicles, assigned)
        /\ phase # "seed" => NoneEmpty(routes, Vehicles)
        /\ phase \notin {"seed", "assign"} => assigned = Stops
        /\ phase = "anneal" =>
              Partition(current, Vehicles, Stops) /\ NoneEmpty(current, Vehicles)

\* As many stops are assigned as vehicles have their seed, and nothing else.
SeedInv ==
    phase = "seed" =>
        /\ Cardinality(assigned) < input.vehicles
        /\ \A v \in Vehicles : Len(routes[v]) = IF v <= Cardinality(assigned) THEN 1 ELSE 0

TodoInv == ~Searching => todo = <<>>

IdleInv == phase \notin Running => routes = <<>>

MeasuredInv ==
    phase \in Running =>
        \A v \in Vehicles \ ToSet(todo) : distances[v] = RouteDistance(D, routes[v])

EngineInv ==
    /\ TypeOK /\ input \in Inputs
    /\ InputInv /\ PlanInv /\ SeedInv /\ TodoInv /\ IdleInv /\ MeasuredInv

LEMMA MatrixOfPlaces ==
    ASSUME input.depot \in Places, input.stops \in Seq(Places)
    PROVE  /\ \A a \in Nodes : PlaceOf(a) \in Places
           /\ Len(input.stops) \in Nat
           /\ DistanceMatrix \in Matrices(Len(input.stops))
           /\ \A a, b \in Nodes :
                DistanceMatrix[a][b] = Distance[PlaceOf(a)][PlaceOf(b)]
<1>1. \A a \in Nodes : PlaceOf(a) \in Places
  BY DEF Nodes, PlaceOf
<1>2. \A a, b \in Nodes : Distance[PlaceOf(a)][PlaceOf(b)] \in Nat
  BY <1>1, OptimizerAssumption
<1>3. Len(input.stops) \in Nat
  OBVIOUS
<1> QED BY <1>1, <1>2, <1>3 DEF DistanceMatrix, Matrices, Nodes

Closing == INSTANCE LoopProofs WITH
    Turn <- LAMBDA r, b, c, d, e, g, total, i :
              total + Distance[PlaceOf(Node(r, i - 1))][PlaceOf(Node(r, i))]

\* Along the coordinates or in the matrix: the distance is the same.
LEMMA ClosedIsRouteDistance ==
    ASSUME input.depot \in Places, input.stops \in Seq(Places), NEW r \in Seq(Stops)
    PROVE  ClosedRouteDistance(r) = RouteDistance(DistanceMatrix, r)
<1> DEFINE n == Len(r) + 1
           I == [i \in 0..n |-> {Partial(DistanceMatrix, r, i)}]
<1>1. n \in Nat /\ 0 \in I[0] /\ I[n] = {Partial(DistanceMatrix, r, n)}
  BY PartialUnfolds
<1>2. ASSUME NEW i \in 1..n, NEW total \in I[i - 1]
      PROVE  total + Distance[PlaceOf(Node(r, i - 1))][PlaceOf(Node(r, i))] \in I[i]
  <2>1. total = Partial(DistanceMatrix, r, i - 1)
    OBVIOUS
  <2>2. Node(r, i - 1) \in Nodes /\ Node(r, i) \in Nodes
    BY MatrixOfPlaces, NodesOfRoute DEF Nodes, Stops
  <2>3. Distance[PlaceOf(Node(r, i - 1))][PlaceOf(Node(r, i))] = Leg(DistanceMatrix, r, i)
    BY <2>2, MatrixOfPlaces DEF Leg
  <2>4. Partial(DistanceMatrix, r, i) = Partial(DistanceMatrix, r, i - 1) + Leg(DistanceMatrix, r, i)
    BY LegUnfolds
  <2>5. I[i] = {Partial(DistanceMatrix, r, i)}
    OBVIOUS
  <2> HIDE DEF I
  <2> QED BY <2>1, <2>3, <2>4, <2>5
<1> HIDE DEF I, n
<1>3. Closing!Run(r, 0, 0, 0, 0, 0, 0, n) \in I[n]
  BY <1>1, <1>2, Closing!LoopKeeps
<1>4. ClosedRouteDistance(r) = Closing!Run(r, 0, 0, 0, 0, 0, 0, n)
  BY DEF ClosedRouteDistance, Closing!Run, Loop, Once, Closing!Loop, Closing!Once, n
<1>5. RouteDistance(DistanceMatrix, r) = Partial(DistanceMatrix, r, n)
  BY LoopsOfARoute DEF n
<1> QED BY <1>1, <1>3, <1>4, <1>5

\* What the invariant says of a search that runs.
LEMMA RunningState ==
    ASSUME EngineInv, phase \in Running
    PROVE  /\ D \in Matrices(Len(input.stops)) /\ D = DistanceMatrix
           /\ routes \in [Vehicles -> Seq(Stops)] /\ distances \in [Vehicles -> Nat]
           /\ current \in [Vehicles -> Seq(Stops)]
           /\ assigned \in SUBSET Stops /\ todo \in Seq(Vehicles)
           /\ input.depot \in Places /\ input.stops \in Seq(Places)
           /\ Len(input.stops) \in Nat /\ input.vehicles \in Nat
           /\ input.vehicles >= 1 /\ input.vehicles <= Len(input.stops)
           /\ IsFiniteSet(Stops) /\ Cardinality(Stops) = Len(input.stops)
           /\ IsFiniteSet(assigned) /\ Cardinality(assigned) \in Nat
           /\ Partition(routes, Vehicles, assigned)
<1>1. /\ D \in [Nodes -> [Nodes -> Nat]]
      /\ routes \in [Vehicles -> Seq(Stops)] /\ distances \in [Vehicles -> Nat]
      /\ current \in [Vehicles -> Seq(Stops)]
      /\ assigned \in SUBSET Stops /\ todo \in Seq(Vehicles)
  BY DEF EngineInv, TypeOK
<1>2. /\ input.depot \in Places /\ input.stops \in Seq(Places)
      /\ input.vehicles \in 1..Len(input.stops) /\ D = DistanceMatrix
  BY DEF EngineInv, InputInv
<1>3. /\ Len(input.stops) \in Nat /\ input.vehicles \in Nat
      /\ input.vehicles >= 1 /\ input.vehicles <= Len(input.stops)
  BY <1>2
<1>4. IsFiniteSet(Stops) /\ Cardinality(Stops) = Len(input.stops)
  <2>1. IsFiniteSet(1..Len(input.stops)) /\ Cardinality(1..Len(input.stops)) = Len(input.stops)
    BY SMTT(30), <1>3, FS_Interval
  <2> QED BY <2>1 DEF Stops
<1>5. IsFiniteSet(assigned) /\ Cardinality(assigned) \in Nat
  BY <1>1, <1>4, FS_Subset, FS_CardinalityType
<1>6. D \in Matrices(Len(input.stops))
  BY <1>1 DEF Matrices, Nodes
<1>7. Partition(routes, Vehicles, assigned)
  BY DEF EngineInv, PlanInv
<1> QED BY <1>1, <1>2, <1>3, <1>4, <1>5, <1>6, <1>7

-----------------------------------------------------------------------------

(***************************************************************************)
(* Construction takes a stop that is not assigned.                         *)
(***************************************************************************)

Seeding == INSTANCE LoopProofs WITH
    Turn <- LAMBDA v, b, c, d, e, g, best, stop :
              IF stop \notin assigned /\ Separation(v, stop) > best.separation + Eps
              THEN [stop |-> stop, separation |-> Separation(v, stop)]
              ELSE best

LEMMA SeparationIsNat ==
    ASSUME EngineInv, phase = "seed", NEW v, v = Cardinality(assigned) + 1, NEW stop \in Stops
    PROVE  Separation(v, stop) \in Nat
<1>0. phase \in Running
  BY DEF Running
<1>1. /\ routes \in [Vehicles -> Seq(Stops)]
      /\ input.vehicles \in Nat /\ Len(input.stops) \in Nat
      /\ Cardinality(assigned) < input.vehicles
      /\ \A w \in Vehicles : w <= Cardinality(assigned) => Len(routes[w]) = 1
  BY <1>0, RunningState DEF EngineInv, SeedInv
<1>2. Cardinality(assigned) \in Nat
  BY <1>0, RunningState
<1>5. \A a \in 0..Len(input.stops) : D[a][stop] \in Nat
  <2>1. stop \in 0..Len(input.stops)
    BY <1>1 DEF Stops
  <2> QED BY <1>0, <2>1, RunningState DEF Matrices
<1>3. CASE v = 1
  BY <1>1, <1>3, <1>5 DEF Separation
<1>4. CASE v # 1
  <2> DEFINE T == {D[routes[w][1]][stop] : w \in 1..(v - 1)}
  <2>1. \A w \in 1..(v - 1) : D[routes[w][1]][stop] \in Nat
    <3> SUFFICES ASSUME NEW w \in 1..(v - 1) PROVE D[routes[w][1]][stop] \in Nat
      OBVIOUS
    <3>1. w \in Vehicles /\ w <= Cardinality(assigned)
      BY <1>1, <1>2 DEF Vehicles
    <3>2. routes[w] \in Seq(Stops) /\ Len(routes[w]) = 1
      BY <1>1, <3>1
    <3>3. routes[w][1] \in Stops
      BY <3>2
    <3>4. routes[w][1] \in 0..Len(input.stops)
      BY <1>1, <3>3 DEF Stops
    <3> QED BY <1>5, <3>4
  <2>2. T \in SUBSET Nat /\ T # {}
    <3>1. 1 \in 1..(v - 1)
      BY <1>2, <1>4
    <3> QED BY <2>1, <3>1
  <2>3. Separation(v, stop) = Min(T)
    BY <1>4 DEF Separation
  <2> HIDE DEF T
  <2>4. \E x \in T : \A y \in T : x <= y
    BY <2>2, Seeding!LeastNatural
  <2>5. Min(T) \in T
    BY <2>4, Zenon DEF Min
  <2> QED BY <2>2, <2>3, <2>5
<1> QED BY <1>3, <1>4

LEMMA SeedIsUnassigned ==
    ASSUME EngineInv, phase = "seed", NEW v, v = Cardinality(assigned) + 1
    PROVE  SeedOf(v) \in Stops \ assigned
<1> DEFINE n == Len(input.stops)
           start == [stop |-> 1, separation |-> -1 - Eps]
           Found == [stop : Stops \ assigned, separation : Nat]
           I == [i \in 0..n |-> Found \cup
                   (IF \A s \in 1..i : s \in assigned THEN {start} ELSE {})]
<1>0. phase \in Running
  BY DEF Running
<1>1. n \in Nat /\ Eps \in Nat
  BY <1>0, RoutesAssumption, RunningState
<1>2. start \in I[0]
  BY <1>1
<1>3. ASSUME NEW i \in 1..n, NEW best \in I[i - 1]
      PROVE  (IF i \notin assigned /\ Separation(v, i) > best.separation + Eps
              THEN [stop |-> i, separation |-> Separation(v, i)]
              ELSE best) \in I[i]
  <2>1. i \in Stops /\ Separation(v, i) \in Nat
    BY SeparationIsNat DEF Stops
  <2>2. CASE i \in assigned
    <3>1. (\A s \in 1..(i - 1) : s \in assigned) => \A s \in 1..i : s \in assigned
      BY <2>2
    <3> QED BY <2>2, <3>1
  <2>3. CASE i \notin assigned
    <3>1. [stop |-> i, separation |-> Separation(v, i)] \in I[i]
      BY <2>1, <2>3
    <3>2. CASE best \in Found
      BY <3>1, <3>2
    <3>3. CASE best = start
      <4>1. Separation(v, i) > best.separation + Eps
        BY <1>1, <2>1, <3>3
      <4> QED BY <2>3, <3>1, <4>1
    <3> QED BY <3>2, <3>3
  <2> QED BY <2>2, <2>3
<1>4. I[n] \subseteq Found
  <2>1. assigned \in SUBSET Stops /\ Cardinality(Stops) = n
    BY <1>0, RunningState
  <2>2. assigned # Stops
    <3>1. Cardinality(assigned) < input.vehicles
      BY DEF EngineInv, SeedInv
    <3> QED BY <1>0, <3>1, RunningState
  <2>3. ~ \A s \in 1..n : s \in assigned
    BY <2>1, <2>2 DEF Stops
  <2> QED BY <1>1, <2>3
<1>5. SeedOf(v) = Seeding!Run(v, 0, 0, 0, 0, 0, start, n).stop
  BY DEF SeedOf, Seeding!Run, Loop, Once, Seeding!Loop, Seeding!Once
<1> HIDE DEF I, n, start
<1>6. Seeding!Run(v, 0, 0, 0, 0, 0, start, n) \in I[n]
  BY <1>1, <1>2, <1>3, Seeding!LoopKeeps
<1> QED BY <1>4, <1>5, <1>6

BetterInsertion(v, best, stop) ==
    IF stop \in assigned THEN best
    ELSE IF best.found THEN Consider(best, Insertion(v, stop))
    ELSE Insertion(v, stop)

InsertingInto == INSTANCE LoopProofs WITH
    Turn <- LAMBDA v, b, c, d, e, g, best, stop : BetterInsertion(v, best, stop)

Inserting == INSTANCE LoopProofs WITH
    Turn <- LAMBDA a, b, c, d, e, g, best, v : InsertionsInto(v, best)

InsertionsFrom(V, A) == {Insertion(v, stop) : v \in V, stop \in Stops \ A}

LEMMA BestInsertionIsOne ==
    ASSUME EngineInv, phase = "assign", assigned # Stops
    PROVE  BestInsertion \in InsertionsFrom(Vehicles, assigned)
<1> DEFINE U == InsertionsFrom(Vehicles, assigned)
           none == [found |-> FALSE]
           T == U \cup {none}
<1>0. phase \in Running
  BY DEF Running
<1>1. /\ Len(input.stops) \in Nat /\ input.vehicles \in Nat /\ 1 \in 1..input.vehicles
      /\ assigned \in SUBSET Stops
  BY <1>0, RunningState
<1>2. PICK k \in Stops : k \notin assigned
  BY <1>1
<1>3. \A b \in U : b.found
  <2>1. \A v, stop : Insertion(v, stop).found
    BY DEF Insertion
  <2> QED BY <2>1 DEF InsertionsFrom
<1>4. ~none.found
  OBVIOUS
<1> HIDE DEF none
<1>5. ASSUME NEW v \in Vehicles, NEW b \in T PROVE InsertionsInto(v, b) \in U
  <2>1. \A stop \in Stops \ assigned : Insertion(v, stop) \in U
    BY DEF InsertionsFrom
  <2> HIDE DEF U
  <2>2. ASSUME NEW stop \in Stops, NEW y \in T
        PROVE  /\ BetterInsertion(v, y, stop) \in T
               /\ y \in U \/ stop \notin assigned => BetterInsertion(v, y, stop) \in U
    <3>1. CASE stop \in assigned
      BY <3>1 DEF BetterInsertion
    <3>2. CASE stop \notin assigned
      <4>1. Consider(y, Insertion(v, stop)) \in {y, Insertion(v, stop)}
        BY ConsiderIsEither
      <4>2. y.found => y \in U
        BY <1>4
      <4> QED BY <2>1, <3>2, <4>1, <4>2 DEF BetterInsertion
    <3> QED BY <3>1, <3>2
  <2>3. InsertingInto!Run(v, 0, 0, 0, 0, 0, b, Len(input.stops)) \in U
    <3>1. k \in 1..Len(input.stops) /\ \A y \in T : BetterInsertion(v, y, k) \in U
      BY <1>2, <2>2 DEF Stops
    <3>2. \A stop \in 1..Len(input.stops) :
            /\ \A y \in T : BetterInsertion(v, y, stop) \in T
            /\ \A y \in U : BetterInsertion(v, y, stop) \in U
      BY <2>2 DEF Stops
    <3> HIDE DEF T
    <3> QED BY <1>1, <3>1, <3>2, InsertingInto!LoopReaches
  <2>4. InsertionsInto(v, b) = InsertingInto!Run(v, 0, 0, 0, 0, 0, b, Len(input.stops))
    BY DEF InsertionsInto, InsertingInto!Run, Loop, Once, InsertingInto!Loop,
           InsertingInto!Once, BetterInsertion
  <2> QED BY <2>3, <2>4
<1>6. Inserting!Run(0, 0, 0, 0, 0, 0, none, input.vehicles) \in U
  <2>1. \A v \in 1..input.vehicles : \A b \in T : InsertionsInto(v, b) \in U
    BY <1>5 DEF Vehicles
  <2>2. \A v \in 1..input.vehicles : \A b \in T : InsertionsInto(v, b) \in T
    BY <2>1
  <2>3. \A v \in 1..input.vehicles : \A b \in U : InsertionsInto(v, b) \in U
    BY <2>1
  <2>4. none \in T
    OBVIOUS
  <2> HIDE DEF T, U
  <2> QED BY <1>1, <2>1, <2>2, <2>3, <2>4, Inserting!LoopReaches
<1>7. BestInsertion = Inserting!Run(0, 0, 0, 0, 0, 0, none, input.vehicles)
  BY DEF BestInsertion, Inserting!Run, Loop, Once, Inserting!Loop, Inserting!Once, none
<1> QED BY <1>6, <1>7

-----------------------------------------------------------------------------

(***************************************************************************)
(* The best move is none or one that can be made.                          *)
(***************************************************************************)

NoMove == [kind |-> "none", objective |-> Objective(distances)]

IsRelocation(p) ==
    /\ p[1] # p[3] /\ GivesAway(routes[p[1]])
    /\ p[2] \in 1..Len(routes[p[1]]) /\ p[4] \in 1..(Len(routes[p[3]]) + 1)
IsSwap(p) ==
    /\ p[1] # p[3]
    /\ p[2] \in 1..Len(routes[p[1]]) /\ p[4] \in 1..Len(routes[p[3]])

RelocationMoves ==
    {RelocationOf(D, routes, distances, p[1], p[2], p[3], p[4]) :
        p \in {p \in Vehicles \X Nat \X Vehicles \X Nat : IsRelocation(p)}}
SwapMoves ==
    {SwapOf(D, routes, distances, p[1], p[2], p[3], p[4]) :
        p \in {p \in Vehicles \X Nat \X Vehicles \X Nat : IsSwap(p)}}

LEMMA RoutesAreRoutings ==
    ASSUME EngineInv, phase \in Running
    PROVE  Routings(routes) /\ 1..Len(routes) = Vehicles
<1>1. routes \in [Vehicles -> Seq(Stops)] /\ input.vehicles \in Nat
  BY RunningState
<1>2. routes \in [1..input.vehicles -> Seq(Stops)]
  BY <1>1 DEF Vehicles
<1>3. Len(routes) = input.vehicles
  BY <1>1, <1>2
<1> QED BY <1>1, <1>3 DEF Routings, Vehicles

LEMMA AllMovesAreConsidered ==
    ASSUME EngineInv, phase \in Running,
           NEW v \in Vehicles, NEW w \in Vehicles, v # w, NEW i \in 1..Len(routes[v]), NEW j
    PROVE  /\ GivesAway(routes[v]) /\ j \in 1..(Len(routes[w]) + 1) =>
                RelocationOf(D, routes, distances, v, i, w, j) \in RelocationMoves
           /\ j \in 1..Len(routes[w]) =>
                SwapOf(D, routes, distances, v, i, w, j) \in SwapMoves
<1>1. routes[v] \in Seq(Stops) /\ routes[w] \in Seq(Stops)
  BY RunningState
<1>2. Len(routes[v]) \in Nat /\ Len(routes[w]) \in Nat
  BY <1>1
<1> DEFINE p == <<v, i, w, j>>
<1>3. p[1] = v /\ p[2] = i /\ p[3] = w /\ p[4] = j
  OBVIOUS
<1>4. ASSUME j \in Nat PROVE p \in Vehicles \X Nat \X Vehicles \X Nat
  BY <1>2, <1>4
<1> HIDE DEF p
<1>5. ASSUME GivesAway(routes[v]), j \in 1..(Len(routes[w]) + 1)
      PROVE  RelocationOf(D, routes, distances, v, i, w, j) \in RelocationMoves
  <2>1. p \in Vehicles \X Nat \X Vehicles \X Nat
    BY <1>2, <1>4, <1>5
  <2>2. IsRelocation(p)
    BY <1>3, <1>5 DEF IsRelocation
  <2>3. RelocationOf(D, routes, distances, p[1], p[2], p[3], p[4]) \in RelocationMoves
    BY <2>1, <2>2, Zenon DEF RelocationMoves
  <2> QED BY <1>3, <2>3
<1>6. ASSUME j \in 1..Len(routes[w])
      PROVE  SwapOf(D, routes, distances, v, i, w, j) \in SwapMoves
  <2>1. p \in Vehicles \X Nat \X Vehicles \X Nat
    BY <1>2, <1>4, <1>6
  <2>2. IsSwap(p)
    BY <1>3, <1>6 DEF IsSwap
  <2>3. SwapOf(D, routes, distances, p[1], p[2], p[3], p[4]) \in SwapMoves
    BY <2>1, <2>2, Zenon DEF SwapMoves
  <2> QED BY <1>3, <2>3
<1> QED BY <1>5, <1>6

\* What holds a set that has every move: no search leaves it.
LEMMA SearchesStayIn ==
    ASSUME EngineInv, phase \in Running, NEW T,
           \A b \in T : \A c \in RelocationMoves \cup SwapMoves : Consider(b, c) \in T
    PROVE  KeptByRelocations(D, routes, distances, T) /\ KeptBySwaps(D, routes, distances, T)
<1>1. 1..Len(routes) = Vehicles /\ Vehicles \subseteq Int
  BY RoutesAreRoutings DEF Vehicles
<1>2. ASSUME NEW v \in Vehicles, NEW w \in Vehicles, NEW i \in 1..Len(routes[v]),
             NEW j \in 1..(Len(routes[w]) + 1), v # w, GivesAway(routes[v]), NEW b \in T
      PROVE  Consider(b, RelocationOf(D, routes, distances, v, i, w, j)) \in T
  <2>1. RelocationOf(D, routes, distances, v, i, w, j) \in RelocationMoves
    BY <1>2, AllMovesAreConsidered
  <2> QED BY <2>1
<1>3. ASSUME NEW v \in Vehicles, NEW w \in Vehicles, NEW i \in 1..Len(routes[v]),
             NEW j \in 1..Len(routes[w]), v < w, NEW b \in T
      PROVE  Consider(b, SwapOf(D, routes, distances, v, i, w, j)) \in T
  <2>0. v # w
    BY <1>1, <1>3
  <2>1. SwapOf(D, routes, distances, v, i, w, j) \in SwapMoves
    BY <1>3, <2>0, AllMovesAreConsidered
  <2> QED BY <2>1
<1>4. KeptByRelocations(D, routes, distances, T)
  BY <1>1, <1>2 DEF KeptByRelocations
<1>5. KeptBySwaps(D, routes, distances, T)
  BY <1>1, <1>3 DEF KeptBySwaps
<1> QED BY <1>4, <1>5

LEMMA BestMoveIsOne ==
    ASSUME EngineInv, phase \in Running
    PROVE  BestMove \in {NoMove} \cup RelocationMoves \cup SwapMoves
<1> DEFINE T == {NoMove} \cup RelocationMoves \cup SwapMoves
<1>1. \A b \in T : \A c \in RelocationMoves \cup SwapMoves : Consider(b, c) \in T
  <2> SUFFICES ASSUME NEW b \in T, NEW c \in RelocationMoves \cup SwapMoves
               PROVE  Consider(b, c) \in T
    OBVIOUS
  <2>1. Consider(b, c) \in {b, c}
    BY ConsiderIsEither
  <2> QED BY <2>1
<1>2. NoMove \in T
  OBVIOUS
<1> HIDE DEF T
<1>3. KeptByRelocations(D, routes, distances, T) /\ KeptBySwaps(D, routes, distances, T)
  BY <1>1, SearchesStayIn
<1>4. Routings(routes)
  BY RoutesAreRoutings
<1>5. SearchRelocations(D, routes, distances, NoMove) \in T
  BY <1>2, <1>3, <1>4, RelocationsStay
<1>6. SearchSwaps(D, routes, distances, SearchRelocations(D, routes, distances, NoMove)) \in T
  BY <1>3, <1>4, <1>5, SwapsStay
<1> QED BY <1>6 DEF BestMove, NoMove, T

LEMMA MovesKeepThePlan ==
    ASSUME EngineInv, phase \in Running, NoneEmpty(routes, Vehicles),
           NEW c \in RelocationMoves \cup SwapMoves
    PROVE  /\ c.kind # "none" /\ c.v \in Vehicles /\ c.w \in Vehicles
           /\ Moved(routes, c) \in [Vehicles -> Seq(Stops)]
           /\ Partition(Moved(routes, c), Vehicles, assigned)
           /\ NoneEmpty(Moved(routes, c), Vehicles)
           /\ \A u \in Vehicles \ {c.v, c.w} : Moved(routes, c)[u] = routes[u]
<1>1. routes \in [Vehicles -> Seq(Stops)] /\ Partition(routes, Vehicles, assigned)
  BY RunningState
<1>0. PICK V, S, A, r : V = Vehicles /\ S = Stops /\ A = assigned /\ r = routes
  OBVIOUS
<1>4. r \in [V -> Seq(S)] /\ Partition(r, V, A) /\ NoneEmpty(r, V)
  BY <1>0, <1>1
<1>2. CASE c \in RelocationMoves
  <2>1. PICK p \in Vehicles \X Nat \X Vehicles \X Nat :
           /\ IsRelocation(p)
           /\ c = RelocationOf(D, routes, distances, p[1], p[2], p[3], p[4])
    BY <1>2 DEF RelocationMoves
  <2>2. PICK v, i, w, j : v = p[1] /\ i = p[2] /\ w = p[3] /\ j = p[4]
    OBVIOUS
  <2>3. v \in Vehicles /\ w \in Vehicles
    BY <2>2
  <2>4. /\ v # w /\ GivesAway(routes[v])
        /\ i \in 1..Len(routes[v]) /\ j \in 1..(Len(routes[w]) + 1)
    BY <2>1, <2>2 DEF IsRelocation
  <2>5. c.kind = "relocate" /\ c.v = v /\ c.i = i /\ c.w = w /\ c.j = j
    BY <2>1, <2>2 DEF RelocationOf, Move
  <2>6. PICK q : q = Relocate(routes, v, i, w, j)
    OBVIOUS
  <2>7. Moved(routes, c) = q
    BY <2>5, <2>6 DEF Moved
  <2>8. /\ q \in [Vehicles -> Seq(Stops)] /\ Partition(q, Vehicles, assigned)
        /\ NoneEmpty(q, Vehicles)
    <3>1. /\ v \in V /\ w \in V /\ v # w /\ GivesAway(r[v]) /\ i \in 1..Len(r[v])
          /\ j \in 1..(Len(r[w]) + 1) /\ q = Relocate(r, v, i, w, j)
      BY <1>0, <2>3, <2>4, <2>6
    <3>2. q \in [V -> Seq(S)] /\ Partition(q, V, A) /\ NoneEmpty(q, V)
      BY <1>4, <3>1, Relocated
    <3> QED BY <1>0, <3>2
  <2>9. \A u \in Vehicles \ {v, w} : q[u] = routes[u]
    BY <1>1, <2>6 DEF Relocate
  <2> QED BY <2>3, <2>5, <2>7, <2>8, <2>9
<1>3. CASE c \in SwapMoves
  <2>1. PICK p \in Vehicles \X Nat \X Vehicles \X Nat :
           IsSwap(p) /\ c = SwapOf(D, routes, distances, p[1], p[2], p[3], p[4])
    BY <1>3 DEF SwapMoves
  <2>2. PICK v, i, w, j : v = p[1] /\ i = p[2] /\ w = p[3] /\ j = p[4]
    OBVIOUS
  <2>3. v \in Vehicles /\ w \in Vehicles
    BY <2>2
  <2>4. v # w /\ i \in 1..Len(routes[v]) /\ j \in 1..Len(routes[w])
    BY <2>1, <2>2 DEF IsSwap
  <2>5. c.kind = "swap" /\ c.v = v /\ c.i = i /\ c.w = w /\ c.j = j
    BY <2>1, <2>2 DEF SwapOf, Move
  <2>6. PICK q : q = Swap(routes, v, i, w, j)
    OBVIOUS
  <2>7. Moved(routes, c) = q
    BY <2>5, <2>6 DEF Moved
  <2>8. /\ q \in [Vehicles -> Seq(Stops)] /\ Partition(q, Vehicles, assigned)
        /\ NoneEmpty(q, Vehicles)
    <3>1. /\ v \in V /\ w \in V /\ v # w /\ i \in 1..Len(r[v])
          /\ j \in 1..Len(r[w]) /\ q = Swap(r, v, i, w, j)
      BY <1>0, <2>3, <2>4, <2>6
    <3>2. q \in [V -> Seq(S)] /\ Partition(q, V, A) /\ NoneEmpty(q, V)
      BY <1>4, <3>1, Swapped
    <3> QED BY <1>0, <3>2
  <2>9. \A u \in Vehicles \ {v, w} : q[u] = routes[u]
    BY <1>1, <2>6 DEF Swap
  <2> QED BY <2>3, <2>5, <2>7, <2>8, <2>9
<1> QED BY <1>2, <1>3

-----------------------------------------------------------------------------

(***************************************************************************)
(* The invariant holds.                                                    *)
(***************************************************************************)

LEMMA SameInput ==
    ASSUME UNCHANGED input
    PROVE  Stops' = Stops /\ Vehicles' = Vehicles /\ Nodes' = Nodes
             /\ DistanceMatrix' = DistanceMatrix
BY DEF Stops, Vehicles, Nodes, DistanceMatrix, PlaceOf

LEMMA NoDistance ==
    ASSUME NEW m
    PROVE  RouteDistance(m, <<>>) = 0 + m[0][0]
<1>1. RouteDistance(m, <<>>) = Partial(m, <<>>, 1)
  <2>1. Len(<<>>) + 1 = 1
    OBVIOUS
  <2> QED BY <2>1, LoopsOfARoute
<1>2. Partial(m, <<>>, 1) = Partial(m, <<>>, 0) + Leg(m, <<>>, 1)
  BY LegUnfolds
<1>3. Partial(m, <<>>, 0) = 0
  BY PartialUnfolds
<1>4. Leg(m, <<>>, 1) = m[0][0]
  BY DEF Leg, Node
<1> QED BY <1>1, <1>2, <1>3, <1>4

LEMMA StartKeepsTheInvariant ==
    ASSUME EngineInv, Start
    PROVE  EngineInv'
<1>1. CASE IsValidInput(input.depot, input.stops, input.vehicles)
  <2>1. /\ phase' = "seed" /\ D' = DistanceMatrix
        /\ routes' = [v \in Vehicles |-> <<>>] /\ distances' = [v \in Vehicles |-> 0]
        /\ assigned' = {} /\ current' = routes' /\ phase = "called"
        /\ UNCHANGED <<input, todo, iteration, result>>
    BY <1>1 DEF Start, ConstructionState
  <2>2. input \in Inputs /\ todo = <<>> /\ iteration \in 0..Iterations
    BY <2>1 DEF EngineInv, TodoInv, Searching, TypeOK
  <2>3. /\ input.depot \in Places /\ input.stops \in Seq(Places)
        /\ input.vehicles \in 1..Len(input.stops) /\ Len(input.stops) \in Nat
    BY <1>1, <2>2, OptimizerAssumption DEF IsValidInput
  <2>4. /\ Stops' = Stops /\ Vehicles' = Vehicles /\ Nodes' = Nodes
        /\ DistanceMatrix' = DistanceMatrix
    BY <2>1, SameInput
  <2>5. phase' \in Running /\ phase' # "anneal"
    BY <2>1 DEF Running
  <2>6. /\ DistanceMatrix \in Matrices(Len(input.stops))
        /\ DistanceMatrix \in [Nodes -> [Nodes -> Nat]]
    BY <2>3, MatrixOfPlaces DEF Matrices, Nodes
  <2>7. TypeOK'
    <3>1. routes' \in [Vehicles -> Seq(Stops)] /\ distances' \in [Vehicles -> Nat]
      BY <2>1
    <3>2. todo' \in Seq(Vehicles)
      BY <2>1, <2>2
    <3> QED BY <2>1, <2>2, <2>4, <2>5, <2>6, <3>1, <3>2 DEF TypeOK
  <2>8. InputInv'
    BY <2>1, <2>3, <2>4 DEF InputInv
  <2>9. PlanInv'
    <3>1. Partition(routes', Vehicles, {})
      BY <2>1 DEF Partition
    <3> QED BY <2>1, <2>4, <3>1 DEF PlanInv
  <2>10. SeedInv'
    <3>1. Cardinality(assigned') = 0
      BY <2>1, FS_EmptySet
    <3>2. \A v \in Vehicles : Len(routes'[v]) = 0 /\ ~(v <= 0)
      BY <2>1, <2>3 DEF Vehicles
    <3>3. 0 < input'.vehicles
      BY <2>1, <2>3
    <3> QED BY <2>4, <3>1, <3>2, <3>3 DEF SeedInv
  <2>11. TodoInv'
    BY <2>1, <2>2 DEF TodoInv
  <2>13. IdleInv'
    BY <2>5 DEF IdleInv
  <2>12. MeasuredInv'
    <3>1. DistanceMatrix[0][0] = 0
      <4>1. 0 \in Nodes /\ PlaceOf(0) = input.depot
        BY <2>3 DEF Nodes, PlaceOf
      <4>2. DistanceMatrix[0][0] = Distance[PlaceOf(0)][PlaceOf(0)]
        BY <2>3, <4>1, MatrixOfPlaces
      <4>3. \A p \in Places : Distance[p][p] = 0
        BY OptimizerAssumption
      <4> QED BY <2>3, <4>1, <4>2, <4>3
    <3>2. RouteDistance(D', <<>>) = 0
      BY <2>1, <3>1, NoDistance
    <3> QED BY <2>1, <2>4, <3>2 DEF MeasuredInv
  <2> QED BY <2>1, <2>2, <2>7, <2>8, <2>9, <2>10, <2>11, <2>12, <2>13 DEF EngineInv
<1>2. CASE ~IsValidInput(input.depot, input.stops, input.vehicles)
  BY <1>2 DEF Start, EngineInv, TypeOK, InputInv, PlanInv, SeedInv, TodoInv, MeasuredInv,
              IdleInv, Searching, Running
<1> QED BY <1>1, <1>2

\* What a turn of a search that runs has to show.
NextPlan ==
    /\ routes' \in [Vehicles -> Seq(Stops)] /\ assigned' \in SUBSET Stops
    /\ Partition(routes', Vehicles, assigned')
    /\ phase' # "seed" => NoneEmpty(routes', Vehicles)
    /\ phase' \notin {"seed", "assign"} => assigned' = Stops

NextCurrent ==
    /\ current' \in [Vehicles -> Seq(Stops)]
    /\ phase' = "anneal" =>
          Partition(current', Vehicles, Stops) /\ NoneEmpty(current', Vehicles)

NextTodo ==
    /\ todo' \in Seq(Vehicles)
    /\ phase' \notin {"local", "final"} => todo' = <<>>

NextDistances ==
    /\ distances' \in [Vehicles -> Nat]
    /\ \A v \in Vehicles \ ToSet(todo') : distances'[v] = RouteDistance(D, routes'[v])

LEMMA TurnKeepsTheInvariant ==
    ASSUME EngineInv, phase \in Running, phase' \in Running, UNCHANGED <<input, D>>,
           NextPlan, NextCurrent, NextTodo, NextDistances, SeedInv',
           iteration' \in 0..Iterations
    PROVE  EngineInv'
<1>1. /\ Stops' = Stops /\ Vehicles' = Vehicles /\ Nodes' = Nodes
      /\ DistanceMatrix' = DistanceMatrix
  BY SameInput
<1>2. D \in [Nodes -> [Nodes -> Nat]] /\ input \in Inputs
  BY DEF EngineInv, TypeOK
<1>3. TypeOK'
  BY <1>1, <1>2 DEF TypeOK, NextPlan, NextCurrent, NextTodo, NextDistances
<1>4. InputInv'
  BY <1>1 DEF EngineInv, InputInv
<1>5. PlanInv'
  BY <1>1 DEF PlanInv, NextPlan, NextCurrent
<1>6. TodoInv'
  BY DEF TodoInv, NextTodo, Searching
<1>7. MeasuredInv'
  BY <1>1 DEF MeasuredInv, NextDistances
<1>8. IdleInv'
  BY DEF IdleInv
<1> QED BY <1>2, <1>3, <1>4, <1>5, <1>6, <1>7, <1>8 DEF EngineInv

LEMMA SeedVehicleKeepsTheInvariant ==
    ASSUME EngineInv, SeedVehicle
    PROVE  EngineInv'
<1>0. phase = "seed" /\ phase \in Running /\ todo = <<>> /\ iteration \in 0..Iterations
  BY DEF SeedVehicle, Running, EngineInv, TodoInv, TypeOK, Searching
<1>1. PICK n, v, stop : n = Cardinality(assigned) /\ v = n + 1 /\ stop = SeedOf(v)
  OBVIOUS
<1>2. /\ routes' = [routes EXCEPT ![v] = Append(@, stop)]
      /\ distances' = [distances EXCEPT ![v] = 2 * D[0][stop]]
      /\ assigned' = assigned \cup {stop}
      /\ phase' = IF v < input.vehicles THEN "seed" ELSE "assign"
      /\ UNCHANGED <<input, D, todo, current, iteration, result>>
  BY <1>1 DEF SeedVehicle
<1>3. /\ routes \in [Vehicles -> Seq(Stops)] /\ distances \in [Vehicles -> Nat]
      /\ current \in [Vehicles -> Seq(Stops)] /\ assigned \in SUBSET Stops
      /\ n \in Nat /\ input.vehicles \in Nat /\ Len(input.stops) \in Nat
      /\ D \in Matrices(Len(input.stops)) /\ IsFiniteSet(assigned)
      /\ Partition(routes, Vehicles, assigned)
  BY <1>0, <1>1, RunningState
<1>4. /\ n < input.vehicles
      /\ \A u \in Vehicles : Len(routes[u]) = IF u <= n THEN 1 ELSE 0
  BY <1>0, <1>1 DEF EngineInv, SeedInv
<1>5. v \in Vehicles /\ v \in Nat /\ ~(v <= n)
  BY <1>1, <1>3, <1>4 DEF Vehicles
<1>6. stop \in Stops /\ stop \notin assigned
  BY <1>0, <1>1, SeedIsUnassigned
<1>7. phase' \in Running /\ phase' \in {"seed", "assign"}
  BY <1>2 DEF Running
<1>8. Cardinality(assigned') = v
  BY <1>1, <1>2, <1>3, <1>6, FS_AddElement
<1>9. routes[v] = <<>>
  BY <1>3, <1>4, <1>5
<1>10. /\ \A u \in Vehicles : u # v => routes'[u] = routes[u] /\ distances'[u] = distances[u]
       /\ routes'[v] = Append(<<>>, stop) /\ distances'[v] = 2 * D[0][stop]
  BY <1>2, <1>3, <1>5, <1>9
<1>11. \A u \in Vehicles : Len(routes'[u]) = IF u <= v THEN 1 ELSE 0
  <2> SUFFICES ASSUME NEW u \in Vehicles PROVE Len(routes'[u]) = IF u <= v THEN 1 ELSE 0
    OBVIOUS
  <2>1. u \in Int /\ v = n + 1 /\ n \in Nat
    BY <1>1, <1>3 DEF Vehicles
  <2>2. CASE u = v
    <3>1. Len(Append(<<>>, stop)) = 1
      OBVIOUS
    <3> QED BY <1>10, <2>1, <2>2, <3>1
  <2>3. CASE u # v
    <3>1. u <= v <=> u <= n
      BY <2>1, <2>3
    <3> QED BY <1>4, <1>10, <2>3, <3>1
  <2> QED BY <2>2, <2>3
<1>12. NextPlan
  <2>1. routes' \in [Vehicles -> Seq(Stops)] /\ Partition(routes', Vehicles, assigned')
    <3>1. PICK V, S, A, r, p, q : /\ V = Vehicles /\ S = Stops /\ A = assigned
                                  /\ r = routes /\ p = routes'
                                  /\ q = Append(routes[v], stop)
      OBVIOUS
    <3>2. r \in [V -> Seq(S)] /\ Partition(r, V, A)
      BY <1>3, <3>1
    <3>3. v \in V
      BY <1>5, <3>1
    <3>4. stop \in S
      BY <1>6, <3>1
    <3>5. stop \notin A
      BY <1>6, <3>1
    <3>6. q = Append(r[v], stop) /\ p = [r EXCEPT ![v] = q]
      BY <1>2, <3>1
    <3>7. p \in [V -> Seq(S)] /\ Partition(p, V, A \cup {stop})
      BY <3>2, <3>3, <3>4, <3>5, <3>6, Appended
    <3> QED BY <1>2, <3>1, <3>7
  <2>2. phase' # "seed" => NoneEmpty(routes', Vehicles)
    <3>1. phase' # "seed" => \A u \in Vehicles : u <= v
      BY <1>2, <1>3, <1>5 DEF Vehicles
    <3>2. ASSUME phase' # "seed", NEW u \in Vehicles PROVE Len(routes'[u]) > 0
      <4>1. Len(routes'[u]) = 1
        BY <1>11, <3>1, <3>2
      <4> QED BY <4>1
    <3> QED BY <3>2 DEF NoneEmpty
  <2>3. assigned' \in SUBSET Stops
    BY <1>2, <1>3, <1>6
  <2> QED BY <1>7, <2>1, <2>2, <2>3 DEF NextPlan
<1>13. NextCurrent /\ NextTodo
  BY <1>0, <1>2, <1>3, <1>7 DEF NextCurrent, NextTodo
<1>14. NextDistances
  <2>1. D[0][stop] \in Nat /\ D[stop][0] = D[0][stop] /\ D[0][0] = 0
    <3>1. /\ input.depot \in Places /\ input.stops \in Seq(Places)
          /\ D = DistanceMatrix /\ 0 \in Nodes /\ stop \in Nodes
      BY <1>0, <1>6, RunningState DEF Nodes, Stops
    <3>2. /\ PlaceOf(0) \in Places /\ PlaceOf(stop) \in Places
          /\ D[0][stop] = Distance[PlaceOf(0)][PlaceOf(stop)]
          /\ D[stop][0] = Distance[PlaceOf(stop)][PlaceOf(0)]
          /\ D[0][0] = Distance[PlaceOf(0)][PlaceOf(0)]
      BY <3>1, MatrixOfPlaces
    <3>3. \A p, q \in Places : Distance[p][p] = 0 /\ Distance[p][q] = Distance[q][p]
                                 /\ Distance[p][q] \in Nat
      BY OptimizerAssumption
    <3> QED BY <3>2, <3>3
  <2>2. RouteDistance(D, routes'[v]) = 2 * D[0][stop]
    <3>1. RouteDistance(D, <<>>) = 0
      <4>1. RouteDistance(D, <<>>) = 0 + D[0][0]
        BY NoDistance
      <4> QED BY <2>1, <4>1
    <3>2. <<>> \in Seq(1..Len(input.stops)) /\ stop \in 1..Len(input.stops)
      BY <1>6 DEF Stops
    <3>3. RouteDistance(D, Append(<<>>, stop))
            = RouteDistance(D, <<>>)
                + (D[Node(<<>>, Len(<<>>))][stop] + D[stop][0] - D[Node(<<>>, Len(<<>>))][0])
      BY <1>3, <3>2, AppendedDistance
    <3>4. Node(<<>>, Len(<<>>)) = 0
      BY DEF Node
    <3>5. RouteDistance(D, Append(<<>>, stop)) = 0 + (D[0][stop] + D[stop][0] - D[0][0])
      BY <3>1, <3>3, <3>4
    <3> QED BY <1>10, <2>1, <3>5
  <2>3. ToSet(todo) = {}
    BY <1>0 DEF ToSet
  <2>4. \A u \in Vehicles : distances[u] = RouteDistance(D, routes[u])
    BY <1>0, <2>3 DEF EngineInv, MeasuredInv
  <2>5. distances' \in [Vehicles -> Nat]
    BY <1>2, <1>3, <1>5, <2>1
  <2> QED BY <1>10, <2>2, <2>4, <2>5 DEF NextDistances
<1>15. SeedInv'
  <2>1. Vehicles' = Vehicles
    BY <1>2, SameInput
  <2>2. phase' = "seed" => v < input'.vehicles
    BY <1>2
  <2> QED BY <1>8, <1>11, <2>1, <2>2 DEF SeedInv
<1> QED BY <1>0, <1>2, <1>7, <1>12, <1>13, <1>14, <1>15, TurnKeepsTheInvariant

\* What holds of a search that runs and is not seeding.
LEMMA SearchingState ==
    ASSUME EngineInv, phase \in Running, phase # "seed"
    PROVE  /\ iteration \in 0..Iterations
           /\ NoneEmpty(routes, Vehicles)
           /\ phase # "assign" => assigned = Stops
           /\ phase = "anneal" => Partition(current, Vehicles, Stops) /\ NoneEmpty(current, Vehicles)
           /\ todo = <<>> => ToSet(todo) = {} /\ distances = RouteDistances(D, routes)
           /\ \A v \in Vehicles \ ToSet(todo) : distances[v] = RouteDistance(D, routes[v])
<1>1. \A v \in Vehicles \ ToSet(todo) : distances[v] = RouteDistance(D, routes[v])
  BY DEF EngineInv, MeasuredInv
<1>2. todo = <<>> => ToSet(todo) = {}
  BY DEF ToSet
<1>3. routes \in [Vehicles -> Seq(Stops)] /\ distances \in [Vehicles -> Nat]
  BY RunningState
<1>4. todo = <<>> => distances = RouteDistances(D, routes)
  BY <1>1, <1>2, <1>3 DEF RouteDistances
<1>5. iteration \in 0..Iterations
  BY DEF EngineInv, TypeOK
<1>6. /\ NoneEmpty(routes, Vehicles)
      /\ phase # "assign" => assigned = Stops
      /\ phase = "anneal" => Partition(current, Vehicles, Stops) /\ NoneEmpty(current, Vehicles)
  BY DEF EngineInv, PlanInv
<1> QED BY <1>1, <1>2, <1>4, <1>5, <1>6

LEMMA AssignStopKeepsTheInvariant ==
    ASSUME EngineInv, AssignStop
    PROVE  EngineInv'
<1>0. phase = "assign" /\ phase \in Running /\ todo = <<>> /\ assigned # Stops
  BY DEF AssignStop, Running, EngineInv, TodoInv, Searching
<1>1. PICK best : best = BestInsertion
  OBVIOUS
<1>2. /\ routes' = [routes EXCEPT ![best.v] = Append(@, best.stop)]
      /\ distances' = [distances EXCEPT ![best.v] = @ + best.added]
      /\ assigned' = assigned \cup {best.stop}
      /\ UNCHANGED <<input, D, phase, todo, current, iteration, result>>
  BY <1>1 DEF AssignStop
<1>3. PICK v \in Vehicles, stop \in Stops : stop \notin assigned /\ best = Insertion(v, stop)
  <2>1. best \in InsertionsFrom(Vehicles, assigned)
    BY <1>0, <1>1, BestInsertionIsOne
  <2> QED BY <2>1 DEF InsertionsFrom
<1>4. best.v = v /\ best.stop = stop /\ best.added = AddedDistance(v, stop)
  BY <1>3 DEF Insertion
<1>5. /\ routes \in [Vehicles -> Seq(Stops)] /\ distances \in [Vehicles -> Nat]
      /\ current \in [Vehicles -> Seq(Stops)] /\ assigned \in SUBSET Stops
      /\ Len(input.stops) \in Nat /\ D \in Matrices(Len(input.stops))
      /\ todo \in Seq(Vehicles) /\ Partition(routes, Vehicles, assigned)
  BY <1>0, RunningState
<1>6. /\ iteration \in 0..Iterations /\ NoneEmpty(routes, Vehicles)
      /\ \A u \in Vehicles : distances[u] = RouteDistance(D, routes[u])
  BY <1>0, SearchingState
<1>7. PICK q, added : q = Append(routes[v], stop) /\ added = AddedDistance(v, stop)
  OBVIOUS
<1>8. /\ routes' = [routes EXCEPT ![v] = q]
      /\ distances' = [distances EXCEPT ![v] = @ + added]
      /\ assigned' = assigned \cup {stop}
  BY <1>2, <1>4, <1>7
<1>9. /\ \A u \in Vehicles : u # v => routes'[u] = routes[u] /\ distances'[u] = distances[u]
      /\ routes'[v] = q /\ distances'[v] = distances[v] + added
  BY <1>5, <1>8
<1>10. /\ q \in Seq(Stops) /\ Len(q) = Len(routes[v]) + 1 /\ Len(routes[v]) \in Nat
  BY <1>5, <1>7
<1>11. RouteDistance(D, q) = distances[v] + added /\ RouteDistance(D, q) \in Nat
  <2>1. PICK z : z = Len(input.stops)
    OBVIOUS
  <2>2. /\ z \in Nat /\ D \in Matrices(z) /\ routes[v] \in Seq(1..z) /\ stop \in 1..z
        /\ q \in Seq(1..z)
    BY <1>5, <1>10, <2>1 DEF Stops
  <2>3. RouteDistance(D, q) = RouteDistance(D, routes[v])
          + (D[Node(routes[v], Len(routes[v]))][stop] + D[stop][0]
               - D[Node(routes[v], Len(routes[v]))][0])
    BY <1>7, <2>2, AppendedDistance
  <2>4. RouteDistance(D, q) = distances[v] + added
    BY <1>6, <1>7, <2>3 DEF AddedDistance
  <2>5. RouteDistance(D, q) \in Nat
    BY <2>2, RouteDistanceIsNat
  <2> QED BY <2>4, <2>5
<1>12. NextPlan
  <2>1. routes' \in [Vehicles -> Seq(Stops)] /\ Partition(routes', Vehicles, assigned')
    <3>1. PICK V, S, A, r, p : /\ V = Vehicles /\ S = Stops /\ A = assigned
                               /\ r = routes /\ p = routes'
      OBVIOUS
    <3>2. r \in [V -> Seq(S)] /\ Partition(r, V, A)
      BY <1>5, <3>1
    <3>3. v \in V
      BY <1>3, <3>1
    <3>4. stop \in S
      BY <1>3, <3>1
    <3>5. stop \notin A
      BY <1>3, <3>1
    <3>6. q = Append(r[v], stop) /\ p = [r EXCEPT ![v] = q]
      BY <1>7, <1>8, <3>1
    <3>7. p \in [V -> Seq(S)] /\ Partition(p, V, A \cup {stop})
      BY <3>2, <3>3, <3>4, <3>5, <3>6, Appended
    <3> QED BY <1>8, <3>1, <3>7
  <2>2. NoneEmpty(routes', Vehicles)
    <3>1. ASSUME NEW u \in Vehicles PROVE Len(routes'[u]) > 0
      <4>1. CASE u = v
        <5>1. Len(routes'[v]) > 0
          BY <1>9, <1>10
        <5> QED BY <4>1, <5>1
      <4>2. CASE u # v
        BY <1>6, <1>9, <4>2 DEF NoneEmpty
      <4> QED BY <4>1, <4>2
    <3> QED BY <3>1 DEF NoneEmpty
  <2>3. assigned' \in SUBSET Stops
    BY <1>5, <1>8
  <2> QED BY <1>0, <1>2, <2>1, <2>2, <2>3 DEF NextPlan
<1>13. NextCurrent /\ NextTodo /\ SeedInv'
  BY <1>0, <1>2, <1>5 DEF NextCurrent, NextTodo, SeedInv
<1>14. NextDistances
  <2>1. distances' \in [Vehicles -> Nat]
    BY <1>5, <1>8, <1>11
  <2>2. \A u \in Vehicles : distances'[u] = RouteDistance(D, routes'[u])
    BY <1>6, <1>9, <1>11
  <2> QED BY <2>1, <2>2 DEF NextDistances
<1>15. phase' \in Running /\ iteration' \in 0..Iterations
  BY <1>0, <1>2, <1>6
<1> QED BY <1>0, <1>2, <1>12, <1>13, <1>14, <1>15, TurnKeepsTheInvariant

LEMMA AllVehiclesAreToDo ==
    ASSUME EngineInv, phase \in Running
    PROVE  AllVehicles \in Seq(Vehicles) /\ ToSet(AllVehicles) = Vehicles
<1>1. input.vehicles \in Nat
  BY RunningState
<1>2. AllVehicles \in [1..input.vehicles -> Vehicles]
  BY <1>1 DEF AllVehicles, Vehicles
<1>3. AllVehicles \in Seq(Vehicles)
  BY <1>1, <1>2
<1>4. ToSet(AllVehicles) = Vehicles
  BY <1>2 DEF ToSet, AllVehicles, Vehicles
<1> QED BY <1>3, <1>4

LEMMA PhasesKeepTheInvariant ==
    ASSUME EngineInv, ConstructionEnds \/ LocalSearchEnds \/ AnnealEnds \/ Return
    PROVE  EngineInv'
<1>0. /\ phase \in Running /\ phase # "seed" /\ phase' \in Running
      /\ phase' \notin {"seed", "assign"}
      /\ UNCHANGED <<input, D, routes, distances, assigned, iteration>>
  BY DEF ConstructionEnds, LocalSearchEnds, AnnealEnds, Return, Running, Searching
<1>1. /\ routes \in [Vehicles -> Seq(Stops)] /\ distances \in [Vehicles -> Nat]
      /\ current \in [Vehicles -> Seq(Stops)] /\ assigned \in SUBSET Stops
      /\ todo \in Seq(Vehicles) /\ Partition(routes, Vehicles, assigned)
  BY <1>0, RunningState
<1>2. /\ iteration \in 0..Iterations /\ NoneEmpty(routes, Vehicles)
      /\ phase # "assign" => assigned = Stops
      /\ todo = <<>> => ToSet(todo) = {}
      /\ \A v \in Vehicles \ ToSet(todo) : distances[v] = RouteDistance(D, routes[v])
  BY <1>0, SearchingState
<1>3. assigned = Stops
  BY <1>2 DEF ConstructionEnds, LocalSearchEnds, AnnealEnds, Return
<1>4. \/ todo' = todo /\ todo = <<>>
      \/ todo' = AllVehicles /\ phase' \in {"local", "final"}
  BY DEF ConstructionEnds, LocalSearchEnds, AnnealEnds, Return
<1>5. AllVehicles \in Seq(Vehicles) /\ ToSet(AllVehicles) = Vehicles
  BY <1>0, AllVehiclesAreToDo
<1>6. NextPlan
  BY <1>0, <1>1, <1>2, <1>3 DEF NextPlan
<1>7. NextCurrent
  <2>1. phase' = "anneal" => current' = routes
    BY DEF ConstructionEnds, LocalSearchEnds, AnnealEnds, Return
  <2>2. current' \in {current, routes}
    BY DEF ConstructionEnds, LocalSearchEnds, AnnealEnds, Return
  <2> QED BY <1>1, <1>2, <1>3, <2>1, <2>2 DEF NextCurrent
<1>8. NextTodo
  BY <1>1, <1>4, <1>5 DEF NextTodo
<1>9. NextDistances
  <2>1. \A v \in Vehicles \ ToSet(todo') : distances[v] = RouteDistance(D, routes[v])
    BY <1>2, <1>4, <1>5
  <2> QED BY <1>0, <1>1, <2>1 DEF NextDistances
<1>10. SeedInv' /\ iteration' \in 0..Iterations
  BY <1>0, <1>2 DEF SeedInv
<1> QED BY <1>0, <1>6, <1>7, <1>8, <1>9, <1>10, TurnKeepsTheInvariant

LEMMA HeadAndTail ==
    ASSUME NEW V, NEW t \in Seq(V), t # <<>>, NEW v, v = Head(t)
    PROVE  /\ v \in V /\ Tail(t) \in Seq(V)
           /\ ToSet(t) \subseteq ToSet(Tail(t)) \cup {v} /\ v \in ToSet(t)
<1>1. v \in V /\ Tail(t) \in Seq(V) /\ Len(t) \in Nat /\ Len(t) # 0
  OBVIOUS
<1>2. /\ Len(Tail(t)) = Len(t) - 1 /\ v = t[1]
      /\ \A i \in 1..(Len(t) - 1) : Tail(t)[i] = t[i + 1]
  OBVIOUS
<1>3. ASSUME NEW i \in 1..Len(t), i # 1
      PROVE  \E k \in 1..(Len(t) - 1) : Tail(t)[k] = t[i]
  <2>1. i - 1 \in 1..(Len(t) - 1) /\ i - 1 + 1 = i
    BY <1>1, <1>3
  <2> QED BY <1>2, <2>1
<1>4. 1 \in 1..Len(t)
  BY <1>1
<1>5. /\ ToSet(t) = {t[i] : i \in 1..Len(t)}
      /\ ToSet(Tail(t)) = {Tail(t)[i] : i \in 1..(Len(t) - 1)}
  <2>1. DOMAIN t = 1..Len(t) /\ DOMAIN Tail(t) = 1..(Len(t) - 1)
    BY <1>1, <1>2
  <2> QED BY <2>1 DEF ToSet
<1>6. ASSUME NEW u \in ToSet(t) PROVE u \in ToSet(Tail(t)) \cup {v}
  <2>1. PICK i \in 1..Len(t) : u = t[i]
    BY <1>5
  <2> QED BY <1>2, <1>3, <1>5, <2>1
<1>7. v \in ToSet(t)
  BY <1>2, <1>4, <1>5
<1> QED BY <1>1, <1>6, <1>7

LEMMA TwoOptPassKeepsTheInvariant ==
    ASSUME EngineInv, TwoOptPass
    PROVE  EngineInv'
<1>0. /\ phase \in Running /\ Searching /\ phase \notin {"seed", "assign", "anneal"}
      /\ phase' = phase /\ todo # <<>>
      /\ UNCHANGED <<input, D, assigned, current, iteration>>
  BY DEF TwoOptPass, Running, Searching
<1>1. /\ routes \in [Vehicles -> Seq(Stops)] /\ distances \in [Vehicles -> Nat]
      /\ current \in [Vehicles -> Seq(Stops)] /\ assigned \in SUBSET Stops
      /\ todo \in Seq(Vehicles) /\ Partition(routes, Vehicles, assigned)
      /\ input.depot \in Places /\ input.stops \in Seq(Places) /\ D = DistanceMatrix
      /\ D \in Matrices(Len(input.stops)) /\ Len(input.stops) \in Nat
  BY <1>0, RunningState
<1>2. /\ iteration \in 0..Iterations /\ NoneEmpty(routes, Vehicles) /\ assigned = Stops
      /\ \A u \in Vehicles \ ToSet(todo) : distances[u] = RouteDistance(D, routes[u])
  BY <1>0, SearchingState
<1>3. PICK v, q : v = Head(todo) /\ q = TwoOpt(D, routes[v])
  OBVIOUS
<1>4. /\ v \in Vehicles /\ Tail(todo) \in Seq(Vehicles)
      /\ ToSet(todo) \subseteq ToSet(Tail(todo)) \cup {v} /\ v \in ToSet(todo)
  BY <1>0, <1>1, <1>3, HeadAndTail
<1>5. routes[v] \in Seq(Stops) /\ Distinct(routes[v])
  BY <1>1, <1>4 DEF Partition, Distinct
<1>6. NextCurrent /\ SeedInv'
  BY <1>0, <1>1 DEF NextCurrent, SeedInv
<1>7. CASE q # routes[v]
  <2>1. routes' = [routes EXCEPT ![v] = q] /\ UNCHANGED <<distances, todo>>
    BY <1>3, <1>7 DEF TwoOptPass
  <2>2. q \in Orders(routes[v])
    BY <1>3, <1>5, TwoOptIsAnOrder
  <2>3. /\ routes' \in [Vehicles -> Seq(Stops)] /\ Partition(routes', Vehicles, assigned)
        /\ NoneEmpty(routes', Vehicles)
    <3>1. PICK V, S, A, r, p : /\ V = Vehicles /\ S = Stops /\ A = assigned
                               /\ r = routes /\ p = routes'
      OBVIOUS
    <3>2. /\ r \in [V -> Seq(S)] /\ Partition(r, V, A) /\ NoneEmpty(r, V)
          /\ v \in V /\ q \in Orders(r[v]) /\ p = [r EXCEPT ![v] = q]
      BY <1>1, <1>2, <1>4, <2>1, <2>2, <3>1
    <3>3. p \in [V -> Seq(S)] /\ Partition(p, V, A) /\ NoneEmpty(p, V)
      BY <3>2, Reordered
    <3> QED BY <3>1, <3>3
  <2>4. NextPlan
    BY <1>0, <1>1, <1>2, <2>3 DEF NextPlan
  <2>5. NextDistances
    <3>1. \A u \in Vehicles \ ToSet(todo) : routes'[u] = routes[u]
      BY <1>1, <1>4, <2>1
    <3> QED BY <1>1, <1>2, <2>1, <3>1 DEF NextDistances
  <2>6. NextTodo
    BY <1>0, <1>1, <2>1 DEF NextTodo, Searching
  <2> QED BY <1>0, <1>2, <1>6, <2>4, <2>5, <2>6, TurnKeepsTheInvariant
<1>8. CASE q = routes[v]
  <2>1. /\ distances' = [distances EXCEPT ![v] = ClosedRouteDistance(routes[v])]
        /\ todo' = Tail(todo) /\ routes' = routes
    BY <1>3, <1>8 DEF TwoOptPass
  <2>2. ClosedRouteDistance(routes[v]) = RouteDistance(D, routes[v])
    BY <1>1, <1>5, ClosedIsRouteDistance
  <2>3. RouteDistance(D, routes[v]) \in Nat
    <3>1. routes[v] \in Seq(1..Len(input.stops))
      BY <1>5 DEF Stops
    <3> QED BY <1>1, <3>1, RouteDistanceIsNat
  <2>4. NextPlan
    BY <1>0, <1>1, <1>2, <2>1 DEF NextPlan
  <2>5. NextDistances
    <3>1. distances' \in [Vehicles -> Nat]
      BY <1>1, <2>1, <2>2, <2>3
    <3>2. \A u \in Vehicles \ ToSet(todo') : distances'[u] = RouteDistance(D, routes[u])
      BY <1>1, <1>2, <1>4, <2>1, <2>2
    <3> QED BY <2>1, <3>1, <3>2 DEF NextDistances
  <2>6. NextTodo
    BY <1>0, <1>4, <2>1 DEF NextTodo, Searching
  <2> QED BY <1>0, <1>2, <1>6, <2>4, <2>5, <2>6, TurnKeepsTheInvariant
<1> QED BY <1>7, <1>8

LEMMA MakeMoveKeepsTheInvariant ==
    ASSUME EngineInv, MakeMove
    PROVE  EngineInv'
<1>0. /\ phase \in Running /\ phase \notin {"seed", "assign", "anneal"}
      /\ phase \in {"local", "final"} /\ phase' = phase /\ todo = <<>>
      /\ UNCHANGED <<input, D, distances, assigned, current, iteration>>
  BY DEF MakeMove, Running, Searching
<1>1. /\ routes \in [Vehicles -> Seq(Stops)] /\ distances \in [Vehicles -> Nat]
      /\ current \in [Vehicles -> Seq(Stops)] /\ assigned \in SUBSET Stops
  BY <1>0, RunningState
<1>2. /\ iteration \in 0..Iterations /\ NoneEmpty(routes, Vehicles) /\ assigned = Stops
      /\ ToSet(todo) = {}
      /\ \A u \in Vehicles \ ToSet(todo) : distances[u] = RouteDistance(D, routes[u])
  BY <1>0, SearchingState
<1>3. PICK c : c = BestMove
  OBVIOUS
<1>4. c.kind # "none" /\ routes' = Moved(routes, c) /\ todo' = <<c.v, c.w>>
  BY <1>3 DEF MakeMove, Changed
<1>5. c \in RelocationMoves \cup SwapMoves
  <2>1. c \in {NoMove} \cup RelocationMoves \cup SwapMoves
    BY <1>0, <1>3, BestMoveIsOne
  <2>2. NoMove.kind = "none"
    BY DEF NoMove
  <2> QED BY <1>4, <2>1, <2>2
<1>6. /\ c.v \in Vehicles /\ c.w \in Vehicles
      /\ routes' \in [Vehicles -> Seq(Stops)]
      /\ Partition(routes', Vehicles, assigned) /\ NoneEmpty(routes', Vehicles)
      /\ \A u \in Vehicles \ {c.v, c.w} : routes'[u] = routes[u]
  BY <1>0, <1>2, <1>4, <1>5, MovesKeepThePlan
<1>7. NextPlan
  BY <1>0, <1>1, <1>2, <1>6 DEF NextPlan
<1>8. NextTodo
  BY <1>0, <1>4, <1>6 DEF NextTodo
<1>9. NextDistances
  <2>1. c.v \in ToSet(todo') /\ c.w \in ToSet(todo')
    BY <1>4 DEF ToSet
  <2>2. \A u \in Vehicles \ ToSet(todo') : distances[u] = RouteDistance(D, routes'[u])
    BY <1>2, <1>6, <2>1
  <2> QED BY <1>0, <1>1, <2>2 DEF NextDistances
<1>10. NextCurrent /\ SeedInv'
  BY <1>0, <1>1 DEF NextCurrent, SeedInv
<1> QED BY <1>0, <1>2, <1>7, <1>8, <1>9, <1>10, TurnKeepsTheInvariant

\* What the annealing proposes is a plan again.
LEMMA ProposalsKeepThePlan ==
    ASSUME EngineInv, phase = "anneal", NEW candidate \in Proposals(current)
    PROVE  /\ candidate \in [Vehicles -> Seq(Stops)]
           /\ Partition(candidate, Vehicles, Stops) /\ NoneEmpty(candidate, Vehicles)
<1>0. phase \in Running /\ phase # "seed"
  BY DEF Running
<1>1. PICK V, S, r, p : V = Vehicles /\ S = Stops /\ r = current /\ p = candidate
  OBVIOUS
<1>2. r \in [V -> Seq(S)] /\ Partition(r, V, S) /\ NoneEmpty(r, V) /\ S \subseteq Nat \ {0}
  BY <1>0, <1>1, RunningState, SearchingState DEF Stops
<1>3. candidate \in Relocations(current) \cup Swaps(current) \cup Reversals(current)
  BY DEF Proposals
<1>4. CASE candidate \in Relocations(current)
  <2>1. PICK m \in V \X S \X V \X S :
           /\ m[1] # m[3] /\ GivesAway(r[m[1]])
           /\ m[2] <= Len(r[m[1]]) /\ m[4] <= Len(r[m[3]]) + 1
           /\ p = Relocate(r, m[1], m[2], m[3], m[4])
    BY <1>1, <1>4 DEF Relocations
  <2>2. PICK v, i, w, j : v = m[1] /\ i = m[2] /\ w = m[3] /\ j = m[4]
    OBVIOUS
  <2>3. /\ v \in V /\ w \in V /\ v # w /\ GivesAway(r[v]) /\ i \in S /\ j \in S
        /\ i <= Len(r[v]) /\ j <= Len(r[w]) + 1 /\ p = Relocate(r, v, i, w, j)
    BY <2>1, <2>2
  <2>4. i \in 1..Len(r[v]) /\ j \in 1..(Len(r[w]) + 1)
    <3>1. Len(r[v]) \in Nat /\ Len(r[w]) \in Nat
      BY <1>2, <2>3
    <3>2. i \in Nat \ {0} /\ j \in Nat \ {0}
      BY <1>2, <2>3
    <3> QED BY <2>3, <3>1, <3>2
  <2>5. p \in [V -> Seq(S)] /\ Partition(p, V, S) /\ NoneEmpty(p, V)
    <3>1. v \in V /\ w \in V /\ v # w /\ GivesAway(r[v])
      BY <2>3
    <3>2. p = Relocate(r, v, i, w, j)
      BY <2>3
    <3>3. r \in [V -> Seq(S)] /\ Partition(r, V, S) /\ NoneEmpty(r, V)
      BY <1>2
    <3> QED BY <2>4, <3>1, <3>2, <3>3, Relocated
  <2> QED BY <1>1, <2>5
<1>5. CASE candidate \in Swaps(current)
  <2>1. PICK m \in V \X S \X V \X S :
           /\ m[1] # m[3] /\ m[2] <= Len(r[m[1]]) /\ m[4] <= Len(r[m[3]])
           /\ p = Swap(r, m[1], m[2], m[3], m[4])
    BY <1>1, <1>5 DEF Swaps
  <2>2. PICK v, i, w, j : v = m[1] /\ i = m[2] /\ w = m[3] /\ j = m[4]
    OBVIOUS
  <2>3. /\ v \in V /\ w \in V /\ v # w /\ i \in S /\ j \in S
        /\ i <= Len(r[v]) /\ j <= Len(r[w]) /\ p = Swap(r, v, i, w, j)
    BY <2>1, <2>2
  <2>4. i \in 1..Len(r[v]) /\ j \in 1..Len(r[w])
    <3>1. Len(r[v]) \in Nat /\ Len(r[w]) \in Nat
      BY <1>2, <2>3
    <3>2. i \in Nat \ {0} /\ j \in Nat \ {0}
      BY <1>2, <2>3
    <3> QED BY <2>3, <3>1, <3>2
  <2>5. p \in [V -> Seq(S)] /\ Partition(p, V, S) /\ NoneEmpty(p, V)
    <3>1. v \in V /\ w \in V /\ v # w
      BY <2>3
    <3>2. p = Swap(r, v, i, w, j)
      BY <2>3
    <3>3. r \in [V -> Seq(S)] /\ Partition(r, V, S) /\ NoneEmpty(r, V)
      BY <1>2
    <3> QED BY <2>4, <3>1, <3>2, <3>3, Swapped
  <2> QED BY <1>1, <2>5
<1>6. CASE candidate \in Reversals(current)
  <2>1. PICK m \in V \X S \X S :
           /\ m[2] < m[3] /\ m[3] <= Len(r[m[1]])
           /\ p = ReverseSegment(r, m[1], m[2], m[3])
    BY <1>1, <1>6 DEF Reversals
  <2>2. PICK v, s, e : v = m[1] /\ s = m[2] /\ e = m[3]
    OBVIOUS
  <2>3. /\ v \in V /\ s \in S /\ e \in S /\ s < e /\ e <= Len(r[v])
        /\ p = ReverseSegment(r, v, s, e)
    BY <2>1, <2>2
  <2>4. PICK t, q : t = r[v] /\ q = Reversed(r[v], s, e)
    OBVIOUS
  <2>5. t \in Seq(S) /\ Len(t) \in Nat /\ s \in 1..Len(t) /\ e \in s..Len(t)
    <3>1. t \in Seq(S) /\ Len(t) \in Nat
      BY <1>2, <2>3, <2>4
    <3>2. s \in Nat \ {0} /\ e \in Nat \ {0}
      BY <1>2, <2>3
    <3> QED BY <2>3, <2>4, <3>1, <3>2
  <2>6. t \in Orders(t)
    <3>1. Distinct(t)
      BY <1>2, <2>3, <2>4 DEF Partition, Distinct
    <3> QED BY <2>5, <3>1 DEF Orders, ToSet
  <2>7. q \in Orders(r[v]) /\ p = [r EXCEPT ![v] = q]
    BY <2>3, <2>4, <2>5, <2>6, ReversedIsAnOrder DEF ReverseSegment
  <2>8. p \in [V -> Seq(S)] /\ Partition(p, V, S) /\ NoneEmpty(p, V)
    <3>1. v \in V
      BY <2>3
    <3>2. r \in [V -> Seq(S)] /\ Partition(r, V, S) /\ NoneEmpty(r, V)
      BY <1>2
    <3> QED BY <2>7, <3>1, <3>2, Reordered
  <2> QED BY <1>1, <2>8
<1> QED BY <1>3, <1>4, <1>5, <1>6

LEMMA AnnealStepKeepsTheInvariant ==
    ASSUME EngineInv, AnnealStep
    PROVE  EngineInv'
<1>0. /\ phase \in Running /\ phase = "anneal" /\ phase' = phase
      /\ UNCHANGED <<input, D, assigned, todo>>
      /\ iteration' = iteration + 1 /\ iteration < Iterations
  BY DEF AnnealStep, TurnLeft, Running
<1>1. /\ routes \in [Vehicles -> Seq(Stops)] /\ distances \in [Vehicles -> Nat]
      /\ current \in [Vehicles -> Seq(Stops)] /\ assigned \in SUBSET Stops
      /\ D \in Matrices(Len(input.stops)) /\ Len(input.stops) \in Nat
      /\ Partition(routes, Vehicles, assigned) /\ todo \in Seq(Vehicles)
  BY <1>0, RunningState
<1>2. /\ iteration \in 0..Iterations /\ NoneEmpty(routes, Vehicles) /\ assigned = Stops
      /\ Partition(current, Vehicles, Stops) /\ NoneEmpty(current, Vehicles)
      /\ \A v \in Vehicles \ ToSet(todo) : distances[v] = RouteDistance(D, routes[v])
  BY <1>0, SearchingState
<1>3. iteration' \in 0..Iterations
  BY <1>0, <1>2, OptimizerAssumption
<1>4. PICK candidate \in Proposals(current) :
         /\ current' \in {candidate, current}
         /\ \/ routes' = candidate /\ distances' = RouteDistances(D, candidate)
            \/ UNCHANGED <<routes, distances>>
  BY DEF AnnealStep, Accept
<1>5. /\ candidate \in [Vehicles -> Seq(Stops)]
      /\ Partition(candidate, Vehicles, Stops) /\ NoneEmpty(candidate, Vehicles)
  BY <1>0, ProposalsKeepThePlan
<1>6. NextPlan
  BY <1>0, <1>1, <1>2, <1>4, <1>5 DEF NextPlan
<1>7. NextCurrent
  BY <1>0, <1>1, <1>2, <1>4, <1>5 DEF NextCurrent
<1>8. NextTodo
  BY <1>0, <1>1 DEF NextTodo, EngineInv, TodoInv, Searching
<1>9. NextDistances
  <2>1. CASE routes' = candidate /\ distances' = RouteDistances(D, candidate)
    <3>1. \A v \in Vehicles : distances'[v] = RouteDistance(D, routes'[v])
      BY <1>5, <2>1 DEF RouteDistances
    <3>2. ASSUME NEW v \in Vehicles PROVE RouteDistance(D, candidate[v]) \in Nat
      <4>1. candidate[v] \in Seq(1..Len(input.stops))
        BY <1>5 DEF Stops
      <4> QED BY <1>1, <4>1, RouteDistanceIsNat
    <3>3. distances' \in [Vehicles -> Nat]
      BY <1>5, <2>1, <3>2 DEF RouteDistances
    <3> QED BY <3>1, <3>3 DEF NextDistances
  <2>2. CASE UNCHANGED <<routes, distances>>
    BY <1>0, <1>1, <1>2, <2>2 DEF NextDistances
  <2> QED BY <1>4, <2>1, <2>2
<1>10. SeedInv'
  BY <1>0 DEF SeedInv
<1> QED BY <1>0, <1>3, <1>6, <1>7, <1>8, <1>9, <1>10, TurnKeepsTheInvariant

\* In every state the routes partition the assigned stops, the seeds are counted by
\* them, 2-opt has work only in a local search, and every route it has none on is
\* measured: what each turn of optimize_routes keeps, by one lemma above.
THEOREM EngineInvariant == Spec => []EngineInv
<1>1. Init => EngineInv
  <2> SUFFICES ASSUME Init PROVE EngineInv
    OBVIOUS
  <2>1. phase = "called" /\ phase \notin Running
    BY DEF Init, Running
  <2>2. TypeOK
    BY <2>1, OptimizerAssumption DEF Init, TypeOK
  <2> QED BY <2>1, <2>2
          DEF Init, EngineInv, InputInv, PlanInv, SeedInv, TodoInv, IdleInv, MeasuredInv
<1>2. EngineInv /\ [Next]_vars => EngineInv'
  <2> SUFFICES ASSUME EngineInv, [Next]_vars PROVE EngineInv'
    OBVIOUS
  <2>1. CASE Start
    BY <2>1, StartKeepsTheInvariant
  <2>2. CASE SeedVehicle
    BY <2>2, SeedVehicleKeepsTheInvariant
  <2>3. CASE AssignStop
    BY <2>3, AssignStopKeepsTheInvariant
  <2>4. CASE ConstructionEnds \/ LocalSearchEnds \/ AnnealEnds \/ Return
    BY <2>4, PhasesKeepTheInvariant
  <2>5. CASE TwoOptPass
    BY <2>5, TwoOptPassKeepsTheInvariant
  <2>6. CASE MakeMove
    BY <2>6, MakeMoveKeepsTheInvariant
  <2>7. CASE AnnealStep
    BY <2>7, AnnealStepKeepsTheInvariant
  <2>8. CASE UNCHANGED vars
    <3>1. UNCHANGED <<Stops, Vehicles, Nodes, DistanceMatrix, Searching>>
      BY <2>8, SameInput DEF vars, Searching
    <3> QED BY <2>8, <3>1
            DEF vars, EngineInv, TypeOK, InputInv, PlanInv, SeedInv, TodoInv, IdleInv, MeasuredInv
  <2> QED BY <2>1, <2>2, <2>3, <2>4, <2>5, <2>6, <2>7, <2>8 DEF Next
<1> QED BY <1>1, <1>2, PTL DEF Spec

\* The state is well typed in every phase: every route is a sequence of stops,
\* every distance a number, for any input optimize_routes accepts.
THEOREM EngineIsTyped == Spec => []TypeOK
<1>1. EngineInv => TypeOK
  BY DEF EngineInv
<1> QED BY <1>1, EngineInvariant, PTL

\* A partition is what EachStopOnce says in sets.
LEMMA PartitionsVisitOnce ==
    ASSUME NEW r \in [Vehicles -> Seq(Stops)], NEW A, Partition(r, Vehicles, A)
    PROVE  StopsOf(r) = A /\ NoStopTwice(r)
<1>1. \A v \in Vehicles : ToSet(r[v]) = {r[v][i] : i \in 1..Len(r[v])}
  BY DEF ToSet
<1>2. ASSUME NEW a \in StopsOf(r) PROVE a \in A
  BY <1>1 DEF StopsOf, Partition
<1>3. ASSUME NEW a \in A PROVE a \in StopsOf(r)
  <2>1. PICK v \in Vehicles : \E i \in 1..Len(r[v]) : r[v][i] = a
    BY DEF Partition
  <2>2. a \in ToSet(r[v])
    BY <1>1, <2>1
  <2> QED BY <2>2 DEF StopsOf
<1>4. NoStopTwice(r)
  BY DEF NoStopTwice, Partition
<1> QED BY <1>2, <1>3, <1>4

\* Whatever the moves, the 2-opt passes and the annealing do to the routes, every
\* assigned stop is visited by one vehicle, once.
THEOREM EachStopIsVisitedOnce == Spec => []EachStopOnce
<1>1. EngineInv => EachStopOnce
  <2> SUFFICES ASSUME EngineInv, phase \in Running
               PROVE  /\ StopsOf(routes) = assigned /\ NoStopTwice(routes)
                      /\ phase = "anneal" => StopsOf(current) = Stops /\ NoStopTwice(current)
                      /\ phase \notin {"seed", "assign"} => assigned = Stops
    BY DEF EachStopOnce
  <2>1. /\ routes \in [Vehicles -> Seq(Stops)] /\ current \in [Vehicles -> Seq(Stops)]
        /\ Partition(routes, Vehicles, assigned)
    BY RunningState
  <2>2. /\ phase = "anneal" => Partition(current, Vehicles, Stops)
        /\ phase \notin {"seed", "assign"} => assigned = Stops
    BY DEF EngineInv, PlanInv
  <2> QED BY <2>1, <2>2, PartitionsVisitOnce
<1> QED BY <1>1, EngineInvariant, PTL

\* "Every vehicle remains non-empty" (optimizer.h): no search takes the last stop
\* of a route, whatever the number of stops and vehicles.
THEOREM EveryVehicleIsUsed == Spec => []EveryVehicleDrives
<1>1. EngineInv => EveryVehicleDrives
  <2> SUFFICES ASSUME EngineInv, phase \in Running, phase # "seed", NEW v \in Vehicles
               PROVE  routes[v] # <<>> /\ (phase = "anneal" => current[v] # <<>>)
    BY DEF EveryVehicleDrives
  <2>1. NoneEmpty(routes, Vehicles) /\ (phase = "anneal" => NoneEmpty(current, Vehicles))
    BY SearchingState
  <2>2. Len(<<>>) = 0
    OBVIOUS
  <2> QED BY <2>1, <2>2 DEF NoneEmpty
<1> QED BY <1>1, EngineInvariant, PTL

\* The distances construction adds up, and those a move leaves alone, are the
\* distances of the routes, but for the routes 2-opt has still to measure.
THEOREM DistancesAreTheRoutes == Spec => []DistancesAreCurrent
<1>1. EngineInv => DistancesAreCurrent
  <2> SUFFICES ASSUME EngineInv, NEW v \in DOMAIN routes \ ToSet(todo)
               PROVE  distances[v] = RouteDistance(D, routes[v])
    BY DEF DistancesAreCurrent
  <2>1. phase \in Running
    <3>1. DOMAIN <<>> = {}
      OBVIOUS
    <3> QED BY <3>1 DEF EngineInv, IdleInv
  <2>2. routes \in [Vehicles -> Seq(Stops)]
    BY <2>1, RunningState
  <2> QED BY <2>1, <2>2 DEF EngineInv, MeasuredInv
<1> QED BY <1>1, EngineInvariant, PTL

LEMMA Predictions ==
    ASSUME EngineInv
    PROVE  PredictionsAreExact
<1> SUFFICES ASSUME Searching, todo = <<>>,
                    NEW v \in Vehicles, NEW w \in Vehicles, NEW i \in 1..Len(routes[v]), v # w
             PROVE  /\ \A j \in 1..(Len(routes[w]) + 1) : Len(routes[v]) > 1 =>
                          RelocateObjective(D, routes, distances, v, i, w, j)
                            = ObjectiveOf(D, Relocate(routes, v, i, w, j))
                    /\ \A j \in 1..Len(routes[w]) :
                          SwapObjective(D, routes, distances, v, i, w, j)
                            = ObjectiveOf(D, Swap(routes, v, i, w, j))
  BY DEF PredictionsAreExact
<1>0. phase \in Running /\ phase # "seed"
  BY DEF Searching, Running
<1>1. PICK z, V, m, r, ds : /\ z = Len(input.stops) /\ V = Vehicles /\ m = D
                            /\ r = routes /\ ds = distances
  OBVIOUS
<1>2. /\ z \in Nat /\ m \in Matrices(z) /\ r \in [V -> Seq(1..z)]
      /\ ds = RouteDistances(m, r)
  BY <1>0, <1>1, RunningState, SearchingState DEF Stops
<1>3. v \in V /\ w \in V /\ i \in 1..Len(r[v])
  BY <1>1
<1>4. ASSUME NEW j
      PROVE  /\ j \in 1..(Len(r[w]) + 1) =>
                  RelocateObjective(m, r, ds, v, i, w, j)
                    = ObjectiveOf(m, Relocate(r, v, i, w, j))
             /\ j \in 1..Len(r[w]) =>
                  SwapObjective(m, r, ds, v, i, w, j) = ObjectiveOf(m, Swap(r, v, i, w, j))
  BY <1>2, <1>3, MovesAreMeasured
<1> QED BY <1>1, <1>4

\* The objective search_relocate_moves and search_swap_moves predict for a move is
\* the one its routes have when they are measured.
THEOREM PredictionsAreTheMoves == Spec => []PredictionsAreExact
<1>1. EngineInv => PredictionsAreExact
  BY Predictions
<1> QED BY <1>1, EngineInvariant, PTL

-----------------------------------------------------------------------------

(***************************************************************************)
(* 2-opt leaves a route alone only if no reversal shortens it.             *)
(***************************************************************************)

Symmetric(m, z) == \A a, b \in 0..z : m[a][b] = m[b][a]

\* What reversing s..e of r changes: p is r but for s..e, which it has backwards.
IsReversed(p, r, s, e) ==
    /\ Len(p) = Len(r)
    /\ \A k \in 0..(s - 1) : Node(p, k) = Node(r, k)
    /\ \A k \in 0..(e - s) : Node(p, s + k) = Node(r, e - k)
    /\ \A k \in (e + 1)..(Len(r) + 1) : Node(p, k) = Node(r, k)

LEMMA ReversedNodes ==
    ASSUME NEW S, NEW r \in Seq(S), NEW s \in 1..Len(r), NEW e \in s..Len(r),
           NEW p, p = Reversed(r, s, e)
    PROVE  p \in Seq(S) /\ IsReversed(p, r, s, e)
<1>1. /\ Len(r) \in Nat
      /\ p = [i \in 1..Len(r) |-> IF i \in s..e THEN r[s + e - i] ELSE r[i]]
  BY DEF Reversed
<1>2. \A i \in s..e : s + e - i \in 1..Len(r)
  BY <1>1
<1>3. p \in Seq(S) /\ Len(p) = Len(r)
  BY <1>1, <1>2
<1>4. \A i \in 1..Len(r) : p[i] = IF i \in s..e THEN r[s + e - i] ELSE r[i]
  BY <1>1
<1>5. ASSUME NEW k \in Int, ~(k \in s..e) PROVE Node(p, k) = Node(r, k)
  BY <1>3, <1>4, <1>5 DEF Node
<1>6. ASSUME NEW k \in 0..(e - s) PROVE Node(p, s + k) = Node(r, e - k)
  <2>1. /\ s + k \in 1..Len(r) /\ s + k \in s..e /\ s + e - (s + k) = e - k
        /\ e - k \in 1..Len(r)
    BY <1>1
  <2>2. p[s + k] = r[e - k]
    BY <1>4, <2>1
  <2> QED BY <1>3, <2>1, <2>2 DEF Node
<1>7. \A k \in 0..(s - 1) : k \in Int /\ ~(k \in s..e)
  OBVIOUS
<1>8. \A k \in (e + 1)..(Len(r) + 1) : k \in Int /\ ~(k \in s..e)
  OBVIOUS
<1> QED BY <1>3, <1>5, <1>6, <1>7, <1>8 DEF IsReversed

\* Backwards, the legs of a part add up to the same.
LEMMA BackwardsDistance ==
    ASSUME NEW z \in Nat, NEW m \in Matrices(z), Symmetric(m, z), NEW r \in Seq(1..z),
           NEW s \in 1..Len(r), NEW e \in s..Len(r), NEW p \in Seq(1..z),
           IsReversed(p, r, s, e)
    PROVE  Partial(m, p, e) - Partial(m, p, s) = Partial(m, r, e) - Partial(m, r, s)
<1> DEFINE S == {k \in 0..(e - s) : Partial(m, p, s + k) - Partial(m, p, s)
                                      = Partial(m, r, e) - Partial(m, r, e - k)}
<1>0. PICK n : n = e - s
  OBVIOUS
<1>1. n \in Nat /\ s \in Nat /\ e \in Nat /\ e = s + n
  BY <1>0
<1>2. \A k \in Nat : Partial(m, p, k) \in Nat /\ Partial(m, r, k) \in Nat
  BY PartialIsNat
<1>3. 0 \in S
  <2>1. s + 0 = s /\ e - 0 = e /\ 0 \in 0..(e - s)
    BY <1>1
  <2>2. Partial(m, p, s) - Partial(m, p, s) = Partial(m, r, e) - Partial(m, r, e)
    BY <1>1, <1>2
  <2> QED BY <2>1, <2>2
<1>4. ASSUME NEW k \in 1..n, k - 1 \in S PROVE k \in S
  <2>0. PICK a, b : a = s + (k - 1) /\ b = e - k
    OBVIOUS
  <2>1. /\ a \in Nat /\ s + k = a + 1 /\ b \in Nat /\ e - (k - 1) = b + 1 /\ e - k = b
        /\ k \in 0..(e - s) /\ k - 1 \in 0..(e - s)
    BY <1>1, <2>0
  <2>2. Partial(m, p, s + k) = Partial(m, p, a) + Leg(m, p, s + k)
    <3>1. a \in Nat
      BY <2>1
    <3>2. s + k = a + 1
      BY <2>1
    <3> QED BY <3>1, <3>2, LegUnfolds, Zenon
  <2>3. Partial(m, r, e - (k - 1)) = Partial(m, r, b) + Leg(m, r, e - (k - 1))
    <3>1. b \in Nat
      BY <2>1
    <3>2. e - (k - 1) = b + 1
      BY <2>1
    <3> QED BY <3>1, <3>2, LegUnfolds, Zenon
  <2>4. Leg(m, p, s + k) = Leg(m, r, e - (k - 1))
    <3>1. s + k - 1 = s + (k - 1) /\ e - (k - 1) - 1 = e - k
      BY <1>1
    <3>2. Node(p, s + k) = Node(r, e - k) /\ Node(p, s + (k - 1)) = Node(r, e - (k - 1))
      BY <2>1 DEF IsReversed
    <3>3. Node(r, e - k) \in 0..z /\ Node(r, e - (k - 1)) \in 0..z
      BY NodesOfRoute
    <3>4. m[Node(r, e - (k - 1))][Node(r, e - k)] = m[Node(r, e - k)][Node(r, e - (k - 1))]
      BY <3>3 DEF Symmetric
    <3> QED BY <3>1, <3>2, <3>4 DEF Leg
  <2>5. Partial(m, p, a) - Partial(m, p, s) = Partial(m, r, e) - Partial(m, r, e - (k - 1))
    BY <1>4, <2>0
  <2>6. /\ Partial(m, p, a) \in Nat /\ Partial(m, p, s) \in Nat
        /\ Partial(m, r, e) \in Nat /\ Partial(m, r, b) \in Nat
        /\ Leg(m, r, e - (k - 1)) \in Nat
    BY <1>1, <1>2, <2>1, LegIsNat
  <2>7. Partial(m, p, s + k) - Partial(m, p, s) = Partial(m, r, e) - Partial(m, r, b)
    <3>1. PICK pa, ps, re, rb, l : /\ pa = Partial(m, p, a) /\ ps = Partial(m, p, s)
                                   /\ re = Partial(m, r, e) /\ rb = Partial(m, r, b)
                                   /\ l = Leg(m, r, e - (k - 1))
      OBVIOUS
    <3>2. pa \in Nat /\ ps \in Nat /\ re \in Nat /\ rb \in Nat /\ l \in Nat
      BY <2>6, <3>1
    <3>3. pa - ps = re - (rb + l)
      BY <2>3, <2>5, <3>1
    <3>4. pa + l - ps = re - rb
      BY <3>2, <3>3
    <3>5. Partial(m, p, s + k) = pa + l
      BY <2>2, <2>4, <3>1
    <3> QED BY <3>1, <3>2, <3>4, <3>5
  <2> QED BY <2>1, <2>7
<1> HIDE DEF S
<1>5. \A k \in 0..n : k \in S
  BY <1>1, <1>3, <1>4, Measuring!InductionUpTo
<1>6. n \in S
  BY <1>1, <1>5
<1>7. s + n = e /\ e - n = s
  BY <1>1
<1> QED BY <1>6, <1>7 DEF S

\* What 2-opt gains, as Shortens computes it.
ReversalDelta(m, r, s, e) ==
    m[Node(r, s - 1)][r[e]] + m[r[s]][Node(r, e + 1)]
      - m[Node(r, s - 1)][r[s]] - m[r[e]][Node(r, e + 1)]

LEMMA ReversedDistance ==
    ASSUME NEW z \in Nat, NEW m \in Matrices(z), Symmetric(m, z), NEW r \in Seq(1..z),
           NEW s \in 1..Len(r), NEW e \in s..Len(r), NEW p, p = Reversed(r, s, e)
    PROVE  /\ p \in Seq(1..z) /\ Len(p) = Len(r)
           /\ RouteDistance(m, p) = RouteDistance(m, r) + ReversalDelta(m, r, s, e)
<1>0. PICK n : n = Len(r) - e
  OBVIOUS
<1>1. /\ n \in Nat /\ s \in Nat /\ e \in Nat /\ Len(r) \in Nat /\ s - 1 \in Nat
      /\ Len(r) = e + n /\ Len(r) + 1 = e + 1 + n /\ s = s - 1 + 1
  BY <1>0
<1>2. p \in Seq(1..z) /\ IsReversed(p, r, s, e)
  BY ReversedNodes
<1>3. Len(p) = Len(r)
  BY <1>2 DEF IsReversed
<1>4. Follows(m, p, 0, r, 0, s - 1)
  <2>1. ASSUME NEW k \in 1..(s - 1) PROVE Leg(m, p, k) = Leg(m, r, k)
    <3>1. k - 1 \in 0..(s - 1) /\ k \in 0..(s - 1)
      BY <1>1
    <3> QED BY <1>2, <3>1 DEF Leg, IsReversed
  <2> QED BY <2>1 DEF Follows
<1>5. Follows(m, p, e + 1, r, e + 1, n)
  <2> SUFFICES ASSUME NEW k \in 1..n PROVE Leg(m, p, e + 1 + k) = Leg(m, r, e + 1 + k)
    BY DEF Follows
  <2>1. e + 1 + k - 1 \in (e + 1)..(Len(r) + 1) /\ e + 1 + k \in (e + 1)..(Len(r) + 1)
    BY <1>1
  <2>2. /\ Node(p, e + 1 + k - 1) = Node(r, e + 1 + k - 1)
        /\ Node(p, e + 1 + k) = Node(r, e + 1 + k)
    BY <1>2, <2>1 DEF IsReversed
  <2> QED BY <2>2 DEF Leg
<1>6. RouteDistance(m, p)
        = RouteDistance(m, r) + ((Partial(m, p, e + 1) - Partial(m, p, s - 1))
                                   - (Partial(m, r, e + 1) - Partial(m, r, s - 1)))
  <2>1. IsSpliced(m, p, r, s - 1, e + 1, e + 1, n)
    BY <1>1, <1>3, <1>4, <1>5 DEF IsSpliced
  <2> QED BY <1>2, <2>1, Spliced
<1>7. /\ Partial(m, p, s) = Partial(m, p, s - 1) + Leg(m, p, s)
      /\ Partial(m, r, s) = Partial(m, r, s - 1) + Leg(m, r, s)
      /\ Partial(m, p, e + 1) = Partial(m, p, e) + Leg(m, p, e + 1)
      /\ Partial(m, r, e + 1) = Partial(m, r, e) + Leg(m, r, e + 1)
  <2>1. s - 1 \in Nat /\ s = s - 1 + 1 /\ e \in Nat
    BY <1>1
  <2> QED BY <2>1, LegUnfolds
<1>8. Partial(m, p, e) - Partial(m, p, s) = Partial(m, r, e) - Partial(m, r, s)
  BY <1>2, BackwardsDistance
<1>9. /\ Leg(m, p, s) = m[Node(r, s - 1)][r[e]]
      /\ Leg(m, p, e + 1) = m[r[s]][Node(r, e + 1)]
      /\ Leg(m, r, s) = m[Node(r, s - 1)][r[s]]
      /\ Leg(m, r, e + 1) = m[r[e]][Node(r, e + 1)]
  <2>1. /\ s - 1 \in 0..(s - 1) /\ e + 1 \in (e + 1)..(Len(r) + 1) /\ e + 1 - 1 = e
        /\ 0 \in 0..(e - s) /\ e - s \in 0..(e - s)
        /\ s + 0 = s /\ e - 0 = e /\ s + (e - s) = e /\ e - (e - s) = s
    BY <1>1
  <2>2. /\ Node(p, s - 1) = Node(r, s - 1) /\ Node(p, e + 1) = Node(r, e + 1)
        /\ Node(p, s) = Node(r, e) /\ Node(p, e) = Node(r, s)
    <3>1. Node(p, s + 0) = Node(r, e - 0) /\ Node(p, s + (e - s)) = Node(r, e - (e - s))
      BY <1>2, <2>1 DEF IsReversed
    <3> QED BY <1>2, <2>1, <3>1 DEF IsReversed
  <2>3. Node(r, s) = r[s] /\ Node(r, e) = r[e]
    BY <1>1 DEF Node
  <2> QED BY <2>1, <2>2, <2>3 DEF Leg
<1>10. /\ Leg(m, p, s) \in Nat /\ Leg(m, p, e + 1) \in Nat
       /\ Leg(m, r, s) \in Nat /\ Leg(m, r, e + 1) \in Nat
       /\ Partial(m, p, s - 1) \in Nat /\ Partial(m, r, s - 1) \in Nat
       /\ Partial(m, p, s) \in Nat /\ Partial(m, r, s) \in Nat
       /\ Partial(m, p, e) \in Nat /\ Partial(m, r, e) \in Nat
       /\ RouteDistance(m, r) \in Nat
  <2>1. /\ Leg(m, p, s) \in Nat /\ Leg(m, p, e + 1) \in Nat
        /\ Leg(m, r, s) \in Nat /\ Leg(m, r, e + 1) \in Nat
    BY <1>2, LegIsNat
  <2>2. \A k \in Nat : Partial(m, p, k) \in Nat /\ Partial(m, r, k) \in Nat
    BY <1>2, PartialIsNat
  <2>3. RouteDistance(m, r) \in Nat
    BY RouteDistanceIsNat
  <2> QED BY <1>1, <2>1, <2>2, <2>3
<1>11. ReversalDelta(m, r, s, e)
         = Leg(m, p, s) + Leg(m, p, e + 1) - Leg(m, r, s) - Leg(m, r, e + 1)
  BY <1>9 DEF ReversalDelta
<1>12. /\ Partial(m, p, e + 1) - Partial(m, p, s - 1)
             = Leg(m, p, s) + Leg(m, p, e + 1) + (Partial(m, r, e) - Partial(m, r, s))
       /\ Partial(m, r, e + 1) - Partial(m, r, s - 1)
             = Leg(m, r, s) + Leg(m, r, e + 1) + (Partial(m, r, e) - Partial(m, r, s))
  <2>1. PICK d : d = Partial(m, r, e) - Partial(m, r, s)
    OBVIOUS
  <2>3. Partial(m, p, e + 1) - Partial(m, p, s - 1) = Leg(m, p, s) + Leg(m, p, e + 1) + d
    <3>1. PICK a, b, c, x, y : /\ a = Partial(m, p, s - 1) /\ b = Partial(m, p, s)
                               /\ c = Partial(m, p, e)
                               /\ x = Leg(m, p, s) /\ y = Leg(m, p, e + 1)
      OBVIOUS
    <3>2. a \in Nat /\ c \in Nat /\ x \in Nat /\ y \in Nat
      BY <1>10, <3>1
    <3>3. b = a + x /\ c - b = d /\ Partial(m, p, e + 1) = c + y
      BY <1>7, <1>8, <2>1, <3>1
    <3>4. c + y - a = x + y + d
      BY <3>2, <3>3
    <3> QED BY <3>1, <3>2, <3>3, <3>4
  <2>4. Partial(m, r, e + 1) - Partial(m, r, s - 1) = Leg(m, r, s) + Leg(m, r, e + 1) + d
    <3>1. PICK a, b, c, x, y : /\ a = Partial(m, r, s - 1) /\ b = Partial(m, r, s)
                               /\ c = Partial(m, r, e)
                               /\ x = Leg(m, r, s) /\ y = Leg(m, r, e + 1)
      OBVIOUS
    <3>2. a \in Nat /\ c \in Nat /\ x \in Nat /\ y \in Nat
      BY <1>10, <3>1
    <3>3. b = a + x /\ c - b = d /\ Partial(m, r, e + 1) = c + y
      BY <1>7, <1>8, <2>1, <3>1
    <3>4. c + y - a = x + y + d
      BY <3>2, <3>3
    <3> QED BY <3>1, <3>2, <3>3, <3>4
  <2> QED BY <2>1, <2>3, <2>4
<1> QED BY SMTT(30), <1>2, <1>3, <1>6, <1>10, <1>11, <1>12

\* A turn of improve_with_two_opt
Turned(m, r, s, e) == IF Shortens(m, r, s, e) THEN Reversed(r, s, e) ELSE r

ShorterThan(m, z, r) ==
    {q \in Seq(1..z) : Len(q) = Len(r) /\ RouteDistance(m, q) < RouteDistance(m, r)}

LEMMA ReversalDeltaIsInt ==
    ASSUME NEW z \in Nat, NEW m \in Matrices(z), NEW r \in Seq(1..z),
           NEW s \in 1..Len(r), NEW e \in 1..Len(r)
    PROVE  /\ ReversalDelta(m, r, s, e) \in Int
           /\ Shortens(m, r, s, e) <=> ReversalDelta(m, r, s, e) + Eps < 0
<1>1. Node(r, s - 1) \in 0..z /\ Node(r, e + 1) \in 0..z /\ r[s] \in 0..z /\ r[e] \in 0..z
  BY NodesOfRoute
<1>2. /\ m[Node(r, s - 1)][r[e]] \in Nat /\ m[r[s]][Node(r, e + 1)] \in Nat
      /\ m[Node(r, s - 1)][r[s]] \in Nat /\ m[r[e]][Node(r, e + 1)] \in Nat
  BY <1>1 DEF Matrices
<1>3. Eps \in Nat
  BY RoutesAssumption
<1>4. PICK a, b, c, d : /\ a = m[Node(r, s - 1)][r[e]] /\ b = m[r[s]][Node(r, e + 1)]
                        /\ c = m[Node(r, s - 1)][r[s]] /\ d = m[r[e]][Node(r, e + 1)]
  OBVIOUS
<1>5. a \in Nat /\ b \in Nat /\ c \in Nat /\ d \in Nat
  BY <1>2, <1>4
<1>6. ReversalDelta(m, r, s, e) = a + b - c - d
  BY <1>4 DEF ReversalDelta
<1>7. Shortens(m, r, s, e) <=> a + b + Eps < c + d
  BY <1>4 DEF Shortens
<1>8. a + b - c - d \in Int /\ (a + b + Eps < c + d <=> a + b - c - d + Eps < 0)
  BY <1>3, <1>5
<1> QED BY <1>6, <1>7, <1>8

LEMMA TurnsShorten ==
    ASSUME NEW z \in Nat, NEW m \in Matrices(z), Symmetric(m, z), NEW r \in Seq(1..z),
           NEW q \in {r} \cup ShorterThan(m, z, r), NEW s \in 1..Len(r), NEW e \in s..Len(r)
    PROVE  /\ Turned(m, q, s, e) \in {r} \cup ShorterThan(m, z, r)
           /\ q \in ShorterThan(m, z, r) => Turned(m, q, s, e) \in ShorterThan(m, z, r)
           /\ Shortens(m, r, s, e) => Turned(m, q, s, e) \in ShorterThan(m, z, r)
<1>1. q \in Seq(1..z) /\ Len(q) = Len(r) /\ Len(r) \in Nat
  BY DEF ShorterThan
<1>2. RouteDistance(m, q) \in Nat /\ RouteDistance(m, r) \in Nat
  BY <1>1, RouteDistanceIsNat
<1>3. RouteDistance(m, q) <= RouteDistance(m, r)
  BY <1>2 DEF ShorterThan
<1>4. CASE Shortens(m, q, s, e)
  <2>1. PICK p : p = Reversed(q, s, e)
    OBVIOUS
  <2>2. /\ s \in 1..Len(q) /\ e \in s..Len(q) /\ e \in 1..Len(q)
    BY <1>1
  <2>3. /\ p \in Seq(1..z) /\ Len(p) = Len(q)
        /\ RouteDistance(m, p) = RouteDistance(m, q) + ReversalDelta(m, q, s, e)
    BY <1>1, <2>1, <2>2, ReversedDistance
  <2>4. ReversalDelta(m, q, s, e) \in Int /\ ReversalDelta(m, q, s, e) + Eps < 0 /\ Eps \in Nat
    BY <1>1, <1>4, <2>2, ReversalDeltaIsInt, RoutesAssumption
  <2>5. RouteDistance(m, p) < RouteDistance(m, r)
    BY <1>2, <1>3, <2>3, <2>4
  <2>6. p \in ShorterThan(m, z, r)
    BY <1>1, <2>3, <2>5 DEF ShorterThan
  <2> QED BY <1>4, <2>1, <2>6 DEF Turned
<1>5. CASE ~Shortens(m, q, s, e)
  <2>1. Turned(m, q, s, e) = q
    BY <1>5 DEF Turned
  <2>2. Shortens(m, r, s, e) => q # r
    BY <1>5
  <2> QED BY <2>1, <2>2
<1> QED BY <1>4, <1>5

\* A pass that could shorten the route does: it comes back with a shorter one.
LEMMA TwoOptShortens ==
    ASSUME NEW z \in Nat, NEW m \in Matrices(z), Symmetric(m, z), NEW r \in Seq(1..z),
           Len(r) >= 3, NEW s \in 1..(Len(r) - 1), NEW e \in (s + 1)..Len(r),
           Shortens(m, r, s, e)
    PROVE  TwoOpt(m, r) \in ShorterThan(m, z, r)
<1> DEFINE L == ShorterThan(m, z, r)
           T == {r} \cup L
<1>1. Len(r) \in Nat /\ Len(r) - 1 \in Nat /\ r \in T
  OBVIOUS
<1>2. \A q \in T : Len(q) = Len(r)
  BY DEF ShorterThan
<1>3. ASSUME NEW t \in 1..(Len(r) - 1), NEW k \in 1..(Len(r) - t)
      PROVE  /\ \A q \in T : Turned(m, q, t, t + k) \in T
             /\ \A q \in L : Turned(m, q, t, t + k) \in L
  <2>1. t \in 1..Len(r) /\ t + k \in t..Len(r)
    BY <1>1
  <2> QED BY <2>1, TurnsShorten
<1>4. \A q \in T : Turned(m, q, s, e) \in L
  <2>1. s \in 1..Len(r) /\ e \in s..Len(r)
    BY <1>1
  <2> QED BY <2>1, TurnsShorten
<1> HIDE DEF L, T
<1>5. L \subseteq T
  BY DEF T
<1>6. ASSUME NEW t \in 1..(Len(r) - 1), NEW q \in T
      PROVE  /\ ReverseFrom(m, q, t) \in T
             /\ q \in L => ReverseFrom(m, q, t) \in L
             /\ t = s => ReverseFrom(m, q, t) \in L
  <2> DEFINE n == Len(r) - t
  <2>1. n \in Nat
    BY <1>1
  <2>2. ReverseFrom(m, q, t) = ReversingFrom!Run(m, t, 0, 0, 0, 0, q, n)
    BY <1>2, LoopsOfARoute
  <2>3. /\ \A k \in 1..n : \A p \in T :
             (IF Shortens(m, p, t, t + k) THEN Reversed(p, t, t + k) ELSE p) \in T
        /\ \A k \in 1..n : \A p \in L :
             (IF Shortens(m, p, t, t + k) THEN Reversed(p, t, t + k) ELSE p) \in L
    BY <1>3 DEF Turned
  <2> HIDE DEF n
  <2>4. ReversingFrom!Run(m, t, 0, 0, 0, 0, q, n) \in T
    BY <2>1, <2>3, ReversingFrom!LoopStays
  <2>5. q \in L => ReversingFrom!Run(m, t, 0, 0, 0, 0, q, n) \in L
    BY <2>1, <2>3, ReversingFrom!LoopStays
  <2>6. ASSUME t = s PROVE ReversingFrom!Run(m, t, 0, 0, 0, 0, q, n) \in L
    <3>1. PICK k \in 1..n : t + k = e
      <4>1. e - t \in 1..n /\ t + (e - t) = e
        BY <1>1, <2>6 DEF n
      <4> QED BY <4>1
    <3>2. \A p \in T :
            (IF Shortens(m, p, t, t + k) THEN Reversed(p, t, t + k) ELSE p) \in L
      BY <1>4, <2>6, <3>1 DEF Turned
    <3> QED BY <2>1, <2>3, <3>2, ReversingFrom!LoopReaches
  <2> QED BY <2>2, <2>4, <2>5, <2>6
<1>7. Reversing!Run(m, 0, 0, 0, 0, 0, r, Len(r) - 1) \in L
  <2>1. PICK n : n = Len(r) - 1
    OBVIOUS
  <2>2. n \in Nat /\ s \in 1..n
    BY <1>1, <2>1
  <2>3. \A t \in 1..n : \A q \in T : ReverseFrom(m, q, t) \in T
    BY <1>6, <2>1
  <2>4. \A t \in 1..n : \A q \in L : ReverseFrom(m, q, t) \in L
    BY <1>5, <1>6, <2>1
  <2>5. \A q \in T : ReverseFrom(m, q, s) \in L
    BY <1>6
  <2>6. Reversing!Run(m, 0, 0, 0, 0, 0, r, n) \in L
    BY <1>1, <2>2, <2>3, <2>4, <2>5, Reversing!LoopReaches
  <2> QED BY <2>1, <2>6
<1>8. TwoOpt(m, r) = Reversing!Run(m, 0, 0, 0, 0, 0, r, Len(r) - 1)
  <2>1. ~(Len(r) < 3)
    BY <1>1
  <2> QED BY <2>1, LoopsOfARoute, Zenon
<1> QED BY <1>7, <1>8 DEF L

\* A route that a pass leaves alone cannot be shortened by more than Eps.
LEMMA TwoOptIsLocallyOptimal ==
    ASSUME NEW z \in Nat, NEW m \in Matrices(z), Symmetric(m, z), NEW r \in Seq(1..z),
           TwoOpt(m, r) = r, NEW s \in 1..Len(r), NEW e \in 1..Len(r), s < e
    PROVE  RouteDistance(m, Reversed(r, s, e)) + Eps >= RouteDistance(m, r)
<1>1. Len(r) \in Nat /\ e \in s..Len(r) /\ e \in (s + 1)..Len(r) /\ s \in 1..(Len(r) - 1)
  OBVIOUS
<1>2. RouteDistance(m, Reversed(r, s, e)) = RouteDistance(m, r) + ReversalDelta(m, r, s, e)
  BY <1>1, ReversedDistance
<1>3. RouteDistance(m, r) \in Nat
  BY RouteDistanceIsNat
<1>4. Eps \in Nat
  BY RoutesAssumption
<1>5. ReversalDelta(m, r, s, e) \in Int /\ ReversalDelta(m, r, s, e) + Eps >= 0
  <2>1. CASE Len(r) >= 3
    <3>1. ~Shortens(m, r, s, e)
      <4>1. SUFFICES ASSUME Shortens(m, r, s, e) PROVE FALSE
        OBVIOUS
      <4>2. r \in ShorterThan(m, z, r)
        BY <1>1, <2>1, <4>1, TwoOptShortens
      <4> QED BY <1>3, <4>2 DEF ShorterThan
    <3>2. /\ ReversalDelta(m, r, s, e) \in Int
          /\ Shortens(m, r, s, e) <=> ReversalDelta(m, r, s, e) + Eps < 0
      BY ReversalDeltaIsInt
    <3> QED BY <1>4, <3>1, <3>2
  <2>2. CASE Len(r) < 3
    <3>1. s = 1 /\ e = 2 /\ Len(r) = 2
      <4>1. PICK n : n = Len(r)
        OBVIOUS
      <4>2. n \in Nat /\ n < 3 /\ s \in 1..n /\ e \in 1..n
        BY <1>1, <2>2, <4>1
      <4>3. s = 1 /\ e = 2 /\ n = 2
        BY <4>2
      <4> QED BY <4>1, <4>3
    <3>2. Node(r, s - 1) = 0 /\ Node(r, e + 1) = 0 /\ r[s] \in 0..z /\ r[e] \in 0..z /\ 0 \in 0..z
      BY <3>1 DEF Node
    <3>3. m[0][r[e]] = m[r[e]][0] /\ m[r[s]][0] = m[0][r[s]]
      BY <3>2 DEF Symmetric
    <3>4. m[r[e]][0] \in Nat /\ m[r[s]][0] \in Nat
      BY <3>2 DEF Matrices
    <3>5. ReversalDelta(m, r, s, e) = 0
      BY <3>2, <3>3, <3>4 DEF ReversalDelta
    <3> QED BY <1>4, <3>5
  <2> QED BY <1>1, <2>1, <2>2
<1> QED BY <1>2, <1>3, <1>4, <1>5

-----------------------------------------------------------------------------

(***************************************************************************)
(* The result is a local optimum.                                          *)
(***************************************************************************)

Moves == {NoMove} \cup RelocationMoves \cup SwapMoves

\* What the searches can have once they have considered a move c: not the start,
\* if c is better.
Without(c) ==
    {b \in Moves : b = NoMove => ~IsBetter(c.objective, Objective(distances))}

LEMMA MovesAreNotNone ==
    ASSUME NEW c \in RelocationMoves \cup SwapMoves
    PROVE  c.kind # "none" /\ c # NoMove
<1>1. \A v, i, w, j : /\ RelocationOf(D, routes, distances, v, i, w, j).kind # "none"
                      /\ SwapOf(D, routes, distances, v, i, w, j).kind # "none"
  BY DEF RelocationOf, SwapOf, Move
<1>2. c.kind # "none"
  BY <1>1 DEF RelocationMoves, SwapMoves
<1>3. NoMove.kind = "none"
  BY DEF NoMove
<1> QED BY <1>2, <1>3

LEMMA ConsideringKeeps ==
    ASSUME NEW c \in RelocationMoves \cup SwapMoves, NEW d \in RelocationMoves \cup SwapMoves
    PROVE  /\ \A b \in Moves : Consider(b, d) \in Moves
           /\ \A b \in Without(c) : Consider(b, d) \in Without(c)
           /\ \A b \in Moves : Consider(b, c) \in Without(c)
<1>1. c \in Moves /\ d \in Moves /\ c # NoMove /\ d # NoMove
  BY MovesAreNotNone DEF Moves
<1>2. c \in Without(c) /\ d \in Without(c)
  BY <1>1 DEF Without
<1>3. \A b : Consider(b, d) \in {b, d}
  BY ConsiderIsEither
<1>4. ASSUME NEW b \in Moves PROVE Consider(b, c) \in Without(c)
  <2>1. Consider(b, c) = IF IsBetter(c.objective, b.objective) THEN c ELSE b
    BY ConsiderIsEither
  <2>2. NoMove.objective = Objective(distances)
    BY DEF NoMove
  <2>3. ~IsBetter(c.objective, b.objective) => b \in Without(c)
    BY <2>2 DEF Without
  <2> QED BY <1>2, <2>1, <2>3
<1> QED BY <1>1, <1>2, <1>3, <1>4

\* If the searches find no move, none is better.
LEMMA NoMoveIsBetter ==
    ASSUME EngineInv, phase \in Running, BestMove.kind = "none",
           NEW v \in Vehicles, NEW w \in Vehicles, v # w, NEW i \in 1..Len(routes[v]), NEW j
    PROVE  /\ GivesAway(routes[v]) /\ j \in 1..(Len(routes[w]) + 1) =>
                ~IsBetter(RelocationOf(D, routes, distances, v, i, w, j).objective,
                          Objective(distances))
           /\ v < w /\ j \in 1..Len(routes[w]) =>
                ~IsBetter(SwapOf(D, routes, distances, v, i, w, j).objective,
                          Objective(distances))
<1>1. Routings(routes) /\ 1..Len(routes) = Vehicles
  BY RoutesAreRoutings
<1>2. NoMove \in Moves
  BY DEF Moves
<1>3. BestMove = SearchSwaps(D, routes, distances, SearchRelocations(D, routes, distances, NoMove))
  BY DEF BestMove, NoMove
<1>4. ASSUME NEW c \in RelocationMoves \cup SwapMoves
      PROVE  /\ KeptByRelocations(D, routes, distances, Moves)
             /\ KeptBySwaps(D, routes, distances, Moves)
             /\ KeptByRelocations(D, routes, distances, Without(c))
             /\ KeptBySwaps(D, routes, distances, Without(c))
  <2>1. \A b \in Moves : \A d \in RelocationMoves \cup SwapMoves : Consider(b, d) \in Moves
    BY ConsideringKeeps
  <2>2. \A b \in Without(c) : \A d \in RelocationMoves \cup SwapMoves :
          Consider(b, d) \in Without(c)
    BY ConsideringKeeps
  <2> QED BY <2>1, <2>2, SearchesStayIn
<1>5. ASSUME NEW c \in RelocationMoves \cup SwapMoves, BestMove \in Without(c)
      PROVE  ~IsBetter(c.objective, Objective(distances))
  <2>1. BestMove \in Moves /\ (BestMove \in RelocationMoves \cup SwapMoves => BestMove.kind # "none")
    BY <1>5, MovesAreNotNone DEF Without
  <2>2. BestMove = NoMove
    BY <2>1 DEF Moves
  <2> QED BY <1>5, <2>2 DEF Without
<1>6. ASSUME GivesAway(routes[v]), j \in 1..(Len(routes[w]) + 1)
      PROVE  ~IsBetter(RelocationOf(D, routes, distances, v, i, w, j).objective,
                       Objective(distances))
  <2>1. PICK c : c = RelocationOf(D, routes, distances, v, i, w, j)
    OBVIOUS
  <2>2. c \in RelocationMoves \cup SwapMoves
    BY <1>6, <2>1, AllMovesAreConsidered
  <2>3. \A b \in Moves : Consider(b, RelocationOf(D, routes, distances, v, i, w, j)) \in Without(c)
    BY <2>1, <2>2, ConsideringKeeps
  <2>4. SearchRelocations(D, routes, distances, NoMove) \in Without(c)
    <3>1. v \in 1..Len(routes) /\ w \in 1..Len(routes)
      BY <1>1
    <3>2. /\ KeptByRelocations(D, routes, distances, Moves)
          /\ KeptByRelocations(D, routes, distances, Without(c))
      BY <1>4, <2>2
    <3> QED BY <1>1, <1>2, <1>6, <2>3, <3>1, <3>2, RelocationsReach
  <2>5. BestMove \in Without(c)
    <3>1. KeptBySwaps(D, routes, distances, Without(c))
      BY <1>4, <2>2
    <3> QED BY <1>1, <1>3, <2>4, <3>1, SwapsStay
  <2> QED BY <1>5, <2>1, <2>2, <2>5
<1>7. ASSUME v < w, j \in 1..Len(routes[w])
      PROVE  ~IsBetter(SwapOf(D, routes, distances, v, i, w, j).objective,
                       Objective(distances))
  <2>1. PICK c : c = SwapOf(D, routes, distances, v, i, w, j)
    OBVIOUS
  <2>2. c \in RelocationMoves \cup SwapMoves
    BY <1>7, <2>1, AllMovesAreConsidered
  <2>3. \A b \in Moves : Consider(b, SwapOf(D, routes, distances, v, i, w, j)) \in Without(c)
    BY <2>1, <2>2, ConsideringKeeps
  <2>4. SearchRelocations(D, routes, distances, NoMove) \in Moves
    <3>1. KeptByRelocations(D, routes, distances, Moves)
      BY <1>4, <2>2
    <3> QED BY <1>1, <1>2, <3>1, RelocationsStay
  <2>5. BestMove \in Without(c)
    <3>1. v \in 1..Len(routes) /\ w \in 1..Len(routes)
      BY <1>1
    <3>2. KeptBySwaps(D, routes, distances, Moves) /\ KeptBySwaps(D, routes, distances, Without(c))
      BY <1>4, <2>2
    <3>3. SearchSwaps(D, routes, distances, SearchRelocations(D, routes, distances, NoMove))
            \in Without(c)
      BY <1>1, <1>7, <2>3, <2>4, <3>1, <3>2, SwapsReach
    <3> QED BY <1>3, <3>3
  <2> QED BY <1>5, <2>1, <2>2, <2>5
<1> QED BY <1>6, <1>7

\* A swap is the same from either side.
LEMMA SwapIsSymmetric ==
    ASSUME NEW V, NEW r, r = [v \in V |-> r[v]], NEW v \in V, NEW w \in V, v # w, NEW i, NEW j
    PROVE  Swap(r, v, i, w, j) = Swap(r, w, j, v, i)
BY DEF Swap

\* Every route that is not to do is as 2-opt would leave it, and no move is better
\* once the search has returned.
SearchedInv ==
    /\ phase \in {"local", "final", "returned"} =>
          \A v \in Vehicles \ ToSet(todo) : TwoOpt(D, routes[v]) = routes[v]
    /\ phase = "returned" => BestMove.kind = "none"

LEMMA SearchedStep ==
    ASSUME EngineInv, SearchedInv, [Next]_vars
    PROVE  SearchedInv'
<1>1. CASE Start \/ SeedVehicle \/ AssignStop \/ LocalSearchEnds \/ AnnealStep
  <2>1. phase' \notin {"local", "final", "returned"}
    BY <1>1 DEF Start, SeedVehicle, AssignStop, LocalSearchEnds, AnnealStep
  <2> QED BY <2>1 DEF SearchedInv
<1>2. CASE ConstructionEnds \/ AnnealEnds
  <2>1. /\ phase \in Running /\ phase' \in {"local", "final"} /\ todo' = AllVehicles
        /\ UNCHANGED input
    BY <1>2 DEF ConstructionEnds, AnnealEnds, Running
  <2>2. ToSet(AllVehicles) = Vehicles /\ Vehicles' = Vehicles
    BY <2>1, AllVehiclesAreToDo, SameInput
  <2> QED BY <2>1, <2>2 DEF SearchedInv
<1>3. CASE TwoOptPass
  <2>1. /\ phase \in Running /\ phase \in {"local", "final"} /\ phase' = phase
        /\ todo # <<>> /\ UNCHANGED <<input, D>>
    BY <1>3 DEF TwoOptPass, Searching, Running
  <2>2. routes \in [Vehicles -> Seq(Stops)] /\ todo \in Seq(Vehicles) /\ Vehicles' = Vehicles
    BY <2>1, RunningState, SameInput
  <2>3. PICK v : v = Head(todo)
    OBVIOUS
  <2>4. v \in Vehicles /\ v \in ToSet(todo) /\ ToSet(todo) \subseteq ToSet(Tail(todo)) \cup {v}
    BY <2>1, <2>2, <2>3, HeadAndTail
  <2>5. \A u \in Vehicles \ ToSet(todo) : TwoOpt(D, routes[u]) = routes[u]
    BY <2>1 DEF SearchedInv
  <2>6. CASE TwoOpt(D, routes[v]) # routes[v]
    <3>1. routes' = [routes EXCEPT ![v] = TwoOpt(D, routes[v])] /\ todo' = todo
      BY <1>3, <2>3, <2>6 DEF TwoOptPass
    <3>2. \A u \in Vehicles \ ToSet(todo) : routes'[u] = routes[u]
      BY <2>2, <2>4, <3>1
    <3> QED BY <2>1, <2>2, <2>5, <3>1, <3>2 DEF SearchedInv
  <2>7. CASE TwoOpt(D, routes[v]) = routes[v]
    <3>1. routes' = routes /\ todo' = Tail(todo)
      BY <1>3, <2>3, <2>7 DEF TwoOptPass
    <3>2. \A u \in Vehicles \ ToSet(todo') : TwoOpt(D, routes[u]) = routes[u]
      BY <2>4, <2>5, <2>7, <3>1
    <3> QED BY <2>1, <2>2, <3>1, <3>2 DEF SearchedInv
  <2> QED BY <2>6, <2>7
<1>4. CASE MakeMove
  <2>1. /\ phase \in Running /\ phase # "seed" /\ phase \in {"local", "final"}
        /\ phase' = phase /\ todo = <<>> /\ UNCHANGED <<input, D>>
    BY <1>4 DEF MakeMove, Searching, Running
  <2>2. NoneEmpty(routes, Vehicles) /\ ToSet(todo) = {} /\ Vehicles' = Vehicles
    BY <2>1, SearchingState, SameInput
  <2>3. PICK c : c = BestMove
    OBVIOUS
  <2>4. c.kind # "none" /\ routes' = Moved(routes, c) /\ todo' = <<c.v, c.w>>
    BY <1>4, <2>3 DEF MakeMove, Changed
  <2>5. c \in RelocationMoves \cup SwapMoves
    <3>1. c \in {NoMove} \cup RelocationMoves \cup SwapMoves
      BY <2>1, <2>3, BestMoveIsOne
    <3>2. NoMove.kind = "none"
      BY DEF NoMove
    <3> QED BY <2>4, <3>1, <3>2
  <2>6. \A u \in Vehicles \ {c.v, c.w} : routes'[u] = routes[u]
    BY <2>1, <2>2, <2>4, <2>5, MovesKeepThePlan
  <2>7. c.v \in ToSet(todo') /\ c.w \in ToSet(todo')
    BY <2>4 DEF ToSet
  <2>8. \A u \in Vehicles \ ToSet(todo') : TwoOpt(D, routes'[u]) = routes'[u]
    BY <2>1, <2>2, <2>6, <2>7 DEF SearchedInv
  <2> QED BY <2>1, <2>2, <2>8 DEF SearchedInv
<1>5. CASE Return
  <2>1. /\ phase = "final" /\ BestMove.kind = "none" /\ phase' = "returned"
        /\ UNCHANGED <<input, D, routes, distances, todo>>
    BY <1>5 DEF Return
  <2>2. BestMove' = BestMove /\ Vehicles' = Vehicles
    BY <2>1, SameInput DEF BestMove
  <2> QED BY <2>1, <2>2 DEF SearchedInv
<1>6. CASE UNCHANGED vars
  <2>1. /\ Vehicles' = Vehicles /\ BestMove' = BestMove
        /\ UNCHANGED <<phase, D, routes, todo>>
    BY <1>6, SameInput DEF vars, BestMove
  <2> QED BY <2>1 DEF SearchedInv
<1> QED BY <1>1, <1>2, <1>3, <1>4, <1>5, <1>6 DEF Next

LEMMA MatrixIsSymmetric ==
    ASSUME EngineInv, phase \in Running
    PROVE  Symmetric(D, Len(input.stops))
<1>1. /\ input.depot \in Places /\ input.stops \in Seq(Places) /\ D = DistanceMatrix
  BY RunningState
<1>2. \A a \in Nodes : PlaceOf(a) \in Places
  BY <1>1, MatrixOfPlaces
<1>3. \A a, b \in Nodes : DistanceMatrix[a][b] = Distance[PlaceOf(a)][PlaceOf(b)]
  BY <1>1, MatrixOfPlaces
<1>4. \A p, q \in Places : Distance[p][q] = Distance[q][p]
  BY OptimizerAssumption
<1> QED BY <1>1, <1>2, <1>3, <1>4 DEF Symmetric, Nodes

\* What the searches found no better than the result: the moves by their routes.
LEMMA NoRoutesAreBetter ==
    ASSUME EngineInv, SearchedInv, phase = "returned",
           NEW v \in Vehicles, NEW w \in Vehicles, v # w, NEW i \in 1..Len(routes[v]), NEW j
    PROVE  /\ GivesAway(routes[v]) /\ j \in 1..(Len(routes[w]) + 1) =>
                ~IsBetter(ObjectiveOf(D, Relocate(routes, v, i, w, j)), ObjectiveOf(D, routes))
           /\ v < w /\ j \in 1..Len(routes[w]) =>
                ~IsBetter(ObjectiveOf(D, Swap(routes, v, i, w, j)), ObjectiveOf(D, routes))
<1>0. phase \in Running /\ phase # "seed" /\ todo = <<>> /\ BestMove.kind = "none"
  BY DEF Running, EngineInv, TodoInv, Searching, SearchedInv
<1>1. PICK z, V, m, r, ds : /\ z = Len(input.stops) /\ V = Vehicles /\ m = D
                            /\ r = routes /\ ds = distances
  OBVIOUS
<1>2. /\ z \in Nat /\ m \in Matrices(z) /\ r \in [V -> Seq(1..z)]
      /\ ds = RouteDistances(m, r)
  BY <1>0, <1>1, RunningState, SearchingState DEF Stops
<1>3. v \in V /\ w \in V /\ i \in 1..Len(r[v])
  BY <1>1
<1>4. /\ j \in 1..(Len(r[w]) + 1) =>
            RelocateObjective(m, r, ds, v, i, w, j) = ObjectiveOf(m, Relocate(r, v, i, w, j))
      /\ j \in 1..Len(r[w]) =>
            SwapObjective(m, r, ds, v, i, w, j) = ObjectiveOf(m, Swap(r, v, i, w, j))
  BY <1>2, <1>3, MovesAreMeasured
<1>5. /\ RelocationOf(m, r, ds, v, i, w, j).objective = RelocateObjective(m, r, ds, v, i, w, j)
      /\ SwapOf(m, r, ds, v, i, w, j).objective = SwapObjective(m, r, ds, v, i, w, j)
  BY DEF RelocationOf, SwapOf, Move
<1>6. Objective(ds) = ObjectiveOf(m, r)
  BY <1>2 DEF ObjectiveOf
<1>7. ASSUME GivesAway(r[v]), j \in 1..(Len(r[w]) + 1)
      PROVE  ~IsBetter(ObjectiveOf(m, Relocate(r, v, i, w, j)), ObjectiveOf(m, r))
  <2>1. ~IsBetter(RelocationOf(m, r, ds, v, i, w, j).objective, Objective(ds))
    BY <1>0, <1>1, <1>7, NoMoveIsBetter
  <2> QED BY <1>4, <1>5, <1>6, <1>7, <2>1
<1>8. ASSUME v < w, j \in 1..Len(r[w])
      PROVE  ~IsBetter(ObjectiveOf(m, Swap(r, v, i, w, j)), ObjectiveOf(m, r))
  <2>1. ~IsBetter(SwapOf(m, r, ds, v, i, w, j).objective, Objective(ds))
    BY <1>0, <1>1, <1>8, NoMoveIsBetter
  <2> QED BY <1>4, <1>5, <1>6, <1>8, <2>1
<1> QED BY <1>1, <1>7, <1>8

\* The result of the two local searches: no move of a stop to another route, no
\* swap and no reversal makes it better by more than Eps, whatever the distances.
THEOREM ResultCannotBeImproved == Spec => []ResultIsLocalOptimum
<1>1. EngineInv /\ SearchedInv => ResultIsLocalOptimum
  <2> SUFFICES ASSUME EngineInv, SearchedInv, phase = "returned"
               PROVE  /\ \A r \in Relocations(routes) \cup Swaps(routes) :
                            ~IsBetter(ObjectiveOf(D, r), ObjectiveOf(D, routes))
                      /\ \A v \in Vehicles : \A s, e \in 1..Len(routes[v]) :
                            s < e => RouteDistance(D, Reversed(routes[v], s, e)) + Eps
                                       >= RouteDistance(D, routes[v])
    BY DEF ResultIsLocalOptimum
  <2>1. phase \in Running /\ todo = <<>>
    BY DEF Running, EngineInv, TodoInv, Searching
  <2>2. /\ routes \in [Vehicles -> Seq(Stops)] /\ Len(input.stops) \in Nat
        /\ D \in Matrices(Len(input.stops)) /\ Stops \subseteq Nat \ {0} /\ Vehicles \subseteq Int
    BY <2>1, RunningState DEF Stops, Vehicles
  <2>3. ASSUME NEW p \in Relocations(routes)
        PROVE  ~IsBetter(ObjectiveOf(D, p), ObjectiveOf(D, routes))
    <3>1. PICK m \in Vehicles \X Stops \X Vehicles \X Stops :
             /\ m[1] # m[3] /\ GivesAway(routes[m[1]])
             /\ m[2] <= Len(routes[m[1]]) /\ m[4] <= Len(routes[m[3]]) + 1
             /\ p = Relocate(routes, m[1], m[2], m[3], m[4])
      BY DEF Relocations
    <3>2. PICK v, i, w, j : v = m[1] /\ i = m[2] /\ w = m[3] /\ j = m[4]
      OBVIOUS
    <3>3. /\ v \in Vehicles /\ w \in Vehicles /\ v # w /\ GivesAway(routes[v])
          /\ i \in Stops /\ j \in Stops
          /\ i <= Len(routes[v]) /\ j <= Len(routes[w]) + 1 /\ p = Relocate(routes, v, i, w, j)
      BY <3>1, <3>2
    <3>4. i \in 1..Len(routes[v]) /\ j \in 1..(Len(routes[w]) + 1)
      <4>1. Len(routes[v]) \in Nat /\ Len(routes[w]) \in Nat
        BY <2>2, <3>3
      <4>2. i \in Nat \ {0} /\ j \in Nat \ {0}
        BY <2>2, <3>3
      <4> QED BY <3>3, <4>1, <4>2
    <3> QED BY <3>3, <3>4, NoRoutesAreBetter
  <2>4. ASSUME NEW p \in Swaps(routes)
        PROVE  ~IsBetter(ObjectiveOf(D, p), ObjectiveOf(D, routes))
    <3>1. PICK m \in Vehicles \X Stops \X Vehicles \X Stops :
             /\ m[1] # m[3] /\ m[2] <= Len(routes[m[1]]) /\ m[4] <= Len(routes[m[3]])
             /\ p = Swap(routes, m[1], m[2], m[3], m[4])
      BY DEF Swaps
    <3>2. PICK v, i, w, j : v = m[1] /\ i = m[2] /\ w = m[3] /\ j = m[4]
      OBVIOUS
    <3>3. /\ v \in Vehicles /\ w \in Vehicles /\ v # w /\ i \in Stops /\ j \in Stops
          /\ i <= Len(routes[v]) /\ j <= Len(routes[w]) /\ p = Swap(routes, v, i, w, j)
      BY <3>1, <3>2
    <3>4. i \in 1..Len(routes[v]) /\ j \in 1..Len(routes[w])
      <4>1. Len(routes[v]) \in Nat /\ Len(routes[w]) \in Nat
        BY <2>2, <3>3
      <4>2. i \in Nat \ {0} /\ j \in Nat \ {0}
        BY <2>2, <3>3
      <4> QED BY <3>3, <4>1, <4>2
    <3>5. p = Swap(routes, w, j, v, i)
      <4>1. PICK V, r : V = Vehicles /\ r = routes
        OBVIOUS
      <4>2. r = [u \in V |-> r[u]] /\ v \in V /\ w \in V
        BY <2>2, <3>3, <4>1
      <4>3. Swap(r, v, i, w, j) = Swap(r, w, j, v, i)
        BY <3>3, <4>2, SwapIsSymmetric
      <4> QED BY <3>3, <4>1, <4>3
    <3>6. CASE v < w
      BY <3>3, <3>4, <3>6, NoRoutesAreBetter
    <3>7. CASE w < v
      <4>1. ~IsBetter(ObjectiveOf(D, Swap(routes, w, j, v, i)), ObjectiveOf(D, routes))
        BY <3>3, <3>4, <3>7, NoRoutesAreBetter
      <4> QED BY <3>5, <4>1
    <3>8. v < w \/ w < v
      BY <2>2, <3>3
    <3> QED BY <3>6, <3>7, <3>8
  <2>5. ASSUME NEW v \in Vehicles, NEW s \in 1..Len(routes[v]), NEW e \in 1..Len(routes[v]), s < e
        PROVE  RouteDistance(D, Reversed(routes[v], s, e)) + Eps >= RouteDistance(D, routes[v])
    <3>1. PICK z, m, r : z = Len(input.stops) /\ m = D /\ r = routes[v]
      OBVIOUS
    <3>2. z \in Nat /\ m \in Matrices(z) /\ r \in Seq(1..z)
      BY <2>2, <3>1 DEF Stops
    <3>3. Symmetric(m, z)
      BY <2>1, <3>1, MatrixIsSymmetric
    <3>4. TwoOpt(m, r) = r
      <4>1. v \notin ToSet(todo)
        BY <2>1 DEF ToSet
      <4> QED BY <3>1, <4>1 DEF SearchedInv
    <3>5. RouteDistance(m, Reversed(r, s, e)) + Eps >= RouteDistance(m, r)
      BY <2>5, <3>1, <3>2, <3>3, <3>4, TwoOptIsLocallyOptimal
    <3> QED BY <3>1, <3>5
  <2> QED BY <2>3, <2>4, <2>5
<1>2. Init => SearchedInv
  BY DEF Init, SearchedInv
<1>3. EngineInv /\ SearchedInv /\ [Next]_vars => SearchedInv'
  BY SearchedStep
<1> QED BY <1>1, <1>2, <1>3, EngineInvariant, PTL DEF Spec

-----------------------------------------------------------------------------

(***************************************************************************)
(* The search implements Assignment.                                       *)
(***************************************************************************)

LEMMA PromisedOperators ==
    ASSUME NEW ds, NEW a, NEW b
    PROVE  /\ Promised!Objective(ds) = Objective(ds)
           /\ Promised!IsBetter(a, b) <=> IsBetter(a, b)
           /\ Promised!Stops = Stops /\ Promised!Vehicles = Vehicles
<1>1. Promised!Objective(ds) = Objective(ds)
  <2>1. Promised!Max(Promised!ToSet(ds)) = Max(ToSet(ds))
    BY DEF Promised!Max, Max, Promised!ToSet, ToSet
  <2>2. Promised!Loop(LAMBDA total, v : total + ds[v], 0, Len(ds))
          = Loop(LAMBDA total, v : total + ds[v], 0, Len(ds))
    BY DEF Promised!Loop, Loop, Promised!Once, Once
  <2>3. Promised!Summary(ds) = Summary(ds)
    BY <2>1, <2>2 DEF Promised!Summary, Summary
  <2>4. Promised!Objective(ds) = Promised!Summary(ds)
    BY DEF Promised!Objective, Promised!Once
  <2>5. Objective(ds) = Summary(ds)
    BY DEF Objective, Once
  <2> QED BY <2>3, <2>4, <2>5
<1>2. Promised!IsBetter(a, b) <=> IsBetter(a, b)
  BY DEF Promised!IsBetter, IsBetter
<1>3. Promised!Stops = Stops /\ Promised!Vehicles = Vehicles
  BY DEF Promised!Stops, Stops, Promised!Vehicles, Vehicles
<1> QED BY <1>1, <1>2, <1>3

LEMMA PromisedValidity ==
    ASSUME NEW depot, NEW stops, NEW vehicles
    PROVE  Promised!IsValidInput(depot, stops, vehicles) <=> IsValidInput(depot, stops, vehicles)
<1>1. \A c : Promised!IsValidCoordinate(c) <=> IsValidCoordinate(c)
  BY DEF Promised!IsValidCoordinate, IsValidCoordinate, Promised!IsFinite, IsFinite,
         Promised!Finite, Finite, Promised!Less, Less, Promised!NaN, NaN
<1> QED BY <1>1 DEF Promised!IsValidInput, IsValidInput

Touring == INSTANCE LoopProofs WITH
    Turn <- LAMBDA tour, b, c, d, e, g, total, i : total + Distance[tour[i]][tour[i + 1]]

\* A tour along the coordinates passes the nodes of the closed route.
LEMMA TourOfARoute ==
    ASSUME input.depot \in Places, input.stops \in Seq(Places), NEW r \in Seq(Stops),
           NEW t, t = Promised!Tour(r)
    PROVE  /\ t = RouteCoordinates(r) /\ Len(t) = Len(r) + 2
           /\ \A i \in 1..(Len(r) + 2) : t[i] = PlaceOf(Node(r, i - 1))
<1>1. /\ Len(r) \in Nat /\ DOMAIN r = 1..Len(r) /\ Len(input.stops) \in Nat
      /\ \A i \in 1..Len(r) : r[i] \in 1..Len(input.stops)
  BY DEF Stops
<1>2. PICK a, b, c : /\ a = <<input.depot>> /\ b = [i \in 1..Len(r) |-> input.stops[r[i]]]
                     /\ c = a \o b
  OBVIOUS
<1>3. /\ a \in Seq(Places) /\ b \in Seq(Places) /\ Len(a) = 1 /\ Len(b) = Len(r)
      /\ a[1] = input.depot /\ \A i \in 1..Len(r) : b[i] = input.stops[r[i]]
  BY <1>1, <1>2
<1>4. /\ c \in Seq(Places) /\ Len(c) = Len(r) + 1 /\ c[1] = input.depot
      /\ \A i \in 1..Len(r) : c[i + 1] = input.stops[r[i]]
  BY <1>1, <1>2, <1>3
<1>5. t = c \o a
  BY <1>1, <1>2 DEF Promised!Tour
<1>6. /\ Len(t) = Len(r) + 2 /\ t[1] = input.depot /\ t[Len(r) + 2] = input.depot
      /\ \A i \in 1..Len(r) : t[i + 1] = input.stops[r[i]]
  <2>1. PICK n : n = Len(r)
    OBVIOUS
  <2>2. /\ n \in Nat /\ c \in Seq(Places) /\ Len(c) = n + 1 /\ a \in Seq(Places) /\ Len(a) = 1
    BY <1>1, <1>3, <1>4, <2>1
  <2>3. /\ Len(t) = n + 2 /\ \A i \in 1..(n + 1) : t[i] = c[i]
        /\ t[n + 2] = a[1]
    <3>1. c \in Seq(Places)
      BY <2>2
    <3>2. a \in Seq(Places)
      BY <2>2
    <3>3. /\ Len(t) = Len(c) + Len(a) /\ \A k \in 1..Len(c) : t[k] = c[k]
          /\ \A k \in 1..Len(t) : k > Len(c) => t[k] = a[k - Len(c)]
      BY <1>5, <3>1, <3>2, Joined
    <3>4. PICK k : k = n + 2
      OBVIOUS
    <3>5. k \in 1..Len(t) /\ k > Len(c) /\ k - Len(c) = 1 /\ Len(t) = n + 2
      BY <2>2, <3>3, <3>4
    <3>6. t[k] = a[1]
      BY <3>3, <3>5
    <3> QED BY <2>2, <3>3, <3>4, <3>5, <3>6
  <2>4. 1 \in 1..(n + 1) /\ \A i \in 1..n : i + 1 \in 1..(n + 1)
    BY <2>2
  <2> QED BY <1>3, <1>4, <2>1, <2>3, <2>4
<1>7. ASSUME NEW i \in 1..(Len(r) + 2) PROVE t[i] = PlaceOf(Node(r, i - 1))
  <2>1. CASE i = 1 \/ i = Len(r) + 2
    <3>1. Node(r, i - 1) = 0
      BY <1>1, <2>1 DEF Node
    <3> QED BY <1>6, <2>1, <3>1 DEF PlaceOf
  <2>2. CASE i # 1 /\ i # Len(r) + 2
    <3>1. i - 1 \in 1..Len(r) /\ i - 1 + 1 = i
      BY <1>1, <2>2
    <3>2. t[i] = input.stops[r[i - 1]] /\ Node(r, i - 1) = r[i - 1] /\ r[i - 1] # 0
      BY <1>1, <1>6, <3>1 DEF Node
    <3> QED BY <3>2 DEF PlaceOf
  <2> QED BY <2>1, <2>2
<1>8. t = RouteCoordinates(r)
  <2>1. b = [i \in DOMAIN r |-> PlaceOf(r[i])]
    <3>1. \A i \in 1..Len(r) : PlaceOf(r[i]) = input.stops[r[i]]
      BY <1>1 DEF PlaceOf
    <3> QED BY <1>1, <1>2, <3>1
  <2> QED BY <1>2, <1>5, <2>1 DEF RouteCoordinates
<1> QED BY <1>6, <1>7, <1>8

LEMMA LengthOfATour ==
    ASSUME input.depot \in Places, input.stops \in Seq(Places), NEW r \in Seq(Stops)
    PROVE  Promised!Length(Promised!Tour(r)) = RouteDistance(DistanceMatrix, r)
<1> DEFINE n == Len(r) + 1
           I == [i \in 0..n |-> {Partial(DistanceMatrix, r, i)}]
<1>0. PICK t : t = Promised!Tour(r)
  OBVIOUS
<1>1. n \in Nat /\ 0 \in I[0] /\ I[n] = {Partial(DistanceMatrix, r, n)}
  BY PartialUnfolds
<1>2. /\ Len(t) - 1 = n
      /\ \A i \in 1..n : t[i] = PlaceOf(Node(r, i - 1)) /\ t[i + 1] = PlaceOf(Node(r, i))
  <2>1. Len(t) = Len(r) + 2 /\ \A i \in 1..(Len(r) + 2) : t[i] = PlaceOf(Node(r, i - 1))
    BY <1>0, TourOfARoute
  <2>2. Len(r) \in Nat
    OBVIOUS
  <2>3. ASSUME NEW i \in 1..n PROVE t[i] = PlaceOf(Node(r, i - 1)) /\ t[i + 1] = PlaceOf(Node(r, i))
    <3>1. i \in 1..(Len(r) + 2) /\ i + 1 \in 1..(Len(r) + 2) /\ i + 1 - 1 = i
      BY <2>2
    <3>2. t[i + 1] = PlaceOf(Node(r, i + 1 - 1))
      BY <2>1, <3>1
    <3> QED BY <2>1, <3>1, <3>2
  <2> QED BY <2>1, <2>2, <2>3
<1>3. ASSUME NEW i \in 1..n, NEW total \in I[i - 1]
      PROVE  total + Distance[t[i]][t[i + 1]] \in I[i]
  <2>1. total = Partial(DistanceMatrix, r, i - 1)
    OBVIOUS
  <2>2. Node(r, i - 1) \in Nodes /\ Node(r, i) \in Nodes
    BY MatrixOfPlaces, NodesOfRoute DEF Nodes, Stops
  <2>3. Distance[t[i]][t[i + 1]] = Leg(DistanceMatrix, r, i)
    BY <1>2, <2>2, MatrixOfPlaces DEF Leg
  <2>4. Partial(DistanceMatrix, r, i) = Partial(DistanceMatrix, r, i - 1) + Leg(DistanceMatrix, r, i)
    BY LegUnfolds
  <2>5. I[i] = {Partial(DistanceMatrix, r, i)}
    OBVIOUS
  <2> HIDE DEF I
  <2> QED BY <2>1, <2>3, <2>4, <2>5
<1> HIDE DEF I, n
<1>4. Touring!Run(t, 0, 0, 0, 0, 0, 0, n) \in I[n]
  BY <1>1, <1>3, Touring!LoopKeeps
<1>5. Promised!Length(t) = Touring!Run(t, 0, 0, 0, 0, 0, 0, n)
  BY <1>2 DEF Promised!Length, Touring!Run, Promised!Loop, Promised!Once, Touring!Loop, Touring!Once
<1>6. RouteDistance(DistanceMatrix, r) = Partial(DistanceMatrix, r, n)
  BY LoopsOfARoute DEF n
<1> QED BY <1>0, <1>1, <1>4, <1>5, <1>6

\* What Assignment says of a plan, in the terms of the search.
LEMMA PlansOfTheSearch ==
    ASSUME EngineInv, phase \in Running, NEW p \in [Vehicles -> Seq(Stops)]
    PROVE  /\ Promised!Lengths(p) = RouteDistances(D, p)
           /\ Partition(p, Vehicles, Stops) /\ NoneEmpty(p, Vehicles) => Promised!Complete(p)
           /\ \A A : Partition(p, Vehicles, A) => Promised!Visited(p) = A
<1>1. input.depot \in Places /\ input.stops \in Seq(Places) /\ D = DistanceMatrix
  BY RunningState
<1>2. DOMAIN p = Vehicles
  OBVIOUS
<1>3. Promised!Lengths(p) = RouteDistances(D, p)
  <2>1. ASSUME NEW v \in Vehicles
        PROVE  Promised!Length(Promised!Tour(p[v])) = RouteDistance(D, p[v])
    BY <1>1, LengthOfATour
  <2> QED BY <1>2, <2>1 DEF Promised!Lengths, RouteDistances
<1>4. ASSUME NEW A, Partition(p, Vehicles, A) PROVE Promised!Visited(p) = A
  <2>1. StopsOf(p) = A
    BY <1>4, PartitionsVisitOnce
  <2>2. \A v : Promised!ToSet(p[v]) = ToSet(p[v])
    BY DEF Promised!ToSet, ToSet
  <2> QED BY <1>2, <2>1, <2>2 DEF StopsOf, Promised!Visited
<1>5. ASSUME Partition(p, Vehicles, Stops), NoneEmpty(p, Vehicles) PROVE Promised!Complete(p)
  <2>1. Promised!Visited(p) = Stops
    BY <1>4, <1>5
  <2>2. \A v \in Vehicles : p[v] # <<>>
    <3>1. Len(<<>>) = 0
      OBVIOUS
    <3> QED BY <1>5, <3>1 DEF NoneEmpty
  <2>3. \A v, w \in Vehicles : \A i \in 1..Len(p[v]), j \in 1..Len(p[w]) :
          p[v][i] = p[w][j] => v = w /\ i = j
    BY <1>5 DEF Partition
  <2>4. Promised!Stops = Stops /\ Promised!Vehicles = Vehicles
    BY PromisedOperators
  <2> QED BY <2>1, <2>2, <2>3, <2>4 DEF Promised!Complete
<1> QED BY <1>3, <1>4, <1>5

Summing == INSTANCE LoopProofs WITH
    Turn <- LAMBDA ds, b, c, d, e, g, total, v : total + ds[v]

\* The sum of the first k distances.
Sum(ds, k) == Summing!Run(ds, 0, 0, 0, 0, 0, 0, k)

LEMMA SumUnfolds ==
    ASSUME NEW ds, NEW j \in Nat, NEW k, k = j + 1
    PROVE  Sum(ds, 0) = 0 /\ Sum(ds, k) = Sum(ds, j) + ds[k]
BY Summing!LoopUnfolds DEF Sum

LEMMA SumIsNat ==
    ASSUME NEW k \in Nat, NEW ds, \A v \in 1..k : ds[v] \in Nat
    PROVE  Sum(ds, k) \in Nat
<1>1. PICK T : T = Nat
  OBVIOUS
<1>2. 0 \in T /\ \A v \in 1..k : \A x \in T : x + ds[v] \in T
  BY <1>1
<1>3. Sum(ds, k) \in T
  BY <1>2, Summing!LoopStays DEF Sum
<1> QED BY <1>1, <1>3

\* A distance that is as long as any.
LEMMA LongestExists ==
    ASSUME NEW n \in Nat, n # 0, NEW ds \in [1..n -> Nat]
    PROVE  \E v \in 1..n : \A u \in 1..n : ds[u] <= ds[v]
<1> DEFINE S == {k \in 0..n : k = 0 \/ \E v \in 1..k : \A u \in 1..k : ds[u] <= ds[v]}
<1>1. 0 \in S
  OBVIOUS
<1>2. ASSUME NEW k \in 1..n, k - 1 \in S PROVE k \in S
  <2>1. CASE k = 1
    <3>1. \A u \in 1..k : u = k /\ ds[u] \in Nat
      BY <2>1
    <3>2. k \in 1..k /\ \A u \in 1..k : ds[u] <= ds[k]
      BY <2>1, <3>1
    <3> QED BY <3>2
  <2>2. CASE k # 1
    <3>1. PICK v \in 1..(k - 1) : \A u \in 1..(k - 1) : ds[u] <= ds[v]
      BY <1>2, <2>2
    <3>2. v \in 1..k /\ ds[v] \in Nat /\ ds[k] \in Nat
      OBVIOUS
    <3>3. \A u \in 1..k : u \in 1..(k - 1) \/ u = k
      OBVIOUS
    <3>4. CASE ds[k] <= ds[v]
      <4>1. \A u \in 1..k : ds[u] <= ds[v]
        BY <3>1, <3>3, <3>4
      <4> QED BY <3>2, <4>1
    <3>5. CASE ds[v] < ds[k]
      <4>1. ASSUME NEW u \in 1..k PROVE ds[u] <= ds[k]
        <5>1. CASE u = k
          BY <3>2, <5>1
        <5>2. CASE u \in 1..(k - 1)
          <6>1. ds[u] <= ds[v] /\ ds[u] \in Nat
            BY <3>1, <5>2
          <6> QED BY <3>2, <3>5, <6>1
        <5> QED BY <3>3, <5>1, <5>2
      <4>2. k \in 1..k
        OBVIOUS
      <4> QED BY <4>1, <4>2
    <3> QED BY <3>2, <3>4, <3>5
  <2> QED BY <2>1, <2>2
<1> HIDE DEF S
<1>3. \A k \in 0..n : k \in S
  BY <1>1, <1>2, Summing!InductionUpTo
<1>4. n \in S
  BY <1>3
<1> QED BY <1>4 DEF S

\* The objective of distances: the longest, and the sum of all.
LEMMA ObjectiveIs ==
    ASSUME NEW n \in Nat, n # 0, NEW ds \in [1..n -> Nat]
    PROVE  /\ Objective(ds) = [longest |-> Max(ToSet(ds)), total |-> Sum(ds, n)]
           /\ \E v \in 1..n : Max(ToSet(ds)) = ds[v]
           /\ \A v \in 1..n : ds[v] <= Max(ToSet(ds))
<1>1. Len(ds) = n /\ ToSet(ds) = {ds[v] : v \in 1..n}
  BY DEF ToSet
<1>2. Objective(ds) = [longest |-> Max(ToSet(ds)), total |-> Sum(ds, n)]
  <2>1. Objective(ds) = Summary(ds)
    BY DEF Objective, Once
  <2>2. Sum(ds, n) = Loop(LAMBDA total, v : total + ds[v], 0, n)
    BY DEF Sum, Summing!Run, Loop, Once, Summing!Loop, Summing!Once
  <2> QED BY <1>1, <2>1, <2>2 DEF Summary
<1>3. PICK x \in ToSet(ds) : \A y \in ToSet(ds) : x >= y
  <2>1. PICK v \in 1..n : \A u \in 1..n : ds[u] <= ds[v]
    BY LongestExists
  <2>2. \A y \in ToSet(ds) : ds[v] >= y
    BY <1>1, <2>1
  <2>3. ds[v] \in ToSet(ds)
    BY <1>1
  <2> QED BY <2>2, <2>3
<1>4. Max(ToSet(ds)) \in ToSet(ds) /\ \A y \in ToSet(ds) : Max(ToSet(ds)) >= y
  BY <1>3 DEF Max
<1>5. \A v \in 1..n : ds[v] \in ToSet(ds) /\ ds[v] \in Nat
  BY <1>1
<1>6. \A v \in 1..n : ds[v] <= Max(ToSet(ds))
  BY <1>1, <1>4, <1>5
<1> QED BY <1>1, <1>2, <1>4, <1>6

Objectives == [longest : Nat, total : Nat]

LEMMA ObjectiveIsOne ==
    ASSUME NEW n \in Nat, n # 0, NEW ds \in [1..n -> Nat]
    PROVE  Objective(ds) \in Objectives
<1>1. Sum(ds, n) \in Nat
  <2>1. \A v \in 1..n : ds[v] \in Nat
    OBVIOUS
  <2> QED BY <2>1, SumIsNat
<1>2. Max(ToSet(ds)) \in Nat
  BY ObjectiveIs
<1>3. Objective(ds) = [longest |-> Max(ToSet(ds)), total |-> Sum(ds, n)]
  BY ObjectiveIs
<1> QED BY <1>1, <1>2, <1>3 DEF Objectives

LEMMA SumIsMonotone ==
    ASSUME NEW n \in Nat, NEW ds \in [1..n -> Nat], NEW es \in [1..n -> Nat],
           \A v \in 1..n : es[v] <= ds[v]
    PROVE  Sum(es, n) <= Sum(ds, n)
<1> DEFINE I == [i \in 0..n |-> {x \in Nat : x <= Sum(ds, i)}]
<1>1. \A i \in 0..n : Sum(ds, i) \in Nat
  <2>1. ASSUME NEW i \in 0..n PROVE Sum(ds, i) \in Nat
    <3>1. i \in Nat /\ \A v \in 1..i : ds[v] \in Nat
      OBVIOUS
    <3> QED BY <3>1, SumIsNat
  <2> QED BY <2>1
<1>2. 0 \in I[0]
  <2>1. 0 \in 0..n /\ Sum(ds, 0) = 0
    BY SumUnfolds
  <2> QED BY <2>1
<1>3. ASSUME NEW i \in 1..n, NEW x \in I[i - 1] PROVE x + es[i] \in I[i]
  <2>1. PICK j : j = i - 1
    OBVIOUS
  <2>2. j \in Nat /\ j \in 0..n /\ i \in 0..n /\ i = j + 1
    BY <2>1
  <2>3. Sum(ds, i) = Sum(ds, j) + ds[i]
    BY <2>2, SumUnfolds
  <2>4. x \in Nat /\ x <= Sum(ds, j)
    BY <2>1, <2>2
  <2>5. Sum(ds, j) \in Nat /\ Sum(ds, i) \in Nat /\ es[i] <= ds[i] /\ es[i] \in Nat /\ ds[i] \in Nat
    BY <1>1, <2>2
  <2>6. x + es[i] \in Nat /\ x + es[i] <= Sum(ds, i)
    BY <2>3, <2>4, <2>5
  <2> QED BY <2>2, <2>6
<1> HIDE DEF I
<1>4. Sum(es, n) \in I[n]
  BY <1>2, <1>3, Summing!LoopKeeps DEF Sum
<1> QED BY <1>4 DEF I

\* Distances of which none is longer than before are no worse.
LEMMA ShorterIsNotWorse ==
    ASSUME NEW n \in Nat, n # 0, NEW ds \in [1..n -> Nat], NEW es \in [1..n -> Nat],
           \A v \in 1..n : es[v] <= ds[v]
    PROVE  ~IsBetter(Objective(ds), Objective(es))
<1>1. PICK a, b, x, y : /\ a = Max(ToSet(ds)) /\ b = Max(ToSet(es))
                        /\ x = Sum(ds, n) /\ y = Sum(es, n)
  OBVIOUS
<1>2. Objective(ds) = [longest |-> a, total |-> x] /\ Objective(es) = [longest |-> b, total |-> y]
  BY <1>1, ObjectiveIs
<1>3. a \in Nat /\ b \in Nat /\ b <= a
  <2>1. PICK v \in 1..n : b = es[v]
    BY <1>1, ObjectiveIs
  <2>2. PICK u \in 1..n : a = ds[u]
    BY <1>1, ObjectiveIs
  <2>3. ds[v] <= a
    BY <1>1, ObjectiveIs
  <2>4. es[v] <= ds[v] /\ es[v] \in Nat /\ ds[v] \in Nat /\ ds[u] \in Nat
    OBVIOUS
  <2> QED BY <2>1, <2>2, <2>3, <2>4
<1>4. x \in Nat /\ y \in Nat /\ y <= x
  <2>1. y <= x
    BY <1>1, SumIsMonotone
  <2>2. \A v \in 1..n : ds[v] \in Nat /\ es[v] \in Nat
    OBVIOUS
  <2>3. x \in Nat /\ y \in Nat
    BY <1>1, <2>2, SumIsNat
  <2> QED BY <2>1, <2>3
<1>5. Eps \in Nat
  BY RoutesAssumption
<1> QED BY <1>2, <1>3, <1>4, <1>5 DEF IsBetter

LEMMA BetterIsNotWorse ==
    ASSUME NEW a \in Objectives, NEW b \in Objectives, IsBetter(b, a)
    PROVE  ~IsBetter(a, b)
<1>1. Eps \in Nat
  BY RoutesAssumption
<1> QED BY <1>1 DEF IsBetter, Objectives

-----------------------------------------------------------------------------

\* What a move is predicted to come to is what its routes come to.
LEMMA MovesComeTo ==
    ASSUME EngineInv, Searching, todo = <<>>, NEW c \in RelocationMoves \cup SwapMoves
    PROVE  c.objective = ObjectiveOf(D, Moved(routes, c))
<1>0. phase \in Running /\ phase # "seed"
  BY DEF Searching, Running
<1>1. PredictionsAreExact
  BY Predictions
<1>2. ASSUME NEW v \in Vehicles, NEW w \in Vehicles, v # w, NEW i \in 1..Len(routes[v])
      PROVE  /\ \A j \in 1..(Len(routes[w]) + 1) : Len(routes[v]) > 1 =>
                    RelocateObjective(D, routes, distances, v, i, w, j)
                      = ObjectiveOf(D, Relocate(routes, v, i, w, j))
             /\ \A j \in 1..Len(routes[w]) :
                    SwapObjective(D, routes, distances, v, i, w, j)
                      = ObjectiveOf(D, Swap(routes, v, i, w, j))
  BY <1>1, <1>2 DEF PredictionsAreExact
<1>3. CASE c \in RelocationMoves
  <2>1. PICK p \in Vehicles \X Nat \X Vehicles \X Nat :
           /\ IsRelocation(p)
           /\ c = RelocationOf(D, routes, distances, p[1], p[2], p[3], p[4])
    BY <1>3 DEF RelocationMoves
  <2>2. PICK v, i, w, j : v = p[1] /\ i = p[2] /\ w = p[3] /\ j = p[4]
    OBVIOUS
  <2>3. v \in Vehicles /\ w \in Vehicles
    BY <2>2
  <2>4. /\ v # w /\ Len(routes[v]) > 1
        /\ i \in 1..Len(routes[v]) /\ j \in 1..(Len(routes[w]) + 1)
    BY <2>1, <2>2 DEF IsRelocation, GivesAway
  <2>5. c = RelocationOf(D, routes, distances, v, i, w, j)
    BY <2>1, <2>2
  <2>6. /\ Moved(routes, c) = Relocate(routes, v, i, w, j)
        /\ c.objective = RelocateObjective(D, routes, distances, v, i, w, j)
    BY <2>5 DEF RelocationOf, Move, Moved
  <2> QED BY <1>2, <2>3, <2>4, <2>6
<1>4. CASE c \in SwapMoves
  <2>1. PICK p \in Vehicles \X Nat \X Vehicles \X Nat :
           IsSwap(p) /\ c = SwapOf(D, routes, distances, p[1], p[2], p[3], p[4])
    BY <1>4 DEF SwapMoves
  <2>2. PICK v, i, w, j : v = p[1] /\ i = p[2] /\ w = p[3] /\ j = p[4]
    OBVIOUS
  <2>3. v \in Vehicles /\ w \in Vehicles
    BY <2>2
  <2>4. v # w /\ i \in 1..Len(routes[v]) /\ j \in 1..Len(routes[w])
    BY <2>1, <2>2 DEF IsSwap
  <2>5. c = SwapOf(D, routes, distances, v, i, w, j)
    BY <2>1, <2>2
  <2>6. /\ Moved(routes, c) = Swap(routes, v, i, w, j)
        /\ c.objective = SwapObjective(D, routes, distances, v, i, w, j)
    BY <2>5 DEF SwapOf, Move, Moved
  <2> QED BY <1>2, <2>3, <2>4, <2>6
<1> QED BY <1>3, <1>4

LEMMA PlansHaveObjectives ==
    ASSUME EngineInv, phase \in Running, NEW p \in [Vehicles -> Seq(Stops)]
    PROVE  ObjectiveOf(D, p) \in Objectives
<1>1. PICK n, z, m : n = input.vehicles /\ z = Len(input.stops) /\ m = D
  OBVIOUS
<1>2. n \in Nat /\ n # 0 /\ z \in Nat /\ m \in Matrices(z) /\ p \in [1..n -> Seq(1..z)]
  <2>1. /\ input.vehicles \in Nat /\ input.vehicles >= 1 /\ Len(input.stops) \in Nat
        /\ D \in Matrices(Len(input.stops))
    BY RunningState
  <2> QED BY <1>1, <2>1 DEF Vehicles, Stops
<1>3. RouteDistances(m, p) \in [1..n -> Nat]
  <2>1. \A v \in 1..n : RouteDistance(m, p[v]) \in Nat
    BY <1>2, RouteDistanceIsNat
  <2> QED BY <1>2, <2>1 DEF RouteDistances
<1> QED BY <1>1, <1>2, <1>3, ObjectiveIsOne DEF ObjectiveOf

\* What the searches for a move compare: the objectives of the routes and of each move.
LEMMA ComparedAreObjectives ==
    ASSUME EngineInv, Searching, todo = <<>>
    PROVE  /\ Objective(distances) = ObjectiveOf(D, routes) /\ Objective(distances) \in Objectives
           /\ \A c \in RelocationMoves \cup SwapMoves : c.objective \in Objectives
<1>0. phase \in Running /\ phase # "seed"
  BY DEF Searching, Running
<1>1. Objective(distances) = ObjectiveOf(D, routes) /\ NoneEmpty(routes, Vehicles)
  BY <1>0, SearchingState DEF ObjectiveOf
<1>2. Objective(distances) \in Objectives
  BY <1>0, <1>1, RunningState, PlansHaveObjectives
<1>3. ASSUME NEW c \in RelocationMoves \cup SwapMoves PROVE c.objective \in Objectives
  <2>1. Moved(routes, c) \in [Vehicles -> Seq(Stops)]
    BY <1>0, <1>1, MovesKeepThePlan
  <2> QED BY <1>0, <2>1, MovesComeTo, PlansHaveObjectives
<1> QED BY <1>1, <1>2, <1>3

-----------------------------------------------------------------------------

(***************************************************************************)
(* The move the searches find, where "better" is transitive on what they   *)
(* compare, and how much worse than none it can be where it is not.        *)
(***************************************************************************)

Compared == {Objective(distances)} \cup {c.objective : c \in RelocationMoves \cup SwapMoves}

\* A chain of better moves ends in a better one.
MovesCompare ==
    Searching /\ todo = <<>> =>
        \A a, b, c \in Compared : IsBetter(c, b) /\ IsBetter(b, a) => IsBetter(c, a)

\* Whatever else the plans come to, that is so where the figures that are compared
\* are equal or further apart than Eps.
LEMMA FarMovesCompare ==
    ASSUME EngineInv,
           Searching /\ todo = <<>> => \A a, b \in Compared :
               /\ a.longest - b.longest \in -Eps..Eps => a.longest = b.longest
               /\ a.total - b.total \in -Eps..Eps => a.total = b.total
    PROVE  MovesCompare
<1> SUFFICES ASSUME Searching, todo = <<>>,
                    NEW a \in Compared, NEW b \in Compared, NEW c \in Compared,
                    IsBetter(c, b), IsBetter(b, a)
             PROVE  IsBetter(c, a)
  BY DEF MovesCompare
<1>1. Eps \in Nat
  BY RoutesAssumption
<1>2. PICK x, y, z, s, t, u : /\ x = a.longest /\ y = b.longest /\ z = c.longest
                              /\ s = a.total /\ t = b.total /\ u = c.total
  OBVIOUS
<1>3. x \in Nat /\ y \in Nat /\ z \in Nat /\ s \in Nat /\ t \in Nat /\ u \in Nat
  <2>1. Compared \subseteq Objectives
    BY ComparedAreObjectives DEF Compared
  <2> QED BY <1>2, <2>1 DEF Objectives
<1>4. /\ y - x \in -Eps..Eps => y = x
      /\ z - y \in -Eps..Eps => z = y
  BY <1>2
<1>5. z + Eps < y \/ (z - y \in -Eps..Eps /\ u + Eps < t)
  BY <1>2 DEF IsBetter
<1>6. y + Eps < x \/ (y - x \in -Eps..Eps /\ t + Eps < s)
  BY <1>2 DEF IsBetter
<1>7. z + Eps < x \/ (z - x \in -Eps..Eps /\ u + Eps < s)
  BY <1>1, <1>3, <1>4, <1>5, <1>6
<1> QED BY <1>2, <1>7 DEF IsBetter

Improving == {b \in Moves : b # NoMove => IsBetter(b.objective, Objective(distances))}

LEMMA BestMoveIsBetter ==
    ASSUME EngineInv, Searching, todo = <<>>, MovesCompare
    PROVE  BestMove \in Improving
<1>0. phase \in Running /\ phase # "seed"
  BY DEF Searching, Running
<1>4. ASSUME NEW b \in Improving, NEW c \in RelocationMoves \cup SwapMoves
      PROVE  Consider(b, c) \in Improving
  <2>1. c \in Moves /\ b \in Moves
    BY DEF Moves, Improving
  <2>2. CASE ~IsBetter(c.objective, b.objective)
    BY <2>2, ConsiderIsEither
  <2>3. CASE IsBetter(c.objective, b.objective)
    <3>1. Consider(b, c) = c
      BY <2>3, ConsiderIsEither
    <3>2. CASE b = NoMove
      <4>1. NoMove.objective = Objective(distances)
        BY DEF NoMove
      <4> QED BY <2>1, <2>3, <3>1, <3>2, <4>1 DEF Improving
    <3>3. CASE b # NoMove
      <4>1. b \in RelocationMoves \cup SwapMoves /\ IsBetter(b.objective, Objective(distances))
        BY <3>3 DEF Improving, Moves
      <4>2. /\ b.objective \in Compared /\ c.objective \in Compared
            /\ Objective(distances) \in Compared
        BY <4>1 DEF Compared
      <4>3. IsBetter(c.objective, Objective(distances))
        BY <2>3, <4>1, <4>2 DEF MovesCompare
      <4> QED BY <2>1, <3>1, <4>3 DEF Improving
    <3> QED BY <3>2, <3>3
  <2> QED BY <2>2, <2>3
<1>5. NoMove \in Improving
  BY DEF Improving, Moves
<1>6. KeptByRelocations(D, routes, distances, Improving) /\ KeptBySwaps(D, routes, distances, Improving)
  BY <1>0, <1>4, SearchesStayIn
<1>7. Routings(routes)
  BY <1>0, RoutesAreRoutings
<1>8. SearchRelocations(D, routes, distances, NoMove) \in Improving
  BY <1>5, <1>6, <1>7, RelocationsStay
<1>9. SearchSwaps(D, routes, distances, SearchRelocations(D, routes, distances, NoMove)) \in Improving
  BY <1>6, <1>7, <1>8, SwapsStay
<1> QED BY <1>9 DEF BestMove, NoMove

\* An objective x above another at most, and no dearer where it is nearly x above it.
Above(o, x) ==
    {b \in Objectives : /\ b.longest <= o.longest + x
                        /\ b.longest + Eps >= o.longest + x => b.total <= o.total}

LEMMA AboveClimbs ==
    ASSUME NEW o \in Objectives, NEW x \in Nat, NEW b \in Above(o, x)
    PROVE  /\ \A y \in Nat : x <= y => b \in Above(o, y)
           /\ \A c \in Objectives : IsBetter(c, b) => c \in Above(o, x + Eps)
<1>1. /\ Eps \in Nat /\ b \in Objectives
      /\ o.longest \in Nat /\ o.total \in Nat /\ b.longest \in Nat /\ b.total \in Nat
      /\ b.longest <= o.longest + x
      /\ b.longest + Eps >= o.longest + x => b.total <= o.total
  BY RoutesAssumption DEF Above, Objectives
<1>2. ASSUME NEW y \in Nat, x <= y PROVE b \in Above(o, y)
  BY <1>1, <1>2 DEF Above
<1>3. ASSUME NEW c \in Objectives, IsBetter(c, b) PROVE c \in Above(o, x + Eps)
  <2>1. c.longest \in Nat /\ c.total \in Nat
    BY DEF Objectives
  <2>2. \/ c.longest + Eps < b.longest
        \/ c.longest - b.longest \in -Eps..Eps /\ c.total + Eps < b.total
    BY <1>3 DEF IsBetter
  <2>3. /\ c.longest <= o.longest + (x + Eps)
        /\ c.longest + Eps >= o.longest + (x + Eps) => c.total <= o.total
    BY <1>1, <2>1, <2>2
  <2> QED BY <2>3 DEF Above
<1> QED BY <1>2, <1>3

\* What the searches can have after considering k moves.
Climbed(k) == {b \in Moves : b.objective \in Above(Objective(distances), k * Eps)}

LEMMA Climbing ==
    ASSUME EngineInv, Searching, todo = <<>>, NEW k \in Nat, NEW b \in Climbed(k)
    PROVE  /\ \A l \in Nat : k <= l => b \in Climbed(l)
           /\ \A c \in RelocationMoves \cup SwapMoves : Consider(b, c) \in Climbed(k + 1)
<1>1. PICK o, x : o = Objective(distances) /\ x = k * Eps
  OBVIOUS
<1>2. /\ Eps \in Nat /\ x \in Nat /\ o \in Objectives
      /\ b \in Moves /\ b.objective \in Above(o, x)
  BY <1>1, RoutesAssumption, ComparedAreObjectives DEF Climbed
<1>3. ASSUME NEW l \in Nat, k <= l PROVE b \in Climbed(l)
  <2>1. l * Eps \in Nat /\ x <= l * Eps
    <3>1. l * Eps = k * Eps + (l - k) * Eps /\ (l - k) * Eps \in Nat
      BY <1>2, <1>3
    <3> QED BY <1>1, <1>2, <3>1
  <2>2. b.objective \in Above(o, l * Eps)
    BY <1>2, <2>1, AboveClimbs
  <2> QED BY <1>1, <1>2, <2>2 DEF Climbed
<1>4. ASSUME NEW c \in RelocationMoves \cup SwapMoves PROVE Consider(b, c) \in Climbed(k + 1)
  <2>1. CASE ~IsBetter(c.objective, b.objective)
    <3>1. Consider(b, c) = b
      BY <2>1, ConsiderIsEither
    <3>2. k + 1 \in Nat /\ k <= k + 1
      OBVIOUS
    <3> QED BY <1>3, <3>1, <3>2
  <2>2. CASE IsBetter(c.objective, b.objective)
    <3>1. Consider(b, c) = c /\ c \in Moves
      BY <2>2, ConsiderIsEither DEF Moves
    <3>2. c.objective \in Above(o, x + Eps)
      BY <1>2, <2>2, ComparedAreObjectives, AboveClimbs
    <3>3. (k + 1) * Eps = x + Eps
      BY <1>1, <1>2
    <3> QED BY <1>1, <3>1, <3>2, <3>3 DEF Climbed
  <2> QED BY <2>1, <2>2
<1> QED BY <1>3, <1>4

LEMMA StopsOnRoute ==
    ASSUME NEW A, IsFiniteSet(A), NEW s \in Seq(A),
           \A i, j \in 1..Len(s) : s[i] = s[j] => i = j
    PROVE  /\ IsFiniteSet({s[i] : i \in 1..Len(s)})
           /\ Cardinality({s[i] : i \in 1..Len(s)}) = Len(s)
<1> DEFINE n == Len(s)
           S == {s[i] : i \in 1..n}
           f == [i \in 1..n |-> s[i]]
<1>1. n \in Nat /\ IsFiniteSet(1..n) /\ Cardinality(1..n) = n
  <2>1. n \in Nat /\ n \in Int /\ 1 \in Int
    OBVIOUS
  <2> HIDE DEF n
  <2>2. IsFiniteSet(1..n) /\ Cardinality(1..n) = IF 1 > n THEN 0 ELSE n - 1 + 1
    BY <2>1, FS_Interval
  <2> QED BY <2>1, <2>2
<1>2. f \in [1..n -> S] /\ \A x \in S : \E i \in 1..n : f[i] = x
  OBVIOUS
<1>3. \A i, j \in 1..n : f[i] = f[j] => i = j
  OBVIOUS
<1> HIDE DEF f, n, S
<1>4. f \in Bijection(1..n, S)
  BY <1>2, <1>3 DEF Bijection, Injection, Surjection, IsInjective
<1>5. IsFiniteSet(S) /\ Cardinality(S) = n
  BY <1>1, <1>4, FS_Bijection DEF ExistsBijection
<1> QED BY <1>5 DEF n, S

\* f counts the stops on the first routes of a partition.
Counts(f, r, n, total) ==
    /\ f \in [0..n -> Nat] /\ f[0] = 0 /\ f[n] = total
    /\ \A k \in 1..n : f[k] = f[k - 1] + Len(r[k])

LEMMA PartitionsCount ==
    ASSUME NEW n \in Nat, NEW A, IsFiniteSet(A), NEW r \in [1..n -> Seq(A)],
           Partition(r, 1..n, A)
    PROVE  \E f : Counts(f, r, n, Cardinality(A))
<1> DEFINE On(v) == {r[v][i] : i \in 1..Len(r[v])}
           U(k) == {a \in A : \E v \in 1..k : a \in On(v)}
           f == [k \in 0..n |-> Cardinality(U(k))]
<1>1. ASSUME NEW v \in 1..n
      PROVE  IsFiniteSet(On(v)) /\ Cardinality(On(v)) = Len(r[v]) /\ Len(r[v]) \in Nat
  <2>1. PICK s : s = r[v]
    OBVIOUS
  <2>2. s \in Seq(A) /\ Len(s) \in Nat
    BY <2>1
  <2>3. \A i, j \in 1..Len(s) : s[i] = s[j] => i = j
    <3>1. \A i, j \in 1..Len(r[v]) : r[v][i] = r[v][j] => i = j
      BY DEF Partition
    <3> QED BY <2>1, <3>1
  <2>4. /\ IsFiniteSet({s[i] : i \in 1..Len(s)})
        /\ Cardinality({s[i] : i \in 1..Len(s)}) = Len(s)
    BY <2>2, <2>3, StopsOnRoute
  <2> QED BY <2>1, <2>2, <2>4
<1>2. ASSUME NEW k \in 0..n PROVE IsFiniteSet(U(k)) /\ Cardinality(U(k)) \in Nat
  <2>1. U(k) \in SUBSET A
    OBVIOUS
  <2> HIDE DEF U
  <2> QED BY <2>1, FS_Subset, FS_CardinalityType
<1>3. ASSUME NEW k \in 1..n
      PROVE  Cardinality(U(k)) = Cardinality(U(k - 1)) + Len(r[k])
  <2>1. On(k) \subseteq A
    <3> SUFFICES ASSUME NEW i \in 1..Len(r[k]) PROVE r[k][i] \in A
      OBVIOUS
    <3> QED BY DEF Partition
  <2>2. U(k) = U(k - 1) \cup On(k)
    <3>1. \A v : v \in 1..k <=> v \in 1..(k - 1) \/ v = k
      OBVIOUS
    <3> HIDE DEF On
    <3> QED BY <2>1, <3>1
  <2>3. U(k - 1) \cap On(k) = {}
    <3> SUFFICES ASSUME NEW v \in 1..(k - 1), NEW a \in On(v), a \in On(k) PROVE FALSE
      OBVIOUS
    <3>1. v \in 1..n /\ v # k
      OBVIOUS
    <3>2. PICK i \in 1..Len(r[v]), j \in 1..Len(r[k]) : r[v][i] = r[k][j]
      OBVIOUS
    <3> QED BY <3>1, <3>2 DEF Partition
  <2>4. k - 1 \in 0..n
    OBVIOUS
  <2>5. PICK a, b : a = U(k - 1) /\ b = On(k)
    OBVIOUS
  <2>6. /\ IsFiniteSet(a) /\ Cardinality(a) \in Nat /\ IsFiniteSet(b) /\ Cardinality(b) = Len(r[k])
        /\ Len(r[k]) \in Nat
    BY <1>1, <1>2, <2>4, <2>5
  <2>7. Cardinality(a \cup b) = Cardinality(a) + Cardinality(b) - Cardinality(a \cap b)
    BY <2>6, FS_Union
  <2>8. Cardinality(a \cap b) = 0
    BY <2>3, <2>5, FS_EmptySet
  <2>9. U(k) = a \cup b
    BY <2>2, <2>5
  <2> HIDE DEF U, On
  <2>10. Cardinality(a \cup b) = Cardinality(a) + Len(r[k])
    BY <2>6, <2>7, <2>8
  <2> QED BY <2>5, <2>9, <2>10
<1>4. U(0) = {} /\ U(n) = A
  <2>1. ASSUME NEW a \in A PROVE \E v \in 1..n : a \in On(v)
    <3>1. PICK v \in 1..n : \E i \in 1..Len(r[v]) : r[v][i] = a
      BY DEF Partition
    <3> QED BY <3>1
  <2>2. 1..0 = {}
    OBVIOUS
  <2> HIDE DEF On
  <2> QED BY <2>1, <2>2
<1> HIDE DEF U
<1>5. f \in [0..n -> Nat] /\ f[0] = 0 /\ f[n] = Cardinality(A)
  BY <1>2, <1>4, FS_EmptySet
<1>6. \A k \in 1..n : f[k] = f[k - 1] + Len(r[k])
  BY <1>3
<1> HIDE DEF f
<1> QED BY <1>5, <1>6 DEF Counts

\* That many turns of so many moves each.
Turns(a, b) == a * b

LEMMA TurnsAreNat == \A a, b \in Nat : Turns(a, b) \in Nat
BY DEF Turns

LEMMA TurnsAdd ==
    \A a, b, c, d \in Nat : d = a + b => Turns(d, c) = Turns(a, c) + Turns(b, c)
BY DEF Turns

LEMMA TurnsCommute == \A a, b \in Nat : Turns(a, b) = Turns(b, a)
BY DEF Turns

LEMMA TurnsAddUp ==
    ASSUME NEW a \in Nat, NEW b \in Nat, NEW c \in Nat
    PROVE  /\ Turns(a, c) \in Nat /\ Turns(0, c) = 0
           /\ Turns(a + b, c) = Turns(a, c) + Turns(b, c)
           /\ Turns(a + 1, c) = Turns(a, c) + c
BY DEF Turns

\* How many moves each loop of the searches considers at most: z is the number of
\* stops, n of vehicles, f counts the stops on the first routes.
LEMMA RelocationsClimb ==
    ASSUME EngineInv, Searching, todo = <<>>,
           NEW z, z = Len(input.stops), NEW n, n = input.vehicles,
           NEW f, Counts(f, routes, n, z), NEW k \in Nat, NEW b \in Climbed(k)
    PROVE  SearchRelocations(D, routes, distances, b) \in Climbed(k + Turns(z, 2 * z))
<1>0. z \in Nat /\ n \in Nat /\ n <= z /\ Vehicles = 1..n /\ routes \in [1..n -> Seq(Stops)]
  BY RunningState DEF Searching, Running, Vehicles
<1>1. Len(routes) = n /\ \A v \in 1..n : Len(routes[v]) \in Nat
  BY <1>0
<1>2. /\ f[0] = 0 /\ f[n] = z /\ \A v \in 0..n : f[v] \in Nat
      /\ \A v \in 1..n : v - 1 \in 0..n /\ v \in 0..n /\ f[v] = f[v - 1] + Len(routes[v])
  <2>1. f \in [0..n -> Nat] /\ f[0] = 0 /\ f[n] = z
    BY DEF Counts
  <2>2. \A v \in 1..n : f[v] = f[v - 1] + Len(routes[v])
    BY DEF Counts
  <2>3. \A v \in 1..n : v - 1 \in 0..n /\ v \in 0..n
    BY <1>0
  <2> QED BY <2>1, <2>2, <2>3
<1>3. ASSUME NEW v \in 1..n, NEW w \in 1..n, NEW i \in 1..Len(routes[v]),
             v # w, GivesAway(routes[v]), NEW l \in Nat, NEW y \in Climbed(l)
      PROVE  RelocationsInto(D, routes, distances, v, i, w, y)
               \in Climbed(l + (Len(routes[w]) + 1))
  <2> DEFINE t == Len(routes[w]) + 1
             I == [j \in 0..t |-> Climbed(l + j)]
  <2>1. t \in Nat /\ y \in I[0] /\ I[t] = Climbed(l + t)
    BY <1>1
  <2>2. ASSUME NEW j \in 1..t, NEW x \in I[j - 1]
        PROVE  Consider(x, Move("relocate", v, i, w, j,
                                RelocateObjective(D, routes, distances, v, i, w, j))) \in I[j]
    <3>1. l + (j - 1) \in Nat /\ l + (j - 1) + 1 = l + j /\ x \in Climbed(l + (j - 1))
      OBVIOUS
    <3>2. RelocationOf(D, routes, distances, v, i, w, j) \in RelocationMoves
      BY <1>0, <1>3, AllMovesAreConsidered DEF Searching, Running
    <3>3. Consider(x, RelocationOf(D, routes, distances, v, i, w, j)) \in Climbed(l + (j - 1) + 1)
      BY <3>1, <3>2, Climbing
    <3>4. I[j] = Climbed(l + (j - 1) + 1)
      BY <3>1
    <3> QED BY <3>3, <3>4 DEF RelocationOf
  <2> HIDE DEF I
  <2>3. RelocatingInto!Run(D, routes, distances, v, i, w, y, t) \in I[t]
    BY <2>1, <2>2, RelocatingInto!LoopKeeps
  <2> QED BY <2>1, <2>3, LoopsOfRelocations
<1>4. ASSUME NEW v \in 1..n, NEW i \in 1..Len(routes[v]), GivesAway(routes[v]),
             NEW l \in Nat, NEW y \in Climbed(l)
      PROVE  RelocationsOf(D, routes, distances, v, i, y) \in Climbed(l + 2 * z)
  <2> DEFINE I == [w \in 0..n |-> Climbed(l + (f[w] + w))]
  <2>1. y \in I[0] /\ I[n] = Climbed(l + (z + n))
    <3>1. 0 \in 0..n /\ n \in 0..n /\ l + (0 + 0) = l
      BY <1>0
    <3> QED BY <1>2, <3>1
  <2>2. ASSUME NEW w \in 1..n, NEW x \in I[w - 1]
        PROVE  (IF w = v THEN x ELSE RelocationsInto(D, routes, distances, v, i, w, x)) \in I[w]
    <3>1. PICK p, t, a, c : /\ p = f[w - 1] /\ t = Len(routes[w])
                            /\ a = l + (p + (w - 1)) /\ c = l + ((p + t) + w)
      OBVIOUS
    <3>2. p \in Nat /\ t \in Nat /\ f[w] = p + t /\ w - 1 \in 0..n /\ w \in 0..n
      BY <1>1, <1>2, <3>1
    <3>3. a \in Nat /\ c \in Nat /\ c = a + (t + 1) /\ a <= c
      <4>1. PICK u : u = w - 1
        OBVIOUS
      <4>2. u \in Nat /\ w = u + 1
        BY <1>0, <4>1
      <4>3. a = l + (p + u) /\ c = l + ((p + t) + (u + 1))
        BY <3>1, <4>1, <4>2
      <4>4. a \in Nat /\ c = a + (t + 1)
        BY <3>2, <4>2, <4>3
      <4> QED BY <3>2, <4>4
    <3>4. x \in Climbed(a) /\ I[w] = Climbed(c)
      BY <3>1, <3>2
    <3>5. CASE w = v
      BY <3>3, <3>4, <3>5, Climbing
    <3>6. CASE w # v
      <4>1. RelocationsInto(D, routes, distances, v, i, w, x) \in Climbed(a + (t + 1))
        BY <1>3, <1>4, <3>1, <3>3, <3>4, <3>6
      <4> QED BY <3>3, <3>4, <3>6, <4>1
    <3> QED BY <3>5, <3>6
  <2> HIDE DEF I
  <2>3. RelocatingOf!Run(D, routes, distances, v, i, 0, y, n) \in I[n]
    BY <1>0, <2>1, <2>2, RelocatingOf!LoopKeeps
  <2>4. RelocationsOf(D, routes, distances, v, i, y) \in Climbed(l + (z + n))
    BY <1>1, <2>1, <2>3, LoopsOfRelocations
  <2>5. l + (z + n) \in Nat /\ l + 2 * z \in Nat /\ l + (z + n) <= l + 2 * z
    BY <1>0
  <2> QED BY <2>4, <2>5, Climbing
<1>5. ASSUME NEW v \in 1..n, GivesAway(routes[v]), NEW l \in Nat, NEW y \in Climbed(l)
      PROVE  RelocationsFrom(D, routes, distances, v, y)
               \in Climbed(l + Turns(Len(routes[v]), 2 * z))
  <2>0. PICK h, t : h = 2 * z /\ t = Len(routes[v])
    OBVIOUS
  <2> DEFINE I == [i \in 0..t |-> Climbed(l + Turns(i, h))]
  <2>1. h \in Nat /\ t \in Nat
    BY <1>0, <1>1, <2>0
  <2>2. y \in I[0] /\ I[t] = Climbed(l + Turns(t, h))
    <3>1. Turns(0, h) = 0 /\ l + 0 = l /\ 0 \in 0..t /\ t \in 0..t
      BY <2>1, TurnsAddUp
    <3> QED BY <3>1
  <2>3. ASSUME NEW i \in 1..t, NEW x \in I[i - 1]
        PROVE  RelocationsOf(D, routes, distances, v, i, x) \in I[i]
    <3>1. PICK j, a : j = i - 1 /\ a = l + Turns(j, h)
      OBVIOUS
    <3>2. j \in Nat /\ j \in 0..t /\ i \in 0..t /\ i = j + 1
      BY <2>1, <3>1
    <3>3. Turns(j, h) \in Nat /\ Turns(i, h) = Turns(j, h) + h
      BY <2>1, <3>2, TurnsAddUp
    <3>4. a \in Nat /\ l + Turns(i, h) = a + h
      BY <2>1, <3>1, <3>3
    <3>5. x \in Climbed(a) /\ I[i] = Climbed(a + h)
      BY <3>1, <3>2, <3>4
    <3>6. RelocationsOf(D, routes, distances, v, i, x) \in Climbed(a + h)
      BY <1>4, <1>5, <2>0, <3>4, <3>5
    <3> QED BY <3>5, <3>6
  <2> HIDE DEF I
  <2>4. RelocatingFrom!Run(D, routes, distances, v, 0, 0, y, t) \in I[t]
    BY <2>1, <2>2, <2>3, RelocatingFrom!LoopKeeps
  <2> QED BY <2>0, <2>2, <2>4, LoopsOfRelocations
<1>6. SearchRelocations(D, routes, distances, b) \in Climbed(k + Turns(z, 2 * z))
  <2>0. PICK h : h = 2 * z
    OBVIOUS
  <2> DEFINE I == [v \in 0..n |-> Climbed(k + Turns(f[v], h))]
  <2>1. h \in Nat
    BY <1>0, <2>0
  <2>2. b \in I[0] /\ I[n] = Climbed(k + Turns(z, h))
    <3>1. Turns(0, h) = 0
      BY <2>1, TurnsAddUp
    <3>2. k + 0 = k /\ 0 \in 0..n /\ n \in 0..n
      BY <1>0
    <3> QED BY <1>2, <3>1, <3>2
  <2>3. ASSUME NEW v \in 1..n, NEW x \in I[v - 1]
        PROVE  (IF GivesAway(routes[v]) THEN RelocationsFrom(D, routes, distances, v, x) ELSE x)
                 \in I[v]
    <3>1. PICK p, t, a : p = f[v - 1] /\ t = Len(routes[v]) /\ a = k + Turns(p, h)
      OBVIOUS
    <3>2. p \in Nat /\ t \in Nat /\ f[v] = p + t /\ v - 1 \in 0..n /\ v \in 0..n
      BY <1>1, <1>2, <3>1
    <3>3. /\ Turns(p, h) \in Nat /\ Turns(t, h) \in Nat
          /\ Turns(f[v], h) = Turns(p, h) + Turns(t, h)
      <4>1. PICK q : q = f[v]
        OBVIOUS
      <4>2. p \in Nat /\ t \in Nat /\ h \in Nat /\ q \in Nat /\ q = p + t
        BY <2>1, <3>2, <4>1
      <4>3. Turns(q, h) = Turns(p, h) + Turns(t, h)
        BY <4>2, TurnsAdd
      <4>4. Turns(p, h) \in Nat /\ Turns(t, h) \in Nat
        BY <4>2, TurnsAreNat
      <4> QED BY <4>1, <4>3, <4>4
    <3>4. PICK c : c = a + Turns(t, h)
      OBVIOUS
    <3>5. a \in Nat /\ c \in Nat /\ a <= c /\ k + Turns(f[v], h) = c
      BY <3>1, <3>3, <3>4
    <3>6. x \in Climbed(a) /\ I[v] = Climbed(c)
      BY <3>1, <3>2, <3>5
    <3>7. CASE GivesAway(routes[v])
      <4>1. RelocationsFrom(D, routes, distances, v, x) \in Climbed(c)
        BY <1>5, <2>0, <3>1, <3>4, <3>5, <3>6, <3>7
      <4> QED BY <3>6, <3>7, <4>1
    <3>8. CASE ~GivesAway(routes[v])
      BY <3>5, <3>6, <3>8, Climbing
    <3> QED BY <3>7, <3>8
  <2> HIDE DEF I
  <2>4. Relocating!Run(D, routes, distances, 0, 0, 0, b, n) \in I[n]
    BY <1>0, <2>2, <2>3, Relocating!LoopKeeps
  <2> QED BY <1>1, <2>0, <2>2, <2>4, LoopsOfRelocations
<1> QED BY <1>6

LEMMA SwapsClimb ==
    ASSUME EngineInv, Searching, todo = <<>>,
           NEW z, z = Len(input.stops), NEW n, n = input.vehicles,
           NEW f, Counts(f, routes, n, z), NEW k \in Nat, NEW b \in Climbed(k)
    PROVE  SearchSwaps(D, routes, distances, b) \in Climbed(k + Turns(z, z))
<1>0. z \in Nat /\ n \in Nat /\ Vehicles = 1..n /\ routes \in [1..n -> Seq(Stops)]
  BY RunningState DEF Searching, Running, Vehicles
<1>1. Len(routes) = n /\ \A v \in 1..n : Len(routes[v]) \in Nat
  BY <1>0
<1>2. /\ f[0] = 0 /\ f[n] = z /\ \A v \in 0..n : f[v] \in Nat
      /\ \A v \in 1..n : v - 1 \in 0..n /\ v \in 0..n /\ f[v] = f[v - 1] + Len(routes[v])
  <2>1. f \in [0..n -> Nat] /\ f[0] = 0 /\ f[n] = z
    BY DEF Counts
  <2>2. \A v \in 1..n : f[v] = f[v - 1] + Len(routes[v])
    BY DEF Counts
  <2>3. \A v \in 1..n : v - 1 \in 0..n /\ v \in 0..n
    BY <1>0
  <2> QED BY <2>1, <2>2, <2>3
<1>3. ASSUME NEW v \in 1..n, NEW w \in 1..n, NEW i \in 1..Len(routes[v]), v < w,
             NEW l \in Nat, NEW y \in Climbed(l)
      PROVE  SwapsAt(D, routes, distances, v, w, i, y) \in Climbed(l + Len(routes[w]))
  <2> DEFINE t == Len(routes[w])
             I == [j \in 0..t |-> Climbed(l + j)]
  <2>1. t \in Nat /\ y \in I[0] /\ I[t] = Climbed(l + t)
    BY <1>1
  <2>2. ASSUME NEW j \in 1..t, NEW x \in I[j - 1]
        PROVE  Consider(x, Move("swap", v, i, w, j,
                                SwapObjective(D, routes, distances, v, i, w, j))) \in I[j]
    <3>1. l + (j - 1) \in Nat /\ l + (j - 1) + 1 = l + j /\ x \in Climbed(l + (j - 1))
      OBVIOUS
    <3>2. v # w
      BY <1>0, <1>3
    <3>3. SwapOf(D, routes, distances, v, i, w, j) \in SwapMoves
      BY <1>0, <1>3, <3>2, AllMovesAreConsidered DEF Searching, Running
    <3>4. Consider(x, SwapOf(D, routes, distances, v, i, w, j)) \in Climbed(l + (j - 1) + 1)
      BY <3>1, <3>3, Climbing
    <3>5. I[j] = Climbed(l + (j - 1) + 1)
      BY <3>1
    <3> QED BY <3>4, <3>5 DEF SwapOf
  <2> HIDE DEF I
  <2>3. SwappingAt!Run(D, routes, distances, v, w, i, y, t) \in I[t]
    BY <2>1, <2>2, SwappingAt!LoopKeeps
  <2> QED BY <2>1, <2>3, LoopsOfSwaps
<1>4. ASSUME NEW v \in 1..n, NEW w \in 1..n, v < w, NEW l \in Nat, NEW y \in Climbed(l)
      PROVE  SwapsBetween(D, routes, distances, v, w, y)
               \in Climbed(l + Turns(Len(routes[v]), Len(routes[w])))
  <2>0. PICK h, t : h = Len(routes[w]) /\ t = Len(routes[v])
    OBVIOUS
  <2> DEFINE I == [i \in 0..t |-> Climbed(l + Turns(i, h))]
  <2>1. h \in Nat /\ t \in Nat
    BY <1>1, <2>0
  <2>2. y \in I[0] /\ I[t] = Climbed(l + Turns(t, h))
    <3>1. Turns(0, h) = 0 /\ l + 0 = l /\ 0 \in 0..t /\ t \in 0..t
      BY <2>1, TurnsAddUp
    <3> QED BY <3>1
  <2>3. ASSUME NEW i \in 1..t, NEW x \in I[i - 1]
        PROVE  SwapsAt(D, routes, distances, v, w, i, x) \in I[i]
    <3>1. PICK j, a : j = i - 1 /\ a = l + Turns(j, h)
      OBVIOUS
    <3>2. j \in Nat /\ j \in 0..t /\ i \in 0..t /\ i = j + 1
      BY <2>1, <3>1
    <3>3. Turns(j, h) \in Nat /\ Turns(i, h) = Turns(j, h) + h
      BY <2>1, <3>2, TurnsAddUp
    <3>4. a \in Nat /\ l + Turns(i, h) = a + h
      BY <2>1, <3>1, <3>3
    <3>5. x \in Climbed(a) /\ I[i] = Climbed(a + h)
      BY <3>1, <3>2, <3>4
    <3>6. SwapsAt(D, routes, distances, v, w, i, x) \in Climbed(a + h)
      BY <1>3, <1>4, <2>0, <3>4, <3>5
    <3> QED BY <3>5, <3>6
  <2> HIDE DEF I
  <2>4. SwappingBetween!Run(D, routes, distances, v, w, 0, y, t) \in I[t]
    BY <2>1, <2>2, <2>3, SwappingBetween!LoopKeeps
  <2> QED BY <2>0, <2>2, <2>4, LoopsOfSwaps
<1>5. ASSUME NEW v \in 1..n, NEW l \in Nat, NEW y \in Climbed(l)
      PROVE  SwapsFrom(D, routes, distances, v, y) \in Climbed(l + Turns(z, Len(routes[v])))
  <2>0. PICK h, t : h = Len(routes[v]) /\ t = n - v
    OBVIOUS
  <2> DEFINE I == [j \in 0..t |-> Climbed(l + Turns(f[v + j], h))]
  <2>1. h \in Nat /\ t \in Nat /\ v + t = n
    <3>1. h \in Nat
      BY <1>1, <2>0
    <3>2. v \in Nat /\ v <= n /\ n \in Nat
      BY <1>0
    <3> QED BY <2>0, <3>1, <3>2
  <2>2. y \in I[0] /\ I[t] = Climbed(l + Turns(z, h))
    <3>1. v + 0 = v /\ 0 \in 0..t /\ t \in 0..t /\ f[v] \in Nat
      BY <1>2, <2>1
    <3>2. Turns(f[v], h) \in Nat
      BY <2>1, <3>1, TurnsAddUp
    <3>3. l + Turns(f[v], h) \in Nat /\ l <= l + Turns(f[v], h)
      BY <3>2
    <3>4. y \in Climbed(l + Turns(f[v], h))
      BY <3>3, Climbing
    <3> QED BY <1>2, <2>1, <3>1, <3>4
  <2>3. ASSUME NEW j \in 1..t, NEW x \in I[j - 1]
        PROVE  SwapsBetween(D, routes, distances, v, v + j, x) \in I[j]
    <3>1. PICK w, p, c, a : /\ w = v + j /\ p = f[w - 1] /\ c = Len(routes[w])
                            /\ a = l + Turns(p, h)
      OBVIOUS
    <3>2. /\ w \in 1..n /\ v < w /\ v + (j - 1) = w - 1
          /\ j - 1 \in 0..t /\ j \in 0..t
      BY <1>0, <2>1, <3>1
    <3>3. c \in Nat /\ p \in Nat /\ f[w] = p + c
      BY <1>1, <1>2, <3>1, <3>2
    <3>4. /\ Turns(p, h) \in Nat /\ Turns(h, c) \in Nat
          /\ Turns(f[w], h) = Turns(p, h) + Turns(h, c)
      <4>1. PICK q : q = f[w]
        OBVIOUS
      <4>2. p \in Nat /\ c \in Nat /\ h \in Nat /\ q \in Nat /\ q = p + c
        BY <2>1, <3>3, <4>1
      <4>3. Turns(q, h) = Turns(p, h) + Turns(c, h)
        BY <4>2, TurnsAdd
      <4>4. Turns(p, h) \in Nat /\ Turns(h, c) \in Nat /\ Turns(c, h) = Turns(h, c)
        BY <4>2, TurnsAreNat, TurnsCommute
      <4> QED BY <4>1, <4>3, <4>4
    <3>5. a \in Nat /\ l + Turns(f[w], h) = a + Turns(h, c)
      BY <3>1, <3>4
    <3>6. x \in Climbed(a) /\ I[j] = Climbed(a + Turns(h, c))
      BY <3>1, <3>2, <3>5
    <3>7. SwapsBetween(D, routes, distances, v, w, x) \in Climbed(a + Turns(h, c))
      BY <1>4, <2>0, <3>1, <3>2, <3>5, <3>6
    <3> QED BY <3>1, <3>6, <3>7
  <2> HIDE DEF I
  <2>4. SwappingFrom!Run(D, routes, distances, v, 0, 0, y, t) \in I[t]
    BY <2>1, <2>2, <2>3, SwappingFrom!LoopKeeps
  <2> QED BY <1>1, <2>0, <2>2, <2>4, LoopsOfSwaps
<1>6. SearchSwaps(D, routes, distances, b) \in Climbed(k + Turns(z, z))
  <2> DEFINE I == [v \in 0..n |-> Climbed(k + Turns(f[v], z))]
  <2>1. b \in I[0] /\ I[n] = Climbed(k + Turns(z, z))
    <3>1. Turns(0, z) = 0
      BY <1>0, TurnsAddUp
    <3>2. k + 0 = k /\ 0 \in 0..n /\ n \in 0..n
      BY <1>0
    <3> QED BY <1>2, <3>1, <3>2
  <2>2. ASSUME NEW v \in 1..n, NEW x \in I[v - 1]
        PROVE  SwapsFrom(D, routes, distances, v, x) \in I[v]
    <3>1. PICK p, t, a : p = f[v - 1] /\ t = Len(routes[v]) /\ a = k + Turns(p, z)
      OBVIOUS
    <3>2. p \in Nat /\ t \in Nat /\ f[v] = p + t /\ v - 1 \in 0..n /\ v \in 0..n
      BY <1>1, <1>2, <3>1
    <3>3. /\ Turns(p, z) \in Nat /\ Turns(z, t) \in Nat
          /\ Turns(f[v], z) = Turns(p, z) + Turns(z, t)
      <4>1. PICK q, h : q = f[v] /\ h = z
        OBVIOUS
      <4>2. p \in Nat /\ t \in Nat /\ h \in Nat /\ q \in Nat /\ q = p + t
        BY <1>0, <3>2, <4>1
      <4>3. Turns(q, h) = Turns(p, h) + Turns(t, h)
        BY <4>2, TurnsAdd
      <4>4. Turns(p, h) \in Nat /\ Turns(h, t) \in Nat /\ Turns(t, h) = Turns(h, t)
        BY <4>2, TurnsAreNat, TurnsCommute
      <4> QED BY <4>1, <4>3, <4>4
    <3>4. a \in Nat /\ k + Turns(f[v], z) = a + Turns(z, t)
      BY <3>1, <3>3
    <3>5. x \in Climbed(a) /\ I[v] = Climbed(a + Turns(z, t))
      BY <3>1, <3>2, <3>4
    <3>6. SwapsFrom(D, routes, distances, v, x) \in Climbed(a + Turns(z, t))
      BY <1>5, <3>1, <3>4, <3>5
    <3> QED BY <3>5, <3>6
  <2> HIDE DEF I
  <2>3. Swapping!Run(D, routes, distances, 0, 0, 0, b, n) \in I[n]
    BY <1>0, <2>1, <2>2, Swapping!LoopKeeps
  <2> QED BY <1>1, <2>1, <2>3, LoopsOfSwaps
<1> QED BY <1>6

LEMMA BestMoveClimbs ==
    ASSUME EngineInv, Searching, todo = <<>>, NEW z, z = Len(input.stops)
    PROVE  BestMove \in Climbed(3 * (z * z))
<1>1. phase \in Running /\ phase # "seed" /\ phase # "assign"
  BY DEF Searching, Running
<1>2. PICK n, r : n = input.vehicles /\ r = routes
  OBVIOUS
<1>3. PICK f : Counts(f, r, n, z)
  <2>1. /\ n \in Nat /\ r \in [1..n -> Seq(Stops)] /\ Partition(r, 1..n, Stops)
        /\ IsFiniteSet(Stops) /\ Cardinality(Stops) = z
    BY <1>1, <1>2, RunningState, SearchingState DEF Vehicles
  <2> QED BY <2>1, PartitionsCount
<1>4. NoMove \in Climbed(0)
  <2>1. NoMove \in Moves /\ NoMove.objective = Objective(distances) /\ 0 * Eps = 0
    BY RoutesAssumption DEF Moves, NoMove
  <2>2. Objective(distances) \in Objectives
    BY ComparedAreObjectives
  <2>3. Objective(distances) \in Above(Objective(distances), 0)
    BY <2>2, RoutesAssumption DEF Above, Objectives
  <2> QED BY <2>1, <2>3 DEF Climbed
<1>5. PICK k : k = 0 + Turns(z, 2 * z)
  OBVIOUS
<1>6. k \in Nat /\ k + Turns(z, z) = 3 * (z * z)
  <2>1. z \in Nat
    BY <1>1, RunningState
  <2>2. z * z \in Nat /\ z * (2 * z) = 2 * (z * z)
    BY <2>1
  <2> QED BY <1>5, <2>2 DEF Turns
<1>7. SearchRelocations(D, routes, distances, NoMove) \in Climbed(k)
  BY <1>2, <1>3, <1>4, <1>5, RelocationsClimb
<1>8. SearchSwaps(D, routes, distances, SearchRelocations(D, routes, distances, NoMove))
        \in Climbed(k + Turns(z, z))
  BY <1>2, <1>3, <1>6, <1>7, SwapsClimb
<1> QED BY <1>6, <1>8 DEF BestMove, NoMove

\* A pass of 2-opt makes no route longer.
LEMMA TwoOptIsNotLonger ==
    ASSUME NEW z \in Nat, NEW m \in Matrices(z), Symmetric(m, z), NEW r \in Seq(1..z)
    PROVE  RouteDistance(m, TwoOpt(m, r)) <= RouteDistance(m, r)
<1>1. Len(r) \in Nat /\ RouteDistance(m, r) \in Nat
  BY RouteDistanceIsNat
<1>2. CASE Len(r) < 3
  <2>1. TwoOpt(m, r) = r
    BY <1>2, LoopsOfARoute
  <2> QED BY <1>1, <2>1
<1>3. CASE Len(r) >= 3
  <2>1. PICK T, n : T = {r} \cup ShorterThan(m, z, r) /\ n = Len(r) - 1
    OBVIOUS
  <2>2. n \in Nat /\ r \in T /\ \A q \in T : Len(q) = Len(r)
    BY <1>1, <1>3, <2>1 DEF ShorterThan
  <2>3. ASSUME NEW t \in 1..n, NEW q \in T PROVE ReverseFrom(m, q, t) \in T
    <3>1. PICK l : l = Len(r) - t
      OBVIOUS
    <3>2. l \in Nat /\ ReverseFrom(m, q, t) = ReversingFrom!Run(m, t, 0, 0, 0, 0, q, l)
      <4>1. ReverseFrom(m, q, t) = ReversingFrom!Run(m, t, 0, 0, 0, 0, q, Len(q) - t)
        BY LoopsOfARoute
      <4>2. Len(q) = Len(r)
        BY <2>2
      <4> QED BY <1>1, <2>1, <3>1, <4>1, <4>2
    <3>3. ASSUME NEW k \in 1..l, NEW p \in T
          PROVE  (IF Shortens(m, p, t, t + k) THEN Reversed(p, t, t + k) ELSE p) \in T
      <4>1. t \in 1..Len(r) /\ t + k \in t..Len(r)
        BY <1>1, <2>1, <3>1
      <4>2. Turned(m, p, t, t + k) \in T
        BY <2>1, <4>1, TurnsShorten
      <4> QED BY <4>2 DEF Turned
    <3>4. ReversingFrom!Run(m, t, 0, 0, 0, 0, q, l) \in T
      BY <3>2, <3>3, ReversingFrom!LoopStays
    <3> QED BY <3>2, <3>4
  <2>4. Reversing!Run(m, 0, 0, 0, 0, 0, r, n) \in T
    BY <2>2, <2>3, Reversing!LoopStays
  <2>5. TwoOpt(m, r) \in T
    <3>1. ~(Len(r) < 3)
      BY <1>1, <1>3
    <3> QED BY <2>1, <2>4, <3>1, LoopsOfARoute, Zenon
  <2>6. \A q \in T : q = r \/ (q \in Seq(1..z) /\ RouteDistance(m, q) < RouteDistance(m, r))
    BY <2>1 DEF ShorterThan
  <2>7. TwoOpt(m, r) = r \/ (TwoOpt(m, r) \in Seq(1..z) /\ RouteDistance(m, TwoOpt(m, r)) < RouteDistance(m, r))
    BY <2>5, <2>6
  <2>8. TwoOpt(m, r) \in Seq(1..z) => RouteDistance(m, TwoOpt(m, r)) \in Nat
    BY RouteDistanceIsNat
  <2> QED BY <1>1, <2>7, <2>8
<1> QED BY <1>1, <1>2, <1>3

-----------------------------------------------------------------------------

(***************************************************************************)
(* The steps of the search, as those of Assignment.                        *)
(***************************************************************************)

Stage == IF phase \in Running \ {"returned"} THEN "solving" ELSE phase

LEMMA StartIsPromised ==
    ASSUME Start, NEW leeway
    PROVE  Promised!NextWithin(leeway)
<1>1. Stage = "called" /\ UNCHANGED <<input, result>>
  BY DEF Start, Stage, Running
<1>2. CASE IsValidInput(input.depot, input.stops, input.vehicles)
  <2>1. Stage' = "solving" /\ routes' = [v \in Vehicles |-> <<>>]
    BY <1>2 DEF Start, Stage, Running, ConstructionState
  <2>2. Promised!Accept
    BY <1>1, <1>2, <2>1, PromisedValidity, PromisedOperators DEF Promised!Accept, Stage
  <2> QED BY <2>2 DEF Promised!NextWithin
<1>3. CASE ~IsValidInput(input.depot, input.stops, input.vehicles)
  <2>1. Stage' = "thrown" /\ routes' = routes
    BY <1>3 DEF Start, Stage, Running
  <2>2. Promised!Refuse
    BY <1>1, <1>3, <2>1, PromisedValidity DEF Promised!Refuse, Stage
  <2> QED BY <2>2 DEF Promised!NextWithin
<1> QED BY <1>2, <1>3

\* A stop that construction puts at the end of a route.
LEMMA GrowthIsPromised ==
    ASSUME EngineInv, SeedVehicle \/ AssignStop, NEW leeway
    PROVE  Promised!NextWithin(leeway)
<1>1. /\ phase \in {"seed", "assign"} /\ phase' \in {"seed", "assign"}
      /\ UNCHANGED <<input, result>>
  BY DEF SeedVehicle, AssignStop
<1>2. Stage = "solving" /\ Stage' = "solving" /\ phase \in Running
  BY <1>1 DEF Stage, Running
<1>3. PICK v \in Vehicles, stop \in Stops :
         stop \notin assigned /\ routes' = [routes EXCEPT ![v] = Append(@, stop)]
  <2>1. CASE SeedVehicle
    <3>1. PICK v, stop : v = Cardinality(assigned) + 1 /\ stop = SeedOf(v)
      OBVIOUS
    <3>2. routes' = [routes EXCEPT ![v] = Append(@, stop)] /\ phase = "seed"
      BY <2>1, <3>1 DEF SeedVehicle
    <3>3. /\ Cardinality(assigned) \in Nat /\ input.vehicles \in Nat
          /\ Cardinality(assigned) < input.vehicles
      BY <1>2, <3>2, RunningState DEF EngineInv, SeedInv
    <3>4. v \in Vehicles
      BY <3>1, <3>3 DEF Vehicles
    <3>5. stop \in Stops /\ stop \notin assigned
      BY <3>1, <3>2, SeedIsUnassigned
    <3> QED BY <3>2, <3>4, <3>5
  <2>2. CASE AssignStop
    <3>1. PICK best : best = BestInsertion
      OBVIOUS
    <3>2. /\ routes' = [routes EXCEPT ![best.v] = Append(@, best.stop)]
          /\ phase = "assign" /\ assigned # Stops
      BY <2>2, <3>1 DEF AssignStop
    <3>3. best \in InsertionsFrom(Vehicles, assigned)
      BY <3>1, <3>2, BestInsertionIsOne
    <3>4. PICK v \in Vehicles, stop \in Stops : stop \notin assigned /\ best = Insertion(v, stop)
      BY <3>3 DEF InsertionsFrom
    <3>5. best.v = v /\ best.stop = stop
      BY <3>4 DEF Insertion
    <3> QED BY <3>2, <3>4, <3>5
  <2> QED BY <2>1, <2>2
<1>4. Promised!Visited(routes) = assigned
  <2>1. PICK p, A : p = routes /\ A = assigned
    OBVIOUS
  <2>2. p \in [Vehicles -> Seq(Stops)] /\ Partition(p, Vehicles, A)
    BY <1>2, <2>1, RunningState
  <2>3. Promised!Visited(p) = A
    BY <1>2, <2>2, PlansOfTheSearch
  <2> QED BY <2>1, <2>3
<1>5. Promised!Grow
  <2>1. Promised!Stops = Stops /\ Promised!Vehicles = Vehicles
    BY PromisedOperators
  <2>2. stop \in Promised!Stops \ Promised!Visited(routes) /\ v \in Promised!Vehicles
    BY <1>3, <1>4, <2>1
  <2> QED BY <1>1, <1>2, <1>3, <2>2 DEF Promised!Grow, Stage
<1> QED BY <1>5 DEF Promised!NextWithin

\* The routes of a search that has constructed them.
LEMMA SearchedPlans ==
    ASSUME EngineInv, phase \in {"local", "anneal", "final", "returned"},
           NEW p, p = routes
    PROVE  /\ p \in [Vehicles -> Seq(Stops)] /\ Promised!Complete(p)
           /\ Promised!Objective(Promised!Lengths(p)) = ObjectiveOf(D, p)
<1>1. phase \in Running /\ phase # "seed" /\ phase # "assign"
  BY DEF Running
<1>2. /\ p \in [Vehicles -> Seq(Stops)] /\ Partition(p, Vehicles, Stops)
      /\ NoneEmpty(p, Vehicles)
  BY <1>1, RunningState, SearchingState
<1>3. Promised!Complete(p) /\ Promised!Lengths(p) = RouteDistances(D, p)
  BY <1>1, <1>2, PlansOfTheSearch
<1> QED BY <1>2, <1>3, PromisedOperators DEF ObjectiveOf

\* A leeway asks no more than none.
LEMMA LeewayAsksNoMore ==
    ASSUME EngineInv, phase \in Running, NEW leeway \in Nat,
           NEW a \in Objectives, NEW b \in Objectives
    PROVE  /\ Promised!Lengthened(a, leeway) \in Objectives
           /\ ~IsBetter(a, b) => ~IsBetter(Promised!Lengthened(a, leeway), b)
           /\ leeway = 0 => Promised!Lengthened(a, leeway) = a
<1>1. PICK x, h : /\ x = leeway * (Len(input.stops) * Len(input.stops))
                  /\ h = Promised!Lengthened(a, leeway)
  OBVIOUS
<1>2. x \in Nat /\ (leeway = 0 => x = 0)
  <2>1. Len(input.stops) \in Nat
    BY RunningState
  <2>2. Len(input.stops) * Len(input.stops) \in Nat
    BY <2>1
  <2> QED BY <1>1, <2>2
<1>3. /\ Eps \in Nat /\ a.longest \in Nat /\ a.total \in Nat
      /\ b.longest \in Nat /\ b.total \in Nat
      /\ a = [longest |-> a.longest, total |-> a.total]
  BY RoutesAssumption DEF Objectives
<1>4. h = [longest |-> a.longest + x, total |-> a.total]
  BY <1>1, <1>3 DEF Promised!Lengthened
<1>5. h \in Objectives /\ h.longest = a.longest + x /\ h.total = a.total
  BY <1>2, <1>3, <1>4 DEF Objectives
<1>6. IsBetter(h, b) => IsBetter(a, b)
  BY <1>2, <1>3, <1>5 DEF IsBetter
<1>7. leeway = 0 => h = a
  BY <1>2, <1>3, <1>4
<1> QED BY <1>1, <1>5, <1>6, <1>7

\* Routes that give way to others that are not worse, but for the leeway.
LEMMA ImprovementIsPromised ==
    ASSUME EngineInv, phase \in {"local", "anneal", "final"},
           phase' = phase, UNCHANGED <<input, D, result>>,
           NEW p \in [Vehicles -> Seq(Stops)], p = routes',
           Partition(p, Vehicles, Stops), NoneEmpty(p, Vehicles), NEW leeway \in Nat,
           ~IsBetter(Promised!Lengthened(ObjectiveOf(D, routes), leeway), ObjectiveOf(D, p))
    PROVE  Promised!NextWithin(leeway)
<1>1. Stage = "solving" /\ Stage' = "solving" /\ phase \in Running
  BY DEF Stage, Running
<1>2. PICK r : r = routes
  OBVIOUS
<1>3. Promised!Complete(r) /\ Promised!Objective(Promised!Lengths(r)) = ObjectiveOf(D, r)
  BY <1>2, SearchedPlans
<1>4. Promised!Complete(p) /\ Promised!Lengths(p) = RouteDistances(D, p)
  BY <1>1, PlansOfTheSearch
<1>5. Promised!Objective(Promised!Lengths(p)) = ObjectiveOf(D, p)
  BY <1>4, PromisedOperators DEF ObjectiveOf
<1>6. ~Promised!IsBetter(
            Promised!Lengthened(Promised!Objective(Promised!Lengths(r)), leeway),
            Promised!Objective(Promised!Lengths(p)))
  BY <1>2, <1>3, <1>5, PromisedOperators
<1>7. Promised!Improve(leeway)
  BY <1>1, <1>2, <1>3, <1>4, <1>6 DEF Promised!Improve, Stage
<1> QED BY <1>7 DEF Promised!NextWithin

\* The same of routes that are not worse at all.
LEMMA AsGoodIsPromised ==
    ASSUME EngineInv, phase \in {"local", "anneal", "final"},
           phase' = phase, UNCHANGED <<input, D, result>>,
           NEW p \in [Vehicles -> Seq(Stops)], p = routes',
           Partition(p, Vehicles, Stops), NoneEmpty(p, Vehicles), NEW leeway \in Nat,
           ~IsBetter(ObjectiveOf(D, routes), ObjectiveOf(D, p))
    PROVE  Promised!NextWithin(leeway)
<1>1. phase \in Running
  BY DEF Running
<1>2. ObjectiveOf(D, routes) \in Objectives /\ ObjectiveOf(D, p) \in Objectives
  BY <1>1, RunningState, PlansHaveObjectives
<1>3. ~IsBetter(Promised!Lengthened(ObjectiveOf(D, routes), leeway), ObjectiveOf(D, p))
  BY <1>1, <1>2, LeewayAsksNoMore
<1> QED BY <1>3, ImprovementIsPromised

LEMMA NextPlans ==
    ASSUME EngineInv', phase' \in {"local", "anneal", "final"}, UNCHANGED input,
           NEW p, p = routes'
    PROVE  /\ p \in [Vehicles -> Seq(Stops)] /\ Partition(p, Vehicles, Stops)
           /\ NoneEmpty(p, Vehicles)
<1>1. phase' \in Running
  BY DEF Running
<1>2. Vehicles' = Vehicles /\ Stops' = Stops
  BY SameInput
<1>3. p \in [Vehicles -> Seq(Stops)]
  BY <1>1, <1>2 DEF EngineInv, TypeOK
<1>4. Partition(p, Vehicles, Stops) /\ NoneEmpty(p, Vehicles)
  BY <1>1, <1>2 DEF EngineInv, PlanInv
<1> QED BY <1>3, <1>4

LEMMA TwoOptIsPromised ==
    ASSUME EngineInv, EngineInv', TwoOptPass, routes' # routes, NEW leeway \in Nat
    PROVE  Promised!NextWithin(leeway)
<1>1. /\ phase \in {"local", "final"} /\ phase' = phase /\ todo # <<>>
      /\ UNCHANGED <<input, D, result>> /\ phase \in Running
  BY DEF TwoOptPass, Searching, Running
<1>2. PICK n, z, m, r, p, v : /\ n = input.vehicles /\ z = Len(input.stops) /\ m = D
                              /\ r = routes /\ p = routes' /\ v = Head(todo)
  OBVIOUS
<1>3. p = [r EXCEPT ![v] = TwoOpt(m, r[v])]
  BY <1>2 DEF TwoOptPass
<1>4. /\ n \in Nat /\ n # 0 /\ Vehicles = 1..n /\ z \in Nat /\ Stops = 1..z
      /\ m \in Matrices(z) /\ Symmetric(m, z) /\ r \in [1..n -> Seq(1..z)]
  <2>1. /\ input.vehicles \in Nat /\ input.vehicles >= 1 /\ Len(input.stops) \in Nat
        /\ D \in Matrices(Len(input.stops)) /\ routes \in [Vehicles -> Seq(Stops)]
    BY <1>1, RunningState
  <2>2. Symmetric(D, Len(input.stops))
    BY <1>1, MatrixIsSymmetric
  <2> QED BY <1>2, <2>1, <2>2 DEF Vehicles, Stops
<1>5. p \in [1..n -> Seq(1..z)] /\ Partition(p, Vehicles, Stops) /\ NoneEmpty(p, Vehicles)
  BY <1>1, <1>2, <1>4, NextPlans
<1>6. v \in 1..n
  <2>1. todo \in Seq(Vehicles)
    BY <1>1, RunningState
  <2> QED BY <1>1, <1>2, <1>4, <2>1, HeadAndTail
<1>7. ASSUME NEW u \in 1..n PROVE RouteDistance(m, p[u]) <= RouteDistance(m, r[u])
  <2>1. r[u] \in Seq(1..z)
    BY <1>4
  <2>2. RouteDistance(m, r[u]) \in Nat
    BY <1>4, <2>1, RouteDistanceIsNat
  <2>3. CASE u = v
    <3>1. p[u] = TwoOpt(m, r[u])
      BY <1>3, <1>4, <1>6, <2>3
    <3>2. RouteDistance(m, TwoOpt(m, r[u])) <= RouteDistance(m, r[u])
      BY <1>4, <2>1, TwoOptIsNotLonger
    <3> QED BY <3>1, <3>2
  <2>4. CASE u # v
    <3>1. p[u] = r[u]
      BY <1>3, <1>4, <1>6, <2>4
    <3> QED BY <2>2, <3>1
  <2> QED BY <2>3, <2>4
<1>8. ~IsBetter(ObjectiveOf(m, r), ObjectiveOf(m, p))
  <2>1. PICK ds, es : ds = RouteDistances(m, r) /\ es = RouteDistances(m, p)
    OBVIOUS
  <2>2. \A u \in 1..n : RouteDistance(m, r[u]) \in Nat /\ RouteDistance(m, p[u]) \in Nat
    BY <1>4, <1>5, RouteDistanceIsNat
  <2>3. ds \in [1..n -> Nat] /\ es \in [1..n -> Nat]
    BY <1>4, <1>5, <2>1, <2>2 DEF RouteDistances
  <2>4. \A u \in 1..n : es[u] <= ds[u]
    BY <1>4, <1>5, <1>7, <2>1 DEF RouteDistances
  <2>5. ~IsBetter(Objective(ds), Objective(es))
    BY <1>4, <2>3, <2>4, ShorterIsNotWorse
  <2> QED BY <2>1, <2>5 DEF ObjectiveOf
<1> QED BY <1>1, <1>2, <1>4, <1>5, <1>8, AsGoodIsPromised

\* A move to a plan that is not worse, but for the leeway.
LEMMA MoveIsPromised ==
    ASSUME EngineInv, EngineInv', MakeMove, NEW leeway \in Nat,
           ~IsBetter(Promised!Lengthened(Objective(distances), leeway), BestMove.objective)
    PROVE  Promised!NextWithin(leeway)
<1>1. /\ phase \in {"local", "final"} /\ phase' = phase /\ todo = <<>> /\ Searching
      /\ UNCHANGED <<input, D, result>> /\ phase \in Running /\ phase # "seed"
  BY DEF MakeMove, Searching, Running
<1>2. PICK c, p : c = BestMove /\ p = routes'
  OBVIOUS
<1>3. c.kind # "none" /\ p = Moved(routes, c) /\ NoMove.kind = "none"
  BY <1>2 DEF MakeMove, NoMove
<1>4. c \in RelocationMoves \cup SwapMoves
  BY <1>1, <1>2, <1>3, BestMoveIsOne
<1>5. /\ p \in [Vehicles -> Seq(Stops)] /\ Partition(p, Vehicles, Stops)
      /\ NoneEmpty(p, Vehicles)
  BY <1>1, <1>2, NextPlans
<1>6. c.objective = ObjectiveOf(D, p) /\ Objective(distances) = ObjectiveOf(D, routes)
  BY <1>1, <1>3, <1>4, MovesComeTo, SearchingState DEF ObjectiveOf
<1>7. ~IsBetter(Promised!Lengthened(ObjectiveOf(D, routes), leeway), ObjectiveOf(D, p))
  BY <1>2, <1>6
<1> QED BY <1>1, <1>2, <1>5, <1>7, ImprovementIsPromised

\* Where chains of better moves end in better ones, the best move is no worse.
LEMMA ComparedMoveIsPromised ==
    ASSUME EngineInv, EngineInv', MovesCompare, MakeMove
    PROVE  Promised!NextWithin(0)
<1>1. Searching /\ todo = <<>> /\ phase \in Running /\ BestMove.kind # "none"
  BY DEF MakeMove, Searching, Running
<1>2. BestMove \in RelocationMoves \cup SwapMoves /\ BestMove # NoMove
  BY <1>1, BestMoveIsOne DEF NoMove
<1>3. IsBetter(BestMove.objective, Objective(distances))
  BY <1>1, <1>2, BestMoveIsBetter DEF Improving
<1>4. Objective(distances) \in Objectives /\ BestMove.objective \in Objectives
  BY <1>1, <1>2, ComparedAreObjectives
<1>5. ~IsBetter(Objective(distances), BestMove.objective)
  BY <1>3, <1>4, BetterIsNotWorse
<1>6. ~IsBetter(Promised!Lengthened(Objective(distances), 0), BestMove.objective)
  BY <1>1, <1>4, <1>5, LeewayAsksNoMore
<1> QED BY <1>6, MoveIsPromised

\* In any case it is no worse but for three times Eps for each pair of stops.
LEMMA ClimbedMoveIsPromised ==
    ASSUME EngineInv, EngineInv', MakeMove
    PROVE  Promised!NextWithin(3 * Eps)
<1>1. Searching /\ todo = <<>> /\ phase \in Running /\ BestMove.kind # "none"
  BY DEF MakeMove, Searching, Running
<1>2. PICK z, o, b, x, h : /\ z = Len(input.stops) /\ o = Objective(distances)
                           /\ b = BestMove.objective /\ x = 3 * (z * z) * Eps
                           /\ h = Promised!Lengthened(o, 3 * Eps)
  OBVIOUS
<1>3. z \in Nat /\ Eps \in Nat /\ 3 * Eps \in Nat
  BY <1>1, <1>2, RoutesAssumption, RunningState
<1>4. x \in Nat /\ (3 * Eps) * (z * z) = x
  <2>1. PICK y : y = z * z
    OBVIOUS
  <2>2. y \in Nat /\ x = (3 * y) * Eps
    BY <1>2, <1>3, <2>1
  <2>3. 3 * y \in Nat /\ (3 * y) * Eps \in Nat
    BY <1>3, <2>2
  <2>4. (3 * y) * Eps = (3 * Eps) * y
    BY <1>3, <2>2
  <2> QED BY <2>1, <2>2, <2>3, <2>4
<1>5. o \in Objectives /\ b \in Above(o, x)
  BY <1>1, <1>2, BestMoveClimbs, ComparedAreObjectives DEF Climbed
<1>6. /\ o.longest \in Nat /\ o.total \in Nat /\ b.longest \in Nat /\ b.total \in Nat
      /\ o = [longest |-> o.longest, total |-> o.total]
      /\ b.longest <= o.longest + x
      /\ b.longest + Eps >= o.longest + x => b.total <= o.total
  BY <1>5 DEF Above, Objectives
<1>7. h.longest = o.longest + x /\ h.total = o.total
  BY <1>2, <1>4, <1>6 DEF Promised!Lengthened
<1>8. ~IsBetter(h, b)
  BY <1>3, <1>4, <1>6, <1>7 DEF IsBetter
<1> QED BY <1>2, <1>3, <1>8, MoveIsPromised

LEMMA AnnealingIsPromised ==
    ASSUME EngineInv, AnnealStep, routes' # routes, NEW leeway \in Nat
    PROVE  Promised!NextWithin(leeway)
<1>1. /\ phase = "anneal" /\ phase' = phase /\ todo = <<>>
      /\ UNCHANGED <<input, D, result>> /\ phase \in Running /\ phase # "seed"
  BY DEF AnnealStep, Running, EngineInv, TodoInv, Searching
<1>2. PICK p \in Proposals(current) :
         p = routes' /\ IsBetter(ObjectiveOf(D, p), Objective(distances))
  BY DEF AnnealStep, Accept, BecomesBest
<1>3. /\ p \in [Vehicles -> Seq(Stops)] /\ Partition(p, Vehicles, Stops)
      /\ NoneEmpty(p, Vehicles)
  BY <1>1, ProposalsKeepThePlan
<1>4. Objective(distances) = ObjectiveOf(D, routes) /\ routes \in [Vehicles -> Seq(Stops)]
  BY <1>1, SearchingState, RunningState DEF ObjectiveOf
<1>5. ~IsBetter(ObjectiveOf(D, routes), ObjectiveOf(D, p))
  <2>1. ObjectiveOf(D, routes) \in Objectives /\ ObjectiveOf(D, p) \in Objectives
    BY <1>1, <1>3, <1>4, PlansHaveObjectives
  <2> QED BY <1>2, <1>4, <2>1, BetterIsNotWorse
<1> QED BY <1>1, <1>2, <1>3, <1>5, AsGoodIsPromised

\* build_result measures the routes it returns along their coordinates.
LEMMA ReturnIsPromised ==
    ASSUME EngineInv, Return, NEW leeway
    PROVE  Promised!NextWithin(leeway)
<1>1. /\ phase = "final" /\ phase' = "returned" /\ todo = <<>> /\ result' = BuildResult
      /\ UNCHANGED <<input, routes>> /\ phase \in Running /\ phase # "seed"
  BY DEF Return, Running
<1>2. Stage = "solving" /\ Stage' = "returned"
  BY <1>1 DEF Stage, Running
<1>3. PICK p : p = routes
  OBVIOUS
<1>4. /\ p \in [Vehicles -> Seq(Stops)] /\ Promised!Complete(p)
      /\ Promised!Objective(Promised!Lengths(p)) = Objective(distances)
  BY <1>1, <1>3, SearchedPlans, SearchingState DEF ObjectiveOf
<1>5. /\ input.depot \in Places /\ input.stops \in Seq(Places) /\ D = DistanceMatrix
      /\ \A v \in Vehicles : distances[v] = RouteDistance(D, p[v])
  <2>1. distances = RouteDistances(D, routes) /\ routes \in [Vehicles -> Seq(Stops)]
    BY <1>1, SearchingState, RunningState
  <2> QED BY <1>1, <1>3, <2>1, RunningState DEF RouteDistances
<1>6. ASSUME NEW v \in Vehicles
      PROVE  /\ Promised!Tour(p[v]) = RouteCoordinates(p[v])
             /\ Promised!Length(Promised!Tour(p[v])) = distances[v]
  <2>1. p[v] \in Seq(Stops)
    BY <1>4
  <2>2. Promised!Tour(p[v]) = RouteCoordinates(p[v])
    BY <1>5, <2>1, TourOfARoute
  <2>3. Promised!Length(Promised!Tour(p[v])) = RouteDistance(DistanceMatrix, p[v])
    BY <1>5, <2>1, LengthOfATour
  <2> QED BY <1>5, <2>2, <2>3
<1>7. BuildResult = Promised!AnswerOf(p)
  <2>1. Promised!Vehicles = Vehicles
    BY PromisedOperators
  <2>2. [v \in Vehicles |->
           [ vehicle_id        |-> v,
             stop_order        |-> [i \in DOMAIN p[v] |-> p[v][i] - 1],
             route_coordinates |-> Promised!Tour(p[v]),
             distance_km       |-> Promised!Length(Promised!Tour(p[v])) ]]
          = [v \in Vehicles |->
               [ vehicle_id        |-> v,
                 stop_order        |-> [i \in DOMAIN p[v] |-> p[v][i] - 1],
                 route_coordinates |-> RouteCoordinates(p[v]),
                 distance_km       |-> distances[v] ]]
    BY <1>6, Zenon
  <2> QED BY <1>3, <1>4, <2>1, <2>2, Zenon DEF BuildResult, Promised!AnswerOf
<1>8. Promised!Answer
  BY <1>1, <1>2, <1>3, <1>4, <1>7 DEF Promised!Answer, Stage
<1> QED BY <1>8 DEF Promised!NextWithin

\* The rest of the steps is of no account to Assignment.
LEMMA SteppingAside ==
    ASSUME \/ ConstructionEnds \/ LocalSearchEnds \/ AnnealEnds
           \/ TwoOptPass /\ routes' = routes
           \/ AnnealStep /\ routes' = routes
           \/ UNCHANGED vars
    PROVE  UNCHANGED Promised!vars
<1>1. Stage' = Stage /\ UNCHANGED <<input, routes, result>>
  BY DEF ConstructionEnds, LocalSearchEnds, AnnealEnds, TwoOptPass, AnnealStep, Searching,
         vars, Stage, Running
<1> QED BY <1>1 DEF Promised!vars, Stage

\* Every step but a move, as a step of Assignment with any leeway.
LEMMA StepIsPromised ==
    ASSUME EngineInv, EngineInv', [Next]_vars, ~MakeMove, NEW leeway \in Nat
    PROVE  Promised!NextWithin(leeway) \/ UNCHANGED Promised!vars
<1>2. CASE Start
  BY <1>2, StartIsPromised
<1>3. CASE SeedVehicle \/ AssignStop
  BY <1>3, GrowthIsPromised
<1>4. CASE TwoOptPass
  BY <1>4, TwoOptIsPromised, SteppingAside
<1>5. CASE AnnealStep
  BY <1>5, AnnealingIsPromised, SteppingAside
<1>6. CASE Return
  BY <1>6, ReturnIsPromised
<1>7. CASE ConstructionEnds \/ LocalSearchEnds \/ AnnealEnds \/ UNCHANGED vars
  BY <1>7, SteppingAside
<1> QED BY <1>2, <1>3, <1>4, <1>5, <1>6, <1>7 DEF Next

LEMMA StartsAsPromised == Init => Promised!Init
BY DEF Init, Promised!Init, Running, NoResult, Promised!NoAnswer

\* Whatever the distances and the tolerance, what the search keeps is a plan of
\* Assignment, which construction grows; a step that replaces it gives a plan that is
\* not worse than the old one would be if its longest route were longer by three times
\* Eps for each pair of stops; and what it returns is its last plan, measured along
\* its coordinates.  The leeway is that of a move: its search may keep that many moves
\* one after the other, each better than the one before by a comparison that lets the
\* longest route be Eps longer (consider_move).
THEOREM SearchImplementsAssignmentNearly == Spec => Promised!SpecWithin(3 * Eps)
<1>1. EngineInv /\ EngineInv' /\ [Next]_vars =>
        [Promised!NextWithin(3 * Eps)]_(Promised!vars)
  <2> SUFFICES ASSUME EngineInv, EngineInv', [Next]_vars
               PROVE  Promised!NextWithin(3 * Eps) \/ UNCHANGED Promised!vars
    OBVIOUS
  <2>1. 3 * Eps \in Nat
    BY RoutesAssumption
  <2> QED BY <2>1, StepIsPromised, ClimbedMoveIsPromised
<1> QED BY <1>1, StartsAsPromised, EngineInvariant, PTL DEF Spec, Promised!SpecWithin

\* In a behaviour in which "better" is transitive on what each search for a move
\* compares, no step makes the plan worse at all.
THEOREM SearchImplementsAssignment == Spec /\ []MovesCompare => ImplementsAssignment
<1>1. EngineInv /\ EngineInv' /\ MovesCompare /\ [Next]_vars =>
        [Promised!Next]_(Promised!vars)
  <2> SUFFICES ASSUME EngineInv, EngineInv', MovesCompare, [Next]_vars
               PROVE  Promised!NextWithin(0) \/ UNCHANGED Promised!vars
    BY DEF Promised!Next
  <2> QED BY StepIsPromised, ComparedMoveIsPromised
<1> QED BY <1>1, StartsAsPromised, EngineInvariant, PTL
        DEF Spec, ImplementsAssignment, Promised!Spec

=============================================================================
