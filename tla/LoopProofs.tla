------------------------------ MODULE LoopProofs ------------------------------
(***************************************************************************)
(* What a for loop keeps and how it unfolds, for any turn.  A loop is a    *)
(* recursive function, and what it computes needs induction: the induction *)
(* theorems of the library take a predicate and cannot be applied, but that*)
(* every set of naturals has a least element is a statement about sets.    *)
(* Nor can a lemma be applied that has an operator among its hypotheses:   *)
(* so the turn is a parameter of this module, which is instantiated once   *)
(* for each loop.  What else a turn depends on are its first six arguments.*)
(***************************************************************************)
EXTENDS Loops, WellFoundedInduction, TLAPS

CONSTANT Turn(_, _, _, _, _, _, _, _)

\* n turns
Run(a, b, c, d, e, g, start, n) ==
    Loop(LAMBDA y, i : Turn(a, b, c, d, e, g, y, i), start, n)

\* f says what the loop carries after each of n turns.
Records(f, a, b, c, d, e, g, start, n) ==
    f = [i \in 0..n |->
           IF i = 0 THEN start ELSE Turn(a, b, c, d, e, g, f[i - 1], i)]

-----------------------------------------------------------------------------

LEMMA LeastNatural ==
    ASSUME NEW T \in SUBSET Nat, T # {}
    PROVE  \E x \in T : \A y \in T : x <= y
<1>1. PICK x \in T : \A y \in T : ~ (<<y, x>> \in OpToRel(<, Nat))
  BY NatLessThanWellFounded, WFMin
<1>2. ASSUME NEW y \in T PROVE x <= y
  <2>1. <<y, x>> \in Nat \X Nat
    OBVIOUS
  <2>2. ~ (<<y, x>>[1] < <<y, x>>[2])
    BY <1>1, <2>1, Zenon DEF OpToRel
  <2> QED BY <2>2
<1> QED BY <1>2

\* Induction over 0..n: a set of numbers that has 0, and i with i - 1.
LEMMA InductionUpTo ==
    ASSUME NEW n \in Nat, NEW S, 0 \in S, \A i \in 1..n : i - 1 \in S => i \in S
    PROVE  \A i \in 0..n : i \in S
<1> SUFFICES ASSUME NEW k \in 0..n, k \notin S PROVE FALSE
  OBVIOUS
<1> DEFINE T == {i \in 0..n : i \notin S}
<1>1. PICK x \in T : \A y \in T : x <= y
  <2>1. T \in SUBSET Nat /\ T # {}
    OBVIOUS
  <2> HIDE DEF T
  <2> QED BY <2>1, LeastNatural
<1>2. x # 0 /\ x - 1 \notin T
  BY <1>1
<1> QED BY <1>1, <1>2

-----------------------------------------------------------------------------

LEMMA RecordExists ==
    ASSUME NEW a, NEW b, NEW c, NEW d, NEW e, NEW g, NEW start, NEW n \in Nat
    PROVE  \E f : Records(f, a, b, c, d, e, g, start, n)
<1> DEFINE S == {m \in Nat : \E f : Records(f, a, b, c, d, e, g, start, m)}
<1>1. 0 \in S
  <2> DEFINE f == [i \in 0..0 |-> start]
  <2>1. f = [i \in 0..0 |->
               IF i = 0 THEN start ELSE Turn(a, b, c, d, e, g, f[i - 1], i)]
    OBVIOUS
  <2> QED BY <2>1 DEF Records
<1>2. ASSUME NEW m \in 1..n, m - 1 \in S PROVE m \in S
  <2>1. PICK f : Records(f, a, b, c, d, e, g, start, m - 1)
    BY <1>2
  <2> DEFINE h == [i \in 0..m |->
                     IF i = m THEN Turn(a, b, c, d, e, g, f[m - 1], m) ELSE f[i]]
  <2>2. ASSUME NEW i \in 0..m
        PROVE  h[i] = IF i = 0 THEN start ELSE Turn(a, b, c, d, e, g, h[i - 1], i)
    <3>1. CASE i = m
      BY <3>1
    <3>2. CASE i # m
      <4>1. i \in 0..(m - 1)
        BY <3>2
      <4>2. f[i] = IF i = 0 THEN start ELSE Turn(a, b, c, d, e, g, f[i - 1], i)
        BY <2>1, <4>1 DEF Records
      <4>3. h[i] = f[i] /\ (i # 0 => h[i - 1] = f[i - 1])
        BY <4>1
      <4> QED BY <4>2, <4>3
    <3> QED BY <3>1, <3>2
  <2>3. h = [i \in 0..m |->
               IF i = 0 THEN start ELSE Turn(a, b, c, d, e, g, h[i - 1], i)]
    BY <2>2
  <2> HIDE DEF h
  <2> QED BY <2>3 DEF Records
<1> HIDE DEF S
<1>3. n \in S
  BY <1>1, <1>2, InductionUpTo
<1> QED BY <1>3 DEF S

LEMMA RunIsRecorded ==
    ASSUME NEW a, NEW b, NEW c, NEW d, NEW e, NEW g, NEW start, NEW n \in Nat
    PROVE  \E f : /\ Records(f, a, b, c, d, e, g, start, n)
                  /\ Run(a, b, c, d, e, g, start, n) = f[n]
<1> DEFINE once(f, i) ==
      CHOOSE x \in {Turn(a, b, c, d, e, g, y, i) : y \in {f[i - 1]}} : TRUE
<1> DEFINE after ==
      CHOOSE f : f = [i \in 0..n |-> IF i = 0 THEN start ELSE once(f, i)]
<1>1. \A f, i : once(f, i) = Turn(a, b, c, d, e, g, f[i - 1], i)
  OBVIOUS
<1>2. Run(a, b, c, d, e, g, start, n) = after[n]
  BY Zenon DEF Run, Loop, Once
<1>3. \E f : f = [i \in 0..n |-> IF i = 0 THEN start ELSE once(f, i)]
  <2> HIDE DEF once
  <2>1. PICK f : Records(f, a, b, c, d, e, g, start, n)
    BY RecordExists
  <2>2. f = [i \in 0..n |-> IF i = 0 THEN start ELSE once(f, i)]
    BY <1>1, <2>1 DEF Records
  <2> QED BY <2>2
<1>4. after = [i \in 0..n |-> IF i = 0 THEN start ELSE once(after, i)]
  <2> HIDE DEF once
  <2> QED BY <1>3, Zenon
<1> HIDE DEF after, once
<1>5. Records(after, a, b, c, d, e, g, start, n)
  BY <1>1, <1>4 DEF Records
<1> QED BY <1>2, <1>5

-----------------------------------------------------------------------------

\* I[i] is what holds after i turns: what each turn keeps, the loop keeps.
LEMMA LoopKeeps ==
    ASSUME NEW a, NEW b, NEW c, NEW d, NEW e, NEW g, NEW start, NEW n \in Nat,
           NEW I, start \in I[0],
           \A i \in 1..n : \A y \in I[i - 1] : Turn(a, b, c, d, e, g, y, i) \in I[i]
    PROVE  Run(a, b, c, d, e, g, start, n) \in I[n]
<1>1. PICK f : /\ Records(f, a, b, c, d, e, g, start, n)
               /\ Run(a, b, c, d, e, g, start, n) = f[n]
  BY RunIsRecorded
<1>2. f[0] = start /\ \A i \in 1..n : f[i] = Turn(a, b, c, d, e, g, f[i - 1], i)
  BY <1>1 DEF Records
<1> DEFINE S == {i \in 0..n : f[i] \in I[i]}
<1>3. 0 \in S /\ \A i \in 1..n : i - 1 \in S => i \in S
  BY <1>2
<1> HIDE DEF S
<1>4. n \in S
  BY <1>3, InductionUpTo
<1> QED BY <1>1, <1>4 DEF S

\* No turn is the start, and one turn more is a turn from where the loop was.
LEMMA LoopUnfolds ==
    ASSUME NEW a, NEW b, NEW c, NEW d, NEW e, NEW g, NEW start, NEW n \in Nat
    PROVE  /\ Run(a, b, c, d, e, g, start, 0) = start
           /\ Run(a, b, c, d, e, g, start, n + 1)
                = Turn(a, b, c, d, e, g, Run(a, b, c, d, e, g, start, n), n + 1)
<1>1. PICK f : /\ Records(f, a, b, c, d, e, g, start, n)
               /\ Run(a, b, c, d, e, g, start, n) = f[n]
  BY RunIsRecorded
<1>2. PICK h : /\ Records(h, a, b, c, d, e, g, start, n + 1)
               /\ Run(a, b, c, d, e, g, start, n + 1) = h[n + 1]
  BY RunIsRecorded
<1>3. f[0] = start /\ \A i \in 1..n : f[i] = Turn(a, b, c, d, e, g, f[i - 1], i)
  BY <1>1 DEF Records
<1>4. h[0] = start /\ \A i \in 1..(n + 1) : h[i] = Turn(a, b, c, d, e, g, h[i - 1], i)
  BY <1>2 DEF Records
<1> DEFINE S == {i \in 0..n : f[i] = h[i]}
<1>5. 0 \in S /\ \A i \in 1..n : i - 1 \in S => i \in S
  BY <1>3, <1>4
<1> HIDE DEF S
<1>6. f[n] = h[n]
  <2>1. n \in S
    BY <1>5, InductionUpTo
  <2> QED BY <2>1 DEF S
<1>7. Run(a, b, c, d, e, g, start, 0) = start
  <2>1. PICK k : /\ Records(k, a, b, c, d, e, g, start, 0)
                 /\ Run(a, b, c, d, e, g, start, 0) = k[0]
    BY RunIsRecorded
  <2> QED BY <2>1 DEF Records
<1> QED BY <1>1, <1>2, <1>4, <1>6, <1>7

\* A set that every turn stays in, the loop stays in.
LEMMA LoopStays ==
    ASSUME NEW a, NEW b, NEW c, NEW d, NEW e, NEW g, NEW start, NEW n \in Nat,
           NEW T, start \in T,
           \A i \in 1..n : \A y \in T : Turn(a, b, c, d, e, g, y, i) \in T
    PROVE  Run(a, b, c, d, e, g, start, n) \in T
<1> DEFINE I == [i \in 0..n |-> T]
<1>1. start \in I[0] /\ I[n] = T
  OBVIOUS
<1>2. \A i \in 1..n : \A y \in I[i - 1] : Turn(a, b, c, d, e, g, y, i) \in I[i]
  OBVIOUS
<1> HIDE DEF I
<1>3. Run(a, b, c, d, e, g, start, n) \in I[n]
  BY <1>1, <1>2, LoopKeeps
<1> QED BY <1>1, <1>3

\* What one turn brings about and every turn keeps, the loop brings about.
LEMMA LoopReaches ==
    ASSUME NEW a, NEW b, NEW c, NEW d, NEW e, NEW g, NEW start, NEW n \in Nat,
           NEW T, start \in T,
           \A i \in 1..n : \A y \in T : Turn(a, b, c, d, e, g, y, i) \in T,
           NEW U, NEW k \in 1..n,
           \A y \in T : Turn(a, b, c, d, e, g, y, k) \in U,
           \A i \in 1..n : \A y \in U : Turn(a, b, c, d, e, g, y, i) \in U
    PROVE  Run(a, b, c, d, e, g, start, n) \in U
<1> DEFINE I == [i \in 0..n |-> IF i < k THEN T ELSE U]
<1>1. start \in I[0] /\ I[n] = U
  OBVIOUS
<1>2. ASSUME NEW i \in 1..n, NEW y \in I[i - 1]
      PROVE  Turn(a, b, c, d, e, g, y, i) \in I[i]
  <2>1. CASE i < k
    BY <2>1
  <2>2. CASE i = k
    <3>1. y \in T /\ I[i] = U
      BY <2>2
    <3> QED BY <2>2, <3>1
  <2>3. CASE i > k
    <3>1. y \in U /\ I[i] = U
      BY <2>3
    <3> QED BY <3>1
  <2> QED BY <2>1, <2>2, <2>3
<1> HIDE DEF I
<1>3. Run(a, b, c, d, e, g, start, n) \in I[n]
  BY <1>1, <1>2, LoopKeeps
<1> QED BY <1>1, <1>3

=============================================================================
