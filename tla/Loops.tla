------------------------------- MODULE Loops -------------------------------
(***************************************************************************)
(* For loops.                                                              *)
(***************************************************************************)
EXTENDS Integers

\* Op(value): TLC evaluates the element of a set once, an argument each time it
\* is used.
Once(Op(_), value) == CHOOSE x \in {Op(y) : y \in {value}} : TRUE

\* A for loop over 1..n, which carries a value from turn to turn.
Loop(Turn(_, _), start, n) ==
    LET after[i \in 0..n] ==
          IF i = 0 THEN start ELSE Once(LAMBDA y : Turn(y, i), after[i - 1])
    IN  after[n]

=============================================================================
