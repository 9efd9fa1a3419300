------------------------------ MODULE NaturalRecursion ----------------------
(***************************************************************************)
(* Induction and recursion over natural numbers, from the fact that < is   *)
(* well founded: a counterexample would have a least one.                  *)
(***************************************************************************)
EXTENDS Naturals, WellFoundedInduction, TLAPS

\* A set of natural numbers that has an element has a least one.
LEMMA LeastElement ==
  ASSUME NEW T \in SUBSET Nat, T # {}
  PROVE  \E x \in T : \A y \in T : x <= y
<1>1. PICK x \in T : \A y \in T : ~(<<y, x>> \in OpToRel(<, Nat))
  BY WFMin, NatLessThanWellFounded, Zenon
<1>2. \A y \in T : ~(y < x)
  BY <1>1, Zenon DEF OpToRel
<1> QED
  BY <1>2

\* What holds at 0 and goes from every number to the next holds up to n.
LEMMA UpTo ==
  ASSUME NEW n \in Nat, NEW good, 0 \in good,
         \A i \in 1 .. n : i - 1 \in good => i \in good
  PROVE  0 .. n \subseteq good
<1> DEFINE bad == {i \in 0 .. n : i \notin good}
<1>1. SUFFICES ASSUME bad # {} PROVE FALSE
  OBVIOUS
<1>2. bad \in SUBSET Nat
  OBVIOUS
<1>3. PICK x \in bad : \A y \in bad : x <= y
  BY <1>1, <1>2, LeastElement
<1>4. x \in 1 .. n /\ x - 1 \in 0 .. n /\ x - 1 < x
  BY <1>3
<1>5. x - 1 \in good
  BY <1>3, <1>4
<1> QED
  BY <1>3, <1>4, <1>5

Steps(n, S) == [1 .. n -> [S -> S]]

\* f begins with b and makes every step.
Runs(f, n, b, step) == f[0] = b /\ \A i \in 1 .. n : f[i] = step[i][f[i - 1]]

HasRun(n, S, b, step) == \E f \in [0 .. n -> S] : Runs(f, n, b, step)

\* A recursion whose steps stay in S defines a function into S.
LEMMA RecursionOverInterval ==
  ASSUME NEW n \in Nat, NEW S, NEW b \in S, NEW step \in Steps(n, S)
  PROVE  HasRun(n, S, b, step)
<1> DEFINE good == {m \in 0 .. n : HasRun(m, S, b, step)}
<1>1. 0 \in good
  <2> DEFINE g == [i \in 0 .. 0 |-> b]
  <2>1. g \in [0 .. 0 -> S] /\ Runs(g, 0, b, step)
    BY DEF Runs
  <2> HIDE DEF g
  <2>2. HasRun(0, S, b, step)
    BY <2>1 DEF HasRun
  <2> QED
    BY <2>2
<1>2. ASSUME NEW m \in 1 .. n, m - 1 \in good PROVE m \in good
  <2>1. PICK f \in [0 .. m - 1 -> S] : Runs(f, m - 1, b, step)
    BY <1>2 DEF HasRun
  <2>2. step[m][f[m - 1]] \in S
    <3>1. step[m] \in [S -> S] /\ f[m - 1] \in S
      BY DEF Steps
    <3> QED
      BY <3>1
  <2> DEFINE g == [i \in 0 .. m |-> IF i = m THEN step[m][f[m - 1]] ELSE f[i]]
  <2>3. g \in [0 .. m -> S]
    BY <2>2
  <2>4. Runs(g, m, b, step)
    BY <2>1 DEF Runs
  <2> HIDE DEF g
  <2>5. HasRun(m, S, b, step)
    BY <2>3, <2>4 DEF HasRun
  <2>6. m \in 0 .. n
    OBVIOUS
  <2> QED
    BY <2>5, <2>6
<1> HIDE DEF good
<1>3. 0 .. n \subseteq good
  BY <1>1, <1>2, UpTo
<1> QED
  BY <1>3 DEF good

=============================================================================
