----------------------------- MODULE Induction -----------------------------
(***************************************************************************)
(* Induction over the natural numbers with a set in place of a predicate,  *)
(* for the proofs about what the recursive functions of the models         *)
(* compute.                                                                *)
(***************************************************************************)
EXTENDS Integers, WellFoundedInduction, TLAPS

\* Every set of natural numbers that is not empty has a least element.
LEMMA LeastElement ==
    ASSUME NEW T, T \subseteq Nat, T # {}
    PROVE  \E x \in T : \A y \in T : ~(y < x)
<1> DEFINE R == OpToRel(<, Nat)
<1>1. IsWellFoundedOn(R, Nat)
  BY NatLessThanWellFounded
<1>2. \A i, j \in Nat : i < j => <<i, j>> \in R
  BY DEF OpToRel
<1> HIDE DEF R
<1>3. PICK x \in T : \A y \in T : ~(<<y, x>> \in R)
  BY <1>1, WFMin, Zenon
<1>4. \A y \in T : ~(y < x)
  BY <1>2, <1>3, Zenon
<1> QED
  BY <1>4

\* A set with 0 and with the successor of each number up to m that it has
\* contains 0..m.
LEMMA UpTo ==
    ASSUME NEW T, NEW m \in Nat, 0 \in T,
           \A n \in 0..(m - 1) : n \in T => n + 1 \in T
    PROVE  0..m \subseteq T
<1> DEFINE U == (0..m) \ T
<1> SUFFICES ASSUME U # {} PROVE FALSE
  OBVIOUS
<1>1. U \subseteq Nat
  OBVIOUS
<1> HIDE DEF U
<1>2. PICK x \in U : \A y \in U : ~(y < x)
  BY <1>1, LeastElement, Zenon
<1>3. x \in 0..m /\ x \notin T /\ x # 0
  BY <1>2 DEF U
<1>4. x - 1 \in T
  BY <1>2, <1>3 DEF U
<1> QED
  BY <1>3, <1>4

\* m steps on the values V, and the values g they go through from c on.
Steps(m, V) == [1..m -> [V -> V]]
Iterates(g, c, m, d) == g[0] = c /\ \A i \in 1..m : g[i] = d[i][g[i - 1]]

\* Applying the function d[i] in the i-th step, starting with c, gives a
\* sequence of values: the function defined by g[0] = c and
\* g[i] = d[i][g[i - 1]] exists.
LEMMA Iteration ==
    ASSUME NEW V, NEW c \in V, NEW m \in Nat, NEW d \in Steps(m, V)
    PROVE  \E g \in [0..m -> V] : Iterates(g, c, m, d)
<1> USE DEF Steps
<1> DEFINE F(k) == {g \in [0..k -> V] : /\ g[0] = c
                                        /\ \A i \in 1..k : g[i] = d[i][g[i - 1]]}
           T == {k \in 0..m : F(k) # {}}
<1>1. 0 \in T
  <2>1. [i \in 0..0 |-> c] \in F(0)
    OBVIOUS
  <2> QED
    BY <2>1
<1>2. ASSUME NEW n \in 0..(m - 1), n \in T PROVE n + 1 \in T
  <2>1. PICK g \in [0..n -> V] : g[0] = c /\ \A i \in 1..n : g[i] = d[i][g[i - 1]]
    BY <1>2
  <2> DEFINE h == [i \in 0..(n + 1) |-> IF i = n + 1 THEN d[i][g[n]] ELSE g[i]]
  <2>2. n \in Nat /\ n + 1 \in 1..m /\ g[n] \in V
    BY <2>1
  <2>3. d[n + 1][g[n]] \in V
    BY <2>2
  <2>4. h \in [0..(n + 1) -> V] /\ h[0] = c
    BY <2>1, <2>2, <2>3
  <2>5. \A i \in 1..(n + 1) : h[i] = d[i][h[i - 1]]
    BY <2>1, <2>2
  <2> HIDE DEF h
  <2>6. h \in F(n + 1)
    BY <2>4, <2>5
  <2> QED
    BY <2>2, <2>6
<1> HIDE DEF T
<1>3. 0..m \subseteq T
  BY <1>1, <1>2, UpTo
<1>4. m \in T
  BY <1>3
<1> QED
  BY <1>4 DEF T, Iterates
=============================================================================
