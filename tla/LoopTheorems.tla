---------------------------- MODULE LoopTheorems ----------------------------
(***************************************************************************)
(* Induction for the loops of the other modules, which are recursive       *)
(* functions on an interval of numbers: such a function exists, and what   *)
(* holds of the first number and of each one after the previous holds of   *)
(* all.  A predicate is given as the set of the numbers that satisfy it.   *)
(***************************************************************************)
EXTENDS Integers, WellFoundedInduction, TLAPS

(* A set of natural numbers that is not empty has a least element. *)
LEMMA LeastNat == ASSUME NEW T, T \subseteq Nat, T # {}
                  PROVE  \E m \in T : \A k \in T : m <= k
<1>1. PICK m \in T : \A k \in T : ~ (<<k, m>> \in OpToRel(<, Nat))
  BY WFMin, NatLessThanWellFounded DEF OpToRel
<1>2. \A k \in T : ~ (k < m)
  BY <1>1 DEF OpToRel
<1> QED BY <1>2

(* A set that contains 0, and with a number below n the next one, contains *)
(* all numbers up to n.                                                    *)
LEMMA UpTo == ASSUME NEW n \in Nat, NEW G, 0 \in G, \A m \in 1 .. n : m - 1 \in G => m \in G
              PROVE  0 .. n \subseteq G
<1> DEFINE Bad == (0 .. n) \ G
<1>1. SUFFICES ASSUME Bad # {} PROVE FALSE
  OBVIOUS
<1>2. Bad \subseteq Nat
  OBVIOUS
<1> HIDE DEF Bad
<1>3. PICK m \in Bad : \A k \in Bad : m <= k
  BY <1>1, <1>2, LeastNat
<1>4. m \in 1 .. n /\ m - 1 \in 0 .. n /\ m - 1 \notin Bad
  BY <1>3 DEF Bad
<1> QED BY <1>4 DEF Bad

(* A loop of n turns that starts with first and does step[<<i, s>>] in its *)
(* i-th turn; f[i] is what it has after i turns.                           *)
Turns(n, S) == [(1 .. n) \X S -> S]
IsLoop(n, S, first, step, f) ==
    /\ f \in [0 .. n -> S]
    /\ f[0] = first /\ \A i \in 1 .. n : f[i] = step[<<i, f[i - 1]>>]

LEMMA LoopExists ==
    ASSUME NEW n \in Nat, NEW S, NEW first \in S, NEW step \in Turns(n, S)
    PROVE  \E f : IsLoop(n, S, first, step, f)
<1> USE DEF Turns
<1> DEFINE Runs(m, f) ==
              f[0] = first /\ \A i \in 1 .. m : f[i] = step[<<i, f[i - 1]>>]
           G == {m \in 0 .. n : \E f \in [0 .. m -> S] : Runs(m, f)}
<1>1. 0 \in G
  <2> DEFINE g == [i \in 0 .. 0 |-> first]
  <2>2. g \in [0 .. 0 -> S] /\ g[0] = first
    OBVIOUS
  <2> HIDE DEF g
  <2>3. Runs(0, g)
    BY <2>2
  <2>4. \E f \in [0 .. 0 -> S] : Runs(0, f)
    BY <2>2, <2>3
  <2> QED BY <2>4
<1>2. ASSUME NEW m \in 1 .. n, m - 1 \in G PROVE m \in G
  <2>1. PICK f \in [0 .. m - 1 -> S] : Runs(m - 1, f)
    BY <1>2
  <2>2. m - 1 \in 0 .. n /\ f[m - 1] \in S
    BY <2>1
  <2> DEFINE last == step[<<m, f[m - 1]>>]
             g == [i \in 0 .. m |-> IF i = m THEN last ELSE f[i]]
  <2>3. last \in S
    BY <2>2
  <2> HIDE DEF last
  <2>4. g \in [0 .. m -> S]
    BY <2>3
  <2>5. g[m] = last /\ \A i \in 0 .. m - 1 : g[i] = f[i]
    OBVIOUS
  <2> HIDE DEF g
  <2>6. g[m] = step[<<m, g[m - 1]>>]
    <3>1. g[m - 1] = f[m - 1]
      BY <2>5
    <3> QED BY <2>5, <3>1 DEF last
  <2>7. \A i \in 1 .. m : g[i] = step[<<i, g[i - 1]>>]
    <3> TAKE i \in 1 .. m
    <3>1. CASE i = m
      BY <2>6, <3>1
    <3>2. CASE i # m
      <4>1. i \in 1 .. m - 1 /\ i \in 0 .. m - 1 /\ i - 1 \in 0 .. m - 1
        BY <3>2
      <4> QED BY <2>1, <2>5, <4>1
    <3> QED BY <3>1, <3>2
  <2>8. Runs(m, g)
    BY <2>1, <2>5, <2>7
  <2> QED BY <2>4, <2>8
<1>3. n \in G
  <2> HIDE DEF G
  <2>1. 0 .. n \subseteq G
    BY <1>1, <1>2, UpTo
  <2> QED BY <2>1
<1> QED BY <1>3 DEF IsLoop

=============================================================================
