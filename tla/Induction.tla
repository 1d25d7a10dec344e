------------------------------ MODULE Induction ------------------------------
(* Induction and recursion over the naturals, and induction over sequences,  *)
(* stated about sets and functions.  The library's own induction theorems    *)
(* take an operator as their parameter and so cannot be instantiated here;   *)
(* the well-foundedness of strict inclusion between finite sets, which takes *)
(* none, says as much.                                                       *)
EXTENDS Integers, Sequences, FiniteSets, SequenceTheorems, FiniteSetTheorems,
        WellFoundedInduction, TLAPS

\* A set of naturals that is not empty has a least member.
LEMMA LeastNatural ==
  ASSUME NEW T, T \subseteq Nat, T # {}
  PROVE  \E m \in T : \A n \in T : m <= n
<1>. DEFINE UpTo(n) == 1 .. n
            Ups == {UpTo(n) : n \in T}
            Inside == StrictSubsetOrdering(Nat)
<1>1. \A n \in T : UpTo(n) \subseteq Nat /\ IsFiniteSet(UpTo(n))
  BY FS_Interval
<1>2. Ups \subseteq FiniteSubsetsOf(Nat) /\ Ups # {}
  BY <1>1 DEF FiniteSubsetsOf
<1>3. IsWellFoundedOn(Inside, FiniteSubsetsOf(Nat))
  BY FS_StrictSubsetOrderingWellFounded
<1>. HIDE DEF Ups, Inside
<1>4. PICK x \in Ups : \A y \in Ups : ~(<<y, x>> \in Inside)
  BY <1>2, <1>3, WFMin
<1>5. PICK m \in T : x = UpTo(m)
  BY <1>4 DEF Ups
<1>6. \A n \in T : m <= n
  <2>. SUFFICES ASSUME NEW n \in T, n < m PROVE FALSE
    OBVIOUS
  <2>1. UpTo(n) \in Ups
    BY DEF Ups
  <2>2. UpTo(n) \subseteq UpTo(m)
    OBVIOUS
  <2>3. m \in UpTo(m) /\ m \notin UpTo(n)
    OBVIOUS
  <2>4. <<UpTo(n), UpTo(m)>> \in Inside
    BY <1>1, <2>2, <2>3 DEF Inside, StrictSubsetOrdering
  <2>. QED BY <1>4, <1>5, <2>1, <2>4
<1>. QED BY <1>6

\* What holds of 0, and of n + 1 when of n, holds of every natural.
LEMMA FromZeroUp ==
  ASSUME NEW T, 0 \in T, \A n \in Nat : n \in T => n + 1 \in T
  PROVE  Nat \subseteq T
<1>. SUFFICES ASSUME NEW k \in Nat, k \notin T PROVE FALSE
  OBVIOUS
<1>. DEFINE Missing == {n \in Nat : n \notin T}
<1>. HIDE DEF Missing
<1>1. PICK m \in Missing : \A n \in Missing : m <= n
  BY LeastNatural DEF Missing
<1>2. m \in Nat /\ m \notin T /\ m # 0
  BY <1>1 DEF Missing
<1>3. m - 1 \in Nat /\ m - 1 \notin Missing
  BY <1>1, <1>2
<1>4. m - 1 \in T
  BY <1>3 DEF Missing
<1>5. (m - 1) + 1 \in T
  BY <1>3, <1>4
<1>. QED BY <1>2, <1>5
-----------------------------------------------------------------------------
\* f comes from base in n steps, the i-th of which is that of G[i].
Iterates(f, base, G, n) == f[0] = base /\ \A i \in 1 .. n : f[i] = G[i][f[i - 1]]

\* A recursion on the number of the step has a solution...
LEMMA IteratesExist ==
  ASSUME NEW V, NEW base \in V, NEW n \in Nat, NEW G \in [1 .. n -> [V -> V]]
  PROVE  \E f \in [0 .. n -> V] : Iterates(f, base, G, n)
<1>. DEFINE Done == {m \in Nat : m <= n => \E f \in [0 .. m -> V] : Iterates(f, base, G, m)}
<1>1. 0 \in Done
  <2>1. [i \in 0 .. 0 |-> base] \in [0 .. 0 -> V]
    OBVIOUS
  <2>2. Iterates([i \in 0 .. 0 |-> base], base, G, 0)
    BY DEF Iterates
  <2>. QED BY <2>1, <2>2
<1>2. ASSUME NEW m \in Nat, m \in Done PROVE m + 1 \in Done
  <2>. SUFFICES ASSUME m + 1 <= n
                PROVE  \E f \in [0 .. m + 1 -> V] : Iterates(f, base, G, m + 1)
    OBVIOUS
  <2>1. PICK f \in [0 .. m -> V] : Iterates(f, base, G, m)
    BY <1>2
  <2>. DEFINE g == [i \in 0 .. m + 1 |-> IF i = m + 1 THEN G[m + 1][f[m]] ELSE f[i]]
  <2>2. f[m] \in V /\ m + 1 \in 1 .. n
    OBVIOUS
  <2>3. G[m + 1][f[m]] \in V
    BY <2>2
  <2>4. g \in [0 .. m + 1 -> V]
    BY <2>3
  <2>5. \A i \in 1 .. m + 1 : i - 1 \in 0 .. m /\ g[i - 1] = f[i - 1]
    OBVIOUS
  <2>6. g[0] = base /\ \A i \in 1 .. m : g[i] = G[i][f[i - 1]]
    BY <2>1 DEF Iterates
  <2>7. g[m + 1] = G[m + 1][f[(m + 1) - 1]]
    OBVIOUS
  <2>8. Iterates(g, base, G, m + 1)
    <3>. HIDE DEF g
    <3>. QED BY <2>5, <2>6, <2>7 DEF Iterates
  <2>. HIDE DEF g
  <2>. QED BY <2>4, <2>8
<1>. HIDE DEF Done
<1>3. n \in Done
  BY <1>1, <1>2, FromZeroUp
<1>. QED BY <1>3 DEF Done

\* ...which stays in the set the steps are functions on...
LEMMA IteratesTyped ==
  ASSUME NEW V, NEW base \in V, NEW n \in Nat, NEW G \in [1 .. n -> [V -> V]],
         NEW f, f[0] = base, \A i \in 1 .. n : f[i - 1] \in V => f[i] = G[i][f[i - 1]]
  PROVE  Iterates(f, base, G, n) /\ \A i \in 0 .. n : f[i] \in V
<1>. DEFINE Typed == {m \in Nat : m <= n => f[m] \in V}
<1>1. 0 \in Typed
  OBVIOUS
<1>2. ASSUME NEW m \in Nat, m \in Typed PROVE m + 1 \in Typed
  <2>. SUFFICES ASSUME m + 1 <= n PROVE f[m + 1] \in V
    OBVIOUS
  <2>1. m + 1 \in 1 .. n /\ (m + 1) - 1 = m /\ f[m] \in V
    BY <1>2
  <2>2. f[m + 1] = G[m + 1][f[m]]
    BY <2>1
  <2>. QED BY <2>1, <2>2
<1>. HIDE DEF Typed
<1>3. Nat \subseteq Typed
  BY <1>1, <1>2, FromZeroUp
<1>4. \A i \in 0 .. n : f[i] \in V
  BY <1>3 DEF Typed
<1>5. \A i \in 1 .. n : f[i - 1] \in V
  BY <1>4
<1>. QED BY <1>4, <1>5 DEF Iterates

\* ...and only one.
LEMMA IteratesAgree ==
  ASSUME NEW base, NEW G, NEW n \in Nat, NEW f, NEW g,
         Iterates(f, base, G, n), Iterates(g, base, G, n)
  PROVE  f[n] = g[n]
<1>. DEFINE Same == {m \in Nat : m <= n => f[m] = g[m]}
<1>1. 0 \in Same
  BY DEF Iterates
<1>2. ASSUME NEW m \in Nat, m \in Same PROVE m + 1 \in Same
  <2>. SUFFICES ASSUME m + 1 <= n PROVE f[m + 1] = g[m + 1]
    OBVIOUS
  <2>1. m + 1 \in 1 .. n /\ (m + 1) - 1 = m
    OBVIOUS
  <2>2. f[m + 1] = G[m + 1][f[m]] /\ g[m + 1] = G[m + 1][g[m]]
    BY <2>1 DEF Iterates
  <2>. QED BY <1>2, <2>2
<1>. HIDE DEF Same
<1>3. n \in Same
  BY <1>1, <1>2, FromZeroUp
<1>. QED BY <1>3 DEF Same

\* Induction over sequences, from the front.
LEMMA FromEmptyUp ==
  ASSUME NEW C, NEW T, <<>> \in T,
         \A q \in Seq(C), c \in C : q \in T => Append(q, c) \in T
  PROVE  Seq(C) \subseteq T
<1>. DEFINE Ns == {n \in Nat : \A q \in Seq(C) : Len(q) = n => q \in T}
<1>1. 0 \in Ns
  <2>1. \A q \in Seq(C) : Len(q) = 0 => q = <<>>
    OBVIOUS
  <2>. QED BY <2>1
<1>2. ASSUME NEW n \in Nat, n \in Ns PROVE n + 1 \in Ns
  <2>. SUFFICES ASSUME NEW q \in Seq(C), Len(q) = n + 1 PROVE q \in T
    OBVIOUS
  <2>. DEFINE front == SubSeq(q, 1, n)
              c == q[n + 1]
  <2>1. front \in Seq(C) /\ Len(front) = n /\ c \in C
    BY SubSeqProperties
  <2>2. q = Append(front, c)
    <3>1. \A i \in 1 .. n : front[i] = q[i]
      BY SubSeqProperties
    <3>2. Append(front, c) \in Seq(C) /\ Len(Append(front, c)) = n + 1
          /\ Append(front, c)[n + 1] = c /\ \A i \in 1 .. n : Append(front, c)[i] = front[i]
      BY <2>1, AppendProperties
    <3>3. \A i \in 1 .. n + 1 : q[i] = Append(front, c)[i]
      BY <3>1, <3>2
    <3>. HIDE DEF front, c
    <3>. QED BY <3>2, <3>3, SeqEqual
  <2>3. front \in T
    BY <1>2, <2>1
  <2>. HIDE DEF front, c
  <2>. QED BY <2>1, <2>2, <2>3
<1>. HIDE DEF Ns
<1>3. Nat \subseteq Ns
  BY <1>1, <1>2, FromZeroUp
<1>. SUFFICES ASSUME NEW q \in Seq(C) PROVE q \in T
  OBVIOUS
<1>4. Len(q) \in Ns
  BY <1>3
<1>. QED BY <1>4 DEF Ns
=============================================================================
