-------------------------- MODULE KeyOrders_proofs --------------------------
(* What taking keys out of an order, and adding one, does to it, which the      *)
(* proofs about both caches rest on; the recursive functions of the heap; folds  *)
(* over finite sets, and sums.                                                  *)
EXTENDS KeyOrders, FiniteSetTheorems, WellFoundedInduction, TLAPS

\* Each of the first numbers is the place of one member of a finite set of numbers.
LEMMA Places ==
  ASSUME NEW m \in Nat, NEW kept \in SUBSET (1..m)
  PROVE  /\ Cardinality(kept) \in Nat /\ Cardinality(kept) <= m
         /\ Cardinality(kept) = m => kept = 1..m
         /\ \A i \in kept : Cardinality({j \in kept : j <= i}) \in 1..Cardinality(kept)
         /\ \A i, k \in kept :
              Cardinality({j \in kept : j <= i}) = Cardinality({j \in kept : j <= k}) => i = k
         /\ \A n \in 1..Cardinality(kept) :
              \E i \in kept : Cardinality({j \in kept : j <= i}) = n
<1> DEFINE Up(i) == {j \in kept : j <= i}
           n == Cardinality(kept)
           place == [i \in kept |-> Cardinality(Up(i))]
<1>1. IsFiniteSet(1..m) /\ Cardinality(1..m) = m
  BY FS_Interval
<1>2. IsFiniteSet(kept) /\ n \in Nat /\ n <= m /\ (n = m => kept = 1..m)
  BY <1>1, FS_Subset, FS_CardinalityType
<1>3. ASSUME NEW i \in kept PROVE IsFiniteSet(Up(i)) /\ Cardinality(Up(i)) \in 1..n
  <2>1. Up(i) \in SUBSET kept /\ i \in Up(i)
    OBVIOUS
  <2>2. IsFiniteSet(Up(i)) /\ Cardinality(Up(i)) \in Nat /\ Cardinality(Up(i)) <= n
    BY <1>2, <2>1, FS_Subset, FS_CardinalityType
  <2>3. Cardinality(Up(i)) # 0
    BY <2>1, <2>2, FS_EmptySet
  <2> QED BY <1>2, <2>2, <2>3
<1>4. ASSUME NEW i \in kept, NEW k \in kept, i < k PROVE Cardinality(Up(i)) # Cardinality(Up(k))
  <2>1. i \in Int /\ k \in Int /\ \A j \in kept : j \in Int
    OBVIOUS
  <2>2. Up(i) \in SUBSET Up(k)
    <3>1. ASSUME NEW j \in kept, j <= i PROVE j <= k
      BY <1>4, <2>1, <3>1
    <3> QED BY <3>1
  <2>3. k \in Up(k) /\ k \notin Up(i)
    BY <1>4, <2>1
  <2> QED BY <1>3, <2>2, <2>3, FS_Subset
<1>5. \A i, k \in kept : Cardinality(Up(i)) = Cardinality(Up(k)) => i = k
  <2>1. \A i \in kept : i \in Int
    OBVIOUS
  <2> QED BY <1>4, <2>1
<1>6. place \in Injection(kept, 1..n)
  BY <1>3, <1>5 DEF Injection, IsInjective
<1>7. IsFiniteSet(1..n) /\ Cardinality(1..n) = n
  BY <1>2, FS_Interval
<1>8. place \in Surjection(kept, 1..n)
  BY <1>6, <1>7, FS_Injection
<1>9. \A k \in 1..n : \E i \in kept : Cardinality(Up(i)) = k
  BY <1>8 DEF Surjection
<1> QED BY <1>2, <1>3, <1>5, <1>9

\* No key has two places.
Distinct(s) == \A i, j \in DOMAIN s : s[i] = s[j] => i = j

\* Taking keys out leaves the others, each in one place, and makes the sequence
\* shorter if one of them was there.
LEMMA WithoutDoes ==
  ASSUME NEW S, NEW s \in Seq(S), Distinct(s), NEW ks
  PROVE  /\ Without(s, ks) \in Seq(S) /\ Distinct(Without(s, ks))
         /\ Elements(Without(s, ks)) = Elements(s) \ ks
         /\ Len(Without(s, ks)) <= Len(s)
         /\ \A k \in Elements(s) \cap ks : Len(Without(s, ks)) < Len(s)
<1> DEFINE kept == {i \in DOMAIN s : s[i] \notin ks}
           n == Cardinality(kept)
           Nth(k) == CHOOSE i \in kept : Cardinality({j \in kept : j <= i}) = k
           t == Without(s, ks)
<1>1. DOMAIN s = 1..Len(s) /\ Len(s) \in Nat /\ \A i \in 1..Len(s) : s[i] \in S
  OBVIOUS
<1>2. kept \in SUBSET (1..Len(s))
  BY <1>1
<1>3. n \in Nat /\ n <= Len(s) /\ (n = Len(s) => kept = 1..Len(s))
  BY <1>1, <1>2, Places
<1>p. /\ \A i \in kept : Cardinality({j \in kept : j <= i}) \in 1..n
      /\ \A i, k \in kept :
           Cardinality({j \in kept : j <= i}) = Cardinality({j \in kept : j <= k}) => i = k
      /\ \A k \in 1..n : \E i \in kept : Cardinality({j \in kept : j <= i}) = k
  <2> HIDE DEF kept
  <2> QED BY <1>1, <1>2, Places
<1>4. t = [k \in 1..n |-> s[Nth(k)]]
  BY DEF Without
<1>5. ASSUME NEW k \in 1..n
      PROVE  Nth(k) \in kept /\ Cardinality({j \in kept : j <= Nth(k)}) = k
  <2>1. \E i \in kept : Cardinality({j \in kept : j <= i}) = k
    BY <1>p
  <2> QED BY <2>1
<1>6. \A i \in kept : \E k \in 1..n : Nth(k) = i
  <2> SUFFICES ASSUME NEW i \in kept PROVE \E k \in 1..n : Nth(k) = i
    OBVIOUS
  <2>1. Cardinality({j \in kept : j <= i}) \in 1..n
    BY <1>p
  <2>2. Nth(Cardinality({j \in kept : j <= i})) = i
    BY <1>5, <1>p, <2>1
  <2> QED BY <2>1, <2>2
<1>7. \A k, l \in 1..n : Nth(k) = Nth(l) => k = l
  BY <1>5
<1> HIDE DEF Nth, n, t
<1>8. \A k \in 1..n : Nth(k) \in 1..Len(s) /\ s[Nth(k)] \in S /\ s[Nth(k)] \notin ks
  BY <1>1, <1>5
<1>9. t \in Seq(S) /\ Len(t) = n /\ DOMAIN t = 1..n
  BY <1>3, <1>4, <1>8
<1>10. Distinct(t)
  BY <1>1, <1>4, <1>7, <1>8, <1>9 DEF Distinct
<1>11. Elements(t) = Elements(s) \ ks
  <2>1. ASSUME NEW k \in 1..n PROVE t[k] \in Elements(s) \ ks
    BY <1>1, <1>4, <1>8, SMTT(30) DEF Elements
  <2>2. ASSUME NEW i \in 1..Len(s), s[i] \notin ks PROVE \E k \in 1..n : t[k] = s[i]
    BY <1>1, <1>4, <1>6, <2>2
  <2> QED BY <1>1, <1>9, <2>1, <2>2 DEF Elements
<1>12. \A k \in Elements(s) \cap ks : n < Len(s)
  <2>1. ASSUME NEW i \in 1..Len(s), s[i] \in ks PROVE n < Len(s)
    <3>1. i \notin kept
      BY <2>1
    <3> HIDE DEF kept
    <3>2. n # Len(s)
      BY <1>3, <3>1
    <3>3. n \in Nat /\ n <= Len(s) /\ Len(s) \in Nat
      BY <1>1, <1>3
    <3> QED BY <3>2, <3>3
  <2> QED BY <1>1, <2>1 DEF Elements
<1> QED BY <1>3, <1>9, <1>10, <1>11, <1>12 DEF t

\* A sequence without repetitions is as long as it has elements.
LEMMA DistinctLen ==
  ASSUME NEW S, NEW s \in Seq(S), Distinct(s)
  PROVE  Len(s) = Cardinality(Elements(s))
<1>1. DOMAIN s = 1..Len(s) /\ Len(s) \in Nat
  OBVIOUS
<1>2. s \in Bijection(1..Len(s), Elements(s))
  BY <1>1 DEF Distinct, Elements, Bijection, Injection, IsInjective, Surjection
<1>3. IsFiniteSet(1..Len(s)) /\ Cardinality(1..Len(s)) = Len(s)
  BY <1>1, FS_Interval
<1>4. Cardinality(Elements(s)) = Len(s)
  BY <1>2, <1>3, FS_Bijection DEF ExistsBijection
<1> QED BY <1>4

\* A key at the end of a sequence that does not hold it.
LEMMA Appended ==
  ASSUME NEW S, NEW s \in Seq(S), Distinct(s), NEW k \in S, k \notin Elements(s)
  PROVE  /\ Append(s, k) \in Seq(S) /\ Distinct(Append(s, k)) /\ Len(Append(s, k)) = Len(s) + 1
         /\ Elements(Append(s, k)) = Elements(s) \cup {k}
<1> DEFINE t == Append(s, k)
<1>1. /\ t \in Seq(S) /\ Len(t) = Len(s) + 1 /\ Len(s) \in Nat
      /\ DOMAIN t = 1..(Len(s) + 1) /\ DOMAIN s = 1..Len(s)
      /\ t[Len(s) + 1] = k /\ \A i \in 1..Len(s) : t[i] = s[i]
  OBVIOUS
<1> HIDE DEF t
<1>2. \A i \in DOMAIN t : i = Len(s) + 1 \/ i \in 1..Len(s)
  BY <1>1
<1>3. Distinct(t)
  BY <1>1, <1>2 DEF Distinct, Elements
<1>4. Elements(t) = Elements(s) \cup {k}
  BY <1>1, <1>2 DEF Elements
<1> QED BY <1>1, <1>3, <1>4 DEF t

\* A set of places that holds all the places before one it holds is a first piece.
LEMMA FirstPiece ==
  ASSUME NEW n \in Nat, NEW S \in SUBSET (1..n),
         \A i \in S, j \in 1..n : j <= i => j \in S
  PROVE  Cardinality(S) \in 0..n /\ S = 1..Cardinality(S)
<1>1. IsFiniteSet(1..n) /\ Cardinality(1..n) = n
  BY FS_Interval
<1>2. IsFiniteSet(S) /\ Cardinality(S) <= n
  BY <1>1, FS_Subset
<1>3. Cardinality(S) \in Nat
  BY <1>2, FS_CardinalityType
<1> DEFINE m == Cardinality(S)
<1>4. ASSUME NEW i \in S PROVE i \in 1..m
  <2>1. i \in Nat /\ i >= 1 /\ i <= n
    OBVIOUS
  <2>2. (1..i) \in SUBSET S
    BY <2>1
  <2>3. Cardinality(1..i) = i
    BY <2>1, FS_Interval
  <2>4. Cardinality(1..i) <= Cardinality(S)
    BY <1>2, <2>2, FS_Subset
  <2> QED BY <2>1, <2>3, <2>4, <1>3
<1>5. IsFiniteSet(1..m) /\ Cardinality(1..m) = m
  BY <1>3, FS_Interval
<1>6. S \in SUBSET (1..m)
  BY <1>4
<1>7. S = 1..m
  BY <1>5, <1>6, FS_Subset
<1> QED BY <1>2, <1>3, <1>7

-----------------------------------------------------------------------------
(* What proofs by induction over data rest on, for the heap and the folds: the      *)
(* theorems of the library on recursion take operators for parameters.             *)

\* A set of natural numbers that is not empty has a least member: what proofs by
\* induction start from, with the numbers of the counterexamples as the set.
LEMMA LeastElement ==
  ASSUME NEW T, T \subseteq Nat, T # {}
  PROVE  \E x \in T : \A y \in T : x <= y
<1> DEFINE Below == OpToRel(<, Nat)
<1>1. \A x, y \in Nat : y < x => <<y, x>> \in Below
  BY DEF OpToRel
<1>2. IsWellFoundedOn(Below, Nat)
  BY NatLessThanWellFounded
<1> HIDE DEF Below
<1>3. PICK x \in T : \A y \in T : ~ (<<y, x>> \in Below)
  BY <1>2, WFMin
<1>4. ASSUME NEW y \in T PROVE x <= y
  <2>1. x \in Nat /\ y \in Nat
    OBVIOUS
  <2>2. ~ (y < x)
    BY <2>1, <1>1, <1>3, Zenon
  <2> QED
    BY <2>1, <2>2
<1> QED
  BY <1>4

\* What is reached from x by next, without passing what is done.
Reached(S, done, next, x) ==
  {y \in S : \A U \in SUBSET S :
     x \in U /\ (\A z \in U : z \notin done => next[z] \in U) => y \in U}

\* Of what is done only x itself is reached from it ...
LEMMA ReachedSelf ==
  ASSUME NEW S, NEW done, NEW next \in [S -> S], NEW x \in S, x \in done
  PROVE  Reached(S, done, next, x) \cap done = {x}
<1>1. x \in Reached(S, done, next, x)
  BY DEF Reached
<1>2. ASSUME NEW y \in Reached(S, done, next, x) PROVE y = x
  BY {x} \in SUBSET S DEF Reached
<1> QED
  BY <1>1, <1>2

\* ... and x reaches what its next reaches.
LEMMA ReachedNext ==
  ASSUME NEW S, NEW done, NEW next \in [S -> S], NEW x \in S, x \notin done
  PROVE  Reached(S, done, next, x) \cap done = Reached(S, done, next, next[x]) \cap done
<1> DEFINE R == Reached(S, done, next, x)
           Q == Reached(S, done, next, next[x])
<1>1. next[x] \in S
  OBVIOUS
<1>2. Q \subseteq R
  BY <1>1 DEF Reached
<1>3. R \subseteq {x} \cup Q
  <2> DEFINE U == {x} \cup Q
  <2>1. U \in SUBSET S
    BY DEF Reached
  <2>2. next[x] \in Q
    BY <1>1 DEF Reached
  <2>3. ASSUME NEW z \in Q, z \notin done PROVE next[z] \in Q
    BY <2>3 DEF Reached
  <2>4. \A z \in U : z \notin done => next[z] \in U
    BY <2>2, <2>3
  <2> HIDE DEF U
  <2>5. x \in U
    BY DEF U
  <2>6. R \subseteq U
    BY <2>1, <2>4, <2>5 DEF Reached
  <2> QED
    BY <2>6 DEF U
<1> QED
  BY <1>2, <1>3

\* f is defined on S by a tail recursion: it is res where that is done, and else
\* its own value at the next.
TailCalls(f, S, done, next, res) ==
  f = [x \in S |-> IF x \in done THEN res[x] ELSE f[next[x]]]

\* There is such a function, whether or not the recursion ends: it takes the value
\* of something done that is reached, if there is any.
LEMMA TailRecursion ==
  ASSUME NEW S, NEW done, NEW next \in [S -> S], NEW res
  PROVE \E f : TailCalls(f, S, done, next, res)
<1> DEFINE End(x) == CHOOSE y : y \in Reached(S, done, next, x) \cap done
           f == [x \in S |-> res[End(x)]]
<1>1. ASSUME NEW x \in S, x \in done PROVE End(x) = x
  BY <1>1, ReachedSelf
<1>2. ASSUME NEW x \in S, x \notin done PROVE End(x) = End(next[x])
  BY <1>2, ReachedNext
<1> HIDE DEF End
<1>3. \A x \in S : f[x] = IF x \in done THEN res[x] ELSE f[next[x]]
  BY <1>1, <1>2
<1>4. f = [x \in S |-> IF x \in done THEN res[x] ELSE f[next[x]]]
  BY <1>3
<1> QED
  BY <1>4, Zenon DEF TailCalls

-----------------------------------------------------------------------------
(* Folds over the subsets of a finite set, and sums.                         *)

\* f is a fold over the subsets of S: the base at the empty set, and else a step from
\* the member that is chosen and the fold of the others.
Folding(f, S, base, choice, step) ==
  f = [s \in SUBSET S |->
         IF s = {} THEN base ELSE step[<<choice[s], f[s \ {choice[s]}]>>]]

\* What a fold needs: it chooses among the members, and steps among the values.
Chooses(choice, S) == \A s \in SUBSET S : s # {} => choice[s] \in s
StaysIn(step, S, V) == \A x \in S : \A v \in V : step[<<x, v>>] \in V
HasFold(S, V, base, choice, step) ==
  \E f \in [SUBSET S -> V] : Folding(f, S, base, choice, step)

\* A subset without one of its members is smaller.
LEMMA OneLess ==
  ASSUME NEW S, IsFiniteSet(S), NEW s \in SUBSET S, NEW x \in s
  PROVE  /\ s \ {x} \in SUBSET S
         /\ Cardinality(s) \in Nat /\ Cardinality(s \ {x}) \in Nat
         /\ Cardinality(s) = Cardinality(s \ {x}) + 1
<1>1. IsFiniteSet(s)
  BY FS_Subset
<1>2. IsFiniteSet(s \ {x}) /\ Cardinality(s \ {x}) = Cardinality(s) - 1
  BY <1>1, FS_RemoveElement
<1> QED
  BY <1>1, <1>2, FS_CardinalityType

\* There is a fold over a finite set, and it stays among the values the step keeps.
LEMMA FoldExists ==
  ASSUME NEW S, IsFiniteSet(S), NEW V, NEW base \in V,
         NEW choice, Chooses(choice, S), NEW step, StaysIn(step, S, V)
  PROVE  HasFold(S, V, base, choice, step)
<1> DEFINE Unfolded(f, s) == IF s = {} THEN base ELSE step[<<choice[s], f[s \ {choice[s]}]>>]
           Holds(f, n) == \A s \in SUBSET S : Cardinality(s) <= n => f[s] = Unfolded(f, s)
           Wrong == {n \in Nat : ~ \E f \in [SUBSET S -> V] : Holds(f, n)}
<1>1. ASSUME NEW f \in [SUBSET S -> V], NEW s \in SUBSET S PROVE Unfolded(f, s) \in V
  <2>1. CASE s = {}
    BY <2>1
  <2>2. CASE s # {}
    <3>1. choice[s] \in s /\ choice[s] \in S
      BY <2>2 DEF Chooses
    <3>2. f[s \ {choice[s]}] \in V
      OBVIOUS
    <3> QED
      BY <2>2, <3>1, <3>2 DEF StaysIn
  <2> QED
    BY <2>1, <2>2
<1>2. \E f \in [SUBSET S -> V] : Holds(f, 0)
  <2> DEFINE f == [s \in SUBSET S |-> base]
  <2>1. f \in [SUBSET S -> V]
    OBVIOUS
  <2>2. ASSUME NEW s \in SUBSET S, Cardinality(s) <= 0 PROVE s = {}
    <3>1. IsFiniteSet(s)
      BY FS_Subset
    <3> QED
      BY <2>2, <3>1, FS_EmptySet, FS_CardinalityType
  <2>3. Holds(f, 0)
    BY <2>2
  <2> HIDE DEF f, Holds
  <2> QED
    BY <2>1, <2>3
<1>3. ASSUME NEW n \in Nat, NEW f \in [SUBSET S -> V], Holds(f, n)
      PROVE  \E g \in [SUBSET S -> V] : Holds(g, n + 1)
  <2> DEFINE g == [s \in SUBSET S |-> Unfolded(f, s)]
  <2>1. g \in [SUBSET S -> V]
    <3> HIDE DEF Unfolded
    <3> QED
      BY <1>1
  <2>2. ASSUME NEW s \in SUBSET S, Cardinality(s) <= n + 1 PROVE g[s] = Unfolded(g, s)
    <3>1. CASE s = {}
      BY <3>1
    <3>2. CASE s # {}
      <4> DEFINE t == s \ {choice[s]}
      <4>1. choice[s] \in s
        BY <3>2 DEF Chooses
      <4>2. t \in SUBSET S /\ Cardinality(t) <= n
        BY <4>1, <2>2, OneLess
      <4>3. g[t] = f[t]
        BY <1>3, <4>2
      <4>4. g[s] = step[<<choice[s], f[t]>>]
        BY <3>2
      <4> HIDE DEF g
      <4> QED
        BY <3>2, <4>3, <4>4
    <3> QED
      BY <3>1, <3>2
  <2>3. Holds(g, n + 1)
    <3> HIDE DEF g, Unfolded
    <3> QED
      BY <2>2
  <2> HIDE DEF g, Holds
  <2> QED
    BY <2>1, <2>3
<1>4. Wrong = {}
  <2> SUFFICES ASSUME Wrong # {} PROVE FALSE
    OBVIOUS
  <2> HIDE DEF Holds
  <2>1. Wrong \subseteq Nat
    OBVIOUS
  <2>2. PICK n \in Wrong : \A m \in Wrong : n <= m
    <3> HIDE DEF Wrong
    <3> QED
      BY <2>1, LeastElement
  <2>3. n # 0 /\ n \in Nat
    BY <1>2
  <2>4. n - 1 \in Nat /\ n - 1 \notin Wrong
    <3> HIDE DEF Wrong
    <3> QED
      BY <2>2, <2>3
  <2>5. PICK f \in [SUBSET S -> V] : Holds(f, n - 1)
    BY <2>4
  <2>6. \E g \in [SUBSET S -> V] : Holds(g, (n - 1) + 1)
    BY <1>3, <2>4, <2>5
  <2>7. (n - 1) + 1 = n
    BY <2>3
  <2> QED
    BY <2>2, <2>6, <2>7
<1>5. Cardinality(S) \in Nat /\ \A s \in SUBSET S : Cardinality(s) <= Cardinality(S)
  BY FS_Subset, FS_CardinalityType
<1>6. PICK f \in [SUBSET S -> V] : Holds(f, Cardinality(S))
  <2> HIDE DEF Holds
  <2> QED
    BY <1>4, <1>5
<1>7. \A s \in SUBSET S : f[s] = Unfolded(f, s)
  BY <1>5, <1>6
<1>8. f = [s \in SUBSET S |-> Unfolded(f, s)]
  <2> HIDE DEF Unfolded
  <2> QED
    BY <1>7
<1>9. Folding(f, S, base, choice, step)
  BY <1>8 DEF Folding
<1> QED
  BY <1>9 DEF HasFold

-----------------------------------------------------------------------------
Chosen(s) == CHOOSE x \in s : TRUE

\* f takes the sum of g over each subset of S.
Summing(f, g, S) ==
  f = [s \in SUBSET S |-> IF s = {} THEN 0 ELSE g[Chosen(s)] + f[s \ {Chosen(s)}]]

\* Every function to numbers on a finite set has a sum.
LEMMA SumExists ==
  ASSUME NEW S, IsFiniteSet(S), NEW g \in [S -> Nat]
  PROVE  \E f : Summing(f, g, S)
<1> DEFINE choice == [s \in SUBSET S |-> Chosen(s)]
           step == [xv \in S \X Nat |-> g[xv[1]] + xv[2]]
           Step(s, f) == step[<<choice[s], f[s \ {choice[s]}]>>]
<1>1. \A s \in SUBSET S : s # {} => choice[s] \in s
  BY DEF Chosen
<1>2. \A x \in S : \A v \in Nat : step[<<x, v>>] \in Nat /\ step[<<x, v>>] = g[x] + v
  OBVIOUS
<1>3. \A s \in SUBSET S : choice[s] = Chosen(s)
  OBVIOUS
<1> HIDE DEF choice, step
<1>4. PICK f \in [SUBSET S -> Nat] : Folding(f, S, 0, choice, step)
  <2> DEFINE zero == 0
  <2>1. zero \in Nat
    OBVIOUS
  <2>2. Chooses(choice, S) /\ StaysIn(step, S, Nat)
    BY <1>1, <1>2 DEF Chooses, StaysIn
  <2> HIDE DEF zero
  <2>3. HasFold(S, Nat, zero, choice, step)
    BY <2>1, <2>2, FoldExists
  <2> QED
    BY <2>3 DEF zero, HasFold
<1>5. ASSUME NEW s \in SUBSET S
      PROVE  f[s] = IF s = {} THEN 0 ELSE g[Chosen(s)] + f[s \ {Chosen(s)}]
  <2>1. f[s] = IF s = {} THEN 0 ELSE step[<<choice[s], f[s \ {choice[s]}]>>]
    BY <1>4 DEF Folding
  <2>2. CASE s # {}
    <3>1. choice[s] \in S /\ choice[s] = Chosen(s) /\ f[s \ {choice[s]}] \in Nat
      BY <1>1, <1>3, <2>2
    <3>2. step[<<choice[s], f[s \ {choice[s]}]>>] = g[choice[s]] + f[s \ {choice[s]}]
      BY <1>2, <3>1
    <3> QED
      BY <2>1, <2>2, <3>1, <3>2
  <2> QED
    BY <2>1, <2>2
<1>6. f = [s \in SUBSET S |-> IF s = {} THEN 0 ELSE g[Chosen(s)] + f[s \ {Chosen(s)}]]
  BY <1>5
<1> QED
  BY <1>6 DEF Summing

\* Sums of natural numbers are natural numbers.
LEMMA SumIsNat ==
  ASSUME NEW S, IsFiniteSet(S), NEW g \in [S -> Nat], NEW f, Summing(f, g, S)
  PROVE  f \in [SUBSET S -> Nat]
<1> DEFINE Wrong == {Cardinality(s) : s \in {t \in SUBSET S : f[t] \notin Nat}}
<1>1. \A s \in SUBSET S : IsFiniteSet(s) /\ Cardinality(s) \in Nat
  BY FS_Subset, FS_CardinalityType
<1>2. Wrong = {}
  <2> SUFFICES ASSUME Wrong # {} PROVE FALSE
    OBVIOUS
  <2>1. Wrong \subseteq Nat
    BY <1>1
  <2>2. PICK n \in Wrong : \A m \in Wrong : n <= m
    <3> HIDE DEF Wrong
    <3> QED
      BY <2>1, LeastElement
  <2>3. PICK s \in SUBSET S : f[s] \notin Nat /\ Cardinality(s) = n
    OBVIOUS
  <2>4. f[s] = IF s = {} THEN 0 ELSE g[Chosen(s)] + f[s \ {Chosen(s)}]
    BY DEF Summing
  <2>5. s # {}
    BY <2>3, <2>4
  <2>6. Chosen(s) \in s /\ Chosen(s) \in S
    BY <2>5 DEF Chosen
  <2>7. f[s \ {Chosen(s)}] \notin Nat
    BY <2>3, <2>4, <2>5, <2>6
  <2>8. /\ s \ {Chosen(s)} \in SUBSET S /\ Cardinality(s) \in Nat
        /\ Cardinality(s \ {Chosen(s)}) \in Nat /\ Cardinality(s) = Cardinality(s \ {Chosen(s)}) + 1
    BY <2>6, OneLess
  <2>9. Cardinality(s \ {Chosen(s)}) \in Wrong
    BY <2>7, <2>8
  <2> HIDE DEF Wrong
  <2>10. n <= Cardinality(s \ {Chosen(s)})
    BY <2>2, <2>9
  <2>11. n = Cardinality(s \ {Chosen(s)}) + 1
    BY <2>3, <2>8
  <2> DEFINE m == Cardinality(s \ {Chosen(s)})
  <2>12. m \in Nat /\ n <= m /\ n = m + 1
    BY <2>8, <2>10, <2>11
  <2> HIDE DEF m
  <2> QED
    BY <2>12
<1>3. \A s \in SUBSET S : f[s] \in Nat
  BY <1>2
<1> QED
  BY <1>3 DEF Summing

\* A member counts once, whatever the order.
LEMMA SumOne ==
  ASSUME NEW S, IsFiniteSet(S), NEW g \in [S -> Nat], NEW f, Summing(f, g, S),
         NEW s \in SUBSET S, NEW x \in s
  PROVE  f[s] = g[x] + f[s \ {x}]
<1> DEFINE Bad(t) == \E y \in t : f[t] # g[y] + f[t \ {y}]
           Wrong == {Cardinality(t) : t \in {u \in SUBSET S : Bad(u)}}
<1>1. \A t \in SUBSET S : IsFiniteSet(t) /\ Cardinality(t) \in Nat
  BY FS_Subset, FS_CardinalityType
<1>2. f \in [SUBSET S -> Nat]
  BY SumIsNat
<1>3. Wrong = {}
  <2> SUFFICES ASSUME Wrong # {} PROVE FALSE
    OBVIOUS
  <2>1. Wrong \subseteq Nat
    BY <1>1
  <2>2. PICK n \in Wrong : \A m \in Wrong : n <= m
    <3> HIDE DEF Wrong
    <3> QED
      BY <2>1, LeastElement
  <2>3. PICK t \in SUBSET S : Bad(t) /\ Cardinality(t) = n
    OBVIOUS
  <2>4. PICK y \in t : f[t] # g[y] + f[t \ {y}]
    BY <2>3
  <2> DEFINE z == Chosen(t)
  <2>5. z \in t /\ t # {}
    BY DEF Chosen
  <2>6. f[t] = g[z] + f[t \ {z}]
    BY <2>5 DEF Summing
  <2>7. y # z
    BY <2>4, <2>6
  <2> HIDE DEF z
  <2>8. ASSUME NEW u \in SUBSET S, NEW w \in u, Cardinality(u) < n
        PROVE  f[u] = g[w] + f[u \ {w}]
    <3>1. Cardinality(u) \notin Wrong
      <4> HIDE DEF Wrong
      <4>1. Cardinality(u) \in Nat /\ n \in Nat
        BY <1>1, <2>1, <2>2
      <4> QED
        BY <2>2, <2>8, <4>1
    <3>2. ~ Bad(u)
      BY <3>1
    <3> QED
      BY <3>2
  <2>9. \A w \in t : t \ {w} \in SUBSET S /\ Cardinality(t \ {w}) < n
    BY <2>3, OneLess
  <2>10. y \in t \ {z} /\ z \in t \ {y}
    BY <2>5, <2>7
  <2>11. f[t \ {z}] = g[y] + f[(t \ {z}) \ {y}]
    BY <2>5, <2>8, <2>9, <2>10
  <2>12. f[t \ {y}] = g[z] + f[(t \ {y}) \ {z}]
    BY <2>5, <2>8, <2>9, <2>10
  <2>13. (t \ {y}) \ {z} = (t \ {z}) \ {y}
    OBVIOUS
  <2>14. g[y] \in Nat /\ g[z] \in Nat /\ f[(t \ {z}) \ {y}] \in Nat
    <3>1. (t \ {z}) \ {y} \in SUBSET S
      OBVIOUS
    <3> QED
      BY <1>2, <2>5, <3>1
  <2> HIDE DEF Wrong
  <2>15. f[t] = g[y] + f[t \ {y}]
    <3> DEFINE rest == f[(t \ {z}) \ {y}]
    <3>1. f[t] = g[z] + f[t \ {z}] /\ f[t \ {z}] = g[y] + rest /\ f[t \ {y}] = g[z] + rest
      BY <2>6, <2>11, <2>12, <2>13
    <3>2. g[y] \in Nat /\ g[z] \in Nat /\ rest \in Nat
      BY <2>14
    <3> HIDE DEF rest
    <3> QED
      BY <3>1, <3>2
  <2> QED
    BY <2>4, <2>15
<1>4. ~ Bad(s)
  BY <1>3
<1> QED
  BY <1>4

\* A sum with any element set apart.
LEMMA SumSplit ==
  ASSUME NEW S, IsFiniteSet(S), NEW g \in [S -> Nat], NEW f, Summing(f, g, S),
         NEW s \in SUBSET S, NEW x
  PROVE  f[s] = (IF x \in s THEN g[x] ELSE 0) + f[s \ {x}]
<1>1. CASE x \in s
  BY <1>1, SumOne
<1>2. CASE x \notin s
  <2>1. s \ {x} = s
    BY <1>2
  <2>2. f \in [SUBSET S -> Nat]
    BY SumIsNat
  <2>3. f[s] \in Nat
    BY <2>2
  <2> QED
    BY <1>2, <2>1, <2>3
<1> QED
  BY <1>1, <1>2

\* The sum over nothing.
LEMMA SumEmpty ==
  ASSUME NEW S, NEW g, NEW f, Summing(f, g, S)
  PROVE  f[{}] = 0
BY DEF Summing

\* What a sum over everything leaves out where it adds nothing.
LEMMA SumRestricted ==
  ASSUME NEW S, IsFiniteSet(S), NEW g \in [S -> Nat], NEW A \in SUBSET S,
         NEW h \in [S -> Nat], \A x \in S : h[x] = IF x \in A THEN g[x] ELSE 0,
         NEW f, Summing(f, g, S), NEW e, Summing(e, h, S)
  PROVE  e[S] = f[A]
<1> DEFINE Wrong == {Cardinality(s) : s \in {t \in SUBSET S : e[t] # f[t \cap A]}}
<1>1. \A s \in SUBSET S : IsFiniteSet(s) /\ Cardinality(s) \in Nat
  BY FS_Subset, FS_CardinalityType
<1>2. Wrong = {}
  <2> SUFFICES ASSUME Wrong # {} PROVE FALSE
    OBVIOUS
  <2>1. Wrong \subseteq Nat
    BY <1>1
  <2>2. PICK n \in Wrong : \A m \in Wrong : n <= m
    <3> HIDE DEF Wrong
    <3> QED
      BY <2>1, LeastElement
  <2>3. PICK s \in SUBSET S : e[s] # f[s \cap A] /\ Cardinality(s) = n
    OBVIOUS
  <2>4. s # {}
    BY <2>3, SumEmpty
  <2>5. PICK x : x \in s
    BY <2>4
  <2> DEFINE t == s \ {x}
  <2>6. t \in SUBSET S /\ Cardinality(s) = Cardinality(t) + 1 /\ Cardinality(t) \in Nat
    BY <2>5, OneLess
  <2>7. Cardinality(t) \notin Wrong
    <3> DEFINE m == Cardinality(t)
    <3>1. n = m + 1 /\ m \in Nat
      BY <2>3, <2>6
    <3>2. ASSUME m \in Wrong PROVE FALSE
      <4>1. n <= m
        <5> HIDE DEF m, Wrong
        <5> QED
          BY <2>2, <3>2
      <4>2. n \in Int /\ ~ (m + 1 <= m)
        <5> HIDE DEF m, Wrong
        <5> QED
          BY <2>1, <3>1
      <4> HIDE DEF m, Wrong
      <4> QED
        BY <3>1, <4>1, <4>2
    <3> HIDE DEF Wrong
    <3> QED
      BY <3>2
  <2>8. e[t] = f[t \cap A]
    BY <2>6, <2>7
  <2>9. e[s] = h[x] + e[t]
    BY <2>5, SumOne
  <2>10. CASE x \in A
    <3>1. f[s \cap A] = g[x] + f[(s \cap A) \ {x}]
      BY <2>5, <2>10, SumOne
    <3>2. (s \cap A) \ {x} = t \cap A
      OBVIOUS
    <3> QED
      <4>1. h[x] = g[x]
        BY <2>5, <2>10
      <4>2. f[s \cap A] = g[x] + f[t \cap A]
        BY <3>1, <3>2
      <4> HIDE DEF t
      <4> QED
        BY <2>3, <2>8, <2>9, <4>1, <4>2
  <2>11. CASE x \notin A
    <3>1. s \cap A = t \cap A
      BY <2>11
    <3>2. e[t] \in Nat
      <4>1. e \in [SUBSET S -> Nat]
        BY SumIsNat
      <4> HIDE DEF t
      <4> QED
        BY <2>6, <4>1
    <3>3. h[x] = 0 /\ e[s] = e[t]
      BY <2>5, <2>9, <2>11, <3>2
    <3> HIDE DEF t
    <3> QED
      BY <2>3, <2>8, <3>1, <3>3
  <2> QED
    BY <2>10, <2>11
<1>3. e[S] = f[S \cap A]
  <2> SUFFICES ASSUME e[S] # f[S \cap A] PROVE FALSE
    OBVIOUS
  <2>1. Cardinality(S) \in Wrong
    OBVIOUS
  <2> HIDE DEF Wrong
  <2> QED
    BY <1>2, <2>1
<1> QED
  BY <1>3
=============================================================================
