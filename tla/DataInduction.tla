---------------------------- MODULE DataInduction ----------------------------
(***************************************************************************)
(* Induction over data, and functions defined by recursion.                *)
(*                                                                         *)
(* The induction theorems of the library are about an operator P(_); here  *)
(* induction is about a set of numbers, which every prover can handle.  It *)
(* rests on the order of Nat being well founded.  A recursive function     *)
(* f[p \in S] == ... is CHOOSE f : f = [p \in S |-> ... f ...]: the lemmas *)
(* below say that there is one, for the two forms of recursion the models  *)
(* use.                                                                    *)
(***************************************************************************)
EXTENDS SequenceFilter, SequenceTheorems, WellFoundedInduction, TLAPS

(* Every set of natural numbers that is not empty has a least element. *)
LEMMA LeastElement ==
  ASSUME NEW T \in SUBSET Nat, T # {}
  PROVE  \E n \in T : \A m \in T : n <= m
<1> DEFINE R == OpToRel(<, Nat)
<1>1. \E n \in T : \A m \in T : <<m, n>> \notin R
  BY WFMin, NatLessThanWellFounded, Zenon
<1>2. \A m, n \in Nat : m < n => <<m, n>> \in R
  BY DEF OpToRel
<1> HIDE DEF R
<1>3. PICK n \in T : \A m \in T : <<m, n>> \notin R
  BY <1>1
<1>4. ASSUME NEW m \in T PROVE n <= m
  <2>1. ~(m < n)
    BY <1>2, <1>3
  <2> QED
    BY <2>1
<1> QED
  BY <1>4

(* Induction on the natural numbers, for a set. *)
LEMMA SetInduction ==
  ASSUME NEW S, 0 \in S, \A n \in Nat : n \in S => n + 1 \in S
  PROVE  Nat \subseteq S
<1> SUFFICES ASSUME Nat \ S # {} PROVE FALSE
  OBVIOUS
<1>1. PICK n \in Nat \ S : \A m \in Nat \ S : n <= m
  BY LeastElement
<1>2. n - 1 \in Nat /\ n - 1 \in S
  BY <1>1
<1> QED
  BY <1>1, <1>2
-----------------------------------------------------------------------------
(* A recursion that goes from p to the larger next[p], until it meets Ends, and
   puts item[p] before what it finds there. *)
Climbs(f, E, Ends, item, next) ==
  f = [p \in 0..E |-> IF p \in Ends THEN <<>> ELSE item[p] \o f[next[p]]]

(* There is such a function ... *)
LEMMA ClimbDefined ==
  ASSUME NEW E \in Nat, NEW Ends, NEW item, NEW next,
         \A p \in 0..E : p \notin Ends => next[p] \in (p + 1)..E
  PROVE  \E f : Climbs(f, E, Ends, item, next)
<1> USE DEF Climbs
<1> DEFINE From(k) == {p \in 0..E : p + k >= E}
           Def(f, k) ==
             f = [p \in From(k) |-> IF p \in Ends THEN <<>> ELSE item[p] \o f[next[p]]]
           S == {k \in Nat : \E f : Def(f, k)}
<1>1. 0 \in S
  <2>1. \A p \in From(0) : p \in Ends
    OBVIOUS
  <2>2. Def([p \in From(0) |-> <<>>], 0)
    BY <2>1
  <2> QED
    BY <2>2
<1>2. ASSUME NEW k \in Nat, k \in S PROVE k + 1 \in S
  <2>1. PICK f : Def(f, k)
    BY <1>2
  <2> DEFINE g == [p \in From(k + 1) |->
                     IF p \in Ends THEN <<>> ELSE item[p] \o f[next[p]]]
  <2>2. \A p \in From(k + 1) : p \notin Ends => next[p] \in From(k)
    OBVIOUS
  <2>3. \A p \in From(k) : p \in From(k + 1)
    OBVIOUS
  <2>4. \A p \in From(k) : f[p] = IF p \in Ends THEN <<>> ELSE item[p] \o f[next[p]]
    BY <2>1
  <2>5. \A p \in From(k) : g[p] = f[p]
    BY <2>3, <2>4
  <2>6. Def(g, k + 1)
    BY <2>2, <2>5
  <2>7. k + 1 \in Nat
    OBVIOUS
  <2> HIDE DEF Def, g
  <2> QED
    BY <2>6, <2>7
<1>3. E \in S
  BY <1>1, <1>2, SetInduction
<1>4. From(E) = 0..E
  OBVIOUS
<1> QED
  BY <1>3, <1>4

(* ... and it maps every p to a sequence of items. *)
LEMMA ClimbTyped ==
  ASSUME NEW E \in Nat, NEW Ends, NEW item, NEW next, NEW T, NEW f,
         \A p \in 0..E : p \notin Ends => next[p] \in (p + 1)..E /\ item[p] \in Seq(T),
         Climbs(f, E, Ends, item, next)
  PROVE  f \in [0..E -> Seq(T)]
<1> USE DEF Climbs
<1> DEFINE S == {k \in Nat : \A p \in 0..E : p + k >= E => f[p] \in Seq(T)}
<1>0. \A p \in 0..E : f[p] = IF p \in Ends THEN <<>> ELSE item[p] \o f[next[p]]
  OBVIOUS
<1> HIDE DEF S
<1>1. 0 \in S
  <2>1. \A p \in 0..E : p + 0 >= E => f[p] = <<>>
    BY <1>0
  <2> QED
    BY <2>1 DEF S
<1>2. ASSUME NEW k \in Nat, k \in S PROVE k + 1 \in S
  <2>1. ASSUME NEW p \in 0..E, p + (k + 1) >= E, p \notin Ends PROVE f[p] \in Seq(T)
    <3>1. f[next[p]] \in Seq(T)
      BY <1>2, <2>1 DEF S
    <3>2. item[p] \in Seq(T)
      BY <2>1
    <3>3. item[p] \o f[next[p]] \in Seq(T)
      BY ONLY <3>1, <3>2, ConcatProperties
    <3>4. f[p] = item[p] \o f[next[p]]
      BY <1>0, <2>1
    <3> QED
      BY ONLY <3>3, <3>4
  <2> QED
    BY <1>0, <2>1 DEF S
<1>3. E \in S
  BY <1>1, <1>2, SetInduction
<1> QED
  BY <1>3 DEF S
-----------------------------------------------------------------------------
(* Kept is defined, and what its recursion says. *)
IsKept(f, s, K, E) ==
  f = [n \in 0..E |-> IF n = 0 THEN <<>>
                      ELSE IF s[n] \in K THEN Append(f[n - 1], s[n]) ELSE f[n - 1]]

(* There is such a function, by induction on its domain. *)
LEMMA KeptDefined ==
  ASSUME NEW s, NEW K, NEW E \in Nat
  PROVE  \E f : IsKept(f, s, K, E)
<1> USE DEF IsKept
<1> DEFINE Def(f, k) == IsKept(f, s, K, k)
           S == {k \in Nat : \E f : Def(f, k)}
<1>1. 0 \in S
  <2>1. Def([n \in 0..0 |-> <<>>], 0)
    OBVIOUS
  <2> QED
    BY <2>1
<1>2. ASSUME NEW k \in Nat, k \in S PROVE k + 1 \in S
  <2>1. PICK f : Def(f, k)
    BY <1>2
  <2> DEFINE g == [n \in 0..(k + 1) |-> IF n = 0 THEN <<>>
                                        ELSE IF s[n] \in K THEN Append(f[n - 1], s[n])
                                        ELSE f[n - 1]]
  <2>2. \A n \in 0..k : f[n] = IF n = 0 THEN <<>>
                               ELSE IF s[n] \in K THEN Append(f[n - 1], s[n])
                               ELSE f[n - 1]
    BY <2>1
  <2>3. \A n \in 0..k : g[n] = f[n]
    BY <2>2
  <2>4. \A n \in 0..(k + 1) : n # 0 => n - 1 \in 0..k
    OBVIOUS
  <2>5. Def(g, k + 1)
    BY <2>3, <2>4
  <2>6. k + 1 \in Nat
    OBVIOUS
  <2> HIDE DEF Def, g
  <2> QED
    BY <2>5, <2>6
<1>3. E \in S
  BY <1>1, <1>2, SetInduction
<1> QED
  BY <1>3

KeptBy(f, s, K) ==
  /\ f[0] = <<>>
  /\ \A n \in 1..Len(s) : f[n] = IF s[n] \in K THEN Append(f[n - 1], s[n]) ELSE f[n - 1]

(* KeptUpTo is one, so it has the values its recursion gives. *)
LEMMA KeptUnfolds ==
  ASSUME NEW S, NEW s \in Seq(S), NEW K
  PROVE  KeptBy(KeptUpTo(s, K), s, K)
<1> DEFINE f == KeptUpTo(s, K)
<1>1. Len(s) \in Nat
  OBVIOUS
<1>2. \E h : IsKept(h, s, K, Len(s))
  BY <1>1, KeptDefined, Zenon
<1>3. f = [n \in 0..Len(s) |-> IF n = 0 THEN <<>>
                               ELSE IF s[n] \in K THEN Append(f[n - 1], s[n])
                               ELSE f[n - 1]]
  BY <1>2, Zenon DEF KeptUpTo, IsKept
<1> HIDE DEF f
<1>4. \A n \in 0..Len(s) : f[n] = IF n = 0 THEN <<>>
                                  ELSE IF s[n] \in K THEN Append(f[n - 1], s[n])
                                  ELSE f[n - 1]
  BY <1>3
<1>5. f[0] = <<>>
  BY <1>1, <1>4
<1>6. \A n \in 1..Len(s) : n \in 0..Len(s) /\ n # 0
  BY <1>1
<1>7. KeptBy(f, s, K)
  BY <1>4, <1>5, <1>6 DEF KeptBy
<1> QED
  BY <1>7 DEF f

(* What is kept of a sequence over S is one, ... *)
LEMMA KeptTyped ==
  ASSUME NEW S, NEW s \in Seq(S), NEW K
  PROVE  Kept(s, K) \in Seq(S)
<1> DEFINE f == KeptUpTo(s, K)
           N == {n \in Nat : n <= Len(s) => f[n] \in Seq(S)}
<1>0. KeptBy(f, s, K)
  BY KeptUnfolds, Zenon
<1> HIDE DEF f
<1> USE DEF KeptBy
<1>1. 0 \in N
  <2>1. f[0] \in Seq(S)
    BY <1>0
  <2> QED
    BY <2>1
<1>2. ASSUME NEW n \in Nat, n \in N PROVE n + 1 \in N
  <2>1. CASE n + 1 <= Len(s)
    <3>1. n + 1 \in 1..Len(s) /\ (n + 1) - 1 = n /\ s[n + 1] \in S
      BY <2>1
    <3>2. f[n] \in Seq(S)
      BY <1>2, <2>1
    <3>3. f[n + 1] = IF s[n + 1] \in K THEN Append(f[n], s[n + 1]) ELSE f[n]
      BY <1>0, <3>1
    <3>4. f[n + 1] \in Seq(S)
      BY <3>1, <3>2, <3>3
    <3> QED
      BY <3>4
  <2> QED
    BY <2>1
<1>3. Nat \subseteq N
  BY <1>1, <1>2, SetInduction, Zenon
<1>4. f[Len(s)] \in Seq(S)
  BY <1>3
<1> QED
  BY <1>4 DEF Kept, f

(* ... and filtering goes element by element ... *)
LEMMA KeptEmpty == \A K : Kept(<<>>, K) = <<>>
<1> TAKE K
<1> DEFINE s == <<>>
<1>1. s \in Seq({}) /\ Len(s) = 0
  OBVIOUS
<1> HIDE DEF s
<1>2. KeptBy(KeptUpTo(s, K), s, K)
  BY <1>1, KeptUnfolds, Zenon
<1>3. Kept(s, K) = <<>>
  BY <1>1, <1>2 DEF Kept, KeptBy
<1> QED
  BY <1>3 DEF s

(* One more element is kept or not, behind those kept before. *)
LEMMA KeptAppend ==
  ASSUME NEW S, NEW s \in Seq(S), NEW e \in S, NEW K
  PROVE  Kept(Append(s, e), K) = IF e \in K THEN Append(Kept(s, K), e) ELSE Kept(s, K)
<1> DEFINE t == Append(s, e)
           f == KeptUpTo(s, K)
           g == KeptUpTo(t, K)
           N == {n \in Nat : n <= Len(s) => g[n] = f[n]}
<1>a. /\ t \in Seq(S) /\ Len(t) = Len(s) + 1 /\ t[Len(s) + 1] = e
      /\ \A i \in 1..Len(s) : t[i] = s[i]
      /\ Len(s) \in Nat
  OBVIOUS
<1> HIDE DEF t
<1>b. KeptBy(f, s, K) /\ KeptBy(g, t, K)
  BY <1>a, KeptUnfolds, Zenon
<1> HIDE DEF f, g
<1> USE DEF KeptBy
<1>1. 0 \in N
  BY <1>b
<1>2. ASSUME NEW n \in Nat, n \in N PROVE n + 1 \in N
  <2>1. CASE n + 1 <= Len(s)
    <3>1. n + 1 \in 1..Len(s) /\ n + 1 \in 1..Len(t) /\ (n + 1) - 1 = n
      BY <1>a, <2>1
    <3>2. g[n] = f[n] /\ t[n + 1] = s[n + 1]
      BY <1>a, <1>2, <2>1, <3>1
    <3>3. g[n + 1] = f[n + 1]
      BY <1>b, <3>1, <3>2
    <3> QED
      BY <3>3
  <2> QED
    BY <2>1
<1>3. Nat \subseteq N
  BY <1>1, <1>2, SetInduction, Zenon
<1>4. g[Len(s)] = f[Len(s)]
  BY <1>a, <1>3
<1>5. Len(t) \in 1..Len(t) /\ Len(t) - 1 = Len(s) /\ t[Len(t)] = e
  BY <1>a
<1>6. g[Len(t)] = IF e \in K THEN Append(g[Len(s)], e) ELSE g[Len(s)]
  BY <1>b, <1>5
<1> QED
  BY <1>4, <1>6 DEF Kept, t, f, g

(* A sequence cut in two. *)
LEMMA SequenceSplit ==
  ASSUME NEW S, NEW s \in Seq(S), NEW n \in 0..Len(s)
  PROVE  /\ SubSeq(s, 1, n) \in Seq(S) /\ SubSeq(s, n + 1, Len(s)) \in Seq(S)
         /\ s = SubSeq(s, 1, n) \o SubSeq(s, n + 1, Len(s))
<1> DEFINE a == SubSeq(s, 1, n)
           b == SubSeq(s, n + 1, Len(s))
<1>1. /\ a \in Seq(S) /\ b \in Seq(S)
      /\ Len(a) = n /\ Len(b) = Len(s) - n
      /\ \A i \in 1..n : a[i] = s[i]
      /\ \A i \in 1..(Len(s) - n) : b[i] = s[n + i]
  OBVIOUS
<1> HIDE DEF a, b
<1>2. /\ a \o b \in Seq(S) /\ Len(a \o b) = Len(s)
      /\ \A i \in 1..Len(s) : (a \o b)[i] = IF i <= n THEN a[i] ELSE b[i - n]
  BY <1>1
<1>3. ASSUME NEW i \in 1..Len(s) PROVE (a \o b)[i] = s[i]
  <2>1. CASE i <= n
    BY <1>1, <1>2, <2>1
  <2>2. CASE ~(i <= n)
    <3>1. i - n \in 1..(Len(s) - n) /\ n + (i - n) = i
      BY <2>2
    <3> QED
      BY <1>1, <1>2, <2>2, <3>1
  <2> QED
    BY <2>1, <2>2
<1>4. s = a \o b
  BY <1>2, <1>3, SeqEqual
<1> QED
  BY <1>1, <1>4 DEF a, b

(* Appending to the right operand of a concatenation. *)
LEMMA ConcatAppend ==
  ASSUME NEW S, NEW s \in Seq(S), NEW t \in Seq(S), NEW e \in S
  PROVE  s \o Append(t, e) = Append(s \o t, e)
OBVIOUS

(* ... and part by part. *)
LEMMA KeptConcat ==
  ASSUME NEW S, NEW s \in Seq(S), NEW t \in Seq(S), NEW K
  PROVE  Kept(s \o t, K) = Kept(s, K) \o Kept(t, K)
<1> DEFINE N == {n \in Nat : \A u \in Seq(S) :
                    Len(u) = n => Kept(s \o u, K) = Kept(s, K) \o Kept(u, K)}
<1>0. Kept(s, K) \in Seq(S)
  BY KeptTyped
<1>1. 0 \in N
  <2>1. ASSUME NEW u \in Seq(S), Len(u) = 0
        PROVE  Kept(s \o u, K) = Kept(s, K) \o Kept(u, K)
    <3>1. u = <<>>
      BY <2>1
    <3> QED
      BY <1>0, <3>1, KeptEmpty, ConcatEmptySeq
  <2> QED
    BY <2>1
<1>2. ASSUME NEW n \in Nat, n \in N PROVE n + 1 \in N
  <2>1. ASSUME NEW u \in Seq(S), Len(u) = n + 1
        PROVE  Kept(s \o u, K) = Kept(s, K) \o Kept(u, K)
    <3>1. u # <<>>
      BY <2>1
    <3>2. PICK v \in Seq(S), e \in S : u = Append(v, e)
      BY <3>1, SequenceEmptyOrAppend
    <3>3. Len(v) = n /\ s \o u = Append(s \o v, e) /\ s \o v \in Seq(S)
      BY <2>1, <3>2
    <3>4. Kept(s \o v, K) = Kept(s, K) \o Kept(v, K) /\ Kept(v, K) \in Seq(S)
      BY <1>2, <3>3, KeptTyped
    <3>a. Kept(Append(s \o v, e), K) =
            IF e \in K THEN Append(Kept(s \o v, K), e) ELSE Kept(s \o v, K)
      BY <3>3, KeptAppend, Zenon
    <3>b. Kept(Append(v, e), K) = IF e \in K THEN Append(Kept(v, K), e) ELSE Kept(v, K)
      BY KeptAppend, Zenon
    <3>c. Kept(s, K) \o Append(Kept(v, K), e) = Append(Kept(s, K) \o Kept(v, K), e)
      <4> DEFINE x == Kept(s, K)
                 y == Kept(v, K)
      <4>1. x \in Seq(S) /\ y \in Seq(S)
        BY <1>0, <3>4
      <4> HIDE DEF x, y
      <4>2. x \o Append(y, e) = Append(x \o y, e)
        BY <4>1, ConcatAppend
      <4> QED
        BY <4>2 DEF x, y
    <3> QED
      BY ONLY <3>2, <3>3, <3>4, <3>a, <3>b, <3>c
  <2> QED
    BY <2>1
<1>3. Nat \subseteq N
  BY ONLY <1>1, <1>2, SetInduction
<1>4. Len(t) \in N
  BY <1>3
<1> QED
  BY <1>4
(* Nothing is kept that is not in the set. *)
LEMMA KeptMembers ==
  ASSUME NEW S, NEW s \in Seq(S), NEW K
  PROVE  \A i \in 1..Len(Kept(s, K)) : Kept(s, K)[i] \in K
<1> DEFINE N == {n \in Nat : \A u \in Seq(S) :
                    Len(u) = n => \A i \in 1..Len(Kept(u, K)) : Kept(u, K)[i] \in K}
<1>1. 0 \in N
  <2>1. ASSUME NEW u \in Seq(S), Len(u) = 0
        PROVE  \A i \in 1..Len(Kept(u, K)) : Kept(u, K)[i] \in K
    <3>1. Kept(u, K) = <<>>
      BY <2>1, KeptEmpty
    <3> QED
      BY <3>1
  <2> QED
    BY <2>1
<1>2. ASSUME NEW n \in Nat, n \in N PROVE n + 1 \in N
  <2>1. ASSUME NEW u \in Seq(S), Len(u) = n + 1
        PROVE  \A i \in 1..Len(Kept(u, K)) : Kept(u, K)[i] \in K
    <3>a. u # <<>>
      BY <2>1
    <3>1. PICK v \in Seq(S), e \in S : u = Append(v, e)
      BY <3>a, SequenceEmptyOrAppend
    <3>2. Len(v) = n /\ Kept(v, K) \in Seq(S)
      BY <2>1, <3>1, KeptTyped
    <3>3. \A i \in 1..Len(Kept(v, K)) : Kept(v, K)[i] \in K
      BY <1>2, <3>2
    <3>4. Kept(u, K) = IF e \in K THEN Append(Kept(v, K), e) ELSE Kept(v, K)
      BY <3>1, KeptAppend, Zenon
    <3> QED
      BY <3>1, <3>2, <3>3, <3>4
  <2> QED
    BY <2>1
<1>3. Nat \subseteq N
  BY ONLY <1>1, <1>2, SetInduction
<1>4. Len(s) \in N
  BY <1>3
<1> QED
  BY <1>4
=============================================================================
