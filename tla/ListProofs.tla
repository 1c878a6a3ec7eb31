----------------------------- MODULE ListProofs -----------------------------
(***************************************************************************)
(* What filtering and adding up return, for every sequence.  They are      *)
(* recursive functions: that they exist, and what they return, is shown by *)
(* induction on a prefix of the sequence.  The induction principle is a    *)
(* statement about sets, proved from the well-foundedness of < on the      *)
(* naturals.                                                               *)
(***************************************************************************)
EXTENDS Lists, Integers, SequenceTheorems, WellFoundedInduction, TLAPS

\* A set of numbers that contains 0 and is closed under successor contains
\* every number: its complement would have a least element.
LEMMA InductionOnSet ==
    ASSUME NEW T, 0 \in T, \A n \in Nat : n \in T => n + 1 \in T
    PROVE  Nat \subseteq T
<1> DEFINE less == {ss \in Nat \X Nat : ss[1] < ss[2]}
<1> SUFFICES ASSUME Nat \ T # {} PROVE FALSE
  OBVIOUS
<1>1. IsWellFoundedOn(less, Nat)
  BY NatLessThanWellFounded DEF OpToRel
<1>2. Nat \ T \subseteq Nat
  OBVIOUS
<1> HIDE DEF less
<1>3. PICK x \in Nat \ T : \A y \in Nat \ T : ~(<<y, x>> \in less)
  BY <1>1, <1>2, WFMin
<1>4. \A y \in Nat \ T : ~(y < x)
  BY <1>3 DEF less
<1>5. x # 0 /\ x - 1 \in Nat /\ x - 1 < x /\ (x - 1) + 1 = x
  OBVIOUS
<1>6. x - 1 \in T
  BY <1>4, <1>5
<1> QED
  BY <1>5, <1>6

\* A set of numbers has a least element, and a greatest if it is bounded.
LEMMA LeastExists ==
    ASSUME NEW M \in SUBSET Nat, M # {}
    PROVE  \E k \in M : \A i \in M : k <= i
<1> SUFFICES ASSUME \A k \in M : \E i \in M : i < k PROVE FALSE
  OBVIOUS
<1> DEFINE T == {n \in Nat : \A k \in M : n < k}
<1>1. 0 \in T
  OBVIOUS
<1>2. ASSUME NEW n \in Nat, n \in T PROVE n + 1 \in T
  <2> SUFFICES ASSUME NEW k \in M PROVE n + 1 < k
    OBVIOUS
  <2>1. PICK i \in M : i < k
    OBVIOUS
  <2>2. n < i
    BY <1>2
  <2> QED
    BY <2>1, <2>2
<1> HIDE DEF T
<1>3. Nat \subseteq T
  BY <1>1, <1>2, InductionOnSet
<1>4. PICK k \in M : TRUE
  OBVIOUS
<1>5. k \in T
  BY <1>3
<1> QED
  BY <1>5 DEF T

LEMMA GreatestExists ==
    ASSUME NEW M \in SUBSET Nat, M # {}, NEW n \in Nat, \A i \in M : i <= n
    PROVE  \E k \in M : \A i \in M : i <= k
<1> DEFINE rest == {n - i : i \in M}
<1>1. rest \in SUBSET Nat /\ rest # {}
  <2>1. \A i \in M : i \in Nat /\ n - i \in Nat
    OBVIOUS
  <2>2. PICK i \in M : TRUE
    OBVIOUS
  <2>3. n - i \in rest
    OBVIOUS
  <2> QED
    BY <2>1, <2>3
<1>2. \A d \in rest : \E i \in M : d = n - i
  OBVIOUS
<1>3. \A i \in M : n - i \in rest
  OBVIOUS
<1> HIDE DEF rest
<1>4. PICK d \in rest : \A e \in rest : d <= e
  BY <1>1, LeastExists
<1>5. PICK k \in M : d = n - k
  BY <1>2
<1>6. ASSUME NEW i \in M PROVE i <= k
  <2>1. n - k <= n - i
    BY <1>3, <1>4, <1>5
  <2> QED
    BY <2>1
<1> QED
  BY <1>6

-----------------------------------------------------------------------------
(* Recursion over the positions of a sequence *)

Recursion(f, N, S, base, step) ==
    f \in [0..N -> S] /\ f[0] = base /\ \A i \in 1..N : f[i] = step[<< i, f[i-1] >>]

\* Every recursion over the positions of a sequence has a solution.
LEMMA RecursionExists ==
    ASSUME NEW N \in Nat, NEW S, NEW base \in S, NEW step \in [(1..N) \X S -> S]
    PROVE  \E f : Recursion(f, N, S, base, step)
<1> DEFINE Solves(f, n) == f[0] = base /\ \A i \in 1..n : f[i] = step[<< i, f[i-1] >>]
           T == {n \in Nat : n <= N => \E f \in [0..n -> S] : Solves(f, n)}
<1>1. 0 \in T
  <2> DEFINE f == [i \in 0..0 |-> base]
  <2>1. f \in [0..0 -> S] /\ Solves(f, 0)
    OBVIOUS
  <2> HIDE DEF f
  <2> QED
    BY <2>1
<1>2. ASSUME NEW n \in Nat, n \in T PROVE n + 1 \in T
  <2> SUFFICES ASSUME n + 1 <= N PROVE \E f \in [0..(n+1) -> S] : Solves(f, n + 1)
    OBVIOUS
  <2>1. PICK f \in [0..n -> S] : Solves(f, n)
    BY <1>2
  <2> DEFINE g == [i \in 0..(n+1) |-> IF i = n + 1 THEN step[<< n + 1, f[n] >>] ELSE f[i]]
  <2>2. n + 1 \in 1..N /\ f[n] \in S /\ << n + 1, f[n] >> \in (1..N) \X S
    OBVIOUS
  <2>3. step[<< n + 1, f[n] >>] \in S
    BY <2>2
  <2>4. \A i \in 0..(n+1) : i # n + 1 => i \in 0..n
    OBVIOUS
  <2>5. g \in [0..(n+1) -> S]
    BY <2>3, <2>4
  <2>6. g[n + 1] = step[<< n + 1, g[n] >>] /\ \A i \in 0..n : g[i] = f[i]
    <3>1. n + 1 \in 0..(n+1) /\ \A i \in 0..n : i \in 0..(n+1) /\ i # n + 1
      OBVIOUS
    <3>2. g[n + 1] = step[<< n + 1, f[n] >>]
      BY <3>1
    <3>3. \A i \in 0..n : g[i] = f[i]
      BY <3>1
    <3>4. n \in 0..n
      OBVIOUS
    <3> HIDE DEF g
    <3> QED
      BY <3>2, <3>3, <3>4
  <2> HIDE DEF g
  <2>7. ASSUME NEW i \in 1..(n+1) PROVE g[i] = step[<< i, g[i-1] >>]
    <3>1. CASE i = n + 1
      BY <2>6, <3>1
    <3>2. CASE i # n + 1
      <4>1. i \in 1..n /\ i \in 0..n /\ i - 1 \in 0..n
        BY <3>2
      <4> QED
        BY <2>1, <2>6, <4>1
    <3> QED
      BY <3>1, <3>2
  <2>8. g[0] = base
    BY <2>1, <2>6
  <2> QED
    BY <2>5, <2>7, <2>8
<1> HIDE DEF T, Solves
<1>3. Nat \subseteq T
  BY <1>1, <1>2, InductionOnSet
<1> QED
  BY <1>3 DEF T, Solves, Recursion

-----------------------------------------------------------------------------
(* Prefixes *)

\* The shortest and the longest prefix of a sequence.
LEMMA PrefixEnds ==
    ASSUME NEW S, NEW s \in Seq(S)
    PROVE  SubSeq(s, 1, 0) = << >> /\ SubSeq(s, 1, Len(s)) = s
BY SubSeqEmpty, SubSeqFull

\* A prefix grows by the next element.
LEMMA PrefixGrows ==
    ASSUME NEW S, NEW s \in Seq(S), NEW k \in 1..Len(s)
    PROVE  Append(SubSeq(s, 1, k - 1), s[k]) = SubSeq(s, 1, k)
<1> DEFINE t == SubSeq(s, 1, k - 1)
           u == SubSeq(s, 1, k)
           v == Append(t, s[k])
<1>1. k \in Nat /\ Len(s) \in Nat /\ k <= Len(s) /\ s[k] \in S
  OBVIOUS
<1>2. t \in Seq(S) /\ Len(t) = k - 1 /\ \A i \in 1..(k-1) : t[i] = s[i]
  <2>1. \A i \in 1..(k-1) : s[i] \in S /\ 1 + i - 1 = i
    BY <1>1
  <2> QED
    BY <1>1, <2>1, SubSeqProperties
<1>3. u \in Seq(S) /\ Len(u) = k /\ \A i \in 1..k : u[i] = s[i]
  <2>1. \A i \in 1..k : s[i] \in S /\ 1 + i - 1 = i
    BY <1>1
  <2> QED
    BY <1>1, <2>1, SubSeqProperties
<1> HIDE DEF t, u
<1>4. v \in Seq(S) /\ Len(v) = k /\ v[k] = s[k] /\ \A i \in 1..(k-1) : v[i] = t[i]
  BY <1>1, <1>2
<1> HIDE DEF v
<1>5. \A i \in 1..Len(v) : v[i] = u[i]
  <2> SUFFICES ASSUME NEW i \in 1..k PROVE v[i] = u[i]
    BY <1>4
  <2>1. i = k \/ i \in 1..(k-1)
    BY <1>1
  <2> QED
    BY <1>2, <1>3, <1>4, <2>1
<1>6. v = u
  BY <1>3, <1>4, <1>5, SeqEqual
<1> QED
  BY <1>6 DEF v, t, u

\* What comes first does not matter to what is put at the end.
LEMMA TailOfAppend ==
    ASSUME NEW S, NEW s \in Seq(S), s # << >>, NEW e \in S
    PROVE  Tail(Append(s, e)) = Append(Tail(s), e)
<1> DEFINE N == Len(s)
           m == Append(s, e)
           t == Tail(s)
           l == Tail(m)
           r == Append(t, e)
<1>1. N \in Nat /\ N > 0
  BY EmptySeq
<1>2. t \in Seq(S) /\ Len(t) = N - 1 /\ \A i \in 1..(N-1) : t[i] = s[i+1]
  BY HeadTailProperties
<1>3. m \in Seq(S) /\ m # << >> /\ Len(m) = N + 1 /\ m[N + 1] = e /\ \A i \in 1..N : m[i] = s[i]
  BY AppendProperties
<1> HIDE DEF m, t
<1>4. l \in Seq(S) /\ Len(l) = Len(m) - 1 /\ \A i \in 1..Len(l) : l[i] = m[i+1]
  BY <1>3, HeadTailProperties
<1>5. r \in Seq(S) /\ Len(r) = Len(t) + 1 /\ r[Len(t) + 1] = e /\ \A i \in 1..Len(t) : r[i] = t[i]
  BY <1>2, AppendProperties
<1> HIDE DEF l, r
<1>6. ASSUME NEW i \in 1..N PROVE l[i] = r[i]
  <2>1. CASE i = N
    BY <1>1, <1>2, <1>3, <1>4, <1>5, <2>1
  <2>2. CASE i # N
    <3>1. i \in 1..(N-1) /\ i + 1 \in 1..N /\ Len(t) = N - 1 /\ Len(l) = N
      BY <1>1, <1>2, <1>3, <1>4, <2>2
    <3> QED
      BY <1>2, <1>3, <1>4, <1>5, <3>1
  <2> QED
    BY <2>1, <2>2
<1>7. Len(l) = N /\ Len(r) = N
  BY <1>1, <1>2, <1>3, <1>4, <1>5
<1>8. l = r
  BY <1>4, <1>5, <1>6, <1>7, SeqEqual
<1> QED
  BY <1>8 DEF l, r, m, t

-----------------------------------------------------------------------------
(* Filtering *)

PickedSoFar(s, I, f) ==
    f = [k \in 0..Len(s) |-> IF k = 0 THEN << >>
                             ELSE IF k \in I THEN Append(f[k-1], s[k])
                             ELSE f[k-1]]

Picking(s, I, S, f) ==
    /\ f \in [0..Len(s) -> Seq(S)]
    /\ f[0] = << >>
    /\ \A k \in 1..Len(s) : f[k] = IF k \in I THEN Append(f[k-1], s[k]) ELSE f[k-1]
    /\ Picked(s, I) = f[Len(s)]

LEMMA PickedExists ==
    ASSUME NEW S, NEW s \in Seq(S), NEW I
    PROVE  \E f : Picking(s, I, S, f)
<1> DEFINE N == Len(s)
           step == [p \in (1..N) \X Seq(S) |->
                      IF p[1] \in I THEN Append(p[2], s[p[1]]) ELSE p[2]]
<1>1. N \in Nat /\ << >> \in Seq(S)
  OBVIOUS
<1>2. \A p \in (1..N) \X Seq(S) : step[p] \in Seq(S)
  OBVIOUS
<1>3. step \in [(1..N) \X Seq(S) -> Seq(S)]
  BY <1>2
<1>4. \A i \in 1..N : \A t \in Seq(S) :
        step[<< i, t >>] = IF i \in I THEN Append(t, s[i]) ELSE t
  OBVIOUS
<1>5. PICK g : Recursion(g, N, Seq(S), << >>, step)
  BY <1>1, <1>3, RecursionExists
<1>6. /\ g \in [0..N -> Seq(S)] /\ g[0] = << >>
      /\ \A i \in 1..N : g[i] = step[<< i, g[i-1] >>]
  BY <1>5 DEF Recursion
<1>7. \A k \in 1..N : g[k] = IF k \in I THEN Append(g[k-1], s[k]) ELSE g[k-1]
  <2>1. \A k \in 1..N : k - 1 \in 0..N
    BY <1>1
  <2> QED
    BY <1>4, <1>6, <2>1
<1>8. PickedSoFar(s, I, g)
  <2>1. \A k \in 0..N : k # 0 => k \in 1..N
    BY <1>1
  <2> DEFINE h == [k \in 0..Len(s) |-> IF k = 0 THEN << >>
                             ELSE IF k \in I THEN Append(g[k-1], s[k])
                             ELSE g[k-1]]
  <2>2. \A k \in 0..N : g[k] = h[k]
    BY <1>6, <1>7, <2>1
  <2> HIDE DEF h
  <2>3. g = h
    <3>1. DOMAIN h = 0..N /\ h = [k \in 0..N |-> h[k]]
      BY DEF h
    <3>2. g = [k \in 0..N |-> g[k]]
      BY <1>6
    <3> QED
      BY <2>2, <3>1, <3>2
  <2> QED
    BY <2>3 DEF h, PickedSoFar
<1> DEFINE f == CHOOSE h : PickedSoFar(s, I, h)
<1>9. PickedSoFar(s, I, f)
  BY <1>8
<1>10. Picked(s, I) = f[Len(s)]
  BY DEF Picked, PickedSoFar
<1> HIDE DEF f
<1>11. /\ f[0] = << >>
       /\ \A k \in 1..N : f[k] = IF k \in I THEN Append(f[k-1], s[k]) ELSE f[k-1]
       /\ DOMAIN f = 0..N /\ f = [k \in 0..N |-> f[k]]
  <2> DEFINE h == [k \in 0..Len(s) |-> IF k = 0 THEN << >>
                             ELSE IF k \in I THEN Append(f[k-1], s[k])
                             ELSE f[k-1]]
  <2>1. f = h
    BY <1>9 DEF PickedSoFar
  <2>2. 0 \in 0..N /\ \A k \in 1..N : k \in 0..N /\ k # 0
    BY <1>1
  <2>3. h[0] = << >>
    BY <2>2
  <2>4. \A k \in 1..N : h[k] = IF k \in I THEN Append(f[k-1], s[k]) ELSE f[k-1]
    BY <2>2
  <2>5. DOMAIN h = 0..N /\ h = [k \in 0..N |-> h[k]]
    OBVIOUS
  <2> HIDE DEF h
  <2> QED
    BY <2>1, <2>3, <2>4, <2>5
<1> DEFINE T == {n \in Nat : n <= N => f[n] \in Seq(S)}
<1>12. 0 \in T
  BY <1>1, <1>11
<1>13. ASSUME NEW n \in Nat, n \in T PROVE n + 1 \in T
  <2> SUFFICES ASSUME n + 1 <= N PROVE f[n + 1] \in Seq(S)
    OBVIOUS
  <2>1. f[n] \in Seq(S) /\ n + 1 \in 1..N /\ (n + 1) - 1 = n /\ s[n + 1] \in S
    BY <1>1, <1>13
  <2>2. f[n + 1] = IF n + 1 \in I THEN Append(f[n], s[n + 1]) ELSE f[n]
    BY <1>11, <2>1
  <2> QED
    BY <2>1, <2>2
<1> HIDE DEF T
<1>14. Nat \subseteq T
  BY <1>12, <1>13, InductionOnSet
<1>15. \A k \in 0..N : f[k] \in Seq(S)
  BY <1>1, <1>14 DEF T
<1>16. f \in [0..N -> Seq(S)]
  BY <1>11, <1>15
<1> QED
  BY <1>10, <1>11, <1>16 DEF Picking

\* What is picked is in the order of the sequence: position k of the result is
\* position at[k] of the sequence, at grows, and reaches all positions in I.
PickedAtUpTo(n, s, I, t, at) ==
    /\ at \in [1..Len(t) -> 1..n]
    /\ \A k \in 1..Len(t) : t[k] = s[at[k]] /\ at[k] \in I
    /\ \A j, k \in 1..Len(t) : j < k => at[j] < at[k]
    /\ \A i \in 1..n : i \in I => \E k \in 1..Len(t) : at[k] = i

PickedAt(s, I, t, at) == PickedAtUpTo(Len(s), s, I, t, at)

LEMMA PickedInOrder ==
    ASSUME NEW S, NEW s \in Seq(S), NEW I
    PROVE  Picked(s, I) \in Seq(S) /\ \E at : PickedAt(s, I, Picked(s, I), at)
<1> DEFINE N == Len(s)
<1>1. PICK f : Picking(s, I, S, f)
  BY PickedExists
<1>2. /\ f \in [0..N -> Seq(S)] /\ f[0] = << >>
      /\ \A k \in 1..N : f[k] = IF k \in I THEN Append(f[k-1], s[k]) ELSE f[k-1]
      /\ Picked(s, I) = f[N]
  BY <1>1 DEF Picking
<1> DEFINE T == {n \in Nat : n <= N => \E at : PickedAtUpTo(n, s, I, f[n], at)}
<1>3. N \in Nat
  OBVIOUS
<1>4. 0 \in T
  <2> DEFINE at == [k \in 1..0 |-> 1]
  <2>1. Len(f[0]) = 0 /\ 1..0 = {}
    BY <1>2
  <2>2. at \in [1..0 -> 1..0]
    BY <2>1
  <2> HIDE DEF at
  <2>3. PickedAtUpTo(0, s, I, f[0], at)
    BY <2>1, <2>2 DEF PickedAtUpTo
  <2> QED
    BY <1>3, <2>3
<1>5. ASSUME NEW n \in Nat, n \in T PROVE n + 1 \in T
  <2> SUFFICES ASSUME n + 1 <= N PROVE \E at : PickedAtUpTo(n + 1, s, I, f[n + 1], at)
    OBVIOUS
  <2>1. PICK at : PickedAtUpTo(n, s, I, f[n], at)
    BY <1>3, <1>5
  <2>2. n + 1 \in 1..N /\ (n + 1) - 1 = n /\ f[n] \in Seq(S) /\ s[n + 1] \in S
    <3>1. n + 1 \in 1..N /\ n \in 0..N /\ (n + 1) - 1 = n
      BY <1>3
    <3> QED
      BY <1>2, <3>1
  <2>3. f[n + 1] = IF n + 1 \in I THEN Append(f[n], s[n + 1]) ELSE f[n]
    BY <1>2, <2>2
  <2>4. \A i \in 1..(n+1) : i = n + 1 \/ i \in 1..n
    OBVIOUS
  <2>5. CASE n + 1 \notin I
    <3>1. f[n + 1] = f[n] /\ at \in [1..Len(f[n]) -> 1..(n+1)]
      BY <2>1, <2>3, <2>5 DEF PickedAtUpTo
    <3>2. PickedAtUpTo(n + 1, s, I, f[n], at)
      BY <2>1, <2>4, <2>5, <3>1 DEF PickedAtUpTo
    <3> QED
      BY <3>1, <3>2
  <2>6. CASE n + 1 \in I
    <3> DEFINE t == f[n]
               u == f[n + 1]
               m == Len(t) + 1
               new == [k \in 1..m |-> IF k = m THEN n + 1 ELSE at[k]]
    <3>1. /\ t \in Seq(S) /\ Len(t) \in Nat /\ Len(u) = m /\ u[m] = s[n + 1]
          /\ \A k \in 1..Len(t) : u[k] = t[k]
      BY <2>2, <2>3, <2>6
    <3>2. \A k \in 1..m : k = m \/ k \in 1..Len(t)
      BY <3>1
    <3>3. m \in 1..m /\ \A k \in 1..Len(t) : k \in 1..m /\ k # m
      BY <3>1
    <3>4. new[m] = n + 1 /\ \A k \in 1..Len(t) : new[k] = at[k]
      BY <3>3
    <3>5. /\ at \in [1..Len(t) -> 1..n]
          /\ \A k \in 1..Len(t) : t[k] = s[at[k]] /\ at[k] \in I
          /\ \A j, k \in 1..Len(t) : j < k => at[j] < at[k]
          /\ \A i \in 1..n : i \in I => \E k \in 1..Len(t) : at[k] = i
      BY <2>1 DEF PickedAtUpTo
    <3>6. \A k \in 1..Len(t) : at[k] \in 1..n /\ at[k] \in 1..(n+1) /\ at[k] < n + 1
      BY <3>5
    <3>7. new \in [1..m -> 1..(n+1)]
      BY <3>2, <3>6
    <3> HIDE DEF t, u, m, new
    <3>8. \A k \in 1..m : u[k] = s[new[k]] /\ new[k] \in I
      BY <2>6, <3>1, <3>2, <3>4, <3>5
    <3>9. \A j, k \in 1..m : j < k => new[j] < new[k]
      <4> SUFFICES ASSUME NEW j \in 1..m, NEW k \in 1..m, j < k PROVE new[j] < new[k]
        OBVIOUS
      <4>1. j \in 1..Len(t)
        BY <3>1, <3>2 DEF m
      <4> QED
        BY <3>2, <3>4, <3>5, <3>6, <4>1
    <3>10. \A i \in 1..(n+1) : i \in I => \E k \in 1..m : new[k] = i
      BY <2>4, <3>3, <3>4, <3>5
    <3>11. PickedAtUpTo(n + 1, s, I, u, new)
      BY <3>1, <3>7, <3>8, <3>9, <3>10 DEF PickedAtUpTo
    <3> QED
      BY <3>11 DEF u
  <2> QED
    BY <2>5, <2>6
<1> HIDE DEF T
<1>6. Nat \subseteq T
  BY <1>4, <1>5, InductionOnSet
<1>7. PICK at : PickedAtUpTo(N, s, I, f[N], at)
  BY <1>3, <1>6 DEF T
<1>8. f[N] \in Seq(S)
  BY <1>2, <1>3
<1>9. PickedAt(s, I, Picked(s, I), at)
  BY <1>2, <1>7 DEF PickedAt
<1> QED
  BY <1>2, <1>8, <1>9

\* The last that is picked is at the last of the positions; there is one unless
\* no position is picked.
LEMMA LastPicked ==
    ASSUME NEW S, NEW s \in Seq(S), NEW I
    PROVE  \/ Picked(s, I) = << >> /\ \A i \in 1..Len(s) : i \notin I
           \/ /\ Picked(s, I) # << >>
              /\ \E k \in 1..Len(s) :
                   /\ k \in I /\ \A j \in 1..Len(s) : j \in I => j <= k
                   /\ Picked(s, I)[Len(Picked(s, I))] = s[k]
<1> DEFINE t == Picked(s, I)
<1>1. t \in Seq(S) /\ \E at : PickedAt(s, I, t, at)
  BY PickedInOrder
<1> HIDE DEF t
<1>2. PICK at : PickedAt(s, I, t, at)
  BY <1>1
<1>3. /\ at \in [1..Len(t) -> 1..Len(s)]
      /\ \A k \in 1..Len(t) : t[k] = s[at[k]] /\ at[k] \in I
      /\ \A j, k \in 1..Len(t) : j < k => at[j] < at[k]
      /\ \A i \in 1..Len(s) : i \in I => \E k \in 1..Len(t) : at[k] = i
  BY <1>2 DEF PickedAt, PickedAtUpTo
<1>4. CASE t = << >>
  <2>1. 1..Len(t) = {}
    BY <1>4
  <2> QED
    BY <1>3, <1>4, <2>1 DEF t
<1>5. CASE t # << >>
  <2> DEFINE n == Len(t)
  <2>1. n \in 1..n
    BY <1>1, <1>5
  <2>2. at[n] \in 1..Len(s) /\ at[n] \in I /\ t[n] = s[at[n]]
    BY <1>3, <2>1
  <2>3. ASSUME NEW j \in 1..Len(s), j \in I PROVE j <= at[n]
    <3>1. PICK k \in 1..n : at[k] = j
      BY <1>3, <2>3
    <3>2. k = n \/ k < n
      BY <1>1, <3>1
    <3>3. at[k] <= at[n]
      BY <1>3, <2>1, <2>2, <3>1, <3>2
    <3> QED
      BY <3>1, <3>3
  <2> QED
    BY <1>5, <2>2, <2>3 DEF t
<1> QED
  BY <1>4, <1>5

-----------------------------------------------------------------------------
(* Sums *)

Summing(s, f) ==
    f \in [0..Len(s) -> Nat] /\ f[0] = 0 /\ \A k \in 1..Len(s) : f[k] = f[k-1] + s[k]

SummedSoFar(s, f) == f = [k \in 0..Len(s) |-> IF k = 0 THEN 0 ELSE f[k-1] + s[k]]

LEMMA TotalExists ==
    ASSUME NEW s \in Seq(Nat)
    PROVE  \E f : Summing(s, f) /\ Total(s) = f[Len(s)]
<1> DEFINE N == Len(s)
           step == [p \in (1..N) \X Nat |-> p[2] + s[p[1]]]
<1>1. N \in Nat /\ 0 \in Nat
  OBVIOUS
<1>2. \A p \in (1..N) \X Nat : step[p] \in Nat
  OBVIOUS
<1>3. step \in [(1..N) \X Nat -> Nat]
  BY <1>2
<1>4. \A i \in 1..N : \A t \in Nat : step[<< i, t >>] = t + s[i]
  OBVIOUS
<1> HIDE DEF step
<1>5. PICK g : Recursion(g, N, Nat, 0, step)
  BY <1>1, <1>3, RecursionExists
<1>6. g \in [0..N -> Nat] /\ g[0] = 0 /\ \A i \in 1..N : g[i] = step[<< i, g[i-1] >>]
  BY <1>5 DEF Recursion
<1>7. \A k \in 1..N : g[k] = g[k-1] + s[k]
  <2>1. \A k \in 1..N : k - 1 \in 0..N
    BY <1>1
  <2> QED
    BY <1>4, <1>6, <2>1
<1>8. SummedSoFar(s, g)
  <2> DEFINE h == [k \in 0..N |-> IF k = 0 THEN 0 ELSE g[k-1] + s[k]]
  <2>1. \A k \in 0..N : k # 0 => k \in 1..N
    BY <1>1
  <2>2. \A k \in 0..N : g[k] = h[k]
    BY <1>6, <1>7, <2>1
  <2>3. DOMAIN h = 0..N /\ h = [k \in 0..N |-> h[k]] /\ g = [k \in 0..N |-> g[k]]
    BY <1>6
  <2> HIDE DEF h
  <2>4. g = h
    BY <2>2, <2>3
  <2> QED
    BY <2>4 DEF h, SummedSoFar
<1> DEFINE f == CHOOSE h : SummedSoFar(s, h)
<1>9. SummedSoFar(s, f)
  BY <1>8
<1>10. Total(s) = f[Len(s)]
  BY DEF Total, SummedSoFar
<1> HIDE DEF f
<1>11. /\ f[0] = 0 /\ \A k \in 1..N : f[k] = f[k-1] + s[k]
       /\ f = [k \in 0..N |-> f[k]]
  <2> DEFINE h == [k \in 0..N |-> IF k = 0 THEN 0 ELSE f[k-1] + s[k]]
  <2>1. f = h
    BY <1>9 DEF SummedSoFar
  <2>2. 0 \in 0..N /\ \A k \in 1..N : k \in 0..N /\ k # 0
    BY <1>1
  <2>3. h[0] = 0
    BY <2>2
  <2>4. \A k \in 1..N : h[k] = f[k-1] + s[k]
    BY <2>2
  <2>5. h = [k \in 0..N |-> h[k]]
    OBVIOUS
  <2> HIDE DEF h
  <2> QED
    BY <2>1, <2>3, <2>4, <2>5
<1> DEFINE T == {n \in Nat : n <= N => f[n] \in Nat}
<1>12. 0 \in T
  BY <1>11
<1>13. ASSUME NEW n \in Nat, n \in T PROVE n + 1 \in T
  <2> SUFFICES ASSUME n + 1 <= N PROVE f[n + 1] \in Nat
    OBVIOUS
  <2>1. f[n] \in Nat /\ n + 1 \in 1..N /\ (n + 1) - 1 = n
    BY <1>1, <1>13
  <2>2. s[n + 1] \in Nat
    BY <2>1
  <2>3. f[n + 1] = f[n] + s[n + 1]
    BY <1>11, <2>1
  <2> QED
    BY <2>1, <2>2, <2>3
<1> HIDE DEF T
<1>14. Nat \subseteq T
  BY <1>12, <1>13, InductionOnSet
<1>15. \A k \in 0..N : f[k] \in Nat
  BY <1>1, <1>14 DEF T
<1>16. f \in [0..N -> Nat]
  BY <1>11, <1>15
<1> QED
  BY <1>10, <1>11, <1>16 DEF Summing

LEMMA TotalType ==
    ASSUME NEW s \in Seq(Nat)
    PROVE  Total(s) \in Nat
<1>1. PICK f : Summing(s, f) /\ Total(s) = f[Len(s)]
  BY TotalExists
<1>2. Len(s) \in 0..Len(s)
  OBVIOUS
<1> QED
  BY <1>1, <1>2 DEF Summing

AgreeUpTo(n, s, t) == \A k \in 1..n : s[k] = t[k]

BelowUpTo(n, s, t) == \A k \in 1..n : s[k] <= t[k]

\* Two sums compare as their partial sums do.
LEMMA SumsCompare ==
    ASSUME NEW s \in Seq(Nat), NEW t \in Seq(Nat), NEW f, NEW g, Summing(s, f), Summing(t, g),
           NEW n \in Nat, n <= Len(s), n <= Len(t)
    PROVE  /\ AgreeUpTo(n, s, t) => f[n] = g[n]
           /\ BelowUpTo(n, s, t) => f[n] <= g[n]
<1> DEFINE Same(k) == AgreeUpTo(k, s, t)
           Less(k) == BelowUpTo(k, s, t)
           T == {k \in Nat : k <= n => (Same(k) => f[k] = g[k]) /\ (Less(k) => f[k] <= g[k])}
<1>1. 0 \in T
  BY DEF Summing
<1>2. ASSUME NEW k \in Nat, k \in T PROVE k + 1 \in T
  <2> SUFFICES ASSUME k + 1 <= n
               PROVE  (Same(k + 1) => f[k+1] = g[k+1]) /\ (Less(k + 1) => f[k+1] <= g[k+1])
    OBVIOUS
  <2>1. /\ k + 1 \in 1..Len(s) /\ k + 1 \in 1..Len(t) /\ k + 1 \in 1..(k+1)
        /\ k \in 0..Len(s) /\ k \in 0..Len(t) /\ (k + 1) - 1 = k
        /\ \A i \in 1..k : i \in 1..(k+1)
    OBVIOUS
  <2>2. f[k+1] = f[k] + s[k+1] /\ g[k+1] = g[k] + t[k+1]
    BY <2>1 DEF Summing
  <2>3. f[k] \in Nat /\ g[k] \in Nat /\ s[k+1] \in Nat /\ t[k+1] \in Nat
    <3>1. f[k] \in Nat
      BY <2>1 DEF Summing
    <3>2. g[k] \in Nat
      BY <2>1 DEF Summing
    <3> QED
      BY <2>1, <3>1, <3>2
  <2>4. (Same(k) => f[k] = g[k]) /\ (Less(k) => f[k] <= g[k])
    BY <1>2
  <2>5. (Same(k + 1) => Same(k) /\ s[k+1] = t[k+1]) /\ (Less(k + 1) => Less(k) /\ s[k+1] <= t[k+1])
    BY <2>1 DEF AgreeUpTo, BelowUpTo
  <2> HIDE DEF Same, Less
  <2> QED
    BY <2>2, <2>3, <2>4, <2>5
<1> HIDE DEF T
<1>3. Nat \subseteq T
  BY <1>1, <1>2, InductionOnSet
<1> QED
  BY <1>3 DEF T

LEMMA TotalAppend ==
    ASSUME NEW s \in Seq(Nat), NEW x \in Nat
    PROVE  Total(Append(s, x)) = Total(s) + x
<1> DEFINE a == Append(s, x)
<1>1. /\ a \in Seq(Nat) /\ Len(s) \in Nat /\ Len(a) = Len(s) + 1 /\ a[Len(s) + 1] = x
      /\ \A k \in 1..Len(s) : s[k] = a[k]
  OBVIOUS
<1> HIDE DEF a
<1>2. PICK f : Summing(s, f) /\ Total(s) = f[Len(s)]
  BY TotalExists
<1>3. PICK g : Summing(a, g) /\ Total(a) = g[Len(a)]
  BY <1>1, TotalExists
<1>4. f[Len(s)] = g[Len(s)]
  <2>1. AgreeUpTo(Len(s), s, a) /\ Len(s) <= Len(s) /\ Len(s) <= Len(a)
    BY <1>1 DEF AgreeUpTo
  <2> QED
    BY <1>1, <1>2, <1>3, <2>1, SumsCompare
<1>5. Len(a) \in 1..Len(a) /\ Len(a) - 1 = Len(s)
  BY <1>1
<1>6. g[Len(a)] = g[Len(s)] + x
  BY <1>1, <1>3, <1>5 DEF Summing
<1> QED
  BY <1>2, <1>3, <1>4, <1>6 DEF a

LEMMA TotalEmpty == Total(<< >>) = 0
<1>1. << >> \in Seq(Nat) /\ Len(<< >>) = 0
  OBVIOUS
<1>2. PICK f : Summing(<< >>, f) /\ Total(<< >>) = f[Len(<< >>)]
  BY <1>1, TotalExists
<1> QED
  BY <1>1, <1>2 DEF Summing

\* Element by element, the larger sequence has the larger sum.
LEMMA TotalMonotonic ==
    ASSUME NEW s \in Seq(Nat), NEW t \in Seq(Nat), Len(s) = Len(t),
           \A k \in 1..Len(s) : s[k] <= t[k]
    PROVE  Total(s) <= Total(t)
<1>1. PICK f : Summing(s, f) /\ Total(s) = f[Len(s)]
  BY TotalExists
<1>2. PICK g : Summing(t, g) /\ Total(t) = g[Len(t)]
  BY TotalExists
<1>3. Len(s) \in Nat /\ Len(s) <= Len(s) /\ Len(s) <= Len(t) /\ BelowUpTo(Len(s), s, t)
  BY DEF BelowUpTo
<1>4. f[Len(s)] <= g[Len(s)]
  BY <1>1, <1>2, <1>3, SumsCompare
<1> QED
  BY <1>1, <1>2, <1>4

\* One element more.
LEMMA TotalSubSeq ==
    ASSUME NEW s \in Seq(Nat), NEW k \in Nat, k < Len(s)
    PROVE  Total(SubSeq(s, 1, k + 1)) = Total(SubSeq(s, 1, k)) + s[k + 1]
<1>1. k + 1 \in 1..Len(s) /\ s[k + 1] \in Nat
  OBVIOUS
<1>2. SubSeq(s, 1, k) \in Seq(Nat) /\ Len(SubSeq(s, 1, k)) = k
  OBVIOUS
<1>3. SubSeq(s, 1, k + 1) = Append(SubSeq(s, 1, k), s[k + 1])
  <2> DEFINE u == SubSeq(s, 1, k + 1)
             v == Append(SubSeq(s, 1, k), s[k + 1])
  <2>1. u \in Seq(Nat) /\ v \in Seq(Nat) /\ Len(u) = k + 1 /\ Len(v) = k + 1
    BY <1>1, <1>2
  <2>2. \A i \in 1..(k+1) : u[i] = v[i]
    BY <1>1, <1>2
  <2> HIDE DEF u, v
  <2>3. u = v
    BY <2>1, <2>2, SeqEqual
  <2> QED
    BY <2>3 DEF u, v
<1> QED
  BY <1>1, <1>2, <1>3, TotalAppend

\* No element is greater than the sum.
LEMMA ElementBelowTotal ==
    ASSUME NEW s \in Seq(Nat)
    PROVE  \A k \in 1..Len(s) : s[k] <= Total(s)
<1>1. PICK f : Summing(s, f) /\ Total(s) = f[Len(s)]
  BY TotalExists
<1> DEFINE Good(n) == \A k \in 1..n : s[k] <= f[n]
           T == {n \in Nat : n <= Len(s) => Good(n)}
<1>2. 0 \in T
  OBVIOUS
<1>3. ASSUME NEW n \in Nat, n \in T PROVE n + 1 \in T
  <2> SUFFICES ASSUME n + 1 <= Len(s), NEW k \in 1..(n+1) PROVE s[k] <= f[n+1]
    OBVIOUS
  <2>1. n + 1 \in 1..Len(s) /\ n \in 0..Len(s) /\ (n + 1) - 1 = n /\ n <= Len(s)
    OBVIOUS
  <2>2. f[n+1] = f[n] + s[n+1] /\ f[n] \in Nat
    BY <1>1, <2>1 DEF Summing
  <2>3. s[n+1] \in Nat /\ s[k] \in Nat
    BY <2>1
  <2>4. k \in 1..n => s[k] <= f[n]
    BY <1>3, <2>1
  <2>5. k \in 1..n \/ k = n + 1
    OBVIOUS
  <2> QED
    BY <2>2, <2>3, <2>4, <2>5
<1> HIDE DEF T, Good
<1>4. Nat \subseteq T
  BY <1>2, <1>3, InductionOnSet
<1>5. Len(s) \in Nat /\ Len(s) <= Len(s)
  OBVIOUS
<1>6. Good(Len(s))
  BY <1>4, <1>5 DEF T
<1> QED
  BY <1>1, <1>6 DEF Good

\* A sum lies between what it would be if every element were the least, or the
\* greatest, of them.
LEMMA TotalBounds ==
    ASSUME NEW s \in Seq(Nat), NEW lo \in Nat, NEW hi \in Nat,
           \A k \in 1..Len(s) : lo <= s[k] /\ s[k] <= hi
    PROVE  lo * Len(s) <= Total(s) /\ Total(s) <= hi * Len(s)
<1> DEFINE Good(n) == lo * n <= Total(SubSeq(s, 1, n)) /\ Total(SubSeq(s, 1, n)) <= hi * n
           T == {n \in Nat : n <= Len(s) => Good(n)}
<1>1. 0 \in T
  <2>1. SubSeq(s, 1, 0) = << >>
    OBVIOUS
  <2>2. Total(SubSeq(s, 1, 0)) = 0
    BY <2>1, TotalEmpty
  <2>3. lo * 0 = 0 /\ hi * 0 = 0
    OBVIOUS
  <2> HIDE DEF T
  <2>4. Good(0)
    BY <2>2, <2>3
  <2> QED
    BY <2>4 DEF T
<1>2. ASSUME NEW n \in Nat, n \in T PROVE n + 1 \in T
  <2> SUFFICES ASSUME n + 1 <= Len(s) PROVE Good(n + 1)
    OBVIOUS
  <2>1. n < Len(s) /\ n + 1 \in 1..Len(s) /\ s[n + 1] \in Nat
    OBVIOUS
  <2>2. SubSeq(s, 1, n) \in Seq(Nat)
    BY <2>1
  <2> DEFINE t == Total(SubSeq(s, 1, n))
             u == Total(SubSeq(s, 1, n + 1))
             x == s[n + 1]
  <2>3. t \in Nat /\ u = t + x
    BY <2>1, <2>2, TotalType, TotalSubSeq
  <2>4. lo * n <= t /\ t <= hi * n /\ lo <= x /\ x <= hi /\ x \in Nat
    BY <1>2, <2>1
  <2> HIDE DEF t, u, x
  <2>5. lo * (n + 1) = lo * n + lo /\ hi * (n + 1) = hi * n + hi /\ lo * n \in Nat /\ hi * n \in Nat
    OBVIOUS
  <2>6. lo * (n + 1) <= u /\ u <= hi * (n + 1)
    BY <2>3, <2>4, <2>5
  <2> QED
    BY <2>6 DEF u
<1> HIDE DEF T, Good
<1>3. Nat \subseteq T
  BY <1>1, <1>2, InductionOnSet
<1>4. Good(Len(s)) /\ SubSeq(s, 1, Len(s)) = s
  BY <1>3, SubSeqFull DEF T
<1> QED
  BY <1>4 DEF Good
=============================================================================
