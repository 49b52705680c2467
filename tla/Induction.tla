----------------------------- MODULE Induction ------------------------------
(***************************************************************************)
(* Induction over data, for the proofs of the other modules: a set that    *)
(* holds 0 and, with every number, the next one is all of Nat.  From it    *)
(* follows that the recursive functions of the models exist, those that    *)
(* run along a loop's counter and those that run along pointers.           *)
(***************************************************************************)
EXTENDS Integers, SequencesExt, WellFoundedInduction, TLAPS

LEMMA NatOrderWellFounded == IsWellFoundedOn({p \in Nat \X Nat : p[1] < p[2]}, Nat)
BY NatLessThanWellFounded DEF OpToRel

\* Every set of numbers that has an element has a least one.
LEMMA LeastElement ==
  ASSUME NEW T, T \subseteq Nat, T # {}
  PROVE  Min(T) \in T /\ \A y \in T : Min(T) <= y
<1> DEFINE R == {p \in Nat \X Nat : p[1] < p[2]}
<1>1. IsWellFoundedOn(R, Nat)
  BY NatOrderWellFounded
<1> HIDE DEF R
<1>2. PICK x \in T : \A y \in T : <<y, x>> \notin R
  BY <1>1, WFMin
<1>3. ASSUME NEW y \in T PROVE x <= y
  <2>1. y < x => <<y, x>> \in R
    BY DEF R
  <2> QED BY <1>2, <2>1
<1> QED BY <1>2, <1>3 DEF Min

\* Induction, with the property as a set.
LEMMA NatSetInduction ==
  ASSUME NEW S, 0 \in S, \A n \in Nat : n \in S => n + 1 \in S
  PROVE  Nat \subseteq S
<1> DEFINE T == Nat \ S
<1> SUFFICES ASSUME T # {} PROVE FALSE
  OBVIOUS
<1>1. PICK x \in T : \A y \in T : x <= y
  BY LeastElement
<1>2. x - 1 \in Nat
  OBVIOUS
<1>3. x - 1 \in S
  BY <1>1, <1>2
<1>4. (x - 1) + 1 \in S
  BY <1>2, <1>3
<1> QED BY <1>4

\* Induction up to a bound.
LEMMA UpToInduction ==
  ASSUME NEW N \in Nat, NEW S, 0 \in S, \A n \in 1..N : n - 1 \in S => n \in S
  PROVE  0..N \subseteq S
<1> DEFINE T == {n \in Nat : n <= N => n \in S}
<1>1. 0 \in T
  OBVIOUS
<1>2. ASSUME NEW n \in Nat, n \in T PROVE n + 1 \in T
  <2>1. n + 1 <= N => n + 1 \in 1..N /\ (n + 1) - 1 \in S
    BY <1>2
  <2> QED BY <2>1
<1> HIDE DEF T
<1>3. Nat \subseteq T
  BY <1>1, <1>2, NatSetInduction
<1> QED BY <1>3 DEF T

\* f is what a loop of N turns computes: it starts with b, and turn n makes
\* h[<<n, v>>] of v.
IsLoop(f, N, V, b, h) ==
  /\ f \in [0..N -> V]
  /\ f[0] = b
  /\ \A n \in 1..N : f[n] = h[<<n, f[n - 1]>>]

\* A loop has a value after every turn.
LEMMA LoopExists ==
  ASSUME NEW N \in Nat, NEW V, NEW b \in V, NEW h \in [(1..N) \X V -> V]
  PROVE  \E f : IsLoop(f, N, V, b, h)
<1> DEFINE S == {m \in 0..N : \E f \in [0..m -> V] :
                   f[0] = b /\ \A n \in 1..m : f[n] = h[<<n, f[n - 1]>>]}
<1>1. 0 \in S
  <2> DEFINE f == [i \in 0..0 |-> b]
  <2>1. f \in [0..0 -> V] /\ f[0] = b /\ \A n \in 1..0 : f[n] = h[<<n, f[n - 1]>>]
    OBVIOUS
  <2> HIDE DEF f
  <2> QED BY <2>1
<1>2. ASSUME NEW m \in 1..N, m - 1 \in S PROVE m \in S
  <2>1. PICK f \in [0..(m - 1) -> V] :
          f[0] = b /\ \A n \in 1..(m - 1) : f[n] = h[<<n, f[n - 1]>>]
    BY <1>2
  <2> DEFINE g == [i \in 0..m |-> IF i = m THEN h[<<m, f[m - 1]>>] ELSE f[i]]
  <2>2. m - 1 \in 0..(m - 1) /\ h[<<m, f[m - 1]>>] \in V
    BY <2>1
  <2>3. g \in [0..m -> V]
    BY <2>1, <2>2
  <2>4. \A i \in 0..(m - 1) : g[i] = f[i]
    OBVIOUS
  <2>5. g[m] = h[<<m, g[m - 1]>>]
    <3>1. g[m] = h[<<m, f[m - 1]>>]
      OBVIOUS
    <3> QED BY <2>2, <2>4, <3>1
  <2> HIDE DEF g
  <2>6. \A n \in 1..m : g[n] = h[<<n, g[n - 1]>>]
    <3> TAKE n \in 1..m
    <3>1. CASE n = m
      BY <2>5, <3>1
    <3>2. CASE n # m
      <4>1. n \in 1..(m - 1) /\ n \in 0..(m - 1) /\ n - 1 \in 0..(m - 1)
        BY <3>2
      <4> QED BY <2>1, <2>4, <4>1
    <3> QED BY <3>1, <3>2
  <2>7. g[0] = b
    BY <2>1, <2>4
  <2> QED BY <2>3, <2>6, <2>7
<1> HIDE DEF S
<1>3. 0..N \subseteq S
  BY <1>1, <1>2, UpToInduction
<1>4. N \in S
  BY <1>3
<1>5. PICK f \in [0..N -> V] : f[0] = b /\ \A n \in 1..N : f[n] = h[<<n, f[n - 1]>>]
  BY <1>4 DEF S
<1> QED BY <1>5 DEF IsLoop

-----------------------------------------------------------------------------
(* Pointers.                                                                *)

\* rank counts down along the pointers next, which end at null.
CountsDown(rank, N, S, next, null) ==
  /\ rank \in [S -> 0..N]
  /\ \A s \in S : next[s] # null => next[s] \in S /\ rank[next[s]] < rank[s]

\* f is what a walk along the pointers computes: b[s] where it ends, and
\* h[<<s, v>>] where it comes back from the next one with v.
IsWalk(f, S, V, next, null, b, h) ==
  /\ f \in [S -> V]
  /\ \A s \in S : f[s] = IF next[s] = null THEN b[s] ELSE h[<<s, f[next[s]]>>]

\* A walk along pointers without a cycle has a value wherever it starts.
LEMMA WalkExists ==
  ASSUME NEW N \in Nat, NEW S, NEW V, NEW next, NEW null, NEW rank,
         CountsDown(rank, N, S, next, null),
         NEW b \in [S -> V], NEW h \in [S \X V -> V]
  PROVE  \E f : IsWalk(f, S, V, next, null, b, h)
<1> DEFINE Turn(f, s) == IF next[s] = null THEN b[s] ELSE h[<<s, f[next[s]]>>]
           T == {n \in 0..N : \E f \in [S -> V] : \A s \in S : rank[s] <= n => f[s] = Turn(f, s)}
<1>1. /\ \A s \in S : rank[s] \in 0..N
      /\ \A s \in S : next[s] # null => next[s] \in S /\ rank[next[s]] < rank[s]
  BY DEF CountsDown
<1>2. ASSUME NEW f \in [S -> V], NEW s \in S PROVE Turn(f, s) \in V
  BY <1>1
<1>3. ASSUME NEW n \in 0..N, NEW f \in [S -> V], \A s \in S : rank[s] < n => f[s] = Turn(f, s)
      PROVE  n \in T
  <2> DEFINE g == [s \in S |-> Turn(f, s)]
  <2>1. g \in [S -> V]
    <3> HIDE DEF Turn
    <3> QED BY <1>2
  <2>2. ASSUME NEW s \in S, rank[s] <= n PROVE g[s] = Turn(g, s)
    <3>1. g[s] = Turn(f, s)
      OBVIOUS
    <3>2. CASE next[s] = null
      BY <3>1, <3>2
    <3>3. CASE next[s] # null
      <4>1. next[s] \in S /\ rank[next[s]] < n
        BY <1>1, <2>2, <3>3
      <4>2. f[next[s]] = Turn(f, next[s]) /\ g[next[s]] = Turn(f, next[s])
        <5> HIDE DEF Turn
        <5> QED BY <1>3, <4>1
      <4>3. g[next[s]] = f[next[s]]
        <5> HIDE DEF Turn, g
        <5> QED BY <4>2
      <4> HIDE DEF g
      <4> QED BY <3>1, <4>3
    <3> QED BY <3>2, <3>3
  <2> HIDE DEF g, Turn
  <2> QED BY <2>1, <2>2
<1>4. 0 \in T
  <2>1. \A s \in S : ~(rank[s] < 0)
    BY <1>1
  <2>2. b \in [S -> V] /\ 0 \in 0..N
    OBVIOUS
  <2> HIDE DEF Turn, T
  <2> QED BY <1>3, <2>1, <2>2
<1>5. ASSUME NEW n \in 1..N, n - 1 \in T PROVE n \in T
  <2>1. PICK f \in [S -> V] : \A s \in S : rank[s] <= n - 1 => f[s] = Turn(f, s)
    <3> HIDE DEF Turn
    <3> QED BY <1>5
  <2>2. \A s \in S : rank[s] < n => rank[s] <= n - 1
    BY <1>1
  <2>3. n \in 0..N
    OBVIOUS
  <2> HIDE DEF Turn, T
  <2> QED BY <1>3, <2>1, <2>2, <2>3
<1> HIDE DEF T
<1>6. 0..N \subseteq T
  BY <1>4, <1>5, UpToInduction
<1>7. PICK f \in [S -> V] : \A s \in S : rank[s] <= N => f[s] = Turn(f, s)
  <2>1. N \in T
    BY <1>6
  <2> HIDE DEF Turn
  <2> QED BY <2>1 DEF T
<1>8. \A s \in S : f[s] = Turn(f, s)
  <2> HIDE DEF Turn
  <2> QED BY <1>1, <1>7
<1> QED BY <1>8 DEF IsWalk

\* What holds at s if it holds at the next one holds everywhere.
LEMMA PointerInduction ==
  ASSUME NEW N \in Nat, NEW S, NEW next, NEW null, NEW rank,
         CountsDown(rank, N, S, next, null), NEW G,
         \A s \in S : (next[s] # null => next[s] \in G) => s \in G
  PROVE  S \subseteq G
<1> DEFINE T == {n \in 0..N : \A s \in S : rank[s] <= n => s \in G}
<1>1. /\ \A s \in S : rank[s] \in 0..N
      /\ \A s \in S : next[s] # null => next[s] \in S /\ rank[next[s]] < rank[s]
  BY DEF CountsDown
<1>2. 0 \in T
  BY <1>1
<1>3. ASSUME NEW n \in 1..N, n - 1 \in T PROVE n \in T
  <2>1. ASSUME NEW s \in S, rank[s] <= n PROVE s \in G
    <3>1. next[s] # null => next[s] \in G
      <4>1. next[s] # null => next[s] \in S /\ rank[next[s]] <= n - 1
        BY <1>1, <2>1
      <4> QED BY <1>3, <4>1
    <3> QED BY <3>1
  <2> QED BY <2>1
<1> HIDE DEF T
<1>4. 0..N \subseteq T
  BY <1>2, <1>3, UpToInduction
<1>5. N \in T
  BY <1>4
<1> QED BY <1>1, <1>5 DEF T

-----------------------------------------------------------------------------
(* FlattenSeq, a recursive function of its library.                         *)

\* f is what FlattenSeq computes for ss, sequence by sequence.
IsFlattening(f, S, ss) ==
  /\ f \in [0..Len(ss) -> Seq(S)]
  /\ f[0] = <<>>
  /\ \A n \in 1..Len(ss) : f[n] = f[n - 1] \o ss[n]

LEMMA FlattenIsLoop ==
  ASSUME NEW S, NEW ss \in Seq(Seq(S))
  PROVE  \E f : IsFlattening(f, S, ss) /\ FlattenSeq(ss) = f[Len(ss)]
<1> DEFINE N == Len(ss)
           V == Seq(S)
           h == [p \in (1..N) \X V |-> p[2] \o ss[p[1]]]
           Turn(f, n) == IF n = 1 THEN ss[n] ELSE f[n - 1] \o ss[n]
           Eq(f) == f = [n \in 1..N |-> Turn(f, n)]
           F == CHOOSE f : Eq(f)
<1>1. N \in Nat /\ <<>> \in V /\ \A n \in 1..N : ss[n] \in V
  OBVIOUS
<1>2. ASSUME NEW n \in 1..N, NEW v \in V
      PROVE  h[<<n, v>>] = v \o ss[n] /\ h[<<n, v>>] \in V
  <2>1. v \in Seq(S) /\ ss[n] \in Seq(S)
    OBVIOUS
  <2>2. v \o ss[n] \in Seq(S)
    BY <2>1
  <2> QED BY <2>2
<1>3. h \in [(1..N) \X V -> V]
  OBVIOUS
<1>4. N # 0 => FlattenSeq(ss) = F[N]
  BY DEF FlattenSeq
<1>5. N = 0 => FlattenSeq(ss) = <<>>
  BY DEF FlattenSeq
<1>6. \A v \in V : <<>> \o v = v
  OBVIOUS
<1> HIDE DEF h, V, N
<1>7. PICK f : IsLoop(f, N, V, <<>>, h)
  BY <1>1, <1>3, LoopExists
<1>8. /\ f \in [0..N -> V] /\ f[0] = <<>>
      /\ \A n \in 1..N : f[n] = f[n - 1] \o ss[n]
  <2>1. f \in [0..N -> V] /\ f[0] = <<>> /\ \A n \in 1..N : f[n] = h[<<n, f[n - 1]>>]
    BY <1>7 DEF IsLoop
  <2>2. \A n \in 1..N : n - 1 \in 0..N
    BY <1>1
  <2> QED BY <1>2, <2>1, <2>2
<1> DEFINE g == [n \in 1..N |-> f[n]]
<1>9. Eq(g)
  <2>1. ASSUME NEW n \in 1..N PROVE g[n] = Turn(g, n)
    <3>1. CASE n = 1
      BY <1>1, <1>6, <1>8, <3>1
    <3>2. CASE n # 1
      <4>1. n - 1 \in 1..N
        BY <1>1, <3>2
      <4> QED BY <1>8, <3>2, <4>1
    <3> QED BY <3>1, <3>2
  <2>2. g = [n \in 1..N |-> g[n]]
    OBVIOUS
  <2> HIDE DEF Turn, g
  <2> QED BY <2>1, <2>2
<1>10. Eq(F)
  <2> HIDE DEF Eq, g
  <2> QED BY <1>9
<1> HIDE DEF F, g
<1>11. \A n \in 1..N : F[n] = Turn(F, n)
  <2> HIDE DEF Turn
  <2> QED BY <1>10
<1>12. N # 0 => F[N] = f[N]
  <2> DEFINE T == {n \in 0..N : n # 0 => F[n] = f[n]}
  <2>1. 0 \in T
    BY <1>1
  <2>2. ASSUME NEW n \in 1..N, n - 1 \in T PROVE n \in T
    <3>1. CASE n = 1
      <4>1. 1 \in 1..N /\ 0 \in 0..N /\ 1 \in 0..N /\ 1 - 1 = 0
        BY <1>1, <3>1
      <4>2. F[1] = ss[1] /\ ss[1] \in V
        BY <1>1, <1>11, <4>1
      <4>3. f[1] = <<>> \o ss[1]
        BY <1>8, <4>1
      <4>4. f[1] = F[1]
        BY <1>6, <4>2, <4>3
      <4> QED BY <3>1, <4>1, <4>4
    <3>2. CASE n # 1
      <4>1. F[n - 1] = f[n - 1]
        BY <1>1, <2>2, <3>2
      <4>2. F[n] = F[n - 1] \o ss[n]
        BY <1>11, <3>2
      <4> QED BY <1>1, <1>8, <4>1, <4>2
    <3> QED BY <3>1, <3>2
  <2> HIDE DEF T
  <2>3. 0..N \subseteq T
    BY <1>1, <2>1, <2>2, UpToInduction
  <2>4. N \in T
    BY <1>1, <2>3
  <2> QED BY <2>4 DEF T
<1>13. FlattenSeq(ss) = f[N]
  BY <1>4, <1>5, <1>8, <1>12
<1> QED BY <1>8, <1>13 DEF IsFlattening, N, V

\* What is flattened last comes last.
LEMMA FlattenAppend ==
  ASSUME NEW S, NEW ss \in Seq(Seq(S)), NEW t \in Seq(S)
  PROVE  /\ FlattenSeq(ss) \in Seq(S)
         /\ FlattenSeq(Append(ss, t)) = FlattenSeq(ss) \o t
<1> DEFINE N == Len(ss)
           l == Append(ss, t)
<1>1. /\ N \in Nat /\ l \in Seq(Seq(S)) /\ Len(l) = N + 1 /\ l[N + 1] = t
      /\ \A n \in 1..N : l[n] = ss[n]
  OBVIOUS
<1> HIDE DEF l
<1>2. PICK f : IsFlattening(f, S, ss) /\ FlattenSeq(ss) = f[N]
  BY FlattenIsLoop
<1>3. PICK g : IsFlattening(g, S, l) /\ FlattenSeq(l) = g[Len(l)]
  BY <1>1, FlattenIsLoop
<1>4. /\ f \in [0..N -> Seq(S)] /\ f[0] = <<>>
      /\ \A n \in 1..N : f[n] = f[n - 1] \o ss[n]
  BY <1>2 DEF IsFlattening
<1>5. /\ g[0] = <<>> /\ FlattenSeq(l) = g[N + 1]
      /\ \A n \in 1..(N + 1) : g[n] = g[n - 1] \o l[n]
  BY <1>1, <1>3 DEF IsFlattening
<1> DEFINE T == {n \in 0..N : g[n] = f[n]}
<1>6. 0 \in T
  BY <1>1, <1>4, <1>5
<1>7. ASSUME NEW n \in 1..N, n - 1 \in T PROVE n \in T
  <2>1. n \in 1..(N + 1) /\ n \in 0..N
    BY <1>1
  <2>2. g[n] = g[n - 1] \o ss[n]
    BY <1>1, <1>5, <2>1
  <2> QED BY <1>4, <1>7, <2>1, <2>2
<1> HIDE DEF T, N
<1>8. 0..N \subseteq T
  BY <1>1, <1>6, <1>7, UpToInduction
<1>9. g[N] = f[N]
  BY <1>1, <1>8 DEF T
<1>10. g[N + 1] = g[(N + 1) - 1] \o l[N + 1] /\ (N + 1) - 1 = N
  <2>1. N + 1 \in 1..(N + 1) /\ (N + 1) - 1 = N
    BY <1>1
  <2> QED BY <1>5, <2>1
<1>11. FlattenSeq(l) = FlattenSeq(ss) \o t
  BY <1>1, <1>2, <1>5, <1>9, <1>10
<1>12. f[N] \in Seq(S)
  BY <1>1, <1>4
<1> QED BY <1>2, <1>11, <1>12 DEF l

=============================================================================
