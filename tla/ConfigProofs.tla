---------------------------- MODULE ConfigProofs ----------------------------
(***************************************************************************)
(* Lemmas about Config, for settings of any length: what the loop of the   *)
(* load functions makes of them.                                           *)
(***************************************************************************)
EXTENDS Config, Induction

-----------------------------------------------------------------------------
(* The recursive functions exist and are what their equations say.          *)

\* f is the loop of the load functions, turn by turn.
LoadedTurns(f, S, list, elements, valid) ==
  /\ f \in [0..Len(elements) -> Seq(S)]
  /\ f[0] = list
  /\ \A n \in 1..Len(elements) :
       f[n] = IF n \in valid THEN <<elements[n]>> \o f[n - 1] ELSE f[n - 1]

\* f is what it is compared with, turn by turn.
KeptTurns(f, S, elements, valid) ==
  /\ f \in [0..Len(elements) -> Seq(S)]
  /\ f[0] = <<>>
  /\ \A n \in 1..Len(elements) :
       f[n] = IF n \in valid THEN Append(f[n - 1], elements[n]) ELSE f[n - 1]

\* Loaded is what its loop comes to.
LEMMA LoadedIsLoop ==
  ASSUME NEW S, NEW list \in Seq(S), NEW elements \in Seq(S), NEW valid
  PROVE  \E f : LoadedTurns(f, S, list, elements, valid) /\ Loaded(list, elements, valid) = f[Len(elements)]
<1> DEFINE N == Len(elements)
           V == Seq(S)
           h == [p \in (1..N) \X V |-> IF p[1] \in valid THEN <<elements[p[1]]>> \o p[2] ELSE p[2]]
           Turn(f, n) == IF n = 0 THEN list
                         ELSE IF n \in valid THEN Added(f[n - 1], elements[n]) ELSE f[n - 1]
           Eq(f) == f = [n \in 0..N |-> Turn(f, n)]
           F == CHOOSE f : Eq(f)
<1>1. N \in Nat /\ list \in V
  OBVIOUS
<1>2. ASSUME NEW n \in 1..N, NEW v \in V
      PROVE  /\ h[<<n, v>>] = IF n \in valid THEN <<elements[n]>> \o v ELSE v
             /\ h[<<n, v>>] \in V
  <2>1. elements[n] \in S /\ v \in Seq(S)
    OBVIOUS
  <2>2. <<elements[n]>> \o v \in Seq(S)
    BY <2>1
  <2> QED BY <2>2
<1>3. h \in [(1..N) \X V -> V]
  OBVIOUS
<1>4. Loaded(list, elements, valid) = F[N]
  BY DEF Loaded
<1> HIDE DEF h, V, N
<1>5. PICK g : IsLoop(g, N, V, list, h)
  BY <1>1, <1>3, LoopExists
<1>6. Eq(g)
  <2>1. g \in [0..N -> V]
    BY <1>5 DEF IsLoop
  <2>2. ASSUME NEW n \in 0..N PROVE g[n] = Turn(g, n)
    <3>1. CASE n = 0
      BY <1>5, <3>1 DEF IsLoop
    <3>2. CASE n # 0
      <4>1. n \in 1..N /\ n - 1 \in 0..N
        BY <1>1, <3>2
      <4>2. g[n] = h[<<n, g[n - 1]>>] /\ g[n - 1] \in V
        BY <1>5, <2>1, <4>1 DEF IsLoop
      <4> QED BY <1>2, <3>2, <4>1, <4>2 DEF Added
    <3> QED BY <3>1, <3>2
  <2> HIDE DEF Turn
  <2> QED BY <2>1, <2>2
<1>7. Eq(F)
  <2> HIDE DEF Eq
  <2> QED BY <1>6
<1> HIDE DEF F
<1>8. \A n \in 0..N : F[n] = Turn(F, n)
  <2> HIDE DEF Turn
  <2> QED BY <1>7
<1>9. F[0] = list
  BY <1>1, <1>8
<1>10. ASSUME NEW n \in 1..N
       PROVE  F[n] = IF n \in valid THEN <<elements[n]>> \o F[n - 1] ELSE F[n - 1]
  BY <1>1, <1>8 DEF Added
<1>11. 0..N \subseteq {n \in 0..N : F[n] \in V}
  <2> DEFINE T == {n \in 0..N : F[n] \in V}
  <2>1. 0 \in T
    BY <1>1, <1>9
  <2>2. ASSUME NEW n \in 1..N, n - 1 \in T PROVE n \in T
    <3>1. F[n - 1] \in V
      BY <2>2
    <3>2. F[n] = h[<<n, F[n - 1]>>]
      BY <1>2, <1>10, <3>1
    <3>3. h[<<n, F[n - 1]>>] \in V
      BY <1>2, <3>1
    <3>4. F[n] \in V /\ n \in 0..N
      BY <1>1, <3>2, <3>3
    <3> QED BY <3>4
  <2> HIDE DEF T
  <2>3. 0..N \subseteq T
    BY <1>1, <2>1, <2>2, UpToInduction
  <2> QED BY <2>3 DEF T
<1>12. F \in [0..N -> V]
  BY <1>7, <1>11
<1> QED BY <1>4, <1>9, <1>10, <1>12 DEF LoadedTurns, N, V

\* Kept is what its recursion comes to.
LEMMA KeptIsLoop ==
  ASSUME NEW S, NEW elements \in Seq(S), NEW valid
  PROVE  \E f : KeptTurns(f, S, elements, valid) /\ Kept(elements, valid) = f[Len(elements)]
<1> DEFINE N == Len(elements)
           V == Seq(S)
           h == [p \in (1..N) \X V |-> IF p[1] \in valid THEN Append(p[2], elements[p[1]]) ELSE p[2]]
           Turn(f, n) == IF n = 0 THEN <<>>
                         ELSE IF n \in valid THEN Append(f[n - 1], elements[n]) ELSE f[n - 1]
           Eq(f) == f = [n \in 0..N |-> Turn(f, n)]
           F == CHOOSE f : Eq(f)
<1>1. N \in Nat /\ <<>> \in V
  OBVIOUS
<1>2. ASSUME NEW n \in 1..N, NEW v \in V
      PROVE  /\ h[<<n, v>>] = IF n \in valid THEN Append(v, elements[n]) ELSE v
             /\ h[<<n, v>>] \in V
  <2>1. elements[n] \in S /\ v \in Seq(S)
    OBVIOUS
  <2>2. Append(v, elements[n]) \in Seq(S)
    BY <2>1
  <2> QED BY <2>2
<1>3. h \in [(1..N) \X V -> V]
  OBVIOUS
<1>4. Kept(elements, valid) = F[N]
  BY DEF Kept
<1> HIDE DEF h, V, N
<1>5. PICK g : IsLoop(g, N, V, <<>>, h)
  BY <1>1, <1>3, LoopExists
<1>6. Eq(g)
  <2>1. g \in [0..N -> V]
    BY <1>5 DEF IsLoop
  <2>2. ASSUME NEW n \in 0..N PROVE g[n] = Turn(g, n)
    <3>1. CASE n = 0
      BY <1>5, <3>1 DEF IsLoop
    <3>2. CASE n # 0
      <4>1. n \in 1..N /\ n - 1 \in 0..N
        BY <1>1, <3>2
      <4>2. g[n] = h[<<n, g[n - 1]>>] /\ g[n - 1] \in V
        BY <1>5, <2>1, <4>1 DEF IsLoop
      <4> QED BY <1>2, <3>2, <4>1, <4>2
    <3> QED BY <3>1, <3>2
  <2> HIDE DEF Turn
  <2> QED BY <2>1, <2>2
<1>7. Eq(F)
  <2> HIDE DEF Eq
  <2> QED BY <1>6
<1> HIDE DEF F
<1>8. \A n \in 0..N : F[n] = Turn(F, n)
  <2> HIDE DEF Turn
  <2> QED BY <1>7
<1>9. F[0] = <<>>
  BY <1>1, <1>8
<1>10. ASSUME NEW n \in 1..N
       PROVE  F[n] = IF n \in valid THEN Append(F[n - 1], elements[n]) ELSE F[n - 1]
  BY <1>1, <1>8
<1>11. 0..N \subseteq {n \in 0..N : F[n] \in V}
  <2> DEFINE T == {n \in 0..N : F[n] \in V}
  <2>1. 0 \in T
    BY <1>1, <1>9
  <2>2. ASSUME NEW n \in 1..N, n - 1 \in T PROVE n \in T
    <3>1. F[n - 1] \in V
      BY <2>2
    <3>2. F[n] = h[<<n, F[n - 1]>>]
      BY <1>2, <1>10, <3>1
    <3>3. h[<<n, F[n - 1]>>] \in V
      BY <1>2, <3>1
    <3>4. F[n] \in V /\ n \in 0..N
      BY <1>1, <3>2, <3>3
    <3> QED BY <3>4
  <2> HIDE DEF T
  <2>3. 0..N \subseteq T
    BY <1>1, <2>1, <2>2, UpToInduction
  <2> QED BY <2>3 DEF T
<1>12. F \in [0..N -> V]
  BY <1>7, <1>11
<1> QED BY <1>4, <1>9, <1>10, <1>12 DEF KeptTurns, N, V

-----------------------------------------------------------------------------
(* What the loop makes of the elements.                                     *)

LEMMA ReverseSeq ==
  ASSUME NEW S, NEW s \in Seq(S)
  PROVE  /\ Reverse(s) \in Seq(S)
         /\ Len(Reverse(s)) = Len(s)
         /\ \A i \in 1..Len(s) : Reverse(s)[i] = s[Len(s) + 1 - i]
<1>1. \A i \in 1..Len(s) : (Len(s) - i) + 1 \in 1..Len(s)
  OBVIOUS
<1> QED BY <1>1 DEF Reverse

\* What is appended comes first in the reverse.
LEMMA ReverseAppend ==
  ASSUME NEW S, NEW s \in Seq(S), NEW e \in S
  PROVE  Reverse(Append(s, e)) = <<e>> \o Reverse(s)
<1> DEFINE a == Append(s, e)
           r == Reverse(s)
           l == <<e>> \o r
<1>1. /\ a \in Seq(S) /\ Len(a) = Len(s) + 1 /\ a[Len(s) + 1] = e
      /\ \A i \in 1..Len(s) : a[i] = s[i]
  OBVIOUS
<1> HIDE DEF a
<1>2. /\ Reverse(a) \in Seq(S) /\ Len(Reverse(a)) = Len(s) + 1
      /\ \A i \in 1..(Len(s) + 1) : Reverse(a)[i] = a[Len(s) + 2 - i]
  <2>1. /\ Reverse(a) \in Seq(S) /\ Len(Reverse(a)) = Len(a)
        /\ \A i \in 1..Len(a) : Reverse(a)[i] = a[Len(a) + 1 - i]
    BY <1>1, ReverseSeq
  <2>2. \A i \in 1..(Len(s) + 1) : (Len(s) + 1) + 1 - i = Len(s) + 2 - i
    OBVIOUS
  <2> QED BY <1>1, <2>1, <2>2
<1>3. /\ r \in Seq(S) /\ Len(r) = Len(s)
      /\ \A i \in 1..Len(s) : r[i] = s[Len(s) + 1 - i]
  BY ReverseSeq
<1> HIDE DEF r
<1>4. /\ l \in Seq(S) /\ Len(l) = Len(s) + 1 /\ l[1] = e
      /\ \A i \in 2..(Len(s) + 1) : l[i] = r[i - 1]
  BY <1>3
<1> HIDE DEF l
<1>5. ASSUME NEW i \in 1..(Len(s) + 1) PROVE Reverse(a)[i] = l[i]
  <2>1. CASE i = 1
    BY <1>1, <1>2, <1>4, <2>1
  <2>2. CASE i # 1
    <3>1. i - 1 \in 1..Len(s) /\ Len(s) + 1 - (i - 1) = Len(s) + 2 - i
      BY <2>2
    <3>2. Len(s) + 2 - i \in 1..Len(s)
      BY <2>2
    <3>3. Reverse(a)[i] = s[Len(s) + 2 - i]
      BY <1>1, <1>2, <3>2
    <3>4. l[i] = r[i - 1] /\ r[i - 1] = s[Len(s) + 2 - i]
      <4>1. i \in 2..(Len(s) + 1)
        BY <2>2
      <4> QED BY <1>3, <1>4, <3>1, <4>1
    <3> QED BY <3>3, <3>4
  <2> QED BY <2>1, <2>2
<1>6. Reverse(a) = l
  BY <1>2, <1>4, <1>5
<1> QED BY <1>6 DEF a, l, r

\* Adding at the head reverses: the elements that are valid come in front of
\* the list, the last one first.
LEMMA LoadedReversesKept ==
  ASSUME NEW S, NEW list \in Seq(S), NEW elements \in Seq(S), NEW valid
  PROVE  /\ Loaded(list, elements, valid) = Reverse(Kept(elements, valid)) \o list
         /\ Kept(elements, valid) \in Seq(S)
<1> DEFINE N == Len(elements)
<1>1. PICK f : LoadedTurns(f, S, list, elements, valid) /\ Loaded(list, elements, valid) = f[N]
  BY LoadedIsLoop
<1>2. PICK g : KeptTurns(g, S, elements, valid) /\ Kept(elements, valid) = g[N]
  BY KeptIsLoop
<1> DEFINE T == {n \in 0..N : f[n] = Reverse(g[n]) \o list}
<1>3. N \in Nat
  OBVIOUS
<1>4. 0 \in T
  <2>1. f[0] = list /\ g[0] = <<>>
    BY <1>1, <1>2 DEF LoadedTurns, KeptTurns
  <2>2. Reverse(<<>>) = <<>>
    BY DEF Reverse
  <2>3. <<>> \o list = list
    OBVIOUS
  <2> QED BY <1>3, <2>1, <2>2, <2>3
<1>5. ASSUME NEW n \in 1..N, n - 1 \in T PROVE n \in T
  <2>1. n - 1 \in 0..N /\ g[n - 1] \in Seq(S) /\ f[n - 1] = Reverse(g[n - 1]) \o list
    BY <1>2, <1>5 DEF KeptTurns
  <2>2. CASE n \notin valid
    <3>1. f[n] = f[n - 1] /\ g[n] = g[n - 1]
      BY <1>1, <1>2, <2>2 DEF LoadedTurns, KeptTurns
    <3> QED BY <2>1, <3>1
  <2>3. CASE n \in valid
    <3> DEFINE e == elements[n]
               r == Reverse(g[n - 1])
    <3>1. e \in S
      OBVIOUS
    <3>2. f[n] = <<e>> \o f[n - 1] /\ g[n] = Append(g[n - 1], e)
      BY <1>1, <1>2, <2>3 DEF LoadedTurns, KeptTurns
    <3>3. r \in Seq(S)
      BY <2>1, ReverseSeq
    <3>4. Reverse(g[n]) = <<e>> \o r
      BY <2>1, <3>1, <3>2, ReverseAppend
    <3>5. f[n] = <<e>> \o (r \o list)
      BY <2>1, <3>2
    <3> HIDE DEF e, r
    <3>6. <<e>> \o (r \o list) = (<<e>> \o r) \o list
      BY <3>1, <3>3
    <3>7. f[n] = Reverse(g[n]) \o list
      BY <3>4, <3>5, <3>6
    <3> QED BY <3>7
  <2> QED BY <2>2, <2>3
<1> HIDE DEF T, N
<1>6. 0..N \subseteq T
  BY <1>3, <1>4, <1>5, UpToInduction
<1>7. N \in 0..N
  BY <1>3
<1>8. f[N] = Reverse(g[N]) \o list
  BY <1>6, <1>7 DEF T
<1>9. g[N] \in Seq(S)
  BY <1>2, <1>7 DEF KeptTurns, N
<1> QED BY <1>1, <1>2, <1>8, <1>9

\* What is kept is valid.
LEMMA KeptIsValid ==
  ASSUME NEW S, NEW elements \in Seq(S), NEW valid
  PROVE  \A p \in 1..Len(Kept(elements, valid)) :
           \E i \in 1..Len(elements) : i \in valid /\ Kept(elements, valid)[p] = elements[i]
<1> DEFINE N == Len(elements)
<1>1. PICK g : KeptTurns(g, S, elements, valid) /\ Kept(elements, valid) = g[N]
  BY KeptIsLoop
<1> DEFINE Good(s) == \A p \in 1..Len(s) : \E i \in 1..N : i \in valid /\ s[p] = elements[i]
           T == {n \in 0..N : Good(g[n])}
<1>2. N \in Nat
  OBVIOUS
<1>3. 0 \in T
  BY <1>1, <1>2 DEF KeptTurns
<1>4. ASSUME NEW n \in 1..N, n - 1 \in T PROVE n \in T
  <2>1. n - 1 \in 0..N /\ g[n - 1] \in Seq(S) /\ Good(g[n - 1])
    BY <1>1, <1>4 DEF KeptTurns
  <2>2. CASE n \notin valid
    <3>1. g[n] = g[n - 1]
      BY <1>1, <2>2 DEF KeptTurns
    <3>2. Good(g[n]) /\ n \in 0..N
      BY <2>1, <3>1
    <3> QED BY <3>2
  <2>3. CASE n \in valid
    <3>1. g[n] = Append(g[n - 1], elements[n])
      BY <1>1, <2>3 DEF KeptTurns
    <3>0. elements[n] \in S
      OBVIOUS
    <3>2. ASSUME NEW p \in 1..Len(g[n]) PROVE \E i \in 1..N : i \in valid /\ g[n][p] = elements[i]
      <4>1. CASE p \in 1..Len(g[n - 1])
        <5>1. g[n][p] = g[n - 1][p]
          BY <2>1, <3>0, <3>1, <4>1
        <5> QED BY <2>1, <4>1, <5>1
      <4>2. CASE p \notin 1..Len(g[n - 1])
        <5>1. g[n][p] = elements[n]
          BY <2>1, <3>0, <3>1, <4>2
        <5> QED BY <2>3, <5>1
      <4> QED BY <4>1, <4>2
    <3>3. n \in 0..N
      OBVIOUS
    <3> QED BY <3>2, <3>3
  <2> QED BY <2>2, <2>3
<1> HIDE DEF T, N, Good
<1>5. 0..N \subseteq T
  BY <1>2, <1>3, <1>4, UpToInduction
<1>6. Good(g[N])
  BY <1>2, <1>5 DEF T
<1> QED BY <1>1, <1>6 DEF Good, N

\* The entries of r are the valid ones of the first n elements, the last first.
Backwards(at, r, n, elements, valid) ==
  /\ at \in [1..Len(r) -> 1..n]
  /\ \A p \in 1..Len(r) : at[p] \in valid /\ r[p] = elements[at[p]]
  /\ \A p, q \in 1..Len(r) : p < q => at[p] > at[q]
  /\ \A i \in 1..n : i \in valid => \E p \in 1..Len(r) : at[p] = i

\* Every entry of a list loaded from nothing can be told where it comes from.
LEMMA LoadedBackwards ==
  ASSUME NEW S, NEW elements \in Seq(S), NEW valid
  PROVE  /\ Loaded(<<>>, elements, valid) \in Seq(S)
         /\ \E at : Backwards(at, Loaded(<<>>, elements, valid), Len(elements), elements, valid)
<1> DEFINE N == Len(elements)
<1>0. <<>> \in Seq(S)
  OBVIOUS
<1>1. PICK f : LoadedTurns(f, S, <<>>, elements, valid) /\ Loaded(<<>>, elements, valid) = f[N]
  BY <1>0, LoadedIsLoop
<1> DEFINE T == {n \in 0..N : \E at : Backwards(at, f[n], n, elements, valid)}
<1>2. N \in Nat
  OBVIOUS
<1>3. 0 \in T
  <2>1. f[0] = <<>> /\ Len(<<>>) = 0
    BY <1>1 DEF LoadedTurns
  <2>2. Backwards(<<>>, <<>>, 0, elements, valid)
    BY DEF Backwards
  <2> QED BY <1>2, <2>1, <2>2
<1>4. ASSUME NEW n \in 1..N, n - 1 \in T PROVE n \in T
  <2>1. n - 1 \in 0..N /\ n \in 0..N /\ f[n - 1] \in Seq(S)
    BY <1>1 DEF LoadedTurns
  <2>2. PICK at : Backwards(at, f[n - 1], n - 1, elements, valid)
    BY <1>4
  <2>3. CASE n \notin valid
    <3>1. f[n] = f[n - 1]
      BY <1>1, <2>3 DEF LoadedTurns
    <3>2. Backwards(at, f[n], n, elements, valid)
      <4>1. \A p \in 1..Len(f[n]) : at[p] \in 1..n
        BY <2>2, <3>1 DEF Backwards
      <4>2. \A i \in 1..n : i \in valid => i \in 1..(n - 1)
        BY <2>3
      <4> QED BY <2>2, <3>1, <4>1, <4>2 DEF Backwards
    <3> QED BY <2>1, <3>2
  <2>4. CASE n \in valid
    <3> DEFINE L == Len(f[n - 1])
               next == [p \in 1..(L + 1) |-> IF p = 1 THEN n ELSE at[p - 1]]
    <3>0. elements[n] \in S
      OBVIOUS
    <3>1. f[n] = <<elements[n]>> \o f[n - 1]
      BY <1>1, <2>4 DEF LoadedTurns
    <3>2. /\ L \in Nat /\ Len(f[n]) = L + 1 /\ f[n][1] = elements[n]
          /\ \A p \in 1..L : f[n][p + 1] = f[n - 1][p]
      BY <2>1, <3>0, <3>1
    <3>3. next[1] = n /\ \A p \in 1..L : next[p + 1] = at[p]
      BY <3>2
    <3>4. /\ \A p \in 1..L : at[p] \in 1..(n - 1) /\ at[p] \in valid /\ f[n - 1][p] = elements[at[p]]
          /\ \A p, q \in 1..L : p < q => at[p] > at[q]
          /\ \A i \in 1..(n - 1) : i \in valid => \E p \in 1..L : at[p] = i
      BY <2>2 DEF Backwards
    <3>5. DOMAIN next = 1..(L + 1)
      OBVIOUS
    <3> HIDE DEF L, next
    <3>6. ASSUME NEW p \in 1..(L + 1)
          PROVE  p = 1 \/ (p - 1 \in 1..L /\ next[p] = at[p - 1] /\ f[n][p] = f[n - 1][p - 1])
      <4>1. CASE p # 1
        <5>1. p - 1 \in 1..L /\ (p - 1) + 1 = p
          BY <3>2, <4>1
        <5>2. next[(p - 1) + 1] = at[p - 1] /\ f[n][(p - 1) + 1] = f[n - 1][p - 1]
          BY <3>2, <3>3, <5>1
        <5> QED BY <5>1, <5>2
      <4> QED BY <4>1
    <3>7. ASSUME NEW p \in 1..(L + 1)
          PROVE  next[p] \in 1..n /\ next[p] \in valid /\ f[n][p] = elements[next[p]]
      <4>1. CASE p = 1
        BY <2>4, <3>2, <3>3, <4>1
      <4>2. CASE p # 1
        <5>1. p - 1 \in 1..L /\ next[p] = at[p - 1] /\ f[n][p] = f[n - 1][p - 1]
          BY <3>6, <4>2
        <5> QED BY <3>4, <5>1
      <4> QED BY <4>1, <4>2
    <3>8. ASSUME NEW p \in 1..(L + 1), NEW q \in 1..(L + 1), p < q PROVE next[p] > next[q]
      <4>0. q # 1
        BY <3>2, <3>8
      <4>1. q - 1 \in 1..L /\ next[q] = at[q - 1]
        BY <3>6, <4>0
      <4>2. CASE p = 1
        BY <3>3, <3>4, <4>1, <4>2
      <4>3. CASE p # 1
        <5>1. p - 1 \in 1..L /\ next[p] = at[p - 1] /\ p - 1 < q - 1
          BY <3>2, <3>6, <3>8, <4>3
        <5> QED BY <3>4, <4>1, <5>1
      <4> QED BY <4>2, <4>3
    <3>9. ASSUME NEW i \in 1..n, i \in valid PROVE \E p \in 1..(L + 1) : next[p] = i
      <4>1. CASE i = n
        <5>1. 1 \in 1..(L + 1)
          BY <3>2
        <5> QED BY <3>3, <4>1, <5>1
      <4>2. CASE i # n
        <5>1. PICK p \in 1..L : at[p] = i
          BY <3>4, <3>9, <4>2
        <5>2. p + 1 \in 1..(L + 1)
          BY <3>2
        <5> QED BY <3>3, <5>1, <5>2
      <4> QED BY <4>1, <4>2
    <3>10. next = [p \in 1..(L + 1) |-> next[p]]
      BY DEF next
    <3>11. next \in [1..(L + 1) -> 1..n]
      BY <3>7, <3>10
    <3>12. Backwards(next, f[n], n, elements, valid)
      BY <3>2, <3>7, <3>8, <3>9, <3>11 DEF Backwards
    <3> QED BY <2>1, <3>12
  <2> QED BY <2>3, <2>4
<1> HIDE DEF T, N
<1>5. 0..N \subseteq T
  BY <1>2, <1>3, <1>4, UpToInduction
<1>6. N \in T
  BY <1>2, <1>5
<1>7. f[N] \in Seq(S)
  BY <1>1, <1>2 DEF LoadedTurns, N
<1> QED BY <1>1, <1>6, <1>7 DEF T, N
=============================================================================
