------------------------- MODULE TranscriptsProofs -------------------------
(***************************************************************************)
(* ContextAccepted for every history: what limiting, pruning, repair and   *)
(* merging of turns compute, by induction over the messages.               *)
(*                                                                         *)
(* The induction theorems of the library are about operators, which no     *)
(* prover instantiates; here induction is a fact about a set of numbers    *)
(* (UpTo), from the well-foundedness of Nat, and a recursive definition is *)
(* shown to define something by Recursion, whose step is a function.       *)
(***************************************************************************)
EXTENDS Transcripts, FiniteSetTheorems, WellFoundedInduction, TLAPS

---------------------------------------------------------------------------
(* Induction and recursion.                                                *)

\* Numbers are well-founded.
LEMMA LeastElement ==
  ASSUME NEW T, T \subseteq Nat, T # {}
  PROVE  \E n \in T : \A m \in T : n <= m
<1>. DEFINE R == OpToRel(<, Nat)
<1>1. IsWellFoundedOn(R, Nat)
  BY NatLessThanWellFounded
<1>2. \A i, j \in Nat : i < j => <<i, j>> \in R
  BY DEF OpToRel
<1>. HIDE DEF R
<1>3. PICK n \in T : \A m \in T : ~(<<m, n>> \in R)
  BY <1>1, WFMin
<1>4. \A m \in T : ~(m < n)
  BY <1>2, <1>3, Zenon
<1>5. \A m \in T : n \in Nat /\ m \in Nat /\ ~(m < n)
  BY <1>4
<1>. QED  BY <1>5

\* Induction up to N, over the set of the numbers for which something holds.
LEMMA UpTo ==
  ASSUME NEW N \in Nat, NEW T, 0 \in T, \A n \in 0..(N - 1) : n \in T => n + 1 \in T
  PROVE  \A n \in 0..N : n \in T
<1>. DEFINE D == (0..N) \ T
<1>. SUFFICES ASSUME D # {} PROVE FALSE
  OBVIOUS
<1>1. D \subseteq Nat
  OBVIOUS
<1>. HIDE DEF D
<1>2. PICK n \in D : \A m \in D : n <= m
  BY <1>1, LeastElement
<1>3. n \in (0..N) \ T /\ \A m \in (0..N) \ T : n <= m
  BY <1>2 DEF D
<1>4. n # 0 /\ n - 1 \in 0..(N - 1) /\ n = (n - 1) + 1
  BY <1>3
<1>5. n - 1 \in T
  BY <1>3, <1>4
<1>. QED  BY <1>3, <1>4, <1>5

\* A recursion up to N whose step is a function has a solution.
Solves(f, N, base, step) == f[0] = base /\ \A n \in 1..N : f[n] = step[n][f[n - 1]]

LEMMA Recursion ==
  ASSUME NEW N \in Nat, NEW S, NEW base \in S, NEW step \in [1..N -> [S -> S]]
  PROVE  \E f \in [0..N -> S] : Solves(f, N, base, step)
<1>. DEFINE T == {n \in 0..N : \E g \in [0..n -> S] : Solves(g, n, base, step)}
<1>1. 0 \in T
  <2>1. [k \in 0..0 |-> base] \in [0..0 -> S] /\ Solves([k \in 0..0 |-> base], 0, base, step)
    BY DEF Solves
  <2>. QED  BY <2>1
<1>2. ASSUME NEW n \in 0..(N - 1), n \in T PROVE n + 1 \in T
  <2>1. PICK g \in [0..n -> S] : Solves(g, n, base, step)
    BY <1>2
  <2>. DEFINE h == [k \in 0..(n + 1) |-> IF k <= n THEN g[k] ELSE step[n + 1][g[n]]]
  <2>2. n + 1 \in 1..N /\ n \in 0..n /\ g[n] \in S
    BY <2>1
  <2>3. step[n + 1][g[n]] \in S
    BY <2>2
  <2>4. h \in [0..(n + 1) -> S]
    BY <2>1, <2>3
  <2>5. h[0] = base
    BY <2>1 DEF Solves
  <2>6. ASSUME NEW k \in 1..n PROVE h[k] = step[k][h[k - 1]]
    BY <2>1 DEF Solves
  <2>7. h[n + 1] = step[n + 1][h[n]]
    OBVIOUS
  <2>. HIDE DEF h
  <2>8. Solves(h, n + 1, base, step)
    BY <2>5, <2>6, <2>7 DEF Solves
  <2>. QED  BY <2>2, <2>4, <2>8
<1>. HIDE DEF T
<1>3. \A n \in 0..N : n \in T
  BY <1>1, <1>2, UpTo
<1>. QED  BY <1>3 DEF T

---------------------------------------------------------------------------
(* Sizes.                                                                  *)

\* What the recursion Sizes computes.
LEMMA SizesStep ==
  ASSUME NEW s \in Seq(Message), NEW S
  PROVE  /\ Sizes(s, S) \in [0..Len(s) -> Nat]
         /\ Sizes(s, S)[0] = 0
         /\ \A n \in 1..Len(s) :
              Sizes(s, S)[n] = Sizes(s, S)[n - 1] + (IF n \in S THEN s[n].size ELSE 0)
<1>. DEFINE Part(n) == IF n \in S THEN s[n].size ELSE 0
            step == [n \in 1..Len(s) |-> [x \in Nat |-> x + Part(n)]]
<1>1. Len(s) \in Nat /\ \A n \in 1..Len(s) : s[n] \in Message
  OBVIOUS
<1>2. \A n \in 1..Len(s) : Part(n) \in Nat
  BY <1>1 DEF Message
<1>. HIDE DEF Part
<1>3. step \in [1..Len(s) -> [Nat -> Nat]]
  BY <1>2
<1>4. PICK f \in [0..Len(s) -> Nat] : Solves(f, Len(s), 0, step)
  <2>1. 0 \in Nat
    OBVIOUS
  <2>. QED  BY <1>1, <1>3, <2>1, Recursion, Zenon
<1>5. f[0] = 0 /\ \A n \in 1..Len(s) : f[n] = f[n - 1] + Part(n)
  <2>1. ASSUME NEW n \in 1..Len(s) PROVE f[n] = f[n - 1] + Part(n)
    <3>1. f[n] = step[n][f[n - 1]]
      BY <1>4 DEF Solves
    <3>2. n - 1 \in 0..Len(s)
      BY <1>1
    <3>3. f[n - 1] \in Nat
      BY <3>2
    <3>. QED  BY <3>1, <3>3
  <2>. QED  BY <1>4, <2>1 DEF Solves
<1>6. f = [n \in 0..Len(s) |-> IF n = 0 THEN 0 ELSE f[n - 1] + Part(n)]
  BY <1>4, <1>5
<1>. DEFINE g == CHOOSE g : g = [n \in 0..Len(s) |-> IF n = 0 THEN 0 ELSE g[n - 1] + Part(n)]
<1>7. g = [n \in 0..Len(s) |-> IF n = 0 THEN 0 ELSE g[n - 1] + Part(n)]
  BY <1>6
<1>8. Sizes(s, S) = g
  BY DEF Sizes, Part
<1>. HIDE DEF g
<1>9. g[0] = 0 /\ \A n \in 1..Len(s) : g[n] = g[n - 1] + Part(n)
  BY <1>1, <1>7
<1>10. g \in [0..Len(s) -> Nat]
  <2>. DEFINE T == {n \in 0..Len(s) : g[n] \in Nat}
  <2>1. 0 \in T
    BY <1>1, <1>9
  <2>2. ASSUME NEW n \in 0..(Len(s) - 1), n \in T PROVE n + 1 \in T
    <3>1. g[n + 1] = g[n] + Part(n + 1) /\ Part(n + 1) \in Nat /\ n + 1 \in 0..Len(s)
      BY <1>1, <1>2, <1>9
    <3>. QED  BY <2>2, <3>1
  <2>. HIDE DEF T
  <2>3. \A n \in 0..Len(s) : n \in T
    BY <1>1, <2>1, <2>2, UpTo
  <2>. QED  BY <1>7, <2>3 DEF T
<1>. QED  BY <1>8, <1>9, <1>10 DEF Part

LEMMA SizeIsNat ==
  ASSUME NEW s \in Seq(Message), NEW S
  PROVE  SizeAt(s, S) \in Nat
BY SizesStep DEF SizeAt

\* Transcripts that have the same to count have the same size.
LEMMA SizesAgree ==
  ASSUME NEW s \in Seq(Message), NEW t \in Seq(Message), NEW S, NEW T,
         NEW N \in Nat, N <= Len(s), N <= Len(t),
         \A n \in 1..N : (IF n \in S THEN s[n].size ELSE 0) = (IF n \in T THEN t[n].size ELSE 0)
  PROVE  \A n \in 0..N : Sizes(s, S)[n] = Sizes(t, T)[n]
<1>. DEFINE D == {n \in 0..N : Sizes(s, S)[n] = Sizes(t, T)[n]}
<1>0. Len(s) \in Nat /\ Len(t) \in Nat
  OBVIOUS
<1>1. 0 \in D
  BY SizesStep
<1>2. ASSUME NEW n \in 0..(N - 1), n \in D PROVE n + 1 \in D
  <2>1. n + 1 \in 1..N /\ n + 1 \in 1..Len(s) /\ n + 1 \in 1..Len(t) /\ (n + 1) - 1 = n
    BY <1>0
  <2>2. Sizes(s, S)[n + 1] = Sizes(s, S)[n] + (IF n + 1 \in S THEN s[n + 1].size ELSE 0)
    BY <2>1, SizesStep
  <2>3. Sizes(t, T)[n + 1] = Sizes(t, T)[n] + (IF n + 1 \in T THEN t[n + 1].size ELSE 0)
    BY <2>1, SizesStep
  <2>. QED  BY <1>2, <2>1, <2>2, <2>3
<1>. HIDE DEF D
<1>3. \A n \in 0..N : n \in D
  BY <1>1, <1>2, UpTo
<1>. QED  BY <1>3 DEF D

\* What the user says in a transcript, and in one after the other.
Said(s) == SizeAt(s, Users(s))

LEMMA SaidOfBoth ==
  ASSUME NEW a \in Seq(Message), NEW b \in Seq(Message)
  PROVE  Said(a \o b) = Said(a) + Said(b)
<1>. DEFINE c == a \o b
            D == {n \in 0..Len(b) :
                    Sizes(c, Users(c))[Len(a) + n] = Said(a) + Sizes(b, Users(b))[n]}
<1>1. /\ c \in Seq(Message) /\ Len(c) = Len(a) + Len(b) /\ Len(a) \in Nat /\ Len(b) \in Nat
      /\ \A n \in 1..Len(a) : c[n] = a[n]
      /\ \A n \in 1..Len(b) : c[Len(a) + n] = b[n]
  OBVIOUS
<1>. HIDE DEF c
<1>2. 0 \in D
  <2>1. \A n \in 1..Len(a) : n \in Users(c) <=> n \in Users(a)
    BY <1>1 DEF Users
  <2>2. \A n \in 0..Len(a) : Sizes(c, Users(c))[n] = Sizes(a, Users(a))[n]
    BY <1>1, <2>1, SizesAgree
  <2>3. Sizes(c, Users(c))[Len(a)] = Said(a) /\ Said(a) \in Nat
    BY <1>1, <2>2, SizesStep DEF Said, SizeAt
  <2>4. Sizes(b, Users(b))[0] = 0
    BY SizesStep
  <2>. QED  BY <1>1, <2>3, <2>4
<1>3. ASSUME NEW n \in 0..(Len(b) - 1), n \in D PROVE n + 1 \in D
  <2>. DEFINE i == Len(a) + n + 1
  <2>1. /\ i \in 1..Len(c) /\ n + 1 \in 1..Len(b) /\ i - 1 = Len(a) + n /\ (n + 1) - 1 = n
        /\ i = Len(a) + (n + 1) /\ n \in 0..Len(b)
    BY <1>1
  <2>. HIDE DEF i
  <2>2. c[i] = b[n + 1] /\ (i \in Users(c) <=> n + 1 \in Users(b))
    BY <1>1, <2>1 DEF Users
  <2>3. Sizes(c, Users(c))[i] =
          Sizes(c, Users(c))[Len(a) + n] + (IF i \in Users(c) THEN c[i].size ELSE 0)
    <3>1. \A k \in 1..Len(c) : Sizes(c, Users(c))[k] =
            Sizes(c, Users(c))[k - 1] + (IF k \in Users(c) THEN c[k].size ELSE 0)
      BY <1>1, SizesStep
    <3>. QED  BY <2>1, <3>1
  <2>4. Sizes(b, Users(b))[n + 1] =
          Sizes(b, Users(b))[n] + (IF n + 1 \in Users(b) THEN b[n + 1].size ELSE 0)
    BY <2>1, SizesStep
  <2>5. /\ Sizes(b, Users(b))[n] \in Nat /\ Said(a) \in Nat
        /\ (IF n + 1 \in Users(b) THEN b[n + 1].size ELSE 0) \in Nat
    <3>0. b[n + 1] \in Message
      BY <2>1
    <3>1. b[n + 1].size \in Nat
      BY <3>0 DEF Message
    <3>2. Sizes(b, Users(b)) \in [0..Len(b) -> Nat]
      BY SizesStep
    <3>. QED  BY <2>1, <3>1, <3>2, SizeIsNat DEF Said
  <2>6. Sizes(c, Users(c))[Len(a) + n] = Said(a) + Sizes(b, Users(b))[n]
    BY <1>3
  <2>7. Sizes(c, Users(c))[i] = Said(a) + Sizes(b, Users(b))[n + 1]
    BY <2>2, <2>3, <2>4, <2>5, <2>6
  <2>. QED  BY <1>1, <2>1, <2>7
<1>. HIDE DEF D
<1>4. \A n \in 0..Len(b) : n \in D
  BY <1>1, <1>2, <1>3, UpTo
<1>. QED  BY <1>1, <1>4 DEF D, Said, SizeAt, c

---------------------------------------------------------------------------
(* What FlattenSeq computes: the pieces one after the other.               *)

\* The prefixes of the result.
LEMMA FlattenStep ==
  ASSUME NEW T, NEW ss \in Seq(Seq(T))
  PROVE  \E out \in [0..Len(ss) -> Seq(T)] :
           /\ out[0] = <<>> /\ FlattenSeq(ss) = out[Len(ss)]
           /\ \A n \in 1..Len(ss) : out[n] = out[n - 1] \o ss[n]
<1>. DEFINE L == Len(ss)
<1>1. L \in Nat /\ \A n \in 1..L : ss[n] \in Seq(T)
  OBVIOUS
<1>2. CASE L = 0
  <2>1. ss = <<>> /\ FlattenSeq(ss) = <<>>
    BY <1>2 DEF FlattenSeq
  <2>. DEFINE out == [n \in 0..0 |-> ss]
  <2>2. out \in [0..L -> Seq(T)] /\ out[0] = <<>> /\ FlattenSeq(ss) = out[L]
    BY <1>2, <2>1
  <2>3. \A n \in 1..L : out[n] = out[n - 1] \o ss[n]
    BY <1>2
  <2>. HIDE DEF out
  <2>. QED  BY <2>2, <2>3
<1>3. CASE L # 0
  <2>. DEFINE N == L - 1
              step == [n \in 1..N |-> [x \in Seq(T) |-> x \o ss[n + 1]]]
  <2>1. N \in Nat /\ ss[1] \in Seq(T) /\ step \in [1..N -> [Seq(T) -> Seq(T)]]
    <3>1. ASSUME NEW n \in 1..N, NEW x \in Seq(T) PROVE x \o ss[n + 1] \in Seq(T)
      <4>1. ss[n + 1] \in Seq(T)
        BY <1>1
      <4>. QED  BY <4>1
    <3>. QED  BY <1>1, <1>3, <3>1
  <2>2. PICK g \in [0..N -> Seq(T)] : Solves(g, N, ss[1], step)
    <3>. HIDE DEF N, step
    <3>. QED  BY <2>1, Recursion, Zenon
  <2>3. g[0] = ss[1] /\ \A n \in 1..N : g[n] = g[n - 1] \o ss[n + 1]
    <3>1. ASSUME NEW n \in 1..N PROVE g[n] = g[n - 1] \o ss[n + 1]
      <4>1. g[n] = step[n][g[n - 1]]
        BY <2>2 DEF Solves
      <4>2. n - 1 \in 0..N
        BY <2>1
      <4>3. g[n - 1] \in Seq(T)
        BY <4>2
      <4>. QED  BY <4>1, <4>3
    <3>. QED  BY <2>2, <3>1 DEF Solves
  <2>. HIDE DEF step
  <2>. DEFINE f == [i \in 1..L |-> g[i - 1]]
  <2>4. f = [i \in 1..L |-> IF i = 1 THEN ss[i] ELSE f[i - 1] \o ss[i]]
    <3>1. ASSUME NEW i \in 1..L, i # 1 PROVE g[i - 1] = g[i - 2] \o ss[i]
      <4>1. i - 1 \in 1..N /\ (i - 1) + 1 = i /\ (i - 1) - 1 = i - 2
        BY <1>1, <3>1
      <4>. QED  BY <2>3, <4>1
    <3>2. ASSUME NEW i \in 1..L
          PROVE  f[i] = IF i = 1 THEN ss[i] ELSE f[i - 1] \o ss[i]
      <4>1. i # 1 => i - 1 \in 1..L /\ (i - 1) - 1 = i - 2
        BY <1>1
      <4>2. f[i] = g[i - 1] /\ (i # 1 => f[i - 1] = g[i - 2])
        BY <4>1
      <4>3. i = 1 => g[i - 1] = ss[i]
        BY <2>3
      <4>. HIDE DEF f
      <4>. QED  BY <3>1, <4>2, <4>3
    <3>. QED  BY <3>2
  <2>. DEFINE h == CHOOSE h : h = [i \in 1..L |-> IF i = 1 THEN ss[i] ELSE h[i - 1] \o ss[i]]
  <2>5. h = [i \in 1..L |-> IF i = 1 THEN ss[i] ELSE h[i - 1] \o ss[i]]
    <3>. HIDE DEF f
    <3>. QED  BY <2>4
  <2>6. FlattenSeq(ss) = h[L]
    BY <1>3 DEF FlattenSeq
  <2>. HIDE DEF h, f
  <2>7. h[1] = ss[1] /\ \A n \in 2..L : h[n] = h[n - 1] \o ss[n]
    <3>1. \A n \in 1..L : h[n] = IF n = 1 THEN ss[n] ELSE h[n - 1] \o ss[n]
      BY <2>5
    <3>2. 1 \in 1..L /\ \A n \in 2..L : n \in 1..L /\ n # 1
      BY <1>1, <1>3
    <3>. QED  BY <3>1, <3>2
  <2>8. \A n \in 0..N : n + 1 \in 1..L /\ h[n + 1] \in Seq(T)
    <3>. DEFINE D == {n \in 0..N : h[n + 1] \in Seq(T)}
    <3>1. 0 \in D
      BY <2>1, <2>7
    <3>2. ASSUME NEW n \in 0..(N - 1), n \in D PROVE n + 1 \in D
      <4>1. n + 2 \in 2..L /\ (n + 2) - 1 = n + 1 /\ (n + 1) + 1 = n + 2 /\ n + 1 \in 0..N
            /\ n + 2 \in 1..L
        BY <1>1, <2>1
      <4>2. h[n + 2] = h[n + 1] \o ss[n + 2] /\ ss[n + 2] \in Seq(T)
        BY <1>1, <2>7, <4>1
      <4>3. h[n + 1] \in Seq(T)
        BY <3>2
      <4>4. h[n + 1] \o ss[n + 2] \in Seq(T)
        BY <4>2, <4>3
      <4>. QED  BY <4>1, <4>2, <4>4
    <3>. HIDE DEF D
    <3>3. \A n \in 0..N : n \in D
      BY <2>1, <3>1, <3>2, UpTo
    <3>. QED  BY <1>1, <3>3 DEF D
  <2>. DEFINE out == [n \in 0..L |-> IF n = 0 THEN <<>> ELSE h[n]]
  <2>9. out \in [0..L -> Seq(T)]
    <3>1. ASSUME NEW n \in 1..L PROVE h[n] \in Seq(T)
      <4>1. n - 1 \in 0..N /\ (n - 1) + 1 = n
        BY <1>1
      <4>. QED  BY <2>8, <4>1
    <3>. QED  BY <1>1, <3>1
  <2>10. out[0] = <<>> /\ FlattenSeq(ss) = out[L]
    BY <1>1, <1>3, <2>6
  <2>11. ASSUME NEW n \in 1..L PROVE out[n] = out[n - 1] \o ss[n]
    <3>1. CASE n = 1
      <4>1. ss[1] \in Seq(T)
        BY <1>1, <1>3
      <4>2. <<>> \o ss[1] = ss[1]
        BY <4>1
      <4>3. out[1] = h[1] /\ out[0] = <<>>
        BY <1>1, <1>3
      <4>4. out[1] = out[0] \o ss[1]
        <5>. HIDE DEF out
        <5>. QED  BY <2>7, <4>2, <4>3
      <4>5. n - 1 = 0
        BY <3>1
      <4>. HIDE DEF out
      <4>. QED  BY <3>1, <4>4, <4>5
    <3>2. CASE n # 1
      <4>1. n \in 2..L /\ n - 1 \in 1..L
        BY <1>1, <3>2
      <4>2. out[n] = h[n] /\ out[n - 1] = h[n - 1]
        BY <1>1, <4>1
      <4>. HIDE DEF out
      <4>. QED  BY <2>7, <4>1, <4>2
    <3>. QED  BY <3>1, <3>2
  <2>. HIDE DEF out
  <2>. QED  BY <2>9, <2>10, <2>11
<1>. QED  BY <1>2, <1>3

\* What holds of every prefix holds of the result.
LEMMA FlattenBy ==
  ASSUME NEW T, NEW ss \in Seq(Seq(T)), NEW D, <<>> \in D[0],
         \A n \in 1..Len(ss) : \A t \in Seq(T) : t \in D[n - 1] => t \o ss[n] \in D[n]
  PROVE  FlattenSeq(ss) \in Seq(T) /\ FlattenSeq(ss) \in D[Len(ss)]
<1>1. PICK out \in [0..Len(ss) -> Seq(T)] :
        /\ out[0] = <<>> /\ FlattenSeq(ss) = out[Len(ss)]
        /\ \A n \in 1..Len(ss) : out[n] = out[n - 1] \o ss[n]
  BY FlattenStep
<1>2. Len(ss) \in Nat
  OBVIOUS
<1>. DEFINE P == {n \in 0..Len(ss) : out[n] \in D[n]}
<1>3. 0 \in P
  BY <1>1, <1>2
<1>4. ASSUME NEW n \in 0..(Len(ss) - 1), n \in P PROVE n + 1 \in P
  <2>1. n + 1 \in 1..Len(ss) /\ (n + 1) - 1 = n /\ n \in 0..Len(ss)
    BY <1>2
  <2>2. out[n] \in Seq(T) /\ out[n] \in D[n] /\ out[n + 1] = out[n] \o ss[n + 1]
    BY <1>1, <1>4, <2>1
  <2>3. out[n + 1] \in D[n + 1]
    BY <2>1, <2>2
  <2>. QED  BY <1>2, <2>1, <2>3
<1>. HIDE DEF P
<1>5. \A n \in 0..Len(ss) : n \in P
  BY <1>2, <1>3, <1>4, UpTo
<1>. QED  BY <1>1, <1>2, <1>5 DEF P

\* Pieces of messages make a transcript.
LEMMA FlattenIsSeq ==
  ASSUME NEW T, NEW ss \in Seq(Seq(T))
  PROVE  FlattenSeq(ss) \in Seq(T)
<1>1. PICK out \in [0..Len(ss) -> Seq(T)] : FlattenSeq(ss) = out[Len(ss)]
  BY FlattenStep
<1>. QED  BY <1>1

\* Chosen has what the sequence has at the chosen positions.
LEMMA ChosenFrom ==
  ASSUME NEW T, NEW s \in Seq(T), NEW S
  PROVE  Chosen(s, S) \in Seq({s[i] : i \in S \cap DOMAIN s})
<1>. DEFINE V  == {s[i] : i \in S \cap DOMAIN s}
            ss == [i \in DOMAIN s |-> IF i \in S THEN <<s[i]>> ELSE <<>>]
<1>1. \A i \in DOMAIN s : (IF i \in S THEN <<s[i]>> ELSE <<>>) \in Seq(V)
  <2>1. \A i \in DOMAIN s : i \in S => s[i] \in V
    OBVIOUS
  <2>. HIDE DEF V
  <2>. QED  BY <2>1
<1>2. DOMAIN s = 1..Len(s) /\ Len(s) \in Nat
  OBVIOUS
<1>. HIDE DEF V
<1>3. ss \in Seq(Seq(V))
  BY <1>1, <1>2
<1>4. FlattenSeq(ss) \in Seq(V)
  <2>. HIDE DEF ss
  <2>. QED  BY <1>3, FlattenIsSeq
<1>. QED  BY <1>4 DEF Chosen, V

---------------------------------------------------------------------------
(* Messages, and what holds of every transcript of the library.            *)

Call == [id : CallIds, input : BOOLEAN]

\* The three kinds of messages and what they have.
LEMMA MessageKinds ==
  ASSUME NEW m \in Message
  PROVE  /\ IsUser(m) \/ IsReply(m) \/ IsResult(m)
         /\ ~(IsUser(m) /\ IsReply(m)) /\ ~(IsUser(m) /\ IsResult(m))
         /\ ~(IsReply(m) /\ IsResult(m))
         /\ m.size \in Nat
         /\ IsReply(m) => m.calls \in Seq(Call) /\ m.failed \in BOOLEAN
         /\ IsResult(m) => m.id \in CallIds
         /\ \A n \in Nat : IsResult(m) => [m EXCEPT !.size = n] \in Message
BY DEF Message, IsUser, IsReply, IsResult, Call

\* The calls of a reply.
IdsOf(m) == {c.id : c \in Range(m.calls)}

\* No id is called by two replies.
OneCaller(s) ==
  \A i, j \in DOMAIN s :
    IsReply(s[i]) /\ IsReply(s[j]) /\ i # j => IdsOf(s[i]) \cap IdsOf(s[j]) = {}

\* After n messages the turn has ended: there is a reply that calls nothing, or
\* failed, and no user message after it.
ClosedAt(s, n) ==
  \E i \in 1..n : IsReply(s[i]) /\ ~Calling(s[i]) /\ \A k \in i + 1..n : ~IsUser(s[k])

\* The model does not reply in a turn that has ended.
RepliesInTurn(s) == \A j \in DOMAIN s : IsReply(s[j]) => ~ClosedAt(s, j - 1)

\* A message that belongs to the turn, written at the end.
LEMMA AppendTurn ==
  ASSUME NEW s \in Seq(Message), NEW m \in Message,
         RepliesInTurn(s), IsReply(m) => ~ClosedAt(s, Len(s))
  PROVE  /\ RepliesInTurn(Append(s, m))
         /\ ClosedAt(Append(s, m), Len(Append(s, m))) =>
              ~IsUser(m) /\ (ClosedAt(s, Len(s)) \/ (IsReply(m) /\ ~Calling(m)))
<1>. DEFINE t == Append(s, m)
<1>1. /\ Len(s) \in Nat /\ Len(t) = Len(s) + 1 /\ t[Len(s) + 1] = m
      /\ \A i \in 1..Len(s) : t[i] = s[i]
      /\ DOMAIN t = 1..(Len(s) + 1) /\ DOMAIN s = 1..Len(s)
  OBVIOUS
<1>. HIDE DEF t
<1>2. ASSUME NEW n \in 0..Len(s) PROVE ClosedAt(t, n) <=> ClosedAt(s, n)
  BY <1>1 DEF ClosedAt
<1>3. RepliesInTurn(t)
  BY <1>1, <1>2 DEF RepliesInTurn
<1>4. ASSUME ClosedAt(t, Len(t))
      PROVE  ~IsUser(m) /\ (ClosedAt(s, Len(s)) \/ (IsReply(m) /\ ~Calling(m)))
  <2>1. PICK i \in 1..Len(t) :
          IsReply(t[i]) /\ ~Calling(t[i]) /\ \A k \in i + 1..Len(t) : ~IsUser(t[k])
    BY <1>4 DEF ClosedAt
  <2>2. CASE i = Len(s) + 1
    BY <1>1, <2>1, <2>2, MessageKinds
  <2>3. CASE i # Len(s) + 1
    <3>1. i \in 1..Len(s) /\ Len(s) + 1 \in i + 1..Len(t)
      BY <1>1, <2>1, <2>3
    <3>2. \A k \in i + 1..Len(s) : k \in i + 1..Len(t) /\ t[k] = s[k]
      BY <1>1, <3>1
    <3>3. ClosedAt(s, Len(s))
      BY <1>1, <2>1, <3>1, <3>2 DEF ClosedAt
    <3>4. ~IsUser(t[Len(s) + 1])
      BY <2>1, <3>1
    <3>5. ~IsUser(m)
      BY <1>1, <3>4
    <3>. QED  BY <3>3, <3>5
  <2>. QED  BY <2>2, <2>3
<1>. QED  BY <1>3, <1>4 DEF t

\* A reply with calls of its own, written at the end.
LEMMA AppendCaller ==
  ASSUME NEW s \in Seq(Message), NEW m \in Message, OneCaller(s),
         \A i \in DOMAIN s : IsReply(s[i]) /\ IsReply(m) => IdsOf(s[i]) \cap IdsOf(m) = {}
  PROVE  OneCaller(Append(s, m))
<1>. DEFINE t == Append(s, m)
<1>1. /\ Len(s) \in Nat /\ DOMAIN t = 1..(Len(s) + 1) /\ DOMAIN s = 1..Len(s)
      /\ t[Len(s) + 1] = m /\ \A i \in 1..Len(s) : t[i] = s[i]
  OBVIOUS
<1>. HIDE DEF t
<1>2. OneCaller(t)
  BY <1>1 DEF OneCaller
<1>. QED  BY <1>2 DEF t

---------------------------------------------------------------------------
(* The history.                                                            *)

\* A set as a sequence has its members, each once.
LEMMA OrderedSet ==
  ASSUME NEW S, IsFiniteSet(S)
  PROVE  SetToSeq(S) \in Seq(S) /\ Range(SetToSeq(S)) = S
<1>. DEFINE n == Cardinality(S)
<1>1. n \in Nat /\ Bijection(1..n, S) # {}
  BY FS_CardinalityType DEF ExistsBijection
<1>2. \E f \in [1..n -> S] : IsInjective(f)
  BY <1>1 DEF Bijection, Injection
<1>. DEFINE q == SetToSeq(S)
<1>3. q \in [1..n -> S] /\ IsInjective(q)
  BY <1>2 DEF SetToSeq
<1>. HIDE DEF q
<1>4. q \in Injection(1..n, S) /\ IsFiniteSet(1..n) /\ Cardinality(1..n) = n
  BY <1>1, <1>3, FS_Interval DEF Injection
<1>5. q \in Surjection(1..n, S)
  BY <1>4, FS_Injection
<1>6. Range(q) = S
  BY <1>3, <1>5 DEF Surjection, Range
<1>7. q \in Seq(S)
  BY <1>1, <1>3
<1>. QED  BY <1>6, <1>7 DEF q

LEMMA SequencesOver ==
  ASSUME NEW S, NEW T, S \subseteq T, NEW q \in Seq(S)
  PROVE  q \in Seq(T)
<1>1. Len(q) \in Nat /\ q \in [1..Len(q) -> T]
  OBVIOUS
<1>. QED  BY <1>1

\* A tool that executes was called by a reply of the file: so the ids a reply
\* calls are none of those that execute.
ToolsWereCalled == called \cup late \subseteq UsedIds

\* While the agent runs, its turn has not ended; every call has its own id.
HistoryBooks ==
  /\ OneCaller(history) /\ RepliesInTurn(history)
  /\ running => ~ClosedAt(history, Len(history))

TranscriptsInv == TranscriptsTypeOK /\ ToolsWereCalled /\ HistoryBooks

LEMMA WriteStep ==
  ASSUME TranscriptsInv, NEW m \in Message, Write(m),
         IsReply(m) => running /\ IdsOf(m) \cap UsedIds = {}
  PROVE  /\ history' \in Seq(Message) /\ Len(history') <= MaxMessages
         /\ UsedIds \subseteq UsedIds'
         /\ IsReply(m) => IdsOf(m) \subseteq UsedIds'
         /\ OneCaller(history') /\ RepliesInTurn(history')
         /\ ClosedAt(history', Len(history')) =>
              ~IsUser(m) /\ (ClosedAt(history, Len(history)) \/ (IsReply(m) /\ ~Calling(m)))
<1>1. /\ history \in Seq(Message) /\ Len(history) < MaxMessages
      /\ history' = Append(history, m) /\ MaxMessages \in Nat
  BY TranscriptsAssumption DEF TranscriptsInv, TranscriptsTypeOK, Write, Room
<1>2. history' \in Seq(Message) /\ Len(history') = Len(history) + 1
  BY <1>1
<1>3. \A i \in 1..Len(history) : history'[i] = history[i]
  BY <1>1
<1>4. history'[Len(history) + 1] = m
  BY <1>1
<1>5. Range(history) \cup {m} \subseteq Range(history')
  BY <1>1, <1>2, <1>3, <1>4 DEF Range
<1>6. {x \in Range(history) : IsReply(x)} \subseteq {x \in Range(history') : IsReply(x)}
      /\ (IsReply(m) => m \in {x \in Range(history') : IsReply(x)})
  BY <1>5
<1>7. UsedIds \subseteq UsedIds' /\ (IsReply(m) => IdsOf(m) \subseteq UsedIds')
  BY <1>6 DEF UsedIds, IdsOf
<1>8. \A i \in DOMAIN history : IsReply(history[i]) => IdsOf(history[i]) \subseteq UsedIds
  BY DEF UsedIds, IdsOf, Range
<1>9. OneCaller(history) /\ RepliesInTurn(history) /\ (running => ~ClosedAt(history, Len(history)))
  BY DEF TranscriptsInv, HistoryBooks
<1>10. OneCaller(Append(history, m))
  <2>1. \A i \in DOMAIN history :
          IsReply(history[i]) /\ IsReply(m) => IdsOf(history[i]) \cap IdsOf(m) = {}
    BY <1>8
  <2>. QED  BY <1>1, <1>9, <2>1, AppendCaller
<1>. QED  BY <1>1, <1>2, <1>7, <1>9, <1>10, AppendTurn

LEMMA ReplyCallsStep == ASSUME TranscriptsInv, ReplyCalls PROVE TranscriptsInv'
<1>0. PICK ids \in SUBSET (CallIds \ UsedIds), ok \in BOOLEAN :
        /\ ids # {}
        /\ \E whole \in {ids} \cup {{id} : id \in ids} :
             Write(Reply(SetToSeq({[id |-> id, input |-> id \in whole] : id \in ids}), ok))
        /\ called' = IF ok THEN ids ELSE {}
        /\ running' = ok
        /\ late' = late
  BY Zenon DEF ReplyCalls
<1>1. PICK whole \in {ids} \cup {{id} : id \in ids} :
        Write(Reply(SetToSeq({[id |-> id, input |-> id \in whole] : id \in ids}), ok))
  BY <1>0, Zenon
<1>. DEFINE inputs == [id \in ids |-> [id |-> id, input |-> id \in whole]]
            calls  == {[id |-> id, input |-> id \in whole] : id \in ids}
            m      == Reply(SetToSeq(calls), ok)
<1>2. IsFiniteSet(ids)
  BY TranscriptsAssumption, FS_Subset
<1>3. inputs \in Surjection(ids, calls)
  BY DEF Surjection
<1>4. IsFiniteSet(calls)
  BY <1>2, <1>3, FS_Surjection
<1>5. SetToSeq(calls) \in Seq(calls) /\ Range(SetToSeq(calls)) = calls
  BY <1>4, OrderedSet
<1>6. calls \subseteq [id : CallIds, input : BOOLEAN]
  <2>1. \A id \in CallIds, b \in BOOLEAN : [id |-> id, input |-> b] \in [id : CallIds, input : BOOLEAN]
    OBVIOUS
  <2>2. \A id \in ids : id \in CallIds /\ (id \in whole) \in BOOLEAN
    OBVIOUS
  <2>. QED  BY <2>1, <2>2, Zenon
<1>7. SetToSeq(calls) \in Seq([id : CallIds, input : BOOLEAN])
  BY <1>5, <1>6, SequencesOver
<1>8. m \in Message /\ IsReply(m) /\ m.calls = SetToSeq(calls)
  BY <1>7 DEF Reply, Message, IsReply
<1>9. {c.id : c \in calls} = ids
  <2>1. \A id, b : [id |-> id, input |-> b].id = id
    OBVIOUS
  <2>2. ASSUME NEW id \in ids PROVE id \in {c.id : c \in calls}
    <3>1. [id |-> id, input |-> id \in whole] \in calls
      OBVIOUS
    <3>. QED  BY <2>1, <3>1, Zenon
  <2>3. ASSUME NEW c \in calls PROVE c.id \in ids
    <3>1. PICK id \in ids : c = [id |-> id, input |-> id \in whole]
      OBVIOUS
    <3>. QED  BY <2>1, <3>1, Zenon
  <2>. HIDE DEF calls
  <2>. QED  BY <2>2, <2>3
<1>10. IdsOf(m) = ids
  BY <1>5, <1>8, <1>9 DEF IdsOf
<1>11. ok => Calling(m)
  <2>1. calls # {}
    <3>1. PICK id \in ids : TRUE
      BY <1>0
    <3>2. [id |-> id, input |-> id \in whole] \in calls
      BY <3>1
    <3>. QED  BY <3>2
  <2>2. SetToSeq(calls) # <<>>
    BY <1>5, <2>1 DEF Range
  <2>3. m.failed = ~ok
    BY DEF Reply
  <2>. HIDE DEF m, calls
  <2>. QED  BY <1>8, <2>2, <2>3 DEF Calling
<1>12. /\ history' \in Seq(Message) /\ Len(history') <= MaxMessages
       /\ UsedIds \subseteq UsedIds' /\ ids \subseteq UsedIds'
       /\ OneCaller(history') /\ RepliesInTurn(history')
       /\ ok => ~ClosedAt(history', Len(history'))
  <2>1. Write(m)
    BY <1>1
  <2>2. running /\ ids \cap UsedIds = {} /\ ~ClosedAt(history, Len(history))
    BY <1>0 DEF ReplyCalls, TranscriptsInv, HistoryBooks
  <2>. HIDE DEF m
  <2>. QED  BY <1>8, <1>10, <1>11, <2>1, <2>2, WriteStep
<1>13. late' \cap called' = {}
  BY <1>0 DEF TranscriptsInv, ToolsWereCalled
<1>. QED
  BY <1>0, <1>12, <1>13
  DEF TranscriptsInv, TranscriptsTypeOK, ToolsWereCalled, HistoryBooks

\* The library writes histories with the books of HistoryBooks.
LEMMA TranscriptsInvariant == TranscriptsSpec => []TranscriptsInv
<1>1. TranscriptsInit => TranscriptsInv
  <2>1. <<>> \in Seq(Message) /\ Len(<<>>) = 0 /\ 0 <= MaxMessages
    BY TranscriptsAssumption
  <2>2. OneCaller(<<>>) /\ RepliesInTurn(<<>>)
    BY DEF OneCaller, RepliesInTurn
  <2>. QED
    BY <2>1, <2>2
    DEF TranscriptsInit, TranscriptsInv, TranscriptsTypeOK, ToolsWereCalled, HistoryBooks
<1>2. TranscriptsInv /\ [TranscriptsNext]_transcriptVars => TranscriptsInv'
  <2>. SUFFICES ASSUME TranscriptsInv, [TranscriptsNext]_transcriptVars PROVE TranscriptsInv'
    OBVIOUS
  <2>. USE DEF TranscriptsInv, TranscriptsTypeOK, ToolsWereCalled, HistoryBooks
  <2>1. CASE Ask
    <3>1. User(1) \in Message /\ IsUser(User(1)) /\ ~IsReply(User(1))
      BY DEF User, Message, IsUser, IsReply
    <3>. QED  BY <2>1, <3>1, WriteStep DEF Ask
  <2>2. CASE ReplyText
    <3>1. PICK ok \in BOOLEAN : Write(Reply(<<>>, ok))
      BY <2>2 DEF ReplyText
    <3>2. Reply(<<>>, ok) \in Message /\ Range(Reply(<<>>, ok).calls) = {}
      BY DEF Reply, Message, Range
    <3>3. IdsOf(Reply(<<>>, ok)) = {}
      BY <3>2 DEF IdsOf
    <3>4. running /\ ~running' /\ UNCHANGED <<called, late>>
      BY <2>2 DEF ReplyText
    <3>5. /\ history' \in Seq(Message) /\ Len(history') <= MaxMessages
          /\ UsedIds \subseteq UsedIds' /\ OneCaller(history') /\ RepliesInTurn(history')
      BY <3>1, <3>2, <3>3, <3>4, WriteStep
    <3>6. running' \in BOOLEAN
      BY <2>2 DEF ReplyText
    <3>. QED  BY <3>4, <3>5, <3>6
  <2>3. ASSUME NEW id \in CallIds, ToolEnds(id) PROVE TranscriptsInv'
    <3>1. PICK n \in ResultSizes, k \in BOOLEAN : Write(Result(id, n, k))
      BY <2>3 DEF ToolEnds
    <3>2. Result(id, n, k) \in Message /\ ~IsReply(Result(id, n, k))
      BY TranscriptsAssumption DEF Result, Message, IsReply
    <3>3. /\ history' \in Seq(Message) /\ Len(history') <= MaxMessages
          /\ UsedIds \subseteq UsedIds' /\ OneCaller(history') /\ RepliesInTurn(history')
          /\ ClosedAt(history', Len(history')) => ClosedAt(history, Len(history))
      BY <3>1, <3>2, WriteStep
    <3>. QED  BY <2>3, <3>3 DEF ToolEnds
  <2>4. CASE AbortTurn \/ LoseTurn \/ UNCHANGED transcriptVars
    <3>1. history' = history /\ (running' => running)
          /\ called' \cup late' \subseteq called \cup late
      BY <2>4 DEF AbortTurn, LoseTurn, transcriptVars
    <3>2. UsedIds' = UsedIds
      BY <3>1 DEF UsedIds
    <3>3. running' \in BOOLEAN /\ called' \subseteq CallIds /\ late' \subseteq CallIds \ called'
      BY <2>4 DEF AbortTurn, LoseTurn, transcriptVars
    <3>. QED  BY <3>1, <3>2, <3>3
  <2>. QED  BY <2>1, <2>2, <2>3, <2>4, ReplyCallsStep DEF TranscriptsNext
<1>. QED  BY <1>1, <1>2, PTL DEF TranscriptsSpec

---------------------------------------------------------------------------
(* limitHistoryTurns.                                                      *)

\* The first of the last n of a set of positions is one of the set.
LEMMA FirstOfLast ==
  ASSUME NEW L \in Nat, NEW S \in SUBSET (1..L), S # {}, NEW n \in Nat, n >= 1
  PROVE  First(LastOf(S, n)) \in S
<1>. DEFINE D == {L - i : i \in S}
<1>1. D \subseteq Nat /\ D # {}
  <2>1. \A i \in S : i \in 1..L /\ L - i \in Nat
    OBVIOUS
  <2>. QED  BY <2>1
<1>. HIDE DEF D
<1>2. PICK d \in D : \A e \in D : d <= e
  BY <1>1, LeastElement
<1>3. PICK u \in S : d = L - u
  BY DEF D
<1>4. \A j \in S : j <= u
  <2>1. \A j \in S : L - j \in D /\ j \in 1..L
    BY DEF D
  <2>. QED  BY <1>2, <1>3, <2>1
<1>5. {j \in S : u <= j} = {u}
  <2>1. \A j \in S : j \in Nat
    OBVIOUS
  <2>2. \A j \in S : u <= j <=> j = u
    BY <1>4, <2>1
  <2>. QED  BY <2>2
<1>6. Cardinality({u}) = 1
  BY FS_Singleton
<1>7. u \in LastOf(S, n)
  BY <1>5, <1>6 DEF LastOf
<1>. DEFINE T == LastOf(S, n)
<1>8. T \subseteq S /\ T # {} /\ T \subseteq Nat
  <2>1. \A j \in S : j \in Nat
    OBVIOUS
  <2>2. T \subseteq S
    BY DEF LastOf
  <2>. QED  BY <1>7, <2>1, <2>2
<1>. HIDE DEF T
<1>9. \E i \in T : \A j \in T : i <= j
  BY <1>8, LeastElement
<1>10. First(T) \in T
  BY <1>9 DEF First
<1>. QED  BY <1>8, <1>10 DEF T

LEMMA SomeOf ==
  ASSUME NEW L \in Nat, NEW S \in SUBSET (1..L), Cardinality(S) >= 1
  PROVE  S # {}
BY FS_EmptySet

LEMMA PositionsOf ==
  ASSUME NEW s \in Seq(Message)
  PROVE  /\ Len(s) \in Nat /\ DOMAIN s = 1..Len(s)
         /\ Users(s) \in SUBSET (1..Len(s)) /\ Replies(s) \in SUBSET (1..Len(s))
         /\ Cardinality(Users(s)) \in Nat /\ Cardinality(Replies(s)) \in Nat
<1>1. Len(s) \in Nat /\ DOMAIN s = 1..Len(s)
  OBVIOUS
<1>2. Users(s) \in SUBSET (1..Len(s)) /\ Replies(s) \in SUBSET (1..Len(s))
  BY <1>1 DEF Users, Replies
<1>3. IsFiniteSet(1..Len(s))
  BY <1>1, FS_Interval
<1>. QED  BY <1>1, <1>2, <1>3, FS_Subset, FS_CardinalityType

\* Transcripts as the library writes them, cut or not.
Written(s) == s \in Seq(Message) /\ OneCaller(s) /\ RepliesInTurn(s)

\* The end of a history is one that could have been written.
LEMMA EndIsWritten ==
  ASSUME NEW s, Written(s), NEW a \in 1..Len(s)
  PROVE  Written(SubSeq(s, a, Len(s)))
<1>. DEFINE t == SubSeq(s, a, Len(s))
<1>0. s \in Seq(Message) /\ OneCaller(s) /\ RepliesInTurn(s)
  BY DEF Written
<1>1. /\ Len(s) \in Nat /\ t \in Seq(Message) /\ DOMAIN t = 1..Len(t) /\ DOMAIN s = 1..Len(s)
      /\ Len(t) = Len(s) - a + 1
      /\ \A i \in 1..Len(t) : t[i] = s[a + i - 1]
  BY <1>0
<1>. HIDE DEF t
<1>2. \A i \in 1..Len(t) : a + i - 1 \in 1..Len(s)
  BY <1>1
<1>3. OneCaller(t)
  <2>. SUFFICES ASSUME NEW i \in 1..Len(t), NEW j \in 1..Len(t), IsReply(t[i]), IsReply(t[j]), i # j
                PROVE  IdsOf(t[i]) \cap IdsOf(t[j]) = {}
    BY <1>1 DEF OneCaller
  <2>1. a + i - 1 # a + j - 1
    BY <1>1
  <2>. QED  BY <1>0, <1>1, <1>2, <2>1 DEF OneCaller
<1>4. RepliesInTurn(t)
  <2>. SUFFICES ASSUME NEW j \in 1..Len(t), IsReply(t[j]), ClosedAt(t, j - 1) PROVE FALSE
    BY <1>1 DEF RepliesInTurn
  <2>1. PICK i \in 1..(j - 1) :
          IsReply(t[i]) /\ ~Calling(t[i]) /\ \A k \in i + 1..(j - 1) : ~IsUser(t[k])
    BY DEF ClosedAt
  <2>. DEFINE p == a + i - 1
              q == a + j - 1
  <2>2. p \in 1..(q - 1) /\ q \in 1..Len(s) /\ s[p] = t[i] /\ s[q] = t[j]
    BY <1>1
  <2>3. ASSUME NEW k \in p + 1..(q - 1) PROVE ~IsUser(s[k])
    <3>1. k - a + 1 \in i + 1..(j - 1) /\ k - a + 1 \in 1..Len(t) /\ a + (k - a + 1) - 1 = k
      BY <1>1
    <3>2. t[k - a + 1] = s[k]
      BY <1>1, <3>1
    <3>. QED  BY <2>1, <3>1, <3>2
  <2>. HIDE DEF p, q
  <2>4. ClosedAt(s, q - 1)
    BY <2>1, <2>2, <2>3 DEF ClosedAt
  <2>. QED  BY <1>0, <1>1, <2>2, <2>4 DEF RepliesInTurn
<1>. QED  BY <1>1, <1>3, <1>4 DEF Written, t

\* A limited history is still a written one.
LEMMA LimitIsWritten ==
  ASSUME NEW s, Written(s)
  PROVE  Written(LimitHistoryTurns(s))
<1>1. CASE HistoryLimit = 0 \/ Cardinality(Users(s)) <= HistoryLimit
  BY <1>1 DEF LimitHistoryTurns
<1>2. CASE ~(HistoryLimit = 0 \/ Cardinality(Users(s)) <= HistoryLimit)
  <2>1. s \in Seq(Message)
    BY DEF Written
  <2>2. /\ HistoryLimit \in Nat /\ HistoryLimit >= 1 /\ Cardinality(Users(s)) >= 1
        /\ Len(s) \in Nat /\ Users(s) \in SUBSET (1..Len(s))
    BY <1>2, <2>1, TranscriptsAssumption, PositionsOf
  <2>3. Users(s) # {}
    BY <2>2, SomeOf
  <2>4. First(LastOf(Users(s), HistoryLimit)) \in Users(s)
    BY <2>2, <2>3, FirstOfLast
  <2>5. First(LastOf(Users(s), HistoryLimit)) \in 1..Len(s)
    BY <2>2, <2>4
  <2>. QED  BY <1>2, <2>5, EndIsWritten DEF LimitHistoryTurns
<1>. QED  BY <1>1, <1>2

---------------------------------------------------------------------------
(* pruneContextMessages.                                                   *)

LEMMA CutoffIsNat ==
  ASSUME NEW s \in Seq(Message)
  PROVE  AssistantCutoff(s) \in Nat
<1>1. /\ Len(s) \in Nat /\ Replies(s) \in SUBSET (1..Len(s)) /\ KeepLast \in Nat
      /\ Cardinality(Replies(s)) \in Nat
  BY TranscriptsAssumption, PositionsOf
<1>2. CASE KeepLast >= 1 /\ Cardinality(Replies(s)) >= KeepLast
  <2>1. Replies(s) # {}
    BY <1>1, <1>2, SomeOf
  <2>2. First(LastOf(Replies(s), KeepLast)) \in Replies(s)
    BY <1>1, <1>2, <2>1, FirstOfLast
  <2>3. First(LastOf(Replies(s), KeepLast)) \in Nat
    BY <1>1, <2>2
  <2>. QED  BY <1>1, <2>3 DEF AssistantCutoff
<1>3. CASE ~(KeepLast >= 1 /\ Cardinality(Replies(s)) >= KeepLast)
  BY <1>1, <1>3 DEF AssistantCutoff
<1>. QED  BY <1>2, <1>3

\* A transcript of which some results before the last replies were cut.
Cut(s, t) ==
  /\ t \in Seq(Message) /\ Len(t) = Len(s)
  /\ \A i \in 1..Len(s) :
       t[i] = s[i] \/ (i < AssistantCutoff(s) /\ IsResult(s[i]) /\ IsResult(t[i]))

LEMMA CutKeepsRoles ==
  ASSUME NEW s \in Seq(Message), NEW t, Cut(s, t)
  PROVE  /\ Users(t) = Users(s) /\ Replies(t) = Replies(s)
         /\ AssistantCutoff(t) = AssistantCutoff(s)
<1>1. DOMAIN s = 1..Len(s) /\ DOMAIN t = 1..Len(s) /\ Len(t) = Len(s)
  BY DEF Cut
<1>2. \A i \in 1..Len(s) : s[i] \in Message /\ t[i] \in Message
  BY <1>1 DEF Cut
<1>3. \A i \in 1..Len(s) :
        (IsUser(t[i]) <=> IsUser(s[i])) /\ (IsReply(t[i]) <=> IsReply(s[i]))
  BY <1>2, MessageKinds DEF Cut
<1>4. Users(t) = Users(s) /\ Replies(t) = Replies(s)
  BY <1>1, <1>3 DEF Users, Replies
<1>. QED  BY <1>1, <1>4 DEF AssistantCutoff

LEMMA CutTwice ==
  ASSUME NEW s \in Seq(Message), NEW t, NEW u, Cut(s, t), Cut(t, u)
  PROVE  Cut(s, u)
BY CutKeepsRoles DEF Cut

\* Both ways of pruning cut results before the last replies only.
LEMMA SoftTrimCuts ==
  ASSUME NEW s \in Seq(Message)
  PROVE  Cut(s, SoftTrimmed(s))
<1>. DEFINE t == SoftTrimmed(s)
<1>1. /\ Len(s) \in Nat /\ DOMAIN s = 1..Len(s) /\ TrimmedSize \in Nat
      /\ \A i \in 1..Len(s) : s[i] \in Message
  BY TranscriptsAssumption
<1>2. /\ DOMAIN t = 1..Len(s)
      /\ \A i \in 1..Len(s) :
           t[i] = s[i] \/ (i \in Prunable(s) /\ t[i] = [s[i] EXCEPT !.size = TrimmedSize])
  BY <1>1 DEF SoftTrimmed
<1>. HIDE DEF t
<1>3. \A i \in Prunable(s) : i < AssistantCutoff(s) /\ IsResult(s[i])
  BY DEF Prunable
<1>4. \A i \in 1..Len(s) : t[i] = s[i] \/ (/\ i < AssistantCutoff(s) /\ IsResult(s[i])
                                           /\ IsResult(t[i]) /\ t[i] \in Message)
  <2>. SUFFICES ASSUME NEW i \in 1..Len(s), i \in Prunable(s),
                       t[i] = [s[i] EXCEPT !.size = TrimmedSize]
                PROVE  IsResult(t[i]) /\ t[i] \in Message
    BY <1>2, <1>3
  <2>1. IsResult(s[i]) /\ s[i] \in Message
    BY <1>1, <1>3
  <2>. QED  BY <1>1, <2>1 DEF IsResult, Message
<1>5. t \in Seq(Message) /\ Len(t) = Len(s)
  <2>1. \A i \in 1..Len(s) : t[i] \in Message
    BY <1>1, <1>4
  <2>2. t = [i \in 1..Len(s) |-> t[i]]
    BY <1>1 DEF t, SoftTrimmed
  <2>3. t \in [1..Len(s) -> Message]
    BY <2>1, <2>2
  <2>. QED  BY <1>1, <1>2, <2>3
<1>. QED  BY <1>4, <1>5 DEF Cut, t

\* What the clearing of one result does to a transcript.
LEMMA ClearCuts ==
  ASSUME NEW s \in Seq(Message), NEW t, Cut(s, t), NEW n \in Prunable(s)
  PROVE  Cut(s, [t EXCEPT ![n].size = ClearedSize])
<1>. DEFINE u == [t EXCEPT ![n].size = ClearedSize]
<1>1. /\ n \in 1..Len(s) /\ n < AssistantCutoff(s) /\ IsResult(s[n]) /\ ClearedSize \in Nat
      /\ s[n] \in Message
  BY TranscriptsAssumption DEF Prunable
<1>2. t \in Seq(Message) /\ Len(t) = Len(s) /\ t[n] \in Message /\ DOMAIN t = 1..Len(s)
  BY <1>1 DEF Cut
<1>3. IsResult(t[n])
  BY <1>1 DEF Cut
<1>4. [t[n] EXCEPT !.size = ClearedSize] \in Message /\ IsResult([t[n] EXCEPT !.size = ClearedSize])
  BY <1>1, <1>2, <1>3 DEF IsResult, Message
<1>5. u = [t EXCEPT ![n] = [t[n] EXCEPT !.size = ClearedSize]]
  BY <1>2
<1>. DEFINE cleared == [t[n] EXCEPT !.size = ClearedSize]
<1>6. cleared \in Message /\ IsResult(cleared) /\ u = [t EXCEPT ![n] = cleared]
  BY <1>4, <1>5
<1>. HIDE DEF u, cleared
<1>7. u \in Seq(Message) /\ Len(u) = Len(s) /\ \A i \in 1..Len(s) : u[i] = IF i = n THEN cleared ELSE t[i]
  BY <1>1, <1>2, <1>6
<1>8. \A i \in 1..Len(s) : u[i] = s[i] \/ (i < AssistantCutoff(s) /\ IsResult(s[i]) /\ IsResult(u[i]))
  BY <1>1, <1>6, <1>7 DEF Cut
<1>. QED  BY <1>7, <1>8 DEF Cut, u

LEMMA HardClearCuts ==
  ASSUME NEW s \in Seq(Message)
  PROVE  Cut(s, HardCleared(s))
<1>. DEFINE N == Len(s)
            P == Prunable(s)
            ClearAt(n, t) == IF n \in P /\ Total(t) >= HardAt
                           THEN [t EXCEPT ![n].size = ClearedSize] ELSE t
            S == {t \in Seq(Message) : Cut(s, t)}
            step == [n \in 1..N |-> [t \in S |-> ClearAt(n, t)]]
<1>1. N \in Nat /\ s \in S
  BY DEF Cut
<1>2. ASSUME NEW n \in 1..N, NEW t \in S PROVE ClearAt(n, t) \in S
  <2>1. CASE n \in P
    <3>1. Cut(s, t) /\ Cut(s, [t EXCEPT ![n].size = ClearedSize])
      BY <2>1, ClearCuts
    <3>2. [t EXCEPT ![n].size = ClearedSize] \in Seq(Message)
      BY <3>1 DEF Cut
    <3>. QED  BY <3>1, <3>2
  <2>2. CASE n \notin P
    BY <2>2
  <2>. QED  BY <2>1, <2>2
<1>. HIDE DEF S, ClearAt, P, N
<1>3. step \in [1..N -> [S -> S]]
  BY <1>2
<1>4. PICK f \in [0..N -> S] : Solves(f, N, s, step)
  <2>. HIDE DEF step
  <2>. QED  BY <1>1, <1>3, Recursion, Zenon
<1>5. f[0] = s /\ \A n \in 1..N : f[n] = ClearAt(n, f[n - 1])
  <2>1. ASSUME NEW n \in 1..N PROVE f[n] = ClearAt(n, f[n - 1])
    <3>1. f[n] = step[n][f[n - 1]]
      BY <1>4 DEF Solves
    <3>2. n - 1 \in 0..N
      BY <1>1
    <3>3. f[n - 1] \in S
      BY <3>2
    <3>. QED  BY <3>1, <3>3
  <2>. QED  BY <1>4, <2>1 DEF Solves
<1>6. f = [n \in 0..N |-> IF n = 0 THEN s ELSE ClearAt(n, f[n - 1])]
  BY <1>1, <1>4, <1>5
<1>. DEFINE g == CHOOSE g : g = [n \in 0..N |-> IF n = 0 THEN s ELSE ClearAt(n, g[n - 1])]
<1>7. g = [n \in 0..N |-> IF n = 0 THEN s ELSE ClearAt(n, g[n - 1])]
  BY <1>6
<1>8. HardCleared(s) = g[N]
  BY DEF HardCleared, ClearAt, P, N
<1>. HIDE DEF g
<1>9. g[0] = s /\ \A n \in 1..N : g[n] = ClearAt(n, g[n - 1])
  BY <1>1, <1>7
<1>. DEFINE D == {n \in 0..N : g[n] \in S}
<1>10. 0 \in D
  BY <1>1, <1>9
<1>11. ASSUME NEW n \in 0..(N - 1), n \in D PROVE n + 1 \in D
  <2>1. n + 1 \in 1..N /\ n + 1 \in 0..N /\ (n + 1) - 1 = n
    BY <1>1
  <2>2. g[n + 1] = ClearAt(n + 1, g[n])
    BY <1>9, <2>1
  <2>. QED  BY <1>2, <1>11, <2>1, <2>2
<1>. HIDE DEF D
<1>12. \A n \in 0..N : n \in D
  BY <1>1, <1>10, <1>11, UpTo
<1>13. g[N] \in S
  BY <1>1, <1>12 DEF D
<1>. QED  BY <1>8, <1>13 DEF S

\* Pruning keeps what users and replies say, and all from the last replies on.
LEMMA PruneCuts ==
  ASSUME NEW s \in Seq(Message)
  PROVE  /\ Cut(s, PruneContextMessages(s))
         /\ AssistantCutoff(s) = 0 => PruneContextMessages(s) = s
<1>1. Cut(s, s)
  BY DEF Cut
<1>2. Cut(s, SoftTrimmed(s))
  BY SoftTrimCuts
<1>3. Cut(s, HardCleared(SoftTrimmed(s)))
  <2>1. SoftTrimmed(s) \in Seq(Message)
    BY <1>2 DEF Cut
  <2>2. Cut(SoftTrimmed(s), HardCleared(SoftTrimmed(s)))
    BY <2>1, HardClearCuts
  <2>. QED  BY <1>2, <2>2, CutTwice
<1>. QED  BY <1>1, <1>2, <1>3 DEF PruneContextMessages

\* Pruning leaves the structure alone and what the user said.
LEMMA CutIsWritten ==
  ASSUME NEW s, Written(s), NEW t, Cut(s, t)
  PROVE  Written(t) /\ Said(t) = Said(s)
<1>1. /\ s \in Seq(Message) /\ t \in Seq(Message) /\ Len(t) = Len(s) /\ Len(s) \in Nat
      /\ OneCaller(s) /\ RepliesInTurn(s) /\ DOMAIN s = 1..Len(s) /\ DOMAIN t = 1..Len(s)
  BY DEF Written, Cut
<1>2. ASSUME NEW i \in 1..Len(s)
      PROVE  /\ IsReply(t[i]) => t[i] = s[i]
             /\ IsUser(s[i]) => t[i] = s[i]
             /\ IsUser(t[i]) => t[i] = s[i]
  <2>1. s[i] \in Message /\ t[i] \in Message
    BY <1>1
  <2>. QED  BY <2>1, MessageKinds DEF Cut
<1>3. OneCaller(t)
  BY <1>1, <1>2 DEF OneCaller
<1>4. RepliesInTurn(t)
  <2>. SUFFICES ASSUME NEW j \in 1..Len(s), IsReply(t[j]), ClosedAt(t, j - 1) PROVE FALSE
    BY <1>1 DEF RepliesInTurn
  <2>1. PICK i \in 1..(j - 1) :
          IsReply(t[i]) /\ ~Calling(t[i]) /\ \A k \in i + 1..(j - 1) : ~IsUser(t[k])
    BY DEF ClosedAt
  <2>2. i \in 1..Len(s) /\ \A k \in i + 1..(j - 1) : k \in 1..Len(s)
    BY <1>1
  <2>3. t[i] = s[i] /\ t[j] = s[j] /\ \A k \in i + 1..(j - 1) : ~IsUser(s[k])
    BY <1>2, <2>1, <2>2
  <2>4. ClosedAt(s, j - 1)
    BY <2>1, <2>3 DEF ClosedAt
  <2>. QED  BY <1>1, <2>3, <2>4 DEF RepliesInTurn
<1>5. Said(t) = Said(s)
  <2>1. Users(t) = Users(s)
    BY <1>1, CutKeepsRoles
  <2>2. \A n \in 1..Len(s) : n \in Users(s) => t[n] = s[n]
    BY <1>1, <1>2 DEF Users
  <2>3. \A n \in 0..Len(s) : Sizes(s, Users(s))[n] = Sizes(t, Users(t))[n]
    BY <1>1, <2>1, <2>2, SizesAgree
  <2>. QED  BY <1>1, <2>3 DEF Said, SizeAt
<1>. QED  BY <1>1, <1>3, <1>4, <1>5 DEF Written

---------------------------------------------------------------------------
(* repairToolCallInputs.                                                   *)

LEMMA SaidOfOne ==
  ASSUME NEW m \in Message
  PROVE  <<m>> \in Seq(Message) /\ Said(<<m>>) = IF IsUser(m) THEN m.size ELSE 0
<1>1. <<m>> \in Seq(Message) /\ Len(<<m>>) = 1 /\ <<m>>[1] = m
  OBVIOUS
<1>2. 1 \in Users(<<m>>) <=> IsUser(m)
  BY DEF Users
<1>. DEFINE t == <<m>>
<1>. HIDE DEF t
<1>3. t \in Seq(Message) /\ Len(t) = 1 /\ t[1] = m /\ (1 \in Users(t) <=> IsUser(m))
  BY <1>1, <1>2 DEF t
<1>4. /\ Sizes(t, Users(t))[0] = 0
      /\ \A n \in 1..1 : Sizes(t, Users(t))[n] =
           Sizes(t, Users(t))[n - 1] + (IF n \in Users(t) THEN t[n].size ELSE 0)
  BY <1>3, SizesStep
<1>5. Sizes(t, Users(t))[1] =
        Sizes(t, Users(t))[0] + (IF 1 \in Users(t) THEN t[1].size ELSE 0)
  <2>1. 1 \in 1..1 /\ 1 - 1 = 0
    OBVIOUS
  <2>. QED  BY <1>4, <2>1
<1>6. m.size \in Nat
  BY MessageKinds
<1>7. Said(t) = IF IsUser(m) THEN m.size ELSE 0
  BY <1>3, <1>4, <1>5, <1>6 DEF Said, SizeAt
<1>. QED  BY <1>1, <1>7 DEF t

\* Of the size that users said before a message, what it adds.
LEMMA SaidStep ==
  ASSUME NEW s \in Seq(Message), NEW n \in 1..Len(s)
  PROVE  /\ Sizes(s, Users(s))[n - 1] \in Nat
         /\ Sizes(s, Users(s))[n] =
              Sizes(s, Users(s))[n - 1] + (IF IsUser(s[n]) THEN s[n].size ELSE 0)
<1>1. Len(s) \in Nat /\ n - 1 \in 0..Len(s) /\ (n \in Users(s) <=> IsUser(s[n]))
  BY DEF Users
<1>2. /\ Sizes(s, Users(s)) \in [0..Len(s) -> Nat]
      /\ Sizes(s, Users(s))[n] =
           Sizes(s, Users(s))[n - 1] + (IF n \in Users(s) THEN s[n].size ELSE 0)
  BY SizesStep
<1>3. Sizes(s, Users(s))[n - 1] \in Nat
  BY <1>1, <1>2
<1>. QED  BY <1>1, <1>2, <1>3

LEMMA ClosedStep ==
  ASSUME NEW s \in Seq(Message), NEW n \in 1..Len(s), ~IsUser(s[n]),
         ClosedAt(s, n - 1) \/ (IsReply(s[n]) /\ ~Calling(s[n]))
  PROVE  ClosedAt(s, n)
<1>1. n \in Nat /\ n >= 1
  OBVIOUS
<1>2. CASE ClosedAt(s, n - 1)
  <2>1. PICK i \in 1..(n - 1) :
          IsReply(s[i]) /\ ~Calling(s[i]) /\ \A k \in i + 1..(n - 1) : ~IsUser(s[k])
    BY <1>2 DEF ClosedAt
  <2>2. i \in 1..n /\ \A k \in i + 1..n : k = n \/ k \in i + 1..(n - 1)
    BY <1>1
  <2>. QED  BY <2>1, <2>2 DEF ClosedAt
<1>3. CASE IsReply(s[n]) /\ ~Calling(s[n])
  <2>1. n \in 1..n /\ \A k \in n + 1..n : FALSE
    BY <1>1
  <2>. QED  BY <1>3, <2>1 DEF ClosedAt
<1>. QED  BY <1>2, <1>3

WholeOf(m) == [m EXCEPT !.calls = Chosen(@, {k \in DOMAIN m.calls : m.calls[k].input})]
Keeps(m)   == ~IsReply(m) \/ m.calls = <<>> \/ WholeOf(m).calls # <<>>
CallPiece(m) ==
  IF ~Keeps(m) THEN <<>> ELSE IF IsReply(m) THEN <<WholeOf(m)>> ELSE <<m>>

LEMMA WholeIsReply ==
  ASSUME NEW m \in Message, IsReply(m)
  PROVE  /\ WholeOf(m) \in Message /\ IsReply(WholeOf(m)) /\ IdsOf(WholeOf(m)) \subseteq IdsOf(m)
         /\ Keeps(m) => (Calling(WholeOf(m)) <=> Calling(m))
<1>. DEFINE S == {k \in DOMAIN m.calls : m.calls[k].input}
            c == Chosen(m.calls, S)
            w == WholeOf(m)
            V == {m.calls[k] : k \in S \cap DOMAIN m.calls}
<1>1. m.calls \in Seq(Call)
  BY MessageKinds
<1>2. c \in Seq(V)
  <2>. HIDE DEF S
  <2>. QED  BY <1>1, ChosenFrom
<1>3. V \subseteq Call /\ V \subseteq Range(m.calls)
  BY <1>1 DEF Range
<1>. HIDE DEF S, V, c
<1>4. c \in Seq(Call) /\ Range(c) \subseteq V
  <2>1. c \in Seq(Call)
    BY <1>2, <1>3, SequencesOver
  <2>. QED  BY <1>2, <2>1 DEF Range
<1>5. w = [m EXCEPT !.calls = c]
  BY DEF WholeOf, c, S
<1>6. w \in Message /\ IsReply(w) /\ w.calls = c /\ w.failed = m.failed
  BY <1>4, <1>5 DEF Message, IsReply, Call
<1>7. IdsOf(w) \subseteq IdsOf(m)
  BY <1>3, <1>4, <1>6 DEF IdsOf
<1>8. m.calls = <<>> => c = <<>>
  <2>1. m.calls = <<>> => V = {}
    BY DEF V
  <2>. QED  BY <1>2, <2>1
<1>9. Keeps(m) => (Calling(w) <=> Calling(m))
  BY <1>6, <1>8 DEF Keeps, Calling
<1>. QED  BY <1>6, <1>7, <1>9

\* What a message becomes: at most one, of its role.
LEMMA CallPieceKinds ==
  ASSUME NEW m \in Message
  PROVE  \/ CallPiece(m) = <<>> /\ IsReply(m)
         \/ \E w \in Message :
              /\ CallPiece(m) = <<w>> /\ (IsReply(w) <=> IsReply(m))
              /\ IsUser(m) \/ IsUser(w) => w = m
              /\ IsReply(m) => (Calling(w) <=> Calling(m)) /\ IdsOf(w) \subseteq IdsOf(m)
<1>1. CASE ~Keeps(m)
  BY <1>1 DEF CallPiece, Keeps
<1>2. CASE Keeps(m) /\ IsReply(m)
  <2>1. WholeOf(m) \in Message /\ CallPiece(m) = <<WholeOf(m)>>
    BY <1>2, WholeIsReply DEF CallPiece
  <2>. QED  BY <1>2, <2>1, WholeIsReply, MessageKinds
<1>3. CASE Keeps(m) /\ ~IsReply(m)
  BY <1>3 DEF CallPiece
<1>. QED  BY <1>1, <1>2, <1>3

\* Without the calls that have no arguments a history is still a written one.
LEMMA CallInputsAreWritten ==
  ASSUME NEW s, Written(s)
  PROVE  Written(RepairToolCallInputs(s)) /\ Said(RepairToolCallInputs(s)) = Said(s)
<1>. DEFINE N  == Len(s)
            ss == [i \in DOMAIN s |-> CallPiece(s[i])]
            Said1(n) == Sizes(s, Users(s))[n]
            Known(t, n) ==
              \A i \in DOMAIN t : IsReply(t[i]) =>
                \E j \in 1..n : IsReply(s[j]) /\ IdsOf(t[i]) \subseteq IdsOf(s[j])
            Fits(t, n) ==
              /\ Said(t) = Said1(n)
              /\ OneCaller(t) /\ RepliesInTurn(t) /\ Known(t, n)
              /\ ClosedAt(t, Len(t)) => ClosedAt(s, n)
            D == [n \in 0..N |-> {t \in Seq(Message) : Fits(t, n)}]
<1>1. /\ s \in Seq(Message) /\ OneCaller(s) /\ RepliesInTurn(s)
      /\ N \in Nat /\ DOMAIN s = 1..N /\ \A n \in 1..N : s[n] \in Message
  BY DEF Written
<1>2. RepairToolCallInputs(s) = FlattenSeq(ss)
  BY DEF RepairToolCallInputs, CallPiece, Keeps, WholeOf
<1>3. ss \in Seq(Seq(Message)) /\ Len(ss) = N /\ \A n \in 1..N : ss[n] = CallPiece(s[n])
  <2>1. \A n \in 1..N : CallPiece(s[n]) \in Seq(Message)
    <3>1. <<>> \in Seq(Message) /\ \A w \in Message : <<w>> \in Seq(Message)
      OBVIOUS
    <3>. QED  BY <1>1, <3>1, CallPieceKinds
  <2>. QED  BY <1>1, <2>1
<1>. HIDE DEF ss, N
<1>4. Fits(<<>>, 0)
  <2>1. <<>> \in Seq(Message) /\ Len(<<>>) = 0 /\ DOMAIN <<>> = {}
    OBVIOUS
  <2>2. Said(<<>>) = 0 /\ Said1(0) = 0
    BY <1>1, <2>1, SizesStep DEF Said, SizeAt
  <2>3. ~ClosedAt(<<>>, 0)
    BY DEF ClosedAt
  <2>. QED  BY <2>1, <2>2, <2>3 DEF OneCaller, RepliesInTurn
<1>5. ASSUME NEW n \in 1..N, NEW t \in Seq(Message), Fits(t, n - 1)
      PROVE  Fits(t \o ss[n], n)
  <2>1. /\ s[n] \in Message /\ n \in 1..Len(s) /\ ss[n] = CallPiece(s[n])
        /\ n - 1 \in Nat /\ n \in 1..n /\ 1..(n - 1) \subseteq 1..n /\ n \notin 1..(n - 1)
        /\ 1..n \subseteq 1..N
    BY <1>1, <1>3 DEF N
  <2>2. Said1(n) = Said1(n - 1) + (IF IsUser(s[n]) THEN s[n].size ELSE 0) /\ Said1(n - 1) \in Nat
    BY <1>1, <2>1, SaidStep
  <2>. HIDE DEF Said1
  <2>3. CASE ss[n] = <<>> /\ IsReply(s[n])
    <3>1. t \o ss[n] = t
      BY <2>3
    <3>2. ~IsUser(s[n])
      BY <2>1, <2>3, MessageKinds
    <3>3. Said(t) = Said1(n)
      BY <1>5, <2>2, <3>2
    <3>4. ClosedAt(t, Len(t)) => ClosedAt(s, n)
      BY <1>1, <1>5, <2>1, <3>2, ClosedStep
    <3>5. Known(t, n)
      BY <1>5, <2>1
    <3>. HIDE DEF Known
    <3>. QED  BY <1>5, <3>1, <3>3, <3>4, <3>5
  <2>4. ASSUME NEW w \in Message, ss[n] = <<w>>, IsReply(w) <=> IsReply(s[n]),
               IsUser(s[n]) \/ IsUser(w) => w = s[n],
               IsReply(s[n]) => (Calling(w) <=> Calling(s[n])) /\ IdsOf(w) \subseteq IdsOf(s[n])
        PROVE  Fits(t \o ss[n], n)
    <3>. DEFINE u == Append(t, w)
    <3>1. t \o ss[n] = u /\ u = t \o <<w>>
      BY <2>4
    <3>2. Said(u) = Said1(n)
      <4>1. Said(u) = Said(t) + (IF IsUser(w) THEN w.size ELSE 0)
        BY <3>1, SaidOfBoth, SaidOfOne
      <4>2. (IF IsUser(w) THEN w.size ELSE 0) = (IF IsUser(s[n]) THEN s[n].size ELSE 0)
        BY <2>4
      <4>. QED  BY <1>5, <2>2, <4>1, <4>2
    <3>3. IsReply(w) => ~ClosedAt(t, Len(t))
      BY <1>1, <1>5, <2>1, <2>4 DEF RepliesInTurn
    <3>4. RepliesInTurn(u)
      BY <1>5, <3>3, AppendTurn
    <3>5. ClosedAt(u, Len(u)) => ClosedAt(s, n)
      <4>1. ClosedAt(u, Len(u)) =>
              ~IsUser(w) /\ (ClosedAt(t, Len(t)) \/ (IsReply(w) /\ ~Calling(w)))
        BY <1>5, <3>3, AppendTurn
      <4>2. ~IsUser(w) => ~IsUser(s[n])
        BY <2>4
      <4>. HIDE DEF u
      <4>. QED  BY <1>1, <1>5, <2>1, <2>4, <4>1, <4>2, ClosedStep
    <3>6. OneCaller(u)
      <4>1. ASSUME NEW i \in DOMAIN t, IsReply(t[i]), IsReply(w)
            PROVE  IdsOf(t[i]) \cap IdsOf(w) = {}
        <5>1. PICK j \in 1..(n - 1) : IsReply(s[j]) /\ IdsOf(t[i]) \subseteq IdsOf(s[j])
          BY <1>5, <4>1
        <5>2. j # n /\ j \in 1..N
          BY <2>1
        <5>3. IdsOf(s[j]) \cap IdsOf(s[n]) = {}
          BY <1>1, <2>1, <2>4, <4>1, <5>1, <5>2 DEF OneCaller
        <5>. QED  BY <2>4, <4>1, <5>1, <5>3
      <4>. QED  BY <1>5, <4>1, AppendCaller
    <3>7. Known(u, n)
      <4>1. DOMAIN u = 1..(Len(t) + 1) /\ DOMAIN t = 1..Len(t) /\ Len(t) \in Nat
            /\ u[Len(t) + 1] = w /\ \A i \in 1..Len(t) : u[i] = t[i]
        OBVIOUS
      <4>. HIDE DEF u
      <4>2. ASSUME NEW i \in DOMAIN u, IsReply(u[i])
            PROVE  \E j \in 1..n : IsReply(s[j]) /\ IdsOf(u[i]) \subseteq IdsOf(s[j])
        <5>1. CASE i = Len(t) + 1
          BY <2>1, <2>4, <4>1, <4>2, <5>1
        <5>2. CASE i # Len(t) + 1
          <6>1. i \in DOMAIN t /\ u[i] = t[i]
            BY <4>1, <5>2
          <6>. QED  BY <1>5, <2>1, <4>2, <6>1
        <5>. QED  BY <5>1, <5>2
      <4>. QED  BY <4>2
    <3>. HIDE DEF Known, u
    <3>. QED  BY <3>1, <3>2, <3>4, <3>5, <3>6, <3>7
  <2>. HIDE DEF Fits
  <2>. QED  BY <2>1, <2>3, <2>4, CallPieceKinds
<1>. HIDE DEF Fits
<1>6. <<>> \in D[0]
  BY <1>1, <1>4
<1>7. \A n \in 1..N : \A t \in Seq(Message) : t \in D[n - 1] => t \o ss[n] \in D[n]
  <2>. SUFFICES ASSUME NEW n \in 1..N, NEW t \in Seq(Message), t \in D[n - 1]
                PROVE  t \o ss[n] \in D[n]
    OBVIOUS
  <2>1. n \in 0..N /\ n - 1 \in 0..N /\ ss[n] \in Seq(Message)
    BY <1>1, <1>3
  <2>2. Fits(t, n - 1)
    BY <2>1
  <2>3. Fits(t \o ss[n], n) /\ t \o ss[n] \in Seq(Message)
    BY <1>5, <2>1, <2>2
  <2>. QED  BY <2>1, <2>3
<1>8. FlattenSeq(ss) \in Seq(Message) /\ FlattenSeq(ss) \in D[N]
  <2>. HIDE DEF D
  <2>. QED  BY <1>3, <1>6, <1>7, FlattenBy
<1>9. Fits(FlattenSeq(ss), N)
  BY <1>1, <1>8
<1>. QED  BY <1>2, <1>8, <1>9 DEF Fits, Written, Said, SizeAt, N

---------------------------------------------------------------------------
(* What users say at chosen positions.                                     *)

LEMMA SizeAtNone ==
  ASSUME NEW s \in Seq(Message)
  PROVE  SizeAt(s, {}) = 0
<1>. DEFINE D == {n \in 0..Len(s) : Sizes(s, {})[n] = 0}
<1>1. /\ Len(s) \in Nat /\ Sizes(s, {})[0] = 0
      /\ \A n \in 1..Len(s) : Sizes(s, {})[n] = Sizes(s, {})[n - 1] + 0
  BY SizesStep
<1>2. ASSUME NEW n \in 0..(Len(s) - 1), n \in D PROVE n + 1 \in D
  <2>1. n + 1 \in 1..Len(s) /\ (n + 1) - 1 = n
    BY <1>1
  <2>2. Sizes(s, {})[n + 1] = Sizes(s, {})[n] + 0
    BY <1>1, <2>1
  <2>. QED  BY <1>1, <1>2, <2>1, <2>2
<1>3. 0 \in D
  BY <1>1
<1>. HIDE DEF D
<1>4. \A n \in 0..Len(s) : n \in D
  BY <1>1, <1>2, <1>3, UpTo
<1>. QED  BY <1>1, <1>4 DEF D, SizeAt

LEMMA SaidOfNobody ==
  ASSUME NEW s \in Seq(Message), \A i \in DOMAIN s : ~IsUser(s[i])
  PROVE  Said(s) = 0
BY SizeAtNone DEF Said, Users

\* One more position counted.
LEMMA SizeAtWith ==
  ASSUME NEW s \in Seq(Message), NEW S, NEW x \in 1..Len(s), x \notin S
  PROVE  SizeAt(s, S \cup {x}) = SizeAt(s, S) + s[x].size
<1>. DEFINE A == Sizes(s, S)
            B == Sizes(s, S \cup {x})
            D == {n \in 0..Len(s) : B[n] = A[n] + (IF x <= n THEN s[x].size ELSE 0)}
<1>1. /\ Len(s) \in Nat /\ A[0] = 0 /\ B[0] = 0 /\ s[x].size \in Nat
      /\ A \in [0..Len(s) -> Nat]
      /\ \A n \in 1..Len(s) : s[n].size \in Nat
      /\ \A n \in 1..Len(s) : A[n] = A[n - 1] + (IF n \in S THEN s[n].size ELSE 0)
      /\ \A n \in 1..Len(s) : B[n] = B[n - 1] + (IF n \in S \cup {x} THEN s[n].size ELSE 0)
  <2>1. \A n \in 1..Len(s) : s[n] \in Message
    OBVIOUS
  <2>. QED  BY <2>1, SizesStep, MessageKinds
<1>. HIDE DEF A, B
<1>2. 0 \in D
  BY <1>1
<1>3. ASSUME NEW n \in 0..(Len(s) - 1), n \in D PROVE n + 1 \in D
  <2>1. n + 1 \in 1..Len(s) /\ n + 1 \in 0..Len(s) /\ (n + 1) - 1 = n /\ n \in 0..Len(s)
    BY <1>1
  <2>2. /\ A[n + 1] = A[n] + (IF n + 1 \in S THEN s[n + 1].size ELSE 0)
        /\ B[n + 1] = B[n] + (IF n + 1 \in S \cup {x} THEN s[n + 1].size ELSE 0)
        /\ A[n] \in Nat /\ s[n + 1].size \in Nat
    BY <1>1, <2>1
  <2>3. B[n] = A[n] + (IF x <= n THEN s[x].size ELSE 0)
    BY <1>3
  <2>4. CASE n + 1 = x
    <3>1. ~(x <= n) /\ x <= n + 1 /\ n + 1 \notin S /\ n + 1 \in S \cup {x}
      BY <2>1, <2>4
    <3>2. B[n + 1] = A[n + 1] + s[x].size
      BY <2>2, <2>3, <2>4, <3>1
    <3>. QED  BY <2>1, <3>1, <3>2
  <2>5. CASE n + 1 # x
    <3>1. (x <= n <=> x <= n + 1) /\ (n + 1 \in S <=> n + 1 \in S \cup {x})
      BY <2>1, <2>5
    <3>. DEFINE a == A[n]
                y == IF x <= n THEN s[x].size ELSE 0
                z == IF n + 1 \in S THEN s[n + 1].size ELSE 0
    <3>2. /\ a \in Nat /\ y \in Nat /\ z \in Nat
          /\ A[n + 1] = a + z /\ B[n + 1] = (a + y) + z
      BY <1>1, <2>2, <2>3, <3>1
    <3>3. y = IF x <= n + 1 THEN s[x].size ELSE 0
      BY <3>1
    <3>. HIDE DEF a, y, z
    <3>4. B[n + 1] = A[n + 1] + y
      BY <3>2
    <3>. QED  BY <2>1, <3>3, <3>4
  <2>. QED  BY <2>4, <2>5
<1>. HIDE DEF D
<1>4. \A n \in 0..Len(s) : n \in D
  BY <1>1, <1>2, <1>3, UpTo
<1>5. B[Len(s)] = A[Len(s)] + s[x].size
  <2>1. Len(s) \in 0..Len(s) /\ x <= Len(s)
    BY <1>1
  <2>. QED  BY <1>4, <2>1 DEF D
<1>. QED  BY <1>5 DEF A, B, SizeAt

\* Of chosen user messages nothing is lost.
LEMMA SaidOfChosen ==
  ASSUME NEW s \in Seq(Message), NEW S \in SUBSET Users(s)
  PROVE  /\ Chosen(s, S) \in Seq(Message) /\ Said(Chosen(s, S)) = SizeAt(s, S)
         /\ \A i \in DOMAIN Chosen(s, S) : IsUser(Chosen(s, S)[i])
<1>. DEFINE V == {s[i] : i \in S \cap DOMAIN s}
<1>1. V \subseteq Message /\ \A m \in V : IsUser(m)
  BY DEF Users
<1>2. Chosen(s, S) \in Seq(V)
  BY ChosenFrom
<1>3. Chosen(s, S) \in Seq(Message)
  BY <1>1, <1>2, SequencesOver
<1>4. \A i \in DOMAIN Chosen(s, S) : IsUser(Chosen(s, S)[i])
  <2>. HIDE DEF V
  <2>. QED  BY <1>1, <1>2
<1>. DEFINE N  == Len(s)
            ss == [i \in DOMAIN s |-> IF i \in S THEN <<s[i]>> ELSE <<>>]
            D  == [n \in 0..N |-> {t \in Seq(Message) : Said(t) = Sizes(s, S)[n]}]
<1>5. /\ N \in Nat /\ DOMAIN s = 1..N /\ \A n \in 1..N : s[n] \in Message
      /\ \A n \in S : IsUser(s[n])
  BY DEF Users
<1>6. /\ ss \in Seq(Seq(Message)) /\ Len(ss) = N
      /\ \A n \in 1..N : ss[n] = IF n \in S THEN <<s[n]>> ELSE <<>>
  <2>1. \A n \in 1..N : (IF n \in S THEN <<s[n]>> ELSE <<>>) \in Seq(Message)
    BY <1>5
  <2>. QED  BY <1>5, <2>1
<1>. HIDE DEF V, ss, N
<1>7. <<>> \in D[0]
  <2>1. <<>> \in Seq(Message) /\ Len(<<>>) = 0 /\ 0 \in 0..N
    BY <1>5
  <2>2. Said(<<>>) = 0 /\ Sizes(s, S)[0] = 0
    BY <2>1, SizesStep DEF Said, SizeAt
  <2>. QED  BY <2>1, <2>2
<1>8. \A n \in 1..N : \A t \in Seq(Message) : t \in D[n - 1] => t \o ss[n] \in D[n]
  <2>. SUFFICES ASSUME NEW n \in 1..N, NEW t \in Seq(Message), t \in D[n - 1]
                PROVE  t \o ss[n] \in D[n]
    OBVIOUS
  <2>1. /\ n \in 0..N /\ n - 1 \in 0..N /\ n \in 1..Len(s) /\ s[n] \in Message
        /\ s[n].size \in Nat
    BY <1>5, MessageKinds DEF N
  <2>2. Said(t) = Sizes(s, S)[n - 1] /\ Said(t) \in Nat
    BY <2>1, SizeIsNat DEF Said
  <2>3. Sizes(s, S)[n] = Sizes(s, S)[n - 1] + (IF n \in S THEN s[n].size ELSE 0)
    BY <2>1, SizesStep
  <2>4. CASE n \in S
    <3>1. ss[n] = <<s[n]>> /\ IsUser(s[n])
      BY <1>5, <1>6, <2>4
    <3>2. ss[n] \in Seq(Message) /\ Said(ss[n]) = s[n].size
      BY <2>1, <3>1, SaidOfOne
    <3>3. Said(t \o ss[n]) = Said(t) + s[n].size /\ t \o ss[n] \in Seq(Message)
      BY <3>2, SaidOfBoth
    <3>. QED  BY <2>1, <2>2, <2>3, <2>4, <3>3
  <2>5. CASE n \notin S
    <3>1. t \o ss[n] = t
      <4>1. ss[n] = <<>>
        BY <1>6, <2>5
      <4>2. t \o <<>> = t
        OBVIOUS
      <4>. QED  BY <4>1, <4>2
    <3>2. Said(t) = Sizes(s, S)[n]
      BY <2>2, <2>3, <2>5
    <3>. QED  BY <2>1, <3>1, <3>2
  <2>. QED  BY <2>4, <2>5
<1>9. FlattenSeq(ss) \in D[N]
  <2>. HIDE DEF D
  <2>. QED  BY <1>6, <1>7, <1>8, FlattenBy
<1>10. Said(Chosen(s, S)) = SizeAt(s, S)
  BY <1>5, <1>9 DEF Chosen, ss, SizeAt, N
<1>. QED  BY <1>3, <1>4, <1>10

---------------------------------------------------------------------------
(* Transcripts one after the other.                                        *)

LEMMA Both ==
  ASSUME NEW T, NEW a \in Seq(T), NEW b \in Seq(T)
  PROVE  /\ a \o b \in Seq(T) /\ Len(a \o b) = Len(a) + Len(b)
         /\ Len(a) \in Nat /\ Len(b) \in Nat
         /\ DOMAIN (a \o b) = 1..(Len(a) + Len(b))
         /\ DOMAIN a = 1..Len(a) /\ DOMAIN b = 1..Len(b)
         /\ \A i \in 1..Len(a) : (a \o b)[i] = a[i]
         /\ \A i \in 1..Len(b) : (a \o b)[Len(a) + i] = b[i]
         /\ \A i \in Len(a) + 1..Len(a) + Len(b) : (a \o b)[i] = b[i - Len(a)]
OBVIOUS

\* Paired transcripts one after the other are paired.
LEMMA PairedBoth ==
  ASSUME NEW a \in Seq(Message), NEW b \in Seq(Message), Paired(a), Paired(b)
  PROVE  Paired(a \o b)
<1>. DEFINE c == a \o b
            L == Len(a)
<1>1. /\ L \in Nat /\ Len(b) \in Nat /\ DOMAIN c = 1..(L + Len(b))
      /\ DOMAIN a = 1..L /\ DOMAIN b = 1..Len(b)
      /\ \A i \in 1..L : c[i] = a[i]
      /\ \A i \in 1..Len(b) : c[L + i] = b[i]
  BY Both
<1>. HIDE DEF c, L
<1>2. ASSUME NEW i \in DOMAIN c, Calling(c[i]), NEW k \in DOMAIN c[i].calls
      PROVE  i + k \in DOMAIN c /\ IsResult(c[i + k]) /\ c[i + k].id = c[i].calls[k].id
  <2>1. CASE i <= L
    <3>1. i \in DOMAIN a /\ c[i] = a[i]
      BY <1>1, <2>1
    <3>2. i + k \in DOMAIN a /\ IsResult(a[i + k]) /\ a[i + k].id = a[i].calls[k].id
      BY <1>2, <3>1 DEF Paired
    <3>3. i + k \in DOMAIN c /\ c[i + k] = a[i + k]
      BY <1>1, <3>2
    <3>. QED  BY <3>1, <3>2, <3>3
  <2>2. CASE ~(i <= L)
    <3>. DEFINE j == i - L
    <3>1. j \in DOMAIN b /\ c[i] = b[j]
      <4>1. j \in 1..Len(b) /\ L + j = i
        BY <1>1, <2>2
      <4>. QED  BY <1>1, <4>1
    <3>2. j + k \in DOMAIN b /\ IsResult(b[j + k]) /\ b[j + k].id = b[j].calls[k].id
      BY <1>2, <3>1 DEF Paired
    <3>3. i + k \in DOMAIN c /\ c[i + k] = b[j + k]
      <4>1. k \in Nat
        <5>1. b[j] \in Message /\ IsReply(b[j])
          BY <1>2, <3>1 DEF Calling
        <5>2. b[j].calls \in Seq(Call) /\ k \in DOMAIN b[j].calls
          BY <1>2, <3>1, <5>1, MessageKinds
        <5>. QED  BY <5>2
      <4>2. L + (j + k) = i + k
        BY <1>1, <4>1
      <4>. QED  BY <1>1, <3>2, <4>1, <4>2
    <3>. QED  BY <3>1, <3>2, <3>3
  <2>. QED  BY <2>1, <2>2
<1>3. ASSUME NEW i \in DOMAIN c, IsResult(c[i])
      PROVE  \E k \in 1..(i - 1) : Calling(c[i - k]) /\ k <= Len(c[i - k].calls)
  <2>1. CASE i <= L
    <3>1. i \in DOMAIN a /\ c[i] = a[i]
      BY <1>1, <2>1
    <3>2. PICK k \in 1..(i - 1) : Calling(a[i - k]) /\ k <= Len(a[i - k].calls)
      BY <1>3, <3>1 DEF Paired
    <3>3. i - k \in 1..L
      BY <1>1, <3>1
    <3>. QED  BY <1>1, <3>2, <3>3
  <2>2. CASE ~(i <= L)
    <3>. DEFINE j == i - L
    <3>1. j \in DOMAIN b /\ c[i] = b[j] /\ j \in Nat /\ i = L + j
      <4>1. j \in 1..Len(b) /\ L + j = i
        BY <1>1, <2>2
      <4>. QED  BY <1>1, <4>1
    <3>2. PICK k \in 1..(j - 1) : Calling(b[j - k]) /\ k <= Len(b[j - k].calls)
      BY <1>3, <3>1 DEF Paired
    <3>3. j - k \in 1..Len(b) /\ L + (j - k) = i - k /\ k \in 1..(i - 1)
      BY <1>1, <3>1
    <3>4. c[i - k] = b[j - k]
      BY <1>1, <3>3
    <3>. QED  BY <3>2, <3>3, <3>4
  <2>. QED  BY <2>1, <2>2
<1>4. Paired(c)
  BY <1>2, <1>3 DEF Paired
<1>. QED  BY <1>4 DEF c

\* No two replies next to each other.
Alternating(s) == \A i \in DOMAIN s : IsReply(s[i]) => i = 1 \/ ~IsReply(s[i - 1])

EndsInReply(s) == s # <<>> /\ IsReply(s[Len(s)])

\* So are alternating ones, unless replies meet.
LEMMA AlternatingBoth ==
  ASSUME NEW a \in Seq(Message), NEW b \in Seq(Message), Alternating(a), Alternating(b),
         b = <<>> \/ ~IsReply(b[1]) \/ ~EndsInReply(a)
  PROVE  /\ Alternating(a \o b)
         /\ EndsInReply(a \o b) => IF b = <<>> THEN EndsInReply(a) ELSE EndsInReply(b)
<1>. DEFINE c == a \o b
            L == Len(a)
<1>1. /\ L \in Nat /\ Len(b) \in Nat /\ DOMAIN c = 1..(L + Len(b)) /\ Len(c) = L + Len(b)
      /\ DOMAIN a = 1..L /\ DOMAIN b = 1..Len(b)
      /\ \A i \in 1..L : c[i] = a[i]
      /\ \A i \in 1..Len(b) : c[L + i] = b[i]
      /\ (b = <<>> <=> Len(b) = 0) /\ (a = <<>> <=> L = 0)
      /\ (b = <<>> => c = a)
  BY Both
<1>. HIDE DEF c, L
<1>2. ASSUME NEW i \in DOMAIN c, IsReply(c[i]), i # 1 PROVE ~IsReply(c[i - 1])
  <2>1. CASE i <= L
    <3>1. i \in 1..L /\ i - 1 \in 1..L
      BY <1>1, <1>2, <2>1
    <3>2. c[i] = a[i] /\ c[i - 1] = a[i - 1]
      BY <1>1, <3>1
    <3>. QED  BY <1>1, <1>2, <3>1, <3>2 DEF Alternating
  <2>2. CASE i = L + 1
    <3>1. 1 \in 1..Len(b) /\ b # <<>> /\ L \in 1..L /\ i - 1 = L
      BY <1>1, <1>2, <2>2
    <3>2. c[i] = b[1] /\ c[i - 1] = a[L]
      BY <1>1, <2>2, <3>1
    <3>. QED  BY <1>1, <1>2, <3>1, <3>2 DEF EndsInReply, L
  <2>3. CASE i > L + 1
    <3>. DEFINE j == i - L
    <3>1. j \in 1..Len(b) /\ j - 1 \in 1..Len(b) /\ L + j = i /\ L + (j - 1) = i - 1 /\ j # 1
      BY <1>1, <2>3
    <3>. HIDE DEF j
    <3>2. c[i] = b[j] /\ c[i - 1] = b[j - 1]
      BY <1>1, <3>1
    <3>. QED  BY <1>1, <1>2, <3>1, <3>2 DEF Alternating
  <2>4. i \in Nat
    BY <1>1
  <2>. QED  BY <1>1, <2>1, <2>2, <2>3, <2>4
<1>3. Alternating(c)
  BY <1>2 DEF Alternating
<1>4. EndsInReply(c) => IF b = <<>> THEN EndsInReply(a) ELSE EndsInReply(b)
  <2>1. CASE b = <<>>
    BY <1>1, <2>1
  <2>2. CASE b # <<>>
    <3>1. Len(b) \in 1..Len(b) /\ Len(c) = L + Len(b)
      BY <1>1, <2>2
    <3>2. c[Len(c)] = b[Len(b)]
      BY <1>1, <3>1
    <3>. QED  BY <2>2, <3>2 DEF EndsInReply
  <2>. QED  BY <2>1, <2>2
<1>. QED  BY <1>3, <1>4 DEF c

---------------------------------------------------------------------------
(* repairToolUseResultPairing.                                             *)

LEMMA ResultForOne ==
  ASSUME NEW s, Written(s), NEW i \in DOMAIN s, Calling(s[i]), NEW k \in DOMAIN s[i].calls
  PROVE  LET id == s[i].calls[k].id
         IN  \E r \in Message : ResultFor(s, i, id) = <<r>> /\ IsResult(r) /\ r.id = id
<1>. DEFINE id == s[i].calls[k].id
            found == {j \in Span(s, i) : IsResult(s[j]) /\ s[j].id = id}
<1>1. /\ s \in Seq(Message) /\ OneCaller(s) /\ Len(s) \in Nat /\ DOMAIN s = 1..Len(s)
      /\ \A j \in DOMAIN s : s[j] \in Message
  BY DEF Written
<1>2. IsReply(s[i]) /\ s[i].calls \in Seq(Call) /\ id \in IdsOf(s[i]) /\ id \in CallIds
  <2>1. IsReply(s[i]) /\ s[i].calls \in Seq(Call)
    BY <1>1, MessageKinds DEF Calling
  <2>2. s[i].calls[k] \in Call /\ s[i].calls[k] \in Range(s[i].calls)
    BY <2>1 DEF Range
  <2>. QED  BY <2>1, <2>2 DEF IdsOf, Call
<1>. HIDE DEF id
<1>3. id \notin Seen(s, i)
  <2>1. ASSUME NEW j \in 1..(i - 1), Calling(s[j]), id \in IdsOf(s[j]) PROVE FALSE
    <3>1. j \in DOMAIN s /\ j # i /\ IsReply(s[j])
      BY <1>1, <2>1 DEF Calling
    <3>. QED  BY <1>1, <1>2, <2>1, <3>1 DEF OneCaller
  <2>. QED  BY <2>1 DEF Seen, IdsOf
<1>4. CASE found = {}
  <2>1. /\ Result(id, 1, FALSE) \in Message /\ IsResult(Result(id, 1, FALSE))
        /\ Result(id, 1, FALSE).id = id
    BY <1>2 DEF Result, Message, IsResult
  <2>2. ResultFor(s, i, id) = <<Result(id, 1, FALSE)>>
    BY <1>3, <1>4 DEF ResultFor
  <2>. QED  BY <2>1, <2>2 DEF id
<1>5. CASE found # {}
  <2>1. found \subseteq DOMAIN s /\ found \subseteq Nat
    BY <1>1 DEF Span
  <2>2. \A j \in found : IsResult(s[j]) /\ s[j].id = id
    OBVIOUS
  <2>3. ResultFor(s, i, id) = <<s[First(found)]>>
    BY <1>3, <1>5 DEF ResultFor
  <2>. HIDE DEF found
  <2>4. \E j \in found : \A l \in found : j <= l
    BY <1>5, <2>1, LeastElement
  <2>5. First(found) \in found
    BY <2>4 DEF First
  <2>6. /\ s[First(found)] \in Message /\ IsResult(s[First(found)])
        /\ s[First(found)].id = id
    BY <1>1, <2>1, <2>2, <2>5
  <2>. QED  BY <2>3, <2>6 DEF id
<1>. QED  BY <1>4, <1>5

AnswersTo(s, i) ==
  FlattenSeq([k \in DOMAIN s[i].calls |-> ResultFor(s, i, s[i].calls[k].id)])

\* A caller gets one answer for each of its calls, in their order.
LEMMA AnswersMatch ==
  ASSUME NEW s, Written(s), NEW i \in DOMAIN s, Calling(s[i])
  PROVE  /\ AnswersTo(s, i) \in Seq(Message)
         /\ Len(AnswersTo(s, i)) = Len(s[i].calls)
         /\ \A k \in 1..Len(s[i].calls) :
              IsResult(AnswersTo(s, i)[k]) /\ AnswersTo(s, i)[k].id = s[i].calls[k].id
<1>. DEFINE calls == s[i].calls
            N  == Len(calls)
            ss == [k \in DOMAIN calls |-> ResultFor(s, i, calls[k].id)]
            Match(t, n) ==
              Len(t) = n /\ \A k \in 1..n : IsResult(t[k]) /\ t[k].id = calls[k].id
            D  == [n \in 0..N |-> {t \in Seq(Message) : Match(t, n)}]
<1>1. calls \in Seq(Call) /\ N \in Nat /\ DOMAIN calls = 1..N
  <2>1. s[i] \in Message /\ IsReply(s[i])
    BY DEF Written, Calling
  <2>2. calls \in Seq(Call)
    BY <2>1, MessageKinds
  <2>. QED  BY <2>2
<1>2. ASSUME NEW k \in 1..N
      PROVE  \E r \in Message : ss[k] = <<r>> /\ IsResult(r) /\ r.id = calls[k].id
  BY <1>1, ResultForOne
<1>3. ss \in Seq(Seq(Message)) /\ Len(ss) = N
  <2>1. \A k \in 1..N : ResultFor(s, i, calls[k].id) \in Seq(Message)
    <3>1. \A r \in Message : <<r>> \in Seq(Message)
      OBVIOUS
    <3>2. \A k \in 1..N : ss[k] \in Seq(Message)
      <4>. HIDE DEF ss
      <4>. QED  BY <1>2, <3>1
    <3>. QED  BY <1>1, <3>2
  <2>. QED  BY <1>1, <2>1
<1>4. AnswersTo(s, i) = FlattenSeq(ss)
  BY DEF AnswersTo
<1>. HIDE DEF ss, N, calls
<1>5. <<>> \in D[0]
  <2>1. <<>> \in Seq(Message) /\ Len(<<>>) = 0 /\ 0 \in 0..N
    BY <1>1
  <2>. QED  BY <2>1
<1>6. \A n \in 1..N : \A t \in Seq(Message) : t \in D[n - 1] => t \o ss[n] \in D[n]
  <2>. SUFFICES ASSUME NEW n \in 1..N, NEW t \in Seq(Message), t \in D[n - 1]
                PROVE  t \o ss[n] \in D[n]
    OBVIOUS
  <2>1. n \in 0..N /\ n - 1 \in 0..N
    BY <1>1
  <2>2. Len(t) = n - 1 /\ \A k \in 1..(n - 1) : IsResult(t[k]) /\ t[k].id = calls[k].id
    BY <2>1
  <2>3. PICK r \in Message : ss[n] = <<r>> /\ IsResult(r) /\ r.id = calls[n].id
    BY <1>2
  <2>. DEFINE u == t \o ss[n]
  <2>4. u \in Seq(Message) /\ Len(u) = n /\ u[n] = r /\ \A k \in 1..(n - 1) : u[k] = t[k]
    BY <2>1, <2>2, <2>3
  <2>. HIDE DEF u
  <2>5. Match(u, n)
    BY <2>1, <2>2, <2>3, <2>4
  <2>6. u \in D[n]
    BY <2>1, <2>4, <2>5
  <2>. QED  BY <2>6 DEF u
<1>7. FlattenSeq(ss) \in Seq(Message) /\ FlattenSeq(ss) \in D[N]
  <2>. HIDE DEF D
  <2>. QED  BY <1>3, <1>5, <1>6, FlattenBy
<1>8. Match(FlattenSeq(ss), N)
  BY <1>1, <1>7
<1>. QED  BY <1>4, <1>7, <1>8 DEF N, calls

Covered(s, i) == \E k \in DOMAIN s : Calling(s[k]) /\ (i = k \/ i \in Span(s, k))

PairPiece(s, i) ==
  IF Calling(s[i])
  THEN <<s[i]>> \o AnswersTo(s, i) \o Chosen(s, Span(s, i) \cap Users(s))
  ELSE IF IsResult(s[i]) \/ Covered(s, i) THEN <<>> ELSE <<s[i]>>

\* The repair, as one piece for every message.
LEMMA PairingByPieces ==
  ASSUME NEW s \in Seq(Message)
  PROVE  RepairToolUseResultPairing(s) = FlattenSeq([i \in DOMAIN s |-> PairPiece(s, i)])
<1>. DEFINE callers == {k \in DOMAIN s : Calling(s[k])}
<1>1. ASSUME NEW i \in DOMAIN s
      PROVE  /\ i \in callers <=> Calling(s[i])
             /\ ~Calling(s[i]) => (Covered(s, i) <=> \E k \in callers : i \in Span(s, k))
  BY DEF Covered
<1>2. RepairToolUseResultPairing(s) =
        FlattenSeq([i \in DOMAIN s |->
          IF i \in callers
          THEN <<s[i]>> \o AnswersTo(s, i) \o Chosen(s, Span(s, i) \cap Users(s))
          ELSE IF IsResult(s[i]) \/ \E k \in callers : i \in Span(s, k) THEN <<>>
          ELSE <<s[i]>>])
  BY DEF RepairToolUseResultPairing, AnswersTo
<1>3. ASSUME NEW i \in DOMAIN s
      PROVE  (IF i \in callers
              THEN <<s[i]>> \o AnswersTo(s, i) \o Chosen(s, Span(s, i) \cap Users(s))
              ELSE IF IsResult(s[i]) \/ \E k \in callers : i \in Span(s, k) THEN <<>>
              ELSE <<s[i]>>)
             = PairPiece(s, i)
  <2>. HIDE DEF callers
  <2>. QED  BY <1>1 DEF PairPiece
<1>. HIDE DEF callers
<1>4. [i \in DOMAIN s |->
          IF i \in callers
          THEN <<s[i]>> \o AnswersTo(s, i) \o Chosen(s, Span(s, i) \cap Users(s))
          ELSE IF IsResult(s[i]) \/ \E k \in callers : i \in Span(s, k) THEN <<>>
          ELSE <<s[i]>>]
      = [i \in DOMAIN s |-> PairPiece(s, i)]
  BY <1>3, Zenon
<1>. QED  BY <1>2, <1>4
\* What the user says in the span of a message.
Ahead(s, i) == SizeAt(s, Span(s, i) \cap Users(s))

\* A caller with its answers and what was said meanwhile.
LEMMA CallerPiece ==
  ASSUME NEW s, Written(s), NEW i \in DOMAIN s, Calling(s[i])
  PROVE  /\ PairPiece(s, i) \in Seq(Message) /\ PairPiece(s, i) # <<>>
         /\ Paired(PairPiece(s, i)) /\ Alternating(PairPiece(s, i))
         /\ ~EndsInReply(PairPiece(s, i))
         /\ Said(PairPiece(s, i)) = Ahead(s, i)
<1>. DEFINE m == s[i]
            N == Len(m.calls)
            a == AnswersTo(s, i)
            u == Chosen(s, Span(s, i) \cap Users(s))
            b == <<m>> \o a
            p == b \o u
<1>1. s \in Seq(Message) /\ m \in Message /\ IsReply(m)
  BY DEF Written, Calling
<1>2. m.calls \in Seq(Call) /\ N \in Nat /\ N >= 1 /\ DOMAIN m.calls = 1..N
  <2>1. m.calls \in Seq(Call) /\ m.calls # <<>>
    BY <1>1, MessageKinds DEF Calling
  <2>. QED  BY <2>1
<1>3. /\ a \in Seq(Message) /\ Len(a) = N
      /\ \A k \in 1..N : IsResult(a[k]) /\ a[k].id = m.calls[k].id
  BY AnswersMatch
<1>4. /\ u \in Seq(Message) /\ Said(u) = Ahead(s, i)
      /\ \A j \in DOMAIN u : IsUser(u[j])
  BY <1>1, SaidOfChosen DEF Ahead
<1>5. PairPiece(s, i) = p
  BY DEF PairPiece
<1>. HIDE DEF a, u
<1>6. /\ b \in Seq(Message) /\ Len(b) = N + 1 /\ b[1] = m /\ DOMAIN b = 1..(N + 1)
      /\ \A k \in 1..N : b[1 + k] = a[k]
  BY <1>1, <1>2, <1>3
<1>. HIDE DEF b, N
<1>7. \A j \in 1..(N + 1) : j # 1 => IsResult(b[j])
  <2>. SUFFICES ASSUME NEW j \in 1..(N + 1), j # 1 PROVE IsResult(b[j])
    OBVIOUS
  <2>1. j - 1 \in 1..N /\ 1 + (j - 1) = j
    BY <1>2
  <2>2. b[j] = a[j - 1]
    BY <1>6, <2>1
  <2>. QED  BY <1>3, <2>1, <2>2
<1>8. \A j \in 1..(N + 1) : b[j] \in Message
  BY <1>6
<1>9. Paired(b)
  <2>1. ASSUME NEW j \in DOMAIN b, Calling(b[j]), NEW k \in DOMAIN b[j].calls
        PROVE  j + k \in DOMAIN b /\ IsResult(b[j + k]) /\ b[j + k].id = b[j].calls[k].id
    <3>1. j = 1
      BY <1>6, <1>7, <1>8, <2>1, MessageKinds DEF Calling
    <3>2. k \in 1..N /\ 1 + k \in 1..(N + 1) /\ b[1 + k] = a[k]
      BY <1>2, <1>6, <2>1, <3>1
    <3>. QED  BY <1>3, <1>6, <3>1, <3>2
  <2>2. ASSUME NEW j \in DOMAIN b, IsResult(b[j])
        PROVE  \E k \in 1..(j - 1) : Calling(b[j - k]) /\ k <= Len(b[j - k].calls)
    <3>1. j # 1
      BY <1>1, <1>6, <2>2, MessageKinds
    <3>2. j - 1 \in 1..(j - 1) /\ j - (j - 1) = 1 /\ j - 1 <= N
      BY <1>2, <1>6, <3>1
    <3>3. Calling(b[j - (j - 1)]) /\ j - 1 <= Len(b[j - (j - 1)].calls)
      BY <1>6, <3>2 DEF N
    <3>. QED  BY <3>2, <3>3
  <2>. QED  BY <2>1, <2>2 DEF Paired
<1>10. Alternating(b) /\ ~EndsInReply(b)
  <2>1. \A j \in 1..(N + 1) : IsReply(b[j]) => j = 1
    BY <1>7, <1>8, MessageKinds
  <2>2. Len(b) \in 1..(N + 1) /\ Len(b) # 1
    BY <1>2, <1>6
  <2>. QED  BY <1>6, <2>1, <2>2 DEF Alternating, EndsInReply
<1>11. Said(b) = 0
  <2>1. \A j \in DOMAIN b : ~IsUser(b[j])
    BY <1>1, <1>6, <1>7, <1>8, MessageKinds
  <2>. QED  BY <1>6, <2>1, SaidOfNobody
<1>12. \A j \in DOMAIN u : ~IsReply(u[j]) /\ ~IsResult(u[j])
  <2>1. \A j \in DOMAIN u : u[j] \in Message
    BY <1>4
  <2>. QED  BY <1>4, <2>1, MessageKinds
<1>13. Paired(u) /\ Alternating(u) /\ ~EndsInReply(u) /\ (u = <<>> \/ ~IsReply(u[1]))
  <2>1. u # <<>> => 1 \in DOMAIN u /\ Len(u) \in DOMAIN u
    BY <1>4
  <2>. QED  BY <1>12, <2>1 DEF Paired, Calling, Alternating, EndsInReply
<1>14. p \in Seq(Message) /\ p # <<>>
  <2>1. p \in Seq(Message) /\ Len(p) = Len(b) + Len(u) /\ Len(u) \in Nat
    BY <1>4, <1>6, Both
  <2>. HIDE DEF p
  <2>2. Len(p) # 0
    BY <1>2, <1>6, <2>1
  <2>. QED  BY <2>1, <2>2
<1>15. Paired(p)
  BY <1>4, <1>6, <1>9, <1>13, PairedBoth
<1>16. Alternating(p) /\ ~EndsInReply(p)
  BY <1>4, <1>6, <1>10, <1>13, AlternatingBoth
<1>17. Said(p) = Ahead(s, i)
  <2>1. Said(p) = Said(b) + Said(u) /\ Said(u) \in Nat
    BY <1>4, <1>6, SaidOfBoth, SizeIsNat DEF Said
  <2>. QED  BY <1>4, <1>11, <2>1
<1>. QED  BY <1>5, <1>14, <1>15, <1>16, <1>17

\* The other pieces: a message, or nothing.
LEMMA OtherPiece ==
  ASSUME NEW m \in Message, ~Calling(m), ~IsResult(m)
  PROVE  <<m>> \in Seq(Message) /\ Paired(<<m>>) /\ Alternating(<<m>>)
<1>. DEFINE t == <<m>>
<1>1. t \in Seq(Message) /\ DOMAIN t = {1} /\ t[1] = m
  OBVIOUS
<1>. HIDE DEF t
<1>2. Paired(t) /\ Alternating(t)
  BY <1>1 DEF Paired, Alternating
<1>. QED  BY <1>1, <1>2 DEF t

LEMMA SpanStep ==
  ASSUME NEW s \in Seq(Message), NEW n \in 1..Len(s)
  PROVE  /\ IsReply(s[n]) => Span(s, n - 1) = {}
         /\ ~IsReply(s[n]) => Span(s, n - 1) = {n} \cup Span(s, n)
         /\ n \notin Span(s, n) /\ Span(s, Len(s)) = {}
         /\ Covered(s, n) <=> Calling(s[n]) \/ (~IsReply(s[n]) /\ Covered(s, n - 1))
<1>1. Len(s) \in Nat /\ DOMAIN s = 1..Len(s) /\ n \in Nat
  OBVIOUS
<1>2. IsReply(s[n]) => Span(s, n - 1) = {}
  <2>. SUFFICES ASSUME IsReply(s[n]), NEW j \in Span(s, n - 1) PROVE FALSE
    OBVIOUS
  <2>1. j \in n..Len(s) /\ \A k \in n..j : ~IsReply(s[k])
    BY <1>1 DEF Span
  <2>2. n \in n..j
    BY <1>1, <2>1
  <2>. QED  BY <2>1, <2>2
<1>3. ASSUME ~IsReply(s[n]) PROVE Span(s, n - 1) = {n} \cup Span(s, n)
  <2>1. ASSUME NEW j \in Span(s, n - 1), j # n PROVE j \in Span(s, n)
    <3>1. j \in n..Len(s) /\ \A k \in n..j : ~IsReply(s[k])
      BY <1>1 DEF Span
    <3>2. j \in n + 1..Len(s) /\ \A k \in n + 1..j : k \in n..j
      BY <1>1, <2>1, <3>1
    <3>. QED  BY <3>1, <3>2 DEF Span
  <2>2. n \in Span(s, n - 1)
    <3>1. \A k \in n..n : k = n
      BY <1>1
    <3>2. (n - 1) + 1 = n /\ n \in n..Len(s)
      BY <1>1
    <3>. QED  BY <1>3, <3>1, <3>2 DEF Span
  <2>3. ASSUME NEW j \in Span(s, n) PROVE j \in Span(s, n - 1)
    <3>1. j \in n + 1..Len(s) /\ \A k \in n + 1..j : ~IsReply(s[k])
      BY DEF Span
    <3>2. j \in n..Len(s) /\ (n - 1) + 1 = n /\ \A k \in n..j : k = n \/ k \in n + 1..j
      BY <1>1, <3>1
    <3>3. \A k \in n..j : ~IsReply(s[k])
      BY <1>3, <3>1, <3>2
    <3>. QED  BY <3>2, <3>3 DEF Span
  <2>. QED  BY <2>1, <2>2, <2>3
<1>4. n \notin Span(s, n) /\ Span(s, Len(s)) = {}
  BY <1>1 DEF Span
<1>5. ASSUME NEW k \in DOMAIN s, k # n
      PROVE  n \in Span(s, k) <=> ~IsReply(s[n]) /\ (n - 1 = k \/ n - 1 \in Span(s, k))
  <2>1. ASSUME n \in Span(s, k) PROVE ~IsReply(s[n]) /\ (n - 1 = k \/ n - 1 \in Span(s, k))
    <3>1. n \in k + 1..Len(s) /\ \A j \in k + 1..n : ~IsReply(s[j])
      BY <2>1 DEF Span
    <3>2. n \in k + 1..n /\ (n - 1 = k \/ n - 1 \in k + 1..Len(s))
          /\ \A j \in k + 1..(n - 1) : j \in k + 1..n
      BY <1>1, <3>1
    <3>. QED  BY <3>1, <3>2 DEF Span
  <2>2. ASSUME ~IsReply(s[n]), n - 1 = k \/ n - 1 \in Span(s, k) PROVE n \in Span(s, k)
    <3>1. n - 1 \in k + 1..Len(s) => \A j \in k + 1..n : j = n \/ j \in k + 1..(n - 1)
      BY <1>1
    <3>2. n - 1 = k => n \in k + 1..Len(s) /\ \A j \in k + 1..n : j = n
      BY <1>1
    <3>3. n - 1 \in k + 1..Len(s) => n \in k + 1..Len(s)
      BY <1>1
    <3>. QED  BY <2>2, <3>1, <3>2, <3>3 DEF Span
  <2>. QED  BY <2>1, <2>2
<1>6. n \notin Span(s, n)
  BY <1>4
<1>7. \A k \in DOMAIN s : k = n => ~(n - 1 = k \/ n - 1 \in Span(s, k))
  BY <1>1 DEF Span
<1>8. Covered(s, n) <=> Calling(s[n]) \/ (~IsReply(s[n]) /\ Covered(s, n - 1))
  BY <1>1, <1>5, <1>6, <1>7 DEF Covered
<1>. QED  BY <1>2, <1>3, <1>4, <1>8

\* What is still ahead in the span shrinks with every message of it.
LEMMA AheadStep ==
  ASSUME NEW s \in Seq(Message), NEW n \in 1..Len(s)
  PROVE  /\ IsReply(s[n]) => Ahead(s, n - 1) = 0
         /\ ~IsReply(s[n]) =>
              Ahead(s, n - 1) = Ahead(s, n) + (IF IsUser(s[n]) THEN s[n].size ELSE 0)
         /\ Ahead(s, Len(s)) = 0 /\ Ahead(s, n) \in Nat
<1>1. IsReply(s[n]) => Ahead(s, n - 1) = 0
  <2>1. IsReply(s[n]) => Span(s, n - 1) \cap Users(s) = {}
    BY SpanStep
  <2>. QED  BY <2>1, SizeAtNone DEF Ahead
<1>2. Ahead(s, Len(s)) = 0
  <2>1. Span(s, Len(s)) \cap Users(s) = {}
    BY SpanStep
  <2>. QED  BY <2>1, SizeAtNone DEF Ahead
<1>3. Ahead(s, n) \in Nat
  BY SizeIsNat DEF Ahead
<1>4. ASSUME ~IsReply(s[n])
      PROVE  Ahead(s, n - 1) = Ahead(s, n) + (IF IsUser(s[n]) THEN s[n].size ELSE 0)
  <2>1. Span(s, n - 1) = {n} \cup Span(s, n) /\ n \notin Span(s, n)
    BY <1>4, SpanStep
  <2>2. n \in Users(s) <=> IsUser(s[n])
    BY DEF Users
  <2>3. CASE IsUser(s[n])
    <3>. DEFINE S == Span(s, n) \cap Users(s)
    <3>1. Span(s, n - 1) \cap Users(s) = S \cup {n} /\ n \notin S
      BY <2>1, <2>2, <2>3
    <3>. HIDE DEF S
    <3>2. SizeAt(s, S \cup {n}) = SizeAt(s, S) + s[n].size
      BY <3>1, SizeAtWith
    <3>. QED  BY <2>3, <3>1, <3>2 DEF Ahead, S
  <2>4. CASE ~IsUser(s[n])
    <3>1. Span(s, n - 1) \cap Users(s) = Span(s, n) \cap Users(s)
      BY <2>1, <2>2, <2>4
    <3>2. Ahead(s, n - 1) = Ahead(s, n)
      BY <3>1 DEF Ahead
    <3>. QED  BY <1>3, <2>4, <3>2
  <2>. QED  BY <2>3, <2>4
<1>. QED  BY <1>1, <1>2, <1>3, <1>4
\* The last reply calls nothing, and only results follow it.
OpenReply(s, n) ==
  \E r \in 1..n : IsReply(s[r]) /\ ~Calling(s[r]) /\ \A k \in r + 1..n : IsResult(s[k])

\* A transcript that ends in such a reply takes no further reply.
LEMMA OpenIsClosed ==
  ASSUME NEW s \in Seq(Message), NEW n \in 0..Len(s), OpenReply(s, n)
  PROVE  ClosedAt(s, n) /\ ~Covered(s, n)
<1>1. PICK r \in 1..n : IsReply(s[r]) /\ ~Calling(s[r]) /\ \A k \in r + 1..n : IsResult(s[k])
  BY DEF OpenReply
<1>2. Len(s) \in Nat /\ DOMAIN s = 1..Len(s) /\ \A k \in 1..n : s[k] \in Message
  OBVIOUS
<1>3. ClosedAt(s, n)
  <2>1. \A k \in r + 1..n : ~IsUser(s[k])
    <3>1. \A k \in r + 1..n : k \in 1..n
      OBVIOUS
    <3>. QED  BY <1>1, <1>2, <3>1, MessageKinds
  <2>. QED  BY <1>1, <2>1 DEF ClosedAt
<1>4. ASSUME NEW k \in DOMAIN s, Calling(s[k]), n = k \/ n \in Span(s, k) PROVE FALSE
  <2>1. k \in 1..n /\ IsReply(s[k]) /\ k # r
    <3>1. n \in Span(s, k) => n \in k + 1..Len(s)
      BY DEF Span
    <3>. QED  BY <1>1, <1>2, <1>4, <3>1 DEF Calling
  <2>2. CASE k > r
    <3>1. k \in r + 1..n
      BY <1>2, <2>1, <2>2
    <3>. QED  BY <1>1, <1>2, <2>1, <3>1, MessageKinds
  <2>3. CASE k < r
    <3>1. n \in Span(s, k) /\ r \in k + 1..n
      BY <1>2, <1>4, <2>3
    <3>. QED  BY <1>1, <3>1 DEF Span
  <2>. QED  BY <1>2, <2>1, <2>2, <2>3
<1>. QED  BY <1>3, <1>4 DEF Covered

\* repairToolUseResultPairing: calls and answers are paired, replies alternate,
\* and of what the user said nothing is lost.
LEMMA PairingWorks ==
  ASSUME NEW s, Written(s)
  PROVE  LET t == RepairToolUseResultPairing(s)
         IN  t \in Seq(Message) /\ Paired(t) /\ Alternating(t) /\ Said(t) = Said(s)
<1>. DEFINE N  == Len(s)
            ss == [i \in DOMAIN s |-> PairPiece(s, i)]
            Said1(n) == Sizes(s, Users(s))[n]
            Fits(t, n) ==
              /\ Paired(t) /\ Alternating(t)
              /\ EndsInReply(t) => OpenReply(s, n)
              /\ Said(t) = Said1(n) + (IF Covered(s, n) THEN Ahead(s, n) ELSE 0)
            D == [n \in 0..N |-> {t \in Seq(Message) : Fits(t, n)}]
<1>1. /\ s \in Seq(Message) /\ RepliesInTurn(s) /\ Written(s)
      /\ N \in Nat /\ DOMAIN s = 1..N /\ \A n \in 1..N : s[n] \in Message
  BY DEF Written
<1>2. RepairToolUseResultPairing(s) = FlattenSeq(ss)
  BY <1>1, PairingByPieces
<1>3. /\ \A n \in 1..N : ss[n] = PairPiece(s, n) /\ ss[n] \in Seq(Message)
      /\ ss \in Seq(Seq(Message)) /\ Len(ss) = N
  <2>1. ASSUME NEW n \in 1..N PROVE PairPiece(s, n) \in Seq(Message)
    <3>1. CASE Calling(s[n])
      BY <1>1, <3>1, CallerPiece
    <3>2. CASE ~Calling(s[n])
      <4>1. <<>> \in Seq(Message) /\ <<s[n]>> \in Seq(Message)
        BY <1>1
      <4>. QED  BY <3>2, <4>1 DEF PairPiece
    <3>. QED  BY <3>1, <3>2
  <2>. QED  BY <1>1, <2>1
<1>. HIDE DEF ss, N
<1>4. Fits(<<>>, 0)
  <2>1. <<>> \in Seq(Message) /\ Len(<<>>) = 0 /\ DOMAIN <<>> = {}
    OBVIOUS
  <2>2. Said(<<>>) = 0 /\ Said1(0) = 0
    BY <1>1, <2>1, SizesStep DEF Said, SizeAt
  <2>3. ~Covered(s, 0)
    BY <1>1 DEF Covered, Span
  <2>. HIDE DEF Said1
  <2>. QED  BY <2>1, <2>2, <2>3 DEF Paired, Alternating, EndsInReply
<1>5. ASSUME NEW n \in 1..N, NEW t \in Seq(Message), Fits(t, n - 1)
      PROVE  Fits(t \o ss[n], n)
  <2>1. /\ s[n] \in Message /\ n \in 1..Len(s) /\ n \in Nat /\ n - 1 \in 0..Len(s)
        /\ n \in DOMAIN s /\ ss[n] = PairPiece(s, n) /\ ss[n] \in Seq(Message)
    BY <1>1, <1>3 DEF N
  <2>2. /\ Said1(n) = Said1(n - 1) + (IF IsUser(s[n]) THEN s[n].size ELSE 0)
        /\ Said1(n - 1) \in Nat /\ s[n].size \in Nat
    BY <1>1, <2>1, SaidStep, MessageKinds
  <2>. HIDE DEF Said1
  <2>3. /\ IsReply(s[n]) => Ahead(s, n - 1) = 0
        /\ ~IsReply(s[n]) =>
             Ahead(s, n - 1) = Ahead(s, n) + (IF IsUser(s[n]) THEN s[n].size ELSE 0)
        /\ Ahead(s, n) \in Nat
        /\ Covered(s, n) <=> Calling(s[n]) \/ (~IsReply(s[n]) /\ Covered(s, n - 1))
    BY <1>1, <2>1, AheadStep, SpanStep
  <2>4. EndsInReply(t) => ClosedAt(s, n - 1) /\ ~Covered(s, n - 1)
    BY <1>1, <1>5, <2>1, OpenIsClosed
  <2>5. IsReply(s[n]) => ~EndsInReply(t)
    BY <1>1, <2>1, <2>4 DEF RepliesInTurn
  <2>6. OpenReply(s, n - 1) /\ IsResult(s[n]) => OpenReply(s, n)
    <3>. SUFFICES ASSUME OpenReply(s, n - 1), IsResult(s[n]) PROVE OpenReply(s, n)
      OBVIOUS
    <3>1. PICK r \in 1..(n - 1) :
            IsReply(s[r]) /\ ~Calling(s[r]) /\ \A k \in r + 1..(n - 1) : IsResult(s[k])
      BY DEF OpenReply
    <3>2. r \in 1..n /\ \A k \in r + 1..n : k = n \/ k \in r + 1..(n - 1)
      BY <2>1
    <3>. QED  BY <3>1, <3>2 DEF OpenReply
  <2>7. IsReply(s[n]) /\ ~Calling(s[n]) => OpenReply(s, n)
    <3>1. n \in 1..n /\ \A k \in n + 1..n : FALSE
      BY <2>1
    <3>. QED  BY <3>1 DEF OpenReply
  <2>8. CASE Calling(s[n])
    <3>1. /\ ss[n] # <<>> /\ Paired(ss[n]) /\ Alternating(ss[n]) /\ ~EndsInReply(ss[n])
          /\ Said(ss[n]) = Ahead(s, n)
      BY <1>1, <2>1, <2>8, CallerPiece
    <3>2. IsReply(s[n]) /\ ~IsUser(s[n]) /\ Covered(s, n)
      BY <2>1, <2>3, <2>8, MessageKinds DEF Calling
    <3>3. Paired(t \o ss[n])
      BY <1>5, <2>1, <3>1, PairedBoth
    <3>4. Alternating(t \o ss[n]) /\ ~EndsInReply(t \o ss[n])
      BY <1>5, <2>1, <2>5, <3>1, <3>2, AlternatingBoth
    <3>5. Said(t \o ss[n]) = Said(t) + Ahead(s, n)
      BY <2>1, <3>1, SaidOfBoth
    <3>6. Said(t) = Said1(n - 1)
      BY <1>5, <2>2, <2>3, <3>2
    <3>7. Said(t \o ss[n]) = Said1(n) + Ahead(s, n)
      BY <2>2, <3>2, <3>5, <3>6
    <3>. QED  BY <3>2, <3>3, <3>4, <3>7
  <2>9. CASE ~Calling(s[n]) /\ (IsResult(s[n]) \/ Covered(s, n))
    <3>1. ss[n] = <<>>
      BY <2>1, <2>9 DEF PairPiece
    <3>2. t \o ss[n] = t
      BY <3>1
    <3>3. ~IsReply(s[n]) /\ (Covered(s, n) <=> Covered(s, n - 1))
          /\ (~Covered(s, n) => ~IsUser(s[n]))
      BY <2>1, <2>3, <2>9, MessageKinds
    <3>4. Said(t) = Said1(n) + (IF Covered(s, n) THEN Ahead(s, n) ELSE 0)
      <4>1. CASE Covered(s, n)
        BY <1>5, <2>2, <2>3, <3>3, <4>1
      <4>2. CASE ~Covered(s, n)
        BY <1>5, <2>2, <3>3, <4>2
      <4>. QED  BY <4>1, <4>2
    <3>5. EndsInReply(t) => OpenReply(s, n)
      BY <1>5, <2>4, <2>6, <2>9, <3>3
    <3>. QED  BY <1>5, <3>2, <3>4, <3>5
  <2>10. CASE ~Calling(s[n]) /\ ~IsResult(s[n]) /\ ~Covered(s, n)
    <3>1. ss[n] = <<s[n]>>
      BY <2>1, <2>10 DEF PairPiece
    <3>2. Paired(ss[n]) /\ Alternating(ss[n])
      BY <2>1, <2>10, <3>1, OtherPiece
    <3>3. Said(ss[n]) = (IF IsUser(s[n]) THEN s[n].size ELSE 0)
      BY <2>1, <3>1, SaidOfOne
    <3>4. ss[n] # <<>> /\ ss[n][1] = s[n] /\ (EndsInReply(ss[n]) <=> IsReply(s[n]))
      BY <3>1 DEF EndsInReply
    <3>5. Paired(t \o ss[n])
      BY <1>5, <2>1, <3>2, PairedBoth
    <3>6. Alternating(t \o ss[n]) /\ (EndsInReply(t \o ss[n]) => IsReply(s[n]))
      BY <1>5, <2>1, <2>5, <3>2, <3>4, AlternatingBoth
    <3>7. Said(t) = Said1(n - 1)
      <4>1. IsReply(s[n]) => Ahead(s, n - 1) = 0
        BY <2>3
      <4>2. ~IsReply(s[n]) => ~Covered(s, n - 1)
        BY <2>3, <2>10
      <4>. QED  BY <1>5, <2>2, <4>1, <4>2
    <3>8. Said(t \o ss[n]) = Said1(n)
      <4>1. Said(t \o ss[n]) = Said(t) + Said(ss[n])
        BY <2>1, SaidOfBoth
      <4>. QED  BY <2>2, <3>3, <3>7, <4>1
    <3>9. Said1(n) \in Nat
      BY <2>2
    <3>. QED  BY <2>7, <2>10, <3>5, <3>6, <3>8, <3>9
  <2>. HIDE DEF Fits
  <2>. QED  BY <2>8, <2>9, <2>10
<1>. HIDE DEF Fits
<1>6. <<>> \in D[0]
  BY <1>1, <1>4
<1>7. \A n \in 1..N : \A t \in Seq(Message) : t \in D[n - 1] => t \o ss[n] \in D[n]
  <2>. SUFFICES ASSUME NEW n \in 1..N, NEW t \in Seq(Message), t \in D[n - 1]
                PROVE  t \o ss[n] \in D[n]
    OBVIOUS
  <2>1. n \in 0..N /\ n - 1 \in 0..N /\ ss[n] \in Seq(Message)
    BY <1>1, <1>3
  <2>2. Fits(t, n - 1)
    BY <2>1
  <2>3. Fits(t \o ss[n], n) /\ t \o ss[n] \in Seq(Message)
    BY <1>5, <2>1, <2>2
  <2>. QED  BY <2>1, <2>3
<1>8. FlattenSeq(ss) \in Seq(Message) /\ FlattenSeq(ss) \in D[N]
  <2>. HIDE DEF D
  <2>. QED  BY <1>3, <1>6, <1>7, FlattenBy
<1>9. Fits(FlattenSeq(ss), N)
  BY <1>1, <1>8
<1>10. Said1(N) = Said(s) /\ Said(s) \in Nat
  BY <1>1, SizeIsNat DEF Said, SizeAt, N
<1>11. Covered(s, N) => Ahead(s, N) = 0
  <2>1. CASE N = 0
    BY <1>1, <2>1 DEF Covered, Span
  <2>2. CASE N # 0
    <3>1. N \in 1..Len(s) /\ N = Len(s)
      BY <1>1, <2>2 DEF N
    <3>. QED  BY <1>1, <3>1, AheadStep
  <2>. QED  BY <2>1, <2>2
<1>12. Said(FlattenSeq(ss)) = Said(s)
  <2>1. Said(FlattenSeq(ss)) = Said1(N) + (IF Covered(s, N) THEN Ahead(s, N) ELSE 0)
    BY <1>9 DEF Fits
  <2>. HIDE DEF Said1
  <2>. QED  BY <1>10, <1>11, <2>1
<1>. QED  BY <1>2, <1>8, <1>9, <1>12 DEF Fits

---------------------------------------------------------------------------
(* Merging of turns.                                                       *)

Roles == {"user", "assistant"}

Merge(t, m, role) ==
  IF t # <<>> /\ Last(t).role = role /\ m.role = role
  THEN [t EXCEPT ![Len(t)] = Join(@, m)]
  ELSE Append(t, m)

\* Two messages of one role joined.
LEMMA JoinIsMessage ==
  ASSUME NEW a \in Message, NEW b \in Message, NEW role \in Roles, a.role = role, b.role = role
  PROVE  Join(a, b) \in Message /\ Join(a, b).role = role
<1>1. CASE role = "user"
  <2>1. IsUser(a) /\ a.size + b.size \in Nat
    BY <1>1, MessageKinds DEF IsUser
  <2>. QED  BY <1>1, <2>1 DEF Join, User, Message
<1>2. CASE role = "assistant"
  <2>1. IsReply(a) /\ IsReply(b) /\ ~IsUser(a)
    BY <1>2 DEF IsReply, IsUser
  <2>2. a.calls \in Seq(Call) /\ b.calls \in Seq(Call)
    BY <2>1, MessageKinds
  <2>3. a.calls \o b.calls \in Seq(Call)
    BY <2>2
  <2>4. Join(a, b) = [b EXCEPT !.calls = a.calls \o b.calls]
    BY <2>1 DEF Join
  <2>. QED  BY <1>2, <2>3, <2>4 DEF Message, Call
<1>. QED  BY <1>1, <1>2 DEF Roles

\* The two cases of a step.
LEMMA MergeCases ==
  ASSUME NEW t \in Seq(Message), NEW m \in Message, NEW role \in Roles
  PROVE  LET u == Merge(t, m, role)
             L == Len(t)
         IN  /\ u \in Seq(Message)
             /\ \/ u = Append(t, m) /\ (t = <<>> \/ t[L].role # role \/ m.role # role)
                \/ /\ t # <<>> /\ t[L].role = role /\ m.role = role /\ Len(u) = L
                   /\ u[L] = Join(t[L], m) /\ \A i \in 1..(L - 1) : u[i] = t[i]
<1>. DEFINE u == Merge(t, m, role)
            L == Len(t)
<1>1. L \in Nat /\ (t # <<>> => L \in 1..L /\ t[L] \in Message /\ Last(t) = t[L])
  BY DEF Last
<1>2. CASE t # <<>> /\ t[L].role = role /\ m.role = role
  <2>. DEFINE w == Join(t[L], m)
  <2>1. w \in Message
    BY <1>1, <1>2, JoinIsMessage
  <2>2. u = [t EXCEPT ![L] = w]
    BY <1>1, <1>2 DEF Merge
  <2>. HIDE DEF w, u
  <2>3. u \in Seq(Message) /\ Len(u) = L /\ u[L] = w /\ \A i \in 1..(L - 1) : u[i] = t[i]
    BY <1>1, <1>2, <2>1, <2>2
  <2>. QED  BY <1>2, <2>3 DEF u, w
<1>3. CASE ~(t # <<>> /\ t[L].role = role /\ m.role = role)
  <2>1. u = Append(t, m)
    BY <1>1, <1>3 DEF Merge
  <2>. QED  BY <1>3, <2>1
<1>. QED  BY <1>2, <1>3

\* What holds of every prefix of a merge holds of the result.
LEMMA MergedBy ==
  ASSUME NEW s \in Seq(Message), NEW role \in Roles, NEW D, <<>> \in D[0],
         \A n \in 1..Len(s) : \A t \in Seq(Message) :
           t \in D[n - 1] => Merge(t, s[n], role) \in D[n]
  PROVE  Merged(s, role)[Len(s)] \in Seq(Message) /\ Merged(s, role)[Len(s)] \in D[Len(s)]
<1>. DEFINE N == Len(s)
            S == Seq(Message)
            step == [n \in 1..N |-> [t \in S |-> Merge(t, s[n], role)]]
<1>1. N \in Nat /\ <<>> \in S /\ \A n \in 1..N : s[n] \in Message
  OBVIOUS
<1>2. ASSUME NEW n \in 1..N, NEW t \in S PROVE Merge(t, s[n], role) \in S
  BY <1>1, MergeCases
<1>. HIDE DEF S, N
<1>3. step \in [1..N -> [S -> S]]
  BY <1>2
<1>4. PICK f \in [0..N -> S] : Solves(f, N, <<>>, step)
  <2>. HIDE DEF step
  <2>. QED  BY <1>1, <1>3, Recursion, Zenon
<1>5. f[0] = <<>> /\ \A n \in 1..N : f[n] = Merge(f[n - 1], s[n], role)
  <2>1. ASSUME NEW n \in 1..N PROVE f[n] = Merge(f[n - 1], s[n], role)
    <3>1. f[n] = step[n][f[n - 1]]
      BY <1>4 DEF Solves
    <3>2. n - 1 \in 0..N
      BY <1>1
    <3>3. f[n - 1] \in S
      BY <3>2
    <3>. QED  BY <3>1, <3>3
  <2>. QED  BY <1>4, <2>1 DEF Solves
<1>6. f = [n \in 0..N |-> IF n = 0 THEN <<>> ELSE Merge(f[n - 1], s[n], role)]
  BY <1>1, <1>4, <1>5
<1>. DEFINE g == CHOOSE g : g = [n \in 0..N |-> IF n = 0 THEN <<>> ELSE Merge(g[n - 1], s[n], role)]
<1>7. g = [n \in 0..N |-> IF n = 0 THEN <<>> ELSE Merge(g[n - 1], s[n], role)]
  BY <1>6
<1>8. Merged(s, role) = g
  BY DEF Merged, Merge, N
<1>. HIDE DEF g
<1>9. g[0] = <<>> /\ \A n \in 1..N : g[n] = Merge(g[n - 1], s[n], role)
  BY <1>1, <1>7
<1>. DEFINE P == {n \in 0..N : g[n] \in S /\ g[n] \in D[n]}
<1>10. 0 \in P
  BY <1>1, <1>9
<1>11. ASSUME NEW n \in 0..(N - 1), n \in P PROVE n + 1 \in P
  <2>1. n + 1 \in 1..N /\ n + 1 \in 0..N /\ (n + 1) - 1 = n
    BY <1>1
  <2>2. g[n + 1] = Merge(g[n], s[n + 1], role) /\ g[n] \in S /\ g[n] \in D[n]
    BY <1>9, <1>11, <2>1
  <2>3. g[n + 1] \in S
    BY <1>2, <2>1, <2>2
  <2>4. g[n + 1] \in D[n + 1]
    BY <2>1, <2>2 DEF S, N
  <2>. QED  BY <2>1, <2>3, <2>4
<1>. HIDE DEF P
<1>12. \A n \in 0..N : n \in P
  BY <1>1, <1>10, <1>11, UpTo
<1>13. g[N] \in S /\ g[N] \in D[N]
  BY <1>1, <1>12 DEF P
<1>. QED  BY <1>8, <1>13 DEF S, N

\* For Gemini nothing is left to merge.
LEMMA GeminiTurnsAreLeft ==
  ASSUME NEW s \in Seq(Message), Alternating(s)
  PROVE  ValidateGeminiTurns(s) = s
<1>. DEFINE N == Len(s)
            Same(t, n) == Len(t) = n /\ \A i \in 1..n : t[i] = s[i]
            D == [n \in 0..N |-> {t \in Seq(Message) : Same(t, n)}]
<1>1. N \in Nat /\ DOMAIN s = 1..N /\ \A n \in 1..N : s[n] \in Message
  OBVIOUS
<1>. HIDE DEF N
<1>2. <<>> \in D[0]
  <2>1. <<>> \in Seq(Message) /\ Len(<<>>) = 0 /\ 0 \in 0..N
    BY <1>1
  <2>. QED  BY <2>1
<1>3. \A n \in 1..N : \A t \in Seq(Message) : t \in D[n - 1] => Merge(t, s[n], "assistant") \in D[n]
  <2>. SUFFICES ASSUME NEW n \in 1..N, NEW t \in Seq(Message), t \in D[n - 1]
                PROVE  Merge(t, s[n], "assistant") \in D[n]
    OBVIOUS
  <2>1. n \in 0..N /\ n - 1 \in 0..N /\ s[n] \in Message /\ "assistant" \in Roles
    BY <1>1 DEF Roles
  <2>2. Len(t) = n - 1 /\ \A i \in 1..(n - 1) : t[i] = s[i]
    BY <2>1
  <2>3. t # <<>> => n - 1 \in 1..(n - 1) /\ n \in DOMAIN s /\ n # 1
    BY <1>1, <2>2
  <2>4. ~(t # <<>> /\ t[n - 1].role = "assistant" /\ s[n].role = "assistant")
    BY <2>2, <2>3 DEF Alternating, IsReply
  <2>5. Merge(t, s[n], "assistant") = Append(t, s[n])
    <3>1. ~(t # <<>> /\ t[Len(t)].role = "assistant" /\ s[n].role = "assistant")
      BY <2>2, <2>4
    <3>. QED  BY <3>1 DEF Merge, Last
  <2>. DEFINE u == Append(t, s[n])
  <2>6. u \in Seq(Message) /\ Len(u) = n /\ u[n] = s[n] /\ \A i \in 1..(n - 1) : u[i] = t[i]
    BY <2>1, <2>2
  <2>. HIDE DEF u
  <2>7. Same(u, n)
    <3>1. \A i \in 1..n : i = n \/ i \in 1..(n - 1)
      BY <2>1
    <3>. QED  BY <2>2, <2>6, <3>1
  <2>8. u \in D[n]
    BY <2>1, <2>6, <2>7
  <2>. QED  BY <2>5, <2>8 DEF u
<1>. DEFINE v == Merged(s, "assistant")[N]
<1>4. v \in Seq(Message) /\ v \in D[N]
  <2>1. "assistant" \in Roles
    BY DEF Roles
  <2>. HIDE DEF D
  <2>. QED  BY <1>2, <1>3, <2>1, MergedBy DEF N
<1>. HIDE DEF v
<1>5. Len(v) = N /\ \A i \in 1..N : v[i] = s[i]
  BY <1>1, <1>4
<1>6. v = s
  BY <1>1, <1>4, <1>5 DEF N
<1>. QED  BY <1>6 DEF ValidateGeminiTurns, v, N
\* After n messages of a paired transcript, what t has to do with them: what is
\* answered is answered in place, and what is not stands where it stood, seen
\* from the end.
OwesAlike(s, t, n) ==
  LET L == Len(t) IN
  /\ \A i \in 1..L : Calling(t[i]) => \A k \in 1..Len(t[i].calls) :
       i + k <= L => IsResult(t[i + k]) /\ t[i + k].id = t[i].calls[k].id
  /\ \A i \in 1..L : IsResult(t[i]) => \E k \in 1..(i - 1) :
       Calling(t[i - k]) /\ k <= Len(t[i - k].calls)
  /\ \A d \in 0..(L - 1) : Calling(t[L - d]) =>
       Len(t[L - d].calls) <= d \/ (d < n /\ s[n - d] = t[L - d])
  /\ \A d \in 0..(n - 1) : Calling(s[n - d]) /\ d < Len(s[n - d].calls) =>
       d < L /\ t[L - d] = s[n - d]

LEMMA PairedHas ==
  ASSUME NEW s \in Seq(Message), Paired(s)
  PROVE  /\ \A i \in 1..Len(s) : Calling(s[i]) =>
              /\ Len(s[i].calls) \in Nat
              /\ \A k \in 1..Len(s[i].calls) :
                   i + k <= Len(s) /\ IsResult(s[i + k]) /\ s[i + k].id = s[i].calls[k].id
         /\ \A i \in 1..Len(s) : IsResult(s[i]) =>
              \E k \in 1..(i - 1) : Calling(s[i - k]) /\ k <= Len(s[i - k].calls)
<1>1. Len(s) \in Nat /\ DOMAIN s = 1..Len(s) /\ \A i \in 1..Len(s) : s[i] \in Message
  OBVIOUS
<1>2. ASSUME NEW i \in 1..Len(s), Calling(s[i])
      PROVE  /\ Len(s[i].calls) \in Nat
             /\ \A k \in 1..Len(s[i].calls) :
                  i + k <= Len(s) /\ IsResult(s[i + k]) /\ s[i + k].id = s[i].calls[k].id
  <2>1. s[i].calls \in Seq(Call)
    BY <1>1, <1>2, MessageKinds DEF Calling
  <2>2. Len(s[i].calls) \in Nat /\ DOMAIN s[i].calls = 1..Len(s[i].calls)
    BY <2>1
  <2>3. \A k \in DOMAIN s[i].calls :
          i + k \in DOMAIN s /\ IsResult(s[i + k]) /\ s[i + k].id = s[i].calls[k].id
    BY <1>1, <1>2 DEF Paired
  <2>. QED  BY <1>1, <2>2, <2>3
<1>. QED  BY <1>1, <1>2 DEF Paired

LEMMA CallsHaveLength ==
  ASSUME NEW m \in Message, Calling(m)
  PROVE  Len(m.calls) \in Nat /\ DOMAIN m.calls = 1..Len(m.calls)
<1>1. m.calls \in Seq(Call)
  BY MessageKinds DEF Calling
<1>. QED  BY <1>1

\* A message added, not merged, keeps the debts.
LEMMA OwesAppend ==
  ASSUME NEW s \in Seq(Message), Paired(s), NEW n \in 1..Len(s),
         NEW t \in Seq(Message), OwesAlike(s, t, n - 1)
  PROVE  OwesAlike(s, Append(t, s[n]), n)
<1>. DEFINE m == s[n]
            u == Append(t, m)
            L == Len(t)
            M == L + 1
            c(i) == Len(t[i].calls)
<1>1. /\ Len(s) \in Nat /\ n \in Nat /\ n >= 1 /\ L \in Nat /\ m \in Message
      /\ Len(u) = M /\ u[M] = m /\ \A i \in 1..L : u[i] = t[i]
      /\ \A i \in 1..Len(s) : s[i] \in Message
      /\ \A i \in 1..L : t[i] \in Message
  OBVIOUS
<1>2. /\ \A i \in 1..L : Calling(t[i]) => \A k \in 1..c(i) :
           i + k <= L => IsResult(t[i + k]) /\ t[i + k].id = t[i].calls[k].id
      /\ \A i \in 1..L : IsResult(t[i]) => \E k \in 1..(i - 1) :
           Calling(t[i - k]) /\ k <= c(i - k)
      /\ \A d \in 0..(L - 1) : Calling(t[L - d]) =>
           c(L - d) <= d \/ (d < n - 1 /\ s[n - 1 - d] = t[L - d])
      /\ \A d \in 0..(n - 1 - 1) : Calling(s[n - 1 - d]) /\ d < Len(s[n - 1 - d].calls) =>
           d < L /\ t[L - d] = s[n - 1 - d]
  BY DEF OwesAlike
<1>. HIDE DEF u, L, c
<1>3. \A i \in 1..L : Calling(t[i]) => c(i) \in Nat
  BY <1>1, CallsHaveLength DEF c
<1>4. ASSUME NEW i \in 1..M, Calling(u[i]), NEW k \in 1..Len(u[i].calls), i + k <= M
      PROVE  IsResult(u[i + k]) /\ u[i + k].id = u[i].calls[k].id
  <2>1. i \in 1..L /\ u[i] = t[i] /\ k \in 1..c(i) /\ c(i) \in Nat
    <3>1. u[i] \in Message
      BY <1>1
    <3>2. Len(u[i].calls) \in Nat
      BY <1>4, <3>1, CallsHaveLength
    <3>3. i \in 1..L
      BY <1>1, <1>4, <3>2
    <3>. QED  BY <1>1, <1>3, <1>4, <3>3 DEF c
  <2>2. CASE i + k <= L
    <3>1. i + k \in 1..L
      BY <1>1, <2>1, <2>2
    <3>. QED  BY <1>1, <1>2, <1>4, <2>1, <2>2, <3>1
  <2>3. CASE i + k = M
    <3>1. PICK d \in 0..(L - 1) : L - d = i /\ d + 1 = k /\ ~(c(i) <= d)
      <4>1. L \in Nat /\ i \in 1..L /\ k \in Nat /\ i + k = L + 1 /\ k <= c(i) /\ c(i) \in Nat
        BY <1>1, <2>1, <2>3
      <4>2. L - i \in 0..(L - 1) /\ L - (L - i) = i /\ (L - i) + 1 = k /\ ~(c(i) <= L - i)
        BY <4>1
      <4>. QED  BY <4>2
    <3>2. d < n - 1 /\ s[n - 1 - d] = t[i]
      BY <1>2, <1>4, <2>1, <3>1
    <3>3. n - 1 - d \in 1..Len(s) /\ (n - 1 - d) + k = n
      <4>1. d \in Nat /\ d < n - 1 /\ d + 1 = k /\ n \in 1..Len(s) /\ Len(s) \in Nat
        BY <1>1, <3>1, <3>2
      <4>. QED  BY <4>1
    <3>4. IsResult(s[n]) /\ s[n].id = t[i].calls[k].id
      <4>1. Calling(s[n - 1 - d]) /\ k \in 1..Len(s[n - 1 - d].calls)
        BY <1>4, <2>1, <3>2 DEF c
      <4>2. /\ IsResult(s[(n - 1 - d) + k])
            /\ s[(n - 1 - d) + k].id = s[n - 1 - d].calls[k].id
        BY <3>3, <4>1, PairedHas
      <4>. QED  BY <3>2, <3>3, <4>2
    <3>. QED  BY <1>1, <2>1, <2>3, <3>4
  <2>4. i + k <= L \/ i + k = M
    <3>1. L \in Nat /\ i \in Nat /\ k \in Nat /\ i + k <= L + 1
      BY <1>1, <1>4, <2>1
    <3>. QED  BY <3>1
  <2>. QED  BY <2>2, <2>3, <2>4
<1>5. ASSUME NEW i \in 1..M, IsResult(u[i])
      PROVE  \E k \in 1..(i - 1) : Calling(u[i - k]) /\ k <= Len(u[i - k].calls)
  <2>1. CASE i \in 1..L
    <3>1. PICK k \in 1..(i - 1) : Calling(t[i - k]) /\ k <= c(i - k)
      BY <1>1, <1>2, <1>5, <2>1
    <3>2. i - k \in 1..L
      BY <1>1, <2>1
    <3>. QED  BY <1>1, <3>1, <3>2 DEF c
  <2>2. CASE i = M
    <3>1. PICK k \in 1..(n - 1) : Calling(s[n - k]) /\ k <= Len(s[n - k].calls)
      BY <1>1, <1>5, <2>2, PairedHas
    <3>2. /\ k - 1 \in 0..(n - 1 - 1) /\ n - 1 - (k - 1) = n - k
          /\ n - k \in 1..Len(s)
      BY <1>1
    <3>3. Len(s[n - k].calls) \in Nat
      BY <1>1, <3>1, <3>2, CallsHaveLength
    <3>4. k - 1 < L /\ t[L - (k - 1)] = s[n - k]
      <4>1. k - 1 < Len(s[n - k].calls)
        BY <3>1, <3>3
      <4>. QED  BY <1>2, <3>1, <3>2, <4>1
    <3>5. k \in 1..(i - 1) /\ i - k = L - (k - 1) /\ i - k \in 1..L
      BY <1>1, <2>2, <3>4
    <3>. QED  BY <1>1, <3>1, <3>4, <3>5
  <2>. QED  BY <1>1, <2>1, <2>2
<1>6. ASSUME NEW d \in 0..(M - 1), Calling(u[M - d])
      PROVE  Len(u[M - d].calls) <= d \/ (d < n /\ s[n - d] = u[M - d])
  <2>1. CASE d = 0
    BY <1>1, <2>1
  <2>2. CASE d # 0
    <3>1. d - 1 \in 0..(L - 1) /\ L - (d - 1) = M - d /\ M - d \in 1..L
          /\ n - 1 - (d - 1) = n - d
      BY <1>1, <2>2
    <3>2. u[M - d] = t[M - d] /\ c(M - d) \in Nat
      BY <1>1, <1>3, <1>6, <3>1
    <3>3. c(M - d) <= d - 1 \/ (d - 1 < n - 1 /\ s[n - d] = t[M - d])
      BY <1>2, <1>6, <3>1, <3>2
    <3>. QED  BY <1>1, <3>2, <3>3 DEF c
  <2>. QED  BY <2>1, <2>2
<1>7. ASSUME NEW d \in 0..(n - 1), Calling(s[n - d]), d < Len(s[n - d].calls)
      PROVE  d < M /\ u[M - d] = s[n - d]
  <2>1. CASE d = 0
    BY <1>1, <2>1
  <2>2. CASE d # 0
    <3>1. d - 1 \in 0..(n - 1 - 1) /\ n - 1 - (d - 1) = n - d /\ n - d \in 1..Len(s)
      BY <1>1, <2>2
    <3>2. Len(s[n - d].calls) \in Nat
      BY <1>1, <1>7, <3>1, CallsHaveLength
    <3>3. d - 1 < L /\ t[L - (d - 1)] = s[n - d]
      BY <1>2, <1>7, <3>1, <3>2
    <3>4. L - (d - 1) = M - d /\ M - d \in 1..L /\ d < M
      <4>1. L \in Nat /\ d \in Nat /\ d >= 1 /\ d - 1 < L /\ M = L + 1
        BY <1>1, <2>2, <3>3
      <4>. HIDE DEF M
      <4>. QED  BY <4>1
    <3>. QED  BY <1>1, <3>3, <3>4
  <2>. QED  BY <2>1, <2>2
<1>8. OwesAlike(s, u, n)
  <2>. HIDE DEF M, m
  <2>. QED  BY <1>1, <1>4, <1>5, <1>6, <1>7 DEF OwesAlike
<1>. QED  BY <1>8 DEF u

\* A user message merged keeps the debts: none is open when a user speaks.
LEMMA OwesMerge ==
  ASSUME NEW s \in Seq(Message), Paired(s), NEW n \in 1..Len(s), IsUser(s[n]),
         NEW t \in Seq(Message), OwesAlike(s, t, n - 1), t # <<>>, IsUser(t[Len(t)]),
         NEW u \in Seq(Message), Len(u) = Len(t), IsUser(u[Len(t)]),
         \A i \in 1..(Len(t) - 1) : u[i] = t[i]
  PROVE  OwesAlike(s, u, n)
<1>. DEFINE L == Len(t)
            c(i) == Len(t[i].calls)
<1>1. /\ Len(s) \in Nat /\ n \in Nat /\ n >= 1 /\ L \in Nat /\ L >= 1 /\ Len(u) = L
      /\ s[n] \in Message /\ t[L] \in Message /\ u[L] \in Message
      /\ \A i \in 1..L : t[i] \in Message
  OBVIOUS
<1>2. /\ ~IsResult(s[n]) /\ ~Calling(s[n]) /\ ~IsResult(t[L]) /\ ~Calling(t[L])
      /\ ~IsResult(u[L]) /\ ~Calling(u[L])
  BY <1>1, MessageKinds DEF Calling
<1>3. /\ \A i \in 1..L : Calling(t[i]) => \A k \in 1..c(i) :
           i + k <= L => IsResult(t[i + k]) /\ t[i + k].id = t[i].calls[k].id
      /\ \A i \in 1..L : IsResult(t[i]) => \E k \in 1..(i - 1) :
           Calling(t[i - k]) /\ k <= c(i - k)
      /\ \A d \in 0..(L - 1) : Calling(t[L - d]) =>
           c(L - d) <= d \/ (d < n - 1 /\ s[n - 1 - d] = t[L - d])
  BY DEF OwesAlike
<1>4. \A i \in 1..(L - 1) : u[i] = t[i]
  OBVIOUS
<1>. HIDE DEF L, c
<1>5. \A i \in 1..L : Calling(t[i]) => c(i) \in Nat
  BY <1>1, CallsHaveLength DEF c
<1>6. \* what is due at n is answered: by a result, which s[n] is not
      ASSUME NEW j \in 1..(n - 1), Calling(s[j]), j + Len(s[j].calls) >= n PROVE FALSE
  <2>1. Len(s[j].calls) \in Nat /\ j \in 1..Len(s)
    BY <1>1, <1>6, PairedHas
  <2>2. n - j \in 1..Len(s[j].calls) /\ j + (n - j) = n
    BY <1>1, <1>6, <2>1
  <2>. QED  BY <1>2, <1>6, <2>1, <2>2, PairedHas
<1>7. ASSUME NEW i \in 1..L, Calling(u[i]), NEW k \in 1..Len(u[i].calls), i + k <= L
      PROVE  IsResult(u[i + k]) /\ u[i + k].id = u[i].calls[k].id
  <2>1. i # L
    BY <1>2, <1>7
  <2>2. i \in 1..(L - 1) /\ u[i] = t[i]
    BY <1>1, <1>4, <2>1
  <2>3. c(i) \in Nat /\ k \in 1..c(i)
    BY <1>5, <1>7, <2>2 DEF c
  <2>4. IsResult(t[i + k]) /\ t[i + k].id = u[i].calls[k].id
    BY <1>3, <1>7, <2>2, <2>3
  <2>5. i + k # L
    BY <1>2, <2>4
  <2>6. i + k \in 1..(L - 1)
    BY <1>1, <1>7, <2>2, <2>3, <2>5
  <2>. QED  BY <1>4, <2>4, <2>6
<1>8. ASSUME NEW i \in 1..L, IsResult(u[i])
      PROVE  \E k \in 1..(i - 1) : Calling(u[i - k]) /\ k <= Len(u[i - k].calls)
  <2>1. i # L
    BY <1>2, <1>8
  <2>2. i \in 1..(L - 1) /\ u[i] = t[i]
    BY <1>1, <1>4, <2>1
  <2>3. PICK k \in 1..(i - 1) : Calling(t[i - k]) /\ k <= c(i - k)
    BY <1>3, <1>8, <2>2
  <2>4. i - k \in 1..(L - 1)
    BY <1>1, <2>2
  <2>. QED  BY <1>4, <2>3, <2>4 DEF c
<1>9. ASSUME NEW d \in 0..(L - 1), Calling(u[L - d])
      PROVE  Len(u[L - d].calls) <= d \/ (d < n /\ s[n - d] = u[L - d])
  <2>1. d # 0
    BY <1>1, <1>2, <1>9
  <2>2. L - d \in 1..(L - 1) /\ L - d \in 1..L
    BY <1>1, <2>1
  <2>3. u[L - d] = t[L - d] /\ c(L - d) \in Nat
    BY <1>4, <1>5, <1>9, <2>2
  <2>4. c(L - d) <= d \/ (d < n - 1 /\ s[n - 1 - d] = t[L - d])
    BY <1>3, <1>9, <2>3
  <2>5. ASSUME d < n - 1, s[n - 1 - d] = t[L - d] PROVE c(L - d) <= d
    <3>1. n - 1 - d \in 1..(n - 1) /\ (n - 1 - d) + (d + 1) = n
      BY <1>1, <2>5
    <3>2. ~((n - 1 - d) + c(L - d) >= n)
      BY <1>6, <1>9, <2>3, <2>5, <3>1 DEF c
    <3>. QED  BY <1>1, <2>3, <3>1, <3>2
  <2>. QED  BY <2>3, <2>4, <2>5 DEF c
<1>10. ASSUME NEW d \in 0..(n - 1), Calling(s[n - d]), d < Len(s[n - d].calls)
       PROVE  d < L /\ u[L - d] = s[n - d]
  <2>1. d # 0
    BY <1>1, <1>2, <1>10
  <2>2. n - d \in 1..(n - 1) /\ n - d \in 1..Len(s)
    BY <1>1, <2>1
  <2>3. Len(s[n - d].calls) \in Nat
    BY <1>10, <2>2, PairedHas
  <2>4. (n - d) + Len(s[n - d].calls) >= n
    BY <1>1, <1>10, <2>3
  <2>. QED  BY <1>6, <1>10, <2>2, <2>4
<1>11. /\ \A i \in 1..Len(u) : Calling(u[i]) => \A k \in 1..Len(u[i].calls) :
            i + k <= Len(u) => IsResult(u[i + k]) /\ u[i + k].id = u[i].calls[k].id
       /\ \A i \in 1..Len(u) : IsResult(u[i]) => \E k \in 1..(i - 1) :
            Calling(u[i - k]) /\ k <= Len(u[i - k].calls)
  BY <1>1, <1>7, <1>8
<1>12. /\ \A d \in 0..(Len(u) - 1) : Calling(u[Len(u) - d]) =>
            Len(u[Len(u) - d].calls) <= d \/ (d < n /\ s[n - d] = u[Len(u) - d])
       /\ \A d \in 0..(n - 1) : Calling(s[n - d]) /\ d < Len(s[n - d].calls) =>
            d < Len(u) /\ u[Len(u) - d] = s[n - d]
  BY <1>1, <1>9, <1>10
<1>. QED  BY <1>11, <1>12 DEF OwesAlike

\* At the end nothing is owed.
LEMMA OwesNothing ==
  ASSUME NEW s \in Seq(Message), Paired(s), NEW t \in Seq(Message), OwesAlike(s, t, Len(s))
  PROVE  Paired(t)
<1>. DEFINE L == Len(t)
            N == Len(s)
<1>1. /\ L \in Nat /\ N \in Nat /\ DOMAIN t = 1..L
      /\ \A i \in 1..L : t[i] \in Message
  OBVIOUS
<1>2. /\ \A i \in 1..L : Calling(t[i]) => \A k \in 1..Len(t[i].calls) :
           i + k <= L => IsResult(t[i + k]) /\ t[i + k].id = t[i].calls[k].id
      /\ \A i \in 1..L : IsResult(t[i]) => \E k \in 1..(i - 1) :
           Calling(t[i - k]) /\ k <= Len(t[i - k].calls)
      /\ \A d \in 0..(L - 1) : Calling(t[L - d]) =>
           Len(t[L - d].calls) <= d \/ (d < N /\ s[N - d] = t[L - d])
  BY DEF OwesAlike
<1>3. \A i \in 1..N : Calling(s[i]) =>
        Len(s[i].calls) \in Nat /\ \A k \in 1..Len(s[i].calls) : i + k <= N
  BY PairedHas
<1>. HIDE DEF L, N
<1>4. ASSUME NEW i \in 1..L, Calling(t[i]), NEW k \in DOMAIN t[i].calls
      PROVE  i + k \in 1..L /\ IsResult(t[i + k]) /\ t[i + k].id = t[i].calls[k].id
  <2>1. Len(t[i].calls) \in Nat /\ k \in 1..Len(t[i].calls)
    BY <1>1, <1>4, CallsHaveLength
  <2>2. i + k <= L
    <3>. SUFFICES ASSUME ~(i + k <= L) PROVE FALSE
      OBVIOUS
    <3>1. PICK d \in 0..(L - 1) : L - d = i /\ d < k
      <4>1. L - i \in 0..(L - 1) /\ L - (L - i) = i /\ L - i < k
        BY <1>1, <2>1
      <4>. QED  BY <4>1
    <3>2. d < N /\ s[N - d] = t[i]
      BY <1>2, <1>4, <2>1, <3>1
    <3>3. N - d \in 1..N /\ d + 1 \in 1..Len(t[i].calls) /\ ~((N - d) + (d + 1) <= N)
      BY <1>1, <2>1, <3>1, <3>2
    <3>. QED  BY <1>3, <1>4, <3>2, <3>3
  <2>3. i + k \in 1..L
    BY <1>1, <2>1, <2>2
  <2>. QED  BY <1>2, <1>4, <2>1, <2>2, <2>3
<1>. QED  BY <1>1, <1>2, <1>4 DEF Paired

LEMMA SameSequence ==
  ASSUME NEW a \in Seq(Message), NEW b \in Seq(Message), Len(a) = Len(b),
         \A i \in 1..Len(a) : a[i] = b[i]
  PROVE  a = b
OBVIOUS

\* The last message of a transcript replaced.
LEMMA SaidOfLast ==
  ASSUME NEW t \in Seq(Message), t # <<>>, NEW u \in Seq(Message), Len(u) = Len(t),
         \A i \in 1..(Len(t) - 1) : u[i] = t[i],
         IsUser(t[Len(t)]), IsUser(u[Len(t)])
  PROVE  Said(u) + t[Len(t)].size = Said(t) + u[Len(t)].size
<1>. DEFINE L == Len(t)
            c == SubSeq(t, 1, L - 1)
            a == t[L]
            b == u[L]
<1>1. L \in Nat /\ L >= 1 /\ a \in Message /\ b \in Message
  OBVIOUS
<1>2. c \in Seq(Message) /\ Len(c) = L - 1 /\ \A i \in 1..(L - 1) : c[i] = t[i]
  BY <1>1
<1>. HIDE DEF c
<1>3. t = c \o <<a>> /\ u = c \o <<b>>
  <2>1. \A m \in Message : /\ c \o <<m>> \in Seq(Message) /\ Len(c \o <<m>>) = L
                           /\ (c \o <<m>>)[L] = m /\ \A i \in 1..(L - 1) : (c \o <<m>>)[i] = t[i]
    BY <1>1, <1>2
  <2>2. \A i \in 1..L : i = L \/ i \in 1..(L - 1)
    BY <1>1
  <2>3. Len(c \o <<a>>) = Len(t) /\ \A i \in 1..L : (c \o <<a>>)[i] = t[i]
    BY <1>1, <2>1, <2>2
  <2>4. Len(c \o <<b>>) = Len(u) /\ \A i \in 1..L : (c \o <<b>>)[i] = u[i]
    BY <1>1, <2>1, <2>2
  <2>5. c \o <<a>> \in Seq(Message) /\ c \o <<b>> \in Seq(Message)
    BY <1>1, <2>1
  <2>6. c \o <<a>> = t
    <3>. DEFINE x == c \o <<a>>
    <3>1. x \in Seq(Message) /\ Len(x) = Len(t) /\ \A i \in 1..Len(x) : x[i] = t[i]
      BY <2>3, <2>5
    <3>. HIDE DEF x
    <3>2. x = t
      BY <3>1, SameSequence
    <3>. QED  BY <3>2 DEF x
  <2>7. c \o <<b>> = u
    <3>. DEFINE x == c \o <<b>>
    <3>1. x \in Seq(Message) /\ Len(x) = Len(u) /\ \A i \in 1..Len(x) : x[i] = u[i]
      BY <2>4, <2>5
    <3>. HIDE DEF x
    <3>2. x = u
      BY <3>1, SameSequence
    <3>. QED  BY <3>2 DEF x
  <2>. QED  BY <2>6, <2>7
<1>4. /\ <<a>> \in Seq(Message) /\ <<b>> \in Seq(Message)
      /\ Said(<<a>>) = a.size /\ Said(<<b>>) = b.size
  BY <1>1, SaidOfOne
<1>5. Said(t) = Said(c) + a.size /\ Said(u) = Said(c) + b.size
  BY <1>2, <1>3, <1>4, SaidOfBoth
<1>6. Said(c) \in Nat /\ a.size \in Nat /\ b.size \in Nat
  BY <1>1, <1>2, SizeIsNat, MessageKinds DEF Said
<1>. QED  BY <1>5, <1>6

NoTwoUsers(s) == \A i \in DOMAIN s : IsUser(s[i]) => i = 1 \/ ~IsUser(s[i - 1])

\* The state of the merge for Anthropic after n messages.
Joined(s, t, n) ==
  /\ OwesAlike(s, t, n)
  /\ Said(t) = Sizes(s, Users(s))[n]
  /\ NoTwoUsers(t)

\* One step of the merge for Anthropic.
LEMMA JoinedStep ==
  ASSUME NEW s \in Seq(Message), Paired(s), NEW n \in 1..Len(s),
         NEW t \in Seq(Message), Joined(s, t, n - 1)
  PROVE  Joined(s, Merge(t, s[n], "user"), n)
<1>. DEFINE m == s[n]
            L == Len(t)
            u == Merge(t, m, "user")
            said == Sizes(s, Users(s))
<1>1. /\ L \in Nat /\ m \in Message /\ "user" \in Roles
      /\ t # <<>> => L >= 1 /\ L \in 1..L /\ t[L] \in Message
      /\ DOMAIN t = 1..L
  BY DEF Roles
<1>2. OwesAlike(s, t, n - 1) /\ Said(t) = said[n - 1] /\ NoTwoUsers(t)
  BY DEF Joined
<1>3. said[n - 1] \in Nat /\ said[n] = said[n - 1] + (IF IsUser(m) THEN m.size ELSE 0)
  BY SaidStep
<1>4. m.size \in Nat /\ (t # <<>> => t[L].size \in Nat)
  BY <1>1, MessageKinds
<1>. HIDE DEF said
<1>5. CASE t # <<>> /\ IsUser(t[L]) /\ IsUser(m)
  <2>. DEFINE w == Join(t[L], m)
  <2>1. w = User(t[L].size + m.size)
    BY <1>5 DEF Join
  <2>2. w \in Message /\ IsUser(w) /\ w.size = t[L].size + m.size
    BY <1>1, <1>4, <1>5, <2>1 DEF User, Message, IsUser
  <2>3. u = [t EXCEPT ![L] = w]
    BY <1>1, <1>5 DEF Merge, Last, IsUser
  <2>. HIDE DEF w, u, m, L
  <2>4. u \in Seq(Message) /\ Len(u) = L /\ u[L] = w /\ \A i \in 1..(L - 1) : u[i] = t[i]
    BY <1>1, <1>5, <2>2, <2>3 DEF L
  <2>5. OwesAlike(s, u, n)
    BY <1>2, <1>5, <2>2, <2>4, OwesMerge DEF L, m
  <2>6. Said(u) + t[L].size = Said(t) + u[L].size
    BY <1>5, <2>2, <2>4, SaidOfLast DEF L
  <2>7. Said(u) = said[n]
    <3>1. Said(u) \in Nat
      BY <2>4, SizeIsNat DEF Said
    <3>2. u[L].size = t[L].size + m.size
      BY <2>2, <2>4
    <3>3. said[n] = Said(t) + m.size /\ Said(t) \in Nat
      BY <1>2, <1>3, <1>5
    <3>4. t[L].size \in Nat /\ m.size \in Nat
      BY <1>4, <1>5
    <3>5. Said(u) + t[L].size = Said(t) + (t[L].size + m.size)
      BY <2>6, <3>2, Zenon
    <3>. DEFINE p == Said(u)
                q == Said(t)
                x == t[L].size
                y == m.size
    <3>6. p \in Nat /\ q \in Nat /\ x \in Nat /\ y \in Nat /\ p + x = q + (x + y)
      BY <3>1, <3>3, <3>4, <3>5
    <3>. HIDE DEF p, q, x, y
    <3>7. p = q + y
      BY <3>6
    <3>. QED  BY <3>3, <3>7 DEF p, q, y
  <2>8. NoTwoUsers(u)
    <3>1. \A i \in 1..L : IsUser(u[i]) <=> IsUser(t[i])
      <4>1. \A i \in 1..L : i = L \/ i \in 1..(L - 1)
        BY <1>1
      <4>. QED  BY <1>5, <2>2, <2>4, <4>1
    <3>2. DOMAIN u = 1..L /\ \A i \in 1..L : i = 1 \/ i - 1 \in 1..L
      BY <1>1, <2>4
    <3>. QED  BY <1>1, <1>2, <3>1, <3>2 DEF NoTwoUsers
  <2>. QED  BY <2>5, <2>7, <2>8 DEF Joined, u, m, said
<1>6. CASE ~(t # <<>> /\ IsUser(t[L]) /\ IsUser(m))
  <2>1. u = Append(t, m)
    BY <1>1, <1>6 DEF Merge, Last, IsUser
  <2>2. OwesAlike(s, Append(t, m), n)
    BY <1>2, OwesAppend
  <2>3. Append(t, m) = t \o <<m>>
    BY <1>1
  <2>4. Said(Append(t, m)) = said[n]
    <3>1. <<m>> \in Seq(Message) /\ Said(<<m>>) = IF IsUser(m) THEN m.size ELSE 0
      BY <1>1, SaidOfOne
    <3>2. Said(t \o <<m>>) = Said(t) + Said(<<m>>)
      BY <3>1, SaidOfBoth
    <3>. QED  BY <1>2, <1>3, <2>3, <3>1, <3>2
  <2>5. NoTwoUsers(Append(t, m))
    <3>. DEFINE v == Append(t, m)
    <3>1. DOMAIN v = 1..(L + 1) /\ v[L + 1] = m /\ \A i \in 1..L : v[i] = t[i]
      BY <1>1
    <3>. HIDE DEF v, L, m
    <3>2. ASSUME NEW i \in 1..(L + 1), IsUser(v[i]), i # 1 PROVE ~IsUser(v[i - 1])
      <4>1. CASE i \in 1..L
        <5>1. i - 1 \in 1..L
          BY <1>1, <3>2, <4>1
        <5>. QED  BY <1>1, <1>2, <3>1, <3>2, <4>1, <5>1 DEF NoTwoUsers
      <4>2. CASE i = L + 1
        <5>1. t # <<>> /\ i - 1 = L /\ L \in 1..L
          BY <1>1, <3>2, <4>2 DEF L
        <5>. QED  BY <1>6, <3>1, <3>2, <4>2, <5>1
      <4>. QED  BY <1>1, <4>1, <4>2
    <3>3. NoTwoUsers(v)
      BY <3>1, <3>2 DEF NoTwoUsers
    <3>. QED  BY <3>3 DEF v
  <2>. QED  BY <2>1, <2>2, <2>4, <2>5 DEF Joined, said
<1>. QED  BY <1>5, <1>6

\* For Anthropic users become one, and a paired transcript stays paired.
LEMMA AnthropicTurns ==
  ASSUME NEW s \in Seq(Message), Paired(s)
  PROVE  /\ ValidateAnthropicTurns(s) \in Seq(Message)
         /\ Paired(ValidateAnthropicTurns(s))
         /\ Said(ValidateAnthropicTurns(s)) = Said(s)
         /\ NoTwoUsers(ValidateAnthropicTurns(s))
<1>. DEFINE N == Len(s)
            D == [n \in 0..N |-> {t \in Seq(Message) : Joined(s, t, n)}]
<1>1. N \in Nat /\ DOMAIN s = 1..N /\ \A n \in 1..N : s[n] \in Message
  OBVIOUS
<1>2. <<>> \in D[0]
  <2>1. <<>> \in Seq(Message) /\ Len(<<>>) = 0 /\ 0 \in 0..N /\ DOMAIN <<>> = {}
    BY <1>1
  <2>2. OwesAlike(s, <<>>, 0)
    BY <2>1 DEF OwesAlike
  <2>3. Said(<<>>) = 0
    BY <2>1, SizesStep DEF Said, SizeAt
  <2>4. Sizes(s, Users(s))[0] = 0
    BY SizesStep
  <2>5. NoTwoUsers(<<>>)
    BY <2>1 DEF NoTwoUsers
  <2>6. Joined(s, <<>>, 0)
    BY <2>2, <2>3, <2>4, <2>5 DEF Joined
  <2>. QED  BY <2>1, <2>6
<1>. HIDE DEF N
<1>3. \A n \in 1..N : \A t \in Seq(Message) : t \in D[n - 1] => Merge(t, s[n], "user") \in D[n]
  <2>. SUFFICES ASSUME NEW n \in 1..N, NEW t \in Seq(Message), t \in D[n - 1]
                PROVE  Merge(t, s[n], "user") \in D[n]
    OBVIOUS
  <2>1. n \in 0..N /\ n - 1 \in 0..N /\ s[n] \in Message /\ "user" \in Roles
    BY <1>1 DEF Roles
  <2>2. Joined(s, t, n - 1)
    BY <2>1
  <2>3. Joined(s, Merge(t, s[n], "user"), n)
    BY <2>2, JoinedStep DEF N
  <2>4. Merge(t, s[n], "user") \in Seq(Message)
    BY <2>1, MergeCases
  <2>. QED  BY <2>1, <2>3, <2>4
<1>. DEFINE v == Merged(s, "user")[N]
<1>4. v \in Seq(Message) /\ v \in D[N]
  <2>1. "user" \in Roles
    BY DEF Roles
  <2>. HIDE DEF D
  <2>. QED  BY <1>2, <1>3, <2>1, MergedBy DEF N
<1>. HIDE DEF v
<1>5. Joined(s, v, N) /\ v \in Seq(Message)
  BY <1>1, <1>4
<1>6. Paired(v)
  BY <1>5, OwesNothing DEF Joined, N
<1>7. Said(v) = Said(s)
  BY <1>5 DEF Joined, N, Said, SizeAt
<1>. QED  BY <1>5, <1>6, <1>7 DEF ValidateAnthropicTurns, v, N, Joined

\* For Google a transcript that begins with a reply gets an empty message of
\* the user before it.
LEMMA GoogleTurns ==
  ASSUME NEW s \in Seq(Message), Paired(s), Alternating(s)
  PROVE  LET t == ValidateGeminiTurns(SanitizeGoogleTurnOrdering(s))
         IN  /\ Paired(t) /\ Said(t) = Said(s)
             /\ \A i \in DOMAIN t : IsReply(t[i]) => i > 1 /\ ~IsReply(t[i - 1])
<1>. DEFINE g == SanitizeGoogleTurnOrdering(s)
            b == <<User(0)>>
<1>1. /\ g \in Seq(Message) /\ Paired(g) /\ Alternating(g) /\ Said(g) = Said(s)
      /\ g # <<>> => ~IsReply(g[1])
  <2>1. CASE s # <<>> /\ IsReply(s[1])
    <3>1. g = b \o s
      BY <2>1 DEF SanitizeGoogleTurnOrdering
    <3>2. User(0) \in Message /\ IsUser(User(0)) /\ User(0).size = 0 /\ ~IsReply(User(0))
          /\ ~IsResult(User(0)) /\ ~Calling(User(0))
      BY DEF User, Message, IsUser, IsReply, IsResult, Calling
    <3>3. b \in Seq(Message) /\ Said(b) = 0 /\ DOMAIN b = {1} /\ b[1] = User(0) /\ Len(b) = 1
      BY <3>2, SaidOfOne
    <3>. HIDE DEF b, g
    <3>4. Paired(b) /\ Alternating(b) /\ ~EndsInReply(b)
      BY <3>2, <3>3 DEF Paired, Alternating, EndsInReply
    <3>5. Paired(g) /\ Alternating(g) /\ g \in Seq(Message) /\ g[1] = b[1]
      <4>1. 1 \in 1..Len(b)
        BY <3>3
      <4>. QED  BY <3>1, <3>3, <3>4, <4>1, PairedBoth, AlternatingBoth, Both
    <3>6. Said(g) = Said(s)
      <4>1. Said(g) = Said(b) + Said(s)
        BY <3>1, <3>3, SaidOfBoth
      <4>2. Said(s) \in Nat
        BY SizeIsNat DEF Said
      <4>. QED  BY <3>3, <4>1, <4>2
    <3>. QED  BY <3>2, <3>3, <3>5, <3>6
  <2>2. CASE ~(s # <<>> /\ IsReply(s[1]))
    BY <2>2 DEF SanitizeGoogleTurnOrdering
  <2>. QED  BY <2>1, <2>2
<1>. HIDE DEF g
<1>2. ValidateGeminiTurns(g) = g
  BY <1>1, GeminiTurnsAreLeft
<1>3. ASSUME NEW i \in DOMAIN g, IsReply(g[i]) PROVE i > 1 /\ ~IsReply(g[i - 1])
  <2>1. i \in 1..Len(g) /\ Len(g) \in Nat /\ g # <<>>
    BY <1>1
  <2>2. i # 1
    BY <1>1, <1>3, <2>1
  <2>. QED  BY <1>1, <1>3, <2>1, <2>2 DEF Alternating
<1>. QED  BY <1>1, <1>2, <1>3 DEF g

---------------------------------------------------------------------------
(* What the model is given.                                                *)

\* The step from the history to the context, for one state.
LEMMA AcceptedNow == ASSUME TranscriptsInv PROVE ContextAccepted
<1>. DEFINE limited == LimitHistoryTurns(history)
            pruned == PruneContextMessages(limited)
            repaired == RepairToolUseResultPairing(RepairToolCallInputs(pruned))
            recent == IF AssistantCutoff(limited) = 0 THEN 1 ELSE AssistantCutoff(limited)
<1>1. Written(limited)
  <2>1. Written(history)
    BY DEF TranscriptsInv, TranscriptsTypeOK, HistoryBooks, Written
  <2>. QED  BY <2>1, LimitIsWritten
<1>. HIDE DEF limited
<1>2. limited \in Seq(Message)
  BY <1>1 DEF Written
<1>3. Cut(limited, pruned) /\ (AssistantCutoff(limited) = 0 => pruned = limited)
  BY <1>2, PruneCuts
<1>. HIDE DEF pruned
<1>4. Written(pruned) /\ Said(pruned) = Said(limited)
  BY <1>1, <1>3, CutIsWritten
<1>5. Written(RepairToolCallInputs(pruned))
      /\ Said(RepairToolCallInputs(pruned)) = Said(limited)
  BY <1>4, CallInputsAreWritten
<1>6. /\ repaired \in Seq(Message) /\ Paired(repaired) /\ Alternating(repaired)
      /\ Said(repaired) = Said(limited)
  BY <1>5, PairingWorks
<1>. HIDE DEF repaired
<1>7. ASSUME NEW i \in DOMAIN limited, i >= recent PROVE pruned[i] = limited[i]
  <2>1. i \in 1..Len(limited) /\ i \in Nat /\ AssistantCutoff(limited) \in Nat
    BY <1>2, CutoffIsNat
  <2>2. CASE AssistantCutoff(limited) = 0
    BY <1>3, <2>2
  <2>3. CASE AssistantCutoff(limited) # 0
    <3>1. ~(i < AssistantCutoff(limited))
      BY <1>7, <2>1, <2>3
    <3>. QED  BY <1>3, <2>1, <3>1 DEF Cut
  <2>. QED  BY <2>2, <2>3
<1>8. /\ Context("google") = ValidateGeminiTurns(SanitizeGoogleTurnOrdering(repaired))
      /\ Context("anthropic") = ValidateAnthropicTurns(repaired)
  BY DEF Context, SanitizePromptInput, limited, pruned, repaired
<1>9. LET s == Context("google")
      IN  /\ Paired(s) /\ Said(s) = Said(limited)
          /\ \A i \in DOMAIN s : IsReply(s[i]) => i > 1 /\ ~IsReply(s[i - 1])
  BY <1>6, <1>8, GoogleTurns
<1>10. LET s == Context("anthropic")
       IN  /\ Paired(s) /\ Said(s) = Said(limited)
           /\ \A i \in DOMAIN s : IsUser(s[i]) => i = 1 \/ ~IsUser(s[i - 1])
  BY <1>6, <1>8, AnthropicTurns DEF NoTwoUsers
<1>. QED  BY <1>7, <1>9, <1>10 DEF ContextAccepted, Said, limited, pruned

\* However a session was interrupted, killed, steered and limited, whatever its
\* tools answered and whatever the limits are, sanitizePromptInputForModel hands
\* the model a transcript its provider accepts, of the turns that are kept every
\* word of the user, and from the last replies on the results of the file.
THEOREM ContextIsAccepted == TranscriptsSpec => []ContextAccepted
BY TranscriptsInvariant, AcceptedNow, PTL
=============================================================================
