--------------------------- MODULE HttpFilterProofs ---------------------------
(***************************************************************************)
(* Proofs about HttpFilter: type correctness, and that what the filter     *)
(* chain does with the chunks of a stream neither loses nor repeats nor    *)
(* moves a unit of it.  Both need what FlattenSeq does with a sequence of  *)
(* any length.  It is a recursive function, and the lemmas about it go by  *)
(* induction over a set of numbers.                                        *)
(***************************************************************************)
EXTENDS HttpFilter, SequenceTheorems, WellFoundedInduction, TLAPS

-----------------------------------------------------------------------------
(* Sequences of sequences.                                                 *)

\* Induction: T has 1 to n if it has each number that it has all before of.
LEMMA Climb ==
  ASSUME NEW n \in Nat, NEW T, \A k \in 1 .. n : (\A i \in 1 .. k - 1 : i \in T) => k \in T
  PROVE  \A k \in 1 .. n : k \in T
<1> DEFINE R == {pair \in Nat \X Nat : pair[1] < pair[2]}
           M == {k \in 1 .. n : k \notin T}
<1>1. IsWellFoundedOn(R, Nat)
  BY NatLessThanWellFounded DEF OpToRel
<1>2. SUFFICES ASSUME M # {} PROVE FALSE
  OBVIOUS
<1>3. M \subseteq Nat
  OBVIOUS
<1> HIDE DEF R, M
<1>4. PICK k \in M : \A i \in M : ~ (<<i, k>> \in R)
  BY <1>1, <1>2, <1>3, WFMin
<1>5. k \in 1 .. n /\ k \notin T
  BY DEF M
<1>6. ASSUME NEW i \in 1 .. k - 1, i \notin T PROVE FALSE
  <2>1. i \in 1 .. n /\ i \in Nat /\ k \in Nat /\ i < k
    BY <1>5
  <2>2. i \in M
    BY <1>6, <2>1 DEF M
  <2>3. <<i, k>> \in R
    BY <2>1 DEF R
  <2> QED BY <1>4, <2>2, <2>3
<1> QED BY <1>5, <1>6

\* Concatenation, which the provers expand wherever they see it.
Glue(s, t) == s \o t

\* Its type and its length.
LEMMA GlueTypes ==
  ASSUME NEW S, NEW s \in Seq(S), NEW t \in Seq(S)
  PROVE  Glue(s, t) \in Seq(S) /\ Len(Glue(s, t)) = Len(s) + Len(t)
  BY ConcatProperties DEF Glue

\* Nothing changes nothing.
LEMMA GlueEmpty ==
  ASSUME NEW S, NEW s \in Seq(S)
  PROVE  Glue(s, <<>>) = s /\ Glue(<<>>, s) = s
  BY ConcatEmptySeq DEF Glue

\* Three in a row.
LEMMA GlueAssociative ==
  ASSUME NEW S, NEW s \in Seq(S), NEW t \in Seq(S), NEW u \in Seq(S)
  PROVE  Glue(Glue(s, t), u) = Glue(s, Glue(t, u))
<1>1. (s \o t) \o u = s \o (t \o u)
  BY ConcatAssociative
<1> QED BY <1>1, Zenon DEF Glue

\* f[i] is what the first i chunks of q are together, up to n.
Piles(S, q, n, f) == /\ f \in [1 .. n -> Seq(S)]
                     /\ \A i \in 1 .. n :
                           f[i] = IF i = 1 THEN q[i] ELSE Glue(f[i - 1], q[i])

\* The piles of all of q.
AllPiles(S, q, f) == Piles(S, q, Len(q), f)

\* A pile, one by one.
LEMMA PileAt ==
  ASSUME NEW S, NEW q \in Seq(Seq(S)), NEW f, AllPiles(S, q, f), NEW k \in 1 .. Len(q)
  PROVE  /\ f[k] \in Seq(S) /\ q[k] \in Seq(S)
         /\ k = 1 => f[k] = q[k]
         /\ k # 1 => /\ k - 1 \in 1 .. Len(q) /\ k - 1 \in 1 .. k - 1
                     /\ f[k - 1] \in Seq(S) /\ f[k] = Glue(f[k - 1], q[k])
<1>1. Len(q) \in Nat /\ (k # 1 => k - 1 \in 1 .. Len(q) /\ k - 1 \in 1 .. k - 1)
  OBVIOUS
<1>2. q[k] \in Seq(S)
  OBVIOUS
<1> QED BY <1>1, <1>2 DEF AllPiles, Piles

\* A pile grows.
LEMMA PileMore ==
  ASSUME NEW S, NEW q \in Seq(Seq(S)), NEW f, NEW n \in Nat, Piles(S, q, n, f), n + 1 <= Len(q)
  PROVE  \E g : Piles(S, q, n + 1, g)
<1> DEFINE x == IF n = 0 THEN q[1] ELSE Glue(f[n], q[n + 1])
           g == [i \in 1 .. n + 1 |-> IF i <= n THEN f[i] ELSE x]
<1>0. q[n + 1] \in Seq(S) /\ q[1] \in Seq(S)
  OBVIOUS
<1>1. x \in Seq(S)
  <2>1. CASE n = 0
    BY <1>0, <2>1
  <2>2. CASE n # 0
    <3>1. f[n] \in Seq(S)
      BY <2>2 DEF Piles
    <3>2. Glue(f[n], q[n + 1]) \in Seq(S)
      BY <1>0, <3>1, GlueTypes, GlueEmpty
    <3> QED BY <2>2, <3>2
  <2> QED BY <2>1, <2>2
<1> HIDE DEF x
<1>2. \A i \in 1 .. n : g[i] = f[i] /\ f[i] \in Seq(S)
  BY DEF Piles
<1>3. g[n + 1] = x
  OBVIOUS
<1>4. g = [i \in 1 .. n + 1 |-> g[i]]
  OBVIOUS
<1> HIDE DEF g
<1>5. \A i \in 1 .. n + 1 : i \in 1 .. n \/ i = n + 1
  OBVIOUS
<1>6. g \in [1 .. n + 1 -> Seq(S)]
  BY <1>1, <1>2, <1>3, <1>4, <1>5
<1>7. ASSUME NEW i \in 1 .. n + 1
      PROVE  g[i] = IF i = 1 THEN q[i] ELSE Glue(g[i - 1], q[i])
  <2>1. CASE i = n + 1 /\ n = 0
    BY <1>3, <2>1 DEF x
  <2>2. CASE i = n + 1 /\ n # 0
    <3>1. i - 1 = n /\ i # 1 /\ n \in 1 .. n
      BY <2>2
    <3> QED BY <1>2, <1>3, <2>2, <3>1 DEF x
  <2>3. CASE i \in 1 .. n
    <3>1. i # 1 => i - 1 \in 1 .. n
      BY <2>3
    <3>2. f[i] = IF i = 1 THEN q[i] ELSE Glue(f[i - 1], q[i])
      BY <2>3 DEF Piles
    <3> QED BY <1>2, <2>3, <3>1, <3>2
  <2> QED BY <1>5, <2>1, <2>2, <2>3
<1>8. Piles(S, q, n + 1, g)
  BY <1>6, <1>7 DEF Piles
<1> QED BY <1>8

\* There is a pile of every sequence.
LEMMA PilesExist ==
  ASSUME NEW S, NEW q \in Seq(Seq(S))
  PROVE  \E f : AllPiles(S, q, f)
<1> DEFINE T == {k \in Nat : \E f : Piles(S, q, k, f)}
<1>0. Len(q) \in Nat
  OBVIOUS
<1>1. Piles(S, q, 0, [i \in 1 .. 0 |-> <<>>])
  BY DEF Piles
<1>2. ASSUME NEW k \in 1 .. Len(q), \A i \in 1 .. k - 1 : i \in T
      PROVE  k \in T
  <2>0. k - 1 \in Nat /\ k - 1 + 1 = k /\ k <= Len(q) /\ (k # 1 => k - 1 \in 1 .. k - 1)
    BY <1>0
  <2>1. PICK m \in Nat : m = k - 1 /\ m + 1 = k
    BY <2>0
  <2>2. m = 0 \/ m \in T
    <3>1. k # 1 => m \in 1 .. k - 1
      BY <2>0, <2>1
    <3>2. k # 1 => m \in T
      BY <1>2, <3>1
    <3>3. k = 1 => m = 0
      BY <2>1
    <3> HIDE DEF T
    <3> QED BY <3>2, <3>3
  <2>3. \E f : Piles(S, q, m, f)
    BY <1>1, <2>2
  <2>4. PICK f : Piles(S, q, m, f)
    BY <2>3
  <2>5. m + 1 <= Len(q)
    BY <2>0, <2>1
  <2>6. \E g : Piles(S, q, m + 1, g)
    BY <2>4, <2>5, PileMore
  <2> QED BY <2>1, <2>6
<1> HIDE DEF T
<1>3. \A k \in 1 .. Len(q) : k \in T
  BY <1>0, <1>2, Climb
<1>4. Len(q) = 0 \/ Len(q) \in 1 .. Len(q)
  BY <1>0
<1> QED BY <1>1, <1>3, <1>4 DEF T, AllPiles

\* The chunks of q, and perhaps more.
GoesOn(q, r) == Len(q) <= Len(r) /\ \A i \in 1 .. Len(q) : q[i] = r[i]

\* Where a sequence goes on with another one, so does its pile.
LEMMA PilesAlike ==
  ASSUME NEW S, NEW q \in Seq(Seq(S)), NEW r \in Seq(Seq(S)), NEW f, NEW g,
         AllPiles(S, q, f), AllPiles(S, r, g),
         GoesOn(q, r)
  PROVE  \A i \in 1 .. Len(q) : f[i] = g[i]
<1> DEFINE T == {i \in 1 .. Len(q) : f[i] = g[i]}
<1>0. Len(q) \in Nat
  OBVIOUS
<1>1. ASSUME NEW k \in 1 .. Len(q), \A i \in 1 .. k - 1 : i \in T
      PROVE  k \in T
  <2>1. k \in 1 .. Len(q) /\ k \in 1 .. Len(r) /\ q[k] = r[k] /\ Len(q) \in Nat /\ Len(r) \in Nat
    BY DEF GoesOn
  <2>2. k # 1 => f[k - 1] = g[k - 1]
    BY <1>1
  <2>3. f[k] = IF k = 1 THEN q[k] ELSE Glue(f[k - 1], q[k])
    BY <2>1 DEF AllPiles, Piles
  <2>4. g[k] = IF k = 1 THEN r[k] ELSE Glue(g[k - 1], r[k])
    BY <2>1 DEF AllPiles, Piles
  <2> QED BY <2>1, <2>2, <2>3, <2>4
<1> HIDE DEF T
<1>2. \A k \in 1 .. Len(q) : k \in T
  BY <1>0, <1>1, Climb
<1> QED BY <1>2 DEF T

\* FlattenSeq is the whole pile.
LEMMA FlattenPiles ==
  ASSUME NEW S, NEW q \in Seq(Seq(S)), NEW f, AllPiles(S, q, f)
  PROVE  FlattenSeq(q) = IF q = <<>> THEN <<>> ELSE f[Len(q)]
<1> DEFINE Fits(g) == g = [i \in 1 .. Len(q) |-> IF i = 1 THEN q[i] ELSE Glue(g[i - 1], q[i])]
           h == CHOOSE g : Fits(g)
           T == {i \in 1 .. Len(q) : h[i] = f[i]}
<1>1. FlattenSeq(q) = IF Len(q) = 0 THEN q ELSE h[Len(q)]
  BY DEF FlattenSeq, Glue
<1>2. Fits(f)
  BY DEF AllPiles, Piles
<1>3. Fits(h)
  BY <1>2
<1> HIDE DEF h
<1>4. Len(q) \in Nat /\ (Len(q) = 0 <=> q = <<>>) /\ (Len(q) # 0 => Len(q) \in 1 .. Len(q))
  OBVIOUS
<1>5. ASSUME NEW k \in 1 .. Len(q), \A i \in 1 .. k - 1 : i \in T
      PROVE  k \in T
  <2>1. k # 1 => h[k - 1] = f[k - 1]
    <3>1. k # 1 => k - 1 \in 1 .. k - 1
      OBVIOUS
    <3>2. k # 1 => k - 1 \in T
      BY <1>5, <3>1
    <3> QED BY <3>2
  <2>2. h[k] = IF k = 1 THEN q[k] ELSE Glue(h[k - 1], q[k])
    BY <1>3
  <2>3. f[k] = IF k = 1 THEN q[k] ELSE Glue(f[k - 1], q[k])
    BY DEF AllPiles, Piles
  <2> QED BY <2>1, <2>2, <2>3
<1> HIDE DEF T
<1>6. \A k \in 1 .. Len(q) : k \in T
  BY <1>4, <1>5, Climb
<1>7. \A k \in 1 .. Len(q) : h[k] = f[k]
  BY <1>6 DEF T
<1> QED BY <1>1, <1>4, <1>7

\* A chunk more.
LEMMA FlattenAppend ==
  ASSUME NEW S, NEW q \in Seq(Seq(S)), NEW c \in Seq(S)
  PROVE  FlattenSeq(Append(q, c)) = Glue(FlattenSeq(q), c)
<1>1. PICK f : AllPiles(S, q, f)
  BY PilesExist
<1>2. PICK r \in Seq(Seq(S)) : r = Append(q, c)
  BY AppendProperties
<1>3. PICK g : AllPiles(S, r, g)
  BY PilesExist
<1>4. /\ Len(r) = Len(q) + 1 /\ Len(q) \in Nat /\ r # <<>> /\ r[Len(r)] = c
      /\ \A i \in 1 .. Len(q) : r[i] = q[i]
  BY <1>2
<1>5. \A i \in 1 .. Len(q) : f[i] = g[i]
  <2>1. GoesOn(q, r)
    BY <1>4 DEF GoesOn
  <2> QED BY <1>1, <1>3, <2>1, PilesAlike
<1>6. FlattenSeq(r) = g[Len(r)]
  BY <1>3, <1>4, FlattenPiles
<1>7. g[Len(r)] = IF Len(r) = 1 THEN c ELSE Glue(g[Len(r) - 1], c)
  <2>1. Len(r) \in 1 .. Len(r)
    BY <1>4
  <2> QED BY <1>3, <1>4, <2>1 DEF AllPiles, Piles
<1>8. CASE q = <<>>
  <2>0. Len(r) = 1
    BY <1>4, <1>8
  <2>1. FlattenSeq(q) = <<>>
    BY <1>1, <1>8, FlattenPiles
  <2>2. Glue(<<>>, c) = c
    BY GlueTypes, GlueEmpty
  <2> QED BY <1>2, <1>6, <1>7, <2>0, <2>1, <2>2
<1>9. CASE q # <<>>
  <2>1. Len(q) \in 1 .. Len(q)
    BY <1>9
  <2>2. FlattenSeq(q) = f[Len(q)]
    BY <1>1, <1>9, FlattenPiles
  <2>3. FlattenSeq(r) = Glue(g[Len(q)], c)
    <3>1. Len(r) # 1 /\ Len(r) - 1 = Len(q)
      BY <1>4, <2>1
    <3> QED BY <1>6, <1>7, <3>1
  <2> QED BY <1>2, <1>5, <2>1, <2>2, <2>3
<1> QED BY <1>8, <1>9

\* What a sequence of chunks is, from its front.
LEMMA FlattenFront ==
  ASSUME NEW S, NEW q \in Seq(Seq(S))
  PROVE  /\ FlattenSeq(q) \in Seq(S)
         /\ q = <<>> => FlattenSeq(q) = <<>>
         /\ q # <<>> => FlattenSeq(q) = Glue(Head(q), FlattenSeq(Tail(q)))
<1>1. PICK f : AllPiles(S, q, f)
  BY PilesExist
<1>2. q = <<>> => FlattenSeq(q) = <<>>
  BY <1>1, FlattenPiles
<1>3. FlattenSeq(q) \in Seq(S)
  <2>1. q # <<>> => Len(q) \in 1 .. Len(q)
    OBVIOUS
  <2>2. q # <<>> => f[Len(q)] \in Seq(S)
    BY <1>1, <2>1 DEF AllPiles, Piles
  <2> QED BY <1>1, <2>2, FlattenPiles
<1>4. ASSUME q # <<>>
      PROVE  FlattenSeq(q) = Glue(Head(q), FlattenSeq(Tail(q)))
  <2>1. PICK r \in Seq(Seq(S)) : r = Tail(q)
    BY <1>4, HeadTailProperties
  <2>2. /\ Len(r) = Len(q) - 1 /\ Len(r) \in Nat /\ Len(q) \in 1 .. Len(q) /\ Head(q) = q[1]
        /\ \A i \in 1 .. Len(r) : r[i] = q[i + 1]
        /\ 1 \in 1 .. Len(q)
    BY <1>4, <2>1, HeadTailProperties
  <2>3. q[1] \in Seq(S)
    BY <2>2
  <2>4. PICK g : AllPiles(S, r, g)
    BY PilesExist
  <2>5. f[1] = q[1]
    BY <1>1, <2>2 DEF AllPiles, Piles
  <2> DEFINE T == {i \in 1 .. Len(r) : f[i + 1] = Glue(q[1], g[i])}
  <2>6. ASSUME NEW k \in 1 .. Len(r), \A i \in 1 .. k - 1 : i \in T
        PROVE  k \in T
    <3>1. /\ k + 1 \in 1 .. Len(q) /\ k + 1 # 1 /\ k + 1 - 1 = k /\ r[k] = q[k + 1]
          /\ k # 1 => k - 1 \in 1 .. k - 1 /\ k - 1 + 1 = k
      BY <2>2
    <3>2. f[k + 1] = Glue(f[k], r[k])
      <4>1. PICK m \in 1 .. Len(q) : m = k + 1 /\ m # 1 /\ m - 1 = k
        BY <3>1
      <4>2. f[m] = Glue(f[m - 1], q[m])
        BY <1>1, <4>1 DEF AllPiles, Piles
      <4> QED BY <3>1, <4>1, <4>2
    <3>3. CASE k = 1
      <4>1. g[k] = r[k]
        BY <2>4, <3>3 DEF AllPiles, Piles
      <4> QED BY <2>5, <3>2, <3>3, <4>1
    <3>4. CASE k # 1
      <4>1. f[k] = Glue(q[1], g[k - 1])
        <5>1. k - 1 \in T
          BY <2>6, <3>1, <3>4
        <5>2. f[k - 1 + 1] = Glue(q[1], g[k - 1])
          BY <5>1
        <5> QED BY <3>1, <3>4, <5>2
      <4>2. g[k] = Glue(g[k - 1], r[k]) /\ g[k - 1] \in Seq(S) /\ r[k] \in Seq(S)
        BY <2>4, <3>4, PileAt
      <4>3. Glue(Glue(q[1], g[k - 1]), r[k]) = Glue(q[1], Glue(g[k - 1], r[k]))
        BY <2>3, <4>2, GlueAssociative
      <4> QED BY <3>2, <4>1, <4>2, <4>3
    <3> QED BY <3>3, <3>4
  <2> HIDE DEF T
  <2>7. \A i \in 1 .. Len(r) : i \in T
    BY <2>2, <2>6, Climb
  <2>8. FlattenSeq(q) = f[Len(q)]
    BY <1>1, <1>4, FlattenPiles
  <2>9. CASE r = <<>>
    <3>1. FlattenSeq(r) = <<>>
      BY <2>4, <2>9, FlattenPiles
    <3>2. Len(q) = 1
      BY <2>2, <2>9
    <3>3. Glue(q[1], <<>>) = q[1]
      BY <2>3, GlueTypes, GlueEmpty
    <3> QED BY <2>1, <2>2, <2>5, <2>8, <3>1, <3>2, <3>3
  <2>10. CASE r # <<>>
    <3>1. FlattenSeq(r) = g[Len(r)]
      BY <2>4, <2>10, FlattenPiles
    <3>2. Len(r) \in 1 .. Len(r) /\ Len(q) = Len(r) + 1
      BY <2>2, <2>10
    <3>3. f[Len(r) + 1] = Glue(q[1], g[Len(r)])
      BY <2>7, <3>2 DEF T
    <3> QED BY <2>1, <2>2, <2>8, <3>1, <3>2, <3>3
  <2> QED BY <2>9, <2>10
<1> QED BY <1>2, <1>3, <1>4

\* How long a sequence is depends on how long its chunks are.
LEMMA FlattenLength ==
  ASSUME NEW S, NEW q \in Seq(Seq(S)), NEW r \in Seq(Seq(S)), Len(q) = Len(r),
         \A i \in 1 .. Len(q) : Len(q[i]) = Len(r[i])
  PROVE  Len(FlattenSeq(q)) = Len(FlattenSeq(r))
<1>1. PICK f : AllPiles(S, q, f)
  BY PilesExist
<1>2. PICK g : AllPiles(S, r, g)
  BY PilesExist
<1> DEFINE T == {i \in 1 .. Len(q) : Len(f[i]) = Len(g[i])}
<1>3. Len(q) \in Nat /\ (q = <<>> <=> r = <<>>) /\ (q # <<>> => Len(q) \in 1 .. Len(q))
  OBVIOUS
<1>4. ASSUME NEW k \in 1 .. Len(q), \A i \in 1 .. k - 1 : i \in T
      PROVE  k \in T
  <2>1. /\ k = 1 => f[k] = q[k]
        /\ k # 1 => /\ k - 1 \in 1 .. k - 1 /\ f[k - 1] \in Seq(S) /\ q[k] \in Seq(S)
                    /\ f[k] = Glue(f[k - 1], q[k])
    BY <1>1, PileAt
  <2>2. /\ k = 1 => g[k] = r[k]
        /\ k # 1 => /\ g[k - 1] \in Seq(S) /\ r[k] \in Seq(S)
                    /\ g[k] = Glue(g[k - 1], r[k])
    <3>1. k \in 1 .. Len(r)
      BY <1>3
    <3> QED BY <1>2, <3>1, PileAt, SMTT(30)
  <2>3. CASE k = 1
    BY <2>1, <2>2, <2>3
  <2>4. CASE k # 1
    <3>1. Len(f[k - 1]) = Len(g[k - 1])
      BY <1>4, <2>1, <2>4
    <3>2. Len(f[k]) = Len(f[k - 1]) + Len(q[k])
      <4>1. PICK s \in Seq(S), t \in Seq(S) : s = f[k - 1] /\ t = q[k] /\ f[k] = Glue(s, t)
        BY <2>1, <2>4
      <4>2. Len(Glue(s, t)) = Len(s) + Len(t)
        BY GlueTypes
      <4> QED BY <4>1, <4>2
    <3>3. Len(g[k]) = Len(g[k - 1]) + Len(r[k])
      <4>1. PICK s \in Seq(S), t \in Seq(S) : s = g[k - 1] /\ t = r[k] /\ g[k] = Glue(s, t)
        BY <2>2, <2>4
      <4>2. Len(Glue(s, t)) = Len(s) + Len(t)
        BY GlueTypes
      <4> QED BY <4>1, <4>2
    <3> QED BY <3>1, <3>2, <3>3
  <2> QED BY <2>3, <2>4
<1> HIDE DEF T
<1>5. \A k \in 1 .. Len(q) : k \in T
  BY <1>3, <1>4, Climb
<1>6. \A k \in 1 .. Len(q) : Len(f[k]) = Len(g[k])
  BY <1>5 DEF T
<1>7. FlattenSeq(q) = IF q = <<>> THEN <<>> ELSE f[Len(q)]
  BY <1>1, FlattenPiles
<1>8. FlattenSeq(r) = IF r = <<>> THEN <<>> ELSE g[Len(r)]
  BY <1>2, FlattenPiles
<1> QED BY <1>3, <1>6, <1>7, <1>8
-----------------------------------------------------------------------------
(* The stream.                                                             *)

Units == Nat \X Nat \X Nat

\* The streams of all connections are equally long.
LEMMA Streams ==
  ASSUME NEW c \in Nat
  PROVE  Stream(c) \in Seq(Units) /\ Len(Stream(c)) = Len(Stream(1))
<1> DEFINE M(d) == [m \in 1 .. Len(Texts) |-> Message(d, m)]
<1>0. /\ Len(Texts) \in Nat /\ DOMAIN Texts = 1 .. Len(Texts)
      /\ \A m \in 1 .. Len(Texts) : m \in Nat /\ Texts[m] \in Nat
  BY HttpFilterAssumption
<1>1. ASSUME NEW d \in Nat, NEW m \in 1 .. Len(Texts)
      PROVE  Message(d, m) \in Seq(Units) /\ Len(Message(d, m)) = 2 + Texts[m]
  <2>1. 2 + Texts[m] \in Nat /\ \A p \in 1 .. 2 + Texts[m] : <<d, m, p>> \in Units
    BY <1>0 DEF Units
  <2> QED BY <2>1 DEF Message
<1>2. ASSUME NEW d \in Nat
      PROVE  /\ Stream(d) = FlattenSeq(M(d)) /\ M(d) \in Seq(Seq(Units)) /\ Len(M(d)) = Len(Texts)
             /\ \A m \in 1 .. Len(Texts) : Len(M(d)[m]) = 2 + Texts[m]
  <2>1. \A m \in 1 .. Len(Texts) : Message(d, m) \in Seq(Units) /\ Len(Message(d, m)) = 2 + Texts[m]
    BY <1>1
  <2>2. Stream(d) = FlattenSeq(M(d))
    BY <1>0 DEF Stream
  <2> QED BY <1>0, <2>1, <2>2
<1> HIDE DEF M
<1>3. Len(FlattenSeq(M(c))) = Len(FlattenSeq(M(1)))
  <2>1. PICK q \in Seq(Seq(Units)), r \in Seq(Seq(Units)) :
           /\ q = M(c) /\ r = M(1) /\ Len(q) = Len(r)
           /\ \A i \in 1 .. Len(q) : Len(q[i]) = Len(r[i])
    BY <1>2
  <2> QED BY <2>1, FlattenLength
<1>4. FlattenSeq(M(c)) \in Seq(Units)
  BY <1>2, FlattenFront
<1> QED BY <1>2, <1>3, <1>4

-----------------------------------------------------------------------------
(* The invariant.                                                          *)

\* What has been read of this connection and the earlier ones.
ReadSoFar == (conn - 1) * Len(Stream(1)) + sent

Shaped == /\ conn \in 1 .. MaxConns /\ sent \in 0 .. Len(Stream(1))
          /\ queue \in Seq(Seq(Units)) /\ \A i \in DOMAIN queue : queue[i] # <<>>
          /\ cache \in Seq(Units) /\ held \in Seq(Units) /\ out \in Seq(Units)
          /\ held # <<>> => HasHead(held)
          /\ cache # <<>> => queue # <<>>
          /\ dead \in BOOLEAN /\ stale \in BOOLEAN

Bounded == /\ Len(queue) <= ReadSoFar
           /\ Len(held) + Len(FlattenSeq(queue)) <= ReadSoFar

\* The chunks whose content has not come to the filter.
Unfiltered == IF cache = <<>> THEN queue ELSE Tail(queue)

\* NothingLost, put together by Glue.
Whole == Glue(Glue(Glue(out, cache), held), FlattenSeq(Unfiltered))
            = SubSeq(Stream(conn), 1, sent)

IInv == Shaped /\ Bounded /\ (~stale /\ ~dead => Whole)

\* Glue is concatenation.
LEMMA WholeIsNothingLost == NothingLost <=> (~stale /\ ~dead => Whole)
  BY Zenon DEF NothingLost, Whole, Unfiltered, Glue

-----------------------------------------------------------------------------
(* The steps.                                                              *)

\* The front of the queue.
LEMMA Fronts ==
  ASSUME Shaped
  PROVE  /\ FlattenSeq(queue) \in Seq(Units)
         /\ queue = <<>> => FlattenSeq(queue) = <<>>
         /\ queue # <<>> =>
               /\ Head(queue) \in Seq(Units) /\ Head(queue) # <<>> /\ Tail(queue) \in Seq(Seq(Units))
               /\ \A i \in DOMAIN Tail(queue) : Tail(queue)[i] # <<>>
               /\ Len(queue) = Len(Tail(queue)) + 1
               /\ FlattenSeq(Tail(queue)) \in Seq(Units)
               /\ FlattenSeq(queue) = Glue(Head(queue), FlattenSeq(Tail(queue)))
               /\ Len(FlattenSeq(queue)) = Len(Head(queue)) + Len(FlattenSeq(Tail(queue)))
<1>0. queue \in Seq(Seq(Units)) /\ \A i \in DOMAIN queue : queue[i] # <<>>
  BY DEF Shaped
<1>1. /\ FlattenSeq(queue) \in Seq(Units)
      /\ queue = <<>> => FlattenSeq(queue) = <<>>
      /\ queue # <<>> => FlattenSeq(queue) = Glue(Head(queue), FlattenSeq(Tail(queue)))
  BY <1>0, FlattenFront
<1>2. ASSUME queue # <<>>
      PROVE  /\ Head(queue) \in Seq(Units) /\ Head(queue) # <<>> /\ Tail(queue) \in Seq(Seq(Units))
             /\ \A i \in DOMAIN Tail(queue) : Tail(queue)[i] # <<>>
             /\ Len(queue) = Len(Tail(queue)) + 1
  BY <1>0, <1>2
<1>3. ASSUME queue # <<>>
      PROVE  FlattenSeq(Tail(queue)) \in Seq(Units)
  BY <1>2, <1>3, FlattenFront
<1>4. ASSUME queue # <<>>
      PROVE  Len(Glue(Head(queue), FlattenSeq(Tail(queue))))
                = Len(Head(queue)) + Len(FlattenSeq(Tail(queue)))
  BY <1>2, <1>3, <1>4, GlueTypes
<1> QED BY <1>1, <1>2, <1>3, <1>4

\* A message keeps its head.
LEMMA HeadKept ==
  ASSUME NEW k \in Seq(Units), NEW h \in Seq(Units), HasHead(k) \/ HasHead(h)
  PROVE  HasHead(Glue(k, h))
<1>1. CASE HasHead(k)
  <2>1. PICK i \in DOMAIN k : EndsHead(k[i])
    BY <1>1 DEF HasHead
  <2>2. i \in DOMAIN Glue(k, h) /\ Glue(k, h)[i] = k[i]
    BY DEF Glue
  <2> QED BY <2>1, <2>2 DEF HasHead
<1>2. CASE HasHead(h)
  <2>1. PICK i \in DOMAIN h : EndsHead(h[i])
    BY <1>2 DEF HasHead
  <2>2. i + Len(k) \in DOMAIN Glue(k, h) /\ Glue(k, h)[i + Len(k)] = h[i]
    BY DEF Glue
  <2> QED BY <2>1, <2>2 DEF HasHead
<1> QED BY <1>1, <1>2

\* What a write takes and what it leaves are the content.
LEMMA WriteSplits ==
  ASSUME NEW content \in Seq(Units), NEW k, Write(content, k), ~dead
  PROVE  \E a, b \in Seq(Units) :
            /\ content = Glue(a, b) /\ out' = Glue(out, a) /\ cache' = b /\ held' = k
            /\ queue' = IF b = <<>> THEN Tail(queue) ELSE queue
<1>1. PICK n \in 1 .. MaxLine :
         /\ n <= Len(content)
         /\ out' = out \o SubSeq(content, 1, n)
         /\ cache' = SubSeq(content, n + 1, Len(content))
         /\ queue' = IF cache' = <<>> THEN Tail(queue) ELSE queue
         /\ held' = k
  BY DEF Write, WriteFails, Rest, Popped
<1>2. n \in Nat /\ n >= 1 /\ Len(content) \in Nat /\ n <= Len(content)
  BY <1>1, HttpFilterAssumption
<1> DEFINE a == SubSeq(content, 1, n)
           b == SubSeq(content, n + 1, Len(content))
<1>3. a \in Seq(Units) /\ b \in Seq(Units)
  BY <1>2
<1>4. content = a \o b
  <2>1. SubSeq(content, 1, n) \o SubSeq(content, n + 1, Len(content)) = SubSeq(content, 1, Len(content))
    <3>1. /\ 1 \in 1 .. Len(content) + 1 /\ n \in 1 - 1 .. Len(content)
          /\ Len(content) \in n .. Len(content)
      BY <1>2
    <3> QED BY <3>1, ConcatAdjacentSubSeq
  <2>2. SubSeq(content, 1, Len(content)) = content
    BY SubSeqFull
  <2> QED BY <2>1, <2>2
<1> HIDE DEF a, b
<1>5. content = Glue(a, b) /\ out' = Glue(out, a)
  BY <1>1, <1>4, Zenon DEF Glue, a
<1>6. cache' = b
  BY <1>1 DEF b
<1> QED BY <1>1, <1>3, <1>5, <1>6

\* What was to be written with the chunks behind it, cut elsewhere.
LEMMA Recut ==
  ASSUME NEW o \in Seq(Units), NEW a \in Seq(Units), NEW b \in Seq(Units), NEW k \in Seq(Units),
         NEW h \in Seq(Units), NEW t \in Seq(Units), Glue(a, b) = Glue(k, h)
  PROVE  Glue(Glue(Glue(Glue(o, a), b), <<>>), t) = Glue(Glue(Glue(o, <<>>), k), Glue(h, t))
<1>0. /\ Glue(a, b) \in Seq(Units) /\ Glue(o, a) \in Seq(Units) /\ Glue(k, h) \in Seq(Units)
      /\ Glue(o, k) \in Seq(Units)
  BY GlueTypes
<1>1. Glue(Glue(o, a), b) = Glue(o, Glue(a, b))
  BY GlueAssociative
<1>2. Glue(Glue(o, a), b) = Glue(Glue(o, k), h)
  BY <1>1, GlueAssociative
<1>3. Glue(Glue(o, a), b) \in Seq(Units)
  BY <1>0, GlueTypes
<1>4. Glue(Glue(Glue(o, a), b), <<>>) = Glue(Glue(o, a), b)
  BY <1>3, GlueEmpty
<1>5. Glue(o, <<>>) = o
  BY GlueEmpty
<1>6. Glue(Glue(Glue(o, k), h), t) = Glue(Glue(o, k), Glue(h, t))
  BY <1>0, GlueAssociative
<1> QED BY <1>2, <1>4, <1>5, <1>6

\* What has been read is counted in whole streams.
LEMMA Counts ==
  ASSUME conn \in 1 .. MaxConns, sent \in 0 .. Len(Stream(1))
  PROVE  /\ ReadSoFar \in Nat /\ ReadSoFar <= MaxConns * Len(Stream(1))
         /\ (conn - 1) * Len(Stream(1)) \in Nat
         /\ ReadSoFar <= (conn + 1 - 1) * Len(Stream(1))
<1>1. PICK l \in Nat : l = Len(Stream(1))
  BY Streams
<1>2. conn \in Nat /\ conn >= 1 /\ conn <= MaxConns /\ MaxConns \in Nat /\ sent \in Nat /\ sent <= l
  BY <1>1, HttpFilterAssumption
<1>3. (conn - 1) * l \in Nat /\ (conn - 1) * l + l = conn * l
  BY <1>2
<1>4. conn * l <= MaxConns * l
  BY <1>2
<1>5. conn + 1 - 1 = conn
  BY <1>2
<1>6. ReadSoFar = (conn - 1) * l + sent
  BY <1>1 DEF ReadSoFar
<1>7. conn * l \in Nat /\ MaxConns * l \in Nat
  BY <1>2
<1> QED BY <1>1, <1>2, <1>3, <1>4, <1>5, <1>6, <1>7

\* It holds at first.
LEMMA InitIInv == Init => IInv
<1> SUFFICES ASSUME Init PROVE IInv
  OBVIOUS
<1>1. Len(Stream(1)) \in Nat /\ Stream(1) \in Seq(Units)
  BY Streams
<1>2. Shaped
  <2>1. 1 \in 1 .. MaxConns /\ 0 \in 0 .. Len(Stream(1))
    BY <1>1, HttpFilterAssumption
  <2>2. <<>> \in Seq(Units) /\ <<>> \in Seq(Seq(Units)) /\ DOMAIN <<>> = {}
    BY EmptySeq
  <2> QED BY <2>1, <2>2 DEF Init, Shaped
<1>3. FlattenSeq(queue) = <<>>
  BY <1>2, Fronts DEF Init
<1>4. Bounded
  BY <1>1, <1>3 DEF Init, Bounded, ReadSoFar
<1>5. Whole
  <2>1. SubSeq(Stream(1), 1, 0) = <<>>
    BY SubSeqEmpty
  <2>2. Glue(<<>>, <<>>) = <<>>
    BY GlueEmpty, EmptySeq
  <2> QED BY <1>3, <2>1, <2>2 DEF Init, Whole, Unfiltered
<1> QED BY <1>2, <1>4, <1>5 DEF IInv

\* A chunk more.
LEMMA ReceiveIInv ==
  ASSUME IInv, NEW n \in 1 .. MaxChunk, Receive(n)
  PROVE  IInv'
<1> DEFINE c == SubSeq(Stream(conn), sent + 1, sent + n)
<1>1. /\ Shaped /\ Bounded /\ sent + n <= Len(Stream(conn)) /\ sent' = sent + n
      /\ queue' = Append(queue, c) /\ UNCHANGED <<conn, cache, held, out, dead, stale>>
  BY DEF IInv, Receive
<1>2. /\ Stream(conn) \in Seq(Units) /\ Len(Stream(conn)) = Len(Stream(1))
      /\ n \in Nat /\ n >= 1 /\ sent \in Nat /\ conn \in Nat
  BY <1>1, Streams, HttpFilterAssumption DEF Shaped
<1>3. c \in Seq(Units) /\ Len(c) = n /\ c # <<>>
  <2>1. PICK s \in Seq(Units) : s = Stream(conn)
    BY <1>2
  <2>2. sent + n \in Nat /\ sent + n <= Len(s) /\ Len(s) \in Nat /\ sent + n - (sent + 1) + 1 = n
    BY <1>1, <1>2, <2>1
  <2>3. /\ SubSeq(s, sent + 1, sent + n) \in Seq(Units)
        /\ Len(SubSeq(s, sent + 1, sent + n)) = n
    BY <1>2, <2>2, SMTT(30)
  <2>4. PICK d \in Seq(Units) : d = c /\ Len(d) = n
    BY <2>1, <2>3
  <2>5. d # <<>>
    <3>1. Len(<<>>) = 0 /\ n # 0
      BY <1>2
    <3> QED BY <2>4, <3>1
  <2> QED BY <2>4, <2>5
<1> HIDE DEF c
<1>4. Shaped'
  <2>1. queue' \in Seq(Seq(Units)) /\ queue' # <<>> /\ \A i \in DOMAIN queue' : queue'[i] # <<>>
    <3>1. queue \in Seq(Seq(Units)) /\ \A i \in DOMAIN queue : queue[i] # <<>>
      BY <1>1 DEF Shaped
    <3>2. /\ Append(queue, c) \in Seq(Seq(Units)) /\ Append(queue, c) # <<>>
          /\ DOMAIN Append(queue, c) = 1 .. Len(queue) + 1
          /\ \A i \in 1 .. Len(queue) : Append(queue, c)[i] = queue[i]
          /\ Append(queue, c)[Len(queue) + 1] = c
      BY <1>3, <3>1, AppendProperties
    <3>3. Len(queue) \in Nat /\ DOMAIN queue = 1 .. Len(queue)
      BY <3>1
    <3>4. \A i \in 1 .. Len(queue) + 1 : i \in 1 .. Len(queue) \/ i = Len(queue) + 1
      BY <3>3
    <3> QED BY <1>1, <1>3, <3>1, <3>2, <3>3, <3>4
  <2>2. sent' \in 0 .. Len(Stream(1))
    BY <1>1, <1>2
  <2>3. held # <<>> => HasHead(held)'
    BY <1>1 DEF Shaped, HasHead
  <2> QED BY <1>1, <2>1, <2>2, <2>3 DEF Shaped
<1>5. ASSUME NEW q \in Seq(Seq(Units))
      PROVE  /\ FlattenSeq(Append(q, c)) = Glue(FlattenSeq(q), c)
             /\ FlattenSeq(q) \in Seq(Units)
             /\ Len(Glue(FlattenSeq(q), c)) = Len(FlattenSeq(q)) + n
  <2>1. FlattenSeq(Append(q, c)) = Glue(FlattenSeq(q), c)
    BY <1>3, FlattenAppend
  <2>2. FlattenSeq(q) \in Seq(Units)
    BY FlattenFront
  <2>3. Len(Glue(FlattenSeq(q), c)) = Len(FlattenSeq(q)) + Len(c)
    BY <1>3, <2>2, GlueTypes
  <2> QED BY <1>3, <2>1, <2>2, <2>3
<1>6. Bounded'
  <2>1. ReadSoFar' = ReadSoFar + n /\ ReadSoFar \in Nat
    BY <1>1, <1>2, Counts DEF ReadSoFar, Shaped
  <2>2. Len(queue') = Len(queue) + 1 /\ Len(queue) \in Nat
    BY <1>1, <1>3, AppendProperties DEF Shaped
  <2>3. Len(FlattenSeq(queue')) = Len(FlattenSeq(queue)) + n
    BY <1>1, <1>5 DEF Shaped
  <2>4. Len(FlattenSeq(queue)) \in Nat /\ Len(held) \in Nat
    BY <1>1, Fronts DEF Shaped
  <2> QED BY <1>1, <1>2, <2>1, <2>2, <2>3, <2>4 DEF Bounded
<1>7. ASSUME Whole PROVE Whole'
  <2> DEFINE x == Glue(Glue(out, cache), held)
  <2>1. x \in Seq(Units) /\ x' = x
    BY <1>1, GlueTypes DEF Shaped
  <2>2. PICK q \in Seq(Seq(Units)) : q = Unfiltered /\ Unfiltered' = Append(q, c)
    <3>1. CASE cache = <<>>
      BY <1>1, <3>1 DEF Unfiltered, Shaped
    <3>2. CASE cache # <<>>
      <4>1. queue # <<>> /\ queue \in Seq(Seq(Units))
        BY <1>1, <3>2 DEF Shaped
      <4>2. Tail(Append(queue, c)) = Append(Tail(queue), c) /\ Tail(queue) \in Seq(Seq(Units))
        BY <1>3, <4>1, HeadTailAppend, HeadTailProperties
      <4> QED BY <1>1, <3>2, <4>2 DEF Unfiltered
    <3> QED BY <3>1, <3>2
  <2>3. Glue(x, FlattenSeq(q)) = SubSeq(Stream(conn), 1, sent)
    BY <1>7, <2>2 DEF Whole
  <2> HIDE DEF x
  <2>4. Glue(x, Glue(FlattenSeq(q), c)) = Glue(Glue(x, FlattenSeq(q)), c)
    BY <1>3, <1>5, <2>1, GlueAssociative
  <2>5. SubSeq(Stream(conn), 1, sent) \o SubSeq(Stream(conn), sent + 1, sent + n)
           = SubSeq(Stream(conn), 1, sent + n)
    <3>1. /\ 1 \in 1 .. Len(Stream(conn)) + 1 /\ sent \in 1 - 1 .. Len(Stream(conn))
          /\ sent + n \in sent .. Len(Stream(conn))
      BY <1>1, <1>2
    <3> QED BY <1>2, <3>1, ConcatAdjacentSubSeq
  <2>6. Glue(x, FlattenSeq(Unfiltered')) = SubSeq(Stream(conn), 1, sent + n)
    <3>1. FlattenSeq(Unfiltered') = Glue(FlattenSeq(q), c)
      BY <1>5, <2>2
    <3>2. Glue(SubSeq(Stream(conn), 1, sent), c) = SubSeq(Stream(conn), 1, sent + n)
      BY <2>5, Zenon DEF Glue, c
    <3> QED BY <2>3, <2>4, <3>1, <3>2
  <2>7. x' = Glue(Glue(out', cache'), held')
    BY DEF x
  <2> QED BY <1>1, <2>1, <2>6, <2>7 DEF Whole
<1> QED BY <1>1, <1>4, <1>6, <1>7 DEF IInv

\* From now on writes fail.
LEMMA PeerLeavesIInv == IInv /\ PeerLeaves => IInv'
  BY DEF IInv, PeerLeaves, Shaped, Bounded, ReadSoFar, HasHead

\* The next connection starts whole where nothing was left.
LEMMA ReuseIInv == IInv /\ Reuse => IInv'
<1> SUFFICES ASSUME IInv, Reuse PROVE IInv'
  OBVIOUS
<1>1. /\ Shaped /\ Bounded /\ conn < MaxConns /\ conn' = conn + 1 /\ sent' = 0 /\ out' = <<>>
      /\ dead' = FALSE /\ stale' = (stale \/ queue # <<>> \/ held # <<>>)
      /\ UNCHANGED <<queue, cache, held>>
  BY DEF IInv, Reuse
<1>2. Len(Stream(1)) \in Nat
  BY Streams
<1>3. Shaped'
  <2>1. conn' \in 1 .. MaxConns /\ sent' \in 0 .. Len(Stream(1))
    BY <1>1, <1>2, HttpFilterAssumption DEF Shaped
  <2>2. <<>> \in Seq(Units)
    BY EmptySeq
  <2>3. stale' \in BOOLEAN
    BY <1>1
  <2>4. held # <<>> => HasHead(held)'
    BY <1>1 DEF Shaped, HasHead
  <2> QED BY <1>1, <2>1, <2>2, <2>3, <2>4 DEF Shaped
<1>4. Bounded'
  <2>1. ReadSoFar' = (conn + 1 - 1) * Len(Stream(1)) + 0
    <3>1. ReadSoFar' = (conn' - 1) * Len(Stream(1)) + sent'
      BY DEF ReadSoFar
    <3>2. conn' - 1 = conn + 1 - 1 /\ sent' = 0
      <4>1. conn' = conn + 1 /\ sent' = 0 /\ conn \in Nat
        BY <1>1 DEF Shaped
      <4> QED BY <4>1
    <3>3. (conn' - 1) * Len(Stream(1)) = (conn + 1 - 1) * Len(Stream(1))
      BY <3>2, Zenon
    <3> QED BY <3>1, <3>2, <3>3
  <2>2. /\ ReadSoFar <= (conn + 1 - 1) * Len(Stream(1)) /\ ReadSoFar \in Nat
        /\ (conn + 1 - 1) * Len(Stream(1)) \in Nat
    <3>1. conn + 1 - 1 \in Nat
      BY <1>1 DEF Shaped
    <3>2. (conn + 1 - 1) * Len(Stream(1)) \in Nat
      BY <1>2, <3>1
    <3> QED BY <1>1, <3>2, Counts DEF Shaped
  <2>3. Len(queue) \in Nat /\ Len(held) \in Nat /\ Len(FlattenSeq(queue)) \in Nat
    BY <1>1, Fronts DEF Shaped
  <2> QED BY <1>1, <2>1, <2>2, <2>3 DEF Bounded
<1>5. ASSUME ~stale' PROVE Whole'
  <2>1. queue' = <<>> /\ held' = <<>> /\ cache' = <<>> /\ queue = <<>>
    BY <1>1, <1>5 DEF Shaped
  <2>2. FlattenSeq(queue) = <<>>
    BY <1>1, <2>1, Fronts
  <2>3. Glue(<<>>, <<>>) = <<>>
    BY GlueEmpty, EmptySeq
  <2>4. SubSeq(Stream(conn'), 1, 0) = <<>>
    BY SubSeqEmpty
  <2> QED BY <1>1, <2>1, <2>2, <2>3, <2>4 DEF Whole, Unfiltered
<1> QED BY <1>3, <1>4, <1>5 DEF IInv

\* A step that takes the front chunk, or leaves it, and holds k back.
LEMMA ShapedOnWrite ==
  ASSUME Shaped, Bounded, UNCHANGED <<conn, sent, dead, stale>>, queue # <<>>,
         out' \in Seq(Units), cache' \in Seq(Units), held' \in Seq(Units),
         held' # <<>> => HasHead(held'), cache' # <<>> => queue' = queue,
         \/ queue' = queue /\ Len(held') <= Len(held)
         \/ queue' = Tail(queue) /\ Len(held') <= Len(held) + Len(Head(queue))
  PROVE  Shaped' /\ Bounded'
<1>1. /\ Head(queue) \in Seq(Units) /\ Head(queue) # <<>> /\ Tail(queue) \in Seq(Seq(Units))
      /\ \A i \in DOMAIN Tail(queue) : Tail(queue)[i] # <<>>
      /\ Len(queue) = Len(Tail(queue)) + 1
      /\ FlattenSeq(queue) \in Seq(Units) /\ FlattenSeq(Tail(queue)) \in Seq(Units)
      /\ Len(FlattenSeq(queue)) = Len(Head(queue)) + Len(FlattenSeq(Tail(queue)))
  BY Fronts
<1>2. /\ queue' \in Seq(Seq(Units)) /\ \A i \in DOMAIN queue' : queue'[i] # <<>>
      /\ Len(queue') <= Len(queue)
  <2>1. CASE queue' = queue
    BY <2>1 DEF Shaped
  <2>2. CASE queue' = Tail(queue)
    <3>1. Len(Tail(queue)) \in Nat
      BY <1>1
    <3>2. Len(Tail(queue)) <= Len(queue)
      BY <1>1, <3>1
    <3> QED BY <1>1, <2>2, <3>2
  <2> QED BY <2>1, <2>2
<1>3. Shaped'
  <2>1. held' # <<>> => HasHead(held)'
    BY DEF HasHead
  <2>2. cache' # <<>> => queue' # <<>>
    OBVIOUS
  <2> QED BY <1>2, <2>1, <2>2 DEF Shaped
<1>4. Bounded'
  <2>1. /\ Len(held) \in Nat /\ Len(held') \in Nat /\ Len(Head(queue)) \in Nat
        /\ Len(FlattenSeq(Tail(queue))) \in Nat /\ Len(queue) \in Nat /\ Len(queue') \in Nat
    <3>1. Len(held) \in Nat /\ Len(held') \in Nat
      BY DEF Shaped
    <3>2. Len(Head(queue)) \in Nat /\ Len(FlattenSeq(Tail(queue))) \in Nat
      BY <1>1, LenProperties
    <3>3. Len(queue) \in Nat /\ Len(queue') \in Nat
      BY <1>2 DEF Shaped
    <3> QED BY <3>1, <3>2, <3>3
  <2>2. ReadSoFar' = ReadSoFar /\ ReadSoFar \in Nat
    BY Counts DEF ReadSoFar, Shaped
  <2>3. Len(held') + Len(FlattenSeq(queue')) <= Len(held) + Len(FlattenSeq(queue))
    <3>1. CASE queue' = queue /\ Len(held') <= Len(held)
      <4>1. Len(FlattenSeq(queue)) \in Nat
        BY Fronts
      <4>2. Len(FlattenSeq(queue')) = Len(FlattenSeq(queue))
        BY <3>1
      <4> QED BY <2>1, <3>1, <4>1, <4>2
    <3>2. CASE queue' = Tail(queue) /\ Len(held') <= Len(held) + Len(Head(queue))
      <4>1. Len(FlattenSeq(queue')) = Len(FlattenSeq(Tail(queue)))
        BY <3>2
      <4>2. Len(FlattenSeq(queue)) = Len(Head(queue)) + Len(FlattenSeq(Tail(queue)))
        BY <1>1
      <4> QED BY <2>1, <3>2, <4>1, <4>2
    <3> QED BY <3>1, <3>2
  <2>4. Len(FlattenSeq(queue')) \in Nat /\ Len(FlattenSeq(queue)) \in Nat
    BY <1>1, <2>1
  <2> QED BY <1>2, <2>1, <2>2, <2>3, <2>4 DEF Bounded
<1> QED BY <1>3, <1>4

\* Type and bounds, whatever is written.
LEMMA WriteShaped ==
  ASSUME Shaped, Bounded, UNCHANGED <<conn, sent, dead, stale>>, queue # <<>>,
         NEW content \in Seq(Units), NEW k \in Seq(Units), k = <<>> \/ k = held, Write(content, k)
  PROVE  Shaped' /\ Bounded'
<1>0. Len(<<>>) = 0 /\ <<>> \in Seq(Units) /\ Len(held) \in Nat /\ Len(Head(queue)) \in Nat
  BY Fronts, EmptySeq DEF Shaped
<1>1. CASE WriteFails
  BY <1>0, <1>1, ShapedOnWrite DEF WriteFails, Shaped
<1>2. CASE ~dead
  <2>1. PICK a \in Seq(Units), b \in Seq(Units) :
            /\ out' = Glue(out, a) /\ cache' = b /\ held' = k
            /\ queue' = IF b = <<>> THEN Tail(queue) ELSE queue
    BY <1>2, WriteSplits
  <2>2. out' \in Seq(Units)
    BY <2>1, GlueTypes DEF Shaped
  <2>3. held' # <<>> => HasHead(held')
    BY <2>1 DEF Shaped
  <2>4. Len(held') <= Len(held) /\ Len(held') <= Len(held) + Len(Head(queue))
    BY <1>0, <2>1
  <2> QED BY <2>1, <2>2, <2>3, <2>4, ShapedOnWrite
<1> QED BY <1>1, <1>2 DEF Write, WriteFails

\* More of the content.
LEMMA ResumeIInv ==
  ASSUME IInv, Resume, UNCHANGED <<conn, sent, dead, stale>>
  PROVE  IInv'
<1>1. /\ Shaped /\ Bounded /\ cache # <<>> /\ queue # <<>> /\ Write(cache, held)
      /\ cache \in Seq(Units) /\ held \in Seq(Units) /\ out \in Seq(Units)
  BY DEF IInv, Resume, Shaped
<1>2. Shaped' /\ Bounded'
  BY <1>1, WriteShaped
<1>3. ASSUME ~dead, Whole PROVE Whole'
  <2>1. PICK a \in Seq(Units), b \in Seq(Units) :
            /\ cache = Glue(a, b) /\ out' = Glue(out, a) /\ cache' = b /\ held' = held
            /\ queue' = IF b = <<>> THEN Tail(queue) ELSE queue
    BY <1>1, <1>3, WriteSplits
  <2>2. Unfiltered' = Tail(queue) /\ Unfiltered = Tail(queue)
    BY <1>1, <2>1 DEF Unfiltered
  <2>3. Glue(Glue(out, a), b) = Glue(out, Glue(a, b))
    BY <1>1, GlueAssociative
  <2>4. Glue(out', cache') = Glue(out, cache)
    BY <2>1, <2>3
  <2> QED BY <1>3, <2>1, <2>2, <2>4 DEF Whole
<1> QED BY <1>2, <1>3 DEF IInv

\* The front chunk h leaves with the message k that was held.
LEMMA ReleasedIInv ==
  ASSUME IInv, UNCHANGED <<conn, sent, dead, stale>>, cache = <<>>, queue # <<>>,
         Write(Glue(held, Head(queue)), <<>>)
  PROVE  IInv'
<1>1. /\ Shaped /\ Bounded /\ held \in Seq(Units) /\ out \in Seq(Units)
      /\ Head(queue) \in Seq(Units) /\ <<>> \in Seq(Units)
      /\ Tail(queue) \in Seq(Seq(Units)) /\ FlattenSeq(Tail(queue)) \in Seq(Units)
      /\ FlattenSeq(queue) = Glue(Head(queue), FlattenSeq(Tail(queue)))
  BY Fronts, EmptySeq DEF IInv, Shaped
<1>2. Glue(held, Head(queue)) \in Seq(Units)
  BY <1>1, GlueTypes
<1>3. Shaped' /\ Bounded'
  BY <1>1, <1>2, WriteShaped
<1>4. ASSUME ~dead, Whole PROVE Whole'
  <2>1. PICK a \in Seq(Units), b \in Seq(Units) :
            /\ Glue(held, Head(queue)) = Glue(a, b) /\ out' = Glue(out, a) /\ cache' = b
            /\ held' = <<>> /\ queue' = IF b = <<>> THEN Tail(queue) ELSE queue
    BY <1>2, <1>4, WriteSplits
  <2>2. Unfiltered' = Tail(queue) /\ Unfiltered = queue
    BY <2>1 DEF Unfiltered
  <2>3. Glue(Glue(Glue(Glue(out, a), b), <<>>), FlattenSeq(Tail(queue)))
          = Glue(Glue(Glue(out, <<>>), held), Glue(Head(queue), FlattenSeq(Tail(queue))))
    <3>1. PICK k \in Seq(Units), h \in Seq(Units), t \in Seq(Units) :
             k = held /\ h = Head(queue) /\ t = FlattenSeq(Tail(queue))
      BY <1>1
    <3>2. Glue(a, b) = Glue(k, h)
      BY <2>1, <3>1
    <3>3. Glue(Glue(Glue(Glue(out, a), b), <<>>), t) = Glue(Glue(Glue(out, <<>>), k), Glue(h, t))
      <4>1. out \in Seq(Units)
        BY <1>1
      <4>2. \A o \in Seq(Units) :
               Glue(Glue(Glue(Glue(o, a), b), <<>>), t) = Glue(Glue(Glue(o, <<>>), k), Glue(h, t))
        BY <3>2, Recut
      <4> QED BY <4>1, <4>2
    <3> QED BY <3>1, <3>3
  <2> QED BY <1>1, <1>4, <2>1, <2>2, <2>3 DEF Whole
<1> QED BY <1>3, <1>4 DEF IInv

\* A chunk that does not parse.
LEMMA PassThroughIInv ==
  ASSUME IInv, PassThrough, UNCHANGED <<conn, sent, dead, stale>>
  PROVE  IInv'
<1>1. /\ cache = <<>> /\ queue # <<>> /\ held = <<>> /\ Write(Head(queue), <<>>)
  BY DEF PassThrough
<1>2. Head(queue) \in Seq(Units)
  BY <1>1, Fronts DEF IInv
<1>3. Glue(held, Head(queue)) = Head(queue)
  BY <1>1, <1>2, GlueEmpty
<1> QED BY <1>1, <1>3, ReleasedIInv

\* A message that is complete, or of no announced length.
LEMMA ReleaseIInv ==
  ASSUME IInv, Release, UNCHANGED <<conn, sent, dead, stale>>
  PROVE  IInv'
<1>1. cache = <<>> /\ queue # <<>> /\ Write(Glue(held, Head(queue)), <<>>)
  BY DEF Release, Joins, Glue
<1> QED BY <1>1, ReleasedIInv

\* A message that is not.
LEMMA HoldIInv ==
  ASSUME IInv, Hold, UNCHANGED <<conn, sent, dead, stale>>
  PROVE  IInv'
<1>1. /\ cache = <<>> /\ queue # <<>>
      /\ held = <<>> => HasHead(Head(queue))
      /\ held' = Glue(held, Head(queue)) /\ queue' = Tail(queue) /\ UNCHANGED <<cache, out>>
  BY DEF Hold, Joins, Glue, MayParse
<1>2. /\ Shaped /\ Bounded /\ held \in Seq(Units) /\ out \in Seq(Units) /\ cache \in Seq(Units)
      /\ Head(queue) \in Seq(Units) /\ FlattenSeq(Tail(queue)) \in Seq(Units)
      /\ FlattenSeq(queue) = Glue(Head(queue), FlattenSeq(Tail(queue)))
  <2>1. /\ Shaped /\ Bounded /\ held \in Seq(Units) /\ out \in Seq(Units) /\ cache \in Seq(Units)
    BY DEF IInv, Shaped
  <2> QED BY <1>1, <2>1, Fronts
<1>3. held' \in Seq(Units) /\ Len(held') = Len(held) + Len(Head(queue))
  BY <1>1, <1>2, GlueTypes
<1>4. HasHead(held')
  <2>1. HasHead(held) \/ HasHead(Head(queue))
    <3>1. held # <<>> => HasHead(held)
      BY <1>2 DEF Shaped
    <3> QED BY <1>1, <3>1
  <2> QED BY <1>1, <1>2, <2>1, HeadKept
<1>5. Shaped' /\ Bounded'
  <2>1. Len(held') <= Len(held) + Len(Head(queue))
    BY <1>2, <1>3
  <2> QED BY <1>1, <1>2, <1>3, <1>4, <2>1, ShapedOnWrite
<1>6. ASSUME Whole PROVE Whole'
  <2>1. Unfiltered' = Tail(queue) /\ Unfiltered = queue
    <3>1. cache' = <<>> /\ queue' = Tail(queue) /\ cache = <<>>
      BY <1>1
    <3> QED BY <3>1 DEF Unfiltered
  <2>2. PICK x \in Seq(Units) : x = Glue(out, cache)
    BY <1>2, GlueTypes
  <2>3. Glue(Glue(x, Glue(held, Head(queue))), FlattenSeq(Tail(queue)))
          = Glue(Glue(x, held), Glue(Head(queue), FlattenSeq(Tail(queue))))
    <3>1. Glue(x, Glue(held, Head(queue))) = Glue(Glue(x, held), Head(queue))
      BY <1>2, GlueAssociative
    <3>2. Glue(x, held) \in Seq(Units)
      BY <1>2, GlueTypes
    <3> QED BY <1>2, <3>1, <3>2, GlueAssociative
  <2> QED BY <1>1, <1>2, <1>6, <2>1, <2>2, <2>3 DEF Whole
<1> QED BY <1>5, <1>6 DEF IInv

-----------------------------------------------------------------------------
(* The theorems.                                                           *)

\* A step keeps the invariant.
LEMMA NextIInv == IInv /\ [Next]_vars => IInv'
<1> SUFFICES ASSUME IInv, [Next]_vars PROVE IInv'
  OBVIOUS
<1>1. ASSUME NEW n \in 1 .. MaxChunk, Receive(n) PROVE IInv'
  BY <1>1, ReceiveIInv
<1>2. CASE PeerLeaves
  BY <1>2, PeerLeavesIInv
<1>3. CASE Reuse
  BY <1>3, ReuseIInv
<1>4. CASE OnWrite
  <2>1. UNCHANGED <<conn, sent, dead, stale>>
    BY <1>4 DEF OnWrite
  <2>2. CASE Resume
    BY <2>1, <2>2, ResumeIInv
  <2>3. CASE PassThrough
    BY <2>1, <2>3, PassThroughIInv
  <2>4. CASE Hold
    BY <2>1, <2>4, HoldIInv
  <2>5. CASE Release
    BY <2>1, <2>5, ReleaseIInv
  <2> QED BY <1>4, <2>2, <2>3, <2>4, <2>5 DEF OnWrite
<1>5. CASE UNCHANGED vars
  BY <1>5 DEF vars, IInv, Shaped, Bounded, ReadSoFar, Whole, Unfiltered, HasHead
<1> QED BY <1>1, <1>2, <1>3, <1>4, <1>5 DEF Next

\* In every behaviour: the shape of the queues, their bounds, and that the
\* stream is whole as long as nothing was left by an earlier connection of the
\* number and the peer is there.
THEOREM Invariance == Spec => []IInv
<1>1. Init => IInv
  BY InitIInv
<1>2. IInv /\ [Next]_vars => IInv'
  BY NextIInv
<1> QED BY <1>1, <1>2, PTL DEF Spec

\* Type correctness: a message that is held has its head, the cache is never
\* left behind alone, and neither grows beyond what was read.
THEOREM TypeCorrect == Spec => []TypeOK
<1>1. IInv => TypeOK
  <2> SUFFICES ASSUME IInv PROVE TypeOK
    OBVIOUS
  <2>1. Shaped /\ Bounded
    BY DEF IInv
  <2>2. Len(Stream(conn)) = Len(Stream(1)) /\ conn \in Nat
    BY <2>1, Streams DEF Shaped
  <2>3. PICK b \in Nat : b = MaxConns * Len(Stream(1)) /\ ReadSoFar <= b /\ ReadSoFar \in Nat
    <3>1. MaxConns \in Nat /\ Len(Stream(1)) \in Nat
      BY Streams, HttpFilterAssumption
    <3>2. MaxConns * Len(Stream(1)) \in Nat
      BY <3>1
    <3> QED BY <2>1, <3>2, Counts DEF Shaped
  <2>4. Len(queue) \in Nat /\ Len(held) \in Nat /\ Len(FlattenSeq(queue)) \in Nat
    BY <2>1, Fronts DEF Shaped
  <2>5. Len(queue) <= b /\ Len(held) <= b
    BY <2>1, <2>3, <2>4 DEF Bounded
  <2> QED BY <2>1, <2>2, <2>3, <2>5 DEF TypeOK, Shaped
<1> QED BY <1>1, Invariance, PTL

\* What filter::write does with the chunks of a stream - writing a part of the
\* content and the rest later, holding a message back, letting a chunk pass that
\* does not parse - loses no unit, repeats none and moves none.
THEOREM NothingIsLost == Spec => []NothingLost
<1>1. IInv => NothingLost
  BY WholeIsNothingLost DEF IInv
<1> QED BY <1>1, Invariance, PTL
================================================================================
