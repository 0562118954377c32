----------------------------- MODULE Recursion ------------------------------
(***************************************************************************)
(* Facts about the data the other modules compute with: induction over     *)
(* the natural numbers, functions defined by recursion, and folds of       *)
(* sequences.                                                              *)
(*                                                                         *)
(* Induction is stated by the least element of a set, and what a recursion *)
(* does by a function from the place to a function on values, so that the  *)
(* lemmas have no operator as a parameter: a proof that needs induction    *)
(* over P takes the set of the numbers of which P is false.                *)
(***************************************************************************)
EXTENDS SequencesExt, WellFoundedInduction, FiniteSetTheorems, SequenceTheorems, TLAPS

\* A set of natural numbers that is not empty has a least element.
LEMMA LeastNatural ==
  ASSUME NEW T \in SUBSET Nat, T # {}
  PROVE  \E x \in T : \A y \in T : x <= y
<1> DEFINE R == OpToRel(<, Nat)
<1>1. IsWellFoundedOn(R, Nat)
  BY NatLessThanWellFounded
<1>2. R = {ss \in Nat \X Nat : ss[1] < ss[2]}
  BY DEF OpToRel
<1> HIDE DEF R
<1>3. PICK x \in T : \A y \in T : ~(<<y, x>> \in R)
  BY <1>1, WFMin
<1>4. ASSUME NEW y \in T
      PROVE  x <= y
  <2>1. <<y, x>> \notin R /\ x \in Nat /\ y \in Nat
    BY <1>3
  <2>2. ~(y < x)
    BY <1>2, <2>1
  <2>3. QED
    BY <2>1, <2>2
<1>5. QED
  BY <1>4

-----------------------------------------------------------------------------
(* Recursion along a predecessor that goes down a well-founded relation.   *)

\* Outside B every element has a predecessor in D.
HasPredecessors(D, B, pred, R) ==
    B \subseteq D /\ \A x \in D \ B : pred[x] \in D /\ <<pred[x], x>> \in R

\* f is given on B and takes its other values from its predecessor's.
IsRecursive(f, D, B, pred, base, step) ==
    \A x \in D : f[x] = IF x \in B THEN base[x] ELSE step[x][f[pred[x]]]

\* There is such a function.
LEMMA RecursionExists ==
  ASSUME NEW D, NEW R, NEW B, NEW pred, NEW V, NEW base, NEW step,
         IsWellFoundedOn(R, D), HasPredecessors(D, B, pred, R),
         base \in [B -> V], step \in [D -> [V -> V]]
  PROVE  \E f \in [D -> V] : IsRecursive(f, D, B, pred, base, step)
<1> USE DEF HasPredecessors, IsRecursive
<1> DEFINE Attempt(E, g) ==
             /\ E \subseteq D /\ \A y \in E \ B : pred[y] \in E
             /\ g \in [E -> V]
             /\ \A y \in E : g[y] = IF y \in B THEN base[y] ELSE step[y][g[pred[y]]]
<1>1. ASSUME NEW E, NEW g, Attempt(E, g), NEW F, NEW h, Attempt(F, h),
             NEW y \in E \cap F
      PROVE  g[y] = h[y]
  <2> DEFINE T == {z \in E \cap F : g[z] # h[z]}
  <2>1. SUFFICES ASSUME T # {} PROVE FALSE
    OBVIOUS
  <2>2. T \subseteq D
    BY <1>1
  <2> HIDE DEF T
  <2>3. PICK x \in T : \A z \in T : ~(<<z, x>> \in R)
    BY <2>1, <2>2, WFMin
  <2> USE DEF T
  <2>4. x \notin B
    BY <1>1
  <2>5. pred[x] \in E \cap F /\ x \in D
    BY <1>1, <2>4
  <2>6. <<pred[x], x>> \in R
    BY <2>4, <2>5
  <2>7. pred[x] \notin T
    BY <2>3, <2>6
  <2>8. g[pred[x]] = h[pred[x]]
    BY <2>5, <2>7
  <2>9. QED
    BY <1>1, <2>4, <2>8
<1>2. ASSUME NEW x \in D
      PROVE  \E E, g : x \in E /\ Attempt(E, g)
  <2> DEFINE T == {z \in D : ~\E E, g : z \in E /\ Attempt(E, g)}
  <2>1. SUFFICES ASSUME T # {} PROVE FALSE
    OBVIOUS
  <2>2. T \subseteq D
    OBVIOUS
  <2> HIDE DEF T
  <2>3. PICK t \in T : \A z \in T : ~(<<z, t>> \in R)
    BY <2>1, <2>2, WFMin
  <2> USE DEF T
  <2>4. CASE t \in B
    <3>1. Attempt({t}, [z \in {t} |-> base[z]])
      BY <2>4
    <3> HIDE DEF Attempt
    <3>2. QED
      BY <3>1
  <2>5. CASE t \notin B
    <3>1. pred[t] \in D /\ pred[t] \notin T
      BY <2>3, <2>5
    <3>2. PICK E, g : pred[t] \in E /\ Attempt(E, g)
      BY <3>1
    <3>3. t \notin E
      BY <3>2
    <3> DEFINE h == [z \in E \cup {t} |-> IF z = t THEN step[t][g[pred[t]]] ELSE g[z]]
    <3>4. g[pred[t]] \in V /\ step[t][g[pred[t]]] \in V
      BY <3>2
    <3>5. h \in [E \cup {t} -> V]
      BY <3>2, <3>4
    <3>6. ASSUME NEW z \in E \cup {t}
          PROVE  h[z] = IF z \in B THEN base[z] ELSE step[z][h[pred[z]]]
      <4>1. h[pred[t]] = g[pred[t]]
        BY <3>2, <3>3
      <4>2. CASE z = t
        BY <2>5, <4>1, <4>2
      <4>3. CASE z \in E
        <5>1. h[z] = g[z] /\ (z \notin B => pred[z] \in E /\ h[pred[z]] = g[pred[z]])
          BY <3>2, <3>3, <4>3
        <5>2. QED
          BY <3>2, <4>3, <5>1
      <4>4. QED
        BY <4>2, <4>3
    <3> HIDE DEF h
    <3>7. Attempt(E \cup {t}, h)
      BY <3>2, <3>5, <3>6
    <3>8. QED
      BY <3>7
  <2>6. QED
    BY <2>4, <2>5
<1> DEFINE Best(x) == CHOOSE p : x \in p[1] /\ Attempt(p[1], p[2])
           f == [x \in D |-> Best(x)[2][x]]
<1>3. ASSUME NEW x \in D
      PROVE  x \in Best(x)[1] /\ Attempt(Best(x)[1], Best(x)[2])
  <2> HIDE DEF Attempt
  <2>1. PICK E, g : x \in E /\ Attempt(E, g)
    BY <1>2
  <2> DEFINE p == <<E, g>>
  <2>2. x \in p[1] /\ Attempt(p[1], p[2])
    BY <2>1
  <2> HIDE DEF p
  <2>3. QED
    BY <2>2
<1> HIDE DEF Best
<1>4. f \in [D -> V]
  BY <1>3
<1>5. ASSUME NEW x \in D
      PROVE  f[x] = IF x \in B THEN base[x] ELSE step[x][f[pred[x]]]
  <2>1. f[x] = IF x \in B THEN base[x] ELSE step[x][Best(x)[2][pred[x]]]
    BY <1>3
  <2>2. CASE x \notin B
    <3>1. pred[x] \in D /\ pred[x] \in Best(x)[1]
      BY <1>3, <2>2
    <3>2. pred[x] \in Best(pred[x])[1]
      BY <1>3, <3>1
    <3>3. Best(x)[2][pred[x]] = Best(pred[x])[2][pred[x]]
      <4>1. Attempt(Best(x)[1], Best(x)[2]) /\ Attempt(Best(pred[x])[1], Best(pred[x])[2])
        BY <1>3, <3>1
      <4> HIDE DEF Attempt
      <4>2. QED
        BY <1>1, <3>1, <3>2, <4>1
    <3>4. f[pred[x]] = Best(x)[2][pred[x]]
      BY <3>1, <3>3
    <3>5. QED
      BY <2>1, <2>2, <3>4
  <2>3. QED
    BY <2>1, <2>2
<1>6. QED
  BY <1>4, <1>5

\* step takes a value from each number to the next.
StepsThrough(step, V) == step \in [Nat -> [V -> V]]

\* f starts with c and takes its other values from the one before.
IsIterated(f, V, c, step) ==
    /\ f \in [Nat -> V] /\ f[0] = c
    /\ \A n \in Nat \ {0} : f[n] = step[n][f[n - 1]]

\* Recursion on the natural numbers.
LEMMA NaturalRecursion ==
  ASSUME NEW V, NEW c \in V, NEW step, StepsThrough(step, V)
  PROVE  \E f : IsIterated(f, V, c, step)
<1> USE DEF StepsThrough
<1> DEFINE R == OpToRel(<, Nat)
           pred == [n \in Nat \ {0} |-> n - 1]
           base == [n \in {0} |-> c]
<1>1. IsWellFoundedOn(R, Nat)
  BY NatLessThanWellFounded
<1>2. R = {ss \in Nat \X Nat : ss[1] < ss[2]}
  BY DEF OpToRel
<1> HIDE DEF R
<1>3. HasPredecessors(Nat, {0}, pred, R)
  BY <1>2 DEF HasPredecessors
<1>4. base \in [{0} -> V]
  OBVIOUS
<1> HIDE DEF pred, base
<1>5. PICK f \in [Nat -> V] : IsRecursive(f, Nat, {0}, pred, base, step)
  BY <1>1, <1>3, <1>4, RecursionExists
<1>6. IsIterated(f, V, c, step)
  BY <1>5 DEF IsRecursive, IsIterated, pred, base
<1>7. QED
  BY <1>6

\* step takes a value from each number up to n to the next.
StepsUpTo(step, n, V) == step \in [1..n -> [V -> V]]

\* f starts with c and takes its values up to n from the one before.
IsIteratedUpTo(f, n, V, c, step) ==
    /\ f \in [0..n -> V] /\ f[0] = c
    /\ \A k \in 1..n : f[k] = step[k][f[k - 1]]

\* Recursion on the numbers up to n.
LEMMA IntervalRecursion ==
  ASSUME NEW n \in Nat, NEW V, NEW c \in V, NEW step, StepsUpTo(step, n, V)
  PROVE  \E f : IsIteratedUpTo(f, n, V, c, step)
<1> DEFINE long == [k \in Nat |-> IF k \in 1..n THEN step[k] ELSE [v \in V |-> v]]
<1>1. StepsThrough(long, V)
  BY DEF StepsThrough, StepsUpTo
<1> HIDE DEF long
<1>2. PICK g : IsIterated(g, V, c, long)
  BY <1>1, NaturalRecursion
<1> DEFINE f == [k \in 0..n |-> g[k]]
<1>3. ASSUME NEW k \in 1..n
      PROVE  f[k] = step[k][f[k - 1]]
  <2>1. k \in Nat \ {0} /\ k - 1 \in 0..n /\ k \in 0..n
    OBVIOUS
  <2>2. g[k] = long[k][g[k - 1]] /\ long[k] = step[k]
    BY <1>2, <2>1 DEF IsIterated, long
  <2>3. QED
    BY <2>1, <2>2
<1>4. f \in [0..n -> V] /\ f[0] = c
  BY <1>2 DEF IsIterated
<1>5. IsIteratedUpTo(f, n, V, c, step)
  BY <1>3, <1>4 DEF IsIteratedUpTo
<1>6. QED
  BY <1>5

\* f and g start alike and go on alike.
Alike(f, g, n) ==
    f[0] = g[0] /\ \A k \in 1..n : f[k - 1] = g[k - 1] => f[k] = g[k]

\* What starts alike and goes on alike is the same up to n.
LEMMA SameIteration ==
  ASSUME NEW n \in Nat, NEW f, NEW g, Alike(f, g, n)
  PROVE  \A k \in 0..n : f[k] = g[k]
<1> USE DEF Alike
<1> DEFINE T == {k \in 0..n : f[k] # g[k]}
<1>1. SUFFICES ASSUME T # {} PROVE FALSE
  OBVIOUS
<1>2. T \in SUBSET Nat
  OBVIOUS
<1> HIDE DEF T
<1>3. PICK k \in T : \A m \in T : k <= m
  BY <1>1, <1>2, LeastNatural
<1> USE DEF T
<1>4. k \in 1..n /\ k - 1 \in 0..n /\ ~(k <= k - 1)
  OBVIOUS
<1>5. f[k - 1] = g[k - 1]
  BY <1>3, <1>4
<1>6. QED
  BY <1>4, <1>5

\* The least element of a set of numbers is one of them.
LEMMA LeastOf ==
  ASSUME NEW S \in SUBSET Nat, S # {}
  PROVE  Min(S) \in S /\ \A y \in S : Min(S) <= y
BY LeastNatural DEF Min

-----------------------------------------------------------------------------
(* FlattenSeq is such an iteration.                                        *)

\* It does not matter which two of three come first.
Associate(s, t, u) == (s \o t) \o u = s \o (t \o u)

\* Concatenation of any three sequences is such.
LEMMA TheyAssociate ==
  ASSUME NEW S, NEW s \in Seq(S), NEW t \in Seq(S), NEW u \in Seq(S)
  PROVE  Associate(s, t, u)
BY ConcatAssociative DEF Associate

\* f puts the elements of parts one behind the other.
Joins(f, parts, S) ==
    /\ f \in [0..Len(parts) -> Seq(S)] /\ f[0] = <<>>
    /\ \A k \in 1..Len(parts) : f[k] = f[k - 1] \o parts[k]

\* Some function does.
LEMMA JoiningExists ==
  ASSUME NEW S, NEW parts \in Seq(Seq(S))
  PROVE  \E f : Joins(f, parts, S)
<1> DEFINE n == Len(parts)
           step == [k \in 1..n |-> [s \in Seq(S) |-> s \o parts[k]]]
<1>1. n \in Nat /\ \A k \in 1..n : parts[k] \in Seq(S)
  OBVIOUS
<1>2. StepsUpTo(step, n, Seq(S)) /\ <<>> \in Seq(S)
  BY <1>1 DEF StepsUpTo
<1> HIDE DEF step
<1>3. PICK f : IsIteratedUpTo(f, n, Seq(S), <<>>, step)
  BY <1>1, <1>2, IntervalRecursion
<1>4. /\ f \in [0..n -> Seq(S)] /\ f[0] = <<>>
      /\ \A k \in 1..n : f[k] = step[k][f[k - 1]]
  BY <1>3 DEF IsIteratedUpTo
<1>5. ASSUME NEW k \in 1..n
      PROVE  f[k] = f[k - 1] \o parts[k]
  <2>1. k - 1 \in 0..n
    BY <1>1
  <2>2. f[k - 1] \in Seq(S)
    BY <1>4, <2>1
  <2>3. step[k] = [s \in Seq(S) |-> s \o parts[k]]
    BY DEF step
  <2>4. QED
    BY <1>4, <2>2, <2>3
<1>6. Joins(f, parts, S)
  BY <1>4, <1>5 DEF Joins
<1>7. QED
  BY <1>6

\* Its last value is FlattenSeq.
LEMMA JoiningFlattens ==
  ASSUME NEW S, NEW parts \in Seq(Seq(S)), NEW f, Joins(f, parts, S)
  PROVE  FlattenSeq(parts) = f[Len(parts)]
<1> DEFINE n == Len(parts)
           Flattens(g) == g = [i \in 1..n |-> IF i = 1 THEN parts[i] ELSE g[i - 1] \o parts[i]]
           g == CHOOSE h : Flattens(h)
<1>1. /\ n \in Nat /\ f[0] = <<>>
      /\ \A k \in 1..n : /\ parts[k] \in Seq(S) /\ f[k - 1] \in Seq(S)
                         /\ f[k] = f[k - 1] \o parts[k]
  <2>1. \A k \in 1..n : k - 1 \in 0..n
    OBVIOUS
  <2>2. QED
    BY <2>1 DEF Joins
<1>2. CASE n = 0
  <2>1. parts = <<>>
    BY <1>2
  <2>2. QED
    BY <1>2, <2>1 DEF FlattenSeq, Joins
<1>3. CASE n # 0
  <2> DEFINE h == [i \in 1..n |-> f[i]]
  <2>1. ASSUME NEW i \in 1..n
        PROVE  h[i] = IF i = 1 THEN parts[i] ELSE h[i - 1] \o parts[i]
    <3>1. CASE i = 1
      <4>1. f[1] = f[0] \o parts[1] /\ f[0] = <<>> /\ parts[1] \in Seq(S)
        <5>1. f[i] = f[i - 1] \o parts[i] /\ parts[i] \in Seq(S)
          BY <1>1
        <5>2. i - 1 = 0
          BY <3>1
        <5>3. QED
          BY <1>1, <3>1, <5>1, <5>2
      <4>2. f[1] = parts[1]
        BY <4>1, ConcatEmptySeq
      <4>3. QED
        BY <3>1, <4>2
    <3>2. CASE i # 1
      <4>1. i - 1 \in 1..n
        BY <1>1, <3>2
      <4>2. h[i - 1] = f[i - 1] /\ h[i] = f[i] /\ f[i] = f[i - 1] \o parts[i]
        BY <1>1, <4>1
      <4>3. QED
        BY <3>2, <4>2
    <3>3. QED
      BY <3>1, <3>2
  <2> HIDE DEF h
  <2>2. h = [i \in 1..n |-> IF i = 1 THEN parts[i] ELSE h[i - 1] \o parts[i]]
    <3>1. h = [i \in 1..n |-> h[i]]
      BY DEF h
    <3>2. QED
      BY <2>1, <3>1
  <2>3. Flattens(g)
    <3>1. Flattens(h)
      BY <2>2
    <3> HIDE DEF Flattens
    <3>2. QED
      BY <3>1
  <2>4. FlattenSeq(parts) = g[n]
    BY <1>3 DEF FlattenSeq
  <2> HIDE DEF g
  <2>5. \A k \in 1..n : g[k] = IF k = 1 THEN parts[k] ELSE g[k - 1] \o parts[k]
    BY <2>3
  <2> DEFINE e == [k \in 0..n |-> IF k = 0 THEN <<>> ELSE g[k]]
  <2>6. ASSUME NEW k \in 1..n, f[k - 1] = e[k - 1]
        PROVE  f[k] = e[k]
    <3>1. e[k] = g[k] /\ k - 1 \in 0..n
      BY <1>1
    <3>2. CASE k = 1
      <4>1. f[1] = f[0] \o parts[1] /\ f[0] = <<>> /\ parts[1] \in Seq(S)
        <5>1. f[k] = f[k - 1] \o parts[k] /\ parts[k] \in Seq(S)
          BY <1>1
        <5>2. k - 1 = 0
          BY <3>2
        <5>3. QED
          BY <1>1, <3>2, <5>1, <5>2
      <4>2. f[1] = parts[1] /\ g[1] = parts[1]
        BY <2>5, <3>2, <4>1, ConcatEmptySeq
      <4>3. QED
        BY <3>1, <3>2, <4>2
    <3>3. CASE k # 1
      <4>1. e[k - 1] = g[k - 1]
        BY <1>1, <3>3
      <4>2. g[k] = g[k - 1] \o parts[k]
        BY <2>5, <3>3
      <4>3. QED
        BY <1>1, <2>6, <3>1, <4>1, <4>2
    <3>4. QED
      BY <3>2, <3>3
  <2>7. f[0] = e[0]
    BY <1>1
  <2> HIDE DEF e
  <2>8. Alike(f, e, n)
    BY <2>6, <2>7 DEF Alike
  <2>9. \A k \in 0..n : f[k] = e[k]
    BY <1>1, <2>8, SameIteration
  <2>10. QED
    BY <1>1, <1>3, <2>4, <2>9 DEF e
<1>4. QED
  BY <1>2, <1>3

\* What is flattened is a sequence.
LEMMA FlattenSeqType ==
  ASSUME NEW S, NEW parts \in Seq(Seq(S))
  PROVE  FlattenSeq(parts) \in Seq(S)
<1>1. PICK f : Joins(f, parts, S)
  BY JoiningExists
<1>2. FlattenSeq(parts) = f[Len(parts)]
  BY <1>1, JoiningFlattens
<1>3. QED
  BY <1>1, <1>2 DEF Joins

\* One more part comes behind the others.
LEMMA FlattenAppend ==
  ASSUME NEW S, NEW parts \in Seq(Seq(S)), NEW s \in Seq(S)
  PROVE  FlattenSeq(Append(parts, s)) = FlattenSeq(parts) \o s
<1> DEFINE more == Append(parts, s)
           n == Len(parts)
<1>1. /\ more \in Seq(Seq(S)) /\ Len(more) = n + 1 /\ n \in Nat /\ more[n + 1] = s
      /\ \A k \in 1..n : more[k] = parts[k]
  OBVIOUS
<1> HIDE DEF more
<1>2. PICK f : Joins(f, more, S)
  BY <1>1, JoiningExists
<1> DEFINE g == [k \in 0..n |-> f[k]]
<1>3. Joins(g, parts, S)
  <2>1. g \in [0..n -> Seq(S)] /\ g[0] = <<>>
    BY <1>1, <1>2 DEF Joins
  <2>2. ASSUME NEW k \in 1..n
        PROVE  g[k] = g[k - 1] \o parts[k]
    <3>1. k \in 0..n /\ k - 1 \in 0..n /\ k \in 1..Len(more)
      BY <1>1
    <3>2. f[k] = f[k - 1] \o more[k]
      BY <1>2, <3>1 DEF Joins
    <3>3. QED
      BY <1>1, <3>1, <3>2
  <2>3. QED
    BY <2>1, <2>2 DEF Joins
<1>4. FlattenSeq(parts) = f[n]
  <2>1. FlattenSeq(parts) = g[n]
    BY <1>3, JoiningFlattens
  <2>2. QED
    BY <1>1, <2>1
<1>5. FlattenSeq(more) = f[n + 1]
  BY <1>1, <1>2, JoiningFlattens
<1>6. f[n + 1] = f[n] \o s
  <2>1. n + 1 \in 1..Len(more) /\ (n + 1) - 1 = n
    BY <1>1
  <2>2. f[n + 1] = f[(n + 1) - 1] \o more[n + 1]
    BY <1>2, <2>1 DEF Joins
  <2>3. QED
    BY <1>1, <2>1, <2>2
<1>7. QED
  BY <1>4, <1>5, <1>6 DEF more

\* The parts up to one of them, that one, and the rest.
LEMMA FlattenSplit ==
  ASSUME NEW S, NEW parts \in Seq(Seq(S)), NEW k \in 1..Len(parts)
  PROVE  \E rest \in Seq(S) :
            FlattenSeq(parts) = (FlattenSeq(SubSeq(parts, 1, k - 1)) \o parts[k]) \o rest
<1> DEFINE n == Len(parts)
           before == SubSeq(parts, 1, k - 1)
<1>1. n \in Nat /\ k \in Nat /\ k - 1 \in 0..n /\ k \in 0..n /\ \A i \in 1..n : parts[i] \in Seq(S)
  OBVIOUS
<1>2. before \in Seq(Seq(S)) /\ Len(before) = k - 1 /\ \A i \in 1..(k - 1) : before[i] = parts[i]
  OBVIOUS
<1> HIDE DEF before
<1>3. PICK f : Joins(f, parts, S)
  BY JoiningExists
<1>4. FlattenSeq(before) = f[k - 1]
  <2> DEFINE g == [i \in 0..(k - 1) |-> f[i]]
  <2>1. g \in [0..(k - 1) -> Seq(S)] /\ g[0] = <<>>
    <3>1. f \in [0..n -> Seq(S)] /\ f[0] = <<>>
      BY <1>3 DEF Joins
    <3>2. 0 \in 0..(k - 1) /\ \A i \in 0..(k - 1) : i \in 0..n
      BY <1>1
    <3>3. QED
      BY <3>1, <3>2
  <2>2. ASSUME NEW i \in 1..(k - 1)
        PROVE  g[i] = g[i - 1] \o before[i]
    <3>1. i \in 0..(k - 1) /\ i - 1 \in 0..(k - 1) /\ i \in 1..n
      BY <1>1
    <3>2. f[i] = f[i - 1] \o parts[i]
      BY <1>3, <3>1 DEF Joins
    <3>3. QED
      BY <1>2, <3>1, <3>2
  <2>3. Joins(g, before, S)
    BY <1>2, <2>1, <2>2 DEF Joins
  <2>4. FlattenSeq(before) = g[k - 1]
    BY <1>2, <2>3, JoiningFlattens
  <2>5. QED
    BY <1>1, <2>4
<1> DEFINE T == {j \in k..n : ~\E rest \in Seq(S) : f[j] = (f[k - 1] \o parts[k]) \o rest}
<1>5. T = {}
  <2>1. SUFFICES ASSUME T # {} PROVE FALSE
    OBVIOUS
  <2>2. T \in SUBSET Nat
    <3>1. k..n \subseteq Nat
      BY <1>1
    <3>2. QED
      BY <3>1
  <2> HIDE DEF T
  <2>3. PICK j \in T : \A i \in T : j <= i
    BY <2>1, <2>2, LeastNatural
  <2> USE DEF T
  <2>4. f[k] = f[k - 1] \o parts[k] /\ f[k - 1] \in Seq(S) /\ parts[k] \in Seq(S)
        /\ f[k] \in Seq(S)
    BY <1>1, <1>3 DEF Joins
  <2>5. j # k
    <3>1. f[k] = (f[k - 1] \o parts[k]) \o <<>> /\ <<>> \in Seq(S)
      BY <2>4
    <3>2. QED
      BY <3>1
  <2>6. j \in 1..n /\ j - 1 \in k..n /\ ~(j <= j - 1)
    BY <1>1, <2>5
  <2>7. PICK rest \in Seq(S) : f[j - 1] = (f[k - 1] \o parts[k]) \o rest
    BY <2>3, <2>6
  <2>8. f[j] = f[j - 1] \o parts[j] /\ parts[j] \in Seq(S)
    BY <1>1, <1>3, <2>6 DEF Joins
  <2> HIDE DEF T
  <2>9. f[j] = f[k] \o (rest \o parts[j])
    <3>1. (f[k] \o rest) \o parts[j] = f[k] \o (rest \o parts[j])
      <4>1. f[k] \in Seq(S) /\ rest \in Seq(S) /\ parts[j] \in Seq(S)
        BY <2>4, <2>7, <2>8
      <4> DEFINE u == f[k]
                 w == parts[j]
      <4>2. u \in Seq(S) /\ rest \in Seq(S) /\ w \in Seq(S)
        BY <4>1
      <4> HIDE DEF u, w
      <4>3. Associate(u, rest, w)
        BY <4>2, TheyAssociate
      <4>4. QED
        BY <4>3 DEF u, w, Associate
    <3>2. QED
      BY <2>4, <2>7, <2>8, <3>1
  <2>10. rest \o parts[j] \in Seq(S)
    BY <2>8
  <2>11. f[j] = (f[k - 1] \o parts[k]) \o (rest \o parts[j])
    BY <2>4, <2>9
  <2>12. j \notin T
    BY <2>10, <2>11 DEF T
  <2>13. QED
    BY <2>12
<1>6. FlattenSeq(parts) = f[n]
  BY <1>3, JoiningFlattens
<1>7. n \in k..n
  BY <1>1
<1>8. QED
  BY <1>4, <1>5, <1>6, <1>7 DEF before
=============================================================================
