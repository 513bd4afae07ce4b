-------------------------- MODULE EndpointPathProofs --------------------------
(***************************************************************************)
(* EndpointPath's theorems.  What a clear verdict and a refusal mean hangs *)
(* on what splitting, resolving and decoding do to every path, of whatever *)
(* length: the first section proves induction and definition by recursion  *)
(* over an interval from the least number of a set, the next ones what     *)
(* each recursive function of the model computes, and the last one the     *)
(* invariant that the verdict was reached on what an upstream would have   *)
(* after that many passes.                                                 *)
(***************************************************************************)
EXTENDS EndpointPath, Integers, SequenceTheorems, WellFoundedInduction, TLAPS

-----------------------------------------------------------------------------
(* Induction and recursion over an interval *)

(* Every set of naturals that is not empty has a least element. *)
LEMMA LeastNumber ==
  ASSUME NEW T \in SUBSET Nat, T # {}
  PROVE  \E m \in T : \A k \in T : m <= k
<1> DEFINE R == OpToRel(<, Nat)
<1>1. IsWellFoundedOn(R, Nat)
  BY NatLessThanWellFounded
<1>2. \A x, y \in Nat : x < y => <<x, y>> \in R
  BY DEF OpToRel
<1> HIDE DEF R
<1>3. \A Q \in SUBSET Nat : Q # {} => \E x \in Q : \A y \in Q : ~ (<<y, x>> \in R)
  BY <1>1, WFMin
<1>4. PICK x \in T : \A y \in T : ~ (<<y, x>> \in R)
  BY <1>3
<1>5. ASSUME NEW y \in T PROVE x <= y
  <2>1. ~ (y < x)
    BY <1>2, <1>4
  <2>2. x \in Nat /\ y \in Nat
    OBVIOUS
  <2> QED
    BY <2>1, <2>2
<1> QED
  BY <1>5

(* A set that holds 0 and with each number up to n the next one, holds them all. *)
LEMMA Induction ==
  ASSUME NEW n \in Nat, NEW Good,
         0 \in Good,
         \A k \in 1..n : k - 1 \in Good => k \in Good
  PROVE  \A k \in 0..n : k \in Good
<1> DEFINE Bad == {k \in 0..n : k \notin Good}
<1>1. SUFFICES ASSUME Bad # {} PROVE FALSE
  OBVIOUS
<1>2. Bad \in SUBSET Nat
  OBVIOUS
<1> HIDE DEF Bad
<1>3. PICK m \in Bad : \A k \in Bad : m <= k
  BY <1>1, <1>2, LeastNumber
<1>4. m \in 0..n /\ m \notin Good /\ m # 0
  BY DEF Bad
<1>5. m - 1 \in 0..n /\ m - 1 \notin Bad
  BY <1>3, <1>4
<1> QED
  BY <1>4, <1>5 DEF Bad

\* A step from each number up to n to the next, within a set.
Steps(step, n, S) == step \in [(1..n) \X S -> S]

\* The function that such steps define.
Solves(f, n, S, base, step) ==
  /\ f \in [0..n -> S]
  /\ f[0] = base
  /\ \A k \in 1..n : f[k] = step[<<k, f[k - 1]>>]

(* There is one: what a recursive function's CHOOSE needs, to be what its equation says. *)
LEMMA Recursion ==
  ASSUME NEW n \in Nat, NEW S, NEW base \in S, NEW step, Steps(step, n, S)
  PROVE  \E f : Solves(f, n, S, base, step)
<1> USE DEF Steps
<1> DEFINE Good == {m \in 0..n : \E f : Solves(f, m, S, base, step)}
<1>1. Solves([k \in 0..0 |-> base], 0, S, base, step)
  BY DEF Solves
<1>2. ASSUME NEW m \in 1..n, NEW f, Solves(f, m - 1, S, base, step)
      PROVE  \E g : Solves(g, m, S, base, step)
  <2> DEFINE g == [k \in 0..m |-> IF k = m THEN step[<<m, f[m - 1]>>] ELSE f[k]]
  <2>1. f[m - 1] \in S /\ step[<<m, f[m - 1]>>] \in S
    BY <1>2 DEF Solves
  <2>2. g \in [0..m -> S] /\ g[0] = base
    BY <1>2, <2>1 DEF Solves
  <2>3. ASSUME NEW k \in 1..m PROVE g[k] = step[<<k, g[k - 1]>>]
    <3>1. k - 1 \in 0..(m - 1) /\ g[k - 1] = f[k - 1]
      OBVIOUS
    <3>2. CASE k = m
      <4>1. g[m] = step[<<m, f[m - 1]>>]
        OBVIOUS
      <4> QED
        BY <3>1, <3>2, <4>1
    <3>3. CASE k # m
      <4>1. k \in 1..(m - 1) /\ g[k] = f[k]
        BY <3>3
      <4> QED
        BY <3>1, <4>1, <1>2 DEF Solves
    <3> QED
      BY <3>2, <3>3
  <2> HIDE DEF g
  <2>4. Solves(g, m, S, base, step)
    BY <2>2, <2>3 DEF Solves
  <2> QED
    BY <2>4
<1>3. 0 \in Good
  BY <1>1
<1>4. ASSUME NEW k \in 1..n, k - 1 \in Good PROVE k \in Good
  BY <1>2, <1>4
<1> HIDE DEF Good
<1>5. n \in Good
  BY <1>3, <1>4, Induction
<1> QED
  BY <1>5 DEF Good

-----------------------------------------------------------------------------
(* Splitting *)

\* The lists of parts a text splits into.
Lists(C) == {parts \in Seq(Seq(C)) : parts # <<>>}

(* One more character leaves a list of parts one. *)
LEMMA PartedType ==
  ASSUME NEW C, NEW parts \in Lists(C), NEW c \in C, NEW separators
  PROVE  Parted(parts, c, separators) \in Lists(C)
<1>1. CASE c \in separators
  BY <1>1 DEF Parted, Lists
<1>2. CASE c \notin separators
  <2>1. Len(parts) \in 1..Len(parts) /\ Append(parts[Len(parts)], c) \in Seq(C)
    BY DEF Lists
  <2> QED
    BY <1>2, <2>1 DEF Parted, Lists
<1> QED
  BY <1>1, <1>2

(* Parts is what its equation says. *)
LEMMA PartsStep ==
  ASSUME NEW C, NEW text \in Seq(C), NEW separators
  PROVE  /\ Parts(text, separators)[0] = <<<<>>>>
         /\ \A n \in 1..Len(text) :
              Parts(text, separators)[n] = Parted(Parts(text, separators)[n - 1], text[n], separators)
         /\ \A n \in 0..Len(text) : Parts(text, separators)[n] \in Lists(C)
<1> DEFINE N == Lists(C)
           base == <<<<>>>>
           len == Len(text)
           P == Parts(text, separators)
           step == [x \in (1..len) \X N |-> Parted(x[2], text[x[1]], separators)]
           Eq(g) == g = [k \in 0..len |-> IF k = 0 THEN base ELSE Parted(g[k - 1], text[k], separators)]
<1>1. base \in N /\ len \in Nat /\ \A k \in 1..len : text[k] \in C
  BY DEF Lists
<1>2. Steps(step, len, N)
  BY <1>1, PartedType DEF Steps
<1>3. \A k \in 1..len, v \in N : step[<<k, v>>] = Parted(v, text[k], separators)
  OBVIOUS
<1>4. P = CHOOSE g : Eq(g)
  BY DEF Parts
<1> HIDE DEF step, N, len, P, base
<1>5. PICK f : Solves(f, len, N, base, step)
  BY <1>1, <1>2, Recursion
<1>6. f \in [0..len -> N] /\ f[0] = base /\ \A k \in 1..len : f[k] = step[<<k, f[k - 1]>>]
  BY <1>5 DEF Solves
<1>7. Eq(f)
  <2>1. ASSUME NEW k \in 0..len PROVE f[k] = IF k = 0 THEN base ELSE Parted(f[k - 1], text[k], separators)
    <3>1. CASE k = 0
      BY <1>6, <3>1
    <3>2. CASE k # 0
      <4>1. k \in 1..len /\ k - 1 \in 0..len
        BY <1>1, <3>2
      <4>2. f[k - 1] \in N
        BY <1>6, <4>1
      <4> QED
        BY <1>3, <1>6, <3>2, <4>1, <4>2
    <3> QED
      BY <3>1, <3>2
  <2>2. f = [k \in 0..len |-> f[k]]
    BY <1>6
  <2> QED
    BY <2>1, <2>2
<1> HIDE DEF Eq
<1>8. Eq(P)
  BY <1>4, <1>7, Zenon
<1>9. P[0] = base /\ \A k \in 1..len : P[k] = Parted(P[k - 1], text[k], separators)
  <2>1. P[0] = base
    BY <1>1, <1>8 DEF Eq
  <2>2. ASSUME NEW k \in 1..len PROVE P[k] = Parted(P[k - 1], text[k], separators)
    <3>1. k \in 0..len /\ k # 0
      BY <1>1
    <3> QED
      BY <1>8, <3>1 DEF Eq
  <2> QED
    BY <2>1, <2>2
<1> DEFINE Good == {k \in 0..len : P[k] \in N}
<1>10. 0 \in Good
  BY <1>1, <1>9
<1>11. ASSUME NEW k \in 1..len, k - 1 \in Good PROVE k \in Good
  BY <1>1, <1>9, <1>11, PartedType DEF N
<1> HIDE DEF Good
<1>12. \A k \in 0..len : k \in Good
  BY <1>1, <1>10, <1>11, Induction
<1> QED
  BY <1>9, <1>12 DEF Good, P, N, len, base

\* A part starts behind i and has not ended at n.
Open(text, separators, i, n) ==
  /\ i \in 0..n
  /\ i = 0 \/ text[i] \in separators
  /\ \A m \in (i + 1)..n : text[m] \notin separators

\* A part lies between i and j.
IsPart(text, separators, i, j) ==
  /\ j \in 1..(Len(text) + 1)
  /\ Open(text, separators, i, j - 1)
  /\ j = Len(text) + 1 \/ text[j] \in separators

Between(text, i, j) == SubSeq(text, i + 1, j - 1)

\* What the list is after n characters: the parts between separators, the last one as far
\* as it has come.
SplitAt(parts, text, separators, n) ==
  /\ \A k \in 1..(Len(parts) - 1) : \E i \in 0..n, j \in 1..n :
       IsPart(text, separators, i, j) /\ parts[k] = Between(text, i, j)
  /\ \A i \in 0..n, j \in 1..n : IsPart(text, separators, i, j) =>
       \E k \in 1..(Len(parts) - 1) : parts[k] = Between(text, i, j)
  /\ \E i \in 0..n : Open(text, separators, i, n) /\ parts[Len(parts)] = Between(text, i, n + 1)
  /\ \A j \in 1..n : IsPart(text, separators, 0, j) =>
       Len(parts) > 1 /\ parts[1] = Between(text, 0, j)
  /\ Open(text, separators, 0, n) => Len(parts) = 1

(* There is only one part that has not ended. *)
LEMMA OneOpen ==
  ASSUME NEW text, NEW separators, NEW n \in Nat, NEW i \in 0..n, NEW j \in 0..n,
         Open(text, separators, i, n), Open(text, separators, j, n)
  PROVE  i = j
<1>1. \A a, b \in 0..n :
        Open(text, separators, a, n) /\ Open(text, separators, b, n) => ~ (a < b)
  <2> SUFFICES ASSUME NEW a \in 0..n, NEW b \in 0..n, Open(text, separators, a, n),
                      Open(text, separators, b, n), a < b
               PROVE  FALSE
    OBVIOUS
  <2>1. b \in (a + 1)..n /\ b # 0
    OBVIOUS
  <2> QED
    BY <2>1 DEF Open
<1> QED
  BY <1>1

(* A part grows by the next character. *)
LEMMA BetweenGrows ==
  ASSUME NEW C, NEW text \in Seq(C), NEW n \in 1..Len(text), NEW i \in 0..(n - 1)
  PROVE  Append(Between(text, i, n), text[n]) = Between(text, i, n + 1)
<1> DEFINE a == Between(text, i, n)
           b == Between(text, i, n + 1)
<1>1. a \in Seq(C) /\ Len(a) = n - 1 - i /\ \A k \in 1..(n - 1 - i) : a[k] = text[i + k]
  BY DEF Between
<1>2. b \in Seq(C) /\ Len(b) = n - i /\ \A k \in 1..(n - i) : b[k] = text[i + k]
  BY DEF Between
<1>3. text[n] \in C
  OBVIOUS
<1> HIDE DEF a, b
<1>4. Append(a, text[n]) \in Seq(C) /\ Len(Append(a, text[n])) = Len(b)
  BY <1>1, <1>2, <1>3
<1>5. ASSUME NEW k \in 1..Len(b) PROVE Append(a, text[n])[k] = b[k]
  BY <1>1, <1>2, <1>3
<1>6. Append(a, text[n]) = b
  BY <1>2, <1>4, <1>5, SeqEqual
<1> QED
  BY <1>6 DEF a, b

(* A separator ends the last part and starts an empty one. *)
LEMMA SplitAtSeparator ==
  ASSUME NEW C, NEW text \in Seq(C), NEW separators, NEW n \in 1..Len(text),
         NEW parts \in Lists(C), SplitAt(parts, text, separators, n - 1),
         text[n] \in separators
  PROVE  SplitAt(Parted(parts, text[n], separators), text, separators, n)
<1> DEFINE last == Len(parts)
           next == Append(parts, <<>>)
<1>1. last \in Nat /\ last >= 1 /\ n \in Nat
  BY DEF Lists
<1>2. Len(next) = last + 1 /\ next[last + 1] = <<>> /\ \A k \in 1..last : next[k] = parts[k]
  BY <1>1 DEF Lists
<1>3. \A i \in 0..n : IsPart(text, separators, i, n) <=> i # n /\ Open(text, separators, i, n - 1)
  BY DEF IsPart, Open
<1>4. \A i \in 0..n : Open(text, separators, i, n) <=> i = n
  BY DEF Open
<1>5. \A i \in 0..n, j \in 1..(n - 1) : IsPart(text, separators, i, j) => i \in 0..(n - 1)
  BY DEF IsPart, Open
<1>6. PICK open \in 0..(n - 1) : Open(text, separators, open, n - 1) /\ parts[last] = Between(text, open, n)
  BY DEF SplitAt
<1>7. IsPart(text, separators, open, n)
  BY <1>3, <1>6
<1>8. Between(text, n, n + 1) = <<>>
  BY SubSeqEmpty DEF Between
<1> HIDE DEF next, last
<1>9. ASSUME NEW k \in 1..last
      PROVE  \E i \in 0..n, j \in 1..n : IsPart(text, separators, i, j) /\ next[k] = Between(text, i, j)
  <2>1. CASE k = last
    <3>1. open \in 0..n /\ n \in 1..n
      OBVIOUS
    <3> QED
      BY <1>2, <1>6, <1>7, <2>1, <3>1
  <2>2. CASE k # last
    <3>1. k \in 1..(last - 1)
      BY <1>1, <2>2
    <3>2. PICK i \in 0..(n - 1), j \in 1..(n - 1) :
            IsPart(text, separators, i, j) /\ parts[k] = Between(text, i, j)
      BY <3>1 DEF SplitAt, last
    <3>3. i \in 0..n /\ j \in 1..n
      OBVIOUS
    <3> QED
      BY <1>2, <3>2, <3>3
  <2> QED
    BY <2>1, <2>2
<1>10. ASSUME NEW i \in 0..n, NEW j \in 1..n, IsPart(text, separators, i, j)
       PROVE  \E k \in 1..last : next[k] = Between(text, i, j)
  <2>1. CASE j = n
    <3>1. i \in 0..(n - 1) /\ Open(text, separators, i, n - 1)
      BY <1>3, <1>10, <2>1
    <3>2. i = open
      BY <1>6, <3>1, OneOpen
    <3> QED
      BY <1>1, <1>2, <1>6, <2>1, <3>2
  <2>2. CASE j # n
    <3>1. i \in 0..(n - 1) /\ j \in 1..(n - 1)
      BY <1>5, <1>10, <2>2
    <3>2. PICK k \in 1..(last - 1) : parts[k] = Between(text, i, j)
      BY <1>10, <3>1 DEF SplitAt, last
    <3> QED
      BY <1>1, <1>2, <3>2
  <2> QED
    BY <2>1, <2>2
<1>11. Open(text, separators, n, n) /\ next[Len(next)] = Between(text, n, n + 1)
  BY <1>1, <1>2, <1>4, <1>8
<1>12. ASSUME NEW j \in 1..n, IsPart(text, separators, 0, j)
       PROVE  Len(next) > 1 /\ next[1] = Between(text, 0, j)
  <2>1. CASE j = n
    <3>1. Open(text, separators, 0, n - 1)
      BY <1>3, <1>12, <2>1
    <3>2. open = 0
      BY <1>6, <3>1, OneOpen
    <3>3. last = 1
      BY <3>1 DEF SplitAt, last
    <3> QED
      BY <1>2, <1>6, <2>1, <3>2, <3>3
  <2>2. CASE j # n
    <3>1. j \in 1..(n - 1)
      BY <2>2
    <3>2. last > 1 /\ parts[1] = Between(text, 0, j)
      BY <1>12, <3>1 DEF SplitAt, last
    <3> QED
      BY <1>1, <1>2, <3>2
  <2> QED
    BY <2>1, <2>2
<1>13. ~ Open(text, separators, 0, n)
  BY <1>4
<1>14. Len(next) - 1 = last
  BY <1>1, <1>2
<1>15. SplitAt(next, text, separators, n)
  <2>1. n \in 0..n
    OBVIOUS
  <2>2. \E i \in 0..n : Open(text, separators, i, n) /\ next[Len(next)] = Between(text, i, n + 1)
    BY <1>11, <2>1
  <2>3. \A k \in 1..(Len(next) - 1) : \E i \in 0..n, j \in 1..n :
          IsPart(text, separators, i, j) /\ next[k] = Between(text, i, j)
    BY <1>9, <1>14
  <2>4. \A i \in 0..n, j \in 1..n : IsPart(text, separators, i, j) =>
          \E k \in 1..(Len(next) - 1) : next[k] = Between(text, i, j)
    BY <1>10, <1>14
  <2> QED
    BY <1>12, <1>13, <2>2, <2>3, <2>4 DEF SplitAt
<1> QED
  BY <1>15 DEF next, Parted

(* Any other character belongs to the last part. *)
LEMMA SplitAtOther ==
  ASSUME NEW C, NEW text \in Seq(C), NEW separators, NEW n \in 1..Len(text),
         NEW parts \in Lists(C), SplitAt(parts, text, separators, n - 1),
         text[n] \notin separators
  PROVE  SplitAt(Parted(parts, text[n], separators), text, separators, n)
<1> DEFINE last == Len(parts)
           next == [parts EXCEPT ![Len(parts)] = Append(@, text[n])]
<1>1. last \in Nat /\ last >= 1 /\ n \in Nat /\ text[n] \in C
  BY DEF Lists
<1>2. Len(next) = last /\ next[last] = Append(parts[last], text[n]) /\ \A k \in 1..(last - 1) : next[k] = parts[k]
  <2>1. last \in 1..last /\ Append(parts[last], text[n]) \in Seq(C)
    BY <1>1 DEF Lists
  <2> QED
    BY <1>1, <2>1 DEF Lists
<1>3. \A i \in 0..n : ~ IsPart(text, separators, i, n)
  BY DEF IsPart
<1>4. \A i \in 0..n : Open(text, separators, i, n) <=> i # n /\ Open(text, separators, i, n - 1)
  BY DEF Open
<1>5. \A i \in 0..n, j \in 1..n : IsPart(text, separators, i, j) => i \in 0..(n - 1) /\ j \in 1..(n - 1)
  BY DEF IsPart, Open
<1>6. PICK open \in 0..(n - 1) : Open(text, separators, open, n - 1) /\ parts[last] = Between(text, open, n)
  BY DEF SplitAt
<1>7. open \in 0..n /\ Open(text, separators, open, n) /\ next[last] = Between(text, open, n + 1)
  <2> HIDE DEF next, last
  <2>1. open \in 0..n /\ open # n
    OBVIOUS
  <2>2. Append(Between(text, open, n), text[n]) = Between(text, open, n + 1)
    BY BetweenGrows
  <2> QED
    BY <1>2, <1>4, <1>6, <2>1, <2>2
<1>8. ASSUME NEW k \in 1..(last - 1)
      PROVE  \E i \in 0..n, j \in 1..n : IsPart(text, separators, i, j) /\ next[k] = Between(text, i, j)
  <2>1. PICK i \in 0..(n - 1), j \in 1..(n - 1) :
          IsPart(text, separators, i, j) /\ parts[k] = Between(text, i, j)
    BY DEF SplitAt
  <2>2. i \in 0..n /\ j \in 1..n
    OBVIOUS
  <2>3. next[k] = parts[k]
    BY <1>2
  <2> HIDE DEF next, last
  <2> QED
    BY <2>1, <2>2, <2>3
<1> HIDE DEF next
<1>9. ASSUME NEW i \in 0..n, NEW j \in 1..n, IsPart(text, separators, i, j)
      PROVE  \E k \in 1..(last - 1) : next[k] = Between(text, i, j)
  <2>1. i \in 0..(n - 1) /\ j \in 1..(n - 1)
    BY <1>5, <1>9
  <2>2. PICK k \in 1..(last - 1) : parts[k] = Between(text, i, j)
    BY <1>9, <2>1 DEF SplitAt
  <2> HIDE DEF last
  <2> QED
    BY <1>2, <2>2
<1>10. ASSUME NEW j \in 1..n, IsPart(text, separators, 0, j)
       PROVE  last > 1 /\ next[1] = Between(text, 0, j)
  <2>1. j \in 1..(n - 1)
    BY <1>5, <1>10
  <2>2. last > 1 /\ parts[1] = Between(text, 0, j)
    BY <1>10, <2>1 DEF SplitAt
  <2> QED
    BY <1>1, <1>2, <2>2
<1>11. Open(text, separators, 0, n) => last = 1
  BY <1>4 DEF SplitAt
<1>12. SplitAt(next, text, separators, n)
  <2> HIDE DEF last
  <2> QED
    BY <1>2, <1>7, <1>8, <1>9, <1>10, <1>11 DEF SplitAt
<1> QED
  BY <1>12 DEF next, Parted

(* What Split is: the parts between separators, the first of them first. *)
LEMMA SplitParts ==
  ASSUME NEW C, NEW text \in Seq(C), NEW separators
  PROVE  /\ Split(text, separators) \in Lists(C)
         /\ \A part \in Range(Split(text, separators)) :
              \E i \in 0..Len(text), j \in 1..(Len(text) + 1) :
                IsPart(text, separators, i, j) /\ part = Between(text, i, j)
         /\ \A i \in 0..Len(text), j \in 1..(Len(text) + 1) :
              IsPart(text, separators, i, j) => Between(text, i, j) \in Range(Split(text, separators))
         /\ \A j \in 1..(Len(text) + 1) :
              IsPart(text, separators, 0, j) => Split(text, separators)[1] = Between(text, 0, j)
<1> DEFINE len == Len(text)
           P == Parts(text, separators)
           Good == {n \in 0..len : SplitAt(P[n], text, separators, n)}
<1>1. /\ P[0] = <<<<>>>>
      /\ \A n \in 1..len : P[n] = Parted(P[n - 1], text[n], separators)
      /\ \A n \in 0..len : P[n] \in Lists(C)
  BY PartsStep
<1>2. len \in Nat
  OBVIOUS
<1> HIDE DEF P
<1>3. 0 \in Good
  <2>1. Open(text, separators, 0, 0) /\ \A i \in 0..0 : i = 0
    BY DEF Open
  <2>2. Between(text, 0, 1) = <<>>
    BY SubSeqEmpty DEF Between
  <2>3. Len(P[0]) = 1 /\ P[0][1] = <<>>
    BY <1>1
  <2>4. SplitAt(P[0], text, separators, 0)
    BY <2>1, <2>2, <2>3 DEF SplitAt
  <2> QED
    BY <1>2, <2>4
<1>4. ASSUME NEW n \in 1..len, n - 1 \in Good PROVE n \in Good
  <2>1. P[n - 1] \in Lists(C) /\ SplitAt(P[n - 1], text, separators, n - 1)
    BY <1>1, <1>4
  <2>2. CASE text[n] \in separators
    BY <1>1, <2>1, <2>2, SplitAtSeparator
  <2>3. CASE text[n] \notin separators
    BY <1>1, <2>1, <2>3, SplitAtOther
  <2> QED
    BY <2>2, <2>3
<1> DEFINE S == Split(text, separators)
<1>5. SplitAt(S, text, separators, len) /\ S \in Lists(C)
  <2> HIDE DEF Good
  <2>1. len \in Good
    BY <1>2, <1>3, <1>4, Induction
  <2> QED
    BY <1>1, <1>2, <2>1 DEF Good, Split, P
<1> HIDE DEF S
<1>6. Len(S) \in Nat /\ Len(S) >= 1 /\ Range(S) = {S[k] : k \in 1..Len(S)}
  BY <1>5 DEF Lists, Range
<1>7. \A i \in 0..len : IsPart(text, separators, i, len + 1) <=> Open(text, separators, i, len)
  BY <1>2 DEF IsPart
<1>8. PICK open \in 0..len : Open(text, separators, open, len) /\ S[Len(S)] = Between(text, open, len + 1)
  BY <1>5 DEF SplitAt
<1>9. ASSUME NEW part \in Range(S)
      PROVE  \E i \in 0..len, j \in 1..(len + 1) : IsPart(text, separators, i, j) /\ part = Between(text, i, j)
  <2>1. PICK k \in 1..Len(S) : part = S[k]
    BY <1>6
  <2>2. CASE k = Len(S)
    <3>1. len + 1 \in 1..(len + 1)
      BY <1>2
    <3> QED
      BY <1>7, <1>8, <2>1, <2>2, <3>1
  <2>3. CASE k # Len(S)
    <3>1. k \in 1..(Len(S) - 1)
      BY <1>6, <2>3
    <3>2. PICK i \in 0..len, j \in 1..len : IsPart(text, separators, i, j) /\ S[k] = Between(text, i, j)
      BY <1>5, <3>1 DEF SplitAt
    <3>3. j \in 1..(len + 1)
      BY <1>2
    <3> QED
      BY <2>1, <3>2, <3>3
  <2> QED
    BY <2>2, <2>3
<1>10. ASSUME NEW i \in 0..len, NEW j \in 1..(len + 1), IsPart(text, separators, i, j)
       PROVE  Between(text, i, j) \in Range(S)
  <2>1. CASE j = len + 1
    <3>1. i = open
      BY <1>2, <1>7, <1>8, <1>10, <2>1, OneOpen
    <3>2. Len(S) \in 1..Len(S)
      BY <1>6
    <3> QED
      BY <1>6, <1>8, <2>1, <3>1, <3>2
  <2>2. CASE j # len + 1
    <3>1. j \in 1..len
      BY <1>2, <2>2
    <3>2. PICK k \in 1..(Len(S) - 1) : S[k] = Between(text, i, j)
      BY <1>5, <1>10, <3>1 DEF SplitAt
    <3>3. k \in 1..Len(S)
      BY <1>6
    <3> QED
      BY <1>6, <3>2, <3>3
  <2> QED
    BY <2>1, <2>2
<1>11. ASSUME NEW j \in 1..(len + 1), IsPart(text, separators, 0, j)
       PROVE  S[1] = Between(text, 0, j)
  <2>1. CASE j = len + 1
    <3>1. 0 \in 0..len
      BY <1>2
    <3>2. Open(text, separators, 0, len)
      BY <1>7, <1>11, <2>1, <3>1
    <3>3. open = 0
      BY <1>2, <1>8, <3>1, <3>2, OneOpen
    <3>4. Len(S) = 1
      BY <1>5, <3>2 DEF SplitAt
    <3> QED
      BY <1>8, <2>1, <3>3, <3>4
  <2>2. CASE j # len + 1
    BY <1>2, <1>5, <1>11, <2>2 DEF SplitAt
  <2> QED
    BY <2>1, <2>2
<1> QED
  BY <1>5, <1>9, <1>10, <1>11 DEF S, len

(* Every part that starts somewhere ends somewhere. *)
LEMMA PartEnds ==
  ASSUME NEW C, NEW text \in Seq(C), NEW separators, NEW i \in 0..Len(text),
         i = 0 \/ text[i] \in separators
  PROVE  \E j \in (i + 1)..(Len(text) + 1) : IsPart(text, separators, i, j)
<1> DEFINE Ends == {j \in (i + 1)..(Len(text) + 1) : j = Len(text) + 1 \/ text[j] \in separators}
<1>1. Len(text) \in Nat /\ i \in Nat
  OBVIOUS
<1>2. Ends \in SUBSET Nat /\ Len(text) + 1 \in Ends
  BY <1>1
<1> HIDE DEF Ends
<1>3. PICK j \in Ends : \A k \in Ends : j <= k
  BY <1>2, LeastNumber
<1>4. j \in (i + 1)..(Len(text) + 1) /\ (j = Len(text) + 1 \/ text[j] \in separators)
  BY DEF Ends
<1>5. ASSUME NEW m \in (i + 1)..(j - 1) PROVE text[m] \notin separators
  <2>1. m \notin Ends
    BY <1>1, <1>3, <1>4
  <2>2. m \in (i + 1)..(Len(text) + 1)
    BY <1>1, <1>4
  <2> QED
    BY <2>1, <2>2 DEF Ends
<1>6. i \in 0..(j - 1)
  BY <1>1, <1>4
<1> QED
  BY <1>1, <1>4, <1>5, <1>6 DEF IsPart, Open

(* A part is a text of the same characters, and these are its characters. *)
LEMMA BetweenIs ==
  ASSUME NEW C, NEW text \in Seq(C), NEW i \in 0..Len(text), NEW j \in (i + 1)..(Len(text) + 1)
  PROVE  /\ Between(text, i, j) \in Seq(C)
         /\ Len(Between(text, i, j)) = j - 1 - i
         /\ \A k \in 1..(j - 1 - i) : Between(text, i, j)[k] = text[i + k]
BY DEF Between

(* First is the text before the first separator. *)
LEMMA FirstIs ==
  ASSUME NEW C, NEW text \in Seq(C), NEW separator
  PROVE  /\ First(text, separator) \in Seq(C)
         /\ \E j \in 1..(Len(text) + 1) :
              /\ First(text, separator) = Between(text, 0, j)
              /\ \A m \in 1..(j - 1) : text[m] # separator
              /\ j = Len(text) + 1 \/ text[j] = separator
<1>1. Len(text) \in Nat /\ 0 \in 0..Len(text)
  OBVIOUS
<1>2. PICK j \in 1..(Len(text) + 1) : IsPart(text, {separator}, 0, j)
  <2>1. \E j \in (0 + 1)..(Len(text) + 1) : IsPart(text, {separator}, 0, j)
    BY <1>1, PartEnds
  <2> QED
    BY <2>1
<1>3. First(text, separator) = Between(text, 0, j)
  BY <1>2, SplitParts DEF First
<1>4. Between(text, 0, j) \in Seq(C)
  BY <1>1, BetweenIs
<1>5. (\A m \in 1..(j - 1) : text[m] # separator) /\ (j = Len(text) + 1 \/ text[j] = separator)
  BY <1>2 DEF IsPart, Open
<1> QED
  BY <1>3, <1>4, <1>5

\* One or two dots, and then the end or parameters.
Dotted(segment) ==
  \E d \in 1..2 :
    /\ d <= Len(segment)
    /\ \A m \in 1..d : segment[m] = "."
    /\ Len(segment) = d \/ segment[d + 1] = ";"

(* It is what a segment that is dots without its parameters is. *)
LEMMA FirstDots ==
  ASSUME NEW segment \in Seq(Characters)
  PROVE  First(segment, ";") \in Dots <=> Dotted(segment)
<1>1. PICK j \in 1..(Len(segment) + 1) :
        /\ First(segment, ";") = Between(segment, 0, j)
        /\ \A m \in 1..(j - 1) : segment[m] # ";"
        /\ j = Len(segment) + 1 \/ segment[j] = ";"
  BY FirstIs
<1> DEFINE f == Between(segment, 0, j)
<1>2. Len(segment) \in Nat /\ j \in Nat
  OBVIOUS
<1>3. f \in Seq(Characters) /\ Len(f) = j - 1 /\ \A k \in 1..(j - 1) : f[k] = segment[k]
  BY <1>2 DEF Between
<1> HIDE DEF f
<1>4. ASSUME f \in Dots PROVE Dotted(segment)
  <2>1. Len(f) \in 1..2 /\ \A m \in 1..Len(f) : f[m] = "."
    BY <1>4 DEF Dots
  <2>2. j - 1 \in 1..2 /\ j - 1 <= Len(segment) /\ \A m \in 1..(j - 1) : segment[m] = "."
    BY <1>2, <1>3, <2>1
  <2>3. Len(segment) = j - 1 \/ segment[(j - 1) + 1] = ";"
    <3>1. (j - 1) + 1 = j
      BY <1>2
    <3>2. j = Len(segment) + 1 => Len(segment) = j - 1
      BY <1>2
    <3> QED
      BY <1>1, <3>1, <3>2
  <2> QED
    BY <2>2, <2>3 DEF Dotted
<1>5. ASSUME Dotted(segment) PROVE f \in Dots
  <2>1. PICK d \in 1..2 : /\ d <= Len(segment)
                          /\ \A m \in 1..d : segment[m] = "."
                          /\ Len(segment) = d \/ segment[d + 1] = ";"
    BY <1>5 DEF Dotted
  <2>2. ASSUME j <= d PROVE FALSE
    <3>1. d <= Len(segment) /\ d \in Nat
      <4>1. d <= Len(segment)
        BY <2>1, Zenon
      <4>2. d \in Nat
        OBVIOUS
      <4> QED
        BY <4>1, <4>2
    <3>2. j \in 1..d /\ j # Len(segment) + 1
      BY <1>2, <2>2, <3>1
    <3> QED
      BY <1>1, <2>1, <3>2
  <2>3. ASSUME j > d + 1 PROVE FALSE
    <3>1. d + 1 \in 1..(j - 1) /\ Len(segment) # d
      BY <1>2, <2>3
    <3> QED
      BY <1>1, <2>1, <3>1
  <2>4. j - 1 = d
    BY <1>2, <2>2, <2>3
  <2>5. Len(f) = d /\ \A k \in 1..d : f[k] = "."
    BY <1>3, <2>1, <2>4
  <2>6. CASE d = 1
    <3>1. f = <<".">>
      BY <1>3, <2>5, <2>6
    <3> QED
      BY <3>1 DEF Dots
  <2>7. CASE d = 2
    <3>1. f[1] = "." /\ f[2] = "." /\ Len(f) = 2
      BY <2>5, <2>7
    <3>2. f = <<".", ".">>
      BY <1>3, <3>1
    <3> QED
      BY <3>2 DEF Dots
  <2> QED
    BY <2>6, <2>7
<1> QED
  BY <1>1, <1>4, <1>5 DEF f

(* A segment that is nothing but dots is so without its parameters, too. *)
LEMMA DotsDotted ==
  ASSUME NEW segment \in Dots
  PROVE  Dotted(segment)
<1>1. CASE segment = <<".">>
  BY <1>1 DEF Dotted
<1>2. CASE segment = <<".", ".">>
  BY <1>2 DEF Dotted
<1> QED
  BY <1>1, <1>2 DEF Dots

BothSlashes == {"/", "\\"}

(* dot_segment finds what is dots between slashes of either kind. *)
LEMMA DotSegmentIs ==
  ASSUME NEW text \in Seq(Characters)
  PROVE  /\ HasDotSegment(text) => \E segment \in Range(Split(text, BothSlashes)) :
                                     segment \in Seq(Characters) /\ First(segment, ";") \in Dots
         /\ ~ HasDotSegment(text) =>
              \A i \in 0..Len(text), j \in 1..(Len(text) + 1) :
                IsPart(text, BothSlashes, i, j) => ~ Dotted(Between(text, i, j))
<1>1. Split(text, BothSlashes) \in Seq(Seq(Characters))
  BY SplitParts DEF Lists
<1>2. \A segment \in Range(Split(text, BothSlashes)) : segment \in Seq(Characters)
  BY <1>1 DEF Range
<1>3. \A i \in 0..Len(text), j \in 1..(Len(text) + 1) :
        IsPart(text, BothSlashes, i, j) => Between(text, i, j) \in Range(Split(text, BothSlashes))
  BY SplitParts
<1> QED
  BY <1>2, <1>3, FirstDots DEF HasDotSegment, BothSlashes

(* Where dot_segment finds nothing, no upstream sees a segment of dots: one that ends only
   at a slash starts with one that ends at a backslash, too, and the dots come first. *)
LEMMA NoDotsSeen ==
  ASSUME NEW text \in Seq(Characters), ~ HasDotSegment(text),
         NEW slashes \in Slashes, NEW segment \in Range(Split(text, slashes))
  PROVE  ~ Dotted(segment)
<1>1. PICK i \in 0..Len(text), j \in 1..(Len(text) + 1) :
        IsPart(text, slashes, i, j) /\ segment = Between(text, i, j)
  BY SplitParts
<1>2. Len(text) \in Nat /\ i \in Nat /\ j \in Nat /\ slashes \subseteq BothSlashes /\ "/" \in slashes
  BY DEF Slashes, BothSlashes
<1>3. i = 0 \/ text[i] \in BothSlashes
  BY <1>1, <1>2 DEF IsPart, Open
<1>4. PICK end \in (i + 1)..(Len(text) + 1) : IsPart(text, BothSlashes, i, end)
  BY <1>3, PartEnds
<1>5. end \in 1..(Len(text) + 1) /\ ~ Dotted(Between(text, i, end))
  <2>1. end \in 1..(Len(text) + 1)
    BY <1>2, <1>4
  <2> QED
    BY <1>4, <2>1, DotSegmentIs
<1>6. i < j /\ (j = Len(text) + 1 \/ text[j] \in BothSlashes)
  BY <1>1, <1>2 DEF IsPart, Open
<1>7. end <= j
  <2> SUFFICES ASSUME j < end PROVE FALSE
    BY <1>2, <1>4
  <2>1. j \in (i + 1)..(end - 1) /\ j # Len(text) + 1
    BY <1>2, <1>4, <1>6
  <2> QED
    BY <1>4, <1>6, <2>1 DEF IsPart, Open
<1> DEFINE short == Between(text, i, end)
<1>8. Len(short) = end - 1 - i /\ \A k \in 1..(end - 1 - i) : short[k] = text[i + k]
  BY <1>4, BetweenIs
<1>9. Len(segment) = j - 1 - i /\ \A k \in 1..(j - 1 - i) : segment[k] = text[i + k]
  <2>1. j \in (i + 1)..(Len(text) + 1)
    BY <1>2, <1>6
  <2> QED
    BY <1>1, <2>1, BetweenIs
<1>10. ASSUME Dotted(segment) PROVE Dotted(short)
  <2>1. PICK d \in 1..2 : /\ d <= Len(segment)
                          /\ \A m \in 1..d : segment[m] = "."
                          /\ Len(segment) = d \/ segment[d + 1] = ";"
    BY <1>10 DEF Dotted
  <2>2. d \in Nat /\ d <= j - 1 - i
    <3>1. d <= Len(segment)
      BY <2>1, Zenon
    <3>2. d \in Nat
      OBVIOUS
    <3> QED
      BY <1>9, <3>1, <3>2
  <2>3. end = Len(text) + 1 \/ text[end] \in BothSlashes
    BY <1>4 DEF IsPart
  <2>4. ASSUME NEW m \in 1..d PROVE text[i + m] = "."
    <3>1. m \in 1..(j - 1 - i)
      BY <1>2, <2>2
    <3> QED
      BY <1>9, <2>1, <3>1
  <2>5. ~ (end <= i + d)
    <3> SUFFICES ASSUME end <= i + d PROVE FALSE
      OBVIOUS
    <3>1. end - i \in 1..d /\ i + (end - i) = end
      BY <1>2, <1>4
    <3>2. text[end] = "."
      BY <2>4, <3>1
    <3>3. end # Len(text) + 1
      BY <1>2, <2>2
    <3> QED
      BY <2>3, <3>2, <3>3 DEF BothSlashes
  <2>6. d <= Len(short) /\ \A m \in 1..d : short[m] = "."
    <3>1. end \in Nat /\ d <= end - 1 - i
      BY <1>2, <1>4, <2>2, <2>5
    <3>2. \A m \in 1..d : m \in 1..(end - 1 - i)
      BY <1>2, <2>2, <3>1
    <3> HIDE DEF short
    <3>3. d <= Len(short)
      BY <1>8, <3>1
    <3> QED
      BY <1>8, <2>4, <3>2, <3>3
  <2>7. Len(short) = d \/ short[d + 1] = ";"
    <3>1. CASE end = i + d + 1
      BY <1>2, <1>8, <3>1
    <3>2. CASE end # i + d + 1
      <4>1. i + d + 1 < end /\ Len(segment) # d
        BY <1>2, <1>4, <1>7, <1>9, <2>2, <2>5, <3>2
      <4>2. d + 1 \in 1..(end - 1 - i) /\ d + 1 \in 1..(j - 1 - i)
        BY <1>2, <1>4, <1>7, <4>1
      <4> QED
        BY <1>8, <1>9, <2>1, <4>1, <4>2
    <3> QED
      BY <3>1, <3>2
  <2> QED
    BY <2>6, <2>7 DEF Dotted
<1> QED
  BY <1>5, <1>10 DEF short

-----------------------------------------------------------------------------
(* Resolving *)

(* One more segment leaves a list of segments one, at most one longer, and a dot segment
   makes it no longer. *)
LEMMA KeptIs ==
  ASSUME NEW S, NEW kept \in Seq(S), NEW segment \in S
  PROVE  /\ Kept(kept, segment) \in Seq(S)
         /\ segment \notin Dots => Kept(kept, segment) = Append(kept, segment)
         /\ segment \in Dots => Len(Kept(kept, segment)) <= Len(kept)
         /\ Len(Kept(kept, segment)) <= Len(kept) + 1
<1>1. CASE segment = <<".">>
  <2>1. Kept(kept, segment) = kept
    BY <1>1 DEF Kept
  <2> QED
    BY <1>1, <2>1 DEF Dots
<1>2. CASE segment # <<".">> /\ segment = <<".", ".">>
  <2>1. Kept(kept, segment) = IF kept = <<>> THEN kept ELSE Front(kept)
    BY <1>2, Zenon DEF Kept
  <2>2. segment \in Dots
    BY <1>2 DEF Dots
  <2>3. CASE kept = <<>>
    <3>1. Kept(kept, segment) = kept
      BY <2>1, <2>3, Zenon
    <3> QED
      BY <2>2, <3>1
  <2>4. CASE kept # <<>>
    <3>1. Kept(kept, segment) = Front(kept)
      BY <2>1, <2>4, Zenon
    <3>2. Len(kept) \in Nat /\ Len(kept) >= 1
      BY <2>4
    <3>3. Front(kept) \in Seq(S) /\ Len(Front(kept)) = Len(kept) - 1
      <4> DEFINE n == Len(kept) - 1
      <4>1. n \in Nat /\ 1 \in Int /\ \A i \in 1..n : kept[i] \in S
        BY <3>2
      <4> HIDE DEF n
      <4>2. SubSeq(kept, 1, n) \in Seq(S) /\ Len(SubSeq(kept, 1, n)) = n
        BY <4>1
      <4> QED
        BY <4>2 DEF Front, n
    <3> QED
      BY <2>2, <3>1, <3>2, <3>3
  <2> QED
    BY <2>3, <2>4
<1>3. CASE segment # <<".">> /\ segment # <<".", ".">>
  <2>1. Kept(kept, segment) = Append(kept, segment)
    BY <1>3, Zenon DEF Kept
  <2> QED
    BY <1>3, <2>1 DEF Dots
<1> QED
  BY <1>1, <1>2, <1>3

(* Resolved is what its equation says. *)
LEMMA ResolvedStep ==
  ASSUME NEW S, NEW segments \in Seq(S)
  PROVE  /\ Resolved(segments)[0] = <<>>
         /\ \A n \in 1..Len(segments) :
              Resolved(segments)[n] = Kept(Resolved(segments)[n - 1], segments[n])
         /\ \A n \in 0..Len(segments) : Resolved(segments)[n] \in Seq(S)
<1> DEFINE N == Seq(S)
           base == <<>>
           len == Len(segments)
           P == Resolved(segments)
           step == [x \in (1..len) \X N |-> Kept(x[2], segments[x[1]])]
           Eq(g) == g = [k \in 0..len |-> IF k = 0 THEN base ELSE Kept(g[k - 1], segments[k])]
<1>1. base \in N /\ len \in Nat /\ \A k \in 1..len : segments[k] \in S
  OBVIOUS
<1>2. Steps(step, len, N)
  BY <1>1, KeptIs DEF Steps
<1>3. \A k \in 1..len, v \in N : step[<<k, v>>] = Kept(v, segments[k])
  OBVIOUS
<1>4. P = CHOOSE g : Eq(g)
  BY DEF Resolved
<1> HIDE DEF step, N, len, P, base
<1>5. PICK f : Solves(f, len, N, base, step)
  BY <1>1, <1>2, Recursion
<1>6. f \in [0..len -> N] /\ f[0] = base /\ \A k \in 1..len : f[k] = step[<<k, f[k - 1]>>]
  BY <1>5 DEF Solves
<1>7. Eq(f)
  <2>1. ASSUME NEW k \in 0..len PROVE f[k] = IF k = 0 THEN base ELSE Kept(f[k - 1], segments[k])
    <3>1. CASE k = 0
      BY <1>6, <3>1
    <3>2. CASE k # 0
      <4>1. k \in 1..len /\ k - 1 \in 0..len
        BY <1>1, <3>2
      <4>2. f[k - 1] \in N
        BY <1>6, <4>1
      <4> QED
        BY <1>3, <1>6, <3>2, <4>1, <4>2
    <3> QED
      BY <3>1, <3>2
  <2>2. f = [k \in 0..len |-> f[k]]
    BY <1>6
  <2> QED
    BY <2>1, <2>2
<1> HIDE DEF Eq
<1>8. Eq(P)
  BY <1>4, <1>7, Zenon
<1>9. P[0] = base /\ \A k \in 1..len : P[k] = Kept(P[k - 1], segments[k])
  <2>1. P[0] = base
    BY <1>1, <1>8 DEF Eq
  <2>2. ASSUME NEW k \in 1..len PROVE P[k] = Kept(P[k - 1], segments[k])
    <3>1. k \in 0..len /\ k # 0
      BY <1>1
    <3> QED
      BY <1>8, <3>1 DEF Eq
  <2> QED
    BY <2>1, <2>2
<1> DEFINE Good == {k \in 0..len : P[k] \in N}
<1>10. 0 \in Good
  BY <1>1, <1>9
<1>11. ASSUME NEW k \in 1..len, k - 1 \in Good PROVE k \in Good
  <2>1. k \in 0..len /\ P[k - 1] \in N /\ segments[k] \in S
    BY <1>1, <1>11
  <2>2. Kept(P[k - 1], segments[k]) \in N
    BY <2>1, KeptIs DEF N
  <2> QED
    BY <1>9, <2>1, <2>2
<1> HIDE DEF Good
<1>12. \A k \in 0..len : k \in Good
  BY <1>1, <1>10, <1>11, Induction
<1> QED
  BY <1>9, <1>12 DEF Good, P, N, len, base

(* Without a dot segment nothing is removed; with one the path gets shorter. *)
LEMMA ResolveIs ==
  ASSUME NEW S, NEW segments \in Seq(S)
  PROVE  Resolve(segments) = segments <=> \A i \in 1..Len(segments) : segments[i] \notin Dots
<1> DEFINE len == Len(segments)
           P == Resolved(segments)
           Whole(n) == Len(P[n]) = n /\ \A i \in 1..n : P[n][i] = segments[i] /\ segments[i] \notin Dots
           Less(n) == Len(P[n]) < n /\ \E i \in 1..n : segments[i] \in Dots
           Good == {n \in 0..len : Whole(n) \/ Less(n)}
<1>1. /\ P[0] = <<>>
      /\ \A n \in 1..len : P[n] = Kept(P[n - 1], segments[n])
      /\ \A n \in 0..len : P[n] \in Seq(S)
  BY ResolvedStep
<1>2. len \in Nat /\ \A n \in 1..len : segments[n] \in S
  OBVIOUS
<1>3. Resolve(segments) = P[len]
  BY DEF Resolve
<1> HIDE DEF P
<1>4. 0 \in Good
  <2>1. Whole(0)
    BY <1>1
  <2> QED
    BY <1>2, <2>1
<1>5. ASSUME NEW n \in 1..len, n - 1 \in Good PROVE n \in Good
  <2> DEFINE kept == P[n - 1]
             segment == segments[n]
  <2>1. P[n] = Kept(kept, segment) /\ kept \in Seq(S) /\ segment \in S
    BY <1>1, <1>2
  <2> HIDE DEF kept, segment
  <2>2. /\ P[n] \in Seq(S)
        /\ segment \notin Dots => P[n] = Append(kept, segment)
        /\ segment \in Dots => Len(P[n]) <= Len(kept)
        /\ Len(P[n]) <= Len(kept) + 1
    BY <2>1, KeptIs
  <2>3. Len(kept) \in Nat /\ Len(P[n]) \in Nat
    BY <2>1, <2>2
  <2>4. CASE Whole(n - 1)
    <3>1. Len(kept) = n - 1 /\ \A i \in 1..(n - 1) : kept[i] = segments[i] /\ segments[i] \notin Dots
      BY <2>4 DEF kept
    <3>2. CASE segment \in Dots
      <4>1. Len(P[n]) < n
        BY <2>2, <2>3, <3>1, <3>2
      <4> QED
        BY <3>2, <4>1 DEF segment
    <3>3. CASE segment \notin Dots
      <4>1. P[n] = Append(kept, segment)
        BY <2>2, <3>3
      <4>2. Len(P[n]) = n
        BY <2>1, <3>1, <4>1
      <4>3. ASSUME NEW i \in 1..n PROVE P[n][i] = segments[i] /\ segments[i] \notin Dots
        <5>1. CASE i = n
          BY <2>1, <3>1, <3>3, <4>1, <5>1 DEF segment
        <5>2. CASE i # n
          <6>1. i \in 1..(n - 1)
            BY <5>2
          <6> QED
            BY <2>1, <3>1, <4>1, <6>1
        <5> QED
          BY <5>1, <5>2
      <4> QED
        BY <4>2, <4>3
    <3> QED
      BY <3>2, <3>3
  <2>5. CASE Less(n - 1)
    <3>1. Len(kept) < n - 1
      BY <2>5 DEF kept
    <3>2. Len(P[n]) < n
      BY <2>2, <2>3, <3>1
    <3>3. PICK i \in 1..(n - 1) : segments[i] \in Dots
      BY <2>5
    <3>4. i \in 1..n
      OBVIOUS
    <3> QED
      BY <3>2, <3>3, <3>4
  <2> QED
    BY <1>5, <2>4, <2>5
<1> HIDE DEF Good
<1>6. Whole(len) \/ Less(len)
  <2> HIDE DEF len
  <2>1. \A k \in 1..len : k - 1 \in Good => k \in Good
    BY <1>5
  <2>2. len \in Nat
    BY <1>2
  <2>3. \A k \in 0..len : k \in Good
    BY <1>4, <2>1, <2>2, Induction
  <2> QED
    BY <2>2, <2>3 DEF Good
<1>7. CASE Whole(len)
  <2>1. P[len] = segments
    BY <1>1, <1>2, <1>7, SeqEqual
  <2> QED
    BY <1>3, <1>7, <2>1
<1>8. CASE Less(len)
  <2>1. P[len] # segments
    BY <1>2, <1>8
  <2> QED
    BY <1>3, <1>8, <2>1
<1> QED
  BY <1>6, <1>7, <1>8

(* A function on the numbers up to n is a sequence. *)
LEMMA FunctionIsSeq ==
  ASSUME NEW S, NEW n \in Nat, NEW f \in [1..n -> S]
  PROVE  f \in Seq(S) /\ Len(f) = n
<1>1. f \in Seq(S)
  BY SeqDef
<1>2. DOMAIN f = 1..Len(f) /\ Len(f) \in Nat
  BY <1>1, LenProperties
<1>3. DOMAIN f = 1..n
  OBVIOUS
<1>4. Len(f) = n
  <2> DEFINE len == Len(f)
  <2>1. 1..len = 1..n /\ len \in Nat
    BY <1>2, <1>3
  <2> HIDE DEF len
  <2>2. len = n
    <3>1. CASE len < n
      <4>1. n \in 1..n /\ n \notin 1..len
        BY <2>1, <3>1
      <4> QED
        BY <2>1, <4>1
    <3>2. CASE n < len
      <4>1. len \in 1..len /\ len \notin 1..n
        BY <2>1, <3>2
      <4> QED
        BY <2>1, <4>1
    <3> QED
      BY <2>1, <3>1, <3>2
  <2> QED
    BY <2>2 DEF len
<1> QED
  BY <1>1, <1>4

(* A path means what it says for every upstream just where dot_segment finds nothing in
   it: nothing is missed, and what is found one of them resolves. *)
THEOREM DotSegmentsAreWhatMatters ==
  ASSUME NEW text \in Seq(Characters)
  PROVE  MeansItself(text) <=> ~ HasDotSegment(text)
<1>1. ASSUME NEW slashes
      PROVE  /\ Split(text, slashes) \in Seq(Seq(Characters))
             /\ Range(Split(text, slashes)) = {Split(text, slashes)[i] : i \in 1..Len(Split(text, slashes))}
  <2>1. Split(text, slashes) \in Seq(Seq(Characters))
    BY SplitParts DEF Lists
  <2> QED
    BY <2>1 DEF Range
<1>2. ASSUME NEW slashes
      PROVE  /\ Seen(text, slashes, TRUE) \in Seq(Seq(Characters))
             /\ Len(Seen(text, slashes, TRUE)) = Len(Split(text, slashes))
             /\ \A i \in 1..Len(Split(text, slashes)) :
                  Seen(text, slashes, TRUE)[i] = First(Split(text, slashes)[i], ";")
             /\ Seen(text, slashes, FALSE) = Split(text, slashes)
  <2> DEFINE segments == Split(text, slashes)
             firsts == [i \in 1..Len(segments) |-> First(segments[i], ";")]
  <2>1. segments \in Seq(Seq(Characters)) /\ DOMAIN segments = 1..Len(segments) /\ Len(segments) \in Nat
    BY <1>1
  <2>2. Seen(text, slashes, TRUE) = firsts /\ Seen(text, slashes, FALSE) = segments
    BY <2>1 DEF Seen
  <2> HIDE DEF segments
  <2>3. ASSUME NEW i \in 1..Len(segments) PROVE First(segments[i], ";") \in Seq(Characters)
    <3>1. segments[i] \in Seq(Characters)
      BY <2>1
    <3> QED
      BY <3>1, FirstIs
  <2>4. firsts \in [1..Len(segments) -> Seq(Characters)] /\ \A i \in 1..Len(segments) : firsts[i] = First(segments[i], ";")
    BY <2>3
  <2> HIDE DEF firsts
  <2>5. firsts \in Seq(Seq(Characters)) /\ Len(firsts) = Len(segments)
    BY <2>1, <2>4, FunctionIsSeq
  <2> QED
    BY <2>2, <2>4, <2>5 DEF segments
<1>3. ASSUME ~ HasDotSegment(text), NEW slashes \in Slashes, NEW strips \in BOOLEAN
      PROVE  Resolve(Seen(text, slashes, strips)) = Seen(text, slashes, strips)
  <2> DEFINE segments == Split(text, slashes)
  <2>1. ASSUME NEW i \in 1..Len(segments) PROVE segments[i] \notin Dots /\ First(segments[i], ";") \notin Dots
    <3>1. segments[i] \in Range(segments) /\ segments[i] \in Seq(Characters)
      BY <1>1
    <3>2. ~ Dotted(segments[i])
      BY <1>3, <3>1, NoDotsSeen
    <3> QED
      BY <3>1, <3>2, FirstDots, DotsDotted
  <2> HIDE DEF segments
  <2>2. CASE strips = TRUE
    <3>1. \A i \in 1..Len(Seen(text, slashes, TRUE)) : Seen(text, slashes, TRUE)[i] \notin Dots
      BY <1>2, <2>1 DEF segments
    <3> QED
      BY <1>2, <2>2, <3>1, ResolveIs
  <2>3. CASE strips = FALSE
    <3>1. Resolve(segments) = segments
      BY <1>1, <2>1, ResolveIs DEF segments
    <3> QED
      BY <1>2, <2>3, <3>1 DEF segments
  <2> QED
    BY <2>2, <2>3
<1>4. ASSUME HasDotSegment(text), MeansItself(text) PROVE FALSE
  <2> DEFINE segments == Split(text, BothSlashes)
             seen == Seen(text, BothSlashes, TRUE)
  <2>1. PICK segment \in Range(segments) : First(segment, ";") \in Dots
    BY <1>4, DotSegmentIs
  <2>2. PICK i \in 1..Len(segments) : segment = segments[i]
    BY <1>1
  <2>3. seen \in Seq(Seq(Characters)) /\ i \in 1..Len(seen) /\ seen[i] \in Dots
    BY <1>2, <2>1, <2>2
  <2>4. Resolve(seen) = seen
    BY <1>4 DEF MeansItself, Slashes, BothSlashes
  <2> HIDE DEF seen
  <2> QED
    BY <2>3, <2>4, ResolveIs
<1> QED
  BY <1>3, <1>4 DEF MeansItself

-----------------------------------------------------------------------------
(* Decoding *)

\* What comes out of a decode pass.
Bytes == Characters \cup {"malformed", "high-byte"}

\* The variables of its loop.
Loops == [next : Nat, out : Seq(Bytes)]

(* An escape gives one byte or mark, and one that is cut off is malformed. *)
LEMMA EscapeIs ==
  ASSUME NEW text \in Seq(Characters), NEW i \in 1..Len(text)
  PROVE  /\ Escape(text, i) \in Bytes
         /\ i + 2 > Len(text) => Escape(text, i) = "malformed"
<1>1. \A high, low \in HexDigits : Byte(high, low) \in Characters \cup {"high-byte"}
  <2> SUFFICES ASSUME NEW high \in HexDigits, NEW low \in HexDigits
               PROVE  Byte(high, low) \in Characters \cup {"high-byte"}
    OBVIOUS
  <2> QED
    BY DEF Byte, HexDigits, Characters
<1>2. CASE i + 2 <= Len(text) /\ {text[i + 1], text[i + 2]} \subseteq HexDigits
  <2>1. Escape(text, i) = Byte(text[i + 1], text[i + 2])
    BY <1>2 DEF Escape
  <2> QED
    BY <1>1, <1>2, <2>1 DEF Bytes
<1>3. CASE ~ (i + 2 <= Len(text) /\ {text[i + 1], text[i + 2]} \subseteq HexDigits)
  <2>1. Escape(text, i) = "malformed"
    BY <1>3 DEF Escape
  <2> QED
    BY <1>3, <2>1 DEF Bytes
<1> QED
  BY <1>2, <1>3

(* One turn of the loop, by its cases. *)
LEMMA PushedIs ==
  ASSUME NEW text \in Seq(Characters), NEW i \in 1..Len(text), NEW loop \in Loops
  PROVE  /\ Pushed(text, loop, i) \in Loops
         /\ i < loop.next => Pushed(text, loop, i) = loop
         /\ i >= loop.next /\ text[i] # "%" =>
              Pushed(text, loop, i) = [next |-> i + 1, out |-> Append(loop.out, text[i])]
         /\ i >= loop.next /\ text[i] = "%" =>
              Pushed(text, loop, i) = [next |-> i + 3, out |-> Append(loop.out, Escape(text, i))]
<1>1. loop.next \in Nat /\ loop.out \in Seq(Bytes) /\ i \in Nat /\ text[i] \in Bytes /\ Escape(text, i) \in Bytes
  BY EscapeIs DEF Loops, Bytes
<1>2. CASE i < loop.next
  <2>1. ~ (i >= loop.next)
    BY <1>1, <1>2
  <2>2. Pushed(text, loop, i) = loop
    BY <1>2, <2>1, Zenon DEF Pushed
  <2> QED
    BY <2>1, <2>2
<1>3. CASE ~ (i < loop.next) /\ text[i] # "%"
  <2>1. i >= loop.next
    BY <1>1, <1>3
  <2>2. Pushed(text, loop, i) = [next |-> i + 1, out |-> Append(loop.out, text[i])]
    BY <1>3, <2>1, Zenon DEF Pushed
  <2>3. i + 1 \in Nat /\ Append(loop.out, text[i]) \in Seq(Bytes)
    BY <1>1
  <2> QED
    BY <1>3, <2>2, <2>3 DEF Loops
<1>4. CASE ~ (i < loop.next) /\ text[i] = "%"
  <2>1. i >= loop.next
    BY <1>1, <1>4
  <2>2. Pushed(text, loop, i) = [next |-> i + 3, out |-> Append(loop.out, Escape(text, i))]
    BY <1>4, <2>1, Zenon DEF Pushed
  <2>3. i + 3 \in Nat /\ Append(loop.out, Escape(text, i)) \in Seq(Bytes)
    BY <1>1
  <2> QED
    BY <1>4, <2>2, <2>3 DEF Loops
<1> QED
  BY <1>2, <1>3, <1>4

(* Loop is what its equation says. *)
LEMMA LoopStep ==
  ASSUME NEW text \in Seq(Characters)
  PROVE  /\ Loop(text)[0] = [next |-> 1, out |-> <<>>]
         /\ \A n \in 1..Len(text) : Loop(text)[n] = Pushed(text, Loop(text)[n - 1], n)
         /\ \A n \in 0..Len(text) : Loop(text)[n] \in Loops
<1> DEFINE base == [next |-> 1, out |-> <<>>]
           len == Len(text)
           P == Loop(text)
           step == [x \in (1..len) \X Loops |-> Pushed(text, x[2], x[1])]
           Eq(g) == g = [k \in 0..len |-> IF k = 0 THEN base ELSE Pushed(text, g[k - 1], k)]
<1>1. base \in Loops /\ len \in Nat
  BY DEF Loops
<1>2. Steps(step, len, Loops)
  BY <1>1, PushedIs DEF Steps
<1>3. \A k \in 1..len, v \in Loops : step[<<k, v>>] = Pushed(text, v, k)
  OBVIOUS
<1>4. P = CHOOSE g : Eq(g)
  BY DEF Loop
<1> HIDE DEF step, len, P, base
<1>5. PICK f : Solves(f, len, Loops, base, step)
  BY <1>1, <1>2, Recursion
<1>6. f \in [0..len -> Loops] /\ f[0] = base /\ \A k \in 1..len : f[k] = step[<<k, f[k - 1]>>]
  BY <1>5 DEF Solves
<1>7. Eq(f)
  <2>1. ASSUME NEW k \in 0..len PROVE f[k] = IF k = 0 THEN base ELSE Pushed(text, f[k - 1], k)
    <3>1. CASE k = 0
      BY <1>6, <3>1
    <3>2. CASE k # 0
      <4>1. k \in 1..len /\ k - 1 \in 0..len
        BY <1>1, <3>2
      <4>2. f[k - 1] \in Loops
        BY <1>6, <4>1
      <4> QED
        BY <1>3, <1>6, <3>2, <4>1, <4>2
    <3> QED
      BY <3>1, <3>2
  <2>2. f = [k \in 0..len |-> f[k]]
    BY <1>6
  <2> QED
    BY <2>1, <2>2
<1> HIDE DEF Eq
<1>8. Eq(P)
  BY <1>4, <1>7, Zenon
<1>9. P[0] = base /\ \A k \in 1..len : P[k] = Pushed(text, P[k - 1], k)
  <2>1. P[0] = base
    BY <1>1, <1>8 DEF Eq
  <2>2. ASSUME NEW k \in 1..len PROVE P[k] = Pushed(text, P[k - 1], k)
    <3>1. k \in 0..len /\ k # 0
      BY <1>1
    <3> QED
      BY <1>8, <3>1 DEF Eq
  <2> QED
    BY <2>1, <2>2
<1> DEFINE Good == {k \in 0..len : P[k] \in Loops}
<1>10. 0 \in Good
  BY <1>1, <1>9
<1>11. ASSUME NEW k \in 1..len, k - 1 \in Good PROVE k \in Good
  <2>1. k \in 0..len /\ P[k - 1] \in Loops /\ k \in 1..Len(text)
    BY <1>1, <1>11 DEF len
  <2>2. Pushed(text, P[k - 1], k) \in Loops
    BY <2>1, PushedIs
  <2> QED
    BY <1>9, <2>1, <2>2
<1> HIDE DEF Good
<1>12. \A k \in 0..len : k \in Good
  BY <1>1, <1>10, <1>11, Induction
<1> QED
  BY <1>9, <1>12 DEF Good, P, len, base

\* How far the loop has come behind i: up to the first escape everything is copied, and from
\* then on what has come out is shorter than what was read; what has read too much has
\* said so.
LoopAt(loop, text, i) ==
  /\ loop.next >= i + 1
  /\ \/ /\ loop.next = i + 1
        /\ Len(loop.out) = i
        /\ \A m \in 1..i : loop.out[m] = text[m] /\ text[m] # "%"
     \/ /\ Len(loop.out) <= loop.next - 3
        /\ \E m \in 1..i : text[m] = "%"
  /\ loop.next <= Len(text) + 1 \/ Contains(loop.out, "malformed")

(* Each turn keeps it. *)
LEMMA LoopAtPushed ==
  ASSUME NEW text \in Seq(Characters), NEW i \in 1..Len(text), NEW loop \in Loops,
         LoopAt(loop, text, i - 1)
  PROVE  LoopAt(Pushed(text, loop, i), text, i)
<1> DEFINE next == loop.next
           out == loop.out
<1>1. next \in Nat /\ out \in Seq(Bytes) /\ Len(out) \in Nat /\ i \in Nat /\ Len(text) \in Nat
      /\ text[i] \in Bytes /\ Escape(text, i) \in Bytes
  BY EscapeIs DEF Loops, Bytes
<1>2. next >= i /\ (next <= Len(text) + 1 \/ Contains(out, "malformed"))
  BY DEF LoopAt
<1>3. \/ next = i /\ Len(out) = i - 1 /\ \A m \in 1..(i - 1) : out[m] = text[m] /\ text[m] # "%"
      \/ Len(out) <= next - 3 /\ \E m \in 1..(i - 1) : text[m] = "%"
  BY DEF LoopAt
<1>4. (\E m \in 1..(i - 1) : text[m] = "%") => \E m \in 1..i : text[m] = "%"
  OBVIOUS
<1>5. ASSUME NEW byte \in Bytes
      PROVE  /\ Append(out, byte) \in Seq(Bytes)
             /\ Len(Append(out, byte)) = Len(out) + 1
             /\ \A m \in 1..Len(out) : Append(out, byte)[m] = out[m]
             /\ Append(out, byte)[Len(out) + 1] = byte
             /\ Contains(out, "malformed") => Contains(Append(out, byte), "malformed")
  <2> HIDE DEF out
  <2>1. /\ Append(out, byte) \in Seq(Bytes)
        /\ Len(Append(out, byte)) = Len(out) + 1
        /\ \A m \in 1..Len(out) : Append(out, byte)[m] = out[m]
        /\ Append(out, byte)[Len(out) + 1] = byte
    BY <1>1
  <2>2. \A m \in 1..Len(out) : m \in 1..(Len(out) + 1)
    BY <1>1
  <2> QED
    BY <2>1, <2>2 DEF Contains
<1> HIDE DEF next, out
<1>6. CASE i < next
  <2>1. Pushed(text, loop, i) = loop
    BY <1>6, PushedIs DEF next
  <2>2. Len(out) <= next - 3 /\ \E m \in 1..i : text[m] = "%"
    BY <1>1, <1>3, <1>4, <1>6
  <2>3. next >= i + 1
    BY <1>1, <1>6
  <2> QED
    BY <1>2, <2>1, <2>2, <2>3 DEF LoopAt, next, out
<1>7. CASE ~ (i < next) /\ text[i] # "%"
  <2>1. i = next /\ i <= Len(text)
    BY <1>1, <1>2, <1>7
  <2> DEFINE after == [next |-> i + 1, out |-> Append(out, text[i])]
  <2>2. Pushed(text, loop, i) = after
    <3>1. i >= loop.next
      BY <1>1, <2>1 DEF next
    <3> QED
      BY <1>7, <3>1, PushedIs DEF out
  <2>3. after.next >= i + 1 /\ after.next = i + 1 /\ after.next <= Len(text) + 1
    BY <1>1, <2>1
  <2>4. after.out = Append(out, text[i]) /\ Len(after.out) = Len(out) + 1
    BY <1>1, <1>5
  <2>5. CASE Len(out) = i - 1 /\ \A m \in 1..(i - 1) : out[m] = text[m] /\ text[m] # "%"
    <3>1. Len(after.out) = i
      BY <1>1, <2>4, <2>5
    <3>2. ASSUME NEW m \in 1..i PROVE after.out[m] = text[m] /\ text[m] # "%"
      <4>1. CASE m = i
        <5>1. Append(out, text[i])[Len(out) + 1] = text[i] /\ Len(out) + 1 = i
          BY <1>1, <1>5, <2>5
        <5> QED
          BY <1>7, <2>4, <4>1, <5>1
      <4>2. CASE m # i
        <5>1. m \in 1..(i - 1) /\ m \in 1..Len(out)
          BY <1>1, <2>5, <4>2
        <5>2. Append(out, text[i])[m] = out[m]
          BY <1>1, <1>5, <5>1
        <5> QED
          BY <2>4, <2>5, <5>1, <5>2
      <4> QED
        BY <4>1, <4>2
    <3> HIDE DEF after
    <3> QED
      BY <2>2, <2>3, <3>1, <3>2 DEF LoopAt
  <2>6. CASE Len(out) <= next - 3 /\ \E m \in 1..(i - 1) : text[m] = "%"
    <3>1. Len(after.out) <= after.next - 3
      BY <1>1, <2>1, <2>3, <2>4, <2>6
    <3>2. \E m \in 1..i : text[m] = "%"
      BY <1>4, <2>6
    <3> HIDE DEF after
    <3> QED
      BY <2>2, <2>3, <3>1, <3>2 DEF LoopAt
  <2> QED
    BY <1>3, <2>5, <2>6
<1>8. CASE ~ (i < next) /\ text[i] = "%"
  <2>1. i = next /\ i <= Len(text)
    BY <1>1, <1>2, <1>8
  <2> DEFINE after == [next |-> i + 3, out |-> Append(out, Escape(text, i))]
  <2>2. Pushed(text, loop, i) = after
    <3>1. i >= loop.next
      BY <1>1, <2>1 DEF next
    <3> QED
      BY <1>8, <3>1, PushedIs DEF out
  <2>3. after.next >= i + 1 /\ after.next = i + 3
    BY <1>1
  <2>4. after.out = Append(out, Escape(text, i)) /\ Len(after.out) = Len(out) + 1
    BY <1>1, <1>5
  <2>5. Len(out) <= i - 1
    BY <1>1, <1>3, <2>1
  <2>6. Len(after.out) <= after.next - 3
    BY <1>1, <2>3, <2>4, <2>5
  <2>7. \E m \in 1..i : text[m] = "%"
    <3>1. i \in 1..i
      BY <1>1
    <3> QED
      BY <1>8, <3>1
  <2>8. after.next <= Len(text) + 1 \/ Contains(after.out, "malformed")
    <3>1. CASE i + 2 <= Len(text)
      BY <1>1, <2>3, <3>1
    <3>2. CASE ~ (i + 2 <= Len(text))
      <4>1. Escape(text, i) = "malformed"
        BY <1>1, <3>2, EscapeIs
      <4>2. Append(out, Escape(text, i))[Len(out) + 1] = "malformed"
        BY <1>1, <1>5, <4>1
      <4>3. Len(out) + 1 \in 1..(Len(out) + 1)
        BY <1>1
      <4> QED
        BY <2>4, <4>2, <4>3 DEF Contains
    <3> QED
      BY <3>1, <3>2
  <2> HIDE DEF after
  <2> QED
    BY <2>2, <2>3, <2>6, <2>7, <2>8 DEF LoopAt
<1> QED
  BY <1>6, <1>7, <1>8

(* A pass leaves a path without an escape as it is, and makes one with an escape shorter;
   what it gives is a path again unless it cannot be decoded. *)
THEOREM DecodingShortens ==
  ASSUME NEW text \in Seq(Characters)
  PROVE  /\ ~ Contains(text, "%") => Decoded(text) = text /\ Undecodable(text) = "none"
         /\ Undecodable(text) = "none" => Decoded(text) \in Seq(Characters)
         /\ Contains(text, "%") /\ Undecodable(text) = "none" => Len(Decoded(text)) < Len(text)
         /\ Undecodable(text) \in {"none", "MalformedEscape", "NonUtf8"}
<1> DEFINE len == Len(text)
           P == Loop(text)
           out == Decoded(text)
           Good == {i \in 0..len : LoopAt(P[i], text, i)}
<1>1. /\ P[0] = [next |-> 1, out |-> <<>>]
      /\ \A n \in 1..len : P[n] = Pushed(text, P[n - 1], n)
      /\ \A n \in 0..len : P[n] \in Loops
  BY LoopStep
<1>2. len \in Nat
  OBVIOUS
<1>3. out = P[len].out
  BY DEF Decoded
<1> HIDE DEF P
<1>4. 0 \in Good
  <2>1. P[0].next = 1 /\ P[0].out = <<>> /\ Len(P[0].out) = 0
    BY <1>1
  <2>2. LoopAt(P[0], text, 0)
    BY <1>2, <2>1 DEF LoopAt
  <2> QED
    BY <1>2, <2>2
<1>5. ASSUME NEW n \in 1..len, n - 1 \in Good PROVE n \in Good
  <2>1. P[n - 1] \in Loops /\ LoopAt(P[n - 1], text, n - 1)
    BY <1>1, <1>5
  <2>2. LoopAt(Pushed(text, P[n - 1], n), text, n)
    BY <2>1, LoopAtPushed
  <2> QED
    BY <1>1, <2>2
<1>6. LoopAt(P[len], text, len) /\ P[len] \in Loops
  <2> HIDE DEF Good, len
  <2>1. \A k \in 1..len : k - 1 \in Good => k \in Good
    BY <1>5
  <2>2. \A k \in 0..len : k \in Good
    BY <1>2, <1>4, <2>1, Induction
  <2> QED
    BY <1>1, <1>2, <2>2 DEF Good
<1>7. out \in Seq(Bytes) /\ P[len].next \in Nat
  BY <1>3, <1>6 DEF Loops
<1> HIDE DEF out
<1>8. ~ Contains(out, "malformed") /\ ~ Contains(out, "high-byte") <=> Undecodable(text) = "none"
  BY DEF Undecodable, out
<1>9. Undecodable(text) \in {"none", "MalformedEscape", "NonUtf8"}
  BY DEF Undecodable
<1>10. ASSUME Undecodable(text) = "none" PROVE out \in Seq(Characters)
  <2>1. \A k \in 1..Len(out) : out[k] \in Bytes /\ out[k] # "malformed" /\ out[k] # "high-byte"
    BY <1>7, <1>8, <1>10 DEF Contains
  <2>2. \A k \in 1..Len(out) : out[k] \in Characters
    BY <2>1 DEF Bytes
  <2>3. out \in [1..Len(out) -> Characters] /\ Len(out) \in Nat
    BY <1>7, <2>2
  <2> QED
    BY <2>3, FunctionIsSeq
<1>11. ASSUME ~ Contains(text, "%") PROVE out = text /\ Undecodable(text) = "none"
  <2>1. \A m \in 1..len : text[m] # "%"
    BY <1>11 DEF Contains
  <2>2. Len(out) = len /\ \A m \in 1..len : out[m] = text[m]
    BY <1>3, <1>6, <2>1 DEF LoopAt
  <2>3. text \in Seq(Bytes)
    BY SeqMonotonic DEF Bytes
  <2>4. out = text
    BY <1>7, <2>2, <2>3, SeqEqual
  <2>5. \A m \in 1..len : text[m] # "malformed" /\ text[m] # "high-byte"
    <3>1. \A m \in 1..len : text[m] \in Characters
      OBVIOUS
    <3> QED
      BY <3>1 DEF Characters, HexDigits
  <2>6. ~ Contains(out, "malformed") /\ ~ Contains(out, "high-byte")
    BY <2>4, <2>5 DEF Contains
  <2> QED
    BY <1>8, <2>4, <2>6
<1>12. ASSUME Contains(text, "%"), Undecodable(text) = "none" PROVE Len(out) < len
  <2>1. ~ Contains(P[len].out, "malformed")
    BY <1>3, <1>8, <1>12
  <2>2. \E m \in 1..len : text[m] = "%"
    BY <1>12 DEF Contains
  <2>3. P[len].next <= len + 1 /\ Len(P[len].out) <= P[len].next - 3
    BY <1>6, <2>1, <2>2 DEF LoopAt
  <2> QED
    BY <1>2, <1>3, <1>7, <2>3
<1> QED
  BY <1>9, <1>10, <1>11, <1>12 DEF out

-----------------------------------------------------------------------------
(* What upstreams have *)

(* BeforeQuery and Routing say the same: what the code cuts off is the query. *)
LEMMA RoutingIs ==
  ASSUME NEW text \in Seq(Characters)
  PROVE  Routing(text) = BeforeQuery(text) /\ Routing(text) \in Seq(Characters)
<1>1. PICK j \in 1..(Len(text) + 1) :
        /\ First(text, "?") = Between(text, 0, j)
        /\ \A m \in 1..(j - 1) : text[m] # "?"
        /\ j = Len(text) + 1 \/ text[j] = "?"
  BY FirstIs
<1>2. First(text, "?") \in Seq(Characters)
  BY FirstIs
<1> DEFINE Sub(n) == SubSeq(text, 1, n)
           Cut(routing) == /\ ~ Contains(routing, "?")
                           /\ routing = text \/ text[Len(routing) + 1] = "?"
           Starts == {Sub(n) : n \in 0..Len(text)}
<1>3. Len(text) \in Nat /\ j - 1 \in 0..Len(text) /\ (j - 1) + 1 = j
  OBVIOUS
<1>4. \A n \in 0..Len(text) :
        Sub(n) \in Seq(Characters) /\ Len(Sub(n)) = n /\ \A k \in 1..n : Sub(n)[k] = text[k]
  OBVIOUS
<1>5. Sub(Len(text)) = text
  BY SubSeqFull
<1>6. First(text, "?") = Sub(j - 1)
  BY <1>1 DEF Between
<1> HIDE DEF Sub
<1>7. Cut(Sub(j - 1))
  <2>1. ~ Contains(Sub(j - 1), "?")
    BY <1>1, <1>3, <1>4 DEF Contains
  <2>2. CASE j = Len(text) + 1
    BY <1>3, <1>5, <2>1, <2>2
  <2>3. CASE text[j] = "?"
    BY <1>3, <1>4, <2>1, <2>3
  <2> QED
    BY <1>1, <2>2, <2>3
<1>8. ASSUME NEW n \in 0..Len(text), Cut(Sub(n)) PROVE n = j - 1
  <2>1. \A k \in 1..n : text[k] # "?"
    BY <1>4, <1>8 DEF Contains
  <2>2. n = Len(text) \/ text[n + 1] = "?"
    <3>1. CASE Sub(n) = text
      BY <1>4, <3>1
    <3>2. CASE text[Len(Sub(n)) + 1] = "?"
      BY <1>4, <3>2
    <3> QED
      BY <1>8, <3>1, <3>2
  <2>3. ASSUME n < j - 1 PROVE FALSE
    <3>1. n + 1 \in 1..(j - 1) /\ n # Len(text)
      BY <1>3, <2>3
    <3> QED
      BY <1>1, <2>2, <3>1
  <2>4. ASSUME j - 1 < n PROVE FALSE
    <3>1. j \in 1..n /\ j # Len(text) + 1
      BY <1>3, <2>4
    <3> QED
      BY <1>1, <2>1, <3>1
  <2> QED
    BY <1>3, <2>3, <2>4
<1>9. BeforeQuery(text) = CHOOSE routing \in Starts : Cut(routing)
  BY DEF BeforeQuery, Sub
<1> HIDE DEF Cut
<1>10. \A routing \in Starts : Cut(routing) <=> routing = Sub(j - 1)
  BY <1>3, <1>7, <1>8
<1>11. Sub(j - 1) \in Starts
  BY <1>3
<1> HIDE DEF Starts
<1>12. (CHOOSE routing \in Starts : Cut(routing)) = Sub(j - 1)
  BY <1>10, <1>11
<1> QED
  BY <1>2, <1>6, <1>9, <1>12 DEF Routing

(* A turn of a decoder that keeps what it cannot decode gives characters of a path. *)
LEMMA LeftType ==
  ASSUME NEW text \in Seq(Characters), NEW i \in 1..Len(text),
         NEW loop \in [next : Nat, out : Seq(Characters)]
  PROVE  Left(text, loop, i) \in [next : Nat, out : Seq(Characters)]
<1>1. loop.next \in Nat /\ loop.out \in Seq(Characters) /\ i \in Nat /\ text[i] \in Characters
  OBVIOUS
<1>2. loop \in Loops
  BY <1>1, SeqMonotonic DEF Loops, Bytes
<1>3. CASE i >= loop.next /\ text[i] = "%" /\ Escape(text, i) \in {"malformed", "high-byte"}
  <2>1. Left(text, loop, i) = [next |-> i + 1, out |-> Append(loop.out, text[i])]
    BY <1>3 DEF Left
  <2> QED
    BY <1>1, <2>1
<1>4. CASE ~ (i >= loop.next /\ text[i] = "%" /\ Escape(text, i) \in {"malformed", "high-byte"})
  <2>1. Left(text, loop, i) = Pushed(text, loop, i)
    BY <1>4 DEF Left
  <2>2. CASE i < loop.next
    BY <1>2, <2>1, <2>2, PushedIs
  <2>3. CASE i >= loop.next /\ text[i] # "%"
    <3>1. Left(text, loop, i) = [next |-> i + 1, out |-> Append(loop.out, text[i])]
      BY <1>2, <2>1, <2>3, PushedIs
    <3> QED
      BY <1>1, <3>1
  <2>4. CASE i >= loop.next /\ text[i] = "%"
    <3>1. Escape(text, i) \in Characters
      BY <1>4, <2>4, EscapeIs DEF Bytes
    <3>2. Left(text, loop, i) = [next |-> i + 3, out |-> Append(loop.out, Escape(text, i))]
      BY <1>2, <2>1, <2>4, PushedIs
    <3> QED
      BY <1>1, <3>1, <3>2
  <2> QED
    BY <1>1, <2>2, <2>3, <2>4
<1> QED
  BY <1>3, <1>4

(* So does the whole pass. *)
LEMMA LeftAsDataType ==
  ASSUME NEW text \in Seq(Characters)
  PROVE  LeftAsData(text) \in Seq(Characters)
<1> DEFINE base == [next |-> 1, out |-> <<>>]
           len == Len(text)
           P == LeftLoop(text)
           Lefts == [next : Nat, out : Seq(Characters)]
           step == [x \in (1..len) \X Lefts |-> Left(text, x[2], x[1])]
           Eq(g) == g = [k \in 0..len |-> IF k = 0 THEN base ELSE Left(text, g[k - 1], k)]
<1>1. base \in Lefts /\ len \in Nat
  OBVIOUS
<1>2. Steps(step, len, Lefts)
  BY <1>1, LeftType DEF Steps, step, Lefts, len
<1>3. \A k \in 1..len, v \in Lefts : step[<<k, v>>] = Left(text, v, k)
  OBVIOUS
<1>4. P = CHOOSE g : Eq(g)
  BY DEF LeftLoop
<1> HIDE DEF step, len, P, base, Lefts
<1>5. PICK f : Solves(f, len, Lefts, base, step)
  BY <1>1, <1>2, Recursion
<1>6. f \in [0..len -> Lefts] /\ f[0] = base /\ \A k \in 1..len : f[k] = step[<<k, f[k - 1]>>]
  BY <1>5 DEF Solves
<1>7. Eq(f)
  <2>1. ASSUME NEW k \in 0..len PROVE f[k] = IF k = 0 THEN base ELSE Left(text, f[k - 1], k)
    <3>1. CASE k = 0
      BY <1>6, <3>1
    <3>2. CASE k # 0
      <4>1. k \in 1..len /\ k - 1 \in 0..len
        BY <1>1, <3>2
      <4>2. f[k - 1] \in Lefts
        BY <1>6, <4>1
      <4> QED
        BY <1>3, <1>6, <3>2, <4>1, <4>2
    <3> QED
      BY <3>1, <3>2
  <2>2. f = [k \in 0..len |-> f[k]]
    BY <1>6
  <2> QED
    BY <2>1, <2>2
<1> HIDE DEF Eq
<1>8. Eq(P)
  BY <1>4, <1>7, Zenon
<1>9. P[0] = base /\ \A k \in 1..len : P[k] = Left(text, P[k - 1], k)
  <2>1. P[0] = base
    BY <1>1, <1>8 DEF Eq
  <2>2. ASSUME NEW k \in 1..len PROVE P[k] = Left(text, P[k - 1], k)
    <3>1. k \in 0..len /\ k # 0
      BY <1>1
    <3> QED
      BY <1>8, <3>1 DEF Eq
  <2> QED
    BY <2>1, <2>2
<1> DEFINE Good == {k \in 0..len : P[k] \in Lefts}
<1>10. 0 \in Good
  BY <1>1, <1>9
<1>11. ASSUME NEW k \in 1..len, k - 1 \in Good PROVE k \in Good
  <2>1. k \in 0..len /\ P[k - 1] \in Lefts /\ k \in 1..Len(text)
    BY <1>1, <1>11 DEF len
  <2>2. Left(text, P[k - 1], k) \in Lefts
    BY <2>1, LeftType DEF Lefts
  <2> QED
    BY <1>9, <2>1, <2>2
<1> HIDE DEF Good
<1>12. \A k \in 0..len : k \in Good
  BY <1>1, <1>10, <1>11, Induction
<1>13. P[len] \in Lefts
  BY <1>1, <1>12 DEF Good
<1> QED
  BY <1>13 DEF LeftAsData, P, len, Lefts

(* A decode pass leaves paths paths. *)
LEMMA DecodedOnceType ==
  ASSUME NEW texts \in SUBSET Seq(Characters)
  PROVE  \A keeps \in BOOLEAN : DecodedOnce(texts, keeps) \in SUBSET Seq(Characters)
BY DecodingShortens, LeftAsDataType DEF DecodedOnce

(* Passed is what its equation says. *)
LEMMA PassedStep ==
  ASSUME NEW target \in Seq(Characters), NEW keeps \in BOOLEAN
  PROVE  /\ Passed(target, keeps)[0] = {BeforeQuery(target)}
         /\ \A n \in 1..(MaxDecodePasses + 1) :
              Passed(target, keeps)[n] = DecodedOnce(Passed(target, keeps)[n - 1], keeps)
<1> DEFINE N == SUBSET Seq(Characters)
           base == {BeforeQuery(target)}
           len == MaxDecodePasses + 1
           P == Passed(target, keeps)
           step == [x \in (1..len) \X N |-> DecodedOnce(x[2], keeps)]
           Eq(g) == g = [k \in 0..len |-> IF k = 0 THEN base ELSE DecodedOnce(g[k - 1], keeps)]
<1>1. base \in N /\ len \in Nat
  BY RoutingIs, ConstantsAssumption
<1>2. Steps(step, len, N)
  BY <1>1, DecodedOnceType DEF Steps
<1>3. \A k \in 1..len, v \in N : step[<<k, v>>] = DecodedOnce(v, keeps)
  OBVIOUS
<1>4. P = CHOOSE g : Eq(g)
  BY DEF Passed
<1> HIDE DEF step, N, len, P, base
<1>5. PICK f : Solves(f, len, N, base, step)
  BY <1>1, <1>2, Recursion
<1>6. f \in [0..len -> N] /\ f[0] = base /\ \A k \in 1..len : f[k] = step[<<k, f[k - 1]>>]
  BY <1>5 DEF Solves
<1>7. Eq(f)
  <2>1. ASSUME NEW k \in 0..len PROVE f[k] = IF k = 0 THEN base ELSE DecodedOnce(f[k - 1], keeps)
    <3>1. CASE k = 0
      BY <1>6, <3>1
    <3>2. CASE k # 0
      <4>1. k \in 1..len /\ k - 1 \in 0..len
        BY <1>1, <3>2
      <4>2. f[k - 1] \in N
        BY <1>6, <4>1
      <4> QED
        BY <1>3, <1>6, <3>2, <4>1, <4>2
    <3> QED
      BY <3>1, <3>2
  <2>2. f = [k \in 0..len |-> f[k]]
    BY <1>6
  <2> QED
    BY <2>1, <2>2
<1> HIDE DEF Eq
<1>8. Eq(P)
  BY <1>4, <1>7, Zenon
<1>9. P[0] = base
  BY <1>1, <1>8 DEF Eq
<1>10. ASSUME NEW k \in 1..len PROVE P[k] = DecodedOnce(P[k - 1], keeps)
  <2>1. k \in 0..len /\ k # 0
    BY <1>1
  <2> QED
    BY <1>8, <2>1 DEF Eq
<1> QED
  BY <1>9, <1>10 DEF P, len, base

(* What cannot be decoded is rejected or kept, and what can is decoded. *)
LEMMA DecodedOnceIs ==
  ASSUME NEW text
  PROVE  /\ \A keeps \in BOOLEAN :
              Undecodable(text) = "none" => DecodedOnce({text}, keeps) = {Decoded(text)}
         /\ Undecodable(text) # "none" => DecodedOnce({text}, FALSE) = {}
BY DEF DecodedOnce

(* The paths an upstream may have after so many passes. *)
LEMMA AfterStep ==
  ASSUME path \in Paths
  PROVE  /\ After[0] = {Routing(path)} /\ AfterKeeping[0] = {Routing(path)}
         /\ \A n \in 1..(MaxDecodePasses + 1) :
              /\ After[n] = DecodedOnce(After[n - 1], FALSE)
              /\ AfterKeeping[n] = DecodedOnce(AfterKeeping[n - 1], TRUE)
<1>1. path \in Seq(Characters)
  BY ConstantsAssumption
<1> QED
  BY <1>1, PassedStep, RoutingIs DEF After, AfterKeeping

(* Once nothing is left of a path, or nothing to decode in it, that stays so. *)
LEMMA PassedStays ==
  ASSUME path \in Paths, NEW keeps \in BOOLEAN, NEW first \in 0..(MaxDecodePasses + 1),
         DecodedOnce(Passed(path, keeps)[first], keeps) = Passed(path, keeps)[first]
  PROVE  \A k \in first..(MaxDecodePasses + 1) : Passed(path, keeps)[k] = Passed(path, keeps)[first]
<1> DEFINE top == MaxDecodePasses + 1
           P == Passed(path, keeps)
           Good == {k \in 0..top : k >= first => P[k] = P[first]}
<1>1. top \in Nat /\ first \in 0..top
  BY ConstantsAssumption
<1>2. \A k \in 1..top : P[k] = DecodedOnce(P[k - 1], keeps)
  <2>1. path \in Seq(Characters)
    BY ConstantsAssumption
  <2> QED
    BY <2>1, PassedStep
<1> HIDE DEF top, P
<1>3. 0 \in Good
  BY <1>1
<1>4. ASSUME NEW k \in 1..top, k - 1 \in Good PROVE k \in Good
  <2>1. CASE k - 1 >= first
    BY <1>1, <1>2, <1>4, <2>1 DEF P
  <2>2. CASE k = first
    BY <1>1, <2>2
  <2>3. CASE k < first
    BY <1>1, <2>3
  <2> QED
    BY <1>1, <2>1, <2>2, <2>3
<1> HIDE DEF Good
<1>5. \A k \in 0..top : k \in Good
  <2>1. \A k \in 1..top : k - 1 \in Good => k \in Good
    BY <1>4
  <2> QED
    BY <1>1, <1>3, <2>1, Induction
<1> QED
  BY <1>1, <1>5 DEF Good, top, P

(* The same of either kind of upstream. *)
LEMMA AfterStays ==
  ASSUME path \in Paths, NEW first \in 0..(MaxDecodePasses + 1)
  PROVE  /\ DecodedOnce(After[first], FALSE) = After[first] =>
              \A k \in first..(MaxDecodePasses + 1) : After[k] = After[first]
         /\ DecodedOnce(AfterKeeping[first], TRUE) = AfterKeeping[first] =>
              \A k \in first..(MaxDecodePasses + 1) : AfterKeeping[k] = AfterKeeping[first]
  BY PassedStays DEF After, AfterKeeping

-----------------------------------------------------------------------------
(* The invariants *)

(* The variables have their types: what is looked at is always a path again, and the passes
   are counted no further than the bound. *)
THEOREM TypeCorrect == Spec => []TypeOK
<1>1. Init => TypeOK
  <2> SUFFICES ASSUME Init PROVE TypeOK
    OBVIOUS
  <2>1. path \in Paths /\ path \in Seq(Characters) /\ current = Routing(path)
    BY ConstantsAssumption DEF Init
  <2>2. Routing(path) \in Seq(Characters)
    BY <2>1, RoutingIs
  <2> QED
    BY <2>1, <2>2, ConstantsAssumption DEF Init, TypeOK
<1>2. TypeOK /\ [Next]_vars => TypeOK'
  <2> SUFFICES ASSUME TypeOK, [Next]_vars PROVE TypeOK'
    OBVIOUS
  <2>1. CASE FindDotSegment
    BY <2>1 DEF TypeOK, FindDotSegment, Settle, Ambiguities
  <2>2. CASE NothingToDecode
    BY <2>2 DEF TypeOK, NothingToDecode, Settle
  <2>3. CASE GiveUp
    <3>1. Undecodable(current) \in Ambiguities
      BY <2>3, DecodingShortens DEF TypeOK, GiveUp, Ambiguities
    <3> QED
      BY <2>3, <3>1 DEF TypeOK, GiveUp, Settle
  <2>4. CASE Decode
    <3>1. current' \in Seq(Characters)
      BY <2>4, DecodingShortens DEF TypeOK, Decode
    <3>2. passes' \in 0..MaxDecodePasses /\ verdict' \in Ambiguities \cup {"none", "clear"}
      <4>1. CASE passes < MaxDecodePasses
        BY <2>4, <4>1, ConstantsAssumption DEF TypeOK, Decode
      <4>2. CASE ~ (passes < MaxDecodePasses)
        BY <2>4, <4>2 DEF TypeOK, Decode, Ambiguities
      <4> QED
        BY <4>1, <4>2
    <3> QED
      BY <2>4, <3>1, <3>2 DEF TypeOK, Decode
  <2>5. CASE UNCHANGED vars
    BY <2>5 DEF TypeOK, vars
  <2> QED
    BY <2>1, <2>2, <2>3, <2>4, <2>5 DEF Next
<1> QED
  BY <1>1, <1>2, PTL DEF Spec

\* What is looked at is what an upstream has after that many passes.
OnItsWay ==
  IF verdict = "NestedTooDeep"
  THEN /\ After[MaxDecodePasses + 1] = {current}
       /\ \E text \in After[MaxDecodePasses] :
            After[MaxDecodePasses] = {text} /\ text \in Seq(Characters) /\ Len(current) < Len(text)
  ELSE After[passes] = {current}

\* After fewer passes there was one path, and no dot segment in it.
NothingBefore ==
  \A k \in 0..(passes - 1) : \E text \in After[k] :
    After[k] = {text} /\ text \in Seq(Characters) /\ ~ HasDotSegment(text)

\* Each verdict was reached on what it names.
Grounded ==
  /\ verdict = "DotSegment" => HasDotSegment(current)
  /\ verdict = "clear" =>
       /\ ~ HasDotSegment(current)
       /\ ~ Contains(current, "%") \/ Undecodable(current) # "none"
  /\ verdict \in {"MalformedEscape", "NonUtf8"} =>
       passes = 0 /\ ~ HasDotSegment(current) /\ Undecodable(current) = verdict

\* The inductive invariant.
Traced == OnItsWay /\ NothingBefore /\ Grounded

(* At the start nothing has been decoded yet. *)
LEMMA TracedInit == Init => Traced
<1> SUFFICES ASSUME Init PROVE Traced
  OBVIOUS
<1>1. path \in Paths /\ current = Routing(path) /\ passes = 0 /\ verdict = "none"
  BY DEF Init
<1>2. After[0] = {Routing(path)}
  BY <1>1, AfterStep
<1> QED
  BY <1>1, <1>2 DEF Traced, OnItsWay, NothingBefore, Grounded

(* A verdict on the path at hand changes nothing else. *)
LEMMA TracedSettle ==
  ASSUME TypeOK, Traced, verdict = "none", NEW answer \in {"DotSegment", "MalformedEscape", "NonUtf8", "clear"},
         Settle(answer),
         (* The verdict's ground. *)
         /\ answer = "DotSegment" => HasDotSegment(current)
         /\ answer = "clear" => /\ ~ HasDotSegment(current)
                                /\ ~ Contains(current, "%") \/ Undecodable(current) # "none"
         /\ answer \in {"MalformedEscape", "NonUtf8"} =>
              passes = 0 /\ ~ HasDotSegment(current) /\ Undecodable(current) = answer
  PROVE  Traced'
<1>1. verdict' = answer /\ path' = path /\ current' = current /\ passes' = passes
  BY DEF Settle
<1>2. After' = After
  BY <1>1 DEF After
<1>3. OnItsWay'
  BY <1>1, <1>2 DEF Traced, OnItsWay
<1>4. NothingBefore'
  BY <1>1, <1>2 DEF Traced, NothingBefore
<1>5. Grounded'
  BY <1>1 DEF Grounded
<1> QED
  BY <1>3, <1>4, <1>5 DEF Traced

(* The next pass leads from what an upstream has to what it has then. *)
LEMMA TracedDecode ==
  ASSUME TypeOK, Traced, Decode
  PROVE  Traced'
<1>1. /\ path \in Paths /\ current \in Seq(Characters) /\ passes \in 0..MaxDecodePasses
      /\ MaxDecodePasses \in Nat
  BY ConstantsAssumption DEF TypeOK
<1>2. /\ verdict = "none" /\ ~ HasDotSegment(current) /\ Contains(current, "%")
      /\ Undecodable(current) = "none" /\ current' = Decoded(current) /\ path' = path
  BY DEF Decode
<1>3. After' = After
  BY <1>2 DEF After
<1>4. After[passes] = {current} /\ NothingBefore
  BY <1>2 DEF Traced, OnItsWay
<1>5. passes + 1 \in 1..(MaxDecodePasses + 1) /\ (passes + 1) - 1 = passes
  BY <1>1
<1>6. After[passes + 1] = {current'}
  <2>1. After[passes + 1] = DecodedOnce(After[passes], FALSE)
    BY <1>1, <1>5, AfterStep
  <2> QED
    BY <1>2, <1>4, <2>1, DecodedOnceIs
<1>7. Len(current') < Len(current)
  BY <1>1, <1>2, DecodingShortens
<1>8. CASE passes < MaxDecodePasses
  <2>1. passes' = passes + 1 /\ verdict' = "none"
    BY <1>2, <1>8 DEF Decode
  <2>2. OnItsWay'
    BY <1>3, <1>6, <2>1 DEF OnItsWay
  <2>3. ASSUME NEW k \in 0..(passes' - 1)
        PROVE  \E text \in Seq(Characters) : After[k] = {text} /\ ~ HasDotSegment(text)
    <3>1. CASE k = passes
      BY <1>1, <1>2, <1>4, <3>1
    <3>2. CASE k # passes
      <4>1. k \in 0..(passes - 1)
        BY <1>1, <2>1, <3>2
      <4> QED
        BY <1>4, <4>1 DEF NothingBefore
    <3> QED
      BY <3>1, <3>2
  <2>4. NothingBefore'
    BY <1>3, <2>3 DEF NothingBefore
  <2>5. Grounded'
    BY <2>1 DEF Grounded
  <2> QED
    BY <2>2, <2>4, <2>5 DEF Traced
<1>9. CASE ~ (passes < MaxDecodePasses)
  <2>1. passes' = passes /\ verdict' = "NestedTooDeep" /\ passes = MaxDecodePasses
    BY <1>1, <1>9 DEF Decode
  <2>2. OnItsWay'
    BY <1>1, <1>3, <1>4, <1>6, <1>7, <2>1 DEF OnItsWay
  <2>3. NothingBefore'
    BY <1>3, <1>4, <2>1 DEF NothingBefore
  <2>4. Grounded'
    BY <2>1 DEF Grounded
  <2> QED
    BY <2>2, <2>3, <2>4 DEF Traced
<1> QED
  BY <1>8, <1>9

(* Every verdict is reached on what an upstream would have after that many passes. *)
LEMMA TracedInvariant == Spec => [](TypeOK /\ Traced)
<1>1. Init => Traced
  BY TracedInit
<1>2. TypeOK /\ Traced /\ [Next]_vars => Traced'
  <2> SUFFICES ASSUME TypeOK, Traced, [Next]_vars PROVE Traced'
    OBVIOUS
  <2>1. CASE FindDotSegment
    BY <2>1, TracedSettle DEF FindDotSegment
  <2>2. CASE NothingToDecode
    BY <2>2, TracedSettle DEF NothingToDecode
  <2>3. CASE GiveUp
    <3>1. Undecodable(current) \in {"MalformedEscape", "NonUtf8"}
      BY <2>3, DecodingShortens DEF TypeOK, GiveUp
    <3>2. CASE passes = 0
      <4>1. Settle(Undecodable(current)) /\ verdict = "none" /\ ~ HasDotSegment(current)
        BY <2>3, <3>2 DEF GiveUp
      <4> DEFINE answer == Undecodable(current)
      <4>2. answer # "DotSegment" /\ answer # "clear" /\ answer \in {"DotSegment", "MalformedEscape", "NonUtf8", "clear"}
        BY <3>1
      <4> QED
        BY <3>2, <4>1, <4>2, TracedSettle
    <3>3. CASE passes # 0
      <4>1. Settle("clear") /\ verdict = "none" /\ ~ HasDotSegment(current) /\ Undecodable(current) # "none"
        BY <2>3, <3>3 DEF GiveUp
      <4> QED
        BY <4>1, TracedSettle
    <3> QED
      BY <3>2, <3>3
  <2>4. CASE Decode
    BY <2>4, TracedDecode
  <2>5. CASE UNCHANGED vars
    <3>1. verdict' = verdict /\ path' = path /\ current' = current /\ passes' = passes
      BY <2>5 DEF vars
    <3>2. After' = After
      BY <3>1 DEF After
    <3> QED
      BY <3>1, <3>2 DEF Traced, OnItsWay, NothingBefore, Grounded
  <2> QED
    BY <2>1, <2>2, <2>3, <2>4, <2>5 DEF Next
<1> QED
  BY <1>1, <1>2, TypeCorrect, PTL DEF Spec

(* Up to the pass that was looked at last, everything could be decoded, so that what an
   upstream does with what cannot be makes no difference. *)
LEMMA KeepingChangesNothing ==
  ASSUME TypeOK, Traced, verdict = "clear"
  PROVE  \A k \in 0..passes : AfterKeeping[k] = After[k]
<1> DEFINE Good == {k \in 0..passes : AfterKeeping[k] = After[k]}
<1>1. path \in Paths /\ passes \in 0..MaxDecodePasses /\ passes \in Nat /\ MaxDecodePasses \in Nat
  BY ConstantsAssumption DEF TypeOK
<1>2. After[passes] # {}
  BY DEF Traced, OnItsWay
<1>3. \A k \in 0..(passes - 1) : \E text \in After[k] : After[k] = {text}
  BY DEF Traced, NothingBefore
<1>4. 0 \in Good
  <2>1. AfterKeeping[0] = After[0]
    BY <1>1, AfterStep
  <2> QED
    BY <1>1, <2>1
<1>5. ASSUME NEW k \in 1..passes, k - 1 \in Good PROVE k \in Good
  <2>1. k - 1 \in 0..(passes - 1) /\ k \in 1..(MaxDecodePasses + 1) /\ k \in 0..passes
    BY <1>1
  <2>2. PICK text : After[k - 1] = {text}
    BY <1>3, <2>1
  <2>3. AfterKeeping[k - 1] = {text}
    BY <1>5, <2>2
  <2>4. /\ After[k] = DecodedOnce({text}, FALSE)
        /\ AfterKeeping[k] = DecodedOnce({text}, TRUE)
    BY <1>1, <2>1, <2>2, <2>3, AfterStep
  <2>5. After[k] # {}
    <3>1. CASE k = passes
      BY <1>2, <3>1
    <3>2. CASE k # passes
      <4>1. k \in 0..(passes - 1)
        BY <1>1, <3>2
      <4> QED
        BY <1>3, <4>1
    <3> QED
      BY <3>1, <3>2
  <2>6. Undecodable(text) = "none"
    BY <2>4, <2>5, DecodedOnceIs
  <2>7. DecodedOnce({text}, FALSE) = DecodedOnce({text}, TRUE)
    BY <2>6, DecodedOnceIs
  <2> QED
    BY <2>1, <2>4, <2>7
<1> HIDE DEF Good
<1>6. \A k \in 0..passes : k \in Good
  <2>1. \A k \in 1..passes : k - 1 \in Good => k \in Good
    BY <1>5
  <2> QED
    BY <1>1, <1>4, <2>1, Induction
<1> QED
  BY <1>6 DEF Good

(* What a clear verdict means follows: before it there was no dot segment, in it there is
   none, and behind it there is nothing to decode, or what is there cannot be decoded. *)
LEMMA ClearFollows ==
  ASSUME TypeOK, Traced
  PROVE  ClearMeansItself
<1> SUFFICES ASSUME verdict = "clear", NEW k \in 0..(MaxDecodePasses + 1)
             PROVE  /\ \A text \in After[k] : MeansItself(text)
                    /\ Undecodable(current) = "none" =>
                         \A text \in AfterKeeping[k] : MeansItself(text)
  BY DEF ClearMeansItself
<1>1. /\ path \in Paths /\ current \in Seq(Characters) /\ passes \in 0..MaxDecodePasses
      /\ MaxDecodePasses \in Nat
  BY ConstantsAssumption DEF TypeOK
<1>2. After[passes] = {current} /\ ~ HasDotSegment(current)
  BY DEF Traced, OnItsWay, Grounded
<1>3. MeansItself(current)
  BY <1>1, <1>2, DotSegmentsAreWhatMatters
<1>4. CASE k \in 0..passes
  <2>1. AfterKeeping[k] = After[k]
    BY <1>4, KeepingChangesNothing
  <2>2. CASE k = passes
    BY <1>2, <1>3, <2>1, <2>2
  <2>3. CASE k # passes
    <3>1. k \in 0..(passes - 1)
      BY <1>1, <1>4, <2>3
    <3>2. PICK before \in Seq(Characters) : After[k] = {before} /\ ~ HasDotSegment(before)
      BY <3>1 DEF Traced, NothingBefore
    <3>3. MeansItself(before)
      BY <3>2, DotSegmentsAreWhatMatters
    <3> QED
      BY <2>1, <3>2, <3>3
  <2> QED
    BY <2>2, <2>3
<1>5. CASE passes < k
  <2>1. CASE Undecodable(current) # "none"
    <3>1. /\ passes + 1 \in 1..(MaxDecodePasses + 1) /\ passes + 1 \in 0..(MaxDecodePasses + 1)
          /\ (passes + 1) - 1 = passes
      BY <1>1
    <3>2. After[passes + 1] = {}
      <4>1. After[passes + 1] = DecodedOnce(After[passes], FALSE)
        BY <1>1, <3>1, AfterStep
      <4> QED
        BY <1>2, <2>1, <4>1, DecodedOnceIs
    <3>3. DecodedOnce(After[passes + 1], FALSE) = After[passes + 1]
      BY <3>2 DEF DecodedOnce
    <3>4. k \in (passes + 1)..(MaxDecodePasses + 1)
      BY <1>1, <1>5
    <3>5. After[k] = {}
      BY <1>1, <3>1, <3>2, <3>3, <3>4, AfterStays
    <3> QED
      BY <2>1, <3>5
  <2>2. CASE ~ Contains(current, "%")
    <3>1. passes \in 0..(MaxDecodePasses + 1) /\ k \in passes..(MaxDecodePasses + 1) /\ passes \in 0..passes
      BY <1>1, <1>5
    <3>2. AfterKeeping[passes] = {current}
      BY <1>2, <3>1, KeepingChangesNothing
    <3>3. \A keeps \in BOOLEAN : DecodedOnce({current}, keeps) = {current}
      BY <1>1, <2>2, DecodingShortens, DecodedOnceIs
    <3>4. After[k] = {current} /\ AfterKeeping[k] = {current}
      BY <1>1, <1>2, <3>1, <3>2, <3>3, AfterStays
    <3> QED
      BY <1>3, <3>4
  <2> QED
    BY <2>1, <2>2 DEF Traced, Grounded
<1> QED
  BY <1>1, <1>4, <1>5

(* So does what a refusal means. *)
LEMMA RefusalFollows ==
  ASSUME TypeOK, Traced
  PROVE  RefusedForAReason
<1>1. /\ path \in Paths /\ current \in Seq(Characters) /\ passes \in 0..MaxDecodePasses
      /\ MaxDecodePasses \in Nat
  BY ConstantsAssumption DEF TypeOK
<1>2. CASE verdict = "DotSegment"
  <2>1. After[passes] = {current} /\ HasDotSegment(current)
    BY <1>2 DEF Traced, OnItsWay, Grounded
  <2>2. ~ MeansItself(current)
    BY <1>1, <2>1, DotSegmentsAreWhatMatters
  <2>3. ASSUME NEW k \in 0..(passes - 1)
        PROVE  After[k] # {} /\ \A text \in After[k] : MeansItself(text)
    <3>1. PICK before \in Seq(Characters) : After[k] = {before} /\ ~ HasDotSegment(before)
      BY DEF Traced, NothingBefore
    <3>2. MeansItself(before)
      BY <3>1, DotSegmentsAreWhatMatters
    <3> QED
      BY <3>1, <3>2
  <2> QED
    BY <1>2, <2>1, <2>2, <2>3 DEF RefusedForAReason
<1>3. CASE verdict \in {"MalformedEscape", "NonUtf8"}
  <2>1. /\ After[passes] = {current} /\ passes = 0 /\ ~ HasDotSegment(current)
        /\ Undecodable(current) = verdict
    BY <1>3 DEF Traced, OnItsWay, Grounded
  <2>2. MeansItself(current)
    BY <1>1, <2>1, DotSegmentsAreWhatMatters
  <2> QED
    BY <1>3, <2>1, <2>2 DEF RefusedForAReason
<1>4. CASE verdict = "NestedTooDeep"
  <2>1. After[MaxDecodePasses + 1] = {current}
    BY <1>4 DEF Traced, OnItsWay
  <2>2. PICK text \in Seq(Characters) : After[MaxDecodePasses] = {text} /\ Len(current) < Len(text)
    BY <1>4 DEF Traced, OnItsWay
  <2>3. current # text
    BY <1>1, <2>2
  <2> QED
    BY <1>4, <2>1, <2>2, <2>3 DEF RefusedForAReason
<1>5. CASE verdict \in {"none", "clear"}
  BY <1>5 DEF RefusedForAReason
<1> QED
  BY <1>2, <1>3, <1>4, <1>5 DEF TypeOK, Ambiguities

(* A path handed to the policies means what it says after any number of passes up to one more
   than are followed, for every path there is: to every upstream that rejects what it cannot
   decode, and, unless the search ended at such an escape, to one that keeps it as data. *)
THEOREM ClearMeansItselfAlways == Spec => []ClearMeansItself
BY TracedInvariant, ClearFollows, PTL

(* And none is refused for nothing. *)
THEOREM RefusedForAReasonAlways == Spec => []RefusedForAReason
BY TracedInvariant, RefusalFollows, PTL

=============================================================================
