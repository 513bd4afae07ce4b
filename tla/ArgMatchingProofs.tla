--------------------------- MODULE ArgMatchingProofs ---------------------------
(***************************************************************************)
(* What an author may rely on, for every tree of tests, every text and     *)
(* every request.  Texts are gone through character by character and       *)
(* conditions node by node, so these proofs begin with induction and       *)
(* recursion, over an interval and over a tree, from the least number of a *)
(* set; then come what the functions on texts return, what a condition     *)
(* depends on, and the theorems.                                           *)
(***************************************************************************)
EXTENDS ArgMatching, Integers, SequenceTheorems, WellFoundedInduction, TLAPS

-----------------------------------------------------------------------------
(* Induction and recursion over an interval *)

(* Every set of naturals that is not empty has a least element. *)
LEMMA LeastNumber ==
  ASSUME NEW T \in SUBSET Nat, T # {}
  PROVE  \E m \in T : \A k \in T : m <= k
<1> DEFINE R == OpToRel(<, Nat)
<1>1. IsWellFoundedOn(R, Nat)
  BY NatLessThanWellFounded
<1>2. \A x, y \in Nat : x < y => <<x, y>> \in R
  BY DEF OpToRel
<1> HIDE DEF R
<1>3. \A Q \in SUBSET Nat : Q # {} => \E x \in Q : \A y \in Q : ~ (<<y, x>> \in R)
  BY <1>1, WFMin
<1>4. PICK x \in T : \A y \in T : ~ (<<y, x>> \in R)
  BY <1>3
<1>5. ASSUME NEW y \in T PROVE x <= y
  <2>1. ~ (y < x)
    BY <1>2, <1>4
  <2>2. x \in Nat /\ y \in Nat
    OBVIOUS
  <2> QED
    BY <2>1, <2>2
<1> QED
  BY <1>5

(* A set that holds 0 and with each number up to n the next one, holds them all. *)
LEMMA Induction ==
  ASSUME NEW n \in Nat, NEW Good,
         0 \in Good,
         \A k \in 1..n : k - 1 \in Good => k \in Good
  PROVE  \A k \in 0..n : k \in Good
<1> DEFINE Bad == {k \in 0..n : k \notin Good}
<1>1. SUFFICES ASSUME Bad # {} PROVE FALSE
  OBVIOUS
<1>2. Bad \in SUBSET Nat
  OBVIOUS
<1> HIDE DEF Bad
<1>3. PICK m \in Bad : \A k \in Bad : m <= k
  BY <1>1, <1>2, LeastNumber
<1>4. m \in 0..n /\ m \notin Good /\ m # 0
  BY DEF Bad
<1>5. m - 1 \in 0..n /\ m - 1 \notin Bad
  BY <1>3, <1>4
<1> QED
  BY <1>4, <1>5 DEF Bad

\* A step from each number up to n to the next, within a set.
Steps(step, n, S) == step \in [(1..n) \X S -> S]

\* The function that such steps define.
Solves(f, n, S, base, step) ==
  /\ f \in [0..n -> S]
  /\ f[0] = base
  /\ \A k \in 1..n : f[k] = step[<<k, f[k - 1]>>]

(* There is one: what a recursive function's CHOOSE needs, to be what its equation says. *)
LEMMA Recursion ==
  ASSUME NEW n \in Nat, NEW S, NEW base \in S, NEW step, Steps(step, n, S)
  PROVE  \E f : Solves(f, n, S, base, step)
<1> USE DEF Steps
<1> DEFINE Good == {m \in 0..n : \E f : Solves(f, m, S, base, step)}
<1>1. Solves([k \in 0..0 |-> base], 0, S, base, step)
  BY DEF Solves
<1>2. ASSUME NEW m \in 1..n, NEW f, Solves(f, m - 1, S, base, step)
      PROVE  \E g : Solves(g, m, S, base, step)
  <2> DEFINE g == [k \in 0..m |-> IF k = m THEN step[<<m, f[m - 1]>>] ELSE f[k]]
  <2>1. f[m - 1] \in S /\ step[<<m, f[m - 1]>>] \in S
    BY <1>2 DEF Solves
  <2>2. g \in [0..m -> S] /\ g[0] = base
    BY <1>2, <2>1 DEF Solves
  <2>3. ASSUME NEW k \in 1..m PROVE g[k] = step[<<k, g[k - 1]>>]
    <3>1. k - 1 \in 0..(m - 1) /\ g[k - 1] = f[k - 1]
      OBVIOUS
    <3>2. CASE k = m
      <4>1. g[m] = step[<<m, f[m - 1]>>]
        OBVIOUS
      <4> QED
        BY <3>1, <3>2, <4>1
    <3>3. CASE k # m
      <4>1. k \in 1..(m - 1) /\ g[k] = f[k]
        BY <3>3
      <4> QED
        BY <3>1, <4>1, <1>2 DEF Solves
    <3> QED
      BY <3>2, <3>3
  <2> HIDE DEF g
  <2>4. Solves(g, m, S, base, step)
    BY <2>2, <2>3 DEF Solves
  <2> QED
    BY <2>4
<1>3. 0 \in Good
  BY <1>1
<1>4. ASSUME NEW k \in 1..n, k - 1 \in Good PROVE k \in Good
  BY <1>2, <1>4
<1> HIDE DEF Good
<1>5. n \in Good
  BY <1>3, <1>4, Induction
<1> QED
  BY <1>5 DEF Good

(* A set of nodes that holds each node with its children, holds them all. *)
LEMMA TreeInduction ==
  ASSUME ConstantsAssumption, NEW Good,
         \A node \in Nodes : (\A child \in Children(node) : child \in Good) => node \in Good
  PROVE  Nodes \subseteq Good
<1> DEFINE Bad == {node \in Nodes : node \notin Good}
           Heights == {Height[node] : node \in Bad}
<1>1. SUFFICES ASSUME Bad # {} PROVE FALSE
  OBVIOUS
<1>2. Heights \in SUBSET Nat /\ Heights # {}
  BY <1>1 DEF ConstantsAssumption
<1> HIDE DEF Heights
<1>3. PICK m \in Heights : \A k \in Heights : m <= k
  BY <1>2, LeastNumber
<1>4. PICK node \in Bad : m = Height[node]
  BY DEF Heights
<1>5. PICK child \in Children(node) : child \notin Good
  BY <1>4
<1>6. child \in Nodes /\ Height[child] < Height[node] /\ child \in Bad
  BY <1>4, <1>5 DEF ConstantsAssumption
<1>7. Height[child] \in Heights
  BY <1>6 DEF Heights
<1>8. Height[node] <= Height[child] /\ Height[node] \in Nat /\ Height[child] \in Nat
  BY <1>3, <1>4, <1>6, <1>7 DEF ConstantsAssumption
<1> QED
  BY <1>6, <1>8

\* A step from what is known of the nodes to one of them, which asks its children only.
Climbs(step, S) ==
  /\ step \in [Nodes \X [Nodes -> S] -> S]
  /\ \A node \in Nodes, f, g \in [Nodes -> S] :
       (\A child \in Children(node) : f[child] = g[child]) => step[<<node, f>>] = step[<<node, g>>]

\* The function that such steps define, up to a height and for the whole tree.
SolvesBelow(f, n, S, step) ==
  /\ f \in [Nodes -> S]
  /\ \A node \in Nodes : Height[node] < n => f[node] = step[<<node, f>>]

SolvesTree(f, S, step) ==
  /\ f \in [Nodes -> S]
  /\ \A node \in Nodes : f[node] = step[<<node, f>>]

(* One more height. *)
LEMMA OneHigher ==
  ASSUME ConstantsAssumption, NEW S, NEW step, Climbs(step, S),
         NEW n \in Nat, NEW f, SolvesBelow(f, n, S, step)
  PROVE  \E g : SolvesBelow(g, n + 1, S, step)
<1> DEFINE g == [node \in Nodes |-> step[<<node, f>>]]
<1>1. f \in [Nodes -> S]
  BY DEF SolvesBelow
<1>2. g \in [Nodes -> S]
  BY <1>1 DEF Climbs
<1>3. \A node \in Nodes : Height[node] < n => g[node] = f[node]
  BY DEF SolvesBelow
<1>4. ASSUME NEW node \in Nodes, Height[node] < n + 1 PROVE g[node] = step[<<node, g>>]
  <2>1. \A child \in Children(node) : g[child] = f[child]
    <3>1. \A child \in Children(node) : child \in Nodes /\ Height[child] \in Nat /\ Height[child] < Height[node] /\ Height[node] \in Nat
      BY DEF ConstantsAssumption
    <3>2. \A child \in Children(node) : Height[child] < n
      BY <1>4, <3>1
    <3> HIDE DEF g
    <3> QED
      BY <1>3, <3>1, <3>2
  <2>2. g[node] = step[<<node, f>>]
    OBVIOUS
  <2> HIDE DEF g
  <2> QED
    BY <1>1, <1>2, <2>1, <2>2 DEF Climbs
<1> HIDE DEF g
<1>5. SolvesBelow(g, n + 1, S, step)
  BY <1>2, <1>4 DEF SolvesBelow
<1> QED
  BY <1>5

(* Two solutions agree where both are one. *)
LEMMA OneSolution ==
  ASSUME ConstantsAssumption, NEW S, NEW step, Climbs(step, S),
         NEW n \in Nat, NEW m \in Nat, NEW f, NEW g,
         SolvesBelow(f, n, S, step), SolvesBelow(g, m, S, step)
  PROVE  \A node \in Nodes : Height[node] < n /\ Height[node] < m => f[node] = g[node]
<1> DEFINE Good == {node \in Nodes : Height[node] < n /\ Height[node] < m => f[node] = g[node]}
<1>1. f \in [Nodes -> S] /\ g \in [Nodes -> S]
  BY DEF SolvesBelow
<1>2. ASSUME NEW node \in Nodes, \A child \in Children(node) : child \in Good PROVE node \in Good
  <2>1. SUFFICES ASSUME Height[node] < n, Height[node] < m PROVE f[node] = g[node]
    OBVIOUS
  <2>2. \A child \in Children(node) : Height[child] \in Nat /\ Height[child] < Height[node] /\ Height[node] \in Nat
    BY DEF ConstantsAssumption
  <2>3. \A child \in Children(node) : Height[child] < n /\ Height[child] < m
    BY <2>1, <2>2
  <2>4. \A child \in Children(node) : f[child] = g[child]
    BY <1>2, <2>3
  <2>5. step[<<node, f>>] = step[<<node, g>>]
    BY <1>1, <2>4 DEF Climbs
  <2> QED
    BY <2>1, <2>5 DEF SolvesBelow
<1> HIDE DEF Good
<1>3. Nodes \subseteq Good
  BY <1>2, TreeInduction
<1> QED
  BY <1>3 DEF Good

(* There is such a function: what a recursive function on nodes needs, to be what its
   equation says. *)
LEMMA TreeRecursion ==
  ASSUME ConstantsAssumption, NEW S, S # {}, NEW step, Climbs(step, S)
  PROVE  \E f : SolvesTree(f, S, step)
<1> DEFINE Solvable == {n \in Nat : \E f : SolvesBelow(f, n, S, step)}
<1>1. ASSUME NEW n \in Nat PROVE \E f : SolvesBelow(f, n, S, step)
  <2>1. 0 \in Solvable
    <3>1. PICK s \in S : TRUE
      OBVIOUS
    <3>2. \A node \in Nodes : ~ (Height[node] < 0)
      BY DEF ConstantsAssumption
    <3>3. SolvesBelow([node \in Nodes |-> s], 0, S, step)
      BY <3>2 DEF SolvesBelow
    <3> QED
      BY <3>3
  <2>2. \A k \in 1..n : k - 1 \in Solvable => k \in Solvable
    <3>1. ASSUME NEW k \in 1..n, k - 1 \in Solvable PROVE k \in Solvable
      <4>1. k - 1 \in Nat /\ (k - 1) + 1 = k /\ k \in Nat
        OBVIOUS
      <4>2. PICK f : SolvesBelow(f, k - 1, S, step)
        BY <3>1
      <4>3. \E g : SolvesBelow(g, (k - 1) + 1, S, step)
        BY <4>1, <4>2, OneHigher
      <4> QED
        BY <4>1, <4>3
    <3> QED
      BY <3>1
  <2> HIDE DEF Solvable
  <2>3. \A k \in 0..n : k \in Solvable
    BY <2>1, <2>2, Induction
  <2> QED
    BY <2>3 DEF Solvable
<1> DEFINE at(n) == CHOOSE f : SolvesBelow(f, n, S, step)
           whole == [node \in Nodes |-> at(Height[node] + 1)[node]]
<1>2. ASSUME NEW n \in Nat PROVE SolvesBelow(at(n), n, S, step)
  BY <1>1
<1>3. \A node \in Nodes : Height[node] \in Nat
  BY DEF ConstantsAssumption
<1>4. ASSUME NEW node \in Nodes, NEW n \in Nat, Height[node] < n PROVE whole[node] = at(n)[node]
  <2>1. SolvesBelow(at(n), n, S, step) /\ SolvesBelow(at(Height[node] + 1), Height[node] + 1, S, step)
    BY <1>2, <1>3
  <2>2. Height[node] + 1 \in Nat /\ Height[node] < Height[node] + 1
    BY <1>3
  <2>3. whole[node] = at(Height[node] + 1)[node]
    OBVIOUS
  <2> HIDE DEF whole, at
  <2> QED
    BY <1>4, <2>1, <2>2, <2>3, OneSolution
<1>5. whole \in [Nodes -> S]
  <2>1. ASSUME NEW node \in Nodes PROVE at(Height[node] + 1)[node] \in S
    <3>1. SolvesBelow(at(Height[node] + 1), Height[node] + 1, S, step)
      BY <1>2, <1>3
    <3> HIDE DEF at
    <3> QED
      BY <3>1 DEF SolvesBelow
  <2> HIDE DEF at
  <2> QED
    BY <2>1
<1> HIDE DEF whole, at
<1>6. ASSUME NEW node \in Nodes PROVE whole[node] = step[<<node, whole>>]
  <2> DEFINE n == Height[node] + 1
  <2>1. n \in Nat /\ Height[node] < n
    BY <1>3
  <2>2. \A child \in Children(node) : child \in Nodes /\ Height[child] < n
    BY <1>3 DEF ConstantsAssumption
  <2> HIDE DEF n
  <2>3. SolvesBelow(at(n), n, S, step)
    BY <1>2, <2>1
  <2>4. \A child \in Children(node) : whole[child] = at(n)[child]
    BY <1>4, <2>1, <2>2
  <2>5. at(n)[node] = step[<<node, at(n)>>] /\ at(n) \in [Nodes -> S]
    BY <2>1, <2>3 DEF SolvesBelow
  <2>6. step[<<node, whole>>] = step[<<node, at(n)>>]
    BY <1>5, <2>4, <2>5 DEF Climbs
  <2> QED
    BY <1>4, <2>1, <2>5, <2>6
<1> QED
  BY <1>5, <1>6 DEF SolvesTree

-----------------------------------------------------------------------------
(* The functions on texts *)

(* Pieces is what its equation says. *)
LEMMA PiecesStep ==
  ASSUME NEW D, NEW texts \in Seq(Seq(D))
  PROVE  /\ Pieces(texts)[0] = <<>>
         /\ \A n \in 1..Len(texts) : Pieces(texts)[n] = Pieces(texts)[n - 1] \o texts[n]
         /\ \A n \in 0..Len(texts) : Pieces(texts)[n] \in Seq(D)
<1> DEFINE N == Seq(D)
           base == <<>>
           len == Len(texts)
           P == Pieces(texts)
           step == [x \in (1..len) \X N |-> x[2] \o texts[x[1]]]
           Eq(g) == g = [k \in 0..len |-> IF k = 0 THEN base ELSE g[k - 1] \o texts[k]]
<1>1. base \in N /\ len \in Nat
  OBVIOUS
<1>2. \A k \in 1..len, v \in N : v \o texts[k] \in N
  OBVIOUS
<1>3. Steps(step, len, N)
  BY <1>2 DEF Steps
<1>4. \A k \in 1..len, v \in N : step[<<k, v>>] = v \o texts[k]
  OBVIOUS
<1>5. P = CHOOSE g : Eq(g)
  BY DEF Pieces
<1> HIDE DEF step, N, len, P, base
<1>6. PICK f : Solves(f, len, N, base, step)
  BY <1>1, <1>3, Recursion
<1>7. f \in [0..len -> N] /\ f[0] = base /\ \A k \in 1..len : f[k] = step[<<k, f[k - 1]>>]
  BY <1>6 DEF Solves
<1>8. Eq(f)
  <2>1. ASSUME NEW k \in 0..len PROVE f[k] = IF k = 0 THEN base ELSE f[k - 1] \o texts[k]
    <3>1. CASE k = 0
      BY <1>7, <3>1
    <3>2. CASE k # 0
      <4>1. k \in 1..len /\ k - 1 \in 0..len
        BY <1>1, <3>2
      <4>2. f[k - 1] \in N
        BY <1>7, <4>1
      <4> QED
        BY <1>4, <1>7, <3>2, <4>1, <4>2
    <3> QED
      BY <3>1, <3>2
  <2>2. f = [k \in 0..len |-> f[k]]
    BY <1>7
  <2> QED
    BY <2>1, <2>2
<1> HIDE DEF Eq
<1>9. Eq(P)
  BY <1>5, <1>8, Zenon
<1>10. P[0] = base /\ \A k \in 1..len : P[k] = P[k - 1] \o texts[k]
  <2>1. P[0] = base
    BY <1>1, <1>9 DEF Eq
  <2>2. ASSUME NEW k \in 1..len PROVE P[k] = P[k - 1] \o texts[k]
    <3>1. k \in 0..len /\ k # 0
      BY <1>1
    <3> QED
      BY <1>9, <3>1 DEF Eq
  <2> QED
    BY <2>1, <2>2
<1> DEFINE Good == {k \in 0..len : P[k] \in N}
<1>11. 0 \in Good
  BY <1>1, <1>10
<1>12. ASSUME NEW k \in 1..len, k - 1 \in Good PROVE k \in Good
  <2>1. k \in 0..len /\ P[k - 1] \in N
    BY <1>1, <1>12
  <2>2. P[k] \in N
    BY <1>2, <1>10, <2>1
  <2> QED
    BY <2>1, <2>2
<1> HIDE DEF Good
<1>13. \A k \in 0..len : k \in Good
  BY <1>1, <1>11, <1>12, Induction
<1> QED
  BY <1>10, <1>13 DEF Good, P, N, len, base

\* What has been read of an id.
Reads(C) == [at : {"inside", "escaped", "closed", "trailing"}, id : Seq(C \cup {"newline"})]

(* One more character leaves what has been read of an id such. *)
LEMMA ReadOnType ==
  ASSUME NEW C, NEW so \in Reads(C), NEW c \in C
  PROVE  ReadOn(so, c) \in Reads(C)
<1>1. so.id \in Seq(C \cup {"newline"}) /\ so = [at |-> so.at, id |-> so.id]
  BY DEF Reads
<1>2. Append(so.id, IF c = "n" THEN "newline" ELSE c) \in Seq(C \cup {"newline"})
  <2>1. (IF c = "n" THEN "newline" ELSE c) \in C \cup {"newline"}
    OBVIOUS
  <2> QED
    BY <1>1, <2>1, AppendProperties
<1>3. Append(so.id, c) \in Seq(C \cup {"newline"})
  BY <1>1, AppendProperties
<1>4. [at |-> "inside", id |-> Append(so.id, IF c = "n" THEN "newline" ELSE c)] \in Reads(C)
  BY <1>2 DEF Reads
<1>5. \A p \in {"escaped", "closed", "trailing"} : [so EXCEPT !.at = p] \in Reads(C)
  BY <1>1 DEF Reads
<1>6. [so EXCEPT !.id = Append(@, c)] \in Reads(C)
  BY <1>1, <1>3 DEF Reads
<1> QED
  BY <1>4, <1>5, <1>6 DEF ReadOn

(* Read is what its equation says. *)
LEMMA ReadStep ==
  ASSUME NEW C, NEW quoted \in Seq(C)
  PROVE  /\ Read(quoted)[0] = [at |-> "inside", id |-> <<>>]
         /\ \A n \in 1..Len(quoted) : Read(quoted)[n] = ReadOn(Read(quoted)[n - 1], quoted[n])
         /\ \A n \in 0..Len(quoted) : Read(quoted)[n] \in Reads(C)
<1> DEFINE N == Reads(C)
           base == [at |-> "inside", id |-> <<>>]
           len == Len(quoted)
           P == Read(quoted)
           step == [x \in (1..len) \X N |-> ReadOn(x[2], quoted[x[1]])]
           Eq(g) == g = [k \in 0..len |-> IF k = 0 THEN base ELSE ReadOn(g[k - 1], quoted[k])]
<1>1. base \in N /\ len \in Nat
  BY DEF Reads
<1>2. \A k \in 1..len, v \in N : ReadOn(v, quoted[k]) \in N
  BY ReadOnType
<1>3. Steps(step, len, N)
  BY <1>2 DEF Steps
<1>4. \A k \in 1..len, v \in N : step[<<k, v>>] = ReadOn(v, quoted[k])
  OBVIOUS
<1>5. P = CHOOSE g : Eq(g)
  BY DEF Read
<1> HIDE DEF step, N, len, P, base
<1>6. PICK f : Solves(f, len, N, base, step)
  BY <1>1, <1>3, Recursion
<1>7. f \in [0..len -> N] /\ f[0] = base /\ \A k \in 1..len : f[k] = step[<<k, f[k - 1]>>]
  BY <1>6 DEF Solves
<1>8. Eq(f)
  <2>1. ASSUME NEW k \in 0..len PROVE f[k] = IF k = 0 THEN base ELSE ReadOn(f[k - 1], quoted[k])
    <3>1. CASE k = 0
      BY <1>7, <3>1
    <3>2. CASE k # 0
      <4>1. k \in 1..len /\ k - 1 \in 0..len
        BY <1>1, <3>2
      <4>2. f[k - 1] \in N
        BY <1>7, <4>1
      <4> QED
        BY <1>4, <1>7, <3>2, <4>1, <4>2
    <3> QED
      BY <3>1, <3>2
  <2>2. f = [k \in 0..len |-> f[k]]
    BY <1>7
  <2> QED
    BY <2>1, <2>2
<1> HIDE DEF Eq
<1>9. Eq(P)
  BY <1>5, <1>8, Zenon
<1>10. P[0] = base /\ \A k \in 1..len : P[k] = ReadOn(P[k - 1], quoted[k])
  <2>1. P[0] = base
    BY <1>1, <1>9 DEF Eq
  <2>2. ASSUME NEW k \in 1..len PROVE P[k] = ReadOn(P[k - 1], quoted[k])
    <3>1. k \in 0..len /\ k # 0
      BY <1>1
    <3> QED
      BY <1>9, <3>1 DEF Eq
  <2> QED
    BY <2>1, <2>2
<1> DEFINE Good == {k \in 0..len : P[k] \in N}
<1>11. 0 \in Good
  BY <1>1, <1>10
<1>12. ASSUME NEW k \in 1..len, k - 1 \in Good PROVE k \in Good
  <2>1. k \in 0..len /\ P[k - 1] \in N
    BY <1>1, <1>12
  <2>2. P[k] \in N
    BY <1>2, <1>10, <2>1
  <2> QED
    BY <2>1, <2>2
<1> HIDE DEF Good
<1>13. \A k \in 0..len : k \in Good
  BY <1>1, <1>11, <1>12, Induction
<1> QED
  BY <1>10, <1>13 DEF Good, P, N, len, base

(* Reached is what its equation says. *)
LEMMA ReachedStep ==
  ASSUME NEW C, NEW text \in Seq(C), NEW D, NEW pattern \in Seq(D)
  PROVE  /\ Reached(text, pattern)[0] = {0}
         /\ \A n \in 1..Len(pattern) : Reached(text, pattern)[n] = Reach(Reached(text, pattern)[n - 1], pattern[n], text)
         /\ \A n \in 0..Len(pattern) : Reached(text, pattern)[n] \in SUBSET (0..Len(text))
<1> DEFINE N == SUBSET (0..Len(text))
           base == {0}
           len == Len(pattern)
           P == Reached(text, pattern)
           step == [x \in (1..len) \X N |-> Reach(x[2], pattern[x[1]], text)]
           Eq(g) == g = [k \in 0..len |-> IF k = 0 THEN base ELSE Reach(g[k - 1], pattern[k], text)]
<1>1. base \in N /\ len \in Nat
  OBVIOUS
<1>2. \A k \in 1..len, v \in N : Reach(v, pattern[k], text) \in N
  BY DEF Reach
<1>3. Steps(step, len, N)
  BY <1>2 DEF Steps
<1>4. \A k \in 1..len, v \in N : step[<<k, v>>] = Reach(v, pattern[k], text)
  OBVIOUS
<1>5. P = CHOOSE g : Eq(g)
  BY DEF Reached
<1> HIDE DEF step, N, len, P, base
<1>6. PICK f : Solves(f, len, N, base, step)
  BY <1>1, <1>3, Recursion
<1>7. f \in [0..len -> N] /\ f[0] = base /\ \A k \in 1..len : f[k] = step[<<k, f[k - 1]>>]
  BY <1>6 DEF Solves
<1>8. Eq(f)
  <2>1. ASSUME NEW k \in 0..len PROVE f[k] = IF k = 0 THEN base ELSE Reach(f[k - 1], pattern[k], text)
    <3>1. CASE k = 0
      BY <1>7, <3>1
    <3>2. CASE k # 0
      <4>1. k \in 1..len /\ k - 1 \in 0..len
        BY <1>1, <3>2
      <4>2. f[k - 1] \in N
        BY <1>7, <4>1
      <4> QED
        BY <1>4, <1>7, <3>2, <4>1, <4>2
    <3> QED
      BY <3>1, <3>2
  <2>2. f = [k \in 0..len |-> f[k]]
    BY <1>7
  <2> QED
    BY <2>1, <2>2
<1> HIDE DEF Eq
<1>9. Eq(P)
  BY <1>5, <1>8, Zenon
<1>10. P[0] = base /\ \A k \in 1..len : P[k] = Reach(P[k - 1], pattern[k], text)
  <2>1. P[0] = base
    BY <1>1, <1>9 DEF Eq
  <2>2. ASSUME NEW k \in 1..len PROVE P[k] = Reach(P[k - 1], pattern[k], text)
    <3>1. k \in 0..len /\ k # 0
      BY <1>1
    <3> QED
      BY <1>9, <3>1 DEF Eq
  <2> QED
    BY <2>1, <2>2
<1> DEFINE Good == {k \in 0..len : P[k] \in N}
<1>11. 0 \in Good
  BY <1>1, <1>10
<1>12. ASSUME NEW k \in 1..len, k - 1 \in Good PROVE k \in Good
  <2>1. k \in 0..len /\ P[k - 1] \in N
    BY <1>1, <1>12
  <2>2. P[k] \in N
    BY <1>2, <1>10, <2>1
  <2> QED
    BY <2>1, <2>2
<1> HIDE DEF Good
<1>13. \A k \in 0..len : k \in Good
  BY <1>1, <1>11, <1>12, Induction
<1> QED
  BY <1>10, <1>13 DEF Good, P, N, len, base

\* The lists of tokens there are.
Lists(C) == {tokens \in Seq(Seq(C)) : tokens # <<>>}

(* One more character leaves a list of tokens one. *)
LEMMA CutType ==
  ASSUME NEW C, NEW tokens \in Lists(C), NEW c \in C
  PROVE  Cut(tokens, c) \in Lists(C)
<1>1. Len(tokens) \in 1..Len(tokens) /\ Append(tokens[Len(tokens)], c) \in Seq(C)
  BY DEF Lists
<1>2. [tokens EXCEPT ![Len(tokens)] = Append(@, c)] \in Lists(C)
  BY <1>1 DEF Lists
<1>3. Append(tokens, <<>>) \in Lists(C)
  BY DEF Lists
<1> QED
  BY <1>2, <1>3, Zenon DEF Cut

(* Cuts is what its equation says. *)
LEMMA CutsStep ==
  ASSUME NEW C, NEW text \in Seq(C)
  PROVE  /\ Cuts(text)[0] = <<<<>>>>
         /\ \A n \in 1..Len(text) : Cuts(text)[n] = Cut(Cuts(text)[n - 1], text[n])
         /\ \A n \in 0..Len(text) : Cuts(text)[n] \in Lists(C)
<1> DEFINE N == Lists(C)
           base == <<<<>>>>
           len == Len(text)
           P == Cuts(text)
           step == [x \in (1..len) \X N |-> Cut(x[2], text[x[1]])]
           Eq(g) == g = [k \in 0..len |-> IF k = 0 THEN base ELSE Cut(g[k - 1], text[k])]
<1>1. base \in N /\ len \in Nat
  BY DEF Lists
<1>2. \A k \in 1..len, v \in N : Cut(v, text[k]) \in N
  BY CutType
<1>3. Steps(step, len, N)
  BY <1>2 DEF Steps
<1>4. \A k \in 1..len, v \in N : step[<<k, v>>] = Cut(v, text[k])
  OBVIOUS
<1>5. P = CHOOSE g : Eq(g)
  BY DEF Cuts
<1> HIDE DEF step, N, len, P, base
<1>6. PICK f : Solves(f, len, N, base, step)
  BY <1>1, <1>3, Recursion
<1>7. f \in [0..len -> N] /\ f[0] = base /\ \A k \in 1..len : f[k] = step[<<k, f[k - 1]>>]
  BY <1>6 DEF Solves
<1>8. Eq(f)
  <2>1. ASSUME NEW k \in 0..len PROVE f[k] = IF k = 0 THEN base ELSE Cut(f[k - 1], text[k])
    <3>1. CASE k = 0
      BY <1>7, <3>1
    <3>2. CASE k # 0
      <4>1. k \in 1..len /\ k - 1 \in 0..len
        BY <1>1, <3>2
      <4>2. f[k - 1] \in N
        BY <1>7, <4>1
      <4> QED
        BY <1>4, <1>7, <3>2, <4>1, <4>2
    <3> QED
      BY <3>1, <3>2
  <2>2. f = [k \in 0..len |-> f[k]]
    BY <1>7
  <2> QED
    BY <2>1, <2>2
<1> HIDE DEF Eq
<1>9. Eq(P)
  BY <1>5, <1>8, Zenon
<1>10. P[0] = base /\ \A k \in 1..len : P[k] = Cut(P[k - 1], text[k])
  <2>1. P[0] = base
    BY <1>1, <1>9 DEF Eq
  <2>2. ASSUME NEW k \in 1..len PROVE P[k] = Cut(P[k - 1], text[k])
    <3>1. k \in 0..len /\ k # 0
      BY <1>1
    <3> QED
      BY <1>9, <3>1 DEF Eq
  <2> QED
    BY <2>1, <2>2
<1> DEFINE Good == {k \in 0..len : P[k] \in N}
<1>11. 0 \in Good
  BY <1>1, <1>10
<1>12. ASSUME NEW k \in 1..len, k - 1 \in Good PROVE k \in Good
  <2>1. k \in 0..len /\ P[k - 1] \in N
    BY <1>1, <1>12
  <2>2. P[k] \in N
    BY <1>2, <1>10, <2>1
  <2> QED
    BY <2>1, <2>2
<1> HIDE DEF Good
<1>13. \A k \in 0..len : k \in Good
  BY <1>1, <1>11, <1>12, Induction
<1> QED
  BY <1>10, <1>13 DEF Good, P, N, len, base

(* A function on the numbers up to n is a sequence. *)
LEMMA FunctionIsSeq ==
  ASSUME NEW S, NEW n \in Nat, NEW f \in [1..n -> S]
  PROVE  f \in Seq(S) /\ Len(f) = n
<1>1. f \in Seq(S)
  BY SeqDef
<1>2. DOMAIN f = 1..Len(f) /\ Len(f) \in Nat
  BY <1>1, LenProperties
<1>3. DOMAIN f = 1..n
  OBVIOUS
<1>4. Len(f) = n
  <2> DEFINE len == Len(f)
  <2>1. 1..len = 1..n /\ len \in Nat
    BY <1>2, <1>3
  <2> HIDE DEF len
  <2>2. len = n
    <3>1. CASE len < n
      <4>1. n \in 1..n /\ n \notin 1..len
        BY <2>1, <3>1
      <4> QED
        BY <2>1, <4>1
    <3>2. CASE n < len
      <4>1. len \in 1..len /\ len \notin 1..n
        BY <2>1, <3>2
      <4> QED
        BY <2>1, <4>1
    <3> QED
      BY <2>1, <3>1, <3>2
  <2> QED
    BY <2>2 DEF len
<1> QED
  BY <1>1, <1>4

(* A set that holds the empty text and with each text its longer ones by a character, holds
   them all. *)
LEMMA TextInduction ==
  ASSUME NEW C, NEW Good, <<>> \in Good,
         \A s \in Seq(C), c \in C : s \in Good => Append(s, c) \in Good
  PROVE  Seq(C) \subseteq Good
<1> SUFFICES ASSUME NEW text \in Seq(C) PROVE text \in Good
  OBVIOUS
<1> DEFINE len == Len(text)
           Fine == {n \in 0..len : SubSeq(text, 1, n) \in Good}
<1>1. len \in Nat /\ \A n \in 1..len : text[n] \in C
  OBVIOUS
<1>2. 0 \in Fine
  <2>1. SubSeq(text, 1, 0) = <<>>
    BY SubSeqEmpty
  <2>2. SubSeq(text, 1, 0) \in Good
    BY <2>1, Zenon
  <2>3. 0 \in 0..len
    BY <1>1
  <2> QED
    BY <2>2, <2>3
<1>3. ASSUME NEW n \in 1..len, n - 1 \in Fine PROVE n \in Fine
  <2> DEFINE before == SubSeq(text, 1, n - 1)
  <2>1. before \in Seq(C) /\ before \in Good
    BY <1>3
  <2>2. SubSeq(text, 1, n) = before \o <<text[n]>>
    <3>1. 1 \in 1..Len(text) /\ n \in 1..Len(text)
      OBVIOUS
    <3> QED
      BY <3>1, SubSeqRecursiveSecond
  <2> HIDE DEF before
  <2>3. before \o <<text[n]>> = Append(before, text[n])
    BY <1>1, <2>1, AppendIsConcat
  <2>4. SubSeq(text, 1, n) \in Good
    BY <1>1, <2>1, <2>2, <2>3
  <2> QED
    BY <2>4
<1> HIDE DEF Fine
<1>4. \A n \in 0..len : n \in Fine
  BY <1>1, <1>2, <1>3, Induction
<1>5. SubSeq(text, 1, len) \in Good
  BY <1>1, <1>4 DEF Fine
<1>6. SubSeq(text, 1, len) = text
  BY SubSeqFull
<1> QED
  BY <1>5, <1>6

(* One more piece. *)
LEMMA PiecesAppend ==
  ASSUME NEW D, NEW s \in Seq(Seq(D)), NEW c \in Seq(D)
  PROVE  Pieces(Append(s, c))[Len(Append(s, c))] = Pieces(s)[Len(s)] \o c
<1> DEFINE len == Len(s)
           t == Append(s, c)
           P == Pieces(s)
           Q == Pieces(t)
           Good == {n \in 0..len : P[n] = Q[n]}
<1>1. len \in Nat /\ t \in Seq(Seq(D)) /\ Len(t) = len + 1 /\ t[len + 1] = c /\ \A n \in 1..len : t[n] = s[n]
  OBVIOUS
<1>2. P[0] = Q[0] /\ \A n \in 1..len : P[n] = P[n - 1] \o s[n]
  <2> HIDE DEF t
  <2>1. Q[0] = <<>>
    BY <1>1, PiecesStep
  <2>2. P[0] = <<>> /\ \A n \in 1..len : P[n] = P[n - 1] \o s[n]
    BY PiecesStep
  <2> QED
    BY <2>1, <2>2
<1>3. \A n \in 1..(len + 1) : Q[n] = Q[n - 1] \o t[n]
  <2> HIDE DEF t
  <2>1. \A n \in 1..Len(t) : Q[n] = Q[n - 1] \o t[n]
    BY <1>1, PiecesStep
  <2> QED
    BY <1>1, <2>1
<1> HIDE DEF P, Q, len, t
<1>4. 0 \in Good
  BY <1>1, <1>2
<1>5. ASSUME NEW n \in 1..len, n - 1 \in Good PROVE n \in Good
  <2>1. n \in 1..(len + 1) /\ P[n - 1] = Q[n - 1] /\ t[n] = s[n]
    BY <1>1, <1>5
  <2>2. P[n] = Q[n]
    BY <1>2, <1>3, <2>1
  <2> QED
    BY <1>1, <2>2
<1> HIDE DEF Good
<1>6. \A n \in 0..len : n \in Good
  BY <1>1, <1>4, <1>5, Induction
<1>7. P[len] = Q[len]
  BY <1>1, <1>6 DEF Good
<1>8. len + 1 \in 1..(len + 1) /\ (len + 1) - 1 = len
  BY <1>1
<1>9. Q[len + 1] = P[len] \o c
  BY <1>1, <1>3, <1>7, <1>8
<1> QED
  BY <1>1, <1>9 DEF P, Q, len, t

(* One more character of an id. *)
LEMMA ReadAppend ==
  ASSUME NEW C, NEW s \in Seq(C), NEW c \in C
  PROVE  Read(Append(s, c))[Len(Append(s, c))] = ReadOn(Read(s)[Len(s)], c)
<1> DEFINE len == Len(s)
           t == Append(s, c)
           P == Read(s)
           Q == Read(t)
           Good == {n \in 0..len : P[n] = Q[n]}
<1>1. len \in Nat /\ t \in Seq(C) /\ Len(t) = len + 1 /\ t[len + 1] = c /\ \A n \in 1..len : t[n] = s[n]
  OBVIOUS
<1>2. P[0] = Q[0] /\ \A n \in 1..len : P[n] = ReadOn(P[n - 1], s[n])
  <2> HIDE DEF t
  <2>1. Q[0] = [at |-> "inside", id |-> <<>>]
    BY <1>1, ReadStep
  <2>2. P[0] = [at |-> "inside", id |-> <<>>] /\ \A n \in 1..len : P[n] = ReadOn(P[n - 1], s[n])
    BY ReadStep
  <2> QED
    BY <2>1, <2>2
<1>3. \A n \in 1..(len + 1) : Q[n] = ReadOn(Q[n - 1], t[n])
  <2> HIDE DEF t
  <2>1. \A n \in 1..Len(t) : Q[n] = ReadOn(Q[n - 1], t[n])
    BY <1>1, ReadStep
  <2> QED
    BY <1>1, <2>1
<1> HIDE DEF P, Q, len, t
<1>4. 0 \in Good
  BY <1>1, <1>2
<1>5. ASSUME NEW n \in 1..len, n - 1 \in Good PROVE n \in Good
  <2>1. n \in 1..(len + 1) /\ P[n - 1] = Q[n - 1] /\ t[n] = s[n]
    BY <1>1, <1>5
  <2>2. P[n] = Q[n]
    BY <1>2, <1>3, <2>1
  <2> QED
    BY <1>1, <2>2
<1> HIDE DEF Good
<1>6. \A n \in 0..len : n \in Good
  BY <1>1, <1>4, <1>5, Induction
<1>7. P[len] = Q[len]
  BY <1>1, <1>6 DEF Good
<1>8. len + 1 \in 1..(len + 1) /\ (len + 1) - 1 = len
  BY <1>1
<1>9. Q[len + 1] = ReadOn(P[len], c)
  BY <1>1, <1>3, <1>7, <1>8
<1> QED
  BY <1>1, <1>9 DEF P, Q, len, t

(* One more character of a text. *)
LEMMA CutsAppend ==
  ASSUME NEW C, NEW s \in Seq(C), NEW c \in C
  PROVE  Cuts(Append(s, c))[Len(Append(s, c))] = Cut(Cuts(s)[Len(s)], c)
<1> DEFINE len == Len(s)
           t == Append(s, c)
           P == Cuts(s)
           Q == Cuts(t)
           Good == {n \in 0..len : P[n] = Q[n]}
<1>1. len \in Nat /\ t \in Seq(C) /\ Len(t) = len + 1 /\ t[len + 1] = c /\ \A n \in 1..len : t[n] = s[n]
  OBVIOUS
<1>2. P[0] = Q[0] /\ \A n \in 1..len : P[n] = Cut(P[n - 1], s[n])
  <2> HIDE DEF t
  <2>1. Q[0] = <<<<>>>>
    BY <1>1, CutsStep
  <2>2. P[0] = <<<<>>>> /\ \A n \in 1..len : P[n] = Cut(P[n - 1], s[n])
    BY CutsStep
  <2> QED
    BY <2>1, <2>2
<1>3. \A n \in 1..(len + 1) : Q[n] = Cut(Q[n - 1], t[n])
  <2> HIDE DEF t
  <2>1. \A n \in 1..Len(t) : Q[n] = Cut(Q[n - 1], t[n])
    BY <1>1, CutsStep
  <2> QED
    BY <1>1, <2>1
<1> HIDE DEF P, Q, len, t
<1>4. 0 \in Good
  BY <1>1, <1>2
<1>5. ASSUME NEW n \in 1..len, n - 1 \in Good PROVE n \in Good
  <2>1. n \in 1..(len + 1) /\ P[n - 1] = Q[n - 1] /\ t[n] = s[n]
    BY <1>1, <1>5
  <2>2. P[n] = Q[n]
    BY <1>2, <1>3, <2>1
  <2> QED
    BY <1>1, <2>2
<1> HIDE DEF Good
<1>6. \A n \in 0..len : n \in Good
  BY <1>1, <1>4, <1>5, Induction
<1>7. P[len] = Q[len]
  BY <1>1, <1>6 DEF Good
<1>8. len + 1 \in 1..(len + 1) /\ (len + 1) - 1 = len
  BY <1>1
<1>9. Q[len + 1] = Cut(P[len], c)
  BY <1>1, <1>3, <1>7, <1>8
<1> QED
  BY <1>1, <1>9 DEF P, Q, len, t

(* Together with nothing, and with one more. *)
LEMMA TogetherAppend ==
  ASSUME NEW D
  PROVE  /\ Together(<<>>) = <<>>
         /\ \A s \in Seq(Seq(D)) : Together(s) \in Seq(D)
         /\ \A s \in Seq(Seq(D)), c \in Seq(D) : Together(Append(s, c)) = Together(s) \o c
<1>1. Together(<<>>) = <<>>
  <2>1. <<>> \in Seq(Seq(D)) /\ Len(<<>>) = 0
    BY EmptySeq
  <2>2. Pieces(<<>>)[0] = <<>>
    BY <2>1, PiecesStep
  <2> QED
    BY <2>1, <2>2 DEF Together
<1>2. ASSUME NEW s \in Seq(Seq(D)) PROVE Together(s) \in Seq(D)
  <2>1. Len(s) \in 0..Len(s)
    OBVIOUS
  <2> QED
    BY <2>1, PiecesStep DEF Together
<1>3. ASSUME NEW s \in Seq(Seq(D)), NEW c \in Seq(D) PROVE Together(Append(s, c)) = Together(s) \o c
  BY PiecesAppend DEF Together
<1> QED
  BY <1>1, <1>2, <1>3

-----------------------------------------------------------------------------
(* Quoting, and reading what was quoted *)

(* The two characters that mean something in a quoted text are two. *)
LEMMA QuotingDiffer == Backslash # Quote
  BY Zenon DEF Backslash, Quote

(* Nor is either of them the letter a line break is written with. *)
LEMMA QuotingCharacters == Backslash # Quote /\ Backslash # "n" /\ Quote # "n"
  BY Zenon DEF Backslash, Quote

\* What a quoted text is made of.
Quoting(C) == C \cup {Backslash, Quote}

\* What a replacement makes of one character.
Piece(c, char, by) == IF c = char THEN by ELSE <<c>>

\* The pieces of a text, before they are put together.
PiecesOf(s, char, by) == [i \in 1..Len(s) |-> Piece(s[i], char, by)]

(* They are texts, one for each character. *)
LEMMA PiecesOfType ==
  ASSUME NEW C, NEW char, NEW by \in Seq(C), NEW s \in Seq(C)
  PROVE  /\ PiecesOf(s, char, by) \in Seq(Seq(C))
         /\ Len(PiecesOf(s, char, by)) = Len(s)
<1> DEFINE piece(c) == Piece(c, char, by)
           pieces == PiecesOf(s, char, by)
<1>1. ASSUME NEW c \in C PROVE piece(c) \in Seq(C)
  BY DEF Piece
<1>2. pieces = [i \in 1..Len(s) |-> piece(s[i])]
  BY DEF PiecesOf
<1> HIDE DEF piece, pieces
<1>3. \A i \in 1..Len(s) : piece(s[i]) \in Seq(C)
  BY <1>1
<1>4. pieces \in [1..Len(s) -> Seq(C)] /\ Len(s) \in Nat
  BY <1>2, <1>3
<1>5. pieces \in Seq(Seq(C)) /\ Len(pieces) = Len(s)
  BY <1>4, FunctionIsSeq
<1> QED
  BY <1>5 DEF pieces

(* Nothing of a text without characters is replaced. *)
LEMMA ReplaceNone ==
  ASSUME NEW C, NEW char, NEW by \in Seq(C), NEW none \in Seq(C), Len(none) = 0
  PROVE  Replace(none, char, by) = none
<1>1. Replace(none, char, by) = Together(PiecesOf(none, char, by))
  BY DEF Replace, Piece, PiecesOf
<1>2. ASSUME NEW s \in Seq(C)
      PROVE  PiecesOf(s, char, by) \in Seq(Seq(C)) /\ Len(PiecesOf(s, char, by)) = Len(s)
  BY PiecesOfType
<1>3. none = <<>> /\ PiecesOf(none, char, by) = <<>>
  BY <1>2, EmptySeq
<1>4. Together(<<>>) = <<>>
  BY TogetherAppend
<1> QED
  BY <1>1, <1>3, <1>4

(* Replacing a character in a text leaves a text. *)
LEMMA ReplaceType ==
  ASSUME NEW C, NEW char, NEW by \in Seq(C)
  PROVE  /\ Replace(<<>>, char, by) = <<>>
         /\ \A s \in Seq(C) : Replace(s, char, by) \in Seq(C)
<1>1. ASSUME NEW s \in Seq(C) PROVE Replace(s, char, by) = Together(PiecesOf(s, char, by))
  BY DEF Replace, Piece, PiecesOf
<1>2. ASSUME NEW s \in Seq(C) PROVE Replace(s, char, by) \in Seq(C)
  BY <1>1, PiecesOfType, TogetherAppend
<1>3. ASSUME NEW none \in Seq(C), Len(none) = 0 PROVE Replace(none, char, by) = none
  BY <1>3, ReplaceNone
<1>4. <<>> \in Seq(C) /\ Len(<<>>) = 0
  BY EmptySeq
<1> QED
  BY <1>2, <1>3, <1>4

(* Replacing a character, one more of a text at a time. *)
LEMMA ReplaceAppend ==
  ASSUME NEW C, NEW char, NEW by \in Seq(C), NEW s \in Seq(C), NEW c \in C
  PROVE  Replace(Append(s, c), char, by) = Replace(s, char, by) \o Piece(c, char, by)
<1> DEFINE t == Append(s, c)
           piece(x) == Piece(x, char, by)
           before == PiecesOf(s, char, by)
           after == PiecesOf(t, char, by)
           longer == Append(before, piece(c))
<1>1. t \in Seq(C) /\ Len(t) = Len(s) + 1 /\ t[Len(s) + 1] = c /\ Len(s) \in Nat
      /\ \A i \in 1..Len(s) : t[i] = s[i]
  BY AppendProperties, LenProperties
<1>2. piece(c) \in Seq(C)
  BY DEF Piece
<1>3. (\A i \in 1..Len(s) : before[i] = piece(s[i])) /\ Replace(s, char, by) = Together(before)
  BY DEF PiecesOf, Replace, Piece
<1> HIDE DEF t, piece
<1>4. (\A i \in 1..Len(t) : after[i] = piece(t[i])) /\ Replace(t, char, by) = Together(after)
  BY DEF PiecesOf, Replace, Piece, piece
<1>5. before \in Seq(Seq(C)) /\ Len(before) = Len(s)
  BY PiecesOfType
<1>6. after \in Seq(Seq(C)) /\ Len(after) = Len(s) + 1
  BY <1>1, PiecesOfType
<1> HIDE DEF before, after
<1>7. longer \in Seq(Seq(C)) /\ Len(longer) = Len(s) + 1
      /\ (\A i \in 1..Len(s) : longer[i] = before[i]) /\ longer[Len(s) + 1] = piece(c)
  BY <1>2, <1>5, AppendProperties
<1>8. Together(longer) = Together(before) \o piece(c)
  BY <1>2, <1>5, TogetherAppend
<1> HIDE DEF longer
<1>9. ASSUME NEW i \in 1..(Len(s) + 1) PROVE after[i] = longer[i]
  <2>1. CASE i = Len(s) + 1
    BY <1>1, <1>4, <1>7, <2>1
  <2>2. CASE i # Len(s) + 1
    <3>1. i \in 1..Len(s) /\ i \in 1..Len(t)
      BY <1>1, <2>2
    <3> QED
      BY <1>1, <1>3, <1>4, <1>7, <3>1
  <2> QED
    BY <2>1, <2>2
<1>10. after = longer
  BY <1>6, <1>7, <1>9, SeqEqual
<1> QED
  BY <1>3, <1>4, <1>8, <1>10 DEF t, piece

(* Escaping, one more character at a time: the two that end or escape get a backslash. *)
LEMMA EscapeAppend ==
  ASSUME NEW C, Backslash \in C, Quote \in C
  PROVE  /\ Escape(<<>>) = <<>>
         /\ \A s \in Seq(C) : Escape(s) \in Seq(C)
         /\ \A s \in Seq(C), c \in C :
              Escape(Append(s, c)) =
                IF c \in {Backslash, Quote} THEN Append(Append(Escape(s), Backslash), c) ELSE Append(Escape(s), c)
<1> DEFINE inner(s) == Replace(s, Backslash, <<Backslash, Backslash>>)
           outer(s) == Replace(s, Quote, <<Backslash, Quote>>)
<1> USE QuotingDiffer
<1>1. <<Backslash, Backslash>> \in Seq(C) /\ <<Backslash, Quote>> \in Seq(C)
  OBVIOUS
<1>2. \A s \in Seq(C) : Escape(s) = outer(inner(s))
  BY DEF Escape
<1>3. Escape(<<>>) = outer(inner(<<>>))
  BY DEF Escape
<1>4. inner(<<>>) = <<>> /\ \A s \in Seq(C) : inner(s) \in Seq(C)
  BY <1>1, ReplaceType
<1>5. outer(<<>>) = <<>> /\ \A s \in Seq(C) : outer(s) \in Seq(C)
  BY <1>1, ReplaceType
<1>6. ASSUME NEW s \in Seq(C), NEW c \in C PROVE inner(Append(s, c)) = inner(s) \o Piece(c, Backslash, <<Backslash, Backslash>>)
  <2> DEFINE by == <<Backslash, Backslash>>
  <2>1. by \in Seq(C)
    BY <1>1
  <2> HIDE DEF by
  <2>2. Replace(Append(s, c), Backslash, by) = Replace(s, Backslash, by) \o Piece(c, Backslash, by)
    BY <2>1, ReplaceAppend
  <2> QED
    BY <2>2 DEF by
<1>7. ASSUME NEW s \in Seq(C), NEW c \in C PROVE outer(Append(s, c)) = outer(s) \o Piece(c, Quote, <<Backslash, Quote>>)
  <2> DEFINE by == <<Backslash, Quote>>
  <2>1. by \in Seq(C)
    BY <1>1
  <2> HIDE DEF by
  <2>2. Replace(Append(s, c), Quote, by) = Replace(s, Quote, by) \o Piece(c, Quote, by)
    BY <2>1, ReplaceAppend
  <2> QED
    BY <2>2 DEF by
<1> HIDE DEF inner, outer
<1>8. ASSUME NEW s \in Seq(C), NEW a \in C, NEW b \in C PROVE s \o <<a, b>> = Append(Append(s, a), b)
  <2> DEFINE two == <<a, b>>
  <2>1. two \in Seq(C) /\ Len(two) = 2 /\ two[1] = a /\ two[2] = b
    OBVIOUS
  <2> HIDE DEF two
  <2>2. s \o two \in Seq(C) /\ Len(s \o two) = Len(s) + 2
        /\ \A i \in 1..(Len(s) + 2) : (s \o two)[i] = IF i <= Len(s) THEN s[i] ELSE two[i - Len(s)]
    <3>1. s \o two \in Seq(C) /\ Len(s \o two) = Len(s) + Len(two)
          /\ \A i \in 1..(Len(s) + Len(two)) : (s \o two)[i] = IF i <= Len(s) THEN s[i] ELSE two[i - Len(s)]
      BY <2>1, ConcatProperties, Zenon
    <3> QED
      BY <2>1, <3>1
  <2>3. Len(s) \in Nat /\ Append(Append(s, a), b) \in Seq(C) /\ Len(Append(Append(s, a), b)) = Len(s) + 2
        /\ \A i \in 1..(Len(s) + 2) : Append(Append(s, a), b)[i] =
             IF i <= Len(s) THEN s[i] ELSE IF i = Len(s) + 1 THEN a ELSE b
    OBVIOUS
  <2>4. ASSUME NEW i \in 1..(Len(s) + 2) PROVE (s \o two)[i] = Append(Append(s, a), b)[i]
    <3>1. CASE i <= Len(s)
      BY <2>2, <2>3, <3>1
    <3>2. CASE i = Len(s) + 1
      <4>1. i - Len(s) = 1 /\ ~ (i <= Len(s))
        BY <2>3, <3>2
      <4> QED
        BY <2>1, <2>2, <2>3, <3>2, <4>1
    <3>3. CASE i = Len(s) + 2
      <4>1. i - Len(s) = 2 /\ ~ (i <= Len(s)) /\ i # Len(s) + 1
        BY <2>3, <3>3
      <4> QED
        BY <2>1, <2>2, <2>3, <3>3, <4>1
    <3>4. i <= Len(s) \/ i = Len(s) + 1 \/ i = Len(s) + 2
      BY <2>3
    <3> QED
      BY <3>1, <3>2, <3>3, <3>4
  <2>5. s \o two = Append(Append(s, a), b)
    BY <2>2, <2>3, <2>4, SeqEqual
  <2> QED
    BY <2>5 DEF two
<1>9. ASSUME NEW s \in Seq(C), NEW c \in C, c # Quote PROVE outer(Append(s, c)) = Append(outer(s), c)
  <2>1. outer(Append(s, c)) = outer(s) \o <<c>>
    BY <1>7, <1>9 DEF Piece
  <2>2. outer(s) \in Seq(C)
    BY <1>5
  <2> QED
    BY <2>1, <2>2, AppendIsConcat
<1>10. ASSUME NEW s \in Seq(C), NEW c \in C
       PROVE  Escape(Append(s, c)) =
                IF c \in {Backslash, Quote} THEN Append(Append(Escape(s), Backslash), c) ELSE Append(Escape(s), c)
  <2> DEFINE i == inner(s)
  <2>1. i \in Seq(C) /\ Escape(s) = outer(i) /\ Append(s, c) \in Seq(C)
        /\ Escape(Append(s, c)) = outer(inner(Append(s, c))) /\ outer(i) \in Seq(C)
    <3>1. Append(s, c) \in Seq(C)
      OBVIOUS
    <3>2. i \in Seq(C) /\ Escape(s) = outer(i)
      BY <1>2, <1>4
    <3>3. Escape(Append(s, c)) = outer(inner(Append(s, c)))
      BY <1>2, <3>1
    <3> HIDE DEF i
    <3> QED
      BY <1>5, <3>1, <3>2, <3>3
  <2>2. inner(Append(s, c)) = i \o Piece(c, Backslash, <<Backslash, Backslash>>)
    BY <1>6
  <2> HIDE DEF i
  <2>3. CASE c = Backslash
    <3>1. inner(Append(s, c)) = Append(Append(i, Backslash), Backslash)
      BY <1>8, <2>1, <2>2, <2>3 DEF Piece
    <3>2. Append(i, Backslash) \in Seq(C)
      BY <2>1
    <3>3. outer(Append(Append(i, Backslash), Backslash)) = Append(outer(Append(i, Backslash)), Backslash)
      BY <1>9, <3>2
    <3>4. outer(Append(i, Backslash)) = Append(outer(i), Backslash)
      BY <1>9, <2>1
    <3> QED
      BY <2>1, <2>3, <3>1, <3>3, <3>4
  <2>4. CASE c = Quote
    <3>1. inner(Append(s, c)) = Append(i, c)
      BY <2>1, <2>2, <2>4, AppendIsConcat DEF Piece
    <3>2. outer(Append(i, c)) = outer(i) \o <<Backslash, Quote>>
      BY <1>7, <2>1, <2>4 DEF Piece
    <3>3. outer(i) \o <<Backslash, Quote>> = Append(Append(outer(i), Backslash), c)
      BY <1>8, <2>1, <2>4
    <3> QED
      BY <2>1, <2>4, <3>1, <3>2, <3>3
  <2>5. CASE c \notin {Backslash, Quote}
    <3>1. inner(Append(s, c)) = Append(i, c)
      BY <2>1, <2>2, <2>5, AppendIsConcat DEF Piece
    <3>2. outer(Append(i, c)) = Append(outer(i), c)
      BY <1>9, <2>1, <2>5
    <3> QED
      BY <2>1, <2>5, <3>1, <3>2
  <2> QED
    BY <2>3, <2>4, <2>5
<1>11. \A s \in Seq(C) : Escape(s) \in Seq(C)
  BY <1>2, <1>4, <1>5
<1>12. Escape(<<>>) = <<>>
  BY <1>3, <1>4, <1>5
<1> QED
  BY <1>10, <1>11, <1>12

(* What is quoted and read back is what it was. *)
THEOREM NamesAreReadBack ==
  ASSUME NEW name \in Texts
  PROVE  Uid(name) = name
<1> DEFINE C == Quoting(Characters)
           end(quoted) == Read(quoted)[Len(quoted)]
           inside(s) == [at |-> "inside", id |-> s]
           Good == {s \in Seq(C) : end(Escape(s)) = inside(s)}
<1> USE QuotingCharacters
<1>1. Backslash \in C /\ Quote \in C /\ name \in Seq(C)
  BY SeqMonotonic DEF Quoting, Texts
<1> HIDE DEF C
<1>2. \A q \in Seq(C), c \in C : end(Append(q, c)) = ReadOn(end(q), c)
  BY ReadAppend
<1>3. end(<<>>) = inside(<<>>)
  BY ReadStep, EmptySeq
<1> HIDE DEF end
<1>4. <<>> \in Good
  BY <1>1, <1>3, EscapeAppend, EmptySeq
<1>5. ASSUME NEW s \in Seq(C), NEW c \in C, s \in Good PROVE Append(s, c) \in Good
  <2>1. Escape(s) \in Seq(C) /\ end(Escape(s)) = inside(s) /\ Append(s, c) \in Seq(C)
    BY <1>1, <1>5, EscapeAppend
  <2>2. CASE c \in {Backslash, Quote}
    <3>1. Escape(Append(s, c)) = Append(Append(Escape(s), Backslash), c) /\ Append(Escape(s), Backslash) \in Seq(C)
      BY <1>1, <2>1, <2>2, EscapeAppend
    <3>2. end(Append(Escape(s), Backslash)) = [at |-> "escaped", id |-> s]
      BY <1>1, <1>2, <2>1 DEF ReadOn
    <3>3. end(Append(Append(Escape(s), Backslash), c)) = ReadOn([at |-> "escaped", id |-> s], c)
      BY <1>2, <3>1, <3>2
    <3>4. ReadOn([at |-> "escaped", id |-> s], c) = inside(Append(s, c))
      BY <2>2 DEF ReadOn
    <3> QED
      BY <2>1, <3>1, <3>3, <3>4
  <2>3. CASE c \notin {Backslash, Quote}
    <3>1. Escape(Append(s, c)) = Append(Escape(s), c)
      BY <1>1, <2>1, <2>3, EscapeAppend
    <3>2. end(Append(Escape(s), c)) = ReadOn(inside(s), c)
      BY <1>2, <2>1
    <3>3. ReadOn(inside(s), c) = inside(Append(s, c))
      BY <2>3 DEF ReadOn
    <3> QED
      BY <2>1, <3>1, <3>2, <3>3
  <2> QED
    BY <2>2, <2>3
<1> HIDE DEF Good
<1>6. Seq(C) \subseteq Good
  BY <1>4, <1>5, TextInduction
<1>7. Escape(name) \in Seq(C) /\ end(Escape(name)) = inside(name)
  BY <1>1, <1>6, EscapeAppend DEF Good
<1>8. end(Append(Escape(name), Quote)) = [at |-> "closed", id |-> name]
  BY <1>1, <1>2, <1>7 DEF ReadOn
<1> QED
  BY <1>8 DEF Uid, CedarId, end

-----------------------------------------------------------------------------
(* Conditions, node by node *)

(* A subtree is what its equation says. *)
LEMMA SubtreeStep ==
  ASSUME NEW node \in Nodes
  PROVE  /\ Subtree[node] = {node} \cup UNION {Subtree[child] : child \in Children(node)}
         /\ Subtree[node] \subseteq Nodes
<1> DEFINE S == SUBSET Nodes
           body(n, f) == {n} \cup UNION {f[child] : child \in Children(n)}
           step == [x \in Nodes \X [Nodes -> S] |-> body(x[1], x[2])]
           Eq(g) == g = [n \in Nodes |-> body(n, g)]
<1>1. \A n \in Nodes : Children(n) \subseteq Nodes
  BY Constants DEF ConstantsAssumption
<1>2. ASSUME NEW n \in Nodes, NEW f \in [Nodes -> S] PROVE body(n, f) \in S /\ step[<<n, f>>] = body(n, f)
  BY <1>1
<1>3. ASSUME NEW n \in Nodes, NEW f \in [Nodes -> S], NEW g \in [Nodes -> S],
             \A child \in Children(n) : f[child] = g[child]
      PROVE  body(n, f) = body(n, g)
  BY <1>3
<1>4. step \in [Nodes \X [Nodes -> S] -> S]
  <2>1. \A x \in Nodes \X [Nodes -> S] : body(x[1], x[2]) \in S
    <3> HIDE DEF body, S
    <3> QED
      BY <1>2
  <2> HIDE DEF body, S
  <2> QED
    BY <2>1
<1>5. S # {}
  OBVIOUS
<1>6. Subtree = CHOOSE g : Eq(g)
  BY DEF Subtree
<1> HIDE DEF step, body, S
<1>7. Climbs(step, S)
  BY <1>2, <1>3, <1>4 DEF Climbs
<1>8. PICK f : SolvesTree(f, S, step)
  BY Constants, <1>5, <1>7, TreeRecursion
<1>9. f \in [Nodes -> S] /\ \A n \in Nodes : f[n] = body(n, f)
  BY <1>2, <1>8 DEF SolvesTree
<1>10. Eq(f)
  <2>1. f = [n \in Nodes |-> f[n]]
    BY <1>9
  <2> QED
    BY <1>9, <2>1
<1> HIDE DEF Eq
<1>11. Eq(Subtree)
  BY <1>6, <1>10, Zenon
<1>12. \A n \in Nodes : Subtree[n] = body(n, Subtree)
  BY <1>11 DEF Eq
<1> DEFINE Good == {n \in Nodes : Subtree[n] \subseteq Nodes}
<1>13. ASSUME NEW n \in Nodes, \A child \in Children(n) : child \in Good PROVE n \in Good
  BY <1>12, <1>13 DEF body
<1> HIDE DEF Good
<1>14. Nodes \subseteq Good
  BY Constants, <1>13, TreeInduction
<1> QED
  BY <1>12, <1>14 DEF body, Good

(* A subtree has the children of its nodes. *)
LEMMA SubtreeClosed ==
  ASSUME NEW root \in Nodes
  PROVE  /\ root \in Subtree[root]
         /\ \A node \in Subtree[root] : node \in Nodes /\ Children(node) \subseteq Subtree[root]
<1> DEFINE Good == {top \in Nodes : \A node \in Subtree[top] : Children(node) \subseteq Subtree[top]}
<1>1. \A n \in Nodes : Children(n) \subseteq Nodes
  BY Constants DEF ConstantsAssumption
<1>2. ASSUME NEW top \in Nodes PROVE top \in Subtree[top]
  BY SubtreeStep
<1>3. ASSUME NEW top \in Nodes, \A child \in Children(top) : child \in Good PROVE top \in Good
  <2>1. Subtree[top] = {top} \cup UNION {Subtree[child] : child \in Children(top)}
    BY SubtreeStep
  <2>2. \A child \in Children(top) : child \in Subtree[top] /\ Subtree[child] \subseteq Subtree[top]
    BY <1>1, <1>2, <2>1
  <2>3. ASSUME NEW node \in Subtree[top] PROVE Children(node) \subseteq Subtree[top]
    <3>1. CASE node = top
      BY <2>2, <3>1
    <3>2. CASE node # top
      <4>1. PICK child \in Children(top) : node \in Subtree[child]
        BY <2>1, <3>2
      <4>2. Children(node) \subseteq Subtree[child]
        BY <1>3, <4>1
      <4> QED
        BY <2>2, <4>2
    <3> QED
      BY <3>1, <3>2
  <2> QED
    BY <2>3
<1> HIDE DEF Good
<1>4. Nodes \subseteq Good
  BY Constants, <1>3, TreeInduction
<1> QED
  BY <1>2, <1>4, SubtreeStep DEF Good

(* Holding is what its equation says. *)
LEMMA HoldsStep ==
  ASSUME NEW cmd, NEW node \in Nodes
  PROVE  /\ Holds(node, cmd) \in BOOLEAN
         /\ Holds(node, cmd) <=> HoldsOver(node, cmd, Holding(cmd))
<1> DEFINE S == BOOLEAN
           step == [x \in Nodes \X [Nodes -> S] |-> HoldsOver(x[1], cmd, x[2])]
           Eq(g) == g = [n \in Nodes |-> HoldsOver(n, cmd, g)]
<1>1. \A n \in Nodes : Children(n) \subseteq Nodes
  BY Constants DEF ConstantsAssumption
<1>2. ASSUME NEW n, NEW f PROVE HoldsOver(n, cmd, f) \in S
  BY DEF HoldsOver
<1>3. ASSUME NEW n \in Nodes, NEW f \in [Nodes -> S], NEW g \in [Nodes -> S],
             \A child \in Children(n) : f[child] = g[child]
      PROVE  HoldsOver(n, cmd, f) = HoldsOver(n, cmd, g)
  <2>1. CASE n.op \in {"&&", "||"}
    <3>1. n.left \in Children(n) /\ n.right \in Children(n)
      BY <2>1 DEF Children
    <3>2. f[n.left] = g[n.left] /\ f[n.right] = g[n.right]
      BY <1>3, <3>1
    <3>3. CASE n.op = "&&"
      BY <3>2, <3>3 DEF HoldsOver
    <3>4. CASE n.op = "||"
      BY <3>2, <3>4 DEF HoldsOver
    <3> QED
      BY <2>1, <3>3, <3>4
  <2>2. CASE n.op = "!"
    <3>1. n.arg \in Children(n)
      BY <2>2 DEF Children
    <3>2. f[n.arg] = g[n.arg]
      BY <1>3, <3>1
    <3> QED
      BY <2>2, <3>2 DEF HoldsOver
  <2>3. CASE n.op \notin {"&&", "||", "!"}
    BY <2>3 DEF HoldsOver
  <2> QED
    BY <2>1, <2>2, <2>3
<1>4. step \in [Nodes \X [Nodes -> S] -> S]
  <2> HIDE DEF S
  <2> QED
    BY <1>2
<1>5. Holding(cmd) = CHOOSE g : Eq(g)
  BY DEF Holding
<1>6. \A n \in Nodes, f \in [Nodes -> S] : step[<<n, f>>] = HoldsOver(n, cmd, f)
  OBVIOUS
<1>7. S # {}
  OBVIOUS
<1> HIDE DEF step, S
<1>8. Climbs(step, S)
  BY <1>3, <1>4, <1>6 DEF Climbs
<1>9. PICK f : SolvesTree(f, S, step)
  BY Constants, <1>7, <1>8, TreeRecursion
<1>10. f \in [Nodes -> S] /\ \A n \in Nodes : f[n] = HoldsOver(n, cmd, f)
  BY <1>6, <1>9 DEF SolvesTree
<1>11. Eq(f)
  <2>1. f = [n \in Nodes |-> f[n]]
    BY <1>10
  <2> QED
    BY <1>10, <2>1
<1> HIDE DEF Eq
<1>12. Eq(Holding(cmd))
  BY <1>5, <1>11, Zenon
<1>13. Holding(cmd)[node] = HoldsOver(node, cmd, Holding(cmd))
  BY <1>12 DEF Eq
<1> QED
  BY <1>2, <1>13 DEF Holds, S

-----------------------------------------------------------------------------
(* What the path of the shim decides *)

(* argv_tail does not read args[0]. *)
LEMMA TailWithoutProgram ==
  ASSUME NEW as \in Seq(Texts), NEW bs \in Seq(Texts), Len(as) = Len(bs),
         \A i \in 2..Len(as) : as[i] = bs[i]
  PROVE  ArgvTail(as) = ArgvTail(bs)
<1>1. CASE Len(as) < 2
  BY <1>1 DEF ArgvTail
<1>2. CASE ~ (Len(as) < 2)
  <2> DEFINE rest(cs) == [i \in 1..(Len(cs) - 1) |-> IF i = 1 THEN cs[2] ELSE <<" ">> \o cs[i + 1]]
  <2> DEFINE len == Len(as)
  <2>1. len \in Nat /\ ~ (len < 2)
    BY <1>2, LenProperties
  <2>2. \A i \in 2..len : as[i] = bs[i]
    OBVIOUS
  <2> HIDE DEF len
  <2>3. 2 \in 2..len /\ \A i \in 1..(len - 1) : i + 1 \in 2..len
    BY <2>1
  <2>4. as[2] = bs[2] /\ \A i \in 1..(len - 1) : as[i + 1] = bs[i + 1]
    BY <2>2, <2>3
  <2>5. rest(as) = rest(bs)
    BY <2>4 DEF len
  <2>6. ArgvTail(as) = Together(rest(as)) /\ ArgvTail(bs) = Together(rest(bs))
    BY <1>2 DEF ArgvTail
  <2> HIDE DEF rest
  <2> QED
    BY <2>5, <2>6
<1> QED
  BY <1>1, <1>2

\* Two commands differ at most by a path among their arguments.
SameButPaths(a, b) ==
  /\ a.argv_tail = b.argv_tail
  /\ \A text \in Texts : ~Contains(text, "/") => (text \in a.args <=> text \in b.args)

(* Two commands of different shims are such. *)
LEMMA ShimsDiffer ==
  ASSUME NEW as \in Seq(Texts), NEW bs \in Seq(Texts), Len(as) = Len(bs), as # <<>>,
         \A i \in 2..Len(as) : as[i] = bs[i],
         Contains(as[1], "/"), Contains(bs[1], "/")
  PROVE  SameButPaths(Command(as), Command(bs))
<1>1. ArgvTail(as) = ArgvTail(bs)
  BY TailWithoutProgram
<1> DEFINE len == Len(as)
           rest == 2..len
<1>2. DOMAIN as = 1..len /\ DOMAIN bs = 1..len /\ len \in Nat
  BY LenProperties
<1> HIDE DEF len
<1>3. \A i \in 1..len : i = 1 \/ i \in rest
  BY <1>2
<1>4. rest \subseteq 1..len
  OBVIOUS
<1>5. \A i \in rest : as[i] = bs[i]
  BY DEF len
<1> HIDE DEF rest
<1>6. ASSUME NEW text, ~Contains(text, "/") PROVE text \in Range(as) <=> text \in Range(bs)
  <2>1. as[1] # text /\ bs[1] # text
    BY <1>6
  <2>2. text \in Range(as) <=> \E i \in rest : as[i] = text
    BY <1>2, <1>3, <1>4, <2>1 DEF Range
  <2>3. text \in Range(bs) <=> \E i \in rest : bs[i] = text
    BY <1>2, <1>3, <1>4, <2>1 DEF Range
  <2> QED
    BY <1>5, <2>2, <2>3
<1> QED
  BY <1>1, <1>6 DEF SameButPaths, Command

\* What the lints ask of a membership, and what they do not take for one.
Ordinary(node) ==
  node.op \in Memberships =>
    /\ node.right # ArgsRead
    /\ node.left = ArgsRead => node.right # TailRead /\ \A text \in Literals(node.right) : ~Contains(text, "/")

(* The literals of a node are texts. *)
LEMMA LiteralsType ==
  ASSUME NEW node \in Nodes
  PROVE  node.op = "value" => Literals(node) = {node.text} /\ node.text \in Texts
  BY Constants DEF ConstantsAssumption, Literals

(* An ordinary membership cannot tell two such commands apart. *)
LEMMA OrdinaryMembership ==
  ASSUME NEW node \in Nodes, node.op \in Memberships, Ordinary(node),
         NEW a, NEW b, SameButPaths(a, b), NEW f, NEW g,
         \A text \in Literals(node.right) : text \in Texts
  PROVE  HoldsOver(node, a, f) <=> HoldsOver(node, b, g)
<1>1. node.left \in Nodes /\ node.right \in Nodes
  <2>1. Children(node) = {node.left, node.right}
    BY DEF Children, Memberships
  <2> QED
    BY <2>1, Constants DEF ConstantsAssumption
<1>2. node.right # ArgsRead
  BY DEF Ordinary
<1>3. Elements(node.right, a) = Literals(node.right) /\ Elements(node.right, b) = Literals(node.right)
  BY <1>2 DEF Elements
<1>4. ValueOf(node.right, a) = ValueOf(node.right, b)
  BY DEF ValueOf, SameButPaths
<1>5. CASE node.left # ArgsRead
  <2>1. Elements(node.left, a) = Elements(node.left, b)
    BY <1>5 DEF Elements
  <2> HIDE DEF Elements, ValueOf
  <2> QED
    BY <1>3, <1>4, <2>1 DEF HoldsOver, Memberships
<1>6. CASE node.left = ArgsRead
  <2>1. \A text \in Literals(node.right) : text \in a.args <=> text \in b.args
    BY <1>6 DEF Ordinary, SameButPaths
  <2>2. Elements(node.left, a) = a.args /\ Elements(node.left, b) = b.args
    BY <1>6 DEF Elements
  <2>3. CASE node.op = "contains"
    <3>1. node.right # TailRead
      BY <1>6 DEF Ordinary
    <3>2. node.right.op = "value"
      BY <2>3, <3>1, Constants DEF ConstantsAssumption
    <3>3. ValueOf(node.right, a) \in Literals(node.right)
      BY <1>1, <3>1, <3>2, LiteralsType DEF ValueOf
    <3> QED
      BY <1>4, <2>1, <2>2, <2>3, <3>3 DEF HoldsOver
  <2>4. CASE node.op = "containsAny"
    BY <1>3, <2>1, <2>2, <2>4 DEF HoldsOver
  <2>5. CASE node.op = "containsAll"
    BY <1>3, <2>1, <2>2, <2>5 DEF HoldsOver
  <2> QED
    BY <2>3, <2>4, <2>5 DEF Memberships
<1> QED
  BY <1>5, <1>6

(* Nor can a condition all of whose memberships are. *)
LEMMA OrdinaryCondition ==
  ASSUME NEW root \in Nodes, \A node \in Subtree[root] : Ordinary(node),
         NEW a, NEW b, SameButPaths(a, b)
  PROVE  Holds(root, a) = Holds(root, b)
<1> DEFINE Good == {node \in Nodes : node \in Subtree[root] => (Holds(node, a) <=> Holds(node, b))}
<1>1. ASSUME NEW node \in Nodes, \A child \in Children(node) : child \in Good PROVE node \in Good
  <2>1. SUFFICES ASSUME node \in Subtree[root] PROVE Holds(node, a) <=> Holds(node, b)
    OBVIOUS
  <2>2. \A child \in Children(node) : child \in Subtree[root]
    BY <2>1, SubtreeClosed
  <2>3. \A child \in Children(node) : Holding(a)[child] <=> Holding(b)[child]
    BY <1>1, <2>2 DEF Holds
  <2>4. HoldsOver(node, a, Holding(a)) <=> HoldsOver(node, b, Holding(b))
    <3>1. CASE node.op \in Memberships
      <4>1. \A text \in Literals(node.right) : text \in Texts
        <5>1. node.right \in Nodes
          BY <3>1, Constants DEF ConstantsAssumption, Children, Memberships
        <5>2. ASSUME node.right.op = "set" PROVE \A item \in node.right.items : item.text \in Texts
          BY <5>1, <5>2, Constants DEF ConstantsAssumption, Children
        <5> QED
          BY <5>1, <5>2, LiteralsType DEF Literals
      <4> QED
        BY <2>1, <3>1, <4>1, OrdinaryMembership
    <3>2. CASE node.op \in {"like", "==", "!="}
      <4>1. \A side : ValueOf(side, a) = ValueOf(side, b)
        BY DEF ValueOf, SameButPaths
      <4> QED
        BY <3>2, <4>1 DEF HoldsOver
    <3>3. CASE node.op = "&&"
      <4>1. node.left \in Children(node) /\ node.right \in Children(node)
        BY <3>3 DEF Children
      <4> QED
        BY <2>3, <3>3, <4>1 DEF HoldsOver
    <3>4. CASE node.op = "||"
      <4>1. node.left \in Children(node) /\ node.right \in Children(node)
        BY <3>4 DEF Children
      <4> QED
        BY <2>3, <3>4, <4>1 DEF HoldsOver
    <3>5. CASE node.op = "!"
      <4>1. node.arg \in Children(node)
        BY <3>5 DEF Children
      <4> QED
        BY <2>3, <3>5, <4>1 DEF HoldsOver
    <3>6. CASE node.op \notin Memberships \cup {"like", "==", "!=", "&&", "||", "!"}
      BY <3>6 DEF HoldsOver, Memberships
    <3> QED
      BY <3>1, <3>2, <3>3, <3>4, <3>5, <3>6
  <2> QED
    BY <2>4, HoldsStep
<1> HIDE DEF Good
<1>2. Nodes \subseteq Good
  BY Constants, <1>1, TreeInduction
<1>3. root \in Subtree[root]
  BY SubtreeClosed
<1> QED
  BY <1>2, <1>3, HoldsStep DEF Good

-----------------------------------------------------------------------------
(* What a pattern spells out *)

(* What has been cut before does not change how the rest is. *)
LEMMA CutBehind ==
  ASSUME NEW C, NEW before \in Seq(Seq(C)), NEW tokens \in Lists(C), NEW c \in C
  PROVE  Cut(before \o tokens, c) = before \o Cut(tokens, c)
<1> DEFINE m == Len(before)
           n == Len(tokens)
           all == before \o tokens
           longer == Append(tokens[n], c)
           cut == [tokens EXCEPT ![n] = longer]
<1>1. tokens \in Seq(Seq(C)) /\ m \in Nat /\ n \in Nat /\ n # 0
  BY EmptySeq, LenProperties DEF Lists
<1>2. all \in Seq(Seq(C)) /\ Len(all) = m + n
      /\ \A i \in 1..(m + n) : all[i] = IF i <= m THEN before[i] ELSE tokens[i - m]
  BY <1>1, ConcatProperties
<1> HIDE DEF m, n, all
<1>3. n \in 1..Len(tokens) /\ m + n \in 1..Len(all) /\ Len(tokens) = n /\ Len(before) = m
      /\ (m + n) - m = n /\ ~ (m + n <= m) /\ m + n \in 1..(m + n)
  BY <1>1, <1>2 DEF n, m
<1>4. all[m + n] = tokens[n]
  BY <1>2, <1>3
<1>5. CASE c = " "
  <2>1. <<>> \in Seq(C)
    OBVIOUS
  <2> DEFINE none == <<>>
             one == <<none>>
             D == Seq(C)
  <2>2. none \in D /\ one \in Seq(D) /\ all \in Seq(D) /\ tokens \in Seq(D) /\ before \in Seq(D)
    BY <1>1, <1>2, <2>1
  <2> HIDE DEF none, D
  <2>3. Append(all, none) = all \o one
    BY <2>2, AppendIsConcat
  <2>4. Append(tokens, none) = tokens \o one
    BY <2>2, AppendIsConcat
  <2> HIDE DEF one
  <2>5. (before \o tokens) \o one = before \o (tokens \o one)
    BY <2>2, ConcatAssociative
  <2>6. Cut(all, c) = Append(all, none) /\ Cut(tokens, c) = Append(tokens, none)
    BY <1>5 DEF Cut, none
  <2> QED
    BY <2>3, <2>4, <2>5, <2>6 DEF all
<1>6. CASE c # " "
  <2>1. longer \in Seq(C)
    BY <1>1, <1>3, ElementOfSeq, AppendProperties
  <2> HIDE DEF longer
  <2>2. cut \in Seq(Seq(C)) /\ Len(cut) = n
        /\ \A j \in 1..n : cut[j] = IF j = n THEN longer ELSE tokens[j]
    BY <1>1, <1>3, <2>1, ExceptSeq
  <2> DEFINE whole == [all EXCEPT ![m + n] = longer]
             joined == before \o cut
  <2>3. whole \in Seq(Seq(C)) /\ Len(whole) = m + n
        /\ \A j \in 1..(m + n) : whole[j] = IF j = m + n THEN longer ELSE all[j]
    BY <1>2, <1>3, <2>1, ExceptSeq
  <2>4. Cut(all, c) = whole /\ Cut(tokens, c) = cut
    BY <1>2, <1>3, <1>4, <1>6 DEF Cut, longer
  <2> HIDE DEF cut, whole
  <2>5. joined \in Seq(Seq(C)) /\ Len(joined) = m + n
        /\ \A j \in 1..(m + n) : joined[j] = IF j <= m THEN before[j] ELSE cut[j - m]
    BY <1>3, <2>2, ConcatProperties
  <2> HIDE DEF joined
  <2>6. ASSUME NEW j \in 1..(m + n) PROVE whole[j] = joined[j]
    <3>1. CASE j <= m
      <4>1. j # m + n
        BY <1>1, <3>1
      <4> QED
        BY <1>2, <2>3, <2>5, <3>1, <4>1
    <3>2. CASE ~ (j <= m)
      <4>1. j - m \in 1..n /\ (j = m + n <=> j - m = n)
        BY <1>1, <3>2
      <4> QED
        BY <1>2, <2>2, <2>3, <2>5, <3>2, <4>1
    <3> QED
      BY <3>1, <3>2
  <2>7. whole = joined
    BY <2>3, <2>5, <2>6, SeqEqual
  <2> QED
    BY <2>4, <2>7 DEF all, joined
<1> QED
  BY <1>5, <1>6

(* The tokens of a text, one more character at a time. *)
LEMMA TokensAppend ==
  ASSUME NEW C
  PROVE  /\ Tokens(<<>>) = <<<<>>>>
         /\ \A s \in Seq(C) : Tokens(s) \in Lists(C)
         /\ \A s \in Seq(C), c \in C : Tokens(Append(s, c)) = Cut(Tokens(s), c)
<1>1. <<>> \in Seq(C) /\ Len(<<>>) = 0
  BY EmptySeq
<1>2. Tokens(<<>>) = <<<<>>>>
  BY <1>1, CutsStep DEF Tokens
<1>3. ASSUME NEW s \in Seq(C) PROVE Tokens(s) \in Lists(C)
  <2> DEFINE len == Len(s)
  <2>1. len \in Nat /\ \A n \in 0..len : Cuts(s)[n] \in Lists(C)
    BY CutsStep, LenProperties
  <2> HIDE DEF len
  <2>2. len \in 0..len
    BY <2>1
  <2> QED
    BY <2>1, <2>2 DEF Tokens, len
<1>4. ASSUME NEW s \in Seq(C), NEW c \in C PROVE Tokens(Append(s, c)) = Cut(Tokens(s), c)
  BY CutsAppend DEF Tokens
<1> QED
  BY <1>2, <1>3, <1>4

\* What tokens are cut at.
Space == " "

(* One element is a sequence of them. *)
LEMMA OneIsSeq ==
  ASSUME NEW C, NEW c \in C
  PROVE  <<c>> \in Seq(C)
  OBVIOUS

(* The tokens of two texts with a space between are the tokens of both. *)
LEMMA TokensJoined ==
  ASSUME NEW C, Space \in C, NEW s \in Seq(C), NEW t \in Seq(C)
  PROVE  Tokens(s \o (<<Space>> \o t)) = Tokens(s) \o Tokens(t)
<1> DEFINE space == <<Space>>
           Good == {u \in Seq(C) : Tokens(s \o (space \o u)) = Tokens(s) \o Tokens(u)}
<1>1. space \in Seq(C) /\ Tokens(s) \in Lists(C) /\ Tokens(s) \in Seq(Seq(C))
  <2>1. Tokens(s) \in Lists(C)
    BY TokensAppend
  <2>2. space \in Seq(C)
    BY OneIsSeq
  <2> HIDE DEF space
  <2> QED
    BY <2>1, <2>2 DEF Lists
<1>2. s \o space = Append(s, Space)
  BY AppendIsConcat
<1> HIDE DEF space
<1>3. <<>> \in Good
  <2>1. <<>> \in Seq(C) /\ space \o <<>> = space
    BY <1>1, ConcatEmptySeq, EmptySeq
  <2>2. Tokens(s \o space) = Cut(Tokens(s), Space)
    BY <1>2, TokensAppend
  <2>3. Cut(Tokens(s), Space) = Append(Tokens(s), <<>>)
    BY Zenon DEF Cut, Space
  <2>4. Append(Tokens(s), <<>>) = Tokens(s) \o <<<<>>>>
    BY <1>1, <2>1, AppendIsConcat
  <2>5. Tokens(<<>>) = <<<<>>>>
    BY TokensAppend
  <2> QED
    BY <2>1, <2>2, <2>3, <2>4, <2>5
<1>4. ASSUME NEW u \in Seq(C), NEW c \in C, u \in Good PROVE Append(u, c) \in Good
  <2> DEFINE whole == s \o (space \o u)
             part == space \o u
             one == <<c>>
  <2>1. part \in Seq(C)
    BY <1>1, ConcatProperties
  <2>2. Tokens(whole) = Tokens(s) \o Tokens(u)
    BY <1>4
  <2> HIDE DEF Good
  <2>3. one \in Seq(C) /\ Append(u, c) \in Seq(C) /\ Append(u, c) = u \o one
    <3>1. Append(u, c) = u \o one
      BY AppendIsConcat
    <3>2. Append(u, c) \in Seq(C)
      BY AppendProperties
    <3>3. one \in Seq(C)
      BY OneIsSeq
    <3> HIDE DEF one
    <3> QED
      BY <3>1, <3>2, <3>3
  <2>4. s \o (space \o Append(u, c)) = Append(whole, c) /\ whole \in Seq(C)
    <3>1. whole = s \o part
      OBVIOUS
    <3> HIDE DEF whole
    <3>2. space \o (u \o one) = part \o one
      <4> HIDE DEF one
      <4>1. space \in Seq(C) /\ u \in Seq(C) /\ one \in Seq(C)
        BY <1>1, <2>3
      <4>2. part = space \o u
        OBVIOUS
      <4> HIDE DEF part
      <4>3. (space \o u) \o one = space \o (u \o one)
        BY <4>1, ConcatAssociative
      <4> QED
        BY <4>2, <4>3
    <3> HIDE DEF part
    <3>3. whole \in Seq(C)
      BY <2>1, <3>1, ConcatProperties
    <3>4. Append(whole, c) = whole \o one
      BY <3>3, AppendIsConcat
    <3> HIDE DEF one
    <3>5. s \o (part \o one) = (s \o part) \o one
      <4>1. s \in Seq(C) /\ part \in Seq(C) /\ one \in Seq(C)
        BY <2>1, <2>3
      <4> QED
        BY <4>1, ConcatAssociative
    <3> QED
      BY <2>3, <3>1, <3>2, <3>3, <3>4, <3>5
  <2> HIDE DEF whole
  <2>5. Tokens(Append(whole, c)) = Cut(Tokens(s) \o Tokens(u), c)
    BY <2>2, <2>4, TokensAppend
  <2>6. Tokens(u) \in Lists(C) /\ Tokens(Append(u, c)) = Cut(Tokens(u), c)
    BY TokensAppend
  <2>7. Cut(Tokens(s) \o Tokens(u), c) = Tokens(s) \o Cut(Tokens(u), c)
    <3>1. Tokens(s) \in Seq(Seq(C))
      BY <1>1
    <3> QED
      BY <2>6, <3>1, CutBehind
  <2> QED
    BY <2>3, <2>4, <2>5, <2>6, <2>7 DEF Good
<1> HIDE DEF Good
<1>5. Seq(C) \subseteq Good
  BY <1>3, <1>4, TextInduction
<1> QED
  BY <1>5 DEF Good, space

(* Argv_tail read token by token is the arguments read one by one. *)
LEMMA SpokenTokens ==
  ASSUME NEW as \in Seq(Texts)
  PROVE  /\ ArgvTail(as) \in Seq(Characters \cup {Space})
         /\ Tokens(ArgvTail(as)) = Spoken(as)
<1> DEFINE C == Characters \cup {Space}
           n == Len(as) - 1
           glued(text) == <<Space>> \o text
           item(i) == IF i = 1 THEN as[2] ELSE glued(as[i + 1])
           rest == [i \in 1..n |-> item(i)]
           toks == [i \in 1..n |-> Tokens(as[i + 1])]
           P == Pieces(rest)
           Q == Pieces(toks)
<1>1. Space \in C /\ Texts \subseteq Seq(C) /\ <<>> \in Seq(C)
  BY SeqMonotonic DEF Texts
<1>2. Len(as) \in Nat /\ \A i \in 1..Len(as) : as[i] \in Seq(C)
  BY <1>1, ElementOfSeq, LenProperties
<1>3. CASE Len(as) < 2
  <2>1. ArgvTail(as) = <<>> /\ Spoken(as) = <<<<>>>>
    BY <1>3 DEF ArgvTail, Spoken
  <2> QED
    BY <1>1, <2>1, TokensAppend
<1>4. CASE ~ (Len(as) < 2)
  <2>1. ArgvTail(as) = Together(rest) /\ Spoken(as) = Together(toks)
    BY <1>4, Zenon DEF ArgvTail, Spoken, Space
  <2>2. n \in Nat /\ n # 0 /\ 1 \in 1..n /\ \A i \in 1..n : as[i + 1] \in Seq(C)
    <3> DEFINE len == Len(as)
    <3>1. len \in Nat /\ ~ (len < 2) /\ n = len - 1 /\ \A i \in 1..len : as[i] \in Seq(C)
      BY <1>2, <1>4
    <3> HIDE DEF len, n, C
    <3>2. n \in Nat /\ n # 0 /\ 1 \in 1..n
      BY <3>1
    <3>3. ASSUME NEW i \in 1..n PROVE as[i + 1] \in Seq(C)
      <4>1. i + 1 \in 1..len
        BY <3>1
      <4> QED
        BY <3>1, <4>1
    <3> QED
      BY <3>2, <3>3
  <2> HIDE DEF C, n
  <2>3. \A text \in Seq(C) : glued(text) \in Seq(C)
    <3>1. <<Space>> \in Seq(C)
      BY <1>1, OneIsSeq
    <3> QED
      BY <3>1, ConcatProperties
  <2> HIDE DEF glued
  <2>4. ASSUME NEW i \in 1..n PROVE item(i) \in Seq(C)
    <3> HIDE DEF item
    <3>1. as[i + 1] \in Seq(C)
      BY <2>2
    <3>2. CASE i = 1
      <4>1. i + 1 = 2 /\ item(i) = as[2]
        BY <3>2 DEF item
      <4> QED
        BY <3>1, <4>1
    <3>3. CASE i # 1
      <4>1. item(i) = glued(as[i + 1])
        BY <3>3 DEF item
      <4> QED
        BY <2>3, <3>1, <4>1
    <3> QED
      BY <3>2, <3>3
  <2>5. \A i \in 1..n : Tokens(as[i + 1]) \in Seq(Seq(C))
    BY <2>2, TokensAppend DEF Lists
  <2>6. rest \in Seq(Seq(C)) /\ Len(rest) = n
    <3> HIDE DEF item
    <3>1. rest \in [1..n -> Seq(C)]
      BY <2>4
    <3> HIDE DEF rest
    <3> QED
      BY <2>2, <3>1, FunctionIsSeq
  <2>7. toks \in Seq(Seq(Seq(C))) /\ Len(toks) = n
    <3>1. toks \in [1..n -> Seq(Seq(C))]
      BY <2>5
    <3> HIDE DEF toks
    <3> QED
      BY <2>2, <3>1, FunctionIsSeq
  <2>8. \A i \in 1..n : rest[i] = item(i) /\ toks[i] = Tokens(as[i + 1])
    OBVIOUS
  <2>18. item(1) = as[2] /\ \A i \in 1..n : i # 1 => item(i) = glued(as[i + 1])
    OBVIOUS
  <2> HIDE DEF rest, toks, item
  <2>9. P[0] = <<>> /\ \A k \in 1..n : P[k] = P[k - 1] \o item(k)
    BY <2>6, <2>8, PiecesStep
  <2>10. Q[0] = <<>> /\ \A k \in 1..n : Q[k] = Q[k - 1] \o Tokens(as[k + 1])
    BY <2>7, <2>8, PiecesStep
  <2>11. \A k \in 0..n : P[k] \in Seq(C)
    BY <2>6, PiecesStep
  <2> HIDE DEF P, Q
  <2> DEFINE Good == {k \in 0..n : k # 0 => Tokens(P[k]) = Q[k]}
  <2>12. 0 \in Good
    BY <2>2
  <2>13. ASSUME NEW k \in 1..n, k - 1 \in Good PROVE k \in Good
    <3>1. CASE k = 1
      <4>1. 1 - 1 = 0 /\ 1 + 1 = 2
        OBVIOUS
      <4>2. P[1] = <<>> \o as[2] /\ Q[1] = <<>> \o Tokens(as[2]) /\ as[2] \in Seq(C) /\ Tokens(as[2]) \in Seq(Seq(C))
        BY <2>2, <2>5, <2>9, <2>10, <2>18, <4>1
      <4>3. <<>> \o as[2] = as[2]
        BY <4>2, ConcatEmptySeq
      <4>4. <<>> \o Tokens(as[2]) = Tokens(as[2])
        BY <4>2, ConcatEmptySeq
      <4>5. Tokens(P[1]) = Q[1] /\ 1 \in 0..n
        BY <2>2, <4>2, <4>3, <4>4
      <4> QED
        BY <3>1, <4>5
    <3>2. CASE k # 1
      <4>1. k - 1 # 0 /\ k - 1 \in 0..n /\ k \in 0..n
        BY <2>2, <3>2
      <4>2. Tokens(P[k - 1]) = Q[k - 1] /\ P[k - 1] \in Seq(C)
        BY <2>11, <2>13, <4>1
      <4>3. P[k] = P[k - 1] \o glued(as[k + 1])
        BY <2>9, <2>18, <3>2
      <4> HIDE DEF Good
      <4>4. Tokens(P[k - 1] \o glued(as[k + 1])) = Tokens(P[k - 1]) \o Tokens(as[k + 1])
        BY <1>1, <2>2, <4>2, TokensJoined DEF glued
      <4>5. Tokens(P[k]) = Q[k]
        BY <2>10, <4>2, <4>3, <4>4
      <4> QED
        BY <4>1, <4>5 DEF Good
    <3> QED
      BY <3>1, <3>2
  <2> HIDE DEF Good
  <2>14. \A k \in 0..n : k \in Good
    BY <2>2, <2>12, <2>13, Induction
  <2>15. n \in 0..n
    BY <2>2
  <2>16. Tokens(P[n]) = Q[n] /\ P[n] \in Seq(C)
    BY <2>2, <2>11, <2>14, <2>15 DEF Good
  <2>17. Together(rest) = P[n] /\ Together(toks) = Q[n]
    BY <2>6, <2>7 DEF Together, P, Q
  <2> QED
    BY <2>1, <2>16, <2>17 DEF C
<1> QED
  BY <1>3, <1>4

(* A text without a space is one token. *)
LEMMA UnbrokenTokens ==
  ASSUME NEW C, NEW text \in Seq(C), \A i \in 1..Len(text) : text[i] # Space
  PROVE  Tokens(text) = <<text>>
<1> DEFINE Whole(s) == \A i \in 1..Len(s) : s[i] # Space
           Good == {s \in Seq(C) : Whole(s) => Tokens(s) = <<s>>}
<1>1. <<>> \in Good
  BY TokensAppend, EmptySeq
<1>2. ASSUME NEW s \in Seq(C), NEW c \in C, s \in Good PROVE Append(s, c) \in Good
  <2>1. Append(s, c) \in Seq(C) /\ Len(Append(s, c)) = Len(s) + 1 /\ Len(s) \in Nat
        /\ Append(s, c)[Len(s) + 1] = c /\ \A i \in 1..Len(s) : Append(s, c)[i] = s[i]
    BY AppendProperties, LenProperties
  <2> SUFFICES ASSUME Whole(Append(s, c)) PROVE Tokens(Append(s, c)) = <<Append(s, c)>>
    BY <2>1
  <2>2. Whole(s) /\ c # Space
    BY <2>1
  <2>3. Tokens(s) = <<s>> /\ Tokens(Append(s, c)) = Cut(Tokens(s), c)
    BY <1>2, <2>2, TokensAppend
  <2>4. Cut(<<s>>, c) = [<<s>> EXCEPT ![Len(<<s>>)] = Append(@, c)]
    BY <2>2, Zenon DEF Cut, Space
  <2> DEFINE longer == Append(s, c)
  <2>5. [<<s>> EXCEPT ![Len(<<s>>)] = longer] = <<longer>>
    <3> HIDE DEF longer
    <3> QED
      OBVIOUS
  <2> QED
    BY <2>3, <2>4, <2>5
<1> HIDE DEF Good
<1>3. Seq(C) \subseteq Good
  BY <1>1, <1>2, TextInduction
<1>4. text \in Good
  BY <1>3
<1> QED
  BY <1>4 DEF Good

(* Arguments without a space are their own tokens. *)
LEMMA SpokenWords ==
  ASSUME NEW as \in Seq(Texts), Unbroken(as)
  PROVE  Spoken(as) = Words(as)
<1> DEFINE n == Len(as) - 1
           toks == [i \in 1..n |-> Tokens(as[i + 1])]
           words == [i \in 1..n |-> as[i + 1]]
           Q == Pieces(toks)
<1>1. Len(as) \in Nat /\ \A i \in 1..Len(as) : as[i] \in Texts
  BY ElementOfSeq, LenProperties
<1>2. CASE Len(as) < 2
  BY <1>2 DEF Spoken, Words
<1>3. CASE ~ (Len(as) < 2)
  <2>1. Spoken(as) = Together(toks) /\ Words(as) = words
    BY <1>3, Zenon DEF Spoken, Words
  <2>2. n \in Nat /\ \A i \in 1..n : i + 1 \in 2..Len(as) /\ as[i + 1] \in Texts
    <3> DEFINE len == Len(as)
    <3>1. len \in Nat /\ ~ (len < 2) /\ n = len - 1 /\ \A i \in 1..len : as[i] \in Texts
      BY <1>1, <1>3
    <3> HIDE DEF len, n
    <3>2. n \in Nat /\ \A i \in 1..n : i + 1 \in 2..len /\ i + 1 \in 1..len
      BY <3>1
    <3> QED
      BY <3>1, <3>2 DEF len
  <2>3. ASSUME NEW i \in 1..n PROVE Tokens(as[i + 1]) = <<as[i + 1]>>
    <3>1. ~Contains(as[i + 1], Space)
      BY <2>2, Zenon DEF Unbroken, Space
    <3>2. \A j \in 1..Len(as[i + 1]) : as[i + 1][j] # Space
      BY <3>1 DEF Contains
    <3> QED
      BY <2>2, <3>2, UnbrokenTokens DEF Texts
  <2> HIDE DEF n
  <2>4. toks = [i \in 1..n |-> <<as[i + 1]>>]
    BY <2>3
  <2>5. toks \in Seq(Seq(Texts)) /\ Len(toks) = n /\ words \in Seq(Texts) /\ Len(words) = n
    <3>1. toks \in [1..n -> Seq(Texts)]
      BY <2>2, <2>4, OneIsSeq
    <3>2. words \in [1..n -> Texts]
      BY <2>2
    <3> HIDE DEF toks, words
    <3> QED
      BY <2>2, <3>1, <3>2, FunctionIsSeq
  <2>6. \A k \in 1..n : toks[k] = <<words[k]>>
    BY <2>4
  <2> HIDE DEF toks, words
  <2>7. Q[0] = <<>> /\ \A k \in 1..n : Q[k] = Q[k - 1] \o <<words[k]>>
    BY <2>5, <2>6, PiecesStep
  <2> DEFINE Good == {k \in 0..n : Q[k] = SubSeq(words, 1, k)}
  <2> HIDE DEF Q
  <2>8. 0 \in Good
    <3>1. SubSeq(words, 1, 0) = <<>>
      BY <2>5
    <3>2. Q[0] = <<>> /\ 0 \in 0..n
      BY <2>2, <2>7
    <3> QED
      BY <3>1, <3>2
  <2>9. ASSUME NEW k \in 1..n, k - 1 \in Good PROVE k \in Good
    <3>1. Q[k] = SubSeq(words, 1, k - 1) \o <<words[k]>>
      BY <2>7, <2>9
    <3>2. SubSeq(words, 1, k) = SubSeq(words, 1, k - 1) \o <<words[k]>>
      BY <2>2, <2>5
    <3> QED
      BY <2>2, <3>1, <3>2
  <2> HIDE DEF Good
  <2>10. \A k \in 0..n : k \in Good
    BY <2>2, <2>8, <2>9, Induction
  <2>11. Q[n] = SubSeq(words, 1, n)
    BY <2>2, <2>10 DEF Good
  <2>12. SubSeq(words, 1, n) = words
    BY <2>2, <2>5
  <2>13. Together(toks) = Q[n]
    BY <2>5 DEF Together, Q
  <2> QED
    BY <2>1, <2>11, <2>12, <2>13
<1> QED
  BY <1>2, <1>3

(* The first wildcard of a pattern is there, or is its end. *)
LEMMA FirstWildcardIsFirst ==
  ASSUME NEW D, NEW pattern \in Seq(D)
  PROVE  LET first == FirstWildcard(pattern)
         IN /\ first \in 1..(Len(pattern) + 1)
            /\ first = Len(pattern) + 1 \/ pattern[first] = Wildcard
            /\ \A i \in 1..(first - 1) : pattern[i] # Wildcard
<1> DEFINE len == Len(pattern)
           Ends == {n \in 1..(len + 1) : n = len + 1 \/ pattern[n] = Wildcard}
           Is(n) == /\ n = len + 1 \/ pattern[n] = Wildcard
                    /\ \A i \in 1..(n - 1) : pattern[i] # Wildcard
<1>1. len \in Nat
  BY LenProperties
<1>2. FirstWildcard(pattern) = CHOOSE n \in 1..(len + 1) : Is(n)
  BY DEF FirstWildcard
<1> HIDE DEF len
<1>3. Ends \in SUBSET Nat /\ Ends # {}
  <2>1. len + 1 \in Ends
    BY <1>1
  <2> QED
    BY <2>1
<1> HIDE DEF Ends
<1>4. PICK m \in Ends : \A n \in Ends : m <= n
  BY <1>3, LeastNumber
<1>5. m \in 1..(len + 1) /\ m \in Nat /\ (m = len + 1 \/ pattern[m] = Wildcard)
  BY <1>4 DEF Ends
<1>6. ASSUME NEW i \in 1..(m - 1) PROVE pattern[i] # Wildcard
  <2>1. i \in 1..(len + 1) /\ ~ (m <= i)
    BY <1>1, <1>5
  <2>2. i \notin Ends
    BY <1>4, <2>1
  <2> QED
    BY <2>1, <2>2 DEF Ends
<1>7. Is(m)
  BY <1>5, <1>6
<1> HIDE DEF Is
<1>8. FirstWildcard(pattern) \in 1..(len + 1) /\ Is(FirstWildcard(pattern))
  BY <1>2, <1>5, <1>7
<1> QED
  BY <1>8 DEF Is, len

(* A text that matches begins with what stands before the first wildcard, and is no longer
   than the pattern when there is none. *)
LEMMA MatchedPrefix ==
  ASSUME NEW C, NEW text \in Seq(C), NEW D, NEW pattern \in Seq(D), Matches(text, pattern)
  PROVE  /\ \A m \in 1..(FirstWildcard(pattern) - 1) : m <= Len(text) /\ text[m] = pattern[m]
         /\ FirstWildcard(pattern) = Len(pattern) + 1 => Len(text) = Len(pattern)
<1> DEFINE first == FirstWildcard(pattern)
           len == Len(pattern)
           end == Len(text)
           R == Reached(text, pattern)
           Along(j, i) == /\ j < first => i = j
                          /\ \A m \in 1..j : m < first => m <= i /\ text[m] = pattern[m]
           Good == {j \in 0..len : \A i \in R[j] : Along(j, i)}
<1>1. len \in Nat /\ end \in Nat
  BY LenProperties
<1>2. first \in 1..(len + 1) /\ \A i \in 1..(first - 1) : pattern[i] # Wildcard
  BY FirstWildcardIsFirst
<1>3. R[0] = {0} /\ (\A n \in 1..len : R[n] = Reach(R[n - 1], pattern[n], text))
      /\ \A n \in 0..len : R[n] \subseteq 0..end
  BY ReachedStep
<1>4. end \in R[len]
  BY DEF Matches
<1> HIDE DEF first, len, R
<1>5. 0 \in Good
  BY <1>1, <1>3
<1>6. ASSUME NEW j \in 1..len, j - 1 \in Good PROVE j \in Good
  <2>1. j - 1 \in 0..len /\ j \in 0..len /\ first \in Nat /\ j \in Nat
    BY <1>1, <1>2
  <2>2. \A i \in R[j - 1] : i \in Nat /\ Along(j - 1, i)
    BY <1>1, <1>3, <1>6, <2>1
  <2>3. ASSUME NEW i \in R[j] PROVE Along(j, i)
    <3>1. i \in Reach(R[j - 1], pattern[j], text) /\ i \in 0..end
      BY <1>3, <2>1, <2>3
    <3> HIDE DEF Good, end
    <3>2. i \in Nat
      BY <1>1, <3>1
    <3>3. CASE pattern[j] = Wildcard
      <4>1. PICK k \in R[j - 1] : k <= i
        BY <3>1, <3>3 DEF Reach
      <4>2. ~ (j < first)
        <5>1. j \notin 1..(first - 1)
          BY <1>2, <3>3
        <5> QED
          BY <2>1, <5>1
      <4>3. k \in Nat /\ \A m \in 1..(j - 1) : m < first => m <= k /\ text[m] = pattern[m]
        BY <2>2
      <4>4. ASSUME NEW m \in 1..j, m < first PROVE m <= i /\ text[m] = pattern[m]
        <5>1. m \in 1..(j - 1) /\ m \in Nat
          BY <2>1, <4>2, <4>4
        <5> QED
          BY <3>2, <4>1, <4>3, <4>4, <5>1
      <4> QED
        BY <4>2, <4>4
    <3>4. CASE pattern[j] # Wildcard
      <4>1. i - 1 \in R[j - 1] /\ text[i] = pattern[j]
        BY <3>1, <3>4 DEF Reach
      <4>2. i - 1 \in Nat /\ (j - 1 < first => i - 1 = j - 1)
            /\ \A m \in 1..(j - 1) : m < first => m <= i - 1 /\ text[m] = pattern[m]
        BY <2>2, <4>1
      <4>3. j < first => i = j
        BY <2>1, <3>2, <4>2
      <4>4. ASSUME NEW m \in 1..j, m < first PROVE m <= i /\ text[m] = pattern[m]
        <5>1. CASE m = j
          BY <2>1, <4>1, <4>3, <4>4, <5>1
        <5>2. CASE m # j
          <6>1. m \in 1..(j - 1) /\ m \in Nat
            BY <2>1, <5>2
          <6> QED
            BY <3>2, <4>2, <4>4, <6>1
        <5> QED
          BY <5>1, <5>2
      <4> QED
        BY <4>3, <4>4
    <3> QED
      BY <3>3, <3>4
  <2> HIDE DEF Along
  <2> QED
    BY <2>1, <2>3
<1> HIDE DEF Good, Along
<1>7. \A j \in 0..len : j \in Good
  BY <1>1, <1>5, <1>6, Induction
<1>8. len \in Good
  BY <1>1, <1>7
<1>9. Along(len, end)
  BY <1>4, <1>8 DEF Good
<1>10. ASSUME NEW m \in 1..(first - 1) PROVE m <= end /\ text[m] = pattern[m]
  <2>1. m \in 1..len /\ m < first
    BY <1>1, <1>2
  <2> QED
    BY <1>9, <2>1 DEF Along
<1>11. first = len + 1 => end = len
  BY <1>1, <1>9 DEF Along
<1> QED
  BY <1>10, <1>11 DEF first, len, end

(* A list of tokens begins with any list that it continues, and with itself. *)
LEMMA Continued ==
  ASSUME NEW C, NEW s \in Seq(C), NEW t \in Seq(C)
  PROVE  IsPrefix(s, s \o t) /\ IsPrefix(s, s)
<1>1. s \o t \in Seq(C) /\ Len(s \o t) = Len(s) + Len(t)
      /\ \A i \in 1..(Len(s) + Len(t)) : (s \o t)[i] = IF i <= Len(s) THEN s[i] ELSE t[i - Len(s)]
  BY ConcatProperties
<1> DEFINE m == Len(s)
           whole == s \o t
           begin == SubSeq(whole, 1, m)
<1>2. m \in Nat /\ Len(t) \in Nat /\ \A i \in 1..m : i \in 1..(m + Len(t)) /\ i <= m
  BY LenProperties
<1>3. m <= Len(whole) /\ \A i \in 1..m : whole[i] = s[i]
  BY <1>1, <1>2
<1> HIDE DEF m, whole
<1>4. \A i \in 1..m : whole[i] \in C
  <2>1. \A i \in 1..m : s[i] \in C
    BY ElementOfSeq DEF m
  <2> QED
    BY <1>3, <2>1
<1>5. begin \in Seq(C) /\ Len(begin) = m /\ \A i \in 1..m : begin[i] = whole[i]
  BY <1>2, <1>4
<1> HIDE DEF begin
<1>6. begin = s
  BY <1>3, <1>5, SeqEqual DEF m
<1>7. SubSeq(s, 1, m) = s
  BY SubSeqFull DEF m
<1> QED
  BY <1>2, <1>3, <1>6, <1>7 DEF IsPrefix, whole, begin, m

(* What matches a pin begins with the tokens that the pin spells out. *)
LEMMA PinnedNames ==
  ASSUME NEW C, Space \in C, NEW text \in Seq(C), NEW D, NEW pattern \in Seq(D),
         PinsAToken(pattern), Matches(text, pattern)
  PROVE  IsPrefix(Spelled(pattern), Tokens(text))
<1> DEFINE first == FirstWildcard(pattern)
           len == Len(pattern)
           end == Len(text)
           ends == IF first \in 2..len /\ pattern[first - 1] = Space THEN first - 2 ELSE first - 1
           named == SubSeq(pattern, 1, ends)
<1>1. len \in Nat /\ end \in Nat /\ first \in 1..(len + 1)
  BY LenProperties, FirstWildcardIsFirst
<1>2. /\ \A m \in 1..(first - 1) : m <= end /\ text[m] = pattern[m]
      /\ first = len + 1 => end = len
  BY MatchedPrefix
<1>3. first <= len => first > 1 /\ pattern[first - 1] = Space
  BY DEF PinsAToken, Space
<1>4. Spelled(pattern) = Tokens(named)
  BY Zenon DEF Spelled, Space
<1>5. \A m \in 1..end : text[m] \in C
  BY ElementOfSeq
<1>6. \A m \in 1..len : pattern[m] \in D
  BY ElementOfSeq
<1>7. Tokens(text) \in Seq(Seq(C))
  BY TokensAppend DEF Lists
<1> HIDE DEF first, named
<1>8. CASE ~ (first <= len)
  <2> HIDE DEF len, end
  <2>1. first = len + 1 /\ end = len /\ ends = len
    BY <1>1, <1>2, <1>8
  <2>2. \A m \in 1..len : text[m] = pattern[m]
    BY <1>1, <1>2, <2>1
  <2>3. pattern \in Seq(C)
    <3>1. pattern \in [1..len -> D]
      BY LenProperties DEF len
    <3>2. \A m \in 1..len : pattern[m] \in C
      BY <1>5, <2>1, <2>2
    <3>3. pattern \in [1..len -> C]
      BY <3>1, <3>2
    <3> QED
      BY <1>1, <3>3, FunctionIsSeq
  <2>4. text = pattern
    BY <2>1, <2>2, <2>3, SeqEqual DEF len, end
  <2>5. SubSeq(pattern, 1, len) = pattern
    BY SubSeqFull DEF len
  <2>6. Tokens(named) = Tokens(text)
    BY <2>1, <2>4, <2>5 DEF named
  <2>7. IsPrefix(Tokens(text), Tokens(text))
    BY <1>7, Continued
  <2> QED
    BY <1>4, <2>6, <2>7
<1>9. CASE first <= len
  <2> DEFINE rest == SubSeq(text, first, end)
             gap == SubSeq(text, first - 1, first - 1)
  <2> HIDE DEF len, end
  <2>1. first \in 2..len /\ pattern[first - 1] = Space /\ first - 1 \in 1..(first - 1)
    BY <1>1, <1>3, <1>9
  <2>2. ends = first - 2
    BY <2>1
  <2>3. first - 1 <= end /\ text[first - 1] = Space
    BY <1>2, <2>1
  <2> HIDE DEF ends
  <2>4. first - 2 \in 0..end /\ first - 1 \in 1..end /\ first \in Nat
    BY <1>1, <2>1, <2>3
  <2> DEFINE begin == SubSeq(text, 1, first - 2)
             behind == SubSeq(text, first - 1, end)
  <2>5. begin \in Seq(C) /\ Len(begin) = first - 2 /\ \A m \in 1..(first - 2) : begin[m] = text[m]
    <3>1. \A m \in 1..(first - 2) : text[m] \in C
      BY <1>1, <1>5, <2>4
    <3> QED
      BY <2>4, <3>1, SubSeqProperties
  <2>6. named \in Seq(D) /\ Len(named) = first - 2 /\ \A m \in 1..(first - 2) : named[m] = pattern[m]
    <3>1. \A m \in 1..(first - 2) : pattern[m] \in D
      BY <1>1, <1>6, <1>9, <2>4
    <3> QED
      BY <2>2, <2>4, <3>1, SubSeqProperties DEF named
  <2>7. rest \in Seq(C)
    <3>1. \A m \in first..end : text[m] \in C
      BY <1>1, <1>5, <2>4
    <3> QED
      BY <1>1, <2>4, <3>1, SubSeqProperties
  <2>8. begin \o behind = text
    <3>1. SubSeq(text, 1, first - 2) \o SubSeq(text, (first - 2) + 1, end) = SubSeq(text, 1, end)
      <4>1. 1 \in 1..(Len(text) + 1) /\ first - 2 \in (1 - 1)..Len(text) /\ end \in (first - 2)..Len(text)
        BY <1>1, <2>4 DEF end
      <4> QED
        BY <4>1, ConcatAdjacentSubSeq
    <3>2. SubSeq(text, 1, end) = text
      BY SubSeqFull DEF end
    <3>3. (first - 2) + 1 = first - 1
      BY <2>4
    <3> QED
      BY <3>1, <3>2, <3>3
  <2>9. behind = <<Space>> \o rest
    <3>1. first - 1 \in 1..Len(text) /\ end \in (first - 1)..Len(text)
      BY <1>1, <2>4 DEF end
    <3>2. SubSeq(text, first - 1, end) = <<text[first - 1]>> \o SubSeq(text, (first - 1) + 1, end)
      BY <3>1, SubSeqRecursiveFirst
    <3>3. (first - 1) + 1 = first
      BY <2>4
    <3> QED
      BY <2>3, <3>2, <3>3
  <2> HIDE DEF begin, behind, rest
  <2>10. named = begin
    <3>1. \A m \in 1..(first - 2) : named[m] = begin[m]
      <4>1. \A m \in 1..(first - 2) : m \in 1..(first - 1)
        BY <2>4
      <4> QED
        BY <1>2, <2>5, <2>6, <4>1
    <3>2. \A m \in 1..(first - 2) : named[m] \in C
      BY <2>5, <3>1, ElementOfSeq
    <3>3. named \in Seq(C)
      <4>1. first - 2 \in Nat
        BY <2>4
      <4>2. named \in [1..(first - 2) -> C]
        BY <2>6, <3>2, LenProperties
      <4> QED
        BY <4>1, <4>2, FunctionIsSeq
    <3> QED
      BY <2>5, <2>6, <3>1, <3>3, SeqEqual
  <2>11. Tokens(text) = Tokens(begin) \o Tokens(rest)
    <3>1. text = begin \o (<<Space>> \o rest)
      BY <2>8, <2>9
    <3>2. Tokens(begin \o (<<Space>> \o rest)) = Tokens(begin) \o Tokens(rest)
      BY <2>5, <2>7, TokensJoined
    <3> QED
      BY <3>1, <3>2
  <2>12. Tokens(begin) \in Seq(Seq(C)) /\ Tokens(rest) \in Seq(Seq(C))
    BY <2>5, <2>7, TokensAppend DEF Lists
  <2>13. IsPrefix(Tokens(begin), Tokens(begin) \o Tokens(rest))
    BY <2>12, Continued
  <2> QED
    BY <1>4, <2>10, <2>11, <2>13
<1> QED
  BY <1>8, <1>9

-----------------------------------------------------------------------------
(* What argv_tail decides *)

(* Below a node is what is below the nodes below it. *)
LEMMA SubtreeWithin ==
  ASSUME NEW root \in Nodes, NEW node \in Subtree[root]
  PROVE  Subtree[node] \subseteq Subtree[root]
<1> DEFINE Good == {n \in Nodes : n \in Subtree[root] => Subtree[n] \subseteq Subtree[root]}
<1>1. ASSUME NEW n \in Nodes, \A child \in Children(n) : child \in Good PROVE n \in Good
  <2>1. Subtree[n] = {n} \cup UNION {Subtree[child] : child \in Children(n)}
    BY SubtreeStep
  <2>2. n \in Subtree[root] => Children(n) \subseteq Subtree[root]
    BY SubtreeClosed
  <2> QED
    BY <1>1, <2>1, <2>2
<1> HIDE DEF Good
<1>2. Nodes \subseteq Good
  BY Constants, <1>1, TreeInduction
<1>3. node \in Nodes
  BY SubtreeClosed
<1> QED
  BY <1>2, <1>3 DEF Good

(* A node that does not read argv_tail cannot tell two commands apart that differ in it. *)
LEMMA BlindNode ==
  ASSUME NEW node \in Nodes, TailRead \notin Children(node),
         NEW a, NEW b, a.args = b.args, NEW f, NEW g,
         \A child \in Children(node) : f[child] <=> g[child]
  PROVE  HoldsOver(node, a, f) <=> HoldsOver(node, b, g)
<1>1. \A side : Elements(side, a) = Elements(side, b)
  BY DEF Elements
<1>2. \A side \in Children(node) : ValueOf(side, a) = ValueOf(side, b)
  BY DEF ValueOf
<1>3. CASE node.op = "like"
  <2>1. node.left \in Children(node)
    BY <1>3 DEF Children
  <2>2. ValueOf(node.left, a) = ValueOf(node.left, b)
    BY <1>2, <2>1
  <2> QED
    BY <1>3, <2>2 DEF HoldsOver
<1>4. CASE node.op \in Memberships \cup {"==", "!=", "&&", "||"}
  <2>1. node.left \in Children(node) /\ node.right \in Children(node)
    BY <1>4 DEF Children, Memberships
  <2>2. /\ ValueOf(node.left, a) = ValueOf(node.left, b)
        /\ ValueOf(node.right, a) = ValueOf(node.right, b)
        /\ f[node.left] <=> g[node.left]
        /\ f[node.right] <=> g[node.right]
    BY <1>2, <2>1
  <2>3. /\ Elements(node.left, a) = Elements(node.left, b)
        /\ Elements(node.right, a) = Elements(node.right, b)
    BY <1>1
  <2> QED
    BY <1>4, <2>2, <2>3 DEF HoldsOver, Memberships
<1>5. CASE node.op = "!"
  <2>1. node.arg \in Children(node)
    BY <1>5 DEF Children
  <2> QED
    BY <1>5, <2>1 DEF HoldsOver
<1>6. CASE node.op \notin Memberships \cup {"like", "==", "!=", "&&", "||", "!"}
  BY <1>6 DEF HoldsOver, Memberships
<1> QED
  BY <1>3, <1>4, <1>5, <1>6

(* Nor can a condition that nowhere reads it. *)
LEMMA BlindCondition ==
  ASSUME NEW root \in Nodes, \A node \in Subtree[root] : TailRead \notin Children(node),
         NEW a, NEW b, a.args = b.args
  PROVE  Holds(root, a) <=> Holds(root, b)
<1> DEFINE Good == {node \in Nodes : node \in Subtree[root] => (Holds(node, a) <=> Holds(node, b))}
<1>1. ASSUME NEW node \in Nodes, \A child \in Children(node) : child \in Good PROVE node \in Good
  <2>1. SUFFICES ASSUME node \in Subtree[root] PROVE Holds(node, a) <=> Holds(node, b)
    OBVIOUS
  <2>2. \A child \in Children(node) : child \in Subtree[root]
    BY <2>1, SubtreeClosed
  <2>3. \A child \in Children(node) : Holding(a)[child] <=> Holding(b)[child]
    BY <1>1, <2>2 DEF Holds
  <2>4. HoldsOver(node, a, Holding(a)) <=> HoldsOver(node, b, Holding(b))
    BY <2>1, <2>3, BlindNode
  <2> QED
    BY <2>4, HoldsStep
<1> HIDE DEF Good
<1>2. Nodes \subseteq Good
  BY Constants, <1>1, TreeInduction
<1>3. root \in Subtree[root]
  BY SubtreeClosed
<1> QED
  BY <1>2, <1>3 DEF Good

(* A pinned test of argv_tail that holds spells out how the arguments begin. *)
LEMMA PinnedTest ==
  ASSUME NEW test \in Nodes, NEW as \in Seq(Texts), TailRead \in Children(test),
         test.op = "like" => test.left = TailRead /\ PinsAToken(test.pattern),
         test.op = "==" => test.left # TailRead \/ test.right # TailRead,
         test.op \in {"like", "=="},
         HoldsOver(test, Command(as), Holding(Command(as)))
  PROVE  Begins(test, Spoken(as))
<1> DEFINE C == Characters \cup {Space}
           tail == ArgvTail(as)
<1>1. tail \in Seq(C) /\ Tokens(tail) = Spoken(as) /\ Space \in C
  BY SpokenTokens
<1>2. Command(as).argv_tail = tail
  BY DEF Command
<1> HIDE DEF C, tail
<1>3. CASE test.op = "like"
  <2>1. test.pattern \in Seq(Characters \cup {Wildcard})
    BY <1>3, Constants DEF ConstantsAssumption, Patterns
  <2>2. Matches(tail, test.pattern)
    BY <1>2, <1>3 DEF HoldsOver, ValueOf
  <2>3. IsPrefix(Spelled(test.pattern), Tokens(tail))
    BY <1>1, <1>3, <2>1, <2>2, PinnedNames
  <2>4. Named(test) = {Spelled(test.pattern)}
    BY <1>3 DEF Named
  <2> QED
    BY <1>1, <2>3, <2>4 DEF Begins
<1>4. CASE test.op = "=="
  <2>1. Children(test) = {test.left, test.right}
    BY <1>4 DEF Children
  <2>2. PICK side \in Children(test) : side # TailRead
    BY <1>4, <2>1
  <2>3. ValueOf(test.left, Command(as)) = ValueOf(test.right, Command(as))
    BY <1>4 DEF HoldsOver
  <2>4. side.text = tail
    BY <1>2, <2>1, <2>2, <2>3 DEF ValueOf
  <2>5. Tokens(side.text) \in Named(test)
    BY <1>4, <2>2 DEF Named
  <2>6. Tokens(tail) \in Seq(Seq(C))
    BY <1>1, TokensAppend DEF Lists
  <2>7. IsPrefix(Tokens(tail), Tokens(tail))
    BY <2>6, Continued
  <2> QED
    BY <1>1, <2>4, <2>5, <2>7 DEF Begins
<1> QED
  BY <1>3, <1>4

(* A condition that reads argv_tail in pins only, none of them under a negation, and holds
   though none of them spells out how the arguments begin, holds whatever argv_tail is. *)
LEMMA PinnedCondition ==
  ASSUME NEW root \in Nodes, ~UnpinnedRead(root), Negated(root) = {},
         NEW as \in Seq(Texts), \A test \in TailTests(root) : ~Begins(test, Spoken(as)),
         NEW b, b.args = Command(as).args, Holds(root, Command(as))
  PROVE  Holds(root, b)
<1> DEFINE a == Command(as)
           Good == {node \in Nodes : node \in Subtree[root] /\ Holds(node, a) => Holds(node, b)}
<1>1. ASSUME NEW node \in Nodes, \A child \in Children(node) : child \in Good PROVE node \in Good
  <2>1. SUFFICES ASSUME node \in Subtree[root], Holds(node, a) PROVE Holds(node, b)
    OBVIOUS
  <2>2. \A child \in Children(node) : child \in Subtree[root] /\ child \in Nodes
    BY <2>1, SubtreeClosed
  <2>3. \A child \in Children(node) : Holding(a)[child] => Holding(b)[child]
    BY <1>1, <2>2 DEF Holds
  <2>4. HoldsOver(node, a, Holding(a))
    BY <2>1, HoldsStep
  <2> HIDE DEF a
  <2>5. CASE TailRead \in Children(node)
    <3>1. node.op \in {"like", "=="} /\ (node.op = "like" => node.left = TailRead /\ PinsAToken(node.pattern))
      BY <2>1, <2>5 DEF UnpinnedRead, Children
    <3>2. node \in TailTests(root)
      BY <2>1, <2>5, <3>1 DEF TailTests
    <3>3. node.op = "==" /\ node.left = TailRead /\ node.right = TailRead
      BY <2>4, <2>5, <3>1, <3>2, PinnedTest DEF a
    <3>4. HoldsOver(node, b, Holding(b))
      BY <3>3 DEF HoldsOver
    <3> QED
      BY <3>4, HoldsStep
  <2>6. CASE TailRead \notin Children(node) /\ node.op \in {"&&", "||"}
    <3>1. node.left \in Children(node) /\ node.right \in Children(node)
      BY <2>6 DEF Children
    <3>2. (Holding(a)[node.left] => Holding(b)[node.left]) /\ (Holding(a)[node.right] => Holding(b)[node.right])
      BY <2>3, <3>1
    <3>3. HoldsOver(node, b, Holding(b))
      BY <2>4, <2>6, <3>2 DEF HoldsOver
    <3> QED
      BY <3>3, HoldsStep
  <2>7. CASE TailRead \notin Children(node) /\ node.op = "!"
    <3>1. Children(node) = {node.arg} /\ node.arg \in Nodes /\ node.arg \in Subtree[root]
      BY <2>2, <2>7 DEF Children
    <3>2. TailTests(node.arg) = {}
      BY <2>1, <2>7 DEF Negated
    <3>3. Subtree[node.arg] \subseteq Subtree[root]
      BY <3>1, SubtreeWithin
    <3>4. ASSUME NEW below \in Subtree[node.arg] PROVE TailRead \notin Children(below)
      <4>1. TailRead \in Children(below) => below.op \in {"like", "=="}
        BY <3>3 DEF UnpinnedRead
      <4> QED
        BY <3>2, <4>1 DEF TailTests
    <3>5. a.args = b.args
      BY DEF a
    <3>6. Holds(node.arg, a) <=> Holds(node.arg, b)
      BY <3>1, <3>4, <3>5, BlindCondition
    <3>7. HoldsOver(node, b, Holding(b))
      BY <2>4, <2>7, <3>6 DEF HoldsOver, Holds
    <3> QED
      BY <3>7, HoldsStep
  <2>8. CASE TailRead \notin Children(node) /\ node.op \notin {"&&", "||", "!"}
    <3>1. a.args = b.args
      BY DEF a
    <3>2. HoldsOver(node, b, Holding(a))
      BY <2>4, <2>8, <3>1, BlindNode
    <3>3. HoldsOver(node, b, Holding(b))
      BY <2>8, <3>2 DEF HoldsOver
    <3> QED
      BY <3>3, HoldsStep
  <2> QED
    BY <2>5, <2>6, <2>7, <2>8
<1> HIDE DEF Good
<1>2. Nodes \subseteq Good
  BY Constants, <1>1, TreeInduction
<1>3. root \in Subtree[root]
  BY SubtreeClosed
<1> QED
  BY <1>2, <1>3 DEF Good, a

-----------------------------------------------------------------------------
(* What else matches a pattern that is no pin *)

(* As far as a text is matched, a longer one is. *)
LEMMA ReachedLonger ==
  ASSUME NEW C, NEW text \in Seq(C), NEW c \in C, NEW D, NEW pattern \in Seq(D)
  PROVE  \A n \in 0..Len(pattern) : Reached(text, pattern)[n] \subseteq Reached(Append(text, c), pattern)[n]
<1> DEFINE len == Len(pattern)
           longer == Append(text, c)
           R == Reached(text, pattern)
           Q == Reached(longer, pattern)
           Good == {n \in 0..len : R[n] \subseteq Q[n]}
<1>1. longer \in Seq(C) /\ Len(longer) = Len(text) + 1 /\ Len(text) \in Nat /\ len \in Nat
      /\ \A i \in 1..Len(text) : longer[i] = text[i]
  BY AppendProperties, LenProperties
<1> HIDE DEF longer
<1>2. R[0] = {0} /\ \A n \in 1..len : R[n] = Reach(R[n - 1], pattern[n], text)
  BY ReachedStep
<1>3. Q[0] = {0} /\ \A n \in 1..len : Q[n] = Reach(Q[n - 1], pattern[n], longer)
  BY <1>1, ReachedStep
<1> HIDE DEF R, Q, len
<1>4. 0 \in Good
  BY <1>1, <1>2, <1>3
<1>5. ASSUME NEW n \in 1..len, n - 1 \in Good PROVE n \in Good
  <2>1. R[n - 1] \subseteq Q[n - 1] /\ n \in 0..len
    BY <1>1, <1>5
  <2> HIDE DEF Good
  <2>2. ASSUME NEW i \in Reach(R[n - 1], pattern[n], text) PROVE i \in Reach(Q[n - 1], pattern[n], longer)
    <3>1. i \in 0..Len(text) /\ i \in 0..Len(longer)
      BY <1>1, <2>2 DEF Reach
    <3>2. CASE pattern[n] = Wildcard
      <4>1. \E k \in R[n - 1] : k <= i
        BY <2>2, <3>2 DEF Reach
      <4>2. \E k \in Q[n - 1] : k <= i
        BY <2>1, <4>1
      <4> QED
        BY <3>1, <3>2, <4>2 DEF Reach
    <3>3. CASE pattern[n] # Wildcard
      <4>1. i > 0 /\ i - 1 \in R[n - 1] /\ text[i] = pattern[n]
        BY <2>2, <3>3 DEF Reach
      <4>2. longer[i] = pattern[n]
        BY <1>1, <3>1, <4>1
      <4> QED
        BY <2>1, <3>1, <3>3, <4>1, <4>2 DEF Reach
    <3> QED
      BY <3>2, <3>3
  <2>3. R[n] \subseteq Q[n]
    BY <1>2, <1>3, <2>2
  <2> QED
    BY <2>1, <2>3 DEF Good
<1> HIDE DEF Good
<1>6. \A n \in 0..len : n \in Good
  BY <1>1, <1>4, <1>5, Induction
<1> QED
  BY <1>6 DEF Good, R, Q, len, longer

(* One more element of a pattern. *)
LEMMA ReachedAppend ==
  ASSUME NEW C, NEW text \in Seq(C), NEW D, NEW pattern \in Seq(D), NEW e \in D
  PROVE  Reached(text, Append(pattern, e))[Len(Append(pattern, e))]
           = Reach(Reached(text, pattern)[Len(pattern)], e, text)
<1> DEFINE len == Len(pattern)
           longer == Append(pattern, e)
           R == Reached(text, pattern)
           Q == Reached(text, longer)
           Good == {n \in 0..len : R[n] = Q[n]}
<1>1. longer \in Seq(D) /\ Len(longer) = len + 1 /\ len \in Nat /\ longer[len + 1] = e
      /\ \A i \in 1..len : longer[i] = pattern[i]
  BY AppendProperties, LenProperties
<1> HIDE DEF longer
<1>2. R[0] = {0} /\ \A n \in 1..len : R[n] = Reach(R[n - 1], pattern[n], text)
  BY ReachedStep
<1>3. Q[0] = {0} /\ \A n \in 1..Len(longer) : Q[n] = Reach(Q[n - 1], longer[n], text)
  BY <1>1, ReachedStep
<1> HIDE DEF R, Q, len
<1>4. 0 \in Good
  <2>1. R[0] = Q[0] /\ 0 \in 0..len
    BY <1>1, <1>2, <1>3
  <2> QED
    BY <2>1
<1>5. ASSUME NEW n \in 1..len, n - 1 \in Good PROVE n \in Good
  <2>1. R[n - 1] = Q[n - 1] /\ n \in 0..len /\ n \in 1..Len(longer) /\ longer[n] = pattern[n]
    BY <1>1, <1>5
  <2> HIDE DEF Good
  <2>2. R[n] = Q[n]
    BY <1>2, <1>3, <2>1
  <2> QED
    BY <2>1, <2>2 DEF Good
<1> HIDE DEF Good
<1>6. \A n \in 0..len : n \in Good
  BY <1>1, <1>4, <1>5, Induction
<1>7. R[len] = Q[len]
  BY <1>1, <1>6 DEF Good
<1>8. len + 1 \in 1..Len(longer) /\ (len + 1) - 1 = len
  BY <1>1
<1>9. Q[len + 1] = Reach(Q[len], e, text)
  BY <1>1, <1>3, <1>8
<1> QED
  BY <1>1, <1>7, <1>9 DEF R, Q, len, longer

(* What matches goes on matching: a wildcard takes nothing or one more character, and
   another character takes itself. *)
LEMMA MatchesMore ==
  ASSUME NEW C, NEW text \in Seq(C), NEW c \in C, NEW D, NEW pattern \in Seq(D), Matches(text, pattern)
  PROVE  /\ Wildcard \in D => Matches(text, Append(pattern, Wildcard))
         /\ Wildcard \in D => Matches(Append(text, c), Append(pattern, Wildcard))
         /\ c \in D /\ c # Wildcard => Matches(Append(text, c), Append(pattern, c))
<1> DEFINE len == Len(pattern)
           end == Len(text)
           longer == Append(text, c)
<1>1. longer \in Seq(C) /\ Len(longer) = end + 1 /\ end \in Nat /\ longer[end + 1] = c /\ len \in Nat
  BY AppendProperties, LenProperties
<1>2. end \in Reached(text, pattern)[len]
  BY DEF Matches
<1>3. end \in Reached(longer, pattern)[len]
  <2>1. len \in 0..len
    BY <1>1
  <2> QED
    BY <1>2, <2>1, ReachedLonger
<1> HIDE DEF len, longer, end
<1>4. \A e \in D : Reached(text, Append(pattern, e))[Len(Append(pattern, e))] = Reach(Reached(text, pattern)[len], e, text)
  BY ReachedAppend DEF len
<1>5. \A e \in D : Reached(longer, Append(pattern, e))[Len(Append(pattern, e))] = Reach(Reached(longer, pattern)[len], e, longer)
  BY <1>1, ReachedAppend DEF len
<1>6. ASSUME Wildcard \in D PROVE Matches(text, Append(pattern, Wildcard))
  <2>1. end \in Reach(Reached(text, pattern)[len], Wildcard, text)
    BY <1>1, <1>2 DEF Reach, end
  <2> QED
    BY <1>4, <1>6, <2>1 DEF Matches, end
<1>7. ASSUME Wildcard \in D PROVE Matches(longer, Append(pattern, Wildcard))
  <2>1. end + 1 \in Reach(Reached(longer, pattern)[len], Wildcard, longer)
    <3>1. end <= end + 1 /\ end + 1 \in 0..Len(longer)
      BY <1>1
    <3> QED
      BY <1>3, <3>1 DEF Reach
  <2> QED
    BY <1>1, <1>5, <1>7, <2>1 DEF Matches
<1>8. ASSUME c \in D, c # Wildcard PROVE Matches(longer, Append(pattern, c))
  <2>1. end + 1 \in Reach(Reached(longer, pattern)[len], c, longer)
    <3>1. (end + 1) - 1 = end /\ end + 1 > 0 /\ end + 1 \in 0..Len(longer)
      BY <1>1
    <3> QED
      BY <1>1, <1>3, <1>8, <3>1 DEF Reach
  <2> QED
    BY <1>1, <1>5, <1>8, <2>1 DEF Matches
<1> QED
  BY <1>6, <1>7, <1>8 DEF longer

\* The token that ends the list at k is longer than that by now.
Outgrown(tokens, k, length) == k \in 1..Len(tokens) /\ Len(tokens[k]) > length

(* It stays so, whatever character comes next. *)
LEMMA OutgrownStays ==
  ASSUME NEW C, NEW tokens \in Lists(C), NEW c \in C, NEW k, NEW length \in Nat,
         Outgrown(tokens, k, length)
  PROVE  Outgrown(Cut(tokens, c), k, length)
<1> DEFINE n == Len(tokens)
<1>1. tokens \in Seq(Seq(C)) /\ n \in Nat /\ k \in 1..n /\ Len(tokens[k]) > length /\ n # 0
  BY EmptySeq, LenProperties DEF Lists, Outgrown
<1>2. tokens[k] \in Seq(C) /\ tokens[n] \in Seq(C)
  BY <1>1, ElementOfSeq
<1>3. CASE c = " "
  <2>1. Cut(tokens, c) = Append(tokens, <<>>) /\ <<>> \in Seq(C)
    <3>1. <<>> \in Seq(C)
      BY EmptySeq
    <3>2. Cut(tokens, c) = Append(tokens, <<>>)
      BY <1>3, Zenon DEF Cut
    <3> QED
      BY <3>1, <3>2
  <2>2. Len(Append(tokens, <<>>)) = n + 1 /\ Append(tokens, <<>>)[k] = tokens[k]
    BY <1>1, <2>1, AppendProperties
  <2>3. k \in 1..(n + 1)
    BY <1>1
  <2> QED
    BY <1>1, <2>1, <2>2, <2>3 DEF Outgrown
<1>4. CASE c # " "
  <2> DEFINE longer == Append(tokens[n], c)
             cut == [tokens EXCEPT ![n] = longer]
  <2>1. longer \in Seq(C) /\ Len(longer) = Len(tokens[n]) + 1 /\ Len(tokens[n]) \in Nat
    BY <1>2, AppendProperties, LenProperties
  <2> HIDE DEF longer
  <2>2. Len(cut) = n /\ cut[k] = IF k = n THEN longer ELSE tokens[k]
    BY <1>1, <2>1, ExceptSeq
  <2>3. Cut(tokens, c) = cut
    BY <1>4 DEF Cut, longer
  <2> HIDE DEF cut, n
  <2>4. Len(cut[k]) > length
    BY <1>1, <2>1, <2>2
  <2> QED
    BY <1>1, <2>2, <2>3, <2>4 DEF Outgrown
<1> QED
  BY <1>3, <1>4

(* A list that has outgrown the last of some tokens does not begin with them. *)
LEMMA OutgrownIsAnother ==
  ASSUME NEW C, NEW tokens \in Lists(C), NEW others \in Seq(Seq(C)),
         Outgrown(others, Len(tokens), Len(tokens[Len(tokens)]))
  PROVE  ~IsPrefix(tokens, others)
<1> SUFFICES ASSUME IsPrefix(tokens, others) PROVE FALSE
  OBVIOUS
<1> DEFINE k == Len(tokens)
<1>1. tokens \in Seq(Seq(C)) /\ k \in Nat /\ k # 0 /\ k <= Len(others) /\ Len(others) \in Nat
  BY EmptySeq, LenProperties DEF Lists, Outgrown
<1>2. SubSeq(tokens, 1, k) = SubSeq(others, 1, k)
  BY DEF IsPrefix
<1>3. \A i \in 1..k : tokens[i] \in Seq(C)
  BY <1>1, ElementOfSeq
<1>4. \A i \in 1..k : others[i] \in Seq(C)
  <2>1. \A i \in 1..k : i \in 1..Len(others)
    BY <1>1
  <2> QED
    BY <2>1, ElementOfSeq
<1>5. Len(others[k]) > Len(tokens[k])
  BY DEF Outgrown
<1> HIDE DEF k
<1>6. k \in 1..k /\ k \in 1..(k - 1 + 1) /\ 1 + k - 1 = k
  BY <1>1
<1>7. SubSeq(tokens, 1, k)[k] = tokens[k]
  BY <1>1, <1>3, <1>6, SubSeqProperties
<1>8. SubSeq(others, 1, k)[k] = others[k]
  BY <1>1, <1>4, <1>6, SubSeqProperties
<1>9. tokens[k] = others[k] /\ Len(tokens[k]) \in Nat
  BY <1>2, <1>3, <1>6, <1>7, <1>8, LenProperties
<1> QED
  BY <1>5, <1>9

(* A pattern that is no pin matches a text that does not begin with the tokens it spells
   out: where its first wildcard is, the token goes on. *)
LEMMA NoPinOverMatches ==
  ASSUME NEW pattern \in Patterns, ~PinsAToken(pattern),
         NEW more \in Characters, more # Space
  PROVE  \E text \in Texts : Matches(text, pattern) /\ ~IsPrefix(Spelled(pattern), Tokens(text))
<1> DEFINE C == Characters
           D == C \cup {Wildcard}
           first == FirstWildcard(pattern)
           len == Len(pattern)
           begin(n) == SubSeq(pattern, 1, n)
           tokens == Tokens(begin(first - 1))
           k == Len(tokens)
           Grown(text) == Outgrown(Tokens(text), k, Len(tokens[k]))
<1>1. pattern \in Seq(D) /\ len \in Nat /\ Wildcard \in D
  BY LenProperties DEF Patterns
<1>2. first \in 1..(len + 1) /\ (first = len + 1 \/ pattern[first] = Wildcard)
      /\ \A i \in 1..(first - 1) : pattern[i] # Wildcard
  BY <1>1, FirstWildcardIsFirst
<1>3. first <= len /\ ~ (first > 1 /\ pattern[first - 1] = Space)
  BY Zenon DEF PinsAToken, Space
<1>4. Spelled(pattern) = tokens
  <2>1. ~ (first \in 2..Len(pattern) /\ pattern[first - 1] = Space)
    BY <1>1, <1>2, <1>3
  <2> QED
    BY <2>1, Zenon DEF Spelled, Space
<1> HIDE DEF first, D
<1>5. \A n \in 1..len : pattern[n] \in D
  BY <1>1, ElementOfSeq
<1>6. ASSUME NEW n \in 0..len PROVE begin(n) \in Seq(D)
  <2>1. \A i \in 1..n : pattern[i] \in D
    BY <1>1, <1>5
  <2> QED
    BY <1>1, <2>1, SubSeqProperties
<1>7. ASSUME NEW n \in 1..len PROVE begin(n) = Append(begin(n - 1), pattern[n])
  <2>1. SubSeq(pattern, 1, n) = SubSeq(pattern, 1, n - 1) \o <<pattern[n]>>
    <3>1. 1 \in 1..Len(pattern) /\ n \in 1..Len(pattern)
      BY <1>1
    <3> QED
      BY <1>1, <3>1, SubSeqRecursiveSecond
  <2>2. n - 1 \in 0..len
    BY <1>1
  <2>3. begin(n - 1) \in Seq(D)
    BY <1>6, <2>2
  <2> HIDE DEF begin
  <2>4. Append(begin(n - 1), pattern[n]) = begin(n - 1) \o <<pattern[n]>>
    BY <1>5, <2>3, AppendIsConcat
  <2> QED
    BY <2>1, <2>4 DEF begin
<1>8. begin(0) = <<>> /\ begin(len) = pattern
  BY <1>1, SubSeqEmpty, SubSeqFull
<1> HIDE DEF begin, len
<1> DEFINE Fits(n) == \E text \in Seq(C) :
                          /\ Matches(text, begin(n))
                          /\ n < first => text = begin(n)
                          /\ n >= first => Grown(text)
           Good == {n \in 0..len : Fits(n)}
<1>9. 0 \in Good
  <2>1. <<>> \in Seq(C) /\ Len(<<>>) = 0
    BY EmptySeq
  <2>2. Reached(<<>>, <<>>)[0] = {0}
    BY <2>1, ReachedStep
  <2>3. Matches(<<>>, begin(0))
    BY <1>8, <2>1, <2>2 DEF Matches
  <2>4. 0 < first /\ ~ (0 >= first) /\ 0 \in 0..len
    BY <1>1, <1>2
  <2>5. Fits(0)
    BY <1>8, <2>1, <2>3, <2>4
  <2> HIDE DEF Fits
  <2> QED
    BY <2>4, <2>5
<1>10. ASSUME NEW n \in 1..len, n - 1 \in Good PROVE n \in Good
  <2>1. n - 1 \in 0..len /\ n \in 0..len /\ n \in Nat /\ first \in Nat
    BY <1>1, <1>2
  <2>2. PICK text \in Seq(C) : /\ Matches(text, begin(n - 1))
                               /\ n - 1 < first => text = begin(n - 1)
                               /\ n - 1 >= first => Grown(text)
    BY <1>10
  <2>3. begin(n - 1) \in Seq(D) /\ begin(n) = Append(begin(n - 1), pattern[n]) /\ pattern[n] \in D
    BY <1>5, <1>6, <1>7, <2>1
  <2> HIDE DEF Good, Grown, tokens, k, C
  <2>4. CASE n < first
    <3> DEFINE c == pattern[n]
    <3>1. c # Wildcard /\ c \in C /\ n - 1 < first /\ ~ (n >= first)
      <4>1. n \in 1..(first - 1) /\ n - 1 < first /\ ~ (n >= first)
        BY <2>1, <2>4
      <4>2. c # Wildcard
        BY <1>2, <4>1
      <4> QED
        BY <2>3, <4>1, <4>2 DEF D
    <3> HIDE DEF c
    <3>2. Append(text, c) \in Seq(C) /\ Append(text, c) = begin(n)
      BY <2>2, <2>3, <3>1, AppendProperties DEF c
    <3>3. Matches(Append(text, c), begin(n))
      BY <2>2, <2>3, <3>1, MatchesMore DEF c
    <3>4. Fits(n)
      BY <3>1, <3>2, <3>3
    <3> HIDE DEF Fits
    <3> QED
      BY <2>1, <3>4 DEF Good
  <2>5. CASE n = first
    <3>1. pattern[n] = Wildcard /\ n - 1 < first /\ ~ (n < first)
      BY <1>1, <1>2, <1>3, <2>1, <2>5
    <3>2. text = begin(first - 1)
      BY <2>2, <2>5, <3>1
    <3>3. Append(text, more) \in Seq(C)
      BY AppendProperties DEF C
    <3>4. Matches(Append(text, more), begin(n))
      BY <1>1, <2>2, <2>3, <3>1, MatchesMore DEF C
    <3>5. Grown(Append(text, more))
      <4>1. tokens = Tokens(text) /\ tokens \in Lists(C)
        BY <3>2, TokensAppend DEF tokens
      <4>2. Tokens(Append(text, more)) = Cut(tokens, more)
        BY <4>1, TokensAppend DEF C
      <4>3. tokens \in Seq(Seq(C)) /\ k \in Nat /\ k # 0 /\ k \in 1..k /\ k = Len(tokens)
        BY <4>1, EmptySeq, LenProperties DEF Lists, k
      <4>4. tokens[k] \in Seq(C) /\ Len(tokens[k]) \in Nat
        BY <4>3, ElementOfSeq, LenProperties
      <4> DEFINE longer == Append(tokens[k], more)
                 cut == [tokens EXCEPT ![k] = longer]
      <4>5. longer \in Seq(C) /\ Len(longer) = Len(tokens[k]) + 1
        BY <4>4, AppendProperties DEF C
      <4> HIDE DEF longer
      <4>6. Len(cut) = k /\ cut[k] = longer
        BY <4>3, <4>5, ExceptSeq
      <4>7. Cut(tokens, more) = cut
        BY <4>3, Zenon DEF Cut, longer, Space
      <4> HIDE DEF cut
      <4> QED
        BY <4>2, <4>3, <4>4, <4>5, <4>6, <4>7 DEF Grown, Outgrown
    <3>6. Fits(n)
      BY <3>1, <3>3, <3>4, <3>5
    <3> HIDE DEF Fits
    <3> QED
      BY <2>1, <3>6 DEF Good
  <2>6. CASE n > first
    <3>1. n - 1 >= first /\ ~ (n < first) /\ Grown(text)
      BY <2>1, <2>2, <2>6
    <3>2. CASE pattern[n] = Wildcard
      <4>1. Matches(text, begin(n))
        BY <1>1, <2>2, <2>3, <3>2, MatchesMore DEF C
      <4>2. Fits(n)
        BY <3>1, <4>1
      <4> HIDE DEF Fits
      <4> QED
        BY <2>1, <4>2 DEF Good
    <3>3. CASE pattern[n] # Wildcard
      <4> DEFINE c == pattern[n]
      <4>1. c # Wildcard /\ c \in C
        BY <2>3, <3>3 DEF D
      <4> HIDE DEF c
      <4>2. Append(text, c) \in Seq(C)
        BY <4>1, AppendProperties
      <4>3. Matches(Append(text, c), begin(n))
        BY <2>2, <2>3, <4>1, MatchesMore DEF c
      <4>4. Grown(Append(text, c))
        <5>1. Tokens(text) \in Lists(C) /\ Tokens(Append(text, c)) = Cut(Tokens(text), c)
          BY <4>1, TokensAppend
        <5>2. Len(tokens[k]) \in Nat
          <6>1. first - 1 \in 0..len
            BY <1>1, <1>2, <1>3
          <6>2. tokens \in Lists(D)
            BY <1>6, <6>1, TokensAppend DEF tokens
          <6>3. tokens \in Seq(Seq(D)) /\ k \in 1..Len(tokens)
            BY <6>2, EmptySeq DEF Lists, k
          <6> QED
            BY <6>3, ElementOfSeq, LenProperties
        <5> QED
          BY <3>1, <4>1, <5>1, <5>2, OutgrownStays DEF Grown
      <4>5. Fits(n)
        BY <3>1, <4>2, <4>3, <4>4
      <4> HIDE DEF Fits
      <4> QED
        BY <2>1, <4>5 DEF Good
    <3> QED
      BY <3>2, <3>3
  <2> QED
    BY <2>1, <2>4, <2>5, <2>6
<1> HIDE DEF Good, tokens, k
<1>11. \A n \in 0..len : n \in Good
  BY <1>1, <1>9, <1>10, Induction
<1>12. len \in 0..len /\ len >= first
  BY <1>1, <1>2, <1>3 DEF len
<1>13. PICK text \in Seq(C) : Matches(text, pattern) /\ Grown(text)
  BY <1>8, <1>11, <1>12 DEF Good
<1>14. ~IsPrefix(tokens, Tokens(text))
  <2>1. tokens \in Lists(D)
    <3>1. first - 1 \in 0..len
      BY <1>1, <1>2, <1>12
    <3> QED
      BY <1>6, <3>1, TokensAppend DEF tokens
  <2>2. Tokens(text) \in Seq(Seq(D))
    <3>1. text \in Seq(D)
      BY SeqMonotonic DEF D
    <3> QED
      BY <3>1, TokensAppend DEF Lists
  <2> QED
    BY <1>13, <2>1, <2>2, OutgrownIsAnother DEF k, Grown
<1> QED
  BY <1>4, <1>13, <1>14 DEF Texts

-----------------------------------------------------------------------------
(* The three stages *)

\* What has been logged and asked is what these make of the policy and the request.
Consistent ==
  /\ stage \in {"written", "loaded", "asked"}
  /\ policy \in Policies
  /\ IF stage = "written" THEN ~lints.tail ELSE lints = LintArgMatching(policy)
  /\ stage = "asked" =>
       /\ query \in Queries
       /\ caller = Uid(query.caller)
       /\ resource = Command(query.args)
       /\ satisfied = Satisfied(policy, resource)

(* Each stage finds what the one before it left. *)
THEOREM ConsistentInvariant == Spec => []Consistent
<1>1. Init => Consistent
  <2> SUFFICES ASSUME Init PROVE Consistent
    OBVIOUS
  <2>1. stage = "written" /\ policy \in Policies
    BY DEF Init
  <2>2. ~lints.tail
    BY DEF Init
  <2> QED
    BY <2>1, <2>2 DEF Consistent
<1>2. Consistent /\ [Next]_vars => Consistent'
  <2> SUFFICES ASSUME Consistent, [Next]_vars PROVE Consistent'
    OBVIOUS
  <2>1. CASE Load
    BY <2>1 DEF Consistent, Load
  <2>2. CASE Ask
    BY <2>2 DEF Consistent, Ask
  <2>3. CASE UNCHANGED vars
    BY <2>3 DEF Consistent, vars, entities
  <2> QED
    BY <2>1, <2>2, <2>3 DEF Next
<1> QED
  BY <1>1, <1>2, PTL DEF Spec

(* Names stay data, whatever characters they are made of. *)
THEOREM NamesStayNamesAlways == Spec => []NamesStayNames
<1>1. Consistent => NamesStayNames
  <2> SUFFICES ASSUME Consistent, stage = "asked" PROVE caller = query.caller
    BY DEF NamesStayNames
  <2>1. query.caller \in Texts
    BY Constants DEF ConstantsAssumption, Consistent
  <2> QED
    BY <2>1, NamesAreReadBack DEF Consistent
<1> QED
  BY <1>1, ConsistentInvariant, PTL

(* What the lints and Within leave is ordinary. *)
LEMMA NothingLinted ==
  ASSUME NEW condition \in Nodes, PathLiterals(condition) = {}, ~Within(condition)
  PROVE  \A node \in Subtree[condition] : Ordinary(node)
<1> SUFFICES ASSUME NEW node \in Subtree[condition], node.op \in Memberships
             PROVE  Ordinary(node)
  BY DEF Ordinary
<1>1. node.right # ArgsRead
  BY DEF Within
<1>2. ASSUME node.left = ArgsRead PROVE node.right # TailRead
  <2>1. Children(node) = {node.left, node.right}
    BY DEF Children, Memberships
  <2> QED
    BY <1>2, <2>1 DEF Within
<1>3. ASSUME node.left = ArgsRead PROVE \A text \in Literals(node.right) : ~Contains(text, "/")
  BY <1>3 DEF PathLiterals
<1> QED
  BY <1>1, <1>2, <1>3 DEF Ordinary

(* A policy whose literals are not linted decides the same under every path of the shim. *)
THEOREM ShimPathDecidesNothingAlways == Spec => []ShimPathDecidesNothing
<1>1. Consistent => ShimPathDecidesNothing
  <2> SUFFICES ASSUME Consistent, stage = "asked", query.args # <<>>, lints.paths = {},
                      ~Within(policy.condition), NEW other \in Queries, other.args # <<>>
               PROVE  Satisfied(policy, Command([query.args EXCEPT ![1] = other.args[1]])) = satisfied
    BY DEF ShimPathDecidesNothing
  <2> DEFINE as == query.args
             path == other.args[1]
             bs == [as EXCEPT ![1] = path]
  <2>1. as \in Seq(Texts) /\ other.args \in Seq(Texts) /\ Contains(as[1], "/") /\ Contains(path, "/")
        /\ policy.condition \in Nodes
    BY Constants DEF ConstantsAssumption, Consistent
  <2>2. path \in Texts
    BY <2>1
  <2>3. as # <<>>
    OBVIOUS
  <2>4. satisfied = Satisfied(policy, Command(as)) /\ PathLiterals(policy.condition) = {}
    BY DEF Consistent, LintArgMatching
  <2> HIDE DEF as, path
  <2>5. bs \in Seq(Texts) /\ Len(bs) = Len(as) /\ bs[1] = path /\ \A i \in 2..Len(as) : as[i] = bs[i]
    <3> DEFINE len == Len(as)
    <3>1. len \in Nat /\ DOMAIN as = 1..len /\ \A i \in 1..len : as[i] \in Texts
      BY <2>1, LenProperties, ElementOfSeq
    <3>2. as \in [1..len -> Texts] /\ len # 0
      BY <2>1, <2>3, LenProperties, EmptySeq
    <3> HIDE DEF len
    <3>3. 1 \in 1..len /\ \A i \in 2..len : i \in 1..len /\ i # 1
      BY <3>1, <3>2
    <3>4. bs = [i \in 1..len |-> IF i = 1 THEN path ELSE as[i]]
      BY <3>1, <3>2
    <3> HIDE DEF bs
    <3>5. bs[1] = path /\ \A i \in 2..len : as[i] = bs[i]
      BY <3>3, <3>4
    <3>6. bs \in [1..len -> Texts]
      BY <2>2, <3>1, <3>4
    <3>7. bs \in Seq(Texts) /\ Len(bs) = len
      BY <3>1, <3>6, FunctionIsSeq
    <3> QED
      BY <3>5, <3>7 DEF len
  <2> HIDE DEF bs
  <2>6. SameButPaths(Command(as), Command(bs))
    BY <2>1, <2>3, <2>5, ShimsDiffer
  <2>7. \A node \in Subtree[policy.condition] : Ordinary(node)
    BY <2>1, <2>4, NothingLinted
  <2>8. Holds(policy.condition, Command(as)) = Holds(policy.condition, Command(bs))
    BY <2>1, <2>6, <2>7, OrdinaryCondition
  <2>9. Satisfied(policy, Command(bs)) = Satisfied(policy, Command(as))
    BY <2>8 DEF Satisfied
  <2> QED
    BY <2>4, <2>9 DEF as, bs, path
<1> QED
  BY <1>1, ConsistentInvariant, PTL

(* A permit that is not linted approves by argv_tail only what its author named: by the
   tokens of the arguments, which are the arguments themselves when no space is in them. *)
THEOREM QuietPermitNamesItsCommandAlways == Spec => []QuietPermitNamesItsCommand
<1>1. Consistent /\ Plain => ~QuietOverMatch(Spoken(query.args))
  <2> SUFFICES ASSUME Consistent, Plain, QuietOverMatch(Spoken(query.args))
               PROVE  FALSE
    OBVIOUS
  <2> DEFINE root == policy.condition
             as == query.args
  <2>1. root \in Nodes /\ as \in Seq(Texts)
    BY Constants DEF ConstantsAssumption, Consistent, QuietOverMatch
  <2>2. ~UnpinnedRead(root)
    <3>1. stage = "asked" /\ policy.effect = "permit" /\ ~lints.tail
      BY DEF QuietOverMatch
    <3>2. lints = LintArgMatching(policy)
      BY <3>1 DEF Consistent
    <3>3. lints.tail = (policy.effect = "permit" /\ UnpinnedRead(root))
      BY <3>2 DEF LintArgMatching
    <3> QED
      BY <3>1, <3>3
  <2>3. resource = Command(as) /\ satisfied = (Holds(root, resource) = TRUE) /\ satisfied
    BY DEF Consistent, QuietOverMatch, Satisfied, Plain
  <2>4. PICK tail \in Tails : ~Satisfied(policy, [resource EXCEPT !.argv_tail = tail])
    BY DEF QuietOverMatch
  <2> DEFINE b == [resource EXCEPT !.argv_tail = tail]
  <2>5. b.args = Command(as).args
    BY <2>3 DEF Command
  <2>6. ~ (Holds(root, b) = TRUE)
    BY <2>4 DEF Satisfied, Plain
  <2>7. \A test \in TailTests(root) : ~Begins(test, Spoken(as))
    BY DEF QuietOverMatch
  <2>8. Negated(root) = {} /\ policy.kind = "when"
    BY DEF Plain
  <2>9. Holds(root, Command(as))
    BY <2>3
  <2> HIDE DEF root, as, b
  <2>10. Holds(root, b)
    BY <2>1, <2>2, <2>5, <2>7, <2>8, <2>9, PinnedCondition
  <2>11. Holds(root, b) \in BOOLEAN
    BY <2>1, HoldsStep
  <2> QED
    BY <2>6, <2>10, <2>11
<1>2. Consistent /\ stage = "asked" /\ Unbroken(query.args) => Spoken(query.args) = Words(query.args)
  <2> SUFFICES ASSUME Consistent, stage = "asked", Unbroken(query.args)
               PROVE  Spoken(query.args) = Words(query.args)
    OBVIOUS
  <2> DEFINE as == query.args
  <2>1. as \in Seq(Texts) /\ Unbroken(as)
    BY Constants DEF ConstantsAssumption, Consistent
  <2> HIDE DEF as
  <2> QED
    BY <2>1, SpokenWords DEF as
<1>3. Consistent => QuietPermitNamesItsCommand
  <2> SUFFICES ASSUME Consistent, Plain, Unbroken(query.args), QuietOverMatch(Words(query.args))
               PROVE  FALSE
    BY <1>1 DEF QuietPermitNamesItsCommand
  <2>1. stage = "asked"
    BY DEF QuietOverMatch
  <2> QED
    BY <1>1, <1>2, <2>1
<1> QED
  BY <1>3, ConsistentInvariant, PTL

(* And no permit is linted over a pin: when the tails to look at are all texts, there is a
   letter to go on with, and no policy asks whether argv_tail differs from itself. *)
THEOREM LintedForAReasonAlways ==
  ASSUME Texts \subseteq Tails,
         \E letter \in Characters : letter # Space,
         \A node \in Nodes : node.op = "!=" => Children(node) # {TailRead}
  PROVE  Spec => []LintedForAReason
<1>1. Consistent => LintedForAReason
  <2> SUFFICES ASSUME Consistent, lints.tail, ~Sought(policy.condition)
               PROVE  \E test \in TailTests(policy.condition), tail \in Tails :
                        /\ Holds(test, [args |-> {}, argv_tail |-> tail])
                        /\ ~Begins(test, Tokens(tail))
    BY DEF LintedForAReason
  <2> DEFINE root == policy.condition
             cmd(tail) == [args |-> {}, argv_tail |-> tail]
  <2>1. root \in Nodes
    BY Constants DEF ConstantsAssumption, Consistent
  <2>2. UnpinnedRead(root)
    <3>1. lints = LintArgMatching(policy)
      BY DEF Consistent
    <3>2. lints.tail = (policy.effect = "permit" /\ UnpinnedRead(root))
      BY <3>1 DEF LintArgMatching
    <3> QED
      BY <3>2
  <2> HIDE DEF root
  <2>3. PICK letter \in Characters : letter # Space
    OBVIOUS
  <2>4. PICK test \in Subtree[root] :
          \/ test.op = "like" /\ test.left = TailRead /\ ~PinsAToken(test.pattern)
          \/ test.op \notin {"like", "=="} /\ TailRead \in Children(test)
    BY <2>2 DEF UnpinnedRead
  <2>5. test \in Nodes
    BY <2>1, SubtreeClosed
  <2>6. \A tail : cmd(tail).argv_tail = tail
    OBVIOUS
  <2>7. CASE test.op = "like" /\ test.left = TailRead /\ ~PinsAToken(test.pattern)
    <3>1. test.pattern \in Patterns
      BY <2>5, <2>7, Constants DEF ConstantsAssumption
    <3>2. PICK tail \in Texts : Matches(tail, test.pattern) /\ ~IsPrefix(Spelled(test.pattern), Tokens(tail))
      BY <2>3, <2>7, <3>1, NoPinOverMatches
    <3>3. TailRead \in Children(test)
      BY <2>7 DEF Children
    <3>4. test \in TailTests(root)
      BY <2>4, <2>7, <3>3 DEF TailTests
    <3>5. ValueOf(test.left, cmd(tail)) = tail
      BY <2>7 DEF ValueOf
    <3> HIDE DEF cmd
    <3>6. HoldsOver(test, cmd(tail), Holding(cmd(tail)))
      BY <2>7, <3>2, <3>5 DEF HoldsOver
    <3>7. Holds(test, cmd(tail))
      BY <2>5, <3>6, HoldsStep
    <3>8. ~Begins(test, Tokens(tail))
      <4>1. Named(test) = {Spelled(test.pattern)}
        BY <2>7 DEF Named
      <4> QED
        BY <3>2, <4>1 DEF Begins
    <3>9. tail \in Tails
      OBVIOUS
    <3> QED
      BY <3>4, <3>7, <3>8, <3>9 DEF cmd, root
  <2>8. CASE test.op \notin {"like", "=="} /\ TailRead \in Children(test)
    <3>1. test.op \in {"like", "==", "!="} \cup Memberships
      BY <2>5, <2>8, Constants DEF ConstantsAssumption
    <3>2. test.op \notin Memberships
      BY <2>4, <2>8 DEF Sought, root
    <3>3. test.op = "!="
      BY <2>8, <3>1, <3>2
    <3>4. Children(test) = {test.left, test.right}
      BY <3>3 DEF Children
    <3>5. PICK side \in Children(test) : side # TailRead /\ Children(test) = {side, TailRead}
      BY <2>5, <2>8, <3>3, <3>4
    <3>6. PICK tail \in Texts : tail # side.text
      <4>1. <<>> \in Texts /\ <<letter>> \in Texts /\ <<>> # <<letter>>
        <5>1. <<>> \in Texts
          BY EmptySeq DEF Texts
        <5>2. <<letter>> \in Texts
          BY OneIsSeq DEF Texts
        <5>3. <<>> # <<letter>>
          OBVIOUS
        <5> QED
          BY <5>1, <5>2, <5>3
      <4> QED
        BY <4>1
    <3>7. test \in TailTests(root)
      BY <2>4, <2>8, <3>3 DEF TailTests
    <3>8. ValueOf(test.left, cmd(tail)) # ValueOf(test.right, cmd(tail))
      <4>1. ValueOf(TailRead, cmd(tail)) = tail /\ ValueOf(side, cmd(tail)) = side.text
        BY <3>5 DEF ValueOf
      <4>2. {test.left, test.right} = {side, TailRead}
        BY <3>4, <3>5
      <4> HIDE DEF cmd
      <4> QED
        BY <3>5, <3>6, <4>1, <4>2
    <3> HIDE DEF cmd
    <3>9. HoldsOver(test, cmd(tail), Holding(cmd(tail)))
      BY <3>3, <3>8 DEF HoldsOver
    <3>10. Holds(test, cmd(tail))
      BY <2>5, <3>9, HoldsStep
    <3>11. ~Begins(test, Tokens(tail))
      <4>1. Named(test) = {}
        BY <3>3 DEF Named
      <4> QED
        BY <4>1 DEF Begins
    <3>12. tail \in Tails
      OBVIOUS
    <3> QED
      BY <3>7, <3>10, <3>11, <3>12 DEF cmd, root
  <2> QED
    BY <2>4, <2>7, <2>8
<1> QED
  BY <1>1, ConsistentInvariant, PTL

=============================================================================
