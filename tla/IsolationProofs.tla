--------------------------- MODULE IsolationProofs ---------------------------
(***************************************************************************)
(* Proofs about Isolation, for a chain of any depth and a directory of any *)
(* number of files.                                                        *)
(*                                                                         *)
(* The tree does not change, so what the walk has looked at and let pass   *)
(* stays good.  The invariant says how far that is at every pc; when the   *)
(* verdict is "trusted" it is everything, and two neighbours of the chain  *)
(* at a time then give that no component is within reach.                  *)
(***************************************************************************)
EXTENDS Isolation, TLAPS

LeafPassed == level[Depth] # Absent /\ ~LeafRefused(level[Depth])

FilePassed(n) == file[n] # Absent => ~FileRefused(file[n])

LevelPassed(c) == level[c] # Absent => ~AncestorRefused(level[c])

AncestorsPassed(from) == \A c \in from..(Depth - 1) : LevelPassed(c)

\* How far the walk has come.
Progress ==
  /\ pc \in {"leaf", "list", "files"} /\ what # "audit log" => next = Depth - 1
  /\ pc \in {"list", "files"} => what = "policies"
  /\ pc \in {"list", "files"} => LeafPassed
  /\ pc = "files" => \A n \in Files \ unread : FilePassed(n)
  /\ pc = "ancestors" => next < Depth /\ AncestorsPassed(next + 1)
  /\ pc = "ancestors" /\ what # "audit log" => LeafPassed
  /\ pc = "ancestors" => \A n \in Files : FilePassed(n)
  /\ pc = "leaf" /\ what = "audit log" => AncestorsPassed(0)
  /\ pc = "trusted" => AncestorsPassed(0) /\ \A n \in Files : FilePassed(n)
  /\ pc = "trusted" => LeafPassed \/ (what = "audit log" /\ level[Depth] = Absent)

IInv == TypeOK /\ WellFormed /\ Progress

-----------------------------------------------------------------------------

(* Every component but the root has its parent in the chain, the path itself too. *)
LEMMA LevelAbove == Depth - 1 \in Levels /\ \A c \in Levels : c > 0 => c - 1 \in Levels
  BY DepthAssumption DEF Levels

(* The walk stays within its types: the loop over the ancestors stops at the root, and
   no verdict is any but the two. *)
THEOREM TypeInv == Spec => []TypeOK
<1>1. Init => TypeOK
  <2> SUFFICES ASSUME Init PROVE TypeOK
    OBVIOUS
  <2>1. what \in {"policies", "audit log", "key"}
    BY ConstantsAssumption DEF Init
  <2>2. next \in Levels
    BY DepthAssumption DEF Init, Levels
  <2>3. level \in [Levels -> Facts \cup {Absent}] /\ file \in [Files -> Facts \cup {Absent}]
    BY DEF Init
  <2>4. pc = "idle" /\ unread \subseteq Files /\ stumbled \in BOOLEAN
    BY DEF Init
  <2> QED
    BY <2>1, <2>2, <2>3, <2>4 DEF TypeOK
<1>2. TypeOK /\ [Next]_vars => TypeOK'
  <2> SUFFICES ASSUME TypeOK, [Next]_vars PROVE TypeOK'
    OBVIOUS
  <2> USE DEF TypeOK
  <2>1. CASE Begin
    <3>1. next' = Depth - 1
      BY <2>1 DEF Begin
    <3>2. pc' \in Walking
      BY <2>1 DEF Begin, Walking
    <3> QED
      BY <2>1, <3>1, <3>2, LevelAbove DEF Begin, tree
  <2>2. CASE CannotExamine
    BY <2>2 DEF CannotExamine, tree, Walking
  <2>3. CASE JudgeLeaf
    BY <2>3 DEF JudgeLeaf, AfterLeaf, tree, Walking
  <2>4. CASE ListFiles
    BY <2>4 DEF ListFiles, tree, Walking
  <2>5. ASSUME NEW n \in Files, JudgeFile(n) PROVE TypeOK'
    BY <2>5 DEF JudgeFile, tree, Walking
  <2>6. CASE FilesJudged
    BY <2>6 DEF FilesJudged, tree, Walking
  <2>7. CASE JudgeAncestor
    <3>1. UNCHANGED <<tree, unread>>
      BY <2>7 DEF JudgeAncestor
    <3>2. pc' \in Walking \cup {"idle", "trusted", "refused"} /\ stumbled' \in BOOLEAN
      BY <2>7 DEF JudgeAncestor, Up, Walking
    <3>3. next' = next \/ (next > 0 /\ next' = next - 1)
      BY <2>7 DEF JudgeAncestor, Up
    <3>4. next' \in Levels
      BY <3>3, LevelAbove
    <3> QED
      BY <3>1, <3>2, <3>4 DEF tree
  <2>8. CASE UNCHANGED vars
    BY <2>8 DEF vars, tree
  <2> QED
    BY <2>1, <2>2, <2>3, <2>4, <2>5, <2>6, <2>7, <2>8 DEF Next
<1> QED
  BY <1>1, <1>2, PTL DEF Spec

(* The invariant holds before the walk begins: nothing has been looked at. *)
LEMMA InitEstablishes == Init => WellFormed /\ Progress
  BY DEF Init, Progress

(* Every step of the walk takes the invariant along: it looks at one more component
   before it goes on, and skips none. *)
LEMMA StepPreserves == TypeOK /\ WellFormed /\ Progress /\ [Next]_vars => WellFormed' /\ Progress'
<1> SUFFICES ASSUME TypeOK, WellFormed, Progress, [Next]_vars
             PROVE WellFormed' /\ Progress'
  OBVIOUS
<1> USE DepthAssumption
<1>1. UNCHANGED tree
  BY DEF Next, Begin, CannotExamine, JudgeLeaf, ListFiles, JudgeFile, FilesJudged,
         JudgeAncestor, vars
<1>2. WellFormed'
  BY <1>1 DEF WellFormed, tree
<1>3. /\ LeafPassed' <=> LeafPassed
      /\ \A n \in Files : FilePassed(n)' <=> FilePassed(n)
      /\ \A c \in Levels : LevelPassed(c)' <=> LevelPassed(c)
  BY <1>1 DEF LeafPassed, FilePassed, LevelPassed, LeafRefused, FileRefused,
              AncestorRefused, tree
<1>4. \A m \in Nat : AncestorsPassed(m)' <=> AncestorsPassed(m)
  BY <1>3 DEF AncestorsPassed, Levels
<1>5. CASE Begin
  <2>1. AncestorsPassed(Depth)
    BY DEF AncestorsPassed
  <2>2. next' = Depth - 1 /\ next' + 1 = Depth /\ next' < Depth
    <3>1. next' = Depth - 1
      BY <1>5 DEF Begin
    <3> QED
      BY <3>1
  <2>3. UNCHANGED what
    BY <1>1 DEF tree
  <2>4. \/ what = "audit log" /\ pc' = "ancestors"
        \/ what # "audit log" /\ pc' = "leaf"
    BY <1>5 DEF Begin
  <2>5. (AncestorsPassed(next + 1))'
    BY <1>4, <2>1, <2>2
  <2>6. what = "audit log" => \A n \in Files : FilePassed(n)'
    BY <1>2, <2>3 DEF WellFormed, FilePassed
  <2> QED
    BY <1>2, <2>2, <2>3, <2>4, <2>5, <2>6 DEF Progress
<1>6. CASE CannotExamine
  BY <1>2, <1>6 DEF CannotExamine, Progress
<1>7. CASE JudgeLeaf
  <2>1. UNCHANGED <<what, next>> /\ pc = "leaf"
    BY <1>1, <1>7 DEF JudgeLeaf, tree
  <2>2. CASE pc' = "refused"
    BY <1>2, <2>2 DEF Progress
  <2>3. CASE level[Depth] = Absent /\ what = "audit log" /\ pc' = "trusted"
    <3>1. AncestorsPassed(0)'
      BY <1>4, <2>1, <2>3 DEF Progress
    <3>2. \A n \in Files : FilePassed(n)'
      BY <1>2, <2>1, <2>3 DEF WellFormed, FilePassed
    <3> QED
      BY <1>2, <1>1, <2>1, <2>3, <3>1, <3>2 DEF Progress, tree
  <2>4. CASE LeafPassed /\ pc' = AfterLeaf
    <3>1. LeafPassed'
      BY <1>3, <2>4
    <3>2. CASE what = "policies"
      BY <1>2, <2>1, <2>4, <3>1, <3>2 DEF AfterLeaf, Progress
    <3>3. CASE what = "key"
      <4>1. \A n \in Files : FilePassed(n)'
        BY <1>2, <2>1, <3>3 DEF WellFormed, FilePassed
      <4>2. (AncestorsPassed(next + 1))' /\ next' < Depth
        BY <2>1, <3>3 DEF Progress, AncestorsPassed
      <4> QED
        BY <1>2, <2>1, <2>4, <3>1, <3>3, <4>1, <4>2 DEF AfterLeaf, Progress
    <3>4. CASE what = "audit log"
      <4>1. \A n \in Files : FilePassed(n)'
        BY <1>2, <2>1, <3>4 DEF WellFormed, FilePassed
      <4>2. AncestorsPassed(0)'
        BY <1>4, <2>1, <3>4 DEF Progress
      <4> QED
        BY <1>2, <2>1, <2>4, <3>1, <3>4, <4>1, <4>2 DEF AfterLeaf, Progress
    <3> QED
      BY <3>2, <3>3, <3>4 DEF TypeOK
  <2> QED
    BY <1>7, <2>2, <2>3, <2>4 DEF JudgeLeaf, LeafPassed
<1>8. CASE ListFiles
  BY <1>1, <1>2, <1>3, <1>8 DEF ListFiles, Progress, FilePassed, tree
<1>9. ASSUME NEW n \in Files, JudgeFile(n) PROVE Progress'
  BY <1>1, <1>3, <1>9 DEF JudgeFile, Progress, FilePassed, tree
<1>10. CASE FilesJudged
  <2>1. UNCHANGED <<what, next>> /\ pc = "files" /\ pc' = "ancestors" /\ unread = {}
    BY <1>1, <1>10 DEF FilesJudged, tree
  <2>2. what = "policies" /\ LeafPassed' /\ \A n \in Files : FilePassed(n)'
    BY <1>3, <2>1 DEF Progress
  <2>3. (AncestorsPassed(next + 1))' /\ next' < Depth
    BY <2>1, <2>2 DEF Progress, AncestorsPassed
  <2> QED
    BY <1>2, <2>1, <2>2, <2>3 DEF Progress
<1>11. CASE JudgeAncestor
  <2>1. UNCHANGED what /\ pc = "ancestors" /\ next \in Levels
    BY <1>1, <1>11 DEF JudgeAncestor, tree, TypeOK
  <2>2. /\ \A n \in Files : FilePassed(n)'
        /\ what # "audit log" => LeafPassed'
        /\ AncestorsPassed(next + 1)
        /\ next < Depth
    BY <1>3, <2>1 DEF Progress
  <2>3. CASE pc' = "refused"
    BY <1>2, <2>3 DEF Progress
  <2>4. CASE LevelPassed(next) /\ Up
    <3>1. AncestorsPassed(next)
      <4> SUFFICES ASSUME NEW c \in next..(Depth - 1) PROVE LevelPassed(c)
        BY DEF AncestorsPassed
      <4>1. c = next \/ c \in (next + 1)..(Depth - 1)
        BY <2>1 DEF Levels
      <4> QED
        BY <2>2, <2>4, <4>1 DEF AncestorsPassed
    <3>2. CASE next > 0
      <4>1. next' = next - 1 /\ pc' = "ancestors" /\ next' + 1 = next /\ next' < Depth
        <5>1. next' = next - 1 /\ pc' = "ancestors"
          BY <2>1, <2>4, <3>2 DEF Up
        <5> QED
          BY <2>1, <5>1 DEF Levels
      <4>2. (AncestorsPassed(next + 1))'
        BY <1>4, <2>1, <3>1, <4>1 DEF Levels
      <4> QED
        BY <1>2, <2>1, <2>2, <4>1, <4>2 DEF Progress
    <3>3. CASE next = 0
      <4>1. AncestorsPassed(0)'
        BY <1>4, <3>1, <3>3
      <4>2. pc' = IF what = "audit log" THEN "leaf" ELSE "trusted"
        <5>1. ~(next > 0)
          BY <3>3
        <5> QED
          BY <2>4, <5>1, Zenon DEF Up
      <4> QED
        BY <1>2, <2>1, <2>2, <4>1, <4>2 DEF Progress
    <3> QED
      BY <2>1, <3>2, <3>3 DEF Levels
  <2> QED
    BY <1>11, <2>3, <2>4 DEF JudgeAncestor, LevelPassed
<1>12. CASE UNCHANGED vars
  <2>1. UNCHANGED <<what, pc, next, unread, level>>
    BY <1>12 DEF vars, tree
  <2>2. AncestorsPassed(next + 1)' <=> AncestorsPassed(next + 1)
    BY <2>1 DEF AncestorsPassed, LevelPassed, AncestorRefused
  <2> QED
    BY <1>2, <1>3, <1>4, <2>1, <2>2 DEF Progress
<1> QED
  BY <1>2, <1>5, <1>6, <1>7, <1>8, <1>9, <1>10, <1>11, <1>12 DEF Next

(* The invariant of the walk. *)
LEMMA Invariance == Spec => []IInv
<1>1. Init => WellFormed /\ Progress
  BY InitEstablishes
<1>2. TypeOK /\ WellFormed /\ Progress /\ [Next]_vars => WellFormed' /\ Progress'
  BY StepPreserves
<1> QED
  BY <1>1, <1>2, TypeInv, PTL DEF Spec, IInv

(* What has passed is out of reach: each component by its owner, and, through its
   parent, by the parent's owner and mode. *)
LEMMA PassedIsOutOfReach == IInv => TrustedIsOutOfReach
<1> SUFFICES ASSUME IInv, pc = "trusted"
             PROVE /\ \A c \in Chain : ~InReach(c)
                   /\ ~LeafInReach
                   /\ \A n \in Files : ~FileInReach(n)
  BY DEF TrustedIsOutOfReach
<1> USE DepthAssumption
<1>1. /\ AncestorsPassed(0)
      /\ \A n \in Files : FilePassed(n)
      /\ LeafPassed \/ (what = "audit log" /\ level[Depth] = Absent)
  BY DEF IInv, Progress
<1>2. ~LeafInReach
  BY <1>1 DEF LeafInReach, LeafPassed, LeafRefused, Foreign, LooseWriters, LooseKey, MayAdd
<1>3. ASSUME NEW c \in Levels, level[c] # Absent, level[c].dir \/ c = Depth
      PROVE level[c].owner # "other"
  <2>1. CASE c = Depth
    BY <1>1, <1>3, <2>1 DEF LeafPassed, LeafRefused, Foreign
  <2>2. CASE c # Depth
    <3>1. c \in 0..(Depth - 1)
      BY <1>3, <2>2 DEF Levels
    <3>2. ~AncestorRefused(level[c])
      BY <1>1, <1>3, <3>1 DEF AncestorsPassed, LevelPassed
    <3> QED
      BY <1>3, <2>2, <3>2 DEF AncestorRefused, Foreign
  <2> QED
    BY <2>1, <2>2
<1>4. ASSUME NEW c \in Chain PROVE ~InReach(c)
  <2>1. c \in Levels /\ level[c] # Absent /\ level[c].owner # "other"
    BY <1>3, <1>4 DEF Chain
  <2>2. ASSUME c > 0 PROVE ~MayRemove(level[c - 1], level[c])
    <3>1. c - 1 \in 0..(Depth - 1) /\ c - 1 \in Levels /\ c \in Levels \ {0}
      BY <2>1, <2>2 DEF Levels
    <3>2. level[c - 1] # Absent /\ level[c - 1].dir
      BY <2>1, <3>1 DEF IInv, WellFormed
    <3>3. level[c - 1].owner # "other"
      BY <1>3, <3>1, <3>2
    <3>4. ~AncestorRefused(level[c - 1])
      BY <1>1, <3>1, <3>2 DEF AncestorsPassed, LevelPassed
    <3> QED
      BY <2>1, <3>2, <3>3, <3>4 DEF MayRemove, MayAdd, AncestorRefused, LooseAncestor, LooseWriters
  <2> QED
    BY <2>1, <2>2 DEF InReach
<1>5. ASSUME NEW n \in Files, FileInReach(n) PROVE FALSE
  <2>1. what = "policies" /\ level[Depth] # Absent
    BY <1>5 DEF IInv, WellFormed, TypeOK, FileInReach
  <2>2. ~MayAdd(level[Depth])
    BY <1>2, <2>1 DEF LeafInReach
  <2>3. ~FileRefused(file[n])
    BY <1>1, <1>5 DEF FilePassed, FileInReach
  <2> QED
    BY <1>5, <2>2, <2>3 DEF FileInReach, MayRemove, FileRefused, Foreign, LooseWriters
<1> QED
  BY <1>2, <1>4, <1>5

(* A state path that passed its check is out of every other local user's reach, however
   deep it lies and however many policy files there are. *)
THEOREM TrustedStaysOutOfReach == Spec => []TrustedIsOutOfReach
  BY Invariance, PassedIsOutOfReach, PTL

-----------------------------------------------------------------------------
(* What a refusal is worth *)

\* A refusal has found something; only what is there is judged.
Grounds ==
  /\ pc = "files" => \A n \in unread : file[n] # Absent
  /\ pc = "refused" /\ ~stumbled =>
       \/ level[Depth] # Absent /\ LeafRefused(level[Depth])
       \/ \E n \in Files : file[n] # Absent /\ FileRefused(file[n])
       \/ \E c \in 0..(Depth - 1) : level[c] # Absent /\ AncestorRefused(level[c])

(* No step of the walk refuses without grounds. *)
LEMMA StepHasGrounds ==
  ASSUME TypeOK, Progress, Grounds, [Next]_vars
  PROVE  Grounds'
<1>1. UNCHANGED tree
  BY DEF Next, Begin, CannotExamine, JudgeLeaf, ListFiles, JudgeFile, FilesJudged,
         JudgeAncestor, vars
<1> USE DepthAssumption DEF Grounds, tree, LeafRefused, FileRefused, AncestorRefused
<1>2. CASE Begin \/ CannotExamine
  BY <1>1, <1>2 DEF Begin, CannotExamine
<1>3. CASE JudgeLeaf
  <2>1. AfterLeaf \notin {"files", "refused"}
    BY DEF AfterLeaf, TypeOK
  <2>2. pc' = "refused" => level[Depth] # Absent /\ LeafRefused(level[Depth])
    BY <1>3, <2>1, Zenon DEF JudgeLeaf
  <2>3. pc' # "files"
    BY <1>3, <2>1 DEF JudgeLeaf
  <2> QED
    BY <1>1, <2>2, <2>3
<1>4. CASE ListFiles \/ FilesJudged
  BY <1>1, <1>4 DEF ListFiles, FilesJudged
<1>5. ASSUME NEW n \in Files, JudgeFile(n) PROVE Grounds'
  BY <1>1, <1>5 DEF JudgeFile
<1>6. CASE JudgeAncestor
  <2>1. pc = "ancestors" /\ next \in 0..(Depth - 1)
    <3>1. pc = "ancestors" /\ next < Depth /\ next \in 0..Depth
      BY <1>6 DEF JudgeAncestor, Progress, TypeOK, Levels
    <3> QED
      BY <3>1
  <2>2. pc' = "refused" /\ ~stumbled' => level[next] # Absent /\ AncestorRefused(level[next])
    BY <1>6, <2>1 DEF JudgeAncestor, Up
  <2>3. pc' # "files"
    BY <1>6, <2>1 DEF JudgeAncestor, Up
  <2> QED
    BY <1>1, <2>1, <2>2, <2>3
<1>7. CASE UNCHANGED vars
  BY <1>7 DEF vars
<1> QED
  BY <1>2, <1>3, <1>4, <1>5, <1>6, <1>7 DEF Next

(* What is refused is within somebody else's reach, or lets them put something there, or
   is one of the two the masks refuse beyond that. *)
LEMMA GroundsAreReach == TypeOK /\ WellFormed /\ Grounds => RefusedIsInReach
<1> SUFFICES ASSUME TypeOK, WellFormed, Grounds, pc = "refused", ~stumbled
             PROVE  \/ \E c \in Levels : InReach(c)
                    \/ \E c \in 0..(Depth - 1) :
                         MayAdd(level[c]) /\ "sticky" \notin level[c].mode
                    \/ LeafInReach
                    \/ \E n \in Files : FileInReach(n)
                    \/ KeyOnlyExecutable
                    \/ Unsearchable(level[Depth])
                    \/ \E c \in 0..(Depth - 1) :
                         Unsearchable(level[c]) /\ "sticky" \notin level[c].mode
  BY DEF RefusedIsInReach
<1> USE DepthAssumption
<1>1. ASSUME NEW facts \in Facts, Foreign(facts) PROVE facts.owner = "other"
  BY <1>1 DEF Facts, Foreign
<1>2. Depth \in Levels /\ 0..(Depth - 1) \subseteq Levels
  BY DEF Levels
<1>3. ASSUME level[Depth] # Absent, LeafRefused(level[Depth])
      PROVE  InReach(Depth) \/ LeafInReach \/ KeyOnlyExecutable \/ Unsearchable(level[Depth])
  <2>1. level[Depth] \in Facts /\ level[Depth].dir = (what = "policies")
    BY <1>2, <1>3 DEF TypeOK, WellFormed
  <2>2. CASE Foreign(level[Depth])
    BY <1>1, <1>3, <2>1, <2>2 DEF InReach
  <2>3. CASE what = "policies" /\ LooseWriters(level[Depth])
    BY <1>3, <2>1, <2>3 DEF LeafInReach, Unsearchable, LooseWriters
  <2>4. CASE what = "key" /\ LooseKey(level[Depth])
    BY <1>3, <2>4 DEF LeafInReach, KeyOnlyExecutable, LooseKey
  <2> QED
    BY <1>3, <2>2, <2>3, <2>4 DEF LeafRefused
<1>4. ASSUME NEW n \in Files, file[n] # Absent, FileRefused(file[n])
      PROVE  FileInReach(n)
  <2>1. file[n] \in Facts
    BY <1>4 DEF TypeOK
  <2> QED
    BY <1>1, <1>4, <2>1 DEF FileRefused, FileInReach, LooseWriters
<1>5. ASSUME NEW c \in 0..(Depth - 1), level[c] # Absent, AncestorRefused(level[c])
      PROVE  \/ InReach(c)
             \/ MayAdd(level[c]) /\ "sticky" \notin level[c].mode
             \/ Unsearchable(level[c]) /\ "sticky" \notin level[c].mode
  <2>1. level[c] \in Facts
    BY <1>2, <1>5 DEF TypeOK
  <2> QED
    BY <1>1, <1>5, <2>1 DEF AncestorRefused, InReach, Unsearchable, LooseAncestor, LooseWriters
<1> QED
  BY <1>2, <1>3, <1>4, <1>5 DEF Grounds

(* A check that refuses without an I/O error has found what another local user can
   change, or where they can put something, or an execute bit on a key, or a directory
   that can be written and not searched: it stops no daemon over less. *)
THEOREM RefusedWithReason == Spec => []RefusedIsInReach
<1>1. Init => Grounds
  BY DEF Init, Grounds
<1>2. IInv /\ Grounds /\ [Next]_vars => Grounds'
  BY StepHasGrounds DEF IInv
<1>3. IInv /\ Grounds => RefusedIsInReach
  BY GroundsAreReach DEF IInv
<1> QED
  BY <1>1, <1>2, <1>3, Invariance, PTL DEF Spec
=============================================================================
