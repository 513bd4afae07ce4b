--------------------------- MODULE AuditLogProofs ---------------------------
(***************************************************************************)
(* Records go where the configured path points, the shrink warning is      *)
(* exact, no line holds two records and no acknowledged record is lost,    *)
(* for any processes, records, files, rotations, short writes, failures,   *)
(* cuts and kills -- the last two outside the files that they except.      *)
(*                                                                         *)
(* Handles: the path is in named from the start of an append on, so a      *)
(* handle that passed the comparison, or came from opening the path, is in *)
(* it; and nobody else moves a handle.                                     *)
(*                                                                         *)
(* Sizes: between two appends the file has the size a process accounted    *)
(* for plus what others did to it since, so finding it smaller is finding  *)
(* that others removed more than they added.                               *)
(*                                                                         *)
(* Lines: on a file that is not excepted, whoever is about to write knows  *)
(* whether it ends mid-line, and closes the line first.  A rollback leaves *)
(* a beginning of what was there, or a hole at the end, which counts as a  *)
(* break; and where nobody else touched the file it was measured just      *)
(* before the write, so every acknowledged record is in front of the cut.  *)
(***************************************************************************)
EXTENDS AuditLog, TLAPS

\* A process that is up has a file open, and a record in hand while it appends.
Control ==
  \A p \in Procs :
    /\ pc[p] # "down" => handle[p] \in Inodes
    /\ pc[p] \in Busy => rec[p] \in Recs

\* What the path names now, it named during the append.
PathNamed == \A p \in Procs : pc[p] \in Busy => path \in named[p] \cup {NoFile}

IInv == TypeOK /\ Control /\ PathNamed /\ WritesWherePathPoints

-----------------------------------------------------------------------------
(* Files are sequences of units *)

(* What set_len leaves is a sequence of units. *)
LEMMA SetLenType ==
  ASSUME NEW units \in Seq(Unit), NEW len \in Nat
  PROVE  SetLen(units, len) \in Seq(Unit)
<1>1. \A k \in 1..len : (IF k <= Len(units) THEN units[k] ELSE Zero) \in Unit
  BY DEF Unit
<1> QED
  BY <1>1 DEF SetLen

(* The bytes of an append are a sequence of units. *)
LEMMA BufferType ==
  ASSUME NEW p \in Procs, rec[p] \in Recs
  PROVE  Buffer(p) \in Seq(Unit)
<1>1. <<rec[p], 1>> \in Unit /\ <<rec[p], 2>> \in Unit /\ Newline \in Unit
  BY DEF Unit
<1>2. Line(rec[p]) \in Seq(Unit)
  BY <1>1 DEF Line
<1>3. <<Newline>> \in Seq(Unit) /\ <<>> \in Seq(Unit)
  BY <1>1
<1> QED
  BY <1>2, <1>3 DEF Buffer

(* A short write leaves a sequence of units. *)
LEMMA PrefixType ==
  ASSUME NEW units \in Seq(Unit), NEW buffer \in Seq(Unit), NEW k \in 0..(Len(buffer) - 1)
  PROVE  units \o SubSeq(buffer, 1, k) \in Seq(Unit)
<1>1. SubSeq(buffer, 1, k) \in Seq(Unit)
  BY SMT
<1> QED
  BY <1>1

-----------------------------------------------------------------------------
(* Control *)

(* Opening the path yields an inode. *)
LEMMA OpenedTypes ==
  ASSUME TypeOK
  PROVE  OpenedInodes \subseteq Inodes
  BY DEF TypeOK, OpenedInodes, Fresh

(* Handles come from opening the path, records from the start of an append. *)
LEMMA StepControl ==
  ASSUME TypeOK, Control, [Next]_vars
  PROVE  Control'
<1> USE OpenedTypes DEF TypeOK, Control, Busy, fileVars, procVars, boundVars, histVars
<1>1. ASSUME NEW p \in Procs, Open(p) PROVE Control'
  BY <1>1 DEF Open, OpenPath
<1>2. ASSUME NEW p \in Procs, NEW r \in Recs, Begin(p, r) PROVE Control'
  BY <1>2 DEF Begin
<1>3. ASSUME NEW p \in Procs, Reattach(p) PROVE Control'
  BY <1>3 DEF Reattach, KeepHandle, Reopen, OpenPath
<1>4. ASSUME NEW p \in Procs, Measure(p) PROVE Control'
  BY <1>4 DEF Measure
<1>5. ASSUME NEW p \in Procs, WriteWhole(p) PROVE Control'
  BY <1>5 DEF WriteWhole
<1>6. ASSUME NEW p \in Procs, WriteShort(p) PROVE Control'
  BY <1>6 DEF WriteShort
<1>7. ASSUME NEW p \in Procs, RollBack(p) PROVE Control'
  BY <1>7 DEF RollBack
<1>8. ASSUME NEW p \in Procs, LeaveBroken(p) PROVE Control'
  BY <1>8 DEF LeaveBroken
<1>9. ASSUME NEW p \in Procs, Account(p) PROVE Control'
  BY <1>9 DEF Account, EndAppend
<1>10. ASSUME NEW p \in Procs, Crash(p) PROVE Control'
  BY <1>10 DEF Crash, EndAppend
<1>11. CASE Rotate \/ CopyTruncate
  BY <1>11 DEF Rotate, CopyTruncate
<1>12. CASE UNCHANGED vars
  BY <1>12 DEF vars
<1> QED
  BY <1>1, <1>2, <1>3, <1>4, <1>5, <1>6, <1>7, <1>8, <1>9, <1>10, <1>11, <1>12
  DEF Next, Step

(* Whatever moves the path during an append adds to named. *)
LEMMA StepPathNamed ==
  ASSUME TypeOK, PathNamed, [Next]_vars
  PROVE  PathNamed'
<1> USE DEF TypeOK, PathNamed, Busy, fileVars, procVars, boundVars, histVars
<1>1. ASSUME NEW p \in Procs, Open(p) PROVE PathNamed'
  BY <1>1 DEF Open, OpenPath
<1>2. ASSUME NEW p \in Procs, NEW r \in Recs, Begin(p, r) PROVE PathNamed'
  BY <1>2 DEF Begin
<1>3. ASSUME NEW p \in Procs, Reattach(p) PROVE PathNamed'
  BY <1>3 DEF Reattach, KeepHandle, Reopen, OpenPath
<1>4. ASSUME NEW p \in Procs, Measure(p) PROVE PathNamed'
  BY <1>4 DEF Measure
<1>5. ASSUME NEW p \in Procs, WriteWhole(p) PROVE PathNamed'
  BY <1>5 DEF WriteWhole
<1>6. ASSUME NEW p \in Procs, WriteShort(p) PROVE PathNamed'
  BY <1>6 DEF WriteShort
<1>7. ASSUME NEW p \in Procs, RollBack(p) PROVE PathNamed'
  BY <1>7 DEF RollBack
<1>8. ASSUME NEW p \in Procs, LeaveBroken(p) PROVE PathNamed'
  BY <1>8 DEF LeaveBroken
<1>9. ASSUME NEW p \in Procs, Account(p) PROVE PathNamed'
  BY <1>9 DEF Account, EndAppend
<1>10. ASSUME NEW p \in Procs, Crash(p) PROVE PathNamed'
  BY <1>10 DEF Crash, EndAppend
<1>11. CASE Rotate
  BY <1>11 DEF Rotate
<1>12. CASE CopyTruncate
  BY <1>12 DEF CopyTruncate
<1>13. CASE UNCHANGED vars
  BY <1>13 DEF vars
<1> QED
  BY <1>1, <1>2, <1>3, <1>4, <1>5, <1>6, <1>7, <1>8, <1>9, <1>10, <1>11, <1>12, <1>13
  DEF Next, Step

(* Past the comparison with the path, the handle is one the path named. *)
LEMMA StepWrites ==
  ASSUME TypeOK, Control, PathNamed, WritesWherePathPoints, [Next]_vars
  PROVE  WritesWherePathPoints'
<1> USE DEF TypeOK, WritesWherePathPoints, Busy, fileVars, procVars, boundVars, histVars
<1>1. ASSUME NEW p \in Procs, Open(p) PROVE WritesWherePathPoints'
  BY <1>1 DEF Open, OpenPath
<1>2. ASSUME NEW p \in Procs, NEW r \in Recs, Begin(p, r) PROVE WritesWherePathPoints'
  BY <1>2 DEF Begin
<1>3. ASSUME NEW p \in Procs, Reattach(p) PROVE WritesWherePathPoints'
  <2>1. pc[p] = "reattach" /\ pc' = [pc EXCEPT ![p] = "measure"]
    BY <1>3 DEF Reattach
  <2>2. CASE KeepHandle(p)
    <3>1. UNCHANGED <<handle, named>>
      BY <2>2 DEF KeepHandle
    <3>2. CASE StillAttached(p)
      <4>1. handle[p] \in named[p]
        BY <2>1, <3>2, ConstantsAssumption DEF StillAttached, Control, PathNamed
      <4> QED
        BY <2>1, <2>2, <3>1, <4>1 DEF KeepHandle
    <3>3. CASE ~StillAttached(p)
      <4>1. excused' = [excused EXCEPT ![p] = TRUE]
        BY <2>2, <3>3 DEF KeepHandle
      <4> QED
        BY <2>1, <3>1, <4>1
    <3> QED
      BY <3>2, <3>3
  <2>3. CASE Reopen(p)
    <3>1. PICK i \in OpenedInodes :
            /\ handle' = [handle EXCEPT ![p] = i]
            /\ named' = [q \in Procs |->
                           IF pc[q] \in Busy THEN named[q] \cup {i} ELSE named[q]]
      BY <2>3 DEF Reopen, OpenPath
    <3>2. UNCHANGED excused
      BY <2>3 DEF Reopen
    <3> QED
      BY <2>1, <3>1, <3>2
  <2> QED
    BY <1>3, <2>2, <2>3 DEF Reattach
<1>4. ASSUME NEW p \in Procs, Measure(p) PROVE WritesWherePathPoints'
  BY <1>4 DEF Measure
<1>5. ASSUME NEW p \in Procs, WriteWhole(p) PROVE WritesWherePathPoints'
  BY <1>5 DEF WriteWhole
<1>6. ASSUME NEW p \in Procs, WriteShort(p) PROVE WritesWherePathPoints'
  BY <1>6 DEF WriteShort
<1>7. ASSUME NEW p \in Procs, RollBack(p) PROVE WritesWherePathPoints'
  BY <1>7 DEF RollBack
<1>8. ASSUME NEW p \in Procs, LeaveBroken(p) PROVE WritesWherePathPoints'
  BY <1>8 DEF LeaveBroken
<1>9. ASSUME NEW p \in Procs, Account(p) PROVE WritesWherePathPoints'
  BY <1>9 DEF Account, EndAppend
<1>10. ASSUME NEW p \in Procs, Crash(p) PROVE WritesWherePathPoints'
  BY <1>10 DEF Crash, EndAppend
<1>11. CASE Rotate
  BY <1>11 DEF Rotate
<1>12. CASE CopyTruncate
  BY <1>12 DEF CopyTruncate
<1>13. CASE UNCHANGED vars
  BY <1>13 DEF vars
<1> QED
  BY <1>1, <1>2, <1>3, <1>4, <1>5, <1>6, <1>7, <1>8, <1>9, <1>10, <1>11, <1>12, <1>13
  DEF Next, Step

-----------------------------------------------------------------------------
(* Types *)

(* The sizes an append can see are sizes. *)
LEMMA MeasuredTypes ==
  ASSUME NEW units \in Seq(Unit)
  PROVE  MeasuredSizes(units) \subseteq Size
  BY DEF MeasuredSizes, Size

(* Opening the path keeps every variable's type. *)
LEMMA OpenPathTypes ==
  ASSUME TypeOK, NEW p \in Procs, OpenPath(p)
  PROVE  /\ path' \in Inodes
         /\ handle' \in [Procs -> Inodes \cup {NoFile}]
         /\ unterminated' \in [Procs -> BOOLEAN]
         /\ forgot' \subseteq Inodes
         /\ named' \in [Procs -> SUBSET Inodes]
         /\ drift' \in [Procs -> Int]
         /\ shared' \subseteq Inodes
<1>1. PICK i \in OpenedInodes, readable \in Readable :
        /\ path' = i
        /\ handle' = [handle EXCEPT ![p] = i]
        /\ unterminated' = [unterminated EXCEPT ![p] = FoundMidLine(i, readable)]
        /\ forgot' = IF ~readable /\ EndsMidLine(file[i]) THEN forgot \cup {i} ELSE forgot
        /\ named' = [q \in Procs |-> IF pc[q] \in Busy THEN named[q] \cup {i} ELSE named[q]]
        /\ drift' = [drift EXCEPT ![p] = 0]
        /\ shared' = IF \E q \in Procs \ {p} : handle[q] = i THEN shared \cup {i} ELSE shared
  BY DEF OpenPath
<1>2. i \in Inodes
  BY OpenedTypes
<1>3. FoundMidLine(i, readable) \in BOOLEAN
  BY ConstantsAssumption DEF FoundMidLine, EndsMidLine
<1> QED
  BY <1>1, <1>2, <1>3 DEF TypeOK

(* What others did to a file is an integer. *)
LEMMA DriftedTypes ==
  ASSUME TypeOK, file' \in [Inodes -> Seq(Unit)], NEW i \in Inodes
  PROVE  Drifted(i) \in [Procs -> Int]
<1>1. Len(file'[i]) - Len(file[i]) \in Int
  BY DEF TypeOK
<1>2. \A q \in Procs : drift[q] \in Int
  BY DEF TypeOK
<1> QED
  BY <1>1, <1>2 DEF Drifted

(* Every step keeps the types: sizes stay sizes, files stay sequences of units. *)
LEMMA StepTypes ==
  ASSUME TypeOK, Control, [Next]_vars
  PROVE  TypeOK'
<1> USE DEF TypeOK, Busy, fileVars, procVars, boundVars, histVars
<1>1. ASSUME NEW p \in Procs, Open(p) PROVE TypeOK'
  BY <1>1, OpenPathTypes DEF Open, Size
<1>2. ASSUME NEW p \in Procs, NEW r \in Recs, Begin(p, r) PROVE TypeOK'
  BY <1>2 DEF Begin
<1>3. ASSUME NEW p \in Procs, Reattach(p) PROVE TypeOK'
  <2>1. CASE KeepHandle(p)
    BY <1>3, <2>1 DEF Reattach, KeepHandle
  <2>2. CASE Reopen(p)
    BY <1>3, <2>2, OpenPathTypes DEF Reattach, Reopen, Size
  <2> QED
    BY <1>3, <2>1, <2>2 DEF Reattach
<1>4. ASSUME NEW p \in Procs, Measure(p) PROVE TypeOK'
  <2>1. file[handle[p]] \in Seq(Unit)
    BY <1>4 DEF Measure, Control
  <2> QED
    BY <1>4, <2>1, MeasuredTypes DEF Measure
<1>5. ASSUME NEW p \in Procs, WriteWhole(p) PROVE TypeOK'
  <2>1. handle[p] \in Inodes /\ rec[p] \in Recs
    BY <1>5 DEF WriteWhole, Control
  <2>2. file[handle[p]] \o Buffer(p) \in Seq(Unit)
    BY <2>1, BufferType
  <2>4. file' \in [Inodes -> Seq(Unit)]
    BY <1>5, <2>1, <2>2 DEF WriteWhole
  <2>5. Drifted(handle[p]) \in [Procs -> Int]
    BY <2>1, <2>4, DriftedTypes
  <2>6. acked' \subseteq Recs \X Inodes
    BY <1>5, <2>1 DEF WriteWhole
  <2>7. /\ unterminated' \in [Procs -> BOOLEAN] /\ drift' \in [Procs -> Int]
        /\ pc' \in [Procs -> Busy \cup {"down", "idle"}]
    BY <1>5, <2>5 DEF WriteWhole
  <2> QED
    BY <1>5, <2>4, <2>6, <2>7 DEF WriteWhole
<1>6. ASSUME NEW p \in Procs, WriteShort(p) PROVE TypeOK'
  <2>1. handle[p] \in Inodes /\ rec[p] \in Recs
    BY <1>6 DEF WriteShort, Control
  <2>2. PICK k \in 0..(Len(Buffer(p)) - 1) :
          file' = [file EXCEPT ![handle[p]] = @ \o SubSeq(Buffer(p), 1, k)]
    BY <1>6 DEF WriteShort
  <2>3. file[handle[p]] \o SubSeq(Buffer(p), 1, k) \in Seq(Unit)
    BY <2>1, BufferType, PrefixType
  <2>4. file' \in [Inodes -> Seq(Unit)]
    BY <1>6, <2>1, <2>2, <2>3 DEF WriteShort
  <2>5. Drifted(handle[p]) \in [Procs -> Int]
    BY <2>1, <2>4, DriftedTypes
  <2> QED
    BY <1>6, <2>1, <2>4, <2>5 DEF WriteShort
<1>7. ASSUME NEW p \in Procs, RollBack(p) PROVE TypeOK'
  <2>1. handle[p] \in Inodes /\ sizeBefore[p] \in Nat
    BY <1>7 DEF RollBack, Control, Size
  <2>2. SetLen(file[handle[p]], sizeBefore[p]) \in Seq(Unit)
    BY <2>1, SetLenType
  <2>4. file' \in [Inodes -> Seq(Unit)]
    BY <1>7, <2>1, <2>2 DEF RollBack
  <2>5. Drifted(handle[p]) \in [Procs -> Int]
    BY <2>1, <2>4, DriftedTypes
  <2> QED
    BY <1>7, <2>1, <2>4, <2>5 DEF RollBack
<1>8. ASSUME NEW p \in Procs, LeaveBroken(p) PROVE TypeOK'
  BY <1>8 DEF LeaveBroken
<1>9. ASSUME NEW p \in Procs, Account(p) PROVE TypeOK'
  <2>1. file[handle[p]] \in Seq(Unit)
    BY <1>9 DEF Account, Control
  <2> QED
    BY <1>9, <2>1, MeasuredTypes DEF Account, EndAppend, Size
<1>10. ASSUME NEW p \in Procs, Crash(p) PROVE TypeOK'
  BY <1>10 DEF Crash, EndAppend, Size
<1>11. CASE Rotate
  BY <1>11 DEF Rotate
<1>12. CASE CopyTruncate
  <2>1. path \in Inodes /\ file' \in [Inodes -> Seq(Unit)]
    BY <1>12 DEF CopyTruncate
  <2>2. Drifted(path) \in [Procs -> Int]
    BY <2>1, DriftedTypes
  <2> QED
    BY <1>12, <2>1, <2>2 DEF CopyTruncate
<1>13. CASE UNCHANGED vars
  BY <1>13 DEF vars
<1> QED
  BY <1>1, <1>2, <1>3, <1>4, <1>5, <1>6, <1>7, <1>8, <1>9, <1>10, <1>11, <1>12, <1>13
  DEF Next, Step

-----------------------------------------------------------------------------
(* The theorems *)

(* The inductive invariant of the sink. *)
THEOREM Inductive == Spec => []IInv
<1>1. Init => IInv
  BY DEF Init, IInv, TypeOK, Control, PathNamed, WritesWherePathPoints, Busy, Size
<1>2. IInv /\ [Next]_vars => IInv'
  BY StepTypes, StepControl, StepPathNamed, StepWrites DEF IInv
<1> QED
  BY <1>1, <1>2, PTL DEF Spec

(* Every variable keeps its type. *)
THEOREM Typing == Spec => []TypeOK
<1>1. IInv => TypeOK
  BY DEF IInv
<1> QED
  BY <1>1, Inductive, PTL

(* A record goes to a file the configured path named during that very append, unless
   the path could not be examined or reopened. *)
THEOREM Attached == Spec => []WritesWherePathPoints
<1>1. IInv => WritesWherePathPoints
  BY DEF IInv
<1> QED
  BY <1>1, Inductive, PTL

-----------------------------------------------------------------------------
(* The shrink warning *)

\* Between two appends, the file has the size that was accounted for, and what others
\* added to it or removed from it since.
Accounted ==
  \A p \in Procs :
    pc[p] \in Unmeasured /\ lastSize[p] # Unknown =>
      Len(file[handle[p]]) = lastSize[p] + drift[p]

(* A change of file i leaves every account of it true, whoever made the change. *)
LEMMA DriftAccounted ==
  ASSUME TypeOK, Control, Accounted, NEW i \in Inodes, file' \in [Inodes -> Seq(Unit)],
         \A j \in Inodes \ {i} : file'[j] = file[j],
         drift' = Drifted(i),
         \A q \in Procs : pc'[q] \in Unmeasured => pc[q] = pc'[q],
         UNCHANGED <<handle, lastSize>>
  PROVE  Accounted'
<1>1. SUFFICES ASSUME NEW q \in Procs, pc'[q] \in Unmeasured, lastSize[q] # Unknown
               PROVE  Len(file'[handle[q]]) = lastSize[q] + drift'[q]
  BY DEF Accounted
<1>2. /\ pc[q] \in Unmeasured /\ handle[q] \in Inodes
      /\ lastSize[q] \in Nat /\ drift[q] \in Int
      /\ Len(file[handle[q]]) = lastSize[q] + drift[q]
  BY <1>1 DEF TypeOK, Control, Accounted, Unmeasured, Size
<1>3. CASE handle[q] = i
  <2>1. drift'[q] = drift[q] + (Len(file'[i]) - Len(file[i]))
    BY <1>2, <1>3 DEF Drifted
  <2>2. Len(file'[i]) \in Nat /\ Len(file[i]) \in Nat
    BY DEF TypeOK
  <2> QED
    BY <1>2, <1>3, <2>1, <2>2
<1>4. CASE handle[q] # i
  BY <1>2, <1>4 DEF Drifted
<1> QED
  BY <1>3, <1>4

(* Each append leaves the size it accounted for, and whatever changes the file
   before the next is in the drift. *)
LEMMA StepAccounted ==
  ASSUME TypeOK, TypeOK', Control, Accounted, [Next]_vars
  PROVE  Accounted'
<1> USE DEF fileVars, procVars, boundVars, histVars
<1>1. ASSUME NEW p \in Procs, Open(p) PROVE Accounted'
  BY <1>1 DEF Open, OpenPath, TypeOK, Accounted, Unmeasured
<1>2. ASSUME NEW p \in Procs, NEW r \in Recs, Begin(p, r) PROVE Accounted'
  BY <1>2 DEF Begin, TypeOK, Accounted, Unmeasured
<1>3. ASSUME NEW p \in Procs, Reattach(p) PROVE Accounted'
  <2>1. CASE KeepHandle(p)
    BY <1>3, <2>1 DEF Reattach, KeepHandle, TypeOK, Accounted, Unmeasured
  <2>2. CASE Reopen(p)
    BY <1>3, <2>2 DEF Reattach, Reopen, OpenPath, TypeOK, Accounted, Unmeasured
  <2> QED
    BY <1>3, <2>1, <2>2 DEF Reattach
<1>4. ASSUME NEW p \in Procs, Measure(p) PROVE Accounted'
  BY <1>4 DEF Measure, TypeOK, Accounted, Unmeasured
<1>5. ASSUME NEW p \in Procs, WriteWhole(p) \/ WriteShort(p) \/ RollBack(p) PROVE Accounted'
  <2>1. handle[p] \in Inodes
    BY <1>5 DEF WriteWhole, WriteShort, RollBack, Control
  <2>2. \A j \in Inodes \ {handle[p]} : file'[j] = file[j]
    BY <1>5, <2>1 DEF WriteWhole, WriteShort, RollBack, TypeOK
  <2>3. drift' = Drifted(handle[p]) /\ UNCHANGED <<handle, lastSize>>
    BY <1>5 DEF WriteWhole, WriteShort, RollBack
  <2>4. pc'[p] \notin Unmeasured /\ \A q \in Procs \ {p} : pc'[q] = pc[q]
    BY <1>5 DEF WriteWhole, WriteShort, RollBack, TypeOK, Unmeasured
  <2> QED
    BY <2>1, <2>2, <2>3, <2>4, DriftAccounted DEF TypeOK
<1>6. ASSUME NEW p \in Procs, LeaveBroken(p) PROVE Accounted'
  BY <1>6 DEF LeaveBroken, TypeOK, Accounted, Unmeasured
<1>7. ASSUME NEW p \in Procs, Account(p) PROVE Accounted'
  <2>1. PICK size \in MeasuredSizes(file[handle[p]]) :
          lastSize' = [lastSize EXCEPT ![p] = size]
    BY <1>7 DEF Account
  <2>2. size = Unknown \/ size = Len(file[handle[p]])
    BY <2>1 DEF MeasuredSizes
  <2>3. /\ drift' = [drift EXCEPT ![p] = 0] /\ pc' = [pc EXCEPT ![p] = "idle"]
        /\ UNCHANGED <<file, handle>>
    BY <1>7 DEF Account, EndAppend
  <2>4. pc[p] = "account" /\ handle[p] \in Inodes
    BY <1>7 DEF Account, Control
  <2>5. Len(file[handle[p]]) \in Nat
    BY <2>4 DEF TypeOK
  <2> QED
    BY <2>1, <2>2, <2>3, <2>5 DEF TypeOK, Accounted, Unmeasured
<1>8. ASSUME NEW p \in Procs, Crash(p) PROVE Accounted'
  BY <1>8 DEF Crash, EndAppend, TypeOK, Accounted, Unmeasured
<1>9. CASE Rotate
  BY <1>9 DEF Rotate, TypeOK, Accounted, Unmeasured
<1>10. CASE CopyTruncate
  <2>1. /\ path \in Inodes /\ drift' = Drifted(path) /\ UNCHANGED <<pc, handle, lastSize>>
        /\ \A j \in Inodes \ {path} : file'[j] = file[j]
    BY <1>10 DEF CopyTruncate, TypeOK
  <2> QED
    BY <2>1, DriftAccounted DEF TypeOK
<1>11. CASE UNCHANGED vars
  BY <1>11 DEF vars, Accounted, Unmeasured
<1> QED
  BY <1>1, <1>2, <1>3, <1>4, <1>5, <1>6, <1>7, <1>8, <1>9, <1>10, <1>11 DEF Next, Step

(* What a process accounted for stays true of its file, up to what others did. *)
LEMMA AccountInductive == Spec => []Accounted
<1>1. Init => Accounted
  BY DEF Init, Accounted, Unmeasured
<1>2. IInv /\ IInv' /\ Accounted /\ [Next]_vars => Accounted'
  BY StepAccounted DEF IInv
<1> QED
  BY <1>1, <1>2, Inductive, PTL DEF Spec

(* The shrink warning is raised exactly when others removed more from the log than they
   added since the last record: rollbacks, reopens and restarts of one's own raise none,
   and no cut between two appends goes unnoticed, however many processes write. *)
THEOREM WarningExact == Spec => []ShrinkWarningIsExact
<1>1. TypeOK /\ Control /\ Accounted => ShrinkWarningIsExact
  <2>1. SUFFICES ASSUME TypeOK, Control, Accounted, NEW p \in Procs, pc[p] = "measure",
                        NEW size \in MeasuredSizes(file[handle[p]])
                 PROVE  ShrinkAlarm(p, size)
                          <=> size # Unknown /\ lastSize[p] # Unknown /\ drift[p] < 0
    BY DEF ShrinkWarningIsExact
  <2>2. size = Unknown \/ size = Len(file[handle[p]])
    BY <2>1 DEF MeasuredSizes
  <2>3. drift[p] \in Int /\ (lastSize[p] # Unknown => lastSize[p] \in Nat)
    BY <2>1 DEF TypeOK, Size
  <2>4. lastSize[p] # Unknown => Len(file[handle[p]]) = lastSize[p] + drift[p]
    BY <2>1 DEF Accounted, Unmeasured
  <2> QED
    BY <2>2, <2>3, <2>4 DEF ShrinkAlarm
<1>2. IInv => TypeOK /\ Control
  BY DEF IInv
<1> QED
  BY <1>1, <1>2, AccountInductive, Inductive, PTL

-----------------------------------------------------------------------------
(* Lines *)

(* What a concatenation holds where. *)
LEMMA Concatenated ==
  ASSUME NEW S, NEW s \in Seq(S), NEW t \in Seq(S)
  PROVE  /\ s \o t \in Seq(S)
         /\ Len(s) \in Nat /\ Len(t) \in Nat /\ Len(s \o t) = Len(s) + Len(t)
         /\ \A k \in 1..Len(s) : (s \o t)[k] = s[k]
         /\ \A k \in 1..Len(t) : (s \o t)[Len(s) + k] = t[k]
  OBVIOUS

(* A record's units are no terminator and no hole. *)
LEMMA RecordUnits ==
  ASSUME NEW r \in Recs
  PROVE  /\ <<r, 1>> # Newline /\ <<r, 2>> # Newline
         /\ <<r, 1>> # Zero /\ <<r, 2>> # Zero
  BY ConstantsAssumption

\* A piece of one record's line, as a write puts it down: cut anywhere, and with the
\* closing of a broken line in front.
PieceOf(b, r) == \A k \in 1..Len(b) : b[k] \in {<<r, 1>>, <<r, 2>>, Newline}

(* Appending a piece to whole lines, or closing the broken one first, fuses nothing. *)
LEMMA PieceFusesNothing ==
  ASSUME NEW units \in Seq(Unit), NEW b \in Seq(Unit), NEW r \in Recs,
         ~Fused(units), PieceOf(b, r),
         EndsMidLine(units) /\ Len(b) > 0 => b[1] = Newline
  PROVE  ~Fused(units \o b)
<1> DEFINE m == units \o b
<1>1. /\ Len(units) \in Nat /\ Len(b) \in Nat /\ Len(m) = Len(units) + Len(b)
      /\ \A k \in 1..Len(units) : m[k] = units[k]
      /\ \A k \in 1..Len(b) : m[Len(units) + k] = b[k]
  BY Concatenated
<1> HIDE DEF m
<1>2. SUFFICES ASSUME NEW i \in 1..Len(m), NEW j \in 1..Len(m), i < j, OnOneLine(m, i, j),
                      m[i] = Zero \/ m[j] = Zero \/ m[i][1] # m[j][1]
               PROVE  FALSE
  BY DEF Fused, m
<1>3. CASE j <= Len(units)
  <2>1. i \in 1..Len(units) /\ j \in 1..Len(units) /\ m[i] = units[i] /\ m[j] = units[j]
    BY <1>1, <1>2, <1>3
  <2>2. OnOneLine(units, i, j)
    BY <1>1, <1>2, <2>1 DEF OnOneLine
  <2> QED
    BY <1>2, <2>1, <2>2 DEF Fused
<1>4. CASE i > Len(units)
  <2>1. \A k \in {i, j} : m[k] \in {<<r, 1>>, <<r, 2>>, Newline} /\ m[k] # Newline
    <3>1. \A k \in {i, j} : k - Len(units) \in 1..Len(b) /\ m[k] = b[k - Len(units)]
      BY <1>1, <1>2, <1>4
    <3> QED
      BY <1>2, <3>1 DEF PieceOf, OnOneLine
  <2>2. \A k \in {i, j} : m[k] # Zero /\ m[k][1] = r
    BY <2>1, RecordUnits
  <2> QED
    BY <1>2, <2>2
<1>5. CASE i <= Len(units) /\ Len(units) < j
  <2>1. /\ Len(units) \in i..j /\ Len(units) + 1 \in i..j
        /\ Len(units) \in 1..Len(units) /\ 1 \in 1..Len(b)
    BY <1>1, <1>2, <1>5
  <2>2. units[Len(units)] # Newline /\ b[1] # Newline
    BY <1>1, <1>2, <2>1 DEF OnOneLine
  <2>3. EndsMidLine(units)
    BY <2>1, <2>2 DEF EndsMidLine
  <2> QED
    BY <1>1, <2>1, <2>2, <2>3
<1> QED
  BY <1>1, <1>2, <1>3, <1>4, <1>5

(* set_len to no more than there is leaves a beginning of it; to more, a break. *)
LEMMA SetLenUnits ==
  ASSUME NEW units \in Seq(Unit), NEW len \in Nat
  PROVE  /\ Len(SetLen(units, len)) = len
         /\ \A k \in 1..len : k <= Len(units) => SetLen(units, len)[k] = units[k]
         /\ len > Len(units) => EndsMidLine(SetLen(units, len))
<1>1. /\ Len(SetLen(units, len)) = len
      /\ \A k \in 1..len : SetLen(units, len)[k] = IF k <= Len(units) THEN units[k] ELSE Zero
  BY DEF SetLen
<1>2. ASSUME len > Len(units) PROVE EndsMidLine(SetLen(units, len))
  <2>1. len \in 1..len /\ SetLen(units, len)[len] = Zero
    BY <1>1, <1>2
  <2>2. SetLen(units, len) # <<>>
    BY <1>1, <2>1
  <2> QED
    BY <1>1, <2>1, <2>2, ConstantsAssumption DEF EndsMidLine
<1> QED
  BY <1>1, <1>2

(* A beginning of a file without fused lines has none. *)
LEMMA BeginningFusesNothing ==
  ASSUME NEW units \in Seq(Unit), NEW len \in Nat, ~Fused(units), len <= Len(units)
  PROVE  ~Fused(SetLen(units, len))
<1> DEFINE m == SetLen(units, len)
<1>1. Len(m) = len /\ \A k \in 1..len : m[k] = units[k]
  BY SetLenUnits
<1> HIDE DEF m
<1>2. SUFFICES ASSUME NEW i \in 1..Len(m), NEW j \in 1..Len(m), i < j, OnOneLine(m, i, j),
                      m[i] = Zero \/ m[j] = Zero \/ m[i][1] # m[j][1]
               PROVE  FALSE
  BY DEF Fused, m
<1>3. i \in 1..Len(units) /\ j \in 1..Len(units) /\ m[i] = units[i] /\ m[j] = units[j]
  BY <1>1, <1>2
<1>4. OnOneLine(units, i, j)
  BY <1>1, <1>2 DEF OnOneLine
<1> QED
  BY <1>2, <1>3, <1>4 DEF Fused

\* Record r stands on a line of its own in the first len units.
WholeWithin(units, r, len) ==
  \E i \in 1..Len(units) :
    /\ i + 2 <= Len(units) /\ i + 2 <= len
    /\ units[i] = <<r, 1>> /\ units[i + 1] = <<r, 2>> /\ units[i + 2] = Newline
    /\ i = 1 \/ units[i - 1] = Newline

(* What is appended leaves the lines in front of it alone. *)
LEMMA WholeStays ==
  ASSUME NEW units \in Seq(Unit), NEW b \in Seq(Unit), NEW r, WholeLine(units, r)
  PROVE  WholeWithin(units \o b, r, Len(units)) /\ WholeLine(units \o b, r)
<1> DEFINE m == units \o b
<1>1. /\ Len(units) \in Nat /\ Len(b) \in Nat /\ Len(m) = Len(units) + Len(b)
      /\ \A k \in 1..Len(units) : m[k] = units[k]
  BY Concatenated
<1> HIDE DEF m
<1>2. PICK i \in 1..Len(units) :
        /\ i + 2 <= Len(units)
        /\ units[i] = <<r, 1>> /\ units[i + 1] = <<r, 2>> /\ units[i + 2] = Newline
        /\ i = 1 \/ units[i - 1] = Newline
  BY DEF WholeLine
<1>3. /\ i \in 1..Len(m) /\ i + 2 <= Len(m)
      /\ m[i] = units[i] /\ m[i + 1] = units[i + 1] /\ m[i + 2] = units[i + 2]
      /\ i = 1 \/ m[i - 1] = units[i - 1]
  BY <1>1, <1>2
<1>4. WholeWithin(m, r, Len(units)) /\ WholeLine(m, r)
  BY <1>2, <1>3 DEF WholeWithin, WholeLine
<1> QED
  BY <1>4 DEF m

(* A line in front of the cut survives it. *)
LEMMA WholeSurvivesCut ==
  ASSUME NEW units \in Seq(Unit), NEW len \in Nat, len <= Len(units), NEW r,
         WholeWithin(units, r, len)
  PROVE  WholeLine(SetLen(units, len), r)
<1> DEFINE m == SetLen(units, len)
<1>1. Len(m) = len /\ \A k \in 1..len : m[k] = units[k]
  BY SetLenUnits
<1> HIDE DEF m
<1>2. PICK i \in 1..Len(units) :
        /\ i + 2 <= len
        /\ units[i] = <<r, 1>> /\ units[i + 1] = <<r, 2>> /\ units[i + 2] = Newline
        /\ i = 1 \/ units[i - 1] = Newline
  BY DEF WholeWithin
<1>3. /\ i \in 1..Len(m) /\ i + 2 <= Len(m)
      /\ m[i] = units[i] /\ m[i + 1] = units[i + 1] /\ m[i + 2] = units[i + 2]
      /\ i = 1 \/ m[i - 1] = units[i - 1]
  BY <1>1, <1>2
<1>4. WholeLine(m, r)
  BY <1>2, <1>3 DEF WholeLine
<1> QED
  BY <1>4 DEF m

(* The bytes of an append, one by one. *)
LEMMA BufferUnits ==
  ASSUME NEW p \in Procs, rec[p] \in Recs
  PROVE  /\ Buffer(p) \in Seq(Unit) /\ PieceOf(Buffer(p), rec[p])
         /\ unterminated[p] =>
              /\ Len(Buffer(p)) = 4 /\ Buffer(p)[1] = Newline
              /\ Buffer(p)[2] = <<rec[p], 1>> /\ Buffer(p)[3] = <<rec[p], 2>>
              /\ Buffer(p)[4] = Newline
         /\ ~unterminated[p] =>
              /\ Len(Buffer(p)) = 3
              /\ Buffer(p)[1] = <<rec[p], 1>> /\ Buffer(p)[2] = <<rec[p], 2>>
              /\ Buffer(p)[3] = Newline
<1> DEFINE line == Line(rec[p])
<1>1. /\ line \in Seq(Unit) /\ Len(line) = 3
      /\ line[1] = <<rec[p], 1>> /\ line[2] = <<rec[p], 2>> /\ line[3] = Newline
  BY DEF Line, Unit
<1> HIDE DEF line
<1>2. Buffer(p) \in Seq(Unit)
  BY BufferType
<1>3. CASE unterminated[p]
  <2> DEFINE close == <<Newline>>
  <2>1. /\ Buffer(p) = close \o line
        /\ close \in Seq(Unit) /\ Len(close) = 1 /\ close[1] = Newline
    BY <1>3 DEF Buffer, Unit, line
  <2> HIDE DEF close
  <2>2. /\ Len(close \o line) = Len(close) + Len(line)
        /\ \A k \in 1..Len(close) : (close \o line)[k] = close[k]
        /\ \A k \in 1..Len(line) : (close \o line)[Len(close) + k] = line[k]
    <3>1. close \in Seq(Unit) /\ line \in Seq(Unit)
      BY <1>1, <2>1
    <3> QED
      BY <3>1, Concatenated
  <2>3. /\ Len(Buffer(p)) = 4 /\ Buffer(p)[1] = Newline
        /\ Buffer(p)[2] = <<rec[p], 1>> /\ Buffer(p)[3] = <<rec[p], 2>>
        /\ Buffer(p)[4] = Newline
    BY <1>1, <2>1, <2>2
  <2>4. PieceOf(Buffer(p), rec[p])
    <3>1. \A k \in 1..4 : k = 1 \/ k = 2 \/ k = 3 \/ k = 4
      OBVIOUS
    <3> QED
      BY <2>3, <3>1 DEF PieceOf
  <2> QED
    BY <1>2, <1>3, <2>3, <2>4
<1>4. CASE ~unterminated[p]
  <2>1. Buffer(p) = line
    BY <1>1, <1>4 DEF Buffer, line
  <2>2. PieceOf(Buffer(p), rec[p])
    <3>1. \A k \in 1..3 : k = 1 \/ k = 2 \/ k = 3
      OBVIOUS
    <3> QED
      BY <1>1, <2>1, <3>1 DEF PieceOf
  <2> QED
    BY <1>1, <1>2, <1>4, <2>1, <2>2
<1> QED
  BY <1>3, <1>4

(* A record written whole where lines were whole, or behind the closing of a broken one,
   stands on a line of its own. *)
LEMMA WrittenWhole ==
  ASSUME NEW p \in Procs, rec[p] \in Recs, NEW units \in Seq(Unit),
         EndsMidLine(units) => unterminated[p]
  PROVE  WholeLine(units \o Buffer(p), rec[p]) /\ ~EndsMidLine(units \o Buffer(p))
<1> DEFINE m == units \o Buffer(p)
<1>1. /\ Len(units) \in Nat /\ Len(Buffer(p)) \in Nat
      /\ Len(m) = Len(units) + Len(Buffer(p))
      /\ \A k \in 1..Len(units) : m[k] = units[k]
      /\ \A k \in 1..Len(Buffer(p)) : m[Len(units) + k] = Buffer(p)[k]
  BY BufferUnits, Concatenated
<1> HIDE DEF m
<1>2. CASE unterminated[p]
  <2>1. /\ Len(m) = Len(units) + 4
        /\ m[Len(units) + 1] = Newline /\ m[Len(units) + 2] = <<rec[p], 1>>
        /\ m[Len(units) + 3] = <<rec[p], 2>> /\ m[Len(units) + 4] = Newline
    BY <1>1, <1>2, BufferUnits
  <2>2. ~EndsMidLine(m)
    BY <2>1 DEF EndsMidLine
  <2>3. WholeLine(m, rec[p])
    <3> DEFINE i == Len(units) + 2
    <3>1. i \in 1..Len(m) /\ i + 2 <= Len(m) /\ i - 1 = Len(units) + 1
          /\ i + 1 = Len(units) + 3 /\ i + 2 = Len(units) + 4
      BY <1>1, <2>1
    <3>2. m[i] = <<rec[p], 1>> /\ m[i + 1] = <<rec[p], 2>> /\ m[i + 2] = Newline
          /\ m[i - 1] = Newline
      BY <2>1, <3>1
    <3> HIDE DEF i
    <3> QED
      BY <3>1, <3>2 DEF WholeLine
  <2> QED
    BY <2>2, <2>3 DEF m
<1>3. CASE ~unterminated[p]
  <2>1. /\ Len(m) = Len(units) + 3
        /\ m[Len(units) + 1] = <<rec[p], 1>> /\ m[Len(units) + 2] = <<rec[p], 2>>
        /\ m[Len(units) + 3] = Newline
    BY <1>1, <1>3, BufferUnits
  <2>2. ~EndsMidLine(m)
    BY <2>1 DEF EndsMidLine
  <2>3. Len(units) = 0 \/ (Len(units) \in 1..Len(units) /\ m[Len(units)] = Newline)
    BY <1>1, <1>3 DEF EndsMidLine
  <2>4. WholeLine(m, rec[p])
    <3> DEFINE i == Len(units) + 1
    <3>1. i \in 1..Len(m) /\ i + 2 <= Len(m) /\ i - 1 = Len(units)
          /\ i + 1 = Len(units) + 2 /\ i + 2 = Len(units) + 3
      BY <1>1, <2>1
    <3>2. m[i] = <<rec[p], 1>> /\ m[i + 1] = <<rec[p], 2>> /\ m[i + 2] = Newline
          /\ (i = 1 \/ m[i - 1] = Newline)
      BY <1>1, <2>1, <2>3, <3>1
    <3> HIDE DEF i
    <3> QED
      BY <3>1, <3>2 DEF WholeLine
  <2> QED
    BY <2>2, <2>4 DEF m
<1> QED
  BY <1>2, <1>3

-----------------------------------------------------------------------------
(* The invariant *)

\* The files the two properties except.
Suspect(i) == i \in forgot \cup (shared \cap short)

\* Two processes have a file open only if it counts as shared.
OneHandle ==
  \A p, q \in Procs :
    p # q /\ handle[p] = handle[q] /\ handle[p] # NoFile => handle[p] \in shared

\* Who rolls back has come up short on this file.
ShortFirst == \A p \in Procs : pc[p] = "rollback" => handle[p] \in short

\* Whoever has an unsuspected file open, and no write of it in hand, knows whether it
\* ends mid-line.
TailKnown ==
  \A p \in Procs :
    pc[p] \notin {"down", "rollback"} /\ ~Suspect(handle[p]) /\ EndsMidLine(file[handle[p]])
      => unterminated[p]

\* What was measured is still the size when it is written to.
SizeHeld ==
  \A p \in Procs :
    pc[p] = "write" /\ sizeBefore[p] # Unknown /\ handle[p] \notin cut \cup shared =>
      sizeBefore[p] = Len(file[handle[p]])

\* A rollback cuts behind every acknowledged record.
RollbackSpares ==
  \A p \in Procs :
    pc[p] = "rollback" /\ sizeBefore[p] # Unknown /\ ~Suspect(handle[p]) /\ handle[p] \notin cut =>
      /\ sizeBefore[p] <= Len(file[handle[p]])
      /\ \A a \in acked :
           a[2] = handle[p] => WholeWithin(file[handle[p]], a[1], sizeBefore[p])

Knowledge == OneHandle /\ ShortFirst /\ TailKnown /\ SizeHeld /\ RollbackSpares

LinesInv == Knowledge /\ FusedOnlyAfterForgottenBreak /\ AckedRecordsSurvive

(* What has been suspected or cut stays so. *)
LEMMA SuspicionStays ==
  ASSUME [Next]_vars
  PROVE  /\ forgot \subseteq forgot' /\ shared \subseteq shared'
         /\ short \subseteq short' /\ cut \subseteq cut'
<1> USE DEF fileVars, procVars, boundVars, histVars
<1>1. ASSUME NEW p \in Procs, Open(p) \/ Reattach(p)
      PROVE  /\ forgot \subseteq forgot' /\ shared \subseteq shared'
             /\ short \subseteq short' /\ cut \subseteq cut'
  BY <1>1 DEF Open, Reattach, KeepHandle, Reopen, OpenPath
<1>2. ASSUME NEW p \in Procs, NEW r \in Recs, Begin(p, r)
      PROVE  UNCHANGED <<forgot, shared, short, cut>>
  BY <1>2 DEF Begin
<1>3. ASSUME NEW p \in Procs, WriteWhole(p) \/ WriteShort(p) \/ RollBack(p)
      PROVE  /\ forgot \subseteq forgot' /\ shared \subseteq shared'
             /\ short \subseteq short' /\ cut \subseteq cut'
  BY <1>3 DEF WriteWhole, WriteShort, RollBack
<1>4. ASSUME NEW p \in Procs, Measure(p) \/ LeaveBroken(p) \/ Account(p) \/ Crash(p)
      PROVE  UNCHANGED <<forgot, shared, short, cut>>
  BY <1>4 DEF Measure, LeaveBroken, Account, Crash
<1>5. CASE Rotate \/ CopyTruncate \/ UNCHANGED vars
  BY <1>5 DEF Rotate, CopyTruncate, vars
<1> QED
  BY <1>1, <1>2, <1>3, <1>4, <1>5 DEF Next, Step

(* Where the files and the acknowledged records stay, the two properties do. *)
LEMMA SameFiles ==
  ASSUME LinesInv, [Next]_vars, UNCHANGED <<file, acked>>
  PROVE  FusedOnlyAfterForgottenBreak' /\ AckedRecordsSurvive'
  BY SuspicionStays DEF LinesInv, FusedOnlyAfterForgottenBreak, AckedRecordsSurvive

-----------------------------------------------------------------------------
(* Steps that write nothing *)

(* Opening the path: the tail is inspected, or the file is suspected; and a file that
   another process has open becomes a shared one. *)
LEMMA OpenKeepsKnowledge ==
  ASSUME TypeOK, Control, Knowledge, [Next]_vars, NEW p \in Procs, OpenPath(p),
         pc[p] \notin {"write", "rollback"}, pc'[p] \in {"idle", "measure"},
         \A q \in Procs \ {p} : pc'[q] = pc[q],
         UNCHANGED <<file, acked, sizeBefore>>
  PROVE  Knowledge'
<1>1. PICK i \in OpenedInodes, readable \in Readable :
        /\ handle' = [handle EXCEPT ![p] = i]
        /\ unterminated' = [unterminated EXCEPT ![p] = FoundMidLine(i, readable)]
        /\ forgot' = IF ~readable /\ EndsMidLine(file[i]) THEN forgot \cup {i} ELSE forgot
        /\ shared' = IF \E q \in Procs \ {p} : handle[q] = i THEN shared \cup {i} ELSE shared
  BY DEF OpenPath
<1>2. /\ handle'[p] = i /\ \A q \in Procs \ {p} : handle'[q] = handle[q]
      /\ unterminated'[p] = FoundMidLine(i, readable)
      /\ \A q \in Procs \ {p} : unterminated'[q] = unterminated[q]
      /\ handle \in [Procs -> Inodes \cup {NoFile}]
  BY <1>1 DEF TypeOK
<1>3. /\ forgot \subseteq forgot' /\ shared \subseteq shared'
      /\ short \subseteq short' /\ cut \subseteq cut'
  BY SuspicionStays
<1>4. \A q \in Procs : pc'[q] \in {"write", "rollback"} => pc[q] = pc'[q] /\ q # p
  OBVIOUS
<1>5. OneHandle'
  BY <1>1, <1>2, <1>3 DEF Knowledge, OneHandle
<1>6. ShortFirst'
  BY <1>2, <1>3, <1>4 DEF Knowledge, ShortFirst
<1>7. TailKnown'
  <2>1. EndsMidLine(file[i]) /\ i \notin forgot' => unterminated'[p]
    BY <1>1, <1>2, ConstantsAssumption DEF FoundMidLine
  <2> QED
    BY <1>2, <1>3, <2>1 DEF Knowledge, TailKnown, Suspect
<1>8. SizeHeld'
  BY <1>2, <1>3, <1>4 DEF Knowledge, SizeHeld
<1>9. RollbackSpares'
  BY <1>2, <1>3, <1>4 DEF Knowledge, RollbackSpares, Suspect
<1> QED
  BY <1>5, <1>6, <1>7, <1>8, <1>9 DEF Knowledge

(* A step of a process that leaves files and handles alone, and what is known of the
   files' ends. *)
LEMMA QuietKeepsKnowledge ==
  ASSUME TypeOK, Control, Knowledge, [Next]_vars, NEW p \in Procs,
         pc[p] # "down", pc[p] # "rollback", pc'[p] \notin {"write", "rollback"},
         \A q \in Procs \ {p} : pc'[q] = pc[q] /\ sizeBefore'[q] = sizeBefore[q],
         UNCHANGED <<file, acked, handle, unterminated>>
  PROVE  Knowledge'
<1>1. /\ forgot \subseteq forgot' /\ shared \subseteq shared'
      /\ short \subseteq short' /\ cut \subseteq cut'
  BY SuspicionStays
<1>2. OneHandle' /\ ShortFirst'
  BY <1>1 DEF Knowledge, OneHandle, ShortFirst
<1>3. TailKnown'
  BY <1>1 DEF Knowledge, TailKnown, Suspect
<1>4. SizeHeld' /\ RollbackSpares'
  BY <1>1 DEF Knowledge, SizeHeld, RollbackSpares, Suspect
<1> QED
  BY <1>2, <1>3, <1>4 DEF Knowledge

(* Measuring: what is measured is the size of the file. *)
LEMMA MeasureKeepsKnowledge ==
  ASSUME TypeOK, Control, Knowledge, NEW p \in Procs, Measure(p)
  PROVE  Knowledge'
<1> USE DEF fileVars, procVars, boundVars, histVars
<1>1. /\ pc[p] = "measure" /\ pc' = [pc EXCEPT ![p] = "write"]
      /\ UNCHANGED <<file, acked, handle, unterminated, forgot, shared, short, cut>>
  BY DEF Measure
<1>2. PICK size \in MeasuredSizes(file[handle[p]]) :
        sizeBefore' = [sizeBefore EXCEPT ![p] = size]
  BY DEF Measure
<1>3. size = Unknown \/ size = Len(file[handle[p]])
  BY DEF MeasuredSizes
<1>4. /\ sizeBefore'[p] = size /\ \A q \in Procs \ {p} : sizeBefore'[q] = sizeBefore[q]
      /\ pc'[p] = "write" /\ \A q \in Procs \ {p} : pc'[q] = pc[q]
  BY <1>1, <1>2 DEF TypeOK
<1>5. OneHandle' /\ ShortFirst' /\ TailKnown' /\ RollbackSpares'
  BY <1>1, <1>4 DEF Knowledge, OneHandle, ShortFirst, TailKnown, RollbackSpares, Suspect
<1>6. SizeHeld'
  BY <1>1, <1>3, <1>4 DEF Knowledge, SizeHeld
<1> QED
  BY <1>5, <1>6 DEF Knowledge

(* A kill: who is down knows nothing and has nothing open. *)
LEMMA CrashKeepsKnowledge ==
  ASSUME TypeOK, Knowledge, NEW p \in Procs, Crash(p)
  PROVE  Knowledge'
<1> USE DEF fileVars
<1>1. /\ pc'[p] = "down" /\ handle'[p] = NoFile
      /\ UNCHANGED <<file, acked, forgot, shared, short, cut>>
  BY DEF Crash, TypeOK
<1>2. \A q \in Procs \ {p} :
        /\ pc'[q] = pc[q] /\ handle'[q] = handle[q] /\ unterminated'[q] = unterminated[q]
        /\ sizeBefore'[q] = sizeBefore[q]
  BY DEF Crash, EndAppend, TypeOK
<1>3. OneHandle' /\ ShortFirst'
  BY <1>1, <1>2 DEF Knowledge, OneHandle, ShortFirst
<1>4. TailKnown' /\ SizeHeld' /\ RollbackSpares'
  BY <1>1, <1>2 DEF Knowledge, TailKnown, SizeHeld, RollbackSpares, Suspect
<1> QED
  BY <1>3, <1>4 DEF Knowledge

(* A step that only moves the path, or none at all. *)
LEMMA FrameKeepsKnowledge ==
  ASSUME Knowledge, UNCHANGED <<file, procVars, acked, cut, forgot, shared, short>>
  PROVE  Knowledge'
  BY DEF procVars, Knowledge, OneHandle, ShortFirst, TailKnown, SizeHeld, RollbackSpares,
         Suspect

(* The line is left broken, and the process remembers that. *)
LEMMA LeaveBrokenKeepsKnowledge ==
  ASSUME TypeOK, Knowledge, NEW p \in Procs, LeaveBroken(p)
  PROVE  Knowledge'
<1> USE DEF fileVars, histVars
<1>1. /\ pc'[p] = "account" /\ unterminated'[p] = TRUE
      /\ UNCHANGED <<file, handle, sizeBefore, acked, forgot, shared, short, cut>>
  BY DEF LeaveBroken, TypeOK
<1>2. \A q \in Procs \ {p} : pc'[q] = pc[q] /\ unterminated'[q] = unterminated[q]
  BY DEF LeaveBroken, TypeOK
<1>3. OneHandle' /\ ShortFirst'
  BY <1>1, <1>2 DEF Knowledge, OneHandle, ShortFirst
<1>4. TailKnown' /\ SizeHeld' /\ RollbackSpares'
  BY <1>1, <1>2 DEF Knowledge, TailKnown, SizeHeld, RollbackSpares, Suspect
<1> QED
  BY <1>3, <1>4 DEF Knowledge

-----------------------------------------------------------------------------
(* Steps that change a file *)

(* What a write or a rollback has to see to, for everybody to know what they have to: the
   others who have the same file open count it as shared, and those of them who are
   rolling back, as suspect. *)
LEMMA WriterKeepsKnowledge ==
  ASSUME TypeOK, Control, Knowledge, [Next]_vars, NEW p \in Procs, NEW i \in Inodes,
         handle[p] = i, UNCHANGED <<handle, sizeBefore>>,
         \A j \in Inodes \ {i} : file'[j] = file[j],
         \A a \in acked' : a \in acked \/ a[2] = i,
         \A q \in Procs \ {p} : pc'[q] = pc[q] /\ unterminated'[q] = unterminated[q],
         \* what it leaves to the others
         Suspect(i)' \/ ~EndsMidLine(file'[i]) \/ i \notin shared,
         \* what it knows itself
         \/ /\ pc'[p] = "rollback"
            /\ i \in short'
            /\ sizeBefore[p] # Unknown /\ ~Suspect(i)' /\ i \notin cut' =>
                 /\ sizeBefore[p] <= Len(file'[i])
                 /\ \A a \in acked' : a[2] = i => WholeWithin(file'[i], a[1], sizeBefore[p])
         \/ /\ pc'[p] = "account"
            /\ ~Suspect(i)' /\ EndsMidLine(file'[i]) => unterminated'[p]
  PROVE  Knowledge'
<1>1. /\ forgot \subseteq forgot' /\ shared \subseteq shared'
      /\ short \subseteq short' /\ cut \subseteq cut'
  BY SuspicionStays
<1>2. ASSUME NEW q \in Procs \ {p}, handle[q] = i
      PROVE  i \in shared /\ (pc[q] = "rollback" => Suspect(i))
  <2>1. i # NoFile
    BY ConstantsAssumption
  <2>2. i \in shared
    BY <1>2, <2>1 DEF Knowledge, OneHandle
  <2> QED
    BY <1>2, <2>2 DEF Knowledge, ShortFirst, Suspect
<1>3. ASSUME NEW q \in Procs \ {p}, handle[q] # i, pc'[q] # "down"
      PROVE  handle[q] \in Inodes /\ file'[handle[q]] = file[handle[q]]
  BY <1>3 DEF Control
<1>4. OneHandle'
  BY <1>1 DEF Knowledge, OneHandle
<1>5. ShortFirst'
  BY <1>1 DEF Knowledge, ShortFirst
<1>6. TailKnown'
  <2>1. SUFFICES ASSUME NEW q \in Procs, pc'[q] \notin {"down", "rollback"},
                        ~Suspect(handle[q])', EndsMidLine(file'[handle[q]])
                 PROVE  unterminated'[q]
    BY DEF TailKnown
  <2>2. CASE q = p
    BY <2>1, <2>2
  <2>3. CASE q # p /\ handle[q] = i
    BY <1>2, <2>1, <2>3 DEF Suspect
  <2>4. CASE q # p /\ handle[q] # i
    <3>1. file'[handle[q]] = file[handle[q]] /\ pc[q] = pc'[q]
          /\ unterminated'[q] = unterminated[q] /\ ~Suspect(handle[q])
      BY <1>1, <1>3, <2>1, <2>4 DEF Suspect
    <3> QED
      BY <2>1, <3>1 DEF Knowledge, TailKnown
  <2> QED
    BY <2>2, <2>3, <2>4
<1>7. SizeHeld'
  <2>1. SUFFICES ASSUME NEW q \in Procs, pc'[q] = "write", sizeBefore[q] # Unknown,
                        handle[q] \notin cut' \cup shared'
                 PROVE  sizeBefore[q] = Len(file'[handle[q]])
    BY DEF SizeHeld
  <2>2. q # p /\ handle[q] # i /\ pc[q] = "write" /\ handle[q] \notin cut \cup shared
    BY <1>1, <1>2, <2>1
  <2>3. file'[handle[q]] = file[handle[q]]
    BY <1>3, <2>1, <2>2
  <2> QED
    BY <2>1, <2>2, <2>3 DEF Knowledge, SizeHeld
<1>8. RollbackSpares'
  <2>1. SUFFICES ASSUME NEW q \in Procs, pc'[q] = "rollback", sizeBefore[q] # Unknown,
                        ~Suspect(handle[q])', handle[q] \notin cut'
                 PROVE  /\ sizeBefore[q] <= Len(file'[handle[q]])
                        /\ \A a \in acked' : a[2] = handle[q] =>
                             WholeWithin(file'[handle[q]], a[1], sizeBefore[q])
    BY DEF RollbackSpares
  <2>2. CASE q = p
    BY <2>1, <2>2
  <2>3. CASE q # p
    <3>1. pc[q] = "rollback" /\ ~Suspect(handle[q]) /\ handle[q] \notin cut /\ handle[q] # i
      BY <1>1, <1>2, <2>1, <2>3 DEF Suspect
    <3>2. file'[handle[q]] = file[handle[q]]
      BY <1>3, <2>1, <2>3, <3>1
    <3>3. \A a \in acked' : a[2] = handle[q] => a \in acked
      BY <3>1
    <3> QED
      BY <2>1, <3>1, <3>2, <3>3 DEF Knowledge, RollbackSpares
  <2> QED
    BY <2>2, <2>3
<1> QED
  BY <1>4, <1>5, <1>6, <1>7, <1>8 DEF Knowledge

(* The whole record is written. *)
LEMMA WriteWholeKeepsLines ==
  ASSUME TypeOK, Control, LinesInv, [Next]_vars, NEW p \in Procs, WriteWhole(p)
  PROVE  LinesInv'
<1>0. PICK i \in Inodes : i = handle[p]
  BY DEF WriteWhole, Control
<1>1. /\ pc[p] = "write" /\ rec[p] \in Recs /\ file[i] \in Seq(Unit)
  BY <1>0 DEF WriteWhole, Control, TypeOK, Busy
<1>2. /\ file'[i] = file[i] \o Buffer(p)
      /\ \A j \in Inodes \ {i} : file'[j] = file[j]
      /\ acked' = acked \cup {<<rec[p], i>>}
      /\ pc'[p] = "account"
      /\ \A q \in Procs \ {p} : pc'[q] = pc[q] /\ unterminated'[q] = unterminated[q]
      /\ UNCHANGED <<handle, sizeBefore, forgot, shared, short, cut>>
  BY <1>0, <1>1 DEF WriteWhole, TypeOK
<1>3. ASSUME ~Suspect(i)
      PROVE  ~Fused(file'[i]) /\ ~EndsMidLine(file'[i]) /\ WholeLine(file'[i], rec[p])
  <2>1. EndsMidLine(file[i]) => unterminated[p]
    BY <1>0, <1>1, <1>3 DEF LinesInv, Knowledge, TailKnown
  <2>2. ~Fused(file[i])
    BY <1>1, <1>3 DEF LinesInv, FusedOnlyAfterForgottenBreak, Suspect
  <2>3. ~Fused(file[i] \o Buffer(p))
    BY <1>1, <2>1, <2>2, BufferUnits, PieceFusesNothing
  <2> QED
    BY <1>1, <1>2, <2>1, <2>3, WrittenWhole
<1>4. Suspect(i)' <=> Suspect(i)
  BY <1>2 DEF Suspect
<1>5. Knowledge'
  <2>1. \A a \in acked' : a \in acked \/ a[2] = i
    BY <1>2
  <2>2. handle[p] = i /\ Knowledge
    BY <1>0 DEF LinesInv
  <2> QED
    BY <1>1, <1>2, <1>3, <1>4, <2>1, <2>2, WriterKeepsKnowledge
<1>6. FusedOnlyAfterForgottenBreak'
  BY <1>2, <1>3 DEF LinesInv, FusedOnlyAfterForgottenBreak, Suspect
<1>7. AckedRecordsSurvive'
  <2>1. SUFFICES ASSUME NEW a \in acked', ~Suspect(a[2]), a[2] \notin cut
                 PROVE  WholeLine(file'[a[2]], a[1])
    BY <1>2 DEF AckedRecordsSurvive, Suspect
  <2>2. CASE a = <<rec[p], i>>
    BY <1>3, <2>1, <2>2
  <2>3. CASE a \in acked
    <3>1. WholeLine(file[a[2]], a[1]) /\ a[2] \in Inodes
      BY <2>1, <2>3 DEF LinesInv, AckedRecordsSurvive, Suspect, TypeOK
    <3>2. CASE a[2] = i
      <4>1. WholeLine(file[i] \o Buffer(p), a[1])
        BY <1>1, <3>1, <3>2, BufferUnits, WholeStays
      <4> QED
        BY <1>2, <3>2, <4>1
    <3>3. CASE a[2] # i
      BY <1>2, <3>1, <3>3
    <3> QED
      BY <3>2, <3>3
  <2> QED
    BY <1>2, <2>2, <2>3
<1> QED
  BY <1>5, <1>6, <1>7 DEF LinesInv

(* What a short write leaves is a piece of the record's line. *)
LEMMA ShortPiece ==
  ASSUME NEW p \in Procs, rec[p] \in Recs, NEW k \in 0..(Len(Buffer(p)) - 1)
  PROVE  /\ SubSeq(Buffer(p), 1, k) \in Seq(Unit)
         /\ PieceOf(SubSeq(Buffer(p), 1, k), rec[p])
         /\ Len(SubSeq(Buffer(p), 1, k)) > 0 => SubSeq(Buffer(p), 1, k)[1] = Buffer(p)[1]
<1> DEFINE b == Buffer(p)
<1>1. b \in Seq(Unit) /\ PieceOf(b, rec[p])
  BY BufferUnits
<1>2. k \in 0..(Len(b) - 1)
  OBVIOUS
<1> HIDE DEF b
<1>3. SubSeq(b, 1, k) \in Seq(Unit)
  BY <1>1, <1>2, SMT
<1>4. Len(SubSeq(b, 1, k)) = k /\ \A j \in 1..k : SubSeq(b, 1, k)[j] = b[j]
  BY <1>1, <1>2, SMT
<1>5. Len(b) \in Nat
  BY <1>1
<1>6. PieceOf(SubSeq(b, 1, k), rec[p])
  BY <1>1, <1>2, <1>4, <1>5 DEF PieceOf
<1>7. Len(SubSeq(b, 1, k)) > 0 => SubSeq(b, 1, k)[1] = b[1]
  BY <1>2, <1>4, <1>5
<1> QED
  BY <1>3, <1>6, <1>7 DEF b

(* A write comes up short: the size measured was the size written at, unless others have
   the file. *)
LEMMA WriteShortKeepsLines ==
  ASSUME TypeOK, Control, LinesInv, [Next]_vars, NEW p \in Procs, WriteShort(p)
  PROVE  LinesInv'
<1>0. PICK i \in Inodes : i = handle[p]
  BY DEF WriteShort, Control
<1>1. /\ pc[p] = "write" /\ rec[p] \in Recs /\ file[i] \in Seq(Unit)
      /\ Len(file[i]) \in Nat
  BY <1>0 DEF WriteShort, Control, TypeOK, Busy
<1>2. PICK k \in 0..(Len(Buffer(p)) - 1) :
        file' = [file EXCEPT ![i] = @ \o SubSeq(Buffer(p), 1, k)]
  BY <1>0 DEF WriteShort
<1>3. /\ file'[i] = file[i] \o SubSeq(Buffer(p), 1, k)
      /\ \A j \in Inodes \ {i} : file'[j] = file[j]
      /\ pc'[p] = "rollback"
      /\ \A q \in Procs \ {p} : pc'[q] = pc[q] /\ unterminated'[q] = unterminated[q]
      /\ i \in short' /\ short \subseteq short'
      /\ UNCHANGED <<handle, sizeBefore, acked, forgot, shared, cut>>
  BY <1>0, <1>1, <1>2 DEF WriteShort, TypeOK
<1>4. \A a \in acked' :
        a[2] = i /\ ~Suspect(i)' /\ i \notin cut' =>
          /\ WholeWithin(file'[i], a[1], Len(file[i]))
          /\ WholeLine(file'[i], a[1])
  <2>1. SUFFICES ASSUME NEW a \in acked', a[2] = i, ~Suspect(i)', i \notin cut'
                 PROVE  /\ WholeWithin(file'[i], a[1], Len(file[i]))
                        /\ WholeLine(file'[i], a[1])
    OBVIOUS
  <2>2. WholeLine(file[i], a[1])
    BY <1>3, <2>1 DEF LinesInv, AckedRecordsSurvive, Suspect
  <2> QED
    BY <1>1, <1>3, <2>2, ShortPiece, WholeStays
<1>5. ASSUME ~Suspect(i)'
      PROVE  ~Fused(file'[i])
  <2>1. EndsMidLine(file[i]) => unterminated[p]
    BY <1>0, <1>1, <1>3, <1>5 DEF LinesInv, Knowledge, TailKnown, Suspect
  <2>2. ~Fused(file[i])
    BY <1>3, <1>5 DEF LinesInv, FusedOnlyAfterForgottenBreak, Suspect
  <2>3. unterminated[p] => Buffer(p)[1] = Newline
    BY <1>1, BufferUnits
  <2> QED
    BY <1>1, <1>3, <2>1, <2>2, <2>3, ShortPiece, PieceFusesNothing
<1>6. ASSUME sizeBefore[p] # Unknown, ~Suspect(i)', i \notin cut'
      PROVE  /\ sizeBefore[p] <= Len(file'[i])
             /\ \A a \in acked' : a[2] = i => WholeWithin(file'[i], a[1], sizeBefore[p])
  <2>1. sizeBefore[p] = Len(file[i])
    BY <1>0, <1>1, <1>3, <1>6 DEF LinesInv, Knowledge, SizeHeld, Suspect
  <2>2. Len(file'[i]) >= Len(file[i])
    <3> DEFINE b == SubSeq(Buffer(p), 1, k)
    <3>1. b \in Seq(Unit) /\ file'[i] = file[i] \o b
      BY <1>1, <1>3, ShortPiece
    <3> HIDE DEF b
    <3> QED
      BY <1>1, <3>1, Concatenated
  <2> QED
    BY <1>1, <1>4, <1>6, <2>1, <2>2
<1>7. Knowledge'
  <2>1. Suspect(i)' \/ i \notin shared
    BY <1>3 DEF Suspect
  <2>2. Knowledge
    BY DEF LinesInv
  <2>3. \A a \in acked' : a \in acked
    BY <1>3
  <2> QED
    BY <1>0, <1>3, <1>6, <2>1, <2>2, <2>3, WriterKeepsKnowledge
<1>8. FusedOnlyAfterForgottenBreak'
  <2>1. SUFFICES ASSUME NEW j \in Inodes, ~Suspect(j)'
                 PROVE  ~Fused(file'[j])
    BY DEF FusedOnlyAfterForgottenBreak, Suspect
  <2>2. CASE j = i
    BY <1>5, <2>1, <2>2
  <2>3. CASE j # i
    BY <1>3, <2>1, <2>3 DEF LinesInv, FusedOnlyAfterForgottenBreak, Suspect
  <2> QED
    BY <2>2, <2>3
<1>9. AckedRecordsSurvive'
  <2>1. SUFFICES ASSUME NEW a \in acked', ~Suspect(a[2])', a[2] \notin cut'
                 PROVE  WholeLine(file'[a[2]], a[1])
    BY DEF AckedRecordsSurvive, Suspect
  <2>2. CASE a[2] = i
    BY <1>4, <2>1, <2>2
  <2>3. CASE a[2] # i
    <3>1. WholeLine(file[a[2]], a[1]) /\ a[2] \in Inodes
      BY <1>3, <2>1 DEF LinesInv, AckedRecordsSurvive, Suspect, TypeOK
    <3> QED
      BY <1>3, <2>3, <3>1
  <2> QED
    BY <2>2, <2>3
<1> QED
  BY <1>7, <1>8, <1>9 DEF LinesInv

(* The rollback: what it leaves is a beginning of the file that holds every acknowledged
   record, or it forgets a break. *)
LEMMA RollBackKeepsLines ==
  ASSUME TypeOK, Control, LinesInv, [Next]_vars, NEW p \in Procs, RollBack(p)
  PROVE  LinesInv'
<1>0. PICK i \in Inodes : i = handle[p]
  BY DEF RollBack, Control
<1>1. /\ pc[p] = "rollback" /\ file[i] \in Seq(Unit) /\ Len(file[i]) \in Nat
      /\ sizeBefore[p] # Unknown /\ sizeBefore[p] \in Nat
  BY <1>0 DEF RollBack, TypeOK, Size
<1>2. /\ file'[i] = SetLen(file[i], sizeBefore[p])
      /\ \A j \in Inodes \ {i} : file'[j] = file[j]
      /\ pc'[p] = "account"
      /\ \A q \in Procs \ {p} : pc'[q] = pc[q] /\ unterminated'[q] = unterminated[q]
      /\ EndsMidLine(file'[i]) => i \in forgot'
      /\ forgot \subseteq forgot'
      /\ UNCHANGED <<handle, sizeBefore, acked, shared, short, cut>>
  BY <1>0, <1>1 DEF RollBack, TypeOK
<1>3. ASSUME ~Suspect(i)'
      PROVE  sizeBefore[p] <= Len(file[i]) /\ ~EndsMidLine(file'[i]) /\ ~Fused(file'[i])
  <2>1. ~EndsMidLine(file'[i])
    BY <1>2, <1>3 DEF Suspect
  <2>2. sizeBefore[p] <= Len(file[i])
    BY <1>1, <1>2, <2>1, SetLenUnits
  <2>3. ~Fused(file[i])
    BY <1>2, <1>3 DEF LinesInv, FusedOnlyAfterForgottenBreak, Suspect
  <2> QED
    BY <1>1, <1>2, <2>1, <2>2, <2>3, BeginningFusesNothing
<1>4. Knowledge'
  <2>1. Suspect(i)' \/ ~EndsMidLine(file'[i])
    BY <1>2 DEF Suspect
  <2>2. Knowledge
    BY DEF LinesInv
  <2>3. \A a \in acked' : a \in acked
    BY <1>2
  <2> QED
    BY <1>0, <1>2, <2>1, <2>2, <2>3, WriterKeepsKnowledge
<1>5. FusedOnlyAfterForgottenBreak'
  <2>1. SUFFICES ASSUME NEW j \in Inodes, ~Suspect(j)'
                 PROVE  ~Fused(file'[j])
    BY DEF FusedOnlyAfterForgottenBreak, Suspect
  <2>2. CASE j = i
    BY <1>3, <2>1, <2>2
  <2>3. CASE j # i
    BY <1>2, <2>1, <2>3 DEF LinesInv, FusedOnlyAfterForgottenBreak, Suspect
  <2> QED
    BY <2>2, <2>3
<1>6. AckedRecordsSurvive'
  <2>1. SUFFICES ASSUME NEW a \in acked', ~Suspect(a[2])', a[2] \notin cut'
                 PROVE  WholeLine(file'[a[2]], a[1])
    BY DEF AckedRecordsSurvive, Suspect
  <2>2. CASE a[2] = i
    <3>1. WholeWithin(file[i], a[1], sizeBefore[p])
      BY <1>0, <1>1, <1>2, <2>1, <2>2 DEF LinesInv, Knowledge, RollbackSpares, Suspect
    <3> QED
      BY <1>1, <1>2, <1>3, <2>1, <2>2, <3>1, WholeSurvivesCut
  <2>3. CASE a[2] # i
    <3>1. WholeLine(file[a[2]], a[1]) /\ a[2] \in Inodes
      BY <1>2, <2>1 DEF LinesInv, AckedRecordsSurvive, Suspect, TypeOK
    <3> QED
      BY <1>2, <2>3, <3>1
  <2> QED
    BY <2>2, <2>3
<1> QED
  BY <1>4, <1>5, <1>6 DEF LinesInv

(* copytruncate: an empty file has no lines, and is counted as cut. *)
LEMMA CutKeepsLines ==
  ASSUME TypeOK, Control, LinesInv, CopyTruncate
  PROVE  LinesInv'
<1> USE DEF procVars
<1>1. PICK i \in Inodes : i = path
  BY DEF CopyTruncate, TypeOK
<1>2. /\ file'[i] = <<>> /\ \A j \in Inodes \ {i} : file'[j] = file[j]
      /\ cut' = cut \cup {i}
      /\ UNCHANGED <<pc, handle, unterminated, sizeBefore, acked, forgot, shared, short>>
  BY <1>1 DEF CopyTruncate, TypeOK
<1>3. Len(file'[i]) = 0 /\ ~EndsMidLine(file'[i]) /\ ~Fused(file'[i])
  BY <1>2 DEF EndsMidLine, Fused
<1>4. \A q \in Procs : pc[q] # "down" => handle[q] \in Inodes
  BY DEF Control
<1>5. Knowledge'
  BY <1>2, <1>3, <1>4 DEF LinesInv, Knowledge, OneHandle, ShortFirst, TailKnown, SizeHeld,
     RollbackSpares, Suspect
<1>6. FusedOnlyAfterForgottenBreak'
  BY <1>2, <1>3 DEF LinesInv, FusedOnlyAfterForgottenBreak
<1>7. AckedRecordsSurvive'
  <2>1. \A a \in acked : a[2] \in Inodes
    BY DEF TypeOK
  <2> QED
    BY <1>2, <2>1 DEF LinesInv, AckedRecordsSurvive
<1> QED
  BY <1>5, <1>6, <1>7 DEF LinesInv

-----------------------------------------------------------------------------
(* The theorems *)

(* Every step keeps the invariant. *)
LEMMA StepKeepsLines ==
  ASSUME TypeOK, Control, LinesInv, [Next]_vars
  PROVE  LinesInv'
<1> USE DEF fileVars, procVars, boundVars, histVars
<1>0. Knowledge
  BY DEF LinesInv
<1>1. ASSUME NEW p \in Procs, Open(p) PROVE LinesInv'
  <2>1. /\ pc[p] = "down" /\ pc'[p] = "idle" /\ \A q \in Procs \ {p} : pc'[q] = pc[q]
        /\ OpenPath(p) /\ UNCHANGED <<file, acked, sizeBefore>>
    BY <1>1 DEF Open, TypeOK
  <2>2. Knowledge'
    BY <1>0, <2>1, OpenKeepsKnowledge
  <2> QED
    BY <2>1, <2>2, SameFiles DEF LinesInv
<1>2. ASSUME NEW p \in Procs, NEW r \in Recs, Begin(p, r) PROVE LinesInv'
  <2>1. /\ pc[p] = "idle" /\ pc'[p] = "reattach" /\ \A q \in Procs \ {p} : pc'[q] = pc[q]
        /\ UNCHANGED <<file, acked, handle, unterminated, sizeBefore>>
    BY <1>2 DEF Begin, TypeOK
  <2>2. Knowledge'
    BY <1>0, <2>1, QuietKeepsKnowledge
  <2> QED
    BY <2>1, <2>2, SameFiles DEF LinesInv
<1>3. ASSUME NEW p \in Procs, Reattach(p) PROVE LinesInv'
  <2>1. /\ pc[p] = "reattach" /\ pc'[p] = "measure" /\ \A q \in Procs \ {p} : pc'[q] = pc[q]
        /\ UNCHANGED <<file, acked, sizeBefore>>
    BY <1>3 DEF Reattach, TypeOK
  <2>2. CASE KeepHandle(p)
    <3>1. UNCHANGED <<handle, unterminated>>
      BY <2>2 DEF KeepHandle
    <3>2. Knowledge'
      BY <1>0, <2>1, <3>1, QuietKeepsKnowledge
    <3> QED
      BY <2>1, <3>2, SameFiles DEF LinesInv
  <2>3. CASE Reopen(p)
    <3>1. OpenPath(p)
      BY <2>3 DEF Reopen
    <3>2. Knowledge'
      BY <1>0, <2>1, <3>1, OpenKeepsKnowledge
    <3> QED
      BY <2>1, <3>2, SameFiles DEF LinesInv
  <2> QED
    BY <1>3, <2>2, <2>3 DEF Reattach
<1>4. ASSUME NEW p \in Procs, Measure(p) PROVE LinesInv'
  <2>1. UNCHANGED <<file, acked>>
    BY <1>4 DEF Measure
  <2> QED
    BY <1>0, <1>4, <2>1, MeasureKeepsKnowledge, SameFiles DEF LinesInv
<1>5. ASSUME NEW p \in Procs, LeaveBroken(p) PROVE LinesInv'
  <2>1. UNCHANGED <<file, acked>>
    BY <1>5 DEF LeaveBroken
  <2> QED
    BY <1>0, <1>5, <2>1, LeaveBrokenKeepsKnowledge, SameFiles DEF LinesInv
<1>6. ASSUME NEW p \in Procs, Account(p) PROVE LinesInv'
  <2>1. /\ pc[p] = "account" /\ pc'[p] = "idle" /\ \A q \in Procs \ {p} : pc'[q] = pc[q]
        /\ \A q \in Procs \ {p} : sizeBefore'[q] = sizeBefore[q]
        /\ UNCHANGED <<file, acked, handle, unterminated>>
    BY <1>6 DEF Account, EndAppend, TypeOK
  <2>2. Knowledge'
    BY <1>0, <2>1, QuietKeepsKnowledge
  <2> QED
    BY <2>1, <2>2, SameFiles DEF LinesInv
<1>7. ASSUME NEW p \in Procs, Crash(p) PROVE LinesInv'
  <2>1. UNCHANGED <<file, acked>>
    BY <1>7 DEF Crash
  <2> QED
    BY <1>0, <1>7, <2>1, CrashKeepsKnowledge, SameFiles DEF LinesInv
<1>8. ASSUME Rotate \/ UNCHANGED vars PROVE LinesInv'
  <2>1. UNCHANGED <<file, procVars, acked, cut, forgot, shared, short>>
    BY <1>8 DEF Rotate, vars
  <2> QED
    BY <1>0, <2>1, FrameKeepsKnowledge, SameFiles DEF LinesInv
<1>9. ASSUME NEW p \in Procs, WriteWhole(p) \/ WriteShort(p) \/ RollBack(p) PROVE LinesInv'
  BY <1>9, WriteWholeKeepsLines, WriteShortKeepsLines, RollBackKeepsLines
<1> QED
  BY <1>1, <1>2, <1>3, <1>4, <1>5, <1>6, <1>7, <1>8, <1>9, CutKeepsLines DEF Next, Step

(* The invariant of the lines: together with the types and the control of AuditLogProofs
   it is inductive. *)
THEOREM LinesInductive == Spec => []LinesInv
<1>1. Init => LinesInv
  <2>1. SUFFICES ASSUME Init PROVE LinesInv
    OBVIOUS
  <2>2. Knowledge
    BY <2>1 DEF Init, Knowledge, OneHandle, ShortFirst, TailKnown, SizeHeld, RollbackSpares
  <2>3. FusedOnlyAfterForgottenBreak
    BY <2>1 DEF Init, FusedOnlyAfterForgottenBreak, Fused
  <2>4. AckedRecordsSurvive
    BY <2>1 DEF Init, AckedRecordsSurvive
  <2> QED
    BY <2>2, <2>3, <2>4 DEF LinesInv
<1>2. IInv /\ LinesInv /\ [Next]_vars => LinesInv'
  BY StepKeepsLines DEF IInv
<1> QED
  BY <1>1, <1>2, Inductive, PTL DEF Spec

(* No line holds two records, except in a file where a break was forgotten, or a write
   came up short while two processes had it open. *)
THEOREM FusedOnlyForgotten == Spec => []FusedOnlyAfterForgottenBreak
<1>1. LinesInv => FusedOnlyAfterForgottenBreak
  BY DEF LinesInv
<1> QED
  BY <1>1, LinesInductive, PTL

(* A record whose append returned Ok keeps its line through every later rollback, reopen,
   kill and restart, with the same exceptions and that of a file cut from outside. *)
THEOREM AckedSurvive == Spec => []AckedRecordsSurvive
<1>1. LinesInv => AckedRecordsSurvive
  BY DEF LinesInv
<1> QED
  BY <1>1, LinesInductive, PTL
=============================================================================
