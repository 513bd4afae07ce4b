------------------------------ MODULE AuditLog ------------------------------
(***************************************************************************)
(* The audit trail's sink (src/src/audit.rs): a JSONL file that a process  *)
(* appends to through a handle it keeps open, while operators rotate the   *)
(* file, the disk fills up, and the process may be killed.                 *)
(*                                                                         *)
(* A process runs one append at a time (the mutex of AuditLog), in steps:  *)
(*                                                                         *)
(*   reattach -> measure -> write -> (rollback) -> account                 *)
(*                                                                         *)
(* Anything outside the process may happen between two of them.  Procs     *)
(* holds every process that has the log open: `serve`, and `check --audit` *)
(* which opens the same file.                                              *)
(*                                                                         *)
(* A file is a sequence of units.  A record is two units, its head and its *)
(* tail, so that a write cut short may end before, inside or after the     *)
(* record; a Newline ends a line; Zero is what set_len fills a hole with.  *)
(***************************************************************************)
EXTENDS Integers, Sequences

CONSTANTS
  Procs,       \* the processes that write the log
  Recs,        \* the records to write, each written at most once
  Own,         \* the records of each process: check --audit has one
  Inodes,      \* the inodes the file system can hand out
  NoFile,      \* what the configured path names when nothing is there
  Newline,     \* the line terminator
  Zero,        \* a byte of a hole
  Unknown,     \* a size that is not known (Option::None)
  Readable,    \* the answers open_append(path, true) may give
  Faults,      \* the system calls that may fail: see FaultKinds
  MaxMeddle,   \* bound on what outsiders do to the file
  MaxCrash     \* bound on kills

FaultKinds == {"stat", "reopen", "truncate", "size"}

ASSUME ConstantsAssumption ==
  /\ NoFile \notin Inodes
  /\ Own \in [Procs -> SUBSET Recs]
  /\ Newline \notin (Recs \X {1, 2})
  /\ Zero \notin (Recs \X {1, 2})
  /\ Newline # Zero
  /\ Unknown \notin Nat
  /\ Readable \subseteq BOOLEAN
  /\ Faults \subseteq FaultKinds
  /\ MaxMeddle \in Nat
  /\ MaxCrash \in Nat

VARIABLES
  file,          \* the units each inode holds
  path,          \* the inode the configured path names
  pc,            \* where each process is in open and append
  handle,        \* the inode each process' handle is open on
  unterminated,  \* Sink::unterminated
  lastSize,      \* Sink::last_size
  sizeBefore,    \* append's size_before
  rec,           \* the record being appended
  written,       \* records that were given to an append
  meddled,       \* how often outsiders acted
  crashes,       \* how often a process was killed
  \* History, read by the properties only.
  acked,         \* <<record, inode>> for each write that returned Ok
  named,         \* inodes the path named since the current append began
  excused,       \* the append could not stat or reopen the path, which had moved
  drift,         \* bytes others added to the file, less those they removed, since
                 \* lastSize was taken
  cut,           \* inodes outsiders removed bytes from
  forgot,        \* inodes that ended mid-line while the process took them for whole
  shared,        \* inodes two processes have had open at once
  short          \* inodes on which a write has come up short

fileVars == <<file, path>>
procVars == <<pc, handle, unterminated, lastSize, sizeBefore, rec>>
boundVars == <<written, meddled, crashes>>
histVars == <<acked, named, excused, drift, cut, forgot, shared, short>>
vars == <<fileVars, procVars, boundVars, histVars>>

Unit == (Recs \X {1, 2}) \cup {Newline, Zero}
Size == Nat \cup {Unknown}
Busy == {"reattach", "measure", "write", "rollback", "account"}
Unmeasured == {"idle", "reattach", "measure"}

TypeOK ==
  /\ file \in [Inodes -> Seq(Unit)]
  /\ path \in Inodes \cup {NoFile}
  /\ pc \in [Procs -> Busy \cup {"down", "idle"}]
  /\ handle \in [Procs -> Inodes \cup {NoFile}]
  /\ unterminated \in [Procs -> BOOLEAN]
  /\ lastSize \in [Procs -> Size]
  /\ sizeBefore \in [Procs -> Size]
  /\ rec \in [Procs -> Recs \cup {Unknown}]
  /\ written \subseteq Recs
  /\ meddled \in Nat
  /\ crashes \in Nat
  /\ acked \subseteq Recs \X Inodes
  /\ named \in [Procs -> SUBSET Inodes]
  /\ excused \in [Procs -> BOOLEAN]
  /\ drift \in [Procs -> Int]
  /\ cut \subseteq Inodes
  /\ forgot \subseteq Inodes
  /\ shared \subseteq Inodes
  /\ short \subseteq Inodes

-----------------------------------------------------------------------------
(* What the file system does *)

EndsMidLine(units) == units # <<>> /\ units[Len(units)] # Newline

\* set_len: cut the file, or grow it with a hole.
SetLen(units, len) ==
  [k \in 1..len |-> IF k <= Len(units) THEN units[k] ELSE Zero]

\* Mutant: the last unit is taken for the end.
MeasuredSizesOffByOne(units) == {Len(units) - 1}

\* metadata().len(), or None where fstat itself fails
MeasuredSizes(units) ==
  {Len(units)} \cup (IF "size" \in Faults THEN {Unknown} ELSE {})

Fresh == {i \in Inodes : file[i] = <<>> /\ i # path /\ \A p \in Procs : handle[p] # i}

\* The inode that opening the configured path with create(true) yields.
OpenedInodes == IF path = NoFile THEN Fresh ELSE {path}

-----------------------------------------------------------------------------
Init ==
  /\ file = [i \in Inodes |-> <<>>]
  /\ path = NoFile
  /\ pc = [p \in Procs |-> "down"]
  /\ handle = [p \in Procs |-> NoFile]
  /\ unterminated = [p \in Procs |-> FALSE]
  /\ lastSize = [p \in Procs |-> Unknown]
  /\ sizeBefore = [p \in Procs |-> Unknown]
  /\ rec = [p \in Procs |-> Unknown]
  /\ written = {}
  /\ meddled = 0
  /\ crashes = 0
  /\ acked = {}
  /\ named = [p \in Procs |-> {}]
  /\ excused = [p \in Procs |-> FALSE]
  /\ drift = [p \in Procs |-> 0]
  /\ cut = {}
  /\ forgot = {}
  /\ shared = {}
  /\ short = {}

\* Mutant: the end of an existing log is not inspected.
FoundMidLineNever(i, readable) == FALSE

\* LogFile::open: a log that cannot be read back is taken for whole.
FoundMidLine(i, readable) == readable /\ EndsMidLine(file[i])

\* LogFile::open, by AuditLog::open or by reattach: the handle, what the file it
\* found ends with, and (for the properties) the break an unreadable log hides.
OpenPath(p) ==
  \E i \in OpenedInodes, readable \in Readable :
    /\ path' = i
    /\ handle' = [handle EXCEPT ![p] = i]
    /\ unterminated' = [unterminated EXCEPT ![p] = FoundMidLine(i, readable)]
    /\ forgot' = IF ~readable /\ EndsMidLine(file[i]) THEN forgot \cup {i} ELSE forgot
    /\ named' = [q \in Procs |-> IF pc[q] \in Busy THEN named[q] \cup {i} ELSE named[q]]
    /\ drift' = [drift EXCEPT ![p] = 0]
    /\ shared' = IF \E q \in Procs \ {p} : handle[q] = i THEN shared \cup {i} ELSE shared

\* AuditLog::open, at startup or after a crash.
Open(p) ==
  /\ pc[p] = "down"
  /\ OpenPath(p)
  /\ lastSize' = [lastSize EXCEPT ![p] = Unknown]
  /\ pc' = [pc EXCEPT ![p] = "idle"]
  /\ UNCHANGED <<file, sizeBefore, rec, boundVars, acked, excused, cut, short>>

\* append: the record is serialized and the lock is taken.
Begin(p, r) ==
  /\ pc[p] = "idle"
  /\ r \in Own[p] \ written
  /\ written' = written \cup {r}
  /\ rec' = [rec EXCEPT ![p] = r]
  /\ named' = [named EXCEPT ![p] = {path} \ {NoFile}]
  /\ excused' = [excused EXCEPT ![p] = FALSE]
  /\ pc' = [pc EXCEPT ![p] = "reattach"]
  /\ UNCHANGED <<fileVars, handle, unterminated, lastSize, sizeBefore,
                 meddled, crashes, acked, drift, cut, forgot, shared, short>>

\* Mutant: the path is not compared with the handle.
AlwaysAttached(p) == TRUE

\* LogFile::still_attached
StillAttached(p) == path = handle[p]

\* LogFile::reattach answers Unchanged: the path still names our inode, or could not
\* be examined, or names another one that could not be opened.
KeepHandle(p) ==
  /\ StillAttached(p) \/ Faults \cap {"stat", "reopen"} # {}
  /\ excused' = [excused EXCEPT ![p] = ~StillAttached(p)]
  /\ UNCHANGED <<path, handle, unterminated, lastSize, named, drift, forgot, shared>>

\* Mutant: the byte accounting of the old file is kept.
ReopenKeepingSize(p) ==
  /\ ~StillAttached(p)
  /\ OpenPath(p)
  /\ UNCHANGED <<lastSize, excused>>

\* LogFile::reattach answers Reopened, and append starts the accounting over.
Reopen(p) ==
  /\ ~StillAttached(p)
  /\ OpenPath(p)
  /\ lastSize' = [lastSize EXCEPT ![p] = Unknown]
  /\ UNCHANGED excused

Reattach(p) ==
  /\ pc[p] = "reattach"
  /\ KeepHandle(p) \/ Reopen(p)
  /\ pc' = [pc EXCEPT ![p] = "measure"]
  /\ UNCHANGED <<file, sizeBefore, rec, boundVars, acked, cut, short>>

\* The warning append raises when it finds the log smaller than it left it.
ShrinkAlarm(p, size) ==
  size # Unknown /\ lastSize[p] # Unknown /\ size < lastSize[p]

\* append's size_before, which ShrinkAlarm is asked about.
Measure(p) ==
  /\ pc[p] = "measure"
  /\ \E size \in MeasuredSizes(file[handle[p]]) :
       sizeBefore' = [sizeBefore EXCEPT ![p] = size]
  /\ pc' = [pc EXCEPT ![p] = "write"]
  /\ UNCHANGED <<fileVars, handle, unterminated, lastSize, rec, boundVars, histVars>>

Line(r) == <<<<r, 1>>, <<r, 2>>, Newline>>

\* Mutant: a broken line is not closed.
BufferOfLineOnly(p) == Line(rec[p])

\* The bytes of one append: a broken line is closed first.
Buffer(p) == (IF unterminated[p] THEN <<Newline>> ELSE <<>>) \o Line(rec[p])

\* What a change of one file is to the processes that accounted for it before.
Drifted(i) ==
  [q \in Procs |-> IF handle[q] = i /\ pc[q] \in Unmeasured
                     THEN drift[q] + (Len(file'[i]) - Len(file[i])) ELSE drift[q]]

\* O_APPEND: the buffer goes to the end the file has now.
WriteWhole(p) ==
  /\ pc[p] = "write"
  /\ file' = [file EXCEPT ![handle[p]] = @ \o Buffer(p)]
  /\ unterminated' = [unterminated EXCEPT ![p] = FALSE]
  /\ acked' = acked \cup {<<rec[p], handle[p]>>}
  /\ pc' = [pc EXCEPT ![p] = "account"]
  /\ drift' = Drifted(handle[p])
  /\ UNCHANGED <<path, handle, lastSize, sizeBefore, rec, boundVars,
                 named, excused, cut, forgot, shared, short>>

\* write_all fails after any proper prefix: a full disk, or a kill that follows.
WriteShort(p) ==
  /\ pc[p] = "write"
  /\ \E k \in 0..(Len(Buffer(p)) - 1) :
       file' = [file EXCEPT ![handle[p]] = @ \o SubSeq(Buffer(p), 1, k)]
  /\ pc' = [pc EXCEPT ![p] = "rollback"]
  /\ drift' = Drifted(handle[p])
  /\ short' = short \cup {handle[p]}
  /\ UNCHANGED <<path, handle, unterminated, lastSize, sizeBefore, rec,
                 boundVars, acked, named, excused, cut, forgot, shared>>

\* The Err arm of append: truncate to size_before, and remember a broken line
\* only where that was impossible.
RollBack(p) ==
  /\ pc[p] = "rollback"
  /\ sizeBefore[p] # Unknown
  /\ file' = [file EXCEPT ![handle[p]] = SetLen(@, sizeBefore[p])]
  /\ unterminated' = [unterminated EXCEPT ![p] = FALSE]
  /\ forgot' = IF EndsMidLine(file'[handle[p]]) THEN forgot \cup {handle[p]} ELSE forgot
  /\ pc' = [pc EXCEPT ![p] = "account"]
  /\ drift' = Drifted(handle[p])
  /\ UNCHANGED <<path, handle, lastSize, sizeBefore, rec, boundVars,
                 acked, named, excused, cut, shared, short>>

LeaveBroken(p) ==
  /\ pc[p] = "rollback"
  /\ sizeBefore[p] = Unknown \/ "truncate" \in Faults
  /\ unterminated' = [unterminated EXCEPT ![p] = TRUE]
  /\ pc' = [pc EXCEPT ![p] = "account"]
  /\ UNCHANGED <<fileVars, handle, lastSize, sizeBefore, rec, boundVars, histVars>>

\* The locals of an append, and what the properties remember of it, end with it.
EndAppend(p) ==
  /\ rec' = [rec EXCEPT ![p] = Unknown]
  /\ sizeBefore' = [sizeBefore EXCEPT ![p] = Unknown]
  /\ drift' = [drift EXCEPT ![p] = 0]
  /\ named' = [named EXCEPT ![p] = {}]
  /\ excused' = [excused EXCEPT ![p] = FALSE]

\* Mutant: the size remembered is the one before the record.
AccountStale(p) ==
  /\ pc[p] = "account"
  /\ lastSize' = [lastSize EXCEPT ![p] = sizeBefore[p]]
  /\ EndAppend(p)
  /\ pc' = [pc EXCEPT ![p] = "idle"]
  /\ UNCHANGED <<fileVars, handle, unterminated, boundVars, acked, cut, forgot, shared, short>>

\* append's last line: last_size = size().ok().
Account(p) ==
  /\ pc[p] = "account"
  /\ \E size \in MeasuredSizes(file[handle[p]]) :
       lastSize' = [lastSize EXCEPT ![p] = size]
  /\ EndAppend(p)
  /\ pc' = [pc EXCEPT ![p] = "idle"]
  /\ UNCHANGED <<fileVars, handle, unterminated, boundVars, acked, cut, forgot, shared, short>>

-----------------------------------------------------------------------------
(* What happens to the process and to its file *)

\* A kill, or the end of a `check` run; the record in flight goes with it.
Crash(p) ==
  /\ pc[p] # "down"
  /\ crashes < MaxCrash
  /\ crashes' = crashes + 1
  /\ EndAppend(p)
  /\ pc' = [pc EXCEPT ![p] = "down"]
  /\ handle' = [handle EXCEPT ![p] = NoFile]
  /\ unterminated' = [unterminated EXCEPT ![p] = FALSE]
  /\ lastSize' = [lastSize EXCEPT ![p] = Unknown]
  /\ UNCHANGED <<fileVars, written, meddled, acked, cut, forgot, shared, short>>

\* rename, unlink, logrotate's create, or an old file moved back: the path names
\* another inode, or none.
Rotate ==
  /\ meddled < MaxMeddle
  /\ meddled' = meddled + 1
  /\ path' \in (Inodes \cup {NoFile}) \ {path}
  /\ named' = [p \in Procs |->
                 IF pc[p] \in Busy THEN named[p] \cup ({path'} \ {NoFile}) ELSE named[p]]
  /\ UNCHANGED <<file, procVars, written, crashes, acked, excused, drift, cut, forgot,
                 shared, short>>

\* logrotate's copytruncate: same inode, no bytes.
CopyTruncate ==
  /\ meddled < MaxMeddle
  /\ meddled' = meddled + 1
  /\ path # NoFile
  /\ file[path] # <<>>
  /\ file' = [file EXCEPT ![path] = <<>>]
  /\ drift' = Drifted(path)
  /\ cut' = cut \cup {path}
  /\ UNCHANGED <<path, procVars, written, crashes, acked, named, excused, forgot,
                 shared, short>>

Step(p) ==
  \/ \E r \in Recs : Begin(p, r)
  \/ Reattach(p)
  \/ Measure(p)
  \/ WriteWhole(p)
  \/ WriteShort(p)
  \/ RollBack(p)
  \/ LeaveBroken(p)
  \/ Account(p)

Next ==
  \/ \E p \in Procs : Open(p) \/ Step(p) \/ Crash(p)
  \/ Rotate
  \/ CopyTruncate

Spec == Init /\ [][Next]_vars

-----------------------------------------------------------------------------
(* Lines *)

\* Positions i and j of a file lie on one line.
OnOneLine(units, i, j) == \A k \in i..j : units[k] # Newline

\* Some line holds bytes of two records, or bytes nobody wrote: no reader can
\* parse it.
Fused(units) ==
  \E i, j \in 1..Len(units) :
    /\ i < j
    /\ OnOneLine(units, i, j)
    /\ \/ units[i] = Zero \/ units[j] = Zero
       \/ units[i][1] # units[j][1]

\* Record r stands on a line of its own.
WholeLine(units, r) ==
  \E i \in 1..Len(units) :
    /\ i + 2 <= Len(units)
    /\ units[i] = <<r, 1>> /\ units[i + 1] = <<r, 2>> /\ units[i + 2] = Newline
    /\ i = 1 \/ units[i - 1] = Newline

(* What the comments of append promise (audit.rs:557-559): a broken record is
   rolled back, or its line is closed before the next record, so no line ever
   holds two records.  The code does not keep this promise: see the run
   audit_masked_break. *)
EveryLineOneRecord == \A i \in Inodes : ~Fused(file[i])

(* What append does guarantee: two records share a line only in a file where an
   earlier rollback reported success although the file still ended mid-line --
   because size_before itself was mid-line, or because the file was cut under it --
   or which was opened without being readable (open warns about it), or where a
   write came up short and two processes have had the log open at once.  No other mix of
   processes, short writes, failed truncations, crashes and rotations fuses records. *)
FusedOnlyAfterForgottenBreak ==
  \A i \in Inodes : Fused(file[i]) => i \in forgot \cup (shared \cap short)

(* A record whose write returned Ok is never lost to what this or another process does
   later -- a rollback of a later record, a reopen, a restart: it stands on a line of
   its own in the file it was written to, unless that file was cut by an outsider,
   holds a forgotten break, or two processes have had it open and a write to it came
   up short (the lock of append holds within one process, and the rollback truncates
   what the other one appended meanwhile). *)
AckedRecordsSurvive ==
  \A a \in acked :
    a[2] \in cut \cup forgot \cup (shared \cap short) \/ WholeLine(file[a[2]], a[1])

(* reattach: past the check, the handle is a file that the configured path named at
   some moment of this very append, unless the path could not be examined or
   reopened.  At most the record in flight can go to a file that was rotated away
   ("the renamed file receives nothing further"). *)
WritesWherePathPoints ==
  \A p \in Procs :
    pc[p] \in {"measure", "write"} => handle[p] \in named[p] \/ excused[p]

(* append's shrink warning accuses nobody wrongly and misses nothing it can see: it is
   raised exactly when others -- outsiders, or a second process that rolled back --
   removed more than they added since the last record was accounted for, never
   because of a rollback of ours, a size that could not be read or a change of file
   (audit.rs:540-541: "nothing this daemon did can shrink an append-only log"). *)
ShrinkWarningIsExact ==
  \A p \in Procs : pc[p] = "measure" =>
    \A size \in MeasuredSizes(file[handle[p]]) :
      ShrinkAlarm(p, size) <=> size # Unknown /\ lastSize[p] # Unknown /\ drift[p] < 0
=============================================================================
