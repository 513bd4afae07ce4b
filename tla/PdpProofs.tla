------------------------------ MODULE PdpProofs ------------------------------
(***************************************************************************)
(* What an operator and a request may rely on while the policies are       *)
(* swapped, for every set of files and texts, and any number of edits,     *)
(* reloads, requests and restarts.                                         *)
(*                                                                         *)
(* First of PolicyReload alone: no edit of the directory is lost between   *)
(* the watcher's events and the deciding set.  After the listing, the      *)
(* files already read still hold what was read, and the files still to be  *)
(* read still exist, unless an event is waiting in the channel (or a       *)
(* change could not raise one).  So what the attempt comes to is right for *)
(* the directory, or another attempt follows.  The trust check looks at    *)
(* one component after another: what it has passed was tight at some time  *)
(* since the drain ended, and stays so whatever is loosened behind it.     *)
(*                                                                         *)
(* Then of the whole daemon.  To the loading thread the requests are       *)
(* invisible, so what is shown of it carries over.  Requests run only      *)
(* while the watch is up, hence against a set that passed every guard.     *)
(* Between the swap and its line the trail is behind the deciding set:     *)
(* whoever evaluates or records in that window is marked as raced, and for *)
(* everybody else the last loaded line of the log is the set's own.        *)
(***************************************************************************)
EXTENDS Pdp, TLAPS

-----------------------------------------------------------------------------
(* The loading thread *)

\* Control: what the loading thread has established where.
Control ==
  /\ watching => active # Nothing
  /\ pc \in {"health", "recv", "drain"} => watching
  /\ pc = "watch" => ~watching
  /\ pc \in {"trail", "health", "watch"} => active # Nothing /\ outcome \in Outcomes
  /\ ~watching /\ pc \in {"check", "entries", "judge", "list", "read"} => active = Nothing
  /\ lastReload # "none" => watching

\* Nothing happened to the directory that the thread will not hear of.
Settled == ~Pending /\ ~unseen

\* While the files are judged and read, the directory is still what was listed and read.
ReadingMatches ==
  /\ pc = "judge" /\ Settled => \A f \in todo : dir[f] # Absent
  /\ pc = "read" /\ Settled =>
       \A f \in Files : IF f \in todo THEN dir[f] # Absent ELSE read[f] = dir[f]

\* From the end of the attempt on, its outcome is right for the directory.
AttemptMatches ==
  pc \in {"trail", "health", "watch", "recv"} /\ Settled => Agrees

\* The hash in hand is of the bytes in hand.
DigestMatches == digest = read

\* What the check has passed was tight at some time since the drain ended.  A file that
\* is not there is not loose, so one that was not listed is passed as well.
CheckedTight ==
  /\ loose \cap Files \subseteq Present(dir)
  /\ Loosenable \ loose \subseteq tight
  /\ pc \in {"entries", "judge"} => Loosenable \cap {Directory} \subseteq tight
  /\ pc = "judge" => (Loosenable \cap Files) \ todo \subseteq tight
  /\ pc \in {"list", "read"} => Loosenable \subseteq tight

IInv ==
  /\ TypeOK
  /\ Control
  /\ ReadingMatches
  /\ AttemptMatches
  /\ DigestMatches
  /\ HashNamesDecidingSet
  /\ CheckedTight

-----------------------------------------------------------------------------
(* The trust check *)

(* A step of the check goes on or ends the attempt, and leaves everything alone but what
   it is examining. *)
LEMMA RecheckSteps ==
  ASSUME Recheck
  PROVE  /\ pc \in {"check", "entries", "judge"}
         /\ UNCHANGED <<dir, loose, queue, attached, edits, crashes, watching, read, digest,
                        active, trail, lastReload, swallowed, unseen, tight>>
         /\ \/ pc' \in {"entries", "judge", "list"} /\ UNCHANGED outcome
            \/ watching /\ pc' = "trail" /\ outcome' = "refused"
            \/ ~watching /\ pc' = "exited" /\ UNCHANGED outcome
<1> USE DEF envVars, loadVars, logVars, historyVars, Judge, Refuse, Report
<1>1. CASE JudgeDirectory \/ JudgeAncestor
  BY <1>1 DEF JudgeDirectory, JudgeAncestor
<1>2. CASE ListEntries \/ RecheckFails
  BY <1>2 DEF ListEntries, RecheckFails
<1>3. CASE \E f \in Files : JudgeEntry(f) \/ SkipEntry(f) \/ EntryGone(f)
  BY <1>3 DEF JudgeEntry, SkipEntry, EntryGone
<1> QED
  BY <1>1, <1>2, <1>3 DEF Recheck

(* What it is examining stays of its type. *)
LEMMA RecheckTypes ==
  ASSUME TypeOK, Recheck
  PROVE  todo' \subseteq Files /\ refusedFor' \subseteq Loosenable /\ stumbled' \in BOOLEAN
<1> USE DEF TypeOK, envVars, loadVars, logVars, historyVars, Judge
<1>1. CASE JudgeDirectory \/ JudgeAncestor
  BY <1>1 DEF JudgeDirectory, JudgeAncestor
<1>2. CASE ListEntries \/ RecheckFails
  BY <1>2 DEF ListEntries, RecheckFails, Present
<1>3. CASE \E f \in Files : JudgeEntry(f) \/ SkipEntry(f) \/ EntryGone(f)
  BY <1>3 DEF JudgeEntry, SkipEntry, EntryGone
<1> QED
  BY <1>1, <1>2, <1>3 DEF Recheck

-----------------------------------------------------------------------------
(* Types *)

(* The empty directory listing is a directory's contents. *)
LEMMA EmptyIsContents == Empty \in Contents
  BY DEF Empty, Contents

(* The set an attempt adopts is a loaded set. *)
LEMMA LoadedSetType ==
  ASSUME TypeOK
  PROVE  LoadedSet \in Loaded
  BY DEF TypeOK, LoadedSet, NextGen, Loaded

(* The line of an attempt that came to something is a line. *)
LEMMA AttemptLineType ==
  ASSUME TypeOK, active # Nothing, outcome \in Outcomes
  PROVE  AttemptLine \in Line
<1>1. active \in Loaded
  BY DEF TypeOK
<1> QED
  BY <1>1 DEF AttemptLine, Line, Loaded, TypeOK

(* The trail after an attempt is a sequence of lines. *)
LEMMA LongerTrailType ==
  ASSUME TypeOK, active # Nothing, outcome \in Outcomes
  PROVE  LongerTrail \in Seq(Line)
  BY AttemptLineType DEF LongerTrail, TypeOK

(* The initial state is well typed. *)
LEMMA InitTypes ==
  ASSUME Init
  PROVE  TypeOK
<1>1. /\ watching \in BOOLEAN /\ attached \in BOOLEAN /\ unseen \in BOOLEAN
      /\ stumbled \in BOOLEAN /\ swallowed \in BOOLEAN
  BY DEF Init
<1>2. queue \in Seq({"change", "error"}) /\ trail \in Seq(Line)
  BY DEF Init
<1>3. /\ loose \subseteq Loosenable /\ tight \subseteq Loosenable /\ refusedFor \subseteq Loosenable
      /\ todo \subseteq Files
  BY ConstantsAssumption DEF Init
<1>4. dir \in Contents /\ read \in Contents /\ digest \in Contents
  BY EmptyIsContents DEF Init
<1>5. /\ pc \in {"check", "entries", "judge", "list", "read", "trail", "health", "watch",
                "recv", "drain", "exited"}
      /\ outcome \in Outcomes \cup {"none"} /\ lastReload \in Outcomes \cup {"none"}
  BY DEF Init
<1>6. edits \in Nat /\ crashes \in Nat /\ active \in Loaded \cup {Nothing}
  BY DEF Init
<1> QED
  BY <1>1, <1>2, <1>3, <1>4, <1>5, <1>6 DEF TypeOK

(* Every step of the thread and of the outside keeps the types. *)
LEMMA StepTypes ==
  ASSUME TypeOK, Control, [Next]_vars
  PROVE  TypeOK'
<1> USE DEF TypeOK, envVars, loadVars, logVars, historyVars
<1>1. CASE Recheck
  BY <1>1, RecheckSteps, RecheckTypes DEF Outcomes
<1>2. CASE List
  BY <1>2, EmptyIsContents DEF List, Present
<1>3. ASSUME NEW f \in Files, ReadEntry(f) PROVE TypeOK'
  BY <1>3 DEF ReadEntry, Contents
<1>4. ASSUME NEW f \in Files, ReadFails(f) PROVE TypeOK'
  BY <1>4 DEF ReadFails, Refuse, Report, Outcomes
<1>5. CASE Adopt
  BY <1>5, LoadedSetType DEF Adopt, Report, Outcomes
<1>6. CASE CheckFails
  BY <1>6 DEF CheckFails, Refuse, Report, Outcomes
<1>7. CASE RecordTrail
  BY <1>7, LongerTrailType DEF RecordTrail, Control
<1>8. CASE RecordHealth
  BY <1>8 DEF RecordHealth
<1>9. CASE StartWatch
  BY <1>9 DEF StartWatch
<1>10. CASE Receive
  BY <1>10 DEF Receive
<1>11. CASE Drain
  BY <1>11 DEF Drain
<1>12. CASE EndDrain
  BY <1>12 DEF EndDrain
<1>13. ASSUME NEW f \in Files, NEW t \in Text \cup {Absent}, Edit(f, t) PROVE TypeOK'
  BY <1>13 DEF Edit, Happens, Notify, MarkUnseen, Contents, Loosens
<1>14. CASE Touch
  BY <1>14 DEF Touch, Happens, Notify
<1>15. CASE WatchError
  BY <1>15 DEF WatchError, Happens, Notify
<1>16. ASSUME NEW what \in Loosenable, Chmod(what) PROVE TypeOK'
  <2>1. /\ watching' \in BOOLEAN /\ attached' \in BOOLEAN /\ unseen' \in BOOLEAN
        /\ stumbled' \in BOOLEAN /\ swallowed' \in BOOLEAN
    BY <1>16 DEF Chmod, MarkUnseen
  <2>2. queue' \in Seq({"change", "error"}) /\ trail' \in Seq(Line)
    BY <1>16 DEF Chmod, Notify
  <2>3. /\ loose' \subseteq Loosenable /\ tight' \subseteq Loosenable
        /\ refusedFor' \subseteq Loosenable
        /\ todo' \subseteq Files
    BY <1>16 DEF Chmod, Loosens
  <2>4. dir' \in Contents /\ read' \in Contents /\ digest' \in Contents
    BY <1>16 DEF Chmod
  <2>5. /\ pc' \in {"check", "entries", "judge", "list", "read", "trail", "health",
                  "watch", "recv", "drain", "exited"}
        /\ outcome' \in Outcomes \cup {"none"} /\ lastReload' \in Outcomes \cup {"none"}
    BY <1>16 DEF Chmod
  <2>6. edits' \in Nat /\ crashes' \in Nat /\ active' \in Loaded \cup {Nothing}
    BY <1>16 DEF Chmod, Happens
  <2> QED
    BY <2>1, <2>2, <2>3, <2>4, <2>5, <2>6 DEF TypeOK
<1>17. ASSUME NEW c \in Contents, Swap(c) PROVE TypeOK'
  <2>1. /\ watching' \in BOOLEAN /\ attached' \in BOOLEAN /\ unseen' \in BOOLEAN
        /\ stumbled' \in BOOLEAN /\ swallowed' \in BOOLEAN
    BY <1>17 DEF Swap
  <2>2. queue' \in Seq({"change", "error"}) /\ trail' \in Seq(Line)
    BY <1>17 DEF Swap, Notify
  <2>3. /\ loose' \subseteq Loosenable /\ tight' \subseteq Loosenable
        /\ refusedFor' \subseteq Loosenable
        /\ todo' \subseteq Files
    BY <1>17 DEF Swap, Loosens
  <2>4. dir' \in Contents /\ read' \in Contents /\ digest' \in Contents
    BY <1>17 DEF Swap
  <2>5. /\ pc' \in {"check", "entries", "judge", "list", "read", "trail", "health",
                  "watch", "recv", "drain", "exited"}
        /\ outcome' \in Outcomes \cup {"none"} /\ lastReload' \in Outcomes \cup {"none"}
    BY <1>17 DEF Swap
  <2>6. edits' \in Nat /\ crashes' \in Nat /\ active' \in Loaded \cup {Nothing}
    BY <1>17 DEF Swap, Happens
  <2> QED
    BY <2>1, <2>2, <2>3, <2>4, <2>5, <2>6 DEF TypeOK
<1>18. CASE Restart
  <2>1. /\ watching' \in BOOLEAN /\ attached' \in BOOLEAN /\ unseen' \in BOOLEAN
        /\ stumbled' \in BOOLEAN /\ swallowed' \in BOOLEAN
    BY <1>18 DEF Restart
  <2>2. queue' \in Seq({"change", "error"}) /\ trail' \in Seq(Line)
    BY <1>18 DEF Restart
  <2>3. /\ loose' \subseteq Loosenable /\ tight' \subseteq Loosenable
        /\ refusedFor' \subseteq Loosenable
        /\ todo' \subseteq Files
    BY <1>18 DEF Restart
  <2>4. dir' \in Contents /\ read' \in Contents /\ digest' \in Contents
    BY <1>18, EmptyIsContents DEF Restart
  <2>5. /\ pc' \in {"check", "entries", "judge", "list", "read", "trail", "health",
                  "watch", "recv", "drain", "exited"}
        /\ outcome' \in Outcomes \cup {"none"} /\ lastReload' \in Outcomes \cup {"none"}
    BY <1>18 DEF Restart
  <2>6. edits' \in Nat /\ crashes' \in Nat /\ active' \in Loaded \cup {Nothing}
    BY <1>18 DEF Restart
  <2> QED
    BY <2>1, <2>2, <2>3, <2>4, <2>5, <2>6 DEF TypeOK
<1>19. CASE UNCHANGED vars
  BY <1>19 DEF vars
<1>20. CASE ListFails
  BY <1>20 DEF ListFails, Refuse, Report, Outcomes
<1>21. CASE GiveUp
  BY <1>21 DEF GiveUp
<1> QED
  BY <1>1, <1>2, <1>3, <1>4, <1>5, <1>6, <1>7, <1>8, <1>9, <1>10, <1>11, <1>12,
     <1>13, <1>14, <1>15, <1>16, <1>17, <1>18, <1>19, <1>20, <1>21
  DEF Next, Thread, Load, Outside

-----------------------------------------------------------------------------
(* Control, hashes and the trust re-check *)

(* Every step keeps what the loading thread has established so far. *)
LEMMA StepControl ==
  ASSUME TypeOK, Control, [Next]_vars
  PROVE  Control'
<1> USE NothingAssumption DEF Control, Outcomes, envVars, loadVars, logVars, historyVars
<1>1. CASE Recheck
  BY <1>1, RecheckSteps
<1>2. CASE List
  BY <1>2 DEF List
<1>3. ASSUME NEW f \in Files, ReadEntry(f) PROVE Control'
  BY <1>3 DEF ReadEntry
<1>4. ASSUME NEW f \in Files, ReadFails(f) PROVE Control'
  BY <1>4 DEF ReadFails, Refuse, Report
<1>5. CASE Adopt
  BY <1>5, LoadedSetType DEF Adopt, Report
<1>6. CASE CheckFails
  BY <1>6 DEF CheckFails, Refuse, Report
<1>7. CASE RecordTrail
  BY <1>7 DEF RecordTrail
<1>8. CASE RecordHealth
  BY <1>8 DEF RecordHealth
<1>9. CASE StartWatch
  BY <1>9 DEF StartWatch
<1>10. CASE Receive
  BY <1>10 DEF Receive
<1>11. CASE Drain
  BY <1>11 DEF Drain
<1>12. CASE EndDrain
  BY <1>12 DEF EndDrain
<1>13. ASSUME NEW f \in Files, NEW t \in Text \cup {Absent}, Edit(f, t) PROVE Control'
  BY <1>13 DEF Edit
<1>14. CASE Touch
  BY <1>14 DEF Touch
<1>15. CASE WatchError
  BY <1>15 DEF WatchError
<1>16. ASSUME NEW what \in Loosenable, Chmod(what) PROVE Control'
  BY <1>16 DEF Chmod
<1>17. ASSUME NEW c \in Contents, Swap(c) PROVE Control'
  BY <1>17 DEF Swap
<1>18. CASE Restart
  BY <1>18 DEF Restart
<1>19. CASE UNCHANGED vars
  BY <1>19 DEF vars
<1>20. CASE ListFails
  BY <1>20 DEF ListFails, Refuse, Report
<1>21. CASE GiveUp
  BY <1>21 DEF GiveUp
<1> QED
  BY <1>1, <1>2, <1>3, <1>4, <1>5, <1>6, <1>7, <1>8, <1>9, <1>10, <1>11, <1>12,
     <1>13, <1>14, <1>15, <1>16, <1>17, <1>18, <1>19, <1>20, <1>21
  DEF Next, Thread, Load, Outside

(* What is hashed is what is read, step by step, so the hash adopted with a set is of
   that set. *)
LEMMA StepHashes ==
  ASSUME DigestMatches, HashNamesDecidingSet, [Next]_vars
  PROVE  DigestMatches' /\ HashNamesDecidingSet'
<1> USE DEF DigestMatches, HashNamesDecidingSet, envVars, loadVars, logVars, historyVars
<1>1. CASE List \/ \E f \in Files : ReadEntry(f)
  BY <1>1 DEF List, ReadEntry
<1>2. CASE Adopt
  BY <1>2 DEF Adopt, LoadedSet
<1>3. CASE Restart \/ GiveUp
  BY <1>3 DEF Restart, GiveUp
<1>4. CASE Recheck \/ ListFails \/ CheckFails \/ \E f \in Files : ReadFails(f)
  BY <1>4, RecheckSteps DEF ListFails, CheckFails, ReadFails
<1>5. CASE RecordTrail \/ RecordHealth \/ StartWatch \/ Receive \/ Drain \/ EndDrain
  BY <1>5 DEF RecordTrail, RecordHealth, StartWatch, Receive, Drain, EndDrain
<1>6. CASE \/ \E f \in Files, t \in Text \cup {Absent} : Edit(f, t)
           \/ Touch \/ WatchError
           \/ \E what \in Loosenable : Chmod(what)
           \/ \E c \in Contents : Swap(c)
  BY <1>6 DEF Edit, Touch, WatchError, Chmod, Swap
<1>7. CASE UNCHANGED vars
  BY <1>7 DEF vars
<1> QED
  BY <1>1, <1>2, <1>3, <1>4, <1>5, <1>6, <1>7 DEF Next, Thread, Load, Outside

(* A step of the check passes a component that is tight now, or a file that is not there. *)
LEMMA RecheckTight ==
  ASSUME TypeOK, CheckedTight, Recheck
  PROVE  CheckedTight'
<1> USE DEF TypeOK, CheckedTight, Present, Judge, Refuse, Report
<1>1. UNCHANGED <<dir, loose, tight>>
  BY RecheckSteps
<1>2. CASE JudgeDirectory
  BY <1>1, <1>2 DEF JudgeDirectory
<1>3. CASE ListEntries
  BY <1>1, <1>3 DEF ListEntries
<1>4. ASSUME NEW f \in Files, JudgeEntry(f) PROVE CheckedTight'
  BY <1>1, <1>4 DEF JudgeEntry
<1>5. ASSUME NEW f \in Files, SkipEntry(f) PROVE CheckedTight'
  BY <1>1, <1>5, ConstantsAssumption DEF SkipEntry, historyVars
<1>6. ASSUME NEW f \in Files, EntryGone(f) PROVE CheckedTight'
  BY <1>1, <1>6 DEF EntryGone
<1>7. CASE JudgeAncestor
  <2>1. pc = "judge" /\ todo = {}
    BY <1>7 DEF JudgeAncestor
  <2>2. Loosenable \subseteq tight \cup {Ancestor}
    BY <2>1, ConstantsAssumption
  <2>3. Ancestor \notin loose => Loosenable \subseteq tight
    BY <2>2
  <2> QED
    BY <1>1, <1>7, <2>3 DEF JudgeAncestor
<1>8. CASE RecheckFails
  BY <1>1, <1>8 DEF RecheckFails
<1> QED
  BY <1>2, <1>3, <1>4, <1>5, <1>6, <1>7, <1>8 DEF Recheck

(* What happens to the modes while the check is under way takes nothing from what was
   tight before. *)
LEMMA LoosensTight ==
  ASSUME TypeOK, CheckedTight, NEW now \in SUBSET Loosenable, Loosens(now),
         now \cap Files \subseteq Present(dir'), UNCHANGED <<pc, todo>>
  PROVE  CheckedTight'
<1>1. loose' = now /\ tight \subseteq tight' /\ Loosenable \ now \subseteq tight'
  BY DEF Loosens
<1> QED
  BY <1>1 DEF CheckedTight, Present

(* A load that got past the check passed every component. *)
LEMMA StepTight ==
  ASSUME TypeOK, CheckedTight, [Next]_vars
  PROVE  CheckedTight'
<1> USE DEF TypeOK, envVars, loadVars, logVars, historyVars
<1>1. CASE Recheck
  BY <1>1, RecheckTight
<1>2. CASE EndDrain \/ Restart
  BY <1>2 DEF EndDrain, Restart, CheckedTight, Present
<1>3. ASSUME NEW what \in Loosenable, Chmod(what) PROVE CheckedTight'
  <2> DEFINE now == IF what \in loose THEN loose \ {what} ELSE loose \cup {what}
  <2>1. /\ now \in SUBSET Loosenable /\ Loosens(now)
        /\ now \cap Files \subseteq Present(dir) /\ UNCHANGED <<dir, pc, todo>>
    BY <1>3 DEF Chmod, CheckedTight
  <2>2. now \cap Files \subseteq Present(dir')
    BY <2>1
  <2> HIDE DEF now
  <2> QED
    BY <2>1, <2>2, LoosensTight
<1>4. ASSUME NEW f \in Files, NEW t \in Text \cup {Absent}, Edit(f, t) PROVE CheckedTight'
  <2>1. UNCHANGED <<pc, todo>> /\ dir' = [dir EXCEPT ![f] = t]
    BY <1>4 DEF Edit
  <2>2. \/ Loosens(loose \ {f})
        \/ t # Absent /\ f \in Loosenable /\ Loosens(loose \cup {f})
    BY <1>4 DEF Edit
  <2>3. loose \cap Files \subseteq Present(dir) /\ Present(dir) \ {f} \subseteq Present(dir')
    BY <2>1 DEF CheckedTight, Present, Contents
  <2>4. CASE Loosens(loose \ {f})
    BY <2>1, <2>3, <2>4, LoosensTight
  <2>5. CASE t # Absent /\ f \in Loosenable /\ Loosens(loose \cup {f})
    <3>1. f \in Present(dir')
      BY <2>1, <2>5 DEF Present, Contents
    <3>2. (loose \cup {f}) \cap Files \subseteq Present(dir')
      BY <2>3, <3>1
    <3> QED
      BY <2>1, <2>5, <3>2, LoosensTight
  <2> QED
    BY <2>2, <2>4, <2>5
<1>5. ASSUME NEW c \in Contents, Swap(c) PROVE CheckedTight'
  <2>1. PICK now \in SUBSET Loosenable :
          now \cap Files \subseteq Present(c) /\ Loosens(now)
    BY <1>5 DEF Swap
  <2>2. dir' = c /\ UNCHANGED <<pc, todo>>
    BY <1>5 DEF Swap
  <2> QED
    BY <2>1, <2>2, LoosensTight
<1>6. CASE List \/ ListFails \/ \E f \in Files : ReadEntry(f) \/ ReadFails(f)
  BY <1>6 DEF List, ListFails, ReadEntry, ReadFails, Refuse, Report, CheckedTight, Present
<1>7. CASE Adopt \/ CheckFails
  BY <1>7 DEF Adopt, CheckFails, Refuse, Report, CheckedTight, Present
<1>8. CASE RecordTrail \/ RecordHealth \/ StartWatch \/ GiveUp \/ Receive \/ Drain
  BY <1>8 DEF RecordTrail, RecordHealth, StartWatch, GiveUp, Receive, Drain, CheckedTight, Present
<1>9. CASE Touch \/ WatchError \/ UNCHANGED vars
  BY <1>9 DEF Touch, WatchError, vars, CheckedTight, Present
<1> QED
  BY <1>1, <1>2, <1>3, <1>4, <1>5, <1>6, <1>7, <1>8, <1>9
  DEF Next, Thread, Load, Outside

-----------------------------------------------------------------------------
(* The channel *)

(* A change that is waiting goes on waiting when another event arrives, and a change
   that reaches the channel waits. *)
LEMMA NotifyPends ==
  ASSUME TypeOK, NEW event \in {"change", "error"}, Notify(event)
  PROVE  /\ Pending => Pending'
         /\ event = "change" /\ watching /\ attached => Pending'
<1>1. CASE watching /\ attached
  <2>1. queue \in Seq({"change", "error"}) /\ queue' = Append(queue, event)
    BY <1>1 DEF TypeOK, Notify
  <2>2. /\ Len(queue') = Len(queue) + 1
        /\ queue'[Len(queue) + 1] = event
        /\ \A i \in 1..Len(queue) : queue'[i] = queue[i]
    BY <2>1
  <2>3. Len(queue) \in Nat
    BY <2>1
  <2> QED
    BY <2>2, <2>3 DEF Pending
<1>2. CASE ~(watching /\ attached)
  BY <1>2 DEF Notify, Pending
<1> QED
  BY <1>1, <1>2

(* An edit that is notified is heard of or counted as unseen. *)
LEMMA ChangeUnsettles ==
  ASSUME TypeOK, Notify("change"), MarkUnseen
  PROVE  ~Settled'
<1>1. CASE watching /\ attached
  BY <1>1, NotifyPends DEF Settled
<1>2. CASE ~(watching /\ attached)
  BY <1>2, Zenon DEF MarkUnseen, Settled
<1> QED
  BY <1>1, <1>2

(* Taking an error from the channel takes no change. *)
LEMMA ErrorHidesNoChange ==
  ASSUME TypeOK, queue # <<>>, Head(queue) = "error", queue' = Tail(queue), Pending
  PROVE  Pending'
<1>1. PICK i \in 1..Len(queue) : queue[i] = "change"
  BY DEF Pending
<1>2. queue \in Seq({"change", "error"}) /\ Len(queue) \in Nat
  BY DEF TypeOK
<1>3. i # 1
  BY <1>1, <1>2
<1>4. i - 1 \in 1..Len(queue') /\ queue'[i - 1] = queue[i]
  BY <1>1, <1>2, <1>3
<1> QED
  BY <1>1, <1>4 DEF Pending

-----------------------------------------------------------------------------
(* The edits *)

(* Between listing and adopting, what was read is what is there, or there is an event
   to come. *)
LEMMA StepReading ==
  ASSUME TypeOK, ReadingMatches, [Next]_vars
  PROVE  ReadingMatches'
<1> USE DEF ReadingMatches, envVars, loadVars, logVars, historyVars
<1>1. CASE List
  BY <1>1 DEF List, TypeOK, Empty, Contents, Present
<1>2. ASSUME NEW f \in Files, ReadEntry(f) PROVE ReadingMatches'
  <2>1. UNCHANGED <<pc, dir, queue, unseen>> /\ pc = "read"
    BY <1>2 DEF ReadEntry
  <2>2. read' = [read EXCEPT ![f] = dir[f]] /\ todo' = todo \ {f}
    BY <1>2 DEF ReadEntry
  <2>3. Settled' => Settled
    BY <2>1 DEF Settled, Pending
  <2> QED
    BY <2>1, <2>2, <2>3 DEF TypeOK, Contents
<1>3. CASE ListFails \/ Adopt \/ CheckFails \/ \E f \in Files : ReadFails(f)
  BY <1>3 DEF ListFails, Adopt, CheckFails, ReadFails, Refuse, Report
<1>4. CASE RecordTrail \/ RecordHealth \/ StartWatch \/ GiveUp \/ Receive \/ Drain
        \/ EndDrain
  BY <1>4 DEF RecordTrail, RecordHealth, StartWatch, GiveUp, Receive, Drain, EndDrain
<1>5. ASSUME NEW f \in Files, NEW t \in Text \cup {Absent}, Edit(f, t)
      PROVE  ReadingMatches'
  BY <1>5, ChangeUnsettles DEF Edit
<1>6. CASE Touch
  BY <1>6, NotifyPends DEF Touch, Settled
<1>7. CASE WatchError
  BY <1>7, NotifyPends DEF WatchError, Settled
<1>8. ASSUME NEW what \in Loosenable, Chmod(what) PROVE ReadingMatches'
  <2>1. CASE what # Ancestor
    BY <1>8, <2>1, ChangeUnsettles DEF Chmod
  <2>2. CASE what = Ancestor
    BY <1>8, <2>2 DEF Chmod, Settled, Pending
  <2> QED
    BY <2>1, <2>2
<1>9. ASSUME NEW c \in Contents, Swap(c) PROVE ReadingMatches'
  <2>1. ~Settled'
    <3>1. CASE attached
      BY <1>9, <3>1, NotifyPends DEF Swap, Settled
    <3>2. CASE ~attached
      BY <1>9, <3>2 DEF Swap, Settled
    <3> QED
      BY <3>1, <3>2
  <2> QED
    BY <2>1
<1>10. CASE Restart
  BY <1>10 DEF Restart
<1>11. CASE UNCHANGED vars
  BY <1>11 DEF vars, Settled, Pending
<1>12. CASE Recheck
  <2>1. UNCHANGED <<dir, queue, unseen>> /\ pc' # "read"
    BY <1>12, RecheckSteps
  <2>2. Settled' => Settled
    BY <2>1 DEF Settled, Pending
  <2>3. pc' = "judge" => todo' = Present(dir) \/ (pc = "judge" /\ todo' \subseteq todo)
    BY <1>12, ConstantsAssumption
    DEF Recheck, JudgeDirectory, ListEntries, JudgeEntry, SkipEntry, EntryGone, JudgeAncestor,
        RecheckFails, Judge, Refuse, Report
  <2> QED
    BY <2>1, <2>2, <2>3 DEF Present
<1> QED
  BY <1>1, <1>2, <1>3, <1>4, <1>5, <1>6, <1>7, <1>8, <1>9, <1>10, <1>11, <1>12
  DEF Next, Thread, Load, Outside

(* What an attempt came to is right for the directory, or there is an event to come. *)
LEMMA StepAttempt ==
  ASSUME TypeOK, Control, ReadingMatches, AttemptMatches, [Next]_vars
  PROVE  AttemptMatches'
<1> USE DEF AttemptMatches, Outcomes, envVars, loadVars, logVars, historyVars
<1>1. CASE Recheck
  <2>1. UNCHANGED <<dir, loose, queue, unseen>>
    BY <1>1, RecheckSteps
  <2>2. Settled' => Settled
    BY <2>1 DEF Settled, Pending
  <2>3. pc' \in {"trail", "health", "watch", "recv"} => outcome' = "refused"
    BY <1>1, RecheckSteps
  <2>4. CASE pc' # "trail"
    BY <1>1, <2>4, RecheckSteps
  <2>5. CASE pc' = "trail"
    <3>1. \/ \E component \in loose : refusedFor' = {component} \cap loose
          \/ \E f \in Files : EntryGone(f)
          \/ stumbled' = TRUE
      BY <1>1, <2>5
      DEF Recheck, JudgeDirectory, ListEntries, JudgeEntry, SkipEntry, JudgeAncestor,
          RecheckFails, Judge, Refuse, Report
    <3>2. CASE \E f \in Files : EntryGone(f)
      BY <2>1, <2>2, <3>2 DEF EntryGone, ReadingMatches
    <3>3. CASE \E component \in loose : refusedFor' = {component} \cap loose
      BY <2>1, <2>3, <3>3 DEF Agrees
    <3>4. CASE stumbled' = TRUE
      BY <2>3, <3>4 DEF Agrees
    <3> QED
      BY <3>1, <3>2, <3>3, <3>4
  <2> QED
    BY <2>4, <2>5
<1>2. CASE List \/ \E f \in Files : ReadEntry(f)
  BY <1>2 DEF List, ReadEntry
<1>3. ASSUME NEW f \in Files, ReadFails(f) PROVE AttemptMatches'
  <2>1. UNCHANGED <<dir, queue, unseen>> /\ pc = "read" /\ f \in todo
    BY <1>3 DEF ReadFails, NextFile
  <2>2. Settled' => dir[f] \in Broken \/ stumbled'
    <3>1. CASE dir[f] \in Broken \cup {Absent}
      BY <2>1, <3>1 DEF Settled, Pending, ReadingMatches
    <3>2. CASE dir[f] \notin Broken \cup {Absent}
      BY <1>3, <3>2 DEF ReadFails
    <3> QED
      BY <3>1, <3>2
  <2>3. Settled' => dir' \notin Usable \/ stumbled'
    BY <2>1, <2>2 DEF Usable
  <2>4. pc' = "exited" \/ outcome' = "failed"
    BY <1>3 DEF ReadFails, Refuse, Report
  <2> QED
    BY <2>3, <2>4 DEF Agrees
<1>4. CASE Adopt \/ CheckFails
  <2>1. UNCHANGED <<dir, queue, unseen>> /\ pc = "read" /\ todo = {}
    BY <1>4 DEF Adopt, CheckFails
  <2>2. Settled' => Settled
    BY <2>1 DEF Settled, Pending
  <2>3. Settled' => read = dir
    BY <2>1, <2>2 DEF ReadingMatches, TypeOK, Contents
  <2>4. CASE Adopt
    BY <2>1, <2>3, <2>4 DEF Adopt, Report, LoadedSet, Agrees
  <2>5. CASE CheckFails
    BY <2>1, <2>3, <2>5 DEF CheckFails, Refuse, Report, Agrees
  <2> QED
    BY <1>4, <2>4, <2>5
<1>5. CASE RecordTrail \/ RecordHealth \/ StartWatch
  <2>1. /\ UNCHANGED <<dir, loose, queue, unseen, active, outcome, refusedFor, stumbled>>
        /\ pc \in {"trail", "health", "watch"}
    BY <1>5 DEF RecordTrail, RecordHealth, StartWatch
  <2>2. (Settled' => Settled) /\ (Agrees => Agrees')
    BY <2>1 DEF Settled, Pending, Agrees
  <2> QED
    BY <2>1, <2>2
<1>6. CASE Receive
  <2>1. CASE Head(queue) = "error"
    BY <1>6, <2>1, ErrorHidesNoChange DEF Receive, Settled, Agrees
  <2>2. CASE Head(queue) # "error"
    BY <1>6, <2>2 DEF Receive
  <2> QED
    BY <2>1, <2>2
<1>7. CASE Drain \/ EndDrain \/ GiveUp
  BY <1>7 DEF Drain, EndDrain, GiveUp
<1>8. ASSUME NEW f \in Files, NEW t \in Text \cup {Absent}, Edit(f, t)
      PROVE  AttemptMatches'
  BY <1>8, ChangeUnsettles DEF Edit
<1>9. CASE Touch
  BY <1>9, NotifyPends DEF Touch, Settled, Agrees
<1>10. CASE WatchError
  BY <1>10, NotifyPends DEF WatchError, Settled, Agrees
<1>11. ASSUME NEW what \in Loosenable, Chmod(what) PROVE AttemptMatches'
  <2>1. CASE what # Ancestor
    BY <1>11, <2>1, ChangeUnsettles DEF Chmod
  <2>2. CASE what = Ancestor
    <3>1. /\ UNCHANGED <<dir, queue, unseen, pc, active, outcome, refusedFor, stumbled>>
          /\ loose' \cup {Ancestor} = loose \cup {Ancestor}
      BY <1>11, <2>2 DEF Chmod, Loosens
    <3>2. (Settled' => Settled) /\ (Agrees => Agrees')
      BY <3>1 DEF Settled, Pending, Agrees
    <3> QED
      BY <3>1, <3>2
  <2> QED
    BY <2>1, <2>2
<1>12. ASSUME NEW c \in Contents, Swap(c) PROVE AttemptMatches'
  <2>1. ~Settled'
    <3>1. CASE attached
      BY <1>12, <3>1, NotifyPends DEF Swap, Settled
    <3>2. CASE ~attached
      BY <1>12, <3>2 DEF Swap, Settled
    <3> QED
      BY <3>1, <3>2
  <2> QED
    BY <2>1
<1>13. CASE Restart
  BY <1>13 DEF Restart
<1>14. CASE ListFails
  <2>1. stumbled' = TRUE /\ (pc' = "exited" \/ outcome' \in {"refused", "failed"})
    BY <1>14 DEF ListFails, Refuse, Report
  <2> QED
    BY <2>1 DEF Agrees
<1>15. CASE UNCHANGED vars
  BY <1>15 DEF vars, Settled, Pending, Agrees
<1> QED
  BY <1>1, <1>2, <1>3, <1>4, <1>5, <1>6, <1>7, <1>8, <1>9, <1>10, <1>11, <1>12,
     <1>13, <1>14, <1>15
  DEF Next, Thread, Load, Outside

-----------------------------------------------------------------------------
(* The theorems *)

(* Every part of the invariant holds before the first load. *)
LEMMA InitEstablishes == Init => IInv
<1> SUFFICES ASSUME Init PROVE IInv
  OBVIOUS
<1>1. TypeOK
  BY InitTypes
<1>2. Control /\ ReadingMatches /\ AttemptMatches
  BY DEF Init, Control, ReadingMatches, AttemptMatches
<1>3. DigestMatches /\ HashNamesDecidingSet
  BY DEF Init, DigestMatches, HashNamesDecidingSet
<1>4. CheckedTight
  BY DEF Init, CheckedTight, Present
<1> QED
  BY <1>1, <1>2, <1>3, <1>4 DEF IInv

(* No step disturbs it. *)
LEMMA StepPreserves == IInv /\ [Next]_vars => IInv'
<1> SUFFICES ASSUME IInv, [Next]_vars PROVE IInv'
  OBVIOUS
<1> QED
  BY StepTypes, StepControl, StepReading, StepAttempt, StepHashes, StepTight DEF IInv

(* The inductive invariant of loading and watching. *)
THEOREM Inductive == Spec => []IInv
  BY InitEstablishes, StepPreserves, PTL DEF Spec

(* Every variable keeps its type; in particular the trail only ever receives lines of
   attempts that came to something. *)
THEOREM Typing == Spec => []TypeOK
<1>1. IInv => TypeOK
  BY DEF IInv
<1> QED
  BY <1>1, Inductive, PTL

(* No lost wakeup: an idle watcher without events has dealt with the directory as it
   is, however edits, chmods, swaps, errors and restarts fell between its steps. *)
THEOREM NoEditLost == Spec => []NoLostEdit
<1>1. IInv => NoLostEdit
  BY DEF IInv, AttemptMatches, Settled, NoLostEdit
<1> QED
  BY <1>1, Inductive, PTL

(* The hash in force is the hash of the set in force. *)
THEOREM HashHonest == Spec => []HashNamesDecidingSet
<1>1. IInv => HashNamesDecidingSet
  BY DEF IInv
<1> QED
  BY <1>1, Inductive, PTL

-----------------------------------------------------------------------------
(* The swap *)

(* What happens to the directory leaves the thread where it is and what it has. *)
LEMMA DirectoryApart ==
  ASSUME \/ \E f \in Files, t \in Text \cup {Absent} : Edit(f, t)
         \/ Touch \/ WatchError
         \/ \E what \in Loosenable : Chmod(what)
         \/ \E c \in Contents : Swap(c)
  PROVE  UNCHANGED <<crashes, pc, watching, todo, read, digest, active, outcome, trail,
                     lastReload, swallowed>>
<1> USE DEF loadVars, logVars
<1>1. CASE \E f \in Files, t \in Text \cup {Absent} : Edit(f, t)
  BY <1>1 DEF Edit
<1>2. CASE Touch \/ WatchError \/ \E what \in Loosenable : Chmod(what)
  BY <1>2 DEF Touch, WatchError, Chmod
<1>3. CASE \E c \in Contents : Swap(c)
  BY <1>3 DEF Swap
<1> QED
  BY <1>1, <1>2, <1>3

(* Only adopting a set and dying change what decides. *)
LEMMA ActiveChanges ==
  ASSUME [Next]_vars
  PROVE  UNCHANGED active \/ Adopt \/ Restart \/ GiveUp
<1> USE DEF envVars, loadVars, logVars, historyVars
<1>1. CASE Recheck \/ List \/ ListFails \/ CheckFails
        \/ \E f \in Files : ReadEntry(f) \/ ReadFails(f)
  BY <1>1, RecheckSteps DEF List, ListFails, CheckFails, ReadEntry, ReadFails
<1>2. CASE RecordTrail \/ RecordHealth \/ StartWatch \/ Receive \/ Drain \/ EndDrain
  BY <1>2 DEF RecordTrail, RecordHealth, StartWatch, Receive, Drain, EndDrain
<1>3. CASE \/ \E f \in Files, t \in Text \cup {Absent} : Edit(f, t)
           \/ Touch \/ WatchError
           \/ \E what \in Loosenable : Chmod(what)
           \/ \E c \in Contents : Swap(c)
  BY <1>3, DirectoryApart
<1>4. CASE UNCHANGED vars
  BY <1>4 DEF vars
<1> QED
  BY <1>1, <1>2, <1>3, <1>4 DEF Next, Thread, Load, Outside

(* Whatever is adopted, every component of the tree was tight at some time between the
   end of the drain, or the start of the process, and the swap. *)
THEOREM LooseNotAdopted == Spec => LooseTreeIsNotAdopted
<1>1. IInv /\ [Next]_vars => [active' \notin {active, Nothing} => tight = Loosenable]_vars
  BY ActiveChanges DEF IInv, TypeOK, CheckedTight, Adopt, Restart, GiveUp
<1> QED
  BY <1>1, Inductive, PTL DEF Spec, LooseTreeIsNotAdopted

-----------------------------------------------------------------------------
(* The promise of HotReload *)

(* A set that is adopted is usable, is the next generation, and takes the place of one
   that was recorded. *)
LEMMA AdoptKeepsPromise ==
  ASSUME TypeOK, Control, Adopt
  PROVE  Promise!Next
<1>1. read \in Usable /\ pc = "read" /\ pc' = "trail" /\ outcome' = "loaded"
  BY DEF Adopt, Report
<1>2. active' = LoadedSet /\ active' # Nothing
  BY LoadedSetType, NothingAssumption DEF Adopt
<1>3. active'.gen = NextGen /\ active'.set = read
  BY <1>2 DEF LoadedSet
<1>4. CASE active = Nothing
  <2>1. Promise!Start(read)
    BY <1>1, <1>2, <1>3, <1>4 DEF Promise!Start, NextGen
  <2> QED
    BY <1>1, <2>1 DEF Promise!Next
<1>5. CASE active # Nothing
  <2>1. [gen |-> active.gen, set |-> active.set] # Nothing
    BY <1>5, NothingAssumption DEF TypeOK, Loaded
  <2>2. Promise!Replace(read)
    BY <1>1, <1>2, <1>3, <1>5, <2>1 DEF Promise!Replace, NextGen
  <2> QED
    BY <1>1, <2>2 DEF Promise!Next
<1> QED
  BY <1>4, <1>5

(* The line of an attempt is the record of its set, or of none. *)
LEMMA RecordKeepsPromise ==
  ASSUME RecordTrail
  PROVE  [Promise!Next]_Promise!vars
<1>1. pc = "trail" /\ pc' # "trail" /\ UNCHANGED <<active, outcome>>
  BY DEF RecordTrail
<1>2. CASE outcome = "loaded"
  BY <1>1, <1>2 DEF Promise!Next, Promise!Record
<1>3. CASE outcome # "loaded"
  BY <1>1, <1>3 DEF Promise!vars
<1> QED
  BY <1>2, <1>3

(* Every other step is invisible to the promise. *)
LEMMA OthersStutter ==
  ASSUME [Next]_vars, ~Adopt, ~Restart, ~GiveUp, ~RecordTrail
  PROVE  UNCHANGED Promise!vars
<1> USE DEF envVars, loadVars, logVars, historyVars
<1>1. UNCHANGED active
  BY ActiveChanges
<1>2. (pc = "trail" /\ outcome = "loaded") = (pc' = "trail" /\ outcome' = "loaded")
  <2>1. CASE Recheck \/ ListFails \/ CheckFails \/ \E f \in Files : ReadFails(f)
    BY <2>1, RecheckSteps DEF ListFails, CheckFails, ReadFails, Refuse, Report
  <2>2. CASE List \/ \E f \in Files : ReadEntry(f)
    BY <2>2 DEF List, ReadEntry
  <2>3. CASE RecordHealth \/ StartWatch \/ Receive \/ Drain \/ EndDrain
    BY <2>3 DEF RecordHealth, StartWatch, Receive, Drain, EndDrain
  <2>4. CASE \/ \E f \in Files, t \in Text \cup {Absent} : Edit(f, t)
             \/ Touch \/ WatchError
             \/ \E what \in Loosenable : Chmod(what)
             \/ \E c \in Contents : Swap(c)
    BY <2>4, DirectoryApart
  <2>5. CASE UNCHANGED vars
    BY <2>5 DEF vars
  <2> QED
    BY <2>1, <2>2, <2>3, <2>4, <2>5 DEF Next, Thread, Load, Outside
<1> QED
  BY <1>1, <1>2 DEF Promise!vars

(* Loading, watching and restarting implement hot reload: whatever the directory goes
   through, one usable set decides at a time, it is replaced whole by the next
   generation, and never before it was offered to the trail. *)
THEOREM Implements == Spec => ImplementsHotReload
<1>1. Init => Promise!Init
  BY DEF Init, Promise!Init
<1>2. IInv /\ [Next]_vars => [Promise!Next]_Promise!vars
  <2> SUFFICES ASSUME IInv, [Next]_vars PROVE [Promise!Next]_Promise!vars
    OBVIOUS
  <2>1. CASE Adopt
    BY <2>1, AdoptKeepsPromise DEF IInv
  <2>2. CASE Restart \/ GiveUp
    BY <2>2 DEF Restart, GiveUp, Promise!Next, Promise!Stop
  <2>3. CASE RecordTrail
    BY <2>3, RecordKeepsPromise
  <2> QED
    BY <2>1, <2>2, <2>3, OthersStutter
<1> QED
  BY <1>1, <1>2, Inductive, PTL DEF Spec, ImplementsHotReload, Promise!Spec

-----------------------------------------------------------------------------
(* The trail *)

\* An attempt about to update /healthz has its line at the end of the trail.
LineBeforeHealth ==
  pc = "health" /\ ~swallowed =>
    trail # <<>> /\ trail[Len(trail)].outcome = outcome

TrailInv == LineBeforeHealth /\ LastLoadedLineDecides /\ HealthBehindTrail

(* What appending the line of the attempt does to the trail. *)
LEMMA AppendedLine ==
  ASSUME TypeOK, trail' = LongerTrail
  PROVE  /\ Len(trail) \in Nat
         /\ Len(trail') = Len(trail) + 1
         /\ trail'[Len(trail) + 1] = AttemptLine
         /\ \A i \in 1..Len(trail) : trail'[i] = trail[i]
  BY DEF TypeOK, LongerTrail

(* Recording an attempt keeps the three; it is the only step that writes the trail. *)
LEMMA RecordKeepsTrail ==
  ASSUME TypeOK, Control, TrailInv, RecordTrail
  PROVE  TrailInv'
<1>1. /\ pc = "trail" /\ pc' \in {"health", "watch"}
      /\ UNCHANGED <<active, outcome, lastReload>>
  BY DEF RecordTrail
<1>2. CASE TrailFails /\ swallowed' = TRUE /\ UNCHANGED trail
  BY <1>2 DEF TrailInv, LineBeforeHealth, LastLoadedLineDecides, HealthBehindTrail
<1>3. CASE trail' = LongerTrail /\ UNCHANGED swallowed
  <2>1. AttemptLine.outcome = outcome
    BY DEF AttemptLine
  <2>2. LineBeforeHealth'
    BY <1>1, <1>3, <2>1, AppendedLine DEF LineBeforeHealth
  <2>3. HealthBehindTrail'
    <3>1. SUFFICES ASSUME lastReload # "none", ~swallowed PROVE HealthBehindTrail'
      BY <1>1, <1>3 DEF HealthBehindTrail
    <3>2. Len(trail) \in DOMAIN trail /\ trail[Len(trail)].outcome = lastReload
      BY <1>1, <3>1 DEF TrailInv, HealthBehindTrail, TypeOK
    <3>3. watching => pc' = "health"
      BY DEF RecordTrail
    <3> QED
      BY <1>1, <1>3, <3>1, <3>2, <3>3, AppendedLine DEF HealthBehindTrail, Control
  <2>4. LastLoadedLineDecides'
    <3>1. CASE outcome = "loaded"
      <4>1. AttemptLine = [gen |-> active.gen, outcome |-> "loaded", hash |-> active.hash]
        BY <3>1 DEF AttemptLine
      <4> QED
        BY <1>1, <1>3, <4>1, AppendedLine DEF LastLoadedLineDecides
    <3>2. CASE outcome # "loaded"
      BY <1>1, <1>3, <2>1, <3>2, AppendedLine DEF TrailInv, LastLoadedLineDecides
    <3> QED
      BY <3>1, <3>2
  <2> QED
    BY <2>2, <2>3, <2>4 DEF TrailInv
<1> QED
  BY <1>2, <1>3 DEF RecordTrail

(* Nothing else a step does disturbs them. *)
LEMMA StepTrail ==
  ASSUME TypeOK, Control, TrailInv, [Next]_vars
  PROVE  TrailInv'
<1> USE DEF TrailInv, LineBeforeHealth, LastLoadedLineDecides, HealthBehindTrail,
            envVars, loadVars, logVars, historyVars
<1>1. CASE RecordTrail
  BY <1>1, RecordKeepsTrail
<1>2. CASE RecordHealth
  BY <1>2 DEF RecordHealth, TypeOK
<1>3. CASE Adopt
  BY <1>3 DEF Adopt, Report
<1>4. CASE Recheck \/ ListFails \/ CheckFails \/ \E f \in Files : ReadFails(f)
  BY <1>4, RecheckSteps DEF ListFails, CheckFails, ReadFails, Refuse, Report
<1>5. CASE List \/ \E f \in Files : ReadEntry(f)
  BY <1>5 DEF List, ReadEntry
<1>6. CASE StartWatch \/ Receive \/ Drain \/ EndDrain
  BY <1>6 DEF StartWatch, Receive, Drain, EndDrain
<1>7. CASE \/ \E f \in Files, t \in Text \cup {Absent} : Edit(f, t)
           \/ Touch \/ WatchError
           \/ \E what \in Loosenable : Chmod(what)
           \/ \E c \in Contents : Swap(c)
  BY <1>7, DirectoryApart
<1>8. CASE Restart \/ GiveUp
  BY <1>8 DEF Restart, GiveUp, Control
<1>9. CASE UNCHANGED vars
  BY <1>9 DEF vars
<1> QED
  BY <1>1, <1>2, <1>3, <1>4, <1>5, <1>6, <1>7, <1>8, <1>9
  DEF Next, Thread, Load, Outside

(* The trail and what it accounts for stay in step. *)
LEMMA TrailInductive == Spec => []TrailInv
<1>1. Init => TrailInv
  BY DEF Init, TrailInv, LineBeforeHealth, LastLoadedLineDecides, HealthBehindTrail
<1>2. IInv /\ TrailInv /\ [Next]_vars => TrailInv'
  BY StepTrail DEF IInv
<1> QED
  BY <1>1, <1>2, Inductive, PTL DEF Spec

(* Between attempts the last "loaded" line names the set in force. *)
THEOREM TrailNamesSet == Spec => []LastLoadedLineDecides
<1>1. TrailInv => LastLoadedLineDecides
  BY DEF TrailInv
<1> QED
  BY <1>1, TrailInductive, PTL

(* /healthz never runs ahead of the trail. *)
THEOREM HealthNotAhead == Spec => []HealthBehindTrail
<1>1. TrailInv => HealthBehindTrail
  BY DEF TrailInv
<1> QED
  BY <1>1, TrailInductive, PTL

-----------------------------------------------------------------------------
(* The requests and the loading thread *)

(* A request only reads what the loading thread keeps. *)
LEMMA HandleReadsOnly ==
  ASSUME NEW r \in Requests, Handle(r)
  PROVE  UNCHANGED vars /\ UNCHANGED kind
  BY DEF Handle, Arrive, Gate, Guard, ReadBody, Disconnect, Evaluate, Record, Answer,
         ReadSnapshot, ReadReload

(* The loading thread does not end the process. *)
LEMMA ThreadLives ==
  ASSUME Thread
  PROVE  UNCHANGED crashes
<1> USE DEF envVars, loadVars, logVars, historyVars
<1>1. CASE Load
  BY <1>1, RecheckSteps DEF Load, List, ListFails, CheckFails, ReadEntry, ReadFails, Adopt
<1>2. CASE RecordTrail \/ RecordHealth \/ StartWatch \/ GiveUp \/ Receive \/ Drain \/ EndDrain
  BY <1>2 DEF RecordTrail, RecordHealth, StartWatch, GiveUp, Receive, Drain, EndDrain
<1> QED
  BY <1>1, <1>2 DEF Thread

(* A reload is a step of PolicyReload in which the process lives. *)
LEMMA ReloadIsNext ==
  ASSUME TypeOK, Reload
  PROVE  Next /\ ~Restart
<1>1. crashes' = crashes /\ Next
  BY ThreadLives DEF Reload, Next
<1>2. ~Restart
  BY <1>1 DEF Restart, TypeOK
<1> QED
  BY <1>1, <1>2

(* Every step of the daemon is one of PolicyReload or invisible to it. *)
LEMMA StepIsReload ==
  ASSUME [PdpNext]_pdpVars
  PROVE  [Next]_vars
<1>1. CASE Reload
  BY <1>1 DEF Reload, Next
<1>2. CASE Crash
  BY <1>2 DEF Crash, Next, Outside
<1>3. CASE \E r \in Requests : Handle(r)
  BY <1>3, HandleReadsOnly
<1>4. CASE UNCHANGED pdpVars
  BY <1>4 DEF pdpVars
<1> QED
  BY <1>1, <1>2, <1>3, <1>4 DEF PdpNext

(* The daemon is a PolicyReload with requests. *)
LEMMA IsPolicyReload == PdpSpec => Spec
<1>1. PdpInit => Init
  BY DEF PdpInit
<1>2. [PdpNext]_pdpVars => [Next]_vars
  BY StepIsReload
<1> QED
  BY <1>1, <1>2, PTL DEF PdpSpec, Spec

-----------------------------------------------------------------------------
(* What the loading thread offers the requests *)

\* A set that decides has passed every guard of the loader.
SetInForceUsable == active # Nothing => active.set \in Usable

\* The bootstrap is generation 1, a reload never is.
GenerationOfLife ==
  /\ active # Nothing => active.gen # 0
  /\ active # Nothing /\ ~watching => active.gen = 1
  /\ active # Nothing /\ outcome = "loaded" /\ watching /\ pc \in {"trail", "health"} =>
       active.gen # 1
  /\ ~watching /\ pc \in {"trail", "watch"} => outcome = "loaded"

\* While every line arrives: the last one is of the attempt in hand until it is told,
\* and of the attempt that last_reload speaks of from then on.
LastLineTells ==
  /\ ~swallowed /\ pc \in {"health", "watch"} =>
       /\ trail # <<>>
       /\ trail[Len(trail)].gen = active.gen
       /\ trail[Len(trail)].outcome = outcome
  /\ ~swallowed /\ watching /\ pc # "health" /\ ~AboutToRecordLoad =>
       /\ trail # <<>>
       /\ trail[Len(trail)].gen = active.gen
       /\ lastReload = IF trail[Len(trail)].gen = 1 /\ trail[Len(trail)].outcome = "loaded"
                       THEN "none" ELSE trail[Len(trail)].outcome

ThreadInv == SetInForceUsable /\ GenerationOfLife /\ LastLineTells

(* Adopting is what makes a set that last_reload does not speak of, and it is seen: the
   set it puts in force is not the one before. *)
LEMMA AdoptedIsNew ==
  ASSUME TypeOK, Adopt
  PROVE  /\ active' \in Loaded /\ active' # Nothing /\ active' # active
         /\ active'.gen = NextGen /\ active'.set = read /\ read \in Usable
<1>1. active' = LoadedSet /\ active' \in Loaded /\ active' # Nothing
  BY LoadedSetType, NothingAssumption DEF Adopt
<1>2. active'.gen = NextGen /\ active'.set = read /\ read \in Usable
  BY <1>1 DEF LoadedSet, Adopt
<1>3. active # Nothing => active.gen \in Nat
  BY DEF TypeOK, Loaded
<1>4. active' # active
  BY <1>1, <1>2, <1>3 DEF NextGen
<1> QED
  BY <1>1, <1>2, <1>4

(* No step puts an unusable set in force, or gives a reload the first generation. *)
LEMMA StepGeneration ==
  ASSUME TypeOK, Control, SetInForceUsable, GenerationOfLife, [Next]_vars
  PROVE  SetInForceUsable' /\ GenerationOfLife'
<1> USE DEF SetInForceUsable, GenerationOfLife, envVars, loadVars, logVars, historyVars
<1>1. CASE Adopt
  <2>1. /\ pc = "read" /\ UNCHANGED watching /\ outcome' = "loaded"
        /\ active = Nothing => active'.gen = 1
        /\ active # Nothing => active.gen \in Nat /\ active'.gen = active.gen + 1
    BY <1>1, AdoptedIsNew DEF Adopt, Report, NextGen, TypeOK, Loaded
  <2> QED
    BY <1>1, <2>1, AdoptedIsNew DEF Control
<1>2. CASE Restart \/ GiveUp
  BY <1>2 DEF Restart, GiveUp
<1>3. CASE Recheck \/ ListFails \/ CheckFails \/ \E f \in Files : ReadFails(f)
  BY <1>3, RecheckSteps DEF ListFails, CheckFails, ReadFails, Refuse, Report
<1>4. CASE List \/ \E f \in Files : ReadEntry(f)
  BY <1>4 DEF List, ReadEntry
<1>5. CASE RecordTrail \/ RecordHealth
  BY <1>5 DEF RecordTrail, RecordHealth
<1>6. CASE StartWatch \/ Receive \/ Drain \/ EndDrain
  BY <1>6 DEF StartWatch, Receive, Drain, EndDrain
<1>7. CASE \/ \E f \in Files, t \in Text \cup {Absent} : Edit(f, t)
           \/ Touch \/ WatchError
           \/ \E what \in Loosenable : Chmod(what)
           \/ \E c \in Contents : Swap(c)
  BY <1>7, DirectoryApart
<1>8. CASE UNCHANGED vars
  BY <1>8 DEF vars
<1> QED
  BY <1>1, <1>2, <1>3, <1>4, <1>5, <1>6, <1>7, <1>8 DEF Next, Thread, Load, Outside

(* Trail and last_reload go on telling of the same attempt. *)
LEMMA StepTells ==
  ASSUME TypeOK, Control, GenerationOfLife, LastLineTells, [Next]_vars
  PROVE  LastLineTells'
<1> USE DEF LastLineTells, AboutToRecordLoad, envVars, loadVars, logVars, historyVars
<1>1. CASE Adopt
  BY <1>1 DEF Adopt, Report
<1>2. CASE Restart \/ GiveUp
  BY <1>2 DEF Restart, GiveUp
<1>3. CASE Recheck \/ ListFails \/ CheckFails \/ \E f \in Files : ReadFails(f)
  BY <1>3, RecheckSteps DEF ListFails, CheckFails, ReadFails, Refuse, Report
<1>4. CASE List \/ \E f \in Files : ReadEntry(f)
  BY <1>4 DEF List, ReadEntry
<1>5. CASE RecordTrail
  <2>1. /\ pc' \in {"health", "watch"} /\ UNCHANGED <<active, outcome, watching>>
        /\ watching => pc' = "health"
    BY <1>5 DEF RecordTrail
  <2>2. CASE swallowed' = TRUE
    BY <2>1, <2>2
  <2>3. CASE trail' = LongerTrail
    <3>1. trail' # <<>> /\ trail'[Len(trail')] = AttemptLine
      BY <2>3, AppendedLine DEF TypeOK, LongerTrail
    <3> QED
      BY <2>1, <3>1 DEF AttemptLine
  <2> QED
    BY <1>5, <2>2, <2>3 DEF RecordTrail
<1>6. CASE RecordHealth
  <2>1. /\ pc = "health" /\ pc' = "recv" /\ lastReload' = outcome
        /\ UNCHANGED <<active, outcome, watching, trail, swallowed>>
    BY <1>6 DEF RecordHealth
  <2>2. watching /\ active # Nothing /\ outcome \in Outcomes
    BY <2>1 DEF Control
  <2>3. outcome = "loaded" => active.gen # 1
    BY <2>1, <2>2 DEF GenerationOfLife
  <2> QED
    BY <2>1, <2>2, <2>3
<1>7. CASE StartWatch
  <2>1. /\ pc = "watch" /\ pc' = "recv"
        /\ UNCHANGED <<active, outcome, trail, swallowed, lastReload>>
    BY <1>7 DEF StartWatch
  <2>2. ~watching /\ active # Nothing /\ lastReload = "none"
    BY <2>1 DEF Control
  <2>3. outcome = "loaded" /\ active.gen = 1
    BY <2>1, <2>2 DEF GenerationOfLife
  <2> QED
    BY <2>1, <2>2, <2>3
<1>8. CASE Receive \/ Drain \/ EndDrain
  BY <1>8 DEF Receive, Drain, EndDrain, Control
<1>9. CASE \/ \E f \in Files, t \in Text \cup {Absent} : Edit(f, t)
           \/ Touch \/ WatchError
           \/ \E what \in Loosenable : Chmod(what)
           \/ \E c \in Contents : Swap(c)
  BY <1>9, DirectoryApart
<1>10. CASE UNCHANGED vars
  BY <1>10 DEF vars
<1> QED
  BY <1>1, <1>2, <1>3, <1>4, <1>5, <1>6, <1>7, <1>8, <1>9, <1>10
  DEF Next, Thread, Load, Outside

(* What the thread offers the requests, it offers in every state. *)
LEMMA ThreadInductive == Spec => []ThreadInv
<1>1. Init => ThreadInv
  BY NothingAssumption
  DEF Init, ThreadInv, SetInForceUsable, GenerationOfLife, LastLineTells
<1>2. IInv /\ ThreadInv /\ [Next]_vars => ThreadInv'
  BY StepGeneration, StepTells DEF ThreadInv, IInv
<1> QED
  BY <1>1, <1>2, Inductive, PTL DEF Spec

\* An idle watcher has told what the last attempt came to; there may have been no reload yet.
OutcomeTold ==
  pc = "recv" => lastReload = outcome \/ (lastReload = "none" /\ outcome = "loaded")

(* It told on its way back to rx.recv, and only errors are received there. *)
LEMMA StepTold ==
  ASSUME Control, GenerationOfLife, OutcomeTold, [Next]_vars
  PROVE  OutcomeTold'
<1> USE DEF OutcomeTold, envVars, loadVars, logVars, historyVars
<1>1. CASE Recheck \/ ListFails \/ CheckFails \/ \E f \in Files : ReadFails(f)
  BY <1>1, RecheckSteps DEF ListFails, CheckFails, ReadFails, Refuse, Report
<1>2. CASE List \/ Adopt \/ \E f \in Files : ReadEntry(f)
  BY <1>2 DEF List, Adopt, ReadEntry, Report
<1>3. CASE RecordTrail \/ RecordHealth
  BY <1>3 DEF RecordTrail, RecordHealth
<1>4. CASE StartWatch
  <2>1. pc = "watch" /\ UNCHANGED <<outcome, lastReload>>
    BY <1>4 DEF StartWatch
  <2>2. lastReload = "none" /\ outcome = "loaded"
    BY <2>1 DEF Control, GenerationOfLife
  <2> QED
    BY <2>1, <2>2
<1>5. CASE Receive \/ Drain \/ EndDrain \/ GiveUp
  BY <1>5 DEF Receive, Drain, EndDrain, GiveUp
<1>6. CASE \/ \E f \in Files, t \in Text \cup {Absent} : Edit(f, t)
           \/ Touch \/ WatchError
           \/ \E what \in Loosenable : Chmod(what)
           \/ \E c \in Contents : Swap(c)
  BY <1>6, DirectoryApart
<1>7. CASE Restart
  BY <1>7 DEF Restart
<1>8. CASE UNCHANGED vars
  BY <1>8 DEF vars
<1> QED
  BY <1>1, <1>2, <1>3, <1>4, <1>5, <1>6, <1>7, <1>8 DEF Next, Thread, Load, Outside

(* When an idle watcher leaves another set deciding than the one that is there, /healthz
   says that the last attempt was refused or failed. *)
THEOREM StaleTold == Spec => []StaleIsTold
<1>1. Init => OutcomeTold
  BY DEF Init, OutcomeTold
<1>2. IInv /\ ThreadInv /\ OutcomeTold /\ [Next]_vars => OutcomeTold'
  BY StepTold DEF IInv, ThreadInv
<1>3. IInv /\ OutcomeTold => StaleIsTold
  BY DEF IInv, OutcomeTold, StaleIsTold, AttemptMatches, Settled, Agrees, Outcomes
<1> QED
  BY <1>1, <1>2, <1>3, Inductive, ThreadInductive, PTL DEF Spec

(* AboutToRecordLoad and Untold begin with a new set only, and the first ends with the
   set's line. *)
LEMMA SwapIsSeen ==
  ASSUME TypeOK, [Next]_vars, ~Restart
  PROVE  /\ Untold' => Untold \/ active' # active
         /\ AboutToRecordLoad /\ ~AboutToRecordLoad' => RecordTrail \/ GiveUp
         /\ AboutToRecordLoad' => AboutToRecordLoad \/ Adopt
<1> USE DEF Untold, AboutToRecordLoad, envVars, loadVars, logVars, historyVars
<1>1. CASE Adopt
  BY <1>1, AdoptedIsNew DEF Adopt, Report
<1>2. CASE GiveUp
  BY <1>2 DEF GiveUp
<1>3. CASE Recheck \/ ListFails \/ CheckFails \/ \E f \in Files : ReadFails(f)
  BY <1>3, RecheckSteps DEF ListFails, CheckFails, ReadFails, Refuse, Report
<1>4. CASE List \/ \E f \in Files : ReadEntry(f)
  BY <1>4 DEF List, ReadEntry
<1>5. CASE RecordTrail \/ RecordHealth
  BY <1>5 DEF RecordTrail, RecordHealth
<1>6. CASE StartWatch \/ Receive \/ Drain \/ EndDrain
  BY <1>6 DEF StartWatch, Receive, Drain, EndDrain
<1>7. CASE \/ \E f \in Files, t \in Text \cup {Absent} : Edit(f, t)
           \/ Touch \/ WatchError
           \/ \E what \in Loosenable : Chmod(what)
           \/ \E c \in Contents : Swap(c)
  BY <1>7, DirectoryApart
<1>8. CASE UNCHANGED vars
  BY <1>8 DEF vars
<1> QED
  BY <1>1, <1>2, <1>3, <1>4, <1>5, <1>6, <1>7, <1>8 DEF Next, Thread, Load, Outside

(* Only recording an attempt writes the trail, or loses a line of it. *)
LEMMA OnlyRecordingWrites ==
  ASSUME [Next]_vars, ~Restart
  PROVE  /\ RecordTrail \/ (trail' = trail /\ swallowed' = swallowed)
         /\ trail' = trail \/ (RecordTrail /\ trail' = LongerTrail /\ UNCHANGED swallowed)
         /\ watching => watching'
<1> USE DEF envVars, loadVars, logVars, historyVars
<1>1. CASE Recheck \/ ListFails \/ CheckFails \/ \E f \in Files : ReadFails(f)
  BY <1>1, RecheckSteps DEF ListFails, CheckFails, ReadFails
<1>2. CASE List \/ Adopt \/ \E f \in Files : ReadEntry(f)
  BY <1>2 DEF List, Adopt, ReadEntry
<1>3. CASE RecordTrail
  BY <1>3 DEF RecordTrail
<1>4. CASE RecordHealth \/ GiveUp \/ StartWatch \/ Receive \/ Drain \/ EndDrain
  BY <1>4 DEF RecordHealth, GiveUp, StartWatch, Receive, Drain, EndDrain
<1>5. CASE \/ \E f \in Files, t \in Text \cup {Absent} : Edit(f, t)
           \/ Touch \/ WatchError
           \/ \E what \in Loosenable : Chmod(what)
           \/ \E c \in Contents : Swap(c)
  BY <1>5, DirectoryApart
<1>6. CASE UNCHANGED vars
  BY <1>6 DEF vars
<1> QED
  BY <1>1, <1>2, <1>3, <1>4, <1>5, <1>6 DEF Next, Thread, Load, Outside

-----------------------------------------------------------------------------
(* Types *)

(* The last line of a trail that has just grown is the line of the attempt in hand. *)
LEMMA GrownByAttempt ==
  ASSUME TypeOK, Control, Reload, trail' # trail
  PROVE  /\ RecordTrail /\ UNCHANGED <<active, outcome, swallowed>>
         /\ trail'[Len(trail')] = AttemptLine /\ AttemptLine \in Line
<1>1. RecordTrail /\ trail' = LongerTrail /\ UNCHANGED swallowed
  BY ReloadIsNext, OnlyRecordingWrites
<1>2. pc = "trail" /\ UNCHANGED <<active, outcome>>
  BY <1>1 DEF RecordTrail
<1>3. active # Nothing /\ outcome \in Outcomes
  BY <1>2 DEF Control
<1> QED
  BY <1>1, <1>2, <1>3, AppendedLine, AttemptLineType

(* What a step of the loading thread adds to the log is nothing or a policy-set line. *)
LEMMA ReloadLogs ==
  ASSUME TypeOK, Control, Reload
  PROVE  \/ log' = log /\ trail' = trail
         \/ \E e \in PolicyLine :
              /\ log' = Append(log, e) /\ e.line = AttemptLine
              /\ RecordTrail /\ UNCHANGED <<active, outcome, swallowed>>
<1>1. CASE trail' = trail
  BY <1>1 DEF Reload
<1>2. CASE trail' # trail
  <2> DEFINE e == [kind |-> "policy-set", line |-> AttemptLine]
  <2>1. e \in PolicyLine /\ e.line = AttemptLine
    BY <1>2, GrownByAttempt DEF PolicyLine
  <2>2. log' = Append(log, e)
    BY <1>2, GrownByAttempt DEF Reload
  <2> QED
    BY <1>2, <2>1, <2>2, GrownByAttempt
<1> QED
  BY <1>1, <1>2

(* The daemon starts well typed. *)
LEMMA PdpInitTypes ==
  ASSUME PdpInit
  PROVE  PdpTypeOK
<1>1. TypeOK
  BY InitTypes DEF PdpInit
<1>2. /\ at \in [Requests -> Places]
      /\ counted \in [Requests -> Loaded \cup {Nothing}]
      /\ by \in [Requests -> Loaded \cup {Nothing}]
  BY DEF PdpInit, Places
<1>3. /\ status \in [Requests -> {"none", "200", "4xx", "503"}]
      /\ current \in [Requests -> SUBSET (Loaded \cup {Nothing})]
      /\ raced \in [Requests -> BOOLEAN] /\ lost \in [Requests -> BOOLEAN]
  BY DEF PdpInit
<1>4. log \in Seq(PolicyLine \cup DecisionLine) /\ kind \in [Requests -> Kinds]
  BY DEF PdpInit
<1> QED
  BY <1>1, <1>2, <1>3, <1>4 DEF PdpTypeOK

(* A handler keeps the types. *)
LEMMA HandleTypes ==
  ASSUME PdpTypeOK, NEW r \in Requests, Handle(r)
  PROVE  PdpTypeOK'
<1>1. UNCHANGED vars /\ TypeOK /\ active \in Loaded \cup {Nothing}
  BY HandleReadsOnly DEF PdpTypeOK, TypeOK
<1>2. TypeOK'
  BY <1>1 DEF TypeOK, vars, envVars, loadVars, logVars, historyVars
<1>3. at' \in [Requests -> Places]
  <2>1. PICK p \in Places : at' = [at EXCEPT ![r] = p]
    BY Zenon DEF Handle, Arrive, Gate, Guard, ReadBody, Disconnect, Evaluate, Record, Answer,
       ReadSnapshot, ReadReload, Goes, Places
  <2> QED
    BY <2>1 DEF PdpTypeOK
<1>4. counted' \in [Requests -> Loaded \cup {Nothing}]
  BY <1>1 DEF PdpTypeOK, Handle, Arrive, Gate, Guard, ReadBody, Disconnect, Evaluate,
     Record, Answer, ReadSnapshot, ReadReload
<1>5. by' \in [Requests -> Loaded \cup {Nothing}]
  BY <1>1 DEF PdpTypeOK, Handle, Arrive, Gate, Guard, ReadBody, Disconnect, Evaluate,
     Record, Answer, ReadSnapshot, ReadReload, Consulted
<1>6. status' \in [Requests -> {"none", "200", "4xx", "503"}]
  BY DEF PdpTypeOK, Handle, Arrive, Gate, Guard, ReadBody, Disconnect, Evaluate,
     Record, Answer, ReadSnapshot, ReadReload, Answers
<1>7. current' \in [Requests -> SUBSET (Loaded \cup {Nothing})]
  BY <1>1 DEF PdpTypeOK, Handle, Arrive, Gate, Guard, ReadBody, Disconnect, Evaluate,
     Record, Answer, ReadSnapshot, ReadReload
<1>8. raced' \in [Requests -> BOOLEAN]
  <2>1. swallowed \in BOOLEAN
    BY <1>1 DEF TypeOK
  <2>2. \/ raced' = raced
        \/ raced' = [raced EXCEPT ![r] = swallowed \/ AboutToRecordLoad]
        \/ raced' = [raced EXCEPT ![r] = Untold]
    BY Zenon DEF Handle, Arrive, Gate, Guard, ReadBody, Disconnect, Evaluate, Record,
       Answer, ReadSnapshot, ReadReload
  <2>3. (swallowed \/ AboutToRecordLoad) \in BOOLEAN /\ Untold \in BOOLEAN
    BY <2>1, Zenon DEF AboutToRecordLoad, Untold
  <2> QED
    BY <2>2, <2>3 DEF PdpTypeOK
<1>9. lost' \in [Requests -> BOOLEAN]
  BY DEF PdpTypeOK, Handle, Arrive, Gate, Guard, ReadBody, Disconnect, Evaluate,
     Record, Answer, ReadSnapshot, ReadReload
<1>10. log' \in Seq(PolicyLine \cup DecisionLine)
  <2>1. log' = log \/ log' = Recorded(r)
    BY Zenon DEF Handle, Arrive, Gate, Guard, ReadBody, Disconnect, Evaluate, Record,
       Answer, ReadSnapshot, ReadReload
  <2>2. \E e \in DecisionLine : Recorded(r) = Append(log, e)
    <3> DEFINE e == [kind |-> "decision", request |-> r, by |-> by[r]]
    <3>1. e \in DecisionLine
      BY DEF DecisionLine, PdpTypeOK
    <3> QED
      BY <3>1, Zenon DEF Recorded
  <2>3. log \in Seq(PolicyLine \cup DecisionLine)
    BY DEF PdpTypeOK
  <2> QED
    BY <2>1, <2>2, <2>3
<1>11. kind' \in [Requests -> Kinds]
  BY HandleReadsOnly DEF PdpTypeOK
<1> QED
  BY <1>2, <1>3, <1>4, <1>5, <1>6, <1>7, <1>8, <1>9, <1>10, <1>11 DEF PdpTypeOK

(* So does every step of the daemon. *)
LEMMA PdpStepTypes ==
  ASSUME PdpTypeOK, Control, [PdpNext]_pdpVars
  PROVE  PdpTypeOK'
<1>1. TypeOK'
  BY StepIsReload, StepTypes DEF PdpTypeOK
<1>2. CASE Reload
  <2>1. /\ UNCHANGED <<at, kind, counted, by, status, lost>>
        /\ current' = [r \in Requests |->
                         IF at[r] = "evaluate" THEN current[r] \cup {active'} ELSE current[r]]
    BY <1>2 DEF Reload
  <2>2. current' \in [Requests -> SUBSET (Loaded \cup {Nothing})]
    BY <1>1, <2>1 DEF PdpTypeOK, TypeOK
  <2>3. raced' \in [Requests -> BOOLEAN]
    BY <1>2 DEF Reload, PdpTypeOK
  <2>4. log' \in Seq(PolicyLine \cup DecisionLine)
    BY <1>2, ReloadLogs DEF PdpTypeOK
  <2> QED
    BY <1>1, <2>1, <2>2, <2>3, <2>4 DEF PdpTypeOK
<1>3. CASE Crash
  BY <1>1, <1>3 DEF Crash, PdpTypeOK, Places
<1>4. CASE UNCHANGED pdpVars
  BY <1>1, <1>4 DEF PdpTypeOK, pdpVars, requestVars
<1> QED
  BY <1>2, <1>3, <1>4, HandleTypes DEF PdpNext

-----------------------------------------------------------------------------
(* Lines of the log *)

LoadedLine(e) == e.kind = "policy-set" /\ e.line.outcome = "loaded"

LineFor(e, r) == e.kind = "decision" /\ e.request = r

LinesIn(l, r) == {i \in 1..Len(l) : LineFor(l[i], r)}

\* The last loaded line is of that set.
NamesLast(l, set) ==
  \E i \in 1..Len(l) :
    /\ LoadedLine(l[i]) /\ l[i].line.gen = set.gen /\ l[i].line.hash = set.hash
    /\ \A k \in (i + 1)..Len(l) : ~LoadedLine(l[k])

\* The last loaded line before line j is of the set that line j holds responsible.
NamedAt(l, j) ==
  \E i \in 1..Len(l) :
    /\ i < j /\ LoadedLine(l[i])
    /\ \A k \in (i + 1)..(j - 1) : ~LoadedLine(l[k])
    /\ l[i].line.gen = l[j].by.gen /\ l[i].line.hash = l[j].by.hash

(* The operators of Pdp, of the log as it is and as a step leaves it. *)
LEMMA OfTheLog ==
  /\ \A r : LinesOf(r) = LinesIn(log, r) /\ LinesOf(r)' = LinesIn(log', r)
  /\ \A j : NamedRightly(j) <=> NamedAt(log, j)
  /\ \A j : NamedRightly(j)' <=> NamedAt(log', j)
  BY DEF LinesOf, LinesIn, LineFor, NamedRightly, NamedAt, NamesSetAt, IsLoadedLine, LoadedLine

(* What an append does to a sequence. *)
LEMMA Appended ==
  ASSUME NEW S, NEW l \in Seq(S), NEW e \in S
  PROVE  /\ Len(l) \in Nat
         /\ Len(Append(l, e)) = Len(l) + 1
         /\ Append(l, e)[Len(l) + 1] = e
         /\ \A i \in 1..Len(l) : Append(l, e)[i] = l[i]
  OBVIOUS

(* A request's lines grow by its own line only. *)
LEMMA LinesGrow ==
  ASSUME NEW S, NEW l \in Seq(S), NEW e \in S, NEW r
  PROVE  /\ LineFor(e, r) => LinesIn(Append(l, e), r) = LinesIn(l, r) \cup {Len(l) + 1}
         /\ ~LineFor(e, r) => LinesIn(Append(l, e), r) = LinesIn(l, r)
<1> DEFINE m == Append(l, e)
<1>1. /\ Len(l) \in Nat /\ Len(m) = Len(l) + 1 /\ m[Len(l) + 1] = e
      /\ \A i \in 1..Len(l) : m[i] = l[i]
  BY Appended
<1> HIDE DEF m
<1>2. \A i \in 1..Len(m) : i \in LinesIn(m, r) <=> i \in LinesIn(l, r) \/ (i = Len(l) + 1 /\ LineFor(e, r))
  BY <1>1 DEF LinesIn
<1>3. LinesIn(m, r) \subseteq 1..Len(m) /\ LinesIn(l, r) \subseteq 1..Len(m)
      /\ Len(l) + 1 \in 1..Len(m)
  BY <1>1 DEF LinesIn
<1>4. /\ LineFor(e, r) => LinesIn(m, r) = LinesIn(l, r) \cup {Len(l) + 1}
      /\ ~LineFor(e, r) => LinesIn(m, r) = LinesIn(l, r)
  BY <1>2, <1>3
<1> QED
  BY <1>4 DEF m

(* The last loaded line stays the last one until another is appended. *)
LEMMA NamesLastGrows ==
  ASSUME NEW S, NEW l \in Seq(S), NEW e \in S, NEW set
  PROVE  /\ NamesLast(l, set) /\ ~LoadedLine(e) => NamesLast(Append(l, e), set)
         /\ LoadedLine(e) /\ e.line.gen = set.gen /\ e.line.hash = set.hash =>
              NamesLast(Append(l, e), set)
<1> DEFINE m == Append(l, e)
<1>1. /\ Len(l) \in Nat /\ Len(m) = Len(l) + 1 /\ m[Len(l) + 1] = e
      /\ \A i \in 1..Len(l) : m[i] = l[i]
  BY Appended
<1> HIDE DEF m
<1>2. ASSUME NamesLast(l, set), ~LoadedLine(e) PROVE NamesLast(m, set)
  <2>1. PICK i \in 1..Len(l) :
          /\ LoadedLine(l[i]) /\ l[i].line.gen = set.gen /\ l[i].line.hash = set.hash
          /\ \A k \in (i + 1)..Len(l) : ~LoadedLine(l[k])
    BY <1>2 DEF NamesLast
  <2>2. \A k \in (i + 1)..Len(m) : ~LoadedLine(m[k])
    BY <1>1, <1>2, <2>1
  <2>3. i \in 1..Len(m) /\ m[i] = l[i]
    BY <1>1
  <2> QED
    BY <2>1, <2>2, <2>3 DEF NamesLast
<1>3. ASSUME LoadedLine(e), e.line.gen = set.gen, e.line.hash = set.hash
      PROVE  NamesLast(m, set)
  <2>1. Len(m) \in 1..Len(m) /\ m[Len(m)] = e /\ (Len(m) + 1)..Len(m) = {}
    BY <1>1
  <2> QED
    BY <1>3, <2>1 DEF NamesLast
<1> QED
  BY <1>2, <1>3 DEF m

(* A line that was right stays right, and one that is appended while the last loaded
   line is of its set is right. *)
LEMMA NamedGrows ==
  ASSUME NEW S, NEW l \in Seq(S), NEW e \in S
  PROVE  /\ \A j \in 1..Len(l) : NamedAt(l, j) => NamedAt(Append(l, e), j)
         /\ NamesLast(l, e.by) => NamedAt(Append(l, e), Len(l) + 1)
<1> DEFINE m == Append(l, e)
<1>1. /\ Len(l) \in Nat /\ Len(m) = Len(l) + 1 /\ m[Len(l) + 1] = e
      /\ \A i \in 1..Len(l) : m[i] = l[i]
  BY Appended
<1> HIDE DEF m
<1>2. ASSUME NEW j \in 1..Len(l), NamedAt(l, j) PROVE NamedAt(m, j)
  <2>1. PICK i \in 1..Len(l) :
          /\ i < j /\ LoadedLine(l[i])
          /\ \A k \in (i + 1)..(j - 1) : ~LoadedLine(l[k])
          /\ l[i].line.gen = l[j].by.gen /\ l[i].line.hash = l[j].by.hash
    BY <1>2 DEF NamedAt
  <2>2. \A k \in (i + 1)..(j - 1) : m[k] = l[k]
    BY <1>1, <2>1
  <2>3. i \in 1..Len(m) /\ m[i] = l[i] /\ m[j] = l[j]
    BY <1>1
  <2> QED
    BY <2>1, <2>2, <2>3 DEF NamedAt
<1>3. ASSUME NamesLast(l, e.by) PROVE NamedAt(m, Len(l) + 1)
  <2>1. PICK i \in 1..Len(l) :
          /\ LoadedLine(l[i]) /\ l[i].line.gen = e.by.gen /\ l[i].line.hash = e.by.hash
          /\ \A k \in (i + 1)..Len(l) : ~LoadedLine(l[k])
    BY <1>3 DEF NamesLast
  <2>2. \A k \in (i + 1)..((Len(l) + 1) - 1) : ~LoadedLine(m[k])
    BY <1>1, <2>1
  <2>3. i \in 1..Len(m) /\ m[i] = l[i] /\ i < Len(l) + 1
    BY <1>1
  <2> QED
    BY <1>1, <2>1, <2>2, <2>3 DEF NamedAt
<1> QED
  BY <1>2, <1>3 DEF m

-----------------------------------------------------------------------------
(* One request *)

\* What a request is decides where it may come to.
Path(r) ==
  /\ kind[r] = "foreign" => at[r] \in {"none", "gate", "done", "gone"}
  /\ kind[r] = "health" => at[r] \in {"none", "snapshot", "reload", "done", "gone"}
  /\ at[r] \in {"snapshot", "reload"} => kind[r] = "health"
  /\ status[r] # "none" => at[r] = "done"
  /\ at[r] \notin {"record", "answer", "done", "gone"} => by[r] = Nothing

\* The listener is up no earlier than the watch.
Served(r) == InFlight(r) => watching

\* A poll holds a usable set, and unless a swap has overtaken it, the one that
\* last_reload speaks of.
PollKnows(r) ==
  at[r] = "reload" =>
    /\ counted[r].set \in Usable
    /\ ~raced[r] => counted[r] = active /\ ~Untold

\* What is in force while it waits is in its history, and what decides it is from there.
Deciding(r) ==
  /\ at[r] = "evaluate" => active \in current[r]
  /\ at[r] \in {"record", "answer"} /\ kind[r] = "query" => by[r] \in current[r]

\* A question has no line until it is recorded, and one from then on unless it was lost;
\* other requests have none.
OneLine(r) ==
  /\ at[r] \notin {"answer", "done", "gone"} \/ kind[r] \in {"foreign", "health"} =>
       LinesOf(r) = {}
  /\ (at[r] = "answer" \/ (status[r] = "200" /\ kind[r] # "health")) /\ ~lost[r] =>
       \E i \in LinesOf(r) : LinesOf(r) = {i}
  /\ LinesOf(r) # {} => status[r] \in {"none", "200"}

RequestInv(r) == Path(r) /\ Served(r) /\ PollKnows(r) /\ Deciding(r) /\ OneLine(r)

(* A handler works for its own request. *)
LEMMA OthersUntouched ==
  ASSUME PdpTypeOK, NEW r \in Requests, NEW q \in Requests, q # r, Handle(r)
  PROVE  /\ at'[q] = at[q] /\ counted'[q] = counted[q] /\ by'[q] = by[q]
         /\ status'[q] = status[q] /\ current'[q] = current[q]
         /\ raced'[q] = raced[q] /\ lost'[q] = lost[q]
  BY DEF PdpTypeOK, Handle, Arrive, Gate, Guard, ReadBody, Disconnect, Evaluate, Record,
     Answer, ReadSnapshot, ReadReload, Goes, Answers

(* What a handler adds to the log is nothing, or the line of the request it records. *)
LEMMA HandleLogs ==
  ASSUME PdpTypeOK, NEW r \in Requests, Handle(r)
  PROVE  \/ log' = log
         \/ /\ Record(r) /\ log' = Recorded(r)
            /\ \E e \in DecisionLine :
                 /\ log' = Append(log, e)
                 /\ e.kind = "decision" /\ e.request = r /\ e.by = by[r]
<1>1. log' = log \/ (Record(r) /\ log' = Recorded(r))
  BY Zenon DEF Handle, Arrive, Gate, Guard, ReadBody, Disconnect, Evaluate, Record,
     Answer, ReadSnapshot, ReadReload
<1> DEFINE e == [kind |-> "decision", request |-> r, by |-> by[r]]
<1>2. e \in DecisionLine /\ e.kind = "decision" /\ e.request = r /\ e.by = by[r]
  BY DEF DecisionLine, PdpTypeOK
<1>3. Recorded(r) = Append(log, e)
  BY Zenon DEF Recorded
<1> HIDE DEF e
<1> QED
  BY <1>1, <1>2, <1>3

(* The path of the request a handler works for. *)
LEMMA HandlePath ==
  ASSUME PdpTypeOK, NEW r \in Requests, Path(r), Served(r), Handle(r)
  PROVE  Path(r)' /\ Served(r)'
<1> USE DEF PdpTypeOK, Path, Served, InFlight, Goes, Answers
<1>1. UNCHANGED watching /\ UNCHANGED kind
  BY HandleReadsOnly DEF vars
<1>2. CASE Arrive(r)
  BY <1>1, <1>2 DEF Arrive
<1>3. CASE Gate(r) \/ Guard(r)
  BY <1>1, <1>3 DEF Gate, Guard
<1>4. CASE ReadBody(r) \/ Disconnect(r)
  BY <1>1, <1>4 DEF ReadBody, Disconnect
<1>5. CASE Evaluate(r)
  BY <1>1, <1>5 DEF Evaluate
<1>6. CASE Record(r) \/ Answer(r)
  BY <1>1, <1>6 DEF Record, Answer
<1>7. CASE ReadSnapshot(r) \/ ReadReload(r)
  BY <1>1, <1>7 DEF ReadSnapshot, ReadReload
<1> QED
  BY <1>2, <1>3, <1>4, <1>5, <1>6, <1>7 DEF Handle

(* What the request a handler works for knows of the set in force. *)
LEMMA HandleKnows ==
  ASSUME PdpTypeOK, Control, SetInForceUsable, NEW r \in Requests, Handle(r),
         Served(r), PollKnows(r), Deciding(r)
  PROVE  PollKnows(r)' /\ Deciding(r)'
<1> USE DEF PdpTypeOK, PollKnows, Deciding, Goes, Answers
<1>1. /\ UNCHANGED active /\ UNCHANGED kind
      /\ Untold' = Untold
  BY HandleReadsOnly DEF vars, Untold
<1>2. CASE Arrive(r) \/ Gate(r) \/ Guard(r)
  BY <1>1, <1>2 DEF Arrive, Gate, Guard
<1>3. CASE ReadBody(r) \/ Disconnect(r)
  BY <1>1, <1>3 DEF ReadBody, Disconnect
<1>4. CASE Evaluate(r)
  BY <1>1, <1>4 DEF Evaluate, Consulted
<1>5. CASE Record(r) \/ Answer(r) \/ ReadReload(r)
  BY <1>1, <1>5 DEF Record, Answer, ReadReload
<1>6. CASE ReadSnapshot(r)
  <2>1. active # Nothing
    BY <1>6 DEF ReadSnapshot, Served, InFlight, Control
  <2>2. /\ at'[r] = "reload" /\ counted'[r] = active /\ raced'[r] = Untold
    BY <1>6 DEF ReadSnapshot
  <2> QED
    BY <1>1, <2>1, <2>2 DEF SetInForceUsable
<1> QED
  BY <1>2, <1>3, <1>4, <1>5, <1>6 DEF Handle

(* The line of the request a handler works for. *)
LEMMA HandleLine ==
  ASSUME PdpTypeOK, NEW r \in Requests, Handle(r), Path(r), OneLine(r)
  PROVE  OneLine(r)'
<1> USE DEF PdpTypeOK, OneLine, Path, Goes, Answers
<1>1. kind' = kind
  BY HandleReadsOnly
<1>2. CASE Record(r)
  <2>1. /\ at[r] = "record" /\ at'[r] = "answer" /\ LinesOf(r) = {}
        /\ kind[r] \notin {"foreign", "health"} /\ status[r] = "none" /\ status' = status
    BY <1>2 DEF Record
  <2>2. CASE log' = log /\ lost'[r] = TRUE
    <3>1. LinesOf(r)' = {}
      BY <2>1, <2>2, OfTheLog
    <3> QED
      BY <1>1, <2>1, <2>2, <3>1
  <2>3. CASE log' = Recorded(r)
    <3> DEFINE e == [kind |-> "decision", request |-> r, by |-> by[r]]
    <3>1. e \in PolicyLine \cup DecisionLine /\ LineFor(e, r)
      BY DEF DecisionLine, LineFor
    <3>2. log' = Append(log, e)
      BY <2>3, Zenon DEF Recorded
    <3> HIDE DEF e
    <3>3. log \in Seq(PolicyLine \cup DecisionLine)
      OBVIOUS
    <3>4. LinesIn(Append(log, e), r) = LinesIn(log, r) \cup {Len(log) + 1}
      BY <3>1, <3>3, LinesGrow
    <3>5. LinesOf(r)' = {Len(log) + 1}
      BY <2>1, <3>2, <3>4, OfTheLog
    <3> QED
      BY <1>1, <2>1, <3>5
  <2> QED
    BY <1>2, <2>2, <2>3 DEF Record
<1>3. CASE ~Record(r)
  <2>1. LinesOf(r)' = LinesOf(r)
    BY <1>3, HandleLogs, OfTheLog
  <2>2. CASE Arrive(r) \/ Gate(r) \/ Guard(r)
    BY <1>1, <2>1, <2>2 DEF Arrive, Gate, Guard
  <2>3. CASE ReadBody(r) \/ Disconnect(r) \/ Evaluate(r)
    BY <1>1, <2>1, <2>3 DEF ReadBody, Disconnect, Evaluate
  <2>4. CASE Answer(r)
    BY <1>1, <2>1, <2>4 DEF Answer
  <2>5. CASE ReadSnapshot(r) \/ ReadReload(r)
    BY <1>1, <2>1, <2>5 DEF ReadSnapshot, ReadReload
  <2> QED
    BY <1>3, <2>2, <2>3, <2>4, <2>5 DEF Handle
<1> QED
  BY <1>2, <1>3

(* No handler disturbs another request. *)
LEMMA HandleSparesOthers ==
  ASSUME PdpTypeOK, NEW r \in Requests, NEW q \in Requests, q # r, Handle(r), RequestInv(q)
  PROVE  RequestInv(q)'
<1>1. /\ at'[q] = at[q] /\ counted'[q] = counted[q] /\ by'[q] = by[q]
      /\ status'[q] = status[q] /\ current'[q] = current[q]
      /\ raced'[q] = raced[q] /\ lost'[q] = lost[q]
  BY OthersUntouched
<1>2. UNCHANGED <<watching, active, kind>> /\ Untold' = Untold
  BY HandleReadsOnly DEF vars, Untold
<1>3. LinesOf(q)' = LinesOf(q)
  <2>1. CASE log' = log
    BY <2>1, OfTheLog
  <2>2. ASSUME NEW e \in DecisionLine, log' = Append(log, e), e.request = r
        PROVE  LinesOf(q)' = LinesOf(q)
    <3>1. log \in Seq(PolicyLine \cup DecisionLine) /\ e \in PolicyLine \cup DecisionLine
          /\ ~LineFor(e, q)
      BY <2>2 DEF PdpTypeOK, LineFor
    <3>2. LinesIn(Append(log, e), q) = LinesIn(log, q)
      BY <3>1, LinesGrow
    <3> QED
      BY <2>2, <3>2, OfTheLog
  <2> QED
    BY <2>1, <2>2, HandleLogs
<1>4. Path(q)' /\ Served(q)'
  BY <1>1, <1>2 DEF RequestInv, Path, Served, InFlight
<1>5. PollKnows(q)' /\ Deciding(q)'
  BY <1>1, <1>2 DEF RequestInv, PollKnows, Deciding
<1>6. OneLine(q)'
  BY <1>1, <1>2, <1>3 DEF RequestInv, OneLine
<1> QED
  BY <1>4, <1>5, <1>6 DEF RequestInv

(* Nor does the loading thread, whatever it swaps in meanwhile: what it does to a
   request's knowledge is in the request's history. *)
LEMMA ReloadSparesRequests ==
  ASSUME PdpTypeOK, Control, Reload, NEW q \in Requests, RequestInv(q)
  PROVE  RequestInv(q)'
<1>1. /\ UNCHANGED <<at, kind, counted, by, status, lost>>
      /\ current'[q] = IF at[q] = "evaluate" THEN current[q] \cup {active'} ELSE current[q]
      /\ at[q] = "reload" /\ ~raced'[q] => ~raced[q] /\ active' = active
  BY DEF Reload
<1>2. Next /\ ~Restart /\ TypeOK
  BY ReloadIsNext DEF PdpTypeOK
<1>3. Path(q)' /\ Served(q)'
  BY <1>1, <1>2, OnlyRecordingWrites DEF RequestInv, Path, Served, InFlight
<1>4. PollKnows(q)'
  BY <1>1, <1>2, SwapIsSeen DEF RequestInv, PollKnows
<1>5. Deciding(q)'
  BY <1>1 DEF RequestInv, Deciding
<1>6. LinesOf(q)' = LinesOf(q)
  <2>1. CASE log' = log
    BY <2>1, OfTheLog
  <2>2. ASSUME NEW e \in PolicyLine, log' = Append(log, e)
        PROVE  LinesOf(q)' = LinesOf(q)
    <3>1. log \in Seq(PolicyLine \cup DecisionLine) /\ e \in PolicyLine \cup DecisionLine
          /\ ~LineFor(e, q)
      BY DEF PdpTypeOK, LineFor, PolicyLine
    <3>2. LinesIn(Append(log, e), q) = LinesIn(log, q)
      BY <3>1, LinesGrow
    <3> QED
      BY <2>2, <3>2, OfTheLog
  <2> QED
    BY <1>2, <2>1, <2>2, ReloadLogs
<1>7. OneLine(q)'
  BY <1>1, <1>6 DEF RequestInv, OneLine
<1> QED
  BY <1>3, <1>4, <1>5, <1>7 DEF RequestInv

(* A crash takes the requests in flight with it and leaves the log. *)
LEMMA CrashSparesRequests ==
  ASSUME PdpTypeOK, Crash, NEW q \in Requests, RequestInv(q)
  PROVE  RequestInv(q)'
<1>1. /\ UNCHANGED <<kind, counted, by, log, status, current, raced, lost>>
      /\ at'[q] = IF InFlight(q) THEN "gone" ELSE at[q]
  BY DEF Crash
<1>2. at'[q] \in {"none", "done", "gone"} /\ (at'[q] # "gone" => at'[q] = at[q])
  BY <1>1 DEF InFlight
<1>3. Path(q)' /\ Served(q)'
  BY <1>1, <1>2 DEF RequestInv, Path, Served, InFlight
<1>4. PollKnows(q)' /\ Deciding(q)'
  BY <1>2 DEF PollKnows, Deciding
<1>5. OneLine(q)'
  <2>1. LinesOf(q)' = LinesOf(q)
    BY <1>1, OfTheLog
  <2> QED
    BY <1>1, <1>2, <2>1 DEF RequestInv, OneLine
<1> QED
  BY <1>3, <1>4, <1>5 DEF RequestInv

-----------------------------------------------------------------------------
(* The log and the set in force *)

\* Except between a swap and its line, the last loaded line is of the set in force; it
\* is of the set that decided a request about to be recorded that nothing has overtaken.
LogNames ==
  /\ active # Nothing /\ ~swallowed /\ ~AboutToRecordLoad => NamesLast(log, active)
  /\ \A r \in Requests :
       at[r] = "record" /\ by[r] # Nothing /\ ~raced[r] => NamesLast(log, by[r])

(* A handler adds nothing that would hide the last loaded line. *)
LEMMA HandleKeepsNames ==
  ASSUME PdpTypeOK, NEW r \in Requests, Handle(r), Path(r), LogNames
  PROVE  LogNames'
<1>1. /\ UNCHANGED <<active, swallowed>> /\ AboutToRecordLoad' = AboutToRecordLoad
  BY HandleReadsOnly DEF vars, logVars, AboutToRecordLoad
<1>2. ASSUME NEW set, NamesLast(log, set) PROVE NamesLast(log', set)
  <2>1. ASSUME NEW e \in DecisionLine, log' = Append(log, e) PROVE NamesLast(log', set)
    <3>1. log \in Seq(PolicyLine \cup DecisionLine) /\ e \in PolicyLine \cup DecisionLine
          /\ ~LoadedLine(e)
      BY DEF PdpTypeOK, LoadedLine, DecisionLine
    <3> QED
      BY <1>2, <2>1, <3>1, NamesLastGrows
  <2> QED
    BY <1>2, <2>1, HandleLogs
<1>3. ASSUME NEW q \in Requests, at'[q] = "record", by'[q] # Nothing, ~raced'[q]
      PROVE  NamesLast(log', by'[q])
  <2>1. CASE q # r
    BY <1>2, <1>3, <2>1, OthersUntouched DEF LogNames
  <2>2. CASE q = r /\ Evaluate(r)
    <3>1. by'[q] = active /\ ~swallowed /\ ~AboutToRecordLoad
      BY <1>3, <2>2 DEF Evaluate, PdpTypeOK, Consulted
    <3> QED
      BY <1>2, <1>3, <3>1 DEF LogNames
  <2>3. CASE q = r /\ ~Evaluate(r)
    <3>1. by'[q] = Nothing
      BY <1>3, <2>3 DEF Handle, Arrive, Gate, Guard, ReadBody, Disconnect, Record, Answer,
         ReadSnapshot, ReadReload, Goes, PdpTypeOK, Path
    <3> QED
      BY <1>3, <3>1
  <2> QED
    BY <2>1, <2>2, <2>3
<1> QED
  BY <1>1, <1>2, <1>3 DEF LogNames

(* The loading thread writes the line of the set it has put in force, and marks who it
   overtakes by doing so. *)
LEMMA ReloadKeepsNames ==
  ASSUME PdpTypeOK, Control, Reload, LogNames
  PROVE  LogNames'
<1>1. Next /\ ~Restart /\ TypeOK
  BY ReloadIsNext DEF PdpTypeOK
<1>2. CASE log' = log /\ trail' = trail
  <2>1. ASSUME active' # Nothing, ~swallowed', ~AboutToRecordLoad'
        PROVE  NamesLast(log', active')
    <3>1. ~Adopt /\ ~Restart /\ ~GiveUp
      BY <1>1, <2>1 DEF Adopt, Report, AboutToRecordLoad, GiveUp
    <3>2. active' = active
      BY <1>1, <3>1, ActiveChanges
    <3>3. swallowed' = swallowed /\ ~RecordTrail
      <4>1. CASE RecordTrail
        <5>1. trail' # LongerTrail
          BY <1>1, <1>2, <4>1, AppendedLine
        <5> QED
          BY <2>1, <4>1, <5>1 DEF RecordTrail
      <4> QED
        BY <1>1, <4>1, OnlyRecordingWrites
    <3>4. ~AboutToRecordLoad
      BY <1>1, <2>1, <3>1, <3>3, SwapIsSeen
    <3> QED
      BY <1>2, <2>1, <3>2, <3>3, <3>4 DEF LogNames
  <2> QED
    BY <1>2, <2>1 DEF LogNames, Reload
<1>3. ASSUME NEW e \in PolicyLine, log' = Append(log, e), e.line = AttemptLine,
             RecordTrail, UNCHANGED <<active, outcome, swallowed>>
      PROVE  LogNames'
  <2>1. /\ log \in Seq(PolicyLine \cup DecisionLine) /\ e \in PolicyLine \cup DecisionLine
        /\ e.kind = "policy-set"
    BY DEF PdpTypeOK, PolicyLine
  <2>2. pc = "trail" /\ pc' # "trail"
    BY <1>3 DEF RecordTrail
  <2>3. CASE outcome = "loaded"
    <3>1. LoadedLine(e) /\ e.line.gen = active.gen /\ e.line.hash = active.hash
      BY <1>3, <2>1, <2>3 DEF LoadedLine, AttemptLine
    <3>2. NamesLast(log', active')
      BY <1>3, <2>1, <3>1, NamesLastGrows
    <3>3. \A r \in Requests : at'[r] = "record" => raced'[r]
      BY <2>2, <2>3 DEF Reload, AboutToRecordLoad
    <3> QED
      BY <3>2, <3>3 DEF LogNames
  <2>4. CASE outcome # "loaded"
    <3>1. ~LoadedLine(e)
      BY <1>3, <2>4 DEF LoadedLine, AttemptLine
    <3>2. \A set : NamesLast(log, set) => NamesLast(log', set)
      BY <1>3, <2>1, <3>1, NamesLastGrows
    <3>3. ~AboutToRecordLoad
      BY <2>4 DEF AboutToRecordLoad
    <3>4. \A r \in Requests : at'[r] = at[r] /\ by'[r] = by[r] /\ (~raced'[r] => ~raced[r])
      BY DEF Reload
    <3> QED
      BY <1>3, <3>2, <3>3, <3>4 DEF LogNames
  <2> QED
    BY <2>3, <2>4
<1> QED
  BY <1>1, <1>2, <1>3, ReloadLogs

(* After a crash nothing is in force and nobody is about to be recorded. *)
LEMMA CrashKeepsNames ==
  ASSUME PdpTypeOK, Crash
  PROVE  LogNames'
<1>1. active' = Nothing
  BY DEF Crash, Restart
<1>2. \A r \in Requests : at'[r] # "record"
  BY DEF Crash, InFlight
<1> QED
  BY <1>1, <1>2 DEF LogNames

-----------------------------------------------------------------------------
(* Attribution *)

(* A handler records a line that is right or marked, and clears the mark of nobody who
   has a line. *)
LEMMA HandleAttributes ==
  ASSUME PdpTypeOK, NEW r \in Requests, Handle(r), OneLine(r), LogNames,
         MisattributionNeedsRace
  PROVE  MisattributionNeedsRace'
<1>1. /\ log \in Seq(PolicyLine \cup DecisionLine)
      /\ raced \in [Requests -> BOOLEAN]
  BY DEF PdpTypeOK
<1>2. LinesOf(r) = {} \/ raced' = raced
  BY DEF Handle, Arrive, Gate, Guard, ReadBody, Disconnect, Evaluate, Record, Answer,
     ReadSnapshot, ReadReload, Goes, OneLine
<1>3. \A q \in Requests : LinesOf(q) = {} \/ raced'[q] = raced[q]
  BY <1>2, OthersUntouched
<1>4. ASSUME NEW j \in Decisions PROVE NamedAt(log, j) \/ raced'[log[j].request]
  <2>1. j \in 1..Len(log) /\ log[j].kind = "decision"
    BY DEF Decisions
  <2>2. log[j] \in DecisionLine
    BY <1>1, <2>1 DEF PolicyLine
  <2>3. log[j].request \in Requests
    BY <2>2 DEF DecisionLine
  <2>4. j \in LinesOf(log[j].request)
    BY <2>1 DEF LinesOf
  <2> QED
    BY <1>3, <2>3, <2>4, OfTheLog DEF MisattributionNeedsRace
<1>5. CASE log' = log
  BY <1>4, <1>5, OfTheLog DEF MisattributionNeedsRace, Decisions
<1>6. ASSUME NEW e \in DecisionLine, Record(r), log' = Append(log, e),
             e.kind = "decision", e.request = r, e.by = by[r]
      PROVE  MisattributionNeedsRace'
  <2>1. /\ Len(log) \in Nat /\ Len(log') = Len(log) + 1 /\ log'[Len(log) + 1] = e
        /\ \A i \in 1..Len(log) : log'[i] = log[i]
    BY <1>1, <1>6, Appended
  <2>2. at[r] = "record" /\ raced' = raced
    BY <1>6 DEF Record, Goes
  <2>3. SUFFICES ASSUME NEW j \in Decisions'
                 PROVE  NamedAt(log', j) \/ raced'[log'[j].request]
    BY OfTheLog DEF MisattributionNeedsRace
  <2>4. j \in 1..Len(log') /\ log'[j].kind = "decision" /\ log'[j].by # Nothing
    BY DEF Decisions
  <2>5. CASE j = Len(log) + 1
    <3>1. by[r] # Nothing /\ log'[j].request = r
      BY <1>6, <2>1, <2>4, <2>5
    <3>2. NamesLast(log, e.by) \/ raced[r]
      BY <1>6, <2>2, <3>1 DEF LogNames
    <3> QED
      BY <1>1, <1>6, <2>2, <2>5, <3>1, <3>2, NamedGrows
  <2>6. CASE j \in 1..Len(log)
    <3>1. log'[j] = log[j] /\ j \in Decisions
      BY <2>1, <2>4, <2>6 DEF Decisions
    <3> QED
      BY <1>1, <1>4, <1>6, <2>6, <3>1, NamedGrows
  <2> QED
    BY <2>1, <2>4, <2>5, <2>6
<1> QED
  BY <1>5, <1>6, HandleLogs

(* A policy-set line is no decision, and leaves what is above it as right as it was. *)
LEMMA ReloadAttributes ==
  ASSUME PdpTypeOK, Control, Reload, MisattributionNeedsRace
  PROVE  MisattributionNeedsRace'
<1>1. \A q \in Requests : raced[q] => raced'[q]
  BY DEF Reload
<1>2. log \in Seq(PolicyLine \cup DecisionLine) /\ TypeOK
  BY DEF PdpTypeOK
<1>3. ASSUME NEW j \in Decisions PROVE NamedAt(log, j) \/ raced'[log[j].request]
  <2>1. j \in 1..Len(log) /\ log[j].kind = "decision"
    BY DEF Decisions
  <2>2. log[j] \in DecisionLine
    BY <1>2, <2>1 DEF PolicyLine
  <2>3. log[j].request \in Requests
    BY <2>2 DEF DecisionLine
  <2> QED
    BY <1>1, <2>3, OfTheLog DEF MisattributionNeedsRace
<1>4. CASE log' = log
  BY <1>3, <1>4, OfTheLog DEF MisattributionNeedsRace, Decisions
<1>5. ASSUME NEW e \in PolicyLine, log' = Append(log, e)
      PROVE  MisattributionNeedsRace'
  <2>1. /\ Len(log) \in Nat /\ Len(log') = Len(log) + 1 /\ log'[Len(log) + 1] = e
        /\ \A i \in 1..Len(log) : log'[i] = log[i]
    BY <1>2, <1>5, Appended
  <2>2. SUFFICES ASSUME NEW j \in Decisions'
                 PROVE  NamedAt(log', j) \/ raced'[log'[j].request]
    BY OfTheLog DEF MisattributionNeedsRace
  <2>3. j \in 1..Len(log') /\ log'[j].kind = "decision" /\ log'[j].by # Nothing
    BY DEF Decisions
  <2>4. j \in 1..Len(log)
    BY <2>1, <2>3 DEF PolicyLine
  <2>5. log'[j] = log[j] /\ j \in Decisions
    BY <2>1, <2>3, <2>4 DEF Decisions
  <2> QED
    BY <1>2, <1>3, <1>5, <2>4, <2>5, NamedGrows
<1> QED
  BY <1>2, <1>4, <1>5, ReloadLogs

-----------------------------------------------------------------------------
(* The theorems *)

PdpInv ==
  /\ PdpTypeOK
  /\ \A r \in Requests : RequestInv(r)
  /\ LogNames
  /\ MisattributionNeedsRace

(* Before the first request, nothing is in force and nothing is recorded. *)
LEMMA PdpInitEstablishes ==
  ASSUME PdpInit
  PROVE  PdpInv
<1>1. PdpTypeOK
  BY PdpInitTypes
<1>2. /\ log = <<>> /\ active = Nothing
      /\ \A r \in Requests : at[r] = "none" /\ status[r] = "none" /\ by[r] = Nothing
  BY DEF PdpInit, Init
<1>3. ASSUME NEW r \in Requests PROVE RequestInv(r)
  <2>1. LinesOf(r) = {}
    BY <1>2 DEF LinesOf
  <2> QED
    BY <1>2, <2>1 DEF RequestInv, Path, Served, InFlight, PollKnows, Deciding, OneLine
<1>4. LogNames
  BY <1>2 DEF LogNames
<1>5. MisattributionNeedsRace
  BY <1>2 DEF MisattributionNeedsRace, Decisions
<1> QED
  BY <1>1, <1>3, <1>4, <1>5 DEF PdpInv

(* No step of a request, of the loading thread, of the operators or of the process
   disturbs it. *)
LEMMA PdpStepPreserves ==
  ASSUME IInv, ThreadInv, PdpInv, [PdpNext]_pdpVars
  PROVE  PdpInv'
<1>1. PdpTypeOK /\ Control /\ SetInForceUsable
  BY DEF IInv, ThreadInv, PdpInv
<1>2. PdpTypeOK'
  BY <1>1, PdpStepTypes
<1>3. ASSUME NEW r \in Requests, Handle(r) PROVE PdpInv'
  <2>1. RequestInv(r) /\ LogNames /\ MisattributionNeedsRace
    BY DEF PdpInv
  <2>2. RequestInv(r)'
    BY <1>1, <1>3, <2>1, HandlePath, HandleKnows, HandleLine DEF RequestInv
  <2>3. \A q \in Requests : RequestInv(q)'
    BY <1>1, <1>3, <2>2, HandleSparesOthers DEF PdpInv
  <2>4. LogNames'
    BY <1>1, <1>3, <2>1, HandleKeepsNames DEF RequestInv
  <2>5. MisattributionNeedsRace'
    BY <1>1, <1>3, <2>1, HandleAttributes DEF RequestInv
  <2> QED
    BY <1>2, <2>3, <2>4, <2>5 DEF PdpInv
<1>4. CASE Reload
  <2>1. \A q \in Requests : RequestInv(q)'
    BY <1>1, <1>4, ReloadSparesRequests DEF PdpInv
  <2>2. LogNames' /\ MisattributionNeedsRace'
    BY <1>1, <1>4, ReloadKeepsNames, ReloadAttributes DEF PdpInv
  <2> QED
    BY <1>2, <2>1, <2>2 DEF PdpInv
<1>5. CASE Crash
  <2>1. \A q \in Requests : RequestInv(q)'
    BY <1>1, <1>5, CrashSparesRequests DEF PdpInv
  <2>2. MisattributionNeedsRace'
    <3>1. UNCHANGED <<log, raced>>
      BY <1>5 DEF Crash
    <3> QED
      BY <3>1, OfTheLog DEF PdpInv, MisattributionNeedsRace, Decisions
  <2> QED
    BY <1>1, <1>2, <1>5, <2>1, <2>2, CrashKeepsNames DEF PdpInv
<1>6. CASE UNCHANGED pdpVars
  <2>1. /\ UNCHANGED <<at, kind, counted, by, log, status, current, raced, lost>>
        /\ UNCHANGED <<watching, active, swallowed, pc, outcome>>
    BY <1>6 DEF pdpVars, requestVars, vars, logVars
  <2>2. ASSUME NEW q \in Requests PROVE RequestInv(q)'
    BY <2>1, OfTheLog DEF PdpInv, RequestInv, Path, Served, InFlight, PollKnows, Untold,
       Deciding, OneLine
  <2>3. LogNames'
    BY <2>1 DEF PdpInv, LogNames, AboutToRecordLoad
  <2>4. MisattributionNeedsRace'
    BY <2>1, OfTheLog DEF PdpInv, MisattributionNeedsRace, Decisions
  <2> QED
    BY <1>2, <2>2, <2>3, <2>4 DEF PdpInv
<1> QED
  BY <1>3, <1>4, <1>5, <1>6 DEF PdpNext

(* The inductive invariant of the daemon, on top of the one of its loading thread. *)
THEOREM PdpInductive == PdpSpec => [](IInv /\ ThreadInv /\ PdpInv)
<1>1. PdpSpec => []IInv /\ []ThreadInv
  BY IsPolicyReload, Inductive, ThreadInductive, PTL
<1>2. PdpInit => PdpInv
  BY PdpInitEstablishes
<1>3. IInv /\ ThreadInv /\ PdpInv /\ [PdpNext]_pdpVars => PdpInv'
  BY PdpStepPreserves
<1> QED
  BY <1>1, <1>2, <1>3, PTL DEF PdpSpec

(* Every variable of the daemon keeps its type: the log in particular holds lines of
   decisions and of attempts and nothing else. *)
THEOREM PdpTyping == PdpSpec => []PdpTypeOK
<1>1. PdpInv => PdpTypeOK
  BY DEF PdpInv
<1> QED
  BY <1>1, PdpInductive, PTL

(* A decision line whose last loaded line is of another set belongs to a request that a
   swap or its line has overtaken, or that was decided by a set whose line was lost. *)
THEOREM Attribution == PdpSpec => []MisattributionNeedsRace
<1>1. PdpInv => MisattributionNeedsRace
  BY DEF PdpInv
<1> QED
  BY <1>1, PdpInductive, PTL

(* The set that decides was in force after the body was read: never one that the guard
   saw before the await. *)
THEOREM DecidesCurrent == PdpSpec => []DecidedBySetInForce
<1>1. PdpInv => DecidedBySetInForce
  BY DEF PdpInv, RequestInv, Deciding, DecidedBySetInForce
<1> QED
  BY <1>1, PdpInductive, PTL

(* Every decision that was answered has one line, unless its append was swallowed, and
   nothing else has one. *)
THEOREM OneLineEach == PdpSpec => []OneLinePerDecision
<1>1. PdpInv => OneLinePerDecision
  <2> SUFFICES ASSUME PdpInv, NEW r \in Requests
               PROVE  /\ status[r] = "200" /\ kind[r] # "health" /\ ~lost[r] =>
                           \E i \in LinesOf(r) : LinesOf(r) = {i}
                      /\ LinesOf(r) # {} =>
                           status[r] \in {"none", "200"} /\ kind[r] \notin {"foreign", "health"}
                      /\ at[r] \in {"gate", "guard", "body", "evaluate"} => LinesOf(r) = {}
    BY DEF OneLinePerDecision
  <2>1. OneLine(r)
    BY DEF PdpInv, RequestInv
  <2> QED
    BY <2>1 DEF OneLine
<1> QED
  BY <1>1, PdpInductive, PTL

-----------------------------------------------------------------------------
(* Readiness and health *)

(* No 503: a served request finds a set in force, and it has passed the guard against
   the empty set. *)
THEOREM AlwaysPolicies == PdpSpec => []NeverWithoutPolicies
<1>1. PdpInit => NeverWithoutPolicies
  BY DEF PdpInit, NeverWithoutPolicies
<1>2. ASSUME IInv, ThreadInv, PdpInv, NeverWithoutPolicies, [PdpNext]_pdpVars
      PROVE  NeverWithoutPolicies'
  <2>1. PdpTypeOK /\ SetInForceUsable /\ Control
    BY <1>2 DEF IInv, ThreadInv, PdpInv
  <2>2. ASSUME NEW r \in Requests, Handle(r), NEW q \in Requests PROVE status'[q] # "503"
    <3>1. CASE q # r
      BY <1>2, <2>1, <2>2, <3>1, OthersUntouched DEF NeverWithoutPolicies
    <3>2. CASE q = r
      <4>1. Path(r) /\ Served(r) /\ PollKnows(r) /\ status[r] # "503"
        BY <1>2 DEF PdpInv, RequestInv, NeverWithoutPolicies
      <4>2. CASE Guard(r)
        <5>1. active # Nothing
          BY <2>1, <4>1, <4>2 DEF Guard, Served, InFlight, Control
        <5>2. Contributing(active.set) # {}
          BY <2>1, <5>1 DEF SetInForceUsable, Usable
        <5> QED
          BY <3>2, <4>1, <4>2, <5>2 DEF Guard
      <4>3. CASE ReadReload(r)
        <5>1. Contributing(counted[r].set) # {}
          BY <4>1, <4>3 DEF ReadReload, Goes, PollKnows, Usable
        <5> QED
          BY <2>1, <3>2, <4>3, <5>1 DEF ReadReload, Answers, PdpTypeOK
      <4>4. CASE ~Guard(r) /\ ~ReadReload(r)
        BY <2>1, <2>2, <3>2, <4>1, <4>4 DEF Handle, Arrive, Gate, ReadBody, Disconnect,
           Evaluate, Record, Answer, ReadSnapshot, Answers, PdpTypeOK
      <4> QED
        BY <4>2, <4>3, <4>4
    <3> QED
      BY <3>1, <3>2
  <2>3. CASE Reload \/ Crash \/ UNCHANGED pdpVars
    BY <1>2, <2>3 DEF Reload, Crash, pdpVars, requestVars, NeverWithoutPolicies
  <2> QED
    BY <1>2, <2>2, <2>3 DEF PdpNext, NeverWithoutPolicies
<1>3. IInv /\ ThreadInv /\ PdpInv /\ NeverWithoutPolicies /\ [PdpNext]_pdpVars
        => NeverWithoutPolicies'
  BY <1>2
<1> QED
  BY <1>1, <1>3, PdpInductive, PTL DEF PdpSpec

(* One answer of /healthz speaks of one attempt, the last on the trail, unless a swap has
   overtaken the poll. *)
THEOREM HealthConsistent == PdpSpec => HealthTellsLastAttempt
<1>1. ASSUME ThreadInv, PdpInv, NEW r \in Requests,
             ReadReload(r), ~raced[r], ~swallowed, pc # "health"
      PROVE  /\ trail[Len(trail)].gen = counted[r].gen
             /\ lastReload = IF trail[Len(trail)].gen = 1 /\ trail[Len(trail)].outcome = "loaded"
                             THEN "none" ELSE trail[Len(trail)].outcome
  <2>1. at[r] = "reload" /\ Served(r) /\ PollKnows(r)
    BY <1>1 DEF PdpInv, RequestInv, ReadReload, Goes
  <2>2. watching /\ counted[r] = active /\ ~Untold
    BY <1>1, <2>1 DEF Served, InFlight, PollKnows
  <2>3. ~AboutToRecordLoad
    BY <2>2 DEF Untold, AboutToRecordLoad
  <2> QED
    BY <1>1, <2>2, <2>3 DEF ThreadInv, LastLineTells
<1>2. ThreadInv /\ PdpInv =>
        \A r \in Requests :
          ReadReload(r) /\ ~raced[r] /\ ~swallowed /\ pc # "health" =>
            LET line == trail[Len(trail)] IN
            /\ line.gen = counted[r].gen
            /\ lastReload = IF line.gen = 1 /\ line.outcome = "loaded" THEN "none"
                            ELSE line.outcome
  BY <1>1
<1>3. ThreadInv /\ PdpInv =>
        [\A r \in Requests :
           ReadReload(r) /\ ~raced[r] /\ ~swallowed /\ pc # "health" =>
             LET line == trail[Len(trail)] IN
             /\ line.gen = counted[r].gen
             /\ lastReload = IF line.gen = 1 /\ line.outcome = "loaded" THEN "none"
                             ELSE line.outcome]_pdpVars
  BY <1>2
<1> QED
  BY <1>3, PdpInductive, PTL DEF HealthTellsLastAttempt

-----------------------------------------------------------------------------
(* The daemon as a whole *)

(* Serving requests costs the loading thread none of its guarantees: the daemon implements
   the abstract hot reload, loses no announced edit, tells of what it did not adopt, names the bytes in force by their
   hash and adopts nothing past a component that stayed loose, with any number of requests
   in flight. *)
THEOREM DaemonReloads ==
  PdpSpec => /\ ImplementsHotReload
             /\ []NoLostEdit
             /\ []StaleIsTold
             /\ []HashNamesDecidingSet
             /\ LooseTreeIsNotAdopted
  BY IsPolicyReload, Implements, NoEditLost, StaleTold, HashHonest, LooseNotAdopted,
     PTL
=============================================================================
