---------------------------- MODULE PolicyReload ----------------------------
(***************************************************************************)
(* The policy set from disk to decision: the bootstrap load (main.rs),     *)
(* the loader and the swap (cedar/engine.rs), the watcher thread           *)
(* (watcher.rs) with its trust re-check (isolation.rs), and the operators  *)
(* who edit the directory meanwhile.                                       *)
(*                                                                         *)
(* One thread of control loads policies: `serve`'s main task until the     *)
(* watch is up, the watcher thread from then on.  Its steps:               *)
(*                                                                         *)
(*   startup   check -> entries -> judge* -> list -> read* -> trail        *)
(*             -> watch -> recv                                            *)
(*   reload    recv -> drain -> check -> entries -> judge* -> list         *)
(*             -> read* -> trail -> health -> recv                         *)
(*                                                                         *)
(* Edits may fall between any two steps, and a trust check looks at one    *)
(* component of the tree at a time.  A file's text is a value; what        *)
(* the loader does with it is given by Broken, Invalid and Blank.  The     *)
(* content hash is the function it hashes: the framing of ContentDigest is *)
(* injective, so equal hashes mean equal names and bytes.                  *)
(***************************************************************************)
EXTENDS Naturals, Sequences

CONSTANTS
  Files,        \* the loadable *.cedar names, as numbers in sorted order
  Text,         \* what a file may hold
  Broken,       \* texts that fail in the loop: not UTF-8, no parse, duplicate id
  Invalid,      \* texts that parse but fail strict validation
  Blank,        \* texts without a policy: comments only
  Absent,       \* no such file
  Nothing,      \* nothing loaded
  Directory,    \* the policy directory itself, as a component of the tree
  Ancestor,     \* and what it lies in
  Loosenable,   \* the components that may become writable by others, files among them
  BlindEdits,   \* may the directory change between bootstrap load and watch
  Swaps,        \* may the directory be replaced by another one
  TrailFails,   \* may an append to the trail be swallowed
  IoErrors,     \* may examining, listing or reading fail although the file is there
  MaxEdits,     \* bound on what happens to the directory
  MaxCrash      \* bound on kills

ASSUME ConstantsAssumption ==
  /\ Files \subseteq Nat
  /\ Absent \notin Text
  /\ Broken \subseteq Text /\ Invalid \subseteq Text /\ Blank \subseteq Text
  /\ Directory \notin Files /\ Ancestor \notin Files /\ Directory # Ancestor
  /\ Loosenable \subseteq Files \cup {Directory, Ancestor}
  /\ BlindEdits \in BOOLEAN /\ Swaps \in BOOLEAN
  /\ TrailFails \in BOOLEAN /\ IoErrors \in BOOLEAN
  /\ MaxEdits \in Nat
  /\ MaxCrash \in Nat

Contents == [Files -> Text \cup {Absent}]

\* How many policies decide, as far as anything depends on it: a file either
\* contributes some or none.
Contributing(c) == {f \in Files : c[f] \notin Blank \cup {Absent}}

\* Mutant: an empty set passes.
UsableOrEmpty == {c \in Contents : \A f \in Files : c[f] \notin Broken \cup Invalid}

\* The sets that pass every guard of load_entries and checked.
Usable ==
  {c \in Contents :
     /\ \A f \in Files : c[f] \notin Broken \cup Invalid
     /\ Contributing(c) # {}}

Loaded == [gen : Nat, set : Contents, hash : Contents]

ASSUME NothingAssumption ==
  Nothing \notin Contents \cup Loaded \cup [gen : Nat, set : Contents]

VARIABLES
  dir,         \* the policy directory
  loose,       \* the components that are writable by others now
  queue,       \* the watcher's channel: "change" and "error" events
  attached,    \* the watch is on the directory the path names
  edits,       \* how often something happened to the directory
  crashes,     \* how often the process was killed
  pc,          \* where the loading thread is
  watching,    \* it is the watcher thread
  todo,        \* files listed, and not judged yet or not read yet
  read,        \* what has been read of the files listed
  digest,      \* what has been fed to ContentDigest
  active,      \* Engine::current
  outcome,     \* what the attempt in hand came to
  trail,       \* the policy-set lines of the audit log
  lastReload,  \* AppState::last_reload
  \* History, read by the properties only.
  unseen,      \* a change of the directory since the last listing reached no queue
  tight,       \* the components that were tight at some time since the drain ended
  refusedFor,  \* the component the last refusal found loose
  stumbled,    \* the attempt ended in an I/O error on what was there
  swallowed    \* a line of this life did not reach the trail

envVars == <<dir, loose, queue, attached, edits>>
loadVars == <<todo, read, digest>>
logVars == <<trail, lastReload, swallowed>>
historyVars == <<unseen, tight, refusedFor, stumbled>>
vars == <<envVars, crashes, pc, watching, loadVars, active, outcome, logVars,
          historyVars>>

Outcomes == {"loaded", "refused", "failed"}
Line == [gen : Nat, outcome : Outcomes, hash : Contents \cup {Nothing}]

TypeOK ==
  /\ dir \in Contents
  /\ loose \subseteq Loosenable
  /\ queue \in Seq({"change", "error"})
  /\ attached \in BOOLEAN
  /\ edits \in Nat
  /\ crashes \in Nat
  /\ pc \in {"check", "entries", "judge", "list", "read", "trail", "health", "watch",
             "recv", "drain", "exited"}
  /\ watching \in BOOLEAN
  /\ todo \subseteq Files
  /\ read \in Contents
  /\ digest \in Contents
  /\ active \in Loaded \cup {Nothing}
  /\ outcome \in Outcomes \cup {"none"}
  /\ trail \in Seq(Line)
  /\ lastReload \in Outcomes \cup {"none"}
  /\ unseen \in BOOLEAN
  /\ tight \subseteq Loosenable
  /\ refusedFor \subseteq Loosenable
  /\ stumbled \in BOOLEAN
  /\ swallowed \in BOOLEAN

Empty == [f \in Files |-> Absent]

Present(c) == {f \in Files : c[f] # Absent}

Init ==
  /\ dir \in Contents
  /\ loose \in SUBSET Loosenable
  /\ loose \cap Files \subseteq Present(dir)
  /\ edits = 0
  /\ crashes = 0
  /\ trail = <<>>
  /\ pc = "check"
  /\ watching = FALSE
  /\ todo = {}
  /\ read = Empty
  /\ digest = Empty
  /\ active = Nothing
  /\ outcome = "none"
  /\ lastReload = "none"
  /\ queue = <<>>
  /\ attached = FALSE
  /\ unseen = FALSE
  /\ tight = Loosenable \ loose
  /\ refusedFor = {}
  /\ stumbled = FALSE
  /\ swallowed = FALSE

-----------------------------------------------------------------------------
(* Loading: load_dir, load_entries, checked, Engine::bootstrap and reload *)

\* Mutant: the attempt's outcome is not kept for the record.
ReportNothing(o) == UNCHANGED outcome /\ pc' = "trail"

Report(o) == outcome' = o /\ pc' = "trail"

\* A bootstrap that fails refuses to serve and records nothing (main.rs:215-219);
\* a reload that fails keeps the active set.
Refuse(o) ==
  IF watching THEN Report(o) ELSE pc' = "exited" /\ UNCHANGED outcome

\* refuse_untrusted_policy_dir, one component: isolation::check before serving calls it,
\* and the watcher before a reload.
Judge(component, next) ==
  /\ refusedFor' = {component} \cap loose
  /\ IF component \in loose THEN Refuse("refused") ELSE pc' = next /\ UNCHANGED outcome

JudgeDirectory ==
  /\ pc = "check"
  /\ Judge(Directory, "entries")
  /\ stumbled' = FALSE
  /\ UNCHANGED <<envVars, crashes, watching, loadVars, active, logVars, unseen, tight>>

\* Its read_dir, with what the loader would skip left out.
ListEntries ==
  /\ pc = "entries"
  /\ todo' = Present(dir)
  /\ pc' = "judge"
  /\ UNCHANGED <<envVars, crashes, watching, read, digest, active, outcome, logVars,
                 historyVars>>

\* In whatever order the directory has them.
JudgeEntry(f) ==
  /\ pc = "judge"
  /\ f \in todo
  /\ dir[f] # Absent
  /\ Judge(f, "judge")
  /\ todo' = todo \ {f}
  /\ UNCHANGED <<envVars, crashes, watching, read, digest, active, logVars,
                 unseen, tight, stumbled>>

\* Gone before the loader's test of it: skipped.
SkipEntry(f) ==
  /\ pc = "judge"
  /\ f \in todo
  /\ dir[f] = Absent
  /\ todo' = todo \ {f}
  /\ UNCHANGED <<envVars, crashes, pc, watching, read, digest, active, outcome, logVars,
                 historyVars>>

\* Gone after it, and before it is examined.
EntryGone(f) ==
  /\ pc = "judge"
  /\ f \in todo
  /\ dir[f] = Absent
  /\ Refuse("refused")
  /\ UNCHANGED <<envVars, crashes, watching, loadVars, active, logVars, historyVars>>

JudgeAncestor ==
  /\ pc = "judge"
  /\ todo = {}
  /\ Judge(Ancestor, "list")
  /\ UNCHANGED <<envVars, crashes, watching, loadVars, active, logVars,
                 unseen, tight, stumbled>>

\* What cannot be examined is not trusted.
RecheckFails ==
  /\ pc \in {"check", "entries", "judge"}
  /\ IoErrors
  /\ Refuse("refused")
  /\ stumbled' = TRUE
  /\ UNCHANGED <<envVars, crashes, watching, loadVars, active, logVars,
                 unseen, tight, refusedFor>>

\* read_dir, with what the loader would skip left out.
List ==
  /\ pc = "list"
  /\ todo' = Present(dir)
  /\ read' = Empty
  /\ digest' = Empty
  /\ pc' = "read"
  /\ unseen' = FALSE
  /\ UNCHANGED <<envVars, crashes, watching, active, outcome, logVars,
                 tight, refusedFor, stumbled>>

\* read_dir fails, or does so for one of the entries.
ListFails ==
  /\ pc = "list"
  /\ IoErrors
  /\ Refuse("failed")
  /\ stumbled' = TRUE
  /\ UNCHANGED <<envVars, crashes, watching, loadVars, active, logVars,
                 unseen, tight, refusedFor>>

NextFile(f) == f \in todo /\ \A g \in todo : f <= g

\* One turn of the loop: read_to_string, digest.file, parse.
ReadEntry(f) ==
  /\ pc = "read"
  /\ NextFile(f)
  /\ dir[f] \notin Broken \cup {Absent}
  /\ read' = [read EXCEPT ![f] = dir[f]]
  /\ digest' = [digest EXCEPT ![f] = dir[f]]
  /\ todo' = todo \ {f}
  /\ UNCHANGED <<envVars, crashes, pc, watching, active, outcome, logVars,
                 historyVars>>

\* ReadFile (the file is gone, or cannot be read), Parse or Duplicate.
ReadFails(f) ==
  /\ pc = "read"
  /\ NextFile(f)
  /\ IoErrors \/ dir[f] \in Broken \cup {Absent}
  /\ Refuse("failed")
  /\ stumbled' = (dir[f] \notin Broken \cup {Absent})
  /\ UNCHANGED <<envVars, crashes, watching, loadVars, active, logVars,
                 unseen, tight, refusedFor>>

\* Mutant: reload forgets to advance the generation.
NextGenStuck == IF active = Nothing THEN 1 ELSE active.gen

NextGen == IF active = Nothing THEN 1 ELSE active.gen + 1

\* Mutant: the hash is computed by reading the directory again.
LoadedSetRehashed == [gen |-> NextGen, set |-> read, hash |-> dir]

LoadedSet == [gen |-> NextGen, set |-> read, hash |-> digest]

\* checked passes and the set is stored: one ArcSwap store.
Adopt ==
  /\ pc = "read"
  /\ todo = {}
  /\ read \in Usable
  /\ active' = LoadedSet
  /\ Report("loaded")
  /\ UNCHANGED <<envVars, crashes, watching, loadVars, logVars, historyVars>>

\* checked: Empty or Validation.
CheckFails ==
  /\ pc = "read"
  /\ todo = {}
  /\ read \notin Usable
  /\ Refuse("failed")
  /\ UNCHANGED <<envVars, crashes, watching, loadVars, active, logVars,
                 historyVars>>

-----------------------------------------------------------------------------
(* Telling: Provenance, AuditLog::record_policy_set *)

\* Mutant: the line carries the generation after the one that decides.
AttemptLineAhead ==
  [gen |-> NextGen, outcome |-> outcome,
   hash |-> IF outcome = "loaded" THEN active.hash ELSE Nothing]

\* The line of the attempt in hand.  A set that was not adopted has no hash, and
\* the generation is the one still deciding.
AttemptLine ==
  [gen |-> active.gen, outcome |-> outcome,
   hash |-> IF outcome = "loaded" THEN active.hash ELSE Nothing]

\* Mutant: only the attempts that adopted something are recorded.
LongerTrailOfLoads ==
  IF outcome = "loaded" THEN Append(trail, AttemptLine) ELSE trail

\* Mutant: the bootstrap load is not recorded.
LongerTrailOfReloads == IF watching THEN Append(trail, AttemptLine) ELSE trail

LongerTrail == Append(trail, AttemptLine)

\* The trail first.  A failed append is swallowed.  The bootstrap load is no
\* reload: record_bootstrap leaves last_reload alone.
RecordTrail ==
  /\ pc = "trail"
  /\ \/ trail' = LongerTrail /\ UNCHANGED swallowed
     \/ TrailFails /\ swallowed' = TRUE /\ UNCHANGED trail
  /\ pc' = IF watching THEN "health" ELSE "watch"
  /\ UNCHANGED <<envVars, crashes, watching, loadVars, active, outcome, lastReload,
                 historyVars>>

\* Mutant: last_reload is stored where a reload is adopted.
RecordHealthOfLoads ==
  /\ pc = "health"
  /\ lastReload' = IF outcome = "loaded" THEN outcome ELSE lastReload
  /\ pc' = "recv"
  /\ UNCHANGED <<envVars, crashes, watching, loadVars, active, outcome, trail, swallowed,
                 historyVars>>

\* Then /healthz.
RecordHealth ==
  /\ pc = "health"
  /\ lastReload' = outcome
  /\ pc' = "recv"
  /\ UNCHANGED <<envVars, crashes, watching, loadVars, active, outcome, trail, swallowed,
                 historyVars>>

-----------------------------------------------------------------------------
(* Watching: watcher::spawn *)

StartWatch ==
  /\ pc = "watch"
  /\ watching' = TRUE
  /\ attached' = TRUE
  /\ pc' = "recv"
  /\ UNCHANGED <<dir, loose, queue, edits, crashes, loadVars, active, outcome, logVars,
                 historyVars>>

\* AuditLog::open or watcher::spawn fails: serve gives up, and what it loaded is gone.
GiveUp ==
  /\ ~watching
  /\ pc \in {"trail", "watch"}
  /\ IoErrors
  /\ pc' = "exited"
  /\ active' = Nothing
  /\ UNCHANGED <<envVars, crashes, watching, loadVars, outcome, logVars, historyVars>>

\* Mutant: an error ends the loop.
ReceiveUntilError ==
  /\ pc = "recv"
  /\ queue # <<>>
  /\ queue' = Tail(queue)
  /\ pc' = IF Head(queue) = "error" THEN "exited" ELSE "drain"
  /\ UNCHANGED <<dir, loose, attached, edits, crashes, watching, loadVars, active, outcome,
                 logVars, historyVars>>

\* rx.recv: an error is logged and skipped, an event starts a drain.
Receive ==
  /\ pc = "recv"
  /\ queue # <<>>
  /\ queue' = Tail(queue)
  /\ pc' = IF Head(queue) = "error" THEN "recv" ELSE "drain"
  /\ UNCHANGED <<dir, loose, attached, edits, crashes, watching, loadVars, active, outcome,
                 logVars, historyVars>>

\* rx.recv_timeout returns an event, whatever it is.
Drain ==
  /\ pc = "drain"
  /\ queue # <<>>
  /\ queue' = Tail(queue)
  /\ UNCHANGED <<dir, loose, attached, edits, crashes, pc, watching, loadVars, active, outcome,
                 logVars, historyVars>>

\* Mutant: a reload starts without the trust re-check.
EndDrainUnchecked ==
  /\ pc = "drain"
  /\ pc' = "list"
  /\ tight' = Loosenable \ loose
  /\ UNCHANGED <<envVars, crashes, watching, loadVars, active, outcome, logVars,
                 unseen, refusedFor, stumbled>>

\* Quiet for DEBOUNCE, or the ceiling: module Debounce says when.
EndDrain ==
  /\ pc = "drain"
  /\ pc' = "check"
  /\ tight' = Loosenable \ loose
  /\ UNCHANGED <<envVars, crashes, watching, loadVars, active, outcome, logVars,
                 unseen, refusedFor, stumbled>>

-----------------------------------------------------------------------------
(* The directory, and the end of the process *)

Happens == edits < MaxEdits /\ edits' = edits + 1

\* Mutant: events that find the thread busy are dropped.
NotifyWhenIdle(event) ==
  queue' = IF watching /\ attached /\ pc = "recv" THEN Append(queue, event) ELSE queue

\* An event reaches the channel while the watch is on this directory.
Notify(event) ==
  queue' = IF watching /\ attached THEN Append(queue, event) ELSE queue

CanChange == BlindEdits \/ watching \/ pc \in {"check", "entries", "judge", "list"}

MarkUnseen == unseen' = (unseen \/ ~(watching /\ attached))

Loosens(now) == loose' = now /\ tight' = tight \cup (Loosenable \ now)

\* An editor or a checkout writes, creates, renames or removes one file, and what it
\* leaves there has a mode of its own.
Edit(f, t) ==
  /\ Happens
  /\ CanChange
  /\ t # dir[f]
  /\ dir' = [dir EXCEPT ![f] = t]
  /\ \/ Loosens(loose \ {f})
     \/ t # Absent /\ f \in Loosenable /\ Loosens(loose \cup {f})
  /\ Notify("change")
  /\ MarkUnseen
  /\ UNCHANGED <<attached, crashes, pc, watching, loadVars, active, outcome, logVars,
                 refusedFor, stumbled>>

\* Another file is written or the directory is touched.
Touch ==
  /\ Happens
  /\ watching
  /\ Notify("change")
  /\ UNCHANGED <<dir, loose, attached, crashes, pc, watching, loadVars, active, outcome,
                 logVars, historyVars>>

\* notify hands over an error of its own.
WatchError ==
  /\ Happens
  /\ watching
  /\ Notify("error")
  /\ UNCHANGED <<dir, loose, attached, crashes, pc, watching, loadVars, active, outcome,
                 logVars, historyVars>>

\* chmod or chown.  Only the directory itself and its files are watched.
Chmod(what) ==
  /\ Happens
  /\ what \notin Files \ Present(dir)
  /\ Loosens(IF what \in loose THEN loose \ {what} ELSE loose \cup {what})
  /\ IF what = Ancestor THEN UNCHANGED <<queue, unseen>>
                        ELSE Notify("change") /\ MarkUnseen
  /\ UNCHANGED <<dir, attached, crashes, pc, watching, loadVars, active, outcome, logVars,
                 refusedFor, stumbled>>

\* mv policies old; mv new policies.  The watch follows the inode: it reports the
\* move and nothing of the new directory, which has modes of its own.
Swap(c) ==
  /\ Swaps
  /\ Happens
  /\ watching
  /\ dir' = c
  /\ \E now \in SUBSET Loosenable :
       /\ now \cap Files \subseteq Present(c)
       /\ Ancestor \in now <=> Ancestor \in loose
       /\ Loosens(now)
  /\ Notify("change")
  /\ attached' = FALSE
  /\ unseen' = (unseen \/ ~attached)
  /\ UNCHANGED <<crashes, pc, watching, loadVars, active, outcome, logVars,
                 refusedFor, stumbled>>

\* The process is killed or exits, and is started again.
Restart ==
  /\ crashes < MaxCrash
  /\ crashes' = crashes + 1
  /\ pc' = "check"
  /\ watching' = FALSE
  /\ todo' = {}
  /\ read' = Empty
  /\ digest' = Empty
  /\ active' = Nothing
  /\ outcome' = "none"
  /\ lastReload' = "none"
  /\ queue' = <<>>
  /\ attached' = FALSE
  /\ unseen' = FALSE
  /\ tight' = Loosenable \ loose
  /\ refusedFor' = {}
  /\ stumbled' = FALSE
  /\ swallowed' = FALSE
  /\ UNCHANGED <<dir, loose, edits, trail>>

Recheck ==
  \/ JudgeDirectory
  \/ ListEntries
  \/ \E f \in Files : JudgeEntry(f) \/ SkipEntry(f) \/ EntryGone(f)
  \/ JudgeAncestor
  \/ RecheckFails

Load ==
  \/ Recheck
  \/ List
  \/ ListFails
  \/ \E f \in Files : ReadEntry(f) \/ ReadFails(f)
  \/ Adopt
  \/ CheckFails

Thread ==
  \/ Load
  \/ RecordTrail
  \/ RecordHealth
  \/ StartWatch
  \/ GiveUp
  \/ Receive
  \/ Drain
  \/ EndDrain

Outside ==
  \/ \E f \in Files, t \in Text \cup {Absent} : Edit(f, t)
  \/ Touch
  \/ WatchError
  \/ \E what \in Loosenable : Chmod(what)
  \/ \E c \in Contents : Swap(c)
  \/ Restart

Next == Thread \/ Outside

Spec == Init /\ [][Next]_vars

\* The loading thread is scheduled: it never stays at a step it can take.  The
\* drain ends, by quiet or by its ceiling.
FairSpec == Spec /\ WF_vars(Thread) /\ WF_vars(EndDrain)

-----------------------------------------------------------------------------
(* Properties *)

Pending == \E i \in 1..Len(queue) : queue[i] = "change"

(* What an idle watcher may be left with: the directory as it is now decides, or
   cannot be loaded, or is not to be trusted.  Two states have no event to correct them:
   a repaired ancestor, and an I/O error on a directory that is left alone. *)
Agrees ==
  /\ outcome \in Outcomes
  /\ outcome = "loaded" => active.set = dir
  /\ outcome = "failed" => dir \notin Usable \/ stumbled
  /\ outcome = "refused" => refusedFor \cap (loose \cup {Ancestor}) # {} \/ stumbled

(* No lost wakeup in watcher::spawn: whatever the interleaving of edits with the
   drain, the re-check and the reading of the files, when the thread is back in
   rx.recv with no event left, the last attempt dealt with the directory as it is
   now.  A set mixed from two edits is therefore always followed by another
   reload.  Changes that no event announced are excepted: edits made after the
   first load and before the watch was up (main.rs:223), and those in a directory
   that replaced the watched one. *)
NoLostEdit == (pc = "recv" /\ ~Pending /\ ~unseen) => Agrees

(* Reload on change (cedar-policy-evaluation spec.md:344), without those exceptions: of
   two changes, one made before the watch was up and one in a directory that took the
   place of the watched one, an idle watcher may know nothing. *)
EveryEditCounts == (pc = "recv" /\ ~Pending) => Agrees

(* And what was not adopted is told (watcher.rs:107-112): when the watcher is idle and
   what decides is not what is there, /healthz says that the last attempt was refused or
   failed -- also when it failed for a reason that has gone away since, and nothing
   tries again. *)
StaleIsTold ==
  (pc = "recv" /\ ~Pending /\ ~unseen /\ active.set # dir) => lastReload \in {"refused", "failed"}

(* The trust check (watcher.rs:212-214, isolation.rs:364-410): no set is adopted past a
   component -- the directory, a file in it, an ancestor -- that was loose from the end of
   the drain, or the start of the process, until the swap.  It is looked at somewhere in
   between, whatever is chmodded, replaced or renamed around it meanwhile.  More cannot be
   said: the components are looked at one after the other, so a tree with one of them or
   another loose at every moment may pass; and a loosening after the look is not caught. *)
LooseTreeIsNotAdopted == [][active' \notin {active, Nothing} => tight = Loosenable]_vars

(* record_loaded and ContentDigest: the hash in the trail is of the bytes that decide,
   whatever is written to the directory while they are read. *)
HashNamesDecidingSet == active # Nothing => active.hash = active.set

(* Provenance: between attempts, the last "loaded" line of the trail is the set that
   decides, generation and hash, across failed and refused attempts and restarts. *)
LastLoadedLineDecides ==
  (active # Nothing /\ ~swallowed /\ ~(pc = "trail" /\ outcome = "loaded")) =>
    \E i \in 1..Len(trail) :
      /\ trail[i] = [gen |-> active.gen, outcome |-> "loaded", hash |-> active.hash]
      /\ \A j \in (i + 1)..Len(trail) : trail[j].outcome # "loaded"

(* "/healthz and the audit record cannot disagree about the last reload"
   (watcher.rs:107-112): true while every append succeeds.  Health is written after
   the trail, so at no moment does it claim an outcome the trail does not hold.  A
   swallowed append does make them disagree. *)
HealthBehindTrail ==
  (lastReload # "none" /\ ~swallowed) =>
    \E i \in {Len(trail), Len(trail) - 1} \cap DOMAIN trail :
      /\ trail[i].outcome = lastReload
      /\ i < Len(trail) => pc = "health"

(* The promise the module implements: one usable set at a time, replaced whole. *)
Promise ==
  INSTANCE HotReload WITH
    deciding <- IF active = Nothing THEN Nothing
                ELSE [gen |-> active.gen, set |-> active.set],
    unrecorded <- pc = "trail" /\ outcome = "loaded"

ImplementsHotReload == Promise!Spec

(* Once the directory is left alone, a usable and trusted one ends up deciding, with
   the exceptions of NoLostEdit. *)
EditsTakeEffect ==
  <>[](/\ watching /\ dir \in Usable /\ loose = {}
       /\ ~unseen /\ ~stumbled /\ ~(outcome = "refused" /\ Ancestor \in refusedFor)
       => active.set = dir)
=============================================================================
