------------------------------ MODULE Isolation ------------------------------
(***************************************************************************)
(* The trust checks on the daemon's own paths (src/src/isolation.rs): the  *)
(* policy directory with its files, the audit log, the TLS private key.    *)
(*                                                                         *)
(* A state path is a chain of levels, 0 for the root up to Depth for the   *)
(* path itself.  A check is a walk over it, one component after the other: *)
(*                                                                         *)
(*   policies    leaf -> list -> files -> ancestors -> trusted             *)
(*   key         leaf -> ancestors -> trusted                              *)
(*   audit log   ancestors -> leaf -> trusted                              *)
(*                                                                         *)
(* The tree stands still while it is walked: a check says what it found    *)
(* when it looked, and no more is asked of it here.  What its verdict is   *)
(* worth is measured against the permissions of the file system, which are *)
(* written down on their own at the end.                                   *)
(***************************************************************************)
EXTENDS Integers

CONSTANTS
  Depth,      \* the level of the state path itself
  Files,      \* the names in the policy directory the loader accepts
  Modes,      \* the modes that occur, sets of mode bits
  Whats,      \* which state paths are checked
  Absent      \* no such component

ASSUME DepthAssumption == Depth \in Nat /\ Depth > 0

ASSUME ConstantsAssumption ==
  /\ Modes \subseteq SUBSET {"gr", "gw", "gx", "or", "ow", "ox", "sticky"}
  /\ Whats \subseteq {"policies", "audit log", "key"}

Levels == 0..Depth

\* What a stat tells: ComponentFacts.
Facts == [owner : {"us", "root", "other"}, mode : Modes, dir : BOOLEAN]

ASSUME AbsentAssumption == Absent \notin Facts

VARIABLES
  what,       \* the state path this check is about
  level,      \* what there is at each level of the chain
  file,       \* the entries of the policy directory
  pc,         \* where the walk is, or the verdict it came to
  next,       \* the ancestor it looks at next
  unread,     \* the entries of the directory it has not come to
  stumbled    \* history: it could not examine something

tree == <<what, level, file>>
vars == <<tree, pc, next, unread, stumbled>>

Walking == {"leaf", "list", "files", "ancestors"}

TypeOK ==
  /\ what \in {"policies", "audit log", "key"}
  /\ level \in [Levels -> Facts \cup {Absent}]
  /\ file \in [Files -> Facts \cup {Absent}]
  /\ pc \in Walking \cup {"idle", "trusted", "refused"}
  /\ next \in Levels
  /\ unread \subseteq Files
  /\ stumbled \in BOOLEAN

-----------------------------------------------------------------------------
(* The tables of the code *)

\* Mutant: modes are the whole check.
ForeignNever(facts) == FALSE

\* foreign_owner: neither this user nor root.
Foreign(facts) == facts.owner \notin {"us", "root"}

\* loose_writers: sticky is no mitigation, a new file is a new policy.
LooseWriters(facts) == facts.mode \cap {"gw", "ow"} # {}

\* Mutant: a sticky ancestor is judged like the directory itself.
LooseAncestorSticky(facts) == LooseWriters(facts)

\* loose_ancestor_writers: sticky stops the renaming of what others own.
LooseAncestor(facts) == "sticky" \notin facts.mode /\ LooseWriters(facts)

\* loose_key_access: any access at all, 0o070 and 0o007.
LooseKey(facts) == facts.mode \cap {"gr", "gw", "gx", "or", "ow", "ox"} # {}

\* judge_component, judge_private_key, refuse_a_foreign_owned_audit_log
LeafRefused(facts) ==
  \/ Foreign(facts)
  \/ what = "policies" /\ LooseWriters(facts)
  \/ what = "key" /\ LooseKey(facts)

\* A policy file; what is no regular file is not loaded, and not judged.
FileRefused(facts) == ~facts.dir /\ (Foreign(facts) \/ LooseWriters(facts))

\* judge_ancestor: nothing lies below what is no directory.
AncestorRefused(facts) == facts.dir /\ (Foreign(facts) \/ LooseAncestor(facts))

-----------------------------------------------------------------------------
(* The walk *)

\* A level exists below directories only.  The policy directory is one, and the other
\* two state paths are files.
WellFormed ==
  /\ level[0] # Absent /\ level[0].dir
  /\ \A c \in Levels \ {0} : level[c] # Absent => level[c - 1] # Absent /\ level[c - 1].dir
  /\ level[Depth] # Absent => level[Depth].dir = (what = "policies")
  /\ (what # "policies" \/ level[Depth] = Absent) => \A n \in Files : file[n] = Absent

\* Any tree.
Init ==
  /\ what \in Whats
  /\ level \in [Levels -> Facts \cup {Absent}]
  /\ file \in [Files -> Facts \cup {Absent}]
  /\ WellFormed
  /\ pc = "idle"
  /\ next = 0
  /\ unread = {}
  /\ stumbled = FALSE

\* check, check_private_key, and the gate the watcher calls before a reload
Begin ==
  /\ pc = "idle"
  /\ pc' = IF what = "audit log" THEN "ancestors" ELSE "leaf"
  /\ next' = Depth - 1
  /\ UNCHANGED <<tree, unread, stumbled>>

\* An I/O error is a refusal: an unknown mode counts as a loose one.
CannotExamine ==
  /\ pc \in Walking
  /\ pc' = "refused"
  /\ stumbled' = TRUE
  /\ UNCHANGED <<tree, next, unread>>

AfterLeaf == CASE what = "policies"  -> "list"
               [] what = "key"       -> "ancestors"
               [] what = "audit log" -> "trusted"

\* The path itself.  A log that is not there yet, or cannot be, is the open's business;
\* anything else that is not there CannotExamine.
JudgeLeaf ==
  /\ pc = "leaf"
  /\ \/ level[Depth] = Absent /\ what = "audit log" /\ pc' = "trusted"
     \/ /\ level[Depth] # Absent
        /\ pc' = IF LeafRefused(level[Depth]) THEN "refused" ELSE AfterLeaf
  /\ UNCHANGED <<tree, next, unread, stumbled>>

\* read_dir
ListFiles ==
  /\ pc = "list"
  /\ pc' = "files"
  /\ unread' = {n \in Files : file[n] # Absent}
  /\ UNCHANGED <<tree, next, stumbled>>

\* One entry, in whatever order the directory has them.
JudgeFile(n) ==
  /\ pc = "files"
  /\ n \in unread
  /\ unread' = unread \ {n}
  /\ pc' = IF FileRefused(file[n]) THEN "refused" ELSE "files"
  /\ UNCHANGED <<tree, next, stumbled>>

FilesJudged ==
  /\ pc = "files"
  /\ unread = {}
  /\ pc' = "ancestors"
  /\ UNCHANGED <<tree, next, unread, stumbled>>

\* current = ancestor.parent()
Up ==
  IF next > 0 THEN next' = next - 1 /\ UNCHANGED pc
  ELSE UNCHANGED next /\ pc' = IF what = "audit log" THEN "leaf" ELSE "trusted"

\* A component looked up below something that is no directory.
NotADirectory(c) == \E k \in 0..(c - 1) : level[k] # Absent /\ ~level[k].dir

\* refuse_on_untrusted_ancestors, one turn.  What does not exist yet is skipped; a
\* lookup that fails in any other way is not.
JudgeAncestor ==
  /\ pc = "ancestors"
  /\ \/ /\ level[next] = Absent
        /\ ~NotADirectory(next)
        /\ Up
        /\ UNCHANGED stumbled
     \/ /\ level[next] = Absent
        /\ NotADirectory(next)
        /\ pc' = "refused"
        /\ stumbled' = TRUE
        /\ UNCHANGED next
     \/ /\ level[next] # Absent
        /\ AncestorRefused(level[next])
        /\ pc' = "refused"
        /\ UNCHANGED <<next, stumbled>>
     \/ /\ level[next] # Absent
        /\ ~AncestorRefused(level[next])
        /\ Up
        /\ UNCHANGED stumbled
  /\ UNCHANGED <<tree, unread>>

Next ==
  \/ Begin
  \/ CannotExamine
  \/ JudgeLeaf
  \/ ListFiles
  \/ \E n \in Files : JudgeFile(n)
  \/ FilesJudged
  \/ JudgeAncestor

Spec == Init /\ [][Next]_vars

-----------------------------------------------------------------------------
(* What the file system lets another local user do.  Group bits count: nothing tells a
   private group from a shared one.  What lies above hides nothing: a directory may have
   been opened before it was closed to others. *)

\* Add names to a directory: it takes the write and the search bit of one class.
MayAdd(dir) ==
  /\ dir # Absent
  /\ dir.dir
  /\ \/ dir.owner = "other"
     \/ {"gw", "gx"} \subseteq dir.mode
     \/ {"ow", "ox"} \subseteq dir.mode

\* Rename or unlink an entry of it: restricted deletion under a sticky bit.
MayRemove(dir, entry) ==
  /\ MayAdd(dir)
  /\ "sticky" \in dir.mode => "other" \in {dir.owner, entry.owner}

\* Change the mode of what is at level c, or put something else in its place.
InReach(c) ==
  /\ level[c] # Absent
  /\ \/ level[c].owner = "other"
     \/ c > 0 /\ MayRemove(level[c - 1], level[c])

\* Change what the path holds: add a policy, read or write the key.
LeafInReach ==
  /\ level[Depth] # Absent
  /\ \/ what = "policies" /\ MayAdd(level[Depth])
     \/ what = "key" /\ level[Depth].mode \cap {"gr", "or", "gw", "ow"} # {}

\* Rewrite or replace a policy file.
FileInReach(n) ==
  /\ file[n] # Absent
  /\ ~file[n].dir
  /\ \/ file[n].owner = "other"
     \/ file[n].mode \cap {"gw", "ow"} # {}
     \/ MayRemove(level[Depth], file[n])

\* What leads to the path, and the path itself: nothing lies below a non-directory.
Chain == {c \in Levels : level[c] # Absent /\ (c = Depth \/ level[c].dir)}

(* What a passed check is worth: whoever is neither this user nor root can neither
   replace nor chmod any component of the chain, add a policy, touch one, nor read the
   key.  It takes all the steps of the walk together: the ancestors' sticky exemption
   is sound only because the entry below was found to be ours. *)
TrustedIsOutOfReach ==
  pc = "trusted" =>
    /\ \A c \in Chain : ~InReach(c)
    /\ ~LeafInReach
    /\ \A n \in Files : ~FileInReach(n)

\* A key that others may execute and nothing else.
KeyOnlyExecutable ==
  /\ what = "key"
  /\ level[Depth] # Absent
  /\ level[Depth].mode \cap {"gr", "gw", "or", "ow"} = {}
  /\ level[Depth].mode \cap {"gx", "ox"} # {}

\* A directory that a class of others may write and none may write and search.
Unsearchable(dir) ==
  /\ dir # Absent
  /\ dir.dir
  /\ dir.mode \cap {"gw", "ow"} # {}
  /\ ~MayAdd(dir)

(* And it refuses nobody over nothing: a refusal that is no I/O error names a tree
   another local user can change -- a sticky /tmp, a root-owned pack or an editor's
   directory never stops the daemon.  Two refusals go further than that, because the masks
   do not ask what a bit is worth alone (isolation.rs:309-316, 635-645): a key with nothing
   but an execute bit, and a directory that is writable where it cannot be searched. *)
RefusedIsInReach ==
  (pc = "refused" /\ ~stumbled) =>
    \/ \E c \in Levels : InReach(c)
    \/ \E c \in 0..(Depth - 1) : MayAdd(level[c]) /\ "sticky" \notin level[c].mode
    \/ LeafInReach
    \/ \E n \in Files : FileInReach(n)
    \/ KeyOnlyExecutable
    \/ Unsearchable(level[Depth])
    \/ \E c \in 0..(Depth - 1) : Unsearchable(level[c]) /\ "sticky" \notin level[c].mode
=============================================================================
