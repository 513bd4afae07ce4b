# nono-cedar-pdp in TLA+

A formal model of the policy decision point under `src/`: a daemon that answers
approval requests of the nono sandbox over HTTP, decides them with a Cedar policy set
that it reloads while it runs, and records every decision and every policy set in one
JSONL audit trail. The modules here model the parts of it that keep state or run
concurrently, TLC checks them on small instances, and TLAPS proves the safety
properties that matter most for every value of the constants.

Paths below are relative to the repository; `audit.rs:560` means
`src/src/audit.rs:560`.

## 1. Inventory

| component | state it keeps | operations | what is hard | what makes it correct |
|---|---|---|---|---|
| **audit log sink** (`audit.rs`) | the open handle, `unterminated`, `last_size`, behind a mutex; the file itself | `AuditLog::open`, `append` (behind `record`, `record_rejected`, `record_policy_set`) | rotation, copytruncate, short writes, failing truncate/stat, kills, a second process on the file | records are never fused or lost; they go where the path points; the shrink warning is exact |
| **policy loading and swap** (`cedar/engine.rs`) | the active `LoadedPolicies` in an `ArcSwap`, its generation and content hash | `bootstrap`, `load_dir`, `load_entries`, `checked`, `reload`, `snapshot`, `evaluate` | the directory changes between listing and reading; a load that fails half way | one usable set decides; it is replaced whole; the hash is that of the bytes that decide |
| **policy watcher** (`watcher.rs`) | the channel of events, the debounce clock, `Provenance` | `spawn`'s loop: receive, drain, re-check, reload, record | lost wakeups, endless event streams, errors of the backend, a swallowed append | every announced edit is dealt with; a drain ends; the trail and `/healthz` tell the truth |
| **approval endpoint** (`server.rs`) | none of its own; one task per request | `approve`: header gate, guard, body (await), parse, evaluate, record, answer | interleaving with the swap and with its record; disconnects; kills | one line per decision, tied to the set that made it; the set is one in force after the await |
| **health endpoint** (`server.rs`) | `AppState::last_reload` | `healthz` | two reads that are not one | one answer speaks of one attempt, the last on the trail |
| **trust checks** (`isolation.rs`) | none | `check`, `check_private_key`, `refuse_untrusted_policy_dir`, the walk to the root | rules of one component that rest on those of another; checked, then used | what another user can change is not trusted, and nothing else is refused |
| **startup and command line** (`main.rs`) | the resolved paths, the warnings | `serve`, `check`, `validate` | symlinks repointed between two steps; the order of refusals, loads and the watch; what a refused or one-shot command leaves | what was checked is what is used; nothing is served, left behind or reported as a success that was not earned; `at_risk` is honest |
| **endpoint path** (`endpoint_path.rs`) | none | repeated decoding, dot segments | layers of encoding, upstreams that differ | a path that a policy decides means what it says |
| **adapter** (`adapter/nono_webhook.rs`, `wire.rs`) | none | `parse`, `scrape_context` | identity taken from the wire | no request is decided by, or recorded under, somebody else's identity |
| **query and decision** (`query.rs`, `decision.rs`, `sanitize.rs`) | none | `Decision::from_response` | a policy that errs is skipped | an allow does not rest on a skipped policy |
| **entities and schema** (`cedar/entities.rs`, `cedar/schema.rs`) | none | building Cedar values | quoting; what `argv_tail` joins | the caller is in its own session, the session in its agent; a name stays data |
| **lints** (`cedar/engine.rs`) | none | `lint_arg_matching`: two walks over the syntax tree of a policy | every operator and nesting of Cedar's expressions | a policy that over-matches, or never matches, is not loaded in silence; a sound one is not linted |
| **TLS** (`server.rs`) | the key pair; a thread that accepts | loading and self-test before the bind | files rotated in between; a handshake that never comes | the pair that was proved is the one that serves; the start ends |
| **configuration** (`config.rs`) | none | TOML, `agent_for` | -- | loopback only |

How they interact: `serve` checks the tree, loads the first set, opens the log,
records the set, starts the watcher thread and then accepts requests. The watcher
thread is called back by the notify backend through an unbounded channel; it swaps the
set with one atomic store and then appends a `policy-set` line and stores
`last_reload`. Request tasks load the active set without a lock and append decision
lines; the log's mutex serializes appends only. `check --audit` is another process
with the same log, and no lock is between the two.

The complete list of what is hard to test is `hazards` in PROJECT.json, each at its
line.

## 2. The modules

| module | models | composes |
|---|---|---|
| `HotReload` | what hot reload promises: one usable set at a time, replaced whole, recorded before the next | -- |
| `PolicyReload` | startup, loader, swap, watcher thread, trust re-check, provenance; the operators editing the directory | implements `HotReload` |
| `Debounce` | the timed drain inside the watcher's loop | justifies the untimed `Drain`/`EndDrain` of `PolicyReload` |
| `DebounceProofs` | theorems about `Debounce` | |
| `AuditLog` | the sink, byte group by byte group, and the file system under it | -- |
| `AuditLogProofs` | theorems about `AuditLog`: handles, sizes, the shrink warning; the lines of a file | |
| `Pdp` | the daemon: request handlers and `/healthz` beside the loading thread, on one trail | extends `PolicyReload` |
| `PdpProofs` | theorems about `PolicyReload`, and about `Pdp` with what they say of its loading thread | |
| `Isolation` | the trust checks: the walks over a state path, against what the file system allows | gives `loose` of `PolicyReload` and the checks of `Startup` their meaning |
| `IsolationProofs` | theorems about `Isolation` | |
| `Startup` | the three commands; `run_serve` and `serve` up to the bound listener, with the TLS self-test | `PolicyReload`, `AuditLog` and `Isolation` say what its steps do inside |
| `StartupProofs` | theorems about `Startup` | |
| `EndpointPath` | the decode passes of `ambiguity`, on characters | its verdict is the `ambiguous` of `Approval` |
| `EndpointPathProofs` | theorems about `EndpointPath`, and the induction they need | |
| `ArgMatching` | the lints on a policy, and what Cedar makes of the same policy and a command | the arguments that `Approval` leaves out |
| `ArgMatchingProofs` | theorems about `ArgMatching`, with induction and recursion over texts and trees | |
| `Approval` | one request as data: gate, adapter, entities, Cedar's answer, decision | `Pdp` is the same path with its interleavings |
| `ApprovalProofs` | theorems about `Approval` | |
| `MC*` | the instances TLC checks | |

### PolicyReload

One thread of control loads policies: `run_serve` until the watch is up, the watcher
thread after that. `pc` says where it is:

    startup   check -> entries -> judge* -> list -> read* -> trail -> watch -> recv
    reload    recv -> drain -> check -> entries -> judge* -> list -> read* -> trail
              -> health -> recv

| action | code |
|---|---|
| `Recheck` | `isolation::check` at startup, `refuse_untrusted_policy_dir` before a reload, one component per step: `JudgeDirectory`, then `ListEntries` and `JudgeEntry`, `SkipEntry` or `EntryGone` for each, then `JudgeAncestor`; `RecheckFails`: what cannot be examined is refused |
| `List`, `ListFails` | `read_dir` and the skipping of what is no policy file |
| `ReadEntry`, `ReadFails` | one turn of `load_entries`: read, digest, parse |
| `Adopt`, `CheckFails` | `checked`, then the `ArcSwap` store |
| `RecordTrail`, `RecordHealth` | `Provenance::record`: the trail, then `last_reload` |
| `StartWatch`, `GiveUp` | `watcher::spawn`; a startup step that fails ends `serve` |
| `Receive`, `Drain`, `EndDrain` | `rx.recv`, `rx.recv_timeout` with an event, the end of the drain |
| `Edit`, `Touch`, `Chmod`, `Swap`, `WatchError`, `Restart` | editors, operators, the notify backend, the process' life |

`dir` is the directory, `queue` the channel, `active` is `Engine::current`, `trail` the
`policy-set` lines, `lastReload` is `AppState::last_reload`. `read` and `digest` are
kept apart although the code fills them from one buffer, because that is what the
hash's honesty rests on. A file's text is a value; the sets `Broken`, `Invalid` and
`Blank` say what the loader does with it. The content hash is the function it
hashes: `ContentDigest` frames names and bytes with their lengths, so equal inputs to
SHA-256 mean equal files, and collisions of SHA-256 itself are left out. `loose` says which
components of the tree (the directory, its files, and one ancestor that stands for all) others
may write at the moment; they are chmodded, replaced and renamed between any two looks of the
check. `unseen`, `tight` (what was seen tight since the drain ended), `refusedFor`, `stumbled` and
`swallowed` are history that only properties read.

### Debounce

The drain with a clock. `now` is `burst_started.elapsed()` in ticks; a thread that can
run since `due` runs at most `Lateness` ticks later. `ComputeWait` and `StartWait` are
apart because `recv_timeout` reads the clock again. One tick may stand for any length of
time; the proofs hold for every `DEBOUNCE`, `CEILING` and `Lateness`.

### AuditLog

Each process takes `append` in the steps
`reattach -> measure -> write -> (rollback) -> account`; outsiders may rotate or cut
the file, and other processes may append, between any two of them. A record is two
units, so that a write cut short can end before, inside or after it: the behaviour
depends only on whether a file ends in a newline and on lengths, and two units are the
fewest that tell "half a record" from "a record without its newline". `SetLen` grows a
file with zeros as `set_len` does. `Faults` chooses which system calls may fail;
`Readable` says whether `open_append(path, true)` or only its write-only fallback
succeeded. A kill within a `write` is a short write followed by `Crash`. `Own` gives each
process its records: `serve` has any number, `check --audit` has one.

History, which no action of the code reads: `drift` is by how much others (outsiders, or a
second process) changed the length of a process' file since it accounted for it; `shared`
are the files two processes had open at once, `short` those a write came up short in,
`forgot` those in which a break went out of mind, `cut` those an outsider truncated.

### Pdp

Extends `PolicyReload` by one handler per request. An approval goes `gate -> guard -> body
-> evaluate -> record -> answer`, with the one await in `body`; a poll of `/healthz` goes
`snapshot -> reload`, the two loads of `healthz`. `log` is the whole trail, decision
and `policy-set` lines in their order. `counted` is the snapshot the guard or the poll
counted; the guard's is dropped before the await and taken anew in `evaluate`. `current`
and `raced` are history.

### Isolation

A state path is a chain of levels from the root to the path itself; each level has an
owner, mode bits and is a directory or not, or does not exist. `what` tells the three
checks apart: the policy directory (leaf, listing, files, ancestors), the TLS key (leaf,
ancestors) and the audit log (ancestors, then the file, which may be missing). The tables
of the code (`Foreign`, `LooseWriters`, `LooseAncestor`, `LooseKey`) stand apart from what
they are measured against, the permissions of a POSIX file system (`MayAdd`, `MayRemove`,
`InReach`): who may add a name to a directory (with the write and the search bit of one
class), who may remove one under a sticky bit, who may chmod. Modes are sets of the read, write
and execute bits of the group and of the others, and the sticky bit. The tree is any tree with directories above what exists (`WellFormed`), and it
stands still during the walk. A tree that changes after its check is the subject of
`PolicyReload`.

### Startup

`conf.command` is one of the three commands (`check` with or without `--audit`), and `pc` is
the step of it that is next. `target` says what each configured path leads to and `content`
what the TLS files hold; `Repoint` and `Rewrite` may change them between any two steps.
`dangles` says that the configured audit log is a symlink to a file that is not there:
`absolutize` resolves its directory and keeps the name, so `resolved` holds the `Link`
itself, which `Leads` follows again at each use. `resolved` is what the daemon holds after
`canonicalize`, and `Look` notes on which object a step acted. `conf.inside` is what lies in
the working directory, `warned` the warnings about it, and `atRisk` what the record of the
bootstrap says of them. `Refuse` is the error of any step that returns one. The self-test is
`Connect`, `Handshake`, `Join` on the starting thread and `PeerEnds` on the accepting one.
`OneShot` are the steps of `validate` and `check` after their configuration.

### EndpointPath

A path is a sequence of characters, with the hexadecimal digits needed to spell what matters.
One action is one outcome of a turn of the loop. `Decoded` and `HasDotSegment` are
`percent_decode` and `dot_segment`: `Pushed` is one turn of the `while` of the former, on its
position and its output, and `Split` goes through a text one character at a time. The
properties are stated with another reading of the path, that of the upstreams: `After[k]` is
what one has after `k` passes that rejects what cannot be decoded (one path, or none any more),
`AfterKeeping[k]` what one has that keeps it as data and goes on (`LeftAsData`), `Seen` what it
takes for segments (backslashes or not, parameters or not), and `Resolve` is RFC 3986's
`remove_dot_segments`.

### ArgMatching

A policy is an effect, `when` or `unless`, and a syntax tree with the operators that touch the
arguments of a command: `like`, `==`, `!=`, the three memberships, `&&`, `||`, `!`. `Load`
lints it as `lint_arg_matching` does: `UnpinnedRead` is `unpinned_argv_tail_reads`,
`PathLiterals` is `args_membership_path_literals`, and `Subtree` is what the two walks of the
JSON come to, from a node to its `Children`. `Ask` builds a command from a request (`ArgvTail`,
`Uid` with `Escape`) and has the tree evaluated. `CedarId`, `Matches` and `Holds` are Cedar's
side: how a quoted id is read back (`Read`, one character at a time), how much of a text a
pattern has matched after each of its elements (`Reached`), and what the operators mean. The
properties are stated with a third reading, the author's: `Spelled` are the whole tokens a
pattern spells out before its first wildcard, `Words` the arguments after the program as they
are, and `Spoken` their tokens, one argument at a time; the two are the same where no argument
holds a space (`Unbroken`). `Nodes` are the nodes of all conditions and `Height` says how high each
stands, so that functions can be defined node by node. `ConstantsAssumption` says that conditions
are typed as strict validation has them (`engine.rs:472`), that a caller and the arguments
are texts, and that the first argument is a path, which `entities.rs:52-54` says of it. A
payload whose first argument is a bare program name, as in the example of the repository's
README, is not among the queries: of those the theorems say nothing.

### Approval

`Gate`, `Parse` or `Reject`, `DenyUnasked` or `Authorize`. Policies are chosen when they are
consulted: an effect, a principal in the scope, and a condition that holds, fails or errs.
Cedar's authorizer is written down as `CedarAllows` and `Reasons` (an external definition:
a satisfied forbid wins, a policy that errs is skipped), and what the code makes of its answer is
`FromResponse`. `Escaped` is `control_escape` on backend names. A body of shape `anonymous`
is not JSON, or JSON that names no backend: `scrape_context` finds no agent in it, and the
record has `NoAgent`.

## 3. What the runs check

| run | instance | question |
|---|---|---|
| `audit_log` | `serve` with 2 records and `check` with 1, 2 inodes, all faults, 1 meddling, 1 kill (6.6 million states) | do records survive, stay whole and go where the path points, also beside a second process, and is the shrink warning exact? |
| `audit_masked_break` | 1 process, 3 records, truncate may fail | is "one record per line" kept? No: finding 1 |
| `reload` | 2 files, texts good/bad/blank, 2 changes, 1 restart, all faults | (2.4 million states) no announced edit lost, what was not adopted told, hash, trail and health honest, nothing adopted past a component that stayed loose, `HotReload` implemented; edits take effect |
| `reload_unannounced` | as above, without I/O errors | is every edit dealt with? No: finding 3 |
| `debounce` | DEBOUNCE 3, CEILING 10, Lateness 2, 2 events queued | does the drain end in time, and report truthfully? |
| `pdp` | 1 request or poll, 1 file, texts good/blank, 2 changes, 1 restart | is the deciding set one in force, is attribution wrong only in the one race, is the empty set unreachable; one line per decision; does `/healthz` tell of the last attempt? |
| `pdp_attribution` | 1 request, 1 change | does the last loaded line name the decider? No: finding 2 |
| `isolation` | 3 levels, 1 policy file, 6 modes, 3 owners, all three paths (1.3 million states) | is a trusted path out of reach, and a refused one in reach? |
| `endpoint_path` | all concatenations of 3 of 18 pieces, 2 decode passes | does a clear path mean itself to every upstream (of those that keep an undecodable escape, unless the search ended there), has each refusal a reason, does the loop end? |
| `startup` | 4 commands, 2 objects, 2 certificates, TLS or not, a log that dangles or not, 2 working directories | one object under each name, nothing unearned is served, left behind or called a success, `at_risk` is honest, every command ends |
| `arg_matching` | 796 policies with patterns up to 3 characters, 2 programs with up to 2 arguments, 40 names | does a permit that is not linted approve only what it names, is every lint earned, does the shim's path matter where it is not linted, are names data? |
| `approval` | 3 backends, 2 sessions, 3 labels, 2 policies | is an allow beyond doubt, is a request decided by its own policies only, and a rejected one recorded under its own agent? |

Why the bounds are enough. The sink's invariants speak of one file and at most two
adjacent records; three records let a break be left, masked and then hit, or an append of
the second process fall between two of the first. Two inodes are an old and a new log, and
one meddling is a rotation to the other or a truncation; a second of either meets a file
that the properties except (`cut`) or a path that the next append compares afresh. Two files are the fewest for which a set can be mixed from two
edits, and two changes the fewest for an edit during the reload another one caused. One restart covers everything a restart
carries over (the directory, the trail, the queue's loss). `CEILING` 10 and `DEBOUNCE` 3
do not divide, so the last wait is truncated; two queued events let the channel be
non-empty after a wake. One request suffices for the properties of `pdp`, which
speak of each request by itself, and handlers share nothing but the trail, to which they
only append. In `isolation`, three levels are a root, the path and one between
them: a rule of the walk relates a level to the one above it, and a non-directory or a missing
level needs one below it. The modes are private, readable, executable, group-writable with and
without the search bit, and world-writable with the sticky bit, so that each row of the code's tables
applies and each exception occurs; the proof has all sets of the seven bits and every depth. In `endpoint_path`, `MaxDecodePasses` is 2 instead of 8, so that three pieces nest
escapes one deeper than is followed; the loop does not depend on the number otherwise. One of the
pieces is a `%25` before a slash, which ends the search of the second pass. Two
objects and two certificates are one that was checked or proved and another; the working directory holds
neither, or one object and the dangling log. In `arg_matching`, three characters are a
letter, the space and the wildcard: a pin is a matter of the two characters around the first
wildcard, and tails of up to five characters have a whole token, a longer one and one in the
middle of an argument. Conditions nest two tests under a connective and a negation. Two policies are a permit and a
forbid that may err. Every bound is a constant
(`MaxEdits`, `MaxCrash`, `MaxMeddle`, `MaxQueued`) that stands in the guard of an action
of the environment only, never of the code.

`CHECK_DEADLOCK FALSE` is set where the bounds on the environment, and nothing in the
code, make the system stop: an idle thread, all requests answered, no records left.
`debounce` checks deadlock.

### Fairness

* `WF_vars(Thread)` in `PolicyReload`: the loading thread is an OS thread that is
  scheduled, and none of its steps waits for anything but the channel.
* `WF_vars(EndDrain)`: a drain ends even if events keep coming. That is what `Debounce`
  shows (`DrainEnds`, `EndsByCeiling`).
* `WF_vars(Thread)` and `SF_vars(Tick)` in `Debounce`: the thread runs and time
  diverges. The strong fairness only rules out infinitely many events in finite time.
* `WF_vars(Next)` in `EndpointPath`: a bounded `for` loop of one thread.
* `WF_vars(Serve \/ OneShot)` in `Startup`: the thread of the command runs, and each of its steps returns; the
  sockets of the self-test have 10 s timeouts. `WF_vars(PeerEnds)`: the accepting thread has a
  connection already when it starts, its socket times out, and the other end is dropped before
  it is joined. Without that order `Join` could wait for ever, which is what the mutant of
  `Settles` shows.
* Nothing is assumed of editors, operators, clients or the notify backend.

## 4. What is proved

All theorems are of the form `Spec => []Inv` or `Spec => [][A]_vars`, for every value of
the constants that the modules' `ConstantsAssumption` (and `NothingAssumption`) admits:
any files, texts, numbers of changes and kills, any times, any number of processes and
inodes, of requests, policies, sessions and agents.

**`PdpProofs`, the loading thread.** `NoLostEdit` is not inductive: a state could be idle with a
stale set because the reading that led to it was stale. The invariant says, for each place
of `pc`, what has been established about the directory unless a change is pending or
unseen: `ReadingMatches` (what was read is what is there), `AttemptMatches` (the outcome
in hand fits the directory), and `Control` (which places occur with a watch, a deciding set
and an outcome). `DigestMatches` carries the hash, `CheckedTight` the trust verdict, and
a second invariant over the trail (`TrailInv`) says where in it the line of the
active set is, before and after it is written. `CheckedTight` follows the check through the
tree: what it has passed was tight at some time since the drain ended, and so was a file that
was not there when the directory was listed, since what is not there is not loose. No later step
takes that back (`RecheckTight`, `LoosensTight`). `StepTold` says that an idle watcher has
stored what its last attempt came to. From these: `Typing`, `NoEditLost`, `HashHonest`, `LooseNotAdopted`, `TrailNamesSet`,
`HealthNotAhead`, `StaleTold`. `LooseNotAdopted` is about each component by itself, because the
check is: a directory that is tight while an ancestor is loose, and loose after it was looked at,
passes if the ancestor is tight by then, though no moment had the whole tree tight. `Implements` is the
refinement: `Init` maps to `HotReload`'s, and every step maps to `Start`, `Replace`,
`Record`, `Stop` or a stutter.

**`DebounceProofs`.** `Punctual` bounds `now` at each place (the clock cannot pass
`due + Lateness`), `TimeoutKept` and `TruncatedAtCeiling` relate the wait to the ceiling
and the deadline, `QuietSinceCall` relates the quiet ticks to the moment the wait began.
They give `Typing` (the subtraction of the ceiling never underflows), `Bounded`,
and `OutcomeHonest`.

**`AuditLogProofs`.** `Control` (a busy process has a handle and a record) and
`PathNamed` (while an append runs, what the path names is among what it named since the
append began) give `Typing` and `Attached`. For the shrink warning, `Accounted` says that a
file is as long as a process left it plus its `drift`, as long as the process has not
measured it: nobody's write, rollback, cut or reopen breaks this sum, because each changes
the length of one file and the drift of the processes that hold it by the same amount. It
gives `WarningExact`. All three hold for any number of processes, whatever records they own.

Neither property of the lines is inductive: nothing in "no line holds
two records" keeps the next write from fusing one. `Knowledge` adds what the processes know.
Call a file suspect when the properties except it. `TailKnown`: whoever has an unsuspected
file open, and is not about to roll back, has `unterminated` set if it ends mid-line, so that
the next write closes the line first (`PieceFusesNothing`). `SizeHeld`: between the measure
and the write, a file that is not shared and was not cut keeps its length, so the size a
rollback returns to is the size the write began at. `RollbackSpares`: every acknowledged record
lies in front of that size (`WholeStays`, `WholeSurvivesCut`). A rollback to more than there is
leaves a hole, which ends mid-line and makes the file suspect (`SetLenUnits`). `OneHandle` and
`ShortFirst` say why the others need not be asked: whoever else has the file open makes it
shared, and whoever rolls back has come up short on it. `WriterKeepsKnowledge` makes this
argument once for the three actions that write. Together with the types and `Control`
this is inductive (`LinesInductive`), and gives `FusedOnlyForgotten` and
`AckedSurvive`.

**`PdpProofs`, the daemon.** Every step of the daemon is a step of `PolicyReload` or leaves its variables
alone (`IsPolicyReload`), so all of its theorems hold of the daemon; `DaemonReloads` says so
of the refinement and of four properties. `ThreadInv` adds what the handlers rely on: a set
in force has passed the guards of the loader (`SetInForceUsable`), the bootstrap's is generation
1 and a reload's never is (`GenerationOfLife`), and the last line of the trail is of the attempt
that `last_reload` speaks of, unless one is being recorded or a line was swallowed
(`LastLineTells`). `PdpInv` says which set the log's last loaded line names, for the set in
force and for each decision about to be recorded (`LogNames`), and follows each request
(`RequestInv`): it is served only while the watch is up, what is in force while it waits is in
its history, a poll that no swap has overtaken still holds the set in force, and it has a line
if and only if it has recorded one. From these: `PdpTyping`, `Attribution`, `DecidesCurrent`,
`OneLineEach`, `AlwaysPolicies`, and the action property `HealthConsistent`.

**`ApprovalProofs`.** `ApprovalInv` says what the places of a request have established: which
header gate it passed, that its query is the one its body stands for, that what matched
applies to that query, and that an allow stands on policies none of which erred. Policies that
do not err resolve only to themselves (`NothingToResolve`), which gives `AllowsBeyondDoubt`;
`CreditsItsOwn` that a policy matches only by its scope; `RejectedLineNamesAgent` that both
paths ask the same table.

**`IsolationProofs`.** `Progress` says, place by place, what the walk has established: the
leaf's verdict after the leaf, that of the files already read, that of the ancestors above
`next`. `PassedIsOutOfReach` then argues about one component at a time: it is ours or root's, and
the directory it is in is either not writable or sticky and not another user's, so that
nobody else may remove it. Given `WellFormed`, this is
`TrustedStaysOutOfReach` for any depth, any files and any modes made of the read, write and
execute bits of group and others and the sticky bit; `TypeInv` says that the
walk never leaves the path. The other direction needs no invariant about the levels passed:
`Grounds` says that a walk that is refused without an I/O error has been refused by one of the
tables, and `GroundsAreReach` goes through their rows. They give `RefusedWithReason`, with the two exceptions
of section 5.

**`StartupProofs`.** `Touched` (every object acted on under a name is the resolved one, and
nothing is acted on under a name that is not resolved), `Resolved` (which names are resolved
where), `Proven` (what the self-test has established about the pair in memory) and `Control`
(what has been done at each step) are inductive together, and give `TypeInv`, `OneObjectAlways` and `NothingUnearnedAlways`.
`Advised` adds that what was warned about is exactly what is used and inside, from the checks
on, for which the resolved paths may not be links; it gives `AtRiskHonestAlways`.

**`EndpointPathProofs`.** What the walk makes of a path it finds by recursion over the path, so
these proofs begin with recursion itself. The library's induction theorems cannot be used, but its
theorem that the naturals are well-founded can: `LeastNumber` gives `Induction` over an interval,
and `Recursion`, that a function defined step by step over one is what its steps say. With them the
lemmas say what the three functions return for every text: `SplitParts` that `Split` cuts
at the separators and nowhere else, `ResolveIs` that `Resolve` keeps what no dot segment
removes, `LoopAtPushed` where the decoder stands after each character it has pushed. They give two facts
about the algorithms: `DotSegmentsAreWhatMatters`, that a path without dot segments is its own
resolution and one with them never is, and `DecodingShortens`, that a pass that changes
a path shortens it. Neither property of the walk is inductive: nothing in "a path that is
clear decodes to itself" says which paths have been looked at. `Traced` does: the path in hand comes
of the original by as many passes as were counted (`OnItsWay`), nothing on the way to it was a
reason to refuse (`NothingBefore`), and the verdict has its reason there (`Grounded`). An upstream
that keeps what it cannot decode has the same path up to there (`KeepingChangesNothing`), and
also after it, unless the search ended at an escape that cannot be decoded. It gives
`ClearMeansItselfAlways` and `RefusedForAReasonAlways`, for every path and every `MaxDecodePasses`.

**`ArgMatchingProofs`.** A condition is a tree and a text a sequence, and every theorem is about all of them.
`LeastNumber` gives induction over an interval, over a text and, by the heights of the nodes, over
a tree (`TreeInduction`), and recursion on each (`Recursion`, `TreeRecursion`); the lemmas
up to `TogetherAppend` say that each recursive function of the module is what its equation says
and what one more character adds to it. From there the argument has four parts.

* `NamesAreReadBack`: escaping puts a backslash before the two characters that mean something, so what has been
  read of an escaped name after each of its characters is that part of the name, inside the quotes.
* `OrdinaryCondition`: a condition whose memberships compare args with literals that are no
  paths cannot tell apart two commands that differ in such a path (`SameButPaths`), and the
  same request under two shims is such a pair (`ShimsDiffer`).
* `PinnedNames`: the tokens of two texts with a space between are the tokens of both
  (`TokensJoined`), hence argv_tail read token by token is the arguments read one by one
  (`SpokenTokens`), and the arguments themselves where none of them holds a space (`SpokenWords`); and what stands in front of a pattern's first wildcard stands in front of
  every text that matches (`MatchedPrefix`). So a pin that holds names whole tokens. By
  `PinnedCondition` a condition with pins only, none of which names how the arguments begin,
  holds for any other argv_tail too; below a negation there is no read at all (`BlindCondition`).
* `NoPinOverMatches`: for every pattern that is no pin there is a text which it matches and in
  which the token under its first wildcard goes on. The text is built along the pattern
  (`MatchesMore`), and the token stays longer than the one spelled out (`OutgrownStays`).

`Consistent` is the inductive invariant: what was logged and asked is what the functions make
of the policy and the request. It gives `NamesStayNamesAlways`, `ShimPathDecidesNothingAlways`,
`QuietPermitNamesItsCommandAlways` (for any `Tails`) and `LintedForAReasonAlways`. The last one promises that a
tail exists, so it needs `Tails` to hold all texts and the alphabet a letter that is not the
space; and it leaves out a policy that asks whether argv_tail differs from itself, which no
tail satisfies. TLC's instance looks for the tail among 31 texts.

Only model-checked: the liveness properties (`EditsTakeEffect`, `DrainEnds`, `Decides`, `Settles`), which need fairness and ENABLED.

## 5. Findings

Each of these is a run that TLC finds violated, with its quotation in PROJECT.json.

1. **A masked break** (`audit.rs:560`, run `audit_masked_break`). A rollback to `size_before`
   clears `unterminated`, although `size_before` is mid-line when the file already ended in a
   broken record. The next record is fused to it. `FusedOnlyAfterForgottenBreak` says that
   nothing else fuses records while one process writes the log.
2. **Attribution** (`server.rs:289`, run `pdp_attribution`). Evaluate-then-record and
   swap-then-record are not ordered, so a decision can stand under the previous set's line.
   `MisattributionNeedsRace` says that this is the only way for the daemon's own lines, up to a
   set whose line was swallowed. Apart from it, `check --audit` appends a decision by a set that it
   loaded itself and never puts on record (`main.rs:249-252`), and no field of the line tells it from
   the daemon's; `Pdp` has one process.
3. **An unannounced edit** (`main.rs:223`, run `reload_unannounced`). The first load is over before
   the watch is up, and nothing compares the directory with what was loaded: an edit in between
   decides nothing until another event, and `/healthz` does not tell. Nor does it of an edit in a
   directory that took the place of the watched one (`watcher.rs:161`): the watch follows the inode
   and the loader the name. `NoLostEdit` says that no other edit is lost.

More are written into the properties as exceptions, at the place where they hold otherwise:

* `HealthBehindTrail` and `HealthTellsLastAttempt` except swallowed appends: `record` stores the
  health status whatever became of the line (`watcher.rs:113`), so `/healthz` may then say
  "loaded" while the trail's last line is another one, though `watcher.rs:107-109` says that the
  two cannot disagree. `HealthTellsLastAttempt` also excepts a poll that a swap overtakes.
* `AckedRecordsSurvive` and `FusedOnlyAfterForgottenBreak` except files that two processes had
  open (`check --audit` beside `serve`) and in which a write came up short: the rollback truncates
  to a size measured earlier and takes the records of the other process with it, or cuts one in
  half (`audit.rs:560`).
* `OneObject` and `AtRiskIsHonest` except an audit log that is a symlink to a missing file when it
  is resolved: `absolutize` keeps the link, and opening the log follows it again, wherever it
  leads by then, although `main.rs:119-126` says that everything below holds only resolved paths.
* `QuietPermitNamesItsCommand` has two. A test under a negation (or in an `unless`): the walk asks
  of a `like` or an `==` what its sides are, not what it stands under (`engine.rs:236-255`), so
  `permit ... when { !(argv_tail == "a") }` is not linted, though `engine.rs:194-197` counts a
  negation among the reads that over-match. And an argument that holds a space: `like "push *"` is
  not linted, as a pin of the first argument, but the space it ends at may be in the argument, and
  it approves the one argument `push --force`. `cedar-policy-evaluation/spec.md:99-107` says that a
  test that pins a whole token is not affected by the flattening; it pins tokens, not arguments.
* `ClearMeansItself` excepts, for an upstream that keeps an escape it cannot decode, the paths whose
  search ended at one. Below the first pass the first such escape ends the search of the whole path
  (`endpoint_path.rs:108-116`): `a%25/%252e%252e/b` is cleared, because the second pass meets `%/`,
  and an upstream that keeps that as data and decodes twice finds `..` behind it, though
  `endpoint_path.rs:71-73` says that traversal is looked for at every decode depth.
* `NothingUnearned` asks for the adoption to be on record or lost on the way there: an append that
  fails is swallowed (`audit.rs:449-451`), and the daemon serves a set that the trail does not name.
* `RefusedIsInReach` excepts a key with an execute bit and no more (0610, 0701), which nobody
  else can read or write, and a directory that a class of others may write but not search
  (`isolation.rs:309-316`, `isolation.rs:635-645`): the masks do not ask what a bit is worth alone.
* `RejectedNamesSameAgent` excepts backends that `control_escape` changes: `scrape_context` looks
  the escaped name up in the agent map (`nono_webhook.rs:72`), and `parse` the name as sent, so
  the two lines may name different agents.
* `LintedForAReason` excepts a membership that looks for argv_tail in a set of literals: the walk
  counts it among the reads that "can be satisfied by text the author did not name"
  (`engine.rs:194-197`), though the set names whole texts as `==` does.
* `ShimPathDecidesNothing` excepts a membership with args on the right (`["a"].containsAll(resource.args)`),
  which the walk does not look at (`engine.rs:301-306`) and the shim's path decides, and
  argv_tail looked for in args, which is no literal.

## 6. What is left out

Cedar itself (parsing, validation, authorization) is a library: texts and requests
are classified by what it answers. Wording, formatting and the fields of records are left
out; so are HTTP, the TLS handshake (any outcome for a believed certificate, a failure for another) and TOML, which are libraries'. Of Cedar's expressions `ArgMatching` has the operators that touch the arguments of a
command; the attributes and the context of a request that are copied as they are sent are
left out. The trust checks are modelled on a tree that stands still while they run and without the
symlink chains of single policy files; a TOML file is parsed in one pass and has no model. Out-of-range behaviour of `usize`/`u64` counters is left out: the generation
would need 2^64 reloads. The notify backend is taken at its word for the changes it
announces; that it reports no reads is assumed, without which each reload would cause the next, and
the loss of events together with a backend's error is not modelled.

## 7. Plan

Done: `HotReload`, `PolicyReload`, `Debounce`, `AuditLog` (with two processes), `Pdp` (with
`/healthz`), `Isolation`, `Startup` (with all three commands), `EndpointPath`, `ArgMatching`,
`Approval` and the proofs above, which cover every safety property of the passing runs. Next, the most important first:

1. Loss of events with a watch error.
2. `Debounce` as an implementation of the untimed drain of `PolicyReload`.
3. `Isolation`: policy files behind symlinks, with the chain of their targets.
