------------------------------- MODULE Startup -------------------------------
(***************************************************************************)
(* The program (src/src/main.rs): its three commands, and above all how    *)
(* the daemon starts (run_serve, src/src/server.rs serve): a line of       *)
(* steps, most of which may refuse to go on, up to the bound listener.     *)
(* The configured paths lead through symlinks and the TLS files can be     *)
(* rewritten, and both may happen between any two steps.                   *)
(*                                                                         *)
(*   serve      config -> policy_dir -> audit_log -> [cert -> key]         *)
(*                -> checks -> [key check] -> bootstrap -> open -> record  *)
(*                -> watch -> [read cert -> read key -> connect            *)
(*                -> handshake -> join] -> bind -> serving                 *)
(*                                      [..] with a [tls] table only       *)
(*   validate   config -> load -> exited                                   *)
(*   check      config -> load -> fixture -> decide -> [append] -> report  *)
(*                -> exited             [..] with --audit only             *)
(*                                                                         *)
(* What a check looks for is in Isolation, what a load does in             *)
(* PolicyReload, what opening the log does in AuditLog; here they pass or  *)
(* do not, and it matters what they are done to.                           *)
(***************************************************************************)
CONSTANTS
  Objects,    \* what a symlink can lead to: files and directories
  Contents,   \* certificates, and the keys that belong to them
  Believed,   \* the certificates nono's verifier takes for the bind address
  Insides,    \* what can lie in the working directory: sets of objects
  Link,       \* the configured audit log itself, as a symlink to a missing file
  None

ASSUME ConstantsAssumption ==
  /\ Believed \subseteq Contents
  /\ None \notin Objects \cup Contents
  /\ Link \notin Objects \cup {None}
  /\ Insides \subseteq SUBSET (Objects \cup {Link})

Commands == {"serve", "validate", "check", "check_audit"}

Names == {"policy_dir", "audit_log", "cert", "key"}

VARIABLES
  conf,       \* the command; is there a [tls] table, is bind loopback; and what lies
              \* inside the working directory, nothing if it cannot be read
  target,     \* what each configured path leads to now
  dangles,    \* the configured audit log is a symlink to a file that is not there
  content,    \* what the objects hold now
  pc,         \* the step to take next
  resolved,   \* the resolved paths the daemon holds
  pair,       \* the certificate and the key it has read
  peer,       \* the accepting thread of the self-test
  believed,   \* what the handshake of the self-test came to
  adopted,    \* there is a policy snapshot
  watching,   \* the watcher runs
  trail,      \* the audit log file: none, open, with the record of the bootstrap or of a
              \* check's decision, or without it because that could not be written
  bound,      \* how the listener serves: not at all, http or https
  warned,     \* the paths the operator was warned about
  atRisk,     \* the at_risk of the bootstrap's record
  verdict,    \* the decision of a check
  exit,       \* the exit code
  seen        \* history: the objects checked or used under each name

world == <<target, dangles, content>>
flags == <<adopted, watching, trail, bound>>
selftest == <<pair, peer, believed>>
advice == <<warned, atRisk>>
outcome == <<verdict, exit>>
vars == <<conf, world, pc, resolved, selftest, flags, advice, outcome, seen>>

Infallible == {"audit_log", "record", "decide", "append", "report"}
Fallible == {"config", "policy_dir", "cert", "key", "checks", "key_check", "bootstrap",
             "open", "watch", "read_cert", "read_key", "connect", "handshake", "bind",
             "load", "fixture"}
Steps == Infallible \cup Fallible \cup {"join", "serving", "exited"}

Confs == [command : Commands, tls : BOOLEAN, loopback : BOOLEAN, inside : Insides]

TypeOK ==
  /\ conf \in Confs
  /\ target \in [Names -> Objects]
  /\ dangles \in BOOLEAN
  /\ content \in [Objects -> Contents]
  /\ pc \in Steps
  /\ resolved \in [Names -> Objects \cup {Link, None}]
  /\ pair \in [cert : Contents \cup {None}, key : Contents \cup {None}]
  /\ peer \in {"none", "running", "done"}
  /\ believed \in BOOLEAN
  /\ adopted \in BOOLEAN
  /\ watching \in BOOLEAN
  /\ trail \in {"none", "open", "recorded", "decision", "lost"}
  /\ bound \in {"no", "http", "https"}
  /\ warned \subseteq Names
  /\ atRisk \in BOOLEAN
  /\ verdict \in {"none", "allow", "deny"}
  /\ exit \in {"none", "success", "failure"}
  /\ seen \in [Names -> SUBSET (Objects \cup {Link})]

Init ==
  /\ conf \in Confs
  /\ target \in [Names -> Objects]
  /\ dangles \in BOOLEAN
  /\ content \in [Objects -> Contents]
  /\ pc = "config"
  /\ resolved = [n \in Names |-> None]
  /\ pair = [cert |-> None, key |-> None]
  /\ peer = "none"
  /\ believed = FALSE
  /\ adopted = FALSE
  /\ watching = FALSE
  /\ trail = "none"
  /\ bound = "no"
  /\ warned = {}
  /\ atRisk = FALSE
  /\ verdict = "none"
  /\ exit = "none"
  /\ seen = [n \in Names |-> {}]

-----------------------------------------------------------------------------
(* The world around *)

Repoint ==
  /\ \E n \in Names, o \in Objects :
       /\ target' = [target EXCEPT ![n] = o]
       /\ dangles' \in IF n = "audit_log" THEN BOOLEAN ELSE {dangles}
  /\ UNCHANGED <<conf, content, pc, resolved, selftest, flags, advice, outcome, seen>>

Rewrite ==
  /\ \E o \in Objects, c \in Contents : content' = [content EXCEPT ![o] = c]
  /\ UNCHANGED <<conf, target, dangles, pc, resolved, selftest, flags, advice, outcome, seen>>

-----------------------------------------------------------------------------
(* run_serve *)

Go(from, to) == pc = from /\ pc' = to

\* An Err at a fallible step: exit, and take nothing back.
Refuse ==
  /\ pc \in Fallible
  /\ pc' = "exited"
  /\ exit' = "failure"
  /\ UNCHANGED <<conf, world, resolved, selftest, flags, advice, verdict, seen>>

\* Config::load, for each of the commands
LoadConfig ==
  /\ conf.loopback
  /\ Go("config", IF conf.command = "serve" THEN "policy_dir" ELSE "load")
  /\ UNCHANGED <<conf, world, resolved, selftest, flags, advice, outcome, seen>>

\* Mutant: the key is looked at and read as it is configured.
ResolveAllButKey(n, next) ==
  /\ Go(n, next)
  /\ resolved' = [resolved EXCEPT ![n] = IF n = "key" THEN None ELSE target[n]]
  /\ UNCHANGED <<conf, world, selftest, flags, advice, outcome, seen>>

\* canonicalize: what a path leads to.  The log need not be there (absolutize): of a
\* symlink that leads nowhere the directory is resolved, and the name stays a symlink.
Resolve(n, next) ==
  /\ Go(n, next)
  /\ resolved' = [resolved EXCEPT ![n] = IF n = "audit_log" /\ dangles THEN Link ELSE target[n]]
  /\ UNCHANGED <<conf, world, selftest, flags, advice, outcome, seen>>

\* Where a path the daemon holds leads: to itself, or through a link that is left in it.
Leads(n) ==
  IF resolved[n] # Link THEN resolved[n] ELSE IF dangles THEN Link ELSE target[n]

Look(names) ==
  seen' = [n \in Names |-> IF n \in names THEN seen[n] \cup {Leads(n)} ELSE seen[n]]

InsideCwd(names) == {n \in names : Leads(n) \in conf.inside}

\* isolation::check
CheckPaths ==
  /\ Go("checks", IF conf.tls THEN "key_check" ELSE "bootstrap")
  /\ Look({"policy_dir", "audit_log"})
  /\ warned' = InsideCwd({"policy_dir", "audit_log"})
  /\ UNCHANGED <<conf, world, resolved, selftest, flags, atRisk, outcome>>

\* Mutant: the warnings about the key are printed and forgotten.
CheckKeyAlone ==
  /\ Go("key_check", "bootstrap")
  /\ Look({"key"})
  /\ UNCHANGED <<conf, world, resolved, selftest, flags, advice, outcome>>

\* check_private_key; its warnings join the others.
CheckKey ==
  /\ Go("key_check", "bootstrap")
  /\ Look({"key"})
  /\ warned' = warned \cup InsideCwd({"key"})
  /\ UNCHANGED <<conf, world, resolved, selftest, flags, atRisk, outcome>>

\* Mutant: the load follows the configured path.
BootstrapAsConfigured ==
  /\ Go("bootstrap", "open")
  /\ seen' = [seen EXCEPT !["policy_dir"] = @ \cup {target["policy_dir"]}]
  /\ adopted' = TRUE
  /\ UNCHANGED <<conf, world, resolved, selftest, watching, trail, bound, advice, outcome>>

Bootstrap ==
  /\ Go("bootstrap", "open")
  /\ Look({"policy_dir"})
  /\ adopted' = TRUE
  /\ UNCHANGED <<conf, world, resolved, selftest, watching, trail, bound, advice, outcome>>

\* To open a link that leads nowhere is to create what it leads to.
OpenLog ==
  /\ Go("open", "record")
  /\ dangles' = (dangles /\ resolved["audit_log"] # Link)
  /\ LET opened == IF resolved["audit_log"] = Link THEN target["audit_log"]
                                                  ELSE resolved["audit_log"]
     IN  seen' = [seen EXCEPT !["audit_log"] = @ \cup {opened}]
  /\ trail' = "open"
  /\ UNCHANGED <<conf, target, content, resolved, selftest, adopted, watching, bound, advice, outcome>>

\* record_bootstrap.  A line that cannot be written is an error in the daemon's own log, and
\* the start goes on without it.
RecordBootstrap ==
  /\ Go("record", "watch")
  /\ trail' \in {"recorded", "lost"}
  /\ atRisk' = (warned # {})
  /\ UNCHANGED <<conf, world, resolved, selftest, adopted, watching, bound, warned, outcome, seen>>

SpawnWatcher ==
  /\ Go("watch", IF conf.tls THEN "read_cert" ELSE "bind")
  /\ Look({"policy_dir"})
  /\ watching' = TRUE
  /\ UNCHANGED <<conf, world, resolved, selftest, adopted, trail, bound, advice, outcome>>

\* The watcher loads the directory again: it checks and reads the path it was given.
Reload ==
  /\ watching
  /\ pc # "exited"
  /\ Look({"policy_dir"})
  /\ UNCHANGED <<conf, world, pc, resolved, selftest, flags, advice, outcome>>

-----------------------------------------------------------------------------
(* serve_https *)

ReadCert ==
  /\ Go("read_cert", "read_key")
  /\ Look({"cert"})
  /\ pair' = [pair EXCEPT !.cert = content[resolved["cert"]]]
  /\ UNCHANGED <<conf, world, resolved, peer, believed, flags, advice, outcome>>

\* with_single_cert refuses a key of another certificate.
ReadKey ==
  /\ Go("read_key", "connect")
  /\ content[resolved["key"]] = pair.cert
  /\ Look({"key"})
  /\ pair' = [pair EXCEPT !.key = content[resolved["key"]]]
  /\ UNCHANGED <<conf, world, resolved, peer, believed, flags, advice, outcome>>

\* The throwaway listener, the connection to it, and then the thread that accepts.
Connect ==
  /\ Go("connect", "handshake")
  /\ peer' = "running"
  /\ UNCHANGED <<conf, world, resolved, pair, believed, flags, advice, outcome, seen>>

\* complete_io on our end: the verifier's answer, or any failure within the timeout.
\* Then the socket is dropped.
Handshake ==
  /\ Go("handshake", "join")
  /\ believed' \in BOOLEAN
  /\ believed' => pair.cert \in Believed
  /\ UNCHANGED <<conf, world, resolved, pair, peer, flags, advice, outcome, seen>>

\* Mutant: the socket stays open and without a timeout.
PeerEndsOnSuccess ==
  /\ peer = "running"
  /\ pc = "join" /\ believed
  /\ peer' = "done"
  /\ UNCHANGED <<conf, world, pc, resolved, pair, believed, flags, advice, outcome, seen>>

\* The thread ends: the handshake is over, its timeout is, or our end is closed.
PeerEnds ==
  /\ peer = "running"
  /\ peer' = "done"
  /\ UNCHANGED <<conf, world, pc, resolved, pair, believed, flags, advice, outcome, seen>>

\* Mutant: a certificate nobody believes is a warning.
JoinRegardless ==
  /\ peer = "done"
  /\ Go("join", "bind")
  /\ UNCHANGED <<conf, world, resolved, selftest, flags, advice, outcome, seen>>

Join ==
  /\ peer = "done"
  /\ Go("join", IF believed THEN "bind" ELSE "exited")
  /\ exit' = IF believed THEN exit ELSE "failure"
  /\ UNCHANGED <<conf, world, resolved, selftest, flags, advice, verdict, seen>>

Bind ==
  /\ Go("bind", "serving")
  /\ bound' = IF conf.tls THEN "https" ELSE "http"
  /\ UNCHANGED <<conf, world, resolved, selftest, adopted, watching, trail, advice, outcome, seen>>

Serve ==
  \/ LoadConfig
  \/ Refuse
  \/ Resolve("policy_dir", "audit_log")
  \/ Resolve("audit_log", IF conf.tls THEN "cert" ELSE "checks")
  \/ Resolve("cert", "key")
  \/ Resolve("key", "checks")
  \/ CheckPaths
  \/ CheckKey
  \/ Bootstrap
  \/ OpenLog
  \/ RecordBootstrap
  \/ SpawnWatcher
  \/ ReadCert
  \/ ReadKey
  \/ Connect
  \/ Handshake
  \/ Join
  \/ Bind

-----------------------------------------------------------------------------
(* run_validate and run_check.  They look at nothing twice, and check no path: they
   answer nobody. *)

Exits(from, code) == Go(from, "exited") /\ exit' = code

\* load_dir, or Engine::bootstrap.  To validate is no more than that.
LoadOnce ==
  /\ adopted' = TRUE
  /\ \/ conf.command = "validate" /\ Exits("load", "success")
     \/ conf.command # "validate" /\ Go("load", "fixture") /\ UNCHANGED exit
  /\ UNCHANGED <<conf, world, resolved, selftest, watching, trail, bound, advice, verdict, seen>>

\* The saved payload is read, and parsed as a request's body is.
ReadFixture ==
  /\ Go("fixture", "decide")
  /\ UNCHANGED <<conf, world, resolved, selftest, flags, advice, outcome, seen>>

Decide ==
  /\ Go("decide", IF conf.command = "check_audit" THEN "append" ELSE "report")
  /\ verdict' \in {"allow", "deny"}
  /\ UNCHANGED <<conf, world, resolved, selftest, flags, advice, exit, seen>>

\* A log that cannot be opened is a warning, a line that cannot be written to it no more
\* than an error in the log, and the decision is reported all the same.
AppendDecision ==
  /\ Go("append", "report")
  /\ trail' \in {"none", "lost", "decision"}
  /\ UNCHANGED <<conf, world, resolved, selftest, adopted, watching, bound, advice, outcome, seen>>

ReportDecision ==
  /\ Exits("report", IF verdict = "allow" THEN "success" ELSE "failure")
  /\ UNCHANGED <<conf, world, resolved, selftest, flags, advice, verdict, seen>>

OneShot == LoadOnce \/ ReadFixture \/ Decide \/ AppendDecision \/ ReportDecision

Next == Serve \/ OneShot \/ PeerEnds \/ Reload \/ Repoint \/ Rewrite

\* Neither thread stops between two steps; nobody need touch the files.
Spec == Init /\ [][Next]_vars /\ WF_vars(Serve \/ OneShot) /\ WF_vars(PeerEnds)

-----------------------------------------------------------------------------
(* Properties *)

(* One object under each name: what was checked is what is loaded, watched, opened and
   read, through any number of reloads, wherever the configured paths lead meanwhile.
   Except for an audit log that was a symlink to a missing file when it was resolved:
   that link is followed again, whenever the log is looked at. *)
OneObject ==
  \A n \in Names : resolved[n] # Link => \A o, p \in seen[n] : o = p

(* Nothing is there that was not earned.  A start refused for its configuration, its
   paths or its policies leaves no audit log behind, and neither does a validate, or a
   check unless it was told to.  For a listener that takes approvals, there is a policy
   set, its adoption is on record or was lost on the way there -- a full disk does not keep
   the daemon from serving (audit.rs:449-451) --, the watcher runs and the address is
   loopback; and with a [tls] table it is https, with the certificate that nono's verifier
   took in the self-test and the key belonging to it, though both files may have been
   rewritten since.  A success is a validated policy directory or an allow. *)
NothingUnearned ==
  /\ trail # "none" => adopted
  /\ trail \in {"open", "recorded"} \/ watching \/ bound # "no" => conf.command = "serve"
  /\ trail = "decision" => conf.command = "check_audit" /\ verdict # "none"
  /\ trail = "lost" => conf.command \in {"serve", "check_audit"}
  /\ bound # "no" =>
       /\ adopted /\ watching /\ trail \in {"recorded", "lost"} /\ conf.loopback
       /\ bound = "https" <=> conf.tls
       /\ conf.tls => pair.cert \in Believed /\ pair.key = pair.cert
  /\ exit = "success" => adopted /\ (conf.command = "validate" \/ verdict = "allow")

(* at_risk in the record of the bootstrap tells the truth about what the daemon uses:
   it is set if and only if the policies, the log or the key it has in hand lie in the
   working directory, the key included although it is checked after the other two and
   its warnings are printed apart. *)
AtRiskIsHonest ==
  trail = "recorded" /\ resolved["audit_log"] # Link =>
    (atRisk <=> \E n \in Names \ {"cert"} : seen[n] \cap conf.inside # {})

(* Every command comes to an end, a start also where the certificate is not believed, and
   whatever ended has said how. *)
Settles == <>(pc = "serving" \/ (pc = "exited" /\ exit # "none"))
=============================================================================
