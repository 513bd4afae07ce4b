---------------------------- MODULE StartupProofs ----------------------------
(***************************************************************************)
(* What Startup promises, for any number of objects and any certificates.  *)
(* The line of steps makes the invariant: each pc says which steps have    *)
(* been taken, and with them what holds of the snapshot, the trail, the    *)
(* watcher and the self-test; the rest is that a resolved path is written  *)
(* once, before anything has been done to what it leads to.                *)
(***************************************************************************)
EXTENDS Startup, TLAPS

Resolving == {"config", "policy_dir", "audit_log", "cert", "key"}
OneShotSteps == {"load", "fixture", "decide", "append", "report"}
TlsSteps == {"read_cert", "read_key", "connect", "handshake", "join"}
AfterWatch == TlsSteps \cup {"bind", "serving"}
AfterRecord == {"watch"} \cup AfterWatch
AfterBootstrap == {"open", "record"} \cup AfterRecord
AfterChecks == {"bootstrap"} \cup AfterBootstrap
AfterPathCheck == {"key_check"} \cup AfterChecks

\* Nothing has been touched while paths are resolved, and then only what they are.
Touched ==
  /\ pc \in Resolving \cup OneShotSteps => ~watching /\ \A n \in Names : seen[n] = {}
  /\ \A n \in Names : resolved[n] # Link => seen[n] \subseteq {resolved[n]}

\* Which paths are resolved by now: to an object, or the log to itself.
Resolved ==
  /\ \A n \in Names : resolved[n] = Link => n = "audit_log"
  /\ pc \notin {"config", "policy_dir", "exited"} \cup OneShotSteps => resolved["policy_dir"] \in Objects
  /\ pc \notin {"config", "policy_dir", "audit_log", "exited"} \cup OneShotSteps =>
       resolved["audit_log"] \in Objects \cup {Link}
  /\ pc \notin (Resolving \ {"key"}) \cup {"exited"} \cup OneShotSteps /\ conf.tls =>
       resolved["cert"] \in Objects
  /\ pc \notin Resolving \cup {"exited"} \cup OneShotSteps /\ conf.tls => resolved["key"] \in Objects

\* What has been done by now.
Done ==
  /\ pc \notin {"config", "exited"} => conf.loopback
  /\ pc \notin {"config", "exited"} \cup OneShotSteps => conf.command = "serve"
  /\ pc \in OneShotSteps => conf.command # "serve" /\ (pc # "load" => conf.command # "validate")
  /\ pc \in {"append"} => conf.command = "check_audit"
  /\ pc \in {"append", "report"} => verdict # "none"
  /\ pc \in AfterBootstrap \cup {"fixture", "decide", "append", "report"} => adopted
  /\ pc \in AfterRecord => trail \in {"recorded", "lost"}
  /\ pc \in AfterWatch => watching
  /\ watching /\ pc # "exited" => pc \in AfterWatch
  /\ trail # "none" => adopted
  /\ trail = "open" => pc \in {"record", "exited"}
  /\ trail = "recorded" => pc \in AfterRecord \cup {"exited"}
  /\ trail \in {"open", "recorded"} \/ watching => conf.command = "serve"
  /\ trail = "decision" => conf.command = "check_audit" /\ verdict # "none"
  /\ trail = "lost" => conf.command \in {"serve", "check_audit"}
  /\ bound # "no" => pc = "serving"
  /\ exit # "none" => pc = "exited"
  /\ exit = "success" => adopted /\ (conf.command = "validate" \/ verdict = "allow")

\* What the self-test has come to.
Proven ==
  /\ pc \in TlsSteps \cup {"cert", "key", "key_check"} => conf.tls
  /\ pc \in {"connect", "handshake", "join"} => pair.key = pair.cert
  /\ pc = "join" /\ believed => pair.cert \in Believed
  /\ pc \in {"bind", "serving"} /\ conf.tls => pair.cert \in Believed /\ pair.key = pair.cert
  /\ bound # "no" => (bound = "https" <=> conf.tls)

\* What has been looked at by now, and warned about if it lies in the working directory.
Judged(n) == seen[n] = {resolved[n]} /\ (n \in warned <=> resolved[n] \in conf.inside)
Unjudged(n) == seen[n] = {} /\ n \notin warned

Advised ==
  /\ "cert" \notin warned
  /\ pc \in Resolving \cup OneShotSteps \cup {"checks", "key_check"} \/ (~conf.tls /\ pc # "exited") =>
       Unjudged("key")
  /\ pc \in AfterPathCheck => Judged("policy_dir") /\ (resolved["audit_log"] # Link => Judged("audit_log"))
  /\ pc \in AfterChecks /\ conf.tls => Judged("key")
  /\ AtRiskIsHonest

Control == Done /\ Proven

IInv == TypeOK /\ Touched /\ Resolved /\ Control /\ Advised

-----------------------------------------------------------------------------

(* The steps a Go leads to are steps. *)
LEMMA StepNames ==
  {"policy_dir", "audit_log", "cert", "key", "checks", "key_check", "bootstrap", "open",
   "record", "watch", "read_cert", "read_key", "connect", "handshake", "join", "bind",
   "serving", "exited", "load", "fixture", "decide", "append", "report"} \subseteq Steps
  BY DEF Steps, Infallible, Fallible

(* Looking at what a path was resolved to leaves one object under its name. *)
LEMMA LookTouchesResolved ==
  ASSUME TypeOK, Touched, UNCHANGED resolved, NEW names \in SUBSET Names, Look(names),
         \A n \in names : resolved[n] \in Objects \cup {Link}
  PROVE  /\ seen' \in [Names -> SUBSET (Objects \cup {Link})]
         /\ \A n \in Names : resolved'[n] # Link => seen'[n] \subseteq {resolved'[n]}
<1>1. \A n \in names : Leads(n) \in Objects \cup {Link}
  BY DEF TypeOK, Confs, Leads
<1>2. \A n \in names : resolved[n] # Link => Leads(n) = resolved[n]
  BY DEF Leads
<1> QED
  BY <1>1, <1>2 DEF TypeOK, Confs, Touched, Look

(* The start begins with nothing resolved, touched or done. *)
LEMMA InitEstablishes == Init => IInv
<1> SUFFICES ASSUME Init PROVE IInv
  OBVIOUS
<1>1. pc \in Steps
  BY DEF Init, Steps, Fallible
<1>2. TypeOK
  BY <1>1 DEF Init, TypeOK, Confs
<1>3. Touched /\ Resolved /\ Control
  BY ConstantsAssumption DEF Init, Touched, Resolved, Control, Done, Proven, Resolving, TlsSteps,
              OneShotSteps, AfterWatch, AfterRecord, AfterBootstrap
<1>4. Advised
  BY DEF Init, Advised, Unjudged, AtRiskIsHonest, Names, Resolving, OneShotSteps, AfterPathCheck,
         AfterChecks, AfterBootstrap, AfterRecord, AfterWatch, TlsSteps
<1> QED
  BY <1>2, <1>3, <1>4 DEF IInv

(* Every step keeps the types, and touches no object but the resolved one. *)
LEMMA StepKeepsTouched == TypeOK /\ Touched /\ Resolved /\ Proven /\ [Next]_vars => TypeOK' /\ Touched'
<1> SUFFICES ASSUME TypeOK, Touched, Resolved, Proven, [Next]_vars PROVE TypeOK' /\ Touched'
  OBVIOUS
<1>1. CASE LoadConfig
  <2>1. pc' \in Steps
    BY <1>1, StepNames DEF LoadConfig, Go
  <2>2. TypeOK'
    BY <1>1, <2>1 DEF LoadConfig, TypeOK, Confs, world, flags, advice, outcome, selftest
  <2>3. Touched'
    BY <1>1 DEF LoadConfig, Go, Touched, Resolving, OneShotSteps, flags
  <2> QED
    BY <2>2, <2>3
<1>2. CASE Refuse
  <2>1. pc' \in Steps
    BY <1>2, StepNames DEF Refuse
  <2>2. TypeOK'
    BY <1>2, <2>1 DEF Refuse, TypeOK, Confs, world, flags, advice, outcome, selftest
  <2>3. Touched'
    BY <1>2 DEF Refuse, Touched, Resolving, OneShotSteps, flags
  <2> QED
    BY <2>2, <2>3
<1>3. ASSUME NEW n \in Names, NEW to \in {"audit_log", "cert", "key", "checks"},
             n \in Resolving, Resolve(n, to)
      PROVE  TypeOK' /\ Touched'
  <2>1. resolved' \in [Names -> Objects \cup {Link, None}]
    BY <1>3 DEF Resolve, TypeOK, Confs
  <2>2. pc' \in Steps /\ pc \in Resolving
    BY <1>3, StepNames DEF Resolve, Go
  <2>3. \A m \in Names : seen[m] = {}
    BY <2>2 DEF Touched
  <2>4. UNCHANGED <<conf, target, dangles, content, pair, peer, believed, adopted, watching,
                   trail, bound, warned, atRisk, verdict, exit, seen>>
    BY <1>3 DEF Resolve, world, flags, advice, outcome, selftest
  <2>5. TypeOK'
    BY <2>1, <2>2, <2>4 DEF TypeOK, Confs
  <2> QED
    BY <2>2, <2>3, <2>4, <2>5 DEF Touched
<1>4. CASE CheckPaths
  <2>1. Look({"policy_dir", "audit_log"}) /\ UNCHANGED resolved
    BY <1>4 DEF CheckPaths
  <2>2. \A n \in {"policy_dir", "audit_log"} : resolved[n] \in Objects \cup {Link}
    BY <1>4 DEF CheckPaths, Go, Resolved, OneShotSteps
  <2>3. /\ seen' \in [Names -> SUBSET (Objects \cup {Link})]
       /\ \A n \in Names : resolved'[n] # Link => seen'[n] \subseteq {resolved'[n]}
    BY <2>1, <2>2, LookTouchesResolved DEF Names
  <2>4. pc' \in Steps
    BY <1>4, StepNames DEF CheckPaths, Go
  <2>5. UNCHANGED <<conf, world, resolved, selftest, flags, atRisk, outcome>>
    BY <1>4 DEF CheckPaths
  <2>6. warned' \subseteq Names
    BY <1>4 DEF CheckPaths, InsideCwd, Names
  <2>7. TypeOK'
    BY <2>3, <2>4, <2>5, <2>6 DEF TypeOK, world, selftest, flags, advice, outcome
  <2>8. Touched'
    BY <1>4, <2>3 DEF CheckPaths, Go, Touched, Resolving, OneShotSteps, flags
  <2> QED
    BY <2>7, <2>8
<1>5. CASE CheckKey
  <2>1. Look({"key"}) /\ UNCHANGED resolved
    BY <1>5 DEF CheckKey
  <2>2. resolved["key"] \in Objects
    BY <1>5 DEF CheckKey, Go, Resolved, Resolving, OneShotSteps, Proven, TlsSteps
  <2>3. /\ seen' \in [Names -> SUBSET (Objects \cup {Link})]
       /\ \A n \in Names : resolved'[n] # Link => seen'[n] \subseteq {resolved'[n]}
    BY <2>1, <2>2, LookTouchesResolved DEF Names
  <2>4. pc' \in Steps
    BY <1>5, StepNames DEF CheckKey, Go
  <2>5. UNCHANGED <<conf, world, resolved, selftest, flags, atRisk, outcome>>
    BY <1>5 DEF CheckKey
  <2>6. warned' \subseteq Names
    BY <1>5 DEF CheckKey, InsideCwd, Names, TypeOK
  <2>7. TypeOK'
    BY <2>3, <2>4, <2>5, <2>6 DEF TypeOK, world, selftest, flags, advice, outcome
  <2>8. Touched'
    BY <1>5, <2>3 DEF CheckKey, Go, Touched, Resolving, OneShotSteps, flags
  <2> QED
    BY <2>7, <2>8
<1>6. CASE Bootstrap
  <2>1. Look({"policy_dir"}) /\ UNCHANGED resolved
    BY <1>6 DEF Bootstrap
  <2>2. resolved["policy_dir"] \in Objects
    BY <1>6 DEF Bootstrap, Go, Resolved, Resolving, OneShotSteps
  <2>3. /\ seen' \in [Names -> SUBSET (Objects \cup {Link})]
       /\ \A n \in Names : resolved'[n] # Link => seen'[n] \subseteq {resolved'[n]}
    BY <2>1, <2>2, LookTouchesResolved DEF Names
  <2>4. pc' \in Steps
    BY <1>6, StepNames DEF Bootstrap, Go
  <2>5. TypeOK'
    BY <1>6, <2>3, <2>4 DEF Bootstrap, TypeOK, Confs, world, flags, advice, outcome, selftest
  <2>6. Touched'
    BY <1>6, <2>3 DEF Bootstrap, Go, Touched, Resolving, OneShotSteps, flags
  <2> QED
    BY <2>5, <2>6
<1>7. CASE OpenLog
  <2>1. resolved["audit_log"] \in Objects \cup {Link}
    BY <1>7 DEF OpenLog, Go, Resolved, Resolving, OneShotSteps
  <2>2. /\ seen' \in [Names -> SUBSET (Objects \cup {Link})]
        /\ \A n \in Names : resolved[n] # Link => seen'[n] \subseteq {resolved[n]}
    BY <1>7, <2>1 DEF OpenLog, TypeOK, Confs, Touched, Names
  <2>3. dangles' \in BOOLEAN /\ trail' \in {"none", "open", "recorded", "decision", "lost"} /\ pc' \in Steps
    BY <1>7, StepNames DEF OpenLog, Go, TypeOK, Confs
  <2>4. UNCHANGED <<conf, target, content, resolved, selftest, adopted, watching, bound, advice, outcome>>
    BY <1>7 DEF OpenLog
  <2>5. TypeOK'
    BY <2>2, <2>3, <2>4 DEF TypeOK, Confs, selftest, advice, outcome
  <2> QED
    BY <1>7, <2>2, <2>4, <2>5 DEF OpenLog, Go, Touched, Resolving, OneShotSteps
<1>8. CASE RecordBootstrap
  <2>1. pc' \in Steps
    BY <1>8, StepNames DEF RecordBootstrap, Go
  <2>2. TypeOK'
    BY <1>8, <2>1 DEF RecordBootstrap, TypeOK, Confs, world, flags, advice, outcome, selftest
  <2>3. Touched'
    BY <1>8 DEF RecordBootstrap, Go, Touched, Resolving, OneShotSteps, flags
  <2> QED
    BY <2>2, <2>3
<1>9. CASE SpawnWatcher
  <2>1. Look({"policy_dir"}) /\ UNCHANGED resolved
    BY <1>9 DEF SpawnWatcher
  <2>2. resolved["policy_dir"] \in Objects
    BY <1>9 DEF SpawnWatcher, Go, Resolved, Resolving, OneShotSteps
  <2>3. /\ seen' \in [Names -> SUBSET (Objects \cup {Link})]
       /\ \A n \in Names : resolved'[n] # Link => seen'[n] \subseteq {resolved'[n]}
    BY <2>1, <2>2, LookTouchesResolved DEF Names
  <2>4. pc' \in Steps
    BY <1>9, StepNames DEF SpawnWatcher, Go
  <2>5. UNCHANGED <<conf, world, resolved, selftest, adopted, trail, bound, advice, outcome>>
    BY <1>9 DEF SpawnWatcher
  <2>6. watching' \in BOOLEAN
    BY <1>9 DEF SpawnWatcher
  <2>7. TypeOK'
    BY <2>3, <2>4, <2>5, <2>6 DEF TypeOK, world, selftest, flags, advice, outcome
  <2>8. Touched'
    BY <1>9, <2>3 DEF SpawnWatcher, Go, Touched, Resolving, OneShotSteps, flags
  <2> QED
    BY <2>7, <2>8
<1>10. CASE ReadCert
  <2>1. Look({"cert"}) /\ UNCHANGED resolved
    BY <1>10 DEF ReadCert
  <2>2. resolved["cert"] \in Objects
    BY <1>10 DEF ReadCert, Go, Resolved, Resolving, OneShotSteps, Proven, TlsSteps
  <2>3. /\ seen' \in [Names -> SUBSET (Objects \cup {Link})]
       /\ \A n \in Names : resolved'[n] # Link => seen'[n] \subseteq {resolved'[n]}
    BY <2>1, <2>2, LookTouchesResolved DEF Names
  <2>4. pair' \in [cert : Contents \cup {None}, key : Contents \cup {None}]
    BY <1>10, <2>2 DEF ReadCert, TypeOK, Confs
  <2>5. pc' \in Steps
    BY <1>10, StepNames DEF ReadCert, Go
  <2>6. UNCHANGED <<conf, world, resolved, peer, believed, flags, advice, outcome>>
    BY <1>10 DEF ReadCert
  <2>7. TypeOK'
    BY <2>3, <2>4, <2>5, <2>6 DEF TypeOK, world, selftest, flags, advice, outcome
  <2>8. Touched'
    BY <1>10, <2>3, <2>4 DEF ReadCert, Go, Touched, Resolving, OneShotSteps, flags
  <2> QED
    BY <2>7, <2>8
<1>11. CASE ReadKey
  <2>1. Look({"key"}) /\ UNCHANGED resolved
    BY <1>11 DEF ReadKey
  <2>2. resolved["key"] \in Objects
    BY <1>11 DEF ReadKey, Go, Resolved, Resolving, OneShotSteps, Proven, TlsSteps
  <2>3. /\ seen' \in [Names -> SUBSET (Objects \cup {Link})]
       /\ \A n \in Names : resolved'[n] # Link => seen'[n] \subseteq {resolved'[n]}
    BY <2>1, <2>2, LookTouchesResolved DEF Names
  <2>4. pc' \in Steps
    BY <1>11, StepNames DEF ReadKey, Go
  <2>5. UNCHANGED <<conf, world, resolved, peer, believed, flags, advice, outcome>>
    BY <1>11 DEF ReadKey
  <2>6. pair' \in [cert : Contents \cup {None}, key : Contents \cup {None}]
    BY <1>11, <2>2 DEF ReadKey, TypeOK
  <2>7. TypeOK'
    BY <2>3, <2>4, <2>5, <2>6 DEF TypeOK, world, selftest, flags, advice, outcome
  <2>8. Touched'
    BY <1>11, <2>3 DEF ReadKey, Go, Touched, Resolving, OneShotSteps, flags
  <2> QED
    BY <2>7, <2>8
<1>12. CASE Connect
  <2>1. pc' \in Steps
    BY <1>12, StepNames DEF Connect, Go
  <2>2. TypeOK'
    BY <1>12, <2>1 DEF Connect, TypeOK, Confs, world, flags, advice, outcome, selftest
  <2>3. Touched'
    BY <1>12 DEF Connect, Go, Touched, Resolving, OneShotSteps, flags
  <2> QED
    BY <2>2, <2>3
<1>13. CASE Handshake
  <2>1. believed' \in BOOLEAN
    BY <1>13 DEF Handshake
  <2>2. pc' \in Steps
    BY <1>13, StepNames DEF Handshake, Go
  <2>3. TypeOK'
    BY <1>13, <2>1, <2>2 DEF Handshake, TypeOK, Confs, world, flags, advice, outcome
  <2>4. Touched'
    BY <1>13, <2>1 DEF Handshake, Go, Touched, Resolving, OneShotSteps, flags
  <2> QED
    BY <2>3, <2>4
<1>14. CASE Join
  <2>1. pc' \in Steps
    BY <1>14, StepNames DEF Join, Go
  <2>2. TypeOK'
    BY <1>14, <2>1 DEF Join, TypeOK, Confs, world, flags, advice, outcome, selftest
  <2>3. Touched'
    BY <1>14 DEF Join, Go, Touched, Resolving, OneShotSteps, flags
  <2> QED
    BY <2>2, <2>3
<1>15. CASE Bind
  <2>1. pc' \in Steps
    BY <1>15, StepNames DEF Bind, Go
  <2>2. TypeOK'
    BY <1>15, <2>1 DEF Bind, TypeOK, Confs, world, flags, advice, outcome, selftest
  <2>3. Touched'
    BY <1>15 DEF Bind, Go, Touched, Resolving, OneShotSteps, flags
  <2> QED
    BY <2>2, <2>3
<1>16. CASE PeerEnds
  <2>1. TypeOK'
    BY <1>16 DEF PeerEnds, TypeOK, Confs, world, flags, advice, outcome, selftest
  <2>2. Touched'
    BY <1>16 DEF PeerEnds, Touched, flags
  <2> QED
    BY <2>1, <2>2
<1>17. CASE Reload
  <2>1. Look({"policy_dir"}) /\ UNCHANGED resolved
    BY <1>17 DEF Reload
  <2>2. resolved["policy_dir"] \in Objects
    BY <1>17 DEF Reload, Go, Resolved, Resolving, OneShotSteps, Touched
  <2>3. /\ seen' \in [Names -> SUBSET (Objects \cup {Link})]
       /\ \A n \in Names : resolved'[n] # Link => seen'[n] \subseteq {resolved'[n]}
    BY <2>1, <2>2, LookTouchesResolved DEF Names
  <2>4. pc' \in Steps
    BY <1>17 DEF Reload, TypeOK
  <2>5. TypeOK'
    BY <1>17, <2>3, <2>4 DEF Reload, TypeOK, Confs, world, flags, advice, outcome, selftest
  <2>6. Touched'
    BY <1>17, <2>3 DEF Reload, Go, Touched, Resolving, OneShotSteps, flags
  <2> QED
    BY <2>5, <2>6
<1>18. CASE Repoint
  <2>1. target' \in [Names -> Objects] /\ dangles' \in BOOLEAN
    BY <1>18 DEF Repoint, TypeOK, Confs
  <2>2. TypeOK'
    BY <1>18, <2>1 DEF Repoint, TypeOK, Confs, world, flags, advice, outcome, selftest
  <2>3. Touched'
    BY <1>18, <2>1 DEF Repoint, Touched, flags
  <2> QED
    BY <2>2, <2>3
<1>19. CASE Rewrite
  <2>1. TypeOK'
    BY <1>19 DEF Rewrite, TypeOK, Confs, world, flags, advice, outcome, selftest
  <2>2. Touched'
    BY <1>19 DEF Rewrite, Touched, flags
  <2> QED
    BY <2>1, <2>2
<1>20. CASE OneShot
  <2>1. verdict' \in {"none", "allow", "deny"} /\ exit' \in {"none", "success", "failure"}
    BY <1>20 DEF OneShot, LoadOnce, ReadFixture, Decide, AppendDecision, ReportDecision, Exits,
                 TypeOK, outcome
  <2>2. adopted' \in BOOLEAN /\ trail' \in {"none", "open", "recorded", "decision", "lost"} /\ pc' \in Steps
    BY <1>20, StepNames DEF OneShot, LoadOnce, ReadFixture, Decide, AppendDecision, ReportDecision,
                 Exits, Go, TypeOK, flags
  <2>3. UNCHANGED <<conf, world, resolved, selftest, watching, bound, advice, seen>>
    BY <1>20 DEF OneShot, LoadOnce, ReadFixture, Decide, AppendDecision, ReportDecision, flags
  <2>4. pc \in OneShotSteps
    BY <1>20 DEF OneShot, LoadOnce, ReadFixture, Decide, AppendDecision, ReportDecision, Exits, Go,
                 OneShotSteps
  <2>5. TypeOK'
    BY <2>1, <2>2, <2>3 DEF TypeOK, Confs, world, selftest, advice
  <2> QED
    BY <2>3, <2>4, <2>5 DEF Touched
<1>21. CASE UNCHANGED vars
  BY <1>21 DEF vars, TypeOK, Confs, Touched, world, flags, advice, outcome, selftest
<1> QED
  BY <1>1, <1>2, <1>3, <1>4, <1>5, <1>6, <1>7, <1>8, <1>9, <1>10, <1>11, <1>12, <1>13,
     <1>14, <1>15, <1>16, <1>17, <1>18, <1>19, <1>20, <1>21 DEF Next, Serve, Names, Resolving

(* Every step leaves behind what the steps after it rely on. *)
LEMMA StepKeepsControl == IInv /\ [Next]_vars => Resolved' /\ Control'
<1> SUFFICES ASSUME TypeOK, Touched, Resolved, Done, Proven, [Next]_vars
             PROVE Resolved' /\ Done' /\ Proven'
  BY DEF IInv, Control
<1> USE DEF world, flags, advice, outcome, selftest
<1>1. CASE LoadConfig
  BY <1>1 DEF LoadConfig, Go, TypeOK, Confs, Resolved, Done, Proven,
               Resolving, OneShotSteps, TlsSteps, AfterWatch,
               AfterRecord, AfterBootstrap
<1>2. CASE Refuse
  BY <1>2 DEF Refuse, Fallible, TypeOK, Confs, Resolved, Done, Proven,
               Resolving, OneShotSteps, TlsSteps, AfterWatch,
               AfterRecord, AfterBootstrap
<1>3. CASE \/ Resolve("policy_dir", "audit_log")
           \/ Resolve("audit_log", IF conf.tls THEN "cert" ELSE "checks")
           \/ Resolve("cert", "key")
           \/ Resolve("key", "checks")
  <2>1. \A n \in Names : target[n] \in Objects
    BY DEF TypeOK
  <2>2. Resolved'
    BY <1>3, <2>1, ConstantsAssumption DEF Resolve, Go, TypeOK, Names, Resolved, Resolving, OneShotSteps
  <2>3. UNCHANGED <<conf, selftest, flags, outcome>> /\ conf.command = "serve"
    BY <1>3 DEF Resolve, Go, Done, OneShotSteps
  <2>4. pc \in Resolving \ {"config"} /\ pc' \in {"audit_log", "cert", "key", "checks"} /\ (pc' \in {"cert", "key"} => conf.tls)
    BY <1>3 DEF Resolve, Go, Proven, Resolving
  <2>5. Done'
    BY <2>3, <2>4 DEF Done, Resolving, OneShotSteps, TlsSteps, AfterWatch, AfterRecord, AfterBootstrap
  <2>6. Proven'
    BY <2>3, <2>4 DEF Proven, TlsSteps
  <2> QED
    BY <2>2, <2>5, <2>6
<1>4. CASE CheckPaths
  BY <1>4 DEF CheckPaths, Go, TypeOK, Confs, Resolved, Done, Proven,
               Resolving, OneShotSteps, TlsSteps, AfterWatch,
               AfterRecord, AfterBootstrap
<1>5. CASE CheckKey
  BY <1>5 DEF CheckKey, Go, TypeOK, Confs, Resolved, Done, Proven,
               Resolving, OneShotSteps, TlsSteps, AfterWatch,
               AfterRecord, AfterBootstrap
<1>6. CASE Bootstrap
  BY <1>6 DEF Bootstrap, Go, TypeOK, Confs, Resolved, Done, Proven,
               Resolving, OneShotSteps, TlsSteps, AfterWatch,
               AfterRecord, AfterBootstrap
<1>7. CASE OpenLog
  BY <1>7 DEF OpenLog, Go, TypeOK, Confs, Resolved, Done, Proven,
               Resolving, OneShotSteps, TlsSteps, AfterWatch,
               AfterRecord, AfterBootstrap
<1>8. CASE RecordBootstrap
  BY <1>8 DEF RecordBootstrap, Go, TypeOK, Confs, Resolved, Done, Proven,
               Resolving, OneShotSteps, TlsSteps, AfterWatch,
               AfterRecord, AfterBootstrap
<1>9. CASE SpawnWatcher
  BY <1>9 DEF SpawnWatcher, Go, TypeOK, Confs, Resolved, Done, Proven,
               Resolving, OneShotSteps, TlsSteps, AfterWatch,
               AfterRecord, AfterBootstrap
<1>10. CASE ReadCert
  BY <1>10 DEF ReadCert, Go, TypeOK, Confs, Resolved, Done, Proven,
               Resolving, OneShotSteps, TlsSteps, AfterWatch,
               AfterRecord, AfterBootstrap
<1>11. CASE ReadKey
  BY <1>11 DEF ReadKey, Go, TypeOK, Confs, Resolved, Done, Proven,
               Resolving, OneShotSteps, TlsSteps, AfterWatch,
               AfterRecord, AfterBootstrap
<1>12. CASE Connect
  BY <1>12 DEF Connect, Go, TypeOK, Confs, Resolved, Done, Proven,
               Resolving, OneShotSteps, TlsSteps, AfterWatch,
               AfterRecord, AfterBootstrap
<1>13. CASE Handshake
  BY <1>13 DEF Handshake, Go, TypeOK, Confs, Resolved, Done, Proven,
               Resolving, OneShotSteps, TlsSteps, AfterWatch,
               AfterRecord, AfterBootstrap
<1>14. CASE Join
  BY <1>14 DEF Join, Go, TypeOK, Confs, Resolved, Done, Proven,
               Resolving, OneShotSteps, TlsSteps, AfterWatch,
               AfterRecord, AfterBootstrap
<1>15. CASE Bind
  BY <1>15 DEF Bind, Go, TypeOK, Confs, Resolved, Done, Proven,
               Resolving, OneShotSteps, TlsSteps, AfterWatch,
               AfterRecord, AfterBootstrap
<1>16. CASE PeerEnds
  BY <1>16 DEF PeerEnds, TypeOK, Resolved, Done, Proven
<1>17. CASE Reload
  BY <1>17 DEF Reload, Go, TypeOK, Confs, Resolved, Done, Proven,
               Resolving, OneShotSteps, TlsSteps, AfterWatch,
               AfterRecord, AfterBootstrap
<1>18. CASE Repoint
  BY <1>18 DEF Repoint, TypeOK, Resolved, Done, Proven
<1>19. CASE Rewrite
  BY <1>19 DEF Rewrite, TypeOK, Resolved, Done, Proven
<1>20. CASE OneShot
  <2>1. CASE LoadOnce
    BY <1>20, <2>1 DEF LoadOnce, Exits, Go, TypeOK, Confs, Resolved, Done, Proven,
               Resolving, OneShotSteps, TlsSteps, AfterWatch,
               AfterRecord, AfterBootstrap
  <2>2. CASE ReadFixture
    BY <1>20, <2>2 DEF ReadFixture, Go, TypeOK, Confs, Resolved, Done, Proven,
               Resolving, OneShotSteps, TlsSteps, AfterWatch,
               AfterRecord, AfterBootstrap
  <2>3. CASE Decide
    BY <1>20, <2>3 DEF Decide, Go, TypeOK, Confs, Resolved, Done, Proven,
               Resolving, OneShotSteps, TlsSteps, AfterWatch, AfterRecord, AfterBootstrap
  <2>4. CASE AppendDecision
    BY <1>20, <2>4 DEF AppendDecision, Go, TypeOK, Confs, Resolved, Done, Proven,
               Resolving, OneShotSteps, TlsSteps, AfterWatch,
               AfterRecord, AfterBootstrap
  <2>5. CASE ReportDecision
    BY <1>20, <2>5 DEF ReportDecision, Exits, Go, TypeOK, Confs, Resolved, Done, Proven,
               Resolving, OneShotSteps, TlsSteps, AfterWatch,
               AfterRecord, AfterBootstrap
  <2> QED
    BY <1>20, <2>1, <2>2, <2>3, <2>4, <2>5 DEF OneShot
<1>21. CASE UNCHANGED vars
  BY <1>21 DEF vars, TypeOK, Resolved, Done, Proven
<1> QED
  BY <1>1, <1>2, <1>3, <1>4, <1>5, <1>6, <1>7, <1>8, <1>9, <1>10, <1>11, <1>12, <1>13,
     <1>14, <1>15, <1>16, <1>17, <1>18, <1>19, <1>20, <1>21, Zenon DEF Next, Serve

(* What lies in the working directory has been warned about when the record is written. *)
LEMMA StepKeepsAdvised == IInv /\ [Next]_vars => Advised'
<1> SUFFICES ASSUME TypeOK, Touched, Resolved, Done, Proven, Advised, [Next]_vars PROVE Advised'
  BY DEF IInv, Control
<1> USE DEF Advised, Judged, Unjudged, AtRiskIsHonest, Resolving, OneShotSteps, TlsSteps, AfterWatch,
            AfterRecord, AfterBootstrap, AfterChecks, AfterPathCheck, world, flags, advice, outcome,
            selftest, Go
<1>1. CASE LoadConfig
  BY <1>1 DEF LoadConfig
<1>2. CASE Refuse
  BY <1>2 DEF Refuse, Fallible
<1>3. CASE \/ Resolve("policy_dir", "audit_log")
           \/ Resolve("audit_log", IF conf.tls THEN "cert" ELSE "checks")
           \/ Resolve("cert", "key")
           \/ Resolve("key", "checks")
  <2>1. trail # "recorded" /\ pc' \in Resolving \cup {"checks"} /\ pc \in Resolving
    BY <1>3 DEF Resolve, Done
  <2>2. UNCHANGED <<conf, trail, warned, seen>>
    BY <1>3 DEF Resolve
  <2> QED
    BY <2>1, <2>2
<1>4. CASE CheckPaths
  BY <1>4 DEF CheckPaths, Look, InsideCwd, Leads, Names, Done, Resolved, Touched, TypeOK, Confs
<1>5. CASE CheckKey
  BY <1>5 DEF CheckKey, Look, InsideCwd, Leads, Names, Done, Proven, Resolved, Touched, TypeOK, Confs
<1>6. CASE Bootstrap
  BY <1>6 DEF Bootstrap, Look, Leads, Names, Done, Resolved, Touched, TypeOK, Confs
<1>7. CASE OpenLog
  BY <1>7 DEF OpenLog, Names, Done, Resolved, Touched, TypeOK, Confs
<1>8. CASE RecordBootstrap
  <2>1. /\ pc = "record" /\ pc' = "watch"
        /\ atRisk' = (warned # {})
        /\ UNCHANGED <<conf, resolved, warned, seen>>
    BY <1>8 DEF RecordBootstrap
  <2>2. warned # {} <=> \E n \in Names \ {"cert"} : n \in warned
    BY DEF TypeOK
  <2>3. ASSUME resolved["audit_log"] # Link, NEW n \in Names \ {"cert"}
        PROVE  n \in warned <=> seen[n] \cap conf.inside # {}
    <3>1. Judged("policy_dir") /\ Judged("audit_log") /\ (Judged("key") \/ Unjudged("key"))
      BY <2>1, <2>3
    <3> QED
      BY <3>1 DEF Names
  <2>4. AtRiskIsHonest'
    BY <2>1, <2>2, <2>3
  <2> QED
    BY <2>1, <2>4
<1>9. CASE SpawnWatcher
  BY <1>9 DEF SpawnWatcher, Look, Leads, Names, Done, Resolved, TypeOK, Confs
<1>10. CASE ReadCert
  BY <1>10 DEF ReadCert, Look, Leads, Names, Done, Resolved, TypeOK, Confs
<1>11. CASE ReadKey
  BY <1>11 DEF ReadKey, Look, Leads, Names, Done, Proven, Resolved, TypeOK, Confs
<1>12. CASE Connect
  BY <1>12 DEF Connect
<1>13. CASE Handshake
  BY <1>13 DEF Handshake
<1>14. CASE Join
  BY <1>14 DEF Join
<1>15. CASE Bind
  BY <1>15 DEF Bind
<1>16. CASE PeerEnds
  BY <1>16 DEF PeerEnds
<1>17. CASE Reload
  BY <1>17 DEF Reload, Look, Leads, Names, Done, Resolved, TypeOK, Confs
<1>18. CASE Repoint
  BY <1>18 DEF Repoint
<1>19. CASE Rewrite
  BY <1>19 DEF Rewrite
<1>20. CASE OneShot
  <2>1. /\ pc \in OneShotSteps /\ pc' \in OneShotSteps \cup {"exited"}
        /\ trail' = "recorded" => trail = "recorded"
    BY <1>20 DEF OneShot, LoadOnce, ReadFixture, Decide, AppendDecision, ReportDecision, Exits
  <2>2. UNCHANGED <<conf, resolved, advice, seen>>
    BY <1>20 DEF OneShot, LoadOnce, ReadFixture, Decide, AppendDecision, ReportDecision
  <2> QED
    BY <2>1, <2>2
<1>21. CASE UNCHANGED vars
  BY <1>21 DEF vars
<1> QED
  BY <1>1, <1>2, <1>3, <1>4, <1>5, <1>6, <1>7, <1>8, <1>9, <1>10, <1>11, <1>12, <1>13,
     <1>14, <1>15, <1>16, <1>17, <1>18, <1>19, <1>20, <1>21, Zenon DEF Next, Serve

(* The invariant of the start. *)
LEMMA Invariance == Spec => []IInv
<1>1. IInv /\ [Next]_vars => IInv'
  BY StepKeepsTouched, StepKeepsControl, StepKeepsAdvised DEF IInv, Control
<1> QED
  BY InitEstablishes, <1>1, PTL DEF Spec

(* The types of a start hold throughout. *)
THEOREM TypeInv == Spec => []TypeOK
<1>1. IInv => TypeOK
  BY DEF IInv
<1> QED
  BY <1>1, Invariance, PTL

(* However the symlinks are repointed, each configured path is one object to the checks,
   the loads, the watcher and the listener, but for a log that was a link to nothing. *)
THEOREM OneObjectAlways == Spec => []OneObject
<1>1. IInv => OneObject
  BY DEF IInv, Touched, OneObject
<1> QED
  BY <1>1, Invariance, PTL

(* No log is created before there are policies to record, no listener is bound that has
   not earned it (policies, the attempt to record them, the watcher, a loopback address and,
   with [tls], a certificate that was proven), and no command claims a success it has not
   had. *)
THEOREM NothingUnearnedAlways == Spec => []NothingUnearned
<1>1. IInv => NothingUnearned
  BY DEF IInv, Control, Done, Proven, NothingUnearned, AfterBootstrap, AfterRecord, AfterWatch, TlsSteps
<1> QED
  BY <1>1, Invariance, PTL

(* The record of the bootstrap says truthfully whether what the daemon uses lies in the
   working directory, wherever the configured paths lead by then. *)
THEOREM AtRiskHonestAlways == Spec => []AtRiskIsHonest
<1>1. IInv => AtRiskIsHonest
  BY DEF IInv, Advised
<1> QED
  BY <1>1, Invariance, PTL
=============================================================================
