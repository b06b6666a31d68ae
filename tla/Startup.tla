------------------------------ MODULE Startup ------------------------------
(* How api containers come up: `migrate.js && server.js` under a restart   *)
(* policy, several of them against one database, then the readiness probe  *)
(* that lets nginx start.  Migration files are numbered in filename order; *)
(* a container ships the files 1..Release[c] of its image.                 *)
EXTENDS Integers

CONSTANTS
  Containers,    \* api, api-2
  Release,       \* [Containers -> Nat]: how many files the image ships
  Dependencies,  \* what the readiness probe asks: postgres, redis, rabbitmq
  Postgres,      \* the one the migrations run on
  MaxFaults      \* bound on crashes, lost connections and outages together

ASSUME ReleaseAssumption == Release \in [Containers -> Nat]
ASSUME PostgresAssumption == Postgres \in Dependencies
ASSUME FaultsAssumption == MaxFaults \in Nat

VARIABLES
  tracked,     \* the table schema_migrations exists
  recorded,    \* the filenames committed in it
  executions,  \* per file: transactions committed that ran its script
  pc,          \* per container: what its command is doing
  at,          \* per container: the file the runner's loop has reached
  applied,     \* per container: the filenames the runner read
  checks,      \* per container: the answers of its running probe
  health,      \* per container: the health state docker gives it
  dependency,  \* what each dependency does with a connection
  nginx,       \* nginx has been started
  faults

schemaVars == <<tracked, recorded, executions>>
runnerVars == <<pc, at, applied>>
probeVars == <<checks, health, nginx>>
vars == <<schemaVars, runnerVars, probeVars, dependency, faults>>

Files == UNION {1..Release[c] : c \in Containers}

(* A runner awaits the answer to a statement, or is about to send one, in  *)
(* these; "cut" is one that has lost its connection.                       *)
Connected == {"create", "script", "record", "commit"}
Running == Connected \cup {"look", "read", "next", "cut"}
NoProbe == [d \in Dependencies |-> "idle"]
Probing(c) == checks[c] # NoProbe

TypeOK ==
  /\ tracked \in BOOLEAN
  /\ recorded \subseteq Files
  /\ executions \in [Files -> Nat]
  /\ pc \in [Containers -> Running \cup {"down", "serving"}]
  /\ at \in [Containers -> Files \cup {0}]
  /\ applied \in [Containers -> SUBSET Files]
  /\ checks \in [Containers ->
       [Dependencies -> {"idle", "waiting", "ok", "failed"}]]
  /\ health \in [Containers -> {"starting", "healthy", "unhealthy"}]
  /\ dependency \in [Dependencies -> {"up", "down", "hung"}]
  /\ nginx \in BOOLEAN
  /\ faults \in 0..MaxFaults

Init ==
  /\ tracked = FALSE
  /\ recorded = {}
  /\ executions = [f \in Files |-> 0]
  /\ pc = [c \in Containers |-> "down"]
  /\ at = [c \in Containers |-> 0]
  /\ applied = [c \in Containers |-> {}]
  /\ checks = [c \in Containers |-> NoProbe]
  /\ health = [c \in Containers |-> "starting"]
  /\ dependency = [d \in Dependencies |-> "up"]
  /\ nginx = FALSE
  /\ faults = 0

Goto(c, label) == pc' = [pc EXCEPT ![c] = label]

(* Mutant of Exit: `migrate.js ; server.js` starts the server whatever the *)
(* runner's exit status.                                                   *)
ExitServing(c) ==
  /\ Goto(c, IF pc[c] = "serving" THEN "down" ELSE "serving")
  /\ checks' = [checks EXCEPT ![c] = NoProbe]
  /\ health' = [health EXCEPT ![c] = "starting"]
  /\ UNCHANGED <<at, applied, nginx>>

(* The database takes connections and answers.                             *)
Reachable == dependency[Postgres] = "up"

(* The process ends, with whatever status: an open transaction is rolled   *)
(* back, a probe dies with the server, docker will restart the container.  *)
Exit(c) ==
  /\ Goto(c, "down")
  /\ checks' = [checks EXCEPT ![c] = NoProbe]
  /\ health' = [health EXCEPT ![c] = "starting"]
  /\ UNCHANGED <<at, applied, nginx>>

(* Files of the image the runner's loop has yet to apply.                  *)
Pending(c) == {f \in 1..Release[c] : f > at[c] /\ f \notin applied[c]}

(* The file a turn of the loop takes up.                                   *)
NextFile(c, f) == f \in Pending(c) /\ \A g \in Pending(c) : f <= g
-----------------------------------------------------------------------------
(* docker starts the container's command, or starts it again.              *)
Start(c) ==
  /\ pc[c] = "down"
  /\ Goto(c, "look")
  /\ UNCHANGED <<schemaVars, at, applied, probeVars, dependency, faults>>

(* CREATE TABLE IF NOT EXISTS looks for the table first ...                *)
LookUp(c) ==
  /\ pc[c] = "look" /\ Reachable
  /\ Goto(c, IF tracked THEN "read" ELSE "create")
  /\ UNCHANGED <<schemaVars, at, applied, probeVars, dependency, faults>>

(* ... and creates it.  IF NOT EXISTS does not lock: a runner that looked  *)
(* before another one committed may get a duplicate key from the catalogue.*)
CreateTracker(c) ==
  /\ pc[c] = "create" /\ Reachable
  /\ tracked' = TRUE
  /\ Goto(c, "read")
  /\ UNCHANGED <<recorded, executions, at, applied, probeVars, dependency, faults>>

CreateCollides(c) ==
  /\ pc[c] = "create" /\ tracked /\ Reachable
  /\ Exit(c)
  /\ UNCHANGED <<schemaVars, dependency, faults>>

ReadApplied(c) ==
  /\ pc[c] = "read" /\ Reachable
  /\ applied' = [applied EXCEPT ![c] = recorded]
  /\ at' = [at EXCEPT ![c] = 0]
  /\ Goto(c, "next")
  /\ UNCHANGED <<schemaVars, probeVars, dependency, faults>>

(* BEGIN for the next file.                                                *)
Begin(c) ==
  /\ pc[c] = "next" /\ Reachable
  /\ \E f \in Files : NextFile(c, f) /\ at' = [at EXCEPT ![c] = f]
  /\ Goto(c, "script")
  /\ UNCHANGED <<schemaVars, applied, probeVars, dependency, faults>>

(* Another runner has executed the same script and not yet ended: the      *)
(* objects it creates are locked.                                          *)
Locked(c) ==
  \E d \in Containers \ {c} : at[d] = at[c] /\ pc[d] \in {"record", "commit"}

RunScript(c) ==
  /\ pc[c] = "script" /\ ~Locked(c) /\ Reachable
  /\ Goto(c, "record")
  /\ UNCHANGED <<schemaVars, at, applied, probeVars, dependency, faults>>

(* The other runner's commit wakes this one up with a duplicate object or, *)
(* when every statement is IF NOT EXISTS, with a duplicate filename:       *)
(* ROLLBACK, throw, exit code 1.                                           *)
Collides(c) ==
  /\ pc[c] \in {"script", "record"} /\ at[c] \in recorded /\ Reachable
  /\ Exit(c)
  /\ UNCHANGED <<schemaVars, dependency, faults>>

Record(c) ==
  /\ pc[c] = "record" /\ at[c] \notin recorded /\ Reachable
  /\ Goto(c, "commit")
  /\ UNCHANGED <<schemaVars, at, applied, probeVars, dependency, faults>>

(* COMMIT: the script's effects and its row together.                      *)
Committed(c) ==
  /\ pc[c] = "commit" /\ Reachable
  /\ recorded' = recorded \cup {at[c]}
  /\ executions' = [executions EXCEPT ![at[c]] = @ + 1]
  /\ UNCHANGED tracked

Commit(c) ==
  /\ Committed(c)
  /\ Goto(c, "next")
  /\ UNCHANGED <<at, applied, probeVars, dependency, faults>>

(* Nothing pending: migrate.js exits with 0 and server.js listens, neither *)
(* asking the database anything more.                                      *)
Serve(c) ==
  /\ pc[c] = "next" /\ Pending(c) = {}
  /\ Goto(c, "serving")
  /\ UNCHANGED <<schemaVars, at, applied, probeVars, dependency, faults>>

(* The database went down under a statement or an open transaction, which  *)
(* it rolled back: the query throws, whether it is back by then or not.    *)
ConnectionLost(c) ==
  /\ pc[c] = "cut"
  /\ Exit(c)
  /\ UNCHANGED <<schemaVars, dependency, faults>>

(* A query that finds the database down or hung throws at some time, in the*)
(* hung case when one of the pool's timeouts ends.  A hung server need not *)
(* enforce statement_timeout, which is its own: no time is promised.       *)
QueryFails(c) ==
  /\ pc[c] \in Running \ {"cut"} /\ ~Reachable
  /\ pc[c] = "next" => Pending(c) # {}
  /\ Exit(c)
  /\ UNCHANGED <<schemaVars, dependency, faults>>
-----------------------------------------------------------------------------
(* docker-healthcheck.js: GET /ready asks the three dependencies at once.  *)
StartProbe(c) ==
  /\ pc[c] = "serving" /\ ~Probing(c)
  /\ checks' = [checks EXCEPT ![c] = [d \in Dependencies |-> "waiting"]]
  /\ UNCHANGED <<schemaVars, runnerVars, health, nginx, dependency, faults>>

CheckEnds(c, d, result) ==
  /\ checks[c][d] = "waiting"
  /\ checks' = [checks EXCEPT ![c][d] = result]
  /\ UNCHANGED <<schemaVars, runnerVars, health, nginx, dependency, faults>>

DependencyAnswers(c, d) ==
  /\ dependency[d] # "hung"
  /\ CheckEnds(c, d, IF dependency[d] = "up" THEN "ok" ELSE "failed")

(* Mutant of CheckTimesOut: the check awaits its work without a timer.     *)
CheckWaits(c, d) == dependency[d] = "down" /\ CheckEnds(c, d, "failed")

(* CHECK_TIMEOUT_MS: the timer wins the race.                              *)
CheckTimesOut(c, d) == CheckEnds(c, d, "failed")

(* 200 or 503.  How many failures in a row make a container unhealthy is   *)
(* docker's setting and left open.                                         *)
ProbeEnds(c) ==
  /\ Probing(c) /\ \A d \in Dependencies : checks[c][d] # "waiting"
  /\ checks' = [checks EXCEPT ![c] = NoProbe]
  /\ IF \A d \in Dependencies : checks[c][d] = "ok"
       THEN health' = [health EXCEPT ![c] = "healthy"]
       ELSE \E h \in {health[c], "unhealthy"} : health' = [health EXCEPT ![c] = h]
  /\ UNCHANGED <<schemaVars, runnerVars, nginx, dependency, faults>>

(* depends_on: both api containers healthy.                                *)
StartNginx ==
  /\ ~nginx /\ \A c \in Containers : health[c] = "healthy"
  /\ nginx' = TRUE
  /\ UNCHANGED <<schemaVars, runnerVars, checks, health, dependency, faults>>
-----------------------------------------------------------------------------
Fault == faults < MaxFaults /\ faults' = faults + 1

(* A crash, a stop, or a query that fails for a reason of its own.         *)
Fails(c) ==
  /\ pc[c] # "down"
  /\ Fault
  /\ Exit(c)
  /\ UNCHANGED <<schemaVars, dependency>>

(* Mutant of CommitUnheard: the row is inserted after the script's         *)
(* transaction instead of in it, and the process ends between the two.     *)
CommitUnrecorded(c) ==
  /\ Fault
  /\ pc[c] = "commit" /\ Reachable
  /\ executions' = [executions EXCEPT ![at[c]] = @ + 1]
  /\ Exit(c)
  /\ UNCHANGED <<tracked, recorded, dependency>>

(* The COMMIT takes effect and its answer is lost: the runner exits.       *)
CommitUnheard(c) ==
  /\ Fault
  /\ Committed(c)
  /\ Exit(c)
  /\ UNCHANGED dependency

(* What a failing dependency does to the runners: postgres going down ends *)
(* their connections, one that hangs leaves them waiting.                  *)
Severed(d, state) ==
  {c \in Containers : d = Postgres /\ state = "down" /\ pc[c] \in Connected}

Outage(d) ==
  /\ Fault
  /\ \E state \in {"down", "hung"} :
       /\ dependency' = [dependency EXCEPT ![d] = state]
       /\ pc' = [c \in Containers |-> IF c \in Severed(d, state) THEN "cut" ELSE pc[c]]
  /\ UNCHANGED <<schemaVars, at, applied, probeVars>>

Recovers(d) ==
  /\ dependency[d] # "up"
  /\ dependency' = [dependency EXCEPT ![d] = "up"]
  /\ UNCHANGED <<schemaVars, runnerVars, probeVars, faults>>

(* What a container does by itself once it has been started.               *)
Migrates(c) ==
  \/ Start(c) \/ LookUp(c) \/ CreateTracker(c) \/ CreateCollides(c)
  \/ ReadApplied(c) \/ Begin(c) \/ RunScript(c) \/ Collides(c) \/ Record(c)
  \/ Commit(c) \/ Serve(c) \/ ConnectionLost(c)

Probes(c) ==
  \/ ProbeEnds(c)
  \/ \E d \in Dependencies : DependencyAnswers(c, d) \/ CheckTimesOut(c, d)

Next ==
  \/ \E c \in Containers :
       \/ Migrates(c) \/ StartProbe(c) \/ Probes(c)
       \/ QueryFails(c) \/ Fails(c) \/ CommitUnheard(c)
  \/ \E d \in Dependencies : Outage(d) \/ Recovers(d)
  \/ StartNginx

Spec == Init /\ [][Next]_vars

(* The restart policy, the event loops and the probes' timers.  No         *)
(* dependency has to recover, and no query need fail while one is away.    *)
FairSpec ==
  /\ Spec
  /\ \A c \in Containers : WF_vars(Migrates(c)) /\ WF_vars(Probes(c))
-----------------------------------------------------------------------------
(* "A half-applied migration never records itself" (migrate.ts:34), nor    *)
(* does an applied one go unrecorded: whatever runners race or die, every  *)
(* script takes effect once, exactly when its row is there.                *)
OncePerFile ==
  \A f \in Files : executions[f] = IF f \in recorded THEN 1 ELSE 0

(* Files take effect in filename order, whichever images race.             *)
InOrder == \A f \in recorded : 1..f \subseteq recorded

(* A runner holds a transaction only on a file whose predecessors are in.  *)
LoopInOrder ==
  \A c \in Containers :
    /\ applied[c] \subseteq recorded
    /\ pc[c] \in {"script", "record", "commit"} => at[c] \in 1..Release[c]
    /\ pc[c] \in {"next", "script", "record", "commit", "serving"} =>
         \A f \in 1..Release[c] :
           f < at[c] \/ (f = at[c] /\ pc[c] \in {"next", "serving"}) => f \in recorded

(* The locks of a script keep its file to one runner until it commits.     *)
Exclusive ==
  \A c, d \in Containers :
    c # d /\ {pc[c], pc[d]} \subseteq {"record", "commit"} => at[c] # at[d]

(* A COMMIT under way is the first of its file.                            *)
CommitsNew == \A c \in Containers : pc[c] = "commit" => at[c] \notin recorded

(* Each file takes effect once and in order, and what that rests on.       *)
IInv == TypeOK /\ OncePerFile /\ InOrder /\ LoopInOrder /\ Exclusive /\ CommitsNew

(* `migrate.js && server.js` and depends_on: no request is served, and     *)
(* nginx forwards none, before the schema holds every migration that a     *)
(* serving container, or any container nginx was started for, ships.       *)
SchemaBeforeTraffic ==
  \A c \in Containers : pc[c] = "serving" \/ nginx => 1..Release[c] \subseteq recorded

(* Racing runners make each other fail, and each of them while the database*)
(* is away; but if that comes back for good and faults stop, every         *)
(* container serves.  Its /ready answers whatever any dependency does.     *)
ComesUp ==
  /\ <>[]Reachable => \A c \in Containers : []<>(pc[c] = "serving" /\ ~Probing(c))
  /\ \A c \in Containers : Probing(c) ~> ~Probing(c)
=============================================================================
