-------------------------- MODULE SandboxLifecycle --------------------------
(***************************************************************************)
(* Sandboxes: the routes that create, restart and delete them              *)
(* (routes/sandboxes.ts) over the local container provider                 *)
(* (sandbox-providers/kasm-local-provider.ts).  A sandbox is a container   *)
(* at the docker daemon and a row in the database, tied by an identifier   *)
(* derived from the name the user gave; no lock and no transaction covers  *)
(* both.  Creating one answers the caller as soon as the row exists and    *)
(* leaves a background job to prepare the container and settle the row.    *)
(*                                                                         *)
(* Every docker command and every database call is a step.  A tenant is an *)
(* organization: rows and the calls on them are told apart by it, and the  *)
(* token of any of its projects' default agents, which the job installs in *)
(* the container so that its traffic passes the gateway, counts as its own.*)
(***************************************************************************)
EXTENDS Naturals, FiniteSets, FiniteSetsExt

CONSTANTS
    Ids,        \* container names, what containerName makes of sandbox names
    Ports,      \* host ports for desktops
    Tenants,    \* organizations that create sandboxes
    Creations,  \* POST /sandboxes requests
    Calls,      \* DELETE and restart requests that may be in flight together
    None        \* no container, no row, nobody

ASSUME SandboxAssumption == Ports \subseteq Nat /\ None \notin Tenants

VARIABLES
    box,        \* the container under each name
    row,        \* the sandboxes row under each identifier
    at,         \* where each creation is, its background job included
    job,        \* what each creation works on
    call,       \* the delete and restart requests in flight
    why         \* history: what went wrong with a name since its container was made

vars == <<box, row, at, job, call, why>>

Box == [up : BOOLEAN, port : Ports, token : Tenants \cup {None}]
Row == [tenant : Tenants, status : {"provisioning", "started", "exited", "failed"}]
Job == [id : Ids, tenant : Tenants, port : Ports \cup {None}, seen : {"none", "started", "exited"}]
Idle == [at |-> "idle"]
Call == [at : {"remove", "drop", "restart", "regovern"}, id : Ids, tenant : Tenants]

ASSUME NoneAssumption == None \notin Box \cup Row

Background == {"govern", "finish", "ready", "cleanup", "fail"}

(***************************************************************************)
(* The rows, the containers and the requests have the shapes of the code.  *)
(***************************************************************************)
TypeOK ==
    /\ box \in [Ids -> Box \cup {None}]
    /\ row \in [Ids -> Row \cup {None}]
    /\ at \in [Creations -> {"unused", "port", "run", "inspect", "persist", "done"} \cup Background]
    /\ job \in [Creations -> Job \cup {None}]
    /\ call \in [Calls -> Call \cup {Idle}]
    /\ why \in [Ids -> SUBSET {"crash", "clash", "lost", "reused", "stale", "ungoverned"}]

Init ==
    /\ box = [i \in Ids |-> None]
    /\ row = [i \in Ids |-> None]
    /\ at = [n \in Creations |-> "unused"]
    /\ job = [n \in Creations |-> None]
    /\ call = [c \in Calls |-> Idle]
    /\ why = [i \in Ids |-> {}]

Go(n, a) == at' = [at EXCEPT ![n] = a] /\ UNCHANGED job
End(n) == at' = [at EXCEPT ![n] = "done"] /\ job' = [job EXCEPT ![n] = None]
Note(i, w) == why' = [why EXCEPT ![i] = @ \cup w]

-----------------------------------------------------------------------------
(* POST /sandboxes.                                                        *)

Create(n, i, t) ==
    /\ at[n] = "unused"
    /\ at' = [at EXCEPT ![n] = "port"]
    /\ job' = [job EXCEPT ![n] = [id |-> i, tenant |-> t, port |-> None, seen |-> "none"]]
    /\ UNCHANGED <<box, row, call, why>>

UsedPorts == {box[i].port : i \in {k \in Ids : box[k] # None /\ box[k].up}}

(* The lowest port no running container publishes, if there is one.        *)
allocatePort(n) ==
    /\ at[n] = "port"
    /\ IF Ports \ UsedPorts = {}
         THEN End(n)
         ELSE /\ job' = [job EXCEPT ![n].port = Min(Ports \ UsedPorts)]
              /\ at' = [at EXCEPT ![n] = "run"]
    /\ UNCHANGED <<box, row, call, why>>

(* Something started for an earlier sandbox of this name still runs.       *)
Haunted(n, i) ==
    \/ \E m \in Creations \ {n} : at[m] \in Background /\ job[m].id = i
    \/ \E c \in Calls : call[c] # Idle /\ call[c].id = i

Reused(n, i) == IF Haunted(n, i) THEN {"reused"} ELSE {}

(* A new container begins without a past, but for the row of an earlier    *)
(* sandbox of the name, which shows a container it is not about.           *)
Inherited(i) == IF row[i] = None THEN {} ELSE {"stale"} \cup (why[i] \cap {"crash", "lost"})

(* docker refuses a name in use.  It refuses a port in use only when it    *)
(* starts the container, which stays behind.                               *)
DockerRun(n) ==
    LET i == job[n].id
        free == job[n].port \notin UsedPorts
    IN  /\ at[n] = "run" /\ box[i] = None
        /\ box' = [box EXCEPT ![i] = [up |-> free, port |-> job[n].port, token |-> None]]
        /\ why' = [why EXCEPT ![i] = Inherited(i) \cup Reused(n, i)
                                       \cup (IF free THEN {} ELSE {"clash"})]
        /\ IF free THEN Go(n, "inspect") ELSE End(n)
        /\ UNCHANGED <<row, call>>

(* The name is in use, the ports cannot be listed, the image is missing.   *)
RunFails(n) ==
    /\ at[n] \in {"port", "run"}
    /\ End(n)
    /\ UNCHANGED <<box, row, call, why>>

Inspect(n) ==
    /\ at[n] = "inspect"
    /\ IF box[job[n].id] = None THEN End(n) ELSE Go(n, "persist")
    /\ UNCHANGED <<box, row, call, why>>

(* From here on the row is about the container under its name.             *)
Adopted(n) ==
    LET i == job[n].id IN why' = [why EXCEPT ![i] = (@ \ {"stale"}) \cup Reused(n, i)]

Persist_KeepsOwner(n) ==
    LET i == job[n].id IN
    /\ at[n] = "persist"
    /\ row' = [row EXCEPT ![i] = [tenant |-> IF row[i] = None THEN job[n].tenant ELSE row[i].tenant,
                                  status |-> "provisioning"]]
    /\ Adopted(n)
    /\ Go(n, "govern")
    /\ UNCHANGED <<box, call>>

Persist_UpdatesOnly(n) ==
    LET i == job[n].id IN
    /\ at[n] = "persist"
    /\ row' = IF row[i] = None THEN row
              ELSE [row EXCEPT ![i] = [tenant |-> job[n].tenant, status |-> "provisioning"]]
    /\ Adopted(n)
    /\ Go(n, "govern")
    /\ UNCHANGED <<box, call>>

(* The upsert takes over a row an earlier sandbox of the name left.  Then  *)
(* the caller is answered and the background job starts.                   *)
Persist(n) ==
    /\ at[n] = "persist"
    /\ row' = [row EXCEPT ![job[n].id] = [tenant |-> job[n].tenant, status |-> "provisioning"]]
    /\ Adopted(n)
    /\ Go(n, "govern")
    /\ UNCHANGED <<box, call>>

(* Listing the containers or the upsert fails: nobody removes the new one. *)
PersistFails(n) ==
    /\ at[n] \in {"inspect", "persist"}
    /\ Note(job[n].id, {"lost"})
    /\ End(n)
    /\ UNCHANGED <<box, row, call>>

-----------------------------------------------------------------------------
(* The job: bootstrapSandbox.  A command that fails inside the container   *)
(* is a result nobody looks at; copying the token into a container that is *)
(* gone, and inspecting one, throw.                                        *)

Governed(i, t) == box' = [box EXCEPT ![i].token = t]

Govern(n) ==
    LET i == job[n].id IN
    /\ at[n] = "govern"
    /\ \/ box[i] # None /\ Governed(i, job[n].tenant) /\ Go(n, "finish") /\ UNCHANGED why
       \/ Note(i, {"ungoverned"}) /\ Go(n, "finish") /\ UNCHANGED box
       \/ Go(n, "cleanup") /\ UNCHANGED <<box, why>>
    /\ UNCHANGED <<row, call>>

FinishThrows_Uncaught(n) ==
    /\ at[n] = "finish"
    /\ End(n)
    /\ UNCHANGED <<box, row, call, why>>

FinishThrows(n) ==
    /\ at[n] = "finish"
    /\ Go(n, "cleanup")
    /\ UNCHANGED <<box, row, call, why>>

Finish(n) ==
    LET i == job[n].id IN
    /\ at[n] = "finish" /\ box[i] # None
    /\ job' = [job EXCEPT ![n].seen = IF box[i].up THEN "started" ELSE "exited"]
    /\ at' = [at EXCEPT ![n] = "ready"]
    /\ UNCHANGED <<box, row, call, why>>

(* Both updates of the row go by identifier and swallow every error, that  *)
(* the row is gone among them.                                             *)
Settle(n, status) ==
    LET i == job[n].id IN
    /\ \/ /\ row' = IF row[i] = None THEN row ELSE [row EXCEPT ![i].status = status]
          /\ UNCHANGED why
       \/ Note(i, {"lost"}) /\ UNCHANGED row
    /\ End(n)
    /\ UNCHANGED <<box, call>>

Ready(n) == at[n] = "ready" /\ Settle(n, job[n].seen)

(* docker rm -f, by name; a failure is swallowed.                          *)
Removed(i) == \/ box' = [box EXCEPT ![i] = None] /\ UNCHANGED why
              \/ box[i] # None /\ Note(i, {"lost"}) /\ UNCHANGED box

Cleanup(n) ==
    /\ at[n] = "cleanup"
    /\ Removed(job[n].id)
    /\ Go(n, "fail")
    /\ UNCHANGED <<row, call>>

MarkFailed(n) == at[n] = "fail" /\ Settle(n, "failed")

-----------------------------------------------------------------------------
(* DELETE /sandboxes/:id and POST /sandboxes/:id/desktop/restart, for the  *)
(* tenant the row belongs to.                                              *)

Step(c, a) == call' = [call EXCEPT ![c].at = a]
Answer(c) == call' = [call EXCEPT ![c] = Idle]

assertSandboxOwner(c, i, a) ==
    /\ call[c] = Idle /\ row[i] # None
    /\ call' = [call EXCEPT ![c] = [at |-> a, id |-> i, tenant |-> row[i].tenant]]
    /\ UNCHANGED <<box, row, at, job, why>>

deleteSandbox(c) ==
    /\ call[c].at = "remove"
    /\ Removed(call[c].id)
    /\ Step(c, "drop")
    /\ UNCHANGED <<row, at, job>>

DropRow(c) ==
    /\ call[c].at = "drop"
    /\ row' = [row EXCEPT ![call[c].id] = None]
    /\ Answer(c)
    /\ UNCHANGED <<box, at, job, why>>

(* deleteMany is best effort: its error is swallowed.                      *)
DropFails(c) ==
    /\ call[c].at = "drop"
    /\ Note(call[c].id, {"lost"})
    /\ Answer(c)
    /\ UNCHANGED <<box, row, at, job>>

(* docker restart also starts a container whose port was refused, once the *)
(* port is free.                                                           *)
DockerRestart(c) ==
    LET i == call[c].id IN
    /\ call[c].at = "restart"
    /\ box[i] # None /\ (box[i].up \/ box[i].port \notin UsedPorts)
    /\ box' = [box EXCEPT ![i].up = TRUE]
    /\ Step(c, "regovern")
    /\ UNCHANGED <<row, at, job, why>>

RestartFails(c) ==
    /\ call[c].at = "restart"
    /\ Answer(c)
    /\ UNCHANGED <<box, row, at, job, why>>

restartSandboxDesktop(c) ==
    LET i == call[c].id IN
    /\ call[c].at = "regovern"
    /\ \/ box[i] # None /\ Governed(i, call[c].tenant)
       \/ UNCHANGED box
    /\ Answer(c)
    /\ UNCHANGED <<row, at, job, why>>

-----------------------------------------------------------------------------
(* The names that requests and jobs are working on.                        *)
Busy == {job[n].id : n \in {m \in Creations : at[m] \notin {"unused", "done"}}}
          \cup {call[c].id : c \in {d \in Calls : call[d] # Idle}}

(* The API process stops: its requests and jobs end where they are.        *)
Crash ==
    /\ Busy # {}
    /\ why' = [i \in Ids |-> IF i \in Busy THEN why[i] \cup {"crash"} ELSE why[i]]
    /\ at' = [n \in Creations |-> IF at[n] = "unused" THEN "unused" ELSE "done"]
    /\ job' = [n \in Creations |-> None]
    /\ call' = [c \in Calls |-> Idle]
    /\ UNCHANGED <<box, row>>

Work(n) ==
    \/ allocatePort(n) \/ DockerRun(n) \/ RunFails(n) \/ Inspect(n) \/ Persist(n) \/ PersistFails(n)
    \/ Govern(n) \/ FinishThrows(n) \/ Finish(n) \/ Ready(n) \/ Cleanup(n) \/ MarkFailed(n)

Next ==
    \/ \E n \in Creations : Work(n) \/ \E i \in Ids, t \in Tenants : Create(n, i, t)
    \/ \E c \in Calls :
         \/ \E i \in Ids, a \in {"remove", "restart"} : assertSandboxOwner(c, i, a)
         \/ deleteSandbox(c) \/ DropRow(c) \/ DropFails(c)
         \/ DockerRestart(c) \/ RestartFails(c) \/ restartSandboxDesktop(c)
    \/ Crash

(* Timers, docker and the database answer while the process runs.          *)
Spec == Init /\ [][Next]_vars /\ \A n \in Creations : WF_vars(Work(n))

-----------------------------------------------------------------------------
InFlight(i) == \E n \in Creations : at[n] \in {"inspect", "persist"} /\ job[n].id = i

(* A sandbox shown as started passes the gateway as an agent of the          *)
(* organization it belongs to, unless a configuration step inside the       *)
(* container failed unnoticed, the row still is that of an earlier sandbox  *)
(* of the name, or the name was used again while something ran for its      *)
(* predecessor: then the old job may install the old owner's token.         *)
StartedGoverned ==
    \A i \in Ids :
        row[i] # None /\ row[i].status = "started" /\ box[i] # None
          => \/ box[i].token = row[i].tenant
             \/ why[i] \cap {"ungoverned", "stale", "reused"} # {}

(* A container no row leads to, which no DELETE can reach, is one being      *)
(* created, or was left by a crash, a refused port, an error swallowed on    *)
(* the way, or a name used again too early.                                 *)
OrphanExplained ==
    \A i \in Ids :
        box[i] # None /\ row[i] = None
          => InFlight(i) \/ why[i] \cap {"crash", "clash", "lost", "reused"} # {}

(* "removes the provider resource when bootstrap fails": the container of a *)
(* failed sandbox is gone until the name is used again, unless removing it  *)
(* failed silently or the name was used again too early.                    *)
FailedIsGone ==
    \A i \in Ids :
        row[i] # None /\ row[i].status = "failed" /\ box[i] # None
          => InFlight(i) \/ why[i] \cap {"crash", "clash", "lost", "reused"} # {}

(* A sandbox does not stay in preparation: while the process lives and the  *)
(* last update is not lost, the job settles the row whatever is deleted or  *)
(* created around it.                                                       *)
ProvisioningEnds ==
    \A i \in Ids :
        (row[i] # None /\ row[i].status = "provisioning")
          ~> (row[i] = None \/ row[i].status # "provisioning" \/ why[i] \cap {"crash", "lost"} # {})
=============================================================================
