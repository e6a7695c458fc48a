----------------------- MODULE SandboxLifecycleProofs -----------------------
(***************************************************************************)
(* For any names, ports, organizations and numbers of requests: a started  *)
(* sandbox is governed as its owner's, and no container is orphaned or     *)
(* survives its failure, but for the causes the properties name.           *)
(*                                                                         *)
(* The invariant behind them is about sharing: two jobs, or a job and a    *)
(* call, that work on one name with different owners have reused the name. *)
(***************************************************************************)
EXTENDS SandboxLifecycle, WellFoundedInduction, TLAPS

Underway(n) == at[n] \notin {"unused", "done"}
Behind(n) == at[n] \in Background

(* What a creation has found out by the place it is at.                    *)
Working ==
    \A n \in Creations :
        /\ Underway(n) => job[n] \in Job
        /\ at[n] = "run" => job[n].port \in Ports
        /\ at[n] = "ready" => job[n].seen \in {"started", "exited"}

Again(i) == "reused" \in why[i]
Spoiled(i) == why[i] \cap {"crash", "clash", "lost", "reused"} # {}

(* Whatever works on one name works for one owner, or the name was reused. *)
Sharing ==
    /\ \A n, m \in Creations :
         n # m /\ Behind(n) /\ Behind(m) /\ job[n].id = job[m].id => Again(job[n].id)
    /\ \A n \in Creations, c \in Calls :
         Behind(n) /\ call[c].at # "idle" /\ call[c].id = job[n].id
           => job[n].tenant = call[c].tenant \/ Again(job[n].id)
    /\ \A n \in Creations :
         Behind(n) => \/ row[job[n].id] = None
                      \/ row[job[n].id].tenant = job[n].tenant
                      \/ Again(job[n].id)
    /\ \A c \in Calls :
         call[c].at # "idle" => \/ row[call[c].id] = None
                                \/ row[call[c].id].tenant = call[c].tenant
                                \/ Again(call[c].id)

(* What the steps of a job and of a DELETE have left behind.               *)
Left ==
    /\ \A n \in Creations :
         at[n] \in {"finish", "ready"} =>
             \/ box[job[n].id] = None
             \/ box[job[n].id].token = job[n].tenant
             \/ why[job[n].id] \cap {"ungoverned", "reused"} # {}
    /\ \A n \in Creations : at[n] = "fail" => box[job[n].id] = None \/ Spoiled(job[n].id)
    /\ \A c \in Calls : call[c].at = "drop" => box[call[c].id] = None \/ Spoiled(call[c].id)

Safe == StartedGoverned /\ OrphanExplained /\ FailedIsGone

Inv == TypeOK /\ Working /\ Sharing /\ Left /\ Safe

-----------------------------------------------------------------------------
(* Types                                                                    *)

\* The lowest free port is a port.
LEMMA LowestPort ==
    ASSUME NEW S \in SUBSET Ports, S # {}
    PROVE  Min(S) \in S
<1>1. S \subseteq Nat
  BY SandboxAssumption
<1>2. PICK p \in S : \A q \in S : ~(<<q, p>> \in OpToRel(<, Nat))
  BY <1>1, NatLessThanWellFounded, WFMin
<1>3. ASSUME NEW q \in S
      PROVE  p <= q
  <2>1. p \in Nat /\ q \in Nat
    BY <1>1
  <2>2. q < p => <<q, p>> \in OpToRel(<, Nat)
    BY <2>1, SMT DEF OpToRel
  <2>3. ~(q < p)
    BY <1>2, <2>2
  <2>4. QED
    BY <2>1, <2>3
<1>4. QED
  BY <1>3 DEF Min

\* An idle call is told from one in flight by its place.
LEMMA InFlightCalls ==
    ASSUME TypeOK, NEW c \in Calls
    PROVE  /\ call[c] = Idle <=> call[c].at = "idle"
           /\ call[c].at # "idle" => call[c] \in Call
           /\ call[c].at \in {"idle", "remove", "drop", "restart", "regovern"}
  BY DEF TypeOK, Idle, Call

\* Every step keeps the types.
LEMMA Typing ==
    ASSUME TypeOK, Working, [Next]_vars
    PROVE  TypeOK' /\ Working'
<1> USE DEF TypeOK, Working, Underway, Box, Row, Job, Background
<1>1. ASSUME NEW n \in Creations, NEW i \in Ids, NEW t \in Tenants, Create(n, i, t)
      PROVE  TypeOK' /\ Working'
  BY <1>1, InFlightCalls, NoneAssumption DEF Create
<1>2. ASSUME NEW n \in Creations, allocatePort(n)
      PROVE  TypeOK' /\ Working'
  <2>1. CASE Ports \ UsedPorts = {}
    BY <1>2, <2>1 DEF allocatePort, End
  <2>2. CASE Ports \ UsedPorts # {}
    <3>1. Ports \ UsedPorts \in SUBSET Ports
      OBVIOUS
    <3>2. Min(Ports \ UsedPorts) \in Ports
      BY <2>2, <3>1, LowestPort
    <3>3. QED
      BY <1>2, <2>2, <3>2 DEF allocatePort
  <2>3. QED
    BY <2>1, <2>2
<1>3. ASSUME NEW n \in Creations, DockerRun(n)
      PROVE  TypeOK' /\ Working'
  BY <1>3, InFlightCalls, NoneAssumption DEF DockerRun, End, Go, Inherited, Reused, Haunted, UsedPorts
<1>4. ASSUME NEW n \in Creations, RunFails(n)
      PROVE  TypeOK' /\ Working'
  BY <1>4, InFlightCalls, NoneAssumption DEF RunFails, End
<1>5. ASSUME NEW n \in Creations, Inspect(n)
      PROVE  TypeOK' /\ Working'
  BY <1>5, InFlightCalls, NoneAssumption DEF Inspect, End, Go
<1>6. ASSUME NEW n \in Creations, Persist(n)
      PROVE  TypeOK' /\ Working'
  BY <1>6, InFlightCalls, NoneAssumption DEF Persist, Go, Adopted, Reused, Haunted
<1>7. ASSUME NEW n \in Creations, PersistFails(n)
      PROVE  TypeOK' /\ Working'
  BY <1>7, InFlightCalls, NoneAssumption DEF PersistFails, End, Note
<1>8. ASSUME NEW n \in Creations, Govern(n)
      PROVE  TypeOK' /\ Working'
  BY <1>8, InFlightCalls, NoneAssumption DEF Govern, Governed, Go, Note
<1>9. ASSUME NEW n \in Creations, FinishThrows(n)
      PROVE  TypeOK' /\ Working'
  BY <1>9, InFlightCalls, NoneAssumption DEF FinishThrows, Go
<1>10. ASSUME NEW n \in Creations, Finish(n)
      PROVE  TypeOK' /\ Working'
  BY <1>10, InFlightCalls, NoneAssumption DEF Finish
<1>11. ASSUME NEW n \in Creations, Ready(n)
      PROVE  TypeOK' /\ Working'
  <2>1. job[n].id \in Ids /\ job[n].seen \in {"started", "exited", "failed"}
    BY <1>11 DEF Ready
  <2>2. row' \in [Ids -> Row \cup {None}]
    BY <1>11, <2>1 DEF Ready, Settle
  <2>3. why' \in [Ids -> SUBSET {"crash", "clash", "lost", "reused", "stale", "ungoverned"}]
    BY <1>11, <2>1 DEF Ready, Settle, Note
  <2>4. QED
    BY <1>11, <2>2, <2>3 DEF Ready, Settle, End
<1>12. ASSUME NEW n \in Creations, Cleanup(n)
      PROVE  TypeOK' /\ Working'
  BY <1>12, InFlightCalls, NoneAssumption DEF Cleanup, Removed, Go, Note
<1>13. ASSUME NEW n \in Creations, MarkFailed(n)
      PROVE  TypeOK' /\ Working'
  <2>1. job[n].id \in Ids /\ "failed" \in {"started", "exited", "failed"}
    BY <1>13 DEF MarkFailed
  <2>2. row' \in [Ids -> Row \cup {None}]
    BY <1>13, <2>1 DEF MarkFailed, Settle
  <2>3. why' \in [Ids -> SUBSET {"crash", "clash", "lost", "reused", "stale", "ungoverned"}]
    BY <1>13, <2>1 DEF MarkFailed, Settle, Note
  <2>4. QED
    BY <1>13, <2>2, <2>3 DEF MarkFailed, Settle, End
<1>14. ASSUME NEW c \in Calls, NEW i \in Ids, NEW a \in {"remove", "restart"}, assertSandboxOwner(c, i, a)
      PROVE  TypeOK' /\ Working'
  <2>1. row[i].tenant \in Tenants
    BY <1>14 DEF assertSandboxOwner
  <2>2. [at |-> a, id |-> i, tenant |-> row[i].tenant] \in Call
    BY <2>1 DEF Call
  <2>3. call' \in [Calls -> Call \cup {Idle}]
    BY <1>14, <2>2 DEF assertSandboxOwner
  <2>4. QED
    BY <1>14, <2>3 DEF assertSandboxOwner
<1>15. ASSUME NEW c \in Calls, deleteSandbox(c)
      PROVE  TypeOK' /\ Working'
  <2>1. call[c] \in Call
    BY <1>15, InFlightCalls DEF deleteSandbox
  <2>2. call' \in [Calls -> Call \cup {Idle}] /\ call[c].id \in Ids
    BY <1>15, <2>1 DEF deleteSandbox, Step, Call
  <2>3. QED
    BY <1>15, <2>2 DEF deleteSandbox, Removed, Note
<1>16. ASSUME NEW c \in Calls, DropRow(c)
      PROVE  TypeOK' /\ Working'
  BY <1>16, InFlightCalls, NoneAssumption DEF DropRow, Answer
<1>17. ASSUME NEW c \in Calls, DropFails(c)
      PROVE  TypeOK' /\ Working'
  BY <1>17, InFlightCalls, NoneAssumption DEF DropFails, Answer, Note
<1>18. ASSUME NEW c \in Calls, DockerRestart(c)
      PROVE  TypeOK' /\ Working'
  <2>1. call[c] \in Call
    BY <1>18, InFlightCalls DEF DockerRestart
  <2>2. call' \in [Calls -> Call \cup {Idle}] /\ call[c].id \in Ids
    BY <1>18, <2>1 DEF DockerRestart, Step, Call
  <2>3. box' \in [Ids -> Box \cup {None}]
    <3>1. \A b \in Box : [b EXCEPT !.up = TRUE] \in Box
      OBVIOUS
    <3>2. box[call[c].id] \in Box
      BY <1>18, <2>2 DEF DockerRestart
    <3>3. [box[call[c].id] EXCEPT !.up = TRUE] \in Box
      BY <3>1, <3>2
    <3>4. QED
      BY <1>18, <2>2, <3>3 DEF DockerRestart
  <2>4. QED
    BY <1>18, <2>2, <2>3 DEF DockerRestart
<1>19. ASSUME NEW c \in Calls, RestartFails(c)
      PROVE  TypeOK' /\ Working'
  BY <1>19, InFlightCalls, NoneAssumption DEF RestartFails, Answer
<1>20. ASSUME NEW c \in Calls, restartSandboxDesktop(c)
      PROVE  TypeOK' /\ Working'
  <2>1. call[c] \in Call
    BY <1>20, InFlightCalls DEF restartSandboxDesktop
  <2>2. call[c].id \in Ids /\ call[c].tenant \in Tenants
    BY <2>1 DEF Call
  <2>3. QED
    BY <1>20, <2>2 DEF restartSandboxDesktop, Governed, Answer
<1>21. CASE Crash
  BY <1>21, InFlightCalls, NoneAssumption DEF Crash, Busy
<1>22. CASE UNCHANGED vars
  BY <1>22 DEF vars
<1>23. QED
  BY <1>1, <1>2, <1>3, <1>4, <1>5, <1>6, <1>7, <1>8, <1>9, <1>10, <1>11, <1>12, <1>13, <1>14, <1>15, <1>16, <1>17, <1>18, <1>19, <1>20, <1>21, <1>22 DEF Next, Work

-----------------------------------------------------------------------------
(* The invariant                                                            *)

\* What keeps Sharing: nobody new works on a name, no row gets another owner,
\* and a name being worked on stays noted as reused.
Worked(i) ==
    \/ \E n \in Creations : Behind(n) /\ job[n].id = i
    \/ \E c \in Calls : call[c].at # "idle" /\ call[c].id = i

Continues ==
    /\ \A n \in Creations :
         Behind(n)' => Behind(n) /\ job'[n].id = job[n].id /\ job'[n].tenant = job[n].tenant
    /\ \A c \in Calls : call'[c].at # "idle" =>
         call[c].at # "idle" /\ call'[c].id = call[c].id /\ call'[c].tenant = call[c].tenant
    /\ \A i \in Ids :
         row'[i] = None \/ (row[i] # None /\ row'[i].tenant = row[i].tenant)
    /\ \A i \in Ids : Worked(i) /\ Again(i) => Again(i)'

\* The names of jobs and calls are names.
LEMMA Names ==
    ASSUME TypeOK, Working
    PROVE  /\ \A n \in Creations : Underway(n) =>
                job[n].id \in Ids /\ job[n].tenant \in Tenants
           /\ \A c \in Calls : call[c].at # "idle" =>
                call[c].id \in Ids /\ call[c].tenant \in Tenants
  BY InFlightCalls DEF TypeOK, Working, Job, Call

\* Sharing lasts while what works on a name only continues.
LEMMA Continuing ==
    ASSUME TypeOK, Working, Sharing, Continues
    PROVE  Sharing'
<1> USE Names DEF Continues, Worked, Behind, Background, Underway
<1>1. \A n, m \in Creations :
        n # m /\ Behind(n)' /\ Behind(m)' /\ job'[n].id = job'[m].id => Again(job[n].id)'
  BY DEF Sharing
<1>2. \A n \in Creations, c \in Calls :
        Behind(n)' /\ call'[c].at # "idle" /\ call'[c].id = job'[n].id
          => job'[n].tenant = call'[c].tenant \/ Again(job[n].id)'
  BY DEF Sharing
<1>3. \A n \in Creations :
        Behind(n)' => \/ row'[job'[n].id] = None
                      \/ row'[job'[n].id].tenant = job'[n].tenant
                      \/ Again(job[n].id)'
  BY DEF Sharing
<1>4. \A c \in Calls :
        call'[c].at # "idle" => \/ row'[call'[c].id] = None
                                \/ row'[call'[c].id].tenant = call'[c].tenant
                                \/ Again(call[c].id)'
  BY DEF Sharing
<1>5. QED
  BY <1>1, <1>2, <1>3, <1>4 DEF Sharing, Again

\* A job begins: whatever else works on its name is noted.
LEMMA PersistShares ==
    ASSUME TypeOK, Working, Sharing, NEW n \in Creations, Persist(n)
    PROVE  Sharing'
<1> DEFINE i == job[n].id
<1>1. /\ at[n] = "persist" /\ i \in Ids /\ UNCHANGED <<call, job>>
      /\ at' = [at EXCEPT ![n] = "govern"]
      /\ row' = [row EXCEPT ![i] = [tenant |-> job[n].tenant, status |-> "provisioning"]]
      /\ why' = [why EXCEPT ![i] = (@ \ {"stale"}) \cup Reused(n, i)]
  BY Names DEF Persist, Go, Adopted, Underway
<1>2. \A j \in Ids : Again(j) => "reused" \in why'[j]
  BY <1>1 DEF TypeOK, Again
<1>3. Haunted(n, i) => "reused" \in why'[i]
  BY <1>1 DEF TypeOK, Reused
<1>4. \A m \in Creations \ {n} : Behind(m) /\ job[m].id = i => "reused" \in why'[i]
  BY <1>3 DEF Haunted, Behind
<1>5. \A c \in Calls : call[c].at # "idle" /\ call[c].id = i => "reused" \in why'[i]
  BY <1>3, InFlightCalls DEF Haunted
<1>6. \A m \in Creations : Behind(m)' => m = n \/ Behind(m)
  BY <1>1 DEF TypeOK, Behind
<1>7. \A m \in Creations : Behind(m) => job[m].id \in Ids
  BY Names DEF Behind, Background, Underway
<1>8. \A c \in Calls : call[c].at # "idle" => call[c].id \in Ids
  BY Names
<1>9. /\ row'[i].tenant = job[n].tenant
      /\ \A j \in Ids \ {i} : row'[j] = row[j]
  BY <1>1 DEF TypeOK
<1> HIDE DEF i
<1>10. \A m, k \in Creations :
         m # k /\ Behind(m)' /\ Behind(k)' /\ job[m].id = job[k].id => "reused" \in why'[job[m].id]
  <2> SUFFICES ASSUME NEW m \in Creations, NEW k \in Creations, m # k, Behind(m)', Behind(k)',
                      job[m].id = job[k].id
               PROVE  "reused" \in why'[job[m].id]
    OBVIOUS
  <2>1. CASE m = n
    BY <2>1, <1>4, <1>6 DEF i
  <2>2. CASE k = n
    BY <2>2, <1>4, <1>6 DEF i
  <2>3. CASE m # n /\ k # n
    BY <2>3, <1>2, <1>6, <1>7 DEF Sharing
  <2>4. QED
    BY <2>1, <2>2, <2>3
<1>11. \A m \in Creations, c \in Calls :
         Behind(m)' /\ call[c].at # "idle" /\ call[c].id = job[m].id
           => job[m].tenant = call[c].tenant \/ "reused" \in why'[job[m].id]
  <2> SUFFICES ASSUME NEW m \in Creations, NEW c \in Calls, Behind(m)', call[c].at # "idle",
                      call[c].id = job[m].id
               PROVE  job[m].tenant = call[c].tenant \/ "reused" \in why'[job[m].id]
    OBVIOUS
  <2>1. CASE m = n
    BY <2>1, <1>5 DEF i
  <2>2. CASE m # n
    BY <2>2, <1>2, <1>6, <1>7 DEF Sharing
  <2>3. QED
    BY <2>1, <2>2
<1>12. \A m \in Creations :
         Behind(m)' => \/ row'[job[m].id] = None
                       \/ row'[job[m].id].tenant = job[m].tenant
                       \/ "reused" \in why'[job[m].id]
  <2> SUFFICES ASSUME NEW m \in Creations, Behind(m)'
               PROVE  \/ row'[job[m].id] = None
                      \/ row'[job[m].id].tenant = job[m].tenant
                      \/ "reused" \in why'[job[m].id]
    OBVIOUS
  <2>1. CASE m = n
    BY <2>1, <1>9 DEF i
  <2>2. CASE m # n /\ job[m].id = i
    BY <2>2, <1>4, <1>6
  <2>3. CASE m # n /\ job[m].id # i
    BY <2>3, <1>2, <1>6, <1>7, <1>9 DEF Sharing
  <2>4. QED
    BY <2>1, <2>2, <2>3
<1>13. \A c \in Calls :
         call[c].at # "idle" => \/ row'[call[c].id] = None
                                \/ row'[call[c].id].tenant = call[c].tenant
                                \/ "reused" \in why'[call[c].id]
  BY <1>2, <1>5, <1>8, <1>9 DEF Sharing
<1>14. QED
  BY <1>1, <1>10, <1>11, <1>12, <1>13 DEF Sharing, Again

\* A call begins: it works for the owner of the row, as the jobs do.
LEMMA CallShares ==
    ASSUME TypeOK, Working, Sharing, NEW c \in Calls, NEW i \in Ids,
           NEW a \in {"remove", "restart"}, assertSandboxOwner(c, i, a)
    PROVE  Sharing'
<1>1. /\ row[i] # None /\ UNCHANGED <<row, at, job, why>>
      /\ call' = [call EXCEPT ![c] = [at |-> a, id |-> i, tenant |-> row[i].tenant]]
  BY DEF assertSandboxOwner
<1>2. /\ call'[c].id = i /\ call'[c].tenant = row[i].tenant
      /\ \A d \in Calls \ {c} : call'[d] = call[d]
  BY <1>1 DEF TypeOK
<1>3. \A n \in Creations, d \in Calls :
        Behind(n) /\ call'[d].at # "idle" /\ call'[d].id = job[n].id
          => job[n].tenant = call'[d].tenant \/ Again(job[n].id)
  BY <1>1, <1>2 DEF Sharing
<1>4. \A d \in Calls :
        call'[d].at # "idle" => \/ row[call'[d].id] = None
                                \/ row[call'[d].id].tenant = call'[d].tenant
                                \/ Again(call'[d].id)
  BY <1>1, <1>2 DEF Sharing
<1>5. QED
  BY <1>1, <1>3, <1>4 DEF Sharing, Behind, Again

\* A name that two begin to work on is noted as reused.
LEMMA SharingKept ==
    ASSUME TypeOK, Working, Sharing, [Next]_vars
    PROVE  Sharing'
<1> USE DEF TypeOK, Working, Underway, Behind, Background, Again, Continues, Row, Job
<1>1. ASSUME NEW n \in Creations, NEW i \in Ids, NEW t \in Tenants, Create(n, i, t)
      PROVE  Sharing'
  <2>1. Continues
    BY <1>1, InFlightCalls, NoneAssumption DEF Create
  <2>2. QED
    BY <2>1, Continuing
<1>2. ASSUME NEW n \in Creations, allocatePort(n)
      PROVE  Sharing'
  <2>1. Continues
    BY <1>2, InFlightCalls, NoneAssumption DEF allocatePort, End
  <2>2. QED
    BY <2>1, Continuing
<1>3. ASSUME NEW n \in Creations, DockerRun(n)
      PROVE  Sharing'
  <2>1. Continues
    BY <1>3, InFlightCalls, NoneAssumption DEF DockerRun, End, Go, Inherited, Reused, Haunted, UsedPorts, Worked
  <2>2. QED
    BY <2>1, Continuing
<1>4. ASSUME NEW n \in Creations, RunFails(n)
      PROVE  Sharing'
  <2>1. Continues
    BY <1>4, InFlightCalls, NoneAssumption DEF RunFails, End
  <2>2. QED
    BY <2>1, Continuing
<1>5. ASSUME NEW n \in Creations, Inspect(n)
      PROVE  Sharing'
  <2>1. Continues
    BY <1>5, InFlightCalls, NoneAssumption DEF Inspect, End, Go
  <2>2. QED
    BY <2>1, Continuing
<1>6. ASSUME NEW n \in Creations, Persist(n)
      PROVE  Sharing'
  BY <1>6, PersistShares
<1>7. ASSUME NEW n \in Creations, PersistFails(n)
      PROVE  Sharing'
  <2>1. Continues
    BY <1>7, InFlightCalls, NoneAssumption DEF PersistFails, End, Note
  <2>2. QED
    BY <2>1, Continuing
<1>8. ASSUME NEW n \in Creations, Govern(n)
      PROVE  Sharing'
  <2>1. Continues
    BY <1>8, InFlightCalls, NoneAssumption DEF Govern, Governed, Go, Note
  <2>2. QED
    BY <2>1, Continuing
<1>9. ASSUME NEW n \in Creations, FinishThrows(n)
      PROVE  Sharing'
  <2>1. Continues
    BY <1>9, InFlightCalls, NoneAssumption DEF FinishThrows, Go
  <2>2. QED
    BY <2>1, Continuing
<1>10. ASSUME NEW n \in Creations, Finish(n)
      PROVE  Sharing'
  <2>1. Continues
    BY <1>10, InFlightCalls, NoneAssumption DEF Finish
  <2>2. QED
    BY <2>1, Continuing
<1>11. ASSUME NEW n \in Creations, Ready(n)
      PROVE  Sharing'
  <2>1. Continues
    BY <1>11, InFlightCalls, NoneAssumption DEF Ready, Settle, End, Note
  <2>2. QED
    BY <2>1, Continuing
<1>12. ASSUME NEW n \in Creations, Cleanup(n)
      PROVE  Sharing'
  <2>1. Continues
    BY <1>12, InFlightCalls, NoneAssumption DEF Cleanup, Removed, Go, Note
  <2>2. QED
    BY <2>1, Continuing
<1>13. ASSUME NEW n \in Creations, MarkFailed(n)
      PROVE  Sharing'
  <2>1. \A i \in Ids : row'[i] = None \/ (row[i] # None /\ row'[i].tenant = row[i].tenant)
    BY <1>13 DEF MarkFailed, Settle
  <2>2. Continues
    BY <1>13, <2>1 DEF MarkFailed, Settle, End, Note
  <2>3. QED
    BY <2>2, Continuing
<1>14. ASSUME NEW c \in Calls, NEW i \in Ids, NEW a \in {"remove", "restart"}, assertSandboxOwner(c, i, a)
      PROVE  Sharing'
  BY <1>14, CallShares
<1>15. ASSUME NEW c \in Calls, deleteSandbox(c)
      PROVE  Sharing'
  <2>1. Continues
    BY <1>15, InFlightCalls, NoneAssumption DEF deleteSandbox, Removed, Step, Note, Call, Idle
  <2>2. QED
    BY <2>1, Continuing
<1>16. ASSUME NEW c \in Calls, DropRow(c)
      PROVE  Sharing'
  <2>1. Continues
    BY <1>16, InFlightCalls, NoneAssumption DEF DropRow, Answer, Call, Idle
  <2>2. QED
    BY <2>1, Continuing
<1>17. ASSUME NEW c \in Calls, DropFails(c)
      PROVE  Sharing'
  <2>1. Continues
    BY <1>17, InFlightCalls, NoneAssumption DEF DropFails, Answer, Note, Call, Idle
  <2>2. QED
    BY <2>1, Continuing
<1>18. ASSUME NEW c \in Calls, DockerRestart(c)
      PROVE  Sharing'
  <2>1. Continues
    BY <1>18, InFlightCalls, NoneAssumption DEF DockerRestart, Step, UsedPorts, Call, Idle
  <2>2. QED
    BY <2>1, Continuing
<1>19. ASSUME NEW c \in Calls, RestartFails(c)
      PROVE  Sharing'
  <2>1. Continues
    BY <1>19, InFlightCalls, NoneAssumption DEF RestartFails, Answer, Call, Idle
  <2>2. QED
    BY <2>1, Continuing
<1>20. ASSUME NEW c \in Calls, restartSandboxDesktop(c)
      PROVE  Sharing'
  <2>1. Continues
    BY <1>20, InFlightCalls, NoneAssumption DEF restartSandboxDesktop, Governed, Answer, Call, Idle
  <2>2. QED
    BY <2>1, Continuing
<1>21. CASE Crash
  <2>1. Continues
    BY <1>21, InFlightCalls, NoneAssumption DEF Crash, Busy, Idle
  <2>2. QED
    BY <2>1, Continuing
<1>22. CASE UNCHANGED vars
  <2>1. Continues
    BY <1>22, InFlightCalls, NoneAssumption DEF vars
  <2>2. QED
    BY <2>1, Continuing
<1>23. QED
  BY <1>1, <1>2, <1>3, <1>4, <1>5, <1>6, <1>7, <1>8, <1>9, <1>10, <1>11, <1>12, <1>13, <1>14, <1>15, <1>16, <1>17, <1>18, <1>19, <1>20, <1>21, <1>22 DEF Next, Work

\* What keeps Left: nobody new has governed or removed a container, and those
\* of the names worked on do not change, but to vanish, or are spoiled.
Progresses ==
    /\ \A n \in Creations : at'[n] \in {"finish", "ready"} =>
         at[n] \in {"finish", "ready"} /\ job'[n].id = job[n].id /\ job'[n].tenant = job[n].tenant
    /\ \A n \in Creations : at'[n] = "fail" => at[n] = "fail" /\ job'[n].id = job[n].id
    /\ \A c \in Calls : call'[c].at = "drop" => call[c].at = "drop" /\ call'[c].id = call[c].id
    /\ \A i \in Ids : Worked(i) =>
         \/ "reused" \in why'[i]
         \/ /\ box'[i] = None \/ (box[i] # None /\ box'[i].token = box[i].token)
            /\ why[i] \ {"stale"} \subseteq why'[i]

\* What is left stays while the steps behind it are not taken again.
LEMMA Progressing ==
    ASSUME TypeOK, Working, Left, Progresses
    PROVE  Left'
<1>1. \A n \in Creations : at[n] \in {"finish", "ready", "fail"} =>
        job[n].id \in Ids /\ Worked(job[n].id)
  BY Names DEF Worked, Behind, Background, Underway
<1>2. \A c \in Calls : call[c].at = "drop" => call[c].id \in Ids /\ Worked(call[c].id)
  BY Names DEF Worked
<1>3. \A n \in Creations :
        at'[n] \in {"finish", "ready"} =>
            \/ box'[job'[n].id] = None
            \/ box'[job'[n].id].token = job'[n].tenant
            \/ why'[job'[n].id] \cap {"ungoverned", "reused"} # {}
  BY <1>1 DEF Left, Progresses
<1>4. \A n \in Creations : at'[n] = "fail" =>
        box'[job'[n].id] = None \/ why'[job'[n].id] \cap {"crash", "clash", "lost", "reused"} # {}
  BY <1>1 DEF Left, Progresses, Spoiled
<1>5. \A c \in Calls : call'[c].at = "drop" =>
        box'[call'[c].id] = None \/ why'[call'[c].id] \cap {"crash", "clash", "lost", "reused"} # {}
  BY <1>2 DEF Left, Progresses, Spoiled
<1>6. QED
  BY <1>3, <1>4, <1>5 DEF Left, Spoiled

\* The job has installed its token, or the name is noted.
LEMMA GovernLeaves ==
    ASSUME TypeOK, Working, Sharing, Left, NEW n \in Creations, Govern(n)
    PROVE  Left'
<1> DEFINE i == job[n].id
<1>1. at[n] = "govern" /\ i \in Ids /\ UNCHANGED <<row, call, job>>
  BY Names DEF Govern, Go, Note, Underway
<1>2. \A m \in Creations : at[m] \in {"finish", "ready", "fail"} => job[m].id \in Ids
  BY Names DEF Underway
<1>3. \A c \in Calls : call[c].at = "drop" => call[c].id \in Ids
  BY Names
<1>4. \A m \in Creations \ {n} : at'[m] = at[m]
  BY DEF Govern, Go, Note, TypeOK
<1>5. \A j \in Ids : why[j] \subseteq why'[j]
  BY DEF Govern, Note, TypeOK
<1>6. \A j \in Ids : box[j] = None => box'[j] = None
  BY <1>1 DEF Govern, Governed, TypeOK
<1>7. \A j \in Ids : j # i => box'[j] = box[j]
  BY <1>1 DEF Govern, Governed, TypeOK
<1>8. at'[n] \in {"finish", "cleanup"}
  BY DEF Govern, Go, Note, TypeOK
<1>9. at'[n] = "finish" => box'[i].token = job[n].tenant \/ "ungoverned" \in why'[i]
  BY <1>1 DEF Govern, Governed, Go, Note, TypeOK, Box
<1>10. \A m \in Creations \ {n} : at[m] \in {"finish", "ready"} /\ job[m].id = i => "reused" \in why'[i]
  BY <1>1, <1>5 DEF Sharing, Behind, Background, Again
<1>11. \A m \in Creations :
        at'[m] \in {"finish", "ready"} =>
            \/ box'[job[m].id] = None
            \/ box'[job[m].id].token = job[m].tenant
            \/ why'[job[m].id] \cap {"ungoverned", "reused"} # {}
  <2> SUFFICES ASSUME NEW m \in Creations, at'[m] \in {"finish", "ready"}
               PROVE  \/ box'[job[m].id] = None
                      \/ box'[job[m].id].token = job[m].tenant
                      \/ why'[job[m].id] \cap {"ungoverned", "reused"} # {}
    OBVIOUS
  <2>1. CASE m = n
    BY <2>1, <1>8, <1>9
  <2>2. CASE m # n /\ job[m].id = i
    BY <2>2, <1>4, <1>10
  <2>3. CASE m # n /\ job[m].id # i
    BY <2>3, <1>2, <1>4, <1>5, <1>7 DEF Left
  <2>4. QED
    BY <2>1, <2>2, <2>3
<1>12. \A m \in Creations : at'[m] = "fail" =>
        box'[job[m].id] = None \/ why'[job[m].id] \cap {"crash", "clash", "lost", "reused"} # {}
  BY <1>2, <1>4, <1>5, <1>6, <1>8 DEF Left, Spoiled
<1>13. \A c \in Calls : call[c].at = "drop" =>
        box'[call[c].id] = None \/ why'[call[c].id] \cap {"crash", "clash", "lost", "reused"} # {}
  BY <1>3, <1>5, <1>6 DEF Left, Spoiled
<1>14. QED
  BY <1>1, <1>11, <1>12, <1>13 DEF Left, Spoiled

\* A container is removed, or the loss is noted; nothing else changes.
LEMMA Removing ==
    ASSUME TypeOK, NEW i \in Ids, Removed(i)
    PROVE  /\ \A j \in Ids : why[j] \subseteq why'[j]
           /\ \A j \in Ids : box'[j] = None \/ box'[j] = box[j]
           /\ box'[i] = None \/ "lost" \in why'[i]
  BY DEF TypeOK, Removed, Note

\* The job has removed its container, or the loss is noted.
LEMMA CleanupLeaves ==
    ASSUME TypeOK, Working, Left, NEW n \in Creations, Cleanup(n)
    PROVE  Left'
<1>1. /\ at[n] = "cleanup" /\ job[n].id \in Ids /\ UNCHANGED <<call, job>>
      /\ Removed(job[n].id) /\ at' = [at EXCEPT ![n] = "fail"]
  BY Names DEF Cleanup, Go, Underway
<1>2. \A m \in Creations : at[m] \in {"finish", "ready", "fail"} => job[m].id \in Ids
  BY Names DEF Underway
<1>3. \A c \in Calls : call[c].at = "drop" => call[c].id \in Ids
  BY Names
<1>4. at'[n] = "fail" /\ \A m \in Creations \ {n} : at'[m] = at[m]
  BY <1>1 DEF TypeOK
<1>5. \A m \in Creations :
        at'[m] \in {"finish", "ready"} =>
            \/ box'[job[m].id] = None
            \/ box'[job[m].id].token = job[m].tenant
            \/ why'[job[m].id] \cap {"ungoverned", "reused"} # {}
  BY <1>1, <1>2, <1>4, Removing DEF Left
<1>6. \A m \in Creations : at'[m] = "fail" =>
        box'[job[m].id] = None \/ why'[job[m].id] \cap {"crash", "clash", "lost", "reused"} # {}
  BY <1>1, <1>2, <1>4, Removing DEF Left, Spoiled
<1>7. \A c \in Calls : call[c].at = "drop" =>
        box'[call[c].id] = None \/ why'[call[c].id] \cap {"crash", "clash", "lost", "reused"} # {}
  BY <1>1, <1>3, Removing DEF Left, Spoiled
<1>8. QED
  BY <1>1, <1>5, <1>6, <1>7 DEF Left, Spoiled

\* So has a DELETE.
LEMMA DeleteLeaves ==
    ASSUME TypeOK, Working, Left, NEW c \in Calls, deleteSandbox(c)
    PROVE  Left'
<1>1. /\ call[c].at = "remove" /\ call[c].id \in Ids /\ call[c] \in Call
      /\ Removed(call[c].id) /\ UNCHANGED <<at, job>>
      /\ call' = [call EXCEPT ![c].at = "drop"]
  BY InFlightCalls, Names DEF deleteSandbox, Step
<1>2. \A m \in Creations : at[m] \in {"finish", "ready", "fail"} => job[m].id \in Ids
  BY Names DEF Underway
<1>3. \A d \in Calls : call[d].at = "drop" => call[d].id \in Ids
  BY Names
<1>4. call'[c].id = call[c].id /\ \A d \in Calls \ {c} : call'[d] = call[d]
  BY <1>1 DEF TypeOK, Call
<1>5. \A m \in Creations :
        at[m] \in {"finish", "ready"} =>
            \/ box'[job[m].id] = None
            \/ box'[job[m].id].token = job[m].tenant
            \/ why'[job[m].id] \cap {"ungoverned", "reused"} # {}
  BY <1>1, <1>2, Removing DEF Left
<1>6. \A m \in Creations : at[m] = "fail" =>
        box'[job[m].id] = None \/ why'[job[m].id] \cap {"crash", "clash", "lost", "reused"} # {}
  BY <1>1, <1>2, Removing DEF Left, Spoiled
<1>7. \A d \in Calls : call'[d].at = "drop" =>
        box'[call'[d].id] = None \/ why'[call'[d].id] \cap {"crash", "clash", "lost", "reused"} # {}
  BY <1>1, <1>3, <1>4, Removing DEF Left, Spoiled
<1>8. QED
  BY <1>1, <1>5, <1>6, <1>7 DEF Left, Spoiled

\* A restart installs the token of the same owner, or the name was reused.
LEMMA RestartLeaves ==
    ASSUME TypeOK, Working, Sharing, Left, NEW c \in Calls, restartSandboxDesktop(c)
    PROVE  Left'
<1> DEFINE i == call[c].id
<1>1. call[c].at = "regovern" /\ i \in Ids /\ UNCHANGED <<row, at, job, why>>
  BY Names DEF restartSandboxDesktop
<1>2. \A m \in Creations : at[m] \in {"finish", "ready", "fail"} => job[m].id \in Ids
  BY Names DEF Underway
<1>3. \A d \in Calls : call[d].at = "drop" => call[d].id \in Ids
  BY Names
<1>4. \A d \in Calls : call'[d].at = "drop" => call[d].at = "drop" /\ call'[d] = call[d]
  BY DEF restartSandboxDesktop, Answer, Idle, TypeOK
<1>5. \A j \in Ids : \/ box'[j] = box[j]
                     \/ j = i /\ box[j] # None /\ box'[j].token = call[c].tenant
  <2>1. \A b \in Box : [b EXCEPT !.token = call[c].tenant].token = call[c].tenant
    BY DEF Box
  <2>2. CASE UNCHANGED box
    BY <2>2
  <2>3. CASE box[i] # None /\ Governed(i, call[c].tenant)
    BY <1>1, <2>1, <2>3 DEF Governed, TypeOK
  <2>4. QED
    BY <2>2, <2>3 DEF restartSandboxDesktop
<1>6. \A m \in Creations : at[m] \in {"finish", "ready"} /\ job[m].id = i =>
        job[m].tenant = call[c].tenant \/ "reused" \in why[i]
  BY <1>1 DEF Sharing, Behind, Background, Again
<1>7. \A m \in Creations :
        at[m] \in {"finish", "ready"} =>
            \/ box'[job[m].id] = None
            \/ box'[job[m].id].token = job[m].tenant
            \/ why[job[m].id] \cap {"ungoverned", "reused"} # {}
  BY <1>2, <1>5, <1>6 DEF Left
<1>8. \A j \in Ids : box[j] = None => box'[j] = None
  BY <1>5
<1>9. QED
  BY <1>1, <1>2, <1>3, <1>4, <1>7, <1>8 DEF Left, Spoiled

\* What a job or a DELETE has done stays done, or the name is noted.
LEMMA LeftKept ==
    ASSUME TypeOK, Working, Sharing, Left, [Next]_vars
    PROVE  Left'
<1> USE DEF TypeOK, Working, Underway, Behind, Background, Again, Progresses, Row, Job
<1>1. ASSUME NEW n \in Creations, NEW i \in Ids, NEW t \in Tenants, Create(n, i, t)
      PROVE  Left'
  <2>1. Progresses
    BY <1>1, InFlightCalls, NoneAssumption DEF Create
  <2>2. QED
    BY <2>1, Progressing
<1>2. ASSUME NEW n \in Creations, allocatePort(n)
      PROVE  Left'
  <2>1. Progresses
    BY <1>2, InFlightCalls, NoneAssumption DEF allocatePort, End
  <2>2. QED
    BY <2>1, Progressing
<1>3. ASSUME NEW n \in Creations, DockerRun(n)
      PROVE  Left'
  <2>1. Progresses
    BY <1>3, InFlightCalls, NoneAssumption DEF DockerRun, End, Go, Inherited, Reused, Haunted, UsedPorts, Worked
  <2>2. QED
    BY <2>1, Progressing
<1>4. ASSUME NEW n \in Creations, RunFails(n)
      PROVE  Left'
  <2>1. Progresses
    BY <1>4, InFlightCalls, NoneAssumption DEF RunFails, End
  <2>2. QED
    BY <2>1, Progressing
<1>5. ASSUME NEW n \in Creations, Inspect(n)
      PROVE  Left'
  <2>1. Progresses
    BY <1>5, InFlightCalls, NoneAssumption DEF Inspect, End, Go
  <2>2. QED
    BY <2>1, Progressing
<1>6. ASSUME NEW n \in Creations, Persist(n)
      PROVE  Left'
  <2>1. Progresses
    BY <1>6, InFlightCalls, NoneAssumption DEF Persist, Go, Adopted, Reused, Haunted
  <2>2. QED
    BY <2>1, Progressing
<1>7. ASSUME NEW n \in Creations, PersistFails(n)
      PROVE  Left'
  <2>1. Progresses
    BY <1>7, InFlightCalls, NoneAssumption DEF PersistFails, End, Note
  <2>2. QED
    BY <2>1, Progressing
<1>8. ASSUME NEW n \in Creations, Govern(n)
      PROVE  Left'
  BY <1>8, GovernLeaves
<1>9. ASSUME NEW n \in Creations, FinishThrows(n)
      PROVE  Left'
  <2>1. Progresses
    BY <1>9, InFlightCalls, NoneAssumption DEF FinishThrows, Go
  <2>2. QED
    BY <2>1, Progressing
<1>10. ASSUME NEW n \in Creations, Finish(n)
      PROVE  Left'
  <2>1. Progresses
    BY <1>10, InFlightCalls, NoneAssumption DEF Finish
  <2>2. QED
    BY <2>1, Progressing
<1>11. ASSUME NEW n \in Creations, Ready(n)
      PROVE  Left'
  <2>1. Progresses
    BY <1>11, InFlightCalls, NoneAssumption DEF Ready, Settle, End, Note
  <2>2. QED
    BY <2>1, Progressing
<1>12. ASSUME NEW n \in Creations, Cleanup(n)
      PROVE  Left'
  BY <1>12, CleanupLeaves
<1>13. ASSUME NEW n \in Creations, MarkFailed(n)
      PROVE  Left'
  <2>1. Progresses
    BY <1>13, InFlightCalls, NoneAssumption DEF MarkFailed, Settle, End, Note
  <2>2. QED
    BY <2>1, Progressing
<1>14. ASSUME NEW c \in Calls, NEW i \in Ids, NEW a \in {"remove", "restart"}, assertSandboxOwner(c, i, a)
      PROVE  Left'
  <2>1. Progresses
    BY <1>14, InFlightCalls, NoneAssumption DEF assertSandboxOwner, Call, Idle
  <2>2. QED
    BY <2>1, Progressing
<1>15. ASSUME NEW c \in Calls, deleteSandbox(c)
      PROVE  Left'
  BY <1>15, DeleteLeaves
<1>16. ASSUME NEW c \in Calls, DropRow(c)
      PROVE  Left'
  <2>1. Progresses
    BY <1>16, InFlightCalls, NoneAssumption DEF DropRow, Answer, Call, Idle
  <2>2. QED
    BY <2>1, Progressing
<1>17. ASSUME NEW c \in Calls, DropFails(c)
      PROVE  Left'
  <2>1. Progresses
    BY <1>17, InFlightCalls, NoneAssumption DEF DropFails, Answer, Note, Call, Idle
  <2>2. QED
    BY <2>1, Progressing
<1>18. ASSUME NEW c \in Calls, DockerRestart(c)
      PROVE  Left'
  <2>1. Progresses
    BY <1>18, InFlightCalls, NoneAssumption DEF DockerRestart, Step, UsedPorts, Call, Idle
  <2>2. QED
    BY <2>1, Progressing
<1>19. ASSUME NEW c \in Calls, RestartFails(c)
      PROVE  Left'
  <2>1. Progresses
    BY <1>19, InFlightCalls, NoneAssumption DEF RestartFails, Answer, Call, Idle
  <2>2. QED
    BY <2>1, Progressing
<1>20. ASSUME NEW c \in Calls, restartSandboxDesktop(c)
      PROVE  Left'
  BY <1>20, RestartLeaves
<1>21. CASE Crash
  <2>1. Progresses
    BY <1>21, InFlightCalls, NoneAssumption DEF Crash, Busy, Idle
  <2>2. QED
    BY <2>1, Progressing
<1>22. CASE UNCHANGED vars
  <2>1. Progresses
    BY <1>22, InFlightCalls, NoneAssumption DEF vars
  <2>2. QED
    BY <2>1, Progressing
<1>23. QED
  BY <1>1, <1>2, <1>3, <1>4, <1>5, <1>6, <1>7, <1>8, <1>9, <1>10, <1>11, <1>12, <1>13, <1>14, <1>15, <1>16, <1>17, <1>18, <1>19, <1>20, <1>21, <1>22 DEF Next, Work

Blame == {"crash", "clash", "lost", "reused"}

\* What keeps the properties: rows stay, containers at most vanish, and a
\* creation that is not in flight any more has left its name to blame.
Steady ==
    /\ \A n \in Creations : at[n] \in {"inspect", "persist"} =>
         \/ at'[n] \in {"inspect", "persist"} /\ job'[n].id = job[n].id
         \/ why'[job[n].id] \cap Blame # {}
         \/ box'[job[n].id] = None
    /\ row' = row
    /\ \A i \in Ids : why[i] \subseteq why'[i]
    /\ \A i \in Ids : box'[i] = None \/ (box[i] # None /\ box'[i].token = box[i].token)

\* Such steps keep them.
LEMMA Standing ==
    ASSUME Safe, Steady
    PROVE  Safe'
<1>1. \A i \in Ids : box'[i] # None /\ InFlight(i) => InFlight(i)' \/ why'[i] \cap Blame # {}
  BY DEF Steady, InFlight
<1>2. \A i \in Ids : why[i] \cap Blame # {} => why'[i] \cap Blame # {}
  BY DEF Steady
<1>3. StartedGoverned'
  BY DEF Steady, Safe, StartedGoverned
<1>4. OrphanExplained'
  BY <1>1, <1>2 DEF Steady, Safe, OrphanExplained, Blame
<1>5. FailedIsGone'
  BY <1>1, <1>2 DEF Steady, Safe, FailedIsGone, Blame
<1>6. QED
  BY <1>3, <1>4, <1>5 DEF Safe

\* What a step of creation n does not touch is as safe as it was.
Elsewhere(i) ==
    \A j \in Ids \ {i} :
        /\ box'[j] = box[j] /\ row'[j] = row[j] /\ why'[j] = why[j]
        /\ InFlight(j) => InFlight(j)'

\* So the properties have to be shown for one name only.
LEMMA OneName ==
    ASSUME Safe, NEW i \in Ids, Elsewhere(i),
           row'[i] # None /\ row'[i].status = "started" /\ box'[i] # None
             => \/ box'[i].token = row'[i].tenant
                \/ why'[i] \cap {"ungoverned", "stale", "reused"} # {},
           box'[i] # None /\ row'[i] = None => InFlight(i)' \/ why'[i] \cap Blame # {},
           row'[i] # None /\ row'[i].status = "failed" /\ box'[i] # None
             => InFlight(i)' \/ why'[i] \cap Blame # {}
    PROVE  Safe'
<1>1. StartedGoverned'
  BY DEF Elsewhere, Safe, StartedGoverned
<1>2. OrphanExplained'
  BY DEF Elsewhere, Safe, OrphanExplained, Blame
<1>3. FailedIsGone'
  BY DEF Elsewhere, Safe, FailedIsGone, Blame
<1>4. QED
  BY <1>1, <1>2, <1>3 DEF Safe

\* A new container is being created, was refused its port, and is not the one
\* its row is about.
LEMMA DockerRunSafe ==
    ASSUME TypeOK, Working, Safe, NEW n \in Creations, DockerRun(n)
    PROVE  Safe'
<1>0. PICK i \in Ids : i = job[n].id
  BY Names DEF Underway, DockerRun, Persist, Govern, Ready, MarkFailed
<1>1. /\ at[n] = "run" /\ i \in Ids /\ row' = row /\ n \in Creations
      /\ \A j \in Ids \ {i} : box'[j] = box[j] /\ why'[j] = why[j]
  BY <1>0, Names DEF DockerRun, Underway, TypeOK
<1>2. \A m \in Creations \ {n} : at'[m] = at[m] /\ job'[m] = job[m]
  BY <1>0 DEF DockerRun, Go, End, TypeOK
<1>3. Elsewhere(i)
  BY <1>0, <1>1, <1>2 DEF Elsewhere, InFlight
<1>4. row'[i] # None => "stale" \in why'[i]
  BY <1>0, <1>1 DEF DockerRun, Inherited, TypeOK
<1>5. InFlight(i)' \/ "clash" \in why'[i]
  <2>1. CASE job[n].port \notin UsedPorts
    <3>1. at'[n] = "inspect" /\ job'[n].id = i
      BY <1>0, <1>1, <2>1 DEF DockerRun, Go, TypeOK
    <3>2. QED
      BY <1>0, <3>1 DEF InFlight
  <2>2. CASE job[n].port \in UsedPorts
    BY <1>0, <1>1, <2>2 DEF DockerRun, TypeOK
  <2>3. QED
    BY <1>0, <2>1, <2>2
<1>6. QED
  BY <1>0, <1>1, <1>3, <1>4, <1>5, OneName DEF Blame

\* A row that is being prepared promises nothing.
LEMMA PersistedSafe ==
    ASSUME TypeOK, Working, Safe, NEW n \in Creations, Persist(n)
    PROVE  Safe'
<1>0. PICK i \in Ids : i = job[n].id
  BY Names DEF Underway, DockerRun, Persist, Govern, Ready, MarkFailed
<1>1. /\ at[n] = "persist" /\ i \in Ids /\ box' = box /\ job' = job
      /\ \A j \in Ids \ {i} : row'[j] = row[j] /\ why'[j] = why[j]
      /\ row'[i] = [tenant |-> job[n].tenant, status |-> "provisioning"]
      /\ \A m \in Creations \ {n} : at'[m] = at[m]
  BY <1>0, Names DEF Persist, Go, Adopted, Underway, TypeOK
<1>2. Elsewhere(i)
  BY <1>0, <1>1 DEF Elsewhere, InFlight
<1>3. row'[i] \in Row
  BY <1>0, <1>1, Names DEF Row, Underway
<1>4. row'[i] # None /\ row'[i].status = "provisioning"
  BY <1>0, <1>1, <1>3, NoneAssumption
<1>5. QED
  BY <1>0, <1>1, <1>2, <1>4, OneName

\* The token installed is that of the row's owner, or the name was reused.
LEMMA GovernSafe ==
    ASSUME TypeOK, Working, Sharing, Safe, NEW n \in Creations, Govern(n)
    PROVE  Safe'
<1>0. PICK i \in Ids : i = job[n].id
  BY Names DEF Underway, DockerRun, Persist, Govern, Ready, MarkFailed
<1>1. /\ at[n] = "govern" /\ i \in Ids /\ row' = row /\ job' = job
      /\ \A m \in Creations \ {n} : at'[m] = at[m]
      /\ \A j \in Ids \ {i} : box'[j] = box[j] /\ why'[j] = why[j]
      /\ why[i] \subseteq why'[i]
  BY <1>0, Names DEF Govern, Governed, Go, Note, Underway, TypeOK
<1>2. \A j \in Ids : InFlight(j) => InFlight(j)'
  BY <1>0, <1>1 DEF InFlight
<1>3. Elsewhere(i)
  BY <1>0, <1>1, <1>2 DEF Elsewhere
<1>4. box'[i] = box[i] \/ (box[i] # None /\ box'[i].token = job[n].tenant)
  BY <1>0, <1>1 DEF Govern, Governed, TypeOK, Box
<1>5. row[i] = None \/ row[i].tenant = job[n].tenant \/ "reused" \in why[i]
  BY <1>0, <1>1 DEF Sharing, Behind, Background, Again
<1>6. row'[i] # None /\ row'[i].status = "started" /\ box'[i] # None
        => \/ box'[i].token = row'[i].tenant
           \/ why'[i] \cap {"ungoverned", "stale", "reused"} # {}
  BY <1>0, <1>1, <1>4, <1>5 DEF Safe, StartedGoverned
<1>7. box'[i] # None /\ row'[i] = None => InFlight(i)' \/ why'[i] \cap Blame # {}
  BY <1>0, <1>1, <1>2, <1>4 DEF Safe, OrphanExplained, Blame
<1>8. row'[i] # None /\ row'[i].status = "failed" /\ box'[i] # None
        => InFlight(i)' \/ why'[i] \cap Blame # {}
  BY <1>0, <1>1, <1>2, <1>4 DEF Safe, FailedIsGone, Blame
<1>9. QED
  BY <1>0, <1>1, <1>3, <1>6, <1>7, <1>8, OneName

\* The job settles the row by what it saw, or loses the update.
LEMMA Settling ==
    ASSUME TypeOK, Working, NEW n \in Creations, Underway(n),
           at[n] \notin {"inspect", "persist"}, NEW i \in Ids, i = job[n].id,
           NEW s \in {"started", "exited", "failed"}, Settle(n, s)
    PROVE  /\ box' = box /\ Elsewhere(i)
           /\ why[i] \subseteq why'[i]
           /\ InFlight(i) => InFlight(i)'
           /\ \/ row'[i] = row[i]
              \/ /\ row[i] # None /\ row'[i] # None
                 /\ row'[i].tenant = row[i].tenant
                 /\ row'[i].status = s
<1>1. box' = box
  BY DEF Settle
<1>2. \A m \in Creations \ {n} : at'[m] = at[m] /\ job'[m] = job[m]
  BY DEF Settle, End, TypeOK
<1>3. \A j \in Ids : InFlight(j) => InFlight(j)'
  BY <1>2 DEF InFlight
<1>4. \A j \in Ids \ {i} : row'[j] = row[j] /\ why'[j] = why[j]
  BY <1>1 DEF Settle, Note, TypeOK
<1>5. why[i] \subseteq why'[i]
  BY <1>1 DEF Settle, Note, TypeOK
<1>6. \A x \in Row : /\ [x EXCEPT !.status = s] \in Row
                     /\ [x EXCEPT !.status = s].tenant = x.tenant
                     /\ [x EXCEPT !.status = s].status = s
  BY DEF Row
<1>7. \/ row'[i] = row[i]
      \/ row[i] # None /\ row[i] \in Row /\ row'[i] = [row[i] EXCEPT !.status = s]
  BY <1>1 DEF Settle, TypeOK
<1>8. \/ row'[i] = row[i]
      \/ /\ row[i] # None /\ row'[i] # None
         /\ row'[i].tenant = row[i].tenant /\ row'[i].status = s
  BY <1>6, <1>7, NoneAssumption
<1>9. QED
  BY <1>1, <1>3, <1>4, <1>5, <1>8 DEF Elsewhere

\* A row that becomes started is of the job that governed its container.
LEMMA ReadySafe ==
    ASSUME TypeOK, Working, Sharing, Left, Safe, NEW n \in Creations, Ready(n)
    PROVE  Safe'
<1>0. PICK i \in Ids : i = job[n].id
  BY Names DEF Underway, DockerRun, Persist, Govern, Ready, MarkFailed
<1>1. at[n] = "ready" /\ job[n].seen \in {"started", "exited"} /\ Settle(n, job[n].seen)
  BY <1>0 DEF Ready, Working
<1>2. /\ i \in Ids /\ box' = box /\ Elsewhere(i)
      /\ why[i] \subseteq why'[i] /\ (InFlight(i) => InFlight(i)')
      /\ \/ row'[i] = row[i]
         \/ /\ row[i] # None /\ row'[i] # None
            /\ row'[i].tenant = row[i].tenant /\ row'[i].status \in {"started", "exited"}
  BY <1>0, <1>1, Settling DEF Underway
<1>3. row[i] = None \/ row[i].tenant = job[n].tenant \/ "reused" \in why[i]
  BY <1>0, <1>1 DEF Sharing, Behind, Background, Again
<1>4. \/ box[i] = None \/ box[i].token = job[n].tenant
      \/ why[i] \cap {"ungoverned", "reused"} # {}
  BY <1>0, <1>1 DEF Left
<1>5. row'[i] # None /\ row'[i].status = "started" /\ box'[i] # None
        => \/ box'[i].token = row'[i].tenant
           \/ why'[i] \cap {"ungoverned", "stale", "reused"} # {}
  BY <1>0, <1>2, <1>3, <1>4 DEF Safe, StartedGoverned
<1>6. box'[i] # None /\ row'[i] = None => InFlight(i)' \/ why'[i] \cap Blame # {}
  BY <1>0, <1>2 DEF Safe, OrphanExplained, Blame
<1>7. row'[i] # None /\ row'[i].status = "failed" /\ box'[i] # None
        => InFlight(i)' \/ why'[i] \cap Blame # {}
  BY <1>0, <1>2 DEF Safe, FailedIsGone, Blame
<1>8. QED
  BY <1>0, <1>2, <1>5, <1>6, <1>7, OneName

\* A row that becomes failed is of a job that removed its container.
LEMMA MarkFailedSafe ==
    ASSUME TypeOK, Working, Left, Safe, NEW n \in Creations, MarkFailed(n)
    PROVE  Safe'
<1>0. PICK i \in Ids : i = job[n].id
  BY Names DEF Underway, DockerRun, Persist, Govern, Ready, MarkFailed
<1>1. at[n] = "fail" /\ Settle(n, "failed")
  BY <1>0 DEF MarkFailed
<1>2. /\ i \in Ids /\ box' = box /\ Elsewhere(i)
      /\ why[i] \subseteq why'[i] /\ (InFlight(i) => InFlight(i)')
      /\ \/ row'[i] = row[i]
         \/ row[i] # None /\ row'[i] # None /\ row'[i].status = "failed"
  BY <1>0, <1>1, Settling DEF Underway
<1>3. box[i] = None \/ why[i] \cap Blame # {}
  BY <1>0, <1>1 DEF Left, Spoiled, Blame
<1>4. row'[i] # None /\ row'[i].status = "started" /\ box'[i] # None
        => \/ box'[i].token = row'[i].tenant
           \/ why'[i] \cap {"ungoverned", "stale", "reused"} # {}
  BY <1>0, <1>2 DEF Safe, StartedGoverned
<1>5. box'[i] # None /\ row'[i] = None => InFlight(i)' \/ why'[i] \cap Blame # {}
  BY <1>0, <1>2 DEF Safe, OrphanExplained, Blame
<1>6. row'[i] # None /\ row'[i].status = "failed" /\ box'[i] # None
        => InFlight(i)' \/ why'[i] \cap Blame # {}
  BY <1>0, <1>2, <1>3
<1>7. QED
  BY <1>0, <1>2, <1>4, <1>5, <1>6, OneName

\* A row is dropped after its container.
LEMMA DroppedSafe ==
    ASSUME TypeOK, Working, Left, Safe, NEW c \in Calls, DropRow(c)
    PROVE  Safe'
<1>0. PICK i \in Ids : i = call[c].id
  BY Names DEF DropRow, restartSandboxDesktop
<1>1. /\ call[c].at = "drop" /\ i \in Ids /\ UNCHANGED <<box, at, job, why>>
      /\ row'[i] = None /\ \A j \in Ids \ {i} : row'[j] = row[j]
  BY <1>0, Names DEF DropRow, TypeOK
<1>2. \A j \in Ids : InFlight(j) => InFlight(j)'
  BY <1>0, <1>1 DEF InFlight
<1>3. Elsewhere(i)
  BY <1>0, <1>1, <1>2 DEF Elsewhere
<1>4. box[i] = None \/ why[i] \cap Blame # {}
  BY <1>0, <1>1 DEF Left, Spoiled, Blame
<1>5. QED
  BY <1>0, <1>1, <1>3, <1>4, OneName

\* A restart installs the token of the row's owner, or the name was reused.
LEMMA RestartSafe ==
    ASSUME TypeOK, Working, Sharing, Safe, NEW c \in Calls, restartSandboxDesktop(c)
    PROVE  Safe'
<1>0. PICK i \in Ids : i = call[c].id
  BY Names DEF DropRow, restartSandboxDesktop
<1>1. call[c].at = "regovern" /\ i \in Ids /\ UNCHANGED <<row, at, job, why>>
  BY <1>0, Names DEF restartSandboxDesktop
<1>2. \A j \in Ids : InFlight(j) => InFlight(j)'
  BY <1>0, <1>1 DEF InFlight
<1>3. /\ \A j \in Ids \ {i} : box'[j] = box[j]
      /\ box'[i] = box[i] \/ (box[i] # None /\ box'[i].token = call[c].tenant)
  <2>1. \A b \in Box : [b EXCEPT !.token = call[c].tenant].token = call[c].tenant
    BY <1>0 DEF Box
  <2>2. CASE UNCHANGED box
    BY <1>0, <2>2
  <2>3. CASE box[i] # None /\ Governed(i, call[c].tenant)
    BY <1>0, <1>1, <2>1, <2>3 DEF Governed, TypeOK
  <2>4. QED
    BY <1>0, <2>2, <2>3 DEF restartSandboxDesktop
<1>4. Elsewhere(i)
  BY <1>0, <1>1, <1>2, <1>3 DEF Elsewhere
<1>5. row[i] = None \/ row[i].tenant = call[c].tenant \/ "reused" \in why[i]
  BY <1>0, <1>1 DEF Sharing, Again
<1>6. row'[i] # None /\ row'[i].status = "started" /\ box'[i] # None
        => \/ box'[i].token = row'[i].tenant
           \/ why'[i] \cap {"ungoverned", "stale", "reused"} # {}
  BY <1>0, <1>1, <1>3, <1>5 DEF Safe, StartedGoverned
<1>7. box'[i] # None /\ row'[i] = None => InFlight(i)' \/ why'[i] \cap Blame # {}
  BY <1>0, <1>1, <1>2, <1>3 DEF Safe, OrphanExplained, Blame
<1>8. row'[i] # None /\ row'[i].status = "failed" /\ box'[i] # None
        => InFlight(i)' \/ why'[i] \cap Blame # {}
  BY <1>0, <1>1, <1>2, <1>3 DEF Safe, FailedIsGone, Blame
<1>9. QED
  BY <1>0, <1>1, <1>4, <1>6, <1>7, <1>8, OneName

\* The properties follow step by step.
LEMMA SafeKept ==
    ASSUME TypeOK, Working, Sharing, Left, Safe, [Next]_vars
    PROVE  Safe'
<1> USE DEF TypeOK, Working, Underway, Steady, Row, Job
<1>1. ASSUME NEW n \in Creations, NEW i \in Ids, NEW t \in Tenants, Create(n, i, t)
      PROVE  Safe'
  <2>1. Steady
    BY <1>1, Names, InFlightCalls, NoneAssumption DEF Create
  <2>2. QED
    BY <2>1, Standing
<1>2. ASSUME NEW n \in Creations, allocatePort(n)
      PROVE  Safe'
  <2>1. Steady
    BY <1>2, Names, InFlightCalls, NoneAssumption DEF allocatePort, End
  <2>2. QED
    BY <2>1, Standing
<1>3. ASSUME NEW n \in Creations, DockerRun(n)
      PROVE  Safe'
  BY <1>3, DockerRunSafe
<1>4. ASSUME NEW n \in Creations, RunFails(n)
      PROVE  Safe'
  <2>1. Steady
    BY <1>4, Names, InFlightCalls, NoneAssumption DEF RunFails, End
  <2>2. QED
    BY <2>1, Standing
<1>5. ASSUME NEW n \in Creations, Inspect(n)
      PROVE  Safe'
  <2>1. Steady
    BY <1>5, Names, InFlightCalls, NoneAssumption DEF Inspect, End, Go
  <2>2. QED
    BY <2>1, Standing
<1>6. ASSUME NEW n \in Creations, Persist(n)
      PROVE  Safe'
  BY <1>6, PersistedSafe
<1>7. ASSUME NEW n \in Creations, PersistFails(n)
      PROVE  Safe'
  <2>1. job[n].id \in Ids /\ \A m \in Creations \ {n} : at'[m] = at[m] /\ job'[m] = job[m]
    BY <1>7, Names DEF PersistFails, End
  <2>2. "lost" \in why'[job[n].id] /\ \A i \in Ids : why[i] \subseteq why'[i]
    BY <1>7, <2>1 DEF PersistFails, Note
  <2>3. Steady
    BY <1>7, <2>1, <2>2 DEF PersistFails, Blame
  <2>4. QED
    BY <2>3, Standing
<1>8. ASSUME NEW n \in Creations, Govern(n)
      PROVE  Safe'
  BY <1>8, GovernSafe
<1>9. ASSUME NEW n \in Creations, FinishThrows(n)
      PROVE  Safe'
  <2>1. Steady
    BY <1>9, Names, InFlightCalls, NoneAssumption DEF FinishThrows, Go
  <2>2. QED
    BY <2>1, Standing
<1>10. ASSUME NEW n \in Creations, Finish(n)
      PROVE  Safe'
  <2>1. Steady
    BY <1>10, Names, InFlightCalls, NoneAssumption DEF Finish
  <2>2. QED
    BY <2>1, Standing
<1>11. ASSUME NEW n \in Creations, Ready(n)
      PROVE  Safe'
  BY <1>11, ReadySafe
<1>12. ASSUME NEW n \in Creations, Cleanup(n)
      PROVE  Safe'
  <2>1. Removed(job[n].id) /\ job[n].id \in Ids
    BY <1>12, Names DEF Cleanup
  <2>2. Steady
    BY <1>12, <2>1, Removing DEF Cleanup, Go
  <2>3. QED
    BY <2>2, Standing
<1>13. ASSUME NEW n \in Creations, MarkFailed(n)
      PROVE  Safe'
  BY <1>13, MarkFailedSafe
<1>14. ASSUME NEW c \in Calls, NEW i \in Ids, NEW a \in {"remove", "restart"}, assertSandboxOwner(c, i, a)
      PROVE  Safe'
  <2>1. Steady
    BY <1>14, Names, InFlightCalls, NoneAssumption DEF assertSandboxOwner
  <2>2. QED
    BY <2>1, Standing
<1>15. ASSUME NEW c \in Calls, deleteSandbox(c)
      PROVE  Safe'
  <2>1. Removed(call[c].id) /\ call[c].id \in Ids
    BY <1>15, Names DEF deleteSandbox
  <2>2. Steady
    BY <1>15, <2>1, Removing DEF deleteSandbox
  <2>3. QED
    BY <2>2, Standing
<1>16. ASSUME NEW c \in Calls, DropRow(c)
      PROVE  Safe'
  BY <1>16, DroppedSafe
<1>17. ASSUME NEW c \in Calls, DropFails(c)
      PROVE  Safe'
  <2>1. Steady
    BY <1>17, Names, InFlightCalls, NoneAssumption DEF DropFails, Answer, Note
  <2>2. QED
    BY <2>1, Standing
<1>18. ASSUME NEW c \in Calls, DockerRestart(c)
      PROVE  Safe'
  <2>1. Steady
    BY <1>18, Names, InFlightCalls, NoneAssumption DEF DockerRestart, Step, UsedPorts
  <2>2. QED
    BY <2>1, Standing
<1>19. ASSUME NEW c \in Calls, RestartFails(c)
      PROVE  Safe'
  <2>1. Steady
    BY <1>19, Names, InFlightCalls, NoneAssumption DEF RestartFails, Answer
  <2>2. QED
    BY <2>1, Standing
<1>20. ASSUME NEW c \in Calls, restartSandboxDesktop(c)
      PROVE  Safe'
  BY <1>20, RestartSafe
<1>21. CASE Crash
  <2>1. \A n \in Creations : Underway(n) => job[n].id \in Ids /\ "crash" \in why'[job[n].id]
    BY <1>21, Names DEF Crash, Busy
  <2>2. row' = row /\ box' = box /\ \A i \in Ids : why[i] \subseteq why'[i]
    BY <1>21 DEF Crash
  <2>3. Steady
    BY <2>1, <2>2 DEF Blame
  <2>4. QED
    BY <2>3, Standing
<1>22. CASE UNCHANGED vars
  <2>1. Steady
    BY <1>22 DEF vars
  <2>2. QED
    BY <2>1, Standing
<1>23. QED
  BY <1>1, <1>2, <1>3, <1>4, <1>5, <1>6, <1>7, <1>8, <1>9, <1>10, <1>11, <1>12, <1>13, <1>14, <1>15, <1>16, <1>17, <1>18, <1>19, <1>20, <1>21, <1>22 DEF Next, Work

\* Every step keeps the invariant.
LEMMA Invariance == Spec => []Inv
<1>1. Init => Inv
  <2> SUFFICES ASSUME Init PROVE Inv
    OBVIOUS
  <2>1. TypeOK /\ Working
    BY DEF Init, TypeOK, Working, Underway, Idle
  <2>2. \A c \in Calls : call[c].at = "idle"
    BY DEF Init, Idle
  <2>3. QED
    BY <2>1, <2>2 DEF Init, Inv, Sharing, Left, Safe, Behind, Background, StartedGoverned,
       OrphanExplained, FailedIsGone
<1>2. Inv /\ [Next]_vars => Inv'
  BY Typing, SharingKept, LeftKept, SafeKept DEF Inv
<1>3. QED
  BY <1>1, <1>2, PTL DEF Spec

-----------------------------------------------------------------------------

\* Type correctness of the rows, the containers and what works on them.
THEOREM TypeCorrect == Spec => []TypeOK
<1>1. Inv => TypeOK
  BY DEF Inv
<1>2. QED
  BY <1>1, Invariance, PTL

\* bootstrapSandbox, restartSandboxDesktop: a started sandbox has the token of
\* the organization that owns it, but for the causes named.
THEOREM StartedIsGoverned == Spec => []StartedGoverned
<1>1. Inv => StartedGoverned
  BY DEF Inv, Safe
<1>2. QED
  BY <1>1, Invariance, PTL

\* createSandbox and DELETE: no container is out of every row's reach, but for
\* the causes named.
THEOREM OrphansAreExplained == Spec => []OrphanExplained
<1>1. Inv => OrphanExplained
  BY DEF Inv, Safe
<1>2. QED
  BY <1>1, Invariance, PTL

\* The cleanup of the background job removes the container it gives up.
THEOREM FailedSandboxIsGone == Spec => []FailedIsGone
<1>1. Inv => FailedIsGone
  BY DEF Inv, Safe
<1>2. QED
  BY <1>1, Invariance, PTL
=============================================================================
