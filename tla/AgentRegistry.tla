---------------------------- MODULE AgentRegistry ----------------------------
(***************************************************************************)
(* The agents of one project: agent-service.ts creates them, with what     *)
(* their parent may use, marks one of them as the default, grants them     *)
(* secrets and app connections, renews and revokes their tokens and        *)
(* deletes them.                                                           *)
(*                                                                         *)
(* A call is a sequence of database calls; the steps of concurrent calls   *)
(* interleave.  The calls that connect and disconnect the apps are those   *)
(* of AppConnections, which extends this module.  The one transaction that *)
(* reads before it writes, of setDefaultAgent, runs at Postgres's READ     *)
(* COMMITTED: its updateMany sees the defaults committed when it started,  *)
(* and waits for, and looks again at, those it finds.                      *)
(***************************************************************************)
EXTENDS Naturals, FiniteSets

CONSTANTS
    Ids,            \* ids of rows, never used twice
    Default,        \* the default agent at first
    Parent,         \* the agent others are created from
    Secrets, Apps,  \* what agents are granted: ids of secrets and connections
    Anthropic,      \* the oldest secret of type anthropic
    Calls,          \* API calls in flight together
    Uses            \* sets of operations called in one behaviour (a bound)

ASSUME RegistryAssumption ==
    /\ {Default, Parent} \subseteq Ids
    /\ Anthropic \in Secrets /\ Secrets \cap Apps = {}

VARIABLES
    row,       \* agents with their agent_secrets and agent_app_connections
    live,      \* the secrets and connections that exist
    stamped,   \* agents whose revoked_<ms> token is of this millisecond
    call,      \* the calls in flight
    ops,       \* the operations that are called, one of Uses
    raced,     \* history: whether the default was last moved or deleted too late
    killed,    \* history: agents revoked, and not asked to be renewed since
    revived,   \* history: those of them a renewal asked for before wrote after
    cap,       \* history: the most each child may use
    owed,      \* history: the least each child was granted
    mixed,     \* history: agents whose grants were replaced while being created
    broken     \* history: agents whose creation ended before its last step

tokens == <<stamped, killed, revived>>
promises == <<cap, owed, mixed, broken>>
registry == <<row, live, ops, raced, tokens, promises>>

Things == Secrets \cup Apps
Rights == Things \X {"part", "rest"}
Modes == {"all", "selective"}
Agent == [identifier : {"default", "other", "child"}, mode : Modes,
          isDefault : BOOLEAN, token : {"live", "revoked"}, did : BOOLEAN,
          grants : SUBSET Things,
          limits : SUBSET Apps]   \* the connections its grants have a session policy for
None == [identifier |-> "none"]   \* an id not used yet
Gone == [identifier |-> "gone"]   \* a deleted row

Idle == [at |-> "idle"]
Create == [at : {"exists", "parent", "row", "did", "secrets", "anthropic", "apps",
                 "created"},
           inherit : BOOLEAN, mode : Modes, want : SUBSET Things, id : Ids]
Update == [at : {"seed", "default", "clear", "delete", "renew", "revoke", "mode", "grants"},
           id : Ids, seen : SUBSET Ids, late : BOOLEAN]

AgentCall == {Idle} \cup Create \cup Update

\* The types of all but the calls.
RegistryTypeOK ==
    /\ row \in [Ids -> Agent \cup {None, Gone}]
    /\ live \subseteq Things
    /\ ops \in Uses
    /\ raced \subseteq {"two", "none"}
    /\ stamped \subseteq Ids /\ killed \subseteq Ids /\ revived \subseteq Ids
    /\ mixed \subseteq Ids /\ broken \subseteq Ids
    /\ cap \in [Ids -> SUBSET Rights] /\ owed \in [Ids -> SUBSET Things]

\* What resolve_secret_injections and resolve_app_connections let an agent use:
\* a session policy keeps the rest of a connection from it, and counts for an
\* agent in mode "selective" only.
Access(a) ==
    {r \in Rights : \/ a.mode = "all"
                    \/ r[1] \in a.grants /\ (r[2] = "rest" => r[1] \notin a.limits)}

NewAgent(identifier, mode) ==
    [identifier |-> identifier, mode |-> mode, isDefault |-> FALSE, token |-> "live",
     did |-> FALSE, grants |-> {}, limits |-> {}]

Exists(i) == row[i] \notin {None, Gone}
Named(identifier) == {i \in Ids : row[i].identifier = identifier}
Defaults == {i \in Ids : Exists(i) /\ row[i].isDefault}
CreatedBy(c, i) ==
    call[c].at \in {"did", "secrets", "anthropic", "apps", "created"} /\ call[c].id = i
Creating(i) == \E c \in Calls : CreatedBy(c, i)

\* A project some time after it was seeded: other agents were created since,
\* and some deleted.
RegistryInit ==
    /\ \E others \in [Ids \ {Default} -> {None, Gone, NewAgent("other", "all")}] :
         row = [i \in Ids |-> IF i = Default
                               THEN [NewAgent("default", "all") EXCEPT !.isDefault = TRUE]
                               ELSE others[i]]
    /\ ops \in Uses
    /\ call = [c \in Calls |-> Idle]
    /\ raced = {} /\ stamped = {} /\ killed = {} /\ revived = {}
    /\ mixed = {} /\ broken = {}
    /\ cap = [i \in Ids |-> {}] /\ owed = [i \in Ids |-> {}]

At(c, at) == call[c].at = at
Begin(c, r) == call[c] = Idle /\ call' = [call EXCEPT ![c] = r]
Go(c, at) == call' = [call EXCEPT ![c].at = at]
End(c) == call' = [call EXCEPT ![c] = Idle]

-----------------------------------------------------------------------------
(* createAgent                                                              *)

StartCreate(c, inherit) ==
    /\ "create" \in ops
    /\ Begin(c, [at |-> "exists", inherit |-> inherit, mode |-> "all", want |-> {},
                 id |-> Default])
    /\ UNCHANGED registry

FindExisting(c) ==
    /\ At(c, "exists")
    /\ IF Named("child") # {} THEN End(c) ELSE Go(c, "parent")
    /\ UNCHANGED registry

FindParent_Undefined(c) ==
    /\ At(c, "parent")
    /\ IF call[c].inherit /\ Exists(Parent)
         THEN call' = [call EXCEPT ![c].at = "row", ![c].mode = row[Parent].mode,
                                   ![c].want = row[Parent].grants]
         ELSE call' = [call EXCEPT ![c].at = "row", ![c].mode = "undefined"]
    /\ UNCHANGED registry

\* Without a parent, or with one that is not there, the child may use all.  Of
\* the parent's connections only the ids are selected, not the session policies.
FindParent(c) ==
    /\ At(c, "parent")
    /\ IF call[c].inherit /\ Exists(Parent)
         THEN call' = [call EXCEPT ![c].at = "row", ![c].mode = row[Parent].mode,
                                   ![c].want = row[Parent].grants]
         ELSE Go(c, "row")
    /\ UNCHANGED registry

\* What a child may use: what its parent could, and the rest of the connections
\* its parent could use a part of; Anthropic without any secret.
Inherited(r) ==
    LET secret == IF r.want \cap Secrets = {} THEN {Anthropic} ELSE {}
    IN  Access([mode |-> r.mode, grants |-> r.want \cup secret, limits |-> {}])

CreateRow_ModeAll(c) ==
    /\ At(c, "row")
    /\ IF Named("child") # {}
         THEN End(c) /\ UNCHANGED <<row, cap>>
         ELSE \E i \in Ids :
                /\ row[i] = None
                /\ row' = [row EXCEPT ![i] = NewAgent("child", "all")]
                /\ cap' = [cap EXCEPT ![i] = Inherited(call[c])]
                /\ call' = [call EXCEPT ![c].at = "did", ![c].id = i]
    /\ UNCHANGED <<live, ops, raced, tokens, owed, mixed, broken>>

\* The unique index on (project, identifier) refuses a second row: 409.
CreateRow(c) ==
    /\ At(c, "row")
    /\ IF Named("child") # {}
         THEN End(c) /\ UNCHANGED <<row, cap>>
         ELSE \E i \in Ids :
                /\ row[i] = None
                /\ row' = [row EXCEPT ![i] = NewAgent("child", call[c].mode)]
                /\ cap' = [cap EXCEPT ![i] = Inherited(call[c])]
                /\ call' = [call EXCEPT ![c].at = "did", ![c].id = i]
    /\ UNCHANGED <<live, ops, raced, tokens, owed, mixed, broken>>

SetDid(c) ==
    LET i == call[c].id IN
    /\ At(c, "did")
    /\ IF Exists(i)
         THEN row' = [row EXCEPT ![i].did = TRUE] /\ Go(c, "secrets")
         ELSE UNCHANGED row /\ End(c)
    /\ UNCHANGED <<live, ops, raced, tokens, promises>>

\* Both ends of the new agent_secrets or agent_app_connections rows are there,
\* and none of the rows is.
Insertable(i, things) ==
    Exists(i) /\ things \subseteq live /\ row[i].grants \cap things = {}

\* One createMany: every row or none.  Where it fails the call does, and the
\* agent stays as it is.
Insert(c, things, next) ==
    LET i == call[c].id IN
    IF Insertable(i, things)
      THEN /\ row' = [row EXCEPT ![i].grants = @ \cup things]
           /\ Go(c, next)
           /\ UNCHANGED broken
      ELSE End(c) /\ broken' = broken \cup {i} /\ UNCHANGED row

GrantSecrets_Skipped(c) ==
    /\ At(c, "secrets")
    /\ Go(c, IF Anthropic \in live THEN "anthropic" ELSE "apps")
    /\ UNCHANGED <<row, broken, live, ops, raced, tokens, cap, owed, mixed>>

GrantSecrets(c) ==
    LET secrets == call[c].want \cap Secrets IN
    /\ At(c, "secrets")
    /\ IF secrets # {} THEN Insert(c, secrets, "apps")
         ELSE /\ Go(c, IF Anthropic \in live THEN "anthropic" ELSE "apps")
              /\ UNCHANGED <<row, broken>>
    /\ UNCHANGED <<live, ops, raced, tokens, cap, owed, mixed>>

GrantAnthropic(c) ==
    /\ At(c, "anthropic")
    /\ Insert(c, {Anthropic}, "apps")
    /\ UNCHANGED <<live, ops, raced, tokens, cap, owed, mixed>>

\* The rows have no session policy, whatever the parent's had.
GrantApps(c) ==
    LET apps == call[c].want \cap Apps IN
    /\ At(c, "apps")
    /\ IF apps # {} THEN Insert(c, apps, "created")
         ELSE Go(c, "created") /\ UNCHANGED <<row, broken>>
    /\ UNCHANGED <<live, ops, raced, tokens, cap, owed, mixed>>

\* 201: what is promised is what the parent had, as far as it still exists.
Created(c) ==
    LET i == call[c].id IN
    /\ At(c, "created")
    /\ End(c)
    /\ owed' = [owed EXCEPT ![i] = IF i \in mixed THEN {} ELSE call[c].want \cap live]
    /\ UNCHANGED <<row, live, ops, raced, tokens, cap, mixed, broken>>

-----------------------------------------------------------------------------
(* The other calls: each finds the agent first, and writes by id later.     *)

Found(c, op, i) ==
    /\ op \in ops
    /\ Exists(i)
    /\ Begin(c, [at |-> op, id |-> i, seen |-> {}, late |-> FALSE])
    /\ UNCHANGED <<row, live, ops, raced, promises>>

\* setDefaultAgent, "Agent is already the default"; then its transaction.
FindForDefault(c, i) ==
    /\ Exists(i) /\ ~row[i].isDefault
    /\ Found(c, "default", i)
    /\ UNCHANGED tokens

\* updateMany looks for the committed defaults.
SeeDefaults(c) ==
    /\ At(c, "default")
    /\ call' = [call EXCEPT ![c].at = "clear", ![c].seen = Defaults]
    /\ UNCHANGED registry

\* The writes whose finding this one makes stale.
Outdates(c) == {d \in Calls \ {c} : \/ At(d, "clear")
                                    \/ At(d, "delete") /\ call[d].id = call[c].id}

CommitDefault_NotCleared(c) ==
    LET i == call[c].id IN
    /\ At(c, "clear")
    /\ row' = [row EXCEPT ![i] = IF Exists(i) THEN [@ EXCEPT !.isDefault = TRUE] ELSE @]
    /\ raced' = IF ~Exists(i) THEN raced ELSE IF call[c].late THEN {"two"} ELSE {}
    /\ call' = [call EXCEPT ![c] = Idle]
    /\ UNCHANGED <<live, ops, tokens, promises>>

\* It clears those it saw, sets the new one and commits; if that one is gone
\* the update throws and everything is rolled back.
CommitDefault(c) ==
    LET i == call[c].id IN
    /\ At(c, "clear")
    /\ IF Exists(i)
         THEN /\ row' = [j \in Ids |->
                    IF j = i THEN [row[j] EXCEPT !.isDefault = TRUE]
                    ELSE IF j \in call[c].seen /\ Exists(j)
                         THEN [row[j] EXCEPT !.isDefault = FALSE] ELSE row[j]]
              /\ raced' = IF call[c].late THEN {"two"} ELSE {}
              /\ call' = [d \in Calls |-> IF d = c THEN Idle
                             ELSE IF d \in Outdates(c) THEN [call[d] EXCEPT !.late = TRUE]
                             ELSE call[d]]
         ELSE End(c) /\ UNCHANGED <<row, raced>>
    /\ UNCHANGED <<live, ops, tokens, promises>>

\* ensureProjectSeeds, in every session call, and container-config look for a
\* default agent.
FindDefault(c) ==
    /\ "seed" \in ops /\ Defaults = {}
    /\ Begin(c, [at |-> "seed", id |-> Default, seen |-> {}, late |-> FALSE])
    /\ UNCHANGED registry

\* Without one they create it, with an identifier that may be taken.
SeedRow(c) ==
    /\ At(c, "seed")
    /\ IF Named("default") # {}
         THEN End(c) /\ UNCHANGED <<row, raced>>
         ELSE /\ \E i \in Ids :
                   /\ row[i] = None
                   /\ row' = [row EXCEPT ![i] = [NewAgent("default", "all") EXCEPT !.isDefault = TRUE]]
              /\ raced' = IF Defaults = {} THEN {} ELSE {"two"}
              /\ call' = [d \in Calls |-> IF d = c THEN Idle
                             ELSE IF At(d, "clear") THEN [call[d] EXCEPT !.late = TRUE]
                             ELSE call[d]]
    /\ UNCHANGED <<live, ops, tokens, promises>>

\* deleteAgent, "Cannot delete the default agent".
FindForDelete(c, i) ==
    /\ Exists(i) /\ ~row[i].isDefault
    /\ Found(c, "delete", i)
    /\ UNCHANGED tokens

DeleteRow(c) ==
    LET i == call[c].id IN
    /\ At(c, "delete")
    /\ row' = [row EXCEPT ![i] = Gone]
    /\ raced' = IF call[c].late THEN raced \cup {"none"} ELSE raced
    /\ End(c)
    /\ UNCHANGED <<live, ops, tokens, promises>>

\* regenerateAgentToken.
FindForRenew(c, i) ==
    /\ Found(c, "renew", i)
    /\ killed' = killed \ {i}
    /\ UNCHANGED <<stamped, revived>>

WriteToken(c) ==
    LET i == call[c].id IN
    /\ At(c, "renew")
    /\ row' = [row EXCEPT ![i] = IF Exists(i) THEN [@ EXCEPT !.token = "live"] ELSE @]
    /\ stamped' = stamped \ {i}
    /\ revived' = IF call[c].late THEN revived \cup {i} ELSE revived
    /\ End(c)
    /\ UNCHANGED <<live, ops, raced, killed, promises>>

\* revokeAgentToken, the kill switch.
FindForRevoke(c, i) == Found(c, "revoke", i) /\ UNCHANGED tokens

Renewing(i) == {d \in Calls : At(d, "renew") /\ call[d].id = i}

\* The agent counts as revoked, and what overtakes this is a renewal under way.
Killed(c, i) ==
    /\ killed' = killed \cup {i}
    /\ revived' = revived \ {i}
    /\ call' = [d \in Calls |-> IF d = c THEN Idle
                   ELSE IF d \in Renewing(i) THEN [call[d] EXCEPT !.late = TRUE]
                   ELSE call[d]]

WriteRevoked_Swallowed(c) ==
    LET i == call[c].id IN
    /\ At(c, "revoke")
    /\ Killed(c, i)
    /\ IF Exists(i) /\ stamped \subseteq {i}
         THEN row' = [row EXCEPT ![i].token = "revoked"] /\ stamped' = stamped \cup {i}
         ELSE UNCHANGED <<row, stamped>>
    /\ UNCHANGED <<live, ops, raced, promises>>

\* revoked_<ms>: the unique index on tokens refuses a second one in the same
\* millisecond, and the call fails.
WriteRevoked(c) ==
    LET i == call[c].id IN
    /\ At(c, "revoke")
    /\ IF Exists(i) /\ stamped \subseteq {i}
         THEN /\ row' = [row EXCEPT ![i].token = "revoked"]
              /\ stamped' = stamped \cup {i}
              /\ Killed(c, i)
         ELSE End(c) /\ UNCHANGED <<row, tokens>>
    /\ UNCHANGED <<live, ops, raced, promises>>

\* updateAgentSecretMode.
FindForMode(c, i) == Found(c, "mode", i) /\ UNCHANGED tokens

\* An administrator has decided what the agent may use from now on.
Decided(i, agent, things) ==
    /\ row' = [row EXCEPT ![i] = agent]
    /\ IF agent.identifier = "child"
         THEN cap' = [cap EXCEPT ![i] = Access(agent)] /\ owed' = [owed EXCEPT ![i] = things]
         ELSE UNCHANGED <<cap, owed>>
    /\ mixed' = IF Creating(i) THEN mixed \cup {i} ELSE mixed \ {i}

WriteMode(c) ==
    LET i == call[c].id IN
    /\ At(c, "mode")
    /\ IF Exists(i)
         THEN \E m \in Modes : Decided(i, [row[i] EXCEPT !.mode = m], owed[i])
         ELSE UNCHANGED <<row, cap, owed, mixed>>
    /\ End(c)
    /\ UNCHANGED <<live, ops, raced, tokens, broken>>

\* updateAgentSecrets and updateAgentAppConnections, whose transaction replaces
\* the agent's rows of one kind by new ones or, with a thing that was deleted
\* meanwhile, fails as a whole.  The second sets session policies as well.
FindForGrants(c, i) == Found(c, "grants", i) /\ UNCHANGED tokens

ReplaceGrants(c) ==
    LET i == call[c].id IN
    /\ At(c, "grants")
    /\ IF Exists(i)
         THEN \E kind \in {Secrets, Apps} : \E things \in SUBSET (kind \cap live) :
              \E limits \in SUBSET (things \cap Apps) :
                Decided(i, [row[i] EXCEPT !.grants = (@ \ kind) \cup things,
                                          !.limits = (@ \ kind) \cup limits],
                        (owed[i] \ kind) \cup things)
         ELSE UNCHANGED <<row, cap, owed, mixed>>
    /\ End(c)
    /\ UNCHANGED <<live, ops, raced, tokens, broken>>

-----------------------------------------------------------------------------

\* Deleting a secret or a connection deletes the grants of it.
Forget(things) ==
    /\ live' = live \ things
    /\ row' = [i \in Ids |->
           IF Exists(i)
             THEN [row[i] EXCEPT !.grants = @ \ things, !.limits = @ \ things]
             ELSE row[i]]
    /\ owed' = [i \in Ids |-> owed[i] \ things]

deleteSecret(t) ==
    /\ "drop" \in ops
    /\ t \in live
    /\ Forget({t})
    /\ UNCHANGED <<call, ops, raced, tokens, cap, mixed, broken>>

NextMillisecond ==
    /\ stamped # {}
    /\ stamped' = {}
    /\ UNCHANGED <<row, live, call, ops, raced, killed, revived, promises>>

\* A call ends at any of its steps: a database error, or the process dies.
FailAgentCall(c) ==
    /\ call[c] \in Create \cup Update
    /\ broken' = broken \cup {i \in Ids : CreatedBy(c, i)}
    /\ End(c)
    /\ UNCHANGED <<row, live, ops, raced, tokens, cap, owed, mixed>>

CreateStep(c) ==
    \/ \E inherit \in BOOLEAN : StartCreate(c, inherit)
    \/ FindExisting(c) \/ FindParent(c) \/ CreateRow(c) \/ SetDid(c)
    \/ GrantSecrets(c) \/ GrantAnthropic(c) \/ GrantApps(c) \/ Created(c)

Find(c, i) ==
    \/ FindForDefault(c, i) \/ FindForDelete(c, i) \/ FindForRenew(c, i)
    \/ FindForRevoke(c, i) \/ FindForMode(c, i) \/ FindForGrants(c, i)

Seed(c) == FindDefault(c) \/ SeedRow(c)

Write(c) ==
    \/ SeeDefaults(c) \/ CommitDefault(c) \/ DeleteRow(c)
    \/ WriteToken(c) \/ WriteRevoked(c) \/ WriteMode(c) \/ ReplaceGrants(c)

RegistryNext ==
    \/ \E c \in Calls :
         \/ CreateStep(c) \/ Seed(c) \/ Write(c) \/ FailAgentCall(c)
         \/ \E i \in Ids : Find(c, i)
    \/ \E t \in Secrets : deleteSecret(t)
    \/ NextMillisecond

-----------------------------------------------------------------------------

(* A project has exactly one default agent (getDefaultAgent hands its token *)
(* to new containers), but for a setDefaultAgent that did not see another   *)
(* commit, or a delete of an agent made the default after it was checked;   *)
(* and the next setDefaultAgent that runs alone repairs either, as a seed   *)
(* that runs alone does the second.                                         *)
DefaultExplained ==
    /\ Cardinality(Defaults) > 1 => "two" \in raced
    /\ Defaults = {} => "none" \in raced

(* The kill switch holds: an agent that was revoked has no working token    *)
(* until someone asks for a new one, but for a renewal that was under way.  *)
KillHolds ==
    \A i \in killed : Exists(i) => row[i].token = "revoked" \/ i \in revived

(* An agent may use no secret and no connection that its parent could not   *)
(* when it was created (or the Anthropic secret, without any), and no more  *)
(* than an administrator left it, whatever fails; only what is changed      *)
(* while it is being created mixes.  But createAgent does not copy session  *)
(* policies: until an administrator decides, the child may use all of the   *)
(* connections whose policy lets its parent use a part.                     *)
WithinGrant ==
    \A i \in Named("child") \ mixed : Access(row[i]) \subseteq cap[i]

(* A created agent has its DID and all it was promised.  One that lacks     *)
(* either is being created, or its creation broke off: its identifier is    *)
(* taken, so that a retry is refused and never completes it.                *)
ChildComplete ==
    \A i \in Named("child") : ~Creating(i) /\ i \notin broken =>
        row[i].did /\ owed[i] \subseteq row[i].grants
=============================================================================
