------------------------ MODULE AppConnectionsProofs ------------------------
(***************************************************************************)
(* For any agents, apps, rules, hosts and calls in flight, and any set of  *)
(* operations: the default agent, the kill switch, what a child may use,   *)
(* the blocks of an app and the client of its connections are what the     *)
(* properties of AgentRegistry and AppConnections say.                     *)
(*                                                                         *)
(* The calls of the two modules are told apart by the place they are at.   *)
(* A step of the one leaves the calls of the other alone, so that each     *)
(* invariant is followed through the steps of its own module, and once     *)
(* through all of the other's.                                             *)
(***************************************************************************)
EXTENDS AppConnections, FiniteSetTheorems, TLAPS

CreatePlaces ==
    {"exists", "parent", "row", "did", "secrets", "anthropic", "apps", "created"}
UpdatePlaces ==
    {"seed", "default", "clear", "delete", "renew", "revoke", "mode", "grants"}
ConnectPlaces == {"resolve", "exchange", "list", "write", "rules", "init", "save"}
DisconnectPlaces == {"remove", "count", "unblock"}
BlockPlaces == {"find", "create", "enable"}
ConfigPlaces == {"disconnect", "upsert", "toggle"}

AnyCall == AgentCall \cup ConnectCall \cup DisconnectCall \cup BlockCall \cup ConfigCall

(* What a call has found before: what connects, disconnects or blocks ...  *)
Prepared(c) ==
    /\ At(c, "init") => call[c].hosts \subseteq Hosts
    /\ call[c].at \in BlockPlaces => call[c].host \in Hosts \cup Custom
    /\ At(c, "enable") => call[c].rule \in RuleIds /\ rule[call[c].rule] # None
    /\ At(c, "unblock") => call[c].left = {}

(* ... and what works on an agent or creates one.                          *)
Informed(c) ==
    /\ call[c].at \in UpdatePlaces \ {"seed"} => row[call[c].id] # None
    /\ \A i \in Ids : CreatedBy(c, i) =>
         row[i] = Gone \/ (Exists(i) /\ row[i].identifier = "child")

Working == \A c \in Calls : Prepared(c) /\ Informed(c)

-----------------------------------------------------------------------------
(* The calls in flight                                                      *)

\* The place a call is at tells which call it is.
LEMMA Places ==
    ASSUME NEW r \in AnyCall
    PROVE  /\ r = Idle <=> r.at = "idle"
           /\ r \in Create <=> r.at \in CreatePlaces
           /\ r \in Update <=> r.at \in UpdatePlaces
           /\ r \in ConnectCall <=> r.at \in ConnectPlaces
           /\ r \in DisconnectCall <=> r.at \in DisconnectPlaces
           /\ r \in BlockCall <=> r.at \in BlockPlaces
           /\ r \in ConfigCall <=> r.at \in ConfigPlaces
           /\ r \in AgentCall <=> r.at \in {"idle"} \cup CreatePlaces \cup UpdatePlaces
<1> USE DEF CreatePlaces, UpdatePlaces, ConnectPlaces, DisconnectPlaces, BlockPlaces, ConfigPlaces
<1>1. r \in {Idle} \cup Create \cup Update \cup ConnectCall \cup DisconnectCall
            \cup BlockCall \cup ConfigCall
  BY DEF AnyCall, AgentCall
<1>2. /\ Idle.at = "idle"
      /\ \A s \in Create : s.at \in CreatePlaces
      /\ \A s \in Update : s.at \in UpdatePlaces
      /\ \A s \in ConnectCall : s.at \in ConnectPlaces
      /\ \A s \in DisconnectCall : s.at \in DisconnectPlaces
      /\ \A s \in BlockCall : s.at \in BlockPlaces
      /\ \A s \in ConfigCall : s.at \in ConfigPlaces
  BY DEF Idle, Create, Update, ConnectCall, DisconnectCall, BlockCall, ConfigCall
<1>3. QED
  BY <1>1, <1>2 DEF AgentCall

LEMMA Kinds ==
    ASSUME TypeOK, NEW c \in Calls
    PROVE  /\ call[c] \in AnyCall
           /\ call[c] = Idle <=> call[c].at = "idle"
           /\ call[c] \in Create <=> call[c].at \in CreatePlaces
           /\ call[c] \in Update <=> call[c].at \in UpdatePlaces
           /\ call[c] \in ConnectCall <=> call[c].at \in ConnectPlaces
           /\ call[c] \in DisconnectCall <=> call[c].at \in DisconnectPlaces
           /\ call[c] \in BlockCall <=> call[c].at \in BlockPlaces
           /\ call[c] \in ConfigCall <=> call[c].at \in ConfigPlaces
           /\ call[c] \in AgentCall <=> call[c].at \in {"idle"} \cup CreatePlaces \cup UpdatePlaces
<1>1. call[c] \in AnyCall
  BY DEF TypeOK, AnyCall
<1>2. QED
  BY <1>1, Places

\* A call goes from one place to the next of its kind.
LEMMA Goes ==
    ASSUME TypeOK, NEW c \in Calls, NEW at, Go(c, at),
           \/ call[c] \in Create /\ at \in CreatePlaces
           \/ call[c] \in Update /\ at \in UpdatePlaces
           \/ call[c] \in ConnectCall /\ at \in ConnectPlaces
           \/ call[c] \in DisconnectCall /\ at \in DisconnectPlaces
           \/ call[c] \in BlockCall /\ at \in BlockPlaces
           \/ call[c] \in ConfigCall /\ at \in ConfigPlaces
    PROVE  /\ call' \in [Calls -> AnyCall]
           /\ call'[c] = [call[c] EXCEPT !.at = at]
           /\ call'[c].at = at
           /\ \A d \in Calls \ {c} : call'[d] = call[d]
<1>1. call \in [Calls -> AnyCall] /\ call' = [call EXCEPT ![c].at = at]
  BY DEF TypeOK, AnyCall, Go
<1>2. [call[c] EXCEPT !.at = at] \in AnyCall /\ [call[c] EXCEPT !.at = at].at = at
  <2> USE DEF AnyCall, AgentCall
  <2>1. CASE call[c] \in Create /\ at \in CreatePlaces
    BY <2>1 DEF Create, CreatePlaces
  <2>2. CASE call[c] \in Update /\ at \in UpdatePlaces
    BY <2>2 DEF Update, UpdatePlaces
  <2>3. CASE call[c] \in ConnectCall /\ at \in ConnectPlaces
    BY <2>3 DEF ConnectCall, ConnectPlaces
  <2>4. CASE call[c] \in DisconnectCall /\ at \in DisconnectPlaces
    BY <2>4 DEF DisconnectCall, DisconnectPlaces
  <2>5. CASE call[c] \in BlockCall /\ at \in BlockPlaces
    BY <2>5 DEF BlockCall, BlockPlaces
  <2>6. CASE call[c] \in ConfigCall /\ at \in ConfigPlaces
    BY <2>6 DEF ConfigCall, ConfigPlaces
  <2>7. QED
    BY <2>1, <2>2, <2>3, <2>4, <2>5, <2>6
<1>3. call'[c] = [call[c] EXCEPT !.at = at] /\ \A d \in Calls \ {c} : call'[d] = call[d]
  BY <1>1
<1>4. QED
  BY <1>1, <1>2, <1>3

\* A call that ends is gone.
LEMMA Ends ==
    ASSUME TypeOK, NEW c \in Calls, End(c)
    PROVE  /\ call' \in [Calls -> AnyCall]
           /\ call'[c] = Idle /\ call'[c].at = "idle"
           /\ \A d \in Calls \ {c} : call'[d] = call[d]
  BY DEF TypeOK, AnyCall, AgentCall, End, Idle

\* A call that begins was not there.
LEMMA Begins ==
    ASSUME TypeOK, NEW c \in Calls, NEW r \in AnyCall, Begin(c, r)
    PROVE  /\ call' \in [Calls -> AnyCall]
           /\ At(c, "idle") /\ call'[c] = r
           /\ \A d \in Calls \ {c} : call'[d] = call[d]
  BY DEF TypeOK, AnyCall, AgentCall, Begin, At, Idle

\* The calls of the agents that are marked as late stay what they are.
LEMMA Lates ==
    ASSUME TypeOK, NEW c \in Calls, NEW S \in SUBSET Calls,
           \A d \in S : call[d] \in Update,
           call' = [d \in Calls |-> IF d = c THEN Idle
                       ELSE IF d \in S THEN [call[d] EXCEPT !.late = TRUE] ELSE call[d]]
    PROVE  /\ call' \in [Calls -> AnyCall]
           /\ call'[c] = Idle
           /\ \A d \in Calls \ {c} :
                /\ d \in S => /\ call'[d] \in Update /\ call'[d].late
                              /\ call'[d].at = call[d].at /\ call'[d].id = call[d].id
                              /\ call'[d].seen = call[d].seen
                /\ d \notin S => call'[d] = call[d]
<1>1. \A d \in S : LET r == [call[d] EXCEPT !.late = TRUE] IN
        /\ r \in Update /\ r.late
        /\ r.at = call[d].at /\ r.id = call[d].id /\ r.seen = call[d].seen
  BY DEF Update
<1>2. call \in [Calls -> AnyCall] /\ Idle \in AnyCall /\ Update \subseteq AnyCall
  BY DEF TypeOK, AnyCall, AgentCall
<1>3. QED
  BY <1>1, <1>2

-----------------------------------------------------------------------------
(* Types                                                                    *)

\* What the steps of the agents' calls leave of the types, and of the calls
\* that connect apps.
AgentsOnly ==
    /\ RegistryTypeOK'
    /\ call' \in [Calls -> AnyCall]
    /\ live' \cap Apps = live \cap Apps
    /\ \A d \in Calls : call[d] \in AgentCall <=> call'[d] \in AgentCall
    /\ \A d \in Calls : call[d] \notin AgentCall => call'[d] = call[d]

\* It is enough to look at the one call that makes the step.
LEMMA OneAgentCall ==
    ASSUME TypeOK, NEW c \in Calls, call[c] \in AgentCall,
           call' \in [Calls -> AnyCall], call'[c] \in AgentCall,
           \A d \in Calls \ {c} : call'[d] = call[d],
           RegistryTypeOK', live' \cap Apps = live \cap Apps
    PROVE  AgentsOnly
  BY DEF AgentsOnly

\* A row keeps its type when one of its fields changes.
LEMMA RowFields ==
    ASSUME TypeOK, NEW i \in Ids, Exists(i)
    PROVE  /\ row[i] \in Agent
           /\ \A b \in BOOLEAN : [row[i] EXCEPT !.isDefault = b] \in Agent
           /\ [row[i] EXCEPT !.did = TRUE] \in Agent
           /\ \A t \in {"live", "revoked"} : [row[i] EXCEPT !.token = t] \in Agent
           /\ \A m \in Modes : [row[i] EXCEPT !.mode = m] \in Agent
           /\ \A S \in SUBSET Things : [row[i] EXCEPT !.grants = S] \in Agent
<1>1. row[i] \in Agent
  BY DEF TypeOK, RegistryTypeOK, Exists
<1>2. QED
  BY <1>1 DEF Agent

\* An agent's row whose field is written stays one, the other fields the same.
LEMMA RowExcept ==
    ASSUME NEW a \in Agent
    PROVE  /\ \A m \in Modes : LET x == [a EXCEPT !.mode = m] IN
                x \in Agent /\ x.identifier = a.identifier /\ x.did = a.did /\ x.grants = a.grants
           /\ \A S \in SUBSET Things : LET x == [a EXCEPT !.grants = S] IN
                x \in Agent /\ x.identifier = a.identifier /\ x.did = a.did /\ x.grants = S
<1>1. ASSUME NEW m \in Modes
      PROVE  LET x == [a EXCEPT !.mode = m] IN
               x \in Agent /\ x.identifier = a.identifier /\ x.did = a.did /\ x.grants = a.grants
  BY DEF Agent
<1>2. ASSUME NEW S \in SUBSET Things
      PROVE  LET x == [a EXCEPT !.grants = S] IN
               x \in Agent /\ x.identifier = a.identifier /\ x.did = a.did /\ x.grants = S
  BY DEF Agent
<1>3. QED
  BY <1>1, <1>2

\* The steps of createAgent.
LEMMA CreateTypes ==
    ASSUME TypeOK, NEW c \in Calls, CreateStep(c)
    PROVE  AgentsOnly
<1> USE DEF registry, tokens, promises, At
<1>1. ASSUME NEW inherit \in BOOLEAN, StartCreate(c, inherit)
      PROVE  AgentsOnly
  <2> DEFINE r == [at |-> "exists", inherit |-> inherit, mode |-> "all", want |-> {}, id |-> Default]
  <2>1. r \in Create
    BY RegistryAssumption DEF Create, Modes
  <2>2. r \in AnyCall /\ r \in AgentCall
    BY <2>1 DEF AnyCall, AgentCall
  <2>3. Begin(c, r)
    BY <1>1 DEF StartCreate
  <2>4. call[c] \in AgentCall
    BY <2>3 DEF Begin, AgentCall
  <2>5. RegistryTypeOK' /\ live' = live
    BY <1>1 DEF StartCreate, TypeOK, RegistryTypeOK
  <2>6. QED
    BY <2>2, <2>3, <2>4, <2>5, Begins, OneAgentCall
<1>2. ASSUME call[c] \in Create,
             End(c) \/ \E at \in CreatePlaces : Go(c, at),
             RegistryTypeOK', live' = live
      PROVE  AgentsOnly
  <2>1. Idle \in AgentCall /\ call[c] \in AgentCall
    BY <1>2 DEF AgentCall
  <2>2. CASE End(c)
    BY <1>2, <2>1, <2>2, Ends, OneAgentCall
  <2>3. ASSUME NEW at \in CreatePlaces, Go(c, at)
        PROVE  AgentsOnly
    <3>1. [call[c] EXCEPT !.at = at] \in Create
      BY <1>2 DEF Create, CreatePlaces
    <3>2. call'[c] \in AgentCall
      BY <1>2, <2>3, <3>1, Goes DEF AgentCall
    <3>3. QED
      BY <1>2, <2>1, <2>3, <3>2, Goes, OneAgentCall
  <2>4. QED
    BY <1>2, <2>2, <2>3
<1>3. CASE FindExisting(c)
  <2>1. call[c] \in Create
    BY <1>3, Kinds DEF FindExisting, CreatePlaces
  <2>2. RegistryTypeOK' /\ live' = live
    BY <1>3 DEF FindExisting, TypeOK, RegistryTypeOK
  <2>3. End(c) \/ \E at \in CreatePlaces : Go(c, at)
    BY <1>3 DEF FindExisting, CreatePlaces
  <2>4. QED
    BY <1>2, <2>1, <2>2, <2>3
<1>4. CASE FindParent(c)
  <2>1. call[c] \in Create
    BY <1>4, Kinds DEF FindParent, CreatePlaces
  <2>2. RegistryTypeOK' /\ live' = live
    BY <1>4 DEF FindParent, TypeOK, RegistryTypeOK
  <2>3. CASE call[c].inherit /\ Exists(Parent)
    <3>1. row[Parent] \in Agent
      BY <2>3, RegistryAssumption, RowFields
    <3>2. row[Parent].mode \in Modes /\ row[Parent].grants \in SUBSET Things
      BY <3>1 DEF Agent
    <3> DEFINE r == [call[c] EXCEPT !.at = "row", !.mode = row[Parent].mode,
                                    !.want = row[Parent].grants]
    <3>3. r \in Create
      BY <2>1, <3>2 DEF Create
    <3>4. call' = [call EXCEPT ![c] = r]
      BY <1>4, <2>3 DEF FindParent
    <3>5. /\ call' \in [Calls -> AnyCall] /\ call'[c] \in AgentCall /\ call[c] \in AgentCall
          /\ \A d \in Calls \ {c} : call'[d] = call[d]
      BY <2>1, <3>3, <3>4 DEF TypeOK, AnyCall, AgentCall
    <3>6. QED
      BY <2>2, <3>5, OneAgentCall
  <2>4. CASE ~(call[c].inherit /\ Exists(Parent))
    BY <1>2, <1>4, <2>1, <2>2, <2>4 DEF FindParent, CreatePlaces
  <2>5. QED
    BY <2>3, <2>4
<1>5. CASE CreateRow(c)
  <2>1. call[c] \in Create
    BY <1>5, Kinds DEF CreateRow, CreatePlaces
  <2>2. CASE Named("child") # {}
    <3>1. RegistryTypeOK' /\ live' = live /\ End(c)
      BY <1>5, <2>2 DEF CreateRow, TypeOK, RegistryTypeOK
    <3>2. QED
      BY <1>2, <2>1, <3>1
  <2>3. CASE Named("child") = {}
    <3>1. PICK i \in Ids : /\ row[i] = None
                           /\ row' = [row EXCEPT ![i] = NewAgent("child", call[c].mode)]
                           /\ cap' = [cap EXCEPT ![i] = Inherited(call[c])]
                           /\ call' = [call EXCEPT ![c].at = "did", ![c].id = i]
      BY <1>5, <2>3 DEF CreateRow
    <3>2. NewAgent("child", call[c].mode) \in Agent
      BY <2>1 DEF NewAgent, Agent, Create
    <3>3. Inherited(call[c]) \in SUBSET Rights
      BY DEF Inherited, Access
    <3>4. row' \in [Ids -> Agent \cup {None, Gone}] /\ cap' \in [Ids -> SUBSET Rights]
      BY <3>1, <3>2, <3>3 DEF TypeOK, RegistryTypeOK
    <3>5. RegistryTypeOK' /\ live' = live
      BY <1>5, <3>4 DEF CreateRow, TypeOK, RegistryTypeOK
    <3> DEFINE r == [call[c] EXCEPT !.at = "did", !.id = i]
    <3>6. r \in Create
      BY <2>1 DEF Create
    <3>7. call' = [call EXCEPT ![c] = r]
      BY <3>1
    <3>8. /\ call' \in [Calls -> AnyCall] /\ call'[c] \in AgentCall /\ call[c] \in AgentCall
          /\ \A d \in Calls \ {c} : call'[d] = call[d]
      BY <2>1, <3>6, <3>7 DEF TypeOK, AnyCall, AgentCall
    <3>9. QED
      BY <3>5, <3>8, OneAgentCall
  <2>4. QED
    BY <2>2, <2>3
<1>6. CASE SetDid(c)
  <2>1. call[c] \in Create
    BY <1>6, Kinds DEF SetDid, CreatePlaces
  <2>2. call[c].id \in Ids
    BY <2>1 DEF Create
  <2>3. RegistryTypeOK' /\ live' = live
    <3>1. CASE Exists(call[c].id)
      <4>1. row' = [row EXCEPT ![call[c].id] = [row[call[c].id] EXCEPT !.did = TRUE]]
        BY <1>6, <3>1 DEF SetDid
      <4>2. row' \in [Ids -> Agent \cup {None, Gone}]
        BY <2>2, <3>1, <4>1, RowFields DEF TypeOK, RegistryTypeOK
      <4>3. QED
        BY <1>6, <4>2 DEF SetDid, TypeOK, RegistryTypeOK
    <3>2. CASE ~Exists(call[c].id)
      BY <1>6, <3>2 DEF SetDid, TypeOK, RegistryTypeOK
    <3>3. QED
      BY <3>1, <3>2
  <2>4. End(c) \/ \E at \in CreatePlaces : Go(c, at)
    BY <1>6 DEF SetDid, CreatePlaces
  <2>5. QED
    BY <1>2, <2>1, <2>3, <2>4
<1>7. ASSUME call[c] \in Create, NEW things \in SUBSET Things, NEW next \in CreatePlaces,
             Insert(c, things, next), UNCHANGED <<live, ops, raced, tokens, cap, owed, mixed>>
      PROVE  AgentsOnly
  <2>1. call[c].id \in Ids
    BY <1>7 DEF Create
  <2>2. RegistryTypeOK'
    <3>1. CASE Insertable(call[c].id, things)
      <4>1. Exists(call[c].id) /\ row[call[c].id].grants \cup things \in SUBSET Things
        BY <1>7, <2>1, <3>1, RowFields DEF Insertable, Agent
      <4>2. row' = [row EXCEPT ![call[c].id] =
                      [row[call[c].id] EXCEPT !.grants = row[call[c].id].grants \cup things]]
        BY <1>7, <3>1 DEF Insert
      <4>3. row' \in [Ids -> Agent \cup {None, Gone}]
        BY <2>1, <4>1, <4>2, RowFields DEF TypeOK, RegistryTypeOK
      <4>4. QED
        BY <1>7, <3>1, <4>3 DEF Insert, TypeOK, RegistryTypeOK
    <3>2. CASE ~Insertable(call[c].id, things)
      BY <1>7, <2>1, <3>2 DEF Insert, TypeOK, RegistryTypeOK
    <3>3. QED
      BY <3>1, <3>2
  <2>3. End(c) \/ Go(c, next)
    BY <1>7 DEF Insert
  <2>4. QED
    BY <1>2, <1>7, <2>2, <2>3
<1>8. CASE GrantSecrets(c)
  <2>1. call[c] \in Create
    BY <1>8, Kinds DEF GrantSecrets, CreatePlaces
  <2>2. CASE call[c].want \cap Secrets # {}
    <3>1. call[c].want \cap Secrets \in SUBSET Things
      BY DEF Things
    <3>2. QED
      BY <1>7, <1>8, <2>1, <2>2, <3>1 DEF GrantSecrets, CreatePlaces
  <2>3. CASE call[c].want \cap Secrets = {}
    <3>1. RegistryTypeOK' /\ live' = live
      BY <1>8, <2>3 DEF GrantSecrets, TypeOK, RegistryTypeOK
    <3>2. \E at \in CreatePlaces : Go(c, at)
      BY <1>8, <2>3 DEF GrantSecrets, CreatePlaces
    <3>3. QED
      BY <1>2, <2>1, <3>1, <3>2
  <2>4. QED
    BY <2>2, <2>3
<1>9. CASE GrantAnthropic(c)
  <2>1. call[c] \in Create
    BY <1>9, Kinds DEF GrantAnthropic, CreatePlaces
  <2>2. {Anthropic} \in SUBSET Things
    BY RegistryAssumption DEF Things
  <2>3. QED
    BY <1>7, <1>9, <2>1, <2>2 DEF GrantAnthropic, CreatePlaces
<1>10. CASE GrantApps(c)
  <2>1. call[c] \in Create
    BY <1>10, Kinds DEF GrantApps, CreatePlaces
  <2>2. CASE call[c].want \cap Apps # {}
    <3>1. call[c].want \cap Apps \in SUBSET Things
      BY DEF Things
    <3>2. QED
      BY <1>7, <1>10, <2>1, <2>2, <3>1 DEF GrantApps, CreatePlaces
  <2>3. CASE call[c].want \cap Apps = {}
    <3>1. RegistryTypeOK' /\ live' = live
      BY <1>10, <2>3 DEF GrantApps, TypeOK, RegistryTypeOK
    <3>2. \E at \in CreatePlaces : Go(c, at)
      BY <1>10, <2>3 DEF GrantApps, CreatePlaces
    <3>3. QED
      BY <1>2, <2>1, <3>1, <3>2
  <2>4. QED
    BY <2>2, <2>3
<1>11. CASE Created(c)
  <2>1. call[c] \in Create
    BY <1>11, Kinds DEF Created, CreatePlaces
  <2>2. call[c].id \in Ids /\ call[c].want \in SUBSET Things
    BY <2>1 DEF Create
  <2>3. owed' \in [Ids -> SUBSET Things]
    BY <1>11, <2>2 DEF Created, TypeOK, RegistryTypeOK
  <2>4. RegistryTypeOK' /\ live' = live /\ End(c)
    BY <1>11, <2>3 DEF Created, TypeOK, RegistryTypeOK
  <2>5. QED
    BY <1>2, <2>1, <2>4
<1>12. QED
  BY <1>1, <1>3, <1>4, <1>5, <1>6, <1>8, <1>9, <1>10, <1>11 DEF CreateStep

\* An agent's call finds the agent.
LEMMA FindTypes ==
    ASSUME TypeOK, NEW c \in Calls, NEW i \in Ids, Find(c, i)
    PROVE  /\ AgentsOnly
           /\ Exists(i) /\ At(c, "idle")
           /\ call'[c] \in Update /\ call'[c].id = i /\ call'[c].late = FALSE
           /\ \A d \in Calls \ {c} : call'[d] = call[d]
           /\ UNCHANGED <<row, live, ops, raced, promises>>
           /\ \/ /\ call'[c].at = "default" /\ UNCHANGED tokens
              \/ /\ call'[c].at = "delete" /\ ~row[i].isDefault /\ UNCHANGED tokens
              \/ /\ call'[c].at = "renew" /\ killed' = killed \ {i}
                 /\ UNCHANGED <<stamped, revived>>
              \/ /\ call'[c].at \in {"revoke", "mode", "grants"} /\ UNCHANGED tokens
<1> USE DEF tokens, promises
<1>1. ASSUME NEW op \in {"default", "delete", "renew", "revoke", "mode", "grants"},
             Found(c, op, i), killed' \subseteq killed, UNCHANGED <<stamped, revived>>
      PROVE  /\ AgentsOnly
             /\ Exists(i) /\ At(c, "idle")
             /\ call'[c] \in Update /\ call'[c].id = i /\ call'[c].late = FALSE
             /\ call'[c].at = op
             /\ \A d \in Calls \ {c} : call'[d] = call[d]
             /\ UNCHANGED <<row, live, ops, raced, promises>>
  <2> DEFINE r == [at |-> op, id |-> i, seen |-> {}, late |-> FALSE]
  <2>1. r \in Update /\ r.at = op /\ r.id = i /\ r.late = FALSE
    BY DEF Update
  <2>2. r \in AnyCall /\ r \in AgentCall
    BY <2>1 DEF AnyCall, AgentCall
  <2>3. Begin(c, r)
    BY <1>1 DEF Found
  <2>4. call[c] \in AgentCall
    BY <2>3 DEF Begin, AgentCall
  <2>5. RegistryTypeOK' /\ live' = live
    BY <1>1 DEF Found, TypeOK, RegistryTypeOK
  <2>6. AgentsOnly
    BY <2>2, <2>3, <2>4, <2>5, Begins, OneAgentCall
  <2>7. Exists(i) /\ UNCHANGED <<row, live, ops, raced, promises>>
    BY <1>1 DEF Found
  <2> HIDE DEF r
  <2>8. QED
    BY <2>1, <2>2, <2>3, <2>6, <2>7, Begins
<1>2. CASE FindForDefault(c, i)
  BY <1>1, <1>2 DEF FindForDefault
<1>3. CASE FindForDelete(c, i)
  BY <1>1, <1>3 DEF FindForDelete
<1>4. CASE FindForRenew(c, i)
  BY <1>1, <1>4 DEF FindForRenew
<1>5. CASE FindForRevoke(c, i)
  BY <1>1, <1>5 DEF FindForRevoke
<1>6. CASE FindForMode(c, i)
  BY <1>1, <1>6 DEF FindForMode
<1>7. CASE FindForGrants(c, i)
  BY <1>1, <1>7 DEF FindForGrants
<1>8. QED
  BY <1>2, <1>3, <1>4, <1>5, <1>6, <1>7 DEF Find

\* A call of the agents that ends, whose step marks others as late.
LEMMA LatesOnly ==
    ASSUME TypeOK, NEW c \in Calls, call[c] \in Update, NEW S \in SUBSET Calls,
           \A d \in S : call[d] \in Update,
           call' = [d \in Calls |-> IF d = c THEN Idle
                       ELSE IF d \in S THEN [call[d] EXCEPT !.late = TRUE] ELSE call[d]],
           RegistryTypeOK', live' \cap Apps = live \cap Apps
    PROVE  AgentsOnly
<1>1. \A d \in S : call[d] \in AgentCall /\ call'[d] \in AgentCall
  BY Lates DEF AgentCall
<1>2. call[c] \in AgentCall /\ call'[c] \in AgentCall
  BY Lates DEF AgentCall
<1>3. QED
  BY <1>1, <1>2, Lates DEF AgentsOnly

\* The steps that create a default agent.
LEMMA SeedTypes ==
    ASSUME TypeOK, NEW c \in Calls, Seed(c)
    PROVE  AgentsOnly
<1> USE DEF registry, tokens, promises
<1>1. CASE FindDefault(c)
  <2> DEFINE r == [at |-> "seed", id |-> Default, seen |-> {}, late |-> FALSE]
  <2>1. r \in Update
    BY RegistryAssumption DEF Update
  <2>2. r \in AnyCall /\ r \in AgentCall
    BY <2>1 DEF AnyCall, AgentCall
  <2>3. Begin(c, r)
    BY <1>1 DEF FindDefault
  <2>4. call[c] \in AgentCall
    BY <2>3 DEF Begin, AgentCall
  <2>5. RegistryTypeOK' /\ live' = live
    BY <1>1 DEF FindDefault, TypeOK, RegistryTypeOK
  <2>6. QED
    BY <2>2, <2>3, <2>4, <2>5, Begins, OneAgentCall
<1>2. CASE SeedRow(c)
  <2>1. call[c] \in Update
    BY <1>2, Kinds DEF SeedRow, At, UpdatePlaces
  <2>2. CASE Named("default") # {}
    <3>1. RegistryTypeOK' /\ live' = live /\ End(c)
      BY <1>2, <2>2 DEF SeedRow, TypeOK, RegistryTypeOK
    <3>2. call[c] \in AgentCall /\ Idle \in AgentCall
      BY <2>1 DEF AgentCall
    <3>3. QED
      BY <3>1, <3>2, Ends, OneAgentCall
  <2>3. CASE Named("default") = {}
    <3> DEFINE a == [NewAgent("default", "all") EXCEPT !.isDefault = TRUE]
    <3>1. a \in Agent
      BY DEF NewAgent, Agent, Modes
    <3>2. row' \in [Ids -> Agent \cup {None, Gone}]
      <4>1. PICK i \in Ids : row' = [row EXCEPT ![i] = a]
        BY <1>2, <2>3 DEF SeedRow
      <4>2. row \in [Ids -> Agent \cup {None, Gone}]
        BY DEF TypeOK, RegistryTypeOK
      <4> HIDE DEF a
      <4>3. QED
        BY <3>1, <4>1, <4>2
    <3>3. raced' \subseteq {"two", "none"}
      BY <1>2, <2>3 DEF SeedRow
    <3>4. RegistryTypeOK' /\ live' = live
      BY <1>2, <3>2, <3>3 DEF SeedRow, TypeOK, RegistryTypeOK
    <3> DEFINE S == {d \in Calls : At(d, "clear")}
    <3>5. \A d \in S : call[d] \in Update
      BY Kinds DEF At, UpdatePlaces
    <3>6. call' = [d \in Calls |-> IF d = c THEN Idle
                     ELSE IF d \in S THEN [call[d] EXCEPT !.late = TRUE] ELSE call[d]]
      BY <1>2, <2>3 DEF SeedRow
    <3> HIDE DEF S
    <3>7. QED
      BY <2>1, <3>4, <3>5, <3>6, LatesOnly DEF S
  <2>4. QED
    BY <2>2, <2>3
<1>3. QED
  BY <1>1, <1>2 DEF Seed

\* What an administrator decides is well typed.
LEMMA DecidedTypes ==
    ASSUME TypeOK, NEW i \in Ids, NEW agent \in Agent, NEW things \in SUBSET Things,
           Decided(i, agent, things)
    PROVE  /\ row' \in [Ids -> Agent \cup {None, Gone}]
           /\ cap' \in [Ids -> SUBSET Rights] /\ owed' \in [Ids -> SUBSET Things]
           /\ mixed' \subseteq Ids
<1>1. Access(agent) \in SUBSET Rights
  BY DEF Access
<1>2. QED
  BY <1>1 DEF Decided, TypeOK, RegistryTypeOK

\* The grants of one kind are replaced by these things, and the agent is what it
\* was but for them and for its session policies.
Replacing(i, kind, things, agent) ==
    /\ things \subseteq kind
    /\ Decided(i, agent, (owed[i] \ kind) \cup things)
    /\ agent.grants = (row[i].grants \ kind) \cup things
    /\ agent.identifier = row[i].identifier /\ agent.mode = row[i].mode
    /\ agent.isDefault = row[i].isDefault
    /\ agent.token = row[i].token /\ agent.did = row[i].did

LEMMA Replaced ==
    ASSUME TypeOK, NEW c \in Calls, call[c].id \in Ids, Exists(call[c].id), ReplaceGrants(c)
    PROVE  \E kind \in {Secrets, Apps}, things \in SUBSET live, agent \in Agent :
             Replacing(call[c].id, kind, things, agent)
<1> DEFINE i == call[c].id
<1>1. PICK kind \in {Secrets, Apps}, things \in SUBSET live, limits \in SUBSET Apps :
        /\ things \subseteq kind
        /\ Decided(i, [row[i] EXCEPT !.grants = (row[i].grants \ kind) \cup things,
                                     !.limits = (row[i].limits \ kind) \cup limits],
                   (owed[i] \ kind) \cup things)
  BY DEF ReplaceGrants
<1> DEFINE G == (row[i].grants \ kind) \cup things
           L == (row[i].limits \ kind) \cup limits
           x == [row[i] EXCEPT !.grants = G, !.limits = L]
<1>2. row[i] \in Agent /\ live \subseteq Things
  BY RowFields DEF TypeOK, RegistryTypeOK
<1>3. row[i].grants \subseteq Things /\ row[i].limits \subseteq Apps
  BY <1>2 DEF Agent
<1>4. G \in SUBSET Things /\ L \in SUBSET Apps
  BY <1>2, <1>3
<1>5. Decided(i, x, (owed[i] \ kind) \cup things)
  BY <1>1
<1> HIDE DEF G, L
<1>6. /\ x \in Agent /\ x.grants = G /\ x.identifier = row[i].identifier
      /\ x.mode = row[i].mode /\ x.isDefault = row[i].isDefault
      /\ x.token = row[i].token /\ x.did = row[i].did
  BY <1>2, <1>4 DEF Agent
<1> HIDE DEF x
<1>7. Replacing(i, kind, things, x)
  BY <1>1, <1>5, <1>6 DEF G, Replacing
<1>8. QED
  BY <1>6, <1>7

\* The steps that write to the agent that was found.
LEMMA WriteTypes ==
    ASSUME TypeOK, NEW c \in Calls, Write(c)
    PROVE  AgentsOnly /\ call[c] \in Update
<1> USE DEF registry, tokens, promises
<1> DEFINE i == call[c].id
<1>1. call[c] \in Update
  BY Kinds DEF Write, SeeDefaults, CommitDefault, DeleteRow, WriteToken, WriteRevoked,
               WriteMode, ReplaceGrants, At, UpdatePlaces
<1>2. i \in Ids
  BY <1>1 DEF Update
<1>3. call[c] \in AgentCall /\ Idle \in AgentCall
  BY <1>1 DEF AgentCall
<1>4. ASSUME RegistryTypeOK', live' = live, End(c)
      PROVE  AgentsOnly
  BY <1>3, <1>4, Ends, OneAgentCall
<1>5. CASE SeeDefaults(c)
  <2> DEFINE r == [call[c] EXCEPT !.at = "clear", !.seen = Defaults]
  <2>1. r \in Update
    BY <1>1 DEF Update, Defaults
  <2>2. call' = [call EXCEPT ![c] = r]
    BY <1>5 DEF SeeDefaults
  <2>3. /\ call' \in [Calls -> AnyCall] /\ call'[c] \in AgentCall
        /\ \A d \in Calls \ {c} : call'[d] = call[d]
    BY <2>1, <2>2 DEF TypeOK, AnyCall, AgentCall
  <2>4. RegistryTypeOK' /\ live' = live
    BY <1>5 DEF SeeDefaults, TypeOK, RegistryTypeOK
  <2>5. QED
    BY <1>1, <1>3, <2>3, <2>4, OneAgentCall
<1>6. CASE CommitDefault(c)
  <2>1. CASE Exists(i)
    <3>1. ASSUME NEW j \in Ids
          PROVE  /\ row[j] \in Agent \cup {None, Gone}
                 /\ [row[i] EXCEPT !.isDefault = TRUE] \in Agent
                 /\ Exists(j) => [row[j] EXCEPT !.isDefault = FALSE] \in Agent
      BY <1>2, <2>1, RowFields DEF TypeOK, RegistryTypeOK
    <3>2. row' \in [Ids -> Agent \cup {None, Gone}]
      BY <1>6, <2>1, <3>1 DEF CommitDefault
    <3>3. RegistryTypeOK' /\ live' = live
      BY <1>6, <2>1, <3>2 DEF CommitDefault, TypeOK, RegistryTypeOK
    <3>4. \A d \in Outdates(c) : call[d] \in Update
      BY Kinds DEF Outdates, At, UpdatePlaces
    <3>5. Outdates(c) \in SUBSET Calls
      BY DEF Outdates
    <3>6. call' = [d \in Calls |-> IF d = c THEN Idle
                     ELSE IF d \in Outdates(c) THEN [call[d] EXCEPT !.late = TRUE] ELSE call[d]]
      BY <1>6, <2>1 DEF CommitDefault
    <3>7. QED
      BY <1>1, <3>3, <3>4, <3>5, <3>6, LatesOnly
  <2>2. CASE ~Exists(i)
    BY <1>1, <1>4, <1>6, <2>2 DEF CommitDefault, TypeOK, RegistryTypeOK
  <2>3. QED
    BY <2>1, <2>2
<1>7. CASE DeleteRow(c)
  BY <1>1, <1>2, <1>4, <1>7 DEF DeleteRow, TypeOK, RegistryTypeOK
<1>8. CASE WriteToken(c)
  <2>1. row' \in [Ids -> Agent \cup {None, Gone}]
    BY <1>2, <1>8, RowFields DEF WriteToken, TypeOK, RegistryTypeOK
  <2>2. QED
    BY <1>1, <1>2, <1>4, <1>8, <2>1 DEF WriteToken, TypeOK, RegistryTypeOK
<1>9. CASE WriteRevoked(c)
  <2>1. CASE Exists(i) /\ stamped \subseteq {i}
    <3>1. row' = [row EXCEPT ![i] = [row[i] EXCEPT !.token = "revoked"]]
      BY <1>9, <2>1 DEF WriteRevoked
    <3>2. row' \in [Ids -> Agent \cup {None, Gone}]
      BY <1>2, <2>1, <3>1, RowFields DEF TypeOK, RegistryTypeOK
    <3>3. RegistryTypeOK' /\ live' = live
      BY <1>2, <1>9, <2>1, <3>2 DEF WriteRevoked, Killed, TypeOK, RegistryTypeOK
    <3>4. \A d \in Renewing(i) : call[d] \in Update
      BY Kinds DEF Renewing, At, UpdatePlaces
    <3>5. Renewing(i) \in SUBSET Calls
      BY DEF Renewing
    <3>6. call' = [d \in Calls |-> IF d = c THEN Idle
                     ELSE IF d \in Renewing(i) THEN [call[d] EXCEPT !.late = TRUE] ELSE call[d]]
      BY <1>9, <2>1 DEF WriteRevoked, Killed
    <3>7. QED
      BY <1>1, <3>3, <3>4, <3>5, <3>6, LatesOnly
  <2>2. CASE ~(Exists(i) /\ stamped \subseteq {i})
    BY <1>1, <1>4, <1>9, <2>2 DEF WriteRevoked, TypeOK, RegistryTypeOK
  <2>3. QED
    BY <2>1, <2>2
<1>10. CASE WriteMode(c)
  <2>1. CASE Exists(i)
    <3>1. PICK m \in Modes : Decided(i, [row[i] EXCEPT !.mode = m], owed[i])
      BY <1>10, <2>1 DEF WriteMode
    <3>2. owed[i] \in SUBSET Things
      BY <1>2 DEF TypeOK, RegistryTypeOK
    <3>3. /\ row' \in [Ids -> Agent \cup {None, Gone}]
          /\ cap' \in [Ids -> SUBSET Rights] /\ owed' \in [Ids -> SUBSET Things]
          /\ mixed' \subseteq Ids
      BY <1>2, <2>1, <3>1, <3>2, RowFields, DecidedTypes
    <3>4. QED
      BY <1>1, <1>4, <1>10, <3>3 DEF WriteMode, TypeOK, RegistryTypeOK
  <2>2. CASE ~Exists(i)
    BY <1>1, <1>4, <1>10, <2>2 DEF WriteMode, TypeOK, RegistryTypeOK
  <2>3. QED
    BY <2>1, <2>2
<1>11. CASE ReplaceGrants(c)
  <2>1. CASE Exists(i)
    <3>1. PICK kind \in {Secrets, Apps}, things \in SUBSET live, agent \in Agent :
            Replacing(i, kind, things, agent)
      BY <1>2, <1>11, <2>1, Replaced
    <3>2. /\ Decided(i, agent, (owed[i] \ kind) \cup things)
          /\ (owed[i] \ kind) \cup things \in SUBSET Things
      BY <1>2, <3>1 DEF Replacing, TypeOK, RegistryTypeOK
    <3>3. /\ row' \in [Ids -> Agent \cup {None, Gone}]
          /\ cap' \in [Ids -> SUBSET Rights] /\ owed' \in [Ids -> SUBSET Things]
          /\ mixed' \subseteq Ids
      BY <1>2, <3>2, DecidedTypes
    <3>4. QED
      BY <1>1, <1>4, <1>11, <3>3 DEF ReplaceGrants, TypeOK, RegistryTypeOK
  <2>2. CASE ~Exists(i)
    BY <1>1, <1>4, <1>11, <2>2 DEF ReplaceGrants, TypeOK, RegistryTypeOK
  <2>3. QED
    BY <2>1, <2>2
<1>12. QED
  BY <1>1, <1>5, <1>6, <1>7, <1>8, <1>9, <1>10, <1>11 DEF Write

\* What an agent's row keeps when things are taken from it.
Lost(i, things) ==
    /\ row'[i].mode = row[i].mode /\ row'[i].isDefault = row[i].isDefault
    /\ row'[i].token = row[i].token /\ row'[i].did = row[i].did
    /\ row'[i].grants = row[i].grants \ things
    /\ Access(row'[i]) \subseteq Access(row[i])

\* Deleting things takes them from the agents.
LEMMA ForgetTypes ==
    ASSUME TypeOK, NEW things, Forget(things)
    PROVE  /\ row' \in [Ids -> Agent \cup {None, Gone}]
           /\ owed' \in [Ids -> SUBSET Things] /\ live' \subseteq Things
           /\ \A i \in Ids : /\ Exists(i) <=> Exists(i)'
                             /\ row[i] = None <=> row'[i] = None
                             /\ row[i].identifier = row'[i].identifier
                             /\ ~Exists(i) => row'[i] = row[i]
                             /\ Exists(i) => Lost(i, things)
<1>1. ASSUME NEW i \in Ids
      PROVE  /\ row'[i] \in Agent \cup {None, Gone}
             /\ Exists(i) <=> Exists(i)'
             /\ row[i] = None <=> row'[i] = None
             /\ row[i].identifier = row'[i].identifier
             /\ ~Exists(i) => row'[i] = row[i]
             /\ Exists(i) => Lost(i, things)
  <2>1. CASE ~Exists(i)
    <3>1. row'[i] = row[i]
      BY <2>1 DEF Forget
    <3>2. row[i] \in Agent \cup {None, Gone}
      BY DEF TypeOK, RegistryTypeOK
    <3>3. QED
      BY <2>1, <3>1, <3>2 DEF Exists
  <2>2. CASE Exists(i)
    <3>1. row'[i] = [row[i] EXCEPT !.grants = @ \ things, !.limits = @ \ things]
      BY <2>2 DEF Forget
    <3>2. row[i] \in Agent
      BY <2>2, RowFields
    <3>3. /\ row'[i] \in Agent /\ row'[i].identifier = row[i].identifier
          /\ row'[i].mode = row[i].mode /\ row'[i].isDefault = row[i].isDefault
          /\ row'[i].token = row[i].token /\ row'[i].did = row[i].did
          /\ row'[i].grants = row[i].grants \ things
          /\ row'[i].limits = row[i].limits \ things
      BY <3>1, <3>2 DEF Agent
    <3>4. Lost(i, things)
      BY <3>3 DEF Lost, Access
    <3>5. None \notin Agent /\ Gone \notin Agent
      BY DEF None, Gone, Agent
    <3>6. QED
      BY <2>2, <3>3, <3>4, <3>5 DEF Exists
  <2>3. QED
    BY <2>1, <2>2
<1>2. row' \in [Ids -> Agent \cup {None, Gone}]
  BY <1>1 DEF Forget
<1>3. owed' \in [Ids -> SUBSET Things] /\ live' \subseteq Things
  BY DEF Forget, TypeOK, RegistryTypeOK
<1>4. QED
  BY <1>1, <1>2, <1>3

\* No step of the agents' calls touches the calls that connect apps.
LEMMA RegistryTypes ==
    ASSUME TypeOK, RegistryNext
    PROVE  AgentsOnly
<1> USE DEF tokens, promises
<1>1. ASSUME NEW c \in Calls, FailAgentCall(c)
      PROVE  AgentsOnly
  <2>1. call[c] \in AgentCall /\ Idle \in AgentCall
    BY <1>1 DEF FailAgentCall, AgentCall
  <2>2. RegistryTypeOK' /\ live' = live /\ End(c)
    BY <1>1 DEF FailAgentCall, TypeOK, RegistryTypeOK
  <2>3. QED
    BY <2>1, <2>2, Ends, OneAgentCall
<1>2. ASSUME NEW t \in Secrets, deleteSecret(t)
      PROVE  AgentsOnly
  <2>1. RegistryTypeOK' /\ call' = call
    BY <1>2, ForgetTypes DEF deleteSecret, TypeOK, RegistryTypeOK
  <2>2. live' \cap Apps = live \cap Apps
    BY <1>2, RegistryAssumption DEF deleteSecret, Forget
  <2>3. QED
    BY <2>1, <2>2 DEF AgentsOnly, TypeOK, AnyCall
<1>3. CASE NextMillisecond
  BY <1>3 DEF NextMillisecond, AgentsOnly, TypeOK, RegistryTypeOK, AnyCall
<1>4. QED
  BY <1>1, <1>2, <1>3, CreateTypes, SeedTypes, WriteTypes, FindTypes DEF RegistryNext

-----------------------------------------------------------------------------
(* Types, of the calls that connect apps                                    *)

\* Apps that are or were connected.
Known == {i \in Apps : conn[i] # None}

AppStep ==
    \/ \E c \in Calls :
         \/ Start(c) \/ Connect(c) \/ Fail(c)
         \/ DeleteConnection(c) \/ CountRemaining(c) \/ ClearRules(c)
         \/ FindRule(c) \/ EnableRule(c) \/ CreateRule(c)
         \/ disconnectIfConnected(c) \/ UpsertConfig(c) \/ ToggleConfig(c)
    \/ \E r \in RuleIds : ToggleRule(r) \/ RemoveRule(r)

AppCall == {Idle} \cup ConnectCall \cup DisconnectCall \cup BlockCall \cup ConfigCall

\* What these steps leave of the agents and of their calls.
AppsOnly ==
    /\ UNCHANGED <<ops, raced, tokens, cap, mixed, broken>>
    /\ \A d \in Calls : call[d] \in Create \cup Update => call'[d] = call[d]
    /\ \A d \in Calls : call'[d] \in Create \cup Update => call'[d] = call[d]
    /\ Known \subseteq Known'
    /\ \/ UNCHANGED <<row, owed>> /\ live \subseteq live' /\ live' \ live \subseteq Apps \ Known
       \/ \E things \in SUBSET Apps : Forget(things)

\* A row of a table is told from none.
LEMMA Rows ==
    /\ None # Gone
    /\ None \notin Agent /\ Gone \notin Agent
    /\ None \notin Connection /\ Gone \notin Connection
    /\ None \notin Rule /\ Gone \notin Rule
  BY DEF None, Gone, Agent, Connection, Rule

\* One of these calls makes a step.
OneCall(c) ==
    /\ call[c] \in AppCall /\ call'[c] \in AppCall
    /\ call' \in [Calls -> AnyCall]
    /\ \A d \in Calls \ {c} : call'[d] = call[d]

\* None of them is a call of the agents.
LEMMA AppCalls ==
    ASSUME NEW r \in AppCall
    PROVE  r \notin Create \cup Update /\ r \in AnyCall
<1>1. r.at \notin CreatePlaces \cup UpdatePlaces
  BY DEF AppCall, Idle, ConnectCall, DisconnectCall, BlockCall, ConfigCall, CreatePlaces, UpdatePlaces
<1>2. \A s \in Create \cup Update : s.at \in CreatePlaces \cup UpdatePlaces
  BY DEF Create, Update, CreatePlaces, UpdatePlaces
<1>3. QED
  BY <1>1, <1>2 DEF AppCall, AnyCall, AgentCall

\* What is left to show of a step that writes no row of an agent.
LEMMA NoAgentStep ==
    ASSUME TypeOK, NEW c \in Calls, OneCall(c),
           UNCHANGED <<row, ops, raced, tokens, promises>>,
           \/ UNCHANGED <<live, conn>>
           \/ \E i \in Apps, x \in Connection :
                /\ conn' = [conn EXCEPT ![i] = x] /\ live' = live \cup {i}
                /\ i \in live \/ conn[i] = None
    PROVE  AppsOnly
<1>1. /\ \A d \in Calls : call[d] \in Create \cup Update => call'[d] = call[d]
      /\ \A d \in Calls : call'[d] \in Create \cup Update => call'[d] = call[d]
  BY AppCalls DEF OneCall
<1>2. Known \subseteq Known' /\ live \subseteq live' /\ live' \ live \subseteq Apps \ Known
  <2>1. CASE UNCHANGED <<live, conn>>
    BY <2>1 DEF Known
  <2>2. ASSUME NEW i \in Apps, NEW x \in Connection, conn' = [conn EXCEPT ![i] = x],
               live' = live \cup {i}, i \in live \/ conn[i] = None
        PROVE  Known \subseteq Known' /\ live \subseteq live' /\ live' \ live \subseteq Apps \ Known
    BY <2>2, Rows DEF Known, TypeOK
  <2>3. QED
    BY <2>1, <2>2
<1>3. QED
  BY <1>1, <1>2 DEF AppsOnly, promises

\* A step of one call that touches no table.
LEMMA OnlyCalls ==
    ASSUME TypeOK, NEW c \in Calls, OneCall(c), UNCHANGED <<registry, app>>
    PROVE  TypeOK' /\ AppsOnly
<1>1. TypeOK'
  BY DEF TypeOK, RegistryTypeOK, OneCall, AnyCall, registry, app, tokens, promises, rules,
         settings, Connections, Hosts
<1>2. QED
  BY <1>1, NoAgentStep DEF registry, app

\* Where such a call can go by a change of its place.
LEMMA AppGoes ==
    ASSUME TypeOK, NEW c \in Calls, NEW at, Go(c, at),
           \/ call[c] \in ConnectCall /\ at \in ConnectPlaces
           \/ call[c] \in DisconnectCall /\ at \in DisconnectPlaces
           \/ call[c] \in BlockCall /\ at \in BlockPlaces
           \/ call[c] \in ConfigCall /\ at \in ConfigPlaces
    PROVE  OneCall(c) /\ call'[c] = [call[c] EXCEPT !.at = at] /\ call'[c].at = at
<1>1. [call[c] EXCEPT !.at = at] \in AppCall
  <2> USE DEF AppCall
  <2>1. CASE call[c] \in ConnectCall /\ at \in ConnectPlaces
    BY <2>1 DEF ConnectCall, ConnectPlaces
  <2>2. CASE call[c] \in DisconnectCall /\ at \in DisconnectPlaces
    BY <2>2 DEF DisconnectCall, DisconnectPlaces
  <2>3. CASE call[c] \in BlockCall /\ at \in BlockPlaces
    BY <2>3 DEF BlockCall, BlockPlaces
  <2>4. CASE call[c] \in ConfigCall /\ at \in ConfigPlaces
    BY <2>4 DEF ConfigCall, ConfigPlaces
  <2>5. QED
    BY <2>1, <2>2, <2>3, <2>4
<1>2. QED
  BY <1>1, Goes DEF OneCall, AppCall

\* ... how it ends, ...
LEMMA AppEnds ==
    ASSUME TypeOK, NEW c \in Calls, call[c] \in AppCall, End(c)
    PROVE  OneCall(c) /\ call'[c] = Idle
  BY Ends DEF OneCall, AppCall

\* ... begins, ...
LEMMA AppBegins ==
    ASSUME TypeOK, NEW c \in Calls, NEW r \in AppCall, Begin(c, r)
    PROVE  OneCall(c) /\ At(c, "idle") /\ call'[c] = r
<1>1. r \in AnyCall
  BY AppCalls
<1>2. call[c] \in AppCall
  BY DEF Begin, AppCall
<1>3. QED
  BY <1>1, <1>2, Begins DEF OneCall

\* ... and otherwise changes.
LEMMA AppMoves ==
    ASSUME TypeOK, NEW c \in Calls, call[c] \in AppCall, NEW r \in AppCall,
           call' = [call EXCEPT ![c] = r]
    PROVE  OneCall(c) /\ call'[c] = r
<1>1. r \in AnyCall
  BY AppCalls
<1>2. QED
  BY <1>1 DEF OneCall, TypeOK, AnyCall

\* The places of these calls.
LEMMA AppKinds ==
    ASSUME TypeOK, NEW c \in Calls
    PROVE  /\ call[c].at \in ConnectPlaces => call[c] \in ConnectCall /\ call[c] \in AppCall
           /\ call[c].at \in DisconnectPlaces => call[c] \in DisconnectCall /\ call[c] \in AppCall
           /\ call[c].at \in BlockPlaces => call[c] \in BlockCall /\ call[c] \in AppCall
           /\ call[c].at \in ConfigPlaces => call[c] \in ConfigCall /\ call[c] \in AppCall
           /\ call[c] \notin AgentCall => call[c] \in AppCall
  BY Kinds DEF AppCall, AnyCall

\* An insert makes a row of an id that had none.
LEMMA FreshIds ==
    /\ \A i \in Fresh(conn) : i \in DOMAIN conn /\ conn[i] = None
    /\ \A i \in Fresh(rule) : i \in DOMAIN rule /\ rule[i] = None
<1>1. ASSUME NEW table, NEW i \in Fresh(table)
      PROVE  i \in DOMAIN table /\ table[i] = None
  <2> DEFINE unused == {j \in DOMAIN table : table[j] = None}
  <2>1. unused # {} /\ i = CHOOSE j \in unused : TRUE
    BY DEF Fresh
  <2>2. (CHOOSE j \in unused : TRUE) \in unused
    BY <2>1
  <2>3. QED
    BY <2>1, <2>2
<1>2. QED
  BY <1>1

\* The calls that begin.
LEMMA StartTypes ==
    ASSUME TypeOK, NEW c \in Calls, Start(c)
    PROVE  /\ TypeOK' /\ AppsOnly /\ OneCall(c) /\ At(c, "idle")
           /\ UNCHANGED <<conn, rules, foreign, row, method, clients>>
           /\ \/ call'[c].at \in {"resolve", "list", "remove"} /\ UNCHANGED config
              \/ call'[c].at = "find" /\ call'[c].host \in Hosts \cup Custom /\ UNCHANGED config
              \/ call'[c].at = "disconnect" /\ (call'[c].to = "end" \/ UNCHANGED config)
<1>1. ASSUME NEW label \in Labels, NEW id \in Connections \cup {NoId}, NEW client \in 0..MaxClient,
             StartConnect(c, label, id, client)
      PROVE  /\ TypeOK' /\ AppsOnly /\ OneCall(c) /\ At(c, "idle")
             /\ UNCHANGED <<registry, app>> /\ call'[c].at \in {"resolve", "list"}
  <2> DEFINE r == [at |-> IF method = "oauth" THEN "resolve" ELSE "list", label |-> label,
                   client |-> client, conn |-> id, hosts |-> {}]
  <2>1. r \in AppCall
    BY DEF AppCall, ConnectCall, Connections
  <2>2. Begin(c, r) /\ UNCHANGED <<registry, app>>
    BY <1>1 DEF StartConnect
  <2>3. r.at \in {"resolve", "list"}
    OBVIOUS
  <2> HIDE DEF r
  <2>4. QED
    BY <2>1, <2>2, <2>3, AppBegins, OnlyCalls
<1>2. ASSUME NEW i \in Apps, StartDisconnect(c, i)
      PROVE  /\ TypeOK' /\ AppsOnly /\ OneCall(c) /\ At(c, "idle")
             /\ UNCHANGED <<registry, app>> /\ call'[c].at = "remove"
  <2> DEFINE r == [at |-> "remove", conn |-> i, left |-> {}]
  <2>1. r \in AppCall /\ r.at = "remove"
    BY DEF AppCall, DisconnectCall
  <2>2. Begin(c, r) /\ UNCHANGED <<registry, app>>
    BY <1>2 DEF StartDisconnect
  <2> HIDE DEF r
  <2>3. QED
    BY <2>1, <2>2, AppBegins, OnlyCalls
<1>3. ASSUME NEW host \in Hosts \cup Custom, StartBlock(c, host)
      PROVE  /\ TypeOK' /\ AppsOnly /\ OneCall(c) /\ At(c, "idle")
             /\ UNCHANGED <<registry, app>> /\ call'[c].at = "find" /\ call'[c].host = host
  <2> DEFINE r == [at |-> "find", host |-> host, rule |-> NoId]
  <2>1. r \in AppCall /\ r.at = "find" /\ r.host = host
    BY DEF AppCall, BlockCall, Hosts
  <2>2. Begin(c, r) /\ UNCHANGED <<registry, app>>
    BY <1>3 DEF StartBlock
  <2> HIDE DEF r
  <2>3. QED
    BY <2>1, <2>2, AppBegins, OnlyCalls
<1>4. ASSUME NEW to \in {"upsert", "toggle"}, StartConfig(c, to)
      PROVE  /\ TypeOK' /\ AppsOnly /\ OneCall(c) /\ At(c, "idle")
             /\ UNCHANGED <<registry, app>> /\ call'[c].at = "disconnect"
  <2> DEFINE r == [at |-> "disconnect", to |-> to]
  <2>1. r \in AppCall /\ r.at = "disconnect"
    BY DEF AppCall, ConfigCall
  <2>2. Begin(c, r) /\ UNCHANGED <<registry, app>>
    BY <1>4 DEF StartConfig
  <2> HIDE DEF r
  <2>3. QED
    BY <2>1, <2>2, AppBegins, OnlyCalls
<1>5. CASE deleteAppConfig(c)
  <2> DEFINE r == [at |-> "disconnect", to |-> "end"]
  <2>1. r \in AppCall /\ r.at = "disconnect" /\ r.to = "end"
    BY DEF AppCall, ConfigCall
  <2>2. Begin(c, r)
    BY <1>5 DEF deleteAppConfig
  <2> HIDE DEF r
  <2>3. OneCall(c) /\ At(c, "idle") /\ call'[c] = r
    BY <2>1, <2>2, AppBegins
  <2>4. config' \in [client : 0..MaxClient, enabled : BOOLEAN]
    BY <1>5, AppAssumption DEF deleteAppConfig, EnvClient
  <2>5. TypeOK'
    BY <1>5, <2>3, <2>4 DEF deleteAppConfig, TypeOK, RegistryTypeOK, OneCall, AnyCall, registry,
         tokens, promises, rules, Connections, Hosts
  <2>6. AppsOnly
    BY <1>5, <2>3, NoAgentStep DEF deleteAppConfig, registry
  <2>7. QED
    BY <1>5, <2>1, <2>3, <2>5, <2>6 DEF deleteAppConfig, registry
<1>6. QED
  BY <1>1, <1>2, <1>3, <1>4, <1>5 DEF Start, registry, app, settings

\* Storing a connection changes that row, and makes the connection one to grant.
LEMMA StoreTypes ==
    ASSUME TypeOK, NEW i \in Apps, NEW label \in Labels, NEW client \in 0..MaxClient,
           conn' = [conn EXCEPT ![i] = [label |-> label, client |-> client]],
           live' = live \cup {i}, conn[i] = None \/ i \in Connections
    PROVE  /\ conn' \in [Apps -> Connection \cup {None, Gone}]
           /\ Connections' = Connections \cup {i}
           /\ live' \cap Apps = Connections' /\ live' \subseteq Things
           /\ i \in live \/ conn[i] = None
<1>1. [label |-> label, client |-> client] \in Connection
  BY DEF Connection
<1>2. conn' \in [Apps -> Connection \cup {None, Gone}] /\ conn'[i] \in Connection
  BY <1>1 DEF TypeOK
<1>3. conn'[i] \notin {None, Gone}
  BY <1>2, Rows
<1>4. \A j \in Apps \ {i} : conn'[j] = conn[j]
  BY DEF TypeOK
<1>5. Connections' = Connections \cup {i}
  BY <1>3, <1>4 DEF Connections
<1>6. live \subseteq Things /\ live \cap Apps = Connections
  BY DEF TypeOK, RegistryTypeOK
<1>7. QED
  BY <1>2, <1>3, <1>5, <1>6 DEF Things

\* Where the call that stores connection i goes.
Stored(c, i) ==
    \/ method = "import" /\ call'[c].at = "save" /\ call'[c].conn = i
    \/ Hosts # {} /\ call'[c].at = "rules"
    \/ method # "import" /\ Hosts = {} /\ call'[c] = Idle

\* What WriteConnection writes, and where its call goes.
LEMMA WriteConnectionTypes ==
    ASSUME TypeOK, NEW c \in Calls, WriteConnection(c)
    PROVE  /\ TypeOK' /\ AppsOnly /\ OneCall(c) /\ call[c] \in ConnectCall
           /\ UNCHANGED <<row, rules, settings>>
           /\ \/ call'[c] = Idle /\ UNCHANGED <<conn, foreign>>
              \/ \E i \in Apps :
                   /\ conn' = [conn EXCEPT ![i] = [label |-> call[c].label, client |-> call[c].client]]
                   /\ Connections' = Connections \cup {i}
                   /\ foreign' = IF Changing \/ (method # "import" /\ call[c].client # Client)
                                   THEN foreign \cup {i} ELSE foreign \ {i}
                   /\ Stored(c, i)
<1> USE DEF tokens, promises
<1> DEFINE Store(i) ==
             /\ conn' = [conn EXCEPT ![i] = [label |-> call[c].label, client |-> call[c].client]]
             /\ live' = live \cup {i}
             /\ foreign' = IF Changing \/ (method # "import" /\ call[c].client # Client)
                             THEN foreign \cup {i} ELSE foreign \ {i}
             /\ \/ method = "import" /\ call' = [call EXCEPT ![c].at = "save", ![c].conn = i]
                \/ Hosts # {} /\ Go(c, "rules")
                \/ method # "import" /\ Hosts = {} /\ End(c)
<1>1. call[c] \in ConnectCall /\ call[c] \in AppCall
  BY AppKinds DEF WriteConnection, At, ConnectPlaces
<1>2. call[c].label \in Labels /\ call[c].client \in 0..MaxClient
  BY <1>1 DEF ConnectCall
<1>3. UNCHANGED <<row, ops, raced, tokens, promises, rules, settings>>
  BY DEF WriteConnection
<1>4. CASE End(c) /\ UNCHANGED <<conn, live, foreign>>
  <2>1. OneCall(c) /\ call'[c] = Idle
    BY <1>1, <1>4, AppEnds
  <2>2. UNCHANGED <<registry, app>>
    BY <1>3, <1>4 DEF registry, app
  <2>3. QED
    BY <1>1, <1>3, <1>4, <2>1, <2>2, OnlyCalls
<1>5. ASSUME NEW i \in Apps, conn[i] = None \/ i \in Connections, Store(i)
      PROVE  /\ TypeOK' /\ AppsOnly /\ OneCall(c) /\ Connections' = Connections \cup {i}
             /\ Stored(c, i)
  <2>1. OneCall(c) /\ Stored(c, i)
    <3>1. CASE method = "import" /\ call' = [call EXCEPT ![c].at = "save", ![c].conn = i]
      <4> DEFINE r == [call[c] EXCEPT !.at = "save", !.conn = i]
      <4>1. r \in AppCall /\ r.at = "save" /\ r.conn = i
        BY <1>1 DEF AppCall, ConnectCall
      <4>2. call' = [call EXCEPT ![c] = r]
        BY <3>1
      <4> HIDE DEF r
      <4>3. OneCall(c) /\ call'[c] = r
        BY <1>1, <4>1, <4>2, AppMoves
      <4>4. QED
        BY <3>1, <4>1, <4>3 DEF Stored
    <3>2. CASE Hosts # {} /\ Go(c, "rules")
      BY <1>1, <3>2, AppGoes DEF ConnectPlaces, Stored
    <3>3. CASE method # "import" /\ Hosts = {} /\ End(c)
      BY <1>1, <3>3, AppEnds DEF Stored
    <3>4. QED
      BY <1>5, <3>1, <3>2, <3>3
  <2>2. /\ conn' \in [Apps -> Connection \cup {None, Gone}]
        /\ Connections' = Connections \cup {i}
        /\ live' \cap Apps = Connections' /\ live' \subseteq Things
        /\ i \in live \/ conn[i] = None
    BY <1>2, <1>5, StoreTypes
  <2>3. foreign' \subseteq Apps
    BY <1>5 DEF TypeOK
  <2>4. TypeOK'
    BY <1>3, <2>1, <2>2, <2>3 DEF TypeOK, RegistryTypeOK, OneCall, AnyCall, rules, settings, Hosts
  <2>5. i \in live \/ conn[i] = None
    BY <1>5 DEF TypeOK
  <2>6. [label |-> call[c].label, client |-> call[c].client] \in Connection
    BY <1>2 DEF Connection
  <2>7. AppsOnly
    BY <1>3, <1>5, <2>1, <2>5, <2>6, NoAgentStep
  <2>8. QED
    BY <2>1, <2>2, <2>4, <2>7
<1>6. ASSUME NEW i \in Apps, conn[i] = None \/ i \in Connections, Store(i)
      PROVE  /\ TypeOK' /\ AppsOnly /\ OneCall(c)
             /\ \E j \in Apps :
                  /\ conn' = [conn EXCEPT ![j] = [label |-> call[c].label, client |-> call[c].client]]
                  /\ Connections' = Connections \cup {j}
                  /\ foreign' = IF Changing \/ (method # "import" /\ call[c].client # Client)
                                  THEN foreign \cup {j} ELSE foreign \ {j}
                  /\ Stored(c, j)
  <2>1. /\ TypeOK' /\ AppsOnly /\ OneCall(c) /\ Connections' = Connections \cup {i}
        /\ Stored(c, i)
    BY <1>5, <1>6
  <2>2. QED
    BY <1>6, <2>1
<1>7. \/ \E i \in Fresh(conn) : Store(i)
      \/ call[c].conn \in Connections /\ Store(call[c].conn)
      \/ End(c) /\ UNCHANGED <<conn, live, foreign>>
  BY DEF WriteConnection
<1>8. /\ \A i \in Fresh(conn) : i \in Apps /\ conn[i] = None
      /\ Connections \subseteq Apps
  BY FreshIds DEF TypeOK, Connections
<1> HIDE DEF Store
<1>9. CASE \E i \in Apps : (conn[i] = None \/ i \in Connections) /\ Store(i)
  BY <1>1, <1>3, <1>6, <1>9
<1>10. QED
  BY <1>1, <1>3, <1>4, <1>7, <1>8, <1>9

\* The rules initBlocklistDefaults makes: one for each host, and no others.
LEMMA DefaultRules ==
    ASSUME TypeOK, NEW c \in Calls, CreateDefaults(c)
    PROVE  /\ \A r \in RuleIds : \/ rule'[r] = rule[r]
                                 \/ /\ rule[r] = None
                                    /\ \E h \in call[c].hosts :
                                         rule'[r] = [host |-> h, enabled |-> TRUE]
           /\ \A h \in call[c].hosts : \E r \in RuleIds :
                rule[r] = None /\ rule'[r] = [host |-> h, enabled |-> TRUE]
<1> DEFINE hosts == call[c].hosts
           new == CHOOSE n \in NewRules(hosts) : TRUE
<1>1. NewRules(hosts) # {}
  BY DEF CreateDefaults
<1>2. new \in NewRules(hosts)
  BY <1>1
<1>3. /\ new \in [hosts -> {r \in RuleIds : rule[r] = None}]
      /\ \A g, h \in hosts : new[g] = new[h] => g = h
  BY <1>2 DEF NewRules
<1>4. rule' = [r \in RuleIds |->
                 IF \E h \in hosts : new[h] = r
                   THEN [host |-> CHOOSE h \in hosts : new[h] = r, enabled |-> TRUE]
                   ELSE rule[r]]
  BY DEF CreateDefaults
<1> HIDE DEF new
<1>5. ASSUME NEW r \in RuleIds
      PROVE  \/ rule'[r] = rule[r]
             \/ rule[r] = None /\ \E h \in hosts : rule'[r] = [host |-> h, enabled |-> TRUE]
  <2>1. CASE \E h \in hosts : new[h] = r
    <3>1. (CHOOSE h \in hosts : new[h] = r) \in hosts
      BY <2>1
    <3>2. QED
      BY <1>3, <1>4, <2>1, <3>1
  <2>2. CASE ~\E h \in hosts : new[h] = r
    BY <1>4, <2>2
  <2>3. QED
    BY <2>1, <2>2
<1>6. ASSUME NEW h \in hosts
      PROVE  \E r \in RuleIds : rule[r] = None /\ rule'[r] = [host |-> h, enabled |-> TRUE]
  <2>1. new[h] \in RuleIds /\ rule[new[h]] = None
    BY <1>3
  <2>2. (CHOOSE g \in hosts : new[g] = new[h]) = h
    BY <1>3
  <2>3. rule'[new[h]] = [host |-> h, enabled |-> TRUE]
    BY <1>4, <2>1, <2>2
  <2>4. QED
    BY <2>1, <2>3
<1>7. QED
  BY <1>5, <1>6

\* What is left to show of such a call's step.
AppTypes(c) ==
    /\ TypeOK' /\ AppsOnly /\ OneCall(c) /\ Prepared(c)'
    /\ UNCHANGED method
    /\ \A r \in RuleIds : rule[r] # None => rule'[r] # None

\* A call that ends or is elsewhere has nothing to remember.
LEMMA Unprepared ==
    ASSUME NEW c \in Calls,
           call'[c].at \notin {"init", "unblock"} \cup BlockPlaces
    PROVE  Prepared(c)'
  BY DEF Prepared, At, BlockPlaces

\* The calls of one app that only read.
LEMMA ReadTypes ==
    ASSUME TypeOK, NEW c \in Calls, Prepared(c),
           \/ ResolveClient(c) \/ ExchangeCode(c) \/ ListConnections(c) \/ ListRules(c)
           \/ CountRemaining(c) \/ FindRule(c)
    PROVE  AppTypes(c) /\ UNCHANGED <<registry, app>>
<1>1. UNCHANGED <<registry, app>>
  BY DEF ResolveClient, ExchangeCode, ListConnections, ListRules, CountRemaining, FindRule
<1> SUFFICES AppTypes(c)
  BY <1>1
<1>2. ASSUME OneCall(c), Prepared(c)'
      PROVE  AppTypes(c)
  BY <1>1, <1>2, OnlyCalls DEF AppTypes, app, settings, rules
<1>3. ASSUME call[c] \in AppCall, End(c)
      PROVE  AppTypes(c)
  <2>1. OneCall(c) /\ call'[c].at = "idle"
    BY <1>3, AppEnds DEF Idle
  <2>2. QED
    BY <1>2, <2>1, Unprepared DEF BlockPlaces
<1>4. CASE ResolveClient(c)
  <2>1. call[c] \in ConnectCall /\ call[c] \in AppCall
    BY <1>4, AppKinds DEF ResolveClient, At, ConnectPlaces
  <2>2. CASE call' = [call EXCEPT ![c].at = "exchange", ![c].client = Client]
    <3> DEFINE r == [call[c] EXCEPT !.at = "exchange", !.client = Client]
    <3>1. Client \in 0..MaxClient
      BY AppAssumption DEF Client, EnvClient, TypeOK
    <3>2. r \in AppCall /\ r.at = "exchange"
      BY <2>1, <3>1 DEF AppCall, ConnectCall
    <3>3. call' = [call EXCEPT ![c] = r]
      BY <2>2
    <3> HIDE DEF r
    <3>4. OneCall(c) /\ call'[c].at = "exchange"
      BY <2>1, <3>2, <3>3, AppMoves
    <3>5. QED
      BY <1>2, <3>4, Unprepared DEF BlockPlaces
  <2>3. QED
    BY <1>3, <1>4, <2>1, <2>2 DEF ResolveClient
<1>5. CASE ExchangeCode(c)
  <2>1. call[c] \in ConnectCall /\ call[c] \in AppCall
    BY <1>5, AppKinds DEF ExchangeCode, At, ConnectPlaces
  <2>2. CASE Go(c, "list")
    <3>1. OneCall(c) /\ call'[c].at = "list"
      BY <2>1, <2>2, AppGoes DEF ConnectPlaces
    <3>2. QED
      BY <1>2, <3>1, Unprepared DEF BlockPlaces
  <2>3. QED
    BY <1>3, <1>5, <2>1, <2>2 DEF ExchangeCode
<1>6. CASE ListConnections(c)
  <2>1. call[c] \in ConnectCall /\ call[c] \in AppCall
    BY <1>6, AppKinds DEF ListConnections, At, ConnectPlaces
  <2>2. CASE Go(c, "write")
    <3>1. OneCall(c) /\ call'[c].at = "write"
      BY <2>1, <2>2, AppGoes DEF ConnectPlaces
    <3>2. QED
      BY <1>2, <3>1, Unprepared DEF BlockPlaces
  <2>3. ASSUME NEW i \in Connections, call' = [call EXCEPT ![c].at = "write", ![c].conn = i]
        PROVE  AppTypes(c)
    <3> DEFINE r == [call[c] EXCEPT !.at = "write", !.conn = i]
    <3>1. r \in AppCall /\ r.at = "write"
      BY <2>1 DEF AppCall, ConnectCall, Connections
    <3>2. call' = [call EXCEPT ![c] = r]
      BY <2>3
    <3> HIDE DEF r
    <3>3. OneCall(c) /\ call'[c].at = "write"
      BY <2>1, <3>1, <3>2, AppMoves
    <3>4. QED
      BY <1>2, <3>3, Unprepared DEF BlockPlaces
  <2>4. QED
    BY <1>6, <2>2, <2>3 DEF ListConnections
<1>7. CASE ListRules(c)
  <2>1. call[c] \in ConnectCall /\ call[c] \in AppCall
    BY <1>7, AppKinds DEF ListRules, At, ConnectPlaces
  <2>2. CASE call' = [call EXCEPT ![c].at = "init", ![c].hosts = Hosts \ Ruled]
    <3> DEFINE r == [call[c] EXCEPT !.at = "init", !.hosts = Hosts \ Ruled]
    <3>1. r \in AppCall /\ r.at = "init" /\ r.hosts = Hosts \ Ruled
      BY <2>1 DEF AppCall, ConnectCall, Hosts
    <3>2. call' = [call EXCEPT ![c] = r]
      BY <2>2
    <3> HIDE DEF r
    <3>3. OneCall(c) /\ call'[c].at = "init" /\ call'[c].hosts \subseteq Hosts
      BY <2>1, <3>1, <3>2, AppMoves
    <3>4. Prepared(c)'
      BY <1>1, <3>3 DEF Prepared, At, BlockPlaces, app, settings, Hosts
    <3>5. QED
      BY <1>2, <3>3, <3>4
  <2>3. QED
    BY <1>3, <1>7, <2>1, <2>2 DEF ListRules
<1>8. CASE CountRemaining(c)
  <2>1. call[c] \in DisconnectCall /\ call[c] \in AppCall
    BY <1>8, AppKinds DEF CountRemaining, At, DisconnectPlaces
  <2>2. CASE Connections = {} /\ call' = [call EXCEPT ![c].at = "unblock", ![c].left = Connections]
    <3> DEFINE r == [call[c] EXCEPT !.at = "unblock", !.left = {}]
    <3>1. r \in AppCall /\ r.at = "unblock" /\ r.left = {}
      BY <2>1 DEF AppCall, DisconnectCall
    <3>2. call' = [call EXCEPT ![c] = r]
      BY <2>2
    <3> HIDE DEF r
    <3>3. OneCall(c) /\ call'[c].at = "unblock" /\ call'[c].left = {}
      BY <2>1, <3>1, <3>2, AppMoves
    <3>4. Prepared(c)'
      BY <3>3 DEF Prepared, At, BlockPlaces
    <3>5. QED
      BY <1>2, <3>3, <3>4
  <2>3. QED
    BY <1>3, <1>8, <2>1, <2>2 DEF CountRemaining
<1>9. CASE FindRule(c)
  <2>1. call[c] \in BlockCall /\ call[c] \in AppCall /\ call[c].host \in Hosts \cup Custom
    BY <1>9, AppKinds DEF FindRule, At, BlockPlaces, Prepared
  <2>2. CASE Go(c, "create")
    <3>1. /\ OneCall(c) /\ call'[c].at = "create"
          /\ call'[c] = [call[c] EXCEPT !.at = "create"]
      BY <2>1, <2>2, AppGoes DEF BlockPlaces
    <3>2. call'[c].host \in Hosts \cup Custom
      BY <2>1, <3>1 DEF BlockCall
    <3>3. Prepared(c)'
      BY <1>1, <3>1, <3>2 DEF Prepared, At, app, settings, Hosts
    <3>4. QED
      BY <1>2, <3>1, <3>3
  <2>3. ASSUME NEW r \in RulesOf(call[c].host),
               call' = [call EXCEPT ![c].at = "enable", ![c].rule = r]
        PROVE  AppTypes(c)
    <3> DEFINE s == [call[c] EXCEPT !.at = "enable", !.rule = r]
    <3>1. r \in RuleIds /\ rule[r] # None
      BY DEF RulesOf
    <3>2. s \in AppCall /\ s.at = "enable" /\ s.rule = r /\ s.host = call[c].host
      BY <2>1, <3>1 DEF AppCall, BlockCall
    <3>3. call' = [call EXCEPT ![c] = s]
      BY <2>3
    <3> HIDE DEF s
    <3>4. OneCall(c) /\ call'[c].at = "enable" /\ call'[c].rule = r /\ call'[c].host = call[c].host
      BY <2>1, <3>2, <3>3, AppMoves
    <3>5. Prepared(c)'
      BY <1>1, <2>1, <3>1, <3>4 DEF Prepared, At, app, settings, rules, Hosts
    <3>6. QED
      BY <1>2, <3>4, <3>5
  <2>4. QED
    BY <1>3, <1>9, <2>1, <2>2, <2>3 DEF FindRule
<1>10. QED
  BY <1>1, <1>4, <1>5, <1>6, <1>7, <1>8, <1>9

\* A step that touches neither agents nor connections, but the app's rules
\* and settings.
LEMMA RuleTypes ==
    ASSUME TypeOK, NEW c \in Calls, OneCall(c), Prepared(c)',
           UNCHANGED <<registry, conn, method>>,
           rule' \in [RuleIds -> Rule \cup {None, Gone}],
           \A r \in RuleIds : rule[r] # None => rule'[r] # None,
           bare' \subseteq Hosts, kept' \subseteq Hosts \cup Custom, foreign' \subseteq Apps,
           config' \in [client : 0..MaxClient, enabled : BOOLEAN], clients' \in 0..MaxClient
    PROVE  AppTypes(c)
<1>1. TypeOK'
  BY DEF TypeOK, RegistryTypeOK, OneCall, AnyCall, registry, tokens, promises, Connections, Hosts
<1>2. AppsOnly
  BY NoAgentStep DEF registry
<1>3. QED
  BY <1>1, <1>2 DEF AppTypes

\* The calls of one app that write rules, or settings, or give up.
LEMMA RuleWrites ==
    ASSUME TypeOK, NEW c \in Calls, Prepared(c),
           \/ CreateDefaults(c) \/ ClearRules(c) \/ EnableRule(c) \/ CreateRule(c)
           \/ UpsertConfig(c) \/ ToggleConfig(c) \/ SaveConfig(c) \/ Fail(c)
    PROVE  AppTypes(c) /\ call'[c] = Idle /\ UNCHANGED <<registry, conn>>
<1>1. call[c] \in AppCall /\ End(c)
  BY AppKinds DEF CreateDefaults, ClearRules, EnableRule, CreateRule, UpsertConfig, ToggleConfig,
                  SaveConfig, Fail, At, ConnectPlaces, DisconnectPlaces, BlockPlaces, ConfigPlaces
<1>2. OneCall(c) /\ call'[c] = Idle
  BY <1>1, AppEnds
<1>3. Prepared(c)'
  BY <1>2, Unprepared DEF Idle, BlockPlaces
<1>4. UNCHANGED <<registry, conn>>
  BY DEF CreateDefaults, ClearRules, EnableRule, CreateRule, UpsertConfig, ToggleConfig,
         SaveConfig, Fail
<1>5. SUFFICES AppTypes(c)
  BY <1>2, <1>4
<1>6. /\ rule \in [RuleIds -> Rule \cup {None, Gone}]
      /\ bare \subseteq Hosts /\ kept \subseteq Hosts \cup Custom /\ foreign \subseteq Apps
      /\ config \in [client : 0..MaxClient, enabled : BOOLEAN] /\ clients \in 0..MaxClient
  BY DEF TypeOK
<1>7. /\ Ruled \subseteq Hosts \cup Custom /\ Connections \subseteq Apps
      /\ Unsettled(c) \subseteq Apps
  BY DEF Ruled, Connections, Unsettled
<1>8. CASE CreateDefaults(c)
  <2>1. call[c].hosts \subseteq Hosts
    BY <1>8 DEF CreateDefaults, Prepared
  <2>2. \A h \in Hosts : [host |-> h, enabled |-> TRUE] \in Rule
    BY DEF Rule, Hosts
  <2>3. ASSUME NEW r \in RuleIds
        PROVE  /\ rule'[r] \in Rule \cup {None, Gone}
               /\ rule[r] # None => rule'[r] # None
    <3>1. CASE rule'[r] = rule[r]
      BY <1>6, <3>1
    <3>2. ASSUME rule[r] = None, NEW h \in call[c].hosts,
                 rule'[r] = [host |-> h, enabled |-> TRUE]
          PROVE  rule'[r] \in Rule
      BY <2>1, <2>2, <3>2
    <3>3. QED
      BY <1>8, <3>1, <3>2, DefaultRules
  <2>4. rule' \in [RuleIds -> Rule \cup {None, Gone}]
    BY <1>8, <2>3 DEF CreateDefaults
  <2>5. bare' \subseteq Hosts /\ kept' \subseteq Hosts \cup Custom
    BY <1>6, <1>8, <2>1 DEF CreateDefaults
  <2>6. UNCHANGED <<method, config, clients, foreign>>
    BY <1>8 DEF CreateDefaults, settings
  <2>7. QED
    BY <1>2, <1>3, <1>4, <1>6, <2>3, <2>4, <2>5, <2>6, RuleTypes
<1>9. CASE ClearRules(c)
  <2>1. /\ rule' \in [RuleIds -> Rule \cup {None, Gone}]
        /\ \A r \in RuleIds : rule[r] # None => rule'[r] # None
    BY <1>9, Rows DEF ClearRules
  <2>2. bare' \subseteq Hosts /\ kept' \subseteq Hosts \cup Custom
    BY <1>6, <1>9 DEF ClearRules
  <2>3. UNCHANGED <<method, config, clients, foreign>>
    BY <1>9 DEF ClearRules, settings
  <2>4. QED
    BY <1>2, <1>3, <1>4, <1>6, <2>1, <2>2, <2>3, RuleTypes
<1>10. CASE EnableRule(c)
  <2> DEFINE r == call[c].rule
  <2>1. r \in RuleIds /\ rule[r] # None /\ call[c].host \in Hosts \cup Custom
    BY <1>10 DEF EnableRule, Prepared, At, BlockPlaces
  <2>2. CASE rule[r] = Gone
    BY <1>2, <1>3, <1>4, <1>6, <1>10, <2>2, RuleTypes DEF EnableRule, settings
  <2>3. CASE rule[r] # Gone
    <3>1. rule[r] \in Rule
      BY <1>6, <2>1, <2>3
    <3>2. [rule[r] EXCEPT !.enabled = TRUE] \in Rule
      BY <3>1 DEF Rule
    <3>3. rule' = [rule EXCEPT ![r] = [rule[r] EXCEPT !.enabled = TRUE]]
      BY <1>10, <2>3 DEF EnableRule
    <3>4. /\ rule' \in [RuleIds -> Rule \cup {None, Gone}]
          /\ \A q \in RuleIds : rule[q] # None => rule'[q] # None
      BY <1>6, <2>1, <3>2, <3>3, Rows
    <3>5. kept' \subseteq Hosts \cup Custom
      BY <1>6, <1>10, <2>1, <2>3 DEF EnableRule
    <3>6. UNCHANGED <<method, config, clients, bare, foreign>>
      BY <1>10 DEF EnableRule, settings
    <3>7. QED
      BY <1>2, <1>3, <1>4, <1>6, <3>4, <3>5, <3>6, RuleTypes
  <2>4. QED
    BY <2>2, <2>3
<1>11. CASE CreateRule(c)
  <2>1. call[c].host \in Hosts \cup Custom
    BY <1>11 DEF CreateRule, Prepared, At, BlockPlaces
  <2>2. PICK r \in Fresh(rule) : rule' = [rule EXCEPT ![r] = [host |-> call[c].host, enabled |-> TRUE]]
    BY <1>11 DEF CreateRule
  <2>3. r \in RuleIds
    BY <1>6, FreshIds
  <2>4. [host |-> call[c].host, enabled |-> TRUE] \in Rule
    BY <2>1 DEF Rule, Hosts
  <2>5. /\ rule' \in [RuleIds -> Rule \cup {None, Gone}]
        /\ \A q \in RuleIds : rule[q] # None => rule'[q] # None
    BY <1>6, <2>2, <2>3, <2>4, Rows
  <2>6. bare' \subseteq Hosts /\ kept' \subseteq Hosts \cup Custom
    BY <1>6, <1>11, <2>1 DEF CreateRule
  <2>7. UNCHANGED <<method, config, clients, foreign>>
    BY <1>11 DEF CreateRule, settings
  <2>8. QED
    BY <1>2, <1>3, <1>4, <1>6, <2>5, <2>6, <2>7, RuleTypes
<1>12. CASE UpsertConfig(c)
  <2>1. clients' \in 0..MaxClient /\ config' \in [client : 0..MaxClient, enabled : BOOLEAN]
    BY <1>6, <1>12, AppAssumption DEF UpsertConfig
  <2>2. UNCHANGED <<method, rule, bare, kept, foreign>>
    BY <1>12 DEF UpsertConfig, rules
  <2>3. QED
    BY <1>2, <1>3, <1>4, <1>6, <2>1, <2>2, RuleTypes
<1>13. CASE ToggleConfig(c)
  <2>1. config' \in [client : 0..MaxClient, enabled : BOOLEAN]
    BY <1>6, <1>13 DEF ToggleConfig
  <2>2. UNCHANGED <<method, clients, rule, bare, kept, foreign>>
    BY <1>13 DEF ToggleConfig, rules
  <2>3. QED
    BY <1>2, <1>3, <1>4, <1>6, <2>1, <2>2, RuleTypes
<1>14. CASE Fail(c)
  <2>1. /\ bare' \subseteq Hosts /\ kept' \subseteq Hosts \cup Custom /\ foreign' \subseteq Apps
        /\ UNCHANGED <<method, config, clients, rule>>
    BY <1>6, <1>7, <1>14 DEF Fail, settings
  <2>2. QED
    BY <1>2, <1>3, <1>4, <1>6, <2>1, RuleTypes
<1>15. CASE SaveConfig(c)
  <2>1. call[c].client \in 0..MaxClient
    BY <1>15, AppKinds DEF SaveConfig, At, ConnectPlaces, ConnectCall
  <2>2. config' \in [client : 0..MaxClient, enabled : BOOLEAN] /\ foreign' \subseteq Apps
    BY <1>6, <1>7, <1>15, <2>1 DEF SaveConfig
  <2>3. UNCHANGED <<method, clients, rule, bare, kept>>
    BY <1>15 DEF SaveConfig, rules
  <2>4. QED
    BY <1>2, <1>3, <1>4, <1>6, <2>2, <2>3, RuleTypes
<1>16. QED
  BY <1>8, <1>9, <1>10, <1>11, <1>12, <1>13, <1>14, <1>15

\* The calls that disconnect: the connections go, and what agents were granted
\* of them.
LEMMA DisconnectTypes ==
    ASSUME TypeOK, NEW c \in Calls, DeleteConnection(c) \/ disconnectIfConnected(c)
    PROVE  /\ AppTypes(c)
           /\ Connections' \subseteq Connections
           /\ \A i \in Connections' : conn'[i] = conn[i]
           /\ UNCHANGED <<rule, bare, settings, foreign>>
           /\ \/ /\ DeleteConnection(c) /\ kept' = kept
                 /\ call'[c].at = "count" \/ (call'[c] = Idle /\ Connections' = Connections)
              \/ /\ disconnectIfConnected(c) /\ Connections' = {} /\ kept' = kept \cup Ruled
                 /\ \/ call[c].to = "end" /\ call'[c] = Idle
                    \/ call[c].to # "end" /\ call'[c].at \in {"upsert", "toggle"}
<1> USE DEF tokens, promises
<1>1. call[c] \in AppCall
  BY AppKinds DEF DeleteConnection, disconnectIfConnected, At, DisconnectPlaces, ConfigPlaces
<1>2. /\ UNCHANGED <<ops, raced, tokens, cap, mixed, broken, rule, bare, settings, foreign>>
      /\ UNCHANGED Ruled
  BY DEF DeleteConnection, disconnectIfConnected, rules, settings, Ruled, RulesOf, Hosts
<1>3. Ruled \subseteq Hosts \cup Custom /\ rule \in [RuleIds -> Rule \cup {None, Gone}]
  BY DEF Ruled, TypeOK
<1>4. ASSUME NEW gone \in SUBSET Connections, Forget(gone), OneCall(c), Prepared(c)',
             conn' = [i \in Apps |-> IF i \in gone THEN Gone ELSE conn[i]],
             kept' \in {kept, kept \cup Ruled}
      PROVE  /\ AppTypes(c) /\ Connections' = Connections \ gone
             /\ \A i \in Connections' : conn'[i] = conn[i]
  <2>1. /\ conn' \in [Apps -> Connection \cup {None, Gone}]
        /\ Connections' = Connections \ gone
        /\ \A i \in Connections' : conn'[i] = conn[i]
        /\ Known \subseteq Known'
    BY <1>4, Rows DEF TypeOK, Connections, Known
  <2>2. /\ row' \in [Ids -> Agent \cup {None, Gone}]
        /\ owed' \in [Ids -> SUBSET Things] /\ live' \subseteq Things
    BY <1>4, ForgetTypes
  <2>3. live' \cap Apps = Connections'
    BY <1>4, <2>1 DEF Forget, TypeOK
  <2>4. kept' \subseteq Hosts \cup Custom
    BY <1>3, <1>4 DEF TypeOK
  <2>5. TypeOK'
    BY <1>2, <1>4, <2>1, <2>2, <2>3, <2>4 DEF TypeOK, RegistryTypeOK, OneCall, AnyCall, settings, Hosts
  <2>6. /\ \A d \in Calls : call[d] \in Create \cup Update => call'[d] = call[d]
        /\ \A d \in Calls : call'[d] \in Create \cup Update => call'[d] = call[d]
    BY <1>4, AppCalls DEF OneCall
  <2>7. gone \in SUBSET Apps
    BY DEF Connections
  <2>8. AppsOnly
    BY <1>2, <1>4, <2>1, <2>6, <2>7 DEF AppsOnly
  <2>9. QED
    BY <1>2, <1>4, <2>1, <2>5, <2>8 DEF AppTypes, settings
<1>5. CASE DeleteConnection(c)
  <2> DEFINE i == call[c].conn
  <2>1. kept' = kept
    BY <1>5 DEF DeleteConnection, rules
  <2>2. CASE i \in Connections
    <3>1. call[c] \in DisconnectCall
      BY <1>5, AppKinds DEF DeleteConnection, At, DisconnectPlaces
    <3>2. Go(c, "count") /\ Forget({i}) /\ conn' = [conn EXCEPT ![i] = Gone]
      BY <1>5, <2>2 DEF DeleteConnection
    <3>3. OneCall(c) /\ call'[c].at = "count"
      BY <3>1, <3>2, AppGoes DEF DisconnectPlaces
    <3>4. Prepared(c)'
      BY <3>3, Unprepared DEF BlockPlaces
    <3>5. conn' = [j \in Apps |-> IF j \in {i} THEN Gone ELSE conn[j]]
      BY <3>2 DEF TypeOK
    <3>6. /\ AppTypes(c) /\ Connections' = Connections \ {i}
          /\ \A j \in Connections' : conn'[j] = conn[j]
      BY <1>4, <2>1, <2>2, <3>2, <3>3, <3>4, <3>5
    <3>7. QED
      BY <1>2, <1>5, <2>1, <3>3, <3>6
  <2>3. CASE i \notin Connections
    <3>1. End(c) /\ UNCHANGED <<conn, live, row, owed>>
      BY <1>5, <2>3 DEF DeleteConnection
    <3>2. OneCall(c) /\ call'[c] = Idle
      BY <1>1, <3>1, AppEnds
    <3>3. UNCHANGED <<registry, app>>
      BY <1>2, <2>1, <3>1 DEF registry, app, rules
    <3>4. Prepared(c)'
      BY <3>2, Unprepared DEF Idle, BlockPlaces
    <3>5. AppTypes(c)
      BY <1>2, <3>2, <3>3, <3>4, OnlyCalls DEF AppTypes, settings
    <3>6. Connections' = Connections
      BY <3>1 DEF Connections
    <3>7. QED
      BY <1>2, <1>5, <2>1, <3>1, <3>2, <3>5, <3>6
  <2>4. QED
    BY <2>2, <2>3
<1>6. CASE disconnectIfConnected(c)
  <2>1. call[c] \in ConfigCall /\ call[c].to \in {"upsert", "toggle", "end"}
    BY <1>6, AppKinds DEF disconnectIfConnected, At, ConfigPlaces, ConfigCall
  <2>2. /\ Forget(Connections) /\ kept' = kept \cup Ruled
        /\ conn' = [i \in Apps |-> IF i \in Connections THEN Gone ELSE conn[i]]
    BY <1>6 DEF disconnectIfConnected
  <2>3. /\ OneCall(c)
        /\ \/ call[c].to = "end" /\ call'[c] = Idle
           \/ call[c].to # "end" /\ call'[c].at \in {"upsert", "toggle"}
    BY <1>1, <1>6, <2>1, AppEnds, AppGoes DEF disconnectIfConnected, ConfigPlaces
  <2>4. Prepared(c)'
    BY <2>3, Unprepared DEF Idle, BlockPlaces
  <2>5. /\ AppTypes(c) /\ Connections' = {}
        /\ \A i \in Connections' : conn'[i] = conn[i]
    BY <1>4, <2>2, <2>3, <2>4
  <2>6. QED
    BY <1>2, <1>6, <2>2, <2>3, <2>5
<1>7. QED
  BY <1>5, <1>6

\* Users change rules without a call that takes several steps.
LEMMA ToggleTypes ==
    ASSUME TypeOK, NEW r \in RuleIds, ToggleRule(r) \/ RemoveRule(r)
    PROVE  /\ TypeOK' /\ AppsOnly
           /\ UNCHANGED <<registry, call, conn, kept, settings, foreign>>
           /\ \A q \in RuleIds : rule[q] # None => rule'[q] # None
<1>1. UNCHANGED <<registry, call, conn, kept, settings, foreign>>
  BY DEF ToggleRule, RemoveRule
<1>2. rule[r] \in Rule /\ rule \in [RuleIds -> Rule \cup {None, Gone}]
  BY DEF ToggleRule, RemoveRule, TypeOK
<1>3. [rule[r] EXCEPT !.enabled = ~rule[r].enabled] \in Rule
  BY <1>2 DEF Rule
<1>4. \/ rule' = [rule EXCEPT ![r] = [rule[r] EXCEPT !.enabled = ~rule[r].enabled]]
      \/ rule' = [rule EXCEPT ![r] = Gone]
  BY DEF ToggleRule, RemoveRule
<1>5. /\ rule' \in [RuleIds -> Rule \cup {None, Gone}]
      /\ \A q \in RuleIds : rule[q] # None => rule'[q] # None
  BY <1>2, <1>3, <1>4, Rows
<1>6. bare' \subseteq Hosts
  BY DEF ToggleRule, RemoveRule, TypeOK
<1>7. TypeOK'
  BY <1>1, <1>5, <1>6 DEF TypeOK, RegistryTypeOK, registry, tokens, promises, settings,
                          Connections, Hosts
<1>8. AppsOnly
  BY <1>1 DEF AppsOnly, registry, promises, Known
<1>9. QED
  BY <1>1, <1>5, <1>7, <1>8

-----------------------------------------------------------------------------
(* The two modules beside each other                                        *)

\* A step of the app leaves the types, and what its calls have found.
LEMMA AppStepTypes ==
    ASSUME TypeOK, AppStep, \A d \in Calls : Prepared(d)
    PROVE  TypeOK' /\ AppsOnly /\ \A d \in Calls : Prepared(d)'
<1>1. ASSUME NEW c \in Calls, AppTypes(c)
      PROVE  TypeOK' /\ AppsOnly /\ \A d \in Calls : Prepared(d)'
  <2>1. ASSUME NEW d \in Calls \ {c}
        PROVE  Prepared(d)'
    <3>1. call'[d] = call[d] /\ Hosts' = Hosts
      BY <1>1 DEF AppTypes, OneCall, Hosts
    <3>2. Prepared(d)
      OBVIOUS
    <3>3. \A r \in RuleIds : rule[r] # None => rule'[r] # None
      BY <1>1 DEF AppTypes
    <3>4. QED
      BY <3>1, <3>2, <3>3 DEF Prepared, At
  <2>2. QED
    BY <1>1, <2>1 DEF AppTypes
<1>2. ASSUME NEW c \in Calls, Start(c)
      PROVE  TypeOK' /\ AppsOnly /\ \A d \in Calls : Prepared(d)'
  <2>1. /\ TypeOK' /\ AppsOnly /\ OneCall(c) /\ UNCHANGED <<rules, method>>
        /\ \/ call'[c].at \in {"resolve", "list", "remove", "disconnect"}
           \/ call'[c].at = "find" /\ call'[c].host \in Hosts \cup Custom
    BY <1>2, StartTypes
  <2>2. Prepared(c)'
    BY <2>1 DEF Prepared, At, BlockPlaces, Hosts
  <2>3. QED
    BY <1>1, <2>1, <2>2 DEF AppTypes, rules
<1>3. ASSUME NEW c \in Calls, WriteConnection(c)
      PROVE  TypeOK' /\ AppsOnly /\ \A d \in Calls : Prepared(d)'
  <2>1. /\ TypeOK' /\ AppsOnly /\ OneCall(c) /\ UNCHANGED <<rules, settings>>
        /\ call'[c] = Idle \/ \E i \in Apps : Stored(c, i)
    BY <1>3, WriteConnectionTypes
  <2>2. call'[c].at \in {"idle", "rules", "save"}
    BY <2>1 DEF Stored, Idle
  <2>3. Prepared(c)'
    BY <2>2, Unprepared DEF BlockPlaces
  <2>4. QED
    BY <1>1, <2>1, <2>3 DEF AppTypes, rules, settings
<1>4. ASSUME NEW r \in RuleIds, ToggleRule(r) \/ RemoveRule(r)
      PROVE  TypeOK' /\ AppsOnly /\ \A d \in Calls : Prepared(d)'
  <2>1. /\ TypeOK' /\ AppsOnly /\ UNCHANGED <<call, method>>
        /\ \A q \in RuleIds : rule[q] # None => rule'[q] # None
    BY <1>4, ToggleTypes DEF settings
  <2>2. QED
    BY <2>1 DEF Prepared, At, Hosts
<1>5. QED
  BY <1>1, <1>2, <1>3, <1>4, ReadTypes, RuleWrites, DisconnectTypes DEF AppStep, Connect

\* A step of the agents does, too.
LEMMA RegistryStepTypes ==
    ASSUME TypeOK, RegistryNext, UNCHANGED app, \A d \in Calls : Prepared(d)
    PROVE  TypeOK' /\ \A d \in Calls : Prepared(d)'
<1>1. AgentsOnly
  BY RegistryTypes
<1>2. TypeOK'
  BY <1>1 DEF AgentsOnly, TypeOK, AnyCall, app, rules, settings, Connections, Hosts
<1>3. ASSUME NEW d \in Calls
      PROVE  Prepared(d)'
  <2>1. CASE call[d] \in AgentCall
    <3>1. call'[d] \in AnyCall /\ call'[d] \in AgentCall
      BY <1>1, <2>1 DEF AgentsOnly
    <3>2. call'[d].at \in {"idle"} \cup CreatePlaces \cup UpdatePlaces
      BY <3>1, Places
    <3>3. QED
      BY <3>2, Unprepared DEF CreatePlaces, UpdatePlaces, BlockPlaces
  <2>2. CASE call[d] \notin AgentCall
    <3>1. call'[d] = call[d] /\ Prepared(d)
      BY <1>1, <2>2 DEF AgentsOnly
    <3>2. QED
      BY <3>1 DEF Prepared, At, app, rules, settings, Hosts
  <2>3. QED
    BY <2>1, <2>2
<1>4. QED
  BY <1>2, <1>3


-----------------------------------------------------------------------------
(* What the steps of the agents' calls change                               *)

\* A row is written: the others stay, and it still is a row.
LEMMA RowWrites ==
    ASSUME TypeOK, NEW i \in Ids, Exists(i), NEW x \in Agent, row' = [row EXCEPT ![i] = x]
    PROVE  /\ row'[i] = x
           /\ \A j \in Ids \ {i} : row'[j] = row[j]
           /\ \A j \in Ids : /\ Exists(j)' <=> Exists(j)
                             /\ row'[j] = None <=> row[j] = None
  BY Rows DEF TypeOK, RegistryTypeOK, Exists

\* A step changes what an agent was granted, or its mode, token or DID, and
\* nothing of what it is.
Touches(i, x) ==
    /\ Exists(i) /\ x \in Agent /\ row' = [row EXCEPT ![i] = x]
    /\ x.identifier = row[i].identifier /\ x.isDefault = row[i].isDefault

\* createAgent creates one row and then touches no other.
LEMMA CreateEffects ==
    ASSUME TypeOK, NEW c \in Calls, CreateStep(c)
    PROVE  /\ UNCHANGED <<live, ops, raced, tokens, mixed>>
           /\ call[c].at \in {"idle"} \cup CreatePlaces
           /\ call'[c] \in {Idle} \cup Create
           /\ \A d \in Calls \ {c} : call'[d] = call[d]
           /\ \/ UNCHANGED row /\ \A i \in Ids : CreatedBy(c, i)' => CreatedBy(c, i)
              \/ \E i \in Ids :
                   /\ At(c, "row") /\ Named("child") = {}
                   /\ row[i] = None /\ row' = [row EXCEPT ![i] = NewAgent("child", call[c].mode)]
                   /\ call'[c] = [call[c] EXCEPT !.at = "did", !.id = i]
              \/ \E i \in Ids, x \in Agent :
                   /\ CreatedBy(c, i) /\ Touches(i, x)
                   /\ x.token = row[i].token /\ x.mode = row[i].mode
                   /\ \A j \in Ids : CreatedBy(c, j)' => CreatedBy(c, j)
<1> USE DEF registry, tokens, promises, At
<1> DEFINE i == call[c].id
           Calm == \A j \in Ids : CreatedBy(c, j)' => CreatedBy(c, j)
           Touched == \E j \in Ids, x \in Agent :
                        /\ CreatedBy(c, j) /\ Touches(j, x)
                        /\ x.token = row[j].token /\ x.mode = row[j].mode
           Others == \A d \in Calls \ {c} : call'[d] = call[d]
<1>1. ASSUME NEW inherit \in BOOLEAN, StartCreate(c, inherit)
      PROVE  /\ UNCHANGED registry /\ call[c].at = "idle" /\ call'[c] \in Create /\ Others /\ Calm
  <2> DEFINE r == [at |-> "exists", inherit |-> inherit, mode |-> "all", want |-> {}, id |-> Default]
  <2>1. r \in Create /\ r.at = "exists"
    BY RegistryAssumption DEF Create, Modes
  <2>2. r \in AnyCall
    BY <2>1 DEF AnyCall, AgentCall
  <2>3. Begin(c, r) /\ UNCHANGED registry
    BY <1>1 DEF StartCreate
  <2> HIDE DEF r
  <2>4. call[c].at = "idle" /\ call'[c] = r /\ Others
    BY <2>2, <2>3, Begins
  <2>5. QED
    BY <2>1, <2>3, <2>4 DEF CreatedBy
<1>2. ASSUME call[c] \in Create, NEW at \in CreatePlaces, Go(c, at),
             at \in {"secrets", "anthropic", "apps", "created"} =>
               call[c].at \in {"did", "secrets", "anthropic", "apps"},
             at # "did"
      PROVE  call'[c] \in Create /\ Others /\ Calm
  <2>1. call'[c] = [call[c] EXCEPT !.at = at] /\ Others
    BY <1>2, Goes
  <2>2. [call[c] EXCEPT !.at = at] \in Create
    BY <1>2 DEF Create, CreatePlaces
  <2>3. call'[c].at = at /\ call'[c].id = call[c].id
    BY <1>2, <2>1 DEF Create
  <2>4. QED
    BY <1>2, <2>1, <2>2, <2>3 DEF CreatedBy, CreatePlaces
<1>3. ASSUME End(c)
      PROVE  call'[c] = Idle /\ Others /\ Calm
  BY <1>3, Ends DEF CreatedBy
<1>4. CASE FindExisting(c)
  <2>1. call[c] \in Create /\ call[c].at \in CreatePlaces
    BY <1>4, Kinds DEF FindExisting, CreatePlaces
  <2>2. UNCHANGED registry /\ (End(c) \/ Go(c, "parent"))
    BY <1>4 DEF FindExisting
  <2>3. QED
    BY <1>2, <1>3, <2>1, <2>2 DEF CreatePlaces
<1>5. CASE FindParent(c)
  <2>1. call[c] \in Create /\ call[c].at \in CreatePlaces
    BY <1>5, Kinds DEF FindParent, CreatePlaces
  <2>2. UNCHANGED registry
    BY <1>5 DEF FindParent
  <2>3. CASE call[c].inherit /\ Exists(Parent)
    <3>1. row[Parent] \in Agent
      BY <2>3, RegistryAssumption, RowFields
    <3> DEFINE r == [call[c] EXCEPT !.at = "row", !.mode = row[Parent].mode,
                                    !.want = row[Parent].grants]
    <3>2. r \in Create /\ r.at = "row"
      BY <2>1, <3>1 DEF Create, Agent
    <3>3. call' = [call EXCEPT ![c] = r]
      BY <1>5, <2>3 DEF FindParent
    <3> HIDE DEF r
    <3>4. call'[c] = r /\ Others
      BY <3>3 DEF TypeOK
    <3>5. QED
      BY <2>1, <2>2, <3>2, <3>4 DEF CreatedBy
  <2>4. CASE ~(call[c].inherit /\ Exists(Parent))
    BY <1>2, <1>5, <2>1, <2>2, <2>4 DEF FindParent, CreatePlaces
  <2>5. QED
    BY <2>3, <2>4
<1>6. CASE CreateRow(c)
  <2>1. call[c] \in Create /\ call[c].at \in CreatePlaces
    BY <1>6, Kinds DEF CreateRow, CreatePlaces
  <2>2. UNCHANGED <<live, ops, raced, tokens, mixed>>
    BY <1>6 DEF CreateRow
  <2>3. CASE Named("child") # {}
    BY <1>3, <1>6, <2>1, <2>2, <2>3 DEF CreateRow
  <2>4. CASE Named("child") = {}
    <3>1. PICK j \in Ids :
            /\ row[j] = None /\ row' = [row EXCEPT ![j] = NewAgent("child", call[c].mode)]
            /\ call' = [call EXCEPT ![c].at = "did", ![c].id = j]
      BY <1>6, <2>4 DEF CreateRow
    <3>2. call'[c] = [call[c] EXCEPT !.at = "did", !.id = j] /\ Others
      BY <3>1 DEF TypeOK
    <3>3. call'[c] \in Create
      BY <2>1, <3>2 DEF Create
    <3>4. QED
      BY <1>6, <2>1, <2>2, <2>4, <3>1, <3>2, <3>3 DEF CreateRow
  <2>5. QED
    BY <2>3, <2>4
<1>7. CASE SetDid(c)
  <2>1. call[c] \in Create /\ call[c].at \in CreatePlaces /\ i \in Ids
    BY <1>7, Kinds DEF SetDid, CreatePlaces, Create
  <2>2. UNCHANGED <<live, ops, raced, tokens, mixed>>
    BY <1>7 DEF SetDid
  <2>3. CASE Exists(i)
    <3> DEFINE x == [row[i] EXCEPT !.did = TRUE]
    <3>1. row' = [row EXCEPT ![i] = x] /\ Go(c, "secrets") /\ CreatedBy(c, i)
      BY <1>7, <2>3 DEF SetDid, CreatedBy
    <3>2. x \in Agent /\ row[i] \in Agent
      BY <2>1, <2>3, RowFields
    <3>3. /\ x.identifier = row[i].identifier /\ x.isDefault = row[i].isDefault
          /\ x.token = row[i].token /\ x.mode = row[i].mode
      BY <3>2 DEF Agent
    <3>4. Touched
      BY <2>1, <2>3, <3>1, <3>2, <3>3 DEF Touches
    <3>5. call'[c] \in Create /\ Others /\ Calm
      BY <1>2, <1>7, <2>1, <3>1 DEF SetDid, CreatePlaces
    <3>6. QED
      BY <2>1, <2>2, <3>4, <3>5
  <2>4. CASE ~Exists(i)
    BY <1>3, <1>7, <2>1, <2>2, <2>4 DEF SetDid
  <2>5. QED
    BY <2>3, <2>4
<1>8. ASSUME call[c] \in Create, call[c].at \in {"secrets", "anthropic", "apps"},
             NEW things \in SUBSET Things,
             NEW next \in {"apps", "created"}, Insert(c, things, next)
      PROVE  /\ call'[c] \in {Idle} \cup Create /\ Others /\ Calm
             /\ UNCHANGED row \/ Touched
  <2>1. i \in Ids
    BY <1>8 DEF Create
  <2>2. CASE Insertable(i, things)
    <3> DEFINE x == [row[i] EXCEPT !.grants = row[i].grants \cup things]
    <3>1. Exists(i) /\ row' = [row EXCEPT ![i] = x] /\ Go(c, next) /\ CreatedBy(c, i)
      BY <1>8, <2>2 DEF Insert, Insertable, CreatedBy
    <3>2. row[i] \in Agent /\ row[i].grants \cup things \in SUBSET Things
      BY <1>8, <2>1, <3>1, RowFields DEF Agent
    <3>3. x \in Agent
      BY <2>1, <3>1, <3>2, RowFields
    <3>4. /\ x.identifier = row[i].identifier /\ x.isDefault = row[i].isDefault
          /\ x.token = row[i].token /\ x.mode = row[i].mode
      BY <3>2 DEF Agent
    <3>5. Touched
      BY <2>1, <3>1, <3>3, <3>4 DEF Touches
    <3>6. call'[c] \in Create /\ Others /\ Calm
      BY <1>2, <1>8, <3>1 DEF CreatePlaces
    <3>7. QED
      BY <3>5, <3>6
  <2>3. CASE ~Insertable(i, things)
    BY <1>3, <1>8, <2>3 DEF Insert
  <2>4. QED
    BY <2>2, <2>3
<1>9. CASE GrantSecrets(c)
  <2>1. call[c] \in Create /\ call[c].at \in CreatePlaces
    BY <1>9, Kinds DEF GrantSecrets, CreatePlaces
  <2>2. UNCHANGED <<live, ops, raced, tokens, mixed>>
    BY <1>9 DEF GrantSecrets
  <2>3. call[c].want \cap Secrets \in SUBSET Things
    BY DEF Things
  <2>4. \/ Insert(c, call[c].want \cap Secrets, "apps")
        \/ UNCHANGED row /\ \E at \in {"anthropic", "apps"} : Go(c, at)
    BY <1>9 DEF GrantSecrets
  <2>5. CASE Insert(c, call[c].want \cap Secrets, "apps")
    BY <1>8, <1>9, <2>1, <2>2, <2>3, <2>5 DEF GrantSecrets
  <2>6. ASSUME UNCHANGED row, NEW at \in {"anthropic", "apps"}, Go(c, at)
        PROVE  call'[c] \in Create /\ Others /\ Calm
    BY <1>2, <1>9, <2>1, <2>6 DEF GrantSecrets, CreatePlaces
  <2>7. QED
    BY <2>1, <2>2, <2>4, <2>5, <2>6
<1>10. CASE GrantAnthropic(c)
  <2>1. call[c] \in Create /\ call[c].at \in CreatePlaces
    BY <1>10, Kinds DEF GrantAnthropic, CreatePlaces
  <2>2. {Anthropic} \in SUBSET Things
    BY RegistryAssumption DEF Things
  <2>3. QED
    BY <1>8, <1>10, <2>1, <2>2 DEF GrantAnthropic
<1>11. CASE GrantApps(c)
  <2>1. call[c] \in Create /\ call[c].at \in CreatePlaces
    BY <1>11, Kinds DEF GrantApps, CreatePlaces
  <2>2. UNCHANGED <<live, ops, raced, tokens, mixed>>
    BY <1>11 DEF GrantApps
  <2>3. call[c].want \cap Apps \in SUBSET Things
    BY DEF Things
  <2>4. \/ Insert(c, call[c].want \cap Apps, "created")
        \/ UNCHANGED row /\ Go(c, "created")
    BY <1>11 DEF GrantApps
  <2>5. CASE Insert(c, call[c].want \cap Apps, "created")
    BY <1>8, <1>11, <2>1, <2>2, <2>3, <2>5 DEF GrantApps
  <2>6. CASE UNCHANGED row /\ Go(c, "created")
    <3>1. call'[c] \in Create /\ Others /\ Calm
      BY <1>2, <1>11, <2>1, <2>6 DEF GrantApps, CreatePlaces
    <3>2. QED
      BY <2>1, <2>2, <2>6, <3>1
  <2>7. QED
    BY <2>4, <2>5, <2>6
<1>12. CASE Created(c)
  <2>1. call[c] \in Create /\ call[c].at \in CreatePlaces
    BY <1>12, Kinds DEF Created, CreatePlaces
  <2>2. QED
    BY <1>3, <1>12, <2>1 DEF Created
<1>13. QED
  BY <1>1, <1>4, <1>5, <1>6, <1>7, <1>9, <1>10, <1>11, <1>12 DEF CreateStep

\* A revocation marks the renewals of the agent that are under way.
LEMMA RevokeEffects ==
    ASSUME TypeOK, NEW c \in Calls, WriteRevoked(c),
           Exists(call[c].id), stamped \subseteq {call[c].id}
    PROVE  /\ call[c].id \in Ids
           /\ killed' = killed \cup {call[c].id} /\ revived' = revived \ {call[c].id}
           /\ row' = [row EXCEPT ![call[c].id] = [row[call[c].id] EXCEPT !.token = "revoked"]]
           /\ [row[call[c].id] EXCEPT !.token = "revoked"] \in Agent
           /\ call'[c] = Idle
           /\ \A d \in Calls \ {c} :
                IF At(d, "renew") /\ call[d].id = call[c].id
                  THEN /\ call'[d] \in Update /\ call'[d].late
                       /\ call'[d].at = "renew" /\ call'[d].id = call[c].id
                  ELSE call'[d] = call[d]
<1> DEFINE i == call[c].id
           S == Renewing(i)
<1>1. i \in Ids
  BY Kinds DEF WriteRevoked, At, UpdatePlaces, Update
<1>2. [row[i] EXCEPT !.token = "revoked"] \in Agent
  BY <1>1, RowFields
<1>3. S \in SUBSET Calls /\ \A d \in S : call[d] \in Update
  BY Kinds DEF Renewing, At, UpdatePlaces
<1>4. call' = [d \in Calls |-> IF d = c THEN Idle
                 ELSE IF d \in S THEN [call[d] EXCEPT !.late = TRUE] ELSE call[d]]
  BY DEF WriteRevoked, Killed
<1> HIDE DEF S
<1>5. /\ call'[c] = Idle
      /\ \A d \in Calls \ {c} :
           /\ d \in S => /\ call'[d] \in Update /\ call'[d].late
                         /\ call'[d].at = call[d].at /\ call'[d].id = call[d].id
           /\ d \notin S => call'[d] = call[d]
  BY <1>3, <1>4, Lates
<1>6. \A d \in Calls : d \in S <=> At(d, "renew") /\ call[d].id = i
  BY DEF S, Renewing
<1>7. /\ killed' = killed \cup {i} /\ revived' = revived \ {i}
      /\ row' = [row EXCEPT ![i] = [row[i] EXCEPT !.token = "revoked"]]
  BY DEF WriteRevoked, Killed
<1>8. QED
  BY <1>1, <1>2, <1>5, <1>6, <1>7 DEF At

\* Renewing, revoking, and what an administrator decides, end a call, write one
\* row, and may mark a renewal as late.
LEMMA WriteEffects ==
    ASSUME TypeOK, NEW c \in Calls,
           WriteToken(c) \/ WriteRevoked(c) \/ WriteMode(c) \/ ReplaceGrants(c)
    PROVE  /\ call[c] \in Update /\ call[c].at \in {"renew", "revoke", "mode", "grants"}
           /\ UNCHANGED <<live, ops, raced, broken>>
           /\ call'[c] = Idle
           /\ \A d \in Calls \ {c} :
                \/ call'[d] = call[d]
                \/ /\ At(d, "renew") /\ call[d].id = call[c].id /\ WriteRevoked(c)
                   /\ call'[d] \in Update /\ call'[d].at = "renew" /\ call'[d].id = call[d].id
                   /\ call'[d].late
           /\ \/ UNCHANGED row
              \/ \E x \in Agent : /\ Touches(call[c].id, x)
                                  /\ x.did = row[call[c].id].did
<1> USE DEF tokens, promises
<1> DEFINE i == call[c].id
           Others == \A d \in Calls \ {c} : call'[d] = call[d]
           Touched == \E x \in Agent : Touches(i, x) /\ x.did = row[i].did
<1>1. call[c] \in Update /\ i \in Ids /\ call[c].at \in {"renew", "revoke", "mode", "grants"}
  <2>1. call[c].at \in {"renew", "revoke", "mode", "grants"}
    BY DEF WriteToken, WriteRevoked, WriteMode, ReplaceGrants, At
  <2>2. call[c] \in Update
    BY <2>1, Kinds DEF UpdatePlaces
  <2>3. QED
    BY <2>1, <2>2 DEF Update
<1>2. UNCHANGED <<live, ops, raced, broken>>
  BY DEF WriteToken, WriteRevoked, WriteMode, ReplaceGrants
<1>3. ASSUME Exists(i), NEW x \in Agent, row' = [row EXCEPT ![i] = x],
             \/ \E t \in {"live", "revoked"} : x = [row[i] EXCEPT !.token = t]
             \/ \E m \in Modes : x = [row[i] EXCEPT !.mode = m]
      PROVE  Touched
  <2>1. row[i] \in Agent
    BY <1>1, <1>3, RowFields
  <2>2. /\ x.identifier = row[i].identifier /\ x.isDefault = row[i].isDefault
        /\ x.did = row[i].did
    BY <1>3, <2>1 DEF Agent
  <2>3. QED
    BY <1>3, <2>2 DEF Touches
<1>4. CASE WriteToken(c)
  <2>1. call'[c] = Idle /\ Others
    BY <1>4, Ends DEF WriteToken
  <2>2. CASE Exists(i)
    <3> DEFINE x == [row[i] EXCEPT !.token = "live"]
    <3>1. row' = [row EXCEPT ![i] = x]
      BY <1>4, <2>2 DEF WriteToken
    <3>2. x \in Agent
      BY <1>1, <2>2, RowFields
    <3>3. QED
      BY <1>1, <1>2, <1>3, <2>1, <2>2, <3>1, <3>2
  <2>3. CASE ~Exists(i)
    <3>1. row' = row
      BY <1>4, <2>3 DEF WriteToken, TypeOK, RegistryTypeOK
    <3>2. QED
      BY <1>1, <1>2, <2>1, <3>1
  <2>4. QED
    BY <2>2, <2>3
<1>5. CASE WriteRevoked(c)
  <2>1. CASE Exists(i) /\ stamped \subseteq {i}
    <3> DEFINE x == [row[i] EXCEPT !.token = "revoked"]
    <3>1. /\ row' = [row EXCEPT ![i] = x] /\ x \in Agent
          /\ call'[c] = Idle
          /\ \A d \in Calls \ {c} :
               IF At(d, "renew") /\ call[d].id = i
                 THEN /\ call'[d] \in Update /\ call'[d].late
                      /\ call'[d].at = "renew" /\ call'[d].id = i
                 ELSE call'[d] = call[d]
      BY <1>5, <2>1, RevokeEffects
    <3>2. Touched
      BY <1>3, <2>1, <3>1
    <3>3. QED
      BY <1>1, <1>2, <1>5, <3>1, <3>2
  <2>2. CASE ~(Exists(i) /\ stamped \subseteq {i})
    <3>1. End(c) /\ UNCHANGED row
      BY <1>5, <2>2 DEF WriteRevoked
    <3>2. QED
      BY <1>1, <1>2, <3>1, Ends
  <2>3. QED
    BY <2>1, <2>2
<1>6. CASE WriteMode(c)
  <2>1. call'[c] = Idle /\ Others
    BY <1>6, Ends DEF WriteMode
  <2>2. CASE Exists(i)
    <3>1. PICK m \in Modes : Decided(i, [row[i] EXCEPT !.mode = m], owed[i])
      BY <1>6, <2>2 DEF WriteMode
    <3>2. [row[i] EXCEPT !.mode = m] \in Agent /\ row' = [row EXCEPT ![i] = [row[i] EXCEPT !.mode = m]]
      BY <1>1, <2>2, <3>1, RowFields DEF Decided
    <3>3. QED
      BY <1>1, <1>2, <1>3, <2>1, <2>2, <3>2
  <2>3. CASE ~Exists(i)
    BY <1>1, <1>2, <1>6, <2>1, <2>3 DEF WriteMode
  <2>4. QED
    BY <2>2, <2>3
<1>7. CASE ReplaceGrants(c)
  <2>1. call'[c] = Idle /\ Others
    BY <1>7, Ends DEF ReplaceGrants
  <2>2. CASE Exists(i)
    <3>1. PICK kind \in {Secrets, Apps}, things \in SUBSET live, x \in Agent :
            Replacing(i, kind, things, x)
      BY <1>1, <1>7, <2>2, Replaced
    <3>2. Touched
      BY <2>2, <3>1 DEF Replacing, Touches, Decided
    <3>3. QED
      BY <1>1, <1>2, <2>1, <3>2
  <2>3. CASE ~Exists(i)
    BY <1>1, <1>2, <1>7, <2>1, <2>3 DEF ReplaceGrants
  <2>4. QED
    BY <2>2, <2>3
<1>8. QED
  BY <1>4, <1>5, <1>6, <1>7

\* Moving the default changes the default of the agents and nothing else, and
\* outdates what other calls have found.
LEMMA CommitEffects ==
    ASSUME TypeOK, NEW c \in Calls, CommitDefault(c)
    PROVE  /\ call[c] \in Update /\ call[c].at = "clear" /\ call[c].id \in Ids
           /\ UNCHANGED <<live, ops, tokens, promises>>
           /\ call'[c] = Idle
           /\ \A d \in Calls \ {c} :
                \/ call'[d] = call[d] /\ (Exists(call[c].id) => d \notin Outdates(c))
                \/ /\ d \in Outdates(c) /\ Exists(call[c].id)
                   /\ call'[d] \in Update /\ call'[d].late
                   /\ call'[d].at = call[d].at /\ call'[d].id = call[d].id
           /\ \/ UNCHANGED <<row, raced>> /\ ~Exists(call[c].id)
              \/ /\ Exists(call[c].id) /\ raced' = (IF call[c].late THEN {"two"} ELSE {})
                 /\ row' = [j \in Ids |->
                      IF j = call[c].id THEN [row[j] EXCEPT !.isDefault = TRUE]
                      ELSE IF j \in call[c].seen /\ Exists(j)
                           THEN [row[j] EXCEPT !.isDefault = FALSE] ELSE row[j]]
           /\ \A j \in Ids :
                /\ Exists(j)' <=> Exists(j)
                /\ row'[j] = None <=> row[j] = None
                /\ row'[j].identifier = row[j].identifier
                /\ Exists(j) => /\ row'[j].mode = row[j].mode /\ row'[j].token = row[j].token
                                /\ row'[j].did = row[j].did /\ row'[j].grants = row[j].grants
                                /\ row'[j].limits = row[j].limits
<1> DEFINE i == call[c].id
<1>1. call[c] \in Update /\ call[c].at = "clear" /\ i \in Ids
  BY Kinds DEF CommitDefault, At, UpdatePlaces, Update
<1>2. UNCHANGED <<live, ops, tokens, promises>>
  BY DEF CommitDefault
<1>3. CASE Exists(i)
  <2>1. /\ row' = [j \in Ids |->
             IF j = i THEN [row[j] EXCEPT !.isDefault = TRUE]
             ELSE IF j \in call[c].seen /\ Exists(j)
                  THEN [row[j] EXCEPT !.isDefault = FALSE] ELSE row[j]]
        /\ raced' = (IF call[c].late THEN {"two"} ELSE {})
        /\ call' = [d \in Calls |-> IF d = c THEN Idle
                     ELSE IF d \in Outdates(c) THEN [call[d] EXCEPT !.late = TRUE] ELSE call[d]]
    BY <1>3 DEF CommitDefault
  <2>2. Outdates(c) \in SUBSET Calls /\ \A d \in Outdates(c) : call[d] \in Update
    BY Kinds DEF Outdates, At, UpdatePlaces
  <2>3. /\ call'[c] = Idle
        /\ \A d \in Calls \ {c} :
             /\ d \in Outdates(c) => /\ call'[d] \in Update /\ call'[d].late
                                     /\ call'[d].at = call[d].at /\ call'[d].id = call[d].id
             /\ d \notin Outdates(c) => call'[d] = call[d]
    <3> DEFINE S == Outdates(c)
    <3>1. S \in SUBSET Calls /\ \A d \in S : call[d] \in Update
      BY <2>2
    <3>2. call' = [d \in Calls |-> IF d = c THEN Idle
                     ELSE IF d \in S THEN [call[d] EXCEPT !.late = TRUE] ELSE call[d]]
      BY <2>1
    <3> HIDE DEF S
    <3>3. /\ call'[c] = Idle
          /\ \A d \in Calls \ {c} :
               /\ d \in S => /\ call'[d] \in Update /\ call'[d].late
                             /\ call'[d].at = call[d].at /\ call'[d].id = call[d].id
               /\ d \notin S => call'[d] = call[d]
      BY <3>1, <3>2, Lates
    <3>4. QED
      BY <3>3 DEF S
  <2>4. ASSUME NEW j \in Ids
        PROVE  /\ Exists(j)' <=> Exists(j)
               /\ row'[j] = None <=> row[j] = None
               /\ row'[j].identifier = row[j].identifier
               /\ Exists(j) => /\ row'[j].mode = row[j].mode /\ row'[j].token = row[j].token
                               /\ row'[j].did = row[j].did /\ row'[j].grants = row[j].grants
                               /\ row'[j].limits = row[j].limits
    <3>1. CASE row'[j] = row[j]
      BY <3>1 DEF Exists
    <3>2. ASSUME Exists(j), NEW b \in BOOLEAN, row'[j] = [row[j] EXCEPT !.isDefault = b]
          PROVE  /\ Exists(j)' <=> Exists(j)
                 /\ row'[j] = None <=> row[j] = None
                 /\ row'[j].identifier = row[j].identifier
                 /\ row'[j].mode = row[j].mode /\ row'[j].token = row[j].token
                 /\ row'[j].did = row[j].did /\ row'[j].grants = row[j].grants
                 /\ row'[j].limits = row[j].limits
      <4>1. row[j] \in Agent /\ row'[j] \in Agent
        BY <3>2, RowFields
      <4>2. QED
        BY <3>2, <4>1, Rows DEF Exists, Agent
    <3>3. row'[j] = row[j] \/ (Exists(j) /\ \E b \in BOOLEAN : row'[j] = [row[j] EXCEPT !.isDefault = b])
      BY <1>3, <2>1
    <3>4. QED
      BY <3>1, <3>2, <3>3
  <2>5. QED
    BY <1>1, <1>2, <1>3, <2>1, <2>3, <2>4
<1>4. CASE ~Exists(i)
  <2>1. End(c) /\ UNCHANGED <<row, raced>>
    BY <1>4 DEF CommitDefault
  <2>2. QED
    BY <1>1, <1>2, <1>4, <2>1, Ends DEF Exists
<1>5. QED
  BY <1>3, <1>4

\* Creating a default agent does not see the commits of others either.
LEMMA SeedEffects ==
    ASSUME TypeOK, NEW c \in Calls, SeedRow(c)
    PROVE  /\ call[c] \in Update /\ call[c].at = "seed"
           /\ UNCHANGED <<live, ops, tokens, promises>>
           /\ call'[c] = Idle
           /\ \/ UNCHANGED <<row, raced>> /\ \A d \in Calls \ {c} : call'[d] = call[d]
              \/ /\ \E i \in Ids :
                      /\ row[i] = None
                      /\ row' = [row EXCEPT ![i] = [NewAgent("default", "all") EXCEPT !.isDefault = TRUE]]
                 /\ raced' = (IF Defaults = {} THEN {} ELSE {"two"})
                 /\ \A d \in Calls \ {c} :
                      IF At(d, "clear")
                        THEN /\ call'[d] \in Update /\ call'[d].late
                             /\ call'[d].at = "clear" /\ call'[d].id = call[d].id
                        ELSE call'[d] = call[d]
<1>1. call[c] \in Update /\ call[c].at = "seed"
  BY Kinds DEF SeedRow, At, UpdatePlaces
<1>2. UNCHANGED <<live, ops, tokens, promises>>
  BY DEF SeedRow
<1>3. CASE Named("default") # {}
  BY <1>1, <1>2, <1>3, Ends DEF SeedRow
<1>4. CASE Named("default") = {}
  <2> DEFINE S == {d \in Calls : At(d, "clear")}
  <2>1. \A d \in S : call[d] \in Update
    BY Kinds DEF At, UpdatePlaces
  <2>2. call' = [d \in Calls |-> IF d = c THEN Idle
                   ELSE IF d \in S THEN [call[d] EXCEPT !.late = TRUE] ELSE call[d]]
    BY <1>4 DEF SeedRow
  <2>3. S \in SUBSET Calls
    OBVIOUS
  <2>4. /\ call'[c] = Idle
        /\ \A d \in Calls \ {c} :
             /\ d \in S => /\ call'[d] \in Update /\ call'[d].late
                           /\ call'[d].at = call[d].at /\ call'[d].id = call[d].id
             /\ d \notin S => call'[d] = call[d]
    <3> HIDE DEF S
    <3>1. QED
      BY <2>1, <2>2, <2>3, Lates
  <2>5. QED
    BY <1>1, <1>2, <1>4, <2>4 DEF SeedRow, At
<1>5. QED
  BY <1>3, <1>4

\* An id never gets a second row.
RowsStay ==
    \A i \in Ids : row[i] # None =>
        \/ row'[i] = Gone
        \/ Exists(i) /\ Exists(i)' /\ row'[i].identifier = row[i].identifier

LEMMA RowsStayRows ==
    ASSUME TypeOK
    PROVE  /\ UNCHANGED row => RowsStay
           /\ \A i \in Ids : \A x : row[i] = None /\ row' = [row EXCEPT ![i] = x] => RowsStay
           /\ \A i \in Ids : \A x \in Agent : Touches(i, x) => RowsStay
<1>1. ASSUME UNCHANGED row
      PROVE  RowsStay
  BY <1>1 DEF RowsStay, Exists
<1>2. ASSUME NEW i \in Ids, NEW x, row[i] = None, row' = [row EXCEPT ![i] = x]
      PROVE  RowsStay
  BY <1>2 DEF RowsStay, Exists, TypeOK, RegistryTypeOK
<1>3. ASSUME NEW i \in Ids, NEW x \in Agent, Touches(i, x)
      PROVE  RowsStay
  <2>1. /\ row'[i] = x /\ x.identifier = row[i].identifier /\ Exists(i)
        /\ \A j \in Ids \ {i} : row'[j] = row[j]
        /\ \A j \in Ids : Exists(j)' <=> Exists(j)
    BY <1>3, RowWrites DEF Touches
  <2>2. QED
    BY <2>1 DEF RowsStay, Exists
<1>4. QED
  BY <1>1, <1>2, <1>3

\* A call still knows what it found, once it goes on from there.
LEMMA StillInformed ==
    ASSUME NEW d \in Calls, Informed(d), RowsStay, TypeOK,
           call'[d].at \in UpdatePlaces \ {"seed"} =>
             /\ call'[d].id \in Ids
             /\ \/ call[d].at \in UpdatePlaces \ {"seed"} /\ call'[d].id = call[d].id
                \/ row[call'[d].id] # None,
           \A i \in Ids : CreatedBy(d, i)' =>
             \/ CreatedBy(d, i)
             \/ Exists(i)' /\ row'[i].identifier = "child"
    PROVE  Informed(d)'
<1>1. \A i \in Ids : row[i] # None => row'[i] # None
  BY Rows DEF RowsStay, Exists
<1>2. call'[d].at \in UpdatePlaces \ {"seed"} => row'[call'[d].id] # None
  BY <1>1 DEF Informed
<1>3. ASSUME NEW i \in Ids, CreatedBy(d, i)'
      PROVE  row'[i] = Gone \/ (Exists(i)' /\ row'[i].identifier = "child")
  <2>1. CASE CreatedBy(d, i)
    <3>1. row[i] = Gone \/ (Exists(i) /\ row[i].identifier = "child")
      BY <2>1 DEF Informed
    <3>2. row[i] # None
      BY <3>1, Rows DEF Exists
    <3>3. row'[i] = Gone \/ (Exists(i) /\ Exists(i)' /\ row'[i].identifier = row[i].identifier)
      BY <3>2 DEF RowsStay
    <3>4. QED
      BY <3>1, <3>3 DEF Exists
  <2>2. QED
    BY <1>3, <2>1
<1>4. QED
  BY <1>2, <1>3 DEF Informed

\* The calls of the agents still know the agent they are about.
LEMMA RegistryInformed ==
    ASSUME TypeOK, RegistryNext, \A d \in Calls : Informed(d)
    PROVE  RowsStay /\ \A d \in Calls : Informed(d)'
<1> USE DEF CreatePlaces, UpdatePlaces, At
<1> DEFINE Goal == RowsStay /\ \A d \in Calls : Informed(d)'
           Same(d) == call'[d] = call[d] \/ call'[d] = Idle
           Late(d) == /\ call[d] \in Update /\ call'[d] \in Update
                      /\ call'[d].at = call[d].at /\ call'[d].id = call[d].id
<1>0. \A d \in Calls : call[d] \in Update => call[d].id \in Ids /\ call[d].at \in UpdatePlaces
  BY DEF Update
<1>1. ASSUME RowsStay, NEW d \in Calls, Same(d)
      PROVE  Informed(d)'
  <2>1. call[d].at \in UpdatePlaces \ {"seed"} => call[d].id \in Ids
    BY <1>0, Kinds
  <2>2. \A i \in Ids : CreatedBy(d, i)' => CreatedBy(d, i)
    BY <1>1 DEF CreatedBy, Idle
  <2>3. QED
    BY <1>1, <2>1, <2>2, StillInformed DEF Idle
<1>2. ASSUME RowsStay, NEW d \in Calls, Late(d)
      PROVE  Informed(d)'
  <2>1. call[d].id \in Ids
    BY <1>0, <1>2
  <2>2. call[d].at \in UpdatePlaces
    BY <1>0, <1>2
  <2>3. \A i \in Ids : ~CreatedBy(d, i)'
    BY <1>2, <2>2 DEF CreatedBy
  <2>4. QED
    BY <1>2, <2>1, <2>2, <2>3, StillInformed
<1>3. ASSUME NEW c \in Calls, CreateStep(c)
      PROVE  Goal
  <2>1. /\ call'[c] \in {Idle} \cup Create
        /\ \A d \in Calls \ {c} : call'[d] = call[d]
        /\ \/ UNCHANGED row /\ \A i \in Ids : CreatedBy(c, i)' => CreatedBy(c, i)
           \/ \E i \in Ids :
                /\ row[i] = None /\ row' = [row EXCEPT ![i] = NewAgent("child", call[c].mode)]
                /\ call'[c] = [call[c] EXCEPT !.at = "did", !.id = i]
           \/ \E i \in Ids, x \in Agent :
                /\ CreatedBy(c, i) /\ Touches(i, x)
                /\ \A j \in Ids : CreatedBy(c, j)' => CreatedBy(c, j)
    BY <1>3, CreateEffects
  <2>2. RowsStay
    BY <2>1, RowsStayRows
  <2>3. call'[c].at \notin UpdatePlaces
    <3>1. \A s \in {Idle} \cup Create : s.at \notin UpdatePlaces
      BY DEF Idle, Create
    <3>2. QED
      BY <2>1, <3>1
  <2>4. ASSUME \A i \in Ids : CreatedBy(c, i)' => CreatedBy(c, i)
        PROVE  Informed(c)'
    BY <2>2, <2>3, <2>4, StillInformed
  <2>5. ASSUME NEW i \in Ids, row[i] = None,
               row' = [row EXCEPT ![i] = NewAgent("child", call[c].mode)],
               call'[c] = [call[c] EXCEPT !.at = "did", !.id = i]
        PROVE  Informed(c)'
    <3>1. Exists(i)' /\ row'[i].identifier = "child"
      BY <2>5 DEF TypeOK, RegistryTypeOK, Exists, NewAgent, None, Gone
    <3>2. ASSUME NEW j \in Ids, CreatedBy(c, j)'
          PROVE  j = i
      <4>1. call'[c] \in Create
        <5>1. call'[c].at # "idle"
          BY <3>2 DEF CreatedBy
        <5>2. call'[c] # Idle
          BY <5>1 DEF Idle
        <5>3. QED
          BY <2>1, <5>2
      <4>2. call'[c].id = j
        BY <3>2 DEF CreatedBy
      <4>3. "id" \in DOMAIN call'[c]
        BY <4>1 DEF Create
      <4>4. call'[c].id = i
        BY <2>5, <4>3
      <4>5. QED
        BY <4>2, <4>4
    <3>3. QED
      BY <2>2, <2>3, <3>1, <3>2, StillInformed
  <2>6. Informed(c)'
    BY <2>1, <2>4, <2>5
  <2>7. QED
    BY <1>1, <2>1, <2>2, <2>6
<1>4. ASSUME NEW c \in Calls, FindDefault(c)
      PROVE  Goal
  <2>1. RowsStay
    BY <1>4, RowsStayRows DEF FindDefault, registry
  <2>2. /\ call'[c].at = "seed"
        /\ \A d \in Calls \ {c} : call'[d] = call[d]
    BY <1>4 DEF FindDefault, Begin, TypeOK
  <2>3. Informed(c)'
    BY <2>1, <2>2, StillInformed DEF CreatedBy
  <2>4. QED
    BY <1>1, <2>1, <2>2, <2>3
<1>5. ASSUME NEW c \in Calls, SeedRow(c)
      PROVE  Goal
  <2>1. RowsStay /\ \A d \in Calls : Same(d) \/ Late(d)
    BY <1>5, SeedEffects, RowsStayRows, Kinds
  <2>2. QED
    BY <1>1, <1>2, <2>1
<1>6. ASSUME NEW c \in Calls, SeeDefaults(c)
      PROVE  Goal
  <2>1. RowsStay
    BY <1>6, RowsStayRows DEF SeeDefaults, registry
  <2>2. call[c] \in Update
    BY <1>6, Kinds DEF SeeDefaults
  <2>3. /\ call'[c].at = "clear" /\ call'[c].id = call[c].id
        /\ \A d \in Calls \ {c} : call'[d] = call[d]
    BY <1>6, <2>2 DEF SeeDefaults, TypeOK, Update
  <2>4. Informed(c)'
    BY <1>0, <1>6, <2>1, <2>2, <2>3, StillInformed DEF CreatedBy, SeeDefaults
  <2>5. QED
    BY <1>1, <2>1, <2>3, <2>4
<1>7. ASSUME NEW c \in Calls, CommitDefault(c)
      PROVE  Goal
  <2>1. RowsStay
    BY <1>7, CommitEffects DEF RowsStay, Exists
  <2>2. \A d \in Calls : Same(d) \/ Late(d)
    BY <1>7, CommitEffects, Kinds DEF Outdates
  <2>3. QED
    BY <1>1, <1>2, <2>1, <2>2
<1>8. ASSUME NEW c \in Calls, DeleteRow(c)
      PROVE  Goal
  <2>1. RowsStay
    BY <1>8 DEF DeleteRow, RowsStay, Exists, TypeOK, RegistryTypeOK
  <2>2. \A d \in Calls : Same(d)
    BY <1>8, Ends DEF DeleteRow
  <2>3. QED
    BY <1>1, <2>1, <2>2
<1>9. ASSUME NEW c \in Calls,
             WriteToken(c) \/ WriteRevoked(c) \/ WriteMode(c) \/ ReplaceGrants(c)
      PROVE  Goal
  <2>1. call[c].id \in Ids
    BY <1>0, <1>9, WriteEffects
  <2>2. RowsStay
    BY <1>9, <2>1, WriteEffects, RowsStayRows
  <2>3. \A d \in Calls : Same(d) \/ Late(d)
    BY <1>9, WriteEffects, Kinds
  <2>4. QED
    BY <1>1, <1>2, <2>2, <2>3
<1>10. ASSUME NEW c \in Calls, FailAgentCall(c)
       PROVE  Goal
  <2>1. RowsStay /\ \A d \in Calls : Same(d)
    BY <1>10, RowsStayRows, Ends DEF FailAgentCall
  <2>2. QED
    BY <1>1, <2>1
<1>11. ASSUME NEW c \in Calls, NEW i \in Ids, Find(c, i)
       PROVE  Goal
  <2>1. /\ RowsStay /\ Exists(i) /\ call'[c] \in Update /\ call'[c].id = i
        /\ \A d \in Calls \ {c} : call'[d] = call[d]
    BY <1>11, FindTypes, RowsStayRows
  <2>2. call'[c].at \in UpdatePlaces /\ row[i] # None
    BY <2>1 DEF Update, Exists
  <2>3. Informed(c)'
    BY <2>1, <2>2, StillInformed DEF CreatedBy
  <2>4. QED
    BY <1>1, <2>1, <2>3
<1>12. ASSUME NEW t \in Secrets, deleteSecret(t)
       PROVE  Goal
  <2>1. RowsStay
    BY <1>12, ForgetTypes DEF deleteSecret, RowsStay, Exists
  <2>2. \A d \in Calls : Same(d)
    BY <1>12 DEF deleteSecret
  <2>3. QED
    BY <1>1, <2>1, <2>2
<1>13. CASE NextMillisecond
  <2>1. RowsStay /\ \A d \in Calls : Same(d)
    BY <1>13, RowsStayRows DEF NextMillisecond
  <2>2. QED
    BY <1>1, <2>1
<1>14. QED
  BY <1>3, <1>4, <1>5, <1>6, <1>7, <1>8, <1>9, <1>10, <1>11, <1>12, <1>13
  DEF RegistryNext, Seed, Write

\* No step of the app touches what they know.
LEMMA AppInformed ==
    ASSUME TypeOK, TypeOK', AppsOnly, \A d \in Calls : Informed(d)
    PROVE  /\ RowsStay /\ \A d \in Calls : Informed(d)'
           /\ \A i \in Ids : /\ Exists(i)' <=> Exists(i)
                             /\ row'[i] = None <=> row[i] = None
                             /\ row'[i].identifier = row[i].identifier
                             /\ Exists(i) => /\ row'[i].mode = row[i].mode
                                             /\ row'[i].token = row[i].token
                                             /\ row'[i].did = row[i].did
                                             /\ row'[i].isDefault = row[i].isDefault
                                             /\ row'[i].grants \subseteq row[i].grants
                                             /\ Access(row'[i]) \subseteq Access(row[i])
           /\ \A d \in Calls : /\ call'[d].at \in CreatePlaces \cup UpdatePlaces => call'[d] = call[d]
                               /\ call[d].at \in CreatePlaces \cup UpdatePlaces => call'[d] = call[d]
           /\ \A d \in Calls, i \in Ids : CreatedBy(d, i)' <=> CreatedBy(d, i)
<1>1. ASSUME NEW i \in Ids
      PROVE  /\ Exists(i)' <=> Exists(i)
             /\ row'[i] = None <=> row[i] = None
             /\ row'[i].identifier = row[i].identifier
             /\ Exists(i) => /\ row'[i].mode = row[i].mode
                             /\ row'[i].token = row[i].token
                             /\ row'[i].did = row[i].did
                             /\ row'[i].isDefault = row[i].isDefault
                             /\ row'[i].grants \subseteq row[i].grants
                             /\ Access(row'[i]) \subseteq Access(row[i])
  <2>1. CASE UNCHANGED row
    BY <2>1 DEF Exists
  <2>2. ASSUME NEW things \in SUBSET Apps, Forget(things)
        PROVE  /\ Exists(i)' <=> Exists(i)
               /\ row'[i] = None <=> row[i] = None
               /\ row'[i].identifier = row[i].identifier
               /\ Exists(i) => /\ row'[i].mode = row[i].mode
                               /\ row'[i].token = row[i].token
                               /\ row'[i].did = row[i].did
                               /\ row'[i].isDefault = row[i].isDefault
                               /\ row'[i].grants \subseteq row[i].grants
                               /\ Access(row'[i]) \subseteq Access(row[i])
    <3>1. Exists(i) => Lost(i, things)
      BY <2>2, ForgetTypes
    <3>2. QED
      BY <2>2, <3>1, ForgetTypes DEF Lost
  <2>3. QED
    BY <2>1, <2>2 DEF AppsOnly
<1>2. ASSUME NEW d \in Calls
      PROVE  /\ call'[d].at \in CreatePlaces \cup UpdatePlaces => call'[d] = call[d]
             /\ call[d].at \in CreatePlaces \cup UpdatePlaces => call'[d] = call[d]
  <2>1. call'[d] \in AnyCall
    BY DEF TypeOK, AnyCall
  <2>2. QED
    BY <2>1, Places, Kinds DEF AppsOnly
<1>3. ASSUME NEW d \in Calls, NEW i \in Ids
      PROVE  CreatedBy(d, i)' <=> CreatedBy(d, i)
  BY <1>2 DEF CreatedBy, CreatePlaces
<1>4. RowsStay
  BY <1>1 DEF RowsStay, Exists
<1>5. ASSUME NEW d \in Calls
      PROVE  Informed(d)'
  <2>1. call[d].at \in UpdatePlaces => call[d].id \in Ids
    BY Kinds DEF Update
  <2>2. QED
    BY <1>2, <1>3, <1>4, <2>1, StillInformed
<1>6. QED
  BY <1>1, <1>2, <1>3, <1>4, <1>5

Sound == TypeOK /\ Working

LEMMA InitSound ==
    ASSUME Init
    PROVE  Sound /\ \A c \in Calls : call[c] = Idle
<1> USE DEF Init, RegistryInit
<1>1. call = [c \in Calls |-> Idle]
  OBVIOUS
<1>2. /\ NewAgent("other", "all") \in Agent
      /\ [NewAgent("default", "all") EXCEPT !.isDefault = TRUE] \in Agent
  BY DEF NewAgent, Agent, Modes
<1>3. row \in [Ids -> Agent \cup {None, Gone}]
  BY <1>2
<1>4. conn \in [Apps -> Connection \cup {None, Gone}]
  <2>1. \A label \in Labels : [label |-> label, client |-> EnvClient] \in Connection
    BY AppAssumption DEF Connection, EnvClient
  <2>2. QED
    BY <2>1
<1>5. live \subseteq Things /\ live \cap Apps = Connections
  BY RegistryAssumption DEF Things, Connections
<1>6. RegistryTypeOK
  BY <1>3, <1>5 DEF RegistryTypeOK
<1>7. config \in [client : 0..MaxClient, enabled : BOOLEAN] /\ clients \in 0..MaxClient
  BY AppAssumption DEF EnvClient
<1>8. TypeOK
  BY <1>1, <1>4, <1>5, <1>6, <1>7 DEF TypeOK, AgentCall
<1>9. Working
  BY <1>1 DEF Working, Prepared, Informed, At, CreatedBy, Idle, BlockPlaces, UpdatePlaces
<1>10. QED
  BY <1>1, <1>8, <1>9 DEF Sound

\* Every step is one of the agents' calls or one of the app's.
LEMMA NextCases ==
    ASSUME Next
    PROVE  (RegistryNext /\ UNCHANGED app) \/ AppStep
  BY DEF Next, AppStep

LEMMA NextSound ==
    ASSUME Sound, Next
    PROVE  Sound'
<1>1. TypeOK /\ (\A d \in Calls : Prepared(d)) /\ \A d \in Calls : Informed(d)
  BY DEF Sound, Working
<1>2. CASE RegistryNext /\ UNCHANGED app
  <2>1. TypeOK' /\ \A d \in Calls : Prepared(d)'
    BY <1>1, <1>2, RegistryStepTypes
  <2>2. \A d \in Calls : Informed(d)'
    BY <1>1, <1>2, RegistryInformed
  <2>3. QED
    BY <2>1, <2>2 DEF Sound, Working
<1>3. CASE AppStep
  <2>1. TypeOK' /\ AppsOnly /\ \A d \in Calls : Prepared(d)'
    BY <1>1, <1>3, AppStepTypes
  <2>2. \A d \in Calls : Informed(d)'
    BY <1>1, <2>1, AppInformed
  <2>3. QED
    BY <2>1, <2>2 DEF Sound, Working
<1>4. QED
  BY <1>2, <1>3, NextCases

\* Nothing moves when the variables stay.
LEMMA Stutter ==
    ASSUME UNCHANGED vars
    PROVE  /\ UNCHANGED <<row, live, ops, raced, stamped, killed, revived, cap, owed, mixed, broken>>
           /\ UNCHANGED <<call, conn, rule, bare, kept, method, config, clients, foreign>>
  BY DEF vars, registry, tokens, promises, app, rules, settings

LEMMA SoundAlways == Spec => []Sound
<1>1. Init => Sound
  BY InitSound
<1>2. Sound /\ [Next]_vars => Sound'
  <2>1. ASSUME Sound, UNCHANGED vars
        PROVE  Sound'
    <3>1. TypeOK'
      <4>1. RegistryTypeOK /\ TypeOK
        BY <2>1 DEF Sound, TypeOK
      <4>2. RegistryTypeOK'
        BY <2>1, <4>1, Stutter DEF RegistryTypeOK
      <4>3. Connections' = Connections /\ Hosts' = Hosts
        BY <2>1, Stutter DEF Connections, Hosts
      <4>4. QED
        BY <2>1, <4>1, <4>2, <4>3, Stutter DEF TypeOK
    <3>2. Working'
      BY <2>1, Stutter DEF Sound, Working, Prepared, Informed, At, CreatedBy, Exists, Hosts
    <3>3. QED
      BY <3>1, <3>2 DEF Sound
  <2>2. QED
    BY <2>1, NextSound
<1>3. QED
  BY <1>1, <1>2, PTL DEF Spec

(* Every variable has its type, in any interleaving of the calls: a call    *)
(* that writes by an id it looked up before writes a row of that table, or  *)
(* notices that it is gone (agent-service.ts, app-blocklist-service.ts).    *)
THEOREM TypeCorrect == Spec => []TypeOK
<1>1. Sound => TypeOK
  BY DEF Sound
<1>2. QED
  BY <1>1, SoundAlways, PTL

-----------------------------------------------------------------------------
(* The default agent                                                        *)

(* A call that moves the default has seen all there are, and one that       *)
(* deletes is about an agent that is not the default, unless another commit *)
(* came in between.                                                         *)
Seen ==
    /\ "two" \notin raced => \A i, j \in Defaults : i = j
    /\ Defaults = {} => "none" \in raced
    /\ \A c \in Calls :
         /\ At(c, "clear") /\ ~call[c].late => Defaults \subseteq call[c].seen
         /\ At(c, "delete") /\ call[c].id \in Defaults => call[c].late

\* A step that moves no default, and takes no call to where it matters.
LEMMA SeenStays ==
    ASSUME Seen, raced' = raced, Defaults' = Defaults,
           \A d \in Calls : call'[d].at \in {"clear", "delete"} => call'[d] = call[d]
    PROVE  Seen'
  BY DEF Seen, At

LEMMA SameDefaults ==
    ASSUME TypeOK
    PROVE  /\ UNCHANGED row => Defaults' = Defaults
           /\ \A i \in Ids : \A x \in Agent : Touches(i, x) => Defaults' = Defaults
           /\ \A i \in Ids : \A x \in Agent :
                row[i] = None /\ row' = [row EXCEPT ![i] = x] =>
                  Defaults' = IF x.isDefault THEN Defaults \cup {i} ELSE Defaults
<1>1. UNCHANGED row => Defaults' = Defaults
  BY DEF Defaults, Exists
<1>2. ASSUME NEW i \in Ids, NEW x \in Agent, Touches(i, x)
      PROVE  Defaults' = Defaults
  <2>1. /\ row'[i] = x /\ x.isDefault = row[i].isDefault /\ Exists(i)
        /\ \A j \in Ids \ {i} : row'[j] = row[j]
        /\ \A j \in Ids : Exists(j)' <=> Exists(j)
    BY <1>2, RowWrites DEF Touches
  <2>2. QED
    BY <2>1 DEF Defaults
<1>3. ASSUME NEW i \in Ids, NEW x \in Agent, row[i] = None, row' = [row EXCEPT ![i] = x]
      PROVE  Defaults' = IF x.isDefault THEN Defaults \cup {i} ELSE Defaults
  <2>1. row'[i] = x /\ \A j \in Ids \ {i} : row'[j] = row[j]
    BY <1>3 DEF TypeOK, RegistryTypeOK
  <2>2. Exists(i)' /\ ~Exists(i) /\ \A j \in Ids \ {i} : Exists(j)' <=> Exists(j)
    BY <1>3, <2>1, Rows DEF Exists
  <2>3. QED
    BY <2>1, <2>2 DEF Defaults
<1>4. QED
  BY <1>1, <1>2, <1>3

\* No step of the agents' calls breaks it.
LEMMA RegistrySeen ==
    ASSUME Sound, RegistryNext, Seen
    PROVE  Seen'
<1>0. TypeOK /\ \A d \in Calls : Informed(d)
  BY DEF Sound, Working
<1> USE DEF At
<1>1. ASSUME NEW c \in Calls, CreateStep(c)
      PROVE  Seen'
  <2>1. /\ call'[c] \in {Idle} \cup Create /\ raced' = raced
        /\ \A d \in Calls \ {c} : call'[d] = call[d]
        /\ \/ UNCHANGED row
           \/ \E i \in Ids :
                /\ At(c, "row")
                /\ row[i] = None /\ row' = [row EXCEPT ![i] = NewAgent("child", call[c].mode)]
           \/ \E i \in Ids, x \in Agent : Touches(i, x)
    BY <1>0, <1>1, CreateEffects
  <2>2. call'[c].at \notin {"clear", "delete"}
    <3>1. \A s \in {Idle} \cup Create : s.at \notin {"clear", "delete"}
      BY DEF Idle, Create
    <3>2. QED
      BY <2>1, <3>1
  <2>3. ASSUME NEW i \in Ids, At(c, "row"), row[i] = None,
               row' = [row EXCEPT ![i] = NewAgent("child", call[c].mode)]
        PROVE  Defaults' = Defaults
    <3>1. call[c] \in Create
      BY <1>0, <2>3, Kinds DEF CreatePlaces
    <3>2. NewAgent("child", call[c].mode) \in Agent /\ ~NewAgent("child", call[c].mode).isDefault
      BY <3>1 DEF NewAgent, Agent, Create
    <3>3. QED
      BY <1>0, <2>3, <3>2, SameDefaults
  <2>4. Defaults' = Defaults
    BY <1>0, <2>1, <2>3, SameDefaults
  <2>5. QED
    BY <2>1, <2>2, <2>4, SeenStays
<1>2. ASSUME NEW c \in Calls, FindDefault(c)
      PROVE  Seen'
  <2>1. raced' = raced /\ Defaults' = Defaults
    BY <1>0, <1>2, SameDefaults DEF FindDefault, registry
  <2>2. \A d \in Calls : call'[d].at \in {"clear", "delete"} => call'[d] = call[d]
    BY <1>0, <1>2 DEF FindDefault, Begin, TypeOK
  <2>3. QED
    BY <2>1, <2>2, SeenStays
<1>3. ASSUME NEW c \in Calls, SeedRow(c)
      PROVE  Seen'
  <2>1. CASE UNCHANGED <<row, raced>> /\ \A d \in Calls \ {c} : call'[d] = call[d]
    <3>1. call'[c].at = "idle"
      BY <1>0, <1>3, SeedEffects DEF Idle
    <3>2. QED
      BY <1>0, <2>1, <3>1, SameDefaults, SeenStays
  <2>2. ASSUME NEW i \in Ids, row[i] = None,
               row' = [row EXCEPT ![i] = [NewAgent("default", "all") EXCEPT !.isDefault = TRUE]],
               raced' = (IF Defaults = {} THEN {} ELSE {"two"}),
               \A d \in Calls \ {c} :
                 IF At(d, "clear")
                   THEN /\ call'[d] \in Update /\ call'[d].late
                        /\ call'[d].at = "clear" /\ call'[d].id = call[d].id
                   ELSE call'[d] = call[d]
        PROVE  Seen'
    <3>1. Defaults' = Defaults \cup {i}
      <4> DEFINE x == [NewAgent("default", "all") EXCEPT !.isDefault = TRUE]
      <4>1. x \in Agent /\ x.isDefault
        BY DEF NewAgent, Agent, Modes
      <4>2. row' = [row EXCEPT ![i] = x]
        BY <2>2
      <4> HIDE DEF x
      <4>3. QED
        BY <1>0, <2>2, <4>1, <4>2, SameDefaults
    <3>2. call'[c].at = "idle"
      BY <1>0, <1>3, SeedEffects DEF Idle
    <3>3. \A d \in Calls : call[d].at = "delete" => call[d].id # i
      BY <1>0, <2>2 DEF Informed, UpdatePlaces
    <3>4. "two" \notin raced' => \A j, k \in Defaults' : j = k
      BY <2>2, <3>1
    <3>5. ASSUME NEW d \in Calls
          PROVE  /\ call'[d].at = "clear" => call'[d].late
                 /\ call'[d].at = "delete" /\ call'[d].id \in Defaults' => call'[d].late
      BY <2>2, <3>1, <3>2, <3>3 DEF Seen
    <3>6. QED
      BY <3>1, <3>4, <3>5 DEF Seen
  <2>3. QED
    BY <1>0, <1>3, <2>1, <2>2, SeedEffects
<1>4. ASSUME NEW c \in Calls, SeeDefaults(c)
      PROVE  Seen'
  <2>1. call[c] \in Update
    BY <1>0, <1>4, Kinds DEF SeeDefaults, UpdatePlaces
  <2>2. /\ call'[c].at = "clear" /\ call'[c].seen = Defaults
        /\ \A d \in Calls \ {c} : call'[d] = call[d]
    BY <1>0, <1>4, <2>1 DEF SeeDefaults, TypeOK, Update
  <2>3. raced' = raced /\ Defaults' = Defaults
    BY <1>0, <1>4, SameDefaults DEF SeeDefaults, registry
  <2>4. QED
    BY <2>2, <2>3 DEF Seen
<1>5. ASSUME NEW c \in Calls, CommitDefault(c)
      PROVE  Seen'
  <2> DEFINE i == call[c].id
  <2>1. call[c].at = "clear" /\ i \in Ids /\ call'[c].at = "idle"
    BY <1>0, <1>5, CommitEffects DEF Idle
  <2>2. CASE ~Exists(i)
    <3>1. UNCHANGED <<row, raced>> /\ \A d \in Calls \ {c} : call'[d] = call[d]
      BY <1>0, <1>5, <2>2, CommitEffects
    <3>2. QED
      BY <1>0, <2>1, <3>1, SameDefaults, SeenStays
  <2>3. CASE Exists(i)
    <3>1. /\ raced' = (IF call[c].late THEN {"two"} ELSE {})
          /\ row' = [j \in Ids |->
                      IF j = i THEN [row[j] EXCEPT !.isDefault = TRUE]
                      ELSE IF j \in call[c].seen /\ Exists(j)
                           THEN [row[j] EXCEPT !.isDefault = FALSE] ELSE row[j]]
          /\ \A j \in Ids : Exists(j)' <=> Exists(j)
      BY <1>0, <1>5, <2>3, CommitEffects
    <3>2. \A j \in Ids : Exists(j) => row[j] \in Agent
      BY <1>0, RowFields
    <3>3. i \in Defaults'
      <4>1. row'[i] = [row[i] EXCEPT !.isDefault = TRUE] /\ row[i] \in Agent
        BY <2>1, <2>3, <3>1, <3>2
      <4>2. row'[i].isDefault
        BY <4>1 DEF Agent
      <4>3. QED
        BY <2>1, <2>3, <3>1, <4>2 DEF Defaults
    <3>4. ASSUME NEW j \in Defaults', j # i
          PROVE  j \in Defaults /\ j \notin call[c].seen
      <4>1. j \in Ids /\ Exists(j) /\ row'[j].isDefault
        BY <3>1, <3>4 DEF Defaults
      <4>2. CASE j \in call[c].seen
        <5>1. row'[j] = [row[j] EXCEPT !.isDefault = FALSE] /\ row[j] \in Agent
          BY <3>1, <3>2, <3>4, <4>1, <4>2
        <5>2. ~row'[j].isDefault
          BY <5>1 DEF Agent
        <5>3. QED
          BY <4>1, <5>2
      <4>3. CASE j \notin call[c].seen
        BY <3>1, <3>4, <4>1, <4>3 DEF Defaults
      <4>4. QED
        BY <4>2, <4>3
    <3>5. "two" \notin raced' => \A j, k \in Defaults' : j = k
      <4>1. "two" \notin raced' => ~call[c].late
        BY <3>1
      <4>2. ~call[c].late => Defaults \subseteq call[c].seen
        BY <2>1 DEF Seen
      <4>3. QED
        BY <3>4, <4>1, <4>2
    <3>6. ASSUME NEW d \in Calls
          PROVE  /\ call'[d].at = "clear" => call'[d].late
                 /\ call'[d].at = "delete" /\ call'[d].id \in Defaults' => call'[d].late
      <4>1. CASE d = c
        BY <2>1, <4>1
      <4>2. CASE d # c /\ d \in Outdates(c)
        BY <1>0, <1>5, <2>3, <4>2, CommitEffects
      <4>3. CASE d # c /\ d \notin Outdates(c)
        <5>1. call'[d] = call[d]
          BY <1>0, <1>5, <4>3, CommitEffects
        <5>2. call[d].at # "clear" /\ (call[d].at = "delete" => call[d].id # i)
          BY <4>3 DEF Outdates
        <5>3. QED
          BY <3>4, <5>1, <5>2 DEF Seen
      <4>4. QED
        BY <4>1, <4>2, <4>3
    <3>7. QED
      BY <3>3, <3>5, <3>6 DEF Seen
  <2>4. QED
    BY <2>2, <2>3
<1>6. ASSUME NEW c \in Calls, DeleteRow(c)
      PROVE  Seen'
  <2> DEFINE i == call[c].id
  <2>1. call[c] \in Update /\ i \in Ids
    BY <1>0, <1>6, Kinds DEF DeleteRow, UpdatePlaces, Update
  <2>2. call'[c].at = "idle" /\ \A d \in Calls \ {c} : call'[d] = call[d]
    BY <1>0, <1>6, Ends DEF DeleteRow
  <2>3. Defaults' = Defaults \ {i}
    BY <1>0, <1>6, <2>1 DEF DeleteRow, Defaults, Exists, TypeOK, RegistryTypeOK
  <2>4. raced' = IF call[c].late THEN raced \cup {"none"} ELSE raced
    BY <1>6 DEF DeleteRow
  <2>5. i \in Defaults => call[c].late
    BY <1>6 DEF DeleteRow, Seen
  <2>6. QED
    BY <2>2, <2>3, <2>4, <2>5 DEF Seen
<1>7. ASSUME NEW c \in Calls,
             WriteToken(c) \/ WriteRevoked(c) \/ WriteMode(c) \/ ReplaceGrants(c)
      PROVE  Seen'
  <2>1. call[c].id \in Ids
    BY <1>0, <1>7, WriteEffects DEF Update
  <2>2. Defaults' = Defaults /\ raced' = raced
    BY <1>0, <1>7, <2>1, WriteEffects, SameDefaults
  <2>3. \A d \in Calls : call'[d].at \in {"clear", "delete"} => call'[d] = call[d]
    BY <1>0, <1>7, WriteEffects DEF Idle
  <2>4. QED
    BY <2>2, <2>3, SeenStays
<1>8. ASSUME NEW c \in Calls, FailAgentCall(c)
      PROVE  Seen'
  <2>1. /\ Defaults' = Defaults /\ raced' = raced /\ call'[c].at = "idle"
        /\ \A d \in Calls \ {c} : call'[d] = call[d]
    BY <1>0, <1>8, SameDefaults, Ends DEF FailAgentCall
  <2>2. QED
    BY <2>1, SeenStays
<1>9. ASSUME NEW c \in Calls, NEW i \in Ids, Find(c, i)
      PROVE  Seen'
  <2>1. /\ UNCHANGED <<row, raced>> /\ call'[c].id = i
        /\ \A d \in Calls \ {c} : call'[d] = call[d]
        /\ call'[c].at # "clear" /\ (call'[c].at = "delete" => ~row[i].isDefault)
    BY <1>0, <1>9, FindTypes
  <2>2. Defaults' = Defaults
    BY <1>0, <2>1, SameDefaults
  <2>3. call'[c].at = "delete" => call'[c].id \notin Defaults'
    BY <2>1, <2>2 DEF Defaults
  <2>4. QED
    BY <2>1, <2>2, <2>3 DEF Seen
<1>10. ASSUME NEW t \in Secrets, deleteSecret(t)
       PROVE  Seen'
  <2>1. Forget({t}) /\ UNCHANGED <<call, raced>>
    BY <1>10 DEF deleteSecret
  <2>2. ASSUME NEW i \in Ids
        PROVE  i \in Defaults' <=> i \in Defaults
    <3>1. Exists(i) => row[i] \in Agent
      BY <1>0, RowFields
    <3>2. /\ Exists(i)' <=> Exists(i)
          /\ Exists(i) => Lost(i, {t})
      BY <1>0, <2>1, ForgetTypes
    <3>3. Exists(i) => row'[i].isDefault = row[i].isDefault
      BY <3>2 DEF Lost
    <3>4. QED
      BY <3>2, <3>3 DEF Defaults
  <2>3. Defaults' = Defaults
    BY <2>2 DEF Defaults
  <2>4. QED
    BY <2>1, <2>3, SeenStays
<1>11. CASE NextMillisecond
  <2>1. Defaults' = Defaults /\ raced' = raced /\ call' = call
    BY <1>0, <1>11, SameDefaults DEF NextMillisecond
  <2>2. QED
    BY <2>1, SeenStays
<1>12. QED
  BY <1>1, <1>2, <1>3, <1>4, <1>5, <1>6, <1>7, <1>8, <1>9, <1>10, <1>11
  DEF RegistryNext, Seed, Write

(* A project has exactly one default agent, unless a setDefaultAgent did    *)
(* not see another commit, or a delete had checked the agent before it      *)
(* became the default: agent-service.ts's transaction and its single        *)
(* statements allow no other exception.                                     *)
THEOREM DefaultAgent == Spec => []DefaultExplained
<1>1. ASSUME Init
      PROVE  Seen
  <2>1. \A c \in Calls : call[c].at = "idle"
    BY <1>1, InitSound DEF Idle
  <2>2. PICK others \in [Ids \ {Default} -> {None, Gone, NewAgent("other", "all")}] :
          row = [i \in Ids |-> IF i = Default
                               THEN [NewAgent("default", "all") EXCEPT !.isDefault = TRUE]
                               ELSE others[i]]
    BY <1>1 DEF Init, RegistryInit
  <2>3. \A i \in Defaults : i = Default
    BY <2>2 DEF Defaults, Exists, NewAgent
  <2>4. Default \in Defaults
    BY <2>2, RegistryAssumption DEF Defaults, Exists, NewAgent, None, Gone
  <2>5. QED
    BY <2>1, <2>3, <2>4 DEF Seen, At
<1>2. ASSUME Sound, Sound', Seen, [Next]_vars
      PROVE  Seen'
  <2>1. CASE AppStep
    <3>1. TypeOK' /\ AppsOnly
      BY <1>2, <2>1, AppStepTypes DEF Sound, Working
    <3>2. /\ \A i \in Ids : /\ Exists(i)' <=> Exists(i)
                            /\ Exists(i) => row'[i].isDefault = row[i].isDefault
          /\ \A d \in Calls : call'[d].at \in CreatePlaces \cup UpdatePlaces => call'[d] = call[d]
      BY <1>2, <3>1, AppInformed DEF Sound, Working
    <3>3. Defaults' = Defaults
      BY <3>2 DEF Defaults
    <3>4. raced' = raced
      BY <3>1 DEF AppsOnly
    <3>5. QED
      BY <1>2, <3>2, <3>3, <3>4, SeenStays DEF UpdatePlaces
  <2>2. CASE UNCHANGED vars
    <3>1. Defaults' = Defaults
      BY <2>2, Stutter DEF Defaults, Exists
    <3>2. QED
      BY <1>2, <2>2, <3>1, Stutter, SeenStays
  <2>3. QED
    BY <1>2, <2>1, <2>2, NextCases, RegistrySeen
<1>3. Seen => DefaultExplained
  <2>1. ASSUME Seen, "two" \notin raced
        PROVE  ~(Cardinality(Defaults) > 1)
    <3>1. CASE Defaults = {}
      BY <3>1, FS_EmptySet
    <3>2. CASE Defaults # {}
      <4>1. PICK i : i \in Defaults
        BY <3>2
      <4>2. Defaults = {i}
        BY <2>1, <4>1 DEF Seen
      <4>3. Cardinality({i}) = 1
        BY FS_Singleton
      <4>4. QED
        BY <4>2, <4>3
    <3>3. QED
      BY <3>1, <3>2
  <2>2. QED
    BY <2>1 DEF Seen, DefaultExplained
<1>4. QED
  BY <1>1, <1>2, <1>3, SoundAlways, PTL DEF Spec

-----------------------------------------------------------------------------
(* The kill switch                                                          *)

(* What a revoked agent's token is, and that only the renewals that had     *)
(* begun before can still write one.                                        *)
Overtaken ==
    /\ \A i \in killed : row[i] # None
    /\ KillHolds
    /\ \A c \in Calls : At(c, "renew") /\ call[c].id \in killed => call[c].late

\* A step that writes no token.
LEMMA OvertakenStays ==
    ASSUME TypeOK, Overtaken, killed' = killed, revived' = revived,
           \A i \in Ids : row[i] # None =>
             row'[i] # None /\ (Exists(i)' => Exists(i) /\ row'[i].token = row[i].token),
           \A d \in Calls : call'[d].at = "renew" => call'[d] = call[d]
    PROVE  Overtaken'
<1>1. killed \subseteq Ids
  BY DEF TypeOK, RegistryTypeOK
<1>2. \A d \in Calls : call'[d].at = "renew" /\ call'[d].id \in killed' => call'[d].late
  BY DEF Overtaken, At
<1>3. KillHolds' /\ \A i \in killed' : row'[i] # None
  BY <1>1 DEF Overtaken, KillHolds
<1>4. QED
  BY <1>2, <1>3 DEF Overtaken, At

\* A step that leaves a row what it is changes no token, unless it says so.
LEMMA SameTokens ==
    ASSUME TypeOK, NEW j \in Ids, row[j] # None
    PROVE  /\ UNCHANGED row => row'[j] # None /\ (Exists(j)' => Exists(j) /\ row'[j].token = row[j].token)
           /\ \A i \in Ids : \A x : row[i] = None /\ row' = [row EXCEPT ![i] = x] =>
                row'[j] # None /\ (Exists(j)' => Exists(j) /\ row'[j].token = row[j].token)
           /\ \A i \in Ids : \A x \in Agent : Touches(i, x) /\ (x.token = row[i].token \/ j # i) =>
                row'[j] # None /\ (Exists(j)' => Exists(j) /\ row'[j].token = row[j].token)
<1>1. UNCHANGED row => row'[j] # None /\ (Exists(j)' => Exists(j) /\ row'[j].token = row[j].token)
  BY DEF Exists
<1>2. ASSUME NEW i \in Ids, NEW x, row[i] = None, row' = [row EXCEPT ![i] = x]
      PROVE  row'[j] # None /\ (Exists(j)' => Exists(j) /\ row'[j].token = row[j].token)
  BY <1>2 DEF Exists, TypeOK, RegistryTypeOK
<1>3. ASSUME NEW i \in Ids, NEW x \in Agent, Touches(i, x), x.token = row[i].token \/ j # i
      PROVE  row'[j] # None /\ (Exists(j)' => Exists(j) /\ row'[j].token = row[j].token)
  <2>1. /\ row'[i] = x
        /\ \A k \in Ids \ {i} : row'[k] = row[k]
        /\ \A k \in Ids : (Exists(k)' <=> Exists(k)) /\ (row'[k] = None <=> row[k] = None)
    BY <1>3, RowWrites DEF Touches
  <2>2. QED
    BY <1>3, <2>1
<1>4. QED
  BY <1>1, <1>2, <1>3

\* No step of the agents' calls breaks it.
LEMMA RegistryOvertaken ==
    ASSUME Sound, RegistryNext, Overtaken
    PROVE  Overtaken'
<1>0. TypeOK /\ \A d \in Calls : Informed(d)
  BY DEF Sound, Working
<1> USE DEF At, tokens
<1> DEFINE Same(j) ==
             row'[j] # None /\ (Exists(j)' => Exists(j) /\ row'[j].token = row[j].token)
<1>1. ASSUME NEW c \in Calls, CreateStep(c)
      PROVE  Overtaken'
  <2>1. /\ call'[c] \in {Idle} \cup Create /\ UNCHANGED tokens
        /\ \A d \in Calls \ {c} : call'[d] = call[d]
        /\ \/ UNCHANGED row
           \/ \E i \in Ids :
                row[i] = None /\ row' = [row EXCEPT ![i] = NewAgent("child", call[c].mode)]
           \/ \E i \in Ids, x \in Agent : Touches(i, x) /\ x.token = row[i].token
    BY <1>0, <1>1, CreateEffects
  <2>2. call'[c].at # "renew"
    <3>1. \A s \in {Idle} \cup Create : s.at # "renew"
      BY DEF Idle, Create
    <3>2. QED
      BY <2>1, <3>1
  <2>3. \A j \in Ids : row[j] # None => Same(j)
    BY <1>0, <2>1, SameTokens
  <2>4. QED
    BY <1>0, <2>1, <2>2, <2>3, OvertakenStays
<1>2. ASSUME NEW c \in Calls, FindDefault(c) \/ SeeDefaults(c)
      PROVE  Overtaken'
  <2>1. UNCHANGED <<row, tokens>>
    BY <1>2 DEF FindDefault, SeeDefaults, registry
  <2>2. \A d \in Calls : call'[d].at = "renew" => call'[d] = call[d]
    <3>1. CASE FindDefault(c)
      BY <1>0, <3>1 DEF FindDefault, Begin, TypeOK
    <3>2. CASE SeeDefaults(c)
      <4>1. call[c] \in Update
        BY <1>0, <3>2, Kinds DEF SeeDefaults, UpdatePlaces
      <4>2. QED
        BY <1>0, <3>2, <4>1 DEF SeeDefaults, TypeOK, Update
    <3>3. QED
      BY <1>2, <3>1, <3>2
  <2>3. \A j \in Ids : row[j] # None => Same(j)
    BY <1>0, <2>1, SameTokens
  <2>4. QED
    BY <1>0, <2>1, <2>2, <2>3, OvertakenStays
<1>3. ASSUME NEW c \in Calls, SeedRow(c)
      PROVE  Overtaken'
  <2>1. /\ UNCHANGED tokens /\ call'[c] = Idle
        /\ \/ UNCHANGED row
           \/ \E i \in Ids :
                /\ row[i] = None
                /\ row' = [row EXCEPT ![i] = [NewAgent("default", "all") EXCEPT !.isDefault = TRUE]]
        /\ \A d \in Calls \ {c} : call'[d] = call[d] \/ call'[d].at = "clear"
    BY <1>0, <1>3, SeedEffects
  <2>2. \A j \in Ids : row[j] # None => Same(j)
    BY <1>0, <2>1, SameTokens
  <2>3. QED
    BY <1>0, <2>1, <2>2, OvertakenStays DEF Idle
<1>4. ASSUME NEW c \in Calls, CommitDefault(c)
      PROVE  Overtaken'
  <2>1. /\ UNCHANGED tokens /\ call'[c] = Idle
        /\ \A d \in Calls \ {c} : call'[d] = call[d] \/ call'[d].at # "renew"
    BY <1>0, <1>4, CommitEffects DEF Outdates
  <2>2. \A j \in Ids : row[j] # None => Same(j)
    BY <1>0, <1>4, CommitEffects
  <2>3. QED
    BY <1>0, <2>1, <2>2, OvertakenStays DEF Idle
<1>5. ASSUME NEW c \in Calls, DeleteRow(c)
      PROVE  Overtaken'
  <2>1. /\ UNCHANGED tokens /\ call'[c] = Idle
        /\ \A d \in Calls \ {c} : call'[d] = call[d]
    BY <1>0, <1>5, Ends DEF DeleteRow
  <2>2. \A j \in Ids : row[j] # None => Same(j)
    BY <1>0, <1>5, Rows DEF DeleteRow, Exists, TypeOK, RegistryTypeOK
  <2>3. QED
    BY <1>0, <2>1, <2>2, OvertakenStays DEF Idle
<1>6. ASSUME NEW c \in Calls, WriteToken(c)
      PROVE  Overtaken'
  <2> DEFINE i == call[c].id
  <2>1. /\ call'[c] = Idle /\ i \in Ids /\ killed' = killed
        /\ revived' = (IF call[c].late THEN revived \cup {i} ELSE revived)
        /\ \A d \in Calls \ {c} : call'[d] = call[d]
    BY <1>0, <1>6, Ends, Kinds DEF WriteToken, UpdatePlaces, Update
  <2>2. i \in killed => i \in revived'
    BY <1>6, <2>1 DEF WriteToken, Overtaken
  <2>3. ASSUME NEW j \in Ids, row[j] # None
        PROVE  row'[j] # None /\ (Exists(j)' => Exists(j)) /\ (j # i => Same(j))
    <3>1. CASE UNCHANGED row
      BY <1>0, <2>3, <3>1, SameTokens DEF Exists
    <3>2. ASSUME NEW x \in Agent, Touches(i, x)
          PROVE  row'[j] # None /\ (Exists(j)' => Exists(j)) /\ (j # i => Same(j))
      <4>1. (Exists(j)' <=> Exists(j)) /\ (row'[j] = None <=> row[j] = None)
        BY <1>0, <2>1, <3>2, RowWrites DEF Touches
      <4>2. QED
        BY <1>0, <2>1, <2>3, <3>2, <4>1, SameTokens
    <3>3. QED
      BY <1>0, <1>6, <3>1, <3>2, WriteEffects
  <2>4. ASSUME NEW j \in killed
        PROVE  row'[j] # None /\ (Exists(j)' => row'[j].token = "revoked" \/ j \in revived')
    <3>1. j \in Ids /\ row[j] # None
      BY <1>0 DEF Overtaken, TypeOK, RegistryTypeOK
    <3>2. Exists(j) => row[j].token = "revoked" \/ j \in revived
      BY DEF Overtaken, KillHolds
    <3>3. QED
      BY <2>1, <2>2, <2>3, <3>1, <3>2
  <2>5. QED
    BY <2>1, <2>4 DEF Overtaken, KillHolds, Idle
<1>7. ASSUME NEW c \in Calls, WriteRevoked(c)
      PROVE  Overtaken'
  <2> DEFINE i == call[c].id
  <2>1. CASE Exists(i) /\ stamped \subseteq {i}
    <3> DEFINE x == [row[i] EXCEPT !.token = "revoked"]
    <3>1. /\ i \in Ids /\ killed' = killed \cup {i} /\ revived' = revived \ {i}
          /\ row' = [row EXCEPT ![i] = x] /\ x \in Agent
          /\ call'[c] = Idle
          /\ \A d \in Calls \ {c} :
               IF At(d, "renew") /\ call[d].id = i
                 THEN /\ call'[d] \in Update /\ call'[d].late
                      /\ call'[d].at = "renew" /\ call'[d].id = i
                 ELSE call'[d] = call[d]
      BY <1>0, <1>7, <2>1, RevokeEffects
    <3>2. /\ row'[i] = x /\ \A j \in Ids \ {i} : row'[j] = row[j]
          /\ \A j \in Ids : (Exists(j)' <=> Exists(j)) /\ (row'[j] = None <=> row[j] = None)
      BY <1>0, <2>1, <3>1, RowWrites
    <3>3. x.token = "revoked" /\ row[i] # None
      BY <1>0, <2>1, <3>1, RowFields DEF Agent, Exists
    <3> HIDE DEF x
    <3>4. ASSUME NEW j \in killed'
          PROVE  row'[j] # None /\ (Exists(j)' => row'[j].token = "revoked" \/ j \in revived')
      <4>1. CASE j = i
        BY <3>1, <3>2, <3>3, <4>1
      <4>2. CASE j # i
        <5>1. j \in killed /\ j \in Ids
          BY <1>0, <3>1, <4>2 DEF TypeOK, RegistryTypeOK
        <5>2. row[j] # None /\ (Exists(j) => row[j].token = "revoked" \/ j \in revived)
          BY <5>1 DEF Overtaken, KillHolds
        <5>3. QED
          BY <3>1, <3>2, <4>2, <5>1, <5>2
      <4>3. QED
        BY <4>1, <4>2
    <3>5. \A d \in Calls : call'[d].at = "renew" /\ call'[d].id \in killed' => call'[d].late
      BY <3>1 DEF Overtaken, Idle
    <3>6. QED
      BY <3>4, <3>5 DEF Overtaken, KillHolds
  <2>2. CASE ~(Exists(i) /\ stamped \subseteq {i})
    <3>1. End(c) /\ UNCHANGED <<row, tokens>>
      BY <1>7, <2>2 DEF WriteRevoked
    <3>2. \A j \in Ids : row[j] # None => Same(j)
      BY <1>0, <3>1, SameTokens
    <3>3. QED
      BY <1>0, <3>1, <3>2, Ends, OvertakenStays DEF Idle
  <2>3. QED
    BY <2>1, <2>2
<1>8. ASSUME NEW c \in Calls, WriteMode(c) \/ ReplaceGrants(c)
      PROVE  Overtaken'
  <2>1. /\ UNCHANGED tokens /\ End(c) /\ call[c].id \in Ids
    BY <1>0, <1>8, Kinds DEF WriteMode, ReplaceGrants, UpdatePlaces, Update
  <2>2. \A j \in Ids : row[j] # None => Same(j)
    <3> DEFINE i == call[c].id
    <3>1. CASE ~Exists(i)
      BY <1>0, <1>8, <3>1, SameTokens DEF WriteMode, ReplaceGrants
    <3>2. CASE Exists(i)
      <4>1. row[i] \in Agent
        BY <1>0, <2>1, <3>2, RowFields
      <4>3. row'[i].token = row[i].token /\ \A j \in Ids \ {i} : row'[j] = row[j]
        <5>1. CASE WriteMode(c)
          <6>1. PICK m \in Modes : row' = [row EXCEPT ![i] = [row[i] EXCEPT !.mode = m]]
            BY <3>2, <5>1 DEF WriteMode, Decided
          <6>2. QED
            BY <1>0, <2>1, <4>1, <6>1 DEF TypeOK, RegistryTypeOK, Agent
        <5>2. CASE ReplaceGrants(c)
          <6>1. PICK x \in Agent : row' = [row EXCEPT ![i] = x] /\ x.token = row[i].token
            BY <1>0, <2>1, <3>2, <5>2, Replaced DEF Replacing, Decided
          <6>2. QED
            BY <1>0, <2>1, <6>1 DEF TypeOK, RegistryTypeOK
        <5>3. QED
          BY <1>8, <5>1, <5>2
      <4>4. \A j \in Ids : row[j] # None => row'[j] # None /\ (Exists(j)' => Exists(j))
        <5>1. RowsStay
          BY <1>0, <1>8, RegistryInformed DEF RegistryNext, Write
        <5>2. QED
          BY <5>1, Rows DEF RowsStay, Exists
      <4>5. QED
        BY <4>3, <4>4
    <3>3. QED
      BY <3>1, <3>2
  <2>3. QED
    BY <1>0, <2>1, <2>2, Ends, OvertakenStays DEF Idle
<1>9. ASSUME NEW c \in Calls, FailAgentCall(c)
      PROVE  Overtaken'
  <2>1. /\ UNCHANGED <<row, tokens>> /\ call'[c] = Idle
        /\ \A d \in Calls \ {c} : call'[d] = call[d]
    BY <1>0, <1>9, Ends DEF FailAgentCall
  <2>2. \A j \in Ids : row[j] # None => Same(j)
    BY <1>0, <2>1, SameTokens
  <2>3. QED
    BY <1>0, <2>1, <2>2, OvertakenStays DEF Idle
<1>10. ASSUME NEW c \in Calls, NEW i \in Ids, Find(c, i)
       PROVE  Overtaken'
  <2>1. /\ UNCHANGED row /\ call'[c].id = i
        /\ \A d \in Calls \ {c} : call'[d] = call[d]
        /\ \/ call'[c].at # "renew" /\ UNCHANGED tokens
           \/ killed' = killed \ {i} /\ UNCHANGED revived
    BY <1>0, <1>10, FindTypes
  <2>2. \A j \in killed' : row'[j] # None
    BY <2>1 DEF Overtaken
  <2>3. KillHolds'
    BY <2>1 DEF Overtaken, KillHolds, Exists
  <2>4. \A d \in Calls : call'[d].at = "renew" /\ call'[d].id \in killed' => call'[d].late
    BY <2>1 DEF Overtaken
  <2>5. QED
    BY <2>2, <2>3, <2>4 DEF Overtaken
<1>11. ASSUME NEW t \in Secrets, deleteSecret(t)
       PROVE  Overtaken'
  <2>1. Forget({t}) /\ UNCHANGED <<call, tokens>>
    BY <1>11 DEF deleteSecret
  <2>2. ASSUME NEW j \in Ids, row[j] # None
        PROVE  Same(j)
    <3>1. Exists(j) => row[j] \in Agent
      BY <1>0, RowFields
    <3>2. /\ Exists(j)' <=> Exists(j)
          /\ row[j] = None <=> row'[j] = None
          /\ Exists(j) => Lost(j, {t})
      BY <1>0, <2>1, ForgetTypes
    <3>3. Exists(j) => row'[j].token = row[j].token
      BY <3>2 DEF Lost
    <3>4. QED
      BY <2>2, <3>2, <3>3
  <2>3. QED
    BY <1>0, <2>1, <2>2, OvertakenStays
<1>12. CASE NextMillisecond
  <2>1. UNCHANGED <<row, call, killed, revived>>
    BY <1>12 DEF NextMillisecond
  <2>2. \A j \in Ids : row[j] # None => Same(j)
    BY <1>0, <2>1, SameTokens
  <2>3. QED
    BY <1>0, <2>1, <2>2, OvertakenStays
<1>13. QED
  BY <1>1, <1>2, <1>3, <1>4, <1>5, <1>6, <1>7, <1>8, <1>9, <1>10, <1>11, <1>12
  DEF RegistryNext, Seed, Write

(* The kill switch holds: once revokeAgentToken has answered, only a        *)
(* regenerateAgentToken that had found the agent before can give it a       *)
(* working token again without being asked to afterwards.                   *)
THEOREM KillSwitch == Spec => []KillHolds
<1>1. ASSUME Init
      PROVE  Overtaken
  <2>1. killed = {}
    BY <1>1 DEF Init, RegistryInit
  <2>2. QED
    BY <2>1 DEF Overtaken, KillHolds
<1>2. ASSUME Sound, Sound', Overtaken, [Next]_vars
      PROVE  Overtaken'
  <2>1. CASE AppStep
    <3>1. TypeOK' /\ AppsOnly
      BY <1>2, <2>1, AppStepTypes DEF Sound, Working
    <3>2. /\ \A i \in Ids : /\ Exists(i)' <=> Exists(i)
                            /\ row'[i] = None <=> row[i] = None
                            /\ Exists(i) => row'[i].token = row[i].token
          /\ \A d \in Calls : call'[d].at \in CreatePlaces \cup UpdatePlaces => call'[d] = call[d]
      BY <1>2, <3>1, AppInformed DEF Sound, Working
    <3>3. UNCHANGED tokens
      BY <3>1 DEF AppsOnly
    <3>4. QED
      BY <1>2, <3>2, <3>3, OvertakenStays DEF UpdatePlaces, tokens, Sound
  <2>2. CASE UNCHANGED vars
    BY <1>2, <2>2, Stutter, OvertakenStays DEF Sound, Exists
  <2>3. QED
    BY <1>2, <2>1, <2>2, NextCases, RegistryOvertaken
<1>3. Overtaken => KillHolds
  BY DEF Overtaken
<1>4. QED
  BY <1>1, <1>2, <1>3, SoundAlways, PTL DEF Spec

-----------------------------------------------------------------------------
(* What a child may use                                                     *)

\* What one of the steps that grants an agent things did.
Granting(c, things, to) ==
    LET i == call[c].id IN
    /\ call'[c] = [call[c] EXCEPT !.at = to]
    /\ \/ things = {} /\ UNCHANGED row
       \/ /\ Exists(i) /\ things \subseteq live
          /\ row' = [row EXCEPT ![i] = [row[i] EXCEPT !.grants = row[i].grants \cup things]]
    /\ \/ At(c, "secrets") /\ to = "apps" /\ things = call[c].want \cap Secrets
       \/ At(c, "secrets") /\ to = "anthropic" /\ things = {} /\ call[c].want \cap Secrets = {}
       \/ At(c, "anthropic") /\ to = "apps" /\ things = {Anthropic}
       \/ At(c, "apps") /\ to = "created" /\ things = call[c].want \cap Apps

LEMMA GrantSteps ==
    ASSUME TypeOK, NEW c \in Calls, CreateStep(c),
           call[c].at \in {"secrets", "anthropic", "apps"}
    PROVE  /\ call[c] \in Create /\ call[c].id \in Ids
           /\ UNCHANGED <<live, ops, raced, tokens, cap, owed, mixed>>
           /\ \A d \in Calls \ {c} : call'[d] = call[d]
           /\ \/ call'[c] = Idle /\ UNCHANGED row /\ broken' = broken \cup {call[c].id}
              \/ UNCHANGED broken /\ \E to \in {"anthropic", "apps", "created"} :
                                       \E things \in SUBSET Things : Granting(c, things, to)
<1> USE DEF At
<1> DEFINE i == call[c].id
           Others == \A d \in Calls \ {c} : call'[d] = call[d]
           Broke == call'[c] = Idle /\ UNCHANGED row /\ broken' = broken \cup {i}
           Granted == UNCHANGED broken /\ \E to \in {"anthropic", "apps", "created"} :
                        \E things \in SUBSET Things : Granting(c, things, to)
<1>1. call[c] \in Create /\ i \in Ids /\ call[c].want \subseteq Things
  BY Kinds DEF CreatePlaces, Create
<1>2. GrantSecrets(c) \/ GrantAnthropic(c) \/ GrantApps(c)
  <2>1. call[c].at # "idle"
    OBVIOUS
  <2>2. \A inherit \in BOOLEAN : ~StartCreate(c, inherit)
    BY <2>1 DEF StartCreate, Begin, Idle
  <2>3. ~FindExisting(c) /\ ~FindParent(c) /\ ~CreateRow(c) /\ ~SetDid(c) /\ ~Created(c)
    BY DEF FindExisting, FindParent, CreateRow, SetDid, Created
  <2>4. QED
    BY <2>2, <2>3 DEF CreateStep
<1>3. UNCHANGED <<live, ops, raced, tokens, cap, owed, mixed>>
  BY <1>2 DEF GrantSecrets, GrantAnthropic, GrantApps
<1>4. ASSUME NEW at \in CreatePlaces, Go(c, at)
      PROVE  call'[c] = [call[c] EXCEPT !.at = at] /\ Others
  BY <1>1, <1>4, Goes
<1>5. ASSUME NEW things \in SUBSET Things, NEW to \in {"apps", "created"}, Insert(c, things, to),
             \/ At(c, "secrets") /\ to = "apps" /\ things = call[c].want \cap Secrets
             \/ At(c, "anthropic") /\ to = "apps" /\ things = {Anthropic}
             \/ At(c, "apps") /\ to = "created" /\ things = call[c].want \cap Apps
      PROVE  Others /\ (Broke \/ Granted)
  <2>1. CASE Insertable(i, things)
    <3>1. /\ row' = [row EXCEPT ![i] = [row[i] EXCEPT !.grants = row[i].grants \cup things]]
          /\ Go(c, to) /\ UNCHANGED broken /\ Exists(i) /\ things \subseteq live
      BY <1>5, <2>1 DEF Insert, Insertable
    <3>2. call'[c] = [call[c] EXCEPT !.at = to] /\ Others
      BY <1>4, <3>1 DEF CreatePlaces
    <3>3. Granting(c, things, to)
      BY <1>5, <3>1, <3>2 DEF Granting
    <3>4. QED
      BY <3>1, <3>2, <3>3
  <2>2. CASE ~Insertable(i, things)
    BY <1>5, <2>2, Ends DEF Insert
  <2>3. QED
    BY <2>1, <2>2
<1>6. ASSUME UNCHANGED <<row, broken>>, NEW to \in {"anthropic", "apps", "created"}, Go(c, to),
             \/ At(c, "secrets") /\ to \in {"anthropic", "apps"} /\ call[c].want \cap Secrets = {}
             \/ At(c, "apps") /\ to = "created" /\ call[c].want \cap Apps = {}
      PROVE  Others /\ (Broke \/ Granted)
  <2>1. call'[c] = [call[c] EXCEPT !.at = to] /\ Others
    BY <1>4, <1>6 DEF CreatePlaces
  <2>2. Granting(c, {}, to)
    BY <1>6, <2>1 DEF Granting
  <2>3. QED
    BY <1>6, <2>1, <2>2
<1>7. CASE GrantSecrets(c)
  <2>1. call[c].want \cap Secrets \in SUBSET Things
    BY DEF Things
  <2>2. CASE call[c].want \cap Secrets # {}
    <3>1. Insert(c, call[c].want \cap Secrets, "apps") /\ At(c, "secrets")
      BY <1>7, <2>2 DEF GrantSecrets
    <3>2. QED
      BY <1>1, <1>3, <1>5, <2>1, <3>1
  <2>3. CASE call[c].want \cap Secrets = {}
    <3>1. /\ At(c, "secrets") /\ UNCHANGED <<row, broken>>
          /\ Go(c, "anthropic") \/ Go(c, "apps")
      BY <1>7, <2>3 DEF GrantSecrets
    <3>2. QED
      BY <1>1, <1>3, <1>6, <2>3, <3>1
  <2>4. QED
    BY <2>2, <2>3
<1>8. CASE GrantAnthropic(c)
  <2>1. {Anthropic} \in SUBSET Things
    BY RegistryAssumption DEF Things
  <2>2. Insert(c, {Anthropic}, "apps") /\ At(c, "anthropic")
    BY <1>8 DEF GrantAnthropic
  <2>3. QED
    BY <1>1, <1>3, <1>5, <2>1, <2>2
<1>9. CASE GrantApps(c)
  <2>1. call[c].want \cap Apps \in SUBSET Things
    BY DEF Things
  <2>2. CASE call[c].want \cap Apps # {}
    <3>1. Insert(c, call[c].want \cap Apps, "created") /\ At(c, "apps")
      BY <1>9, <2>2 DEF GrantApps
    <3>2. QED
      BY <1>1, <1>3, <1>5, <2>1, <3>1
  <2>3. CASE call[c].want \cap Apps = {}
    <3>1. At(c, "apps") /\ UNCHANGED <<row, broken>> /\ Go(c, "created")
      BY <1>9, <2>3 DEF GrantApps
    <3>2. QED
      BY <1>1, <1>3, <1>6, <2>3, <3>1
  <2>4. QED
    BY <2>2, <2>3
<1>10. QED
  BY <1>2, <1>7, <1>8, <1>9

\* The other steps of createAgent.
LEMMA CreateHistory ==
    ASSUME TypeOK, NEW c \in Calls, CreateStep(c)
    PROVE  /\ ~At(c, "row") => UNCHANGED cap
           /\ ~At(c, "created") => UNCHANGED owed
           /\ call[c].at \in {"idle", "exists", "parent"} =>
                UNCHANGED <<row, broken>> /\ \A i \in Ids : ~CreatedBy(c, i)'
           /\ At(c, "row") => UNCHANGED <<owed, broken>> /\
                \/ call'[c] = Idle /\ UNCHANGED <<row, cap>>
                \/ \E i \in Ids :
                     /\ row[i] = None /\ row' = [row EXCEPT ![i] = NewAgent("child", call[c].mode)]
                     /\ cap' = [cap EXCEPT ![i] = Inherited(call[c])]
                     /\ call'[c] = [call[c] EXCEPT !.at = "did", !.id = i]
           /\ At(c, "did") => UNCHANGED broken /\
                \/ call'[c] = Idle /\ UNCHANGED row /\ ~Exists(call[c].id)
                \/ /\ call'[c] = [call[c] EXCEPT !.at = "secrets"] /\ Exists(call[c].id)
                   /\ row' = [row EXCEPT ![call[c].id] = [row[call[c].id] EXCEPT !.did = TRUE]]
           /\ At(c, "created") =>
                /\ UNCHANGED <<row, broken>> /\ call'[c] = Idle
                /\ owed' = [owed EXCEPT ![call[c].id] =
                              IF call[c].id \in mixed THEN {} ELSE call[c].want \cap live]
<1> USE DEF At, registry, promises, tokens
<1>1. ASSUME NEW inherit \in BOOLEAN, StartCreate(c, inherit)
      PROVE  At(c, "idle") /\ UNCHANGED <<row, cap, owed, broken>>
  BY <1>1 DEF StartCreate, Begin, Idle
<1>2. ~At(c, "row") => UNCHANGED cap
  BY <1>1 DEF CreateStep, FindExisting, FindParent, CreateRow, SetDid, GrantSecrets, GrantAnthropic,
              GrantApps, Created
<1>3. ~At(c, "created") => UNCHANGED owed
  BY <1>1 DEF CreateStep, FindExisting, FindParent, CreateRow, SetDid, GrantSecrets, GrantAnthropic,
              GrantApps, Created
<1>4. CASE call[c].at \in {"idle", "exists", "parent"}
  <2>1. (\E inherit \in BOOLEAN : StartCreate(c, inherit)) \/ FindExisting(c) \/ FindParent(c)
    BY <1>4 DEF CreateStep, CreateRow, SetDid, GrantSecrets, GrantAnthropic, GrantApps, Created
  <2>2. UNCHANGED <<row, broken>>
    BY <1>1, <2>1 DEF FindExisting, FindParent
  <2>3. \A i \in Ids : ~CreatedBy(c, i)
    BY <1>4 DEF CreatedBy
  <2>4. \A i \in Ids : ~CreatedBy(c, i)'
    BY <1>4, <2>3, CreateEffects
  <2>5. QED
    BY <1>2, <1>3, <1>4, <2>2, <2>4
<1>5. CASE At(c, "row")
  <2>1. CreateRow(c)
    BY <1>1, <1>5 DEF CreateStep, FindExisting, FindParent, SetDid, GrantSecrets, GrantAnthropic,
                      GrantApps, Created
  <2>2. CASE Named("child") # {}
    BY <1>2, <1>3, <1>5, <2>1, <2>2, Ends DEF CreateRow
  <2>3. CASE Named("child") = {}
    <3>1. PICK i \in Ids :
            /\ row[i] = None /\ row' = [row EXCEPT ![i] = NewAgent("child", call[c].mode)]
            /\ cap' = [cap EXCEPT ![i] = Inherited(call[c])]
            /\ call' = [call EXCEPT ![c].at = "did", ![c].id = i]
      BY <2>1, <2>3 DEF CreateRow
    <3>2. call'[c] = [call[c] EXCEPT !.at = "did", !.id = i]
      BY <3>1 DEF TypeOK
    <3>3. QED
      BY <1>5, <2>1, <3>1, <3>2 DEF CreateRow
  <2>4. QED
    BY <2>2, <2>3
<1>6. CASE At(c, "did")
  <2>1. SetDid(c)
    BY <1>1, <1>6 DEF CreateStep, FindExisting, FindParent, CreateRow, GrantSecrets, GrantAnthropic,
                      GrantApps, Created
  <2>2. call[c] \in Create
    BY <1>6, Kinds DEF CreatePlaces
  <2>3. CASE Exists(call[c].id)
    <3>1. /\ row' = [row EXCEPT ![call[c].id] = [row[call[c].id] EXCEPT !.did = TRUE]]
          /\ Go(c, "secrets")
      BY <2>1, <2>3 DEF SetDid
    <3>2. call'[c] = [call[c] EXCEPT !.at = "secrets"]
      BY <2>2, <3>1, Goes DEF CreatePlaces
    <3>3. QED
      BY <1>6, <2>1, <2>3, <3>1, <3>2 DEF SetDid
  <2>4. CASE ~Exists(call[c].id)
    BY <1>6, <2>1, <2>4, Ends DEF SetDid
  <2>5. QED
    BY <2>3, <2>4
<1>7. CASE At(c, "created")
  <2>1. Created(c)
    BY <1>1, <1>7 DEF CreateStep, FindExisting, FindParent, CreateRow, SetDid, GrantSecrets,
                      GrantAnthropic, GrantApps
  <2>2. QED
    BY <1>7, <2>1, Ends DEF Created
<1>8. QED
  BY <1>2, <1>3, <1>4, <1>5, <1>6, <1>7

(* What a call that creates an agent may still grant it is within what the  *)
(* agent may use.                                                           *)
Capped ==
    /\ WithinGrant
    /\ \A c \in Calls, i \in Ids : CreatedBy(c, i) /\ i \notin mixed =>
         /\ cap[i] = Inherited(call[c])
         /\ At(c, "anthropic") => call[c].want \cap Secrets = {}

\* A step that gives no child more than it had.
LEMMA WithinStays ==
    ASSUME WithinGrant, cap' = cap, mixed' = mixed,
           \A i \in Ids : row'[i].identifier = "child" =>
             row[i].identifier = "child" /\ Access(row'[i]) \subseteq Access(row[i])
    PROVE  WithinGrant'
  BY DEF WithinGrant, Named

\* A step that leaves the calls that create agents where they are, or takes
\* them further.
LEMMA CappedStays ==
    ASSUME Capped, WithinGrant', cap' = cap, mixed' = mixed,
           \A d \in Calls, i \in Ids : CreatedBy(d, i)' =>
             /\ CreatedBy(d, i)
             /\ call'[d].mode = call[d].mode /\ call'[d].want = call[d].want
             /\ At(d, "anthropic")' => At(d, "anthropic") \/ call[d].want \cap Secrets = {}
    PROVE  Capped'
<1>1. ASSUME NEW d \in Calls, NEW i \in Ids, CreatedBy(d, i)', i \notin mixed'
      PROVE  cap'[i] = Inherited(call'[d]) /\ (At(d, "anthropic")' => call'[d].want \cap Secrets = {})
  <2>1. cap[i] = Inherited(call[d]) /\ (At(d, "anthropic") => call[d].want \cap Secrets = {})
    BY <1>1 DEF Capped
  <2>2. Inherited(call'[d]) = Inherited(call[d])
    BY <1>1 DEF Inherited
  <2>3. QED
    BY <1>1, <2>1, <2>2
<1>2. QED
  BY <1>1 DEF Capped

\* Rows that stay what they are, and new ones of other kinds.
LEMMA SameAccess ==
    ASSUME TypeOK, NEW j \in Ids, row'[j].identifier = "child"
    PROVE  /\ UNCHANGED row => row[j].identifier = "child" /\ Access(row'[j]) \subseteq Access(row[j])
           /\ \A i \in Ids : \A x \in Agent :
                /\ row' = [row EXCEPT ![i] = x]
                /\ x.identifier # "child" \/
                     (Exists(i) /\ x.identifier = row[i].identifier /\ x.mode = row[i].mode
                       /\ x.grants = row[i].grants /\ x.limits = row[i].limits)
                => row[j].identifier = "child" /\ Access(row'[j]) \subseteq Access(row[j])
<1>1. UNCHANGED row => row[j].identifier = "child" /\ Access(row'[j]) \subseteq Access(row[j])
  OBVIOUS
<1>2. ASSUME NEW i \in Ids, NEW x \in Agent, row' = [row EXCEPT ![i] = x],
             x.identifier # "child" \/
               (Exists(i) /\ x.identifier = row[i].identifier /\ x.mode = row[i].mode
                 /\ x.grants = row[i].grants /\ x.limits = row[i].limits)
      PROVE  row[j].identifier = "child" /\ Access(row'[j]) \subseteq Access(row[j])
  <2>1. row'[j] = IF j = i THEN x ELSE row[j]
    BY <1>2 DEF TypeOK, RegistryTypeOK
  <2>2. QED
    BY <1>2, <2>1 DEF Access
<1>3. QED
  BY <1>1, <1>2

\* What is granted while an agent is created is within what it may use.
LEMMA CreateCapped ==
    ASSUME Sound, Capped, NEW c \in Calls, CreateStep(c)
    PROVE  Capped'
<1>0. TypeOK /\ \A d \in Calls : Informed(d)
  BY DEF Sound, Working
<1> USE DEF At
<1>1. mixed' = mixed /\ \A d \in Calls \ {c} : call'[d] = call[d]
  BY <1>0, CreateEffects
<1>2. call[c].at \in {"idle"} \cup CreatePlaces
  BY <1>0, CreateEffects
<1>3. ASSUME cap' = cap, WithinGrant',
             \A i \in Ids : CreatedBy(c, i)' =>
               /\ CreatedBy(c, i)
               /\ call'[c].mode = call[c].mode /\ call'[c].want = call[c].want
               /\ call'[c].at = "anthropic" => call[c].want \cap Secrets = {}
      PROVE  Capped'
  BY <1>1, <1>3, CappedStays DEF CreatedBy
<1>4. WithinGrant
  BY DEF Capped
<1>5. CASE call[c].at \in {"idle", "exists", "parent"}
  <2>1. UNCHANGED <<row, cap>> /\ \A i \in Ids : ~CreatedBy(c, i)'
    BY <1>0, <1>5, CreateHistory
  <2>2. WithinGrant'
    BY <1>1, <1>4, <2>1, WithinStays
  <2>3. QED
    BY <1>3, <2>1, <2>2
<1>6. CASE call[c].at = "row"
  <2>1. CASE call'[c] = Idle /\ UNCHANGED <<row, cap>>
    <3>1. WithinGrant' /\ \A i \in Ids : ~CreatedBy(c, i)'
      BY <1>1, <1>4, <2>1, WithinStays DEF CreatedBy, Idle
    <3>2. QED
      BY <1>3, <2>1, <3>1
  <2>2. ASSUME NEW i \in Ids, row[i] = None,
               row' = [row EXCEPT ![i] = NewAgent("child", call[c].mode)],
               cap' = [cap EXCEPT ![i] = Inherited(call[c])],
               call'[c] = [call[c] EXCEPT !.at = "did", !.id = i]
        PROVE  Capped'
    <3>1. call[c] \in Create
      BY <1>0, <1>6, Kinds DEF CreatePlaces
    <3>2. /\ row'[i] = NewAgent("child", call[c].mode) /\ cap'[i] = Inherited(call[c])
          /\ \A j \in Ids \ {i} : row'[j] = row[j] /\ cap'[j] = cap[j]
      BY <1>0, <2>2 DEF TypeOK, RegistryTypeOK
    <3>3. Access(NewAgent("child", call[c].mode)) \subseteq Inherited(call[c])
      BY <3>1 DEF Access, NewAgent, Inherited
    <3>4. WithinGrant'
      BY <1>1, <1>4, <3>2, <3>3 DEF WithinGrant, Named
    <3>5. Inherited(call'[c]) = Inherited(call[c]) /\ call'[c].at = "did" /\ call'[c].id = i
      BY <2>2, <3>1 DEF Inherited, Create
    <3>6. ASSUME NEW d \in Calls, NEW j \in Ids, CreatedBy(d, j)', j \notin mixed'
          PROVE  cap'[j] = Inherited(call'[d]) /\ (call'[d].at = "anthropic" => call'[d].want \cap Secrets = {})
      <4>1. CASE d = c
        <5>1. j = i
          BY <3>5, <3>6, <4>1 DEF CreatedBy
        <5>2. QED
          BY <3>2, <3>5, <4>1, <5>1
      <4>2. CASE d # c
        <5>1. call'[d] = call[d] /\ CreatedBy(d, j) /\ j \notin mixed
          BY <1>1, <3>6, <4>2 DEF CreatedBy
        <5>2. row[j] # None
          BY <1>0, <5>1, Rows DEF Informed, Exists
        <5>3. cap'[j] = cap[j]
          BY <2>2, <3>2, <5>2
        <5>4. QED
          BY <5>1, <5>3 DEF Capped
      <4>3. QED
        BY <4>1, <4>2
    <3>7. QED
      BY <3>4, <3>6 DEF Capped
  <2>3. QED
    BY <1>0, <1>6, <2>1, <2>2, CreateHistory
<1>7. CASE call[c].at = "did"
  <2>1. call[c] \in Create /\ call[c].id \in Ids
    BY <1>0, <1>7, Kinds DEF CreatePlaces, Create
  <2>2. cap' = cap
    BY <1>0, <1>7, CreateHistory
  <2>3. CASE call'[c] = Idle /\ UNCHANGED row
    <3>1. WithinGrant' /\ \A i \in Ids : ~CreatedBy(c, i)'
      BY <1>1, <1>4, <2>2, <2>3, WithinStays DEF CreatedBy, Idle
    <3>2. QED
      BY <1>3, <2>2, <3>1
  <2>4. CASE /\ call'[c] = [call[c] EXCEPT !.at = "secrets"] /\ Exists(call[c].id)
             /\ row' = [row EXCEPT ![call[c].id] = [row[call[c].id] EXCEPT !.did = TRUE]]
    <3> DEFINE x == [row[call[c].id] EXCEPT !.did = TRUE]
    <3>1. x \in Agent /\ row[call[c].id] \in Agent
      BY <1>0, <2>1, <2>4, RowFields
    <3>2. /\ x.identifier = row[call[c].id].identifier /\ x.mode = row[call[c].id].mode
          /\ x.grants = row[call[c].id].grants /\ x.limits = row[call[c].id].limits
      BY <3>1 DEF Agent
    <3>3. row' = [row EXCEPT ![call[c].id] = x]
      BY <2>4
    <3> HIDE DEF x
    <3>4. WithinGrant'
      <4>1. ASSUME NEW j \in Ids, row'[j].identifier = "child"
            PROVE  row[j].identifier = "child" /\ Access(row'[j]) \subseteq Access(row[j])
        <5>1. /\ row' = [row EXCEPT ![call[c].id] = x] /\ Exists(call[c].id)
              /\ x.identifier = row[call[c].id].identifier /\ x.mode = row[call[c].id].mode
              /\ x.grants = row[call[c].id].grants /\ x.limits = row[call[c].id].limits
          BY <2>4, <3>2, <3>3
        <5>2. QED
          BY <1>0, <2>1, <3>1, <4>1, <5>1, SameAccess
      <4>2. QED
        BY <1>1, <1>4, <2>2, <4>1, WithinStays
    <3>5. /\ call'[c].mode = call[c].mode /\ call'[c].want = call[c].want
          /\ call'[c].at = "secrets" /\ call'[c].id = call[c].id
      BY <2>1, <2>4 DEF Create
    <3>6. QED
      BY <1>3, <1>7, <2>2, <3>4, <3>5 DEF CreatedBy
  <2>5. QED
    BY <1>0, <1>7, <2>3, <2>4, CreateHistory
<1>8. CASE call[c].at \in {"secrets", "anthropic", "apps"}
  <2> DEFINE i == call[c].id
  <2>1. call[c] \in Create /\ i \in Ids /\ UNCHANGED cap
    BY <1>0, <1>8, GrantSteps
  <2>2. CASE call'[c] = Idle /\ UNCHANGED row
    <3>1. WithinGrant' /\ \A j \in Ids : ~CreatedBy(c, j)'
      BY <1>1, <1>4, <2>1, <2>2, WithinStays DEF CreatedBy, Idle
    <3>2. QED
      BY <1>3, <2>1, <3>1
  <2>3. ASSUME NEW to \in {"anthropic", "apps", "created"}, NEW things \in SUBSET Things,
               Granting(c, things, to)
        PROVE  Capped'
    <3>1. CreatedBy(c, i)
      BY <1>8 DEF CreatedBy
    <3>2. \A r \in Rights :
            /\ r[1] \in call[c].want => r \in Inherited(call[c])
            /\ call[c].want \cap Secrets = {} /\ r[1] = Anthropic => r \in Inherited(call[c])
      BY DEF Inherited, Access
    <3>3. ASSUME i \notin mixed
          PROVE  \A r \in Rights : r[1] \in things => r \in cap[i]
      <4>1. cap[i] = Inherited(call[c]) /\ (call[c].at = "anthropic" => call[c].want \cap Secrets = {})
        BY <2>1, <3>1, <3>3 DEF Capped
      <4>2. \/ things \subseteq call[c].want
            \/ things = {Anthropic} /\ call[c].at = "anthropic"
        BY <2>3 DEF Granting
      <4>3. QED
        BY <3>2, <4>1, <4>2
    <3>4. WithinGrant'
      <4>1. CASE UNCHANGED row
        BY <1>1, <1>4, <2>1, <4>1, WithinStays
      <4>2. CASE /\ Exists(i)
                 /\ row' = [row EXCEPT ![i] = [row[i] EXCEPT !.grants = row[i].grants \cup things]]
        <5>1. row[i] \in Agent
          BY <1>0, <2>1, <4>2, RowFields
        <5>2. /\ row'[i] = [row[i] EXCEPT !.grants = row[i].grants \cup things]
              /\ \A j \in Ids \ {i} : row'[j] = row[j]
          BY <1>0, <2>1, <4>2 DEF TypeOK, RegistryTypeOK
        <5>3. /\ row'[i].identifier = row[i].identifier /\ row'[i].mode = row[i].mode
              /\ row'[i].grants = row[i].grants \cup things /\ row'[i].limits = row[i].limits
          BY <5>1, <5>2 DEF Agent
        <5>4. Access(row'[i]) \subseteq Access(row[i]) \cup {r \in Rights : r[1] \in things}
          BY <5>3 DEF Access
        <5>5. QED
          <6> SUFFICES ASSUME NEW j \in Ids, row'[j].identifier = "child", j \notin mixed
                       PROVE  Access(row'[j]) \subseteq cap[j]
            BY <1>1, <2>1 DEF WithinGrant, Named
          <6>1. CASE j = i
            <7>1. Access(row[i]) \subseteq cap[i]
              BY <1>4, <2>1, <5>3, <6>1 DEF WithinGrant, Named
            <7>2. QED
              BY <3>3, <5>4, <6>1, <7>1
          <6>2. CASE j # i
            BY <1>4, <5>2, <6>2 DEF WithinGrant, Named
          <6>3. QED
            BY <6>1, <6>2
      <4>3. QED
        BY <2>3, <4>1, <4>2 DEF Granting
    <3>5. /\ call'[c].mode = call[c].mode /\ call'[c].want = call[c].want
          /\ call'[c].at = to /\ call'[c].id = i
      BY <2>1, <2>3 DEF Granting, Create
    <3>6. to = "anthropic" => call[c].want \cap Secrets = {}
      BY <2>3 DEF Granting
    <3>7. QED
      BY <1>3, <2>1, <3>1, <3>4, <3>5, <3>6 DEF CreatedBy
  <2>4. QED
    BY <1>0, <1>8, <2>2, <2>3, GrantSteps
<1>9. CASE call[c].at = "created"
  <2>1. UNCHANGED <<row, cap>> /\ call'[c] = Idle
    BY <1>0, <1>9, CreateHistory
  <2>2. WithinGrant' /\ \A i \in Ids : ~CreatedBy(c, i)'
    BY <1>1, <1>4, <2>1, WithinStays DEF CreatedBy, Idle
  <2>3. QED
    BY <1>3, <2>1, <2>2
<1>10. QED
  BY <1>2, <1>5, <1>6, <1>7, <1>8, <1>9 DEF CreatePlaces

\* What an administrator decides is what the agent may use from then on.
LEMMA DecidedCapped ==
    ASSUME TypeOK, Capped, NEW i \in Ids, NEW agent \in Agent, NEW things, Exists(i),
           agent.identifier = row[i].identifier, Decided(i, agent, things),
           \A d \in Calls, j \in Ids : CreatedBy(d, j)' => CreatedBy(d, j) /\ call'[d] = call[d]
    PROVE  Capped'
<1>1. /\ row'[i] = agent /\ \A j \in Ids \ {i} : row'[j] = row[j]
      /\ mixed' = (IF Creating(i) THEN mixed \cup {i} ELSE mixed \ {i})
      /\ \A j \in Ids \ {i} : cap'[j] = cap[j]
      /\ agent.identifier = "child" => cap'[i] = Access(agent)
  BY DEF Decided, TypeOK, RegistryTypeOK
<1>2. WithinGrant'
  <2>1. ASSUME NEW j \in Ids, row'[j].identifier = "child", j \notin mixed'
        PROVE  Access(row'[j]) \subseteq cap'[j]
    <3>1. CASE j = i
      BY <1>1, <2>1, <3>1
    <3>2. CASE j # i
      <4>1. j \notin mixed /\ row[j].identifier = "child"
        BY <1>1, <2>1, <3>2
      <4>2. Access(row[j]) \subseteq cap[j]
        BY <4>1 DEF Capped, WithinGrant, Named
      <4>3. QED
        BY <1>1, <3>2, <4>2
    <3>3. QED
      BY <3>1, <3>2
  <2>2. QED
    BY <2>1 DEF WithinGrant, Named
<1>3. ASSUME NEW d \in Calls, NEW j \in Ids, CreatedBy(d, j)', j \notin mixed'
      PROVE  /\ cap'[j] = Inherited(call'[d])
             /\ At(d, "anthropic")' => call'[d].want \cap Secrets = {}
  <2>1. CreatedBy(d, j) /\ call'[d] = call[d]
    BY <1>3
  <2>2. j # i /\ j \notin mixed
    BY <1>1, <1>3, <2>1 DEF Creating
  <2>3. QED
    BY <1>1, <2>1, <2>2 DEF Capped, At
<1>4. QED
  BY <1>2, <1>3 DEF Capped

\* No step of the agents' calls breaks it.
LEMMA RegistryCapped ==
    ASSUME Sound, RegistryNext, Capped
    PROVE  Capped'
<1>0. TypeOK /\ WithinGrant
  BY DEF Sound, Capped
<1> USE DEF At, promises
<1> DEFINE Same(j) == row'[j].identifier = "child" =>
                        row[j].identifier = "child" /\ Access(row'[j]) \subseteq Access(row[j])
           Others(d) == \A i \in Ids : CreatedBy(d, i)' => CreatedBy(d, i) /\ call'[d] = call[d]
<1>1. ASSUME \A j \in Ids : Same(j), cap' = cap, mixed' = mixed, \A d \in Calls : Others(d)
      PROVE  Capped'
  <2>1. WithinGrant'
    BY <1>0, <1>1, WithinStays
  <2>2. QED
    BY <1>1, <2>1, CappedStays
<1>2. ASSUME NEW d \in Calls, call'[d] = call[d] \/ call'[d].at \in {"idle"} \cup UpdatePlaces
      PROVE  Others(d)
  BY <1>2 DEF CreatedBy, UpdatePlaces
<1>3. \A r \in Update : r.at \in UpdatePlaces
  BY DEF Update, UpdatePlaces
<1>4. Idle.at = "idle"
  BY DEF Idle
<1>5. ASSUME UNCHANGED row
      PROVE  \A j \in Ids : Same(j)
  BY <1>0, <1>5, SameAccess
<1>6. ASSUME NEW c \in Calls, FindDefault(c) \/ SeeDefaults(c)
      PROVE  Capped'
  <2>1. UNCHANGED <<row, cap, mixed>>
    BY <1>6 DEF FindDefault, SeeDefaults, registry
  <2>2. /\ call'[c].at \in {"seed", "clear"}
        /\ \A d \in Calls \ {c} : call'[d] = call[d]
    <3>1. CASE FindDefault(c)
      BY <1>0, <3>1 DEF FindDefault, Begin, TypeOK
    <3>2. CASE SeeDefaults(c)
      <4>1. call[c] \in Update
        BY <1>0, <3>2, Kinds DEF SeeDefaults, UpdatePlaces
      <4>2. QED
        BY <1>0, <3>2, <4>1 DEF SeeDefaults, TypeOK, Update
    <3>3. QED
      BY <1>6, <3>1, <3>2
  <2>3. \A d \in Calls : Others(d)
    BY <1>2, <2>2 DEF UpdatePlaces
  <2>4. QED
    BY <1>1, <1>5, <2>1, <2>3
<1>7. ASSUME NEW c \in Calls, SeedRow(c)
      PROVE  Capped'
  <2>1. /\ UNCHANGED promises /\ call'[c] = Idle
        /\ \/ UNCHANGED row
           \/ \E i \in Ids :
                row' = [row EXCEPT ![i] = [NewAgent("default", "all") EXCEPT !.isDefault = TRUE]]
        /\ \A d \in Calls \ {c} : call'[d] = call[d] \/ call'[d].at = "clear"
    BY <1>0, <1>7, SeedEffects
  <2>2. \A j \in Ids : Same(j)
    <3>1. ASSUME NEW i \in Ids, NEW j \in Ids,
                 row' = [row EXCEPT ![i] = [NewAgent("default", "all") EXCEPT !.isDefault = TRUE]]
          PROVE  Same(j)
      <4> DEFINE x == [NewAgent("default", "all") EXCEPT !.isDefault = TRUE]
      <4>1. x \in Agent /\ x.identifier # "child" /\ row' = [row EXCEPT ![i] = x]
        BY <3>1 DEF NewAgent, Agent, Modes
      <4> HIDE DEF x
      <4>2. QED
        BY <1>0, <4>1, SameAccess
    <3>2. QED
      BY <1>5, <2>1, <3>1
  <2>3. \A d \in Calls : Others(d)
    BY <1>2, <1>4, <2>1 DEF UpdatePlaces
  <2>4. QED
    BY <1>1, <2>1, <2>2, <2>3
<1>8. ASSUME NEW c \in Calls, CommitDefault(c)
      PROVE  Capped'
  <2>1. /\ UNCHANGED promises /\ call'[c] = Idle
        /\ \A d \in Calls \ {c} : call'[d] = call[d] \/ call'[d] \in Update
        /\ \A j \in Ids : /\ Exists(j)' <=> Exists(j)
                          /\ row'[j].identifier = row[j].identifier
                          /\ Exists(j) => /\ row'[j].mode = row[j].mode /\ row'[j].grants = row[j].grants
                                          /\ row'[j].limits = row[j].limits
    BY <1>0, <1>8, CommitEffects
  <2>2. ASSUME NEW j \in Ids
        PROVE  Same(j)
    <3>1. row[j].identifier = "child" => Exists(j)
      BY DEF Exists, None, Gone
    <3>2. QED
      BY <2>1, <3>1 DEF Access
  <2>3. \A d \in Calls : Others(d)
    BY <1>2, <1>3, <1>4, <2>1
  <2>4. QED
    BY <1>1, <2>1, <2>2, <2>3
<1>9. ASSUME NEW c \in Calls, DeleteRow(c)
      PROVE  Capped'
  <2>1. /\ UNCHANGED promises /\ call'[c] = Idle
        /\ \A d \in Calls \ {c} : call'[d] = call[d]
    BY <1>0, <1>9, Ends DEF DeleteRow
  <2>2. \A j \in Ids : Same(j)
    BY <1>0, <1>9 DEF DeleteRow, TypeOK, RegistryTypeOK, Gone
  <2>3. \A d \in Calls : Others(d)
    BY <1>2, <1>4, <2>1
  <2>4. QED
    BY <1>1, <2>1, <2>2, <2>3
<1>10. ASSUME NEW c \in Calls, WriteToken(c) \/ WriteRevoked(c)
       PROVE  Capped'
  <2> DEFINE i == call[c].id
  <2>1. /\ UNCHANGED promises /\ call'[c] = Idle /\ i \in Ids
        /\ \A d \in Calls \ {c} : call'[d] = call[d] \/ call'[d] \in Update
    BY <1>0, <1>10, WriteEffects DEF WriteToken, WriteRevoked, Update
  <2>2. UNCHANGED row \/ (Exists(i) /\ \E t \in {"live", "revoked"} :
                            row' = [row EXCEPT ![i] = [row[i] EXCEPT !.token = t]])
    BY <1>0, <1>10, <2>1 DEF WriteToken, WriteRevoked, TypeOK, RegistryTypeOK
  <2>3. ASSUME Exists(i), NEW t \in {"live", "revoked"}, NEW j \in Ids,
               row' = [row EXCEPT ![i] = [row[i] EXCEPT !.token = t]]
        PROVE  Same(j)
    <3> DEFINE x == [row[i] EXCEPT !.token = t]
    <3>1. x \in Agent /\ row[i] \in Agent
      BY <1>0, <2>1, <2>3, RowFields
    <3>2. /\ x.identifier = row[i].identifier /\ x.mode = row[i].mode
          /\ x.grants = row[i].grants /\ x.limits = row[i].limits
      BY <3>1 DEF Agent
    <3>3. row' = [row EXCEPT ![i] = x]
      BY <2>3
    <3> HIDE DEF x
    <3>4. QED
      BY <1>0, <2>1, <2>3, <3>1, <3>2, <3>3, SameAccess
  <2>4. \A d \in Calls : Others(d)
    BY <1>2, <1>3, <1>4, <2>1
  <2>5. QED
    BY <1>1, <1>5, <2>1, <2>2, <2>3, <2>4
<1>11. ASSUME NEW c \in Calls, WriteMode(c) \/ ReplaceGrants(c)
       PROVE  Capped'
  <2> DEFINE i == call[c].id
  <2>1. /\ call'[c] = Idle /\ i \in Ids
        /\ \A d \in Calls \ {c} : call'[d] = call[d]
    BY <1>0, <1>11, Ends, Kinds DEF WriteMode, ReplaceGrants, UpdatePlaces, Update
  <2>2. \A d \in Calls : Others(d)
    BY <1>2, <1>4, <2>1
  <2>3. CASE ~Exists(i)
    BY <1>1, <1>5, <1>11, <2>2, <2>3 DEF WriteMode, ReplaceGrants
  <2>4. CASE Exists(i)
    <3>1. row[i] \in Agent /\ row[i].grants \subseteq Things
      BY <1>0, <2>1, <2>4, RowFields DEF Agent
    <3>2. CASE WriteMode(c)
      <4>1. PICK m \in Modes : Decided(i, [row[i] EXCEPT !.mode = m], owed[i])
        BY <2>4, <3>2 DEF WriteMode
      <4> DEFINE x == [row[i] EXCEPT !.mode = m]
      <4>2. x \in Agent /\ x.identifier = row[i].identifier
        BY <1>0, <2>1, <2>4, <3>1, RowFields DEF Agent
      <4>3. Decided(i, x, owed[i])
        BY <4>1
      <4> HIDE DEF x
      <4>4. QED
        BY <1>0, <2>1, <2>2, <2>4, <4>2, <4>3, DecidedCapped
    <3>3. CASE ReplaceGrants(c)
      <4>1. PICK kind \in {Secrets, Apps}, things \in SUBSET live, x \in Agent :
              Replacing(i, kind, things, x)
        BY <1>0, <2>1, <2>4, <3>3, Replaced
      <4>2. Decided(i, x, (owed[i] \ kind) \cup things) /\ x.identifier = row[i].identifier
        BY <4>1 DEF Replacing
      <4>3. QED
        BY <1>0, <2>1, <2>2, <2>4, <4>2, DecidedCapped
    <3>4. QED
      BY <1>11, <3>2, <3>3
  <2>5. QED
    BY <2>3, <2>4
<1>12. ASSUME NEW c \in Calls, FailAgentCall(c)
       PROVE  Capped'
  <2>1. /\ UNCHANGED <<row, cap, mixed>> /\ call'[c] = Idle
        /\ \A d \in Calls \ {c} : call'[d] = call[d]
    BY <1>0, <1>12, Ends DEF FailAgentCall
  <2>2. \A d \in Calls : Others(d)
    BY <1>2, <1>4, <2>1
  <2>3. QED
    BY <1>1, <1>5, <2>1, <2>2
<1>13. ASSUME NEW c \in Calls, NEW i \in Ids, Find(c, i)
       PROVE  Capped'
  <2>1. /\ UNCHANGED <<row, promises>> /\ call'[c] \in Update
        /\ \A d \in Calls \ {c} : call'[d] = call[d]
    BY <1>0, <1>13, FindTypes
  <2>2. \A d \in Calls : Others(d)
    BY <1>2, <1>3, <2>1
  <2>3. QED
    BY <1>1, <1>5, <2>1, <2>2
<1>14. ASSUME NEW t \in Secrets, deleteSecret(t)
       PROVE  Capped'
  <2>1. Forget({t}) /\ UNCHANGED <<call, cap, mixed>>
    BY <1>14 DEF deleteSecret
  <2>2. ASSUME NEW j \in Ids
        PROVE  Same(j)
    <3>1. /\ row[j].identifier = row'[j].identifier
          /\ ~Exists(j) => row'[j] = row[j]
          /\ Exists(j) => Lost(j, {t})
      BY <1>0, <2>1, ForgetTypes
    <3>2. QED
      BY <3>1 DEF Lost, Exists, None, Gone
  <2>3. \A d \in Calls : Others(d)
    BY <1>2, <2>1
  <2>4. QED
    BY <1>1, <2>1, <2>2, <2>3
<1>15. CASE NextMillisecond
  <2>1. UNCHANGED <<row, call, cap, mixed>>
    BY <1>15 DEF NextMillisecond
  <2>2. \A d \in Calls : Others(d)
    BY <1>2, <2>1
  <2>3. QED
    BY <1>1, <1>5, <2>1, <2>2
<1>16. QED
  BY <1>6, <1>7, <1>8, <1>9, <1>10, <1>11, <1>12, <1>13, <1>14, <1>15, CreateCapped
  DEF RegistryNext, Seed, Write

LEMMA CappedAlways == Spec => []Capped
<1>1. ASSUME Init
      PROVE  Capped
  <2>1. \A c \in Calls, i \in Ids : ~CreatedBy(c, i)
    BY <1>1, InitSound DEF CreatedBy, Idle
  <2>2. \A i \in Ids : row[i].identifier # "child"
    BY <1>1 DEF Init, RegistryInit, NewAgent, None, Gone
  <2>3. QED
    BY <2>1, <2>2 DEF Capped, WithinGrant, Named
<1>2. ASSUME Sound, Sound', Capped, [Next]_vars
      PROVE  Capped'
  <2>0. WithinGrant
    BY <1>2 DEF Capped
  <2>1. CASE AppStep
    <3>1. TypeOK' /\ AppsOnly
      BY <1>2, <2>1, AppStepTypes DEF Sound, Working
    <3>2. /\ \A i \in Ids : /\ row'[i].identifier = row[i].identifier
                            /\ Exists(i) => /\ row'[i].mode = row[i].mode
                                            /\ row'[i].grants \subseteq row[i].grants
                                            /\ Access(row'[i]) \subseteq Access(row[i])
          /\ \A d \in Calls : call[d].at \in CreatePlaces \cup UpdatePlaces => call'[d] = call[d]
          /\ \A d \in Calls, i \in Ids : CreatedBy(d, i)' <=> CreatedBy(d, i)
      BY <1>2, <3>1, AppInformed DEF Sound, Working
    <3>3. cap' = cap /\ mixed' = mixed
      BY <3>1 DEF AppsOnly
    <3>4. \A i \in Ids : row[i].identifier = "child" => Exists(i)
      BY DEF Exists, None, Gone
    <3>5. WithinGrant'
      BY <2>0, <3>2, <3>3, <3>4, WithinStays
    <3>6. \A d \in Calls, i \in Ids : CreatedBy(d, i)' => CreatedBy(d, i) /\ call'[d] = call[d]
      BY <3>2 DEF CreatedBy, CreatePlaces
    <3>7. QED
      BY <1>2, <3>3, <3>5, <3>6, CappedStays DEF At
  <2>2. CASE UNCHANGED vars
    <3>1. WithinGrant'
      BY <2>0, <2>2, Stutter, WithinStays
    <3>2. QED
      BY <1>2, <2>2, <3>1, Stutter, CappedStays DEF At, CreatedBy
  <2>3. QED
    BY <1>2, <2>1, <2>2, NextCases, RegistryCapped
<1>3. QED
  BY <1>1, <1>2, SoundAlways, PTL DEF Spec

(* A child may use no secret and no connection that its parent could not    *)
(* when createAgent looked, and no more than an administrator left it: also *)
(* when the call fails between the row and its grants, and when another     *)
(* call deletes the agent, a secret or a connection meanwhile.  Of a        *)
(* connection whose session policy lets the parent use a part, it may use   *)
(* the rest as well: createAgent does not copy the policy.                  *)
THEOREM Inheritance == Spec => []WithinGrant
<1>1. Capped => WithinGrant
  BY DEF Capped
<1>2. QED
  BY <1>1, CappedAlways, PTL

-----------------------------------------------------------------------------
(* What a child was promised                                                *)

\* What the call that creates an agent has done for it so far.
GrantedBy(c, i) ==
    /\ ~At(c, "did") => row[i].did
    /\ i \notin mixed =>
         /\ At(c, "apps") => call[c].want \cap Secrets \cap live \subseteq row[i].grants
         /\ At(c, "created") => call[c].want \cap live \subseteq row[i].grants

(* What an agent is owed it has, and what a call will grant was there       *)
(* already: a connection made since cannot be among it.                     *)
Promised ==
    /\ \A i \in Ids :
         /\ Exists(i) => /\ row[i].grants \cap Apps \subseteq Known
                         /\ owed[i] \subseteq row[i].grants
                         /\ row[i].identifier = "child" \/ owed[i] = {}
         /\ row[i] = None => owed[i] = {}
         /\ row[i].identifier = "child" => row[i].did \/ Creating(i) \/ i \in broken
    /\ \A c \in Calls :
         /\ call[c] \in Create => call[c].want \cap Apps \subseteq Known
         /\ \A i \in Ids : CreatedBy(c, i) /\ Exists(i) => GrantedBy(c, i)

\* How a step leaves a row.
Keeps(i) ==
    /\ Exists(i)' =>
         \/ /\ Exists(i) /\ row'[i].identifier = row[i].identifier
            /\ row[i].did => row'[i].did
            /\ row'[i].grants \cap Apps \subseteq Known'
            /\ Creating(i) /\ i \notin mixed' =>
                 i \notin mixed /\ row[i].grants \cap live' \subseteq row'[i].grants
            /\ owed'[i] \subseteq row'[i].grants
            /\ row'[i].identifier = "child" \/ owed'[i] = {}
         \/ /\ row[i] = None /\ row'[i].grants = {} /\ owed'[i] = {}
            /\ row'[i].identifier # "child" \/ Creating(i)'
    /\ row'[i] = None => owed'[i] = {}

\* It is enough to look at the rows one by one, and at the calls that move.
LEMMA PromisedStays ==
    ASSUME Sound, Promised, \A i \in Ids : Keeps(i),
           Known \subseteq Known', live' \cap (Secrets \cup Known) \subseteq live,
           broken \subseteq broken',
           \A d \in Calls : call'[d] \in Create =>
             \/ call'[d] = call[d]
             \/ /\ call'[d].want \cap Apps \subseteq Known'
                /\ \A i \in Ids : CreatedBy(d, i)' /\ Exists(i)' => GrantedBy(d, i)',
           \A d \in Calls : call'[d].at \in CreatePlaces => call'[d] \in Create,
           \A d \in Calls, i \in Ids : CreatedBy(d, i) /\ row'[i].identifier = "child" =>
             Creating(i)' \/ i \in broken' \/ row'[i].did
    PROVE  Promised'
<1>0. TypeOK /\ \A d \in Calls : Informed(d)
  BY DEF Sound, Working
<1>1. ASSUME NEW i \in Ids
      PROVE  /\ Exists(i)' => /\ row'[i].grants \cap Apps \subseteq Known'
                              /\ owed'[i] \subseteq row'[i].grants
                              /\ row'[i].identifier = "child" \/ owed'[i] = {}
             /\ row'[i] = None => owed'[i] = {}
  <2>1. Keeps(i)
    OBVIOUS
  <2>2. QED
    BY <2>1 DEF Keeps
<1>2. ASSUME NEW i \in Ids, row'[i].identifier = "child"
      PROVE  row'[i].did \/ Creating(i)' \/ i \in broken'
  <2>1. Exists(i)' /\ Keeps(i)
    BY <1>2 DEF Exists, None, Gone
  <2>2. CASE Exists(i) /\ row[i].identifier = "child" /\ (row[i].did => row'[i].did)
    <3>1. row[i].did \/ Creating(i) \/ i \in broken
      BY <2>2 DEF Promised
    <3>2. QED
      BY <1>2, <2>2, <3>1 DEF Creating
  <2>3. QED
    BY <1>2, <2>1, <2>2 DEF Keeps
<1>3. ASSUME NEW d \in Calls, call'[d] \in Create
      PROVE  call'[d].want \cap Apps \subseteq Known'
  BY <1>3 DEF Promised
<1>4. ASSUME NEW d \in Calls, NEW i \in Ids, CreatedBy(d, i)', Exists(i)'
      PROVE  GrantedBy(d, i)'
  <2>1. call'[d] \in Create
    BY <1>4 DEF CreatedBy, CreatePlaces
  <2>2. CASE call'[d] = call[d]
    <3>1. CreatedBy(d, i) /\ Creating(i)
      BY <1>4, <2>2 DEF CreatedBy, Creating
    <3>2. row[i] # None
      BY <1>0, <3>1, Rows DEF Informed, Exists
    <3>3. /\ Exists(i) /\ (row[i].did => row'[i].did)
          /\ i \notin mixed' => i \notin mixed /\ row[i].grants \cap live' \subseteq row'[i].grants
      BY <1>4, <3>1, <3>2 DEF Keeps
    <3>4. GrantedBy(d, i)
      BY <3>1, <3>3 DEF Promised
    <3>5. call[d].want \subseteq Secrets \cup Known
      <4>1. call[d].want \subseteq Things /\ call[d].want \cap Apps \subseteq Known
        BY <2>1, <2>2 DEF Promised, Create
      <4>2. QED
        BY <4>1 DEF Things
    <3>6. call[d].want \cap live' \subseteq live
      BY <3>5
    <3>7. ASSUME i \notin mixed'
          PROVE  /\ At(d, "apps") => call[d].want \cap Secrets \cap live' \subseteq row'[i].grants
                 /\ At(d, "created") => call[d].want \cap live' \subseteq row'[i].grants
      BY <3>3, <3>4, <3>6, <3>7 DEF GrantedBy
    <3>8. QED
      BY <2>2, <3>3, <3>4, <3>7 DEF GrantedBy, At
  <2>3. QED
    BY <1>4, <2>1, <2>2
<1>5. QED
  BY <1>1, <1>2, <1>3, <1>4 DEF Promised

\* What createAgent wants to grant is what its parent was granted.
LEMMA CreateWants ==
    ASSUME TypeOK, NEW c \in Calls, CreateStep(c), call[c].at \in {"idle", "exists", "parent"}
    PROVE  \/ call'[c] = Idle \/ call'[c].want = {}
           \/ call[c] \in Create /\ call'[c].want = call[c].want
           \/ Exists(Parent) /\ call'[c].want = row[Parent].grants
<1> USE DEF At
<1>1. (\E inherit \in BOOLEAN : StartCreate(c, inherit)) \/ FindExisting(c) \/ FindParent(c)
  BY DEF CreateStep, CreateRow, SetDid, GrantSecrets, GrantAnthropic, GrantApps, Created
<1>2. ASSUME NEW inherit \in BOOLEAN, StartCreate(c, inherit)
      PROVE  call'[c].want = {}
  BY <1>2 DEF StartCreate, Begin, TypeOK
<1>3. ASSUME NEW at \in CreatePlaces, Go(c, at), call[c] \in Create
      PROVE  call'[c].want = call[c].want
  <2>1. call'[c] = [call[c] EXCEPT !.at = at]
    BY <1>3, Goes
  <2>2. QED
    BY <1>3, <2>1 DEF Create
<1>4. CASE FindExisting(c)
  <2>1. call[c] \in Create /\ (End(c) \/ Go(c, "parent"))
    BY <1>4, Kinds DEF FindExisting, CreatePlaces
  <2>2. QED
    BY <1>3, <2>1, Ends DEF CreatePlaces
<1>5. CASE FindParent(c)
  <2>1. call[c] \in Create
    BY <1>5, Kinds DEF FindParent, CreatePlaces
  <2>2. CASE call[c].inherit /\ Exists(Parent)
    <3>1. call' = [call EXCEPT ![c] = [call[c] EXCEPT !.at = "row", !.mode = row[Parent].mode,
                                                     !.want = row[Parent].grants]]
      BY <1>5, <2>2 DEF FindParent
    <3>2. call'[c].want = row[Parent].grants
      BY <2>1, <3>1 DEF TypeOK, Create
    <3>3. QED
      BY <2>2, <3>2
  <2>3. CASE ~(call[c].inherit /\ Exists(Parent))
    BY <1>3, <1>5, <2>1, <2>3 DEF FindParent, CreatePlaces
  <2>4. QED
    BY <2>2, <2>3
<1>6. QED
  BY <1>1, <1>2, <1>4, <1>5

\* A row that stays what it is, but for its default and its token.
LEMMA SameKeeps ==
    ASSUME Promised, NEW i \in Ids, Known' = Known, UNCHANGED <<live, mixed>>, owed'[i] = owed[i],
           row'[i] = None => row[i] = None,
           Exists(i)' => /\ Exists(i) /\ row'[i].identifier = row[i].identifier
                         /\ row[i].did => row'[i].did
                         /\ row'[i].grants = row[i].grants
    PROVE  Keeps(i)
  BY DEF Keeps, Promised

\* The steps of createAgent.
LEMMA CreatePromised ==
    ASSUME Sound, Capped, Promised, NEW c \in Calls, CreateStep(c), UNCHANGED app
    PROVE  Promised'
<1>0. TypeOK /\ \A d \in Calls : Informed(d)
  BY DEF Sound, Working
<1> USE DEF At
<1>1. /\ UNCHANGED <<live, mixed>> /\ \A d \in Calls \ {c} : call'[d] = call[d]
      /\ call'[c] \in {Idle} \cup Create /\ call[c].at \in {"idle"} \cup CreatePlaces
  BY <1>0, CreateEffects
<1>2. Known' = Known
  BY DEF app, Known
<1>3. ASSUME \A i \in Ids : Keeps(i), broken \subseteq broken',
             call'[c] # Idle => call'[c].want \cap Apps \subseteq Known,
             \A i \in Ids : CreatedBy(c, i)' /\ Exists(i)' => GrantedBy(c, i)',
             \A i \in Ids : CreatedBy(c, i) /\ row'[i].identifier = "child" =>
               Creating(i)' \/ i \in broken' \/ row'[i].did
      PROVE  Promised'
  <2>1. \A d \in Calls : call'[d].at \in CreatePlaces => call'[d] \in Create
    BY <1>0, <1>1, Kinds DEF Idle, CreatePlaces
  <2>2. \A r \in Create : r # Idle
    BY DEF Create, Idle
  <2>3. \A d \in Calls : call'[d] \in Create =>
          \/ call'[d] = call[d]
          \/ /\ call'[d].want \cap Apps \subseteq Known'
             /\ \A i \in Ids : CreatedBy(d, i)' /\ Exists(i)' => GrantedBy(d, i)'
    BY <1>1, <1>2, <1>3, <2>2
  <2>4. ASSUME NEW d \in Calls, NEW i \in Ids, CreatedBy(d, i), row'[i].identifier = "child"
        PROVE  Creating(i)' \/ i \in broken' \/ row'[i].did
    <3>1. CASE d = c
      BY <1>3, <2>4, <3>1
    <3>2. CASE d # c
      BY <1>1, <2>4, <3>2 DEF Creating, CreatedBy
    <3>3. QED
      BY <3>1, <3>2
  <2>5. QED
    BY <1>1, <1>2, <1>3, <2>1, <2>3, <2>4, PromisedStays
<1>4. ASSUME UNCHANGED <<row, owed>>
      PROVE  \A i \in Ids : Keeps(i)
  BY <1>1, <1>2, <1>4, SameKeeps DEF Exists
<1>5. call[c] \in Create => call[c].want \cap Apps \subseteq Known
  BY DEF Promised
<1>6. CASE call[c].at \in {"idle", "exists", "parent"}
  <2>1. UNCHANGED <<row, broken, owed>> /\ \A i \in Ids : ~CreatedBy(c, i)'
    BY <1>0, <1>6, CreateHistory
  <2>2. \A i \in Ids : ~CreatedBy(c, i)
    BY <1>6 DEF CreatedBy
  <2>3. Exists(Parent) => row[Parent].grants \cap Apps \subseteq Known
    BY RegistryAssumption DEF Promised
  <2>4. call'[c] # Idle => call'[c].want \cap Apps \subseteq Known
    BY <1>0, <1>5, <1>6, <2>3, CreateWants
  <2>5. QED
    BY <1>3, <1>4, <2>1, <2>2, <2>4
<1>7. CASE call[c].at = "row"
  <2>1. call[c] \in Create /\ UNCHANGED <<owed, broken>>
    BY <1>0, <1>7, Kinds, CreateHistory DEF CreatePlaces
  <2>2. \A i \in Ids : ~CreatedBy(c, i)
    BY <1>7 DEF CreatedBy
  <2>3. CASE call'[c] = Idle /\ UNCHANGED row
    <3>1. \A i \in Ids : ~CreatedBy(c, i)'
      BY <2>3 DEF CreatedBy, Idle
    <3>2. QED
      BY <1>3, <1>4, <2>1, <2>2, <2>3, <3>1
  <2>4. ASSUME NEW i \in Ids, row[i] = None,
               row' = [row EXCEPT ![i] = NewAgent("child", call[c].mode)],
               call'[c] = [call[c] EXCEPT !.at = "did", !.id = i]
        PROVE  Promised'
    <3>1. /\ call'[c].at = "did" /\ call'[c].id = i /\ call'[c].want = call[c].want
      BY <2>1, <2>4 DEF Create
    <3>2. row'[i] = NewAgent("child", call[c].mode) /\ \A j \in Ids \ {i} : row'[j] = row[j]
      BY <1>0, <2>4 DEF TypeOK, RegistryTypeOK
    <3>3. ASSUME NEW j \in Ids
          PROVE  Keeps(j)
      <4>1. CASE j = i
        <5>1. owed'[i] = {} /\ row'[i].grants = {} /\ row'[i] # None
          BY <2>1, <2>4, <3>2 DEF Promised, NewAgent, None
        <5>2. Creating(i)'
          BY <3>1 DEF Creating, CreatedBy
        <5>3. QED
          BY <2>4, <4>1, <5>1, <5>2 DEF Keeps
      <4>2. CASE j # i
        BY <1>1, <1>2, <2>1, <3>2, <4>2, SameKeeps DEF Exists
      <4>3. QED
        BY <4>1, <4>2
    <3>4. \A j \in Ids : CreatedBy(c, j)' => GrantedBy(c, j)'
      BY <3>1 DEF GrantedBy
    <3>5. QED
      BY <1>3, <1>5, <2>1, <2>2, <3>1, <3>3, <3>4
  <2>5. QED
    BY <1>0, <1>7, <2>3, <2>4, CreateHistory
<1>8. CASE call[c].at = "did"
  <2> DEFINE i == call[c].id
  <2>1. call[c] \in Create /\ i \in Ids /\ UNCHANGED <<owed, broken>>
    BY <1>0, <1>8, Kinds, CreateHistory DEF CreatePlaces, Create
  <2>2. CASE call'[c] = Idle /\ UNCHANGED row /\ ~Exists(i)
    <3>1. \A j \in Ids : ~CreatedBy(c, j)' /\ (CreatedBy(c, j) => j = i)
      BY <2>2 DEF CreatedBy, Idle
    <3>2. row'[i].identifier # "child"
      BY <2>2 DEF Exists, None, Gone
    <3>3. QED
      BY <1>3, <1>4, <2>1, <2>2, <3>1, <3>2
  <2>3. CASE /\ call'[c] = [call[c] EXCEPT !.at = "secrets"] /\ Exists(i)
             /\ row' = [row EXCEPT ![i] = [row[i] EXCEPT !.did = TRUE]]
    <3>1. /\ call'[c].at = "secrets" /\ call'[c].id = i /\ call'[c].want = call[c].want
      BY <2>1, <2>3 DEF Create
    <3>2. row[i] \in Agent
      BY <1>0, <2>1, <2>3, RowFields
    <3>3. /\ row'[i] = [row[i] EXCEPT !.did = TRUE] /\ \A j \in Ids \ {i} : row'[j] = row[j]
      BY <1>0, <2>1, <2>3 DEF TypeOK, RegistryTypeOK
    <3>4. /\ row'[i].identifier = row[i].identifier /\ row'[i].did
          /\ row'[i].grants = row[i].grants
      BY <3>2, <3>3 DEF Agent
    <3>5. row'[i] # None
      BY <3>2, <3>4, Rows DEF None, Agent
    <3>6. ASSUME NEW j \in Ids
          PROVE  Keeps(j)
      <4>1. CASE j = i
        BY <1>1, <1>2, <2>1, <2>3, <3>4, <3>5, <4>1, SameKeeps
      <4>2. CASE j # i
        BY <1>1, <1>2, <2>1, <3>3, <4>2, SameKeeps DEF Exists
      <4>3. QED
        BY <4>1, <4>2
    <3>7. \A j \in Ids : (CreatedBy(c, j)' => j = i) /\ (CreatedBy(c, j) => j = i)
      BY <3>1 DEF CreatedBy
    <3>8. GrantedBy(c, i)'
      BY <3>1, <3>4 DEF GrantedBy
    <3>9. QED
      BY <1>3, <1>5, <2>1, <3>1, <3>4, <3>6, <3>7, <3>8
  <2>4. QED
    BY <1>0, <1>8, <2>2, <2>3, CreateHistory
<1>9. CASE call[c].at \in {"secrets", "anthropic", "apps"}
  <2> DEFINE i == call[c].id
  <2>1. call[c] \in Create /\ i \in Ids /\ UNCHANGED owed
    BY <1>0, <1>9, GrantSteps
  <2>2. \A j \in Ids : CreatedBy(c, j) <=> j = i
    BY <1>9 DEF CreatedBy
  <2>3. CASE call'[c] = Idle /\ UNCHANGED row /\ broken' = broken \cup {i}
    <3>1. \A j \in Ids : ~CreatedBy(c, j)'
      BY <2>3 DEF CreatedBy, Idle
    <3>2. QED
      BY <1>3, <1>4, <2>1, <2>2, <2>3, <3>1
  <2>4. ASSUME UNCHANGED broken, NEW to \in {"anthropic", "apps", "created"},
               NEW things \in SUBSET Things, Granting(c, things, to)
        PROVE  Promised'
    <3>1. call'[c].at = to /\ call'[c].id = i /\ call'[c].want = call[c].want
      BY <2>1, <2>4 DEF Granting, Create
    <3>2. \A j \in Ids \ {i} : row'[j] = row[j]
      BY <1>0, <2>1, <2>4 DEF Granting, TypeOK, RegistryTypeOK
    <3>3. /\ row'[i] \notin {None, Gone} <=> Exists(i)
          /\ row'[i] = None <=> row[i] = None
          /\ row'[i].identifier = row[i].identifier
          /\ Exists(i) => row'[i].did = row[i].did /\ row'[i].grants = row[i].grants \cup things
      <4>1. CASE things = {} /\ UNCHANGED row
        <5>1. row'[i] = row[i]
          BY <4>1
        <5>2. row[i].grants \cup things = row[i].grants
          BY <4>1
        <5>3. row'[i] \notin {None, Gone} <=> Exists(i)
          BY <5>1 DEF Exists
        <5>4. row'[i].grants = row[i].grants \cup things
          BY <5>1, <5>2
        <5>5. QED
          BY <5>1, <5>3, <5>4
      <4>2. CASE /\ Exists(i)
                 /\ row' = [row EXCEPT ![i] = [row[i] EXCEPT !.grants = row[i].grants \cup things]]
        <5>1. row[i] \in Agent
          BY <1>0, <2>1, <4>2, RowFields
        <5>2. row'[i] = [row[i] EXCEPT !.grants = row[i].grants \cup things]
          BY <1>0, <2>1, <4>2 DEF TypeOK, RegistryTypeOK
        <5>3. row[i].grants \cup things \in SUBSET Things
          BY <5>1 DEF Agent
        <5>4. [row[i] EXCEPT !.grants = row[i].grants \cup things] \in Agent
          BY <1>0, <2>1, <4>2, <5>3, RowFields
        <5>5. row'[i] \notin {None, Gone} /\ row[i] # None
          <6>1. row'[i] \in Agent
            BY <5>2, <5>4
          <6>2. QED
            BY <5>1, <6>1, Rows
        <5>6. /\ row'[i].identifier = row[i].identifier /\ row'[i].did = row[i].did
              /\ row'[i].grants = row[i].grants \cup things
          BY <5>1, <5>2 DEF Agent
        <5>7. QED
          BY <4>2, <5>5, <5>6
      <4>3. QED
        BY <2>4, <4>1, <4>2 DEF Granting
    <3>4. things \cap Apps \subseteq Known
      BY <1>5, <2>1, <2>4, RegistryAssumption DEF Granting
    <3>5. ASSUME NEW j \in Ids
          PROVE  Keeps(j)
      <4>1. CASE j = i
        <5>1. ASSUME Exists(i)
              PROVE  /\ row[i].grants \cap Apps \subseteq Known /\ owed[i] \subseteq row[i].grants
                     /\ row[i].identifier = "child" \/ owed[i] = {}
          BY <2>1, <5>1 DEF Promised
        <5>2. ASSUME Exists(i)
              PROVE  /\ row'[i].grants \cap Apps \subseteq Known'
                     /\ row[i].grants \cap live' \subseteq row'[i].grants
                     /\ owed'[i] \subseteq row'[i].grants
          BY <1>2, <2>1, <3>3, <3>4, <5>1, <5>2
        <5>3. row[i] = None => owed[i] = {}
          BY <2>1 DEF Promised
        <5>4. owed'[i] = owed[i] /\ mixed' = mixed
          BY <1>1, <2>1
        <5>5. Keeps(j)
          BY <3>3, <4>1, <5>1, <5>2, <5>3, <5>4 DEF Keeps, Exists
        <5>6. QED
          BY <5>5
      <4>2. CASE j # i
        BY <1>1, <1>2, <2>1, <3>2, <4>2, SameKeeps DEF Exists
      <4>3. QED
        BY <4>1, <4>2
    <3>6. ASSUME Exists(i)'
          PROVE  GrantedBy(c, i)'
      <4>1. GrantedBy(c, i) /\ Exists(i)
        BY <2>1, <2>2, <3>1, <3>3, <3>6 DEF Promised, Exists
      <4>2. row'[i].did
        BY <1>9, <3>3, <4>1 DEF GrantedBy
      <4>3. ASSUME i \notin mixed, to = "apps"
            PROVE  call[c].want \cap Secrets \subseteq row'[i].grants
        <5>1. \/ things = call[c].want \cap Secrets
              \/ call[c].at = "anthropic"
          BY <2>4, <4>3 DEF Granting
        <5>2. call[c].at = "anthropic" => call[c].want \cap Secrets = {}
          BY <2>1, <2>2, <4>3 DEF Capped
        <5>3. QED
          BY <3>3, <4>1, <5>1, <5>2
      <4>4. ASSUME i \notin mixed, to = "created"
            PROVE  call[c].want \cap live \subseteq row'[i].grants
        <5>1. call[c].at = "apps" /\ things = call[c].want \cap Apps
          BY <2>4, <4>4 DEF Granting
        <5>2. call[c].want \cap Secrets \cap live \subseteq row[i].grants
          BY <4>1, <4>4, <5>1 DEF GrantedBy
        <5>3. call[c].want \subseteq Secrets \cup Apps
          BY <2>1 DEF Create, Things
        <5>4. QED
          BY <3>3, <4>1, <5>1, <5>2, <5>3
      <4>5. QED
        BY <1>1, <3>1, <4>2, <4>3, <4>4 DEF GrantedBy
    <3>7. Creating(i)' /\ \A j \in Ids : CreatedBy(c, j)' => j = i
      BY <3>1 DEF Creating, CreatedBy
    <3>8. QED
      BY <1>3, <1>5, <2>1, <2>2, <2>4, <3>1, <3>5, <3>6, <3>7
  <2>5. QED
    BY <1>0, <1>9, <2>3, <2>4, GrantSteps
<1>10. CASE call[c].at = "created"
  <2> DEFINE i == call[c].id
  <2>1. call[c] \in Create /\ i \in Ids /\ UNCHANGED <<row, broken>> /\ call'[c] = Idle
    BY <1>0, <1>10, Kinds, CreateHistory DEF CreatePlaces, Create
  <2>2. \A j \in Ids : (CreatedBy(c, j) <=> j = i) /\ ~CreatedBy(c, j)'
    BY <1>10, <2>1 DEF CreatedBy, Idle
  <2>3. owed' = [owed EXCEPT ![i] = IF i \in mixed THEN {} ELSE call[c].want \cap live]
    BY <1>0, <1>10, CreateHistory
  <2>4. /\ owed'[i] = (IF i \in mixed THEN {} ELSE call[c].want \cap live)
        /\ \A j \in Ids \ {i} : owed'[j] = owed[j]
    BY <1>0, <2>1, <2>3 DEF TypeOK, RegistryTypeOK
  <2>5. row[i] = Gone \/ (Exists(i) /\ row[i].identifier = "child")
    BY <1>0, <2>1, <2>2 DEF Informed
  <2>6. Exists(i) => row[i].did /\ owed'[i] \subseteq row[i].grants
    BY <1>10, <2>1, <2>2, <2>4 DEF Promised, GrantedBy
  <2>7. ASSUME NEW j \in Ids
        PROVE  Keeps(j)
    <3>1. CASE j = i
      BY <1>1, <1>2, <2>1, <2>5, <2>6, <3>1, Rows DEF Keeps, Exists, Promised
    <3>2. CASE j # i
      BY <1>1, <1>2, <2>1, <2>4, <3>2, SameKeeps DEF Exists
    <3>3. QED
      BY <3>1, <3>2
  <2>8. row'[i].identifier = "child" => row'[i].did
    BY <2>1, <2>5, <2>6 DEF Gone
  <2>9. QED
    BY <1>3, <2>1, <2>2, <2>7, <2>8
<1>11. QED
  BY <1>1, <1>6, <1>7, <1>8, <1>9, <1>10 DEF CreatePlaces

\* What an administrator decides is what the agent has, and what it is owed.
LEMMA DecidedKeeps ==
    ASSUME Sound, Promised, NEW i \in Ids, Exists(i), NEW agent \in Agent, NEW things,
           Decided(i, agent, things), UNCHANGED <<live, app>>,
           agent.identifier = row[i].identifier, agent.did = row[i].did,
           agent.grants \cap Apps \subseteq Known,
           agent.identifier = "child" => things \subseteq agent.grants,
           agent.identifier # "child" => owed[i] \subseteq agent.grants
    PROVE  \A j \in Ids : Keeps(j)
<1>0. TypeOK
  BY DEF Sound, Working
<1>1. /\ row'[i] = agent /\ \A j \in Ids \ {i} : row'[j] = row[j]
      /\ mixed' = (IF Creating(i) THEN mixed \cup {i} ELSE mixed \ {i})
      /\ \A j \in Ids \ {i} : owed'[j] = owed[j]
      /\ agent.identifier = "child" => owed'[i] = things
      /\ agent.identifier # "child" => owed'[i] = owed[i]
  BY <1>0 DEF Decided, TypeOK, RegistryTypeOK
<1>2. Known' = Known
  BY DEF app, Known
<1>3. row'[i] # None
  BY <1>1, Rows
<1>4. Creating(i) => i \in mixed'
  BY <1>1
<1>5. ASSUME agent.identifier # "child"
      PROVE  owed[i] = {}
  BY <1>5 DEF Promised
<1>6. owed'[i] \subseteq agent.grants /\ (agent.identifier = "child" \/ owed'[i] = {})
  BY <1>1, <1>5
<1>7. Keeps(i)
  BY <1>1, <1>2, <1>3, <1>4, <1>6 DEF Keeps
<1>8. ASSUME NEW j \in Ids \ {i}
      PROVE  Keeps(j)
  <2>1. row'[j] = row[j] /\ owed'[j] = owed[j] /\ (j \notin mixed' <=> j \notin mixed)
    BY <1>1
  <2>2. Exists(j)' <=> Exists(j)
    BY <2>1 DEF Exists
  <2>3. QED
    BY <1>2, <2>1, <2>2 DEF Keeps, Promised
<1>9. QED
  BY <1>7, <1>8

\* No step of the agents' calls breaks it.
LEMMA RegistryPromised ==
    ASSUME Sound, Capped, RegistryNext, UNCHANGED app, Promised
    PROVE  Promised'
<1>0. TypeOK
  BY DEF Sound, Working
<1> USE DEF At, promises, tokens
<1> DEFINE Quiet(d) ==
      \/ call'[d] = call[d]
      \/ /\ call[d].at \in {"idle"} \cup UpdatePlaces
         /\ call'[d].at \in {"idle"} \cup UpdatePlaces
<1>1. Known' = Known
  BY DEF app, Known
<1>2. \A d \in Calls : call'[d].at \in CreatePlaces <=> call'[d] \in Create
  <2>1. AgentsOnly
    BY <1>0, RegistryTypes
  <2>2. QED
    BY <2>1, Places DEF AgentsOnly
<1>3. ASSUME \A i \in Ids : Keeps(i), live' \subseteq live, broken \subseteq broken',
             \A d \in Calls : Quiet(d)
      PROVE  Promised'
  <2>1. \A d \in Calls : call'[d] \in Create => call'[d] = call[d]
    BY <1>2, <1>3 DEF CreatePlaces, UpdatePlaces
  <2>2. ASSUME NEW d \in Calls, NEW i \in Ids, CreatedBy(d, i)
        PROVE  Creating(i)'
    <3>1. call'[d] = call[d]
      BY <1>3, <2>2 DEF CreatedBy, UpdatePlaces
    <3>2. QED
      BY <2>2, <3>1 DEF CreatedBy, Creating
  <2>3. QED
    BY <1>1, <1>2, <1>3, <2>1, <2>2, PromisedStays
<1>4. ASSUME UNCHANGED <<row, live, mixed, owed>>
      PROVE  \A i \in Ids : Keeps(i)
  BY <1>1, <1>4, SameKeeps DEF Exists
<1>5. \A r \in Update : r.at \in UpdatePlaces
  BY DEF Update, UpdatePlaces
<1>6. Idle.at = "idle"
  BY DEF Idle
<1>7. ASSUME NEW c \in Calls, FindDefault(c) \/ SeeDefaults(c)
      PROVE  Promised'
  <2>1. UNCHANGED <<row, live, mixed, owed, broken>>
    BY <1>7 DEF FindDefault, SeeDefaults, registry
  <2>2. /\ call[c].at \in {"idle", "default"} /\ call'[c].at \in {"seed", "clear"}
        /\ \A d \in Calls \ {c} : call'[d] = call[d]
    <3>1. CASE FindDefault(c)
      BY <1>0, <1>6, <3>1 DEF FindDefault, Begin, TypeOK
    <3>2. CASE SeeDefaults(c)
      <4>1. call[c] \in Update
        BY <1>0, <3>2, Kinds DEF SeeDefaults, UpdatePlaces
      <4>2. QED
        BY <1>0, <3>2, <4>1 DEF SeeDefaults, TypeOK, Update
    <3>3. QED
      BY <1>7, <3>1, <3>2
  <2>3. \A d \in Calls : Quiet(d)
    BY <2>2 DEF UpdatePlaces
  <2>4. QED
    BY <1>3, <1>4, <2>1, <2>3
<1>8. ASSUME NEW c \in Calls, SeedRow(c)
      PROVE  Promised'
  <2>1. /\ call[c].at = "seed" /\ UNCHANGED <<live, mixed, owed, broken>> /\ call'[c] = Idle
        /\ \/ UNCHANGED row
           \/ \E i \in Ids :
                /\ row[i] = None
                /\ row' = [row EXCEPT ![i] = [NewAgent("default", "all") EXCEPT !.isDefault = TRUE]]
        /\ \A d \in Calls \ {c} : call'[d] = call[d] \/ (At(d, "clear") /\ call'[d].at = "clear")
    BY <1>0, <1>8, SeedEffects
  <2>2. ASSUME NEW i \in Ids, NEW j \in Ids, row[i] = None,
               row' = [row EXCEPT ![i] = [NewAgent("default", "all") EXCEPT !.isDefault = TRUE]]
        PROVE  Keeps(j)
    <3>1. CASE j = i
      <4>1. row'[j].identifier = "default" /\ row'[j].grants = {} /\ row[j] = None
        BY <1>0, <2>2, <3>1 DEF TypeOK, RegistryTypeOK, NewAgent
      <4>2. row'[j] # None
        BY <4>1 DEF None
      <4>3. owed'[j] = {}
        BY <2>1, <4>1 DEF Promised
      <4>4. QED
        BY <4>1, <4>2, <4>3 DEF Keeps
    <3>2. CASE j # i
      <4>1. row'[j] = row[j]
        BY <1>0, <2>2, <3>2 DEF TypeOK, RegistryTypeOK
      <4>2. QED
        BY <1>1, <2>1, <4>1, SameKeeps DEF Exists
    <3>3. QED
      BY <3>1, <3>2
  <2>3. \A j \in Ids : Keeps(j)
    BY <1>4, <2>1, <2>2
  <2>4. \A d \in Calls : Quiet(d)
    BY <1>6, <2>1 DEF UpdatePlaces
  <2>5. QED
    BY <1>3, <2>1, <2>3, <2>4
<1>9. ASSUME NEW c \in Calls, CommitDefault(c)
      PROVE  Promised'
  <2>1. /\ call[c].at = "clear" /\ UNCHANGED <<live, mixed, owed, broken>> /\ call'[c] = Idle
        /\ \A d \in Calls \ {c} : call'[d] = call[d] \/
             (d \in Outdates(c) /\ call'[d].at = call[d].at)
        /\ \A j \in Ids : /\ Exists(j)' <=> Exists(j)
                          /\ row'[j] = None <=> row[j] = None
                          /\ row'[j].identifier = row[j].identifier
                          /\ Exists(j) => row'[j].did = row[j].did /\ row'[j].grants = row[j].grants
    BY <1>0, <1>9, CommitEffects
  <2>2. \A j \in Ids : Keeps(j)
    BY <1>1, <2>1, SameKeeps
  <2>3. \A d \in Calls : Quiet(d)
    BY <1>6, <2>1 DEF UpdatePlaces, Outdates
  <2>4. QED
    BY <1>3, <2>1, <2>2, <2>3
<1>10. ASSUME NEW c \in Calls, DeleteRow(c)
       PROVE  Promised'
  <2>1. /\ call[c].at = "delete" /\ UNCHANGED <<live, mixed, owed, broken>> /\ call'[c] = Idle
        /\ \A d \in Calls \ {c} : call'[d] = call[d]
    BY <1>0, <1>10, Ends DEF DeleteRow
  <2>2. ASSUME NEW j \in Ids
        PROVE  Keeps(j)
    <3>1. row'[j] = Gone \/ row'[j] = row[j]
      BY <1>0, <1>10 DEF DeleteRow, TypeOK, RegistryTypeOK
    <3>2. CASE row'[j] = Gone
      BY <3>2, Rows DEF Keeps, Exists
    <3>3. CASE row'[j] = row[j]
      BY <1>1, <2>1, <3>3, SameKeeps DEF Exists
    <3>4. QED
      BY <3>1, <3>2, <3>3
  <2>3. \A d \in Calls : Quiet(d)
    BY <1>6, <2>1 DEF UpdatePlaces
  <2>4. QED
    BY <1>3, <2>1, <2>2, <2>3
<1>11. ASSUME NEW c \in Calls, WriteToken(c) \/ WriteRevoked(c)
       PROVE  Promised'
  <2> DEFINE i == call[c].id
  <2>1. /\ call[c].at \in {"renew", "revoke"} /\ i \in Ids
        /\ UNCHANGED <<live, mixed, owed, broken>> /\ call'[c] = Idle
        /\ \A d \in Calls \ {c} : call'[d] = call[d] \/ (At(d, "renew") /\ call'[d].at = "renew")
    BY <1>0, <1>11, WriteEffects DEF WriteToken, WriteRevoked, Update
  <2>2. UNCHANGED row \/ (Exists(i) /\ \E t \in {"live", "revoked"} :
                            row' = [row EXCEPT ![i] = [row[i] EXCEPT !.token = t]])
    BY <1>0, <1>11, <2>1 DEF WriteToken, WriteRevoked, TypeOK, RegistryTypeOK
  <2>3. ASSUME Exists(i), NEW t \in {"live", "revoked"}, NEW j \in Ids,
               row' = [row EXCEPT ![i] = [row[i] EXCEPT !.token = t]]
        PROVE  Keeps(j)
    <3> DEFINE x == [row[i] EXCEPT !.token = t]
    <3>1. x \in Agent /\ row[i] \in Agent
      BY <1>0, <2>1, <2>3, RowFields
    <3>2. x.identifier = row[i].identifier /\ x.did = row[i].did /\ x.grants = row[i].grants
      BY <3>1 DEF Agent
    <3>3. row' = [row EXCEPT ![i] = x]
      BY <2>3
    <3> HIDE DEF x
    <3>4. /\ row'[i] = x /\ \A k \in Ids \ {i} : row'[k] = row[k]
          /\ \A k \in Ids : /\ Exists(k)' <=> Exists(k)
                            /\ row'[k] = None <=> row[k] = None
      BY <1>0, <2>1, <2>3, <3>1, <3>3, RowWrites
    <3>5. row'[j].identifier = row[j].identifier /\ row'[j].did = row[j].did
          /\ row'[j].grants = row[j].grants
      BY <3>2, <3>4
    <3>6. QED
      BY <1>1, <2>1, <3>4, <3>5, SameKeeps
  <2>4. \A d \in Calls : Quiet(d)
    BY <1>6, <2>1 DEF UpdatePlaces
  <2>5. QED
    BY <1>3, <1>4, <2>1, <2>2, <2>3, <2>4
<1>12. ASSUME NEW c \in Calls, WriteMode(c) \/ ReplaceGrants(c)
       PROVE  Promised'
  <2> DEFINE i == call[c].id
  <2>1. /\ call[c].at \in {"mode", "grants"} /\ i \in Ids
        /\ UNCHANGED <<live, broken>> /\ call'[c] = Idle
        /\ \A d \in Calls \ {c} : call'[d] = call[d]
    BY <1>0, <1>12, Ends, Kinds DEF WriteMode, ReplaceGrants, UpdatePlaces, Update
  <2>2. \A d \in Calls : Quiet(d)
    BY <1>6, <2>1 DEF UpdatePlaces
  <2>3. CASE ~Exists(i)
    <3>1. UNCHANGED <<row, owed, mixed>>
      BY <1>12, <2>3 DEF WriteMode, ReplaceGrants
    <3>2. QED
      BY <1>3, <1>4, <2>1, <2>2, <3>1
  <2>4. CASE Exists(i)
    <3>1. row[i] \in Agent /\ row[i].grants \subseteq Things
      BY <1>0, <2>1, <2>4, RowFields DEF Agent
    <3>2. row[i].grants \cap Apps \subseteq Known /\ owed[i] \subseteq row[i].grants
      BY <2>1, <2>4 DEF Promised
    <3>3. CASE WriteMode(c)
      <4>1. PICK m \in Modes : Decided(i, [row[i] EXCEPT !.mode = m], owed[i])
        BY <2>4, <3>3 DEF WriteMode
      <4> DEFINE x == [row[i] EXCEPT !.mode = m]
      <4>2. /\ x \in Agent /\ x.identifier = row[i].identifier /\ x.did = row[i].did
            /\ x.grants = row[i].grants
        BY <3>1, RowExcept
      <4>3. Decided(i, x, owed[i])
        BY <4>1
      <4> HIDE DEF x
      <4>4. \A j \in Ids : Keeps(j)
        BY <2>1, <2>4, <3>2, <4>2, <4>3, DecidedKeeps
      <4>5. QED
        BY <1>3, <2>1, <2>2, <4>4
    <3>4. CASE ReplaceGrants(c)
      <4>1. PICK kind \in {Secrets, Apps}, things \in SUBSET live, x \in Agent :
              Replacing(i, kind, things, x)
        BY <1>0, <2>1, <2>4, <3>4, Replaced
      <4>2. /\ Decided(i, x, (owed[i] \ kind) \cup things)
            /\ x.identifier = row[i].identifier /\ x.did = row[i].did
            /\ x.grants = (row[i].grants \ kind) \cup things
        BY <4>1 DEF Replacing
      <4>3. (owed[i] \ kind) \cup things \subseteq x.grants
        BY <3>2, <4>2
      <4>4. live \cap Apps \subseteq Known
        BY <1>0 DEF TypeOK, Connections, Known
      <4>5. x.grants \cap Apps \subseteq Known
        BY <3>2, <4>1, <4>2, <4>4
      <4>6. owed[i] = {} \/ row[i].identifier = "child"
        BY <2>1, <2>4 DEF Promised
      <4>7. \A j \in Ids : Keeps(j)
        BY <2>1, <2>4, <4>2, <4>3, <4>5, <4>6, DecidedKeeps
      <4>8. QED
        BY <1>3, <2>1, <2>2, <4>7
    <3>5. QED
      BY <1>12, <3>3, <3>4
  <2>5. QED
    BY <2>3, <2>4
<1>13. ASSUME NEW c \in Calls, FailAgentCall(c)
       PROVE  Promised'
  <2>1. /\ UNCHANGED <<row, live, owed, mixed>> /\ call'[c] = Idle
        /\ broken' = broken \cup {i \in Ids : CreatedBy(c, i)}
        /\ \A d \in Calls \ {c} : call'[d] = call[d]
    BY <1>0, <1>13, Ends DEF FailAgentCall
  <2>2. \A d \in Calls : call'[d] \in Create => call'[d] = call[d]
    BY <1>2, <1>6, <2>1 DEF CreatePlaces
  <2>3. ASSUME NEW d \in Calls, NEW i \in Ids, CreatedBy(d, i)
        PROVE  Creating(i)' \/ i \in broken'
    <3>1. CASE d = c
      BY <2>1, <2>3, <3>1
    <3>2. CASE d # c
      BY <2>1, <2>3, <3>2 DEF CreatedBy, Creating
    <3>3. QED
      BY <3>1, <3>2
  <2>4. \A i \in Ids : Keeps(i)
    BY <1>4, <2>1
  <2>5. broken \subseteq broken' /\ live' \subseteq live
    BY <2>1
  <2>6. QED
    BY <1>1, <1>2, <2>2, <2>3, <2>4, <2>5, PromisedStays
<1>14. ASSUME NEW c \in Calls, NEW i \in Ids, Find(c, i)
       PROVE  Promised'
  <2>1. /\ UNCHANGED <<row, live, promises>> /\ call'[c] \in Update /\ At(c, "idle")
        /\ \A d \in Calls \ {c} : call'[d] = call[d]
    BY <1>0, <1>14, FindTypes
  <2>2. \A d \in Calls : Quiet(d)
    BY <1>5, <2>1
  <2>3. QED
    BY <1>3, <1>4, <2>1, <2>2
<1>15. ASSUME NEW t \in Secrets, deleteSecret(t)
       PROVE  Promised'
  <2>1. Forget({t}) /\ UNCHANGED <<call, mixed, broken>> /\ live' \subseteq live
    BY <1>15 DEF deleteSecret, Forget
  <2>2. ASSUME NEW j \in Ids
        PROVE  Keeps(j)
    <3>1. Exists(j) => row[j] \in Agent
      BY <1>0, RowFields
    <3>2. /\ Exists(j) <=> Exists(j)'
          /\ row[j] = None <=> row'[j] = None
          /\ row[j].identifier = row'[j].identifier
          /\ Exists(j) => Lost(j, {t})
      BY <1>0, <2>1, ForgetTypes
    <3>3. Exists(j) => row'[j].did = row[j].did /\ row'[j].grants = row[j].grants \ {t}
      BY <3>2 DEF Lost
    <3>4. owed'[j] = owed[j] \ {t} /\ live' = live \ {t}
      BY <2>1 DEF Forget
    <3>5. /\ Exists(j) => /\ row[j].grants \cap Apps \subseteq Known
                          /\ owed[j] \subseteq row[j].grants
                          /\ row[j].identifier = "child" \/ owed[j] = {}
          /\ row[j] = None => owed[j] = {}
      BY DEF Promised
    <3>6. QED
      BY <1>1, <2>1, <3>2, <3>3, <3>4, <3>5 DEF Keeps
  <2>3. \A d \in Calls : Quiet(d)
    BY <2>1
  <2>4. QED
    BY <1>3, <2>1, <2>2, <2>3
<1>16. CASE NextMillisecond
  <2>1. UNCHANGED <<row, live, mixed, owed, broken, call>>
    BY <1>16 DEF NextMillisecond
  <2>2. \A d \in Calls : Quiet(d)
    BY <2>1
  <2>3. QED
    BY <1>3, <1>4, <2>1, <2>2
<1>17. QED
  BY <1>7, <1>8, <1>9, <1>10, <1>11, <1>12, <1>13, <1>14, <1>15, <1>16, CreatePromised
  DEF RegistryNext, Seed, Write

\* A connection that goes takes with it what was granted and what is owed; a
\* new one is of an id no call has seen.
LEMMA AppPromised ==
    ASSUME TypeOK, TypeOK', Sound, AppsOnly, Promised
    PROVE  Promised'
<1>1. /\ \A i \in Ids : /\ Exists(i)' <=> Exists(i)
                        /\ row'[i] = None <=> row[i] = None
                        /\ row'[i].identifier = row[i].identifier
                        /\ Exists(i) => row'[i].did = row[i].did
      /\ \A d \in Calls, i \in Ids : CreatedBy(d, i)' <=> CreatedBy(d, i)
  BY AppInformed DEF Sound, Working
<1>2. UNCHANGED <<mixed, broken>> /\ Known \subseteq Known'
  BY DEF AppsOnly
<1>3. live' \cap (Secrets \cup Known) \subseteq live
  BY RegistryAssumption DEF AppsOnly, Forget
<1>4. ASSUME NEW i \in Ids
      PROVE  Keeps(i)
  <2>1. /\ Exists(i) => /\ row[i].grants \cap Apps \subseteq Known
                        /\ owed[i] \subseteq row[i].grants
                        /\ row[i].identifier = "child" \/ owed[i] = {}
        /\ row[i] = None => owed[i] = {}
    BY DEF Promised
  <2>2. CASE UNCHANGED <<row, owed>>
    <3>1. row'[i] = row[i] /\ owed'[i] = owed[i]
      BY <2>2
    <3>2. QED
      BY <1>1, <1>2, <2>1, <3>1 DEF Keeps
  <2>3. ASSUME NEW things \in SUBSET Apps, Forget(things)
        PROVE  Keeps(i)
    <3>1. Exists(i) => row[i] \in Agent
      BY RowFields
    <3>2. Exists(i) => Lost(i, things)
      BY <2>3, ForgetTypes
    <3>3. Exists(i) => row'[i].grants = row[i].grants \ things
      BY <3>2 DEF Lost
    <3>4. owed'[i] = owed[i] \ things /\ live' = live \ things
      BY <2>3 DEF Forget
    <3>5. ASSUME Exists(i)
          PROVE  /\ row'[i].grants \cap Apps \subseteq Known'
                 /\ row[i].grants \cap live' \subseteq row'[i].grants
                 /\ owed'[i] \subseteq row'[i].grants
                 /\ row'[i].identifier = "child" \/ owed'[i] = {}
      BY <1>1, <1>2, <2>1, <3>3, <3>4, <3>5
    <3>6. row[i] = None => owed'[i] = {}
      BY <2>1, <3>4
    <3>7. QED
      BY <1>1, <1>2, <3>5, <3>6 DEF Keeps
  <2>4. QED
    BY <2>2, <2>3 DEF AppsOnly
<1>5. \A d \in Calls : call'[d] \in Create => call'[d] = call[d]
  BY DEF AppsOnly
<1>6. \A d \in Calls : call'[d].at \in CreatePlaces => call'[d] \in Create
  BY Places DEF TypeOK, AnyCall
<1>7. \A i \in Ids : Creating(i)' <=> Creating(i)
  BY <1>1 DEF Creating
<1>8. \A d \in Calls, i \in Ids : CreatedBy(d, i) => Creating(i)'
  BY <1>7 DEF Creating
<1>9. QED
  BY <1>2, <1>3, <1>4, <1>5, <1>6, <1>8, PromisedStays

LEMMA StutterPromised ==
    ASSUME Promised, UNCHANGED vars
    PROVE  Promised'
<1>1. UNCHANGED <<row, owed, broken, mixed, live, call, conn>>
  BY DEF vars, registry, promises, app
<1>2. QED
  BY <1>1 DEF Promised, GrantedBy, Exists, Creating, CreatedBy, Known, At

LEMMA PromisedAlways == Spec => []Promised
<1>1. ASSUME Init
      PROVE  Promised
  <2>1. \A i \in Ids : /\ owed[i] = {} /\ row[i].identifier # "child"
                       /\ Exists(i) => row[i].grants = {}
    BY <1>1 DEF Init, RegistryInit, NewAgent, None, Gone, Exists
  <2>2. \A c \in Calls : call[c] = Idle
    BY <1>1 DEF Init, RegistryInit
  <2>3. Idle \notin Create /\ \A c \in Calls, i \in Ids : ~CreatedBy(c, i)
    BY <2>2 DEF Idle, Create, CreatedBy
  <2>4. QED
    BY <2>1, <2>2, <2>3 DEF Promised
<1>2. ASSUME Sound, Sound', Capped, Promised, [Next]_vars
      PROVE  Promised'
  <2>1. CASE AppStep
    <3>1. TypeOK' /\ AppsOnly
      BY <1>2, <2>1, AppStepTypes DEF Sound, Working
    <3>2. QED
      BY <1>2, <3>1, AppPromised DEF Sound, Working
  <2>2. QED
    BY <1>2, <2>1, NextCases, RegistryPromised, StutterPromised
<1>3. QED
  BY <1>1, <1>2, SoundAlways, CappedAlways, PTL DEF Spec

(* When createAgent is over and was not broken off, the child has its DID   *)
(* and still has everything its parent had when it looked, or that an       *)
(* administrator gave it since: but for the secrets and connections that    *)
(* were deleted.                                                            *)
THEOREM Completion == Spec => []ChildComplete
<1>1. ASSUME Promised
      PROVE  ChildComplete
  <2>1. ASSUME NEW i \in Ids, row[i].identifier = "child", ~Creating(i), i \notin broken
        PROVE  row[i].did /\ owed[i] \subseteq row[i].grants
    <3>1. Exists(i)
      BY <2>1 DEF Exists, None, Gone
    <3>2. QED
      BY <1>1, <2>1, <3>1 DEF Promised
  <2>2. QED
    BY <2>1 DEF ChildComplete, Named
<1>2. QED
  BY <1>1, PromisedAlways, PTL

-----------------------------------------------------------------------------
(* What is blocked while the app is connected                               *)

BlockedBy(h) == \E r \in RulesOf(h) : rule[r].enabled

\* A call that connects will see to it that the host is blocked.
Covered(h) ==
    \E c \in Calls : At(c, "rules") \/ (At(c, "init") /\ h \in call[c].hosts)

(* A rule that does not block has been switched off; while the app is       *)
(* connected every host it blocks by default is blocked, or soon is; and    *)
(* while it is not, what is blocked was asked for, or soon is not.          *)
Guarded ==
    /\ \A h \in Ruled \cap Hosts : BlockedBy(h) \/ h \in bare
    /\ Connections # {} => \A h \in Hosts \ bare : BlockedBy(h) \/ Covered(h)
    /\ Connections = {} => Ruled \subseteq kept \/ InFlight({"count", "unblock"})

\* The places a call that matters here is at.
GuardPlaces == {"rules", "init", "count", "unblock"}

LEMMA Guards ==
    ASSUME \A d \in Calls : call[d].at \in GuardPlaces => call'[d] = call[d]
    PROVE  /\ \A h : Covered(h) => Covered(h)'
           /\ InFlight({"count", "unblock"}) => InFlight({"count", "unblock"})'
  BY DEF GuardPlaces, Covered, InFlight, At

\* Steps that leave the rules and the connections alone.
LEMMA GuardedStays ==
    ASSUME Guarded, UNCHANGED <<rule, bare, kept, conn, method>>,
           \A d \in Calls : call[d].at \in GuardPlaces => call'[d] = call[d]
    PROVE  Guarded'
<1>1. \A h : (BlockedBy(h)' <=> BlockedBy(h)) /\ (Covered(h) => Covered(h)')
  BY Guards DEF BlockedBy, RulesOf
<1>2. /\ Ruled' = Ruled /\ Hosts' = Hosts /\ Connections' = Connections
      /\ InFlight({"count", "unblock"}) => InFlight({"count", "unblock"})'
  BY Guards DEF Ruled, RulesOf, Hosts, Connections
<1>3. QED
  BY <1>1, <1>2 DEF Guarded

\* What a step does to the rules, seen from the hosts: the rules that stay
\* rules, and those that block more than before.
LEMMA RulesGrow ==
    ASSUME \A r \in RuleIds : rule[r] \notin {None, Gone} =>
             /\ rule'[r] \notin {None, Gone} /\ rule'[r].host = rule[r].host
             /\ rule[r].enabled => rule'[r].enabled
    PROVE  \A h : (BlockedBy(h) => BlockedBy(h)') /\ (RulesOf(h) # {} => RulesOf(h)' # {})
  BY DEF BlockedBy, RulesOf

\* A step of one call that is at none of those places.
LEMMA Elsewhere ==
    ASSUME NEW c \in Calls, call[c].at \notin GuardPlaces,
           \A d \in Calls \ {c} : call'[d] = call[d]
    PROVE  \A d \in Calls : call[d].at \in GuardPlaces => call'[d] = call[d]
  OBVIOUS

\* The steps of the calls that connect.
LEMMA ConnectGuarded ==
    ASSUME TypeOK, Guarded, NEW c \in Calls, Prepared(c), Connect(c)
    PROVE  Guarded'
<1> USE DEF At
<1>1. CASE ResolveClient(c) \/ ExchangeCode(c) \/ ListConnections(c)
  <2>1. OneCall(c) /\ UNCHANGED <<registry, app>>
    BY <1>1, ReadTypes DEF AppTypes
  <2>2. call[c].at \notin GuardPlaces
    BY <1>1 DEF ResolveClient, ExchangeCode, ListConnections, GuardPlaces
  <2>3. UNCHANGED <<rule, bare, kept, conn, method>>
    BY <2>1 DEF app, rules, settings
  <2>4. QED
    BY <2>1, <2>2, <2>3, Elsewhere, GuardedStays DEF OneCall
<1>2. CASE WriteConnection(c)
  <2>1. /\ OneCall(c) /\ UNCHANGED <<rules, settings>>
        /\ \/ call'[c] = Idle /\ UNCHANGED conn
           \/ Connections' # {} /\ (Hosts = {} \/ call'[c].at = "rules")
    BY <1>2, WriteConnectionTypes DEF Stored, Hosts
  <2>2. UNCHANGED <<rule, bare, kept, method>>
    BY <2>1 DEF rules, settings
  <2>3. call[c].at \notin GuardPlaces /\ \A d \in Calls \ {c} : call'[d] = call[d]
    BY <1>2, <2>1 DEF WriteConnection, GuardPlaces, OneCall
  <2>4. \A d \in Calls : call[d].at \in GuardPlaces => call'[d] = call[d]
    BY <2>3, Elsewhere
  <2>5. CASE UNCHANGED conn
    BY <2>2, <2>4, <2>5, GuardedStays
  <2>6. CASE Connections' # {} /\ (Hosts = {} \/ call'[c].at = "rules")
    <3>1. \A h : BlockedBy(h)' <=> BlockedBy(h)
      BY <2>2 DEF BlockedBy, RulesOf
    <3>2. Ruled' = Ruled /\ Hosts' = Hosts
      BY <2>2 DEF Ruled, RulesOf, Hosts
    <3>3. Hosts = {} \/ \A h : Covered(h)'
      BY <2>6 DEF Covered
    <3>4. QED
      BY <2>2, <2>6, <3>1, <3>2, <3>3 DEF Guarded
  <2>7. QED
    BY <2>1, <2>5, <2>6
<1>3. CASE ListRules(c)
  <2>1. OneCall(c) /\ UNCHANGED <<registry, app>>
    BY <1>3, ReadTypes DEF AppTypes
  <2>2. UNCHANGED <<rule, bare, kept, conn, method>>
    BY <2>1 DEF app, rules, settings
  <2>3. /\ \A h : (BlockedBy(h)' <=> BlockedBy(h))
        /\ Ruled' = Ruled /\ Hosts' = Hosts /\ Connections' = Connections
    BY <2>2 DEF BlockedBy, Ruled, RulesOf, Hosts, Connections
  <2>4. call[c].at = "rules" /\ \A d \in Calls \ {c} : call'[d] = call[d]
    BY <1>3, <2>1 DEF ListRules, OneCall
  <2>5. InFlight({"count", "unblock"}) => InFlight({"count", "unblock"})'
    BY <2>4 DEF InFlight
  <2>6. ASSUME NEW h \in Hosts \ Ruled
        PROVE  Covered(h)'
    <3>1. call[c] \in ConnectCall
      BY <2>4, Kinds DEF ConnectPlaces
    <3>2. call' = [call EXCEPT ![c] = [call[c] EXCEPT !.at = "init", !.hosts = Hosts \ Ruled]]
      BY <1>3, <2>6 DEF ListRules
    <3>3. call'[c].at = "init" /\ call'[c].hosts = Hosts \ Ruled
      BY <3>1, <3>2 DEF TypeOK, ConnectCall
    <3>4. QED
      BY <2>6, <3>3 DEF Covered
  <2>7. \A h \in Hosts \ bare : BlockedBy(h)' \/ Covered(h)'
    BY <2>3, <2>6 DEF Guarded
  <2>8. QED
    BY <2>2, <2>3, <2>5, <2>7 DEF Guarded
<1>4. CASE CreateDefaults(c)
  <2> DEFINE hosts == call[c].hosts
  <2>1. OneCall(c) /\ UNCHANGED method /\ UNCHANGED conn
    BY <1>4, RuleWrites DEF AppTypes
  <2>2. /\ call[c].at = "init" /\ bare' = bare \ hosts
        /\ kept' = IF Connections = {} THEN kept \cup hosts ELSE kept
        /\ \A d \in Calls \ {c} : call'[d] = call[d]
    BY <1>4, <2>1 DEF CreateDefaults, OneCall
  <2>3. Hosts' = Hosts /\ Connections' = Connections
    BY <2>1 DEF Hosts, Connections
  <2>4. /\ \A r \in RuleIds : \/ rule'[r] = rule[r]
                              \/ /\ rule[r] = None
                                 /\ \E h \in hosts : rule'[r] = [host |-> h, enabled |-> TRUE]
        /\ \A h \in hosts : \E r \in RuleIds :
             rule[r] = None /\ rule'[r] = [host |-> h, enabled |-> TRUE]
    BY <1>4, DefaultRules
  <2> HIDE DEF hosts
  <2>5. \A h : BlockedBy(h) => BlockedBy(h)'
    BY <2>4, RulesGrow
  <2>6. \A h \in hosts : BlockedBy(h)'
    <3>1. ASSUME NEW h \in hosts
          PROVE  BlockedBy(h)'
      <4>1. PICK r \in RuleIds : rule'[r] = [host |-> h, enabled |-> TRUE]
        BY <2>4
      <4>2. rule'[r] \notin {None, Gone} /\ rule'[r].host = h /\ rule'[r].enabled
        BY <4>1 DEF None, Gone
      <4>3. QED
        BY <4>2 DEF BlockedBy, RulesOf
    <3>2. QED
      BY <3>1
  <2>7. Ruled' \subseteq Ruled \cup hosts
    <3>1. ASSUME NEW h \in Hosts \cup Custom, NEW r \in RuleIds,
                 rule'[r] \notin {None, Gone}, rule'[r].host = h
          PROVE  h \in Ruled \cup hosts
      <4>1. CASE rule'[r] = rule[r]
        BY <3>1, <4>1 DEF Ruled, RulesOf
      <4>2. ASSUME NEW g \in hosts, rule'[r] = [host |-> g, enabled |-> TRUE]
            PROVE  h \in hosts
        BY <3>1, <4>2
      <4>3. QED
        BY <2>4, <4>1, <4>2
    <3>2. QED
      BY <2>3, <3>1 DEF Ruled, RulesOf
  <2>8. \A h \in Hosts \ hosts : Covered(h) => Covered(h)'
    <3>1. ASSUME NEW h \in Hosts \ hosts, NEW d \in Calls,
                 call[d].at = "rules" \/ (call[d].at = "init" /\ h \in call[d].hosts)
          PROVE  Covered(h)'
      <4>1. d # c
        BY <2>2, <3>1 DEF hosts
      <4>2. QED
        BY <2>2, <3>1, <4>1 DEF Covered
    <3>2. QED
      BY <3>1 DEF Covered
  <2>9. InFlight({"count", "unblock"}) => InFlight({"count", "unblock"})'
    BY <2>2 DEF InFlight
  <2>10. QED
    BY <2>2, <2>3, <2>5, <2>6, <2>7, <2>8, <2>9 DEF Guarded
<1>5. CASE SaveConfig(c)
  <2>1. OneCall(c) /\ UNCHANGED <<rule, bare, kept, conn, method>>
    BY <1>5, RuleWrites DEF AppTypes, SaveConfig, rules
  <2>2. call[c].at \notin GuardPlaces
    BY <1>5 DEF SaveConfig, GuardPlaces
  <2>3. QED
    BY <2>1, <2>2, Elsewhere, GuardedStays DEF OneCall
<1>6. QED
  BY <1>1, <1>2, <1>3, <1>4, <1>5 DEF Connect

\* The steps of the calls that disconnect.
LEMMA DisconnectGuarded ==
    ASSUME TypeOK, Guarded, NEW c \in Calls, Prepared(c),
           DeleteConnection(c) \/ CountRemaining(c) \/ ClearRules(c) \/ disconnectIfConnected(c)
    PROVE  Guarded'
<1> USE DEF At
<1>1. ASSUME UNCHANGED <<rule, method>>
      PROVE  Ruled' = Ruled /\ Hosts' = Hosts /\ \A h : BlockedBy(h)' <=> BlockedBy(h)
  BY <1>1 DEF Ruled, RulesOf, Hosts, BlockedBy
<1>2. CASE DeleteConnection(c) \/ disconnectIfConnected(c)
  <2>1. /\ OneCall(c) /\ UNCHANGED <<rule, bare, settings>> /\ Connections' \subseteq Connections
        /\ \/ /\ kept' = kept
              /\ call'[c].at = "count" \/ Connections' = Connections
           \/ Connections' = {} /\ kept' = kept \cup Ruled
    BY <1>2, DisconnectTypes DEF AppTypes
  <2>2. UNCHANGED method
    BY <2>1 DEF settings
  <2>3. \A d \in Calls : call[d].at \in GuardPlaces => call'[d] = call[d]
    BY <1>2, <2>1 DEF DeleteConnection, disconnectIfConnected, OneCall, GuardPlaces
  <2>4. /\ \A h : Covered(h) => Covered(h)'
        /\ InFlight({"count", "unblock"}) => InFlight({"count", "unblock"})'
    BY <2>3, Guards
  <2>5. call'[c].at = "count" => InFlight({"count", "unblock"})'
    BY DEF InFlight
  <2>6. Connections' = {} => Ruled \subseteq kept' \/ InFlight({"count", "unblock"})'
    BY <2>1, <2>4, <2>5 DEF Guarded
  <2>7. QED
    BY <1>1, <2>1, <2>2, <2>4, <2>6 DEF Guarded
<1>3. CASE CountRemaining(c)
  <2>1. OneCall(c) /\ UNCHANGED <<registry, app>>
    BY <1>3, ReadTypes DEF AppTypes
  <2>2. UNCHANGED <<rule, bare, kept, conn, method>>
    BY <2>1 DEF app, rules, settings
  <2>3. call[c].at = "count" /\ \A d \in Calls \ {c} : call'[d] = call[d]
    BY <1>3, <2>1 DEF CountRemaining, OneCall
  <2>4. ASSUME Connections = {}
        PROVE  InFlight({"count", "unblock"})'
    <3>1. call[c] \in DisconnectCall
      BY <2>3, Kinds DEF DisconnectPlaces
    <3>2. call' = [call EXCEPT ![c] = [call[c] EXCEPT !.at = "unblock", !.left = Connections]]
      BY <1>3, <2>4 DEF CountRemaining
    <3>3. call'[c].at = "unblock"
      BY <3>1, <3>2 DEF TypeOK, DisconnectCall
    <3>4. QED
      BY <3>3 DEF InFlight
  <2>5. \A h : Covered(h) => Covered(h)'
    BY <2>3 DEF Covered
  <2>6. Connections' = Connections
    BY <2>2 DEF Connections
  <2>7. QED
    BY <1>1, <2>2, <2>4, <2>5, <2>6 DEF Guarded
<1>4. CASE ClearRules(c)
  <2>1. /\ OneCall(c) /\ UNCHANGED method /\ UNCHANGED conn
    BY <1>4, RuleWrites DEF AppTypes
  <2>2. \A r \in RuleIds : rule'[r] \in {None, Gone}
    BY <1>4 DEF ClearRules
  <2>3. Ruled' = {}
    BY <2>2 DEF Ruled, RulesOf
  <2>4. bare' = IF Connections = {} THEN bare ELSE Hosts
    BY <1>4 DEF ClearRules, Prepared
  <2>5. Hosts' = Hosts /\ Connections' = Connections
    BY <2>1 DEF Hosts, Connections
  <2>6. QED
    BY <2>3, <2>4, <2>5 DEF Guarded
<1>5. QED
  BY <1>2, <1>3, <1>4

\* The steps of the calls that block a host.
LEMMA BlockGuarded ==
    ASSUME TypeOK, Guarded, NEW c \in Calls, Prepared(c),
           FindRule(c) \/ EnableRule(c) \/ CreateRule(c)
    PROVE  Guarded'
<1> USE DEF At
<1>1. call[c].at \notin GuardPlaces /\ OneCall(c) /\ UNCHANGED conn /\ UNCHANGED method
  <2>1. CASE FindRule(c)
    <3>1. AppTypes(c) /\ UNCHANGED <<registry, app>>
      BY <2>1, ReadTypes
    <3>2. QED
      BY <2>1, <3>1 DEF AppTypes, FindRule, GuardPlaces, app
  <2>2. CASE EnableRule(c) \/ CreateRule(c)
    <3>1. AppTypes(c) /\ UNCHANGED <<registry, conn>>
      BY <2>2, RuleWrites
    <3>2. QED
      BY <2>2, <3>1 DEF AppTypes, EnableRule, CreateRule, GuardPlaces
  <2>3. QED
    BY <2>1, <2>2
<1>2. \A d \in Calls : call[d].at \in GuardPlaces => call'[d] = call[d]
  BY <1>1, Elsewhere DEF OneCall
<1>3. /\ \A h : Covered(h) => Covered(h)'
      /\ InFlight({"count", "unblock"}) => InFlight({"count", "unblock"})'
      /\ Hosts' = Hosts /\ Connections' = Connections
  BY <1>1, <1>2, Guards DEF Hosts, Connections
<1>4. ASSUME UNCHANGED <<rule, bare, kept>>
      PROVE  Guarded'
  BY <1>1, <1>2, <1>4, GuardedStays
<1>5. CASE FindRule(c)
  BY <1>4, <1>5 DEF FindRule, app, rules
<1>6. CASE EnableRule(c)
  <2> DEFINE r == call[c].rule
  <2>1. r \in RuleIds /\ rule[r] # None
    BY <1>6 DEF EnableRule, Prepared
  <2>2. CASE rule[r] = Gone
    BY <1>4, <1>6, <2>2 DEF EnableRule
  <2>3. CASE rule[r] # Gone
    <3>1. rule[r] \in Rule
      BY <2>1, <2>3 DEF TypeOK
    <3>2. /\ rule' = [rule EXCEPT ![r] = [rule[r] EXCEPT !.enabled = TRUE]] /\ bare' = bare
          /\ kept \subseteq kept'
      BY <1>6, <2>3 DEF EnableRule
    <3>3. [rule[r] EXCEPT !.enabled = TRUE] \in Rule
      BY <3>1 DEF Rule
    <3>4. \A q \in RuleIds :
            /\ rule'[q] \in {None, Gone} <=> rule[q] \in {None, Gone}
            /\ rule[q] \notin {None, Gone} => /\ rule'[q].host = rule[q].host
                                              /\ rule[q].enabled => rule'[q].enabled
      <4>1. ASSUME NEW q \in RuleIds, q # r
            PROVE  rule'[q] = rule[q]
        BY <2>1, <3>2, <4>1 DEF TypeOK
      <4>2. rule'[r] = [rule[r] EXCEPT !.enabled = TRUE]
        BY <2>1, <3>2 DEF TypeOK
      <4>3. rule'[r].host = rule[r].host /\ rule'[r].enabled
        BY <3>1, <4>2 DEF Rule
      <4>4. {rule[r], rule'[r]} \cap {None, Gone} = {}
        BY <3>1, <3>3, <4>2, Rows
      <4>5. QED
        BY <4>1, <4>3, <4>4
    <3>5. \A h : BlockedBy(h) => BlockedBy(h)'
      BY <3>4, RulesGrow
    <3>6. Ruled' = Ruled
      BY <1>3, <3>4 DEF Ruled, RulesOf
    <3>7. QED
      BY <1>3, <3>2, <3>5, <3>6 DEF Guarded
  <2>4. QED
    BY <2>2, <2>3
<1>7. CASE CreateRule(c)
  <2> DEFINE host == call[c].host
  <2>1. PICK r \in Fresh(rule) : rule' = [rule EXCEPT ![r] = [host |-> host, enabled |-> TRUE]]
    BY <1>7 DEF CreateRule
  <2>2. kept' = (IF Connections = {} THEN kept \cup {host} ELSE kept) /\ bare' = bare \ {host}
    BY <1>7 DEF CreateRule
  <2> HIDE DEF host
  <2>3. r \in RuleIds /\ rule[r] = None
    BY <2>1, FreshIds DEF TypeOK
  <2>4. rule'[r] = [host |-> host, enabled |-> TRUE] /\ \A q \in RuleIds \ {r} : rule'[q] = rule[q]
    BY <2>1, <2>3 DEF TypeOK
  <2>5. rule'[r] \notin {None, Gone} /\ rule'[r].host = host /\ rule'[r].enabled
    BY <2>4 DEF None, Gone
  <2>6. \A h : h = host \/ BlockedBy(h) => BlockedBy(h)'
    <3>1. \A h : h = host => BlockedBy(h)'
      BY <2>3, <2>5 DEF BlockedBy, RulesOf
    <3>2. \A q \in RuleIds : rule[q] \notin {None, Gone} => rule'[q] = rule[q]
      BY <2>3, <2>4
    <3>3. QED
      BY <3>1, <3>2, RulesGrow
  <2>7. Ruled' \subseteq Ruled \cup {host}
    BY <1>3, <2>4, <2>5 DEF Ruled, RulesOf
  <2>8. QED
    BY <1>3, <2>2, <2>6, <2>7 DEF Guarded
<1>8. QED
  BY <1>5, <1>6, <1>7

\* The blocks that are switched and removed.
LEMMA ToggleGuarded ==
    ASSUME TypeOK, Guarded, NEW r \in RuleIds, ToggleRule(r) \/ RemoveRule(r)
    PROVE  Guarded'
<1>1. /\ UNCHANGED <<call, conn, kept, method>> /\ rule[r] \in Rule
      /\ \A q \in RuleIds \ {r} : rule'[q] = rule[q]
  BY ToggleTypes DEF ToggleRule, RemoveRule, TypeOK, settings
<1>2. /\ \A h : Covered(h)' <=> Covered(h)
      /\ InFlight({"count", "unblock"})' <=> InFlight({"count", "unblock"})
      /\ Hosts' = Hosts /\ Connections' = Connections
  BY <1>1 DEF Covered, InFlight, At, Hosts, Connections
<1> DEFINE host == rule[r].host
<1>3. \/ /\ rule'[r] \in Rule /\ rule'[r].host = host /\ rule'[r].enabled /\ bare' = bare
      \/ /\ rule'[r] = Gone \/ (rule'[r] \in Rule /\ rule'[r].host = host)
         /\ bare' = bare \cup ({host} \cap Hosts)
  <2>1. CASE ToggleRule(r)
    <3>1. rule'[r] = [rule[r] EXCEPT !.enabled = ~rule[r].enabled]
      BY <2>1 DEF ToggleRule, TypeOK
    <3>2. rule'[r] \in Rule /\ rule'[r].host = host /\ rule'[r].enabled = ~rule[r].enabled
      BY <1>1, <3>1 DEF Rule
    <3>3. bare' = (IF rule[r].enabled THEN bare \cup ({host} \cap Hosts) ELSE bare)
      BY <2>1 DEF ToggleRule
    <3>4. QED
      BY <3>2, <3>3
  <2>2. CASE RemoveRule(r)
    BY <2>2 DEF RemoveRule, TypeOK
  <2>3. QED
    BY <2>1, <2>2
<1> HIDE DEF host
<1>4. Ruled' \subseteq Ruled
  <2>1. rule[r] \notin {None, Gone} /\ rule[r].host = host
    BY <1>1, Rows DEF host
  <2>2. ASSUME NEW h \in Hosts \cup Custom, NEW q \in RuleIds, rule'[q] \notin {None, Gone},
               rule'[q].host = h
        PROVE  h \in Ruled
    <3>1. rule[q] \notin {None, Gone} /\ rule[q].host = h
      BY <1>1, <1>3, <2>1, <2>2
    <3>2. QED
      BY <3>1 DEF Ruled, RulesOf
  <2>3. QED
    BY <1>2, <2>2 DEF Ruled, RulesOf
<1>5. \A h : h # host /\ BlockedBy(h) => BlockedBy(h)'
  BY <1>1 DEF BlockedBy, RulesOf, host
<1>6. CASE rule'[r] \in Rule /\ rule'[r].host = host /\ rule'[r].enabled /\ bare' = bare
  <2>1. \A h : h = host => BlockedBy(h)'
    BY <1>6, Rows DEF BlockedBy, RulesOf
  <2>2. QED
    BY <1>1, <1>2, <1>4, <1>5, <1>6, <2>1 DEF Guarded
<1>7. CASE bare' = bare \cup ({host} \cap Hosts)
  BY <1>1, <1>2, <1>4, <1>5, <1>7 DEF Guarded
<1>8. QED
  BY <1>3, <1>6, <1>7

\* A call that fails leaves behind what it did not do.
LEMMA FailGuarded ==
    ASSUME TypeOK, Guarded, NEW c \in Calls, Prepared(c), Fail(c)
    PROVE  Guarded'
<1>1. /\ OneCall(c) /\ UNCHANGED conn /\ UNCHANGED method /\ UNCHANGED rule
      /\ bare' = IF call[c].at \in {"rules", "init"} THEN bare \cup (Hosts \ Ruled) ELSE bare
      /\ kept' = IF call[c].at \in {"count", "unblock"} THEN kept \cup Ruled ELSE kept
  <2>1. AppTypes(c) /\ UNCHANGED <<registry, conn>>
    BY RuleWrites
  <2>2. QED
    BY <2>1 DEF AppTypes, Fail
<1>2. /\ Ruled' = Ruled /\ Hosts' = Hosts /\ Connections' = Connections
      /\ \A h : BlockedBy(h)' <=> BlockedBy(h)
  BY <1>1 DEF Ruled, RulesOf, Hosts, Connections, BlockedBy
<1>3. \A d \in Calls \ {c} : call'[d] = call[d]
  BY <1>1 DEF OneCall
<1>4. call[c].at \notin {"rules", "init"} => \A h : Covered(h) => Covered(h)'
  BY <1>3 DEF Covered, At
<1>5. call[c].at \notin {"count", "unblock"} =>
        (InFlight({"count", "unblock"}) => InFlight({"count", "unblock"})')
  BY <1>3 DEF InFlight
<1>6. Connections' # {} => \A h \in Hosts \ bare' : BlockedBy(h)' \/ Covered(h)'
  <2>1. CASE call[c].at \in {"rules", "init"}
    BY <1>1, <1>2, <2>1 DEF Guarded
  <2>2. CASE call[c].at \notin {"rules", "init"}
    BY <1>1, <1>2, <1>4, <2>2 DEF Guarded
  <2>3. QED
    BY <2>1, <2>2
<1>7. Connections' = {} => Ruled \subseteq kept' \/ InFlight({"count", "unblock"})'
  BY <1>1, <1>2, <1>5 DEF Guarded
<1>8. bare \subseteq bare'
  BY <1>1
<1>9. QED
  BY <1>2, <1>6, <1>7, <1>8 DEF Guarded

LEMMA AppGuarded ==
    ASSUME Sound, Guarded, AppStep
    PROVE  Guarded'
<1>0. TypeOK /\ \A d \in Calls : Prepared(d)
  BY DEF Sound, Working
<1>1. ASSUME NEW c \in Calls, Start(c)
      PROVE  Guarded'
  <2>1. /\ OneCall(c) /\ At(c, "idle") /\ UNCHANGED <<conn, rules, method>>
    BY <1>0, <1>1, StartTypes
  <2>2. UNCHANGED <<rule, bare, kept, conn, method>>
    BY <2>1 DEF rules
  <2>3. \A d \in Calls : call[d].at \in GuardPlaces => call'[d] = call[d]
    BY <2>1, Elsewhere DEF OneCall, At, GuardPlaces
  <2>4. QED
    BY <2>2, <2>3, GuardedStays
<1>2. ASSUME NEW c \in Calls, UpsertConfig(c) \/ ToggleConfig(c)
      PROVE  Guarded'
  <2>1. AppTypes(c) /\ UNCHANGED <<registry, conn>>
    BY <1>0, <1>2, RuleWrites
  <2>2. UNCHANGED <<rule, bare, kept, conn, method>>
    BY <1>2, <2>1 DEF UpsertConfig, ToggleConfig, rules
  <2>3. \A d \in Calls : call[d].at \in GuardPlaces => call'[d] = call[d]
    BY <1>2, <2>1, Elsewhere DEF AppTypes, OneCall, UpsertConfig, ToggleConfig, At, GuardPlaces
  <2>4. QED
    BY <2>2, <2>3, GuardedStays
<1>3. ASSUME NEW c \in Calls, Connect(c)
      PROVE  Guarded'
  BY <1>0, <1>3, ConnectGuarded
<1>4. ASSUME NEW c \in Calls, Fail(c)
      PROVE  Guarded'
  BY <1>0, <1>4, FailGuarded
<1>5. ASSUME NEW c \in Calls,
             DeleteConnection(c) \/ CountRemaining(c) \/ ClearRules(c) \/ disconnectIfConnected(c)
      PROVE  Guarded'
  BY <1>0, <1>5, DisconnectGuarded
<1>6. ASSUME NEW c \in Calls, FindRule(c) \/ EnableRule(c) \/ CreateRule(c)
      PROVE  Guarded'
  BY <1>0, <1>6, BlockGuarded
<1>7. ASSUME NEW r \in RuleIds, ToggleRule(r) \/ RemoveRule(r)
      PROVE  Guarded'
  BY <1>0, <1>7, ToggleGuarded
<1>8. QED
  BY <1>1, <1>2, <1>3, <1>4, <1>5, <1>6, <1>7 DEF AppStep

\* The agents' calls leave those of the app where they are.
LEMMA AppCallsStay ==
    ASSUME TypeOK, RegistryNext
    PROVE  \A d \in Calls :
             /\ call[d].at \notin {"idle"} \cup CreatePlaces \cup UpdatePlaces => call'[d] = call[d]
             /\ call'[d].at \notin {"idle"} \cup CreatePlaces \cup UpdatePlaces => call'[d] = call[d]
<1>1. AgentsOnly
  BY RegistryTypes
<1>2. \A d \in Calls : call[d] \in AgentCall <=> call[d].at \in {"idle"} \cup CreatePlaces \cup UpdatePlaces
  BY Kinds
<1>3. \A d \in Calls : call'[d] \in AgentCall <=> call'[d].at \in {"idle"} \cup CreatePlaces \cup UpdatePlaces
  BY <1>1, Places DEF AgentsOnly
<1>4. QED
  BY <1>1, <1>2, <1>3 DEF AgentsOnly

(* A host the app blocks by default is blocked while the app is connected   *)
(* and no call is about to block it, and no host is blocked for a           *)
(* connection that is gone: however connects, disconnects, blocks and the   *)
(* failures of each interleave, but for the hosts listed as bare or kept.   *)
THEOREM Blocklist == Spec => []BlockedWhileConnected
<1>1. ASSUME Init
      PROVE  Guarded
  <2>1. Ruled = {}
    BY <1>1 DEF Init, Ruled, RulesOf
  <2>2. Connections # {} => Hosts = {}
    BY <1>1 DEF Init, Connections, Hosts
  <2>3. QED
    BY <2>1, <2>2 DEF Guarded
<1>2. ASSUME Sound, Guarded, [Next]_vars
      PROVE  Guarded'
  <2>0. TypeOK
    BY <1>2 DEF Sound, Working
  <2>1. CASE AppStep
    BY <1>2, <2>1, AppGuarded
  <2>2. CASE RegistryNext /\ UNCHANGED app
    <3>1. \A d \in Calls : call[d].at \in GuardPlaces => call'[d] = call[d]
      BY <2>0, <2>2, AppCallsStay DEF GuardPlaces, CreatePlaces, UpdatePlaces
    <3>2. UNCHANGED <<rule, bare, kept, conn, method>>
      BY <2>2 DEF app, rules, settings
    <3>3. QED
      BY <1>2, <3>1, <3>2, GuardedStays
  <2>3. CASE UNCHANGED vars
    BY <1>2, <2>3, Stutter, GuardedStays
  <2>4. QED
    BY <1>2, <2>1, <2>2, <2>3, NextCases
<1>3. Guarded => BlockedWhileConnected
  BY DEF Guarded, BlockedWhileConnected, BlockedBy, Covered, InFlight, At
<1>4. QED
  BY <1>1, <1>2, <1>3, SoundAlways, PTL DEF Spec

-----------------------------------------------------------------------------
(* Whose client a connection is refreshed with                              *)

(* While a change of the client is not written yet, whatever was connected  *)
(* meanwhile counts as overtaken by it.                                     *)
Refreshable ==
    /\ RefreshableByClient
    /\ Changing => Connections \subseteq foreign

\* Steps that leave the client and the connections alone, no call behind that
\* one of them waits for, and no change of the client begun.
LEMMA RefreshableStays ==
    ASSUME Refreshable, Client' = Client, foreign' = foreign,
           UNCHANGED conn \/ (Connections' \subseteq Connections /\
                              \A i \in Connections' : conn'[i] = conn[i]),
           Changing' => Changing \/ Connections' = {},
           \A d \in Calls : Unsettled(d) \cap Connections' \subseteq Unsettled(d)'
    PROVE  Refreshable'
<1>1. Connections' \subseteq Connections /\ \A i \in Connections' : conn'[i] = conn[i]
  BY DEF Connections
<1>2. RefreshableByClient'
  <2>1. ASSUME NEW i \in Connections' \ foreign'
        PROVE  conn'[i].client = Client' \/ \E c \in Calls : i \in Unsettled(c)'
    BY <1>1, <2>1 DEF Refreshable, RefreshableByClient
  <2>2. QED
    BY <2>1 DEF RefreshableByClient
<1>3. QED
  BY <1>1, <1>2 DEF Refreshable

\* The places of a change of the client.
LEMMA Changes ==
    ASSUME \A d \in Calls :
             /\ call'[d].at \in {"upsert", "toggle"} => call'[d] = call[d]
             /\ call[d].at \in {"disconnect", "save"} => call'[d] = call[d]
    PROVE  /\ Changing' => Changing
           /\ \A d \in Calls : Unsettled(d) \cap Connections' \subseteq Unsettled(d)'
  BY DEF Changing, Unsettled, At

\* A step of one call that neither changes the client nor is about to.
LEMMA SettledStep ==
    ASSUME NEW c \in Calls, call[c].at \notin {"disconnect", "save"}, call'[c].at \notin {"upsert", "toggle"},
           \A d \in Calls \ {c} : call'[d] = call[d], Refreshable,
           UNCHANGED <<conn, config, foreign>>
    PROVE  Refreshable'
<1>1. /\ Changing' => Changing
      /\ \A d \in Calls : Unsettled(d) \cap Connections' \subseteq Unsettled(d)'
  BY Changes
<1>2. Client' = Client
  BY DEF Client
<1>3. QED
  BY <1>1, <1>2, RefreshableStays

\* Connecting stores the client that was asked for, or, with an import, goes on
\* to make the client it brought the project's.
LEMMA WriteRefreshable ==
    ASSUME TypeOK, Refreshable, NEW c \in Calls, WriteConnection(c)
    PROVE  Refreshable'
<1>1. /\ OneCall(c) /\ UNCHANGED settings /\ call[c].at = "write"
      /\ \/ call'[c] = Idle /\ UNCHANGED <<conn, foreign>>
         \/ \E i \in Apps :
              /\ conn' = [conn EXCEPT ![i] = [label |-> call[c].label, client |-> call[c].client]]
              /\ Connections' = Connections \cup {i}
              /\ foreign' = IF Changing \/ (method # "import" /\ call[c].client # Client)
                              THEN foreign \cup {i} ELSE foreign \ {i}
              /\ Stored(c, i)
  BY WriteConnectionTypes DEF WriteConnection, At
<1>2. /\ UNCHANGED config /\ \A d \in Calls \ {c} : call'[d] = call[d]
      /\ call'[c].at \notin {"upsert", "toggle"}
  <2>1. call'[c].at \in {"idle", "rules", "save"}
    BY <1>1 DEF Stored, Idle
  <2>2. QED
    BY <1>1, <2>1 DEF settings, OneCall
<1>3. Connections \subseteq Connections'
  BY <1>1 DEF Connections
<1>4. /\ Changing' <=> Changing
      /\ \A d \in Calls : Unsettled(d) \subseteq Unsettled(d)'
  BY <1>1, <1>2, <1>3 DEF Changing, Unsettled, At
<1>5. Client' = Client
  BY <1>2 DEF Client
<1>6. CASE UNCHANGED <<conn, foreign>>
  BY <1>4, <1>5, <1>6, RefreshableStays
<1>7. ASSUME NEW i \in Apps,
             conn' = [conn EXCEPT ![i] = [label |-> call[c].label, client |-> call[c].client]],
             Connections' = Connections \cup {i},
             foreign' = IF Changing \/ (method # "import" /\ call[c].client # Client)
                          THEN foreign \cup {i} ELSE foreign \ {i},
             Stored(c, i)
      PROVE  Refreshable'
  <2>1. /\ conn'[i].client = call[c].client
        /\ \A j \in Apps \ {i} : conn'[j] = conn[j] /\ (j \in foreign' <=> j \in foreign)
    BY <1>7 DEF TypeOK
  <2>2. i \notin foreign' => call[c].client = Client \/ i \in Unsettled(c)'
    <3>1. CASE method = "import"
      <4>1. call'[c].at = "save" /\ call'[c].conn = i
        BY <1>7, <3>1 DEF Stored, Hosts
      <4>2. QED
        BY <1>7, <4>1 DEF Unsettled, At
    <3>2. CASE method # "import"
      BY <1>7, <3>2
    <3>3. QED
      BY <3>1, <3>2
  <2>3. Connections \subseteq Apps
    BY DEF Connections
  <2>4. ASSUME NEW j \in Connections' \ foreign'
        PROVE  conn'[j].client = Client \/ \E d \in Calls : j \in Unsettled(d)'
    <3>1. CASE j = i
      BY <2>1, <2>2, <2>4, <3>1
    <3>2. CASE j # i
      BY <1>4, <1>7, <2>1, <2>3, <2>4, <3>2 DEF Refreshable, RefreshableByClient
    <3>3. QED
      BY <3>1, <3>2
  <2>5. Changing => Connections' \subseteq foreign'
    BY <1>7 DEF Refreshable
  <2>6. RefreshableByClient'
    BY <1>5, <2>4 DEF RefreshableByClient
  <2>7. QED
    BY <1>4, <2>5, <2>6 DEF Refreshable
<1>8. QED
  BY <1>1, <1>6, <1>7

\* No step of the calls that connect, disconnect and configure breaks it.
LEMMA AppRefreshable ==
    ASSUME Sound, Refreshable, AppStep
    PROVE  Refreshable'
<1>0. TypeOK /\ \A d \in Calls : Prepared(d)
  BY DEF Sound, Working
<1> USE DEF At
<1>1. ASSUME NEW c \in Calls, Start(c)
      PROVE  Refreshable'
  <2>1. /\ OneCall(c) /\ At(c, "idle") /\ UNCHANGED <<conn, foreign>>
        /\ \/ call'[c].at \in {"resolve", "list", "remove", "find"} /\ UNCHANGED config
           \/ call'[c].at = "disconnect" /\ (call'[c].to = "end" \/ UNCHANGED config)
    BY <1>0, <1>1, StartTypes
  <2>2. \A d \in Calls \ {c} : call'[d] = call[d]
    BY <2>1 DEF OneCall
  <2>3. CASE UNCHANGED config
    BY <1>0, <2>1, <2>2, <2>3, SettledStep
  <2>4. CASE call'[c].at = "disconnect" /\ call'[c].to = "end"
    <3>1. Connections' \subseteq Unsettled(c)'
      BY <2>4 DEF Unsettled
    <3>2. Changing' => Changing
      BY <2>2, <2>4 DEF Changing
    <3>3. Connections' = Connections
      BY <2>1 DEF Connections
    <3>4. QED
      BY <2>1, <3>1, <3>2, <3>3 DEF Refreshable, RefreshableByClient
  <2>5. QED
    BY <2>1, <2>3, <2>4
<1>2. ASSUME NEW c \in Calls,
             \/ ResolveClient(c) \/ ExchangeCode(c) \/ ListConnections(c) \/ ListRules(c)
             \/ CountRemaining(c) \/ FindRule(c)
      PROVE  Refreshable'
  <2>1. AppTypes(c) /\ UNCHANGED <<registry, app>>
    BY <1>0, <1>2, ReadTypes
  <2>2. /\ call[c].at \in {"resolve", "exchange", "list", "rules", "count", "find"}
        /\ \A d \in Calls \ {c} : call'[d] = call[d]
    BY <1>2, <2>1 DEF ResolveClient, ExchangeCode, ListConnections, ListRules, CountRemaining,
                      FindRule, AppTypes, OneCall
  <2>3. call'[c].at \notin {"upsert", "toggle"}
    <3>1. call[c] \in ConnectCall \cup DisconnectCall \cup BlockCall
      BY <1>0, <2>2, Kinds DEF ConnectPlaces, DisconnectPlaces, BlockPlaces
    <3>2. call \in [Calls -> AnyCall] /\ DOMAIN call = Calls
      BY <1>0 DEF TypeOK, AnyCall
    <3>3. \/ call'[c] = Idle \/ call'[c] = [call[c] EXCEPT !.at = "list"]
          \/ \E at \in {"exchange", "write", "init", "unblock", "create", "enable"} :
               call'[c].at = at
      <4>1. CASE ResolveClient(c)
        <5>1. call[c] \in ConnectCall
          BY <1>0, <4>1, Kinds DEF ResolveClient, ConnectPlaces
        <5>2. QED
          BY <3>2, <4>1, <5>1 DEF ResolveClient, End, ConnectCall
      <4>2. CASE ExchangeCode(c)
        BY <3>2, <4>2 DEF ExchangeCode, End, Go
      <4>3. CASE ListConnections(c)
        <5>1. call[c] \in ConnectCall
          BY <1>0, <4>3, Kinds DEF ListConnections, ConnectPlaces
        <5>2. QED
          BY <3>2, <4>3, <5>1 DEF ListConnections, Go, ConnectCall
      <4>4. CASE ListRules(c)
        <5>1. call[c] \in ConnectCall
          BY <1>0, <4>4, Kinds DEF ListRules, ConnectPlaces
        <5>2. QED
          BY <3>2, <4>4, <5>1 DEF ListRules, End, ConnectCall
      <4>5. CASE CountRemaining(c)
        <5>1. call[c] \in DisconnectCall
          BY <1>0, <4>5, Kinds DEF CountRemaining, DisconnectPlaces
        <5>2. QED
          BY <3>2, <4>5, <5>1 DEF CountRemaining, End, DisconnectCall
      <4>6. CASE FindRule(c)
        <5>1. call[c] \in BlockCall
          BY <1>0, <4>6, Kinds DEF FindRule, BlockPlaces
        <5>2. QED
          BY <3>2, <4>6, <5>1 DEF FindRule, End, Go, BlockCall
      <4>7. QED
        BY <1>2, <4>1, <4>2, <4>3, <4>4, <4>5, <4>6
    <3>4. call'[c] = [call[c] EXCEPT !.at = "list"] => call'[c].at = "list"
      BY <3>1 DEF ConnectCall, DisconnectCall, BlockCall
    <3>5. QED
      BY <3>3, <3>4 DEF Idle
  <2>4. QED
    BY <1>0, <2>1, <2>2, <2>3, SettledStep DEF app, settings
<1>3. ASSUME NEW c \in Calls, WriteConnection(c)
      PROVE  Refreshable'
  BY <1>0, <1>3, WriteRefreshable
<1>4. ASSUME NEW c \in Calls,
             CreateDefaults(c) \/ ClearRules(c) \/ EnableRule(c) \/ CreateRule(c)
      PROVE  Refreshable'
  <2>1. AppTypes(c) /\ call'[c] = Idle
    BY <1>0, <1>4, RuleWrites
  <2>2. /\ UNCHANGED <<conn, config, foreign>>
        /\ call[c].at \in {"init", "unblock", "enable", "create"}
    BY <1>4 DEF CreateDefaults, ClearRules, EnableRule, CreateRule, settings
  <2>3. \A d \in Calls \ {c} : call'[d] = call[d]
    BY <2>1 DEF AppTypes, OneCall
  <2>4. QED
    BY <2>1, <2>2, <2>3, SettledStep DEF Idle
<1>5. ASSUME NEW c \in Calls, UpsertConfig(c) \/ ToggleConfig(c)
      PROVE  Refreshable'
  <2>1. Changing
    BY <1>5 DEF UpsertConfig, ToggleConfig, Changing
  <2>2. UNCHANGED <<conn, foreign>>
    BY <1>5 DEF UpsertConfig, ToggleConfig
  <2>3. Connections' \subseteq foreign'
    BY <2>1, <2>2 DEF Refreshable, Connections
  <2>4. QED
    BY <2>3 DEF Refreshable, RefreshableByClient
<1>6. ASSUME NEW c \in Calls, Fail(c)
      PROVE  Refreshable'
  <2>1. AppTypes(c) /\ call'[c] = Idle /\ UNCHANGED conn
    BY <1>0, <1>6, RuleWrites
  <2>2. /\ UNCHANGED config /\ foreign' = foreign \cup Unsettled(c)
        /\ \A d \in Calls \ {c} : call'[d] = call[d]
    BY <1>6, <2>1 DEF Fail, settings, AppTypes, OneCall
  <2>3. Connections' = Connections /\ Client' = Client
    BY <2>1, <2>2 DEF Connections, Client
  <2>4. /\ Changing' => Changing
        /\ \A d \in Calls \ {c} : Unsettled(d)' = Unsettled(d)
    BY <2>1, <2>2, <2>3 DEF Changing, Unsettled, At, Idle
  <2>5. ASSUME NEW i \in Connections' \ foreign'
        PROVE  conn'[i].client = Client' \/ \E d \in Calls : i \in Unsettled(d)'
    <3>1. conn[i].client = Client \/ \E d \in Calls \ {c} : i \in Unsettled(d)
      BY <2>2, <2>3, <2>5 DEF Refreshable, RefreshableByClient
    <3>2. QED
      BY <2>1, <2>3, <2>4, <3>1
  <2>6. QED
    BY <2>2, <2>3, <2>4, <2>5 DEF Refreshable, RefreshableByClient
<1>7. ASSUME NEW c \in Calls, DeleteConnection(c) \/ disconnectIfConnected(c)
      PROVE  Refreshable'
  <2>1. /\ OneCall(c) /\ UNCHANGED <<settings, foreign>>
        /\ Connections' \subseteq Connections /\ \A i \in Connections' : conn'[i] = conn[i]
        /\ \/ DeleteConnection(c) /\ (call'[c].at = "count" \/ call'[c] = Idle)
           \/ Connections' = {}
    BY <1>0, <1>7, DisconnectTypes DEF AppTypes
  <2>2. Client' = Client
    BY <2>1 DEF settings, Client
  <2>3. CASE DeleteConnection(c) /\ (call'[c].at = "count" \/ call'[c] = Idle)
    <3>1. /\ Changing' => Changing
          /\ \A d \in Calls : Unsettled(d) \cap Connections' \subseteq Unsettled(d)'
      BY <2>1, <2>3, Changes DEF Idle, OneCall, DeleteConnection
    <3>2. QED
      BY <2>1, <2>2, <3>1, RefreshableStays
  <2>4. CASE Connections' = {}
    BY <2>1, <2>2, <2>4, RefreshableStays
  <2>5. QED
    BY <2>1, <2>3, <2>4
<1>8. ASSUME NEW r \in RuleIds, ToggleRule(r) \/ RemoveRule(r)
      PROVE  Refreshable'
  <2>1. UNCHANGED <<call, conn, config, foreign>>
    BY <1>0, <1>8, ToggleTypes DEF settings
  <2>2. (Changing' => Changing) /\ \A d \in Calls : Unsettled(d)' = Unsettled(d)
    BY <2>1 DEF Changing, Unsettled, Connections, At
  <2>3. Client' = Client
    BY <2>1 DEF Client
  <2>4. QED
    BY <2>1, <2>2, <2>3, RefreshableStays
<1>9. ASSUME NEW c \in Calls, SaveConfig(c)
      PROVE  Refreshable'
  <2>1. AppTypes(c) /\ call'[c] = Idle /\ UNCHANGED conn
    BY <1>0, <1>9, RuleWrites
  <2>2. Changing' => Changing
    BY <2>1 DEF Changing, AppTypes, OneCall, Idle
  <2>3. /\ Client' = call[c].client /\ Connections' = Connections
        /\ foreign' = foreign \cup {i \in Connections : conn[i].client # call[c].client}
    BY <1>9, <2>1 DEF SaveConfig, Client, Connections
  <2>4. QED
    BY <2>1, <2>2, <2>3 DEF Refreshable, RefreshableByClient
<1>10. QED
  BY <1>1, <1>2, <1>3, <1>4, <1>5, <1>6, <1>7, <1>8, <1>9 DEF AppStep, Connect

(* Every connection was made with the client its tokens will be refreshed   *)
(* with, whatever connects while the client is upserted, toggled or         *)
(* deleted, and whichever of these calls fails halfway: but for those       *)
(* listed as foreign, while a deletion has not disconnected yet, and while  *)
(* an import has not made its client the project's.  Foreign are, with an   *)
(* app whose credentials are imported, all that were connected with another *)
(* client than the last import's, which disconnects none of them.           *)
THEOREM RefreshClient == Spec => []RefreshableByClient
<1>1. ASSUME Init
      PROVE  Refreshable
  <2>1. ASSUME NEW i \in Connections
        PROVE  conn[i].client = EnvClient
    <3>1. CASE conn \in [Apps -> {None, Gone}]
      BY <2>1, <3>1 DEF Connections
    <3>2. ASSUME NEW past \in [Apps -> {None, Gone}], NEW j \in Apps, NEW label \in Labels,
                 conn = [past EXCEPT ![j] = [label |-> label, client |-> EnvClient]]
          PROVE  conn[i].client = EnvClient
      BY <2>1, <3>2 DEF Connections
    <3>3. QED
      BY <1>1, <3>1, <3>2 DEF Init
  <2>2. Client = EnvClient /\ ~Changing
    BY <1>1 DEF Init, RegistryInit, Client, Changing, Idle
  <2>3. QED
    BY <2>1, <2>2 DEF Refreshable, RefreshableByClient
<1>2. ASSUME Sound, Refreshable, [Next]_vars
      PROVE  Refreshable'
  <2>0. TypeOK
    BY <1>2 DEF Sound, Working
  <2>1. CASE AppStep
    BY <1>2, <2>1, AppRefreshable
  <2>2. ASSUME UNCHANGED <<conn, config, foreign>>,
               \A d \in Calls :
                 /\ call'[d].at \in {"upsert", "toggle"} => call'[d] = call[d]
                 /\ call[d].at \in {"disconnect", "save"} => call'[d] = call[d]
        PROVE  Refreshable'
    <3>1. /\ Changing' => Changing
          /\ \A d \in Calls : Unsettled(d) \cap Connections' \subseteq Unsettled(d)'
      BY <2>2, Changes
    <3>2. Client' = Client
      BY <2>2 DEF Client
    <3>3. QED
      BY <1>2, <2>2, <3>1, <3>2, RefreshableStays
  <2>3. CASE RegistryNext /\ UNCHANGED app
    <3>1. UNCHANGED <<conn, config, foreign>>
      BY <2>3 DEF app, settings
    <3>2. \A d \in Calls :
            /\ call'[d].at \in {"upsert", "toggle"} => call'[d] = call[d]
            /\ call[d].at \in {"disconnect", "save"} => call'[d] = call[d]
      BY <2>0, <2>3, AppCallsStay DEF CreatePlaces, UpdatePlaces
    <3>3. QED
      BY <2>2, <3>1, <3>2
  <2>4. CASE UNCHANGED vars
    BY <2>2, <2>4, Stutter
  <2>5. QED
    BY <1>2, <2>1, <2>3, <2>4, NextCases
<1>3. Refreshable => RefreshableByClient
  BY DEF Refreshable
<1>4. QED
  BY <1>1, <1>2, <1>3, SoundAlways, PTL DEF Spec
=============================================================================
