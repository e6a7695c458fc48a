--------------------------- MODULE AppConnections ---------------------------
(***************************************************************************)
(* One app of a project beside the project's agents: its connections,      *)
(* which agents are granted, the OAuth client they are made with           *)
(* (app-config-service.ts), and the hosts a connection blocks              *)
(* (app-blocklist-service.ts): with a private package registry connected,  *)
(* the public ones must not be reached around it.                          *)
(*                                                                         *)
(* Connecting, disconnecting and configuring are sequences of single       *)
(* statements, and those of concurrent calls interleave, also with those   *)
(* of AgentRegistry, which this module extends by the connections that     *)
(* Apps are the ids of.                                                    *)
(***************************************************************************)
EXTENDS AgentRegistry

CONSTANTS
    RuleIds,    \* ids of rows, never used twice (a bound)
    Labels,     \* whose account a connection is
    Defaulted,  \* what an app with a blocklist blocks by default
    Custom,     \* what users block besides
    MaxClient   \* OAuth clients configured (a bound)

ASSUME AppAssumption == MaxClient \in Nat /\ Defaulted \cap Custom = {}

VARIABLES
    method,    \* how the app is connected: through OAuth, by importing a user's
               \* credentials with their client, or with keys
    conn,      \* app_connections
    rule,      \* the block rules of the app in policy_rules
    config,    \* app_configs: the project's client, and whether it is enabled
    clients,   \* how many clients were configured so far
    bare,      \* history: hosts that need not be blocked
    kept,      \* history: hosts that may be blocked without a connection
    foreign    \* history: connections overtaken by a change of the client

rules == <<rule, bare, kept>>
settings == <<method, config, clients>>
app == <<conn, rules, settings, foreign>>
vars == <<registry, call, app>>

EnvClient == 0                \* the client in the gateway's environment

\* No app of the registry has both an OAuth client and a blocklist.
Hosts == IF method = "keys" THEN Defaulted ELSE {}

Connection == [label : Labels, client : 0..MaxClient]
Rule == [host : Defaulted \cup Custom, enabled : BOOLEAN]

NoId == "new"
ConnectCall ==
    [at : {"resolve", "exchange", "list", "write", "rules", "init", "save"}, label : Labels,
     client : 0..MaxClient, conn : Apps \cup {NoId}, hosts : SUBSET Defaulted]
DisconnectCall == [at : {"remove", "count", "unblock"}, conn : Apps, left : SUBSET Apps]
BlockCall == [at : {"find", "create", "enable"}, host : Defaulted \cup Custom,
              rule : RuleIds \cup {NoId}]
ConfigCall == [at : {"disconnect", "upsert", "toggle"}, to : {"upsert", "toggle", "end"}]

Connections == {i \in Apps : conn[i] \notin {None, Gone}}
RulesOf(host) == {r \in RuleIds : rule[r] \notin {None, Gone} /\ rule[r].host = host}
Ruled == {h \in Hosts \cup Custom : RulesOf(h) # {}}

TypeOK ==
    /\ RegistryTypeOK
    /\ call \in [Calls -> AgentCall \cup ConnectCall \cup DisconnectCall \cup BlockCall
                            \cup ConfigCall]
    /\ method \in {"oauth", "import", "keys"}
    /\ conn \in [Apps -> Connection \cup {None, Gone}]
    /\ live \cap Apps = Connections
    /\ rule \in [RuleIds -> Rule \cup {None, Gone}]
    /\ config \in [client : 0..MaxClient, enabled : BOOLEAN]
    /\ clients \in 0..MaxClient
    /\ bare \subseteq Hosts /\ kept \subseteq Hosts \cup Custom
    /\ foreign \subseteq Apps

\* An app that was connected before, or is, through OAuth.
Init ==
    /\ RegistryInit
    /\ method \in {"oauth", "import", "keys"}
    /\ \E past \in [Apps -> {None, Gone}] :
         \/ conn = past
         \/ \E i \in Apps, label \in Labels :
              /\ method = "oauth"
              /\ conn = [past EXCEPT ![i] = [label |-> label, client |-> EnvClient]]
    /\ \E secrets \in SUBSET Secrets : live = secrets \cup Connections
    /\ rule = [r \in RuleIds |-> None]
    /\ config = [client |-> EnvClient, enabled |-> FALSE]
    /\ clients = 0
    /\ bare = {} /\ kept = {} /\ foreign = {}

\* resolveAppCredentials: the project's client if it has an enabled one, or
\* the environment's, which may be missing too.
Client == IF config.enabled THEN config.client ELSE EnvClient

-----------------------------------------------------------------------------
(* Connecting: POST /apps/:provider/connect, or the OAuth callback.         *)

\* An import brings its client with it, of those users have.
Imported == IF method = "import" THEN 1..MaxClient ELSE {EnvClient}

StartConnect(c, label, id, client) ==
    /\ "connect" \in ops
    /\ client \in Imported
    /\ Begin(c, [at |-> IF method = "oauth" THEN "resolve" ELSE "list", label |-> label,
                 client |-> client, conn |-> id, hosts |-> {}])
    /\ UNCHANGED <<registry, app>>

ResolveClient(c) ==
    /\ At(c, "resolve")
    /\ \/ call' = [call EXCEPT ![c].at = "exchange", ![c].client = Client]
       \/ Client = EnvClient /\ End(c)
    /\ UNCHANGED <<registry, app>>

\* exchangeCode asks the provider, with the client resolved before.
ExchangeCode(c) ==
    /\ At(c, "exchange")
    /\ \/ Go(c, "list")
       \/ End(c)
    /\ UNCHANGED <<registry, app>>

\* Without a connection to renew, one of the same account is renewed.
ListConnections(c) ==
    LET same == {i \in Connections : conn[i].label = call[c].label} IN
    /\ At(c, "list")
    /\ IF call[c].conn # NoId \/ same = {}
         THEN Go(c, "write")
         ELSE \E i \in same : call' = [call EXCEPT ![c].at = "write", ![c].conn = i]
    /\ UNCHANGED <<registry, app>>

\* A change of the client that has disconnected, and is not written yet.
Changing == \E d \in Calls : call[d].at \in {"upsert", "toggle"}

\* The row an insert makes.
Fresh(table) ==
    LET unused == {i \in DOMAIN table : table[i] = None}
    IN  IF unused = {} THEN {} ELSE {CHOOSE i \in unused : TRUE}

\* createConnection or reconnectConnection, which fails if the row is gone.
WriteConnection(c) ==
    LET overtaken == Changing \/ (method # "import" /\ call[c].client # Client)
        Store(i) ==
            /\ conn' = [conn EXCEPT ![i] = [label |-> call[c].label, client |-> call[c].client]]
            /\ live' = live \cup {i}
            /\ foreign' = IF overtaken THEN foreign \cup {i} ELSE foreign \ {i}
            /\ \/ method = "import" /\ call' = [call EXCEPT ![c].at = "save", ![c].conn = i]
               \/ Hosts # {} /\ Go(c, "rules")
               \/ method # "import" /\ Hosts = {} /\ End(c)
    IN
    /\ At(c, "write")
    /\ \/ call[c].conn = NoId /\ \E i \in Fresh(conn) : Store(i)
       \/ call[c].conn \in Connections /\ Store(call[c].conn)
       \/ /\ call[c].conn \notin Connections \cup {NoId}
          /\ End(c) /\ UNCHANGED <<conn, live, foreign>>
    /\ UNCHANGED <<row, ops, raced, tokens, promises, rules, settings>>

\* initBlocklistDefaults: the hosts without a rule, enabled or not, ...
ListRules(c) ==
    LET missing == Hosts \ Ruled IN
    /\ At(c, "rules")
    /\ IF missing = {} THEN End(c)
         ELSE call' = [call EXCEPT ![c].at = "init", ![c].hosts = missing]
    /\ UNCHANGED <<registry, app>>

NewRules(hosts) ==
    {new \in [hosts -> {r \in RuleIds : rule[r] = None}] :
        \A g, h \in hosts : new[g] = new[h] => g = h}

\* ... get one, in one transaction.
CreateDefaults(c) ==
    LET hosts == call[c].hosts IN
    /\ At(c, "init")
    /\ NewRules(hosts) # {}
    /\ LET new == CHOOSE n \in NewRules(hosts) : TRUE
       IN  rule' = [r \in RuleIds |->
               IF \E h \in hosts : new[h] = r
                 THEN [host |-> CHOOSE h \in hosts : new[h] = r, enabled |-> TRUE]
                 ELSE rule[r]]
    /\ bare' = bare \ hosts
    /\ kept' = IF Connections = {} THEN kept \cup hosts ELSE kept
    /\ End(c)
    /\ UNCHANGED <<registry, conn, settings, foreign>>

\* saveAppConfigWithoutDisconnect: the client that came with the import is the
\* project's from now on, and what others were connected with stays connected.
SaveConfig(c) ==
    /\ At(c, "save")
    /\ config' = [client |-> call[c].client, enabled |-> TRUE]
    /\ foreign' = foreign \cup {i \in Connections : conn[i].client # call[c].client}
    /\ End(c)
    /\ UNCHANGED <<registry, conn, rules, method, clients>>

-----------------------------------------------------------------------------
(* Disconnecting: DELETE /apps/connections/:connectionId.                   *)

StartDisconnect(c, i) ==
    /\ "disconnect" \in ops
    /\ i \in Connections
    /\ Begin(c, [at |-> "remove", conn |-> i, left |-> {}])
    /\ UNCHANGED <<registry, app>>

\* The agents' grants of the connection go with it.
DeleteConnection(c) ==
    LET i == call[c].conn IN
    /\ At(c, "remove")
    /\ IF i \in Connections
         THEN conn' = [conn EXCEPT ![i] = Gone] /\ Forget({i}) /\ Go(c, "count")
         ELSE UNCHANGED <<conn, live, row, owed>> /\ End(c)
    /\ UNCHANGED <<ops, raced, tokens, cap, mixed, broken, rules, settings, foreign>>

CountRemaining_OneLeft(c) ==
    /\ At(c, "count")
    /\ IF Cardinality(Connections) < 2
         THEN call' = [call EXCEPT ![c].at = "unblock", ![c].left = Connections]
         ELSE End(c)
    /\ UNCHANGED <<registry, app>>

\* listConnectionsByProvider.
CountRemaining(c) ==
    /\ At(c, "count")
    /\ IF Connections = {}
         THEN call' = [call EXCEPT ![c].at = "unblock", ![c].left = Connections]
         ELSE End(c)
    /\ UNCHANGED <<registry, app>>

\* removeAllBlocklistRules; it may overtake a connection made since the count.
ClearRules(c) ==
    /\ At(c, "unblock")
    /\ rule' = [r \in RuleIds |-> IF rule[r] = None THEN None ELSE Gone]
    /\ bare' = IF Connections \subseteq call[c].left THEN bare ELSE Hosts
    /\ kept' = {}
    /\ End(c)
    /\ UNCHANGED <<registry, conn, settings, foreign>>

-----------------------------------------------------------------------------
(* The blocklist: POST, PATCH and DELETE /apps/:provider/blocklist.         *)

\* activateBlocklistHost and addCustomBlocklistRule look for a rule first.
StartBlock(c, host) ==
    /\ "block" \in ops
    /\ Begin(c, [at |-> "find", host |-> host, rule |-> NoId])
    /\ UNCHANGED <<registry, app>>

FindRule(c) ==
    LET host == call[c].host IN
    /\ At(c, "find")
    /\ IF RulesOf(host) = {} THEN Go(c, "create")
       ELSE IF host \in Custom THEN End(c)
       ELSE \E r \in RulesOf(host) :
              IF rule[r].enabled THEN End(c)
              ELSE call' = [call EXCEPT ![c].at = "enable", ![c].rule = r]
    /\ UNCHANGED <<registry, app>>

\* The user asked for the block, whether the app is connected or not.
EnableRule(c) ==
    LET r == call[c].rule IN
    /\ At(c, "enable")
    /\ IF rule[r] = Gone THEN UNCHANGED <<rule, kept>>
         ELSE /\ rule' = [rule EXCEPT ![r].enabled = TRUE]
              /\ kept' = IF Connections = {} THEN kept \cup {call[c].host} ELSE kept
    /\ End(c)
    /\ UNCHANGED <<registry, conn, bare, settings, foreign>>

CreateRule(c) ==
    LET host == call[c].host IN
    /\ At(c, "create")
    /\ \E r \in Fresh(rule) :
         rule' = [rule EXCEPT ![r] = [host |-> host, enabled |-> TRUE]]
    /\ kept' = IF Connections = {} THEN kept \cup {host} ELSE kept
    /\ bare' = bare \ {host}
    /\ End(c)
    /\ UNCHANGED <<registry, conn, settings, foreign>>

\* toggleBlocklistRule and removeBlocklistRule fail without the row, so that
\* finding it first shows nothing.
ToggleRule(r) ==
    /\ "block" \in ops
    /\ rule[r] \notin {None, Gone}
    /\ rule' = [rule EXCEPT ![r].enabled = ~@]
    /\ bare' = IF rule[r].enabled THEN bare \cup ({rule[r].host} \cap Hosts) ELSE bare
    /\ UNCHANGED <<registry, conn, kept, settings, call, foreign>>

RemoveRule(r) ==
    /\ "block" \in ops
    /\ rule[r] \notin {None, Gone}
    /\ rule' = [rule EXCEPT ![r] = Gone]
    /\ bare' = bare \cup ({rule[r].host} \cap Hosts)
    /\ UNCHANGED <<registry, conn, kept, settings, call, foreign>>

-----------------------------------------------------------------------------
(* The OAuth client: upsertAppConfig, toggleAppConfigEnabled and            *)
(* deleteAppConfig.                                                         *)

\* Whatever connections there are were made with the client that goes: the
\* first two disconnect and then write, the last one writes first.  Only the
\* apps of OAuth are "configurable", but the client an import left can be
\* disabled and deleted too.
StartConfig(c, to) ==
    /\ method # "keys" /\ "config" \in ops
    /\ to = "toggle" => config.client # EnvClient
    /\ to = "upsert" => method = "oauth" /\ clients < MaxClient
    /\ Begin(c, [at |-> "disconnect", to |-> to])
    /\ UNCHANGED <<registry, app>>

deleteAppConfig(c) ==
    /\ method # "keys" /\ "config" \in ops
    /\ config.client # EnvClient
    /\ config' = [client |-> EnvClient, enabled |-> FALSE]
    /\ Begin(c, [at |-> "disconnect", to |-> "end"])
    /\ UNCHANGED <<registry, conn, rules, method, clients, foreign>>

DisconnectIfConnected_Skipped(c) ==
    /\ At(c, "disconnect")
    /\ IF call[c].to = "end" THEN End(c) ELSE Go(c, call[c].to)
    /\ UNCHANGED <<registry, app>>

\* The blocks users have put on the app stay.
disconnectIfConnected(c) ==
    /\ At(c, "disconnect")
    /\ conn' = [i \in Apps |-> IF i \in Connections THEN Gone ELSE conn[i]]
    /\ Forget(Connections)
    /\ kept' = kept \cup Ruled
    /\ IF call[c].to = "end" THEN End(c) ELSE Go(c, call[c].to)
    /\ UNCHANGED <<ops, raced, tokens, cap, mixed, broken, rule, bare, settings, foreign>>

UpsertConfig(c) ==
    /\ At(c, "upsert")
    /\ clients < MaxClient
    /\ clients' = clients + 1
    /\ config' = [client |-> clients + 1, enabled |-> TRUE]
    /\ End(c)
    /\ UNCHANGED <<registry, conn, rules, method, foreign>>

\* The update fails if the configuration was deleted.
ToggleConfig(c) ==
    /\ At(c, "toggle")
    /\ config' = IF config.client = EnvClient THEN config
                 ELSE [config EXCEPT !.enabled = ~@]
    /\ End(c)
    /\ UNCHANGED <<registry, conn, rules, method, clients, foreign>>

\* The connections that wait for the next step of a call: those of a client that
\* is deleted, to be disconnected, and an imported one, for its client.
Unsettled(c) ==
    {i \in Connections : \/ At(c, "disconnect") /\ call[c].to = "end"
                         \/ At(c, "save") /\ call[c].conn = i}

-----------------------------------------------------------------------------

InFlight(steps) == \E c \in Calls : call[c].at \in steps

\* A call ends at any of its steps: a database error, or the process dies.
Fail(c) ==
    /\ call[c] \notin AgentCall
    /\ bare' = IF call[c].at \in {"rules", "init"} THEN bare \cup (Hosts \ Ruled) ELSE bare
    /\ kept' = IF call[c].at \in {"count", "unblock"} THEN kept \cup Ruled ELSE kept
    /\ foreign' = foreign \cup Unsettled(c)
    /\ End(c)
    /\ UNCHANGED <<registry, conn, rule, settings>>

Connect(c) ==
    \/ ResolveClient(c) \/ ExchangeCode(c) \/ ListConnections(c)
    \/ WriteConnection(c) \/ ListRules(c) \/ CreateDefaults(c) \/ SaveConfig(c)

Start(c) ==
    \/ \E label \in Labels, id \in Connections \cup {NoId}, client \in 0..MaxClient :
         StartConnect(c, label, id, client)
    \/ \E i \in Apps : StartDisconnect(c, i)
    \/ \E host \in Hosts \cup Custom : StartBlock(c, host)
    \/ \E to \in {"upsert", "toggle"} : StartConfig(c, to)
    \/ deleteAppConfig(c)

Next ==
    \/ RegistryNext /\ UNCHANGED app
    \/ \E c \in Calls :
         \/ Start(c) \/ Connect(c) \/ Fail(c)
         \/ DeleteConnection(c) \/ CountRemaining(c) \/ ClearRules(c)
         \/ FindRule(c) \/ EnableRule(c) \/ CreateRule(c)
         \/ disconnectIfConnected(c) \/ UpsertConfig(c) \/ ToggleConfig(c)
    \/ \E r \in RuleIds : ToggleRule(r) \/ RemoveRule(r)

Spec == Init /\ [][Next]_vars

-----------------------------------------------------------------------------

(* What an app blocks by default is blocked while it is connected, once     *)
(* connecting is over, and nothing stays blocked for its sake after the     *)
(* last disconnect: but for the hosts a user blocked or unblocked, those    *)
(* whose rule a failed call did not create or remove, those where a         *)
(* connection and a disconnect overtook each other's second half, and those *)
(* blocked when a change of the client disconnected the app.                *)
BlockedWhileConnected ==
    /\ Connections # {} /\ ~InFlight({"rules", "init"}) =>
         \A h \in Hosts \ bare : \E r \in RulesOf(h) : rule[r].enabled
    /\ Connections = {} /\ ~InFlight({"count", "unblock"}) => Ruled \subseteq kept

(* A connection was made with the client its tokens will be refreshed with  *)
(* (connect.rs asks for the same configuration): whoever changes the client *)
(* disconnects, and only a callback that resolved the client before, or     *)
(* stored its connection between the disconnect and the change, escapes, as *)
(* do the connections of a client whose deletion failed before it           *)
(* disconnected them.  Not so with an app whose credentials are imported:   *)
(* each import replaces the client, by saveAppConfigWithoutDisconnect, and  *)
(* leaves the connections made with another one behind, or its own where it *)
(* fails before.                                                            *)
RefreshableByClient ==
    \A i \in Connections \ foreign :
        conn[i].client = Client \/ \E c \in Calls : i \in Unsettled(c)
=============================================================================
