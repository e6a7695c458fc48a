# ONEComputer in TLA+

ONEComputer puts a policy gateway between an AI agent and the systems it talks
to.  A request that matches a `manual_approval` rule is held by the gateway
until a manager decides; the decision is recorded by the API, signed, and
verified by the gateway before the request goes upstream.  This directory
models the request's way through the gateway with its log, the hold and its
durable record, policy evaluation and the caches it rests on, the credentials
and vault sessions that are injected, and the parts of the control plane whose
handlers take several database calls: membership, sandboxes, agents and app
connections.  TLC checks the
models on small instances, and TLAPS proves most of the safety properties for
instances of every size.

Paths below are relative to the repository: `G` is `apps/gateway/src`, `A` is
`packages/api/src`.

## 1. The system

| Component | State it keeps | Operations | What is hard |
|---|---|---|---|
| Manual-approval hold (`G/approval.rs`, `G/gateway/forward.rs`) | two concurrent maps (pending approvals, decision senders), a watch channel per hold | prepare, store, wait, decide, remove, sweep, guard cleanup | four sources of a decision race in a `select!`; the agent may disconnect at every await |
| API poll loop (`G/gateway/approval_poll.rs`) | one loop per hold | ask for the row's status every 2 s, verify, submit | late and unverifiable answers, transport errors |
| SDK endpoints (`G/gateway.rs`) | none | long-poll for pending approvals, submit a decision | check-then-act across awaits; subscription after listing |
| Durable approval record (`A/services/approval-service.ts`) | `ApprovalRequest` rows with a JSON context | create, decide (three entries), acknowledge, trigger delivery, status | read, await, write back the whole context without a condition |
| Internal routes (`G/gateway/approval_notify.rs`, `A/routes/internal.ts`) | none | post a hold, read a status | the two sides fail apart; the gateway's side is lost on restart |
| Policy evaluation (`G/policy.rs`) | rate-limit counters in the cache | evaluate | requests of one agent count concurrently while the window ends |
| Connect cache (`G/connect.rs`, `G/cache.rs`) | resolved rules per agent and host, for 60 s | resolve, expire, invalidate by prefix | a query in flight during an invalidation; fire-and-forget invalidation |
| OAuth token refresh (`G/connect.rs`, `G/apps.rs`) | connection credentials in the database, resolved rows and injections in the cache | resolve, refresh, persist, reconnect, disconnect, invalidate | two requests refresh one rotating token; a refresh ends after a reconnect |
| Vaults (`G/vault/`) | sessions in memory, pairings in the database | pair, load, resolve, disconnect, evict | a session loaded while the pairing changes; a pairing that fails half-way |
| Request path (`G/gateway.rs`, `G/gateway/mitm.rs`, `forward.rs`, `websocket.rs`) | the request's own locals: two copies of its body, a verdict, a guard | tunnel, resolve, intercept, refuse, hold, send, respond | some twenty exits, each with its own events; the agent leaves at any await |
| Request log (`G/telemetry*.rs`) | bounded channel, batches, rows | emit, flush, update, mark cancelled | an update overtakes the insert; a full channel drops events |
| Rewriting (`G/inject.rs`, `secret_inject.rs`, `G/gateway/transforms*`, `finalizers*`) | none | pure functions on headers and bodies | strings |
| Membership (`A/routes/auth-session.ts`, `members.ts`, `A/services/member-service.ts`, `organization-service.ts`) | users, members, invitations, organizations, projects | first session, invite, change role, remove | handlers of several statements without a transaction |
| Sandboxes (`A/routes/sandboxes.ts`, `kasm-local-provider.ts`) | a container and a row per name | create with a background job, restart, delete | container and row change apart, errors are swallowed, names are used again |
| Agents (`A/services/agent-service.ts`, the seeds of `organization-service.ts`) | agents with their tokens, modes and grants, one of them the default | create with what the parent may use, move the default, seed it, delete, renew, revoke, grant | a creation of up to six statements that may end after any; a default moved by two transactions at READ COMMITTED |
| App connections (`A/routes/apps.ts`, `A/services/connection-service.ts`, `app-config-service.ts`, `app-blocklist-service.ts`) | connections, OAuth clients, block rules per project | connect, disconnect, change the client, block and unblock | side effects of a connection are calls of their own, which fail or are overtaken |
| Other control-plane services (`A/services/`: rules, secrets, audit, alerts, demonstrations) | database rows | CRUD, calls to providers | mostly single statements |
| Web (`apps/web`), schema (`packages/db`), `deploy` | none of their own | | |

How they interact: `forward_request` evaluates the policy on the rules it got
from the connect cache.  On `ManualApproval` it creates a channel, stores the
approval, posts it to the API and waits.  An SDK that long-polls the gateway, a
manager in the web application or a wallet through the OpenVTC route decides.
The SDK's decision arrives on the channel; the others change the row, which the
poll loop reads.  A change of rules, secrets or connections in the API asks the
gateway to drop the project's cache entries.  A permitted request gets the
injections its app connections and vaults yield; every exit that concerns a
known agent offers an event to the log.

What makes the parts correct, in short: nothing is released without an
approval, and then as it was shown; every hold ends and leaves nothing behind; a
decision is taken once and keeps its evidence; the strictest rule wins, a quota
holds, and stale rules go away; the log does not contradict what happened; a
connection is not lost by using it, and ends when its user ends it; secrets come
from the pairing that is stored; an organization keeps an owner, and a sandbox
passes the gateway as its own organization; a revoked agent stays out and one
made from another may use no more than it; what a connection blocks is blocked
exactly while it is there.

## 2. Modules

| Module | Models | Extends / instantiates |
|---|---|---|
| `OneTimeRelease` | what a hold promises (abstract) | |
| `ApprovalHold` | hold, poll loop, SDK decision, sweep | instance of `OneTimeRelease` |
| `ApprovalLongPoll` | `GET .../pending`, `wait_for_new`, pruning | |
| `ApprovalRecord` | the rows and their handlers | |
| `ManagerKey` | the manager's key beside the rows its confirmations decide | extends `ApprovalRecord` |
| `ManagerKeyProofs` | theorems about both | extends `ManagerKey` |
| `ApprovalFlow` | gateway and API together | extends `ApprovalHold` and `ApprovalRecord` |
| `ApprovalProofs` | theorems about the hold, and about the whole | extends `ApprovalFlow` and `ManagerKeyProofs` |
| `RuleCache` | connect cache, changes, invalidation | |
| `PolicyEval` | the four passes, the counters | |
| `RequestLog` | event channel, flush loop, cancelled mark | |
| `ForwardRequest` | every exit of a proxied request or upgrade | extends `RequestLog` |
| `ForwardRequestProofs` | theorems about both | extends `ForwardRequest` |
| `TokenRefresh` | one app connection's credentials in row, caches and requests | |
| `TokenRefreshProofs` | theorems about `TokenRefresh` | extends it |
| `VaultSession` | one project's vault: row, session map, calls | |
| `GatewayProofs` | theorems about what the gateway keeps in memory | extends `RuleCache`, `ApprovalLongPoll`, `PolicyEval` and `VaultSession` |
| `Membership` | first sessions, invitations, role changes | |
| `MembershipProofs` | theorems about `Membership` | extends it |
| `SandboxLifecycle` | sandboxes: routes, background job, containers | |
| `SandboxLifecycleProofs` | theorems about `SandboxLifecycle` | extends it |
| `AgentRegistry` | the agents of one project, their default, tokens and grants | |
| `AppConnections` | one app's connections, OAuth client and blocklist, beside the agents | extends `AgentRegistry` |
| `AppConnectionsProofs` | theorems about both | extends `AppConnections` |
| `MC*` | model values, constants and symmetry for TLC | extend their module |

An operator named `X_Suffix`, placed before `X`, is `X` with a plausible
mistake.  `PROJECT.json` pairs each property with one of them: with the mistake
in place of the original, TLC reports the property violated.

### ApprovalHold

`pending` and `senders` are the two `DashMap`s, `chan` the value of each watch
channel, `pc` the place of `forward_request`, `polled` the poll loop, `sdk` one
call of `submit_approval_decision` per client, `sweep` and `swept` the cleanup
task.  An action is a stretch of code in which no other task can interfere:
one operation on a concurrent map, or the code between two awaits that really
suspend.  So `submit_decision` called by an SDK is two actions (`SdkTake`,
`SdkSend`), as is an id of the sweep, because the other tasks run between the
removal of the sender and the send.  The poll loop's own `submit_decision` and
`remove` stay one action: the steps they consist of commute with everything
that can run in between, as the sender is in nobody else's hands.

Time is abstract.  `expired` holds the approvals whose `expires_at` has passed;
the deadline of the `select!` starts later with the same 180 s, so a timeout
implies expiry.  Cryptography is abstract: a reply of the API is a status with
the verdicts on its credential and confirmation, and `MapStatus` is
`map_status_with_confirmation` on those.  `granted` and `acked` are histories.

### ApprovalLongPoll

`notify` holds the keys of `new_notify`.  Listing and subscription are separate
actions, as the code awaits between them.  The lookup of the organization comes
first: a call for which it fails goes on with an empty one (gateway.rs:440-444).
Its lists are right, since `list_pending` goes by the project alone, but it then
waits on `BareKey`, which no `store()` notifies; `found` holds the calls for
which it did not fail.  `Prune` compares keys as the code does: the key is
`org:project`, what it is compared with is the project.

### ApprovalRecord

A row has a status and what its context is told apart by: step-up request,
acknowledgement, delivery, evidence.  Every handler is a read followed by a
write of the whole context built from that read (`call[c].context`); a trigger
has its dispatch in between, a decision its audit entry after.  `CallDies` ends
a call anywhere.  `version` exists only to tell when a write came from a stale
read; the row is then in `overlapped`.  The three decide functions share their
steps and are one set of actions.  No code sets a row to expired and no handler
looks at `expiresAt`; neither does the model.

### ApprovalFlow

`ServePost` runs the record's `CreateRow` once the hold has been posted, also
after the gateway has stopped waiting for the answer.  A row's id is the
gateway's own approval id, so both sides are indexed by the request
(`RowPerRequest`).  The poll loop's answer is the
row's status, 404 while there is none, or an error.  `Restart` drops the
gateway's tasks and maps; the rows stay.  It ends all holds at once, which is why
`OneTimeRelease` refuses a set of them in a step.

### RuleCache

The projects of one organization; what the database says for a project, its own
rows and the organization's, is a version number, which a change of the
organization raises for all.  A resolver's miss, read and set are separate
actions; its queries are one read, as an answer put together from several is as
stale as one read at the earliest of them.  `flush` holds invalidations on their
way, each for one project; one may be lost, arrive, or arrive while the
organization cannot be looked up.  The route and `withAudit` each send one; the
model has one per change.  Which projects a change tells the gateway of is an
argument of `Commit`: `PATCH` and `DELETE /rules/:ruleId` can change a rule of
the organization and tell it of the caller's project alone (`ChangeOrgRule`).

### PolicyEval

Rules are positions in the slice, each with an action; what matches a request
is any set of rules.  Passes 1, 2 and 4 are evaluated at once; each counted
rule of pass 3 is a read of the clock, which names the counter, and later the
increment.  `Incremented` is `CacheStore::incr`, whose entry expires one window
length after it was created.  The in-memory store always returns a count, so
the branch for an unavailable cache does not occur.

### ManagerKey

`registerManagerApprovalKey` reads the account and writes it: `FindKey` and
`WriteKey`.  `Serve` is any handler of `ApprovalRecord`, except that a call with
a legacy confirmation passes its signature only after `VerifyKey` has read a
key.  `raced` records that a registration wrote over a key it had not seen.

### RequestLog and ForwardRequest

`channel` is the bounded mpsc channel; `on_request` drops silently when it is
full.  The flush loop receives a batch, inserts its regular events in one
statement, applies its updates one by one and starts again; each statement may
fail.  `MarkCancelled` is the task a dropped guard spawns: its UPDATE goes to
the database directly, so it can be earlier than the INSERT it is about.  `lost`
records for which request an event or statement was lost, an update that found
no row included.

A request is told apart by four facts (`ctx`): upgrade or not, an agent or not,
an LLM upstream, injections.  The body exists twice, as `buffer` (what the policy
judges and the preview is taken from, where the body was buffered) and `body`
(what is forwarded).  Its values are `Contents`, of which only two things are
known: what DLP makes of one (`Redact`) and what an approver is shown of it
(`Preview`).  A preview is the first 4096 bytes, decoded lossily
(`forward.rs:500-557`), so many bodies have the same one: who approves a longer
one has not seen all of what is then sent, and `SentAsShown` claims no more than
that the preview is of the body sent.  Verdict, resolution and the end of the hold are choices, made
precise by `PolicyEval`, `RuleCache` and `ApprovalHold`.  Every exit is an
action that emits what the code emits there: some emit nothing (`Silent`),
which the properties name.

### TokenRefresh

All copies of one connection's credentials are in `copy`: the row, the two cache
entries, and what each request carries.  A copy is the grant it came from,
whether its refresh token would still be redeemed, and the ticks its access
token has left.  `setup` fixes the kind of provider (a static key, minted
tokens, OAuth) and how refresh tokens behave (static, rotating, revoked on
reuse).  Reading the connect entry, the row, the injection entry, the refresh,
the persist and the two cache writes are separate steps.  `lost` and `tainted`
are histories: of grants whose redeemable token went astray, and of the holders
of what was read before the latest reconnect or disconnect.

### VaultSession

`row` is the stored pairing, `current` the session in the provider's map,
`session` the objects calls share through an `Arc`; an object no call refers to
is freed.  A Bitwarden session has a client behind a mutex (`lock`) which calls
wait for; a 1Password session has a token.  A Bitwarden pairing upserts the new
remote's fingerprint, pairs, saves the transport state into the row and keeps the
client: each a step that may be the last.  It works on the session that is there,
whose connection data stay those it was loaded with (`pairing`, `data`) and whose
client is replaced only at the end: when the pairing fails before, the row names
one remote and the session goes on with another, until it is evicted or paired
again.  `late` are sessions that a change of the row passed by: loaded by a read
it overtook, in the map while another was paired or the row deleted, or left by
such a failure; `spoiled` the pairings that were given up, or not saved, after
they had replaced the row.  `FetchesFrom` is what the session asks; the values it
has cached are left out.  They come from what it asks, but after a pairing on the
same session those of the remote before are answered for the minute they last.

### Membership

One organization, Team, is observed, and for each user the organization a first
session may bootstrap for them.  Every database call of a handler is a step.
The requester's role is `auth.role ?? "member"`, and nothing on these routes sets
`auth.role`: `RequesterRole` is the constant it amounts to.  `past` and `blind`
are histories: what befell each user's first session or membership, and that an
owner was lost to a count made before another write.

### SandboxLifecycle

`box` is the docker daemon, `row` the table, both indexed by the identifier the
name yields.  A creation allocates a port from a listing, runs the container,
inspects it, upserts the row, answers, and goes on as a background job that
installs the gateway settings, looks at the container and settles the row, or
cleans up and marks it failed.  Deletes and restarts work by identifier beside
it.  `why` records what went wrong with a name since its container was made.
The port a container publishes counts as used while it runs, as the listing
says; docker refuses a port only when it starts the container.

### AgentRegistry

`row` is the table of agents with their join rows as `grants`; a call finds an
agent and writes by id later.  `createAgent` is a step per statement: the
existing identifier, the parent, the row, the DID, the secrets (or the Anthropic
one), the app connections; each insert is one `createMany`, all rows or none.
`limits` are the granted connections that carry a session policy
(`updateAgentAppConnections`), which counts for selective agents only
(`db.rs:407`): of such a connection the agent may use a part, and not the rest
(`Rights`).  `createAgent` reads the ids of the parent's connections and inserts
them without a policy, so a child may use all of what its parent could use a part
of; what a policy means to a provider is behind a stub in this build
(`connect.rs:987-989`).
`setDefaultAgent` is the one transaction that reads before it writes.  At READ
COMMITTED its `updateMany` sees what was committed when it starts
(`SeeDefaults`), and waits for and rechecks what it found, so the rest is one
step (`CommitDefault`).  `ops`, chosen at first from the constant `Uses`, says
which operations a behaviour calls.
Histories name what the code lets go: `raced`, that the default was moved or
deleted on a stale finding; `killed` and `revived`, revocations and the
renewals already under way that undo them; `cap` and `owed`, what a child may
use at most (rights) and was granted at least (connections and secrets); `mixed`, that grants were replaced during
the creation; `broken`, that the creation ended early.

### AppConnections

One app of the project whose agents `AgentRegistry` has; its connections are
what `Apps` are the ids of, so that a disconnect takes away grants, also while
an agent that inherits them is being created.  Connecting resolves the client, exchanges the code,
looks for a connection of the same account, stores it, inserts the missing
default block rules, and after an import replaces the project's client
(`SaveConfig`, which disconnects nobody); disconnecting deletes, counts what is left, and with none
left drops the rules; a change of the client disconnects and then writes, its
deletion writes and then disconnects.  Each is a step that may be the last
(`Fail`).  Switching and removing a rule are one step, since the write fails
without the row and the finding before it decides nothing more.  `bare` are
hosts that need not be blocked (a user unblocked them, or the step that would
block them failed or was overtaken), `kept` hosts that may stay blocked without
a connection, `foreign` connections that a change of the client overtook or an
import left with another client.  `method` says how this app is connected:
through OAuth with a client of the project or the environment, by importing a
user's credentials together with their client, or with keys; only apps of the
last kind have a blocklist.  An import that brings its own key (a service
account) is refreshed with that key, whatever the client, and is left out.  An app
that is imported is not configurable, but its configuration can be deleted
(`DELETE /apps/:provider/config`) and switched (`setAppConfigEnabled` of the web
application), neither of which asks.  The web action `disconnectAppConnection` has no caller and is
not modelled.

## 3. Runs

| Run | Shows |
|---|---|
| `hold_many_sdks` | three SDKs, one of another project, and a second request without a project: a release rests on an approval (`ReleaseAuthorized`), no sender is lost (`NoLostWakeup`), the maps are drained (`StoreDrained`), the channel is written once, `OneTimeRelease` is implemented, a waiting hold ends |
| `long_poll` | a blocked poller that found its organization can be reached, through any pruning (`WaiterReachable`); a poller blocks on an approval that exists only if that was stored between its list and its subscription, or since its list if the organization was not found (`BlocksOnlyOnGap`) |
| `record_calls` | three calls on one row and two devices with keys: without stale writes one decision, kept evidence, one recorded delivery; without overlapping registrations one key |
| `flow` | both sides with restart: a release is backed by an acknowledged SDK approval or a recorded confirmed decision; the poll loop agrees with the row; `OneTimeRelease` still holds |
| `cache` | stale entries have one of the named causes (`StaleOnlyIfExcused`); with every invalidation lost, expiry alone makes agents current (`EventuallyCurrent`) |
| `policy` | strictest wins, quotas hold, nobody is limited early |
| `forward` | an approved body has the preview that was shown, and is the one the policy judged where it read one (`SentAsShown`), no row contradicts its request (`LogTellsTruth`), a row that stays `held` has a stated reason (`HeldRowsExplained`), a rejection reaches the log or something was lost (liveness) |
| `tokens` | using a connection does not lose it (`RowUsable`), an old grant is only where the invalidation could not reach (`OldGrantExplained`) |
| `vault` | the session that requests are served from fetches from the stored pairing (`SessionCurrent`), and a stored pairing survives a restart (`PairingRestorable`), but for the named overtakings and failures: a pairing that failed after its remote was stored leaves the session with the one before |
| `members` | Team keeps an owner but for a stale count, a new user has a project and an invited one no second organization, but for the named causes |
| `sandboxes` | a started sandbox carries its own organization's token, a container without a row has a named cause, preparation ends (liveness) |
| `project` | one default agent, but for a `setDefaultAgent` that could not see another's commit and a delete checked too early (`DefaultExplained`); a revoked agent stays without a token until a renewal asked for later, or one that was under way (`KillHolds`); a child may use no secret and no connection its parent could not, and no more than an administrator left it, but is not held to its parent's session policies (`WithinGrant`), and has its DID and all it was granted, or its creation broke off (`ChildComplete`); an app's blocks follow its connections (`BlockedWhileConnected`), and these were made with the client that refreshes their tokens (`RefreshableByClient`), but for the named overtakings and failures and what an import leaves behind |

Properties of the form "X, unless Y" are the rule here, because the code makes few
of its updates atomic: Y is recorded by a history variable at the step where the
code lets go, so that the property excludes every other way to break X.  These
exceptions are the known limits of the code.  Some go against what its comments
or messages say:

- `approval.rs:365` compares `org:project` keys with project ids and drops the
  channels of projects with pending approvals ("projects with no pending
  approvals", line 361); pollers recover (`WaiterReachable`, `StoreWakesAll`).
- `gateway.rs:455` misses an approval stored between the list and the
  subscription (`BlocksOnlyOnGap`); `:440-444` takes a failed lookup of the
  organization for an empty one, and the call then waits out its 30 s whatever
  is stored (against 428: "returns immediately if new (non-excluded) approvals
  exist").
- `approval-service.ts:650` updates by id alone, so two concurrent calls decide a
  row (against line 597); `:940` and `:1042` write back a context read earlier,
  which can erase a decision's evidence (against 76-77); `:1004` can deliver a
  trust task twice, concurrently or after a crash (against 980-981); `:744` lets
  two first registrations overwrite each other (against
  `routes/approvals.ts:74`).  The serial properties of `record_calls` except
  exactly these.
- `gateway.rs:396` goes on with an empty organization and invalidates nothing
  ("using broad prefix", 394); a resolver caches old rules after the
  invalidation was answered; an organization's rule changed through
  `/rules/:ruleId` is invalidated for the caller's project alone
  (`rules.ts:112-157`), so the other projects' agents keep the old one for up to
  a minute (`StaleOnlyIfExcused`, against 374).
- A row approved without its credential is denied by the poll loop, not taken by
  its status (`PollAgreesWithRow`, against `approval-service.ts:1402`).
- `member-service.ts:189-192` counts on the session route to create a project
  for a member without one; the branch that would (`auth-session.ts:148-167`)
  follows the bootstrap and is not reached.
- An invited user can end with an organization of their own beside Team, from two
  overlapping first sessions, or when Team's project is missing
  (`BootstrapExplained`, against `auth-session.ts:106-109`).
- `sandboxes.ts:182-201` removes the container of a failed bootstrap, but by
  name and ignoring errors (`FailedIsGone`).
- `agent-service.ts` moves the default without a lock: two concurrent moves leave
  two defaults, and a delete that was checked before a move leaves none
  (`DefaultExplained`).  `ensureProjectSeeds` then seeds one under the identifier
  `default`, and if an agent that is not the default one has that, every session
  fails (`SeedRow`, against "Idempotent", `organization-service.ts:115`).
- The sentinel of a revoked token has the resolution of a millisecond and is
  unique over all agents: the second of two revocations in one fails
  (`WriteRevoked`).
- `createAgent` is not a transaction: one that fails half-way leaves an agent
  whose identifier is taken, so a retry is refused (`ChildComplete`).
- `createAgent` gives a child its parent's connections without the session policies
  that limit them (`agent-service.ts:117-131`, `188-195`): the child of an agent
  held to a part of a connection may use all of it until an administrator decides
  otherwise (`Inherited`, `WithinGrant`).
- A disconnect drops the block rules on a count taken before, also those of a
  connection made since (`apps.ts:179`, `BlockedWhileConnected`).
- `deleteAppConfig` deletes the client first; if it fails then, the connections
  stay with a client that is gone (`app-config-service.ts:160`,
  `RefreshableByClient`).
- An import ends by replacing the project's client and leaves the connections of
  other accounts standing (`apps.ts:730-742`, `saveAppConfigWithoutDisconnect`):
  the gateway then refreshes them with a client they were not made with
  (`connect.rs:1035-1047`), and so its own connection where the call ends before
  (`RefreshableByClient`).

### Bounds

- Holds: the only coupling between holds is the sweep round; three SDKs make two
  of the request's own project compete and one of another be refused.  The second
  request of the run has no project and is turned away before it is held; two
  requests held at once are covered by the theorems.
- Long-poll: three approvals, two pollers, two projects: a project with two
  approvals and one with one.
- Record: one row, as rows do not interact; three calls, as every lost update
  needs two, and the third is one that follows (a retry, an acknowledgement); two
  devices, as one registration overwrites another.
- Flow: one request, one SDK, two calls; the two components have been checked
  with more on their own, and holds under way together are covered by the
  theorems.
- Cache: two keys of one project (a prefix covers both) and one of another (it
  does not), two resolvers (the older can overwrite the newer's entry), two
  changes per project (`MaxVersion`).
- Policy: two rules with every combination of actions and matches, a quota of
  one, windows of two seconds and `MaxClock` of three, so two windows with a
  boundary to cross; two requests of one agent and one of another.
- Forward: two bodies, one the redaction of the other, with different previews
  (two of one preview ask less; any number, with any preview, is covered by the
  theorem); two requests share a channel for one event (so that it overflows) and
  batches of two (so that a batch holds a pending event and its update).
- Tokens: two requests refresh against each other; two `Grants`, the second from
  a reconnect; a token lives one tick beyond the current one and an entry two
  (`TTL`), so either may end first.
- Vault: two calls, which may both be pairings, three session objects (the mapped
  one and one in the hands of each call), three pairings (`MaxPairings`): the one
  a session was loaded from, and two that replace it on the same session.
- Members: two owners, the least for a stale count, and one newcomer; two calls.
- Sandboxes: two names on one port make the port clash; two creations on one
  name make it be used again; one delete or restart at a time.
- Project: a behaviour calls the operations of one group (`AllUses`), as groups
  share no column: moving, seeding and deleting the default; renewing and
  revoking; creating and granting while a connection, or a secret, goes; connecting
  and blocking; connecting and changing the client.  Each starts with the rows its
  group needs.  Two calls, of which one is overtaken; three agents and a free id for
  one more; two connections, so that one disconnect is not the last; two rules, a
  custom one beside a default or two of one host; two accounts and two clients
  (`MaxClient`), so that an import of the second account can replace the first's
  client.  What the app grants is one connection beside the oldest secret,
  or two secrets, so that one grant can survive another's end.

Symmetry is used on API calls, devices, requests, tasks, sessions, seeded
owners, agents and accounts, which the specifications treat alike, and in no run that checks liveness.  Deadlock is not
checked where the system comes to rest once its bounded requests, calls or
changes are used up.

### Fairness

`ApprovalHold!Fairness` is weak fairness of the gateway's own stretches of
code: the runtime polls what is ready, and timers (expiry, deadline, sweep
interval) fire.  Nothing is assumed of agents, SDKs, the API's answers or
`notify_api`, which has no timeout; `HoldEnds` starts from waiting.
`RuleCache!FairSpec` assumes that entries expire and that a resolver which
started ends; no invalidation is assumed to arrive.  `ForwardRequest!FairSpec`
assumes that the flush loop and the spawned cleanups are run by the runtime, not
that their statements succeed.  `SandboxLifecycle!Spec` assumes that a creation
and its job go on while the process lives: every docker command and database
call ends, in success or failure.

## 4. Proofs

All theorems hold for any sets of requests, calls, users, names and so on, and
any capacities and lifetimes, from the named assumptions on the constants only.

- `ApprovalProofs`.  The first part is about the hold.  `ReleaseIsAuthorized` speaks of the outcome, which
  comes from the channel or the poll loop, whose value came from an SDK that
  holds the sender: `Authority` says of each of these places that an approval
  there is granted, and is inductive; `ApproveIsVerified` is the fact about
  `MapStatus` it rests on.  `HeldRequestCanBeWoken`,
  `FinishedHoldLeavesNothing` and `DecisionIsFinal` follow from `OwnershipInv`:
  a sender is in the map, or in the hands of one SDK, or in the sweep's, and then
  nothing is on the channel (`SenderExclusive`); what has not started owns
  nothing (`Fresh`).  Without the exclusion neither the absence of lost wake-ups
  nor the single write is inductive.  `HoldImplementsPromise`: under the mapping
  `HoldState` every step is a step of `OneTimeRelease` or leaves it unchanged; a
  decision in an SDK's hands can arrive late, so the step that grants needs
  `OwnershipInv`, and the release needs `Authority`.
  The second part composes it with the record.  `FlowParts` is the whole argument
  in one lemma: a step of `ApprovalFlow` is a step of the hold, or of the record
  with the hold unchanged, or a restart; so the invariants of both sides carry
  over, a restart leaving nothing under way that could break the hold's.
  `ReleaseIsBacked` adds that an approval anywhere on its way to `forward_request`
  is one an SDK was told of or a recorded call confirmed (`Backed`), where the
  polled one rests on `ApprovedOnConfirmation`; `PollSaysTheRow`, that a row
  approved with its evidence is never answered as a denial (`AnswerMeans`) and
  that a decided row stays so (`DecisionsKept`).  `FlowImplementsPromise` is the
  refinement through restarts; with more than one request held it fails for an
  abstract specification that refuses one request per step.
- `GatewayProofs` has four parts that share nothing but the module: they are what
  the gateway keeps in memory besides the holds.  For the connect cache,
  `StaleOnlyIfExcused` is inductive together with the types.  For the long poll,
  `PollInv` adds to the two invariants that whatever exists of a project once its
  poller has listed nothing is in the poller's gap (`ListedIsGap`), which is what
  makes the subscription step safe; `StoreWakesAll` is an action property and
  rests on `KeyAssumption`, that projects with different names have different
  channels and that a name with an empty organization is none of them.  For policies, `Decided` says what a request has been through when it
  counts, `CountedOnce` that it is counted by a rule once, and `Tallied` ties each
  counter to the admissions it counted: it outlives its window, is no less than
  those admitted in time and, until the limit, no more than those admitted at all.
  `RateRespected` is the one half of it, `LimitedOnlyWhenUsedUp` the other.  For
  vaults, the two invariants are inductive with `Placed`, which says what a call
  holds at each place: that the pairing it read or stored is that of the row, or
  it was told (`missed`), and that a client is closed only of a session that has
  left the map.
- `ManagerKeyProofs`.  `Versions` relates each call's local state to its row by
  the version it read: what was read of a version is what the row still says
  while it has that version.  With it `Sound`, the decision's part of
  `SerialDecisionSound`, is inductive.  `KeySeen` says that, unless registrations
  raced, a device that found no key and is not yet outdated is right about it.
  `Delivered` is `Sound`'s counterpart for the trust task: a recorded delivery
  shows in the row, so the next trigger, if it is not to write from a stale read,
  does not begin; the reset by the second write of `createApproval` comes before
  any or is itself stale.  From it follows `DispatchedOnce`.
- `ForwardRequestProofs`.  `Way` says what a request at each point has been
  through: one that is to be sent was permitted, `buffer` and `body` agree until
  it is sent, and the preview of `body` is what was shown from the hold on.  `Truth` extends `LogTellsTruth` to events on their
  way: whatever is in the channel, in the batch or to be marked is true of its
  request already.  Row contents then only ever copy true events.
  `HeldRowIsExplained` needs the order of a request's own events besides: only the
  first is not an update, whatever batches they fall into, and no row exists
  before it is inserted (`Queued`); so of a request nothing of which was lost, the
  hold and how it ended are in the row or on the way there (`Accounted`).
- `TokenRefreshProofs`.  `IInv` says what cache entries and requests hold at each
  point (`Entries`), that an injection's entry ends no later than its token
  (`Alive`, which is inductive where `CachedTokenAlive` is not), that no copy is
  newer than the latest grant (`Past`), and that a request about to persist holds
  the only redeemable token of its grant if the provider rotates them (`Usable`),
  so that a refresh in another request cannot be the one the row waits for.
- `MembershipProofs`.  `Offers` says that nothing on its way to a row makes an
  owner, and that a call about to demote or remove an owner counted more than one;
  `Joined`, what a session at each point knows of invitation and membership;
  `First`, that nothing exists of a user before the first session, and that
  without a race or a missing project one first session works on a user and makes
  a membership or an organization, not both.  `Home` looks at the oldest entry of
  a user's list of organizations, which is where a session lands: it has a project,
  or the first session that makes one, or leaves a mark, is still under way
  (`Homed`).
- `SandboxLifecycleProofs`.  `Working` says what a creation has found out by the
  place it is at; `Sharing`, that jobs, calls and the row of one name belong to
  one organization unless the name was used again; `Left`, what the steps of a
  job and of a delete have left behind (the token in the container, no container
  before a row is failed or dropped).  Together with the three properties they are
  inductive.
- `AppConnectionsProofs` is about `AgentRegistry` as part of `AppConnections`.
  Calls are told apart by the place they are at (`Places`), and each invariant is
  followed through the steps of its own module and once through all of the
  other's.  `Working` says what calls have found; `Seen`, that a call moving the
  default knows of all there are unless a commit came in between; `Overtaken`,
  that only a renewal begun before can write a revoked agent's token; `Capped`,
  that what a creation may still grant, without any policy, is within the cap; `Promised`, that what it
  grants was there when it read its parent, so nothing connected since is among
  it, and what it is owed it has once it is over; `Guarded`, that a host of a
  connected app is blocked, about to be, or bare, and that what stays blocked
  without one is kept or about to go; `Refreshable`, that whatever connects while
  a client's change is unwritten counts as overtaken, and that a connection whose
  client is not in force is overtaken or of an import about to save it.  The attempt corrected the
  model twice: custom blocks can be in force when a change of the client
  disconnects an app without counting (`kept`), and `ChildComplete` needs no
  exception for children whose grants were replaced while they were created.

Eight of these theorems are about properties no run checks, as the proof says
more and each is one step of the code or follows from its order:
`OnlyPermittedIsForwarded`, `CachedTokenIsAlive`, `DisconnectIsFinal`,
`ApprovalIsConfirmed`, `NobodyBecomesOwner`, `AcceptanceFollowsMembership`,
`StoreWakesEveryWaiter` and `FailedSandboxIsGone`; TLC agreed with them before they were proved.

Outside the prover's reach, and left to TLC: liveness under fairness
(`HoldEnds`, `EventuallyCurrent`, `RejectionReachesLog`, `ProvisioningEnds`), and
anything about `ENABLED`.  There is no induction over data and no `RECURSIVE`
operator in these modules.
Every other invariant and action property that a run checks is a theorem, and so
is the refinement of `OneTimeRelease` by the hold alone and by the whole.

## 5. Not modelled

- Cryptography, string matching, rewriting, TLS and byte forwarding: the models
  take their verdicts as choices.
- The web application, by far the largest part of the repository, the examples
  and the deployment scripts: they render, call the API or set up machines, and
  keep no state the models would relate.
- Control-plane CRUD (rules, secrets, API keys, registries): single statements
  guarded by the database's constraints; the places where a check and an act are
  apart are among the hazards, with the reason no property covers them.
- The Daytona sandbox provider and the demonstration workflows: calls to remote
  services whose states the repository does not describe.
- What a session policy means to a provider (a GitHub token for some repositories):
  `cloud_apps` is a stub in this build; that there is one is modelled.  Credentials
  imported with a key of their own, which no client refreshes.
- The lifetime of synthetic token answers, and values cached inside a vault
  session: a session paired again answers with those of the remote before for up
  to a minute (`CREDENTIAL_CACHE_TTL`), which `SessionCurrent` does not see.

## 6. What could follow

An abstract specification of the log (each request's row ends as its request did,
or was lost) and of the vault (a request is served from the stored pairing) with
their refinements as theorems, as the hold has one; the remote sandbox provider.
