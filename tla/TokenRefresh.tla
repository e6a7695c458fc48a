----------------------------- MODULE TokenRefresh -----------------------------
(***************************************************************************)
(* The credentials of one app connection, and every copy the gateway works *)
(* with.  connect.rs resolves the row into the connect cache, takes the    *)
(* credentials from there for each request, redeems the refresh token when *)
(* the access token has expired, writes the new credentials back and keeps *)
(* the injection it built in a second cache.  Meanwhile a user reconnects  *)
(* or disconnects, and agents drop their requests at any await.            *)
(*                                                                         *)
(* Time is relative: a copy carries the ticks its access token has left,   *)
(* an entry the ticks until it expires.  A refresh token is "good" while   *)
(* the provider would redeem it; all good copies of one grant are the same *)
(* token.                                                                  *)
(***************************************************************************)
EXTENDS Integers

CONSTANTS
    Requests,
    Grants,      \* bound: how often a user consents to this connection
    Life,        \* ticks an access token lives
    TTL          \* CACHE_TTL_SECS in ticks

ASSUME TokenAssumption == Grants \in Nat \ {0} /\ Life \in Nat /\ TTL \in Nat \ {0}
ASSUME HoldersDistinct == {"row", "connect", "inject"} \cap Requests = {}

VARIABLES
    setup,     \* what kind of credentials these are; never changes
    copy,      \* the row, the two cache entries, and each request's own copy
    ttl,       \* ticks until the cache entries expire, 0 without an entry
    at,        \* where each request is
    flush,     \* invalidations: how far each one on its way has come
    latest,    \* history: the last grant, or one more after a disconnect
    lost,      \* history: grants whose redeemable token was lost
    tainted    \* history: holders of what was read before the latest change

vars == <<setup, copy, ttl, at, flush, latest, lost, tainted>>

Holders == Requests \cup {"row", "connect", "inject"}
Setup == [kind : {"key", "minted", "oauth"}, mode : {"static", "rotating", "strict"},
          scoped : BOOLEAN]
Cred == [grant : 1 .. Grants, rt : {"good", "spent"}, left : -1 .. Life]
None == [grant |-> 0, rt |-> "spent", left |-> -1]

TypeOK ==
    /\ setup \in Setup
    /\ copy \in [Holders -> Cred \cup {None}]
    /\ ttl \in [{"connect", "inject"} -> 0 .. TTL]
    /\ at \in [Requests -> {"idle", "missed", "read", "rows", "refresh", "persist", "set"}]
    /\ flush \in {"none", "sent", "half"}
    /\ latest \in 1 .. Grants + 1
    /\ lost \subseteq 1 .. Grants
    /\ tainted \subseteq Holders

\* What a consent brings: expires_at is now + expires_in.
Fresh(g) == [grant |-> g, rt |-> "good", left |-> Life]

Init ==
    /\ setup \in {s \in Setup : s.mode = "static" \/ s.kind = "oauth"}
    /\ copy = [h \in Holders |-> IF h = "row" THEN Fresh(1) ELSE None]
    /\ ttl = [c \in {"connect", "inject"} |-> 0]
    /\ at = [r \in Requests |-> "idle"]
    /\ flush = "none" /\ latest = 1 /\ lost = {} /\ tainted = {}

-----------------------------------------------------------------------------

\* h takes over what g holds.
Pass(g, h) ==
    /\ copy' = [copy EXCEPT ![h] = copy[g]]
    /\ tainted' = IF g \in tainted THEN tainted \cup {h} ELSE tainted \ {h}

Forget(h) ==
    /\ copy' = [copy EXCEPT ![h] = None]
    /\ tainted' = tainted \ {h}

Go(r, pc) == at' = [at EXCEPT ![r] = pc]

\* No request of this connection has an answer to wait for any more.
Finish(r) == Go(r, "idle") /\ Forget(r)

(* resolve_from_cache *)

Hit(r) ==
    /\ at[r] = "idle" /\ ttl["connect"] > 0
    /\ Pass("connect", r) /\ Go(r, "rows")
    /\ UNCHANGED <<setup, ttl, flush, latest, lost>>

Miss(r) ==
    /\ at[r] = "idle" /\ ttl["connect"] = 0
    /\ Go(r, "missed")
    /\ UNCHANGED <<setup, copy, ttl, flush, latest, lost, tainted>>

\* resolve_uncached; a database error ends the request.
ReadDb(r) ==
    /\ at[r] = "missed"
    /\ Pass("row", r) /\ Go(r, "read")
    /\ UNCHANGED <<setup, ttl, flush, latest, lost>>

SetConnect(r) ==
    /\ at[r] = "read"
    /\ Pass(r, "connect") /\ Go(r, "rows")
    /\ ttl' = [ttl EXCEPT !["connect"] = TTL]
    /\ UNCHANGED <<setup, flush, latest, lost>>

(* resolve_connection_injections *)

\* There is no such connection, its credentials cannot be read or are not for
\* this host: the request goes on without them.
NoConnections(r) ==
    /\ at[r] = "rows"
    /\ Finish(r)
    /\ UNCHANGED <<setup, ttl, flush, latest, lost>>

\* The cached injection answers, whatever the row says.
InjectionHit(r) ==
    /\ at[r] = "rows" /\ copy[r] # None
    /\ ttl["inject"] > 0
    /\ Finish(r)
    /\ UNCHANGED <<setup, ttl, flush, latest, lost>>

\* expires_at < now, or the agent is restricted to a part of the connection.
NeedsRefresh(c) == setup.kind # "key" /\ (c.left < 0 \/ setup.scoped)

InjectionMiss(r) ==
    /\ at[r] = "rows" /\ copy[r] # None
    /\ ttl["inject"] = 0
    /\ Go(r, IF NeedsRefresh(copy[r]) THEN "refresh" ELSE "set")
    /\ UNCHANGED <<setup, copy, ttl, flush, latest, lost, tainted>>

(* resolve_access_token *)

\* The provider redeems a refresh token: if it rotates them, every copy of the
\* old one is spent from now on.
Redeemed(g) ==
    [h \in Holders |-> IF copy[h].grant = g /\ setup.mode # "static" /\ setup.kind = "oauth"
                       THEN [copy[h] EXCEPT !.rt = "spent"] ELSE copy[h]]

\* A service account, an app installation and the like have no refresh token.
Redeemable(c) == setup.kind = "minted" \/ c.rt = "good"

\* The old refresh token stays in the credentials that are written back.
Refreshes_KeepsToken(r) ==
    /\ at[r] = "refresh" /\ Redeemable(copy[r])
    /\ copy' = [Redeemed(copy[r].grant) EXCEPT ![r].left = Life]
    /\ Go(r, IF setup.kind = "minted" /\ setup.scoped THEN "set" ELSE "persist")
    /\ UNCHANGED <<setup, ttl, flush, latest, lost, tainted>>

\* A minted token for a restricted agent is not written back.
Refreshes(r) ==
    /\ at[r] = "refresh" /\ Redeemable(copy[r])
    /\ copy' = [Redeemed(copy[r].grant) EXCEPT ![r] = [copy[r] EXCEPT !.left = Life]]
    /\ Go(r, IF setup.kind = "minted" /\ setup.scoped THEN "set" ELSE "persist")
    /\ UNCHANGED <<setup, ttl, flush, latest, lost, tainted>>

\* The provider's answer does not arrive or cannot be parsed.
RefreshLost(r) ==
    /\ at[r] = "refresh" /\ Redeemable(copy[r])
    /\ copy' = Redeemed(copy[r].grant)
    /\ lost' = lost \cup {copy[r].grant}
    /\ Go(r, "set")
    /\ UNCHANGED <<setup, ttl, flush, latest, tainted>>

\* No client credentials, no connection, or an error: the old token is used.
RefreshFails(r) ==
    /\ at[r] = "refresh"
    /\ Go(r, "set")
    /\ UNCHANGED <<setup, copy, ttl, flush, latest, lost, tainted>>

\* A provider that takes the reuse of a spent token for theft revokes the grant.
RefreshReused(r) ==
    /\ at[r] = "refresh" /\ setup.kind = "oauth" /\ setup.mode = "strict"
    /\ copy[r].rt = "spent"
    /\ copy' = Redeemed(copy[r].grant)
    /\ lost' = lost \cup {copy[r].grant}
    /\ Go(r, "set")
    /\ UNCHANGED <<setup, ttl, flush, latest, tainted>>

\* UPDATE ... WHERE id: no row, no change.
Persist(r) ==
    /\ at[r] = "persist"
    /\ IF copy["row"] = None THEN UNCHANGED <<copy, tainted>> ELSE Pass(r, "row")
    /\ Go(r, "set")
    /\ UNCHANGED <<setup, ttl, flush, latest, lost>>

\* Encryption or the UPDATE failed: a debug line, and the request goes on.
PersistFails(r) ==
    /\ at[r] = "persist"
    /\ lost' = lost \cup {copy[r].grant}
    /\ Go(r, "set")
    /\ UNCHANGED <<setup, copy, ttl, flush, latest, tainted>>

\* min(CACHE_TTL_SECS, what the token has left); expired tokens are not cached.
InjectionTtl(c) ==
    IF setup.kind = "key" THEN TTL
    ELSE IF c.left > 0 THEN (IF c.left < TTL THEN c.left ELSE TTL)
    ELSE 0

SetInjection(r) ==
    /\ at[r] = "set"
    /\ LET t == InjectionTtl(copy[r])
           written == IF t > 0 THEN {"inject"} ELSE {} IN
         /\ copy' = [h \in Holders |-> IF h = r THEN None
                                       ELSE IF h \in written THEN copy[r] ELSE copy[h]]
         /\ ttl' = IF t > 0 THEN [ttl EXCEPT !["inject"] = t] ELSE ttl
         /\ tainted' = IF r \in tainted THEN (tainted \cup written) \ {r} ELSE tainted \ written
    /\ Go(r, "idle")
    /\ UNCHANGED <<setup, flush, latest, lost>>

-----------------------------------------------------------------------------

\* The agent closes the connection, and hyper drops the handler where it is;
\* an error from the database ends it in the same way.
Dropped(r) ==
    /\ at[r] # "idle"
    /\ lost' = IF at[r] = "persist" THEN lost \cup {copy[r].grant} ELSE lost
    /\ Finish(r)
    /\ UNCHANGED <<setup, ttl, flush, latest>>

\* The gateway restarts: caches and requests are gone.
Restart ==
    /\ copy' = [h \in Holders |-> IF h = "row" THEN copy[h] ELSE None]
    /\ ttl' = [c \in {"connect", "inject"} |-> 0]
    /\ lost' = lost \cup {copy[r].grant : r \in {q \in Requests : at[q] = "persist"}}
    /\ at' = [r \in Requests |-> "idle"]
    /\ tainted' = tainted \cap {"row"}
    /\ UNCHANGED <<setup, flush, latest>>

\* A second passes for every copy and every entry.
Tick ==
    LET live(c) == ttl[c] > 1
        kept(h) == h \in {"connect", "inject"} => live(h)
        older(c) == IF setup.kind = "key" \/ c.left < 0 THEN c ELSE [c EXCEPT !.left = @ - 1] IN
    /\ copy' = [h \in Holders |-> IF kept(h) THEN older(copy[h]) ELSE None]
    /\ ttl' = [c \in {"connect", "inject"} |-> IF ttl[c] = 0 THEN 0 ELSE ttl[c] - 1]
    /\ tainted' = {h \in tainted : kept(h)}
    /\ UNCHANGED <<setup, at, flush, latest, lost>>

-----------------------------------------------------------------------------
(* connection-service.ts and the routes that change a connection            *)

\* Whoever holds something of the row now holds what is out of date.
Outdated == {r \in Requests : at[r] # "idle"} \cup {c \in {"connect", "inject"} : ttl[c] > 0}

\* reconnectConnection, from the OAuth callback or the connect route.
Reconnect ==
    /\ copy["row"] # None /\ latest < Grants
    /\ copy' = [copy EXCEPT !["row"] = Fresh(latest + 1)]
    /\ latest' = latest + 1
    /\ tainted' = Outdated
    /\ flush' = "sent"
    /\ UNCHANGED <<setup, ttl, at, lost>>

\* deleteConnection, or the deleteMany of a changed app configuration.
Disconnect ==
    /\ copy["row"] # None
    /\ copy' = [copy EXCEPT !["row"] = None]
    /\ latest' = Grants + 1
    /\ tainted' = Outdated
    /\ flush' = "sent"
    /\ UNCHANGED <<setup, ttl, at, lost>>

\* fetch(...).catch(() => {}): the entries stay as they are.
FlushLost ==
    /\ flush # "none"
    /\ flush' = "none"
    /\ UNCHANGED <<setup, copy, ttl, at, latest, lost, tainted>>

\* invalidate_cache drops the injections first ...
InvalidateInjections ==
    /\ flush = "sent"
    /\ flush' = "half"
    /\ ttl' = [ttl EXCEPT !["inject"] = 0]
    /\ Forget("inject")
    /\ UNCHANGED <<setup, at, latest, lost>>

\* The prefix names the injections a second time.
InvalidateConnect_WrongPrefix ==
    /\ flush = "half"
    /\ flush' = "none"
    /\ ttl' = [ttl EXCEPT !["inject"] = 0]
    /\ copy' = [copy EXCEPT !["inject"] = None]
    /\ tainted' = tainted \ {"connect", "inject"}
    /\ UNCHANGED <<setup, at, latest, lost>>

\* ... and then what was resolved.
InvalidateConnect ==
    /\ flush = "half"
    /\ flush' = "none"
    /\ ttl' = [ttl EXCEPT !["connect"] = 0]
    /\ Forget("connect")
    /\ UNCHANGED <<setup, at, latest, lost>>

Request(r) ==
    \/ Hit(r) \/ Miss(r) \/ ReadDb(r) \/ SetConnect(r)
    \/ NoConnections(r) \/ InjectionHit(r) \/ InjectionMiss(r)
    \/ Refreshes(r) \/ RefreshLost(r) \/ RefreshFails(r) \/ RefreshReused(r)
    \/ Persist(r) \/ PersistFails(r) \/ SetInjection(r) \/ Dropped(r)

Next ==
    \/ \E r \in Requests : Request(r)
    \/ Restart \/ Tick
    \/ Reconnect \/ Disconnect
    \/ FlushLost \/ InvalidateInjections \/ InvalidateConnect

Spec == Init /\ [][Next]_vars

-----------------------------------------------------------------------------

\* Refreshing does not cost a project its connection: the refresh token in the
\* row is one the provider redeems, or the request that holds its successor is
\* about to write it, or a token of this grant was lost on the way (an answer
\* that did not arrive, a failed or abandoned write, a reuse taken for theft).
RowUsable ==
    LET row == copy["row"] IN
    setup.kind = "oauth" /\ row # None /\ row.grant \notin lost =>
        \/ row.rt = "good"
        \/ \E r \in Requests : at[r] = "persist" /\ copy[r].grant = row.grant /\ copy[r].rt = "good"

\* A cached injection never serves an expired access token: its entry ends
\* with the token, which no request would look at again.
CachedTokenAlive == ttl["inject"] > 0 => copy["inject"].left >= 0 \/ setup.kind = "key"

\* After a reconnect or a disconnect, older credentials are in use only by a
\* request that was under way, from an entry no invalidation has reached, or
\* where one of these put them: in a cache, or over the row.
OldGrantExplained ==
    \A h \in Holders : copy[h] # None /\ copy[h].grant < latest => h \in tainted

\* A refresh that ends after the user disconnected does not connect again.
StaysDisconnected == [][copy["row"] = None => copy'["row"] = None]_vars
=============================================================================
