------------------------------ MODULE RuleCache ------------------------------
(***************************************************************************)
(* How a change of the secrets or policy rules that apply to a project     *)
(* reaches the gateway.  connect.rs resolves what applies to an agent and  *)
(* a host from the database and keeps the answer in the cache for 60 s;    *)
(* the API tells the gateway to drop a project's entries after a change,   *)
(* fire and forget.                                                        *)
(*                                                                         *)
(* One organization with several projects.  What the database says for a   *)
(* project, its own rows and the organization's, is abstracted to a        *)
(* version; a key is an agent token with a host.  A resolver is one call   *)
(* of resolve or resolve_from_cache: between its miss, its queries and its *)
(* set, the database may change and the cache be invalidated.  Its queries *)
(* are one read here: an answer put together from several is as stale as   *)
(* one read at the earliest of them.                                       *)
(***************************************************************************)
EXTENDS Naturals

CONSTANTS
    Keys, RuleProjects, Resolvers,
    ProjectOfKey,       \* the project of each key
    MaxVersion       \* bound on the changes that reach one project

ASSUME VersionBound == MaxVersion \in Nat
ASSUME KeysHaveProjects == ProjectOfKey \in [Keys -> RuleProjects]

VARIABLES
    version,     \* what the database says for each project
    cache,       \* connect:{org}:{project}:{token}:{host} -> version
    resolver,    \* each resolver: its key, how far it is, what it read
    flush,       \* invalidations on their way: the version and the project
    why          \* history: the last reason a key's entry escaped invalidation

cacheVars == <<version, cache, resolver, flush, why>>

None == MaxVersion + 1
Version == 0 .. MaxVersion
NoCall == [at |-> "idle"]
Resolver == {NoCall} \cup [at : {"missed", "read"}, key : Keys, value : Version]

\* The invalidation did not arrive, or arrived and the project's organization
\* could not be looked up; it was sent for another project; the entry was set
\* by a resolver that had read before the change.
Reason == {"none", "lost", "other_project", "raced"}

CacheTypeOK ==
    /\ version \in [RuleProjects -> Version]
    /\ cache \in [Keys -> Version \cup {None}]
    /\ resolver \in [Resolvers -> Resolver]
    /\ flush \subseteq Version \X RuleProjects
    /\ \A f \in flush : f[1] \in 1 .. version[f[2]]
    /\ why \in [Keys -> Reason]

CacheInit ==
    /\ version = [p \in RuleProjects |-> 0]
    /\ cache = [k \in Keys |-> None]
    /\ resolver = [q \in Resolvers |-> NoCall]
    /\ flush = {}
    /\ why = [k \in Keys |-> "none"]

-----------------------------------------------------------------------------
(* connect::resolve and resolve_from_cache; a hit changes nothing           *)

Miss(q, k) ==
    /\ resolver[q] = NoCall
    /\ cache[k] = None
    /\ resolver' = [resolver EXCEPT ![q] = [at |-> "missed", key |-> k, value |-> 0]]
    /\ UNCHANGED <<version, cache, flush, why>>

\* find_agent and resolve_uncached: the project's rules and the organization's.
ReadDb(q) ==
    /\ resolver[q].at = "missed"
    /\ LET k == resolver[q].key IN
         resolver' = [resolver EXCEPT ![q] =
             [at |-> "read", key |-> k, value |-> version[ProjectOfKey[k]]]]
    /\ UNCHANGED <<version, cache, flush, why>>

\* resolve_uncached failed: nothing is cached, the request is refused.
ReadFails(q) ==
    /\ resolver[q].at = "missed"
    /\ resolver' = [resolver EXCEPT ![q] = NoCall]
    /\ UNCHANGED <<version, cache, flush, why>>

\* cache.set: whatever happened since the read.
SetCache(q) ==
    /\ resolver[q].at = "read"
    /\ LET k == resolver[q].key
           v == resolver[q].value
       IN  /\ cache' = [cache EXCEPT ![k] = v]
           /\ why' = [why EXCEPT ![k] =
                          IF v < version[ProjectOfKey[k]] THEN "raced" ELSE "none"]
    /\ resolver' = [resolver EXCEPT ![q] = NoCall]
    /\ UNCHANGED <<version, flush>>

\* An entry that never reaches its expiry.
Expire_Never(k) == cache[k] # None /\ UNCHANGED cacheVars

\* 60 s after it was set, get_raw finds the entry expired.
Expire(k) ==
    /\ cache[k] # None
    /\ cache' = [cache EXCEPT ![k] = None]
    /\ why' = [why EXCEPT ![k] = "none"]
    /\ UNCHANGED <<version, resolver, flush>>

-----------------------------------------------------------------------------
(* A change, and the invalidations that follow it: withAudit and the route  *)
(* each ask for one, which are one here and lost if both are.               *)

\* A change of the projects S is committed, and an invalidation is sent for
\* each of the projects `told'; the entries of the others stay.
Commit(S, told) ==
    /\ \A p \in S : version[p] < MaxVersion
    /\ version' = [p \in RuleProjects |-> IF p \in S THEN version[p] + 1 ELSE version[p]]
    /\ flush' = flush \cup {<<version[p] + 1, p>> : p \in told}
    /\ why' = [k \in Keys |-> IF ProjectOfKey[k] \in S \ told /\ cache[k] # None
                              THEN "other_project" ELSE why[k]]
    /\ UNCHANGED <<cache, resolver>>

\* A rule or secret of the project: withAudit has its projectId.
ChangeProject(p) == Commit({p}, {p})

\* A rule created for the organization, the organization's policy mode:
\* invalidateGatewayCacheForOrg, with an API key of each project.
ChangeOrganization == Commit(RuleProjects, RuleProjects)

\* PATCH or DELETE /rules/:ruleId of the organization's rule, which the caller
\* may change from any project: only the caller's is invalidated.
ChangeOrgRule(p) == Commit(RuleProjects, {p})

Entries(p) == {k \in Keys : ProjectOfKey[k] = p /\ cache[k] # None}
Uncovered(p) ==
    why' = [k \in Keys |-> IF k \in Entries(p) THEN "lost" ELSE why[k]]

\* fetch(...).catch(() => {}), a 401, or a project without an API key.
FlushLost(v, p) ==
    /\ <<v, p>> \in flush
    /\ flush' = flush \ {<<v, p>>}
    /\ Uncovered(p)
    /\ UNCHANGED <<version, cache, resolver>>

\* A prefix built from the first agent's token alone.
Invalidate_OneKey(v, p) ==
    /\ <<v, p>> \in flush
    /\ flush' = flush \ {<<v, p>>}
    /\ \E k \in Keys : cache' = [cache EXCEPT ![k] = None]
    /\ why' = [k \in Keys |-> IF ProjectOfKey[k] = p THEN "none" ELSE why[k]]
    /\ UNCHANGED <<version, resolver>>

\* invalidate_cache: del_by_prefix of the project's keys.
Invalidate(v, p) ==
    /\ <<v, p>> \in flush
    /\ flush' = flush \ {<<v, p>>}
    /\ cache' = [k \in Keys |-> IF ProjectOfKey[k] = p THEN None ELSE cache[k]]
    /\ why' = [k \in Keys |-> IF ProjectOfKey[k] = p THEN "none" ELSE why[k]]
    /\ UNCHANGED <<version, resolver>>

\* The organization could not be looked up: the prefix has an empty
\* organization in it, which no key has, and the answer is 200 all the same.
InvalidateWithoutOrg(v, p) ==
    /\ <<v, p>> \in flush
    /\ flush' = flush \ {<<v, p>>}
    /\ Uncovered(p)
    /\ UNCHANGED <<version, cache, resolver>>

Resolve(q) == (\E k \in Keys : Miss(q, k)) \/ ReadDb(q) \/ ReadFails(q) \/ SetCache(q)

CacheNext ==
    \/ \E q \in Resolvers : Resolve(q)
    \/ \E k \in Keys : Expire(k)
    \/ \E p \in RuleProjects : ChangeProject(p) \/ ChangeOrgRule(p)
    \/ ChangeOrganization
    \/ \E v \in Version, p \in RuleProjects :
           FlushLost(v, p) \/ Invalidate(v, p) \/ InvalidateWithoutOrg(v, p)

CacheSpec == CacheInit /\ [][CacheNext]_cacheVars

\* Entries expire and a resolver that started comes to an end; whether agents
\* make requests, and whether an invalidation arrives, is left open.
FairSpec ==
    /\ CacheSpec
    /\ \A k \in Keys : WF_cacheVars(Expire(k))
    /\ \A q \in Resolvers : WF_cacheVars(ReadDb(q) \/ ReadFails(q) \/ SetCache(q))

-----------------------------------------------------------------------------

Stale(k) == cache[k] # None /\ cache[k] < version[ProjectOfKey[k]]

\* An agent is answered from rules older than the database's only while an
\* invalidation of its project is still on its way, or for one of three
\* reasons: one was lost or found no organization to build its prefix from, a
\* rule of the organization was changed from another project, whose entries
\* alone are invalidated, or a resolver that had read before the change set the
\* entry after it.
StaleOnlyIfExcused ==
    \A k \in Keys : Stale(k) => why[k] # "none" \/ \E f \in flush : f[2] = ProjectOfKey[k]

\* Once changes stop, every agent ends up on the current rules, even if every
\* invalidation was lost: the expiry alone is enough.
EventuallyCurrent == <>[](\A k \in Keys : ~Stale(k))
=============================================================================
