---------------------------- MODULE GatewayProofs ----------------------------
(***************************************************************************)
(* Proofs about what the gateway keeps in memory: the connect cache        *)
(* (RuleCache), the channels pollers wait on (ApprovalLongPoll), the       *)
(* rate-limit counters (PolicyEval) and the vault sessions (VaultSession). *)
(* The four are independent of each other; their theorems are in one       *)
(* module, each for any values of the constants of its own.                *)
(***************************************************************************)
EXTENDS RuleCache, ApprovalLongPoll, PolicyEval, VaultSession,
        FiniteSetTheorems, TLAPS

-----------------------------------------------------------------------------
(* RuleCache                                                                *)

\* The state stays well typed: in particular an invalidation on its way is of
\* a change that was committed to the project it names.
THEOREM CacheTypeCorrect == CacheSpec => []CacheTypeOK
<1> USE VersionBound, KeysHaveProjects DEF CacheTypeOK, Version, None, Resolver, NoCall, Reason
<1>1. CacheInit => CacheTypeOK
  BY DEF CacheInit
<1>2. CacheTypeOK /\ [CacheNext]_cacheVars => CacheTypeOK'
  <2> SUFFICES ASSUME CacheTypeOK, [CacheNext]_cacheVars PROVE CacheTypeOK'
    OBVIOUS
  <2>1. ASSUME NEW q \in Resolvers, Resolve(q) PROVE CacheTypeOK'
    <3>1. CASE \E k \in Keys : Miss(q, k)
      BY <3>1 DEF Miss
    <3>2. CASE ReadDb(q)
      BY <3>2 DEF ReadDb
    <3>3. CASE ReadFails(q)
      BY <3>3 DEF ReadFails
    <3>4. CASE SetCache(q)
      BY <3>4 DEF SetCache
    <3> QED BY <2>1, <3>1, <3>2, <3>3, <3>4 DEF Resolve
  <2>2. ASSUME NEW k \in Keys, Expire(k) PROVE CacheTypeOK'
    BY <2>2 DEF Expire
  <2>3. ASSUME NEW S \in SUBSET RuleProjects, NEW told \in SUBSET S, Commit(S, told)
        PROVE  CacheTypeOK'
    <3>1. /\ version' \in [RuleProjects -> Version] /\ cache' = cache /\ resolver' = resolver
          /\ why' \in [Keys -> Reason]
      BY <2>3 DEF Commit
    <3>2. ASSUME NEW f \in flush'
          PROVE  f \in Version \X RuleProjects /\ f[1] \in 1 .. version'[f[2]]
      <4>1. CASE f \in flush
        <5>1. f[2] \in RuleProjects /\ f \in Version \X RuleProjects
          BY <4>1
        <5>2. version'[f[2]] \in {version[f[2]], version[f[2]] + 1}
          BY <2>3, <5>1 DEF Commit
        <5> QED BY <4>1, <5>1, <5>2
      <4>2. CASE f \notin flush
        <5>1. PICK p \in told : f = <<version[p] + 1, p>>
          BY <2>3, <3>2, <4>2 DEF Commit
        <5>2. version'[p] = version[p] + 1 /\ version[p] < MaxVersion
          BY <2>3 DEF Commit
        <5> QED BY <5>1, <5>2
      <4> QED BY <4>1, <4>2
    <3> QED BY <3>1, <3>2
  <2>4. ASSUME NEW p \in RuleProjects, ChangeProject(p) \/ ChangeOrgRule(p) PROVE CacheTypeOK'
    BY <2>3, <2>4 DEF ChangeProject, ChangeOrgRule
  <2>5. CASE ChangeOrganization
    BY <2>3, <2>5 DEF ChangeOrganization
  <2>6. ASSUME NEW v \in Version, NEW p \in RuleProjects,
               FlushLost(v, p) \/ Invalidate(v, p) \/ InvalidateWithoutOrg(v, p)
        PROVE  CacheTypeOK'
    BY <2>6 DEF FlushLost, Invalidate, InvalidateWithoutOrg, Uncovered
  <2>7. CASE UNCHANGED cacheVars
    BY <2>7 DEF cacheVars
  <2> QED BY <2>1, <2>2, <2>4, <2>5, <2>6, <2>7 DEF CacheNext
<1> QED BY <1>1, <1>2, PTL DEF CacheSpec

\* Stale rules are served only for the reasons StaleOnlyIfExcused lists, a rule
\* of the organization changed from another project among them.  The invariant
\* is inductive once a resolver's entry is known to be of a version that exists
\* (CacheTypeOK).
THEOREM StalenessIsExcused == CacheSpec => []StaleOnlyIfExcused
<1> USE VersionBound, KeysHaveProjects
    DEF CacheTypeOK, Version, None, Resolver, NoCall, Reason, StaleOnlyIfExcused, Stale
<1>1. CacheInit => StaleOnlyIfExcused
  BY DEF CacheInit
<1>2. CacheTypeOK /\ StaleOnlyIfExcused /\ [CacheNext]_cacheVars => StaleOnlyIfExcused'
  <2> SUFFICES ASSUME CacheTypeOK, StaleOnlyIfExcused, [CacheNext]_cacheVars PROVE StaleOnlyIfExcused'
    OBVIOUS
  <2>1. ASSUME NEW q \in Resolvers, Resolve(q) PROVE StaleOnlyIfExcused'
    <3>1. CASE SetCache(q)
      BY <3>1 DEF SetCache
    <3>2. CASE ~SetCache(q)
      BY <2>1, <3>2 DEF Resolve, Miss, ReadDb, ReadFails
    <3> QED BY <3>1, <3>2
  <2>2. ASSUME NEW k \in Keys, Expire(k) PROVE StaleOnlyIfExcused'
    BY <2>2 DEF Expire
  <2>3. ASSUME NEW S \in SUBSET RuleProjects, NEW told \in SUBSET S, Commit(S, told)
        PROVE  StaleOnlyIfExcused'
    <3> SUFFICES ASSUME NEW k \in Keys, Stale(k)'
                 PROVE  why'[k] # "none" \/ \E f \in flush' : f[2] = ProjectOfKey[k]
      OBVIOUS
    <3>1. cache'[k] = cache[k] /\ cache[k] # None
      BY <2>3 DEF Commit
    <3>2. CASE ProjectOfKey[k] \in told
      <4>1. <<version[ProjectOfKey[k]] + 1, ProjectOfKey[k]>> \in flush'
        BY <2>3, <3>2 DEF Commit
      <4> QED BY <4>1
    <3>3. CASE ProjectOfKey[k] \in S \ told
      BY <2>3, <3>1, <3>3 DEF Commit
    <3>4. CASE ProjectOfKey[k] \notin S
      <4>1. Stale(k) /\ why'[k] = why[k] /\ flush \subseteq flush'
        BY <2>3, <3>1, <3>4 DEF Commit
      <4> QED BY <4>1
    <3> QED BY <3>2, <3>3, <3>4
  <2>4. ASSUME NEW p \in RuleProjects, ChangeProject(p) \/ ChangeOrgRule(p)
        PROVE  StaleOnlyIfExcused'
    BY <2>3, <2>4 DEF ChangeProject, ChangeOrgRule
  <2>5. CASE ChangeOrganization
    BY <2>3, <2>5 DEF ChangeOrganization
  <2>6. ASSUME NEW v \in Version, NEW p \in RuleProjects,
               FlushLost(v, p) \/ InvalidateWithoutOrg(v, p)
        PROVE  StaleOnlyIfExcused'
    BY <2>6 DEF FlushLost, InvalidateWithoutOrg, Uncovered, Entries
  <2>7. ASSUME NEW v \in Version, NEW p \in RuleProjects, Invalidate(v, p)
        PROVE  StaleOnlyIfExcused'
    BY <2>7 DEF Invalidate
  <2>8. CASE UNCHANGED cacheVars
    BY <2>8 DEF cacheVars
  <2> QED BY <2>1, <2>2, <2>4, <2>5, <2>6, <2>7, <2>8 DEF CacheNext
<1> QED BY <1>1, <1>2, CacheTypeCorrect, PTL DEF CacheSpec

-----------------------------------------------------------------------------
(* ApprovalLongPoll                                                         *)

(* A poller on its way to wait_for_new has not missed anything but what was *)
(* stored since its list.                                                   *)
ListedIsGap == \A q \in Pollers : poller[q] = "listed" => Listed(q) \subseteq gap[q]

PollInv == PollTypeOK /\ WaiterReachable /\ BlocksOnlyOnGap /\ ListedIsGap

\* Projects with different names have different channels, and a channel of no
\* organization is none of them.
LEMMA ProjectKeys ==
    ASSUME NEW a \in Approvals, NEW q \in Pollers
    PROVE  Key(q) = NotifyKey[ProjectOf[a]] <=> q \in found /\ ProjectOf[q] = ProjectOf[a]
  BY KeyAssumption DEF Key

\* The bookkeeping keeps its types, and every key is some project's.
LEMMA PollTyping ==
    ASSUME PollTypeOK, [PollNext]_pollVars
    PROVE  PollTypeOK'
<1> USE DEF PollTypeOK
<1>1. \A q \in Pollers : Key(q) \in {NotifyKey[p] : p \in Projects} \cup {BareKey[p] : p \in Projects}
  BY KeyAssumption DEF Key
<1>2. ASSUME NEW keys
      PROVE  Wake(keys) \in [Pollers -> {"idle", "listed", "waiting", "woken"}]
  BY DEF Wake
<1>3. ASSUME NEW a \in Approvals, StoreApproval(a)
      PROVE  PollTypeOK'
  BY <1>2, <1>3 DEF StoreApproval
<1>4. ASSUME NEW a \in Approvals, ApprovalLeaves(a) \/ ExpireApproval(a)
      PROVE  PollTypeOK'
  BY <1>4 DEF ApprovalLeaves, ExpireApproval
<1>5. ASSUME NEW q \in Pollers, FirstList(q)
      PROVE  PollTypeOK'
  BY <1>5 DEF FirstList, FindOrganization, Listed
<1>6. ASSUME NEW q \in Pollers, Subscribe(q)
      PROVE  PollTypeOK'
  BY <1>1, <1>6 DEF Subscribe
<1>7. ASSUME NEW q \in Pollers, SecondList(q)
      PROVE  PollTypeOK'
  BY <1>7 DEF SecondList, Listed
<1>8. ASSUME NEW q \in Pollers, PollTimeout(q)
      PROVE  PollTypeOK'
  BY <1>8 DEF PollTimeout
<1>9. CASE Prune
  BY <1>2, <1>9 DEF Prune
<1>10. CASE UNCHANGED pollVars
  BY <1>10 DEF pollVars
<1>11. QED
  BY <1>3, <1>4, <1>5, <1>6, <1>7, <1>8, <1>9, <1>10 DEF PollNext

\* store() adds to the pending approvals of one project and wakes its waiters.
LEMMA StoreWakes ==
    ASSUME PollInv, NEW a \in Approvals, StoreApproval(a), NEW q \in Pollers
    PROVE  /\ poller'[q] = "waiting" => /\ poller[q] = "waiting"
                                        /\ \/ ProjectOf[q] # ProjectOf[a]
                                           \/ q \notin found /\ a \in gap'[q]
           /\ poller'[q] = "listed" => poller[q] = "listed" /\ a \in gap'[q]
           /\ gap[q] \subseteq gap'[q]
  BY ProjectKeys DEF PollInv, PollTypeOK, WaiterReachable, StoreApproval, Wake

\* Every step keeps the invariant.
LEMMA PollStep ==
    ASSUME PollInv, [PollNext]_pollVars
    PROVE  PollInv'
<1> USE DEF PollInv
<1>1. PollTypeOK'
  BY PollTyping
<1>2. ASSUME NEW a \in Approvals, StoreApproval(a)
      PROVE  WaiterReachable' /\ BlocksOnlyOnGap' /\ ListedIsGap'
  <2>1. /\ pending' = pending \cup {a} /\ UNCHANGED <<expired, notify, seen, found>>
    BY <1>2 DEF StoreApproval
  <2>2. \A q \in Pollers : Listed(q)' \subseteq Listed(q) \cup {a}
    BY <2>1 DEF Listed
  <2>3. \A q \in Pollers : ProjectOf[q] # ProjectOf[a] => Listed(q)' \subseteq Listed(q)
    BY <2>1 DEF Listed
  <2>4. WaiterReachable'
    BY <1>2, <2>1, StoreWakes DEF WaiterReachable, PollTypeOK
  <2>5. BlocksOnlyOnGap'
    BY <1>2, <2>2, <2>3, StoreWakes DEF BlocksOnlyOnGap
  <2>6. ListedIsGap'
    BY <1>2, <2>2, StoreWakes DEF ListedIsGap
  <2>7. QED
    BY <2>4, <2>5, <2>6
<1>3. ASSUME NEW a \in Approvals, ApprovalLeaves(a) \/ ExpireApproval(a)
      PROVE  WaiterReachable' /\ BlocksOnlyOnGap' /\ ListedIsGap'
  BY <1>3 DEF ApprovalLeaves, ExpireApproval, WaiterReachable, BlocksOnlyOnGap, ListedIsGap, Listed
<1>4. ASSUME NEW q \in Pollers, FirstList(q)
      PROVE  WaiterReachable' /\ BlocksOnlyOnGap' /\ ListedIsGap'
  BY <1>4 DEF FirstList, FindOrganization, WaiterReachable, BlocksOnlyOnGap, ListedIsGap, Listed, PollTypeOK
<1>5. ASSUME NEW q \in Pollers, Subscribe(q) \/ SecondList(q) \/ PollTimeout(q)
      PROVE  WaiterReachable' /\ BlocksOnlyOnGap' /\ ListedIsGap'
  BY <1>5 DEF Subscribe, SecondList, PollTimeout, WaiterReachable, BlocksOnlyOnGap, ListedIsGap, Listed,
     Key, PollTypeOK
<1>6. ASSUME Prune
      PROVE  WaiterReachable' /\ BlocksOnlyOnGap' /\ ListedIsGap'
  <2>1. /\ notify' \subseteq notify
        /\ poller' = Wake(notify \ notify')
        /\ UNCHANGED <<pending, expired, seen, found, gap>>
    BY <1>6 DEF Prune
  <2>2. \A q \in Pollers : Listed(q)' = Listed(q)
    BY <2>1 DEF Listed
  <2>3. \A q \in Pollers : poller'[q] = "waiting" =>
          poller[q] = "waiting" /\ Key(q) \notin notify \ notify'
    BY <2>1 DEF Wake
  <2>4. \A q \in Pollers : poller'[q] = "listed" => poller[q] = "listed"
    BY <2>1 DEF Wake
  <2>5. WaiterReachable'
    BY <2>1, <2>3 DEF WaiterReachable, Key, PollTypeOK
  <2>6. BlocksOnlyOnGap'
    BY <2>1, <2>2, <2>3 DEF BlocksOnlyOnGap
  <2>7. ListedIsGap'
    BY <2>1, <2>2, <2>4 DEF ListedIsGap
  <2>8. QED
    BY <2>5, <2>6, <2>7
<1>7. CASE UNCHANGED pollVars
  BY <1>1, <1>7 DEF pollVars, WaiterReachable, BlocksOnlyOnGap, ListedIsGap, Listed, Key
<1>8. QED
  BY <1>1, <1>2, <1>3, <1>4, <1>5, <1>6, <1>7 DEF PollNext

\* The invariant holds of every behaviour of the listing and the waiting.
LEMMA PollInvariance == PollSpec => []PollInv
<1>1. PollInit => PollInv
  BY DEF PollInit, PollInv, PollTypeOK, WaiterReachable, BlocksOnlyOnGap, ListedIsGap
<1>2. PollInv /\ [PollNext]_pollVars => PollInv'
  BY PollStep
<1>3. QED
  BY <1>1, <1>2, PTL DEF PollSpec

-----------------------------------------------------------------------------

\* Type correctness of the channels, the pollers and what they exclude.
THEOREM PollTypeCorrect == PollSpec => []PollTypeOK
<1>1. PollInv => PollTypeOK
  BY DEF PollInv
<1>2. QED
  BY <1>1, PollInvariance, PTL

\* Whatever start_cleanup_task prunes, a poller blocked in wait_for_new is
\* subscribed to the channel the next store() notifies, if its call found the
\* project's organization.
THEOREM BlockedPollerIsReachable == PollSpec => []WaiterReachable
<1>1. PollInv => WaiterReachable
  BY DEF PollInv
<1>2. QED
  BY <1>1, PollInvariance, PTL

\* get_pending_approvals blocks on an approval only if it was stored between
\* its list and its subscription or, for a call that did not find the project's
\* organization, since its list.
THEOREM PollerBlocksOnlyOnGap == PollSpec => []BlocksOnlyOnGap
<1>1. PollInv => BlocksOnlyOnGap
  BY DEF PollInv
<1>2. QED
  BY <1>1, PollInvariance, PTL

\* store() leaves no poller of the approval's project blocked that found its
\* organization, the one store() builds the channel's key from.
THEOREM StoreWakesEveryWaiter == PollSpec => StoreWakesAll
<1>1. PollInv /\ [PollNext]_pollVars =>
        [\A a \in pending' \ pending, q \in found :
           ProjectOf[q] = ProjectOf[a] => poller'[q] # "waiting"]_pollVars
  <2> SUFFICES ASSUME PollInv, [PollNext]_pollVars, NEW a \in pending' \ pending, NEW q \in found,
                      ProjectOf[q] = ProjectOf[a]
               PROVE  poller'[q] # "waiting"
    OBVIOUS
  <2>1. \E b \in Approvals : StoreApproval(b)
    BY DEF PollNext, pollVars, ApprovalLeaves, ExpireApproval, FirstList, Subscribe, SecondList, PollTimeout, Prune
  <2>2. a \in Approvals /\ StoreApproval(a)
    BY <2>1 DEF StoreApproval, PollInv, PollTypeOK
  <2>3. QED
    BY <2>2, StoreWakes DEF PollInv, PollTypeOK
<1>2. QED
  BY <1>1, PollInvariance, PTL DEF PollSpec, StoreWakesAll

-----------------------------------------------------------------------------
(* PolicyEval                                                               *)

\* What a request has been through by the time it counts, or is decided.
Decided ==
    \A q \in Requests :
        /\ at[q] # 0 \/ verdict[q] = "limited" => Passes12(q) = "none" /\ Matched(q, {"rate"})
        /\ verdict[q] \notin {"none", "limited"} =>
             verdict[q] = IF Passes12(q) = "none" THEN PassFour(q) ELSE Passes12(q)

\* A request is counted once for a rule: it has passed those it was counted for.
CountedOnce ==
    /\ IsFiniteSet(passed)
    /\ \A p \in passed : verdict[p.req] # "none" \/ p.rule < at[p.req]

\* Nobody counts in a window that is still to come.
Windowed == \A q \in Requests : at[q] # 0 => Window * windowId[q] <= clock

InTime(i, a, w) == {p \in Admitted(i, a, w) : p.inTime}

\* A counter outlives its window, covers those let through in it, and counts
\* only those let through until they are as many as the rule allows.
Tallied ==
    \A i \in Rules, a \in Agents, w \in Windows :
        LET e == counter[<<i, a, w>>] IN
        /\ e = NoEntry \/ Window * w + Window <= e.expires
        /\ clock < Window * w + Window => Cardinality(InTime(i, a, w)) <= e.count
        /\ \/ e.count <= Cardinality(Admitted(i, a, w))
           \/ MaxRequests <= Cardinality(Admitted(i, a, w))

EvalInv ==
    EvalTypeOK /\ Decided /\ CountedOnce /\ Windowed /\ Tallied
    /\ RateRespected /\ LimitedOnlyWhenUsedUp

\* The window a second belongs to.
LEMMA WindowOf ==
    ASSUME NEW c \in 0 .. MaxClock
    PROVE  /\ c \div Window \in Windows
           /\ Window * (c \div Window) <= c
           /\ c < Window * (c \div Window) + Window
<1>1. c \in Nat /\ Window \in Nat /\ Window > 0 /\ MaxClock \in Nat /\ c <= MaxClock
  BY EvalAssumption
<1> DEFINE w == c \div Window
<1>2. w \in Int /\ c = Window * w + (c % Window) /\ c % Window \in 0 .. (Window - 1)
  BY <1>1
<1>3. w >= 0 /\ w <= c
  BY <1>1
<1>4. QED
  BY <1>1, <1>2, <1>3 DEF Windows

\* Pass 3 has a least rule to go on with.
LEMMA LeastRule ==
    ASSUME NEW S \in SUBSET Rules, S # {}
    PROVE  \E j \in S : \A k \in S : j <= k
<1>1. S \subseteq Nat
  BY EvalAssumption DEF Rules
<1>2. \E x \in S : \A y \in S : <<y, x>> \notin OpToRel(<, Nat)
  BY <1>1, NatLessThanWellFounded, WFMin
<1>3. PICK x \in S : \A y \in S : <<y, x>> \notin OpToRel(<, Nat)
  BY <1>2
<1>4. \A y \in S : ~(y < x)
  BY <1>1, <1>3 DEF OpToRel
<1>5. QED
  BY <1>1, <1>4

\* Where pass 3 goes on: to pass 4, or to a later rule in the present window.
LEMMA ContinuesTo ==
    ASSUME EvalTypeOK, NEW q \in Requests, NEW i \in 0 .. NumRules, Continue(q, i)
    PROVE  \/ /\ RateRulesAfter(q, i) = {}
              /\ verdict' = [verdict EXCEPT ![q] = PassFour(q)]
              /\ at' = [at EXCEPT ![q] = 0] /\ windowId' = windowId
           \/ \E j \in RateRulesAfter(q, i) :
              /\ at' = [at EXCEPT ![q] = j]
              /\ windowId' = [windowId EXCEPT ![q] = clock \div Window]
              /\ verdict' = verdict
<1> DEFINE rules == RateRulesAfter(q, i)
           next == CHOOSE j \in rules : \A k \in rules : j <= k
<1>1. CASE rules = {}
  BY <1>1 DEF Continue
<1>2. CASE rules # {}
  <2>1. rules \in SUBSET Rules
    BY DEF RateRulesAfter, EvalTypeOK
  <2>2. next \in rules
    BY <1>2, <2>1, LeastRule
  <2>3. /\ at' = [at EXCEPT ![q] = next]
        /\ windowId' = [windowId EXCEPT ![q] = clock \div Window]
        /\ verdict' = verdict
    BY <1>2 DEF Continue
  <2>4. QED
    BY <2>2, <2>3
<1>3. QED
  BY <1>1, <1>2

\* A step of pass 3 or of the early passes keeps the types.
LEMMA EvalTyping ==
    ASSUME EvalTypeOK, [EvalNext]_evalVars
    PROVE  EvalTypeOK'
<1> USE DEF EvalTypeOK
<1>1. ASSUME NEW q \in Requests, NEW i \in 0 .. NumRules, Continue(q, i),
             verdict[q] = "none", UNCHANGED <<action, matches>>
      PROVE  /\ at' \in [Requests -> 0 .. NumRules]
             /\ windowId' \in [Requests -> Windows]
             /\ verdict' \in [Requests -> Verdicts \cup {"none"}]
             /\ \A r \in Requests : at'[r] # 0 =>
                  verdict'[r] = "none" /\ at'[r] \in matches'[r] /\ action'[at'[r]] = "rate"
  <2>1. clock \div Window \in Windows
    BY WindowOf
  <2>2. CASE /\ verdict' = [verdict EXCEPT ![q] = PassFour(q)]
             /\ at' = [at EXCEPT ![q] = 0] /\ windowId' = windowId
    <3>1. PassFour(q) \in Verdicts
      BY DEF PassFour, Verdicts
    <3>2. 0 \in 0 .. NumRules
      BY EvalAssumption
    <3>3. QED
      BY <1>1, <2>2, <3>1, <3>2
  <2>3. ASSUME NEW j \in RateRulesAfter(q, i), at' = [at EXCEPT ![q] = j],
               windowId' = [windowId EXCEPT ![q] = clock \div Window], verdict' = verdict
        PROVE  /\ at' \in [Requests -> 0 .. NumRules]
               /\ windowId' \in [Requests -> Windows]
               /\ \A r \in Requests : at'[r] # 0 =>
                    verdict'[r] = "none" /\ at'[r] \in matches'[r] /\ action'[at'[r]] = "rate"
    <3>1. j \in matches[q] /\ action[j] = "rate" /\ j \in 0 .. NumRules
      BY DEF RateRulesAfter, Rules
    <3>2. QED
      BY <1>1, <2>1, <2>3, <3>1
  <2>4. QED
    BY <1>1, <2>2, <2>3, ContinuesTo
<1>2. ASSUME NEW q \in Requests, Evaluate(q)
      PROVE  EvalTypeOK'
  <2>1. CASE Passes12(q) # "none"
    <3>1. Passes12(q) \in Verdicts
      BY <2>1 DEF Passes12, Verdicts
    <3>2. QED
      BY <1>2, <2>1, <3>1 DEF Evaluate
  <2>2. CASE Passes12(q) = "none"
    <3>1. Continue(q, 0) /\ verdict[q] = "none" /\ 0 \in 0 .. NumRules
      BY <1>2, <2>2, EvalAssumption DEF Evaluate
    <3>2. QED
      BY <1>1, <1>2, <3>1 DEF Evaluate
  <2>3. QED
    BY <2>1, <2>2
<1>3. ASSUME NEW q \in Requests, CountRequest(q)
      PROVE  EvalTypeOK'
  <2> DEFINE key == <<at[q], AgentOf[q], windowId[q]>>
             entry == Incremented(counter[key])
  <2>1. at[q] \in Rules /\ key \in CacheKeys /\ at[q] \in 0 .. NumRules /\ verdict[q] = "none"
    BY <1>3, EvalAssumption DEF CountRequest, CacheKeys, Rules
  <2>2. entry \in [count : Nat, expires : Nat]
    <3>1. PICK e \in [count : Nat, expires : Nat] : e = counter[key]
      BY <2>1
    <3>2. clock \in Nat /\ Window \in Nat
      BY EvalAssumption
    <3>3. Incremented(e) \in [count : Nat, expires : Nat]
      BY <3>2 DEF Incremented
    <3>4. QED
      BY <3>1, <3>3
  <2>3. counter' \in [CacheKeys -> [count : Nat, expires : Nat]]
    BY <1>3, <2>1, <2>2 DEF CountRequest
  <2>4. UNCHANGED <<action, denyMode, matches, clock>>
    BY <1>3 DEF CountRequest
  <2>5. CASE OverLimit(entry.count)
    <3>1. /\ verdict' = [verdict EXCEPT ![q] = "limited"]
          /\ at' = [at EXCEPT ![q] = 0]
          /\ UNCHANGED <<windowId, passed>>
      BY <1>3, <2>5 DEF CountRequest
    <3>2. QED
      BY <2>3, <2>4, <3>1, EvalAssumption DEF Verdicts
  <2>6. CASE ~OverLimit(entry.count)
    <3>1. /\ passed' = passed \cup {[req |-> q, rule |-> at[q], window |-> windowId[q],
                                      inTime |-> windowId[q] = clock \div Window]}
          /\ Continue(q, at[q])
      BY <1>3, <2>6 DEF CountRequest
    <3>2. passed' \subseteq Admission
      <4> DEFINE p == [req |-> q, rule |-> at[q], window |-> windowId[q],
                       inTime |-> windowId[q] = clock \div Window]
      <4>1. (windowId[q] = clock \div Window) \in BOOLEAN /\ windowId[q] \in Windows
        OBVIOUS
      <4>2. p \in Admission
        BY <2>1, <4>1 DEF Admission
      <4>3. QED
        BY <3>1, <4>2
    <3>3. QED
      BY <1>1, <2>1, <2>3, <2>4, <3>1, <3>2
  <2>7. QED
    BY <2>5, <2>6
<1>4. CASE Tick
  BY <1>4, EvalAssumption DEF Tick
<1>5. CASE UNCHANGED evalVars
  BY <1>5 DEF evalVars
<1>6. QED
  BY <1>2, <1>3, <1>4, <1>5 DEF EvalNext

\* What a request is judged by does not change.
LEMMA RulesStay ==
    ASSUME UNCHANGED <<action, denyMode, matches>>
    PROVE  /\ \A q, acts : Matched(q, acts)' <=> Matched(q, acts)
           /\ \A q : Passes12(q)' = Passes12(q) /\ PassFour(q)' = PassFour(q)
BY DEF Matched, Passes12, PassFour

LEMMA DecidedStep ==
    ASSUME EvalTypeOK, Decided, [EvalNext]_evalVars
    PROVE  Decided'
<1> USE DEF EvalTypeOK, Decided
<1>1. UNCHANGED <<action, denyMode, matches>>
  BY DEF EvalNext, evalVars, Evaluate, CountRequest, Tick
<1>2. ASSUME NEW q \in Requests, NEW i \in 0 .. NumRules, Continue(q, i), Passes12(q) = "none"
      PROVE  Decided'
  <2>1. PassFour(q) \notin {"none", "limited"} /\ \A j \in RateRulesAfter(q, i) : Matched(q, {"rate"})
    BY DEF PassFour, RateRulesAfter, Matched
  <2>2. QED
    BY <1>1, <1>2, <2>1, ContinuesTo, RulesStay
<1>3. ASSUME NEW q \in Requests, Evaluate(q)
      PROVE  Decided'
  <2>1. CASE Passes12(q) # "none"
    <3>1. Passes12(q) # "limited"
      BY DEF Passes12
    <3>2. QED
      BY <1>1, <1>3, <2>1, <3>1, RulesStay DEF Evaluate
  <2>2. CASE Passes12(q) = "none"
    BY <1>2, <1>3, <2>2, EvalAssumption DEF Evaluate
  <2>3. QED
    BY <2>1, <2>2
<1>4. ASSUME NEW q \in Requests, CountRequest(q)
      PROVE  Decided'
  <2>1. Passes12(q) = "none" /\ Matched(q, {"rate"}) /\ at[q] \in 0 .. NumRules
    BY <1>4 DEF CountRequest
  <2>2. CASE Continue(q, at[q])
    BY <1>2, <2>1, <2>2
  <2>3. CASE verdict' = [verdict EXCEPT ![q] = "limited"] /\ at' = [at EXCEPT ![q] = 0]
    BY <1>1, <2>1, <2>3, RulesStay
  <2>4. QED
    BY <1>4, <2>2, <2>3 DEF CountRequest
<1>5. CASE Tick \/ UNCHANGED evalVars
  BY <1>1, <1>5, RulesStay DEF Tick, evalVars
<1>6. QED
  BY <1>3, <1>4, <1>5 DEF EvalNext

\* Finite sets of admissions, and how they grow.
LEMMA AdmittedFinite ==
    ASSUME IsFiniteSet(passed), NEW i, NEW a, NEW w
    PROVE  /\ IsFiniteSet(Admitted(i, a, w)) /\ Cardinality(Admitted(i, a, w)) \in Nat
           /\ IsFiniteSet(InTime(i, a, w)) /\ Cardinality(InTime(i, a, w)) \in Nat
<1>1. Admitted(i, a, w) \in SUBSET passed /\ InTime(i, a, w) \in SUBSET passed
  BY DEF Admitted, InTime
<1>2. QED
  BY <1>1, FS_Subset, FS_CardinalityType

LEMMA AdmittedGrows ==
    ASSUME IsFiniteSet(passed), NEW p, passed' = passed \cup {p}, p \notin passed, NEW i, NEW a, NEW w
    PROVE  LET fits == p.rule = i /\ p.window = w /\ AgentOf[p.req] = a
           IN /\ Cardinality(Admitted(i, a, w)') = Cardinality(Admitted(i, a, w)) + IF fits THEN 1 ELSE 0
              /\ Cardinality(InTime(i, a, w)')
                   = Cardinality(InTime(i, a, w)) + IF fits /\ p.inTime THEN 1 ELSE 0
<1> DEFINE fits == p.rule = i /\ p.window = w /\ AgentOf[p.req] = a
           A == Admitted(i, a, w)
           T == InTime(i, a, w)
<1>1. /\ A' = IF fits THEN A \cup {p} ELSE A
      /\ T' = IF fits /\ p.inTime THEN T \cup {p} ELSE T
  BY DEF Admitted, InTime
<1>2. p \notin A /\ p \notin T
  BY DEF Admitted, InTime
<1>3. IsFiniteSet(A) /\ IsFiniteSet(T) /\ Cardinality(A) \in Nat /\ Cardinality(T) \in Nat
  BY AdmittedFinite
<1> HIDE DEF A, T, fits
<1>4. /\ Cardinality(A \cup {p}) = Cardinality(A) + 1
      /\ Cardinality(T \cup {p}) = Cardinality(T) + 1
  BY <1>2, <1>3, FS_AddElement
<1>5. Cardinality(A') = Cardinality(A) + IF fits THEN 1 ELSE 0
  BY <1>1, <1>3, <1>4
<1>6. Cardinality(T') = Cardinality(T) + IF fits /\ p.inTime THEN 1 ELSE 0
  BY <1>1, <1>3, <1>4
<1>7. QED
  BY <1>5, <1>6 DEF A, T, fits

\* A request that goes on has passed the rule it was counted for, and reads the
\* clock for the next.
LEMMA GoesOn ==
    ASSUME EvalTypeOK, Windowed, NEW q \in Requests, NEW i \in 0 .. NumRules, Continue(q, i),
           UNCHANGED clock
    PROVE  /\ Windowed'
           /\ verdict'[q] \notin {"none", "limited"} \/ (at'[q] \in Rules /\ i < at'[q])
           /\ verdict'[q] # "limited" \/ verdict'[q] = verdict[q]
           /\ \A r \in Requests \ {q} : verdict'[r] = verdict[r] /\ at'[r] = at[r]
<1> USE DEF EvalTypeOK, Windowed
<1>1. Window * (clock \div Window) <= clock
  BY WindowOf
<1>2. PassFour(q) \notin {"none", "limited"}
  BY DEF PassFour
<1>3. \A j \in RateRulesAfter(q, i) : j \in Rules /\ i < j
  BY DEF RateRulesAfter
<1>4. CASE /\ verdict' = [verdict EXCEPT ![q] = PassFour(q)]
           /\ at' = [at EXCEPT ![q] = 0] /\ windowId' = windowId
  BY <1>2, <1>4
<1>5. ASSUME NEW j \in RateRulesAfter(q, i), at' = [at EXCEPT ![q] = j],
             windowId' = [windowId EXCEPT ![q] = clock \div Window], verdict' = verdict
      PROVE  /\ Windowed'
             /\ at'[q] \in Rules /\ i < at'[q]
             /\ \A r \in Requests \ {q} : verdict'[r] = verdict[r] /\ at'[r] = at[r]
  <2>1. at'[q] = j /\ j \in Rules /\ i < j /\ windowId'[q] = clock \div Window
    BY <1>3, <1>5
  <2>2. \A r \in Requests \ {q} : at'[r] = at[r] /\ windowId'[r] = windowId[r]
    BY <1>5
  <2>3. Windowed'
    BY <1>1, <2>1, <2>2
  <2>4. QED
    BY <1>5, <2>1, <2>2, <2>3
<1>6. QED
  BY <1>4, <1>5, ContinuesTo

\* Evaluating, and the clock, admit and count nobody.
LEMMA NotCounting ==
    ASSUME EvalTypeOK, EvalInv, UNCHANGED <<action, matches, counter, passed>>,
           Windowed', clock' >= clock, clock' \in Nat,
           \A p \in passed : verdict'[p.req] # "none" \/ p.rule < at'[p.req],
           \A r \in Requests : verdict'[r] = "limited" => verdict[r] = "limited"
    PROVE  CountedOnce' /\ Tallied' /\ RateRespected' /\ LimitedOnlyWhenUsedUp'
<1> USE DEF EvalTypeOK, EvalInv
<1>1. \A i, a, w : Admitted(i, a, w)' = Admitted(i, a, w) /\ InTime(i, a, w)' = InTime(i, a, w)
  BY DEF Admitted, InTime
<1>2. CountedOnce'
  BY DEF CountedOnce
<1>3. Tallied'
  <2> SUFFICES ASSUME NEW i \in Rules, NEW a \in Agents, NEW w \in Windows
               PROVE  LET e == counter[<<i, a, w>>] IN
                      /\ e = NoEntry \/ Window * w + Window <= e.expires
                      /\ clock' < Window * w + Window => Cardinality(InTime(i, a, w)) <= e.count
                      /\ \/ e.count <= Cardinality(Admitted(i, a, w))
                         \/ MaxRequests <= Cardinality(Admitted(i, a, w))
    BY <1>1 DEF Tallied
  <2>1. Window * w + Window \in Int /\ clock \in Nat
    BY EvalAssumption DEF Windows
  <2>2. clock' < Window * w + Window => clock < Window * w + Window
    BY <2>1
  <2>3. QED
    BY <2>2 DEF Tallied
<1>4. RateRespected'
  BY <1>1 DEF RateRespected, InTime
<1>5. LimitedOnlyWhenUsedUp'
  BY <1>1 DEF LimitedOnlyWhenUsedUp
<1>6. QED
  BY <1>2, <1>3, <1>4, <1>5

LEMMA EvaluateStep ==
    ASSUME EvalInv, NEW q \in Requests, Evaluate(q)
    PROVE  Windowed' /\ CountedOnce' /\ Tallied' /\ RateRespected' /\ LimitedOnlyWhenUsedUp'
<1> USE DEF EvalTypeOK, EvalInv
<1>1. /\ UNCHANGED <<action, denyMode, matches, clock, counter, passed>>
      /\ verdict[q] = "none" /\ at[q] = 0
  BY DEF Evaluate
<1>2. /\ Windowed'
      /\ \A r \in Requests : verdict'[r] = "limited" => verdict[r] = "limited"
      /\ \A r \in Requests \ {q} : verdict'[r] = verdict[r] /\ at'[r] = at[r]
  <2>1. CASE Passes12(q) = "none"
    <3>1. Continue(q, 0) /\ 0 \in 0 .. NumRules
      BY <2>1, EvalAssumption DEF Evaluate
    <3>2. QED
      BY <1>1, <3>1, GoesOn
  <2>2. CASE Passes12(q) # "none"
    BY <1>1, <2>2 DEF Evaluate, Windowed, Passes12
  <2>3. QED
    BY <2>1, <2>2
<1>3. \A p \in passed : p.req \in Requests /\ p.req # q
  BY <1>1, EvalAssumption DEF CountedOnce, Admission, Rules
<1>4. \A p \in passed : verdict'[p.req] # "none" \/ p.rule < at'[p.req]
  BY <1>2, <1>3 DEF CountedOnce
<1>5. clock' >= clock /\ clock' \in Nat
  BY <1>1, EvalAssumption
<1>6. QED
  BY <1>1, <1>2, <1>4, <1>5, NotCounting

LEMMA TickStep ==
    ASSUME EvalInv, Tick \/ UNCHANGED evalVars
    PROVE  Windowed' /\ CountedOnce' /\ Tallied' /\ RateRespected' /\ LimitedOnlyWhenUsedUp'
<1> USE DEF EvalTypeOK, EvalInv
<1>1. /\ UNCHANGED <<action, denyMode, matches, counter, at, windowId, verdict, passed>>
      /\ clock' >= clock /\ clock' \in Nat
  BY EvalAssumption DEF Tick, evalVars
<1>2. Windowed'
  <2>1. \A q \in Requests : Window * windowId[q] \in Int /\ clock \in Nat
    BY EvalAssumption DEF Windows
  <2>2. QED
    BY <1>1, <2>1 DEF Windowed
<1>3. QED
  BY <1>1, <1>2, NotCounting DEF CountedOnce

\* A counted request.  The entry counted in is the window's own: it is new, or
\* outlives the window.
LEMMA CountStep ==
    ASSUME EvalInv, NEW q \in Requests, CountRequest(q)
    PROVE  Windowed' /\ CountedOnce' /\ Tallied' /\ RateRespected' /\ LimitedOnlyWhenUsedUp'
<1> USE DEF EvalTypeOK, EvalInv
<1>0. PICK i \in Rules, a \in Agents, w \in Windows : i = at[q] /\ a = AgentOf[q] /\ w = windowId[q]
  BY EvalAssumption DEF CountRequest, Rules
<1> DEFINE key == <<i, a, w>>
           old == counter[key]
           new == Incremented(old)
           end == Window * w + Window
           p == [req |-> q, rule |-> i, window |-> w, inTime |-> w = clock \div Window]
<1>1. /\ i \in Rules /\ i \in 0 .. NumRules /\ a \in Agents /\ w \in Windows /\ key \in CacheKeys
      /\ verdict[q] = "none" /\ i \in matches[q] /\ action[i] = "rate"
      /\ Window * w <= clock
      /\ UNCHANGED <<action, denyMode, matches, clock>>
      /\ counter' = [counter EXCEPT ![key] = new]
  BY <1>0, EvalAssumption DEF CountRequest, Windowed, CacheKeys, Rules
<1>2. /\ clock \in Nat /\ Window \in Nat /\ Window > 0 /\ MaxRequests \in Nat /\ MaxRequests > 0
      /\ end \in Int /\ end <= clock + Window
      /\ \A j \in Windows : Window * j + Window \in Int
  <2>1. clock \in Nat /\ Window \in Nat /\ Window > 0 /\ MaxRequests \in Nat /\ MaxRequests > 0
    BY EvalAssumption
  <2>2. \A j \in Windows : Window * j \in Int
    BY EvalAssumption DEF Windows
  <2>3. QED
    BY <1>1, <2>1, <2>2
<1>3. p.inTime => clock < end
  <2>1. clock < Window * (clock \div Window) + Window
    BY WindowOf
  <2>2. QED
    BY <2>1
<1>4. /\ old \in [count : Nat, expires : Nat]
      /\ old = NoEntry \/ end <= old.expires
      /\ clock < end => Cardinality(InTime(i, a, w)) <= old.count
      /\ old.count <= Cardinality(Admitted(i, a, w)) \/ MaxRequests <= Cardinality(Admitted(i, a, w))
  BY <1>1 DEF Tallied
<1>5. IsFiniteSet(passed)
  BY DEF CountedOnce
<1>6. /\ new \in [count : Nat, expires : Nat] /\ new.count > 0
      /\ end <= new.expires
      /\ new.count = 1 \/ new.count = old.count + 1
      /\ clock < end => new.count = old.count + 1
  <2>1. CASE old.expires <= clock
    <3>1. new = [count |-> 1, expires |-> clock + Window]
      BY <2>1 DEF Incremented
    <3>2. clock < end => old.count = 0
      BY <1>2, <1>4, <2>1 DEF NoEntry
    <3>3. QED
      BY <1>2, <3>1, <3>2
  <2>2. CASE ~(old.expires <= clock)
    <3>1. new.count = old.count + 1 /\ new.expires = old.expires
          /\ new \in [count : Nat, expires : Nat]
      BY <1>4, <2>2 DEF Incremented
    <3>2. old # NoEntry
      BY <1>2, <2>2 DEF NoEntry
    <3>3. QED
      BY <1>4, <3>1, <3>2
  <2>3. QED
    BY <2>1, <2>2
<1>7. counter'[key] = new /\ \A k \in CacheKeys \ {key} : counter'[k] = counter[k]
  BY <1>1
<1> HIDE DEF new, end
<1>8. CASE OverLimit(new.count)
  <2>1. /\ verdict' = [verdict EXCEPT ![q] = "limited"]
        /\ at' = [at EXCEPT ![q] = 0]
        /\ UNCHANGED <<windowId, passed>>
    BY <1>0, <1>8 DEF CountRequest, new
  <2>2. \A j, b, v : Admitted(j, b, v)' = Admitted(j, b, v) /\ InTime(j, b, v)' = InTime(j, b, v)
    BY <2>1 DEF Admitted, InTime
  <2>3. Cardinality(Admitted(i, a, w)) \in Nat /\ Cardinality(InTime(i, a, w)) \in Nat
    BY <1>5, AdmittedFinite
  <2>4. MaxRequests <= Cardinality(Admitted(i, a, w))
    BY <1>2, <1>4, <1>6, <1>8, <2>3 DEF OverLimit
  <2>5. Windowed'
    BY <1>1, <2>1 DEF Windowed
  <2>6. CountedOnce'
    BY <1>1, <2>1 DEF CountedOnce, Admission
  <2>7. Tallied'
    <3> SUFFICES ASSUME NEW j \in Rules, NEW b \in Agents, NEW v \in Windows
                 PROVE  LET e == counter'[<<j, b, v>>] IN
                        /\ e = NoEntry \/ Window * v + Window <= e.expires
                        /\ clock < Window * v + Window => Cardinality(InTime(j, b, v)) <= e.count
                        /\ \/ e.count <= Cardinality(Admitted(j, b, v))
                           \/ MaxRequests <= Cardinality(Admitted(j, b, v))
      BY <1>1, <2>2 DEF Tallied
    <3>1. CASE <<j, b, v>> = key
      BY <1>4, <1>6, <1>7, <2>3, <2>4, <3>1 DEF end
    <3>2. CASE <<j, b, v>> # key
      <4>1. counter'[<<j, b, v>>] = counter[<<j, b, v>>]
        BY <1>7, <3>2 DEF CacheKeys
      <4>2. QED
        BY <4>1 DEF Tallied
    <3>3. QED
      BY <3>1, <3>2
  <2>8. RateRespected'
    BY <2>2 DEF RateRespected, InTime
  <2>9. LimitedOnlyWhenUsedUp'
    <3> SUFFICES ASSUME NEW r \in Requests, verdict'[r] = "limited"
                 PROVE  \E j \in matches[r], v \in Windows :
                          action[j] = "rate" /\ Cardinality(Admitted(j, AgentOf[r], v)) >= MaxRequests
      BY <1>1, <2>2 DEF LimitedOnlyWhenUsedUp
    <3>1. CASE r = q
      <4>1. i \in matches[r] /\ action[i] = "rate" /\ AgentOf[r] = a
        BY <1>0, <1>1, <3>1
      <4>2. Cardinality(Admitted(i, AgentOf[r], w)) >= MaxRequests
        BY <1>2, <2>3, <2>4, <4>1
      <4>3. QED
        BY <4>1, <4>2
    <3>2. CASE r # q
      BY <2>1, <3>2 DEF LimitedOnlyWhenUsedUp
    <3>3. QED
      BY <3>1, <3>2
  <2>10. QED
    BY <2>5, <2>6, <2>7, <2>8, <2>9
<1>9. CASE ~OverLimit(new.count)
  <2>1. passed' = passed \cup {p} /\ Continue(q, i)
    BY <1>0, <1>9 DEF CountRequest, new
  <2>2. p \notin passed
    <3>1. p.req = q /\ p.rule = i /\ i \in Int
      BY DEF Rules
    <3>2. ~(verdict[q] # "none" \/ i < at[q])
      BY <1>0, <1>1, <3>1
    <3>3. QED
      BY <3>1, <3>2 DEF CountedOnce
  <2>3. /\ Windowed'
        /\ verdict'[q] \notin {"none", "limited"} \/ (at'[q] \in Rules /\ i < at'[q])
        /\ verdict'[q] # "limited"
        /\ \A r \in Requests \ {q} : verdict'[r] = verdict[r] /\ at'[r] = at[r]
    BY <1>0, <1>1, <2>1, GoesOn
  <2>4. CountedOnce'
    <3>1. IsFiniteSet(passed')
      BY <1>5, <2>1, FS_AddElement
    <3>2. \A r \in passed : r.req \in Requests /\ r.rule \in Rules
      BY DEF Admission
    <3>3. ASSUME NEW r \in passed'
          PROVE  verdict'[r.req] # "none" \/ r.rule < at'[r.req]
      <4>1. CASE r = p
        BY <2>3, <4>1
      <4>2. CASE r \in passed /\ r.req # q
        BY <2>3, <3>2, <4>2 DEF CountedOnce
      <4>3. CASE r \in passed /\ r.req = q
        <5>1. r.rule < i /\ r.rule \in Int /\ i \in Int
          BY <1>0, <1>1, <3>2, <4>3 DEF CountedOnce, Rules
        <5>2. QED
          BY <2>3, <4>3, <5>1 DEF Rules
      <4>4. QED
        BY <2>1, <4>1, <4>2, <4>3
    <3>4. QED
      BY <3>1, <3>3 DEF CountedOnce
  <2>4a. p.req = q /\ p.rule = i /\ p.window = w /\ AgentOf[p.req] = a
    BY <1>0
  <2> HIDE DEF p
  <2>5. \A j \in Rules, b \in Agents, v \in Windows :
          /\ Cardinality(Admitted(j, b, v)) \in Nat /\ Cardinality(InTime(j, b, v)) \in Nat
          /\ <<j, b, v>> # key => /\ Cardinality(Admitted(j, b, v)') = Cardinality(Admitted(j, b, v))
                                  /\ Cardinality(InTime(j, b, v)') = Cardinality(InTime(j, b, v))
    <3> SUFFICES ASSUME NEW j \in Rules, NEW b \in Agents, NEW v \in Windows
                 PROVE  /\ Cardinality(Admitted(j, b, v)) \in Nat /\ Cardinality(InTime(j, b, v)) \in Nat
                        /\ <<j, b, v>> # key =>
                             /\ Cardinality(Admitted(j, b, v)') = Cardinality(Admitted(j, b, v))
                             /\ Cardinality(InTime(j, b, v)') = Cardinality(InTime(j, b, v))
      OBVIOUS
    <3>1. Cardinality(Admitted(j, b, v)) \in Nat /\ Cardinality(InTime(j, b, v)) \in Nat
      BY <1>5, AdmittedFinite
    <3>2. <<j, b, v>> # key => ~(p.rule = j /\ p.window = v /\ AgentOf[p.req] = b)
      BY <2>4a
    <3>3. QED
      BY <1>5, <2>1, <2>2, <3>1, <3>2, AdmittedGrows
  <2>6. /\ Cardinality(Admitted(i, a, w)') = Cardinality(Admitted(i, a, w)) + 1
        /\ Cardinality(InTime(i, a, w)')
             = Cardinality(InTime(i, a, w)) + IF p.inTime THEN 1 ELSE 0
    BY <1>5, <2>1, <2>2, <2>4a, AdmittedGrows
  <2>7. Cardinality(Admitted(i, a, w)) \in Nat /\ Cardinality(InTime(i, a, w)) \in Nat
    BY <1>5, AdmittedFinite
  <2>8. new.count <= MaxRequests
    BY <1>2, <1>6, <1>9 DEF OverLimit
  <2>9. Tallied'
    <3> SUFFICES ASSUME NEW j \in Rules, NEW b \in Agents, NEW v \in Windows
                 PROVE  LET e == counter'[<<j, b, v>>] IN
                        /\ e = NoEntry \/ Window * v + Window <= e.expires
                        /\ clock < Window * v + Window => Cardinality(InTime(j, b, v)') <= e.count
                        /\ \/ e.count <= Cardinality(Admitted(j, b, v)')
                           \/ MaxRequests <= Cardinality(Admitted(j, b, v)')
      BY <1>1 DEF Tallied
    <3>1. CASE <<j, b, v>> = key
      <4>1. j = i /\ b = a /\ v = w
        BY <3>1
      <4>2. /\ clock < end => Cardinality(InTime(i, a, w)') <= new.count
            /\ \/ new.count <= Cardinality(Admitted(i, a, w)')
               \/ MaxRequests <= Cardinality(Admitted(i, a, w)')
        BY <1>2, <1>4, <1>6, <2>6, <2>7
      <4>3. QED
        BY <1>6, <1>7, <4>1, <4>2 DEF end
    <3>2. CASE <<j, b, v>> # key
      <4>1. counter'[<<j, b, v>>] = counter[<<j, b, v>>]
        BY <1>7, <3>2 DEF CacheKeys
      <4>2. QED
        BY <2>5, <3>2, <4>1 DEF Tallied
    <3>3. QED
      BY <3>1, <3>2
  <2>10. RateRespected'
    <3> SUFFICES ASSUME NEW j \in Rules, NEW b \in Agents, NEW v \in Windows
                 PROVE  Cardinality(InTime(j, b, v)') <= MaxRequests
      BY DEF RateRespected, InTime
    <3>1. CASE <<j, b, v>> = key
      <4>1. j = i /\ b = a /\ v = w
        BY <3>1
      <4>2. Cardinality(InTime(i, a, w)) <= MaxRequests
        BY DEF RateRespected, InTime
      <4>3. p.inTime => Cardinality(InTime(i, a, w)) + 1 <= MaxRequests
        BY <1>2, <1>3, <1>4, <1>6, <2>7, <2>8
      <4>4. Cardinality(InTime(i, a, w)') <= MaxRequests
        BY <2>6, <2>7, <4>2, <4>3
      <4>5. QED
        BY <4>1, <4>4
    <3>2. CASE <<j, b, v>> # key
      <4>1. Cardinality(InTime(j, b, v)) <= MaxRequests
        BY DEF RateRespected, InTime
      <4>2. QED
        BY <2>5, <3>2, <4>1
    <3>3. QED
      BY <3>1, <3>2
  <2>11. LimitedOnlyWhenUsedUp'
    <3> SUFFICES ASSUME NEW r \in Requests, verdict'[r] = "limited"
                 PROVE  \E j \in matches[r], v \in Windows :
                          action[j] = "rate" /\ Cardinality(Admitted(j, AgentOf[r], v)') >= MaxRequests
      BY <1>1 DEF LimitedOnlyWhenUsedUp
    <3>1. verdict[r] = "limited"
      BY <2>3
    <3>2. PICK j \in matches[r], v \in Windows :
            action[j] = "rate" /\ Cardinality(Admitted(j, AgentOf[r], v)) >= MaxRequests
      BY <3>1 DEF LimitedOnlyWhenUsedUp
    <3>3. j \in Rules /\ AgentOf[r] \in Agents
      BY EvalAssumption
    <3>4. Cardinality(Admitted(j, AgentOf[r], v)') >= Cardinality(Admitted(j, AgentOf[r], v))
      BY <2>5, <2>6, <2>7, <3>3
    <3>5. QED
      BY <1>2, <2>5, <2>6, <2>7, <3>2, <3>3, <3>4
  <2>12. QED
    BY <2>3, <2>4, <2>9, <2>10, <2>11
<1>10. QED
  BY <1>8, <1>9

LEMMA EvalInvariance == EvalSpec => []EvalInv
<1>1. EvalInit => EvalInv
  <2> SUFFICES ASSUME EvalInit PROVE EvalInv
    OBVIOUS
  <2>1. EvalTypeOK
    <3>1. NoEntry \in [count : Nat, expires : Nat] /\ 0 \in Windows /\ 0 \in 0 .. MaxClock
          /\ 0 \in 0 .. NumRules
      BY EvalAssumption DEF NoEntry, Windows
    <3>2. QED
      BY <3>1 DEF EvalInit, EvalTypeOK
  <2>2. \A i, a, w : Admitted(i, a, w) = {} /\ InTime(i, a, w) = {}
    BY DEF EvalInit, Admitted, InTime
  <2>3. IsFiniteSet({}) /\ Cardinality({}) = 0 /\ MaxRequests >= 0
    BY FS_EmptySet, EvalAssumption
  <2>4. CountedOnce /\ Windowed /\ Decided /\ LimitedOnlyWhenUsedUp
    BY <2>3 DEF EvalInit, CountedOnce, Windowed, Decided, LimitedOnlyWhenUsedUp
  <2>5. RateRespected
    BY <2>2, <2>3 DEF RateRespected, InTime
  <2>6. Tallied
    <3>1. \A k \in CacheKeys : counter[k] = NoEntry
      BY DEF EvalInit
    <3>2. NoEntry.count = 0
      BY DEF NoEntry
    <3>3. QED
      BY <2>2, <2>3, <3>1, <3>2 DEF Tallied, CacheKeys
  <2>7. QED
    BY <2>1, <2>4, <2>5, <2>6 DEF EvalInv
<1>2. EvalInv /\ [EvalNext]_evalVars => EvalInv'
  <2> SUFFICES ASSUME EvalInv, [EvalNext]_evalVars PROVE EvalInv'
    OBVIOUS
  <2>1. EvalTypeOK' /\ Decided'
    BY EvalTyping, DecidedStep DEF EvalInv
  <2>2. Windowed' /\ CountedOnce' /\ Tallied' /\ RateRespected' /\ LimitedOnlyWhenUsedUp'
    BY EvaluateStep, CountStep, TickStep DEF EvalNext
  <2>3. QED
    BY <2>1, <2>2 DEF EvalInv
<1>3. QED
  BY <1>1, <1>2, PTL DEF EvalSpec

\* The counters, the windows and the verdicts stay well typed, and a request
\* that counts is undecided and at a rate-limit rule that matches it.
THEOREM EvalTypeCorrect == EvalSpec => []EvalTypeOK
<1>1. EvalInv => EvalTypeOK
  BY DEF EvalInv
<1>2. QED
  BY <1>1, EvalInvariance, PTL

\* policy::evaluate decides by the strictest rule that matches, wherever it
\* stands in the slice and whatever other requests count meanwhile.
THEOREM StrictestRuleWins == EvalSpec => []StrictestWins
<1>1. EvalInv => StrictestWins
  <2> SUFFICES ASSUME EvalInv, NEW q \in Requests, verdict[q] # "none"
               PROVE  CASE StrictestOf(q) = 4 -> verdict[q] = "blocked"
                        [] StrictestOf(q) = 3 -> verdict[q] = "approval"
                        [] StrictestOf(q) = 2 -> verdict[q] \in {"allowed", "limited"}
                        [] StrictestOf(q) = 1 -> verdict[q] = "allowed"
                        [] OTHER -> verdict[q] = IF denyMode THEN "default" ELSE "allowed"
    BY DEF StrictestWins
  <2> DEFINE ranks == {Strictness[action[i]] : i \in matches[q]} \cup {0}
             top == StrictestOf(q)
  <2>1. /\ 4 \in ranks <=> Matched(q, {"block"})
        /\ 3 \in ranks <=> Matched(q, {"approval"})
        /\ 2 \in ranks <=> Matched(q, {"rate"})
        /\ 1 \in ranks <=> Matched(q, {"allow"})
        /\ 0 \in ranks /\ ranks \subseteq 0 .. 4
    <3>1. \A i \in matches[q] : action[i] \in Actions
      BY DEF EvalInv, EvalTypeOK
    <3>2. /\ Strictness["block"] = 4 /\ Strictness["approval"] = 3
          /\ Strictness["rate"] = 2 /\ Strictness["allow"] = 1
      BY DEF Strictness
    <3>3. QED
      BY <3>1, <3>2 DEF Matched, Actions
  <2> HIDE DEF ranks
  <2>2. \E r \in ranks : \A s \in ranks : s <= r
    <3>1. ASSUME NEW r \in ranks, \A s \in ranks : s <= r
          PROVE  \E m \in ranks : \A s \in ranks : s <= m
      BY <3>1
    <3>2. CASE 4 \in ranks
      BY <2>1, <3>2
    <3>3. CASE 3 \in ranks /\ 4 \notin ranks
      BY <2>1, <3>3
    <3>4. CASE 2 \in ranks /\ {3, 4} \cap ranks = {}
      BY <2>1, <3>4
    <3>5. CASE 1 \in ranks /\ {2, 3, 4} \cap ranks = {}
      BY <2>1, <3>5
    <3>6. CASE {1, 2, 3, 4} \cap ranks = {}
      BY <2>1, <3>6
    <3>7. QED
      BY <3>2, <3>3, <3>4, <3>5, <3>6
  <2>3. top \in ranks /\ \A s \in ranks : s <= top
    BY <2>2 DEF StrictestOf, ranks
  <2> HIDE DEF top
  <2>4. /\ top = 4 <=> Matched(q, {"block"})
        /\ top = 3 <=> ~Matched(q, {"block"}) /\ Matched(q, {"approval"})
        /\ top = 2 <=> /\ ~Matched(q, {"block"}) /\ ~Matched(q, {"approval"})
                       /\ Matched(q, {"rate"})
        /\ top = 1 <=> /\ ~Matched(q, {"block"}) /\ ~Matched(q, {"approval"})
                       /\ ~Matched(q, {"rate"}) /\ Matched(q, {"allow"})
    BY <2>1, <2>3
  <2>5. Matched(q, {"allow", "rate"}) <=> Matched(q, {"allow"}) \/ Matched(q, {"rate"})
    BY DEF Matched
  <2>6. /\ verdict[q] = "limited" => Passes12(q) = "none" /\ Matched(q, {"rate"})
        /\ verdict[q] # "limited" =>
             verdict[q] = IF Passes12(q) = "none" THEN PassFour(q) ELSE Passes12(q)
    BY DEF EvalInv, Decided
  <2>7. CASE Matched(q, {"block"})
    BY <2>4, <2>6, <2>7 DEF Passes12, top
  <2>8. CASE ~Matched(q, {"block"}) /\ Matched(q, {"approval"})
    BY <2>4, <2>6, <2>8 DEF Passes12, top
  <2>9. CASE ~Matched(q, {"block"}) /\ ~Matched(q, {"approval"})
    <3>1. Passes12(q) = "none"
      BY <2>9 DEF Passes12
    <3>2. CASE Matched(q, {"rate"})
      BY <2>4, <2>5, <2>6, <2>9, <3>1, <3>2 DEF PassFour, top
    <3>3. CASE ~Matched(q, {"rate"}) /\ Matched(q, {"allow"})
      BY <2>4, <2>5, <2>6, <2>9, <3>1, <3>3 DEF PassFour, top
    <3>4. CASE ~Matched(q, {"rate"}) /\ ~Matched(q, {"allow"})
      BY <2>4, <2>5, <2>6, <2>9, <3>1, <3>4 DEF PassFour, top
    <3>5. QED
      BY <3>2, <3>3, <3>4
  <2>10. QED
    BY <2>7, <2>8, <2>9
<1>2. QED
  BY <1>1, EvalInvariance, PTL

\* check_rate_limit lets no more requests of an agent through in a window than
\* the rule says, for any numbers of requests, rules and any length of window.
THEOREM QuotaIsRespected == EvalSpec => []RateRespected
<1>1. EvalInv => RateRespected
  BY DEF EvalInv
<1>2. QED
  BY <1>1, EvalInvariance, PTL

\* Whoever is limited has a matching rule whose quota its agent has used up.
THEOREM LimitIsEarned == EvalSpec => []LimitedOnlyWhenUsedUp
<1>1. EvalInv => LimitedOnlyWhenUsedUp
  BY DEF EvalInv
<1>2. QED
  BY <1>1, EvalInvariance, PTL

-----------------------------------------------------------------------------
(* VaultSession                                                             *)

\* What a call holds at each place, and which provider it is a call of.  A row
\* that was read, or written by a pairing, is the stored one or was missed.
PlacedAt(t) ==
    /\ task[t].pc \in {"have", "locked", "resolve", "psk", "saved", "closing"} =>
         task[t].sid # NoSession
    /\ task[t].pc \in {"idle", "load", "loaded", "validated", "upserted"} =>
         task[t].sid = NoSession
    /\ task[t].pc = "closing" => task[t].sid # current
    /\ task[t].pc \in {"validated", "upserted"} => provider = "onepassword"
    /\ task[t].pc \in {"psk", "saved"} => provider = "bitwarden"
    /\ task[t].for = "pair" /\ task[t].pc \in {"load", "loaded", "have"} =>
         provider = "bitwarden"
    /\ task[t].pc \in {"loaded", "psk", "saved"} =>
         task[t].pairing \in 1 .. pairings /\ (task[t].missed \/ task[t].pairing = row)

Placed == \A t \in Tasks : PlacedAt(t)

\* SessionCurrent and PairingRestorable are inductive with it.
VaultInv == TypeOK /\ Placed /\ SessionCurrent /\ PairingRestorable

\* The pairing that an object fetches from: FetchesFrom(s) is that of session[s].
Fetch(o) == IF o.client # 0 THEN o.client ELSE IF o.data = "full" THEN o.pairing ELSE 0

LEMMA FetchOf == \A s : FetchesFrom(s) = Fetch(session[s])
BY DEF FetchesFrom, Fetch

\* Objects that fetch from what the sessions do, as far as the map is concerned.
Mild(objects) ==
    /\ objects \in [Sessions -> Session]
    /\ current # NoSession => Fetch(objects[current]) = Fetch(session[current])

\* What a step leaves of the sessions it names: those in use are as it says.
LEMMA HeapIs ==
    ASSUME NEW objects \in [Sessions -> Session], NEW overtaken \in SUBSET Sessions,
           Heap(objects, overtaken)
    PROVE  /\ session' \in [Sessions -> Session] /\ late' \subseteq Sessions
           /\ \A s \in Sessions : s = current' => session'[s] = objects[s] /\ (s \in late' <=> s \in overtaken)
           /\ \A t \in Tasks, s \in Sessions : s = task'[t].sid => session'[s] = objects[s]
<1>1. NewSession(0, "none") \in Session
  BY PairingBound DEF NewSession, Session, Pairing, Data
<1>2. \A s \in Sessions : s = current' => ~Unused(s)'
  BY DEF Unused
<1>3. \A t \in Tasks, s \in Sessions : s = task'[t].sid => ~Unused(s)'
  BY DEF Unused
<1>4. /\ session' = [s \in Sessions |-> IF Unused(s)' THEN NewSession(0, "none") ELSE objects[s]]
      /\ late' = {s \in overtaken : ~Unused(s)'} 
  BY DEF Heap
<1>5. QED
  BY <1>1, <1>2, <1>3, <1>4

\* An object replaced by another is well typed, and the others are as before.
LEMMA Replaced ==
    ASSUME TypeOK, NEW s \in Sessions, NEW e \in Session
    PROVE  /\ [session EXCEPT ![s] = e] \in [Sessions -> Session]
           /\ [session EXCEPT ![s] = e][s] = e
           /\ \A r \in Sessions \ {s} : [session EXCEPT ![s] = e][r] = session[r]
BY DEF TypeOK

\* Locks and cooldowns have nothing to do with what is fetched from.
LEMMA Flags ==
    ASSUME TypeOK, NEW s \in Sessions, NEW b \in BOOLEAN, NEW c \in BOOLEAN
    PROVE  /\ Mild(session)
           /\ Mild([session EXCEPT ![s].lock = b])
           /\ Mild([session EXCEPT ![s].lock = c, ![s].cooldown = b])
           /\ Mild([session EXCEPT ![s].cooldown = b])
<1> DEFINE o == session[s]
           e1 == [o EXCEPT !.lock = b]
           e2 == [o EXCEPT !.lock = c, !.cooldown = b]
           e3 == [o EXCEPT !.cooldown = b]
<1>1. session \in [Sessions -> Session] /\ o \in Session /\ current \in Sessions \cup {NoSession}
  BY DEF TypeOK
<1>2. e1 \in Session /\ e2 \in Session /\ e3 \in Session
  BY <1>1 DEF Session
<1>3. \A e \in {e1, e2, e3} : Fetch(e) = Fetch(session[s])
  BY <1>1 DEF Session, Fetch
<1>4. /\ [session EXCEPT ![s].lock = b] = [session EXCEPT ![s] = e1]
      /\ [session EXCEPT ![s].lock = c, ![s].cooldown = b] = [session EXCEPT ![s] = e2]
      /\ [session EXCEPT ![s].cooldown = b] = [session EXCEPT ![s] = e3]
  BY <1>1
<1> HIDE DEF e1, e2, e3, o
<1>5. ASSUME NEW e \in {e1, e2, e3}
      PROVE  Mild([session EXCEPT ![s] = e])
  BY <1>1, <1>2, <1>3, <1>5, Replaced DEF Mild
<1>6. Mild(session)
  BY <1>1 DEF Mild
<1>7. QED
  BY <1>4, <1>5, <1>6

\* A step of one call that inserts no session: which objects it touches, and
\* what becomes of the map, of the row, of the others and of itself.
Footprint(objects, overtaken) ==
    /\ objects \in [Sessions -> Session] /\ overtaken \in SUBSET Sessions
    /\ Heap(objects, overtaken)

\* The session in the map is told of the row, or is late, or is being paired
\* again; otherwise the step has nothing to do with what it fetches from.
Serving(t, objects, overtaken) ==
    current' # NoSession =>
        \/ current' \in overtaken
        \/ Replacing(t, current)'
        \/ Fetch(objects[current']) \in {0, row'}
        \/ /\ row' = row /\ Fetch(objects[current']) = Fetch(session[current'])
           /\ current' \notin late /\ ~Replacing(t, current')

Stores(t) ==
    /\ provider' = provider /\ current' \in {current, NoSession}
    /\ pairings' \in Pairing /\ pairings <= pairings'
    /\ row' \in 0 .. pairings' /\ restorable' \in BOOLEAN
    /\ spoiled \subseteq spoiled' /\ spoiled' \subseteq 1 .. pairings'
    /\ provider = "bitwarden" /\ row' # 0 /\ ~restorable' =>
         \/ row' = row /\ ~restorable
         \/ task'[t].pc = "psk" /\ task'[t].pairing = row'
    /\ task[t].pc = "psk" => task[t].pairing \in spoiled' \/ restorable' \/ row' = 0

Moves(t) ==
    /\ task' \in [Tasks -> Task]
    /\ \A q \in Tasks \ {t} :
         /\ task'[q].pc = task[q].pc /\ task'[q].for = task[q].for /\ task'[q].sid = task[q].sid
         /\ task'[q].pairing = task[q].pairing
         /\ task[q].pc \in {"loaded", "psk", "saved"} /\ (task[q].missed \/ row' # row) =>
              task'[q].missed

Steps(t) == \E objects, overtaken : /\ Footprint(objects, overtaken)
                                    /\ Serving(t, objects, overtaken)
                                    /\ Stores(t) /\ Moves(t) /\ PlacedAt(t)'

Places == {"idle", "load", "loaded", "have", "locked", "resolve",
           "validated", "upserted", "psk", "saved", "closing", "deleting"}

LEMMA GoTo ==
    ASSUME TypeOK, NEW t \in Tasks, NEW pc \in Places, Go(t, pc)
    PROVE  /\ task' \in [Tasks -> Task]
           /\ task'[t].pc = pc /\ task'[t].for = task[t].for /\ task'[t].sid = task[t].sid
           /\ task'[t].pairing = task[t].pairing /\ task'[t].missed = task[t].missed
           /\ \A q \in Tasks \ {t} : task'[q] = task[q]
<1>1. task[t] \in Task
  BY DEF TypeOK
<1>2. [task[t] EXCEPT !.pc = pc] \in Task
  BY <1>1 DEF Task, Places
<1>3. QED
  BY <1>1, <1>2 DEF TypeOK, Go, Task

LEMMA IsDone ==
    ASSUME TypeOK, NEW t \in Tasks, Done(t)
    PROVE  /\ task' \in [Tasks -> Task]
           /\ task'[t] = Idle /\ Idle.pc = "idle" /\ Idle.for = "request" /\ Idle.sid = NoSession
           /\ \A q \in Tasks \ {t} : task'[q] = task[q]
<1>1. Idle \in Task /\ Idle.pc = "idle" /\ Idle.for = "request" /\ Idle.sid = NoSession
  BY PairingBound DEF Idle, Task, Pairing, Data
<1>2. QED
  BY <1>1 DEF TypeOK, Done

LEMMA OthersMiss ==
    ASSUME TypeOK, NEW t \in Tasks
    PROVE  /\ RowChanges(t) \in [Tasks -> Task] /\ RowChanges(t)[t] = task[t]
           /\ \A q \in Tasks \ {t} :
                /\ RowChanges(t)[q].pc = task[q].pc /\ RowChanges(t)[q].for = task[q].for
                /\ RowChanges(t)[q].sid = task[q].sid /\ RowChanges(t)[q].pairing = task[q].pairing
                /\ task[q].pc \in {"loaded", "psk", "saved"} => RowChanges(t)[q].missed
<1>1. \A q \in Tasks : task[q] \in Task
  BY DEF TypeOK
<1>2. \A q \in Tasks : /\ [task[q] EXCEPT !.missed = TRUE] \in Task
                       /\ [task[q] EXCEPT !.missed = TRUE].pc = task[q].pc
                       /\ [task[q] EXCEPT !.missed = TRUE].for = task[q].for
                       /\ [task[q] EXCEPT !.missed = TRUE].sid = task[q].sid
                       /\ [task[q] EXCEPT !.missed = TRUE].pairing = task[q].pairing
                       /\ [task[q] EXCEPT !.missed = TRUE].missed
  BY <1>1 DEF Task
<1>3. QED
  BY <1>1, <1>2 DEF RowChanges

\* The step of a call that moves nobody else and leaves the row alone.
LEMMA Alone ==
    ASSUME VaultInv, NEW t \in Tasks, Done(t) \/ \E pc \in Places : Go(t, pc), row' = row
    PROVE  Moves(t)
<1>1. TypeOK
  BY DEF VaultInv
<1>2. task' \in [Tasks -> Task] /\ \A q \in Tasks \ {t} : task'[q] = task[q]
  BY <1>1, GoTo, IsDone
<1>3. QED
  BY <1>2 DEF Moves

LEMMA QuietStores ==
    ASSUME VaultInv, NEW t \in Tasks, task[t].pc # "psk",
           UNCHANGED <<provider, row, restorable, pairings, spoiled>>,
           current' \in {current, NoSession}
    PROVE  Stores(t)
BY DEF Stores, VaultInv, TypeOK, Pairing

\* A step that leaves map, row and all other sessions alone.
LEMMA QuietStep ==
    ASSUME VaultInv, NEW t \in Tasks, Moves(t), PlacedAt(t)', NEW objects, Mild(objects),
           Heap(objects, late),
           UNCHANGED <<provider, row, restorable, pairings, current, spoiled>>,
           task[t].pc \notin {"psk", "saved", "upserted"}
    PROVE  Steps(t)
<1>1. Stores(t)
  BY QuietStores
<1>2. Footprint(objects, late)
  BY DEF VaultInv, TypeOK, Mild, Footprint
<1>3. Serving(t, objects, late)
  BY DEF Serving, Mild, Replacing
<1>4. QED
  BY <1>1, <1>2, <1>3 DEF Steps

\* Calls that ask, answer or wait: what their session fetches from stays.
LEMMA CallsAsk ==
    ASSUME VaultInv, NEW t \in Tasks,
           \/ NotPaired(t) \/ Answered(t) \/ Ask(t) \/ Lock(t) \/ Restored(t) \/ NotRestored(t)
           \/ Resolved(t, TRUE) \/ Resolved(t, FALSE)
    PROVE  Steps(t)
<1> DEFINE s == task[t].sid
<1>1. /\ TypeOK /\ s \in Sessions \cup {NoSession} /\ NoSession \notin Sessions
      /\ session \in [Sessions -> Session] /\ current \in Sessions \cup {NoSession}
  BY PairingBound DEF VaultInv, TypeOK, Task
<1>2. UNCHANGED <<provider, row, restorable, pairings, current, spoiled>>
  BY DEF NotPaired, Answered, Ask, Lock, Restored, NotRestored, Resolved
<1>3. task[t].pc \in {"load", "have", "locked", "resolve"}
  BY DEF NotPaired, Answered, Ask, Lock, Restored, NotRestored, Resolved
<1>4. task[t].pc # "load" => s \in Sessions
  BY <1>1, <1>3 DEF VaultInv, Placed, PlacedAt
<1>5. ASSUME Done(t) PROVE Moves(t) /\ PlacedAt(t)'
  BY <1>1, <1>2, <1>5, IsDone, Alone DEF PlacedAt
<1>6. ASSUME NEW pc \in {"resolve", "locked"}, Go(t, pc), task[t].pc # "load"
      PROVE  Moves(t) /\ PlacedAt(t)'
  <2>1. task'[t].pc = pc /\ task'[t].sid = s
    BY <1>1, <1>6, GoTo DEF Places
  <2>2. QED
    BY <1>1, <1>2, <1>4, <1>6, <2>1, Alone DEF PlacedAt, Places
<1>7. Mild(session)
  BY <1>1 DEF Mild
<1>8. CASE NotPaired(t) \/ Answered(t)
  <2>1. Done(t) /\ Heap(session, late)
    BY <1>8 DEF NotPaired, Answered
  <2>2. QED
    BY <1>2, <1>3, <1>5, <1>7, <2>1, QuietStep
<1>9. CASE Ask(t)
  <2>1. Go(t, "resolve") /\ task[t].pc = "have" /\ Heap(session, late)
    BY <1>9 DEF Ask
  <2>2. QED
    BY <1>2, <1>3, <1>6, <1>7, <2>1, QuietStep
<1>10. CASE Lock(t)
  <2> DEFINE objects == [session EXCEPT ![s].lock = TRUE]
  <2>1. Go(t, "locked") /\ task[t].pc = "have" /\ Heap(objects, late)
    BY <1>10 DEF Lock
  <2>2. Mild(objects)
    BY <1>1, <1>4, <2>1, Flags
  <2> HIDE DEF objects
  <2>3. QED
    BY <1>2, <1>3, <1>6, <2>1, <2>2, QuietStep
<1>11. CASE Restored(t)
  <2> DEFINE o == session[s]
             e == [o EXCEPT !.lock = FALSE, !.client = IF o.client = 0 THEN o.pairing ELSE o.client]
             objects == [session EXCEPT ![s] = e]
  <2>1. /\ Go(t, "resolve") /\ task[t].pc = "locked"
        /\ o.client = 0 => o.data = "full"
        /\ Heap([session EXCEPT ![s].lock = FALSE,
                                ![s].client = IF @ = 0 THEN o.pairing ELSE @], late)
    BY <1>11 DEF Restored, Using
  <2>2. s \in Sessions /\ o \in Session
    BY <1>1, <1>4, <2>1
  <2>3. e \in Session /\ Fetch(e) = Fetch(o)
    BY <2>1, <2>2 DEF Session, Fetch
  <2>4. [session EXCEPT ![s].lock = FALSE, ![s].client = IF @ = 0 THEN o.pairing ELSE @] = objects
    BY <1>1, <2>2 DEF Session
  <2> HIDE DEF e
  <2>5. Mild(objects)
    BY <1>1, <2>2, <2>3, Replaced DEF Mild
  <2>6. Heap(objects, late)
    BY <2>1, <2>4
  <2> HIDE DEF objects
  <2>7. QED
    BY <1>2, <1>3, <1>6, <2>1, <2>5, <2>6, QuietStep
<1>12. CASE NotRestored(t)
  <2> DEFINE b == Using(t).data # "none"
             objects == [session EXCEPT ![s].lock = FALSE, ![s].cooldown = b]
  <2>1. Done(t) /\ Heap(objects, late) /\ task[t].pc = "locked"
    BY <1>12 DEF NotRestored
  <2>2. b \in BOOLEAN
    OBVIOUS
  <2> HIDE DEF b
  <2>3. Mild(objects)
    BY <1>1, <1>4, <2>1, <2>2, Flags
  <2> HIDE DEF objects
  <2>4. QED
    BY <1>2, <1>3, <1>5, <2>1, <2>3, QuietStep
<1>13. ASSUME NEW failed \in BOOLEAN, Resolved(t, failed)
       PROVE  Steps(t)
  <2> DEFINE objects == [session EXCEPT ![s].cooldown = failed]
  <2>1. Done(t) /\ Heap(objects, late) /\ task[t].pc = "resolve"
    BY <1>13 DEF Resolved
  <2>2. Mild(objects)
    BY <1>1, <1>4, <2>1, Flags
  <2> HIDE DEF objects
  <2>3. QED
    BY <1>2, <1>3, <1>5, <2>1, <2>2, QuietStep
<1>14. QED
  BY <1>8, <1>9, <1>10, <1>11, <1>12, <1>13

\* A client is put into a session that a pairing has stored, or is closed with
\* one that has left the map.
LEMMA CallsConnect ==
    ASSUME VaultInv, NEW t \in Tasks, KeepClient(t) \/ CloseClient(t)
    PROVE  Steps(t)
<1> DEFINE s == task[t].sid
           o == session[s]
<1>1. /\ TypeOK /\ s \in Sessions \cup {NoSession} /\ NoSession \notin Sessions
      /\ session \in [Sessions -> Session] /\ late \in SUBSET Sessions /\ task[t] \in Task
      /\ pairings \in Nat /\ pairings <= MaxPairings /\ MaxPairings \in Nat
  BY PairingBound DEF VaultInv, TypeOK, Task, Pairing
<1>2. UNCHANGED <<provider, row, restorable, pairings, current, spoiled>>
  BY DEF KeepClient, CloseClient
<1>3. task[t].pc \in {"saved", "closing"}
  BY DEF KeepClient, CloseClient
<1>4. s \in Sessions /\ o \in Session
  BY <1>1, <1>3 DEF VaultInv, Placed, PlacedAt
<1>5. Stores(t)
  BY <1>2, <1>3, QuietStores
<1>6. CASE KeepClient(t)
  <2> DEFINE e == [o EXCEPT !.client = task[t].pairing, !.cooldown = FALSE]
             objects == [session EXCEPT ![s] = e]
             overtaken == IF task[t].missed THEN late \cup {s} ELSE late \ {s}
  <2>1. /\ Done(t) /\ task[t].pc = "saved"
        /\ Heap([session EXCEPT ![s].client = task[t].pairing, ![s].cooldown = FALSE], overtaken)
    BY <1>6 DEF KeepClient
  <2>2. task[t].pairing \in 1 .. pairings /\ (task[t].missed \/ task[t].pairing = row)
    BY <2>1 DEF VaultInv, Placed, PlacedAt
  <2>3. task[t].pairing \in Pairing /\ task[t].pairing # 0
    BY <1>1, <2>2 DEF Pairing
  <2>4. e \in Session /\ Fetch(e) = task[t].pairing
    BY <1>4, <2>3 DEF Session, Fetch
  <2>5. [session EXCEPT ![s].client = task[t].pairing, ![s].cooldown = FALSE] = objects
    BY <1>1, <1>4
  <2> HIDE DEF e
  <2>6. /\ objects \in [Sessions -> Session] /\ objects[s] = e
        /\ \A r \in Sessions \ {s} : objects[r] = session[r]
    BY <1>1, <1>4, <2>4, Replaced
  <2>7. Heap(objects, overtaken)
    BY <2>1, <2>5
  <2> HIDE DEF objects
  <2>8. Footprint(objects, overtaken)
    BY <1>1, <1>4, <2>6, <2>7 DEF Footprint
  <2>9. Serving(t, objects, overtaken)
    <3> SUFFICES ASSUME current' # NoSession, current' \notin overtaken,
                        Fetch(objects[current']) \notin {0, row'}
                 PROVE  /\ row' = row /\ Fetch(objects[current']) = Fetch(session[current'])
                        /\ current' \notin late /\ ~Replacing(t, current')
      BY DEF Serving
    <3>1. current' = current /\ current \in Sessions /\ row' = row
      BY <1>1, <1>2 DEF TypeOK
    <3>2. current # s
      BY <1>2, <2>2, <2>4, <2>6, <3>1
    <3>3. QED
      BY <2>1, <2>6, <3>1, <3>2 DEF Replacing
  <2>10. Moves(t) /\ PlacedAt(t)'
    BY <1>1, <1>2, <2>1, IsDone, Alone DEF PlacedAt
  <2>11. QED
    BY <1>5, <2>8, <2>9, <2>10 DEF Steps
<1>7. CASE CloseClient(t)
  <2> DEFINE e == [o EXCEPT !.client = 0]
             objects == [session EXCEPT ![s] = e]
  <2>1. Go(t, "deleting") /\ task[t].pc = "closing" /\ Heap([session EXCEPT ![s].client = 0], late)
    BY <1>7 DEF CloseClient
  <2>2. s # current
    BY <2>1 DEF VaultInv, Placed, PlacedAt
  <2>3. e \in Session
    BY <1>1, <1>4 DEF Session, Pairing
  <2>4. [session EXCEPT ![s].client = 0] = objects
    BY <1>1, <1>4
  <2> HIDE DEF e
  <2>5. /\ objects \in [Sessions -> Session] /\ \A r \in Sessions \ {s} : objects[r] = session[r]
    BY <1>1, <1>4, <2>3, Replaced
  <2>6. Heap(objects, late)
    BY <2>1, <2>4
  <2> HIDE DEF objects
  <2>7. Mild(objects)
    BY <1>1, <2>2, <2>5 DEF Mild, TypeOK
  <2>8. task'[t].pc = "deleting"
    BY <1>1, <2>1, GoTo DEF Places
  <2>9. Moves(t) /\ PlacedAt(t)'
    BY <1>2, <2>1, <2>8, Alone DEF PlacedAt, Places
  <2>10. QED
    BY <1>2, <2>1, <2>6, <2>7, <2>9, QuietStep
<1>8. QED
  BY <1>6, <1>7

\* Calls that begin, and a row that is read.
LEMMA CallsBegin ==
    ASSUME VaultInv, NEW t \in Tasks,
           Start(t, "request") \/ Start(t, "pair") \/ ReadRow(t) \/ Validated(t)
    PROVE  Steps(t)
<1>1. /\ TypeOK /\ task[t] \in Task /\ session \in [Sessions -> Session]
      /\ current \in Sessions \cup {NoSession} /\ row \in Nat /\ pairings \in Nat /\ row <= pairings
      /\ row \in Pairing /\ NoSession \notin Sessions
  BY PairingBound DEF VaultInv, TypeOK, Pairing
<1>2. UNCHANGED <<provider, row, restorable, pairings, current, spoiled>> /\ Heap(session, late)
  BY DEF Start, ReadRow, Validated
<1>3. task[t].pc \notin {"psk", "saved", "upserted"}
  BY DEF Start, ReadRow, Validated
<1>4. Mild(session)
  BY <1>1 DEF Mild
<1>5. ASSUME NEW k \in Task, task' = [task EXCEPT ![t] = k]
      PROVE  Moves(t) /\ task'[t] = k
  <2>1. task' \in [Tasks -> Task] /\ task'[t] = k /\ \A q \in Tasks \ {t} : task'[q] = task[q]
    BY <1>1, <1>5 DEF TypeOK
  <2>2. QED
    BY <1>2, <1>5, <2>1 DEF Moves
<1>6. ASSUME NEW for \in {"request", "pair"}, Start(t, for)
      PROVE  Steps(t)
  <2> DEFINE pc == IF current = NoSession THEN "load" ELSE "have"
             k == [task[t] EXCEPT !.for = for, !.sid = current, !.pc = pc]
  <2>1. k \in Task /\ k.sid = current /\ k.for = for /\ k.pc = pc
    BY <1>1 DEF Task
  <2>2. task' = [task EXCEPT ![t] = k] /\ (for = "pair" => provider = "bitwarden")
    BY <1>1, <1>6 DEF Start, TypeOK
  <2> HIDE DEF k
  <2>3. Moves(t) /\ task'[t] = k
    BY <1>5, <2>1, <2>2
  <2>4. PlacedAt(t)'
    BY <1>1, <1>2, <2>1, <2>2, <2>3 DEF PlacedAt
  <2>5. QED
    BY <1>2, <1>3, <1>4, <2>3, <2>4, QuietStep
<1>7. CASE ReadRow(t)
  <2> DEFINE d == IF provider = "onepassword" \/ restorable THEN "full" ELSE "fingerprint"
             k == [task[t] EXCEPT !.pc = "loaded", !.pairing = row, !.data = d]
  <2>1. k \in Task /\ k.sid = task[t].sid /\ k.for = task[t].for /\ k.pc = "loaded" /\ k.pairing = row
    BY <1>1 DEF Task, Data
  <2>2. task' = [task EXCEPT ![t] = k] /\ task[t].pc = "load" /\ row # 0
    BY <1>1, <1>7 DEF ReadRow, TypeOK
  <2> HIDE DEF k
  <2>3. Moves(t) /\ task'[t] = k
    BY <1>5, <2>1, <2>2
  <2>4. task[t].sid = NoSession /\ (task[t].for = "pair" => provider = "bitwarden")
    BY <2>2 DEF VaultInv, Placed, PlacedAt
  <2>5. PlacedAt(t)'
    BY <1>1, <1>2, <2>1, <2>2, <2>3, <2>4 DEF PlacedAt
  <2>6. QED
    BY <1>2, <1>3, <1>4, <2>3, <2>5, QuietStep
<1>8. CASE Validated(t)
  <2> DEFINE k == [task[t] EXCEPT !.pc = "validated", !.for = "pair"]
  <2>1. k \in Task /\ k.sid = task[t].sid /\ k.for = "pair" /\ k.pc = "validated"
    BY <1>1 DEF Task
  <2>2. task' = [task EXCEPT ![t] = k] /\ task[t].pc = "idle" /\ provider = "onepassword"
    BY <1>1, <1>8 DEF Validated, TypeOK
  <2> HIDE DEF k
  <2>3. Moves(t) /\ task'[t] = k
    BY <1>5, <2>1, <2>2
  <2>4. task[t].sid = NoSession
    BY <2>2 DEF VaultInv, Placed, PlacedAt
  <2>5. PlacedAt(t)'
    BY <1>1, <1>2, <2>1, <2>2, <2>3, <2>4 DEF PlacedAt
  <2>6. QED
    BY <1>2, <1>3, <1>4, <2>3, <2>5, QuietStep
<1>9. QED
  BY <1>6, <1>7, <1>8

\* Calls that write the row.
LEMMA CallsStore ==
    ASSUME VaultInv, NEW t \in Tasks,
           UpsertToken(t) \/ UpsertIdentity(t) \/ Save(t) \/ DeleteRow(t)
    PROVE  Steps(t)
<1>1. /\ TypeOK /\ late \in SUBSET Sessions /\ task[t] \in Task /\ MaxPairings \in Nat
      /\ current \in Sessions \cup {NoSession} /\ row \in Nat /\ pairings \in Nat /\ row <= pairings
      /\ pairings <= MaxPairings /\ spoiled \subseteq 1 .. pairings /\ restorable \in BOOLEAN
      /\ NoSession \notin Sessions /\ session \in [Sessions -> Session]
  BY PairingBound DEF VaultInv, TypeOK, Pairing
<1>2. UNCHANGED <<provider, current, spoiled>>
  BY DEF UpsertToken, UpsertIdentity, Save, DeleteRow
<1>3. ASSUME NEW k \in Task,
             \/ task' = [RowChanges(t) EXCEPT ![t] = k]
             \/ task' = [task EXCEPT ![t] = k] /\ row' = row
      PROVE  Moves(t) /\ task'[t] = k
  <2>1. CASE task' = [RowChanges(t) EXCEPT ![t] = k]
    <3>1. task' \in [Tasks -> Task] /\ task'[t] = k /\ \A q \in Tasks \ {t} : task'[q] = RowChanges(t)[q]
      BY <1>1, <1>3, <2>1, OthersMiss
    <3>2. QED
      BY <1>1, <1>3, <3>1, OthersMiss DEF Moves
  <2>2. CASE task' = [task EXCEPT ![t] = k] /\ row' = row
    <3>1. task' \in [Tasks -> Task] /\ task'[t] = k /\ \A q \in Tasks \ {t} : task'[q] = task[q]
      BY <1>1, <1>3, <2>2 DEF TypeOK
    <3>2. QED
      BY <1>3, <2>2, <3>1 DEF Moves
  <2>3. QED
    BY <1>3, <2>1, <2>2
<1>4. RowChanges(t) \in [Tasks -> Task] /\ RowChanges(t)[t] = task[t]
  BY <1>1, OthersMiss
<1>5. ASSUME NEW overtaken \in SUBSET Sessions, Heap(session, overtaken)
      PROVE  Footprint(session, overtaken)
  BY <1>1, <1>5 DEF Footprint
<1>6. CASE UpsertToken(t)
  <2> DEFINE k == [task[t] EXCEPT !.pc = "upserted"]
  <2>1. k \in Task /\ k.sid = task[t].sid /\ k.for = task[t].for /\ k.pc = "upserted"
    BY <1>1 DEF Task
  <2>2. /\ task' = [RowChanges(t) EXCEPT ![t] = k] /\ task[t].pc = "validated"
        /\ pairings < MaxPairings /\ pairings' = pairings + 1 /\ row' = pairings + 1
        /\ restorable' = restorable /\ Heap(session, late)
    BY <1>4, <1>6 DEF UpsertToken
  <2> HIDE DEF k
  <2>3. Moves(t) /\ task'[t] = k
    BY <1>3, <2>1, <2>2
  <2>4. task[t].sid = NoSession /\ provider = "onepassword"
    BY <2>2 DEF VaultInv, Placed, PlacedAt
  <2>5. PlacedAt(t)'
    BY <1>2, <2>1, <2>3, <2>4 DEF PlacedAt
  <2>6. Serving(t, session, late)
    BY <2>1, <2>3 DEF Serving, Replacing
  <2>7. Stores(t)
    <3>1. pairings' \in Pairing /\ pairings <= pairings' /\ row' \in 0 .. pairings'
          /\ spoiled \subseteq 1 .. pairings'
      BY <1>1, <2>2 DEF Pairing
    <3>2. QED
      BY <1>1, <1>2, <2>2, <2>4, <3>1 DEF Stores
  <2>8. QED
    BY <1>1, <1>5, <2>2, <2>3, <2>5, <2>6, <2>7 DEF Steps
<1>7. CASE UpsertIdentity(t)
  <2> DEFINE k == [task[t] EXCEPT !.pc = "psk", !.pairing = pairings + 1]
             late1 == late \cup ({current} \ {NoSession, task[t].sid})
  <2>1. /\ task[t].pc = "have" /\ task[t].for = "pair" /\ pairings < MaxPairings
        /\ pairings' = pairings + 1 /\ row' = pairings + 1 /\ restorable' = FALSE
        /\ task' = [RowChanges(t) EXCEPT ![t] = k]
        /\ Heap(session, late1)
    BY <1>4, <1>7 DEF UpsertIdentity
  <2>2. task[t].sid # NoSession /\ provider = "bitwarden"
    BY <2>1 DEF VaultInv, Placed, PlacedAt
  <2>3. pairings + 1 \in Pairing
    BY <1>1, <2>1 DEF Pairing
  <2>4. k \in Task /\ k.sid = task[t].sid /\ k.for = "pair" /\ k.pc = "psk" /\ k.pairing = pairings + 1
    BY <1>1, <2>1, <2>3 DEF Task
  <2> HIDE DEF k
  <2>5. Moves(t) /\ task'[t] = k
    BY <1>3, <2>1, <2>4
  <2>6. PlacedAt(t)'
    BY <1>1, <1>2, <2>1, <2>2, <2>4, <2>5 DEF PlacedAt
  <2>7. Serving(t, session, late1)
    BY <1>2, <2>4, <2>5 DEF Serving, Replacing
  <2>8. Stores(t)
    <3>1. pairings' \in Pairing /\ row' \in 0 .. pairings' /\ spoiled \subseteq 1 .. pairings'
          /\ pairings <= pairings'
      BY <1>1, <2>1, <2>3
    <3>2. restorable' \in BOOLEAN
      BY <2>1, Zenon
    <3>3. task'[t].pc = "psk" /\ task'[t].pairing = row' /\ task[t].pc = "have"
      BY <2>1, <2>4, <2>5
    <3>4. QED
      BY <1>1, <1>2, <3>1, <3>2, <3>3 DEF Stores
  <2>9. late1 \in SUBSET Sessions
    BY <1>1
  <2>10. QED
    BY <1>5, <2>1, <2>5, <2>6, <2>7, <2>8, <2>9 DEF Steps
<1>8. CASE Save(t)
  <2> DEFINE m == task[t].missed /\ row = 0
             k == [task[t] EXCEPT !.pc = "saved", !.missed = m]
             changed == row # 0 /\ row # task[t].pairing
             late1 == late \cup IF changed THEN {current} \ {NoSession, task[t].sid} ELSE {}
             f == IF changed THEN RowChanges(t) ELSE task
  <2>1. /\ task[t].pc = "psk"
        /\ IF row = 0 THEN UNCHANGED <<row, restorable>> ELSE row' = task[t].pairing /\ restorable' = TRUE
        /\ pairings' = pairings /\ Heap(session, late1)
        /\ task' = [f EXCEPT ![t] = k]
    BY <1>1, <1>4, <1>8 DEF Save, TypeOK
  <2>2. /\ task[t].sid # NoSession /\ provider = "bitwarden"
        /\ task[t].pairing \in 1 .. pairings /\ (task[t].missed \/ task[t].pairing = row)
    BY <2>1 DEF VaultInv, Placed, PlacedAt
  <2>3. m \in BOOLEAN /\ (row' # 0 => row' = task[t].pairing) /\ (m \/ task[t].pairing = row')
    BY <1>1, <2>1, <2>2 DEF Task
  <2> HIDE DEF m
  <2>4. k \in Task /\ k.sid = task[t].sid /\ k.for = task[t].for /\ k.pc = "saved"
        /\ k.pairing = task[t].pairing /\ k.missed = m
    BY <1>1, <2>3 DEF Task
  <2> HIDE DEF k
  <2>5. Moves(t) /\ task'[t] = k
    <3>1. CASE changed
      BY <1>3, <2>1, <2>4, <3>1
    <3>2. CASE ~changed
      BY <1>3, <2>1, <2>4, <3>2
    <3>3. QED
      BY <3>1, <3>2
  <2>6. PlacedAt(t)'
    BY <1>2, <2>1, <2>2, <2>3, <2>4, <2>5 DEF PlacedAt
  <2>7. Serving(t, session, late1)
    <3> SUFFICES ASSUME current' # NoSession, current' \notin late1, ~Replacing(t, current)'
                 PROVE  /\ row' = row /\ current' \notin late /\ ~Replacing(t, current')
      BY DEF Serving
    <3>1. current' = current /\ current # task[t].sid
      BY <1>2, <2>4, <2>5 DEF Replacing
    <3>2. ~changed
      BY <3>1
    <3>3. QED
      BY <2>1, <2>2, <3>1, <3>2 DEF Replacing
  <2>8. Stores(t)
    <3>1. pairings' \in Pairing /\ row' \in 0 .. pairings' /\ pairings' = pairings
      BY <1>1, <2>1, <2>2 DEF Pairing
    <3>2. restorable' \in BOOLEAN /\ (row' = 0 \/ restorable')
      BY <1>1, <2>1
    <3>3. QED
      BY <1>1, <1>2, <2>1, <3>1, <3>2 DEF Stores
  <2>9. late1 \in SUBSET Sessions
    BY <1>1
  <2>10. QED
    BY <1>5, <2>1, <2>5, <2>6, <2>7, <2>8, <2>9 DEF Steps
<1>9. CASE DeleteRow(t)
  <2> DEFINE late1 == late \cup ({current} \ {NoSession})
  <2>1. /\ task[t].pc = "deleting" /\ row' = 0 /\ restorable' = FALSE
        /\ task' = [RowChanges(t) EXCEPT ![t] = Idle] /\ pairings' = pairings
        /\ Heap(session, late1)
    BY <1>4, <1>9 DEF DeleteRow
  <2>2. Idle \in Task /\ Idle.sid = NoSession /\ Idle.pc = "idle" /\ Idle.for = "request"
    BY PairingBound DEF Idle, Task, Pairing, Data
  <2>3. Moves(t) /\ task'[t] = Idle
    BY <1>3, <2>1, <2>2
  <2>4. PlacedAt(t)'
    BY <2>2, <2>3 DEF PlacedAt
  <2>5. Serving(t, session, late1)
    BY <1>2 DEF Serving
  <2>6. Stores(t)
    <3>1. pairings' \in Pairing /\ row' \in 0 .. pairings' /\ pairings' = pairings
      BY <1>1, <2>1 DEF Pairing
    <3>2. restorable' \in BOOLEAN
      BY <2>1, Zenon
    <3>3. task[t].pc = "deleting" /\ row' = 0
      BY <2>1
    <3>4. QED
      BY <1>1, <1>2, <3>1, <3>2, <3>3 DEF Stores
  <2>7. late1 \in SUBSET Sessions
    BY <1>1
  <2>8. QED
    BY <1>5, <2>1, <2>3, <2>4, <2>5, <2>6, <2>7 DEF Steps
<1>10. QED
  BY <1>6, <1>7, <1>8, <1>9

\* Calls that end without having changed the row, or take the session away.
LEMMA CallsEnd ==
    ASSUME VaultInv, NEW t \in Tasks,
           DropSession(t) \/ SaveFails(t) \/ PairFails(t) \/ Disconnect(t) \/ Dropped(t)
    PROVE  Steps(t)
<1>1. /\ TypeOK /\ late \in SUBSET Sessions /\ task[t] \in Task /\ pairings \in Pairing
      /\ current \in Sessions \cup {NoSession} /\ pairings \in Nat /\ row \in 0 .. pairings
      /\ spoiled \subseteq 1 .. pairings /\ restorable \in BOOLEAN /\ NoSession \notin Sessions
      /\ task[t].sid \in Sessions \cup {NoSession} /\ session \in [Sessions -> Session]
  BY PairingBound DEF VaultInv, TypeOK, Pairing, Task
<1>2. UNCHANGED <<provider, row, restorable, pairings>>
  BY DEF DropSession, SaveFails, PairFails, Disconnect, Dropped
<1>3. ASSUME Done(t) PROVE Moves(t) /\ PlacedAt(t)'
  BY <1>1, <1>2, <1>3, IsDone, Alone DEF PlacedAt
<1>4. task[t].pc = "psk" =>
        /\ task[t].pairing \in 1 .. pairings /\ task[t].sid # NoSession /\ provider = "bitwarden"
        /\ task[t].missed \/ task[t].pairing = row
  BY DEF VaultInv, Placed, PlacedAt
<1>5. ASSUME spoiled' = IF task[t].pc = "psk" THEN spoiled \cup {task[t].pairing} ELSE spoiled,
             current' \in {current, NoSession}
      PROVE  Stores(t)
  <2>1. /\ spoiled \subseteq spoiled' /\ spoiled' \subseteq 1 .. pairings
        /\ task[t].pc = "psk" => task[t].pairing \in spoiled'
    BY <1>1, <1>4, <1>5
  <2>2. QED
    BY <1>1, <1>2, <1>5, <2>1 DEF Stores
<1>6. ASSUME NEW overtaken \in SUBSET Sessions, Heap(session, overtaken)
      PROVE  Footprint(session, overtaken)
  BY <1>1, <1>6 DEF Footprint
<1>7. CASE DropSession(t)
  <2>1. /\ Done(t) /\ current' = NoSession /\ spoiled' = spoiled /\ Heap(session, late)
        /\ task[t].pc = "upserted"
    BY <1>7 DEF DropSession
  <2>2. Serving(t, session, late)
    BY <2>1 DEF Serving
  <2>3. Stores(t)
    BY <1>5, <2>1
  <2>4. QED
    BY <1>1, <1>3, <1>6, <2>1, <2>2, <2>3 DEF Steps
<1>8. CASE SaveFails(t)
  <2>1. /\ Go(t, "saved") /\ current' = current /\ spoiled' = spoiled \cup {task[t].pairing}
        /\ Heap(session, late) /\ task[t].pc = "psk"
    BY <1>8 DEF SaveFails
  <2>2. /\ task'[t].pc = "saved" /\ task'[t].sid = task[t].sid /\ task'[t].pairing = task[t].pairing
        /\ task'[t].missed = task[t].missed
    BY <1>1, <2>1, GoTo DEF Places
  <2>3. Serving(t, session, late)
    BY <1>2, <2>1, <2>2 DEF Serving, Replacing
  <2>4. Stores(t)
    BY <1>5, <2>1
  <2>5. Moves(t)
    BY <1>2, <2>1, Alone DEF Places
  <2>6. PlacedAt(t)'
    BY <1>2, <1>4, <2>1, <2>2 DEF PlacedAt
  <2>7. QED
    BY <1>1, <1>6, <2>1, <2>3, <2>4, <2>5, <2>6 DEF Steps
<1>9. CASE PairFails(t)
  <2> DEFINE late1 == late \cup {task[t].sid}
  <2>1. /\ Done(t) /\ current' = current /\ spoiled' = spoiled \cup {task[t].pairing}
        /\ Heap(session, late1) /\ task[t].pc = "psk"
    BY <1>9 DEF PairFails
  <2>2. late1 \in SUBSET Sessions
    BY <1>1, <1>4, <2>1
  <2>3. Serving(t, session, late1)
    BY <1>2, <2>1 DEF Serving, Replacing
  <2>4. Stores(t)
    BY <1>5, <2>1
  <2>5. QED
    BY <1>3, <1>6, <2>1, <2>2, <2>3, <2>4 DEF Steps
<1>10. CASE Disconnect(t)
  <2> DEFINE pc == IF provider = "bitwarden" /\ current # NoSession THEN "closing" ELSE "deleting"
             k == [task[t] EXCEPT !.pc = pc, !.sid = current]
  <2>1. /\ task' = [task EXCEPT ![t] = k] /\ current' = NoSession /\ spoiled' = spoiled
        /\ Heap(session, late) /\ task[t].pc = "idle"
    BY <1>1, <1>10 DEF Disconnect, TypeOK
  <2>2. k \in Task /\ k.pc = pc /\ k.sid = current
    BY <1>1 DEF Task
  <2> HIDE DEF k
  <2>3. task' \in [Tasks -> Task] /\ task'[t] = k /\ \A q \in Tasks \ {t} : task'[q] = task[q]
    BY <1>1, <2>1, <2>2 DEF TypeOK
  <2>4. Serving(t, session, late)
    BY <2>1 DEF Serving
  <2>5. Stores(t)
    BY <1>5, <2>1
  <2>6. Moves(t)
    BY <1>2, <2>3 DEF Moves
  <2>7. PlacedAt(t)'
    BY <1>2, <2>1, <2>2, <2>3 DEF PlacedAt
  <2>8. QED
    BY <1>1, <1>6, <2>1, <2>4, <2>5, <2>6, <2>7 DEF Steps
<1>11. CASE Dropped(t)
  <2> DEFINE objects == IF task[t].pc = "locked" THEN [session EXCEPT ![task[t].sid].lock = FALSE] ELSE session
             late1 == late \cup {s \in Sessions : Replacing(t, s)}
  <2>1. /\ Done(t) /\ current' = current /\ Heap(objects, late1)
        /\ spoiled' = IF task[t].pc = "psk" THEN spoiled \cup {task[t].pairing} ELSE spoiled
    BY <1>11 DEF Dropped
  <2>2. Mild(objects)
    <3>1. Mild(session)
      BY <1>1 DEF Mild
    <3>2. task[t].pc = "locked" => task[t].sid \in Sessions
      BY <1>1 DEF VaultInv, Placed, PlacedAt
    <3>3. QED
      BY <1>1, <3>1, <3>2, Flags
  <2> HIDE DEF objects
  <2>3. late1 \in SUBSET Sessions /\ late \subseteq late1
    BY <1>1
  <2>4. Footprint(objects, late1)
    BY <2>1, <2>2, <2>3 DEF Footprint, Mild
  <2>5. Serving(t, objects, late1)
    BY <1>1, <1>2, <2>1, <2>2 DEF Serving, Mild
  <2>6. Stores(t)
    BY <1>5, <2>1
  <2>7. QED
    BY <1>3, <2>1, <2>4, <2>5, <2>6 DEF Steps
<1>12. QED
  BY <1>7, <1>8, <1>9, <1>10, <1>11

\* A call's step that inserts no session keeps the invariant.
LEMMA StepsKeep ==
    ASSUME VaultInv, NEW t \in Tasks, Steps(t)
    PROVE  VaultInv'
<1>1. PICK objects, overtaken : /\ Footprint(objects, overtaken)
                                /\ Serving(t, objects, overtaken)
                                /\ Stores(t) /\ Moves(t) /\ PlacedAt(t)'
  BY DEF Steps
<1>2. /\ TypeOK /\ NoSession \notin Sessions /\ current \in Sessions \cup {NoSession}
      /\ pairings \in Nat /\ pairings' \in Nat /\ pairings <= pairings'
  BY <1>1, PairingBound DEF VaultInv, TypeOK, Stores, Pairing
<1>3. /\ session' \in [Sessions -> Session] /\ late' \subseteq Sessions
      /\ \A s \in Sessions : s = current' => session'[s] = objects[s] /\ (s \in late' <=> s \in overtaken)
  BY <1>1, HeapIs DEF Footprint
<1>4. current' \in {current, NoSession} /\ provider' = provider
  BY <1>1 DEF Stores
<1>5. TypeOK'
  BY <1>1, <1>2, <1>3, <1>4 DEF TypeOK, Stores, Moves
<1>6. Placed'
  <2>1. ASSUME NEW q \in Tasks \ {t}
        PROVE  PlacedAt(q)'
    <3>1. PlacedAt(q)
      BY DEF VaultInv, Placed
    <3>2. /\ task'[q].pc = task[q].pc /\ task'[q].for = task[q].for /\ task'[q].sid = task[q].sid
          /\ task'[q].pairing = task[q].pairing
          /\ task[q].pc \in {"loaded", "psk", "saved"} /\ (task[q].missed \/ row' # row) =>
               task'[q].missed
      BY <1>1 DEF Moves
    <3>3. QED
      BY <1>2, <1>4, <3>1, <3>2 DEF PlacedAt
  <2>2. QED
    BY <1>1, <2>1 DEF Placed
<1>7. SessionCurrent'
  <2> SUFFICES ASSUME current' # NoSession, Fetch(session'[current']) \notin {0, row'},
                      current' \notin late', ~\E q \in Tasks : Replacing(q, current)'
               PROVE  FALSE
    BY DEF SessionCurrent, FetchesFrom, Fetch
  <2>1. current' = current /\ current \in Sessions
    BY <1>2, <1>4
  <2>2. session'[current] = objects[current] /\ (current \in late' <=> current \in overtaken)
    BY <1>3, <2>1
  <2>3. /\ row' = row /\ Fetch(objects[current]) = Fetch(session[current])
        /\ current \notin late /\ ~Replacing(t, current)
    BY <1>1, <2>1, <2>2 DEF Serving
  <2>4. PICK q \in Tasks : Replacing(q, current)
    BY <2>1, <2>2, <2>3, FetchOf DEF VaultInv, SessionCurrent
  <2>5. Replacing(q, current)'
    BY <1>1, <2>1, <2>3, <2>4 DEF Replacing, Moves
  <2>6. QED
    BY <2>5
<1>8. PairingRestorable'
  <2> SUFFICES ASSUME provider' = "bitwarden", row' # 0, ~restorable', row' \notin spoiled'
               PROVE  \E q \in Tasks : task'[q].pc = "psk" /\ task'[q].pairing = row'
    BY DEF PairingRestorable
  <2>1. CASE task'[t].pc = "psk" /\ task'[t].pairing = row'
    BY <2>1
  <2>2. CASE ~(task'[t].pc = "psk" /\ task'[t].pairing = row')
    <3>1. /\ row' = row /\ ~restorable /\ provider = "bitwarden" /\ row \notin spoiled
          /\ task[t].pc = "psk" => task[t].pairing # row
      BY <1>1, <2>2 DEF Stores
    <3>2. PICK q \in Tasks : task[q].pc = "psk" /\ task[q].pairing = row
      BY <3>1 DEF VaultInv, PairingRestorable
    <3>3. QED
      BY <1>1, <3>1, <3>2 DEF Moves
  <2>3. QED
    BY <2>1, <2>2
<1>9. QED
  BY <1>5, <1>6, <1>7, <1>8 DEF VaultInv

\* A new session comes into the map: of the stored pairing, or late, or with
\* nothing to serve with.
LEMMA InsertKeeps ==
    ASSUME VaultInv, NEW t \in Tasks, NEW s \in Sessions, NEW p \in Pairing, NEW d \in Data,
           Insert(t, s, p, d, "have"), task[t].pc \in {"load", "loaded"},
           UNCHANGED <<provider, row, restorable, pairings, spoiled>>,
           p \in {0, row} \/ task[t].missed
    PROVE  VaultInv'
<1> DEFINE k == [Idle EXCEPT !.pc = "have", !.for = task[t].for, !.sid = s]
           o == NewSession(p, d)
           objects == [session EXCEPT ![s] = o]
           overtaken == IF task[t].missed THEN late \cup {s} ELSE late
<1>1. /\ TypeOK /\ NoSession \notin Sessions /\ task[t] \in Task /\ late \in SUBSET Sessions
      /\ current \in Sessions \cup {NoSession}
  BY PairingBound DEF VaultInv, TypeOK
<1>2. /\ Unused(s) /\ current' = s /\ task' = [task EXCEPT ![t] = k] /\ Heap(objects, overtaken)
  BY DEF Insert
<1>3. /\ k \in Task /\ k.pc = "have" /\ k.for = task[t].for /\ k.sid = s
  <2>1. Idle \in Task /\ task[t].for \in {"request", "pair"}
    BY <1>1, PairingBound DEF Idle, Task, Pairing, Data
  <2>2. QED
    BY <2>1 DEF Task
<1>4. o \in Session /\ Fetch(o) \in {0, p}
  BY PairingBound DEF NewSession, Session, Fetch, Pairing
<1> HIDE DEF k, o
<1>5. task' \in [Tasks -> Task] /\ task'[t] = k /\ \A q \in Tasks \ {t} : task'[q] = task[q]
  BY <1>1, <1>2, <1>3 DEF TypeOK
<1>6. objects \in [Sessions -> Session] /\ objects[s] = o
  BY <1>1, <1>4, Replaced
<1>7. overtaken \in SUBSET Sessions /\ (task[t].missed => s \in overtaken)
  BY <1>1
<1> HIDE DEF objects, overtaken
<1>8. /\ session' \in [Sessions -> Session] /\ late' \subseteq Sessions
      /\ session'[s] = o /\ (task[t].missed => s \in late')
  BY <1>2, <1>6, <1>7, HeapIs
<1>9. TypeOK'
  BY <1>1, <1>2, <1>5, <1>8 DEF TypeOK
<1>10. Placed'
  <2>1. PlacedAt(t)'
    BY <1>1, <1>3, <1>5 DEF VaultInv, Placed, PlacedAt
  <2>2. ASSUME NEW q \in Tasks \ {t}
        PROVE  PlacedAt(q)'
    <3>1. PlacedAt(q) /\ task[q].sid # s
      BY <1>2 DEF VaultInv, Placed, Unused
    <3>2. QED
      BY <1>2, <1>5, <3>1 DEF PlacedAt
  <2>3. QED
    BY <2>1, <2>2 DEF Placed
<1>11. SessionCurrent'
  <2>1. FetchesFrom(current)' = Fetch(o)
    BY <1>2, <1>8 DEF FetchesFrom, Fetch
  <2>2. QED
    BY <1>2, <1>4, <1>8, <2>1 DEF SessionCurrent
<1>12. PairingRestorable'
  BY <1>3, <1>5 DEF VaultInv, PairingRestorable
<1>13. QED
  BY <1>9, <1>10, <1>11, <1>12 DEF VaultInv

LEMMA CallsInsert ==
    ASSUME VaultInv, NEW t \in Tasks, LoadSession(t) \/ create_pairing_session(t)
    PROVE  VaultInv'
<1>1. TypeOK /\ task[t] \in Task
  BY DEF VaultInv, TypeOK
<1>2. CASE LoadSession(t)
  <2>1. task[t].pc = "loaded" /\ UNCHANGED <<provider, row, restorable, pairings, spoiled>>
    BY <1>2 DEF LoadSession
  <2>2. PICK s \in Sessions : Insert(t, s, task[t].pairing, task[t].data, "have")
    BY <1>2 DEF LoadSession
  <2>3. task[t].pairing = row \/ task[t].missed
    BY <2>1 DEF VaultInv, Placed, PlacedAt
  <2>4. task[t].data \in Data /\ task[t].pairing \in Pairing
    BY <1>1 DEF Task
  <2>5. QED
    BY <2>1, <2>2, <2>3, <2>4, InsertKeeps
<1>3. CASE create_pairing_session(t)
  <2>1. task[t].pc = "load" /\ UNCHANGED <<provider, row, restorable, pairings, spoiled>>
    BY <1>3 DEF create_pairing_session
  <2>2. PICK s \in Sessions : Insert(t, s, 0, "none", "have")
    BY <1>3 DEF create_pairing_session
  <2>3. "none" \in Data /\ 0 \in Pairing
    BY PairingBound DEF Data, Pairing
  <2>4. QED
    BY <2>1, <2>2, <2>3, InsertKeeps
<1>4. QED
  BY <1>2, <1>3

\* Cooldowns change a flag, and evictions empty the map.
LEMMA TimePasses ==
    ASSUME VaultInv, Evict \/ \E s \in Sessions : CooldownEnds(s)
    PROVE  VaultInv'
<1>1. /\ TypeOK /\ NoSession \notin Sessions /\ late \in SUBSET Sessions
      /\ current \in Sessions \cup {NoSession} /\ session \in [Sessions -> Session]
  BY PairingBound DEF VaultInv, TypeOK
<1>2. UNCHANGED <<provider, row, restorable, pairings, task, spoiled>>
  BY DEF Evict, CooldownEnds
<1>3. \E objects : /\ objects \in [Sessions -> Session] /\ Heap(objects, late)
                   /\ \/ current' = NoSession
                      \/ current' = current /\ Mild(objects)
  <2>1. CASE Evict
    <3> DEFINE e == [session[current] EXCEPT !.client = 0]
    <3>1. current \in Sessions /\ current' = NoSession
      BY <1>1, <2>1 DEF Evict
    <3>2. e \in Session
      BY <1>1, <3>1, PairingBound DEF Session, Pairing
    <3>3. [session EXCEPT ![current].client = 0] = [session EXCEPT ![current] = e]
      BY <1>1, <3>1
    <3>4. [session EXCEPT ![current].client = 0] \in [Sessions -> Session]
      BY <1>1, <3>1, <3>2, <3>3, Replaced
    <3>5. QED
      BY <1>1, <2>1, <3>1, <3>4 DEF Evict
  <2>2. ASSUME NEW s \in Sessions, CooldownEnds(s)
        PROVE  /\ current' = current /\ Heap([session EXCEPT ![s].cooldown = FALSE], late)
               /\ Mild([session EXCEPT ![s].cooldown = FALSE])
    BY <1>1, <2>2, Flags DEF CooldownEnds
  <2>3. QED
    BY <2>1, <2>2 DEF Mild
<1>4. PICK objects : /\ objects \in [Sessions -> Session] /\ Heap(objects, late)
                     /\ \/ current' = NoSession
                        \/ current' = current /\ Mild(objects)
  BY <1>3
<1>5. /\ session' \in [Sessions -> Session] /\ late' \subseteq Sessions
      /\ \A s \in Sessions : s = current' => session'[s] = objects[s] /\ (s \in late' <=> s \in late)
  BY <1>1, <1>4, HeapIs
<1>6. TypeOK'
  BY <1>1, <1>2, <1>4, <1>5 DEF TypeOK
<1>7. Placed'
  <2>1. ASSUME NEW q \in Tasks
        PROVE  PlacedAt(q)'
    <3>1. PlacedAt(q)
      BY DEF VaultInv, Placed
    <3>2. QED
      BY <1>2, <1>4, <3>1 DEF PlacedAt
  <2>2. QED
    BY <2>1 DEF Placed
<1>8. SessionCurrent'
  <2> SUFFICES ASSUME current' # NoSession
               PROVE  SessionCurrent'
    BY DEF SessionCurrent
  <2>1. current' = current /\ current \in Sessions /\ Fetch(objects[current]) = Fetch(session[current])
    BY <1>1, <1>4 DEF Mild
  <2>2. session'[current] = objects[current] /\ (current \in late' <=> current \in late)
    BY <1>5, <2>1
  <2>3. FetchesFrom(current)' = FetchesFrom(current)
    BY <2>1, <2>2, FetchOf DEF FetchesFrom, Fetch
  <2>4. QED
    BY <1>2, <2>1, <2>2, <2>3 DEF VaultInv, SessionCurrent, Replacing
<1>9. PairingRestorable'
  BY <1>2 DEF VaultInv, PairingRestorable
<1>10. QED
  BY <1>6, <1>7, <1>8, <1>9 DEF VaultInv

\* A restart forgets the sessions and gives up the pairings under way.
LEMMA RestartKeeps ==
    ASSUME VaultInv, Restart
    PROVE  VaultInv'
<1>1. /\ TypeOK /\ NoSession \notin Sessions
      /\ current' = NoSession /\ task' = [t \in Tasks |-> Idle]
      /\ UNCHANGED <<provider, row, restorable, pairings>>
      /\ spoiled' = spoiled \cup {task[t].pairing : t \in {q \in Tasks : task[q].pc = "psk"}}
      /\ Heap([s \in Sessions |-> NewSession(0, "none")], {})
  BY PairingBound DEF VaultInv, Restart
<1>2. Idle \in Task /\ Idle.sid = NoSession /\ Idle.pc = "idle" /\ Idle.for = "request"
  BY PairingBound DEF Idle, Task, Pairing, Data
<1>3. NewSession(0, "none") \in Session
  BY PairingBound DEF NewSession, Session, Pairing, Data
<1>4. session' \in [Sessions -> Session] /\ late' \subseteq Sessions
  BY <1>1, <1>3, HeapIs
<1>5. \A t \in Tasks : task[t].pc = "psk" => task[t].pairing \in 1 .. pairings
  BY DEF VaultInv, Placed, PlacedAt
<1>6. spoiled' \subseteq 1 .. pairings'
  BY <1>1, <1>5 DEF TypeOK
<1>7. TypeOK'
  BY <1>1, <1>2, <1>4, <1>6 DEF TypeOK
<1>8. Placed' /\ SessionCurrent'
  BY <1>1, <1>2 DEF Placed, PlacedAt, SessionCurrent
<1>9. PairingRestorable'
  BY <1>1 DEF VaultInv, PairingRestorable
<1>10. QED
  BY <1>7, <1>8, <1>9 DEF VaultInv

LEMMA VaultInvariance == Spec => []VaultInv
<1>1. Init => VaultInv
  <2> SUFFICES ASSUME Init PROVE VaultInv
    OBVIOUS
  <2>1. Idle \in Task /\ Idle.sid = NoSession /\ Idle.pc = "idle" /\ Idle.for = "request"
    BY PairingBound DEF Idle, Task, Pairing, Data
  <2>2. NewSession(0, "none") \in Session /\ 0 \in Pairing
    BY PairingBound DEF NewSession, Session, Pairing, Data
  <2>3. TypeOK
    <3>1. /\ provider \in {"onepassword", "bitwarden"}
          /\ row \in 0 .. pairings /\ pairings \in Pairing
          /\ current \in Sessions \cup {NoSession}
          /\ late \subseteq Sessions /\ spoiled \subseteq 1 .. pairings
      BY <2>2 DEF Init
    <3>2. session \in [Sessions -> Session] /\ task \in [Tasks -> Task]
      BY <2>1, <2>2 DEF Init
    <3>3. restorable \in BOOLEAN
      BY Zenon DEF Init
    <3>4. QED
      BY <3>1, <3>2, <3>3 DEF TypeOK
  <2>4. Placed /\ SessionCurrent /\ PairingRestorable
    BY <2>1, PairingBound DEF Init, Placed, PlacedAt, SessionCurrent, PairingRestorable
  <2>5. QED
    BY <2>3, <2>4 DEF VaultInv
<1>2. VaultInv /\ [Next]_vars => VaultInv'
  <2> SUFFICES ASSUME VaultInv, [Next]_vars PROVE VaultInv'
    OBVIOUS
  <2>1. ASSUME NEW t \in Tasks, Call(t)
        PROVE  VaultInv'
    BY <2>1, CallsAsk, CallsConnect, CallsBegin, CallsStore, CallsEnd, CallsInsert, StepsKeep
    DEF Call
  <2>2. CASE UNCHANGED vars
    BY <2>2 DEF vars, VaultInv, TypeOK, Placed, PlacedAt, SessionCurrent, FetchesFrom, Replacing,
                PairingRestorable
  <2>3. QED
    BY <2>1, <2>2, TimePasses, RestartKeeps DEF Next
<1>3. QED
  BY <1>1, <1>2, PTL DEF Spec

\* Row, sessions and calls stay well typed; in particular every spoiled pairing
\* is one that was stored.
THEOREM VaultTypeCorrect == Spec => []TypeOK
<1>1. VaultInv => TypeOK
  BY DEF VaultInv
<1>2. QED
  BY <1>1, VaultInvariance, PTL

\* resolve_ref and request_credential fetch from the stored pairing with the
\* session of the map, but for a load that a change overtook, while a pairing
\* is replacing it, and after a pairing of the same session failed.
THEOREM ServedFromStoredPairing == Spec => []SessionCurrent
<1>1. VaultInv => SessionCurrent
  BY DEF VaultInv
<1>2. QED
  BY <1>1, VaultInvariance, PTL

\* A stored Bitwarden pairing can be restored after a restart, unless it is
\* being saved, was given up or could not be written.
THEOREM PairingsAreRestorable == Spec => []PairingRestorable
<1>1. VaultInv => PairingRestorable
  BY DEF VaultInv
<1>2. QED
  BY <1>1, VaultInvariance, PTL
=============================================================================
