----------------------------- MODULE PolicyEval -----------------------------
(***************************************************************************)
(* policy::evaluate: four passes over the rules that apply to a request,   *)
(* and the rate-limit counters its third pass keeps in the cache.          *)
(*                                                                         *)
(* The rules are what resolve_policy_rules kept, in its order: organization*)
(* rows, then project rows.  Which of them match a request (path, method,  *)
(* conditions) is fixed per request.  Passes 1, 2 and 4 touch nothing      *)
(* shared.  Pass 3 reads the clock, names the counter after the window it  *)
(* falls in, and then increments it: requests run on several threads, so   *)
(* others increment, and the window may end, between the two.  The only    *)
(* CacheStore of this build always returns a count: the branch for a cache *)
(* that is unavailable is dead here.                                       *)
(***************************************************************************)
EXTENDS Integers, FiniteSets

CONSTANTS
    Requests, Agents,
    AgentOf,      \* the agent token of each request
    NumRules,     \* the rules are 1 .. NumRules, in the order of the slice
    MaxRequests,  \* max_requests of the rate-limit rules
    Window,       \* window_secs of the rate-limit rules
    MaxClock      \* bound on the clock

ASSUME EvalAssumption ==
    /\ NumRules \in Nat /\ MaxClock \in Nat
    /\ MaxRequests \in Nat \ {0} /\ Window \in Nat \ {0}
    /\ AgentOf \in [Requests -> Agents]

Rules == 1 .. NumRules
Actions == {"block", "approval", "rate", "allow"}
Windows == 0 .. MaxClock
Verdicts == {"allowed", "blocked", "approval", "limited", "default"}
NoEntry == [count |-> 0, expires |-> 0]

VARIABLES
    action,    \* the action of each rule
    denyMode,  \* policy_mode = "deny" and enforce_deny
    matches,   \* the rules that match each request (matches_request)
    clock,     \* seconds, for the window and for the cache's expiry
    counter,   \* rate:{org}:{project}:{rule}:{agent}:{window} -> entry
    at,        \* the rate-limit rule a request is about to count, or 0
    windowId,  \* the window it read the clock in
    verdict,   \* what evaluate returned
    passed     \* history: increments that were within the limit

evalVars == <<action, denyMode, matches, clock, counter, at, windowId, verdict, passed>>

CacheKeys == Rules \X Agents \X Windows
Admission == [req : Requests, rule : Rules, window : Windows, inTime : BOOLEAN]

EvalTypeOK ==
    /\ action \in [Rules -> Actions]
    /\ denyMode \in BOOLEAN
    /\ matches \in [Requests -> SUBSET Rules]
    /\ clock \in 0 .. MaxClock
    /\ counter \in [CacheKeys -> [count : Nat, expires : Nat]]
    /\ at \in [Requests -> 0 .. NumRules]
    /\ windowId \in [Requests -> Windows]
    /\ verdict \in [Requests -> Verdicts \cup {"none"}]
    /\ \A q \in Requests : at[q] # 0 =>
         verdict[q] = "none" /\ at[q] \in matches[q] /\ action[at[q]] = "rate"
    /\ passed \subseteq Admission

EvalInit ==
    /\ action \in [Rules -> Actions]
    /\ denyMode \in BOOLEAN
    /\ matches \in [Requests -> SUBSET Rules]
    /\ clock = 0
    /\ counter = [k \in CacheKeys |-> NoEntry]
    /\ at = [q \in Requests |-> 0]
    /\ windowId = [q \in Requests |-> 0]
    /\ verdict = [q \in Requests |-> "none"]
    /\ passed = {}

\* Some rule with one of these actions matches the request.
Matched(q, acts) == \E i \in matches[q] : action[i] \in acts

\* Pass 4: in deny mode a request needs an allow or a rate-limit rule.
PassFour(q) ==
    IF denyMode /\ ~Matched(q, {"allow", "rate"}) THEN "default" ELSE "allowed"

\* The rate-limit rules pass 3 has still to count after rule i.
RateRulesAfter(q, i) == {j \in matches[q] : j > i /\ action[j] = "rate"}

\* Pass 3 goes on to the next rate-limit rule and reads the clock for it, or
\* pass 4 decides.
Continue(q, i) ==
    LET rules == RateRulesAfter(q, i) IN
    IF rules = {}
    THEN /\ verdict' = [verdict EXCEPT ![q] = PassFour(q)]
         /\ at' = [at EXCEPT ![q] = 0]
         /\ UNCHANGED windowId
    ELSE /\ at' = [at EXCEPT ![q] = CHOOSE j \in rules : \A k \in rules : j <= k]
         /\ windowId' = [windowId EXCEPT ![q] = clock \div Window]
         /\ UNCHANGED verdict

\* The passes in the order of the slice: the first matching rule decides.
Passes12_FirstMatch(q) ==
    LET strict == {i \in matches[q] : action[i] \in {"block", "approval", "allow"}}
        first == CHOOSE i \in strict : \A j \in strict : i <= j
    IN IF strict = {} \/ action[first] = "allow" THEN "none"
       ELSE IF action[first] = "block" THEN "blocked" ELSE "approval"

\* Passes 1 and 2.
Passes12(q) ==
    IF Matched(q, {"block"}) THEN "blocked"
    ELSE IF Matched(q, {"approval"}) THEN "approval" ELSE "none"

Evaluate(q) ==
    /\ verdict[q] = "none" /\ at[q] = 0
    /\ IF Passes12(q) # "none"
       THEN verdict' = [verdict EXCEPT ![q] = Passes12(q)] /\ UNCHANGED <<at, windowId>>
       ELSE Continue(q, 0)
    /\ UNCHANGED <<action, denyMode, matches, clock, counter, passed>>

\* A counter that starts afresh whenever its entry was made in an earlier
\* second.
Incremented_EagerReset(e) ==
    IF e.expires <= clock + Window - 1 THEN [count |-> 1, expires |-> clock + Window]
    ELSE [e EXCEPT !.count = @ + 1]

\* CacheStore::incr: a missing or expired entry starts afresh, and only then is
\* its expiry set.
Incremented(e) ==
    IF e.expires <= clock THEN [count |-> 1, expires |-> clock + Window]
    ELSE [e EXCEPT !.count = @ + 1]

\* One less than the limit is allowed.
OverLimit_OffByOne(count) == count >= MaxRequests

OverLimit(count) == count > MaxRequests

\* Pass 3, one rule: count, and give up or go on.
CountRequest(q) ==
    /\ at[q] # 0
    /\ LET key == <<at[q], AgentOf[q], windowId[q]>>
           entry == Incremented(counter[key])
       IN /\ counter' = [counter EXCEPT ![key] = entry]
          /\ IF OverLimit(entry.count)
             THEN /\ verdict' = [verdict EXCEPT ![q] = "limited"]
                  /\ at' = [at EXCEPT ![q] = 0]
                  /\ UNCHANGED <<windowId, passed>>
             ELSE /\ passed' = passed \cup
                       {[req |-> q, rule |-> at[q], window |-> windowId[q],
                         inTime |-> windowId[q] = clock \div Window]}
                  /\ Continue(q, at[q])
    /\ UNCHANGED <<action, denyMode, matches, clock>>

Tick ==
    /\ clock < MaxClock
    /\ clock' = clock + 1
    /\ UNCHANGED <<action, denyMode, matches, counter, at, windowId, verdict, passed>>

EvalNext == (\E q \in Requests : Evaluate(q) \/ CountRequest(q)) \/ Tick

EvalSpec == EvalInit /\ [][EvalNext]_evalVars

-----------------------------------------------------------------------------
(* The documented doctrine, as a reference                                  *)

Strictness == [block |-> 4, approval |-> 3, rate |-> 2, allow |-> 1]

\* The strictest action among the rules that match, 0 if none does.
StrictestOf(q) ==
    LET ranks == {Strictness[action[i]] : i \in matches[q]} \cup {0}
    IN CHOOSE r \in ranks : \A s \in ranks : s <= r

\* policy.rs: "the strictest action wins regardless of scope origin".  Where a
\* rule stands in the slice, and which others match, never changes that.
StrictestWins ==
    \A q \in Requests : verdict[q] # "none" =>
        CASE StrictestOf(q) = 4 -> verdict[q] = "blocked"
          [] StrictestOf(q) = 3 -> verdict[q] = "approval"
          [] StrictestOf(q) = 2 -> verdict[q] \in {"allowed", "limited"}
          [] StrictestOf(q) = 1 -> verdict[q] = "allowed"
          [] OTHER -> verdict[q] = IF denyMode THEN "default" ELSE "allowed"

Admitted(i, a, w) == {p \in passed : p.rule = i /\ p.window = w /\ AgentOf[p.req] = a}

\* However the requests of an agent interleave with each other and with the
\* clock, no rule lets more of them through while a window lasts than it says:
\* the counter is never lost or started afresh before its window is over.  (A
\* request that read the clock in one window and increments in a later one may
\* find the counter expired, and is let through besides.)
RateRespected ==
    \A i \in Rules, a \in Agents, w \in Windows :
        Cardinality({p \in Admitted(i, a, w) : p.inTime}) <= MaxRequests

\* A request is only limited by a rule whose quota its agent has used up.
LimitedOnlyWhenUsedUp ==
    \A q \in Requests : verdict[q] = "limited" =>
        \E i \in matches[q], w \in Windows :
            /\ action[i] = "rate"
            /\ Cardinality(Admitted(i, AgentOf[q], w)) >= MaxRequests
=============================================================================
