---------------------------- MODULE ApprovalHold ----------------------------
(***************************************************************************)
(* The gateway's hold on a request that matched a manual_approval rule:    *)
(* the in-memory approval store (approval.rs), the part of forward_request *)
(* that stores the approval and waits (gateway/forward.rs), the loop that  *)
(* polls the API for the durable record (gateway/approval_poll.rs), the    *)
(* SDK's decision endpoint (gateway.rs) and the task that sweeps expired   *)
(* approvals.                                                              *)
(*                                                                         *)
(* One action is one stretch of code between two points where another      *)
(* task can run: an operation on one of the store's concurrent maps, or an *)
(* await that really suspends.  Time is abstract: "expired" is the set of  *)
(* approvals whose expires_at has passed.  The deadline of the select! is  *)
(* never earlier than expires_at (it starts later, with the same 180 s),   *)
(* so a hold can only time out once its approval has expired.              *)
(*                                                                         *)
(* The wake-up of long-polling SDKs (new_notify) is in ApprovalLongPoll.   *)
(***************************************************************************)
EXTENDS Naturals, FiniteSets

CONSTANTS
    Requests,     \* requests that match a manual_approval rule
    Deciders,     \* SDK clients that call POST .../decision
    Projects,     \* tenants
    NoProject,    \* the project of an unauthenticated agent
    ProjectOf     \* the project of each request and of each decider

ASSUME ProjectAssumption ==
    /\ ProjectOf \in [Requests \cup Deciders -> Projects \cup {NoProject}]
    /\ NoProject \notin Projects
    /\ \A d \in Deciders : ProjectOf[d] # NoProject

VARIABLES
    pc,        \* where forward_request is, for each request
    outcome,   \* what select! returned
    pending,   \* InMemoryApprovalStore.pending
    senders,   \* InMemoryApprovalStore.decisions: the channels still in the map
    chan,      \* the value of each request's watch channel
    expired,   \* approvals with expires_at <= unix_now()
    polled,    \* the poll loop of each held request
    sdk,       \* each decider's call of submit_approval_decision
    sweep,     \* ids the cleanup task still has to handle in this round
    swept,     \* the id whose sender the cleanup task has taken out of the map
    acked,     \* decisions answered with 200 to an SDK
    granted    \* history: an SDK approved, or a verified approval was polled

storeVars == <<pending, senders, chan>>
vars == <<pc, outcome, pending, senders, chan, expired, polled, sdk, sweep,
          swept, acked, granted>>

Decision == {"approve", "deny"}

(***************************************************************************)
(* What GET /v1/internal/approvals/:id/status can answer.  The status      *)
(* "error" is a transport error, a non-2xx answer or an undecodable body.  *)
(***************************************************************************)
Status == {"pending", "approved", "denied", "expired", "error"}
Confirmation == {"absent", "legacy", "valid", "invalid"}
Replies == [status : Status, vc : {"absent", "valid", "invalid"},
            confirmation : Confirmation]

\* verify_openvtc_confirmation: evidence of another protocol is left to the VC.
ConfirmationAccepted(c) == c \in {"absent", "legacy", "valid"}

\* An approved status is enough when the row carries a manager confirmation.
MapStatus_ConfirmationSuffices(reply) ==
    CASE reply.status = "approved" ->
             IF reply.confirmation \in {"legacy", "valid"} \/ reply.vc = "valid"
             THEN "approve" ELSE "deny"
      [] reply.status \in {"denied", "expired"} -> "deny"
      [] OTHER -> "none"

\* map_status_with_confirmation, with the signing key forward_request passes.
MapStatus(reply) ==
    CASE reply.status = "approved" ->
             IF ConfirmationAccepted(reply.confirmation) /\ reply.vc = "valid"
             THEN "approve" ELSE "deny"
      [] reply.status \in {"denied", "expired"} -> "deny"
      [] OTHER -> "none"

\* Evidence that a manager approved: what a release must rest on (not code).
VerifiedApproval(reply) ==
    reply.status = "approved" /\ reply.vc = "valid" /\ reply.confirmation # "invalid"

-----------------------------------------------------------------------------

Held == {"notifying", "waiting"}                       \* the guard is armed
Finished == {"released", "denied", "unavailable", "gone"}
PC == {"idle", "prepared", "resolved", "cancelled"} \cup Held \cup Finished

IdleCall == [at |-> "idle"]
SdkCall == [at : {"checked", "taken"}, req : Requests, decision : Decision]

TypeOK ==
    /\ pc \in [Requests -> PC]
    /\ outcome \in [Requests -> Decision \cup {"none", "timeout"}]
    /\ pending \subseteq Requests
    /\ senders \subseteq Requests
    /\ chan \in [Requests -> Decision \cup {"none"}]
    /\ expired \subseteq Requests
    /\ polled \in [Requests -> Decision \cup {"off", "sleeping", "sent"}]
    /\ sdk \in [Deciders -> SdkCall \cup {IdleCall}]
    /\ sweep \subseteq Requests
    /\ swept \subseteq sweep
    /\ acked \in [Requests -> SUBSET Decision]
    /\ granted \subseteq Requests

Init ==
    /\ pc = [r \in Requests |-> "idle"]
    /\ outcome = [r \in Requests |-> "none"]
    /\ pending = {}
    /\ senders = {}
    /\ chan = [r \in Requests |-> "none"]
    /\ expired = {}
    /\ polled = [r \in Requests |-> "off"]
    /\ sdk = [d \in Deciders |-> IdleCall]
    /\ sweep = {}
    /\ swept = {}
    /\ acked = [r \in Requests |-> {}]
    /\ granted = {}

Goto(r, from, to) == pc[r] = from /\ pc' = [pc EXCEPT ![r] = to]

-----------------------------------------------------------------------------
(* forward_request: storing the approval                                    *)

\* A request with no project is refused before anything is stored.
RejectUnattributed(r) ==
    /\ ProjectOf[r] = NoProject
    /\ Goto(r, "idle", "unavailable")
    /\ UNCHANGED <<outcome, storeVars, expired, polled, sdk, sweep, swept, acked, granted>>

\* prepare_wait, and the guard: the channel exists before the approval does.
PrepareWait(r) ==
    /\ ProjectOf[r] # NoProject
    /\ Goto(r, "idle", "prepared")
    /\ senders' = senders \cup {r}
    /\ UNCHANGED <<outcome, pending, chan, expired, polled, sdk, sweep, swept, acked, granted>>

\* store(): from here on the SDK can find the approval.
StoreApproval(r) ==
    /\ Goto(r, "prepared", "notifying")
    /\ pending' = pending \cup {r}
    /\ UNCHANGED <<outcome, senders, chan, expired, polled, sdk, sweep, swept, acked, granted>>

\* store() returned Err (a store other than the in-memory one may): defuse,
\* remove(), 502.
StoreFails(r) ==
    /\ Goto(r, "prepared", "unavailable")
    /\ pending' = pending \ {r}
    /\ senders' = senders \ {r}
    /\ UNCHANGED <<outcome, chan, expired, polled, sdk, sweep, swept, acked, granted>>

\* notify_api returned; an error is only logged.  Both branches of select! start.
StartWaiting(r) ==
    /\ Goto(r, "notifying", "waiting")
    /\ polled' = [polled EXCEPT ![r] = "sleeping"]
    /\ UNCHANGED <<outcome, storeVars, expired, sdk, sweep, swept, acked, granted>>

-----------------------------------------------------------------------------
(* poll_for_decision                                                        *)

PollSend(r) ==
    /\ pc[r] = "waiting"
    /\ polled[r] = "sleeping"
    /\ polled' = [polled EXCEPT ![r] = "sent"]
    /\ UNCHANGED <<pc, outcome, storeVars, expired, sdk, sweep, swept, acked, granted>>

\* The API's answer: a terminal status is kept as the decision it maps to,
\* anything else goes round the loop again.
PollReply(r, reply) ==
    /\ pc[r] = "waiting"
    /\ polled[r] = "sent"
    /\ polled' = [polled EXCEPT ![r] =
                     IF MapStatus(reply) = "none" THEN "sleeping" ELSE MapStatus(reply)]
    /\ granted' = IF VerifiedApproval(reply) THEN granted \cup {r} ELSE granted
    /\ UNCHANGED <<pc, outcome, storeVars, expired, sdk, sweep, swept, acked>>

\* ApprovalStore::submit_decision in one step, as the poll loop calls it.
SubmitDecision(r, decision) ==
    IF r \in senders
    THEN /\ senders' = senders \ {r}
         /\ chan' = [chan EXCEPT ![r] = decision]
         /\ pending' = pending \ {r}
    ELSE UNCHANGED storeVars

\* The poll loop submits its decision (ignoring the result) and returns it.
PollResolve(r) ==
    /\ polled[r] \in Decision
    /\ Goto(r, "waiting", "resolved")
    /\ outcome' = [outcome EXCEPT ![r] = polled[r]]
    /\ SubmitDecision(r, polled[r])
    /\ UNCHANGED <<expired, polled, sdk, sweep, swept, acked, granted>>

-----------------------------------------------------------------------------
(* The other branches of select!, and what follows it                       *)

\* DecisionReceiver::wait saw a value on the channel.
WaitResolve(r) ==
    /\ chan[r] # "none"
    /\ Goto(r, "waiting", "resolved")
    /\ outcome' = [outcome EXCEPT ![r] = chan[r]]
    /\ UNCHANGED <<storeVars, expired, polled, sdk, sweep, swept, acked, granted>>

\* A deadline that is only honoured while the approval is still listed.
Timeout_OnlyIfListed(r) ==
    /\ r \in expired \cap pending
    /\ Goto(r, "waiting", "resolved")
    /\ outcome' = [outcome EXCEPT ![r] = "timeout"]
    /\ UNCHANGED <<storeVars, expired, polled, sdk, sweep, swept, acked, granted>>

\* Either branch reached its deadline.  The poll branch may be the one that
\* is looked at first even when the channel has a value by now.
Timeout(r) ==
    /\ r \in expired
    /\ Goto(r, "waiting", "resolved")
    /\ outcome' = [outcome EXCEPT ![r] = "timeout"]
    /\ UNCHANGED <<storeVars, expired, polled, sdk, sweep, swept, acked, granted>>

\* A hold that treats "no decision" as consent.
Finish_TimeoutReleases(r) ==
    /\ Goto(r, "resolved", IF outcome[r] = "deny" THEN "denied" ELSE "released")
    /\ pending' = pending \ {r}
    /\ senders' = senders \ {r}
    /\ UNCHANGED <<outcome, chan, expired, polled, sdk, sweep, swept, acked, granted>>

\* The guard is defused: remove(), then forward upstream or answer 403.
Finish(r) ==
    /\ Goto(r, "resolved", IF outcome[r] = "approve" THEN "released" ELSE "denied")
    /\ pending' = pending \ {r}
    /\ senders' = senders \ {r}
    /\ UNCHANGED <<outcome, chan, expired, polled, sdk, sweep, swept, acked, granted>>

\* The agent disconnects at an await: the future and its guard are dropped.
Disconnect(r) ==
    /\ pc[r] \in Held
    /\ pc' = [pc EXCEPT ![r] = "cancelled"]
    /\ UNCHANGED <<outcome, storeVars, expired, polled, sdk, sweep, swept, acked, granted>>

\* A guard that only forgets the channel.
GuardCleanup_KeepsPending(r) ==
    /\ Goto(r, "cancelled", "gone")
    /\ senders' = senders \ {r}
    /\ UNCHANGED <<outcome, pending, chan, expired, polled, sdk, sweep, swept, acked, granted>>

\* The task spawned by the guard's Drop.
GuardCleanup(r) ==
    /\ Goto(r, "cancelled", "gone")
    /\ pending' = pending \ {r}
    /\ senders' = senders \ {r}
    /\ UNCHANGED <<outcome, chan, expired, polled, sdk, sweep, swept, acked, granted>>

\* The clock passes expires_at, set when the approval was built.
Expire(r) ==
    /\ pc[r] # "idle"
    /\ r \notin expired
    /\ pc[r] \notin Finished
    /\ expired' = expired \cup {r}
    /\ UNCHANGED <<pc, outcome, storeVars, polled, sdk, sweep, swept, acked, granted>>

-----------------------------------------------------------------------------
(* submit_approval_decision: the SDK's call                                 *)

\* get_pending found the approval, not expired and of the caller's project.
SdkCheck(d, r, decision) ==
    /\ sdk[d] = IdleCall
    /\ r \in pending \ expired
    /\ ProjectOf[r] = ProjectOf[d]
    /\ sdk' = [sdk EXCEPT ![d] = [at |-> "checked", req |-> r, decision |-> decision]]
    /\ UNCHANGED <<pc, outcome, storeVars, expired, polled, sweep, swept, acked, granted>>

\* get_pending evicting an expired approval the way remove() does.
SdkCheckExpired_DropsSender(d, r) ==
    /\ sdk[d] = IdleCall
    /\ r \in pending \cap expired
    /\ pending' = pending \ {r}
    /\ senders' = senders \ {r}
    /\ UNCHANGED <<pc, outcome, chan, expired, polled, sdk, sweep, swept, acked, granted>>

\* get_pending found it expired and removed it: 404.
SdkCheckExpired(d, r) ==
    /\ sdk[d] = IdleCall
    /\ r \in pending \cap expired
    /\ pending' = pending \ {r}
    /\ UNCHANGED <<pc, outcome, senders, chan, expired, polled, sdk, sweep, swept, acked, granted>>

\* submit_decision borrowing the sender instead of removing it.
SdkTake_KeepsSender(d) ==
    /\ sdk[d].at = "checked"
    /\ sdk[d].req \in senders
    /\ granted' = IF sdk[d].decision = "approve" THEN granted \cup {sdk[d].req} ELSE granted
    /\ sdk' = [sdk EXCEPT ![d].at = "taken"]
    /\ UNCHANGED <<pc, outcome, storeVars, expired, polled, sweep, swept, acked>>

\* submit_decision took the sender out of the map.
SdkTake(d) ==
    /\ sdk[d].at = "checked"
    /\ LET r == sdk[d].req IN
         /\ r \in senders
         /\ senders' = senders \ {r}
         /\ granted' = IF sdk[d].decision = "approve" THEN granted \cup {r} ELSE granted
    /\ sdk' = [sdk EXCEPT ![d].at = "taken"]
    /\ UNCHANGED <<pc, outcome, pending, chan, expired, polled, sweep, swept, acked>>

\* submit_decision found no sender: 410.
SdkGone(d) ==
    /\ sdk[d].at = "checked"
    /\ sdk[d].req \notin senders
    /\ sdk' = [sdk EXCEPT ![d] = IdleCall]
    /\ UNCHANGED <<pc, outcome, storeVars, expired, polled, sweep, swept, acked, granted>>

\* The value is sent, the approval removed, and the SDK answered 200.
SdkSend(d) ==
    /\ sdk[d].at = "taken"
    /\ LET r == sdk[d].req IN
         /\ chan' = [chan EXCEPT ![r] = sdk[d].decision]
         /\ pending' = pending \ {r}
         /\ acked' = [acked EXCEPT ![r] = @ \cup {sdk[d].decision}]
    /\ sdk' = [sdk EXCEPT ![d] = IdleCall]
    /\ UNCHANGED <<pc, outcome, senders, expired, polled, sweep, swept, granted>>

-----------------------------------------------------------------------------
(* start_cleanup_task                                                       *)

SweepScan ==
    /\ sweep = {}
    /\ pending \cap expired # {}
    /\ sweep' = pending \cap expired
    /\ UNCHANGED <<pc, outcome, storeVars, expired, polled, sdk, swept, acked, granted>>

\* The next id of the round: take its sender, or only drop the entry.
SweepTake(r) ==
    /\ swept = {}
    /\ r \in sweep
    /\ r \in senders
    /\ senders' = senders \ {r}
    /\ swept' = {r}
    /\ UNCHANGED <<pc, outcome, pending, chan, expired, polled, sdk, sweep, acked, granted>>

SweepDrop(r) ==
    /\ swept = {}
    /\ r \in sweep \ senders
    /\ pending' = pending \ {r}
    /\ sweep' = sweep \ {r}
    /\ UNCHANGED <<pc, outcome, senders, chan, expired, polled, sdk, swept, acked, granted>>

SweepDeny(r) ==
    /\ r \in swept
    /\ chan' = [chan EXCEPT ![r] = "deny"]
    /\ pending' = pending \ {r}
    /\ sweep' = sweep \ {r}
    /\ swept' = swept \ {r}
    /\ UNCHANGED <<pc, outcome, senders, expired, polled, sdk, acked, granted>>

-----------------------------------------------------------------------------

Request(r) ==
    \/ RejectUnattributed(r) \/ PrepareWait(r) \/ StoreApproval(r) \/ StoreFails(r)
    \/ StartWaiting(r) \/ PollSend(r) \/ (\E reply \in Replies : PollReply(r, reply))
    \/ PollResolve(r) \/ WaitResolve(r) \/ Timeout(r) \/ Finish(r)
    \/ Disconnect(r) \/ GuardCleanup(r) \/ Expire(r)

Sdk(d) ==
    \/ \E r \in Requests :
         \/ \E decision \in Decision : SdkCheck(d, r, decision)
         \/ SdkCheckExpired(d, r)
    \/ SdkTake(d) \/ SdkGone(d) \/ SdkSend(d)

Sweep == SweepScan \/ \E r \in Requests : SweepTake(r) \/ SweepDrop(r) \/ SweepDeny(r)

Next == (\E r \in Requests : Request(r)) \/ (\E d \in Deciders : Sdk(d)) \/ Sweep

Spec == Init /\ [][Next]_vars

(***************************************************************************)
(* Fairness: the runtime polls every task that is ready and its timers     *)
(* fire, so each stretch of code of the gateway that can run does.  What   *)
(* the outside world does (agents, the API's answers, SDK calls) is not    *)
(* assumed to happen.                                                      *)
(***************************************************************************)
Fairness ==
    /\ \A r \in Requests :
         /\ WF_vars(StoreApproval(r) \/ StoreFails(r))
         /\ WF_vars(WaitResolve(r) \/ PollResolve(r) \/ Timeout(r))
         /\ WF_vars(Finish(r))
         /\ WF_vars(GuardCleanup(r))
         /\ WF_vars(Expire(r))
         /\ WF_vars(SweepTake(r) \/ SweepDrop(r) \/ SweepDeny(r))
    /\ \A d \in Deciders : WF_vars(SdkTake(d) \/ SdkGone(d) \/ SdkSend(d))
    /\ WF_vars(SweepScan)

FairSpec == Spec /\ Fairness

-----------------------------------------------------------------------------
(* Properties                                                               *)

\* forward.rs releases a held request only if an SDK of its project approved
\* it or the poll loop saw an approval with a valid decision VC: never on a
\* timeout, on the sweep's denial, on a store error or on a bare status.
ReleaseAuthorized ==
    \A r \in Requests : outcome[r] = "approve" \/ pc[r] = "released" => r \in granted

\* Decider d has the request's sender in hand, and is about to send on it.
Holds(d, r) == sdk[d].at = "taken" /\ sdk[d].req = r

\* DecisionReceiver::wait treats a dropped sender as "no decision".  From
\* prepare_wait until select! returns that never happens: the sender is in the
\* map, or someone who took it out is about to send, or the value is there.
NoLostWakeup ==
    \A r \in Requests : pc[r] \in Held \cup {"prepared"} =>
        r \in senders \cup swept \/ (\E d \in Deciders : Holds(d, r)) \/ chan[r] # "none"

\* submit_decision and the sweep both take the sender out of the map before
\* they send: at most one of them has it, and then nothing has been sent yet.
SenderExclusive ==
    \A r \in Requests :
        /\ r \notin senders \cap swept
        /\ r \in senders \cup swept => chan[r] = "none"
        /\ \A d \in Deciders : Holds(d, r) =>
             /\ r \notin senders \cup swept
             /\ chan[r] = "none"
             /\ \A e \in Deciders : Holds(e, r) => e = d

\* The decision on a channel is final: whoever takes the sender out of the
\* map (SDK, poll loop, sweep) is the only one ever to send on it.
ChannelWrittenOnce ==
    [][\A r \in Requests : chan[r] # "none" => chan'[r] = chan[r]]_vars

\* Every way a hold ends (release, 403, 502, disconnect) leaves no entry in
\* either map of the store, whatever the SDKs and the sweep are doing to it.
StoreDrained ==
    \A r \in Requests : pc[r] \in Finished => r \notin pending \cup senders

\* The conjuncts that make the invariants above inductive.
Fresh ==
    \A r \in Requests :
        pc[r] = "idle" => /\ r \notin pending \cup senders \cup sweep
                          /\ chan[r] = "none"
                          /\ \A d \in Deciders : ~Holds(d, r)

Authority ==
    /\ \A r \in Requests :
         /\ chan[r] = "approve" \/ polled[r] = "approve" \/ outcome[r] = "approve"
              => r \in granted
         /\ pc[r] = "released" => outcome[r] = "approve"
    /\ \A d \in Deciders :
         sdk[d].at = "taken" /\ sdk[d].decision = "approve" => sdk[d].req \in granted

\* Who may have the sender of a channel, and what is then on the channel.
OwnershipInv == Fresh /\ SenderExclusive /\ NoLostWakeup /\ StoreDrained

\* Once forward_request waits, it stops waiting: the request is released or
\* refused, or its agent is gone and the store cleaned up.
HoldEnds == \A r \in Requests : pc[r] = "waiting" ~> pc[r] \in Finished

-----------------------------------------------------------------------------
(* The abstract specification, as its caller sees the hold                  *)

SeenAs(at) ==
    CASE at = "idle" -> "new"
      [] at = "released" -> "released"
      [] at \in Finished \ {"released"} -> "refused"
      [] OTHER -> "held"

HoldState == [r \in Requests |-> SeenAs(pc[r])]

Promise == INSTANCE OneTimeRelease WITH state <- HoldState, authorized <- granted

\* forward_request with its store, poll loop, SDK endpoint and sweep is a
\* one-time release: authority arrives only while the request is held, a
\* release needs it, and no later step reopens a hold that has ended.
ImplementsPromise == Promise!Spec
=============================================================================
