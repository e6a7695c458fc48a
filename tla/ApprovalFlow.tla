---------------------------- MODULE ApprovalFlow ----------------------------
(***************************************************************************)
(* A manual approval end to end: the gateway's holds (ApprovalHold) and    *)
(* the API's rows (ApprovalRecord), joined by the two calls the gateway    *)
(* makes.  notify_api posts the hold, so that a row is created for it;     *)
(* the poll loop asks for the row's status.  The row is found by the       *)
(* gateway's own approval id, so both are indexed by the request.          *)
(*                                                                         *)
(* The two sides fail apart.  A post the gateway gave up on may still be   *)
(* served; the row outlives the hold; and the gateway may restart, which   *)
(* loses every hold and leaves the rows to the managers.                   *)
(***************************************************************************)
EXTENDS ApprovalHold, ApprovalRecord

\* The id of a row is the gateway's own approval id.
ASSUME RowPerRequest == Approvals = Requests

flowVars == <<vars, recordVars>>

FlowInit == Init /\ RecordInit

-----------------------------------------------------------------------------

\* POST /v1/internal/approvals was sent; from then on the API may serve it,
\* whether or not the gateway still waits for the answer.
Posted(r) == pc[r] \notin {"idle", "prepared", "unavailable"}

ServePost(r) == Posted(r) /\ CreateRow(r) /\ UNCHANGED vars

\* What the poll gets: the row as it is (404 while there is none), or an error.
StatusAnswer(r) ==
    {StatusReply(r), [status |-> "error", vc |-> "absent", confirmation |-> "absent"]}

PollAnswered(r) ==
    /\ \E reply \in StatusAnswer(r) : PollReply(r, reply)
    /\ UNCHANGED recordVars

\* A gateway that takes its unanswered requests up again from the start.
Restart_Replays ==
    /\ pc' = [r \in Requests |->
                IF pc[r] \in Finished \cup {"idle"} THEN pc[r] ELSE "idle"]
    /\ pending' = {} /\ senders' = {} /\ sweep' = {} /\ swept' = {}
    /\ sdk' = [d \in Deciders |-> IdleCall]
    /\ pc' # pc
    /\ UNCHANGED <<outcome, chan, expired, polled, acked, granted, recordVars>>

\* The gateway stops and starts again: its tasks and its store are gone.
Restart ==
    /\ pc' = [r \in Requests |->
                IF pc[r] \in Finished \cup {"idle"} THEN pc[r] ELSE "gone"]
    /\ pending' = {} /\ senders' = {} /\ sweep' = {} /\ swept' = {}
    /\ sdk' = [d \in Deciders |-> IdleCall]
    /\ pc' # pc
    /\ UNCHANGED <<outcome, chan, expired, polled, acked, granted, recordVars>>

\* Everything else the gateway does, by itself or for an SDK.  Requests are
\* attributed: one without a project is refused before it is stored or posted
\* (ApprovalHold's RejectUnattributed) and never meets the API.
GatewayStep ==
    /\ \/ \E r \in Requests :
            \/ PrepareWait(r) \/ StoreApproval(r) \/ StoreFails(r)
            \/ StartWaiting(r) \/ PollSend(r)
            \/ PollResolve(r) \/ WaitResolve(r) \/ Timeout(r) \/ Finish(r)
            \/ Disconnect(r) \/ GuardCleanup(r) \/ Expire(r)
       \/ \E d \in Deciders : Sdk(d)
       \/ Sweep
    /\ UNCHANGED recordVars

\* A manager, a wallet or the actor calls the API.
DecisionStep ==
    /\ \/ \E r \in Requests : CreateContext(r)
       \/ \E c \in Calls : Handler(c)
    /\ UNCHANGED vars

FlowNext ==
    \/ \E r \in Requests : ServePost(r) \/ PollAnswered(r)
    \/ GatewayStep \/ DecisionStep \/ Restart

FlowSpec == FlowInit /\ [][FlowNext]_flowVars

-----------------------------------------------------------------------------

\* Calls that verified a manager's confirmation of an approval of r, and
\* answered that it is recorded.
ConfirmedApprovals(r) ==
    {c \in accepted : call[c].id = r /\ call[c].verdict = "approved"
                                     /\ call[c].protocol # "none"}

\* From the manager to the wire: what is forwarded upstream was approved by an
\* SDK that was told so, or by a manager whose signed confirmation the API
\* verified and recorded before - through lost updates, late posts, stale
\* answers and restarts.
ReleaseBacked ==
    \A r \in Requests : pc[r] = "released" =>
        "approve" \in acked[r] \/ ConfirmedApprovals(r) # {}

\* The gateway fails closed on a row it cannot verify.  As long as no call
\* wrote the row from a stale read, that never hits an approved row: what the
\* poll loop concludes is what the row says, from then on.
PollAgreesWithRow ==
    \A r \in Requests \ overlapped :
        /\ polled[r] = "approve" => row[r].status = "approved"
        /\ polled[r] = "deny" => row[r].status = "denied"
=============================================================================
