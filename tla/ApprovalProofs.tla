---------------------------- MODULE ApprovalProofs ----------------------------
(***************************************************************************)
(* A manual approval, from the gateway's hold to the manager's decision,   *)
(* for any number of requests, SDKs, calls and projects.                   *)
(*                                                                         *)
(* The first part is about the hold by itself (ApprovalHold), the second   *)
(* about the hold and the record together (ApprovalFlow): every step of    *)
(* the whole is a step of the hold, a step of the record or a restart, so  *)
(* the lemmas of the first part and those of ManagerKeyProofs carry over.  *)
(***************************************************************************)
EXTENDS ApprovalFlow, ManagerKeyProofs

\* One step of any task keeps the state well typed.
LEMMA TypeStep == TypeOK /\ [Next]_vars => TypeOK'
<1> SUFFICES ASSUME TypeOK, [Next]_vars PROVE TypeOK'
  OBVIOUS
<1> USE DEF TypeOK, PC, Held, Finished, Decision, Goto, storeVars
<1>1. ASSUME NEW r \in Requests, Request(r) PROVE TypeOK'
  <2>1. CASE \E reply \in Replies : PollReply(r, reply)
    BY <2>1 DEF PollReply, MapStatus
  <2>2. CASE PollResolve(r)
    BY <2>2 DEF PollResolve, SubmitDecision
  <2>3. CASE \/ RejectUnattributed(r) \/ PrepareWait(r) \/ StoreApproval(r)
             \/ StoreFails(r) \/ StartWaiting(r) \/ PollSend(r)
    BY <2>3 DEF RejectUnattributed, PrepareWait, StoreApproval, StoreFails,
                StartWaiting, PollSend
  <2>4. CASE WaitResolve(r) \/ Timeout(r) \/ Finish(r)
    BY <2>4 DEF WaitResolve, Timeout, Finish
  <2>5. CASE Disconnect(r) \/ GuardCleanup(r) \/ Expire(r)
    BY <2>5 DEF Disconnect, GuardCleanup, Expire
  <2> QED BY <1>1, <2>1, <2>2, <2>3, <2>4, <2>5 DEF Request
<1>2. ASSUME NEW d \in Deciders, Sdk(d) PROVE TypeOK'
  <2>1. ASSUME NEW r \in Requests, NEW decision \in Decision, SdkCheck(d, r, decision)
        PROVE  TypeOK'
    BY <2>1 DEF SdkCheck, SdkCall
  <2>2. ASSUME NEW r \in Requests, SdkCheckExpired(d, r) PROVE TypeOK'
    BY <2>2 DEF SdkCheckExpired
  <2>3. CASE SdkTake(d)
    BY <2>3 DEF SdkTake, SdkCall, IdleCall
  <2>4. CASE SdkGone(d)
    BY <2>4 DEF SdkGone
  <2>5. CASE SdkSend(d)
    BY <2>5 DEF SdkSend, SdkCall, IdleCall
  <2> QED BY <1>2, <2>1, <2>2, <2>3, <2>4, <2>5 DEF Sdk
<1>3. CASE Sweep
  BY <1>3 DEF Sweep, SweepScan, SweepTake, SweepDrop, SweepDeny
<1>4. CASE UNCHANGED vars
  BY <1>4 DEF vars
<1> QED BY <1>1, <1>2, <1>3, <1>4 DEF Next

\* The actions of ApprovalHold keep its state well typed: in particular every
\* call in flight names a request, and the sweep only holds ids of its round.
THEOREM TypeCorrect == Spec => []TypeOK
<1>1. Init => TypeOK
  BY DEF Init, TypeOK, PC, Held, Finished, Decision, IdleCall, SdkCall
<1>2. TypeOK /\ [Next]_vars => TypeOK'
  BY TypeStep
<1> QED BY <1>1, <1>2, PTL DEF Spec

-----------------------------------------------------------------------------

\* map_status_with_confirmation answers Approve only on verified evidence.
LEMMA ApproveIsVerified ==
    ASSUME NEW reply \in Replies, MapStatus(reply) = "approve"
    PROVE  VerifiedApproval(reply)
BY DEF Replies, Status, Confirmation, MapStatus, ConfirmationAccepted, VerifiedApproval

\* An approval on a channel, in the poll loop, in an SDK call or returned by
\* select! can be traced to an SDK's approval or to a verified polled one.
LEMMA AuthorityStep == TypeOK /\ Authority /\ [Next]_vars => Authority'
<1> SUFFICES ASSUME TypeOK, Authority, [Next]_vars PROVE Authority'
  OBVIOUS
<1> USE DEF TypeOK, Authority, PC, Held, Finished, Decision, Goto, storeVars
<1>1. ASSUME NEW r \in Requests, Request(r) PROVE Authority'
  <2>1. ASSUME NEW reply \in Replies, PollReply(r, reply) PROVE Authority'
    BY <2>1, ApproveIsVerified DEF PollReply
  <2>2. CASE PollResolve(r)
    BY <2>2 DEF PollResolve, SubmitDecision
  <2>3. CASE \/ RejectUnattributed(r) \/ PrepareWait(r) \/ StoreApproval(r)
             \/ StoreFails(r) \/ StartWaiting(r) \/ PollSend(r)
    BY <2>3 DEF RejectUnattributed, PrepareWait, StoreApproval, StoreFails,
                StartWaiting, PollSend
  <2>4. CASE WaitResolve(r) \/ Timeout(r) \/ Finish(r)
    BY <2>4 DEF WaitResolve, Timeout, Finish
  <2>5. CASE Disconnect(r) \/ GuardCleanup(r) \/ Expire(r)
    BY <2>5 DEF Disconnect, GuardCleanup, Expire
  <2> QED BY <1>1, <2>1, <2>2, <2>3, <2>4, <2>5 DEF Request
<1>2. ASSUME NEW d \in Deciders, Sdk(d) PROVE Authority'
  <2>1. ASSUME NEW r \in Requests, NEW decision \in Decision, SdkCheck(d, r, decision)
        PROVE  Authority'
    BY <2>1 DEF SdkCheck, SdkCall, IdleCall
  <2>2. ASSUME NEW r \in Requests, SdkCheckExpired(d, r) PROVE Authority'
    BY <2>2 DEF SdkCheckExpired
  <2>3. CASE SdkTake(d)
    BY <2>3 DEF SdkTake, SdkCall, IdleCall
  <2>4. CASE SdkGone(d)
    BY <2>4 DEF SdkGone, IdleCall
  <2>5. CASE SdkSend(d)
    BY <2>5 DEF SdkSend, SdkCall, IdleCall
  <2> QED BY <1>2, <2>1, <2>2, <2>3, <2>4, <2>5 DEF Sdk
<1>3. CASE Sweep
  BY <1>3 DEF Sweep, SweepScan, SweepTake, SweepDrop, SweepDeny
<1>4. CASE UNCHANGED vars
  BY <1>4 DEF vars
<1> QED BY <1>1, <1>2, <1>3, <1>4 DEF Next

\* Nothing is released that was not approved (forward.rs:667-710): not on a
\* timeout, not by the sweep, not by a store error, not on a bare status.
THEOREM ReleaseIsAuthorized == Spec => []ReleaseAuthorized
<1>1. Init => Authority
  BY DEF Init, Authority, IdleCall
<1>2. TypeOK /\ Authority /\ [Next]_vars => Authority'
  BY AuthorityStep
<1>3. Authority => ReleaseAuthorized
  BY DEF Authority, ReleaseAuthorized
<1> QED BY <1>1, <1>2, <1>3, TypeCorrect, PTL DEF Spec

-----------------------------------------------------------------------------

\* Every step hands a sender from the map to one taker, from there to the
\* channel, or ends the hold: what OwnershipInv says of it stays true.
LEMMA OwnershipStep == TypeOK /\ OwnershipInv /\ [Next]_vars => OwnershipInv'
<1> SUFFICES ASSUME TypeOK, OwnershipInv, [Next]_vars PROVE OwnershipInv'
  OBVIOUS
<1> USE DEF TypeOK, OwnershipInv, Fresh, SenderExclusive, NoLostWakeup, StoreDrained,
            Holds, PC, Held, Finished, Decision, Goto, storeVars
<1>1. ASSUME NEW r \in Requests, Request(r) PROVE OwnershipInv'
  <2>1. ASSUME NEW reply \in Replies, PollReply(r, reply) PROVE OwnershipInv'
    BY <2>1 DEF PollReply
  <2>2. CASE PollResolve(r)
    BY <2>2 DEF PollResolve, SubmitDecision
  <2>3. CASE RejectUnattributed(r)
    BY <2>3 DEF RejectUnattributed
  <2>4. CASE PrepareWait(r)
    BY <2>4 DEF PrepareWait
  <2>5. CASE StoreApproval(r)
    BY <2>5 DEF StoreApproval
  <2>6. CASE StoreFails(r)
    BY <2>6 DEF StoreFails
  <2>7. CASE StartWaiting(r) \/ PollSend(r)
    BY <2>7 DEF StartWaiting, PollSend
  <2>8. CASE WaitResolve(r) \/ Timeout(r)
    BY <2>8 DEF WaitResolve, Timeout
  <2>9. CASE Finish(r)
    BY <2>9 DEF Finish
  <2>10. CASE Disconnect(r) \/ Expire(r)
    BY <2>10 DEF Disconnect, Expire
  <2>11. CASE GuardCleanup(r)
    BY <2>11 DEF GuardCleanup
  <2> QED BY <1>1, <2>1, <2>2, <2>3, <2>4, <2>5, <2>6, <2>7, <2>8, <2>9, <2>10, <2>11
          DEF Request
<1>2. ASSUME NEW d \in Deciders, Sdk(d) PROVE OwnershipInv'
  <2>1. ASSUME NEW r \in Requests, NEW decision \in Decision, SdkCheck(d, r, decision)
        PROVE  OwnershipInv'
    BY <2>1 DEF SdkCheck, SdkCall, IdleCall
  <2>2. ASSUME NEW r \in Requests, SdkCheckExpired(d, r) PROVE OwnershipInv'
    BY <2>2 DEF SdkCheckExpired
  <2>3. CASE SdkTake(d)
    BY <2>3 DEF SdkTake, SdkCall, IdleCall
  <2>4. CASE SdkGone(d)
    BY <2>4 DEF SdkGone, IdleCall
  <2>5. CASE SdkSend(d)
    BY <2>5 DEF SdkSend, SdkCall, IdleCall
  <2> QED BY <1>2, <2>1, <2>2, <2>3, <2>4, <2>5 DEF Sdk
<1>3. CASE SweepScan
  BY <1>3 DEF SweepScan
<1>4. ASSUME NEW r \in Requests, SweepTake(r) PROVE OwnershipInv'
  BY <1>4 DEF SweepTake
<1>5. ASSUME NEW r \in Requests, SweepDrop(r) PROVE OwnershipInv'
  BY <1>5 DEF SweepDrop
<1>6. ASSUME NEW r \in Requests, SweepDeny(r) PROVE OwnershipInv'
  BY <1>6 DEF SweepDeny
<1>7. CASE UNCHANGED vars
  BY <1>7 DEF vars
<1> QED BY <1>1, <1>2, <1>3, <1>4, <1>5, <1>6, <1>7 DEF Next, Sweep

\* Ownership is invariant; the three results below are read off it.
LEMMA Ownership == Spec => []OwnershipInv
<1>1. Init => OwnershipInv
  BY DEF Init, OwnershipInv, Fresh, SenderExclusive, NoLostWakeup, StoreDrained,
         Holds, IdleCall, Held, Finished
<1>2. TypeOK /\ OwnershipInv /\ [Next]_vars => OwnershipInv'
  BY OwnershipStep
<1> QED BY <1>1, <1>2, TypeCorrect, PTL DEF Spec

\* A held request never waits on a channel whose sender is gone, so
\* DecisionReceiver::wait never reports "no decision" before its deadline.
THEOREM HeldRequestCanBeWoken == Spec => []NoLostWakeup
<1>1. OwnershipInv => NoLostWakeup
  BY DEF OwnershipInv
<1> QED BY <1>1, Ownership, PTL

\* A hold that ended left nothing in the store's maps.
THEOREM FinishedHoldLeavesNothing == Spec => []StoreDrained
<1>1. OwnershipInv => StoreDrained
  BY DEF OwnershipInv
<1> QED BY <1>1, Ownership, PTL

\* SDK, poll loop and sweep together send at most one decision on a channel.
THEOREM DecisionIsFinal == Spec => ChannelWrittenOnce
<1>1. TypeOK /\ OwnershipInv /\ [Next]_vars
        => [\A r \in Requests : chan[r] # "none" => chan'[r] = chan[r]]_vars
  <2> SUFFICES ASSUME TypeOK, OwnershipInv, [Next]_vars, NEW s \in Requests, chan[s] # "none"
               PROVE  chan'[s] = chan[s]
    OBVIOUS
  <2> USE DEF TypeOK, OwnershipInv, SenderExclusive, Holds, Goto, storeVars
  <2>1. ASSUME NEW r \in Requests, Request(r) PROVE chan'[s] = chan[s]
    <3>1. CASE PollResolve(r)
      BY <3>1 DEF PollResolve, SubmitDecision
    <3>2. CASE ~PollResolve(r)
      BY <2>1, <3>2 DEF Request, RejectUnattributed, PrepareWait, StoreApproval,
         StoreFails, StartWaiting, PollSend, PollReply, WaitResolve, Timeout, Finish,
         Disconnect, GuardCleanup, Expire
    <3> QED BY <3>1, <3>2
  <2>2. ASSUME NEW d \in Deciders, Sdk(d) PROVE chan'[s] = chan[s]
    <3>1. CASE SdkSend(d)
      BY <3>1 DEF SdkSend, SdkCall, IdleCall
    <3>2. CASE ~SdkSend(d)
      BY <2>2, <3>2 DEF Sdk, SdkCheck, SdkCheckExpired, SdkTake, SdkGone
    <3> QED BY <3>1, <3>2
  <2>3. CASE Sweep
    BY <2>3 DEF Sweep, SweepScan, SweepTake, SweepDrop, SweepDeny
  <2>4. CASE UNCHANGED vars
    BY <2>4 DEF vars
  <2> QED BY <2>1, <2>2, <2>3, <2>4 DEF Next
<1> QED BY <1>1, TypeCorrect, Ownership, PTL DEF Spec, ChannelWrittenOnce

-----------------------------------------------------------------------------

\* What the caller sees of a step of one request's forward_request.
LEMMA SeenMove ==
    ASSUME TypeOK, NEW r \in Requests, NEW from, NEW to, Goto(r, from, to)
    PROVE  /\ HoldState[r] = SeenAs(from)
           /\ HoldState' = [HoldState EXCEPT ![r] = SeenAs(to)]
BY DEF TypeOK, Goto, HoldState

\* A request's own step to a refusal refuses that one hold.
LEMMA RefuseMove ==
    ASSUME TypeOK, NEW r \in Requests, NEW from, NEW to, Goto(r, from, to),
           SeenAs(from) \in {"new", "held"}, SeenAs(to) = "refused", granted' = granted
    PROVE  Promise!Next
<1>1. /\ HoldState[r] = SeenAs(from)
      /\ HoldState' = [HoldState EXCEPT ![r] = SeenAs(to)]
  BY SeenMove
<1>2. DOMAIN HoldState = Requests /\ HoldState = [s \in Requests |-> HoldState[s]]
  BY DEF HoldState
<1>3. HoldState' = [s \in Requests |-> IF s \in {r} THEN "refused" ELSE HoldState[s]]
  BY <1>1, <1>2
<1>4. Promise!Refuse({r})
  BY <1>1, <1>3 DEF Promise!Refuse
<1>5. QED
  BY <1>4 DEF Promise!Next

\* A step of the gateway is a step of the abstract hold, or invisible to it.
\* StoreDrained is what makes an SDK's late authority impossible: a finished
\* hold has no sender left to take.
LEMMA PromiseStep ==
    TypeOK /\ Authority /\ OwnershipInv /\ [Next]_vars
        => [Promise!Next]_<<HoldState, granted>>
<1> SUFFICES ASSUME TypeOK, Authority, OwnershipInv, [Next]_vars
             PROVE  Promise!Next \/ UNCHANGED <<HoldState, granted>>
  OBVIOUS
<1> USE DEF TypeOK, PC, Held, Finished, Decision, Goto, storeVars
<1>1. ASSUME NEW r \in Requests, Request(r)
      PROVE  Promise!Next \/ UNCHANGED <<HoldState, granted>>
  <2>1. CASE PrepareWait(r)
    <3>1. Goto(r, "idle", "prepared") /\ granted' = granted
      BY <2>1 DEF PrepareWait
    <3>2. SeenAs("idle") = "new" /\ SeenAs("prepared") = "held"
      BY DEF SeenAs
    <3>3. /\ HoldState[r] = SeenAs("idle")
          /\ HoldState' = [HoldState EXCEPT ![r] = SeenAs("prepared")]
      BY <3>1, SeenMove
    <3>4. Promise!Hold(r)
      BY <3>1, <3>2, <3>3 DEF Promise!Hold, Promise!Move
    <3> QED BY <3>4 DEF Promise!Next
  <2>2. CASE RejectUnattributed(r) \/ StoreFails(r) \/ GuardCleanup(r)
    <3>1. PICK from \in {"idle", "prepared", "cancelled"}, to \in {"unavailable", "gone"} :
            Goto(r, from, to) /\ granted' = granted
      BY <2>2 DEF RejectUnattributed, StoreFails, GuardCleanup
    <3>2. SeenAs(from) \in {"new", "held"} /\ SeenAs(to) = "refused"
      BY DEF SeenAs
    <3> QED BY <3>1, <3>2, RefuseMove
  <2>3. CASE Finish(r)
    <3>1. CASE outcome[r] = "approve"
      <4>1. Goto(r, "resolved", "released") /\ granted' = granted /\ r \in granted
        BY <2>3, <3>1 DEF Finish, Authority
      <4>2. Promise!Release(r)
        BY <4>1, SeenMove DEF Promise!Release, Promise!Move, SeenAs
      <4> QED BY <4>2 DEF Promise!Next
    <3>2. CASE outcome[r] # "approve"
      <4>1. Goto(r, "resolved", "denied") /\ granted' = granted
        BY <2>3, <3>2 DEF Finish
      <4>2. SeenAs("resolved") = "held" /\ SeenAs("denied") = "refused"
        BY DEF SeenAs
      <4> QED BY <4>1, <4>2, RefuseMove
    <3> QED BY <3>1, <3>2
  <2>4. ASSUME NEW reply \in Replies, PollReply(r, reply)
        PROVE  Promise!Next \/ UNCHANGED <<HoldState, granted>>
    <3>1. pc' = pc /\ pc[r] = "waiting"
      BY <2>4 DEF PollReply
    <3>2. HoldState' = HoldState /\ HoldState[r] = "held"
      BY <3>1 DEF HoldState, SeenAs
    <3>3. granted' = granted \/ granted' = granted \cup {r}
      BY <2>4 DEF PollReply
    <3> QED BY <3>2, <3>3 DEF Promise!Next, Promise!Authorize
  <2>5. CASE StoreApproval(r) \/ StartWaiting(r) \/ PollResolve(r) \/ WaitResolve(r) \/ Timeout(r)
    <3>1. PICK from \in {"prepared", "notifying", "waiting"}, to \in {"notifying", "waiting", "resolved"} :
            Goto(r, from, to) /\ granted' = granted
      BY <2>5 DEF StoreApproval, StartWaiting, PollResolve, WaitResolve, Timeout
    <3>2. SeenAs(from) = "held" /\ SeenAs(to) = "held"
      BY DEF SeenAs
    <3> QED BY <3>1, <3>2, SeenMove DEF HoldState
  <2>6. CASE Disconnect(r)
    <3>1. PICK from \in Held : Goto(r, from, "cancelled") /\ granted' = granted
      BY <2>6 DEF Disconnect
    <3>2. SeenAs(from) = "held" /\ SeenAs("cancelled") = "held"
      BY DEF SeenAs
    <3> QED BY <3>1, <3>2, SeenMove DEF HoldState
  <2>7. CASE PollSend(r) \/ Expire(r)
    BY <2>7 DEF PollSend, Expire, HoldState
  <2> QED BY <1>1, <2>1, <2>2, <2>3, <2>4, <2>5, <2>6, <2>7 DEF Request
<1>2. ASSUME NEW d \in Deciders, Sdk(d)
      PROVE  Promise!Next \/ UNCHANGED <<HoldState, granted>>
  <2>1. CASE SdkTake(d)
    <3>1. PICK r \in Requests : /\ r \in senders
                                /\ granted' = granted \/ granted' = granted \cup {r}
      BY <2>1 DEF SdkTake, SdkCall, IdleCall
    <3>2. HoldState' = HoldState /\ HoldState[r] = "held"
      BY <2>1, <3>1 DEF SdkTake, OwnershipInv, StoreDrained, Fresh, HoldState, SeenAs
    <3> QED BY <3>1, <3>2 DEF Promise!Next, Promise!Authorize
  <2>2. CASE ~SdkTake(d)
    BY <1>2, <2>2 DEF Sdk, SdkCheck, SdkCheckExpired, SdkGone, SdkSend, HoldState
  <2> QED BY <2>1, <2>2
<1>3. CASE Sweep
  BY <1>3 DEF Sweep, SweepScan, SweepTake, SweepDrop, SweepDeny, HoldState
<1>4. CASE UNCHANGED vars
  BY <1>4 DEF vars, HoldState
<1> QED BY <1>1, <1>2, <1>3, <1>4 DEF Next

\* Authority's invariance on its own, for the refinement below.
LEMMA AuthorityInvariant == Spec => []Authority
<1>1. Init => Authority
  BY DEF Init, Authority, IdleCall
<1> QED BY <1>1, AuthorityStep, TypeCorrect, PTL DEF Spec

\* The gateway's hold implements the one-time release its caller relies on,
\* for any number of requests, SDKs and projects.
THEOREM HoldImplementsPromise == Spec => ImplementsPromise
<1>1. Init => Promise!Init
  <2>1. SeenAs("idle") = "new"
    BY DEF SeenAs, Finished
  <2> QED BY <2>1 DEF Init, Promise!Init, HoldState
<1>2. TypeOK /\ Authority /\ OwnershipInv /\ [Next]_vars
        => [Promise!Next]_<<HoldState, granted>>
  BY PromiseStep
<1> QED BY <1>1, <1>2, TypeCorrect, AuthorityInvariant, Ownership, PTL
        DEF Spec, ImplementsPromise, Promise!Spec

-----------------------------------------------------------------------------
(* The hold and the record together                                         *)

\* An SDK was told that it approved r, or a manager's call that it did.
Known(r) == "approve" \in acked[r] \/ ConfirmedApprovals(r) # {}

\* Wherever an approval is on its way to forward_request, it is known.
Backed ==
    \A r \in Requests :
        chan[r] = "approve" \/ polled[r] = "approve" \/ outcome[r] = "approve" => Known(r)

HoldInv == TypeOK /\ Authority /\ OwnershipInv

FlowInv == HoldInv /\ RInv /\ Backed /\ PollAgreesWithRow

\* What the API answers: an approval is of an approved row, and a row that is
\* approved with its evidence is never answered as a denial.
LEMMA AnswerMeans ==
    ASSUME RInv, NEW r \in Requests, NEW reply \in StatusAnswer(r)
    PROVE  /\ reply \in Replies
           /\ MapStatus(reply) = "approve" => row[r].status = "approved"
           /\ MapStatus(reply) = "deny" /\ r \notin overlapped => row[r].status = "denied"
<1> DEFINE e == row[r].context.evidence
<1>1. /\ row[r].status \in {"absent", "pending", "approved", "denied"} /\ e \in Evidence
      /\ r \notin overlapped /\ row[r].status = "approved" => e # NoEvidence /\ e.decision = "approved"
  <2>1. r \in Approvals /\ row[r] \in Row
    BY RowPerRequest DEF RInv, RecordTypeOK
  <2>2. QED
    BY <2>1 DEF RInv, Sound, EvidenceKept, Row, Context, Verdict
<1>2. e # NoEvidence => e.protocol \in {"legacy", "openvtc"}
  BY <1>1 DEF Evidence, Protocol
<1> HIDE DEF e
<1>3. CASE reply = [status |-> "error", vc |-> "absent", confirmation |-> "absent"]
  BY <1>3 DEF Replies, Status, Confirmation, MapStatus
<1>4. CASE reply = StatusReply(r)
  <2>1. /\ reply = [status |-> reply.status, vc |-> reply.vc, confirmation |-> reply.confirmation]
        /\ reply.status = IF row[r].status = "absent" THEN "error" ELSE row[r].status
        /\ reply.vc = IF e = NoEvidence THEN "absent" ELSE "valid"
        /\ reply.confirmation = CASE e.protocol = "none" -> "absent"
                                  [] e.protocol = "legacy" -> "legacy"
                                  [] OTHER -> IF e.decision = "approved" THEN "valid" ELSE "invalid"
    BY <1>4 DEF StatusReply, e
  <2>2. reply.status \in Status /\ reply.vc \in {"absent", "valid"} /\ reply.confirmation \in Confirmation
    BY <1>1, <2>1 DEF Status, Confirmation
  <2>3. reply \in Replies
    BY <2>1, <2>2 DEF Replies
  <2>4. MapStatus(reply) = "approve" => row[r].status = "approved"
    BY <1>1, <2>1 DEF MapStatus
  <2>5. ASSUME r \notin overlapped, row[r].status = "approved"
        PROVE  MapStatus(reply) = "approve"
    <3>1. reply.status = "approved" /\ reply.vc = "valid" /\ reply.confirmation \in {"legacy", "valid"}
      BY <1>1, <1>2, <2>1, <2>5
    <3>2. QED
      BY <3>1 DEF MapStatus, ConfirmationAccepted
  <2>6. MapStatus(reply) = "deny" /\ r \notin overlapped => row[r].status = "denied"
    BY <1>1, <2>1, <2>5 DEF MapStatus
  <2>7. QED
    BY <2>3, <2>4, <2>6
<1>5. QED
  BY <1>3, <1>4 DEF StatusAnswer

\* A step of the whole is one of the hold or one of the record, or a restart.
LEMMA FlowParts ==
    ASSUME RInv, FlowNext
    PROVE  /\ Restart \/ [Next]_vars
           /\ \/ UNCHANGED recordVars
              \/ /\ UNCHANGED vars
                 /\ (\E a \in Approvals : Create(a)) \/ (\E c \in Calls : Handler(c))
<1>1. ASSUME NEW r \in Requests, ServePost(r)
      PROVE  UNCHANGED vars /\ \E a \in Approvals : Create(a)
  BY <1>1, RowPerRequest DEF ServePost, Create
<1>2. ASSUME NEW r \in Requests, PollAnswered(r)
      PROVE  Next /\ UNCHANGED recordVars
  <2>1. PICK reply \in StatusAnswer(r) : PollReply(r, reply)
    BY <1>2 DEF PollAnswered
  <2>2. reply \in Replies
    BY AnswerMeans
  <2>3. QED
    BY <1>2, <2>1, <2>2 DEF PollAnswered, Next, Request
<1>3. ASSUME GatewayStep
      PROVE  Next /\ UNCHANGED recordVars
  BY <1>3 DEF GatewayStep, Next, Request
<1>4. ASSUME DecisionStep
      PROVE  UNCHANGED vars /\ ((\E a \in Approvals : Create(a)) \/ (\E c \in Calls : Handler(c)))
  BY <1>4, RowPerRequest DEF DecisionStep, Create
<1>5. ASSUME Restart
      PROVE  UNCHANGED recordVars
  BY <1>5 DEF Restart, recordVars
<1>6. QED
  BY <1>1, <1>2, <1>3, <1>4, <1>5 DEF FlowNext

\* A restart leaves no hold under way, and so none that could break a promise.
LEMMA RestartKeepsHold == HoldInv /\ Restart => HoldInv'
<1> SUFFICES ASSUME HoldInv, Restart PROVE HoldInv'
  OBVIOUS
<1> USE DEF HoldInv, Restart
<1>1. TypeOK'
  BY DEF TypeOK, PC, Held, Finished
<1>2. Authority'
  BY DEF Authority, TypeOK, PC, Held, Finished, IdleCall
<1>3. OwnershipInv'
  BY DEF OwnershipInv, Fresh, SenderExclusive, NoLostWakeup, StoreDrained, Holds,
         TypeOK, PC, Held, Finished, IdleCall
<1>4. QED
  BY <1>1, <1>2, <1>3

\* The hold's own invariants hold of it as a part of the whole.
LEMMA HoldKept == HoldInv /\ RInv /\ FlowNext => HoldInv'
<1> SUFFICES ASSUME HoldInv, RInv, FlowNext PROVE HoldInv'
  OBVIOUS
<1>1. CASE Restart
  BY <1>1, RestartKeepsHold
<1>2. CASE [Next]_vars
  BY <1>2, TypeStep, AuthorityStep, OwnershipStep DEF HoldInv
<1>3. QED
  BY <1>1, <1>2, FlowParts

\* The record's own invariant likewise; and what an SDK or a manager has
\* approved stays approved.
LEMMA RecordInFlow ==
    ASSUME RInv, FlowNext
    PROVE  /\ RInv'
           /\ \A r \in Requests : ConfirmedApprovals(r) # {} => ConfirmedApprovals(r)' # {}
           /\ \A r \in Requests \ overlapped' :
                /\ r \notin overlapped
                /\ row[r].status \in Verdict => row'[r].status = row[r].status
<1>1. CASE UNCHANGED recordVars
  BY <1>1, RecordStutters DEF recordVars, ConfirmedApprovals
<1>2. CASE (\E a \in Approvals : Create(a)) \/ (\E c \in Calls : Handler(c))
  <2>1. RInv'
    BY <1>2, RecordKept
  <2>2. \A r \in Requests : ConfirmedApprovals(r) \subseteq ConfirmedApprovals(r)'
    BY <1>2, DecisionsKept DEF ConfirmedApprovals
  <2>3. QED
    BY <1>2, <2>1, <2>2, DecisionsKept, RowPerRequest
<1>3. QED
  BY <1>1, <1>2, FlowParts

\* An approval an SDK sends is acknowledged with it, and one the poll loop reads
\* is of a row that a confirmed call approved.
LEMMA BackedKept ==
    ASSUME HoldInv, RInv, Backed, FlowNext
    PROVE  Backed'
<1>1. TypeOK /\ Authority
  BY DEF HoldInv
<1> USE DEF TypeOK, PC, Held, Finished, Decision, Goto, storeVars, Backed
<1>2. \A r \in Requests : ConfirmedApprovals(r) # {} => ConfirmedApprovals(r)' # {}
  BY RecordInFlow
<1>3. ASSUME \A r \in Requests : acked[r] \subseteq acked'[r],
             \A r \in Requests : chan'[r] = "approve" \/ polled'[r] = "approve" \/ outcome'[r] = "approve" =>
               chan[r] = "approve" \/ polled[r] = "approve" \/ outcome[r] = "approve" \/ Known(r)'
      PROVE  Backed'
  BY <1>2, <1>3 DEF Known
<1>4. CASE UNCHANGED vars
  BY <1>3, <1>4 DEF vars
<1>5. CASE Restart
  BY <1>3, <1>5 DEF Restart
<1>6. ASSUME NEW r \in Requests, PollAnswered(r)
      PROVE  Backed'
  <2>1. PICK reply \in StatusAnswer(r) : PollReply(r, reply)
    BY <1>6 DEF PollAnswered
  <2>2. /\ UNCHANGED <<chan, outcome, acked>> /\ UNCHANGED recordVars
        /\ \A s \in Requests \ {r} : polled'[s] = polled[s]
        /\ polled'[r] = "approve" => MapStatus(reply) = "approve"
    BY <1>1, <1>6, <2>1 DEF PollReply, PollAnswered
  <2>3. ASSUME MapStatus(reply) = "approve"
        PROVE  Known(r)'
    <3>1. r \in Approvals /\ row[r].status = "approved"
      BY <2>3, AnswerMeans, RowPerRequest
    <3>2. \E c \in DecidedBy(r) : call[c].verdict = "approved" /\ call[c].protocol # "none"
      BY <3>1 DEF RInv, ApprovedOnConfirmation
    <3>3. ConfirmedApprovals(r) # {}
      BY <3>2 DEF ConfirmedApprovals, DecidedBy
    <3>4. QED
      BY <1>2, <3>3 DEF Known
  <2>4. QED
    BY <1>3, <2>2, <2>3
<1>7. CASE GatewayStep
  <2>1. ASSUME NEW r \in Requests,
               \/ PrepareWait(r) \/ StoreApproval(r) \/ StoreFails(r)
               \/ StartWaiting(r) \/ PollSend(r)
        PROVE  Backed'
    BY <1>1, <1>3, <2>1 DEF PrepareWait, StoreApproval, StoreFails, StartWaiting, PollSend
  <2>2. ASSUME NEW r \in Requests, PollResolve(r)
        PROVE  Backed'
    BY <1>1, <1>3, <2>2 DEF PollResolve, SubmitDecision
  <2>3. ASSUME NEW r \in Requests, WaitResolve(r) \/ Timeout(r) \/ Finish(r)
        PROVE  Backed'
    BY <1>1, <1>3, <2>3 DEF WaitResolve, Timeout, Finish
  <2>4. ASSUME NEW r \in Requests, Disconnect(r) \/ GuardCleanup(r) \/ Expire(r)
        PROVE  Backed'
    BY <1>1, <1>3, <2>4 DEF Disconnect, GuardCleanup, Expire
  <2>5. ASSUME NEW d \in Deciders, SdkSend(d)
        PROVE  Backed'
    BY <1>1, <1>3, <2>5 DEF SdkSend, SdkCall, IdleCall, Known
  <2>6. ASSUME NEW d \in Deciders, Sdk(d), ~SdkSend(d)
        PROVE  Backed'
    BY <1>1, <1>3, <2>6 DEF Sdk, SdkCheck, SdkCheckExpired, SdkTake, SdkGone
  <2>7. CASE Sweep
    BY <1>1, <1>3, <2>7 DEF Sweep, SweepScan, SweepTake, SweepDrop, SweepDeny
  <2>8. QED
    BY <1>7, <2>1, <2>2, <2>3, <2>4, <2>5, <2>6, <2>7 DEF GatewayStep
<1>8. QED
  BY <1>4, <1>5, <1>6, <1>7 DEF FlowNext, ServePost, DecisionStep

\* The poll loop takes its decision from the row, and a decided row that nobody
\* overwrote says the same from then on.
LEMMA AgreementKept ==
    ASSUME HoldInv, RInv, PollAgreesWithRow, FlowNext
    PROVE  PollAgreesWithRow'
<1>1. TypeOK
  BY DEF HoldInv
<1>2. \A r \in Requests \ overlapped' :
        /\ r \notin overlapped
        /\ row[r].status \in Verdict => row'[r].status = row[r].status
  BY RecordInFlow
<1>3. ASSUME \A r \in Requests \ overlapped' : polled'[r] \in Decision => polled'[r] = polled[r]
      PROVE  PollAgreesWithRow'
  BY <1>2, <1>3 DEF PollAgreesWithRow, Verdict, Decision
<1>4. CASE UNCHANGED polled
  BY <1>3, <1>4
<1>5. ASSUME NEW r \in Requests, PollAnswered(r)
      PROVE  PollAgreesWithRow'
  <2>1. PICK reply \in StatusAnswer(r) : PollReply(r, reply)
    BY <1>5 DEF PollAnswered
  <2>2. /\ UNCHANGED <<row, overlapped>>
        /\ \A s \in Requests \ {r} : polled'[s] = polled[s]
        /\ polled'[r] \in Decision => polled'[r] = MapStatus(reply)
    BY <1>1, <1>5, <2>1 DEF TypeOK, PollReply, PollAnswered, recordVars, Decision
  <2>3. /\ MapStatus(reply) = "approve" => row[r].status = "approved"
        /\ MapStatus(reply) = "deny" /\ r \notin overlapped => row[r].status = "denied"
    BY AnswerMeans
  <2>4. QED
    BY <2>2, <2>3 DEF PollAgreesWithRow, Decision
<1>6. ASSUME NEW r \in Requests, StartWaiting(r) \/ PollSend(r)
      PROVE  PollAgreesWithRow'
  BY <1>1, <1>3, <1>6 DEF StartWaiting, PollSend, TypeOK, Decision
<1>7. CASE GatewayStep
  <2>1. ASSUME NEW r \in Requests,
               \/ PrepareWait(r) \/ StoreApproval(r) \/ StoreFails(r)
               \/ PollResolve(r) \/ WaitResolve(r) \/ Timeout(r) \/ Finish(r)
               \/ Disconnect(r) \/ GuardCleanup(r) \/ Expire(r)
        PROVE  UNCHANGED polled
    BY <2>1 DEF PrepareWait, StoreApproval, StoreFails, PollResolve, WaitResolve, Timeout,
                Finish, Disconnect, GuardCleanup, Expire
  <2>2. ASSUME NEW d \in Deciders, Sdk(d)
        PROVE  UNCHANGED polled
    BY <2>2 DEF Sdk, SdkCheck, SdkCheckExpired, SdkTake, SdkGone, SdkSend
  <2>3. CASE Sweep
    BY <1>4, <2>3 DEF Sweep, SweepScan, SweepTake, SweepDrop, SweepDeny
  <2>4. QED
    BY <1>4, <1>6, <1>7, <2>1, <2>2, <2>3 DEF GatewayStep
<1>8. QED
  BY <1>4, <1>5, <1>7 DEF FlowNext, ServePost, DecisionStep, Restart, vars

\* All of it together is inductive.
LEMMA FlowInvariance == FlowSpec => []FlowInv
<1>1. FlowInit => FlowInv
  <2> SUFFICES ASSUME FlowInit PROVE FlowInv
    OBVIOUS
  <2>1. RInv
    BY RecordStarts DEF FlowInit
  <2>2. TypeOK /\ Authority
    BY DEF FlowInit, Init, TypeOK, Authority, PC, Held, Finished, Decision, IdleCall, SdkCall
  <2>3. OwnershipInv
    BY DEF FlowInit, Init, OwnershipInv, Fresh, SenderExclusive, NoLostWakeup, StoreDrained,
           Holds, IdleCall, Held, Finished
  <2>4. Backed /\ PollAgreesWithRow
    BY DEF FlowInit, Init, Backed, PollAgreesWithRow
  <2>5. QED
    BY <2>1, <2>2, <2>3, <2>4 DEF FlowInv, HoldInv
<1>2. FlowInv /\ [FlowNext]_flowVars => FlowInv'
  <2> SUFFICES ASSUME FlowInv, [FlowNext]_flowVars PROVE FlowInv'
    OBVIOUS
  <2>1. CASE FlowNext
    BY <2>1, HoldKept, RecordInFlow, BackedKept, AgreementKept DEF FlowInv
  <2>2. CASE UNCHANGED flowVars
    <3>1. UNCHANGED vars /\ UNCHANGED recordVars
      BY <2>2 DEF flowVars
    <3>2. HoldInv'
      BY <3>1, TypeStep, AuthorityStep, OwnershipStep DEF FlowInv, HoldInv
    <3>3. RInv'
      BY <3>1, RecordStutters DEF FlowInv
    <3>4. Backed' /\ PollAgreesWithRow'
      BY <3>1 DEF FlowInv, Backed, PollAgreesWithRow, Known, ConfirmedApprovals, vars, recordVars
    <3>5. QED
      BY <3>2, <3>3, <3>4 DEF FlowInv
  <2>3. QED
    BY <2>1, <2>2
<1>3. QED
  BY <1>1, <1>2, PTL DEF FlowSpec

\* From the manager to the wire: whatever is forwarded was approved by an SDK
\* that was told so, or by a recorded call that verified a manager's
\* confirmation, through late posts, stale answers, lost updates and restarts.
THEOREM ReleaseIsBacked == FlowSpec => []ReleaseBacked
<1>1. FlowInv => ReleaseBacked
  BY DEF FlowInv, HoldInv, Authority, Backed, Known, ReleaseBacked
<1>2. QED
  BY <1>1, FlowInvariance, PTL

\* approval_poll.rs: what the poll loop concludes is what the row says from then
\* on, as long as nobody wrote that row from a stale read.
THEOREM PollSaysTheRow == FlowSpec => []PollAgreesWithRow
<1>1. FlowInv => PollAgreesWithRow
  BY DEF FlowInv
<1>2. QED
  BY <1>1, FlowInvariance, PTL

\* A restart refuses, at once, every request that was held.
LEMMA RestartRefuses == TypeOK /\ Restart => Promise!Next
<1> SUFFICES ASSUME TypeOK, Restart PROVE Promise!Next
  OBVIOUS
<1> DEFINE S == {r \in Requests : pc[r] \notin Finished \cup {"idle"}}
<1>1. \A r \in S : HoldState[r] = "held"
  BY DEF HoldState, SeenAs, Finished
<1>2. HoldState' = [r \in Requests |-> IF r \in S THEN "refused" ELSE HoldState[r]]
  BY DEF Restart, HoldState, SeenAs, Finished
<1>3. S \in SUBSET Requests /\ granted' = granted
  BY DEF Restart
<1> HIDE DEF S
<1>4. Promise!Refuse(S)
  BY <1>1, <1>2, <1>3 DEF Promise!Refuse
<1>5. QED
  BY <1>3, <1>4 DEF Promise!Next

\* The hold is a one-time release also with the API's answers to its poll and
\* through restarts of the gateway, for any number of requests held at the time.
THEOREM FlowImplementsPromise == FlowSpec => ImplementsPromise
<1>1. FlowInit => Promise!Init
  <2>1. SeenAs("idle") = "new"
    BY DEF SeenAs, Finished
  <2>2. QED
    BY <2>1 DEF FlowInit, Init, Promise!Init, HoldState
<1>2. FlowInv /\ [FlowNext]_flowVars => [Promise!Next]_<<HoldState, granted>>
  <2> SUFFICES ASSUME FlowInv, [FlowNext]_flowVars
               PROVE  [Promise!Next]_<<HoldState, granted>>
    OBVIOUS
  <2>1. TypeOK /\ Authority /\ OwnershipInv /\ RInv
    BY DEF FlowInv, HoldInv
  <2>2. CASE Restart
    BY <2>1, <2>2, RestartRefuses
  <2>3. CASE [Next]_vars
    BY <2>1, <2>3, PromiseStep
  <2>4. QED
    BY <2>1, <2>2, <2>3, FlowParts DEF flowVars
<1>3. QED
  BY <1>1, <1>2, FlowInvariance, PTL DEF FlowSpec, ImplementsPromise, Promise!Spec
=============================================================================
