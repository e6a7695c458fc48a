--------------------------- MODULE ApprovalRecord ---------------------------
(***************************************************************************)
(* The durable approval request of the API (approval-service.ts): a row    *)
(* with a status and a JSON context whose _vti part holds the step-up      *)
(* request, its delivery state, the actor's acknowledgement and the        *)
(* evidence of the decision (manager confirmation and decision VC, always  *)
(* written together).                                                      *)
(*                                                                         *)
(* Every handler reads the row, awaits (verification, signing, a dispatch  *)
(* over HTTP), and then writes back the whole context it built from what   *)
(* it read, with an update by id and no condition.  The read and the write *)
(* are separate actions, and a call may die between any two of its awaits. *)
(***************************************************************************)
EXTENDS Naturals, FiniteSets

CONSTANTS
    Approvals,   \* rows
    Calls        \* invocations of the handlers; each serves one request

VARIABLES
    row,         \* the ApprovalRequest rows
    creation,    \* how far createApproval is, per row
    call,        \* the local state of each call
    dispatched,  \* calls whose dispatchApprovalTrustTask was accepted
    accepted,    \* decide calls answered with the updated row
    audits,      \* decide calls with an audit log entry
    overlapped   \* history: rows some call wrote from a context no longer current

recordVars == <<row, creation, call, dispatched, accepted, audits, overlapped>>

Verdict == {"approved", "denied"}
Protocol == {"legacy", "openvtc"}
NoEvidence == [protocol |-> "none", decision |-> "none"]
Evidence == [protocol : Protocol, decision : Verdict] \cup {NoEvidence}

\* What the _vti part of the context is told apart by.
Context == [stepUp : BOOLEAN, acknowledged : BOOLEAN,
            delivery : {"none", "queued", "failed", "sent"}, evidence : Evidence]

BaseContext == [stepUp |-> FALSE, acknowledged |-> FALSE, delivery |-> "none",
                evidence |-> NoEvidence]
QueuedContext == [BaseContext EXCEPT !.stepUp = TRUE, !.delivery = "queued"]

\* version counts the writes; it is how this module tells a stale write.
Row == [status : {"absent", "pending"} \cup Verdict, context : Context, version : Nat]

Op == {"decide", "trigger", "ack"}
Phase == {"read", "sign", "dispatch", "sent", "failed", "audit", "done", "dead"}
LocalState == [op : Op \cup {"none"}, phase : Phase, id : Approvals, context : Context,
               version : Nat, verdict : Verdict, protocol : Protocol \cup {"none"}]

RecordTypeOK ==
    /\ row \in [Approvals -> Row]
    /\ creation \in [Approvals -> {"none", "row", "done"}]
    /\ call \in [Calls -> LocalState]
    /\ dispatched \subseteq Calls /\ accepted \subseteq Calls
    /\ audits \subseteq accepted
    /\ overlapped \subseteq Approvals

RecordInit ==
    /\ row = [a \in Approvals |-> [status |-> "absent", context |-> BaseContext, version |-> 0]]
    /\ creation = [a \in Approvals |-> "none"]
    /\ \E a \in Approvals :
         call = [c \in Calls |-> [op |-> "none", phase |-> "read", id |-> a,
                   context |-> BaseContext, version |-> 0, verdict |-> "denied",
                   protocol |-> "none"]]
    /\ dispatched = {} /\ accepted = {} /\ audits = {} /\ overlapped = {}

\* db.approvalRequest.update({ where: { id } }): the last writer wins.
Update(a, status, context, versionRead) ==
    /\ row' = [row EXCEPT ![a] = [status |-> status, context |-> context,
                                  version |-> @.version + 1]]
    /\ overlapped' = IF row[a].version = versionRead THEN overlapped
                     ELSE overlapped \cup {a}

\* The update of a handler that leaves the status alone.
UpdateContext(c, context) ==
    Update(call[c].id, row[call[c].id].status, context, call[c].version)

Advance(c, phase) == call' = [call EXCEPT ![c].phase = phase]

-----------------------------------------------------------------------------
(* createApproval: two writes.  With the DIDComm binding it then runs a     *)
(* trigger itself, which is one of the calls below.                         *)

CreateRow(a) ==
    /\ creation[a] = "none"
    /\ creation' = [creation EXCEPT ![a] = "row"]
    /\ Update(a, "pending", BaseContext, 0)
    /\ UNCHANGED <<call, dispatched, accepted, audits>>

\* The second write overwrites the context whatever happened since the first.
CreateContext(a) ==
    /\ creation[a] = "row"
    /\ creation' = [creation EXCEPT ![a] = "done"]
    /\ Update(a, row[a].status, QueuedContext, 1)
    /\ UNCHANGED <<call, dispatched, accepted, audits>>

-----------------------------------------------------------------------------
(* decideApproval, decideApprovalByBridgeId, decideApprovalByOpenVtc        *)

\* verifyManagerConfirmation: what a confirmation of either protocol is checked
\* against is in the stored step-up request.  A signature that does not verify
\* ends the call, which then leaves no trace.
ConfirmationVerifies(a, protocol) == protocol # "none" => row[a].context.stepUp

\* Reads the row and passes its guards: it is pending, and an approval comes
\* with a confirmation that verifies.
DecideRead(c, a, verdict, protocol) ==
    /\ call[c].op = "none"
    /\ row[a].status = "pending"
    /\ verdict = "approved" => protocol # "none"
    /\ ConfirmationVerifies(a, protocol)
    /\ call' = [call EXCEPT ![c] = [op |-> "decide", phase |-> "sign", id |-> a,
                  context |-> row[a].context, version |-> row[a].version,
                  verdict |-> verdict, protocol |-> protocol]]
    /\ UNCHANGED <<row, creation, dispatched, accepted, audits, overlapped>>

\* The decision credential is signed and verified; the row is written.
DecidedContext(l) ==
    IF l.protocol = "none" THEN l.context
    ELSE [l.context EXCEPT !.evidence = [protocol |-> l.protocol, decision |-> l.verdict]]

DecideWrite(c) ==
    /\ call[c].op = "decide" /\ call[c].phase = "sign"
    /\ Update(call[c].id, call[c].verdict, DecidedContext(call[c]), call[c].version)
    /\ Advance(c, "audit")
    /\ accepted' = accepted \cup {c}
    /\ UNCHANGED <<creation, dispatched, audits>>

\* The audit entry; an error writing it is only logged.
DecideAudit(c, ok) ==
    /\ call[c].op = "decide" /\ call[c].phase = "audit"
    /\ audits' = IF ok THEN audits \cup {c} ELSE audits
    /\ Advance(c, "done")
    /\ UNCHANGED <<row, creation, dispatched, accepted, overlapped>>

-----------------------------------------------------------------------------
(* triggerApprovalVtiNotification                                           *)

\* A trigger that never looks at the delivery state.
TriggerRead_Always(c, a) ==
    /\ call[c].op = "none"
    /\ row[a].context.stepUp
    /\ call' = [call EXCEPT ![c] = [@ EXCEPT !.op = "trigger", !.phase = "dispatch",
                  !.id = a, !.context = row[a].context, !.version = row[a].version]]
    /\ UNCHANGED <<row, creation, dispatched, accepted, audits, overlapped>>

\* Called by a route, or by createApproval once its second write is done.
TriggerRead(c, a) ==
    /\ call[c].op = "none"
    /\ row[a].context.stepUp
    /\ row[a].context.delivery # "sent"
    /\ call' = [call EXCEPT ![c] = [@ EXCEPT !.op = "trigger", !.phase = "dispatch",
                  !.id = a, !.context = row[a].context, !.version = row[a].version]]
    /\ UNCHANGED <<row, creation, dispatched, accepted, audits, overlapped>>

\* dispatchApprovalTrustTask: accepted by the adapter, or failed.
Dispatch(c, ok) ==
    /\ call[c].op = "trigger" /\ call[c].phase = "dispatch"
    /\ dispatched' = IF ok THEN dispatched \cup {c} ELSE dispatched
    /\ Advance(c, IF ok THEN "sent" ELSE "failed")
    /\ UNCHANGED <<row, creation, accepted, audits, overlapped>>

TriggerWrite(c) ==
    /\ call[c].op = "trigger" /\ call[c].phase \in {"sent", "failed"}
    /\ UpdateContext(c, [call[c].context EXCEPT !.delivery = call[c].phase])
    /\ Advance(c, "done")
    /\ UNCHANGED <<creation, dispatched, accepted, audits>>

-----------------------------------------------------------------------------
(* recordActorAck                                                           *)

AckRead(c, a) ==
    /\ call[c].op = "none"
    /\ row[a].context.stepUp
    /\ call' = [call EXCEPT ![c] = [@ EXCEPT !.op = "ack", !.phase = "read",
                  !.id = a, !.context = row[a].context, !.version = row[a].version]]
    /\ UNCHANGED <<row, creation, dispatched, accepted, audits, overlapped>>

\* An acknowledgement that rebuilds _vti from the step-up request alone.
AckWrite_DropsEvidence(c) ==
    /\ call[c].op = "ack" /\ call[c].phase = "read"
    /\ UpdateContext(c, [call[c].context EXCEPT !.acknowledged = TRUE, !.evidence = NoEvidence])
    /\ Advance(c, "done")
    /\ UNCHANGED <<creation, dispatched, accepted, audits>>

AckWrite(c) ==
    /\ call[c].op = "ack" /\ call[c].phase = "read"
    /\ UpdateContext(c, [call[c].context EXCEPT !.acknowledged = TRUE])
    /\ Advance(c, "done")
    /\ UNCHANGED <<creation, dispatched, accepted, audits>>

\* The process dies, signing fails or the database is down: no further step.
CallDies(c) ==
    /\ call[c].op # "none" /\ call[c].phase \notin {"done", "dead"}
    /\ Advance(c, "dead")
    /\ UNCHANGED <<row, creation, dispatched, accepted, audits, overlapped>>

-----------------------------------------------------------------------------
(* getApprovalStatus, as the gateway polls it                               *)

StatusReply(a) ==
    LET e == row[a].context.evidence IN
    [status |-> IF row[a].status = "absent" THEN "error" ELSE row[a].status,
     vc |-> IF e = NoEvidence THEN "absent" ELSE "valid",
     confirmation |-> CASE e.protocol = "none" -> "absent"
                        [] e.protocol = "legacy" -> "legacy"
                        [] OTHER -> IF e.decision = "approved" THEN "valid" ELSE "invalid"]

Handler(c) ==
    \/ \E a \in Approvals :
         \/ \E verdict \in Verdict, protocol \in Protocol \cup {"none"} :
              DecideRead(c, a, verdict, protocol)
         \/ TriggerRead(c, a) \/ AckRead(c, a)
    \/ DecideWrite(c)
    \/ \E ok \in BOOLEAN : DecideAudit(c, ok) \/ Dispatch(c, ok)
    \/ TriggerWrite(c) \/ AckWrite(c) \/ CallDies(c)

Create(a) == CreateRow(a) \/ CreateContext(a)

RecordNext == (\E a \in Approvals : Create(a)) \/ (\E c \in Calls : Handler(c))

RecordSpec == RecordInit /\ [][RecordNext]_recordVars

-----------------------------------------------------------------------------
(* Properties                                                               *)

DecidedBy(a) == {c \in accepted : call[c].id = a}
DispatchedFor(a) == {c \in dispatched : call[c].id = a}
EvidenceKept(a) ==
    row[a].status = "approved" =>
        row[a].context.evidence # NoEvidence /\ row[a].context.evidence.decision = "approved"

\* As long as no call of a row wrote from a stale read, the row is decided at
\* most once, an approved row keeps the evidence the gateway needs, and its
\* status is what the one accepted call decided.
SerialDecisionSound ==
    \A a \in Approvals \ overlapped :
        /\ Cardinality(DecidedBy(a)) <= 1
        /\ EvidenceKept(a)
        /\ \A c \in DecidedBy(a) : row[a].status = call[c].verdict

\* Whatever overlaps, a row only becomes approved through a call that verified
\* a manager's confirmation (approval-service.ts:617-631), and a decided row is
\* never open again.
ApprovedOnConfirmation ==
    \A a \in Approvals :
        /\ row[a].status = "approved" =>
             \E c \in DecidedBy(a) : call[c].verdict = "approved" /\ call[c].protocol # "none"
        /\ DecidedBy(a) # {} => row[a].status \in Verdict

\* Trust tasks whose delivery was also recorded: at most one per hold, as long
\* as no trigger wrote from a stale read.
SerialDispatchOnce ==
    \A a \in Approvals \ overlapped :
        Cardinality({c \in DispatchedFor(a) : call[c].phase = "done"}) <= 1

=============================================================================
