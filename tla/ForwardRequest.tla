-------------------------- MODULE ForwardRequest --------------------------
(***************************************************************************)
(* The way of a proxied request through the gateway: CONNECT or plain      *)
(* proxying (gateway.rs), rule resolution (mitm.rs), forward_request       *)
(* (forward.rs) or handle_websocket (websocket.rs), with the events each   *)
(* exit leaves in the request log.  Rules, policy and the hold itself are  *)
(* modelled by RuleCache, PolicyEval and ApprovalHold; here their outcomes *)
(* are choices.                                                            *)
(*                                                                         *)
(* The agent may disconnect at every await: hyper then drops the future.   *)
(***************************************************************************)
EXTENDS RequestLog

CONSTANTS
    Contents,    \* the bodies an agent may send
    Redact,      \* what DLP makes of a body: redacted, or left as it is
    Previews,    \* what an approver may be shown, no preview included
    Preview      \* of a body: its first BODY_PREVIEW_BYTES bytes, decoded lossily

\* Bodies that differ beyond the limit, or in bytes that are not UTF-8, have the
\* same preview; an empty one has none.
ASSUME BodyAssumption ==
    /\ Redact \in [Contents -> Contents]
    /\ Preview \in [Contents -> Previews]
    /\ {"none", "trailer", "emptied"} \cap Contents = {}
    /\ "none" \notin Previews

VARIABLES
    pc,       \* where the request is
    ctx,      \* what is known of it: protocol, agent, LLM upstream, injections
    verdict,  \* PolicyDecision
    buffer,   \* condition_buffer: the copy that policy and preview are taken from
    body,     \* the body to be forwarded
    shown,    \* the preview the approver was shown
    sent,     \* the body that went upstream, if any
    reply     \* how the request ended

reqVars == <<pc, ctx, verdict, buffer, body, shown, sent, reply>>
vars == <<logVars, reqVars>>

Contexts == [ws : BOOLEAN, agent : BOOLEAN, llm : BOOLEAN, inject : BOOLEAN]

NoContext == [ws |-> FALSE, agent |-> FALSE, llm |-> FALSE, inject |-> FALSE]

\* An upgrade is only seen inside a MITM session, which needs an agent token;
\* only an agent has rules.
Arrivals == {c \in Contexts : (c.ws => c.agent /\ ~c.llm) /\ (c.inject => c.agent)}

\* PolicyDecision; Blocked, RateLimited and BlockedByDefaultPolicy end alike.
Verdicts == {"none", "allow", "approval", "refuse"}
Bodies == Contents \cup {"none", "trailer", "emptied"}

\* Replies after which nothing is written about how the request ended.
Silent == {"tunnelled", "refused", "synthetic", "failed", "hint", "guidance", "relayed", "gone"}

Replies == Silent \cup {"none", "blocked", "rejected", "cancelled", "passed"}

TypeOK ==
    /\ LogTypeOK
    /\ pc \in [Requests -> {"idle", "prepare", "policy", "hold", "send", "respond", "done"}]
    /\ ctx \in [Requests -> Contexts]
    /\ verdict \in [Requests -> Verdicts]
    /\ buffer \in [Requests -> Contents \cup {"none"}]
    /\ body \in [Requests -> Bodies]
    /\ shown \in [Requests -> Previews \cup {"none"}]
    /\ sent \in [Requests -> Bodies]
    /\ reply \in [Requests -> Replies]

Init ==
    /\ LogInit
    /\ pc = [r \in Requests |-> "idle"]
    /\ ctx = [r \in Requests |-> NoContext]
    /\ verdict = [r \in Requests |-> "none"]
    /\ buffer = [r \in Requests |-> "none"]
    /\ body = [r \in Requests |-> "none"]
    /\ shown = [r \in Requests |-> "none"]
    /\ sent = [r \in Requests |-> "none"]
    /\ reply = [r \in Requests |-> "none"]

Goto(r, p) == pc' = [pc EXCEPT ![r] = p]

\* The future returns or is dropped, and its locals with it.
End(r, how) ==
    /\ Goto(r, "done")
    /\ reply' = [reply EXCEPT ![r] = how]
    /\ buffer' = [buffer EXCEPT ![r] = "none"]
    /\ body' = [body EXCEPT ![r] = "none"]
    /\ ctx' = [ctx EXCEPT ![r] = NoContext]

NoEvent == UNCHANGED logVars

---------------------------------------------------------------------------
\* handle_connect without a token: bytes are spliced, nothing is forwarded.
Tunnel(r) ==
    /\ pc[r] = "idle"
    /\ End(r, "tunnelled")
    /\ NoEvent
    /\ UNCHANGED <<verdict, shown, sent>>

\* A request of an agent, or a plain one of somebody without a token, with the
\* rules that resolve, resolve_rules and the vault fallback found for it.
Resolve(r) ==
    /\ pc[r] = "idle"
    /\ \E c \in Arrivals :
         /\ ctx' = [ctx EXCEPT ![r] = c]
         /\ Goto(r, IF c.ws THEN "policy" ELSE "prepare")
    /\ \E b \in Contents : body' = [body EXCEPT ![r] = b]
    /\ NoEvent
    /\ UNCHANGED <<verdict, buffer, shown, sent, reply>>

\* Bad token, database error, ambiguous or unknown connection.
ResolveRefuses(r) ==
    /\ pc[r] = "idle"
    /\ End(r, "refused")
    /\ NoEvent
    /\ UNCHANGED <<verdict, shown, sent>>

\* The token endpoint of a connected provider is answered by the gateway, and
\* so is a default interception whose handler accepts the body.
Intercept(r) ==
    /\ pc[r] = "prepare"
    /\ End(r, "synthetic")
    /\ NoEvent
    /\ UNCHANGED <<verdict, shown, sent>>

\* The body is buffered where an LLM upstream, a condition or an MCP channel
\* needs it, and for an LLM upstream redacted if it is text and Presidio answers;
\* buffer and body both change.
Prepare_BufferOnly(r) ==
    /\ pc[r] = "prepare"
    /\ \E b \in IF ctx[r].llm THEN {body[r], Redact[body[r]]} ELSE {"none", body[r]} :
         buffer' = [buffer EXCEPT ![r] = b]
    /\ Goto(r, "policy")
    /\ NoEvent
    /\ UNCHANGED <<ctx, verdict, body, shown, sent, reply>>

Prepare(r) ==
    /\ pc[r] = "prepare"
    /\ \E b \in IF ctx[r].llm THEN {body[r], Redact[body[r]]} ELSE {"none", body[r]} :
         /\ buffer' = [buffer EXCEPT ![r] = b]
         /\ body' = [body EXCEPT ![r] = IF b = "none" THEN @ ELSE b]
    /\ Goto(r, "policy")
    /\ NoEvent
    /\ UNCHANGED <<ctx, verdict, shown, sent, reply>>

\* policy::evaluate: without an agent there are no rules to match.
evaluate(r) == IF ctx[r].agent THEN {"allow", "approval", "refuse"} ELSE {"allow"}

\* The early returns for block, rate limit and default deny.
Refuse(r) ==
    /\ pc[r] = "policy" /\ ~ctx[r].ws
    /\ "refuse" \in evaluate(r)
    /\ verdict' = [verdict EXCEPT ![r] = "refuse"]
    /\ End(r, "blocked")
    /\ emit(ctx[r].agent, Event(r, "refused", FALSE, FALSE))
    /\ UNCHANGED <<shown, sent>>
    /\ UNCHANGED <<batch, flushing, at, rows, cancelling>>

\* handle_websocket refuses a manual approval too, and emits nothing.
RefuseUpgrade(r) ==
    /\ pc[r] = "policy" /\ ctx[r].ws
    /\ \E v \in evaluate(r) \ {"allow"} : verdict' = [verdict EXCEPT ![r] = v]
    /\ End(r, "blocked")
    /\ NoEvent
    /\ UNCHANGED <<shown, sent>>

\* Neither refused nor held: the request is consumed, its rules are applied.
Permit(r) ==
    /\ pc[r] = "policy" /\ ~ctx[r].ws
    /\ "allow" \in evaluate(r)
    /\ verdict' = [verdict EXCEPT ![r] = "allow"]
    /\ Goto(r, "send")
    /\ NoEvent
    /\ UNCHANGED <<ctx, buffer, body, shown, sent, reply>>

PermitUpgrade(r) ==
    /\ pc[r] = "policy" /\ ctx[r].ws
    /\ "allow" \in evaluate(r)
    /\ verdict' = [verdict EXCEPT ![r] = "allow"]
    /\ Goto(r, "send")
    /\ NoEvent
    /\ UNCHANGED <<ctx, buffer, body, shown, sent, reply>>

\* The preview is taken from the buffer, or peeked from the body, which is put
\* together again; the log id is handed to the guard and the pending event is
\* emitted.
Hold(r) ==
    /\ pc[r] = "policy"
    /\ "approval" \in evaluate(r)
    /\ ~ctx[r].ws
    /\ verdict' = [verdict EXCEPT ![r] = "approval"]
    /\ shown' = [shown EXCEPT ![r] = Preview[IF buffer[r] = "none" THEN body[r] ELSE buffer[r]]]
    /\ Goto(r, "hold")
    /\ emit(TRUE, Event(r, "pending", FALSE, FALSE))
    /\ UNCHANGED <<ctx, buffer, body, sent, reply>>
    /\ UNCHANGED <<batch, flushing, at, rows, cancelling>>

\* The hold is approved: the guard is defused and the request goes on.
Approve(r) ==
    /\ pc[r] = "hold"
    /\ Goto(r, "send")
    /\ NoEvent
    /\ UNCHANGED <<ctx, verdict, buffer, body, shown, sent, reply>>

Reject(r) ==
    /\ pc[r] = "hold"
    /\ End(r, "rejected")
    /\ emit(TRUE, Event(r, "denied", FALSE, TRUE))
    /\ UNCHANGED <<verdict, shown, sent>>
    /\ UNCHANGED <<batch, flushing, at, rows, cancelling>>

\* The agent is gone; a guard that is still armed spawns its cleanup.
Disconnect_NoLogContext(r) ==
    /\ pc[r] \in {"prepare", "policy", "hold", "send", "respond"}
    /\ End(r, IF pc[r] = "hold" THEN "cancelled" ELSE "gone")
    /\ NoEvent
    /\ UNCHANGED <<verdict, shown, sent>>

Disconnect(r) ==
    /\ pc[r] \in {"prepare", "policy", "hold", "send", "respond"}
    /\ End(r, IF pc[r] = "hold" THEN "cancelled" ELSE "gone")
    /\ cancelling' = IF pc[r] = "hold" THEN cancelling \cup {r} ELSE cancelling
    /\ UNCHANGED <<channel, batch, flushing, at, rows, lost>>
    /\ UNCHANGED <<verdict, shown, sent>>

\* Commit trailer, request signing, and the request goes upstream; a trailer
\* that fails empties the body.
Send(r) ==
    /\ pc[r] = "send" /\ ~ctx[r].ws
    /\ \E b \in {body[r]} \cup IF ctx[r].inject THEN {"trailer", "emptied"} ELSE {} :
         /\ body' = [body EXCEPT ![r] = b]
         /\ sent' = [sent EXCEPT ![r] = b]
    /\ Goto(r, "respond")
    /\ NoEvent
    /\ UNCHANGED <<ctx, verdict, buffer, shown, reply>>

\* An upgrade goes upstream on a connection of its own, as it came.
SendUpgrade(r) ==
    /\ pc[r] = "send" /\ ctx[r].ws
    /\ sent' = [sent EXCEPT ![r] = body[r]]
    /\ Goto(r, "respond")
    /\ NoEvent
    /\ UNCHANGED <<ctx, verdict, buffer, body, shown, reply>>

\* Reading the body, signing, connecting or the upstream failed: 502.
Fail(r) ==
    /\ pc[r] \in {"prepare", "policy", "send", "respond"}
    /\ pc[r] = "policy" => ctx[r].agent /\ ~ctx[r].ws
    /\ End(r, "failed")
    /\ NoEvent
    /\ UNCHANGED <<verdict, shown, sent>>

\* injection_count > 0: a rule was applied, or the key of the LLM upstream.
Injected(r) == ctx[r].inject \/ ctx[r].llm

\* Responses the gateway writes itself or relays from a buffer: a hint on a
\* deprecated host, guidance for an agent without credentials, and a 400 that
\* is not about them.
RespondSilently(r) ==
    /\ pc[r] = "respond" /\ ~ctx[r].ws /\ ctx[r].agent
    /\ \/ End(r, "hint")
       \/ ~Injected(r) /\ \E how \in {"guidance", "relayed"} : End(r, how)
    /\ NoEvent
    /\ UNCHANGED <<verdict, shown, sent>>

\* A JSON answer on an MCP channel is buffered and returned with a signed
\* presentation in it, or as it came.
InjectPresentation(r) ==
    /\ pc[r] = "respond" /\ ~ctx[r].ws
    /\ End(r, "relayed")
    /\ NoEvent
    /\ UNCHANGED <<verdict, shown, sent>>

\* The upstream does not switch protocols.
RelayRefusal(r) ==
    /\ pc[r] = "respond" /\ ctx[r].ws
    /\ End(r, "relayed")
    /\ NoEvent
    /\ UNCHANGED <<verdict, shown, sent>>

\* track_and_wrap: the outcome is emitted, as an update of the held request's
\* row where there is one.
Track_NewRow(r) ==
    /\ pc[r] = "respond" /\ ~ctx[r].ws
    /\ End(r, "passed")
    /\ emit(ctx[r].agent,
            Event(r, IF verdict[r] = "approval" THEN "approved" ELSE "allowed", Injected(r), FALSE))
    /\ UNCHANGED <<verdict, shown, sent>>
    /\ UNCHANGED <<batch, flushing, at, rows, cancelling>>

Track(r) ==
    /\ pc[r] = "respond" /\ ~ctx[r].ws
    /\ End(r, "passed")
    /\ LET held == verdict[r] = "approval" IN
         emit(ctx[r].agent,
              Event(r, IF held THEN "approved" ELSE "allowed", Injected(r), held))
    /\ UNCHANGED <<verdict, shown, sent>>
    /\ UNCHANGED <<batch, flushing, at, rows, cancelling>>

\* emit_telemetry: a piped upgrade was allowed, whatever was decided.
TrackUpgrade(r) ==
    /\ pc[r] = "respond" /\ ctx[r].ws
    /\ End(r, "passed")
    /\ emit(ctx[r].agent, Event(r, "allowed", Injected(r), FALSE))
    /\ UNCHANGED <<verdict, shown, sent>>
    /\ UNCHANGED <<batch, flushing, at, rows, cancelling>>

Handle(r) ==
    \/ Tunnel(r) \/ Resolve(r) \/ ResolveRefuses(r)
    \/ Intercept(r) \/ Prepare(r)
    \/ Refuse(r) \/ Permit(r) \/ RefuseUpgrade(r) \/ PermitUpgrade(r)
    \/ Hold(r) \/ Approve(r) \/ Reject(r) \/ Disconnect(r)
    \/ Send(r) \/ SendUpgrade(r) \/ Fail(r)
    \/ RespondSilently(r) \/ InjectPresentation(r) \/ RelayRefusal(r)
    \/ Track(r) \/ TrackUpgrade(r)

Next == (\E r \in Requests : Handle(r)) \/ (LogNext /\ UNCHANGED reqVars)

Spec == Init /\ [][Next]_vars

\* The flush loop is a task of the runtime, and spawned cleanups are run.
FairSpec ==
    /\ Spec
    /\ WF_vars(Flush /\ UNCHANGED reqVars)
    /\ \A r \in Requests : WF_vars((MarkCancelled(r) \/ MarkFails(r)) /\ UNCHANGED reqVars)

---------------------------------------------------------------------------
\* forward_request, handle_websocket: whatever goes upstream was allowed, or
\* is an HTTP request that was held; no interception, refusal or upgrade that
\* needs an approval reaches the upstream.
OnlyPermittedIsSent ==
    \A r \in Requests : sent[r] # "none" =>
        \/ verdict[r] = "allow"
        \/ verdict[r] = "approval" /\ shown[r] # "none" /\ reply[r] # "rejected"

\* forward.rs:298, 500 and 550: what goes upstream after an approval begins
\* with what the approver was shown, and is the body the policy judged where it
\* read one, a redaction of it included; unless the gateway added its own commit
\* trailer, or the body is empty, because the trailer failed.  It says no more
\* of an approval: what lies beyond the limit of the preview, or is not text,
\* goes upstream and nobody was shown it.
SentAsShown ==
    \A r \in Requests : sent[r] \notin {"none", "trailer", "emptied"} =>
        /\ shown[r] # "none" => Preview[sent[r]] = shown[r]
        /\ buffer[r] # "none" => sent[r] = buffer[r]

\* What the log says of a request is what happened to it, whatever order the
\* batches, the updates and the guard's own update are written in.
LogTellsTruth ==
    \A r \in Requests :
        /\ rows[r] = "passed"    => reply[r] = "passed" /\ verdict[r] = "allow"
        /\ rows[r] = "refused"   => reply[r] = "blocked" /\ sent[r] = "none"
        /\ rows[r] = "approved"  => reply[r] = "passed" /\ verdict[r] = "approval"
        /\ rows[r] = "denied"    => reply[r] = "rejected" /\ sent[r] = "none"
        /\ rows[r] = "cancelled" => reply[r] = "cancelled" /\ sent[r] = "none"
        /\ rows[r] = "held"      => verdict[r] = "approval" /\ shown[r] # "none"

\* forward.rs:697, 1108 and approval.rs:156: once nothing is on its way to the
\* log, a request still logged as held is held, or an event or statement about
\* it was lost, or it was approved and ended on one of the exits that emit
\* nothing; denied, timed out and cancelled holds never stay "held".
HeldRowsExplained ==
    Quiet => \A r \in Requests :
        rows[r] = "held" /\ pc[r] = "done" =>
            r \in lost \/ reply[r] \in Silent

\* A rejection reaches the log, unless an event or a statement was lost.
RejectionReachesLog ==
    \A r \in Requests : reply[r] = "rejected" ~> (rows[r] = "denied" \/ r \in lost)
===========================================================================
