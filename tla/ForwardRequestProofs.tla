------------------------ MODULE ForwardRequestProofs ------------------------
(***************************************************************************)
(* For any requests, any channel and any batch: what goes upstream was     *)
(* permitted and begins with what an approver saw, and the log tells the   *)
(* truth.                                                                  *)
(*                                                                         *)
(* Way is what each place of a request's way implies.  An event says what  *)
(* has become of its request for good, so it is still true when the flush  *)
(* loop gets to it, however late (Truth); rows are written from events and *)
(* from the guards' cleanups only.  The row of a hold is inserted before   *)
(* an update of it is tried (Queued), so nothing that is not lost fails to *)
(* show in it (Accounted).                                                 *)
(***************************************************************************)
EXTENDS ForwardRequest, TLAPS

Permitted(r) ==
    verdict[r] = "allow" \/ (verdict[r] = "approval" /\ shown[r] # "none")

Way ==
    \A r \in Requests :
        /\ reply[r] = "none" <=> pc[r] # "done"
        /\ pc[r] \in {"idle", "prepare", "policy"} =>
             verdict[r] = "none" /\ shown[r] = "none" /\ sent[r] = "none"
        /\ pc[r] \in {"prepare", "policy", "hold", "send"} => body[r] \in Contents
        /\ pc[r] \in {"idle", "prepare"} => buffer[r] = "none"
        /\ pc[r] \in {"policy", "hold", "send"} /\ buffer[r] # "none" => body[r] = buffer[r]
        /\ pc[r] = "hold" => verdict[r] = "approval" /\ shown[r] # "none" /\ sent[r] = "none"
        /\ pc[r] = "send" => Permitted(r) /\ sent[r] = "none"
        /\ pc[r] = "respond" => Permitted(r)
        /\ pc[r] \in {"hold", "send", "respond"} /\ ctx[r].ws => verdict[r] = "allow"
        /\ pc[r] \in {"hold", "send"} /\ shown[r] # "none" => Preview[body[r]] = shown[r]
        /\ sent[r] # "none" => Permitted(r) /\ reply[r] \notin {"blocked", "rejected", "cancelled"}

\* What an event says has happened.
Happened(e) ==
    LET r == e.req IN
    \/ e.decision = "allowed" /\ ~e.update /\ reply[r] = "passed" /\ verdict[r] = "allow"
    \/ e.decision = "refused" /\ ~e.update /\ reply[r] = "blocked" /\ sent[r] = "none"
    \/ e.decision = "pending" /\ ~e.update /\ verdict[r] = "approval" /\ shown[r] # "none"
    \/ e.decision = "denied" /\ e.update /\ reply[r] = "rejected" /\ sent[r] = "none"
    \/ e.decision = "approved" /\ e.update /\ reply[r] = "passed" /\ verdict[r] = "approval"

Truth ==
    /\ \A i \in 1..Len(channel) : Happened(channel[i])
    /\ \A i \in 1..Len(batch) : Happened(batch[i])
    /\ \A r \in cancelling : reply[r] = "cancelled" /\ sent[r] = "none"

Inv == TypeOK /\ Way /\ SentAsShown /\ Truth /\ LogTellsTruth

-----------------------------------------------------------------------------
(* What a step of a request leaves true                                     *)

\* A step of the request keeps the types of its own state.
LEMMA RequestTypes ==
    ASSUME TypeOK, Way, NEW r \in Requests, Handle(r)
    PROVE  /\ pc' \in [Requests -> {"idle", "prepare", "policy", "hold", "send", "respond", "done"}]
           /\ ctx' \in [Requests -> Contexts]
           /\ verdict' \in [Requests -> Verdicts]
           /\ buffer' \in [Requests -> Contents \cup {"none"}]
           /\ body' \in [Requests -> Bodies]
           /\ shown' \in [Requests -> Previews \cup {"none"}]
           /\ sent' \in [Requests -> Bodies]
           /\ reply' \in [Requests -> Replies]
<1> USE DEF TypeOK, Goto, End, NoContext, Contexts, Verdicts, Bodies, Replies, Silent
<1>1. CASE Tunnel(r)
  BY <1>1 DEF Tunnel
<1>2. CASE ResolveRefuses(r)
  BY <1>2 DEF ResolveRefuses
<1>3. CASE Intercept(r)
  BY <1>3 DEF Intercept
<1>4. CASE Reject(r)
  BY <1>4 DEF Reject
<1>5. CASE Disconnect(r)
  BY <1>5 DEF Disconnect
<1>6. CASE Fail(r)
  BY <1>6 DEF Fail
<1>7. CASE RespondSilently(r) \/ InjectPresentation(r) \/ RelayRefusal(r)
  <2>1. PICK how \in Silent : End(r, how) /\ UNCHANGED <<verdict, shown, sent>>
    BY <1>7 DEF RespondSilently, InjectPresentation, RelayRefusal
  <2>2. QED
    BY <2>1
<1>8. CASE Track(r) \/ TrackUpgrade(r)
  <2>1. End(r, "passed") /\ UNCHANGED <<verdict, shown, sent>>
    BY <1>8 DEF Track, TrackUpgrade
  <2>2. QED
    BY <2>1
<1>9. CASE Resolve(r)
  BY <1>9 DEF Resolve, Arrivals
<1>10. CASE Prepare(r)
  <2>1. body[r] \in Contents /\ Redact[body[r]] \in Contents
    BY <1>10, BodyAssumption DEF Prepare, Way
  <2>2. QED
    BY <1>10, <2>1 DEF Prepare
<1>11. CASE Refuse(r) \/ RefuseUpgrade(r)
  <2>1. CASE Refuse(r)
    BY <2>1 DEF Refuse, evaluate
  <2>2. CASE RefuseUpgrade(r)
    BY <2>2 DEF RefuseUpgrade, evaluate
  <2>3. QED
    BY <1>11, <2>1, <2>2
<1>12. CASE Permit(r) \/ PermitUpgrade(r)
  <2>1. CASE Permit(r)
    BY <2>1 DEF Permit
  <2>2. CASE PermitUpgrade(r)
    BY <2>2 DEF PermitUpgrade
  <2>3. QED
    BY <1>12, <2>1, <2>2
<1>13. CASE Approve(r)
  BY <1>13 DEF Approve
<1>14. CASE Hold(r)
  <2>1. body[r] \in Contents /\ \A b \in Contents : Preview[b] \in Previews
    BY <1>14, BodyAssumption DEF Hold, Way
  <2>2. QED
    BY <1>14, <2>1 DEF Hold
<1>15. CASE Send(r) \/ SendUpgrade(r)
  <2>1. CASE Send(r)
    BY <2>1 DEF Send
  <2>2. CASE SendUpgrade(r)
    BY <2>2 DEF SendUpgrade
  <2>3. QED
    BY <1>15, <2>1, <2>2
<1>16. QED
  BY <1>1, <1>2, <1>3, <1>4, <1>5, <1>6, <1>7, <1>8, <1>9, <1>10, <1>11, <1>12, <1>13, <1>14, <1>15 DEF Handle

\* A step of one request is on its way, and leaves the others alone.
LEMMA RequestWay ==
    ASSUME TypeOK, Way, SentAsShown, NEW r \in Requests, Handle(r)
    PROVE  Way' /\ SentAsShown'
<1> USE BodyAssumption DEF TypeOK, Way, SentAsShown, Permitted, Goto, End, Bodies
<1>1. CASE Tunnel(r)
  BY <1>1 DEF Tunnel
<1>2. CASE ResolveRefuses(r)
  BY <1>2 DEF ResolveRefuses
<1>3. CASE Intercept(r)
  BY <1>3 DEF Intercept
<1>4. CASE Resolve(r)
  BY <1>4 DEF Resolve
<1>5. CASE Prepare(r)
  BY <1>5 DEF Prepare
<1>6. CASE Refuse(r) \/ RefuseUpgrade(r)
  <2>1. CASE Refuse(r)
    BY <2>1 DEF Refuse
  <2>2. CASE RefuseUpgrade(r)
    BY <2>2 DEF RefuseUpgrade
  <2>3. QED
    BY <1>6, <2>1, <2>2
<1>7. CASE Permit(r) \/ PermitUpgrade(r)
  BY <1>7 DEF Permit, PermitUpgrade
<1>8. CASE Approve(r)
  BY <1>8 DEF Approve
<1>9. CASE Hold(r)
  BY <1>9 DEF Hold
<1>10. CASE Reject(r)
  BY <1>10 DEF Reject
<1>11. CASE Disconnect(r)
  BY <1>11 DEF Disconnect
<1>12. CASE Send(r) \/ SendUpgrade(r)
  BY <1>12 DEF Send, SendUpgrade
<1>13. CASE Fail(r)
  BY <1>13 DEF Fail
<1>14. CASE RespondSilently(r) \/ InjectPresentation(r) \/ RelayRefusal(r)
  BY <1>14 DEF RespondSilently, InjectPresentation, RelayRefusal
<1>15. CASE Track(r) \/ TrackUpgrade(r)
  <2>1. CASE Track(r)
    BY <2>1 DEF Track
  <2>2. CASE TrackUpgrade(r)
    BY <2>2 DEF TrackUpgrade
  <2>3. QED
    BY <1>15, <2>1, <2>2
<1>16. QED
  BY <1>1, <1>2, <1>3, <1>4, <1>5, <1>6, <1>7, <1>8, <1>9, <1>10, <1>11, <1>12, <1>13, <1>14, <1>15 DEF Handle

\* What has happened once for good stays so while a request takes a step.
LEMMA HappenedStays ==
    ASSUME TypeOK, Way, NEW r \in Requests, Handle(r)
    PROVE  /\ \A e \in Events : Happened(e) => Happened(e)'
           /\ \A q \in Requests :
                /\ reply[q] # "none" => reply'[q] = reply[q] /\ sent'[q] = sent[q]
                /\ verdict[q] # "none" => verdict'[q] = verdict[q]
                /\ shown[q] # "none" => shown'[q] = shown[q]
<1>1. \A q \in Requests :
        /\ reply[q] # "none" => reply'[q] = reply[q] /\ sent'[q] = sent[q]
        /\ verdict[q] # "none" => verdict'[q] = verdict[q]
        /\ shown[q] # "none" => shown'[q] = shown[q]
  <2> USE DEF TypeOK, Way, Goto, End
  <2>1. CASE Tunnel(r) \/ Resolve(r) \/ ResolveRefuses(r) \/ Intercept(r) \/ Prepare(r)
    BY <2>1 DEF Tunnel, Resolve, ResolveRefuses, Intercept, Prepare
  <2>2. CASE Refuse(r) \/ RefuseUpgrade(r) \/ Permit(r) \/ PermitUpgrade(r) \/ Hold(r)
    <3>1. pc[r] = "policy"
      BY <2>2 DEF Refuse, RefuseUpgrade, Permit, PermitUpgrade, Hold
    <3>2. reply[r] = "none" /\ verdict[r] = "none" /\ shown[r] = "none"
      BY <3>1
    <3>3. /\ \A q \in Requests \ {r} : verdict'[q] = verdict[q] /\ reply'[q] = reply[q]
          /\ UNCHANGED sent
      <4>1. CASE Refuse(r) \/ RefuseUpgrade(r)
        BY <4>1 DEF Refuse, RefuseUpgrade
      <4>2. CASE Permit(r) \/ PermitUpgrade(r) \/ Hold(r)
        BY <4>2 DEF Permit, PermitUpgrade, Hold
      <4>3. QED
        BY <2>2, <4>1, <4>2
    <3>4. \A q \in Requests \ {r} : shown'[q] = shown[q]
      BY <2>2 DEF Refuse, RefuseUpgrade, Permit, PermitUpgrade, Hold
    <3>5. QED
      BY <3>2, <3>3, <3>4
  <2>3. CASE Approve(r) \/ Reject(r) \/ Disconnect(r)
    <3>1. CASE Approve(r)
      BY <3>1 DEF Approve
    <3>2. CASE Reject(r)
      BY <3>2 DEF Reject
    <3>3. CASE Disconnect(r)
      BY <3>3 DEF Disconnect
    <3>4. QED
      BY <2>3, <3>1, <3>2, <3>3
  <2>4. CASE Send(r) \/ SendUpgrade(r) \/ Fail(r)
    BY <2>4 DEF Send, SendUpgrade, Fail
  <2>5. CASE RespondSilently(r) \/ InjectPresentation(r) \/ RelayRefusal(r)
    BY <2>5 DEF RespondSilently, InjectPresentation, RelayRefusal
  <2>6. CASE Track(r) \/ TrackUpgrade(r)
    <3>1. CASE Track(r)
      BY <3>1 DEF Track
    <3>2. CASE TrackUpgrade(r)
      BY <3>2 DEF TrackUpgrade
    <3>3. QED
      BY <2>6, <3>1, <3>2
  <2>7. QED
    BY <2>1, <2>2, <2>3, <2>4, <2>5, <2>6 DEF Handle
<1>2. ASSUME NEW e \in Events, Happened(e)
      PROVE  Happened(e)'
  <2>1. e.req \in Requests
    BY DEF Events
  <2>2. QED
    BY <1>1, <1>2, <2>1 DEF Happened
<1>3. QED
  BY <1>1, <1>2

\* A request offers the log at most one event, which has happened, and touches
\* nothing else of the log but the list of guards to clean up.
LEMMA OffersTheTruth ==
    ASSUME TypeOK, Way, NEW r \in Requests, Handle(r)
    PROVE  /\ UNCHANGED <<batch, flushing, at, rows>>
           /\ lost' \subseteq Requests
           /\ \/ cancelling' = cancelling
              \/ cancelling' = cancelling \cup {r} /\ reply'[r] = "cancelled" /\ sent'[r] = "none"
           /\ \/ channel' = channel
              \/ \E e \in Events : /\ channel' = Append(channel, e)
                                   /\ Len(channel) < Capacity
                                   /\ Happened(e)'
<1> DEFINE Offers(d, inj, upd) ==
      \/ UNCHANGED channel /\ lost' \in {lost, lost \cup {r}}
      \/ channel' = Append(channel, Event(r, d, inj, upd)) /\ Len(channel) < Capacity /\ UNCHANGED lost
<1>1. ASSUME NEW d \in Decisions, NEW inj \in BOOLEAN, NEW upd \in BOOLEAN
      PROVE  Event(r, d, inj, upd) \in Events
  BY DEF Event, Events
<1>2. ASSUME NEW d, NEW inj, NEW upd, NEW known, emit(known, Event(r, d, inj, upd))
      PROVE  Offers(d, inj, upd)
  BY <1>2 DEF emit, on_request, Event
<1> USE DEF TypeOK, Way, Goto, End, NoEvent, logVars, LogTypeOK
<1>3. CASE Tunnel(r) \/ Resolve(r) \/ ResolveRefuses(r) \/ Intercept(r) \/ Prepare(r)
  BY <1>3 DEF Tunnel, Resolve, ResolveRefuses, Intercept, Prepare
<1>4. CASE \/ RefuseUpgrade(r) \/ Permit(r) \/ PermitUpgrade(r) \/ Approve(r) \/ Fail(r)
           \/ Send(r) \/ SendUpgrade(r)
           \/ RespondSilently(r) \/ InjectPresentation(r) \/ RelayRefusal(r)
  BY <1>4 DEF RefuseUpgrade, Permit, PermitUpgrade, Approve, Fail, Send, SendUpgrade,
              RespondSilently, InjectPresentation, RelayRefusal
<1>5. CASE Disconnect(r)
  BY <1>5 DEF Disconnect
<1>6. CASE Refuse(r)
  <2>1. Offers("refused", FALSE, FALSE)
    BY <1>2, <1>6 DEF Refuse
  <2>2. Happened(Event(r, "refused", FALSE, FALSE))'
    BY <1>6 DEF Refuse, Happened, Event
  <2>3. QED
    BY <1>1, <1>6, <2>1, <2>2 DEF Refuse, Decisions
<1>7. CASE Hold(r)
  <2>1. Offers("pending", FALSE, FALSE)
    BY <1>2, <1>7 DEF Hold
  <2>2. Happened(Event(r, "pending", FALSE, FALSE))'
    <3>1. shown'[r] # "none"
      BY <1>7, BodyAssumption DEF Hold
    <3>2. QED
      BY <1>7, <3>1 DEF Hold, Happened, Event
  <2>3. QED
    BY <1>1, <1>7, <2>1, <2>2 DEF Hold, Decisions
<1>8. CASE Reject(r)
  <2>1. Offers("denied", FALSE, TRUE)
    BY <1>2, <1>8 DEF Reject
  <2>2. Happened(Event(r, "denied", FALSE, TRUE))'
    BY <1>8 DEF Reject, Happened, Event
  <2>3. QED
    BY <1>1, <1>8, <2>1, <2>2 DEF Reject, Decisions
<1>9. CASE Track(r)
  <2> DEFINE held == verdict[r] = "approval"
             d == IF held THEN "approved" ELSE "allowed"
  <2>1. Offers(d, Injected(r), held)
    BY <1>2, <1>9 DEF Track
  <2>2. d \in Decisions /\ Injected(r) \in BOOLEAN /\ held \in BOOLEAN
    BY DEF Decisions, Injected, Contexts
  <2>3. PICK e \in Events : e = Event(r, d, Injected(r), held)
    BY <1>1, <2>2
  <2>4. Happened(e)'
    <3>1. e.req = r /\ e.decision = d /\ e.update = held
      BY <2>3 DEF Event
    <3>2. reply'[r] = "passed" /\ verdict' = verdict /\ Permitted(r)
      BY <1>9 DEF Track
    <3>3. QED
      BY <3>1, <3>2 DEF Happened, Permitted
  <2>5. UNCHANGED <<batch, flushing, at, rows, cancelling>> /\ lost \subseteq Requests
    BY <1>9 DEF Track
  <2>6. \/ UNCHANGED channel /\ lost' \in {lost, lost \cup {r}}
        \/ channel' = Append(channel, e) /\ Len(channel) < Capacity /\ UNCHANGED lost
    BY <2>1, <2>3
  <2>7. QED
    BY <2>4, <2>5, <2>6
<1>10. CASE TrackUpgrade(r)
  <2>1. Offers("allowed", Injected(r), FALSE)
    BY <1>2, <1>10 DEF TrackUpgrade
  <2>2. Injected(r) \in BOOLEAN
    BY DEF Injected, Contexts
  <2>3. PICK e \in Events : e = Event(r, "allowed", Injected(r), FALSE)
    BY <1>1, <2>2 DEF Decisions
  <2>4. Happened(e)'
    <3>1. e.req = r /\ e.decision = "allowed" /\ e.update = FALSE
      BY <2>3 DEF Event
    <3>2. reply'[r] = "passed" /\ verdict' = verdict /\ verdict[r] = "allow"
      BY <1>10 DEF TrackUpgrade
    <3>3. QED
      BY <3>1, <3>2 DEF Happened
  <2>5. UNCHANGED <<batch, flushing, at, rows, cancelling>> /\ lost \subseteq Requests
    BY <1>10 DEF TrackUpgrade
  <2>6. \/ UNCHANGED channel /\ lost' \in {lost, lost \cup {r}}
        \/ channel' = Append(channel, e) /\ Len(channel) < Capacity /\ UNCHANGED lost
    BY <2>1, <2>3
  <2>7. QED
    BY <2>4, <2>5, <2>6
<1>11. QED
  BY <1>3, <1>4, <1>5, <1>6, <1>7, <1>8, <1>9, <1>10 DEF Handle

\* A step of a request keeps the invariant.
LEMMA RequestStep ==
    ASSUME Inv, NEW r \in Requests, Handle(r), Capacity \in Nat
    PROVE  Inv'
<1> USE DEF Inv
<1>1. TypeOK'
  <2>1. channel' \in Seq(Events) /\ Len(channel') <= Capacity
    <3>1. CASE channel' = channel
      BY <3>1 DEF TypeOK, LogTypeOK
    <3>2. ASSUME NEW e \in Events, channel' = Append(channel, e), Len(channel) < Capacity
          PROVE  channel' \in Seq(Events) /\ Len(channel') <= Capacity
      BY <3>2 DEF TypeOK, LogTypeOK
    <3>3. QED
      BY <3>1, <3>2, OffersTheTruth
  <2>2. LogTypeOK'
    BY <2>1, OffersTheTruth DEF TypeOK, LogTypeOK
  <2>3. QED
    BY <2>2, RequestTypes DEF TypeOK
<1>2. Way' /\ SentAsShown'
  BY RequestWay
<1>3. Truth'
  <2>1. \A i \in 1..Len(channel') : Happened(channel[i])'
    <3>1. CASE channel' = channel
      <4>1. \A i \in 1..Len(channel) : channel[i] \in Events
        BY DEF TypeOK, LogTypeOK
      <4>2. QED
        BY <3>1, <4>1, HappenedStays DEF Truth, Happened
    <3>2. ASSUME NEW e \in Events, channel' = Append(channel, e), Happened(e)'
          PROVE  \A i \in 1..Len(channel') : Happened(channel[i])'
      <4>1. /\ Len(channel') = Len(channel) + 1
            /\ channel'[Len(channel) + 1] = e
            /\ Len(channel) \in Nat
            /\ \A i \in 1..Len(channel) : channel'[i] = channel[i] /\ channel[i] \in Events
        BY <3>2 DEF TypeOK, LogTypeOK
      <4>2. ASSUME NEW i \in 1..Len(channel')
            PROVE  Happened(channel[i])'
        <5>1. CASE i = Len(channel) + 1
          BY <3>2, <4>1, <5>1 DEF Happened
        <5>2. CASE i \in 1..Len(channel)
          BY <4>1, <5>2, HappenedStays DEF Truth, Happened
        <5>3. QED
          BY <4>1, <5>1, <5>2
      <4>3. QED
        BY <4>2
    <3>3. QED
      BY <3>1, <3>2, OffersTheTruth
  <2>2. \A i \in 1..Len(batch') : Happened(batch[i])'
    <3>1. batch' = batch
      BY OffersTheTruth
    <3>2. \A i \in 1..Len(batch) : batch[i] \in Events
      BY DEF TypeOK, LogTypeOK
    <3>3. QED
      BY <3>1, <3>2, HappenedStays DEF Truth, Happened
  <2>3. \A q \in cancelling' : reply'[q] = "cancelled" /\ sent'[q] = "none"
    <3>1. \A q \in cancelling : reply'[q] = "cancelled" /\ sent'[q] = "none"
      BY HappenedStays DEF Truth, TypeOK, LogTypeOK
    <3>2. QED
      BY <3>1, OffersTheTruth
  <2>4. QED
    BY <2>1, <2>2, <2>3 DEF Truth
<1>4. LogTellsTruth'
  <2>1. rows' = rows
    BY OffersTheTruth
  <2>2. QED
    BY <2>1, HappenedStays DEF LogTellsTruth
<1>5. QED
  BY <1>1, <1>2, <1>3, <1>4

\* The flush loop and the cleanups write what has happened.
LEMMA LogStep ==
    ASSUME Inv, LogNext, UNCHANGED reqVars, Capacity \in Nat, BatchSize \in Nat
    PROVE  Inv'
<1> USE DEF Inv, TypeOK, LogTypeOK, reqVars
<1>1. Way' /\ SentAsShown'
  BY DEF Way, SentAsShown, Permitted
<1>2. \A e \in Events : Happened(e) => Happened(e)'
  BY DEF Happened
<1>3. CASE Collect
  <2>1. /\ channel # <<>> /\ Len(batch) < BatchSize
        /\ channel' = Tail(channel) /\ batch' = Append(batch, Head(channel))
        /\ UNCHANGED <<flushing, at, rows, cancelling, lost>>
    BY <1>3 DEF Collect
  <2>2. 1 \in 1..Len(channel) /\ Head(channel) = channel[1] /\ channel[1] \in Events
    BY <2>1
  <2>3. /\ channel' \in Seq(Events) /\ Len(channel') <= Capacity
        /\ \A i \in 1..Len(channel') : i + 1 \in 1..Len(channel) /\ channel'[i] = channel[i + 1]
    BY <2>1
  <2>4. /\ batch' \in Seq(Events) /\ Len(batch') <= BatchSize
        /\ \A i \in 1..Len(batch') :
             batch'[i] = channel[1] \/ (i \in 1..Len(batch) /\ batch'[i] = batch[i])
    BY <2>1, <2>2
  <2>5. TypeOK'
    BY <2>1, <2>3, <2>4
  <2>6. Truth'
    <3>1. \A i \in 1..Len(channel') : channel'[i] \in Events /\ Happened(channel'[i])
      BY <2>3 DEF Truth
    <3>2. \A i \in 1..Len(batch') : batch'[i] \in Events /\ Happened(batch'[i])
      BY <2>2, <2>4 DEF Truth
    <3>3. \A i \in 1..Len(channel') : Happened(channel[i])'
      BY <3>1 DEF Happened
    <3>4. \A i \in 1..Len(batch') : Happened(batch[i])'
      BY <3>2 DEF Happened
    <3>5. QED
      BY <2>1, <3>3, <3>4 DEF Truth
  <2>7. LogTellsTruth'
    BY <2>1 DEF LogTellsTruth
  <2>8. QED
    BY <1>1, <2>5, <2>6, <2>7
<1>4. CASE Collected \/ InsertFails
  <2>1. \A i \in DOMAIN batch : batch[i].req \in Requests
    <3>1. \A i \in 1..Len(batch) : batch[i] \in Events
      OBVIOUS
    <3>2. \A e \in Events : e.req \in Requests
      BY DEF Events
    <3>3. DOMAIN batch = 1..Len(batch)
      OBVIOUS
    <3>4. QED
      BY <3>1, <3>2, <3>3
  <2>2. lost' \subseteq Requests
    <3>1. CASE Collected
      BY <3>1 DEF Collected
    <3>2. CASE InsertFails
      <4>1. {batch[i].req : i \in {j \in DOMAIN batch : Stored(batch[j])}} \subseteq Requests
        BY <2>1
      <4>2. QED
        BY <3>2, <4>1 DEF InsertFails
    <3>3. QED
      BY <1>4, <3>1, <3>2
  <2>3. UNCHANGED <<channel, batch, at, rows, cancelling>>
    BY <1>4 DEF Collected, InsertFails
  <2>4. flushing' \in {"insert", "update"}
    BY <1>4 DEF Collected, InsertFails
  <2>5. TypeOK'
    BY <1>1, <2>2, <2>3, <2>4
  <2>6. Truth'
    <3>1. /\ \A i \in 1..Len(channel') : channel'[i] \in Events /\ Happened(channel'[i])
          /\ \A i \in 1..Len(batch') : batch'[i] \in Events /\ Happened(batch'[i])
      BY <2>3 DEF Truth
    <3>2. /\ \A i \in 1..Len(channel') : Happened(channel[i])'
          /\ \A i \in 1..Len(batch') : Happened(batch[i])'
      BY <3>1 DEF Happened
    <3>3. QED
      BY <1>1, <2>3, <3>2 DEF Truth
  <2>7. LogTellsTruth'
    BY <1>1, <2>3 DEF LogTellsTruth
  <2>8. QED
    BY <1>1, <2>5, <2>6, <2>7
<1>5. CASE InsertBatch
  <2> DEFINE Says(q, i) == i \in DOMAIN batch /\ batch[i].req = q /\ Stored(batch[i])
  <2>1. ASSUME NEW q \in Requests
        PROVE  \/ rows'[q] = rows[q]
               \/ \E i \in 1..Len(batch) : Says(q, i) /\ rows'[q] = RowOf(batch[i])
    <3>1. CASE \E i \in DOMAIN batch : Says(q, i)
      <4> DEFINE j == CHOOSE i \in DOMAIN batch : batch[i].req = q /\ Stored(batch[i])
      <4>1. j \in DOMAIN batch /\ Says(q, j)
        BY <3>1
      <4>2. rows'[q] = RowOf(batch[j])
        BY <1>5, <3>1 DEF InsertBatch
      <4>3. j \in 1..Len(batch)
        BY <4>1
      <4> HIDE DEF j
      <4>4. QED
        BY <4>1, <4>2, <4>3
    <3>2. CASE ~\E i \in DOMAIN batch : Says(q, i)
      BY <1>5, <3>2 DEF InsertBatch
    <3>3. QED
      BY <3>1, <3>2
  <2>2. \A i \in 1..Len(batch) : batch[i] \in Events /\ Happened(batch[i])
    BY DEF Truth
  <2>3. TypeOK'
    <3>1. \A e \in Events : RowOf(e) \in Rows
      BY DEF RowOf, Rows
    <3>2. rows' \in [Requests -> Rows]
      <4>1. \A q \in Requests : rows'[q] \in Rows
        BY <2>1, <2>2, <3>1
      <4>2. QED
        BY <1>5, <4>1 DEF InsertBatch
    <3>3. QED
      BY <1>5, <3>2 DEF InsertBatch
  <2>4. Truth'
    BY <1>5 DEF InsertBatch, Truth, Happened
  <2>5. LogTellsTruth'
    <3>1. ASSUME NEW q \in Requests, NEW e \in Events, e.req = q, Stored(e), Happened(e)
          PROVE  /\ RowOf(e) = "passed" => reply[q] = "passed" /\ verdict[q] = "allow"
                 /\ RowOf(e) = "refused" => reply[q] = "blocked" /\ sent[q] = "none"
                 /\ RowOf(e) = "held" => verdict[q] = "approval" /\ shown[q] # "none"
                 /\ RowOf(e) \in {"passed", "refused", "held"}
      BY <3>1 DEF Happened, RowOf, Stored
    <3>2. QED
      BY <2>1, <2>2, <3>1 DEF LogTellsTruth
  <2>6. QED
    BY <1>1, <2>3, <2>4, <2>5
<1>6. CASE UpdateRow \/ UpdateFails
  <2>1. at \in 1..Len(batch) /\ batch[at] \in Events /\ Happened(batch[at])
    BY <1>6 DEF UpdateRow, UpdateFails, Truth
  <2>2. PICK e \in Events : e = batch[at] /\ Happened(e)
    BY <2>1
  <2>3. /\ UNCHANGED <<channel, batch, flushing, cancelling>>
        /\ at' = at + 1
        /\ \/ UNCHANGED rows /\ lost' \in {lost, lost \cup {e.req}}
           \/ e.update /\ rows' = [rows EXCEPT ![e.req] = e.decision] /\ UNCHANGED lost
    BY <1>6, <2>2 DEF UpdateRow, UpdateFails
  <2>4. e.req \in Requests /\ (e.update => e.decision \in {"approved", "denied"})
    BY <2>2 DEF Events, Happened
  <2>5. TypeOK'
    BY <2>1, <2>3, <2>4 DEF Rows
  <2>6. Truth'
    <3>1. /\ \A i \in 1..Len(channel') : channel'[i] \in Events /\ Happened(channel'[i])
          /\ \A i \in 1..Len(batch') : batch'[i] \in Events /\ Happened(batch'[i])
      BY <2>3 DEF Truth
    <3>2. /\ \A i \in 1..Len(channel') : Happened(channel[i])'
          /\ \A i \in 1..Len(batch') : Happened(batch[i])'
      BY <3>1 DEF Happened
    <3>3. QED
      BY <1>1, <2>3, <3>2 DEF Truth
  <2>7. LogTellsTruth'
    BY <2>2, <2>3, <2>4 DEF LogTellsTruth, Happened
  <2>8. QED
    BY <1>1, <2>5, <2>6, <2>7
<1>7. CASE FlushDone
  BY <1>1, <1>7 DEF FlushDone, Truth, Happened, LogTellsTruth
<1>8. ASSUME NEW r \in Requests, MarkCancelled(r) \/ MarkFails(r)
      PROVE  Inv'
  <2>1. TypeOK'
    BY <1>1, <1>8 DEF MarkCancelled, MarkFails, Rows
  <2>2. Truth'
    BY <1>1, <1>8 DEF MarkCancelled, MarkFails, Truth, Happened
  <2>3. LogTellsTruth'
    BY <1>1, <1>8 DEF MarkCancelled, MarkFails, Truth, LogTellsTruth
  <2>4. QED
    BY <1>1, <2>1, <2>2, <2>3
<1>9. QED
  BY <1>3, <1>4, <1>5, <1>6, <1>7, <1>8 DEF LogNext, Flush

-----------------------------------------------------------------------------
(* The theorems                                                             *)

\* The strengthened invariant holds of every behaviour of the request path.
LEMMA Invariance == Spec => []Inv
<1> USE LogAssumption
<1>1. Init => Inv
  <2> SUFFICES ASSUME Init PROVE Inv
    OBVIOUS
  <2>1. TypeOK
    BY DEF Init, LogInit, TypeOK, LogTypeOK, NoContext, Contexts, Verdicts, Bodies, Replies, Silent, Rows
  <2>2. Way /\ SentAsShown
    BY DEF Init, Way, SentAsShown, Permitted
  <2>3. Truth /\ LogTellsTruth
    BY DEF Init, LogInit, Truth, LogTellsTruth
  <2>4. QED
    BY <2>1, <2>2, <2>3 DEF Inv
<1>2. Inv /\ [Next]_vars => Inv'
  <2> SUFFICES ASSUME Inv, [Next]_vars PROVE Inv'
    OBVIOUS
  <2>1. CASE \E r \in Requests : Handle(r)
    BY <2>1, RequestStep
  <2>2. CASE LogNext /\ UNCHANGED reqVars
    BY <2>2, LogStep
  <2>3. CASE UNCHANGED vars
    BY <2>3 DEF vars, logVars, reqVars, Inv, TypeOK, LogTypeOK, Way, Permitted, SentAsShown,
                Truth, Happened, LogTellsTruth
  <2>4. QED
    BY <2>1, <2>2, <2>3 DEF Next
<1>3. QED
  BY <1>1, <1>2, PTL DEF Spec

\* The request path and the request log keep their types, and the channel and
\* the batch their bounds (telemetry_core.rs CHANNEL_CAPACITY, FLUSH_BATCH_SIZE).
THEOREM TypeCorrect == Spec => []TypeOK
<1>1. Inv => TypeOK
  BY DEF Inv
<1>2. QED
  BY <1>1, Invariance, PTL

\* forward_request sends nothing upstream that was neither allowed nor approved.
THEOREM OnlyPermittedIsForwarded == Spec => []OnlyPermittedIsSent
<1>1. Inv => OnlyPermittedIsSent
  BY DEF Inv, Way, Permitted, OnlyPermittedIsSent
<1>2. QED
  BY <1>1, Invariance, PTL

\* What goes upstream after an approval has the preview the approver was shown,
\* whatever a preview leaves out, and is what the policy judged, but for the
\* gateway's own trailer.
THEOREM ApprovedBodyIsSent == Spec => []SentAsShown
<1>1. Inv => SentAsShown
  BY DEF Inv
<1>2. QED
  BY <1>1, Invariance, PTL

\* No batch, update or cleanup, in whatever order they are written, makes a row
\* of the request log say what did not happen.
THEOREM LogIsTruthful == Spec => []LogTellsTruth
<1>1. Inv => LogTellsTruth
  BY DEF Inv
<1>2. QED
  BY <1>1, Invariance, PTL

-----------------------------------------------------------------------------
(* Held requests and their rows                                             *)

\* What becomes a row is still to be inserted.
InsertAhead(r) ==
    \/ \E i \in 1..Len(channel) : channel[i].req = r /\ ~channel[i].update
    \/ flushing # "update" /\ \E i \in 1..Len(batch) : batch[i].req = r /\ ~batch[i].update

\* What updates the row is still to be looked at.
AnswerAhead(r) ==
    \/ \E i \in 1..Len(channel) : channel[i].req = r /\ channel[i].update
    \/ \E i \in at..Len(batch) : batch[i].req = r /\ batch[i].update

Answered(r) ==
    reply[r] \in {"rejected", "cancelled"} \/ (reply[r] = "passed" /\ verdict[r] = "approval")

\* Whoever is held has shown a preview, is known, and is not refused any more.
HeldWay ==
    \A r \in Requests :
        /\ shown[r] # "none" => verdict[r] = "approval" /\ reply[r] # "blocked"
        /\ pc[r] \in {"hold", "send", "respond"} /\ verdict[r] = "approval" => ctx[r].agent
        /\ Answered(r) => shown[r] # "none"

\* Only the first event of a request is not an update, whichever batches they
\* fall into, and it comes before its row.
Queued ==
    /\ flushing # "update" => at = 1
    /\ \A i, j \in 1..Len(channel) :
         i < j /\ channel[i].req = channel[j].req => channel[j].update
    /\ \A i \in 1..Len(batch), j \in 1..Len(channel) :
         batch[i].req = channel[j].req => channel[j].update
    /\ \A r \in Requests : InsertAhead(r) => rows[r] = "none"

\* As long as nothing about it was lost, the hold of a request is in its row or
\* on the way there, and so is how the hold ended.
Accounted ==
    \A r \in Requests \ lost :
        /\ shown[r] # "none" => InsertAhead(r) \/ rows[r] # "none"
        /\ reply[r] = "passed" /\ verdict[r] = "approval" => rows[r] = "approved" \/ AnswerAhead(r)
        /\ reply[r] = "rejected" => rows[r] = "denied" \/ AnswerAhead(r)
        /\ reply[r] = "cancelled" => rows[r] = "cancelled" \/ r \in cancelling

HeldInv == Inv /\ HeldWay /\ Queued /\ Accounted

\* A step of a request keeps what is known of those that are held.
LEMMA HeldStep ==
    ASSUME TypeOK, Way, HeldWay, NEW r \in Requests, Handle(r)
    PROVE  HeldWay'
<1> USE DEF TypeOK, Way, HeldWay, Answered, Permitted, Goto, End
<1>1. CASE Tunnel(r) \/ ResolveRefuses(r) \/ Intercept(r)
  BY <1>1 DEF Tunnel, ResolveRefuses, Intercept
<1>2. CASE Resolve(r)
  BY <1>2 DEF Resolve
<1>3. CASE Prepare(r)
  BY <1>3 DEF Prepare
<1>4. CASE Refuse(r) \/ RefuseUpgrade(r)
  <2>1. CASE Refuse(r)
    BY <2>1 DEF Refuse
  <2>2. CASE RefuseUpgrade(r)
    BY <2>2 DEF RefuseUpgrade
  <2>3. QED
    BY <1>4, <2>1, <2>2
<1>5. CASE Permit(r) \/ PermitUpgrade(r)
  BY <1>5 DEF Permit, PermitUpgrade
<1>6. CASE Hold(r)
  BY <1>6 DEF Hold, evaluate, Bodies
<1>7. CASE Approve(r) \/ Reject(r)
  <2>1. CASE Approve(r)
    BY <2>1 DEF Approve
  <2>2. CASE Reject(r)
    BY <2>2 DEF Reject
  <2>3. QED
    BY <1>7, <2>1, <2>2
<1>8. CASE Disconnect(r)
  BY <1>8 DEF Disconnect
<1>9. CASE Send(r) \/ SendUpgrade(r)
  BY <1>9 DEF Send, SendUpgrade
<1>10. CASE Fail(r)
  BY <1>10 DEF Fail
<1>11. CASE RespondSilently(r) \/ InjectPresentation(r) \/ RelayRefusal(r)
  BY <1>11 DEF RespondSilently, InjectPresentation, RelayRefusal
<1>12. CASE Track(r) \/ TrackUpgrade(r)
  <2>1. CASE Track(r)
    BY <2>1 DEF Track
  <2>2. CASE TrackUpgrade(r)
    BY <2>2 DEF TrackUpgrade
  <2>3. QED
    BY <1>12, <2>1, <2>2
<1>13. QED
  BY <1>1, <1>2, <1>3, <1>4, <1>5, <1>6, <1>7, <1>8, <1>9, <1>10, <1>11, <1>12 DEF Handle

\* What a step tells the log: of a hold that begins, or ends with an answer, it
\* offers an event; its first event is no update, and the answer is.
Tells(r) ==
    /\ UNCHANGED <<batch, flushing, at, rows>>
    /\ lost \subseteq lost' /\ cancelling \subseteq cancelling'
    /\ \A q \in Requests \ {r} : /\ shown'[q] = shown[q] /\ reply'[q] = reply[q]
                                 /\ verdict'[q] = verdict[q]
    /\ reply[r] = "none"
    /\ reply'[r] = "cancelled" => r \in cancelling'
    /\ \/ channel' = channel /\ r \in lost'
       \/ /\ channel' = channel /\ shown'[r] = shown[r] /\ reply'[r] # "rejected"
          /\ ~(reply'[r] = "passed" /\ verdict'[r] = "approval")
       \/ \E e \in Events :
            /\ channel' = Append(channel, e) /\ e.req = r
            /\ ~e.update => /\ verdict[r] \in {"none", "allow"} /\ reply'[r] # "rejected"
                            /\ ~(reply'[r] = "passed" /\ verdict'[r] = "approval")
            /\ e.update => shown'[r] = shown[r]

\* Every step of a request tells the log no more than that.
LEMMA StepTells ==
    ASSUME TypeOK, Way, HeldWay, NEW r \in Requests, Handle(r)
    PROVE  Tells(r)
<1>1. ASSUME NEW d \in Decisions, NEW inj \in BOOLEAN, NEW upd \in BOOLEAN
      PROVE  /\ Event(r, d, inj, upd) \in Events
             /\ Event(r, d, inj, upd).req = r /\ Event(r, d, inj, upd).update = upd
  BY DEF Event, Events
<1>2. ASSUME NEW known, NEW d \in Decisions, NEW inj \in BOOLEAN, NEW upd \in BOOLEAN,
             emit(known, Event(r, d, inj, upd))
      PROVE  /\ lost \subseteq lost'
             /\ \/ channel' = channel /\ (r \in lost' \/ ~known)
                \/ \E e \in Events : channel' = Append(channel, e) /\ e.req = r /\ e.update = upd
  <2>1. CASE known /\ Len(channel) < Capacity
    BY <1>1, <1>2, <2>1 DEF emit, on_request
  <2>2. CASE ~(known /\ Len(channel) < Capacity)
    BY <1>1, <1>2, <2>2 DEF emit, on_request
  <2>3. QED
    BY <2>1, <2>2
<1> USE DEF TypeOK, Way, Goto, End, NoEvent, logVars, Tells
<1>3. CASE Tunnel(r) \/ Resolve(r) \/ ResolveRefuses(r) \/ Intercept(r) \/ Prepare(r)
  BY <1>3 DEF Tunnel, Resolve, ResolveRefuses, Intercept, Prepare
<1>4. CASE \/ RefuseUpgrade(r) \/ Permit(r) \/ PermitUpgrade(r) \/ Approve(r) \/ Fail(r)
           \/ Send(r) \/ SendUpgrade(r)
           \/ RespondSilently(r) \/ InjectPresentation(r) \/ RelayRefusal(r)
  BY <1>4 DEF RefuseUpgrade, Permit, PermitUpgrade, Approve, Fail, Send, SendUpgrade,
              RespondSilently, InjectPresentation, RelayRefusal
<1>5. CASE Disconnect(r)
  BY <1>5 DEF Disconnect
<1>6. CASE Refuse(r)
  <2>1. emit(ctx[r].agent, Event(r, "refused", FALSE, FALSE))
    BY <1>6 DEF Refuse
  <2>2. /\ lost \subseteq lost'
        /\ \/ channel' = channel
           \/ \E e \in Events : channel' = Append(channel, e) /\ e.req = r /\ ~e.update
    BY <1>2, <2>1 DEF Decisions
  <2>3. QED
    BY <1>6, <2>2 DEF Refuse
<1>7. CASE Hold(r)
  <2>1. emit(TRUE, Event(r, "pending", FALSE, FALSE))
    BY <1>7 DEF Hold
  <2>2. /\ lost \subseteq lost'
        /\ \/ channel' = channel /\ r \in lost'
           \/ \E e \in Events : channel' = Append(channel, e) /\ e.req = r /\ ~e.update
    BY <1>2, <2>1 DEF Decisions
  <2>3. QED
    BY <1>7, <2>2 DEF Hold
<1>8. CASE Reject(r)
  <2>1. emit(TRUE, Event(r, "denied", FALSE, TRUE))
    BY <1>8 DEF Reject
  <2>2. /\ lost \subseteq lost'
        /\ \/ channel' = channel /\ r \in lost'
           \/ \E e \in Events : channel' = Append(channel, e) /\ e.req = r /\ e.update
    BY <1>2, <2>1 DEF Decisions
  <2>3. QED
    BY <1>8, <2>2 DEF Reject
<1>9. CASE Track(r)
  <2>1. Injected(r) \in BOOLEAN
    BY DEF Injected, Contexts
  <2>2. UNCHANGED <<batch, flushing, at, rows, cancelling, verdict, shown>> /\ pc[r] = "respond"
        /\ reply' = [reply EXCEPT ![r] = "passed"]
    BY <1>9 DEF Track
  <2>3. CASE verdict[r] = "approval"
    <3>1. emit(ctx[r].agent, Event(r, "approved", Injected(r), TRUE)) /\ ctx[r].agent
      BY <1>9, <2>3 DEF Track, HeldWay
    <3>2. /\ lost \subseteq lost'
          /\ \/ channel' = channel /\ r \in lost'
             \/ \E e \in Events : channel' = Append(channel, e) /\ e.req = r /\ e.update
      BY <1>2, <2>1, <3>1 DEF Decisions
    <3>3. QED
      BY <2>2, <3>2
  <2>4. CASE verdict[r] # "approval"
    <3>1. emit(ctx[r].agent, Event(r, "allowed", Injected(r), FALSE))
      BY <1>9, <2>4 DEF Track
    <3>2. /\ lost \subseteq lost'
          /\ \/ channel' = channel
             \/ \E e \in Events : channel' = Append(channel, e) /\ e.req = r /\ ~e.update
      BY <1>2, <2>1, <3>1 DEF Decisions
    <3>3. verdict[r] = "allow"
      BY <2>2, <2>4 DEF Permitted
    <3>4. QED
      BY <2>2, <3>2, <3>3
  <2>5. QED
    BY <2>3, <2>4
<1>10. CASE TrackUpgrade(r)
  <2>1. Injected(r) \in BOOLEAN
    BY DEF Injected, Contexts
  <2>2. emit(ctx[r].agent, Event(r, "allowed", Injected(r), FALSE))
    BY <1>10 DEF TrackUpgrade
  <2>3. /\ lost \subseteq lost'
        /\ \/ channel' = channel
           \/ \E e \in Events : channel' = Append(channel, e) /\ e.req = r /\ ~e.update
    BY <1>2, <2>1, <2>2 DEF Decisions
  <2>4. verdict[r] = "allow"
    BY <1>10 DEF TrackUpgrade
  <2>5. QED
    BY <1>10, <2>3, <2>4 DEF TrackUpgrade
<1>11. QED
  BY <1>3, <1>4, <1>5, <1>6, <1>7, <1>8, <1>9, <1>10 DEF Handle

\* A request that has offered nothing, or is allowed and on its way, has no
\* event on its way to the log and no row.
LEMMA Unheard ==
    ASSUME Inv, NEW r \in Requests, reply[r] = "none", verdict[r] \in {"none", "allow"}
    PROVE  /\ \A i \in 1..Len(channel) : channel[i].req # r
           /\ \A i \in 1..Len(batch) : batch[i].req # r
           /\ rows[r] = "none"
<1>1. \A e \in Events : Happened(e) => e.req # r
  BY DEF Happened
<1>2. \A i \in 1..Len(channel) : channel[i] \in Events /\ Happened(channel[i])
  BY DEF Inv, TypeOK, LogTypeOK, Truth
<1>3. \A i \in 1..Len(batch) : batch[i] \in Events /\ Happened(batch[i])
  BY DEF Inv, TypeOK, LogTypeOK, Truth
<1>4. rows[r] = "none"
  BY DEF Inv, TypeOK, LogTypeOK, Rows, LogTellsTruth
<1>5. QED
  BY <1>1, <1>2, <1>3, <1>4

\* What a request tells the log leaves the queue in order and the holds accounted for.
LEMMA RequestQueue ==
    ASSUME Inv, HeldWay, Queued, Accounted, NEW r \in Requests, Tells(r)
    PROVE  Queued' /\ Accounted'
<1> USE DEF Tells
<1>1. /\ lost \subseteq Requests /\ cancelling \subseteq Requests
      /\ \A i \in 1..Len(channel) : channel[i] \in Events
      /\ Len(channel) \in Nat /\ Len(batch) \in Nat
  BY DEF Inv, TypeOK, LogTypeOK
<1>2. CASE channel' = channel
  <2>1. \A q \in Requests : /\ InsertAhead(q)' = InsertAhead(q)
                            /\ AnswerAhead(q)' = AnswerAhead(q)
    BY <1>2 DEF InsertAhead, AnswerAhead
  <2>2. Queued'
    BY <1>2, <2>1 DEF Queued
  <2>3. Accounted'
    BY <1>1, <1>2, <2>1 DEF Accounted
  <2>4. QED
    BY <2>2, <2>3
<1>3. ASSUME NEW e \in Events, channel' = Append(channel, e), e.req = r,
             ~e.update => /\ verdict[r] \in {"none", "allow"} /\ reply'[r] # "rejected"
                          /\ ~(reply'[r] = "passed" /\ verdict'[r] = "approval"),
             e.update => shown'[r] = shown[r]
      PROVE  Queued' /\ Accounted'
  <2>1. /\ Len(channel') = Len(channel) + 1 /\ channel'[Len(channel) + 1] = e
        /\ \A i \in 1..Len(channel) : channel'[i] = channel[i]
    BY <1>3 DEF Inv, TypeOK, LogTypeOK
  <2>2. ~e.update => /\ \A i \in 1..Len(channel) : channel[i].req # r
                     /\ \A i \in 1..Len(batch) : batch[i].req # r
                     /\ rows[r] = "none"
    BY <1>3, Unheard
  <2>3. \A q \in Requests :
          InsertAhead(q)' <=> InsertAhead(q) \/ (q = r /\ ~e.update)
    BY <1>1, <1>3, <2>1 DEF InsertAhead
  <2>4. \A q \in Requests :
          AnswerAhead(q)' <=> AnswerAhead(q) \/ (q = r /\ e.update)
    BY <1>1, <1>3, <2>1 DEF AnswerAhead
  <2>5. Queued'
    <3>1. \A i, j \in 1..Len(channel') :
            i < j /\ channel'[i].req = channel'[j].req => channel'[j].update
      <4>1. ASSUME NEW i \in 1..Len(channel'), NEW j \in 1..Len(channel'), i < j,
                   channel'[i].req = channel'[j].req
            PROVE  channel'[j].update
        <5>1. i \in 1..Len(channel)
          BY <1>1, <2>1, <4>1
        <5>2. CASE j \in 1..Len(channel)
          BY <2>1, <4>1, <5>1, <5>2 DEF Queued
        <5>3. CASE j = Len(channel) + 1
          BY <1>3, <2>1, <2>2, <4>1, <5>1, <5>3
        <5>4. QED
          BY <1>1, <2>1, <5>2, <5>3
      <4>2. QED
        BY <4>1
    <3>2. \A i \in 1..Len(batch'), j \in 1..Len(channel') :
            batch'[i].req = channel'[j].req => channel'[j].update
      BY <1>1, <1>3, <2>1, <2>2 DEF Queued
    <3>3. \A q \in Requests : InsertAhead(q)' => rows'[q] = "none"
      BY <2>2, <2>3 DEF Queued
    <3>4. flushing' # "update" => at' = 1
      BY DEF Queued
    <3> HIDE DEF Tells
    <3>5. QED
      BY <3>1, <3>2, <3>3, <3>4 DEF Queued
  <2>6. Accounted'
    BY <1>1, <1>3, <2>3, <2>4 DEF Accounted
  <2>7. QED
    BY <2>5, <2>6
<1>4. QED
  BY <1>2, <1>3

\* The flush loop and the cleanups leave the queue in order and the holds
\* accounted for: a row is there before an update looks for it.
LEMMA LogQueue ==
    ASSUME Inv, Inv', HeldWay, Queued, Accounted, LogNext, UNCHANGED reqVars
    PROVE  Queued' /\ Accounted'
<1> USE DEF reqVars
<1>1. /\ lost \subseteq Requests /\ cancelling \subseteq Requests
      /\ channel \in Seq(Events) /\ batch \in Seq(Events)
      /\ \A i \in 1..Len(channel) : channel[i] \in Events
      /\ \A i \in 1..Len(batch) : batch[i] \in Events /\ Happened(batch[i])
      /\ Len(channel) \in Nat /\ Len(batch) \in Nat /\ DOMAIN batch = 1..Len(batch)
      /\ at \in Nat \ {0} /\ flushing \in {"collect", "insert", "update"}
      /\ rows \in [Requests -> Rows]
  BY DEF Inv, TypeOK, LogTypeOK, Truth
<1>2. CASE Collect
  <2>1. /\ channel # <<>> /\ flushing = "collect"
        /\ channel' = Tail(channel) /\ batch' = Append(batch, Head(channel))
        /\ UNCHANGED <<flushing, at, rows, cancelling, lost>>
    BY <1>2 DEF Collect
  <2>2. 1 \in 1..Len(channel) /\ Head(channel) = channel[1] /\ channel[1] \in Events
    BY <1>1, <2>1
  <2>3. /\ Len(channel') = Len(channel) - 1
        /\ \A i \in 1..Len(channel') : i + 1 \in 1..Len(channel) /\ channel'[i] = channel[i + 1]
    BY <1>1, <2>1
  <2>4. /\ Len(batch') = Len(batch) + 1 /\ batch'[Len(batch) + 1] = channel[1]
        /\ \A i \in 1..Len(batch) : batch'[i] = batch[i]
    BY <1>1, <2>1, <2>2
  <2>5. at = 1 /\ at' = 1
    BY <2>1 DEF Queued
  <2>6. \A i \in 1..Len(channel) : i = 1 \/ (i - 1 \in 1..Len(channel') /\ channel'[i - 1] = channel[i])
    BY <1>1, <2>2, <2>3
  <2>7. ASSUME NEW q \in Requests
        PROVE  InsertAhead(q)' <=> InsertAhead(q)
    <3>1. InsertAhead(q)' => InsertAhead(q)
      <4>1. ASSUME NEW i \in 1..Len(channel'), channel'[i].req = q, ~channel'[i].update
            PROVE  InsertAhead(q)
        BY <2>3, <4>1 DEF InsertAhead
      <4>2. ASSUME NEW i \in 1..Len(batch'), batch'[i].req = q, ~batch'[i].update
            PROVE  InsertAhead(q)
        BY <1>1, <2>1, <2>2, <2>4, <4>2 DEF InsertAhead
      <4>3. QED
        BY <4>1, <4>2 DEF InsertAhead
    <3>2. InsertAhead(q) => InsertAhead(q)'
      <4>1. ASSUME NEW i \in 1..Len(channel), channel[i].req = q, ~channel[i].update
            PROVE  InsertAhead(q)'
        <5>1. CASE i = 1
          BY <1>1, <2>1, <2>4, <4>1, <5>1 DEF InsertAhead
        <5>2. CASE i # 1
          BY <2>6, <4>1, <5>2 DEF InsertAhead
        <5>3. QED
          BY <5>1, <5>2
      <4>2. ASSUME NEW i \in 1..Len(batch), batch[i].req = q, ~batch[i].update
            PROVE  InsertAhead(q)'
        BY <1>1, <2>1, <2>4, <4>2 DEF InsertAhead
      <4>3. QED
        BY <4>1, <4>2 DEF InsertAhead
    <3>3. QED
      BY <3>1, <3>2
  <2>8. ASSUME NEW q \in Requests
        PROVE  AnswerAhead(q) => AnswerAhead(q)'
    <3>1. ASSUME NEW i \in 1..Len(channel), channel[i].req = q, channel[i].update
          PROVE  AnswerAhead(q)'
      <4>1. CASE i = 1
        BY <1>1, <2>1, <2>4, <2>5, <3>1, <4>1 DEF AnswerAhead
      <4>2. CASE i # 1
        BY <2>6, <3>1, <4>2 DEF AnswerAhead
      <4>3. QED
        BY <4>1, <4>2
    <3>2. ASSUME NEW i \in at..Len(batch), batch[i].req = q, batch[i].update
          PROVE  AnswerAhead(q)'
      <4>1. i \in at'..Len(batch') /\ batch'[i] = batch[i]
        BY <1>1, <2>4, <2>5, <3>2
      <4>2. QED
        BY <3>2, <4>1 DEF AnswerAhead
    <3>3. QED
      BY <3>1, <3>2 DEF AnswerAhead
  <2>9. \A i, j \in 1..Len(channel') :
          i < j /\ channel'[i].req = channel'[j].req => channel'[j].update
    <3>1. ASSUME NEW i \in 1..Len(channel'), NEW j \in 1..Len(channel'), i < j,
                 channel'[i].req = channel'[j].req
          PROVE  channel'[j].update
      <4>1. /\ i + 1 \in 1..Len(channel) /\ j + 1 \in 1..Len(channel) /\ i + 1 < j + 1
            /\ channel'[i] = channel[i + 1] /\ channel'[j] = channel[j + 1]
        BY <1>1, <2>3, <3>1
      <4>2. QED
        BY <3>1, <4>1 DEF Queued
    <3>2. QED
      BY <3>1
  <2>10. \A i \in 1..Len(batch'), j \in 1..Len(channel') :
           batch'[i].req = channel'[j].req => channel'[j].update
    <3>1. ASSUME NEW i \in 1..Len(batch'), NEW j \in 1..Len(channel'),
                 batch'[i].req = channel'[j].req
          PROVE  channel'[j].update
      <4>1. CASE i = Len(batch) + 1
        BY <1>1, <2>2, <2>3, <2>4, <3>1, <4>1 DEF Queued
      <4>2. CASE i \in 1..Len(batch)
        BY <2>3, <2>4, <3>1, <4>2 DEF Queued
      <4>3. QED
        BY <1>1, <2>4, <4>1, <4>2
    <3>2. QED
      BY <3>1
  <2>11. Queued'
    BY <2>1, <2>5, <2>7, <2>9, <2>10 DEF Queued
  <2>12. Accounted'
    BY <2>1, <2>7, <2>8 DEF Accounted
  <2>13. QED
    BY <2>11, <2>12
<1>3. CASE Collected
  <2>1. /\ flushing = "collect" /\ flushing' = "insert"
        /\ UNCHANGED <<channel, batch, at, rows, cancelling>> /\ lost \subseteq lost'
    BY <1>3 DEF Collected
  <2>2. \A q \in Requests : InsertAhead(q)' = InsertAhead(q) /\ AnswerAhead(q)' = AnswerAhead(q)
    BY <2>1 DEF InsertAhead, AnswerAhead
  <2>3. Queued'
    BY <2>1, <2>2 DEF Queued
  <2>4. Accounted'
    BY <2>1, <2>2 DEF Accounted
  <2>5. QED
    BY <2>3, <2>4
<1>4. CASE InsertBatch \/ InsertFails
  <2>1. /\ flushing = "insert" /\ flushing' = "update"
        /\ UNCHANGED <<channel, batch, at, cancelling>> /\ lost \subseteq lost'
    BY <1>4 DEF InsertBatch, InsertFails
  <2>2. \A q \in Requests : AnswerAhead(q)' = AnswerAhead(q)
    BY <2>1 DEF AnswerAhead
  <2>3. \A q \in Requests : InsertAhead(q)' => InsertAhead(q)
    BY <2>1 DEF InsertAhead
  \* A request whose first event is not in the channel any more, and is of
  \* those that are stored, has its row now, or has lost it.
  <2>4. ASSUME NEW q \in Requests
        PROVE  \/ rows'[q] = rows[q]
               \/ rows[q] = "none" /\ \E i \in 1..Len(batch) : batch[i].req = q /\ ~batch[i].update
    <3>1. CASE \E i \in DOMAIN batch : batch[i].req = q /\ Stored(batch[i])
      <4>1. \E i \in 1..Len(batch) : batch[i].req = q /\ ~batch[i].update
        BY <1>1, <3>1 DEF Stored
      <4>2. InsertAhead(q)
        BY <2>1, <4>1 DEF InsertAhead
      <4>3. QED
        BY <4>1, <4>2 DEF Queued
    <3>2. CASE ~\E i \in DOMAIN batch : batch[i].req = q /\ Stored(batch[i])
      BY <1>4, <3>2 DEF InsertBatch, InsertFails
    <3>3. QED
      BY <3>1, <3>2
  <2>5. Queued'
    <3>1. ASSUME NEW q \in Requests, InsertAhead(q)'
          PROVE  rows'[q] = "none"
      <4>1. PICK j \in 1..Len(channel) : channel[j].req = q /\ ~channel[j].update
        BY <2>1, <3>1 DEF InsertAhead
      <4>2. \A i \in 1..Len(batch) : batch[i].req # q
        BY <4>1 DEF Queued
      <4>3. QED
        BY <2>3, <2>4, <3>1, <4>2 DEF Queued
    <3>2. QED
      BY <2>1, <3>1 DEF Queued
  <2>6. ASSUME NEW q \in Requests \ lost', shown[q] # "none"
        PROVE  InsertAhead(q)' \/ rows'[q] # "none"
    <3>1. CASE rows[q] # "none"
      BY <2>4, <3>1
    <3>2. CASE \E i \in 1..Len(channel) : channel[i].req = q /\ ~channel[i].update
      BY <2>1, <3>2 DEF InsertAhead
    <3>3. CASE \E i \in 1..Len(batch) : batch[i].req = q /\ ~batch[i].update
      <4>1. PICK i \in 1..Len(batch) : batch[i].req = q /\ ~batch[i].update
        BY <3>3
      <4>2. batch[i].decision = "pending"
        BY <1>1, <2>6, <4>1 DEF Happened, HeldWay
      <4>3. Stored(batch[i]) /\ i \in DOMAIN batch
        BY <1>1, <4>1, <4>2 DEF Stored
      <4>4. CASE InsertBatch
        <5>1. \E k : rows'[q] = RowOf(batch[k])
          BY <4>1, <4>3, <4>4 DEF InsertBatch
        <5>2. QED
          BY <5>1 DEF RowOf
      <4>5. CASE InsertFails
        BY <2>6, <4>1, <4>3, <4>5 DEF InsertFails
      <4>6. QED
        BY <1>4, <4>4, <4>5
    <3>4. QED
      BY <2>1, <2>6, <3>1, <3>2, <3>3 DEF Accounted, InsertAhead
  <2>7. ASSUME NEW q \in Requests, rows[q] # "none"
        PROVE  rows'[q] = rows[q]
    BY <2>4, <2>7
  <2>8. Accounted'
    BY <1>1, <2>1, <2>2, <2>6, <2>7 DEF Accounted
  <2>9. QED
    BY <2>5, <2>8
<1>5. CASE UpdateRow \/ UpdateFails
  <2>1. /\ flushing = "update" /\ at \in 1..Len(batch) /\ at' = at + 1
        /\ UNCHANGED <<channel, batch, flushing, cancelling>> /\ lost \subseteq lost'
    BY <1>1, <1>5 DEF UpdateRow, UpdateFails
  <2>2. PICK e \in Events : e = batch[at] /\ Happened(e)
    BY <1>1, <2>1
  <2>3. \/ /\ ~(e.update /\ rows[e.req] # "none")
           /\ rows' = rows /\ lost' = lost
        \/ e.update /\ rows[e.req] # "none" /\ rows' = [rows EXCEPT ![e.req] = e.decision] /\ lost' = lost
        \/ e.update /\ e.req \in lost' /\ rows' = rows
    BY <1>5, <2>2 DEF UpdateRow, UpdateFails
  <2>4. \A q \in Requests : InsertAhead(q)' = InsertAhead(q)
    BY <2>1 DEF InsertAhead
  <2>5. \A q \in Requests : AnswerAhead(q) => AnswerAhead(q)' \/ (e.update /\ e.req = q)
    BY <1>1, <2>1, <2>2 DEF AnswerAhead
  <2>6. e.req \in Requests /\ \A q \in Requests : q # e.req => rows'[q] = rows[q]
    BY <1>1, <2>3 DEF Events
  <2>7. \A q \in Requests : rows[q] = "none" <=> rows'[q] = "none"
    BY <1>1, <2>2, <2>3, <2>6 DEF Happened
  <2>8. Queued'
    BY <2>1, <2>4, <2>7 DEF Queued
  \* The update of a request that was held finds the row.
  <2>9. e.update /\ e.req \notin lost' => rows'[e.req] = e.decision
    <3>1. SUFFICES ASSUME e.update, e.req \notin lost'
                   PROVE  rows'[e.req] = e.decision
      OBVIOUS
    <3>2. Answered(e.req) /\ shown[e.req] # "none"
      BY <2>2, <2>6, <3>1 DEF Happened, Answered, HeldWay
    <3>3. ~InsertAhead(e.req)
      BY <1>1, <2>1, <2>2, <3>1 DEF InsertAhead, Queued
    <3>4. rows[e.req] # "none"
      BY <2>1, <2>6, <3>1, <3>2, <3>3 DEF Accounted
    <3>5. QED
      BY <1>1, <2>3, <2>6, <3>1, <3>4
  <2>10. ASSUME NEW q \in Requests \ lost'
         PROVE  /\ shown[q] # "none" => InsertAhead(q)' \/ rows'[q] # "none"
                /\ reply[q] = "passed" /\ verdict[q] = "approval" => rows'[q] = "approved" \/ AnswerAhead(q)'
                /\ reply[q] = "rejected" => rows'[q] = "denied" \/ AnswerAhead(q)'
                /\ reply[q] = "cancelled" => rows'[q] = "cancelled" \/ q \in cancelling'
    <3>1. shown[q] # "none" => InsertAhead(q)' \/ rows'[q] # "none"
      BY <2>1, <2>4, <2>7, <2>10 DEF Accounted
    <3>2. CASE e.update /\ e.req = q
      BY <2>2, <2>9, <2>10, <3>1, <3>2 DEF Happened
    <3>3. CASE ~(e.update /\ e.req = q)
      <4>1. rows'[q] = rows[q] /\ q \notin lost
        BY <2>1, <2>3, <2>6, <2>10, <3>3
      <4>2. QED
        BY <2>1, <2>5, <2>10, <3>1, <3>3, <4>1 DEF Accounted
    <3>4. QED
      BY <3>2, <3>3
  <2>11. Accounted'
    BY <2>10 DEF Accounted
  <2>12. QED
    BY <2>8, <2>11
<1>6. CASE FlushDone
  <2>1. /\ flushing = "update" /\ at > Len(batch) /\ flushing' = "collect" /\ batch' = <<>> /\ at' = 1
        /\ UNCHANGED <<channel, rows, cancelling, lost>>
    BY <1>6 DEF FlushDone
  <2>2. \A q \in Requests : InsertAhead(q)' = InsertAhead(q)
    BY <1>1, <2>1 DEF InsertAhead
  <2>3. \A q \in Requests : AnswerAhead(q)' = AnswerAhead(q)
    BY <1>1, <2>1 DEF AnswerAhead
  <2>4. Queued'
    BY <2>1, <2>2 DEF Queued
  <2>5. Accounted'
    BY <2>1, <2>2, <2>3 DEF Accounted
  <2>6. QED
    BY <2>4, <2>5
<1>7. ASSUME NEW r \in Requests, MarkCancelled(r) \/ MarkFails(r)
      PROVE  Queued' /\ Accounted'
  <2>1. /\ UNCHANGED <<channel, batch, flushing, at>> /\ lost \subseteq lost'
        /\ cancelling' = cancelling \ {r} /\ r \in cancelling
        /\ \A q \in Requests \ {r} : rows'[q] = rows[q]
        /\ rows[r] = "none" <=> rows'[r] = "none"
        /\ r \in lost' \/ rows'[r] = "cancelled"
    BY <1>1, <1>7 DEF MarkCancelled, MarkFails
  <2>2. \A q \in Requests : InsertAhead(q)' = InsertAhead(q) /\ AnswerAhead(q)' = AnswerAhead(q)
    BY <2>1 DEF InsertAhead, AnswerAhead
  <2>3. Queued'
    BY <2>1, <2>2 DEF Queued
  <2>4. reply[r] = "cancelled"
    BY <2>1 DEF Inv, Truth
  <2>5. Accounted'
    BY <1>1, <2>1, <2>2, <2>4 DEF Accounted
  <2>6. QED
    BY <2>3, <2>5
<1>8. QED
  BY <1>2, <1>3, <1>4, <1>5, <1>6, <1>7 DEF LogNext, Flush

\* The invariant of the held requests holds of every behaviour.
LEMMA HeldInvariance == Spec => []HeldInv
<1> USE LogAssumption
<1>1. Init => HeldWay /\ Queued /\ Accounted
  BY DEF Init, LogInit, HeldWay, Answered, Queued, Accounted, InsertAhead
<1>2. HeldWay /\ Queued /\ Accounted /\ Inv /\ Inv' /\ [Next]_vars => (HeldWay /\ Queued /\ Accounted)'
  <2> SUFFICES ASSUME HeldWay, Queued, Accounted, Inv, Inv', [Next]_vars
               PROVE  HeldWay' /\ Queued' /\ Accounted'
    OBVIOUS
  <2>1. ASSUME NEW r \in Requests, Handle(r)
        PROVE  HeldWay' /\ Queued' /\ Accounted'
    BY <2>1, HeldStep, StepTells, RequestQueue DEF Inv
  <2>2. CASE LogNext /\ UNCHANGED reqVars
    <3>1. HeldWay'
      BY <2>2 DEF reqVars, HeldWay, Answered
    <3>2. QED
      BY <2>2, <3>1, LogQueue
  <2>3. CASE UNCHANGED vars
    BY <2>3 DEF vars, logVars, reqVars, HeldWay, Answered, Queued, Accounted, InsertAhead, AnswerAhead
  <2>4. QED
    BY <2>1, <2>2, <2>3 DEF Next
<1>3. QED
  BY <1>1, <1>2, Invariance, PTL DEF Spec, HeldInv

\* forward.rs:697, 1108 and approval.rs:156: a row that stays "held" when nothing
\* is on its way any more is of a request still held, of one the log lost
\* something about, or of an approved one that ended without an event.
THEOREM HeldRowIsExplained == Spec => []HeldRowsExplained
<1>1. ASSUME HeldInv, Quiet, NEW r \in Requests, rows[r] = "held", pc[r] = "done", r \notin lost
      PROVE  reply[r] \in Silent
  <2>1. ~AnswerAhead(r) /\ r \notin cancelling
    BY <1>1 DEF Quiet, AnswerAhead, HeldInv, Inv, TypeOK, LogTypeOK
  <2>2. verdict[r] = "approval" /\ shown[r] # "none"
    BY <1>1 DEF HeldInv, Inv, LogTellsTruth
  <2>3. reply[r] \notin {"rejected", "cancelled", "passed"}
    BY <1>1, <2>1, <2>2 DEF HeldInv, Accounted
  <2>4. reply[r] \notin {"none", "blocked"}
    BY <1>1, <2>2 DEF HeldInv, HeldWay, Inv, Way
  <2>5. reply[r] \in Replies
    BY <1>1 DEF HeldInv, Inv, TypeOK
  <2>6. QED
    BY <2>3, <2>4, <2>5 DEF Replies
<1>2. HeldInv => HeldRowsExplained
  BY <1>1 DEF HeldRowsExplained
<1>3. QED
  BY <1>2, HeldInvariance, PTL
=============================================================================
