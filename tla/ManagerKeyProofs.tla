--------------------------- MODULE ManagerKeyProofs ---------------------------
(***************************************************************************)
(* The durable approval record and the manager's key, for any rows, calls  *)
(* and wallets.                                                            *)
(*                                                                         *)
(* The invariant is about versions: a call whose version is still the      *)
(* row's also holds the row's context, and a decision in hand with that    *)
(* version is of a row still pending.  As long as nobody wrote from an     *)
(* older version, a write therefore changes what it means to change only:  *)
(* the status and the evidence of a decision (Sound), and the delivery     *)
(* state in which the one recorded trust task shows (Delivered).           *)
(***************************************************************************)
EXTENDS ManagerKey, FiniteSetTheorems, TLAPS

Versions ==
    /\ \A a \in Approvals :
         /\ creation[a] = "none" => row[a].version = 0
         /\ row[a].status = "absent" <=> creation[a] = "none"
         /\ creation[a] = "row" => row[a].version >= 1
         /\ creation[a] = "row" /\ row[a].version = 1 => row[a].status = "pending"
         /\ row[a].version = 0 => row[a].context = BaseContext
    /\ \A c \in Calls :
         LET a == call[c].id IN
         /\ c \in accepted => call[c].op = "decide" /\ call[c].phase # "sign"
         /\ call[c].phase = "audit" => c \in accepted
         /\ call[c].op = "decide" /\ call[c].verdict = "approved" =>
              call[c].protocol # "none"
         /\ call[c].op # "none" =>
              /\ creation[a] # "none"
              /\ call[c].version <= row[a].version
              /\ call[c].version = row[a].version /\ call[c].phase \notin {"audit", "done", "dead"} =>
                   /\ call[c].context = row[a].context
                   /\ call[c].op = "decide" => row[a].status = "pending"

\* The three parts of SerialDecisionSound, the first without counting.
Sound ==
    \A a \in Approvals \ overlapped :
        /\ \A c, d \in DecidedBy(a) : c = d
        /\ EvidenceKept(a)
        /\ \A c \in DecidedBy(a) : row[a].status = call[c].verdict

RInv == RecordTypeOK /\ Versions /\ ApprovedOnConfirmation /\ Sound

-----------------------------------------------------------------------------
(* The steps of the record                                                  *)

\* The contexts that the handlers build, and those they copy a field into.
LEMMA ContextTypes ==
    /\ BaseContext \in Context /\ QueuedContext \in Context
    /\ \A x \in Context, d \in {"none", "queued", "failed", "sent"} :
         [x EXCEPT !.acknowledged = TRUE] \in Context /\ [x EXCEPT !.delivery = d] \in Context
    /\ \A l \in LocalState : DecidedContext(l) \in Context
<1> USE DEF Context
<1>1. NoEvidence \in Evidence
  BY DEF Evidence
<1>2. BaseContext \in Context
  BY <1>1 DEF BaseContext
<1>3. QueuedContext \in Context
  BY <1>1 DEF QueuedContext, BaseContext
<1>4. ASSUME NEW x \in Context, NEW d \in {"none", "queued", "failed", "sent"}
      PROVE  [x EXCEPT !.acknowledged = TRUE] \in Context /\ [x EXCEPT !.delivery = d] \in Context
  OBVIOUS
<1>5. ASSUME NEW l \in LocalState
      PROVE  DecidedContext(l) \in Context
  <2>1. l.context \in Context /\ l.protocol \in Protocol \cup {"none"} /\ l.verdict \in Verdict
    BY DEF LocalState
  <2>2. l.protocol # "none" => [protocol |-> l.protocol, decision |-> l.verdict] \in Evidence
    BY <2>1 DEF Evidence
  <2>3. \A e \in Evidence : [l.context EXCEPT !.evidence = e] \in Context
    BY <2>1
  <2>4. QED
    BY <2>1, <2>2, <2>3 DEF DecidedContext
<1>6. QED
  BY <1>2, <1>3, <1>4, <1>5

\* A call that only goes on to another phase, or takes up a row, is well typed.
LEMMA CallTypes ==
    ASSUME RecordTypeOK, NEW c \in Calls
    PROVE  /\ call[c] \in LocalState
           /\ \A p \in Phase : Advance(c, p) => call' \in [Calls -> LocalState]
           /\ \A l \in LocalState : [call EXCEPT ![c] = l] \in [Calls -> LocalState]
           /\ \A o \in Op, p \in Phase, a \in Approvals :
                [call[c] EXCEPT !.op = o, !.phase = p, !.id = a, !.context = row[a].context,
                                !.version = row[a].version] \in LocalState
           /\ \A a \in Approvals : /\ row[a].status \in {"absent", "pending"} \cup Verdict
                                   /\ row[a].context \in Context /\ row[a].version \in Nat
<1>1. call[c] \in LocalState /\ \A a \in Approvals : row[a] \in Row
  BY DEF RecordTypeOK
<1>2. \A a \in Approvals : /\ row[a].status \in {"absent", "pending"} \cup Verdict
                           /\ row[a].context \in Context /\ row[a].version \in Nat
  BY <1>1 DEF Row
<1>3. \A p \in Phase : [call[c] EXCEPT !.phase = p] \in LocalState
  BY <1>1 DEF LocalState
<1>4. \A p \in Phase : Advance(c, p) => call' \in [Calls -> LocalState]
  BY <1>3 DEF Advance, RecordTypeOK
<1>5. ASSUME NEW o \in Op, NEW p \in Phase, NEW a \in Approvals
      PROVE  [call[c] EXCEPT !.op = o, !.phase = p, !.id = a, !.context = row[a].context,
                             !.version = row[a].version] \in LocalState
  BY <1>1, <1>2 DEF LocalState
<1>6. \A l \in LocalState : [call EXCEPT ![c] = l] \in [Calls -> LocalState]
  BY DEF RecordTypeOK
<1>7. QED
  BY <1>1, <1>2, <1>4, <1>5, <1>6

\* A row written by an update is a row again.
LEMMA UpdateTypes ==
    ASSUME RecordTypeOK, NEW a \in Approvals, NEW s \in {"absent", "pending"} \cup Verdict,
           NEW x \in Context, NEW v \in Nat, Update(a, s, x, v)
    PROVE  row' \in [Approvals -> Row] /\ overlapped' \subseteq Approvals
<1>1. row[a].version \in Nat
  BY DEF RecordTypeOK, Row
<1>2. [status |-> s, context |-> x, version |-> row[a].version + 1] \in Row
  BY <1>1 DEF Row
<1>3. QED
  BY <1>2 DEF RecordTypeOK, Update

\* Every step of createApproval and of the handlers keeps the types.
LEMMA RecordTypes ==
    ASSUME RecordTypeOK, Versions, (\E a \in Approvals : Create(a)) \/ (\E c \in Calls : Handler(c))
    PROVE  RecordTypeOK'
<1>1. ASSUME NEW a \in Approvals, Create(a)
      PROVE  RecordTypeOK'
  <2>1. "pending" \in {"absent", "pending"} \cup Verdict /\ row[a].status \in {"absent", "pending"} \cup Verdict
    BY DEF RecordTypeOK, Row
  <2>2. row' \in [Approvals -> Row] /\ overlapped' \subseteq Approvals
    <3>1. CASE CreateRow(a)
      BY <2>1, <3>1, ContextTypes, UpdateTypes DEF CreateRow
    <3>2. CASE CreateContext(a)
      BY <2>1, <3>2, ContextTypes, UpdateTypes DEF CreateContext
    <3>3. QED
      BY <1>1, <3>1, <3>2 DEF Create
  <2>3. QED
    BY <1>1, <2>2 DEF RecordTypeOK, Create, CreateRow, CreateContext
<1>2. ASSUME NEW c \in Calls, Handler(c)
      PROVE  RecordTypeOK'
  <2>1. ASSUME NEW a \in Approvals, NEW verdict \in Verdict, NEW protocol \in Protocol \cup {"none"},
               DecideRead(c, a, verdict, protocol)
        PROVE  RecordTypeOK'
    <3>1. row[a].context \in Context /\ row[a].version \in Nat
      BY CallTypes
    <3>2. [op |-> "decide", phase |-> "sign", id |-> a, context |-> row[a].context,
           version |-> row[a].version, verdict |-> verdict, protocol |-> protocol] \in LocalState
      BY <3>1 DEF LocalState, Op, Phase
    <3>3. call' \in [Calls -> LocalState]
      BY <2>1, <3>2, CallTypes DEF DecideRead
    <3>4. QED
      BY <2>1, <3>3 DEF DecideRead, RecordTypeOK
  <2>2. ASSUME NEW a \in Approvals, TriggerRead(c, a) \/ AckRead(c, a)
        PROVE  RecordTypeOK'
    <3> DEFINE l(o, p) == [call[c] EXCEPT !.op = o, !.phase = p, !.id = a, !.context = row[a].context,
                                          !.version = row[a].version]
    <3>1. l("trigger", "dispatch") \in LocalState /\ l("ack", "read") \in LocalState
      BY CallTypes DEF Op, Phase
    <3>2. call' = [call EXCEPT ![c] = l("trigger", "dispatch")] \/ call' = [call EXCEPT ![c] = l("ack", "read")]
      BY <2>2 DEF TriggerRead, AckRead
    <3> HIDE DEF l
    <3>3. call' \in [Calls -> LocalState]
      BY <3>1, <3>2, CallTypes
    <3>4. QED
      BY <2>2, <3>3 DEF TriggerRead, AckRead, RecordTypeOK
  <2>3. CASE DecideWrite(c)
    <3>1. call[c].id \in Approvals /\ call[c].verdict \in Verdict /\ call[c].version \in Nat
      BY CallTypes DEF LocalState
    <3>2. row' \in [Approvals -> Row] /\ overlapped' \subseteq Approvals
      BY <2>3, <3>1, CallTypes, ContextTypes, UpdateTypes DEF DecideWrite
    <3>3. QED
      BY <2>3, <3>2, CallTypes DEF DecideWrite, RecordTypeOK, Phase
  <2>4. ASSUME NEW ok \in BOOLEAN, DecideAudit(c, ok) \/ Dispatch(c, ok)
        PROVE  RecordTypeOK'
    <3>1. call' \in [Calls -> LocalState]
      <4>1. \E p \in Phase : Advance(c, p)
        BY <2>4 DEF DecideAudit, Dispatch, Phase
      <4>2. QED
        BY <4>1, CallTypes
    <3>2. audits' \subseteq accepted /\ dispatched' \subseteq Calls /\ UNCHANGED <<row, creation, accepted, overlapped>>
      BY <2>4 DEF DecideAudit, Dispatch, RecordTypeOK, Versions
    <3>3. QED
      BY <3>1, <3>2 DEF RecordTypeOK
  <2>5. CASE TriggerWrite(c) \/ AckWrite(c)
    <3>1. call[c].id \in Approvals /\ call[c].context \in Context /\ call[c].version \in Nat
      BY CallTypes DEF LocalState
    <3>2. row' \in [Approvals -> Row] /\ overlapped' \subseteq Approvals
      <4>1. ASSUME NEW x \in Context, UpdateContext(c, x)
            PROVE  row' \in [Approvals -> Row] /\ overlapped' \subseteq Approvals
        BY <3>1, <4>1, CallTypes, UpdateTypes DEF UpdateContext
      <4>2. QED
        BY <2>5, <3>1, <4>1, ContextTypes DEF TriggerWrite, AckWrite
    <3>3. QED
      BY <2>5, <3>2, CallTypes DEF TriggerWrite, AckWrite, RecordTypeOK, Phase
  <2>6. CASE CallDies(c)
    BY <2>6, CallTypes DEF CallDies, RecordTypeOK, Phase
  <2>7. QED
    BY <1>2, <2>1, <2>2, <2>3, <2>4, <2>5, <2>6 DEF Handler
<1>3. QED
  BY <1>1, <1>2

\* What an update and a change of phase do, field by field.
LEMMA UpdateEffect ==
    ASSUME RecordTypeOK, NEW a \in Approvals, NEW s, NEW x, NEW v, Update(a, s, x, v)
    PROVE  /\ \A b \in Approvals \ {a} : row'[b] = row[b]
           /\ row'[a].status = s /\ row'[a].context = x /\ row'[a].version = row[a].version + 1
           /\ \A b \in Approvals : b \notin overlapped' =>
                b \notin overlapped /\ (b = a => v = row[a].version)
BY DEF RecordTypeOK, Row, Update

\* A call that goes on to its next await changes its own phase only.
LEMMA AdvanceEffect ==
    ASSUME RecordTypeOK, NEW c \in Calls, NEW p, Advance(c, p)
    PROVE  /\ \A d \in Calls \ {c} : call'[d] = call[d]
           /\ call'[c].phase = p
           /\ call'[c].op = call[c].op /\ call'[c].id = call[c].id
           /\ call'[c].context = call[c].context /\ call'[c].version = call[c].version
           /\ call'[c].verdict = call[c].verdict /\ call'[c].protocol = call[c].protocol
BY DEF RecordTypeOK, LocalState, Advance

\* A step of the record keeps what the versions say, and the decision sound.
LEMMA RecordKept ==
    ASSUME RInv, (\E a \in Approvals : Create(a)) \/ (\E c \in Calls : Handler(c))
    PROVE  RInv'
<1>1. /\ RecordTypeOK' /\ accepted \subseteq Calls /\ DOMAIN call = Calls /\ DOMAIN row = Approvals
      /\ row \in [Approvals -> Row] /\ call \in [Calls -> LocalState]
      /\ \A c \in Calls : call[c].id \in Approvals /\ call[c].version \in Nat
      /\ \A a \in Approvals : row[a].version \in Nat
        /\ row[a].status \in {"absent", "pending"} \cup Verdict
      /\ RecordTypeOK
  BY RecordTypes DEF RInv, RecordTypeOK, Row, LocalState
<1> DEFINE Decided == Versions' /\ ApprovedOnConfirmation' /\ Sound'
<1> USE DEF Versions, ApprovedOnConfirmation, Sound, EvidenceKept, DecidedBy
<1>2. Versions /\ ApprovedOnConfirmation /\ Sound
  BY DEF RInv
<1>3. ASSUME NEW a \in Approvals, CreateRow(a)
      PROVE  Decided
  <2>1. /\ \A b \in Approvals \ {a} : row'[b] = row[b]
        /\ row'[a].status = "pending" /\ row'[a].version = row[a].version + 1
        /\ row'[a].context = BaseContext
        /\ \A b \in Approvals : b \notin overlapped' =>
             b \notin overlapped /\ (b = a => 0 = row[a].version)
    BY <1>1, <1>3, UpdateEffect DEF CreateRow
  <2>2. creation[a] = "none" /\ creation'[a] = "row" /\ (\A b \in Approvals \ {a} : creation'[b] = creation[b])
        /\ UNCHANGED <<call, accepted>>
    BY <1>1, <1>3 DEF CreateRow, RecordTypeOK
  <2>3. Versions'
    BY <1>1, <1>2, <2>1, <2>2 DEF Verdict
  <2>4. ApprovedOnConfirmation'
    BY <1>1, <1>2, <2>1, <2>2 DEF Verdict
  <2>5. Sound'
    BY <1>1, <1>2, <2>1, <2>2 DEF Verdict
  <2>6. QED
    BY <2>3, <2>4, <2>5
<1>4. ASSUME NEW a \in Approvals, CreateContext(a)
      PROVE  Decided
  <2>1. /\ \A b \in Approvals \ {a} : row'[b] = row[b]
        /\ row'[a].status = row[a].status /\ row'[a].version = row[a].version + 1
        /\ row'[a].context = QueuedContext
        /\ \A b \in Approvals : b \notin overlapped' =>
             b \notin overlapped /\ (b = a => 1 = row[a].version)
    BY <1>1, <1>4, UpdateEffect DEF CreateContext
  <2>2. creation[a] = "row" /\ creation'[a] = "done" /\ (\A b \in Approvals \ {a} : creation'[b] = creation[b])
        /\ UNCHANGED <<call, accepted>>
    BY <1>1, <1>4 DEF CreateContext, RecordTypeOK
  <2>3. Versions'
    BY <1>1, <1>2, <2>1, <2>2 DEF Verdict
  <2>4. ApprovedOnConfirmation'
    BY <1>1, <1>2, <2>1, <2>2 DEF Verdict
  <2>5. Sound'
    BY <1>1, <1>2, <2>1, <2>2 DEF Verdict
  <2>6. QED
    BY <2>3, <2>4, <2>5
<1>5. ASSUME NEW c \in Calls, NEW a \in Approvals, NEW verdict \in Verdict,
             NEW protocol \in Protocol \cup {"none"}, DecideRead(c, a, verdict, protocol)
      PROVE  Decided
  <2>1. /\ \A d \in Calls \ {c} : call'[d] = call[d]
        /\ call'[c].op = "decide" /\ call'[c].phase = "sign" /\ call'[c].id = a
        /\ call'[c].context = row[a].context /\ call'[c].version = row[a].version
        /\ call'[c].verdict = verdict /\ call'[c].protocol = protocol
        /\ call[c].op = "none" /\ row[a].status = "pending"
        /\ verdict = "approved" => protocol # "none"
        /\ UNCHANGED <<row, creation, accepted, overlapped>>
    BY <1>1, <1>5 DEF DecideRead
  <2>2. Versions'
    BY <1>1, <1>2, <2>1
  <2>3. ApprovedOnConfirmation'
    BY <1>1, <1>2, <2>1
  <2>4. Sound'
    BY <1>1, <1>2, <2>1
  <2>5. QED
    BY <2>2, <2>3, <2>4
<1>6. ASSUME NEW c \in Calls, NEW a \in Approvals, TriggerRead(c, a) \/ AckRead(c, a)
      PROVE  Decided
  <2>1. /\ \A d \in Calls \ {c} : call'[d] = call[d]
        /\ call'[c].op \in {"trigger", "ack"} /\ call'[c].phase \in {"dispatch", "read"}
        /\ call'[c].id = a
        /\ call'[c].context = row[a].context /\ call'[c].version = row[a].version
        /\ call[c].op = "none" /\ row[a].context.stepUp
        /\ UNCHANGED <<row, creation, accepted, overlapped>>
    <3> DEFINE l(o, p) == [call[c] EXCEPT !.op = o, !.phase = p, !.id = a, !.context = row[a].context,
                                          !.version = row[a].version]
    <3>1. call[c] \in LocalState
      BY <1>1
    <3>2. ASSUME NEW o, NEW p
          PROVE  /\ l(o, p).op = o /\ l(o, p).phase = p /\ l(o, p).id = a
                 /\ l(o, p).context = row[a].context /\ l(o, p).version = row[a].version
      BY <3>1 DEF LocalState
    <3>3. \E o \in {"trigger", "ack"}, p \in {"dispatch", "read"} : call' = [call EXCEPT ![c] = l(o, p)]
      BY <1>6 DEF TriggerRead, AckRead
    <3>4. call[c].op = "none" /\ row[a].context.stepUp /\ UNCHANGED <<row, creation, accepted, overlapped>>
      BY <1>6 DEF TriggerRead, AckRead
    <3> HIDE DEF l
    <3>5. QED
      BY <1>1, <3>2, <3>3, <3>4
  <2>2. ~BaseContext.stepUp
    BY DEF BaseContext
  <2>3. Versions'
    BY <1>1, <1>2, <2>1, <2>2
  <2>4. ApprovedOnConfirmation'
    BY <1>1, <1>2, <2>1, <2>2
  <2>5. Sound'
    BY <1>1, <1>2, <2>1, <2>2
  <2>6. QED
    BY <2>3, <2>4, <2>5
<1>7. ASSUME NEW c \in Calls, DecideWrite(c)
      PROVE  Decided
  <2>1. /\ \A b \in Approvals \ {call[c].id} : row'[b] = row[b]
        /\ row'[call[c].id].status = call[c].verdict /\ row'[call[c].id].version = row[call[c].id].version + 1
        /\ row'[call[c].id].context = DecidedContext(call[c])
        /\ \A b \in Approvals : b \notin overlapped' =>
             b \notin overlapped /\ (b = call[c].id => call[c].version = row[call[c].id].version)
    BY <1>1, <1>7, UpdateEffect DEF DecideWrite
  <2>2. /\ \A d \in Calls \ {c} : call'[d] = call[d]
        /\ call'[c].phase = "audit"
        /\ call'[c].op = call[c].op /\ call'[c].id = call[c].id
        /\ call'[c].context = call[c].context /\ call'[c].version = call[c].version
        /\ call'[c].verdict = call[c].verdict /\ call'[c].protocol = call[c].protocol
    BY <1>1, <1>7, AdvanceEffect DEF DecideWrite
  <2>3. call[c].op = "decide" /\ call[c].phase = "sign" /\ call[c].verdict \in Verdict
        /\ accepted' = accepted \cup {c} /\ UNCHANGED creation
    BY <1>1, <1>7 DEF DecideWrite, LocalState
  <2>4. call[c].verdict = "approved" /\ call[c].protocol # "none" =>
          /\ DecidedContext(call[c]).evidence # NoEvidence
          /\ DecidedContext(call[c]).evidence.decision = "approved"
    BY <1>1 DEF DecidedContext, LocalState, Context, NoEvidence, Verdict, Protocol
  <2>5. Versions'
    BY <1>1, <1>2, <2>1, <2>2, <2>3, <2>4 DEF Verdict
  <2>6. ApprovedOnConfirmation'
    BY <1>1, <1>2, <2>1, <2>2, <2>3, <2>4 DEF Verdict
  <2>7. Sound'
    BY <1>1, <1>2, <2>1, <2>2, <2>3, <2>4 DEF Verdict
  <2>8. QED
    BY <2>5, <2>6, <2>7
<1>8. ASSUME NEW c \in Calls, NEW ok \in BOOLEAN, DecideAudit(c, ok) \/ Dispatch(c, ok)
      PROVE  Decided
  <2>1. /\ \A d \in Calls \ {c} : call'[d] = call[d]
        /\ call'[c].phase \in {"done", "sent", "failed"}
        /\ call'[c].phase = "done" \/ call[c].op = "trigger"
        /\ call[c].op = "decide" => call[c].phase = "audit"
        /\ call'[c].op = call[c].op /\ call'[c].id = call[c].id
        /\ call'[c].context = call[c].context /\ call'[c].version = call[c].version
        /\ call'[c].verdict = call[c].verdict /\ call'[c].protocol = call[c].protocol
    <3>1. PICK p : Advance(c, p) /\ p \in {"done", "sent", "failed"}
      BY <1>8 DEF DecideAudit, Dispatch
    <3>2. /\ p = "done" \/ call[c].op = "trigger"
          /\ call[c].op = "decide" => call[c].phase = "audit"
      BY <1>8, <3>1, <1>1, AdvanceEffect DEF DecideAudit, Dispatch
    <3>3. QED
      BY <1>1, <3>1, <3>2, AdvanceEffect
  <2>2. call[c].op \in {"decide", "trigger"} /\ call[c].phase \in {"audit", "dispatch"}
        /\ UNCHANGED <<row, creation, accepted, overlapped>>
    BY <1>8 DEF DecideAudit, Dispatch
  <2>3. Versions'
    BY <1>1, <1>2, <2>1, <2>2
  <2>4. ApprovedOnConfirmation'
    BY <1>1, <1>2, <2>1, <2>2
  <2>5. Sound'
    BY <1>1, <1>2, <2>1, <2>2
  <2>6. QED
    BY <2>3, <2>4, <2>5
<1>9. ASSUME NEW c \in Calls, NEW x \in Context, UpdateContext(c, x), Advance(c, "done"),
             UNCHANGED <<creation, accepted>>, call[c].op \in {"trigger", "ack"},
             call[c].phase \in {"sent", "failed", "read"}, x.evidence = call[c].context.evidence
      PROVE  Decided
  <2>1. /\ \A b \in Approvals \ {call[c].id} : row'[b] = row[b]
        /\ row'[call[c].id].status = row[call[c].id].status /\ row'[call[c].id].version = row[call[c].id].version + 1
        /\ row'[call[c].id].context = x
        /\ \A b \in Approvals : b \notin overlapped' =>
             b \notin overlapped /\ (b = call[c].id => call[c].version = row[call[c].id].version)
    BY <1>1, <1>9, UpdateEffect DEF UpdateContext
  <2>2. /\ \A d \in Calls \ {c} : call'[d] = call[d]
        /\ call'[c].phase = "done"
        /\ call'[c].op = call[c].op /\ call'[c].id = call[c].id
        /\ call'[c].context = call[c].context /\ call'[c].version = call[c].version
        /\ call'[c].verdict = call[c].verdict /\ call'[c].protocol = call[c].protocol
    BY <1>1, <1>9, AdvanceEffect
  <2>3. UNCHANGED <<creation, accepted>> /\ call[c].op \in {"trigger", "ack"} /\ call[c].phase \in {"sent", "failed", "read"}
        /\ x.evidence = call[c].context.evidence
    BY <1>9
  <2>4. Versions'
    BY <1>1, <1>2, <2>1, <2>2, <2>3
  <2>5. ApprovedOnConfirmation'
    BY <1>1, <1>2, <2>1, <2>2, <2>3
  <2>6. Sound'
    BY <1>1, <1>2, <2>1, <2>2, <2>3
  <2>7. QED
    BY <2>4, <2>5, <2>6
<1>10. ASSUME NEW c \in Calls, CallDies(c)
      PROVE  Decided
  <2>1. /\ \A d \in Calls \ {c} : call'[d] = call[d]
        /\ call'[c].phase = "dead"
        /\ call'[c].op = call[c].op /\ call'[c].id = call[c].id
        /\ call'[c].context = call[c].context /\ call'[c].version = call[c].version
        /\ call'[c].verdict = call[c].verdict /\ call'[c].protocol = call[c].protocol
    BY <1>1, <1>10, AdvanceEffect DEF CallDies
  <2>2. call[c].phase # "done" /\ UNCHANGED <<row, creation, accepted, overlapped>>
    BY <1>10 DEF CallDies
  <2>3. Versions'
    BY <1>1, <1>2, <2>1, <2>2
  <2>4. ApprovedOnConfirmation'
    BY <1>1, <1>2, <2>1, <2>2
  <2>5. Sound'
    BY <1>1, <1>2, <2>1, <2>2
  <2>6. QED
    BY <2>3, <2>4, <2>5
<1>11. QED
  <2> HIDE DEF Decided
  <2>1. ASSUME NEW c \in Calls, TriggerWrite(c) \/ AckWrite(c)
        PROVE  Decided
    <3>1. call[c].context \in Context /\ call[c].phase \in Phase
      BY <1>1 DEF LocalState
    <3>2. CASE TriggerWrite(c)
      <4> DEFINE x == [call[c].context EXCEPT !.delivery = call[c].phase]
      <4>1. x \in Context /\ x.evidence = call[c].context.evidence
        BY <3>1, <3>2, ContextTypes DEF TriggerWrite, Context
      <4>2. QED
        BY <1>9, <3>2, <4>1 DEF TriggerWrite
    <3>3. CASE AckWrite(c)
      <4> DEFINE x == [call[c].context EXCEPT !.acknowledged = TRUE]
      <4>1. x \in Context /\ x.evidence = call[c].context.evidence
        BY <3>1, ContextTypes DEF Context
      <4>2. QED
        BY <1>9, <3>3, <4>1 DEF AckWrite
    <3>4. QED
      BY <2>1, <3>2, <3>3
  <2>2. Decided
    BY <2>1, <1>3, <1>4, <1>5, <1>6, <1>7, <1>8, <1>10 DEF Create, Handler
  <2>3. QED
    BY <1>1, <2>2 DEF Decided, RInv

\* The record starts so, and nobody else touches it.
LEMMA RecordStarts == RecordInit => RInv
<1> SUFFICES ASSUME RecordInit PROVE RInv
  OBVIOUS
<1>1. RecordTypeOK
  BY ContextTypes DEF RecordInit, RecordTypeOK, Row, LocalState, Phase, Verdict, Op, Protocol
<1>2. Versions /\ ApprovedOnConfirmation /\ Sound
  BY DEF RecordInit, Versions, ApprovedOnConfirmation, Sound, DecidedBy, EvidenceKept, Verdict, Protocol
<1>3. QED
  BY <1>1, <1>2 DEF RInv

LEMMA RecordStutters == RInv /\ UNCHANGED recordVars => RInv'
BY DEF recordVars, RInv, RecordTypeOK, Versions, ApprovedOnConfirmation, Sound, DecidedBy, EvidenceKept

\* What an accepted decision was about does not change, and neither does the
\* status of a decided row, unless a write was from a stale read.
LEMMA DecisionsKept ==
    ASSUME RInv, (\E a \in Approvals : Create(a)) \/ (\E c \in Calls : Handler(c))
    PROVE  /\ \A c \in accepted :
                /\ c \in accepted' /\ call'[c].id = call[c].id
                /\ call'[c].verdict = call[c].verdict /\ call'[c].protocol = call[c].protocol
           /\ overlapped \subseteq overlapped'
           /\ \A a \in Approvals \ overlapped' :
                row[a].status \in Verdict => row'[a].status = row[a].status
<1>1. /\ RecordTypeOK /\ Versions /\ accepted \subseteq Calls
      /\ DOMAIN call = Calls /\ DOMAIN row = Approvals
      /\ \A c \in Calls : call[c].id \in Approvals
      /\ \A c \in accepted : call[c].op = "decide" /\ call[c].phase # "sign"
  BY DEF RInv, RecordTypeOK, LocalState, Versions
<1> DEFINE CallsKept == \A c \in accepted :
                          /\ c \in accepted' /\ call'[c].id = call[c].id
                          /\ call'[c].verdict = call[c].verdict /\ call'[c].protocol = call[c].protocol
           RowsKept == /\ overlapped \subseteq overlapped'
                       /\ \A a \in Approvals \ overlapped' :
                            row[a].status \in Verdict => row'[a].status = row[a].status
<1>2. ASSUME NEW a \in Approvals, Create(a)
      PROVE  CallsKept /\ RowsKept
  <2>1. UNCHANGED <<call, accepted>> /\ overlapped \subseteq overlapped'
    BY <1>2 DEF Create, CreateRow, CreateContext, Update
  <2>2. \A b \in Approvals : row[b].status \in Verdict => row'[b].status = row[b].status
    <3>1. CASE CreateRow(a)
      <4>1. row[a].status = "absent" /\ \A b \in Approvals \ {a} : row'[b] = row[b]
        BY <1>1, <3>1, UpdateEffect DEF CreateRow, Versions
      <4>2. QED
        BY <4>1 DEF Verdict
    <3>2. CASE CreateContext(a)
      BY <1>1, <3>2, UpdateEffect DEF CreateContext
    <3>3. QED
      BY <1>2, <3>1, <3>2 DEF Create
  <2>3. QED
    BY <2>1, <2>2
<1>3. ASSUME NEW c \in Calls, UNCHANGED <<row, overlapped>>, accepted \subseteq accepted',
             \A d \in Calls \ {c} : call'[d] = call[d],
             \/ call[c].op = "none"
             \/ \E p : Advance(c, p)
      PROVE  CallsKept /\ RowsKept
  BY <1>1, <1>3, AdvanceEffect
<1>4. ASSUME NEW c \in Calls, NEW s, NEW x, NEW p, Update(call[c].id, s, x, call[c].version),
             Advance(c, p), accepted \subseteq accepted',
             \/ s = row[call[c].id].status
             \/ call[c].version = row[call[c].id].version => row[call[c].id].status = "pending"
      PROVE  CallsKept /\ RowsKept
  <2>1. CallsKept
    BY <1>1, <1>4, AdvanceEffect
  <2>2. /\ \A b \in Approvals \ {call[c].id} : row'[b] = row[b]
        /\ row'[call[c].id].status = s
        /\ call[c].id \notin overlapped' => call[c].version = row[call[c].id].version
    BY <1>1, <1>4, UpdateEffect
  <2>3. overlapped \subseteq overlapped'
    BY <1>4 DEF Update
  <2>4. RowsKept
    BY <1>1, <1>4, <2>2, <2>3 DEF Verdict
  <2>5. QED
    BY <2>1, <2>4
<1>5. ASSUME NEW c \in Calls, Handler(c)
      PROVE  CallsKept /\ RowsKept
  <2>1. CASE \E a \in Approvals :
               \/ \E verdict \in Verdict, protocol \in Protocol \cup {"none"} :
                    DecideRead(c, a, verdict, protocol)
               \/ TriggerRead(c, a) \/ AckRead(c, a)
    <3>1. /\ call[c].op = "none" /\ \A d \in Calls \ {c} : call'[d] = call[d]
          /\ UNCHANGED <<row, overlapped, accepted>>
      BY <1>1, <2>1 DEF DecideRead, TriggerRead, AckRead
    <3>2. QED
      BY <1>3, <3>1
  <2>2. CASE CallDies(c) \/ \E ok \in BOOLEAN : DecideAudit(c, ok) \/ Dispatch(c, ok)
    <3>1. PICK p : Advance(c, p)
      BY <2>2 DEF CallDies, DecideAudit, Dispatch
    <3>2. (\A d \in Calls \ {c} : call'[d] = call[d]) /\ UNCHANGED <<row, overlapped, accepted>>
      BY <1>1, <2>2, <3>1, AdvanceEffect DEF CallDies, DecideAudit, Dispatch
    <3>3. QED
      BY <1>3, <3>1, <3>2
  <2>3. CASE DecideWrite(c)
    <3>1. call[c].version = row[call[c].id].version => row[call[c].id].status = "pending"
      BY <1>1, <2>3 DEF DecideWrite, Versions
    <3>2. QED
      BY <1>4, <2>3, <3>1 DEF DecideWrite
  <2>4. CASE TriggerWrite(c) \/ AckWrite(c)
    BY <1>4, <2>4 DEF TriggerWrite, AckWrite, UpdateContext
  <2>5. QED
    BY <1>5, <2>1, <2>2, <2>3, <2>4 DEF Handler
<1>6. QED
  BY <1>2, <1>5

-----------------------------------------------------------------------------
(* The delivery of a row's trust task                                       *)

Recorded(a) == {c \in DispatchedFor(a) : call[c].phase = "done"}

\* A recorded dispatch shows in the delivery state for as long as every write
\* starts from the current context, and a trigger only starts where it does not
\* show.  The second write of createApproval, which resets the delivery, comes
\* first or is itself a stale one.
Delivered ==
    /\ \A a \in Approvals \ overlapped :
         /\ \A c, d \in Recorded(a) : c = d
         /\ Recorded(a) # {} => row[a].context.delivery = "sent"
         /\ creation[a] = "row" /\ row[a].version = 1 => row[a].context = BaseContext
    /\ \A c \in Calls :
         /\ c \in dispatched => call[c].op = "trigger" /\ call[c].phase \in {"sent", "done", "dead"}
         /\ call[c].op = "trigger" => call[c].context.delivery # "sent"

\* A step of the record keeps the recorded dispatches in its delivery state.
LEMMA DeliveryStep ==
    ASSUME RInv, Delivered, (\E a \in Approvals : Create(a)) \/ (\E c \in Calls : Handler(c))
    PROVE  Delivered'
<1>1. /\ RecordTypeOK /\ Versions
      /\ DOMAIN call = Calls /\ DOMAIN row = Approvals /\ dispatched \subseteq Calls
      /\ call \in [Calls -> LocalState]
      /\ \A c \in Calls : call[c].id \in Approvals /\ call[c].version \in Nat
      /\ \A a \in Approvals : row[a].version \in Nat
  BY DEF RInv, RecordTypeOK, Row, LocalState
<1>2. BaseContext.delivery = "none" /\ ~BaseContext.stepUp
  BY DEF BaseContext
<1> USE DEF Delivered, Recorded, DispatchedFor
<1>3. ASSUME NEW a \in Approvals, CreateRow(a)
      PROVE  Delivered'
  <2>1. /\ \A b \in Approvals \ {a} : row'[b] = row[b]
        /\ row'[a].context = BaseContext
        /\ \A b \in Approvals : b \notin overlapped' =>
             b \notin overlapped /\ (b = a => 0 = row[a].version)
    BY <1>1, <1>3, UpdateEffect DEF CreateRow
  <2>2. (\A b \in Approvals \ {a} : creation'[b] = creation[b]) /\ UNCHANGED <<call, dispatched>>
    BY <1>1, <1>3 DEF CreateRow, RecordTypeOK
  <2>3. a \notin overlapped' => Recorded(a) = {}
    BY <1>1, <1>2, <2>1 DEF Versions
  <2>4. QED
    BY <1>1, <2>1, <2>2, <2>3
<1>4. ASSUME NEW a \in Approvals, CreateContext(a)
      PROVE  Delivered'
  <2>1. /\ \A b \in Approvals \ {a} : row'[b] = row[b]
        /\ \A b \in Approvals : b \notin overlapped' =>
             b \notin overlapped /\ (b = a => 1 = row[a].version)
    BY <1>1, <1>4, UpdateEffect DEF CreateContext
  <2>2. creation[a] = "row" /\ creation'[a] = "done" /\ (\A b \in Approvals \ {a} : creation'[b] = creation[b])
        /\ UNCHANGED <<call, dispatched>>
    BY <1>1, <1>4 DEF CreateContext, RecordTypeOK
  <2>3. a \notin overlapped' => Recorded(a) = {}
    BY <1>1, <1>2, <2>1, <2>2
  <2>4. QED
    BY <1>1, <2>1, <2>2, <2>3
\* A call that takes up a row was in no list yet, and a trigger saw no delivery.
<1>5. ASSUME NEW c \in Calls, NEW a \in Approvals, call[c].op = "none",
             \A d \in Calls \ {c} : call'[d] = call[d],
             call'[c].op = "trigger" => call'[c].context.delivery # "sent",
             UNCHANGED <<row, creation, dispatched, overlapped>>
      PROVE  Delivered'
  <2>1. c \notin dispatched
    BY <1>5
  <2>2. \A b \in Approvals : Recorded(b)' = Recorded(b)
    BY <1>1, <1>5, <2>1
  <2>3. QED
    BY <1>1, <1>5, <2>1, <2>2
<1>6. ASSUME NEW c \in Calls, NEW a \in Approvals,
             \/ \E verdict \in Verdict, protocol \in Protocol \cup {"none"} :
                  DecideRead(c, a, verdict, protocol)
             \/ TriggerRead(c, a) \/ AckRead(c, a)
      PROVE  Delivered'
  <2>1. /\ \A d \in Calls \ {c} : call'[d] = call[d]
        /\ call[c].op = "none" /\ UNCHANGED <<row, creation, dispatched, overlapped>>
    BY <1>1, <1>6 DEF DecideRead, TriggerRead, AckRead
  <2>2. call'[c].op = "trigger" => call'[c].context.delivery # "sent"
    <3>1. CASE TriggerRead(c, a)
      <4>1. row[a].context.delivery # "sent"
        BY <3>1 DEF TriggerRead
      <4>2. call'[c].context = row[a].context
        BY <1>1, <3>1 DEF TriggerRead, LocalState
      <4>3. QED
        BY <4>1, <4>2
    <3>2. CASE AckRead(c, a)
      BY <1>1, <3>2 DEF AckRead, LocalState
    <3>3. ASSUME NEW verdict \in Verdict, NEW protocol \in Protocol \cup {"none"},
                 DecideRead(c, a, verdict, protocol)
          PROVE  call'[c].op = "decide"
      BY <1>1, <3>3 DEF DecideRead
    <3>4. QED
      BY <1>6, <3>1, <3>2, <3>3
  <2>3. QED
    BY <1>5, <2>1, <2>2
\* A write of anything but a trigger keeps the delivery it read.
<1>7. ASSUME NEW c \in Calls, NEW s, NEW x \in Context, NEW p \in Phase,
             Update(call[c].id, s, x, call[c].version), Advance(c, p),
             UNCHANGED <<creation, dispatched>>, call[c].op \in {"decide", "ack"},
             call[c].phase \in {"sign", "read"}, x.delivery = call[c].context.delivery
      PROVE  Delivered'
  <2>1. /\ \A b \in Approvals \ {call[c].id} : row'[b] = row[b]
        /\ row'[call[c].id].version = row[call[c].id].version + 1 /\ row'[call[c].id].context = x
        /\ \A b \in Approvals : b \notin overlapped' =>
             b \notin overlapped /\ (b = call[c].id => call[c].version = row[call[c].id].version)
    BY <1>1, <1>7, UpdateEffect
  <2>2. /\ \A d \in Calls \ {c} : call'[d] = call[d]
        /\ call'[c].op = call[c].op
    BY <1>1, <1>7, AdvanceEffect
  <2>3. c \notin dispatched
    BY <1>7
  <2>4. \A b \in Approvals : Recorded(b)' = Recorded(b)
    BY <1>1, <1>7, <2>2, <2>3
  <2>5. call[c].id \notin overlapped' => x.delivery = row[call[c].id].context.delivery
    BY <1>1, <1>7, <2>1 DEF Versions
  <2>6. creation[call[c].id] = "row" => row[call[c].id].version >= 1
    BY <1>1 DEF Versions
  <2>7. QED
    BY <1>1, <1>7, <2>1, <2>2, <2>3, <2>4, <2>5, <2>6
<1>8. ASSUME NEW c \in Calls, TriggerWrite(c), NEW a \in Approvals, a = call[c].id
      PROVE  Delivered'
  <2> DEFINE x == [call[c].context EXCEPT !.delivery = call[c].phase]
  <2>1. /\ \A b \in Approvals \ {a} : row'[b] = row[b]
        /\ row'[a].version = row[a].version + 1 /\ row'[a].context = x
        /\ \A b \in Approvals : b \notin overlapped' =>
             b \notin overlapped /\ (b = a => call[c].version = row[a].version)
    BY <1>1, <1>8, UpdateEffect DEF TriggerWrite, UpdateContext
  <2>2. x.delivery = call[c].phase
    BY <1>1 DEF LocalState, Context
  <2> HIDE DEF x
  <2>3. /\ \A d \in Calls \ {c} : call'[d] = call[d]
        /\ call'[c].op = call[c].op /\ call'[c].id = a /\ call'[c].phase = "done"
        /\ call'[c].context = call[c].context
    BY <1>1, <1>8, AdvanceEffect DEF TriggerWrite
  <2>4. /\ call[c].id = a /\ call[c].op = "trigger" /\ call[c].phase \in {"sent", "failed"}
        /\ UNCHANGED <<creation, dispatched>>
    BY <1>8 DEF TriggerWrite
  <2>5. a \notin overlapped' => Recorded(a) = {}
    <3>1. SUFFICES ASSUME a \notin overlapped'
                   PROVE  Recorded(a) = {}
      OBVIOUS
    <3>2. call[c].version = row[a].version /\ a \notin overlapped
      BY <1>1, <2>1, <3>1
    <3>3. call[c].context = row[a].context
      BY <1>1, <2>4, <3>2 DEF Versions
    <3>4. QED
      BY <1>1, <2>4, <3>2, <3>3
  <2>6. \A b \in Approvals \ {a} : Recorded(b)' = Recorded(b)
    BY <1>1, <2>3, <2>4
  <2>7. \A d \in Recorded(a)' : d \in Recorded(a) \/ (d = c /\ call[c].phase = "sent")
    BY <1>1, <2>3, <2>4
  <2>8. creation[a] = "row" => row[a].version >= 1
    BY <1>1 DEF Versions
  <2>9. \A b \in Approvals \ overlapped' :
          /\ \A d, e \in Recorded(b)' : d = e
          /\ Recorded(b)' # {} => row'[b].context.delivery = "sent"
          /\ creation'[b] = "row" /\ row'[b].version = 1 => row'[b].context = BaseContext
    <3>1. ASSUME NEW b \in Approvals \ overlapped', b # a
          PROVE  /\ \A d, e \in Recorded(b)' : d = e
                 /\ Recorded(b)' # {} => row'[b].context.delivery = "sent"
                 /\ creation'[b] = "row" /\ row'[b].version = 1 => row'[b].context = BaseContext
      <4>1. Recorded(b)' = Recorded(b) /\ row'[b] = row[b] /\ b \notin overlapped /\ creation'[b] = creation[b]
        BY <2>1, <2>4, <2>6, <3>1
      <4> HIDE DEF Recorded
      <4>2. QED
        BY <4>1
    <3>2. CASE a \notin overlapped'
      <4>1. \A d \in Recorded(a)' : d = c /\ call[c].phase = "sent"
        BY <2>5, <2>7, <3>2
      <4> HIDE DEF Recorded
      <4>2. Recorded(a)' # {} => row'[a].context.delivery = "sent"
        BY <2>1, <2>2, <4>1
      <4>3. ~(creation'[a] = "row" /\ row'[a].version = 1)
        BY <1>1, <2>1, <2>4, <2>8
      <4>4. QED
        BY <3>1, <4>1, <4>2, <4>3
    <3>3. QED
      BY <3>1, <3>2
  <2>10. \A d \in Calls :
           /\ d \in dispatched' => call'[d].op = "trigger" /\ call'[d].phase \in {"sent", "done", "dead"}
           /\ call'[d].op = "trigger" => call'[d].context.delivery # "sent"
    BY <1>1, <2>3, <2>4
  <2>11. QED
    BY <2>9, <2>10
<1>9. ASSUME NEW c \in Calls, CallDies(c) \/ \E ok \in BOOLEAN : DecideAudit(c, ok) \/ Dispatch(c, ok)
      PROVE  Delivered'
  <2>1. PICK p \in {"dead", "done", "sent", "failed"} : Advance(c, p)
    BY <1>9 DEF CallDies, DecideAudit, Dispatch
  <2>2. /\ \A d \in Calls \ {c} : call'[d] = call[d]
        /\ call'[c].op = call[c].op /\ call'[c].id = call[c].id /\ call'[c].phase = p
        /\ call'[c].context = call[c].context
    BY <1>1, <2>1, AdvanceEffect
  <2>3. UNCHANGED <<row, creation, overlapped>>
    BY <1>9 DEF CallDies, DecideAudit, Dispatch
  <2>4. \/ c \notin dispatched' /\ dispatched' = dispatched
        \/ /\ call[c].op = "trigger" /\ call[c].phase # "done"
           /\ dispatched' = dispatched \cup {c} /\ p = "sent"
        \/ dispatched' = dispatched /\ p = "dead" /\ call[c].phase # "done"
    <3>1. CASE CallDies(c)
      BY <1>1, <2>2, <3>1, AdvanceEffect DEF CallDies
    <3>2. ASSUME NEW ok \in BOOLEAN, DecideAudit(c, ok)
          PROVE  c \notin dispatched' /\ dispatched' = dispatched
      BY <3>2 DEF DecideAudit
    <3>3. ASSUME NEW ok \in BOOLEAN, Dispatch(c, ok)
          PROVE  \/ c \notin dispatched' /\ dispatched' = dispatched
                 \/ /\ call[c].op = "trigger" /\ call[c].phase # "done"
                    /\ dispatched' = dispatched \cup {c} /\ p = "sent"
      <4>1. CASE ok
        BY <1>1, <2>2, <3>3, <4>1, AdvanceEffect DEF Dispatch
      <4>2. CASE ~ok
        BY <3>3, <4>2 DEF Dispatch
      <4>3. QED
        BY <4>1, <4>2
    <3>4. QED
      BY <1>9, <3>1, <3>2, <3>3
  <2>5. \A b \in Approvals : Recorded(b)' = Recorded(b)
    BY <1>1, <2>2, <2>4
  <2>6. QED
    BY <1>1, <2>2, <2>3, <2>4, <2>5
<1>10. QED
  <2> HIDE DEF Delivered
  <2>1. ASSUME NEW c \in Calls, DecideWrite(c) \/ AckWrite(c)
        PROVE  Delivered'
    <3>1. call[c].context \in Context /\ DecidedContext(call[c]) \in Context
      BY <1>1, ContextTypes DEF LocalState
    <3>2. CASE DecideWrite(c)
      <4>1. DecidedContext(call[c]).delivery = call[c].context.delivery
        BY <3>1 DEF DecidedContext, Context
      <4>2. QED
        BY <1>7, <3>1, <3>2, <4>1 DEF DecideWrite, Phase
    <3>3. CASE AckWrite(c)
      <4> DEFINE x == [call[c].context EXCEPT !.acknowledged = TRUE]
      <4>1. x \in Context /\ x.delivery = call[c].context.delivery
        BY <3>1, ContextTypes DEF Context
      <4>2. QED
        BY <1>7, <3>3, <4>1 DEF AckWrite, UpdateContext, Phase
    <3>4. QED
      BY <2>1, <3>2, <3>3
  <2>2. QED
    BY <1>1, <1>3, <1>4, <1>6, <1>8, <1>9, <2>1 DEF Create, Handler

-----------------------------------------------------------------------------
(* The manager's key                                                        *)

\* Once the key is registered without a race, it is the only one ever seen.
KeySeen ==
    ~raced =>
        /\ KeyWrittenOnce
        /\ \A d \in Devices : device[d] = "found" => key = NoKey
        /\ key # NoKey => key \in Devices

KInv == RInv /\ Delivered /\ KeyTypeOK /\ KeySeen

\* Every step, of the record or of the key, keeps the invariant.
LEMMA KeyStep ==
    ASSUME KInv, KeyNext
    PROVE  KInv'
<1> USE DEF KInv, KeyTypeOK, KeySeen, KeyWrittenOnce
<1>1. ASSUME NEW a \in Approvals, Create(a), UNCHANGED keyVars
      PROVE  KInv'
  BY <1>1, RecordKept, DeliveryStep DEF keyVars, RInv
<1>2. ASSUME NEW c \in Calls, Serve(c)
      PROVE  KInv'
  BY <1>2, RecordKept, DeliveryStep DEF Serve, keyVars, RInv
<1>3. ASSUME UNCHANGED recordVars
      PROVE  RInv' /\ Delivered'
  <2>1. RInv'
    BY <1>3, RecordStutters
  <2>2. Delivered'
    BY <1>3 DEF recordVars, Delivered, Recorded, DispatchedFor
  <2>3. QED
    BY <2>1, <2>2
<1>4. ASSUME NEW c \in Calls, VerifyKey(c)
      PROVE  KInv'
  BY <1>3, <1>4 DEF VerifyKey, RInv
<1>5. ASSUME NEW d \in Devices, FindKey(d)
      PROVE  KInv'
  BY <1>3, <1>5 DEF FindKey, RInv
<1>6. ASSUME NEW d \in Devices, WriteKey(d)
      PROVE  KInv'
  <2>1. RInv' /\ Delivered' /\ RecordTypeOK'
    BY <1>3, <1>6 DEF WriteKey, RInv
  <2>2. key' \in Devices /\ device' \in [Devices -> {"idle", "found", "outdated", "registered", "refused"}]
    BY <1>6 DEF WriteKey
  <2>3. KeyTypeOK'
    BY <1>6, <2>1, <2>2 DEF WriteKey
  <2>4. KeySeen'
    BY <1>6, KeyAssumption DEF WriteKey
  <2>5. QED
    BY <2>1, <2>3, <2>4
<1>7. QED
  BY <1>1, <1>2, <1>4, <1>5, <1>6 DEF KeyNext

\* The invariant holds of every behaviour of the record with its key.
LEMMA Invariance == KeySpec => []KInv
<1>1. KeyInit => KInv
  <2> SUFFICES ASSUME KeyInit PROVE KInv
    OBVIOUS
  <2>1. RInv
    BY RecordStarts DEF KeyInit
  <2>2. Delivered
    BY DEF KeyInit, RecordInit, Delivered, Recorded, DispatchedFor
  <2>3. QED
    BY <2>1, <2>2 DEF KInv, RInv, KeyInit, KeyTypeOK, KeySeen, KeyWrittenOnce
<1>2. KInv /\ [KeyNext]_<<recordVars, keyVars>> => KInv'
  <2>1. ASSUME KInv, UNCHANGED <<recordVars, keyVars>>
        PROVE  KInv'
    BY <2>1 DEF recordVars, keyVars, KInv, KeyTypeOK, KeySeen, KeyWrittenOnce, RInv, RecordTypeOK, Versions,
                ApprovedOnConfirmation, Sound, DecidedBy, EvidenceKept, Delivered, Recorded, DispatchedFor
  <2>2. QED
    BY <2>1, KeyStep
<1>3. QED
  BY <1>1, <1>2, PTL DEF KeySpec

-----------------------------------------------------------------------------
(* The theorems                                                             *)

\* Type correctness of the record, the calls and the key.
THEOREM RecordTypeCorrect == KeySpec => []KeyTypeOK
<1>1. KInv => KeyTypeOK
  BY DEF KInv
<1>2. QED
  BY <1>1, Invariance, PTL

\* decideApproval, decideApprovalByBridgeId, decideApprovalByOpenVtc: whatever
\* overlaps, no row is approved but through a verified confirmation, and none
\* is pending again once it is decided.
THEOREM ApprovalIsConfirmed == KeySpec => []ApprovedOnConfirmation
<1>1. KInv => ApprovedOnConfirmation
  BY DEF KInv, RInv
<1>2. QED
  BY <1>1, Invariance, PTL

\* Among handlers that do not write from a stale read, a row is decided once,
\* keeps its evidence, and has the status of that decision.
THEOREM SerialDecisionIsSound == KeySpec => []SerialDecisionSound
<1>1. ASSUME KInv, NEW a \in Approvals \ overlapped
      PROVE  Cardinality(DecidedBy(a)) <= 1
  <2>1. \A c, d \in DecidedBy(a) : c = d
    BY <1>1 DEF KInv, RInv, Sound
  <2>2. CASE DecidedBy(a) = {}
    BY <2>2, FS_EmptySet
  <2>3. CASE DecidedBy(a) # {}
    <3>1. PICK c : DecidedBy(a) = {c}
      BY <2>1, <2>3
    <3>2. QED
      BY <3>1, FS_Singleton
  <2>4. QED
    BY <2>2, <2>3
<1>2. KInv => SerialDecisionSound
  BY <1>1 DEF KInv, RInv, Sound, SerialDecisionSound
<1>3. QED
  BY <1>2, Invariance, PTL

\* triggerApprovalVtiNotification: among handlers that do not write from a stale
\* read, at most one accepted trust task of a row has its delivery recorded.
THEOREM DispatchedOnce == KeySpec => []SerialDispatchOnce
<1>1. ASSUME KInv, NEW a \in Approvals \ overlapped
      PROVE  Cardinality(Recorded(a)) <= 1
  <2>1. \A c, d \in Recorded(a) : c = d
    BY <1>1 DEF KInv, Delivered
  <2>2. CASE Recorded(a) = {}
    BY <2>2, FS_EmptySet
  <2>3. CASE Recorded(a) # {}
    <3>1. PICK c : Recorded(a) = {c}
      BY <2>1, <2>3
    <3>2. QED
      BY <3>1, FS_Singleton
  <2>4. QED
    BY <2>2, <2>3
<1>2. KInv => SerialDispatchOnce
  BY <1>1 DEF Recorded, SerialDispatchOnce
<1>3. QED
  BY <1>2, Invariance, PTL

\* registerManagerApprovalKey: without overlapping first registrations, however
\* many wallets try, one key is registered and signs every legacy decision.
THEOREM KeyIsWrittenOnce == KeySpec => []KeyWrittenOnce
<1>1. KInv => KeyWrittenOnce
  BY DEF KInv, KeySeen, KeyWrittenOnce
<1>2. QED
  BY <1>1, Invariance, PTL
=============================================================================
