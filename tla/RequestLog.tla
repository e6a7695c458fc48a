---------------------------- MODULE RequestLog ----------------------------
(***************************************************************************)
(* The request log of the gateway (telemetry_core.rs, telemetry.rs): a     *)
(* bounded channel that request tasks offer events to, the flush loop that *)
(* turns a batch of events into one INSERT and an UPDATE per decision, and *)
(* the UPDATE of a cancelled hold, which the guard's task in approval.rs   *)
(* sends past the channel.                                                 *)
(*                                                                         *)
(* A row is told apart by what it says of its request.  The statements of  *)
(* the flush loop may fail; the loop then goes on.                         *)
(***************************************************************************)
EXTENDS Naturals, Sequences

CONSTANTS
    Requests,    \* requests, each with at most one row
    Capacity,    \* CHANNEL_CAPACITY
    BatchSize    \* FLUSH_BATCH_SIZE

ASSUME LogAssumption == Capacity \in Nat \ {0} /\ BatchSize \in Nat \ {0}

VARIABLES
    channel,     \* events offered and not yet received
    batch,       \* buffer of the flush loop
    flushing,    \* where the flush loop is
    at,          \* next event of the batch update_batch looks at
    rows,        \* request_logs
    cancelling,  \* guards whose cleanup task has its UPDATE to send
    lost         \* history: requests of which an event or a statement was lost

logVars == <<channel, batch, flushing, at, rows, cancelling, lost>>

\* RequestDecision; the three policy refusals differ in nothing but a name.
Decisions == {"allowed", "refused", "pending", "denied", "approved"}

\* RequestEvent: update is existing_log_id.is_some().
Events == [req : Requests, decision : Decisions, injected : BOOLEAN, update : BOOLEAN]

Event(r, d, inj, upd) == [req |-> r, decision |-> d, injected |-> inj, update |-> upd]

\* What a row says: a status only (passed, refused, held), or a decision.
Rows == {"none", "passed", "refused", "held", "approved", "denied", "cancelled"}

Final == {"approved", "denied", "cancelled"}

LogTypeOK ==
    /\ channel \in Seq(Events) /\ Len(channel) <= Capacity
    /\ batch \in Seq(Events) /\ Len(batch) <= BatchSize
    /\ flushing \in {"collect", "insert", "update"}
    /\ at \in 1..(BatchSize + 1)
    /\ rows \in [Requests -> Rows]
    /\ cancelling \subseteq Requests
    /\ lost \subseteq Requests

LogInit ==
    /\ channel = <<>>
    /\ batch = <<>>
    /\ flushing = "collect"
    /\ at = 1
    /\ rows = [r \in Requests |-> "none"]
    /\ cancelling = {}
    /\ lost = {}

---------------------------------------------------------------------------
\* on_request: try_send, and a full channel drops the event without a word.
on_request(e) ==
    IF Len(channel) < Capacity
    THEN channel' = Append(channel, e) /\ UNCHANGED lost
    ELSE lost' = lost \cup {e.req} /\ UNCHANGED channel

\* No event is emitted for a caller that is not an agent of a project.
emit(known, e) == IF known THEN on_request(e) ELSE UNCHANGED <<channel, lost>>

\* collect_batch: recv for the first event, try_recv for the others.
Collect ==
    /\ flushing = "collect"
    /\ channel # <<>>
    /\ Len(batch) < BatchSize
    /\ batch' = Append(batch, Head(channel))
    /\ channel' = Tail(channel)
    /\ UNCHANGED <<flushing, at, rows, cancelling, lost>>

\* collect_batch returns: the batch is full or try_recv found nothing.
Collected_WhenFull ==
    /\ flushing = "collect"
    /\ Len(batch) = BatchSize
    /\ flushing' = "insert"
    /\ UNCHANGED <<channel, batch, at, rows, cancelling, lost>>

Collected ==
    /\ flushing = "collect"
    /\ batch # <<>>
    /\ channel = <<>> \/ Len(batch) = BatchSize
    /\ flushing' = "insert"
    /\ UNCHANGED <<channel, batch, at, rows, cancelling, lost>>

\* The filter of insert_batch.
Stored(e) == ~e.update /\ (e.injected \/ e.decision # "allowed")

RowOf(e) ==
    CASE e.decision = "allowed" -> "passed"
      [] e.decision = "pending" -> "held"
      [] OTHER                  -> "refused"

\* insert_batch: one INSERT for all regular events of the batch.
InsertBatch ==
    /\ flushing = "insert"
    /\ rows' = [r \in Requests |->
                  IF \E i \in DOMAIN batch : batch[i].req = r /\ Stored(batch[i])
                  THEN RowOf(batch[CHOOSE i \in DOMAIN batch :
                                     batch[i].req = r /\ Stored(batch[i])])
                  ELSE rows[r]]
    /\ flushing' = "update"
    /\ UNCHANGED <<channel, batch, at, cancelling, lost>>

\* insert_batch fails: all its rows are lost, the loop goes on.
InsertFails ==
    /\ flushing = "insert"
    /\ lost' = lost \cup {batch[i].req : i \in {j \in DOMAIN batch : Stored(batch[j])}}
    /\ flushing' = "update"
    /\ UNCHANGED <<channel, batch, at, rows, cancelling>>

\* A decision event updates its row; without a row the UPDATE matches nothing.
UpdateRow ==
    /\ flushing = "update"
    /\ at <= Len(batch)
    /\ IF batch[at].update /\ rows[batch[at].req] # "none"
       THEN rows' = [rows EXCEPT ![batch[at].req] = batch[at].decision]
       ELSE UNCHANGED rows
    /\ at' = at + 1
    /\ UNCHANGED <<channel, batch, flushing, cancelling, lost>>

\* An UPDATE of update_batch fails and is only logged.
UpdateFails ==
    /\ flushing = "update"
    /\ at <= Len(batch)
    /\ batch[at].update
    /\ lost' = lost \cup {batch[at].req}
    /\ at' = at + 1
    /\ UNCHANGED <<channel, batch, flushing, rows, cancelling>>

\* buffer.clear(), and the next round.
FlushDone ==
    /\ flushing = "update"
    /\ at > Len(batch)
    /\ flushing' = "collect"
    /\ batch' = <<>>
    /\ at' = 1
    /\ UNCHANGED <<channel, rows, cancelling, lost>>

\* The task spawned by ApprovalGuard::drop marks the row, if there is one yet.
MarkCancelled(r) ==
    /\ r \in cancelling
    /\ cancelling' = cancelling \ {r}
    /\ IF rows[r] # "none"
       THEN rows' = [rows EXCEPT ![r] = "cancelled"] /\ UNCHANGED lost
       ELSE lost' = lost \cup {r} /\ UNCHANGED rows
    /\ UNCHANGED <<channel, batch, flushing, at>>

\* The UPDATE of the task fails and is only logged.
MarkFails(r) ==
    /\ r \in cancelling
    /\ cancelling' = cancelling \ {r}
    /\ lost' = lost \cup {r}
    /\ UNCHANGED <<channel, batch, flushing, at, rows>>

Flush == Collect \/ Collected \/ InsertBatch \/ InsertFails \/ UpdateRow \/ UpdateFails \/ FlushDone

LogNext == Flush \/ \E r \in Requests : MarkCancelled(r) \/ MarkFails(r)

\* Nothing about a request is on its way to the log.
Quiet == channel = <<>> /\ batch = <<>> /\ cancelling = {}
===========================================================================
