-------------------------- MODULE ApprovalLongPoll --------------------------
(***************************************************************************)
(* How SDKs learn of pending approvals: GET .../pending lists them and, if *)
(* there is nothing new, blocks in wait_for_new on the project's broadcast *)
(* channel until store() notifies it or 30 s pass (gateway.rs,             *)
(* approval.rs).  The cleanup task prunes the channels.                    *)
(*                                                                         *)
(* How an approval leaves the store (decision, expiry, disconnect) is in   *)
(* ApprovalHold; here it simply leaves.  A poller excludes what it was     *)
(* given before, as the SDK does.                                          *)
(***************************************************************************)
EXTENDS Naturals, FiniteSets

CONSTANTS
    Approvals, Pollers, Projects,
    ProjectOf,     \* the project of each approval and of each poller
    NotifyKey,     \* the "org:project" string new_notify is keyed by
    BareKey        \* ":project", when the organization is not known

ASSUME KeyAssumption ==
    /\ ProjectOf \in [Approvals \cup Pollers -> Projects]
    /\ \A p, q \in Projects : NotifyKey[p] = NotifyKey[q] => p = q
    /\ \A p, q \in Projects : NotifyKey[p] # q /\ BareKey[p] # q /\ NotifyKey[p] # BareKey[q]

VARIABLES
    stored,    \* approvals store() was called for
    pending,   \* InMemoryApprovalStore.pending
    expired,   \* approvals past their expires_at
    notify,    \* the keys of InMemoryApprovalStore.new_notify
    poller,    \* where each get_pending_approvals call is
    seen,      \* approvals a poller was given, and now excludes
    found,     \* the pollers whose call found its project's organization
    gap        \* history: approvals stored since its list that notify nobody it
               \* could hear: before it subscribed, or all of them under BareKey

pollVars == <<stored, pending, expired, notify, poller, seen, found, gap>>

PollTypeOK ==
    /\ pending \subseteq stored /\ stored \subseteq Approvals
    /\ expired \subseteq Approvals
    /\ notify \subseteq {NotifyKey[p] : p \in Projects} \cup {BareKey[p] : p \in Projects}
    /\ poller \in [Pollers -> {"idle", "listed", "waiting", "woken"}]
    /\ seen \in [Pollers -> SUBSET Approvals]
    /\ found \subseteq Pollers
    /\ gap \in [Pollers -> SUBSET Approvals]

PollInit ==
    /\ stored = {} /\ pending = {} /\ expired = {} /\ notify = {} /\ found = {}
    /\ poller = [q \in Pollers |-> "idle"]
    /\ seen = [q \in Pollers |-> {}]
    /\ gap = [q \in Pollers |-> {}]

\* The channel a poller waits on.  get_pending_approvals takes the organization
\* from the database; a lookup that fails leaves it empty, and goes on.
Key(q) == IF q \in found THEN NotifyKey[ProjectOf[q]] ELSE BareKey[ProjectOf[q]]

\* list_pending, which goes by the project alone, without the excluded ids.
Listed(q) == {a \in pending \ (expired \cup seen[q]) : ProjectOf[a] = ProjectOf[q]}

\* The receivers of the channels with these keys get something: a message, or
\* an error because the channel is gone.  wait_for_new returns true on both.
Wake(keys) == [q \in Pollers |->
    IF poller[q] = "waiting" /\ Key(q) \in keys THEN "woken" ELSE poller[q]]

-----------------------------------------------------------------------------

StoreApproval(a) ==
    /\ a \notin stored
    /\ stored' = stored \cup {a}
    /\ pending' = pending \cup {a}
    /\ poller' = Wake({NotifyKey[ProjectOf[a]]} \cap notify)
    /\ gap' = [q \in Pollers |->
                  IF poller[q] = "listed" \/ (poller[q] = "waiting" /\ q \notin found)
                  THEN gap[q] \cup {a} ELSE gap[q]]
    /\ UNCHANGED <<expired, notify, seen, found>>

\* submit_decision, remove, an expired get_pending or the sweep.
ApprovalLeaves(a) ==
    /\ a \in pending
    /\ pending' = pending \ {a}
    /\ UNCHANGED <<stored, expired, notify, poller, seen, found, gap>>

ExpireApproval(a) ==
    /\ a \in pending \ expired
    /\ expired' = expired \cup {a}
    /\ UNCHANGED <<stored, pending, notify, poller, seen, found, gap>>

\* find_organization_id_by_project(..).ok().flatten().unwrap_or_default().
FindOrganization(q) == found' \in {found \cup {q}, found \ {q}}

\* A poller that goes on to wait whatever the list has.
FirstList_Ignored(q) ==
    /\ poller[q] = "idle"
    /\ FindOrganization(q)
    /\ poller' = [poller EXCEPT ![q] = "listed"]
    /\ gap' = [gap EXCEPT ![q] = {}]
    /\ UNCHANGED <<stored, pending, expired, notify, seen>>

\* The first list of a call: answer at once, or go on to wait_for_new.
FirstList(q) ==
    /\ poller[q] = "idle"
    /\ FindOrganization(q)
    /\ IF Listed(q) # {}
       THEN seen' = [seen EXCEPT ![q] = @ \cup Listed(q)] /\ UNCHANGED poller
       ELSE poller' = [poller EXCEPT ![q] = "listed"] /\ UNCHANGED seen
    /\ gap' = [gap EXCEPT ![q] = {}]
    /\ UNCHANGED <<stored, pending, expired, notify>>

\* wait_for_new gets or creates the channel and subscribes to it.
Subscribe(q) ==
    /\ poller[q] = "listed"
    /\ poller' = [poller EXCEPT ![q] = "waiting"]
    /\ notify' = notify \cup {Key(q)}
    /\ UNCHANGED <<stored, pending, expired, seen, found, gap>>

\* got_new: list once more, whatever woke it, and answer.
SecondList(q) ==
    /\ poller[q] = "woken"
    /\ poller' = [poller EXCEPT ![q] = "idle"]
    /\ seen' = [seen EXCEPT ![q] = @ \cup Listed(q)]
    /\ UNCHANGED <<stored, pending, expired, notify, found, gap>>

\* 30 s without a message: answer with the empty list.
PollTimeout(q) ==
    /\ poller[q] = "waiting"
    /\ poller' = [poller EXCEPT ![q] = "idle"]
    /\ UNCHANGED <<stored, pending, expired, notify, seen, found, gap>>

\* Channels removed from the map as if their receivers could outlive them.
Prune_Unnoticed ==
    /\ notify # {}
    /\ notify' = {k \in notify : \E a \in pending : ProjectOf[a] = k}
    /\ UNCHANGED <<stored, pending, expired, poller, seen, found, gap>>

\* The end of a cleanup round: new_notify.retain compares each key with the
\* project of every pending approval; dropping a sender closes its channel.
Prune ==
    /\ notify # {}
    /\ notify' = {k \in notify : \E a \in pending : ProjectOf[a] = k}
    /\ poller' = Wake(notify \ notify')
    /\ UNCHANGED <<stored, pending, expired, seen, found, gap>>

PollNext ==
    \/ \E a \in Approvals : StoreApproval(a) \/ ApprovalLeaves(a) \/ ExpireApproval(a)
    \/ \E q \in Pollers : FirstList(q) \/ Subscribe(q) \/ SecondList(q) \/ PollTimeout(q)
    \/ Prune

PollSpec == PollInit /\ [][PollNext]_pollVars

-----------------------------------------------------------------------------

\* A poller blocked in wait_for_new is subscribed to the channel that is in
\* the map, so the next store() for its project reaches it, whatever the
\* cleanup task pruned in the meantime.  A call whose organization was not found
\* waits on a channel no store() notifies, for its 30 s.
WaiterReachable ==
    \A q \in found : poller[q] = "waiting" => NotifyKey[ProjectOf[q]] \in notify

\* A new approval leaves no poller of its project blocked, but for one that did
\* not find its organization.
StoreWakesAll ==
    [][\A a \in pending' \ pending, q \in found :
         ProjectOf[q] = ProjectOf[a] => poller'[q] # "waiting"]_pollVars

\* gateway.rs: the poll "returns immediately if new (non-excluded) approvals
\* exist".  It can block on one all the same, but never on one its list could
\* have had: only on one stored after it, before the subscription or, if the
\* organization was not found, at any time since.
BlocksOnlyOnGap == \A q \in Pollers : poller[q] = "waiting" => Listed(q) \subseteq gap[q]
=============================================================================
