----------------------------- MODULE VaultSession -----------------------------
(***************************************************************************)
(* The vault connection of one project: a row of vault_connections and the *)
(* session a provider keeps in memory for it.  A session is loaded lazily  *)
(* (read the row, decrypt, insert), shared by the requests that got it,    *)
(* dropped by a pairing, a disconnect or the eviction task.  The 1Password *)
(* provider keeps a decrypted token and resolved values in it, the         *)
(* Bitwarden provider an identity, a connected client behind a mutex and   *)
(* fetched credentials.                                                    *)
(*                                                                         *)
(* A pairing is a number: a token stored, or a remote paired with.  A      *)
(* session carries the pairing of the row it was loaded from, and the one  *)
(* its client is connected to, which a pairing on the same session         *)
(* replaces.  The values a session has cached are left out: they come from *)
(* what it fetches from, and last a minute when that is replaced.          *)
(* last_error only colours the status answer.                              *)
(***************************************************************************)
EXTENDS Naturals

CONSTANTS
    Tasks,        \* calls of the vault API and of the secret resolution
    Sessions,     \* session objects, reused when nobody refers to them
    MaxPairings,  \* bound on the tokens and identities that are stored
    NoSession

ASSUME PairingBound == MaxPairings \in Nat \ {0} /\ NoSession \notin Sessions

VARIABLES
    provider,   \* "onepassword" or "bitwarden"
    row,        \* the stored pairing, 0 without a row
    restorable, \* Bitwarden: the row holds the transport state of its pairing
    pairings,   \* how many there have been
    current,    \* the session in the provider's map
    session,    \* session objects
    task,       \* what each call is doing, with which session and pairing
    late,       \* history: sessions that a change of the row passed by
    spoiled     \* history: pairings not saved after they had replaced the row

vars == <<provider, row, restorable, pairings, current, session, task, late, spoiled>>

Pairing == 0 .. MaxPairings

\* What a row or a session has for restoring a client: a session created for
\* a pairing has nothing, a row without a transport state the fingerprint.
Data == {"none", "fingerprint", "full"}
Session == [pairing : Pairing, data : Data, client : Pairing, cooldown : BOOLEAN, lock : BOOLEAN]
Task == [pc : {"idle", "load", "loaded", "have", "locked", "resolve",
               "validated", "upserted", "psk", "saved", "closing", "deleting"},
         for : {"request", "pair"},
         sid : Sessions \cup {NoSession}, pairing : Pairing, data : Data,
         missed : BOOLEAN]   \* history: the row changed since this task read or wrote it

Idle == [pc |-> "idle", for |-> "request", sid |-> NoSession, pairing |-> 0,
         data |-> "none", missed |-> FALSE]
NewSession(p, d) ==
    [pairing |-> p, data |-> d, client |-> 0, cooldown |-> FALSE, lock |-> FALSE]

TypeOK ==
    /\ provider \in {"onepassword", "bitwarden"}
    /\ row \in 0 .. pairings /\ pairings \in Pairing
    /\ restorable \in BOOLEAN
    /\ current \in Sessions \cup {NoSession}
    /\ session \in [Sessions -> Session]
    /\ task \in [Tasks -> Task]
    /\ late \subseteq Sessions
    /\ spoiled \subseteq 1 .. pairings

Init ==
    /\ provider \in {"onepassword", "bitwarden"}
    /\ row = 0 /\ restorable = FALSE /\ pairings = 0
    /\ current = NoSession
    /\ session = [s \in Sessions |-> NewSession(0, "none")]
    /\ task = [t \in Tasks |-> Idle]
    /\ late = {} /\ spoiled = {}

-----------------------------------------------------------------------------

Go(t, pc) == task' = [task EXCEPT ![t].pc = pc]
Done(t) == task' = [task EXCEPT ![t] = Idle]

\* The call is replacing the pairing that session s serves with.
Replacing(t, s) ==
    \/ task[t].pc = "upserted"
    \/ task[t].pc \in {"psk", "saved"} /\ task[t].sid = s

Unused(s) == s # current /\ \A t \in Tasks : task[t].sid # s

\* The objects after a step, and which of them are late: what the map and the
\* calls no longer refer to is freed, as the last Arc is dropped.
Heap(objects, overtaken) ==
    /\ session' = [s \in Sessions |-> IF Unused(s)' THEN NewSession(0, "none") ELSE objects[s]]
    /\ late' = {s \in overtaken : ~Unused(s)'}

\* The row changes under the calls that have read it, or stored their pairing.
RowChanges(t) ==
    [q \in Tasks |-> IF q # t /\ task[q].pc \in {"loaded", "psk", "saved"} THEN [task[q] EXCEPT !.missed = TRUE]
                     ELSE task[q]]

\* sessions.insert of a new session.
Insert(t, s, p, d, pc) ==
    /\ Unused(s)
    /\ current' = s
    /\ task' = [task EXCEPT ![t] = [Idle EXCEPT !.pc = pc, !.for = task[t].for, !.sid = s]]
    /\ Heap([session EXCEPT ![s] = NewSession(p, d)],
            IF task[t].missed THEN late \cup {s} ELSE late)

(* load_session *)

\* A secret is resolved, a status asked for, or the picker browses; a
\* Bitwarden pairing begins in the same way.
Start(t, for) ==
    /\ task[t].pc = "idle" /\ (for = "pair" => provider = "bitwarden")
    /\ task' = [task EXCEPT ![t].for = for, ![t].sid = current,
                            ![t].pc = IF current = NoSession THEN "load" ELSE "have"]
    /\ UNCHANGED <<provider, row, restorable, pairings, current, spoiled>>
    /\ Heap(session, late)

\* Reads the row; decrypting what it read is another await.
ReadRow(t) ==
    /\ task[t].pc = "load" /\ row # 0
    /\ task' = [task EXCEPT ![t].pc = "loaded", ![t].pairing = row,
                            ![t].data = IF provider = "onepassword" \/ restorable
                                        THEN "full" ELSE "fingerprint"]
    /\ UNCHANGED <<provider, row, restorable, pairings, current, spoiled>>
    /\ Heap(session, late)

\* No row, an unreadable one, or an error.
NotPaired(t) ==
    /\ task[t].pc = "load" /\ task[t].for = "request"
    /\ Done(t)
    /\ UNCHANGED <<provider, row, restorable, pairings, current, spoiled>>
    /\ Heap(session, late)

LoadSession(t) ==
    /\ task[t].pc = "loaded"
    /\ \E s \in Sessions : Insert(t, s, task[t].pairing, task[t].data, "have")
    /\ UNCHANGED <<provider, row, restorable, pairings, spoiled>>

(* resolve_ref and request_credential *)

Using(t) == session[task[t].sid]

\* A cached value, a cooldown, a status answer, or a client that is not ready.
Answered(t) ==
    /\ task[t].pc \in {"have", "resolve"} /\ task[t].for = "request"
    /\ Done(t)
    /\ UNCHANGED <<provider, row, restorable, pairings, current, spoiled>>
    /\ Heap(session, late)

\* The 1Password service is asked with the session's token, without a lock.
Ask(t) ==
    /\ task[t].pc = "have" /\ task[t].for = "request" /\ provider = "onepassword"
    /\ ~Using(t).cooldown
    /\ Go(t, "resolve")
    /\ UNCHANGED <<provider, row, restorable, pairings, current, spoiled>>
    /\ Heap(session, late)

\* The client mutex, taken to restore the client and again to ask it.
Lock(t) ==
    /\ task[t].pc = "have" /\ task[t].for = "request" /\ provider = "bitwarden"
    /\ ~Using(t).cooldown /\ ~Using(t).lock
    /\ Go(t, "locked")
    /\ UNCHANGED <<provider, row, restorable, pairings, current, spoiled>>
    /\ Heap([session EXCEPT ![task[t].sid].lock = TRUE], late)

\* With the connection data it was loaded with the client comes back; a later
\* pairing is not in them.
Restored(t) ==
    /\ task[t].pc = "locked" /\ task[t].for = "request"
    /\ Using(t).client = 0 => Using(t).data = "full"
    /\ Go(t, "resolve")
    /\ UNCHANGED <<provider, row, restorable, pairings, current, spoiled>>
    /\ Heap([session EXCEPT ![task[t].sid].lock = FALSE,
                             ![task[t].sid].client = IF @ = 0 THEN Using(t).pairing ELSE @], late)

\* Without a fingerprint there is nothing to try, and no cooldown either.
NotRestored(t) ==
    /\ task[t].pc = "locked" /\ task[t].for = "request" /\ Using(t).client = 0
    /\ Done(t)
    /\ UNCHANGED <<provider, row, restorable, pairings, current, spoiled>>
    /\ Heap([session EXCEPT ![task[t].sid].lock = FALSE,
                             ![task[t].sid].cooldown = (Using(t).data # "none")], late)

\* The answer: a value or none, or a failure that begins a cooldown.
Resolved(t, failed) ==
    /\ task[t].pc = "resolve" /\ ~Using(t).lock
    /\ provider = "bitwarden" => Using(t).client # 0
    /\ Done(t)
    /\ UNCHANGED <<provider, row, restorable, pairings, current, spoiled>>
    /\ Heap([session EXCEPT ![task[t].sid].cooldown = failed], late)

CooldownEnds(s) ==
    /\ session[s].cooldown
    /\ UNCHANGED <<provider, row, restorable, pairings, current, task, spoiled>>
    /\ Heap([session EXCEPT ![s].cooldown = FALSE], late)

(* pair *)

\* OnePassword: the token is validated and encrypted before anything changes.
Validated(t) ==
    /\ task[t].pc = "idle" /\ provider = "onepassword"
    /\ task' = [task EXCEPT ![t].pc = "validated", ![t].for = "pair"]
    /\ UNCHANGED <<provider, row, restorable, pairings, current, spoiled>>
    /\ Heap(session, late)

UpsertToken(t) ==
    /\ task[t].pc = "validated" /\ pairings < MaxPairings
    /\ pairings' = pairings + 1 /\ row' = pairings + 1
    /\ task' = [RowChanges(t) EXCEPT ![t].pc = "upserted"]
    /\ UNCHANGED <<provider, restorable, current, spoiled>>
    /\ Heap(session, late)

\* The session stays, with the token it has.
DropSession_Keep(t) ==
    /\ task[t].pc = "upserted"
    /\ Done(t)
    /\ UNCHANGED <<provider, row, restorable, pairings, current, spoiled>>
    /\ Heap(session, late)

\* "Drop any cached session so the next request reloads the new token."
DropSession(t) ==
    /\ task[t].pc = "upserted"
    /\ current' = NoSession
    /\ Done(t)
    /\ UNCHANGED <<provider, row, restorable, pairings, spoiled>>
    /\ Heap(session, late)

\* Bitwarden: without a row, or with one that cannot be decrypted, a session
\* with a new identity and no connection data.
create_pairing_session(t) ==
    /\ task[t].pc = "load" /\ task[t].for = "pair"
    /\ \E s \in Sessions : Insert(t, s, 0, "none", "have")
    /\ UNCHANGED <<provider, row, restorable, pairings, spoiled>>

\* The row is written before pairing, so that save() finds one to update: the
\* new remote's fingerprint replaces what it had.  The session, an older one
\* or not, keeps its connection data and its client.
UpsertIdentity(t) ==
    /\ task[t].pc = "have" /\ task[t].for = "pair" /\ pairings < MaxPairings
    /\ pairings' = pairings + 1 /\ row' = pairings + 1 /\ restorable' = FALSE
    /\ task' = [RowChanges(t) EXCEPT ![t].pc = "psk", ![t].pairing = pairings + 1]
    /\ UNCHANGED <<provider, current, spoiled>>
    /\ Heap(session, late \cup ({current} \ {NoSession, task[t].sid}))

\* The update is forgotten, and its failure with it.
Save_Skipped(t) ==
    /\ task[t].pc = "psk"
    /\ Go(t, "saved")
    /\ UNCHANGED <<provider, row, restorable, pairings, current, spoiled>>
    /\ Heap(session, late)

\* pair_with_psk calls save(), which updates the row if there still is one.
Save(t) ==
    /\ task[t].pc = "psk"
    /\ IF row = 0 THEN UNCHANGED <<row, restorable>>
       ELSE row' = task[t].pairing /\ restorable' = TRUE
    /\ UNCHANGED <<provider, pairings, current, spoiled>>
    /\ LET changed == row # 0 /\ row # task[t].pairing IN
         /\ task' = [(IF changed THEN RowChanges(t) ELSE task) EXCEPT
                        ![t].pc = "saved", ![t].missed = @ /\ row = 0]
         /\ Heap(session, late \cup IF changed THEN {current} \ {NoSession, task[t].sid} ELSE {})

\* write_through fails with a warning, and save() is content.
SaveFails(t) ==
    /\ task[t].pc = "psk"
    /\ spoiled' = spoiled \cup {task[t].pairing}
    /\ Go(t, "saved")
    /\ UNCHANGED <<provider, row, restorable, pairings, current>>
    /\ Heap(session, late)

\* The connected client goes into the session, in place of the one it had.
KeepClient(t) ==
    /\ task[t].pc = "saved" /\ ~Using(t).lock
    /\ Done(t)
    /\ UNCHANGED <<provider, row, restorable, pairings, current, spoiled>>
    /\ Heap([session EXCEPT ![task[t].sid].client = task[t].pairing,
                             ![task[t].sid].cooldown = FALSE],
            IF task[t].missed THEN late \cup {task[t].sid} ELSE late \ {task[t].sid})

\* The row names the new remote, and the session goes on with the old one.
PairFails(t) ==
    /\ task[t].pc = "psk"
    /\ spoiled' = spoiled \cup {task[t].pairing}
    /\ Done(t)
    /\ UNCHANGED <<provider, row, restorable, pairings, current>>
    /\ Heap(session, late \cup {task[t].sid})

(* disconnect, and the eviction of idle sessions *)

\* The session leaves the map before its row is deleted.
Disconnect(t) ==
    /\ task[t].pc = "idle"
    /\ task' = [task EXCEPT ![t].pc = IF provider = "bitwarden" /\ current # NoSession
                                      THEN "closing" ELSE "deleting",
                            ![t].sid = current]
    /\ current' = NoSession
    /\ UNCHANGED <<provider, row, restorable, pairings, spoiled>>
    /\ Heap(session, late)

\* guard.take() drops the client once no request is using it.
CloseClient(t) ==
    /\ task[t].pc = "closing" /\ ~Using(t).lock
    /\ Go(t, "deleting")
    /\ UNCHANGED <<provider, row, restorable, pairings, current, spoiled>>
    /\ Heap([session EXCEPT ![task[t].sid].client = 0], late)

\* delete_vault_connection; a session loaded meanwhile stays.
DeleteRow(t) ==
    /\ task[t].pc = "deleting"
    /\ row' = 0 /\ restorable' = FALSE
    /\ task' = [RowChanges(t) EXCEPT ![t] = Idle]
    /\ UNCHANGED <<provider, pairings, current, spoiled>>
    /\ Heap(session, late \cup ({current} \ {NoSession}))

\* Idle for half an hour: the map forgets it, and the row is read again.  Its
\* client is closed, unless a request holds it: whoever still has the session
\* then finds no client or one, and nobody else will find the session.
Evict ==
    /\ current # NoSession
    /\ current' = NoSession
    /\ UNCHANGED <<provider, row, restorable, pairings, task, spoiled>>
    /\ Heap(IF session[current].lock THEN session
            ELSE [session EXCEPT ![current].client = 0], late)

-----------------------------------------------------------------------------

\* The caller goes away, or the database fails: the call ends where it is.
Dropped(t) ==
    /\ task[t].pc # "idle"
    /\ Done(t)
    /\ spoiled' = IF task[t].pc = "psk" THEN spoiled \cup {task[t].pairing} ELSE spoiled
    /\ UNCHANGED <<provider, row, restorable, pairings, current>>
    /\ Heap(IF task[t].pc = "locked" THEN [session EXCEPT ![task[t].sid].lock = FALSE] ELSE session,
            late \cup {s \in Sessions : Replacing(t, s)})

Restart ==
    /\ current' = NoSession
    /\ task' = [t \in Tasks |-> Idle]
    /\ spoiled' = spoiled \cup {task[t].pairing : t \in {q \in Tasks : task[q].pc = "psk"}}
    /\ UNCHANGED <<provider, row, restorable, pairings>>
    /\ Heap([s \in Sessions |-> NewSession(0, "none")], {})

Call(t) ==
    \/ Start(t, "request") \/ Start(t, "pair")
    \/ ReadRow(t) \/ NotPaired(t) \/ LoadSession(t)
    \/ Answered(t) \/ Ask(t) \/ Lock(t) \/ Restored(t) \/ NotRestored(t)
    \/ Resolved(t, TRUE) \/ Resolved(t, FALSE)
    \/ Validated(t) \/ UpsertToken(t) \/ DropSession(t)
    \/ create_pairing_session(t) \/ UpsertIdentity(t)
    \/ Save(t) \/ SaveFails(t) \/ KeepClient(t) \/ PairFails(t)
    \/ Disconnect(t) \/ CloseClient(t) \/ DeleteRow(t)
    \/ Dropped(t)

Next ==
    \/ \E t \in Tasks : Call(t)
    \/ \E s \in Sessions : CooldownEnds(s)
    \/ Evict \/ Restart

Spec == Init /\ [][Next]_vars

-----------------------------------------------------------------------------

\* The pairing that session s fetches from: that of its client, or of the data
\* it can still restore one from; 0 when it has nothing.
FetchesFrom(s) ==
    IF session[s].client # 0 THEN session[s].client
    ELSE IF session[s].data = "full" THEN session[s].pairing ELSE 0

\* The session that requests are served from fetches from the stored pairing.
\* It does not while a pairing is replacing it, and if the row changed without
\* it: it was inserted by a load that the change overtook, was in the map when
\* another session was paired or the row deleted, or a pairing stored a new
\* remote and then failed, or lost the row to another before it was done.
SessionCurrent ==
    current # NoSession /\ FetchesFrom(current) \notin {0, row} =>
        current \in late \/ \E t \in Tasks : Replacing(t, current)

\* What a restart of the gateway needs is in the row: a Bitwarden pairing can
\* be restored from it, unless it is under way, or was given up or could not
\* write its state after it had replaced the row.
PairingRestorable ==
    provider = "bitwarden" /\ row # 0 /\ ~restorable =>
        \/ row \in spoiled
        \/ \E t \in Tasks : task[t].pc = "psk" /\ task[t].pairing = row
=============================================================================
