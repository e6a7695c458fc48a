----------------------------- MODULE ManagerKey -----------------------------
(***************************************************************************)
(* The approval key of a manager's account beside the decisions it signs.  *)
(* A wallet registers its key once; a legacy confirmation is verified      *)
(* against the key the account holds when the confirmation is looked at.   *)
(* registerManagerApprovalKey reads the account and writes it in two       *)
(* statements, like every handler of ApprovalRecord, which this module     *)
(* extends by the key.                                                     *)
(***************************************************************************)
EXTENDS ApprovalRecord

CONSTANTS
    Devices,   \* wallets of one manager, each with a key of its own
    NoKey

ASSUME KeyAssumption == NoKey \notin Devices

VARIABLES
    key,       \* the key on the account, named by its device
    device,    \* how far each device's registration is
    verified,  \* the key each call's confirmation was verified with
    raced      \* history: a registration wrote over a key it had not seen

keyVars == <<key, device, verified, raced>>

KeyTypeOK ==
    /\ RecordTypeOK
    /\ key \in Devices \cup {NoKey}
    /\ device \in [Devices -> {"idle", "found", "outdated", "registered", "refused"}]
    /\ verified \in [Calls -> Devices \cup {NoKey}]
    /\ raced \in BOOLEAN

KeyInit ==
    /\ RecordInit
    /\ key = NoKey
    /\ device = [d \in Devices |-> "idle"]
    /\ verified = [c \in Calls |-> NoKey]
    /\ raced = FALSE

\* A registration that goes on whatever key is there.
FindKey_NoConflict(d) ==
    /\ device[d] \in {"idle", "registered", "refused"}
    /\ device' = [device EXCEPT ![d] = IF key = d THEN "registered" ELSE "found"]
    /\ UNCHANGED <<recordVars, key, verified, raced>>

\* The account is read: without a key the registration goes on, with the same
\* key it is answered at once, and with another one it is a CONFLICT.
FindKey(d) ==
    /\ device[d] \in {"idle", "registered", "refused"}
    /\ device' = [device EXCEPT ![d] =
         CASE key = NoKey -> "found" [] key = d -> "registered" [] OTHER -> "refused"]
    /\ UNCHANGED <<recordVars, key, verified, raced>>

\* The update by the user's id, which does not ask for the key to be absent.
WriteKey(d) ==
    /\ device[d] \in {"found", "outdated"}
    /\ key' = d
    /\ raced' = (raced \/ device[d] = "outdated")
    /\ device' = [e \in Devices |->
         IF e = d THEN "registered" ELSE IF device[e] = "found" THEN "outdated" ELSE device[e]]
    /\ UNCHANGED <<recordVars, verified>>

Confirming(c) == call[c].op = "decide" /\ call[c].phase = "sign" /\ call[c].protocol = "legacy"

\* verifyManagerConfirmation: the signature is the registered key's.
VerifyKey(c) ==
    /\ Confirming(c) /\ verified[c] = NoKey
    /\ key # NoKey
    /\ verified' = [verified EXCEPT ![c] = key]
    /\ UNCHANGED <<recordVars, key, device, raced>>

\* A call with a legacy confirmation goes no further before that.
Serve(c) ==
    /\ Handler(c)
    /\ Confirming(c) => verified[c] # NoKey
    /\ UNCHANGED keyVars

KeyNext ==
    \/ \E a \in Approvals : Create(a) /\ UNCHANGED keyVars
    \/ \E c \in Calls : VerifyKey(c) \/ Serve(c)
    \/ \E d \in Devices : FindKey(d) \/ WriteKey(d)

KeySpec == KeyInit /\ [][KeyNext]_<<recordVars, keyVars>>

-----------------------------------------------------------------------------

\* Unless two first registrations overlap (approval-service.ts:744), the key is
\* written once, as routes/approvals.ts:74 promises: one device is registered,
\* and every legacy decision of the manager was verified with its key.
KeyWrittenOnce ==
    ~raced =>
        /\ \A d \in Devices : device[d] = "registered" => key = d
        /\ \A c \in Calls : verified[c] \in {NoKey, key}
=============================================================================
