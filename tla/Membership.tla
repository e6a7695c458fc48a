---------------------------- MODULE Membership ----------------------------
(***************************************************************************)
(* Who belongs to an organization: the session endpoint that turns a       *)
(* signed-in identity into a user with a project (routes/auth-session.ts,  *)
(* organization-service.ts), invitations, role changes and removals        *)
(* (member-service.ts).                                                    *)
(*                                                                         *)
(* One organization, Team, is observed.  Every other organization is the   *)
(* one a first session bootstraps for its own user (its slug carries the   *)
(* user's id, so there is at most one per user).  Handlers are not         *)
(* transactions: every database call of a handler is a step, and the       *)
(* steps of concurrent calls interleave.                                   *)
(***************************************************************************)
EXTENDS Naturals, Sequences, FiniteSets, SequencesExt

CONSTANTS
    Users,      \* the people, each with one e-mail address
    Roles,      \* organization roles; every one but owner and admin may manage nothing
    Seeded,     \* the owners Team starts with (bootstrap makes one, the seed script two)
    Calls,      \* API calls that may be in flight together
    None        \* no row

ASSUME MembershipAssumption ==
    /\ Seeded \subseteq Users /\ Seeded # {}
    /\ "owner" \in Roles /\ None \notin Roles
    /\ IsFiniteSet(Users)

VARIABLES
    known,      \* users with a row in users
    role,       \* organization_members of Team
    orgs,       \* each user's organizations, oldest membership first
    own,        \* what the user's own bootstrapped organization has
    project,    \* whether Team has a project
    invitation, \* the invitations row of Team and this e-mail
    call,       \* the calls in flight
    past,       \* what happened to each user's first session and membership
    blind       \* an owner was lost to a count made before another write

vars == <<known, role, orgs, own, project, invitation, call, past, blind>>
people == <<known, role, orgs, own>>

Invitation == [status : {"pending", "accepted"}, role : Roles, alive : BOOLEAN]
ASSUME NoneAssumption == None \notin Invitation
Idle == [at |-> "idle"]
Session == [at : {"upsert", "resolve", "invited", "member", "join", "accept",
                  "organization", "project"},
            user : Users, new : BOOLEAN, role : Roles \cup {None}]
Change == [at : {"target", "count", "write"}, op : {"role", "remove"}, user : Users,
           want : Roles \cup {None}, owners : 0..Cardinality(Users)]
Invite == [at : {"checkMember", "checkPending", "create"}, user : Users, want : Roles]

(***************************************************************************)
(* The rows and the calls have the shapes of the schema and the handlers.  *)
(***************************************************************************)
TypeOK ==
    /\ known \subseteq Users
    /\ role \in [Users -> Roles \cup {None}]
    /\ \A u \in Users : IsInjective(orgs[u]) /\ ToSet(orgs[u]) \subseteq {"team", "own"}
    /\ own \in [Users -> {"none", "organization", "project"}]
    /\ project \in BOOLEAN
    /\ invitation \in [Users -> Invitation \cup {None}]
    /\ call \in [Calls -> {Idle} \cup Session \cup Change \cup Invite]
    /\ past \in [Users -> SUBSET {"failed", "raced", "removed", "homeless"}]
    /\ blind \in BOOLEAN

Owners == {u \in Users : role[u] = "owner"}

(* Team exists with its seeded owners.  It may have lost its project: the  *)
(* bootstrap creates the organization and then, in a second call, the      *)
(* project with its key and its default agent.                             *)
Init ==
    /\ known = Seeded
    /\ role = [u \in Users |-> IF u \in Seeded THEN "owner" ELSE None]
    /\ orgs = [u \in Users |-> IF u \in Seeded THEN <<"team">> ELSE <<>>]
    /\ own = [u \in Users |-> "none"]
    /\ project \in BOOLEAN
    /\ invitation = [u \in Users |-> None]
    /\ call = [c \in Calls |-> Idle]
    /\ past = [u \in Users |-> {}]
    /\ blind = FALSE

Begin(c, r) == call[c] = Idle /\ call' = [call EXCEPT ![c] = r]
Go(c, at) == call' = [call EXCEPT ![c].at = at]
End(c) == call' = [call EXCEPT ![c] = Idle]
At(c, at) == call[c].at = at

-----------------------------------------------------------------------------
(* GET /auth/session: the signed-in user's first call creates the user.    *)

InFirstSession(c, u) == /\ call[c] # Idle /\ "new" \in DOMAIN call[c]
                        /\ call[c].new /\ call[c].user = u
FirstSessions(u) == {c \in Calls : InFirstSession(c, u)}

FindUser_AfterUpsert(c, u) ==
    /\ Begin(c, [at |-> "upsert", user |-> u, new |-> FALSE, role |-> None])
    /\ UNCHANGED <<people, project, invitation, past, blind>>

FindUser(c, u) ==
    /\ Begin(c, [at |-> "upsert", user |-> u, new |-> u \notin known, role |-> None])
    /\ past' = IF u \notin known /\ FirstSessions(u) # {}
                 THEN [past EXCEPT ![u] = @ \cup {"raced"}] ELSE past
    /\ UNCHANGED <<people, project, invitation, blind>>

UpsertUser(c) ==
    /\ At(c, "upsert")
    /\ known' = known \cup {call[c].user}
    /\ Go(c, "resolve")
    /\ UNCHANGED <<role, orgs, own, project, invitation, past, blind>>

(* The first project of the oldest membership's organization, if any.      *)
HasHome(u) ==
    /\ orgs[u] # <<>>
    /\ IF Head(orgs[u]) = "team" THEN project ELSE own[u] = "project"

findUserDefaultProject(c) ==
    LET u == call[c].user IN
    /\ At(c, "resolve")
    /\ IF ~HasHome(u) /\ call[c].new THEN Go(c, "invited") ELSE End(c)
    /\ UNCHANGED <<people, project, invitation, past, blind>>

(* acceptPendingInvitationForEmail: the invitation, an existing membership, *)
(* the membership it creates, the accepted mark and the project, in order. *)
Pending(u) == invitation[u] # None /\ invitation[u].status = "pending"

FindInvitation(c) ==
    LET u == call[c].user IN
    /\ At(c, "invited")
    /\ IF Pending(u) /\ invitation[u].alive
         THEN call' = [call EXCEPT ![c].at = "member", ![c].role = invitation[u].role]
         ELSE Go(c, "organization")
    /\ UNCHANGED <<people, project, invitation, past, blind>>

FindMembership(c) ==
    /\ At(c, "member")
    /\ Go(c, IF role[call[c].user] = None THEN "join" ELSE "accept")
    /\ UNCHANGED <<people, project, invitation, past, blind>>

(* The primary key (organization, user) refuses a second membership.       *)
CreateMembership(c) ==
    LET u == call[c].user IN
    /\ At(c, "join") /\ role[u] = None
    /\ role' = [role EXCEPT ![u] = call[c].role]
    /\ orgs' = [orgs EXCEPT ![u] = Append(@, "team")]
    /\ Go(c, "accept")
    /\ UNCHANGED <<known, own, project, invitation, past, blind>>

MarkAccepted_FallsThrough(c) ==
    LET u == call[c].user IN
    /\ At(c, "accept")
    /\ invitation' = [invitation EXCEPT ![u].status = "accepted"]
    /\ Go(c, "organization")
    /\ past' = IF project THEN past ELSE [past EXCEPT ![u] = @ \cup {"homeless"}]
    /\ UNCHANGED <<people, project, blind>>

(* A Team without a project gives the session an empty project id, which   *)
(* is no project: the session goes on to bootstrap an organization.        *)
MarkAccepted(c) ==
    LET u == call[c].user IN
    /\ At(c, "accept")
    /\ invitation' = [invitation EXCEPT ![u].status = "accepted"]
    /\ IF project THEN End(c) ELSE Go(c, "organization")
    /\ past' = IF project THEN past ELSE [past EXCEPT ![u] = @ \cup {"homeless"}]
    /\ UNCHANGED <<people, project, blind>>

(* bootstrapOrganization: the organization with its owner, then the        *)
(* project with its key and default agent.                                 *)
CreateOrganization(c) ==
    LET u == call[c].user IN
    /\ At(c, "organization") /\ own[u] = "none"
    /\ own' = [own EXCEPT ![u] = "organization"]
    /\ orgs' = [orgs EXCEPT ![u] = Append(@, "own")]
    /\ Go(c, "project")
    /\ UNCHANGED <<known, role, project, invitation, past, blind>>

CreateProject(c) ==
    LET u == call[c].user IN
    /\ At(c, "project")
    /\ own' = [own EXCEPT ![u] = "project"]
    /\ End(c)
    /\ UNCHANGED <<known, role, orgs, project, invitation, past, blind>>

-----------------------------------------------------------------------------
(* The members routes.  requireAbility asks for "manage", which owners and *)
(* admins have.                                                            *)

May(b) == role[b] \in {"owner", "admin"}

(* routes/members.ts passes auth.role ?? "member", and neither way of      *)
(* authenticating these routes use sets auth.role.                         *)
RequesterRole(b) == "member"

MayGrant(b, r) == r = "owner" => RequesterRole(b) = "owner"

inviteMember(c, b, u, r) ==
    /\ May(b) /\ MayGrant(b, r)
    /\ Begin(c, [at |-> "checkMember", user |-> u, want |-> r])
    /\ UNCHANGED <<people, project, invitation, past, blind>>

CheckMember(c) ==
    /\ At(c, "checkMember")
    /\ IF role[call[c].user] # None THEN End(c) ELSE Go(c, "checkPending")
    /\ UNCHANGED <<people, project, invitation, past, blind>>

CheckPending(c) ==
    /\ At(c, "checkPending")
    /\ IF Pending(call[c].user) THEN End(c) ELSE Go(c, "create")
    /\ UNCHANGED <<people, project, invitation, past, blind>>

(* One row per organization and e-mail: an old invitation refuses it.      *)
CreateInvitation(c) ==
    LET u == call[c].user IN
    /\ At(c, "create") /\ invitation[u] = None
    /\ invitation' = [invitation EXCEPT
                       ![u] = [status |-> "pending", role |-> call[c].want, alive |-> TRUE]]
    /\ End(c)
    /\ UNCHANGED <<people, project, past, blind>>

Expire(u) ==
    /\ Pending(u) /\ invitation[u].alive
    /\ invitation' = [invitation EXCEPT ![u].alive = FALSE]
    /\ UNCHANGED <<people, project, call, past, blind>>

updateMemberRole(c, b, u, r) ==
    /\ May(b) /\ MayGrant(b, r)
    /\ Begin(c, [at |-> "target", op |-> "role", user |-> u, want |-> r, owners |-> 0])
    /\ UNCHANGED <<people, project, invitation, past, blind>>

removeMember(c, b, u) ==
    /\ May(b)
    /\ Begin(c, [at |-> "target", op |-> "remove", user |-> u, want |-> None, owners |-> 0])
    /\ UNCHANGED <<people, project, invitation, past, blind>>

FindTarget(c) ==
    LET u == call[c].user IN
    /\ At(c, "target")
    /\ \/ role[u] = None /\ End(c)
       \/ role[u] = "owner" /\ call[c].want # "owner" /\ Go(c, "count")
       \/ role[u] # None /\ (role[u] # "owner" \/ call[c].want = "owner") /\ Go(c, "write")
    /\ UNCHANGED <<people, project, invitation, past, blind>>

CountOwners_OffByOne(c) ==
    /\ At(c, "count")
    /\ IF Cardinality(Owners) < 1
         THEN End(c)
         ELSE call' = [call EXCEPT ![c].at = "write", ![c].owners = Cardinality(Owners)]
    /\ UNCHANGED <<people, project, invitation, past, blind>>

CountOwners(c) ==
    /\ At(c, "count")
    /\ IF Cardinality(Owners) <= 1
         THEN End(c)
         ELSE call' = [call EXCEPT ![c].at = "write", ![c].owners = Cardinality(Owners)]
    /\ UNCHANGED <<people, project, invitation, past, blind>>

Stale(c) == role[call[c].user] = "owner" /\ call[c].owners # Cardinality(Owners)

(* The update and the delete go by primary key and fail without the row.   *)
WriteChange(c) ==
    LET u == call[c].user IN
    /\ At(c, "write") /\ role[u] # None
    /\ role' = [role EXCEPT ![u] = call[c].want]
    /\ orgs' = IF call[c].op = "remove"
                 THEN [orgs EXCEPT ![u] = SelectSeq(@, LAMBDA o : o # "team")] ELSE orgs
    /\ past' = IF call[c].op = "remove"
                 THEN [past EXCEPT ![u] = @ \cup {"removed"}] ELSE past
    /\ blind' = (blind \/ Stale(c))
    /\ End(c)
    /\ UNCHANGED <<known, own, project, invitation>>

-----------------------------------------------------------------------------
(* A database call fails (a refused unique key among the reasons) or the   *)
(* process stops: the handler ends where it is.                            *)
Fail(c) ==
    /\ call[c] # Idle
    /\ End(c)
    /\ past' = [u \in Users |-> IF InFirstSession(c, u) /\ u \in known
                                  THEN past[u] \cup {"failed"} ELSE past[u]]
    /\ UNCHANGED <<people, project, invitation, blind>>

SessionStep(c) ==
    \/ UpsertUser(c) \/ findUserDefaultProject(c) \/ FindInvitation(c) \/ FindMembership(c)
    \/ CreateMembership(c) \/ MarkAccepted(c) \/ CreateOrganization(c) \/ CreateProject(c)

MemberStep(c) ==
    \/ CheckMember(c) \/ CheckPending(c) \/ CreateInvitation(c)
    \/ FindTarget(c) \/ CountOwners(c) \/ WriteChange(c)

Next ==
    \/ \E c \in Calls : SessionStep(c) \/ MemberStep(c) \/ Fail(c)
    \/ \E c \in Calls, u \in Users : FindUser(c, u)
    \/ \E c \in Calls, b, u \in Users :
         \/ removeMember(c, b, u)
         \/ \E r \in Roles : inviteMember(c, b, u, r) \/ updateMemberRole(c, b, u, r)
    \/ \E u \in Users : Expire(u)

Spec == Init /\ [][Next]_vars

-----------------------------------------------------------------------------
(* "organization must have at least one owner": the last owner is lost only *)
(* when a demotion or removal acts on a count of owners that another call   *)
(* has since changed.                                                       *)
AlwaysAnOwner == blind \/ Owners # {}

(* No sequence of calls makes anyone an owner of Team who was not: the      *)
(* routes never know the requester as an owner.                             *)
NoNewOwners == [][\A u \in Users : role'[u] = "owner" => role[u] = "owner"]_vars

(* An accepted invitation made its user a member: the accepted mark comes   *)
(* after the membership, whatever first sessions, failures and removals     *)
(* interleave.                                                              *)
AcceptedJoined ==
    \A u \in Users : invitation[u] # None /\ invitation[u].status = "accepted"
                       => role[u] # None \/ "removed" \in past[u]

(* A user whom no first session is working for has a project to land in,    *)
(* unless the first session failed on the way, the user was removed, or the *)
(* invitation led to an organization without a project.                     *)
HomeExplained ==
    \A u \in known : \/ HasHome(u)
                     \/ FirstSessions(u) # {}
                     \/ past[u] \cap {"failed", "removed", "homeless"} # {}
                     \/ u \in Seeded

(* "must land as a member of that org ... NOT bootstrap their own org as    *)
(* owner": an invited member owns an organization of their own only when    *)
(* two first sessions ran together or Team had no project.                  *)
BootstrapExplained ==
    \A u \in Users : role[u] # None /\ own[u] # "none"
                       => past[u] \cap {"raced", "homeless"} # {}
=============================================================================
