-------------------------- MODULE MembershipProofs --------------------------
(***************************************************************************)
(* For any people, roles and calls in flight: nobody becomes an owner, an  *)
(* owner remains but for a stale count, accepted invitations made members, *)
(* an invited member owns an organization for two reasons only, and who    *)
(* lacks a home lacks it for a reason.                                     *)
(*                                                                         *)
(* Offers says what a call in flight or a pending invitation may still     *)
(* write; First follows a user's first session from place to place.  Home  *)
(* looks at the oldest membership alone: it has a project, or the session  *)
(* that will make one, or leave a mark, is still under way.                *)
(***************************************************************************)
EXTENDS Membership, FiniteSetTheorems, TLAPS

Shapes ==
    /\ known \subseteq Users
    /\ role \in [Users -> Roles \cup {None}]
    /\ own \in [Users -> {"none", "organization", "project"}]
    /\ project \in BOOLEAN
    /\ invitation \in [Users -> Invitation \cup {None}]
    /\ call \in [Calls -> {Idle} \cup Session \cup Change \cup Invite]
    /\ past \in [Users -> SUBSET {"failed", "raced", "removed", "homeless"}]
    /\ blind \in BOOLEAN

(* What is on its way to Team's rows.                                      *)
Offers ==
    /\ \A u \in Users : invitation[u] # None => invitation[u].role # "owner"
    /\ \A c \in Calls :
         /\ call[c] \in Session => call[c].role # "owner"
         /\ call[c] \in Session /\ call[c].at \in {"member", "join"} => call[c].role # None
         /\ call[c] \in Change \cup Invite => call[c].want # "owner"
         /\ call[c] \in Change /\ call[c].op = "role" => call[c].want # None
         /\ call[c] \in Change => call[c].owners = 0 \/ call[c].owners > 1

(* A session that is about to mark the invitation has its membership.      *)
Joined ==
    /\ AcceptedJoined
    /\ \A c \in Calls : call[c] \in Session /\ call[c].at \in {"member", "join", "accept"}
         => invitation[call[c].user] # None
    /\ \A c \in Calls : call[c] \in Session /\ call[c].at = "accept"
         => role[call[c].user] # None \/ "removed" \in past[call[c].user]

-----------------------------------------------------------------------------
(* The calls in flight                                                      *)

\* The place a call is at tells which handler it is of.
LEMMA Handlers ==
    ASSUME Shapes, NEW c \in Calls
    PROVE  /\ call[c] = Idle <=> At(c, "idle")
           /\ call[c] \in Session <=> call[c].at \in {"upsert", "resolve", "invited", "member",
                                       "join", "accept", "organization", "project"}
           /\ call[c] \in Change <=> call[c].at \in {"target", "count", "write"}
           /\ call[c] \in Invite <=> call[c].at \in {"checkMember", "checkPending", "create"}
  BY DEF Shapes, Idle, Session, Change, Invite, At

Places == {"upsert", "resolve", "invited", "member", "join", "accept", "organization", "project"}

\* A session goes from one call of the database to the next.
LEMMA Moves ==
    ASSUME Shapes, NEW c \in Calls, call[c] \in Session, NEW at \in Places, Go(c, at)
    PROVE  /\ call' \in [Calls -> {Idle} \cup Session \cup Change \cup Invite]
           /\ call'[c] \in Session /\ call'[c].at = at
           /\ call'[c].user = call[c].user /\ call'[c].new = call[c].new
           /\ call'[c].role = call[c].role
           /\ \A d \in Calls \ {c} : call'[d] = call[d]
  BY DEF Shapes, Go, Session, Places

\* A handler that ends is gone.
LEMMA Ends ==
    ASSUME Shapes, NEW c \in Calls, End(c)
    PROVE  /\ call' \in [Calls -> {Idle} \cup Session \cup Change \cup Invite]
           /\ call'[c] = Idle
           /\ \A d \in Calls \ {c} : call'[d] = call[d]
  BY DEF Shapes, End

\* What a step of a session does to its call.
LEMMA SessionMoves ==
    ASSUME Shapes, NEW c \in Calls, SessionStep(c)
    PROVE  /\ call[c] \in Session
           /\ call' \in [Calls -> {Idle} \cup Session \cup Change \cup Invite]
           /\ \A d \in Calls \ {c} : call'[d] = call[d]
           /\ \/ call'[c] = Idle
              \/ /\ call'[c] \in Session
                 /\ call'[c].user = call[c].user /\ call'[c].new = call[c].new
                 /\ \/ call'[c].role = call[c].role
                    \/ /\ call'[c].role = invitation[call[c].user].role
                       /\ At(c, "invited") /\ call'[c].at = "member"
                       /\ invitation[call[c].user] # None
<1>1. call[c] \in Session
  BY Handlers DEF SessionStep, UpsertUser, findUserDefaultProject, FindInvitation, FindMembership,
                  CreateMembership, MarkAccepted, CreateOrganization, CreateProject, At
<1>2. CASE End(c)
  BY <1>1, <1>2, Ends
<1>3. CASE \E at \in Places : Go(c, at)
  BY <1>1, <1>3, Moves
<1>4. CASE FindInvitation(c)
  <2> DEFINE u == call[c].user
  <2>1. CASE Pending(u) /\ invitation[u].alive
    <3>1. call' = [call EXCEPT ![c].at = "member", ![c].role = invitation[u].role]
      BY <1>4, <2>1 DEF FindInvitation
    <3>2. u \in Users /\ invitation[u] \in Invitation
      BY <1>1, <2>1 DEF Session, Shapes, Pending
    <3>3. invitation[u].role \in Roles
      BY <3>2 DEF Invitation
    <3>4. call'[c] \in Session /\ call'[c].user = u /\ call'[c].new = call[c].new
          /\ call'[c].role = invitation[u].role /\ call'[c].at = "member"
      BY <1>1, <3>1, <3>3 DEF Session, Shapes
    <3>5. QED
      BY <1>1, <1>4, <2>1, <3>1, <3>4 DEF Shapes, FindInvitation, Pending
  <2>2. CASE ~(Pending(u) /\ invitation[u].alive)
    <3>1. Go(c, "organization")
      BY <1>4, <2>2 DEF FindInvitation
    <3>2. QED
      BY <1>3, <3>1 DEF Places
  <2>3. QED
    BY <2>1, <2>2
<1>5. CASE UpsertUser(c) \/ CreateMembership(c) \/ CreateOrganization(c) \/ CreateProject(c)
  BY <1>2, <1>3, <1>5 DEF UpsertUser, CreateMembership, CreateOrganization, CreateProject, Places
<1>6. CASE findUserDefaultProject(c)
  BY <1>2, <1>3, <1>6 DEF findUserDefaultProject, Places
<1>7. CASE FindMembership(c)
  <2>1. Go(c, "join") \/ Go(c, "accept")
    BY <1>7 DEF FindMembership
  <2>2. QED
    BY <1>3, <2>1 DEF Places
<1>8. CASE MarkAccepted(c)
  BY <1>2, <1>3, <1>8 DEF MarkAccepted, Places
<1>9. QED
  BY <1>4, <1>5, <1>6, <1>7, <1>8 DEF SessionStep

\* What a step of a member handler does to its call.
LEMMA MemberMoves ==
    ASSUME Shapes, IsFiniteSet(Users), NEW c \in Calls, MemberStep(c)
    PROVE  /\ call[c] \in Change \cup Invite
           /\ call' \in [Calls -> {Idle} \cup Session \cup Change \cup Invite]
           /\ \A d \in Calls \ {c} : call'[d] = call[d]
           /\ \/ call'[c] = Idle
              \/ /\ call[c] \in Invite /\ call'[c] \in Invite
                 /\ call'[c].want = call[c].want
              \/ /\ call[c] \in Change /\ call'[c] \in Change
                 /\ call'[c].op = call[c].op /\ call'[c].want = call[c].want
                 /\ call'[c].owners = call[c].owners \/ call'[c].owners > 1
<1>1. CASE End(c)
  <2>1. call[c] \in Change \cup Invite
    BY Handlers DEF MemberStep, CheckMember, CheckPending, CreateInvitation, FindTarget, CountOwners,
                    WriteChange, At
  <2>2. QED
    BY <1>1, <2>1, Ends
<1>2. CASE CheckMember(c)
  <2>1. call[c] \in Invite
    BY <1>2, Handlers DEF CheckMember, At
  <2>2. CASE Go(c, "checkPending")
    BY <2>1, <2>2 DEF Go, Shapes, Invite
  <2>3. QED
    BY <1>1, <1>2, <2>2 DEF CheckMember
<1>3. CASE CheckPending(c)
  <2>1. call[c] \in Invite
    BY <1>3, Handlers DEF CheckPending, At
  <2>2. CASE Go(c, "create")
    BY <2>1, <2>2 DEF Go, Shapes, Invite
  <2>3. QED
    BY <1>1, <1>3, <2>2 DEF CheckPending
<1>4. CASE FindTarget(c)
  <2>1. call[c] \in Change
    BY <1>4, Handlers DEF FindTarget, At
  <2>2. ASSUME NEW at \in {"count", "write"}, Go(c, at)
        PROVE  /\ call'[c] \in Change
               /\ call'[c].op = call[c].op /\ call'[c].want = call[c].want
               /\ call'[c].owners = call[c].owners
               /\ call' \in [Calls -> {Idle} \cup Session \cup Change \cup Invite]
               /\ \A d \in Calls \ {c} : call'[d] = call[d]
    BY <2>1, <2>2 DEF Go, Shapes, Change
  <2>3. QED
    BY <1>1, <1>4, <2>1, <2>2 DEF FindTarget
<1>5. CASE CountOwners(c)
  <2> DEFINE n == Cardinality(Owners)
  <2>1. call[c] \in Change
    BY <1>5, Handlers DEF CountOwners, At
  <2>2. n \in 0..Cardinality(Users)
    BY FS_Subset, FS_CardinalityType DEF Owners
  <2>3. CASE n > 1
    <3>1. call' = [call EXCEPT ![c].at = "write", ![c].owners = n]
      BY <1>5, <2>2, <2>3 DEF CountOwners
    <3> HIDE DEF n
    <3>2. QED
      BY <2>1, <2>2, <2>3, <3>1 DEF Shapes, Change
  <2>4. CASE n <= 1
    BY <1>1, <1>5, <2>4 DEF CountOwners
  <2>5. QED
    BY <2>2, <2>3, <2>4
<1>6. CASE CreateInvitation(c) \/ WriteChange(c)
  BY <1>1, <1>6 DEF CreateInvitation, WriteChange
<1>7. QED
  BY <1>2, <1>3, <1>4, <1>5, <1>6 DEF MemberStep

\* A handler that starts takes a free call.
LEMMA Begins ==
    ASSUME Shapes, NEW c \in Calls, NEW x \in Session \cup Change \cup Invite, Begin(c, x)
    PROVE  /\ call[c] = Idle /\ call'[c] = x
           /\ call' \in [Calls -> {Idle} \cup Session \cup Change \cup Invite]
           /\ \A d \in Calls \ {c} : call'[d] = call[d]
  BY DEF Shapes, Begin

\* A call that is a session's and was not took a step of the session.
LEMMA Sessions ==
    ASSUME Shapes, [Next]_vars, IsFiniteSet(Users), NEW c \in Calls,
           call'[c] \in Session, call'[c] # call[c]
    PROVE  SessionStep(c) \/ \E u \in Users : FindUser(c, u)
<1>1. ASSUME NEW d \in Calls, SessionStep(d) \/ MemberStep(d) \/ Fail(d)
      PROVE  SessionStep(c)
  <2>1. call'[c] # Idle /\ call'[c] \notin Change \cup Invite
    BY DEF Idle, Session, Change, Invite
  <2>2. CASE SessionStep(d)
    BY <2>2, SessionMoves
  <2>3. CASE MemberStep(d)
    BY <2>1, <2>3, MemberMoves
  <2>4. CASE Fail(d)
    BY <2>1, <2>4, Ends DEF Fail
  <2>5. QED
    BY <1>1, <2>2, <2>3, <2>4
<1>2. ASSUME NEW d \in Calls, NEW u \in Users, FindUser(d, u)
      PROVE  FindUser(c, u)
  BY <1>2 DEF FindUser, Begin, Shapes
<1>3. ASSUME NEW d \in Calls, NEW b \in Users, NEW u \in Users, NEW r,
             removeMember(d, b, u) \/ inviteMember(d, b, u, r) \/ updateMemberRole(d, b, u, r)
      PROVE  FALSE
  BY <1>3 DEF removeMember, inviteMember, updateMemberRole, Begin, Shapes, Session
<1>4. CASE call' = call
  BY <1>4
<1>5. QED
  BY <1>1, <1>2, <1>3, <1>4 DEF Next, vars, Expire

\* The rows keep their shapes.
LEMMA Typing ==
    ASSUME Shapes, Joined, [Next]_vars, IsFiniteSet(Users), "owner" \in Roles
    PROVE  Shapes'
<1>1. ASSUME NEW c \in Calls, SessionStep(c)
      PROVE  Shapes'
  <2> DEFINE u == call[c].user
  <2>1. call[c] \in Session /\ u \in Users /\ call[c].role \in Roles \cup {None}
    BY <1>1, SessionMoves DEF Session
  <2>2. call' \in [Calls -> {Idle} \cup Session \cup Change \cup Invite]
    BY <1>1, SessionMoves
  <2> HIDE DEF Session
  <2>3. known' \subseteq Users
    BY <1>1, <2>1 DEF SessionStep, UpsertUser, findUserDefaultProject, FindInvitation, FindMembership,
           CreateMembership, MarkAccepted, CreateOrganization, CreateProject, people, Shapes
  <2>4. role' \in [Users -> Roles \cup {None}]
    BY <1>1, <2>1 DEF SessionStep, UpsertUser, findUserDefaultProject, FindInvitation, FindMembership,
           CreateMembership, MarkAccepted, CreateOrganization, CreateProject, people, Shapes
  <2>5. own' \in [Users -> {"none", "organization", "project"}]
    BY <1>1, <2>1 DEF SessionStep, UpsertUser, findUserDefaultProject, FindInvitation, FindMembership,
           CreateMembership, MarkAccepted, CreateOrganization, CreateProject, people, Shapes
  <2>6. project' \in BOOLEAN /\ blind' \in BOOLEAN
    BY <1>1 DEF SessionStep, UpsertUser, findUserDefaultProject, FindInvitation, FindMembership,
           CreateMembership, MarkAccepted, CreateOrganization, CreateProject, people, Shapes
  <2>7. past' \in [Users -> SUBSET {"failed", "raced", "removed", "homeless"}]
    BY <1>1, <2>1 DEF SessionStep, UpsertUser, findUserDefaultProject, FindInvitation, FindMembership,
           CreateMembership, MarkAccepted, CreateOrganization, CreateProject, people, Shapes
  <2>8. invitation' \in [Users -> Invitation \cup {None}]
    BY <1>1, <2>1 DEF SessionStep, UpsertUser, findUserDefaultProject, FindInvitation, FindMembership,
           CreateMembership, MarkAccepted, CreateOrganization, CreateProject, people, Shapes, Invitation,
           Joined, At
  <2>9. QED
    BY <2>2, <2>3, <2>4, <2>5, <2>6, <2>7, <2>8 DEF Shapes
<1>2. ASSUME NEW c \in Calls, MemberStep(c)
      PROVE  Shapes'
  <2> DEFINE u == call[c].user
  <2>1. u \in Users /\ call[c].want \in Roles \cup {None}
        /\ (At(c, "create") => call[c].want \in Roles)
    <3>1. call[c] \in Change \cup Invite
      BY <1>2, MemberMoves
    <3>2. QED
      BY <3>1 DEF Change, Invite, At
  <2>2. call' \in [Calls -> {Idle} \cup Session \cup Change \cup Invite]
    BY <1>2, MemberMoves
  <2>3. CASE CreateInvitation(c)
    BY <2>1, <2>2, <2>3 DEF CreateInvitation, people, Shapes, Invitation
  <2>4. CASE WriteChange(c)
    BY <2>1, <2>2, <2>4 DEF WriteChange, Stale, Shapes
  <2>5. CASE CheckMember(c) \/ CheckPending(c) \/ FindTarget(c) \/ CountOwners(c)
    BY <2>2, <2>5 DEF CheckMember, CheckPending, FindTarget, CountOwners, people, Shapes
  <2>6. QED
    BY <1>2, <2>3, <2>4, <2>5 DEF MemberStep
<1>3. ASSUME NEW c \in Calls, Fail(c)
      PROVE  Shapes'
  <2>1. call' \in [Calls -> {Idle} \cup Session \cup Change \cup Invite]
    BY <1>3, Ends DEF Fail
  <2>2. QED
    BY <1>3, <2>1 DEF Fail, people, Shapes
<1>4. ASSUME NEW c \in Calls, NEW u \in Users, FindUser(c, u)
      PROVE  Shapes'
  <2>1. [at |-> "upsert", user |-> u, new |-> u \notin known, role |-> None] \in Session
    BY DEF Session
  <2>2. call' \in [Calls -> {Idle} \cup Session \cup Change \cup Invite]
    BY <1>4, <2>1, Begins DEF FindUser
  <2>3. QED
    BY <1>4, <2>2 DEF FindUser, people, Shapes
<1>5. ASSUME NEW c \in Calls, NEW b \in Users, NEW u \in Users, NEW r \in Roles,
             removeMember(c, b, u) \/ inviteMember(c, b, u, r) \/ updateMemberRole(c, b, u, r)
      PROVE  Shapes'
  <2>1. /\ [at |-> "target", op |-> "remove", user |-> u, want |-> None, owners |-> 0] \in Change
        /\ [at |-> "target", op |-> "role", user |-> u, want |-> r, owners |-> 0] \in Change
        /\ [at |-> "checkMember", user |-> u, want |-> r] \in Invite
    BY FS_CardinalityType DEF Change, Invite
  <2>2. call' \in [Calls -> {Idle} \cup Session \cup Change \cup Invite]
    BY <1>5, <2>1, Begins DEF removeMember, inviteMember, updateMemberRole
  <2>3. QED
    BY <1>5, <2>2 DEF removeMember, inviteMember, updateMemberRole, people, Shapes
<1>6. ASSUME NEW u \in Users, Expire(u)
      PROVE  Shapes'
  BY <1>6 DEF Expire, Pending, people, Shapes, Invitation
<1>7. CASE UNCHANGED vars
  BY <1>7 DEF vars, Shapes
<1>8. QED
  BY <1>1, <1>2, <1>3, <1>4, <1>5, <1>6, <1>7 DEF Next

-----------------------------------------------------------------------------
(* What is offered and what is written                                      *)

\* No handler offers anybody ownership of Team.
LEMMA OffersStep ==
    ASSUME Shapes, Joined, Offers, [Next]_vars, Shapes', IsFiniteSet(Users), "owner" \in Roles,
           None \notin Roles
    PROVE  Offers'
<1>1. ASSUME NEW c \in Calls, SessionStep(c)
      PROVE  Offers'
  <2> DEFINE u == call[c].user
  <2>1. call[c] \in Session /\ u \in Users
    BY <1>1, SessionMoves DEF Session
  <2>2. \A v \in Users : invitation'[v] # None => invitation'[v].role # "owner"
    <3>1. CASE MarkAccepted(c)
      <4>1. invitation[u] # None /\ invitation[u] \in Invitation
        BY <2>1, <3>1 DEF MarkAccepted, Joined, Shapes, At
      <4>2. invitation' = [invitation EXCEPT ![u] = [invitation[u] EXCEPT !.status = "accepted"]]
        BY <3>1, <2>1 DEF MarkAccepted, Shapes
      <4>3. [invitation[u] EXCEPT !.status = "accepted"].role = invitation[u].role
        BY <4>1 DEF Invitation
      <4>4. invitation[u] # None => invitation[u].role # "owner"
        BY <2>1 DEF Offers
      <4>5. QED
        BY <2>1, <4>1, <4>2, <4>3, <4>4 DEF Offers, Shapes
    <3>2. CASE ~MarkAccepted(c)
      BY <1>1, <3>2 DEF SessionStep, UpsertUser, findUserDefaultProject, FindInvitation, FindMembership,
           CreateMembership, CreateOrganization, CreateProject, Offers
    <3>3. QED
      BY <3>1, <3>2
  <2>3. ASSUME NEW d \in Calls
        PROVE  /\ call'[d] \in Session => call'[d].role # "owner"
               /\ call'[d] \in Session /\ call'[d].at \in {"member", "join"} => call'[d].role # None
               /\ call'[d] \in Change \cup Invite => call'[d].want # "owner"
               /\ call'[d] \in Change /\ call'[d].op = "role" => call'[d].want # None
               /\ call'[d] \in Change => call'[d].owners = 0 \/ call'[d].owners > 1
    <3>1. CASE d # c
      BY <1>1, <3>1, SessionMoves DEF Offers
    <3>2. CASE d = c /\ call'[c] = Idle
      BY <3>2 DEF Idle, Session, Change, Invite
    <3>3. CASE d = c /\ call'[c] \in Session
      <4>1. call'[c].role # "owner"
        <5>1. ASSUME invitation[u] # None PROVE invitation[u].role # "owner"
          BY <2>1, <5>1 DEF Offers
        <5>2. call[c].role # "owner"
          BY <2>1 DEF Offers
        <5>3. call'[c] # Idle
          BY <3>3 DEF Idle, Session
        <5>4. call'[c].role = call[c].role \/ (invitation[u] # None /\ call'[c].role = invitation[u].role)
          BY <1>1, <5>3, SessionMoves
        <5>5. QED
          BY <5>1, <5>2, <5>4
      <4>2. call'[c].at \in {"member", "join"} => call'[c].role # None
        <5>1. CASE FindInvitation(c)
          <6>1. CASE Pending(u) /\ invitation[u].alive
            <7>1. invitation[u] \in Invitation
              BY <2>1, <6>1 DEF Pending, Shapes
            <7>2. call'[c].role = invitation[u].role
              BY <2>1, <5>1, <6>1, <7>1 DEF FindInvitation, Shapes, Session
            <7>3. QED
              BY <7>1, <7>2 DEF Invitation
          <6>2. CASE Go(c, "organization")
            BY <2>1, <6>2, Moves DEF Places
          <6>3. QED
            BY <5>1, <6>1, <6>2 DEF FindInvitation
        <5>2. CASE FindMembership(c)
          BY <1>1, <2>1, <3>3, <5>2, SessionMoves DEF Idle, Session, Offers, FindMembership, At
        <5>3. CASE UpsertUser(c)
          BY <2>1, <5>3, Moves DEF UpsertUser, Places
        <5>4. CASE findUserDefaultProject(c)
          BY <2>1, <3>3, <5>4, Moves, Ends DEF findUserDefaultProject, Places, Idle, Session
        <5>5. CASE CreateMembership(c)
          BY <2>1, <5>5, Moves DEF CreateMembership, Places
        <5>6. CASE MarkAccepted(c)
          BY <2>1, <3>3, <5>6, Moves, Ends DEF MarkAccepted, Places, Idle, Session
        <5>7. CASE CreateOrganization(c) \/ CreateProject(c)
          BY <2>1, <3>3, <5>7, Moves, Ends DEF CreateOrganization, CreateProject, Places, Idle, Session
        <5>8. QED
          BY <1>1, <5>1, <5>2, <5>3, <5>4, <5>5, <5>6, <5>7 DEF SessionStep
      <4>3. call'[c] \notin Change \cup Invite
        BY <3>3 DEF Session, Change, Invite
      <4>4. QED
        BY <3>3, <4>1, <4>2, <4>3
    <3>4. QED
      BY <1>1, <3>1, <3>2, <3>3, SessionMoves
  <2>4. QED
    BY <2>2, <2>3 DEF Offers
<1>2. ASSUME NEW c \in Calls, MemberStep(c)
      PROVE  Offers'
  <2> DEFINE u == call[c].user
  <2>1. call[c] \in Change \cup Invite /\ u \in Users /\ call[c].want # "owner"
    BY <1>2, MemberMoves DEF Change, Invite, Offers
  <2>2. \A v \in Users : invitation'[v] # None => invitation'[v].role # "owner"
    <3>1. CASE CreateInvitation(c)
      BY <2>1, <3>1 DEF CreateInvitation, Offers, Shapes
    <3>2. CASE ~CreateInvitation(c)
      BY <1>2, <3>2 DEF MemberStep, CheckMember, CheckPending, FindTarget, CountOwners, WriteChange, Offers
    <3>3. QED
      BY <3>1, <3>2
  <2>3. ASSUME NEW d \in Calls
        PROVE  /\ call'[d] \in Session => call'[d].role # "owner"
               /\ call'[d] \in Session /\ call'[d].at \in {"member", "join"} => call'[d].role # None
               /\ call'[d] \in Change \cup Invite => call'[d].want # "owner"
               /\ call'[d] \in Change /\ call'[d].op = "role" => call'[d].want # None
               /\ call'[d] \in Change => call'[d].owners = 0 \/ call'[d].owners > 1
    <3>1. CASE d # c
      BY <1>2, <3>1, MemberMoves DEF Offers
    <3>2. CASE d = c /\ call'[c] = Idle
      BY <3>2 DEF Idle, Session, Change, Invite
    <3>3. CASE d = c /\ call'[c] \in Invite
      BY <1>2, <2>1, <3>3, MemberMoves DEF Idle, Session, Change, Invite
    <3>4. CASE d = c /\ call[c] \in Change /\ call'[c] \in Change
      <4>1. call'[c] \notin Session /\ call'[c] # Idle /\ call'[c] \notin Invite
        BY <3>4 DEF Session, Change, Invite, Idle
      <4>2. /\ call'[c].op = call[c].op /\ call'[c].want = call[c].want
            /\ call'[c].owners = call[c].owners \/ call'[c].owners > 1
        BY <1>2, <4>1, MemberMoves
      <4>3. QED
        BY <2>1, <3>4, <4>1, <4>2 DEF Offers
    <3>5. QED
      BY <1>2, <3>1, <3>2, <3>3, <3>4, MemberMoves
  <2>4. QED
    BY <2>2, <2>3 DEF Offers
<1>3. ASSUME NEW c \in Calls, Fail(c)
      PROVE  Offers'
  BY <1>3, Ends DEF Fail, Offers, Idle, Session, Change, Invite
<1>4. ASSUME NEW c \in Calls, NEW u \in Users, FindUser(c, u)
      PROVE  Offers'
  <2> DEFINE x == [at |-> "upsert", user |-> u, new |-> u \notin known, role |-> None]
  <2>1. x \in Session /\ x \notin Change \cup Invite /\ x.role = None /\ x.at = "upsert"
    BY DEF Session, Change, Invite
  <2>2. /\ call'[c] = x /\ invitation' = invitation
        /\ \A d \in Calls \ {c} : call'[d] = call[d]
    BY <1>4, <2>1, Begins DEF FindUser
  <2> HIDE DEF x
  <2>3. QED
    BY <2>1, <2>2 DEF Offers
<1>5. ASSUME NEW c \in Calls, NEW b \in Users, NEW u \in Users, NEW r \in Roles,
             removeMember(c, b, u) \/ inviteMember(c, b, u, r) \/ updateMemberRole(c, b, u, r)
      PROVE  Offers'
  <2>1. ASSUME NEW x \in Change \cup Invite, Begin(c, x), x.want # "owner",
               x \in Change => (x.op = "role" => x.want # None) /\ x.owners = 0,
               invitation' = invitation
        PROVE  Offers'
    <3>1. x \notin Session
      BY DEF Session, Change, Invite
    <3>2. call'[c] = x /\ \A d \in Calls \ {c} : call'[d] = call[d]
      BY <2>1, Begins
    <3>3. QED
      BY <2>1, <3>1, <3>2 DEF Offers
  <2>2. CASE removeMember(c, b, u)
    <3> DEFINE x == [at |-> "target", op |-> "remove", user |-> u, want |-> None, owners |-> 0]
    <3>1. x \in Change /\ x.want # "owner" /\ x.op # "role" /\ x.owners = 0
      BY FS_CardinalityType DEF Change
    <3>2. Begin(c, x) /\ invitation' = invitation
      BY <2>2 DEF removeMember
    <3> HIDE DEF x
    <3>3. QED
      BY <2>1, <3>1, <3>2
  <2>3. CASE inviteMember(c, b, u, r)
    <3> DEFINE x == [at |-> "checkMember", user |-> u, want |-> r]
    <3>1. r # "owner" /\ Begin(c, x) /\ invitation' = invitation
      BY <2>3 DEF inviteMember, MayGrant, RequesterRole
    <3>2. x \in Invite /\ x \notin Change /\ x.want = r
      BY DEF Invite, Change
    <3> HIDE DEF x
    <3>3. QED
      BY <2>1, <3>1, <3>2
  <2>4. CASE updateMemberRole(c, b, u, r)
    <3> DEFINE x == [at |-> "target", op |-> "role", user |-> u, want |-> r, owners |-> 0]
    <3>1. r # "owner" /\ Begin(c, x) /\ invitation' = invitation
      BY <2>4 DEF updateMemberRole, MayGrant, RequesterRole
    <3>2. x \in Change /\ x.want = r /\ x.owners = 0 /\ r # None
      BY FS_CardinalityType DEF Change
    <3> HIDE DEF x
    <3>3. QED
      BY <2>1, <3>1, <3>2
  <2>5. QED
    BY <1>5, <2>2, <2>3, <2>4
<1>6. ASSUME NEW u \in Users, Expire(u)
      PROVE  Offers'
  <2>1. invitation[u] # None /\ invitation[u] \in Invitation
    BY <1>6 DEF Expire, Pending, Shapes
  <2>2. [invitation[u] EXCEPT !.alive = FALSE].role = invitation[u].role
    BY <2>1 DEF Invitation
  <2>3. invitation' = [invitation EXCEPT ![u] = [invitation[u] EXCEPT !.alive = FALSE]]
    BY <1>6 DEF Expire, Shapes
  <2>4. call' = call
    BY <1>6 DEF Expire
  <2>5. QED
    BY <2>1, <2>2, <2>3, <2>4 DEF Offers, Shapes
<1>7. CASE UNCHANGED vars
  BY <1>7 DEF vars, Offers
<1>8. QED
  BY <1>1, <1>2, <1>3, <1>4, <1>5, <1>6, <1>7 DEF Next

\* A membership is written by a session that joins or by a change.
LEMMA RoleWrites ==
    ASSUME Shapes, [Next]_vars
    PROVE  \/ role' = role
           \/ \E c \in Calls : CreateMembership(c) \/ WriteChange(c)
<1>1. ASSUME NEW c \in Calls, SessionStep(c) \/ MemberStep(c), ~CreateMembership(c), ~WriteChange(c)
      PROVE  role' = role
  BY <1>1 DEF SessionStep, MemberStep, UpsertUser, findUserDefaultProject, FindInvitation, FindMembership,
       MarkAccepted, CreateOrganization, CreateProject, CheckMember, CheckPending, CreateInvitation,
       FindTarget, CountOwners, people
<1>2. ASSUME NEW c \in Calls, NEW b \in Users, NEW u \in Users, NEW r \in Roles,
             inviteMember(c, b, u, r) \/ updateMemberRole(c, b, u, r)
      PROVE  role' = role
  BY <1>2 DEF inviteMember, updateMemberRole, people
<1>3. ASSUME NEW c \in Calls, Fail(c)
      PROVE  role' = role
  BY <1>3 DEF Fail, people
<1>4. ASSUME NEW c \in Calls, NEW u \in Users, FindUser(c, u)
      PROVE  role' = role
  BY <1>4 DEF FindUser, people
<1>5. ASSUME NEW c \in Calls, NEW b \in Users, NEW u \in Users, removeMember(c, b, u)
      PROVE  role' = role
  BY <1>5 DEF removeMember, people
<1>6. ASSUME NEW u \in Users, Expire(u)
      PROVE  role' = role
  BY <1>6 DEF Expire, people
<1>7. QED
  BY <1>1, <1>2, <1>3, <1>4, <1>5, <1>6 DEF Next, vars

\* What is written is no ownership, and a change leaves an owner behind or
\* acts on a count that has become stale.
LEMMA OwnersStep ==
    ASSUME Shapes, Offers, AlwaysAnOwner, [Next]_vars, IsFiniteSet(Users), None # "owner"
    PROVE  /\ \A u \in Users : role'[u] = "owner" => role[u] = "owner"
           /\ AlwaysAnOwner'
<1>1. CASE role' = role
  <2>1. blind => blind'
    <3>1. ASSUME NEW c \in Calls, WriteChange(c) PROVE blind => blind'
      BY <3>1 DEF WriteChange
    <3>2. CASE ~\E c \in Calls : WriteChange(c)
      BY <3>2 DEF Next, SessionStep, MemberStep, UpsertUser, findUserDefaultProject, FindInvitation,
       FindMembership, CreateMembership,
       MarkAccepted, CreateOrganization, CreateProject, CheckMember, CheckPending, CreateInvitation,
       FindTarget, CountOwners, Fail, FindUser, removeMember, inviteMember, updateMemberRole, Expire, vars
    <3>3. QED
      BY <3>1, <3>2
  <2>2. QED
    BY <1>1, <2>1 DEF AlwaysAnOwner, Owners
<1>2. ASSUME NEW c \in Calls, CreateMembership(c)
      PROVE  /\ \A u \in Users : role'[u] = "owner" => role[u] = "owner"
             /\ AlwaysAnOwner'
  <2> DEFINE u == call[c].user
  <2>1. call[c] \in Session /\ u \in Users /\ call[c].role # "owner"
    BY <1>2, SessionMoves DEF SessionStep, Session, Offers
  <2>2. role[u] = None /\ role' = [role EXCEPT ![u] = call[c].role] /\ blind' = blind
    BY <1>2 DEF CreateMembership
  <2>3. Owners' = Owners
    BY <2>1, <2>2 DEF Owners, Shapes
  <2>4. QED
    BY <2>1, <2>2, <2>3 DEF AlwaysAnOwner, Shapes
<1>3. ASSUME NEW c \in Calls, WriteChange(c)
      PROVE  /\ \A u \in Users : role'[u] = "owner" => role[u] = "owner"
             /\ AlwaysAnOwner'
  <2> DEFINE u == call[c].user
  <2>1. call[c] \in Change /\ u \in Users /\ call[c].want # "owner"
    BY <1>3, Handlers DEF WriteChange, At, Change, Offers
  <2>2. role' = [role EXCEPT ![u] = call[c].want] /\ blind' = (blind \/ Stale(c))
    BY <1>3 DEF WriteChange
  <2>3. Owners' = Owners \ {u}
    BY <2>1, <2>2 DEF Owners, Shapes
  <2>4. ASSUME u \notin Owners \/ blind \/ Stale(c)
        PROVE  AlwaysAnOwner'
    <3>1. CASE blind \/ Stale(c)
      BY <2>2, <3>1 DEF AlwaysAnOwner
    <3>2. CASE u \notin Owners /\ ~blind
      <4>1. Owners' = Owners /\ Owners # {}
        BY <2>3, <3>2 DEF AlwaysAnOwner
      <4>2. QED
        BY <4>1 DEF AlwaysAnOwner
    <3>3. QED
      BY <2>4, <3>1, <3>2
  <2>5. ASSUME u \in Owners, ~Stale(c)
        PROVE  AlwaysAnOwner'
    <3>1. IsFiniteSet(Owners)
      BY FS_Subset DEF Owners
    <3>2. call[c].owners = Cardinality(Owners)
      BY <2>5 DEF Stale, Owners
    <3>3. Cardinality(Owners) > 1
      <4>1. call[c].owners = 0 \/ call[c].owners > 1
        BY <2>1 DEF Offers
      <4>2. Cardinality(Owners) # 0
        BY <2>5, <3>1, FS_EmptySet
      <4>3. QED
        BY <3>2, <4>1, <4>2
    <3>4. Cardinality(Owners \ {u}) = Cardinality(Owners) - 1
      BY <2>5, <3>1, FS_RemoveElement
    <3>5. Owners \ {u} # {}
      <4>1. Cardinality(Owners) \in Nat
        BY <3>1, FS_CardinalityType
      <4>2. Cardinality(Owners \ {u}) # 0
        BY <3>3, <3>4, <4>1
      <4>3. QED
        BY <4>2, FS_EmptySet
    <3>6. Owners' # {}
      BY <2>3, <3>5
    <3>7. QED
      BY <3>6 DEF AlwaysAnOwner
  <2>6. QED
    BY <2>1, <2>2, <2>4, <2>5 DEF Shapes
<1>4. QED
  BY <1>1, <1>2, <1>3, RoleWrites

\* What has happened to a user stays so, and a membership ends by a removal.
LEMMA PastStays ==
    ASSUME Shapes, Offers, [Next]_vars, None \notin Roles, NEW u \in Users
    PROVE  /\ past[u] \subseteq past'[u]
           /\ role[u] # None => role'[u] # None \/ "removed" \in past'[u]
<1>1. past[u] \subseteq past'[u]
  <2>1. ASSUME NEW c \in Calls, SessionStep(c)
        PROVE  past[u] \subseteq past'[u]
    <3>1. call[c].user \in Users
      BY <2>1, SessionMoves DEF Session
    <3>2. QED
      BY <2>1, <3>1 DEF SessionStep, UpsertUser, findUserDefaultProject, FindInvitation, FindMembership,
           CreateMembership, MarkAccepted, CreateOrganization, CreateProject, Shapes
  <2>2. ASSUME NEW c \in Calls, MemberStep(c)
        PROVE  past[u] \subseteq past'[u]
    BY <2>2 DEF MemberStep, CheckMember, CheckPending, CreateInvitation, FindTarget, CountOwners,
         WriteChange, Shapes
  <2>3. ASSUME NEW c \in Calls, Fail(c)
        PROVE  past[u] \subseteq past'[u]
    BY <2>3 DEF Fail, Shapes
  <2>4. ASSUME NEW c \in Calls, NEW v \in Users, FindUser(c, v)
        PROVE  past[u] \subseteq past'[u]
    BY <2>4 DEF FindUser, Shapes
  <2>5. CASE past' = past
    BY <2>5
  <2>6. QED
    BY <2>1, <2>2, <2>3, <2>4, <2>5 DEF Next, vars, removeMember, inviteMember, updateMemberRole, Expire
<1>2. ASSUME NEW c \in Calls, CreateMembership(c), role[u] # None
      PROVE  role'[u] # None
  BY <1>2 DEF CreateMembership, Shapes
<1>3. ASSUME NEW c \in Calls, WriteChange(c), role[u] # None
      PROVE  role'[u] # None \/ "removed" \in past'[u]
  <2>1. call[c] \in Change /\ call[c].user \in Users
    BY <1>3, Handlers DEF WriteChange, At, Change
  <2>2. call[c].op = "remove" \/ call[c].want # None
    BY <2>1 DEF Offers, Change
  <2>3. QED
    BY <1>3, <2>1, <2>2 DEF WriteChange, Shapes
<1>4. QED
  BY <1>1, <1>2, <1>3, RoleWrites

\* An invitation stays, and a session that came to "accept" marks it.
LEMMA InvitationStays ==
    ASSUME Shapes, Joined, [Next]_vars, NEW u \in Users
    PROVE  /\ invitation[u] # None => invitation'[u] # None
           /\ invitation'[u] # None /\ invitation'[u].status = "accepted"
                => \/ invitation[u] # None /\ invitation[u].status = "accepted"
                   \/ \E c \in Calls : MarkAccepted(c) /\ call[c].user = u
<1>1. CASE invitation' = invitation
  BY <1>1
<1>2. ASSUME NEW c \in Calls, MarkAccepted(c)
      PROVE  /\ invitation[u] # None => invitation'[u] # None
             /\ u # call[c].user => invitation'[u] = invitation[u]
  <2> DEFINE v == call[c].user
             x == [invitation[v] EXCEPT !.status = "accepted"]
  <2>1. v \in Users /\ invitation[v] \in Invitation
    BY <1>2, Handlers DEF MarkAccepted, At, Session, Joined, Shapes
  <2>2. x \in Invitation
    BY <2>1 DEF Invitation
  <2>3. invitation' = [invitation EXCEPT ![v] = x]
    BY <1>2, <2>1 DEF MarkAccepted, Shapes
  <2> HIDE DEF x
  <2>4. QED
    BY <2>1, <2>2, <2>3, NoneAssumption DEF Shapes
<1>3. ASSUME NEW c \in Calls, CreateInvitation(c)
      PROVE  /\ invitation[u] # None => invitation'[u] # None
             /\ invitation'[u] = invitation[u] \/ invitation'[u].status = "pending"
  <2> DEFINE x == [status |-> "pending", role |-> call[c].want, alive |-> TRUE]
  <2>1. call[c].user \in Users
    BY <1>3, Handlers DEF CreateInvitation, At, Invite
  <2>2. invitation' = [invitation EXCEPT ![call[c].user] = x] /\ invitation[call[c].user] = None
    BY <1>3 DEF CreateInvitation
  <2>3. x.status = "pending"
    OBVIOUS
  <2> HIDE DEF x
  <2>4. QED
    BY <2>1, <2>2, <2>3 DEF Shapes
<1>4. ASSUME NEW v \in Users, Expire(v)
      PROVE  /\ invitation[u] # None => invitation'[u] # None
             /\ invitation'[u] # None => invitation'[u].status = invitation[u].status
             /\ invitation'[u] # None => invitation[u] # None
  <2> DEFINE x == [invitation[v] EXCEPT !.alive = FALSE]
  <2>1. invitation[v] \in Invitation
    BY <1>4 DEF Expire, Pending, Shapes
  <2>2. x \in Invitation /\ x.status = invitation[v].status
    BY <2>1 DEF Invitation
  <2>3. invitation' = [invitation EXCEPT ![v] = x]
    BY <1>4 DEF Expire, Shapes
  <2> HIDE DEF x
  <2>4. QED
    BY <2>1, <2>2, <2>3, NoneAssumption DEF Shapes
<1>5. ASSUME NEW c \in Calls, SessionStep(c) \/ MemberStep(c) \/ Fail(c),
             ~MarkAccepted(c), ~CreateInvitation(c)
      PROVE  invitation' = invitation
  BY <1>5 DEF SessionStep, MemberStep, UpsertUser, findUserDefaultProject, FindInvitation,
       FindMembership, CreateMembership, CreateOrganization, CreateProject, CheckMember, CheckPending,
       FindTarget, CountOwners, WriteChange, Fail
<1>6. QED
  BY <1>1, <1>2, <1>3, <1>4, <1>5 DEF Next, vars, FindUser, removeMember, inviteMember, updateMemberRole

\* Nobody marks an invitation accepted before its user was a member.
LEMMA JoinedStep ==
    ASSUME Shapes, Offers, Joined, [Next]_vars, IsFiniteSet(Users), None \notin Roles
    PROVE  Joined'
<1> DEFINE Member(u) == role[u] # None \/ "removed" \in past[u]
<1>1. \A u \in Users : Member(u) => Member(u)'
  BY PastStays
<1>2. AcceptedJoined'
  <2>1. ASSUME NEW c \in Calls, MarkAccepted(c)
        PROVE  call[c].user \in Users /\ Member(call[c].user)
    BY <2>1, Handlers DEF MarkAccepted, At, Session, Joined
  <2>2. QED
    BY <1>1, <2>1, InvitationStays DEF AcceptedJoined, Joined
<1>3. ASSUME NEW c \in Calls, call'[c] \in Session, call'[c].at \in {"member", "join", "accept"}
      PROVE  /\ invitation'[call'[c].user] # None
             /\ call'[c].at = "accept" => Member(call[c].user)'
  <2>1. CASE call'[c] = call[c]
    <3>1. call[c].user \in Users
      BY <1>3, <2>1 DEF Session
    <3>2. QED
      BY <1>1, <1>3, <2>1, <3>1, InvitationStays DEF Joined
  <2>2. CASE SessionStep(c)
    <3> DEFINE u == call[c].user
    <3>1. call[c] \in Session /\ u \in Users /\ call'[c] # Idle
      BY <1>3, <2>2, SessionMoves DEF Session, Idle
    <3>2. call'[c].user = u
      BY <2>2, <3>1, SessionMoves
    <3>3. CASE FindInvitation(c)
      <4>1. Pending(u) /\ call'[c].at = "member" /\ invitation' = invitation
        <5>1. CASE Go(c, "organization")
          BY <1>3, <3>1, <5>1, Moves DEF Places
        <5>2. CASE /\ Pending(u) /\ invitation[u].alive
                   /\ call' = [call EXCEPT ![c].at = "member", ![c].role = invitation[u].role]
          BY <3>1, <3>3, <5>2 DEF FindInvitation, Shapes, Session
        <5>3. QED
          BY <3>3, <5>1, <5>2 DEF FindInvitation
      <4>2. QED
        BY <3>2, <4>1 DEF Pending
    <3>4. CASE FindMembership(c)
      <4>1. invitation' = invitation /\ role' = role /\ invitation[u] # None
        BY <3>1, <3>4 DEF FindMembership, people, At, Joined
      <4>2. CASE role[u] = None
        <5>1. Go(c, "join")
          BY <3>4, <4>2 DEF FindMembership
        <5>2. call'[c].at = "join"
          BY <3>1, <5>1, Moves DEF Places
        <5>3. QED
          BY <3>2, <4>1, <5>2
      <4>3. CASE role[u] # None
        BY <3>2, <4>1, <4>3
      <4>4. QED
        BY <4>2, <4>3
    <3>5. CASE CreateMembership(c)
      <4>1. invitation' = invitation /\ role' = [role EXCEPT ![u] = call[c].role]
        BY <3>5 DEF CreateMembership
      <4>2. call[c].role # None /\ invitation[u] # None
        BY <3>1, <3>5 DEF CreateMembership, At, Offers, Joined
      <4>3. QED
        BY <3>1, <3>2, <4>1, <4>2 DEF Shapes
    <3>6. CASE UpsertUser(c) \/ findUserDefaultProject(c) \/ MarkAccepted(c)
      <4>1. CASE Go(c, "resolve") \/ Go(c, "invited") \/ Go(c, "organization")
        BY <1>3, <3>1, <4>1, Moves DEF Places
      <4>2. CASE End(c)
        BY <3>1, <4>2, Ends
      <4>3. QED
        BY <3>6, <4>1, <4>2 DEF UpsertUser, findUserDefaultProject, MarkAccepted
    <3>7. CASE CreateOrganization(c) \/ CreateProject(c)
      BY <1>3, <3>1, <3>7, Moves, Ends DEF CreateOrganization, CreateProject, Places
    <3>8. QED
      BY <2>2, <3>3, <3>4, <3>5, <3>6, <3>7 DEF SessionStep
  <2>3. CASE \E u \in Users : FindUser(c, u)
    BY <1>3, <2>3, Begins DEF FindUser, Begin, Shapes
  <2>4. QED
    BY <1>3, <2>1, <2>2, <2>3, Sessions
<1>4. QED
  <2>1. ASSUME NEW c \in Calls, call'[c] \in Session, call'[c].at = "accept"
        PROVE  Member(call[c].user)' /\ call'[c].user = call[c].user
    <3>1. CASE \E u \in Users : FindUser(c, u)
      BY <2>1, <3>1 DEF FindUser, Begin, Shapes
    <3>2. CASE SessionStep(c)
      BY <1>3, <2>1, <3>2, SessionMoves DEF Session, Idle
    <3>3. CASE call'[c] = call[c]
      BY <1>3, <2>1, <3>3
    <3>4. QED
      BY <2>1, <3>1, <3>2, <3>3, Sessions
  <2>2. QED
    BY <1>2, <1>3, <2>1 DEF Joined

-----------------------------------------------------------------------------
(* A user's first session                                                   *)

IsFirst(c, u) == call[c] \in Session /\ call[c].new /\ call[c].user = u
Free(u) == past[u] \cap {"raced", "homeless"} = {}

(* Only a first session goes past the user's own project.                  *)
Ordered ==
    \A c \in Calls : call[c] \in Session /\ call[c].at \notin {"upsert", "resolve"} => call[c].new

(* Nothing exists of a user before the first session makes the row.        *)
Fresh(u) ==
    u \notin known =>
        /\ role[u] = None /\ own[u] = "none"
        /\ \A c \in Calls : IsFirst(c, u) => call[c].at = "upsert"

(* Without a race or a missing project only one first session works on the *)
(* user, and it makes a membership or an organization, not both.           *)
Alone(u) ==
    Free(u) =>
        /\ \A c, d \in Calls : IsFirst(c, u) /\ IsFirst(d, u) => c = d
        /\ own[u] # "none" => role[u] = None
        /\ \A c \in Calls : IsFirst(c, u) => own[u] = "none" \/ call[c].at = "project"
        /\ \A c \in Calls : IsFirst(c, u) => role[u] = None \/ call[c].at \in {"member", "join", "accept"}

First == Ordered /\ \A u \in Users : Fresh(u) /\ Alone(u)

\* The places of a session follow each other in the handler's order.
LEMMA SessionOrder ==
    ASSUME Shapes, NEW c \in Calls, SessionStep(c), call'[c] # Idle
    PROVE  \/ UpsertUser(c) /\ call'[c].at = "resolve"
           \/ findUserDefaultProject(c) /\ call'[c].at = "invited" /\ call[c].new
           \/ FindInvitation(c) /\ call'[c].at \in {"member", "organization"}
           \/ FindMembership(c) /\ call'[c].at \in {"join", "accept"}
           \/ CreateMembership(c) /\ call'[c].at = "accept"
           \/ MarkAccepted(c) /\ call'[c].at = "organization" /\ ~project
           \/ CreateOrganization(c) /\ call'[c].at = "project"
<1>1. call[c] \in Session
  BY SessionMoves
<1>2. ~End(c)
  BY Ends
<1>3. CASE UpsertUser(c)
  BY <1>1, <1>3, Moves DEF UpsertUser, Places
<1>4. CASE findUserDefaultProject(c)
  BY <1>1, <1>2, <1>4, Moves DEF findUserDefaultProject, Places
<1>5. CASE FindInvitation(c)
  <2>1. CASE Go(c, "organization")
    BY <1>1, <1>5, <2>1, Moves DEF Places
  <2>2. CASE call' = [call EXCEPT ![c].at = "member", ![c].role = invitation[call[c].user].role]
    BY <1>1, <1>5, <2>2 DEF Shapes, Session
  <2>3. QED
    BY <1>5, <2>1, <2>2 DEF FindInvitation
<1>6. CASE FindMembership(c)
  <2>1. Go(c, "join") \/ Go(c, "accept")
    BY <1>6 DEF FindMembership
  <2>2. QED
    BY <1>1, <1>6, <2>1, Moves DEF Places
<1>7. CASE CreateMembership(c)
  BY <1>1, <1>7, Moves DEF CreateMembership, Places
<1>8. CASE MarkAccepted(c)
  BY <1>1, <1>2, <1>8, Moves DEF MarkAccepted, Places
<1>9. CASE CreateOrganization(c)
  BY <1>1, <1>9, Moves DEF CreateOrganization, Places
<1>10. CASE CreateProject(c)
  BY <1>2, <1>10 DEF CreateProject
<1>11. QED
  BY <1>3, <1>4, <1>5, <1>6, <1>7, <1>8, <1>9, <1>10 DEF SessionStep

\* A step of a session keeps what is said of first sessions.
LEMMA FirstSessionStep ==
    ASSUME Shapes, Offers, Joined, First, NEW c \in Calls, SessionStep(c), None \notin Roles
    PROVE  First'
<1> DEFINE u == call[c].user
<1>1. call[c] \in Session /\ u \in Users /\ Idle \notin Session
  BY SessionMoves DEF Session, Idle
<1>2. /\ \A d \in Calls \ {c} : call'[d] = call[d]
      /\ call'[c] = Idle \/ (call'[c] \in Session /\ call'[c].user = u /\ call'[c].new = call[c].new)
  BY SessionMoves
<1>3. \A d \in Calls, v \in Users : IsFirst(d, v)' =>
        IsFirst(d, v) /\ (d = c => v = u /\ call'[c] # Idle)
  BY <1>1, <1>2 DEF IsFirst
<1>4. SUFFICES ASSUME NEW v \in Users
              PROVE  Ordered' /\ Fresh(v)' /\ Alone(v)'
  BY <1>1 DEF First
<1>5. Ordered /\ Fresh(v) /\ Alone(v)
  BY DEF First
<1>6. Free(v)' => Free(v)
  BY <1>1 DEF Free, SessionStep, UpsertUser, findUserDefaultProject, FindInvitation, FindMembership,
     CreateMembership, MarkAccepted, CreateOrganization, CreateProject, Shapes
<1> USE <1>1, <1>2, <1>3, <1>5, <1>6 DEF Ordered, Fresh, Alone
<1>7. CASE UpsertUser(c)
  <2>1. /\ known' = known \cup {u} /\ UNCHANGED <<role, own>>
        /\ call[c].at = "upsert" /\ call'[c].at = "resolve"
    BY <1>7, Moves DEF UpsertUser, At, Places
  <2>2. QED
    BY <2>1
<1>8. CASE findUserDefaultProject(c)
  <2>1. /\ UNCHANGED <<known, role, own>> /\ call[c].at = "resolve"
        /\ call'[c] = Idle \/ (call'[c].at = "invited" /\ call[c].new)
    BY <1>8, Moves, Ends DEF findUserDefaultProject, At, Places, people
  <2>2. QED
    BY <2>1
<1>9. CASE FindInvitation(c)
  <2>1. /\ UNCHANGED <<known, role, own>> /\ call[c].at = "invited"
        /\ call'[c] = Idle \/ call'[c].at \in {"member", "organization"}
    BY <1>9, SessionOrder DEF FindInvitation, At, people, UpsertUser, findUserDefaultProject,
       FindMembership, CreateMembership, MarkAccepted, CreateOrganization
  <2>2. QED
    BY <2>1
<1>10. CASE FindMembership(c)
  <2>1. /\ UNCHANGED <<known, role, own>> /\ call[c].at = "member"
        /\ call'[c] = Idle \/ call'[c].at \in {"join", "accept"}
    <3>1. Go(c, "join") \/ Go(c, "accept")
      BY <1>10 DEF FindMembership
    <3>2. QED
      BY <1>10, <3>1, Moves DEF FindMembership, At, Places, people
  <2>2. QED
    BY <2>1
<1>11. CASE CreateMembership(c)
  <2>1. /\ UNCHANGED <<known, own>> /\ call[c].at = "join" /\ call'[c].at = "accept"
        /\ role' = [role EXCEPT ![u] = call[c].role] /\ IsFirst(c, u)
    BY <1>11, Moves DEF CreateMembership, At, Places, IsFirst
  <2>2. QED
    BY <2>1 DEF Shapes
<1>12. CASE MarkAccepted(c)
  <2>1. /\ UNCHANGED <<known, role, own>> /\ call[c].at = "accept"
        /\ call'[c] = Idle \/ (call'[c].at = "organization" /\ "homeless" \in past'[u])
    BY <1>12, Moves, Ends DEF MarkAccepted, At, Places, people, Shapes
  <2>2. CASE call'[c] = Idle \/ v # u
    BY <2>1, <2>2
  <2>3. CASE "homeless" \in past'[u] /\ v = u /\ call'[c] # Idle
    BY <2>1, <2>3 DEF Free
  <2>4. QED
    BY <2>1, <2>2, <2>3
<1>13. CASE CreateOrganization(c)
  <2>1. /\ UNCHANGED <<known, role>> /\ call[c].at = "organization" /\ call'[c].at = "project"
        /\ own' = [own EXCEPT ![u] = "organization"] /\ IsFirst(c, u)
    BY <1>13, Moves DEF CreateOrganization, At, Places, IsFirst
  <2>2. QED
    BY <2>1 DEF Shapes
<1>14. CASE CreateProject(c)
  <2>1. /\ UNCHANGED <<known, role>> /\ call[c].at = "project" /\ call'[c] = Idle
        /\ own' = [own EXCEPT ![u] = "project"] /\ IsFirst(c, u)
    BY <1>14, Ends DEF CreateProject, At, IsFirst
  <2>2. QED
    BY <2>1 DEF Shapes
<1>15. QED
  BY <1>7, <1>8, <1>9, <1>10, <1>11, <1>12, <1>13, <1>14 DEF SessionStep

\* The other steps start no first session of a known user and write no
\* membership where there is none.
LEMMA FirstStep ==
    ASSUME Shapes, Offers, Joined, First, [Next]_vars, IsFiniteSet(Users), None \notin Roles
    PROVE  First'
<1> USE DEF First, Ordered, Fresh, Alone
<1>1. ASSUME NEW c \in Calls, SessionStep(c)
      PROVE  First'
  BY <1>1, FirstSessionStep
<1>2. ASSUME UNCHANGED <<known, own>>, \A u \in Users : past[u] \subseteq past'[u],
             \A u \in Users : role[u] = None => role'[u] = None,
             \A d \in Calls : call'[d] \in Session => call'[d] = call[d]
      PROVE  First'
  <2>1. \A d \in Calls, u \in Users : IsFirst(d, u)' => IsFirst(d, u) /\ call'[d] = call[d]
    BY <1>2 DEF IsFirst
  <2>2. \A u \in Users : Free(u)' => Free(u)
    BY <1>2 DEF Free
  <2>3. Ordered'
    BY <1>2
  <2>4. ASSUME NEW u \in Users
        PROVE  Fresh(u)'
    BY <1>2, <2>1
  <2>5. ASSUME NEW u \in Users
        PROVE  Alone(u)'
    BY <1>2, <2>1, <2>2
  <2>6. QED
    BY <2>3, <2>4, <2>5
<1>3. \A u \in Users : past[u] \subseteq past'[u]
  BY PastStays
<1>4. ASSUME NEW c \in Calls, MemberStep(c)
      PROVE  First'
  <2>1. \A d \in Calls : call'[d] \in Session => call'[d] = call[d]
    BY <1>4, MemberMoves DEF Session, Change, Invite, Idle
  <2>2. UNCHANGED <<known, own>>
    BY <1>4 DEF MemberStep, CheckMember, CheckPending, CreateInvitation, FindTarget, CountOwners,
       WriteChange, people
  <2>3. \A u \in Users : role[u] = None => role'[u] = None
    BY <1>4 DEF MemberStep, CheckMember, CheckPending, CreateInvitation, FindTarget, CountOwners,
       WriteChange, people, Shapes
  <2>4. QED
    BY <1>2, <1>3, <2>1, <2>2, <2>3
<1>5. ASSUME NEW c \in Calls, Fail(c)
      PROVE  First'
  <2>1. \A d \in Calls : call'[d] \in Session => call'[d] = call[d]
    BY <1>5, Ends DEF Fail, Session, Idle
  <2>2. QED
    BY <1>2, <1>3, <1>5, <2>1 DEF Fail, people
<1>6. ASSUME NEW c \in Calls, NEW b \in Users, NEW u \in Users, NEW r,
             removeMember(c, b, u) \/ inviteMember(c, b, u, r) \/ updateMemberRole(c, b, u, r)
      PROVE  First'
  <2>1. \A d \in Calls : call'[d] \in Session => call'[d] = call[d]
    BY <1>6 DEF removeMember, inviteMember, updateMemberRole, Begin, Shapes, Session
  <2>2. QED
    BY <1>2, <1>3, <1>6, <2>1 DEF removeMember, inviteMember, updateMemberRole, people
<1>7. CASE UNCHANGED <<people, call>>
  BY <1>2, <1>3, <1>7 DEF people
<1>8. ASSUME NEW c \in Calls, NEW u \in Users, FindUser(c, u)
      PROVE  First'
  <2> DEFINE x == [at |-> "upsert", user |-> u, new |-> u \notin known, role |-> None]
  <2>1. x \in Session /\ x.at = "upsert" /\ x.user = u /\ x.new = (u \notin known)
    BY DEF Session
  <2>2. /\ call[c] = Idle /\ call'[c] = x /\ \A d \in Calls \ {c} : call'[d] = call[d]
        /\ UNCHANGED <<known, role, own>>
    BY <1>8, <2>1, Begins DEF FindUser, people
  <2>3. \A d \in Calls, v \in Users : IsFirst(d, v)' =>
          \/ d # c /\ IsFirst(d, v) /\ call'[d] = call[d]
          \/ d = c /\ v = u /\ u \notin known
    <3>1. ASSUME NEW d \in Calls \ {c}, NEW v \in Users
          PROVE  IsFirst(d, v)' => IsFirst(d, v) /\ call'[d] = call[d]
      BY <2>2 DEF IsFirst
    <3>2. ASSUME NEW v \in Users, IsFirst(c, v)'
          PROVE  v = u /\ u \notin known
      BY <2>1, <2>2, <3>2 DEF IsFirst
    <3>3. QED
      BY <3>1, <3>2
  <2>4. u \notin known /\ (\E d \in Calls : IsFirst(d, u)) => ~Free(u)'
    <3>1. ASSUME u \notin known, NEW d \in Calls, IsFirst(d, u)
          PROVE  d \in FirstSessions(u)
      BY <3>1, Handlers DEF FirstSessions, InFirstSession, IsFirst, Session, Idle
    <3>2. QED
      BY <1>8, <3>1 DEF FindUser, Free, Shapes
  <2>5. \A v \in Users : Free(v)' => Free(v)
    BY <1>3 DEF Free
  <2> HIDE DEF x
  <2>6. Ordered'
    BY <2>1, <2>2
  <2>7. ASSUME NEW v \in Users
        PROVE  Fresh(v)'
    BY <2>1, <2>2, <2>3
  <2>8. ASSUME NEW v \in Users
        PROVE  Alone(v)'
    BY <2>1, <2>2, <2>3, <2>4, <2>5
  <2>9. QED
    BY <2>6, <2>7, <2>8
<1>9. QED
  BY <1>1, <1>4, <1>5, <1>6, <1>7, <1>8 DEF Next, vars, people, Expire

-----------------------------------------------------------------------------
(* A user's home                                                            *)

Clean(u) == past[u] \cap {"failed", "removed", "homeless"} = {} /\ u \notin Seeded

(* The first session of a user at a place.                                 *)
FirstAt(u, at) == \E c \in Calls : IsFirst(c, u) /\ call[c].at = at

(* Unless the user was removed, every membership is in the list.           *)
Listed(u) ==
    "removed" \notin past[u] =>
        /\ orgs[u] \in Seq({"team", "own"})
        /\ role[u] # None \/ own[u] # "none" => orgs[u] # <<>>

(* What the oldest membership lacks for a home, a first session still makes. *)
Homed(u) ==
    Clean(u) =>
        /\ u \in known /\ orgs[u] = <<>> => \E c \in Calls : IsFirst(c, u)
        /\ orgs[u] # <<>> /\ orgs[u][1] = "own" => own[u] = "project" \/ FirstAt(u, "project")
        /\ orgs[u] # <<>> /\ orgs[u][1] = "team" => project \/ FirstAt(u, "accept")

Home ==
    /\ DOMAIN orgs = Users
    /\ \A c \in Calls : call[c] \in Session /\ call[c].at = "project" => own[call[c].user] # "none"
    /\ \A c \in Calls : call[c] \in Session /\ ~call[c].new => call[c].user \in known
    /\ \A u \in Users : Listed(u) /\ Homed(u)

\* A step that neither moves a session nor touches what the sessions write keeps
\* every home: a first session it ends has failed, a membership it ends is removed.
LEMMA HomeKept ==
    ASSUME Shapes, First, Home, UNCHANGED <<known, own, project>>, DOMAIN orgs' = Users,
           \A u \in Users : past[u] \subseteq past'[u],
           \A u \in Users : "removed" \notin past'[u] =>
             orgs'[u] = orgs[u] /\ (role[u] = None => role'[u] = None),
           \A d \in Calls : call'[d] \in Session =>
             \/ call'[d] = call[d]
             \/ call'[d].at = "upsert" /\ (~call'[d].new => call'[d].user \in known),
           \A d \in Calls, u \in Users : IsFirst(d, u) /\ u \in known /\ "failed" \notin past'[u] =>
             call'[d] = call[d]
    PROVE  Home'
<1>1. /\ \A c \in Calls : call'[c] \in Session /\ call'[c].at = "project" => own'[call'[c].user] # "none"
      /\ \A c \in Calls : call'[c] \in Session /\ ~call'[c].new => call'[c].user \in known'
  BY DEF Home
<1>2. ASSUME NEW u \in Users
      PROVE  Listed(u)'
  BY DEF Home, Listed
<1>3. ASSUME NEW u \in Users
      PROVE  Homed(u)'
  <2>1. SUFFICES ASSUME Clean(u)'
                 PROVE  /\ u \in known /\ orgs'[u] = <<>> => \E c \in Calls : IsFirst(c, u)'
                        /\ orgs'[u] # <<>> /\ orgs'[u][1] = "own" =>
                             own[u] = "project" \/ FirstAt(u, "project")'
                        /\ orgs'[u] # <<>> /\ orgs'[u][1] = "team" => project \/ FirstAt(u, "accept")'
    BY DEF Homed
  <2>2. Clean(u) /\ orgs'[u] = orgs[u] /\ "failed" \notin past'[u]
    BY <2>1 DEF Clean
  <2>3. u \in known => \A d \in Calls : IsFirst(d, u) => IsFirst(d, u)' /\ call'[d] = call[d]
    BY <2>2 DEF IsFirst
  <2>4. \A at \in {"project", "accept"} : FirstAt(u, at) => u \in known
    BY DEF FirstAt, First, Fresh
  <2>5. \A at \in {"project", "accept"} : FirstAt(u, at) => FirstAt(u, at)'
    BY <2>3, <2>4 DEF FirstAt
  <2>6. QED
    BY <2>2, <2>3, <2>5 DEF Home, Homed
<1>4. QED
  BY <1>1, <1>2, <1>3 DEF Home

\* A session's step keeps the homes: what it leaves, it has made.
LEMMA HomeSession ==
    ASSUME Shapes, Joined, First, Home, NEW c \in Calls, SessionStep(c)
    PROVE  Home'
<1>1. PICK u \in Users : call[c] \in Session /\ u = call[c].user /\ Idle \notin Session
  BY SessionMoves DEF Session, Idle
<1>2. /\ \A d \in Calls \ {c} : call'[d] = call[d]
      /\ call'[c] = Idle \/ (call'[c] \in Session /\ call'[c].user = u /\ call'[c].new = call[c].new)
  BY <1>1, SessionMoves
<1>3. /\ \A d \in Calls \ {c}, v \in Users : IsFirst(d, v)' <=> IsFirst(d, v)
      /\ \A v \in Users : IsFirst(c, v) => v = u
      /\ call'[c] # Idle => (IsFirst(c, u)' <=> IsFirst(c, u))
      /\ IsFirst(c, u) <=> call[c].new
  BY <1>1, <1>2 DEF IsFirst
<1>4. \A v \in Users, at \in {"project", "accept"} :
        FirstAt(v, at) => FirstAt(v, at)' \/ (v = u /\ call[c].at = at)
  <2>1. ASSUME NEW v \in Users, NEW at \in {"project", "accept"}, NEW d \in Calls,
               IsFirst(d, v), call[d].at = at
        PROVE  FirstAt(v, at)' \/ (v = u /\ call[c].at = at)
    BY <1>2, <1>3, <2>1 DEF FirstAt
  <2>2. QED
    BY <2>1 DEF FirstAt
<1>5. \A v \in Users : (\E d \in Calls : IsFirst(d, v)) => (\E d \in Calls : IsFirst(d, v)') \/ (v = u /\ call'[c] = Idle)
  BY <1>3
<1>6. Shapes /\ Listed(u) /\ Homed(u) /\ DOMAIN orgs = Users /\ project' = project
  BY <1>1 DEF Home, SessionStep, UpsertUser, findUserDefaultProject, FindInvitation, FindMembership,
     CreateMembership, MarkAccepted, CreateOrganization, CreateProject
<1>7. \A c1 \in Calls : call[c1] \in Session /\ ~call[c1].new => call[c1].user \in known
  BY DEF Home
<1>8. call[c].at \notin {"upsert", "resolve"} => call[c].new
  BY <1>1 DEF First, Ordered
\* It is enough to look at the user, and at what the session's next place asks for.
<1>9. ASSUME DOMAIN orgs' = Users, Listed(u)', Homed(u)',
             \A v \in Users \ {u} : /\ orgs'[v] = orgs[v] /\ own'[v] = own[v] /\ role'[v] = role[v]
                                    /\ past'[v] = past[v] /\ (v \in known' <=> v \in known),
             known \subseteq known', own[u] # "none" => own'[u] # "none",
             call'[c] # Idle /\ call'[c].at = "project" => own'[u] # "none"
      PROVE  Home'
  <2>1. ASSUME NEW d \in Calls, call'[d] \in Session
        PROVE  /\ call'[d].at = "project" => own'[call'[d].user] # "none"
               /\ ~call'[d].new => call'[d].user \in known'
    <3>1. CASE d = c
      BY <1>1, <1>2, <1>7, <1>9, <2>1, <3>1
    <3>2. CASE d # c
      <4>1. call'[d] = call[d] /\ call[d].user \in Users
        BY <1>2, <2>1, <3>2 DEF Session
      <4>2. QED
        BY <1>7, <1>9, <2>1, <4>1 DEF Home
    <3>3. QED
      BY <3>1, <3>2
  <2>2. ASSUME NEW v \in Users \ {u}
        PROVE  Listed(v)'
    BY <1>9 DEF Home, Listed
  <2>3. ASSUME NEW v \in Users \ {u}
        PROVE  Homed(v)'
    <3>1. \A at \in {"project", "accept"} : FirstAt(v, at) => FirstAt(v, at)'
      BY <1>4
    <3>2. (\E d \in Calls : IsFirst(d, v)) => \E d \in Calls : IsFirst(d, v)'
      BY <1>5
    <3>3. Clean(v)' => Clean(v)
      BY <1>9 DEF Clean
    <3>4. QED
      BY <1>6, <1>9, <3>1, <3>2, <3>3 DEF Home, Homed
  <2>4. QED
    BY <1>9, <2>1, <2>2, <2>3 DEF Home
<1>10. CASE UpsertUser(c)
  <2>1. /\ known' = known \cup {u} /\ UNCHANGED <<role, orgs, own, past>>
        /\ call[c].at = "upsert" /\ call'[c].at = "resolve" /\ call'[c] # Idle
    BY <1>1, <1>10, Moves DEF UpsertUser, At, Places
  <2>2. \A at \in {"project", "accept"} : FirstAt(u, at) => FirstAt(u, at)'
    BY <1>4, <2>1
  <2>3. (\E d \in Calls : IsFirst(d, u)) => \E d \in Calls : IsFirst(d, u)'
    BY <1>5, <2>1
  <2>4. u \notin known => IsFirst(c, u)
    BY <1>1, <1>3, <1>7
  <2>5. Homed(u)'
    BY <1>6, <2>1, <2>2, <2>3, <2>4 DEF Homed, Clean
  <2>6. Listed(u)'
    BY <1>6, <2>1 DEF Listed
  <2>7. QED
    BY <1>6, <1>9, <2>1, <2>5, <2>6
<1>11. CASE findUserDefaultProject(c) \/ FindInvitation(c) \/ FindMembership(c)
  <2>1. /\ UNCHANGED <<known, role, orgs, own, past>>
        /\ call[c].at \in {"resolve", "invited", "member"}
        /\ call'[c] = Idle \/ call'[c].at # "project"
        /\ call'[c] = Idle => ~call[c].new \/ orgs[u] # <<>>
    <3>1. CASE findUserDefaultProject(c)
      <4>1. call'[c] = Idle \/ call'[c].at = "invited"
        BY <1>1, <3>1, Moves, Ends DEF findUserDefaultProject, Places
      <4>2. call'[c] = Idle => ~call[c].new \/ HasHome(u)
        BY <1>1, <3>1, Moves DEF findUserDefaultProject, Places
      <4>3. QED
        BY <3>1, <4>1, <4>2 DEF findUserDefaultProject, At, people, HasHome
    <3>2. CASE FindInvitation(c)
      <4>1. call'[c] # Idle /\ call'[c].at \in {"member", "organization"}
        <5>1. CASE Go(c, "organization")
          BY <1>1, <5>1, Moves DEF Places
        <5>2. CASE call' = [call EXCEPT ![c].at = "member", ![c].role = invitation[call[c].user].role]
          <6>1. call[c] \in Session /\ DOMAIN call = Calls
            BY <1>1 DEF Shapes
          <6>2. call'[c] = [call[c] EXCEPT !.at = "member", !.role = invitation[call[c].user].role]
            BY <5>2, <6>1
          <6>3. call'[c].at = "member"
            BY <6>1, <6>2 DEF Session
          <6>4. QED
            BY <6>3 DEF Idle
        <5>3. QED
          BY <3>2, <5>1, <5>2 DEF FindInvitation
      <4>2. QED
        BY <3>2, <4>1 DEF FindInvitation, At, people
    <3>3. CASE FindMembership(c)
      <4>1. Go(c, "join") \/ Go(c, "accept")
        BY <3>3 DEF FindMembership
      <4>2. call'[c] # Idle /\ call'[c].at \in {"join", "accept"}
        BY <1>1, <4>1, Moves DEF Places
      <4>3. QED
        BY <3>3, <4>2 DEF FindMembership, At, people
    <3>4. QED
      BY <1>11, <3>1, <3>2, <3>3
  <2>2. \A at \in {"project", "accept"} : FirstAt(u, at) => FirstAt(u, at)'
    BY <1>4, <2>1
  <2>3. (\E d \in Calls : IsFirst(d, u)) => (\E d \in Calls : IsFirst(d, u)') \/ orgs[u] # <<>>
    BY <1>3, <2>1
  <2>4. Homed(u)'
    BY <1>6, <2>1, <2>2, <2>3 DEF Homed, Clean
  <2>5. Listed(u)'
    BY <1>6, <2>1 DEF Listed
  <2>6. QED
    BY <1>6, <1>9, <2>1, <2>4, <2>5
<1>12. CASE CreateMembership(c)
  <2>1. /\ UNCHANGED <<known, own, past>> /\ call[c].at = "join" /\ call'[c].at = "accept" /\ call'[c] # Idle
        /\ orgs' = [orgs EXCEPT ![u] = Append(@, "team")]
        /\ \A v \in Users \ {u} : role'[v] = role[v]
    BY <1>1, <1>12, Moves DEF CreateMembership, At, Places, Shapes
  <2>2. /\ DOMAIN orgs' = Users /\ orgs'[u] = Append(orgs[u], "team")
        /\ \A v \in Users \ {u} : orgs'[v] = orgs[v]
    BY <1>6, <2>1
  <2>3. orgs[u] \in Seq({"team", "own"}) =>
          /\ orgs'[u] \in Seq({"team", "own"}) /\ orgs'[u] # <<>>
          /\ orgs[u] = <<>> => orgs'[u][1] = "team"
          /\ orgs[u] # <<>> => orgs'[u][1] = orgs[u][1]
    BY <2>2
  <2>4. FirstAt(u, "accept")' /\ (FirstAt(u, "project") => FirstAt(u, "project")')
    BY <1>3, <1>4, <1>8, <2>1 DEF FirstAt
  <2>5. Homed(u)'
    BY <1>6, <2>1, <2>3, <2>4 DEF Homed, Listed, Clean
  <2>6. Listed(u)'
    BY <1>6, <2>1, <2>3 DEF Listed
  <2>7. QED
    BY <1>9, <2>1, <2>2, <2>5, <2>6
<1>13. CASE MarkAccepted(c)
  <2>1. /\ UNCHANGED <<known, role, orgs, own>> /\ call[c].at = "accept"
        /\ call'[c] = Idle \/ call'[c].at = "organization"
        /\ \A v \in Users \ {u} : past'[v] = past[v]
        /\ past[u] \subseteq past'[u]
        /\ ~project => "homeless" \in past'[u]
    BY <1>1, <1>13, Moves, Ends DEF MarkAccepted, At, Places, people, Shapes
  <2>2. role[u] # None \/ "removed" \in past[u]
    BY <1>1, <2>1 DEF Joined
  <2>3. FirstAt(u, "project") => FirstAt(u, "project")'
    BY <1>4, <2>1
  <2>4. Homed(u)'
    <3>1. SUFFICES ASSUME Clean(u)'
                   PROVE  orgs[u] # <<>> /\ project /\ Clean(u)
      BY <1>6, <2>1, <2>3 DEF Homed
    <3>2. QED
      BY <1>6, <2>1, <2>2, <3>1 DEF Clean, Listed
  <2>5. Listed(u)'
    BY <1>6, <2>1 DEF Listed
  <2>6. QED
    BY <1>6, <1>9, <2>1, <2>4, <2>5
<1>14. CASE CreateOrganization(c)
  <2>1. /\ UNCHANGED <<known, role, past>> /\ call[c].at = "organization"
        /\ call'[c].at = "project" /\ call'[c] # Idle
        /\ own' = [own EXCEPT ![u] = "organization"]
        /\ orgs' = [orgs EXCEPT ![u] = Append(@, "own")]
    BY <1>1, <1>14, Moves DEF CreateOrganization, At, Places
  <2>2. /\ DOMAIN orgs' = Users /\ orgs'[u] = Append(orgs[u], "own")
        /\ \A v \in Users \ {u} : orgs'[v] = orgs[v] /\ own'[v] = own[v]
        /\ own'[u] = "organization"
    BY <1>6, <2>1 DEF Shapes
  <2>3. orgs[u] \in Seq({"team", "own"}) =>
          /\ orgs'[u] \in Seq({"team", "own"}) /\ orgs'[u] # <<>>
          /\ orgs[u] = <<>> => orgs'[u][1] = "own"
          /\ orgs[u] # <<>> => orgs'[u][1] = orgs[u][1]
    BY <2>2
  <2>4. FirstAt(u, "project")' /\ (FirstAt(u, "accept") => FirstAt(u, "accept")')
    BY <1>3, <1>4, <1>8, <2>1 DEF FirstAt
  <2>5. Homed(u)'
    BY <1>6, <2>1, <2>3, <2>4 DEF Homed, Listed, Clean
  <2>6. Listed(u)'
    BY <1>6, <2>1, <2>3 DEF Listed
  <2>7. QED
    BY <1>9, <2>1, <2>2, <2>5, <2>6
<1>15. CASE CreateProject(c)
  <2>1. /\ UNCHANGED <<known, role, orgs, past>> /\ call[c].at = "project" /\ call'[c] = Idle
        /\ own' = [own EXCEPT ![u] = "project"] /\ own[u] # "none"
    BY <1>1, <1>15, Ends DEF CreateProject, At, Home
  <2>2. own'[u] = "project" /\ \A v \in Users \ {u} : own'[v] = own[v]
    BY <1>1, <2>1 DEF Shapes
  <2>3. FirstAt(u, "accept") => FirstAt(u, "accept")'
    BY <1>4, <2>1
  <2>4. Homed(u)'
    BY <1>6, <2>1, <2>2, <2>3 DEF Homed, Listed, Clean
  <2>5. Listed(u)'
    BY <1>6, <2>1, <2>2 DEF Listed
  <2>6. QED
    BY <1>6, <1>9, <2>1, <2>2, <2>4, <2>5
<1>16. QED
  BY <1>10, <1>11, <1>12, <1>13, <1>14, <1>15 DEF SessionStep

\* Every step keeps the homes.
LEMMA HomeStep ==
    ASSUME Shapes, Offers, Joined, First, Home, [Next]_vars, IsFiniteSet(Users), None \notin Roles
    PROVE  Home'
<1>1. \A u \in Users : past[u] \subseteq past'[u]
  BY PastStays
<1>2. DOMAIN orgs = Users /\ Idle \notin Session
  BY DEF Home, Idle, Session
<1>3. ASSUME NEW c \in Calls, MemberStep(c)
      PROVE  Home'
  <2>1. /\ \A d \in Calls \ {c} : call'[d] = call[d]
        /\ call[c] \notin Session /\ call'[c] \notin Session
    BY <1>3, MemberMoves DEF Session, Change, Invite, Idle
  <2>2. UNCHANGED <<known, own, project>>
    BY <1>3 DEF MemberStep, CheckMember, CheckPending, CreateInvitation, FindTarget, CountOwners,
       WriteChange, people
  <2>3. DOMAIN orgs' = Users /\ \A u \in Users : "removed" \notin past'[u] =>
          orgs'[u] = orgs[u] /\ (role[u] = None => role'[u] = None)
    <3>1. CASE WriteChange(c)
      <4>1. call[c] \in Change
        BY <3>1, Handlers DEF WriteChange, At
      <4>2. PICK v \in Users : v = call[c].user
        BY <4>1 DEF Change
      <4>3. role[v] # None /\ role' = [role EXCEPT ![v] = call[c].want]
        BY <3>1, <4>2 DEF WriteChange
      <4>4. CASE call[c].op = "remove"
        <5>1. /\ orgs' = [orgs EXCEPT ![v] = SelectSeq(@, LAMBDA o : o # "team")]
              /\ past' = [past EXCEPT ![v] = @ \cup {"removed"}]
          BY <3>1, <4>2, <4>4 DEF WriteChange
        <5>2. DOMAIN orgs' = Users /\ \A u \in Users \ {v} : orgs'[u] = orgs[u]
          BY <1>2, <5>1
        <5>3. "removed" \in past'[v] /\ \A u \in Users \ {v} : role'[u] = role[u]
          BY <4>3, <5>1 DEF Shapes
        <5>4. QED
          BY <5>2, <5>3
      <4>5. CASE call[c].op # "remove"
        BY <1>2, <3>1, <4>3, <4>5 DEF WriteChange, Shapes
      <4>6. QED
        BY <4>4, <4>5
    <3>2. CASE ~WriteChange(c)
      BY <1>2, <1>3, <3>2 DEF MemberStep, CheckMember, CheckPending, CreateInvitation, FindTarget,
         CountOwners, people
    <3>3. QED
      BY <3>1, <3>2
  <2>4. \A d \in Calls : call'[d] \in Session => call'[d] = call[d]
    BY <2>1
  <2>5. \A d \in Calls, u \in Users : IsFirst(d, u) => call'[d] = call[d]
    BY <2>1 DEF IsFirst
  <2>6. QED
    BY <1>1, <2>2, <2>3, <2>4, <2>5, HomeKept
<1>4. ASSUME NEW c \in Calls, Fail(c)
      PROVE  Home'
  <2>1. /\ \A d \in Calls \ {c} : call'[d] = call[d]
        /\ call'[c] = Idle
    BY <1>4, Ends DEF Fail
  <2>2. \A u \in Users : IsFirst(c, u) => InFirstSession(c, u)
    BY <1>2 DEF IsFirst, InFirstSession, Session
  <2>3. \A d \in Calls, u \in Users : IsFirst(d, u) /\ u \in known /\ "failed" \notin past'[u] =>
          call'[d] = call[d]
    BY <1>4, <2>1, <2>2 DEF Fail
  <2>4. /\ UNCHANGED <<known, own, project, orgs, role>>
        /\ \A d \in Calls : call'[d] \in Session => call'[d] = call[d]
    BY <1>2, <1>4, <2>1 DEF Fail, people
  <2>5. QED
    BY <1>1, <1>2, <2>3, <2>4, HomeKept
<1>5. ASSUME NEW c \in Calls, NEW x \in Session \cup Change \cup Invite, Begin(c, x),
             UNCHANGED <<people, project>>,
             x \in Session => x.at = "upsert" /\ (~x.new => x.user \in known)
      PROVE  Home'
  <2>1. call[c] = Idle /\ call'[c] = x /\ \A d \in Calls \ {c} : call'[d] = call[d]
    BY <1>5, Begins
  <2>2. \A d \in Calls, u \in Users : IsFirst(d, u) => call'[d] = call[d]
    BY <1>2, <2>1 DEF IsFirst
  <2>3. \A d \in Calls : call'[d] \in Session =>
          \/ call'[d] = call[d]
          \/ call'[d].at = "upsert" /\ (~call'[d].new => call'[d].user \in known)
    BY <1>5, <2>1
  <2>4. UNCHANGED <<known, own, project, orgs, role>>
    BY <1>5 DEF people
  <2>5. QED
    BY <1>1, <1>2, <2>2, <2>3, <2>4, HomeKept
<1>6. ASSUME NEW c \in Calls, NEW b \in Users, NEW u \in Users, NEW r \in Roles,
             removeMember(c, b, u) \/ inviteMember(c, b, u, r) \/ updateMemberRole(c, b, u, r)
      PROVE  Home'
  <2>1. PICK x \in Change \cup Invite : Begin(c, x)
    <3>1. /\ [at |-> "target", op |-> "remove", user |-> u, want |-> None, owners |-> 0] \in Change
          /\ [at |-> "target", op |-> "role", user |-> u, want |-> r, owners |-> 0] \in Change
          /\ [at |-> "checkMember", user |-> u, want |-> r] \in Invite
      BY FS_CardinalityType DEF Change, Invite
    <3>2. QED
      BY <1>6, <3>1 DEF removeMember, inviteMember, updateMemberRole
  <2>2. x \notin Session
    BY <2>1 DEF Session, Change, Invite
  <2>3. QED
    BY <1>5, <1>6, <2>1, <2>2 DEF removeMember, inviteMember, updateMemberRole
<1>7. ASSUME NEW c \in Calls, NEW u \in Users, FindUser(c, u)
      PROVE  Home'
  <2> DEFINE x == [at |-> "upsert", user |-> u, new |-> u \notin known, role |-> None]
  <2>1. x \in Session /\ x.at = "upsert" /\ x.user = u /\ x.new = (u \notin known)
    BY DEF Session
  <2>2. Begin(c, x) /\ UNCHANGED <<people, project>>
    BY <1>7 DEF FindUser
  <2> HIDE DEF x
  <2>3. QED
    BY <1>5, <2>1, <2>2
<1>8. CASE UNCHANGED <<people, project, call>>
  <2>1. /\ UNCHANGED <<known, own, project, orgs, role>> /\ DOMAIN orgs' = Users
    BY <1>2, <1>8 DEF people
  <2>2. \A u \in Users : "removed" \notin past'[u] =>
          orgs'[u] = orgs[u] /\ (role[u] = None => role'[u] = None)
    BY <2>1
  <2>3. \A d \in Calls : call'[d] = call[d]
    BY <1>8
  <2>4. /\ \A d \in Calls : call'[d] \in Session => call'[d] = call[d]
        /\ \A d \in Calls, u \in Users : IsFirst(d, u) => call'[d] = call[d]
    BY <2>3
  <2>5. QED
    BY <1>1, <2>1, <2>2, <2>4, HomeKept
<1>9. CASE UNCHANGED vars
  BY <1>8, <1>9 DEF vars, people
<1>10. ASSUME NEW c \in Calls, SessionStep(c)
       PROVE  Home'
  BY <1>10, HomeSession
<1>11. ASSUME NEW u \in Users, Expire(u)
       PROVE  Home'
  BY <1>8, <1>11 DEF Expire
<1>12. CASE Next
  <2>1. ASSUME NEW c \in Calls, SessionStep(c) \/ MemberStep(c) \/ Fail(c)
        PROVE  Home'
    BY <1>3, <1>4, <1>10, <2>1
  <2>2. ASSUME NEW c \in Calls, NEW b \in Users, NEW u \in Users,
               \/ removeMember(c, b, u)
               \/ \E r \in Roles : inviteMember(c, b, u, r) \/ updateMemberRole(c, b, u, r)
        PROVE  Home'
    BY <1>6, <2>2, MembershipAssumption
  <2>3. QED
    BY <1>7, <1>11, <1>12, <2>1, <2>2 DEF Next
<1>13. QED
  BY <1>9, <1>12

-----------------------------------------------------------------------------
(* The theorems                                                             *)

Inv == Shapes /\ Offers /\ Joined /\ AlwaysAnOwner /\ First /\ Home

\* The strengthened invariant holds of every behaviour.
LEMMA Invariance == Spec => []Inv
<1> USE MembershipAssumption
<1>1. Init => Inv
  <2> SUFFICES ASSUME Init PROVE Inv
    OBVIOUS
  <2>1. Shapes
    BY DEF Init, Shapes
  <2>2. \A c \in Calls : call[c] \notin Session \cup Change \cup Invite
    BY DEF Init, Idle, Session, Change, Invite
  <2>3. Offers /\ Joined
    BY <2>2 DEF Init, Offers, Joined, AcceptedJoined
  <2>4. AlwaysAnOwner
    BY DEF Init, AlwaysAnOwner, Owners
  <2>5. First
    BY <2>2 DEF Init, First, Ordered, Fresh, Alone, IsFirst
  <2>6. Home
    <3>1. \A u \in Users : orgs[u] = <<"team">> \/ (orgs[u] = <<>> /\ role[u] = None)
      BY DEF Init
    <3>2. \A u \in Users : u \in Seeded \/ u \notin known
      BY DEF Init
    <3>3. \A u \in Users : Listed(u)
      <4>1. <<>> \in Seq({"team", "own"}) /\ <<"team">> \in Seq({"team", "own"})
            /\ <<"team">> # <<>>
        OBVIOUS
      <4>2. \A u \in Users : own[u] = "none"
        BY DEF Init
      <4>3. QED
        BY <3>1, <4>1, <4>2 DEF Listed
    <3>4. \A u \in Users : Homed(u)
      BY DEF Init, Homed, Clean
    <3>5. QED
      BY <2>2, <3>3, <3>4 DEF Init, Home
  <2>7. QED
    BY <2>1, <2>3, <2>4, <2>5, <2>6 DEF Inv
<1>2. Inv /\ [Next]_vars => Inv'
  <2> SUFFICES ASSUME Inv, [Next]_vars PROVE Inv'
    OBVIOUS
  <2> USE DEF Inv
  <2>1. Shapes'
    BY Typing
  <2>2. Offers'
    BY <2>1, OffersStep
  <2>3. Joined'
    BY JoinedStep
  <2>4. AlwaysAnOwner'
    BY OwnersStep
  <2>5. First'
    BY FirstStep
  <2>6. Home'
    BY HomeStep
  <2>7. QED
    BY <2>1, <2>2, <2>3, <2>4, <2>5, <2>6
<1>3. QED
  BY <1>1, <1>2, PTL DEF Spec

\* member-service.ts "organization must have at least one owner": only a change
\* that acts on a stale count can take the last owner away.
THEOREM OwnerRemains == Spec => []AlwaysAnOwner
<1>1. Inv => AlwaysAnOwner
  BY DEF Inv
<1>2. QED
  BY <1>1, Invariance, PTL

\* No call of the members routes, and no invitation, makes anybody an owner.
THEOREM NobodyBecomesOwner == Spec => NoNewOwners
<1>1. Inv /\ [Next]_vars => [\A u \in Users : role'[u] = "owner" => role[u] = "owner"]_vars
  BY OwnersStep, MembershipAssumption DEF Inv
<1>2. QED
  BY <1>1, Invariance, PTL DEF Spec, NoNewOwners

\* acceptPendingInvitationForEmail marks an invitation only after its user has
\* become a member, who may have been removed since.
THEOREM AcceptanceFollowsMembership == Spec => []AcceptedJoined
<1>1. Inv => AcceptedJoined
  BY DEF Inv, Joined
<1>2. QED
  BY <1>1, Invariance, PTL

\* An invited member with an organization of their own had two first sessions
\* at once, or was invited to a Team without a project.
THEOREM BootstrapIsExplained == Spec => []BootstrapExplained
<1>1. Inv => BootstrapExplained
  BY DEF Inv, First, Alone, Free, BootstrapExplained
<1>2. QED
  BY <1>1, Invariance, PTL

\* GET /auth/session: whom no first session is working for any more, and who was
\* not removed, let down by a failure or invited to a Team without a project,
\* has a project in the oldest of their organizations.
THEOREM HomeIsExplained == Spec => []HomeExplained
<1>1. ASSUME Inv, NEW u \in known
      PROVE  \/ HasHome(u) \/ FirstSessions(u) # {} \/ u \in Seeded
             \/ past[u] \cap {"failed", "removed", "homeless"} # {}
  <2>1. SUFFICES ASSUME Clean(u), ~\E c \in Calls : IsFirst(c, u)
                 PROVE  HasHome(u)
    <3>1. ASSUME NEW c \in Calls, IsFirst(c, u)
          PROVE  c \in FirstSessions(u)
      BY <3>1, Handlers DEF FirstSessions, InFirstSession, IsFirst, Session, Idle
    <3>2. QED
      BY <3>1 DEF Clean
  <2>2. u \in Users /\ orgs[u] \in Seq({"team", "own"}) /\ Homed(u)
    BY <1>1, <2>1 DEF Inv, Shapes, Home, Listed, Clean
  <2>3. orgs[u] # <<>>
    BY <2>1, <2>2 DEF Homed
  <2>4. Head(orgs[u]) = orgs[u][1] /\ orgs[u][1] \in {"team", "own"}
    BY <2>2, <2>3
  <2>5. orgs[u][1] = "own" => own[u] = "project"
    BY <2>1, <2>2, <2>3 DEF Homed, FirstAt
  <2>6. orgs[u][1] = "team" => project
    BY <2>1, <2>2, <2>3 DEF Homed, FirstAt
  <2>7. QED
    BY <2>3, <2>4, <2>5, <2>6 DEF HasHome
<1>2. Inv => HomeExplained
  BY <1>1 DEF HomeExplained
<1>3. QED
  BY <1>2, Invariance, PTL
=============================================================================
