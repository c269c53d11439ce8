------------------------------- MODULE Groups -------------------------------
(****************************************************************************)
(* The roster of one group: the calls of GroupsService that add, activate,   *)
(* change or delete rows of conversation_members, the dissolution, and the   *)
(* requests to join.                                                         *)
(*                                                                           *)
(* A call reads the actor's row, then the group with its rows and requests   *)
(* (in one step here), and only then writes, by key and without looking      *)
(* again; nothing keeps calls from overlapping.  A transaction that writes   *)
(* takes effect in one step, at its commit, for the rows it writes are       *)
(* locked until then; the exception is deleteMany, which deletes the rows it *)
(* sees, and not one that is added before the dissolution commits.           *)
(*                                                                           *)
(* Left out: title, avatar, system messages, events, the audit log.  Who may *)
(* add, whether approval is required and whether members may remove are      *)
(* settings any admin changes at any time: each reading of them may say      *)
(* either.  So may friendship, which an invitation needs.                    *)
(****************************************************************************)
EXTENDS FiniteSets

CONSTANTS
  User,
  Handler,          \* bound: calls served at the same time
  JoinRequest,      \* bound: rows of group_join_requests
  Decided,          \* a request that has been approved or rejected
  None              \* no row, no request, a handler that serves no call

Role   == {"owner", "admin", "member"}
Status == {"active", "pending"}
Member == [role : Role, status : Status]
Application == User \cup {Decided}   \* whose request is pending

\* The calls that change the role of a row or delete rows.
RowCall == {"updateMemberRole", "transferOwnership", "removeMember", "rejectMember",
            "leaveGroup", "dissolveGroup"}
Call == RowCall \cup {"addMembers", "approveMember", "createSelfJoinRequest",
                      "approveJoinRequest", "rejectJoinRequest"}

\* The calls that look for something of the one who calls, or write it.
OwnCall == {"updateMemberRole", "transferOwnership", "removeMember", "leaveGroup",
            "dissolveGroup", "createSelfJoinRequest"}

Job == {j \in [call : Call,
               step : {"check", "delete", "write"},
               actor : User \cup {None},           \* the one who calls, if used later
               me : Member \cup {None},            \* the actor's row as read, likewise
               targets : SUBSET User,              \* the other rows it is going to write
               request : JoinRequest \cup {None}]  \* the request it is going to decide
          : j.call \in OwnCall => j.actor \in User}

ASSUME GroupConstants ==
  /\ None \notin Member \cup Job \cup Application \cup JoinRequest
  /\ Decided \notin User

VARIABLES
  members,      \* conversation_members: the row of each user
  dissolved,    \* conversations.dissolved_at is set
  joinRequests, \* group_join_requests
  job           \* what each handler is doing

vars == <<members, dissolved, joinRequests, job>>

TypeOK ==
  /\ members \in [User -> Member \cup {None}]
  /\ dissolved \in BOOLEAN
  /\ joinRequests \in [JoinRequest -> Application \cup {None}]
  /\ job \in [Handler -> Job \cup {None}]

------------------------------------------------------------------------------
(* The roster *)

NewMember(role, status) == [role |-> role, status |-> status]

HasRow(u)   == members[u] # None
Active(u)   == HasRow(u) /\ members[u].status = "active"
Pending(u)  == HasRow(u) /\ members[u].status = "pending"
IsOwner(u)  == HasRow(u) /\ members[u].role = "owner"
Officer(row) == row.role \in {"owner", "admin"}

IsPending(q, u) == joinRequests[q] = u

\* createGroup: the creator and at least one other.
Init ==
  /\ \E creator \in User : \E others \in SUBSET (User \ {creator}) :
       /\ others # {}
       /\ members = [u \in User |->
            IF u = creator THEN NewMember("owner", "active")
            ELSE IF u \in others THEN NewMember("member", "active") ELSE None]
  /\ dissolved = FALSE
  /\ joinRequests = [q \in JoinRequest |-> None]
  /\ job = [h \in Handler |-> None]

------------------------------------------------------------------------------
(* The beginning of a call: the actor's row *)

InFlight(h, calls) == job[h] # None /\ job[h].call \in calls

Begin(h, u, call, step) ==
  /\ job[h] = None
  /\ ~dissolved
  /\ job' = [job EXCEPT ![h] = [call |-> call, step |-> step,
                                actor |-> IF call \in OwnCall THEN u ELSE None,
                                me |-> IF call \in {"removeMember", "leaveGroup"}
                                       THEN members[u] ELSE None,
                                targets |-> {}, request |-> None]]
  /\ UNCHANGED <<members, dissolved, joinRequests>>

\* requireActiveMember, and what the role must be.
BeginAsMember(h, u) ==
  /\ Active(u)
  /\ \E call \in {"addMembers", "removeMember"} : Begin(h, u, call, "check")

BeginAsOfficer(h, u) ==
  /\ Active(u) /\ Officer(members[u])
  /\ \E call \in {"approveMember", "rejectMember", "approveJoinRequest",
                  "rejectJoinRequest"} : Begin(h, u, call, "check")

BeginAsOwner(h, u) ==
  /\ Active(u) /\ IsOwner(u)
  /\ \/ \E call \in {"updateMemberRole", "transferOwnership"} : Begin(h, u, call, "check")
     \/ Begin(h, u, "dissolveGroup", "delete")

\* requireMember: an invited user may leave as well.
BeginLeave(h, u) == HasRow(u) /\ Begin(h, u, "leaveGroup", "check")

\* assertGroupConversationNotDissolved.
BeginJoin(h, u) == Begin(h, u, "createSelfJoinRequest", "check")

------------------------------------------------------------------------------
(* The checks: the group and its rows are read *)

Checking(h, call) == InFlight(h, {call}) /\ job[h].step = "check"

Proceed(h, targets, request) ==
  /\ job' = [job EXCEPT ![h].step = "write", ![h].targets = targets, ![h].request = request]
  /\ UNCHANGED <<members, dissolved, joinRequests>>

\* toInvite: those without a row.
CheckAdd(h) ==
  /\ Checking(h, "addMembers")
  /\ \E invited \in SUBSET {u \in User : ~HasRow(u)} :
       invited # {} /\ Proceed(h, invited, None)

CheckPending(h) ==
  /\ Checking(h, "approveMember") \/ Checking(h, "rejectMember")
  /\ \E t \in User : Pending(t) /\ Proceed(h, {t}, None)

\* Variant: the target's status is not looked at.
MayChangeRole_AnyStatus(t) == HasRow(t) /\ ~IsOwner(t)

MayChangeRole(t) == Active(t) /\ ~IsOwner(t)

CheckRole(h) ==
  /\ Checking(h, "updateMemberRole")
  /\ \E t \in User : MayChangeRole(t) /\ Proceed(h, {t}, None)

CheckTransfer(h) ==
  /\ Checking(h, "transferOwnership")
  /\ \E t \in User \ {job[h].actor} : Active(t) /\ Proceed(h, {t}, None)

\* Variant: the owner is not protected.
MayRemove_AnyTarget(actor, target) ==
  /\ actor.role # "member"
  /\ ~(actor.role = "admin" /\ target.role = "admin")

\* assertActorCanRemoveMember.
MayRemove(actor, target) ==
  /\ target.role # "owner"
  /\ actor.role # "member"
  /\ ~(actor.role = "admin" /\ target.role = "admin")

Removable(actor, t) == Pending(t) \/ (HasRow(t) /\ MayRemove(actor, members[t]))

CheckRemove(h) ==
  /\ Checking(h, "removeMember")
  /\ \E t \in User \ {job[h].actor} : Removable(job[h].me, t) /\ Proceed(h, {t}, None)

\* Leaving: an owner hands over to another active member (the one who joined
\* first), or dissolves the group when there is none.
LeavesAsOwner(j) == j.me = NewMember("owner", "active")

CheckLeave(h) ==
  LET others == {u \in User \ {job[h].actor} : Active(u)} IN
  /\ Checking(h, "leaveGroup")
  /\ IF ~LeavesAsOwner(job[h]) THEN Proceed(h, {}, None)
     ELSE IF others # {} THEN \E successor \in others : Proceed(h, {successor}, None)
     ELSE /\ job' = [job EXCEPT ![h].call = "dissolveGroup", ![h].step = "delete"]
          /\ UNCHANGED <<members, dissolved, joinRequests>>

\* No row, no pending request, and a friend among the active members.
CheckJoin(h) ==
  LET u == job[h].actor IN
  /\ Checking(h, "createSelfJoinRequest")
  /\ ~HasRow(u)
  /\ ~\E q \in JoinRequest : IsPending(q, u)
  /\ \E friend \in User : Active(friend)
  /\ Proceed(h, {}, None)

CheckRequest(h) ==
  /\ Checking(h, "approveJoinRequest") \/ Checking(h, "rejectJoinRequest")
  /\ \E t \in User, q \in JoinRequest : IsPending(q, t) /\ Proceed(h, {t}, q)

------------------------------------------------------------------------------
(* The writes *)

\* The dissolution that has deleted its rows and not committed yet, if any.  It
\* holds those rows and the row of the conversation.
Dissolving(h) == InFlight(h, {"dissolveGroup"}) /\ job[h].step = "write"
Locked == UNION {job[h].targets : h \in {g \in Handler : Dissolving(g)}}

\* A transaction with a system message needs the row of the conversation; any
\* other needs the member rows it writes.
Unlocked(rows, withMessage) ==
  /\ withMessage => ~\E h \in Handler : Dissolving(h)
  /\ rows \cap Locked = {}

\* Call h commits its writes to the rows of these users; it fails when one that
\* it updates or deletes has gone, and when one that it creates is there.
Commit(h, call, rows, present, withMessage) ==
  /\ InFlight(h, {call}) /\ job[h].step = "write"
  /\ Unlocked(rows, withMessage)
  /\ \A u \in rows : HasRow(u) <=> present
  /\ job' = [job EXCEPT ![h] = None]

\* Variant: the rows are created without a role, as those of a direct chat.
AddMembers_NoRole(h) ==
  /\ \E status \in Status :
       /\ Commit(h, "addMembers", job[h].targets, FALSE, status = "active")
       /\ members' = [u \in User |->
            IF u \in job[h].targets THEN NewMember(None, status) ELSE members[u]]
  /\ UNCHANGED <<dissolved, joinRequests>>

\* Pending when approval is required, else active and with a message.
AddMembers(h) ==
  /\ \E status \in Status :
       /\ Commit(h, "addMembers", job[h].targets, FALSE, status = "active")
       /\ members' = [u \in User |->
            IF u \in job[h].targets THEN NewMember("member", status) ELSE members[u]]
  /\ UNCHANGED <<dissolved, joinRequests>>

ApproveMember(h) ==
  /\ Commit(h, "approveMember", job[h].targets, TRUE, TRUE)
  /\ members' = [u \in User |->
       IF u \in job[h].targets THEN NewMember(members[u].role, "active") ELSE members[u]]
  /\ UNCHANGED <<dissolved, joinRequests>>

\* rejectMember, and removeMember, which writes a message unless the target was
\* pending (either may be, here).
DeleteMember(h) ==
  /\ \/ Commit(h, "rejectMember", job[h].targets, TRUE, FALSE)
     \/ \E message \in BOOLEAN : Commit(h, "removeMember", job[h].targets, TRUE, message)
  /\ members' = [u \in User |-> IF u \in job[h].targets THEN None ELSE members[u]]
  /\ UNCHANGED <<dissolved, joinRequests>>

UpdateMemberRole(h) ==
  /\ Commit(h, "updateMemberRole", job[h].targets, TRUE, FALSE)
  /\ \E role \in {"admin", "member"} :
       members' = [u \in User |->
         IF u \in job[h].targets THEN NewMember(role, members[u].status) ELSE members[u]]
  /\ UNCHANGED <<dissolved, joinRequests>>

\* Variant: the old owner is not made an admin.
TransferOwnership_KeepsOwner(h) ==
  /\ Commit(h, "transferOwnership", job[h].targets \cup {job[h].actor}, TRUE, TRUE)
  /\ members' = [u \in User |->
       IF u \in job[h].targets THEN NewMember("owner", members[u].status) ELSE members[u]]
  /\ UNCHANGED <<dissolved, joinRequests>>

TransferOwnership(h) ==
  /\ Commit(h, "transferOwnership", job[h].targets \cup {job[h].actor}, TRUE, TRUE)
  /\ members' = [u \in User |->
       IF u \in job[h].targets THEN NewMember("owner", members[u].status)
       ELSE IF u = job[h].actor THEN NewMember("admin", members[u].status)
       ELSE members[u]]
  /\ UNCHANGED <<dissolved, joinRequests>>

\* The successor, if any, becomes the owner, and the actor's row is deleted.
LeaveGroup(h) ==
  LET j == job[h] IN
  /\ Commit(h, "leaveGroup", j.targets \cup {j.actor}, TRUE, j.me.status = "active")
  /\ members' = [u \in User |->
       IF u = j.actor THEN None
       ELSE IF u \in j.targets THEN NewMember("owner", members[u].status)
       ELSE members[u]]
  /\ UNCHANGED <<dissolved, joinRequests>>

\* softDissolveGroupConversation: deleteMany sees the rows of now.
DeleteAll(h) ==
  /\ InFlight(h, {"dissolveGroup"}) /\ job[h].step = "delete"
  /\ ~\E g \in Handler : Dissolving(g)
  /\ Proceed(h, {u \in User : HasRow(u)}, None)

Dissolve(h) ==
  /\ Dissolving(h)
  /\ members' = [u \in User |-> IF u \in job[h].targets THEN None ELSE members[u]]
  /\ dissolved' = TRUE
  /\ joinRequests' = [q \in JoinRequest |-> None]
  /\ job' = [job EXCEPT ![h] = None]

\* Variant: without the partial unique index on pending requests.
CreateSelfJoinRequest_NoIndex(h) ==
  /\ Commit(h, "createSelfJoinRequest", {}, TRUE, FALSE)
  /\ \E q \in JoinRequest :
       /\ joinRequests[q] = None
       /\ joinRequests' = [joinRequests EXCEPT ![q] = job[h].actor]
  /\ UNCHANGED <<members, dissolved>>

CreateSelfJoinRequest(h) ==
  /\ Commit(h, "createSelfJoinRequest", {}, TRUE, FALSE)
  /\ ~\E q \in JoinRequest : IsPending(q, job[h].actor)   \* the partial unique index
  /\ \E q \in JoinRequest :
       /\ joinRequests[q] = None
       /\ joinRequests' = [joinRequests EXCEPT ![q] = job[h].actor]
  /\ UNCHANGED <<members, dissolved>>

\* The row is updated by its id: that it is still pending is not asked.
Decide(h) ==
  /\ joinRequests[job[h].request] # None
  /\ joinRequests' = [joinRequests EXCEPT ![job[h].request] = Decided]

ApproveJoinRequest(h) ==
  /\ Commit(h, "approveJoinRequest", job[h].targets, FALSE, TRUE)
  /\ Decide(h)
  /\ members' = [u \in User |->
       IF u \in job[h].targets THEN NewMember("member", "active") ELSE members[u]]
  /\ UNCHANGED dissolved

RejectJoinRequest(h) ==
  /\ Commit(h, "rejectJoinRequest", {}, TRUE, FALSE)
  /\ Decide(h)
  /\ UNCHANGED <<members, dissolved>>

\* A check refuses the call, a row it writes is not as it must be, the database
\* fails, or the server does.
Fail(h) ==
  /\ job[h] # None
  /\ job' = [job EXCEPT ![h] = None]
  /\ UNCHANGED <<members, dissolved, joinRequests>>

BeginCall(h, u) == \/ BeginAsMember(h, u) \/ BeginAsOfficer(h, u) \/ BeginAsOwner(h, u)
                   \/ BeginLeave(h, u) \/ BeginJoin(h, u)

Check(h) == \/ CheckAdd(h) \/ CheckPending(h) \/ CheckRole(h) \/ CheckTransfer(h)
            \/ CheckRemove(h) \/ CheckLeave(h) \/ CheckJoin(h) \/ CheckRequest(h)

Write(h) == \/ AddMembers(h) \/ ApproveMember(h) \/ DeleteMember(h) \/ UpdateMemberRole(h)
            \/ TransferOwnership(h) \/ LeaveGroup(h) \/ DeleteAll(h) \/ Dissolve(h)
            \/ CreateSelfJoinRequest(h) \/ ApproveJoinRequest(h) \/ RejectJoinRequest(h)

Next == \E h \in Handler : (\E u \in User : BeginCall(h, u)) \/ Check(h) \/ Write(h) \/ Fail(h)

Spec == Init /\ [][Next]_vars

------------------------------------------------------------------------------
(* Properties *)

\* A group that is not dissolved has one owner, who is an active member.
OneOwner ==
  ~dissolved => \E u \in User : /\ IsOwner(u) /\ Active(u)
                                /\ \A v \in User : IsOwner(v) => v = u

\* Who is the owner or an admin is an active member of a group that exists.
OfficersAreActive ==
  \A u \in User : HasRow(u) /\ Officer(members[u]) => Active(u) /\ ~dissolved

\* Neither is an invariant, for a call writes by key what it has checked earlier.
\* StillHolds says that what call h has checked is so when it writes.
StillHolds(h) ==
  LET j == job[h] IN
  /\ j.call \in {"updateMemberRole", "transferOwnership", "dissolveGroup"} => IsOwner(j.actor)
  /\ j.call = "updateMemberRole" => \A t \in j.targets : MayChangeRole(t)
  /\ j.call = "transferOwnership" => \A t \in j.targets : Active(t)
  /\ j.call = "removeMember" => \A t \in j.targets : Removable(j.me, t)
  /\ j.call = "rejectMember" => \A t \in j.targets : Pending(t)
  /\ j.call = "leaveGroup" => members[j.actor] = j.me /\ \A t \in j.targets : Active(t)
  /\ j.call = "dissolveGroup" =>   \* all it leaves are rows of plain members
       \A u \in User : HasRow(u) /\ Officer(members[u]) => u \in j.targets

\* In this step a call ends that was to write on checks that hold no more.
StaleWrite ==
  \E h \in Handler : /\ InFlight(h, RowCall) /\ job[h].step = "write" /\ ~StillHolds(h)
                     /\ job'[h] = None

\* Of all the calls that overlap, only one that writes on stale checks can leave
\* the group without an owner or with two.
OneOwnerKept == [][OneOwner => OneOwner' \/ StaleWrite]_vars

\* Only such a call gives rights to somebody who is not active, or leaves any
\* behind in a dissolved group, though a dissolution may leave the row of
\* somebody who was let in meanwhile.
OfficersStayActive == [][OfficersAreActive => OfficersAreActive' \/ StaleWrite]_vars

\* And only such a call takes the ownership away: else a user ceases to be the
\* owner when a call of his own ends, by which he leaves, hands over or dissolves.
GivenUp(u) ==
  \E h \in Handler : /\ InFlight(h, {"transferOwnership", "leaveGroup", "dissolveGroup"})
                     /\ job[h].actor = u /\ job'[h] = None
OwnershipIsGivenUp ==
  [][~dissolved /\ OneOwner =>
       \A u \in User : IsOwner(u) /\ ~IsOwner(u)' => GivenUp(u) \/ StaleWrite]_vars

\* What group-permissions.service.ts says of removal: the owner's row cannot be
\* removed by it.  A removal reads the target's row, and deletes it later by key.
OwnerNotRemoved ==
  [][\A u \in User, h \in Handler :
       IsOwner(u) /\ InFlight(h, {"removeMember"}) /\ job'[h] = None => members'[u] # None]_vars

\* Two requests of one user to join are not both pending: sent at the same time,
\* both find none, and the index on pending requests stops the second.
OnePendingRequest ==
  \A p, q \in JoinRequest, u \in User : IsPending(p, u) /\ IsPending(q, u) => p = q
==============================================================================
