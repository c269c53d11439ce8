---------------------------- MODULE GroupsProofs ----------------------------
(****************************************************************************)
(* Theorems about Groups, for any users, calls and requests, whatever calls  *)
(* overlap.  The theorems about roles are about single steps: a step keeps   *)
(* the group's shape when the checks of the call that ends in it still hold. *)
(* All they need beside the types is which rows a call is going to write     *)
(* (CallsNamed), which depends on the call alone.                            *)
(****************************************************************************)
EXTENDS Groups, TLAPS

\* A user without a row of the table has None, and a handler without a job too.
LEMMA RowsAndJobs ==
  ASSUME TypeOK
  PROVE  /\ \A u \in User : HasRow(u) <=> members[u] \in Member
         /\ \A h \in Handler : job[h] # None <=> job[h] \in Job
         /\ \A q \in JoinRequest : joinRequests[q] # None <=> joinRequests[q] \in Application
  BY GroupConstants DEF TypeOK, HasRow

------------------------------------------------------------------------------
(* Types *)

\* The tables of a group that has just been created.
LEMMA InitTyped == Init => TypeOK
<1> SUFFICES ASSUME Init PROVE TypeOK
  OBVIOUS
<1>1. PICK creator \in User, others \in SUBSET User :
        members = [u \in User |->
            IF u = creator THEN NewMember("owner", "active")
            ELSE IF u \in others THEN NewMember("member", "active") ELSE None]
  BY DEF Init
<1> QED
  BY <1>1 DEF Init, TypeOK, NewMember, Member, Role, Status

LEMMA TypedBegin ==
  ASSUME TypeOK, NEW h \in Handler, NEW u \in User, BeginCall(h, u)
  PROVE  TypeOK'
<1>1. PICK call \in Call, step \in {"check", "delete"} : Begin(h, u, call, step)
  BY DEF BeginCall, BeginAsMember, BeginAsOfficer, BeginAsOwner, BeginLeave, BeginJoin,
         Call, RowCall
<1>2. [call |-> call, step |-> step, actor |-> IF call \in OwnCall THEN u ELSE None,
       me |-> IF call \in {"removeMember", "leaveGroup"} THEN members[u] ELSE None,
       targets |-> {}, request |-> None] \in Job
  BY DEF TypeOK, Job
<1> QED  BY <1>1, <1>2 DEF Begin, TypeOK

LEMMA TypedProceed ==
  ASSUME TypeOK, NEW h \in Handler, job[h] \in Job,
         NEW targets \in SUBSET User, NEW request \in JoinRequest \cup {None},
         Proceed(h, targets, request)
  PROVE  TypeOK'
<1>1. [job[h] EXCEPT !.step = "write", !.targets = targets, !.request = request] \in Job
  BY DEF Job
<1>2. job' = [job EXCEPT ![h] =
                [job[h] EXCEPT !.step = "write", !.targets = targets, !.request = request]]
  BY DEF Proceed, TypeOK, Job
<1> QED  BY <1>1, <1>2 DEF Proceed, TypeOK

LEMMA TypedCheck ==
  ASSUME TypeOK, NEW h \in Handler, Check(h)
  PROVE  TypeOK'
<1>1. job[h] \in Job
  BY RowsAndJobs
     DEF Check, CheckAdd, CheckPending, CheckRole, CheckTransfer, CheckRemove, CheckLeave,
         CheckJoin, CheckRequest, Checking, InFlight
<1>2. CASE \E targets \in SUBSET User, request \in JoinRequest \cup {None} :
             Proceed(h, targets, request)
  BY <1>1, <1>2, TypedProceed
<1>3. CASE /\ Checking(h, "leaveGroup")
           /\ job' = [job EXCEPT ![h].call = "dissolveGroup", ![h].step = "delete"]
           /\ UNCHANGED <<members, dissolved, joinRequests>>
  <2>1. [job[h] EXCEPT !.call = "dissolveGroup", !.step = "delete"] \in Job
    BY <1>1, <1>3 DEF Checking, InFlight, Job, OwnCall, Call, RowCall
  <2>2. job' = [job EXCEPT ![h] = [job[h] EXCEPT !.call = "dissolveGroup", !.step = "delete"]]
    BY <1>1, <1>3 DEF TypeOK, Job
  <2> QED  BY <1>3, <2>1, <2>2 DEF TypeOK
<1>4. CASE CheckLeave(h)
  <2>1. \A t \in User : {t} \in SUBSET User
    OBVIOUS
  <2> QED  BY <1>2, <1>3, <1>4, <2>1 DEF CheckLeave
<1> QED
  BY <1>2, <1>4
     DEF Check, CheckAdd, CheckPending, CheckRole, CheckTransfer, CheckRemove, CheckJoin,
         CheckRequest

\* A write ends the call; the rows it updates are there.
LEMMA TypedWrite ==
  ASSUME TypeOK, NEW h \in Handler, Write(h)
  PROVE  TypeOK'
<1>1. job[h] \in Job
  BY RowsAndJobs
     DEF Write, AddMembers, ApproveMember, DeleteMember, UpdateMemberRole, TransferOwnership,
         LeaveGroup, DeleteAll, Dissolve, Dissolving, CreateSelfJoinRequest, ApproveJoinRequest,
         RejectJoinRequest, Commit, InFlight
<1>2. CASE DeleteAll(h)
  BY <1>1, <1>2, TypedProceed DEF DeleteAll
<1>3. ASSUME ~DeleteAll(h)
      PROVE  job' = [job EXCEPT ![h] = None]
  BY <1>3
     DEF Write, AddMembers, ApproveMember, DeleteMember, UpdateMemberRole, TransferOwnership,
         LeaveGroup, Dissolve, CreateSelfJoinRequest, ApproveJoinRequest, RejectJoinRequest, Commit
<1>4. \A role \in Role, status \in Status : NewMember(role, status) \in Member
  BY DEF NewMember, Member
<1>5. \A u \in User : HasRow(u) => members[u].role \in Role /\ members[u].status \in Status
  BY RowsAndJobs DEF Member
<1>6. ASSUME UNCHANGED <<dissolved, joinRequests>>, ~DeleteAll(h),
             members' \in [User -> Member \cup {None}]
      PROVE  TypeOK'
  BY <1>3, <1>6 DEF TypeOK
<1>7. CASE AddMembers(h)
  <2>1. members' \in [User -> Member \cup {None}]
    BY <1>4, <1>7 DEF AddMembers, Role, TypeOK
  <2> QED  BY <1>2, <1>6, <1>7, <2>1 DEF AddMembers
<1>8. CASE ApproveMember(h)
  <2>1. \A u \in job[h].targets : HasRow(u)
    BY <1>8 DEF ApproveMember, Commit
  <2>2. members' \in [User -> Member \cup {None}]
    BY <1>4, <1>5, <1>8, <2>1 DEF ApproveMember, Status, TypeOK
  <2> QED  BY <1>2, <1>6, <1>8, <2>2 DEF ApproveMember
<1>9. CASE DeleteMember(h)
  BY <1>2, <1>6, <1>9 DEF DeleteMember, TypeOK
<1>10. CASE UpdateMemberRole(h)
  <2>1. \A u \in job[h].targets : HasRow(u)
    BY <1>10 DEF UpdateMemberRole, Commit
  <2>2. members' \in [User -> Member \cup {None}]
    BY <1>4, <1>5, <1>10, <2>1 DEF UpdateMemberRole, Role, TypeOK
  <2> QED  BY <1>2, <1>6, <1>10, <2>2 DEF UpdateMemberRole
<1>11. CASE TransferOwnership(h)
  <2>1. \A u \in job[h].targets \cup {job[h].actor} : HasRow(u)
    BY <1>11 DEF TransferOwnership, Commit
  <2>2. members' \in [User -> Member \cup {None}]
    BY <1>4, <1>5, <1>11, <2>1 DEF TransferOwnership, Role, TypeOK
  <2> QED  BY <1>2, <1>6, <1>11, <2>2 DEF TransferOwnership
<1>12. CASE LeaveGroup(h)
  <2>1. \A u \in job[h].targets \cup {job[h].actor} : HasRow(u)
    BY <1>12 DEF LeaveGroup, Commit
  <2>2. members' \in [User -> Member \cup {None}]
    BY <1>4, <1>5, <1>12, <2>1 DEF LeaveGroup, Role, TypeOK
  <2> QED  BY <1>2, <1>6, <1>12, <2>2 DEF LeaveGroup
<1>13. CASE Dissolve(h)
  <2>1. members' \in [User -> Member \cup {None}]
    BY <1>13 DEF Dissolve, TypeOK
  <2>2. job' = [job EXCEPT ![h] = None]
    BY <1>13 DEF Dissolve
  <2> QED  BY <1>13, <2>1, <2>2 DEF Dissolve, TypeOK
<1>14. CASE CreateSelfJoinRequest(h)
  <2>1. job[h].actor \in Application
    BY <1>1, <1>14 DEF CreateSelfJoinRequest, Commit, InFlight, Job, OwnCall, Application
  <2>2. joinRequests' \in [JoinRequest -> Application \cup {None}]
    BY <1>14, <2>1 DEF CreateSelfJoinRequest, TypeOK
  <2>3. job' = [job EXCEPT ![h] = None]
    BY <1>14 DEF CreateSelfJoinRequest, Commit
  <2> QED  BY <1>14, <2>2, <2>3 DEF CreateSelfJoinRequest, TypeOK
<1>15. ASSUME Decide(h)
       PROVE  joinRequests' \in [JoinRequest -> Application \cup {None}]
  BY <1>15 DEF Decide, TypeOK, Application
<1>16. CASE ApproveJoinRequest(h)
  <2>1. members' \in [User -> Member \cup {None}]
    BY <1>4, <1>16 DEF ApproveJoinRequest, Role, Status, TypeOK
  <2>2. joinRequests' \in [JoinRequest -> Application \cup {None}]
    BY <1>15, <1>16 DEF ApproveJoinRequest
  <2>3. job' = [job EXCEPT ![h] = None]
    BY <1>16 DEF ApproveJoinRequest, Commit
  <2> QED  BY <1>16, <2>1, <2>2, <2>3 DEF ApproveJoinRequest, TypeOK
<1>17. CASE RejectJoinRequest(h)
  <2>1. joinRequests' \in [JoinRequest -> Application \cup {None}]
    BY <1>15, <1>17 DEF RejectJoinRequest
  <2>2. job' = [job EXCEPT ![h] = None]
    BY <1>17 DEF RejectJoinRequest, Commit
  <2> QED  BY <1>17, <2>1, <2>2 DEF RejectJoinRequest, TypeOK
<1> QED
  BY <1>2, <1>7, <1>8, <1>9, <1>10, <1>11, <1>12, <1>13, <1>14, <1>16, <1>17 DEF Write

\* The rows, requests and calls of GroupsService are what the schema allows,
\* whatever calls overlap: each update by key finds its row or fails.
THEOREM GroupsTypeCorrect == Spec => []TypeOK
<1>1. Init => TypeOK
  BY InitTyped
<1>2. TypeOK /\ [Next]_vars => TypeOK'
  <2> SUFFICES ASSUME TypeOK, [Next]_vars PROVE TypeOK'
    OBVIOUS
  <2>1. CASE UNCHANGED vars
    BY <2>1 DEF vars, TypeOK
  <2>2. ASSUME NEW h \in Handler, Fail(h)
        PROVE  TypeOK'
    BY <2>2 DEF Fail, TypeOK
  <2> QED  BY <2>1, <2>2, TypedBegin, TypedCheck, TypedWrite DEF Next
<1> QED  BY <1>1, <1>2, PTL DEF Spec

------------------------------------------------------------------------------
(* Requests to join *)

LEMMA CreateRequestStep ==
  ASSUME TypeOK, OnePendingRequest, NEW h \in Handler, CreateSelfJoinRequest(h)
  PROVE  OnePendingRequest'
<1>1. PICK p \in JoinRequest : joinRequests' = [joinRequests EXCEPT ![p] = job[h].actor]
  BY DEF CreateSelfJoinRequest
<1>2. /\ joinRequests'[p] = job[h].actor
      /\ \A q \in JoinRequest \ {p} : joinRequests'[q] = joinRequests[q]
  BY <1>1 DEF TypeOK
<1>3. \A q \in JoinRequest : ~IsPending(q, job[h].actor)
  BY DEF CreateSelfJoinRequest
<1> QED  BY <1>2, <1>3 DEF OnePendingRequest, IsPending

\* A request that is decided, by whomever and however often, is not pending.
LEMMA DecideStep ==
  ASSUME TypeOK, OnePendingRequest, NEW h \in Handler, Decide(h)
  PROVE  OnePendingRequest'
<1>1. \A q \in JoinRequest : joinRequests'[q] \in {joinRequests[q], Decided}
  BY DEF Decide, TypeOK
<1>2. \A q \in JoinRequest, u \in User : IsPending(q, u)' => IsPending(q, u)
  BY <1>1, GroupConstants DEF IsPending
<1> QED  BY <1>2 DEF OnePendingRequest

LEMMA RequestsStep == TypeOK /\ OnePendingRequest /\ [Next]_vars => OnePendingRequest'
<1> SUFFICES ASSUME TypeOK, OnePendingRequest, [Next]_vars PROVE OnePendingRequest'
  OBVIOUS
<1>1. CASE UNCHANGED joinRequests
  BY <1>1 DEF OnePendingRequest, IsPending
<1>2. ASSUME NEW h \in Handler, Dissolve(h)
      PROVE  OnePendingRequest'
  <2>1. \A q \in JoinRequest : joinRequests'[q] = None
    BY <1>2 DEF Dissolve
  <2> QED  BY <2>1, GroupConstants DEF OnePendingRequest, IsPending, Application
<1>3. ASSUME NEW h \in Handler, ApproveJoinRequest(h) \/ RejectJoinRequest(h)
      PROVE  OnePendingRequest'
  BY <1>3, DecideStep DEF ApproveJoinRequest, RejectJoinRequest
<1>4. ASSUME NEW h \in Handler, NEW u \in User, BeginCall(h, u)
      PROVE  UNCHANGED joinRequests
  BY <1>4 DEF BeginCall, BeginAsMember, BeginAsOfficer, BeginAsOwner, BeginLeave, BeginJoin, Begin
<1>5. ASSUME NEW h \in Handler, Check(h) \/ Fail(h)
      PROVE  UNCHANGED joinRequests
  BY <1>5 DEF Fail, Check, CheckAdd, CheckPending, CheckRole, CheckTransfer, CheckRemove,
              CheckLeave, CheckJoin, CheckRequest, Proceed
<1>6. ASSUME NEW h \in Handler,
             \/ AddMembers(h) \/ ApproveMember(h) \/ DeleteMember(h) \/ UpdateMemberRole(h)
             \/ TransferOwnership(h) \/ LeaveGroup(h) \/ DeleteAll(h)
      PROVE  UNCHANGED joinRequests
  BY <1>6 DEF AddMembers, ApproveMember, DeleteMember, UpdateMemberRole, TransferOwnership,
              LeaveGroup, DeleteAll, Proceed
<1>7. ASSUME Next
      PROVE  OnePendingRequest'
  <2>1. PICK h \in Handler : (\E u \in User : BeginCall(h, u)) \/ Check(h) \/ Write(h) \/ Fail(h)
    BY <1>7 DEF Next
  <2> QED  BY <1>1, <1>2, <1>3, <1>4, <1>5, <1>6, <2>1, CreateRequestStep DEF Write
<1> QED  BY <1>1, <1>7 DEF vars

\* Of two requests of one user that are sent at the same time one fails: no two
\* are pending, whatever calls overlap and however requests are decided.
THEOREM OnePendingEach == Spec => []OnePendingRequest
<1>1. Init => OnePendingRequest
  BY GroupConstants DEF Init, OnePendingRequest, IsPending, Application
<1> QED  BY <1>1, GroupsTypeCorrect, RequestsStep, PTL DEF Spec

------------------------------------------------------------------------------
(* The rows a call is going to write *)

\* Who hands over names one other user; who leaves without being the owner, none.
CallNamed(h) ==
  InFlight(h, RowCall) =>
    /\ job[h].call = "leaveGroup" => job[h].me \in Member
    /\ job[h].step = "write" =>
         /\ job[h].call = "transferOwnership"
              \/ (job[h].call = "leaveGroup" /\ LeavesAsOwner(job[h])) =>
              \E t \in User \ {job[h].actor} : job[h].targets = {t}
         /\ job[h].call = "leaveGroup" /\ ~LeavesAsOwner(job[h]) => job[h].targets = {}

CallsNamed == \A h \in Handler : CallNamed(h)

\* It is enough to look at the call that steps.
LEMMA NamedJob ==
  ASSUME TypeOK, CallsNamed, NEW h \in Handler, NEW j,
         job' = [job EXCEPT ![h] = j], job'[h] = j => CallNamed(h)'
  PROVE  CallsNamed'
<1> SUFFICES ASSUME NEW k \in Handler PROVE CallNamed(k)'
  BY DEF CallsNamed
<1>1. CASE k = h
  BY <1>1 DEF TypeOK
<1>2. CASE k # h
  <2>1. job'[k] = job[k]
    BY <1>2 DEF TypeOK
  <2> QED  BY <2>1 DEF CallsNamed, CallNamed, InFlight, LeavesAsOwner
<1> QED  BY <1>1, <1>2

LEMMA NamedBegin ==
  ASSUME TypeOK, CallsNamed, NEW h \in Handler, NEW u \in User, BeginCall(h, u)
  PROVE  CallsNamed'
<1>1. PICK call \in Call, step \in {"check", "delete"} :
        Begin(h, u, call, step) /\ (call = "leaveGroup" => HasRow(u))
  BY DEF BeginCall, BeginAsMember, BeginAsOfficer, BeginAsOwner, BeginLeave, BeginJoin,
         Call, RowCall
<1> DEFINE j == [call |-> call, step |-> step,
                 actor |-> IF call \in OwnCall THEN u ELSE None,
                 me |-> IF call \in {"removeMember", "leaveGroup"} THEN members[u] ELSE None,
                 targets |-> {}, request |-> None]
<1>2. job' = [job EXCEPT ![h] = j]
  BY <1>1 DEF Begin
<1>3. call = "leaveGroup" => members[u] \in Member
  BY <1>1, RowsAndJobs
<1>4. job'[h] = j => CallNamed(h)'
  BY <1>3 DEF CallNamed, InFlight
<1> QED  BY <1>2, <1>4, NamedJob

LEMMA NamedProceed ==
  ASSUME TypeOK, CallsNamed, NEW h \in Handler, job[h] \in Job, NEW targets, NEW request,
         Proceed(h, targets, request),
         job[h].call = "transferOwnership"
           \/ (job[h].call = "leaveGroup" /\ LeavesAsOwner(job[h])) =>
           \E t \in User \ {job[h].actor} : targets = {t},
         job[h].call = "leaveGroup" /\ ~LeavesAsOwner(job[h]) => targets = {}
  PROVE  CallsNamed'
<1> DEFINE j == [job[h] EXCEPT !.step = "write", !.targets = targets, !.request = request]
<1>1. job' = [job EXCEPT ![h] = j]
  BY DEF Proceed, TypeOK, Job
<1>2. /\ j.call = job[h].call /\ j.me = job[h].me /\ j.actor = job[h].actor
      /\ j.targets = targets
  BY DEF Job
<1>3. job[h] # None /\ (job[h].call = "leaveGroup" => job[h].me \in Member)
  BY GroupConstants DEF CallsNamed, CallNamed, InFlight, RowCall
<1> HIDE DEF j
<1>4. job'[h] = j => CallNamed(h)'
  BY <1>2, <1>3 DEF CallNamed, LeavesAsOwner
<1> QED  BY <1>1, <1>4, NamedJob

LEMMA NamedCheck ==
  ASSUME TypeOK, CallsNamed, NEW h \in Handler, Check(h)
  PROVE  CallsNamed'
<1>1. job[h] \in Job
  BY RowsAndJobs
     DEF Check, CheckAdd, CheckPending, CheckRole, CheckTransfer, CheckRemove, CheckLeave,
         CheckJoin, CheckRequest, Checking, InFlight
<1>2. ASSUME job[h].call \notin {"transferOwnership", "leaveGroup"},
             NEW targets, NEW request, Proceed(h, targets, request)
      PROVE  CallsNamed'
  BY <1>1, <1>2, NamedProceed
<1>3. CASE CheckTransfer(h)
  BY <1>1, <1>3, NamedProceed DEF CheckTransfer, Checking, InFlight
<1>4. CASE CheckLeave(h)
  <2>1. job[h].call = "leaveGroup"
    BY <1>4 DEF CheckLeave, Checking, InFlight
  <2> DEFINE others == {u \in User \ {job[h].actor} : Active(u)}
  <2>2. CASE ~LeavesAsOwner(job[h])
    BY <1>1, <1>4, <2>1, <2>2, NamedProceed DEF CheckLeave
  <2>3. CASE LeavesAsOwner(job[h]) /\ others # {}
    <3>1. PICK t \in others : Proceed(h, {t}, None)
      BY <1>4, <2>3 DEF CheckLeave
    <3> QED  BY <1>1, <2>1, <2>3, <3>1, NamedProceed
  <2>4. CASE LeavesAsOwner(job[h]) /\ others = {}
    <3> DEFINE j == [job[h] EXCEPT !.call = "dissolveGroup", !.step = "delete"]
    <3>1. job' = [job EXCEPT ![h] = j]
      BY <1>1, <1>4, <2>4 DEF CheckLeave, TypeOK, Job
    <3>2. j.call = "dissolveGroup"
      BY <1>1 DEF Job
    <3>3. job'[h] = j => CallNamed(h)'
      BY <3>2 DEF CallNamed
    <3> QED  BY <3>1, <3>3, NamedJob
  <2> QED  BY <2>2, <2>3, <2>4
<1> QED
  BY <1>2, <1>3, <1>4
     DEF Check, CheckAdd, CheckPending, CheckRole, CheckRemove, CheckJoin, CheckRequest,
         Checking, InFlight

LEMMA NamedEnd ==
  ASSUME TypeOK, CallsNamed, NEW h \in Handler, job' = [job EXCEPT ![h] = None]
  PROVE  CallsNamed'
<1>1. job'[h] = None => CallNamed(h)'
  BY DEF CallNamed, InFlight
<1> QED  BY <1>1, NamedJob

LEMMA NamedStep == TypeOK /\ CallsNamed /\ [Next]_vars => CallsNamed'
<1> SUFFICES ASSUME TypeOK, CallsNamed, [Next]_vars PROVE CallsNamed'
  OBVIOUS
<1>1. CASE UNCHANGED vars
  BY <1>1 DEF vars, CallsNamed, CallNamed, InFlight, LeavesAsOwner
<1>2. ASSUME NEW h \in Handler, DeleteAll(h)
      PROVE  CallsNamed'
  <2>1. job[h] \in Job /\ job[h].call = "dissolveGroup"
    BY <1>2, RowsAndJobs DEF DeleteAll, InFlight
  <2> QED  BY <1>2, <2>1, NamedProceed DEF DeleteAll
<1>3. ASSUME NEW h \in Handler, Write(h), ~DeleteAll(h)
      PROVE  job' = [job EXCEPT ![h] = None]
  BY <1>3
     DEF Write, AddMembers, ApproveMember, DeleteMember, UpdateMemberRole, TransferOwnership,
         LeaveGroup, Dissolve, CreateSelfJoinRequest, ApproveJoinRequest, RejectJoinRequest, Commit
<1> QED
  BY <1>1, <1>2, <1>3, NamedBegin, NamedCheck, NamedEnd DEF Next, Fail

------------------------------------------------------------------------------
(* What a step on checks that hold keeps *)

Kept ==
  /\ OneOwner => OneOwner'
  /\ OfficersAreActive => OfficersAreActive'
  /\ ~dissolved /\ OneOwner => \A u \in User : IsOwner(u) /\ ~IsOwner(u)' => GivenUp(u)

\* A step that leaves the rows alone.
LEMMA RowsAlone == UNCHANGED <<members, dissolved>> => Kept
  BY DEF Kept, OneOwner, OfficersAreActive, HasRow, Active, IsOwner

\* The rows change only in that users without one are let in as members, and
\* that pending ones become active.
LetsIn ==
  \A u \in User :
    \/ members'[u] = members[u]
    \/ ~HasRow(u) /\ members'[u] \in Member /\ members'[u].role = "member"
    \/ HasRow(u) /\ members'[u] = NewMember(members[u].role, "active")

LEMMA LetInKept ==
  ASSUME TypeOK, LetsIn, dissolved' = dissolved
  PROVE  Kept
<1>1. \A u \in User : /\ IsOwner(u)' <=> IsOwner(u)
                      /\ Active(u) => Active(u)'
                      /\ (HasRow(u) /\ Officer(members[u]))' => HasRow(u) /\ Officer(members[u])
  <2> SUFFICES ASSUME NEW u \in User
               PROVE  /\ IsOwner(u)' <=> IsOwner(u)
                      /\ Active(u) => Active(u)'
                      /\ (HasRow(u) /\ Officer(members[u]))'
                           => HasRow(u) /\ Officer(members[u])
    OBVIOUS
  <2>1. HasRow(u) => members[u] \in Member
    BY RowsAndJobs
  <2>2. \A row \in Member : row # None
    BY GroupConstants
  <2>3. CASE members'[u] = members[u]
    BY <2>3 DEF IsOwner, HasRow, Active
  <2>4. CASE ~HasRow(u) /\ members'[u] \in Member /\ members'[u].role = "member"
    BY <2>4 DEF IsOwner, HasRow, Active, Officer
  <2>5. CASE HasRow(u) /\ members'[u] = NewMember(members[u].role, "active")
    <3>1. members'[u] \in Member /\ members'[u].role = members[u].role
      BY <2>1, <2>5 DEF NewMember, Member, Status
    <3> QED
      BY <2>2, <2>5, <3>1 DEF IsOwner, HasRow, Active, Officer, NewMember
  <2> QED
    BY <2>3, <2>4, <2>5 DEF LetsIn
<1> QED
  BY <1>1 DEF Kept, OneOwner, OfficersAreActive

\* Who has been let in: AddMembers, ApproveMember and ApproveJoinRequest.
LEMMA LettingIn ==
  ASSUME TypeOK, NEW h \in Handler, AddMembers(h) \/ ApproveMember(h) \/ ApproveJoinRequest(h)
  PROVE  LetsIn /\ dissolved' = dissolved
<1>1. CASE AddMembers(h)
  <2>1. PICK status \in Status :
          /\ \A u \in job[h].targets : ~HasRow(u)
          /\ members' = [u \in User |->
               IF u \in job[h].targets THEN NewMember("member", status) ELSE members[u]]
    BY <1>1 DEF AddMembers, Commit
  <2>2. NewMember("member", status) \in Member
    BY DEF NewMember, Member, Role
  <2> QED  BY <1>1, <2>1, <2>2 DEF LetsIn, NewMember, AddMembers
<1>2. CASE ApproveMember(h)
  BY <1>2 DEF ApproveMember, Commit, LetsIn
<1>3. CASE ApproveJoinRequest(h)
  <2>1. NewMember("member", "active") \in Member
    BY DEF NewMember, Member, Role, Status
  <2> QED  BY <1>3, <2>1 DEF ApproveJoinRequest, Commit, LetsIn, NewMember
<1> QED  BY <1>1, <1>2, <1>3

\* The facts about a row call that ends in a step that is not a stale write.
LEMMA Ending ==
  ASSUME TypeOK, CallsNamed, ~StaleWrite, NEW h \in Handler, NEW call \in RowCall,
         InFlight(h, {call}), job[h].step = "write", job' = [job EXCEPT ![h] = None]
  PROVE  /\ job[h] \in Job /\ job[h].call = call /\ job[h].targets \subseteq User
         /\ (call \in OwnCall => job[h].actor \in User) /\ job'[h] = None
         /\ StillHolds(h) /\ CallNamed(h) /\ InFlight(h, RowCall)
<1>1. job[h] # None /\ job[h].call = call /\ job'[h] = None /\ InFlight(h, RowCall)
  BY DEF InFlight, TypeOK
<1>2. job[h] \in Job
  BY <1>1, RowsAndJobs
<1>3. StillHolds(h)
  BY <1>1 DEF StaleWrite
<1> QED  BY <1>1, <1>2, <1>3 DEF CallsNamed, Job

\* Rows are deleted of users who are not the owner.
LEMMA DeleteKept ==
  ASSUME TypeOK, CallsNamed, ~StaleWrite, NEW h \in Handler, DeleteMember(h)
  PROVE  Kept
<1>1. PICK call \in {"rejectMember", "removeMember"}, message \in BOOLEAN :
        Commit(h, call, job[h].targets, TRUE, message)
  BY DEF DeleteMember
<1>2. call \in RowCall /\ InFlight(h, {call}) /\ job[h].step = "write"
      /\ job' = [job EXCEPT ![h] = None]
  BY <1>1 DEF Commit, RowCall
<1>3. StillHolds(h) /\ job[h].call = call
  BY <1>2, Ending
<1>4. ASSUME NEW t \in job[h].targets, IsOwner(t) PROVE Pending(t)
  BY <1>3, <1>4 DEF StillHolds, Removable, MayRemove, IsOwner
<1>5. \A t \in job[h].targets \cap User : ~dissolved /\ OneOwner => ~IsOwner(t)
  BY <1>4 DEF OneOwner, Pending, Active
<1>6. /\ \A u \in User : \/ u \in job[h].targets /\ ~HasRow(u)'
                         \/ u \notin job[h].targets /\ members'[u] = members[u]
      /\ dissolved' = dissolved
  BY DEF DeleteMember, HasRow
<1> QED
  BY <1>5, <1>6 DEF Kept, OneOwner, OfficersAreActive, HasRow, Active, IsOwner

\* The role of an active row that is not the owner's changes.
LEMMA RoleKept ==
  ASSUME TypeOK, CallsNamed, ~StaleWrite, NEW h \in Handler, UpdateMemberRole(h)
  PROVE  Kept
<1>1. PICK role \in {"admin", "member"} :
        members' = [u \in User |->
          IF u \in job[h].targets THEN NewMember(role, members[u].status) ELSE members[u]]
  BY DEF UpdateMemberRole
<1>2. "updateMemberRole" \in RowCall /\ InFlight(h, {"updateMemberRole"})
      /\ job[h].step = "write" /\ job' = [job EXCEPT ![h] = None] /\ dissolved' = dissolved
  BY DEF UpdateMemberRole, Commit, RowCall
<1>3. StillHolds(h) /\ job[h].call = "updateMemberRole" /\ job[h].actor \in User
  BY <1>2, Ending DEF OwnCall
<1>4. IsOwner(job[h].actor) /\ \A t \in job[h].targets : Active(t) /\ ~IsOwner(t)
  BY <1>3 DEF StillHolds, MayChangeRole
<1>5. OfficersAreActive => ~dissolved
  BY <1>3, <1>4 DEF OfficersAreActive, IsOwner, Officer
<1>6. \A u \in User : u \in job[h].targets =>
        /\ members'[u] = NewMember(role, "active")
        /\ NewMember(role, "active") \in Member
  BY <1>1, <1>4 DEF Active, NewMember, Member, Role, Status
<1>7. ASSUME NEW u \in User
      PROVE  /\ IsOwner(u)' <=> IsOwner(u)
             /\ Active(u) => Active(u)'
             /\ (HasRow(u) /\ Officer(members[u]))' =>
                  Active(u)' \/ (HasRow(u) /\ Officer(members[u]) /\ members'[u] = members[u])
  <2>1. CASE u \in job[h].targets
    <3>1. /\ members'[u] # None
          /\ members'[u].role = role /\ members'[u].status = "active"
      BY <1>6, <2>1, GroupConstants DEF NewMember
    <3> QED
      BY <1>4, <2>1, <3>1 DEF IsOwner, Active, HasRow
  <2>2. CASE u \notin job[h].targets
    <3>1. members'[u] = members[u]
      BY <1>1, <2>2
    <3> QED  BY <3>1 DEF IsOwner, HasRow, Active
  <2> QED
    BY <2>1, <2>2
<1> QED
  BY <1>2, <1>5, <1>7 DEF Kept, OneOwner, OfficersAreActive

\* The owner hands over, to an active member.
LEMMA TransferKept ==
  ASSUME TypeOK, CallsNamed, ~StaleWrite, NEW h \in Handler, TransferOwnership(h)
  PROVE  Kept
<1> DEFINE a == job[h].actor
<1>1. "transferOwnership" \in RowCall /\ InFlight(h, {"transferOwnership"})
      /\ job[h].step = "write" /\ job' = [job EXCEPT ![h] = None] /\ dissolved' = dissolved
  BY DEF TransferOwnership, Commit, RowCall
<1>2. StillHolds(h) /\ CallNamed(h) /\ job[h].call = "transferOwnership" /\ a \in User
      /\ InFlight(h, RowCall) /\ job'[h] = None
  BY <1>1, Ending DEF OwnCall
<1>3. PICK t \in User \ {a} : job[h].targets = {t}
  BY <1>1, <1>2 DEF CallNamed
<1>4. IsOwner(a) /\ Active(t)
  BY <1>2, <1>3 DEF StillHolds
<1>5. members' = [u \in User |->
        IF u = t THEN NewMember("owner", members[u].status)
        ELSE IF u = a THEN NewMember("admin", members[u].status) ELSE members[u]]
  BY <1>3 DEF TransferOwnership
<1>6. members[a] \in Member /\ members[t] \in Member
  BY <1>2, <1>4, RowsAndJobs DEF IsOwner, Active
<1>7. /\ members'[t] = NewMember("owner", members[t].status)
      /\ members'[a] = NewMember("admin", members[a].status)
      /\ \A u \in User \ {t, a} : members'[u] = members[u]
  BY <1>2, <1>5
<1>8. /\ NewMember("owner", members[t].status) \in Member
      /\ NewMember("admin", members[a].status) \in Member
  BY <1>6 DEF NewMember, Member, Role
<1>9. /\ members'[t].role = "owner" /\ members'[t].status = members[t].status
      /\ members'[t] # None
      /\ members'[a].role = "admin" /\ members'[a].status = members[a].status
      /\ members'[a] # None
  BY <1>7, <1>8, GroupConstants DEF NewMember
<1>10. OneOwner => OneOwner'
  BY <1>1, <1>2, <1>4, <1>7, <1>9 DEF OneOwner, IsOwner, Active, HasRow
<1>11. OfficersAreActive => OfficersAreActive'
  BY <1>1, <1>2, <1>4, <1>7, <1>9 DEF OfficersAreActive, Officer, IsOwner, Active, HasRow
<1>12. GivenUp(a)
  BY <1>1, <1>2 DEF GivenUp, InFlight
<1>13. ~dissolved /\ OneOwner => \A u \in User : IsOwner(u) => u = a
  BY <1>2, <1>4 DEF OneOwner
<1> QED  BY <1>10, <1>11, <1>12, <1>13 DEF Kept

\* A member leaves; the owner hands over first.
LEMMA LeaveKept ==
  ASSUME TypeOK, CallsNamed, ~StaleWrite, NEW h \in Handler, LeaveGroup(h)
  PROVE  Kept
<1>0. Commit(h, "leaveGroup", job[h].targets \cup {job[h].actor}, TRUE,
             job[h].me.status = "active")
  BY DEF LeaveGroup
<1>1. "leaveGroup" \in RowCall /\ InFlight(h, {"leaveGroup"})
      /\ job[h].step = "write" /\ job' = [job EXCEPT ![h] = None] /\ dissolved' = dissolved
  BY <1>0 DEF LeaveGroup, Commit, RowCall
<1>2. StillHolds(h) /\ CallNamed(h) /\ job[h].call = "leaveGroup"
      /\ job[h].actor \in User /\ InFlight(h, RowCall) /\ job'[h] = None
  BY <1>1, Ending DEF OwnCall
<1>a. PICK a \in User : a = job[h].actor
  BY <1>2
<1>3. members[a] = job[h].me /\ \A t \in job[h].targets : Active(t)
  BY <1>2, <1>a DEF StillHolds
<1>4. members' = [u \in User |->
        IF u = a THEN None
        ELSE IF u \in job[h].targets THEN NewMember("owner", members[u].status)
        ELSE members[u]]
  BY <1>a DEF LeaveGroup
<1>5. ~HasRow(a)'
  BY <1>2, <1>4 DEF HasRow
<1>6. GivenUp(a)
  BY <1>1, <1>2, <1>a DEF GivenUp, InFlight
<1>7. CASE LeavesAsOwner(job[h])
  <2>1. members[a] = NewMember("owner", "active") /\ IsOwner(a) /\ Active(a)
    <3>1. members[a] = NewMember("owner", "active") /\ NewMember("owner", "active") \in Member
      BY <1>3, <1>7 DEF LeavesAsOwner, NewMember, Member, Role, Status
    <3> QED  BY <3>1, GroupConstants DEF IsOwner, Active, HasRow, NewMember
  <2>2. PICK t \in User \ {a} : job[h].targets = {t}
    BY <1>1, <1>2, <1>7, <1>a DEF CallNamed
  <2>3. Active(t) /\ members[t] \in Member
    BY <1>3, <2>2, RowsAndJobs DEF Active
  <2>4. /\ members'[t] = NewMember("owner", members[t].status)
        /\ \A u \in User \ {t, a} : members'[u] = members[u]
    BY <1>4, <2>2
  <2>5. NewMember("owner", members[t].status) \in Member
    BY <2>3 DEF NewMember, Member, Role
  <2>6. members'[t].role = "owner" /\ members'[t].status = members[t].status /\ members'[t] # None
    BY <2>4, <2>5, GroupConstants DEF NewMember
  <2>7. OneOwner => OneOwner'
    BY <1>1, <1>2, <1>5, <2>1, <2>3, <2>4, <2>6 DEF OneOwner, IsOwner, Active, HasRow
  <2>8. OfficersAreActive => OfficersAreActive'
    BY <1>1, <1>2, <1>5, <2>1, <2>3, <2>4, <2>6
       DEF OfficersAreActive, Officer, IsOwner, Active, HasRow
  <2>9. ~dissolved /\ OneOwner => \A u \in User : IsOwner(u) => u = a
    BY <1>2, <2>1 DEF OneOwner
  <2> QED  BY <1>6, <2>7, <2>8, <2>9 DEF Kept
<1>8. CASE ~LeavesAsOwner(job[h])
  <2>1. job[h].targets = {}
    BY <1>1, <1>2, <1>8 DEF CallNamed
  <2>2. \A u \in User \ {a} : members'[u] = members[u]
    BY <1>4, <2>1
  <2>3. ~dissolved /\ OneOwner => ~IsOwner(a)
    <3>1. members[a] \in Member
      BY <1>2, <1>3 DEF CallNamed
    <3>2. IsOwner(a) /\ Active(a) => members[a] = NewMember("owner", "active")
      BY <3>1 DEF IsOwner, Active, NewMember, Member
    <3>3. ~(IsOwner(a) /\ Active(a))
      BY <1>3, <1>8, <3>2 DEF LeavesAsOwner
    <3> QED  BY <1>2, <3>3 DEF OneOwner
  <2>4. \A u \in User : IsOwner(u)' => u # a /\ IsOwner(u)
    BY <1>5, <2>2 DEF IsOwner, Active, HasRow
  <2>5. ASSUME OneOwner PROVE OneOwner'
    <3>1. SUFFICES ASSUME ~dissolved
                   PROVE  \E u \in User : /\ IsOwner(u)' /\ Active(u)'
                                         /\ \A v \in User : IsOwner(v)' => v = u
      BY <1>1 DEF OneOwner
    <3>2. PICK u \in User : IsOwner(u) /\ Active(u) /\ \A v \in User : IsOwner(v) => v = u
      BY <2>5, <3>1 DEF OneOwner
    <3>3. u # a
      BY <2>3, <2>5, <3>1, <3>2
    <3>4. IsOwner(u)' /\ Active(u)'
      BY <2>2, <3>2, <3>3 DEF IsOwner, Active, HasRow
    <3>5. \A v \in User : IsOwner(v)' => v = u
      BY <2>4, <3>2
    <3> QED  BY <3>4, <3>5
  <2>6. OfficersAreActive => OfficersAreActive'
    BY <1>1, <1>5, <2>2 DEF OfficersAreActive, Active, HasRow
  <2>7. ASSUME ~dissolved, OneOwner, NEW u \in User, IsOwner(u)
        PROVE  IsOwner(u)'
    <3>1. u # a
      BY <2>3, <2>7
    <3> QED  BY <2>2, <2>7, <3>1 DEF IsOwner, HasRow
  <2> QED  BY <2>5, <2>6, <2>7 DEF Kept
<1> QED
  BY <1>7, <1>8

\* The owner's dissolution commits: whoever has a role was there to be deleted.
LEMMA DissolveKept ==
  ASSUME TypeOK, CallsNamed, ~StaleWrite, NEW h \in Handler, Dissolve(h)
  PROVE  Kept
<1>1. "dissolveGroup" \in RowCall /\ InFlight(h, {"dissolveGroup"})
      /\ job[h].step = "write" /\ job' = [job EXCEPT ![h] = None] /\ dissolved' = TRUE
  BY DEF Dissolve, Dissolving, RowCall
<1>2. StillHolds(h) /\ job[h].call = "dissolveGroup" /\ job[h].actor \in User
      /\ job'[h] = None
  BY <1>1, Ending DEF OwnCall
<1>3. /\ IsOwner(job[h].actor)
      /\ \A u \in User : HasRow(u) /\ Officer(members[u]) => u \in job[h].targets
  BY <1>2 DEF StillHolds
<1>4. members' = [u \in User |-> IF u \in job[h].targets THEN None ELSE members[u]]
  BY DEF Dissolve
<1>5. ASSUME NEW u \in User PROVE ~(HasRow(u) /\ Officer(members[u]))'
  <2>1. CASE u \in job[h].targets
    BY <1>4, <2>1 DEF HasRow
  <2>2. CASE u \notin job[h].targets
    BY <1>3, <1>4, <2>2 DEF HasRow, Officer
  <2> QED
    BY <2>1, <2>2
<1>6. OneOwner' /\ OfficersAreActive'
  BY <1>1, <1>5 DEF OneOwner, OfficersAreActive
<1>7. GivenUp(job[h].actor)
  BY <1>1, <1>2 DEF GivenUp, InFlight
<1>8. ~dissolved /\ OneOwner => \A u \in User : IsOwner(u) => u = job[h].actor
  BY <1>2, <1>3 DEF OneOwner
<1> QED  BY <1>6, <1>7, <1>8 DEF Kept

\* Every step.
LEMMA KeptStep ==
  ASSUME TypeOK, CallsNamed, [Next]_vars, ~StaleWrite
  PROVE  Kept
<1>1. CASE UNCHANGED vars
  BY <1>1, RowsAlone DEF vars
<1>2. ASSUME NEW h \in Handler, NEW u \in User, BeginCall(h, u)
      PROVE  UNCHANGED <<members, dissolved>>
  BY <1>2 DEF BeginCall, BeginAsMember, BeginAsOfficer, BeginAsOwner, BeginLeave, BeginJoin, Begin
<1>3. ASSUME NEW h \in Handler, Check(h) \/ Fail(h)
      PROVE  UNCHANGED <<members, dissolved>>
  BY <1>3 DEF Fail, Check, CheckAdd, CheckPending, CheckRole, CheckTransfer, CheckRemove,
              CheckLeave, CheckJoin, CheckRequest, Proceed
<1>4. ASSUME NEW h \in Handler, DeleteAll(h) \/ CreateSelfJoinRequest(h) \/ RejectJoinRequest(h)
      PROVE  UNCHANGED <<members, dissolved>>
  BY <1>4 DEF DeleteAll, CreateSelfJoinRequest, RejectJoinRequest, Proceed
<1>5. ASSUME NEW h \in Handler, Write(h)
      PROVE  Kept
  BY <1>4, <1>5, RowsAlone, LettingIn, LetInKept, DeleteKept, RoleKept, TransferKept, LeaveKept,
     DissolveKept
     DEF Write
<1>6. CASE Next
  <2>1. PICK h \in Handler : (\E u \in User : BeginCall(h, u)) \/ Check(h) \/ Write(h) \/ Fail(h)
    BY <1>6 DEF Next
  <2> QED  BY <1>2, <1>3, <1>5, <2>1, RowsAlone
<1> QED  BY <1>1, <1>6

------------------------------------------------------------------------------
(* Theorems about roles *)

LEMMA CallsInvariant == Spec => [](TypeOK /\ CallsNamed)
<1>1. Init => CallsNamed
  BY DEF Init, CallsNamed, CallNamed, InFlight
<1> QED  BY <1>1, NamedStep, GroupsTypeCorrect, PTL DEF Spec

\* Whatever calls overlap, a step that leaves a group with none or two owners
\* ends a call whose checks held no longer when it wrote.
THEOREM OneOwnerUnlessStale == Spec => OneOwnerKept
<1>1. TypeOK /\ CallsNamed /\ [Next]_vars => [OneOwner => OneOwner' \/ StaleWrite]_vars
  BY KeptStep DEF Kept
<1> QED  BY <1>1, CallsInvariant, PTL DEF Spec, OneOwnerKept

\* And so does one that gives a role to somebody who is not an active member, or
\* leaves one behind when softDissolveGroupConversation commits.
THEOREM RolesNeedMembership == Spec => OfficersStayActive
<1>1. TypeOK /\ CallsNamed /\ [Next]_vars =>
        [OfficersAreActive => OfficersAreActive' \/ StaleWrite]_vars
  BY KeptStep DEF Kept
<1> QED  BY <1>1, CallsInvariant, PTL DEF Spec, OfficersStayActive

\* Apart from such calls nobody takes the ownership away: only the owner's own
\* transferOwnership, leaveGroup or dissolveGroup ends it.
THEOREM OwnershipEndsByOwner == Spec => OwnershipIsGivenUp
<1>1. TypeOK /\ CallsNamed /\ [Next]_vars =>
        [~dissolved /\ OneOwner =>
           \A u \in User : IsOwner(u) /\ ~IsOwner(u)' => GivenUp(u) \/ StaleWrite]_vars
  BY KeptStep DEF Kept
<1> QED  BY <1>1, CallsInvariant, PTL DEF Spec, OwnershipIsGivenUp
=============================================================================
