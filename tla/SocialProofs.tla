---------------------------- MODULE SocialProofs ----------------------------
(****************************************************************************)
(* Proofs about Social, for any users, request rows and handlers.  The       *)
(* inductive invariant adds to the types what a serializable transaction may *)
(* still rely on while it is open: nobody has committed a block that an      *)
(* acceptance has not seen, and nobody a friendship that a block has not     *)
(* seen, because that commit would have failed it.                           *)
(****************************************************************************)
EXTENDS Social, TLAPS

\* An open acceptance that will befriend two users: neither blocks the other.
AcceptUnblocked ==
  \A h \in Handler : Serving(h, "accept") /\ ~job[h].already =>
    ~Blocked(job[h].sender, job[h].receiver)

\* An open block that will delete no friendship: there is none.
BlockSeesFriendship ==
  \A h \in Handler : Serving(h, "block") /\ ~job[h].friendship =>
    {job[h].blocker, job[h].blocked} \notin friends

\* A row that is there and is between the users of q.
SameUsers(q, row) == row # NoRequest /\ row.sender = q.sender /\ row.receiver = q.receiver

\* A request that is about to be decided is there, and one that is about to be
\* accepted is between the same users as before: rows do not disappear.
RequestFound ==
  \A h \in Handler : job[h] # Idle =>
    /\ job[h].op \in {"reject", "cancel"} => requests[job[h].id] # NoRequest
    /\ job[h].op = "accept" => SameUsers(job[h], requests[job[h].id])

Typed     == TypeOK /\ RequestFound
SocialInv == Typed /\ AcceptUnblocked /\ BlockSeesFriendship /\ NoFriendshipWhileBlocked

------------------------------------------------------------------------------
(* Lemmas about the data *)

\* Two pairs are equal when they have the same users, in either order.
LEMMA SamePair ==
  ASSUME NEW u, NEW v, NEW x, NEW y
  PROVE  {u, v} = {x, y} <=> (u = x /\ v = y) \/ (u = y /\ v = x)
  OBVIOUS

\* Two different users are a pair.
LEMMA PairOfUsers ==
  ASSUME NEW u \in User, NEW v \in User, u # v
  PROVE  {u, v} \in Pair
<1>1. <<u, v>> \in {uv \in User \X User : uv[1] # uv[2]}
  OBVIOUS
<1>2. {u, v} = {<<u, v>>[1], <<u, v>>[2]}
  OBVIOUS
<1> QED  BY <1>1, <1>2 DEF Pair

\* A handler's operation says what it keeps.
LEMMA JobKinds ==
  ASSUME TypeOK, NEW h \in Handler, job[h] # Idle
  PROVE  /\ job[h].op = "send" => job[h] \in SendJob
         /\ job[h].op \in {"reject", "cancel"} => job[h] \in DecideJob
         /\ job[h].op = "accept" => job[h] \in AcceptJob
         /\ job[h].op = "block" => job[h] \in BlockJob
<1>1. job[h] \in Job
  BY DEF TypeOK
<1> QED  BY <1>1 DEF Job, SendJob, DecideJob, AcceptJob, BlockJob

\* A job of one of the kinds is a job, and not Idle.
LEMMA KindsAreJobs ==
  ASSUME NEW j \in SendJob \cup DecideJob \cup AcceptJob \cup BlockJob
  PROVE  j \in Job /\ j # Idle
  BY IdleIsNoJob DEF Job

\* A row that is there is a request.
LEMMA RequestRows ==
  ASSUME TypeOK, NEW r \in RequestId, requests[r] # NoRequest
  PROVE  /\ requests[r] \in FriendRequest
         /\ requests[r].sender \in User /\ requests[r].receiver \in User
         /\ requests[r].sender # requests[r].receiver
<1>1. requests[r] \in FriendRequest
  BY DEF TypeOK
<1> QED  BY <1>1 DEF FriendRequest

\* Giving a status to rows that are there leaves the table well-typed.
LEMMA MarkedType ==
  ASSUME TypeOK, NEW S \in SUBSET RequestId, \A r \in S : requests[r] # NoRequest,
         NEW status \in RequestStatus
  PROVE  /\ Marked(S, status) \in [RequestId -> FriendRequest \cup {NoRequest}]
         /\ \A r \in RequestId :
              requests[r] # NoRequest => SameUsers(requests[r], Marked(S, status)[r])
<1>1. \A r \in S : [requests[r] EXCEPT !.status = status] \in FriendRequest
  BY RequestRows DEF FriendRequest
<1> QED  BY <1>1, NoRequestIsNoRow, RequestRows DEF Marked, TypeOK, SameUsers, FriendRequest

\* A commit changes no other job than by failing it.
LEMMA CommitJobs ==
  ASSUME TypeOK, NEW h \in Handler, CommitSerializable(h)
  PROVE  /\ job' \in [Handler -> Job \cup {Idle}]
         /\ \A k \in Handler : job'[k] # Idle => k # h /\ job'[k] = job[k]
  BY DEF CommitSerializable, TypeOK

\* A step that begins no job and keeps the rows keeps RequestFound.
LEMMA RowsStayFound ==
  ASSUME TypeOK, RequestFound,
         \A k \in Handler : job'[k] = Idle \/ job'[k] = job[k],
         \A r \in RequestId : requests[r] # NoRequest => SameUsers(requests[r], requests'[r])
  PROVE  RequestFound'
<1> SUFFICES ASSUME NEW k \in Handler, job[k] # Idle, job'[k] = job[k],
                    job[k].op \in {"reject", "cancel", "accept"}
             PROVE  /\ job[k].op \in {"reject", "cancel"} => requests'[job[k].id] # NoRequest
                    /\ job[k].op = "accept" => SameUsers(job[k], requests'[job[k].id])
  BY DEF RequestFound, SameUsers
<1>1. job[k].id \in RequestId
  BY JobKinds DEF DecideJob, AcceptJob
<1> QED  BY <1>1 DEF RequestFound, SameUsers

------------------------------------------------------------------------------
(* Type correctness *)

\* The tables and the handlers start well-typed.
LEMMA TypeInit == Init => Typed
  BY DEF Init, Typed, TypeOK, RequestFound, SameUsers

\* Every step keeps the tables and the handlers well-typed.
LEMMA TypeStep == Typed /\ [Next]_vars => Typed'
<1> SUFFICES ASSUME TypeOK, RequestFound, [Next]_vars PROVE Typed'
  BY DEF Typed
<1>1. ASSUME NEW h \in Handler, NEW u \in User, NEW v \in User, StartSend(h, u, v)
      PROVE  Typed'
  <2> DEFINE j == [op |-> "send", sender |-> u, receiver |-> v, step |-> "block"]
  <2>1. j \in SendJob
    BY <1>1 DEF StartSend, SendJob
  <2>2. j \in Job
    BY <2>1, KindsAreJobs
  <2> QED  BY <1>1, <2>2 DEF StartSend, Become, Typed, TypeOK, RequestFound, SameUsers
<1>2. ASSUME NEW h \in Handler, NEW u \in User, NEW v \in User, StartBlock(h, u, v)
      PROVE  Typed'
  <2> DEFINE j == [op |-> "block", blocker |-> u, blocked |-> v,
                   friendship |-> {u, v} \in friends, pending |-> PendingBetween(u, v)]
  <2>1. PendingBetween(u, v) \subseteq RequestId
    BY DEF PendingBetween
  <2>2. j \in BlockJob
    BY <1>2, <2>1 DEF StartBlock, BlockJob
  <2>3. j \in Job
    BY <2>2, KindsAreJobs
  <2> QED  BY <1>2, <2>3 DEF StartBlock, Become, Typed, TypeOK, RequestFound, SameUsers
<1>3. ASSUME NEW h \in Handler, NEW r \in RequestId, CreateRequest(h, r)
      PROVE  Typed'
  <2>1. job[h] \in SendJob
    BY <1>3, JobKinds DEF CreateRequest, Serving
  <2>2. [sender |-> job[h].sender, receiver |-> job[h].receiver, status |-> "pending"]
          \in FriendRequest
    BY <2>1 DEF SendJob, FriendRequest, RequestStatus
  <2>3. TypeOK'
    BY <1>3, <2>2 DEF CreateRequest, Done, Become, TypeOK
  <2>4. RequestFound'
    BY <1>3, <2>2, NoRequestIsNoRow, JobKinds
       DEF CreateRequest, Done, Become, TypeOK, RequestFound, SameUsers, DecideJob, AcceptJob
  <2> QED  BY <2>3, <2>4 DEF Typed
<1>4. ASSUME NEW h \in Handler, NEW r \in RequestId, StartAccept(h, r)
      PROVE  Typed'
  <2> DEFINE u == requests[r].sender
             v == requests[r].receiver
             j == [op |-> "accept", id |-> r, sender |-> u, receiver |-> v,
                   already |-> {u, v} \in friends,
                   others |-> PendingBetween(u, v) \ {r}]
  <2>1. u \in User /\ v \in User /\ u # v
    BY <1>4, RequestRows DEF StartAccept, IsPending
  <2>2. PendingBetween(u, v) \ {r} \in SUBSET RequestId
    BY DEF PendingBetween
  <2>3. job' = [job EXCEPT ![h] = j] /\ UNCHANGED <<friends, blocks, requests>>
    BY <1>4 DEF StartAccept, Become
  <2> HIDE DEF u, v
  <2>4. j \in AcceptJob
    BY <2>1, <2>2 DEF AcceptJob
  <2>5. j \in Job
    BY <2>4, KindsAreJobs
  <2>6. SameUsers(j, requests[r])
    BY <1>4 DEF StartAccept, IsPending, SameUsers, u, v
  <2>7. TypeOK'
    BY <2>3, <2>5 DEF TypeOK
  <2>8. RequestFound'
    BY <2>3, <2>6 DEF TypeOK, RequestFound, SameUsers
  <2> QED  BY <2>7, <2>8 DEF Typed
<1>5. ASSUME NEW h \in Handler, NEW r \in RequestId, NEW op \in {"reject", "cancel"},
             FindRequest(h, r, op)
      PROVE  Typed'
  <2>1. [op |-> op, id |-> r] \in DecideJob
    BY DEF DecideJob
  <2>2. [op |-> op, id |-> r] \in Job
    BY <2>1, KindsAreJobs
  <2> QED  BY <1>5, <2>2 DEF FindRequest, IsPending, Become, Typed, TypeOK, RequestFound, SameUsers
<1>6. ASSUME NEW h \in Handler, CheckSend(h)
      PROVE  Typed'
  <2>1. job[h] \in SendJob /\ job[h].step \in {"block", "friendship", "pending"}
    <3>1. job[h] \in SendJob
      BY <1>6, JobKinds DEF CheckSend, Serving
    <3> QED  BY <1>6, <3>1 DEF CheckSend, SendJob
  <2>2. NextCheck[job[h].step] \in {"friendship", "pending", "create"}
    BY <2>1 DEF NextCheck
  <2>3. [job[h] EXCEPT !.step = NextCheck[job[h].step]] \in SendJob
    BY <2>1, <2>2 DEF SendJob
  <2>4. [job[h] EXCEPT !.step = NextCheck[job[h].step]] \in Job
    BY <2>3, KindsAreJobs
  <2> QED  BY <1>6, <2>1, <2>4
           DEF CheckSend, Done, Become, Typed, TypeOK, RequestFound, SameUsers, SendJob
<1>7. ASSUME NEW h \in Handler, DecideRequest(h)
      PROVE  Typed'
  <2> DEFINE status == IF job[h].op = "reject" THEN "rejected" ELSE "cancelled"
  <2>1. job[h].id \in RequestId /\ requests[job[h].id] # NoRequest
    BY <1>7, JobKinds DEF DecideRequest, DecideJob, RequestFound
  <2>2. status \in RequestStatus
    BY DEF RequestStatus
  <2>3. requests' = Marked({job[h].id}, status)
    BY <1>7 DEF DecideRequest
  <2> HIDE DEF status
  <2>4. /\ requests' \in [RequestId -> FriendRequest \cup {NoRequest}]
        /\ \A r \in RequestId : requests[r] # NoRequest => SameUsers(requests[r], requests'[r])
    BY <2>1, <2>2, <2>3, MarkedType
  <2>5. TypeOK'
    BY <1>7, <2>4 DEF DecideRequest, Done, Become, TypeOK
  <2>6. RequestFound'
    BY <1>7, <2>4, RowsStayFound DEF DecideRequest, Done, Become, TypeOK
  <2> QED  BY <2>5, <2>6 DEF Typed
<1>8. ASSUME NEW h \in Handler, AcceptAlready(h)
      PROVE  Typed'
  <2>1. job[h].id \in RequestId /\ requests[job[h].id] # NoRequest
    BY <1>8, JobKinds DEF AcceptAlready, Serving, AcceptJob, IsPending
  <2>2. /\ requests' \in [RequestId -> FriendRequest \cup {NoRequest}]
        /\ \A r \in RequestId : requests[r] # NoRequest => SameUsers(requests[r], requests'[r])
    BY <1>8, <2>1, MarkedType DEF AcceptAlready, RequestStatus
  <2>3. TypeOK'
    BY <1>8, <2>2, CommitJobs DEF AcceptAlready, TypeOK
  <2>4. RequestFound'
    BY <1>8, <2>2, CommitJobs, RowsStayFound DEF AcceptAlready
  <2> QED  BY <2>3, <2>4 DEF Typed
<1>9. ASSUME NEW h \in Handler, AcceptBefriends(h)
      PROVE  Typed'
  <2> DEFINE j == job[h]
             marked == Marked(j.others, "cancelled")
  <2>1. j \in AcceptJob
    BY <1>9, JobKinds DEF AcceptBefriends, Serving
  <2>2. /\ j.id \in RequestId /\ j.others \subseteq RequestId
        /\ \A r \in j.others \cup {j.id} : requests[r] # NoRequest
        /\ {j.sender, j.receiver} \in Pair
    BY <1>9, <2>1, PairOfUsers DEF AcceptBefriends, AcceptJob, IsPending
  <2>3. /\ marked \in [RequestId -> FriendRequest \cup {NoRequest}]
        /\ \A r \in RequestId : requests[r] # NoRequest => SameUsers(requests[r], marked[r])
    BY <2>2, MarkedType DEF RequestStatus
  <2>4. requests' = [marked EXCEPT ![j.id] = [marked[j.id] EXCEPT !.status = "accepted"]]
    BY <1>9, <2>2, <2>3 DEF AcceptBefriends
  <2> HIDE DEF marked
  <2>5. marked[j.id] \in FriendRequest
    BY <2>2, <2>3 DEF SameUsers
  <2>6. [marked[j.id] EXCEPT !.status = "accepted"] \in FriendRequest
    BY <2>5 DEF FriendRequest, RequestStatus
  <2>7. /\ requests' \in [RequestId -> FriendRequest \cup {NoRequest}]
        /\ \A r \in RequestId : requests[r] # NoRequest => SameUsers(requests[r], requests'[r])
    BY <2>2, <2>3, <2>4, <2>6, NoRequestIsNoRow DEF SameUsers, FriendRequest
  <2>8. TypeOK'
    BY <1>9, <2>2, <2>7, CommitJobs DEF AcceptBefriends, TypeOK
  <2>9. RequestFound'
    BY <1>9, <2>7, CommitJobs, RowsStayFound DEF AcceptBefriends
  <2> QED  BY <2>8, <2>9 DEF Typed
<1>10. ASSUME NEW h \in Handler, CommitBlock(h)
       PROVE  Typed'
  <2> DEFINE j == job[h]
  <2>1. j \in BlockJob
    BY <1>10, JobKinds DEF CommitBlock, Serving
  <2>2. /\ j.pending \subseteq RequestId
        /\ \A r \in j.pending : requests[r] # NoRequest
        /\ <<j.blocker, j.blocked>> \in {uv \in User \X User : uv[1] # uv[2]}
    BY <1>10, <2>1 DEF CommitBlock, BlockJob, IsPending
  <2>3. /\ requests' \in [RequestId -> FriendRequest \cup {NoRequest}]
        /\ \A r \in RequestId : requests[r] # NoRequest => SameUsers(requests[r], requests'[r])
    BY <1>10, <2>2, MarkedType DEF CommitBlock, RequestStatus
  <2>4. friends' \subseteq Pair
    BY <1>10 DEF CommitBlock, TypeOK
  <2>5. blocks' \subseteq {uv \in User \X User : uv[1] # uv[2]}
    BY <1>10, <2>2 DEF CommitBlock, TypeOK
  <2>6. TypeOK'
    BY <1>10, <2>3, <2>4, <2>5, CommitJobs DEF CommitBlock, TypeOK
  <2>7. RequestFound'
    BY <1>10, <2>3, CommitJobs, RowsStayFound DEF CommitBlock
  <2> QED  BY <2>6, <2>7 DEF Typed
<1>11. ASSUME NEW h \in Handler, Abort(h)
       PROVE  Typed'
  BY <1>11 DEF Abort, Done, Become, Typed, TypeOK, RequestFound, SameUsers
<1>12. ASSUME NEW u \in User, NEW v \in User, removeBlock(u, v)
       PROVE  Typed'
  BY <1>12 DEF removeBlock, Typed, TypeOK, RequestFound, SameUsers
<1>13. ASSUME NEW u \in User, NEW v \in User, unfriend(u, v)
       PROVE  Typed'
  <2>1. /\ PendingBetween(u, v) \subseteq RequestId
        /\ \A r \in PendingBetween(u, v) : requests[r] # NoRequest
    BY DEF PendingBetween, IsPending
  <2>2. /\ requests' \in [RequestId -> FriendRequest \cup {NoRequest}]
        /\ \A r \in RequestId : requests[r] # NoRequest => SameUsers(requests[r], requests'[r])
    BY <1>13, <2>1, MarkedType DEF unfriend, RequestStatus
  <2>3. TypeOK'
    BY <1>13, <2>2 DEF unfriend, TypeOK
  <2>4. RequestFound'
    BY <1>13, <2>2, RowsStayFound DEF unfriend
  <2> QED  BY <2>3, <2>4 DEF Typed
<1>14. CASE UNCHANGED vars
  BY <1>14 DEF vars, Typed, TypeOK, RequestFound, SameUsers
<1> QED
  BY <1>1, <1>2, <1>3, <1>4, <1>5, <1>6, <1>7, <1>8, <1>9, <1>10, <1>11, <1>12, <1>13, <1>14
     DEF Next

------------------------------------------------------------------------------
(* Friends and blocks *)

\* The commit of a block fails every acceptance for the two users.
LEMMA BlockFailsAcceptance ==
  ASSUME TypeOK, NEW h \in Handler, NEW k \in Handler,
         Serving(h, "block"), Serving(k, "accept"), ~job[k].already,
         {job[k].sender, job[k].receiver} = {job[h].blocker, job[h].blocked}
  PROVE  Unserializable(job[h], job[k])
<1> DEFINE j == job[h]
           i == job[k]
<1>1. j.op = "block" /\ i.op = "accept"
  BY DEF Serving
<1>2. BlockRow(j.blocker, j.blocked) \in ReadsOf(i) \cap WritesOf(j)
  BY <1>1, SamePair DEF ReadsOf, WritesOf, BlockRow, Friendship
<1>3. Friendship(j.blocker, j.blocked) \in ReadsOf(j) \cap WritesOf(i)
  BY <1>1 DEF ReadsOf, WritesOf, BlockRow, Friendship
<1> QED  BY <1>2, <1>3 DEF Unserializable

\* The commit of a friendship fails every block between the two users.
LEMMA FriendshipFailsBlock ==
  ASSUME TypeOK, NEW h \in Handler, NEW k \in Handler,
         Serving(h, "accept"), ~job[h].already, Serving(k, "block"),
         {job[h].sender, job[h].receiver} = {job[k].blocker, job[k].blocked}
  PROVE  Unserializable(job[h], job[k])
<1>1. Unserializable(job[k], job[h])
  BY BlockFailsAcceptance
<1> QED  BY <1>1 DEF Unserializable

\* A commit fails what conflicts with it.
LEMMA CommitFails ==
  ASSUME NEW h \in Handler, NEW k \in Handler, CommitSerializable(h),
         job[k] # Idle, Unserializable(job[h], job[k])
  PROVE  job'[k] = Idle
  BY DEF CommitSerializable

\* A step that neither blocks, nor befriends, nor begins such a transaction.
LEMMA QuietStep ==
  ASSUME SocialInv, friends' \subseteq friends, blocks' \subseteq blocks,
         \A k \in Handler :
           \/ job'[k] = Idle \/ job'[k] = job[k]
           \/ job'[k].op \notin {"accept", "block"}
  PROVE  AcceptUnblocked' /\ BlockSeesFriendship' /\ NoFriendshipWhileBlocked'
<1>1. AcceptUnblocked'
  BY DEF SocialInv, AcceptUnblocked, Serving, Blocked
<1>2. BlockSeesFriendship'
  BY DEF SocialInv, BlockSeesFriendship, Serving
<1>3. NoFriendshipWhileBlocked'
  BY DEF SocialInv, NoFriendshipWhileBlocked, Blocked
<1> QED  BY <1>1, <1>2, <1>3

\* The invariant holds at the start.
LEMMA SocialInvInit == Init => SocialInv
<1> SUFFICES ASSUME Init PROVE SocialInv
  OBVIOUS
<1>1. AcceptUnblocked /\ BlockSeesFriendship /\ NoFriendshipWhileBlocked
  BY DEF Init, AcceptUnblocked, BlockSeesFriendship, NoFriendshipWhileBlocked, Serving
<1> QED  BY <1>1, TypeInit DEF SocialInv

\* Every step keeps the invariant.
LEMMA SocialInvStep == SocialInv /\ [Next]_vars => SocialInv'
<1> SUFFICES ASSUME SocialInv, [Next]_vars PROVE SocialInv'
  OBVIOUS
<1> DEFINE Goal == AcceptUnblocked' /\ BlockSeesFriendship' /\ NoFriendshipWhileBlocked'
<1>t. Typed'
  BY TypeStep DEF SocialInv
<1>y. TypeOK
  BY DEF SocialInv, Typed
<1>1. ASSUME NEW h \in Handler, NEW u \in User, NEW v \in User, StartSend(h, u, v)
      PROVE  Goal
  BY <1>1, <1>y, QuietStep DEF StartSend, Become, TypeOK
<1>2. ASSUME NEW h \in Handler, NEW u \in User, NEW v \in User, StartBlock(h, u, v)
      PROVE  Goal
  <2> DEFINE j == [op |-> "block", blocker |-> u, blocked |-> v,
                   friendship |-> {u, v} \in friends, pending |-> PendingBetween(u, v)]
  <2>1. job' = [job EXCEPT ![h] = j] /\ UNCHANGED <<friends, blocks, requests>>
    BY <1>2 DEF StartBlock, Become
  <2>2. AcceptUnblocked'
    BY <2>1, <1>y DEF SocialInv, AcceptUnblocked, Serving, Blocked, TypeOK
  <2>3. BlockSeesFriendship'
    BY <2>1, <1>y DEF SocialInv, BlockSeesFriendship, Serving, TypeOK
  <2>4. NoFriendshipWhileBlocked'
    BY <2>1 DEF SocialInv, NoFriendshipWhileBlocked, Blocked
  <2> QED  BY <2>2, <2>3, <2>4
<1>3. ASSUME NEW h \in Handler, NEW r \in RequestId, CreateRequest(h, r)
      PROVE  Goal
  BY <1>3, <1>y, QuietStep DEF CreateRequest, Done, Become, TypeOK
<1>4. ASSUME NEW h \in Handler, NEW r \in RequestId, StartAccept(h, r)
      PROVE  Goal
  <2> DEFINE u == requests[r].sender
             v == requests[r].receiver
             j == [op |-> "accept", id |-> r, sender |-> u, receiver |-> v,
                   already |-> {u, v} \in friends,
                   others |-> PendingBetween(u, v) \ {r}]
  <2>1. /\ job' = [job EXCEPT ![h] = j] /\ UNCHANGED <<friends, blocks, requests>>
        /\ ~Blocked(u, v)
    BY <1>4 DEF StartAccept, Become
  <2> HIDE DEF u, v
  <2>2. AcceptUnblocked'
    BY <2>1, <1>y DEF SocialInv, AcceptUnblocked, Serving, Blocked, TypeOK
  <2>3. BlockSeesFriendship'
    BY <2>1, <1>y DEF SocialInv, BlockSeesFriendship, Serving, TypeOK
  <2>4. NoFriendshipWhileBlocked'
    BY <2>1 DEF SocialInv, NoFriendshipWhileBlocked, Blocked
  <2> QED  BY <2>2, <2>3, <2>4
<1>5. ASSUME NEW h \in Handler, NEW r \in RequestId, NEW op \in {"reject", "cancel"},
             FindRequest(h, r, op)
      PROVE  Goal
  BY <1>5, <1>y, QuietStep DEF FindRequest, Become, TypeOK
<1>6. ASSUME NEW h \in Handler, CheckSend(h)
      PROVE  Goal
  <2>1. job[h] \in SendJob
    BY <1>6, <1>y, JobKinds DEF CheckSend, Serving
  <2>2. [job[h] EXCEPT !.step = NextCheck[job[h].step]].op = "send"
    BY <2>1 DEF SendJob
  <2> QED  BY <1>6, <2>2, <1>y, QuietStep DEF CheckSend, Done, Become, TypeOK
<1>7. ASSUME NEW h \in Handler, DecideRequest(h)
      PROVE  Goal
  BY <1>7, <1>y, QuietStep DEF DecideRequest, Done, Become, TypeOK
<1>8. ASSUME NEW h \in Handler, AcceptAlready(h)
      PROVE  Goal
  BY <1>8, <1>y, CommitJobs, QuietStep DEF AcceptAlready
<1>9. ASSUME NEW h \in Handler, AcceptBefriends(h)
      PROVE  Goal
  <2> DEFINE u == job[h].sender
             v == job[h].receiver
  <2>1. ~Blocked(u, v)
    BY <1>9 DEF AcceptBefriends, SocialInv, AcceptUnblocked
  <2>2. friends' = friends \cup {{u, v}} /\ blocks' = blocks
    BY <1>9 DEF AcceptBefriends
  <2>3. \A k \in Handler : job'[k] # Idle => job'[k] = job[k]
    BY <1>9, <1>y, CommitJobs DEF AcceptBefriends
  <2>4. AcceptUnblocked'
    BY <2>2, <2>3 DEF SocialInv, AcceptUnblocked, Serving, Blocked
  <2>5. ASSUME NEW k \in Handler, Serving(k, "block"), job'[k] # Idle
        PROVE  {job[k].blocker, job[k].blocked} # {u, v}
    BY <1>9, <1>y, <2>5, FriendshipFailsBlock, CommitFails DEF AcceptBefriends, Serving
  <2>6. BlockSeesFriendship'
    BY <2>2, <2>3, <2>5 DEF SocialInv, BlockSeesFriendship, Serving
  <2>7. NoFriendshipWhileBlocked'
    <3> SUFFICES ASSUME NEW x \in User, NEW y \in User, {x, y} \in friends'
                 PROVE  ~Blocked(x, y)
      BY <2>2 DEF NoFriendshipWhileBlocked, Blocked
    <3>1. CASE {x, y} \in friends
      BY <3>1 DEF SocialInv, NoFriendshipWhileBlocked
    <3>2. CASE {x, y} = {u, v}
      BY <3>2, <2>1, SamePair DEF Blocked
    <3> QED  BY <2>2, <3>1, <3>2
  <2> QED  BY <2>4, <2>6, <2>7
<1>10. ASSUME NEW h \in Handler, CommitBlock(h)
       PROVE  Goal
  <2> DEFINE u == job[h].blocker
             v == job[h].blocked
  <2>1. /\ blocks' = blocks \cup {<<u, v>>}
        /\ friends' \subseteq friends
    BY <1>10 DEF CommitBlock
  <2>2. {u, v} \notin friends'
    BY <1>10 DEF CommitBlock, SocialInv, BlockSeesFriendship
  <2>3. \A k \in Handler : job'[k] # Idle => job'[k] = job[k]
    BY <1>10, <1>y, CommitJobs DEF CommitBlock
  <2>4. ASSUME NEW k \in Handler, Serving(k, "accept"), ~job[k].already, job'[k] # Idle
        PROVE  {job[k].sender, job[k].receiver} # {u, v}
    BY <1>10, <1>y, <2>4, BlockFailsAcceptance, CommitFails DEF CommitBlock, Serving
  <2>5. AcceptUnblocked'
    <3> SUFFICES ASSUME NEW k \in Handler, Serving(k, "accept")', (~job[k].already)'
                 PROVE  (~Blocked(job[k].sender, job[k].receiver))'
      BY DEF AcceptUnblocked
    <3>1. job'[k] = job[k] /\ job'[k] # Idle /\ Serving(k, "accept")
      BY <2>3 DEF Serving
    <3>2. ~Blocked(job[k].sender, job[k].receiver)
      BY <3>1 DEF SocialInv, AcceptUnblocked
    <3>3. {job[k].sender, job[k].receiver} # {u, v}
      BY <3>1, <2>4
    <3>4. /\ <<u, v>> # <<job[k].sender, job[k].receiver>>
          /\ <<u, v>> # <<job[k].receiver, job[k].sender>>
      BY <3>3, SamePair
    <3> QED  BY <3>1, <3>2, <3>4, <2>1 DEF Blocked
  <2>6. BlockSeesFriendship'
    BY <2>1, <2>3 DEF SocialInv, BlockSeesFriendship, Serving
  <2>7. NoFriendshipWhileBlocked'
    <3> SUFFICES ASSUME NEW x \in User, NEW y \in User, {x, y} \in friends'
                 PROVE  ~Blocked(x, y)'
      BY DEF NoFriendshipWhileBlocked
    <3>1. ~Blocked(x, y)
      BY <2>1 DEF SocialInv, NoFriendshipWhileBlocked
    <3>2. {x, y} # {u, v}
      BY <2>2
    <3>3. <<u, v>> # <<x, y>> /\ <<u, v>> # <<y, x>>
      BY <3>2, SamePair
    <3> QED  BY <3>1, <3>3, <2>1 DEF Blocked
  <2> QED  BY <2>5, <2>6, <2>7
<1>11. ASSUME NEW h \in Handler, Abort(h)
       PROVE  Goal
  BY <1>11, <1>y, QuietStep DEF Abort, Done, Become, TypeOK
<1>12. ASSUME NEW u \in User, NEW v \in User, removeBlock(u, v)
       PROVE  Goal
  BY <1>12, <1>y, QuietStep DEF removeBlock
<1>13. ASSUME NEW u \in User, NEW v \in User, unfriend(u, v)
       PROVE  Goal
  BY <1>13, <1>y, QuietStep DEF unfriend
<1>14. ASSUME UNCHANGED vars PROVE Goal
  BY <1>14, QuietStep DEF vars
<1>15. Goal
  BY <1>1, <1>2, <1>3, <1>4, <1>5, <1>6, <1>7, <1>8, <1>9, <1>10, <1>11, <1>12, <1>13, <1>14
     DEF Next
<1> QED  BY <1>t, <1>15 DEF SocialInv

\* The invariant holds in every state.
LEMMA SocialInvariant == Spec => []SocialInv
<1>1. Init => SocialInv
  BY SocialInvInit
<1>2. SocialInv /\ [Next]_vars => SocialInv'
  BY SocialInvStep
<1> QED  BY <1>1, <1>2, PTL DEF Spec

------------------------------------------------------------------------------
(* Theorems *)

\* The tables and the handlers keep their types, for any number of users, rows
\* and calls served at the same time.
THEOREM SocialTypeCorrect == Spec => []TypeOK
<1>1. SocialInv => TypeOK
  BY DEF SocialInv, Typed
<1> QED  BY <1>1, SocialInvariant, PTL

\* Nobody is the friend of a user who blocks him, however accepting, blocking
\* and unblocking overlap (acceptRequest and createBlock).
THEOREM BlockedAreNotFriends == Spec => []NoFriendshipWhileBlocked
<1>1. SocialInv => NoFriendshipWhileBlocked
  BY DEF SocialInv
<1> QED  BY <1>1, SocialInvariant, PTL

\* Only acceptRequest adds a friendship, and it is the one of its request.
LEMMA OnlyAcceptanceBefriends ==
  ASSUME [Next]_vars, NEW u \in User, NEW v \in User, {u, v} \in friends' \ friends
  PROVE  \E h \in Handler : AcceptBefriends(h) /\ {u, v} = {job[h].sender, job[h].receiver}
<1>1. PICK h \in Handler : AcceptBefriends(h)
  BY DEF Next, vars, StartSend, StartBlock, CreateRequest, StartAccept, FindRequest, CheckSend,
         DecideRequest, AcceptAlready, CommitBlock, Abort, removeBlock, unfriend
<1> QED  BY <1>1 DEF AcceptBefriends

\* A friendship begins with a request that is pending until that step.
LEMMA BefriendedStep == SocialInv /\ [Next]_vars => [BefriendedByRequest]_vars
<1> SUFFICES ASSUME SocialInv, [Next]_vars, NEW u \in User, NEW v \in User,
                    {u, v} \in friends' \ friends
             PROVE  \E r \in PendingBetween(u, v) : requests'[r].status = "accepted"
  BY DEF BefriendedByRequest
<1>1. PICK h \in Handler : AcceptBefriends(h) /\ {u, v} = {job[h].sender, job[h].receiver}
  BY OnlyAcceptanceBefriends
<1> DEFINE r == job[h].id
           marked == Marked(job[h].others, "cancelled")
<1>2. job[h] \in AcceptJob /\ job[h] # Idle
  BY <1>1, JobKinds DEF AcceptBefriends, Serving, SocialInv, Typed
<1>3. r \in RequestId
  BY <1>2 DEF AcceptJob
<1>4. SameUsers(job[h], requests[r])
  BY <1>2 DEF SocialInv, Typed, RequestFound, AcceptJob
<1>5. IsPending(r)
  BY <1>1 DEF AcceptBefriends
<1>6. r \in PendingBetween(u, v)
  BY <1>1, <1>3, <1>4, <1>5 DEF PendingBetween, SameUsers
<1>7. job[h].others \subseteq RequestId /\ \A q \in job[h].others : requests[q] # NoRequest
  BY <1>1, <1>2 DEF AcceptJob, AcceptBefriends, IsPending
<1>8. /\ marked \in [RequestId -> FriendRequest \cup {NoRequest}]
      /\ marked[r] # NoRequest
  BY <1>3, <1>5, <1>7, MarkedType DEF SocialInv, Typed, RequestStatus, SameUsers, IsPending
<1>9. requests' = [marked EXCEPT ![r] = [marked[r] EXCEPT !.status = "accepted"]]
  BY <1>1, <1>3, <1>8 DEF AcceptBefriends
<1> HIDE DEF marked
<1>10. marked[r] \in FriendRequest
  BY <1>3, <1>8
<1>11. requests'[r].status = "accepted"
  BY <1>3, <1>8, <1>9, <1>10 DEF FriendRequest
<1> QED  BY <1>6, <1>11

\* Nobody becomes a friend through a request that was rejected, cancelled or
\* accepted before (acceptRequest against rejectRequest, cancelRequest and the
\* acceptance of a crossing request).
THEOREM FriendshipNeedsPending == Spec => FriendshipFromPending
<1>1. SocialInv /\ [Next]_vars => [BefriendedByRequest]_vars
  BY BefriendedStep
<1> QED  BY <1>1, SocialInvariant, PTL DEF Spec, FriendshipFromPending

------------------------------------------------------------------------------
(* Refinement *)

\* The tables start empty, as in the abstract specification.
LEMMA RefinesInit == Init => R!Init
  BY DEF Init, R!Init

\* Every step is one of the abstract specification's, or changes neither table.
LEMMA RefinesStep == SocialInv /\ [Next]_vars => [R!Next]_(R!vars)
<1> SUFFICES ASSUME SocialInv, [Next]_vars PROVE [R!Next]_(R!vars)
  OBVIOUS
<1>y. TypeOK
  BY DEF SocialInv, Typed
<1>1. ASSUME NEW h \in Handler, AcceptBefriends(h)
      PROVE  R!Next
  <2> DEFINE u == job[h].sender
             v == job[h].receiver
  <2>1. u \in User /\ v \in User /\ u # v
    BY <1>1, <1>y, JobKinds DEF AcceptBefriends, Serving, AcceptJob
  <2>2. ~Blocked(u, v)
    BY <1>1 DEF AcceptBefriends, SocialInv, AcceptUnblocked
  <2>3. R!Befriend(u, v)
    BY <1>1, <2>1, <2>2 DEF AcceptBefriends, R!Befriend, Blocked
  <2> QED  BY <2>1, <2>3 DEF R!Next
<1>2. ASSUME NEW h \in Handler, CommitBlock(h)
      PROVE  R!Next
  <2> DEFINE u == job[h].blocker
             v == job[h].blocked
  <2>1. u \in User /\ v \in User /\ u # v
    BY <1>2, <1>y, JobKinds DEF CommitBlock, Serving, BlockJob
  <2>2. friends' = friends \ {{u, v}}
    BY <1>2 DEF CommitBlock, SocialInv, BlockSeesFriendship
  <2>3. R!Block(u, v)
    BY <1>2, <2>1, <2>2 DEF CommitBlock, R!Block
  <2> QED  BY <2>1, <2>3 DEF R!Next
<1>3. ASSUME NEW u \in User, NEW v \in User, removeBlock(u, v)
      PROVE  R!Next
  BY <1>3 DEF removeBlock, R!Next, R!Unblock
<1>4. ASSUME NEW u \in User, NEW v \in User, unfriend(u, v)
      PROVE  R!Next
  BY <1>4 DEF unfriend, R!Next, R!Unfriend
<1>5. ASSUME NEW h \in Handler, NEW u \in User, NEW v \in User,
             StartSend(h, u, v) \/ StartBlock(h, u, v)
      PROVE  UNCHANGED R!vars
  BY <1>5 DEF StartSend, StartBlock, R!vars
<1>6. ASSUME NEW h \in Handler, NEW r \in RequestId,
             \/ CreateRequest(h, r) \/ StartAccept(h, r)
             \/ \E op \in {"reject", "cancel"} : FindRequest(h, r, op)
      PROVE  UNCHANGED R!vars
  BY <1>6 DEF CreateRequest, StartAccept, FindRequest, R!vars
<1>7. ASSUME NEW h \in Handler,
             CheckSend(h) \/ DecideRequest(h) \/ AcceptAlready(h) \/ Abort(h)
      PROVE  UNCHANGED R!vars
  BY <1>7 DEF CheckSend, DecideRequest, AcceptAlready, Abort, R!vars
<1>8. CASE UNCHANGED vars
  BY <1>8 DEF vars, R!vars
<1> QED  BY <1>1, <1>2, <1>3, <1>4, <1>5, <1>6, <1>7, <1>8 DEF Next

\* For friendships and blocks the services behave as if each operation were
\* atomic: Social implements Relationship.
THEOREM SocialImplements == Spec => ImplementsRelationship
<1>1. Init => R!Init
  BY RefinesInit
<1>2. SocialInv /\ [Next]_vars => [R!Next]_(R!vars)
  BY RefinesStep
<1> QED  BY <1>1, <1>2, SocialInvariant, PTL DEF Spec, ImplementsRelationship, R!Spec
=============================================================================
