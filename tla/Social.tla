------------------------------- MODULE Social -------------------------------
(****************************************************************************)
(* Friend requests, friendships and blocks: FriendsService and BlocksService *)
(* over the three tables of Postgres.                                        *)
(*                                                                           *)
(* A handler is one API call being served.  What it does before its last     *)
(* database statement is reading, so the other handlers may commit between   *)
(* any two of its reads; what it writes takes effect in one step, at its     *)
(* COMMIT.  Handlers differ in how they are protected:                       *)
(*  - rejectRequest and cancelRequest use no transaction: they find the      *)
(*    request, then update it by its id;                                     *)
(*  - sendRequest and unfriend run at READ COMMITTED: each statement sees    *)
(*    what is committed when it starts;                                      *)
(*  - acceptRequest and createBlock are SERIALIZABLE: they read one snapshot,*)
(*    fail when a row they update has been changed since, and fail when they *)
(*    and another serializable transaction have each read what the other     *)
(*    wrote.  The services do not retry a transaction that fails.            *)
(*                                                                           *)
(* Left out: the request's message, inactive users, the lists, and the       *)
(* lookup of a user who does not exist.                                      *)
(****************************************************************************)
EXTENDS Naturals, FiniteSets

CONSTANTS
  User,
  RequestId,   \* bound: the rows friend_requests may get
  Handler,     \* bound: API calls served at the same time
  NoRequest,   \* a row that is not there yet
  Idle         \* a handler that serves no call

VARIABLES
  friends,   \* table friendships, as pairs {u, v}
  blocks,    \* table blocks, as <<blocker, blocked>>
  requests,  \* table friend_requests
  job        \* what each handler is doing

vars == <<friends, blocks, requests, job>>

\* The table keeps a pair of friends sorted, so it has one row for each pair.
Pair == {{uv[1], uv[2]} : uv \in {uv \in User \X User : uv[1] # uv[2]}}

RequestStatus == {"pending", "accepted", "rejected", "cancelled"}
FriendRequest ==
  {q \in [sender : User, receiver : User, status : RequestStatus] : q.sender # q.receiver}

ASSUME NoRequestIsNoRow == NoRequest \notin FriendRequest

SendJob ==
  {j \in [op : {"send"}, sender : User, receiver : User,
          step : {"block", "friendship", "pending", "create"}] : j.sender # j.receiver}
DecideJob == [op : {"reject", "cancel"}, id : RequestId]
AcceptJob ==
  {j \in [op : {"accept"}, id : RequestId, sender : User, receiver : User,
          already : BOOLEAN,              \* the snapshot has the friendship
          others : SUBSET RequestId]      \* the snapshot's other pending ones
     : j.sender # j.receiver}
BlockJob ==
  {j \in [op : {"block"}, blocker : User, blocked : User,
          friendship : BOOLEAN,           \* the snapshot has the friendship
          pending : SUBSET RequestId]     \* the snapshot's pending requests
     : j.blocker # j.blocked}

Job == SendJob \cup DecideJob \cup AcceptJob \cup BlockJob

ASSUME IdleIsNoJob == Idle \notin Job

TypeOK ==
  /\ friends \subseteq Pair
  /\ blocks \subseteq {uv \in User \X User : uv[1] # uv[2]}
  /\ requests \in [RequestId -> FriendRequest \cup {NoRequest}]
  /\ job \in [Handler -> Job \cup {Idle}]

Init ==
  /\ friends = {}
  /\ blocks = {}
  /\ requests = [r \in RequestId |-> NoRequest]
  /\ job = [h \in Handler |-> Idle]

------------------------------------------------------------------------------
(* The database *)

Blocked(u, v) == <<u, v>> \in blocks \/ <<v, u>> \in blocks

IsPending(r) == requests[r] # NoRequest /\ requests[r].status = "pending"

PendingBetween(u, v) ==
  {r \in RequestId : IsPending(r) /\ {requests[r].sender, requests[r].receiver} = {u, v}}

\* friend_requests after the rows in S have been given a status.
Marked(S, status) ==
  [r \in RequestId |-> IF r \in S THEN [requests[r] EXCEPT !.status = status]
                       ELSE requests[r]]

\* The rows, or the places where a row would be, that a serializable
\* transaction reads and those that it writes.  (Of friend_requests they update
\* rows of their snapshot only, and an update checks its row by itself.)
Friendship(u, v) == <<"friendship", {u, v}>>
BlockRow(u, v)   == <<"block", <<u, v>>>>

ReadsOf(j) ==
  CASE j.op = "accept" -> {BlockRow(j.sender, j.receiver), BlockRow(j.receiver, j.sender),
                           Friendship(j.sender, j.receiver)}
    [] j.op = "block"  -> {BlockRow(j.blocker, j.blocked), Friendship(j.blocker, j.blocked)}
    [] OTHER           -> {}

WritesOf(j) ==
  CASE j.op = "accept" -> IF j.already THEN {} ELSE {Friendship(j.sender, j.receiver)}
    [] j.op = "block"  -> {BlockRow(j.blocker, j.blocked)} \cup
                          (IF j.friendship THEN {Friendship(j.blocker, j.blocked)} ELSE {})
    [] OTHER           -> {}

\* Two concurrent serializable transactions that no order could explain.
Unserializable(j, k) ==
  /\ ReadsOf(j) \cap WritesOf(k) # {}
  /\ ReadsOf(k) \cap WritesOf(j) # {}

\* Variant: the commit looks at no other transaction, as at REPEATABLE READ.
CommitSerializable_Snapshot(h) == job' = [job EXCEPT ![h] = Idle]

\* The handler is done, and its commit fails the open transactions that
\* conflict with it.  (Postgres does so at their next statement or COMMIT:
\* nothing they write is visible until then.)
CommitSerializable(h) ==
  job' = [k \in Handler |->
            IF k = h THEN Idle
            ELSE IF job[k] # Idle /\ Unserializable(job[h], job[k]) THEN Idle
            ELSE job[k]]

Become(h, j) == job' = [job EXCEPT ![h] = j]
Done(h) == Become(h, Idle)
Serving(h, op) == job[h] # Idle /\ job[h].op = op

------------------------------------------------------------------------------
(* sendRequest: three checks and an insertion, which no index restricts *)

\* Variant: a user may send a request to himself.
StartSend_Self(h, u, v) ==
  /\ job[h] = Idle
  /\ Become(h, [op |-> "send", sender |-> u, receiver |-> v, step |-> "block"])
  /\ UNCHANGED <<friends, blocks, requests>>

StartSend(h, u, v) ==
  /\ job[h] = Idle
  /\ u # v
  /\ Become(h, [op |-> "send", sender |-> u, receiver |-> v, step |-> "block"])
  /\ UNCHANGED <<friends, blocks, requests>>

\* What one of the checks finds against the request.
Refused(j) ==
  CASE j.step = "block"      -> Blocked(j.sender, j.receiver)
    [] j.step = "friendship" -> {j.sender, j.receiver} \in friends
    [] j.step = "pending"    -> PendingBetween(j.sender, j.receiver) # {}
    [] OTHER                 -> FALSE

NextCheck == [block |-> "friendship", friendship |-> "pending", pending |-> "create"]

CheckSend(h) ==
  /\ Serving(h, "send") /\ job[h].step # "create"
  /\ IF Refused(job[h]) THEN Done(h)
     ELSE Become(h, [job[h] EXCEPT !.step = NextCheck[job[h].step]])
  /\ UNCHANGED <<friends, blocks, requests>>

CreateRequest(h, r) ==
  /\ Serving(h, "send") /\ job[h].step = "create"
  /\ requests[r] = NoRequest
  /\ requests' = [requests EXCEPT ![r] =
       [sender |-> job[h].sender, receiver |-> job[h].receiver, status |-> "pending"]]
  /\ Done(h)
  /\ UNCHANGED <<friends, blocks>>

------------------------------------------------------------------------------
(* rejectRequest by the receiver, cancelRequest by the sender *)

FindRequest(h, r, op) ==
  /\ job[h] = Idle
  /\ op \in {"reject", "cancel"}
  /\ IsPending(r)
  /\ Become(h, [op |-> op, id |-> r])
  /\ UNCHANGED <<friends, blocks, requests>>

\* update where id: the status is not looked at again.
DecideRequest(h) ==
  /\ job[h] # Idle /\ job[h].op \in {"reject", "cancel"}
  /\ requests' = Marked({job[h].id}, IF job[h].op = "reject" THEN "rejected" ELSE "cancelled")
  /\ Done(h)
  /\ UNCHANGED <<friends, blocks>>

------------------------------------------------------------------------------
(* acceptRequest *)

\* The snapshot: a pending request and no block.
StartAccept(h, r) ==
  /\ job[h] = Idle
  /\ IsPending(r)
  /\ LET u == requests[r].sender
         v == requests[r].receiver
     IN /\ ~Blocked(u, v)
        /\ Become(h, [op |-> "accept", id |-> r, sender |-> u, receiver |-> v,
                      already |-> {u, v} \in friends,
                      others |-> PendingBetween(u, v) \ {r}])
  /\ UNCHANGED <<friends, blocks, requests>>

\* There was a friendship already: the request is cancelled instead.
AcceptAlready(h) ==
  /\ Serving(h, "accept") /\ job[h].already
  /\ IsPending(job[h].id)
  /\ requests' = Marked({job[h].id}, "cancelled")
  /\ CommitSerializable(h)
  /\ UNCHANGED <<friends, blocks>>

\* Variant: the update of the request does not notice that it has been decided.
AcceptBefriends_Decided(h) ==
  LET j == job[h] IN
  /\ Serving(h, "accept") /\ ~j.already
  /\ {j.sender, j.receiver} \notin friends
  /\ friends' = friends \cup {{j.sender, j.receiver}}
  /\ requests' = [Marked(j.others, "cancelled") EXCEPT ![j.id].status = "accepted"]
  /\ CommitSerializable(h)
  /\ UNCHANGED blocks

\* The new friendship, the request accepted, the other pending ones cancelled.
\* (The handler for a duplicate friendship cannot save a transaction that the
\* violation has aborted: it fails, like one whose rows have changed.)
AcceptBefriends(h) ==
  LET j == job[h] IN
  /\ Serving(h, "accept") /\ ~j.already
  /\ {j.sender, j.receiver} \notin friends
  /\ \A r \in j.others \cup {j.id} : IsPending(r)
  /\ friends' = friends \cup {{j.sender, j.receiver}}
  /\ requests' = [Marked(j.others, "cancelled") EXCEPT ![j.id].status = "accepted"]
  /\ CommitSerializable(h)
  /\ UNCHANGED blocks

------------------------------------------------------------------------------
(* createBlock, removeBlock, unfriend *)

StartBlock(h, u, v) ==
  /\ job[h] = Idle
  /\ u # v
  /\ <<u, v>> \notin blocks
  /\ Become(h, [op |-> "block", blocker |-> u, blocked |-> v,
                friendship |-> {u, v} \in friends, pending |-> PendingBetween(u, v)])
  /\ UNCHANGED <<friends, blocks, requests>>

\* Variant: the friendship stays.
CommitBlock_KeepsFriendship(h) ==
  LET j == job[h] IN
  /\ Serving(h, "block")
  /\ <<j.blocker, j.blocked>> \notin blocks
  /\ \A r \in j.pending : IsPending(r)
  /\ blocks' = blocks \cup {<<j.blocker, j.blocked>>}
  /\ requests' = Marked(j.pending, "cancelled")
  /\ CommitSerializable(h)
  /\ UNCHANGED friends

\* deleteMany and updateMany reach the rows of the snapshot, and fail when one
\* of them has been changed or deleted since.
CommitBlock(h) ==
  LET j == job[h] IN
  /\ Serving(h, "block")
  /\ <<j.blocker, j.blocked>> \notin blocks
  /\ j.friendship => {j.blocker, j.blocked} \in friends
  /\ \A r \in j.pending : IsPending(r)
  /\ blocks' = blocks \cup {<<j.blocker, j.blocked>>}
  /\ friends' = IF j.friendship THEN friends \ {{j.blocker, j.blocked}} ELSE friends
  /\ requests' = Marked(j.pending, "cancelled")
  /\ CommitSerializable(h)

removeBlock(u, v) ==
  /\ <<u, v>> \in blocks
  /\ blocks' = blocks \ {<<u, v>>}
  /\ UNCHANGED <<friends, requests, job>>

\* Two statements that no other handler can be seen between: the friendship is
\* locked until the commit.
unfriend(u, v) ==
  /\ {u, v} \in friends
  /\ friends' = friends \ {{u, v}}
  /\ requests' = Marked(PendingBetween(u, v), "cancelled")
  /\ UNCHANGED <<blocks, job>>

\* A transaction is aborted by Postgres, or the API process dies: what the
\* handler was doing leaves no trace.
Abort(h) ==
  /\ job[h] # Idle
  /\ Done(h)
  /\ UNCHANGED <<friends, blocks, requests>>

Next ==
  \/ \E h \in Handler, u, v \in User : StartSend(h, u, v) \/ StartBlock(h, u, v)
  \/ \E h \in Handler, r \in RequestId : CreateRequest(h, r) \/ StartAccept(h, r)
  \/ \E h \in Handler, r \in RequestId, op \in {"reject", "cancel"} : FindRequest(h, r, op)
  \/ \E h \in Handler :
       \/ CheckSend(h) \/ DecideRequest(h) \/ AcceptAlready(h) \/ AcceptBefriends(h)
       \/ CommitBlock(h) \/ Abort(h)
  \/ \E u, v \in User : removeBlock(u, v) \/ unfriend(u, v)

Spec == Init /\ [][Next]_vars

------------------------------------------------------------------------------
(* Properties *)

\* Nobody is the friend of a user who blocks him, although acceptRequest checks
\* the block and createBlock deletes the friendship in transactions that may
\* overlap: each reads what the other writes, so one of the two fails.
NoFriendshipWhileBlocked == \A u, v \in User : {u, v} \in friends => ~Blocked(u, v)

\* Two users become friends only by the acceptance of a request that is pending
\* until that very step: not of one that has been rejected, cancelled or
\* accepted between the check and the commit.
BefriendedByRequest ==
  \A u, v \in User : {u, v} \in friends' \ friends =>
    \E r \in PendingBetween(u, v) : requests'[r].status = "accepted"
FriendshipFromPending == [][BefriendedByRequest]_vars

\* For the two users, the handlers are atomic: the tables of friendships and of
\* blocks change as if accepting, blocking, unblocking and unfriending took one
\* step each.
R == INSTANCE Relationship WITH User <- User, friends <- friends, blocks <- blocks
ImplementsRelationship == R!Spec

\* What the schema says of friend_requests: an index allows one pending request
\* for each pair of users.  No migration creates it, so two requests that cross
\* are both created.
OnePendingPerPair ==
  \A u, v \in User : Cardinality(PendingBetween(u, v)) <= 1

\* What rejectRequest and cancelRequest check before they act: a request that
\* has been decided is no longer decided upon.  Their update does not repeat
\* the check.
DecidedOnce ==
  [][\A r \in RequestId : requests[r] # NoRequest /\ ~IsPending(r) =>
       requests'[r] = requests[r]]_vars
=============================================================================
