---------------------------- MODULE Relationship ----------------------------
(****************************************************************************)
(* What FriendsService and BlocksService promise together about two users,   *)
(* whatever requests are handled at the same time: they become friends only  *)
(* while neither blocks the other, and a block ends their friendship in the  *)
(* same step.  Requests and transactions do not appear here; Social shows    *)
(* that the services implement this.                                         *)
(****************************************************************************)
EXTENDS Naturals

CONSTANT User

VARIABLES
  friends,  \* the pairs {u, v} of friends
  blocks    \* the pairs <<u, v>> such that u blocks v

vars == <<friends, blocks>>

Pair == {{uv[1], uv[2]} : uv \in {uv \in User \X User : uv[1] # uv[2]}}

Init == friends = {} /\ blocks = {}

Befriend(u, v) ==
  /\ u # v
  /\ {u, v} \notin friends
  /\ <<u, v>> \notin blocks /\ <<v, u>> \notin blocks
  /\ friends' = friends \cup {{u, v}}
  /\ UNCHANGED blocks

Unfriend(u, v) ==
  /\ {u, v} \in friends
  /\ friends' = friends \ {{u, v}}
  /\ UNCHANGED blocks

Block(u, v) ==
  /\ u # v
  /\ <<u, v>> \notin blocks
  /\ blocks' = blocks \cup {<<u, v>>}
  /\ friends' = friends \ {{u, v}}

Unblock(u, v) ==
  /\ <<u, v>> \in blocks
  /\ blocks' = blocks \ {<<u, v>>}
  /\ UNCHANGED friends

Next == \E u, v \in User : Befriend(u, v) \/ Unfriend(u, v) \/ Block(u, v) \/ Unblock(u, v)

Spec == Init /\ [][Next]_vars
=============================================================================
