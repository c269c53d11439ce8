------------------------------ MODULE MCCalls ------------------------------
(* Three users, one direct and one group conversation, two calls, and room   *)
(* for two participants, so that busy users, crossing calls, full calls and  *)
(* calls that outlive their caller all happen.                               *)
EXTENDS Calls, TLC

CONSTANTS u1, u2, u3, direct, group, c1, c2

MCUser == {u1, u2, u3}
MCConversation == {direct, group}
MCMembersOf == (direct :> {u1, u2}) @@ (group :> MCUser)
MCCallId == {c1, c2}

\* The two call ids are drawn at random and interchangeable.
Symmetric == Permutations(MCCallId)
=============================================================================
