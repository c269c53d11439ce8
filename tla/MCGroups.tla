------------------------------ MODULE MCGroups ------------------------------
(* Three users and two calls at a time; two requests to join may be written.  *)
EXTENDS Groups, TLC

Symmetry == Permutations(User) \cup Permutations(Handler) \cup Permutations(JoinRequest)
=============================================================================
