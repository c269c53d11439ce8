------------------------------ MODULE MCSocial ------------------------------
(* Two users, who may each send requests, accept, reject, block and unfriend *)
(* while three calls are being served: a friendship, a block and a decision   *)
(* may race, and requests may cross over three rows of friend_requests.      *)
EXTENDS Social, TLC

CONSTANTS ann, bob, h1, h2, h3, q1, q2, q3

Users    == {ann, bob}
Handlers == {h1, h2, h3}
Requests == {q1, q2, q3}

Symmetric == Permutations(Users) \cup Permutations(Handlers) \cup Permutations(Requests)
=============================================================================
