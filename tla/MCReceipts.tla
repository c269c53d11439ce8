----------------------------- MODULE MCReceipts -----------------------------
(* One user with two calls at a time, so that while one waits the other may  *)
(* be followed by further ones; the rows of different users are written      *)
(* apart.                                                                    *)
EXTENDS Receipts, TLC

CONSTANTS ann, h1, h2

Served == [h \in Handler |-> ann]

HandlersAlike == Permutations(Handler)
=============================================================================
