------------------------------ MODULE MCSessions ------------------------------
(* An account with two devices; two calls at a time. *)
EXTENDS Sessions, TLC

CONSTANTS ann, phone, web, j1, j2

Owners == (phone :> ann) @@ (web :> ann)
=============================================================================
