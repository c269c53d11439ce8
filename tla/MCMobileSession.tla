--------------------------- MODULE MCMobileSession ---------------------------
(* One account, two requests at a time, and three tokens, so that a sign-in  *)
(* may overlap the exchange of the token before it.  With a second account   *)
(* (Accounts.cfg) the states are 4.2 million: its safety only is checked.    *)
EXTENDS MobileSession

CONSTANTS ann, bob, k1, k2, k3

MCOwner == [t \in Token |-> IF t <= 3 THEN ann ELSE bob]
=============================================================================
