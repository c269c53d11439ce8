------------------------------ MODULE MCOutbox ------------------------------
(* Two flushes, and two texts: one of them is queued, or taken out of the    *)
(* queue, while the flushes are at different places of their copies of it.   *)
(* The run that looks for a text stored twice has a third.                   *)
EXTENDS Outbox

CONSTANTS t1, t2, t3, f1, f2
=============================================================================
