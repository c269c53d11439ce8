------------------------------ MODULE MCRealtime ------------------------------
(* A user who types on a phone and on a tablet, and a peer with a panel. *)
EXTENDS Realtime, TLC

CONSTANTS ann, bob, annPhone, annTablet, bobWeb

Owners == [s \in Socket |-> IF s = bobWeb THEN bob ELSE ann]
=============================================================================
