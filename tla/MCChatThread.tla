---------------------------- MODULE MCChatThread ----------------------------
(* Three messages, the peer's between two of the viewer's, and pages of one: *)
(* receipts point to messages that are older, newer and not loaded.  A text  *)
(* waits before the peer's message, and a sticker is picked after it.  One   *)
(* event at a time is on its way; pages, answers and reads that are not told *)
(* overtake it.                                                              *)
EXTENDS ChatThread

CONSTANTS text, sticker

MCMine == {1, 3}
MCAfter == [l \in {text, sticker} |-> IF l = text THEN 1 ELSE 2]
=============================================================================
