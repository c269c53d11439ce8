--------------------------- MODULE MCMessageSend ---------------------------
(* Ann sends a photo, retries it, and sends a voice message; a call message is *)
(* written meanwhile: all in one chat.  Two texts (or photos) are admitted per *)
(* window, the first of which has seen one; the window of the voice messages   *)
(* is twice as long.  So transactions of Ann's overlap, as those of two        *)
(* windows or of two actions, and meet at the row of the conversation (two     *)
(* senders would meet there no other way) or, since the row of the first       *)
(* window is there already, the attempts of one send at the unique key.        *)
EXTENDS MessageSend, TLC

CONSTANTS first, retry, note, call, ann, chat, side, k1, k2, photo, memo, text, voice

Ask(act, c, k, a) ==
  [sender |-> ann, conversation |-> c, key |-> k, attachment |-> a, action |-> act]

MCRequest == {first, retry, note}
MCInput == (first :> Ask(text, chat, k1, photo)) @@ (retry :> Ask(text, chat, k1, photo))
        @@ (note :> Ask(voice, chat, k2, memo))
MCCallIn == (call :> chat)
MCLimit == (text :> 2) @@ (voice :> 1)
MCEarlier == (text :> 1) @@ (voice :> 0)
MCWindowLength == (text :> 1) @@ (voice :> 2)

\* Ann sends one photo into two conversations.
NoCallIn == <<>>
PhotoRequest == {first, note}
PhotoInput == (first :> Ask(text, chat, k1, photo)) @@ (note :> Ask(text, side, k2, photo))
=============================================================================
