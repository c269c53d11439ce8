------------------------------- MODULE Outbox -------------------------------
(****************************************************************************)
(* The outbox of a chat room of the mobile app: the texts the user sends,    *)
(* the queue of those that could not be sent, and the flushes that a timer   *)
(* and each change of the socket's status start, whether or not another runs.*)
(*                                                                           *)
(* A step is what runs between two awaits.  A call fails while the network   *)
(* does, before the API has stored the message or after it, and while the    *)
(* API refuses what this user sends.  The room knows of the socket what it   *)
(* has been told since it was opened.  The user may leave the room at any    *)
(* time; the calls under way go on without it.  Left out: the bubbles (see   *)
(* ChatThread), the draft, attachments, and what the API stores beyond how   *)
(* often it holds a text: each call has a clientMessageId of its own.        *)
(****************************************************************************)
EXTENDS Naturals, Sequences, SequencesExt

CONSTANTS
  Text,   \* the texts the user sends, each of them once
  Flush,  \* bound: the flushes that run at a time
  NoText

ASSUME NoTextIsNoText == NoText \notin Text

VARIABLES
  up,         \* the network: calls are answered
  accepts,    \* the API takes what this user sends to the conversation
  online,     \* the socket of the app is connected
  connected,  \* socketStatus.state = "connected", in the room
  queue,      \* offlineQueueRef
  sending,    \* the call of send
  flush,      \* the flushes that run
  copies,     \* API: the messages stored for a text: none, one, or more
  fate        \* history: what has become of each text

outboxVars == <<up, accepts, online, connected, queue, sending, flush, copies, fate>>
net == <<up, accepts, online, connected>>

\* connected: the status when send was pressed; open: its room is still open.
Sending == [step : {"idle", "calling", "stored"}, text : Text \cup {NoText},
            connected : BOOLEAN, open : BOOLEAN]
NotSending == [step |-> "idle", text |-> NoText, connected |-> FALSE, open |-> FALSE]

\* todo: what is left of the queue as it was when the flush began.
Flushing == [step : {"idle", "calling", "stored"}, todo : Seq(Text), open : BOOLEAN]
NotFlushing == [step |-> "idle", todo |-> <<>>, open |-> FALSE]

OutboxTypeOK ==
  /\ up \in BOOLEAN /\ accepts \in BOOLEAN /\ online \in BOOLEAN /\ connected \in BOOLEAN
  /\ queue \in Seq(Text) /\ IsInjective(queue)
  /\ sending \in Sending
  /\ flush \in [Flush -> Flushing]
  /\ copies \in [Text -> 0 .. 2]
  /\ fate \in [Text -> {"unsent", "sent", "returned", "dropped"}]

OutboxInit ==
  /\ up = TRUE /\ accepts = TRUE /\ online \in BOOLEAN /\ connected = FALSE
  /\ queue = <<>>
  /\ sending = NotSending
  /\ flush = [f \in Flush |-> NotFlushing]
  /\ copies = [t \in Text |-> 0]
  /\ fate = [t \in Text |-> "unsent"]

Store(t) == copies' = [copies EXCEPT ![t] = IF @ = 2 THEN 2 ELSE @ + 1]

------------------------------------------------------------------------------
(* send *)

\* Bound: a text is sent from a room that has been opened again when the call
\* of the room before it has ended.
SendText(t) ==
  /\ sending = NotSending
  /\ fate[t] = "unsent"
  /\ sending' = [step |-> "calling", text |-> t, connected |-> connected, open |-> TRUE]
  /\ fate' = [fate EXCEPT ![t] = "sent"]
  /\ UNCHANGED <<net, queue, flush, copies>>

SendStored ==
  /\ sending.step = "calling" /\ accepts
  /\ Store(sending.text)
  /\ sending' = [sending EXCEPT !.step = "stored"]
  /\ UNCHANGED <<net, queue, flush, fate>>

SendAnswered ==
  /\ sending.step = "stored"
  /\ sending' = NotSending
  /\ UNCHANGED <<net, queue, flush, copies, fate>>

\* A call that is being made is refused, or there is no network; one that was
\* served fails when its answer is lost.
MayFail(step) == (step = "calling" /\ (~accepts \/ ~up)) \/ (step = "stored" /\ ~up)

\* The text is queued if the room's status was not connected; otherwise it is
\* given back to the user.  (What getApiErrorMessage makes of an error of the
\* network does not have the word that send looks for.)
SendFails ==
  /\ MayFail(sending.step)
  /\ sending' = NotSending
  /\ \/ ~sending.open /\ UNCHANGED <<queue, fate>>
     \/ /\ sending.open /\ ~sending.connected
        /\ queue' = Append(queue, sending.text)
        /\ UNCHANGED fate
     \/ /\ sending.open /\ sending.connected
        /\ fate' = [fate EXCEPT ![sending.text] = "returned"]
        /\ UNCHANGED queue
  /\ UNCHANGED <<net, flush, copies>>

------------------------------------------------------------------------------
(* flushOfflineQueue *)

FlushBegins(f) ==
  /\ flush[f] = NotFlushing
  /\ queue # <<>>
  /\ connected
  /\ flush' = [flush EXCEPT ![f] = [step |-> "calling", todo |-> queue, open |-> TRUE]]
  /\ UNCHANGED <<net, queue, sending, copies, fate>>

FlushStored(f) ==
  /\ flush[f].step = "calling" /\ accepts
  /\ Store(Head(flush[f].todo))
  /\ flush' = [flush EXCEPT ![f].step = "stored"]
  /\ UNCHANGED <<net, queue, sending, fate>>

Onwards(f) ==
  flush' = [flush EXCEPT ![f] =
              IF Len(@.todo) = 1 THEN NotFlushing
              ELSE [step |-> "calling", todo |-> Tail(@.todo), open |-> @.open]]

\* Variant: the queue becomes what is left of the copy.
FlushAnswered_Copy(f) ==
  /\ flush[f].step = "stored"
  /\ queue' = IF flush[f].open THEN Tail(flush[f].todo) ELSE queue
  /\ Onwards(f)
  /\ UNCHANGED <<net, sending, copies, fate>>

\* The text is taken out of the queue as it is now, if its room is still open.
FlushAnswered(f) ==
  /\ flush[f].step = "stored"
  /\ \/ /\ flush[f].open
        /\ \E i \in DOMAIN queue : queue[i] = Head(flush[f].todo) /\ queue' = RemoveAt(queue, i)
     \/ /\ flush[f].open => Head(flush[f].todo) \notin ToSet(queue)
        /\ UNCHANGED queue
  /\ Onwards(f)
  /\ UNCHANGED <<net, sending, copies, fate>>

\* Variants: the text is queued again; it is given up.
FlushFails_Requeue(f) ==
  /\ MayFail(flush[f].step)
  /\ queue' = Append(queue, Head(flush[f].todo))
  /\ Onwards(f)
  /\ UNCHANGED <<net, sending, copies, fate>>

FlushFails_GivesUp(f) ==
  /\ MayFail(flush[f].step)
  /\ queue' = SelectSeq(queue, LAMBDA t : t # Head(flush[f].todo))
  /\ Onwards(f)
  /\ UNCHANGED <<net, sending, copies, fate>>

\* The text stays in the queue; the flush goes on with the next.
FlushFails(f) ==
  /\ MayFail(flush[f].step)
  /\ Onwards(f)
  /\ UNCHANGED <<net, queue, sending, copies, fate>>

------------------------------------------------------------------------------
(* The environment *)

\* The user leaves the room, and its queue with it, and enters again: the new
\* room is not told of a socket that is connected already.
ReopenRoom ==
  /\ queue' = <<>>
  /\ connected' = FALSE
  /\ sending' = [sending EXCEPT !.open = FALSE]
  /\ flush' = [f \in Flush |-> [flush[f] EXCEPT !.open = FALSE]]
  /\ fate' = [t \in Text |-> IF fate[t] = "sent" THEN "dropped" ELSE fate[t]]
  /\ UNCHANGED <<up, accepts, online, copies>>

NetworkChanges ==
  /\ up' = ~up
  /\ UNCHANGED <<accepts, online, connected, queue, sending, flush, copies, fate>>

\* The user is blocked or let in again, or has sent too much for a while.
ApiChanges ==
  /\ accepts' = ~accepts
  /\ UNCHANGED <<up, online, connected, queue, sending, flush, copies, fate>>

SocketConnects ==
  /\ up /\ ~online
  /\ online' = TRUE /\ connected' = TRUE
  /\ UNCHANGED <<up, accepts, queue, sending, flush, copies, fate>>

\* Without the network, or when the access token is replaced.
SocketDrops ==
  /\ online
  /\ online' = FALSE /\ connected' = FALSE
  /\ UNCHANGED <<up, accepts, queue, sending, flush, copies, fate>>

SendStep == SendStored \/ SendAnswered \/ SendFails
FlushStep(f) == FlushStored(f) \/ FlushAnswered(f) \/ FlushFails(f)

OutboxNext ==
  \/ \E t \in Text : SendText(t)
  \/ SendStep
  \/ \E f \in Flush : FlushBegins(f) \/ FlushStep(f)
  \/ ReopenRoom \/ NetworkChanges \/ ApiChanges \/ SocketConnects \/ SocketDrops

\* The timer goes on, a call is answered or fails, and the socket reconnects.
OutboxFairness ==
  /\ WF_outboxVars(SendStep) /\ WF_outboxVars(SocketConnects)
  /\ \A f \in Flush : WF_outboxVars(FlushBegins(f)) /\ WF_outboxVars(FlushStep(f))

OutboxSpec == OutboxInit /\ [][OutboxNext]_outboxVars /\ OutboxFairness

------------------------------------------------------------------------------
(* Properties *)

Stored(t) == copies[t] > 0
Queued(t) == t \in ToSet(queue)
BeingSent(t) == sending.text = t /\ sending.step # "idle" /\ sending.open

\* While the room is open a text that was sent, and not given back, is stored,
\* or it is still going to be: no failure and no flush that overlaps another
\* makes the queue forget it.
SentIsKept == \A t \in Text : fate[t] = "sent" => Stored(t) \/ Queued(t) \/ BeingSent(t)

\* Once the network stays up, the API takes what is sent and the room has been
\* told that the socket is connected, each text that is still to be sent is
\* stored, however often its calls have failed before.
IsStoredLater(t) == fate[t] = "sent" ~> Stored(t) \/ fate[t] # "sent"
QueuedIsStored == <>[](up /\ accepts /\ connected) => \A t \in Text : IsStoredLater(t)

\* What a user would expect, and is not so: that the network, the API and the
\* socket are enough.  A room opened while the socket is connected is never told
\* so, and neither its timer nor its status starts a flush.
SocketIsEnough == <>[](up /\ accepts /\ online) => \A t \in Text : IsStoredLater(t)

\* What newClientMessageId and the API mean the key of a send for: a text that is
\* sent again is not stored again.  Every attempt has a new key.
StoredOnce == \A t \in Text : copies[t] < 2
=============================================================================
