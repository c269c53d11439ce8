----------------------------- MODULE MessageSend -----------------------------
(****************************************************************************)
(* Sending a message: sendTextMessage, sendStickerMessage and                *)
(* sendMessageWithAttachments of MessagesService, and createCallMessage,     *)
(* over the tables and the row locks of Postgres they use.                   *)
(*                                                                           *)
(* A request is one API call (or one socket message:send) by one sender into *)
(* one conversation; two requests with the same sender, conversation and     *)
(* clientMessageId are a call and its retry.  Each SQL statement is a step,  *)
(* so statements of several requests interleave, as do the retries of one.   *)
(* A request creates at most one message, which is named after it.           *)
(*                                                                           *)
(* The transactions run at READ COMMITTED: a statement sees what has been    *)
(* committed when it starts and the request's own writes.  The locks:        *)
(*  - the row of the rate limiter, updated first and held until the end;     *)
(*  - conversations rows: the foreign keys of the limiter's row and of the   *)
(*    message take a share lock (FOR KEY SHARE), and setting last_message_id *)
(*    needs the row exclusively (FOR UPDATE), because conversations has a    *)
(*    plain unique index on that column;                                     *)
(*  - an uncommitted message blocks the insertion of one with the same key;  *)
(*  - the attachment row an update binds.                                    *)
(*                                                                           *)
(* The database engine stamps createdAt when it is given the INSERT, which    *)
(* may then wait; a timeline is read in the order of (createdAt, id), so a    *)
(* row may land behind one that has been read already.                        *)
(*                                                                           *)
(* Left out: content, mentions, stickers, push notifications.  The policy,   *)
(* membership, sticker and reply-target checks are a refusal that may come.  *)
(****************************************************************************)
EXTENDS Naturals, FiniteSets

CONSTANTS
  Request,      \* the sends
  CallMessage,  \* the createCallMessage calls
  Sender, Conversation, ClientMessageId, Attachment,
  Action,       \* the policies of the limiter a send is counted under
  input,        \* what each request asks for
  callIn,       \* the conversation of each call message
  Limit,        \* sends of an action admitted per sender, conversation and window
  earlier,      \* sends each conversation has seen of each sender and action in the
                \* first window, before these: their messages are not modelled
  WindowLength, \* the windows of each action, in ticks of the clock
  Ticks,        \* bound: the clock reads 0 .. Ticks - 1
  None

Input == [sender : Sender, conversation : Conversation, key : ClientMessageId,
          attachment : Attachment \cup {None}, action : Action]

ASSUME SendConstants ==
  /\ input \in [Request -> Input]
  /\ callIn \in [CallMessage -> Conversation]
  /\ Limit \in [Action -> Nat \ {0}]
  /\ earlier \in [Action -> Nat] /\ \A a \in Action : earlier[a] <= Limit[a]
  /\ WindowLength \in [Action -> Nat \ {0}] /\ Ticks \in Nat \ {0}
  /\ Request \cap CallMessage = {}
  /\ {None, "refused", "error"} \cap (Request \cup CallMessage) = {}

Message == Request \cup CallMessage
Step == {"idle", "limit", "existing", "attachment", "create", "insert", "bind", "last",
         "commit", "emit", "done"}

\* The unique key of the limiter's rows, the last part being the window.
LimitRow == Sender \X Conversation \X Action \X (0..Ticks - 1)
Earlier(l) == IF l[4] = 0 THEN earlier[l[3]] ELSE 0

VARIABLES
  pc,          \* the next step of each request, of each call message too
  windowOf,    \* the window of its action the request read from the clock
  result,      \* the message the transaction has created or found
  answer,      \* what the client was told: a message, "refused" or "error"
  tick,        \* the clock, in units of the shortest window
  messages,    \* table messages, uncommitted rows too
  committed,   \* the rows that are committed
  stamp,       \* the last createdAt stamp drawn: stamps are numbered from 1
  createdAt,   \* messages.created_at of each send, 0 before it is stamped
  committedAt, \* the last stamp drawn when the send's row was committed (history)
  lastMessage, \* conversations.last_message_id; None, none of these messages
  bound,       \* attachments.message_id
  count,       \* conversation_spam_rate_limits.count, committed
  rowLock,     \* the holder of each rate limit row and of each attachment row
  share,       \* the holders of a share lock on each conversation
  exclusive,   \* the holder of the exclusive lock on each conversation
  emitted      \* the events message.created: who emitted it for which message

vars == <<pc, windowOf, result, answer, tick, messages, committed, stamp,
          createdAt, committedAt, lastMessage, bound, count, rowLock, share, exclusive, emitted>>
stamps  == <<stamp, createdAt, committedAt>>
tables  == <<messages, committed, lastMessage, bound, count>>
locks   == <<rowLock, share, exclusive>>

TypeOK ==
  /\ pc \in [Message -> Step]
  /\ windowOf \in [Request -> 0..Ticks - 1]
  /\ result \in [Request -> Request \cup {None}]
  /\ answer \in [Request -> Request \cup {None, "refused", "error"}]
  /\ tick \in 0..Ticks - 1
  /\ messages \subseteq Message
  /\ committed \subseteq messages
  /\ stamp \in Nat /\ createdAt \in [Request -> Nat] /\ committedAt \in [Request -> Nat]
  /\ lastMessage \in [Conversation -> Message \cup {None}]
  /\ bound \in [Attachment -> Request \cup {None}]
  /\ count \in [LimitRow -> Nat] /\ \A l \in LimitRow : count[l] <= Limit[l[3]]
  /\ rowLock \in [LimitRow \cup Attachment -> Request \cup {None}]
  /\ share \in [Conversation -> SUBSET Request]
  /\ exclusive \in [Conversation -> Request \cup {None}]
  /\ emitted \subseteq Message \X Message

Init ==
  /\ pc = [m \in Message |-> "idle"]
  /\ windowOf = [r \in Request |-> 0]
  /\ result = [r \in Request |-> None]
  /\ answer = [r \in Request |-> None]
  /\ tick = 0
  /\ messages = {}
  /\ committed = {}
  /\ stamp = 0
  /\ createdAt = [r \in Request |-> 0]
  /\ committedAt = [r \in Request |-> 0]
  /\ lastMessage = [c \in Conversation |-> None]
  /\ bound = [a \in Attachment |-> None]
  /\ count = [l \in LimitRow |-> Earlier(l)]
  /\ rowLock = [l \in LimitRow \cup Attachment |-> None]
  /\ share = [c \in Conversation |-> {}]
  /\ exclusive = [c \in Conversation |-> None]
  /\ emitted = {}

------------------------------------------------------------------------------
(* The database *)

\* The unique key (conversation, sender, clientMessageId).
SameKey(r, s) ==
  /\ input[r].conversation = input[s].conversation
  /\ input[r].sender = input[s].sender
  /\ input[r].key = input[s].key

\* The message findUnique returns: the committed row with the key, if any.
Existing(r) == {s \in Request \cap committed : SameKey(r, s)}

LimitRowOf(r) == <<input[r].sender, input[r].conversation, input[r].action, windowOf[r]>>

Admits(r) == count[LimitRowOf(r)] + 1 <= Limit[input[r].action]

\* The rows whose locks keep request r from making its next step.
RowNeeded(r) ==
  CASE pc[r] = "limit" -> {LimitRowOf(r)}
    [] pc[r] = "bind"  -> {input[r].attachment}
    [] OTHER           -> {}

\* The requests the next statement of r would wait for.
WaitsFor(r) ==
  LET c == input[r].conversation IN
  ({rowLock[l] : l \in RowNeeded(r)}
   \cup (IF \/ pc[r] \in {"insert", "last"}
             \/ (pc[r] = "limit" /\ count[LimitRowOf(r)] = 0)   \* a new row
          THEN {exclusive[c]} ELSE {})
   \cup (IF pc[r] = "last" THEN share[c] ELSE {})
   \cup (IF pc[r] = "insert"
         THEN {s \in (messages \cap Request) \ committed : SameKey(r, s)} ELSE {}))
  \ {r, None}

\* A set of transactions each of which waits for another of them.
Deadlocked(S) ==
  /\ S # {}
  /\ \A r \in S : WaitsFor(r) \cap S # {}
  /\ \A r \in S : \E s \in S : r \in WaitsFor(s)

Free(lock, r) == [x \in DOMAIN lock |-> IF lock[x] = r THEN None ELSE lock[x]]

\* The locks of r are released when its transaction ends.
ReleaseLocks(r) ==
  /\ rowLock' = Free(rowLock, r)
  /\ share' = [c \in Conversation |-> share[c] \ {r}]
  /\ exclusive' = Free(exclusive, r)

\* ROLLBACK: the row r has inserted disappears, and so does its turn at the
\* limiter, which is counted at COMMIT.
Rollback(r) ==
  /\ messages' = messages \ {r}
  /\ ReleaseLocks(r)
  /\ UNCHANGED <<committed, lastMessage, bound, count>>

Goto(r, step) == pc' = [pc EXCEPT ![r] = step]

Fail(r, value) ==
  /\ Goto(r, "done")
  /\ answer' = [answer EXCEPT ![r] = value]
  /\ Rollback(r)
  /\ UNCHANGED <<windowOf, result, tick, stamps, emitted>>

------------------------------------------------------------------------------
(* A request *)

\* The policy checks pass; the transaction begins and reads the clock.
Start(r) ==
  /\ pc[r] = "idle"
  /\ Goto(r, "limit")
  /\ windowOf' = [windowOf EXCEPT ![r] = tick \div WindowLength[input[r].action]]
  /\ UNCHANGED <<result, answer, tick, stamps, tables, locks, emitted>>

\* Not allowed to send: before the transaction (blocked, group policy, sticker)
\* or in it (no active member, no such reply target, attachments not of the
\* right type).
Refuse(r) ==
  /\ pc[r] \in {"idle", "existing", "attachment"}
  /\ Fail(r, "refused")

\* Variants: the count is not compared with the limit, or it is read without
\* waiting for a request that is about to raise it.
AssertAndConsume_NoLimit(r) ==
  /\ pc[r] = "limit"
  /\ WaitsFor(r) = {}
  /\ Goto(r, "existing")
  /\ rowLock' = [rowLock EXCEPT ![LimitRowOf(r)] = r]
  /\ UNCHANGED <<windowOf, result, answer, tick, stamps, tables, share, exclusive, emitted>>

AssertAndConsume_NoLock(r) ==
  /\ pc[r] = "limit"
  /\ Admits(r)
  /\ Goto(r, "existing")
  /\ UNCHANGED <<windowOf, result, answer, tick, stamps, tables, locks, emitted>>

\* assertAndConsume: the upsert waits for the row, then the count is read back
\* with the request's own turn in it.
AssertAndConsume(r) ==
  /\ pc[r] = "limit"
  /\ WaitsFor(r) = {}
  /\ Admits(r)
  /\ Goto(r, "existing")
  /\ rowLock' = [rowLock EXCEPT ![LimitRowOf(r)] = r]
  /\ share' = [share EXCEPT ![input[r].conversation] =
                 IF count[LimitRowOf(r)] = 0 THEN @ \cup {r} ELSE @]
  /\ UNCHANGED <<windowOf, result, answer, tick, stamps, tables, exclusive, emitted>>

TooMany(r) ==
  /\ pc[r] = "limit"
  /\ WaitsFor(r) = {}
  /\ ~Admits(r)
  /\ Fail(r, "refused")

\* findUnique by the key: a row that is there already is the answer.
FindExisting(r) ==
  /\ pc[r] = "existing"
  /\ IF Existing(r) # {}
     THEN /\ \E s \in Existing(r) : result' = [result EXCEPT ![r] = s]
          /\ Goto(r, "commit")
     ELSE /\ Goto(r, IF input[r].attachment = None THEN "create" ELSE "attachment")
          /\ UNCHANGED result
  /\ UNCHANGED <<windowOf, answer, tick, stamps, tables, locks, emitted>>

\* attachment.findMany with messageId = null: all must still be free.
FindAttachment(r) ==
  /\ pc[r] = "attachment"
  /\ IF bound[input[r].attachment] = None
     THEN /\ Goto(r, "create")
          /\ UNCHANGED <<windowOf, result, answer, tick, stamps, tables, locks, emitted>>
     ELSE Fail(r, "refused")

\* message.create is given to the database engine, which stamps the row before
\* the INSERT is under way.
Stamp(r) ==
  /\ pc[r] = "create"
  /\ stamp' = stamp + 1
  /\ createdAt' = [createdAt EXCEPT ![r] = stamp + 1]
  /\ Goto(r, "insert")
  /\ UNCHANGED <<windowOf, result, answer, tick, committedAt, tables, locks, emitted>>

\* Variant: no unique index on the key.
Create_NoUniqueKey(r) ==
  /\ pc[r] = "insert"
  /\ exclusive[input[r].conversation] = None
  /\ messages' = messages \cup {r}
  /\ share' = [share EXCEPT ![input[r].conversation] = @ \cup {r}]
  /\ result' = [result EXCEPT ![r] = r]
  /\ Goto(r, IF input[r].attachment = None THEN "last" ELSE "bind")
  /\ UNCHANGED <<windowOf, answer, tick, stamps, committed, lastMessage, bound, count,
                 rowLock, exclusive, emitted>>

\* The INSERT: it takes a share lock on the conversation.
Create(r) ==
  /\ pc[r] = "insert"
  /\ WaitsFor(r) = {}
  /\ Existing(r) = {}
  /\ messages' = messages \cup {r}
  /\ share' = [share EXCEPT ![input[r].conversation] = @ \cup {r}]
  /\ result' = [result EXCEPT ![r] = r]
  /\ Goto(r, IF input[r].attachment = None THEN "last" ELSE "bind")
  /\ UNCHANGED <<windowOf, answer, tick, stamps, committed, lastMessage, bound, count,
                 rowLock, exclusive, emitted>>

\* P2002: the same key has been committed since findUnique.  The handler looks
\* the row up again, but in a transaction the violation has aborted: it fails.
CreateConflict(r) ==
  /\ pc[r] = "insert"
  /\ WaitsFor(r) = {}
  /\ Existing(r) # {}
  /\ Fail(r, "error")

\* attachment.update where id: whether it is still free is not looked at again.
BindAttachment(r) ==
  /\ pc[r] = "bind"
  /\ WaitsFor(r) = {}
  /\ rowLock' = [rowLock EXCEPT ![input[r].attachment] = r]
  /\ Goto(r, "last")
  /\ UNCHANGED <<windowOf, result, answer, tick, stamps, tables, share, exclusive, emitted>>

\* conversation.update lastMessageId: needs the row for itself.
UpdateLast(r) ==
  /\ pc[r] = "last"
  /\ WaitsFor(r) = {}
  /\ exclusive' = [exclusive EXCEPT ![input[r].conversation] = r]
  /\ Goto(r, "commit")
  /\ UNCHANGED <<windowOf, result, answer, tick, stamps, tables, rowLock, share, emitted>>

\* Variant: a retry that has found its message makes it the last one.
Commit_RetryMovesLast(r) ==
  /\ pc[r] = "commit"
  /\ Goto(r, "emit")
  /\ count' = [count EXCEPT ![LimitRowOf(r)] = @ + 1]
  /\ lastMessage' = [lastMessage EXCEPT ![input[r].conversation] = result[r]]
  /\ IF r \in messages
     THEN /\ committed' = committed \cup {r}
          /\ committedAt' = [committedAt EXCEPT ![r] = stamp]
          /\ bound' = [a \in Attachment |-> IF a = input[r].attachment THEN r ELSE bound[a]]
     ELSE UNCHANGED <<committed, committedAt, bound>>
  /\ ReleaseLocks(r)
  /\ UNCHANGED <<windowOf, result, answer, tick, stamp, createdAt, messages, emitted>>

\* COMMIT makes the writes of r visible.
Commit(r) ==
  /\ pc[r] = "commit"
  /\ Goto(r, "emit")
  /\ count' = [count EXCEPT ![LimitRowOf(r)] = @ + 1]
  /\ IF r \in messages
     THEN /\ committed' = committed \cup {r}
          /\ committedAt' = [committedAt EXCEPT ![r] = stamp]
          /\ lastMessage' = [lastMessage EXCEPT ![input[r].conversation] = r]
          /\ bound' = [a \in Attachment |-> IF a = input[r].attachment THEN r ELSE bound[a]]
     ELSE UNCHANGED <<committed, committedAt, lastMessage, bound>>
  /\ ReleaseLocks(r)
  /\ UNCHANGED <<windowOf, result, answer, tick, stamp, createdAt, messages, emitted>>

\* Variants: the event follows every answer, or only a new row is answered.
Finish_EmitsAgain(r) ==
  /\ pc[r] = "emit"
  /\ Goto(r, "done")
  /\ emitted' = emitted \cup {<<r, result[r]>>}
  /\ answer' = [answer EXCEPT ![r] = result[r]]
  /\ UNCHANGED <<windowOf, result, tick, stamps, tables, locks>>

Finish_NewOnly(r) ==
  /\ pc[r] = "emit" /\ result[r] = r
  /\ Goto(r, "done")
  /\ emitted' = emitted \cup {<<r, r>>}
  /\ answer' = [answer EXCEPT ![r] = r]
  /\ UNCHANGED <<windowOf, result, tick, stamps, tables, locks>>

\* Back in the handler: message.created for a new row only, then the answer.
Finish(r) ==
  /\ pc[r] = "emit"
  /\ Goto(r, "done")
  /\ emitted' = IF result[r] = r THEN emitted \cup {<<r, r>>} ELSE emitted
  /\ answer' = [answer EXCEPT ![r] = result[r]]
  /\ UNCHANGED <<windowOf, result, tick, stamps, tables, locks>>

\* Postgres aborts one of the transactions of a deadlock.
AbortVictim(r) ==
  /\ WaitsFor(r) # {}
  /\ \E S \in SUBSET Request : r \in S /\ Deadlocked(S)
  /\ Fail(r, "error")

------------------------------------------------------------------------------
(* createCallMessage: two statements, each its own transaction *)

InsertCallMessage(m) ==
  LET c == callIn[m] IN
  /\ pc[m] = "idle"
  /\ exclusive[c] = None
  /\ messages' = messages \cup {m}
  /\ committed' = committed \cup {m}
  /\ Goto(m, "last")
  /\ UNCHANGED <<windowOf, result, answer, tick, stamps, lastMessage, bound, count, locks, emitted>>

UpdateLastCall(m) ==
  LET c == callIn[m] IN
  /\ pc[m] = "last"
  /\ exclusive[c] = None /\ share[c] = {}
  /\ lastMessage' = [lastMessage EXCEPT ![c] = m]
  /\ Goto(m, "emit")
  /\ UNCHANGED <<windowOf, result, answer, tick, stamps, messages, committed, bound, count,
                 locks, emitted>>

EmitCallMessage(m) ==
  /\ pc[m] = "emit"
  /\ emitted' = emitted \cup {<<m, m>>}
  /\ Goto(m, "done")
  /\ UNCHANGED <<windowOf, result, answer, tick, stamps, tables, locks>>

------------------------------------------------------------------------------

Tick ==
  /\ tick + 1 < Ticks
  /\ tick' = tick + 1
  /\ UNCHANGED <<pc, windowOf, result, answer, stamps, tables, locks, emitted>>

\* The API process dies: open transactions are rolled back, committed messages
\* whose event was not emitted yet stay silent, and the clients get no answer.
Crash ==
  LET lost == {m \in Message : pc[m] \notin {"idle", "done"}} IN
  /\ lost # {}
  /\ pc' = [m \in Message |-> IF m \in lost THEN "done" ELSE pc[m]]
  /\ answer' = [r \in Request |-> IF r \in lost THEN "error" ELSE answer[r]]
  /\ messages' = committed
  /\ rowLock' = [l \in DOMAIN rowLock |-> None]
  /\ share' = [c \in Conversation |-> {}]
  /\ exclusive' = [c \in Conversation |-> None]
  /\ UNCHANGED <<windowOf, result, tick, stamps, committed, lastMessage, bound, count, emitted>>

Handle(r) ==
  \/ AssertAndConsume(r) \/ TooMany(r) \/ FindExisting(r) \/ FindAttachment(r)
  \/ Stamp(r) \/ Create(r) \/ CreateConflict(r) \/ BindAttachment(r) \/ UpdateLast(r)
  \/ Commit(r) \/ Finish(r) \/ AbortVictim(r)

Next ==
  \/ \E r \in Request : Start(r) \/ Refuse(r) \/ Handle(r)
  \/ \E m \in CallMessage : InsertCallMessage(m) \/ UpdateLastCall(m) \/ EmitCallMessage(m)
  \/ Tick
  \/ Crash

\* The database and the event loop keep running what has been started.
Fairness == \A r \in Request : WF_vars(Handle(r))

Spec == Init /\ [][Next]_vars /\ Fairness

------------------------------------------------------------------------------
(* Properties *)

\* A retry is idempotent: however the attempts of one send overlap, one row
\* exists for its key, and all the attempts that are answered with a message
\* are answered with the same one, which is committed.
RetriesAgree ==
  /\ \A r, s \in committed \cap Request : SameKey(r, s) => r = s
  /\ \A r, s \in Request :
       SameKey(r, s) /\ {answer[r], answer[s]} \subseteq Request =>
         answer[r] = answer[s] /\ answer[r] \in committed

\* message:new follows a new persisted row: each message is announced by one
\* request only, and only when it is committed, so a retry does not repeat it.
AnnouncedOnce ==
  /\ \A e \in emitted : e[2] \in committed
  /\ \A e, f \in emitted : e[2] = f[2] => e = f

\* last_message_id is never overtaken: a message that was created when another
\* one was there for everybody to read does not stand behind it.  The insertion
\* and last_message_id are written in one transaction, and neither an attempt
\* that finds its message nor an aborted one moves it.  (createCallMessage has no
\* such transaction: its second statement may overwrite a newer message.)
LastNotOvertaken ==
  \A m \in committed \cap Request :
    LET last == lastMessage[input[m].conversation] IN
    last \notin CallMessage => last \in committed /\ createdAt[m] <= committedAt[last]

\* What the code does not keep: that it is the first of the timeline, which is
\* ordered by createdAt.  A send that is stamped first may be inserted last.
LastIsLatest ==
  \A m \in committed \cap Request :
    LET last == lastMessage[input[m].conversation] IN
    last \notin CallMessage => last \in committed /\ createdAt[m] <= createdAt[last]

\* The rate limiter holds under concurrency: no more than Limit of a sender's
\* calls of an action into a conversation are answered with a message in one window, however
\* they interleave, because the first statement of each holds the counter until
\* the transaction ends.  A retry that finds its message takes a turn as well.
WithinRateLimit ==
  \A l \in LimitRow :
    Earlier(l) + Cardinality({r \in Request : answer[r] \in Request /\ LimitRowOf(r) = l})
      <= Limit[l[3]]

\* Every send that has entered its transaction is answered: the lock cycle two
\* senders of one conversation run into is broken, and nobody waits for ever.
EveryRequestAnswered == \A r \in Request : pc[r] = "limit" ~> pc[r] = "done"

\* What the schema says of an attachment: bound to at most one message, and
\* reused only before binding.  Two sends of one attachment into two
\* conversations both find it free, and the second takes it from the first.
BoundToOneMessage ==
  [][\A a \in Attachment : bound[a] # None => bound'[a] = bound[a]]_vars
==============================================================================
