------------------------------ MODULE Receipts ------------------------------
(****************************************************************************)
(* Delivered and read receipts of one conversation: advanceDelivered and     *)
(* advanceRead of ConversationProgressService, the broadcasts of             *)
(* MessageReceiptsService, and the messages they point to, which arrive and  *)
(* are recalled meanwhile.                                                   *)
(*                                                                           *)
(* A message is its place in the timeline, the order of (createdAt, id).     *)
(* Messages are committed in any order, so one may appear before others that *)
(* are there already.  A handler is one call, from a socket or the REST API, *)
(* for the user it serves, and calls of one user overlap: a client issues    *)
(* them without waiting and nothing serializes them.  The transaction of a   *)
(* call is READ COMMITTED, so each of its statements is a step and sees what *)
(* is committed by then.                                                     *)
(*                                                                           *)
(* Left out: the membership check, and the unread count of the view.         *)
(****************************************************************************)
EXTENDS Naturals

CONSTANTS
  User,
  Handler,       \* bound: calls served at the same time
  ServedUser,    \* the user each handler serves
  LastPlace,     \* bound: places of the timeline
  Idle           \* a handler that serves no call

ASSUME ReceiptConstants ==
  /\ ServedUser \in [Handler -> User]
  /\ LastPlace \in Nat

Place == 1..LastPlace
None  == 0                  \* a null message id
Pointer == {None} \cup Place
Pointers == [read : Pointer, delivered : Pointer]

VARIABLES
  visible,    \* the messages that are committed
  deleted,    \* those that have been recalled or deleted
  read,       \* conversation_members.last_read_message_id
  delivered,  \* conversation_members.last_delivered_message_id
  announced,  \* the receipts last sent to the conversation's room
  job,        \* what each handler is doing
  settled     \* history: both pointers of each user as they were when none of
              \* his calls was under way

vars == <<visible, deleted, read, delivered, announced, job, settled>>

Job == [op : {"read", "delivered"},
        step : {"target", "row", "write", "view", "emit"},
        target : Pointer,        \* the message asked for, None for the newest
        broadcast : BOOLEAN,     \* a socket call: the room is told
        delivered : Pointer,     \* of the member row, as it was read
        shown : Pointer]         \* the pointer of the view

ASSUME IdleIsNoJob == Idle \notin Job

TypeOK ==
  /\ visible \subseteq Place
  /\ deleted \subseteq visible
  /\ read \in [User -> Pointer]
  /\ delivered \in [User -> Pointer]
  /\ announced \in [User -> Pointers]
  /\ job \in [Handler -> Job \cup {Idle}]
  /\ settled \in [User -> Pointers]

Init ==
  /\ visible = {}
  /\ deleted = {}
  /\ read = [u \in User |-> None]
  /\ delivered = [u \in User |-> None]
  /\ announced = [u \in User |-> [read |-> None, delivered |-> None]]
  /\ job = [h \in Handler |-> Idle]
  /\ settled = [u \in User |-> [read |-> None, delivered |-> None]]

------------------------------------------------------------------------------
(* The messages *)

Arrive(m) ==
  /\ m \in Place \ visible
  /\ visible' = visible \cup {m}
  /\ UNCHANGED <<deleted, read, delivered, announced, job, settled>>

\* Variant: softDeleteMessage does not look the message up.
Recall_Unchecked(m) ==
  /\ m \in Place \ deleted
  /\ deleted' = deleted \cup {m}
  /\ UNCHANGED <<visible, read, delivered, announced, job, settled>>

\* softDeleteMessage
Recall(m) ==
  /\ m \in visible \ deleted
  /\ deleted' = deleted \cup {m}
  /\ UNCHANGED <<visible, read, delivered, announced, job, settled>>

------------------------------------------------------------------------------
(* A call *)

Proceed(h, j) ==
  /\ job' = [job EXCEPT ![h] = j]
  /\ UNCHANGED settled

\* The last call of a user to end leaves his pointers settled.
End(h) ==
  LET u == ServedUser[h] IN
  /\ job' = [job EXCEPT ![h] = Idle]
  /\ settled' = [settled EXCEPT ![u] =
                   IF \A k \in Handler \ {h} : ServedUser[k] = u => job[k] = Idle
                   THEN [read |-> read[u], delivered |-> delivered[u]]
                   ELSE settled[u]]

At(h, step) == job[h] # Idle /\ job[h].step = step

\* Sockets name a message; the REST API may leave it out.
Start(h, op, target, broadcast) ==
  /\ job[h] = Idle
  /\ broadcast => target # None
  /\ Proceed(h, [op |-> op, step |-> "target", target |-> target, broadcast |-> broadcast,
                delivered |-> None, shown |-> None])
  /\ UNCHANGED <<visible, deleted, read, delivered, announced>>

\* resolveProgressTargetTx: the message asked for must be there and not be
\* deleted.
ResolveNamed(h) ==
  /\ At(h, "target") /\ job[h].target # None
  /\ IF job[h].target \in visible \ deleted
     THEN Proceed(h, [job[h] EXCEPT !.step = "row"])
     ELSE End(h)
  /\ UNCHANGED <<visible, deleted, read, delivered, announced>>

\* Left out, it is the newest; in an empty thread nothing will be written.
ResolveNewest(h) ==
  LET live == visible \ deleted IN
  /\ At(h, "target") /\ job[h].target = None
  /\ \/ /\ live = {}
        /\ Proceed(h, [job[h] EXCEPT !.step = "view"])
     \/ \E m \in live :
          /\ \A n \in live : n <= m
          /\ Proceed(h, [job[h] EXCEPT !.step = "row", !.target = m])
  /\ UNCHANGED <<visible, deleted, read, delivered, announced>>

\* Variant: loadMessageInConversationTx overlooks deleted messages.
LoadMessage_NotDeleted(m) == IF m \in visible \ deleted THEN m ELSE None

\* loadMessageInConversationTx: deleted messages are still found.
LoadMessage(m) == IF m \in visible THEN m ELSE None

\* The member row is read: a target that is not after the pointer changes
\* nothing.
ReadRow(h) ==
  LET j       == job[h]
      u       == ServedUser[h]
      current == LoadMessage(IF j.op = "read" THEN read[u] ELSE delivered[u])
  IN
  /\ At(h, "row")
  /\ Proceed(h, [j EXCEPT !.step = IF current # None /\ j.target <= current
                                  THEN "view" ELSE "write",
                         !.delivered = LoadMessage(delivered[u])])
  /\ UNCHANGED <<visible, deleted, read, delivered, announced>>

WriteDelivered(h) ==
  LET j == job[h] IN
  /\ At(h, "write") /\ j.op = "delivered"
  /\ delivered' = [delivered EXCEPT ![ServedUser[h]] = j.target]
  /\ Proceed(h, [j EXCEPT !.step = "view"])
  /\ UNCHANGED <<visible, deleted, read, announced>>

\* Variant: the delivered pointer is left alone.
WriteRead_Only(h) ==
  LET j == job[h] IN
  /\ At(h, "write") /\ j.op = "read"
  /\ read' = [read EXCEPT ![ServedUser[h]] = j.target]
  /\ Proceed(h, [j EXCEPT !.step = "view"])
  /\ UNCHANGED <<visible, deleted, delivered, announced>>

\* Both pointers are written: delivered is the later of the target and of what
\* it was when the row was read.
WriteRead(h) ==
  LET j == job[h]
      u == ServedUser[h]
  IN
  /\ At(h, "write") /\ j.op = "read"
  /\ read' = [read EXCEPT ![u] = j.target]
  /\ delivered' = [delivered EXCEPT ![u] =
                     IF j.delivered > j.target THEN j.delivered ELSE j.target]
  /\ Proceed(h, [j EXCEPT !.step = "view"])
  /\ UNCHANGED <<visible, deleted, announced>>

\* Variant: the receipt names the message that was asked for.
Shown_Target(j, pointer) == j.target

Shown(j, pointer) == IF pointer # None THEN pointer ELSE j.target

\* buildStateView, after the transaction: the receipt will name the pointer.
View(h) ==
  LET j == job[h]
      u == ServedUser[h]
  IN
  /\ At(h, "view")
  /\ IF j.broadcast
     THEN Proceed(h, [j EXCEPT !.step = "emit",
                               !.shown = Shown(j, IF j.op = "read" THEN read[u]
                                                  ELSE delivered[u])])
     ELSE End(h)
  /\ UNCHANGED <<visible, deleted, read, delivered, announced>>

Emit(h) ==
  LET j == job[h]
      u == ServedUser[h]
  IN
  /\ At(h, "emit")
  /\ announced' = [announced EXCEPT ![u] =
                     IF j.op = "read" THEN [announced[u] EXCEPT !.read = j.shown]
                     ELSE [announced[u] EXCEPT !.delivered = j.shown]]
  /\ End(h)
  /\ UNCHANGED <<visible, deleted, read, delivered>>

\* The process dies, or a statement fails.
Abort(h) ==
  /\ job[h] # Idle
  /\ End(h)
  /\ UNCHANGED <<visible, deleted, read, delivered, announced>>

Next ==
  \/ \E m \in Place : Arrive(m) \/ Recall(m)
  \/ \E h \in Handler, op \in {"read", "delivered"}, target \in Pointer, broadcast \in BOOLEAN :
       Start(h, op, target, broadcast)
  \/ \E h \in Handler :
       \/ ResolveNamed(h) \/ ResolveNewest(h) \/ ReadRow(h) \/ WriteDelivered(h) \/ WriteRead(h)
       \/ View(h) \/ Emit(h) \/ Abort(h)

Spec == Init /\ [][Next]_vars

------------------------------------------------------------------------------
(* Properties *)

\* What overlapping calls cannot undo: a pointer never falls behind where it
\* stood when the user's calls last were all over, also over messages that are
\* recalled meanwhile (loadMessageInConversationTx).  Among calls that overlap,
\* each decides by the row it has read and the later writer wins.
SettledPointersKept ==
  \A u \in User : read[u] >= settled[u].read /\ delivered[u] >= settled[u].delivered

\* The call of h will write over a row whose delivered pointer another call has
\* changed since h read it.
Overtaken(h) == At(h, "write") /\ job[h].delivered # delivered[ServedUser[h]]

\* What a user has read has been delivered to him: advanceRead raises both
\* pointers, from a row that is older than its write.  Only a call that was
\* overtaken may take the delivered pointer back behind the read one.
ReadStaysDelivered ==
  \A u \in User :
    read[u] <= delivered[u] /\ ~(\E h \in Handler : ServedUser[h] = u /\ Overtaken(h))
      => read'[u] <= delivered'[u]
ReadWithinDelivered == [][ReadStaysDelivered]_vars

\* A receipt is read after the commit and sent later still, while other calls
\* come, so the room may get receipts of overlapping calls in any order; but
\* none is behind what was settled before its call.
NoReceiptBehindSettled ==
  \A u \in User :
    /\ announced'[u].read # announced[u].read => announced'[u].read >= settled[u].read
    /\ announced'[u].delivered # announced[u].delivered =>
         announced'[u].delivered >= settled[u].delivered
ReceiptsKeepUp == [][NoReceiptBehindSettled]_vars

\* Not so, see ReceiptRace.cfg: with two calls of one user at a time the
\* pointers move back, and what he has read is not always delivered.
NoPointerMovesBack ==
  \A u \in User : read'[u] >= read[u] /\ delivered'[u] >= delivered[u]
PointersForward == [][NoPointerMovesBack]_vars
=============================================================================
