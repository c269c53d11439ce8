----------------------------- MODULE ChatThread -----------------------------
(****************************************************************************)
(* The thread of a chat room of the mobile app, in a direct conversation:    *)
(* the messages it shows and how far it says each of the viewer's own has    *)
(* come, kept from pages of history, socket events and answers to sends and  *)
(* recalls, which arrive in any order among each other.  The thread also has *)
(* rows that the API does not know: texts that wait in the outbox, and       *)
(* stickers, which are never sent.                                           *)
(*                                                                           *)
(* A message is its place in the timeline, as in Receipts, whose pointers    *)
(* of the peer this module takes as they are stored.  Left out: contents,    *)
(* reactions, hidden messages and the viewer's own receipts.                 *)
(****************************************************************************)
EXTENDS Naturals, Sequences, FiniteSets, FiniteSetsExt

CONSTANTS
  LastPlace,  \* bound: places of the timeline
  Mine,       \* the messages of the viewer
  PageSize,   \* messages of a page of history
  Offline,    \* the rows there may be of texts in the outbox
  Sticker,    \* the rows there may be of stickers
  After,      \* the place after which such a row was made, or 0
  MaxEvents   \* bound: events on their way; while so many are, nothing happens
              \* that the room is told of

Place == 1 .. LastPlace
Pointer == 0 .. LastPlace   \* 0: none
Local == Offline \cup Sticker
Row == Place \cup Local

ASSUME ChatThreadConstants ==
  /\ LastPlace \in Nat
  /\ Mine \subseteq Place
  /\ PageSize \in Nat \ {0}
  /\ Local \cap Nat = {} /\ Offline \cap Sticker = {}
  /\ After \in [Local -> Pointer]
  /\ MaxEvents \in Nat

VARIABLES
  visible,          \* API: the messages stored
  read, delivered,  \* API: the peer's pointers
  joined,           \* the socket is in the room
  events,           \* to this phone, in order
  answers,          \* answers to sends and recalls on their way to this room
  shown,            \* messages: what the thread shows of each row
  cursor,           \* nextCursor: the place before which older pages begin, or 0
  load, older       \* the request for the first page, and for one more

api    == <<visible, read, delivered>>
thread == <<shown, cursor>>
threadVars == <<api, joined, events, answers, thread, load, older>>

Level == {"absent", "sending", "sent", "delivered", "seen"}
Raised == {"delivered", "seen"}
Page == [rows : [Place -> Level], cursor : Pointer]
NoRows == [m \in Place |-> "absent"]
NoPage == [rows |-> NoRows, cursor |-> 0]
\* The thread that has these messages, and nothing else.
Only(rows) == [r \in Row |-> IF r \in Place THEN rows[r] ELSE "absent"]
Request == [step : {"none", "asked", "answered"}, before : 1 .. LastPlace + 1, page : Page]
NoRequest == [step |-> "none", before |-> LastPlace + 1, page |-> NoPage]
Asked(p) == [NoRequest EXCEPT !.step = "asked", !.before = p]

\* A message that is shown is stored, and the peer's have no level beyond "sent".
ThreadTypeOK ==
  /\ visible \subseteq Place
  /\ read \in Pointer /\ delivered \in Pointer
  /\ joined \in BOOLEAN
  /\ events \in Seq([kind : {"row", "delivered", "seen"}, place : Place])
  /\ answers \subseteq visible
  /\ shown \in [Row -> Level]
  /\ \A m \in Mine : shown[m] \in {"absent", "sent"} \cup Raised
  /\ \A m \in Place : m \notin Mine => shown[m] \in {"absent", "sent"}
  /\ \A m \in Place : shown[m] # "absent" => m \in visible
  /\ \A l \in Offline : shown[l] \in {"absent", "sending"} \cup Raised
  /\ \A l \in Sticker : shown[l] \in {"absent"} \cup Raised
  /\ cursor \in Pointer
  /\ load \in Request /\ older \in Request

ThreadInit ==
  /\ visible = {}
  /\ read = 0 /\ delivered = 0
  /\ joined = TRUE
  /\ events = <<>>
  /\ answers = {}
  /\ shown = Only(NoRows) /\ cursor = 0
  /\ load = Asked(LastPlace + 1) /\ older = NoRequest

------------------------------------------------------------------------------
(* The API *)

LevelOf(m) ==
  CASE m \notin Mine -> "sent"
    [] m \in Mine /\ m <= read -> "seen"
    [] m \in Mine /\ m > read /\ m <= delivered -> "delivered"
    [] OTHER -> "sent"

\* The newest messages before p; a cursor when there are more.
Newest(S) == {m \in S : Cardinality({k \in S : k > m}) < PageSize}
listMessages(p) ==
  LET S == {m \in visible : m < p}
      rows == Newest(S)
  IN [rows |-> [m \in Place |-> IF m \in rows THEN LevelOf(m) ELSE "absent"],
      cursor |-> IF rows = S THEN 0 ELSE Min(rows)]

\* The room is told, and with it this phone if it is there.
Tell(kind, m) ==
  /\ Len(events) < MaxEvents
  /\ events' = IF joined THEN Append(events, [kind |-> kind, place |-> m]) ELSE events

\* A message is stored: the peer's, or the viewer's from this room or elsewhere.
Arrive(m) ==
  /\ m \in Place \ visible
  /\ visible' = visible \cup {m}
  /\ Tell("row", m)
  /\ \/ m \in Mine /\ answers' = answers \cup {m}
     \/ UNCHANGED answers
  /\ UNCHANGED <<read, delivered, joined, thread, load, older>>

\* A message is recalled or deleted, in this room or elsewhere.
Update(m) ==
  /\ m \in visible
  /\ Tell("row", m)
  /\ answers' \in {answers, answers \cup {m}}
  /\ UNCHANGED <<api, joined, thread, load, older>>

\* The peer's pointers advance; a read through the REST API is not told.
PeerReceives(m) ==
  /\ m \in visible /\ m > delivered
  /\ delivered' = m
  /\ Tell("delivered", m)
  /\ UNCHANGED <<visible, read, joined, answers, thread, load, older>>

PeerReads(m) ==
  /\ m \in visible /\ m > read
  /\ read' = m
  /\ delivered' = IF m > delivered THEN m ELSE delivered
  /\ Tell("seen", m) \/ UNCHANGED events
  /\ UNCHANGED <<visible, joined, answers, thread, load, older>>

------------------------------------------------------------------------------
(* The thread *)

\* asReceiptView: a message that comes by itself says nothing of receipts.
Merged(m) == [shown EXCEPT ![m] = "sent"]

Higher(a, b) == IF "seen" \in {a, b} THEN "seen" ELSE b

Outgoing == Mine \cup Local
AtOrBefore(r, p) == IF r \in Place THEN r <= p ELSE After[r] < p

\* Variants: the order of the rows, or who sent them, is not looked at.
applyReceipt_All(p, level) ==
  [r \in Row |-> IF shown[p] # "absent" /\ r \in Outgoing /\ shown[r] # "absent"
                 THEN Higher(shown[r], level) ELSE shown[r]]

applyReceipt_Anybody(p, level) ==
  [r \in Row |-> IF shown[p] # "absent" /\ AtOrBefore(r, p) /\ shown[r] # "absent"
                 THEN Higher(shown[r], level) ELSE shown[r]]

\* applyOutgoingReceiptFromPeerPointer: nothing if p is not in the thread.
applyReceipt(p, level) ==
  [r \in Row |-> IF /\ shown[p] # "absent"
                   /\ r \in Outgoing /\ AtOrBefore(r, p) /\ shown[r] # "absent"
                 THEN Higher(shown[r], level) ELSE shown[r]]

Receive ==
  /\ events # <<>>
  /\ LET e == Head(events) IN
     shown' = IF e.kind = "row" THEN Merged(e.place) ELSE applyReceipt(e.place, e.kind)
  /\ events' = Tail(events)
  /\ UNCHANGED <<api, joined, answers, cursor, load, older>>

\* The answer to a text of the outbox takes its row away, if it is shown.
RequestAnswered(m) ==
  /\ m \in answers
  /\ answers' = answers \ {m}
  /\ \/ shown' = Merged(m)
     \/ \E l \in Offline : m \in Mine /\ shown' = [Merged(m) EXCEPT ![l] = "absent"]
  /\ UNCHANGED <<api, joined, events, cursor, load, older>>

\* A text could not be sent; a sticker is picked, which is all there is to it.
enqueueOfflineText(l) ==
  /\ shown[l] = "absent"
  /\ shown' = [shown EXCEPT ![l] = "sending"]
  /\ UNCHANGED <<api, joined, events, answers, cursor, load, older>>

onStickerPick(l) ==
  /\ shown[l] = "absent"
  /\ shown' = [shown EXCEPT ![l] = "delivered"]
  /\ UNCHANGED <<api, joined, events, answers, cursor, load, older>>

\* A call that changes the thread fails, or its answer is lost.
AnswerLost(m) ==
  /\ m \in answers
  /\ answers' = answers \ {m}
  /\ UNCHANGED <<api, joined, events, thread, load, older>>

\* loadMessagesFromApi, also when the name shown changes: the page replaces all,
\* rows of the outbox too.
\* Bound: one such request at a time.
Load ==
  /\ load.step = "none"
  /\ load' = Asked(LastPlace + 1)
  /\ UNCHANGED <<api, joined, events, answers, thread, older>>

LoadServed ==
  /\ load.step = "asked"
  /\ load' = [load EXCEPT !.step = "answered", !.page = listMessages(load.before)]
  /\ UNCHANGED <<api, joined, events, answers, thread, older>>

LoadAnswered ==
  /\ load.step = "answered"
  /\ shown' = Only(load.page.rows)
  /\ cursor' = load.page.cursor
  /\ load' = NoRequest
  /\ UNCHANGED <<api, joined, events, answers, older>>

\* loadOlderMessages: the page is merged.
LoadOlder ==
  /\ older.step = "none"
  /\ cursor # 0
  /\ older' = Asked(cursor)
  /\ UNCHANGED <<api, joined, events, answers, thread, load>>

OlderServed ==
  /\ older.step = "asked"
  /\ older' = [older EXCEPT !.step = "answered", !.page = listMessages(older.before)]
  /\ UNCHANGED <<api, joined, events, answers, thread, load>>

OlderAnswered ==
  /\ older.step = "answered"
  /\ shown' = [r \in Row |-> IF r \in Place /\ older.page.rows[r] # "absent"
                             THEN older.page.rows[r] ELSE shown[r]]
  /\ cursor' = older.page.cursor
  /\ older' = NoRequest
  /\ UNCHANGED <<api, joined, events, answers, load>>

RequestFails ==
  /\ \/ load.step # "none" /\ load' = NoRequest /\ UNCHANGED older
     \/ older.step # "none" /\ older' = NoRequest /\ UNCHANGED load
  /\ UNCHANGED <<api, joined, events, answers, thread>>

------------------------------------------------------------------------------
(* The environment *)

Disconnect ==
  /\ joined
  /\ joined' = FALSE
  /\ events' = <<>>
  /\ UNCHANGED <<api, answers, thread, load, older>>

\* Joining again does not load what was missed.
Rejoin ==
  /\ ~joined
  /\ joined' = TRUE
  /\ UNCHANGED <<api, events, answers, thread, load, older>>

\* The user leaves the room and enters it again.
Reopen ==
  /\ shown' = Only(NoRows) /\ cursor' = 0
  /\ answers' = {}
  /\ load' = Asked(LastPlace + 1) /\ older' = NoRequest
  /\ UNCHANGED <<api, joined, events>>

ThreadNext ==
  \/ \E m \in Place : \/ Arrive(m) \/ Update(m) \/ PeerReceives(m) \/ PeerReads(m)
                      \/ RequestAnswered(m) \/ AnswerLost(m)
  \/ \E l \in Offline : enqueueOfflineText(l)
  \/ \E l \in Sticker : onStickerPick(l)
  \/ Receive
  \/ Load \/ LoadServed \/ LoadAnswered
  \/ LoadOlder \/ OlderServed \/ OlderAnswered \/ RequestFails
  \/ Disconnect \/ Rejoin \/ Reopen

ThreadSpec == ThreadInit /\ [][ThreadNext]_threadVars

------------------------------------------------------------------------------
(* Properties *)

\* A row is shown as seen only if the peer has read as far as it, as delivered
\* only if so much was delivered, whatever pages, events and answers have set it
\* and in which order they came.  Of a message that is what the thread says; of a
\* text in the outbox it is only that the peer came past the place where it
\* waits.  A sticker is shown as delivered on no ground at all.
LevelHasReceipt ==
  \A r \in Outgoing :
    /\ shown[r] = "seen" => AtOrBefore(r, read)
    /\ shown[r] = "delivered" => AtOrBefore(r, delivered) \/ r \in Sticker

\* What delivery of a row means, and the thread does not keep to: what was never
\* stored is not shown as delivered or seen.
OnlyStoredAreRaised == \A l \in Local : shown[l] \notin Raised
=============================================================================
