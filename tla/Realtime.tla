------------------------------- MODULE Realtime -------------------------------
(****************************************************************************)
(* The gateway's memory about connected clients, and what the clients show   *)
(* of it: the room of a conversation, PresenceService and TypingStateService,*)
(* with the typing indicator of the web panel and of the mobile chat room.   *)
(*                                                                           *)
(* A handler runs without interruption up to its membership query; requests  *)
(* that wait for the answer are in pending.  Answers come in any order, also *)
(* after the socket has gone.  What the gateway emits reaches a socket in    *)
(* order, unless it disconnects first.                                       *)
(*                                                                           *)
(* Socket stands for a client (a tab or a phone), which connects again and   *)
(* again.  One conversation: the markers of others are not touched, and      *)
(* markers expire one by one.                                                *)
(****************************************************************************)
EXTENDS Naturals, Sequences, FiniteSets

CONSTANTS
  User, Socket,
  Owner,       \* the user of each client
  Web,         \* the clients that are web panels; the others are phones
  Typist,      \* bound: the users who may type
  MaxPending,  \* bound: requests that wait for a query
  MaxInFlight  \* bound: emissions on the way when a client sends a request

ASSUME RealtimeConstants ==
  /\ Owner \in [Socket -> User]
  /\ Web \subseteq Socket

VARIABLES
  member,  \* the active members of the conversation, in the database
  conn,    \* the clients that are connected
  room,    \* the connected sockets in the room of the conversation
  pending, \* the requests whose handler waits for the membership query
  byUser,  \* PresenceService: the sockets of each user that has an entry
  mark,    \* TypingStateService: whether there is a marker, and whether it is
           \* older than TYPING_STALE_AFTER_MS
  inbox,   \* the typing:update values on the way to each client, by user
  shows,   \* the users each client shows as typing (typingPeers)
  timer,   \* the web panels whose 12 s timer runs
  silent   \* the users who will not type any more

vars == <<member, conn, room, pending, byUser, mark, inbox, shows, timer, silent>>

\* live: the socket that sent it is still the connected one.
Request == [op : {"join", "start", "stop"}, by : Socket, live : BOOLEAN]

TypeOK ==
  /\ member \subseteq User
  /\ conn \subseteq Socket
  /\ room \subseteq conn
  /\ pending \subseteq Request
  /\ \E U \in SUBSET User : byUser \in [U -> SUBSET Socket]
  /\ mark \in [User -> {"none", "fresh", "stale"}]
  /\ inbox \in [Socket -> [User -> Seq(BOOLEAN)]]
  /\ shows \in [Socket -> SUBSET User]
  /\ timer \subseteq Web
  /\ silent \subseteq User

NoPosts == [u \in User |-> <<>>]
NoEntry == [u \in {} |-> {}]

Init ==
  /\ member = User
  /\ conn = {}
  /\ room = {}
  /\ pending = {}
  /\ byUser = NoEntry
  /\ mark = [u \in User |-> "none"]
  /\ inbox = [s \in Socket |-> NoPosts]
  /\ shows = [s \in Socket |-> {}]
  /\ timer = {}
  /\ silent = {}

------------------------------------------------------------------------------
(* PresenceService *)

\* reapStaleSockets: sockets without a recent heartbeat go, and then the entries
\* that are empty.
ReapSockets(entries, late) ==
  [u \in {v \in DOMAIN entries : entries[v] \ late # {}} |-> entries[u] \ late]

Registered(entries, u) ==
  [v \in DOMAIN entries \cup {u} |-> IF v \in DOMAIN entries THEN entries[v] ELSE {}]

\* addSocket puts an empty entry in the map, reaps, and adds the socket to that
\* entry, whether it is still in the map or not.
addSocket(entries, u, s, late) ==
  LET reaped == ReapSockets(Registered(entries, u), late) IN
  [v \in DOMAIN reaped |-> IF v = u THEN reaped[v] \cup {s} ELSE reaped[v]]

removeSocket(entries, u, s) ==
  [v \in {w \in DOMAIN entries : w # u \/ entries[w] \ {s} # {}} |->
     IF v = u THEN entries[v] \ {s} ELSE entries[v]]

------------------------------------------------------------------------------
(* TypingStateService and the emissions into the room *)

\* typing:update for the users of U goes to the sockets in S; a client drops
\* what it is told of its own user.
Post(S, U, typing) ==
  [s \in Socket |-> [u \in User |->
     IF s \in S /\ u \in U /\ u # Owner[s] THEN Append(inbox[s][u], typing)
     ELSE inbox[s][u]]]

Stale == {u \in User : mark[u] = "stale"}
Cleared(U) == [u \in User |-> IF u \in U THEN "none" ELSE mark[u]]

\* Variants: the markers are dropped without a word; or nobody reaps them.
flushTypingStale_Quiet == mark' = Cleared(Stale) /\ UNCHANGED inbox
flushTypingStale_Never == UNCHANGED <<mark, inbox>>

\* Most handlers begin so.
flushTypingStale == mark' = Cleared(Stale) /\ inbox' = Post(room, Stale, FALSE)

\* The bounds on what clients send.
MayRequest ==
  /\ Cardinality(pending) < MaxPending
  /\ \A s \in Socket, u \in User : Len(inbox[s][u]) < MaxInFlight

Asked(op, s) == pending' = pending \cup {[op |-> op, by |-> s, live |-> TRUE]}

------------------------------------------------------------------------------
(* Connections and the room *)

\* handleConnection, and the clients ask at once to join.
Connect(s) ==
  /\ s \notin conn
  /\ MayRequest
  /\ conn' = conn \cup {s}
  /\ flushTypingStale
  /\ \E late \in SUBSET conn :
       byUser' = addSocket(ReapSockets(byUser, late), Owner[s], s, late)
  /\ Asked("join", s)
  /\ UNCHANGED <<member, room, shows, timer, silent>>

\* Variant: the socket that asked may have gone.
Joined_Late(r) ==
  /\ r \in pending /\ r.op = "join"
  /\ pending' = pending \ {r}
  /\ room' = IF Owner[r.by] \in member THEN room \cup {r.by} ELSE room
  /\ UNCHANGED <<member, conn, byUser, mark, inbox, shows, timer, silent>>

\* onConversationJoin when the query has answered.  A client that is refused does
\* not ask again before it connects again.
Joined(r) ==
  /\ r \in pending /\ r.op = "join"
  /\ pending' = pending \ {r}
  /\ room' = IF r.live /\ Owner[r.by] \in member THEN room \cup {r.by} ELSE room
  /\ UNCHANGED <<member, conn, byUser, mark, inbox, shows, timer, silent>>

\* The socket's requests go on without it.
Orphaned(s) ==
  {IF r.by = s THEN [r EXCEPT !.live = FALSE] ELSE r : r \in pending}

DroppedFrom(boxes, s) == [boxes EXCEPT ![s] = NoPosts]

\* handleDisconnect: stale markers go, and that of the user, whichever of his
\* clients has set it.  The web panel forgets who is typing; the phone keeps it
\* until the room is opened again.
handleDisconnect(s) ==
  LET u     == Owner[s]
      gone  == Stale \cup (IF s \in room /\ mark[u] # "none" THEN {u} ELSE {}) IN
  /\ s \in conn
  /\ conn' = conn \ {s}
  /\ room' = room \ {s}
  /\ pending' = Orphaned(s)
  /\ \E late \in SUBSET conn : byUser' = removeSocket(ReapSockets(byUser, late), u, s)
  /\ mark' = Cleared(gone)
  /\ inbox' = DroppedFrom(Post(room \ {s}, gone, FALSE), s)
  /\ shows' = IF s \in Web THEN [shows EXCEPT ![s] = {}] ELSE shows
  /\ timer' = timer \ {s}
  /\ UNCHANGED <<member, silent>>

\* Both maps are reaped; the user's own heartbeat is recorded.
onPresenceHeartbeat(s) ==
  /\ s \in conn
  /\ flushTypingStale
  /\ \E late \in SUBSET (conn \ {s}) : byUser' = ReapSockets(byUser, late)
  /\ UNCHANGED <<member, conn, room, pending, shows, timer, silent>>

------------------------------------------------------------------------------
(* Typing *)

\* onTypingStart and onTypingStop up to their query.  Clients send a start while
\* something is being written, again and again, and a stop at any time.
AskTyping(s, op) ==
  /\ s \in conn
  /\ op \in {"start", "stop"}
  /\ Owner[s] \in Typist
  /\ op = "start" => Owner[s] \notin silent
  /\ MayRequest
  /\ flushTypingStale
  /\ Asked(op, s)
  /\ UNCHANGED <<member, conn, room, byUser, shows, timer, silent>>

\* The rest of onTypingStart: every start is announced.
startTyping(r) ==
  LET u == Owner[r.by] IN
  /\ r \in pending /\ r.op = "start"
  /\ pending' = pending \ {r}
  /\ IF u \in member
     THEN mark' = [mark EXCEPT ![u] = "fresh"] /\ inbox' = Post(room, {u}, TRUE)
     ELSE UNCHANGED <<mark, inbox>>
  /\ UNCHANGED <<member, conn, room, byUser, shows, timer, silent>>

\* The rest of onTypingStop.
stopTyping(r) ==
  LET u == Owner[r.by] IN
  /\ r \in pending /\ r.op = "stop"
  /\ pending' = pending \ {r}
  /\ IF u \in member /\ mark[u] # "none"
     THEN mark' = Cleared({u}) /\ inbox' = Post(room, {u}, FALSE)
     ELSE UNCHANGED <<mark, inbox>>
  /\ UNCHANGED <<member, conn, room, byUser, shows, timer, silent>>

------------------------------------------------------------------------------
(* The clients *)

\* onTypingUpdate.  In the web panel a start restarts the one timer it has for all
\* peers, and a stop of any peer ends the timer.
onTypingUpdate(s, u) ==
  LET typing == Head(inbox[s][u]) IN
  /\ inbox[s][u] # <<>>
  /\ inbox' = [inbox EXCEPT ![s][u] = Tail(@)]
  /\ shows' = [shows EXCEPT ![s] = IF typing THEN @ \cup {u} ELSE @ \ {u}]
  /\ timer' = IF typing THEN timer \cup ({s} \cap Web) ELSE timer \ {s}
  /\ UNCHANGED <<member, conn, room, pending, byUser, mark, silent>>

\* The timer of the panel fires.
PeerTypingExpires(s) ==
  /\ s \in timer
  /\ shows' = [shows EXCEPT ![s] = {}]
  /\ timer' = timer \ {s}
  /\ UNCHANGED <<member, conn, room, pending, byUser, mark, inbox, silent>>

\* The conversation is opened again.
Reopen(s) ==
  /\ shows[s] # {}
  /\ shows' = [shows EXCEPT ![s] = {}]
  /\ timer' = timer \ {s}
  /\ UNCHANGED <<member, conn, room, pending, byUser, mark, inbox, silent>>

------------------------------------------------------------------------------
(* The environment *)

\* The group removes a member, or lets him in again.
ChangeMember(u) ==
  /\ member' = (member \ {u}) \cup ({u} \ member)
  /\ UNCHANGED <<conn, room, pending, byUser, mark, inbox, shows, timer, silent>>

\* 12 s pass without a start.
Age(u) ==
  /\ mark[u] = "fresh"
  /\ mark' = [mark EXCEPT ![u] = "stale"]
  /\ UNCHANGED <<member, conn, room, pending, byUser, inbox, shows, timer, silent>>

FallSilent(u) ==
  /\ u \in Typist \ silent
  /\ silent' = silent \cup {u}
  /\ UNCHANGED <<member, conn, room, pending, byUser, mark, inbox, shows, timer>>

\* The API process dies.
Restart ==
  /\ conn # {}
  /\ conn' = {} /\ room' = {} /\ pending' = {} /\ byUser' = NoEntry
  /\ mark' = [u \in User |-> "none"]
  /\ inbox' = [s \in Socket |-> NoPosts]
  /\ shows' = [s \in Socket |-> IF s \in Web THEN {} ELSE shows[s]]
  /\ timer' = {}
  /\ UNCHANGED <<member, silent>>

Answered(r) == Joined(r) \/ startTyping(r) \/ stopTyping(r)

Next ==
  \/ \E s \in Socket : \/ Connect(s) \/ handleDisconnect(s) \/ onPresenceHeartbeat(s)
                       \/ PeerTypingExpires(s) \/ Reopen(s)
  \/ \E s \in Socket : AskTyping(s, "start") \/ AskTyping(s, "stop")
  \/ \E r \in pending : Answered(r)
  \/ \E s \in Socket, u \in User : onTypingUpdate(s, u)
  \/ \E u \in User : ChangeMember(u) \/ Age(u) \/ FallSilent(u)
  \/ Restart

\* Queries answer, emissions arrive, a connected client sends its heartbeat every
\* 25 s, and a marker that nobody sets again gets old.
Fairness ==
  /\ \A r \in Request : WF_vars(Answered(r))
  /\ \A s \in Socket : WF_vars(onPresenceHeartbeat(s))
  /\ \A s \in Socket, u \in User : WF_vars(onTypingUpdate(s, u))
  /\ \A u \in User : WF_vars(u \in silent /\ Age(u))

Spec == Init /\ [][Next]_vars /\ Fairness

------------------------------------------------------------------------------
(* Properties *)

\* What client s is going to show of u when everything on the way has arrived.
WillShow(s, u) ==
  IF inbox[s][u] = <<>> THEN u \in shows[s] ELSE inbox[s][u][Len(inbox[s][u])]

\* A web panel does not go on showing somebody as typing without a marker that
\* will end it, whatever stops, disconnects, expiries and restarts come between
\* a start and its end.
NoStuckIndicator == \A s \in Web, u \in User : WillShow(s, u) => mark[u] # "none"

\* When a user types no more, web panels stop showing him as typing for good,
\* although a start may still be on its way when his last client has gone, and
\* although markers are reaped only when some client sends something.
TypingEnds == \A s \in Web, u \in User : u \in silent ~> [](u \notin shows[s])

\* A user with a connected client has a presence entry.
OnlineWhileConnected == \A s \in conn : Owner[s] \in DOMAIN byUser
=============================================================================
