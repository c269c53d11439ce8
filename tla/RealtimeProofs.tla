---------------------------- MODULE RealtimeProofs ----------------------------
(****************************************************************************)
(* Proofs about Realtime, for any users, clients, members and bounds.  The   *)
(* invariant adds to NoStuckIndicator that a web panel outside the room has  *)
(* nothing on its way and shows nobody, so that what is posted into the room *)
(* when a marker goes reaches every panel that shows its user, and that a    *)
(* panel is never told of its own user, whom no post would reach.            *)
(****************************************************************************)
EXTENDS Realtime, SequenceTheorems, TLAPS

ClientInv(s) ==
  /\ s \notin room => shows[s] = {} /\ inbox[s] = NoPosts
  /\ inbox[s][Owner[s]] = <<>> /\ Owner[s] \notin shows[s]
  /\ \A u \in User : WillShow(s, u) => mark[u] # "none"

\* A request whose socket has not gone: the join of such a socket is let in.
RequestInv == \A r \in pending : r.live => r.by \in conn

IInv == TypeOK /\ RequestInv /\ \A s \in Web : ClientInv(s)

------------------------------------------------------------------------------
(* PresenceService: every operation keeps a map from users to sockets *)

Entries(e) == \E U \in SUBSET User : e \in [U -> SUBSET Socket]

LEMMA EntriesAre ==
  ASSUME NEW e
  PROVE  Entries(e) <=> /\ e = [u \in DOMAIN e |-> e[u]]
                        /\ DOMAIN e \subseteq User
                        /\ \A u \in DOMAIN e : e[u] \subseteq Socket
BY DEF Entries

LEMMA NoEntryKeeps == Entries(NoEntry)
BY EntriesAre DEF NoEntry

LEMMA ReapKeeps ==
  ASSUME NEW e, Entries(e), NEW late
  PROVE  Entries(ReapSockets(e, late))
<1> DEFINE f == ReapSockets(e, late)
<1>1. /\ f = [u \in DOMAIN f |-> f[u]] /\ DOMAIN f \subseteq DOMAIN e
      /\ \A u \in DOMAIN f : f[u] \subseteq e[u]
  BY DEF ReapSockets
<1> HIDE DEF f
<1> QED  BY <1>1, EntriesAre DEF f

LEMMA RegisteredKeeps ==
  ASSUME NEW e, Entries(e), NEW u \in User
  PROVE  Entries(Registered(e, u))
<1> DEFINE f == Registered(e, u)
<1>1. /\ f = [v \in DOMAIN f |-> f[v]] /\ DOMAIN f = DOMAIN e \cup {u}
      /\ \A v \in DOMAIN f : f[v] = {} \/ (v \in DOMAIN e /\ f[v] = e[v])
  BY DEF Registered
<1> HIDE DEF f
<1> QED  BY <1>1, EntriesAre DEF f

LEMMA AddSocketKeeps ==
  ASSUME NEW e, Entries(e), NEW u \in User, NEW s \in Socket, NEW late
  PROVE  Entries(addSocket(e, u, s, late))
<1> DEFINE r == ReapSockets(Registered(e, u), late)
           f == addSocket(e, u, s, late)
<1>1. Entries(r)
  BY RegisteredKeeps, ReapKeeps
<1>2. f = [v \in DOMAIN r |-> IF v = u THEN r[v] \cup {s} ELSE r[v]]
  BY DEF addSocket
<1> HIDE DEF f, r
<1>3. /\ f = [v \in DOMAIN f |-> f[v]] /\ DOMAIN f = DOMAIN r
      /\ \A v \in DOMAIN f : f[v] \subseteq r[v] \cup {s}
  BY <1>2
<1> QED  BY <1>1, <1>3, EntriesAre DEF f

LEMMA RemoveSocketKeeps ==
  ASSUME NEW e, Entries(e), NEW u, NEW s
  PROVE  Entries(removeSocket(e, u, s))
<1> DEFINE f == removeSocket(e, u, s)
<1>1. /\ f = [v \in DOMAIN f |-> f[v]] /\ DOMAIN f \subseteq DOMAIN e
      /\ \A v \in DOMAIN f : f[v] \subseteq e[v]
  BY DEF removeSocket
<1> HIDE DEF f
<1> QED  BY <1>1, EntriesAre DEF f

------------------------------------------------------------------------------
(* What is on the way *)

\* What remains shown of a user who is shown, or not (b), after the values q.
Shown(q, b) == IF q = <<>> THEN b ELSE q[Len(q)]

LEMMA WillShowIs == \A s, u : WillShow(s, u) = Shown(inbox[s][u], u \in shows[s])
BY DEF WillShow, Shown

LEMMA ShownAppend ==
  ASSUME NEW M, NEW q \in Seq(M), NEW t \in M, NEW b
  PROVE  /\ Append(q, t) \in Seq(M) /\ Append(q, t) # <<>>
         /\ Shown(Append(q, t), b) = t
<1>1. /\ Append(q, t) \in Seq(M) /\ Len(Append(q, t)) = Len(q) + 1
      /\ Append(q, t)[Len(q) + 1] = t /\ Append(q, t) # <<>>
  OBVIOUS
<1> QED  BY <1>1 DEF Shown

LEMMA ShownTail ==
  ASSUME NEW M, NEW q \in Seq(M), q # <<>>, NEW b
  PROVE  Tail(q) \in Seq(M) /\ Shown(Tail(q), Head(q)) = Shown(q, b)
<1>1. /\ Tail(q) \in Seq(M) /\ Len(Tail(q)) = Len(q) - 1 /\ Len(q) \in Nat \ {0}
      /\ \A i \in 1 .. Len(q) - 1 : Tail(q)[i] = q[i + 1]
  OBVIOUS
<1>2. (Tail(q) # <<>> => Len(Tail(q)) \in Nat \ {0}) /\ Len(<<>>) = 0
  BY <1>1, EmptySeq, Zenon
<1>3. CASE Len(q) = 1
  <2>1. Tail(q) = <<>>
    BY <1>1, <1>2, <1>3
  <2> QED  BY <1>1, <1>3, <2>1 DEF Shown
<1>4. CASE Len(q) # 1
  <2>3. Len(Tail(q)) # 0 /\ Len(q) - 1 \in 1 .. Len(q) - 1 /\ (Len(q) - 1) + 1 = Len(q)
    BY <1>1, <1>4
  <2>1. Tail(q) # <<>> /\ Len(q) - 1 \in 1 .. Len(q) - 1 /\ (Len(q) - 1) + 1 = Len(q)
    BY <1>2, <2>3, Zenon
  <2>2. Tail(q)[Len(q) - 1] = q[Len(q)]
    BY <1>1, <2>1
  <2> QED  BY <1>1, <2>1, <2>2 DEF Shown
<1> QED  BY <1>3, <1>4

Boxes == [Socket -> [User -> Seq(BOOLEAN)]]

LEMMA PostIs ==
  ASSUME inbox \in Boxes, NEW S, NEW U, NEW t
  PROVE  /\ t \in BOOLEAN => Post(S, U, t) \in Boxes
         /\ \A s \in Socket, u \in User :
              /\ s \in S /\ u \in U /\ u # Owner[s] => Post(S, U, t)[s][u] = Append(inbox[s][u], t)
              /\ s \notin S \/ u \notin U \/ u = Owner[s] => Post(S, U, t)[s][u] = inbox[s][u]
         /\ \A s \in Socket \ S : Post(S, U, t)[s] = inbox[s]
<1>1. \A s \in Socket, u \in User : inbox[s][u] \in Seq(BOOLEAN)
  BY DEF Boxes
<1>2. ASSUME t \in BOOLEAN
      PROVE  Post(S, U, t) \in Boxes
  <2>1. \A s \in Socket, u \in User : Append(inbox[s][u], t) \in Seq(BOOLEAN)
    BY <1>1, <1>2, ShownAppend
  <2> QED  BY <1>1, <2>1 DEF Post, Boxes
<1>3. ASSUME NEW s \in Socket \ S
      PROVE  Post(S, U, t)[s] = inbox[s]
  <2>1. Post(S, U, t)[s] = [u \in User |-> inbox[s][u]]
    BY <1>3 DEF Post
  <2>2. inbox[s] = [u \in User |-> inbox[s][u]]
    BY DEF Boxes
  <2> QED  BY <2>1, <2>2
<1> QED  BY <1>2, <1>3 DEF Post

\* Nothing has changed for client s but the marks, and no mark has gone.
LEMMA SameClient ==
  ASSUME NEW s \in Web, ClientInv(s), shows'[s] = shows[s], inbox'[s] = inbox[s],
         s \in room => s \in room',
         \A u \in User : mark[u] # "none" => mark'[u] # "none"
  PROVE  ClientInv(s)'
<1>1. \A u : WillShow(s, u)' = WillShow(s, u)
  BY DEF WillShow
<1> QED  BY <1>1 DEF ClientInv, NoPosts

\* The marks of U go and the room is told so.
LEMMA ClearedClient ==
  ASSUME TypeOK, NEW s \in Web, ClientInv(s), NEW S, NEW U, NEW t, t = FALSE,
         s \in room <=> s \in S,
         shows'[s] = shows[s], inbox'[s] = Post(S, U, t)[s], s \in room <=> s \in room',
         mark' = Cleared(U)
  PROVE  ClientInv(s)'
<1>1. inbox \in Boxes /\ s \in Socket /\ Owner[s] \in User
  BY RealtimeConstants DEF TypeOK, Boxes
<1> DEFINE p == Post(S, U, t)
<1>2. /\ \A u \in User :
           /\ s \in S /\ u \in U /\ u # Owner[s] => p[s][u] = Append(inbox[s][u], t)
           /\ s \notin S \/ u \notin U \/ u = Owner[s] => p[s][u] = inbox[s][u]
      /\ s \notin S => p[s] = inbox[s]
  BY <1>1, PostIs
<1>3. inbox'[s] = p[s]
  OBVIOUS
<1> HIDE DEF p
<1>4. CASE s \notin room
  <2>1. inbox'[s] = inbox[s]
    BY <1>4, <1>2, <1>3
  <2>2. \A u \in User : inbox[s][u] = <<>> /\ u \notin shows[s]
    BY <1>4 DEF ClientInv, NoPosts
  <2>3. \A u \in User : ~WillShow(s, u)'
    BY <2>1, <2>2 DEF WillShow
  <2> QED  BY <1>4, <2>1, <2>3 DEF ClientInv, NoPosts
<1>5. CASE s \in room
  <2>1. inbox'[s][Owner[s]] = <<>> /\ Owner[s] \notin shows'[s]
    BY <1>1, <1>2, <1>3 DEF ClientInv
  <2>2. ASSUME NEW u \in User, WillShow(s, u)'
        PROVE  mark'[u] # "none"
    <3>1. CASE u \in U /\ u # Owner[s]
      <4>1. inbox'[s][u] = Append(inbox[s][u], t) /\ inbox[s][u] \in Seq(BOOLEAN)
        BY <1>1, <1>5, <1>2, <1>3, <3>1 DEF Boxes
      <4>2. t \in BOOLEAN
        OBVIOUS
      <4>3. Shown(inbox'[s][u], u \in shows'[s]) = t
        BY <4>1, <4>2, ShownAppend
      <4>4. WillShow(s, u)' = Shown(inbox'[s][u], u \in shows'[s])
        BY DEF WillShow, Shown
      <4> QED  BY <2>2, <4>3, <4>4
    <3>2. CASE u = Owner[s]
      BY <2>1, <2>2, <3>2 DEF WillShow
    <3>3. CASE u \notin U
      <4>1. inbox'[s][u] = inbox[s][u]
        BY <1>2, <1>3, <3>3
      <4>3. WillShow(s, u)
        BY <2>2, <4>1 DEF WillShow
      <4> QED  BY <3>3, <4>3 DEF ClientInv, Cleared
    <3> QED  BY <3>1, <3>2, <3>3
  <2> QED  BY <1>5, <2>1, <2>2 DEF ClientInv
<1> QED  BY <1>4, <1>5

LEMMA PostsExist ==
  ASSUME TypeOK, NEW S, NEW U, NEW v \in BOOLEAN, inbox' = Post(S, U, v)
  PROVE  inbox' \in Boxes
<1>1. inbox \in Boxes
  BY DEF TypeOK, Boxes
<1> QED  BY <1>1, PostIs, Zenon

LEMMA ClearedMarks ==
  ASSUME TypeOK, NEW U
  PROVE  Cleared(U) \in [User -> {"none", "fresh", "stale"}]
BY DEF TypeOK, Cleared

\* flushTypingStale, in a handler that changes neither the room nor what is shown.
LEMMA FlushedClients ==
  ASSUME IInv, flushTypingStale, UNCHANGED <<room, shows>>
  PROVE  /\ mark' \in [User -> {"none", "fresh", "stale"}] /\ inbox' \in Boxes
         /\ \A s \in Web : ClientInv(s)'
<1>1. mark' = Cleared(Stale) /\ inbox' = Post(room, Stale, FALSE)
  BY DEF flushTypingStale
<1>2. PICK v \in BOOLEAN : v = FALSE /\ inbox' = Post(room, Stale, v)
  BY <1>1, Zenon
<1>3. mark' \in [User -> {"none", "fresh", "stale"}]
  BY <1>1, ClearedMarks DEF IInv
<1>4. inbox' \in Boxes
  BY <1>2, PostsExist DEF IInv
<1>5. ASSUME NEW s \in Web
      PROVE  ClientInv(s)'
  <2>1. ClientInv(s) /\ TypeOK
    BY DEF IInv
  <2>2. shows'[s] = shows[s] /\ inbox'[s] = Post(room, Stale, v)[s] /\ (s \in room <=> s \in room')
    BY <1>2
  <2> QED  BY <1>1, <1>2, <2>1, <2>2, ClearedClient
<1> QED  BY <1>3, <1>4, <1>5

LEMMA Asks ==
  ASSUME TypeOK, RequestInv, NEW s \in Socket, NEW op \in {"join", "start", "stop"},
         Asked(op, s), conn \subseteq conn', s \in conn'
  PROVE  pending' \subseteq Request /\ RequestInv'
<1> DEFINE r == [op |-> op, by |-> s, live |-> TRUE]
<1>1. r \in Request
  BY Zenon DEF Request
<1>2. r.by = s
  OBVIOUS
<1> HIDE DEF r
<1>3. pending' = pending \cup {r}
  BY DEF Asked, r
<1>4. \A q \in pending' : q.live => q.by \in conn'
  BY <1>2, <1>3 DEF RequestInv
<1> QED  BY <1>1, <1>3, <1>4 DEF TypeOK, RequestInv

LEMMA ConnectStep ==
  ASSUME IInv, NEW s \in Socket, Connect(s)
  PROVE  IInv'
<1>1. /\ conn' = conn \cup {s} /\ flushTypingStale /\ Asked("join", s)
      /\ UNCHANGED <<member, room, shows, timer, silent>>
  BY DEF Connect
<1>2. PICK late \in SUBSET conn :
        byUser' = addSocket(ReapSockets(byUser, late), Owner[s], s, late)
  BY DEF Connect
<1>3. Entries(byUser)'
  <2>1. Entries(byUser)
    BY DEF IInv, TypeOK, Entries
  <2>2. Entries(ReapSockets(byUser, late)) /\ Owner[s] \in User
    BY <2>1, ReapKeeps, RealtimeConstants
  <2>3. Entries(addSocket(ReapSockets(byUser, late), Owner[s], s, late))
    BY <2>2, AddSocketKeeps
  <2> QED  BY <1>2, <2>3 DEF Entries
<1>4. pending' \subseteq Request /\ RequestInv'
  BY <1>1, Asks DEF IInv
<1>5. /\ mark' \in [User -> {"none", "fresh", "stale"}] /\ inbox' \in Boxes
      /\ \A t \in Web : ClientInv(t)'
  BY <1>1, FlushedClients
<1>6. TypeOK'
  BY <1>1, <1>3, <1>4, <1>5 DEF IInv, TypeOK, Boxes, Entries
<1> QED  BY <1>4, <1>5, <1>6 DEF IInv

LEMMA HeartbeatStep ==
  ASSUME IInv, NEW s \in Socket, onPresenceHeartbeat(s)
  PROVE  IInv'
<1>1. flushTypingStale /\ UNCHANGED <<member, conn, room, pending, shows, timer, silent>>
  BY DEF onPresenceHeartbeat
<1>2. Entries(byUser)'
  <2>1. Entries(byUser)
    BY DEF IInv, TypeOK, Entries
  <2> QED  BY <2>1, ReapKeeps DEF onPresenceHeartbeat, Entries
<1>3. /\ mark' \in [User -> {"none", "fresh", "stale"}] /\ inbox' \in Boxes
      /\ \A t \in Web : ClientInv(t)'
  BY <1>1, FlushedClients
<1>4. TypeOK'
  BY <1>1, <1>2, <1>3 DEF IInv, TypeOK, Boxes, Entries
<1>5. RequestInv'
  BY <1>1 DEF IInv, RequestInv
<1> QED  BY <1>3, <1>4, <1>5 DEF IInv

LEMMA AskTypingStep ==
  ASSUME IInv, NEW s \in Socket, NEW op \in {"start", "stop"}, AskTyping(s, op)
  PROVE  IInv'
<1>1. /\ flushTypingStale /\ Asked(op, s) /\ s \in conn
      /\ UNCHANGED <<member, conn, room, byUser, shows, timer, silent>>
  BY DEF AskTyping
<1>2. pending' \subseteq Request /\ RequestInv'
  BY <1>1, Asks DEF IInv
<1>3. /\ mark' \in [User -> {"none", "fresh", "stale"}] /\ inbox' \in Boxes
      /\ \A t \in Web : ClientInv(t)'
  BY <1>1, FlushedClients
<1>4. TypeOK'
  BY <1>1, <1>2, <1>3 DEF IInv, TypeOK, Boxes
<1> QED  BY <1>2, <1>3, <1>4 DEF IInv

LEMMA JoinedStep ==
  ASSUME IInv, NEW r \in pending, Joined(r)
  PROVE  IInv'
<1>1. /\ pending' \subseteq pending
      /\ UNCHANGED <<member, conn, byUser, mark, inbox, shows, timer, silent>>
  BY DEF Joined
<1>2. room' = room \/ (r.live /\ room' = room \cup {r.by})
  BY DEF Joined
<1>3. RequestInv'
  BY <1>1 DEF IInv, RequestInv
<1>4. room' \subseteq conn' /\ room \subseteq room'
  BY <1>1, <1>2 DEF IInv, TypeOK, RequestInv
<1>5. TypeOK'
  BY <1>1, <1>4 DEF IInv, TypeOK
<1>6. ASSUME NEW s \in Web
      PROVE  ClientInv(s)'
  BY <1>1, <1>4, SameClient DEF IInv
<1> QED  BY <1>3, <1>5, <1>6 DEF IInv

------------------------------------------------------------------------------
(* Disconnecting, typing *)

LEMMA DisconnectStep ==
  ASSUME IInv, NEW s \in Socket, handleDisconnect(s)
  PROVE  IInv'
<1> DEFINE gone == Stale \cup (IF s \in room /\ mark[Owner[s]] # "none" THEN {Owner[s]} ELSE {})
<1>1. /\ conn' = conn \ {s} /\ room' = room \ {s} /\ pending' = Orphaned(s)
      /\ mark' = Cleared(gone) /\ inbox' = DroppedFrom(Post(room \ {s}, gone, FALSE), s)
      /\ shows' = IF s \in Web THEN [shows EXCEPT ![s] = {}] ELSE shows
      /\ timer' = timer \ {s} /\ UNCHANGED <<member, silent>>
  BY DEF handleDisconnect
<1> HIDE DEF gone
<1>2. PICK v \in BOOLEAN : v = FALSE /\ inbox' = DroppedFrom(Post(room \ {s}, gone, v), s)
  BY <1>1, Zenon
<1> DEFINE p == Post(room \ {s}, gone, v)
<1>3. p \in Boxes
  BY PostIs DEF IInv, TypeOK, Boxes
<1>4. inbox' = [p EXCEPT ![s] = NoPosts]
  BY <1>2 DEF DroppedFrom
<1> HIDE DEF p
<1>5. NoPosts \in [User -> Seq(BOOLEAN)]
  BY EmptySeq DEF NoPosts
<1>6. inbox' \in Boxes /\ inbox'[s] = NoPosts /\ \A t \in Socket \ {s} : inbox'[t] = p[t]
  BY <1>3, <1>4, <1>5 DEF Boxes
<1>7. Entries(byUser)'
  <2>1. Entries(byUser)
    BY DEF IInv, TypeOK, Entries
  <2>2. PICK late : byUser' = removeSocket(ReapSockets(byUser, late), Owner[s], s)
    BY DEF handleDisconnect
  <2>3. Entries(removeSocket(ReapSockets(byUser, late), Owner[s], s))
    BY <2>1, ReapKeeps, RemoveSocketKeeps
  <2> QED  BY <2>2, <2>3 DEF Entries
<1>8. pending' \subseteq Request /\ RequestInv'
  <2>1. ASSUME NEW q \in pending'
        PROVE  q \in Request /\ (q.live => q.by \in conn')
    <3>1. PICK r \in pending : q = IF r.by = s THEN [r EXCEPT !.live = FALSE] ELSE r
      BY <1>1 DEF Orphaned
    <3>2. r \in Request /\ (r.live => r.by \in conn)
      BY DEF IInv, TypeOK, RequestInv
    <3> QED  BY <1>1, <3>1, <3>2 DEF Request
  <2> QED  BY <2>1 DEF RequestInv
<1>9. mark' \in [User -> {"none", "fresh", "stale"}]
  BY <1>1, ClearedMarks DEF IInv
<1>10. shows' \in [Socket -> SUBSET User] /\ \A t \in Socket \ {s} : shows'[t] = shows[t]
  BY <1>1 DEF IInv, TypeOK
<1>11. TypeOK'
  BY <1>1, <1>6, <1>7, <1>8, <1>9, <1>10 DEF IInv, TypeOK, Boxes, Entries
<1>12. ASSUME NEW t \in Web
       PROVE  ClientInv(t)'
  <2>1. t \in Socket /\ Owner[t] \in User
    BY RealtimeConstants
  <2>2. CASE t = s
    <3>1. shows'[t] = {}
      BY <1>1, <2>1, <2>2 DEF IInv, TypeOK
    <3>2. \A u \in User : inbox'[t][u] = <<>>
      BY <1>6, <2>2 DEF NoPosts
    <3>3. \A u \in User : ~WillShow(t, u)'
      BY <3>1, <3>2 DEF WillShow
    <3> QED  BY <1>6, <2>1, <2>2, <3>1, <3>2, <3>3 DEF ClientInv, NoPosts
  <2>3. CASE t # s
    <3>1. shows'[t] = shows[t] /\ inbox'[t] = Post(room \ {s}, gone, v)[t]
      BY <1>6, <1>10, <2>1, <2>3 DEF p
    <3>2. (t \in room <=> t \in room \ {s}) /\ (t \in room <=> t \in room')
      BY <1>1, <2>3
    <3>3. ClientInv(t) /\ TypeOK
      BY DEF IInv
    <3> QED  BY <1>1, <1>2, <3>1, <3>2, <3>3, ClearedClient
  <2> QED  BY <2>2, <2>3
<1> QED  BY <1>8, <1>11, <1>12 DEF IInv

LEMMA StartStep ==
  ASSUME IInv, NEW r \in pending, startTyping(r)
  PROVE  IInv'
<1> DEFINE u == Owner[r.by]
<1>1. /\ pending' \subseteq pending
      /\ UNCHANGED <<member, conn, room, byUser, shows, timer, silent>>
      /\ \/ UNCHANGED <<mark, inbox>>
         \/ mark' = [mark EXCEPT ![u] = "fresh"] /\ inbox' = Post(room, {u}, TRUE)
  BY DEF startTyping
<1>2. RequestInv'
  BY <1>1 DEF IInv, RequestInv
<1>3. u \in User
  BY RealtimeConstants DEF IInv, TypeOK, Request
<1> HIDE DEF u
<1>4. CASE UNCHANGED <<mark, inbox>>
  <2>1. TypeOK'
    BY <1>1, <1>4 DEF IInv, TypeOK
  <2>2. ASSUME NEW s \in Web
        PROVE  ClientInv(s)'
    BY <1>1, <1>4, SameClient DEF IInv
  <2> QED  BY <1>2, <2>1, <2>2 DEF IInv
<1>5. CASE mark' = [mark EXCEPT ![u] = "fresh"] /\ inbox' = Post(room, {u}, TRUE)
  <2>1. PICK v \in BOOLEAN : inbox' = Post(room, {u}, v)
    BY <1>5, Zenon
  <2>2. inbox \in Boxes
    BY DEF IInv, TypeOK, Boxes
  <2>3. inbox' \in Boxes
    BY <2>1, PostsExist DEF IInv
  <2>4. /\ mark' \in [User -> {"none", "fresh", "stale"}] /\ mark'[u] # "none"
        /\ \A w \in User \ {u} : mark'[w] = mark[w]
    BY <1>3, <1>5 DEF IInv, TypeOK
  <2>5. TypeOK'
    BY <1>1, <2>3, <2>4 DEF IInv, TypeOK, Boxes
  <2>6. ASSUME NEW s \in Web
        PROVE  ClientInv(s)'
    <3>1. s \in Socket /\ Owner[s] \in User /\ ClientInv(s)
      BY RealtimeConstants DEF IInv
    <3>2. /\ s \notin room => inbox'[s] = inbox[s]
          /\ inbox'[s][Owner[s]] = inbox[s][Owner[s]]
          /\ \A w \in User \ {u} : inbox'[s][w] = inbox[s][w]
      BY <2>1, <2>2, <3>1, PostIs
    <3>3. shows'[s] = shows[s] /\ room' = room
      BY <1>1
    <3>4. ASSUME NEW w \in User, WillShow(s, w)'
          PROVE  mark'[w] # "none"
      <4>1. CASE w = u
        BY <2>4, <4>1
      <4>2. CASE w # u
        <5>1. inbox'[s][w] = inbox[s][w]
          BY <3>2, <4>2
        <5>2. WillShow(s, w)
          BY <3>3, <3>4, <5>1 DEF WillShow
        <5> QED  BY <2>4, <3>1, <4>2, <5>2 DEF ClientInv
      <4> QED  BY <4>1, <4>2
    <3> QED  BY <3>1, <3>2, <3>3, <3>4 DEF ClientInv, NoPosts
  <2> QED  BY <1>2, <2>5, <2>6 DEF IInv
<1> QED  BY <1>1, <1>4, <1>5

LEMMA StopStep ==
  ASSUME IInv, NEW r \in pending, stopTyping(r)
  PROVE  IInv'
<1> DEFINE u == Owner[r.by]
<1>1. /\ pending' \subseteq pending
      /\ UNCHANGED <<member, conn, room, byUser, shows, timer, silent>>
      /\ \/ UNCHANGED <<mark, inbox>>
         \/ mark' = Cleared({u}) /\ inbox' = Post(room, {u}, FALSE)
  BY DEF stopTyping
<1>2. RequestInv'
  BY <1>1 DEF IInv, RequestInv
<1> HIDE DEF u
<1>4. CASE UNCHANGED <<mark, inbox>>
  <2>1. TypeOK'
    BY <1>1, <1>4 DEF IInv, TypeOK
  <2>2. ASSUME NEW s \in Web
        PROVE  ClientInv(s)'
    BY <1>1, <1>4, SameClient DEF IInv
  <2> QED  BY <1>2, <2>1, <2>2 DEF IInv
<1>5. CASE mark' = Cleared({u}) /\ inbox' = Post(room, {u}, FALSE)
  <2>1. PICK v \in BOOLEAN : v = FALSE /\ inbox' = Post(room, {u}, v)
    BY <1>5, Zenon
  <2>2. mark' \in [User -> {"none", "fresh", "stale"}] /\ inbox' \in Boxes
    BY <1>5, <2>1, PostsExist, ClearedMarks DEF IInv
  <2>3. TypeOK'
    BY <1>1, <2>2 DEF IInv, TypeOK, Boxes
  <2>4. ASSUME NEW s \in Web
        PROVE  ClientInv(s)'
    <3>1. ClientInv(s) /\ TypeOK
      BY DEF IInv
    <3>2. shows'[s] = shows[s] /\ inbox'[s] = Post(room, {u}, v)[s] /\ (s \in room <=> s \in room')
      BY <1>1, <2>1
    <3> QED  BY <1>5, <2>1, <3>1, <3>2, ClearedClient
  <2> QED  BY <1>2, <2>3, <2>4 DEF IInv
<1> QED  BY <1>1, <1>4, <1>5

------------------------------------------------------------------------------
(* The clients and the environment *)

LEMMA UpdateStep ==
  ASSUME IInv, NEW s \in Socket, NEW u \in User, onTypingUpdate(s, u)
  PROVE  IInv'
<1> DEFINE q == inbox[s][u]
<1>1. /\ q # <<>> /\ inbox' = [inbox EXCEPT ![s][u] = Tail(@)]
      /\ shows' = [shows EXCEPT ![s] = IF Head(q) THEN @ \cup {u} ELSE @ \ {u}]
      /\ timer' \subseteq timer \cup ({s} \cap Web)
      /\ UNCHANGED <<member, conn, room, pending, byUser, mark, silent>>
  BY DEF onTypingUpdate
<1>2. inbox \in Boxes /\ q \in Seq(BOOLEAN) /\ shows \in [Socket -> SUBSET User]
  BY DEF IInv, TypeOK, Boxes
<1>3. Tail(q) \in Seq(BOOLEAN) /\ Shown(Tail(q), Head(q)) = Shown(q, u \in shows[s])
  BY <1>1, <1>2, ShownTail
<1>4. /\ inbox' \in Boxes /\ inbox'[s][u] = Tail(q)
      /\ \A w \in User \ {u} : inbox'[s][w] = inbox[s][w]
      /\ \A t \in Socket \ {s} : inbox'[t] = inbox[t]
  BY <1>1, <1>2, <1>3 DEF Boxes
<1>5. /\ shows' \in [Socket -> SUBSET User] /\ (u \in shows'[s] <=> Head(q))
      /\ \A w \in User \ {u} : w \in shows'[s] <=> w \in shows[s]
      /\ \A t \in Socket \ {s} : shows'[t] = shows[t]
  BY <1>1, <1>2
<1>6. TypeOK'
  BY <1>1, <1>4, <1>5 DEF IInv, TypeOK, Boxes
<1>7. RequestInv'
  BY <1>1 DEF IInv, RequestInv
<1>8. ASSUME NEW t \in Web
      PROVE  ClientInv(t)'
  <2>1. t \in Socket /\ Owner[t] \in User /\ ClientInv(t)
    BY RealtimeConstants DEF IInv
  <2>2. CASE t # s
    BY <1>1, <1>4, <1>5, <2>1, <2>2, SameClient
  <2>3. CASE t = s
    <3>1. s \in room /\ u # Owner[s]
      BY <1>1, <2>1, <2>3 DEF ClientInv, NoPosts
    <3>2. inbox'[s][Owner[s]] = <<>> /\ Owner[s] \notin shows'[s]
      BY <1>4, <1>5, <2>1, <2>3, <3>1 DEF ClientInv
    <3>3. ASSUME NEW w \in User, WillShow(s, w)'
          PROVE  WillShow(s, w)
      <4>1. CASE w = u
        <5>1. Shown(Tail(q), Head(q))
          BY <1>4, <1>5, <3>3, <4>1 DEF WillShow, Shown
        <5>2. WillShow(s, u) = Shown(q, u \in shows[s])
          BY DEF WillShow, Shown
        <5> QED  BY <1>3, <4>1, <5>1, <5>2
      <4>2. CASE w # u
        <5>1. inbox'[s][w] = inbox[s][w] /\ (w \in shows'[s] <=> w \in shows[s])
          BY <1>4, <1>5, <4>2
        <5> QED  BY <3>3, <5>1 DEF WillShow
      <4> QED  BY <4>1, <4>2
    <3> QED  BY <1>1, <2>1, <2>3, <3>1, <3>2, <3>3 DEF ClientInv
  <2> QED  BY <2>2, <2>3
<1> QED  BY <1>6, <1>7, <1>8 DEF IInv

\* A client shows nobody any more; what is on its way stays so.
LEMMA ForgetStep ==
  ASSUME IInv, NEW s \in Socket, shows' = [shows EXCEPT ![s] = {}], timer' = timer \ {s},
         UNCHANGED <<member, conn, room, pending, byUser, mark, inbox, silent>>
  PROVE  IInv'
<1>1. /\ shows' \in [Socket -> SUBSET User]
      /\ \A t \in Socket : shows'[t] = shows[t] \/ shows'[t] = {}
  BY DEF IInv, TypeOK
<1>2. TypeOK'
  BY <1>1 DEF IInv, TypeOK
<1>3. RequestInv'
  BY DEF IInv, RequestInv
<1>4. ASSUME NEW t \in Web
      PROVE  ClientInv(t)'
  <2>1. t \in Socket /\ ClientInv(t)
    BY RealtimeConstants DEF IInv
  <2>2. shows'[t] \subseteq shows[t]
    BY <1>1, <2>1
  <2>3. \A u \in User : WillShow(t, u)' => WillShow(t, u)
    BY <2>2 DEF WillShow
  <2> QED  BY <2>1, <2>2, <2>3 DEF ClientInv, NoPosts
<1> QED  BY <1>2, <1>3, <1>4 DEF IInv

\* Steps that change neither the room nor what clients show or are sent.
LEMMA EnvironmentStep ==
  ASSUME IInv, UNCHANGED <<conn, room, pending, byUser, inbox, shows, timer>>,
         member' \subseteq User, silent' \subseteq User,
         mark' \in [User -> {"none", "fresh", "stale"}],
         \A u \in User : mark[u] # "none" => mark'[u] # "none"
  PROVE  IInv'
<1>1. TypeOK'
  BY DEF IInv, TypeOK
<1>2. RequestInv'
  BY DEF IInv, RequestInv
<1>3. ASSUME NEW s \in Web
      PROVE  ClientInv(s)'
  BY SameClient DEF IInv
<1> QED  BY <1>1, <1>2, <1>3 DEF IInv

LEMMA RestartStep ==
  ASSUME IInv, Restart
  PROVE  IInv'
<1>1. /\ conn' = {} /\ room' = {} /\ pending' = {} /\ byUser' = NoEntry /\ timer' = {}
      /\ mark' = [u \in User |-> "none"] /\ inbox' = [s \in Socket |-> NoPosts]
      /\ shows' = [s \in Socket |-> IF s \in Web THEN {} ELSE shows[s]]
      /\ UNCHANGED <<member, silent>>
  BY DEF Restart
<1>2. shows' \in [Socket -> SUBSET User] /\ \A s \in Web : shows'[s] = {}
  BY <1>1, RealtimeConstants DEF IInv, TypeOK
<1>3. inbox' \in Boxes
  <2>1. NoPosts \in [User -> Seq(BOOLEAN)]
    BY EmptySeq DEF NoPosts
  <2> QED  BY <1>1, <2>1 DEF Boxes
<1>4. mark' \in [User -> {"none", "fresh", "stale"}]
  BY <1>1
<1>5. Entries(byUser)'
  BY <1>1, NoEntryKeeps DEF Entries
<1>6. TypeOK' /\ RequestInv'
  BY <1>1, <1>2, <1>3, <1>4, <1>5 DEF IInv, TypeOK, RequestInv, Boxes, Entries
<1>7. ASSUME NEW s \in Web
      PROVE  ClientInv(s)'
  <2>1. s \in Socket /\ Owner[s] \in User
    BY RealtimeConstants
  <2>2. inbox'[s] = NoPosts /\ shows'[s] = {} /\ \A u \in User : inbox'[s][u] = <<>>
    BY <1>1, <1>2, <2>1 DEF NoPosts
  <2>3. \A u \in User : ~WillShow(s, u)'
    BY <2>2 DEF WillShow
  <2> QED  BY <2>1, <2>2, <2>3 DEF ClientInv, NoPosts
<1> QED  BY <1>6, <1>7 DEF IInv

------------------------------------------------------------------------------

LEMMA IInvInit == Init => IInv
<1> SUFFICES ASSUME Init PROVE IInv
  OBVIOUS
<1>1. NoPosts \in [User -> Seq(BOOLEAN)]
  BY EmptySeq DEF NoPosts
<1>2. Entries(byUser)
  BY NoEntryKeeps DEF Init
<1>3. TypeOK /\ RequestInv
  BY <1>1, <1>2 DEF Init, TypeOK, RequestInv, Entries
<1>4. ASSUME NEW s \in Web
      PROVE  ClientInv(s)
  <2>1. s \in Socket /\ Owner[s] \in User
    BY RealtimeConstants
  <2>2. inbox[s] = NoPosts /\ shows[s] = {} /\ \A u \in User : inbox[s][u] = <<>>
    BY <2>1 DEF Init, NoPosts
  <2> QED  BY <2>1, <2>2 DEF ClientInv, WillShow
<1> QED  BY <1>3, <1>4 DEF IInv

LEMMA IInvStep == IInv /\ [Next]_vars => IInv'
<1> SUFFICES ASSUME IInv, [Next]_vars PROVE IInv'
  OBVIOUS
<1>1. ASSUME NEW s \in Socket, Connect(s)
      PROVE  IInv'
  BY <1>1, ConnectStep
<1>2. ASSUME NEW s \in Socket, handleDisconnect(s)
      PROVE  IInv'
  BY <1>2, DisconnectStep
<1>3. ASSUME NEW s \in Socket, onPresenceHeartbeat(s)
      PROVE  IInv'
  BY <1>3, HeartbeatStep
<1>4. ASSUME NEW s \in Socket, PeerTypingExpires(s) \/ Reopen(s)
      PROVE  IInv'
  BY <1>4, ForgetStep DEF PeerTypingExpires, Reopen
<1>5. ASSUME NEW s \in Socket, AskTyping(s, "start") \/ AskTyping(s, "stop")
      PROVE  IInv'
  BY <1>5, AskTypingStep
<1>6. ASSUME NEW r \in pending, Answered(r)
      PROVE  IInv'
  BY <1>6, JoinedStep, StartStep, StopStep DEF Answered
<1>7. ASSUME NEW s \in Socket, NEW u \in User, onTypingUpdate(s, u)
      PROVE  IInv'
  BY <1>7, UpdateStep
<1>8. ASSUME NEW u \in User, ChangeMember(u)
      PROVE  IInv'
  <2>1. member' \subseteq User
    BY <1>8 DEF ChangeMember, IInv, TypeOK
  <2> QED  BY <1>8, <2>1, EnvironmentStep DEF ChangeMember, IInv, TypeOK
<1>9. ASSUME NEW u \in User, Age(u)
      PROVE  IInv'
  <2>1. /\ mark' \in [User -> {"none", "fresh", "stale"}]
        /\ \A w \in User : mark[w] # "none" => mark'[w] # "none"
    BY <1>9 DEF Age, IInv, TypeOK
  <2> QED  BY <1>9, <2>1, EnvironmentStep DEF Age, IInv, TypeOK
<1>10. ASSUME NEW u \in User, FallSilent(u)
       PROVE  IInv'
  <2>1. silent' \subseteq User
    BY <1>10 DEF FallSilent, IInv, TypeOK
  <2> QED  BY <1>10, <2>1, EnvironmentStep DEF FallSilent, IInv, TypeOK
<1>11. CASE Restart
  BY <1>11, RestartStep
<1>12. CASE UNCHANGED vars
  BY <1>12, EnvironmentStep DEF vars, IInv, TypeOK
<1> QED  BY <1>1, <1>2, <1>3, <1>4, <1>5, <1>6, <1>7, <1>8, <1>9, <1>10, <1>11, <1>12 DEF Next

LEMMA RealtimeInvariant == Spec => []IInv
BY IInvInit, IInvStep, PTL DEF Spec

\* The gateway's memory stays what its handlers take it for: the room holds only
\* connected sockets, although joins answer late, and a presence entry only sockets.
THEOREM RealtimeTypeCorrect == Spec => []TypeOK
<1>1. IInv => TypeOK
  BY DEF IInv
<1> QED  BY <1>1, RealtimeInvariant, PTL

\* No web panel goes on showing a user as typing without a marker that will end it
\* (TypingStateService, and the handlers that reap it).
THEOREM NoIndicatorIsStuck == Spec => []NoStuckIndicator
<1>1. IInv => NoStuckIndicator
  BY DEF IInv, ClientInv, NoStuckIndicator
<1> QED  BY <1>1, RealtimeInvariant, PTL
==============================================================================
