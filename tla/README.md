# Loza Chat: a TLA+ verification of the API and its clients

Loza Chat is a messaging platform: a NestJS API over Postgres (through Prisma) with a
Socket.IO gateway, a Next.js web client and an Expo mobile client. The logic whose
correctness depends on the order of events is in `apps/api/src/modules` and in the parts of
the clients that talk to it; these modules model it. Paths below are relative to
`apps/api/src/modules` unless they begin with `web/` or `mobile/`, which are under `apps`.

To check a run, `tlc -config X.cfg MCModule`; to check the proofs, `tlapm ModuleProofs.tla`.

## 1. The system

The API is one Node process. A handler (a REST call or a socket event) runs without
interruption up to its next `await`; between two awaits other handlers run. State is in
two places:

- **the memory of the process**: calls (`CallService`), presence (`PresenceService`),
  typing markers (`TypingStateService`), the rooms of the sockets. It is lost at a restart.
- **Postgres**: everything else. Transactions run at READ COMMITTED, except
  `acceptRequest` and `createBlock`, which ask for SERIALIZABLE. No service retries a
  transaction that Postgres aborts.

| Component | State | Operations | Interacts with |
|---|---|---|---|
| Calls: `realtime/call.service.ts`, `call:*` of `chat.gateway.ts` | maps `calls`, `userActiveCall`; timers | initiate, answer, leave, end, the 60 s timer | membership queries, `createCallMessage`, push |
| Sending: `messages/messages.service.ts`, `conversation-rate-limit.service.ts` | `messages`, `conversations.last_message_id`, `attachments`, `conversation_spam_rate_limits` | text, sticker, attachment sends; call messages | policy checks, domain events -> gateway rooms |
| Other message operations (same service) | `deleted_at`, `message_reactions`, `message_user_hidden` | recall, delete, hide, forward, react, list, search | domain events |
| Friends and blocks: `friends/`, `blocks/` | `friend_requests`, `friendships`, `blocks` | send, accept, reject, cancel, unfriend, block, unblock | blocks gate sends; friendships receive presence |
| Receipts: `conversations/conversation-progress.service.ts`, `messages/message-receipts.service.ts` | two pointers of each `conversation_members` row | advance delivered, advance read, view, broadcast | messages arriving and being recalled |
| Conversations and unread: `conversations/` | `conversations`, `conversation_members` | open a direct conversation, list, count unread | receipts, groups |
| Groups: `groups/` | roster, roles, settings, join requests, audit log | add, remove, leave, role, transfer, dissolve, join requests | domain events, post policy of sends |
| Presence and typing: `realtime/presence.service.ts`, `typing-state.service.ts` | maps by user and by conversation | connect, disconnect, heartbeat, reap; start, stop, expire | friends, rooms |
| Auth, sessions, devices: `auth/`, `sessions/`, `devices/` | `otp_requests`, refresh tokens, QR sessions, devices | OTP, login, refresh, QR scan/approve/reject/poll, logout | guards of every call |
| Web client: `web/components/chat/` | the thread and the typing peers of a panel, the rooms joined | join, show, type | the gateway's events, REST |
| Mobile session: `mobile/src/services/api/client.ts`, `mobile/src/store/authStore.ts`, `mobile/src/storage/appStorage.ts` | tokens in memory, in storage and in what storage falls back to, the refresh under way | requests, refresh, login, logout, hydrate | auth |
| Mobile chat room: `mobile/app/main/chat/[id].tsx`, `mobile/features/chat-room/` | the thread, the offline queue, the typing peers | send, flush, load pages, merge events | sending, receipts, typing |
| Uploads, stickers, users, push | upload sessions, catalogue, profiles, push tokens | CRUD and calls to S3 and Firebase | attachments of sends |

What is hard here: handlers that check in one statement and write in a later one (nearly
all of them); retries by `clientMessageId`; the lock order of concurrent senders; work done
after a commit (events, receipts); the gap between a busy check and the creation of a call;
state that outlives its purpose (an ended call stays for a minute); restarts. In the clients:
answers and events that arrive in any order; a refresh that many requests need at once; timers
that start what is still running; calls whose answer is lost.

What makes each component correct: a call keeps its shape and never comes back, and the
busy map never lies; a retry is idempotent and every row announced once, within the rate
limit; a block and a friendship never coexist, and a request is decided once; receipts do not
fall behind; a group keeps exactly one owner and a
dissolved group nobody with a role; a device has one refresh token and each is exchanged once;
a typing indicator always ends; the app presents and stores the token that is good; a text that
was sent is not forgotten; the thread says of no message that it was seen when it was not. Not all
of that is so. Where the code breaks such a promise, a configuration of section 3 refutes it, and
the runs check what is left of it: how far it may be broken, and by what alone.

## 2. Modules

| Module | Models |
|---|---|
| `Calls` | `CallService` and the socket handlers that change a call |
| `MessageSend` | the send transactions, the rate limiter, `createCallMessage`, over row locks |
| `Relationship` | abstract: what friends and blocks promise about two users |
| `Social` | `FriendsService` and `BlocksService` over three tables; implements `Relationship` |
| `Receipts` | the two pointers, the timeline and the receipts sent |
| `Groups` | the roster of a group: roles, ownership, dissolution, requests to join |
| `SessionStore` | abstract: what authentication promises about refresh tokens |
| `Sessions` | registration, login, refresh, logout and revocation, over row locks; implements `SessionStore` |
| `Realtime` | connections, the room, presence, typing markers and the indicators the clients show |
| `MobileSession` | the tokens of the mobile app in memory and in storage, and its shared refresh |
| `Outbox` | the offline queue of a mobile chat room and the flushes that empty it |
| `ChatThread` | the thread of a mobile chat room: pages, events, answers, receipt levels |
| `CallsProofs`, `SocialProofs`, `ReceiptsProofs`, `GroupsProofs`, `SessionsProofs`, `MessageSendProofs`, `RealtimeProofs` | theorems and proofs about them |
| `MobileProofs` | theorems and proofs about `MobileSession`, `Outbox` and `ChatThread` |
| `MC...` | values of the constants for TLC |

`PROJECT.json` maps each definition to its lines. An operator whose comment begins with
*Variant* is a plausible wrong version of the definition below it; it is not part of any
specification, and serves to show that the properties notice.

### Calls

`calls` and `userActiveCall` are the two maps of `CallService`; an ended call stays in
`calls` until `Forget`, the timer. Every synchronous handler is one action:
`Decline`, `AcceptBusy` and `Accept` are the branches of `onCallAnswer`, `Leave` and `End`
are `onCallLeave` and `onCallEnd`. `onCallInitiate` awaits queries between its busy check and
`createCall`, so it is `Initiate`, then `CreateCall` or `InitiateFails`, and `initiating`
holds what is suspended. `callMessages` keeps, per call, the statuses of the call messages
written (the first two: bound `MaxLogged`). A user answers only calls that rang for him
(`rung`) and hangs up those or his own, from any device, as often as he likes.

### MessageSend

One send is one `Request`; requests with equal sender, conversation and key are a send and
its retry. `pc` walks through the statements of the transaction; the comment at the head of
the module lists the locks and why each is taken. That `last_message_id` has a plain unique
index (`schema.prisma:272`) makes its update need the row exclusively, while inserting a
message share-locks it: two senders of a conversation deadlock, Postgres aborts one
(`AbortVictim`), and its client gets an error. The P2002 handler cannot save a request, as its
query runs in an aborted transaction (`CreateConflict`). `Crash` kills the process at any time.
The rows of the limiter are apart for each action (text, voice), which has a limit and a window of
its own; `earlier` are turns taken before the requests of the model. A message gets its `createdAt`
(`Stamp`) before its insertion, which may wait for locks, and the timeline is read in the order of
`createdAt`: of two sends the one that is stamped first may be inserted last, and be the last message
of the conversation though it stands before the other (`LastMessage.cfg`). What the locks do give is
`LastNotOvertaken`: a message created after the last one was committed is never behind it.

### Social

A handler's `job` holds what it has read; what it writes happens in one step at its commit.
`acceptRequest` and `createBlock` read one snapshot when they start, fail when a row they
write has changed, and fail when a concurrent serializable transaction has read what they
write and written what they read (`Unserializable`). `sendRequest` re-reads the committed
state at each of its three checks; `rejectRequest` and `cancelRequest` are a read and an
update. `ImplementsRelationship` is the refinement: the tables of friendships and blocks
change as if every operation took one step.

### Receipts

A message is its place in the timeline; messages become visible in any order. `Start`,
`ResolveNamed`/`ResolveNewest`, `ReadRow`, `WriteDelivered`/`WriteRead`, `View` and `Emit` are
the statements of one call, at READ COMMITTED. `ServedUser` says whose calls each handler
serves; calls of one user overlap as they like, as the clients issue a REST read and two socket
receipts together and the gateway serves them without an order. Then pointers do move back
(`ReceiptRace.cfg`): each call decides by the row it has read, and the later writer wins. `settled`
keeps each user's pointers as they were when none of his calls was under way, and the properties
bound the damage by it: neither a pointer nor a receipt falls behind what was settled, and delivered
falls behind read only by a call whose row another has changed (`Overtaken`).

### Groups

`members` is `conversation_members` of one group. A call is three steps: `Begin...` reads the
actor's row (`requireActiveMember`) and tests the role, `Check...` reads the group and tests the
target, and the action named after the call writes by key, failing when a row that it updates or
deletes is gone (P2025) or one that it creates is there (P2002). The dissolution takes one step
more: `DeleteAll` is its deleteMany, and rows added before `Dissolve`, its commit, survive in the
dissolved group. Nothing keeps calls from overlapping, and then the roster breaks: a removal that
has checked a member deletes the owner's row when the group is transferred to that member in between
(`group_owner`), and two transfers leave two owners. `StaleWrite` says that in this step a call ends
that changes roles or deletes rows (`RowCall`) and one of the things it has checked holds no more
(`StillHolds`, the code's own checks at the moment of the write). The run and the theorems show that
this is the only way: every step keeps the one owner, the officers active and the ownership with who
has not given it up, unless it is such a write; calls that let people in never do harm.
Two comments of the schema do not hold of the model either: members may be left in a dissolved
group (`schema.prisma:275`), and a user with a pending request may get a row, when he is added
meanwhile (`schema.prisma:317`). A limit of the model: settings and friendship are a choice at each reading.

### Sessions

A device is a row of `user_devices`, one account on one installation; tokens are numbered in
the order of issue. A call that waits for row locks is a `job`, one action for each statement:
a login (`StartLogin`, `Upsert`, `FindTokens`, `RevokeToken`, `CommitLogin`), a refresh
(`FindRefresh`, `Claim`, `CommitRefresh`), a revocation of one device or of all
(`StartRevoke`, `FindTokens`, `RevokeToken`, `FindDevices`, `LockDevice`, `CommitRevoke`: that
is `revokeSession`, `logoutAll` and the end of a password reset). `RevokeToken` is Postgres
looking at a row again after it has waited for its lock. Logins and refreshes lock tokens and
devices in different orders, so they deadlock and `AbortVictim` fails one of them. That a login
does not miss the token that a refresh is about to insert rests on those locks: the refresh
holds the old token, and must wait for the device the login holds. `ImplementsSessionStore` maps
the tables to `SessionStore`, in which every call takes one step.

### Realtime

`Socket` is a client, which connects again and again. Handlers that await the membership query
leave a request in `pending`, which is answered later, also after its socket has gone. `mark` is
the marker of `TypingStateService`, `byUser` the map of `PresenceService`, `inbox` what has been
emitted and has not arrived, `shows` and `timer` what the web panel and the phone show.
`flushTypingStale` begins most handlers, and is the only thing that ends a marker whose user
sends nothing more. The phone has no timer of its own for what it shows: `NoStuckIndicator` and
`TypingEnds` are stated of web panels. `addSocket` is modelled as it is written: the entry it
makes is reaped before the socket is added to it.

### MobileSession

`mem` is the part of `authStore` about the session. A `Task` is a request through `apiClient` or a
`logout`. `Unauthorized` is the branch of the response interceptor for a 401: it waits for the refresh
under way or begins one; `applyTokenRefresh`, `RefreshFails` and `Written` settle it, and then
all who wait for it go on in the same step. The API is what `SessionStore` promises: an account
has one good token on this installation, `Exchange` spends it. `lost` keeps the tokens that the
phone holds through no fault of its own. Any request may be answered 401, as an access token expires
whatever becomes of the session.

Storage is `appStorage`. `disk` is what the phone stores, `writes` the operations it has been given
and not done. `setItem` awaits `detectNative` before it gives the phone its write, and `removeItem`
does not, so a removal may come before writes that were asked for earlier (`RemoveItem`,
`Overtakable`); it may also come before or after a read that waits. When an operation of the phone
fails, `preferMemory` is set and from then on sessions are kept in the map `fallback`, while the phone
keeps what it had (`Written`, `Hydrated`). `hydrate` runs at the start (`Restart`) and when the layout
of `/main` is mounted (`EnterMain`, `Hydrated`), where it may take a session that the store has left
since. Two steps therefore put storage out of step with the store, and `StoredAsHeld` says that
nothing else does. That a phone which is signed out stores no session is not so (`SignOutStored.cfg`).

### Outbox

One chat room. `sending` is the call of `send` (one at a time: `sendBusy`), `flush` the flushes
that run, each with the copy of the queue it works on. The timer and every change of the socket's
status start a flush, whether or not another runs. A call fails before or after the API has stored
its message: without the network, or because the API refuses what this user sends (`accepts`: he is
blocked, may not write, or has sent too much). `online` is the socket of the app, `connected` what the
room has been told of it: the room begins with "idle", and a room that is opened while the socket is
connected is not told so (`ReopenRoom`). Such a room flushes nothing until the socket reconnects
(`QueueIdle.cfg`). Leaving the room loses its queue; calls under way go on without the room. `fate` and
`copies` are history: what became of each text, how often it is stored.

### ChatThread

Messages are places, as in `Receipts`; `read` and `delivered` are the peer's pointers as they are
stored, `shown` what the thread shows of each row, `events` the socket events in order,
`answers` the answers to sends and recalls, which come in any order. A first page (`Load`)
replaces the thread, an older one is merged, an event or an answer puts the message in as "sent",
and a receipt raises every row of the viewer up to the message it names, if the thread has that.
Among the rows are some that the API does not know: texts of the outbox (`enqueueOfflineText`, until
they are answered or a first page comes) and stickers, which `onStickerPick` shows as delivered and
never sends. `After` says where in the timeline such a row stands. A receipt raises them too, so the
thread shows as delivered or seen what was never sent (`LocalRows.cfg`); `LevelHasReceipt` says what a
level does mean: that the peer has come past the row, except that a sticker is delivered at once.

## 3. Runs

| Run | Bounds | Shows |
|---|---|---|
| `calls` | 3 users, a direct and a group conversation, 2 calls, capacity 2 | `CallShape`, `BusyOnlyInLiveCall`, `EndedIsFinal`, `AnsweredOnlyAtHangUp` |
| `message_send` | two sends of a user, counted under two actions, a retry of one, a call message; 2 windows | `RetriesAgree`, `AnnouncedOnce`, `LastNotOvertaken`, `WithinRateLimit`, `EveryRequestAnswered` |
| `social` | 2 users, 3 calls at a time, 3 requests | `NoFriendshipWhileBlocked`, `FriendshipFromPending`, the refinement |
| `receipts` | a user with 2 calls at a time, 2 messages | `SettledPointersKept`, `ReadWithinDelivered`, `ReceiptsKeepUp` |
| `groups` | 3 users, 2 calls at a time, 2 requests | `OneOwnerKept`, `OfficersStayActive`, `OwnershipIsGivenUp`, `OnePendingRequest` |
| `sessions` | 1 account with 2 devices, 2 calls at a time, 3 tokens | `OneTokenPerDevice`, the refinement, `EveryCallAnswered` |
| `realtime` | a user with 2 clients, a peer with a web panel; 2 waiting requests, 1 emission on the way | `NoStuckIndicator`, `TypingEnds` |
| `mobile_session` | an account, 2 requests at a time, 3 tokens, 1 waiting write before another is asked for | `StoredAsHeld`, `PresentsGoodToken`, `EverythingSettles` |
| `outbox` | 2 texts, 2 flushes at a time | `SentIsKept`, `QueuedIsStored` |
| `resend` | the same with 3 texts | *violated*: a text is stored once |
| `chat_thread` | 3 messages, a text of the outbox, a sticker, pages of 1, 1 event on its way | `LevelHasReceipt` |
| `group_owner` | as `groups` | *violated*: a removal does not delete the owner's row |

Why these bounds are enough to be interesting. Two calls are needed for a user to be in one
and answer another; with capacity two the third user meets a full call. A retry needs two
requests, a lock cycle two transactions. Two windows let both attempts of one send pass the
limiter at the same time, and so do two actions for two sends; when each creates its limiter row each
share-locks the conversation and they deadlock, and where the row of the first window is there
already (`earlier`) they meet at the unique key instead. One sender is enough: in different windows
or under different actions his transactions contend as those of two users do. Three concurrent calls let an acceptance, a block and a
decision about one pair overlap, and three requests let crossing ones be followed by another.
Three users are an owner, a successor and somebody a call is about, and two calls are one that
checks and one that makes its checks stale. Two messages are an earlier and a later one, which is
all a pointer compares, and of two calls of a user one may wait while the other handler serves one
call after another; rows of different users are written apart. Two devices and two calls are a login against a refresh, and a revocation of
both devices against either; three tokens are two sessions and what one of them is exchanged for.
Two clients of the typist let one disconnect while the other types. Two requests that are
answered 401 together share a refresh, and a sign-out may overlap it; `SignedOut.cfg` has three, and
`Accounts.cfg` checks the safety properties with two accounts on one phone (4.2 million states). Two
flushes at different places of a queue are what can make one forget what the other left.
Pages of one make a thread with gaps, so that a receipt names messages that are loaded, newer or
missing; a row of the outbox before the peer's message and a sticker after it are reached by different
receipts. What the bounds
leave open (more users, more calls, more messages) is what the theorems cover.

`CHECK_DEADLOCK FALSE` appears for `MessageSend`, whose requests are finitely many: it ends
when all have been answered; for `Groups`, as a dissolved group serves no call any more; for
`Sessions`, whose tokens run out; and for `Realtime`.

**Fairness** is assumed where liveness is claimed, and only of what goes on by itself.

- `MessageSend`: `WF_vars(Handle(r))`, a request that has been started takes its next statement
  when it can: the event loop and Postgres continue to run. Starting, refusing, crashing and the
  clock are under no fairness. A waiting statement is not enabled, so that every send is answered
  rests on locks being released and on the detector breaking cycles, not on the assumption alone.
- `Sessions`: `SF_vars(JobStep(j))`, strong because a lock may be taken by others again and again
  and Postgres serves those who wait for it in turn; and the deadlock detector runs. Calls are
  made, tokens expire and the process restarts under no fairness.
- `Realtime`: queries answer, emissions arrive, a connected client sends its heartbeat (every 25 s),
  and a marker that nobody sets again gets old. Clients need not stop typing, disconnect or
  connect; the panel's timer is under no fairness, so that the indicator ends without it.
- `MobileSession`: requests, refreshes and sign-outs end (axios gives up after 15 s) and the
  storage does or fails what it was asked (`Written`, `Hydrated`). The user and the environment are
  under no fairness.
- `Outbox`: calls are answered or fail, the timer starts flushes, and the socket reconnects while
  the network is up. `QueuedIsStored` is about behaviours in which in the end the network stays up,
  the API takes what is sent and the room knows the socket to be connected; the network, the API and
  the socket may change, and the user leave the room, under no fairness.

**Refuted, outside the runs.** These configurations end in a counterexample, of a claim that a
comment, the code's own checks or its users would make. They belong to the properties of the same names, and
`PROJECT.json` names them under the hazards.

| Command | Claim | Shows |
|---|---|---|
| `tlc -config CallLog.cfg MCCalls` | `EveryEndedCallLogged`, of `messages.service.ts:1565` | the last decline ends a call without a call message |
| `tlc -config Attachment.cfg MCMessageSend` | `BoundToOneMessage`, of `schema.prisma:360` | two sends of one attachment both find it free |
| `tlc -config SocialPending.cfg MCSocial` | `OnePendingPerPair`, of `schema.prisma:221` | two requests that cross are both created; no migration has the index |
| `tlc -config SocialDecided.cfg MCSocial` | `DecidedOnce`, of `friends.service.ts:385` | an accepted request is rejected or cancelled |
| `tlc -config LastMessage.cfg MCMessageSend` | `LastIsLatest`: `last_message_id` is the first of the timeline | the send that is stamped first is inserted last |
| `tlc -config ReceiptRace.cfg MCReceipts` | `PointersForward`, of `conversation-progress.service.ts:203` | of two calls of one user the earlier message is written last |
| `tlc -config Presence.cfg MCRealtime` | `OnlineWhileConnected`, of `presence.service.ts:21` | a user's first socket is registered in an entry that has just been reaped |
| `tlc -config SignedOut.cfg MCMobileSession` | `SignedOutHoldsNoToken`, of `authStore.ts:158` | a profile and a refresh that are answered after a sign-out put tokens back |
| `tlc -config SignOutStored.cfg MCMobileSession` | `SignOutIsStored`: who has signed out is not signed in at the next start | the removal overtakes a write that was asked for before it |
| `tlc -config QueueIdle.cfg MCOutbox` | `SocketIsEnough`: with network, API and socket every queued text is stored | a room opened on a connected socket begins with "idle" and starts no flush |
| `tlc -config LocalRows.cfg MCChatThread` | `OnlyStoredAreRaised`: what was never stored is not shown as delivered or seen | a sticker is shown as delivered when it is picked; a receipt raises an unsent text |

## 4. Proofs

All theorems are for arbitrary constants, under the ASSUMEs of the modules (TLC evaluates
those on every run).

- **Calls.** `CallsInv` is `TypeOK`, `CallShape` and `BusyOnlyInLiveCall` strengthened by
  `FreshIds` (a suspended initiation holds an id no call has and no other holds, or
  `createCall` could overwrite a live call under a busy entry) and `FiniteCalls` (capacities are
  about finite sets). Proved: `CallsTypeCorrect`, `CallsShaped`, `BusyMapSound`, and from the
  same invariant the action properties `EndedCallsStayEnded` and, with `SilentUntilEnded` (a call has
  no messages before it has ended), `AnsweredOncePerCall`.
- **Social.** `SocialInv` strengthens `TypeOK` and `NoFriendshipWhileBlocked` by what a handler
  may still rely on: an acceptance that has not been failed by another commit still finds no
  block (`AcceptUnblocked`), and a block under way knows of every friendship it must delete
  (`BlockSeesFriendship`). The two depend on each other through `CommitSerializable`. Proved:
  `SocialTypeCorrect`, `BlockedAreNotFriends`, `FriendshipNeedsPending` and the refinement
  `SocialImplements`.
- **Receipts.** For any users and calls, with no assumption about which overlap. `ReceiptsInv` says
  that pointers name visible messages, and what a call may rely on although its row may have changed
  (`CallAhead`): what it has read was not behind the settled pointers, its target is after them, and a
  receipt on its way is not behind them. `settled` stays as it is until the user's last call ends, so
  all of this survives the steps of the others (`OtherCalls`, `EndStep`). Proved:
  `ReceiptsTypeCorrect`, `SettledPointersStay`, and with the same invariant the action properties
  `ReadIsDelivered` and `ReceiptsAreCurrent`.
- **Groups.** No assumption about which calls overlap. The action properties are about single steps:
  beside the types they need only `CallsNamed`, which rows each call is going to write. A lemma for
  each call says what its write keeps when its checks still hold (`DeleteKept`, `RoleKept`,
  `TransferKept`, `LeaveKept`, `DissolveKept`), one says that letting people in keeps all of it
  whatever was checked (`LetInKept`), and `KeptStep` puts them together. Proved: `GroupsTypeCorrect`,
  `OneOwnerUnlessStale`, `RolesNeedMembership`, `OwnershipEndsByOwner`, and from the unique index
  alone `OnePendingEach`.
- **Sessions.** `IInv` says that row locks exclude each other (`Apart`), that a call has found and
  locked what its statement needs and a locked token is not revoked (`Shape`), that tokens belong to
  devices of their accounts (`TokensOwned`), and that the UPDATE of a login has found every unrevoked
  token of its device for as long as the login holds it. Proved, for any devices, tokens and
  concurrent calls: `SessionsTypeCorrect`, `DeviceHasOneToken`, and the refinement
  `SessionsImplement`. From the refinement and an invariant of `SessionStore` (`StoreInv`) follows
  `TokensExchangedOnce`: what holds of atomic calls holds of the services.
- **MessageSend.** `IInv` says what the statements of the other transactions may rely on while one
  is under way. `RowsInv`: whose row is in the table and not committed is under way. `KeyInv`: one row
  for each key, committed or not, because an insertion waits for the uncommitted row of its key.
  `AnswerInv`: what a request has found is a committed row of its key. `LimitInv`: who has taken a turn
  at the limiter's row holds it until the turn is counted or undone. `StampInv`: no stamp is later than
  the last one drawn, and no message was stamped after the last one of its conversation was committed.
  Proved, for any requests, keys, actions, limits and windows: `SendTypeCorrect`,
  `RetriesAreIdempotent`, `MessagesAnnouncedOnce`, `RateLimitHolds`, `LastIsNotOvertaken`.
- **Realtime.** `IInv` adds to `NoStuckIndicator` that a web panel outside the room has nothing on its
  way and shows nobody, so that the stop that goes with a marker reaches every panel that shows its
  user; that a panel is never told of its own user, whom no stop would reach (`ClientInv`); and that a
  request whose socket has not gone is of a connected one (`RequestInv`), so that a late join lets in
  nobody who has left. The lemmas say what a post does to the last word on the way (`ClearedClient`).
  Proved, for any users, clients and numbers of requests and emissions: `RealtimeTypeCorrect`,
  `NoIndicatorIsStuck`.
- **MobileSession.** `StoreInv` says that requests and refreshes carry the tokens they should
  (`Filled`). `InStepKept` goes through the steps: who sets the store asks storage for the same session
  in the same step, a removal that overtakes nothing is asked for last, and a write that is done leaves
  what will be stored as it was, so that storage stays in step but for the two steps that
  `StoredAsHeld` names. `TokenInv` adds why a good token is presented: one
  refresh at a time (`OneRefresh`), and the token in memory is good or lost, except while an exchange
  that has been done is not applied (`HeldIsGood`); then every request waits instead of refreshing.
  Proved: `MobileSessionTypeCorrect`, `StorageFollowsMemory`, `RefreshPresentsGoodToken`.
- **Outbox.** `OutboxInv` says that a call answered as stored has stored its text (`ServedIsStored`), that a
  flush has something left to do, and that a text being sent is not queued yet (`SendingOnce`), so that
  a queue never holds one twice and removing it once is enough. Lemmas say what `Append` and
  `RemoveAt` do to a sequence without repetition. Proved: `OutboxTypeCorrect`, `SentTextsAreKept`.
- **ChatThread.** `ThreadInv` says that what is shown, each page under way and each event on its way
  (`Told`) is true of the pointers as they are now: pages and events are late, but pointers only
  advance; and a local row that was raised has been passed (`LocalTrue`). Proved:
  `ChatThreadTypeCorrect`, `LevelsHaveReceipts`.

The definitions of the three mobile modules have names of their own, so that `MobileProofs` extends
all of them (`OutboxInit`, `ThreadNext` and so on).

**Only model-checked:** the liveness properties (`EveryRequestAnswered`, `EveryCallAnswered`,
`TypingEnds`, `EverythingSettles`, `QueuedIsStored`: the proof system reaches neither liveness under
fairness nor ENABLED), and the violations, which no theorem could state. Every invariant, action
property and refinement that a passing run checks is also a theorem. No module declares a RECURSIVE
operator.

## 5. Not modelled, and the plan

- **Uploads, stickers, users, push**: calls to S3 and Firebase and single rows that one user writes.
  The binding of an attachment to a message is in `MessageSend`.
- **OTP and QR login**: a login is a call that may come at any time. The checks and the updates of the
  QR states are separate statements, so that two scans, or an approval and a rejection, both pass;
  little holds of those states beyond that.
- **Other message operations**: recall and deletion are steps of `Receipts` and `ChatThread`.
  Forwarding (clones attachments before the send), reactions (summaries are sent out of order) and
  hiding are left out; of two deletions at a time the second overwrites the mode of the first.
- **Unread counts**: a query over the read pointer and the timeline. A message that becomes visible
  behind the pointer is never counted.
- **What the abstract store allows**: `SessionStore` lets a revocation end any of the account's sessions;
  that `logoutAll` ends every session there was when it began is not stated, as a login or a refresh
  that overlaps it may leave a new one.
- **Group settings, audit log, system messages**: a setting is a choice at each reading.
- **Call clients** of both apps: they show what `Calls` decides, with timers and media of their own.
- **The web panel's thread**: its fetches replace what events have merged meanwhile; only its typing
  indicator is modelled, in `Realtime`.
- **The mobile room**: a first page replaces rows received meanwhile, unsent texts too, nothing is
  fetched again after a reconnection, an answer sets a message that is shown as seen back to sent, and
  the draft of a failed send replaces a newer one. `ChatThread` and `Outbox` contain all but the last; no property is
  stated that these would break. The group room is a second copy of this code.
- **Stores of lists and screens**: they fetch and show.

Left of the plan: the QR login as a module of its own; a call client composed with `Calls`; the web
panel's thread beside `ChatThread`.
