---------------------------- MODULE MobileSession ----------------------------
(****************************************************************************)
(* The session of the mobile app: the tokens that authStore keeps in memory  *)
(* and in storage, and the requests of apiClient, which share one refresh    *)
(* when the API answers 401 and sign the user out when it fails.  The API is *)
(* what SessionStore promises: for each account, the installation has one    *)
(* refresh token that is good, and exchanging it gives the next.             *)
(*                                                                           *)
(* A step is what runs between two awaits.  Calls and their answers may be   *)
(* lost, the user may sign out and in again while they are under way, and    *)
(* the app may be killed at any time.  The storage is appStorage: a removal  *)
(* is given to the phone at once, a write when it is known that the phone    *)
(* stores at all, so a removal may overtake it; and from the first operation *)
(* that fails, a map in memory takes the place of the phone, until the app   *)
(* is started again.  An access token is good for some time whatever becomes *)
(* of the session: any request may be answered 401.  Left out: what requests *)
(* are for, except the profile, and the screens.                             *)
(****************************************************************************)
EXTENDS Integers, Sequences, SequencesExt

CONSTANTS
  User,
  Task,       \* the requests and sign-outs that may be under way
  Token,      \* refresh tokens; a token nothing refers to any more is reused
  Owner,      \* the account of each token
  MaxWrites,  \* bound: nobody signs in or enters /main, and no profile comes,
              \* while so many writes to storage are waiting to be done
  NoUser, NoToken, NoTask

ASSUME MobileSessionConstants ==
  /\ Token \subseteq Nat
  /\ Owner \in [Token -> User]
  /\ MaxWrites \in Nat \ {0}
  /\ NoUser \notin User
  /\ NoToken \notin Token
  /\ NoTask \notin Task

VARIABLES
  current,  \* API: the token each account is signed in with on this phone
  mem,      \* the store: user, token, isAuthenticated
  disk,     \* the session the phone stores
  fallback, \* the session in the map that is used instead, memory
  preferMemory, \* an operation of the phone's storage has failed
  writes,   \* writes to the phone's storage, in order, and the task that awaits each
  reading,  \* the number of writes the read of hydrate is behind; -1, no read
  mounted,  \* the layout of /main is there: it has called hydrate
  refresh,  \* the refresh that each task has begun
  task,
  lost      \* history: tokens the phone cannot know, or need not care, are spent

vars == <<current, mem, disk, fallback, preferMemory, writes, reading, mounted, refresh,
          task, lost>>
storage == <<disk, fallback, preferMemory, writes, reading, mounted>>

Session == [user : User \cup {NoUser}, token : Token \cup {NoToken}, auth : BOOLEAN]
\* What is stored is a complete session, or SignedOut when nothing is.
Complete == [user : User, token : Token, auth : {TRUE}]
SignedOut == [user |-> NoUser, token |-> NoToken, auth |-> FALSE]

\* done: the API has answered, with token got; saving: that token is being stored.
RefreshState == [stage : {"none", "sent", "done", "saving"},
                 token : Token \cup {NoToken}, got : Token \cup {NoToken}]
NoRefresh == [stage |-> "none", token |-> NoToken, got |-> NoToken]

\* sent, resent: with the bearer of an account, who; waiting: for the refresh of
\* on; revoking, clearing, leaving: in logout, with the token it revokes.
TaskState == [step : {"idle", "sent", "waiting", "resent", "revoking", "clearing", "leaving"},
              who : User \cup {NoUser}, on : Task \cup {NoTask},
              token : Token \cup {NoToken}]
Idle == [step |-> "idle", who |-> NoUser, on |-> NoTask, token |-> NoToken]

TypeOK ==
  /\ current \in [User -> Token \cup {NoToken}]
  /\ mem \in Session
  /\ disk \in Complete \cup {SignedOut} /\ fallback \in Complete \cup {SignedOut}
  /\ preferMemory \in BOOLEAN /\ reading \in Nat \cup {-1} /\ mounted \in BOOLEAN
  /\ writes \in Seq([session : Complete \cup {SignedOut}, by : Task \cup {NoTask}])
  /\ refresh \in [Task -> RefreshState]
  /\ task \in [Task -> TaskState]
  /\ lost \subseteq Token

Init ==
  /\ current = [u \in User |-> NoToken]
  /\ mem = SignedOut
  /\ disk = SignedOut /\ fallback = SignedOut
  /\ preferMemory = FALSE /\ reading = -1 /\ mounted = FALSE
  /\ writes = <<>>
  /\ refresh = [k \in Task |-> NoRefresh]
  /\ task = [k \in Task |-> Idle]
  /\ lost = {}

------------------------------------------------------------------------------
(* Tokens and storage *)

Good(t) == current[Owner[t]] = t

Referenced ==
  {current[u] : u \in User} \cup {mem.token, disk.token, fallback.token}
  \cup {writes[i].session.token : i \in DOMAIN writes}
  \cup {refresh[k].token : k \in Task} \cup {refresh[k].got : k \in Task}
  \cup {task[k].token : k \in Task}
\* Which of the free tokens is issued does not matter: the first.
Fresh(t) == /\ t \notin Referenced
            /\ \A u \in Token \ Referenced : Owner[u] = Owner[t] => t <= u

\* t is issued to its account and the token it had is spent.
Issue(t) == current' = [current EXCEPT ![Owner[t]] = t]

\* setItem; k awaits it.  The map takes the session at once: nothing that is
\* awaited then lasts beyond the step.
Persist(session, k) ==
  IF preferMemory
  THEN fallback' = session /\ UNCHANGED writes
  ELSE writes' = Append(writes, [session |-> session, by |-> k]) /\ UNCHANGED fallback

\* removeItem, which does not wait: writes that still do, and are the last ones,
\* come after it, and so may a read.
Overtakable(i) == \A j \in DOMAIN writes : j > i => writes[j].session # SignedOut
RemoveItem(k) ==
  /\ fallback' = SignedOut
  /\ IF preferMemory
     THEN UNCHANGED <<writes, reading>>
     ELSE \E i \in 0..Len(writes), n \in {reading, reading + 1} :
            /\ Overtakable(i)
            /\ writes' = InsertAt(writes, i + 1, [session |-> SignedOut, by |-> k])
            /\ n = reading => reading <= i
            /\ n = reading + 1 => reading >= i
            /\ reading' = n

\* hydrate takes the session it has read, if it is one.  A token that is not the
\* one the store held may be spent: it was read before that was set.
Adopt(s) ==
  /\ mem' = IF s.auth THEN s ELSE mem
  /\ lost' = lost \cup ({mem'.token} \ {mem.token, NoToken})

\* The promise of refresh b settles.  Those who wait for it repeat their
\* request, with the bearer of the store if it has one, or call logout, which
\* reads the token it will revoke.
WaitersOf(b) == {k \in Task : task[k].step = "waiting" /\ task[k].on = b}

Resent(b, bearer) ==
  [k \in Task |-> IF k \in WaitersOf(b)
                  THEN [Idle EXCEPT !.step = "resent", !.who = Owner[bearer]] ELSE task[k]]

LoggingOut(K) ==
  [k \in Task |-> IF k \in K
                  THEN [Idle EXCEPT !.step = IF mem.token = NoToken THEN "clearing" ELSE "revoking",
                                    !.token = mem.token]
                  ELSE task[k]]

------------------------------------------------------------------------------
(* Requests *)

Send(k) ==
  /\ task[k] = Idle
  /\ mem.token # NoToken
  /\ task' = [task EXCEPT ![k] = [Idle EXCEPT !.step = "sent", !.who = Owner[mem.token]]]
  /\ UNCHANGED <<current, mem, storage, refresh, lost>>

\* An answer that changes nothing here, an error, or none in time.
Answered(k) ==
  /\ task[k].step \in {"sent", "resent"}
  /\ task' = [task EXCEPT ![k] = Idle]
  /\ UNCHANGED <<current, mem, storage, refresh, lost>>

\* The profile comes: setUser.
ProfileAnswered(k) ==
  /\ task[k].step \in {"sent", "resent"}
  /\ mem' = [mem EXCEPT !.user = task[k].who]
  /\ Len(writes) < MaxWrites
  /\ IF mem.auth /\ mem.token # NoToken
     THEN Persist(mem', NoTask) ELSE UNCHANGED <<fallback, writes>>
  /\ task' = [task EXCEPT ![k] = Idle]
  /\ UNCHANGED <<current, disk, preferMemory, reading, mounted, refresh, lost>>

\* Variants: the refresh under way is not shared; a request is repeated again
\* and again.
Unauthorized_OwnRefresh(k) ==
  /\ task[k].step \in {"sent", "resent"}
  /\ \/ /\ task[k].step = "resent"
        /\ task' = [task EXCEPT ![k] = Idle]
        /\ UNCHANGED <<refresh, lost>>
     \/ /\ task[k].step = "sent" /\ mem.token # NoToken
        /\ refresh' = [refresh EXCEPT ![k] = [NoRefresh EXCEPT !.stage = "sent", !.token = mem.token]]
        /\ task' = [task EXCEPT ![k].step = "waiting", ![k].on = k]
        /\ UNCHANGED lost
  /\ UNCHANGED <<current, mem, storage>>

Unauthorized_Again(k) ==
  /\ task[k].step \in {"sent", "resent"}
  /\ \/ \E b \in Task :
          /\ refresh[b].stage # "none"
          /\ task' = [task EXCEPT ![k].step = "waiting", ![k].on = b]
          /\ UNCHANGED <<refresh, lost>>
     \/ /\ \A b \in Task : refresh[b].stage = "none"
        /\ mem.token # NoToken
        /\ refresh' = [refresh EXCEPT ![k] = [NoRefresh EXCEPT !.stage = "sent", !.token = mem.token]]
        /\ task' = [task EXCEPT ![k].step = "waiting", ![k].on = k]
        /\ UNCHANGED lost
     \/ /\ \A b \in Task : refresh[b].stage = "none"
        /\ mem.token = NoToken
        /\ task' = LoggingOut({k})
        /\ UNCHANGED <<refresh, lost>>
  /\ UNCHANGED <<current, mem, storage>>

\* 401.  A request that has been repeated fails; the others wait for the
\* refresh under way, or begin one.
Unauthorized(k) ==
  /\ task[k].step \in {"sent", "resent"}
  /\ \/ /\ task[k].step = "resent"
        /\ task' = [task EXCEPT ![k] = Idle]
        /\ UNCHANGED refresh
     \/ /\ task[k].step = "sent"
        /\ \E b \in Task :
             /\ refresh[b].stage # "none"
             /\ task' = [task EXCEPT ![k].step = "waiting", ![k].on = b]
        /\ UNCHANGED refresh
     \/ /\ task[k].step = "sent"
        /\ \A b \in Task : refresh[b].stage = "none"
        /\ mem.token # NoToken
        /\ refresh' = [refresh EXCEPT ![k] = [NoRefresh EXCEPT !.stage = "sent", !.token = mem.token]]
        /\ task' = [task EXCEPT ![k].step = "waiting", ![k].on = k]
     \/ /\ task[k].step = "sent"
        /\ \A b \in Task : refresh[b].stage = "none"
        /\ mem.token = NoToken
        /\ task' = LoggingOut({k})
        /\ UNCHANGED refresh
  /\ UNCHANGED <<current, mem, storage, lost>>

------------------------------------------------------------------------------
(* The refresh *)

\* The API exchanges the token, if it is good.
Exchange(b, t) ==
  /\ refresh[b].stage = "sent"
  /\ Good(refresh[b].token)
  /\ Fresh(t) /\ Owner[t] = Owner[refresh[b].token]
  /\ Issue(t)
  /\ refresh' = [refresh EXCEPT ![b].stage = "done", ![b].got = t]
  /\ lost' = lost \ {t}
  /\ UNCHANGED <<mem, storage, task>>

\* Variant: the new token is kept in memory only.
applyTokenRefresh_NotStored(b) ==
  /\ refresh[b].stage = "done"
  /\ mem' = IF mem.user = NoUser THEN mem ELSE [mem EXCEPT !.token = refresh[b].got]
  /\ refresh' = [refresh EXCEPT ![b] = NoRefresh]
  /\ task' = Resent(b, refresh[b].got)
  /\ UNCHANGED <<current, storage, lost>>

\* What follows the await of storage: the promise of the refresh is kept.
Saved(b, bearer) ==
  IF preferMemory
  THEN refresh' = [refresh EXCEPT ![b] = NoRefresh] /\ task' = Resent(b, bearer)
  ELSE refresh' = [refresh EXCEPT ![b].stage = "saving"] /\ UNCHANGED task

\* Variant: whether a user is still there is not looked at.
applyTokenRefresh_NoUser(b) ==
  /\ refresh[b].stage = "done"
  /\ mem' = [mem EXCEPT !.token = refresh[b].got]
  /\ Persist([mem' EXCEPT !.auth = TRUE], b)
  /\ Saved(b, refresh[b].got)
  /\ UNCHANGED <<current, disk, preferMemory, reading, mounted, lost>>

\* The answer comes.  Nothing is kept when no user is there any more.
applyTokenRefresh(b) ==
  /\ refresh[b].stage = "done"
  /\ \/ /\ mem.user = NoUser
        /\ refresh' = [refresh EXCEPT ![b] = NoRefresh]
        /\ task' = Resent(b, IF mem.token = NoToken THEN refresh[b].got ELSE mem.token)
        /\ UNCHANGED <<mem, fallback, writes>>
     \/ /\ mem.user # NoUser
        /\ mem' = [mem EXCEPT !.token = refresh[b].got]
        /\ Persist([mem' EXCEPT !.auth = TRUE], b)
        /\ Saved(b, refresh[b].got)
  /\ UNCHANGED <<current, disk, preferMemory, reading, mounted, lost>>

\* The API refuses, or no answer comes in time.
RefreshFails(b) ==
  /\ \/ refresh[b].stage = "sent" /\ lost' = lost
     \/ refresh[b].stage = "done" /\ lost' = lost \cup {refresh[b].token}
  /\ refresh' = [refresh EXCEPT ![b] = NoRefresh]
  /\ task' = LoggingOut(WaitersOf(b))
  /\ UNCHANGED <<current, mem, storage>>

------------------------------------------------------------------------------
(* login, logout, storage, hydrate *)

\* The login screen is shown to those who are signed out.
login(t) ==
  /\ ~mem.auth
  /\ Len(writes) < MaxWrites
  /\ Fresh(t)
  /\ Issue(t)
  /\ lost' = (lost \cup ({current[Owner[t]]} \ {NoToken})) \ {t}
  /\ mem' = [user |-> Owner[t], token |-> t, auth |-> TRUE]
  /\ Persist(mem', NoTask)
  /\ mounted' = FALSE
  /\ UNCHANGED <<disk, preferMemory, reading, refresh, task>>

\* The user signs out.
logout(k) ==
  /\ task[k] = Idle
  /\ mem.auth
  /\ task' = LoggingOut({k})
  /\ UNCHANGED <<current, mem, storage, refresh, lost>>

\* The answer to logoutRequest; the token may have been revoked or not.
LogoutAnswered(k) ==
  /\ task[k].step = "revoking"
  /\ LET t == task[k].token IN
     /\ \/ Good(t) /\ current' = [current EXCEPT ![Owner[t]] = NoToken]
        \/ UNCHANGED current
     /\ lost' = lost \cup {t}
  /\ task' = [task EXCEPT ![k] = [Idle EXCEPT !.step = "clearing"]]
  /\ UNCHANGED <<mem, storage, refresh>>

Clear(k) ==
  /\ task[k].step = "clearing"
  /\ mem' = SignedOut
  /\ RemoveItem(k)
  /\ task' = [task EXCEPT ![k] = IF preferMemory THEN Idle ELSE [@ EXCEPT !.step = "leaving"]]
  /\ UNCHANGED <<current, disk, preferMemory, mounted, refresh, lost>>

\* The layout of /main calls hydrate when one who is signed in enters.  (Bound:
\* one such read at a time.)
EnterMain ==
  /\ mem.auth /\ ~mounted /\ reading = -1
  /\ Len(writes) < MaxWrites
  /\ mounted' = TRUE
  /\ IF preferMemory
     THEN Adopt(fallback) /\ UNCHANGED reading
     ELSE reading' = Len(writes) /\ UNCHANGED <<mem, lost>>
  /\ UNCHANGED <<current, disk, fallback, preferMemory, writes, refresh, task>>

\* What it reads is what the phone stores; or that fails.
Hydrated ==
  /\ \/ reading = 0 /\ Adopt(disk) /\ UNCHANGED preferMemory
     \/ /\ reading = 0 \/ (preferMemory /\ reading # -1)
        /\ Adopt(fallback) /\ preferMemory' = TRUE
  /\ reading' = -1
  /\ UNCHANGED <<current, disk, fallback, writes, mounted, refresh, task>>

\* A write is done, or fails and is made to the map, as are writes that have
\* waited until then; who awaits it goes on.
Written ==
  /\ writes # <<>> /\ reading # 0
  /\ reading' = IF reading = -1 THEN -1 ELSE reading - 1
  /\ writes' = Tail(writes)
  /\ LET s == Head(writes).session IN
     \/ disk' = s /\ UNCHANGED <<fallback, preferMemory>>
     \/ /\ preferMemory' = TRUE
        /\ fallback' = IF s = SignedOut THEN fallback ELSE s
        /\ UNCHANGED disk
  /\ LET k == Head(writes).by IN
     IF k \in Task /\ refresh[k].stage = "saving"
     THEN /\ refresh' = [refresh EXCEPT ![k] = NoRefresh]
          /\ task' = Resent(k, IF mem.token = NoToken THEN refresh[k].got ELSE mem.token)
     ELSE /\ task' = IF k \in Task THEN [task EXCEPT ![k] = Idle] ELSE task
          /\ UNCHANGED refresh
  /\ UNCHANGED <<current, mem, mounted, lost>>

------------------------------------------------------------------------------
(* The environment *)

\* The session is revoked from another device, or expires.
RevokedElsewhere(u) ==
  /\ current[u] # NoToken
  /\ current' = [current EXCEPT ![u] = NoToken]
  /\ lost' = lost \cup {current[u]}
  /\ UNCHANGED <<mem, storage, refresh, task>>

\* The app is killed and starts again: hydrate, if the phone stores at all.  What
\* is stored is not the token of the store when the write of that was not done.
Restart ==
  /\ preferMemory' \in BOOLEAN
  /\ mem' = IF disk.auth /\ ~preferMemory' THEN disk ELSE SignedOut
  /\ fallback' = SignedOut /\ reading' = -1 /\ mounted' = FALSE
  /\ writes' = <<>>
  /\ refresh' = [k \in Task |-> NoRefresh]
  /\ task' = [k \in Task |-> Idle]
  /\ lost' = lost \cup {refresh[b].token : b \in {k \in Task : refresh[k].stage = "done"}}
                  \cup ({disk.token} \ {mem.token, NoToken})
  /\ UNCHANGED <<current, disk>>

RequestStep(k) == Answered(k) \/ ProfileAnswered(k) \/ Unauthorized(k)
RefreshStep(b) ==
  \/ applyTokenRefresh(b) \/ RefreshFails(b)
  \/ \E t \in Token : Exchange(b, t)
LogoutStep(k) == LogoutAnswered(k) \/ Clear(k)

Next ==
  \/ \E k \in Task : Send(k) \/ RequestStep(k) \/ RefreshStep(k) \/ logout(k) \/ LogoutStep(k)
  \/ Written \/ EnterMain \/ Hydrated
  \/ \E t \in Token : login(t)
  \/ \E u \in User : RevokedElsewhere(u)
  \/ Restart

\* Every call is answered or times out, and storage answers.
Fairness ==
  /\ \A k \in Task : WF_vars(RequestStep(k)) /\ WF_vars(RefreshStep(k)) /\ WF_vars(LogoutStep(k))
  /\ WF_vars(Written) /\ WF_vars(Hydrated)

Spec == Init /\ [][Next]_vars /\ Fairness

------------------------------------------------------------------------------
(* Properties *)

\* When storage has done what it was asked, it holds the token of the store:
\* refreshes, sign-ins and profiles that overlap write in the order in which
\* they set the store, so that a restart finds the token that is good.  Two
\* things put them out of step, until the next write: a removal that overtakes a
\* write, and a hydrate that takes a session the store has left since.  When
\* storage has failed, the map holds the token, and the phone an old one.
ToBeStored == IF writes = <<>> THEN disk ELSE Last(writes).session
InStep == preferMemory \/ ToBeStored.token = mem.token

RemovalOvertakes ==
  /\ \E k \in Task : task[k].step = "clearing" /\ task'[k].step = "leaving"
  /\ Last(writes').session # SignedOut
TakesOldSession == reading = 0 /\ reading' = -1 /\ mem'.token # mem.token

StoredAsHeld == [][InStep => InStep' \/ RemovalOvertakes \/ TakesOldSession]_vars

\* What the app relies on when it starts, and even a storage that never fails
\* does not give: the phone stores no session when the user has signed out.
SignOutIsStored == writes = <<>> /\ ~preferMemory /\ mem = SignedOut => disk = SignedOut

\* The phone presents a token that is good, unless it was revoked, the answer
\* to an exchange was lost, or the app has read it from storage where the store
\* had another one (it was killed before it had stored that):
\* requests that are answered 401 at the same time do not present one token
\* twice and sign the user out.
PresentsGoodToken ==
  \A b \in Task :
    refresh[b].stage = "sent" => Good(refresh[b].token) \/ refresh[b].token \in lost

\* Every request and every sign-out ends, however often the API answers 401.
EverythingSettles == \A k \in Task : task[k].step # "idle" ~> task[k].step = "idle"

\* What logout says of itself: it always clears the session.  A profile and a
\* refresh that are answered after it bring the session back.
SignedOutHoldsNoToken == ~mem.auth => mem.token = NoToken
=============================================================================
