---------------------------- MODULE MobileProofs ----------------------------
(****************************************************************************)
(* Proofs about the three modules of the mobile app: its session, the outbox *)
(* of a chat room and the thread of a chat room.  They share no state; each  *)
(* section below has its own inductive invariant and its own theorems.       *)
(****************************************************************************)
EXTENDS MobileSession, Outbox, ChatThread, SequenceTheorems, FiniteSetTheorems,
        WellFoundedInduction, TLAPS

(****************************************************************************)
(* MobileSession, for any accounts, tokens and number of requests at a time. *)
(* The tokens the phone may present are good or lost; the one exception is   *)
(* the token of an exchange that has been done and is not yet applied, and   *)
(* while that is so no request begins another refresh.                       *)
(****************************************************************************)

\* The requests that are sent carry the bearer of an account; a refresh has the
\* token it presents, and once it is answered the one it got.
TasksFilled ==
  /\ \A k \in Task : task[k].step \in {"sent", "resent"} => task[k].who \in User
  /\ \A k \in Task : task[k].step = "revoking" => task[k].token \in Token
RefreshFilled ==
  /\ \A b \in Task : refresh[b].stage # "none" => refresh[b].token \in Token
  /\ \A b \in Task : refresh[b].stage \in {"done", "saving"} => refresh[b].got \in Token
Filled == TasksFilled /\ RefreshFilled

OneRefresh ==
  \A b, c \in Task : refresh[b].stage # "none" /\ refresh[c].stage # "none" => b = c

\* A token is never held without its user.
TokenHasUser == mem.user = NoUser => mem.token = NoToken

GoodOrLost(t) == Good(t) \/ t \in lost

HeldIsGood ==
  mem.token # NoToken =>
    \/ GoodOrLost(mem.token)
    \/ \E b \in Task : refresh[b].stage = "done" /\ refresh[b].token = mem.token

GotIsGood == \A b \in Task : refresh[b].stage = "done" => GoodOrLost(refresh[b].got)

StoreInv == TypeOK /\ Filled
TokenInv == OneRefresh /\ TokenHasUser /\ HeldIsGood /\ GotIsGood /\ PresentsGoodToken
SessionInv == StoreInv /\ TokenInv

Write == [session : Complete \cup {SignedOut}, by : Task \cup {NoTask}]

------------------------------------------------------------------------------
(* Storage *)

\* What the phone was asked to write last is what it will hold.
LEMMA PersistLast ==
  ASSUME StoreInv, NEW s \in Complete, NEW k \in Task \cup {NoTask}, Persist(s, k)
  PROVE  /\ writes' \in Seq(Write) /\ fallback' \in Complete \cup {SignedOut}
         /\ ~preferMemory => ToBeStored' = s
<1> DEFINE w == [session |-> s, by |-> k]
<1>1. writes \in Seq(Write) /\ fallback \in Complete \cup {SignedOut}
  BY DEF StoreInv, TypeOK, Write
<1>2. CASE preferMemory
  BY <1>1, <1>2 DEF Persist
<1>3. CASE ~preferMemory
  <2>1. w \in Write /\ writes' = Append(writes, w)
    BY <1>3 DEF Write, Persist
  <2>2. /\ writes' \in Seq(Write) /\ Len(writes') = Len(writes) + 1 /\ Len(writes) \in Nat
        /\ writes'[Len(writes) + 1] = w
    BY <1>1, <2>1, AppendProperties, LenProperties
  <2>3. writes' # <<>> /\ Last(writes') = w
    <3>1. Len(writes') # 0
      BY <2>2
    <3> QED  BY <2>2, <3>1, EmptySeq DEF Last
  <2> QED  BY <1>1, <1>3, <2>2, <2>3 DEF ToBeStored, Persist
<1> QED  BY <1>2, <1>3

\* A removal is among the writes, wherever it comes.
LEMMA RemoveQueued ==
  ASSUME StoreInv, NEW k \in Task, RemoveItem(k)
  PROVE  /\ writes' \in Seq(Write) /\ fallback' = SignedOut
         /\ reading' \in Nat \cup {-1}
         /\ ~preferMemory => writes' # <<>>
<1>1. writes \in Seq(Write) /\ reading \in Nat \cup {-1}
  BY DEF StoreInv, TypeOK, Write
<1>2. CASE preferMemory
  BY <1>1, <1>2 DEF RemoveItem
<1>3. CASE ~preferMemory
  <2> DEFINE w == [session |-> SignedOut, by |-> k]
  <2>1. PICK i \in 0..Len(writes), n \in {reading, reading + 1} :
          writes' = InsertAt(writes, i + 1, w) /\ reading' = n
    BY <1>3 DEF RemoveItem
  <2> DEFINE p == SubSeq(writes, 1, (i + 1) - 1)
             q == SubSeq(writes, i + 1, Len(writes))
  <2>2. w \in Write /\ Len(writes) \in Nat
    BY <1>1, LenProperties DEF Write
  <2>3. /\ p \in Seq(Write) /\ Len(p) \in Nat
        /\ q \in Seq(Write) /\ Len(q) \in Nat
    <3>1. /\ \A j \in 1 .. (i + 1) - 1 : writes[j] \in Write
          /\ \A j \in i + 1 .. Len(writes) : writes[j] \in Write
      BY <1>1, <2>2, ElementOfSeq
    <3>2. p \in Seq(Write) /\ q \in Seq(Write)
      BY <1>1, <2>2, <3>1, SubSeqProperties
    <3> QED  BY <3>2, LenProperties
  <2>4. <<w>> \in Seq(Write) /\ Len(<<w>>) = 1
    BY <2>2
  <2>5. writes' = (p \o <<w>>) \o q
    BY <2>1 DEF InsertAt
  <2> HIDE DEF p, q, w
  <2>6. p \o <<w>> \in Seq(Write) /\ Len(p \o <<w>>) = Len(p) + 1
    BY <2>3, <2>4, ConcatProperties
  <2>7. writes' \in Seq(Write) /\ Len(writes') = (Len(p) + 1) + Len(q)
    BY <2>3, <2>5, <2>6, ConcatProperties
  <2>8. writes' # <<>>
    BY <2>3, <2>7, EmptySeq
  <2> QED  BY <1>1, <2>1, <2>7, <2>8 DEF RemoveItem
<1> QED  BY <1>2, <1>3

LEMMA WrittenLast ==
  ASSUME writes \in Seq(Write), writes # <<>>, writes' = Tail(writes)
  PROVE  /\ Head(writes) \in Write /\ writes' \in Seq(Write)
         /\ disk' = Head(writes).session => ToBeStored' = ToBeStored
<1>1. /\ Head(writes) \in Write /\ Head(writes) = writes[1] /\ writes' \in Seq(Write)
      /\ Len(writes') = Len(writes) - 1 /\ Len(writes) \in Nat /\ Len(writes) # 0
      /\ \A i \in 1 .. Len(writes) - 1 : writes'[i] = writes[i + 1]
  BY HeadTailProperties, LenProperties, EmptySeq
<1>2. CASE Len(writes) = 1
  <2>1. writes' = <<>>
    BY <1>1, <1>2, EmptySeq
  <2> QED  BY <1>1, <1>2, <2>1 DEF ToBeStored, Last
<1>3. CASE Len(writes) # 1
  <2>1. writes' # <<>>
    <3>1. Len(writes') # 0
      BY <1>1, <1>3
    <3> QED  BY <3>1, EmptySeq
  <2>2. writes'[Len(writes')] = writes[Len(writes)]
    <3>1. Len(writes) - 1 \in 1 .. Len(writes) - 1 /\ (Len(writes) - 1) + 1 = Len(writes)
      BY <1>1, <1>3
    <3> QED  BY <1>1, <3>1
  <2> QED  BY <1>1, <2>1, <2>2 DEF ToBeStored, Last
<1> QED  BY <1>1, <1>2, <1>3

\* Storage that is empty holds nothing, and memory that is filled a token.
LEMMA Sessions ==
  /\ SignedOut \in Session /\ Complete \subseteq Session
  /\ SignedOut.token = NoToken /\ SignedOut.user = NoUser
  /\ \A s \in Complete : s.token \in Token /\ s.user \in User
BY MobileSessionConstants DEF SignedOut, Session, Complete

------------------------------------------------------------------------------
(* What those do who wait for a refresh *)

LEMMA ResentFilled ==
  ASSUME StoreInv, NEW b \in Task, NEW t \in Token, task' = Resent(b, t)
  PROVE  /\ task' \in [Task -> TaskState]
         /\ TasksFilled'
<1> DEFINE r == [Idle EXCEPT !.step = "resent", !.who = Owner[t]]
<1>1. Owner[t] \in User
  BY MobileSessionConstants
<1>2. r \in TaskState /\ r.step = "resent" /\ r.who \in User
  BY <1>1 DEF TaskState, Idle
<1>3. \A k \in Task : task'[k] = IF k \in WaitersOf(b) THEN r ELSE task[k]
  BY DEF Resent
<1> QED  BY <1>2, <1>3 DEF StoreInv, TypeOK, Filled, TasksFilled, RefreshFilled, Resent

LEMMA LoggingOutFilled ==
  ASSUME StoreInv, NEW K, task' = LoggingOut(K)
  PROVE  /\ task' \in [Task -> TaskState]
         /\ TasksFilled'
<1> DEFINE l == [Idle EXCEPT !.step = IF mem.token = NoToken THEN "clearing" ELSE "revoking",
                             !.token = mem.token]
<1>1. mem.token \in Token \cup {NoToken}
  BY DEF StoreInv, TypeOK, Session
<1>2. /\ l \in TaskState /\ l.step \in {"clearing", "revoking"}
      /\ l.step = "revoking" => l.token \in Token
  BY <1>1 DEF TaskState, Idle
<1>3. \A k \in Task : task'[k] = IF k \in K THEN l ELSE task[k]
  BY DEF LoggingOut
<1> QED  BY <1>2, <1>3 DEF StoreInv, TypeOK, Filled, TasksFilled, RefreshFilled, LoggingOut

------------------------------------------------------------------------------
(* Types, and what is stored *)

LEMMA InitStore == Init => StoreInv
<1> SUFFICES ASSUME Init PROVE StoreInv
  OBVIOUS
<1>1. Idle \in TaskState /\ Idle.step = "idle" /\ NoRefresh \in RefreshState /\ NoRefresh.stage = "none"
  BY DEF Idle, TaskState, NoRefresh, RefreshState
<1>2. <<>> \in Seq(Write)
  BY EmptySeq
<1> QED
  BY <1>1, <1>2, Sessions DEF Init, StoreInv, TypeOK, Filled, TasksFilled, RefreshFilled, Write

LEMMA StoreRequest ==
  ASSUME StoreInv, NEW k \in Task, Send(k) \/ RequestStep(k)
  PROVE  StoreInv'
<1> USE DEF StoreInv, TypeOK, storage
<1>1. mem.token \in Token \cup {NoToken} /\ mem.user \in User \cup {NoUser} /\ mem.auth \in BOOLEAN
  BY DEF Session
<1>2. CASE Send(k)
  <2>1. Owner[mem.token] \in User
    BY <1>1, <1>2, MobileSessionConstants DEF Send
  <2>2. [Idle EXCEPT !.step = "sent", !.who = Owner[mem.token]] \in TaskState
    BY <2>1 DEF Idle, TaskState
  <2> QED  BY <1>2, <2>1, <2>2 DEF Send, storage, Filled, TasksFilled, RefreshFilled, Idle
<1>3. CASE Answered(k)
  BY <1>3 DEF Answered, Filled, TasksFilled, RefreshFilled, Idle, TaskState
<1>4. CASE ProfileAnswered(k)
  <2>1. task[k].who \in User
    BY <1>4 DEF ProfileAnswered, Filled, TasksFilled, RefreshFilled
  <2>2. /\ mem' \in Session /\ mem'.user = task[k].who /\ mem'.auth = mem.auth
        /\ mem'.token = mem.token
    BY <1>4, <2>1 DEF ProfileAnswered, Session
  <2>3. writes' \in Seq(Write) /\ fallback' \in Complete \cup {SignedOut}
    <3>1. CASE mem.auth /\ mem.token # NoToken
      <4>1. mem' \in Complete /\ Persist(mem', NoTask)
        BY <1>1, <1>4, <2>1, <2>2, <3>1 DEF ProfileAnswered, Complete, Session
      <4> QED  BY <4>1, PersistLast
    <3>2. CASE ~(mem.auth /\ mem.token # NoToken)
      BY <1>4, <2>2, <3>2 DEF ProfileAnswered, Write
    <3> QED  BY <3>1, <3>2
  <2>4. task' \in [Task -> TaskState] /\ Filled'
    BY <1>4 DEF ProfileAnswered, Filled, TasksFilled, RefreshFilled, Idle, TaskState
  <2> QED  BY <1>4, <2>2, <2>3, <2>4 DEF ProfileAnswered, Write
<1>5. CASE Unauthorized(k)
  <2>1. CASE task' = [task EXCEPT ![k] = Idle] /\ UNCHANGED refresh
    BY <1>5, <2>1 DEF Unauthorized, Filled, TasksFilled, RefreshFilled, Idle, TaskState
  <2>2. ASSUME NEW b \in Task, task' = [task EXCEPT ![k].step = "waiting", ![k].on = b], UNCHANGED refresh
        PROVE  StoreInv'
    <3>1. /\ task' \in [Task -> TaskState] /\ task'[k].step = "waiting"
          /\ \A j \in Task \ {k} : task'[j] = task[j]
      BY <2>2 DEF TaskState
    <3>2. Filled'
      BY <2>2, <3>1 DEF Filled, TasksFilled, RefreshFilled
    <3> QED  BY <1>5, <2>2, <3>1, <3>2 DEF Unauthorized
  <2>3. CASE /\ mem.token # NoToken
             /\ refresh' = [refresh EXCEPT ![k] = [NoRefresh EXCEPT !.stage = "sent", !.token = mem.token]]
             /\ task' = [task EXCEPT ![k].step = "waiting", ![k].on = k]
    <3>1. /\ refresh' \in [Task -> RefreshState]
          /\ refresh'[k].stage = "sent" /\ refresh'[k].token = mem.token
          /\ \A b \in Task \ {k} : refresh'[b] = refresh[b]
      BY <1>1, <2>3 DEF RefreshState, NoRefresh
    <3>2. task' \in [Task -> TaskState] /\ \A j \in Task \ {k} : task'[j] = task[j]
      BY <2>3 DEF TaskState
    <3>3. task'[k].step = "waiting"
      BY <2>3 DEF TaskState
    <3>4. Filled'
      BY <1>1, <2>3, <3>1, <3>2, <3>3 DEF Filled, TasksFilled, RefreshFilled
    <3> QED  BY <1>5, <3>1, <3>2, <3>4 DEF Unauthorized
  <2>4. CASE task' = LoggingOut({k}) /\ UNCHANGED refresh
    <3>1. task' \in [Task -> TaskState] /\ Filled'
      BY <2>4, LoggingOutFilled DEF Filled, TasksFilled, RefreshFilled
    <3> QED  BY <1>5, <2>4, <3>1 DEF Unauthorized
  <2> QED  BY <1>5, <2>1, <2>2, <2>3, <2>4 DEF Unauthorized
<1> QED  BY <1>2, <1>3, <1>4, <1>5 DEF RequestStep

LEMMA StoreRefresh ==
  ASSUME StoreInv, NEW b \in Task, RefreshStep(b)
  PROVE  StoreInv'
<1> USE DEF StoreInv, TypeOK, storage
<1>1. mem.token \in Token \cup {NoToken} /\ mem.user \in User \cup {NoUser} /\ mem.auth \in BOOLEAN
  BY DEF Session
<1>2. NoRefresh \in RefreshState /\ NoRefresh.stage = "none"
  BY DEF NoRefresh, RefreshState
<1>3. ASSUME NEW t \in Token, Exchange(b, t)
      PROVE  StoreInv'
  <2>1. /\ refresh' \in [Task -> RefreshState]
        /\ refresh'[b].stage = "done" /\ refresh'[b].got = t /\ refresh'[b].token = refresh[b].token
        /\ \A c \in Task \ {b} : refresh'[c] = refresh[c]
    BY <1>3 DEF Exchange, RefreshState
  <2>2. current' \in [User -> Token \cup {NoToken}]
    BY <1>3 DEF Exchange, Issue
  <2>3. Filled'
    BY <1>3, <2>1 DEF Exchange, Filled, TasksFilled, RefreshFilled
  <2> QED  BY <1>3, <2>1, <2>2, <2>3 DEF Exchange
<1>4. CASE applyTokenRefresh(b)
  <2>1. refresh[b].got \in Token
    BY <1>4 DEF applyTokenRefresh, Filled, TasksFilled, RefreshFilled
  <2>2. CASE mem.user = NoUser
    <3> DEFINE t == IF mem.token = NoToken THEN refresh[b].got ELSE mem.token
    <3>1. t \in Token /\ task' = Resent(b, t)
      BY <1>1, <1>4, <2>1, <2>2 DEF applyTokenRefresh, Complete
    <3> HIDE DEF t
    <3>2. task' \in [Task -> TaskState]
          /\ TasksFilled'
      BY <3>1, ResentFilled
    <3>3. refresh' = [refresh EXCEPT ![b] = NoRefresh] /\ UNCHANGED <<mem, fallback, writes>>
      BY <1>4, <2>2 DEF applyTokenRefresh
    <3>4. refresh' \in [Task -> RefreshState] /\ refresh'[b].stage = "none"
          /\ \A c \in Task \ {b} : refresh'[c] = refresh[c]
      BY <1>2, <3>3
    <3>5. RefreshFilled'
      BY <3>4 DEF Filled, RefreshFilled
    <3> QED  BY <1>4, <3>2, <3>3, <3>4, <3>5 DEF applyTokenRefresh, Filled
  <2>3. CASE mem.user # NoUser
    <3> DEFINE s == [mem' EXCEPT !.auth = TRUE]
    <3>1. mem' = [mem EXCEPT !.token = refresh[b].got] /\ Persist(s, b) /\ Saved(b, refresh[b].got)
      BY <1>4, <2>3 DEF applyTokenRefresh
    <3>2. mem' \in Session /\ mem'.token = refresh[b].got /\ mem'.user = mem.user
      BY <2>1, <3>1 DEF Session
    <3>3. s \in Complete
      BY <1>1, <2>1, <2>3, <3>2 DEF Session, Complete
    <3> HIDE DEF s
    <3>4. writes' \in Seq(Write) /\ fallback' \in Complete \cup {SignedOut}
      BY <3>1, <3>3, PersistLast
    <3>5. /\ task' \in [Task -> TaskState] /\ TasksFilled'
          /\ refresh' \in [Task -> RefreshState] /\ RefreshFilled'
      <4>1. CASE preferMemory
        <5>1. task' \in [Task -> TaskState] /\ TasksFilled'
          BY <2>1, <3>1, <4>1, ResentFilled DEF Saved
        <5>2. /\ refresh' \in [Task -> RefreshState] /\ refresh'[b].stage = "none"
              /\ \A c \in Task \ {b} : refresh'[c] = refresh[c]
          BY <1>2, <3>1, <4>1 DEF Saved
        <5> QED  BY <5>1, <5>2 DEF Filled, RefreshFilled
      <4>2. CASE ~preferMemory
        <5>1. /\ refresh' \in [Task -> RefreshState]
              /\ refresh'[b].token = refresh[b].token /\ refresh'[b].got = refresh[b].got
              /\ \A c \in Task \ {b} : refresh'[c] = refresh[c]
          BY <3>1, <4>2 DEF Saved, RefreshState
        <5> QED
          BY <1>4, <2>1, <3>1, <4>2, <5>1 DEF Saved, Filled, TasksFilled, RefreshFilled, applyTokenRefresh
      <4> QED  BY <4>1, <4>2
    <3> QED  BY <1>4, <3>2, <3>4, <3>5 DEF applyTokenRefresh, Filled, Write
  <2> QED  BY <2>2, <2>3
<1>5. CASE RefreshFails(b)
  <2>1. lost' \subseteq Token
    BY <1>5 DEF RefreshFails, Filled, TasksFilled, RefreshFilled
  <2>2. task' \in [Task -> TaskState] /\ TasksFilled'
    BY <1>5, LoggingOutFilled DEF RefreshFails
  <2>3. refresh' \in [Task -> RefreshState] /\ refresh'[b].stage = "none"
        /\ \A c \in Task \ {b} : refresh'[c] = refresh[c]
    BY <1>2, <1>5 DEF RefreshFails
  <2>4. RefreshFilled'
    BY <2>3 DEF Filled, RefreshFilled
  <2> QED  BY <1>5, <2>1, <2>2, <2>3, <2>4 DEF RefreshFails, Filled
<1> QED  BY <1>3, <1>4, <1>5 DEF RefreshStep

LEMMA StoreLogin ==
  ASSUME StoreInv, (\E t \in Token : login(t)) \/ (\E k \in Task : logout(k) \/ LogoutStep(k))
  PROVE  StoreInv'
<1> USE DEF StoreInv, TypeOK, storage
<1>1. ASSUME NEW t \in Token, login(t)
      PROVE  StoreInv'
  <2> DEFINE s == [user |-> Owner[t], token |-> t, auth |-> TRUE]
  <2>1. Owner[t] \in User
    BY MobileSessionConstants
  <2>2. s \in Complete /\ s \in Session /\ s.token = t /\ mem' = s /\ Persist(s, NoTask)
    BY <1>1, <2>1 DEF login, Complete, Session
  <2> HIDE DEF s
  <2>3. writes' \in Seq(Write) /\ fallback' \in Complete \cup {SignedOut}
    BY <2>2, PersistLast
  <2>4. current' \in [User -> Token \cup {NoToken}] /\ lost' \subseteq Token
    BY <1>1, <2>1 DEF login, Issue
  <2>5. Filled'
    BY <1>1, <2>2, <2>3 DEF login, Filled, TasksFilled, RefreshFilled
  <2> QED  BY <1>1, <2>2, <2>3, <2>4, <2>5 DEF login, Write
<1>2. ASSUME NEW k \in Task, logout(k)
      PROVE  StoreInv'
  <2>1. task' \in [Task -> TaskState] /\ TasksFilled'
    BY <1>2, LoggingOutFilled DEF logout
  <2>2. RefreshFilled'
    BY <1>2 DEF logout, Filled, RefreshFilled
  <2> QED  BY <1>2, <2>1, <2>2 DEF logout, Filled
<1>3. ASSUME NEW k \in Task, LogoutAnswered(k)
      PROVE  StoreInv'
  <2> DEFINE c == [Idle EXCEPT !.step = "clearing"]
  <2>1. task[k].token \in Token
    BY <1>3 DEF LogoutAnswered, Filled, TasksFilled
  <2>2. c \in TaskState /\ c.step = "clearing" /\ task' = [task EXCEPT ![k] = c]
    BY <1>3 DEF LogoutAnswered, Idle, TaskState
  <2> HIDE DEF c
  <2>3. Filled'
    BY <1>3, <2>2 DEF LogoutAnswered, Filled, TasksFilled, RefreshFilled
  <2>4. current' \in [User -> Token \cup {NoToken}] /\ lost' \subseteq Token
    BY <1>3, <2>1 DEF LogoutAnswered
  <2> QED  BY <1>3, <2>2, <2>3, <2>4 DEF LogoutAnswered
<1>4. ASSUME NEW k \in Task, Clear(k)
      PROVE  StoreInv'
  <2>1. mem' \in Session /\ mem'.token = NoToken
    BY <1>4, Sessions DEF Clear
  <2>2. /\ writes' \in Seq(Write) /\ fallback' = SignedOut /\ reading' \in Nat \cup {-1}
    BY <1>4, RemoveQueued DEF Clear
  <2>3. /\ task' \in [Task -> TaskState] /\ task'[k].step \in {"idle", "leaving"}
        /\ \A j \in Task \ {k} : task'[j] = task[j]
    BY <1>4 DEF Clear, TaskState, Idle
  <2>4. Filled'
    BY <1>4, <2>1, <2>3 DEF Clear, Filled, TasksFilled, RefreshFilled
  <2> QED  BY <1>4, <2>1, <2>2, <2>3, <2>4 DEF Clear, Write
<1> QED  BY <1>1, <1>2, <1>3, <1>4 DEF LogoutStep

LEMMA StoreWritten ==
  ASSUME StoreInv, Written
  PROVE  StoreInv'
<1> USE DEF StoreInv, TypeOK
<1> DEFINE k == Head(writes).by
<1>1. Head(writes) \in Write /\ writes' \in Seq(Write)
  BY WrittenLast DEF Written, Write
<1>2. /\ disk' \in Complete \cup {SignedOut} /\ fallback' \in Complete \cup {SignedOut}
      /\ preferMemory' \in BOOLEAN /\ reading' \in Nat \cup {-1}
  <2>1. Head(writes).session \in Complete \cup {SignedOut}
    BY <1>1 DEF Write
  <2>2. reading' \in Nat \cup {-1}
    BY DEF Written
  <2>3. \/ disk' = Head(writes).session /\ UNCHANGED <<fallback, preferMemory>>
        \/ /\ preferMemory' = TRUE /\ UNCHANGED disk
           /\ fallback' = fallback \/ fallback' = Head(writes).session
    BY DEF Written
  <2> QED  BY <2>1, <2>2, <2>3
<1>3. CASE k \in Task /\ refresh[k].stage = "saving"
  <2> DEFINE t == IF mem.token = NoToken THEN refresh[k].got ELSE mem.token
  <2>1. refresh[k].got \in Token /\ mem.token \in Token \cup {NoToken}
    BY <1>3 DEF Filled, RefreshFilled, Session
  <2>2. t \in Token /\ task' = Resent(k, t)
    BY <1>3, <2>1 DEF Written
  <2> HIDE DEF t
  <2>3. task' \in [Task -> TaskState] /\ TasksFilled'
    BY <1>3, <2>2, ResentFilled
  <2>4. /\ refresh' \in [Task -> RefreshState] /\ refresh'[k].stage = "none"
        /\ \A c \in Task \ {k} : refresh'[c] = refresh[c]
    <3>1. refresh' = [refresh EXCEPT ![k] = NoRefresh]
      BY <1>3 DEF Written
    <3>2. NoRefresh \in RefreshState /\ NoRefresh.stage = "none"
      BY DEF NoRefresh, RefreshState
    <3> QED  BY <1>3, <3>1, <3>2
  <2>5. RefreshFilled'
    BY <2>4 DEF Filled, RefreshFilled
  <2> QED  BY <1>1, <1>2, <2>3, <2>4, <2>5 DEF Written, Filled, Write
<1>4. CASE ~(k \in Task /\ refresh[k].stage = "saving")
  <2>1. Idle \in TaskState /\ Idle.step = "idle"
    BY DEF Idle, TaskState
  <2>2. /\ task' = IF k \in Task THEN [task EXCEPT ![k] = Idle] ELSE task
        /\ UNCHANGED refresh
    BY <1>4 DEF Written
  <2>3. task' \in [Task -> TaskState] /\ Filled'
    BY <2>1, <2>2 DEF Filled, TasksFilled, RefreshFilled
  <2> QED  BY <1>1, <1>2, <2>2, <2>3 DEF Written, Write
<1> QED  BY <1>3, <1>4

\* A session that hydrate reads is complete, or it is left alone.
LEMMA AdoptedSession ==
  ASSUME StoreInv, NEW s \in Complete \cup {SignedOut}, Adopt(s)
  PROVE  /\ mem' \in Session /\ lost' \subseteq Token
         /\ mem'.token # mem.token => mem'.token \in lost'
         /\ mem' = mem \/ (mem' = s /\ s \in Complete)
<1>1. mem' = mem \/ (mem' = s /\ s \in Complete)
  BY DEF Adopt, SignedOut
<1>2. mem' \in Session /\ mem'.token \in Token \cup {NoToken}
  BY <1>1, Sessions DEF StoreInv, TypeOK, Session
<1>3. lost' \subseteq Token
  BY <1>2 DEF Adopt, StoreInv, TypeOK
<1>4. mem'.token # mem.token => mem'.token \in lost'
  BY <1>1, <1>2, Sessions, MobileSessionConstants DEF Adopt
<1> QED  BY <1>1, <1>2, <1>3, <1>4

LEMMA StoreHydrate ==
  ASSUME StoreInv, EnterMain \/ Hydrated
  PROVE  StoreInv'
<1> USE DEF StoreInv, TypeOK
<1>1. Len(writes) \in Nat
  BY LenProperties
<1>2. CASE EnterMain
  <2>1. mem' \in Session /\ lost' \subseteq Token
    BY <1>2, AdoptedSession DEF EnterMain
  <2> QED  BY <1>1, <1>2, <2>1 DEF EnterMain, Filled, TasksFilled, RefreshFilled
<1>3. CASE Hydrated
  <2>1. mem' \in Session /\ lost' \subseteq Token
    BY <1>3, AdoptedSession DEF Hydrated
  <2> QED  BY <1>3, <2>1 DEF Hydrated, Filled, TasksFilled, RefreshFilled
<1> QED  BY <1>2, <1>3

LEMMA StoreEnvironment ==
  ASSUME StoreInv, (\E u \in User : RevokedElsewhere(u)) \/ Restart
  PROVE  StoreInv'
<1> USE DEF StoreInv, TypeOK, storage
<1>1. ASSUME NEW u \in User, RevokedElsewhere(u)
      PROVE  StoreInv'
  BY <1>1 DEF RevokedElsewhere, Filled, TasksFilled, RefreshFilled
<1>2. CASE Restart
  <2>1. Idle \in TaskState /\ Idle.step = "idle" /\ NoRefresh \in RefreshState /\ NoRefresh.stage = "none"
    BY DEF Idle, TaskState, NoRefresh, RefreshState
  <2>2. task' \in [Task -> TaskState] /\ refresh' \in [Task -> RefreshState] /\ Filled'
    BY <1>2, <2>1 DEF Restart, Filled, TasksFilled, RefreshFilled
  <2>3. mem' \in Session
    BY <1>2, Sessions DEF Restart
  <2>4. writes' = <<>> /\ writes' \in Seq(Write) /\ preferMemory' \in BOOLEAN
    BY <1>2, EmptySeq DEF Restart
  <2>5. lost' \subseteq Token
    <3>1. {refresh[b].token : b \in {k \in Task : refresh[k].stage = "done"}} \subseteq Token
      BY DEF Filled, RefreshFilled
    <3>2. disk.token \in Token \cup {NoToken}
      BY Sessions
    <3> QED  BY <1>2, <3>1, <3>2 DEF Restart
  <2> QED  BY <1>2, <2>2, <2>3, <2>4, <2>5 DEF Restart, Write
<1> QED  BY <1>1, <1>2

LEMMA StoreStep == StoreInv /\ [Next]_vars => StoreInv'
<1> SUFFICES ASSUME StoreInv, [Next]_vars PROVE StoreInv'
  OBVIOUS
<1>1. CASE UNCHANGED vars
  BY <1>1 DEF vars, StoreInv, TypeOK, Filled, TasksFilled, RefreshFilled
<1> QED  BY <1>1, StoreRequest, StoreRefresh, StoreLogin, StoreWritten, StoreHydrate, StoreEnvironment
         DEF Next

------------------------------------------------------------------------------
(* The tokens that are presented *)

\* When t is issued, the other tokens that are good remain so, except the one
\* that its account had.
LEMMA IssueKeeps ==
  ASSUME StoreInv, NEW t \in Token, Issue(t),
         NEW u \in Token, u # t, GoodOrLost(u), lost \ {t} \subseteq lost',
         u = current[Owner[t]] => u \in lost'
  PROVE  GoodOrLost(u)'
<1>1. Owner[t] \in User /\ Owner[u] \in User
  BY MobileSessionConstants
<1>2. current \in [User -> Token \cup {NoToken}]
  BY DEF StoreInv, TypeOK
<1>3. CASE u \in lost
  BY <1>3 DEF GoodOrLost
<1>4. CASE Good(u) /\ Owner[u] = Owner[t]
  BY <1>4 DEF Good, GoodOrLost
<1>5. CASE Good(u) /\ Owner[u] # Owner[t]
  BY <1>1, <1>2, <1>5 DEF Good, GoodOrLost, Issue
<1> QED  BY <1>3, <1>4, <1>5 DEF GoodOrLost

LEMMA IssuedIsGood ==
  ASSUME StoreInv, NEW t \in Token, Issue(t)
  PROVE  Good(t)'
<1>1. Owner[t] \in User
  BY MobileSessionConstants
<1> QED  BY <1>1 DEF Good, Issue, StoreInv, TypeOK

\* A step that keeps memory and refreshes, and makes no token worse.
LEMMA Kept ==
  ASSUME SessionInv, UNCHANGED <<mem, refresh>>, \A t \in Token : GoodOrLost(t) => GoodOrLost(t)'
  PROVE  TokenInv'
<1> USE DEF SessionInv, TokenInv
<1>1. mem.token \in Token \cup {NoToken}
  BY DEF StoreInv, TypeOK, Session
<1>2. OneRefresh' /\ TokenHasUser'
  BY DEF OneRefresh, TokenHasUser
<1>3. HeldIsGood'
  BY <1>1 DEF HeldIsGood
<1>4. GotIsGood'
  BY DEF GotIsGood, StoreInv, Filled, RefreshFilled
<1>5. PresentsGoodToken'
  <2>1. \A b \in Task : refresh[b].stage = "sent" => GoodOrLost(refresh[b].token)
    BY DEF PresentsGoodToken, GoodOrLost
  <2>2. \A b \in Task : refresh[b].stage = "sent" => GoodOrLost(refresh[b].token)'
    BY <2>1 DEF StoreInv, Filled, RefreshFilled
  <2> QED  BY <2>2 DEF PresentsGoodToken, GoodOrLost
<1> QED  BY <1>2, <1>3, <1>4, <1>5

LEMMA InitToken == Init => TokenInv
BY Sessions DEF Init, TokenInv, OneRefresh, TokenHasUser, HeldIsGood, GotIsGood, PresentsGoodToken,
     NoRefresh

LEMMA TokenRequest ==
  ASSUME SessionInv, NEW k \in Task, Send(k) \/ RequestStep(k)
  PROVE  TokenInv'
<1> USE DEF SessionInv, TokenInv
<1>1. CASE Send(k) \/ Answered(k)
  BY <1>1 DEF Send, Answered, OneRefresh, TokenHasUser, HeldIsGood, GotIsGood, PresentsGoodToken,
       GoodOrLost, Good
<1>2. CASE ProfileAnswered(k)
  <2>1. mem'.token = mem.token /\ mem'.user \in User
    BY <1>2 DEF ProfileAnswered, StoreInv, Filled, TasksFilled, TypeOK, Session
  <2>2. NoUser \notin User
    BY MobileSessionConstants
  <2> QED
    BY <1>2, <2>1, <2>2 DEF ProfileAnswered, OneRefresh, TokenHasUser, HeldIsGood, GotIsGood,
         PresentsGoodToken, GoodOrLost, Good
<1>3. CASE Unauthorized(k)
  <2>1. CASE UNCHANGED refresh
    BY <1>3, <2>1 DEF Unauthorized, OneRefresh, TokenHasUser, HeldIsGood, GotIsGood,
         PresentsGoodToken, GoodOrLost, Good
  <2>2. CASE /\ \A b \in Task : refresh[b].stage = "none"
             /\ mem.token # NoToken
             /\ refresh' = [refresh EXCEPT ![k] = [NoRefresh EXCEPT !.stage = "sent", !.token = mem.token]]
    <3>1. GoodOrLost(mem.token)
      BY <2>2 DEF HeldIsGood
    <3>2. /\ refresh'[k].stage = "sent" /\ refresh'[k].token = mem.token
          /\ \A b \in Task \ {k} : refresh'[b].stage = "none"
      BY <2>2 DEF StoreInv, TypeOK, NoRefresh
    <3>3. UNCHANGED <<current, mem, lost>>
      BY <1>3 DEF Unauthorized
    <3>4. OneRefresh' /\ TokenHasUser'
      BY <3>2, <3>3 DEF OneRefresh, TokenHasUser
    <3>5. HeldIsGood' /\ GotIsGood' /\ PresentsGoodToken'
      BY <3>1, <3>2, <3>3 DEF HeldIsGood, GotIsGood, PresentsGoodToken, GoodOrLost, Good
    <3> QED  BY <3>4, <3>5
  <2> QED  BY <1>3, <2>1, <2>2 DEF Unauthorized
<1> QED  BY <1>1, <1>2, <1>3 DEF RequestStep

LEMMA TokenRefresh ==
  ASSUME SessionInv, NEW b \in Task, RefreshStep(b)
  PROVE  TokenInv'
<1> USE DEF SessionInv, TokenInv
<1>1. refresh \in [Task -> RefreshState] /\ mem \in Session /\ NoToken \notin Token
  BY MobileSessionConstants DEF StoreInv, TypeOK
<1>2. ASSUME NEW t \in Token, Exchange(b, t)
      PROVE  TokenInv'
  <2> DEFINE c == refresh[b].token
  <2>1. /\ c \in Token /\ Good(c) /\ Owner[t] = Owner[c] /\ current[Owner[t]] = c
        /\ refresh[b].stage = "sent" /\ Issue(t)
    BY <1>2 DEF Exchange, StoreInv, Filled, RefreshFilled, Good
  <2>2. t # c /\ mem.token # t
    BY <1>2 DEF Exchange, Fresh, Referenced
  <2>3. /\ refresh'[b].stage = "done" /\ refresh'[b].got = t /\ refresh'[b].token = c
        /\ \A d \in Task \ {b} : refresh'[d] = refresh[d] /\ refresh[d].stage = "none"
    BY <1>1, <1>2, <2>1 DEF Exchange, RefreshState, OneRefresh
  <2>4. Good(t)'
    BY <2>1, IssuedIsGood DEF StoreInv
  <2>5. OneRefresh' /\ TokenHasUser'
    BY <1>2, <2>3 DEF Exchange, OneRefresh, TokenHasUser
  <2>6. GotIsGood' /\ PresentsGoodToken'
    BY <2>3, <2>4 DEF GotIsGood, PresentsGoodToken, GoodOrLost, Good
  <2>7. HeldIsGood'
    <3>1. CASE mem.token = NoToken \/ mem.token = c
      BY <1>2, <2>3, <3>1 DEF Exchange, HeldIsGood
    <3>2. CASE mem.token # NoToken /\ mem.token # c
      <4>1. mem.token \in Token /\ GoodOrLost(mem.token)
        BY <1>1, <2>1, <2>3, <3>2 DEF HeldIsGood, Session
      <4>2. lost \ {t} \subseteq lost'
        BY <1>2 DEF Exchange
      <4>3. GoodOrLost(mem.token)'
        <5>1. \A u \in Token : u # t /\ GoodOrLost(u) /\ u # c => GoodOrLost(u)'
          BY <2>1, <4>2, IssueKeeps
        <5> QED  BY <1>2, <2>2, <3>2, <4>1, <5>1 DEF Exchange, GoodOrLost, Good
      <4> QED  BY <4>3 DEF HeldIsGood
    <3> QED  BY <3>1, <3>2
  <2> QED  BY <2>5, <2>6, <2>7
<1>3. CASE applyTokenRefresh(b)
  <2>1. UNCHANGED <<current, lost>> /\ refresh[b].stage = "done" /\ refresh[b].got \in Token
    BY <1>3 DEF applyTokenRefresh, StoreInv, Filled, RefreshFilled
  <2>2. GoodOrLost(refresh[b].got)
    BY <2>1 DEF GotIsGood
  <2>3. \/ refresh' = [refresh EXCEPT ![b] = NoRefresh]
        \/ refresh' = [refresh EXCEPT ![b].stage = "saving"]
    BY <1>3 DEF applyTokenRefresh, Saved
  <2>4. \A d \in Task \ {b} : refresh'[d] = refresh[d] /\ refresh[d].stage = "none"
    BY <1>1, <2>1, <2>3 DEF OneRefresh
  <2>5. refresh'[b].stage \in {"none", "saving"}
    BY <1>1, <2>3 DEF NoRefresh, RefreshState
  <2>6. OneRefresh' /\ GotIsGood' /\ PresentsGoodToken'
    BY <2>4, <2>5 DEF OneRefresh, GotIsGood, PresentsGoodToken
  <2>7. CASE mem.user = NoUser
    BY <1>3, <2>6, <2>7 DEF applyTokenRefresh, TokenHasUser, HeldIsGood
  <2>8. CASE mem.user # NoUser
    <3>1. mem' = [mem EXCEPT !.token = refresh[b].got]
      BY <1>3, <2>8 DEF applyTokenRefresh
    <3>2. mem'.token = refresh[b].got /\ mem'.user = mem.user
      BY <1>1, <3>1 DEF Session
    <3> QED  BY <2>1, <2>2, <2>6, <2>8, <3>2 DEF TokenHasUser, HeldIsGood, GoodOrLost, Good
  <2> QED  BY <2>7, <2>8
<1>4. CASE RefreshFails(b)
  <2>1. /\ refresh[b].stage # "none" /\ lost \subseteq lost' /\ UNCHANGED <<current, mem>>
        /\ refresh[b].stage = "done" => refresh[b].token \in lost'
    BY <1>4 DEF RefreshFails
  <2>2. /\ refresh'[b].stage = "none"
        /\ \A d \in Task \ {b} : refresh'[d] = refresh[d] /\ refresh[d].stage = "none"
    BY <1>1, <1>4, <2>1 DEF RefreshFails, OneRefresh, NoRefresh
  <2>3. OneRefresh' /\ GotIsGood' /\ PresentsGoodToken' /\ TokenHasUser'
    BY <2>1, <2>2 DEF OneRefresh, GotIsGood, PresentsGoodToken, TokenHasUser
  <2>4. HeldIsGood'
    BY <2>1, <2>2 DEF HeldIsGood, GoodOrLost, Good
  <2> QED  BY <2>3, <2>4
<1> QED  BY <1>2, <1>3, <1>4 DEF RefreshStep

LEMMA TokenLogin ==
  ASSUME SessionInv, (\E t \in Token : login(t)) \/ (\E k \in Task : logout(k) \/ LogoutStep(k))
  PROVE  TokenInv'
<1> USE DEF SessionInv, TokenInv
<1>1. ASSUME NEW t \in Token, login(t)
      PROVE  TokenInv'
  <2>1. Owner[t] \in User /\ NoUser \notin User /\ NoToken \notin Token
    BY MobileSessionConstants
  <2>2. /\ mem'.token = t /\ mem'.user = Owner[t] /\ Issue(t) /\ Fresh(t) /\ UNCHANGED refresh
        /\ lost \ {t} \subseteq lost'
    BY <1>1 DEF login
  <2>3. \A b \in Task : refresh[b].token # t /\ refresh[b].got # t
    BY <2>2 DEF Fresh, Referenced
  <2>4. Good(t)'
    BY <2>2, IssuedIsGood
  <2>5. ASSUME NEW u \in Token, u # t, GoodOrLost(u)
        PROVE  GoodOrLost(u)'
    <3>1. u = current[Owner[t]] => u \in lost'
      BY <1>1, <2>1, <2>5 DEF login
    <3> QED  BY <2>2, <2>5, <3>1, IssueKeeps
  <2>6. OneRefresh' /\ TokenHasUser' /\ HeldIsGood'
    BY <2>1, <2>2, <2>4 DEF OneRefresh, TokenHasUser, HeldIsGood, GoodOrLost, Good
  <2>7. GotIsGood'
    BY <2>2, <2>3, <2>5 DEF GotIsGood, StoreInv, Filled, RefreshFilled
  <2>8. PresentsGoodToken'
    <3>1. \A b \in Task : refresh[b].stage = "sent" => GoodOrLost(refresh[b].token)
      BY DEF PresentsGoodToken, GoodOrLost
    <3>2. \A b \in Task : refresh[b].stage = "sent" => GoodOrLost(refresh[b].token)'
      BY <2>2, <2>3, <2>5, <3>1 DEF StoreInv, Filled, RefreshFilled
    <3> QED  BY <2>2, <3>2 DEF PresentsGoodToken, GoodOrLost, Good
  <2> QED  BY <2>6, <2>7, <2>8
<1>2. ASSUME NEW k \in Task, logout(k)
      PROVE  TokenInv'
  BY <1>2 DEF logout, OneRefresh, TokenHasUser, HeldIsGood, GotIsGood, PresentsGoodToken,
       GoodOrLost, Good
<1>3. ASSUME NEW k \in Task, LogoutAnswered(k)
      PROVE  TokenInv'
  <2> DEFINE t == task[k].token
  <2>1. t \in Token /\ UNCHANGED <<mem, refresh>> /\ lost' = lost \cup {t}
    BY <1>3 DEF LogoutAnswered, StoreInv, Filled, TasksFilled
  <2>2. \A u \in Token : GoodOrLost(u) => GoodOrLost(u)'
    <3>1. CASE UNCHANGED current
      BY <2>1, <3>1 DEF GoodOrLost, Good
    <3>2. CASE Good(t) /\ current' = [current EXCEPT ![Owner[t]] = NoToken]
      <4>1. ASSUME NEW u \in Token, Good(u), u # t
            PROVE  Good(u)'
        BY <2>1, <3>2, <4>1, MobileSessionConstants DEF Good, StoreInv, TypeOK
      <4> QED  BY <2>1, <4>1 DEF GoodOrLost
    <3> QED  BY <1>3, <3>1, <3>2 DEF LogoutAnswered
  <2> QED  BY <2>1, <2>2, Kept
<1>4. ASSUME NEW k \in Task, Clear(k)
      PROVE  TokenInv'
  BY <1>4, Sessions DEF Clear, OneRefresh, TokenHasUser, HeldIsGood, GotIsGood, PresentsGoodToken,
       GoodOrLost, Good
<1> QED  BY <1>1, <1>2, <1>3, <1>4 DEF LogoutStep

LEMMA TokenWritten ==
  ASSUME SessionInv, Written
  PROVE  TokenInv'
<1> USE DEF SessionInv, TokenInv
<1>1. UNCHANGED <<current, mem, lost>>
  BY DEF Written
<1>2. \A b \in Task : refresh'[b] = refresh[b] \/ (refresh[b].stage = "saving" /\ refresh'[b].stage = "none")
  BY DEF Written, NoRefresh, StoreInv, TypeOK
<1> QED
  BY <1>1, <1>2 DEF OneRefresh, TokenHasUser, HeldIsGood, GotIsGood, PresentsGoodToken, GoodOrLost, Good

LEMMA TokenHydrate ==
  ASSUME SessionInv, EnterMain \/ Hydrated
  PROVE  TokenInv'
<1> USE DEF SessionInv, TokenInv
<1>1. UNCHANGED <<current, refresh>>
  BY DEF EnterMain, Hydrated
<1>2. \/ UNCHANGED <<mem, lost>>
      \/ \E s \in Complete \cup {SignedOut} : Adopt(s)
  BY DEF EnterMain, Hydrated, StoreInv, TypeOK
<1>3. lost \subseteq lost'
  BY <1>2 DEF Adopt
<1>4. /\ mem'.token # mem.token => mem'.token \in lost'
      /\ mem' = mem \/ mem' \in Complete
  BY <1>2, AdoptedSession
<1>5. OneRefresh' /\ GotIsGood' /\ PresentsGoodToken'
  BY <1>1, <1>3 DEF OneRefresh, GotIsGood, PresentsGoodToken, GoodOrLost, Good
<1>6. TokenHasUser'
  BY <1>4, Sessions, MobileSessionConstants DEF TokenHasUser
<1>7. HeldIsGood'
  BY <1>1, <1>3, <1>4 DEF HeldIsGood, GoodOrLost, Good
<1> QED  BY <1>5, <1>6, <1>7

LEMMA TokenEnvironment ==
  ASSUME SessionInv, (\E u \in User : RevokedElsewhere(u)) \/ Restart
  PROVE  TokenInv'
<1> USE DEF SessionInv, TokenInv
<1>1. ASSUME NEW u \in User, RevokedElsewhere(u)
      PROVE  TokenInv'
  <2>1. UNCHANGED <<mem, refresh>> /\ lost' = lost \cup {current[u]}
    BY <1>1 DEF RevokedElsewhere
  <2>2. ASSUME NEW t \in Token, GoodOrLost(t)
        PROVE  GoodOrLost(t)'
    <3>1. CASE Owner[t] = u
      BY <2>1, <2>2, <3>1 DEF GoodOrLost, Good
    <3>2. CASE Owner[t] # u
      BY <1>1, <2>1, <2>2, <3>2 DEF RevokedElsewhere, GoodOrLost, Good
    <3> QED  BY <3>1, <3>2
  <2> QED  BY <2>1, <2>2, Kept
<1>2. CASE Restart
  <2>1. \A b \in Task : refresh'[b].stage = "none"
    BY <1>2 DEF Restart, NoRefresh
  <2>2. OneRefresh' /\ GotIsGood' /\ PresentsGoodToken'
    BY <2>1 DEF OneRefresh, GotIsGood, PresentsGoodToken
  <2>3. mem' = SignedOut \/ (mem' = disk /\ disk \in Complete)
    BY <1>2, Sessions DEF Restart, StoreInv, TypeOK, SignedOut
  <2>4. TokenHasUser' /\ HeldIsGood'
    <3>1. CASE mem' = SignedOut
      BY <3>1, Sessions DEF TokenHasUser, HeldIsGood
    <3>2. CASE mem' = disk /\ disk \in Complete
      <4>1. disk.token \in Token /\ disk.user # NoUser /\ disk.token # NoToken
        BY <3>2, Sessions, MobileSessionConstants
      <4>2. lost \subseteq lost' /\ UNCHANGED current
        BY <1>2 DEF Restart
      <4>3. CASE disk.token # mem.token
        BY <1>2, <3>2, <4>1, <4>3 DEF Restart, TokenHasUser, HeldIsGood, GoodOrLost
      <4>4. CASE disk.token = mem.token
        <5>1. \A b \in Task : refresh[b].stage = "done" => refresh[b].token \in lost'
          BY <1>2 DEF Restart
        <5>2. GoodOrLost(mem.token) \/ mem.token \in lost'
          BY <4>1, <4>4, <5>1 DEF HeldIsGood
        <5> QED
          BY <3>2, <4>1, <4>2, <4>4, <5>2 DEF TokenHasUser, HeldIsGood, GoodOrLost, Good
      <4> QED  BY <4>3, <4>4
    <3> QED  BY <2>3, <3>1, <3>2
  <2> QED  BY <2>2, <2>3, <2>4
<1> QED  BY <1>1, <1>2

LEMMA SessionStep == SessionInv /\ [Next]_vars => SessionInv'
<1> SUFFICES ASSUME SessionInv, [Next]_vars PROVE SessionInv'
  OBVIOUS
<1>1. StoreInv'
  BY StoreStep DEF SessionInv
<1>2. CASE UNCHANGED vars
  BY <1>1, <1>2 DEF vars, SessionInv, TokenInv, OneRefresh, TokenHasUser, HeldIsGood, GotIsGood,
       PresentsGoodToken, GoodOrLost, Good
<1> QED  BY <1>1, <1>2, TokenRequest, TokenRefresh, TokenLogin, TokenWritten, TokenHydrate,
             TokenEnvironment
         DEF Next, SessionInv

LEMMA SessionInvariant == Spec => []SessionInv
<1>1. Init => SessionInv
  BY InitStore, InitToken DEF SessionInv
<1> QED  BY <1>1, SessionStep, PTL DEF Spec

------------------------------------------------------------------------------
(* What is stored, and what the store holds *)

LEMMA InStepKept ==
  ASSUME StoreInv, [Next]_vars, InStep
  PROVE  InStep' \/ RemovalOvertakes \/ TakesOldSession
<1> USE DEF InStep, storage
<1>1. CASE UNCHANGED vars
  BY <1>1 DEF vars, ToBeStored
<1>2. CASE Restart
  <2>1. CASE preferMemory'
    BY <2>1
  <2>2. CASE ~preferMemory'
    <3>1. writes' = <<>> /\ disk' = disk /\ mem' = IF disk.auth THEN disk ELSE SignedOut
      BY <1>2, <2>2 DEF Restart
    <3>2. disk \in Complete \/ disk = SignedOut
      BY DEF StoreInv, TypeOK
    <3>3. mem'.token = disk.token
      BY <3>1, <3>2 DEF Complete, SignedOut
    <3> QED  BY <3>1, <3>3 DEF ToBeStored
  <2> QED  BY <2>1, <2>2
<1>3. CASE preferMemory /\ Next /\ ~Restart
  BY <1>3 DEF Next, Send, RequestStep, Answered, ProfileAnswered, Unauthorized, RefreshStep, Exchange,
       applyTokenRefresh, RefreshFails, login, logout, LogoutStep, LogoutAnswered, Clear, EnterMain,
       Hydrated, Written, RevokedElsewhere
<1>4. CASE ~preferMemory /\ Next /\ ~Restart
  <2>1. ToBeStored.token = mem.token
    BY <1>4
  <2>2. ASSUME UNCHANGED <<mem, disk, writes>>
        PROVE  InStep'
    BY <2>1, <2>2 DEF ToBeStored
  <2>3. ASSUME NEW k \in Task, Send(k) \/ Answered(k) \/ Unauthorized(k) \/ RefreshFails(k)
                               \/ logout(k) \/ LogoutAnswered(k) \/ \E t \in Token : Exchange(k, t)
        PROVE  InStep'
    BY <2>2, <2>3 DEF Send, Answered, Unauthorized, RefreshFails, logout, LogoutAnswered, Exchange
  <2>4. ASSUME NEW k \in Task, ProfileAnswered(k)
        PROVE  InStep'
    <3>1. mem'.token = mem.token
      BY <2>4 DEF ProfileAnswered, StoreInv, TypeOK, Session
    <3>2. CASE mem.auth /\ mem.token # NoToken
      <4>1. task[k].who \in User
        BY <2>4 DEF ProfileAnswered, StoreInv, Filled, TasksFilled
      <4>2. mem' \in Complete /\ Persist(mem', NoTask)
        BY <2>4, <3>2, <4>1 DEF ProfileAnswered, StoreInv, TypeOK, Session, Complete
      <4> QED  BY <1>4, <4>2, PersistLast
    <3>3. CASE ~(mem.auth /\ mem.token # NoToken)
      BY <2>1, <2>4, <3>1, <3>3 DEF ProfileAnswered, ToBeStored
    <3> QED  BY <3>2, <3>3
  <2>5. ASSUME NEW b \in Task, applyTokenRefresh(b)
        PROVE  InStep'
    <3>1. CASE mem.user = NoUser
      BY <2>2, <2>5, <3>1 DEF applyTokenRefresh
    <3>2. CASE mem.user # NoUser
      <4> DEFINE s == [mem' EXCEPT !.auth = TRUE]
      <4>1. refresh[b].got \in Token
        BY <2>5 DEF applyTokenRefresh, StoreInv, Filled, RefreshFilled
      <4>2. mem' = [mem EXCEPT !.token = refresh[b].got] /\ Persist(s, b)
        BY <2>5, <3>2 DEF applyTokenRefresh
      <4>3. s \in Complete /\ s.token = mem'.token
        BY <3>2, <4>1, <4>2 DEF StoreInv, TypeOK, Session, Complete
      <4> HIDE DEF s
      <4> QED  BY <1>4, <4>2, <4>3, PersistLast
    <3> QED  BY <3>1, <3>2
  <2>6. ASSUME NEW t \in Token, login(t)
        PROVE  InStep'
    <3>1. mem' \in Complete /\ Persist(mem', NoTask)
      BY <2>6, MobileSessionConstants DEF login, Complete
    <3> QED  BY <1>4, <3>1, PersistLast
  <2>7. ASSUME NEW k \in Task, Clear(k)
        PROVE  InStep' \/ RemovalOvertakes
    <3>1. writes' # <<>> /\ mem'.token = NoToken
      BY <1>4, <2>7, RemoveQueued, Sessions DEF Clear
    <3>2. task[k].step = "clearing" /\ task'[k].step = "leaving"
      BY <1>4, <2>7 DEF Clear, StoreInv, TypeOK, TaskState
    <3>3. CASE Last(writes').session = SignedOut
      BY <3>1, <3>3, Sessions DEF ToBeStored
    <3> QED  BY <3>2, <3>3 DEF RemovalOvertakes
  <2>8. CASE Written
    <3>1. disk' = Head(writes).session => ToBeStored' = ToBeStored
      BY <2>8, WrittenLast DEF Written, StoreInv, TypeOK, Write
    <3> QED  BY <2>1, <2>8, <3>1 DEF Written
  <2>9. CASE EnterMain
    BY <1>4, <2>2, <2>9 DEF EnterMain
  <2>10. CASE Hydrated
    BY <1>4, <2>2, <2>1, <2>10 DEF Hydrated, TakesOldSession, ToBeStored
  <2>11. ASSUME NEW u \in User, RevokedElsewhere(u)
         PROVE  InStep'
    BY <2>2, <2>11 DEF RevokedElsewhere
  <2> QED  BY <1>4, <2>3, <2>4, <2>5, <2>6, <2>7, <2>8, <2>9, <2>10, <2>11
           DEF Next, RequestStep, RefreshStep, LogoutStep
<1> QED  BY <1>1, <1>2, <1>3, <1>4

------------------------------------------------------------------------------
(* Theorems *)

\* Type correctness: what is stored is a complete session or nothing, whatever
\* requests, refreshes and sign-outs are under way.
THEOREM MobileSessionTypeCorrect == Spec => []TypeOK
<1>1. SessionInv => TypeOK
  BY DEF SessionInv, StoreInv
<1> QED  BY <1>1, SessionInvariant, PTL

\* The phone is asked to store the token of the store whenever that changes, for
\* any number of requests, sign-outs and sign-ins at a time: only a removal that
\* overtakes a write, and a hydrate that takes an old session, put them out of
\* step while the storage does not fail.
THEOREM StorageFollowsMemory == Spec => StoredAsHeld
<1>1. StoreInv /\ [Next]_vars => (InStep => InStep' \/ RemovalOvertakes \/ TakesOldSession)
  BY InStepKept
<1>2. SessionInv => StoreInv
  BY DEF SessionInv
<1> QED  BY <1>1, <1>2, SessionInvariant, PTL DEF Spec, StoredAsHeld

\* No refresh presents a token that another refresh of this phone has spent,
\* for any number of requests that are answered 401 together.
THEOREM RefreshPresentsGoodToken == Spec => []PresentsGoodToken
<1>1. SessionInv => PresentsGoodToken
  BY DEF SessionInv, TokenInv
<1> QED  BY <1>1, SessionInvariant, PTL

------------------------------------------------------------------------------
(****************************************************************************)
(* Outbox, for any texts and any number of flushes that run at a time.       *)
(* OutboxInv is inductive: it says that a call answered as stored has stored *)
(* its text, that a flush under way has something left to do, and that a     *)
(* text which is being sent is not in the queue yet.                         *)
(****************************************************************************)

\* A call that the API has served has left a copy.
ServedIsStored ==
  /\ sending.step = "stored" => copies[sending.text] > 0
  /\ \A f \in Flush : flush[f].step = "stored" => copies[Head(flush[f].todo)] > 0

\* A flush that runs has something left to do.
FlushHasWork == \A f \in Flush : flush[f].step # "idle" => flush[f].todo # <<>>

\* What send calls for is a text that was sent; it is queued only afterwards.
SendingOnce ==
  /\ sending.step # "idle" => sending.text \in Text /\ fate[sending.text] # "unsent"
  /\ sending.step # "idle" /\ sending.open => sending.text \notin ToSet(queue)

QueuedWasSent == \A t \in Text : Queued(t) => fate[t] # "unsent"

OutboxInv ==
  /\ OutboxTypeOK
  /\ ServedIsStored
  /\ FlushHasWork
  /\ SendingOnce
  /\ QueuedWasSent
  /\ SentIsKept

------------------------------------------------------------------------------
(* Sequences without repetition *)

\* Appending a new element.
LEMMA AppendNew ==
  ASSUME NEW s \in Seq(Text), IsInjective(s), NEW t \in Text, t \notin ToSet(s),
         NEW r, r = Append(s, t)
  PROVE  /\ r \in Seq(Text)
         /\ IsInjective(r)
         /\ ToSet(r) = ToSet(s) \cup {t}
<1>1. /\ r \in Seq(Text) /\ Len(r) = Len(s) + 1 /\ DOMAIN r = 1 .. Len(s) + 1
      /\ \A i \in 1 .. Len(s) : r[i] = s[i]
      /\ r[Len(s) + 1] = t
  BY AppendProperties
<1>2. DOMAIN s = 1 .. Len(s) /\ Len(s) \in Nat
  BY LenProperties
<1>3. ToSet(r) = ToSet(s) \cup {t}
  BY <1>1, <1>2 DEF ToSet
<1>4. IsInjective(r)
  BY <1>1, <1>2 DEF IsInjective, ToSet
<1> QED  BY <1>1, <1>3, <1>4

LEMMA Places ==
  ASSUME NEW n \in Nat, NEW i \in Nat, 1 <= i, i <= n
  PROVE  /\ (IF i + 1 <= n THEN n - (i + 1) + 1 ELSE 0) = n - i
         /\ n - (i + 1) + 1 = n - i
         /\ (i - 1) + (n - i) = n - 1
OBVIOUS

\* What is left after the place i is removed: the places before it, and those
\* after it, one place earlier.
LEMMA RemoveAtPlaces ==
  ASSUME NEW s \in Seq(Text), NEW i \in 1 .. Len(s), NEW r, r = RemoveAt(s, i)
  PROVE  /\ r \in Seq(Text)
         /\ Len(r) = Len(s) - 1
         /\ \A k \in 1 .. Len(r) : r[k] = IF k < i THEN s[k] ELSE s[k + 1]
<1> DEFINE a == SubSeq(s, 1, i - 1)
           b == SubSeq(s, i + 1, Len(s))
<1>1. Len(s) \in Nat /\ DOMAIN s = 1 .. Len(s) /\ i \in Nat /\ 1 <= i /\ i <= Len(s)
  BY LenProperties
<1>2. \A k \in 1 .. Len(s) : s[k] \in Text
  BY <1>1, ElementOfSeq
<1>3. /\ a \in Seq(Text) /\ Len(a) = i - 1
      /\ \A k \in 1 .. i - 1 : a[k] = s[k]
  <2>1. \A k \in 1 .. i - 1 : s[k] \in Text
    BY <1>1, <1>2
  <2>2. i - 1 \in 1 - 1 .. Len(s) /\ 1 \in 1 .. Len(s) + 1
    BY <1>1
  <2> QED  BY <1>1, <2>1, <2>2, SubSeqProperties
<1>4. /\ b \in Seq(Text) /\ Len(b) = Len(s) - i
      /\ \A k \in 1 .. Len(s) - i : b[k] = s[i + k]
  <2>1. i + 1 \in 1 .. Len(s) + 1 /\ Len(s) \in (i + 1) - 1 .. Len(s)
    BY <1>1
  <2>2. \A k \in i + 1 .. Len(s) : s[k] \in Text
    BY <1>1, <1>2
  <2>3. b \in Seq(Text) /\ Len(b) = IF i + 1 <= Len(s) THEN Len(s) - (i + 1) + 1 ELSE 0
    BY <1>1, <2>2, SubSeqProperties
  <2>4. \A k \in 1 .. Len(s) - (i + 1) + 1 : b[k] = s[(i + 1) + k - 1]
    BY <1>1, <2>2, SubSeqProperties
  <2>5. \A k \in 1 .. Len(s) - i : (i + 1) + k - 1 = i + k
    BY <1>1
  <2>6. Len(b) = Len(s) - i /\ Len(s) - (i + 1) + 1 = Len(s) - i
    BY <1>1, <2>3, Places
  <2> QED  BY <2>3, <2>4, <2>5, <2>6
<1>5. /\ r \in Seq(Text) /\ Len(r) = Len(a) + Len(b)
      /\ \A k \in 1 .. Len(a) + Len(b) : r[k] = IF k <= Len(a) THEN a[k] ELSE b[k - Len(a)]
  <2>1. r = a \o b
    BY DEF RemoveAt
  <2>2. a \in Seq(Text) /\ b \in Seq(Text)
    BY <1>3, <1>4
  <2> HIDE DEF a, b
  <2>3. a \o b \in Seq(Text) /\ Len(a \o b) = Len(a) + Len(b)
    BY <2>2, ConcatProperties
  <2>4. \A k \in 1 .. Len(a) + Len(b) : (a \o b)[k] = IF k <= Len(a) THEN a[k] ELSE b[k - Len(a)]
    BY <2>2, ConcatProperties
  <2> QED  BY <2>1, <2>3, <2>4
<1>6. ASSUME NEW k \in 1 .. Len(r)
      PROVE  r[k] = IF k < i THEN s[k] ELSE s[k + 1]
  <2>1. r[k] = IF k <= Len(a) THEN a[k] ELSE b[k - Len(a)]
    BY <1>5
  <2>2. k \in Nat /\ 1 <= k /\ k <= Len(s) - 1
    <3>1. Len(r) = Len(s) - 1
      BY <1>1, <1>3, <1>4, <1>5, Places
    <3> QED  BY <1>1, <3>1
  <2>3. CASE k < i
    <3>1. k <= i - 1 /\ k \in 1 .. i - 1
      BY <1>1, <2>2, <2>3
    <3> QED  BY <1>3, <2>1, <2>3, <3>1
  <2>4. CASE ~(k < i)
    <3>1. ~(k <= i - 1) /\ k - (i - 1) \in 1 .. Len(s) - i /\ i + (k - (i - 1)) = k + 1
      BY <1>1, <2>2, <2>4
    <3> QED  BY <1>3, <1>4, <2>1, <2>4, <3>1
  <2> QED  BY <2>3, <2>4
<1> QED  BY <1>1, <1>3, <1>4, <1>5, <1>6, Places

\* Removing the element at a place.
LEMMA RemoveAtInjective ==
  ASSUME NEW s \in Seq(Text), IsInjective(s), NEW i \in DOMAIN s, NEW r, r = RemoveAt(s, i)
  PROVE  /\ r \in Seq(Text)
         /\ IsInjective(r)
         /\ ToSet(r) = ToSet(s) \ {s[i]}
<1>1. Len(s) \in Nat /\ DOMAIN s = 1 .. Len(s) /\ i \in 1 .. Len(s) /\ i \in Nat
  BY LenProperties
<1>2. /\ r \in Seq(Text)
      /\ Len(r) = Len(s) - 1
      /\ \A k \in 1 .. Len(r) : r[k] = IF k < i THEN s[k] ELSE s[k + 1]
  BY <1>1, RemoveAtPlaces
<1>3. DOMAIN r = 1 .. Len(r)
  BY <1>2, LenProperties
<1>4. ASSUME NEW k \in 1 .. Len(s), k # i
      PROVE  s[k] \in ToSet(r)
  <2>1. CASE k < i
    <3>1. k \in 1 .. Len(r) /\ r[k] = s[k]
      BY <1>1, <1>2, <2>1
    <3> QED  BY <1>3, <3>1 DEF ToSet
  <2>2. CASE k > i
    <3>1. k - 1 \in 1 .. Len(r) /\ ~(k - 1 < i) /\ (k - 1) + 1 = k
      BY <1>1, <1>2, <2>2
    <3>2. r[k - 1] = s[k]
      BY <1>2, <3>1
    <3> QED  BY <1>3, <3>1, <3>2 DEF ToSet
  <2> QED  BY <1>1, <1>4, <2>1, <2>2
<1>5. ASSUME NEW k \in 1 .. Len(r)
      PROVE  \E m \in DOMAIN s : m # i /\ r[k] = s[m]
  <2>1. CASE k < i
    BY <1>1, <1>2, <2>1
  <2>2. CASE ~(k < i)
    <3>1. k + 1 # i /\ k + 1 \in DOMAIN s
      BY <1>1, <1>2, <2>2
    <3> QED  BY <1>2, <2>2, <3>1
  <2> QED  BY <2>1, <2>2
<1>6. ToSet(r) = ToSet(s) \ {s[i]}
  <2>1. ToSet(r) \subseteq ToSet(s) \ {s[i]}
    BY <1>1, <1>3, <1>5 DEF ToSet, IsInjective
  <2>2. ToSet(s) \ {s[i]} \subseteq ToSet(r)
    BY <1>1, <1>4 DEF ToSet
  <2> QED  BY <2>1, <2>2
<1>7. IsInjective(r)
  <2>1. ASSUME NEW j \in 1 .. Len(r), NEW k \in 1 .. Len(r), r[j] = r[k]
        PROVE  j = k
    <3>1. /\ r[j] = s[IF j < i THEN j ELSE j + 1] /\ (IF j < i THEN j ELSE j + 1) \in DOMAIN s
          /\ r[k] = s[IF k < i THEN k ELSE k + 1] /\ (IF k < i THEN k ELSE k + 1) \in DOMAIN s
      BY <1>1, <1>2
    <3>2. (IF j < i THEN j ELSE j + 1) = (IF k < i THEN k ELSE k + 1)
      BY <2>1, <3>1 DEF IsInjective
    <3> QED  BY <1>1, <1>2, <3>2
  <2> QED  BY <1>3, <2>1 DEF IsInjective
<1> QED  BY <1>2, <1>6, <1>7

------------------------------------------------------------------------------
(* The inductive invariant *)

LEMMA OutboxInitInv == OutboxInit => OutboxInv
<1> SUFFICES ASSUME OutboxInit PROVE OutboxInv
  OBVIOUS
<1>1. <<>> \in Seq(Text) /\ IsInjective(<<>>) /\ ToSet(<<>>) = {}
  BY EmptySeq DEF IsInjective, ToSet
<1>2. NotSending \in Sending /\ NotFlushing \in Flushing
  BY <1>1 DEF NotSending, Sending, NotFlushing, Flushing
<1>3. OutboxTypeOK
  <2>1. queue \in Seq(Text) /\ IsInjective(queue)
    BY <1>1 DEF OutboxInit
  <2>2. flush \in [Flush -> Flushing] /\ copies \in [Text -> 0 .. 2]
        /\ fate \in [Text -> {"unsent", "sent", "returned", "dropped"}]
    BY <1>2 DEF OutboxInit
  <2> QED  BY <1>2, <2>1, <2>2 DEF OutboxInit, OutboxTypeOK
<1>4. sending.step = "idle" /\ \A f \in Flush : flush[f].step = "idle"
  BY DEF OutboxInit, NotSending, NotFlushing
<1>5. ServedIsStored /\ FlushHasWork /\ SendingOnce
  BY <1>4 DEF ServedIsStored, FlushHasWork, SendingOnce
<1>6. QueuedWasSent /\ SentIsKept
  BY <1>1 DEF OutboxInit, QueuedWasSent, SentIsKept, Queued
<1> QED  BY <1>3, <1>5, <1>6 DEF OutboxInv

\* A text that is stored once more.
LEMMA StoreMore ==
  ASSUME OutboxTypeOK, NEW t \in Text, Store(t)
  PROVE  /\ copies' \in [Text -> 0 .. 2]
         /\ copies'[t] > 0
         /\ \A u \in Text : copies[u] > 0 => copies'[u] > 0
<1>1. copies \in [Text -> 0 .. 2] /\ copies[t] \in 0 .. 2
  BY DEF OutboxTypeOK
<1>2. copies'[t] = (IF copies[t] = 2 THEN 2 ELSE copies[t] + 1)
      /\ \A u \in Text \ {t} : copies'[u] = copies[u]
  BY <1>1 DEF Store
<1>3. copies'[t] \in 0 .. 2 /\ copies'[t] > 0
  BY <1>1, <1>2
<1> QED  BY <1>1, <1>2, <1>3 DEF Store

\* A flush that goes on stays well formed, with a call that is not served yet.
LEMMA OnwardsKeeps ==
  ASSUME OutboxInv, NEW f \in Flush, flush[f].step # "idle", Onwards(f)
  PROVE  /\ flush' \in [Flush -> Flushing]
         /\ flush'[f].step # "stored"
         /\ flush'[f].step # "idle" => flush'[f].todo # <<>>
         /\ \A g \in Flush \ {f} : flush'[g] = flush[g]
<1> DEFINE todo == flush[f].todo
<1>1. flush \in [Flush -> Flushing] /\ flush[f] \in Flushing /\ todo \in Seq(Text) /\ todo # <<>>
  BY DEF OutboxInv, OutboxTypeOK, FlushHasWork, Flushing
<1>2. Tail(todo) \in Seq(Text) /\ Len(todo) \in Nat /\ Len(Tail(todo)) = Len(todo) - 1
  BY <1>1, HeadTailProperties, LenProperties
<1>3. NotFlushing \in Flushing /\ NotFlushing.step = "idle"
  BY EmptySeq DEF NotFlushing, Flushing
<1>4. CASE Len(todo) = 1
  BY <1>1, <1>3, <1>4 DEF Onwards
<1>5. CASE Len(todo) # 1
  <2> DEFINE next == [step |-> "calling", todo |-> Tail(todo), open |-> flush[f].open]
  <2>1. Tail(todo) # <<>>
    <3>1. Len(Tail(todo)) # 0
      BY <1>2, <1>5
    <3> QED  BY <3>1, EmptySeq
  <2>2. next \in Flushing
    BY <1>1, <1>2 DEF Flushing
  <2>3. flush' = [flush EXCEPT ![f] = next]
    BY <1>1, <1>5 DEF Onwards
  <2> QED  BY <1>1, <2>1, <2>2, <2>3 DEF Flushing
<1> QED  BY <1>4, <1>5

LEMMA SendSteps ==
  ASSUME OutboxInv, (\E t \in Text : SendText(t)) \/ SendStep
  PROVE  OutboxInv'
<1> USE DEF OutboxInv, OutboxTypeOK, net
<1>1. ASSUME NEW t \in Text, SendText(t)
      PROVE  OutboxInv'
  <2>1. sending' \in Sending /\ sending'.text = t /\ sending'.step = "calling" /\ sending'.open
    BY <1>1 DEF SendText, Sending
  <2>2. fate' \in [Text -> {"unsent", "sent", "returned", "dropped"}]
    BY <1>1 DEF SendText
  <2>3. t \notin ToSet(queue)
    BY <1>1 DEF SendText, QueuedWasSent, Queued
  <2>4. fate'[t] = "sent" /\ \A u \in Text \ {t} : fate'[u] = fate[u]
    BY <1>1 DEF SendText
  <2>5. ServedIsStored' /\ FlushHasWork' /\ SendingOnce' /\ QueuedWasSent'
    BY <1>1, <2>1, <2>3, <2>4 DEF SendText, ServedIsStored, FlushHasWork, SendingOnce, QueuedWasSent, Queued
  <2>6. SentIsKept'
    BY <1>1, <2>1, <2>4 DEF SendText, SentIsKept, Stored, Queued, BeingSent, NotSending
  <2> QED  BY <1>1, <2>1, <2>2, <2>5, <2>6 DEF SendText
<1>2. ASSUME SendStored
      PROVE  OutboxInv'
  <2>1. sending.text \in Text /\ Store(sending.text)
    BY <1>2 DEF SendStored, SendingOnce
  <2>2. sending' \in Sending /\ sending'.step = "stored" /\ sending'.text = sending.text
        /\ sending'.open = sending.open
    BY <1>2 DEF SendStored, Sending
  <2>3. /\ copies' \in [Text -> 0 .. 2] /\ copies'[sending.text] > 0
        /\ \A u \in Text : copies[u] > 0 => copies'[u] > 0
    BY <2>1, StoreMore
  <2>4. \A f \in Flush : flush[f].step = "stored" => Head(flush[f].todo) \in Text
    BY HeadTailProperties DEF FlushHasWork, Flushing
  <2>5. ServedIsStored' /\ FlushHasWork' /\ SendingOnce' /\ QueuedWasSent'
    BY <1>2, <2>1, <2>2, <2>3, <2>4 DEF SendStored, ServedIsStored, FlushHasWork, SendingOnce,
         QueuedWasSent, Queued
  <2>6. SentIsKept'
    BY <1>2, <2>2, <2>3 DEF SendStored, SentIsKept, Stored, Queued, BeingSent
  <2> QED  BY <1>2, <2>2, <2>3, <2>5, <2>6 DEF SendStored
<1>3. ASSUME SendAnswered
      PROVE  OutboxInv'
  <2>1. sending' \in Sending /\ sending'.step = "idle"
    BY <1>3 DEF SendAnswered, NotSending, Sending
  <2>2. ServedIsStored' /\ FlushHasWork' /\ SendingOnce' /\ QueuedWasSent'
    BY <1>3, <2>1 DEF SendAnswered, ServedIsStored, FlushHasWork, SendingOnce, QueuedWasSent, Queued
  <2>3. SentIsKept'
    BY <1>3, <2>1 DEF SendAnswered, ServedIsStored, SentIsKept, Stored, Queued, BeingSent
  <2> QED  BY <1>3, <2>1, <2>2, <2>3 DEF SendAnswered
<1>4. ASSUME SendFails
      PROVE  OutboxInv'
  <2> DEFINE t == sending.text
  <2>1. sending' \in Sending /\ sending'.step = "idle" /\ t \in Text /\ fate[t] # "unsent"
    BY <1>4 DEF SendFails, MayFail, NotSending, Sending, SendingOnce
  <2>2. CASE UNCHANGED <<queue, fate>> /\ ~sending.open
    <3>1. ServedIsStored' /\ FlushHasWork' /\ SendingOnce' /\ QueuedWasSent'
      BY <1>4, <2>1, <2>2 DEF SendFails, ServedIsStored, FlushHasWork, SendingOnce, QueuedWasSent, Queued
    <3>2. SentIsKept'
      BY <1>4, <2>1, <2>2 DEF SendFails, SentIsKept, Stored, Queued, BeingSent
    <3> QED  BY <1>4, <2>1, <2>2, <3>1, <3>2 DEF SendFails
  <2>3. CASE sending.open /\ queue' = Append(queue, t) /\ UNCHANGED fate
    <3>1. t \notin ToSet(queue)
      BY <1>4, <2>3 DEF SendFails, MayFail, SendingOnce
    <3>2. queue' \in Seq(Text) /\ IsInjective(queue') /\ ToSet(queue') = ToSet(queue) \cup {t}
      BY <2>1, <2>3, <3>1, AppendNew
    <3>3. ServedIsStored' /\ FlushHasWork' /\ SendingOnce' /\ QueuedWasSent'
      BY <1>4, <2>1, <2>3, <3>2 DEF SendFails, ServedIsStored, FlushHasWork, SendingOnce, QueuedWasSent,
           Queued
    <3>4. SentIsKept'
      BY <1>4, <2>1, <2>3, <3>2 DEF SendFails, SentIsKept, Stored, Queued, BeingSent
    <3> QED  BY <1>4, <2>1, <2>3, <3>2, <3>3, <3>4 DEF SendFails
  <2>4. CASE fate' = [fate EXCEPT ![t] = "returned"] /\ UNCHANGED queue
    <3>1. fate' \in [Text -> {"unsent", "sent", "returned", "dropped"}]
          /\ fate'[t] = "returned" /\ \A u \in Text \ {t} : fate'[u] = fate[u]
      BY <2>1, <2>4
    <3>2. ServedIsStored' /\ FlushHasWork' /\ SendingOnce' /\ QueuedWasSent'
      BY <1>4, <2>1, <2>4, <3>1 DEF SendFails, ServedIsStored, FlushHasWork, SendingOnce, QueuedWasSent,
           Queued
    <3>3. SentIsKept'
      BY <1>4, <2>1, <2>4, <3>1 DEF SendFails, SentIsKept, Stored, Queued, BeingSent
    <3> QED  BY <1>4, <2>1, <2>4, <3>1, <3>2, <3>3 DEF SendFails
  <2> QED  BY <1>4, <2>2, <2>3, <2>4 DEF SendFails
<1> QED  BY <1>1, <1>2, <1>3, <1>4 DEF SendStep

\* A flush that goes on, with the queue unchanged.
LEMMA OnwardsOnly ==
  ASSUME OutboxInv, NEW f \in Flush, flush[f].step # "idle", Onwards(f),
         UNCHANGED <<net, queue, sending, copies, fate>>
  PROVE  OutboxInv'
<1> USE DEF OutboxInv, OutboxTypeOK, net
<1>1. /\ flush' \in [Flush -> Flushing]
      /\ flush'[f].step # "stored"
      /\ flush'[f].step # "idle" => flush'[f].todo # <<>>
      /\ \A g \in Flush \ {f} : flush'[g] = flush[g]
  BY OnwardsKeeps
<1>2. ServedIsStored' /\ FlushHasWork'
  BY <1>1 DEF ServedIsStored, FlushHasWork
<1>3. SendingOnce' /\ QueuedWasSent' /\ SentIsKept'
  BY DEF SendingOnce, QueuedWasSent, Queued, SentIsKept, Stored, BeingSent
<1> QED  BY <1>1, <1>2, <1>3

LEMMA FlushSteps ==
  ASSUME OutboxInv, NEW f \in Flush, FlushBegins(f) \/ FlushStep(f)
  PROVE  OutboxInv'
<1> USE DEF OutboxInv, OutboxTypeOK, net
<1>1. CASE FlushBegins(f)
  <2>1. /\ flush' \in [Flush -> Flushing]
        /\ flush'[f].step = "calling" /\ flush'[f].todo # <<>>
        /\ \A g \in Flush \ {f} : flush'[g] = flush[g]
    BY <1>1 DEF FlushBegins, Flushing
  <2>2. ServedIsStored' /\ FlushHasWork'
    BY <1>1, <2>1 DEF FlushBegins, ServedIsStored, FlushHasWork
  <2>3. SendingOnce' /\ QueuedWasSent' /\ SentIsKept'
    BY <1>1 DEF FlushBegins, SendingOnce, QueuedWasSent, Queued, SentIsKept, Stored, BeingSent
  <2> QED  BY <1>1, <2>1, <2>2, <2>3 DEF FlushBegins
<1>2. CASE FlushStored(f)
  <2> DEFINE t == Head(flush[f].todo)
  <2>1. \A g \in Flush : flush[g].step # "idle" => Head(flush[g].todo) \in Text
    BY HeadTailProperties DEF FlushHasWork, Flushing
  <2>2. t \in Text /\ Store(t)
    BY <1>2, <2>1 DEF FlushStored
  <2>3. /\ copies' \in [Text -> 0 .. 2] /\ copies'[t] > 0
        /\ \A u \in Text : copies[u] > 0 => copies'[u] > 0
    BY <2>2, StoreMore
  <2>4. /\ flush' \in [Flush -> Flushing]
        /\ flush'[f].step = "stored" /\ flush'[f].todo = flush[f].todo
        /\ \A g \in Flush \ {f} : flush'[g] = flush[g]
    BY <1>2 DEF FlushStored, Flushing
  <2>5. ServedIsStored' /\ FlushHasWork'
    BY <1>2, <2>1, <2>3, <2>4 DEF FlushStored, ServedIsStored, FlushHasWork, SendingOnce
  <2>6. SendingOnce' /\ QueuedWasSent' /\ SentIsKept'
    BY <1>2, <2>3 DEF FlushStored, SendingOnce, QueuedWasSent, Queued, SentIsKept, Stored, BeingSent
  <2> QED  BY <1>2, <2>3, <2>4, <2>5, <2>6 DEF FlushStored
<1>3. CASE FlushAnswered(f)
  <2> DEFINE t == Head(flush[f].todo)
  <2>1. copies[t] > 0 /\ flush[f].step # "idle" /\ Onwards(f)
    BY <1>3 DEF FlushAnswered, ServedIsStored
  <2>2. CASE UNCHANGED queue
    BY <1>3, <2>1, <2>2, OnwardsOnly DEF FlushAnswered
  <2>3. ASSUME NEW i \in DOMAIN queue, queue[i] = t, queue' = RemoveAt(queue, i)
        PROVE  OutboxInv'
    <3>1. queue' \in Seq(Text) /\ IsInjective(queue') /\ ToSet(queue') = ToSet(queue) \ {t}
      BY <2>3, RemoveAtInjective
    <3>2. /\ flush' \in [Flush -> Flushing]
          /\ flush'[f].step # "stored"
          /\ flush'[f].step # "idle" => flush'[f].todo # <<>>
          /\ \A g \in Flush \ {f} : flush'[g] = flush[g]
      BY <2>1, OnwardsKeeps
    <3>3. ServedIsStored' /\ FlushHasWork'
      BY <1>3, <3>2 DEF FlushAnswered, ServedIsStored, FlushHasWork
    <3>4. SendingOnce' /\ QueuedWasSent'
      BY <1>3, <3>1 DEF FlushAnswered, SendingOnce, QueuedWasSent, Queued
    <3>5. SentIsKept'
      BY <1>3, <2>1, <3>1 DEF FlushAnswered, SentIsKept, Stored, Queued, BeingSent
    <3> QED  BY <1>3, <3>1, <3>2, <3>3, <3>4, <3>5 DEF FlushAnswered
  <2> QED  BY <1>3, <2>2, <2>3 DEF FlushAnswered
<1>4. CASE FlushFails(f)
  <2>1. flush[f].step # "idle"
    BY <1>4 DEF FlushFails, MayFail
  <2> QED  BY <1>4, <2>1, OnwardsOnly DEF FlushFails
<1> QED  BY <1>1, <1>2, <1>3, <1>4 DEF FlushStep

\* The user leaves the room: nothing is promised of its texts any more.
LEMMA ReopenStep == OutboxInv /\ ReopenRoom => OutboxInv'
<1> SUFFICES ASSUME OutboxInv, ReopenRoom PROVE OutboxInv'
  OBVIOUS
<1> USE DEF OutboxInv, OutboxTypeOK, ReopenRoom
<1>1. queue' \in Seq(Text) /\ IsInjective(queue') /\ ToSet(queue') = {}
  BY EmptySeq DEF IsInjective, ToSet
<1>2. /\ sending' \in Sending /\ ~sending'.open
      /\ sending'.step = sending.step /\ sending'.text = sending.text
  BY DEF Sending
<1>3. /\ flush' \in [Flush -> Flushing]
      /\ \A f \in Flush : flush'[f].step = flush[f].step /\ flush'[f].todo = flush[f].todo
  BY DEF Flushing
<1>4. /\ fate' \in [Text -> {"unsent", "sent", "returned", "dropped"}]
      /\ \A t \in Text : fate'[t] # "sent" /\ (fate[t] # "unsent" => fate'[t] # "unsent")
  OBVIOUS
<1>5. ServedIsStored' /\ FlushHasWork'
  BY <1>2, <1>3 DEF ServedIsStored, FlushHasWork
<1>6. SendingOnce' /\ QueuedWasSent' /\ SentIsKept'
  BY <1>1, <1>2, <1>4 DEF SendingOnce, QueuedWasSent, Queued, SentIsKept
<1> QED  BY <1>1, <1>2, <1>3, <1>4, <1>5, <1>6

LEMMA OutboxStep == OutboxInv /\ [OutboxNext]_outboxVars => OutboxInv'
<1> SUFFICES ASSUME OutboxInv, [OutboxNext]_outboxVars PROVE OutboxInv'
  OBVIOUS
<1>1. CASE NetworkChanges \/ ApiChanges \/ SocketConnects \/ SocketDrops \/ UNCHANGED outboxVars
  BY <1>1 DEF NetworkChanges, ApiChanges, SocketConnects, SocketDrops, outboxVars, OutboxInv, OutboxTypeOK, ServedIsStored, FlushHasWork,
       SendingOnce, QueuedWasSent, Queued, SentIsKept, Stored, BeingSent
<1> QED  BY <1>1, SendSteps, FlushSteps, ReopenStep DEF OutboxNext

LEMMA OutboxInvariant == OutboxSpec => []OutboxInv
BY OutboxInitInv, OutboxStep, PTL DEF OutboxSpec

\* Type correctness of the room's queue, its send and its flushes; it includes
\* that the queue holds no text twice.
THEOREM OutboxTypeCorrect == OutboxSpec => []OutboxTypeOK
<1>1. OutboxInv => OutboxTypeOK
  BY DEF OutboxInv
<1> QED  BY <1>1, OutboxInvariant, PTL

\* While its room is open a text that was sent is stored, queued or being sent,
\* for any number of texts and of overlapping flushes: each flush takes out of
\* the queue as it is at that moment only what the API has stored.
THEOREM SentTextsAreKept == OutboxSpec => []SentIsKept
<1>1. OutboxInv => SentIsKept
  BY DEF OutboxInv
<1> QED  BY <1>1, OutboxInvariant, PTL

------------------------------------------------------------------------------
(****************************************************************************)
(* ChatThread, for any timeline, page size and number of events on their     *)
(* way.  Pages and events are late, and say what was so when they left the   *)
(* API; as pointers only advance it is still so when they arrive.            *)
(****************************************************************************)

\* What rows say of the messages is true.
RowsTrue(rows) ==
  \A m \in Place :
    /\ rows[m] # "absent" => m \in visible
    /\ rows[m] # "sending"
    /\ m \notin Mine => rows[m] \in {"absent", "sent"}
    /\ m \in Mine /\ rows[m] = "seen" => m <= read
    /\ m \in Mine /\ rows[m] = "delivered" => m <= delivered

\* What they say of the rows that the API does not know has a receipt as well,
\* or is what a sticker begins with.
LocalTrue(rows) ==
  \A l \in Local :
    /\ l \in Offline => rows[l] \in {"absent", "sending"} \cup Raised
    /\ l \in Sticker => rows[l] \in {"absent"} \cup Raised
    /\ rows[l] = "seen" => After[l] < read
    /\ l \in Offline /\ rows[l] = "delivered" => After[l] < delivered

EventTrue(e) ==
  /\ e.place \in visible
  /\ e.kind = "seen" => e.place <= read
  /\ e.kind = "delivered" => e.place <= delivered

\* What this phone has been told and has not heard yet.
Told == {events[i] : i \in DOMAIN events}

ThreadInv ==
  /\ ThreadTypeOK
  /\ RowsTrue(shown) /\ LocalTrue(shown)
  /\ RowsTrue(load.page.rows) /\ RowsTrue(older.page.rows)
  /\ \A e \in Told : EventTrue(e)

Event == [kind : {"row", "delivered", "seen"}, place : Place]
Events == events \in Seq(Event) /\ \A e \in Told : EventTrue(e)

------------------------------------------------------------------------------
(* A set of places has a least one *)

LEMMA Numbers ==
  /\ LastPlace \in Nat /\ Place \subseteq Nat \ {0} /\ Pointer \subseteq Nat /\ Place \subseteq Pointer
  /\ \A p \in Pointer : p <= LastPlace
BY ChatThreadConstants DEF Place, Pointer

\* A row that the API does not know is no message.
LEMMA LocalAreNot ==
  /\ \A l \in Local : l \in Row /\ l \notin Place /\ l \notin Mine /\ After[l] \in Nat
  /\ Place \subseteq Row /\ Mine \subseteq Place
  /\ \A l \in Offline : l \in Local /\ l \notin Sticker
  /\ \A l \in Sticker : l \in Local
BY ChatThreadConstants, Numbers DEF Row, Local

LEMMA Least ==
  ASSUME NEW S \in SUBSET Nat, S # {}
  PROVE  \E x \in S : \A y \in S : x <= y
<1> DEFINE R == OpToRel(<, Nat)
<1>1. IsWellFoundedOn(R, Nat)
  BY NatLessThanWellFounded
<1>2. PICK x \in S : \A y \in S : ~(<<y, x>> \in R)
  <2> HIDE DEF R
  <2> QED  BY <1>1, WFMin
<1>3. ASSUME NEW y \in S
      PROVE  x <= y
  <2>1. ~(y < x)
    BY <1>2 DEF OpToRel
  <2> QED  BY <2>1
<1> QED  BY <1>3

LEMMA MinIn ==
  ASSUME NEW S \in SUBSET Nat, S # {}
  PROVE  Min(S) \in S
BY Least DEF Min

LEMMA Greatest ==
  ASSUME NEW S \in SUBSET Place, S # {}
  PROVE  \E x \in S : \A y \in S : y <= x
<1> DEFINE D == {d \in Nat : d <= LastPlace /\ LastPlace - d \in S}
<1>1. PICK s \in S : TRUE
  OBVIOUS
<1>2. LastPlace - s \in D
  <2>1. s \in Nat /\ s <= LastPlace /\ LastPlace \in Nat
    BY Numbers
  <2>2. LastPlace - s \in Nat /\ LastPlace - s <= LastPlace /\ LastPlace - (LastPlace - s) = s
    BY <2>1
  <2> QED  BY <2>2
<1>3. PICK d \in D : \A e \in D : d <= e
  BY <1>2, Least
<1>4. ASSUME NEW y \in S
      PROVE  y <= LastPlace - d
  <2>1. y \in Nat /\ y <= LastPlace /\ LastPlace \in Nat
    BY Numbers
  <2>2. LastPlace - y \in Nat /\ LastPlace - y <= LastPlace /\ LastPlace - (LastPlace - y) = y
    BY <2>1
  <2>3. d <= LastPlace - y
    BY <1>3, <2>2
  <2> QED  BY <2>1, <2>3
<1> QED  BY <1>4

\* The newest of some messages are some of them, and at least one.
LEMMA NewestSome ==
  ASSUME NEW S \in SUBSET Place, S # {}
  PROVE  Newest(S) \subseteq S /\ Newest(S) # {}
<1>1. PICK x \in S : \A y \in S : y <= x
  BY Greatest
<1>2. {k \in S : k > x} = {}
  <2>1. \A k \in S : k \in Nat /\ x \in Nat
    BY Numbers
  <2> QED  BY <1>1, <2>1
<1>3. Cardinality({k \in S : k > x}) < PageSize
  <2>1. Cardinality({k \in S : k > x}) = 0
    BY <1>2, FS_EmptySet
  <2> QED  BY <2>1, ChatThreadConstants
<1> QED  BY <1>3 DEF Newest

------------------------------------------------------------------------------
(* What the API says *)

LEMMA PageTrue ==
  ASSUME ThreadTypeOK, NEW p \in 1 .. LastPlace + 1
  PROVE  listMessages(p) \in Page /\ RowsTrue(listMessages(p).rows)
<1> DEFINE S == {m \in visible : m < p}
           rows == [m \in Place |-> IF m \in Newest(S) THEN LevelOf(m) ELSE "absent"]
           c == IF Newest(S) = S THEN 0 ELSE Min(Newest(S))
<1>1. listMessages(p) = [rows |-> rows, cursor |-> c]
  BY DEF listMessages
<1>2. S \in SUBSET Place /\ read \in Nat /\ delivered \in Nat /\ Place \subseteq Nat
  BY Numbers DEF ThreadTypeOK
<1>3. \A m \in Place : LevelOf(m) \in Level
  BY DEF LevelOf, Level
<1>4. rows \in [Place -> Level]
  BY <1>3 DEF Level
<1>5. c \in Pointer
  <2>1. CASE Newest(S) = S
    BY <2>1, Numbers DEF Pointer
  <2>2. CASE Newest(S) # S
    <3>1. S # {}
      BY <2>2 DEF Newest
    <3>2. Newest(S) \in SUBSET Nat /\ Newest(S) # {} /\ Newest(S) \subseteq Pointer
      BY <1>2, <3>1, NewestSome, Numbers
    <3> QED  BY <2>2, <3>2, MinIn
  <2> QED  BY <2>1, <2>2
<1>6. RowsTrue(rows)
  <2>1. ASSUME NEW m \in Place
        PROVE  /\ rows[m] # "absent" => m \in visible
               /\ rows[m] # "sending"
               /\ m \notin Mine => rows[m] \in {"absent", "sent"}
               /\ m \in Mine /\ rows[m] = "seen" => m <= read
               /\ m \in Mine /\ rows[m] = "delivered" => m <= delivered
    <3>1. CASE m \in Newest(S)
      <4>1. m \in visible /\ rows[m] = LevelOf(m)
        BY <3>1 DEF Newest
      <4> QED  BY <4>1 DEF LevelOf
    <3>2. CASE m \notin Newest(S)
      BY <3>2
    <3> QED  BY <3>1, <3>2
  <2> QED  BY <2>1 DEF RowsTrue
<1> HIDE DEF rows, c
<1> QED  BY <1>1, <1>4, <1>5, <1>6 DEF Page

\* Requests that are made, and pages that are empty.
LEMMA Requests ==
  /\ NoRows \in [Place -> Level] /\ NoPage \in Page /\ NoRequest \in Request
  /\ NoRequest.page.rows = NoRows
  /\ \A p \in 1 .. LastPlace + 1 :
       /\ Asked(p) \in Request /\ Asked(p).page.rows = NoRows
  /\ LastPlace + 1 \in 1 .. LastPlace + 1
<1>1. NoRows \in [Place -> Level] /\ NoPage \in Page
  BY Numbers DEF NoRows, NoPage, Page, Level, Pointer
<1>2. LastPlace + 1 \in 1 .. LastPlace + 1
  BY Numbers
<1>3. NoRequest \in Request /\ NoRequest.page.rows = NoRows
  BY <1>1, <1>2 DEF NoRequest, Request, NoPage
<1> QED  BY <1>1, <1>2, <1>3 DEF Asked, NoRequest, Request, NoPage

LEMMA NothingIsTrue == RowsTrue(NoRows)
BY DEF RowsTrue, NoRows

\* What was true stays so while pointers only advance.
LEMMA StillTrue ==
  ASSUME ThreadInv, visible \subseteq visible', read' \in Pointer, delivered' \in Pointer,
         read <= read', delivered <= delivered'
  PROVE  /\ \A rows : RowsTrue(rows) => RowsTrue(rows)'
         /\ \A rows : LocalTrue(rows) => LocalTrue(rows)'
         /\ \A e \in Event : EventTrue(e) => EventTrue(e)'
<1>1. /\ read \in Nat /\ read' \in Nat /\ delivered \in Nat /\ delivered' \in Nat
      /\ Place \subseteq Nat
  BY Numbers DEF ThreadInv, ThreadTypeOK
<1>2. \A m \in Place : (m <= read => m <= read') /\ (m <= delivered => m <= delivered')
  BY <1>1
<1>3. ASSUME NEW rows, RowsTrue(rows)
      PROVE  RowsTrue(rows)'
  BY <1>2, <1>3 DEF RowsTrue
<1>4. ASSUME NEW rows, LocalTrue(rows)
      PROVE  LocalTrue(rows)'
  <2>1. ASSUME NEW l \in Local
        PROVE  (After[l] < read => After[l] < read') /\ (After[l] < delivered => After[l] < delivered')
    <3>1. After[l] \in Nat
      BY LocalAreNot
    <3> QED  BY <1>1, <3>1
  <2> QED  BY <1>4, <2>1 DEF LocalTrue
<1>5. \A e \in Event : EventTrue(e) => EventTrue(e)'
  BY <1>2 DEF EventTrue, Event
<1> QED  BY <1>3, <1>4, <1>5

------------------------------------------------------------------------------
(* Steps of the API *)

LEMMA ToldAreEvents == ThreadInv => events \in Seq(Event) /\ Told \subseteq Event
<1> SUFFICES ASSUME ThreadInv PROVE events \in Seq(Event) /\ Told \subseteq Event
  OBVIOUS
<1>1. events \in Seq(Event)
  BY DEF ThreadInv, ThreadTypeOK, Event
<1>2. \A i \in DOMAIN events : events[i] \in Event
  BY <1>1, ElementOfSeq, LenProperties
<1> QED  BY <1>1, <1>2 DEF Told

\* The room is told something that is true.
LEMMA TellTrue ==
  ASSUME ThreadInv, visible \subseteq visible', read' \in Pointer, delivered' \in Pointer,
         read <= read', delivered <= delivered',
         NEW e \in Event, EventTrue(e)',
         events' = events \/ Tell(e.kind, e.place)
  PROVE  Events'
<1>1. events \in Seq(Event) /\ \A d \in Told : EventTrue(d)'
  BY ToldAreEvents, StillTrue DEF ThreadInv
<1>2. CASE events' = events
  BY <1>1, <1>2 DEF Events, Told
<1>3. CASE events' = Append(events, e)
  <2>1. /\ events' \in Seq(Event) /\ Len(events') = Len(events) + 1
        /\ \A i \in 1 .. Len(events) : events'[i] = events[i]
        /\ events'[Len(events) + 1] = e
    BY <1>1, <1>3, AppendProperties
  <2>2. DOMAIN events = 1 .. Len(events) /\ DOMAIN events' = 1 .. Len(events) + 1 /\ Len(events) \in Nat
    BY <1>1, <2>1, LenProperties
  <2>3. \A i \in DOMAIN events' : i \in DOMAIN events \/ i = Len(events) + 1
    BY <2>2
  <2>4. Told' \subseteq Told \cup {e}
    BY <2>1, <2>2, <2>3 DEF Told
  <2> QED  BY <1>1, <2>1, <2>4 DEF Events
<1>4. e = [kind |-> e.kind, place |-> e.place]
  BY DEF Event
<1> QED  BY <1>2, <1>3, <1>4 DEF Tell

LEMMA ApiSteps ==
  ASSUME ThreadInv, NEW m \in Place, Arrive(m) \/ Update(m) \/ PeerReceives(m) \/ PeerReads(m)
  PROVE  ThreadInv'
<1> USE DEF ThreadInv, ThreadTypeOK
<1>1. /\ read \in Nat /\ delivered \in Nat /\ m \in Nat /\ m \in Pointer
      /\ UNCHANGED <<joined, thread, load, older>>
  BY Numbers DEF Arrive, Update, PeerReceives, PeerReads
<1>2. /\ visible \subseteq visible' /\ read' \in Pointer /\ delivered' \in Pointer
      /\ read <= read' /\ delivered <= delivered'
      /\ visible' \subseteq Place /\ answers' \subseteq visible'
  <2>1. CASE Arrive(m)
    <3>1. visible' = visible \cup {m} /\ read' = read /\ delivered' = delivered
          /\ answers' \subseteq answers \cup {m}
      BY <2>1 DEF Arrive
    <3> QED  BY <1>1, <3>1
  <2>2. CASE Update(m)
    BY <1>1, <2>2 DEF Update, api
  <2>3. CASE PeerReceives(m)
    BY <1>1, <2>3 DEF PeerReceives
  <2>4. CASE PeerReads(m)
    BY <1>1, <2>4 DEF PeerReads
  <2> QED  BY <2>1, <2>2, <2>3, <2>4
<1>3. Events'
  <2>1. CASE Arrive(m) \/ Update(m)
    <3> DEFINE e == [kind |-> "row", place |-> m]
    <3>1. e \in Event /\ e.kind = "row" /\ e.place = m
      BY DEF Event
    <3>2. m \in visible' /\ Tell(e.kind, e.place)
      BY <2>1, <3>1 DEF Arrive, Update, api
    <3> HIDE DEF e
    <3>3. EventTrue(e)'
      BY <3>1, <3>2 DEF EventTrue
    <3> QED  BY <1>2, <3>1, <3>2, <3>3, TellTrue
  <2>2. CASE PeerReceives(m)
    <3> DEFINE e == [kind |-> "delivered", place |-> m]
    <3>1. e \in Event /\ e.kind = "delivered" /\ e.place = m
      BY DEF Event
    <3>2. m \in visible' /\ m <= delivered' /\ Tell(e.kind, e.place)
      BY <1>1, <2>2, <3>1 DEF PeerReceives
    <3> HIDE DEF e
    <3>3. EventTrue(e)'
      BY <3>1, <3>2 DEF EventTrue
    <3> QED  BY <1>2, <3>1, <3>2, <3>3, TellTrue
  <2>3. CASE PeerReads(m)
    <3> DEFINE e == [kind |-> "seen", place |-> m]
    <3>1. e \in Event /\ e.kind = "seen" /\ e.place = m
      BY DEF Event
    <3>2. m \in visible' /\ m <= read' /\ (events' = events \/ Tell(e.kind, e.place))
      BY <1>1, <2>3, <3>1 DEF PeerReads
    <3> HIDE DEF e
    <3>3. EventTrue(e)'
      BY <3>1, <3>2 DEF EventTrue
    <3> QED  BY <1>2, <3>1, <3>2, <3>3, TellTrue
  <2> QED  BY <2>1, <2>2, <2>3
<1>4. UNCHANGED <<shown, cursor, load, older>>
  BY <1>1 DEF thread
<1>5. RowsTrue(shown)' /\ LocalTrue(shown)' /\ RowsTrue(load.page.rows)' /\ RowsTrue(older.page.rows)'
  <2>1. /\ \A rows : RowsTrue(rows) => RowsTrue(rows)'
        /\ \A rows : LocalTrue(rows) => LocalTrue(rows)'
    BY <1>2, StillTrue
  <2> QED  BY <1>4, <2>1 DEF RowsTrue, LocalTrue
<1>6. ThreadTypeOK'
  <2>1. events' \in Seq(Event) /\ joined' \in BOOLEAN
    BY <1>1, <1>3 DEF Events
  <2>2. \A k \in Place : shown'[k] # "absent" => k \in visible'
    BY <1>2, <1>4
  <2> QED  BY <1>2, <1>4, <2>1, <2>2 DEF Event
<1> QED  BY <1>3, <1>5, <1>6 DEF Events

------------------------------------------------------------------------------
(* Steps of the room *)

\* What the invariant says of the levels of the rows.
LEMMA RowTypes ==
  ASSUME shown \in [Row -> Level], RowsTrue(shown), LocalTrue(shown)
  PROVE  /\ \A m \in Mine : shown[m] \in {"absent", "sent"} \cup Raised
         /\ \A m \in Place : m \notin Mine => shown[m] \in {"absent", "sent"}
         /\ \A m \in Place : shown[m] # "absent" => m \in visible
         /\ \A l \in Offline : shown[l] \in {"absent", "sending"} \cup Raised
         /\ \A l \in Sticker : shown[l] \in {"absent"} \cup Raised
<1>1. \A m \in Mine : m \in Place /\ shown[m] \in Level /\ shown[m] # "sending"
  BY LocalAreNot DEF RowsTrue
<1>2. \A m \in Mine : shown[m] \in {"absent", "sent"} \cup Raised
  BY <1>1 DEF Level, Raised
<1>3. /\ \A m \in Place : m \notin Mine => shown[m] \in {"absent", "sent"}
      /\ \A m \in Place : shown[m] # "absent" => m \in visible
  BY DEF RowsTrue
<1>4. /\ \A l \in Offline : shown[l] \in {"absent", "sending"} \cup Raised
      /\ \A l \in Sticker : shown[l] \in {"absent"} \cup Raised
  BY LocalAreNot DEF LocalTrue
<1> QED  BY <1>2, <1>3, <1>4

\* A step of the room that leaves the API alone.
LEMMA RoomKeeps ==
  ASSUME ThreadInv, UNCHANGED <<api, joined>>, Events', answers' \subseteq answers,
         shown' \in [Row -> Level], RowsTrue(shown'), LocalTrue(shown'), cursor' \in Pointer,
         load' \in Request, RowsTrue(load'.page.rows),
         older' \in Request, RowsTrue(older'.page.rows)
  PROVE  ThreadInv'
<1>1. visible' = visible /\ read' = read /\ delivered' = delivered /\ joined' = joined
  BY DEF api
<1>2. RowsTrue(shown)' /\ RowsTrue(load.page.rows)' /\ RowsTrue(older.page.rows)'
  BY <1>1 DEF RowsTrue
<1>3. LocalTrue(shown)'
  BY <1>1 DEF LocalTrue
<1>4. /\ \A m \in Mine : shown'[m] \in {"absent", "sent"} \cup Raised
      /\ \A m \in Place : m \notin Mine => shown'[m] \in {"absent", "sent"}
      /\ \A m \in Place : shown'[m] # "absent" => m \in visible'
      /\ \A l \in Offline : shown'[l] \in {"absent", "sending"} \cup Raised
      /\ \A l \in Sticker : shown'[l] \in {"absent"} \cup Raised
  <2>1. \A m \in Mine : m \in Place /\ shown'[m] \in Level /\ shown'[m] # "sending"
    BY LocalAreNot DEF RowsTrue
  <2>2. \A m \in Mine : shown'[m] \in {"absent", "sent"} \cup Raised
    BY <2>1 DEF Level, Raised
  <2>3. /\ \A m \in Place : m \notin Mine => shown'[m] \in {"absent", "sent"}
        /\ \A m \in Place : shown'[m] # "absent" => m \in visible'
    BY <1>1 DEF RowsTrue
  <2>4. /\ \A l \in Offline : shown'[l] \in {"absent", "sending"} \cup Raised
        /\ \A l \in Sticker : shown'[l] \in {"absent"} \cup Raised
    BY LocalAreNot DEF LocalTrue
  <2> QED  BY <2>2, <2>3, <2>4
<1>5. /\ visible' \subseteq Place /\ read' \in Pointer /\ delivered' \in Pointer /\ joined' \in BOOLEAN
      /\ answers' \subseteq visible'
  BY <1>1 DEF ThreadInv, ThreadTypeOK
<1>6. events' \in Seq(Event) /\ (\A e \in Told : EventTrue(e))'
  BY DEF Events
<1> QED  BY <1>2, <1>3, <1>4, <1>5, <1>6 DEF ThreadInv, ThreadTypeOK, Event

\* The events on their way stay true while nothing new is told.
LEMMA EventsKept == ThreadInv /\ UNCHANGED <<api, events>> => Events'
<1> SUFFICES ASSUME ThreadInv, UNCHANGED <<api, events>> PROVE Events'
  OBVIOUS
<1>1. visible' = visible /\ read' = read /\ delivered' = delivered /\ events' = events
  BY DEF api
<1>2. events \in Seq(Event) /\ \A e \in Told : EventTrue(e)
  BY ToldAreEvents DEF ThreadInv
<1> QED  BY <1>1, <1>2 DEF Events, EventTrue, Told

\* The rows of a page, and nothing else.
LEMMA OnlyTrue ==
  ASSUME NEW rows \in [Place -> Level], RowsTrue(rows)
  PROVE  Only(rows) \in [Row -> Level] /\ RowsTrue(Only(rows)) /\ LocalTrue(Only(rows))
<1>1. \A r \in Row : Only(rows)[r] = IF r \in Place THEN rows[r] ELSE "absent"
  BY DEF Only
<1>2. Only(rows) \in [Row -> Level]
  BY DEF Only, Level
<1>3. RowsTrue(Only(rows))
  BY <1>1, LocalAreNot DEF RowsTrue
<1>4. LocalTrue(Only(rows))
  BY <1>1, LocalAreNot DEF LocalTrue
<1> QED  BY <1>2, <1>3, <1>4

\* One row is set: a message to "sent", or another to what it begins or ends with.
LEMMA MergedTrue ==
  ASSUME ThreadInv, NEW m \in visible
  PROVE  Merged(m) \in [Row -> Level] /\ RowsTrue(Merged(m)) /\ LocalTrue(Merged(m))
<1>1. m \in Place /\ m \in Row /\ shown \in [Row -> Level]
  BY LocalAreNot DEF ThreadInv, ThreadTypeOK
<1>2. /\ Merged(m) \in [Row -> Level] /\ Merged(m)[m] = "sent"
      /\ \A r \in Row : r # m => Merged(m)[r] = shown[r]
  BY <1>1 DEF Merged, Level
<1>3. RowsTrue(shown) /\ LocalTrue(shown)
  BY DEF ThreadInv
<1>4. RowsTrue(Merged(m))
  BY <1>2, <1>3, LocalAreNot DEF RowsTrue
<1>5. LocalTrue(Merged(m))
  BY <1>1, <1>2, <1>3, LocalAreNot DEF LocalTrue
<1> QED  BY <1>2, <1>4, <1>5

LEMMA LocalSet ==
  ASSUME NEW rows \in [Row -> Level], RowsTrue(rows), LocalTrue(rows), NEW l \in Local, NEW v,
         \/ v = "absent"
         \/ l \in Offline /\ v = "sending"
         \/ l \in Sticker /\ v = "delivered"
  PROVE  LET new == [rows EXCEPT ![l] = v]
         IN  new \in [Row -> Level] /\ RowsTrue(new) /\ LocalTrue(new)
<1> DEFINE new == [rows EXCEPT ![l] = v]
<1>1. l \in Row /\ l \notin Place /\ v \in Level
  BY LocalAreNot DEF Level
<1>2. /\ new \in [Row -> Level] /\ new[l] = v
      /\ \A r \in Row : r # l => new[r] = rows[r]
  BY <1>1
<1> HIDE DEF new
<1>3. RowsTrue(new)
  BY <1>1, <1>2, LocalAreNot DEF RowsTrue
<1>4. LocalTrue(new)
  <2>1. ASSUME NEW k \in Local
        PROVE  /\ k \in Offline => new[k] \in {"absent", "sending"} \cup Raised
               /\ k \in Sticker => new[k] \in {"absent"} \cup Raised
               /\ new[k] = "seen" => After[k] < read
               /\ k \in Offline /\ new[k] = "delivered" => After[k] < delivered
    <3>1. CASE k = l
      BY <1>2, <3>1, LocalAreNot DEF Raised
    <3>2. CASE k # l
      <4>1. new[k] = rows[k]
        BY <1>2, <3>2, LocalAreNot
      <4> QED  BY <4>1 DEF LocalTrue
    <3> QED  BY <3>1, <3>2
  <2> QED  BY <2>1 DEF LocalTrue
<1> QED  BY <1>2, <1>3, <1>4 DEF new

\* A receipt raises rows to what the peer's pointer allows.
LEMMA ReceiptTrue ==
  ASSUME ThreadInv, NEW p \in Place, NEW level \in {"delivered", "seen"},
         level = "seen" => p <= read, level = "delivered" => p <= delivered
  PROVE  /\ applyReceipt(p, level) \in [Row -> Level]
         /\ RowsTrue(applyReceipt(p, level)) /\ LocalTrue(applyReceipt(p, level))
<1> DEFINE new == applyReceipt(p, level)
<1>1. /\ shown \in [Row -> Level] /\ RowsTrue(shown) /\ LocalTrue(shown)
      /\ read \in Nat /\ delivered \in Nat /\ p \in Nat
  BY Numbers DEF ThreadInv, ThreadTypeOK
<1>2. \A r \in Row :
        \/ new[r] = shown[r]
        \/ /\ r \in Outgoing /\ AtOrBefore(r, p) /\ shown[r] # "absent"
           /\ new[r] = Higher(shown[r], level)
  BY DEF applyReceipt
<1>3. \A r \in Row : Higher(shown[r], level) \in Raised
      /\ (Higher(shown[r], level) = "seen" => level = "seen" \/ shown[r] = "seen")
      /\ (Higher(shown[r], level) = "delivered" => level = "delivered")
  BY DEF Higher, Raised
<1>4. new = [r \in Row |-> new[r]]
  BY DEF applyReceipt
<1> HIDE DEF new
<1>5. new \in [Row -> Level]
  <2>1. \A r \in Row : new[r] \in Level
    BY <1>1, <1>2, <1>3 DEF Level, Raised
  <2> QED  BY <1>4, <2>1
<1>6. ASSUME NEW m \in Place
      PROVE  /\ new[m] # "absent" => m \in visible
             /\ new[m] # "sending"
             /\ m \notin Mine => new[m] \in {"absent", "sent"}
             /\ m \in Mine /\ new[m] = "seen" => m <= read
             /\ m \in Mine /\ new[m] = "delivered" => m <= delivered
  <2>1. /\ m \in Nat /\ m \in Row /\ m \notin Local
        /\ shown[m] # "absent" => m \in visible
        /\ shown[m] # "sending"
        /\ m \notin Mine => shown[m] \in {"absent", "sent"}
        /\ m \in Mine /\ shown[m] = "seen" => m <= read
        /\ m \in Mine /\ shown[m] = "delivered" => m <= delivered
    BY <1>1, Numbers, LocalAreNot DEF RowsTrue
  <2>2. CASE new[m] = shown[m]
    BY <2>1, <2>2
  <2>3. CASE /\ m \in Outgoing /\ AtOrBefore(m, p) /\ shown[m] # "absent"
             /\ new[m] = Higher(shown[m], level)
    <3>1. m \in Mine /\ m <= p /\ m \in visible
      BY <2>1, <2>3 DEF Outgoing, AtOrBefore
    <3>2. new[m] \in Raised /\ (new[m] = "seen" => level = "seen" \/ shown[m] = "seen")
          /\ (new[m] = "delivered" => level = "delivered")
      BY <1>3, <2>1, <2>3
    <3>3. (level = "seen" => m <= read) /\ (level = "delivered" => m <= delivered)
      BY <1>1, <2>1, <3>1
    <3> QED  BY <2>1, <3>1, <3>2, <3>3 DEF Raised
  <2> QED  BY <1>2, <2>1, <2>2, <2>3
<1>7. ASSUME NEW l \in Local
      PROVE  /\ l \in Offline => new[l] \in {"absent", "sending"} \cup Raised
             /\ l \in Sticker => new[l] \in {"absent"} \cup Raised
             /\ new[l] = "seen" => After[l] < read
             /\ l \in Offline /\ new[l] = "delivered" => After[l] < delivered
  <2>1. /\ l \in Row /\ l \notin Place /\ After[l] \in Nat
        /\ l \in Offline => shown[l] \in {"absent", "sending"} \cup Raised
        /\ l \in Sticker => shown[l] \in {"absent"} \cup Raised
        /\ shown[l] = "seen" => After[l] < read
        /\ l \in Offline /\ shown[l] = "delivered" => After[l] < delivered
    BY <1>1, LocalAreNot DEF LocalTrue
  <2>2. CASE new[l] = shown[l]
    BY <2>1, <2>2
  <2>3. CASE /\ l \in Outgoing /\ AtOrBefore(l, p) /\ shown[l] # "absent"
             /\ new[l] = Higher(shown[l], level)
    <3>1. After[l] < p
      BY <2>1, <2>3 DEF AtOrBefore
    <3>2. new[l] \in Raised /\ (new[l] = "seen" => level = "seen" \/ shown[l] = "seen")
          /\ (new[l] = "delivered" => level = "delivered")
      BY <1>3, <2>1, <2>3
    <3>3. (level = "seen" => After[l] < read) /\ (level = "delivered" => After[l] < delivered)
      BY <1>1, <2>1, <3>1
    <3> QED  BY <2>1, <3>2, <3>3
  <2> QED  BY <1>2, <2>1, <2>2, <2>3
<1>8. RowsTrue(new)
  BY <1>6 DEF RowsTrue
<1>9. LocalTrue(new)
  BY <1>7 DEF LocalTrue
<1> QED  BY <1>5, <1>8, <1>9 DEF new

LEMMA ReceiveStep == ThreadInv /\ Receive => ThreadInv'
<1> SUFFICES ASSUME ThreadInv, Receive PROVE ThreadInv'
  OBVIOUS
<1> DEFINE e == Head(events)
<1>1. /\ UNCHANGED <<api, joined, answers, cursor, load, older>>
      /\ events # <<>> /\ events' = Tail(events)
      /\ shown' = IF e.kind = "row" THEN Merged(e.place) ELSE applyReceipt(e.place, e.kind)
  BY DEF Receive
<1>2. e \in Told /\ e \in Event /\ events' \in Seq(Event) /\ Told' \subseteq Told
  <2>1. events \in Seq(Event)
    BY ToldAreEvents
  <2>2. Len(events) \in Nat /\ Len(events) # 0 /\ DOMAIN events = 1 .. Len(events)
    BY <1>1, <2>1, LenProperties, EmptySeq
  <2>3. /\ events' \in Seq(Event) /\ Len(events') = Len(events) - 1 /\ e = events[1] /\ e \in Event
        /\ \A i \in 1 .. Len(events) - 1 : events'[i] = events[i + 1]
    BY <1>1, <2>1, HeadTailProperties
  <2>4. DOMAIN events' = 1 .. Len(events) - 1
    BY <2>2, <2>3, LenProperties
  <2>5. \A i \in DOMAIN events' : i + 1 \in DOMAIN events /\ events'[i] = events[i + 1]
    <3>1. \A i \in 1 .. Len(events) - 1 : i + 1 \in 1 .. Len(events)
      BY <2>2
    <3> QED  BY <2>2, <2>3, <2>4, <3>1
  <2>6. e \in Told
    <3>1. 1 \in DOMAIN events
      BY <2>2
    <3> QED  BY <2>3, <3>1 DEF Told
  <2>7. Told' \subseteq Told
    BY <2>5 DEF Told
  <2> QED  BY <2>3, <2>6, <2>7
<1> HIDE DEF e
<1>3. EventTrue(e) /\ e.place \in Place /\ e.kind \in {"row", "delivered", "seen"} /\ e.place \in visible
  BY <1>2 DEF ThreadInv, EventTrue, Event
<1>4. Events'
  <2>1. \A d \in Told : EventTrue(d)'
    BY <1>1 DEF ThreadInv, EventTrue, api
  <2> QED  BY <1>2, <2>1 DEF Events
<1>5. shown' \in [Row -> Level] /\ RowsTrue(shown') /\ LocalTrue(shown')
  <2>1. CASE e.kind = "row"
    BY <1>1, <1>3, <2>1, MergedTrue
  <2>2. CASE e.kind # "row"
    <3>1. /\ e.kind \in {"delivered", "seen"}
          /\ e.kind = "seen" => e.place <= read
          /\ e.kind = "delivered" => e.place <= delivered
      BY <1>3, <2>2 DEF EventTrue
    <3>2. shown' = applyReceipt(e.place, e.kind)
      BY <1>1, <2>2
    <3> QED  BY <1>3, <3>1, <3>2, ReceiptTrue
  <2> QED  BY <2>1, <2>2
<1>6. /\ cursor' \in Pointer /\ load' \in Request /\ older' \in Request
      /\ RowsTrue(load'.page.rows) /\ RowsTrue(older'.page.rows)
  BY <1>1 DEF ThreadInv, ThreadTypeOK
<1> QED  BY <1>1, <1>4, <1>5, <1>6, RoomKeeps

LEMMA AnswerSteps ==
  ASSUME ThreadInv, NEW m \in Place, RequestAnswered(m) \/ AnswerLost(m)
  PROVE  ThreadInv'
<1>1. /\ shown \in [Row -> Level] /\ RowsTrue(shown) /\ LocalTrue(shown)
      /\ cursor \in Pointer /\ load \in Request /\ older \in Request
      /\ RowsTrue(load.page.rows) /\ RowsTrue(older.page.rows)
      /\ answers \subseteq visible
  BY DEF ThreadInv, ThreadTypeOK
<1>2. CASE RequestAnswered(m)
  <2>1. UNCHANGED <<api, joined, events, cursor, load, older>> /\ answers' \subseteq answers /\ m \in visible
    BY <1>1, <1>2 DEF RequestAnswered
  <2>2. Merged(m) \in [Row -> Level] /\ RowsTrue(Merged(m)) /\ LocalTrue(Merged(m))
    BY <2>1, MergedTrue
  <2>3. shown' \in [Row -> Level] /\ RowsTrue(shown') /\ LocalTrue(shown')
    <3>1. CASE shown' = Merged(m)
      BY <2>2, <3>1
    <3>2. ASSUME NEW l \in Offline, shown' = [Merged(m) EXCEPT ![l] = "absent"]
          PROVE  shown' \in [Row -> Level] /\ RowsTrue(shown') /\ LocalTrue(shown')
      BY <2>2, <3>2, LocalAreNot, LocalSet
    <3> QED  BY <1>2, <3>1, <3>2 DEF RequestAnswered
  <2>4. Events'
    BY <2>1, EventsKept
  <2> QED  BY <1>1, <2>1, <2>3, <2>4, RoomKeeps
<1>3. CASE AnswerLost(m)
  <2>1. UNCHANGED <<api, joined, events, shown, cursor, load, older>> /\ answers' \subseteq answers
    BY <1>3 DEF AnswerLost, thread
  <2>2. Events'
    BY <2>1, EventsKept
  <2> QED  BY <1>1, <2>1, <2>2, RoomKeeps
<1> QED  BY <1>2, <1>3

\* Rows that the API does not know appear.
LEMMA LocalSteps ==
  ASSUME ThreadInv, \/ \E l \in Offline : enqueueOfflineText(l)
                    \/ \E l \in Sticker : onStickerPick(l)
  PROVE  ThreadInv'
<1>1. /\ shown \in [Row -> Level] /\ RowsTrue(shown) /\ LocalTrue(shown)
      /\ cursor \in Pointer /\ load \in Request /\ older \in Request
      /\ RowsTrue(load.page.rows) /\ RowsTrue(older.page.rows)
  BY DEF ThreadInv, ThreadTypeOK
<1>2. UNCHANGED <<api, joined, events, answers, cursor, load, older>>
  BY DEF enqueueOfflineText, onStickerPick
<1>3. Events'
  BY <1>2, EventsKept
<1>4. shown' \in [Row -> Level] /\ RowsTrue(shown') /\ LocalTrue(shown')
  <2>1. ASSUME NEW l \in Offline, enqueueOfflineText(l)
        PROVE  shown' \in [Row -> Level] /\ RowsTrue(shown') /\ LocalTrue(shown')
    <3>1. shown' = [shown EXCEPT ![l] = "sending"] /\ l \in Local
      BY <2>1, LocalAreNot DEF enqueueOfflineText
    <3> QED  BY <1>1, <3>1, LocalSet
  <2>2. ASSUME NEW l \in Sticker, onStickerPick(l)
        PROVE  shown' \in [Row -> Level] /\ RowsTrue(shown') /\ LocalTrue(shown')
    <3>1. shown' = [shown EXCEPT ![l] = "delivered"] /\ l \in Local
      BY <2>2, LocalAreNot DEF onStickerPick
    <3> QED  BY <1>1, <3>1, LocalSet
  <2> QED  BY <2>1, <2>2
<1> QED  BY <1>1, <1>2, <1>3, <1>4, RoomKeeps

\* The steps of a request: none of them changes what the API has or has told.
LEMMA PageSteps ==
  ASSUME ThreadInv, \/ Load \/ LoadServed \/ LoadAnswered
               \/ LoadOlder \/ OlderServed \/ OlderAnswered \/ RequestFails
  PROVE  ThreadInv'
<1>1. UNCHANGED <<api, joined, events, answers>>
  BY DEF Load, LoadServed, LoadAnswered, LoadOlder, OlderServed, OlderAnswered, RequestFails
<1>2. Events'
  BY <1>1, EventsKept
<1>3. RowsTrue(NoRows) /\ NoRequest \in Request /\ NoRequest.page.rows = NoRows
  BY Requests, NothingIsTrue
<1>4. /\ shown \in [Row -> Level] /\ RowsTrue(shown) /\ LocalTrue(shown)
      /\ cursor \in Pointer /\ load \in Request /\ older \in Request
      /\ RowsTrue(load.page.rows) /\ RowsTrue(older.page.rows)
  BY DEF ThreadInv, ThreadTypeOK
<1>5. CASE Load
  <2>1. load' \in Request /\ load'.page.rows = NoRows
    BY <1>5, Requests DEF Load
  <2>2. UNCHANGED <<shown, cursor, older>>
    BY <1>5 DEF Load, thread
  <2> QED  BY <1>1, <1>2, <1>3, <1>4, <2>1, <2>2, RoomKeeps
<1>6. CASE LoadServed
  <2> DEFINE p == listMessages(load.before)
  <2>1. p \in Page /\ RowsTrue(p.rows)
    BY <1>4, PageTrue DEF Request, ThreadInv
  <2>2. load' = [load EXCEPT !.step = "answered", !.page = p] /\ UNCHANGED <<shown, cursor, older>>
    BY <1>6 DEF LoadServed, thread
  <2> HIDE DEF p
  <2>3. load' \in Request /\ load'.page = p
    BY <1>4, <2>1, <2>2 DEF Request
  <2> QED  BY <1>1, <1>2, <1>4, <2>1, <2>2, <2>3, RoomKeeps
<1>7. CASE LoadAnswered
  <2>1. load.page.rows \in [Place -> Level] /\ load.page.cursor \in Pointer
    BY <1>4 DEF Request, Page
  <2>2. shown' \in [Row -> Level] /\ RowsTrue(shown') /\ LocalTrue(shown')
    BY <1>4, <1>7, <2>1, OnlyTrue DEF LoadAnswered
  <2>3. cursor' \in Pointer /\ load' = NoRequest /\ older' = older
    BY <1>7, <2>1 DEF LoadAnswered
  <2> QED  BY <1>1, <1>2, <1>3, <1>4, <2>2, <2>3, RoomKeeps
<1>8. CASE LoadOlder
  <2>1. cursor \in 1 .. LastPlace + 1
    BY <1>4, <1>8, Numbers DEF LoadOlder, Pointer
  <2>2. older' \in Request /\ older'.page.rows = NoRows
    BY <1>8, <2>1, Requests DEF LoadOlder
  <2>3. UNCHANGED <<shown, cursor, load>>
    BY <1>8 DEF LoadOlder, thread
  <2> QED  BY <1>1, <1>2, <1>3, <1>4, <2>2, <2>3, RoomKeeps
<1>9. CASE OlderServed
  <2> DEFINE p == listMessages(older.before)
  <2>1. p \in Page /\ RowsTrue(p.rows)
    BY <1>4, PageTrue DEF Request, ThreadInv
  <2>2. older' = [older EXCEPT !.step = "answered", !.page = p] /\ UNCHANGED <<shown, cursor, load>>
    BY <1>9 DEF OlderServed, thread
  <2> HIDE DEF p
  <2>3. older' \in Request /\ older'.page = p
    BY <1>4, <2>1, <2>2 DEF Request
  <2> QED  BY <1>1, <1>2, <1>4, <2>1, <2>2, <2>3, RoomKeeps
<1>10. CASE OlderAnswered
  <2> DEFINE rows == older.page.rows
  <2>1. rows \in [Place -> Level] /\ older.page.cursor \in Pointer /\ RowsTrue(rows)
    BY <1>4 DEF Request, Page
  <2>2. /\ shown' = [r \in Row |-> IF r \in Place /\ rows[r] # "absent" THEN rows[r] ELSE shown[r]]
        /\ cursor' = older.page.cursor /\ older' = NoRequest /\ load' = load
    BY <1>10 DEF OlderAnswered
  <2> HIDE DEF rows
  <2>3. shown' \in [Row -> Level]
    BY <1>4, <2>1, <2>2
  <2>4. RowsTrue(shown')
    BY <1>4, <2>1, <2>2, LocalAreNot DEF RowsTrue
  <2>5. LocalTrue(shown')
    <3>1. \A l \in Local : shown'[l] = shown[l]
      BY <2>2, LocalAreNot
    <3> QED  BY <1>4, <3>1 DEF LocalTrue
  <2> QED  BY <1>1, <1>2, <1>3, <1>4, <2>1, <2>2, <2>3, <2>4, <2>5, RoomKeeps
<1>11. CASE RequestFails
  <2>1. /\ UNCHANGED <<shown, cursor>>
        /\ load' \in {load, NoRequest} /\ older' \in {older, NoRequest}
    BY <1>11 DEF RequestFails, thread
  <2>2. /\ load' \in Request /\ RowsTrue(load'.page.rows)
        /\ older' \in Request /\ RowsTrue(older'.page.rows)
    BY <1>3, <1>4, <2>1
  <2> QED  BY <1>1, <1>2, <1>4, <2>1, <2>2, RoomKeeps
<1> QED  BY <1>5, <1>6, <1>7, <1>8, <1>9, <1>10, <1>11

LEMMA EnvironmentSteps ==
  ASSUME ThreadInv, Disconnect \/ Rejoin \/ Reopen
  PROVE  ThreadInv'
<1>1. /\ shown \in [Row -> Level] /\ RowsTrue(shown) /\ LocalTrue(shown)
      /\ cursor \in Pointer /\ load \in Request /\ older \in Request
      /\ RowsTrue(load.page.rows) /\ RowsTrue(older.page.rows)
  BY DEF ThreadInv, ThreadTypeOK
<1>2. CASE Disconnect \/ Rejoin
  <2>1. joined' \in BOOLEAN /\ UNCHANGED <<visible, read, delivered, answers, shown, cursor, load, older>>
    BY <1>2 DEF Disconnect, Rejoin, api, thread
  <2>2. Events'
    <3>1. CASE events' = <<>>
      <4>1. events' \in Seq(Event) /\ Told' = {}
        BY <3>1, EmptySeq DEF Told
      <4> QED  BY <4>1 DEF Events
    <3>2. CASE events' = events
      <4>1. UNCHANGED <<api, events>>
        BY <2>1, <3>2 DEF api
      <4> QED  BY <4>1, EventsKept
    <3> QED  BY <1>2, <3>1, <3>2 DEF Disconnect, Rejoin
  <2>3. events' \in Seq(Event) /\ (\A e \in Told : EventTrue(e))'
    BY <2>2 DEF Events
  <2> QED  BY <2>1, <2>3 DEF ThreadInv, ThreadTypeOK, RowsTrue, LocalTrue, Event
<1>3. CASE Reopen
  <2>1. /\ load' \in Request /\ load'.page.rows = NoRows /\ older' \in Request /\ older'.page.rows = NoRows
        /\ NoRows \in [Place -> Level] /\ cursor' \in Pointer /\ answers' \subseteq answers
    BY <1>3, Requests, Numbers DEF Reopen, Pointer
  <2>2. UNCHANGED <<api, joined, events>> /\ shown' = Only(NoRows)
    BY <1>3 DEF Reopen
  <2>3. Events'
    BY <2>2, EventsKept
  <2>4. shown' \in [Row -> Level] /\ RowsTrue(shown') /\ LocalTrue(shown')
    BY <2>1, <2>2, NothingIsTrue, OnlyTrue
  <2>5. RowsTrue(load'.page.rows) /\ RowsTrue(older'.page.rows)
    BY <2>1, NothingIsTrue
  <2> QED  BY <2>1, <2>2, <2>3, <2>4, <2>5, RoomKeeps
<1> QED  BY <1>2, <1>3

------------------------------------------------------------------------------
(* Theorems *)

LEMMA ThreadInitInv == ThreadInit => ThreadInv
<1> SUFFICES ASSUME ThreadInit PROVE ThreadInv
  OBVIOUS
<1>1. /\ load \in Request /\ load.page.rows = NoRows /\ older \in Request /\ older.page.rows = NoRows
      /\ NoRows \in [Place -> Level] /\ 0 \in Pointer
  BY Requests, Numbers DEF ThreadInit, Pointer
<1>2. events \in Seq(Event) /\ Told = {}
  BY EmptySeq DEF ThreadInit, Told
<1>3. shown \in [Row -> Level] /\ RowsTrue(shown) /\ LocalTrue(shown)
  BY <1>1, NothingIsTrue, OnlyTrue DEF ThreadInit
<1>4. ThreadTypeOK
  <2>1. visible \subseteq Place /\ read \in Pointer /\ delivered \in Pointer /\ joined \in BOOLEAN
        /\ answers \subseteq visible /\ cursor \in Pointer
    BY <1>1 DEF ThreadInit
  <2> QED  BY <1>1, <1>2, <1>3, <2>1, RowTypes DEF ThreadTypeOK, Event
<1> QED  BY <1>1, <1>2, <1>3, <1>4, NothingIsTrue DEF ThreadInv

LEMMA ThreadStep == ThreadInv /\ [ThreadNext]_threadVars => ThreadInv'
<1> SUFFICES ASSUME ThreadInv, [ThreadNext]_threadVars PROVE ThreadInv'
  OBVIOUS
<1>1. CASE UNCHANGED threadVars
  <2>1. UNCHANGED <<visible, read, delivered, joined, events, answers, shown, cursor, load, older>>
    BY <1>1 DEF threadVars, api, thread
  <2> QED  BY <2>1 DEF ThreadInv, ThreadTypeOK, RowsTrue, LocalTrue, EventTrue, Told
<1> QED  BY <1>1, ApiSteps, ReceiveStep, AnswerSteps, LocalSteps, PageSteps, EnvironmentSteps DEF ThreadNext

LEMMA ThreadInvariant == ThreadSpec => []ThreadInv
BY ThreadInitInv, ThreadStep, PTL DEF ThreadSpec

\* Type correctness; it includes that of the messages the thread shows only what
\* is stored, and no receipts on those of the peer.  Texts that wait and stickers
\* it shows beside them.
THEOREM ChatThreadTypeCorrect == ThreadSpec => []ThreadTypeOK
<1>1. ThreadInv => ThreadTypeOK
  BY DEF ThreadInv
<1> QED  BY <1>1, ThreadInvariant, PTL

\* Whatever the thread says was seen or delivered is at or before the peer's
\* pointer, texts that wait included and stickers excepted, for any number of
\* messages, of rows that are not stored, of events on their way and any size of
\* pages.
THEOREM LevelsHaveReceipts == ThreadSpec => []LevelHasReceipt
<1>1. ThreadInv => LevelHasReceipt
  <2> SUFFICES ASSUME ThreadInv, NEW r \in Outgoing
               PROVE  /\ shown[r] = "seen" => AtOrBefore(r, read)
                      /\ shown[r] = "delivered" => AtOrBefore(r, delivered) \/ r \in Sticker
    BY DEF LevelHasReceipt
  <2>1. CASE r \in Mine
    <3>1. r \in Place
      BY <2>1, LocalAreNot
    <3> QED  BY <2>1, <3>1 DEF ThreadInv, RowsTrue, AtOrBefore
  <2>2. CASE r \in Local
    <3>1. r \notin Place /\ (r \in Offline \/ r \in Sticker)
      BY <2>2, LocalAreNot DEF Local
    <3> QED  BY <2>2, <3>1 DEF ThreadInv, LocalTrue, AtOrBefore
  <2> QED  BY <2>1, <2>2 DEF Outgoing
<1> QED  BY <1>1, ThreadInvariant, PTL
==============================================================================
