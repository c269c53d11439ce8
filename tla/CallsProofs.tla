----------------------------- MODULE CallsProofs -----------------------------
(****************************************************************************)
(* Proofs about the call server, for any users, conversations, calls and any *)
(* capacity of at least two.                                                 *)
(****************************************************************************)
EXTENDS Calls, FiniteSetTheorems, SequenceTheorems, TLAPS

\* A suspended onCallInitiate holds a fresh id: no call has it yet and no other
\* handler holds it.  Without this createCall could overwrite a live call.
FreshIds ==
  /\ \A r \in initiating : r.call \in issued /\ calls[r.call] = NoCall
  /\ \A r, s \in initiating : r.call = s.call => r = s
  /\ \A c \in CallId : Present(c) => c \in issued

FiniteCalls == \A c \in CallId : Present(c) => IsFiniteSet(calls[c].participants)

\* The inductive invariant.
CallsInv == TypeOK /\ FreshIds /\ FiniteCalls /\ CallShape /\ BusyOnlyInLiveCall

------------------------------------------------------------------------------

\* Writing a message keeps the log within its type.
LEMMA LoggedType ==
  ASSUME NEW log \in CallLog, NEW status \in CallEndStatus
  PROVE  Logged(log, status) \in CallLog
BY DEF Logged, CallLog, MaxLogged

\* The status a hang-up writes is one of the message statuses.
LEMMA EndStatusType == \A c : EndStatus(c) \in CallEndStatus
BY DEF EndStatus, CallEndStatus

\* Adding a user to the participants of a finite call, and removing one.
LEMMA Participants ==
  ASSUME NEW P, IsFiniteSet(P), NEW u
  PROVE  /\ IsFiniteSet(P \cup {u}) /\ IsFiniteSet(P \ {u})
         /\ Cardinality(P) \in Nat
         /\ Cardinality(P \cup {u}) =
              IF u \in P THEN Cardinality(P) ELSE Cardinality(P) + 1
         /\ Cardinality(P \ {u}) =
              IF u \in P THEN Cardinality(P) - 1 ELSE Cardinality(P)
         /\ Cardinality(P) = 0 <=> P = {}
BY FS_AddElement, FS_RemoveElement, FS_CardinalityType, FS_EmptySet

\* A call of the map, as a record with its fields.
LEMMA CallFields ==
  ASSUME TypeOK, NEW c \in CallId, Present(c)
  PROVE  /\ calls[c] \in CallState
         /\ calls[c].participants \subseteq User
         /\ calls[c].pending \subseteq User
         /\ calls[c].status \in CallStatus
         /\ calls[c].answered \in BOOLEAN
BY DEF TypeOK, Present, CallState

------------------------------------------------------------------------------
(* Type correctness *)

\* endCall keeps the types of the two maps it writes.
LEMMA EndCallType ==
  ASSUME TypeOK, NEW c \in CallId, NEW call \in CallState, NEW freed, EndCall(c, call, freed)
  PROVE  /\ calls' \in [CallId -> CallState \cup {NoCall}]
         /\ userActiveCall' \in [User -> CallId \cup {NoCall}]
<1>1. [call EXCEPT !.status = "ended"] \in CallState
  BY DEF CallState, CallStatus
<1> QED BY <1>1 DEF TypeOK, EndCall, Released

LEMMA TypeInit == Init => TypeOK
<1>1. <<>> \in CallLog
  BY DEF CallLog, MaxLogged
<1> QED BY <1>1 DEF Init, TypeOK

LEMMA TypeStep == TypeOK /\ [Next]_vars => TypeOK'
<1> SUFFICES ASSUME TypeOK, [Next]_vars PROVE TypeOK'
  OBVIOUS
<1>1. ASSUME NEW u \in User, NEW c \in CallId, NEW g \in Conversation, Initiate(u, c, g)
      PROVE  TypeOK'
  BY <1>1 DEF Initiate, TypeOK
<1>2. ASSUME NEW r \in initiating, NEW invited \in SUBSET User, CreateCall(r, invited)
      PROVE  TypeOK'
  <2>1. r \in [call : CallId, user : User, conversation : Conversation]
    BY DEF TypeOK
  <2>2. [conversation |-> r.conversation, initiator |-> r.user,
         participants |-> {r.user}, pending |-> invited,
         status |-> "ringing", answered |-> FALSE] \in CallState
    BY <2>1 DEF CallState, CallStatus
  <2>3. calls' \in [CallId -> CallState \cup {NoCall}]
    BY <1>2, <2>1, <2>2 DEF CreateCall, TypeOK
  <2>4. rung' \in [User -> SUBSET CallId]
    BY <1>2, <2>1 DEF CreateCall, TypeOK
  <2> QED BY <1>2, <2>1, <2>3, <2>4 DEF CreateCall, TypeOK
<1>3. ASSUME NEW r \in initiating, InitiateFails(r)
      PROVE  TypeOK'
  BY <1>3 DEF InitiateFails, TypeOK
<1>4. ASSUME NEW u \in User, NEW c \in CallId, Decline(u, c)
      PROVE  TypeOK'
  <2>1. calls[c] \in CallState
    BY <1>4 DEF Decline, MayAnswer, Present, TypeOK
  <2>2. [calls[c] EXCEPT !.pending = @ \ {u}] \in CallState
    BY <2>1 DEF CallState
  <2>3. /\ calls' \in [CallId -> CallState \cup {NoCall}]
        /\ userActiveCall' \in [User -> CallId \cup {NoCall}]
    <3>1. CASE EndCall(c, [calls[c] EXCEPT !.pending = @ \ {u}], {u})
      BY <3>1, <2>2, EndCallType
    <3>2. CASE /\ calls' = [calls EXCEPT ![c] = [calls[c] EXCEPT !.pending = @ \ {u}]]
               /\ userActiveCall' = Released({u})
      BY <3>2, <2>2 DEF TypeOK, Released
    <3> QED BY <1>4, <3>1, <3>2 DEF Decline
  <2> QED BY <1>4, <2>3 DEF Decline, TypeOK
<1>5. ASSUME NEW u \in User, NEW c \in CallId, AcceptBusy(u, c)
      PROVE  TypeOK'
  <2>1. calls[c] \in CallState
    BY <1>5 DEF AcceptBusy, MayAnswer, Present, TypeOK
  <2>2. callMessages' \in [CallId -> CallLog]
    BY <1>5, LoggedType DEF AcceptBusy, persistCallMessage, TypeOK, CallEndStatus
  <2> QED BY <1>5, <2>1, <2>2, EndCallType DEF AcceptBusy, TypeOK
<1>6. ASSUME NEW u \in User, NEW c \in CallId, Accept(u, c)
      PROVE  TypeOK'
  <2>1. calls[c] \in CallState
    BY <1>6 DEF Accept, MayAnswer, Present, TypeOK
  <2>2. calls' \in [CallId -> CallState \cup {NoCall}]
    BY <1>6, <2>1 DEF Accept, joinCall, TypeOK, CallState, CallStatus
  <2> QED BY <1>6, <2>2 DEF Accept, joinCall, TypeOK
<1>7. ASSUME NEW u \in User, NEW c \in CallId, Leave(u, c)
      PROVE  TypeOK'
  <2> DEFINE call == [calls[c] EXCEPT !.participants = @ \ {u}]
  <2>1. calls[c] \in CallState
    BY <1>7 DEF Leave, MayHangUp, Present, TypeOK
  <2>2. call \in CallState
    BY <2>1 DEF CallState
  <2>3. CASE EndCall(c, call, {u}) /\ persistCallMessage(c, EndStatus(c))
    <3>1. callMessages' \in [CallId -> CallLog]
      BY <2>3, LoggedType, EndStatusType DEF persistCallMessage, TypeOK
    <3>2. /\ calls' \in [CallId -> CallState \cup {NoCall}]
          /\ userActiveCall' \in [User -> CallId \cup {NoCall}]
      BY <2>3, <2>2, EndCallType
    <3> QED BY <1>7, <3>1, <3>2 DEF Leave, TypeOK
  <2>4. CASE /\ calls' = [calls EXCEPT ![c] = call]
             /\ userActiveCall' = Released({u})
             /\ UNCHANGED callMessages
    BY <1>7, <2>2, <2>4 DEF Leave, TypeOK, Released
  <2> QED BY <1>7, <2>3, <2>4 DEF Leave
<1>8. ASSUME NEW u \in User, NEW c \in CallId, End(u, c)
      PROVE  TypeOK'
  <2>1. calls[c] \in CallState
    BY <1>8 DEF End, MayHangUp, Present, TypeOK
  <2>2. callMessages' \in [CallId -> CallLog]
    BY <1>8, LoggedType, EndStatusType DEF End, persistCallMessage, TypeOK
  <2> QED BY <1>8, <2>1, <2>2, EndCallType DEF End, TypeOK
<1>9. ASSUME NEW c \in CallId, Forget(c)
      PROVE  TypeOK'
  BY <1>9 DEF Forget, TypeOK
<1>10. CASE Restart
  BY <1>10 DEF Restart, TypeOK
<1>11. CASE UNCHANGED vars
  BY <1>11 DEF vars, TypeOK
<1> QED BY <1>1, <1>2, <1>3, <1>4, <1>5, <1>6, <1>7, <1>8, <1>9, <1>10, <1>11 DEF Next

\* The state of the call server has its type in every reachable state: in
\* particular every call message carries an end status.
THEOREM CallsTypeCorrect == Spec => []TypeOK
BY TypeInit, TypeStep, PTL DEF Spec

------------------------------------------------------------------------------
(* The shape of the calls and the busy map *)

\* A handler that replaces the state of one present call by `call', where the
\* busy map keeps only entries that are still right, preserves the invariant.
LEMMA ReplaceInv ==
  ASSUME CallsInv, NEW c \in CallId, Present(c), NEW call \in CallState,
         calls' = [calls EXCEPT ![c] = call],
         WellShaped(call), IsFiniteSet(call.participants),
         initiating' = initiating, issued' = issued,
         userActiveCall' \in [User -> CallId \cup {NoCall}],
         \A u \in User : userActiveCall'[u] # NoCall =>
           IF userActiveCall'[u] = c
           THEN call.status # "ended" /\ u \in call.participants
           ELSE userActiveCall'[u] = userActiveCall[u]
  PROVE  FreshIds' /\ FiniteCalls' /\ CallShape' /\ BusyOnlyInLiveCall'
<1>1. call # NoCall
  BY NoCallIsNoState
<1>2. calls \in [CallId -> CallState \cup {NoCall}]
  BY DEF CallsInv, TypeOK
<1>3. calls'[c] = call /\ \A d \in CallId \ {c} : calls'[d] = calls[d]
  BY <1>2
<1>4. \A r \in initiating : r.call \in CallId /\ r.call # c
  BY DEF CallsInv, TypeOK, FreshIds, Present
<1>5. FreshIds'
  BY <1>3, <1>4 DEF CallsInv, FreshIds, Present
<1>6. FiniteCalls'
  BY <1>3 DEF CallsInv, FiniteCalls, Present
<1>7. CallShape'
  BY <1>3 DEF CallsInv, CallShape, Present, WellShaped
<1>8. BusyOnlyInLiveCall'
  BY <1>1, <1>3 DEF CallsInv, BusyOnlyInLiveCall, Live, Present
<1> QED BY <1>5, <1>6, <1>7, <1>8

\* endCall, reached with the state `call' after users of `freed' have left the
\* call or its invitations, preserves the invariant.
LEMMA EndCallInv ==
  ASSUME CallsInv, NEW c \in CallId, Present(c), NEW call \in CallState, NEW freed,
         call.status = calls[c].status, call.answered = calls[c].answered,
         call.participants \subseteq calls[c].participants,
         calls[c].participants \subseteq call.participants \cup freed,
         call.pending \subseteq calls[c].pending,
         EndCall(c, call, freed),
         initiating' = initiating, issued' = issued
  PROVE  FreshIds' /\ FiniteCalls' /\ CallShape' /\ BusyOnlyInLiveCall'
<1> DEFINE after == [call EXCEPT !.status = "ended"]
<1>1. /\ after \in CallState /\ after.status = "ended"
      /\ after.participants = call.participants /\ after.pending = call.pending
  BY DEF CallState, CallStatus
<1>2. calls' = [calls EXCEPT ![c] = after]
  <2>1. call.status = "ended" => after = call
    BY DEF CallState
  <2> QED BY <2>1 DEF EndCall
<1>3. IsFiniteSet(calls[c].participants) /\ IsFiniteSet(after.participants)
  BY <1>1, FS_Subset DEF CallsInv, FiniteCalls
<1>4. Cardinality(after.participants) <= Cardinality(calls[c].participants)
  BY <1>1, <1>3, FS_Subset
<1>5. WellShaped(after)
  <2>1. Cardinality(after.participants) <= MaxParticipants
    <3>1. Cardinality(calls[c].participants) <= MaxParticipants
      BY DEF CallsInv, CallShape, WellShaped
    <3>2. /\ Cardinality(after.participants) \in Nat
          /\ Cardinality(calls[c].participants) \in Nat
      BY <1>3, FS_CardinalityType
    <3> QED BY <1>4, <3>1, <3>2, CallConstants
  <2>2. after.participants \cap after.pending = {}
    BY <1>1 DEF CallsInv, CallShape, WellShaped
  <2> QED BY <1>1, <2>1, <2>2 DEF WellShaped
<1>6. userActiveCall' \in [User -> CallId \cup {NoCall}]
  BY EndCallType DEF CallsInv
<1>7. ASSUME NEW u \in User, userActiveCall'[u] # NoCall
      PROVE  userActiveCall'[u] # c /\ userActiveCall'[u] = userActiveCall[u]
  <2>1. userActiveCall'[u] = userActiveCall[u] /\ u \notin freed
    BY <1>7 DEF EndCall, Released
  <2>2. userActiveCall[u] # c
    <3> SUFFICES ASSUME userActiveCall[u] = c PROVE FALSE
      OBVIOUS
    <3>1. calls[c].status # "ended" /\ u \in calls[c].participants
      BY <1>7, <2>1 DEF CallsInv, BusyOnlyInLiveCall, Live
    <3>2. u \in call.participants
      BY <2>1, <3>1
    <3> QED BY <1>7, <3>1, <3>2 DEF EndCall, Released
  <2> QED BY <2>1, <2>2
<1> HIDE DEF after
<1> QED BY <1>1, <1>2, <1>3, <1>5, <1>6, <1>7, ReplaceInv

LEMMA CallsInvInit == Init => CallsInv
<1> SUFFICES ASSUME Init PROVE CallsInv
  OBVIOUS
<1>1. TypeOK
  BY TypeInit
<1> QED BY <1>1 DEF Init, CallsInv, FreshIds, FiniteCalls, CallShape, BusyOnlyInLiveCall,
                    Present

LEMMA CallsInvStep == CallsInv /\ [Next]_vars => CallsInv'
<1> SUFFICES ASSUME CallsInv, [Next]_vars PROVE CallsInv'
  OBVIOUS
<1>t. TypeOK /\ TypeOK'
  BY TypeStep DEF CallsInv
<1> DEFINE Rest == FreshIds /\ FiniteCalls /\ CallShape /\ BusyOnlyInLiveCall
<1> SUFFICES Rest'
  BY <1>t DEF CallsInv
<1>1. ASSUME NEW u \in User, NEW c \in CallId, NEW g \in Conversation, Initiate(u, c, g)
      PROVE  Rest'
  <2>1. calls' = calls /\ userActiveCall' = userActiveCall
    BY <1>1 DEF Initiate
  <2>2. FreshIds'
    BY <1>1, <2>1 DEF Initiate, CallsInv, FreshIds, Present
  <2> QED BY <2>1, <2>2 DEF CallsInv, FiniteCalls, CallShape, BusyOnlyInLiveCall,
                            Present, Live, WellShaped
<1>2. ASSUME NEW r \in initiating, NEW invited \in SUBSET User, CreateCall(r, invited)
      PROVE  Rest'
  <2> DEFINE call == [conversation |-> r.conversation, initiator |-> r.user,
                      participants |-> {r.user}, pending |-> invited,
                      status |-> "ringing", answered |-> FALSE]
  <2>1. r.call \in CallId /\ r.user \in User /\ r.conversation \in Conversation
    BY <1>t DEF TypeOK
  <2>2. calls[r.call] = NoCall /\ r.call \in issued
    BY DEF CallsInv, FreshIds
  <2>3. calls \in [CallId -> CallState \cup {NoCall}]
    BY <1>t DEF TypeOK
  <2>4. calls'[r.call] = call /\ \A d \in CallId \ {r.call} : calls'[d] = calls[d]
    BY <1>2, <2>1, <2>3 DEF CreateCall
  <2>5. call \in CallState
    BY <2>1 DEF CallState, CallStatus
  <2>6. call # NoCall
    BY <2>5, NoCallIsNoState
  <2>7. call.participants = {r.user} /\ call.pending = invited /\ call.status = "ringing"
        /\ ~call.answered
    OBVIOUS
  <2>8. r.user \notin invited
    BY <1>2 DEF CreateCall
  <2>9. IsFiniteSet({r.user}) /\ Cardinality({r.user}) = 1
    BY FS_Singleton
  <2>10. WellShaped(call)
    BY <2>7, <2>8, <2>9, CallConstants DEF WellShaped
  <2> HIDE DEF call
  <2>11. FreshIds'
    BY <1>2, <1>t, <2>1, <2>2, <2>4 DEF CreateCall, CallsInv, FreshIds, Present, TypeOK
  <2>12. FiniteCalls'
    BY <2>4, <2>7, <2>9 DEF CallsInv, FiniteCalls, Present
  <2>13. CallShape'
    BY <2>4, <2>10 DEF CallsInv, CallShape, Present, WellShaped
  <2>14. BusyOnlyInLiveCall'
    <3>1. userActiveCall' = [userActiveCall EXCEPT ![r.user] = r.call]
      BY <1>2 DEF CreateCall
    <3>2. /\ calls'[r.call] # NoCall /\ calls'[r.call].status # "ended"
          /\ r.user \in calls'[r.call].participants
      BY <2>4, <2>6, <2>7
    <3>3. ASSUME NEW u \in User, u # r.user, userActiveCall'[u] # NoCall
          PROVE  /\ calls'[userActiveCall'[u]] # NoCall
                 /\ calls'[userActiveCall'[u]].status # "ended"
                 /\ u \in calls'[userActiveCall'[u]].participants
      <4>1. userActiveCall'[u] = userActiveCall[u] /\ userActiveCall[u] \in CallId
        BY <1>t, <3>1, <3>3 DEF TypeOK
      <4>2. Live(userActiveCall[u]) /\ u \in calls[userActiveCall[u]].participants
        BY <3>3, <4>1 DEF CallsInv, BusyOnlyInLiveCall
      <4>3. userActiveCall[u] # r.call
        BY <2>2, <4>2 DEF Live, Present
      <4> QED BY <2>4, <4>1, <4>2, <4>3 DEF Live, Present
    <3>4. userActiveCall'[r.user] = r.call
      BY <1>t, <2>1, <3>1 DEF TypeOK
    <3> QED BY <3>2, <3>3, <3>4 DEF BusyOnlyInLiveCall, Live, Present
  <2> QED BY <2>11, <2>12, <2>13, <2>14
<1>3. ASSUME NEW r \in initiating, InitiateFails(r)
      PROVE  Rest'
  BY <1>3 DEF InitiateFails, CallsInv, FreshIds, FiniteCalls, CallShape,
              BusyOnlyInLiveCall, Present, Live, WellShaped
<1>4. ASSUME NEW u \in User, NEW c \in CallId, Decline(u, c)
      PROVE  Rest'
  <2> DEFINE call == [calls[c] EXCEPT !.pending = @ \ {u}]
  <2>1. Present(c) /\ initiating' = initiating /\ issued' = issued
    BY <1>4 DEF Decline, MayAnswer
  <2>2. calls[c] \in CallState
    BY <1>t, <2>1, CallFields
  <2>3. /\ call \in CallState
        /\ call.status = calls[c].status /\ call.answered = calls[c].answered
        /\ call.participants = calls[c].participants
        /\ call.pending = calls[c].pending \ {u}
    BY <2>2 DEF CallState
  <2>4. CASE EndCall(c, call, {u})
    BY <2>1, <2>3, <2>4, EndCallInv
  <2>5. CASE calls' = [calls EXCEPT ![c] = call] /\ userActiveCall' = Released({u})
    <3>1. WellShaped(call) /\ IsFiniteSet(call.participants)
      BY <2>1, <2>3 DEF CallsInv, CallShape, FiniteCalls, WellShaped
    <3>2. \A v \in User : userActiveCall'[v] # NoCall =>
            /\ userActiveCall'[v] = userActiveCall[v]
            /\ userActiveCall[v] = c => calls[c].status # "ended" /\ v \in calls[c].participants
      BY <2>5 DEF Released, CallsInv, BusyOnlyInLiveCall, Live
    <3>3. userActiveCall' \in [User -> CallId \cup {NoCall}]
      BY <1>t DEF TypeOK
    <3> HIDE DEF call
    <3>4. \A v \in User : userActiveCall'[v] # NoCall =>
            IF userActiveCall'[v] = c
            THEN call.status # "ended" /\ v \in call.participants
            ELSE userActiveCall'[v] = userActiveCall[v]
      BY <2>3, <3>2
    <3> QED BY <2>1, <2>3, <2>5, <3>1, <3>3, <3>4, ReplaceInv
  <2> QED BY <1>4, <2>4, <2>5 DEF Decline
<1>5. ASSUME NEW u \in User, NEW c \in CallId, AcceptBusy(u, c)
      PROVE  Rest'
  <2>1. Present(c) /\ initiating' = initiating /\ issued' = issued /\ EndCall(c, calls[c], {})
    BY <1>5 DEF AcceptBusy, MayAnswer
  <2> QED BY <1>t, <2>1, CallFields, EndCallInv
<1>6. ASSUME NEW u \in User, NEW c \in CallId, Accept(u, c)
      PROVE  Rest'
  <2> DEFINE joined   == calls[c].participants \cup {u}
             answered == calls[c].status = "ringing" /\ Cardinality(joined) >= 2
             call == [calls[c] EXCEPT !.participants = joined,
                                      !.pending = calls[c].pending \ {u},
                                      !.status = IF answered THEN "active" ELSE calls[c].status,
                                      !.answered = calls[c].answered \/ answered]
  <2>1. /\ Present(c) /\ initiating' = initiating /\ issued' = issued
        /\ calls[c].status # "ended"
        /\ ~isCallFull(c)
        /\ calls' = [calls EXCEPT ![c] = call]
        /\ userActiveCall' = [userActiveCall EXCEPT ![u] = c]
    BY <1>6 DEF Accept, MayAnswer, joinCall
  <2>2. calls[c] \in CallState
    BY <1>t, <2>1, CallFields
  <2>3. /\ call \in CallState
        /\ call.participants = joined /\ call.pending = calls[c].pending \ {u}
        /\ call.status = IF answered THEN "active" ELSE calls[c].status
        /\ call.answered = (calls[c].answered \/ answered)
    BY <2>2 DEF CallState, CallStatus
  <2>4. IsFiniteSet(calls[c].participants) /\ WellShaped(calls[c])
    BY <2>1 DEF CallsInv, FiniteCalls, CallShape
  <2>5. /\ IsFiniteSet(joined)
        /\ Cardinality(joined) \in Nat
        /\ Cardinality(joined) <= MaxParticipants
        /\ Cardinality(joined) >= 1
    <3>1. /\ Cardinality(calls[c].participants) \in Nat
          /\ Cardinality(calls[c].participants) < MaxParticipants
      BY <2>1, <2>4, FS_CardinalityType, CallConstants DEF isCallFull
    <3>2. IsFiniteSet(joined) /\ Cardinality(joined) \in Nat
      BY <2>4, Participants, FS_CardinalityType
    <3>3. Cardinality(joined) <= MaxParticipants
      BY <2>4, <3>1, Participants, CallConstants
    <3>4. Cardinality(joined) # 0
      BY <3>2, FS_EmptySet
    <3> QED BY <3>2, <3>3, <3>4
  <2>6. WellShaped(call)
    <3>1. call.participants \cap call.pending = {}
      BY <2>3, <2>4 DEF WellShaped
    <3>2. Cardinality(call.participants) <= MaxParticipants
      BY <2>3, <2>5
    <3>3. call.status = "ringing" => Cardinality(call.participants) = 1 /\ ~call.answered
      <4> SUFFICES ASSUME call.status = "ringing"
                   PROVE  Cardinality(call.participants) = 1 /\ ~call.answered
        OBVIOUS
      <4>1. ~answered /\ calls[c].status = "ringing"
        BY <2>3
      <4>2. Cardinality(joined) = 1
        BY <2>5, <4>1
      <4>3. ~calls[c].answered
        BY <2>4, <4>1 DEF WellShaped
      <4> QED BY <2>3, <4>1, <4>2, <4>3
    <3>4. call.status = "active" => call.participants # {} /\ call.answered
      BY <2>3, <2>4 DEF WellShaped
    <3> QED BY <3>1, <3>2, <3>3, <3>4 DEF WellShaped
  <2>7. call.status # "ended" /\ u \in call.participants
        /\ calls[c].participants \subseteq call.participants
    BY <2>1, <2>3
  <2>8. userActiveCall' \in [User -> CallId \cup {NoCall}]
    BY <1>t DEF TypeOK
  <2>9. \A v \in User : userActiveCall'[v] # NoCall =>
          IF userActiveCall'[v] = c
          THEN call.status # "ended" /\ v \in call.participants
          ELSE userActiveCall'[v] = userActiveCall[v]
    <3> HIDE DEF call
    <3> QED BY <1>t, <2>1, <2>7 DEF TypeOK, CallsInv, BusyOnlyInLiveCall
  <2>10. IsFiniteSet(call.participants)
    BY <2>3, <2>5
  <2> HIDE DEF call
  <2> QED BY <2>1, <2>3, <2>6, <2>8, <2>9, <2>10, ReplaceInv
<1>7. ASSUME NEW u \in User, NEW c \in CallId, Leave(u, c)
      PROVE  Rest'
  <2> DEFINE call == [calls[c] EXCEPT !.participants = @ \ {u}]
  <2>1. Present(c) /\ initiating' = initiating /\ issued' = issued
    BY <1>7 DEF Leave, MayHangUp
  <2>2. calls[c] \in CallState
    BY <1>t, <2>1, CallFields
  <2>3. /\ call \in CallState
        /\ call.status = calls[c].status /\ call.answered = calls[c].answered
        /\ call.participants = calls[c].participants \ {u}
        /\ call.pending = calls[c].pending
    BY <2>2 DEF CallState
  <2>4. CASE EndCall(c, call, {u})
    BY <2>1, <2>3, <2>4, EndCallInv
  <2>5. CASE /\ call.participants # {}
             /\ calls' = [calls EXCEPT ![c] = call] /\ userActiveCall' = Released({u})
    <3>1. IsFiniteSet(calls[c].participants) /\ WellShaped(calls[c])
      BY <2>1 DEF CallsInv, FiniteCalls, CallShape
    <3>2. /\ IsFiniteSet(call.participants)
          /\ Cardinality(call.participants) \in Nat
          /\ Cardinality(calls[c].participants) \in Nat
          /\ Cardinality(call.participants) <= Cardinality(calls[c].participants)
          /\ Cardinality(call.participants) # 0
      BY <2>3, <2>5, <3>1, Participants, FS_CardinalityType, FS_EmptySet, FS_Subset
    <3>3. WellShaped(call)
      BY <2>3, <2>5, <3>1, <3>2, CallConstants DEF WellShaped
    <3>4. \A v \in User : userActiveCall'[v] # NoCall =>
            /\ userActiveCall'[v] = userActiveCall[v] /\ v # u
            /\ userActiveCall[v] = c => calls[c].status # "ended" /\ v \in calls[c].participants
      BY <2>5 DEF Released, CallsInv, BusyOnlyInLiveCall, Live
    <3>5. userActiveCall' \in [User -> CallId \cup {NoCall}]
      BY <1>t DEF TypeOK
    <3> HIDE DEF call
    <3>6. \A v \in User : userActiveCall'[v] # NoCall =>
            IF userActiveCall'[v] = c
            THEN call.status # "ended" /\ v \in call.participants
            ELSE userActiveCall'[v] = userActiveCall[v]
      BY <2>3, <3>4
    <3> QED BY <2>1, <2>3, <2>5, <3>2, <3>3, <3>5, <3>6, ReplaceInv
  <2> QED BY <1>7, <2>4, <2>5 DEF Leave
<1>8. ASSUME NEW u \in User, NEW c \in CallId, End(u, c)
      PROVE  Rest'
  <2>1. Present(c) /\ initiating' = initiating /\ issued' = issued /\ EndCall(c, calls[c], {})
    BY <1>8 DEF End, MayHangUp
  <2> QED BY <1>t, <2>1, CallFields, EndCallInv
<1>9. ASSUME NEW c \in CallId, Forget(c)
      PROVE  Rest'
  <2>1. /\ calls'[c] = NoCall /\ \A d \in CallId \ {c} : calls'[d] = calls[d]
        /\ userActiveCall' = userActiveCall /\ initiating' = initiating /\ issued' = issued
    BY <1>9, <1>t DEF Forget, TypeOK
  <2>2. \A u \in User : userActiveCall[u] # c
    BY <1>9, NoCallIsNoState, CallConstants
       DEF Forget, CallsInv, BusyOnlyInLiveCall, Live
  <2>3. FreshIds'
    BY <1>t, <2>1 DEF CallsInv, FreshIds, Present, TypeOK
  <2>4. BusyOnlyInLiveCall'
    BY <1>t, <2>1, <2>2 DEF CallsInv, BusyOnlyInLiveCall, Live, Present, TypeOK
  <2> QED BY <2>1, <2>3, <2>4 DEF CallsInv, FiniteCalls, CallShape, Present, WellShaped
<1>10. CASE Restart
  BY <1>10 DEF Restart, FreshIds, FiniteCalls, CallShape, BusyOnlyInLiveCall, Present
<1>11. CASE UNCHANGED vars
  BY <1>11 DEF vars, CallsInv, FreshIds, FiniteCalls, CallShape,
               BusyOnlyInLiveCall, Present, Live, WellShaped
<1> QED BY <1>1, <1>2, <1>3, <1>4, <1>5, <1>6, <1>7, <1>8, <1>9, <1>10, <1>11 DEF Next

\* Every call has the shape its handlers rely on, whatever the number of users.
THEOREM CallsShaped == Spec => []CallShape
BY CallsInvInit, CallsInvStep, PTL DEF Spec, CallsInv

\* The busy map points to live calls that have the user in them, and only there.
THEOREM BusyMapSound == Spec => []BusyOnlyInLiveCall
BY CallsInvInit, CallsInvStep, PTL DEF Spec, CallsInv

------------------------------------------------------------------------------
(* An ended call stays ended *)

LEMMA StaysEndedStep == CallsInv /\ [Next]_vars => [StaysEnded]_vars
<1> SUFFICES ASSUME CallsInv, Next,
                    NEW d \in CallId, Present(d), calls[d].status = "ended"
             PROVE  \/ calls'[d] = NoCall
                    \/ /\ calls'[d].status = "ended"
                       /\ calls'[d].participants \subseteq calls[d].participants
                       /\ calls'[d].pending \subseteq calls[d].pending
  BY DEF StaysEnded
<1>t. TypeOK
  BY DEF CallsInv
<1>d. calls[d] \in CallState
  BY <1>t, CallFields
<1>same. CASE calls'[d] = calls[d]
  BY <1>same
<1>1. ASSUME NEW u \in User, NEW c \in CallId, NEW g \in Conversation, Initiate(u, c, g)
      PROVE  calls'[d] = calls[d]
  BY <1>1 DEF Initiate
<1>2. ASSUME NEW r \in initiating, NEW invited \in SUBSET User, CreateCall(r, invited)
      PROVE  calls'[d] = calls[d]
  <2>1. r.call # d
    BY DEF CallsInv, FreshIds, Present
  <2> QED BY <1>2, <1>t, <2>1 DEF CreateCall, TypeOK
<1>3. ASSUME NEW r \in initiating, InitiateFails(r)
      PROVE  calls'[d] = calls[d]
  BY <1>3 DEF InitiateFails
<1>4. ASSUME NEW u \in User, NEW c \in CallId, Decline(u, c)
      PROVE  /\ calls'[d].status = "ended"
             /\ calls'[d].participants \subseteq calls[d].participants
             /\ calls'[d].pending \subseteq calls[d].pending
  BY <1>4, <1>t, <1>d DEF Decline, EndCall, TypeOK, CallState
<1>5. ASSUME NEW u \in User, NEW c \in CallId, AcceptBusy(u, c)
      PROVE  /\ calls'[d].status = "ended"
             /\ calls'[d].participants \subseteq calls[d].participants
             /\ calls'[d].pending \subseteq calls[d].pending
  BY <1>5, <1>t, <1>d DEF AcceptBusy, EndCall, TypeOK, CallState
<1>6. ASSUME NEW u \in User, NEW c \in CallId, Accept(u, c)
      PROVE  calls'[d] = calls[d]
  BY <1>6, <1>t DEF Accept, joinCall, TypeOK
<1>7. ASSUME NEW u \in User, NEW c \in CallId, Leave(u, c)
      PROVE  /\ calls'[d].status = "ended"
             /\ calls'[d].participants \subseteq calls[d].participants
             /\ calls'[d].pending \subseteq calls[d].pending
  BY <1>7, <1>t, <1>d DEF Leave, EndCall, TypeOK, CallState
<1>8. ASSUME NEW u \in User, NEW c \in CallId, End(u, c)
      PROVE  /\ calls'[d].status = "ended"
             /\ calls'[d].participants \subseteq calls[d].participants
             /\ calls'[d].pending \subseteq calls[d].pending
  BY <1>8, <1>t, <1>d DEF End, EndCall, TypeOK, CallState
<1>9. ASSUME NEW c \in CallId, Forget(c)
      PROVE  calls'[d] = NoCall \/ calls'[d] = calls[d]
  BY <1>9, <1>t DEF Forget, TypeOK
<1>10. CASE Restart
  BY <1>10 DEF Restart
<1> QED BY <1>same, <1>1, <1>2, <1>3, <1>4, <1>5, <1>6, <1>7, <1>8, <1>9, <1>10 DEF Next

\* No handler revives an ended call or lets somebody into it.
THEOREM EndedCallsStayEnded == Spec => EndedIsFinal
BY CallsInvInit, CallsInvStep, StaysEndedStep, PTL DEF Spec, EndedIsFinal

------------------------------------------------------------------------------
(* The messages of a call *)

\* A call has no messages before it has ended.
Awaited(c) == \E r \in initiating : r.call = c
SilentUntilEnded ==
  \A c \in CallId : Live(c) \/ Awaited(c) \/ c \notin issued => callMessages[c] = <<>>

\* A step that writes a message of c: c is ended after it.
Writes(c, status) ==
  /\ Present(c) /\ persistCallMessage(c, status)
  /\ status = "answered" => calls[c].status = "active"
  /\ calls'[c].status = "ended"
  /\ \A d \in CallId \ {c} : calls'[d] = calls[d]
  /\ UNCHANGED <<initiating, issued>>

LEMMA WritingSteps ==
  ASSUME CallsInv, NEW u \in User, NEW c \in CallId,
         AcceptBusy(u, c) \/ Leave(u, c) \/ End(u, c)
  PROVE  \/ \E status \in CallEndStatus : Writes(c, status)
         \/ /\ callMessages' = callMessages /\ UNCHANGED <<initiating, issued>>
            /\ \A d \in CallId : Live(d)' => Live(d)
<1>t. TypeOK
  BY DEF CallsInv
<1>0. Present(c) /\ calls[c] \in CallState
  BY <1>t, CallFields DEF AcceptBusy, Leave, End, MayAnswer, MayHangUp
<1>s. EndStatus(c) \in {"answered", "cancelled"} /\ (EndStatus(c) = "answered" => calls[c].status = "active")
  BY DEF EndStatus
<1>1. CASE AcceptBusy(u, c)
  <2>1. /\ calls'[c].status = "ended" /\ \A d \in CallId \ {c} : calls'[d] = calls[d]
    BY <1>1, <1>0, <1>t DEF AcceptBusy, EndCall, TypeOK, CallState
  <2> QED  BY <1>0, <1>1, <1>s, <2>1 DEF AcceptBusy, Writes, CallEndStatus
<1>2. CASE End(u, c)
  <2>1. /\ calls'[c].status = "ended" /\ \A d \in CallId \ {c} : calls'[d] = calls[d]
    BY <1>2, <1>0, <1>t DEF End, EndCall, TypeOK, CallState
  <2> QED  BY <1>0, <1>2, <1>s, <2>1 DEF End, Writes, CallEndStatus
<1>3. CASE Leave(u, c)
  <2> DEFINE call == [calls[c] EXCEPT !.participants = @ \ {u}]
  <2>1. call.status = calls[c].status
    BY <1>0 DEF CallState
  <2>2. CASE call.participants = {}
    <3>1. /\ calls'[c].status = "ended" /\ \A d \in CallId \ {c} : calls'[d] = calls[d]
      BY <1>3, <1>0, <1>t, <2>2 DEF Leave, EndCall, TypeOK, CallState
    <3>2. persistCallMessage(c, EndStatus(c)) /\ UNCHANGED <<initiating, issued>>
      BY <1>3, <2>2 DEF Leave
    <3> QED  BY <1>0, <1>s, <3>1, <3>2 DEF Writes, CallEndStatus
  <2>3. CASE call.participants # {}
    <3>1. calls' = [calls EXCEPT ![c] = call] /\ UNCHANGED <<initiating, issued, callMessages>>
      BY <1>3, <2>3 DEF Leave
    <3> HIDE DEF call
    <3>2. \A d \in CallId : Live(d)' => Live(d)
      BY <1>0, <1>t, <2>1, <3>1 DEF Live, Present, TypeOK
    <3> QED  BY <3>1, <3>2
  <2> QED  BY <2>2, <2>3
<1> QED  BY <1>1, <1>2, <1>3

LEMMA SilentStep == CallsInv /\ SilentUntilEnded /\ [Next]_vars => SilentUntilEnded'
<1> SUFFICES ASSUME CallsInv, SilentUntilEnded, [Next]_vars PROVE SilentUntilEnded'
  OBVIOUS
<1>t. TypeOK
  BY DEF CallsInv
<1>1. ASSUME NEW u \in User, NEW c \in CallId, NEW g \in Conversation, Initiate(u, c, g)
      PROVE  SilentUntilEnded'
  <2>1. issued' = issued \cup {c} /\ c \notin issued /\ UNCHANGED <<calls, callMessages>>
    BY <1>1 DEF Initiate
  <2>2. \A d \in CallId : Awaited(d)' => Awaited(d) \/ d = c
    BY <1>1 DEF Initiate, Awaited
  <2> QED  BY <2>1, <2>2 DEF SilentUntilEnded, Live, Present
<1>2. ASSUME NEW r \in initiating, NEW invited \in SUBSET User, CreateCall(r, invited)
      PROVE  SilentUntilEnded'
  <2>1. initiating' \subseteq initiating /\ UNCHANGED <<issued, callMessages>>
        /\ \A d \in CallId \ {r.call} : calls'[d] = calls[d]
    BY <1>2, <1>t DEF CreateCall, TypeOK
  <2>2. Awaited(r.call)
    BY DEF Awaited
  <2>3. \A d \in CallId : (Awaited(d)' => Awaited(d)) /\ (d # r.call => (Live(d)' => Live(d)))
    BY <2>1 DEF Awaited, Live, Present
  <2> QED  BY <2>1, <2>2, <2>3 DEF SilentUntilEnded
<1>3. ASSUME NEW r \in initiating, InitiateFails(r)
      PROVE  SilentUntilEnded'
  BY <1>3 DEF InitiateFails, SilentUntilEnded, Live, Present, Awaited
<1>4. ASSUME NEW u \in User, NEW c \in CallId, Decline(u, c)
      PROVE  SilentUntilEnded'
  <2> DEFINE call == [calls[c] EXCEPT !.pending = @ \ {u}]
  <2>1. Present(c) /\ calls[c] \in CallState
    BY <1>4, <1>t, CallFields DEF Decline, MayAnswer
  <2>2. call.status = calls[c].status /\ [call EXCEPT !.status = "ended"].status = "ended"
    BY <2>1 DEF CallState
  <2>3. \/ calls' = [calls EXCEPT ![c] = call]
        \/ calls' = [calls EXCEPT ![c] = [call EXCEPT !.status = "ended"]]
    BY <1>4 DEF Decline, EndCall
  <2> HIDE DEF call
  <2>4. \A d \in CallId : Live(d)' => Live(d)
    BY <1>t, <2>1, <2>2, <2>3 DEF Live, Present, TypeOK
  <2>5. UNCHANGED <<initiating, issued, callMessages>>
    BY <1>4 DEF Decline
  <2> QED  BY <2>4, <2>5 DEF SilentUntilEnded, Awaited
<1>5. ASSUME NEW u \in User, NEW c \in CallId, Accept(u, c)
      PROVE  SilentUntilEnded'
  <2>1. Live(c) /\ UNCHANGED <<initiating, issued, callMessages>>
        /\ \A d \in CallId \ {c} : calls'[d] = calls[d]
    BY <1>5, <1>t DEF Accept, joinCall, MayAnswer, Live, TypeOK
  <2> QED  BY <2>1 DEF SilentUntilEnded, Awaited, Live, Present
<1>6. ASSUME NEW u \in User, NEW c \in CallId, AcceptBusy(u, c) \/ Leave(u, c) \/ End(u, c)
      PROVE  SilentUntilEnded'
  <2>1. ASSUME NEW status \in CallEndStatus, Writes(c, status)
        PROVE  SilentUntilEnded'
    <3>1. ~Live(c)' /\ ~Awaited(c)' /\ c \in issued'
      BY <2>1 DEF Writes, Live, Awaited, CallsInv, FreshIds, Present
    <3>2. \A d \in CallId \ {c} : callMessages'[d] = callMessages[d] /\ calls'[d] = calls[d]
      BY <1>t, <2>1 DEF Writes, persistCallMessage, TypeOK
    <3> QED  BY <2>1, <3>1, <3>2 DEF Writes, SilentUntilEnded, Live, Present, Awaited
  <2> QED  BY <1>6, <2>1, WritingSteps DEF SilentUntilEnded, Awaited
<1>7. ASSUME NEW c \in CallId, Forget(c)
      PROVE  SilentUntilEnded'
  <2>1. UNCHANGED <<initiating, issued, callMessages>> /\ \A d \in CallId : Live(d)' => Live(d)
    BY <1>7, <1>t DEF Forget, Live, Present, TypeOK
  <2> QED  BY <2>1 DEF SilentUntilEnded, Awaited
<1>8. CASE Restart
  BY <1>8 DEF Restart, SilentUntilEnded, Awaited, Live, Present
<1>9. CASE UNCHANGED vars
  BY <1>9 DEF vars, SilentUntilEnded, Awaited, Live, Present
<1> QED BY <1>1, <1>2, <1>3, <1>4, <1>5, <1>6, <1>7, <1>8, <1>9 DEF Next

AnsweredAtHangUp(c) ==
  \A i \in DOMAIN callMessages'[c] :
    (i \notin DOMAIN callMessages[c] /\ callMessages'[c][i] = "answered") =>
      /\ i = 1
      /\ calls[c] # NoCall /\ calls[c].status = "active"
      /\ calls'[c].status = "ended"

LEMMA AnsweredStep ==
  ASSUME CallsInv, SilentUntilEnded, Next, NEW c \in CallId
  PROVE  AnsweredAtHangUp(c)
<1>t. TypeOK
  BY DEF CallsInv
<1>1. CASE callMessages'[c] = callMessages[c]
  BY <1>1 DEF AnsweredAtHangUp
<1>2. ASSUME NEW status \in CallEndStatus, Writes(c, status)
      PROVE  AnsweredAtHangUp(c)
  <2> DEFINE log == callMessages[c]
  <2>1. log \in CallLog /\ log \in Seq(CallEndStatus) /\ callMessages'[c] = Logged(log, status)
    BY <1>t, <1>2 DEF Writes, persistCallMessage, TypeOK, CallLog
  <2>2. SUFFICES ASSUME NEW i \in DOMAIN callMessages'[c], i \notin DOMAIN log,
                        callMessages'[c][i] = "answered"
                 PROVE  i = 1 /\ calls[c] # NoCall /\ calls[c].status = "active"
                        /\ calls'[c].status = "ended"
    BY DEF AnsweredAtHangUp
  <2>3. callMessages'[c] = Append(log, status)
    BY <2>1, <2>2 DEF Logged
  <2>4. i = Len(log) + 1 /\ callMessages'[c][i] = status /\ Len(log) \in Nat
    BY <2>1, <2>2, <2>3, AppendProperties, LenProperties
  <2>5. Live(c) /\ calls[c].status = "active"
    BY <1>2, <2>2, <2>4 DEF Writes, Live
  <2>6. log = <<>>
    BY <2>5 DEF SilentUntilEnded
  <2>7. Len(log) = 0
    BY <2>6, EmptySeq
  <2> QED  BY <1>2, <2>4, <2>5, <2>7 DEF Writes, Present
<1>3. ASSUME NEW d \in CallId, NEW status \in CallEndStatus, Writes(d, status), d # c
      PROVE  callMessages'[c] = callMessages[c]
  BY <1>3, <1>t DEF Writes, persistCallMessage, TypeOK
<1>4. ASSUME NEW u \in User, NEW d \in CallId, AcceptBusy(u, d) \/ Leave(u, d) \/ End(u, d)
      PROVE  AnsweredAtHangUp(c)
  BY <1>1, <1>2, <1>3, <1>4, WritingSteps
<1>5. ASSUME NEW u \in User, NEW d \in CallId,
             (\E g \in Conversation : Initiate(u, d, g)) \/ Decline(u, d) \/ Accept(u, d)
      PROVE  callMessages' = callMessages
  BY <1>5 DEF Initiate, Decline, Accept
<1>6. ASSUME NEW r \in initiating, (\E invited \in SUBSET User : CreateCall(r, invited)) \/ InitiateFails(r)
      PROVE  callMessages' = callMessages
  BY <1>6 DEF CreateCall, InitiateFails
<1>7. ASSUME NEW d \in CallId, Forget(d)
      PROVE  callMessages' = callMessages
  BY <1>7 DEF Forget
<1>8. CASE Restart
  BY <1>1, <1>8 DEF Restart
<1> QED BY <1>1, <1>4, <1>5, <1>6, <1>7, <1>8 DEF Next

\* A call is reported as answered once, by the hang-up that ends it, for any
\* number of users who hang up as often as they like before it is forgotten.
THEOREM AnsweredOncePerCall == Spec => AnsweredOnlyAtHangUp
<1>1. Init => SilentUntilEnded
  BY DEF Init, SilentUntilEnded
<1>2. CallsInv /\ SilentUntilEnded /\ [Next]_vars =>
        [\A c \in CallId : \A i \in DOMAIN callMessages'[c] :
           (i \notin DOMAIN callMessages[c] /\ callMessages'[c][i] = "answered") =>
             /\ i = 1
             /\ calls[c] # NoCall /\ calls[c].status = "active"
             /\ calls'[c].status = "ended"]_vars
  BY AnsweredStep DEF AnsweredAtHangUp
<1> QED
  BY <1>1, <1>2, CallsInvInit, CallsInvStep, SilentStep, PTL DEF Spec, AnsweredOnlyAtHangUp
=============================================================================
