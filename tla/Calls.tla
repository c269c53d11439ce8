-------------------------------- MODULE Calls --------------------------------
(****************************************************************************)
(* The voice / video call server of the API: CallService, which keeps the    *)
(* calls in the memory of the process, and the socket handlers of            *)
(* ChatGateway that drive it.                                                *)
(*                                                                           *)
(* Node runs a handler without interruption up to its next `await', so every *)
(* synchronous handler is one action.  onCallInitiate awaits the membership  *)
(* queries between its busy check and createCall, so it is two actions, and  *)
(* any other handler may run between them.                                   *)
(*                                                                           *)
(* Left out: the SDP / ICE relays (they change no state), display names, the *)
(* call type and the push notification.                                      *)
(****************************************************************************)
EXTENDS Naturals, FiniteSets, Sequences

CONSTANTS
  User,             \* authenticated users
  Conversation,
  MembersOf,        \* the active members of each conversation
  CallId,           \* ids the clients draw at random; each is used once
  MaxParticipants,  \* GROUP_CALL_MAX_PARTICIPANTS
  NoCall            \* an absent entry of one of the maps

ASSUME CallConstants ==
  /\ MembersOf \in [Conversation -> SUBSET User]
  /\ MaxParticipants \in Nat /\ MaxParticipants >= 2
  /\ NoCall \notin CallId

VARIABLES
  calls,           \* CallService.calls
  userActiveCall,  \* CallService.userActiveCall
  initiating,      \* the onCallInitiate handlers suspended at their awaits
  issued,          \* the call ids clients have used so far
  rung,            \* per user, the calls call:incoming or the push announced
  callMessages     \* per call, the statuses handed to createCallMessage

vars == <<calls, userActiveCall, initiating, issued, rung, callMessages>>

CallStatus    == {"ringing", "active", "ended"}
CallEndStatus == {"answered", "missed", "cancelled", "busy"}

CallState ==
  [conversation : Conversation, initiator : User,
   participants : SUBSET User, pending : SUBSET User,
   status : CallStatus,
   answered : BOOLEAN]     \* activeAt is set

ASSUME NoCallIsNoState == NoCall \notin CallState

\* A call's messages, of which the model keeps the first two.
MaxLogged  == 2
CallLog    == {log \in Seq(CallEndStatus) : Len(log) <= MaxLogged}
Logged(log, status) == IF Len(log) < MaxLogged THEN Append(log, status) ELSE log

TypeOK ==
  /\ calls \in [CallId -> CallState \cup {NoCall}]
  /\ userActiveCall \in [User -> CallId \cup {NoCall}]
  /\ initiating \subseteq [call : CallId, user : User, conversation : Conversation]
  /\ issued \subseteq CallId
  /\ rung \in [User -> SUBSET CallId]
  /\ callMessages \in [CallId -> CallLog]

Init ==
  /\ calls = [c \in CallId |-> NoCall]
  /\ userActiveCall = [u \in User |-> NoCall]
  /\ initiating = {}
  /\ issued = {}
  /\ rung = [u \in User |-> {}]
  /\ callMessages = [c \in CallId |-> <<>>]

------------------------------------------------------------------------------
(* CallService *)

Present(c) == calls[c] # NoCall
Live(c)    == Present(c) /\ calls[c].status # "ended"

isUserBusy(u) == userActiveCall[u] # NoCall /\ Live(userActiveCall[u])

\* Variant: the capacity test admits one participant too many.
isCallFull_OffByOne(c) == Cardinality(calls[c].participants) > MaxParticipants

isCallFull(c) == Cardinality(calls[c].participants) >= MaxParticipants

\* Variant: the message says in which state the call was.
EndStatus_State(c) == calls[c].status

\* resolveCallEndStatus: an ended call, too, counts as cancelled.
EndStatus(c) == IF calls[c].status = "active" THEN "answered" ELSE "cancelled"

\* The busy map without the entries of the users in S, whatever they point to.
Released(S) == [u \in User |-> IF u \in S THEN NoCall ELSE userActiveCall[u]]

\* Variant: endCall frees the users still ringing but not the participants.
EndCall_KeepsBusy(c, call, freed) ==
  /\ calls' = [calls EXCEPT ![c] = [call EXCEPT !.status = "ended"]]
  /\ userActiveCall' = Released(freed \cup call.pending)

\* endCall on the state `call' has when it is reached: a second end is a no-op,
\* the first one also frees `freed', the users the caller has freed already.
EndCall(c, call, freed) ==
  IF call.status = "ended"
  THEN /\ calls' = [calls EXCEPT ![c] = call]
       /\ userActiveCall' = Released(freed)
  ELSE /\ calls' = [calls EXCEPT ![c] = [call EXCEPT !.status = "ended"]]
       /\ userActiveCall' = Released(freed \cup call.participants \cup call.pending)

joinCall(c, u) ==
  LET call == calls[c]
      joined == call.participants \cup {u}
      answered == call.status = "ringing" /\ Cardinality(joined) >= 2
  IN /\ calls' = [calls EXCEPT ![c] =
          [call EXCEPT !.participants = joined,
                       !.pending = call.pending \ {u},
                       !.status = IF answered THEN "active" ELSE call.status,
                       !.answered = call.answered \/ answered]]
     /\ userActiveCall' = [userActiveCall EXCEPT ![u] = c]

persistCallMessage(c, status) ==
  callMessages' = [callMessages EXCEPT ![c] = Logged(@, status)]

------------------------------------------------------------------------------
(* The handlers.  A client answers a call it was told of, on any of the       *)
(* user's devices, and hangs up a call it was told of or started.            *)

MayAnswer(u, c) == Present(c) /\ c \in rung[u]
MayHangUp(u, c) == Present(c) /\ (c \in rung[u] \/ u = calls[c].initiator)

\* call:initiate up to its first await: only a user who is not busy goes on.
Initiate(u, c, g) ==
  /\ c \notin issued
  /\ u \in MembersOf[g]
  /\ issued' = issued \cup {c}
  /\ initiating' = IF isUserBusy(u) THEN initiating
                   ELSE initiating \cup {[call |-> c, user |-> u, conversation |-> g]}
  /\ UNCHANGED <<calls, userActiveCall, rung, callMessages>>

\* ... after the awaits: createCall, with the members the query returned, which
\* may be fewer than at the start.  Nothing looks at isUserBusy again.
CreateCall(r, invited) ==
  /\ r \in initiating
  /\ invited \subseteq MembersOf[r.conversation] \ {r.user}
  /\ initiating' = initiating \ {r}
  /\ calls' = [calls EXCEPT ![r.call] =
       [conversation |-> r.conversation, initiator |-> r.user,
        participants |-> {r.user}, pending |-> invited,
        status |-> "ringing", answered |-> FALSE]]
  /\ userActiveCall' = [userActiveCall EXCEPT ![r.user] = r.call]
  /\ rung' = [u \in User |-> IF u \in invited THEN rung[u] \cup {r.call} ELSE rung[u]]
  /\ UNCHANGED <<issued, callMessages>>

\* ... or requireActiveMember or the query throws: the client gets an error.
InitiateFails(r) ==
  /\ r \in initiating
  /\ initiating' = initiating \ {r}
  /\ UNCHANGED <<calls, userActiveCall, issued, rung, callMessages>>

\* call:answer, accepted = false: rejectCall.  No message is persisted.
Decline(u, c) ==
  /\ MayAnswer(u, c)
  /\ LET call == [calls[c] EXCEPT !.pending = @ \ {u}]
     IN IF call.pending = {} /\ Cardinality(call.participants) <= 1
        THEN EndCall(c, call, {u})
        ELSE /\ calls' = [calls EXCEPT ![c] = call]
             /\ userActiveCall' = Released({u})
  /\ UNCHANGED <<initiating, issued, rung, callMessages>>

\* call:answer by a user who is busy, if only in this same call.
AcceptBusy(u, c) ==
  /\ MayAnswer(u, c)
  /\ isUserBusy(u)
  /\ EndCall(c, calls[c], {})
  /\ persistCallMessage(c, "busy")
  /\ UNCHANGED <<initiating, issued, rung>>

\* Variant: joinCall does not look at the status of the call.
Accept_Ended(u, c) ==
  /\ MayAnswer(u, c) /\ ~isUserBusy(u) /\ ~isCallFull(c)
  /\ joinCall(c, u)
  /\ UNCHANGED <<initiating, issued, rung, callMessages>>

\* call:answer that joins.
Accept(u, c) ==
  /\ MayAnswer(u, c)
  /\ ~isUserBusy(u)
  /\ ~isCallFull(c)
  /\ calls[c].status # "ended"
  /\ joinCall(c, u)
  /\ UNCHANGED <<initiating, issued, rung, callMessages>>

\* Variant: call:leave writes the call message whoever remains.
Leave_AlwaysLogs(u, c) ==
  /\ MayHangUp(u, c)
  /\ LET call == [calls[c] EXCEPT !.participants = @ \ {u}]
     IN IF call.participants = {} THEN EndCall(c, call, {u})
        ELSE /\ calls' = [calls EXCEPT ![c] = call]
             /\ userActiveCall' = Released({u})
  /\ persistCallMessage(c, EndStatus(c))
  /\ UNCHANGED <<initiating, issued, rung>>

\* call:leave: leaveCall, and a message when nobody remains.
Leave(u, c) ==
  /\ MayHangUp(u, c)
  /\ LET call == [calls[c] EXCEPT !.participants = @ \ {u}]
     IN IF call.participants = {}
        THEN /\ EndCall(c, call, {u})
             /\ persistCallMessage(c, EndStatus(c))
        ELSE /\ calls' = [calls EXCEPT ![c] = call]
             /\ userActiveCall' = Released({u})
             /\ UNCHANGED callMessages
  /\ UNCHANGED <<initiating, issued, rung>>

\* call:end: the whole call ends, and a message is written every time.
End(u, c) ==
  /\ MayHangUp(u, c)
  /\ EndCall(c, calls[c], {})
  /\ persistCallMessage(c, EndStatus(c))
  /\ UNCHANGED <<initiating, issued, rung>>

\* The timer endCall has set fires after 60 s.
Forget(c) ==
  /\ Present(c) /\ calls[c].status = "ended"
  /\ calls' = [calls EXCEPT ![c] = NoCall]
  /\ UNCHANGED <<userActiveCall, initiating, issued, rung, callMessages>>

\* The API process restarts: both maps and the suspended handlers are gone.
Restart ==
  /\ calls' = [c \in CallId |-> NoCall]
  /\ userActiveCall' = [u \in User |-> NoCall]
  /\ initiating' = {}
  /\ UNCHANGED <<issued, rung, callMessages>>

Next ==
  \/ \E u \in User, c \in CallId, g \in Conversation : Initiate(u, c, g)
  \/ \E r \in initiating : \E invited \in SUBSET User : CreateCall(r, invited)
  \/ \E r \in initiating : InitiateFails(r)
  \/ \E u \in User, c \in CallId : Decline(u, c)
  \/ \E u \in User, c \in CallId : AcceptBusy(u, c)
  \/ \E u \in User, c \in CallId : Accept(u, c)
  \/ \E u \in User, c \in CallId : Leave(u, c)
  \/ \E u \in User, c \in CallId : End(u, c)
  \/ \E c \in CallId : Forget(c)
  \/ Restart

Spec == Init /\ [][Next]_vars

------------------------------------------------------------------------------
(* Properties *)

\* The participants, the invitations and the status of a call fit together: a
\* call rings for exactly one participant, a live call always has somebody in
\* it and never more than the capacity, nobody is both in it and still ringing,
\* and a call that is active has been answered (createCall, joinCall, leaveCall
\* and rejectCall each change some of these and rely on the others).
WellShaped(call) ==
    /\ call.participants \cap call.pending = {}
    /\ Cardinality(call.participants) <= MaxParticipants
    /\ call.status = "ringing" => Cardinality(call.participants) = 1 /\ ~call.answered
    /\ call.status = "active" => call.participants # {} /\ call.answered
CallShape == \A c \in CallId : Present(c) => WellShaped(calls[c])

\* The busy map never lies about a busy user: an entry points to a call that is
\* live and has the user among its participants, whatever order calls start,
\* are answered, declined, left and ended in.  So nobody is refused a call for
\* one that is over, and the status test in isUserBusy never decides.
BusyOnlyInLiveCall ==
  \A u \in User : userActiveCall[u] # NoCall =>
    /\ Live(userActiveCall[u])
    /\ u \in calls[userActiveCall[u]].participants

\* An ended call never comes back: it is not live again, nobody joins it and
\* nobody new is invited, although its entry stays for a minute and handlers
\* that do not test the status still work on it.
StaysEnded ==
  \A c \in CallId : (Present(c) /\ calls[c].status = "ended") =>
    \/ calls'[c] = NoCall
    \/ /\ calls'[c].status = "ended"
       /\ calls'[c].participants \subseteq calls[c].participants
       /\ calls'[c].pending \subseteq calls[c].pending
EndedIsFinal == [][StaysEnded]_vars

\* "answered" is written at most once per call, by the very step that ends an
\* active call, and before any other message of the call: the messages written
\* later for the same call, which a second hang-up causes, never say answered.
AnsweredOnlyAtHangUp ==
  [][\A c \in CallId : \A i \in DOMAIN callMessages'[c] :
       (i \notin DOMAIN callMessages[c] /\ callMessages'[c][i] = "answered") =>
         /\ i = 1
         /\ calls[c] # NoCall /\ calls[c].status = "active"
         /\ calls'[c].status = "ended"]_vars

\* What the comment on createCallMessage says: every call that has ended has
\* its message.  Decline ends a call and writes none.
EveryEndedCallLogged ==
  \A c \in CallId :
    Present(c) /\ calls[c].status = "ended" => callMessages[c] # <<>>
==============================================================================
