-------------------------- MODULE MessageSendProofs --------------------------
(****************************************************************************)
(* Proofs about MessageSend, for any requests, call messages, conversations, *)
(* keys, actions, limits and windows.                                        *)
(****************************************************************************)
EXTENDS MessageSend, FiniteSetTheorems, TLAPS

------------------------------------------------------------------------------
(* The inductive invariant *)

\* The row of r is in the table and its transaction is open.
Inserted(r) == pc[r] \in {"bind", "last"} \/ (pc[r] = "commit" /\ result[r] = r)

\* Which rows there are, and which of them are committed.
RowsInv ==
  /\ \A r \in Request : r \in messages \ committed <=> Inserted(r)
  /\ \A r \in committed \cap Request : pc[r] \in {"emit", "done"}
  /\ \A m \in CallMessage : pc[m] \in {"last", "emit"} => m \in committed
  /\ \A c \in Conversation : lastMessage[c] \in committed \cup {None}

\* There is one row for each key, committed or not.
KeyInv == \A r, s \in messages \cap Request : SameKey(r, s) => r = s

\* What a request has found or created, and what it has been answered.
AnswerInv ==
  \A r \in Request :
    /\ pc[r] # "done" => answer[r] = None
    /\ pc[r] \in {"bind", "last"} => result[r] = r
    /\ pc[r] = "commit" => result[r] = r \/ result[r] \in Existing(r)
    /\ pc[r] = "emit" => result[r] \in Existing(r)
    /\ answer[r] \in Request => answer[r] \in Existing(r)

EmittedInv == \A e \in emitted : e[1] = e[2] /\ e[2] \in committed

\* The requests that have taken a turn at the limiter's row l.
Turns(l) == {r \in Request : (pc[r] = "emit" \/ answer[r] \in Request) /\ LimitRowOf(r) = l}

Admitted == {"existing", "attachment", "create", "insert", "bind", "last", "commit"}

LimitInv ==
  /\ \A r \in Request : pc[r] \in Admitted =>
       rowLock[LimitRowOf(r)] = r /\ count[LimitRowOf(r)] < Limit[input[r].action]
  /\ \A l \in LimitRow : IsFiniteSet(Turns(l)) /\ Earlier(l) + Cardinality(Turns(l)) <= count[l]

\* No stamp is later than the clock, and the last message of a conversation was
\* committed after every other one was stamped.
StampInv ==
  /\ \A r \in Request : createdAt[r] <= stamp
  /\ LastNotOvertaken

IInv ==
  TypeOK /\ RowsInv /\ KeyInv /\ AnswerInv /\ EmittedInv /\ LimitInv /\ StampInv

------------------------------------------------------------------------------
(* Facts about the database *)

LEMMA Inputs ==
  /\ \A r \in Request : /\ input[r] \in Input /\ input[r].conversation \in Conversation
                        /\ r \in Message /\ r \notin CallMessage
                        /\ r \notin {None, "refused", "error"}
  /\ \A m \in CallMessage : /\ callIn[m] \in Conversation /\ m \in Message
                            /\ m \notin Request /\ m # None
  /\ None \notin Message /\ {"refused", "error"} \cap Request = {}
BY SendConstants DEF Input, Message

LEMMA LimitRowType ==
  ASSUME TypeOK, NEW r \in Request
  PROVE  LimitRowOf(r) \in LimitRow
BY Inputs DEF TypeOK, LimitRowOf, LimitRow, Input

\* The number of a window is no larger than that of the tick.
LEMMA WindowType ==
  ASSUME TypeOK, NEW r \in Request
  PROVE  tick \div WindowLength[input[r].action] \in 0..Ticks - 1
<1> DEFINE w == WindowLength[input[r].action]
<1>1. w \in Nat \ {0} /\ tick \in 0..Ticks - 1 /\ Ticks \in Nat
  BY Inputs, SendConstants DEF TypeOK, Input
<1> HIDE DEF w
<1>2. tick \div w \in 0..tick
  BY <1>1
<1> QED  BY <1>1, <1>2 DEF w

\* The action of a limiter's row, and its limit.
LEMMA LimitOf ==
  /\ \A r \in Request : LimitRowOf(r)[3] = input[r].action /\ Limit[input[r].action] \in Nat
  /\ \A l \in LimitRow : Limit[l[3]] \in Nat /\ Earlier(l) \in Nat /\ Earlier(l) <= Limit[l[3]]
BY Inputs, SendConstants DEF LimitRowOf, LimitRow, Earlier, Input

LEMMA KeysAgree ==
  ASSUME NEW q, NEW r, NEW s
  PROVE  /\ SameKey(r, r)
         /\ SameKey(r, s) => SameKey(s, r)
         /\ SameKey(q, r) /\ SameKey(r, s) => SameKey(q, s)
BY DEF SameKey

\* A request fails before it commits.
Unfinished == {"idle", "limit", "existing", "attachment", "create", "insert", "bind", "last"}

Fails(r) == pc[r] \in Unfinished /\ (Fail(r, "refused") \/ Fail(r, "error"))

LEMMA WaitsFor_Steps ==
  ASSUME NEW r, WaitsFor(r) # {}
  PROVE  pc[r] \in {"limit", "insert", "bind", "last"}
BY DEF WaitsFor, RowNeeded

LEMMA FailSteps ==
  ASSUME NEW r \in Request,
         Refuse(r) \/ TooMany(r) \/ CreateConflict(r) \/ AbortVictim(r)
  PROVE  Fails(r)
BY WaitsFor_Steps DEF Refuse, TooMany, CreateConflict, AbortVictim, Fails, Unfinished

LEMMA FindAttachmentFails ==
  ASSUME NEW r \in Request, FindAttachment(r), bound[input[r].attachment] # None
  PROVE  Fails(r)
BY DEF FindAttachment, Fails, Unfinished

------------------------------------------------------------------------------
(* Each step keeps the invariant *)

LEMMA FailedStep ==
  ASSUME IInv, NEW r \in Request, Fails(r)
  PROVE  IInv'
<1>1. /\ pc[r] \in Unfinished
      /\ pc' = [pc EXCEPT ![r] = "done"]
      /\ messages' = messages \ {r}
      /\ ReleaseLocks(r)
      /\ UNCHANGED <<committed, lastMessage, bound, count, windowOf, result, tick, stamps, emitted>>
  BY DEF Fails, Fail, Goto, Rollback
<1>2. PICK v \in {"refused", "error"} : answer' = [answer EXCEPT ![r] = v]
  BY DEF Fails, Fail
<1>3. r \notin committed
  BY <1>1 DEF IInv, RowsInv, Unfinished
<1>4. TypeOK'
  BY <1>1, <1>2, <1>3 DEF IInv, TypeOK, ReleaseLocks, Free, Step, stamps
<1>5. \A s \in Request : s # r => pc'[s] = pc[s]
  BY <1>1 DEF IInv, TypeOK
<1>6. ~Inserted(r)' /\ \A s \in Request : s # r => (Inserted(s)' <=> Inserted(s)) /\ pc'[s] = pc[s]
  BY <1>1, Inputs DEF IInv, TypeOK, Inserted
<1>7. RowsInv'
  BY <1>1, <1>3, <1>6, Inputs DEF IInv, RowsInv, TypeOK
<1>9. KeyInv'
  BY <1>1, <1>3 DEF IInv, KeyInv, SameKey
<1>10. AnswerInv'
  BY <1>1, <1>2, Inputs DEF IInv, AnswerInv, TypeOK, Existing, SameKey
<1>11. EmittedInv'
  BY <1>1 DEF IInv, EmittedInv
<1>12. LimitInv'
  <2>1. \A s \in Request : LimitRowOf(s)' = LimitRowOf(s)
    BY <1>1 DEF LimitRowOf
  <2>2. \A l \in LimitRow : Turns(l)' = Turns(l)
    BY <1>1, <1>2, <2>1, Inputs DEF IInv, AnswerInv, TypeOK, Turns, Unfinished
  <2>3. ASSUME NEW s \in Request, pc'[s] \in Admitted
        PROVE  rowLock'[LimitRowOf(s)] = s /\ count'[LimitRowOf(s)] < Limit[input[s].action]
    <3>1. s # r /\ pc[s] \in Admitted
      BY <1>1, <2>3, Inputs DEF IInv, TypeOK, Admitted
    <3> QED  BY <1>1, <3>1, LimitRowType DEF IInv, LimitInv, TypeOK, ReleaseLocks, Free
  <2> QED  BY <1>1, <2>1, <2>2, <2>3 DEF IInv, LimitInv
<1>13. StampInv'
  BY <1>1, <1>3 DEF IInv, StampInv, LastNotOvertaken, stamps
<1> QED  BY <1>4, <1>7, <1>9, <1>10, <1>11, <1>12, <1>13 DEF IInv

\* A step of r before it commits that leaves the tables alone.
Quiet(r) ==
  /\ pc[r] \notin {"emit", "done"} /\ pc'[r] \notin {"emit", "done"}
  /\ \E q \in Step : pc' = [pc EXCEPT ![r] = q]
  /\ UNCHANGED <<answer, tables, stamps, emitted>>
  /\ windowOf' \in [Request -> 0..Ticks - 1]
  /\ \A s \in Request \ {r} : windowOf'[s] = windowOf[s]
  /\ \A s \in Request : Inserted(s)' <=> Inserted(s)

LEMMA QuietStep ==
  ASSUME IInv, NEW r \in Request, Quiet(r)
  PROVE  /\ RowsInv' /\ KeyInv' /\ EmittedInv' /\ StampInv'
         /\ \A l \in LimitRow : IsFiniteSet(Turns(l)') /\ Earlier(l) + Cardinality(Turns(l)') <= count'[l]
<1>1. PICK q \in Step : pc' = [pc EXCEPT ![r] = q] /\ q \notin {"emit", "done"}
  BY Inputs DEF Quiet, IInv, TypeOK
<1>2. UNCHANGED <<answer, messages, committed, lastMessage, bound, count, emitted,
                 stamp, createdAt, committedAt>>
  BY DEF Quiet, tables, stamps
<1>4. RowsInv'
  <2>1. \A s \in committed \cap Request : s # r
    BY DEF Quiet, IInv, RowsInv
  <2>2. \A m \in Message : m # r => pc'[m] = pc[m]
    BY <1>1 DEF IInv, TypeOK
  <2> QED  BY <1>2, <2>1, <2>2, Inputs DEF Quiet, IInv, RowsInv
<1>5. KeyInv'
  BY <1>2 DEF IInv, KeyInv, SameKey
<1>6. EmittedInv'
  BY <1>2 DEF IInv, EmittedInv
<1>7. StampInv'
  BY <1>2 DEF IInv, StampInv, LastNotOvertaken
<1>8. \A l \in LimitRow : Turns(l)' = Turns(l)
  <2>1. \A s \in Request \ {r} : LimitRowOf(s)' = LimitRowOf(s) /\ pc'[s] = pc[s]
    BY <1>1, Inputs DEF Quiet, IInv, TypeOK, LimitRowOf
  <2>2. answer[r] \notin Request /\ pc[r] # "emit" /\ pc'[r] # "emit"
    BY Inputs DEF Quiet, IInv, AnswerInv
  <2> QED  BY <1>2, <2>1, <2>2 DEF Turns
<1> QED  BY <1>2, <1>4, <1>5, <1>6, <1>7, <1>8 DEF IInv, LimitInv

LEMMA StartStep ==
  ASSUME IInv, NEW r \in Request, Start(r)
  PROVE  IInv'
<1>1. /\ pc[r] = "idle" /\ pc' = [pc EXCEPT ![r] = "limit"]
      /\ windowOf' = [windowOf EXCEPT ![r] = tick \div WindowLength[input[r].action]]
      /\ UNCHANGED <<result, answer, tick, stamps, messages, committed, lastMessage, bound, count,
                     rowLock, share, exclusive, emitted>>
  BY DEF Start, Goto, tables, locks
<1>2. TypeOK'
  <2>1. windowOf' \in [Request -> 0..Ticks - 1]
    BY <1>1, WindowType DEF IInv, TypeOK
  <2>2. pc' \in [Message -> Step]
    BY <1>1 DEF IInv, TypeOK, Step
  <2> QED  BY <1>1, <2>1, <2>2 DEF IInv, TypeOK, stamps
<1>3. \A s \in Request : /\ Inserted(s)' <=> Inserted(s)
                         /\ pc'[s] = IF s = r THEN "limit" ELSE pc[s]
                         /\ windowOf'[s] = IF s = r THEN windowOf'[r] ELSE windowOf[s]
  BY <1>1, Inputs DEF IInv, TypeOK, Inserted
<1>4. Quiet(r)
  BY <1>1, <1>2, <1>3 DEF Quiet, TypeOK, tables, stamps, Step
<1>6. AnswerInv'
  BY <1>1, <1>3 DEF IInv, AnswerInv, Existing, SameKey
<1>7. LimitInv'
  <2>1. \A s \in Request : pc'[s] \in Admitted => pc[s] \in Admitted /\ LimitRowOf(s)' = LimitRowOf(s)
    BY <1>3 DEF Admitted, LimitRowOf
  <2> QED  BY <1>1, <1>4, <2>1, QuietStep DEF IInv, LimitInv
<1> QED  BY <1>2, <1>4, <1>6, <1>7, QuietStep DEF IInv

LEMMA AssertAndConsumeStep ==
  ASSUME IInv, NEW r \in Request, AssertAndConsume(r)
  PROVE  IInv'
<1> DEFINE k == LimitRowOf(r)
           c == input[r].conversation
<1>1. /\ pc[r] = "limit" /\ pc' = [pc EXCEPT ![r] = "existing"]
      /\ count[k] + 1 <= Limit[input[r].action]
      /\ rowLock' = [rowLock EXCEPT ![k] = r]
      /\ share' = [share EXCEPT ![c] = IF count[k] = 0 THEN @ \cup {r} ELSE @]
      /\ UNCHANGED <<windowOf, result, answer, tick, stamps, messages, committed, lastMessage, bound,
                     count, exclusive, emitted>>
  BY DEF AssertAndConsume, Admits, Goto, tables
<1>2. k \in LimitRow /\ c \in Conversation
  BY LimitRowType, Inputs DEF IInv
<1>3. rowLock[k] \in {r, None}
  BY <1>1 DEF AssertAndConsume, WaitsFor, RowNeeded
<1> HIDE DEF k, c
<1>4. TypeOK'
  BY <1>1, <1>2 DEF IInv, TypeOK, Step, stamps
<1>5. \A s \in Request : /\ Inserted(s)' <=> Inserted(s)
                         /\ pc'[s] = IF s = r THEN "existing" ELSE pc[s]
                         /\ LimitRowOf(s)' = LimitRowOf(s)
  BY <1>1, Inputs DEF IInv, TypeOK, Inserted, LimitRowOf
<1>6. Quiet(r)
  BY <1>1, <1>4, <1>5 DEF Quiet, TypeOK, tables, stamps, Step
<1>8. AnswerInv'
  BY <1>1, <1>5 DEF IInv, AnswerInv, Existing, SameKey
<1>9. ASSUME NEW s \in Request, pc'[s] \in Admitted
      PROVE  rowLock'[LimitRowOf(s)] = s /\ count'[LimitRowOf(s)] < Limit[input[s].action]
  <2>1. LimitRowOf(s) \in LimitRow /\ LimitRowOf(s) \in DOMAIN rowLock /\ Limit[input[s].action] \in Nat
    BY LimitRowType, LimitOf DEF IInv, TypeOK
  <2>2. CASE s = r
    BY <1>1, <1>2, <2>1, <2>2 DEF IInv, TypeOK, k
  <2>3. CASE s # r
    <3>1. rowLock[LimitRowOf(s)] = s /\ count[LimitRowOf(s)] < Limit[input[s].action]
      BY <1>5, <1>9, <2>3 DEF IInv, LimitInv
    <3>2. LimitRowOf(s) # k
      BY <1>3, <2>3, <3>1, Inputs
    <3> QED  BY <1>1, <2>1, <3>1, <3>2
  <2> QED  BY <2>2, <2>3
<1>10. LimitInv'
  BY <1>5, <1>6, <1>9, QuietStep DEF LimitInv
<1> QED  BY <1>4, <1>6, <1>8, <1>10, QuietStep DEF IInv

\* The limiter's rows stay with those who hold them.
LEMMA LimitKept ==
  ASSUME IInv, NEW r \in Request, Quiet(r), pc[r] \in Admitted, UNCHANGED windowOf,
         \A l \in LimitRow, s \in Request : rowLock[l] = s => rowLock'[l] = s
  PROVE  LimitInv'
<1>1. \A s \in Request : /\ LimitRowOf(s)' = LimitRowOf(s)
                         /\ pc'[s] \in Admitted => pc[s] \in Admitted
  BY Inputs DEF Quiet, IInv, TypeOK, LimitRowOf
<1>2. UNCHANGED count
  BY DEF Quiet, tables
<1> QED  BY <1>1, <1>2, LimitRowType, QuietStep DEF IInv, LimitInv

LEMMA FindExistingStep ==
  ASSUME IInv, NEW r \in Request, FindExisting(r)
  PROVE  IInv'
<1>1. /\ pc[r] = "existing"
      /\ \/ /\ \E s \in Existing(r) : result' = [result EXCEPT ![r] = s]
            /\ pc' = [pc EXCEPT ![r] = "commit"]
         \/ /\ \E q \in {"create", "attachment"} : pc' = [pc EXCEPT ![r] = q]
            /\ UNCHANGED result
      /\ UNCHANGED <<windowOf, answer, tick, stamps, messages, committed, lastMessage, bound, count,
                     rowLock, share, exclusive, emitted>>
  BY DEF FindExisting, Goto, tables, locks
<1>2. Existing(r) \subseteq Request \cap committed
  BY DEF Existing
<1>3. r \notin committed
  BY <1>1 DEF IInv, RowsInv
<1>4. TypeOK'
  BY <1>1, <1>2 DEF IInv, TypeOK, Step, stamps
<1>5. \A s \in Request : s # r => pc'[s] = pc[s] /\ result'[s] = result[s]
  BY <1>1, Inputs DEF IInv, TypeOK
<1>6. pc'[r] \in {"create", "attachment", "commit"}
      /\ (pc'[r] = "commit" => result'[r] \in Existing(r))
  BY <1>1, Inputs DEF IInv, TypeOK
<1>7. \A s \in Request : Inserted(s)' <=> Inserted(s)
  BY <1>1, <1>2, <1>3, <1>5, <1>6 DEF Inserted
<1>8. Quiet(r)
  BY <1>1, <1>4, <1>6, <1>7 DEF Quiet, TypeOK, tables, stamps, Step
<1>10. \A s \in Request : Existing(s)' = Existing(s)
  BY <1>1 DEF Existing, SameKey
<1>11. AnswerInv'
  <2>1. answer' = answer
    BY <1>1
  <2>2. answer[r] = None
    BY <1>1 DEF IInv, AnswerInv
  <2> QED  BY <1>5, <1>6, <1>10, <2>1, <2>2, Inputs DEF IInv, AnswerInv
<1>12. LimitInv'
  BY <1>1, <1>8, LimitKept DEF Admitted
<1> QED  BY <1>4, <1>8, <1>11, <1>12, QuietStep DEF IInv

LEMMA FindAttachmentStep ==
  ASSUME IInv, NEW r \in Request, FindAttachment(r)
  PROVE  IInv'
<1>1. CASE bound[input[r].attachment] # None
  BY <1>1, FindAttachmentFails, FailedStep
<1>2. CASE bound[input[r].attachment] = None
  <2>1. /\ pc[r] = "attachment" /\ pc' = [pc EXCEPT ![r] = "create"]
        /\ UNCHANGED <<windowOf, result, answer, tick, stamps, messages, committed, lastMessage, bound,
                       count, rowLock, share, exclusive, emitted>>
    BY <1>2 DEF FindAttachment, Goto, tables, locks
  <2>2. TypeOK'
    BY <2>1 DEF IInv, TypeOK, Step, stamps
  <2>3. \A s \in Request : /\ Inserted(s)' <=> Inserted(s)
                           /\ pc'[s] = IF s = r THEN "create" ELSE pc[s]
    BY <2>1, Inputs DEF IInv, TypeOK, Inserted
  <2>4. Quiet(r)
    BY <2>1, <2>2, <2>3 DEF Quiet, TypeOK, tables, stamps, Step
  <2>6. AnswerInv'
    BY <2>1, <2>3 DEF IInv, AnswerInv, Existing, SameKey
  <2>7. LimitInv'
    BY <2>1, <2>4, LimitKept DEF Admitted
  <2> QED  BY <2>2, <2>4, <2>6, <2>7, QuietStep DEF IInv
<1> QED  BY <1>1, <1>2

LEMMA BindAttachmentStep ==
  ASSUME IInv, NEW r \in Request, BindAttachment(r)
  PROVE  IInv'
<1> DEFINE a == input[r].attachment
<1>1. /\ pc[r] = "bind" /\ pc' = [pc EXCEPT ![r] = "last"]
      /\ rowLock' = [rowLock EXCEPT ![a] = r]
      /\ UNCHANGED <<windowOf, result, answer, tick, stamps, messages, committed, lastMessage, bound,
                     count, share, exclusive, emitted>>
  BY DEF BindAttachment, Goto, tables
<1>2. rowLock[a] \in {r, None}
  BY <1>1 DEF BindAttachment, WaitsFor, RowNeeded
<1> HIDE DEF a
<1>3. TypeOK'
  BY <1>1 DEF IInv, TypeOK, Step, stamps
<1>4. \A s \in Request : /\ Inserted(s)' <=> Inserted(s)
                         /\ pc'[s] = IF s = r THEN "last" ELSE pc[s]
  BY <1>1, Inputs DEF IInv, TypeOK, Inserted
<1>5. Quiet(r)
  BY <1>1, <1>3, <1>4 DEF Quiet, TypeOK, tables, stamps, Step
<1>7. AnswerInv'
  BY <1>1, <1>4 DEF IInv, AnswerInv, Existing, SameKey
<1>8. \A l \in LimitRow, s \in Request : rowLock[l] = s => rowLock'[l] = s
  BY <1>1, <1>2, Inputs DEF IInv, TypeOK
<1>9. LimitInv'
  BY <1>1, <1>5, <1>8, LimitKept DEF Admitted
<1> QED  BY <1>3, <1>5, <1>7, <1>9, QuietStep DEF IInv

LEMMA UpdateLastStep ==
  ASSUME IInv, NEW r \in Request, UpdateLast(r)
  PROVE  IInv'
<1> DEFINE c == input[r].conversation
<1>1. /\ pc[r] = "last" /\ pc' = [pc EXCEPT ![r] = "commit"]
      /\ exclusive' = [exclusive EXCEPT ![c] = r]
      /\ UNCHANGED <<windowOf, result, answer, tick, stamps, messages, committed, lastMessage,
                     bound, count, rowLock, share, emitted>>
  BY DEF UpdateLast, Goto, tables
<1>2. result[r] = r
  BY <1>1 DEF IInv, AnswerInv
<1>3. TypeOK'
  BY <1>1 DEF IInv, TypeOK, Step, stamps
<1>4. \A s \in Request : /\ Inserted(s)' <=> Inserted(s)
                         /\ pc'[s] = IF s = r THEN "commit" ELSE pc[s]
  BY <1>1, <1>2, Inputs DEF IInv, TypeOK, Inserted
<1>5. Quiet(r)
  BY <1>1, <1>3, <1>4 DEF Quiet, TypeOK, tables, stamps, Step
<1>6. AnswerInv'
  BY <1>1, <1>2, <1>4 DEF IInv, AnswerInv, Existing, SameKey
<1>7. LimitInv'
  BY <1>1, <1>5, LimitKept DEF Admitted
<1> QED  BY <1>3, <1>5, <1>6, <1>7, QuietStep DEF IInv

\* A stamp is later than those before it; it is drawn before the row is there.
LEMMA StampStep ==
  ASSUME IInv, NEW r \in Request, Stamp(r)
  PROVE  IInv'
<1>1. /\ pc[r] = "create" /\ pc' = [pc EXCEPT ![r] = "insert"]
      /\ stamp' = stamp + 1 /\ createdAt' = [createdAt EXCEPT ![r] = stamp + 1]
      /\ UNCHANGED <<windowOf, result, answer, tick, committedAt, messages, committed,
                     lastMessage, bound, count, rowLock, share, exclusive, emitted>>
  BY DEF Stamp, Goto, tables, locks
<1>2. TypeOK'
  <2>1. pc' \in [Message -> Step]
    BY <1>1 DEF IInv, TypeOK, Step
  <2>2. stamp' \in Nat /\ createdAt' \in [Request -> Nat]
    BY <1>1 DEF IInv, TypeOK
  <2> QED  BY <1>1, <2>1, <2>2 DEF IInv, TypeOK
<1>3. \A s \in Request : /\ Inserted(s)' <=> Inserted(s)
                         /\ pc'[s] = IF s = r THEN "insert" ELSE pc[s]
                         /\ LimitRowOf(s)' = LimitRowOf(s)
  BY <1>1, Inputs DEF IInv, TypeOK, Inserted, LimitRowOf
<1>4. \A m \in CallMessage : pc'[m] = pc[m]
  BY <1>1, Inputs DEF IInv, TypeOK
<1>5. r \notin committed
  BY <1>1 DEF IInv, RowsInv
<1>6. RowsInv'
  BY <1>1, <1>3, <1>4, <1>5 DEF IInv, RowsInv
<1>7. KeyInv' /\ EmittedInv'
  BY <1>1 DEF IInv, KeyInv, SameKey, EmittedInv
<1>8. AnswerInv'
  BY <1>1, <1>3 DEF IInv, AnswerInv, Existing, SameKey
<1>9. LimitInv'
  <2>1. \A l \in LimitRow : Turns(l)' = Turns(l)
    BY <1>1, <1>3 DEF Turns
  <2>2. \A s \in Request : pc'[s] \in Admitted => pc[s] \in Admitted
    BY <1>1, <1>3 DEF Admitted
  <2> QED  BY <1>1, <1>3, <2>1, <2>2 DEF IInv, LimitInv
<1>10. StampInv'
  <2>1. \A s \in Request : createdAt'[s] <= stamp'
    BY <1>1 DEF IInv, StampInv, TypeOK
  <2>2. \A m \in committed \cap Request : createdAt'[m] = createdAt[m]
    BY <1>1, <1>5 DEF IInv, TypeOK
  <2> QED  BY <1>1, <2>1, <2>2 DEF IInv, StampInv, LastNotOvertaken
<1> QED  BY <1>2, <1>6, <1>7, <1>8, <1>9, <1>10 DEF IInv

LEMMA CreateStep ==
  ASSUME IInv, NEW r \in Request, Create(r)
  PROVE  IInv'
<1>1. /\ pc[r] = "insert"
      /\ \E q \in {"last", "bind"} : pc' = [pc EXCEPT ![r] = q]
      /\ messages' = messages \cup {r}
      /\ share' = [share EXCEPT ![input[r].conversation] = @ \cup {r}]
      /\ result' = [result EXCEPT ![r] = r]
      /\ UNCHANGED <<windowOf, answer, tick, stamps, committed, lastMessage, bound, count, rowLock,
                     exclusive, emitted>>
  BY DEF Create, Goto
<1>4. \A s \in messages \cap Request : SameKey(r, s) => s = r
  <2>1. \A s \in (messages \cap Request) \ committed : SameKey(r, s) => s \in {r, None}
    BY <1>1 DEF Create, WaitsFor
  <2>2. \A s \in Request \cap committed : ~SameKey(r, s)
    BY DEF Create, Existing
  <2> QED  BY <2>1, <2>2, Inputs
<1>6. TypeOK'
  BY <1>1, Inputs DEF IInv, TypeOK, Step, stamps
<1>7. /\ pc'[r] \in {"last", "bind"} /\ result'[r] = r
      /\ \A s \in Request : s # r => pc'[s] = pc[s] /\ result'[s] = result[s]
      /\ \A m \in CallMessage : pc'[m] = pc[m]
  BY <1>1, Inputs DEF IInv, TypeOK
<1>8. Inserted(r)' /\ \A s \in Request : s # r => (Inserted(s)' <=> Inserted(s))
  BY <1>7 DEF Inserted
<1>9. r \notin committed
  BY <1>1 DEF IInv, RowsInv
<1>10. RowsInv'
  BY <1>1, <1>7, <1>8, <1>9 DEF IInv, RowsInv
<1>12. KeyInv'
  <2>1. ASSUME NEW q \in messages' \cap Request, NEW s \in messages' \cap Request, SameKey(q, s)
        PROVE  q = s
    BY <1>1, <1>4, <2>1, KeysAgree DEF IInv, KeyInv
  <2> QED  BY <2>1 DEF KeyInv, SameKey
<1>13. AnswerInv'
  <2>1. \A s \in Request : Existing(s)' = Existing(s)
    BY <1>1 DEF Existing, SameKey
  <2>2. answer' = answer /\ answer[r] = None
    BY <1>1 DEF IInv, AnswerInv
  <2> QED  BY <1>7, <2>1, <2>2, Inputs DEF IInv, AnswerInv
<1>14. EmittedInv'
  BY <1>1 DEF IInv, EmittedInv
<1>15. LimitInv'
  <2>1. \A s \in Request : LimitRowOf(s)' = LimitRowOf(s)
    BY <1>1 DEF LimitRowOf
  <2>2. answer[r] \notin Request
    BY <1>1, Inputs DEF IInv, AnswerInv
  <2>3. \A l \in LimitRow : Turns(l)' = Turns(l)
    BY <1>1, <1>7, <2>1, <2>2 DEF Turns
  <2>4. \A s \in Request : pc'[s] \in Admitted => pc[s] \in Admitted
    BY <1>1, <1>7 DEF Admitted
  <2> QED  BY <1>1, <2>1, <2>3, <2>4 DEF IInv, LimitInv
<1>16. StampInv'
  BY <1>1 DEF IInv, StampInv, LastNotOvertaken, stamps
<1> QED  BY <1>6, <1>10, <1>12, <1>13, <1>14, <1>15, <1>16 DEF IInv

LEMMA CommitStep ==
  ASSUME IInv, NEW r \in Request, Commit(r)
  PROVE  IInv'
<1> DEFINE c == input[r].conversation
           k == LimitRowOf(r)
<1>1. /\ pc[r] = "commit" /\ pc' = [pc EXCEPT ![r] = "emit"]
      /\ count' = [count EXCEPT ![k] = @ + 1]
      /\ ReleaseLocks(r)
      /\ UNCHANGED <<windowOf, result, answer, tick, stamp, createdAt, messages, emitted>>
  BY DEF Commit, Goto
<1>2. \/ /\ r \in messages
         /\ committed' = committed \cup {r}
         /\ committedAt' = [committedAt EXCEPT ![r] = stamp]
         /\ lastMessage' = [lastMessage EXCEPT ![c] = r]
         /\ bound' = [a \in Attachment |-> IF a = input[r].attachment THEN r ELSE bound[a]]
      \/ r \notin messages /\ UNCHANGED <<committed, committedAt, lastMessage, bound>>
  BY DEF Commit
<1>3. c \in Conversation /\ k \in LimitRow /\ r \in Message /\ r # None /\ r \notin CallMessage
  BY LimitRowType, Inputs DEF IInv
<1>4. rowLock[k] = r /\ count[k] < Limit[input[r].action]
  BY <1>1 DEF IInv, LimitInv, Admitted
<1> HIDE DEF c, k
<1>5. TypeOK'
  <2>1. count' \in [LimitRow -> Nat] /\ \A l \in LimitRow : count'[l] <= Limit[l[3]]
    BY <1>1, <1>3, <1>4, LimitOf DEF IInv, TypeOK, k
  <2>2. lastMessage' \in [Conversation -> Message \cup {None}] /\ committed' \subseteq messages
        /\ bound' \in [Attachment -> Request \cup {None}] /\ committedAt' \in [Request -> Nat]
    <3>1. /\ lastMessage \in [Conversation -> Message \cup {None}] /\ committed \subseteq messages
          /\ bound \in [Attachment -> Request \cup {None}] /\ committedAt \in [Request -> Nat]
          /\ stamp \in Nat
      BY DEF IInv, TypeOK
    <3>2. CASE r \in messages
      BY <1>2, <1>3, <3>1, <3>2
    <3>3. CASE r \notin messages
      BY <1>2, <3>1, <3>3
    <3> QED  BY <3>2, <3>3
  <2>3. pc' \in [Message -> Step]
    BY <1>1 DEF IInv, TypeOK, Step
  <2> QED  BY <1>1, <2>1, <2>2, <2>3 DEF IInv, TypeOK, ReleaseLocks, Free
<1>7. r \notin committed /\ (r \in messages <=> result[r] = r)
  BY <1>1 DEF IInv, RowsInv, Inserted
<1>8. /\ pc'[r] = "emit"
      /\ \A s \in Message : s # r => pc'[s] = pc[s]
      /\ ~Inserted(r)'
      /\ \A s \in Request : s # r => (Inserted(s)' <=> Inserted(s))
  BY <1>1, <1>3, Inputs DEF IInv, TypeOK, Inserted
<1>9. committed \subseteq committed' /\ committed' \subseteq committed \cup {r}
      /\ (r \in messages => r \in committed')
  BY <1>2
<1>10. RowsInv'
  <2>1. \A d \in Conversation : lastMessage'[d] \in committed' \cup {None}
    BY <1>2, <1>3 DEF IInv, RowsInv, TypeOK
  <2>3. \A s \in Request : s \in messages \ committed' <=> Inserted(s)'
    BY <1>7, <1>8, <1>9 DEF IInv, RowsInv
  <2> QED  BY <1>1, <1>3, <1>8, <1>9, <2>1, <2>3, Inputs DEF IInv, RowsInv
<1>12. KeyInv'
  BY <1>1 DEF IInv, KeyInv, SameKey
<1>13. AnswerInv'
  <2>1. \A s \in Request : Existing(s) \subseteq Existing(s)'
    BY <1>9 DEF Existing, SameKey
  <2>2. result[r] \in Existing(r)'
    <3>1. CASE result[r] = r
      BY <1>7, <1>9, <3>1, KeysAgree DEF Existing, SameKey
    <3>2. CASE result[r] # r
      BY <1>1, <2>1, <3>2 DEF IInv, AnswerInv
    <3> QED  BY <3>1, <3>2
  <2> QED  BY <1>1, <1>8, <2>1, <2>2, Inputs DEF IInv, AnswerInv
<1>14. EmittedInv'
  BY <1>1, <1>9 DEF IInv, EmittedInv
<1>15. LimitInv'
  <2>1. \A s \in Request : LimitRowOf(s)' = LimitRowOf(s)
    BY <1>1 DEF LimitRowOf
  <2>2. ASSUME NEW s \in Request, pc'[s] \in Admitted
        PROVE  rowLock'[LimitRowOf(s)] = s /\ count'[LimitRowOf(s)] < Limit[input[s].action]
    <3>1. s # r /\ pc[s] \in Admitted
      BY <1>8, <2>2, Inputs DEF Admitted
    <3>2. rowLock[LimitRowOf(s)] = s /\ count[LimitRowOf(s)] < Limit[input[s].action]
      BY <3>1 DEF IInv, LimitInv
    <3>3. LimitRowOf(s) \in LimitRow /\ LimitRowOf(s) # k
      BY <1>4, <3>1, <3>2, LimitRowType DEF IInv
    <3> QED  BY <1>1, <3>1, <3>2, <3>3 DEF IInv, TypeOK, ReleaseLocks, Free
  <2>3. \A l \in LimitRow : l = k => Turns(l)' = Turns(l) \cup {r} /\ r \notin Turns(l)
    <3>1. answer[r] \notin Request
      BY <1>1, Inputs DEF IInv, AnswerInv
    <3> QED  BY <1>1, <1>8, <2>1, <3>1, Inputs DEF Turns, k
  <2>4. \A l \in LimitRow : l # k => Turns(l)' = Turns(l)
    BY <1>1, <1>8, <2>1, Inputs DEF Turns, k
  <2>5. ASSUME NEW l \in LimitRow
        PROVE  IsFiniteSet(Turns(l)') /\ Earlier(l) + Cardinality(Turns(l)') <= count'[l]
    <3>1. IsFiniteSet(Turns(l)) /\ Earlier(l) + Cardinality(Turns(l)) <= count[l] /\ count[l] \in Nat
      BY SendConstants DEF IInv, LimitInv, TypeOK
    <3>2. CASE l = k
      <4>1. IsFiniteSet(Turns(l)') /\ Cardinality(Turns(l)') = Cardinality(Turns(l)) + 1
        <5>1. Turns(l)' = Turns(l) \cup {r} /\ r \notin Turns(l)
          BY <2>3, <3>2
        <5>2. /\ IsFiniteSet(Turns(l) \cup {r})
              /\ Cardinality(Turns(l) \cup {r}) = Cardinality(Turns(l)) + 1
          BY <3>1, <5>1, FS_AddElement
        <5> QED  BY <5>1, <5>2
      <4>2. Cardinality(Turns(l)) \in Nat
        BY <3>1, FS_CardinalityType
      <4>3. count'[l] = count[l] + 1
        BY <1>1, <1>3, <3>2 DEF IInv, TypeOK
      <4> QED  BY <3>1, <4>1, <4>2, <4>3, LimitOf
    <3>3. CASE l # k
      BY <1>1, <2>4, <3>1, <3>3 DEF IInv, TypeOK
    <3> QED  BY <3>2, <3>3
  <2> QED  BY <2>1, <2>2, <2>5 DEF LimitInv
<1>16. StampInv'
  <2>1. CASE r \notin messages
    BY <1>1, <1>2, <2>1 DEF IInv, StampInv, LastNotOvertaken
  <2>2. CASE r \in messages
    <3>1. /\ committed' = committed \cup {r}
          /\ lastMessage' = [lastMessage EXCEPT ![c] = r]
          /\ committedAt' = [committedAt EXCEPT ![r] = stamp]
      BY <1>2, <2>2
    <3>2. ASSUME NEW m \in committed' \cap Request,
                 lastMessage'[input[m].conversation] \notin CallMessage
          PROVE  /\ lastMessage'[input[m].conversation] \in committed'
                 /\ createdAt[m] <= committedAt'[lastMessage'[input[m].conversation]]
      <4>1. CASE input[m].conversation = c
        <5>1. lastMessage'[c] = r /\ committedAt'[r] = stamp
          BY <1>3, <3>1 DEF IInv, TypeOK
        <5> QED  BY <3>1, <4>1, <5>1 DEF IInv, StampInv
      <4>2. CASE input[m].conversation # c
        <5> DEFINE last == lastMessage[input[m].conversation]
        <5>1. lastMessage'[input[m].conversation] = last /\ m \in committed
          BY <1>3, <3>1, <3>2, <4>2, Inputs DEF IInv, TypeOK, c
        <5>2. last \in committed /\ createdAt[m] <= committedAt[last]
          BY <3>2, <5>1 DEF IInv, StampInv, LastNotOvertaken
        <5>3. committedAt'[last] = committedAt[last]
          BY <1>7, <3>1, <3>2, <5>1, <5>2 DEF IInv, TypeOK, Message
        <5> QED  BY <3>1, <5>1, <5>2, <5>3
      <4> QED  BY <4>1, <4>2
    <3> QED  BY <1>1, <3>2 DEF IInv, StampInv, LastNotOvertaken
  <2> QED  BY <2>1, <2>2
<1> QED  BY <1>5, <1>10, <1>12, <1>13, <1>14, <1>15, <1>16 DEF IInv

LEMMA FinishStep ==
  ASSUME IInv, NEW r \in Request, Finish(r)
  PROVE  IInv'
<1>1. /\ pc[r] = "emit" /\ pc' = [pc EXCEPT ![r] = "done"]
      /\ emitted' = IF result[r] = r THEN emitted \cup {<<r, r>>} ELSE emitted
      /\ answer' = [answer EXCEPT ![r] = result[r]]
      /\ UNCHANGED <<windowOf, result, tick, stamps, messages, committed, lastMessage, bound, count,
                     rowLock, share, exclusive>>
  BY DEF Finish, Goto, tables, locks
<1>2. result[r] \in Existing(r) /\ result[r] \in Request /\ result[r] \in committed
  BY <1>1 DEF IInv, AnswerInv, Existing
<1>3. TypeOK'
  BY <1>1, <1>2, Inputs DEF IInv, TypeOK, Step, stamps
<1>4. /\ \A s \in Request : Inserted(s)' <=> Inserted(s)
      /\ \A m \in Message : pc'[m] = IF m = r THEN "done" ELSE pc[m]
  BY <1>1, Inputs DEF IInv, TypeOK, Inserted
<1>6. RowsInv'
  BY <1>1, <1>4, Inputs DEF IInv, RowsInv
<1>8. KeyInv'
  BY <1>1 DEF IInv, KeyInv, SameKey
<1>9. AnswerInv'
  <2>1. \A s \in Request : Existing(s)' = Existing(s)
    BY <1>1 DEF Existing, SameKey
  <2>2. answer'[r] = result[r] /\ \A s \in Request : s # r => answer'[s] = answer[s]
    BY <1>1 DEF IInv, TypeOK
  <2> QED  BY <1>1, <1>2, <1>4, <2>1, <2>2, Inputs DEF IInv, AnswerInv
<1>10. EmittedInv'
  BY <1>1, <1>2 DEF IInv, EmittedInv
<1>11. LimitInv'
  <2>1. \A s \in Request : LimitRowOf(s)' = LimitRowOf(s)
    BY <1>1 DEF LimitRowOf
  <2>2. answer'[r] = result[r] /\ \A s \in Request : s # r => answer'[s] = answer[s]
    BY <1>1 DEF IInv, TypeOK
  <2>3. \A l \in LimitRow : Turns(l)' = Turns(l)
    BY <1>1, <1>2, <1>4, <2>1, <2>2, Inputs DEF Turns
  <2>4. \A s \in Request : pc'[s] \in Admitted => pc[s] \in Admitted
    BY <1>4, Inputs DEF Admitted
  <2> QED  BY <1>1, <2>1, <2>3, <2>4 DEF IInv, LimitInv
<1>12. StampInv'
  BY <1>1 DEF IInv, StampInv, LastNotOvertaken, stamps
<1> QED  BY <1>3, <1>6, <1>8, <1>9, <1>10, <1>11, <1>12 DEF IInv

LEMMA LimitUnchanged ==
  ASSUME LimitInv, \A r \in Request : pc'[r] = pc[r],
         UNCHANGED <<windowOf, answer, count, rowLock>>
  PROVE  LimitInv'
<1>1. \A r \in Request : LimitRowOf(r)' = LimitRowOf(r)
  BY DEF LimitRowOf
<1>2. \A l \in LimitRow : Turns(l)' = Turns(l)
  BY <1>1 DEF Turns
<1> QED  BY <1>1, <1>2 DEF LimitInv

\* The steps of a call message change no request and none of the locks.
LEMMA CallMessageStep ==
  ASSUME IInv, NEW m \in CallMessage,
         InsertCallMessage(m) \/ UpdateLastCall(m) \/ EmitCallMessage(m)
  PROVE  IInv'
<1> DEFINE c == callIn[m]
<1>1. /\ \E q \in {"last", "emit", "done"} : pc' = [pc EXCEPT ![m] = q]
      /\ UNCHANGED <<windowOf, result, answer, tick, stamps, bound, count, rowLock, share, exclusive>>
  BY DEF InsertCallMessage, UpdateLastCall, EmitCallMessage, Goto, tables, locks
<1>2. c \in Conversation /\ m \in Message /\ m \notin Request /\ m # None
  BY Inputs
<1>3. m \in committed'
  BY DEF InsertCallMessage, UpdateLastCall, EmitCallMessage, IInv, RowsInv, tables
<1>4. \/ /\ messages' = messages \cup {m} /\ committed' = committed \cup {m}
         /\ UNCHANGED <<lastMessage, emitted>>
      \/ /\ UNCHANGED <<messages, committed>>
         /\ lastMessage' \in {lastMessage, [lastMessage EXCEPT ![c] = m]}
         /\ emitted' \in {emitted, emitted \cup {<<m, m>>}}
  BY DEF InsertCallMessage, UpdateLastCall, EmitCallMessage, tables
<1> HIDE DEF c
<1>5. \/ messages' = messages \cup {m} /\ committed' = committed \cup {m}
      \/ messages' = messages /\ committed' = committed
  BY <1>4
<1>6. TypeOK'
  <2>1. pc' \in [Message -> Step]
    BY <1>1 DEF IInv, TypeOK, Step
  <2>2. messages' \subseteq Message /\ committed' \subseteq messages' /\ emitted' \subseteq Message \X Message
    BY <1>2, <1>4 DEF IInv, TypeOK
  <2>3. lastMessage' \in [Conversation -> Message \cup {None}]
    BY <1>2, <1>4 DEF IInv, TypeOK
  <2> QED  BY <1>1, <1>5, <2>1, <2>2, <2>3 DEF IInv, TypeOK, stamps
<1>7. /\ \A r \in Request : pc'[r] = pc[r] /\ (Inserted(r)' <=> Inserted(r))
      /\ \A n \in CallMessage : n # m => pc'[n] = pc[n]
  BY <1>1, <1>2, Inputs DEF IInv, TypeOK, Inserted
<1>8. \A d \in Conversation : lastMessage'[d] = lastMessage[d] \/ lastMessage'[d] = m
  BY <1>2, <1>4 DEF IInv, TypeOK
<1>9. RowsInv'
  BY <1>2, <1>3, <1>5, <1>7, <1>8, Inputs DEF IInv, RowsInv
<1>11. KeyInv'
  BY <1>2, <1>5 DEF IInv, KeyInv, SameKey
<1>12. AnswerInv'
  <2>1. \A r \in Request : Existing(r)' = Existing(r)
    BY <1>2, <1>5 DEF Existing, SameKey
  <2> QED  BY <1>1, <1>7, <2>1 DEF IInv, AnswerInv
<1>13. EmittedInv'
  BY <1>3, <1>4 DEF IInv, EmittedInv
<1>14. LimitInv'
  BY <1>1, <1>7, LimitUnchanged DEF IInv
<1>15. StampInv'
  <2>1. \A n \in committed' \cap Request : n \in committed
    BY <1>2, <1>5
  <2>2. committed \subseteq committed' /\ UNCHANGED <<stamp, createdAt, committedAt>>
    BY <1>1, <1>5 DEF stamps
  <2> QED  BY <1>2, <1>8, <2>1, <2>2, Inputs DEF IInv, StampInv, LastNotOvertaken
<1> QED  BY <1>6, <1>9, <1>11, <1>12, <1>13, <1>14, <1>15 DEF IInv

LEMMA StutterStep ==
  ASSUME IInv, Tick \/ UNCHANGED vars
  PROVE  IInv'
<1>1. UNCHANGED <<pc, windowOf, result, answer, messages, committed, stamp, createdAt,
                 committedAt, lastMessage, bound, count, rowLock, share, exclusive, emitted>>
  BY DEF Tick, vars, tables, locks, stamps
<1>2. TypeOK'
  BY <1>1, SendConstants DEF IInv, TypeOK, Tick, vars
<1>3. RowsInv' /\ KeyInv'
  BY <1>1 DEF IInv, RowsInv, KeyInv, Inserted, SameKey
<1>4. AnswerInv' /\ EmittedInv'
  BY <1>1 DEF IInv, AnswerInv, EmittedInv, Existing, SameKey
<1>5. LimitInv' /\ StampInv'
  BY <1>1, LimitUnchanged DEF IInv, StampInv, LastNotOvertaken
<1> QED  BY <1>2, <1>3, <1>4, <1>5 DEF IInv

LEMMA CrashStep ==
  ASSUME IInv, Crash
  PROVE  IInv'
<1> DEFINE lost == {m \in Message : pc[m] \notin {"idle", "done"}}
<1>1. /\ pc' = [m \in Message |-> IF m \in lost THEN "done" ELSE pc[m]]
      /\ answer' = [r \in Request |-> IF r \in lost THEN "error" ELSE answer[r]]
      /\ messages' = committed
      /\ rowLock' = [l \in DOMAIN rowLock |-> None]
      /\ share' = [c \in Conversation |-> {}]
      /\ exclusive' = [c \in Conversation |-> None]
      /\ UNCHANGED <<windowOf, result, tick, stamps, committed, lastMessage, bound, count, emitted>>
  BY DEF Crash
<1>5. \A m \in Message : pc'[m] \in {"idle", "done"} /\ (pc'[m] = "idle" => pc[m] = "idle")
                        /\ (pc[m] = "done" => pc'[m] = "done")
  BY <1>1
<1>6. \A r \in Request : /\ answer'[r] = answer[r] \/ answer'[r] = "error"
                         /\ pc'[r] # "done" => answer'[r] = answer[r]
  BY <1>1, Inputs
<1> HIDE DEF lost
<1>7. TypeOK'
  BY <1>1, <1>5, <1>6 DEF IInv, TypeOK, Step, stamps
<1>8. \A r \in Request : ~Inserted(r)'
  BY <1>5, Inputs DEF Inserted
<1>9. RowsInv'
  <2>1. \A r \in committed \cap Request : pc'[r] = "done"
    BY <1>5, Inputs DEF IInv, RowsInv
  <2> QED  BY <1>1, <1>5, <1>8, <2>1, Inputs DEF IInv, RowsInv
<1>11. KeyInv'
  BY <1>1 DEF IInv, KeyInv, TypeOK, SameKey
<1>12. AnswerInv'
  <2>1. \A r \in Request : Existing(r)' = Existing(r)
    BY <1>1 DEF Existing, SameKey
  <2> QED  BY <1>5, <1>6, <2>1, Inputs DEF IInv, AnswerInv
<1>13. EmittedInv'
  BY <1>1 DEF IInv, EmittedInv
<1>14. LimitInv'
  <2>1. \A l \in LimitRow : Turns(l)' \subseteq Turns(l)
    BY <1>1, <1>5, <1>6, Inputs DEF Turns, LimitRowOf
  <2>2. ASSUME NEW l \in LimitRow
        PROVE  IsFiniteSet(Turns(l)') /\ Earlier(l) + Cardinality(Turns(l)') <= count[l]
    <3>1. IsFiniteSet(Turns(l)) /\ Earlier(l) + Cardinality(Turns(l)) <= count[l] /\ count[l] \in Nat
      BY SendConstants DEF IInv, LimitInv, TypeOK
    <3>2. IsFiniteSet(Turns(l)') /\ Cardinality(Turns(l)') <= Cardinality(Turns(l))
      BY <2>1, <3>1, FS_Subset
    <3>3. Cardinality(Turns(l)) \in Nat /\ Cardinality(Turns(l)') \in Nat
      BY <3>1, <3>2, FS_CardinalityType
    <3> QED  BY <3>1, <3>2, <3>3, LimitOf
  <2>3. \A r \in Request : pc'[r] \notin Admitted
    BY <1>5, Inputs DEF Admitted
  <2> QED  BY <1>1, <2>2, <2>3 DEF LimitInv
<1>15. StampInv'
  BY <1>1 DEF IInv, StampInv, LastNotOvertaken, stamps
<1> QED  BY <1>7, <1>9, <1>11, <1>12, <1>13, <1>14, <1>15 DEF IInv

LEMMA InitIInv == Init => IInv
<1> SUFFICES ASSUME Init PROVE IInv
  OBVIOUS
<1>1. TypeOK
  BY SendConstants, LimitOf DEF Init, TypeOK, Step
<1>2. messages = {} /\ \A r \in Request : ~Inserted(r) /\ pc[r] = "idle" /\ answer[r] = None
  BY Inputs DEF Init, Inserted
<1>3. RowsInv /\ KeyInv /\ EmittedInv
  BY <1>2, Inputs DEF Init, RowsInv, KeyInv, EmittedInv
<1>4. AnswerInv
  BY <1>2, Inputs DEF AnswerInv
<1>5. LimitInv
  <2>1. \A l \in LimitRow : Turns(l) = {}
    BY <1>2, Inputs DEF Turns
  <2>2. IsFiniteSet({}) /\ Cardinality({}) = 0
    BY FS_EmptySet
  <2>3. \A l \in LimitRow : count[l] = Earlier(l) /\ Earlier(l) \in Nat
    BY LimitOf DEF Init
  <2>4. \A r \in Request : pc[r] \notin Admitted
    BY <1>2 DEF Admitted
  <2> QED  BY <2>1, <2>2, <2>3, <2>4 DEF LimitInv
<1>6. StampInv
  BY DEF Init, StampInv, LastNotOvertaken
<1> QED  BY <1>1, <1>3, <1>4, <1>5, <1>6 DEF IInv

LEMMA IInvStep == IInv /\ [Next]_vars => IInv'
<1> SUFFICES ASSUME IInv, [Next]_vars PROVE IInv'
  OBVIOUS
<1>1. ASSUME NEW r \in Request, Start(r) \/ Refuse(r) \/ Handle(r)
      PROVE  IInv'
  BY <1>1, StartStep, FailSteps, FailedStep, AssertAndConsumeStep, FindExistingStep,
     FindAttachmentStep, StampStep, CreateStep, BindAttachmentStep, UpdateLastStep, CommitStep, FinishStep
     DEF Handle
<1> QED  BY <1>1, CallMessageStep, StutterStep, CrashStep DEF Next

LEMMA SendInvariant == Spec => []IInv
BY InitIInv, IInvStep, PTL DEF Spec

------------------------------------------------------------------------------
(* Theorems *)

\* The tables, the locks and the requests keep their types; the counters of the
\* limiter do not pass the limit.
THEOREM SendTypeCorrect == Spec => []TypeOK
<1>1. IInv => TypeOK
  BY DEF IInv
<1> QED  BY <1>1, SendInvariant, PTL

\* A retry is idempotent: one row for each key, and every attempt that is
\* answered is answered with it.  The unique index makes an insertion wait for
\* the uncommitted row of the same key.
THEOREM RetriesAreIdempotent == Spec => []RetriesAgree
<1>1. IInv => RetriesAgree
  <2> SUFFICES ASSUME IInv PROVE RetriesAgree
    OBVIOUS
  <2>1. \A r, s \in committed \cap Request : SameKey(r, s) => r = s
    BY DEF IInv, KeyInv, RowsInv, TypeOK
  <2>2. ASSUME NEW r \in Request, NEW s \in Request, SameKey(r, s),
               answer[r] \in Request, answer[s] \in Request
        PROVE  answer[r] = answer[s] /\ answer[r] \in committed
    <3>1. /\ answer[r] \in committed /\ SameKey(r, answer[r])
          /\ answer[s] \in committed /\ SameKey(s, answer[s])
      BY <2>2 DEF IInv, AnswerInv, Existing
    <3>2. SameKey(answer[r], answer[s])
      BY <2>2, <3>1, KeysAgree
    <3> QED  BY <2>1, <2>2, <3>1, <3>2
  <2> QED  BY <2>1, <2>2 DEF RetriesAgree
<1> QED  BY <1>1, SendInvariant, PTL

\* Each message is announced once, and only when it is committed: the request
\* that found the row of another attempt does not announce it.
THEOREM MessagesAnnouncedOnce == Spec => []AnnouncedOnce
<1>1. IInv => AnnouncedOnce
  <2> SUFFICES ASSUME IInv PROVE AnnouncedOnce
    OBVIOUS
  <2>1. \A e \in emitted : e[2] \in committed /\ e[1] = e[2] /\ e = <<e[1], e[2]>>
    BY DEF IInv, TypeOK, EmittedInv
  <2> QED  BY <2>1 DEF AnnouncedOnce
<1> QED  BY <1>1, SendInvariant, PTL

\* No more calls than the limit are answered in a window: the transaction that
\* has taken a turn holds the counter until it has counted it.
THEOREM RateLimitHolds == Spec => []WithinRateLimit
<1>1. IInv => WithinRateLimit
  <2> SUFFICES ASSUME IInv, NEW l \in LimitRow
               PROVE  Earlier(l) + Cardinality({r \in Request : answer[r] \in Request /\ LimitRowOf(r) = l})
                        <= Limit[l[3]]
    BY DEF WithinRateLimit
  <2> DEFINE A == {r \in Request : answer[r] \in Request /\ LimitRowOf(r) = l}
  <2>1. /\ IsFiniteSet(Turns(l)) /\ Earlier(l) + Cardinality(Turns(l)) <= count[l]
        /\ count[l] \in Nat /\ count[l] <= Limit[l[3]]
    BY DEF IInv, LimitInv, TypeOK
  <2>2. A \subseteq Turns(l)
    BY DEF Turns
  <2>3. IsFiniteSet(A) /\ Cardinality(A) <= Cardinality(Turns(l))
    BY <2>1, <2>2, FS_Subset
  <2>4. Cardinality(A) \in Nat /\ Cardinality(Turns(l)) \in Nat
    BY <2>1, <2>3, FS_CardinalityType
  <2> HIDE DEF A
  <2>5. Earlier(l) + Cardinality(A) <= Limit[l[3]]
    BY <2>1, <2>3, <2>4, LimitOf
  <2> QED  BY <2>5 DEF A
<1> QED  BY <1>1, SendInvariant, PTL

\* The last message of a conversation was committed after every other message of
\* a sender was created, call messages aside: no overlap of sends, retries and
\* crashes puts a message behind one that was there when it was created.
THEOREM LastIsNotOvertaken == Spec => []LastNotOvertaken
<1>1. IInv => LastNotOvertaken
  BY DEF IInv, StampInv
<1> QED  BY <1>1, SendInvariant, PTL
==============================================================================
