--------------------------- MODULE ReceiptsProofs ---------------------------
(****************************************************************************)
(* Proofs about Receipts, for any users, messages and handlers, however many *)
(* calls of a user overlap.  The inductive invariant says what a call that   *)
(* is under way may rely on: not that its user's row is as it was read, but  *)
(* that what it read was not behind the settled pointers, which stay as they *)
(* are until the last call of the user ends.                                 *)
(****************************************************************************)
EXTENDS Receipts, TLAPS

\* The pointers point to messages that are there.
PointersVisible ==
  \A u \in User : {read[u], delivered[u]} \subseteq visible \cup {None}

PointerOf(u, op) == IF op = "read" THEN read[u] ELSE delivered[u]
SettledOf(u, op) == IF op = "read" THEN settled[u].read ELSE settled[u].delivered

\* A call that goes on to write is about a message that is there.  When it
\* writes, that message is after the settled pointer, and after the delivered
\* pointer it has read if it is to move that; a receipt on its way is not behind
\* the settled pointer.
CallAhead(h) ==
  job[h] # Idle =>
    /\ job[h].step = "row" => job[h].target \in visible
    /\ job[h].step = "write" =>
         /\ job[h].target \in visible
         /\ job[h].delivered \in visible \cup {None}
         /\ job[h].target > SettledOf(ServedUser[h], job[h].op)
         /\ job[h].delivered >= settled[ServedUser[h]].delivered
         /\ job[h].op = "delivered" => job[h].target > job[h].delivered
    /\ job[h].step = "emit" => job[h].shown >= SettledOf(ServedUser[h], job[h].op)

CallsAhead == \A h \in Handler : CallAhead(h)

ReceiptsInv == TypeOK /\ PointersVisible /\ SettledPointersKept /\ CallsAhead

------------------------------------------------------------------------------

\* A handler that serves a call has a job.
LEMMA ServingJob ==
  ASSUME TypeOK, NEW h \in Handler, job[h] # Idle
  PROVE  job[h] \in Job /\ ServedUser[h] \in User
  BY ReceiptConstants DEF TypeOK

\* Places are positive numbers, and pointers are numbers.
LEMMA Places == Place \subseteq Nat \ {None} /\ Pointer \subseteq Nat
  BY ReceiptConstants DEF Place, Pointer, None

\* The pointers of a user are numbers.
LEMMA PointersAreNumbers ==
  ASSUME TypeOK, NEW u \in User
  PROVE  /\ read[u] \in Nat /\ delivered[u] \in Nat
         /\ settled[u].read \in Nat /\ settled[u].delivered \in Nat
         /\ announced[u].read \in Nat /\ announced[u].delivered \in Nat
  BY Places DEF TypeOK, Pointers

\* The invariant holds at the start.
LEMMA ReceiptsInit == Init => ReceiptsInv
<1> SUFFICES ASSUME Init PROVE ReceiptsInv
  OBVIOUS
<1>1. TypeOK
  BY ReceiptConstants DEF Init, TypeOK, Pointer, Pointers
<1>2. PointersVisible /\ SettledPointersKept /\ CallsAhead
  BY ReceiptConstants
     DEF Init, PointersVisible, SettledPointersKept, CallsAhead, CallAhead, None
<1> QED  BY <1>1, <1>2 DEF ReceiptsInv

\* What a step of another handler leaves true of handler k.
LEMMA OtherCalls ==
  ASSUME NEW k \in Handler, CallAhead(k), job'[k] = job[k], visible \subseteq visible',
         job[k] # Idle => settled'[ServedUser[k]] = settled[ServedUser[k]]
  PROVE  CallAhead(k)'
  BY DEF CallAhead, SettledOf

\* A call that goes on, in a step that writes no pointer and sends no receipt.
LEMMA ProceedStep ==
  ASSUME ReceiptsInv, NEW h \in Handler, NEW j \in Job, Proceed(h, j),
         UNCHANGED <<visible, deleted, read, delivered, announced>>,
         job'[h] = j => CallAhead(h)'
  PROVE  ReceiptsInv'
<1>1. TypeOK'
  BY DEF ReceiptsInv, TypeOK, Proceed
<1>2. job'[h] = j
  BY DEF ReceiptsInv, TypeOK, Proceed
<1>3. CallsAhead'
  <2> SUFFICES ASSUME NEW k \in Handler PROVE CallAhead(k)'
    BY DEF CallsAhead
  <2>1. CASE k = h
    BY <1>2, <2>1
  <2>2. CASE k # h
    <3>1. job'[k] = job[k] /\ settled' = settled /\ CallAhead(k)
      BY <2>2 DEF ReceiptsInv, TypeOK, Proceed, CallsAhead
    <3> QED  BY <3>1, OtherCalls
  <2> QED  BY <2>1, <2>2
<1> QED
  BY <1>1, <1>3 DEF ReceiptsInv, PointersVisible, SettledPointersKept, Proceed

\* The end of a call changes the settled pointers of its user only, and only
\* when no other call of his is under way.
LEMMA EndSettles ==
  ASSUME TypeOK, NEW h \in Handler, End(h), NEW u \in User
  PROVE  /\ settled'[u] \in {settled[u], [read |-> read[u], delivered |-> delivered[u]]}
         /\ \A k \in Handler \ {h} :
              ServedUser[k] = u /\ job[k] # Idle => settled'[u] = settled[u]
  BY DEF TypeOK, End

\* The end of a call, in a step that writes no pointer.
LEMMA EndStep ==
  ASSUME ReceiptsInv, NEW h \in Handler, End(h),
         UNCHANGED <<visible, deleted, read, delivered>>,
         announced' \in [User -> Pointers]
  PROVE  ReceiptsInv'
<1>y. TypeOK
  BY DEF ReceiptsInv
<1>1. \A u \in User : [read |-> read[u], delivered |-> delivered[u]] \in Pointers
  BY <1>y DEF TypeOK, Pointers
<1>2. ServedUser[h] \in User /\ settled' \in [User -> Pointers]
  <2>1. ServedUser[h] \in User
    BY ReceiptConstants
  <2> QED  BY <1>y, <1>1, <2>1 DEF TypeOK, End
<1>3. TypeOK'
  BY <1>y, <1>2 DEF TypeOK, End
<1>4. SettledPointersKept'
  <2> SUFFICES ASSUME NEW u \in User
               PROVE  read[u] >= settled'[u].read /\ delivered[u] >= settled'[u].delivered
    BY DEF SettledPointersKept
  <2>1. read[u] >= settled[u].read /\ delivered[u] >= settled[u].delivered
    BY DEF ReceiptsInv, SettledPointersKept
  <2>2. read[u] \in Nat /\ delivered[u] \in Nat
    BY <1>y, PointersAreNumbers
  <2> QED  BY <1>y, <2>1, <2>2, EndSettles
<1>5. CallsAhead'
  <2> SUFFICES ASSUME NEW k \in Handler PROVE CallAhead(k)'
    BY DEF CallsAhead
  <2>1. CASE k = h
    BY <1>y, <2>1 DEF TypeOK, End, CallAhead
  <2>2. CASE k # h
    <3>1. job'[k] = job[k] /\ CallAhead(k) /\ ServedUser[k] \in User
      BY <1>y, <2>2, ReceiptConstants DEF ReceiptsInv, TypeOK, End, CallsAhead
    <3>2. job[k] # Idle => settled'[ServedUser[k]] = settled[ServedUser[k]]
      BY <1>y, <2>2, <3>1, EndSettles
    <3> QED  BY <3>1, <3>2, OtherCalls
  <2> QED  BY <2>1, <2>2
<1> QED
  BY <1>3, <1>4, <1>5 DEF ReceiptsInv, PointersVisible

\* A write moves the pointers of one user, to messages that are there and not
\* behind the settled ones.
LEMMA WriteStep ==
  ASSUME ReceiptsInv, NEW h \in Handler, At(h, "write"), NEW r, NEW d,
         r \in visible \cup {None}, d \in visible \cup {None},
         r >= settled[ServedUser[h]].read, d >= settled[ServedUser[h]].delivered,
         read' = [read EXCEPT ![ServedUser[h]] = r],
         delivered' = [delivered EXCEPT ![ServedUser[h]] = d],
         Proceed(h, [job[h] EXCEPT !.step = "view"]),
         UNCHANGED <<visible, deleted, announced>>
  PROVE  ReceiptsInv'
<1> DEFINE u == ServedUser[h]
           j == [job[h] EXCEPT !.step = "view"]
<1>y. TypeOK /\ job[h] \in Job /\ u \in User
  BY ServingJob DEF ReceiptsInv, At
<1>1. j \in Job /\ j.step = "view"
  BY <1>y DEF Job
<1>2. r \in Pointer /\ d \in Pointer
  BY <1>y DEF TypeOK, Pointer
<1>3. TypeOK'
  BY <1>y, <1>1, <1>2 DEF TypeOK, Proceed
<1>4. PointersVisible'
  BY <1>y DEF ReceiptsInv, PointersVisible, TypeOK
<1>5. SettledPointersKept'
  BY <1>y DEF ReceiptsInv, SettledPointersKept, TypeOK, Proceed
<1>6. CallsAhead'
  <2> SUFFICES ASSUME NEW k \in Handler PROVE CallAhead(k)'
    BY DEF CallsAhead
  <2>1. CASE k = h
    <3>1. job'[h].step = "view"
      BY <1>y, <1>1 DEF TypeOK, Proceed
    <3> QED  BY <2>1, <3>1 DEF CallAhead
  <2>2. CASE k # h
    <3>1. job'[k] = job[k] /\ settled' = settled /\ CallAhead(k)
      BY <1>y, <2>2 DEF ReceiptsInv, TypeOK, Proceed, CallsAhead
    <3> QED  BY <3>1, OtherCalls
  <2> QED  BY <2>1, <2>2
<1> QED  BY <1>3, <1>4, <1>5, <1>6 DEF ReceiptsInv

\* The call of h at its write: numbers, and what its invariant says.
LEMMA AtWrite ==
  ASSUME ReceiptsInv, NEW h \in Handler, At(h, "write")
  PROVE  /\ job[h] \in Job /\ ServedUser[h] \in User
         /\ job[h].target \in Nat /\ job[h].delivered \in Nat
         /\ job[h].target \in visible /\ job[h].delivered \in visible \cup {None}
         /\ job[h].target > SettledOf(ServedUser[h], job[h].op)
         /\ job[h].delivered >= settled[ServedUser[h]].delivered
         /\ job[h].op = "delivered" => job[h].target > job[h].delivered
<1>1. job[h] \in Job /\ ServedUser[h] \in User
  BY ServingJob DEF ReceiptsInv, At
<1>2. job[h].target \in Nat /\ job[h].delivered \in Nat
  BY <1>1, Places DEF Job
<1> QED  BY <1>1, <1>2 DEF At, ReceiptsInv, CallsAhead, CallAhead

\* Every step keeps the invariant.
LEMMA ReceiptsStep ==
  ASSUME ReceiptsInv, [Next]_vars
  PROVE  ReceiptsInv'
<1>y. TypeOK
  BY DEF ReceiptsInv
<1>1. ASSUME NEW m \in Place, Arrive(m) \/ Recall(m)
      PROVE  ReceiptsInv'
  <2>1. /\ visible \subseteq visible' /\ deleted' \subseteq visible'
        /\ visible' \subseteq Place
        /\ UNCHANGED <<read, delivered, announced, job, settled>>
    BY <1>1, <1>y DEF Arrive, Recall, TypeOK
  <2>2. TypeOK'
    BY <2>1, <1>y DEF TypeOK
  <2>3. CallsAhead'
    BY <2>1, OtherCalls DEF ReceiptsInv, CallsAhead
  <2> QED
    BY <2>1, <2>2, <2>3 DEF ReceiptsInv, PointersVisible, SettledPointersKept
<1>2. ASSUME NEW h \in Handler, NEW op \in {"read", "delivered"}, NEW target \in Pointer,
             NEW broadcast \in BOOLEAN, Start(h, op, target, broadcast)
      PROVE  ReceiptsInv'
  <2> DEFINE j == [op |-> op, step |-> "target", target |-> target, broadcast |-> broadcast,
                   delivered |-> None, shown |-> None]
  <2>1. j \in Job /\ j.step = "target"
    BY DEF Job, Pointer
  <2>2. Proceed(h, j) /\ UNCHANGED <<visible, deleted, read, delivered, announced>>
    BY <1>2 DEF Start
  <2>3. job'[h] = j => CallAhead(h)'
    BY <2>1 DEF CallAhead
  <2> QED  BY <2>1, <2>2, <2>3, ProceedStep
<1>3. ASSUME NEW h \in Handler, ResolveNamed(h)
      PROVE  ReceiptsInv'
  <2>1. job[h] \in Job
    BY <1>3, <1>y, ServingJob DEF ResolveNamed, At
  <2>2. CASE job[h].target \in visible \ deleted
    <3> DEFINE j == [job[h] EXCEPT !.step = "row"]
    <3>1. j \in Job /\ j.step = "row" /\ j.target = job[h].target
      BY <2>1 DEF Job
    <3>2. Proceed(h, j) /\ UNCHANGED <<visible, deleted, read, delivered, announced>>
      BY <1>3, <2>2 DEF ResolveNamed
    <3>3. job'[h] = j => CallAhead(h)'
      BY <2>2, <3>1, <3>2 DEF CallAhead
    <3> QED  BY <3>1, <3>2, <3>3, ProceedStep
  <2>3. CASE job[h].target \notin visible \ deleted
    <3>1. End(h) /\ UNCHANGED <<visible, deleted, read, delivered, announced>>
      BY <1>3, <2>3 DEF ResolveNamed
    <3>2. announced' \in [User -> Pointers]
      BY <3>1, <1>y DEF TypeOK
    <3> QED  BY <3>1, <3>2, EndStep
  <2> QED  BY <2>2, <2>3
<1>4. ASSUME NEW h \in Handler, ResolveNewest(h)
      PROVE  ReceiptsInv'
  <2>1. job[h] \in Job
    BY <1>4, <1>y, ServingJob DEF ResolveNewest, At
  <2>2. CASE Proceed(h, [job[h] EXCEPT !.step = "view"])
    <3> DEFINE j == [job[h] EXCEPT !.step = "view"]
    <3>1. j \in Job /\ j.step = "view"
      BY <2>1 DEF Job
    <3>2. job'[h] = j => CallAhead(h)'
      BY <3>1 DEF CallAhead
    <3> QED  BY <1>4, <2>2, <3>1, <3>2, ProceedStep DEF ResolveNewest
  <2>3. ASSUME NEW m \in visible \ deleted,
               Proceed(h, [job[h] EXCEPT !.step = "row", !.target = m])
        PROVE  ReceiptsInv'
    <3> DEFINE j == [job[h] EXCEPT !.step = "row", !.target = m]
    <3>1. j \in Job /\ j.step = "row" /\ j.target = m
      BY <2>1, <1>y DEF Job, TypeOK, Pointer
    <3>2. UNCHANGED <<visible, deleted, read, delivered, announced>>
      BY <1>4 DEF ResolveNewest
    <3>3. job'[h] = j => CallAhead(h)'
      BY <3>1, <3>2 DEF CallAhead
    <3> QED  BY <2>3, <3>1, <3>2, <3>3, ProceedStep
  <2> QED  BY <1>4, <2>2, <2>3 DEF ResolveNewest
<1>5. ASSUME NEW h \in Handler, ReadRow(h)
      PROVE  ReceiptsInv'
  <2> DEFINE u == ServedUser[h]
             old == job[h]
             pointer == PointerOf(u, old.op)
             current == LoadMessage(pointer)
             ahead == current # None /\ old.target <= current
             j == [old EXCEPT !.step = IF ahead THEN "view" ELSE "write",
                              !.delivered = LoadMessage(delivered[u])]
  <2>1. old \in Job /\ old # Idle /\ old.step = "row" /\ u \in User
        /\ old.op \in {"read", "delivered"}
    BY <1>5, <1>y, ServingJob DEF ReadRow, At, Job
  <2>2. current = pointer /\ LoadMessage(delivered[u]) = delivered[u]
        /\ delivered[u] \in visible \cup {None}
    BY <2>1 DEF ReceiptsInv, PointersVisible, LoadMessage, PointerOf
  <2>3. Proceed(h, j) /\ UNCHANGED <<visible, deleted, read, delivered, announced>>
    BY <1>5 DEF ReadRow, PointerOf
  <2>4. /\ delivered[u] \in Pointer /\ delivered[u] \in Nat /\ pointer \in Nat
        /\ settled[u].delivered \in Nat /\ SettledOf(u, old.op) \in Nat
    BY <2>1, <1>y, PointersAreNumbers DEF TypeOK, PointerOf, SettledOf
  <2>5. old.target \in visible /\ old.target \in Nat /\ old.target # None
    <3>1. old.target \in visible
      BY <2>1 DEF ReceiptsInv, CallsAhead, CallAhead
    <3> QED  BY <3>1, <1>y, Places DEF TypeOK
  <2>6. pointer >= SettledOf(u, old.op) /\ delivered[u] >= settled[u].delivered
    BY <2>1 DEF ReceiptsInv, SettledPointersKept, PointerOf, SettledOf
  <2>7. old.op = "delivered" => pointer = delivered[u]
    BY DEF PointerOf
  <2> HIDE DEF current, pointer
  <2>8. /\ j \in Job /\ j.target = old.target /\ j.op = old.op
        /\ j.delivered = delivered[u] /\ j.step = IF ahead THEN "view" ELSE "write"
    BY <2>1, <2>2, <2>4 DEF Job
  <2> HIDE DEF j
  <2>9. CASE ahead
    <3>1. job'[h] = j => CallAhead(h)'
      BY <2>8, <2>9 DEF CallAhead
    <3> QED  BY <2>3, <2>8, <3>1, ProceedStep
  <2>10. CASE ~ahead
    <3>1. old.target > pointer
      BY <2>2, <2>4, <2>5, <2>10 DEF None
    <3>2. old.target > SettledOf(u, old.op) /\ (old.op = "delivered" => old.target > delivered[u])
      BY <2>4, <2>5, <2>6, <2>7, <3>1
    <3>3. settled' = settled
      BY <2>3 DEF Proceed
    <3>4. j.target > SettledOf(ServedUser[h], j.op)
      BY <2>8, <3>2
    <3>5. /\ j.target \in visible /\ j.delivered \in visible \cup {None}
          /\ j.delivered >= settled[ServedUser[h]].delivered /\ j.step = "write"
          /\ j.op = "delivered" => j.target > j.delivered
      BY <2>2, <2>5, <2>6, <2>8, <2>10, <3>2
    <3>6. ASSUME job'[h] = j PROVE CallAhead(h)'
      BY <2>3, <3>3, <3>4, <3>5, <3>6 DEF CallAhead, SettledOf
    <3> QED  BY <2>3, <2>8, <3>6, ProceedStep
  <2> QED  BY <2>9, <2>10
<1>6. ASSUME NEW h \in Handler, WriteDelivered(h)
      PROVE  ReceiptsInv'
  <2> DEFINE u == ServedUser[h]
             t == job[h].target
  <2>1. At(h, "write") /\ job[h].op = "delivered"
    BY <1>6 DEF WriteDelivered
  <2>2. u \in User /\ t \in visible /\ t > settled[u].delivered /\ t \in Nat
        /\ settled[u].delivered \in Nat
    BY <2>1, <1>y, AtWrite, PointersAreNumbers DEF SettledOf
  <2>3. read[u] \in visible \cup {None} /\ read[u] >= settled[u].read
    BY <2>2 DEF ReceiptsInv, PointersVisible, SettledPointersKept
  <2>4. read' = [read EXCEPT ![u] = read[u]] /\ delivered' = [delivered EXCEPT ![u] = t]
    BY <1>6, <2>2, <1>y DEF WriteDelivered, TypeOK
  <2>5. /\ Proceed(h, [job[h] EXCEPT !.step = "view"])
        /\ UNCHANGED <<visible, deleted, announced>> /\ t >= settled[u].delivered
    BY <1>6, <2>2 DEF WriteDelivered
  <2> QED  BY <2>1, <2>2, <2>3, <2>4, <2>5, WriteStep
<1>7. ASSUME NEW h \in Handler, WriteRead(h)
      PROVE  ReceiptsInv'
  <2> DEFINE u == ServedUser[h]
             t == job[h].target
             d == IF job[h].delivered > t THEN job[h].delivered ELSE t
  <2>1. At(h, "write") /\ job[h].op = "read"
    BY <1>7 DEF WriteRead
  <2>2. /\ u \in User /\ t \in visible /\ t > settled[u].read /\ t \in Nat
        /\ job[h].delivered \in visible \cup {None} /\ job[h].delivered \in Nat
        /\ job[h].delivered >= settled[u].delivered
    BY <2>1, AtWrite DEF SettledOf
  <2>3. settled[u].read \in Nat /\ settled[u].delivered \in Nat
    BY <2>2, <1>y, PointersAreNumbers
  <2>4. d \in visible \cup {None} /\ t >= settled[u].read /\ d >= settled[u].delivered
    BY <2>2, <2>3
  <2>5. read' = [read EXCEPT ![u] = t] /\ delivered' = [delivered EXCEPT ![u] = d]
    BY <1>7 DEF WriteRead
  <2>6. /\ Proceed(h, [job[h] EXCEPT !.step = "view"])
        /\ UNCHANGED <<visible, deleted, announced>>
    BY <1>7 DEF WriteRead
  <2> HIDE DEF d
  <2> QED  BY <2>1, <2>2, <2>4, <2>5, <2>6, WriteStep
<1>8. ASSUME NEW h \in Handler, View(h)
      PROVE  ReceiptsInv'
  <2> DEFINE u == ServedUser[h]
             p == PointerOf(u, job[h].op)
             j == [job[h] EXCEPT !.step = "emit", !.shown = Shown(job[h], p)]
  <2>1. job[h] \in Job /\ job[h] # Idle /\ job[h].step = "view" /\ u \in User
    BY <1>8, <1>y, ServingJob DEF View, At
  <2>2. UNCHANGED <<visible, deleted, read, delivered, announced>>
    BY <1>8 DEF View
  <2>3. CASE job[h].broadcast
    <3>1. /\ p \in Pointer /\ p \in Nat /\ job[h].target \in Pointer /\ job[h].target \in Nat
          /\ SettledOf(u, job[h].op) \in Nat
      BY <2>1, <1>y, Places, PointersAreNumbers DEF PointerOf, SettledOf, TypeOK, Job
    <3>2. p >= SettledOf(u, job[h].op)
      BY <2>1 DEF ReceiptsInv, SettledPointersKept, PointerOf, SettledOf
    <3>3. Shown(job[h], p) \in Pointer /\ Shown(job[h], p) >= SettledOf(u, job[h].op)
      BY <3>1, <3>2 DEF Shown, None
    <3>4. Proceed(h, j)
      BY <1>8, <2>3 DEF View, PointerOf
    <3>5. j \in Job /\ j.step = "emit" /\ j.shown = Shown(job[h], p) /\ j.op = job[h].op
      BY <2>1, <3>3 DEF Job
    <3> HIDE DEF j, p
    <3>6. ASSUME job'[h] = j PROVE CallAhead(h)'
      <4>1. settled' = settled
        BY <3>4 DEF Proceed
      <4> QED  BY <3>3, <3>5, <3>6, <4>1 DEF CallAhead, SettledOf
    <3> QED  BY <2>2, <3>4, <3>5, <3>6, ProceedStep
  <2>4. CASE ~job[h].broadcast
    <3>1. End(h) /\ announced' \in [User -> Pointers]
      BY <1>8, <1>y, <2>4 DEF View, TypeOK
    <3> QED  BY <2>2, <3>1, EndStep
  <2> QED  BY <2>3, <2>4
<1>9. ASSUME NEW h \in Handler, Emit(h)
      PROVE  ReceiptsInv'
  <2>1. job[h] \in Job /\ ServedUser[h] \in User
    BY <1>9, <1>y, ServingJob DEF Emit, At
  <2>2. End(h) /\ UNCHANGED <<visible, deleted, read, delivered>>
    BY <1>9 DEF Emit
  <2>3. job[h].shown \in Pointer /\ announced[ServedUser[h]] \in Pointers
    BY <2>1, <1>y DEF Job, TypeOK
  <2>4. announced' \in [User -> Pointers]
    BY <1>9, <2>1, <2>3, <1>y DEF Emit, TypeOK, Pointers
  <2> QED  BY <2>2, <2>4, EndStep
<1>10. ASSUME NEW h \in Handler, Abort(h)
       PROVE  ReceiptsInv'
  <2>1. End(h) /\ UNCHANGED <<visible, deleted, read, delivered, announced>>
    BY <1>10 DEF Abort
  <2>2. announced' \in [User -> Pointers]
    BY <2>1, <1>y DEF TypeOK
  <2> QED  BY <2>1, <2>2, EndStep
<1>11. CASE UNCHANGED vars
  BY <1>11 DEF vars, ReceiptsInv, TypeOK, PointersVisible, SettledPointersKept, CallsAhead,
               CallAhead, SettledOf
<1> QED
  BY <1>1, <1>2, <1>3, <1>4, <1>5, <1>6, <1>7, <1>8, <1>9, <1>10, <1>11 DEF Next

\* A step that is not the write of an overtaken call leaves what is read
\* delivered.
LEMMA DeliveredStep ==
  ASSUME ReceiptsInv, [Next]_vars
  PROVE  ReadStaysDelivered
<1> SUFFICES ASSUME NEW u \in User, read[u] <= delivered[u],
                    ~(\E h \in Handler : ServedUser[h] = u /\ Overtaken(h))
             PROVE  read'[u] <= delivered'[u]
  BY DEF ReadStaysDelivered
<1>y. TypeOK /\ read[u] \in Nat /\ delivered[u] \in Nat
  BY PointersAreNumbers DEF ReceiptsInv
<1>1. ASSUME NEW h \in Handler, WriteDelivered(h)
      PROVE  read'[u] <= delivered'[u]
  <2>1. At(h, "write") /\ job[h].op = "delivered" /\ read' = read
        /\ delivered' = [delivered EXCEPT ![ServedUser[h]] = job[h].target]
    BY <1>1 DEF WriteDelivered
  <2>2. job[h].target \in Nat /\ job[h].delivered \in Nat /\ job[h].target > job[h].delivered
    BY <2>1, AtWrite
  <2>3. CASE ServedUser[h] = u
    <3>1. job[h].delivered = delivered[u]
      BY <2>1, <2>3 DEF Overtaken
    <3> QED  BY <1>y, <2>1, <2>2, <2>3, <3>1 DEF TypeOK
  <2>4. CASE ServedUser[h] # u
    BY <1>y, <2>1, <2>4 DEF TypeOK
  <2> QED  BY <2>3, <2>4
<1>2. ASSUME NEW h \in Handler, WriteRead(h)
      PROVE  read'[u] <= delivered'[u]
  <2>1. job[h].target \in Nat /\ job[h].delivered \in Nat
    BY <1>2, AtWrite DEF WriteRead
  <2> QED  BY <1>2, <1>y, <2>1 DEF WriteRead, TypeOK
<1>3. CASE UNCHANGED <<read, delivered>>
  BY <1>3
<1> QED
  BY <1>1, <1>2, <1>3
     DEF Next, vars, Arrive, Recall, Start, ResolveNamed, ResolveNewest, ReadRow, View, Emit, Abort

\* A receipt is sent that is not behind the settled pointers.
LEMMA ReceiptStep ==
  ASSUME ReceiptsInv, [Next]_vars
  PROVE  NoReceiptBehindSettled
<1> SUFFICES ASSUME NEW u \in User
             PROVE  /\ announced'[u].read # announced[u].read =>
                         announced'[u].read >= settled[u].read
                    /\ announced'[u].delivered # announced[u].delivered =>
                         announced'[u].delivered >= settled[u].delivered
  BY DEF NoReceiptBehindSettled
<1>1. ASSUME NEW h \in Handler, Emit(h)
      PROVE  /\ announced'[u].read # announced[u].read =>
                  announced'[u].read >= settled[u].read
             /\ announced'[u].delivered # announced[u].delivered =>
                  announced'[u].delivered >= settled[u].delivered
  <2>1. TypeOK /\ job[h] \in Job /\ job[h] # Idle /\ job[h].step = "emit"
    BY <1>1, ServingJob DEF Emit, At, ReceiptsInv
  <2>2. job[h].shown >= SettledOf(ServedUser[h], job[h].op)
    BY <2>1 DEF ReceiptsInv, CallsAhead, CallAhead
  <2>3. announced[u] \in [read : Pointer, delivered : Pointer]
    BY <2>1 DEF TypeOK, Pointers
  <2>4. CASE ServedUser[h] = u /\ job[h].op = "read"
    <3>1. announced'[u] = [announced[u] EXCEPT !.read = job[h].shown]
      BY <1>1, <2>1, <2>4 DEF Emit, TypeOK
    <3> QED  BY <2>2, <2>3, <2>4, <3>1 DEF SettledOf
  <2>5. CASE ServedUser[h] = u /\ job[h].op = "delivered"
    <3>1. announced'[u] = [announced[u] EXCEPT !.delivered = job[h].shown]
      BY <1>1, <2>1, <2>5 DEF Emit, TypeOK
    <3> QED  BY <2>2, <2>3, <2>5, <3>1 DEF SettledOf
  <2>6. CASE ServedUser[h] # u
    <3>1. announced'[u] = announced[u]
      BY <1>1, <2>1, <2>6 DEF Emit, TypeOK
    <3> QED  BY <3>1
  <2> QED  BY <2>1, <2>4, <2>5, <2>6 DEF Job
<1>2. CASE UNCHANGED announced
  BY <1>2
<1> QED
  BY <1>1, <1>2
     DEF Next, vars, Arrive, Recall, Start, ResolveNamed, ResolveNewest, ReadRow,
         WriteDelivered, WriteRead, View, Abort

------------------------------------------------------------------------------
(* Theorems *)

\* The invariant holds in every state.
LEMMA ReceiptsInvariant == Spec => []ReceiptsInv
<1>1. Init => ReceiptsInv
  BY ReceiptsInit
<1>2. ReceiptsInv /\ [Next]_vars => ReceiptsInv'
  BY ReceiptsStep
<1> QED  BY <1>1, <1>2, PTL DEF Spec

\* Type correctness of the pointers, the calls under way and the receipts sent.
THEOREM ReceiptsTypeCorrect == Spec => []TypeOK
<1>1. ReceiptsInv => TypeOK
  BY DEF ReceiptsInv
<1> QED  BY <1>1, ReceiptsInvariant, PTL

\* Whatever calls of a user overlap, and over recalled messages too, his
\* pointers never fall behind where they last were settled (advanceRead and
\* advanceDelivered).
THEOREM SettledPointersStay == Spec => []SettledPointersKept
<1>1. ReceiptsInv => SettledPointersKept
  BY DEF ReceiptsInv
<1> QED  BY <1>1, ReceiptsInvariant, PTL

\* Only a call whose row was changed under it can leave a user with more read
\* than delivered.
THEOREM ReadIsDelivered == Spec => ReadWithinDelivered
<1>1. ReceiptsInv /\ [Next]_vars => [ReadStaysDelivered]_vars
  BY DeliveredStep
<1> QED  BY <1>1, ReceiptsInvariant, PTL DEF Spec, ReadWithinDelivered

\* However late a receipt is sent, it is not behind what was settled before its
\* call.
THEOREM ReceiptsAreCurrent == Spec => ReceiptsKeepUp
<1>1. ReceiptsInv /\ [Next]_vars => [NoReceiptBehindSettled]_vars
  BY ReceiptStep
<1> QED  BY <1>1, ReceiptsInvariant, PTL DEF Spec, ReceiptsKeepUp
=============================================================================
