---------------------------- MODULE SessionsProofs ----------------------------
(****************************************************************************)
(* Proofs about Sessions, for any accounts, devices, tokens and number of    *)
(* concurrent calls.  IInv is inductive: besides the types it says that row  *)
(* locks exclude each other, that a locked token is not revoked, and that    *)
(* the UPDATE of a login has found every unrevoked token of its device as    *)
(* long as the login holds the device.                                       *)
(****************************************************************************)
EXTENDS Sessions, TLAPS

\* A token that has been issued belongs to a device of an existing account.
TokensOwned ==
  \A t \in Token : ~Unused(t) => token[t].device \in Device /\ Owner[token[t].device] \in users

\* What a call has found and locked, for each kind of call.
Shape(r) ==
  /\ \A t \in r.got : Unrevoked(t)
  /\ \A t \in r.todo : ~Unused(t)
  /\ r.op = "none" => r = IdleJob
  /\ r.op = "open" =>
       /\ r.step \in {"upsert", "find", "update"}
       /\ \E d \in Device : r.devs = {d} /\ Owner[d] \in users
       /\ r.step # "update" => r.got = {} /\ r.todo = {}
       /\ r.step # "upsert" => r.held = r.devs
       /\ r.step = "upsert" => r.held = {}
       /\ r.step = "update" => UnrevokedOf(r.devs) \subseteq r.todo \cup r.got
       /\ \A t \in r.todo \cup r.got : token[t].device \in r.devs
  /\ r.op = "refresh" =>
       /\ r.step \in {"claim", "devices"}
       /\ r.old \in Token /\ ~Unused(r.old) /\ r.devs = {token[r.old].device}
       /\ r.held = {}
       /\ r.step = "claim" => r.got = {}
       /\ r.step = "devices" => r.got = {r.old}
  /\ r.op = "revoke" =>
       /\ r.step \in {"find", "update", "devices"}
       /\ r.step = "find" => r.got = {}
       /\ r.step # "devices" => r.held = {}

\* Two calls have locked different rows.
Apart(r, s) == r.got \cap s.got = {} /\ r.held \cap s.held = {}

IInv ==
  /\ TypeOK
  /\ OneTokenPerDevice
  /\ TokensOwned
  /\ \A j \in Job : Shape(job[j])
  /\ \A j, k \in Job : j # k => Apart(job[j], job[k])

LEMMA IdleShape == IdleJob \in JobState /\ Shape(IdleJob)
  BY SessionConstants DEF IdleJob, JobState, Shape

\* A step that changes one call only keeps IInv when the call keeps its shape
\* and locks nothing another call has locked.
LEMMA JobChange ==
  ASSUME IInv, NEW j \in Job, NEW n \in JobState, Shape(n),
         \A k \in Job \ {j} : Apart(n, job[k]),
         job' = [job EXCEPT ![j] = n], UNCHANGED <<users, device, token, parent>>
  PROVE  IInv'
<1>1. TypeOK'
  BY DEF IInv, TypeOK
<1>2. OneTokenPerDevice' /\ TokensOwned'
  BY DEF IInv, OneTokenPerDevice, TokensOwned, Unrevoked, Unused
<1>3. ASSUME NEW k \in Job PROVE Shape(job[k])'
  <2>1. job'[k] = IF k = j THEN n ELSE job[k]
    BY DEF IInv, TypeOK
  <2>2. Shape(job'[k])
    BY <2>1 DEF IInv
  <2> QED
    BY <2>2 DEF Shape, Unrevoked, UnrevokedOf, Unused, IdleJob
<1>4. ASSUME NEW k \in Job, NEW l \in Job, k # l PROVE Apart(job[k], job[l])'
  <2>1. \A i \in Job : job'[i] = IF i = j THEN n ELSE job[i]
    BY DEF IInv, TypeOK
  <2> QED
    BY <1>4, <2>1 DEF IInv, Apart
<1> QED
  BY <1>1, <1>2, <1>3, <1>4 DEF IInv

\* A call that ends without writing anything.
LEMMA JobEnds ==
  ASSUME IInv, NEW j \in Job, Finish(j), UNCHANGED <<users, device, token, parent>>
  PROVE  IInv'
<1>1. \A k \in Job \ {j} : Apart(IdleJob, job[k])
  BY DEF Apart, IdleJob
<1> QED
  BY <1>1, IdleShape, JobChange DEF Finish

LEMMA StartLoginInv == ASSUME IInv, NEW j \in Job, NEW d \in Device, StartLogin(j, d) PROVE IInv'
<1> DEFINE n == [IdleJob EXCEPT !.op = "open", !.step = "upsert", !.devs = {d}]
<1>1. n \in JobState
  BY IdleShape DEF JobState, IdleJob
<1>2. Shape(n)
  BY DEF StartLogin, Shape, IdleJob
<1>3. \A k \in Job \ {j} : Apart(n, job[k])
  BY DEF Apart, IdleJob
<1> QED
  BY <1>1, <1>2, <1>3, JobChange DEF StartLogin

LEMMA UpsertInv == ASSUME IInv, NEW j \in Job, Upsert(j) PROVE IInv'
<1> DEFINE n == [job[j] EXCEPT !.step = "find", !.held = job[j].devs]
<1>1. job[j] \in JobState /\ Shape(job[j]) /\ job[j].step = "upsert"
  BY DEF Upsert, IInv, TypeOK
<1>2. job[j].op = "open"
  BY <1>1 DEF Shape, JobState, IdleJob
<1>3. n \in JobState
  BY <1>1 DEF JobState
<1>4. Shape(n)
  BY <1>1, <1>2 DEF Shape, JobState
<1>5. \A k \in Job \ {j} : Apart(n, job[k])
  BY <1>1 DEF Upsert, DeviceFree, Apart, IInv, JobState
<1>6. job' = [job EXCEPT ![j] = n]
  BY <1>1 DEF Upsert, IInv, TypeOK
<1> QED
  BY <1>3, <1>4, <1>5, <1>6, JobChange DEF Upsert

LEMMA FindTokensInv == ASSUME IInv, NEW j \in Job, FindTokens(j) PROVE IInv'
<1> DEFINE n == [job[j] EXCEPT !.step = "update", !.todo = UnrevokedOf(job[j].devs)]
<1>1. job[j] \in JobState /\ Shape(job[j]) /\ job[j].step = "find"
  BY DEF FindTokens, IInv, TypeOK
<1>2. n \in JobState
  BY <1>1 DEF JobState, UnrevokedOf
<1>3. job[j].op \in {"open", "revoke"} /\ job[j].got = {}
  BY <1>1 DEF Shape, JobState, IdleJob
<1>4. Shape(n)
  BY <1>1, <1>3 DEF Shape, JobState, UnrevokedOf, Unrevoked, Unused
<1>5. \A k \in Job \ {j} : Apart(n, job[k])
  BY <1>1 DEF Apart, IInv, JobState
<1>6. job' = [job EXCEPT ![j] = n]
  BY <1>1 DEF FindTokens, IInv, TypeOK
<1> QED
  BY <1>2, <1>4, <1>5, <1>6, JobChange DEF FindTokens

LEMMA RevokeTokenInv ==
  ASSUME IInv, NEW j \in Job, NEW t \in Token, RevokeToken(j, t) PROVE IInv'
<1> DEFINE n == [job[j] EXCEPT !.todo = job[j].todo \ {t},
                               !.got = IF Unrevoked(t) THEN job[j].got \cup {t} ELSE job[j].got]
<1>1. job[j] \in JobState /\ Shape(job[j]) /\ job[j].step = "update" /\ t \in job[j].todo
  BY DEF RevokeToken, IInv, TypeOK
<1>2. n \in JobState
  BY <1>1 DEF JobState
<1>3. job[j].op \in {"open", "revoke"}
  BY <1>1 DEF Shape, JobState, IdleJob
<1>4. Shape(n)
  <2>1. \A s \in n.got : Unrevoked(s)
    BY <1>1 DEF Shape, JobState
  <2>2. CASE job[j].op = "open"
    <3>1. UnrevokedOf(n.devs) \subseteq n.todo \cup n.got
      BY <1>1, <2>2 DEF Shape, JobState, UnrevokedOf
    <3> QED
      BY <1>1, <2>1, <2>2, <3>1 DEF Shape, JobState
  <2>3. CASE job[j].op = "revoke"
    BY <1>1, <2>1, <2>3 DEF Shape, JobState
  <2> QED
    BY <1>3, <2>2, <2>3
<1>5. \A k \in Job \ {j} : Apart(n, job[k])
  <2>1. \A k \in Job \ {j} : t \notin job[k].got
    BY DEF RevokeToken, TokenFree
  <2> QED
    BY <1>1, <2>1 DEF Apart, IInv, JobState
<1>6. job' = [job EXCEPT ![j] = n]
  BY <1>1 DEF RevokeToken, IInv, TypeOK
<1> QED
  BY <1>2, <1>4, <1>5, <1>6, JobChange DEF RevokeToken

LEMMA FindRefreshInv ==
  ASSUME IInv, NEW j \in Job, NEW t \in Token, FindRefresh(j, t) PROVE IInv'
<1> DEFINE n == [IdleJob EXCEPT !.op = "refresh", !.step = "claim", !.old = t,
                                !.devs = {token[t].device}]
<1>1. ~Unused(t) /\ token[t].device \in Device
  BY DEF FindRefresh, IInv, TokensOwned, Unused
<1>2. n \in JobState
  BY <1>1, IdleShape DEF JobState, IdleJob
<1>3. Shape(n)
  BY <1>1 DEF Shape, IdleJob
<1>4. \A k \in Job \ {j} : Apart(n, job[k])
  BY DEF Apart, IdleJob
<1> QED
  BY <1>2, <1>3, <1>4, JobChange DEF FindRefresh

LEMMA ClaimInv == ASSUME IInv, NEW j \in Job, Claim(j) PROVE IInv'
<1> DEFINE t == job[j].old
<1> DEFINE n == [job[j] EXCEPT !.step = "devices", !.got = {t}]
<1>1. job[j] \in JobState /\ Shape(job[j]) /\ job[j].step = "claim"
  BY DEF Claim, IInv, TypeOK
<1>2. job[j].op = "refresh"
  BY <1>1 DEF Shape, JobState, IdleJob
<1>3. t \in Token /\ TokenFree(j, t)
  BY <1>1, <1>2 DEF Shape, Claim
<1>4. CASE Unrevoked(t)
  <2>1. n \in JobState
    BY <1>1, <1>3 DEF JobState
  <2>2. Shape(n)
    BY <1>1, <1>2, <1>4 DEF Shape, JobState
  <2>3. \A k \in Job \ {j} : Apart(n, job[k])
    BY <1>1, <1>3 DEF TokenFree, Apart, IInv, JobState
  <2>4. job' = [job EXCEPT ![j] = n]
    BY <1>1, <1>4 DEF Claim, IInv, TypeOK
  <2> QED
    BY <2>1, <2>2, <2>3, <2>4, JobChange DEF Claim
<1>5. CASE ~Unrevoked(t)
  <2>1. Finish(j) /\ UNCHANGED <<users, device, token, parent>>
    BY <1>5 DEF Claim, Finish
  <2> QED
    BY <2>1, JobEnds
<1> QED
  BY <1>4, <1>5

LEMMA StartRevokeInv ==
  ASSUME IInv, NEW j \in Job, NEW D \in SUBSET Device, StartRevoke(j, D) PROVE IInv'
<1> DEFINE n == [IdleJob EXCEPT !.op = "revoke", !.step = "find", !.devs = D]
<1>1. n \in JobState
  BY IdleShape DEF JobState, IdleJob
<1>2. Shape(n)
  BY DEF Shape, IdleJob
<1>3. \A k \in Job \ {j} : Apart(n, job[k])
  BY DEF Apart, IdleJob
<1> QED
  BY <1>1, <1>2, <1>3, JobChange DEF StartRevoke

LEMMA FindDevicesInv == ASSUME IInv, NEW j \in Job, FindDevices(j) PROVE IInv'
<1> DEFINE n == [job[j] EXCEPT !.step = "devices",
                               !.devs = {d \in job[j].devs : device[d].known}]
<1>1. job[j] \in JobState /\ Shape(job[j]) /\ job[j].op = "revoke"
  BY DEF FindDevices, IInv, TypeOK
<1>2. n \in JobState
  BY <1>1 DEF JobState
<1>3. Shape(n)
  BY <1>1 DEF Shape, JobState
<1>4. \A k \in Job \ {j} : Apart(n, job[k])
  BY <1>1 DEF Apart, IInv, JobState
<1>5. job' = [job EXCEPT ![j] = n]
  BY <1>1 DEF FindDevices, IInv, TypeOK
<1> QED
  BY <1>2, <1>3, <1>4, <1>5, JobChange DEF FindDevices

LEMMA LockDeviceInv ==
  ASSUME IInv, NEW j \in Job, NEW d \in Device, LockDevice(j, d) PROVE IInv'
<1> DEFINE n == [job[j] EXCEPT !.held = job[j].held \cup {d}]
<1>1. job[j] \in JobState /\ Shape(job[j]) /\ job[j].op = "revoke" /\ job[j].step = "devices"
  BY DEF LockDevice, IInv, TypeOK
<1>2. n \in JobState
  BY <1>1 DEF JobState
<1>3. Shape(n)
  BY <1>1 DEF Shape, JobState
<1>4. \A k \in Job \ {j} : Apart(n, job[k])
  BY <1>1 DEF LockDevice, DeviceFree, Apart, IInv, JobState
<1>5. job' = [job EXCEPT ![j] = n]
  BY <1>1 DEF LockDevice, IInv, TypeOK
<1> QED
  BY <1>2, <1>3, <1>4, <1>5, JobChange DEF LockDevice

------------------------------------------------------------------------------
(* Steps that write tokens *)

\* What such a step does to a call other than the one that commits.
LEMMA OthersKeepShape ==
  ASSUME IInv, NEW k \in Job, job'[k] = job[k], users \subseteq users',
         \A t \in Token : ~Unused(t) => ~Unused(t)' /\ token'[t].device = token[t].device,
         \A t \in job[k].got : Unrevoked(t)',
         \A t \in Token : job[k].op = "open" /\ Unrevoked(t)' /\ ~Unrevoked(t) =>
                          token'[t].device \notin job[k].held
  PROVE  Shape(job[k])'
<1>1. job[k] \in JobState /\ Shape(job[k])
  BY DEF IInv, TypeOK
<1>2. \A t \in job[k].todo \cup job[k].got : t \in Token /\ ~Unused(t)
  BY <1>1 DEF Shape, JobState, Unrevoked, Unused
<1>3. (\A t \in job[k].got : Unrevoked(t))' /\ (\A t \in job[k].todo : ~Unused(t))'
  BY <1>2
<1>4. CASE job[k].op = "open"
  <2>1. ASSUME job[k].step = "update", NEW t \in UnrevokedOf(job[k].devs)'
        PROVE  t \in job[k].todo \cup job[k].got
    <3>1. t \in Token /\ Unrevoked(t)' /\ token'[t].device \in job[k].devs
      BY <2>1 DEF UnrevokedOf
    <3>2. job[k].held = job[k].devs
      BY <1>1, <1>4, <2>1 DEF Shape
    <3>3. Unrevoked(t) /\ token[t].device \in job[k].devs
      BY <1>4, <3>1, <3>2 DEF Unrevoked, Unused
    <3> QED
      BY <1>1, <1>4, <2>1, <3>1, <3>3 DEF Shape, UnrevokedOf
  <2>2. (job[k].step = "update" => UnrevokedOf(job[k].devs) \subseteq job[k].todo \cup job[k].got)'
    BY <2>1
  <2>3. (\A t \in job[k].todo \cup job[k].got : token[t].device \in job[k].devs)'
    BY <1>1, <1>2, <1>4 DEF Shape
  <2> QED
    BY <1>1, <1>3, <1>4, <2>2, <2>3 DEF Shape
<1>5. CASE job[k].op = "refresh"
  <2>1. (job[k].old \in Token /\ ~Unused(job[k].old) /\ job[k].devs = {token[job[k].old].device})'
    BY <1>1, <1>5 DEF Shape
  <2> QED
    BY <1>1, <1>3, <1>5, <2>1 DEF Shape
<1>6. CASE job[k].op = "revoke"
  BY <1>1, <1>3, <1>6 DEF Shape
<1>7. CASE job[k].op = "none"
  BY <1>1, <1>3, <1>7 DEF Shape, IdleJob
<1> QED
  BY <1>1, <1>4, <1>5, <1>6, <1>7 DEF JobState

\* Every call ends or is left alone by a step that revokes T (and issues a
\* token to the devices D, which no login holds).
Bystanders(T, D) ==
  \A k \in Job : \/ job'[k] = IdleJob
                 \/ /\ job'[k] = job[k]
                    /\ T \cap job[k].got = {}
                    /\ job[k].op = "open" => D \cap job[k].held = {}

\* The calls after such a step.
LEMMA JobsAfter ==
  ASSUME IInv, job' \in [Job -> JobState],
         \A k \in Job : Shape(job[k])' /\ (job'[k] = IdleJob \/ job'[k] = job[k])
  PROVE  /\ \A k \in Job : Shape(job[k])'
         /\ \A j, k \in Job : j # k => Apart(job[j], job[k])'
BY DEF IInv, Apart, IdleJob

\* Revoking tokens of which no other call holds one keeps IInv.
LEMMA RevokingKeeps ==
  ASSUME IInv, NEW T \in SUBSET Token, \A t \in T : ~Unused(t), Bystanders(T, {}),
         token' = Revoked(T), job' \in [Job -> JobState],
         device' \in [Device -> DeviceRow], UNCHANGED <<users, parent>>
  PROVE  IInv'
<1>1. \A t \in Token : token'[t] \in TokenRow /\ token'[t].device = token[t].device
                       /\ token'[t].state = IF t \in T THEN "revoked" ELSE token[t].state
  BY DEF Revoked, IInv, TypeOK, TokenRow
<1>2. TypeOK'
  BY <1>1 DEF IInv, TypeOK, Revoked
<1>3. OneTokenPerDevice' /\ TokensOwned'
  BY <1>1 DEF IInv, OneTokenPerDevice, TokensOwned, Unrevoked, Unused
<1>4. \A t \in Token : /\ ~Unused(t) => ~Unused(t)' /\ token'[t].device = token[t].device
                       /\ Unrevoked(t)' => Unrevoked(t)
                       /\ t \notin T /\ Unrevoked(t) => Unrevoked(t)'
  BY <1>1 DEF Unused, Unrevoked
<1>5. ASSUME NEW k \in Job PROVE Shape(job[k])' /\ (job'[k] = IdleJob \/ job'[k] = job[k])
  <2>1. CASE job'[k] = IdleJob
    BY <2>1 DEF Shape, IdleJob
  <2>2. CASE job'[k] = job[k] /\ T \cap job[k].got = {}
    <3>1. \A t \in job[k].got : Unrevoked(t)'
      BY <1>4, <2>2 DEF IInv, TypeOK, JobState, Shape
    <3> QED
      BY <1>4, <2>2, <3>1, OthersKeepShape
  <2> QED
    BY <2>1, <2>2 DEF Bystanders
<1> QED
  BY <1>2, <1>3, <1>5, JobsAfter DEF IInv

\* Issuing a fresh token to a device keeps IInv when every unrevoked token of
\* the device is revoked and no other call holds the device.
LEMMA IssuingKeeps ==
  ASSUME IInv, NEW T \in SUBSET Token, NEW t \in Token, NEW d \in Device,
         \A s \in T : ~Unused(s), Unused(t), UnrevokedOf({d}) \subseteq T,
         Bystanders(T, {d}), token' = Issued(T, t, d), job' \in [Job -> JobState],
         device' \in [Device -> DeviceRow], parent' \in [Token -> Token \cup {NoToken}],
         users \subseteq users', users' \subseteq User, Owner[d] \in users'
  PROVE  IInv'
<1>1. \A s \in Token : /\ token'[s] \in TokenRow
                       /\ s = t => token'[s] = [state |-> "live", device |-> d]
                       /\ s # t => /\ token'[s].device = token[s].device
                                   /\ token'[s].state = IF s \in T THEN "revoked"
                                                                   ELSE token[s].state
  BY DEF Issued, Revoked, IInv, TypeOK, TokenRow
<1>2. TypeOK'
  BY <1>1 DEF IInv, TypeOK, Issued, Revoked
<1>3. \A s \in Token : Unrevoked(s)' => s = t \/ (Unrevoked(s) /\ s \notin T)
  BY <1>1 DEF Unrevoked
<1>4. OneTokenPerDevice'
  <2>1. ASSUME NEW s \in Token, Unrevoked(s)', s # t PROVE token'[s].device # d
    BY <1>1, <1>3, <2>1 DEF UnrevokedOf
  <2> QED
    BY <1>1, <1>3, <2>1 DEF IInv, OneTokenPerDevice
<1>5. TokensOwned'
  BY <1>1 DEF IInv, TokensOwned, Unused
<1>6. \A s \in Token : /\ ~Unused(s) => ~Unused(s)' /\ token'[s].device = token[s].device
                       /\ s \notin T /\ Unrevoked(s) => Unrevoked(s)'
  BY <1>1 DEF Unused, Unrevoked
<1>7. ASSUME NEW k \in Job PROVE Shape(job[k])' /\ (job'[k] = IdleJob \/ job'[k] = job[k])
  <2>1. CASE job'[k] = IdleJob
    BY <2>1 DEF Shape, IdleJob
  <2>2. CASE job'[k] = job[k] /\ T \cap job[k].got = {} 
                          /\ (job[k].op = "open" => {d} \cap job[k].held = {})
    <3>1. \A s \in job[k].got : Unrevoked(s)'
      BY <1>6, <2>2 DEF IInv, TypeOK, JobState, Shape
    <3>2. \A s \in Token : job[k].op = "open" /\ Unrevoked(s)' /\ ~Unrevoked(s) =>
                            token'[s].device \notin job[k].held
      BY <1>1, <1>3, <2>2
    <3> QED
      BY <1>6, <2>2, <3>1, <3>2, OthersKeepShape
  <2> QED
    BY <2>1, <2>2 DEF Bystanders
<1> QED
  BY <1>2, <1>4, <1>5, <1>7, JobsAfter DEF IInv

LEMMA RegisterInv ==
  ASSUME IInv, NEW d \in Device, NEW t \in Token, Register(d, t) PROVE IInv'
<1>1. UnrevokedOf({d}) = {}
  BY DEF Register, IInv, TokensOwned, UnrevokedOf, Unrevoked, Unused
<1>2. Bystanders({}, {d})
  <2>1. \A k \in Job : job[k].op = "open" => d \notin job[k].held
    BY DEF Register, IInv, Shape
  <2> QED
    BY <2>1 DEF Bystanders, Register
<1>3. Owner[d] \in User
  BY SessionConstants
<1>4. device' \in [Device -> DeviceRow]
  BY DEF Register, IInv, TypeOK, DeviceRow
<1>5. Unused(t) /\ job' = job /\ parent' = parent /\ users' = users \cup {Owner[d]}
      /\ token' = Issued({}, t, d)
  BY DEF Register, Fresh
<1> QED
  BY <1>1, <1>2, <1>3, <1>4, <1>5, IssuingKeeps DEF IInv, TypeOK

\* What a committing call does to the others.
LEMMA CommitLeaves ==
  ASSUME IInv, NEW j \in Job, Finish(j), NEW D,
         \A k \in Job \ {j} : D \cap job[k].held = {}
  PROVE  Bystanders(job[j].got, D) /\ job' \in [Job -> JobState]
BY IdleShape DEF IInv, TypeOK, Finish, Bystanders, Apart

LEMMA CommitLoginInv ==
  ASSUME IInv, NEW j \in Job, NEW d \in Device, NEW t \in Token, CommitLogin(j, d, t)
  PROVE  IInv'
<1>1. job[j] \in JobState /\ Shape(job[j]) /\ job[j].op = "open" /\ job[j].step = "update"
      /\ job[j].todo = {} /\ d \in job[j].devs
  BY DEF CommitLogin, IInv, TypeOK
<1>2. job[j].devs = {d} /\ job[j].held = {d} /\ Owner[d] \in users
      /\ UnrevokedOf({d}) \subseteq job[j].got
  BY <1>1 DEF Shape
<1>3. \A s \in job[j].got : s \in Token /\ ~Unused(s)
  BY <1>1 DEF Shape, JobState, Unrevoked, Unused
<1>4. Bystanders(job[j].got, {d}) /\ job' \in [Job -> JobState]
  <2>1. \A k \in Job \ {j} : {d} \cap job[k].held = {}
    BY <1>2 DEF IInv, Apart
  <2> QED
    BY <2>1, CommitLeaves DEF CommitLogin
<1>5. device' \in [Device -> DeviceRow]
  BY DEF CommitLogin, IInv, TypeOK, DeviceRow
<1>6. Unused(t) /\ token' = Issued(job[j].got, t, d) /\ UNCHANGED <<users, parent>>
  BY DEF CommitLogin, Fresh
<1> QED
  BY <1>2, <1>3, <1>4, <1>5, <1>6, IssuingKeeps DEF IInv, TypeOK

\* A refresh that commits holds the one token of its device.
LEMMA RefreshHolds ==
  ASSUME IInv, NEW j \in Job, NEW t \in Token, CommitRefresh(j, t)
  PROVE  /\ job[j].old \in Token /\ Unrevoked(job[j].old)
         /\ job[j].got = {job[j].old}
         /\ token[job[j].old].device \in Device
         /\ job[j].devs = {token[job[j].old].device}
         /\ UnrevokedOf({token[job[j].old].device}) = {job[j].old}
<1>1. job[j] \in JobState /\ Shape(job[j]) /\ job[j].op = "refresh" /\ job[j].step = "devices"
  BY DEF CommitRefresh, IInv, TypeOK
<1>2. job[j].old \in Token /\ job[j].got = {job[j].old} /\ Unrevoked(job[j].old)
      /\ ~Unused(job[j].old) /\ job[j].devs = {token[job[j].old].device}
  BY <1>1 DEF Shape
<1>3. UnrevokedOf({token[job[j].old].device}) = {job[j].old}
  BY <1>2 DEF IInv, OneTokenPerDevice, UnrevokedOf
<1> QED
  BY <1>2, <1>3 DEF IInv, TokensOwned

LEMMA CommitRefreshInv ==
  ASSUME IInv, NEW j \in Job, NEW t \in Token, CommitRefresh(j, t) PROVE IInv'
<1> DEFINE d == token[job[j].old].device
<1>1. /\ job[j].old \in Token /\ ~Unused(job[j].old) /\ job[j].got = {job[j].old}
      /\ d \in Device /\ job[j].devs = {d} /\ UnrevokedOf({d}) = {job[j].old}
  BY RefreshHolds DEF Unrevoked, Unused
<1>2. Bystanders(job[j].got, {d}) /\ job' \in [Job -> JobState]
  <2>1. \A k \in Job \ {j} : {d} \cap job[k].held = {}
    BY <1>1 DEF CommitRefresh, DeviceFree
  <2> QED
    BY <2>1, CommitLeaves DEF CommitRefresh
<1>3. Unused(t) /\ token' = Issued(job[j].got, t, d) /\ UNCHANGED <<users, device>>
  BY DEF CommitRefresh, Fresh
<1>4. parent' \in [Token -> Token \cup {NoToken}]
  BY <1>1 DEF CommitRefresh, IInv, TypeOK
<1>5. Owner[d] \in users
  BY <1>1 DEF IInv, TokensOwned
<1>6. \A s \in job[j].got : s \in Token /\ ~Unused(s)
  BY <1>1
<1>7. users' \subseteq User /\ users \subseteq users' /\ device' \in [Device -> DeviceRow]
  BY <1>3 DEF IInv, TypeOK
<1> HIDE DEF d
<1> QED
  BY <1>1, <1>2, <1>3, <1>4, <1>5, <1>6, <1>7, IssuingKeeps

LEMMA LogoutInv == ASSUME IInv, NEW t \in Token, logout(t) PROVE IInv'
<1>1. Bystanders({t}, {}) /\ ~Unused(t)
  BY DEF logout, Bystanders, Unused
<1> QED
  BY <1>1, RevokingKeeps DEF logout, IInv, TypeOK

LEMMA CommitRevokeInv == ASSUME IInv, NEW j \in Job, CommitRevoke(j) PROVE IInv'
<1>1. \A s \in job[j].got : s \in Token /\ ~Unused(s)
  BY DEF IInv, TypeOK, JobState, Shape, Unrevoked, Unused
<1>2. Bystanders(job[j].got, {}) /\ job' \in [Job -> JobState]
  BY CommitLeaves DEF CommitRevoke
<1>3. device' \in [Device -> DeviceRow]
  BY DEF CommitRevoke, IInv, TypeOK, DeviceRow
<1> QED
  BY <1>1, <1>2, <1>3, RevokingKeeps DEF CommitRevoke

LEMMA LapseInv == ASSUME IInv, NEW t \in Token, Lapse(t) PROVE IInv'
<1>1. \A s \in Token : /\ token'[s] \in TokenRow /\ token'[s].device = token[s].device
                       /\ Unrevoked(s)' <=> Unrevoked(s)
                       /\ Unused(s)' <=> Unused(s)
  BY DEF Lapse, IInv, TypeOK, TokenRow, Unrevoked, Unused
<1>2. TypeOK' /\ OneTokenPerDevice' /\ TokensOwned'
  BY <1>1 DEF Lapse, IInv, TypeOK, OneTokenPerDevice, TokensOwned
<1>3. ASSUME NEW k \in Job PROVE Shape(job[k])'
  <2>1. \A s \in job[k].got : Unrevoked(s)'
    BY <1>1 DEF IInv, TypeOK, JobState, Shape
  <2> QED
    BY <1>1, <2>1, OthersKeepShape DEF Lapse
<1> QED
  BY <1>2, <1>3 DEF Lapse, IInv, Apart

LEMMA RestartInv == ASSUME IInv, Restart PROVE IInv'
<1>1. TypeOK' /\ OneTokenPerDevice' /\ TokensOwned'
  BY IdleShape DEF Restart, IInv, TypeOK, OneTokenPerDevice, TokensOwned, Unrevoked, Unused
<1>2. \A k \in Job : Shape(job[k])'
  BY DEF Restart, Shape, IdleJob
<1>3. \A j, k \in Job : Apart(job[j], job[k])'
  BY DEF Restart, Apart, IdleJob
<1> QED
  BY <1>1, <1>2, <1>3 DEF IInv

LEMMA StepInv == ASSUME IInv, [Next]_vars PROVE IInv'
<1>1. ASSUME NEW j \in Job, JobStep(j) PROVE IInv'
  BY <1>1, UpsertInv, FindTokensInv, ClaimInv, FindDevicesInv, CommitRevokeInv,
     RevokeTokenInv, CommitRefreshInv, LockDeviceInv, CommitLoginInv DEF JobStep
<1>2. ASSUME NEW S \in SUBSET Job, NEW j \in Job, AbortVictim(S, j) PROVE IInv'
  BY <1>2, JobEnds DEF AbortVictim
<1>3. CASE UNCHANGED vars
  <2>1. TypeOK' /\ OneTokenPerDevice' /\ TokensOwned'
    BY <1>3 DEF vars, IInv, TypeOK, OneTokenPerDevice, TokensOwned, Unrevoked, Unused
  <2>2. ASSUME NEW k \in Job PROVE Shape(job[k])'
    BY <1>3 DEF vars, IInv, Shape, Unrevoked, UnrevokedOf, Unused, IdleJob
  <2> QED
    BY <1>3, <2>1, <2>2 DEF vars, IInv, Apart
<1> QED
  BY <1>1, <1>2, <1>3, RegisterInv, StartLoginInv, FindRefreshInv, StartRevokeInv,
     LogoutInv, LapseInv, RestartInv DEF Next

LEMMA InitInv == Init => IInv
<1> SUFFICES ASSUME Init PROVE IInv
  OBVIOUS
<1>1. TypeOK /\ OneTokenPerDevice /\ TokensOwned
  BY IdleShape DEF Init, TypeOK, DeviceRow, TokenRow, OneTokenPerDevice, TokensOwned,
                   Unrevoked, Unused
<1>2. \A k \in Job : Shape(job[k])
  BY DEF Init, Shape, IdleJob
<1>3. \A j, k \in Job : Apart(job[j], job[k])
  BY DEF Init, Apart, IdleJob
<1> QED
  BY <1>1, <1>2, <1>3 DEF IInv

LEMMA SessionsInvariant == Spec => []IInv
  BY InitInv, StepInv, PTL DEF Spec

\* The tables and the calls keep their types.
THEOREM SessionsTypeCorrect == Spec => []TypeOK
<1>1. IInv => TypeOK
  BY DEF IInv
<1> QED
  BY <1>1, SessionsInvariant, PTL

\* A device is signed in with one token at most, for any number of devices and
\* of concurrent logins, refreshes, logouts and revocations.
THEOREM DeviceHasOneToken == Spec => []OneTokenPerDevice
<1>1. IInv => OneTokenPerDevice
  BY DEF IInv
<1> QED
  BY <1>1, SessionsInvariant, PTL

------------------------------------------------------------------------------
(* Sessions implements SessionStore *)

CurrentOf == [d \in Device |-> Current(d)]
Spent == {t \in Token : ~Unused(t)}

\* The token a device is signed in with is its one unrevoked token.
LEMMA CurrentIs ==
  ASSUME OneTokenPerDevice, NEW d \in Device
  PROVE  /\ \A t \in UnrevokedOf({d}) : Current(d) = t
         /\ UnrevokedOf({d}) = {} => Current(d) = NoToken
         /\ Current(d) # NoToken => Current(d) \in UnrevokedOf({d})
<1>1. \A t, u \in UnrevokedOf({d}) : t = u
  BY DEF OneTokenPerDevice, UnrevokedOf
<1>2. UnrevokedOf({d}) \subseteq Token
  BY DEF UnrevokedOf
<1>3. CASE UnrevokedOf({d}) = {}
  BY <1>3 DEF Current
<1>4. CASE UnrevokedOf({d}) # {}
  <2>1. PICK t \in Token : t \in UnrevokedOf({d})
    BY <1>2, <1>4
  <2>2. Current(d) = CHOOSE s \in Token : s \in UnrevokedOf({d})
    BY <1>4 DEF Current
  <2>3. Current(d) \in UnrevokedOf({d})
    BY <2>1, <2>2
  <2> QED
    BY <1>1, <1>4, <2>3
<1> QED
  BY <1>3, <1>4

\* A device whose unrevoked tokens stay the same stays signed in as it is.
LEMMA CurrentStays ==
  ASSUME IInv, NEW d \in Device, UnrevokedOf({d})' = UnrevokedOf({d})
  PROVE  Current(d)' = Current(d)
<1>1. CASE UnrevokedOf({d}) = {}
  BY <1>1 DEF Current
<1>2. CASE UnrevokedOf({d}) # {}
  <2>1. PICK t \in Token : t \in UnrevokedOf({d})
    BY <1>2 DEF UnrevokedOf
  <2>2. UnrevokedOf({d}) = {t}
    BY <2>1 DEF IInv, OneTokenPerDevice, UnrevokedOf
  <2>3. Current(d) = t /\ Current(d)' = t
    BY <2>2 DEF Current
  <2> QED
    BY <2>3
<1> QED
  BY <1>1, <1>2

\* A token issued to d takes the place of those of d and of no other device.
LEMMA IssueMaps ==
  ASSUME IInv, IInv', NEW T \in SUBSET Token, NEW t \in Token, NEW d \in Device,
         \A s \in T : token[s].device = d /\ ~Unused(s), Unused(t),
         token' = Issued(T, t, d)
  PROVE  /\ CurrentOf' = [CurrentOf EXCEPT ![d] = t]
         /\ Spent' = Spent \cup {t}
         /\ t \notin Spent
<1>1. \A s \in Token : /\ s = t => token'[s] = [state |-> "live", device |-> d]
                       /\ s # t => /\ token'[s].device = token[s].device
                                   /\ token'[s].state = IF s \in T THEN "revoked"
                                                                   ELSE token[s].state
  BY DEF Issued, Revoked, IInv, TypeOK, TokenRow
<1>2. Current(d)' = t
  <2>1. (t \in UnrevokedOf({d}))'
    BY <1>1 DEF UnrevokedOf, Unrevoked
  <2>2. UnrevokedOf({d})' = {t}
    BY <2>1 DEF IInv, OneTokenPerDevice, UnrevokedOf
  <2> QED
    BY <2>2 DEF Current
<1>3. ASSUME NEW e \in Device, e # d PROVE Current(e)' = Current(e)
  <2>1. \A s \in Token : (s \in UnrevokedOf({e}))' <=> s \in UnrevokedOf({e})
    BY <1>1, <1>3 DEF UnrevokedOf, Unrevoked, Unused
  <2>2. UnrevokedOf({e})' = UnrevokedOf({e})
    BY <2>1 DEF UnrevokedOf
  <2> QED
    BY <2>2, CurrentStays
<1>4. CurrentOf' = [CurrentOf EXCEPT ![d] = t]
  BY <1>2, <1>3 DEF CurrentOf
<1> QED
  BY <1>1, <1>4 DEF Spent, Unused

\* Revoking tokens signs out the devices whose token is among them.
LEMMA RevokeMaps ==
  ASSUME IInv, NEW T \in SUBSET Token, \A t \in T : Unrevoked(t), token' = Revoked(T)
  PROVE  /\ CurrentOf' = [d \in Device |-> IF d \in {e \in Device : Current(e) \in T}
                                           THEN NoToken ELSE CurrentOf[d]]
         /\ Spent' = Spent
<1>1. \A s \in Token : /\ token'[s].device = token[s].device
                       /\ token'[s].state = IF s \in T THEN "revoked" ELSE token[s].state
  BY DEF Revoked, IInv, TypeOK, TokenRow
<1>2. ASSUME NEW d \in Device, Current(d) \in T PROVE Current(d)' = NoToken
  <2>1. UnrevokedOf({d}) = {Current(d)}
    <3>1. Current(d) # NoToken
      BY <1>2, SessionConstants
    <3> QED
      BY <3>1, CurrentIs DEF IInv
  <2>2. UnrevokedOf({d})' = {}
    BY <1>1, <1>2, <2>1 DEF UnrevokedOf, Unrevoked
  <2> QED
    BY <2>2 DEF Current
<1>3. ASSUME NEW d \in Device, Current(d) \notin T PROVE Current(d)' = Current(d)
  <2>1. \A s \in UnrevokedOf({d}) : s \notin T
    BY <1>3, CurrentIs DEF IInv
  <2>2. UnrevokedOf({d})' = UnrevokedOf({d})
    BY <1>1, <2>1 DEF UnrevokedOf, Unrevoked
  <2> QED
    BY <2>2, CurrentStays
<1>4. CurrentOf' = [d \in Device |-> IF d \in {e \in Device : Current(e) \in T}
                                     THEN NoToken ELSE CurrentOf[d]]
  BY <1>2, <1>3 DEF CurrentOf
<1>5. Spent' = Spent
  BY <1>1 DEF Spent, Unused, Unrevoked
<1> QED
  BY <1>4, <1>5

\* A step that leaves the tokens alone, or only lets one expire, changes nothing.
LEMMA NothingMaps ==
  ASSUME IInv, \A t \in Token : /\ token'[t].device = token[t].device
                                /\ Unrevoked(t)' <=> Unrevoked(t)
                                /\ Unused(t)' <=> Unused(t)
  PROVE  CurrentOf' = CurrentOf /\ Spent' = Spent
<1>1. ASSUME NEW d \in Device PROVE Current(d)' = Current(d)
  <2>1. UnrevokedOf({d})' = UnrevokedOf({d})
    BY DEF UnrevokedOf
  <2> QED
    BY <2>1, CurrentStays
<1> QED
  BY <1>1 DEF CurrentOf, Spent

LEMMA ImplementsInit == Init => Store!Init
<1> SUFFICES ASSUME Init PROVE Store!Init
  OBVIOUS
<1>1. \A d \in Device : UnrevokedOf({d}) = {}
  BY DEF Init, UnrevokedOf, Unrevoked
<1>2. CurrentOf = [d \in Device |-> NoToken]
  BY <1>1 DEF CurrentOf, Current
<1>3. Spent = {}
  BY DEF Init, Spent, Unused
<1> QED
  BY <1>2, <1>3 DEF Init, Store!Init, CurrentOf, Spent

\* A login, a registration and a refresh issue a token.
LEMMA SignInMaps ==
  ASSUME IInv, IInv', NEW T \in SUBSET Token, NEW t \in Token, NEW d \in Device,
         \A s \in T : token[s].device = d /\ ~Unused(s), Unused(t),
         token' = Issued(T, t, d), parent' = parent
  PROVE  Store!Next
<1>1. Store!SignIn(d, t)
  BY IssueMaps DEF Store!SignIn, Store!Issue, CurrentOf, Spent
<1> QED
  BY <1>1 DEF Store!Next

LEMMA ExchangeMaps ==
  ASSUME IInv, IInv', NEW j \in Job, NEW t \in Token, CommitRefresh(j, t)
  PROVE  Store!Next
<1> DEFINE o == job[j].old
           d == token[o].device
<1>1. /\ o \in Token /\ ~Unused(o) /\ job[j].got = {o} /\ d \in Device
      /\ UnrevokedOf({d}) = {o}
  BY RefreshHolds DEF Unrevoked, Unused
<1>2. Current(d) = o /\ o # NoToken
  BY <1>1, CurrentIs, SessionConstants DEF IInv
<1>3. Unused(t) /\ token' = Issued({o}, t, d) /\ parent' = [parent EXCEPT ![t] = o]
  BY <1>1 DEF CommitRefresh, Fresh
<1>4. /\ CurrentOf' = [CurrentOf EXCEPT ![d] = t]
      /\ Spent' = Spent \cup {t}
      /\ t \notin Spent
  <2>1. \A s \in {o} : token[s].device = d /\ ~Unused(s)
    BY <1>1
  <2> HIDE DEF o, d
  <2> QED
    BY <1>1, <1>3, <2>1, IssueMaps
<1>5. CurrentOf[d] = o
  BY <1>1, <1>2 DEF CurrentOf
<1>6. Store!Exchange(d, t)
  <2> HIDE DEF o, d
  <2> QED
    BY <1>2, <1>3, <1>4, <1>5 DEF Store!Exchange, Store!Issue, CurrentOf, Spent
<1> QED
  BY <1>1, <1>6 DEF Store!Next

LEMMA SignOutMaps ==
  ASSUME IInv, NEW T \in SUBSET Token, \A t \in T : Unrevoked(t), token' = Revoked(T),
         parent' = parent
  PROVE  Store!Next
<1> DEFINE D == {e \in Device : Current(e) \in T}
<1>1. /\ CurrentOf' = [d \in Device |-> IF d \in D THEN NoToken ELSE CurrentOf[d]]
      /\ Spent' = Spent
  BY RevokeMaps
<1> HIDE DEF D
<1>2. Store!Revoke(D)
  BY <1>1 DEF Store!Revoke, CurrentOf, Spent
<1>3. D \in SUBSET Device
  BY DEF D
<1> QED
  BY <1>2, <1>3 DEF Store!Next

LEMMA StutterMaps ==
  ASSUME IInv, token' = token, parent' = parent
  PROVE  UNCHANGED Store!vars
<1>1. CurrentOf' = CurrentOf /\ Spent' = Spent
  BY NothingMaps DEF Unrevoked, Unused
<1> QED
  BY <1>1 DEF Store!vars, CurrentOf, Spent

LEMMA ImplementsStep == IInv /\ IInv' /\ [Next]_vars => [Store!Next]_(Store!vars)
<1> SUFFICES ASSUME IInv, IInv', [Next]_vars PROVE Store!Next \/ UNCHANGED Store!vars
  OBVIOUS
<1>1. ASSUME NEW d \in Device, NEW t \in Token, Register(d, t) PROVE Store!Next
  BY <1>1, SignInMaps DEF Register, Fresh
<1>2. ASSUME NEW j \in Job, NEW d \in Device, NEW t \in Token, CommitLogin(j, d, t)
      PROVE  Store!Next
  <2>1. \A s \in job[j].got : s \in Token /\ token[s].device = d /\ ~Unused(s)
    BY <1>2 DEF CommitLogin, IInv, TypeOK, JobState, Shape, Unrevoked, Unused
  <2> QED
    BY <1>2, <2>1, SignInMaps DEF CommitLogin, Fresh
<1>3. ASSUME NEW j \in Job, NEW t \in Token, CommitRefresh(j, t) PROVE Store!Next
  BY <1>3, ExchangeMaps
<1>4. ASSUME NEW t \in Token, logout(t) PROVE Store!Next
  BY <1>4, SignOutMaps DEF logout, Unrevoked
<1>5. ASSUME NEW j \in Job, CommitRevoke(j) PROVE Store!Next
  <2>1. \A s \in job[j].got : s \in Token /\ Unrevoked(s)
    BY DEF IInv, TypeOK, JobState, Shape
  <2> QED
    BY <1>5, <2>1, SignOutMaps DEF CommitRevoke
<1>6. ASSUME NEW t \in Token, Lapse(t) PROVE UNCHANGED Store!vars
  <2>1. \A s \in Token : /\ token'[s].device = token[s].device
                         /\ Unrevoked(s)' <=> Unrevoked(s)
                         /\ Unused(s)' <=> Unused(s)
    BY <1>6 DEF Lapse, IInv, TypeOK, TokenRow, Unrevoked, Unused
  <2>2. CurrentOf' = CurrentOf /\ Spent' = Spent
    BY <2>1, NothingMaps
  <2> QED
    BY <1>6, <2>2 DEF Lapse, Store!vars, CurrentOf, Spent
<1>7. ASSUME NEW j \in Job, JobStep(j) PROVE Store!Next \/ UNCHANGED Store!vars
  <2>1. CASE Upsert(j) \/ FindTokens(j) \/ Claim(j) \/ FindDevices(j)
             \/ (\E t \in Token : RevokeToken(j, t)) \/ (\E d \in Device : LockDevice(j, d))
    BY <2>1, StutterMaps DEF Upsert, FindTokens, Claim, FindDevices, RevokeToken, LockDevice
  <2> QED
    BY <1>2, <1>3, <1>5, <1>7, <2>1 DEF JobStep
<1>8. CASE \/ \E j \in Job, d \in Device : StartLogin(j, d)
           \/ \E j \in Job, t \in Token : FindRefresh(j, t)
           \/ \E j \in Job, D \in SUBSET Device : StartRevoke(j, D)
           \/ \E S \in SUBSET Job, j \in Job : AbortVictim(S, j)
           \/ Restart \/ UNCHANGED vars
  BY <1>8, StutterMaps DEF StartLogin, FindRefresh, StartRevoke, AbortVictim, Restart, vars
<1> QED
  BY <1>1, <1>4, <1>6, <1>7, <1>8 DEF Next

\* The services implement the abstract store: for the tokens every call is
\* atomic, and a token is exchanged once and only while it is its device's.
THEOREM SessionsImplement == Spec => ImplementsSessionStore
<1>1. IInv /\ [Next]_vars => IInv'
  BY StepInv
<1> QED
  BY ImplementsInit, ImplementsStep, SessionsInvariant, PTL
     DEF Spec, ImplementsSessionStore, Store!Spec

------------------------------------------------------------------------------
(* What follows from the refinement: a token is exchanged once *)

\* A token that a refresh has exchanged is revoked, and no other was issued for it.
ExchangedOnce ==
  \A t \in Token : parent[t] # NoToken =>
    /\ ~Unrevoked(parent[t])
    /\ \A u \in Token : parent[u] = parent[t] => u = t

\* The invariant of SessionStore behind it: devices hold different tokens that have
\* been issued, and so does nobody a token that has been exchanged.
StoreInv ==
  /\ parent = [t \in Token |-> parent[t]]
  /\ \A d \in Device : CurrentOf[d] \in Spent \cup {NoToken}
  /\ \A d, e \in Device : CurrentOf[d] = CurrentOf[e] /\ CurrentOf[d] # NoToken => d = e
  /\ \A t \in Token : parent[t] # NoToken =>
       /\ t \in Spent /\ parent[t] \in Spent
       /\ \A d \in Device : CurrentOf[d] # parent[t]
       /\ \A u \in Token : parent[u] = parent[t] => u = t

LEMMA StoreKeeps ==
  ASSUME StoreInv, [Store!Next]_(Store!vars)
  PROVE  StoreInv'
<1>1. CurrentOf = [d \in Device |-> CurrentOf[d]] /\ CurrentOf' = [d \in Device |-> CurrentOf'[d]]
  BY DEF CurrentOf
<1>2. ASSUME NEW d \in Device, NEW t \in Token \ Spent,
             CurrentOf' = [CurrentOf EXCEPT ![d] = t], Spent' = Spent \cup {t},
             \/ parent' = parent
             \/ CurrentOf[d] # NoToken /\ parent' = [parent EXCEPT ![t] = CurrentOf[d]]
      PROVE  StoreInv'
  <2>1. t # NoToken /\ parent[t] = NoToken
    BY SessionConstants DEF StoreInv
  <2>2. CurrentOf'[d] = t /\ \A e \in Device \ {d} : CurrentOf'[e] = CurrentOf[e]
    BY <1>1, <1>2
  <2>3. \A e \in Device : CurrentOf[e] # t
    BY <2>1 DEF StoreInv
  <2>4. /\ \A e \in Device : CurrentOf'[e] \in Spent' \cup {NoToken}
        /\ \A e, f \in Device : CurrentOf'[e] = CurrentOf'[f] /\ CurrentOf'[e] # NoToken => e = f
    BY <1>2, <2>2, <2>3 DEF StoreInv
  <2>5. CASE parent' = parent
    <3>1. \A u \in Token : parent[u] # NoToken => \A e \in Device : CurrentOf'[e] # parent[u]
      BY <1>2, <2>2 DEF StoreInv
    <3> QED  BY <1>2, <2>4, <2>5, <3>1 DEF StoreInv
  <2>6. CASE CurrentOf[d] # NoToken /\ parent' = [parent EXCEPT ![t] = CurrentOf[d]]
    <3>1. /\ parent'[t] = CurrentOf[d] /\ \A u \in Token \ {t} : parent'[u] = parent[u]
          /\ parent' = [u \in Token |-> parent'[u]]
      BY <2>6 DEF StoreInv
    <3>2. CurrentOf[d] \in Spent /\ \A e \in Device : CurrentOf'[e] # CurrentOf[d]
      BY <1>2, <2>2, <2>6 DEF StoreInv
    <3>3. ASSUME NEW u \in Token, parent'[u] # NoToken
          PROVE  /\ u \in Spent' /\ parent'[u] \in Spent'
                 /\ \A e \in Device : CurrentOf'[e] # parent'[u]
                 /\ \A v \in Token : parent'[v] = parent'[u] => v = u
      <4>1. CASE u = t
        <5>1. \A v \in Token \ {t} : parent[v] # CurrentOf[d]
          BY <2>6 DEF StoreInv
        <5> QED  BY <1>2, <3>1, <3>2, <4>1, <5>1
      <4>2. CASE u # t
        <5>1. parent[u] # CurrentOf[d] /\ parent[u] # t
          BY <1>2, <3>1, <3>3, <4>2 DEF StoreInv
        <5>2. \A e \in Device : CurrentOf'[e] # parent[u]
          BY <2>2, <3>1, <3>3, <4>2, <5>1 DEF StoreInv
        <5>3. \A v \in Token : parent'[v] = parent[u] => v = u
          BY <3>1, <3>3, <4>2, <5>1 DEF StoreInv
        <5>4. u \in Spent /\ parent[u] \in Spent /\ parent'[u] = parent[u]
          BY <3>1, <3>3, <4>2 DEF StoreInv
        <5> QED  BY <1>2, <5>2, <5>3, <5>4
      <4> QED  BY <4>1, <4>2
    <3> QED  BY <2>4, <3>1, <3>3 DEF StoreInv
  <2> QED  BY <1>2, <2>5, <2>6
<1>3. ASSUME NEW d \in Device, NEW t \in Token, Store!SignIn(d, t) \/ Store!Exchange(d, t)
      PROVE  StoreInv'
  <2>1. /\ t \in Token \ Spent
        /\ CurrentOf' = [CurrentOf EXCEPT ![d] = t] /\ Spent' = Spent \cup {t}
        /\ \/ parent' = parent
           \/ CurrentOf[d] # NoToken /\ parent' = [parent EXCEPT ![t] = CurrentOf[d]]
    BY <1>3 DEF Store!SignIn, Store!Exchange, Store!Issue, CurrentOf, Spent
  <2> QED  BY <1>2, <2>1
<1>4. ASSUME NEW D \in SUBSET Device, Store!Revoke(D)
      PROVE  StoreInv'
  <2>1. /\ CurrentOf' = [d \in Device |-> IF d \in D THEN NoToken ELSE CurrentOf[d]]
        /\ Spent' = Spent /\ parent' = parent
    BY <1>4 DEF Store!Revoke, CurrentOf, Spent
  <2>2. \A d \in Device : CurrentOf'[d] = NoToken \/ CurrentOf'[d] = CurrentOf[d]
    BY <2>1
  <2> QED  BY <2>1, <2>2 DEF StoreInv
<1>5. CASE UNCHANGED Store!vars
  <2>1. CurrentOf' = CurrentOf /\ Spent' = Spent /\ parent' = parent
    BY <1>5 DEF Store!vars, CurrentOf, Spent
  <2> QED  BY <2>1 DEF StoreInv
<1> QED  BY <1>3, <1>4, <1>5 DEF Store!Next

\* No token is exchanged twice, nor good after it has been: of two refreshes that
\* present one token at the same time, or late, only one is answered with another.
THEOREM TokensExchangedOnce == Spec => []ExchangedOnce
<1>1. Init => StoreInv
  <2> SUFFICES ASSUME Init PROVE StoreInv
    OBVIOUS
  <2>1. \A d \in Device : CurrentOf[d] = NoToken
    BY ImplementsInit DEF Store!Init, CurrentOf
  <2> QED  BY <2>1 DEF Init, StoreInv
<1>2. IInv /\ IInv' /\ StoreInv /\ [Next]_vars => StoreInv'
  BY ImplementsStep, StoreKeeps
<1>3. IInv /\ StoreInv => ExchangedOnce
  <2> SUFFICES ASSUME IInv, StoreInv, NEW t \in Token, parent[t] # NoToken, Unrevoked(parent[t])
               PROVE  FALSE
    BY DEF StoreInv, ExchangedOnce
  <2> DEFINE p == parent[t]
             d == token[p].device
  <2>1. p \in Token /\ d \in Device
    BY DEF IInv, TypeOK, TokensOwned, Unrevoked, Unused
  <2>2. p \in UnrevokedOf({d})
    BY <2>1 DEF UnrevokedOf
  <2>3. Current(d) = p
    BY <2>1, <2>2, CurrentIs DEF IInv
  <2> QED  BY <2>1, <2>3 DEF StoreInv, CurrentOf
<1> QED  BY <1>1, <1>2, <1>3, SessionsInvariant, PTL DEF Spec
==============================================================================
