------------------------------ MODULE Sessions ------------------------------
(****************************************************************************)
(* Sessions of the API: the tables user_devices and refresh_tokens, and the  *)
(* calls of AuthService and DevicesService that write them: registration,    *)
(* login (password, device OTP, QR), refresh, logout, logoutAll, the         *)
(* password reset and revokeSession.                                         *)
(*                                                                           *)
(* Each SQL statement that waits, or reads what another call may write, is a *)
(* step.  Transactions run at READ COMMITTED: an UPDATE finds its rows in    *)
(* what was committed when it started, waits for the row locks of others,    *)
(* and looks at each row again before it writes it.  A call's own writes are *)
(* published when it commits.  A refresh locks a token and then its device,  *)
(* a login locks a device and then its tokens: Postgres aborts one of the    *)
(* calls that wait for each other.                                           *)
(*                                                                           *)
(* A device is a row of user_devices: one account on one installation.  Left *)
(* out: access tokens, the rules of OTP codes, and the password, whose check *)
(* is a refusal that may come.                                               *)
(****************************************************************************)
EXTENDS Naturals, FiniteSets

CONSTANTS
  User, Device,
  Token,     \* the tokens, numbered in the order in which they are issued;
             \* bound: when all but one for each call are issued, none signs in
  Job,       \* the calls that may be handled at the same time
  Owner,     \* the account of each device
  NoToken, NoDevice

ASSUME SessionConstants ==
  /\ Owner \in [Device -> User]
  /\ Token \subseteq Nat
  /\ NoDevice \notin Device
  /\ NoToken \notin Token

VARIABLES
  users,   \* the accounts that exist
  device,  \* user_devices, committed
  token,   \* refresh_tokens, committed
  job,     \* the calls being handled
  parent   \* history: the token each token was exchanged for

vars == <<users, device, token, job, parent>>

DeviceRow == [known : BOOLEAN, active : BOOLEAN]

\* unused: not issued yet; lapsed: past its expires_at and not revoked.
TokenRow == [state : {"unused", "live", "lapsed", "revoked"},
             device : Device \cup {NoDevice}]

\* A call and the statement it makes next.  devs: the devices it is about;
\* old: the token presented; todo, got: the tokens an UPDATE has found and those
\* it has locked and revokes; held: the device rows it has locked.
JobState == [op : {"none", "open", "refresh", "revoke"},
             step : {"idle", "upsert", "find", "update", "claim", "devices"},
             devs : SUBSET Device, old : Token \cup {NoToken},
             todo : SUBSET Token, got : SUBSET Token, held : SUBSET Device]

IdleJob == [op |-> "none", step |-> "idle", devs |-> {}, old |-> NoToken, todo |-> {}, got |-> {},
            held |-> {}]

TypeOK ==
  /\ users \subseteq User
  /\ device \in [Device -> DeviceRow]
  /\ token \in [Token -> TokenRow]
  /\ job \in [Job -> JobState]
  /\ parent \in [Token -> Token \cup {NoToken}]

Init ==
  /\ users = {}
  /\ device = [d \in Device |-> [known |-> FALSE, active |-> FALSE]]
  /\ token = [t \in Token |-> [state |-> "unused", device |-> NoDevice]]
  /\ job = [j \in Job |-> IdleJob]
  /\ parent = [t \in Token |-> NoToken]

------------------------------------------------------------------------------
(* The database *)

Unrevoked(t) == token[t].state \in {"live", "lapsed"}
UnrevokedOf(D) == {t \in Token : Unrevoked(t) /\ token[t].device \in D}

TokenFree(j, t) == \A k \in Job \ {j} : t \notin job[k].got
DeviceFree(j, d) == \A k \in Job \ {j} : d \notin job[k].held

\* The rows the next statement of j has to lock.
TokensNeeded(j) == IF job[j].step = "claim" THEN {job[j].old} ELSE job[j].todo
DevicesNeeded(j) ==
  CASE job[j].step \in {"upsert", "devices"} -> job[j].devs \ job[j].held
    [] OTHER -> {}

\* j waits for k: it needs rows and every one of them is locked, one by k.
WaitsFor(j, k) ==
  /\ k # j
  /\ TokensNeeded(j) \cup DevicesNeeded(j) # {}
  /\ \A t \in TokensNeeded(j) : ~TokenFree(j, t)
  /\ \A d \in DevicesNeeded(j) : ~DeviceFree(j, d)
  /\ \/ TokensNeeded(j) \cap job[k].got # {}
     \/ DevicesNeeded(j) \cap job[k].held # {}

\* A set of calls each of which waits for another of them.
Deadlocked(S) ==
  /\ S # {}
  /\ \A j \in S : \E k \in S : WaitsFor(j, k)
  /\ \A j \in S : \E k \in S : WaitsFor(k, j)

\* The rows of tokens T are revoked, and token t (if any) is issued to d.
Revoked(T) ==
  [t \in Token |-> [token[t] EXCEPT !.state = IF t \in T THEN "revoked" ELSE @]]
Issued(T, t, d) == [Revoked(T) EXCEPT ![t] = [state |-> "live", device |-> d]]

Unused(t) == token[t].state = "unused"
Fresh(t) == Unused(t) /\ \A u \in Token : Unused(u) => t <= u

\* A token is left for one more call that issues one.
TokenLeft ==
  Cardinality({t \in Token : Unused(t)}) > Cardinality({j \in Job : job[j].op \in {"open", "refresh"}})

Idle(j) == job[j] = IdleJob
Finish(j) == job' = [job EXCEPT ![j] = IdleJob]

------------------------------------------------------------------------------
(* Registration and login *)

\* createUserWithSession: the unique keys of the account admit one of two
\* registrations; nobody else sees the rows before the commit.
Register(d, t) ==
  /\ Owner[d] \notin users
  /\ TokenLeft /\ Fresh(t)
  /\ users' = users \cup {Owner[d]}
  /\ device' = [device EXCEPT ![d] = [known |-> TRUE, active |-> TRUE]]
  /\ token' = Issued({}, t, d)
  /\ UNCHANGED <<job, parent>>

\* The password is right and the device is trusted, or the code sent for a new
\* device is (verifyLoginDeviceOtp), or the phone approves a QR login
\* (qrApprove).  The last two mark the device as trusted, as registration does:
\* every row of user_devices is.
StartLogin(j, d) ==
  /\ Idle(j)
  /\ TokenLeft
  /\ Owner[d] \in users
  /\ job' = [job EXCEPT ![j] = [IdleJob EXCEPT !.op = "open", !.step = "upsert",
                                               !.devs = {d}]]
  /\ UNCHANGED <<users, device, token, parent>>

Upsert(j) ==
  /\ job[j].step = "upsert"
  /\ \A d \in job[j].devs : DeviceFree(j, d)
  /\ job' = [job EXCEPT ![j].step = "find", ![j].held = job[j].devs]
  /\ UNCHANGED <<users, device, token, parent>>

\* The UPDATE that revokes the tokens of the devices begins.
FindTokens(j) ==
  /\ job[j].step = "find"
  /\ job' = [job EXCEPT ![j].step = "update", ![j].todo = UnrevokedOf(job[j].devs)]
  /\ UNCHANGED <<users, device, token, parent>>

\* It locks a row it has found, and passes over it if it was revoked meanwhile.
RevokeToken(j, t) ==
  /\ job[j].step = "update"
  /\ t \in job[j].todo
  /\ TokenFree(j, t)
  /\ job' = [job EXCEPT ![j].todo = @ \ {t},
                        ![j].got = IF Unrevoked(t) THEN @ \cup {t} ELSE @]
  /\ UNCHANGED <<users, device, token, parent>>

CommitLogin(j, d, t) ==
  /\ job[j].op = "open" /\ job[j].step = "update" /\ job[j].todo = {}
  /\ d \in job[j].devs
  /\ Fresh(t)
  /\ token' = Issued(job[j].got, t, d)
  /\ device' = [device EXCEPT ![d] = [known |-> TRUE, active |-> TRUE]]
  /\ Finish(j)
  /\ UNCHANGED <<users, parent>>

------------------------------------------------------------------------------
(* Refresh and logout *)

\* Variant: the token presented is not looked at.
FindRefresh_Any(j, t) ==
  /\ Idle(j)
  /\ TokenLeft
  /\ job' = [job EXCEPT ![j] = [IdleJob EXCEPT !.op = "refresh", !.step = "claim",
                                               !.old = t, !.devs = {token[t].device}]]
  /\ UNCHANGED <<users, device, token, parent>>

\* A refresh finds its token; it answers 401 when it is revoked or expired.
FindRefresh(j, t) ==
  /\ Idle(j)
  /\ TokenLeft
  /\ token[t].state = "live"
  /\ job' = [job EXCEPT ![j] = [IdleJob EXCEPT !.op = "refresh", !.step = "claim",
                                               !.old = t, !.devs = {token[t].device}]]
  /\ UNCHANGED <<users, device, token, parent>>

\* Variants: the count is not looked at; or nothing is answered when it is 0.
Claim_Any(j) ==
  LET t == job[j].old IN
  /\ job[j].step = "claim"
  /\ TokenFree(j, t)
  /\ job' = [job EXCEPT ![j].step = "devices", ![j].got = {t}]
  /\ UNCHANGED <<users, device, token, parent>>

Claim_Silent(j) ==
  LET t == job[j].old IN
  /\ job[j].step = "claim"
  /\ TokenFree(j, t)
  /\ Unrevoked(t)
  /\ job' = [job EXCEPT ![j].step = "devices", ![j].got = {t}]
  /\ UNCHANGED <<users, device, token, parent>>

\* Only a call that finds the token unrevoked goes on; the count of the others
\* is 0.
Claim(j) ==
  LET t == job[j].old IN
  /\ job[j].step = "claim"
  /\ TokenFree(j, t)
  /\ job' = [job EXCEPT ![j] = IF Unrevoked(t)
                               THEN [@ EXCEPT !.step = "devices", !.got = {t}]
                               ELSE IdleJob]
  /\ UNCHANGED <<users, device, token, parent>>

\* Variant: the device is left alone, and so not locked.
CommitRefresh_NoDevice(j, t) ==
  /\ job[j].op = "refresh" /\ job[j].step = "devices"
  /\ Fresh(t)
  /\ token' = Issued(job[j].got, t, token[job[j].old].device)
  /\ parent' = [parent EXCEPT ![t] = job[j].old]
  /\ Finish(j)
  /\ UNCHANGED <<users, device>>

\* The device's last_seen_at is updated after the new token is inserted.
CommitRefresh(j, t) ==
  /\ job[j].op = "refresh" /\ job[j].step = "devices"
  /\ \A d \in job[j].devs : DeviceFree(j, d)
  /\ Fresh(t)
  /\ token' = Issued(job[j].got, t, token[job[j].old].device)
  /\ parent' = [parent EXCEPT ![t] = job[j].old]
  /\ Finish(j)
  /\ UNCHANGED <<users, device>>

\* One conditional UPDATE of one row.
logout(t) ==
  /\ token[t].state = "live"
  /\ \A j \in Job : t \notin job[j].got
  /\ token' = Revoked({t})
  /\ UNCHANGED <<users, device, job, parent>>

------------------------------------------------------------------------------
(* logoutAll, forgotPasswordReset: all devices of an account; revokeSession:  *)
(* one.                                                                       *)

StartRevoke(j, D) ==
  /\ Idle(j)
  /\ \/ \E u \in users : D = {d \in Device : Owner[d] = u}
     \/ \E d \in Device : D = {d} /\ device[d].known
  /\ job' = [job EXCEPT ![j] = [IdleJob EXCEPT !.op = "revoke", !.step = "find",
                                               !.devs = D]]
  /\ UNCHANGED <<users, device, token, parent>>

\* The UPDATE of the devices begins; it finds the rows that exist.
FindDevices(j) ==
  /\ job[j].op = "revoke" /\ job[j].step = "update" /\ job[j].todo = {}
  /\ job' = [job EXCEPT ![j].step = "devices",
                        ![j].devs = {d \in @ : device[d].known}]
  /\ UNCHANGED <<users, device, token, parent>>

LockDevice(j, d) ==
  /\ job[j].op = "revoke" /\ job[j].step = "devices"
  /\ d \in job[j].devs \ job[j].held
  /\ DeviceFree(j, d)
  /\ job' = [job EXCEPT ![j].held = @ \cup {d}]
  /\ UNCHANGED <<users, device, token, parent>>

CommitRevoke(j) ==
  /\ job[j].op = "revoke" /\ job[j].step = "devices"
  /\ job[j].held = job[j].devs
  /\ token' = Revoked(job[j].got)
  /\ device' = [d \in Device |-> [device[d] EXCEPT
                  !.active = IF d \in job[j].devs THEN FALSE ELSE @]]
  /\ Finish(j)
  /\ UNCHANGED <<users, parent>>

------------------------------------------------------------------------------
(* The environment *)

\* The expiry of a token passes.
Lapse(t) ==
  /\ token[t].state = "live"
  /\ token' = [token EXCEPT ![t].state = "lapsed"]
  /\ UNCHANGED <<users, device, job, parent>>

\* Postgres ends a deadlock by failing one of its calls.
AbortVictim(S, j) ==
  /\ j \in S
  /\ Deadlocked(S)
  /\ Finish(j)
  /\ UNCHANGED <<users, device, token, parent>>

\* The API process dies: the transactions are rolled back.
Restart ==
  /\ \E j \in Job : ~Idle(j)
  /\ job' = [j \in Job |-> IdleJob]
  /\ UNCHANGED <<users, device, token, parent>>

\* What a call that is being handled does next.
JobStep(j) ==
  \/ Upsert(j) \/ FindTokens(j) \/ Claim(j) \/ FindDevices(j) \/ CommitRevoke(j)
  \/ \E t \in Token : RevokeToken(j, t) \/ CommitRefresh(j, t)
  \/ \E d \in Device : LockDevice(j, d)
  \/ \E d \in Device, t \in Token : CommitLogin(j, d, t)

Next ==
  \/ \E d \in Device, t \in Token : Register(d, t)
  \/ \E j \in Job : JobStep(j)
  \/ \E j \in Job, d \in Device : StartLogin(j, d)
  \/ \E j \in Job, t \in Token : FindRefresh(j, t)
  \/ \E j \in Job, D \in SUBSET Device : StartRevoke(j, D)
  \/ \E t \in Token : logout(t) \/ Lapse(t)
  \/ \E S \in SUBSET Job, j \in Job : AbortVictim(S, j)
  \/ Restart

\* Calls go on, lock queues are first come first served, and the detector runs.
Fairness ==
  /\ \A j \in Job : SF_vars(JobStep(j))
  /\ WF_vars(\E S \in SUBSET Job, j \in Job : AbortVictim(S, j))

Spec == Init /\ [][Next]_vars /\ Fairness

------------------------------------------------------------------------------
(* Properties *)

\* A device is signed in with one token at most, although a login revokes only
\* the tokens it finds and a refresh may be about to commit another: a refresh
\* that holds the token cannot commit before the login that holds the device.
OneTokenPerDevice ==
  \A t, u \in Token :
    Unrevoked(t) /\ Unrevoked(u) /\ token[t].device = token[u].device => t = u

\* For the tokens the calls are atomic: a token is exchanged while it is the one
\* of its device, and by one call only, and no token comes back.
Current(d) ==
  IF UnrevokedOf({d}) = {} THEN NoToken ELSE CHOOSE t \in Token : t \in UnrevokedOf({d})

Store == INSTANCE SessionStore
           WITH current <- [d \in Device |-> Current(d)],
                spent   <- {t \in Token : ~Unused(t)},
                parent  <- parent
ImplementsSessionStore == Store!Spec

\* Every call is answered, although logins, refreshes and revocations lock
\* tokens and devices in different orders.
EveryCallAnswered == \A j \in Job : ~Idle(j) ~> Idle(j)
=============================================================================
