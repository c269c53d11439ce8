---------------------------- MODULE SessionStore ----------------------------
(****************************************************************************)
(* What AuthService and DevicesService promise together about the refresh    *)
(* tokens, whatever calls are handled at the same time: a device is signed   *)
(* in with one token at most, a token is exchanged only while it is the one  *)
(* of its device, and a token that has been exchanged or revoked never comes *)
(* back.  Calls, transactions and locks do not appear here; Sessions shows   *)
(* that the services implement this.                                         *)
(****************************************************************************)
CONSTANTS Device, Token, NoToken

VARIABLES
  current,  \* the token each device is signed in with, or NoToken
  spent,    \* the tokens that have been issued
  parent    \* the token each token was exchanged for, or NoToken

vars == <<current, spent, parent>>

Init ==
  /\ current = [d \in Device |-> NoToken]
  /\ spent = {}
  /\ parent = [t \in Token |-> NoToken]

\* Device d has the fresh token t from now on.
Issue(d, t) ==
  /\ t \in Token \ spent
  /\ current' = [current EXCEPT ![d] = t]
  /\ spent' = spent \cup {t}

SignIn(d, t) == Issue(d, t) /\ UNCHANGED parent

Exchange(d, t) ==
  /\ current[d] # NoToken
  /\ Issue(d, t)
  /\ parent' = [parent EXCEPT ![t] = current[d]]

\* Some devices are signed out together.
Revoke(D) ==
  /\ current' = [d \in Device |-> IF d \in D THEN NoToken ELSE current[d]]
  /\ UNCHANGED <<spent, parent>>

Next == \/ \E d \in Device, t \in Token : SignIn(d, t) \/ Exchange(d, t)
        \/ \E D \in SUBSET Device : Revoke(D)

Spec == Init /\ [][Next]_vars
=============================================================================
