------------------------------ MODULE Sessions ------------------------------
(***************************************************************************)
(* What the auth service promises of its sessions, one atomic step per     *)
(* promise: a session is a login, at any time at most one token continues  *)
(* it, exchanging that token spends it, and a session that has ended never *)
(* comes back.  AuthSessions implements it.                                *)
(***************************************************************************)
EXTENDS Integers

CONSTANTS User, Token, NoUser, NoToken, RefreshTTL

VARIABLES
    issued,    \* the tokens that were ever stored
    current,   \* the token that continues a session, NoToken once it has ended
    holder,    \* the account a session belongs to
    deadline,  \* when the session's token expires
    time

sessionVars == <<issued, current, holder, deadline, time>>

\* A session is named by the token its login stored.
Ongoing(s) == current[s] # NoToken

Init ==
    /\ issued = {}
    /\ current = [s \in Token |-> NoToken]
    /\ holder = [s \in Token |-> NoUser]
    /\ deadline = [s \in Token |-> 0]
    /\ time = 0

\* A token expires at most RefreshTTL after it was stored.
Start(s, u) ==
    /\ s \notin issued
    /\ issued' = issued \cup {s}
    /\ current' = [current EXCEPT ![s] = s]
    /\ holder' = [holder EXCEPT ![s] = u]
    /\ \E d \in 0 .. time + RefreshTTL : deadline' = [deadline EXCEPT ![s] = d]
    /\ UNCHANGED time

Renew(s, n) ==
    /\ Ongoing(s)
    /\ n \notin issued
    /\ issued' = issued \cup {n}
    /\ current' = [current EXCEPT ![s] = n]
    /\ \E d \in deadline[s] .. time + RefreshTTL :
          deadline' = [deadline EXCEPT ![s] = d]
    /\ UNCHANGED <<holder, time>>

Stop(S) ==
    /\ current' = [s \in Token |-> IF s \in S THEN NoToken ELSE current[s]]
    /\ UNCHANGED <<issued, holder, deadline, time>>

\* Sessions are ended for one account at a time.
End(u, S) ==
    /\ \A s \in S : Ongoing(s) /\ holder[s] = u
    /\ Stop(S)

\* They are forgotten only once their token is past its lifetime.
Lapse(S) ==
    /\ \A s \in S : Ongoing(s) /\ deadline[s] < time
    /\ Stop(S)

Pass ==
    /\ time' = time + 1
    /\ UNCHANGED <<issued, current, holder, deadline>>

Next ==
    \/ \E s \in Token :
          \/ \E u \in User : Start(s, u)
          \/ \E n \in Token : Renew(s, n)
    \/ \E S \in SUBSET Token :
          \/ \E u \in User : End(u, S)
          \/ Lapse(S)
    \/ Pass

Spec == Init /\ [][Next]_sessionVars

=============================================================================
