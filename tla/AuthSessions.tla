---------------------------- MODULE AuthSessions ----------------------------
(***************************************************************************)
(* The session side of internal/auth: Login, Refresh, Logout and LogoutAll *)
(* of service.go over the refresh_tokens table of repository.go, for any   *)
(* number of requests in flight at once.                                   *)
(*                                                                         *)
(* A step is one database call of a handler, or the work between two of    *)
(* them.  The database runs at READ COMMITTED, the default the pool leaves *)
(* in place: an UPDATE picks its rows from a snapshot, waits for a row     *)
(* another transaction has locked, and looks at the row again before it    *)
(* writes it.  A refresh token is a member of Token, standing for the      *)
(* random value and for its hash, the table's key.                         *)
(***************************************************************************)
EXTENDS Integers, FiniteSetsExt

CONSTANTS
    User,        \* account ids
    Token,       \* the values NewRefreshTokenValue can draw, each at most once
    Request,     \* requests that can be in flight at once
    NoUser, NoToken, NoRequest,
    RefreshTTL,  \* lifetime of a refresh token, in clock ticks
    MaxTime      \* bound on the clock

ASSUME ConstantsAssumption ==
    /\ NoUser \notin User
    /\ NoToken \notin Token
    /\ NoRequest \notin Request
    /\ RefreshTTL \in Nat \ {0}    \* NewService refuses any other (132)
    /\ MaxTime \in Nat

VARIABLES
    status,  \* users.status, "absent" once the account is deleted
    row,     \* the refresh_tokens table
    lock,    \* the request whose open transaction has locked a row
    clock,   \* the time
    known,   \* the tokens some client was given
    pc,      \* where each request is
    req      \* what each request holds in its local variables

vars == <<status, row, lock, clock, known, pc, req>>

-----------------------------------------------------------------------------
(* The table and the requests                                              *)

\* A row with revoked_at set is "rotated" or "ended", after the statement that
\* set it; "gone" is a deleted row.  session, the login the row descends from,
\* and parent, the token it replaced, are history: no column holds them.
RowStates == {"none", "live", "rotated", "ended", "gone"}

RowType == [state   : RowStates,
            user    : User \cup {NoUser},
            expires : Nat,
            session : Token \cup {NoToken},
            parent  : Token \cup {NoToken}]

NoRow == [state |-> "none", user |-> NoUser, expires |-> 0,
          session |-> NoToken, parent |-> NoToken]

Live(t) == row[t].state = "live"
IsRevoked(t) == row[t].state \in {"rotated", "ended"}
Stored(t) == Live(t) \/ IsRevoked(t)
Issued(t) == row[t].state # "none"

\* Mutation: the expiry instant counts as still valid.
IsExpiredPastTheEnd(t, now) == now > row[t].expires
IsExpired(t, now) == ~ (now < row[t].expires)

\* Mutation: the lifetime is subtracted.
ExpiryBackwards(now) == now - RefreshTTL
Expiry(now) == now + RefreshTTL

\* The WHERE of Rotate's UPDATE.  Mutation: without revoked_at IS NULL.
SpendableTwice(t, u) == Stored(t) /\ row[t].user = u
Spendable(t, u) == Live(t) /\ row[t].user = u

\* The WHERE of RevokeAllForUser's.  Mutation: without the user.
LiveTokensOfAll(u) == {t \in Token : Live(t)}
LiveTokens(u) == {t \in Token : Live(t) /\ row[t].user = u}

PCs == {"idle", "account", "start", "create", "lookup", "owner", "rotate",
        "commit", "sign", "revoke", "endAll", "ending", "answer"}

\* tok is the presented token, NoToken for a value no row ever had; owner the
\* user the request acts for, now the service's clock reading, new the token it
\* issues.  snap and pending belong to RevokeAllForUser: the rows its snapshot
\* holds and those it has still to visit.  seen is history: the account was
\* active at some moment since the request began.
ReqType == [op      : {"none", "login", "refresh", "logout", "logoutAll"},
            tok     : Token \cup {NoToken},
            owner   : User \cup {NoUser},
            now     : Nat,
            new     : Token \cup {NoToken},
            snap    : SUBSET Token,
            pending : SUBSET Token,
            seen    : BOOLEAN]

NoReq == [op |-> "none", tok |-> NoToken, owner |-> NoUser, now |-> 0,
          new |-> NoToken, snap |-> {}, pending |-> {}, seen |-> FALSE]

TypeOK ==
    /\ status \in [User -> {"active", "suspended", "absent"}]
    /\ row \in [Token -> RowType]
    /\ lock \in [Token -> Request \cup {NoRequest}]
    /\ clock \in Nat
    /\ known \subseteq Token
    /\ pc \in [Request -> PCs]
    /\ req \in [Request -> ReqType]

Init ==
    /\ status = [u \in User |-> "active"]
    /\ row = [t \in Token |-> NoRow]
    /\ lock = [t \in Token |-> NoRequest]
    /\ clock = 0
    /\ known = {}
    /\ pc = [p \in Request |-> "idle"]
    /\ req = [p \in Request |-> NoReq]

-----------------------------------------------------------------------------
(* Requests arrive                                                         *)

Goto(p, l) == pc' = [pc EXCEPT ![p] = l]

\* The request is answered without a session: refused, failed, or done.
Finish(p) ==
    /\ Goto(p, "idle")
    /\ req' = [req EXCEPT ![p] = NoReq]

Begin(p, l, r) ==
    /\ pc[p] = "idle"
    /\ Goto(p, l)
    /\ req' = [req EXCEPT ![p] = r]
    /\ UNCHANGED <<status, row, lock, clock, known>>

Login(p, u) ==
    Begin(p, "account", [NoReq EXCEPT !.op = "login", !.owner = u,
                                      !.seen = status[u] = "active"])

\* Any client's token, spent or not, or a value the table never held.
Refresh(p, t) ==
    Begin(p, "lookup",
          [NoReq EXCEPT !.op = "refresh", !.tok = t,
             !.seen = \E u \in User : /\ t \in Token
                                      /\ row[t].user = u
                                      /\ status[u] = "active"])

Logout(p, t) == Begin(p, "revoke", [NoReq EXCEPT !.op = "logout", !.tok = t])

LogoutAll(p, u) ==
    Begin(p, "endAll", [NoReq EXCEPT !.op = "logoutAll", !.owner = u])

-----------------------------------------------------------------------------
(* Login                                                                   *)

\* GetByEmail, Verify, and only then the status.  The password may be right or
\* wrong; an address without an account is answered like a wrong password.
CheckCredentials(p) ==
    /\ pc[p] = "account"
    /\ LET s == status[req[p].owner] IN
       \/ s = "active" /\ Goto(p, "start") /\ UNCHANGED req
       \/ s = "suspended" /\ Finish(p)
       \/ Finish(p)
    /\ UNCHANGED <<status, row, lock, clock, known>>

\* startSession reads the clock and signs the access token before the INSERT.
StartSession(p) ==
    /\ pc[p] = "start"
    /\ Goto(p, "create")
    /\ req' = [req EXCEPT ![p] = [@ EXCEPT !.now = clock]]
    /\ UNCHANGED <<status, row, lock, clock, known>>

\* The INSERT; the foreign key fails it once the account is gone.
Create(p, n) ==
    /\ pc[p] = "create"
    /\ IF status[req[p].owner] = "absent"
       THEN Finish(p) /\ UNCHANGED row
       ELSE /\ ~ Issued(n)
            /\ row' = [row EXCEPT ![n] =
                  [state |-> "live", user |-> req[p].owner,
                   expires |-> Expiry(req[p].now),
                   session |-> n, parent |-> NoToken]]
            /\ Goto(p, "answer")
            /\ req' = [req EXCEPT ![p] = [@ EXCEPT !.new = n]]
    /\ UNCHANGED <<status, lock, clock, known>>

-----------------------------------------------------------------------------
(* Refresh                                                                 *)

\* GetByTokenHash, then the checks on the row it returned.  A revoked token ends
\* every session of its owner, even an expired one: that check comes first.
GetByTokenHash(p) ==
    LET t == req[p].tok
        found == t # NoToken /\ Stored(t)
    IN
    /\ pc[p] = "lookup"
    /\ \/ ~ found /\ Finish(p)
       \/ /\ found /\ IsRevoked(t)
          /\ Goto(p, "endAll")
          /\ req' = [req EXCEPT ![p] = [@ EXCEPT !.owner = row[t].user]]
       \/ /\ found /\ Live(t) /\ IsExpired(t, clock)
          /\ Finish(p)
       \/ /\ found /\ Live(t) /\ ~ IsExpired(t, clock)
          /\ Goto(p, "owner")
          /\ req' = [req EXCEPT ![p] = [@ EXCEPT !.owner = row[t].user,
                                                 !.now = clock]]
    /\ UNCHANGED <<status, row, lock, clock, known>>

\* Mutation: the owner's status is not checked.
CheckOwnerExists(p) ==
    /\ pc[p] = "owner"
    /\ IF status[req[p].owner] = "absent"
       THEN Finish(p)
       ELSE Goto(p, "rotate") /\ UNCHANGED req
    /\ UNCHANGED <<status, row, lock, clock, known>>

\* GetByID and the status of the row it returned.
CheckOwner(p) ==
    /\ pc[p] = "owner"
    /\ LET s == status[req[p].owner] IN
       \/ s = "absent" /\ Finish(p)
       \/ s = "suspended" /\ Finish(p)
       \/ s = "active" /\ Goto(p, "rotate") /\ UNCHANGED req
    /\ UNCHANGED <<status, row, lock, clock, known>>

\* Mutation: the UPDATE is committed by itself, outside the transaction.
RotateSpendAlone(p) ==
    LET t == req[p].tok IN
    /\ pc[p] = "rotate"
    /\ lock[t] = NoRequest
    /\ IF Spendable(t, req[p].owner)
       THEN /\ row' = [row EXCEPT ![t] = [@ EXCEPT !.state = "rotated"]]
            /\ Goto(p, "commit")
            /\ UNCHANGED req
       ELSE Finish(p) /\ UNCHANGED row
    /\ UNCHANGED <<status, lock, clock, known>>

\* Rotate's guarded UPDATE, which waits while another transaction holds the row
\* and keeps it locked until the end of the transaction.  No row left to spend:
\* the transaction is rolled back and nothing else happens.
RotateSpend(p) ==
    LET t == req[p].tok IN
    /\ pc[p] = "rotate"
    /\ lock[t] = NoRequest
    /\ IF Spendable(t, req[p].owner)
       THEN /\ lock' = [lock EXCEPT ![t] = p]
            /\ Goto(p, "commit")
            /\ UNCHANGED req
       ELSE Finish(p) /\ UNCHANGED lock
    /\ UNCHANGED <<status, row, clock, known>>

\* Rotate's INSERT and COMMIT: nobody sees either write before the other.
RotateCommit(p, n) ==
    LET t == req[p].tok IN
    /\ pc[p] = "commit"
    /\ ~ Issued(n)
    /\ row' = [row EXCEPT
          ![t] = [@ EXCEPT !.state = "rotated"],
          ![n] = [state |-> "live", user |-> req[p].owner,
                  expires |-> Expiry(req[p].now),
                  session |-> row[t].session, parent |-> t]]
    /\ lock' = [lock EXCEPT ![t] = NoRequest]
    /\ Goto(p, "sign")
    /\ req' = [req EXCEPT ![p] = [@ EXCEPT !.new = n]]
    /\ UNCHANGED <<status, clock, known>>

\* The access token is signed once the rotation is committed; if that fails the
\* client gets an error and never learns the new refresh token.
IssueAccessToken(p) ==
    /\ pc[p] = "sign"
    /\ \/ Goto(p, "answer") /\ UNCHANGED req
       \/ Finish(p)
    /\ UNCHANGED <<status, row, lock, clock, known>>

-----------------------------------------------------------------------------
(* Logout, and the end of every session                                    *)

\* One guarded UPDATE; a token that is unknown or already dead is no error.
Revoke(p) ==
    LET t == req[p].tok IN
    /\ pc[p] = "revoke"
    /\ \/ t \in Token /\ lock[t] = NoRequest /\ Live(t)
          /\ row' = [row EXCEPT ![t] = [@ EXCEPT !.state = "ended"]]
       \/ t \in Token /\ lock[t] = NoRequest /\ ~ Live(t) /\ UNCHANGED row
       \/ t = NoToken /\ UNCHANGED row
    /\ Finish(p)
    /\ UNCHANGED <<status, lock, clock, known>>

\* RevokeAllForUser's UPDATE takes its snapshot: a row an uncommitted rotation
\* has inserted is not in it.
RevokeAllSnapshot(p) ==
    /\ pc[p] = "endAll"
    /\ Goto(p, "ending")
    /\ LET mine == LiveTokens(req[p].owner) IN
       req' = [req EXCEPT ![p] = [@ EXCEPT !.snap = mine, !.pending = mine]]
    /\ UNCHANGED <<status, row, lock, clock, known>>

\* Mutation: rows another transaction has locked are skipped.
RevokeAllSkip(p, t) ==
    /\ pc[p] = "ending"
    /\ t \in req[p].pending
    /\ lock' = IF lock[t] = NoRequest /\ Live(t)
               THEN [lock EXCEPT ![t] = p] ELSE lock
    /\ req' = [req EXCEPT ![p] = [@ EXCEPT !.pending = req[p].pending \ {t}]]
    /\ UNCHANGED <<status, row, clock, known, pc>>

\* It visits a row of the snapshot: waits for the lock, then looks at the row
\* again and passes over one that was revoked or deleted meanwhile.
RevokeAllVisit(p, t) ==
    /\ pc[p] = "ending"
    /\ t \in req[p].pending
    /\ lock[t] = NoRequest
    /\ lock' = IF Live(t) THEN [lock EXCEPT ![t] = p] ELSE lock
    /\ req' = [req EXCEPT ![p] = [@ EXCEPT !.pending = req[p].pending \ {t}]]
    /\ UNCHANGED <<status, row, clock, known, pc>>

\* The statement ends and commits.
RevokeAllCommit(p) ==
    /\ pc[p] = "ending"
    /\ req[p].pending = {}
    /\ row' = [t \in Token |-> IF lock[t] = p
                               THEN [row[t] EXCEPT !.state = "ended"]
                               ELSE row[t]]
    /\ lock' = [t \in Token |-> IF lock[t] = p THEN NoRequest ELSE lock[t]]
    /\ Goto(p, "answer")
    /\ UNCHANGED req
    /\ UNCHANGED <<status, clock, known>>

-----------------------------------------------------------------------------
(* How a request leaves, and what goes on around the requests              *)

\* The client receives the answer: with a session, its refresh token.
Deliver(p) ==
    /\ pc[p] = "answer"
    /\ Finish(p)
    /\ known' = known \cup ({req[p].new} \ {NoToken})
    /\ UNCHANGED <<status, row, lock, clock>>

\* A call fails, the process dies or the client is gone: at any point, before an
\* answer or after it.  An open transaction is rolled back, a committed one stays,
\* so a commit whose acknowledgement is lost is RotateCommit and then Fail.
Fail(p) ==
    /\ pc[p] # "idle"
    /\ Finish(p)
    /\ lock' = [t \in Token |-> IF lock[t] = p THEN NoRequest ELSE lock[t]]
    /\ UNCHANGED <<status, row, clock, known>>

\* The user a request acts for: by its argument or by the token it presents.
ActsFor(p, u) ==
    \/ req[p].owner = u
    \/ req[p].tok \in Token /\ row[req[p].tok].user = u

\* An operator suspends an account or lets it in again (no code does).
SetStatus(u) ==
    /\ status[u] # "absent"
    /\ \E s \in {"active", "suspended"} \ {status[u]} :
          /\ status' = [status EXCEPT ![u] = s]
          /\ req' = [p \in Request |->
                IF s = "active" /\ pc[p] # "idle" /\ ActsFor(p, u)
                THEN [req[p] EXCEPT !.seen = TRUE] ELSE req[p]]
    /\ UNCHANGED <<row, lock, clock, known, pc>>

\* An operator deletes an account; ON DELETE CASCADE takes its tokens along,
\* waiting for those a transaction has locked.
DeleteUser(u) ==
    /\ status[u] # "absent"
    /\ \A t \in Token : row[t].user = u => lock[t] = NoRequest
    /\ status' = [status EXCEPT ![u] = "absent"]
    /\ row' = [t \in Token |-> IF row[t].user = u
                               THEN [row[t] EXCEPT !.state = "gone"]
                               ELSE row[t]]
    /\ UNCHANGED <<lock, clock, known, pc, req>>

\* The repository's prune, which nothing schedules yet.
DeleteExpiredBefore(cutoff) ==
    LET old == {t \in Token : Stored(t) /\ row[t].expires < cutoff} IN
    /\ old # {}
    /\ \A t \in old : lock[t] = NoRequest
    /\ row' = [t \in Token |-> IF t \in old
                               THEN [row[t] EXCEPT !.state = "gone"]
                               ELSE row[t]]
    /\ UNCHANGED <<status, lock, clock, known, pc, req>>

Tick ==
    /\ clock < MaxTime
    /\ clock' = clock + 1
    /\ UNCHANGED <<status, row, lock, known, pc, req>>

Arrive(p) ==
    \/ \E u \in User : Login(p, u) \/ LogoutAll(p, u)
    \/ \E t \in known \cup {NoToken} : Refresh(p, t) \/ Logout(p, t)

\* What request p does by itself, waiting only for locks.
Proceed(p) ==
    \/ CheckCredentials(p) \/ StartSession(p)
    \/ GetByTokenHash(p) \/ CheckOwner(p)
    \/ RotateSpend(p) \/ IssueAccessToken(p)
    \/ \E n \in Token : Create(p, n) \/ RotateCommit(p, n)
    \/ Revoke(p)
    \/ RevokeAllSnapshot(p) \/ RevokeAllCommit(p)
    \/ \E t \in Token : RevokeAllVisit(p, t)
    \/ Deliver(p)

Environment ==
    \/ \E u \in User : SetStatus(u) \/ DeleteUser(u)
    \/ \E cutoff \in 0 .. clock : DeleteExpiredBefore(cutoff)
    \/ Tick

Next ==
    \/ \E p \in Request : Arrive(p) \/ Proceed(p) \/ Fail(p)
    \/ Environment

Spec == Init /\ [][Next]_vars

-----------------------------------------------------------------------------
(* Safety                                                                  *)

\* Session s still has a token that can be exchanged.
Ongoing(s) == \E t \in Token : row[t].session = s /\ Live(t)

\* One session never has two usable tokens, whatever refreshes race for it:
\* Rotate's guard and its row lock let one of them through.
AtMostOneLive ==
    \A t1, t2 \in Token :
        Live(t1) /\ Live(t2) /\ row[t1].session = row[t2].session => t1 = t2

\* A token is exchanged at most once, even across failed and repeated refreshes.
SingleSuccessor ==
    \A t1, t2 \in Token :
        row[t1].parent = row[t2].parent /\ row[t1].parent # NoToken => t1 = t2

\* Rotation is all or nothing: a token is spent exactly when its replacement is
\* stored, for the same account, whatever fails in between.
SpentIffReplaced ==
    \A t \in Token :
        LET heirs == {n \in Token : row[n].parent = t} IN
        /\ row[t].state = "rotated" => heirs # {}
        /\ heirs # {} => ~ Live(t)
        /\ \A n \in heirs : row[n].user = row[t].user

\* A token is renewed only within its lifetime, whose last instant is excluded,
\* and the replacement never expires before the token it replaces.
RenewedInTime ==
    \A t, n \in Token : row[n].parent = t =>
        /\ row[n].expires - RefreshTTL < row[t].expires
        /\ row[n].expires >= row[t].expires

\* When RevokeAllForUser has returned, no token that was live when its statement
\* began is live, not even one a concurrent request held locked.
EndAllKillsSnapshot ==
    \A p \in Request : pc[p] = "answer" =>
        \A t \in req[p].snap : ~ Live(t)

\* No request that began while the account was suspended or deleted, and found it
\* so to the end, stores a token for it.
GrantedToActive ==
    \A p \in Request : req[p].new # NoToken => req[p].seen

\* A session that has ended stays so: no rotation in flight brings it back.
DeadStaysDead ==
    [][ \A s \in Token : Issued(s) /\ ~ Ongoing(s) => ~ Ongoing(s)' ]_vars

\* No request ends another account's session, and nobody's session ends unless
\* its own token is handed in, its account logs out everywhere, or a dead token
\* of the same account is presented.
EndsAreProvoked ==
    [][ \A t \in Token : (Live(t) /\ row'[t].state = "ended") =>
          \E p \in Request :
             /\ pc'[p] # pc[p]
             /\ \/ req[p].op = "logout" /\ req[p].tok = t
                \/ req[p].op = "logoutAll" /\ req[p].owner = row[t].user
                \/ /\ req[p].op = "refresh" /\ req[p].tok \in Token
                   /\ row[req[p].tok].user = row[t].user
                   /\ ~ Live(req[p].tok) ]_vars

\* service.go:318-322 of a replayed token: "ending every session for that user
\* [...] make all of them dead".  A session that was going on when the statement
\* began is over when it returns.
ReplayEndsEverySession ==
    \A p \in Request : pc[p] = "answer" /\ req[p].op = "refresh" =>
        \A t \in req[p].snap : ~ Ongoing(row[t].session)

-----------------------------------------------------------------------------
(* What the service promises: Sessions, over this state                    *)

SessionTokens(s) == {t \in Token : row[t].session = s}

Expiries(s) == {row[t].expires : t \in SessionTokens(s)}

\* The expiry of the newest token of a session, which is its largest.
Deadline(s) == IF Expiries(s) = {} THEN 0 ELSE Max(Expiries(s))

CurrentToken(s) ==
    IF \E t \in SessionTokens(s) : Live(t)
    THEN CHOOSE t \in SessionTokens(s) : Live(t)
    ELSE NoToken

Promise == INSTANCE Sessions WITH
    issued   <- {t \in Token : Issued(t)},
    current  <- [s \in Token |-> CurrentToken(s)],
    holder   <- [s \in Token |-> IF Issued(s) /\ row[s].session = s
                                 THEN row[s].user ELSE NoUser],
    deadline <- [s \in Token |-> Deadline(s)],
    time     <- clock

\* Every behaviour of the service is one of Sessions: the transactions, locks and
\* failures add up to atomic starts, renewals and ends of sessions.
ImplementsSessions == Promise!Spec

=============================================================================
