-------------------------- MODULE Sessions_proofs --------------------------
(***************************************************************************)
(* That AuthSessions keeps the promise of Sessions, and what that takes:   *)
(* theorems about the clock, the owners and the causes of what happens to  *)
(* sessions, again for any number of accounts, tokens and requests.        *)
(***************************************************************************)
EXTENDS AuthSessions_proofs

-----------------------------------------------------------------------------
(* The inductive invariant: what requests know                             *)

\* A request is at the steps of its operation, and has a new token only at the
\* last ones.
StageInv ==
    \A p \in Request :
        /\ pc[p] = "idle" => req[p].op = "none"
        /\ pc[p] \in {"account", "start", "create"} =>
              req[p].op = "login" /\ req[p].owner \in User
        /\ pc[p] \in {"lookup", "owner", "rotate", "commit", "sign"} =>
              req[p].op = "refresh"
        /\ pc[p] = "revoke" => req[p].op = "logout"
        /\ pc[p] \in {"endAll", "ending"} => req[p].op \in {"refresh", "logoutAll"}
        /\ req[p].new # NoToken => pc[p] \in {"sign", "answer"}
        /\ pc[p] = "ending" => req[p].pending \subseteq req[p].snap

\* Clients have, and hand in, tokens that were stored.
KnownInv ==
    /\ \A t \in known : Issued(t)
    /\ \A p \in Request : /\ req[p].tok \in Token => Issued(req[p].tok)
                          /\ req[p].new \in Token => Issued(req[p].new)

\* A refresh acts for the owner of its token, which is spent where it ends the
\* owner's sessions; whoever ends sessions holds rows of one account.
OwnerInv ==
    /\ \A p \in Request :
          /\ pc[p] \in {"owner", "rotate", "commit"} => req[p].owner = row[req[p].tok].user
          /\ pc[p] \in {"endAll", "ending"} /\ req[p].op = "refresh" =>
                /\ req[p].tok \in Token /\ ~ Live(req[p].tok)
                /\ req[p].owner = row[req[p].tok].user
          /\ pc[p] = "ending" => \A t \in req[p].snap : row[t].user = req[p].owner
    /\ \A t \in Token, p \in Request :
          lock[t] = p /\ pc[p] = "ending" => row[t].user = req[p].owner

\* A request whose account is active has seen it so; none gets past the check of
\* the status without.
SeenInv ==
    \A p \in Request :
        /\ \A u \in User :
              req[p].op \in {"login", "refresh"} /\ ActsFor(p, u) /\ status[u] = "active" =>
                 req[p].seen
        /\ pc[p] \in {"start", "create", "rotate", "commit", "sign"} => req[p].seen
        /\ req[p].new # NoToken => req[p].seen

\* The service's reading of the clock is in the past, and within the lifetime of
\* the token it is about to spend.
NowInv ==
    \A p \in Request :
        /\ req[p].now <= clock
        /\ pc[p] \in {"owner", "rotate", "commit"} =>
              /\ req[p].now < row[req[p].tok].expires
              /\ row[req[p].tok].expires <= req[p].now + RefreshTTL

RequestInv == StageInv /\ KnownInv /\ OwnerInv /\ SeenInv /\ NowInv

-----------------------------------------------------------------------------
(* The inductive invariant: what the rows of a session have in common      *)

\* A session's tokens belong to one account, that of the login it is named after.
HomeInv ==
    \A t \in Token : Issued(t) =>
        /\ row[t].user \in User
        /\ row[row[t].session].session = row[t].session
        /\ row[row[t].session].user = row[t].user

\* No token lives longer than the lifetime from now, and none of its session
\* expires after the usable one.
ExpiryInv ==
    /\ \A t \in Token : Issued(t) => row[t].expires <= clock + RefreshTTL
    /\ \A t, x \in Token : Live(t) /\ row[x].session = row[t].session =>
          row[x].expires <= row[t].expires

HistoryInv == RequestInv /\ HomeInv /\ ExpiryInv /\ RenewedInTime

-----------------------------------------------------------------------------
(* What a step does                                                        *)

Acts(p) == Arrive(p) \/ Proceed(p) \/ Fail(p)

\* A step is one request's, or of what goes on around them.
LEMMA WhoActs ==
    ASSUME [Next]_vars
    PROVE  (\E p \in Request : Acts(p)) \/ Environment \/ UNCHANGED vars
BY DEF Next, Acts

\* A stored row keeps its owner, its expiry and its place in the session.
LEMMA RowFixed ==
    ASSUME IInv, TypeOK', [Next]_vars, NEW t \in Token, Issued(t)
    PROVE  /\ row'[t].user = row[t].user /\ row'[t].expires = row[t].expires
           /\ row'[t].session = row[t].session /\ row'[t].parent = row[t].parent
<1> USE DEF IInv, TypeOK, RowType, Issued
<1>1. CASE row' = row
  BY <1>1
<1>2. ASSUME NEW p \in Request, Proceed(p), row' # row
      PROVE  /\ row'[t].user = row[t].user /\ row'[t].expires = row[t].expires
             /\ row'[t].session = row[t].session /\ row'[t].parent = row[t].parent
  <2>1. CASE Revoke(p)
    BY <2>1 DEF Revoke
  <2>2. CASE RevokeAllCommit(p)
    BY <2>2 DEF RevokeAllCommit
  <2>3. ASSUME NEW n \in Token, Create(p, n)
        PROVE  row'[t] = row[t]
    BY <2>3 DEF Create
  <2>4. ASSUME NEW n \in Token, RotateCommit(p, n)
        PROVE  row'[t] = row[t] \/ row'[t] = [row[t] EXCEPT !.state = "rotated"]
    BY <2>4 DEF RotateCommit
  <2>5. row[t] \in RowType
    OBVIOUS
  <2> QED
    BY <1>2, <2>1, <2>2, <2>3, <2>4, <2>5 DEF Proceed, CheckCredentials, StartSession,
       GetByTokenHash, CheckOwner, RotateSpend, IssueAccessToken,
       RevokeAllSnapshot, RevokeAllVisit, Deliver
<1>3. CASE Environment
  BY <1>3 DEF Environment, SetStatus, DeleteUser, DeleteExpiredBefore, Tick
<1> QED
  BY <1>1, <1>2, <1>3 DEF Next, vars, Arrive, Login, LogoutAll, Refresh, Logout,
     Begin, Fail

\* A request that does not act keeps its place and its locals; only the history
\* of the status may catch up with it.
LEMMA Bystander ==
    ASSUME IInv, [Next]_vars, NEW q \in Request, ~ Acts(q)
    PROVE  /\ pc'[q] = pc[q]
           /\ req'[q].op = req[q].op /\ req'[q].tok = req[q].tok
           /\ req'[q].owner = req[q].owner /\ req'[q].now = req[q].now
           /\ req'[q].new = req[q].new /\ req'[q].snap = req[q].snap
           /\ req'[q].pending = req[q].pending
           /\ req[q].seen => req'[q].seen
<1>1. CASE Environment
  BY <1>1 DEF Environment, SetStatus, DeleteUser, DeleteExpiredBefore, Tick, IInv,
     TypeOK, ReqType
<1> QED BY <1>1, WhoActs, OthersUntouched DEF Acts, IInv, vars

\* The clock does not run backwards, and no request moves it.
LEMMA ClockRuns ==
    ASSUME IInv, [Next]_vars
    PROVE  clock' \in Nat /\ clock <= clock'
<1> USE DEF IInv, TypeOK
<1>1. CASE Environment
  BY <1>1 DEF Environment, SetStatus, DeleteUser, DeleteExpiredBefore, Tick
<1>2. ASSUME NEW p \in Request, Acts(p) PROVE clock' = clock
  BY <1>2 DEF Acts, Arrive, Login, LogoutAll, Refresh, Logout, Begin, Proceed, Fail,
     CheckCredentials, StartSession, Create, GetByTokenHash, CheckOwner, RotateSpend,
     RotateCommit, IssueAccessToken, Revoke, RevokeAllSnapshot, RevokeAllCommit,
     RevokeAllVisit, Deliver
<1> QED BY <1>1, <1>2, WhoActs DEF vars

\* A request that is answered or fails is as if it had never been.
LEMMA Finished ==
    ASSUME IInv, NEW p \in Request, Finish(p)
    PROVE  pc'[p] = "idle" /\ req'[p] = NoReq
BY DEF Finish, Goto, IInv, TypeOK

\* What a request starts with.
LEMMA Begun ==
    ASSUME IInv, NEW p \in Request, Arrive(p)
    PROVE  /\ req'[p].now = 0 /\ req'[p].new = NoToken
           /\ req'[p].snap = {} /\ req'[p].pending = {}
           /\ \/ /\ pc'[p] = "account" /\ req'[p].op = "login"
                 /\ req'[p].tok = NoToken /\ req'[p].owner \in User
                 /\ req'[p].seen = (status[req'[p].owner] = "active")
              \/ /\ pc'[p] = "endAll" /\ req'[p].op = "logoutAll"
                 /\ req'[p].tok = NoToken /\ req'[p].owner \in User
              \/ /\ pc'[p] = "lookup" /\ req'[p].op = "refresh"
                 /\ req'[p].tok \in known \cup {NoToken} /\ req'[p].owner = NoUser
                 /\ req'[p].seen = \E u \in User : /\ req'[p].tok \in Token
                                                  /\ row[req'[p].tok].user = u
                                                  /\ status[u] = "active"
              \/ /\ pc'[p] = "revoke" /\ req'[p].op = "logout"
                 /\ req'[p].tok \in known \cup {NoToken} /\ req'[p].owner = NoUser
<1> DEFINE r == req'[p]
<1>1. ASSUME NEW u \in User, Login(p, u)
      PROVE  /\ r.now = 0 /\ r.new = NoToken /\ r.snap = {} /\ r.pending = {}
             /\ pc'[p] = "account" /\ r.op = "login"
             /\ r.tok = NoToken /\ r.owner \in User
             /\ r.seen = (status[r.owner] = "active")
  BY <1>1 DEF IInv, TypeOK, Begin, Goto, NoReq, Login
<1>2. ASSUME NEW u \in User, LogoutAll(p, u)
      PROVE  /\ r.now = 0 /\ r.new = NoToken /\ r.snap = {} /\ r.pending = {}
             /\ pc'[p] = "endAll" /\ r.op = "logoutAll"
             /\ r.tok = NoToken /\ r.owner \in User
  BY <1>2 DEF IInv, TypeOK, Begin, Goto, NoReq, LogoutAll
<1>3. ASSUME NEW t \in known \cup {NoToken}, Refresh(p, t)
      PROVE  /\ r.now = 0 /\ r.new = NoToken /\ r.snap = {} /\ r.pending = {}
             /\ pc'[p] = "lookup" /\ r.op = "refresh"
             /\ r.tok = t /\ r.owner = NoUser
             /\ r.seen = \E u \in User : /\ t \in Token
                                         /\ row[t].user = u
                                         /\ status[u] = "active"
  BY <1>3 DEF IInv, TypeOK, Begin, Goto, NoReq, Refresh
<1>4. ASSUME NEW t \in known \cup {NoToken}, Logout(p, t)
      PROVE  /\ r.now = 0 /\ r.new = NoToken /\ r.snap = {} /\ r.pending = {}
             /\ pc'[p] = "revoke" /\ r.op = "logout"
             /\ r.tok = t /\ r.owner = NoUser
  BY <1>4 DEF IInv, TypeOK, Begin, Goto, NoReq, Logout
<1> HIDE DEF r
<1>5. CASE \E u \in User : Login(p, u)
  BY <1>1, <1>5 DEF r
<1>6. CASE \E u \in User : LogoutAll(p, u)
  BY <1>2, <1>6 DEF r
<1>7. CASE \E t \in known \cup {NoToken} : Refresh(p, t)
  <2>1. PICK t \in known \cup {NoToken} : Refresh(p, t)
    BY <1>7
  <2> QED BY <1>3, <2>1 DEF r
<1>8. CASE \E t \in known \cup {NoToken} : Logout(p, t)
  BY <1>4, <1>8 DEF r
<1> QED BY <1>5, <1>6, <1>7, <1>8 DEF Arrive

\* From a step of its handler to the next, with req[p] as it was: that of Login,
From(p, l, m) == pc[p] = l /\ pc'[p] = m

LoginMoves(p) ==
    \/ /\ From(p, "account", "start") /\ req'[p] = req[p]
       /\ status[req[p].owner] = "active"
    \/ From(p, "start", "create") /\ req'[p] = [req[p] EXCEPT !.now = clock]
    \/ /\ From(p, "create", "answer")
       /\ \E n \in Token : Issued(n)' /\ req'[p] = [req[p] EXCEPT !.new = n]

\* of Refresh,
RefreshMoves(p) ==
    LET t == req[p].tok IN
    \/ /\ From(p, "lookup", "endAll") /\ t \in Token /\ IsRevoked(t)
       /\ req'[p] = [req[p] EXCEPT !.owner = row[t].user]
    \/ /\ From(p, "lookup", "owner") /\ t \in Token /\ Live(t) /\ ~ IsExpired(t, clock)
       /\ req'[p] = [req[p] EXCEPT !.owner = row[t].user, !.now = clock]
    \/ /\ From(p, "owner", "rotate") /\ req'[p] = req[p]
       /\ status[req[p].owner] = "active"
    \/ From(p, "rotate", "commit") /\ req'[p] = req[p]
    \/ /\ From(p, "commit", "sign")
       /\ \E n \in Token : Issued(n)' /\ req'[p] = [req[p] EXCEPT !.new = n]
    \/ From(p, "sign", "answer") /\ req'[p] = req[p]

\* and of RevokeAllForUser.
EndMoves(p) ==
    \/ /\ From(p, "endAll", "ending")
       /\ req'[p] = [req[p] EXCEPT !.snap = LiveTokens(req[p].owner),
                                   !.pending = LiveTokens(req[p].owner)]
    \/ \E t \in req[p].pending :
          /\ From(p, "ending", "ending")
          /\ req'[p] = [req[p] EXCEPT !.pending = req[p].pending \ {t}]
    \/ From(p, "ending", "answer") /\ req'[p] = req[p]

\* Every step of a handler ends it or is one of these moves.
LEMMA Moves ==
    ASSUME IInv, NEW p \in Request, Proceed(p) \/ Fail(p)
    PROVE  Finish(p) \/ LoginMoves(p) \/ RefreshMoves(p) \/ EndMoves(p)
<1> USE DEF IInv, TypeOK, Goto, From
<1>1. CASE CheckCredentials(p) \/ StartSession(p)
  BY <1>1 DEF CheckCredentials, StartSession, LoginMoves
<1>2. ASSUME NEW n \in Token, Create(p, n) PROVE Finish(p) \/ LoginMoves(p)
  <2>1. CASE status[req[p].owner] = "absent"
    BY <1>2, <2>1 DEF Create
  <2>2. CASE status[req[p].owner] # "absent"
    <3>1. row'[n].state = "live"
      BY <1>2, <2>2 DEF Create
    <3>2. From(p, "create", "answer") /\ req'[p] = [req[p] EXCEPT !.new = n]
      BY <1>2, <2>2 DEF Create
    <3> QED BY <3>1, <3>2 DEF LoginMoves, Issued
  <2> QED BY <2>1, <2>2
<1>3. CASE GetByTokenHash(p)
  <2> DEFINE t == req[p].tok
  <2>1. t \in Token \/ t = NoToken
    BY DEF ReqType
  <2> QED BY <1>3, <2>1 DEF GetByTokenHash, RefreshMoves
<1>4. CASE CheckOwner(p)
  BY <1>4 DEF CheckOwner, RefreshMoves
<1>5. CASE RotateSpend(p) \/ IssueAccessToken(p)
  BY <1>5 DEF RotateSpend, IssueAccessToken, RefreshMoves
<1>6. ASSUME NEW n \in Token, RotateCommit(p, n) PROVE RefreshMoves(p)
  <2>1. row'[n].state = "live"
    BY <1>6 DEF RotateCommit
  <2>2. From(p, "commit", "sign") /\ req'[p] = [req[p] EXCEPT !.new = n]
    BY <1>6 DEF RotateCommit
  <2> QED BY <2>1, <2>2 DEF RefreshMoves, Issued
<1>7. CASE Revoke(p) \/ Deliver(p) \/ Fail(p)
  BY <1>7 DEF Revoke, Deliver, Fail
<1>8. CASE RevokeAllSnapshot(p) \/ RevokeAllCommit(p)
  BY <1>8 DEF RevokeAllSnapshot, RevokeAllCommit, EndMoves
<1>9. ASSUME NEW t \in Token, RevokeAllVisit(p, t) PROVE EndMoves(p)
  BY <1>9 DEF RevokeAllVisit, EndMoves
<1> QED BY <1>1, <1>2, <1>3, <1>4, <1>5, <1>6, <1>7, <1>8, <1>9 DEF Proceed

-----------------------------------------------------------------------------
(* The parts of the invariant about requests, one by one                   *)

\* Each operation goes through the steps of its own handler.
LEMMA StageStep == IInv /\ StageInv /\ [Next]_vars => StageInv'
<1> SUFFICES ASSUME IInv, StageInv, [Next]_vars, NEW p \in Request
             PROVE  /\ pc'[p] = "idle" => req'[p].op = "none"
                    /\ pc'[p] \in {"account", "start", "create"} =>
                          req'[p].op = "login" /\ req'[p].owner \in User
                    /\ pc'[p] \in {"lookup", "owner", "rotate", "commit", "sign"} =>
                          req'[p].op = "refresh"
                    /\ pc'[p] = "revoke" => req'[p].op = "logout"
                    /\ pc'[p] \in {"endAll", "ending"} =>
                          req'[p].op \in {"refresh", "logoutAll"}
                    /\ req'[p].new # NoToken => pc'[p] \in {"sign", "answer"}
                    /\ pc'[p] = "ending" => req'[p].pending \subseteq req'[p].snap
    BY DEF StageInv
<1>0. req[p] \in ReqType
  BY DEF IInv, TypeOK
<1>1. CASE ~ Acts(p)
  BY <1>1, Bystander DEF StageInv
<1>2. CASE Arrive(p)
  BY <1>2, Begun
<1>3. CASE Finish(p)
  BY <1>3, Finished DEF NoReq
<1>4. CASE LoginMoves(p)
  BY <1>0, <1>4 DEF LoginMoves, From, StageInv, ReqType
<1>5. CASE RefreshMoves(p)
  BY <1>0, <1>5 DEF RefreshMoves, From, StageInv, ReqType
<1>6. CASE EndMoves(p)
  <2> DEFINE mine == LiveTokens(req[p].owner)
  <2>1. CASE /\ From(p, "endAll", "ending")
             /\ req'[p] = [req[p] EXCEPT !.snap = mine, !.pending = mine]
    <3>1. /\ req'[p].op = req[p].op /\ req'[p].new = req[p].new
          /\ req'[p].snap = mine /\ req'[p].pending = mine
      BY <1>0, <2>1 DEF ReqType
    <3> QED BY <2>1, <3>1 DEF From, StageInv
  <2>2. ASSUME NEW t \in req[p].pending, From(p, "ending", "ending"),
               req'[p] = [req[p] EXCEPT !.pending = req[p].pending \ {t}]
        PROVE  /\ pc[p] = "ending" /\ pc'[p] = "ending"
               /\ req'[p].op = req[p].op /\ req'[p].new = req[p].new
               /\ req'[p].snap = req[p].snap /\ req'[p].pending \subseteq req[p].pending
    BY <1>0, <2>2 DEF From, ReqType
  <2>3. CASE From(p, "ending", "answer") /\ req'[p] = req[p]
    BY <2>3 DEF From, StageInv
  <2> QED BY <1>6, <2>1, <2>2, <2>3 DEF EndMoves, StageInv
<1> QED BY <1>1, <1>2, <1>3, <1>4, <1>5, <1>6, Moves DEF Acts

\* Tokens that clients have or hand in stay stored, or the rows they were in do.
LEMMA KnownStep == IInv /\ TypeOK' /\ KnownInv /\ [Next]_vars => KnownInv'
<1> SUFFICES ASSUME IInv, TypeOK', KnownInv, [Next]_vars PROVE KnownInv'
    OBVIOUS
<1>0. \A t \in Token : Issued(t) => Issued(t)'
  BY DeadTokenStaysDead
<1>1. \A t \in known' : Issued(t)'
  <2>1. known' = known \/ \E p \in Request : known' = known \cup ({req[p].new} \ {NoToken})
    <3>1. ASSUME NEW p \in Request, Proceed(p)
          PROVE  known' = known \/ known' = known \cup ({req[p].new} \ {NoToken})
      BY <3>1 DEF Proceed, CheckCredentials, StartSession, Create, GetByTokenHash,
         CheckOwner, RotateSpend, RotateCommit, IssueAccessToken, Revoke,
         RevokeAllSnapshot, RevokeAllCommit, RevokeAllVisit, Deliver
    <3> QED BY <3>1 DEF Next, vars, Arrive, Login, LogoutAll, Refresh, Logout, Begin,
         Fail, Environment, SetStatus, DeleteUser, DeleteExpiredBefore, Tick
  <2> QED BY <1>0, <2>1 DEF KnownInv, IInv, TypeOK, ReqType
<1>2. ASSUME NEW p \in Request
      PROVE  /\ (req[p].tok \in Token => Issued(req[p].tok))'
             /\ (req[p].new \in Token => Issued(req[p].new))'
  <2> USE DEF Issued
  <2>0. req[p] \in ReqType
    BY DEF IInv, TypeOK
  <2>1. CASE ~ Acts(p)
    BY <1>0, <2>1, Bystander DEF KnownInv
  <2>2. CASE Arrive(p)
    BY <1>0, <2>2, Begun, ConstantsAssumption DEF KnownInv, IInv, TypeOK
  <2>3. CASE Finish(p)
    BY <2>3, Finished, ConstantsAssumption DEF NoReq
  <2>4. CASE LoginMoves(p)
    BY <1>0, <2>0, <2>4 DEF LoginMoves, KnownInv, ReqType
  <2>5. CASE RefreshMoves(p)
    BY <1>0, <2>0, <2>5 DEF RefreshMoves, KnownInv, ReqType
  <2>6. CASE EndMoves(p)
    BY <1>0, <2>0, <2>6 DEF EndMoves, KnownInv, ReqType
  <2> QED BY <2>1, <2>2, <2>3, <2>4, <2>5, <2>6, Moves DEF Acts
<1> QED BY <1>1, <1>2 DEF KnownInv

\* Nobody acts in another account's name, and the rows a request holds to end them
\* are of the account it acts for.
LEMMA OwnerStep ==
    IInv /\ IInv' /\ StageInv /\ KnownInv /\ OwnerInv /\ [Next]_vars => OwnerInv'
<1> SUFFICES ASSUME IInv, IInv', StageInv, KnownInv, OwnerInv, [Next]_vars,
                    NEW p \in Request
             PROVE  /\ (pc[p] \in {"owner", "rotate", "commit"} =>
                           req[p].owner = row[req[p].tok].user)'
                    /\ (pc[p] \in {"endAll", "ending"} /\ req[p].op = "refresh" =>
                           /\ req[p].tok \in Token /\ ~ Live(req[p].tok)
                           /\ req[p].owner = row[req[p].tok].user)'
                    /\ (pc[p] = "ending" =>
                           \A t \in req[p].snap : row[t].user = req[p].owner)'
                    /\ \A t \in Token : (lock[t] = p /\ pc[p] = "ending" =>
                                            row[t].user = req[p].owner)'
    BY DEF OwnerInv
<1>0. req[p] \in ReqType /\ req[p].snap \subseteq Token /\ TypeOK /\ TypeOK'
  BY DEF IInv, TypeOK, ReqType
<1>1. \A t \in Token : Issued(t) => /\ row'[t].user = row[t].user
                                    /\ ~ Live(t) => ~ Live(t)'
  BY <1>0, RowFixed, DeadTokenStaysDead
<1>2. /\ req[p].tok \in Token => Issued(req[p].tok)
      /\ \A t \in req[p].snap : Issued(t)
      /\ \A t \in Token : Live(t) => Issued(t)
  BY DEF KnownInv, IInv, SnapshotDies, Live, Issued
<1>3. pc[p] \in {"owner", "rotate", "commit"} => req[p].tok \in Token
  BY DEF IInv, TokenInHand
<1>4. ASSUME NEW t \in Token, lock'[t] = p, pc'[p] = "ending"
      PROVE  row'[t].user = req'[p].owner
  <2>1. CASE lock[t] = p
    <3>1. Live(t) /\ (pc[p] = "ending" \/ pc[p] = "commit")
      BY <2>1 DEF IInv, LockInv, LocksHeld
    <3>2. pc[p] = "ending" /\ req'[p].owner = req[p].owner
      <4>1. CASE ~ Acts(p)
        BY <1>4, <3>1, <4>1, Bystander
      <4>2. CASE Arrive(p)
        BY <1>4, <4>2, Begun
      <4>3. CASE Finish(p)
        BY <1>4, <4>3, Finished
      <4>4. CASE LoginMoves(p) \/ RefreshMoves(p)
        BY <1>4, <4>4 DEF LoginMoves, RefreshMoves, From
      <4>5. CASE EndMoves(p)
        BY <1>0, <1>4, <3>1, <4>5 DEF EndMoves, From, ReqType
      <4> QED BY <4>1, <4>2, <4>3, <4>4, <4>5, Moves DEF Acts
    <3> QED BY <1>1, <1>2, <2>1, <3>1, <3>2 DEF OwnerInv
  <2>2. CASE lock[t] # p
    <3>1. RevokeAllVisit(p, t)
      BY <1>0, <1>4, <2>2, LockTaken DEF RotateSpend, Goto, Finish, TypeOK
    <3>2. t \in req[p].snap /\ pc[p] = "ending" /\ req'[p].owner = req[p].owner
      BY <1>0, <3>1 DEF RevokeAllVisit, TypeOK, ReqType, StageInv
    <3> QED BY <1>1, <1>2, <3>2 DEF OwnerInv
  <2> QED BY <2>1, <2>2
<1>5. CASE ~ Acts(p)
  <2>1. /\ pc'[p] = pc[p] /\ req'[p].op = req[p].op /\ req'[p].tok = req[p].tok
        /\ req'[p].owner = req[p].owner /\ req'[p].snap = req[p].snap
    BY <1>5, Bystander
  <2>2. \A t \in req[p].snap : t \in Token /\ Issued(t)
    BY <1>0, <1>2
  <2>3. pc[p] = "ending" => \A t \in req[p].snap : row'[t].user = req[p].owner
    BY <1>1, <2>2 DEF OwnerInv
  <2>4. pc[p] \in {"owner", "rotate", "commit"} =>
           req[p].owner = row'[req[p].tok].user
    BY <1>1, <1>2, <1>3 DEF OwnerInv
  <2>5. pc[p] \in {"endAll", "ending"} /\ req[p].op = "refresh" =>
           /\ req[p].tok \in Token /\ row'[req[p].tok].state # "live"
           /\ req[p].owner = row'[req[p].tok].user
    BY <1>1, <1>2 DEF OwnerInv, Live, Issued
  <2> QED BY <1>4, <2>1, <2>3, <2>4, <2>5 DEF Live
<1>6. CASE Arrive(p)
  BY <1>4, <1>6, Begun
<1>7. CASE Finish(p)
  BY <1>4, <1>7, Finished
<1>8. CASE LoginMoves(p)
  BY <1>4, <1>8 DEF LoginMoves, From
<1>9. CASE RefreshMoves(p)
  BY <1>0, <1>1, <1>2, <1>3, <1>4, <1>9
     DEF RefreshMoves, From, OwnerInv, ReqType, IsRevoked, Live
<1>10. CASE EndMoves(p)
  <2>1. req'[p].op = req[p].op /\ req'[p].tok = req[p].tok /\ req'[p].owner = req[p].owner
    BY <1>0, <1>10 DEF EndMoves, From, ReqType
  <2>2. pc[p] \in {"endAll", "ending"} /\ pc'[p] \in {"ending", "answer"}
    BY <1>10 DEF EndMoves, From
  <2>3. req[p].op = "refresh" => /\ req[p].tok \in Token /\ row'[req[p].tok].state # "live"
                                 /\ req[p].owner = row'[req[p].tok].user
    BY <1>1, <1>2, <2>2 DEF OwnerInv, Live, Issued
  <2>4. ASSUME pc'[p] = "ending", NEW t \in req'[p].snap
        PROVE  row'[t].user = req[p].owner
    <3>1. CASE pc[p] = "endAll"
      <4>1. t \in LiveTokens(req[p].owner)
        BY <1>0, <1>10, <2>4, <3>1 DEF EndMoves, From, ReqType
      <4> QED BY <1>1, <1>2, <4>1 DEF LiveTokens
    <3>2. CASE pc[p] = "ending"
      <4>1. t \in req[p].snap
        BY <1>0, <1>10, <2>4, <3>2 DEF EndMoves, From, ReqType
      <4> QED BY <1>0, <1>1, <1>2, <3>2, <4>1 DEF OwnerInv
    <3> QED BY <2>2, <3>1, <3>2
  <2> QED BY <1>4, <2>1, <2>2, <2>3, <2>4 DEF Live
<1> QED BY <1>5, <1>6, <1>7, <1>8, <1>9, <1>10, Moves DEF Acts

\* A request does not touch the status of an account.
LEMMA StatusKept ==
    ASSUME NEW p \in Request, Acts(p)
    PROVE  status' = status
BY DEF Acts, Arrive, Login, LogoutAll, Refresh, Logout, Begin, Proceed, Fail,
   CheckCredentials, StartSession, Create, GetByTokenHash, CheckOwner, RotateSpend,
   RotateCommit, IssueAccessToken, Revoke, RevokeAllSnapshot, RevokeAllCommit,
   RevokeAllVisit, Deliver

\* What SetStatus notes for the requests it finds under way.
LEMMA StatusNoted ==
    ASSUME IInv, [Next]_vars, NEW p \in Request, NEW u \in User,
           status'[u] = "active", status[u] # "active", pc[p] # "idle", ActsFor(p, u)
    PROVE  req'[p].seen
<1> USE DEF IInv, TypeOK, ReqType
<1>1. CASE Environment
  <2>1. PICK v \in User : SetStatus(v)
    BY <1>1 DEF Environment, DeleteUser, DeleteExpiredBefore, Tick
  <2>2. PICK s \in {"active", "suspended"} \ {status[v]} :
           /\ status' = [status EXCEPT ![v] = s]
           /\ req' = [q \in Request |->
                 IF s = "active" /\ pc[q] # "idle" /\ ActsFor(q, v)
                 THEN [req[q] EXCEPT !.seen = TRUE] ELSE req[q]]
    BY <2>1 DEF SetStatus
  <2>3. v = u /\ s = "active"
    BY <2>2
  <2>4. req'[p] = [req[p] EXCEPT !.seen = TRUE]
    BY <2>2, <2>3
  <2>5. req[p] \in ReqType
    OBVIOUS
  <2> QED BY <2>4, <2>5
<1> QED BY <1>1, StatusKept, WhoActs DEF vars

\* Whoever is granted a token was seen active since it asked.
LEMMA SeenStep ==
    IInv /\ TypeOK' /\ RequestInv /\ HomeInv /\ [Next]_vars => SeenInv'
<1> SUFFICES ASSUME IInv, TypeOK', RequestInv, HomeInv, [Next]_vars, NEW p \in Request
             PROVE  /\ \A u \in User :
                          (/\ req[p].op \in {"login", "refresh"}
                           /\ ActsFor(p, u) /\ status[u] = "active")' => req'[p].seen
                    /\ pc'[p] \in {"start", "create", "rotate", "commit", "sign"} =>
                          req'[p].seen
                    /\ req'[p].new # NoToken => req'[p].seen
    BY DEF SeenInv
<1>0. req[p] \in ReqType /\ TypeOK
  BY DEF IInv, TypeOK
<1>1. req[p].tok \in Token => /\ Issued(req[p].tok)
                              /\ row'[req[p].tok].user = row[req[p].tok].user
  BY RowFixed DEF RequestInv, KnownInv
<1>2. CASE ~ Acts(p)
  <2>1. /\ pc'[p] = pc[p]
        /\ req'[p].op = req[p].op /\ req'[p].tok = req[p].tok
        /\ req'[p].owner = req[p].owner /\ req'[p].new = req[p].new
        /\ req[p].seen => req'[p].seen
    BY <1>2, Bystander
  <2>2. ASSUME NEW u \in User, req'[p].op \in {"login", "refresh"}, ActsFor(p, u)',
               status'[u] = "active"
        PROVE  req'[p].seen
    <3>1. ActsFor(p, u)
      BY <1>1, <2>1, <2>2 DEF ActsFor
    <3>2. pc[p] # "idle"
      BY <2>1, <2>2 DEF RequestInv, StageInv
    <3>3. CASE status[u] = "active"
      BY <2>1, <2>2, <3>1, <3>3 DEF RequestInv, SeenInv
    <3> QED BY <2>2, <3>1, <3>2, <3>3, StatusNoted
  <2> QED BY <2>1, <2>2 DEF RequestInv, SeenInv
<1>3. CASE Arrive(p)
  <2>1. status' = status /\ row' = row
    BY <1>3 DEF Arrive, Login, LogoutAll, Refresh, Logout, Begin
  <2> QED BY <1>3, <2>1, Begun, ConstantsAssumption DEF ActsFor
<1>4. CASE Finish(p)
  BY <1>4, Finished DEF NoReq
<1>5. ASSUME Acts(p), req'[p].op = req[p].op, req'[p].tok = req[p].tok,
             req'[p].seen = req[p].seen,
             \/ req'[p].owner = req[p].owner
             \/ req[p].tok \in Token /\ req'[p].owner = row[req[p].tok].user
      PROVE  \A u \in User :
                (/\ req[p].op \in {"login", "refresh"}
                 /\ ActsFor(p, u) /\ status[u] = "active")' => req'[p].seen
  BY <1>1, <1>5, StatusKept DEF ActsFor, RequestInv, SeenInv
<1>6. CASE Acts(p) /\ LoginMoves(p)
  <2>1. /\ req'[p].op = req[p].op /\ req'[p].tok = req[p].tok
        /\ req'[p].seen = req[p].seen /\ req'[p].owner = req[p].owner
    BY <1>0, <1>6 DEF LoginMoves, ReqType
  <2>2. pc'[p] \in {"start", "create"} => req[p].seen
    BY <1>6 DEF LoginMoves, From, RequestInv, StageInv, SeenInv, ActsFor
  <2>3. pc'[p] \in {"start", "create", "answer"}
    BY <1>6 DEF LoginMoves, From
  <2>4. req'[p].new # NoToken => req[p].seen
    BY <1>0, <1>6 DEF LoginMoves, From, RequestInv, SeenInv, ReqType
  <2> QED BY <1>5, <1>6, <2>1, <2>2, <2>3, <2>4
<1>7. CASE Acts(p) /\ RefreshMoves(p)
  <2>1. /\ req'[p].op = req[p].op /\ req'[p].tok = req[p].tok
        /\ req'[p].seen = req[p].seen
        /\ \/ req'[p].owner = req[p].owner
           \/ req[p].tok \in Token /\ req'[p].owner = row[req[p].tok].user
    BY <1>0, <1>7 DEF RefreshMoves, ReqType
  <2>2. ASSUME From(p, "owner", "rotate"), status[req[p].owner] = "active"
        PROVE  req[p].seen
    <3>1. req[p].op = "refresh" /\ req[p].tok \in Token
          /\ req[p].owner = row[req[p].tok].user
      BY <2>2 DEF From, RequestInv, StageInv, OwnerInv, IInv, TokenInHand
    <3>2. req[p].owner \in User
      BY <1>1, <3>1 DEF HomeInv
    <3> QED BY <2>2, <3>1, <3>2 DEF RequestInv, SeenInv, ActsFor
  <2>3. pc'[p] \in {"rotate", "commit", "sign"} => req[p].seen
    BY <1>7, <2>2 DEF RefreshMoves, From, RequestInv, SeenInv
  <2>4. pc'[p] \in {"endAll", "owner", "rotate", "commit", "sign", "answer"}
    BY <1>7 DEF RefreshMoves, From
  <2>5. req'[p].new # NoToken => req[p].seen
    BY <1>0, <1>7 DEF RefreshMoves, From, RequestInv, SeenInv, ReqType
  <2> QED BY <1>5, <1>7, <2>1, <2>3, <2>4, <2>5
<1>8. CASE Acts(p) /\ EndMoves(p)
  <2>1. /\ req'[p].op = req[p].op /\ req'[p].tok = req[p].tok
        /\ req'[p].seen = req[p].seen /\ req'[p].owner = req[p].owner
        /\ req'[p].new = req[p].new
    BY <1>0, <1>8 DEF EndMoves, ReqType
  <2>2. pc'[p] \in {"ending", "answer"}
    BY <1>8 DEF EndMoves, From
  <2> QED BY <1>5, <1>8, <2>1, <2>2 DEF RequestInv, SeenInv
<1> QED BY <1>2, <1>3, <1>4, <1>6, <1>7, <1>8, Moves DEF Acts


\* A refresh spends its token within the lifetime the service saw left.
LEMMA NowStep ==
    IInv /\ TypeOK' /\ RequestInv /\ ExpiryInv /\ [Next]_vars => NowInv'
<1> SUFFICES ASSUME IInv, TypeOK', RequestInv, ExpiryInv, [Next]_vars, NEW p \in Request
             PROVE  /\ req'[p].now <= clock'
                    /\ pc'[p] \in {"owner", "rotate", "commit"} =>
                          /\ req'[p].now < row'[req'[p].tok].expires
                          /\ row'[req'[p].tok].expires <= req'[p].now + RefreshTTL
    BY DEF NowInv
<1>0. req[p] \in ReqType /\ req[p].now \in Nat /\ clock \in Nat
  BY DEF IInv, TypeOK, ReqType
<1>1. req[p].tok \in Token => /\ Issued(req[p].tok)
                              /\ row'[req[p].tok].expires = row[req[p].tok].expires
  BY RowFixed DEF RequestInv, KnownInv
<1>2. clock' \in Nat /\ clock <= clock'
  BY ClockRuns
<1>3. req[p].now <= clock'
  BY <1>0, <1>2 DEF RequestInv, NowInv
<1>4. ASSUME pc[p] \in {"owner", "rotate", "commit"}
      PROVE  /\ req[p].now < row'[req[p].tok].expires
             /\ row'[req[p].tok].expires <= req[p].now + RefreshTTL
  BY <1>1, <1>4 DEF RequestInv, NowInv, IInv, TokenInHand
<1>5. CASE ~ Acts(p)
  BY <1>3, <1>4, <1>5, Bystander
<1>6. CASE Arrive(p)
  <2>1. req'[p].now = 0 /\ pc'[p] \in {"account", "endAll", "lookup", "revoke"}
    BY <1>6, Begun
  <2> QED BY <1>2, <2>1
<1>7. CASE Finish(p)
  BY <1>2, <1>7, Finished DEF NoReq
<1>8. CASE LoginMoves(p)
  BY <1>0, <1>2, <1>3, <1>8 DEF LoginMoves, From, ReqType
<1>9. CASE RefreshMoves(p)
  <2>1. ASSUME From(p, "lookup", "owner"), req[p].tok \in Token, Live(req[p].tok),
               ~ IsExpired(req[p].tok, clock),
               req'[p] = [req[p] EXCEPT !.owner = row[req[p].tok].user, !.now = clock]
        PROVE  /\ req'[p].now <= clock'
               /\ req'[p].now < row'[req'[p].tok].expires
               /\ row'[req'[p].tok].expires <= req'[p].now + RefreshTTL
    <3>1. req'[p].tok = req[p].tok /\ req'[p].now = clock
      BY <1>0, <2>1 DEF ReqType
    <3>2. clock < row[req[p].tok].expires
      BY <2>1 DEF IsExpired
    <3>3. row[req[p].tok].expires <= clock + RefreshTTL
      BY <1>1, <2>1 DEF ExpiryInv
    <3> QED BY <1>1, <1>2, <2>1, <3>1, <3>2, <3>3
  <2>2. \/ pc'[p] \in {"endAll", "sign", "answer"}
        \/ pc[p] \in {"owner", "rotate", "commit"}
        \/ From(p, "lookup", "owner")
    BY <1>9 DEF RefreshMoves, From
  <2>3. req'[p].tok = req[p].tok /\ (req'[p].now = req[p].now \/ From(p, "lookup", "owner"))
    BY <1>0, <1>9 DEF RefreshMoves, ReqType
  <2>4. CASE From(p, "lookup", "owner")
    BY <1>9, <2>1, <2>4 DEF RefreshMoves, From
  <2>5. CASE ~ From(p, "lookup", "owner")
    BY <1>3, <1>4, <2>2, <2>3, <2>5
  <2> QED BY <2>4, <2>5
<1>10. CASE EndMoves(p)
  <2>1. req'[p].now = req[p].now
    BY <1>0, <1>10 DEF EndMoves, ReqType
  <2> QED BY <1>3, <1>10, <2>1 DEF EndMoves, From
<1> QED BY <1>5, <1>6, <1>7, <1>8, <1>9, <1>10, Moves DEF Acts

-----------------------------------------------------------------------------
(* The parts about the rows                                                *)

\* A row appears by the INSERT of a login or of a rotation, and no other changes.
LEMMA RowAdded ==
    ASSUME IInv, [Next]_vars, NEW n \in Token, ~ Issued(n), Issued(n)'
    PROVE  \E p \in Request :
              /\ clock' = clock
              /\ \A t \in Token : Issued(t)' /\ ~ Issued(t) => t = n
              /\ row'[n].expires = req[p].now + RefreshTTL
              /\ row'[n].user = req[p].owner
              /\ Live(n)'
              /\ \/ /\ pc[p] = "create"
                    /\ row'[n].session = n /\ row'[n].parent = NoToken
                 \/ /\ pc[p] = "commit"
                    /\ row'[n].session = row[req[p].tok].session
                    /\ row'[n].parent = req[p].tok
<1> USE DEF Issued, Live, Expiry
<1>1. ~ Kept
  BY DEF Kept
<1>2. PICK p \in Request, x \in Token : (Create(p, x) \/ RotateCommit(p, x)) /\ ~ Issued(x)
  BY <1>1, RowChanges
<1>3. TypeOK /\ clock' = clock
  BY <1>2 DEF IInv, Create, RotateCommit
<1>4. CASE Create(p, x)
  <2>1. /\ pc[p] = "create"
        /\ row' = [row EXCEPT ![x] = [state |-> "live", user |-> req[p].owner,
                                      expires |-> req[p].now + RefreshTTL,
                                      session |-> x, parent |-> NoToken]]
    BY <1>4 DEF Create
  <2>2. x = n /\ \A t \in Token : t # n => row'[t] = row[t]
    BY <1>3, <2>1 DEF TypeOK
  <2> QED BY <1>3, <2>1, <2>2 DEF TypeOK
<1>5. CASE RotateCommit(p, x)
  <2> DEFINE t == req[p].tok
  <2>0. pc[p] = "commit" /\ t \in Token /\ Issued(t) /\ t # x
    BY <1>2, <1>5 DEF RotateCommit, IInv, TokenInHand, LockInv, SpendingLocks, LocksHeld
  <2>1. row' = [row EXCEPT ![t] = [@ EXCEPT !.state = "rotated"],
                           ![x] = [state |-> "live", user |-> req[p].owner,
                                   expires |-> req[p].now + RefreshTTL,
                                   session |-> row[t].session, parent |-> t]]
    BY <1>5 DEF RotateCommit
  <2>2. x = n /\ \A y \in Token : y # n /\ y # t => row'[y] = row[y]
    BY <1>3, <2>0, <2>1 DEF TypeOK
  <2> QED BY <1>3, <2>0, <2>1, <2>2 DEF TypeOK
<1> QED BY <1>2, <1>4, <1>5


\* Rotation keeps a session with the account that logged in.
LEMMA HomeStep ==
    IInv /\ TypeOK' /\ RequestInv /\ HomeInv /\ [Next]_vars => HomeInv'
<1> SUFFICES ASSUME IInv, TypeOK', RequestInv, HomeInv, [Next]_vars,
                    NEW t \in Token, Issued(t)'
             PROVE  /\ row'[t].user \in User
                    /\ row'[row'[t].session].session = row'[t].session
                    /\ row'[row'[t].session].user = row'[t].user
    BY DEF HomeInv
<1>1. \A x \in Token : Issued(x) => /\ row[x].session \in Token /\ Issued(row[x].session)
                                    /\ row'[x].session = row[x].session
                                    /\ row'[x].user = row[x].user
  BY RowFixed DEF IInv, RowInv, RowsWellFormed
<1>2. CASE Issued(t)
  BY <1>1, <1>2 DEF HomeInv, Issued
<1>3. CASE ~ Issued(t)
  <2>1. PICK p \in Request :
           /\ row'[t].user = req[p].owner
           /\ \/ pc[p] = "create" /\ row'[t].session = t
              \/ pc[p] = "commit" /\ row'[t].session = row[req[p].tok].session
    BY <1>3, RowAdded
  <2>2. CASE pc[p] = "create"
    BY <2>1, <2>2 DEF RequestInv, StageInv
  <2>3. CASE pc[p] = "commit"
    <3> DEFINE x == req[p].tok
    <3>1. x \in Token /\ Issued(x) /\ req[p].owner = row[x].user
      BY <2>3 DEF IInv, TokenInHand, RequestInv, KnownInv, OwnerInv
    <3>2. /\ row[x].user \in User
          /\ row[row[x].session].session = row[x].session
          /\ row[row[x].session].user = row[x].user
      BY <3>1 DEF HomeInv
    <3> HIDE DEF x
    <3>3. PICK s \in Token : s = row[x].session /\ Issued(s)
      BY <1>1, <3>1
    <3>4. row'[s].session = row[s].session /\ row'[s].user = row[s].user
      BY <1>1, <3>3
    <3> QED BY <2>1, <2>3, <3>1, <3>2, <3>3, <3>4 DEF x
  <2> QED BY <2>1, <2>2, <2>3
<1> QED BY <1>2, <1>3

\* The usable token of a session is the one that expires last.
LEMMA ExpiryStep ==
    IInv /\ IInv' /\ RequestInv /\ ExpiryInv /\ [Next]_vars => ExpiryInv'
<1> SUFFICES ASSUME IInv, IInv', RequestInv, ExpiryInv, [Next]_vars
             PROVE  ExpiryInv'
    OBVIOUS
<1> USE ConstantsAssumption
<1>0. TypeOK /\ TypeOK' /\ clock \in Nat /\ clock' \in Nat /\ clock <= clock'
  BY ClockRuns DEF IInv, TypeOK
<1>1. \A x \in Token : Issued(x) => /\ row[x].session \in Token /\ Issued(row[x].session)
                                    /\ row'[x].session = row[x].session
                                    /\ row'[x].expires = row[x].expires
                                    /\ Live(x)' => Live(x)
  BY <1>0, RowFixed, DeadTokenStaysDead DEF IInv, RowInv, RowsWellFormed
<1>2. \A x \in Token : row[x].expires \in Nat /\ row'[x].expires \in Nat
  BY <1>0 DEF TypeOK, RowType
<1>3. ASSUME NEW t \in Token, Issued(t)'
      PROVE  row'[t].expires <= clock' + RefreshTTL
  <2>1. CASE Issued(t)
    BY <1>0, <1>1, <1>2, <2>1 DEF ExpiryInv
  <2>2. CASE ~ Issued(t)
    <3>1. PICK p \in Request : row'[t].expires = req[p].now + RefreshTTL
      BY <1>3, <2>2, RowAdded
    <3>2. req[p].now <= clock /\ req[p].now \in Nat
      BY <1>0 DEF RequestInv, NowInv, TypeOK, ReqType
    <3> QED BY <1>0, <3>1, <3>2
  <2> QED BY <2>1, <2>2
<1>4. ASSUME NEW t \in Token, NEW x \in Token, Live(t)',
             row'[x].session = row'[t].session, x # t
      PROVE  row'[x].expires <= row'[t].expires
  <2>1. Issued(t)'
    BY <1>4 DEF Live, Issued
  <2>2. Issued(x)' /\ ~ Live(x)'
    BY <1>4, <2>1 DEF IInv, RowInv, RowsWellFormed, AtMostOneLive, NoRow
  <2>3. Issued(x)
    BY <2>2, RowAdded
  <2>4. CASE Issued(t)
    BY <1>1, <1>4, <2>3, <2>4 DEF ExpiryInv
  <2>5. CASE ~ Issued(t)
    <3>1. PICK p \in Request :
             /\ row'[t].expires = req[p].now + RefreshTTL
             /\ \/ pc[p] = "create" /\ row'[t].session = t
                \/ pc[p] = "commit" /\ row'[t].session = row[req[p].tok].session
      BY <2>1, <2>5, RowAdded
    <3>2. pc[p] = "commit" /\ row[x].session = row[req[p].tok].session
      BY <1>1, <1>4, <2>3, <2>5, <3>1
    <3>3. req[p].tok \in Token /\ Live(req[p].tok)
      BY <3>2 DEF IInv, TokenInHand, LockInv, SpendingLocks, LocksHeld
    <3>4. row[x].expires <= row[req[p].tok].expires
      BY <3>2, <3>3 DEF ExpiryInv
    <3>5. row[req[p].tok].expires <= req[p].now + RefreshTTL /\ req[p].now \in Nat
      BY <1>0, <3>2 DEF RequestInv, NowInv, TypeOK, ReqType
    <3> QED BY <1>1, <1>2, <2>3, <3>1, <3>3, <3>4, <3>5
  <2> QED BY <2>4, <2>5
<1>5. ASSUME NEW t \in Token, NEW x \in Token, Live(t)', row'[x].session = row'[t].session
      PROVE  row'[x].expires <= row'[t].expires
  BY <1>2, <1>4, <1>5
<1> QED BY <1>3, <1>5 DEF ExpiryInv

\* A replacement is stored with the expiry its refresh computed in time.
LEMMA RenewedStep ==
    IInv /\ IInv' /\ RequestInv /\ RenewedInTime /\ [Next]_vars => RenewedInTime'
<1> SUFFICES ASSUME IInv, IInv', RequestInv, RenewedInTime, [Next]_vars,
                    NEW t \in Token, NEW n \in Token, row'[n].parent = t
             PROVE  /\ row'[n].expires - RefreshTTL < row'[t].expires
                    /\ row'[n].expires >= row'[t].expires
    BY DEF RenewedInTime
<1> USE ConstantsAssumption
<1>0. TypeOK /\ TypeOK'
  BY DEF IInv
<1>1. \A x \in Token : Issued(x) => /\ row'[x].parent = row[x].parent
                                    /\ row'[x].expires = row[x].expires
  BY <1>0, RowFixed
<1>2. Issued(n)'
  BY DEF IInv, RowInv, RowsWellFormed, NoRow
<1>3. CASE Issued(n)
  <2>1. Issued(t)
    BY <1>1, <1>3 DEF IInv, RowInv, RowsWellFormed
  <2> QED BY <1>1, <1>3, <2>1 DEF RenewedInTime
<1>4. CASE ~ Issued(n)
  <2>1. PICK p \in Request :
           /\ row'[n].expires = req[p].now + RefreshTTL
           /\ pc[p] = "commit" /\ t = req[p].tok
    BY <1>2, <1>4, RowAdded
  <2>2. Issued(t) /\ req[p].now < row[t].expires
        /\ row[t].expires <= req[p].now + RefreshTTL
    BY <2>1 DEF RequestInv, KnownInv, NowInv
  <2>3. req[p].now \in Nat /\ row[t].expires \in Nat
    BY <1>0 DEF TypeOK, ReqType, RowType
  <2> QED BY <1>1, <2>1, <2>2, <2>3
<1> QED BY <1>3, <1>4


-----------------------------------------------------------------------------
(* The refinement of Sessions                                              *)

\* CurrentToken is the live token of a session, and Deadline the expiry of that.
Currents ==
    \A s \in Token :
        /\ \A t \in Token : Live(t) /\ row[t].session = s => CurrentToken(s) = t
        /\ ~ Ongoing(s) => CurrentToken(s) = NoToken

Deadlines == \A t \in Token : Live(t) => Deadline(row[t].session) = row[t].expires

\* The member of a set that no other exceeds is its Max, however large the set.
LEMMA MaxIs ==
    ASSUME NEW S \in SUBSET Nat, NEW m \in S, \A x \in S : x <= m
    PROVE  Max(S) = m
<1> DEFINE IsMax(y) == \A x \in S : y >= x
<1>1. IsMax(m)
  OBVIOUS
<1>2. PICK y \in S : y = Max(S) /\ IsMax(y)
  BY <1>1 DEF Max
<1> QED BY <1>2

\* A session has one live token at most, so CurrentToken has no choice.
LEMMA CurrentIsLive == IInv => Currents
<1> SUFFICES ASSUME IInv, NEW s \in Token
             PROVE  /\ \A t \in Token : Live(t) /\ row[t].session = s => CurrentToken(s) = t
                    /\ ~ Ongoing(s) => CurrentToken(s) = NoToken
    BY DEF Currents
<1>1. ASSUME NEW t \in Token, Live(t), row[t].session = s
      PROVE  CurrentToken(s) = t
  <2>1. t \in SessionTokens(s)
    BY <1>1 DEF SessionTokens
  <2>2. \A x \in SessionTokens(s) : Live(x) => x = t
    BY <1>1 DEF SessionTokens, IInv, RowInv, AtMostOneLive
  <2>3. CurrentToken(s) = CHOOSE x \in SessionTokens(s) : Live(x)
    BY <1>1, <2>1 DEF CurrentToken
  <2> QED BY <1>1, <2>1, <2>2, <2>3
<1>2. ASSUME ~ Ongoing(s) PROVE CurrentToken(s) = NoToken
  BY <1>2 DEF Ongoing, CurrentToken, SessionTokens
<1> QED BY <1>1, <1>2

\* The live token of a session expires last, so its expiry is the largest.
LEMMA DeadlineIsExpiry == IInv /\ ExpiryInv => Deadlines
<1> SUFFICES ASSUME IInv, ExpiryInv, NEW t \in Token, Live(t)
             PROVE  Deadline(row[t].session) = row[t].expires
    BY DEF Deadlines
<1> DEFINE s == row[t].session
           E == Expiries(s)
<1>1. E \in SUBSET Nat /\ row[t].expires \in E
  BY DEF Expiries, SessionTokens, IInv, TypeOK, RowType
<1>2. \A x \in E : x <= row[t].expires
  BY DEF Expiries, SessionTokens, ExpiryInv
<1>3. Max(E) = row[t].expires
  <2> HIDE DEF E
  <2> QED BY <1>1, <1>2, MaxIs
<1> QED BY <1>1, <1>3 DEF Deadline

\* What Sessions sees of the state, and of a step.
stored == {t \in Token : Issued(t)}
currents == [s \in Token |-> CurrentToken(s)]
homes == [s \in Token |-> IF Issued(s) /\ row[s].session = s THEN row[s].user ELSE NoUser]
deadlines == [s \in Token |-> Deadline(s)]

PromiseStep == [Promise!Next]_<<stored, currents, homes, deadlines, clock>>

\* A session none of whose rows is new has the deadline it had.
LEMMA SameDeadline ==
    ASSUME NEW s \in Token,
           \A t \in Token : row[t].session = s \/ row'[t].session = s =>
              row'[t].session = row[t].session /\ row'[t].expires = row[t].expires
    PROVE  Deadline(s)' = Deadline(s)
<1>1. Expiries(s)' = Expiries(s)
  BY DEF Expiries, SessionTokens
<1> QED BY <1>1 DEF Deadline

\* The sessions that a step leaves without a live token.
Stopped == {s \in Token : Ongoing(s) /\ ~ Ongoing(s)'}

\* A step that stores no row changes nothing else that Sessions sees.
LEMMA StopStep ==
    ASSUME IInv, IInv', Currents, Currents', [Next]_vars, Kept
    PROVE  /\ /\ stored' = stored /\ homes' = homes /\ deadlines' = deadlines
              /\ currents' = [s \in Token |-> IF s \in Stopped THEN NoToken
                                              ELSE currents[s]]
           /\ \A s \in Stopped : \E t \in Token : /\ Live(t) /\ ~ Live(t)'
                                                  /\ row[t].session = s
<1>1. \A t \in Token : row'[t].session = row[t].session /\ row'[t].user = row[t].user
                       /\ (Issued(t)' <=> Issued(t)) /\ (Live(t)' => Live(t))
  BY DEF Kept
<1>2. \A t \in Token : row'[t].expires = row[t].expires
  <2>1. ASSUME NEW t \in Token PROVE row'[t].expires = row[t].expires
    BY RowFixed DEF Kept, IInv
  <2> QED BY <2>1
<1>3. stored' = stored /\ homes' = homes
  BY <1>1 DEF stored, homes
<1>4. deadlines' = deadlines
  <2>1. ASSUME NEW s \in Token PROVE Deadline(s)' = Deadline(s)
    BY <1>1, <1>2, SameDeadline
  <2> QED BY <2>1 DEF deadlines
<1>5. ASSUME NEW s \in Token
      PROVE  CurrentToken(s)' = IF s \in Stopped THEN NoToken ELSE CurrentToken(s)
  <2>1. CASE s \in Stopped
    BY <2>1 DEF Stopped, Currents
  <2>2. CASE Ongoing(s)'
    <3>1. PICK t \in Token : row'[t].session = s /\ Live(t)'
      BY <2>2 DEF Ongoing
    <3> QED BY <1>1, <2>2, <3>1 DEF Stopped, Currents
  <2>3. CASE ~ Ongoing(s)' /\ ~ Ongoing(s)
    BY <2>3 DEF Stopped, Currents
  <2> QED BY <2>1, <2>2, <2>3 DEF Stopped
<1>6. currents' = [s \in Token |-> IF s \in Stopped THEN NoToken ELSE currents[s]]
  BY <1>5 DEF currents
<1>7. ASSUME NEW s \in Stopped
      PROVE  \E t \in Token : Live(t) /\ ~ Live(t)' /\ row[t].session = s
  BY <1>1 DEF Stopped, Ongoing
<1> QED BY <1>3, <1>4, <1>6, <1>7

\* Rows of one account that die together are an End of its sessions.
LEMMA EndStep ==
    ASSUME IInv, IInv', HomeInv, Currents, Currents', [Next]_vars, Kept, clock' = clock,
           NEW u, \A t \in Token : Live(t) /\ ~ Live(t)' => row[t].user = u
    PROVE  PromiseStep
<1>1. /\ stored' = stored /\ homes' = homes /\ deadlines' = deadlines
      /\ currents' = [s \in Token |-> IF s \in Stopped THEN NoToken ELSE currents[s]]
      /\ \A s \in Stopped : \E t \in Token : /\ Live(t) /\ ~ Live(t)'
                                             /\ row[t].session = s
  BY StopStep
<1>2. ASSUME NEW s \in Stopped PROVE currents[s] # NoToken /\ homes[s] = u /\ u \in User
  <2>1. PICK t \in Token : Live(t) /\ ~ Live(t)' /\ row[t].session = s
    BY <1>1, <1>2
  <2>2. s \in Token /\ Issued(t) /\ Issued(s)
    BY <1>2, <2>1 DEF Stopped, IInv, RowInv, RowsWellFormed, Live, Issued
  <2>3. row[t].user = u /\ row[s].session = s /\ row[s].user = u /\ u \in User
    BY <2>1, <2>2 DEF HomeInv
  <2>4. CurrentToken(s) = t
    BY <2>1, <2>2 DEF Currents
  <2> QED BY <2>2, <2>3, <2>4, ConstantsAssumption DEF currents, homes
<1>3. Stopped \in SUBSET Token
  BY DEF Stopped
<1>4. CASE Stopped = {}
  <2>1. currents' = currents
    BY <1>1, <1>4 DEF currents
  <2> QED BY <1>1, <2>1 DEF PromiseStep
<1>5. CASE Stopped # {}
  <2>1. u \in User /\ Promise!End(u, Stopped)
    BY <1>1, <1>2, <1>5 DEF Promise!End, Promise!Stop, Promise!Ongoing,
       stored, currents, homes, deadlines
  <2> QED BY <1>3, <2>1 DEF PromiseStep, Promise!Next
<1> QED BY <1>4, <1>5

\* Pruning is a Lapse of sessions whose time is up.
LEMMA PruneStep ==
    ASSUME IInv, IInv', Currents, Currents', Deadlines, [Next]_vars, Kept,
           NEW cutoff \in 0 .. clock, DeleteExpiredBefore(cutoff)
    PROVE  PromiseStep
<1>0. clock' = clock /\ TypeOK
  BY DEF DeleteExpiredBefore, IInv
<1>1. /\ stored' = stored /\ homes' = homes /\ deadlines' = deadlines
      /\ currents' = [s \in Token |-> IF s \in Stopped THEN NoToken ELSE currents[s]]
      /\ \A s \in Stopped : \E t \in Token : /\ Live(t) /\ ~ Live(t)'
                                             /\ row[t].session = s
  BY <1>0, StopStep
<1>2. ASSUME NEW s \in Stopped PROVE currents[s] # NoToken /\ deadlines[s] < clock
  <2>1. PICK t \in Token : Live(t) /\ ~ Live(t)' /\ row[t].session = s
    BY <1>1, <1>2
  <2>2. row[t].expires < cutoff /\ row[t].expires \in Nat
    BY <1>0, <2>1 DEF DeleteExpiredBefore, Live, TypeOK, RowType
  <2>3. s \in Token /\ CurrentToken(s) = t /\ Deadline(s) = row[t].expires
    BY <1>2, <2>1 DEF Stopped, Currents, Deadlines
  <2> QED BY <1>0, <2>2, <2>3, ConstantsAssumption DEF currents, deadlines, TypeOK
<1>3. Stopped \in SUBSET Token
  BY DEF Stopped
<1>4. Promise!Lapse(Stopped)
  BY <1>0, <1>1, <1>2 DEF Promise!Lapse, Promise!Stop, Promise!Ongoing,
     stored, currents, homes, deadlines
<1> QED BY <1>3, <1>4 DEF PromiseStep, Promise!Next

\* The INSERT of a login is a Start.
LEMMA StartStep ==
    ASSUME IInv, IInv', RequestInv, Currents, Currents', Deadlines', [Next]_vars,
           NEW p \in Request, NEW n \in Token, Create(p, n), ~ Issued(n), row' # row
    PROVE  PromiseStep
<1> DEFINE d == req[p].now + RefreshTTL
<1>0. /\ TypeOK /\ clock \in Nat /\ req[p].now \in Nat /\ req[p].now <= clock
      /\ req[p].owner \in User /\ clock' = clock
  BY DEF IInv, TypeOK, ReqType, RequestInv, StageInv, NowInv, Create
<1> PICK u \in User : u = req[p].owner
  BY <1>0
<1>1. row' = [row EXCEPT ![n] = [state |-> "live", user |-> u, expires |-> d,
                                 session |-> n, parent |-> NoToken]]
  BY DEF Create, Expiry
<1>2. /\ Live(n)' /\ row'[n].session = n /\ row'[n].user = u /\ row'[n].expires = d
      /\ \A t \in Token \ {n} : row'[t] = row[t] /\ row[t].session # n
  <2>1. \A t \in Token : row[t].session # n
    BY ConstantsAssumption DEF IInv, RowInv, RowsWellFormed, NoRow
  <2> QED BY <1>0, <1>1, <2>1 DEF TypeOK, Live
<1>3. stored' = stored \cup {n} /\ n \notin stored
  BY <1>2 DEF stored, Issued, Live
<1>4. currents' = [currents EXCEPT ![n] = n]
  <2>1. CurrentToken(n)' = n
    BY <1>2 DEF Currents
  <2>2. ASSUME NEW s \in Token, s # n PROVE CurrentToken(s)' = CurrentToken(s)
    <3>1. \A t \in Token : Live(t)' /\ row'[t].session = s <=>
                           Live(t) /\ row[t].session = s
      BY <1>2, <2>2 DEF Live, Issued, IInv, RowInv, RowsWellFormed, NoRow
    <3> QED BY <3>1, <2>2 DEF Currents, Ongoing
  <2> QED BY <2>1, <2>2 DEF currents
<1>5. homes' = [homes EXCEPT ![n] = u]
  BY <1>2 DEF homes, Issued, Live
<1>6. deadlines' = [deadlines EXCEPT ![n] = d]
  <2>1. Deadline(n)' = d
    BY <1>2 DEF Deadlines
  <2>2. ASSUME NEW s \in Token, s # n PROVE Deadline(s)' = Deadline(s)
    <3>1. row[n].session # s
      BY <2>2, ConstantsAssumption DEF IInv, RowInv, RowsWellFormed, NoRow
    <3> QED BY <1>2, <2>2, <3>1, SameDeadline
  <2> QED BY <2>1, <2>2 DEF deadlines
<1>7. d \in 0 .. clock + RefreshTTL
  BY <1>0, ConstantsAssumption
<1>8. Promise!Start(n, u)
  <2>1. \E e \in 0 .. clock + RefreshTTL : deadlines' = [deadlines EXCEPT ![n] = e]
    BY <1>6, <1>7
  <2> QED BY <1>0, <1>3, <1>4, <1>5, <2>1
             DEF Promise!Start, stored, currents, homes, deadlines
<1> QED BY <1>0, <1>8 DEF PromiseStep, Promise!Next

\* The commit of Rotate is a Renew.
LEMMA RenewStep ==
    ASSUME IInv, IInv', RequestInv, HomeInv, Currents, Currents', Deadlines, Deadlines',
           [Next]_vars,
           NEW p \in Request, NEW n \in Token, RotateCommit(p, n), ~ Issued(n)
    PROVE  PromiseStep
<1> DEFINE d == req[p].now + RefreshTTL
<1>0. /\ TypeOK /\ clock \in Nat /\ req[p].now \in Nat /\ req[p].now <= clock
      /\ clock' = clock /\ pc[p] = "commit"
  BY DEF IInv, TypeOK, ReqType, RequestInv, NowInv, RotateCommit
<1>1. PICK t \in Token : t = req[p].tok /\ Live(t) /\ Issued(t) /\ t # n
  BY <1>0 DEF IInv, TokenInHand, LockInv, SpendingLocks, LocksHeld, Live, Issued
<1>2. PICK s \in Token : s = row[t].session /\ Issued(s) /\ s # n
  BY <1>1 DEF IInv, RowInv, RowsWellFormed
<1>3. row' = [row EXCEPT ![t] = [@ EXCEPT !.state = "rotated"],
                         ![n] = [state |-> "live", user |-> req[p].owner, expires |-> d,
                                 session |-> s, parent |-> t]]
  BY <1>1, <1>2 DEF RotateCommit, Expiry
<1>4. /\ Live(n)' /\ row'[n].session = s /\ row'[n].expires = d
      /\ \A x \in Token \ {n} : /\ row'[x].session = row[x].session
                                /\ row'[x].user = row[x].user
                                /\ row'[x].expires = row[x].expires
                                /\ Issued(x)' <=> Issued(x)
      /\ \A x \in Token \ {n, t} : Live(x)' <=> Live(x)
      /\ ~ Live(t)'
  BY <1>0, <1>1, <1>3 DEF TypeOK, RowType, Live, Issued
<1>5. row[n].session = NoToken /\ ~ Live(n)
  BY ConstantsAssumption DEF IInv, RowInv, RowsWellFormed, NoRow, Live, Issued
<1>6. stored' = stored \cup {n} /\ n \notin stored
  BY <1>4 DEF stored, Issued, Live
<1>7. currents' = [currents EXCEPT ![s] = n] /\ currents[s] # NoToken
  <2>1. CurrentToken(s)' = n /\ CurrentToken(s) = t
    BY <1>1, <1>2, <1>4 DEF Currents
  <2>2. ASSUME NEW x \in Token, x # s PROVE CurrentToken(x)' = CurrentToken(x)
    <3>1. \A y \in Token : Live(y)' /\ row'[y].session = x <=>
                           Live(y) /\ row[y].session = x
      BY <1>1, <1>2, <1>4, <1>5, <2>2
    <3> QED BY <3>1, <2>2 DEF Currents, Ongoing
  <2> QED BY <2>1, <2>2, ConstantsAssumption DEF currents
<1>8. homes' = homes
  <2>1. ASSUME NEW x \in Token
        PROVE  (IF Issued(x) /\ row[x].session = x THEN row[x].user ELSE NoUser)'
               = IF Issued(x) /\ row[x].session = x THEN row[x].user ELSE NoUser
    BY <1>2, <1>4
  <2> QED BY <2>1 DEF homes
<1>9. deadlines' = [deadlines EXCEPT ![s] = d] /\ deadlines[s] = row[t].expires
  <2>1. Deadline(s)' = d /\ Deadline(s) = row[t].expires
    BY <1>1, <1>2, <1>4 DEF Deadlines
  <2>2. ASSUME NEW x \in Token, x # s PROVE Deadline(x)' = Deadline(x)
    BY <1>4, <1>5, <2>2, SameDeadline, ConstantsAssumption
  <2> QED BY <2>1, <2>2 DEF deadlines
<1>10. row[t].expires <= d /\ row[t].expires \in Nat
  BY <1>0, <1>1 DEF RequestInv, NowInv, TypeOK, RowType
<1>11. Promise!Renew(s, n)
  <2>1. d \in deadlines[s] .. clock + RefreshTTL
    BY <1>0, <1>9, <1>10, ConstantsAssumption
  <2>2. \E e \in deadlines[s] .. clock + RefreshTTL :
           deadlines' = [deadlines EXCEPT ![s] = e]
    BY <1>9, <2>1
  <2> QED BY <1>0, <1>6, <1>7, <1>8, <2>2
             DEF Promise!Renew, Promise!Ongoing, stored, currents, homes, deadlines
<1> QED BY <1>11 DEF PromiseStep, Promise!Next

\* Time passes for the sessions when the clock ticks.
LEMMA TickStep ==
    ASSUME IInv, IInv', Currents, Currents', [Next]_vars, Tick
    PROVE  PromiseStep
<1>1. row' = row /\ clock' = clock + 1
  BY DEF Tick
<1>2. Kept
  BY <1>1 DEF Kept, Issued, Live
<1>3. Stopped = {}
  BY <1>1 DEF Stopped, Ongoing, Live
<1>4. UNCHANGED <<stored, currents, homes, deadlines>>
  BY <1>2, <1>3, StopStep DEF currents
<1>5. Promise!Pass
  BY <1>1, <1>4 DEF Promise!Pass, stored, currents, homes, deadlines
<1> QED BY <1>5 DEF PromiseStep, Promise!Next

\* Every other step keeps the rows, or the rows that die are of one account.
LEMMA SessionStep ==
    ASSUME IInv, IInv', RequestInv, HomeInv, Currents, Currents',
           Deadlines, Deadlines', [Next]_vars
    PROVE  PromiseStep
<1>0. TypeOK
  BY DEF IInv
<1>1. ASSUME row' = row, clock' = clock PROVE PromiseStep
  <2>1. Kept /\ \A t \in Token : Live(t) => Live(t)'
    BY <1>1 DEF Kept, Issued, Live
  <2> QED BY <1>1, <2>1, EndStep
<1>2. ASSUME NEW p \in Request, NEW n \in Token, Create(p, n) \/ RotateCommit(p, n)
      PROVE  PromiseStep
  <2>1. ~ Issued(n) \/ (row' = row /\ clock' = clock)
    BY <1>2 DEF Create, RotateCommit
  <2>2. clock' = clock
    BY <1>2 DEF Create, RotateCommit
  <2> QED BY <1>1, <1>2, <2>1, <2>2, StartStep, RenewStep
<1>3. ASSUME \A p \in Request, n \in Token : ~ Create(p, n) /\ ~ RotateCommit(p, n)
      PROVE  Kept
  BY <1>3, RowChanges
<1>4. ASSUME Kept, NEW p \in Request, Revoke(p) PROVE PromiseStep
  <2>1. PICK u : u = row[req[p].tok].user
    OBVIOUS
  <2>2. clock' = clock /\ \A t \in Token : Live(t) /\ ~ Live(t)' => row[t].user = u
    BY <1>0, <1>4, <2>1 DEF Revoke, TypeOK, Live
  <2> QED BY <1>4, <2>2, EndStep
<1>5. ASSUME Kept, NEW p \in Request, RevokeAllCommit(p) PROVE PromiseStep
  <2>1. PICK u : u = req[p].owner
    OBVIOUS
  <2>2. clock' = clock /\ \A t \in Token : Live(t) /\ ~ Live(t)' => row[t].user = u
    BY <1>0, <1>5, <2>1 DEF RevokeAllCommit, TypeOK, Live, RequestInv, OwnerInv
  <2> QED BY <1>5, <2>2, EndStep
<1>6. ASSUME Kept, NEW u \in User, DeleteUser(u) PROVE PromiseStep
  <2>1. clock' = clock /\ \A t \in Token : Live(t) /\ ~ Live(t)' => row[t].user = u
    BY <1>0, <1>6 DEF DeleteUser, TypeOK, Live
  <2> QED BY <1>6, <2>1, EndStep
<1>7. ASSUME Kept, Environment PROVE PromiseStep
  <2>1. ASSUME NEW u \in User, SetStatus(u) PROVE PromiseStep
    BY <1>1, <2>1 DEF SetStatus
  <2> QED BY <1>6, <1>7, <2>1, PruneStep, TickStep DEF Environment
<1>8. ASSUME Kept, NEW p \in Request, Acts(p) PROVE PromiseStep
  <2>1. Revoke(p) \/ RevokeAllCommit(p) \/ (row' = row /\ clock' = clock)
        \/ \E n \in Token : Create(p, n) \/ RotateCommit(p, n)
    BY <1>8 DEF Acts, Arrive, Login, LogoutAll, Refresh, Logout, Begin, Fail, Proceed,
       CheckCredentials, StartSession, GetByTokenHash, CheckOwner, RotateSpend,
       IssueAccessToken, RevokeAllSnapshot, RevokeAllVisit, Deliver
  <2> QED BY <1>1, <1>2, <1>4, <1>5, <1>8, <2>1
<1>9. CASE UNCHANGED vars
  BY <1>1, <1>9 DEF vars
<1> QED BY <1>2, <1>3, <1>7, <1>8, <1>9, WhoActs

-----------------------------------------------------------------------------
(* The theorems                                                            *)

\* What the requests know of the table, and what the rows of a session have in
\* common, outlasts every interleaving, failure and tick of the clock.
THEOREM HistoryInvariance == Spec => []HistoryInv
<1>1. Init => HistoryInv
  BY ConstantsAssumption
     DEF Init, HistoryInv, RequestInv, StageInv, KnownInv, OwnerInv, SeenInv, NowInv,
         HomeInv, ExpiryInv, RenewedInTime, ActsFor, Issued, Live, NoRow, NoReq
<1>2. IInv /\ IInv' /\ HistoryInv /\ [Next]_vars => HistoryInv'
  BY StageStep, KnownStep, OwnerStep, SeenStep, NowStep, HomeStep, ExpiryStep,
     RenewedStep DEF HistoryInv, RequestInv, IInv
<1> QED BY <1>1, <1>2, Invariance, PTL DEF Spec

\* No refresh, however late it commits, renews a token past its lifetime or to an
\* earlier expiry.
THEOREM RenewedInTimeHolds == Spec => []RenewedInTime
BY HistoryInvariance, PTL DEF HistoryInv

\* An account that was suspended or gone all the while is granted no token.
THEOREM GrantedToActiveHolds == Spec => []GrantedToActive
<1>1. HistoryInv => GrantedToActive
  BY DEF HistoryInv, RequestInv, SeenInv, GrantedToActive
<1> QED BY <1>1, HistoryInvariance, PTL

\* A session is ended only by its own token, by its account logging out
\* everywhere, or by a dead token of the same account.
THEOREM EndsAreProvokedHolds == Spec => EndsAreProvoked
<1>1. ASSUME IInv, TypeOK', HistoryInv, [Next]_vars,
             NEW t \in Token, Live(t), row'[t].state = "ended"
      PROVE  \E p \in Request :
                /\ pc'[p] # pc[p]
                /\ \/ req[p].op = "logout" /\ req[p].tok = t
                   \/ req[p].op = "logoutAll" /\ req[p].owner = row[t].user
                   \/ /\ req[p].op = "refresh" /\ req[p].tok \in Token
                      /\ row[req[p].tok].user = row[t].user
                      /\ ~ Live(req[p].tok)
  <2>1. (\E p \in Request : Revoke(p) \/ RevokeAllCommit(p)) /\ TypeOK /\ row' # row
    <3>1. TypeOK /\ row' # row
      BY <1>1 DEF IInv, Live
    <3>2. ASSUME NEW p \in Request, NEW n \in Token, Create(p, n) \/ RotateCommit(p, n)
          PROVE  FALSE
      BY <1>1, <3>1, <3>2 DEF Create, RotateCommit, TypeOK, RowType, Live
    <3>3. ~ Environment
      BY <1>1, <3>1 DEF Environment, SetStatus, DeleteUser, DeleteExpiredBefore, Tick,
         TypeOK, RowType, Live
    <3> QED
      BY <1>1, <3>1, <3>2, <3>3 DEF Next, vars, Arrive, Login, LogoutAll, Refresh,
         Logout, Begin, Fail, Proceed, CheckCredentials, StartSession, GetByTokenHash,
         CheckOwner, RotateSpend, IssueAccessToken, RevokeAllSnapshot, RevokeAllVisit,
         Deliver
  <2>2. ASSUME NEW p \in Request, Revoke(p)
        PROVE  pc'[p] # pc[p] /\ req[p].op = "logout" /\ req[p].tok = t
    BY <1>1, <2>1, <2>2 DEF Revoke, Finish, Goto, TypeOK, RowType, Live, HistoryInv,
       RequestInv, StageInv
  <2>3. ASSUME NEW p \in Request, RevokeAllCommit(p)
        PROVE  /\ pc'[p] # pc[p]
               /\ \/ req[p].op = "logoutAll" /\ req[p].owner = row[t].user
                  \/ /\ req[p].op = "refresh" /\ req[p].tok \in Token
                     /\ row[req[p].tok].user = row[t].user
                     /\ ~ Live(req[p].tok)
    <3>1. pc[p] = "ending" /\ pc'[p] # pc[p] /\ lock[t] = p
      BY <1>1, <2>1, <2>3 DEF RevokeAllCommit, Goto, TypeOK, Live
    <3>2. row[t].user = req[p].owner /\ req[p].op \in {"refresh", "logoutAll"}
      BY <1>1, <3>1 DEF HistoryInv, RequestInv, OwnerInv, StageInv
    <3> QED BY <1>1, <3>1, <3>2 DEF HistoryInv, RequestInv, OwnerInv
  <2> QED BY <2>1, <2>2, <2>3
<1>2. IInv /\ IInv' /\ HistoryInv /\ [Next]_vars =>
        [\A t \in Token : (Live(t) /\ row'[t].state = "ended") =>
           \E p \in Request :
              /\ pc'[p] # pc[p]
              /\ \/ req[p].op = "logout" /\ req[p].tok = t
                 \/ req[p].op = "logoutAll" /\ req[p].owner = row[t].user
                 \/ /\ req[p].op = "refresh" /\ req[p].tok \in Token
                    /\ row[req[p].tok].user = row[t].user
                    /\ ~ Live(req[p].tok)]_vars
  BY <1>1 DEF IInv
<1> QED BY <1>2, Invariance, HistoryInvariance, PTL DEF Spec, EndsAreProvoked


\* The service keeps the promise of Sessions: its calls, transactions, locks and
\* failures add up to starts, renewals and ends of sessions, each at one instant.
THEOREM RefinesSessions == Spec => ImplementsSessions
<1>1. IInv => Currents
  BY CurrentIsLive
<1>2. IInv /\ HistoryInv => Deadlines
  BY DeadlineIsExpiry DEF HistoryInv
<1>3. Init => Promise!Init
  <2> SUFFICES ASSUME Init PROVE Promise!Init OBVIOUS
  <2>1. \A t \in Token : ~ Issued(t) /\ ~ Live(t) /\ row[t].session = NoToken
    BY DEF Init, NoRow, Issued, Live
  <2>2. \A s \in Token : SessionTokens(s) = {}
    BY <2>1, ConstantsAssumption DEF SessionTokens
  <2>3. \A s \in Token : CurrentToken(s) = NoToken /\ Deadline(s) = 0
    BY <2>2 DEF CurrentToken, Deadline, Expiries
  <2> QED BY <2>1, <2>3 DEF Init, Promise!Init
<1>4. IInv /\ IInv' /\ HistoryInv /\ Currents /\ Currents' /\ Deadlines /\ Deadlines'
      /\ [Next]_vars =>
        [Promise!Next]_<<{t \in Token : Issued(t)},
                         [s \in Token |-> CurrentToken(s)],
                         [s \in Token |-> IF Issued(s) /\ row[s].session = s
                                          THEN row[s].user ELSE NoUser],
                         [s \in Token |-> Deadline(s)], clock>>
  BY SessionStep DEF HistoryInv, PromiseStep, stored, currents, homes, deadlines
<1> QED BY Invariance, HistoryInvariance, <1>1, <1>2, <1>3, <1>4, PTL
        DEF Spec, ImplementsSessions, Promise!Spec, Promise!sessionVars


=============================================================================
