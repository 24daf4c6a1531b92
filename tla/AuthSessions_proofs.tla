------------------------ MODULE AuthSessions_proofs ------------------------
(***************************************************************************)
(* Theorems about AuthSessions, for any number of accounts, tokens and     *)
(* concurrent requests and any refresh lifetime.                           *)
(***************************************************************************)
EXTENDS AuthSessions, TLAPS

-----------------------------------------------------------------------------
(* The inductive invariant                                                 *)

\* Past the lookup a refresh holds a token the table knows.
TokenInHand ==
    \A p \in Request : pc[p] \in {"owner", "rotate", "commit"} => req[p].tok \in Token

\* An unused token has an empty row; a used one belongs to the session of a used
\* token and replaced, if any, a used one.
RowsWellFormed ==
    \A t \in Token :
        /\ ~ Issued(t) => row[t] = NoRow
        /\ Issued(t) => row[t].session \in Token /\ Issued(row[t].session)
        /\ row[t].parent # NoToken => Issued(row[t].parent)

\* A locked row is live, and its holder is at the statement that locked it.
LocksHeld ==
    \A t \in Token : \A p \in Request : lock[t] = p =>
        /\ Live(t)
        /\ pc[p] = "ending" \/ (pc[p] = "commit" /\ req[p].tok = t)

\* Between the UPDATE and the COMMIT of Rotate the spent row is locked.
SpendingLocks ==
    \A p \in Request : pc[p] = "commit" =>
        lock[req[p].tok] = p /\ row[req[p].tok].user = req[p].owner

\* A row RevokeAllForUser has visited is dead, or locked by it and about to be.
SnapshotDies ==
    \A p \in Request :
        /\ pc[p] \notin {"ending", "answer"} => req[p].snap = {}
        /\ \A t \in req[p].snap : Issued(t)
        /\ pc[p] = "ending" => \A t \in req[p].snap \ req[p].pending :
                                  lock[t] = p \/ ~ Live(t)
        /\ pc[p] = "answer" => \A t \in req[p].snap : ~ Live(t)

RowInv == RowsWellFormed /\ AtMostOneLive /\ SingleSuccessor /\ SpentIffReplaced

LockInv == LocksHeld /\ SpendingLocks

IInv == TypeOK /\ TokenInHand /\ RowInv /\ LockInv /\ SnapshotDies

-----------------------------------------------------------------------------
(* Types                                                                   *)

\* A request that leaves takes its locals along and changes nothing else.
LEMMA FinishType ==
    ASSUME TypeOK, NEW p \in Request, Finish(p)
    PROVE  pc' \in [Request -> PCs] /\ req' \in [Request -> ReqType]
BY DEF TypeOK, Finish, Goto, NoReq, ReqType, PCs

\* Assigning to a local variable of a request keeps the request well typed.
LEMMA LocalsType ==
    ASSUME NEW r \in ReqType
    PROVE  /\ \A o \in User \cup {NoUser} : [r EXCEPT !.owner = o] \in ReqType
           /\ \A o \in User \cup {NoUser}, m \in Nat :
                 [r EXCEPT !.owner = o, !.now = m] \in ReqType
           /\ \A t \in Token : [r EXCEPT !.new = t] \in ReqType
           /\ \A S \in SUBSET Token :
                 /\ [r EXCEPT !.pending = S] \in ReqType
                 /\ [r EXCEPT !.snap = S, !.pending = S] \in ReqType
           /\ [r EXCEPT !.seen = TRUE] \in ReqType
BY DEF ReqType

\* A token that Create or Rotate stores is a well-typed row.
LEMMA NewRowType ==
    ASSUME NEW u \in User \cup {NoUser}, NEW m \in Nat,
           NEW s \in Token \cup {NoToken}, NEW q \in Token \cup {NoToken}
    PROVE  [state |-> "live", user |-> u, expires |-> Expiry(m),
            session |-> s, parent |-> q] \in RowType
BY ConstantsAssumption DEF RowType, RowStates, Expiry

\* Every handler step keeps every variable in its type, so a row, a lock or a
\* request never holds a value the code could not have put there.
LEMMA TypeStep == TypeOK /\ TokenInHand /\ [Next]_vars => TypeOK'
<1> SUFFICES ASSUME TypeOK, TokenInHand, [Next]_vars PROVE TypeOK'
    OBVIOUS
<1> USE ConstantsAssumption
<1>1. ASSUME NEW p \in Request, Arrive(p) PROVE TypeOK'
  <2>1. ASSUME NEW u \in User, Login(p, u) PROVE TypeOK'
    BY <2>1 DEF TypeOK, Login, Begin, Goto, NoReq, ReqType, PCs
  <2>2. ASSUME NEW u \in User, LogoutAll(p, u) PROVE TypeOK'
    BY <2>2 DEF TypeOK, LogoutAll, Begin, Goto, NoReq, ReqType, PCs
  <2>3. ASSUME NEW t \in known \cup {NoToken}, Refresh(p, t) PROVE TypeOK'
    BY <2>3 DEF TypeOK, Refresh, Begin, Goto, NoReq, ReqType, PCs
  <2>4. ASSUME NEW t \in known \cup {NoToken}, Logout(p, t) PROVE TypeOK'
    BY <2>4 DEF TypeOK, Logout, Begin, Goto, NoReq, ReqType, PCs
  <2> QED BY <1>1, <2>1, <2>2, <2>3, <2>4 DEF Arrive
<1>2. ASSUME NEW p \in Request, Proceed(p) PROVE TypeOK'
  <2>1. CASE CheckCredentials(p)
    BY <2>1, FinishType DEF TypeOK, CheckCredentials, Goto, PCs
  <2>2. CASE StartSession(p)
    BY <2>2 DEF TypeOK, StartSession, Goto, PCs, ReqType
  <2>3. CASE GetByTokenHash(p)
    <3> DEFINE t == req[p].tok
    <3>1. CASE Finish(p)
      BY <2>3, <3>1, FinishType DEF TypeOK, GetByTokenHash
    <3>2. CASE /\ t # NoToken
               /\ pc' = [pc EXCEPT ![p] = "endAll"]
               /\ req' = [req EXCEPT ![p] = [@ EXCEPT !.owner = row[t].user]]
      <4>1. req[p] \in ReqType /\ t \in Token /\ row[t].user \in User \cup {NoUser}
        BY <3>2 DEF TypeOK, ReqType, RowType
      <4>2. [req[p] EXCEPT !.owner = row[t].user] \in ReqType
        BY <4>1, LocalsType
      <4> QED BY <2>3, <3>2, <4>2 DEF TypeOK, GetByTokenHash, PCs
    <3>3. CASE /\ t # NoToken
               /\ pc' = [pc EXCEPT ![p] = "owner"]
               /\ req' = [req EXCEPT ![p] = [@ EXCEPT !.owner = row[t].user,
                                                    !.now = clock]]
      <4>1. req[p] \in ReqType /\ t \in Token /\ row[t].user \in User \cup {NoUser}
        BY <3>3 DEF TypeOK, ReqType, RowType
      <4>2. [req[p] EXCEPT !.owner = row[t].user, !.now = clock] \in ReqType
        BY <4>1, LocalsType DEF TypeOK
      <4> QED BY <2>3, <3>3, <4>2 DEF TypeOK, GetByTokenHash, PCs
    <3> QED BY <2>3, <3>1, <3>2, <3>3 DEF GetByTokenHash, Goto
  <2>4. CASE CheckOwner(p)
    BY <2>4, FinishType DEF TypeOK, CheckOwner, Goto, PCs
  <2>5. CASE RotateSpend(p)
    BY <2>5, FinishType DEF TypeOK, RotateSpend, Goto, PCs
  <2>6. CASE IssueAccessToken(p)
    BY <2>6, FinishType DEF TypeOK, IssueAccessToken, Goto, PCs
  <2>7. ASSUME NEW n \in Token, Create(p, n) PROVE TypeOK'
    <3>1. req[p] \in ReqType /\ req[p].owner \in User \cup {NoUser} /\ req[p].now \in Nat
      BY DEF TypeOK, ReqType
    <3>2. [req[p] EXCEPT !.new = n] \in ReqType
      BY <3>1, LocalsType
    <3>3. [state |-> "live", user |-> req[p].owner, expires |-> Expiry(req[p].now),
           session |-> n, parent |-> NoToken] \in RowType
      BY <3>1, NewRowType
    <3> QED BY <2>7, <3>2, <3>3, FinishType DEF TypeOK, Create, Goto, PCs
  <2>8. ASSUME NEW n \in Token, RotateCommit(p, n) PROVE TypeOK'
    <3> DEFINE t == req[p].tok
    <3>1. /\ req[p] \in ReqType /\ req[p].owner \in User \cup {NoUser}
          /\ req[p].now \in Nat /\ t \in Token \cup {NoToken}
      BY DEF TypeOK, ReqType
    <3>2. [req[p] EXCEPT !.new = n] \in ReqType
      BY <3>1, LocalsType
    <3>3. row' \in [Token -> RowType]
      <4>1. t \in Token
        BY <2>8 DEF RotateCommit, TokenInHand
      <4>2. row[t].session \in Token \cup {NoToken}
        BY <4>1 DEF TypeOK, RowType
      <4>3. [state |-> "live", user |-> req[p].owner,
             expires |-> Expiry(req[p].now),
             session |-> row[t].session, parent |-> t] \in RowType
        BY <3>1, <4>1, <4>2, NewRowType
      <4>4. [row[t] EXCEPT !.state = "rotated"] \in RowType
        BY <4>1 DEF TypeOK, RowType, RowStates
      <4> QED BY <2>8, <4>3, <4>4 DEF TypeOK, RotateCommit
    <3> QED BY <2>8, <3>2, <3>3 DEF TypeOK, RotateCommit, Goto, PCs
  <2>9. CASE Revoke(p)
    BY <2>9, FinishType DEF TypeOK, Revoke, RowType, RowStates
  <2>10. CASE RevokeAllSnapshot(p)
    <3> DEFINE S == LiveTokens(req[p].owner)
    <3>1. S \in SUBSET Token
      BY DEF LiveTokens
    <3>2. [req[p] EXCEPT !.snap = S, !.pending = S] \in ReqType
      BY <3>1, LocalsType DEF TypeOK
    <3> QED BY <2>10, <3>2 DEF TypeOK, RevokeAllSnapshot, Goto, PCs
  <2>11. CASE RevokeAllCommit(p)
    BY <2>11 DEF TypeOK, RevokeAllCommit, Goto, PCs, RowType, RowStates
  <2>12. ASSUME NEW t \in Token, RevokeAllVisit(p, t) PROVE TypeOK'
    <3>1. req[p].pending \ {t} \in SUBSET Token
      BY DEF TypeOK, ReqType
    <3>2. [req[p] EXCEPT !.pending = req[p].pending \ {t}] \in ReqType
      BY <3>1, LocalsType DEF TypeOK
    <3> DEFINE r == [req[p] EXCEPT !.pending = req[p].pending \ {t}]
    <3>3. req' \in [Request -> ReqType]
      <4>1. req' = [req EXCEPT ![p] = r]
        BY <2>12 DEF RevokeAllVisit
      <4> HIDE DEF r
      <4> QED BY <3>2, <4>1 DEF TypeOK, r
    <3>4. lock' \in [Token -> Request \cup {NoRequest}]
      BY <2>12 DEF TypeOK, RevokeAllVisit
    <3> QED BY <2>12, <3>3, <3>4 DEF TypeOK, RevokeAllVisit
  <2>13. CASE Deliver(p)
    BY <2>13, FinishType DEF TypeOK, Deliver, ReqType
  <2> QED
    BY <1>2, <2>1, <2>2, <2>3, <2>4, <2>5, <2>6, <2>7, <2>8, <2>9, <2>10,
       <2>11, <2>12, <2>13 DEF Proceed
<1>3. ASSUME NEW p \in Request, Fail(p) PROVE TypeOK'
  BY <1>3, FinishType DEF TypeOK, Fail
<1>4. CASE Environment
  <2>1. ASSUME NEW u \in User, SetStatus(u) PROVE TypeOK'
    <3>1. \A p \in Request : [req[p] EXCEPT !.seen = TRUE] \in ReqType
      BY LocalsType DEF TypeOK
    <3> QED BY <2>1, <3>1 DEF TypeOK, SetStatus
  <2>2. ASSUME NEW u \in User, DeleteUser(u) PROVE TypeOK'
    BY <2>2 DEF TypeOK, DeleteUser, RowType, RowStates
  <2>3. ASSUME NEW cutoff \in 0 .. clock, DeleteExpiredBefore(cutoff) PROVE TypeOK'
    BY <2>3 DEF TypeOK, DeleteExpiredBefore, RowType, RowStates
  <2>4. CASE Tick
    BY <2>4 DEF TypeOK, Tick
  <2> QED BY <1>4, <2>1, <2>2, <2>3, <2>4 DEF Environment
<1>5. CASE UNCHANGED vars
  BY <1>5 DEF vars, TypeOK
<1> QED BY <1>1, <1>2, <1>3, <1>4, <1>5 DEF Next

\* A refresh reaches its later steps only by way of the lookup.
LEMMA TokenStep == TypeOK /\ TokenInHand /\ [Next]_vars => TokenInHand'
<1> SUFFICES ASSUME TypeOK, TokenInHand, [Next]_vars,
                    NEW q \in Request, pc'[q] \in {"owner", "rotate", "commit"}
             PROVE  req'[q].tok \in Token
    BY DEF TokenInHand
<1> USE DEF TypeOK, TokenInHand, Goto, Finish, ReqType
<1>1. ASSUME NEW p \in Request, Arrive(p) PROVE req'[q].tok \in Token
  BY <1>1 DEF Arrive, Login, LogoutAll, Refresh, Logout, Begin
<1>2. ASSUME NEW p \in Request, Proceed(p) PROVE req'[q].tok \in Token
  <2>1. CASE CheckCredentials(p) \/ StartSession(p) \/ CheckOwner(p)
    BY <2>1 DEF CheckCredentials, StartSession, CheckOwner
  <2>2. CASE GetByTokenHash(p)
    <3>1. CASE q = p
      <4>1. req[p].tok \in Token \/ Finish(p)
        BY <2>2 DEF GetByTokenHash
      <4>2. \/ pc'[p] = "idle"
            \/ req' = [req EXCEPT ![p] = [@ EXCEPT !.owner = row[req[p].tok].user]]
            \/ req' = [req EXCEPT ![p] = [@ EXCEPT !.owner = row[req[p].tok].user,
                                                  !.now = clock]]
        BY <2>2 DEF GetByTokenHash
      <4> QED BY <3>1, <4>1, <4>2
    <3> QED BY <2>2, <3>1 DEF GetByTokenHash
  <2>3. CASE RotateSpend(p) \/ IssueAccessToken(p) \/ Revoke(p) \/ Deliver(p)
    BY <2>3 DEF RotateSpend, IssueAccessToken, Revoke, Deliver
  <2>4. ASSUME NEW n \in Token, Create(p, n) \/ RotateCommit(p, n)
        PROVE  req'[q].tok \in Token
    BY <2>4 DEF Create, RotateCommit
  <2>5. CASE RevokeAllSnapshot(p) \/ RevokeAllCommit(p)
    BY <2>5 DEF RevokeAllSnapshot, RevokeAllCommit
  <2>6. ASSUME NEW t \in Token, RevokeAllVisit(p, t) PROVE req'[q].tok \in Token
    BY <2>6 DEF RevokeAllVisit
  <2> QED BY <1>2, <2>1, <2>2, <2>3, <2>4, <2>5, <2>6 DEF Proceed
<1>3. ASSUME NEW p \in Request, Fail(p) PROVE req'[q].tok \in Token
  BY <1>3 DEF Fail
<1>4. CASE Environment
  <2>1. ASSUME NEW u \in User, SetStatus(u) PROVE req'[q].tok \in Token
    <3>1. req'[q].tok = req[q].tok /\ pc' = pc
      BY <2>1 DEF SetStatus
    <3> QED BY <3>1
  <2> QED BY <1>4, <2>1 DEF Environment, DeleteUser, DeleteExpiredBefore, Tick
<1>5. CASE UNCHANGED vars
  BY <1>5 DEF vars
<1> QED BY <1>1, <1>2, <1>3, <1>4, <1>5 DEF Next

-----------------------------------------------------------------------------
(* Rows                                                                    *)

\* No token is stored, and tokens only lose their validity.
Kept ==
    \A t \in Token :
        /\ row'[t].session = row[t].session
        /\ row'[t].parent = row[t].parent
        /\ row'[t].user = row[t].user
        /\ Issued(t)' <=> Issued(t)
        /\ ~ Issued(t) => row'[t] = row[t]
        /\ Live(t)' => Live(t)
        /\ row'[t].state = "rotated" => row[t].state = "rotated"

\* Only Create and the commit of Rotate store a token: everything else keeps or
\* invalidates the rows there are.
LEMMA RowChanges ==
    ASSUME IInv, [Next]_vars
    PROVE  \/ Kept
           \/ \E p \in Request, n \in Token :
                 /\ Create(p, n) \/ RotateCommit(p, n)
                 /\ ~ Issued(n)
<1> USE DEF IInv, TypeOK, RowType, Kept, Issued, Live
<1>1. CASE row' = row
  BY <1>1
<1>2. ASSUME NEW p \in Request, Proceed(p), row' # row
      PROVE  \/ Kept
             \/ \E n \in Token : (Create(p, n) \/ RotateCommit(p, n)) /\ ~ Issued(n)
  <2>1. CASE Revoke(p)
    BY <2>1 DEF Revoke
  <2>2. CASE RevokeAllCommit(p)
    BY <2>2 DEF RevokeAllCommit, LockInv, LocksHeld
  <2>3. ASSUME NEW n \in Token, Create(p, n) \/ RotateCommit(p, n)
        PROVE  (Create(p, n) \/ RotateCommit(p, n)) /\ ~ Issued(n)
    BY <1>2, <2>3 DEF Create, RotateCommit
  <2> QED
    BY <1>2, <2>1, <2>2, <2>3 DEF Proceed, CheckCredentials, StartSession,
       GetByTokenHash, CheckOwner, RotateSpend, IssueAccessToken,
       RevokeAllSnapshot, RevokeAllVisit, Deliver
<1>3. CASE Environment
  <2>1. ASSUME NEW u \in User, DeleteUser(u) PROVE Kept
    BY <2>1, ConstantsAssumption DEF DeleteUser, RowInv, RowsWellFormed, NoRow
  <2>2. ASSUME NEW cutoff \in 0 .. clock, DeleteExpiredBefore(cutoff) PROVE Kept
    BY <2>2 DEF DeleteExpiredBefore, Stored, IsRevoked
  <2> QED BY <1>1, <1>3, <2>1, <2>2 DEF Environment, SetStatus, Tick
<1> QED
  BY <1>1, <1>2, <1>3 DEF Next, vars, Arrive, Login, LogoutAll, Refresh, Logout,
     Begin, Fail

\* What Create and Rotate store continues a session of its own, or the one whose
\* token it spends.
LEMMA RowStep == IInv /\ TypeOK' /\ [Next]_vars => RowInv'
<1> SUFFICES ASSUME IInv, TypeOK', [Next]_vars PROVE RowInv'
    OBVIOUS
<1> USE DEF IInv, RowInv, Live, Issued
<1>1. CASE Kept
  <2>1. RowsWellFormed'
    <3> SUFFICES ASSUME NEW x \in Token
                 PROVE  /\ ~ Issued(x)' => row'[x] = NoRow
                        /\ Issued(x)' => /\ row'[x].session \in Token
                                         /\ Issued(row[x].session)'
                        /\ row'[x].parent # NoToken => Issued(row[x].parent)'
        BY DEF RowsWellFormed
    <3>1. CASE ~ Issued(x)
      BY <1>1, <3>1 DEF Kept, RowsWellFormed, NoRow
    <3>2. CASE Issued(x)
      <4>1. row[x].parent \in Token \cup {NoToken}
        BY DEF TypeOK, RowType
      <4> QED BY <1>1, <3>2, <4>1 DEF Kept, RowsWellFormed
    <3> QED BY <3>1, <3>2
  <2>2. AtMostOneLive'
    BY <1>1 DEF Kept, AtMostOneLive
  <2>3. SingleSuccessor'
    BY <1>1 DEF Kept, SingleSuccessor
  <2>4. SpentIffReplaced'
    BY <1>1 DEF Kept, SpentIffReplaced
  <2> QED BY <2>1, <2>2, <2>3, <2>4
<1>2. ASSUME NEW p \in Request, NEW n \in Token, Create(p, n), ~ Issued(n)
      PROVE  RowInv'
  <2>1. CASE row' = row
    BY <2>1 DEF RowsWellFormed, AtMostOneLive, SingleSuccessor, SpentIffReplaced
  <2>2. CASE row' # row
    <3>1. /\ \A t \in Token \ {n} : row'[t] = row[t]
          /\ row'[n].state = "live" /\ row'[n].session = n
          /\ row'[n].parent = NoToken
      BY <1>2, <2>2 DEF Create, TypeOK
    <3>2. row[n] = NoRow /\ NoToken \notin Token
      BY <1>2, ConstantsAssumption DEF RowsWellFormed
    <3>3. RowsWellFormed'
      <4> SUFFICES ASSUME NEW x \in Token
                   PROVE  /\ ~ Issued(x)' => row'[x] = NoRow
                          /\ Issued(x)' => /\ row'[x].session \in Token
                                           /\ Issued(row[x].session)'
                          /\ row'[x].parent # NoToken => Issued(row[x].parent)'
          BY DEF RowsWellFormed
      <4>1. row[x].parent \in Token \cup {NoToken}
        BY DEF TypeOK, RowType
      <4> QED BY <3>1, <4>1 DEF RowsWellFormed
    <3>4. AtMostOneLive'
      <4>1. \A x \in Token : Live(x) => row[x].session # n
        BY <1>2 DEF RowsWellFormed
      <4> QED BY <3>1, <4>1 DEF AtMostOneLive
    <3>5. SingleSuccessor'
      BY <3>1 DEF SingleSuccessor
    <3>6. SpentIffReplaced'
      <4>1. \A x \in Token : row'[x].parent = row[x].parent
        BY <3>1, <3>2 DEF NoRow
      <4>2. \A x \in Token : row[x].parent # n
        BY <1>2, <3>2 DEF RowsWellFormed
      <4> SUFFICES ASSUME NEW x \in Token
                   PROVE  LET heirs == {y \in Token : row'[y].parent = x} IN
                          /\ row'[x].state = "rotated" => heirs # {}
                          /\ heirs # {} => ~ Live(x)'
                          /\ \A y \in heirs : row'[y].user = row'[x].user
          BY DEF SpentIffReplaced
      <4>3. CASE x = n
        BY <3>1, <4>1, <4>2, <4>3
      <4>4. CASE x # n
        <5>1. \A y \in Token : row[y].parent = x => y # n
          BY <3>2 DEF NoRow
        <5> QED BY <3>1, <4>1, <4>4, <5>1 DEF SpentIffReplaced
      <4> QED BY <4>3, <4>4
    <3> QED BY <3>3, <3>4, <3>5, <3>6
  <2> QED BY <2>1, <2>2
<1>3. ASSUME NEW p \in Request, NEW n \in Token, RotateCommit(p, n), ~ Issued(n)
      PROVE  RowInv'
  <2> DEFINE t == req[p].tok
  <2>1. t \in Token /\ t # n /\ Live(t) /\ row[t].user = req[p].owner
    BY <1>3 DEF RotateCommit, TokenInHand, LockInv, SpendingLocks, LocksHeld
  <2>2. /\ \A x \in Token \ {t, n} : row'[x] = row[x]
        /\ row'[t].state = "rotated" /\ row'[t].session = row[t].session
        /\ row'[t].parent = row[t].parent /\ row'[t].user = row[t].user
        /\ row'[n].state = "live" /\ row'[n].session = row[t].session
        /\ row'[n].parent = t /\ row'[n].user = row[t].user
    BY <1>3, <2>1 DEF RotateCommit, TypeOK, RowType
  <2>3. row[n] = NoRow /\ NoToken \notin Token
    BY <1>3, ConstantsAssumption DEF RowsWellFormed
  <2>4. \A x \in Token : row[x].parent # t /\ row[x].parent # n
    <3> SUFFICES ASSUME NEW x \in Token
                 PROVE  row[x].parent # t /\ row[x].parent # n
        OBVIOUS
    <3>1. row[x].parent # t
      BY <2>1 DEF SpentIffReplaced
    <3>2. row[x].parent # n
      BY <1>3, <2>3 DEF RowsWellFormed, NoRow
    <3> QED BY <3>1, <3>2
  <2> HIDE DEF t
  <2>5. RowsWellFormed'
    <3> SUFFICES ASSUME NEW x \in Token
                 PROVE  /\ ~ Issued(x)' => row'[x] = NoRow
                        /\ Issued(x)' => /\ row'[x].session \in Token
                                         /\ Issued(row[x].session)'
                        /\ row'[x].parent # NoToken => Issued(row[x].parent)'
        BY DEF RowsWellFormed
    <3>1. \A y \in Token : Issued(y) => Issued(y)'
      BY <2>1, <2>2, <2>3 DEF NoRow
    <3>2. row[x].parent \in Token \cup {NoToken}
      BY DEF TypeOK, RowType
    <3> QED BY <2>1, <2>2, <3>1, <3>2 DEF RowsWellFormed
  <2>6. AtMostOneLive'
    BY <2>1, <2>2 DEF AtMostOneLive
  <2>7. SingleSuccessor'
    BY <2>1, <2>2, <2>4 DEF SingleSuccessor
  <2>8. SpentIffReplaced'
    <3> SUFFICES ASSUME NEW x \in Token
                 PROVE  LET heirs == {y \in Token : row'[y].parent = x} IN
                        /\ row'[x].state = "rotated" => heirs # {}
                        /\ heirs # {} => ~ Live(x)'
                        /\ \A y \in heirs : row'[y].user = row'[x].user
        BY DEF SpentIffReplaced
    <3>1. CASE x = t
      BY <2>1, <2>2, <2>4, <3>1
    <3>2. CASE x = n
      BY <2>1, <2>2, <2>4, <3>2
    <3>3. CASE x \in Token \ {t, n}
      <4>1. \A y \in Token : row[y].parent = x => y # n /\ row'[y].parent = x
                                            /\ row'[y].user = row[y].user
        BY <2>1, <2>2, <2>3, <3>3, ConstantsAssumption DEF NoRow
      <4>2. \A y \in Token : row'[y].parent = x => row[y].parent = x
        BY <2>1, <2>2, <3>3
      <4> QED BY <2>2, <3>3, <4>1, <4>2 DEF SpentIffReplaced
    <3> QED BY <3>1, <3>2, <3>3
  <2> QED BY <2>5, <2>6, <2>7, <2>8
<1> QED BY <1>1, <1>2, <1>3, RowChanges

-----------------------------------------------------------------------------
(* Locks                                                                   *)

\* A request's step leaves the locals of the other requests alone.
LEMMA OthersUntouched ==
    ASSUME TypeOK, NEW p \in Request, NEW q \in Request, q # p,
           Arrive(q) \/ Proceed(q) \/ Fail(q)
    PROVE  pc'[p] = pc[p] /\ req'[p] = req[p]
<1> USE DEF TypeOK, Goto, Finish
<1>1. CASE Arrive(q) \/ Fail(q)
  BY <1>1 DEF Arrive, Login, LogoutAll, Refresh, Logout, Begin, Fail
<1>2. CASE Proceed(q)
  BY <1>2 DEF Proceed, CheckCredentials, StartSession, Create, GetByTokenHash,
     CheckOwner, RotateSpend, RotateCommit, IssueAccessToken, Revoke,
     RevokeAllSnapshot, RevokeAllCommit, RevokeAllVisit, Deliver
<1> QED BY <1>1, <1>2

\* A row is written only by the transaction that holds it or while nobody does.
LEMMA LockedKept ==
    ASSUME IInv, [Next]_vars, NEW t \in Token, NEW p \in Request,
           lock[t] = p, lock'[t] = p
    PROVE  row'[t] = row[t]
<1> USE ConstantsAssumption DEF IInv, TypeOK
<1>1. ASSUME NEW q \in Request, Proceed(q) PROVE row'[t] = row[t]
  <2>1. CASE Revoke(q)
    BY <2>1 DEF Revoke
  <2>2. CASE RevokeAllCommit(q)
    BY <2>2 DEF RevokeAllCommit
  <2>3. ASSUME NEW n \in Token, Create(q, n) PROVE row'[t] = row[t]
    BY <2>3 DEF Create, LockInv, LocksHeld, Issued, Live
  <2>4. ASSUME NEW n \in Token, RotateCommit(q, n) PROVE row'[t] = row[t]
    BY <2>4 DEF RotateCommit, LockInv, LocksHeld, SpendingLocks, TokenInHand,
       Issued, Live
  <2> QED
    BY <1>1, <2>1, <2>2, <2>3, <2>4 DEF Proceed, CheckCredentials, StartSession,
       GetByTokenHash, CheckOwner, RotateSpend, IssueAccessToken,
       RevokeAllSnapshot, RevokeAllVisit, Deliver
<1>2. CASE Environment
  BY <1>2 DEF Environment, SetStatus, DeleteUser, DeleteExpiredBefore, Tick
<1> QED
  BY <1>1, <1>2 DEF Next, vars, Arrive, Login, LogoutAll, Refresh, Logout, Begin, Fail

\* Two statements lock a row, each for the request that runs it.
LEMMA LockTaken ==
    ASSUME TypeOK, [Next]_vars, NEW t \in Token, NEW p \in Request,
           lock[t] # p, lock'[t] = p
    PROVE  (RotateSpend(p) /\ req[p].tok = t) \/ RevokeAllVisit(p, t)
<1> USE ConstantsAssumption DEF TypeOK
<1>1. ASSUME NEW q \in Request, Proceed(q)
      PROVE  (RotateSpend(p) /\ req[p].tok = t) \/ RevokeAllVisit(p, t)
  BY <1>1 DEF Proceed, CheckCredentials, StartSession, Create,
     GetByTokenHash, CheckOwner, RotateSpend, RotateCommit, IssueAccessToken,
     Revoke, RevokeAllSnapshot, RevokeAllCommit, RevokeAllVisit, Deliver
<1> QED
  BY <1>1 DEF Next, vars, Arrive, Login, LogoutAll, Refresh, Logout,
     Begin, Fail, Environment, SetStatus, DeleteUser, DeleteExpiredBefore, Tick

\* Rows are locked and released by the request that holds them, at the statements
\* LocksHeld names.
LEMMA LocksHeldStep == IInv /\ TypeOK' /\ [Next]_vars => LocksHeld'
<1> SUFFICES ASSUME IInv, TypeOK', [Next]_vars,
                    NEW t \in Token, NEW p \in Request, lock'[t] = p
             PROVE  /\ Live(t)'
                    /\ pc'[p] = "ending" \/ (pc'[p] = "commit" /\ req'[p].tok = t)
    BY DEF LocksHeld
<1> USE ConstantsAssumption DEF IInv, TypeOK, LockInv, Live, Goto, Finish
<1>1. CASE lock[t] = p
  <2>1. Live(t)'
    BY <1>1, LockedKept DEF LocksHeld
  <2>2. pc[p] = "ending" \/ (pc[p] = "commit" /\ req[p].tok = t)
    BY <1>1 DEF LocksHeld
  <2>3. ASSUME NEW q \in Request, q # p, Arrive(q) \/ Proceed(q) \/ Fail(q)
        PROVE  pc'[p] = pc[p] /\ req'[p] = req[p]
    BY <2>3, OthersUntouched
  <2>4. CASE Arrive(p)
    BY <2>2, <2>4 DEF Arrive, Login, LogoutAll, Refresh, Logout, Begin
  <2>5. CASE Fail(p)
    BY <1>1, <2>5 DEF Fail
  <2>6. CASE Proceed(p)
    <3>1. ASSUME NEW n \in Token, RotateCommit(p, n) PROVE FALSE
      BY <1>1, <2>2, <3>1 DEF RotateCommit
    <3>2. CASE RevokeAllCommit(p)
      BY <1>1, <3>2 DEF RevokeAllCommit
    <3>3. ASSUME NEW x \in Token, RevokeAllVisit(p, x)
          PROVE  pc'[p] = "ending"
      BY <3>3 DEF RevokeAllVisit
    <3> QED
      BY <2>1, <2>2, <2>6, <3>1, <3>2, <3>3 DEF Proceed, CheckCredentials,
         StartSession, Create, GetByTokenHash, CheckOwner, RotateSpend,
         IssueAccessToken, Revoke, RevokeAllSnapshot, Deliver
  <2>7. CASE Environment
    <3>1. pc'[p] = pc[p] /\ req'[p].tok = req[p].tok
      BY <2>7 DEF Environment, SetStatus, DeleteUser, DeleteExpiredBefore, Tick,
         ReqType
    <3> QED BY <2>1, <2>2, <3>1
  <2>8. CASE UNCHANGED vars
    BY <2>1, <2>2, <2>8 DEF vars
  <2> QED BY <2>1, <2>2, <2>3, <2>4, <2>5, <2>6, <2>7, <2>8 DEF Next
<1>2. CASE lock[t] # p
  <2>1. (RotateSpend(p) /\ req[p].tok = t) \/ RevokeAllVisit(p, t)
    BY <1>2, LockTaken
  <2>2. CASE RotateSpend(p) /\ req[p].tok = t
    BY <1>2, <2>2 DEF RotateSpend, Spendable
  <2>3. CASE RevokeAllVisit(p, t)
    BY <1>2, <2>3 DEF RevokeAllVisit
  <2> QED BY <2>1, <2>2, <2>3
<1> QED BY <1>1, <1>2

\* A refresh that has spent its token keeps it locked until it commits or fails.
LEMMA SpendingLocksStep == IInv /\ TypeOK' /\ [Next]_vars => SpendingLocks'
<1> SUFFICES ASSUME IInv, TypeOK', [Next]_vars,
                    NEW p \in Request, pc'[p] = "commit"
             PROVE  /\ lock'[req'[p].tok] = p
                    /\ row'[req'[p].tok].user = req'[p].owner
    BY DEF SpendingLocks
<1> USE ConstantsAssumption DEF IInv, TypeOK, LockInv, Goto, Finish
<1>1. CASE pc[p] = "commit"
  <2> DEFINE t == req[p].tok
  <2>1. t \in Token /\ lock[t] = p /\ row[t].user = req[p].owner
    BY <1>1 DEF TokenInHand, SpendingLocks
  <2>2. req'[p].tok = t /\ req'[p].owner = req[p].owner
    <3>1. ASSUME NEW q \in Request, Arrive(q) \/ Proceed(q) \/ Fail(q)
          PROVE  req'[p] = req[p]
      BY <1>1, <3>1 DEF Arrive, Login, LogoutAll, Refresh, Logout, Begin, Proceed,
         Fail, CheckCredentials, StartSession, Create, GetByTokenHash, CheckOwner,
         RotateSpend, RotateCommit, IssueAccessToken, Revoke, RevokeAllSnapshot,
         RevokeAllCommit, RevokeAllVisit, Deliver
    <3>2. CASE Environment
      BY <3>2 DEF Environment, SetStatus, DeleteUser, DeleteExpiredBefore, Tick,
         ReqType
    <3> QED BY <3>1, <3>2 DEF Next, vars
  <2>3. lock'[t] = p
    <3>1. ASSUME NEW q \in Request, Arrive(q) \/ Proceed(q) \/ Fail(q)
          PROVE  lock'[t] = p
      <4>1. CASE q = p
        BY <1>1, <3>1, <4>1 DEF Arrive, Login, LogoutAll, Refresh, Logout, Begin,
           Proceed, Fail, CheckCredentials, StartSession, Create, GetByTokenHash,
           CheckOwner, RotateSpend, RotateCommit, IssueAccessToken, Revoke,
           RevokeAllSnapshot, RevokeAllCommit, RevokeAllVisit, Deliver
      <4>2. ASSUME NEW n \in Token, RotateCommit(q, n), q # p PROVE lock'[t] = p
        <5>1. lock[req[q].tok] = q
          BY <4>2 DEF RotateCommit, SpendingLocks
        <5> QED BY <2>1, <4>2, <5>1 DEF RotateCommit
      <4>3. CASE q # p /\ RotateSpend(q)
        BY <2>1, <4>3 DEF RotateSpend
      <4>4. ASSUME NEW x \in Token, RevokeAllVisit(q, x), q # p PROVE lock'[t] = p
        BY <2>1, <4>4 DEF RevokeAllVisit
      <4>5. CASE q # p /\ (RevokeAllCommit(q) \/ Fail(q))
        BY <2>1, <4>5 DEF RevokeAllCommit, Fail
      <4> QED
        BY <2>1, <3>1, <4>1, <4>2, <4>3, <4>4, <4>5 DEF Arrive, Login, LogoutAll,
           Refresh, Logout, Begin, Proceed, CheckCredentials, StartSession, Create,
           GetByTokenHash, CheckOwner, IssueAccessToken, Revoke, RevokeAllSnapshot,
           Deliver
    <3> QED
      BY <2>1, <3>1 DEF Next, vars, Environment, SetStatus, DeleteUser,
         DeleteExpiredBefore, Tick
  <2>4. row'[t] = row[t]
    BY <2>1, <2>3, LockedKept
  <2> QED BY <2>1, <2>2, <2>3, <2>4
<1>2. CASE pc[p] # "commit"
  <2>1. RotateSpend(p)
    <3>1. ASSUME NEW q \in Request, Proceed(q) PROVE RotateSpend(p)
      BY <1>2, <3>1 DEF Proceed, CheckCredentials, StartSession, Create,
         GetByTokenHash, CheckOwner, RotateSpend, RotateCommit, IssueAccessToken,
         Revoke, RevokeAllSnapshot, RevokeAllCommit, RevokeAllVisit, Deliver
    <3> QED
      BY <1>2, <3>1 DEF Next, vars, Arrive, Login, LogoutAll, Refresh, Logout,
         Begin, Fail, Environment, SetStatus, DeleteUser, DeleteExpiredBefore, Tick
  <2> QED BY <2>1 DEF RotateSpend, Spendable, TokenInHand
<1> QED BY <1>1, <1>2

-----------------------------------------------------------------------------
(* The end of every session                                                *)

\* A stored token that is dead stays dead: no statement clears revoked_at.
LEMMA DeadTokenStaysDead ==
    ASSUME IInv, TypeOK', [Next]_vars, NEW t \in Token, Issued(t)
    PROVE  Issued(t)' /\ (~ Live(t) => ~ Live(t)')
<1> USE DEF IInv, TypeOK, Issued, Live
<1>1. CASE Kept
  BY <1>1 DEF Kept
<1>2. ASSUME NEW p \in Request, NEW n \in Token, Create(p, n), ~ Issued(n)
      PROVE  row'[t] = row[t]
  BY <1>2 DEF Create
<1>3. ASSUME NEW p \in Request, NEW n \in Token, RotateCommit(p, n), ~ Issued(n)
      PROVE  row'[t] = row[t] \/ row'[t].state = "rotated"
  BY <1>3 DEF RotateCommit, RowType
<1> QED BY <1>1, <1>2, <1>3, RowChanges

\* RevokeAllForUser leaves none of its snapshot alive, however it interleaves.
LEMMA SnapshotStep == IInv /\ TypeOK' /\ LocksHeld' /\ [Next]_vars => SnapshotDies'
<1> SUFFICES ASSUME IInv, TypeOK', LocksHeld', [Next]_vars, NEW p \in Request
             PROVE  /\ pc'[p] \notin {"ending", "answer"} => req'[p].snap = {}
                    /\ \A t \in req'[p].snap : Issued(t)'
                    /\ pc'[p] = "ending" =>
                          \A t \in req'[p].snap \ req'[p].pending :
                              lock'[t] = p \/ ~ Live(t)'
                    /\ pc'[p] = "answer" => \A t \in req'[p].snap : ~ Live(t)'
    BY DEF SnapshotDies
<1>0. req[p].snap \subseteq Token
  BY DEF IInv, TypeOK, ReqType
<1>1. \A t \in Token : Issued(t) => Issued(t)' /\ (~ Live(t) => ~ Live(t)')
  BY DeadTokenStaysDead DEF IInv
<1>2. CASE /\ pc'[p] = pc[p] /\ req'[p].snap = req[p].snap
           /\ req'[p].pending = req[p].pending
           /\ \A t \in Token : lock[t] = p => lock'[t] = p
  BY <1>0, <1>1, <1>2 DEF IInv, SnapshotDies
<1>3. CASE pc'[p] # "ending" /\ req'[p].snap = {}
  BY <1>3
<1>4. CASE RevokeAllSnapshot(p)
  BY <1>4 DEF RevokeAllSnapshot, IInv, TypeOK, Goto, LiveTokens, Live, Issued
<1>5. ASSUME NEW t \in Token, RevokeAllVisit(p, t)
      PROVE  /\ pc'[p] = "ending" /\ pc[p] = "ending"
             /\ \A x \in req'[p].snap : Issued(x)'
             /\ \A x \in req'[p].snap \ req'[p].pending : lock'[x] = p \/ ~ Live(x)'
  <2>1. /\ pc'[p] = "ending" /\ pc[p] = "ending" /\ row' = row
        /\ req'[p].snap = req[p].snap
        /\ req'[p].pending = req[p].pending \ {t}
        /\ lock[t] = NoRequest
        /\ lock' = IF Live(t) THEN [lock EXCEPT ![t] = p] ELSE lock
    BY <1>5 DEF RevokeAllVisit, IInv, TypeOK, ReqType
  <2>2. \A x \in Token : lock[x] = p => lock'[x] = p
    BY <2>1, ConstantsAssumption DEF IInv, TypeOK
  <2>3. lock'[t] = p \/ ~ Live(t)
    BY <2>1 DEF IInv, TypeOK
  <2> QED BY <1>0, <2>1, <2>2, <2>3 DEF IInv, SnapshotDies, Live, Issued
<1>6. CASE RevokeAllCommit(p)
  <2>1. /\ pc[p] = "ending" /\ pc'[p] = "answer" /\ req' = req
        /\ req[p].pending = {}
        /\ \A t \in Token : lock[t] = p => row'[t].state = "ended"
    BY <1>6 DEF RevokeAllCommit, Goto, IInv, TypeOK, RowType
  <2> QED BY <1>0, <1>1, <2>1 DEF IInv, SnapshotDies, Live
<1>7. ASSUME NEW q \in Request, q # p, Arrive(q) \/ Proceed(q) \/ Fail(q)
      PROVE  /\ pc'[p] = pc[p] /\ req'[p] = req[p]
             /\ \A t \in Token : lock[t] = p => lock'[t] = p
  <2> USE ConstantsAssumption DEF IInv, TypeOK, Goto, Finish
  <2>1. ASSUME NEW n \in Token, RotateCommit(q, n)
        PROVE  \A t \in Token : lock[t] = p => lock'[t] = p
    BY <1>7, <2>1 DEF RotateCommit, LockInv, SpendingLocks
  <2>2. CASE RotateSpend(q) \/ RevokeAllCommit(q) \/ Fail(q)
    BY <1>7, <2>2 DEF RotateSpend, RevokeAllCommit, Fail
  <2>3. ASSUME NEW x \in Token, RevokeAllVisit(q, x)
        PROVE  \A t \in Token : lock[t] = p => lock'[t] = p
    BY <1>7, <2>3 DEF RevokeAllVisit
  <2>4. pc'[p] = pc[p] /\ req'[p] = req[p]
    BY <1>7, OthersUntouched
  <2>5. \A t \in Token : lock[t] = p => lock'[t] = p
    BY <1>7, <2>1, <2>2, <2>3 DEF Arrive, Login, LogoutAll, Refresh, Logout, Begin,
       Proceed, CheckCredentials, StartSession, Create, GetByTokenHash, CheckOwner,
       IssueAccessToken, Revoke, RevokeAllSnapshot, Deliver
  <2> QED BY <2>4, <2>5
<1>8. CASE Arrive(p) \/ Fail(p) \/ Deliver(p)
  <2>1. CASE Fail(p) \/ Deliver(p)
    BY <1>3, <2>1 DEF Fail, Deliver, Goto, Finish, NoReq, IInv, TypeOK
  <2>2. CASE Arrive(p)
    <3> USE DEF Begin, Goto, NoReq
    <3>0. TypeOK
      BY DEF IInv
    <3>1. ASSUME NEW u \in User, Login(p, u)
          PROVE  pc'[p] # "ending" /\ req'[p].snap = {}
      BY <3>0, <3>1 DEF Login, TypeOK
    <3>2. ASSUME NEW u \in User, LogoutAll(p, u)
          PROVE  pc'[p] # "ending" /\ req'[p].snap = {}
      BY <3>0, <3>2 DEF LogoutAll, TypeOK
    <3>3. ASSUME NEW t \in known \cup {NoToken}, Refresh(p, t)
          PROVE  pc'[p] # "ending" /\ req'[p].snap = {}
      BY <3>0, <3>3 DEF Refresh, TypeOK
    <3>4. ASSUME NEW t \in known \cup {NoToken}, Logout(p, t)
          PROVE  pc'[p] # "ending" /\ req'[p].snap = {}
      BY <3>0, <3>4 DEF Logout, TypeOK
    <3> QED BY <1>3, <2>2, <3>1, <3>2, <3>3, <3>4 DEF Arrive
  <2> QED BY <1>8, <2>1, <2>2
<1>9. CASE Proceed(p)
  <2>1. CASE \/ CheckCredentials(p) \/ StartSession(p) \/ GetByTokenHash(p)
             \/ CheckOwner(p) \/ RotateSpend(p) \/ IssueAccessToken(p) \/ Revoke(p)
             \/ \E n \in Token : Create(p, n) \/ RotateCommit(p, n)
    <3>1. pc[p] \notin {"ending", "answer"} /\ pc'[p] # "ending"
      BY <2>1 DEF CheckCredentials, StartSession, GetByTokenHash, CheckOwner,
         RotateSpend, IssueAccessToken, Revoke, Create, RotateCommit, Goto, Finish,
         IInv, TypeOK
    <3>2. req'[p].snap = req[p].snap \/ req'[p] = NoReq
      <4> USE DEF IInv, TypeOK, ReqType, Goto, Finish
      <4>1. CASE GetByTokenHash(p)
        <5>1. \/ Finish(p)
              \/ req' = [req EXCEPT ![p] = [@ EXCEPT !.owner = row[req[p].tok].user]]
              \/ req' = [req EXCEPT ![p] = [@ EXCEPT !.owner = row[req[p].tok].user,
                                                    !.now = clock]]
          BY <4>1 DEF GetByTokenHash
        <5> QED BY <5>1
      <4>2. CASE CheckCredentials(p) \/ StartSession(p) \/ CheckOwner(p)
        BY <4>2 DEF CheckCredentials, StartSession, CheckOwner
      <4>3. CASE RotateSpend(p) \/ IssueAccessToken(p) \/ Revoke(p)
        BY <4>3 DEF RotateSpend, IssueAccessToken, Revoke
      <4>4. CASE \E n \in Token : Create(p, n) \/ RotateCommit(p, n)
        BY <4>4 DEF Create, RotateCommit
      <4> QED BY <2>1, <4>1, <4>2, <4>3, <4>4
    <3>3. req[p].snap = {}
      BY <3>1 DEF IInv, SnapshotDies
    <3> QED BY <1>3, <3>1, <3>2, <3>3 DEF NoReq
  <2> QED BY <1>4, <1>5, <1>6, <1>8, <1>9, <2>1 DEF Proceed
<1>10. CASE Environment
  <2>1. /\ pc' = pc /\ lock' = lock
        /\ req'[p].snap = req[p].snap /\ req'[p].pending = req[p].pending
    BY <1>10 DEF Environment, SetStatus, DeleteUser, DeleteExpiredBefore, Tick,
       IInv, TypeOK, ReqType
  <2> QED BY <1>2, <2>1
<1>11. CASE UNCHANGED vars
  BY <1>2, <1>11 DEF vars
<1> QED BY <1>2, <1>7, <1>8, <1>9, <1>10, <1>11 DEF Next

-----------------------------------------------------------------------------
(* The theorems                                                            *)

\* The inductive invariant: no request, failure or interleaving leads out of it.
THEOREM Invariance == Spec => []IInv
<1>1. Init => IInv
  BY ConstantsAssumption
     DEF Init, IInv, TypeOK, TokenInHand, RowInv, LockInv, RowsWellFormed,
         AtMostOneLive, SingleSuccessor, SpentIffReplaced, LocksHeld, SpendingLocks,
         SnapshotDies, Issued, Live, NoRow, RowType, RowStates, NoReq, ReqType, PCs
<1>2. IInv /\ [Next]_vars => IInv'
  BY TypeStep, TokenStep, RowStep, LocksHeldStep, SpendingLocksStep, SnapshotStep
     DEF IInv, LockInv
<1> QED BY <1>1, <1>2, PTL DEF Spec

\* Every variable of the service and of its table stays in its type.
THEOREM TypeCorrect == Spec => []TypeOK
BY Invariance, PTL DEF IInv

\* However many refreshes, logouts and failures race, one login never has two
\* usable refresh tokens.
THEOREM OneLiveTokenPerSession == Spec => []AtMostOneLive
BY Invariance, PTL DEF IInv, RowInv

\* A refresh token is exchanged for at most one other.
THEOREM TokensSpentOnce == Spec => []SingleSuccessor
BY Invariance, PTL DEF IInv, RowInv

\* Rotation is atomic: spent and replaced are the same thing.
THEOREM RotationAtomic == Spec => []SpentIffReplaced
BY Invariance, PTL DEF IInv, RowInv

\* After RevokeAllForUser no token it found live is usable.
THEOREM EndAllComplete == Spec => []EndAllKillsSnapshot
<1>1. IInv => EndAllKillsSnapshot
  BY DEF IInv, SnapshotDies, EndAllKillsSnapshot
<1> QED BY <1>1, Invariance, PTL

\* A session that has ended is never brought back by what was in flight.
THEOREM NoResurrection == Spec => DeadStaysDead
<1>1. ASSUME IInv, TypeOK', [Next]_vars, NEW s \in Token, Issued(s), ~ Ongoing(s)
      PROVE  ~ Ongoing(s)'
  <2> SUFFICES ASSUME NEW x \in Token, (row[x].session = s)', Live(x)'
               PROVE  FALSE
      BY DEF Ongoing
  <2>1. CASE Kept
    BY <1>1, <2>1 DEF Kept, Ongoing
  <2>2. ASSUME NEW p \in Request, NEW n \in Token, Create(p, n), ~ Issued(n)
        PROVE  FALSE
    BY <1>1, <2>2 DEF Create, IInv, TypeOK, Ongoing, Live
  <2>3. ASSUME NEW p \in Request, NEW n \in Token, RotateCommit(p, n), ~ Issued(n)
        PROVE  FALSE
    <3> DEFINE t == req[p].tok
    <3>1. t \in Token /\ Live(t)
      BY <1>1, <2>3 DEF RotateCommit, IInv, TokenInHand, LockInv, SpendingLocks,
         LocksHeld
    <3>2. x # n => row'[x].session = row[x].session /\ (Live(x)' => Live(x))
      BY <1>1, <2>3, <3>1 DEF RotateCommit, IInv, TypeOK, RowType, Live
    <3>3. row'[n].session = row[t].session
      BY <1>1, <2>3 DEF RotateCommit, IInv, TypeOK
    <3> QED BY <1>1, <3>1, <3>2, <3>3 DEF Ongoing
  <2> QED BY <1>1, <2>1, <2>2, <2>3, RowChanges
<1>2. IInv /\ IInv' /\ [Next]_vars =>
        [\A s \in Token : Issued(s) /\ ~ Ongoing(s) => ~ Ongoing(s)']_vars
  BY <1>1 DEF IInv
<1> QED BY <1>2, Invariance, PTL DEF Spec, DeadStaysDead

=============================================================================
