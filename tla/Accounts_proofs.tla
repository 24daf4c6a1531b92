-------------------------- MODULE Accounts_proofs --------------------------
(***************************************************************************)
(* Theorems about Accounts, for any number of accounts, links, addresses,  *)
(* numbers and concurrent requests.                                        *)
(***************************************************************************)
EXTENDS Accounts, TLAPS

-----------------------------------------------------------------------------
(* The inductive invariant                                                 *)

\* Addresses are stored, and searched for, in normal form.
PlainEmails ==
    /\ \A u \in User : Exists(u) =>
          account[u].email \in Spelling /\ account[u].email.form = "plain"
    /\ \A p \in Request : pc[p] \in {"insertUser", "commitUser"} =>
          req[p].email \in Spelling /\ req[p].email.form = "plain"

NumbersKnown ==
    /\ \A l \in Link : Linked(l) => link[l].number \in Number
    /\ \A p \in Request : pc[p] \in {"lookup", "linkUser", "linkNumber", "linkCommit"} =>
          req[p].number \in Number

\* What a request in the midst of an INSERT has entered into an index is nobody
\* else's, neither in the table nor in another INSERT.
AddressHeld ==
    \A p \in Request : pc[p] = "commitUser" =>
        /\ \A u \in User : Exists(u) => ~ SameAddress(req[p].email, account[u].email)
        /\ \A q \in Request \ {p} : pc[q] = "commitUser" =>
              ~ SameAddress(req[p].email, req[q].email)

UserHeld ==
    \A p \in Request : pc[p] \in {"linkNumber", "linkCommit"} =>
        /\ \A l \in Link : Linked(l) => link[l].user # req[p].user
        /\ \A q \in Request \ {p} : pc[q] \in {"linkNumber", "linkCommit"} =>
              req[q].user # req[p].user

NumberHeld ==
    \A p \in Request : pc[p] = "linkCommit" =>
        /\ \A l \in Link : Linked(l) => link[l].number # req[p].number
        /\ \A q \in Request \ {p} : pc[q] = "linkCommit" =>
              req[q].number # req[p].number

Held == AddressHeld /\ UserHeld /\ NumberHeld

IInv == TypeOK /\ PlainEmails /\ NumbersKnown /\ OneOwner /\ Held

-----------------------------------------------------------------------------

\* A step of a request moves no other request.
LEMMA OwnSteps ==
    ASSUME TypeOK, NEW p \in Request, Arrive(p) \/ Proceed(p) \/ Fail(p)
    PROVE  /\ pc' = [pc EXCEPT ![p] = pc'[p]]
           /\ req' = [req EXCEPT ![p] = req'[p]]
<1> USE DEF TypeOK
<1>1. CASE Arrive(p)
  BY <1>1 DEF Arrive, Register, UpdateProfile, LinkWhatsAppNumber, Begin
<1>2. CASE Proceed(p)
  BY <1>2 DEF Proceed, InsertUser, CommitUser, Update, Lookup, EnterUserIndex,
              EnterNumberIndex, CommitLink, Deliver, Goto, Answer
<1>3. CASE Fail(p)
  BY <1>3 DEF Fail
<1> QED BY <1>1, <1>2, <1>3

\* A request that is answered is a well-typed one.
LEMMA AnswerType ==
    ASSUME TypeOK, NEW p \in Request,
           NEW a \in {"created", "emailTaken", "updated", "notFound",
                      "linked", "alreadyLinked", "numberTaken", "internal"},
           Answer(p, a)
    PROVE  req' \in [Request -> ReqType] /\ pc'[p] = "answer"
<1>1. [req[p] EXCEPT !.answer = a] \in ReqType
  BY DEF TypeOK, ReqType
<1> QED BY <1>1 DEF TypeOK, Answer

\* It has the answer it was given.
LEMMA AnswerIs ==
    ASSUME TypeOK, NEW p \in Request, NEW a, Answer(p, a)
    PROVE  req'[p].answer = a
<1>1. req[p] \in ReqType /\ req' = [req EXCEPT ![p] = [req[p] EXCEPT !.answer = a]]
  BY DEF TypeOK, Answer
<1> QED BY <1>1 DEF TypeOK, ReqType

\* It is where it went.
LEMMA GotoIs ==
    ASSUME TypeOK, NEW p \in Request, NEW s, Goto(p, s)
    PROVE  pc'[p] = s
BY DEF TypeOK, Goto

\* The UPDATE writes a well-typed row and leaves its state and address alone.
LEMMA PatchedType ==
    ASSUME NEW a \in AccountType, NEW r \in ReqType
    PROVE  /\ Patched(a, r) \in AccountType
           /\ Patched(a, r).state = a.state
           /\ Patched(a, r).email = a.email
BY DEF Patched, Coalesce, AccountType, ReqType

\* Every step keeps every variable in its type; a link is stored only with its
\* account, which the foreign key sees to when a deletion has come in between.
LEMMA TypeStep == TypeOK /\ PlainEmails /\ NumbersKnown /\ [Next]_vars => TypeOK'
<1> SUFFICES ASSUME TypeOK, PlainEmails, NumbersKnown, [Next]_vars PROVE TypeOK'
    OBVIOUS
<1> USE AccountsAssumption DEF TypeOK
<1>1. ASSUME NEW p \in Request, Arrive(p) PROVE TypeOK'
  <2>1. ASSUME NEW e \in Spelling, NEW v \in Value, Register(p, e, v, v) PROVE TypeOK'
    BY <2>1 DEF Register, Begin, NoReq, ReqType, NoEmail, NormalizeEmail, Spelling
  <2>2. ASSUME NEW u \in User, NEW n \in Value \cup {NoValue},
               NEW z \in Value \cup {NoValue}, UpdateProfile(p, u, n, z)
        PROVE  TypeOK'
    BY <2>2 DEF UpdateProfile, Begin, NoReq, ReqType, NoEmail
  <2>3. ASSUME NEW u \in User, NEW n \in Number, LinkWhatsAppNumber(p, u, n)
        PROVE  TypeOK'
    BY <2>3 DEF LinkWhatsAppNumber, Begin, NoReq, ReqType, NoEmail
  <2> QED BY <1>1, <2>1, <2>2, <2>3 DEF Arrive
<1>2. ASSUME NEW p \in Request, Proceed(p) PROVE TypeOK'
  <2>1. CASE InsertUser(p)
    BY <2>1, AnswerType DEF InsertUser, Goto, Answer
  <2>2. ASSUME NEW u \in User, CommitUser(p, u) PROVE TypeOK'
    <3>1. [state |-> "stored", email |-> req[p].email, name |-> req[p].name,
           timezone |-> req[p].timezone] \in AccountType
      BY DEF ReqType, AccountType
    <3>2. account' \in [User -> AccountType] /\ Answer(p, "created")
      BY <2>2, <3>1 DEF CommitUser
    <3>3. \A v \in User : account[v].state = "stored" => account'[v].state = "stored"
      BY <2>2 DEF CommitUser
    <3>4. /\ link' = link
          /\ pc' = [pc EXCEPT ![p] = "answer"]
          /\ req' \in [Request -> ReqType]
      BY <2>2, <3>2, AnswerType DEF CommitUser, Answer
    <3> QED BY <3>2, <3>3, <3>4
  <2>3. CASE Update(p)
    <3> DEFINE u == req[p].user
    <3>1. CASE Exists(u)
      <4>1. u \in User /\ account[u] \in AccountType
        BY <3>1 DEF Exists
      <4>2. /\ Patched(account[u], req[p]) \in AccountType
            /\ Patched(account[u], req[p]).state = account[u].state
        BY <4>1, PatchedType
      <4>3. /\ account' = [account EXCEPT ![u] = Patched(account[u], req[p])]
            /\ Answer(p, "updated") /\ link' = link
        BY <2>3, <3>1 DEF Update
      <4>4. /\ account' \in [User -> AccountType]
            /\ \A v \in User : account'[v].state = account[v].state
        BY <4>1, <4>2, <4>3
      <4> QED BY <4>3, <4>4, AnswerType DEF Answer
    <3>2. CASE ~ Exists(u)
      BY <2>3, <3>2, AnswerType DEF Update, Answer
    <3> QED BY <3>1, <3>2
  <2>4. CASE Lookup(p)
    BY <2>4, AnswerType DEF Lookup, Goto, Answer
  <2>5. CASE EnterUserIndex(p)
    BY <2>5, AnswerType DEF EnterUserIndex, Goto, Answer
  <2>6. CASE EnterNumberIndex(p)
    BY <2>6, AnswerType DEF EnterNumberIndex, Goto, Answer
  <2>7. ASSUME NEW l \in Link, CommitLink(p, l) PROVE TypeOK'
    <3>1. CASE Exists(req[p].user)
      <4>1. [state |-> "stored", user |-> req[p].user, number |-> req[p].number]
              \in LinkType
        BY DEF ReqType, LinkType
      <4>2. /\ link' = [link EXCEPT ![l] = [state |-> "stored", user |-> req[p].user,
                                           number |-> req[p].number]]
            /\ Answer(p, "linked") /\ account' = account
        BY <2>7, <3>1 DEF CommitLink
      <4> QED BY <3>1, <4>1, <4>2, AnswerType DEF Answer, Exists
    <3>2. CASE ~ Exists(req[p].user)
      BY <2>7, <3>2, AnswerType DEF CommitLink, Answer
    <3> QED BY <3>1, <3>2
  <2>8. CASE Deliver(p)
    BY <2>8 DEF Deliver, NoReq, ReqType, NoEmail
  <2> QED BY <1>2, <2>1, <2>2, <2>3, <2>4, <2>5, <2>6, <2>7, <2>8 DEF Proceed
<1>3. ASSUME NEW p \in Request, Fail(p) PROVE TypeOK'
  BY <1>3 DEF Fail, NoReq, ReqType, NoEmail
<1>4. ASSUME NEW u \in User, DeleteUser(u) PROVE TypeOK'
  <2>1. \A v \in User : account'[v] \in AccountType
                        /\ (v # u => account'[v].state = account[v].state)
    BY <1>4 DEF DeleteUser, AccountType
  <2>2. \A l \in Link : /\ link'[l] \in LinkType
                        /\ link'[l].user = link[l].user
                        /\ link'[l].state = "stored" =>
                              link[l].state = "stored" /\ link[l].user # u
    BY <1>4 DEF DeleteUser, LinkType, Linked
  <2>3. /\ DOMAIN account' = User /\ DOMAIN link' = Link
        /\ account' = [v \in User |-> account'[v]]
        /\ link' = [l \in Link |-> link'[l]]
    BY <1>4 DEF DeleteUser
  <2>4. account' \in [User -> AccountType] /\ link' \in [Link -> LinkType]
    BY <2>1, <2>2, <2>3
  <2> QED BY <1>4, <2>1, <2>2, <2>4 DEF DeleteUser
<1>5. CASE UNCHANGED vars
  BY <1>5 DEF vars
<1> QED BY <1>1, <1>2, <1>3, <1>4, <1>5 DEF Next

-----------------------------------------------------------------------------
(* Steps outside the indexes, and the deletion of an account               *)

Rest == PlainEmails /\ NumbersKnown /\ OneOwner /\ Held

\* A request that moves without entering an index, and without writing a table, takes
\* nothing from the others.
LEMMA Outside ==
    ASSUME IInv, NEW p \in Request,
           UNCHANGED <<account, link>>,
           pc' = [pc EXCEPT ![p] = pc'[p]], req' = [req EXCEPT ![p] = req'[p]],
           pc'[p] \notin {"commitUser", "linkNumber", "linkCommit"},
           pc'[p] = "insertUser" =>
              req'[p].email \in Spelling /\ req'[p].email.form = "plain",
           pc'[p] \in {"lookup", "linkUser"} => req'[p].number \in Number
    PROVE  Rest'
<1>1. \A q \in Request \ {p} : pc'[q] = pc[q] /\ req'[q] = req[q]
  BY DEF IInv, TypeOK
<1>2. PlainEmails'
  BY <1>1 DEF IInv, PlainEmails, Exists
<1>3. NumbersKnown'
  BY <1>1 DEF IInv, NumbersKnown, Linked
<1>4. OneOwner'
  BY DEF IInv, OneOwner, Exists, Linked
<1>5. AddressHeld'
  BY <1>1 DEF IInv, Held, AddressHeld, Exists
<1>6. UserHeld'
  BY <1>1 DEF IInv, Held, UserHeld, Linked
<1>7. NumberHeld'
  BY <1>1 DEF IInv, Held, NumberHeld, Linked
<1> QED BY <1>2, <1>3, <1>4, <1>5, <1>6, <1>7 DEF Rest, Held

\* A deletion frees keys and takes none.
LEMMA DeleteRest ==
    ASSUME IInv, NEW u \in User, DeleteUser(u) PROVE Rest'
<1>1. \A v \in User : Exists(v)' => Exists(v) /\ account'[v] = account[v]
  BY DEF DeleteUser, Exists, IInv, TypeOK
<1>2. \A l \in Link : Linked(l)' => Linked(l) /\ link'[l] = link[l]
  BY DEF DeleteUser, Linked, IInv, TypeOK
<1>3. pc' = pc /\ req' = req
  BY DEF DeleteUser
<1>4. PlainEmails'
  BY <1>1, <1>3 DEF IInv, PlainEmails
<1>5. NumbersKnown'
  BY <1>2, <1>3 DEF IInv, NumbersKnown
<1>6. OneOwner'
  BY <1>1, <1>2 DEF IInv, OneOwner
<1>7. AddressHeld'
  BY <1>1, <1>3 DEF IInv, Held, AddressHeld
<1>8. UserHeld'
  BY <1>2, <1>3 DEF IInv, Held, UserHeld
<1>9. NumberHeld'
  BY <1>2, <1>3 DEF IInv, Held, NumberHeld
<1> QED BY <1>4, <1>5, <1>6, <1>7, <1>8, <1>9 DEF Rest, Held

-----------------------------------------------------------------------------
(* Entries into the indexes, and the INSERTs that commit                   *)

\* The entry into an index makes sure that the key is nobody else's.
LEMMA InsertUserRest ==
    ASSUME IInv, NEW p \in Request, InsertUser(p),
           pc' = [pc EXCEPT ![p] = pc'[p]], req' = [req EXCEPT ![p] = req'[p]]
    PROVE  Rest'
<1> DEFINE taken == \E u \in User : Exists(u) /\ SameAddress(req[p].email, account[u].email)
<1>1. CASE taken
  BY <1>1, Outside DEF InsertUser, Answer, IInv, TypeOK
<1>2. CASE ~ taken
  <2>1. pc' = [pc EXCEPT ![p] = "commitUser"] /\ UNCHANGED <<req, account, link>>
    BY <1>2 DEF InsertUser, Goto
  <2>2. pc'[p] = "commitUser" /\ \A q \in Request \ {p} : pc'[q] = pc[q]
    BY <2>1 DEF IInv, TypeOK
  <2>3. PlainEmails' /\ NumbersKnown' /\ OneOwner'
    BY <2>1, <2>2 DEF IInv, PlainEmails, NumbersKnown, OneOwner, Exists, Linked,
                      InsertUser
  <2>4. \A q \in Request \ {p} : pc[q] = "commitUser" =>
           /\ ~ SameAddress(req[p].email, req[q].email)
           /\ ~ SameAddress(req[q].email, req[p].email)
    BY DEF InsertUser, SameAddress
  <2>5. AddressHeld'
    BY <1>2, <2>1, <2>2, <2>4 DEF IInv, Held, AddressHeld, Exists
  <2>6. UserHeld' /\ NumberHeld'
    BY <2>1, <2>2 DEF IInv, Held, UserHeld, NumberHeld, Linked
  <2> QED BY <2>3, <2>5, <2>6 DEF Rest, Held
<1> QED BY <1>1, <1>2

\* Entering the index of accounts keeps what the entries promise, or finds a true refusal.
LEMMA EnterUserRest ==
    ASSUME IInv, NEW p \in Request, EnterUserIndex(p),
           pc' = [pc EXCEPT ![p] = pc'[p]], req' = [req EXCEPT ![p] = req'[p]]
    PROVE  Rest'
<1> DEFINE taken == \E l \in Link : Linked(l) /\ link[l].user = req[p].user
<1>1. CASE taken
  BY <1>1, Outside DEF EnterUserIndex, Answer, IInv, TypeOK
<1>2. CASE ~ taken
  <2>1. pc' = [pc EXCEPT ![p] = "linkNumber"] /\ UNCHANGED <<req, account, link>>
    BY <1>2 DEF EnterUserIndex, Goto
  <2>2. pc'[p] = "linkNumber" /\ \A q \in Request \ {p} : pc'[q] = pc[q]
    BY <2>1 DEF IInv, TypeOK
  <2>3. PlainEmails' /\ NumbersKnown' /\ OneOwner'
    BY <2>1, <2>2 DEF IInv, PlainEmails, NumbersKnown, OneOwner, Exists, Linked,
                      EnterUserIndex
  <2>4. \A q \in Request \ {p} : pc[q] \in {"linkNumber", "linkCommit"} =>
           req[q].user # req[p].user
    BY DEF EnterUserIndex
  <2>5. UserHeld'
    BY <1>2, <2>1, <2>2, <2>4 DEF IInv, Held, UserHeld, Linked
  <2>6. AddressHeld' /\ NumberHeld'
    BY <2>1, <2>2 DEF IInv, Held, AddressHeld, NumberHeld, Linked, Exists
  <2> QED BY <2>3, <2>5, <2>6 DEF Rest, Held
<1> QED BY <1>1, <1>2

\* So does entering the index of numbers, with the account already entered.
LEMMA EnterNumberRest ==
    ASSUME IInv, NEW p \in Request, EnterNumberIndex(p),
           pc' = [pc EXCEPT ![p] = pc'[p]], req' = [req EXCEPT ![p] = req'[p]]
    PROVE  Rest'
<1> DEFINE taken == \E l \in Link : Linked(l) /\ link[l].number = req[p].number
<1>1. CASE taken
  BY <1>1, Outside DEF EnterNumberIndex, Answer, IInv, TypeOK
<1>2. CASE ~ taken
  <2>1. pc' = [pc EXCEPT ![p] = "linkCommit"] /\ UNCHANGED <<req, account, link>>
    BY <1>2 DEF EnterNumberIndex, Goto
  <2>2. pc[p] = "linkNumber" /\ pc'[p] = "linkCommit"
        /\ \A q \in Request \ {p} : pc'[q] = pc[q]
    BY <2>1 DEF IInv, TypeOK, EnterNumberIndex
  <2>3. PlainEmails' /\ NumbersKnown' /\ OneOwner'
    BY <2>1, <2>2 DEF IInv, PlainEmails, NumbersKnown, OneOwner, Exists, Linked
  <2>4. \A q \in Request \ {p} : pc[q] = "linkCommit" => req[q].number # req[p].number
    BY DEF EnterNumberIndex
  <2>5. NumberHeld'
    BY <1>2, <2>1, <2>2, <2>4 DEF IInv, Held, NumberHeld, Linked
  <2>6. AddressHeld' /\ UserHeld'
    BY <2>1, <2>2 DEF IInv, Held, AddressHeld, UserHeld, Linked, Exists
  <2> QED BY <2>3, <2>5, <2>6 DEF Rest, Held
<1> QED BY <1>1, <1>2

\* The row that is committed has been in the index all the while.
LEMMA CommitUserRest ==
    ASSUME IInv, NEW p \in Request, NEW u \in User, CommitUser(p, u)
    PROVE  Rest'
<1>1. /\ pc[p] = "commitUser" /\ ~ Exists(u)
      /\ account'[u].state = "stored" /\ account'[u].email = req[p].email
      /\ \A v \in User \ {u} : account'[v] = account[v]
      /\ link' = link
  BY DEF CommitUser, Exists, IInv, TypeOK
<1>2. /\ pc'[p] = "answer"
      /\ \A q \in Request \ {p} : pc'[q] = pc[q] /\ req'[q] = req[q]
  BY DEF CommitUser, Answer, IInv, TypeOK
<1>3. /\ req[p].email \in Spelling /\ req[p].email.form = "plain"
      /\ \A v \in User : Exists(v) => /\ ~ SameAddress(req[p].email, account[v].email)
                                      /\ ~ SameAddress(account[v].email, req[p].email)
      /\ \A q \in Request \ {p} : pc[q] = "commitUser" =>
            /\ ~ SameAddress(req[p].email, req[q].email)
            /\ ~ SameAddress(req[q].email, req[p].email)
  BY <1>1 DEF IInv, PlainEmails, Held, AddressHeld, SameAddress
<1>4. PlainEmails'
  BY <1>1, <1>2, <1>3 DEF IInv, PlainEmails, Exists
<1>5. NumbersKnown'
  BY <1>1, <1>2 DEF IInv, NumbersKnown, Linked
<1>6. OneOwner'
  BY <1>1, <1>3 DEF IInv, OneOwner, Exists, Linked
<1>7. AddressHeld'
  BY <1>1, <1>2, <1>3 DEF IInv, Held, AddressHeld, Exists
<1>8. UserHeld' /\ NumberHeld'
  BY <1>1, <1>2 DEF IInv, Held, UserHeld, NumberHeld, Linked
<1> QED BY <1>4, <1>5, <1>6, <1>7, <1>8 DEF Rest, Held

\* A committed row takes over the entries of its INSERT.
LEMMA CommitLinkRest ==
    ASSUME IInv, NEW p \in Request, NEW l \in Link, CommitLink(p, l),
           pc' = [pc EXCEPT ![p] = pc'[p]], req' = [req EXCEPT ![p] = req'[p]]
    PROVE  Rest'
<1>1. CASE ~ Exists(req[p].user)
  BY <1>1, Outside DEF CommitLink, Answer, IInv, TypeOK
<1>2. CASE Exists(req[p].user)
  <2>1. /\ pc[p] = "linkCommit" /\ ~ Linked(l)
        /\ link'[l] = [state |-> "stored", user |-> req[p].user,
                       number |-> req[p].number]
        /\ \A m \in Link \ {l} : link'[m] = link[m]
        /\ account' = account
    BY <1>2 DEF CommitLink, Linked, IInv, TypeOK
  <2>2. /\ pc'[p] = "answer"
        /\ \A q \in Request \ {p} : pc'[q] = pc[q] /\ req'[q] = req[q]
    BY <1>2 DEF CommitLink, Answer, IInv, TypeOK
  <2>3. PlainEmails'
    BY <2>1, <2>2 DEF IInv, PlainEmails, Exists
  <2>4. NumbersKnown'
    BY <2>1, <2>2 DEF IInv, NumbersKnown, Linked
  <2>5. OneOwner'
    BY <2>1 DEF IInv, OneOwner, Held, UserHeld, NumberHeld, Exists, Linked
  <2>6. AddressHeld'
    BY <2>1, <2>2 DEF IInv, Held, AddressHeld, Exists
  <2>7. UserHeld'
    BY <2>1, <2>2 DEF IInv, Held, UserHeld, Linked
  <2>8. NumberHeld'
    BY <2>1, <2>2 DEF IInv, Held, NumberHeld, Linked
  <2> QED BY <2>3, <2>4, <2>5, <2>6, <2>7, <2>8 DEF Rest, Held
<1> QED BY <1>1, <1>2

\* An UPDATE leaves keys alone.
LEMMA UpdateRest ==
    ASSUME IInv, NEW p \in Request, Update(p) PROVE Rest'
<1>1. \A u \in User : /\ Exists(u)' <=> Exists(u)
                      /\ Exists(u) => account'[u].email = account[u].email
  <2> DEFINE w == req[p].user
  <2>1. CASE Exists(w)
    <3>1. /\ w \in User /\ account[w] \in AccountType /\ req[p] \in ReqType
          /\ account' = [account EXCEPT ![w] = Patched(account[w], req[p])]
      BY <2>1 DEF Update, Exists, IInv, TypeOK
    <3>2. /\ account'[w].state = account[w].state
          /\ account'[w].email = account[w].email
          /\ \A u \in User \ {w} : account'[u] = account[u]
      BY <3>1, PatchedType DEF IInv, TypeOK
    <3> QED BY <3>2 DEF Exists
  <2>2. CASE ~ Exists(w)
    BY <2>2 DEF Update, Exists
  <2> QED BY <2>1, <2>2
<1>2. /\ pc'[p] = "answer" /\ link' = link
      /\ \A q \in Request \ {p} : pc'[q] = pc[q] /\ req'[q] = req[q]
  BY DEF Update, Answer, IInv, TypeOK
<1>3. PlainEmails'
  BY <1>1, <1>2 DEF IInv, PlainEmails
<1>4. NumbersKnown'
  BY <1>2 DEF IInv, NumbersKnown, Linked
<1>5. OneOwner'
  BY <1>1, <1>2 DEF IInv, OneOwner, Linked
<1>6. AddressHeld'
  BY <1>1, <1>2 DEF IInv, Held, AddressHeld
<1>7. UserHeld' /\ NumberHeld'
  BY <1>2 DEF IInv, Held, UserHeld, NumberHeld, Linked
<1> QED BY <1>3, <1>4, <1>5, <1>6, <1>7 DEF Rest, Held

-----------------------------------------------------------------------------
(* The invariant is inductive                                              *)

\* Empty tables and no requests.
LEMMA InitIInv == Init => IInv
<1> SUFFICES ASSUME Init PROVE IInv OBVIOUS
<1>1. TypeOK
  BY DEF Init, TypeOK, NoAccount, NoLink, NoReq, AccountType, LinkType, ReqType, NoEmail
<1>2. /\ \A u \in User : ~ Exists(u)
      /\ \A l \in Link : ~ Linked(l)
      /\ \A p \in Request : pc[p] = "idle"
  BY DEF Init, Exists, Linked, NoAccount, NoLink
<1> QED BY <1>1, <1>2 DEF IInv, PlainEmails, NumbersKnown, OneOwner, Held, AddressHeld,
                          UserHeld, NumberHeld

\* A call starts with nothing entered.
LEMMA ArriveRest ==
    ASSUME IInv, NEW p \in Request, Arrive(p),
           pc' = [pc EXCEPT ![p] = pc'[p]], req' = [req EXCEPT ![p] = req'[p]]
    PROVE  Rest'
<1> USE DEF Begin, IInv, TypeOK
<1>1. ASSUME NEW e \in Spelling, NEW v \in Value, Register(p, e, v, v)
      PROVE  Rest'
  <2>1. /\ pc'[p] = "insertUser" /\ UNCHANGED <<account, link>>
        /\ req'[p].email = NormalizeEmail(e)
    BY <1>1 DEF Register, NoReq
  <2>2. NormalizeEmail(e) \in Spelling /\ NormalizeEmail(e).form = "plain"
    BY DEF NormalizeEmail, Spelling
  <2> QED BY <2>1, <2>2, Outside
<1>2. ASSUME NEW u \in User, NEW n \in Value \cup {NoValue},
             NEW z \in Value \cup {NoValue}, UpdateProfile(p, u, n, z)
      PROVE  Rest'
  <2>1. pc'[p] = "update" /\ UNCHANGED <<account, link>>
    BY <1>2 DEF UpdateProfile
  <2> QED BY <2>1, Outside
<1>3. ASSUME NEW u \in User, NEW n \in Number, LinkWhatsAppNumber(p, u, n)
      PROVE  Rest'
  <2>1. pc'[p] = "lookup" /\ req'[p].number = n /\ UNCHANGED <<account, link>>
    BY <1>3 DEF LinkWhatsAppNumber, NoReq
  <2> QED BY <2>1, Outside
<1> QED BY <1>1, <1>2, <1>3 DEF Arrive

\* GetByID finds the account or refuses for its true reason.
LEMMA LookupRest ==
    ASSUME IInv, NEW p \in Request, Lookup(p),
           pc' = [pc EXCEPT ![p] = pc'[p]], req' = [req EXCEPT ![p] = req'[p]]
    PROVE  Rest'
<1>1. req[p].number \in Number /\ UNCHANGED <<account, link>>
  BY DEF Lookup, IInv, NumbersKnown
<1>2. pc'[p] = "answer" \/ (pc'[p] = "linkUser" /\ req'[p].number = req[p].number)
  BY DEF Lookup, Goto, Answer, IInv, TypeOK
<1> QED BY <1>1, <1>2, Outside

\* The invariant is inductive.
LEMMA NextIInv == IInv /\ [Next]_vars => IInv'
<1> SUFFICES ASSUME IInv, [Next]_vars PROVE IInv' OBVIOUS
<1>1. TypeOK'
  BY TypeStep DEF IInv
<1>2. CASE UNCHANGED vars
  BY <1>2 DEF vars, IInv, TypeOK, PlainEmails, NumbersKnown, OneOwner, Held,
              AddressHeld, UserHeld, NumberHeld, Exists, Linked
<1>3. ASSUME NEW u \in User, DeleteUser(u) PROVE Rest'
  BY <1>3, DeleteRest
<1>4. ASSUME NEW p \in Request, Arrive(p) \/ Proceed(p) \/ Fail(p),
             pc' = [pc EXCEPT ![p] = pc'[p]], req' = [req EXCEPT ![p] = req'[p]]
      PROVE  Rest'
  <2>1. CASE Arrive(p)
    BY <1>4, <2>1, ArriveRest
  <2>2. CASE Fail(p)
    BY <1>4, <2>2, Outside DEF Fail, IInv, TypeOK
  <2>3. CASE Deliver(p)
    BY <1>4, <2>3, Outside DEF Deliver, IInv, TypeOK
  <2>4. CASE Proceed(p) /\ ~ Deliver(p)
    BY <1>4, <2>4, InsertUserRest, CommitUserRest, UpdateRest, LookupRest,
       EnterUserRest, EnterNumberRest, CommitLinkRest DEF Proceed
  <2> QED BY <1>4, <2>1, <2>2, <2>3, <2>4 
<1>5. CASE Next
  <2>1. CASE \E u \in User : DeleteUser(u)
    BY <1>1, <1>3, <2>1 DEF Rest, IInv
  <2>2. ASSUME NEW p \in Request, Arrive(p) \/ Proceed(p) \/ Fail(p) PROVE Rest'
    <3>1. /\ pc' = [pc EXCEPT ![p] = pc'[p]]
          /\ req' = [req EXCEPT ![p] = req'[p]]
      BY <2>2, OwnSteps DEF IInv
    <3> QED BY <2>2, <3>1, <1>4
  <2> QED BY <1>1, <1>5, <2>1, <2>2 DEF Next, Rest, IInv
<1> QED BY <1>2, <1>5

-----------------------------------------------------------------------------
(* Theorems                                                                *)

\* It holds in every reachable state.
LEMMA AlwaysIInv == Spec => []IInv
<1>1. IInv /\ [Next]_vars => IInv'
  BY NextIInv
<1> QED BY InitIInv, <1>1, PTL DEF Spec

\* Every variable stays in its type, and no number is linked to an account that was
\* deleted between LinkWhatsAppNumber's GetByID and its INSERT.
THEOREM TypeCorrect == Spec => []TypeOK
<1>1. IInv => TypeOK
  BY DEF IInv
<1> QED BY AlwaysIInv, <1>1, PTL

\* The unique indexes leave one account to an address, one link to a number and one
\* number to an account, although Register and LinkWhatsAppNumber lock nothing.
THEOREM OneOwnerHolds == Spec => []OneOwner
<1>1. IInv => OneOwner
  BY DEF IInv
<1> QED BY AlwaysIInv, <1>1, PTL

\* NormalizeEmail and the lower(email) of GetByEmail agree on what an address is.
THEOREM AddressFindsHolds == Spec => []AddressFinds
<1>1. IInv => AddressFinds
  <2> SUFFICES ASSUME IInv, NEW u \in User, NEW e \in Spelling,
                      Exists(u), e.address = account[u].email.address
               PROVE  {v \in User : Exists(v)
                         /\ Lower(account[v].email) = NormalizeEmail(e)} = {u}
    BY DEF AddressFinds
  <2>1. \A v \in User : Exists(v) => Lower(account[v].email) = account[v].email
                                    /\ account[v].email \in Spelling
                                    /\ account[v].email.form = "plain"
    BY DEF IInv, PlainEmails, Lower
  <2>2. NormalizeEmail(e) = account[u].email
    BY <2>1 DEF NormalizeEmail, Spelling
  <2>3. \A v \in User : Exists(v) /\ v # u => account[v].email # account[u].email
    BY DEF IInv, OneOwner, SameAddress
  <2> QED BY <2>1, <2>2, <2>3
<1> QED BY AlwaysIInv, <1>1, PTL

\* What handleUserServiceError tells the client is so: in particular the number found
\* taken is never the caller's own, because his INSERT was alone in the first index.
THEOREM AnswersTrueHolds == Spec => AnswersTrue
<1>1. ASSUME IInv, [Next]_vars, NEW p \in Request, pc[p] # "answer", pc'[p] = "answer"
      PROVE  /\ req'[p].answer = "numberTaken" =>
                   \E l \in Link : /\ Linked(l) /\ link[l].number = req[p].number
                                   /\ link[l].user # req[p].user
             /\ req'[p].answer = "alreadyLinked" =>
                   \E l \in Link : Linked(l) /\ link[l].user = req[p].user
             /\ req'[p].answer = "emailTaken" =>
                   \E u \in User : /\ Exists(u)
                                   /\ account[u].email.address = req[p].email.address
  <2>0. TypeOK
    BY <1>1 DEF IInv
  <2>1. Proceed(p) /\ ~ Deliver(p)
    <3>1. PICK q \in Request : Arrive(q) \/ Proceed(q) \/ Fail(q)
      BY <1>1 DEF vars, Next, DeleteUser
    <3>2. q = p
      BY <1>1, <2>0, <3>1, OwnSteps DEF TypeOK
    <3>3. ~ Arrive(p) /\ ~ Fail(p) /\ ~ Deliver(p)
      BY <1>1 DEF Arrive, Register, UpdateProfile, LinkWhatsAppNumber, Begin, Fail,
                    Deliver, IInv, TypeOK
    <3> QED BY <3>1, <3>2, <3>3
  <2>2. CASE InsertUser(p)
    <3>1. req'[p].answer = "emailTaken" /\ pc[p] = "insertUser"
          /\ \E u \in User : Exists(u) /\ SameAddress(req[p].email, account[u].email)
      BY <1>1, <2>0, <2>2, AnswerIs, GotoIs DEF InsertUser
    <3>2. \A u \in User : Exists(u) /\ SameAddress(req[p].email, account[u].email) =>
             account[u].email.address = req[p].email.address
      BY <1>1, <3>1 DEF IInv, PlainEmails, SameAddress, Lower
    <3> QED BY <3>1, <3>2
  <2>3. CASE EnterUserIndex(p)
    BY <1>1, <2>0, <2>3, AnswerIs, GotoIs DEF EnterUserIndex
  <2>4. CASE EnterNumberIndex(p)
    <3>1. req'[p].answer = "numberTaken" /\ pc[p] = "linkNumber"
          /\ \E l \in Link : Linked(l) /\ link[l].number = req[p].number
      BY <1>1, <2>0, <2>4, AnswerIs, GotoIs DEF EnterNumberIndex
    <3> QED BY <1>1, <3>1 DEF IInv, Held, UserHeld
  <2>5. CASE (\E u \in User : CommitUser(p, u)) \/ (\E l \in Link : CommitLink(p, l))
             \/ Update(p) \/ Lookup(p)
    <3>1. req'[p].answer \in {"created", "linked", "internal", "updated", "notFound"}
      BY <1>1, <2>0, <2>5, AnswerIs, GotoIs DEF CommitUser, CommitLink, Update, Lookup
    <3> QED BY <3>1
  <2> QED BY <2>1, <2>2, <2>3, <2>4, <2>5 DEF Proceed
<1>2. IInv /\ [Next]_vars =>
        [ \A p \in Request : pc[p] # "answer" /\ pc'[p] = "answer" =>
          CASE req'[p].answer = "numberTaken" ->
                 \E l \in Link : /\ Linked(l) /\ link[l].number = req[p].number
                                 /\ link[l].user # req[p].user
            [] req'[p].answer = "alreadyLinked" ->
                 \E l \in Link : Linked(l) /\ link[l].user = req[p].user
            [] req'[p].answer = "emailTaken" ->
                 \E u \in User : /\ Exists(u)
                                 /\ account[u].email.address = req[p].email.address
            [] OTHER -> TRUE ]_vars
  BY <1>1
<1> QED BY AlwaysIInv, <1>2, PTL DEF Spec, AnswersTrue

\* A PATCH writes its own row, and of that only the fields the client sent, whatever
\* other requests are in flight.
THEOREM ProfileIsOwnHolds == Spec => ProfileIsOwn
<1>1. ASSUME IInv, [Next]_vars, NEW u \in User, Exists(u), account'[u] # account[u]
      PROVE  \/ account'[u] = [account[u] EXCEPT !.state = "deleted"]
             \/ \E p \in Request :
                   /\ req[p].user = u
                   /\ pc[p] = "update" /\ pc'[p] = "answer"
                   /\ account'[u].email = account[u].email
                   /\ account'[u].name = Coalesce(req[p].name, account[u].name)
                   /\ account'[u].timezone = Coalesce(req[p].timezone, account[u].timezone)
  <2>0. TypeOK /\ account[u] \in AccountType
    BY <1>1 DEF IInv, TypeOK
  <2>1. ASSUME NEW v \in User, DeleteUser(v)
        PROVE  account'[u] = [account[u] EXCEPT !.state = "deleted"]
    BY <1>1, <2>0, <2>1 DEF DeleteUser, TypeOK
  <2>2. ASSUME NEW p \in Request, Arrive(p) \/ Proceed(p) \/ Fail(p)
        PROVE  Update(p)
    <3>1. ASSUME NEW v \in User, CommitUser(p, v) PROVE FALSE
      BY <1>1, <2>0, <3>1 DEF CommitUser, Exists, TypeOK
    <3>2. ~ Arrive(p) /\ ~ Fail(p) /\ ~ Deliver(p) /\ ~ InsertUser(p) /\ ~ Lookup(p)
          /\ ~ EnterUserIndex(p) /\ ~ EnterNumberIndex(p)
          /\ \A l \in Link : ~ CommitLink(p, l)
      BY <1>1 DEF Arrive, Register, UpdateProfile, LinkWhatsAppNumber, Begin, Fail,
                  Deliver, InsertUser, Lookup, EnterUserIndex, EnterNumberIndex, CommitLink
    <3> QED BY <2>2, <3>1, <3>2 DEF Proceed
  <2>3. ASSUME NEW p \in Request, Update(p)
        PROVE  /\ req[p].user = u
               /\ pc[p] = "update" /\ pc'[p] = "answer"
               /\ account'[u].email = account[u].email
               /\ account'[u].name = Coalesce(req[p].name, account[u].name)
               /\ account'[u].timezone = Coalesce(req[p].timezone, account[u].timezone)
    <3>1. Exists(req[p].user)
      BY <1>1, <2>3 DEF Update
    <3>2. req[p].user = u
      BY <1>1, <2>0, <2>3, <3>1 DEF Update, TypeOK
    <3>3. account'[u] = Patched(account[u], req[p])
      BY <2>0, <2>3, <3>1, <3>2 DEF Update, TypeOK
    <3>4. pc[p] = "update" /\ pc'[p] = "answer"
      BY <2>0, <2>3, <3>1 DEF Update, Answer, TypeOK
    <3> QED BY <2>0, <3>2, <3>3, <3>4 DEF Patched, AccountType
  <2> QED BY <1>1, <2>1, <2>2, <2>3 DEF Next, vars
<1>2. IInv /\ [Next]_vars =>
        [ \A u \in User : Exists(u) /\ account'[u] # account[u] =>
          \/ account'[u] = [account[u] EXCEPT !.state = "deleted"]
          \/ \E p \in Request :
                /\ req[p].user = u
                /\ pc[p] = "update" /\ pc'[p] = "answer"
                /\ account'[u].email = account[u].email
                /\ account'[u].name = Coalesce(req[p].name, account[u].name)
                /\ account'[u].timezone =
                      Coalesce(req[p].timezone, account[u].timezone) ]_vars
  BY <1>1
<1> QED BY AlwaysIInv, <1>2, PTL DEF Spec, ProfileIsOwn

-----------------------------------------------------------------------------
(* The refinement                                                          *)

Owners ==
    \A a \in Address :
        /\ OwnerOf(a) \in User \cup {NoUser}
        /\ \A u \in User : OwnerOf(a) = u <=> Exists(u) /\ account[u].email.address = a

\* An address has one stored spelling.
LEMMA PlainAreSame ==
    ASSUME NEW e \in Spelling, NEW f \in Spelling, e.form = "plain", f.form = "plain",
           e.address = f.address
    PROVE  SameAddress(e, f)
<1>1. e = f
  BY DEF Spelling
<1> QED BY <1>1 DEF SameAddress

\* The owner the refinement chooses is the only candidate there is.
LEMMA OwnerIsTheOwner == IInv => Owners
<1> SUFFICES ASSUME IInv, NEW a \in Address
             PROVE  /\ OwnerOf(a) \in User \cup {NoUser}
                    /\ \A u \in User : OwnerOf(a) = u <=>
                          Exists(u) /\ account[u].email.address = a
    BY DEF Owners
<1> DEFINE Has(u) == Exists(u) /\ account[u].email.address = a
<1>1. \A u, v \in User : Has(u) /\ Has(v) => u = v
  BY DEF IInv, PlainEmails, OneOwner, SameAddress, Lower, Spelling
<1>2. CASE \E u \in User : Has(u)
  <2>1. OwnerOf(a) = CHOOSE u \in User : Has(u)
    BY <1>2 DEF OwnerOf
  <2>2. OwnerOf(a) \in User /\ Has(OwnerOf(a))
    BY <1>2, <2>1
  <2> QED BY <1>1, <2>2
<1>3. CASE ~ \E u \in User : Has(u)
  <2>1. OwnerOf(a) = NoUser
    BY <1>3 DEF OwnerOf
  <2> QED BY <1>3, <2>1, AccountsAssumption
<1> QED BY <1>2, <1>3

Holders ==
    \A n \in Number :
        /\ UserOf(n) \in User \cup {NoUser}
        /\ \A u \in User : UserOf(n) = u <=>
              \E l \in Link : Linked(l) /\ link[l].number = n /\ link[l].user = u

\* A number has one owner at most, so UserOf has no choice.
LEMMA HolderIsTheHolder == IInv => Holders
<1> SUFFICES ASSUME IInv, NEW n \in Number
             PROVE  /\ UserOf(n) \in User \cup {NoUser}
                    /\ \A u \in User : UserOf(n) = u <=>
                          \E l \in Link : /\ Linked(l) /\ link[l].number = n
                                          /\ link[l].user = u
    BY DEF Holders
<1> DEFINE Has(l) == Linked(l) /\ link[l].number = n
<1>1. \A l, m \in Link : Has(l) /\ Has(m) => l = m
  BY DEF IInv, OneOwner
<1>2. \A l \in Link : Has(l) => link[l].user \in User
  BY DEF IInv, TypeOK, Linked
<1>3. CASE \E l \in Link : Has(l)
  <2> DEFINE l == CHOOSE k \in Link : Has(k)
  <2>1. UserOf(n) = link[l].user
    BY <1>3 DEF UserOf
  <2>2. l \in Link /\ Has(l)
    BY <1>3
  <2> QED BY <1>1, <1>2, <2>1, <2>2
<1>4. CASE ~ \E l \in Link : Has(l)
  <2>1. UserOf(n) = NoUser
    BY <1>4 DEF UserOf
  <2> QED BY <1>4, <2>1, AccountsAssumption
<1> QED BY <1>3, <1>4

owners == [a \in Address |-> OwnerOf(a)]
holders == [n \in Number |-> UserOf(n)]

\* What the two registries see of a step, apart from the three that write keys.
LEMMA KeysUnmoved ==
    ASSUME IInv, [Next]_vars, \A u \in User : ~ DeleteUser(u),
           \A p \in Request, u \in User : ~ CommitUser(p, u)
    PROVE  \A u \in User : /\ account'[u].state = account[u].state
                           /\ account'[u].email = account[u].email
<1>1. ASSUME NEW p \in Request, Update(p)
      PROVE  \A u \in User : /\ account'[u].state = account[u].state
                             /\ account'[u].email = account[u].email
  <2> DEFINE w == req[p].user
  <2>1. CASE Exists(w)
    <3>1. /\ w \in User /\ account[w] \in AccountType /\ req[p] \in ReqType
          /\ account' = [account EXCEPT ![w] = Patched(account[w], req[p])]
      BY <1>1, <2>1 DEF Update, Exists, IInv, TypeOK
    <3> QED BY <3>1, PatchedType DEF IInv, TypeOK
  <2>2. CASE ~ Exists(w)
    BY <1>1, <2>2 DEF Update
  <2> QED BY <2>1, <2>2
<1>2. CASE \A p \in Request : ~ Update(p)
  BY <1>2 DEF Next, vars, Arrive, Register, UpdateProfile, LinkWhatsAppNumber, Begin,
              Proceed, Fail, Deliver, InsertUser, Lookup, EnterUserIndex,
              EnterNumberIndex, CommitLink
<1> QED BY <1>1, <1>2

\* Every step is a step of the registry of addresses, or leaves it alone.
LEMMA AddressesStep ==
    ASSUME IInv, [Next]_vars, Owners, Owners'
    PROVE  [Addresses!Next]_<<owners, Deleted>>
<1> USE DEF Owners, owners
<1>1. ASSUME NEW p \in Request, NEW u \in User, CommitUser(p, u)
      PROVE  Addresses!Next
  <2> DEFINE a == req[p].email.address
  <2>1. /\ a \in Address /\ account[u].state = "none"
        /\ \A v \in User : Exists(v) => account[v].email.address # a
    <3>1. /\ req[p].email \in Spelling /\ req[p].email.form = "plain"
          /\ account[u].state = "none"
          /\ \A v \in User : Exists(v) => ~ SameAddress(req[p].email, account[v].email)
                                        /\ account[v].email \in Spelling
                                        /\ account[v].email.form = "plain"
      BY <1>1 DEF CommitUser, IInv, PlainEmails, Held, AddressHeld
    <3>2. ASSUME NEW v \in User, Exists(v) PROVE account[v].email.address # a
      BY <3>1, <3>2, PlainAreSame
    <3> QED BY <3>1, <3>2 DEF Spelling
  <2>2. /\ Exists(u)' /\ account'[u].email.address = a
        /\ \A v \in User \ {u} : account'[v] = account[v]
    BY <1>1 DEF CommitUser, Exists, IInv, TypeOK
  <2>3. owners[a] = NoUser /\ u \notin Deleted /\ \A b \in Address : owners[b] # u
    BY <2>1 DEF Deleted, Exists
  <2>4. Deleted' = Deleted
    BY <2>1, <2>2 DEF Deleted, Exists
  <2>5. owners' = [owners EXCEPT ![a] = u]
    <3>1. ASSUME NEW b \in Address PROVE OwnerOf(b)' = IF b = a THEN u ELSE OwnerOf(b)
      BY <2>1, <2>2, AccountsAssumption DEF Exists
    <3> QED BY <3>1, <2>1
  <2> QED BY <2>1, <2>3, <2>4, <2>5 DEF Addresses!Next, Addresses!Claim
<1>2. ASSUME NEW u \in User, DeleteUser(u) PROVE Addresses!Next
  <2>1. /\ Exists(u) /\ account'[u].state = "deleted"
        /\ \A v \in User \ {u} : account'[v] = account[v]
    BY <1>2 DEF DeleteUser, IInv, TypeOK, AccountType
  <2>2. u \notin Deleted /\ Deleted' = Deleted \cup {u}
    BY <2>1 DEF Deleted, Exists
  <2>3. owners' = [b \in Address |-> IF owners[b] = u THEN NoUser ELSE owners[b]]
    <3>1. ASSUME NEW b \in Address
          PROVE  OwnerOf(b)' = IF OwnerOf(b) = u THEN NoUser ELSE OwnerOf(b)
      BY <2>1, AccountsAssumption DEF Exists
    <3> QED BY <3>1
  <2> QED BY <2>2, <2>3 DEF Addresses!Next, Addresses!Delete
<1>3. CASE /\ \A u \in User : ~ DeleteUser(u)
           /\ \A p \in Request, u \in User : ~ CommitUser(p, u)
  <2>1. \A u \in User : /\ account'[u].state = account[u].state
                        /\ account'[u].email = account[u].email
    BY <1>3, KeysUnmoved
  <2>2. ASSUME NEW b \in Address PROVE OwnerOf(b)' = OwnerOf(b)
    BY <2>1, AccountsAssumption DEF Exists
  <2> QED BY <2>1, <2>2 DEF Deleted
<1> QED BY <1>1, <1>2, <1>3

\* Every step is a step of the registry of numbers, or leaves it alone.
LEMMA NumbersStep ==
    ASSUME IInv, [Next]_vars, Holders, Holders'
    PROVE  [Numbers!Next]_<<holders, Deleted>>
<1> USE DEF Holders, holders
<1>1. ASSUME NEW p \in Request, NEW l \in Link, CommitLink(p, l), Exists(req[p].user)
      PROVE  Numbers!Next
  <2> DEFINE u == req[p].user
             n == req[p].number
  <2>1. /\ n \in Number /\ u \in User /\ account[u].state = "stored" /\ ~ Linked(l)
        /\ \A m \in Link : Linked(m) => link[m].number # n /\ link[m].user # u
    BY <1>1 DEF CommitLink, Exists, Linked, IInv, NumbersKnown, Held, UserHeld, NumberHeld
  <2>2. /\ Linked(l)' /\ link'[l].user = u /\ link'[l].number = n
        /\ \A m \in Link \ {l} : link'[m] = link[m]
        /\ account' = account
    BY <1>1 DEF CommitLink, Linked, IInv, TypeOK
  <2>3. holders[n] = NoUser /\ u \notin Deleted /\ \A k \in Number : holders[k] # u
    BY <2>1 DEF Deleted
  <2>4. Deleted' = Deleted
    BY <2>2 DEF Deleted
  <2>5. holders' = [holders EXCEPT ![n] = u]
    <3>1. ASSUME NEW k \in Number PROVE UserOf(k)' = IF k = n THEN u ELSE UserOf(k)
      <4>1. CASE k = n
        BY <2>1, <2>2, <4>1
      <4>2. CASE k # n
        <5>1. \A m \in Link : Linked(m)' /\ link'[m].number = k <=>
                               Linked(m) /\ link[m].number = k
          BY <2>1, <2>2, <4>2 DEF Linked
        <5>2. \A v \in User : UserOf(k)' = v <=> UserOf(k) = v
          BY <2>1, <2>2, <4>2, <5>1
        <5> QED BY <4>2, <5>2, AccountsAssumption
      <4> QED BY <4>1, <4>2
    <3>2. n \in Number
      BY <2>1
    <3> HIDE DEF n, u
    <3> QED BY <3>1, <3>2
  <2> QED BY <2>1, <2>3, <2>4, <2>5 DEF Numbers!Next, Numbers!Claim
<1>2. ASSUME NEW u \in User, DeleteUser(u) PROVE Numbers!Next
  <2>1. /\ Exists(u) /\ account'[u].state = "deleted"
        /\ \A v \in User \ {u} : account'[v] = account[v]
    BY <1>2 DEF DeleteUser, IInv, TypeOK, AccountType
  <2>2. \A m \in Link : /\ Linked(m)' <=> Linked(m) /\ link[m].user # u
                        /\ link'[m].user = link[m].user
                        /\ link'[m].number = link[m].number
    BY <1>2 DEF DeleteUser, Linked, IInv, TypeOK, LinkType
  <2>3. u \notin Deleted /\ Deleted' = Deleted \cup {u}
    BY <2>1 DEF Deleted, Exists
  <2>4. holders' = [k \in Number |-> IF holders[k] = u THEN NoUser ELSE holders[k]]
    <3>1. ASSUME NEW k \in Number
          PROVE  UserOf(k)' = IF UserOf(k) = u THEN NoUser ELSE UserOf(k)
      <4>1. \A v \in User : UserOf(k)' = v <=> UserOf(k) = v /\ v # u
        BY <2>2
      <4> QED BY <4>1, AccountsAssumption
    <3> QED BY <3>1
  <2> QED BY <2>3, <2>4 DEF Numbers!Next, Numbers!Delete
<1>3. ASSUME NEW p \in Request, NEW u \in User, CommitUser(p, u)
      PROVE  UNCHANGED <<holders, Deleted>>
  <2>1. /\ link' = link /\ account[u].state = "none" /\ account'[u].state = "stored"
        /\ \A v \in User \ {u} : account'[v] = account[v]
    BY <1>3 DEF CommitUser, IInv, TypeOK
  <2>2. ASSUME NEW k \in Number PROVE UserOf(k)' = UserOf(k)
    BY <2>1 DEF UserOf, Linked
  <2> QED BY <2>1, <2>2 DEF Deleted
<1>4. CASE /\ \A u \in User : ~ DeleteUser(u)
           /\ \A p \in Request, u \in User : ~ CommitUser(p, u)
           /\ \A p \in Request, l \in Link : CommitLink(p, l) => ~ Exists(req[p].user)
  <2>1. \A u \in User : account'[u].state = account[u].state
    BY <1>4, KeysUnmoved
  <2>2. link' = link
    BY <1>4 DEF Next, vars, Arrive, Register, UpdateProfile, LinkWhatsAppNumber, Begin,
                Proceed, Fail, Deliver, InsertUser, Update, Lookup, EnterUserIndex,
                EnterNumberIndex, CommitLink
  <2>3. ASSUME NEW k \in Number PROVE UserOf(k)' = UserOf(k)
    BY <2>2 DEF UserOf, Linked
  <2> QED BY <2>1, <2>3 DEF Deleted
<1> QED BY <1>1, <1>2, <1>3, <1>4

\* Racing INSERTs, each of several steps, and the cascade are together an atomic
\* registry of addresses and one of numbers: no key ever changes hands while its
\* account exists.
THEOREM RefinesRegistry == Spec => ImplementsRegistry
<1>1. IInv => Owners
  BY OwnerIsTheOwner
<1>2. IInv => Holders
  BY HolderIsTheHolder
<1>3. Init => Addresses!Init /\ Numbers!Init
  <2> SUFFICES ASSUME Init PROVE Addresses!Init /\ Numbers!Init OBVIOUS
  <2>1. Deleted = {}
    BY DEF Init, Deleted, NoAccount
  <2>2. \A a \in Address : OwnerOf(a) = NoUser
    BY DEF Init, OwnerOf, Exists, NoAccount
  <2>3. \A n \in Number : UserOf(n) = NoUser
    BY DEF Init, UserOf, Linked, NoLink
  <2> QED BY <2>1, <2>2, <2>3 DEF Addresses!Init, Numbers!Init
<1>4. IInv /\ [Next]_vars /\ Owners /\ Owners' =>
        [Addresses!Next]_<<[a \in Address |-> OwnerOf(a)], Deleted>>
  BY AddressesStep DEF owners
<1>5. IInv /\ [Next]_vars /\ Holders /\ Holders' =>
        [Numbers!Next]_<<[n \in Number |-> UserOf(n)], Deleted>>
  BY NumbersStep DEF holders
<1> QED BY AlwaysIInv, <1>1, <1>2, <1>3, <1>4, <1>5, PTL
        DEF Spec, ImplementsRegistry, Addresses!Spec, Numbers!Spec

=============================================================================
