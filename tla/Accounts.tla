------------------------------ MODULE Accounts ------------------------------
(***************************************************************************)
(* Accounts and the numbers linked to them: Register of auth/service.go,   *)
(* UpdateProfile and LinkWhatsAppNumber of user/service.go, over the       *)
(* tables users and whatsapp_accounts and their unique constraints.        *)
(*                                                                         *)
(* An INSERT enters its row into one unique index after the other.  It     *)
(* fails on a committed row with the same key and waits for the end of a   *)
(* transaction whose uncommitted row has it; so a request in the midst of  *)
(* an INSERT holds the keys it has entered until it commits or fails.      *)
(* Input the validators refuse is answered before any call, and does not   *)
(* appear here.                                                            *)
(***************************************************************************)
EXTENDS Naturals

CONSTANTS
    User,      \* account ids, each drawn at most once
    Link,      \* ids of whatsapp_accounts, each drawn at most once
    Address,   \* e-mail addresses
    Number,    \* phone numbers in canonical form
    Value,     \* display names, and timezones
    Request,   \* requests that can be in flight at once
    NoUser, NoAddress, NoNumber, NoValue

ASSUME AccountsAssumption ==
    /\ NoUser \notin User /\ NoAddress \notin Address
    /\ NoNumber \notin Number /\ NoValue \notin Value

VARIABLES
    account,  \* the users table
    link,     \* the whatsapp_accounts table
    pc,       \* where each request is
    req       \* its local variables

vars == <<account, link, pc, req>>

\* How an address can be written: as stored, in other letter case, or padded.
Spelling == [address : Address, form : {"plain", "upper", "padded"}]

\* Mutation: the address is lower-cased but not trimmed.
LowerOnly(e) == IF e.form = "upper" THEN [e EXCEPT !.form = "plain"] ELSE e
NormalizeEmail(e) == [e EXCEPT !.form = "plain"]

\* The expression of users_email_unique and of GetByEmail's WHERE.
Lower(e) == IF e.form = "upper" THEN [e EXCEPT !.form = "plain"] ELSE e

NoEmail == [address |-> NoAddress, form |-> "plain"]

AccountType == [state : {"none", "stored", "deleted"}, email : Spelling \cup {NoEmail},
                name : Value \cup {NoValue}, timezone : Value \cup {NoValue}]

\* gone: the row was deleted with its account.
LinkType == [state : {"none", "stored", "gone"},
             user : User \cup {NoUser}, number : Number \cup {NoNumber}]

NoAccount == [state |-> "none", email |-> NoEmail,
              name |-> NoValue, timezone |-> NoValue]
NoLink == [state |-> "none", user |-> NoUser, number |-> NoNumber]

ReqType == [user : User \cup {NoUser}, email : Spelling \cup {NoEmail},
            number : Number \cup {NoNumber},
            name : Value \cup {NoValue}, timezone : Value \cup {NoValue},
            answer : {"none", "created", "emailTaken", "updated", "notFound",
                      "linked", "alreadyLinked", "numberTaken", "internal"}]

NoReq == [user |-> NoUser, email |-> NoEmail, number |-> NoNumber,
          name |-> NoValue, timezone |-> NoValue, answer |-> "none"]

TypeOK ==
    /\ account \in [User -> AccountType]
    /\ link \in [Link -> LinkType]
    /\ pc \in [Request -> {"idle", "insertUser", "commitUser", "update", "lookup",
                           "linkUser", "linkNumber", "linkCommit", "answer"}]
    /\ req \in [Request -> ReqType]
    /\ \A l \in Link : link[l].state = "stored" =>
          link[l].user \in User /\ account[link[l].user].state = "stored"

Init ==
    /\ account = [u \in User |-> NoAccount]
    /\ link = [l \in Link |-> NoLink]
    /\ pc = [p \in Request |-> "idle"]
    /\ req = [p \in Request |-> NoReq]

-----------------------------------------------------------------------------

Exists(u) == u \in User /\ account[u].state = "stored"
Linked(l) == link[l].state = "stored"

Goto(p, s) == pc' = [pc EXCEPT ![p] = s] /\ UNCHANGED req

Answer(p, a) ==
    /\ pc' = [pc EXCEPT ![p] = "answer"]
    /\ req' = [req EXCEPT ![p] = [@ EXCEPT !.answer = a]]

Begin(p, s, r) ==
    /\ pc[p] = "idle"
    /\ pc' = [pc EXCEPT ![p] = s]
    /\ req' = [req EXCEPT ![p] = r]
    /\ UNCHANGED <<account, link>>

\* Validate has normalised the address when the password is hashed.
Register(p, e, name, timezone) ==
    Begin(p, "insertUser", [NoReq EXCEPT !.email = NormalizeEmail(e),
                                         !.name = name, !.timezone = timezone])

\* NoValue for a field the client leaves out; both left out is refused.
UpdateProfile(p, u, name, timezone) ==
    /\ name # NoValue \/ timezone # NoValue
    /\ Begin(p, "update", [NoReq EXCEPT !.user = u, !.name = name,
                                        !.timezone = timezone])

LinkWhatsAppNumber(p, u, n) ==
    Begin(p, "lookup", [NoReq EXCEPT !.user = u, !.number = n])

-----------------------------------------------------------------------------
(* Register                                                                *)

SameAddress(e, f) == Lower(e) = Lower(f)

\* The row's entry into users_email_unique.
InsertUser(p) ==
    LET e == req[p].email IN
    /\ pc[p] = "insertUser"
    /\ \A q \in Request \ {p} : pc[q] = "commitUser" => ~ SameAddress(e, req[q].email)
    /\ IF \E u \in User : Exists(u) /\ SameAddress(e, account[u].email)
       THEN Answer(p, "emailTaken")
       ELSE Goto(p, "commitUser")
    /\ UNCHANGED <<account, link>>

CommitUser(p, u) ==
    /\ pc[p] = "commitUser"
    /\ account[u].state = "none"
    /\ account' = [account EXCEPT ![u] =
          [state |-> "stored", email |-> req[p].email,
           name |-> req[p].name, timezone |-> req[p].timezone]]
    /\ Answer(p, "created")
    /\ UNCHANGED link

-----------------------------------------------------------------------------
(* UpdateProfile                                                           *)

Coalesce(new, old) == IF new = NoValue THEN old ELSE new

\* What the UPDATE makes of a row: only the fields the client sent are written.
Patched(a, r) ==
    [a EXCEPT !.name = Coalesce(r.name, a.name),
              !.timezone = Coalesce(r.timezone, a.timezone)]

\* Mutation: the row is written for everybody.
UpdateAll(p) ==
    /\ pc[p] = "update"
    /\ account' = [u \in User |-> Patched(account[u], req[p])]
    /\ Answer(p, IF Exists(req[p].user) THEN "updated" ELSE "notFound")
    /\ UNCHANGED link

\* One UPDATE; what it keeps is what the row holds when it is written.
Update(p) ==
    LET u == req[p].user IN
    /\ pc[p] = "update"
    /\ IF Exists(u)
       THEN /\ account' = [account EXCEPT ![u] = Patched(account[u], req[p])]
            /\ Answer(p, "updated")
       ELSE Answer(p, "notFound") /\ UNCHANGED account
    /\ UNCHANGED link

-----------------------------------------------------------------------------
(* LinkWhatsAppNumber                                                      *)

\* GetByID.
Lookup(p) ==
    /\ pc[p] = "lookup"
    /\ IF Exists(req[p].user) THEN Goto(p, "linkUser") ELSE Answer(p, "notFound")
    /\ UNCHANGED <<account, link>>

\* Mutation: the table has no whatsapp_accounts_one_per_user.
EnterNoUserIndex(p) ==
    /\ pc[p] = "linkUser"
    /\ Goto(p, "linkNumber")
    /\ UNCHANGED <<account, link>>

\* The row's entry into whatsapp_accounts_one_per_user, the index made first.
EnterUserIndex(p) ==
    LET u == req[p].user IN
    /\ pc[p] = "linkUser"
    /\ \A q \in Request \ {p} :
          pc[q] \in {"linkNumber", "linkCommit"} => req[q].user # u
    /\ IF \E l \in Link : Linked(l) /\ link[l].user = u
       THEN Answer(p, "alreadyLinked")
       ELSE Goto(p, "linkNumber")
    /\ UNCHANGED <<account, link>>

\* Mutation: the taken number is looked for first, and no index holds it.
EnterNumberUnguarded(p) ==
    LET n == req[p].number IN
    /\ pc[p] = "linkNumber"
    /\ IF \E l \in Link : Linked(l) /\ link[l].number = n
       THEN Answer(p, "numberTaken")
       ELSE Goto(p, "linkCommit")
    /\ UNCHANGED <<account, link>>

\* Its entry into whatsapp_accounts_phone_unique.
EnterNumberIndex(p) ==
    LET n == req[p].number IN
    /\ pc[p] = "linkNumber"
    /\ \A q \in Request \ {p} : pc[q] = "linkCommit" => req[q].number # n
    /\ IF \E l \in Link : Linked(l) /\ link[l].number = n
       THEN Answer(p, "numberTaken")
       ELSE Goto(p, "linkCommit")
    /\ UNCHANGED <<account, link>>

\* Mutation: the foreign key is not declared.
CommitLinkUnchecked(p, l) ==
    /\ pc[p] = "linkCommit"
    /\ link[l].state = "none"
    /\ link' = [link EXCEPT ![l] =
          [state |-> "stored", user |-> req[p].user, number |-> req[p].number]]
    /\ Answer(p, "linked")
    /\ UNCHANGED account

\* The foreign key is checked at the end of the statement, which locks the account
\* until the COMMIT that follows.
CommitLink(p, l) ==
    /\ pc[p] = "linkCommit"
    /\ link[l].state = "none"
    /\ IF Exists(req[p].user)
       THEN /\ link' = [link EXCEPT ![l] =
                  [state |-> "stored", user |-> req[p].user,
                   number |-> req[p].number]]
            /\ Answer(p, "linked")
       ELSE Answer(p, "internal") /\ UNCHANGED link
    /\ UNCHANGED account

-----------------------------------------------------------------------------

Deliver(p) ==
    /\ pc[p] = "answer"
    /\ pc' = [pc EXCEPT ![p] = "idle"]
    /\ req' = [req EXCEPT ![p] = NoReq]
    /\ UNCHANGED <<account, link>>

\* A call fails, its answer is lost or the process dies; an INSERT that has not
\* committed is undone and its index entries with it.
Fail(p) ==
    /\ pc[p] \notin {"idle", "answer"}
    /\ pc' = [pc EXCEPT ![p] = "idle"]
    /\ req' = [req EXCEPT ![p] = NoReq]
    /\ UNCHANGED <<account, link>>

\* An operator deletes an account; the cascade takes its number along.
DeleteUser(u) ==
    /\ Exists(u)
    /\ account' = [account EXCEPT ![u] = [@ EXCEPT !.state = "deleted"]]
    /\ link' = [l \in Link |-> IF Linked(l) /\ link[l].user = u
                               THEN [link[l] EXCEPT !.state = "gone"]
                               ELSE link[l]]
    /\ UNCHANGED <<pc, req>>

\* A token outlives its account: u may be deleted, but it once existed.
Arrive(p) ==
    \/ \E e \in Spelling, v \in Value : Register(p, e, v, v)
    \/ \E u \in User :
          /\ account[u].state # "none"
          /\ \/ \E n, z \in Value \cup {NoValue} : UpdateProfile(p, u, n, z)
             \/ \E n \in Number : LinkWhatsAppNumber(p, u, n)

Proceed(p) ==
    \/ InsertUser(p) \/ (\E u \in User : CommitUser(p, u))
    \/ Update(p)
    \/ Lookup(p) \/ EnterUserIndex(p) \/ EnterNumberIndex(p)
    \/ \E l \in Link : CommitLink(p, l)
    \/ Deliver(p)

Next ==
    \/ \E p \in Request : Arrive(p) \/ Proceed(p) \/ Fail(p)
    \/ \E u \in User : DeleteUser(u)

Spec == Init /\ [][Next]_vars

-----------------------------------------------------------------------------
(* Properties                                                              *)

\* Whatever requests race, no two accounts have one address, no two links one
\* number, and no account two links.
OneOwner ==
    /\ \A u, v \in User : Exists(u) /\ Exists(v) /\ u # v =>
          ~ SameAddress(account[u].email, account[v].email)
    /\ \A l, m \in Link : Linked(l) /\ Linked(m) /\ l # m =>
          link[l].user # link[m].user /\ link[l].number # link[m].number

\* Login finds the account under every spelling of its address, and no other.
AddressFinds ==
    \A u \in User, e \in Spelling : Exists(u) /\ e.address = account[u].email.address =>
        {v \in User : Exists(v) /\ Lower(account[v].email) = NormalizeEmail(e)} = {u}

\* A refusal names its true reason: a number called taken is another account's, and
\* not the caller's own, which whatsapp/repository.go:22 says of ErrPhoneNumberTaken.
AnswersTrue ==
    [][ \A p \in Request : pc[p] # "answer" /\ pc'[p] = "answer" =>
          CASE req'[p].answer = "numberTaken" ->
                 \E l \in Link : /\ Linked(l) /\ link[l].number = req[p].number
                                 /\ link[l].user # req[p].user
            [] req'[p].answer = "alreadyLinked" ->
                 \E l \in Link : Linked(l) /\ link[l].user = req[p].user
            [] req'[p].answer = "emailTaken" ->
                 \E u \in User : /\ Exists(u)
                                 /\ account[u].email.address = req[p].email.address
            [] OTHER -> TRUE ]_vars

\* A field of a profile changes only for the account whose request carries it, and
\* becomes what that request says: PATCHes of different fields keep each other.
ProfileIsOwn ==
    [][ \A u \in User : Exists(u) /\ account'[u] # account[u] =>
          \/ account'[u] = [account[u] EXCEPT !.state = "deleted"]
          \/ \E p \in Request :
                /\ req[p].user = u
                /\ pc[p] = "update" /\ pc'[p] = "answer"
                /\ account'[u].email = account[u].email
                /\ account'[u].name = Coalesce(req[p].name, account[u].name)
                /\ account'[u].timezone =
                      Coalesce(req[p].timezone, account[u].timezone) ]_vars

OwnerOf(a) == IF \E u \in User : Exists(u) /\ account[u].email.address = a
              THEN CHOOSE u \in User : Exists(u) /\ account[u].email.address = a
              ELSE NoUser

UserOf(n) == IF \E l \in Link : Linked(l) /\ link[l].number = n
             THEN link[CHOOSE l \in Link : Linked(l) /\ link[l].number = n].user
             ELSE NoUser

Deleted == {u \in User : account[u].state = "deleted"}

Addresses == INSTANCE Registry WITH
    Key <- Address, owner <- [a \in Address |-> OwnerOf(a)], gone <- Deleted

Numbers == INSTANCE Registry WITH
    Key <- Number, owner <- [n \in Number |-> UserOf(n)], gone <- Deleted

\* Addresses and numbers are claimed atomically, kept, and freed only with their
\* account: a later request neither moves a number nor replaces a link.
ImplementsRegistry == Addresses!Spec /\ Numbers!Spec

=============================================================================
