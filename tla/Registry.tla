------------------------------ MODULE Registry ------------------------------
(***************************************************************************)
(* What the schema promises of login addresses and of WhatsApp numbers: a  *)
(* key has one owner and an owner one key, the owner keeps it as long as   *)
(* the account exists, and an account that is deleted does not come back.  *)
(***************************************************************************)
CONSTANTS Key, User, NoUser

VARIABLES
    owner,  \* whose a key is
    gone    \* the deleted accounts

Init == owner = [k \in Key |-> NoUser] /\ gone = {}

Claim(k, u) ==
    /\ owner[k] = NoUser
    /\ u \notin gone
    /\ \A j \in Key : owner[j] # u
    /\ owner' = [owner EXCEPT ![k] = u]
    /\ UNCHANGED gone

Delete(u) ==
    /\ u \notin gone
    /\ gone' = gone \cup {u}
    /\ owner' = [k \in Key |-> IF owner[k] = u THEN NoUser ELSE owner[k]]

Next == \E u \in User : Delete(u) \/ \E k \in Key : Claim(k, u)

Spec == Init /\ [][Next]_<<owner, gone>>

=============================================================================
