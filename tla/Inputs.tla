------------------------------- MODULE Inputs -------------------------------
(***************************************************************************)
(* What people type and the service must recognise again: the password of  *)
(* an account, whose hash is written under one release and read under      *)
(* another, and the phone numbers of several accounts, which their owners  *)
(* write as they like and the WhatsApp webhook presents in one form.  One  *)
(* step is one call of the service; races between calls are the matter of  *)
(* Accounts.                                                               *)
(***************************************************************************)
EXTENDS Naturals, Sequences

CONSTANTS
  Password,   \* the passwords people choose: text, chars, bytes, blank
  Hasher,     \* the parameters releases derive new hashes with
  User,       \* the accounts that link a number
  Number,     \* the numbers people have: <<country code, the digits after it>>
  Position,   \* where in a written number a separator or a wrong character stands
  NoHash, NoNumber

\* A text has one length in characters and one in bytes, and UTF-8 takes at most
\* four bytes a character.
ASSUME PasswordAssumption ==
  /\ \A p \in Password : p.chars \in Nat /\ p.bytes \in Nat /\ p.bytes <= 4 * p.chars
  /\ \A p, q \in Password : p.text = q.text => p = q

P == INSTANCE Passwords
W == INSTANCE Phone

VARIABLES
  hasher,     \* the parameters of the running release
  hash,       \* users.password_hash of an account, or NoHash
  chosen,     \* history: the password that account was registered with
  link,       \* whatsapp_accounts.phone_number of each account, or NoNumber
  owns,       \* history: the number its owner meant
  answer      \* the answer to the last call, and history: whether the input earned it

vars == <<hasher, hash, chosen, link, owns, answer>>

-----------------------------------------------------------------------------
(* How a number is written.                                                *)

Canonical(n) == n[1] \o n[2]

\* E.164: no country code begins with a zero or with another one, and in the
\* country whose trunk prefix is "0" no number begins with that.
ASSUME NumberAssumption ==
  /\ \A n \in Number :
       /\ n[1] \in Seq(W!Digit) \ {<<>>} /\ n[2] \in Seq(W!Digit) \ {<<>>}
       /\ n[1][1] # "0"
       /\ n[1] = W!DefaultCountryCode => n[2][1] # "0"
  /\ \A m, n \in Number : Canonical(m) = Canonical(n) => m = n
  /\ NoNumber \notin Number \union {Canonical(n) : n \in Number}

Written(n) ==
  {Canonical(n), <<"+">> \o Canonical(n), <<"0", "0">> \o Canonical(n)}
    \union IF n[1] = W!DefaultCountryCode THEN {<<"0">> \o n[2]} ELSE {}

\* With white space around it, or a separator after one of its characters.
Spaced(s) ==
  {s, <<W!Space>> \o s \o <<W!Space, W!Space>>}
    \union {W!InsertAt(s, i, c) : i \in Position \intersect 2..(Len(s) + 1), c \in W!Separators}

\* With a character that is no part of a number, or a "+" that is not the first.
Mistyped(s) ==
  {[s EXCEPT ![i] = c] : i \in (Position \intersect 2..Len(s)) \union {Len(s)}, c \in {"x", "+"}}

\* A number of another length than E.164 allows cannot be linked.
Dialable(n) == Len(Canonical(n)) \in 7..15

-----------------------------------------------------------------------------
Init ==
  /\ hasher \in {h \in Hasher : P!Validate(h)}
  /\ hash = NoHash /\ chosen = NoHash
  /\ link = [u \in User |-> NoNumber] /\ owns = link
  /\ answer = [what |-> "none", earned |-> TRUE]

Answer(what, earned) == answer' = [what |-> what, earned |-> earned]

\* The next release may derive with other parameters, also with bad ones.
Release ==
  /\ hasher' \in Hasher \ {hasher}
  /\ Answer("none", TRUE)
  /\ UNCHANGED <<hash, chosen, link, owns>>

\* Register: the policy, then the hash.
Register(p) ==
  /\ hash = NoHash
  /\ LET new == P!Hash(hasher, p, "salt")
     IN  IF ~P!ValidatePassword(p)
         THEN Answer("bad password", TRUE) /\ UNCHANGED <<hash, chosen>>
         ELSE IF ~new.ok
         THEN Answer("no hash", ~P!Validate(hasher)) /\ UNCHANGED <<hash, chosen>>
         ELSE Answer("registered", TRUE) /\ hash' = new.value /\ chosen' = p
  /\ UNCHANGED <<hasher, link, owns>>

\* LinkWhatsAppNumber: u writes the number n as s; the table's unique index
\* compares what is stored.
Link(u, n, s, right) ==
  /\ link[u] = NoNumber
  /\ LET number == W!NormalizePhoneNumber(s)
     IN  IF number = W!Invalid
         THEN Answer("bad number", ~right \/ ~Dialable(n)) /\ UNCHANGED <<link, owns>>
         ELSE IF \E v \in User : link[v] = number
         THEN Answer("number taken", \E v \in User : owns[v] = n) /\ UNCHANGED <<link, owns>>
         ELSE /\ Answer("linked", right /\ ~\E v \in User : owns[v] = n)
              /\ link' = [link EXCEPT ![u] = number] /\ owns' = [owns EXCEPT ![u] = n]
  /\ UNCHANGED <<hasher, hash, chosen>>

Next ==
  \/ Release
  \/ \E p \in Password : Register(p)
  \/ \E u \in User, n \in Number : \E w \in Written(n) :
       \/ \E s \in Spaced(w) : Link(u, n, s, TRUE)
       \/ \E s \in Mistyped(w) : Link(u, n, s, FALSE)

Spec == Init /\ [][Next]_vars

-----------------------------------------------------------------------------
\* An account that could be registered can be logged in to with its password and
\* no other, whatever was released since.  The policy counts characters while
\* Hash and Verify count bytes, and Hash checks its parameters before it writes
\* and Verify after it reads: where two of them disagreed, the boundary cases
\* would be refused at registration without cause, or locked out after it.
AcceptedCanLogin ==
  /\ answer.what = "no hash" => answer.earned
  /\ hash # NoHash =>
       \A p \in Password : P!Verify(hash, p) = IF p.text = chosen.text THEN "match" ELSE "wrong"

\* However an owner writes a number, what is stored is the form the webhook
\* presents, so that an inbound message finds the account; a number is not linked
\* twice in two spellings; and one mistyped, too short or too long is refused,
\* while nothing else is.
SpellingsMeet ==
  /\ \A u \in User : link[u] # NoNumber => link[u] = Canonical(owns[u])
  /\ answer.what \in {"bad number", "number taken", "linked"} => answer.earned
=============================================================================
