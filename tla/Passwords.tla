----------------------------- MODULE Passwords -----------------------------
(***************************************************************************)
(* The password policy and the stored hashes of auth/password.go.  A       *)
(* password is what the code asks of it: its text, its length in           *)
(* characters and in bytes, and whether it is only white space.  Argon2id  *)
(* is taken as a function of everything it is given; salts and keys are    *)
(* their value and their length.                                           *)
(***************************************************************************)
EXTENDS Naturals

MinPasswordLength == 8
MaxPasswordLength == 128

\* Mutation: the cap that fits ASCII.
TooManyBytes(p) == p.bytes > MaxPasswordLength

\* What both Hash and Verify refuse to derive from.
TooCostly(p) == p.bytes > MaxPasswordLength * 4

\* The policy counts characters.
ValidatePassword(p) == ~p.blank /\ p.chars >= MinPasswordLength /\ p.chars <= MaxPasswordLength

\* The bounds on a Hasher's parameters, for new hashes and for stored ones.
Validate(h) ==
  /\ h.time \in 1..32
  /\ h.threads \in 1..16
  /\ h.memory \in 8 * h.threads..1024 * 1024
  /\ h.saltBytes \in 8..64
  /\ h.keyBytes \in 16..64

IDKey(text, salt, h) ==
  [text |-> text, salt |-> salt, time |-> h.time, memory |-> h.memory, threads |-> h.threads]

Refused == [ok |-> FALSE]
Ok(x) == [ok |-> TRUE, value |-> x]

\* The PHC string: the parameters travel with the salt and the key.
encodeHash(h, salt, key) ==
  [algorithm |-> "argon2id", version |-> 19, time |-> h.time, memory |-> h.memory,
   threads |-> h.threads, salt |-> salt, saltBytes |-> h.saltBytes,
   key |-> key, keyBytes |-> h.keyBytes]

\* The parameters of a stored hash, if this build may derive with them.
decodeHash(e) ==
  LET params == [time |-> e.time, memory |-> e.memory, threads |-> e.threads,
                 saltBytes |-> e.saltBytes, keyBytes |-> e.keyBytes]
  IN  IF e.algorithm = "argon2id" /\ e.version = 19 /\ Validate(params)
      THEN Ok(params) ELSE Refused

Hash(h, p, salt) ==
  IF Validate(h) /\ ~TooCostly(p) THEN Ok(encodeHash(h, salt, IDKey(p.text, salt, h))) ELSE Refused

\* "error" is a stored hash that cannot be used; the receiver's own parameters
\* play no part.
Verify(e, p) ==
  LET params == decodeHash(e)
  IN  CASE ~params.ok -> "error"
        [] params.ok /\ TooCostly(p) -> "wrong"
        [] params.ok /\ ~TooCostly(p) ->
             IF IDKey(p.text, e.salt, params.value) = e.key THEN "match" ELSE "wrong"
=============================================================================
