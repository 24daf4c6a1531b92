--------------------------- MODULE Inputs_proofs ---------------------------
(***************************************************************************)
(* Theorems about Inputs, for all passwords, all parameters of hashers and *)
(* all phone numbers, and about NormalizePhoneNumber for all texts.        *)
(***************************************************************************)
EXTENDS Inputs, SequenceTheorems, WellFoundedInduction, TLAPS

-----------------------------------------------------------------------------
(* The inductive invariant.                                                *)

\* The stored hash can be read by any release and holds the key of the password
\* chosen, which Verify does not find too costly.
HashInv == hash # NoHash =>
  /\ chosen \in Password /\ ~P!TooCostly(chosen)
  /\ P!decodeHash(hash).ok
  /\ hash.key = P!IDKey(chosen.text, hash.salt, P!decodeHash(hash).value)

\* An account owns a number exactly when it stores its canonical form.
LinkInv ==
  /\ owns \in [User -> Number \union {NoNumber}]
  /\ link = [u \in User |-> IF owns[u] = NoNumber THEN NoNumber ELSE Canonical(owns[u])]

IInv == HashInv /\ LinkInv /\ answer.earned

-----------------------------------------------------------------------------
(* Hash and Verify agree.                                                  *)

\* Keys of different texts differ.
LEMMA KeysDiffer ==
  ASSUME NEW a, NEW b, NEW salt, NEW h
  PROVE  P!IDKey(a, salt, h) = P!IDKey(b, salt, h) <=> a = b
<1>1. P!IDKey(a, salt, h).text = a /\ P!IDKey(b, salt, h).text = b
  BY DEF P!IDKey
<1> QED BY <1>1 DEF P!IDKey

\* What Hash writes can be decoded, and gives back the parameters it was derived
\* with.
LEMMA HashDecodes ==
  ASSUME NEW h, NEW p, NEW salt, P!Hash(h, p, salt).ok
  PROVE  LET e == P!Hash(h, p, salt).value
         IN  /\ ~P!TooCostly(p)
             /\ P!decodeHash(e).ok
             /\ e.key = P!IDKey(p.text, e.salt, P!decodeHash(e).value)
<1> DEFINE key == P!IDKey(p.text, salt, h)
           e == P!encodeHash(h, salt, key)
           params == [time |-> e.time, memory |-> e.memory, threads |-> e.threads,
                      saltBytes |-> e.saltBytes, keyBytes |-> e.keyBytes]
<1>1. P!Validate(h) /\ ~P!TooCostly(p) /\ P!Hash(h, p, salt).value = e
  BY DEF P!Hash, P!Refused, P!Ok
<1>2. /\ e.algorithm = "argon2id" /\ e.version = 19 /\ e.salt = salt /\ e.key = key
      /\ e.time = h.time /\ e.memory = h.memory /\ e.threads = h.threads
      /\ e.saltBytes = h.saltBytes /\ e.keyBytes = h.keyBytes
  BY DEF P!encodeHash
<1> HIDE DEF e
<1>3. /\ params.time = h.time /\ params.memory = h.memory /\ params.threads = h.threads
      /\ params.saltBytes = h.saltBytes /\ params.keyBytes = h.keyBytes
  BY <1>2
<1> HIDE DEF params
<1>4. P!Validate(params)
  BY <1>1, <1>3 DEF P!Validate
<1>5. P!decodeHash(e) = P!Ok(params)
  BY <1>2, <1>4 DEF P!decodeHash, params
<1>6. P!decodeHash(e).ok /\ P!decodeHash(e).value = params
  BY <1>5 DEF P!Ok
<1>7. P!IDKey(p.text, salt, params) = key
  BY <1>3 DEF P!IDKey
<1> QED BY <1>1, <1>2, <1>6, <1>7

\* The policy is stricter than the cost ceiling.
LEMMA AcceptedIsAffordable ==
  ASSUME NEW p \in Password, P!ValidatePassword(p)
  PROVE  ~P!TooCostly(p)
BY PasswordAssumption DEF P!ValidatePassword, P!TooCostly, P!MaxPasswordLength, P!MinPasswordLength

-----------------------------------------------------------------------------
(* The digits of a text.  The loop of Digits is a recursive function; that *)
(* it exists and what it writes is shown at the first character that could *)
(* be wrong.                                                               *)

\* w is what the loop has written after each character of s.
Loop(s, w) ==
  w = [i \in 0..Len(s) |->
         IF i = 0 THEN <<>> ELSE IF s[i] \in W!Digit THEN Append(w[i - 1], s[i]) ELSE w[i - 1]]

\* A set of naturals that is not empty has a least element.
LEMMA LeastExists ==
  ASSUME NEW S \in SUBSET Nat, S # {}
  PROVE  \E n \in S : \A m \in S : n <= m
<1>1. PICK n \in S : \A m \in S : ~(<<m, n>> \in OpToRel(<, Nat))
  BY NatLessThanWellFounded, WFMin
<1>2. \A m \in S : ~(m < n)
  BY <1>1 DEF OpToRel
<1> QED BY <1>2

\* Induction on the end of a sequence.  The property is a set of sequences, which
\* a step can instantiate, and the proof is by the shortest beginning outside it.
LEMMA SequenceInduction ==
  ASSUME NEW S, NEW G, <<>> \in G,
         \A s \in Seq(S), c \in S : s \in G => Append(s, c) \in G
  PROVE  Seq(S) \subseteq G
<1> SUFFICES ASSUME NEW s \in Seq(S), s \notin G PROVE FALSE
  OBVIOUS
<1> DEFINE Bad == {n \in 0..Len(s) : SubSeq(s, 1, n) \notin G}
<1>1. Len(s) \in Nat /\ SubSeq(s, 1, Len(s)) = s /\ \A i \in 1..Len(s) : s[i] \in S
  BY LenProperties, SubSeqFull, ElementOfSeq
<1>2. PICK n \in Bad : \A m \in Bad : n <= m
  <2>1. Len(s) \in 0..Len(s)
    BY <1>1
  <2>2. Bad # {}
    BY <1>1, <2>1, Zenon
  <2>3. Bad \in SUBSET Nat
    BY <1>1
  <2> HIDE DEF Bad
  <2> QED BY <2>2, <2>3, LeastExists, Zenon
<1>3. n # 0
  <2>1. SubSeq(s, 1, 0) = <<>>
    BY SubSeqEmpty
  <2> QED BY <1>2, <2>1
<1> DEFINE p == SubSeq(s, 1, n - 1)
<1>4. n \in 1..Len(s) /\ n - 1 \in 0..Len(s) /\ n - 1 \notin Bad
  BY <1>1, <1>2, <1>3
<1>5. s[n] \in S /\ p \in Seq(S) /\ p \in G
  BY <1>1, <1>4, SubSeqProperties
<1>6. SubSeq(s, 1, n) = Append(p, s[n])
  BY <1>1, <1>4, <1>5, SubSeqRecursiveSecond, AppendIsConcat
<1> HIDE DEF p
<1> QED BY <1>2, <1>5, <1>6

\* The function that Digits defines satisfies its definition.
LEMMA DigitsIsLoop ==
  ASSUME NEW s, NEW v, Loop(s, v)
  PROVE  \E w : Loop(s, w) /\ W!Digits(s) = w[Len(s)]
<1> DEFINE d == CHOOSE w : Loop(s, w)
<1>1. Loop(s, d)
  BY Zenon
<1>2. W!Digits(s) = d[Len(s)]
  BY Zenon DEF W!Digits, Loop
<1> QED BY <1>1, <1>2, Zenon

\* The loop can be continued by one character.
LEMMA LoopStep ==
  ASSUME NEW S, NEW s \in Seq(S), NEW c \in S, NEW w, Loop(s, w)
  PROVE  \E v : /\ Loop(Append(s, c), v)
                /\ v[Len(s) + 1] = IF c \in W!Digit THEN Append(w[Len(s)], c) ELSE w[Len(s)]
<1> DEFINE t == Append(s, c)
           n == Len(s)
           last == IF c \in W!Digit THEN Append(w[n], c) ELSE w[n]
           v == [i \in 0..(n + 1) |-> IF i = n + 1 THEN last ELSE w[i]]
<1>1. n \in Nat /\ Len(t) = n + 1 /\ t[n + 1] = c /\ \A i \in 1..n : t[i] = s[i]
  BY AppendProperties, LenProperties
<1> HIDE DEF t
<1>2. \A i \in 0..n : w[i] = IF i = 0 THEN <<>>
                             ELSE IF s[i] \in W!Digit THEN Append(w[i - 1], s[i]) ELSE w[i - 1]
  BY DEF Loop
<1>3. v[n + 1] = last /\ \A i \in 0..n : v[i] = w[i]
  BY <1>1
<1>4. ASSUME NEW i \in 0..(n + 1)
      PROVE  v[i] = IF i = 0 THEN <<>>
                    ELSE IF t[i] \in W!Digit THEN Append(v[i - 1], t[i]) ELSE v[i - 1]
  <2>1. CASE i = n + 1
    <3>1. i # 0 /\ i - 1 = n /\ n \in 0..n /\ t[i] = c /\ v[i - 1] = w[n]
      BY <1>1, <1>3, <2>1
    <3> HIDE DEF v
    <3> QED BY <1>3, <2>1, <3>1
  <2>2. CASE i = 0
    <3> HIDE DEF v
    <3> QED BY <1>1, <1>2, <1>3, <2>2
  <2>3. CASE i \in 1..n
    <3>1. i \in 0..n /\ i - 1 \in 0..n /\ t[i] = s[i] /\ i # 0
      BY <1>1, <2>3
    <3> HIDE DEF v
    <3> QED BY <1>2, <1>3, <3>1
  <2> QED BY <1>1, <2>1, <2>2, <2>3
<1>5. Loop(t, v)
  <2>1. v = [i \in 0..Len(t) |-> v[i]]
    BY <1>1
  <2> HIDE DEF v
  <2> QED BY <1>1, <1>4, <2>1 DEF Loop
<1> QED BY <1>3, <1>5 DEF t

\* Every text has its loop.
LEMMA LoopExists ==
  ASSUME NEW S, NEW s \in Seq(S)
  PROVE  \E w : Loop(s, w)
<1> DEFINE G == {r \in Seq(S) : \E w : Loop(r, w)}
<1>1. <<>> \in G
  <2> DEFINE w == [i \in 0..0 |-> <<>>]
  <2>1. <<>> \in Seq(S) /\ Len(<<>>) = 0
    BY EmptySeq
  <2>2. Loop(<<>>, w)
    BY <2>1 DEF Loop
  <2> QED BY <2>1, <2>2
<1>2. ASSUME NEW r \in Seq(S), NEW c \in S, r \in G PROVE Append(r, c) \in G
  <2>1. PICK w : Loop(r, w)
    BY <1>2
  <2>2. \E v : Loop(Append(r, c), v)
    BY <2>1, LoopStep
  <2> QED BY <2>2, AppendProperties
<1> HIDE DEF G
<1>3. Seq(S) \subseteq G
  BY <1>1, <1>2, SequenceInduction, Zenon
<1> QED BY <1>3 DEF G

\* The loop is determined by the text.
LEMMA LoopUnique ==
  ASSUME NEW S, NEW s \in Seq(S), NEW v, NEW w, Loop(s, v), Loop(s, w)
  PROVE  v = w
<1> DEFINE Bad == {i \in 0..Len(s) : v[i] # w[i]}
<1>1. Len(s) \in Nat
  BY LenProperties
<1>2. CASE Bad = {}
  <2>1. \A i \in 0..Len(s) : v[i] = w[i]
    BY <1>2
  <2>2. v = [i \in 0..Len(s) |-> v[i]] /\ w = [i \in 0..Len(s) |-> w[i]]
    BY DEF Loop
  <2> QED BY <2>1, <2>2
<1>3. CASE Bad # {}
  <2>1. PICK n \in Bad : \A m \in Bad : n <= m
    <3>1. Bad \in SUBSET Nat
      BY <1>1
    <3> HIDE DEF Bad
    <3> QED BY <1>3, <3>1, LeastExists, Zenon
  <2>2. \A i \in 0..Len(s) :
          /\ v[i] = IF i = 0 THEN <<>> ELSE IF s[i] \in W!Digit THEN Append(v[i - 1], s[i]) ELSE v[i - 1]
          /\ w[i] = IF i = 0 THEN <<>> ELSE IF s[i] \in W!Digit THEN Append(w[i - 1], s[i]) ELSE w[i - 1]
    BY DEF Loop
  <2>3. n # 0 => v[n - 1] = w[n - 1]
    BY <1>1, <2>1
  <2> QED BY <2>1, <2>2, <2>3
<1> QED BY <1>2, <1>3

\* One character more.
LEMMA DigitsAppend ==
  ASSUME NEW S, NEW s \in Seq(S), NEW c \in S
  PROVE  W!Digits(Append(s, c)) =
           IF c \in W!Digit THEN Append(W!Digits(s), c) ELSE W!Digits(s)
<1>1. PICK w : Loop(s, w) /\ W!Digits(s) = w[Len(s)]
  BY LoopExists, DigitsIsLoop, Zenon
<1>2. PICK v : /\ Loop(Append(s, c), v)
               /\ v[Len(s) + 1] = IF c \in W!Digit THEN Append(w[Len(s)], c) ELSE w[Len(s)]
  BY <1>1, LoopStep
<1>3. Append(s, c) \in Seq(S) /\ Len(Append(s, c)) = Len(s) + 1
  BY AppendProperties
<1>4. PICK u : Loop(Append(s, c), u) /\ W!Digits(Append(s, c)) = u[Len(Append(s, c))]
  BY <1>2, DigitsIsLoop, Zenon
<1>5. u = v
  BY <1>2, <1>3, <1>4, LoopUnique, Zenon
<1> QED BY <1>1, <1>2, <1>3, <1>4, <1>5

\* No characters have no digits.
LEMMA DigitsEmpty == W!Digits(<<>>) = <<>>
<1>1. Len(<<>>) = 0 /\ <<>> \in Seq({})
  BY EmptySeq
<1>2. PICK w : Loop(<<>>, w) /\ W!Digits(<<>>) = w[Len(<<>>)]
  BY <1>1, LoopExists, DigitsIsLoop, Zenon
<1> QED BY <1>1, <1>2 DEF Loop

\* Digits writes digits only.
LEMMA DigitsType ==
  ASSUME NEW S, NEW s \in Seq(S)
  PROVE  W!Digits(s) \in Seq(W!Digit)
<1> DEFINE G == {r \in Seq(S) : W!Digits(r) \in Seq(W!Digit)}
<1>1. <<>> \in G
  BY DigitsEmpty, EmptySeq
<1>2. ASSUME NEW r \in Seq(S), NEW c \in S, r \in G PROVE Append(r, c) \in G
  <2>1. c \in W!Digit => Append(W!Digits(r), c) \in Seq(W!Digit)
    BY <1>2, AppendProperties
  <2> QED BY <1>2, <2>1, DigitsAppend, AppendProperties
<1> HIDE DEF G
<1>3. Seq(S) \subseteq G
  BY <1>1, <1>2, SequenceInduction, Zenon
<1> QED BY <1>3 DEF G

\* The digits of a text are those of its parts.
LEMMA DigitsConcat ==
  ASSUME NEW S, NEW s \in Seq(S), NEW t \in Seq(S)
  PROVE  W!Digits(s \o t) = W!Digits(s) \o W!Digits(t)
<1> DEFINE G == {r \in Seq(S) : W!Digits(s \o r) = W!Digits(s) \o W!Digits(r)}
           d == W!Digits(s)
<1>1. <<>> \in G
  <2>1. s \o <<>> = s /\ d \o <<>> = d
    BY DigitsType, ConcatEmptySeq
  <2> QED BY <2>1, DigitsEmpty, EmptySeq
<1>2. ASSUME NEW r \in Seq(S), NEW c \in S, r \in G PROVE Append(r, c) \in G
  <2> DEFINE e == W!Digits(r)
  <2>1. s \o Append(r, c) = Append(s \o r, c) /\ s \o r \in Seq(S) /\ Append(r, c) \in Seq(S)
    <3>1. <<c>> \in Seq(S) /\ Append(r, c) = r \o <<c>> /\ s \o r \in Seq(S)
      BY AppendIsConcat, ConcatProperties
    <3>2. Append(s \o r, c) = (s \o r) \o <<c>>
      BY <3>1, AppendIsConcat
    <3> QED BY <3>1, <3>2, ConcatAssociative, AppendProperties
  <2>2. d \in Seq(W!Digit) /\ e \in Seq(W!Digit) /\ W!Digits(s \o r) = d \o e
    BY <1>2, DigitsType
  <2>3. /\ W!Digits(Append(s \o r, c)) = IF c \in W!Digit THEN Append(d \o e, c) ELSE d \o e
        /\ W!Digits(Append(r, c)) = IF c \in W!Digit THEN Append(e, c) ELSE e
    BY <2>1, <2>2, DigitsAppend
  <2>4. c \in W!Digit => Append(d \o e, c) = d \o Append(e, c)
    <3> HAVE c \in W!Digit
    <3>1. <<c>> \in Seq(W!Digit) /\ Append(e, c) = e \o <<c>> /\ d \o e \in Seq(W!Digit)
      BY <2>2, AppendIsConcat, ConcatProperties
    <3>2. Append(d \o e, c) = (d \o e) \o <<c>>
      BY <3>1, AppendIsConcat
    <3> QED BY <2>2, <3>1, <3>2, ConcatAssociative
  <2> HIDE DEF d, e
  <2>5. W!Digits(s \o Append(r, c)) = d \o W!Digits(Append(r, c))
    BY <2>1, <2>3, <2>4
  <2> QED BY <2>1, <2>5 DEF d
<1> HIDE DEF G
<1>3. Seq(S) \subseteq G
  BY <1>1, <1>2, SequenceInduction, Zenon
<1> QED BY <1>3 DEF G

\* A text of digits is written as it is, and one without any leaves nothing.
LEMMA DigitsOfDigits ==
  ASSUME NEW s \in Seq(W!Digit)
  PROVE  W!Digits(s) = s
<1> DEFINE G == {r \in Seq(W!Digit) : W!Digits(r) = r}
<1>1. <<>> \in G
  BY DigitsEmpty, EmptySeq
<1>2. ASSUME NEW r \in Seq(W!Digit), NEW c \in W!Digit, r \in G PROVE Append(r, c) \in G
  BY <1>2, DigitsAppend, AppendProperties
<1> HIDE DEF G
<1>3. Seq(W!Digit) \subseteq G
  BY <1>1, <1>2, SequenceInduction, Zenon
<1> QED BY <1>3 DEF G

LEMMA DigitsOfNone ==
  ASSUME NEW S, S \intersect W!Digit = {}, NEW s \in Seq(S)
  PROVE  W!Digits(s) = <<>>
<1> DEFINE G == {r \in Seq(S) : W!Digits(r) = <<>>}
<1>1. <<>> \in G
  BY DigitsEmpty, EmptySeq
<1>2. ASSUME NEW r \in Seq(S), NEW c \in S, r \in G PROVE Append(r, c) \in G
  BY <1>2, DigitsAppend, AppendProperties
<1> HIDE DEF G
<1>3. Seq(S) \subseteq G
  BY <1>1, <1>2, SequenceInduction, Zenon
<1> QED BY <1>3 DEF G

-----------------------------------------------------------------------------
(* The ends of a text.                                                     *)

\* The characters of a text in three parts.
LEMMA ConcatThree ==
  ASSUME NEW S, NEW a \in Seq(S), NEW s \in Seq(S), NEW b \in Seq(S)
  PROVE  /\ Len(a) \in Nat /\ Len(s) \in Nat /\ Len(b) \in Nat
         /\ (a \o s) \o b \in Seq(S) /\ a \o s \in Seq(S)
         /\ Len((a \o s) \o b) = Len(a) + Len(s) + Len(b)
         /\ \A i \in 1..Len(a) : ((a \o s) \o b)[i] = a[i]
         /\ \A i \in 1..Len(s) : ((a \o s) \o b)[Len(a) + i] = s[i]
         /\ \A i \in 1..Len(b) : ((a \o s) \o b)[Len(a) + Len(s) + i] = b[i]
<1> DEFINE u == a \o s
           t == u \o b
<1>1. Len(a) \in Nat /\ Len(s) \in Nat /\ Len(b) \in Nat
  BY LenProperties
<1>2. /\ u \in Seq(S) /\ Len(u) = Len(a) + Len(s)
      /\ \A i \in 1..(Len(a) + Len(s)) : u[i] = IF i <= Len(a) THEN a[i] ELSE s[i - Len(a)]
  BY ConcatProperties
<1> HIDE DEF u
<1>3. /\ t \in Seq(S) /\ Len(t) = Len(u) + Len(b)
      /\ \A i \in 1..(Len(u) + Len(b)) : t[i] = IF i <= Len(u) THEN u[i] ELSE b[i - Len(u)]
  <2>1. u \in Seq(S)
    BY <1>2
  <2> QED BY <2>1, ConcatProperties
<1> HIDE DEF t
<1>4. \A i \in 1..Len(a) : t[i] = a[i]
  BY <1>1, <1>2, <1>3
<1>5. ASSUME NEW i \in 1..Len(s) PROVE t[Len(a) + i] = s[i]
  <2>1. /\ Len(a) + i \in 1..(Len(a) + Len(s)) /\ ~(Len(a) + i <= Len(a)) /\ Len(a) + i - Len(a) = i
        /\ Len(a) + i \in 1..(Len(u) + Len(b)) /\ Len(a) + i <= Len(u)
    BY <1>1, <1>2
  <2> QED BY <1>2, <1>3, <2>1
<1>6. ASSUME NEW i \in 1..Len(b) PROVE t[Len(a) + Len(s) + i] = b[i]
  <2> DEFINE j == Len(a) + Len(s) + i
  <2>1. j \in 1..(Len(u) + Len(b)) /\ ~(j <= Len(u)) /\ j - Len(u) = i
    BY <1>1, <1>2
  <2> HIDE DEF j
  <2>2. t[j] = b[i]
    BY <1>3, <2>1
  <2> QED BY <2>2 DEF j
<1>7. Len(t) = Len(a) + Len(s) + Len(b)
  BY <1>1, <1>2, <1>3
<1> QED BY <1>1, <1>2, <1>3, <1>4, <1>5, <1>6, <1>7, Zenon DEF t, u

\* What strings.TrimSpace returns: the text without the white space around it.
LEMMA TrimSpaceTrims ==
  ASSUME NEW S, NEW s \in Seq(S), s # <<>>, s[1] # W!Space, s[Len(s)] # W!Space,
         NEW a \in Seq({W!Space}), NEW b \in Seq({W!Space})
  PROVE  W!TrimSpace((a \o s) \o b) = s
<1> DEFINE T == S \union {W!Space}
           t == (a \o s) \o b
           m == Len(a)
           n == Len(s)
           k == Len(b)
           ink == {i \in DOMAIN t : t[i] # W!Space}
<1>1. a \in Seq(T) /\ b \in Seq(T) /\ s \in Seq(T)
  BY SeqMonotonic, Zenon
<1>2. m \in Nat /\ n \in Nat /\ k \in Nat /\ t \in Seq(T) /\ Len(t) = m + n + k
  BY <1>1, ConcatThree
<1>3. \A i \in 1..m : t[i] = a[i]
  BY <1>1, ConcatThree
<1>4. \A i \in 1..n : t[m + i] = s[i]
  BY <1>1, ConcatThree
<1>5. \A i \in 1..k : t[m + n + i] = b[i]
  BY <1>1, ConcatThree
<1>6. \A i \in 1..m : a[i] = W!Space
  <2> SUFFICES ASSUME NEW i \in 1..m PROVE a[i] \in {W!Space}
    OBVIOUS
  <2> QED BY ElementOfSeq, Zenon
<1>7. \A i \in 1..k : b[i] = W!Space
  <2> SUFFICES ASSUME NEW i \in 1..k PROVE b[i] \in {W!Space}
    OBVIOUS
  <2> QED BY ElementOfSeq, Zenon
<1>8. n >= 1
  BY EmptySeq
<1>9. s[n] # W!Space
  OBVIOUS
<1>10. DOMAIN t = 1..Len(t) /\ \A i \in 1..Len(t) : t[i] \in T
  BY <1>2, LenProperties, ElementOfSeq
<1> HIDE DEF t, m, n, k
<1>11. m + 1 \in ink /\ m + n \in ink
  <2>1. 1 \in 1..n /\ n \in 1..n /\ m + 1 \in 1..Len(t) /\ m + n \in 1..Len(t)
    BY <1>2, <1>8
  <2>2. t[m + 1] = s[1] /\ t[m + n] = s[n]
    BY <1>4, <2>1
  <2> QED BY <1>9, <1>10, <2>1, <2>2
<1>12. ASSUME NEW i \in ink PROVE i \in (m + 1)..(m + n)
  <2>1. i \in 1..(m + n + k) /\ t[i] # W!Space
    BY <1>2, <1>10
  <2>2. i \notin 1..m
    BY <1>3, <1>6, <2>1
  <2>3. CASE i > m + n
    <3>1. PICK j \in 1..k : i = m + n + j
      <4>1. i - (m + n) \in 1..k /\ i = m + n + (i - (m + n))
        BY <1>2, <2>1, <2>3
      <4> QED BY <4>1
    <3> QED BY <1>5, <1>7, <2>1, <3>1
  <2> QED BY <1>2, <2>1, <2>2, <2>3
<1> HIDE DEF ink
<1>13. W!Min(ink) = m + 1
  <2>1. \A y \in ink : m + 1 <= y
    BY <1>2, <1>12
  <2>2. \A x \in ink : (\A y \in ink : x <= y) => x = m + 1
    BY <1>2, <1>11, <1>12
  <2> QED BY <1>11, <2>1, <2>2 DEF W!Min
<1>14. W!Max(ink) = m + n
  <2>1. \A y \in ink : m + n >= y
    BY <1>2, <1>12
  <2>2. \A x \in ink : (\A y \in ink : x >= y) => x = m + n
    BY <1>2, <1>11, <1>12
  <2> QED BY <1>11, <2>1, <2>2 DEF W!Max
<1>15. SubSeq(t, m + 1, m + n) = s
  <2> DEFINE first == m + 1
             last == m + n
             u == SubSeq(t, first, last)
  <2>1. first <= last /\ first \in Int /\ last \in Int /\ last - first + 1 = n
    BY <1>2, <1>8
  <2>2. \A i \in first..last : t[i] \in T
    <3>1. first..last \subseteq 1..Len(t)
      BY <1>2
    <3> QED BY <1>10, <3>1
  <2>3. \A i \in 1..n : first + i - 1 = m + i
    BY <1>2
  <2> HIDE DEF first, last
  <2>4. /\ u \in Seq(T) /\ Len(u) = IF first <= last THEN last - first + 1 ELSE 0
        /\ \A i \in 1..(last - first + 1) : u[i] = t[first + i - 1]
    BY <2>1, <2>2, SubSeqProperties
  <2> HIDE DEF u
  <2>5. Len(u) = n /\ \A i \in 1..n : u[i] = s[i]
    BY <1>4, <2>1, <2>3, <2>4
  <2>6. u = s
    BY <1>1, <2>4, <2>5, SeqEqual DEF n
  <2> QED BY <2>6 DEF u, first, last
<1>16. ink # {} /\ W!TrimSpace(t) = IF ink = {} THEN <<>> ELSE SubSeq(t, W!Min(ink), W!Max(ink))
  BY <1>11 DEF W!TrimSpace, ink
<1> QED BY <1>13, <1>14, <1>15, <1>16 DEF t

\* A text without white space at its ends is left alone.
LEMMA TrimSpaceKeeps ==
  ASSUME NEW S, NEW s \in Seq(S), s # <<>>, s[1] # W!Space, s[Len(s)] # W!Space
  PROVE  W!TrimSpace(s) = s
<1>1. <<>> \in Seq({W!Space}) /\ (<<>> \o s) \o <<>> = s
  BY EmptySeq, ConcatEmptySeq
<1>2. W!TrimSpace((<<>> \o s) \o <<>>) = s
  BY <1>1, TrimSpaceTrims
<1> QED BY <1>1, <1>2

\* A prefix of one character, or of two, is those characters.
LEMMA PrefixIs ==
  ASSUME NEW S, NEW p \in Seq(S), NEW s \in Seq(S)
  PROVE  W!IsPrefix(p, s) <=> Len(p) <= Len(s) /\ \A i \in 1..Len(p) : p[i] = s[i]
<1> DEFINE v == SubSeq(s, 1, Len(p))
<1>1. Len(p) \in Nat /\ Len(s) \in Nat /\ SubSeq(p, 1, Len(p)) = p
  BY LenProperties, SubSeqFull
<1>2. W!IsPrefix(p, s) <=> Len(p) <= Len(s) /\ p = v
  BY <1>1 DEF W!IsPrefix
<1>3. ASSUME Len(p) <= Len(s)
      PROVE  v \in Seq(S) /\ Len(v) = Len(p) /\ \A i \in 1..Len(p) : v[i] = s[i]
  <2>1. 1 \in Int /\ Len(p) \in Int /\ \A i \in 1..Len(p) : s[i] \in S
    BY <1>1, <1>3, ElementOfSeq
  <2>2. /\ v \in Seq(S) /\ Len(v) = IF 1 <= Len(p) THEN Len(p) - 1 + 1 ELSE 0
        /\ \A i \in 1..(Len(p) - 1 + 1) : v[i] = s[1 + i - 1]
    BY <2>1, SubSeqProperties
  <2> HIDE DEF v
  <2> QED BY <1>1, <2>2
<1> HIDE DEF v
<1>4. Len(p) <= Len(s) => (p = v <=> \A i \in 1..Len(p) : p[i] = s[i])
  <2> HAVE Len(p) <= Len(s)
  <2>1. (\A i \in 1..Len(p) : p[i] = s[i]) => p = v
    BY <1>3, SeqEqual
  <2>2. p = v => \A i \in 1..Len(p) : p[i] = s[i]
    BY <1>3
  <2> QED BY <2>1, <2>2
<1> QED BY <1>2, <1>4

LEMMA PrefixOne ==
  ASSUME NEW S, NEW s \in Seq(S), NEW c \in S
  PROVE  W!IsPrefix(<<c>>, s) <=> s # <<>> /\ s[1] = c
<1>1. Len(s) \in Nat /\ (s # <<>> <=> Len(s) >= 1)
  BY EmptySeq, LenProperties
<1> DEFINE p == <<c>>
<1>2. p \in Seq(S) /\ Len(p) = 1 /\ p[1] = c
  OBVIOUS
<1> HIDE DEF p
<1>3. W!IsPrefix(p, s) <=> Len(p) <= Len(s) /\ \A i \in 1..Len(p) : p[i] = s[i]
  <2>1. p \in Seq(S)
    BY <1>2
  <2> QED BY <2>1, PrefixIs
<1>4. W!IsPrefix(p, s) <=> s # <<>> /\ s[1] = c
  BY <1>1, <1>2, <1>3
<1> QED BY <1>4 DEF p

LEMMA PrefixTwo ==
  ASSUME NEW S, NEW s \in Seq(S), NEW c \in S
  PROVE  W!IsPrefix(<<c, c>>, s) <=> Len(s) >= 2 /\ s[1] = c /\ s[2] = c
<1>1. Len(s) \in Nat
  BY LenProperties
<1> DEFINE p == <<c, c>>
<1>2. p \in Seq(S) /\ Len(p) = 2 /\ p[1] = c /\ p[2] = c
  OBVIOUS
<1> HIDE DEF p
<1>3. W!IsPrefix(p, s) <=> Len(p) <= Len(s) /\ \A i \in 1..Len(p) : p[i] = s[i]
  <2>1. p \in Seq(S)
    BY <1>2
  <2> QED BY <2>1, PrefixIs
<1>4. W!IsPrefix(p, s) <=> Len(s) >= 2 /\ s[1] = c /\ s[2] = c
  BY <1>1, <1>2, <1>3
<1> QED BY <1>4 DEF p

\* What follows a prefix.
LEMMA TrimPrefixTrims ==
  ASSUME NEW S, NEW p \in Seq(S), NEW r \in Seq(S)
  PROVE  W!TrimPrefix(p \o r, p) = r
<1> DEFINE t == p \o r
           m == Len(p)
           n == Len(r)
           u == SubSeq(t, m + 1, Len(t))
<1>1. /\ m \in Nat /\ n \in Nat /\ t \in Seq(S) /\ Len(t) = m + n
      /\ \A i \in 1..(m + n) : t[i] = IF i <= m THEN p[i] ELSE r[i - m]
  BY ConcatProperties, LenProperties
<1>2. \A i \in 1..Len(t) : t[i] \in S
  BY <1>1, ElementOfSeq
<1> HIDE DEF t, m, n
<1>3. /\ u \in Seq(S)
      /\ Len(u) = IF m + 1 <= Len(t) THEN Len(t) - (m + 1) + 1 ELSE 0
      /\ \A i \in 1..(Len(t) - (m + 1) + 1) : u[i] = t[m + 1 + i - 1]
  <2>1. m + 1 \in Int /\ Len(t) \in Int /\ \A i \in (m + 1)..Len(t) : t[i] \in S
    BY <1>1, <1>2
  <2> QED BY <2>1, SubSeqProperties
<1> HIDE DEF u
<1>4. Len(u) = n
  BY <1>1, <1>3
<1>5. ASSUME NEW i \in 1..n PROVE u[i] = r[i]
  <2>1. /\ i \in 1..(Len(t) - (m + 1) + 1) /\ m + 1 + i - 1 = m + i
        /\ m + i \in 1..(m + n) /\ ~(m + i <= m) /\ m + i - m = i
    BY <1>1
  <2> QED BY <1>1, <1>3, <2>1
<1>6. u = r
  BY <1>3, <1>4, <1>5, SeqEqual DEF n
<1> QED BY <1>6 DEF W!TrimPrefix, u, t, m
-----------------------------------------------------------------------------
(* What NormalizePhoneNumber makes of a text.                              *)

\* The characters of Phone.
Char == W!Digit \union W!Separators \union {"+", "x"}

\* The trimmed text has no other character, and a "+" in the first place only.
Understood(t) ==
  \A i \in 1..Len(t) : t[i] \in W!Digit \union W!Separators \/ (i = 1 /\ t[1] = "+")

\* The digits read after a trimmed text.
Reading(t) == IF t[1] = "+" THEN W!Digits(t) ELSE W!CountryCoded(W!Digits(t))

\* The classes of characters do not meet.
LEMMA CharClasses ==
  /\ W!Space \in W!Separators /\ W!Space \notin W!Digit /\ W!Space # "+" /\ W!Space # "x"
  /\ "0" \in W!Digit /\ "+" \notin W!Digit \union W!Separators /\ "x" \notin W!Digit \union W!Separators
  /\ W!Digit \intersect W!Separators = {}
  /\ W!Digit \subseteq Char /\ W!Separators \subseteq Char /\ "+" \in Char /\ "x" \in Char
<1>1. "+" \notin W!Digit \union W!Separators
  BY Zenon DEF W!Separators, W!Digit, W!Space
<1>2. "x" \notin W!Digit \union W!Separators
  BY Zenon DEF W!Separators, W!Digit, W!Space
<1>3. W!Space \notin W!Digit /\ "-" \notin W!Digit
  BY Zenon DEF W!Digit, W!Space
<1>4. W!Space # "+" /\ W!Space # "x"
  BY Zenon DEF W!Space
<1>5. "0" \in W!Digit
  BY Zenon DEF W!Digit
<1> QED BY <1>1, <1>2, <1>3, <1>4, <1>5 DEF Char, W!Separators

\* One character before a text of digits adds nothing when it is none.
LEMMA DigitsAfterPlus ==
  ASSUME NEW t \in Seq(Char), t # <<>>, t[1] = "+"
  PROVE  LET r == W!TrimPrefix(t, <<"+">>)
         IN  /\ r \in Seq(Char) /\ Len(r) = Len(t) - 1 /\ \A i \in 1..Len(r) : r[i] = t[i + 1]
             /\ W!Digits(r) = W!Digits(t)
<1> DEFINE p == <<"+">>
           r == SubSeq(t, 2, Len(t))
<1>1. p \in Seq(Char) /\ Len(p) = 1 /\ p[1] = "+" /\ p \in Seq({"+"})
  BY CharClasses
<1>2. Len(t) \in Nat /\ Len(t) >= 1 /\ \A i \in 1..Len(t) : t[i] \in Char
  BY LenProperties, EmptySeq, ElementOfSeq
<1>3. r \in Seq(Char) /\ Len(r) = Len(t) - 1 /\ \A i \in 1..Len(r) : r[i] = t[i + 1]
  <2>1. 2 \in Int /\ Len(t) \in Int /\ \A i \in 2..Len(t) : t[i] \in Char
    BY <1>2
  <2>2. r \in Seq(Char) /\ Len(r) = IF 2 <= Len(t) THEN Len(t) - 2 + 1 ELSE 0
    BY <2>1, SubSeqProperties
  <2>3. \A i \in 1..(Len(t) - 2 + 1) : r[i] = t[2 + i - 1]
    BY <2>1, SubSeqProperties
  <2> HIDE DEF r
  <2>4. Len(r) = Len(t) - 1 /\ Len(t) - 2 + 1 = Len(t) - 1
    <3> DEFINE n == Len(t)
    <3>1. n \in Nat /\ n >= 1 /\ Len(r) = IF 2 <= n THEN n - 2 + 1 ELSE 0
      BY <1>2, <2>2
    <3> HIDE DEF n
    <3>2. Len(r) = n - 1 /\ n - 2 + 1 = n - 1
      BY <3>1
    <3> QED BY <3>2 DEF n
  <2>5. \A i \in 1..Len(r) : 2 + i - 1 = i + 1
    OBVIOUS
  <2> QED BY <2>2, <2>3, <2>4, <2>5
<1>4. W!TrimPrefix(t, p) = r
  BY <1>1 DEF W!TrimPrefix
<1> HIDE DEF r, p
<1>5. p \o r = t
  <2>1. /\ p \o r \in Seq(Char) /\ Len(p \o r) = Len(p) + Len(r)
        /\ \A i \in 1..(Len(p) + Len(r)) : (p \o r)[i] = IF i <= Len(p) THEN p[i] ELSE r[i - Len(p)]
    <3>1. p \in Seq(Char) /\ r \in Seq(Char)
      BY <1>1, <1>3
    <3> QED BY <3>1, ConcatProperties
  <2>2. Len(p \o r) = Len(t)
    BY <1>1, <1>2, <1>3, <2>1
  <2>3. ASSUME NEW i \in 1..Len(t) PROVE (p \o r)[i] = t[i]
    <3>1. CASE i = 1
      BY <1>1, <1>2, <1>3, <2>1, <3>1
    <3>2. CASE i # 1
      <4>1. i - 1 \in 1..Len(r) /\ i - 1 + 1 = i /\ ~(i <= 1) /\ i \in 1..(Len(p) + Len(r))
        BY <1>1, <1>2, <1>3, <3>2
      <4> QED BY <1>1, <1>3, <2>1, <4>1
    <3> QED BY <3>1, <3>2
  <2> QED BY <2>1, <2>2, <2>3, SeqEqual
<1>6. W!Digits(p) = <<>>
  <2>1. {"+"} \intersect W!Digit = {}
    BY CharClasses
  <2> QED BY <1>1, <2>1, DigitsOfNone
<1>7. W!Digits(t) = W!Digits(r)
  <2>1. W!Digits(p \o r) = W!Digits(p) \o W!Digits(r) /\ W!Digits(r) \in Seq(W!Digit)
    BY <1>1, <1>3, DigitsConcat, DigitsType
  <2>2. <<>> \o W!Digits(r) = W!Digits(r)
    BY <2>1, ConcatEmptySeq
  <2> QED BY <1>5, <1>6, <2>1, <2>2
<1> QED BY <1>3, <1>4, <1>7, Zenon DEF p

\* The result depends on the trimmed text only.
LEMMA NormalizeReads ==
  ASSUME NEW raw, NEW t \in Seq(Char), t # <<>>, W!TrimSpace(raw) = t
  PROVE  W!NormalizePhoneNumber(raw) =
           IF Understood(t) /\ W!PhoneNumberPattern(Reading(t)) THEN Reading(t) ELSE W!Invalid
<1> DEFINE plus == W!IsPrefix(<<"+">>, t)
           rest == IF plus THEN W!TrimPrefix(t, <<"+">>) ELSE t
           number == IF plus THEN W!Digits(rest) ELSE W!CountryCoded(W!Digits(rest))
           accepted == \A i \in DOMAIN rest : rest[i] \in W!Digit \union W!Separators
<1>1. W!NormalizePhoneNumber(raw) =
        IF accepted /\ W!PhoneNumberPattern(number) THEN number ELSE W!Invalid
  BY Zenon DEF W!NormalizePhoneNumber
<1>2. plus <=> t[1] = "+"
  BY PrefixOne, CharClasses
<1>3. Len(t) \in Nat /\ Len(t) >= 1 /\ DOMAIN t = 1..Len(t)
  BY LenProperties, EmptySeq
<1>4. CASE t[1] = "+"
  <2> DEFINE r == W!TrimPrefix(t, <<"+">>)
  <2>1. /\ r \in Seq(Char) /\ Len(r) = Len(t) - 1 /\ \A i \in 1..Len(r) : r[i] = t[i + 1]
        /\ W!Digits(r) = W!Digits(t)
    BY <1>4, DigitsAfterPlus, Zenon
  <2>2. rest = r /\ number = Reading(t)
    BY <1>2, <1>4, <2>1, Zenon DEF Reading
  <2>3. DOMAIN r = 1..Len(r)
    BY <2>1, LenProperties
  <2> HIDE DEF r
  <2>4. Understood(t) <=> \A i \in DOMAIN r : r[i] \in W!Digit \union W!Separators
    <3>1. ASSUME Understood(t), NEW i \in DOMAIN r PROVE r[i] \in W!Digit \union W!Separators
      <4>1. i + 1 \in 1..Len(t) /\ i + 1 # 1 /\ r[i] = t[i + 1]
        BY <1>3, <2>1, <2>3
      <4> QED BY <3>1, <4>1 DEF Understood
    <3>2. ASSUME \A i \in DOMAIN r : r[i] \in W!Digit \union W!Separators,
                 NEW i \in 1..Len(t), i # 1
          PROVE  t[i] \in W!Digit \union W!Separators
      <4>1. i - 1 \in DOMAIN r /\ r[i - 1] = t[i - 1 + 1] /\ i - 1 + 1 = i
        BY <1>3, <2>1, <2>3, <3>2
      <4> QED BY <3>2, <4>1
    <3> QED BY <1>4, <3>1, <3>2 DEF Understood
  <2> QED BY <1>1, <2>2, <2>4, Zenon
<1>5. CASE t[1] # "+"
  <2>1. rest = t /\ number = Reading(t)
    BY <1>2, <1>5, Zenon DEF Reading
  <2>2. Understood(t) <=> accepted
    BY <1>3, <1>5, <2>1 DEF Understood
  <2> QED BY <1>1, <2>1, <2>2, Zenon
<1> QED BY <1>4, <1>5

\* Separators after the first character of a text change nothing in its reading.
LEMMA SeparatorsRead ==
  ASSUME NEW a \in Seq(Char), a # <<>>, NEW b \in Seq(Char), NEW m \in Seq(W!Separators)
  PROVE  LET t == (a \o m) \o b
             w == a \o b
         IN  /\ t \in Seq(Char) /\ t # <<>> /\ w \in Seq(Char) /\ w # <<>>
             /\ t[1] = a[1] /\ w[1] = a[1]
             /\ Understood(t) <=> Understood(w)
             /\ Reading(t) = Reading(w)
<1> DEFINE t == (a \o m) \o b
           w == a \o b
<1>1. m \in Seq(Char) /\ Len(m) \in Nat /\ \A i \in 1..Len(m) : m[i] \in W!Separators
  BY CharClasses, SeqMonotonic, LenProperties, ElementOfSeq
<1>2. Len(a) \in Nat /\ Len(b) \in Nat /\ Len(a) >= 1
  BY EmptySeq, LenProperties
<1>3. /\ t \in Seq(Char) /\ a \o m \in Seq(Char)
      /\ Len(t) = Len(a) + Len(m) + Len(b)
      /\ \A i \in 1..Len(a) : t[i] = a[i]
      /\ \A i \in 1..Len(m) : t[Len(a) + i] = m[i]
      /\ \A i \in 1..Len(b) : t[Len(a) + Len(m) + i] = b[i]
  BY <1>1, ConcatThree
<1>4. /\ w \in Seq(Char) /\ Len(w) = Len(a) + Len(b)
      /\ \A i \in 1..(Len(a) + Len(b)) : w[i] = IF i <= Len(a) THEN a[i] ELSE b[i - Len(a)]
  BY ConcatProperties
<1>5. W!Digits(t) = W!Digits(w)
  <2>1. W!Digits(m) = <<>>
    BY CharClasses, DigitsOfNone
  <2>2. W!Digits(a) \in Seq(W!Digit) /\ W!Digits(a) \o <<>> = W!Digits(a)
    BY DigitsType, ConcatEmptySeq
  <2>3. W!Digits(a \o m) = W!Digits(a)
    BY <1>1, <2>1, <2>2, DigitsConcat
  <2>4. W!Digits(t) = W!Digits(a \o m) \o W!Digits(b) /\ W!Digits(w) = W!Digits(a) \o W!Digits(b)
    BY <1>3, DigitsConcat
  <2> QED BY <2>3, <2>4
<1> HIDE DEF t, w
<1>6. t[1] = a[1] /\ w[1] = a[1] /\ Len(t) >= 1 /\ Len(w) >= 1
  <2>1. 1 \in 1..Len(a) /\ 1 \in 1..(Len(a) + Len(b)) /\ 1 <= Len(a)
    BY <1>2
  <2>2. Len(t) >= 1 /\ Len(w) >= 1
    BY <1>1, <1>2, <1>3, <1>4
  <2> QED BY <1>3, <1>4, <2>1, <2>2
<1>7. \A i \in 1..Len(b) : w[Len(a) + i] = b[i]
  <2> TAKE i \in 1..Len(b)
  <2> DEFINE j == Len(a) + i
  <2>1. j \in 1..(Len(a) + Len(b)) /\ ~(j <= Len(a)) /\ j - Len(a) = i
    BY <1>2
  <2> HIDE DEF j
  <2>2. w[j] = b[i]
    BY <1>4, <2>1
  <2> QED BY <2>2 DEF j
<1> DEFINE Fits(v, i) == v[i] \in W!Digit \union W!Separators \/ (i = 1 /\ v[1] = "+")
<1>8. ASSUME Understood(w), NEW i \in 1..Len(t) PROVE Fits(t, i)
  <2>1. CASE i \in 1..Len(a)
    <3>1. i \in 1..Len(w) /\ w[i] = a[i] /\ t[i] = a[i]
      BY <1>2, <1>3, <1>4, <2>1
    <3> QED BY <1>6, <1>8, <3>1 DEF Understood
  <2>2. CASE \E j \in 1..Len(m) : i = Len(a) + j
    BY <1>1, <1>3, <2>2
  <2>3. CASE \E j \in 1..Len(b) : i = Len(a) + Len(m) + j
    <3>1. PICK j \in 1..Len(b) : i = Len(a) + Len(m) + j
      BY <2>3
    <3>2. Len(a) + j \in 1..Len(w) /\ Len(a) + j # 1
      BY <1>2, <1>4
    <3>3. t[i] = w[Len(a) + j]
      BY <1>3, <1>7, <3>1
    <3> QED BY <1>8, <3>2, <3>3 DEF Understood
  <2>4. \/ i \in 1..Len(a)
        \/ i - Len(a) \in 1..Len(m) /\ i = Len(a) + (i - Len(a))
        \/ i - (Len(a) + Len(m)) \in 1..Len(b) /\ i = Len(a) + Len(m) + (i - (Len(a) + Len(m)))
    <3>1. i \in 1..(Len(a) + Len(m) + Len(b))
      BY <1>3
    <3> QED BY <1>1, <1>2, <3>1
  <2> QED BY <2>1, <2>2, <2>3, <2>4
<1>9. ASSUME Understood(t), NEW i \in 1..Len(w) PROVE Fits(w, i)
  <2>1. CASE i \in 1..Len(a)
    <3>1. i \in 1..Len(t) /\ w[i] = a[i] /\ t[i] = a[i]
      BY <1>1, <1>2, <1>3, <1>4, <2>1
    <3> QED BY <1>6, <1>9, <3>1 DEF Understood
  <2>2. CASE \E j \in 1..Len(b) : i = Len(a) + j
    <3>1. PICK j \in 1..Len(b) : i = Len(a) + j
      BY <2>2
    <3>2. Len(a) + Len(m) + j \in 1..Len(t) /\ Len(a) + Len(m) + j # 1
      BY <1>1, <1>2, <1>3
    <3>3. w[i] = t[Len(a) + Len(m) + j]
      BY <1>3, <1>7, <3>1
    <3> QED BY <1>9, <3>2, <3>3 DEF Understood
  <2>3. i \in 1..Len(a) \/ (i - Len(a) \in 1..Len(b) /\ i = Len(a) + (i - Len(a)))
    <3>1. i \in 1..(Len(a) + Len(b))
      BY <1>4
    <3> QED BY <1>2, <3>1
  <2> QED BY <2>1, <2>2, <2>3
<1>10. Understood(t) <=> Understood(w)
  BY <1>8, <1>9 DEF Understood
<1>11. Reading(t) = Reading(w)
  BY <1>5, <1>6 DEF Reading
<1>12. t # <<>> /\ w # <<>>
  BY <1>6, EmptySeq
<1> QED BY <1>3, <1>4, <1>6, <1>10, <1>11, <1>12, Zenon DEF t, w
-----------------------------------------------------------------------------
(* The ways a number is written.                                           *)

\* Digits that do not begin with a zero have their country code already.
LEMMA CountryCodedPlain ==
  ASSUME NEW d \in Seq(W!Digit), d # <<>>, d[1] # "0"
  PROVE  W!CountryCoded(d) = d
<1>1. ~W!IsPrefix(<<"0">>, d)
  BY CharClasses, PrefixOne
<1>2. ~W!IsPrefix(<<"0", "0">>, d)
  BY CharClasses, PrefixTwo
<1> QED BY <1>1, <1>2, Zenon DEF W!CountryCoded

\* After the trunk prefix comes a number of the default country.
LEMMA CountryCodedTrunk ==
  ASSUME NEW d \in Seq(W!Digit), d # <<>>, d[1] # "0"
  PROVE  W!CountryCoded(<<"0">> \o d) = W!DefaultCountryCode \o d
<1> DEFINE p == <<"0">>
           t == p \o d
<1>1. p \in Seq(W!Digit) /\ Len(p) = 1 /\ p[1] = "0"
  BY CharClasses
<1>2. Len(d) \in Nat /\ Len(d) >= 1
  BY EmptySeq, LenProperties
<1> HIDE DEF p
<1>3. /\ t \in Seq(W!Digit) /\ Len(t) = Len(p) + Len(d)
      /\ \A i \in 1..(Len(p) + Len(d)) : t[i] = IF i <= Len(p) THEN p[i] ELSE d[i - Len(p)]
  <2>1. p \in Seq(W!Digit)
    BY <1>1
  <2> QED BY <2>1, ConcatProperties
<1>4. W!TrimPrefix(t, p) = d
  BY <1>1, TrimPrefixTrims
<1> HIDE DEF t
<1>5. Len(t) >= 1 /\ t[1] = "0" /\ t[2] = d[1]
  BY <1>1, <1>2, <1>3
<1>6. t # <<>> /\ t[2] # "0"
  BY <1>5, EmptySeq
<1>7. W!IsPrefix(<<"0">>, t) /\ ~W!IsPrefix(<<"0", "0">>, t)
  BY <1>3, <1>5, <1>6, CharClasses, PrefixOne, PrefixTwo
<1>8. W!CountryCoded(t) = W!DefaultCountryCode \o W!TrimPrefix(t, <<"0">>)
  BY <1>7, Zenon DEF W!CountryCoded
<1> QED BY <1>4, <1>8 DEF p, t

\* After the access code comes a country code.
LEMMA CountryCodedAccess ==
  ASSUME NEW d \in Seq(W!Digit)
  PROVE  W!CountryCoded(<<"0", "0">> \o d) = d
<1> DEFINE p == <<"0", "0">>
           t == p \o d
<1>1. p \in Seq(W!Digit) /\ Len(p) = 2 /\ p[1] = "0" /\ p[2] = "0"
  BY CharClasses
<1>2. Len(d) \in Nat
  BY LenProperties
<1> HIDE DEF p
<1>3. /\ t \in Seq(W!Digit) /\ Len(t) = Len(p) + Len(d)
      /\ \A i \in 1..(Len(p) + Len(d)) : t[i] = IF i <= Len(p) THEN p[i] ELSE d[i - Len(p)]
  <2>1. p \in Seq(W!Digit)
    BY <1>1
  <2> QED BY <2>1, ConcatProperties
<1>4. W!TrimPrefix(t, p) = d
  BY <1>1, TrimPrefixTrims
<1> HIDE DEF t
<1>5. Len(t) >= 2 /\ t[1] = "0" /\ t[2] = "0"
  BY <1>1, <1>2, <1>3
<1>6. W!IsPrefix(<<"0", "0">>, t)
  BY <1>3, <1>5, CharClasses, PrefixTwo
<1>7. W!CountryCoded(t) = W!TrimPrefix(t, <<"0", "0">>)
  BY <1>6, Zenon DEF W!CountryCoded
<1> QED BY <1>4, <1>7 DEF p, t

\* A canonical number is made of digits and does not begin with a zero.
LEMMA CanonicalDigits ==
  ASSUME NEW n \in Number
  PROVE  /\ Canonical(n) \in Seq(W!Digit) /\ Len(Canonical(n)) >= 2 /\ Canonical(n)[1] # "0"
         /\ Len(Canonical(n)) \in Nat
<1> DEFINE c == Canonical(n)
           a == n[1]
           b == n[2]
<1>1. a \in Seq(W!Digit) /\ a # <<>> /\ b \in Seq(W!Digit) /\ b # <<>> /\ a[1] # "0"
  BY NumberAssumption
<1>2. c = a \o b
  BY DEF Canonical
<1> HIDE DEF a, b, c
<1>3. Len(a) \in Nat /\ Len(a) >= 1 /\ Len(b) \in Nat /\ Len(b) >= 1
  BY <1>1, EmptySeq, LenProperties
<1>4. c \in Seq(W!Digit) /\ Len(c) = Len(a) + Len(b)
  BY <1>1, <1>2, ConcatProperties
<1>5. \A i \in 1..(Len(a) + Len(b)) : c[i] = IF i <= Len(a) THEN a[i] ELSE b[i - Len(a)]
  BY <1>1, <1>2, ConcatProperties
<1>6. Len(c) >= 2 /\ Len(c) \in Nat
  BY <1>3, <1>4
<1>7. c[1] = a[1]
  BY <1>3, <1>5
<1> QED BY <1>1, <1>4, <1>6, <1>7 DEF c

\* The database takes a canonical number when its length is one that is dialled.
LEMMA PatternIsDialable ==
  ASSUME NEW n \in Number
  PROVE  /\ W!PhoneNumberPattern(Canonical(n)) <=> Dialable(n)
         /\ Dialable(n) => Canonical(n) # W!Invalid
<1> DEFINE c == Canonical(n)
<1>1. c \in Seq(W!Digit) /\ c[1] # "0"
  BY CanonicalDigits
<1>2. \A i \in DOMAIN c : c[i] \in W!Digit
  BY <1>1, LenProperties, ElementOfSeq
<1>3. W!PhoneNumberPattern(c) <=> Dialable(n)
  BY <1>1, <1>2, Zenon DEF W!PhoneNumberPattern, Dialable
<1>4. Dialable(n) => Len(c) # 1
  BY DEF Dialable
<1>5. Len(W!Invalid) = 1
  BY DEF W!Invalid
<1> QED BY <1>3, <1>4, <1>5

\* w says n: it is understood, read as the canonical number, and neither begins nor
\* ends with white space.
Says(w, n) ==
  /\ w \in Seq(Char) /\ Len(w) \in Nat /\ Len(w) >= 2
  /\ w[1] # W!Space /\ w[Len(w)] # W!Space
  /\ Understood(w) /\ Reading(w) = Canonical(n)

\* A text of digits is one of characters, none of them white space.
LEMMA DigitsSay ==
  ASSUME NEW n, NEW w \in Seq(W!Digit), Len(w) >= 2, W!CountryCoded(w) = Canonical(n)
  PROVE  Says(w, n)
<1>1. w \in Seq(Char) /\ Len(w) \in Nat /\ \A i \in 1..Len(w) : w[i] \in W!Digit
  BY CharClasses, SeqMonotonic, LenProperties, ElementOfSeq
<1>2. w[1] \in W!Digit /\ w[Len(w)] \in W!Digit
  BY <1>1
<1>3. Understood(w)
  BY <1>1 DEF Understood
<1>4. w[1] # W!Space /\ w[Len(w)] # W!Space /\ w[1] # "+"
  BY <1>2, CharClasses
<1>5. Reading(w) = Canonical(n)
  BY <1>4, DigitsOfDigits DEF Reading
<1> QED BY <1>1, <1>3, <1>4, <1>5 DEF Says

\* Each way of writing a number says it.
LEMMA WrittenSays ==
  ASSUME NEW n \in Number, NEW w \in Written(n)
  PROVE  Says(w, n)
<1> DEFINE c == Canonical(n)
<1>1. c \in Seq(W!Digit) /\ Len(c) >= 2 /\ c[1] # "0" /\ c # <<>> /\ Len(c) \in Nat
  BY CanonicalDigits, EmptySeq
<1>2. ASSUME w = c PROVE Says(w, n)
  BY <1>1, <1>2, CountryCodedPlain, DigitsSay
<1>3. ASSUME w = <<"0", "0">> \o c PROVE Says(w, n)
  <2> DEFINE p == <<"0", "0">>
  <2>1. p \in Seq(W!Digit) /\ Len(p) = 2
    BY CharClasses
  <2> HIDE DEF p
  <2>2. p \o c \in Seq(W!Digit) /\ Len(p \o c) = Len(p) + Len(c)
    BY <1>1, <2>1, ConcatProperties
  <2>3. w \in Seq(W!Digit) /\ Len(w) >= 2
    BY <1>1, <1>3, <2>1, <2>2 DEF p
  <2>4. W!CountryCoded(w) = c
    BY <1>1, <1>3, CountryCodedAccess
  <2> QED BY <2>3, <2>4, DigitsSay
<1>4. ASSUME n[1] = W!DefaultCountryCode, w = <<"0">> \o n[2] PROVE Says(w, n)
  <2> DEFINE p == <<"0">>
             d == n[2]
  <2>1. p \in Seq(W!Digit) /\ Len(p) = 1
    BY CharClasses
  <2>2. d \in Seq(W!Digit) /\ d # <<>> /\ d[1] # "0"
    BY <1>4, NumberAssumption
  <2>3. Len(d) \in Nat /\ Len(d) >= 1
    BY <2>2, EmptySeq, LenProperties
  <2>4. W!CountryCoded(w) = c
    BY <1>4, <2>2, CountryCodedTrunk DEF Canonical
  <2> HIDE DEF p, d
  <2>5. p \o d \in Seq(W!Digit) /\ Len(p \o d) = Len(p) + Len(d)
    BY <2>1, <2>2, ConcatProperties
  <2>6. w \in Seq(W!Digit) /\ Len(w) >= 2
    BY <1>4, <2>1, <2>3, <2>5 DEF p, d
  <2> QED BY <2>4, <2>6, DigitsSay
<1>5. ASSUME w = <<"+">> \o c PROVE Says(w, n)
  <2> DEFINE p == <<"+">>
             t == p \o c
  <2>1. p \in Seq(Char) /\ Len(p) = 1 /\ p[1] = "+" /\ p \in Seq({"+"})
    BY CharClasses
  <2>2. c \in Seq(Char) /\ \A i \in 1..Len(c) : c[i] \in W!Digit
    BY <1>1, CharClasses, SeqMonotonic, ElementOfSeq
  <2> HIDE DEF p, c
  <2>3. t \in Seq(Char) /\ Len(t) = Len(p) + Len(c)
    BY <2>1, <2>2, ConcatProperties
  <2>4. \A i \in 1..(Len(p) + Len(c)) : t[i] = IF i <= Len(p) THEN p[i] ELSE c[i - Len(p)]
    BY <2>1, <2>2, ConcatProperties
  <2>5. W!Digits(t) = c
    <3>1. W!Digits(p) = <<>>
      <4>1. {"+"} \intersect W!Digit = {}
        BY CharClasses
      <4> QED BY <2>1, <4>1, DigitsOfNone
    <3>2. W!Digits(t) = W!Digits(p) \o W!Digits(c) /\ W!Digits(c) = c
      BY <1>1, <2>1, <2>2, DigitsConcat, DigitsOfDigits
    <3> QED BY <1>1, <3>1, <3>2, ConcatEmptySeq
  <2> HIDE DEF t
  <2>6. Len(t) = 1 + Len(c) /\ Len(t) >= 2 /\ Len(t) \in Nat
    BY <1>1, <2>1, <2>3
  <2>7. t[1] = "+"
    BY <1>1, <2>1, <2>4
  <2>8. ASSUME NEW i \in 2..Len(t) PROVE t[i] \in W!Digit
    <3>1. i \in 1..(Len(p) + Len(c)) /\ ~(i <= Len(p)) /\ i - Len(p) \in 1..Len(c)
      BY <1>1, <2>1, <2>6
    <3> QED BY <2>2, <2>4, <3>1
  <2>9. Understood(t)
    <3>1. \A i \in 1..Len(t) : i = 1 \/ i \in 2..Len(t)
      BY <2>6
    <3> QED BY <2>7, <2>8, <3>1 DEF Understood
  <2>10. t[1] # W!Space /\ t[Len(t)] # W!Space
    <3>1. Len(t) \in 2..Len(t)
      BY <2>6
    <3> QED BY <2>7, <2>8, <3>1, CharClasses
  <2>11. Reading(t) = c
    BY <2>5, <2>7 DEF Reading
  <2>12. Says(t, n)
    BY <2>3, <2>6, <2>9, <2>10, <2>11 DEF Says, c
  <2> QED BY <1>5, <2>12 DEF t, p, c
<1>6. \/ w = c \/ w = <<"+">> \o c \/ w = <<"0", "0">> \o c
      \/ n[1] = W!DefaultCountryCode /\ w = <<"0">> \o n[2]
  BY Zenon DEF Written
<1> QED BY <1>2, <1>3, <1>4, <1>5, <1>6, Zenon

-----------------------------------------------------------------------------
(* What is made of a number as it is written.                              *)

\* A text that says n, with separators after its first character and white space
\* around it, is stored as n when n can be dialled and refused when it cannot.
LEMMA SaidIsNormalized ==
  ASSUME NEW n \in Number, NEW w, Says(w, n), NEW raw, NEW t \in Seq(Char), t # <<>>,
         W!TrimSpace(raw) = t, Understood(t) <=> Understood(w), Reading(t) = Reading(w)
  PROVE  W!NormalizePhoneNumber(raw) = IF Dialable(n) THEN Canonical(n) ELSE W!Invalid
<1>1. Understood(t) /\ Reading(t) = Canonical(n)
  BY DEF Says
<1>2. W!NormalizePhoneNumber(raw) =
        IF Understood(t) /\ W!PhoneNumberPattern(Reading(t)) THEN Reading(t) ELSE W!Invalid
  BY NormalizeReads
<1>3. W!PhoneNumberPattern(Canonical(n)) <=> Dialable(n)
  BY PatternIsDialable
<1> QED BY <1>1, <1>2, <1>3, Zenon

\* However a number is spaced, it is stored in one form.
LEMMA SpacedIsNormalized ==
  ASSUME NEW n \in Number, NEW w \in Written(n), NEW s \in Spaced(w)
  PROVE  W!NormalizePhoneNumber(s) = IF Dialable(n) THEN Canonical(n) ELSE W!Invalid
<1>1. Says(w, n)
  BY WrittenSays
<1>2. w \in Seq(Char) /\ Len(w) \in Nat /\ Len(w) >= 2 /\ w[1] # W!Space /\ w[Len(w)] # W!Space
  BY <1>1 DEF Says
<1>3. w # <<>>
  BY <1>2, EmptySeq
<1>4. CASE s = w
  <2>1. W!TrimSpace(s) = w
    BY <1>2, <1>3, <1>4, TrimSpaceKeeps
  <2> QED BY <1>1, <1>2, <1>3, <2>1, SaidIsNormalized
<1>5. CASE s = <<W!Space>> \o w \o <<W!Space, W!Space>>
  <2>1. <<W!Space>> \in Seq({W!Space}) /\ <<W!Space, W!Space>> \in Seq({W!Space})
    OBVIOUS
  <2>2. W!TrimSpace(s) = w
    BY <1>2, <1>3, <1>5, <2>1, TrimSpaceTrims
  <2> QED BY <1>1, <1>2, <1>3, <2>2, SaidIsNormalized
<1>6. ASSUME NEW i \in DOMAIN w, NEW c \in W!Separators,
             s = SubSeq(w, 1, i) \o <<c>> \o SubSeq(w, i + 1, Len(w))
      PROVE  W!NormalizePhoneNumber(s) = IF Dialable(n) THEN Canonical(n) ELSE W!Invalid
  <2> DEFINE a == SubSeq(w, 1, i)
             b == SubSeq(w, i + 1, Len(w))
             m == <<c>>
             t == (a \o m) \o b
  <2>1. i \in 1..Len(w) /\ i \in Nat /\ \A j \in 1..Len(w) : w[j] \in Char
    BY <1>2, LenProperties, ElementOfSeq
  <2>2. a \in Seq(Char) /\ Len(a) = i /\ a[1] = w[1]
    <3>1. 1 \in Int /\ i \in Int /\ 1 <= i /\ \A j \in 1..i : w[j] \in Char
      BY <1>2, <2>1
    <3>2. a \in Seq(Char) /\ Len(a) = IF 1 <= i THEN i - 1 + 1 ELSE 0
      BY <3>1, SubSeqProperties
    <3>3. \A j \in 1..(i - 1 + 1) : a[j] = w[1 + j - 1]
      BY <3>1, SubSeqProperties
    <3> HIDE DEF a
    <3>4. 1 \in 1..(i - 1 + 1) /\ 1 + 1 - 1 = 1
      BY <3>1
    <3>5. a[1] = w[1]
      BY <3>3, <3>4
    <3> QED BY <3>1, <3>2, <3>5
  <2>3. /\ b \in Seq(Char) /\ Len(b) = Len(w) - i
        /\ i # Len(w) => b[Len(b)] = w[Len(w)]
    <3> DEFINE first == i + 1
               last == Len(w)
    <3>1. first \in Int /\ last \in Int /\ \A j \in first..last : w[j] \in Char
      BY <1>2, <2>1
    <3>2. b \in Seq(Char) /\ Len(b) = IF first <= last THEN last - first + 1 ELSE 0
      BY <3>1, SubSeqProperties
    <3>3. \A j \in 1..(last - first + 1) : b[j] = w[first + j - 1]
      BY <3>1, SubSeqProperties
    <3> HIDE DEF b
    <3>4. Len(b) = last - i
      BY <1>2, <2>1, <3>2
    <3>5. i # last => last - i \in 1..(last - first + 1) /\ first + (last - i) - 1 = last
      <4>1. last \in Nat /\ i \in 1..last /\ first = i + 1
        BY <1>2, <2>1
      <4> HIDE DEF first, last
      <4> QED BY <4>1
    <3>6. i # last => b[last - i] = w[last]
      BY <3>3, <3>5
    <3> QED BY <3>2, <3>4, <3>6
  <2>4. a \o b = w
    <3>1. i \in 0..Len(w) /\ 1 \in 1..(Len(w) + 1) /\ 1 - 1 = 0 /\ Len(w) \in i..Len(w)
      BY <1>2, <2>1
    <3>2. a \o b = SubSeq(w, 1, Len(w))
      BY <1>2, <3>1, ConcatAdjacentSubSeq
    <3> QED BY <1>2, <3>2, SubSeqFull
  <2>5. m \in Seq(W!Separators) /\ Len(m) = 1 /\ m[1] = c
    OBVIOUS
  <2>6. a # <<>>
    BY <2>1, <2>2, EmptySeq
  <2> HIDE DEF a, b, m
  <2>7. /\ t \in Seq(Char) /\ t # <<>> /\ t[1] = a[1]
        /\ Understood(t) <=> Understood(w)
        /\ Reading(t) = Reading(w)
    <3>1. /\ t \in Seq(Char) /\ t # <<>> /\ t[1] = a[1]
          /\ Understood(t) <=> Understood(a \o b)
          /\ Reading(t) = Reading(a \o b)
      BY <2>2, <2>3, <2>5, <2>6, SeparatorsRead, Zenon
    <3> QED BY <2>4, <3>1
  <2>8. s = t
    BY <1>6 DEF a, b, m
  <2>9. /\ Len(t) = i + 1 + Len(b) /\ t[i + 1] = c
        /\ Len(b) >= 1 => t[Len(t)] = b[Len(b)]
    <3>1. m \in Seq(Char)
      BY <2>5, CharClasses, SeqMonotonic
    <3>2. /\ Len(t) = Len(a) + Len(m) + Len(b)
          /\ \A j \in 1..Len(m) : t[Len(a) + j] = m[j]
          /\ \A j \in 1..Len(b) : t[Len(a) + Len(m) + j] = b[j]
      <4>1. a \in Seq(Char) /\ b \in Seq(Char)
        BY <2>2, <2>3
      <4> QED BY <3>1, <4>1, ConcatThree
    <3> HIDE DEF t
    <3>3. 1 \in 1..Len(m) /\ Len(b) \in Nat
      BY <2>3, <2>5, LenProperties
    <3> QED BY <2>2, <2>5, <3>2, <3>3
  <2> HIDE DEF t
  <2>10. CASE i # Len(w)
    <3>1. Len(b) >= 1
      BY <1>2, <2>1, <2>3, <2>10
    <3>2. t[1] # W!Space /\ t[Len(t)] # W!Space
      BY <1>2, <2>2, <2>3, <2>7, <2>9, <2>10, <3>1
    <3>3. W!TrimSpace(t) = t
      BY <2>7, <3>2, TrimSpaceKeeps
    <3>4. W!NormalizePhoneNumber(t) = IF Dialable(n) THEN Canonical(n) ELSE W!Invalid
      BY <1>1, <2>7, <3>3, SaidIsNormalized
    <3> QED BY <2>8, <3>4
  <2>11. CASE i = Len(w) /\ c # W!Space
    <3>1. Len(t) = i + 1
      BY <2>1, <2>3, <2>9, <2>11
    <3>2. t[1] # W!Space /\ t[Len(t)] # W!Space
      BY <1>2, <2>2, <2>7, <2>9, <2>11, <3>1
    <3>3. W!TrimSpace(t) = t
      BY <2>7, <3>2, TrimSpaceKeeps
    <3>4. W!NormalizePhoneNumber(t) = IF Dialable(n) THEN Canonical(n) ELSE W!Invalid
      BY <1>1, <2>7, <3>3, SaidIsNormalized
    <3> QED BY <2>8, <3>4
  <2>12. CASE i = Len(w) /\ c = W!Space
    <3>1. b = <<>>
      BY <1>2, <2>3, <2>12, EmptySeq
    <3>2. a = w
      BY <2>2, <2>4, <3>1, ConcatEmptySeq
    <3>3. <<>> \in Seq({W!Space}) /\ m \in Seq({W!Space})
      BY <2>12 DEF m
    <3>4. (<<>> \o w) \o m = t
      <4>1. <<>> \o w = w /\ w \o m \in Seq(Char) /\ (w \o m) \o <<>> = w \o m
        <5>1. m \in Seq(Char)
          BY <2>5, CharClasses, SeqMonotonic
        <5> QED BY <1>2, <5>1, ConcatProperties, ConcatEmptySeq
      <4> QED BY <3>1, <3>2, <4>1 DEF t
    <3>5. W!TrimSpace(t) = w
      BY <1>2, <1>3, <3>3, <3>4, TrimSpaceTrims
    <3> QED BY <1>1, <1>2, <1>3, <2>8, <3>5, SaidIsNormalized
  <2> QED BY <2>10, <2>11, <2>12
<1>7. ASSUME NEW i \in Position \intersect 2..(Len(w) + 1), NEW c \in W!Separators, s = W!InsertAt(w, i, c)
      PROVE  W!NormalizePhoneNumber(s) = IF Dialable(n) THEN Canonical(n) ELSE W!Invalid
  <2>1. i - 1 \in DOMAIN w /\ i = i - 1 + 1
    BY <1>2, LenProperties
  <2>2. s = SubSeq(w, 1, i - 1) \o <<c>> \o SubSeq(w, i - 1 + 1, Len(w))
    BY <1>7, <2>1 DEF W!InsertAt
  <2> QED BY <1>6, <2>1, <2>2
<1> QED BY <1>4, <1>5, <1>7 DEF Spaced

\* A wrong character after the first one is refused, whatever the number.
LEMMA MistypedIsRefused ==
  ASSUME NEW n \in Number, NEW w \in Written(n), NEW s \in Mistyped(w)
  PROVE  W!NormalizePhoneNumber(s) = W!Invalid
<1>1. w \in Seq(Char) /\ Len(w) \in Nat /\ Len(w) >= 2 /\ w[1] # W!Space /\ w[Len(w)] # W!Space
  BY WrittenSays DEF Says
<1>2. PICK i \in 2..Len(w), c \in {"x", "+"} : s = [w EXCEPT ![i] = c]
  BY <1>1 DEF Mistyped
<1>3. i \in 1..Len(w) /\ i # 1 /\ c \in Char /\ c \notin W!Digit \union W!Separators /\ c # W!Space
  BY <1>1, <1>2, LenProperties, CharClasses
<1>4. /\ s \in Seq(Char) /\ Len(s) = Len(w)
      /\ \A j \in 1..Len(w) : s[j] = IF j = i THEN c ELSE w[j]
  BY <1>1, <1>2, <1>3, ExceptSeq
<1>5. s[1] # W!Space /\ s[Len(s)] # W!Space /\ s # <<>>
  <2>1. 1 \in 1..Len(w) /\ Len(w) \in 1..Len(w)
    BY <1>1
  <2>2. s # <<>>
    BY <1>1, <1>4, EmptySeq
  <2> QED BY <1>1, <1>3, <1>4, <2>1, <2>2
<1>6. W!TrimSpace(s) = s
  BY <1>4, <1>5, TrimSpaceKeeps
<1>7. ~Understood(s)
  BY <1>3, <1>4 DEF Understood
<1> QED BY <1>4, <1>5, <1>6, <1>7, NormalizeReads

-----------------------------------------------------------------------------
\* Nobody is registered and nobody has linked a number.
LEMMA InitInv == Init => IInv
BY DEF Init, IInv, HashInv, LinkInv

\* The hash that Register stores is that of the chosen password, and decodes.
LEMMA RegisterInv == ASSUME IInv, NEW p \in Password, Register(p) PROVE IInv'
<1> DEFINE new == P!Hash(hasher, p, "salt")
<1> USE DEF IInv, HashInv, LinkInv
<1>1. CASE ~P!ValidatePassword(p)
  <2>1. answer' = [what |-> "bad password", earned |-> TRUE] /\ UNCHANGED <<hash, chosen, link, owns>>
    BY <1>1 DEF Register, Answer
  <2> QED BY <2>1
<1>2. CASE P!ValidatePassword(p) /\ ~new.ok
  <2>1. ~P!Validate(hasher)
    BY <1>2, AcceptedIsAffordable DEF P!Hash, P!Ok
  <2>2. answer' = [what |-> "no hash", earned |-> TRUE] /\ UNCHANGED <<hash, chosen, link, owns>>
    BY <1>2, <2>1 DEF Register, Answer
  <2> QED BY <2>2
<1>3. CASE P!ValidatePassword(p) /\ new.ok
  <2>1. answer'.earned /\ hash' = new.value /\ chosen' = p /\ UNCHANGED <<link, owns>>
    BY <1>3 DEF Register, Answer
  <2>2. /\ ~P!TooCostly(p) /\ P!decodeHash(new.value).ok
        /\ new.value.key = P!IDKey(p.text, new.value.salt, P!decodeHash(new.value).value)
    BY <1>3, HashDecodes
  <2> HIDE DEF new
  <2> QED BY <2>1, <2>2
<1> QED BY <1>1, <1>2, <1>3

\* A text that does not say n for the normaliser is refused with cause; one that
\* does is stored in canonical form, or found in that form at the account that has
\* it.
LEMMA LinkKeepsInv ==
  ASSUME IInv, NEW u \in User, NEW n \in Number, NEW s, NEW right \in BOOLEAN, Link(u, n, s, right),
         W!NormalizePhoneNumber(s) = IF right /\ Dialable(n) THEN Canonical(n) ELSE W!Invalid
  PROVE  IInv'
<1> DEFINE number == W!NormalizePhoneNumber(s)
           taken == \E v \in User : owns[v] = n
<1>1. \A what, e : Answer(what, e) => answer'.earned = e
  BY DEF Answer
<1>2. UNCHANGED <<hash, chosen>>
  BY DEF Link
<1>3. HashInv'
  BY <1>2 DEF IInv, HashInv
<1>4. CASE ~(right /\ Dialable(n))
  <2>1. answer'.earned /\ UNCHANGED <<link, owns>>
    BY <1>1, <1>4, Zenon DEF Link
  <2> QED BY <1>3, <2>1 DEF IInv, LinkInv
<1>5. CASE right /\ Dialable(n)
  <2> DEFINE c == Canonical(n)
  <2>1. number = c /\ c # W!Invalid /\ c # NoNumber /\ n # NoNumber
    BY <1>5, PatternIsDialable, NumberAssumption
  <2>2. (\E v \in User : link[v] = c) <=> taken
    <3>1. \A m \in Number : Canonical(m) = c <=> m = n
      BY NumberAssumption
    <3>2. \A v \in User : /\ owns[v] \in Number \union {NoNumber}
                          /\ link[v] = IF owns[v] = NoNumber THEN NoNumber ELSE Canonical(owns[v])
      BY DEF IInv, LinkInv
    <3> HIDE DEF c
    <3> QED BY <2>1, <3>1, <3>2
  <2>3. CASE taken
    <3>1. answer'.earned /\ UNCHANGED <<link, owns>>
      BY <1>1, <2>1, <2>2, <2>3, Zenon DEF Link
    <3> QED BY <1>3, <3>1 DEF IInv, LinkInv
  <2>4. CASE ~taken
    <3>1. answer'.earned /\ link' = [link EXCEPT ![u] = c] /\ owns' = [owns EXCEPT ![u] = n]
      BY <1>1, <1>5, <2>1, <2>2, <2>4, Zenon DEF Link
    <3>2. LinkInv'
      BY <2>1, <3>1 DEF IInv, LinkInv
    <3> QED BY <1>3, <3>1, <3>2 DEF IInv
  <2> QED BY <2>3, <2>4
<1> QED BY <1>4, <1>5

\* The invariant is inductive.
LEMMA NextInv == IInv /\ [Next]_vars => IInv'
<1> SUFFICES ASSUME IInv, [Next]_vars PROVE IInv'
  OBVIOUS
<1>1. CASE \E p \in Password : Register(p)
  BY <1>1, RegisterInv
<1>2. CASE Release
  BY <1>2 DEF Release, Answer, IInv, HashInv, LinkInv
<1>3. ASSUME NEW u \in User, NEW n \in Number, NEW w \in Written(n), NEW s \in Spaced(w), Link(u, n, s, TRUE)
      PROVE  IInv'
  BY <1>3, SpacedIsNormalized, LinkKeepsInv
<1>4. ASSUME NEW u \in User, NEW n \in Number, NEW w \in Written(n), NEW s \in Mistyped(w), Link(u, n, s, FALSE)
      PROVE  IInv'
  BY <1>4, MistypedIsRefused, LinkKeepsInv
<1>5. CASE UNCHANGED vars
  BY <1>5 DEF vars, IInv, HashInv, LinkInv
<1> QED BY <1>1, <1>2, <1>3, <1>4, <1>5 DEF Next

-----------------------------------------------------------------------------
(* The theorems.                                                           *)

\* Whatever is released after a registration, the stored hash stays usable; an
\* account stores the canonical form of the number it owns; and every answer has
\* its cause.
THEOREM Invariance == Spec => []IInv
<1> QED BY InitInv, NextInv, PTL DEF Spec

\* A registered password always opens its account and no other does, and no
\* password the policy accepts is refused by a sound release.
THEOREM AcceptedCanLoginHolds == Spec => []AcceptedCanLogin
<1>1. IInv => AcceptedCanLogin
  <2> SUFFICES ASSUME IInv, hash # NoHash, NEW p \in Password
               PROVE  P!Verify(hash, p) = IF p.text = chosen.text THEN "match" ELSE "wrong"
    BY DEF IInv, AcceptedCanLogin
  <2> DEFINE params == P!decodeHash(hash)
  <2>1. /\ chosen \in Password /\ ~P!TooCostly(chosen) /\ params.ok
        /\ hash.key = P!IDKey(chosen.text, hash.salt, params.value)
    BY DEF IInv, HashInv
  <2>2. p.text = chosen.text => ~P!TooCostly(p)
    BY <2>1, PasswordAssumption
  <2>3. P!IDKey(p.text, hash.salt, params.value) = hash.key <=> p.text = chosen.text
    BY <2>1, KeysDiffer
  <2>4. P!Verify(hash, p) =
          CASE ~params.ok -> "error"
            [] params.ok /\ P!TooCostly(p) -> "wrong"
            [] params.ok /\ ~P!TooCostly(p) ->
                 IF P!IDKey(p.text, hash.salt, params.value) = hash.key THEN "match" ELSE "wrong"
    BY DEF P!Verify
  <2> HIDE DEF params
  <2> QED BY <2>1, <2>2, <2>3, <2>4
<1> QED BY <1>1, Invariance, PTL

\* However a number is written, it is stored as the webhook presents it, it is
\* linked once, and it is refused exactly when it is mistyped or cannot be dialled.
THEOREM SpellingsMeetHolds == Spec => []SpellingsMeet
<1>1. IInv => SpellingsMeet
  BY NumberAssumption, Zenon DEF IInv, LinkInv, SpellingsMeet
<1> QED BY <1>1, Invariance, PTL

\* White space and punctuation between the first and the last character of a text
\* never change what NormalizePhoneNumber makes of it, wherever and however many.
THEOREM SeparatorsIgnored ==
  ASSUME NEW a \in Seq(Char), a # <<>>, a[1] # W!Space,
         NEW b \in Seq(Char), b # <<>>, b[Len(b)] # W!Space,
         NEW m \in Seq(W!Separators)
  PROVE  W!NormalizePhoneNumber((a \o m) \o b) = W!NormalizePhoneNumber(a \o b)
<1> DEFINE t == (a \o m) \o b
           w == a \o b
<1>1. /\ t \in Seq(Char) /\ t # <<>> /\ w \in Seq(Char) /\ w # <<>>
      /\ t[1] = a[1] /\ w[1] = a[1]
      /\ Understood(t) <=> Understood(w)
      /\ Reading(t) = Reading(w)
  BY SeparatorsRead, Zenon
<1>2. t[Len(t)] # W!Space /\ w[Len(w)] # W!Space
  <2>1. m \in Seq(Char) /\ Len(b) \in Nat /\ Len(b) >= 1 /\ Len(b) \in 1..Len(b)
    BY CharClasses, SeqMonotonic, EmptySeq, LenProperties
  <2>2. Len(t) = Len(a) + Len(m) + Len(b) /\ t[Len(a) + Len(m) + Len(b)] = b[Len(b)]
    BY <2>1, ConcatThree
  <2>3. /\ Len(a) \in Nat /\ Len(w) = Len(a) + Len(b)
        /\ \A i \in 1..(Len(a) + Len(b)) : w[i] = IF i <= Len(a) THEN a[i] ELSE b[i - Len(a)]
    BY LenProperties, ConcatProperties
  <2>4. w[Len(w)] = b[Len(b)]
    <3> DEFINE j == Len(a) + Len(b)
    <3>1. j \in 1..j /\ ~(j <= Len(a)) /\ j - Len(a) = Len(b)
      BY <2>1, <2>3
    <3> HIDE DEF w
    <3> QED BY <2>3, <3>1
  <2> QED BY <2>2, <2>4
<1> HIDE DEF t, w
<1>3. ASSUME NEW v \in Seq(Char), v # <<>>, v[1] # W!Space, v[Len(v)] # W!Space
      PROVE  W!NormalizePhoneNumber(v) =
               IF Understood(v) /\ W!PhoneNumberPattern(Reading(v)) THEN Reading(v) ELSE W!Invalid
  <2>1. W!TrimSpace(v) = v
    BY <1>3, TrimSpaceKeeps
  <2> QED BY <1>3, <2>1, NormalizeReads
<1>4. W!NormalizePhoneNumber(t) =
        IF Understood(t) /\ W!PhoneNumberPattern(Reading(t)) THEN Reading(t) ELSE W!Invalid
  BY <1>1, <1>2, <1>3
<1>5. W!NormalizePhoneNumber(w) =
        IF Understood(w) /\ W!PhoneNumberPattern(Reading(w)) THEN Reading(w) ELSE W!Invalid
  BY <1>1, <1>2, <1>3
<1>6. W!NormalizePhoneNumber(t) = W!NormalizePhoneNumber(w)
  BY <1>1, <1>4, <1>5
<1> QED BY <1>6 DEF t, w

\* What TrimSpace leaves is made of the same characters.
LEMMA TrimSpaceType ==
  ASSUME NEW S, NEW s \in Seq(S)
  PROVE  W!TrimSpace(s) \in Seq(S)
<1> DEFINE ink == {i \in DOMAIN s : s[i] # W!Space}
           n == Len(s)
           back == {n - i : i \in ink}
<1>1. n \in Nat /\ ink \subseteq 1..n /\ \A i \in 1..n : s[i] \in S
  BY LenProperties, ElementOfSeq
<1>2. W!TrimSpace(s) = IF ink = {} THEN <<>> ELSE SubSeq(s, W!Min(ink), W!Max(ink))
  BY Zenon DEF W!TrimSpace
<1> HIDE DEF ink, n
<1>3. CASE ink = {}
  BY <1>2, <1>3, EmptySeq
<1>4. CASE ink # {}
  <2>1. W!Min(ink) \in ink
    <3>1. ink \in SUBSET Nat
      BY <1>1
    <3>2. \E i \in ink : \A j \in ink : i <= j
      BY <1>4, <3>1, LeastExists
    <3> QED BY <3>2, Zenon DEF W!Min
  <2>2. W!Max(ink) \in ink
    <3>1. back \in SUBSET Nat /\ back # {}
      <4>1. \A i \in ink : n - i \in Nat
        BY <1>1
      <4>2. back # {}
        BY <1>4, Zenon
      <4> QED BY <4>1, <4>2
    <3>2. PICK b \in back : \A c \in back : b <= c
      <4> HIDE DEF back
      <4> QED BY <3>1, LeastExists
    <3>3. PICK i \in ink : b = n - i
      OBVIOUS
    <3>4. \A j \in ink : i >= j
      <4> TAKE j \in ink
      <4>1. n - i <= n - j
        BY <3>2, <3>3
      <4> QED BY <1>1, <4>1
    <3> QED BY <3>4, Zenon DEF W!Max
  <2> DEFINE first == W!Min(ink)
             last == W!Max(ink)
  <2>3. first \in 1..n /\ last \in 1..n
    BY <1>1, <2>1, <2>2
  <2> HIDE DEF first, last
  <2>4. first \in Int /\ last \in Int /\ \A i \in first..last : s[i] \in S
    BY <1>1, <2>3
  <2>5. SubSeq(s, first, last) \in Seq(S)
    BY <2>4, SubSeqProperties
  <2> QED BY <1>2, <1>4, <2>5 DEF first, last
<1> QED BY <1>3, <1>4

\* The country code is added to digits.
LEMMA CountryCodedType ==
  ASSUME NEW d \in Seq(W!Digit)
  PROVE  W!CountryCoded(d) \in Seq(W!Digit)
<1>1. Len(d) \in Nat /\ \A i \in 1..Len(d) : d[i] \in W!Digit
  BY LenProperties, ElementOfSeq
<1>2. ASSUME NEW k \in Nat PROVE SubSeq(d, k + 1, Len(d)) \in Seq(W!Digit)
  <2>1. k + 1 \in Int /\ Len(d) \in Int /\ \A i \in (k + 1)..Len(d) : d[i] \in W!Digit
    BY <1>1
  <2> QED BY <2>1, SubSeqProperties
<1>3. W!TrimPrefix(d, <<"0">>) \in Seq(W!Digit)
  <2>1. Len(<<"0">>) \in Nat
    OBVIOUS
  <2> QED BY <1>2, <2>1, Zenon DEF W!TrimPrefix
<1>4. W!TrimPrefix(d, <<"0", "0">>) \in Seq(W!Digit)
  <2>1. Len(<<"0", "0">>) \in Nat
    OBVIOUS
  <2> QED BY <1>2, <2>1, Zenon DEF W!TrimPrefix
<1>5. W!DefaultCountryCode \in Seq(W!Digit)
  BY DEF W!DefaultCountryCode, W!Digit
<1>6. W!DefaultCountryCode \o W!TrimPrefix(d, <<"0">>) \in Seq(W!Digit)
  BY <1>3, <1>5, ConcatProperties
<1>7. CASE W!IsPrefix(<<"0", "0">>, d)
  <2>1. W!CountryCoded(d) = W!TrimPrefix(d, <<"0", "0">>)
    BY <1>7, Zenon DEF W!CountryCoded
  <2> QED BY <1>4, <2>1
<1>8. CASE ~W!IsPrefix(<<"0", "0">>, d) /\ W!IsPrefix(<<"0">>, d)
  <2>1. W!CountryCoded(d) = W!DefaultCountryCode \o W!TrimPrefix(d, <<"0">>)
    BY <1>8, Zenon DEF W!CountryCoded
  <2> QED BY <1>6, <2>1
<1>9. CASE ~W!IsPrefix(<<"0", "0">>, d) /\ ~W!IsPrefix(<<"0">>, d)
  <2>1. W!CountryCoded(d) = d
    BY <1>9, Zenon DEF W!CountryCoded
  <2> QED BY <2>1
<1> QED BY <1>7, <1>8, <1>9

\* Nothing at all is refused.
LEMMA NothingIsRefused ==
  ASSUME NEW raw, W!TrimSpace(raw) = <<>>
  PROVE  W!NormalizePhoneNumber(raw) = W!Invalid
<1>1. <<>> \in Seq(Char) /\ <<>> \in Seq(W!Digit) /\ Len(<<>>) = 0
  BY EmptySeq
<1>2. ~W!IsPrefix(<<"+">>, <<>>) /\ ~W!IsPrefix(<<"0">>, <<>>) /\ ~W!IsPrefix(<<"0", "0">>, <<>>)
  <2> DEFINE e == <<>>
  <2>1. e \in Seq(Char) /\ e = <<>> /\ ~(Len(e) >= 2)
    BY <1>1
  <2>2. "+" \in Char /\ "0" \in Char
    BY CharClasses
  <2> HIDE DEF e
  <2>3. ~W!IsPrefix(<<"+">>, e) /\ ~W!IsPrefix(<<"0">>, e)
    BY <2>1, <2>2, PrefixOne
  <2>4. ~W!IsPrefix(<<"0", "0">>, e)
    BY <2>1, <2>2, PrefixTwo
  <2> QED BY <2>3, <2>4 DEF e
<1>3. W!CountryCoded(<<>>) = <<>>
  BY <1>2, Zenon DEF W!CountryCoded
<1>4. ~W!PhoneNumberPattern(<<>>)
  BY <1>1 DEF W!PhoneNumberPattern
<1> DEFINE accepted == \A i \in DOMAIN <<>> : <<>>[i] \in W!Digit \union W!Separators
<1>5. W!NormalizePhoneNumber(raw) =
        IF accepted /\ W!PhoneNumberPattern(W!CountryCoded(W!Digits(<<>>)))
        THEN W!CountryCoded(W!Digits(<<>>)) ELSE W!Invalid
  BY <1>2, Zenon DEF W!NormalizePhoneNumber
<1> QED BY <1>3, <1>4, <1>5, DigitsEmpty, Zenon

\* Whatever was typed, what is accepted for it is made of digits, passes the CHECK
\* of the table, and is itself accepted as it stands: the number that is stored,
\* and that the webhook presents, names itself.
THEOREM NormalizedIsFixed ==
  ASSUME NEW raw \in Seq(Char), W!NormalizePhoneNumber(raw) # W!Invalid
  PROVE  LET number == W!NormalizePhoneNumber(raw)
         IN  /\ number \in Seq(W!Digit) /\ W!PhoneNumberPattern(number)
             /\ W!NormalizePhoneNumber(number) = number
<1> DEFINE t == W!TrimSpace(raw)
           d == Reading(t)
<1>1. t \in Seq(Char) /\ t # <<>>
  BY TrimSpaceType, NothingIsRefused
<1>2. W!NormalizePhoneNumber(raw) = d /\ W!PhoneNumberPattern(d)
  <2>1. W!NormalizePhoneNumber(raw) =
          IF Understood(t) /\ W!PhoneNumberPattern(d) THEN d ELSE W!Invalid
    BY <1>1, NormalizeReads
  <2> QED BY <2>1, Zenon
<1>3. d \in Seq(W!Digit)
  BY <1>1, DigitsType, CountryCodedType DEF Reading
<1> HIDE DEF d
<1>4. Len(d) \in Nat /\ Len(d) >= 7 /\ d[1] # "0" /\ \A i \in 1..Len(d) : d[i] \in W!Digit
  <2>1. Len(d) \in 7..15 /\ d[1] # "0"
    BY <1>2, Zenon DEF W!PhoneNumberPattern
  <2>2. \A i \in 1..Len(d) : d[i] \in W!Digit
    BY <1>3, ElementOfSeq
  <2>3. Len(d) \in Nat /\ Len(d) >= 7
    <3>1. ASSUME NEW k, k \in 7..15 PROVE k \in Nat /\ k >= 7
      BY <3>1
    <3> QED BY <2>1, <3>1
  <2> QED BY <2>1, <2>2, <2>3, Zenon
<1>5. d # <<>> /\ d \in Seq(Char) /\ d[1] \in W!Digit /\ d[Len(d)] \in W!Digit
  <2>1. 1 \in 1..Len(d) /\ Len(d) \in 1..Len(d)
    BY <1>4
  <2> QED BY <1>3, <1>4, <2>1, EmptySeq, CharClasses, SeqMonotonic
<1>6. W!TrimSpace(d) = d
  BY <1>5, CharClasses, TrimSpaceKeeps
<1>7. Understood(d)
  BY <1>4 DEF Understood
<1>8. Reading(d) = d
  <2>1. d[1] # "+"
    BY <1>5, CharClasses
  <2> QED BY <1>3, <1>4, <1>5, <2>1, DigitsOfDigits, CountryCodedPlain DEF Reading
<1>9. W!NormalizePhoneNumber(d) = d
  <2>1. W!NormalizePhoneNumber(d) =
          IF Understood(d) /\ W!PhoneNumberPattern(Reading(d)) THEN Reading(d) ELSE W!Invalid
    BY <1>5, <1>6, NormalizeReads
  <2> QED BY <1>2, <1>7, <1>8, <2>1
<1> QED BY <1>2, <1>3, <1>9, Zenon

=============================================================================
