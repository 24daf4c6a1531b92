---------------------------- MODULE Http_proofs ----------------------------
(***************************************************************************)
(* Theorems about Http, for every lifetime of an access token and however  *)
(* long the connection lasts.                                              *)
(***************************************************************************)
EXTENDS Http, TLAPS

-----------------------------------------------------------------------------
(* The inductive invariant.                                                *)

Steps == InHandler \union {"idle", "panicking", "returned", "finished", "aborted"}

Tokens == [iat : Nat, lag : Nat, signed : BOOLEAN]

Statuses == {200, 201, 204, 400, 401, 403, 404, 405, 409, 500, 503}

Recorder == [status : Statuses, wroteHeader : BOOLEAN, bodies : Nat]

Requests ==
  [at : Steps, route : Routes, token : Tokens, user : BOOLEAN, code : Statuses \union {0},
   effect : {"none", "done", "ended"}, read : Nat, minted : Tokens]

TypeOK ==
  /\ req \in Requests
  /\ resp \in [Recorders -> Recorder]
  /\ held \in Tokens
  /\ status \in {"active", "suspended", "deleted"}
  /\ now \in Nat /\ lastActive \in Nat

\* Net/http and both recorders agree on what was sent.
OneView == \A l \in Recorders : resp[l] = Net

\* Where nothing can have been written yet.
Before == {"idle", "mux", "auth", "decode", "identify", "sign", "ping", "header"} \union Storing

\* How much of the answer is out at each step.
Progress ==
  /\ req.at \in Before => ~Net.wroteHeader
  /\ req.at = "body" => Net.wroteHeader /\ Net.bodies = 0 /\ Net.status = req.code
  /\ req.at \in {"written", "returned", "finished"} => Net.wroteHeader
  /\ req.at = "written" /\ Net.status # 204 => Net.bodies = 1
  /\ ~Net.wroteHeader => Net.bodies = 0
  /\ Net.bodies <= 1

\* What a status claims about the database.
Truthful(code) ==
  /\ code \in 200..299 /\ req.route \in Mutating => req.effect = "done"
  /\ code \in 400..499 =>
       \/ req.effect = "none"
       \/ req.effect = "ended" /\ req.route = "refresh" /\ code = 401

\* Nothing is committed before a handler answers; what it is about to answer is true.
Honest ==
  /\ req.at \in Before \ {"header"} => req.effect = "none"
  /\ req.at \in {"header", "body"} => Truthful(req.code) /\ req.code # 0
  /\ req.at = "ping" => req.route = "ready"
  /\ req.at = "revokeAll" => req.route = "refresh"
  /\ Net.wroteHeader => Truthful(Net.status)

AnswerInv == OneView /\ Progress /\ Honest /\ LogIsTrue

\* A signature was made within lag of a moment the account was active.
Timely(t) == t.signed => t.iat <= lastActive + t.lag

PowerInv ==
  /\ Timely(held) /\ Timely(req.token) /\ Timely(req.minted)
  /\ lastActive <= now
  /\ status = "active" => lastActive = now
  /\ req.at \in {"sign", "rotate"} => req.read <= lastActive
  /\ req.at = "owner" => req.read <= now
  /\ req.at \in {"idle", "mux", "auth"} => ~req.user

IInv == TypeOK /\ AnswerInv /\ PowerInv

-----------------------------------------------------------------------------
(* What the helpers do.                                                    *)

\* Moving on changes nothing else of the request.
LEMMA GotoIs ==
  ASSUME TypeOK, NEW step \in Steps, Goto(step)
  PROVE  /\ req' \in Requests /\ req'.at = step
         /\ req'.route = req.route /\ req'.token = req.token /\ req'.user = req.user
         /\ req'.code = req.code /\ req'.effect = req.effect
         /\ req'.read = req.read /\ req'.minted = req.minted
BY DEF TypeOK, Goto, Requests

\* A reply fixes the status and what was committed.
LEMMA ReplyIs ==
  ASSUME TypeOK, NEW code \in Statuses, NEW effect \in {"none", "done", "ended"},
         Reply(code, effect)
  PROVE  /\ req' \in Requests /\ req'.at = "header" /\ req'.code = code /\ req'.effect = effect
         /\ req'.route = req.route /\ req'.token = req.token /\ req'.user = req.user
         /\ req'.read = req.read /\ req'.minted = req.minted
<1>1. "header" \in Steps
  BY DEF Steps, InHandler
<1> QED BY <1>1 DEF TypeOK, Reply, Requests

\* Chain puts both recorders around CORS and RequestLogger's around Recovery, so
\* that every write passes through all of them.
LEMMA Layers ==
  /\ \A l \in Recorders : Reaches(l, "CORS")
  /\ \A l \in Recorders : Reaches(l, "Recovery")
  /\ Returned = "returned"
<1>1. /\ 1 \in DOMAIN Chain /\ 2 \in DOMAIN Chain /\ 3 \in DOMAIN Chain /\ 4 \in DOMAIN Chain
      /\ Chain[2] = "RequestLogger" /\ Chain[3] = "Recovery" /\ Chain[4] = "CORS"
  BY DEF Chain
<1>2. Wraps("RequestLogger", "CORS") /\ Wraps("Recovery", "CORS")
  BY <1>1 DEF Wraps
<1>3. Wraps("RequestLogger", "Recovery") /\ Wraps("Recovery", "Recovery")
  BY <1>1 DEF Wraps
<1> QED BY <1>2, <1>3 DEF Reaches, Recorders, Returned

\* A status counts once, in every layer.
LEMMA WriteHeaderIs ==
  ASSUME NEW rs \in [Recorders -> Recorder], NEW code \in Statuses,
         NEW from \in {"CORS", "Recovery"},
         \A l \in Recorders : rs[l] = rs["net"]
  PROVE  LET out == WriteHeader(rs, from, code)
         IN  /\ out \in [Recorders -> Recorder]
             /\ \A l \in Recorders : out[l] = out["net"]
             /\ out["net"].wroteHeader
             /\ out["net"].bodies = rs["net"].bodies
             /\ rs["net"].wroteHeader => out["net"] = rs["net"]
             /\ ~rs["net"].wroteHeader => out["net"].status = code
<1> DEFINE r == rs["net"]
           o == [r EXCEPT !.status = code, !.wroteHeader = TRUE]
           one == IF ~r.wroteHeader THEN o ELSE r
<1>1. r \in Recorder
  BY DEF Recorders
<1>2. o \in Recorder /\ o.status = code /\ o.wroteHeader = TRUE /\ o.bodies = r.bodies
  BY <1>1 DEF Recorder
<1>3. WriteHeader(rs, from, code)
        = [l \in Recorders |->
             IF ~rs[l].wroteHeader
             THEN [rs[l] EXCEPT !.status = code, !.wroteHeader = TRUE] ELSE rs[l]]
  BY Layers, Zenon DEF WriteHeader
<1>4. WriteHeader(rs, from, code) = [l \in Recorders |-> one]
  BY <1>3, Zenon
<1> HIDE DEF o, r
<1> QED BY <1>1, <1>2, <1>4 DEF Recorders, r

\* A body is counted in every layer.
LEMMA WriteIs ==
  ASSUME NEW rs \in [Recorders -> Recorder], NEW from \in {"CORS", "Recovery"},
         \A l \in Recorders : rs[l] = rs["net"],
         rs["net"].wroteHeader
  PROVE  LET out == Write(rs, from)
         IN  /\ out \in [Recorders -> Recorder]
             /\ \A l \in Recorders : out[l] = out["net"]
             /\ out["net"].wroteHeader
             /\ out["net"].status = rs["net"].status
             /\ out["net"].bodies = rs["net"].bodies + 1
<1> DEFINE begun == WriteHeader(rs, from, 200)
           r == rs["net"]
           o == [r EXCEPT !.bodies = @ + 1]
<1>1. 200 \in Statuses
  BY DEF Statuses
<1>2. begun \in [Recorders -> Recorder] /\ \A l \in Recorders : begun[l] = r
  <2>1. \A l \in Recorders : begun[l] = begun["net"]
    BY <1>1, WriteHeaderIs
  <2>2. begun \in [Recorders -> Recorder] /\ begun["net"] = r
    BY <1>1, WriteHeaderIs
  <2> QED BY <2>1, <2>2
<1>3. Write(rs, from) = [l \in Recorders |-> [begun[l] EXCEPT !.bodies = @ + 1]]
  BY Layers DEF Write
<1> HIDE DEF begun
<1>4. Write(rs, from) = [l \in Recorders |-> o]
  BY <1>2, <1>3, Zenon
<1>5. r \in Recorder /\ r.wroteHeader = TRUE
  BY DEF Recorders, Recorder
<1>6. o \in Recorder /\ o.status = r.status /\ o.wroteHeader = TRUE /\ o.bodies = r.bodies + 1
  BY <1>5 DEF Recorder
<1> HIDE DEF o, r
<1> QED BY <1>4, <1>5, <1>6 DEF Recorders, r

\* A whole answer where there was nothing.
LEMMA AnsweredIs ==
  ASSUME TypeOK, OneView, ~Net.wroteHeader, Net.bodies = 0, NEW code \in Statuses,
         NEW from \in {"CORS", "Recovery"},
         resp' = Write(WriteHeader(resp, from, code), from)
  PROVE  /\ resp' \in [Recorders -> Recorder]
         /\ OneView'
         /\ Net'.wroteHeader /\ Net'.status = code /\ Net'.bodies = 1
<1> DEFINE begun == WriteHeader(resp, from, code)
<1>1. /\ begun \in [Recorders -> Recorder]
      /\ \A l \in Recorders : begun[l] = begun["net"]
      /\ begun["net"].wroteHeader /\ begun["net"].status = code /\ begun["net"].bodies = 0
  BY WriteHeaderIs DEF TypeOK, OneView, Net
<1> HIDE DEF begun
<1>2. resp' = Write(begun, from)
  BY DEF begun
<1>3. /\ resp' \in [Recorders -> Recorder]
      /\ \A l \in Recorders : resp'[l] = resp'["net"]
      /\ resp'["net"].wroteHeader /\ resp'["net"].status = code
      /\ resp'["net"].bodies = begun["net"].bodies + 1
  BY <1>1, <1>2, WriteIs
<1> QED BY <1>1, <1>3 DEF OneView, Net, Recorders

-----------------------------------------------------------------------------
(* Steps of three kinds, with what they do to the answer.                  *)

TypeAnswer == TypeOK /\ AnswerInv

\* Which steps come before the answer, and which after it.
LEMMA StepNames ==
  /\ Before \subseteq Steps
  /\ {"body", "written", "panicking", "returned", "finished", "aborted"} \subseteq Steps \ Before
  /\ Storing \union {"ping", "sign"} \subseteq Before \ {"header"}
BY DEF Before, Steps, InHandler, Storing

\* The handler goes on and nothing is written or committed.
LEMMA GoesOn ==
  ASSUME TypeAnswer, req.at \in Before \ {"header"},
         req' \in Requests, req'.at \in Before \ {"header"},
         req'.route = req.route, req'.effect = req.effect,
         req'.at = "ping" => req.route = "ready",
         req'.at = "revokeAll" => req.route = "refresh",
         UNCHANGED <<resp, log, held, status, now, lastActive>>
  PROVE  TypeAnswer'
<1>1. TypeOK'
  BY DEF TypeAnswer, TypeOK
<1>2. OneView' /\ Net' = Net
  BY DEF TypeAnswer, AnswerInv, OneView, Net
<1>3. req'.at \notin {"body", "written", "returned", "finished", "header"}
  BY DEF Before, Storing
<1>4. req.at # "finished" /\ ~Net.wroteHeader
  BY DEF TypeAnswer, AnswerInv, Progress, Before, Storing
<1>5. Progress' /\ Honest'
  BY <1>2, <1>3, <1>4 DEF TypeAnswer, AnswerInv, Progress, Honest
<1>6. LogIsTrue'
  BY <1>3, <1>4 DEF TypeAnswer, AnswerInv, LogIsTrue
<1> QED BY <1>1, <1>2, <1>5, <1>6 DEF TypeAnswer, AnswerInv

\* A service or a probe has a result, and the handler a status for it.
LEMMA Replies ==
  ASSUME TypeAnswer, req.at \in Before \ {"header"},
         NEW code \in Statuses, NEW effect \in {"none", "done", "ended"}, Reply(code, effect),
         code \in 200..299 /\ req.route \in Mutating => effect = "done",
         code \in 400..499 =>
           effect = "none" \/ (effect = "ended" /\ req.route = "refresh" /\ code = 401),
         UNCHANGED <<resp, log, held, status, now, lastActive>>
  PROVE  TypeAnswer'
<1>1. /\ req' \in Requests /\ req'.at = "header" /\ req'.code = code /\ req'.effect = effect
      /\ req'.route = req.route
  BY ReplyIs DEF TypeAnswer
<1>2. TypeOK'
  BY <1>1 DEF TypeAnswer, TypeOK
<1>3. OneView' /\ Net' = Net
  BY DEF TypeAnswer, AnswerInv, OneView, Net
<1>4. req.at # "finished" /\ ~Net.wroteHeader
  BY DEF TypeAnswer, AnswerInv, Progress, Before, Storing
<1>5. Progress'
  BY <1>1, <1>3, <1>4 DEF TypeAnswer, AnswerInv, Progress
<1>6. Truthful(code)' /\ code # 0
  BY <1>1 DEF Truthful, Statuses
<1>7. Honest'
  BY <1>1, <1>3, <1>4, <1>6 DEF Honest
<1>8. LogIsTrue'
  BY <1>1, <1>4 DEF TypeAnswer, AnswerInv, LogIsTrue
<1> QED BY <1>2, <1>3, <1>5, <1>7, <1>8 DEF TypeAnswer, AnswerInv

\* A whole answer goes out where there was none.
LEMMA Answers ==
  ASSUME TypeAnswer, ~Net.wroteHeader,
         req.at # "finished", NEW step \in {"written", "returned"}, Goto(step),
         NEW code \in Statuses, NEW from \in {"CORS", "Recovery"}, Truthful(code),
         resp' = Write(WriteHeader(resp, from, code), from),
         UNCHANGED <<log, held, status, now, lastActive>>
  PROVE  TypeAnswer'
<1>1. step \in Steps
  BY StepNames DEF InHandler, Steps
<1>2. req' \in Requests /\ req'.at = step /\ req'.route = req.route /\ req'.effect = req.effect
  BY <1>1, GotoIs DEF TypeAnswer
<1>3. Net.bodies = 0
  BY DEF TypeAnswer, AnswerInv, Progress
<1>4. /\ resp' \in [Recorders -> Recorder] /\ OneView'
      /\ Net'.wroteHeader /\ Net'.status = code /\ Net'.bodies = 1
  BY <1>3, AnsweredIs DEF TypeAnswer, AnswerInv
<1>5. TypeOK'
  BY <1>2, <1>4 DEF TypeAnswer, TypeOK
<1>a. /\ req'.at \notin Before
      /\ req'.at # "body" /\ req'.at # "header" /\ req'.at # "ping" /\ req'.at # "revokeAll"
  BY <1>2 DEF Before, Storing
<1>6. Progress'
  <2>1. Net'.bodies <= 1
    BY <1>4
  <2> QED BY <1>a, <1>4, <2>1, Zenon DEF Progress
<1>b. Truthful(code)'
  BY <1>2 DEF Truthful
<1>7. Honest'
  BY <1>a, <1>b, <1>4 DEF Honest
<1>8. LogIsTrue'
  BY <1>2 DEF TypeAnswer, AnswerInv, LogIsTrue
<1> QED BY <1>4, <1>5, <1>6, <1>7, <1>8 DEF TypeAnswer, AnswerInv

\* What the invariant says of a request whose handler has not answered.
LEMMA Unanswered ==
  ASSUME TypeAnswer, req.at \in Before \ {"header"}
  PROVE  ~Net.wroteHeader /\ Net.bodies = 0 /\ req.effect = "none"
BY DEF TypeAnswer, AnswerInv, Progress, Honest

-----------------------------------------------------------------------------
(* Every step keeps the types and the answer.                              *)

\* A connection without a request has nothing to answer.
LEMMA InitAnswer == Init => TypeAnswer
<1> SUFFICES ASSUME Init PROVE TypeAnswer
  OBVIOUS
<1>1. Forged \in Tokens /\ NewRecorder \in Recorder
  BY DEF Forged, Tokens, NewRecorder, Recorder, Statuses
<1>2. NoRequest \in Requests /\ NoRequest.at = "idle"
  BY <1>1 DEF NoRequest, Requests, Steps, Routes
<1>3. TypeOK
  BY <1>1, <1>2 DEF TypeOK, Init
<1>4. OneView /\ Net = NewRecorder
  BY DEF Init, OneView, Net, Recorders
<1>5. ~Net.wroteHeader /\ Net.bodies = 0
  BY <1>4 DEF NewRecorder
<1>6. Progress
  BY <1>2, <1>5 DEF Progress, Init
<1>7. Honest
  BY <1>2, <1>5 DEF Honest, Init, NoRequest
<1>8. LogIsTrue
  BY <1>2 DEF LogIsTrue, Init
<1> QED BY <1>3, <1>4, <1>6, <1>7, <1>8 DEF TypeAnswer, AnswerInv

\* A new request has sent nothing.
LEMMA ArriveAnswer == TypeAnswer /\ Arrive => TypeAnswer'
<1> SUFFICES ASSUME TypeAnswer, Arrive PROVE TypeAnswer'
  OBVIOUS
<1>1. PICK route \in Routes, t \in {held, Forged} :
        req' = [NoRequest EXCEPT !.at = "mux", !.route = route, !.token = t]
  BY DEF Arrive
<1>2. t \in Tokens /\ Forged \in Tokens
  <2>1. Forged \in Tokens
    BY DEF Forged, Tokens
  <2> QED BY <2>1 DEF TypeAnswer, TypeOK
<1>3. req' = [at |-> "mux", route |-> route, token |-> t, user |-> FALSE,
              code |-> 0, effect |-> "none", read |-> 0, minted |-> Forged]
  BY <1>1 DEF NoRequest
<1>4. req' \in Requests /\ req'.at = "mux" /\ req'.effect = "none"
  BY <1>2, <1>3 DEF Requests, Steps, InHandler
<1>5. NewRecorder \in Recorder
  BY DEF NewRecorder, Recorder, Statuses
<1>6. resp' \in [Recorders -> Recorder] /\ OneView' /\ Net' = NewRecorder
  BY <1>5 DEF Arrive, OneView, Net, Recorders
<1>7. ~Net'.wroteHeader /\ Net'.bodies = 0
  BY <1>6 DEF NewRecorder
<1>8. TypeOK'
  BY <1>4, <1>6 DEF Arrive, TypeAnswer, TypeOK
<1>9. Progress' /\ Honest'
  BY <1>4, <1>7 DEF Progress, Honest
<1>10. LogIsTrue'
  BY <1>4 DEF LogIsTrue, Arrive
<1> QED BY <1>6, <1>8, <1>9, <1>10 DEF TypeAnswer, AnswerInv

\* The mux sends a request on, or refuses it with nothing changed.
LEMMA DispatchAnswer == TypeAnswer /\ Dispatch => TypeAnswer'
<1> SUFFICES ASSUME TypeAnswer, Dispatch PROVE TypeAnswer'
  OBVIOUS
<1>1. req.at \in Before \ {"header"} /\ req.effect = "none" /\ req.route \in Routes
  BY DEF Dispatch, Before, TypeAnswer, AnswerInv, Honest, TypeOK, Requests
<1>2. UNCHANGED <<resp, log, held, status, now, lastActive>>
  BY DEF Dispatch
<1>3. CASE \E code \in {200, 404, 405} : Reply(code, "none") /\ req.route \notin Mutating
  BY <1>1, <1>2, <1>3, Replies DEF Statuses
<1>4. CASE \E step \in {"ping", "auth", "decode"} : Goto(step) /\ (step = "ping" => req.route = "ready")
  <2>1. PICK step \in {"ping", "auth", "decode"} : Goto(step) /\ (step = "ping" => req.route = "ready")
    BY <1>4
  <2>2. step \in Before \ {"header"} /\ step \in Steps /\ step # "revokeAll"
    BY StepNames DEF Before, Storing
  <2> QED BY <1>1, <1>2, <2>1, <2>2, GotoIs, GoesOn DEF TypeAnswer
<1>5. \/ \E code \in {200, 404, 405} : Reply(code, "none") /\ req.route \notin Mutating
      \/ \E step \in {"ping", "auth", "decode"} : Goto(step) /\ (step = "ping" => req.route = "ready")
  <2>1. CASE req.route = "unknownPath"
    <3>1. Reply(404, "none")
      BY <2>1 DEF Dispatch, Protected
    <3> QED BY <2>1, <3>1 DEF Mutating
  <2>2. CASE req.route = "wrongMethod"
    <3>1. Reply(405, "none")
      BY <2>2 DEF Dispatch, Protected
    <3> QED BY <2>2, <3>1 DEF Mutating
  <2>3. CASE req.route = "health"
    <3>1. Reply(200, "none")
      BY <2>3 DEF Dispatch, Protected
    <3> QED BY <2>3, <3>1 DEF Mutating
  <2>4. CASE req.route = "ready"
    <3>1. Goto("ping")
      BY <2>4 DEF Dispatch, Protected
    <3> QED BY <2>4, <3>1
  <2>5. CASE req.route \in Protected
    <3>1. Goto("auth")
      BY <2>5 DEF Dispatch, Protected
    <3> QED BY <3>1
  <2>6. CASE req.route \notin {"unknownPath", "wrongMethod", "health", "ready"} \union Protected
    <3>1. Goto("decode")
      BY <2>6 DEF Dispatch, Protected
    <3> QED BY <3>1
  <2> QED BY <2>1, <2>2, <2>3, <2>4, <2>5, <2>6
<1> QED BY <1>3, <1>4, <1>5

\* CORS's own answer has a status and no body.
LEMMA PreflightAnswer == TypeAnswer /\ Preflight => TypeAnswer'
<1> SUFFICES ASSUME TypeAnswer, Preflight PROVE TypeAnswer'
  OBVIOUS
<1>1. req.at = "mux" /\ req.route = "preflight" /\ req.at \in Before \ {"header"}
  BY DEF Preflight, Before
<1>2. ~Net.wroteHeader /\ Net.bodies = 0 /\ req.effect = "none"
  BY <1>1, Unanswered
<1>3. req' \in Requests /\ req'.at = "written" /\ req'.route = req.route /\ req'.effect = req.effect
  BY GotoIs, StepNames DEF Preflight, TypeAnswer
<1>4. /\ resp' \in [Recorders -> Recorder] /\ OneView'
      /\ Net'.wroteHeader /\ Net'.status = 204 /\ Net'.bodies = 0
  BY <1>2, WriteHeaderIs DEF Preflight, TypeAnswer, TypeOK, AnswerInv, OneView, Net, Statuses
<1>5. TypeOK'
  BY <1>3, <1>4 DEF Preflight, TypeAnswer, TypeOK
<1>6. Progress'
  <2>1. Net'.bodies <= 1
    BY <1>4
  <2>2. "written" \notin Before
    BY StepNames
  <2> QED BY <1>3, <1>4, <2>1, <2>2 DEF Progress
<1>7. Honest'
  BY <1>1, <1>2, <1>3, <1>4, StepNames DEF Honest, Truthful, Mutating
<1>8. LogIsTrue'
  BY <1>1, <1>3 DEF TypeAnswer, AnswerInv, LogIsTrue, Preflight
<1> QED BY <1>4, <1>5, <1>6, <1>7, <1>8 DEF TypeAnswer, AnswerInv

\* The bearer check ends the request, or names its user and lets it in.
LEMMA AuthAnswer == TypeAnswer /\ Auth => TypeAnswer'
<1> SUFFICES ASSUME TypeAnswer, Auth PROVE TypeAnswer'
  OBVIOUS
<1>1. req.at = "auth" /\ req.at \in Before \ {"header"}
  BY DEF Auth, Before
<1>2. CASE ParseAccessToken(req.token)
  <2>1. req' = [req EXCEPT !.at = AfterAuth, !.user = TRUE] /\ UNCHANGED <<resp, log, held, status, now, lastActive>>
    BY <1>2 DEF Auth
  <2>2. AfterAuth \in {"decode", "identify"}
    BY DEF AfterAuth
  <2>3. AfterAuth \in Steps /\ AfterAuth \in Before \ {"header"} /\ AfterAuth \notin {"ping", "revokeAll"}
    BY <2>2, StepNames DEF Before
  <2>4. req' \in Requests /\ req'.at = AfterAuth /\ req'.route = req.route /\ req'.effect = req.effect
    BY <2>1, <2>3 DEF TypeAnswer, TypeOK, Requests
  <2> QED BY <1>1, <2>1, <2>3, <2>4, GoesOn
<1>3. CASE ~ParseAccessToken(req.token)
  <2>1. /\ resp' = Write(WriteHeader(resp, "CORS", 401), "CORS")
        /\ Goto("written") /\ UNCHANGED <<log, held, status, now, lastActive>>
    BY <1>3 DEF Auth, Error
  <2>2. ~Net.wroteHeader /\ req.effect = "none"
    BY <1>1, Unanswered
  <2>3. Truthful(401) /\ 401 \in Statuses
    BY <2>2 DEF Truthful, Statuses
  <2> QED BY <1>1, <2>1, <2>2, <2>3, Answers
<1> QED BY <1>2, <1>3

\* A body that does not decode is answered at once.
LEMMA DecodeAnswer == TypeAnswer /\ DecodeJSON => TypeAnswer'
<1> SUFFICES ASSUME TypeAnswer, DecodeJSON PROVE TypeAnswer'
  OBVIOUS
<1>1. req.at = "decode" /\ req.at \in Before \ {"header"}
  BY DEF DecodeJSON, Before
<1>2. CASE /\ resp' = Write(WriteHeader(resp, "CORS", 400), "CORS")
           /\ Goto("written") /\ UNCHANGED <<log, held, status, now, lastActive>>
  <2>1. ~Net.wroteHeader /\ req.effect = "none"
    BY <1>1, Unanswered
  <2>2. Truthful(400) /\ 400 \in Statuses
    BY <2>1 DEF Truthful, Statuses
  <2> QED BY <1>1, <1>2, <2>1, <2>2, Answers
<1>3. CASE \E step \in {"identify", "store"} :
              Goto(step) /\ UNCHANGED <<resp, log, held, status, now, lastActive>>
  <2>1. PICK step \in {"identify", "store"} :
              Goto(step) /\ UNCHANGED <<resp, log, held, status, now, lastActive>>
    BY <1>3
  <2>2. step \in Steps /\ step \in Before \ {"header"} /\ step \notin {"ping", "revokeAll"}
    BY StepNames DEF Before, Storing
  <2> QED BY <1>1, <2>1, <2>2, GotoIs, GoesOn DEF TypeAnswer
<1> QED BY <1>2, <1>3 DEF DecodeJSON, Error

\* A panic, or an abort, leaves what was written and what was committed.
LEMMA UnwindAnswer ==
  ASSUME TypeAnswer, req.at \in InHandler, NEW step \in {"panicking", "aborted"}, Goto(step),
         UNCHANGED <<resp, log, held, status, now, lastActive>>
  PROVE  TypeAnswer'
<1>1. step \in Steps /\ step \notin Before
  BY StepNames
<1>2. req' \in Requests /\ req'.at = step /\ req'.route = req.route /\ req'.effect = req.effect
  BY <1>1, GotoIs DEF TypeAnswer
<1>3. TypeOK'
  BY <1>2 DEF TypeAnswer, TypeOK
<1>4. OneView' /\ Net' = Net
  BY DEF TypeAnswer, AnswerInv, OneView, Net
<1>5. Progress'
  BY <1>1, <1>2, <1>4 DEF TypeAnswer, AnswerInv, Progress
<1>6. Honest'
  <2>1. req'.at \notin Before \union {"header", "body", "ping", "revokeAll"}
    BY <1>1, <1>2
  <2>2. Net'.wroteHeader => Truthful(Net.status)
    BY <1>4 DEF TypeAnswer, AnswerInv, Honest
  <2>3. Net'.wroteHeader => Truthful(Net.status)'
    BY <1>2, <1>4, <2>2 DEF Truthful
  <2> QED BY <1>4, <2>1, <2>3 DEF Honest
<1>7. req.at # "finished"
  BY DEF InHandler, Storing
<1>8. LogIsTrue'
  BY <1>2, <1>7 DEF TypeAnswer, AnswerInv, LogIsTrue
<1> QED BY <1>3, <1>4, <1>5, <1>6, <1>8 DEF TypeAnswer, AnswerInv

\* Where the user is missing, the handler panics.
LEMMA IdentifyAnswer == TypeAnswer /\ RequireUserID => TypeAnswer'
<1> SUFFICES ASSUME TypeAnswer, RequireUserID PROVE TypeAnswer'
  OBVIOUS
<1>1. /\ req.at = "identify" /\ req.at \in Before \ {"header"} /\ req.at \in InHandler
      /\ UNCHANGED <<resp, log, held, status, now, lastActive>>
  BY DEF RequireUserID, Before, InHandler
<1>2. CASE Goto("panicking")
  BY <1>1, <1>2, UnwindAnswer
<1>3. CASE Goto("store")
  <2>1. "store" \in Steps /\ "store" \in Before \ {"header"}
    BY StepNames DEF Before, Storing
  <2> QED BY <1>1, <1>3, <2>1, GotoIs, GoesOn DEF TypeAnswer
<1> QED BY <1>2, <1>3 DEF RequireUserID

-----------------------------------------------------------------------------
(* The calls of the services.                                              *)

\* A call that succeeds or fails without a change.
LEMMA StoreReplies ==
  ASSUME TypeAnswer, req.at \in Storing \union {"ping", "sign"},
         NEW code \in Statuses, NEW effect \in {"none", "done", "ended"}, Reply(code, effect),
         \/ effect = "done" /\ code \notin 400..499
         \/ effect = "none" /\ (code \notin 200..299 \/ req.route \notin Mutating)
         \/ effect = "ended" /\ code = 401 /\ req.route = "refresh"
         \/ code = 500,
         UNCHANGED <<resp, log, held, status, now, lastActive>>
  PROVE  TypeAnswer'
<1>1. req.at \in Before \ {"header"}
  BY StepNames
<1>2. code \in 200..299 /\ req.route \in Mutating => effect = "done"
  OBVIOUS
<1>3. code \in 400..499 => effect = "none" \/ (effect = "ended" /\ req.route = "refresh" /\ code = 401)
  OBVIOUS
<1> QED BY <1>1, <1>2, <1>3, Replies

\* Between two calls of the store a handler sends nothing.
LEMMA StoreMoves ==
  ASSUME TypeAnswer, req.at \in Storing \union {"sign"},
         req' \in Requests, req'.at \in {"sign", "create", "owner", "rotate", "revokeAll"},
         req'.route = req.route, req'.effect = req.effect,
         req'.at = "revokeAll" => req.route = "refresh",
         UNCHANGED <<resp, log, held, status, now, lastActive>>
  PROVE  TypeAnswer'
<1>1. req.at \in Before \ {"header"} /\ req'.at \in Before \ {"header"} /\ req'.at # "ping"
  BY DEF Before, Storing
<1> QED BY <1>1, GoesOn

\* The statuses of the errors.
LEMMA ErrorStatuses ==
  /\ handleServiceError.ErrEmailTaken = 409 /\ handleServiceError.ErrInvalidCredentials = 401
  /\ handleServiceError.ErrAccountNotActive = 403 /\ handleServiceError.ErrInvalidRefreshToken = 401
  /\ handleServiceError.unexpected = 500
  /\ handleUserServiceError.ErrNotFound = 404 /\ handleUserServiceError.unexpected = 500
BY DEF handleServiceError, handleUserServiceError

\* Signing keeps a request well typed.
LEMMA MintType ==
  ASSUME TypeOK, NEW at \in Nat, NEW readAt \in Nat
  PROVE  IssueAccessToken(at, readAt) \in Tokens
BY DEF IssueAccessToken, Token, Tokens

\* The handlers of registration, login and logout answer what they did.
LEMMA PublicAnswer == TypeAnswer /\ (Register \/ Login \/ Sign \/ StartSession \/ Logout) => TypeAnswer'
<1> SUFFICES ASSUME TypeAnswer, Register \/ Login \/ Sign \/ StartSession \/ Logout PROVE TypeAnswer'
  OBVIOUS
<1>1. /\ req.at \in Storing \union {"ping", "sign"}
      /\ UNCHANGED <<resp, log, held, status, now, lastActive>>
  BY DEF Register, Login, Sign, StartSession, Logout, Storing
<1>2. {200, 201, 204, 401, 403, 409, 500} \subseteq Statuses
  BY DEF Statuses
<1>3. CASE \/ Reply(201, "done") \/ Reply(409, "none") \/ Reply(401, "none")
           \/ Reply(403, "none") \/ Reply(200, "done") \/ Reply(204, "done") \/ Reply(500, "none")
  BY <1>1, <1>2, <1>3, StoreReplies
<1>4. CASE Reply(204, "none") /\ req.route = "logout"
  BY <1>1, <1>2, <1>4, StoreReplies DEF Mutating
<1>a. "sign" \in Steps /\ "create" \in Steps
  BY DEF Steps, InHandler, Storing
<1>b. CASE req.at # "ping" /\ req' = [req EXCEPT !.at = "sign", !.read = now]
  <2>1. req' \in Requests /\ req'.at = "sign" /\ req'.route = req.route /\ req'.effect = req.effect
    BY <1>a, <1>b DEF TypeAnswer, TypeOK, Requests
  <2> QED BY <1>1, <1>b, <2>1, StoreMoves
<1>5. CASE req.at # "ping" /\ req' = [req EXCEPT !.at = "create", !.minted = IssueAccessToken(now, req.read)]
  <2>1. PICK minted \in Tokens : req' = [req EXCEPT !.at = "create", !.minted = minted]
    BY <1>5, MintType DEF TypeAnswer, TypeOK, Requests
  <2>2. req' \in Requests /\ req'.at = "create" /\ req'.route = req.route /\ req'.effect = req.effect
    BY <1>a, <2>1 DEF TypeAnswer, TypeOK, Requests
  <2> QED BY <1>1, <1>5, <2>2, StoreMoves
<1>6. CASE Register
  BY <1>3, <1>6, ErrorStatuses DEF Register
<1>7. CASE Login
  BY <1>3, <1>b, <1>7, ErrorStatuses DEF Login
<1>8. CASE Sign
  BY <1>3, <1>5, <1>8, ErrorStatuses DEF Sign
<1>9. CASE StartSession
  BY <1>3, <1>9 DEF StartSession
<1>10. CASE Logout
  BY <1>3, <1>4, <1>10 DEF Logout
<1> QED BY <1>6, <1>7, <1>8, <1>9, <1>10

\* So does that of refresh, whichever of its calls decides.
LEMMA RefreshAnswer == TypeAnswer /\ (Refresh \/ RevokeAll \/ CheckOwner \/ Rotate) => TypeAnswer'
<1> SUFFICES ASSUME TypeAnswer, Refresh \/ RevokeAll \/ CheckOwner \/ Rotate PROVE TypeAnswer'
  OBVIOUS
<1>1. /\ req.at \in Storing
      /\ UNCHANGED <<resp, log, held, status, now, lastActive>>
  BY DEF Refresh, RevokeAll, CheckOwner, Rotate, Storing
<1>2. {200, 401, 403} \subseteq Statuses
  BY DEF Statuses
<1>3. CASE Reply(401, "none") \/ Reply(403, "none")
  BY <1>1, <1>2, <1>3, StoreReplies
<1>4. CASE Reply(401, "ended") /\ req.route = "refresh"
  BY <1>1, <1>2, <1>4, StoreReplies
<1>5. CASE Goto("rotate") \/ (Goto("revokeAll") /\ req.route = "refresh")
  <2>1. "rotate" \in Steps /\ "revokeAll" \in Steps
    BY DEF Steps, InHandler, Storing
  <2> QED BY <1>1, <1>5, <2>1, GotoIs, StoreMoves DEF TypeAnswer
<1>6. CASE req' = [req EXCEPT !.at = "owner", !.read = now]
  <2>1. "owner" \in Steps /\ now \in Nat
    BY DEF Steps, InHandler, Storing, TypeAnswer, TypeOK
  <2>2. req' \in Requests /\ req'.at = "owner" /\ req'.route = req.route /\ req'.effect = req.effect
    BY <1>6, <2>1 DEF TypeAnswer, TypeOK, Requests
  <2> QED BY <1>1, <2>2, StoreMoves
<1>7. CASE req' = [req EXCEPT !.at = "header", !.code = 200, !.effect = "done",
                              !.minted = IssueAccessToken(req.read, req.read)]
  <2>1. PICK minted \in Tokens :
          req' = [req EXCEPT !.at = "header", !.code = 200, !.effect = "done", !.minted = minted]
    BY <1>7, MintType DEF TypeAnswer, TypeOK, Requests
  <2>2. /\ req' \in Requests /\ req'.at = "header" /\ req'.code = 200 /\ req'.effect = "done"
        /\ req'.route = req.route
    <3>1. "header" \in Steps /\ 200 \in Statuses
      BY <1>2 DEF Steps, InHandler
    <3> QED BY <2>1, <3>1 DEF TypeAnswer, TypeOK, Requests
  <2>3. TypeOK'
    BY <1>1, <2>2 DEF TypeAnswer, TypeOK
  <2>4. OneView' /\ Net' = Net
    BY <1>1 DEF TypeAnswer, AnswerInv, OneView, Net
  <2>5. req.at # "finished" /\ ~Net.wroteHeader
    BY <1>1, Unanswered, StepNames DEF Storing
  <2>6. Progress'
    BY <2>2, <2>4, <2>5 DEF TypeAnswer, AnswerInv, Progress
  <2>7. Honest'
    <3>1. Truthful(200)'
      BY <2>2 DEF Truthful
    <3> QED BY <2>2, <2>4, <2>5, <3>1 DEF Honest
  <2>8. LogIsTrue'
    BY <1>1, <2>2, <2>5 DEF TypeAnswer, AnswerInv, LogIsTrue
  <2> QED BY <2>3, <2>4, <2>6, <2>7, <2>8 DEF TypeAnswer, AnswerInv
<1>8. CASE Refresh
  BY <1>3, <1>5, <1>6, <1>8, ErrorStatuses DEF Refresh
<1>9. CASE RevokeAll
  <2>1. req.route = "refresh"
    BY <1>9 DEF RevokeAll, TypeAnswer, AnswerInv, Honest
  <2>2. Reply(401, "none") \/ Reply(401, "ended")
    BY <1>9, ErrorStatuses DEF RevokeAll
  <2> QED BY <1>3, <1>4, <2>1, <2>2
<1>10. CASE CheckOwner
  <2>1. status \in {"active", "suspended", "deleted"}
    BY DEF TypeAnswer, TypeOK
  <2>2. Goto("rotate") \/ Reply(403, "none") \/ Reply(401, "none")
    BY <1>10, <2>1, ErrorStatuses DEF CheckOwner
  <2> QED BY <1>3, <1>5, <2>2
<1>11. CASE Rotate
  BY <1>3, <1>7, <1>11, ErrorStatuses DEF Rotate
<1> QED BY <1>8, <1>9, <1>10, <1>11

\* So do those of the profile.
LEMMA ProfileAnswer == TypeAnswer /\ (Profile \/ UpdateProfile) => TypeAnswer'
<1> SUFFICES ASSUME TypeAnswer, Profile \/ UpdateProfile PROVE TypeAnswer'
  OBVIOUS
<1>1. /\ req.at \in Storing
      /\ UNCHANGED <<resp, log, held, status, now, lastActive>>
  BY DEF Profile, UpdateProfile, Storing
<1>2. {200, 404} \subseteq Statuses
  BY DEF Statuses
<1>3. CASE Profile
  <2>1. req.route \notin Mutating
    BY <1>3 DEF Profile, Mutating
  <2>2. Reply(404, "none") \/ Reply(200, "none")
    BY <1>3, ErrorStatuses DEF Profile
  <2> QED BY <1>1, <1>2, <2>1, <2>2, StoreReplies
<1>4. CASE UpdateProfile
  <2>1. Reply(404, "none") \/ Reply(200, "done")
    BY <1>4, ErrorStatuses DEF UpdateProfile
  <2> QED BY <1>1, <1>2, <2>1, StoreReplies
<1> QED BY <1>3, <1>4

\* A failed call is a 500, whatever it committed; a ping a 200 or a 503.
LEMMA FailsAnswer == TypeAnswer /\ (StoreFails \/ Ping \/ PingTimeout) => TypeAnswer'
<1> SUFFICES ASSUME TypeAnswer, StoreFails \/ Ping \/ PingTimeout PROVE TypeAnswer'
  OBVIOUS
<1>1. /\ req.at \in Storing \union {"ping"}
      /\ UNCHANGED <<resp, log, held, status, now, lastActive>>
  BY DEF StoreFails, Ping, PingTimeout
<1>2. {200, 500, 503} \subseteq Statuses
  BY DEF Statuses
<1>3. CASE StoreFails
  <2>1. PICK effect \in Committable : Reply(500, effect)
    BY <1>3, ErrorStatuses DEF StoreFails
  <2>2. effect \in {"none", "done", "ended"}
    BY DEF Committable
  <2> QED BY <1>1, <1>2, <2>1, <2>2, StoreReplies
<1>4. CASE Ping \/ PingTimeout
  <2>1. Reply(200, "none") \/ Reply(503, "none")
    BY <1>4 DEF Ping, PingTimeout
  <2>2. req.at = "ping" => req.route \notin Mutating
    BY DEF TypeAnswer, AnswerInv, Honest, Mutating
  <2>3. req.at = "ping"
    BY <1>4 DEF Ping, PingTimeout
  <2> QED BY <1>1, <1>2, <2>1, <2>2, <2>3, StoreReplies
<1> QED BY <1>3, <1>4

-----------------------------------------------------------------------------
(* The writing of the answer, the recovery and the log.                    *)

\* The status, or the whole of an encoding failure's answer.
LEMMA StatusAnswer == TypeAnswer /\ WriteStatus => TypeAnswer'
<1> SUFFICES ASSUME TypeAnswer, WriteStatus PROVE TypeAnswer'
  OBVIOUS
<1>1. /\ req.at = "header" /\ req.at \in Before /\ req.at # "finished"
      /\ UNCHANGED <<log, held, status, now, lastActive>>
  BY DEF WriteStatus, Before
<1>2. /\ ~Net.wroteHeader /\ Net.bodies = 0
      /\ Truthful(req.code) /\ req.code \in Statuses
  BY <1>1 DEF TypeAnswer, AnswerInv, Progress, Honest, TypeOK, Requests
<1>3. CASE resp' = Write(WriteHeader(resp, "CORS", 500), "CORS") /\ Goto("written")
  <2>1. Truthful(500) /\ 500 \in Statuses
    BY DEF Truthful, Statuses
  <2> QED BY <1>1, <1>2, <1>3, <2>1, Answers
<1>4. ASSUME resp' = WriteHeader(resp, "CORS", req.code), NEW step \in {"written", "body"}, Goto(step),
             step = "written" => req.code = 204
      PROVE  TypeAnswer'
  <2>1. /\ resp' \in [Recorders -> Recorder] /\ OneView'
        /\ Net'.wroteHeader /\ Net'.status = req.code /\ Net'.bodies = 0
    BY <1>2, <1>4, WriteHeaderIs DEF TypeAnswer, TypeOK, AnswerInv, OneView, Net
  <2>2. step \in Steps /\ step \notin Before
    BY StepNames
  <2>3. /\ req' \in Requests /\ req'.at = step /\ req'.code = req.code
        /\ req'.route = req.route /\ req'.effect = req.effect
    BY <1>4, <2>2, GotoIs DEF TypeAnswer
  <2>4. TypeOK'
    BY <1>1, <2>1, <2>3 DEF TypeAnswer, TypeOK
  <2>5. Progress'
    <3>1. Net'.bodies <= 1
      BY <2>1
    <3>2. step = "body" \/ (step = "written" /\ Net'.status = 204)
      BY <1>4, <2>1
    <3>3. step = "written" => ~(Net'.status # 204)
      BY <3>2
    <3> QED BY <2>1, <2>2, <2>3, <3>1, <3>3, Zenon DEF Progress
  <2>6. Honest'
    <3>1. Truthful(req.code)'
      BY <1>2, <2>3 DEF Truthful
    <3>2. Truthful(Net.status)' /\ req.code # 0
      BY <1>2, <2>1, <2>3 DEF Truthful, Statuses
    <3>3. step \notin {"ping", "revokeAll"}
      OBVIOUS
    <3> QED BY <2>2, <2>3, <3>1, <3>2, <3>3 DEF Honest
  <2>7. LogIsTrue'
    BY <1>1, <2>3 DEF TypeAnswer, AnswerInv, LogIsTrue
  <2> QED BY <2>1, <2>4, <2>5, <2>6, <2>7 DEF TypeAnswer, AnswerInv
<1>5. \/ resp' = Write(WriteHeader(resp, "CORS", 500), "CORS") /\ Goto("written")
      \/ /\ resp' = WriteHeader(resp, "CORS", req.code)
         /\ \/ Goto("written") /\ req.code = 204
            \/ Goto("body")
  BY DEF WriteStatus, Error
<1> QED BY <1>3, <1>4, <1>5

\* WriteBody completes the answer, once.
LEMMA BodyAnswer == TypeAnswer /\ WriteBody => TypeAnswer'
<1> SUFFICES ASSUME TypeAnswer, WriteBody PROVE TypeAnswer'
  OBVIOUS
<1>1. req.at = "body" /\ Goto("written") /\ UNCHANGED <<log, status, now, lastActive>>
  BY DEF WriteBody
<1>2. /\ Net.wroteHeader /\ Net.bodies = 0 /\ req.at # "finished" /\ Truthful(Net.status)
  BY <1>1 DEF TypeAnswer, AnswerInv, Progress, Honest
<1>3. /\ req' \in Requests /\ req'.at = "written" /\ req'.route = req.route /\ req'.effect = req.effect
  BY <1>1, StepNames, GotoIs DEF TypeAnswer
<1>4. /\ resp' \in [Recorders -> Recorder] /\ OneView'
      /\ Net'.wroteHeader /\ Net'.status = Net.status /\ Net'.bodies = Net.bodies + 1
  BY <1>2, WriteIs DEF WriteBody, TypeAnswer, TypeOK, AnswerInv, OneView, Net
<1>5. held' \in Tokens
  BY DEF WriteBody, TypeAnswer, TypeOK, Requests
<1>6. TypeOK'
  BY <1>1, <1>3, <1>4, <1>5 DEF TypeAnswer, TypeOK
<1>7. Progress'
  <2>1. Net'.bodies <= 1 /\ Net'.bodies = 1
    BY <1>2, <1>4
  <2>2. "written" \notin Before
    BY StepNames
  <2> QED BY <1>3, <1>4, <2>1, <2>2 DEF Progress
<1>8. Honest'
  <2>1. Truthful(Net.status)'
    BY <1>2, <1>3, <1>4 DEF Truthful
  <2>2. "written" \notin Before
    BY StepNames
  <2> QED BY <1>3, <2>1, <2>2 DEF Honest
<1>9. LogIsTrue'
  BY <1>1, <1>2, <1>3 DEF TypeAnswer, AnswerInv, LogIsTrue
<1> QED BY <1>4, <1>6, <1>7, <1>8, <1>9 DEF TypeAnswer, AnswerInv

\* Recovery adds an answer only where there is none.
LEMMA RecoverAnswer == TypeAnswer /\ Recover => TypeAnswer'
<1> SUFFICES ASSUME TypeAnswer, Recover PROVE TypeAnswer'
  OBVIOUS
<1>1. req.at = "panicking" /\ Goto("returned") /\ UNCHANGED <<log, held, status, now, lastActive>>
  BY Layers DEF Recover
<1>2. resp["Recovery"] = Net
  BY DEF TypeAnswer, AnswerInv, OneView, Recorders
<1>3. CASE ~Net.wroteHeader
  <2>1. resp' = Write(WriteHeader(resp, "Recovery", 500), "Recovery")
    BY <1>2, <1>3 DEF Recover
  <2>2. Truthful(500) /\ 500 \in Statuses
    BY DEF Truthful, Statuses
  <2> QED BY <1>1, <1>3, <2>1, <2>2, Answers
<1>4. CASE Net.wroteHeader
  <2>1. resp' = resp
    BY <1>2, <1>4 DEF Recover
  <2>2. req' \in Requests /\ req'.at = "returned" /\ req'.route = req.route /\ req'.effect = req.effect
    BY <1>1, StepNames, GotoIs DEF TypeAnswer
  <2>3. TypeOK'
    BY <1>1, <2>1, <2>2 DEF TypeAnswer, TypeOK
  <2>4. OneView' /\ Net' = Net
    BY <2>1 DEF TypeAnswer, AnswerInv, OneView, Net
  <2>5. "returned" \notin Before
    BY StepNames
  <2>6. Progress'
    BY <1>4, <2>2, <2>4, <2>5 DEF TypeAnswer, AnswerInv, Progress
  <2>7. Truthful(Net.status)'
    <3>1. Truthful(Net.status)
      BY <1>4 DEF TypeAnswer, AnswerInv, Honest
    <3> QED BY <2>2, <2>4, <3>1 DEF Truthful
  <2>8. Honest'
    BY <2>2, <2>5, <2>7 DEF Honest
  <2>9. LogIsTrue'
    BY <1>1, <2>2 DEF TypeAnswer, AnswerInv, LogIsTrue
  <2> QED BY <2>3, <2>4, <2>6, <2>8, <2>9 DEF TypeAnswer, AnswerInv
<1> QED BY <1>3, <1>4

\* The line of the log is that of the response as it was sent.
LEMMA LogAnswer == TypeAnswer /\ LogRequest => TypeAnswer'
<1> SUFFICES ASSUME TypeAnswer, LogRequest PROVE TypeAnswer'
  OBVIOUS
<1>1. /\ req.at \in {"written", "returned"} /\ Goto("finished")
      /\ log' = Append(log, resp["RequestLogger"]) /\ UNCHANGED <<resp, held, status, now, lastActive>>
  BY DEF LogRequest
<1>2. req' \in Requests /\ req'.at = "finished" /\ req'.route = req.route /\ req'.effect = req.effect
  BY <1>1, StepNames, GotoIs DEF TypeAnswer
<1>3. TypeOK'
  BY <1>1, <1>2 DEF TypeAnswer, TypeOK
<1>4. OneView' /\ Net' = Net /\ resp["RequestLogger"] = Net
  BY <1>1 DEF TypeAnswer, AnswerInv, OneView, Net, Recorders
<1>5. "finished" \notin Before /\ Net.wroteHeader
  BY <1>1, StepNames DEF TypeAnswer, AnswerInv, Progress
<1>6. Progress'
  BY <1>2, <1>4, <1>5 DEF TypeAnswer, AnswerInv, Progress
<1>7. Truthful(Net.status)'
  <2>1. Truthful(Net.status)
    BY <1>5 DEF TypeAnswer, AnswerInv, Honest
  <2> QED BY <1>2, <1>4, <2>1 DEF Truthful
<1>8. Honest'
  BY <1>2, <1>5, <1>7 DEF Honest
<1>9. LogIsTrue'
  <2>1. log = <<>>
    BY <1>1 DEF TypeAnswer, AnswerInv, LogIsTrue
  <2>2. log' = <<Net>>
    BY <1>1, <1>4, <2>1
  <2> QED BY <1>2, <1>4, <2>2 DEF LogIsTrue
<1> QED BY <1>3, <1>4, <1>6, <1>8, <1>9 DEF TypeAnswer, AnswerInv

\* Steps around the request leave its answer as it is.
LEMMA SameAnswer ==
  ASSUME AnswerInv, UNCHANGED <<req, resp, log>>
  PROVE  AnswerInv'
<1>1. OneView' /\ Net' = Net
  BY DEF AnswerInv, OneView, Net
<1>2. Progress'
  BY <1>1 DEF AnswerInv, Progress
<1>3. Honest'
  <2>1. Truthful(req.code)' <=> Truthful(req.code)
    BY DEF Truthful
  <2>2. Truthful(Net.status)' <=> Truthful(Net.status)
    BY <1>1 DEF Truthful
  <2> QED BY <1>1, <2>1, <2>2 DEF AnswerInv, Honest
<1>4. LogIsTrue'
  BY <1>1 DEF AnswerInv, LogIsTrue
<1> QED BY <1>1, <1>2, <1>3, <1>4 DEF AnswerInv

\* The account and the clock are not part of the answer.
LEMMA WorldAnswer == TypeAnswer /\ (SetStatus \/ Tick) => TypeAnswer'
<1> SUFFICES ASSUME TypeAnswer, SetStatus \/ Tick PROVE TypeAnswer'
  OBVIOUS
<1>1. UNCHANGED <<req, resp, log, held>>
  BY DEF SetStatus, Tick
<1>2. /\ status' \in {"active", "suspended", "deleted"}
      /\ now' \in Nat /\ lastActive' \in Nat
  BY DEF SetStatus, Tick, TypeAnswer, TypeOK
<1>3. TypeOK'
  BY <1>1, <1>2 DEF TypeAnswer, TypeOK
<1>4. AnswerInv'
  BY <1>1, SameAnswer DEF TypeAnswer
<1> QED BY <1>3, <1>4 DEF TypeAnswer

\* The part of the invariant about the answer is inductive.
LEMMA NextAnswer == TypeAnswer /\ [Next]_vars => TypeAnswer'
<1> SUFFICES ASSUME TypeAnswer, [Next]_vars PROVE TypeAnswer'
  OBVIOUS
<1>1. CASE Arrive
  BY <1>1, ArriveAnswer
<1>2. CASE Serve
  BY <1>2, PreflightAnswer, DispatchAnswer, AuthAnswer, DecodeAnswer, IdentifyAnswer,
     PublicAnswer, FailsAnswer, StatusAnswer, BodyAnswer, RecoverAnswer, LogAnswer DEF Serve
<1>3. CASE Store
  BY <1>3, PublicAnswer, RefreshAnswer, ProfileAnswer, FailsAnswer DEF Store
<1>4. CASE Panic \/ Abort
  BY <1>4, UnwindAnswer DEF Panic, Abort
<1>5. CASE SetStatus \/ Tick
  BY <1>5, WorldAnswer
<1>6. CASE UNCHANGED vars
  <2>1. AnswerInv'
    BY <1>6, SameAnswer DEF vars, TypeAnswer
  <2>2. TypeOK'
    BY <1>6 DEF vars, TypeAnswer, TypeOK
  <2> QED BY <2>1, <2>2 DEF TypeAnswer
<1> QED BY <1>1, <1>2, <1>3, <1>4, <1>5, <1>6 DEF Next

-----------------------------------------------------------------------------
(* Access ends with the account.                                           *)

\* A step that leaves the tokens and the times a request holds.
LEMMA KeepsPower ==
  ASSUME TypeOK, PowerInv, UNCHANGED <<held, status, now, lastActive>>,
         req'.token = req.token, req'.minted = req.minted, req'.read = req.read,
         req'.at \notin {"sign", "rotate", "owner"},
         req'.at \in {"idle", "mux", "auth"} => req'.user = req.user /\ req.at \in {"idle", "mux", "auth"}
  PROVE  PowerInv'
BY DEF PowerInv, Timely

\* It follows for a reply that mints nothing,
LEMMA RepliesKeepPower ==
  ASSUME TypeOK, PowerInv, UNCHANGED <<held, status, now, lastActive>>,
         NEW code \in Statuses, NEW effect \in {"none", "done", "ended"}, Reply(code, effect)
  PROVE  PowerInv'
BY ReplyIs, KeepsPower

\* and for a move that is none of Login's or Refresh's.
LEMMA MovesKeepPower ==
  ASSUME TypeOK, PowerInv, UNCHANGED <<held, status, now, lastActive>>,
         NEW step \in Steps \ {"sign", "rotate", "owner"}, Goto(step),
         step \in {"idle", "mux", "auth"} => req.at = "mux"
  PROVE  PowerInv'
<1>1. /\ req'.at = step /\ req'.token = req.token /\ req'.minted = req.minted
      /\ req'.read = req.read /\ req'.user = req.user
  BY GotoIs
<1> QED BY <1>1, KeepsPower

\* No signature is in use at the start.
LEMMA InitPower == Init => PowerInv
BY DEF Init, PowerInv, Timely, NoRequest, Forged

\* A request brings the token its client was given, or a forged one.
LEMMA ArrivePower == TypeOK /\ PowerInv /\ Arrive => PowerInv'
<1> SUFFICES ASSUME TypeOK, PowerInv, Arrive PROVE PowerInv'
  OBVIOUS
<1>1. PICK route \in Routes, t \in {held, Forged} :
        req' = [NoRequest EXCEPT !.at = "mux", !.route = route, !.token = t]
  BY DEF Arrive
<1>2. /\ req'.at = "mux" /\ req'.token \in {held, Forged} /\ req'.minted = Forged
      /\ req'.user = FALSE
  BY <1>1 DEF NoRequest
<1>3. ~Forged.signed
  BY DEF Forged
<1> QED BY <1>2, <1>3 DEF Arrive, PowerInv, Timely

\* The account was active when Login read it; the clock may have moved on since.
LEMMA LoginPower == TypeOK /\ PowerInv /\ (Login \/ Sign) => PowerInv'
<1> SUFFICES ASSUME TypeOK, PowerInv, Login \/ Sign PROVE PowerInv'
  OBVIOUS
<1>1. UNCHANGED <<held, status, now, lastActive>>
  BY DEF Login, Sign
<1>2. {401, 403, 500} \subseteq Statuses
  BY DEF Statuses
<1>3. CASE Login
  <2>1. CASE status = "active" /\ req' = [req EXCEPT !.at = "sign", !.read = now]
    <3>1. /\ req'.at = "sign" /\ req'.read = now /\ req'.token = req.token /\ req'.minted = req.minted
      BY <2>1 DEF TypeOK, Requests
    <3> QED BY <1>1, <2>1, <3>1 DEF PowerInv, Timely, TypeOK
  <2>2. CASE Reply(401, "none") \/ Reply(403, "none")
    BY <1>1, <1>2, <2>2, RepliesKeepPower
  <2> QED BY <1>3, <2>1, <2>2, ErrorStatuses DEF Login
<1>4. CASE Sign
  <2>1. CASE req' = [req EXCEPT !.at = "create", !.minted = IssueAccessToken(now, req.read)]
    <3>1. /\ req'.at = "create" /\ req'.minted = IssueAccessToken(now, req.read)
          /\ req'.token = req.token
      BY <2>1 DEF TypeOK, Requests
    <3>2. req.read <= lastActive /\ lastActive <= now /\ req.read \in Nat /\ now \in Nat /\ lastActive \in Nat
      BY <1>4 DEF Sign, PowerInv, TypeOK, Requests
    <3>3. Timely(IssueAccessToken(now, req.read))
      BY <3>2 DEF Timely, IssueAccessToken, Token
    <3> QED BY <1>1, <3>1, <3>3 DEF PowerInv, Timely
  <2>2. CASE Reply(500, "none")
    BY <1>1, <1>2, <2>2, RepliesKeepPower
  <2> QED BY <1>4, <2>1, <2>2, ErrorStatuses DEF Sign
<1> QED BY <1>3, <1>4

\* Refresh reads the clock before it finds the account active.
LEMMA RefreshPower == TypeOK /\ PowerInv /\ (Refresh \/ CheckOwner \/ Rotate) => PowerInv'
<1> SUFFICES ASSUME TypeOK, PowerInv, Refresh \/ CheckOwner \/ Rotate PROVE PowerInv'
  OBVIOUS
<1>1. UNCHANGED <<held, status, now, lastActive>>
  BY DEF Refresh, CheckOwner, Rotate
<1>2. {401, 403} \subseteq Statuses /\ "revokeAll" \in Steps /\ "rotate" \in Steps
  BY DEF Statuses, Steps, InHandler, Storing
<1>3. CASE Reply(401, "none") \/ Reply(403, "none") \/ Goto("revokeAll")
  BY <1>1, <1>2, <1>3, RepliesKeepPower, MovesKeepPower
<1>4. CASE Refresh
  <2>1. CASE req' = [req EXCEPT !.at = "owner", !.read = now]
    <3>1. req'.at = "owner" /\ req'.read = now /\ req'.token = req.token /\ req'.minted = req.minted
      BY <2>1 DEF TypeOK, Requests
    <3> QED BY <1>1, <3>1 DEF PowerInv, Timely, TypeOK
  <2> QED BY <1>3, <1>4, <2>1, ErrorStatuses DEF Refresh
<1>5. CASE CheckOwner
  <2>1. CASE status = "active" /\ Goto("rotate")
    <3>1. /\ req'.at = "rotate" /\ req'.read = req.read /\ req'.token = req.token
          /\ req'.minted = req.minted
      BY <1>2, <2>1, GotoIs
    <3>2. req.read <= lastActive
      BY <1>5, <2>1 DEF CheckOwner, PowerInv
    <3> QED BY <1>1, <3>1, <3>2 DEF PowerInv, Timely
  <2>2. status \in {"active", "suspended", "deleted"}
    BY DEF TypeOK
  <2>3. (status = "active" /\ Goto("rotate")) \/ Reply(403, "none") \/ Reply(401, "none")
    BY <1>5, <2>2, ErrorStatuses DEF CheckOwner
  <2> QED BY <1>3, <2>1, <2>3
<1>6. CASE Rotate
  <2>1. CASE req' = [req EXCEPT !.at = "header", !.code = 200, !.effect = "done",
                                !.minted = IssueAccessToken(req.read, req.read)]
    <3>1. /\ req'.at = "header" /\ req'.token = req.token
          /\ req'.minted = IssueAccessToken(req.read, req.read)
      BY <2>1 DEF TypeOK, Requests
    <3>2. req.read <= lastActive /\ req.read \in Nat /\ lastActive \in Nat
      BY <1>6 DEF Rotate, PowerInv, TypeOK, Requests
    <3>3. Timely(IssueAccessToken(req.read, req.read))
      BY <3>2 DEF Timely, IssueAccessToken, Token
    <3> QED BY <1>1, <3>1, <3>3 DEF PowerInv, Timely
  <2> QED BY <1>3, <1>6, <2>1, ErrorStatuses DEF Rotate
<1> QED BY <1>4, <1>5, <1>6

\* The other steps of a handler that move on or answer.
LEMMA StepsPower ==
  TypeOK /\ PowerInv /\ (Preflight \/ DecodeJSON \/ RequireUserID \/ WriteStatus
                          \/ Recover \/ LogRequest \/ Panic \/ Abort) => PowerInv'
<1> SUFFICES ASSUME TypeOK, PowerInv,
                    Preflight \/ DecodeJSON \/ RequireUserID \/ WriteStatus
                      \/ Recover \/ LogRequest \/ Panic \/ Abort
             PROVE  PowerInv'
  OBVIOUS
<1>1. UNCHANGED <<held, status, now, lastActive>>
  BY DEF Preflight, DecodeJSON, RequireUserID, WriteStatus, Recover, LogRequest, Panic, Abort
<1> DEFINE Targets == {"written", "identify", "store", "panicking", "body", "returned",
                       "finished", "aborted"}
<1>2. Targets \subseteq Steps \ {"sign", "rotate", "owner"} /\ "idle" \notin Targets
      /\ "mux" \notin Targets /\ "auth" \notin Targets
  BY DEF Steps, InHandler, Storing
<1>3. \E step \in Targets : Goto(step)
  BY Layers DEF Preflight, DecodeJSON, RequireUserID, WriteStatus, Recover, LogRequest, Panic, Abort
<1>4. PICK step \in Targets : Goto(step)
  BY <1>3
<1> HIDE DEF Targets
<1>5. step \notin {"idle", "mux", "auth"}
  BY <1>2
<1> QED BY <1>1, <1>2, <1>4, <1>5, MovesKeepPower

\* Nothing is signed before the handler.
LEMMA DispatchPower == TypeOK /\ PowerInv /\ Dispatch => PowerInv'
<1> SUFFICES ASSUME TypeOK, PowerInv, Dispatch PROVE PowerInv'
  OBVIOUS
<1>1. UNCHANGED <<held, status, now, lastActive>> /\ req.at = "mux"
  BY DEF Dispatch
<1>2. {200, 404, 405} \subseteq Statuses
      /\ {"ping", "auth", "decode"} \subseteq Steps \ {"sign", "rotate", "owner"}
  BY DEF Statuses, Steps, InHandler
<1>3. \/ Reply(404, "none") \/ Reply(405, "none") \/ Reply(200, "none")
      \/ Goto("ping") \/ Goto("auth") \/ Goto("decode")
  BY DEF Dispatch
<1>4. CASE Reply(404, "none") \/ Reply(405, "none") \/ Reply(200, "none")
  BY <1>1, <1>2, <1>4, RepliesKeepPower
<1>5. CASE Goto("ping") \/ Goto("auth") \/ Goto("decode")
  BY <1>1, <1>2, <1>5, MovesKeepPower
<1> QED BY <1>3, <1>4, <1>5

\* The bearer check makes no signature and admits only within the lifetime.
LEMMA AuthPower == TypeOK /\ PowerInv /\ Auth => PowerInv'
<1> SUFFICES ASSUME TypeOK, PowerInv, Auth PROVE PowerInv'
  OBVIOUS
<1>1. UNCHANGED <<held, status, now, lastActive>>
  BY DEF Auth
<1>2. CASE req' = [req EXCEPT !.at = AfterAuth, !.user = TRUE]
  <2>1. req'.at \in {"decode", "identify"} /\ req'.token = req.token /\ req'.minted = req.minted
        /\ req'.read = req.read
    BY <1>2 DEF AfterAuth, TypeOK, Requests
  <2> QED BY <1>1, <2>1, KeepsPower
<1>3. CASE Goto("written")
  <2>1. "written" \in Steps \ {"sign", "rotate", "owner"}
    BY DEF Steps, InHandler
  <2> QED BY <1>1, <1>3, <2>1, MovesKeepPower
<1> QED BY <1>2, <1>3 DEF Auth

\* The answers of the store that mint nothing, and the probe's.
LEMMA StorePower ==
  TypeOK /\ PowerInv /\ (Register \/ StartSession \/ RevokeAll \/ Logout \/ Profile
                          \/ UpdateProfile \/ StoreFails \/ Ping \/ PingTimeout) => PowerInv'
<1> SUFFICES ASSUME TypeOK, PowerInv,
                    Register \/ StartSession \/ RevokeAll \/ Logout \/ Profile
                      \/ UpdateProfile \/ StoreFails \/ Ping \/ PingTimeout
             PROVE  PowerInv'
  OBVIOUS
<1>1. UNCHANGED <<held, status, now, lastActive>>
  BY DEF Register, StartSession, RevokeAll, Logout, Profile, UpdateProfile, StoreFails, Ping,
         PingTimeout
<1>2. {200, 201, 204, 401, 404, 409, 500, 503} \subseteq Statuses
  BY DEF Statuses
<1>3. Committable \subseteq {"none", "done", "ended"}
  BY DEF Committable
<1>4. \E code \in Statuses, effect \in {"none", "done", "ended"} : Reply(code, effect)
  <2>1. CASE Register \/ StartSession \/ Logout
    BY <1>2, <2>1, ErrorStatuses DEF Register, StartSession, Logout
  <2>2. CASE RevokeAll
    <3>1. PICK effect \in {"none", "ended"} : Reply(401, effect)
      BY <2>2, ErrorStatuses, Zenon DEF RevokeAll
    <3>2. effect \in {"none", "done", "ended"}
      OBVIOUS
    <3> QED BY <1>2, <3>1, <3>2
  <2>3. CASE Profile \/ UpdateProfile
    BY <1>2, <2>3, ErrorStatuses DEF Profile, UpdateProfile
  <2>4. CASE StoreFails
    BY <1>2, <1>3, <2>4, ErrorStatuses DEF StoreFails
  <2>5. CASE Ping \/ PingTimeout
    BY <1>2, <2>5 DEF Ping, PingTimeout
  <2> QED BY <2>1, <2>2, <2>3, <2>4, <2>5
<1>5. PICK code \in Statuses, effect \in {"none", "done", "ended"} : Reply(code, effect)
  BY <1>4
<1> QED BY <1>1, <1>5, RepliesKeepPower

\* What the client receives was minted for it.
LEMMA BodyPower == TypeOK /\ PowerInv /\ WriteBody => PowerInv'
<1> SUFFICES ASSUME TypeOK, PowerInv, WriteBody PROVE PowerInv'
  OBVIOUS
<1>1. UNCHANGED <<status, now, lastActive>> /\ held' \in {held, req.minted}
  BY DEF WriteBody
<1>2. "written" \in Steps
  BY DEF Steps, InHandler
<1>3. req'.at = "written" /\ req'.token = req.token /\ req'.minted = req.minted
  BY <1>2, GotoIs DEF WriteBody
<1> QED BY <1>1, <1>3 DEF PowerInv, Timely

\* The account is active up to the moment it is suspended or deleted, and time
\* only moves the last such moment forward.
LEMMA WorldPower == TypeOK /\ PowerInv /\ (SetStatus \/ Tick) => PowerInv'
<1> SUFFICES ASSUME TypeOK, PowerInv, SetStatus \/ Tick PROVE PowerInv'
  OBVIOUS
<1>1. UNCHANGED <<req, held>>
  BY DEF SetStatus, Tick
<1>2. now' \in Nat /\ lastActive' \in Nat /\ lastActive <= lastActive' /\ lastActive' <= now'
      /\ now <= now' /\ (status' = "active" => lastActive' = now')
  BY DEF SetStatus, Tick, TypeOK, PowerInv
<1>3. ASSUME NEW t \in Tokens, Timely(t) PROVE t.signed => t.iat <= lastActive' + t.lag
  BY <1>2, <1>3 DEF Timely, Tokens, TypeOK
<1>4. req.token \in Tokens /\ req.minted \in Tokens /\ held \in Tokens /\ req.read \in Nat
  BY DEF TypeOK, Requests
<1>5. Timely(held)' /\ Timely(req.token)' /\ Timely(req.minted)'
  BY <1>1, <1>3, <1>4 DEF PowerInv, Timely
<1> QED BY <1>1, <1>2, <1>4, <1>5 DEF PowerInv, TypeOK

\* The part of the invariant about signatures is inductive.
LEMMA NextPower == TypeOK /\ PowerInv /\ [Next]_vars => PowerInv'
<1> SUFFICES ASSUME TypeOK, PowerInv, [Next]_vars PROVE PowerInv'
  OBVIOUS
<1>1. CASE Arrive
  BY <1>1, ArrivePower
<1>2. CASE Serve
  BY <1>2, DispatchPower, AuthPower, LoginPower, StorePower, StepsPower, BodyPower DEF Serve
<1>3. CASE Store
  BY <1>3, LoginPower, RefreshPower, StorePower DEF Store
<1>4. CASE Panic \/ Abort
  BY <1>4, StepsPower
<1>5. CASE SetStatus \/ Tick
  BY <1>5, WorldPower
<1>6. CASE UNCHANGED vars
  BY <1>6 DEF vars, PowerInv, Timely
<1> QED BY <1>1, <1>2, <1>3, <1>4, <1>5, <1>6 DEF Next

-----------------------------------------------------------------------------
(* The theorems.                                                           *)

\* Types, answer and power are inductive together: a signature is timely only
\* for a request of the right shape, and a status is true only of one whose
\* handler stops where it should.
THEOREM Invariance == Spec => []IInv
<1>1. Init => IInv
  BY InitAnswer, InitPower DEF IInv, TypeAnswer
<1>2. IInv /\ [Next]_vars => IInv'
  BY NextAnswer, NextPower DEF IInv, TypeAnswer
<1> QED BY <1>1, <1>2, PTL DEF Spec

\* Every variable of the connection keeps its type.
THEOREM TypeCorrect == Spec => []TypeOK
<1>1. IInv => TypeOK
  BY DEF IInv
<1> QED BY <1>1, Invariance, PTL

\* No request is ever sent a second body, whatever fails or panics while it is
\* served, and a handler that returns has answered.
THEOREM OneAnswerHolds == Spec => []OneAnswer
<1>1. IInv => OneAnswer
  BY DEF IInv, AnswerInv, Progress, OneAnswer
<1> QED BY <1>1, Invariance, PTL

\* One line of the access log for each request that ran to its end, and it
\* states what the client was sent.
THEOREM LogIsTrueHolds == Spec => []LogIsTrue
<1>1. IInv => LogIsTrue
  BY DEF IInv, AnswerInv
<1> QED BY <1>1, Invariance, PTL

\* A 2xx on the wire only after the commit, a 4xx only when nothing was changed,
\* the end of every session after a replay excepted.
THEOREM AnswerMatchesEffectHolds == Spec => []AnswerMatchesEffect
<1>1. IInv => AnswerMatchesEffect
  BY DEF IInv, AnswerInv, Honest, Truthful, AnswerMatchesEffect
<1> QED BY <1>1, Invariance, PTL

\* A bearer check that admits a request saw a token signed by the server within
\* AccessTTL, and the tokens in use were signed within lag of good standing.
LEMMA AdmitsInTime == IInv /\ [Next]_vars =>
  [Admitted => req.token.signed /\ now < lastActive + AccessTTL + req.token.lag]_vars
<1> SUFFICES ASSUME IInv, [Next]_vars, Admitted
             PROVE  req.token.signed /\ now < lastActive + AccessTTL + req.token.lag
  OBVIOUS
<1> USE DEF Admitted
<1>1. req.at = "auth" /\ ~req.user /\ req.token \in Tokens
  BY DEF IInv, PowerInv, TypeOK, Requests
<1>2. CASE Auth /\ ParseAccessToken(req.token)
  <2>1. req.token.signed /\ now < req.token.iat + AccessTTL
    BY <1>2 DEF ParseAccessToken
  <2>2. req.token.iat <= lastActive + req.token.lag
    BY <2>1 DEF IInv, PowerInv, Timely
  <2> QED BY <1>1, <2>1, <2>2, TimeAssumption DEF IInv, TypeOK, Tokens
<1>3. CASE req' = req \/ \E step \in {"written", "panicking", "aborted"} : Goto(step)
  <2>1. req'.user = req.user
    BY <1>3 DEF Goto, IInv, TypeOK, Requests
  <2> QED BY <1>1, <2>1
<1>4. (Auth /\ ParseAccessToken(req.token)) \/ req' = req
      \/ \E step \in {"written", "panicking", "aborted"} : Goto(step)
  <2>1. CASE Auth
    BY <2>1 DEF Auth
  <2>2. CASE Panic \/ Abort
    BY <2>2 DEF Panic, Abort
  <2>3. CASE SetStatus \/ Tick \/ UNCHANGED vars
    BY <2>3 DEF SetStatus, Tick, vars
  <2>4. CASE Arrive \/ (Serve /\ ~Auth) \/ Store
    BY <1>1, <2>4 DEF Arrive, Serve, Store, Preflight, Dispatch, DecodeJSON, RequireUserID, Sign,
       PingTimeout, WriteStatus, WriteBody, Recover, LogRequest, Register, Login, StartSession,
       Refresh, RevokeAll, CheckOwner, Rotate, Logout, Profile, UpdateProfile, StoreFails, Ping,
       Storing
  <2> QED BY <2>1, <2>2, <2>3, <2>4 DEF Next, Serve
<1> QED BY <1>2, <1>3, <1>4

\* Access ends within one lifetime of a token after the account's good standing.
THEOREM PowerEndsHolds == Spec => PowerEnds
<1> DEFINE Step == Admitted => req.token.signed /\ now < lastActive + AccessTTL + req.token.lag
<1>1. IInv /\ [Next]_vars => [Step]_vars
  BY AdmitsInTime
<1>2. []IInv /\ [][Next]_vars => [][Step]_vars
  <2> HIDE DEF Step
  <2> QED BY <1>1, PTL
<1> QED BY <1>2, Invariance, PTL DEF Spec, PowerEnds

-----------------------------------------------------------------------------
(* What ProbesAnswer rests on: a request only goes forward, and that of a  *)
(* probe past no step but the ping that waits for the database.            *)

\* How far a request has come.
Place ==
  [step \in Steps |->
     CASE step = "mux" -> 1
       [] step = "auth" -> 2
       [] step = "decode" -> 3
       [] step = "identify" -> 4
       [] step \in {"store", "ping"} -> 5
       [] step \in {"sign", "revokeAll", "owner"} -> 6
       [] step \in {"create", "rotate"} -> 7
       [] step = "header" -> 8
       [] step = "body" -> 9
       [] step = "written" -> 10
       [] step = "panicking" -> 11
       [] step = "returned" -> 12
       [] step \in {"finished", "aborted"} -> 13
       [] OTHER -> 0]

\* The number of each place.
LEMMA Places ==
  /\ Place["mux"] = 1 /\ Place["auth"] = 2 /\ Place["decode"] = 3 /\ Place["identify"] = 4
  /\ Place["store"] = 5 /\ Place["ping"] = 5
  /\ Place["sign"] = 6 /\ Place["revokeAll"] = 6 /\ Place["owner"] = 6
  /\ Place["create"] = 7 /\ Place["rotate"] = 7
  /\ Place["header"] = 8 /\ Place["body"] = 9 /\ Place["written"] = 10
  /\ Place["panicking"] = 11 /\ Place["returned"] = 12
  /\ Place["finished"] = 13 /\ Place["aborted"] = 13
<1>1. {"mux", "auth", "decode", "identify", "store", "ping", "sign", "revokeAll", "owner",
       "create", "rotate", "header", "body", "written", "panicking", "returned", "finished",
       "aborted"} \subseteq Steps
  BY DEF Steps, InHandler, Storing
<1> QED BY <1>1 DEF Place

\* The connection is between two requests.
Resting == {"idle", "finished", "aborted"}

\* Nothing that a request does takes it back: no handler is entered twice, no store
\* call is repeated, and nothing is done after the answer but to log it.
GoesForward ==
  req.at \notin Resting =>
    req' = req \/ (req'.route = req.route /\ Place[req'.at] > Place[req.at])

\* The step's request is this one, at its next place.
At(step) == req'.at = step /\ req'.route = req.route

\* Goto and Reply move the request and leave its route.
LEMMA GotoIsAt ==
  ASSUME TypeOK, NEW step, Goto(step)
  PROVE  At(step)
BY DEF TypeOK, Requests, Goto, At

LEMMA ReplyIsAt ==
  ASSUME TypeOK, NEW code, NEW effect, Reply(code, effect)
  PROVE  At("header")
BY DEF TypeOK, Requests, Reply, At

\* Where the handler goes from its checks.
LEMMA CheckMoves ==
  ASSUME TypeOK
  PROVE  /\ Preflight => req.at = "mux" /\ At("written")
         /\ Dispatch =>
              /\ req.at = "mux"
              /\ \E step \in {"header", "ping", "auth", "decode"} : At(step)
              /\ At("auth") => req.route \in Protected
              /\ At("decode") => req.route \notin {"health", "ready"}
         /\ Auth => req.at = "auth" /\ \E step \in {"decode", "identify", "written"} : At(step)
         /\ DecodeJSON =>
              req.at = "decode" /\ \E step \in {"identify", "store", "written"} : At(step)
         /\ RequireUserID =>
              req.at = "identify" /\ \E step \in {"store", "panicking"} : At(step)
<1>1. Preflight => req.at = "mux" /\ At("written")
  BY GotoIsAt DEF Preflight
<1>2. ASSUME Dispatch
      PROVE  /\ req.at = "mux"
             /\ \E step \in {"header", "ping", "auth", "decode"} : At(step)
             /\ At("auth") => req.route \in Protected
             /\ At("decode") => req.route \notin {"health", "ready"}
  <2>1. CASE req.route \in {"unknownPath", "wrongMethod", "health"}
    <3>1. At("header")
      BY <1>2, <2>1, ReplyIsAt DEF Dispatch, Protected
    <3> QED BY <1>2, <3>1 DEF Dispatch, At
  <2>2. CASE req.route = "ready"
    <3>1. At("ping")
      BY <1>2, <2>2, GotoIsAt DEF Dispatch, Protected
    <3> QED BY <1>2, <3>1 DEF Dispatch, At
  <2>3. CASE req.route \in Protected
    <3>1. At("auth")
      BY <1>2, <2>3, GotoIsAt DEF Dispatch, Protected
    <3> QED BY <1>2, <2>3, <3>1 DEF Dispatch, At
  <2>4. CASE req.route \notin {"unknownPath", "wrongMethod", "health", "ready"} \union Protected
    <3>1. At("decode")
      BY <1>2, <2>4, GotoIsAt DEF Dispatch
    <3> QED BY <1>2, <2>4, <3>1 DEF Dispatch, At
  <2> QED BY <2>1, <2>2, <2>3, <2>4
<1>3. ASSUME Auth
      PROVE  req.at = "auth" /\ \E step \in {"decode", "identify", "written"} : At(step)
  <2>1. CASE ParseAccessToken(req.token)
    <3>1. At(AfterAuth)
      BY <1>3, <2>1 DEF Auth, TypeOK, Requests, At
    <3> QED BY <1>3, <3>1 DEF Auth, AfterAuth
  <2>2. CASE ~ParseAccessToken(req.token)
    BY <1>3, <2>2, GotoIsAt DEF Auth
  <2> QED BY <2>1, <2>2
<1>4. DecodeJSON => req.at = "decode" /\ \E step \in {"identify", "store", "written"} : At(step)
  BY GotoIsAt DEF DecodeJSON
<1>5. RequireUserID => req.at = "identify" /\ \E step \in {"store", "panicking"} : At(step)
  BY GotoIsAt DEF RequireUserID
<1> QED BY <1>1, <1>2, <1>3, <1>4, <1>5

\* Where it goes from the calls of the services.
LEMMA StoreMovesOn ==
  ASSUME TypeOK, Store \/ Sign \/ PingTimeout
  PROVE  \/ req.at \in Storing \union {"sign", "ping"} /\ At("header")
         \/ req.at = "store" /\ \E step \in {"sign", "revokeAll", "owner"} : At(step)
         \/ req.at = "sign" /\ At("create")
         \/ req.at = "owner" /\ At("rotate")
<1>1. CASE Register \/ Logout \/ Profile \/ UpdateProfile \/ StartSession \/ RevokeAll
  BY <1>1, ReplyIsAt DEF Register, Logout, Profile, UpdateProfile, StartSession, RevokeAll,
     Storing
<1>2. CASE Login
  <2>1. req.at = "store" /\ (At("header") \/ At("sign"))
    <3>1. CASE req' = [req EXCEPT !.at = "sign", !.read = now]
      BY <1>2, <3>1 DEF Login, TypeOK, Requests, At
    <3> QED BY <1>2, <3>1, ReplyIsAt DEF Login
  <2> QED BY <2>1 DEF Storing
<1>3. CASE Sign
  <2>1. req.at = "sign"
    BY <1>3 DEF Sign
  <2>2. CASE req' = [req EXCEPT !.at = "create", !.minted = IssueAccessToken(now, req.read)]
    BY <2>1, <2>2 DEF TypeOK, Requests, At
  <2> QED BY <1>3, <2>1, <2>2, ReplyIsAt DEF Sign
<1>4. CASE Refresh
  <2>1. req.at = "store" /\ (At("header") \/ At("revokeAll") \/ At("owner"))
    <3>1. CASE req' = [req EXCEPT !.at = "owner", !.read = now]
      BY <1>4, <3>1 DEF Refresh, TypeOK, Requests, At
    <3> QED BY <1>4, <3>1, ReplyIsAt, GotoIsAt DEF Refresh
  <2> QED BY <2>1 DEF Storing
<1>5. CASE CheckOwner
  <2>1. req.at = "owner" /\ (At("header") \/ At("rotate"))
    BY <1>5, ReplyIsAt, GotoIsAt DEF CheckOwner, TypeOK
  <2> QED BY <2>1 DEF Storing
<1>6. CASE Rotate
  <2>1. req.at = "rotate" /\ At("header")
    <3>1. CASE req' = [req EXCEPT !.at = "header", !.code = 200, !.effect = "done",
                                  !.minted = IssueAccessToken(req.read, req.read)]
      BY <1>6, <3>1 DEF Rotate, TypeOK, Requests, At
    <3> QED BY <1>6, <3>1, ReplyIsAt DEF Rotate
  <2> QED BY <2>1 DEF Storing
<1>7. CASE StoreFails
  BY <1>7, ReplyIsAt DEF StoreFails
<1>8. CASE Ping \/ PingTimeout
  <2>1. req.at = "ping" /\ At("header")
    BY <1>8, ReplyIsAt DEF Ping, PingTimeout
  <2> QED BY <2>1
<1> QED BY <1>1, <1>2, <1>3, <1>4, <1>5, <1>6, <1>7, <1>8 DEF Store

\* And where from its answer, or from a panic.
LEMMA AnswerMoves ==
  ASSUME TypeOK
  PROVE  /\ WriteStatus => req.at = "header" /\ \E step \in {"body", "written"} : At(step)
         /\ WriteBody => req.at = "body" /\ At("written")
         /\ LogRequest => req.at \in {"written", "returned"} /\ At("finished")
         /\ Recover => req.at = "panicking" /\ At("returned")
         /\ Panic => req.at \in InHandler /\ At("panicking")
         /\ Abort => req.at \in InHandler /\ At("aborted")
<1>1. WriteStatus => req.at = "header" /\ \E step \in {"body", "written"} : At(step)
  BY GotoIsAt DEF WriteStatus
<1> QED BY <1>1, GotoIsAt, Layers DEF WriteBody, LogRequest, Recover, Panic, Abort

\* The account and the clock are outside the request.
LEMMA WorldApart == SetStatus \/ Tick \/ UNCHANGED vars => req' = req
BY DEF SetStatus, Tick, vars

\* Each step of the server is towards the end of the request.
LEMMA ForwardStep == TypeOK /\ [Next]_vars => [GoesForward]_vars
<1> SUFFICES ASSUME TypeOK, [Next]_vars, req.at \notin Resting, req' # req
             PROVE  req'.route = req.route /\ Place[req'.at] > Place[req.at]
  BY DEF GoesForward
<1>1. ~Arrive
  BY DEF Arrive, Resting
<1>2. ASSUME NEW from, NEW to, req.at = from, At(to), Place[to] > Place[from]
      PROVE  req'.route = req.route /\ Place[req'.at] > Place[req.at]
  BY <1>2 DEF At
<1>3. CASE Preflight \/ Dispatch
  BY <1>2, <1>3, CheckMoves, Places
<1>4. CASE Auth \/ DecodeJSON \/ RequireUserID
  BY <1>2, <1>4, CheckMoves, Places
<1>5. CASE Store \/ Sign \/ PingTimeout
  BY <1>2, <1>5, StoreMovesOn, Places DEF Storing
<1>6. CASE WriteStatus \/ WriteBody \/ LogRequest \/ Recover
  BY <1>2, <1>6, AnswerMoves, Places
<1>7. CASE Panic \/ Abort
  BY <1>2, <1>7, AnswerMoves, Places DEF InHandler, Storing
<1> QED BY <1>1, <1>3, <1>4, <1>5, <1>6, <1>7, WorldApart DEF Next, Serve

\* Every request takes a bounded number of steps, whatever fails and panics in it.
THEOREM GoesForwardHolds == Spec => [][GoesForward]_vars
<1>1. IInv => TypeOK
  BY DEF IInv
<1>2. TypeOK /\ [Next]_vars => [GoesForward]_vars
  BY ForwardStep
<1> QED BY <1>1, <1>2, Invariance, PTL DEF Spec

\* A probe never gets to a store call, whose wait for the database nothing ends.
ProbesKeepOut ==
  req.route \in {"health", "ready"} =>
    req.at \notin Storing \union {"auth", "decode", "identify", "sign"}

\* However long the connection is used, a probe's request waits for the database
\* in its ping alone, for which the handler has set a time limit.
THEOREM ProbesKeepOutHolds == Spec => []ProbesKeepOut
<1>1. Init => ProbesKeepOut
  BY DEF Init, NoRequest, ProbesKeepOut, Storing
<1>2. TypeOK /\ ProbesKeepOut /\ [Next]_vars => ProbesKeepOut'
  <2> SUFFICES ASSUME TypeOK, ProbesKeepOut, [Next]_vars PROVE ProbesKeepOut'
    OBVIOUS
  <2> USE DEF ProbesKeepOut, Storing
  <2>1. CASE Arrive
    BY <2>1 DEF Arrive, NoRequest
  <2>2. CASE Preflight \/ Dispatch
    BY <2>2, CheckMoves DEF At, Protected
  <2>3. CASE Auth \/ DecodeJSON \/ RequireUserID
    BY <2>3, CheckMoves DEF At
  <2>4. CASE Store \/ Sign \/ PingTimeout
    BY <2>4, StoreMovesOn DEF At
  <2>5. CASE WriteStatus \/ WriteBody \/ LogRequest \/ Recover \/ Panic \/ Abort
    BY <2>5, AnswerMoves DEF At
  <2> QED BY <2>1, <2>2, <2>3, <2>4, <2>5, WorldApart DEF Next, Serve
<1>3. IInv => TypeOK
  BY DEF IInv
<1> QED BY <1>1, <1>2, <1>3, Invariance, PTL DEF Spec

=============================================================================
