-------------------------------- MODULE Http --------------------------------
(***************************************************************************)
(* A client's connection to the API server, one request after another:     *)
(* the middleware chain of router.go, the mux, the bearer check, the       *)
(* handlers and the writing of the response.  The services are seen from   *)
(* the handlers: a call of theirs ends in a result or in one of the errors *)
(* handleServiceError tells apart (AuthSessions and Accounts model what    *)
(* happens inside).  Requests of other connections share nothing with this *)
(* one but the account's row, which may be suspended, restored or deleted  *)
(* at any moment, and its refresh tokens, whose state any refresh or       *)
(* logout may have changed.                                                *)
(*                                                                         *)
(* A handler may panic, or abort with http.ErrAbortHandler, between any    *)
(* two of its steps; a call of the database may fail, or never return.     *)
(***************************************************************************)
EXTENDS Naturals, Sequences

CONSTANTS
  AccessTTL,  \* JWT_ACCESS_TTL
  MaxTime     \* bound: the clock stops here

ASSUME TimeAssumption == AccessTTL \in Nat \ {0} /\ MaxTime \in Nat

VARIABLES
  req,        \* the request: where its goroutine is and what it holds
  resp,       \* its response, as the connection and each recorder see it
  log,        \* the lines of the access log about it
  held,       \* the access token the client holds
  status,     \* the account's row
  now,        \* the server's clock
  lastActive  \* history: the last time at which the account was active

vars == <<req, resp, log, held, status, now, lastActive>>

-----------------------------------------------------------------------------
(* The response: net/http's writer under the two recorders.               *)

\* Mutation: a panic that Recovery stops leaves no line in the log.
ChainLoggerInside == <<"RequestID", "Recovery", "RequestLogger", "CORS">>

\* Outermost first, as NewRouter hands them to Chain.
Chain == <<"RequestID", "RequestLogger", "Recovery", "CORS">>

\* Middleware a is b or wraps it: what b writes passes through a.
Wraps(a, b) == \E i, j \in DOMAIN Chain : i <= j /\ Chain[i] = a /\ Chain[j] = b

\* A recorder starts at 200, which is also what net/http sends for a handler
\* that writes nothing.
NewRecorder == [status |-> 200, wroteHeader |-> FALSE, bodies |-> 0]

Recorders == {"net", "RequestLogger", "Recovery"}

Reaches(layer, from) == layer = "net" \/ Wraps(layer, from)

\* Only the first status counts.
WriteHeader(rs, from, code) ==
  [l \in Recorders |->
     IF Reaches(l, from) /\ ~rs[l].wroteHeader
     THEN [rs[l] EXCEPT !.status = code, !.wroteHeader = TRUE]
     ELSE rs[l]]

\* A body, after an implicit 200 when there was no status yet.
Write(rs, from) ==
  LET begun == WriteHeader(rs, from, 200)
  IN  [l \in Recorders |->
         IF Reaches(l, from) THEN [begun[l] EXCEPT !.bodies = @ + 1] ELSE begun[l]]

\* WriteError: status and envelope.  A handler's writes pass through everything.
Error(code) == resp' = Write(WriteHeader(resp, "CORS", code), "CORS")

-----------------------------------------------------------------------------
(* Access tokens.  lag is a history field: how long before the signing the *)
(* account's row had been read.                                            *)

Routes == {"health", "ready", "register", "login", "refresh", "logout",
           "profile", "update", "preflight", "unknownPath", "wrongMethod"}

Protected == {"profile", "update"}

Forged == [iat |-> 0, lag |-> 0, signed |-> FALSE]

Token(iat, lag) == [iat |-> iat, lag |-> lag, signed |-> TRUE]

IssueAccessToken(at, readAt) == Token(at, IF readAt < at THEN at - readAt ELSE 0)

ParseAccessToken(t) == t.signed /\ now < t.iat + AccessTTL

-----------------------------------------------------------------------------
(* A request: "at" is the next thing its goroutine does, code the status   *)
(* it is about to write, effect what it has changed in the database.       *)

NoRequest ==
  [at |-> "idle", route |-> "health", token |-> Forged, user |-> FALSE,
   code |-> 0, effect |-> "none", read |-> 0, minted |-> Forged]

Goto(step) == req' = [req EXCEPT !.at = step]

\* WriteJSON is called with this status; effect says what was committed first.
Reply(code, effect) ==
  req' = [req EXCEPT !.at = "header", !.code = code, !.effect = effect]

handleServiceError ==
  [ErrEmailTaken |-> 409, ErrInvalidCredentials |-> 401, ErrAccountNotActive |-> 403,
   ErrInvalidRefreshToken |-> 401, ErrNotFound |-> 404, unexpected |-> 500]

handleUserServiceError == [ErrNotFound |-> 404, unexpected |-> 500]

Init ==
  /\ req = NoRequest
  /\ resp = [l \in Recorders |-> NewRecorder]
  /\ log = <<>>
  /\ held = Forged
  /\ status = "active"
  /\ now = 0
  /\ lastActive = 0

\* The connection's next request; a protected one with the token its client
\* holds, or with none that the server signed.  After an abort the client has to
\* connect anew, which changes nothing else.
Arrive ==
  /\ req.at \in {"idle", "finished", "aborted"}
  /\ \E route \in Routes, t \in {held, Forged} :
       /\ route \notin Protected => t = Forged
       /\ req' = [NoRequest EXCEPT !.at = "mux", !.route = route, !.token = t]
  /\ resp' = [l \in Recorders |-> NewRecorder]
  /\ log' = <<>>
  /\ UNCHANGED <<held, status, now, lastActive>>

\* CORS answers a preflight itself, whatever its origin: without the headers
\* the browser blocks the real request.
Preflight ==
  /\ req.at = "mux" /\ req.route = "preflight"
  /\ resp' = WriteHeader(resp, "CORS", 204)
  /\ Goto("written")
  /\ UNCHANGED <<log, held, status, now, lastActive>>

\* The mux, with the catch-all that answers in the error envelope.
Dispatch ==
  /\ req.at = "mux" /\ req.route # "preflight"
  /\ CASE req.route = "unknownPath" -> Reply(404, "none")
       [] req.route = "wrongMethod" -> Reply(405, "none")
       [] req.route = "health" -> Reply(200, "none")
       [] req.route = "ready" -> Goto("ping")
       [] req.route \in Protected -> Goto("auth")
       [] OTHER -> Goto("decode")
  /\ UNCHANGED <<resp, log, held, status, now, lastActive>>

AfterAuth == IF req.route = "update" THEN "decode" ELSE "identify"

\* The bearer check: the handler runs with the token's subject in its context,
\* or the chain ends with a 401.
Auth ==
  /\ req.at = "auth"
  /\ IF ParseAccessToken(req.token)
     THEN /\ req' = [req EXCEPT !.at = AfterAuth, !.user = TRUE]
          /\ resp' = resp
     ELSE /\ Error(401)
          /\ Goto("written")
  /\ UNCHANGED <<log, held, status, now, lastActive>>

\* Mutation: a handler that writes the 400 and goes on.
DecodeWithoutReturn ==
  /\ req.at = "decode"
  /\ Goto(IF req.route = "update" THEN "identify" ELSE "store")
  /\ \E ok \in BOOLEAN : IF ok THEN resp' = resp ELSE Error(400)
  /\ UNCHANGED <<log, held, status, now, lastActive>>

\* DecodeJSON, then the checks of the service on its input (Validate, the empty
\* refresh token), all of them before the store is reached.
DecodeJSON ==
  /\ req.at = "decode"
  /\ \E ok \in BOOLEAN :
       IF ok
       THEN /\ Goto(IF req.route = "update" THEN "identify" ELSE "store")
            /\ resp' = resp
       ELSE /\ Error(400)
            /\ Goto("written")
  /\ UNCHANGED <<log, held, status, now, lastActive>>

\* A handler behind Auth relies on the user being in the context.
RequireUserID ==
  /\ req.at = "identify"
  /\ Goto(IF req.user THEN "store" ELSE "panicking")
  /\ UNCHANGED <<resp, log, held, status, now, lastActive>>

-----------------------------------------------------------------------------
(* The calls of the services, one step for each store call that returns.   *)

Register ==
  /\ req.at = "store" /\ req.route = "register"
  /\ \/ Reply(201, "done")
     \/ Reply(handleServiceError.ErrEmailTaken, "none")
  /\ UNCHANGED <<resp, log, held, status, now, lastActive>>

\* GetByEmail, and the checks of the password and of the status it read.
Login ==
  /\ req.at = "store" /\ req.route = "login"
  /\ \/ Reply(handleServiceError.ErrInvalidCredentials, "none")
     \/ /\ status = "suspended"
        /\ Reply(handleServiceError.ErrAccountNotActive, "none")
     \/ /\ status = "active"
        /\ req' = [req EXCEPT !.at = "sign", !.read = now]
  /\ UNCHANGED <<resp, log, held, status, now, lastActive>>

\* startSession reads the clock and signs before it stores the refresh token.
Sign ==
  /\ req.at = "sign"
  /\ \/ req' = [req EXCEPT !.at = "create", !.minted = IssueAccessToken(now, req.read)]
     \/ Reply(handleServiceError.unexpected, "none")
  /\ UNCHANGED <<resp, log, held, status, now, lastActive>>

\* The refresh token's row references the account's.
StartSession ==
  /\ req.at = "create"
  /\ status # "deleted"
  /\ Reply(200, "done")
  /\ UNCHANGED <<resp, log, held, status, now, lastActive>>

\* GetByTokenHash, then the clock; a spent token ends every session instead.
\* A deleted account's tokens are gone with it.
Refresh ==
  /\ req.at = "store" /\ req.route = "refresh"
  /\ \/ Reply(handleServiceError.ErrInvalidRefreshToken, "none")
     \/ /\ status # "deleted"
        /\ Goto("revokeAll")
     \/ /\ status # "deleted"
        /\ req' = [req EXCEPT !.at = "owner", !.read = now]
  /\ UNCHANGED <<resp, log, held, status, now, lastActive>>

RevokeAll ==
  /\ req.at = "revokeAll"
  /\ \E effect \in {"none", "ended"} :
       Reply(handleServiceError.ErrInvalidRefreshToken, effect)
  /\ UNCHANGED <<resp, log, held, status, now, lastActive>>

CheckOwner ==
  /\ req.at = "owner"
  /\ CASE status = "active" -> Goto("rotate")
       [] status = "suspended" -> Reply(handleServiceError.ErrAccountNotActive, "none")
       [] status = "deleted" -> Reply(handleServiceError.ErrInvalidRefreshToken, "none")
  /\ UNCHANGED <<resp, log, held, status, now, lastActive>>

\* Mutation: the clock is read once more for the signature.
RotateReadsClock ==
  /\ req.at = "rotate"
  /\ \/ Reply(handleServiceError.ErrInvalidRefreshToken, "none")
     \/ /\ status # "deleted"
        /\ req' = [req EXCEPT !.at = "header", !.code = 200, !.effect = "done",
                              !.minted = IssueAccessToken(now, now)]
  /\ UNCHANGED <<resp, log, held, status, now, lastActive>>

\* The token is signed for the time read before the owner's status was.
Rotate ==
  /\ req.at = "rotate"
  /\ \/ Reply(handleServiceError.ErrInvalidRefreshToken, "none")
     \/ /\ status # "deleted"
        /\ req' = [req EXCEPT !.at = "header", !.code = 200, !.effect = "done",
                              !.minted = IssueAccessToken(req.read, req.read)]
  /\ UNCHANGED <<resp, log, held, status, now, lastActive>>

\* 204 whether or not the token was live.
Logout ==
  /\ req.at = "store" /\ req.route = "logout"
  /\ \E effect \in {"none", "done"} : Reply(204, effect)
  /\ UNCHANGED <<resp, log, held, status, now, lastActive>>

Profile ==
  /\ req.at = "store" /\ req.route = "profile"
  /\ Reply(IF status = "deleted" THEN handleUserServiceError.ErrNotFound ELSE 200, "none")
  /\ UNCHANGED <<resp, log, held, status, now, lastActive>>

UpdateProfile ==
  /\ req.at = "store" /\ req.route = "update"
  /\ IF status = "deleted"
     THEN Reply(handleUserServiceError.ErrNotFound, "none")
     ELSE Reply(200, "done")
  /\ UNCHANGED <<resp, log, held, status, now, lastActive>>

Storing == {"store", "create", "revokeAll", "owner", "rotate"}

\* What a store call may have committed before its answer is lost.
Committable ==
  CASE req.at = "revokeAll" -> {"none", "ended"}
    [] req.at \in {"create", "rotate"} -> {"none", "done"}
    [] req.at = "store" /\ req.route \in {"register", "logout", "update"} -> {"none", "done"}
    [] OTHER -> {"none"}

\* The call fails: the connection is lost, the context cancelled, the row refused.
StoreFails ==
  /\ req.at \in Storing
  /\ \E effect \in Committable :
       Reply(IF req.route \in Protected THEN handleUserServiceError.unexpected
                                           ELSE handleServiceError.unexpected, effect)
  /\ UNCHANGED <<resp, log, held, status, now, lastActive>>

-----------------------------------------------------------------------------
(* The readiness probe.                                                    *)

\* The database answers the ping, or refuses it.
Ping ==
  /\ req.at = "ping"
  /\ \E code \in {200, 503} : Reply(code, "none")
  /\ UNCHANGED <<resp, log, held, status, now, lastActive>>

\* Mutation: the ping runs in the request's own context, which nothing ends.
PingForEver == FALSE /\ UNCHANGED vars

\* The check's budget ends: its context is cancelled and the ping returns.
PingTimeout ==
  /\ req.at = "ping"
  /\ Reply(503, "none")
  /\ UNCHANGED <<resp, log, held, status, now, lastActive>>

-----------------------------------------------------------------------------
(* The answer, and what the middleware does around the handler.            *)

\* WriteJSON encodes before it writes the status, so a failure to encode is
\* still a whole answer.  Logout's 204 has no body.
WriteStatus ==
  /\ req.at = "header"
  /\ \/ /\ resp' = WriteHeader(resp, "CORS", req.code)
        /\ Goto(IF req.code = 204 THEN "written" ELSE "body")
     \/ /\ req.code # 204
        /\ Error(500)
        /\ Goto("written")
  /\ UNCHANGED <<log, held, status, now, lastActive>>

\* The body of a login or a refresh is how the client gets its access token; it
\* may go on using the one it had.
WriteBody ==
  /\ req.at = "body"
  /\ resp' = Write(resp, "CORS")
  /\ \E keep \in BOOLEAN : held' = IF req.minted.signed /\ ~keep THEN req.minted ELSE held
  /\ Goto("written")
  /\ UNCHANGED <<log, status, now, lastActive>>

InHandler == {"mux", "auth", "decode", "identify", "sign", "ping", "header", "body", "written"}
               \union Storing

Panic ==
  /\ req.at \in InHandler
  /\ Goto("panicking")
  /\ UNCHANGED <<resp, log, held, status, now, lastActive>>

\* RequestLogger writes its line when the handler it wraps returns; a panic that
\* Recovery stops further out never lets it return.
Returned == IF Wraps("RequestLogger", "Recovery") THEN "returned" ELSE "finished"

\* Mutation: wroteHeader is not looked at.
RecoverAlwaysAnswers ==
  /\ req.at = "panicking"
  /\ resp' = Write(WriteHeader(resp, "Recovery", 500), "Recovery")
  /\ Goto(Returned)
  /\ UNCHANGED <<log, held, status, now, lastActive>>

\* Recovery answers only when nothing has been written yet.
Recover ==
  /\ req.at = "panicking"
  /\ resp' = IF resp["Recovery"].wroteHeader
             THEN resp
             ELSE Write(WriteHeader(resp, "Recovery", 500), "Recovery")
  /\ Goto(Returned)
  /\ UNCHANGED <<log, held, status, now, lastActive>>

\* http.ErrAbortHandler passes through Recovery and RequestLogger: net/http cuts
\* the connection.
Abort ==
  /\ req.at \in InHandler
  /\ Goto("aborted")
  /\ UNCHANGED <<resp, log, held, status, now, lastActive>>

LogRequest ==
  /\ req.at \in {"written", "returned"}
  /\ log' = Append(log, resp["RequestLogger"])
  /\ Goto("finished")
  /\ UNCHANGED <<resp, held, status, now, lastActive>>

-----------------------------------------------------------------------------
(* The account and the clock.                                              *)

SetStatus ==
  /\ status # "deleted"
  /\ \E s \in {"active", "suspended", "deleted"} \ {status} :
       /\ status' = s
       /\ lastActive' = IF s = "active" THEN now ELSE lastActive
  /\ UNCHANGED <<req, resp, log, held, now>>

Tick ==
  /\ now < MaxTime
  /\ now' = now + 1
  /\ lastActive' = IF status = "active" THEN now + 1 ELSE lastActive
  /\ UNCHANGED <<req, resp, log, held, status>>

\* The steps the server takes by itself, the wait for the database excepted.
Serve ==
  \/ Preflight \/ Dispatch \/ Auth \/ DecodeJSON \/ RequireUserID
  \/ Sign \/ PingTimeout \/ WriteStatus \/ WriteBody
  \/ Recover \/ LogRequest

Store ==
  \/ Register \/ Login \/ StartSession \/ Refresh \/ RevokeAll
  \/ CheckOwner \/ Rotate \/ Logout \/ Profile \/ UpdateProfile
  \/ StoreFails \/ Ping

Next ==
  \/ Arrive \/ Serve \/ Store \/ Panic \/ Abort
  \/ SetStatus
  \/ Tick

\* The goroutine of a request runs and the timer of its probe fires; nothing is
\* assumed of the database.
Spec == Init /\ [][Next]_vars /\ WF_vars(Serve)

-----------------------------------------------------------------------------
(* Properties.                                                             *)

Net == resp["net"]

\* A request is answered once: no second body ever follows the first, and a
\* handler that returns has sent a status and, but for a 204, its body.  Every
\* WriteError, WriteJSON and Recovery's own answer go to one connection, and only
\* the early returns and wroteHeader keep them apart.
OneAnswer ==
  /\ Net.bodies <= 1
  /\ req.at \in {"written", "returned", "finished"} => Net.wroteHeader
  /\ req.at = "written" /\ Net.status # 204 => Net.bodies = 1

\* The access log has one line for each request that ran to its end, panics
\* included, and the line states the status and the body the client was sent.
LogIsTrue == log = IF req.at = "finished" THEN <<Net>> ELSE <<>>

Mutating == {"register", "login", "refresh", "update"}

\* A status on the wire tells the truth about the database: success only after
\* the commit, refusal only when nothing was changed, then or later in the same
\* request.  The one exception is a replayed refresh token, whose 401 comes after
\* every session of the account was ended.
AnswerMatchesEffect == Net.wroteHeader =>
  /\ Net.status \in 200..299 /\ req.route \in Mutating => req.effect = "done"
  /\ Net.status \in 400..499 =>
       \/ req.effect = "none"
       \/ req.effect = "ended" /\ req.route = "refresh" /\ Net.status = 401

\* The request passes the bearer check in this step.
Admitted == req.at = "auth" /\ req'.user

\* An access token outlives its account's good standing by less than its own
\* lifetime: a protected handler is entered only with a token the server signed,
\* and less than AccessTTL after a moment the account was active -- for a token
\* of Login, plus the time Login took between reading the row and the clock.
PowerEnds ==
  [][Admitted => req.token.signed /\ now < lastActive + AccessTTL + req.token.lag]_vars

\* The probes answer though the database hangs, so a slow database neither gets a
\* healthy process restarted nor keeps the balancer waiting.
ProbesAnswer ==
  req.at = "mux" /\ req.route \in {"health", "ready"} ~> req.at \in {"finished", "aborted"}
=============================================================================
