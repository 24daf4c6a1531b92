------------------------------ MODULE Migrate ------------------------------
(***************************************************************************)
(* Schema migration at startup, internal/database/migrate.go: any number   *)
(* of processes, of any release, run Migrate on one database, each inside  *)
(* a session advisory lock and each file inside its own transaction, and   *)
(* may die at any point.                                                   *)
(***************************************************************************)
EXTENDS Integers

CONSTANTS
    Process,    \* api and migrate processes
    Version,    \* migration versions
    Sum,        \* checksums a file can have
    Release,    \* embedded migrations of a release: version -> checksum
    NoProcess, NoSum,
    Faults      \* whether statements fail, contexts expire and processes die

ASSUME MigrateAssumption ==
    /\ Version \subseteq Nat \ {0}              \* LoadMigrations (75)
    /\ NoProcess \notin Process /\ NoSum \notin Sum
    /\ \A f \in Release : /\ DOMAIN f \subseteq Version
                          /\ \A v \in DOMAIN f : f[v] \in Sum
    /\ Faults \in BOOLEAN

VARIABLES
    table,     \* schema_migrations exists
    record,    \* its rows: the checksum recorded for a version
    ran,       \* history: how often a version's body was committed
    advisory,  \* the process whose session holds the advisory lock
    pc,        \* where each process is in Migrate
    files,     \* the migrations it carries
    applied,   \* what appliedMigrations returned to it
    done       \* the versions it has dealt with

vars == <<table, record, ran, advisory, pc, files, applied, done>>

PCs == {"down", "ensure", "creating", "lock", "read", "loop", "body", "commit",
        "unlock", "unlockFail", "serving", "failed", "dead"}

\* The steps Migrate takes between its lock and its unlock.
Locked == {"read", "loop", "body", "commit", "unlock", "unlockFail"}

TypeOK ==
    /\ table \in BOOLEAN
    /\ record \in [Version -> Sum \cup {NoSum}]
    /\ ran \in [Version -> Nat]
    /\ advisory \in Process \cup {NoProcess}
    /\ pc \in [Process -> PCs]
    /\ files \in [Process -> Release]
    /\ applied \in [Process -> [Version -> Sum \cup {NoSum}]]
    /\ done \in [Process -> SUBSET Version]
    /\ \A p \in Process : done[p] \subseteq DOMAIN files[p]

Nothing == [v \in Version |-> NoSum]

Init ==
    /\ table = FALSE
    /\ record = Nothing
    /\ ran = [v \in Version |-> 0]
    /\ advisory = NoProcess
    /\ pc = [p \in Process |-> "down"]
    /\ files \in [Process -> Release]
    /\ applied = [p \in Process |-> Nothing]
    /\ done = [p \in Process |-> {}]

-----------------------------------------------------------------------------

Goto(p, l) == pc' = [pc EXCEPT ![p] = l]

\* Mutation: a process deployed again remembers what it had dealt with.
StartKeepsDone(p) ==
    /\ pc[p] \in {"down", "serving", "failed"}
    /\ Goto(p, "ensure")
    /\ \E f \in Release : files' = [files EXCEPT ![p] = f]
    /\ applied' = [applied EXCEPT ![p] = Nothing]
    /\ UNCHANGED <<table, record, ran, advisory, done>>

\* A process is deployed, or deployed again with another release.
Start(p) ==
    /\ pc[p] \in {"down", "serving", "failed"}
    /\ Goto(p, "ensure")
    /\ \E f \in Release : files' = [files EXCEPT ![p] = f]
    /\ applied' = [applied EXCEPT ![p] = Nothing]
    /\ done' = [done EXCEPT ![p] = {}]
    /\ UNCHANGED <<table, record, ran, advisory>>

\* CREATE TABLE IF NOT EXISTS looks first and creates later, before the lock is
\* taken: with the table still missing two processes can both set out to create it.
EnsureLook(p) ==
    /\ pc[p] = "ensure"
    /\ Goto(p, IF table THEN "lock" ELSE "creating")
    /\ UNCHANGED <<table, record, ran, advisory, files, applied, done>>

\* The later of them fails on the catalogue's unique index.
EnsureCreate(p) ==
    /\ pc[p] = "creating"
    /\ Goto(p, IF table THEN "failed" ELSE "lock")
    /\ table' = TRUE
    /\ UNCHANGED <<record, ran, advisory, files, applied, done>>

\* Mutation: the lock is only tried, and its result ignored.
TryLock(p) ==
    /\ pc[p] = "lock"
    /\ advisory' = IF advisory = NoProcess THEN p ELSE advisory
    /\ Goto(p, "read")
    /\ UNCHANGED <<table, record, ran, files, applied, done>>

\* pg_advisory_lock waits for the session that holds it.
Lock(p) ==
    /\ pc[p] = "lock"
    /\ advisory = NoProcess
    /\ advisory' = p
    /\ Goto(p, "read")
    /\ UNCHANGED <<table, record, ran, files, applied, done>>

ReadApplied(p) ==
    /\ pc[p] = "read"
    /\ applied' = [applied EXCEPT ![p] = record]
    /\ Goto(p, "loop")
    /\ UNCHANGED <<table, record, ran, advisory, files, done>>

Pending(p) == DOMAIN files[p] \ done[p]

\* LoadMigrations sorts by version.  Mutation: the other way round.
LatestFirst(p, v) == v \in Pending(p) /\ \A w \in Pending(p) : v >= w
IsNext(p, v) == v \in Pending(p) /\ \A w \in Pending(p) : v <= w

\* Mutation: a recorded version is skipped without comparing checksums.
SkipApplied(p) ==
    /\ pc[p] = "loop"
    /\ \E v \in Version :
          /\ IsNext(p, v)
          /\ IF applied[p][v] = NoSum
             THEN Goto(p, "body") /\ UNCHANGED done
             ELSE UNCHANGED pc /\ done' = [done EXCEPT ![p] = @ \cup {v}]
    /\ UNCHANGED <<table, record, ran, advisory, files, applied>>

\* The loop's head, for a version that is recorded or has to be applied.
Examine(p) ==
    /\ pc[p] = "loop"
    /\ \E v \in Version :
          /\ IsNext(p, v)
          /\ \/ /\ applied[p][v] = NoSum
                /\ Goto(p, "body") /\ UNCHANGED done
             \/ /\ applied[p][v] = files[p][v]
                /\ UNCHANGED pc /\ done' = [done EXCEPT ![p] = @ \cup {v}]
             \/ /\ applied[p][v] \notin {NoSum, files[p][v]}
                /\ Goto(p, "unlockFail") /\ UNCHANGED done
    /\ UNCHANGED <<table, record, ran, advisory, files, applied>>

LoopEnd(p) ==
    /\ pc[p] = "loop"
    /\ Pending(p) = {}
    /\ Goto(p, "unlock")
    /\ UNCHANGED <<table, record, ran, advisory, files, applied, done>>

\* Mutation: the file's SQL is committed before its record is inserted.
RunBodyAlone(p) ==
    /\ pc[p] = "body"
    /\ Goto(p, "commit")
    /\ \E v \in Version : IsNext(p, v) /\ ran' = [ran EXCEPT ![v] = @ + 1]
    /\ UNCHANGED <<table, record, advisory, files, applied, done>>

\* The transaction is open and the file's SQL has run; nobody sees it yet.
RunBody(p) ==
    /\ pc[p] = "body"
    /\ Goto(p, "commit")
    /\ UNCHANGED <<table, record, ran, advisory, files, applied, done>>

\* The INSERT into schema_migrations and the COMMIT of both.  A version somebody
\* recorded meanwhile fails on the primary key, and the transaction rolls back.
Commit(p) ==
    /\ pc[p] = "commit"
    /\ \E v \in Version :
          /\ IsNext(p, v)
          /\ IF record[v] # NoSum
             THEN Goto(p, "unlockFail") /\ UNCHANGED <<record, ran, done>>
             ELSE /\ record' = [record EXCEPT ![v] = files[p][v]]
                  /\ ran' = [ran EXCEPT ![v] = @ + 1]
                  /\ done' = [done EXCEPT ![p] = @ \cup {v}]
                  /\ Goto(p, "loop")
    /\ UNCHANGED <<table, advisory, files, applied>>

\* Mutation: a successful run returns its connection to the pool with the lock.
UnlockOnFailure(p) ==
    /\ \/ pc[p] = "unlock" /\ Goto(p, "serving") /\ UNCHANGED advisory
       \/ /\ pc[p] = "unlockFail" /\ Goto(p, "failed")
          /\ advisory' = IF advisory = p THEN NoProcess ELSE advisory
    /\ UNCHANGED <<table, record, ran, files, applied, done>>

\* The deferred unlock, after which the process serves or exits.
Unlock(p) ==
    /\ \/ pc[p] = "unlock" /\ Goto(p, "serving")
       \/ pc[p] = "unlockFail" /\ Goto(p, "failed")
    /\ advisory' = IF advisory = p THEN NoProcess ELSE advisory
    /\ UNCHANGED <<table, record, ran, files, applied, done>>

\* A statement fails or its context expires: the transaction rolls back and the
\* deferred unlock runs.  The process exits with the error.
StatementFails(p) ==
    /\ Faults
    /\ \/ pc[p] \in {"ensure", "creating", "lock"} /\ Goto(p, "failed")
       \/ pc[p] \in {"read", "body", "commit"} /\ Goto(p, "unlockFail")
    /\ UNCHANGED <<table, record, ran, advisory, files, applied, done>>

\* The process dies, or loses its connection.
Crash(p) ==
    /\ Faults
    /\ pc[p] \notin {"down", "serving", "failed", "dead"}
    /\ Goto(p, "dead")
    /\ UNCHANGED <<table, record, ran, advisory, files, applied, done>>

\* The server notices: the session ends, with its transaction and its lock.
SessionEnds(p) ==
    /\ pc[p] = "dead"
    /\ Goto(p, "down")
    /\ advisory' = IF advisory = p THEN NoProcess ELSE advisory
    /\ UNCHANGED <<table, record, ran, files, applied, done>>

Proceed(p) ==
    \/ EnsureLook(p) \/ EnsureCreate(p)
    \/ ReadApplied(p) \/ Examine(p) \/ LoopEnd(p)
    \/ RunBody(p) \/ Commit(p) \/ Unlock(p)

Next ==
    \E p \in Process :
        \/ Start(p) \/ Lock(p) \/ Proceed(p)
        \/ StatementFails(p) \/ Crash(p) \/ SessionEnds(p)

Spec == Init /\ [][Next]_vars

\* A running process takes its next step, the server notices a lost connection,
\* and PostgreSQL queues the sessions that wait for a lock.
Fairness ==
    \A p \in Process :
        WF_vars(Proceed(p)) /\ SF_vars(Lock(p)) /\ WF_vars(SessionEnds(p))

FairSpec == Spec /\ Fairness

-----------------------------------------------------------------------------
(* Properties                                                              *)

\* No file is applied twice, and its effect and its record appear together, even
\* when two processes start at once or one dies in the middle.
AppliedOnce ==
    \A v \in Version : ran[v] = IF record[v] = NoSum THEN 0 ELSE 1

\* What a process decides on under the lock is what the table holds: the rows it
\* read, and those it added since, are all there are.
NoStaleView ==
    \A p \in Process : pc[p] \in {"loop", "body", "commit"} =>
        \A v \in Version \ done[p] : record[v] = applied[p][v]

\* A process that came up serves on the schema of its own release: every file it
\* carries is recorded with the checksum it carries it with, now and later.
ServingMatches ==
    \A p \in Process : pc[p] = "serving" =>
        \A v \in DOMAIN files[p] : record[v] = files[p][v]

\* A file is run only on top of every earlier file of its release.
AppliedInOrder ==
    \A p \in Process : pc[p] \in {"body", "commit"} =>
        \A v \in Pending(p), w \in DOMAIN files[p] :
            IsNext(p, v) /\ w < v => record[w] = files[p][w]

\* Every start comes to an end: nobody waits forever for the lock, not even for
\* that of a process that died holding it.
StartsSettle ==
    \A p \in Process :
        pc[p] = "ensure" ~> pc[p] \in {"serving", "failed", "down"}

\* AGENT.md:164 of several instances starting at once: "concurrent API startups
\* are safe".  With sound files and no failing statement every start succeeds.
StartupsSucceed == \A p \in Process : pc[p] # "failed"

=============================================================================
