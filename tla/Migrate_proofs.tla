--------------------------- MODULE Migrate_proofs ---------------------------
(***************************************************************************)
(* Theorems about Migrate, for any number of processes, versions and       *)
(* releases, with and without faults.                                      *)
(***************************************************************************)
EXTENDS Migrate, WellFoundedInduction, TLAPS

-----------------------------------------------------------------------------
(* The inductive invariant                                                 *)

\* Between its lock and its unlock a process holds the lock: no two are there.
LockInv == \A p \in Process : pc[p] \in Locked => advisory = p

\* On its way up a process has dealt with a version only when the table says so.
Deciding == {"ensure", "creating", "lock", "read", "loop", "body", "commit",
             "unlock", "serving"}

DoneInv ==
    \A p \in Process :
        /\ pc[p] \in Deciding => \A v \in done[p] : record[v] = files[p][v]
        /\ pc[p] \in {"unlock", "serving"} => done[p] = DOMAIN files[p]

\* The lock is held by a process that works under it, or by a dead session.
HolderInv == advisory # NoProcess => pc[advisory] \in Locked \cup {"dead"}

\* A file that is being applied is one the process has not dealt with.
PendingInv == \A p \in Process : pc[p] \in {"body", "commit"} => Pending(p) # {}

IInv == TypeOK /\ LockInv /\ AppliedOnce /\ NoStaleView /\ DoneInv
        /\ HolderInv /\ PendingInv

-----------------------------------------------------------------------------
(* What a step leaves alone                                                *)

Step(p) ==
    \/ Start(p) \/ Lock(p) \/ Proceed(p)
    \/ StatementFails(p) \/ Crash(p) \/ SessionEnds(p)

\* Nobody touches the local variables of another process.
LEMMA OthersUntouched ==
    ASSUME TypeOK, NEW p \in Process, Step(p), NEW q \in Process, q # p
    PROVE  /\ pc'[q] = pc[q] /\ files'[q] = files[q]
           /\ applied'[q] = applied[q] /\ done'[q] = done[q]
<1> USE DEF TypeOK, Goto
<1>1. CASE Start(p)
  BY <1>1 DEF Start
<1>2. CASE Proceed(p)
  BY <1>2 DEF Proceed, EnsureLook, EnsureCreate, ReadApplied, Examine, LoopEnd,
     RunBody, Commit, Unlock
<1> QED BY <1>1, <1>2 DEF Step, Lock, StatementFails, Crash, SessionEnds

\* The table is written by Commit alone.
LEMMA OnlyCommitWrites ==
    ASSUME NEW p \in Process, Step(p), ~ Commit(p)
    PROVE  record' = record /\ ran' = ran
BY DEF Step, Start, Lock, Proceed, StatementFails, Crash, SessionEnds, EnsureLook,
   EnsureCreate, ReadApplied, Examine, LoopEnd, RunBody, Unlock

\* Commit writes its own record, where none was, and counts its file.
LEMMA CommitWrites ==
    ASSUME TypeOK, NEW p \in Process, Commit(p)
    PROVE  \/ record' = record /\ ran' = ran
           \/ \E v \in DOMAIN files[p] :
                 /\ record[v] = NoSum
                 /\ record' = [record EXCEPT ![v] = files[p][v]]
                 /\ ran' = [ran EXCEPT ![v] = @ + 1]
BY DEF TypeOK, Commit, IsNext, Pending

\* The checksum of a file is one.
LEMMA SumOfFile ==
    ASSUME TypeOK, NEW p \in Process, NEW v \in DOMAIN files[p]
    PROVE  v \in Version /\ files[p][v] \in Sum /\ files[p][v] # NoSum
BY MigrateAssumption DEF TypeOK

\* A record is there for good.
LEMMA RecordsStay ==
    ASSUME TypeOK, [Next]_vars, NEW v \in Version, record[v] # NoSum
    PROVE  record'[v] = record[v]
<1>1. CASE UNCHANGED vars
  BY <1>1 DEF vars
<1>2. ASSUME NEW p \in Process, Step(p) PROVE record'[v] = record[v]
  BY <1>2, OnlyCommitWrites, CommitWrites DEF TypeOK
<1> QED BY <1>1, <1>2 DEF Next, Step

-----------------------------------------------------------------------------
(* The parts of the invariant, one by one                                  *)

\* Every step of a process keeps the variables in their types.
LEMMA TypeStep == TypeOK /\ [Next]_vars => TypeOK'
<1> SUFFICES ASSUME TypeOK, [Next]_vars PROVE TypeOK'
    OBVIOUS
<1> USE DEF TypeOK, Goto, PCs
<1>1. ASSUME NEW p \in Process, Start(p) PROVE TypeOK'
  BY <1>1 DEF Start, Nothing
<1>2. ASSUME NEW p \in Process, Lock(p) PROVE TypeOK'
  BY <1>2 DEF Lock
<1>3. ASSUME NEW p \in Process, Proceed(p) PROVE TypeOK'
  <2>1. CASE EnsureLook(p) \/ EnsureCreate(p)
    BY <2>1 DEF EnsureLook, EnsureCreate
  <2>2. CASE ReadApplied(p)
    BY <2>2 DEF ReadApplied
  <2>3. CASE Examine(p)
    <3>1. PICK v \in DOMAIN files[p] :
             done' = done \/ done' = [done EXCEPT ![p] = @ \cup {v}]
      BY <2>3 DEF Examine, IsNext, Pending
    <3>2. done' \in [Process -> SUBSET Version]
      BY <3>1, SumOfFile
    <3>3. pc' \in [Process -> PCs] /\ UNCHANGED <<table, record, ran, advisory, files, applied>>
      BY <2>3 DEF Examine
    <3>4. \A q \in Process : done'[q] \subseteq DOMAIN files'[q]
      BY <3>1, <3>3
    <3> QED BY <3>2, <3>3, <3>4
  <2>4. CASE LoopEnd(p) \/ RunBody(p)
    BY <2>4 DEF LoopEnd, RunBody
  <2>5. CASE Commit(p)
    <3>1. \A v \in DOMAIN files[p] : v \in Version /\ files[p][v] \in Sum
      BY SumOfFile
    <3>2. record' \in [Version -> Sum \cup {NoSum}] /\ ran' \in [Version -> Nat]
      <4>1. ASSUME NEW v \in DOMAIN files[p],
                   record' = [record EXCEPT ![v] = files[p][v]],
                   ran' = [ran EXCEPT ![v] = @ + 1]
            PROVE  record' \in [Version -> Sum \cup {NoSum}] /\ ran' \in [Version -> Nat]
        BY <3>1, <4>1
      <4> QED BY <2>5, <4>1, CommitWrites
    <3>3. PICK v \in DOMAIN files[p] :
             done' = done \/ done' = [done EXCEPT ![p] = @ \cup {v}]
      BY <2>5 DEF Commit, IsNext, Pending
    <3>4. done' \in [Process -> SUBSET Version]
      BY <3>1, <3>3
    <3>5. pc' \in [Process -> PCs] /\ UNCHANGED <<table, advisory, files, applied>>
      BY <2>5 DEF Commit
    <3>6. \A q \in Process : done'[q] \subseteq DOMAIN files'[q]
      BY <3>3, <3>5
    <3> QED BY <3>2, <3>4, <3>5, <3>6
  <2>6. CASE Unlock(p)
    BY <2>6 DEF Unlock
  <2> QED BY <1>3, <2>1, <2>2, <2>3, <2>4, <2>5, <2>6 DEF Proceed
<1>4. ASSUME NEW p \in Process, StatementFails(p) \/ Crash(p) \/ SessionEnds(p)
      PROVE  TypeOK'
  BY <1>4 DEF StatementFails, Crash, SessionEnds
<1>5. CASE UNCHANGED vars
  BY <1>5 DEF vars
<1> QED BY <1>1, <1>2, <1>3, <1>4, <1>5 DEF Next

\* The lock passes from one process to another only while nobody is inside.
LEMMA LockStep == TypeOK /\ LockInv /\ [Next]_vars => LockInv'
<1> SUFFICES ASSUME TypeOK, LockInv, [Next]_vars,
                    NEW q \in Process, pc'[q] \in Locked
             PROVE  advisory' = q
    BY DEF LockInv
<1>1. CASE UNCHANGED vars
  BY <1>1 DEF vars, LockInv
<1>2. ASSUME NEW p \in Process, Step(p), p # q PROVE advisory' = q
  <2>1. advisory = q
    BY <1>2, OthersUntouched DEF LockInv
  <2> QED BY <1>2, <2>1, MigrateAssumption DEF Step, Start, Lock, Proceed,
       StatementFails, Crash, SessionEnds, EnsureLook, EnsureCreate, ReadApplied,
       Examine, LoopEnd, RunBody, Commit, Unlock
<1>3. ASSUME Step(q) PROVE advisory' = q
  <2> USE DEF TypeOK, Goto, Locked, LockInv
  <2>1. CASE Proceed(q)
    BY <2>1 DEF Proceed, EnsureLook, EnsureCreate, ReadApplied, Examine, LoopEnd,
       RunBody, Commit, Unlock
  <2> QED BY <1>3, <2>1 DEF Step, Start, Lock, StatementFails, Crash, SessionEnds
<1> QED BY <1>1, <1>2, <1>3 DEF Next, Step

\* A file's effect and its record are committed together.
LEMMA AppliedStep == TypeOK /\ AppliedOnce /\ [Next]_vars => AppliedOnce'
<1> SUFFICES ASSUME TypeOK, AppliedOnce, [Next]_vars PROVE AppliedOnce'
    OBVIOUS
<1>1. CASE record' = record /\ ran' = ran
  BY <1>1 DEF AppliedOnce
<1>2. ASSUME NEW p \in Process, NEW v \in DOMAIN files[p], record[v] = NoSum,
             record' = [record EXCEPT ![v] = files[p][v]],
             ran' = [ran EXCEPT ![v] = @ + 1]
      PROVE  AppliedOnce'
  BY <1>2, SumOfFile DEF AppliedOnce, TypeOK
<1>3. CASE UNCHANGED vars
  BY <1>1, <1>3 DEF vars
<1> QED BY <1>1, <1>2, <1>3, OnlyCommitWrites, CommitWrites DEF Next, Step

\* While one process decides, nobody but itself writes the table.
LEMMA ViewStep == TypeOK /\ LockInv /\ NoStaleView /\ [Next]_vars => NoStaleView'
<1> SUFFICES ASSUME TypeOK, LockInv, NoStaleView, [Next]_vars, NEW q \in Process,
                    pc'[q] \in {"loop", "body", "commit"},
                    NEW v \in Version, v \notin done'[q]
             PROVE  record'[v] = applied'[q][v]
    BY DEF NoStaleView
<1>1. CASE UNCHANGED vars
  BY <1>1 DEF vars, NoStaleView
<1>2. ASSUME NEW p \in Process, Step(p), p # q PROVE record'[v] = applied'[q][v]
  <2>1. ~ Commit(p)
    <3>1. advisory = q
      BY <1>2, OthersUntouched DEF LockInv, Locked
    <3> QED BY <1>2, <3>1 DEF Commit, LockInv, Locked
  <2> QED BY <1>2, <2>1, OthersUntouched, OnlyCommitWrites DEF NoStaleView
<1>3. ASSUME Step(q) PROVE record'[v] = applied'[q][v]
  <2> USE DEF TypeOK, Goto, NoStaleView
  <2>1. CASE ReadApplied(q)
    BY <2>1 DEF ReadApplied
  <2>2. CASE Examine(q) \/ RunBody(q)
    BY <2>2 DEF Examine, RunBody
  <2>3. CASE Commit(q)
    BY <2>3 DEF Commit
  <2>4. CASE EnsureLook(q) \/ EnsureCreate(q) \/ LoopEnd(q) \/ Unlock(q)
    BY <2>4 DEF EnsureLook, EnsureCreate, LoopEnd, Unlock
  <2> QED BY <1>3, <2>1, <2>2, <2>3, <2>4 DEF Step, Proceed, Start, Lock,
       StatementFails, Crash, SessionEnds
<1> QED BY <1>1, <1>2, <1>3 DEF Next, Step

\* A version is dealt with when its record was found in the table, or was put
\* there; records stay, so this remains true under everybody else's steps.
LEMMA DoneStep == IInv /\ [Next]_vars => DoneInv'
<1> SUFFICES ASSUME IInv, [Next]_vars, NEW q \in Process
             PROVE  /\ pc'[q] \in Deciding =>
                          \A v \in done'[q] : record'[v] = files'[q][v]
                    /\ pc'[q] \in {"unlock", "serving"} => done'[q] = DOMAIN files'[q]
    BY DEF DoneInv
<1>0. ASSUME pc[q] \in Deciding, NEW v \in done[q]
      PROVE  record'[v] = files[q][v]
  <2>1. record[v] = files[q][v] /\ v \in DOMAIN files[q]
    BY <1>0 DEF IInv, DoneInv, TypeOK
  <2> QED BY <2>1, SumOfFile, RecordsStay DEF IInv
<1>1. CASE UNCHANGED vars
  BY <1>1 DEF vars, IInv, DoneInv
<1>2. ASSUME NEW p \in Process, Step(p), p # q
      PROVE  /\ pc'[q] \in Deciding =>
                   \A v \in done'[q] : record'[v] = files'[q][v]
             /\ pc'[q] \in {"unlock", "serving"} => done'[q] = DOMAIN files'[q]
  BY <1>0, <1>2, OthersUntouched DEF IInv, DoneInv
<1>3. ASSUME Step(q)
      PROVE  /\ pc'[q] \in Deciding =>
                   \A v \in done'[q] : record'[v] = files'[q][v]
             /\ pc'[q] \in {"unlock", "serving"} => done'[q] = DOMAIN files'[q]
  <2> USE DEF IInv, TypeOK, Goto, Deciding
  <2>1. CASE Start(q)
    BY <2>1 DEF Start
  <2>2. CASE Lock(q) \/ EnsureLook(q) \/ EnsureCreate(q) \/ ReadApplied(q) \/ RunBody(q)
    BY <1>0, <2>2 DEF Lock, EnsureLook, EnsureCreate, ReadApplied, RunBody
  <2>3. CASE Examine(q)
    <3>1. record' = record /\ files' = files /\ pc[q] = "loop"
          /\ pc'[q] \notin {"unlock", "serving"}
      BY <2>3 DEF Examine
    <3>2. PICK v \in Version :
             /\ v \in DOMAIN files[q] /\ v \notin done[q]
             /\ done' = done \/ (/\ applied[q][v] = files[q][v]
                               /\ done' = [done EXCEPT ![q] = @ \cup {v}])
      BY <2>3 DEF Examine, IsNext, Pending
    <3>3. record[v] = applied[q][v]
      BY <3>1, <3>2 DEF NoStaleView
    <3> QED BY <1>0, <3>1, <3>2, <3>3
  <2>4. CASE LoopEnd(q)
    <3>1. done[q] = DOMAIN files[q]
      BY <2>4 DEF LoopEnd, Pending
    <3> QED BY <1>0, <2>4, <3>1 DEF LoopEnd
  <2>5. CASE Commit(q)
    <3>1. files' = files /\ pc[q] = "commit" /\ pc'[q] \notin {"unlock", "serving"}
      BY <2>5 DEF Commit
    <3>2. \/ pc'[q] = "unlockFail"
          \/ \E v \in Version : /\ record'[v] = files[q][v]
                               /\ done' = [done EXCEPT ![q] = @ \cup {v}]
      BY <2>5 DEF Commit
    <3> QED BY <1>0, <3>1, <3>2
  <2>6. CASE Unlock(q)
    BY <1>0, <2>6 DEF Unlock, DoneInv
  <2>7. CASE StatementFails(q) \/ Crash(q) \/ SessionEnds(q)
    BY <2>7 DEF StatementFails, Crash, SessionEnds
  <2> QED BY <1>3, <2>1, <2>2, <2>3, <2>4, <2>5, <2>6, <2>7 DEF Step, Proceed
<1> QED BY <1>1, <1>2, <1>3 DEF Next, Step

\* Who takes the lock goes on to read, and leaves the steps under it, alive, only
\* by giving the lock back.
LEMMA HolderStep == TypeOK /\ LockInv /\ HolderInv /\ [Next]_vars => HolderInv'
<1> SUFFICES ASSUME TypeOK, LockInv, HolderInv, [Next]_vars PROVE HolderInv'
    OBVIOUS
<1>0. advisory' \in Process \cup {NoProcess}
  BY TypeStep DEF TypeOK
<1> SUFFICES ASSUME NEW q \in Process, advisory' = q
             PROVE  pc'[q] \in Locked \cup {"dead"}
    BY <1>0 DEF HolderInv
<1>1. CASE UNCHANGED vars
  BY <1>1, MigrateAssumption DEF vars, HolderInv
<1>2. ASSUME NEW p \in Process, Step(p), p # q PROVE pc'[q] \in Locked \cup {"dead"}
  <2>1. advisory = q
    BY <1>2, MigrateAssumption DEF Step, Start, Lock, Proceed, StatementFails, Crash,
       SessionEnds, EnsureLook, EnsureCreate, ReadApplied, Examine, LoopEnd, RunBody,
       Commit, Unlock
  <2> QED BY <1>2, <2>1, OthersUntouched, MigrateAssumption DEF HolderInv
<1>3. ASSUME Step(q) PROVE pc'[q] \in Locked \cup {"dead"}
  <2> USE DEF TypeOK, Goto, Locked
  <2>1. advisory = q => pc[q] \in Locked \cup {"dead"}
    BY MigrateAssumption DEF HolderInv
  <2>2. CASE Proceed(q)
    BY <2>1, <2>2, MigrateAssumption DEF Proceed, EnsureLook, EnsureCreate,
       ReadApplied, Examine, LoopEnd, RunBody, Commit, Unlock
  <2> QED BY <1>3, <2>1, <2>2, MigrateAssumption DEF Step, Start, Lock, StatementFails,
       Crash, SessionEnds
<1> QED BY <1>1, <1>2, <1>3 DEF Next, Step

\* Examine sends a process to the body of a file it has pending.
LEMMA PendingStep == TypeOK /\ PendingInv /\ [Next]_vars => PendingInv'
<1> SUFFICES ASSUME TypeOK, PendingInv, [Next]_vars,
                    NEW q \in Process, pc'[q] \in {"body", "commit"}
             PROVE  DOMAIN files'[q] \ done'[q] # {}
    BY DEF PendingInv, Pending
<1> USE DEF PendingInv, Pending
<1>1. CASE UNCHANGED vars
  BY <1>1 DEF vars
<1>2. ASSUME NEW p \in Process, Step(p), p # q PROVE DOMAIN files'[q] \ done'[q] # {}
  BY <1>2, OthersUntouched
<1>3. ASSUME Step(q) PROVE DOMAIN files'[q] \ done'[q] # {}
  <2> USE DEF TypeOK, Goto
  <2>1. CASE Examine(q) \/ RunBody(q) \/ Commit(q)
    BY <2>1 DEF Examine, RunBody, Commit, IsNext
  <2>2. CASE EnsureLook(q) \/ EnsureCreate(q) \/ ReadApplied(q) \/ LoopEnd(q) \/ Unlock(q)
    BY <2>2 DEF EnsureLook, EnsureCreate, ReadApplied, LoopEnd, Unlock
  <2> QED BY <1>3, <2>1, <2>2 DEF Step, Proceed, Start, Lock, StatementFails, Crash,
       SessionEnds
<1> QED BY <1>1, <1>2, <1>3 DEF Next, Step

\* Of the versions a process has pending one is the next.
LEMMA NextExists ==
    ASSUME TypeOK, NEW p \in Process, Pending(p) # {}
    PROVE  \E v \in Version : IsNext(p, v)
<1>1. Pending(p) \subseteq Version /\ Pending(p) \subseteq Nat
  BY MigrateAssumption DEF Pending, TypeOK
<1>2. PICK v \in Pending(p) : \A w \in Pending(p) : ~(<<w, v>> \in OpToRel(<, Nat))
  BY <1>1, NatLessThanWellFounded, WFMin
<1>3. \A w \in Pending(p) : ~(w < v)
  BY <1>1, <1>2 DEF OpToRel
<1> QED BY <1>1, <1>3 DEF IsNext

-----------------------------------------------------------------------------
(* The theorems                                                            *)

\* The inductive invariant, with its lock, its counts and its views, holds
\* whoever starts, dies or comes back at any point.
THEOREM Invariance == Spec => []IInv
<1>1. Init => IInv
  <2> SUFFICES ASSUME Init PROVE IInv
      OBVIOUS
  <2>1. TypeOK
    BY DEF Init, TypeOK, Nothing, PCs
  <2>2. LockInv /\ NoStaleView /\ DoneInv /\ HolderInv /\ PendingInv
    BY DEF Init, LockInv, NoStaleView, DoneInv, HolderInv, PendingInv, Locked, Deciding
  <2>3. AppliedOnce
    BY DEF Init, AppliedOnce, Nothing
  <2> QED BY <2>1, <2>2, <2>3 DEF IInv
<1>2. IInv /\ [Next]_vars => IInv'
  BY TypeStep, LockStep, AppliedStep, ViewStep, DoneStep, HolderStep, PendingStep
     DEF IInv
<1> QED BY <1>1, <1>2, PTL DEF Spec

\* Every variable of the migrator stays in its type.
THEOREM TypeCorrect == Spec => []TypeOK
BY Invariance, PTL DEF IInv

\* No file is applied twice, and none without its record, in any number of
\* processes.
THEOREM AppliedOnceHolds == Spec => []AppliedOnce
BY Invariance, PTL DEF IInv

\* What a process read under the lock stays true until it unlocks.
THEOREM NoStaleViewHolds == Spec => []NoStaleView
BY Invariance, PTL DEF IInv

\* A process that serves finds every file of its release in the table.
THEOREM ServingMatchesHolds == Spec => []ServingMatches
<1>1. IInv => ServingMatches
  BY DEF IInv, DoneInv, ServingMatches, Deciding
<1> QED BY <1>1, Invariance, PTL

\* A file is run only when the table has every earlier file of its release.
THEOREM AppliedInOrderHolds == Spec => []AppliedInOrder
<1>1. IInv => AppliedInOrder
  <2> SUFFICES ASSUME IInv, NEW p \in Process, pc[p] \in {"body", "commit"},
                      NEW v \in Pending(p), NEW w \in DOMAIN files[p],
                      IsNext(p, v), w < v
               PROVE  record[w] = files[p][w]
      BY DEF AppliedInOrder
  <2>1. v \in Nat /\ w \in Nat
    BY MigrateAssumption DEF Pending, IInv, TypeOK
  <2>2. w \notin Pending(p)
    BY <2>1 DEF IsNext
  <2> QED BY <2>2 DEF Pending, IInv, DoneInv, Deciding
<1> QED BY <1>1, Invariance, PTL

\* What is recorded is never changed or removed: a process that serves is on its
\* schema for good.
THEOREM RecordsAreForGood ==
    Spec => [][\A v \in Version : record[v] # NoSum => record'[v] = record[v]]_vars
<1>1. IInv /\ [Next]_vars =>
        [\A v \in Version : record[v] # NoSum => record'[v] = record[v]]_vars
  BY RecordsStay DEF IInv
<1> QED BY <1>1, Invariance, PTL DEF Spec

-----------------------------------------------------------------------------
(* What StartsSettle rests on: a process that waits for the lock waits for *)
(* one that has a step to take, and takes finitely many.                   *)

\* Whoever holds the lock works under it or is dead, and in each place there the
\* step the code takes next is possible: a file that is being applied is there, and
\* the loop either has a next file or ends.
NobodyBlocks ==
    \A p \in Process :
        /\ pc[p] = "lock" => \/ advisory = NoProcess
                              \/ pc[advisory] \in Locked \cup {"dead"}
        /\ pc[p] \in {"body", "commit"} => \E v \in Version : IsNext(p, v)
        /\ pc[p] = "loop" => Pending(p) = {} \/ \E v \in Version : IsNext(p, v)

\* No process waits for a lock whose holder has left, or got stuck in, the steps
\* between Migrate's lock and its unlock.
THEOREM NobodyBlocksHolds == Spec => []NobodyBlocks
<1>1. IInv => NobodyBlocks
  BY NextExists DEF IInv, HolderInv, PendingInv, NobodyBlocks
<1> QED BY <1>1, Invariance, PTL

\* How many steps lie at most between a place under the lock and the next file.
Rank == [l \in Locked |-> CASE l = "read"   -> 4
                            [] l = "loop"   -> 3
                            [] l = "body"   -> 2
                            [] l = "commit" -> 1
                            [] OTHER        -> 0]

\* A step of a process under the lock takes it out, deals with one more of its
\* files, or brings it nearer to that: there are finitely many.  A step of another
\* process changes none of this.
Advances ==
    \A p \in Process : pc[p] \in Locked =>
        \/ pc'[p] = pc[p] /\ done'[p] = done[p] /\ files'[p] = files[p]
        \/ pc'[p] \notin Locked
        \/ \E v \in Pending(p) : done'[p] = done[p] \cup {v} /\ files'[p] = files[p]
        \/ Rank[pc'[p]] < Rank[pc[p]] /\ done'[p] = done[p] /\ files'[p] = files[p]

\* Every step under the lock is towards its end: Migrate has no way back to a file
\* it has dealt with, however the other processes interfere.
THEOREM LockIsGivenBack == Spec => [][Advances]_vars
<1>1. TypeOK /\ [Next]_vars => [Advances]_vars
  <2> SUFFICES ASSUME TypeOK, NEW p \in Process, Step(p), NEW q \in Process,
                      pc[q] \in Locked, pc'[q] \in Locked,
                      ~(/\ pc'[q] = pc[q] /\ done'[q] = done[q]
                        /\ files'[q] = files[q])
               PROVE  /\ files'[q] = files[q]
                      /\ \/ \E v \in Pending(q) : done'[q] = done[q] \cup {v}
                         \/ Rank[pc'[q]] < Rank[pc[q]] /\ done'[q] = done[q]
      BY DEF Advances, Next, Step
  <2>1. p = q
    BY OthersUntouched
  <2> USE DEF TypeOK, Goto
  <2>2. CASE Examine(q) \/ Commit(q)
    <3>1. files' = files
      BY <2>2 DEF Examine, Commit
    <3>2. PICK v \in Pending(q) :
             \/ done'[q] = done[q] \cup {v}
             \/ done'[q] = done[q] /\ pc[q] = "loop" /\ pc'[q] \in {"body", "unlockFail"}
             \/ done'[q] = done[q] /\ pc[q] = "commit" /\ pc'[q] = "unlockFail"
      BY <2>2 DEF Examine, Commit, IsNext
    <3> QED BY <3>1, <3>2 DEF Rank, Locked
  <2>3. CASE EnsureLook(q) \/ EnsureCreate(q) \/ ReadApplied(q) \/ LoopEnd(q) \/ RunBody(q)
    BY <2>3 DEF EnsureLook, EnsureCreate, ReadApplied, LoopEnd, RunBody, Rank, Locked
  <2>4. CASE Unlock(q) \/ Start(q) \/ Lock(q) \/ Crash(q) \/ SessionEnds(q)
    BY <2>4 DEF Unlock, Start, Lock, Crash, SessionEnds, Locked
  <2>5. CASE StatementFails(q)
    BY <2>5 DEF StatementFails, Rank, Locked
  <2> QED BY <2>1, <2>2, <2>3, <2>4, <2>5 DEF Step, Proceed
<1>2. IInv => TypeOK
  BY DEF IInv
<1> QED BY <1>1, <1>2, Invariance, PTL DEF Spec

=============================================================================
