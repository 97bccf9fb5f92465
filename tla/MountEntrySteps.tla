--------------------------- MODULE MountEntrySteps ---------------------------
(***************************************************************************)
(* What the holder of entry.operation does, persistRecord and the timers   *)
(* preserve IInv: the first half of the proof of MountEntryProofs.         *)
(***************************************************************************)
EXTENDS MountEntryLemmas

USE DEF callVars, timerVars, systemVars, daemonVars, otherVars

\* Mount and remount begin an attempt.
LEMMA MountSteps == IInv /\ (Mount \/ Remount) => IInv'
<1>0. ASSUME IInv PROVE TypeOK /\ ThreadsOK /\ AttemptInv /\ RecordsBounded
  BY <1>0, Zenon DEF IInv, TypeOK, ControlInv, AttemptInv, RecordsBounded
<1>1. ASSUME IInv, Mount PROVE IInv'
  <2>1. entry' = NewEntry(entry.generation + 1, 1, FALSE) /\ entry.generation < MaxGen
    BY <1>1, Zenon DEF Mount
  <2>2. entry' \in Entries
    <3>1. 1 \in Nat /\ entry.generation + 1 \in 0 .. MaxGen
      BY <1>0, <1>1, <2>1, Counters, Zenon
    <3> QED BY <2>1, <3>1, NewEntryType, Zenon
  <2>3. TypeOK'
    <3>1. ThreadsOK'
      BY <1>0, <1>1, ThreadsOKStep, ThreadFacts, Zenon DEF Mount, PCs, OpPCs
    <3> QED BY <1>0, <1>1, <2>2, <3>1, Zenon DEF Mount, TypeOK, NoCall, States
  <2>4. ControlInv'
    <3>1. /\ entry'.generation = entry.generation + 1
          /\ entry'.exitDone = entry.generation + 1
          /\ entry'.attempt = 1 /\ ~entry'.unmounting
      BY <2>1, Zenon DEF NewEntry
    <3>2. /\ OthersStay(Op) /\ pc'[Op] = "create" /\ OperationFree
          /\ operation' = Op /\ rec' = rec
      BY <1>0, <1>1, MoveFacts, ThreadFacts, Zenon DEF Mount
    <3>3. UNCHANGED <<timerVars, closed, db>> /\ Exists'
      BY <1>1, Zenon DEF Mount, Exists
    <3>4. RecordsBounded'
      BY <1>0, <1>1, <3>2, <3>3, Zenon DEF RecordsBounded
    <3>5. entry'.attempt \in Nat /\ entry'.attempt <= MaxAttempts
      BY <3>1, AttemptsAssumption
    <3> QED BY <1>1, <2>1, <3>1, <3>2, <3>3, <3>4, <3>5, FreshAttempt, Zenon
  <2> QED BY <2>3, <2>4, Zenon DEF IInv
<1>2. ASSUME IInv, Remount PROVE IInv'
  <2>1. /\ entry' = NewEntry(entry.generation + 1, db.attempt, db.mountedAt)
        /\ entry.generation < MaxGen
    BY <1>2, Zenon DEF Remount, Restored
  <2>2. db.attempt \in Nat /\ db.mountedAt \in BOOLEAN
    BY <1>0, <1>2, Zenon DEF TypeOK, Records
  <2>3. entry' \in Entries
    <3>1. entry.generation + 1 \in 0 .. MaxGen
      BY <1>0, <1>2, <2>1, Counters, Zenon
    <3> QED BY <2>1, <2>2, <3>1, NewEntryType, Zenon
  <2>4. TypeOK'
    <3>1. ThreadsOK'
      BY <1>0, <1>2, ThreadsOKStep, ThreadFacts, Zenon DEF Remount, Thens
    <3> QED BY <1>0, <1>2, <2>3, <3>1, TableType, Zenon DEF Remount, TypeOK
  <2>5. ControlInv'
    <3>1. /\ entry'.generation = entry.generation + 1
          /\ entry'.exitDone = entry.generation + 1
          /\ entry'.attempt = db.attempt /\ ~entry'.unmounting
      BY <2>1, Zenon DEF NewEntry
    <3>2. /\ OthersStay(Op) /\ pc'[Op] = "clone" /\ then'[Op] = "start"
          /\ OperationFree /\ operation' = Op /\ rec' = rec
      BY <1>0, <1>2, MoveFacts, ThreadFacts, Zenon DEF Remount
    <3>3. UNCHANGED <<timerVars, closed, db>> /\ Exists'
      BY <1>2, Zenon DEF Remount, Exists
    <3>4. RecordsBounded'
      BY <1>0, <1>2, <3>2, <3>3, Zenon DEF RecordsBounded
    <3>5. entry'.attempt \in Nat /\ entry'.attempt <= MaxAttempts
      BY <1>0, <1>2, <2>2, <3>1, Zenon DEF RecordsBounded
    <3> QED BY <1>2, <2>1, <3>1, <3>2, <3>3, <3>4, <3>5, FreshAttempt, Zenon
  <2> QED BY <2>4, <2>5, Zenon DEF IInv
<1> QED BY <1>1, <1>2, Zenon

\* The call goes on to start the client process.
LEMMA StartSteps ==
  IInv /\ (CreateRecord \/ StartCommand \/ SpawnWaiters) => IInv'
<1>0. ASSUME IInv
      PROVE  /\ TypeOK /\ ThreadsOK /\ RecordsBounded /\ LockInv /\ ExistsInv
             /\ GenInv /\ ExitInv /\ AttemptInv /\ UnmountInv
             /\ Op \in Threads /\ (pc[Op] # "idle" => operation = Op /\ Exists)
  BY <1>0, ThreadFacts, Zenon
     DEF IInv, TypeOK, ControlInv, AttemptInv, RecordsBounded, LockInv, ExistsInv
<1>1. ASSUME IInv, SameAttempt, OthersStay(Op), Starting,
             pc[Op] # "idle", pc'[Op] # "idle", pc'[Op] # "tombstone",
             Starting' \/ Spawning', ~Stopping', ~Carries(Op)', RecordsBounded',
             entry'.unmounting = entry.unmounting,
             UNCHANGED <<operation, closed, timerVars, callVars>>
      PROVE  ControlInv'
  <2>1. /\ TypeOK /\ operation = Op /\ Exists /\ Exists'
        /\ entry.exitDone \in Gens /\ ~entry.unmounting
    BY <1>0, <1>1, OpGeneration, Zenon DEF Exists, UnmountInv
  <2>2. LockInv'
    BY <1>0, <1>1, ThreadFacts DEF LockInv, OthersStay
  <2>3. ExistsInv' BY <2>1, Zenon DEF ExistsInv
  <2>4. GenInv'
    BY <1>0, <1>1, <2>1, Zenon DEF GenInv, OthersStay, SameAttempt, Pending
  <2>5. ExitInv'
    <3>1. \A g \in Gens : pc'[Proc(g)] = pc[Proc(g)]
      BY <1>1, ThreadFacts, Zenon DEF OthersStay
    <3> QED BY <1>0, <1>1, <2>1, <3>1, Zenon DEF ExitInv, SameAttempt
  <2>6. AttemptInv'
    <3>1. \A t \in Threads : Carries(t)' => t # Op /\ Carries(t)
      BY <1>1, Zenon DEF OthersStay, Carries
    <3> QED BY <1>0, <1>1, <3>1, Zenon
            DEF AttemptInv, SameAttempt, RecordsBounded, Pending, GenerationOf
  <2>7. UnmountInv'
    BY <1>1, <2>1, Zenon DEF UnmountInv, UnmountPrevails
  <2> QED BY <2>2, <2>3, <2>4, <2>5, <2>6, <2>7, Zenon DEF ControlInv
<1>2. ASSUME IInv, CreateRecord PROVE IInv'
  <2>1. TypeOK'
    <3>1. ThreadsOK'
      BY <1>0, <1>2, ThreadsOKStep, Zenon DEF CreateRecord, PCs, OpPCs
    <3>2. db' \in Records
      BY <1>0, <1>2, Zenon DEF CreateRecord, TypeOK, Records, Entries
    <3> QED BY <1>0, <1>2, <3>1, <3>2, Zenon DEF CreateRecord, TypeOK
  <2>2. /\ OthersStay(Op) /\ pc[Op] = "create" /\ pc'[Op] = "start"
        /\ rec' = rec
        /\ UNCHANGED <<entry, operation, closed, timerVars, callVars>>
    BY <1>0, <1>2, MoveFacts, Zenon DEF CreateRecord
  <2>3. Starting /\ Starting' /\ ~Stopping' /\ ~Carries(Op)'
    BY <2>2, Zenon DEF Starting, Stopping, OpAt, Carries
  <2>4. RecordsBounded' /\ SameAttempt
    BY <1>0, <1>2, <2>2, Zenon DEF CreateRecord, RecordsBounded, AttemptInv, SameAttempt
  <2>5. ControlInv'
    BY <1>1, <1>2, <2>2, <2>3, <2>4, Zenon
  <2> QED BY <2>1, <2>5, Zenon DEF IInv
<1>3. ASSUME IInv, StartCommand PROVE IInv'
  <2>1. TypeOK'
    <3>1. entry' \in Entries
      BY <1>0, <1>3, Zenon DEF StartCommand, TypeOK, Entries, States
    <3>2. child' \in [Gens -> ChildStates]
      BY <1>0, <1>3, Zenon DEF StartCommand, TypeOK, ChildStates
    <3>3. ThreadsOK'
      BY <1>0, <1>3, ThreadsOKStep, Zenon DEF StartCommand, Thens
    <3> QED BY <1>0, <1>3, <3>1, <3>2, <3>3, Zenon DEF StartCommand, MadeData, TypeOK
  <2>2. /\ OthersStay(Op) /\ pc[Op] = "start" /\ pc'[Op] = "clone"
        /\ then'[Op] = "spawn" /\ rec' = rec /\ db' = db
        /\ UNCHANGED <<operation, closed, timerVars, callVars>>
    BY <1>0, <1>3, MoveFacts, Zenon DEF StartCommand
  <2>3. Starting /\ Spawning' /\ ~Stopping' /\ ~Carries(Op)'
    BY <2>2, Zenon DEF Starting, Spawning, Stopping, OpAt, Carries
  <2>4. SameAttempt /\ entry'.unmounting = entry.unmounting
    BY <1>0, <1>3, Zenon DEF StartCommand, SameAttempt, TypeOK, Entries
  <2>5. RecordsBounded'
    BY <1>0, <1>3, <2>2, Zenon DEF RecordsBounded
  <2>6. ControlInv'
    BY <1>1, <1>3, <2>2, <2>3, <2>4, <2>5, Zenon
  <2> QED BY <2>1, <2>6, Zenon DEF IInv
<1>4. ASSUME IInv, SpawnWaiters PROVE IInv'
  <2> DEFINE gen == entry.generation
  <2>0. /\ pc[Op] = "spawn" /\ operation' = NoThread
        /\ UNCHANGED <<then, rec, entry, callVars, otherVars>>
        /\ gen \in Gens /\ entry.exitDone \in Gens /\ Exists
    BY <1>4, OpGeneration, Zenon DEF SpawnWaiters
  <2>1. /\ pc' \in [Threads -> OpPCs \cup ProcPCs \cup WatchPCs]
        /\ \A t \in Threads : t \notin {Op, Proc(gen), Watch(gen)} => pc'[t] = pc[t]
        /\ pc'[Op] = "idle" /\ pc'[Proc(gen)] = "run" /\ pc'[Watch(gen)] = "poll"
    <3>1. {"idle", "run", "poll"} \subseteq OpPCs \cup ProcPCs \cup WatchPCs
      BY Zenon DEF OpPCs, ProcPCs, WatchPCs, PersistPCs
    <3>2. pc \in [Threads -> OpPCs \cup ProcPCs \cup WatchPCs]
      BY <1>0, <1>4, Zenon DEF ThreadsOK
    <3> QED BY <1>4, <2>0, <3>1, <3>2, ThreadFacts DEF SpawnWaiters
  <2>2. TypeOK'
    <3>1. /\ "idle" \in PCs(Op) /\ \A g \in Gens : "run" \in PCs(Proc(g))
          /\ \A g \in Gens : "poll" \in PCs(Watch(g))
      BY ThreadFacts, Zenon DEF PCs, OpPCs, ProcPCs, WatchPCs, PersistPCs
    <3>2. \A t \in Threads : pc'[t] \in PCs(t)
      BY <1>0, <1>4, <2>0, <2>1, <3>1, Zenon DEF ThreadsOK
    <3>3. ThreadsOK'
      BY <1>0, <1>4, <2>0, <2>1, <3>2, Zenon DEF ThreadsOK
    <3> QED BY <1>0, <1>4, <2>0, <3>3, Zenon DEF TypeOK
  <2> HIDE DEF gen
  <2>3. /\ entry.exitDone = gen /\ gen \notin closed /\ ~entry.unmounting
        /\ gen = entry.generation /\ gen \in Nat
    BY <1>0, <1>4, <2>0, Counters, Zenon DEF gen, ExitInv, UnmountInv, Spawning, OpAt
  <2>4. LockInv'
    BY <1>0, <1>4, <2>0, <2>1, ThreadFacts DEF LockInv
  <2>5. ExistsInv' BY <2>0, Zenon DEF ExistsInv, Exists
  <2>6. GenInv'
    <3>1. \A t \in Threads : pc'[t] # "idle" => t.gen <= gen
      BY <1>0, <1>4, <2>0, <2>1, <2>3, ThreadFacts DEF GenInv
    <3> QED BY <1>0, <1>4, <2>0, <2>3, <3>1, Zenon DEF GenInv, Exists, Pending
  <2>7. ExitInv'
    <3>1. ~Starting' /\ ~Spawning'
      BY <2>1, Zenon DEF Starting, Spawning, OpAt
    <3>2. \A g \in Gens : g # gen => pc'[Proc(g)] = pc[Proc(g)]
      BY <2>0, <2>1, ThreadFacts, Zenon
    <3> QED BY <1>0, <1>4, <2>0, <2>1, <2>3, <3>1, <3>2, Zenon DEF ExitInv
  <2>8. AttemptInv'
    <3>1. \A t \in Threads : Carries(t)' => Carries(t)
      BY <2>0, <2>1, ThreadFacts, Zenon DEF Carries
    <3> QED BY <1>0, <1>4, <2>0, <3>1, Zenon DEF AttemptInv, Pending, GenerationOf
  <2>9. UnmountInv'
    BY <2>0, <2>1, <2>3, Zenon DEF UnmountInv, UnmountPrevails
  <2> QED BY <2>2, <2>4, <2>5, <2>6, <2>7, <2>8, <2>9, Zenon DEF IInv, ControlInv
<1> QED BY <1>2, <1>3, <1>4, Zenon

\* The call gives up before there is a process.
LEMMA GiveUpSteps ==
  IInv /\ (CreateFails \/ StartFails \/ StartTooLate) => IInv'
<1>0. ASSUME IInv, pc[Op] \in {"create", "start"}
      PROVE  /\ TypeOK /\ ThreadsOK /\ Op \in Threads /\ ~entry.unmounting
             /\ entry.exitDone \in Gens /\ reg \in {"managed", "removed"}
  BY <1>0, ThreadFacts, OpGeneration, Zenon
     DEF IInv, TypeOK, ControlInv, UnmountInv, Starting, OpAt, Exists
<1>1. ASSUME IInv, CreateFails PROVE IInv'
  <2>0. pc[Op] = "create" /\ Finish(Op) /\ closed' = closed \cup {entry.exitDone}
        /\ UNCHANGED <<callVars, timerVars, db, systemVars, daemonVars>>
    BY <1>1, Zenon DEF CreateFails, CloseExitDone
  <2>1. entry' \in Entries /\ SameAttempt /\ entry'.unmounting = entry.unmounting
    BY <1>0, <1>1, <2>0, Zenon DEF CreateFails, SameAttempt, TypeOK, Entries, States
  <2>2. TypeOK'
    <3>1. ThreadsOK' BY <1>0, <1>1, <2>0, ThreadsOKStep, Zenon
    <3> QED BY <1>0, <1>1, <2>0, <2>1, <3>1, Zenon DEF TypeOK
  <2>3. ControlInv'
    BY <1>0, <1>1, <2>0, <2>1, OpEnds, Zenon
  <2> QED BY <2>2, <2>3, Zenon DEF IInv
<1>2. ASSUME IInv, pc[Op] = "start", NEW e \in Entries,
             RecordMountFailure(Op, entry.generation, FALSE, e), CloseExitDone,
             e.generation = entry.generation, e.exitDone = entry.exitDone,
             e.attempt = entry.attempt, e.unmounting = entry.unmounting,
             data' \in {"none", "dir", "unsynced"},
             UNCHANGED <<callVars, timerVars, db, child, killed, table, daemonVars>>
      PROVE  IInv'
  <2>1. /\ \/ Finish(Op)
           \/ Persist(Op, "idle")
           \/ Persist(Op, "arm") /\ entry.attempt < MaxAttempts
        /\ \/ entry' = e
           \/ entry' = [e EXCEPT !.state = "RETRY_WAIT"]
           \/ entry' = [e EXCEPT !.state = "FAILED"]
    BY <1>2, Zenon DEF RecordMountFailure, RetryAllowed
  <2>2. entry' \in Entries
    BY <1>2, <2>1, Zenon DEF Entries, States
  <2>3. SameAttempt /\ entry'.unmounting = entry.unmounting
    BY <1>2, <2>1, Zenon DEF SameAttempt, Entries
  <2>4. TypeOK'
    <3>1. ThreadsOK'
      BY <1>0, <1>2, <2>1, ThreadsOKStep, Zenon DEF Thens
    <3> QED BY <1>0, <1>2, <2>2, <3>1, Zenon DEF TypeOK, CloseExitDone
  <2>5. ControlInv'
    BY <1>0, <1>2, <2>1, <2>3, OpEnds, Zenon DEF CloseExitDone
  <2> QED BY <2>4, <2>5, Zenon DEF IInv
<1>3. ASSUME IInv, StartFails PROVE IInv'
  <2>1. data' \in {"none", "dir", "unsynced"} /\ entry \in Entries
    BY <1>0, <1>3, Zenon DEF StartFails, MadeData, TypeOK
  <2> QED BY <1>2, <1>3, <2>1, Zenon DEF StartFails
<1>4. ASSUME IInv, StartTooLate PROVE IInv'
  <2> DEFINE late == [entry EXCEPT !.timedOut = TRUE]
  <2>0. /\ pc[Op] = "start" /\ CloseExitDone
        /\ RecordMountFailure(Op, entry.generation, FALSE, late)
        /\ UNCHANGED <<callVars, timerVars, db, child, killed, table, daemonVars>>
    BY <1>4, Zenon DEF StartTooLate
  <2>1. /\ late \in Entries /\ late.generation = entry.generation
        /\ late.exitDone = entry.exitDone /\ late.attempt = entry.attempt
        /\ late.unmounting = entry.unmounting
    BY <1>0, <1>4, <2>0, Zenon DEF TypeOK, Entries
  <2>2. data' \in {"none", "dir", "unsynced"}
    BY <1>0, <1>4, Zenon DEF StartTooLate, MadeData, TypeOK
  <2> HIDE DEF late
  <2> QED BY <1>2, <1>4, <2>0, <2>1, <2>2, Zenon
<1> QED BY <1>1, <1>3, <1>4, Zenon

\* A pending timer belongs to a generation the entry has reached.
LEMMA TimerType ==
  ASSUME IInv, NEW t \in Threads, pc[t] # "idle"
  PROVE  TimerOf(t) \in Timers /\ TimerOf(t).gen = GenerationOf(t)
<1>1. GenerationOf(t) \in Gens
  BY ThreadFacts, OpGeneration DEF GenerationOf
<1>2. TimerKind(t) \in TimerKinds
  BY ThreadFacts DEF TimerKind, TimerKinds
<1> QED BY <1>1, <1>2, Zenon DEF TimerOf, Timer, Timers

\* persistRecord and the timer that follows a recorded failure.
LEMMA PersistSteps ==
  ASSUME IInv, NEW t \in Threads, PersistStep(t) PROVE IInv'
<1>0. TypeOK /\ ThreadsOK /\ AttemptInv /\ RecordsBounded
  BY Zenon DEF IInv, TypeOK, ControlInv, AttemptInv, RecordsBounded
<1>1. ASSUME CloneRecord(t) PROVE IInv'
  <2>0. /\ pc[t] = "clone" /\ UNCHANGED <<operation, then, entry, callVars, otherVars>>
        /\ pc' = [pc EXCEPT ![t] = "write"]
        /\ rec' = [rec EXCEPT ![t] = CurrentRecord]
    BY <1>1, Zenon DEF CloneRecord
  <2>1. CurrentRecord \in Records /\ CurrentRecord.attempt = entry.attempt
    BY <1>0, Zenon DEF CurrentRecord, Records, TypeOK, Entries
  <2>2. TypeOK'
    <3>1. "write" \in PCs(t) /\ PCs(t) \subseteq OpPCs \cup ProcPCs \cup WatchPCs
      BY Zenon DEF PCs, OpPCs, ProcPCs, WatchPCs, PersistPCs
    <3>2. ThreadsOK'
      BY <1>0, <2>0, <2>1, <3>1, Zenon DEF ThreadsOK
    <3> QED BY <1>0, <2>0, <3>2, Zenon DEF TypeOK
  <2>3. OthersStay(t) /\ pc'[t] = "write" /\ then'[t] = then[t]
    BY <1>0, <2>0, Zenon DEF ThreadsOK, OthersStay
  <2>4. RecordsBounded' /\ SameAttempt
    BY <1>0, <2>0, <2>1, Zenon DEF ThreadsOK, RecordsBounded, AttemptInv, SameAttempt
  <2>5. t = Op => /\ Starting' <=> Starting
                  /\ Spawning' <=> Spawning
                  /\ Stopping' <=> Stopping
    BY <2>0, <2>3, Zenon DEF Starting, Spawning, Stopping, OpAt
  <2>6. (Carries(t)' => Carries(t)) /\ Pending' = Pending
    BY <2>0, <2>3, Zenon DEF Carries, Pending
  <2>7. ControlInv'
    BY <2>0, <2>3, <2>4, <2>5, <2>6, PersistMove, Zenon
  <2> QED BY <2>2, <2>7, Zenon DEF IInv
<1>2. ASSUME WriteRecord(t) PROVE IInv'
  <2>0. /\ pc[t] = "write" /\ UNCHANGED <<entry, callVars, timerVars, closed,
                                          systemVars, daemonVars>>
        /\ pc' = [pc EXCEPT ![t] = then[t]]
        /\ then' = [then EXCEPT ![t] = "idle"]
        /\ rec' = [rec EXCEPT ![t] = NoRecord]
        /\ operation' = IF operation = t /\ then[t] = "idle" THEN NoThread
                        ELSE operation
        /\ db' \in {db, rec[t]}
    BY <1>2, Zenon DEF WriteRecord, Holds
  <2>1. /\ NoRecord \in Records /\ NoRecord.attempt = 0
        /\ then[t] \in Thens(t) /\ rec[t] \in Records
    BY <1>0, Zenon DEF NoRecord, Records, ThreadsOK
  <2>2. TypeOK'
    <3>1. /\ Thens(t) \subseteq PCs(t) /\ "idle" \in Thens(t)
          /\ PCs(t) \subseteq OpPCs \cup ProcPCs \cup WatchPCs
          /\ Thens(t) \subseteq OpPCs
      BY Zenon DEF Thens, PCs, OpPCs, ProcPCs, WatchPCs, PersistPCs
    <3>2. ThreadsOK'
      BY <1>0, <2>0, <2>1, <3>1, Zenon DEF ThreadsOK
    <3>3. db' \in Records
      BY <1>0, <2>0, <2>1, Zenon DEF TypeOK
    <3> QED BY <1>0, <2>0, <3>2, <3>3, Zenon DEF TypeOK
  <2>3. OthersStay(t) /\ pc'[t] = then[t] /\ then'[t] = "idle"
    BY <1>0, <2>0, Zenon DEF ThreadsOK, OthersStay
  <2>4. RecordsBounded' /\ SameAttempt
    BY <1>0, <2>0, <2>1, AttemptsAssumption
       DEF ThreadsOK, RecordsBounded, SameAttempt
  <2>5. then[t] \in {"idle", "arm", "start", "spawn", "probe", "stopped"}
    BY <2>1, Zenon DEF Thens
  <2>6. t = Op => /\ Starting' <=> Starting
                  /\ Spawning' <=> Spawning
                  /\ Stopping' <=> Stopping
    BY <2>0, <2>3, <2>5, Zenon DEF Starting, Spawning, Stopping, OpAt
  <2>7. (Carries(t)' => Carries(t)) /\ Pending' = Pending
    BY <2>0, <2>3, <2>5, Zenon DEF Carries, Pending
  <2>8. \/ pc'[t] # "idle" /\ operation' = operation
        \/ pc'[t] = "idle" /\ operation' = IF operation = t THEN NoThread
                                           ELSE operation
    BY <2>0, <2>3, Zenon
  <2>9. ControlInv'
    BY <2>0, <2>3, <2>4, <2>5, <2>6, <2>7, <2>8, PersistMove, Zenon
  <2> QED BY <2>2, <2>9, Zenon DEF IInv
<1>3. ASSUME ArmTimer(t) PROVE IInv'
  <2>0. /\ pc[t] = "arm" /\ armed' = armed \cup {TimerOf(t)} /\ Goto(t, "store")
        /\ UNCHANGED <<entry, callVars, fired, closed, db, systemVars, daemonVars>>
    BY <1>3, Zenon DEF ArmTimer
  <2>1. TimerOf(t) \in Timers /\ TimerOf(t).gen = GenerationOf(t)
    BY <2>0, TimerType, Zenon
  <2>2. TypeOK'
    <3>1. ThreadsOK'
      BY <1>0, <2>0, ThreadsOKStep, Zenon DEF PCs, OpPCs, ProcPCs, WatchPCs, PersistPCs
    <3> QED BY <1>0, <2>0, <2>1, <3>1, Zenon DEF TypeOK
  <2>3. OthersStay(t) /\ pc'[t] = "store" /\ operation' = operation /\ rec' = rec
    BY <1>0, <2>0, MoveFacts, Zenon
  <2>4. RecordsBounded' /\ SameAttempt
    BY <1>0, <2>0, <2>3, Zenon DEF RecordsBounded, SameAttempt
  <2>5. t = Op => /\ Starting' <=> Starting
                  /\ Spawning' <=> Spawning
                  /\ Stopping' <=> Stopping
    BY <2>0, <2>3, Zenon DEF Starting, Spawning, Stopping, OpAt
  <2>6. Carries(t) /\ \A tm \in Pending' : tm \in Pending \/ tm.gen = GenerationOf(t)
    BY <2>0, <2>1, Zenon DEF Carries, Pending
  <2>7. ControlInv'
    BY <2>0, <2>3, <2>4, <2>5, <2>6, PersistMove, Zenon
  <2> QED BY <2>2, <2>7, Zenon DEF IInv
<1>4. ASSUME StoreTimer(t) PROVE IInv'
  <2>0. /\ pc[t] = "store" /\ entry' = [entry EXCEPT !.retryTimer = TimerOf(t)]
        /\ Finish(t) /\ UNCHANGED <<callVars, otherVars>>
    BY <1>4, Zenon DEF StoreTimer
  <2>1. TimerOf(t) \in Timers
    BY <2>0, TimerType, Zenon
  <2>2. /\ entry' \in Entries /\ SameAttempt
        /\ entry'.unmounting = entry.unmounting /\ entry'.state = entry.state
    BY <1>0, <2>0, <2>1, Zenon DEF TypeOK, Entries, SameAttempt
  <2>3. TypeOK'
    <3>1. ThreadsOK'
      BY <1>0, <2>0, ThreadsOKStep, Zenon
    <3> QED BY <1>0, <2>0, <2>2, <3>1, Zenon DEF TypeOK
  <2>4. /\ OthersStay(t) /\ pc'[t] = "idle" /\ rec' = rec
        /\ operation' = IF operation = t THEN NoThread ELSE operation
    BY <1>0, <2>0, MoveFacts, Zenon
  <2>5. RecordsBounded'
    BY <1>0, <2>0, <2>4, Zenon DEF RecordsBounded
  <2>6. t = Op => /\ Starting' <=> Starting
                  /\ Spawning' <=> Spawning
                  /\ Stopping' <=> Stopping
    BY <2>0, <2>4, Zenon DEF Starting, Spawning, Stopping, OpAt
  <2>7. ~Carries(t)' /\ Pending' = Pending
    BY <2>0, <2>4, Zenon DEF Carries, Pending
  <2>8. ControlInv'
    BY <2>0, <2>2, <2>4, <2>5, <2>6, <2>7, PersistMove, Zenon
  <2> QED BY <2>3, <2>8, Zenon DEF IInv
<1> QED BY <1>1, <1>2, <1>3, <1>4, Zenon DEF PersistStep

\* Retry timers: they fire, find the entry changed, or start the next attempt.
LEMMA TimerSteps ==
  ASSUME IInv, NEW g \in Gens, TimerStep(g) PROVE IInv'
<1>0. TypeOK /\ ThreadsOK /\ AttemptInv /\ RecordsBounded /\ ExistsInv
  BY Zenon DEF IInv, TypeOK, ControlInv, AttemptInv, RecordsBounded
<1>1. PICK tm \in Timers : \/ TimerFires(tm) \/ RetryIgnored(tm)
                           \/ RetryMount(tm) \/ RetryUnmount(tm)
  <2>1. PICK by \in TimerKinds :
          \/ TimerFires(Timer(by, g)) \/ RetryIgnored(Timer(by, g))
          \/ RetryMount(Timer(by, g)) \/ RetryUnmount(Timer(by, g))
    BY Zenon DEF TimerStep
  <2>2. Timer(by, g) \in Timers
    BY Zenon DEF Timer, Timers
  <2> QED BY <2>1, <2>2, Zenon
<1>2. ASSUME TimerFires(tm) \/ RetryIgnored(tm) PROVE IInv'
  <2>1. /\ UNCHANGED <<entry, callVars, threadVars, closed, db, systemVars, daemonVars>>
        /\ armed' \cup fired' \subseteq armed \cup fired
        /\ armed' \subseteq Timers /\ fired' \subseteq Timers
    BY <1>0, <1>2, Zenon DEF TimerFires, RetryIgnored, TypeOK
  <2>2. TypeOK'
    BY <1>0, <2>1, Zenon DEF TypeOK, ThreadsOK, threadVars
  <2>3. SameAttempt /\ RecordsBounded' /\ (Exists' <=> Exists)
    BY <1>0, <2>1, Zenon DEF SameAttempt, RecordsBounded, Exists, threadVars
  <2>4. stop' = "locking" => Exists
    BY <1>0, <2>1, Zenon DEF ExistsInv
  <2>5. ControlInv'
    BY <2>1, <2>3, <2>4, QuietStep, Zenon DEF threadVars
  <2> QED BY <2>2, <2>5, Zenon DEF IInv
<1>3. ASSUME tm \in fired, tm.gen = entry.generation
      PROVE  Exists /\ entry.attempt < MaxAttempts
  BY <1>0, <1>3, Zenon DEF ExistsInv, AttemptInv, Pending
<1>4. ASSUME RetryMount(tm) PROVE IInv'
  <2>0. /\ entry' = NextAttempt /\ LockAndPersist(Op, "start") /\ ~entry.unmounting
        /\ tm \in fired /\ tm.gen = entry.generation /\ entry.generation < MaxGen
        /\ fired' = fired \ {tm} /\ req' = NoCall
        /\ UNCHANGED <<client, reg, armed, closed, db, systemVars, daemonVars>>
    BY <1>4, Zenon DEF RetryMount, Superseded
  <2>1. /\ entry.generation + 1 \in 0 .. MaxGen /\ 0 \in 0 .. MaxGen
        /\ entry.attempt + 1 \in Nat /\ entry.attempt \in Nat
        /\ entry.attempt + 1 <= MaxAttempts
    BY <1>0, <1>3, <2>0, Counters, AttemptsAssumption, BoundsAssumption
  <2>2. entry' \in Entries
    BY <1>0, <2>0, <2>1, Zenon
       DEF NextAttempt, NextAttemptOldChannel, TypeOK, Entries, States
  <2>3. /\ entry'.generation = entry.generation + 1
        /\ entry'.exitDone = entry.generation + 1
        /\ entry'.attempt = entry.attempt + 1
        /\ entry'.unmounting = entry.unmounting
    BY <1>0, <2>0, Zenon DEF NextAttempt, NextAttemptOldChannel, TypeOK, Entries
  <2>4. TypeOK'
    <3>1. ThreadsOK'
      BY <1>0, <2>0, ThreadsOKStep, ThreadFacts, Zenon DEF Thens
    <3> QED BY <1>0, <2>0, <2>2, <3>1, Zenon DEF TypeOK, NoCall, States
  <2>5. /\ OthersStay(Op) /\ pc'[Op] = "clone" /\ then'[Op] = "start"
        /\ OperationFree /\ operation' = Op /\ rec' = rec
    BY <1>0, <2>0, MoveFacts, ThreadFacts, Zenon
  <2>6. RecordsBounded' /\ Exists'
    BY <1>0, <1>3, <2>0, <2>5, Zenon DEF RecordsBounded, Exists
  <2>7. ControlInv'
    BY <2>0, <2>1, <2>3, <2>5, <2>6, FreshAttempt, Zenon
  <2> QED BY <2>4, <2>7, Zenon DEF IInv
<1>5. ASSUME RetryUnmount(tm) PROVE IInv'
  <2>0. /\ entry' = [entry EXCEPT !.retryTimer = NoTimer, !.generation = @ + 1,
                                  !.attempt = @ + 1, !.state = "UNMOUNTING"]
        /\ LockAndPersist(Op, "probe")
        /\ tm \in fired /\ tm.gen = entry.generation /\ entry.generation < MaxGen
        /\ fired' = fired \ {tm} /\ req' = NoCall
        /\ UNCHANGED <<client, reg, armed, closed, db, systemVars, daemonVars>>
    BY <1>5, Zenon DEF RetryUnmount
  <2>1. /\ entry.generation + 1 \in 0 .. MaxGen
        /\ entry.attempt + 1 \in Nat /\ entry.attempt + 1 <= MaxAttempts /\ Exists
    BY <1>0, <1>3, <2>0, Counters, AttemptsAssumption
  <2>2. entry' \in Entries
    BY <1>0, <2>0, <2>1, Zenon DEF TypeOK, Entries, States
  <2>3. /\ entry'.generation = entry.generation + 1
        /\ entry'.exitDone = entry.exitDone
        /\ entry'.attempt = entry.attempt + 1 /\ entry'.state = "UNMOUNTING"
    BY <1>0, <2>0, Zenon DEF TypeOK, Entries
  <2>4. TypeOK'
    <3>1. ThreadsOK'
      BY <1>0, <2>0, ThreadsOKStep, ThreadFacts, Zenon DEF Thens
    <3> QED BY <1>0, <2>0, <2>2, <3>1, Zenon DEF TypeOK, NoCall, States
  <2>5. /\ OthersStay(Op) /\ pc'[Op] = "clone" /\ then'[Op] = "probe"
        /\ OperationFree /\ operation' = Op /\ rec' = rec
    BY <1>0, <2>0, MoveFacts, ThreadFacts, Zenon
  <2>6. RecordsBounded'
    BY <1>0, <2>0, <2>5, Zenon DEF RecordsBounded
  <2>7. ControlInv'
    BY <2>0, <2>1, <2>3, <2>5, <2>6, UnmountAttempt, Zenon
  <2> QED BY <2>4, <2>7, Zenon DEF IInv
<1> QED BY <1>1, <1>2, <1>4, <1>5, Zenon

\* Only processes of attempts are killed.
LEMMA KillType ==
  ASSUME TypeOK, KillCommand PROVE killed' \subseteq Gens
<1>1. entry.command # 0 => entry.command \in Gens
  BY BoundsAssumption DEF TypeOK, Entries, Gens
<1> QED BY <1>1, Zenon DEF KillCommand, TypeOK

\* Unmount up to the outcome of the tombstone write.
LEMMA TombstoneSteps ==
  IInv /\ (Unmount \/ WriteTombstone \/ TombstoneFails) => IInv'
<1>0. ASSUME IInv
      PROVE  /\ TypeOK /\ ThreadsOK /\ AttemptInv /\ RecordsBounded /\ UnmountInv
             /\ Op \in Threads /\ NoRecord \in Records /\ NoRecord.attempt = 0
             /\ (pc[Op] # "idle" => operation = Op /\ reg \in {"managed", "removed"})
  BY <1>0, ThreadFacts, Zenon
     DEF IInv, TypeOK, ControlInv, AttemptInv, RecordsBounded, NoRecord, Records,
         LockInv, ExistsInv, Exists
<1>1. ASSUME IInv, Unmount PROVE IInv'
  <2>0. /\ reg = "managed" /\ OperationFree /\ operation' = Op
        /\ pc' = [pc EXCEPT ![Op] = "tombstone"] /\ then' = then
        /\ armed' \subseteq armed /\ fired' = fired
        /\ req' = [api |-> TRUE, wasUnmounting |-> entry.unmounting,
                   previousState |-> entry.state]
        /\ rec' = [rec EXCEPT ![Op] = [attempt |-> entry'.attempt,
                         mountedAt |-> entry.mountedAt, tomb |-> TRUE]]
        /\ UNCHANGED <<client, reg, closed, db, systemVars, daemonVars>>
    BY <1>1, Zenon DEF Unmount
  <2>1. /\ entry.generation + 1 \in 0 .. MaxGen /\ entry.generation < MaxGen
        /\ entry.attempt \in Nat /\ 1 \in Nat /\ 1 <= MaxAttempts
    BY <1>0, <1>1, Counters, AttemptsAssumption DEF Unmount
  <2>2. entry' \in Entries
    BY <1>0, <1>1, <2>1, Zenon DEF Unmount, TypeOK, Entries, States
  <2>3. /\ entry'.generation = entry.generation + 1
        /\ entry'.exitDone = entry.exitDone /\ entry'.state = "UNMOUNTING"
        /\ entry'.attempt \in {entry.attempt, 1}
    BY <1>0, <1>1, Zenon DEF Unmount, TypeOK, Entries
  <2>4. entry'.attempt \in Nat /\ entry'.attempt <= MaxAttempts
    BY <1>0, <1>1, <2>1, <2>3, SMTT(20) DEF AttemptInv
  <2>5. TypeOK'
    <3>1. entry.mountedAt \in BOOLEAN /\ entry.unmounting \in BOOLEAN
          /\ entry.state \in States
      BY <1>0, <1>1, Zenon DEF TypeOK, Entries
    <3>2. rec' \in [Threads -> Records]
      BY <1>0, <1>1, <2>0, <2>4, <3>1, Zenon DEF ThreadsOK, Records
    <3>3. ThreadsOK'
      BY <1>0, <1>1, <2>0, <3>2, Zenon DEF ThreadsOK, PCs, OpPCs
    <3> QED BY <1>0, <1>1, <2>0, <2>2, <3>1, <3>3, Zenon DEF TypeOK
  <2>6. OthersStay(Op) /\ pc'[Op] = "tombstone"
    BY <1>0, <1>1, <2>0, Zenon DEF ThreadsOK, OthersStay
  <2>7. RecordsBounded'
    BY <1>0, <1>1, <2>0, <2>4, Zenon DEF ThreadsOK, RecordsBounded
  <2>8. ControlInv'
    BY <1>1, <2>0, <2>1, <2>3, <2>4, <2>6, <2>7, UnmountAttempt, Zenon DEF Exists
  <2> QED BY <2>5, <2>8, Zenon DEF IInv
<1>2. ASSUME IInv, WriteTombstone PROVE IInv'
  <2>0. /\ pc[Op] = "tombstone" /\ db' = rec[Op]
        /\ rec' = [rec EXCEPT ![Op] = NoRecord] /\ pc' = [pc EXCEPT ![Op] = "probe"]
        /\ UNCHANGED <<operation, then, entry, callVars, timerVars, closed,
                       systemVars, daemonVars>>
    BY <1>2, Zenon DEF WriteTombstone
  <2>1. TypeOK'
    <3>1. ThreadsOK' /\ db' \in Records
      BY <1>0, <1>2, <2>0, Zenon DEF ThreadsOK, PCs, OpPCs
    <3> QED BY <1>0, <1>2, <2>0, <3>1, Zenon DEF TypeOK
  <2>2. OthersStay(Op) /\ pc'[Op] = "probe"
    BY <1>0, <1>2, <2>0, Zenon DEF ThreadsOK, OthersStay
  <2>3. RecordsBounded' /\ SameAttempt /\ UnmountPrevails'
    BY <1>0, <1>2, <2>0, AttemptsAssumption
       DEF ThreadsOK, RecordsBounded, SameAttempt, UnmountInv, UnmountPrevails
  <2>4. /\ ~Starting /\ ~Spawning /\ ~Starting' /\ ~Spawning' /\ ~Stopping'
        /\ ~Carries(Op)'
    BY <2>0, <2>2, Zenon DEF Starting, Spawning, Stopping, OpAt, Carries
  <2>5. ControlInv'
    BY <1>0, <1>2, <2>0, <2>2, <2>3, <2>4, OpMove, Zenon
  <2> QED BY <2>1, <2>5, Zenon DEF IInv
<1>3. ASSUME IInv, TombstoneFails PROVE IInv'
  <2>0. /\ pc[Op] = "tombstone"
        /\ entry' = [entry EXCEPT !.unmounting = req.wasUnmounting,
                                  !.state = req.previousState]
        /\ rec' = [rec EXCEPT ![Op] = NoRecord] /\ pc' = [pc EXCEPT ![Op] = "idle"]
        /\ operation' = NoThread /\ req' = NoCall
        /\ UNCHANGED <<client, reg, then, otherVars>>
    BY <1>3, Zenon DEF TombstoneFails
  <2>1. /\ entry' \in Entries /\ SameAttempt
        /\ entry'.unmounting = req.wasUnmounting /\ entry'.state = req.previousState
    BY <1>0, <1>3, <2>0, Zenon DEF TypeOK, Entries, SameAttempt
  <2>2. TypeOK'
    <3>1. ThreadsOK'
      BY <1>0, <1>3, <2>0, Zenon DEF ThreadsOK, PCs, OpPCs, PersistPCs
    <3> QED BY <1>0, <1>3, <2>0, <2>1, <3>1, Zenon DEF TypeOK, NoCall, States
  <2>3. OthersStay(Op) /\ pc'[Op] = "idle"
    BY <1>0, <1>3, <2>0, Zenon DEF ThreadsOK, OthersStay
  <2>4. RecordsBounded'
    BY <1>0, <1>3, <2>0, AttemptsAssumption DEF ThreadsOK, RecordsBounded
  <2>5. UnmountPrevails'
    BY <1>0, <1>3, <2>0, <2>1, Zenon DEF UnmountInv, UnmountPrevails
  <2>6. /\ ~Starting /\ ~Spawning /\ ~Starting' /\ ~Spawning' /\ ~Stopping'
        /\ ~Carries(Op)'
    BY <2>0, <2>3, Zenon DEF Starting, Spawning, Stopping, OpAt, Carries
  <2>7. ControlInv'
    BY <1>0, <1>3, <2>0, <2>1, <2>3, <2>4, <2>5, <2>6, OpMove, Zenon
  <2> QED BY <2>2, <2>7, Zenon DEF IInv
<1> QED BY <1>1, <1>2, <1>3, Zenon

\* performUnmountAttempt, and the steps shutdownEntry shares with it.
LEMMA UnmountSteps ==
  IInv /\ (\/ UnmountPath \/ UnmountFails \/ ProcessExited \/ KillProcess
           \/ RemoveData \/ DeleteRecord \/ Unregister \/ StopPath) => IInv'
<1>0. ASSUME IInv
      PROVE  /\ TypeOK /\ ThreadsOK /\ Op \in Threads /\ NoRecord \in Records
             /\ (pc[Op] # "idle" => reg \in {"managed", "removed"})
  BY <1>0, ThreadFacts, Zenon
     DEF IInv, TypeOK, ControlInv, ExistsInv, Exists, NoRecord, Records
<1>1. ASSUME IInv, NEW p \in OpPCs, Goto(Op, p),
             pc[Op] \in {"probe", "wait", "killwait", "remove", "delete",
                         "stopprobe", "stopwait"},
             p \in {"wait", "killwait", "remove", "delete", "unregister",
                    "stopwait", "stopkill"},
             p \in {"stopwait", "stopkill"} => pc[Op] \in {"stopprobe", "stopwait"},
             killed' \subseteq Gens, table' \in Seq(Gens),
             data' \in {"none", "dir", "unsynced"}, db' \in {db, NoRecord},
             UNCHANGED <<entry, callVars, timerVars, closed, child, daemonVars>>
      PROVE  IInv'
  <2>1. ThreadsOK'
    BY <1>0, <1>1, ThreadsOKStep, Zenon DEF PCs
  <2>2. TypeOK'
    BY <1>0, <1>1, <2>1, Zenon DEF TypeOK
  <2>3. ControlInv'
    BY <1>1, OpGoesOn, Zenon
  <2> QED BY <2>2, <2>3, Zenon DEF IInv
<1>2. {"wait", "killwait", "remove", "delete", "unregister", "stopwait",
       "stopkill"} \subseteq OpPCs
  BY Zenon DEF OpPCs
<1>3. ASSUME IInv, UnmountPath \/ StopPath PROVE IInv'
  <2>1. table' \in Seq(Gens) /\ data' \in {"none", "dir", "unsynced"}
    BY <1>0, <1>3, TableType, Zenon DEF UnmountPath, StopPath, TypeOK
  <2>2. killed' \subseteq Gens /\ db' = db
        /\ UNCHANGED <<entry, callVars, timerVars, closed, child, daemonVars>>
    BY <1>0, <1>3, Zenon DEF UnmountPath, StopPath, TypeOK
  <2>3. \/ pc[Op] = "probe" /\ Goto(Op, "wait")
        \/ pc[Op] = "stopprobe" /\ Goto(Op, "stopwait")
    BY <1>3, Zenon DEF UnmountPath, StopPath
  <2> QED BY <1>1, <1>2, <1>3, <2>1, <2>2, <2>3, Zenon
<1>4. ASSUME IInv, ProcessExited \/ RemoveData \/ DeleteRecord PROVE IInv'
  <2>1. /\ table' \in Seq(Gens) /\ data' \in {"none", "dir", "unsynced"}
        /\ killed' \subseteq Gens /\ db' \in {db, NoRecord}
        /\ UNCHANGED <<entry, callVars, timerVars, closed, child, daemonVars>>
    BY <1>0, <1>4, Zenon DEF ProcessExited, RemoveData, DeleteRecord, TypeOK
  <2>2. \/ pc[Op] \in {"wait", "killwait"} /\ Goto(Op, "remove")
        \/ pc[Op] = "remove" /\ Goto(Op, "delete")
        \/ pc[Op] = "delete" /\ Goto(Op, "unregister")
    BY <1>4, Zenon DEF ProcessExited, RemoveData, DeleteRecord
  <2> QED BY <1>1, <1>2, <1>4, <2>1, <2>2, Zenon
<1>5. ASSUME IInv, KillProcess PROVE IInv'
  <2>1. killed' \subseteq Gens
    BY <1>0, <1>5, KillType, Zenon DEF KillProcess
  <2>2. /\ table' \in Seq(Gens) /\ data' \in {"none", "dir", "unsynced"}
        /\ db' = db
        /\ UNCHANGED <<entry, callVars, timerVars, closed, child, daemonVars>>
    BY <1>0, <1>5, Zenon DEF KillProcess, TypeOK
  <2>3. \/ pc[Op] = "wait" /\ Goto(Op, "killwait")
        \/ pc[Op] = "stopwait" /\ Goto(Op, "stopkill")
    BY <1>5, Zenon DEF KillProcess
  <2> QED BY <1>1, <1>2, <1>5, <2>1, <2>2, <2>3, Zenon
<1>6. ASSUME IInv, UnmountFails PROVE IInv'
  <2>0. /\ pc[Op] \in {"probe", "wait", "killwait", "remove"}
        /\ \/ /\ entry' = [entry EXCEPT !.state = "RETRY_WAIT"]
              /\ Persist(Op, "arm") /\ entry.attempt < MaxAttempts
           \/ entry' = [entry EXCEPT !.state = "FAILED"] /\ Persist(Op, "idle")
        /\ UNCHANGED <<callVars, timerVars, closed, db, child, killed, daemonVars>>
    BY <1>6, Zenon DEF UnmountFails, RecordUnmountFailure
  <2>1. /\ entry' \in Entries /\ SameAttempt
        /\ entry'.unmounting = entry.unmounting
        /\ entry'.state \in {"RETRY_WAIT", "FAILED"}
    BY <1>0, <1>6, <2>0, Zenon DEF TypeOK, Entries, States, SameAttempt
  <2>2. TypeOK'
    <3>1. ThreadsOK'
      BY <1>0, <1>6, <2>0, ThreadsOKStep, Zenon DEF Thens
    <3>2. table' \in Seq(Gens) /\ data' \in {"none", "dir", "unsynced"}
      BY <1>0, <1>6, TableType, Zenon DEF UnmountFails, TypeOK
    <3> QED BY <1>0, <1>6, <2>0, <2>1, <3>1, <3>2, Zenon DEF TypeOK
  <2>3. ControlInv'
    BY <1>0, <1>6, <2>0, <2>1, OpEnds, Zenon
  <2> QED BY <2>2, <2>3, Zenon DEF IInv
<1>7. ASSUME IInv, Unregister PROVE IInv'
  <2>0. /\ pc[Op] = "unregister" /\ reg' = "removed" /\ Finish(Op)
        /\ UNCHANGED <<client, entry, req, otherVars>>
    BY <1>7, Zenon DEF Unregister
  <2>1. TypeOK'
    <3>1. ThreadsOK'
      BY <1>0, <1>7, <2>0, ThreadsOKStep, Zenon
    <3> QED BY <1>0, <1>7, <2>0, <3>1, Zenon DEF TypeOK
  <2>2. /\ SameAttempt /\ entry'.unmounting = entry.unmounting
        /\ entry.unmounting => entry'.state \in {"UNMOUNTING", "RETRY_WAIT", "FAILED"}
    BY <1>7, <2>0, Zenon
       DEF SameAttempt, IInv, ControlInv, UnmountInv, UnmountPrevails
  <2>3. ControlInv'
    BY <1>7, <2>0, <2>2, OpEnds, Zenon
  <2> QED BY <2>1, <2>3, Zenon DEF IInv
<1> QED BY <1>3, <1>4, <1>5, <1>6, <1>7, Zenon
====
