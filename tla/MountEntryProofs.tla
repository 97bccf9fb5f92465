--------------------------- MODULE MountEntryProofs ---------------------------
(***************************************************************************)
(* IInv is an invariant of MountEntry, for every choice of the constants,  *)
(* and with it TypeOK, ExitDoneClosedOnce, ExitDoneHasCloser,              *)
(* UnmountPrevails and AttemptsBounded.                                    *)
(***************************************************************************)
EXTENDS MountEntrySteps

USE DEF callVars, timerVars, systemVars, daemonVars, otherVars

\* waitForProcess and handleMountTimeout record how their attempt ended.
LEMMA RecordSteps ==
  ASSUME IInv, NEW t \in Threads, t # Op, RecordFailure(t) PROVE IInv'
<1>0. TypeOK /\ ThreadsOK
  BY Zenon DEF IInv, TypeOK
<1>1. /\ pc[t] \in {"record", "terminal"} /\ UNCHANGED <<callVars, otherVars>>
      /\ \/ entry' = entry
         \/ ~entry.unmounting /\ entry' = [entry EXCEPT !.state = "RETRY_WAIT"]
         \/ ~entry.unmounting /\ entry' = [entry EXCEPT !.state = "FAILED"]
      /\ \/ Finish(t)
         \/ Persist(t, "idle")
         \/ Persist(t, "arm") /\ entry.attempt < MaxAttempts
  BY Zenon DEF RecordFailure, RecordMountFailure, RecordTerminalMountFailure, Superseded,
         RetryAllowed
<1>2. /\ entry' \in Entries /\ SameAttempt
      /\ entry'.unmounting = entry.unmounting
      /\ entry'.state = entry.state \/ ~entry.unmounting
  BY <1>0, <1>1, Zenon DEF TypeOK, Entries, States, SameAttempt
<1>3. TypeOK'
  <2>1. ThreadsOK'
    BY <1>0, <1>1, ThreadsOKStep, Zenon DEF Thens
  <2> QED BY <1>0, <1>1, <1>2, <2>1, Zenon DEF TypeOK
<1>4. /\ OthersStay(t) /\ pc'[t] \in {"idle", "clone"} /\ rec' = rec
      /\ pc'[t] = "clone" /\ then'[t] = "arm" => entry.attempt < MaxAttempts
      /\ operation' = operation \/ (operation = t /\ operation' = NoThread)
  BY <1>0, <1>1, MoveFacts
<1>5. Carries(t)' => entry.attempt < MaxAttempts
  BY <1>4, Zenon DEF Carries
<1>6. ControlInv'
  BY <1>1, <1>2, <1>4, <1>5, WaiterStep, Zenon
<1> QED BY <1>3, <1>6, Zenon DEF IInv

\* The other steps of waitForProcess.
LEMMA ProcSteps ==
  ASSUME IInv, NEW g \in Gens, ReapProcess(g) \/ CleanUpCrash(g) PROVE IInv'
<1>0. /\ TypeOK /\ ThreadsOK /\ Proc(g) \in Threads /\ Proc(g) # Op
      /\ LockInv /\ ExistsInv /\ GenInv /\ ExitInv /\ AttemptInv /\ UnmountInv
  BY ThreadFacts, Zenon DEF IInv, TypeOK, ControlInv
<1>1. ASSUME ReapProcess(g) PROVE IInv'
  <2>1. /\ pc[Proc(g)] = "run" /\ closed' = closed \cup {g}
        /\ UNCHANGED <<entry, callVars, timerVars, db, systemVars, daemonVars>>
        /\ Goto(Proc(g), "cleanup") \/ Finish(Proc(g))
    BY <1>1, Zenon DEF ReapProcess
  <2>2. /\ OthersStay(Proc(g)) /\ pc'[Proc(g)] \in {"idle", "cleanup"} /\ rec' = rec
        /\ \/ operation' = operation
           \/ operation = Proc(g) /\ operation' = NoThread
    BY <1>0, <2>1, MoveFacts, Zenon
  <2>3. TypeOK'
    <3>1. "cleanup" \in PCs(Proc(g))
      BY <1>0, ThreadFacts, Zenon DEF PCs, ProcPCs
    <3>2. ThreadsOK'
      BY <1>0, <2>1, <3>1, ThreadsOKStep, Zenon
    <3> QED BY <1>0, <2>1, <3>2, Zenon DEF TypeOK
  <2>4. /\ Exists /\ Exists' /\ entry.exitDone \in Gens
        /\ pc'[Op] = pc[Op] /\ then'[Op] = then[Op]
    <3>1. Exists /\ Exists'
      BY <1>0, <2>1, Zenon DEF ExistsInv, Exists
    <3>2. entry.exitDone >= 1
      BY <1>0, <3>1, Zenon DEF GenInv
    <3> QED BY <1>0, <2>2, <3>1, <3>2, Counters, ThreadFacts DEF OthersStay, Gens
  <2>5. /\ Starting' <=> Starting
        /\ Spawning' <=> Spawning
        /\ Stopping' <=> Stopping
    BY <2>4, Zenon DEF Starting, Spawning, Stopping, OpAt
  <2>6. LockInv' BY <1>0, <2>1, <2>2, ThreadFacts DEF LockInv, OthersStay
  <2>7. ExistsInv' BY <2>4, Zenon DEF ExistsInv
  <2>8. GenInv'
    <3>1. g <= entry.generation
      BY <1>0, <2>1, ThreadFacts, Zenon DEF GenInv
    <3> QED BY <1>0, <2>1, <2>2, <2>4, <3>1, Zenon DEF GenInv, OthersStay, Pending
  <2>9. ExitInv'
    <3>1. \A h \in Gens : h # g => pc'[Proc(h)] = pc[Proc(h)]
      BY <1>0, <2>2, ThreadFacts, Zenon DEF OthersStay
    <3>2. Starting \/ Spawning => entry.exitDone # g
      BY <1>0, <2>1, Zenon DEF ExitInv
    <3> QED BY <1>0, <2>1, <2>2, <2>4, <2>5, <3>1, <3>2, Zenon DEF ExitInv, CurrentExited
  <2>10. AttemptInv'
    <3>1. \A u \in Threads : Carries(u)' => Carries(u)
      BY <2>2, Zenon DEF OthersStay, Carries
    <3> QED BY <1>0, <2>1, <2>2, <3>1, Zenon DEF AttemptInv, Pending, GenerationOf
  <2>11. UnmountInv'
    BY <1>0, <2>1, <2>4, <2>5, Zenon DEF UnmountInv, UnmountPrevails
  <2> QED BY <2>3, <2>6, <2>7, <2>8, <2>9, <2>10, <2>11, Zenon DEF IInv, ControlInv
<1>2. ASSUME CleanUpCrash(g) PROVE IInv'
  <2>1. /\ pc[Proc(g)] = "cleanup"
        /\ Goto(Proc(g), "record") \/ Goto(Proc(g), "terminal")
        /\ UNCHANGED <<entry, callVars, timerVars, closed, db, child, killed, daemonVars>>
    BY <1>2, Zenon DEF CleanUpCrash
  <2>2. TypeOK'
    <3>1. table' \in Seq(Gens) /\ data' \in {"none", "dir", "unsynced"}
      BY <1>0, <1>2, TableType, Zenon DEF CleanUpCrash, TypeOK
    <3>2. {"record", "terminal"} \subseteq PCs(Proc(g))
      BY <1>0, ThreadFacts, Zenon DEF PCs, ProcPCs
    <3>3. ThreadsOK'
      BY <1>0, <2>1, <3>2, ThreadsOKStep, Zenon
    <3> QED BY <1>0, <2>1, <3>1, <3>3, Zenon DEF TypeOK
  <2>3. /\ OthersStay(Proc(g)) /\ pc'[Proc(g)] \in {"record", "terminal"}
        /\ operation' = operation /\ rec' = rec
    BY <1>0, <2>1, MoveFacts, Zenon
  <2>4. ~Carries(Proc(g))' /\ SameAttempt
    BY <2>1, <2>3, Zenon DEF Carries, SameAttempt
  <2>5. ControlInv'
    BY <1>0, <2>1, <2>3, <2>4, WaiterStep, Zenon
  <2> QED BY <2>2, <2>5, Zenon DEF IInv
<1> QED BY <1>1, <1>2, Zenon

\* waitForMount and the other steps of handleMountTimeout.
LEMMA WatchSteps ==
  ASSUME IInv, NEW g \in Gens,
         \/ WatchProbe(g) \/ WatchSeen(g) \/ WatchExit(g) \/ WatchDeadline(g)
         \/ HandleMountTimeout(g) \/ CleanUpTimeout(g)
  PROVE  IInv'
<1>0. /\ TypeOK /\ ThreadsOK /\ Watch(g) \in Threads /\ Watch(g) # Op
      /\ WatchPCs \subseteq PCs(Watch(g)) /\ "idle" \in Thens(Watch(g))
  BY ThreadFacts, Zenon DEF IInv, TypeOK, PCs, Thens
<1>1. {"seen", "polldone", "expired", "reap", "record", "terminal"} \subseteq WatchPCs
  BY Zenon DEF WatchPCs
<1>2. ASSUME WatchProbe(g) \/ WatchExit(g) \/ WatchDeadline(g) PROVE IInv'
  <2>1. /\ pc[Watch(g)] \in {"poll", "polldone"}
        /\ \/ Goto(Watch(g), "seen") \/ Goto(Watch(g), "expired")
           \/ Goto(Watch(g), "polldone") \/ Finish(Watch(g))
        /\ UNCHANGED <<entry, callVars, otherVars>>
    BY <1>2, Zenon DEF WatchProbe, WatchExit, WatchDeadline
  <2>2. TypeOK'
    <3>1. ThreadsOK'
      BY <1>0, <1>1, <2>1, ThreadsOKStep, Zenon
    <3> QED BY <1>0, <2>1, <3>1, Zenon DEF TypeOK
  <2>3. /\ OthersStay(Watch(g)) /\ rec' = rec
        /\ pc'[Watch(g)] \in {"seen", "expired", "polldone", "idle"}
        /\ \/ operation' = operation
           \/ operation = Watch(g) /\ operation' = NoThread
    BY <1>0, <2>1, MoveFacts, Zenon
  <2>4. ~Carries(Watch(g))' /\ SameAttempt
    BY <2>1, <2>3, Zenon DEF Carries, SameAttempt
  <2>5. ControlInv'
    BY <1>0, <2>1, <2>3, <2>4, WaiterStep, Zenon
  <2> QED BY <2>2, <2>5, Zenon DEF IInv
<1>3. ASSUME WatchSeen(g) PROVE IInv'
  <2>1. /\ pc[Watch(g)] = "seen" /\ UNCHANGED <<callVars, otherVars>>
        /\ \/ /\ entry' = [entry EXCEPT !.state = "MOUNTED", !.mountedAt = TRUE]
              /\ Persist(Watch(g), "idle") /\ ~entry.unmounting
           \/ entry' = entry /\ Finish(Watch(g))
    BY <1>3, Zenon DEF WatchSeen, Superseded
  <2>2. /\ entry' \in Entries /\ SameAttempt
        /\ entry'.unmounting = entry.unmounting
        /\ entry'.state = entry.state \/ ~entry.unmounting
    BY <1>0, <2>1, Zenon DEF TypeOK, Entries, States, SameAttempt
  <2>3. TypeOK'
    <3>1. ThreadsOK'
      BY <1>0, <2>1, ThreadsOKStep, Zenon
    <3> QED BY <1>0, <2>1, <2>2, <3>1, Zenon DEF TypeOK
  <2>4. /\ OthersStay(Watch(g)) /\ rec' = rec
        /\ \/ pc'[Watch(g)] = "idle"
           \/ pc'[Watch(g)] = "clone" /\ then'[Watch(g)] = "idle"
        /\ \/ operation' = operation
           \/ operation = Watch(g) /\ operation' = NoThread
    BY <1>0, <2>1, MoveFacts, Zenon
  <2>5. ~Carries(Watch(g))'
    BY <2>4, Zenon DEF Carries
  <2>6. ControlInv'
    BY <1>0, <2>1, <2>2, <2>4, <2>5, WaiterStep, Zenon
  <2> QED BY <2>3, <2>6, Zenon DEF IInv
<1>4. ASSUME HandleMountTimeout(g) PROVE IInv'
  <2>1. /\ pc[Watch(g)] = "expired" /\ OperationFree
        /\ Finish(Watch(g)) \/ LockAt(Watch(g), "reap")
        /\ entry' = entry \/ entry' = [entry EXCEPT !.timedOut = TRUE]
        /\ UNCHANGED <<callVars, timerVars, closed, db, child, table, data, daemonVars>>
    BY <1>4, Zenon DEF HandleMountTimeout
  <2>2. /\ entry' \in Entries /\ SameAttempt
        /\ entry'.unmounting = entry.unmounting /\ entry'.state = entry.state
    BY <1>0, <2>1, Zenon DEF TypeOK, Entries, SameAttempt
  <2>3. TypeOK'
    <3>1. killed' \subseteq Gens
      BY <1>0, <1>4, KillType, Zenon DEF HandleMountTimeout, TypeOK
    <3>2. ThreadsOK'
      BY <1>0, <1>1, <2>1, ThreadsOKStep, Zenon
    <3> QED BY <1>0, <2>1, <2>2, <3>1, <3>2, Zenon DEF TypeOK
  <2>4. /\ OthersStay(Watch(g)) /\ rec' = rec /\ operation = NoThread
        /\ \/ pc'[Watch(g)] = "idle" /\ operation' = operation
           \/ pc'[Watch(g)] = "reap" /\ operation' = Watch(g)
    BY <1>0, <2>1, MoveFacts, ThreadFacts, Zenon DEF OperationFree
  <2>5. ~Carries(Watch(g))'
    BY <2>4, Zenon DEF Carries
  <2>6. ControlInv'
    BY <1>0, <2>1, <2>2, <2>4, <2>5, WaiterStep, Zenon
  <2> QED BY <2>3, <2>6, Zenon DEF IInv
<1>5. ASSUME CleanUpTimeout(g) PROVE IInv'
  <2>1. /\ pc[Watch(g)] = "reap"
        /\ Goto(Watch(g), "record") \/ Goto(Watch(g), "terminal")
        /\ UNCHANGED <<entry, callVars, timerVars, closed, db, child, killed, daemonVars>>
    BY <1>5, Zenon DEF CleanUpTimeout
  <2>2. TypeOK'
    <3>1. table' \in Seq(Gens) /\ data' \in {"none", "dir", "unsynced"}
      BY <1>0, <1>5, TableType, Zenon DEF CleanUpTimeout, TypeOK
    <3>2. ThreadsOK'
      BY <1>0, <1>1, <2>1, ThreadsOKStep, Zenon
    <3> QED BY <1>0, <2>1, <3>1, <3>2, Zenon DEF TypeOK
  <2>3. /\ OthersStay(Watch(g)) /\ pc'[Watch(g)] \in {"record", "terminal"}
        /\ operation' = operation /\ rec' = rec
    BY <1>0, <2>1, MoveFacts, Zenon
  <2>4. ~Carries(Watch(g))' /\ SameAttempt
    BY <2>1, <2>3, Zenon DEF Carries, SameAttempt
  <2>5. ControlInv'
    BY <1>0, <2>1, <2>3, <2>4, WaiterStep, Zenon
  <2> QED BY <2>2, <2>5, Zenon DEF IInv
<1> QED BY <1>2, <1>3, <1>4, <1>5, Zenon

\* Shutdown and shutdownEntry.
LEMMA ShutdownSteps ==
  IInv /\ (ShutdownBegin \/ ShutdownLock \/ StopExited \/ ShutdownDone) => IInv'
<1>0. ASSUME IInv
      PROVE  /\ TypeOK /\ ThreadsOK /\ RecordsBounded /\ Op \in Threads
             /\ LockInv /\ ExistsInv /\ GenInv /\ ExitInv /\ AttemptInv /\ UnmountInv
             /\ (pc[Op] # "idle" => reg \in {"managed", "removed"})
  BY <1>0, ThreadFacts, Zenon
     DEF IInv, TypeOK, ControlInv, AttemptInv, RecordsBounded, ExistsInv, Exists
<1>1. ASSUME IInv, ShutdownBegin \/ (ShutdownLock /\ entry.unmounting) PROVE IInv'
  <2>1. /\ entry' = entry \/ entry' = [entry EXCEPT !.retryTimer = NoTimer]
        /\ armed' \subseteq armed /\ stop' \in {"locking", "done"}
        /\ stop' = "locking" => Exists
        /\ UNCHANGED <<callVars, threadVars, fired, closed, db, systemVars, restarts>>
    BY <1>1, Zenon DEF ShutdownBegin, ShutdownLock, Exists
  <2>2. /\ entry' \in Entries /\ SameAttempt
        /\ entry'.unmounting = entry.unmounting /\ entry'.state = entry.state
    BY <1>0, <1>1, <2>1, Zenon DEF TypeOK, Entries, SameAttempt
  <2>3. TypeOK'
    BY <1>0, <1>1, <2>1, <2>2, Zenon DEF TypeOK, ThreadsOK, threadVars
  <2>4. RecordsBounded' /\ (Exists' <=> Exists)
    BY <1>0, <1>1, <2>1, Zenon DEF RecordsBounded, Exists, threadVars
  <2>5. ControlInv'
    BY <1>1, <2>1, <2>2, <2>4, QuietStep, Zenon DEF threadVars
  <2> QED BY <2>3, <2>5, Zenon DEF IInv
<1>2. ASSUME IInv, ShutdownLock, ~entry.unmounting PROVE IInv'
  <2>1. /\ entry' = [entry EXCEPT !.stopping = TRUE]
        /\ LockAt(Op, "stopprobe") /\ stop' = "stopping" /\ stop = "locking"
        /\ UNCHANGED <<callVars, timerVars, closed, db, systemVars, restarts>>
    BY <1>2, Zenon DEF ShutdownLock, MarkStopping
  <2>2. /\ entry' \in Entries /\ SameAttempt
        /\ entry'.unmounting = entry.unmounting /\ entry'.state = entry.state
    BY <1>0, <1>2, <2>1, Zenon DEF TypeOK, Entries, SameAttempt
  <2>3. TypeOK'
    <3>1. ThreadsOK'
      BY <1>0, <1>2, <2>1, ThreadsOKStep, Zenon DEF PCs, OpPCs
    <3> QED BY <1>0, <1>2, <2>1, <2>2, <3>1, Zenon DEF TypeOK
  <2>4. /\ OthersStay(Op) /\ pc'[Op] = "stopprobe" /\ rec' = rec
        /\ operation = NoThread /\ operation' = Op
    BY <1>0, <1>2, <2>1, MoveFacts, Zenon DEF OperationFree
  <2>5. pc[Op] = "idle" /\ Exists /\ Exists' /\ entry.exitDone \in Gens
    <3>1. pc[Op] = "idle" /\ Exists /\ Exists'
      BY <1>0, <1>2, <2>1, <2>4, ThreadFacts, Zenon DEF LockInv, ExistsInv, Exists
    <3>2. entry.exitDone >= 1
      BY <1>0, <1>2, <3>1, Zenon DEF GenInv
    <3> QED BY <1>0, <1>2, <3>1, <3>2, Counters DEF Gens
  <2>6. ~Starting /\ ~Spawning /\ ~Starting' /\ ~Spawning' /\ ~Carries(Op)'
    BY <2>4, <2>5, Zenon DEF Starting, Spawning, OpAt, Carries
  <2>7. LockInv' BY <1>0, <1>2, <2>4, ThreadFacts DEF LockInv, OthersStay
  <2>8. ExistsInv' BY <2>5, Zenon DEF ExistsInv
  <2>9. GenInv'
    <3>1. entry.generation \in Nat
      BY <1>0, <1>2, Counters, Zenon
    <3> QED BY <1>0, <1>2, <2>1, <2>2, <2>4, <2>5, <3>1, ThreadFacts
            DEF GenInv, OthersStay, SameAttempt, Pending
  <2>10. ExitInv'
    <3>1. \A g \in Gens : pc'[Proc(g)] = pc[Proc(g)]
      BY <2>4, ThreadFacts, Zenon DEF OthersStay
    <3> QED BY <1>0, <1>2, <2>1, <2>2, <2>5, <2>6, <3>1
            DEF ExitInv, CurrentExited, SameAttempt
  <2>11. AttemptInv'
    <3>1. \A u \in Threads : Carries(u)' => Carries(u)
      BY <2>4, <2>6, Zenon DEF OthersStay, Carries
    <3> QED BY <1>0, <1>2, <2>1, <2>2, <2>4, <3>1, Zenon
            DEF AttemptInv, SameAttempt, Pending, GenerationOf
  <2>12. UnmountInv'
    BY <1>2, <2>2, <2>4, Zenon DEF UnmountInv, UnmountPrevails
  <2> QED BY <2>3, <2>7, <2>8, <2>9, <2>10, <2>11, <2>12, Zenon DEF IInv, ControlInv
<1>3. ASSUME IInv, StopExited PROVE IInv'
  <2>1. /\ pc[Op] \in {"stopwait", "stopkill"}
        /\ entry' = [entry EXCEPT !.state = "PENDING_MOUNT"]
        /\ Persist(Op, "stopped") /\ UNCHANGED <<callVars, otherVars>>
    BY <1>3, Zenon DEF StopExited
  <2>2. /\ entry' \in Entries /\ SameAttempt
        /\ entry'.unmounting = entry.unmounting
    BY <1>0, <1>3, <2>1, Zenon DEF TypeOK, Entries, States, SameAttempt
  <2>3. TypeOK'
    <3>1. ThreadsOK'
      BY <1>0, <1>3, <2>1, ThreadsOKStep, Zenon DEF Thens
    <3> QED BY <1>0, <1>3, <2>1, <2>2, <3>1, Zenon DEF TypeOK
  <2>4. ~entry.unmounting
    BY <1>0, <1>3, <2>1, Zenon DEF UnmountInv, Stopping, OpAt
  <2>5. ControlInv'
    BY <1>0, <1>3, <2>1, <2>2, <2>4, OpEnds, Zenon
  <2> QED BY <2>3, <2>5, Zenon DEF IInv
<1>4. ASSUME IInv, ShutdownDone PROVE IInv'
  <2>1. /\ pc[Op] = "stopped" /\ Finish(Op) /\ stop' = "done"
        /\ UNCHANGED <<entry, callVars, timerVars, closed, db, systemVars, restarts>>
    BY <1>4, Zenon DEF ShutdownDone
  <2>2. TypeOK'
    <3>1. ThreadsOK'
      BY <1>0, <1>4, <2>1, ThreadsOKStep, Zenon
    <3> QED BY <1>0, <1>4, <2>1, <3>1, Zenon DEF TypeOK
  <2>3. /\ SameAttempt /\ ~entry.unmounting
    BY <1>0, <1>4, <2>1, Zenon DEF SameAttempt, UnmountInv, Stopping, OpAt
  <2>4. ControlInv'
    BY <1>0, <1>4, <2>1, <2>3, OpEnds, Zenon
  <2> QED BY <2>2, <2>4, Zenon DEF IInv
<1> QED BY <1>1, <1>2, <1>3, <1>4, Zenon

\* What reconciling a tombstone leaves.
LEMMA ReconcileType ==
  ASSUME TypeOK, ReconcileTombstone
  PROVE  /\ table' \in Seq(Gens) /\ data' \in {"none", "dir", "unsynced"}
         /\ db' \in {db, NoRecord}
BY TableType, Zenon DEF ReconcileTombstone, TypeOK

\* The daemon exits, starts again, and reconciles periodically.
LEMMA DaemonSteps ==
  IInv /\ (DaemonExit \/ Restart \/ PeriodicReconcile) => IInv'
<1>0. ASSUME IInv
      PROVE  /\ TypeOK /\ ThreadsOK /\ RecordsBounded /\ ExistsInv /\ GenInv
             /\ NoRecord \in Records /\ NoRecord.attempt = 0
  BY <1>0, Zenon DEF IInv, TypeOK, ControlInv, AttemptInv, RecordsBounded, NoRecord, Records
<1>1. ASSUME IInv, DaemonExit PROVE IInv'
  <2>1. entry' = [NewEntry(entry.generation, 1, FALSE) EXCEPT !.state = "FAILED"]
    BY <1>1, Zenon DEF DaemonExit
  <2>2. entry' \in Entries
    <3>1. entry.generation \in 0 .. MaxGen /\ 1 \in Nat
      BY <1>0, <1>1, Counters, Zenon
    <3>2. NewEntry(entry.generation, 1, FALSE) \in Entries
      BY <3>1, NewEntryType, Zenon
    <3> QED BY <2>1, <3>2, Zenon DEF Entries, States
  <2>3. /\ entry'.generation = entry.generation
        /\ entry'.exitDone = entry.generation
        /\ entry'.attempt = 1 /\ ~entry'.unmounting
    BY <2>1, Zenon DEF NewEntry
  <2>4. /\ pc' = [t \in Threads |-> "idle"] /\ operation' = NoThread
        /\ rec' = [t \in Threads |-> NoRecord] /\ armed' = {} /\ fired' = {}
        /\ reg' = "down" /\ stop' = "no" /\ closed' = closed /\ db' = db
        /\ then' = [t \in Threads |-> "idle"]
    BY <1>1, Zenon DEF DaemonExit
  <2>5. TypeOK'
    <3>1. ThreadsOK'
      BY <1>0, <1>1, <2>4, Zenon
         DEF ThreadsOK, PCs, Thens, OpPCs, ProcPCs, WatchPCs, PersistPCs
    <3> QED BY <1>0, <1>1, <2>2, <2>4, <3>1 DEF DaemonExit, TypeOK, NoCall, States
  <2>6. /\ \A t \in Threads : pc'[t] = "idle" /\ ~Carries(t)'
        /\ pc'[Op] = "idle" /\ ~Exists'
    BY <2>4, ThreadFacts, Zenon DEF Carries, Exists
  <2>7. ~Starting' /\ ~Spawning' /\ ~Stopping'
    BY <2>6, Zenon DEF Starting, Spawning, Stopping, OpAt
  <2>8. LockInv' /\ ExistsInv'
    BY <2>4, <2>6, ThreadFacts, Zenon DEF LockInv, ExistsInv
  <2>9. GenInv'
    <3>1. entry.generation \in Nat
      BY <1>0, <1>1, Counters, Zenon
    <3> QED BY <1>0, <1>1, <2>3, <2>4, <2>6, <3>1 DEF GenInv, Pending
  <2>10. ExitInv'
    BY <2>6, <2>7, ThreadFacts, Zenon DEF ExitInv
  <2>11. AttemptInv'
    BY <1>0, <1>1, <2>3, <2>4, <2>6, AttemptsAssumption
       DEF AttemptInv, RecordsBounded, Pending
  <2>12. UnmountInv'
    BY <2>3, <2>6, <2>7, Zenon DEF UnmountInv, UnmountPrevails
  <2> QED BY <2>5, <2>8, <2>9, <2>10, <2>11, <2>12, Zenon DEF IInv, ControlInv
<1>2. ASSUME IInv, Restart \/ PeriodicReconcile PROVE IInv'
  <2>1. table' \in Seq(Gens) /\ data' \in {"none", "dir", "unsynced"}
        /\ db' \in {db, NoRecord}
    BY <1>0, <1>2, TableType, ReconcileType, Zenon DEF Restart, PeriodicReconcile, TypeOK
  <2>2. /\ UNCHANGED <<client, entry, req, threadVars, timerVars, closed, child,
                       killed, daemonVars>>
        /\ reg' = reg \/ (reg = "down" /\ reg' = "absent")
    BY <1>2, Zenon DEF Restart, PeriodicReconcile
  <2>3. TypeOK'
    BY <1>0, <1>2, <2>1, <2>2, Zenon DEF TypeOK, ThreadsOK, threadVars
  <2>4. /\ SameAttempt /\ RecordsBounded' /\ (Exists' <=> Exists)
        /\ stop' = "locking" => Exists
    BY <1>0, <1>2, <2>1, <2>2, AttemptsAssumption
       DEF SameAttempt, RecordsBounded, Exists, ExistsInv, threadVars
  <2>5. ControlInv'
    BY <1>2, <2>2, <2>4, QuietStep, Zenon DEF threadVars
  <2> QED BY <2>3, <2>5, Zenon DEF IInv
<1> QED BY <1>1, <1>2, Zenon

\* The mount clients change nothing that ControlInv speaks of.
LEMMA EnvironmentSteps ==
  ASSUME IInv, NEW g \in Gens,
         ChildMounts(g) \/ ChildExits(g) \/ CacheSynchronised \/ UNCHANGED vars
  PROVE  IInv'
<1>0. TypeOK /\ RecordsBounded /\ ExistsInv
  BY Zenon DEF IInv, ControlInv, AttemptInv, RecordsBounded
<1>1. /\ table' \in Seq(Gens) /\ data' \in {"none", "dir", "unsynced"}
      /\ child' \in [Gens -> ChildStates]
  <2>1. table' \in Seq(Gens)
    <3>1. \/ table' = table
          \/ table' = Append(table, g)
          \/ \E i \in 1 .. Len(table) : table' = TableWithout(i)
      BY Zenon DEF ChildMounts, ChildExits, CacheSynchronised, vars
    <3>2. table \in Seq(Gens)
      BY <1>0, Zenon DEF TypeOK
    <3>3. Append(table, g) \in Seq(Gens)
      BY <3>2, AppendProperties, Zenon
    <3>4. \A i \in 1 .. Len(table) : TableWithout(i) \in Seq(Gens)
      BY <1>0, TableType, Zenon
    <3> QED BY <3>1, <3>2, <3>3, <3>4, Zenon
  <2>2. child' \in [Gens -> ChildStates]
    BY <1>0, Zenon
       DEF ChildMounts, ChildExits, CacheSynchronised, vars, TypeOK, ChildStates
  <2> QED BY <1>0, <2>1, <2>2, Zenon
          DEF ChildMounts, ChildExits, CacheSynchronised, vars, TypeOK
<1>2. UNCHANGED <<entry, callVars, threadVars, timerVars, closed, db, killed,
                  daemonVars>>
  BY Zenon DEF ChildMounts, ChildExits, CacheSynchronised, vars
<1>3. TypeOK'
  BY <1>0, <1>1, <1>2, Zenon DEF TypeOK, ThreadsOK, threadVars
<1>4. /\ SameAttempt /\ RecordsBounded' /\ (Exists' <=> Exists)
      /\ stop' = "locking" => Exists
  BY <1>0, <1>2, Zenon
     DEF SameAttempt, RecordsBounded, Exists, ExistsInv, threadVars
<1>5. ControlInv'
  BY <1>2, <1>4, QuietStep, Zenon DEF threadVars
<1> QED BY <1>3, <1>5, Zenon DEF IInv

\* Every step preserves the inductive invariant.
LEMMA NextIInv == IInv /\ [Next]_vars => IInv'
<1> SUFFICES ASSUME IInv, [Next]_vars PROVE IInv'
  OBVIOUS
<1>1. Op \in Threads /\ \A g \in Gens : /\ Proc(g) \in Threads /\ Proc(g) # Op
                                       /\ Watch(g) \in Threads /\ Watch(g) # Op
  BY ThreadFacts, Zenon
<1>2. ASSUME OpStep PROVE IInv'
  BY <1>1, <1>2, StartSteps, GiveUpSteps, TombstoneSteps, UnmountSteps,
     ShutdownSteps, PersistSteps, Zenon DEF OpStep
<1>3. ASSUME NEW g \in Gens, ProcStep(g) PROVE IInv'
  BY <1>1, <1>3, ProcSteps, RecordSteps, PersistSteps, Zenon DEF ProcStep
<1>4. ASSUME NEW g \in Gens, WatchStep(g) PROVE IInv'
  BY <1>1, <1>4, WatchSteps, RecordSteps, PersistSteps, Zenon DEF WatchStep
<1>5. ASSUME DaemonStep PROVE IInv'
  BY <1>2, <1>3, <1>4, <1>5, TimerSteps, ShutdownSteps, Zenon DEF DaemonStep
<1>6. ASSUME CacheSynchronised \/ UNCHANGED vars PROVE IInv'
  <2>1. 1 \in Gens
    BY BoundsAssumption DEF Gens
  <2> QED BY <1>6, <2>1, EnvironmentSteps, Zenon
<1> QED BY <1>5, <1>6, MountSteps, TombstoneSteps, ShutdownSteps, DaemonSteps,
           EnvironmentSteps, Zenon DEF Next

\* What IInv says of the properties that the model checker sees.
LEMMA IInvImplies ==
  IInv => /\ TypeOK /\ ExitDoneClosedOnce /\ ExitDoneHasCloser
          /\ UnmountPrevails /\ AttemptsBounded
<1> SUFFICES ASSUME IInv
             PROVE  /\ TypeOK /\ ExitDoneClosedOnce /\ ExitDoneHasCloser
                    /\ UnmountPrevails /\ AttemptsBounded
  OBVIOUS
<1>0. TypeOK /\ ExistsInv /\ ExitInv /\ UnmountInv /\ AttemptInv
  BY Zenon DEF IInv, ControlInv
<1>1. ExitDoneClosedOnce
  BY <1>0, Zenon DEF ExitDoneClosedOnce, ExitInv, Starting, OpAt, CurrentExited
<1>2. ExitDoneHasCloser
  BY <1>0, Zenon DEF ExitDoneHasCloser, ExitInv, ExistsInv, Starting, Spawning, OpAt
<1> QED BY <1>0, <1>1, <1>2, Zenon DEF UnmountInv, AttemptInv, AttemptsBounded

-----------------------------------------------------------------------------
(* The theorems, for any clients, limits, policies and faults.              *)

\* The invariant holds in every reachable state.
THEOREM IInvHolds == Spec => []IInv
BY InitIInv, NextIInv, PTL DEF Spec

\* Every variable keeps its type, every goroutine stays where its code can be.
THEOREM TypeCorrect == Spec => []TypeOK
BY IInvImplies, IInvHolds, PTL

\* close(exitDone) never panics: waitForProcess (1117), finishMountStartFailure
\* (1181) and the failed Create (414) never meet a closed channel.
THEOREM NoDoubleClose == Spec => []ExitDoneClosedOnce
BY IInvImplies, IInvHolds, PTL

\* The unbounded waits of performUnmountAttempt and shutdownEntry are for a
\* channel that is closed or has a waitForProcess goroutine to close it.
THEOREM WaitsHaveACloser == Spec => []ExitDoneHasCloser
BY IInvImplies, IInvHolds, PTL

\* No goroutine of a mount attempt takes the entry from an accepted unmount.
THEOREM UnmountIsInControl == Spec => []UnmountPrevails
BY IInvImplies, IInvHolds, PTL

\* recordMountFailure and recordUnmountFailure bound the attempts, across
\* duplicate timers, rollbacks and restarts.
THEOREM AttemptsStayBounded == Spec => []AttemptsBounded
BY IInvImplies, IInvHolds, PTL
====
