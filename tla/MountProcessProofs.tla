-------------------------- MODULE MountProcessProofs --------------------------
(***************************************************************************)
(* The client process of a mount, its record and its data directory, for   *)
(* every choice of the constants: ProcessInv is an invariant of            *)
(* MountEntry, and with it RunningChildIsRecorded and OneLiveClient;       *)
(* shutdownEntry keeps the record of a mount that is to come back; and     *)
(* every step is one that ManagedMount allows.                             *)
(***************************************************************************)
EXTENDS MountProcessSteps, MountEntryProofs

USE DEF callVars, timerVars, systemVars, daemonVars, otherVars

-----------------------------------------------------------------------------
(* waitForProcess, waitForMount and handleMountTimeout.                    *)

\* A waiter that writes no record.
LEMMA WaiterKeeps ==
  ASSUME IInv, IInv', ProcessInv, PromiseInv, NEW t \in Threads, t # Op, pc[t] # "idle",
         OthersStay(t), pc'[t] \notin {"write", "tombstone"},
         UNCHANGED <<reg, rec, armed, fired, db, child, stop, restarts>>,
         SameAttempt, entry'.command = entry.command,
         entry'.unmounting = entry.unmounting,
         killed \subseteq killed', \A g \in killed' : g \in killed \/ g = entry.command,
         \A g \in closed' : g \in closed \/ ~Alive(g),
         data = "none" => data' = "none",
         data' = "none" => data = "none" \/ pc[t] = "reap",
         pc'[t] = "reap" => ~entry.unmounting,
         Reports(t)' /\ (t.gen = entry.generation \/ pc'[t] = "reap") => Settled'
  PROVE  Sound
<1>1. SameProcess
  BY Zenon DEF SameProcess, Alive
<1>2. WaiterCourse(t)
  BY Zenon DEF WaiterCourse
<1>0. Settled => Settled'
  BY <1>1, SettledStays, Zenon DEF IInv
<1>s. pc[t] = "reap" => Settled
  BY Zenon DEF ProcessInv, SettledInv, Reports
<1>3. StoreCourse
  BY <1>0, <1>s, Zenon DEF StoreCourse, OthersStay
<1>4. RegistryCourse
  BY Zenon DEF RegistryCourse, Exists, ProcessInv, MarkInv
<1>5. ArmsOnly(t)
  BY Zenon DEF ArmsOnly, Pending
<1>6. ProcessInv'
  BY <1>1, <1>2, <1>3, <1>4, <1>5, MoveKeeps, Zenon
<1>7. PromiseInv'
  <2>1. pc'[Op] = pc[Op] /\ then'[Op] = then[Op]
    BY ThreadFacts, Zenon DEF OthersStay
  <2>2. OpUnmounting' => OpUnmounting
    BY <2>1, Zenon DEF OpUnmounting, OpAt
  <2>3. pc'[Op] \in {"delete", "unregister"} => data' = "none"
    BY <2>1, Zenon DEF PromiseInv, FilesInv
  <2>4. pc'[t] = "reap" => reg' # "removed"
    BY Zenon DEF ProcessInv, MarkInv
  <2> QED BY <1>1, <1>5, <2>2, <2>3, <2>4, MovePromise, Zenon
<1>8. KeepsStep
  <2>1. CASE data' = "none" <=> data = "none"
    BY <1>0, <2>1, RunStep, Zenon DEF SameAttempt
  <2>2. CASE pc[t] = "reap" /\ data' = "none"
    <3>1. reg = "managed"
      <4>1. Exists
        BY <2>2, ThreadFacts, Zenon DEF IInv, ControlInv, ExistsInv
      <4> QED BY <2>2, <4>1, Zenon DEF PromiseInv, RemovedInv, Exists
    <3>2. Promise!RemoveFiles
      BY <1>0, <1>s, <2>2, <3>1, Zenon DEF Promise!RemoveFiles, SameAttempt
    <3> QED BY <3>2, Zenon DEF KeepsStep, Promise!Next
  <2> QED BY <2>1, <2>2, Zenon
<1> QED BY <1>6, <1>7, <1>8, Zenon DEF Sound

\* The steps of waitForProcess before it records a failure.
LEMMA ProcProcess ==
  ASSUME IInv, IInv', ProcessInv, PromiseInv, NEW g \in Gens, ReapProcess(g) \/ CleanUpCrash(g)
  PROVE  Sound
<1>0. /\ ThreadsOK /\ Proc(g) \in Threads /\ Proc(g) # Op /\ Proc(g).gen = g
  BY ThreadFacts, Zenon DEF IInv, TypeOK
<1>1. ASSUME ReapProcess(g) PROVE Sound
  <2>1. /\ pc[Proc(g)] = "run" /\ ~Alive(g) /\ closed' = closed \cup {g}
        /\ Goto(Proc(g), "cleanup") \/ Finish(Proc(g))
        /\ UNCHANGED <<entry, callVars, timerVars, db, systemVars, daemonVars>>
    BY <1>1, Zenon DEF ReapProcess
  <2>2. OthersStay(Proc(g)) /\ pc'[Proc(g)] \in {"cleanup", "idle"} /\ rec' = rec
    BY <1>0, <2>1, MoveFacts, Zenon
  <2>3. g = entry.generation => entry.command = g
    BY <2>1, Zenon DEF ProcessInv, CommandInv
  <2>4. g = entry.generation => Settled'
    BY <2>1, <2>3, Zenon DEF Settled, Alive
  <2>5. SameAttempt
    BY <2>1, Zenon DEF SameAttempt
  <2> QED BY <1>0, <2>1, <2>2, <2>4, <2>5, WaiterKeeps, Zenon
<1>2. ASSUME CleanUpCrash(g) PROVE Sound
  <2>1. /\ pc[Proc(g)] = "cleanup"
        /\ Goto(Proc(g), "record") \/ Goto(Proc(g), "terminal")
        /\ UNCHANGED <<entry, callVars, timerVars, closed, db, child, killed, daemonVars>>
    BY <1>2, Zenon DEF CleanUpCrash
  <2>2. data' = "none" <=> data = "none"
    BY <1>2, Zenon DEF CleanUpCrash, Clearing, Unmounting
  <2>3. OthersStay(Proc(g)) /\ pc'[Proc(g)] \in {"record", "terminal"} /\ rec' = rec
    BY <1>0, <2>1, MoveFacts, Zenon
  <2>4. Proc(g).gen = entry.generation => Settled
    BY <1>0, <2>1, Zenon DEF ProcessInv, SettledInv, Reports
  <2>5. SameAttempt /\ (Settled' <=> Settled)
    BY <2>1, Zenon DEF SameAttempt, Settled, Alive
  <2> QED BY <1>0, <2>1, <2>2, <2>3, <2>4, <2>5, WaiterKeeps, Zenon
<1> QED BY <1>1, <1>2, Zenon

\* waitForProcess and handleMountTimeout record how their attempt ended.
LEMMA RecordProcess ==
  ASSUME IInv, IInv', ProcessInv, PromiseInv, NEW t \in Threads, t # Op, RecordFailure(t)
  PROVE  Sound
<1>0. TypeOK /\ ThreadsOK
  BY Zenon DEF IInv, TypeOK
<1>1. /\ pc[t] \in {"record", "terminal"} /\ UNCHANGED <<callVars, otherVars>>
      /\ \/ entry' = entry
         \/ entry' = [entry EXCEPT !.state = "RETRY_WAIT"]
         \/ entry' = [entry EXCEPT !.state = "FAILED"]
      /\ Finish(t) \/ Persist(t, "idle") \/ Persist(t, "arm")
  BY Zenon DEF RecordFailure, RecordMountFailure, RecordTerminalMountFailure
<1>2. /\ SameAttempt /\ entry'.command = entry.command
      /\ entry'.unmounting = entry.unmounting
  BY <1>0, <1>1, Zenon DEF TypeOK, Entries, SameAttempt
<1>3. OthersStay(t) /\ pc'[t] \in {"idle", "clone"} /\ rec' = rec
  BY <1>0, <1>1, MoveFacts, Zenon
<1>4. t.gen = entry.generation => Settled
  BY <1>1, Zenon DEF ProcessInv, SettledInv, Reports
<1>5. Settled' <=> Settled
  BY <1>1, <1>2, Zenon DEF Settled, Alive
<1> QED BY <1>1, <1>2, <1>3, <1>4, <1>5, WaiterKeeps, Zenon

\* waitForMount, and handleMountTimeout, which kills the process it gives up.
LEMMA WatchProcess ==
  ASSUME IInv, IInv', ProcessInv, PromiseInv, NEW g \in Gens,
         \/ WatchProbe(g) \/ WatchSeen(g) \/ WatchExit(g) \/ WatchDeadline(g)
         \/ HandleMountTimeout(g) \/ CleanUpTimeout(g)
  PROVE  Sound
<1>0. /\ TypeOK /\ ThreadsOK /\ Watch(g) \in Threads /\ Watch(g) # Op
  BY ThreadFacts, Zenon DEF IInv, TypeOK
<1>1. ASSUME WatchProbe(g) \/ WatchExit(g) \/ WatchDeadline(g) \/ WatchSeen(g)
      PROVE  Sound
  <2>1. /\ pc[Watch(g)] \in {"poll", "polldone", "seen"}
        /\ \/ Goto(Watch(g), "seen") \/ Goto(Watch(g), "expired")
           \/ Goto(Watch(g), "polldone") \/ Finish(Watch(g))
           \/ Persist(Watch(g), "idle")
        /\ \/ entry' = entry
           \/ entry' = [entry EXCEPT !.state = "MOUNTED", !.mountedAt = TRUE]
        /\ UNCHANGED <<callVars, otherVars>>
    BY <1>1, Zenon DEF WatchProbe, WatchExit, WatchDeadline, WatchSeen
  <2>2. /\ OthersStay(Watch(g)) /\ rec' = rec
        /\ \/ pc'[Watch(g)] \in {"seen", "expired", "polldone", "idle"}
           \/ pc'[Watch(g)] = "clone" /\ then'[Watch(g)] = "idle"
    BY <1>0, <2>1, MoveFacts, Zenon
  <2>3. /\ SameAttempt /\ entry'.command = entry.command
        /\ entry'.unmounting = entry.unmounting
    BY <1>0, <2>1, Zenon DEF TypeOK, Entries, SameAttempt
  <2>4. ~Reports(Watch(g))'
    BY <2>2, Zenon DEF Reports, Carries
  <2> QED BY <1>0, <2>1, <2>2, <2>3, <2>4, WaiterKeeps, Zenon
<1>2. ASSUME HandleMountTimeout(g) PROVE Sound
  <2>1. /\ pc[Watch(g)] = "expired"
        /\ \/ Finish(Watch(g)) /\ killed' = killed
           \/ LockAt(Watch(g), "reap") /\ KillCommand /\ ~entry.unmounting
        /\ entry' = entry \/ entry' = [entry EXCEPT !.timedOut = TRUE]
        /\ UNCHANGED <<callVars, timerVars, closed, db, child, table, data, daemonVars>>
    BY <1>2, Zenon DEF HandleMountTimeout, Superseded
  <2>2. /\ SameAttempt /\ entry'.command = entry.command
        /\ entry'.unmounting = entry.unmounting
    BY <1>0, <2>1, Zenon DEF TypeOK, Entries, SameAttempt
  <2>3. /\ OthersStay(Watch(g)) /\ rec' = rec /\ killed \subseteq killed'
        /\ \/ pc'[Watch(g)] = "idle"
           \/ pc'[Watch(g)] = "reap" /\ KillCommand /\ ~entry.unmounting
    BY <1>0, <2>1, MoveFacts, Zenon DEF KillCommand
  <2>k. \A h \in killed' : h \in killed \/ h = entry.command
    BY <2>1, Zenon DEF KillCommand
  <2>4. Reports(Watch(g))' => Settled'
    <3>1. KillCommand => Settled'
      BY <2>2, Zenon DEF KillCommand, Settled
    <3> QED BY <2>3, <3>1, Zenon DEF Reports, Carries
  <2> QED BY <1>0, <2>1, <2>2, <2>3, <2>k, <2>4, WaiterKeeps, Zenon
<1>3. ASSUME CleanUpTimeout(g) PROVE Sound
  <2>1. /\ pc[Watch(g)] = "reap"
        /\ Goto(Watch(g), "record") \/ Goto(Watch(g), "terminal")
        /\ UNCHANGED <<entry, callVars, timerVars, closed, db, child, killed, daemonVars>>
    BY <1>3, Zenon DEF CleanUpTimeout
  <2>2. OthersStay(Watch(g)) /\ pc'[Watch(g)] \in {"record", "terminal"} /\ rec' = rec
    BY <1>0, <2>1, MoveFacts, Zenon
  <2>3. Settled /\ SameAttempt /\ (Settled' <=> Settled)
    BY <1>0, <2>1, Zenon DEF ProcessInv, SettledInv, Reports, SameAttempt, Settled, Alive
  <2>4. data = "none" => data' = "none"
    BY <1>3, Zenon DEF CleanUpTimeout
  <2> QED BY <1>0, <2>1, <2>2, <2>3, <2>4, WaiterKeeps, Zenon
<1> QED BY <1>1, <1>2, <1>3, Zenon

-----------------------------------------------------------------------------
(* The Op call.                                                            *)

\* It begins no new attempt and arms no timer.
LEMMA OpKeeps ==
  ASSUME IInv, IInv', ProcessInv, PromiseInv, OthersStay(Op), OpCourse, RegistryCourse,
         pc'[Op] \notin {"write", "tombstone", "reap"},
         \A t \in Threads : t # Op => rec'[t] = rec[t],
         UNCHANGED <<armed, fired, child, restarts>>,
         SameAttempt, entry'.command = entry.command,
         killed \subseteq killed', \A g \in killed' : g \in killed \/ g = entry.command,
         \A g \in closed' : g \in closed \/ ~Alive(g),
         data' = "none" => data = "none" \/ Settled,
         \/ db' = db
         \/ db'.attempt # 0
         \/ db' = NoRecord /\ pc'[Op] = "unregister",
         OpUnmounting' => OpUnmounting,
         pc[Op] # "idle" \/ reg' # "removed",
         reg' = "removed" => reg = "removed" \/ (pc[Op] = "unregister" /\ pc'[Op] = "idle"),
         pc'[Op] \in {"delete", "unregister"} => data' = "none",
         data = "none" => data' = "none" \/ reg' # "removed"
  PROVE  ProcessInv' /\ PromiseInv'
<1>0. Op \in Threads
  BY ThreadFacts, Zenon
<1>1. SameProcess
  BY Zenon DEF SameProcess, Alive
<1>2. StoreCourse
  <2>1. Settled => Settled'
    BY <1>1, SettledStays, Zenon DEF IInv
  <2>2. \A t \in Threads : pc'[t] \in {"write", "tombstone"} =>
          pc[t] = pc'[t] /\ rec'[t] = rec[t]
    BY Zenon DEF OthersStay
  <2> QED BY <2>1, <2>2, Zenon DEF StoreCourse
<1>3. ArmsOnly(Op)
  BY Zenon DEF ArmsOnly, Pending
<1>4. ProcessInv'
  BY <1>0, <1>1, <1>2, <1>3, MoveKeeps, Zenon
<1>5. PromiseInv'
  BY <1>0, <1>1, <1>3, MovePromise, Zenon
<1> QED BY <1>4, <1>5, Zenon

\* The Op call works on an entry that is registered.
LEMMA OpManaged ==
  ASSUME IInv, PromiseInv, pc[Op] # "idle" PROVE reg = "managed"
<1>1. Exists
  BY Zenon DEF IInv, ControlInv, ExistsInv
<1> QED BY <1>1, Zenon DEF PromiseInv, RemovedInv, Exists

\* performUnmountAttempt, from the tombstone to the removal of the entry: the
\* files go when the process has, the entry keeps the mark of the unmount.
LEMMA UnmountMoves ==
  ASSUME IInv, IInv', ProcessInv, PromiseInv,
         \/ WriteTombstone \/ UnmountPath \/ UnmountFails \/ ProcessExited
         \/ (KillProcess /\ pc[Op] = "wait") \/ RemoveData \/ DeleteRecord \/ Unregister
  PROVE  Sound
<1>0. TypeOK /\ ThreadsOK /\ Op \in Threads
  BY ThreadFacts, Zenon DEF IInv, TypeOK
<1>1. /\ pc[Op] \in {"tombstone", "probe", "wait", "killwait", "remove", "delete",
                     "unregister"}
      /\ \/ entry' = entry
         \/ entry' = [entry EXCEPT !.state = "RETRY_WAIT"]
         \/ entry' = [entry EXCEPT !.state = "FAILED"]
      /\ UNCHANGED <<timerVars, closed, child, daemonVars>>
  BY Zenon DEF WriteTombstone, UnmountPath, UnmountFails, RecordUnmountFailure,
               ProcessExited, KillProcess, RemoveData, DeleteRecord, Unregister
<1>2. /\ SameAttempt /\ entry'.command = entry.command
      /\ entry'.unmounting = entry.unmounting
  BY <1>0, <1>1, Zenon DEF TypeOK, Entries, SameAttempt
<1>3. OpUnmounting /\ entry.unmounting /\ ~Stopping /\ stop # "stopping"
  BY <1>1, OpPlace, Zenon DEF ProcessInv, MarkInv, IntentInv
<1>4. /\ OthersStay(Op) /\ \A t \in Threads : t # Op => rec'[t] = rec[t]
      /\ \/ pc'[Op] \in {"probe", "wait", "killwait", "remove", "delete",
                         "unregister", "idle"}
         \/ pc'[Op] = "clone" /\ then'[Op] \in {"idle", "arm"}
  <2>1. CASE WriteTombstone
    BY <1>0, <2>1, Zenon DEF WriteTombstone, ThreadsOK, OthersStay
  <2>2. CASE ~WriteTombstone
    <3>1. \/ Goto(Op, "wait") \/ Goto(Op, "killwait") \/ Goto(Op, "remove")
          \/ Goto(Op, "delete") \/ Goto(Op, "unregister") \/ Finish(Op)
          \/ Persist(Op, "arm") \/ Persist(Op, "idle")
      BY <2>2, Zenon DEF UnmountPath, UnmountFails, RecordUnmountFailure,
               ProcessExited, KillProcess, RemoveData, DeleteRecord, Unregister
    <3> QED BY <1>0, <3>1, MoveFacts, Zenon
  <2> QED BY <2>1, <2>2, Zenon
<1>5. ~Starting' /\ ~Spawning'
  BY <1>4, OpPlace, Zenon DEF Starting, Spawning, OpAt
<1>6. /\ db' = db \/ db'.attempt # 0 \/ (db' = NoRecord /\ pc'[Op] = "unregister")
      /\ pc[Op] = "tombstone" => db' # NoRecord
  <2>1. CASE WriteTombstone
    <3>1. db' = rec[Op] /\ rec[Op].attempt # 0
      BY <1>0, <2>1, Zenon DEF WriteTombstone, ProcessInv, AttemptsCounted
    <3>2. NoRecord.attempt = 0
      BY Zenon DEF NoRecord
    <3> QED BY <3>1, <3>2, Zenon
  <2>2. CASE DeleteRecord
    <3>1. pc[Op] = "delete" /\ db' \in {db, NoRecord} /\ Goto(Op, "unregister")
      BY <2>2, Zenon DEF DeleteRecord
    <3>2. pc'[Op] = "unregister"
      BY <1>0, <3>1, MoveFacts, Zenon
    <3> QED BY <3>1, <3>2, Zenon
  <2>3. CASE ~WriteTombstone /\ ~DeleteRecord
    BY <2>3, Zenon DEF UnmountPath, UnmountFails, ProcessExited, KillProcess,
                       RemoveData, Unregister
  <2> QED BY <2>1, <2>2, <2>3, Zenon
<1>7. /\ killed \subseteq killed' /\ stop' = stop
      /\ reg' = reg \/ reg' = "removed"
      /\ pc[Op] = "unregister" => reg' = "removed"
  BY Zenon DEF WriteTombstone, UnmountPath, UnmountFails, ProcessExited, KillProcess,
               KillCommand, RemoveData, DeleteRecord, Unregister
<1>8. data' = "none" => data = "none" \/ Settled
  BY Zenon DEF WriteTombstone, UnmountPath, UnmountFails, ProcessExited, KillProcess,
       RemoveData, DeleteRecord, Unregister, Clearing, Unmounting, ProcessInv, SettledInv
<1>9. pc'[Op] \in {"remove", "delete", "unregister"} => Settled'
  <2>1. Settled => Settled'
    BY <1>1, <1>2, <1>7, Zenon DEF Settled, Alive
  <2>2. CASE ProcessExited
    <3>1. entry.exitDone \in closed
      BY <2>2, Zenon DEF ProcessExited, CurrentExited
    <3> QED BY <2>1, <3>1, Zenon DEF ProcessInv, ChildInv, CommandInv, Settled
  <2>3. CASE pc[Op] \in {"remove", "delete", "unregister"}
    BY <2>1, <2>3, Zenon DEF ProcessInv, SettledInv
  <2>4. CASE ~ProcessExited /\ pc[Op] \notin {"remove", "delete", "unregister"}
    <3>1. \/ WriteTombstone
          \/ Goto(Op, "wait") \/ Goto(Op, "killwait")
          \/ Persist(Op, "arm") \/ Persist(Op, "idle")
      BY <2>4, Zenon DEF UnmountPath, UnmountFails, RecordUnmountFailure,
                         KillProcess, RemoveData, DeleteRecord, Unregister
    <3>2. WriteTombstone => pc'[Op] = "probe"
      BY <1>0, Zenon DEF WriteTombstone, ThreadsOK
    <3>3. pc'[Op] \in {"probe", "wait", "killwait", "clone"}
      BY <1>0, <3>1, <3>2, MoveFacts, Zenon
    <3> QED BY <3>3, Zenon
  <2> QED BY <2>2, <2>3, <2>4, Zenon
<1>10. OpCourse
  BY <1>1, <1>2, <1>3, <1>4, <1>5, <1>6, <1>7, <1>9, Zenon DEF OpCourse, OpUnstarted
<1>11. RegistryCourse
  BY <1>2, <1>3, <1>7, Zenon DEF RegistryCourse, Exists
<1>12. pc'[Op] \notin {"write", "tombstone", "reap"}
  BY <1>4, Zenon
<1>13. /\ \A g \in killed' : g \in killed \/ g = entry.command
       /\ data = "none" => data' = "none"
       /\ data' = "none" => data = "none" \/ RemoveData
       /\ reg' = reg \/ (Unregister /\ pc[Op] = "unregister")
  BY Zenon DEF WriteTombstone, UnmountPath, UnmountFails, ProcessExited, KillProcess,
       KillCommand, RemoveData, DeleteRecord, Unregister, Clearing, Unmounting
<1>14. /\ RemoveData => pc'[Op] = "delete" /\ data' = "none" /\ Settled
       /\ DeleteRecord => pc'[Op] = "unregister" /\ data = "none" /\ Settled
       /\ Unregister => pc'[Op] = "idle" /\ data = "none" /\ Settled
  BY <1>0, MoveFacts, Zenon DEF RemoveData, DeleteRecord, Unregister, PromiseInv, FilesInv,
                         ProcessInv, SettledInv
<1>15. pc'[Op] \in {"delete", "unregister"} => data' = "none"
  <2>1. CASE RemoveData \/ DeleteRecord \/ Unregister
    BY <1>13, <1>14, <2>1, Zenon
  <2>2. CASE ~RemoveData /\ ~DeleteRecord /\ ~Unregister
    <3>1. \/ WriteTombstone
          \/ Goto(Op, "wait") \/ Goto(Op, "killwait") \/ Goto(Op, "remove")
          \/ Persist(Op, "arm") \/ Persist(Op, "idle")
      BY <2>2, Zenon DEF UnmountPath, UnmountFails, RecordUnmountFailure,
                         ProcessExited, KillProcess
    <3>2. WriteTombstone => pc'[Op] = "probe"
      BY <1>0, Zenon DEF WriteTombstone, ThreadsOK
    <3>3. pc'[Op] \in {"probe", "wait", "killwait", "remove", "clone"}
      BY <1>0, <3>1, <3>2, MoveFacts, Zenon
    <3> QED BY <3>3, Zenon
  <2> QED BY <2>1, <2>2, Zenon
<1>16. pc[Op] # "idle" /\ reg = "managed"
  BY <1>1, OpManaged, Zenon
<1>17. ProcessInv' /\ PromiseInv'
  BY <1>1, <1>2, <1>3, <1>4, <1>6, <1>7, <1>8, <1>10, <1>11, <1>12, <1>13, <1>14, <1>15,
     <1>16, OpKeeps, Zenon
<1>18. KeepsStep
  <2>1. (Settled => Settled') /\ entry'.attempt = entry.attempt
    BY <1>1, <1>2, <1>7, Zenon DEF Settled, Alive, SameAttempt
  <2>2. CASE RemoveData
    <3>1. Promise!RemoveFiles
      BY <1>2, <1>14, <1>16, <2>1, <2>2, Zenon DEF RemoveData, Promise!RemoveFiles
    <3> QED BY <3>1, Zenon DEF KeepsStep, Promise!Next
  <2>3. CASE DeleteRecord
    <3>1. /\ entry' = entry /\ reg' = reg /\ data' = data
          /\ db' = db \/ db' = NoRecord
      BY <2>3, Zenon DEF DeleteRecord
    <3>2. CASE db' = db
      BY <2>1, <3>1, <3>2, RunStep, Zenon
    <3>3. CASE db' = NoRecord
      <4>1. Promise!DeleteRecord
        BY <1>3, <1>14, <1>16, <2>1, <2>3, <3>1, <3>3, Zenon
           DEF Promise!DeleteRecord, Promise!Gone
      <4> QED BY <4>1, Zenon DEF KeepsStep, Promise!Next
    <3> QED BY <3>1, <3>2, <3>3, Zenon
  <2>4. CASE Unregister
    <3>1. entry' = entry /\ reg' = "removed" /\ data' = data /\ db' = db
      BY <2>4, Zenon DEF Unregister
    <3>2. Promise!Remove
      BY <1>3, <1>14, <1>16, <2>1, <2>4, <3>1, Zenon DEF Promise!Remove, Promise!Gone
    <3> QED BY <3>2, Zenon DEF KeepsStep, Promise!Next
  <2>5. CASE ~RemoveData /\ ~DeleteRecord /\ ~Unregister
    <3>1. db' = NoRecord <=> db = NoRecord
      <4>1. WriteTombstone => db # NoRecord /\ db' # NoRecord
        BY <1>6, Zenon DEF WriteTombstone
      <4>2. ~WriteTombstone => db' = db
        BY <2>5, Zenon DEF UnmountPath, UnmountFails, ProcessExited, KillProcess
      <4> QED BY <4>1, <4>2, Zenon
    <3> QED BY <1>2, <1>13, <2>1, <2>5, <3>1, RunStep, Zenon
  <2> QED BY <2>2, <2>3, <2>4, <2>5, Zenon
<1> QED BY <1>17, <1>18, Zenon DEF Sound

\* shutdownEntry.
LEMMA ShutdownMoves ==
  ASSUME IInv, IInv', ProcessInv, PromiseInv,
         \/ (ShutdownLock /\ ~entry.unmounting) \/ StopPath
         \/ (KillProcess /\ pc[Op] = "stopwait") \/ StopExited \/ ShutdownDone
  PROVE  Sound
<1>0. TypeOK /\ ThreadsOK /\ Op \in Threads
  BY ThreadFacts, Zenon DEF IInv, TypeOK
<1>1. /\ \/ entry' = entry
         \/ entry' = [entry EXCEPT !.stopping = TRUE]
         \/ entry' = [entry EXCEPT !.state = "PENDING_MOUNT"]
      /\ UNCHANGED <<callVars, timerVars, closed, db, child, restarts>>
      /\ killed \subseteq killed' /\ \A g \in killed' : g \in killed \/ g = entry.command
      /\ data' = "none" <=> data = "none"
  BY Zenon DEF ShutdownLock, MarkStopping, StopPath, KillProcess, KillCommand,
               StopExited, ShutdownDone, Clearing, Unmounting
<1>2. /\ SameAttempt /\ entry'.command = entry.command
      /\ entry'.unmounting = entry.unmounting
  BY <1>0, <1>1, Zenon DEF TypeOK, Entries, SameAttempt
<1>3. /\ pc[Op] \in {"idle", "stopprobe", "stopwait", "stopkill", "stopped"}
      /\ \/ LockAt(Op, "stopprobe") \/ Goto(Op, "stopwait") \/ Goto(Op, "stopkill")
         \/ Persist(Op, "stopped") \/ (Finish(Op) /\ stop' = "done")
  <2>1. OperationFree => pc[Op] = "idle"
    <3>1. Op # NoThread
      BY ThreadFacts, Zenon
    <3> QED BY <3>1, Zenon DEF IInv, ControlInv, LockInv, OperationFree
  <2> QED BY <2>1, Zenon DEF ShutdownLock, StopPath, KillProcess, StopExited, ShutdownDone
<1>4. /\ OthersStay(Op) /\ rec' = rec
      /\ \/ pc'[Op] \in {"stopprobe", "stopwait", "stopkill"}
         \/ pc'[Op] = "clone" /\ then'[Op] = "stopped"
         \/ pc'[Op] = "idle" /\ stop' = "done"
  BY <1>0, <1>3, MoveFacts, Zenon
<1>5. /\ ~Starting' /\ ~Spawning' /\ ~OpUnmounting' /\ ~Carries(Op)'
      /\ Stopping' \/ (pc'[Op] = "idle" /\ stop' = "done")
  BY <1>4, Zenon DEF Starting, Spawning, OpUnmounting, Stopping, OpAt, Carries
<1>6. pc'[Op] \notin {"write", "tombstone", "remove", "delete", "unregister", "reap"}
  BY <1>4, Zenon
<1>7. OpUnstarted'
  BY <1>5, Zenon DEF OpUnstarted
<1>8. OpCourse
  BY <1>2, <1>3, <1>5, <1>6, <1>7, Zenon DEF OpCourse
<1>9. RegistryCourse
  BY <1>1, <1>2, Zenon DEF RegistryCourse, Exists, ProcessInv, MarkInv
<1>10. reg' = reg /\ (pc[Op] # "idle" \/ reg' # "removed")
  <2>1. pc[Op] = "idle" => ~entry.unmounting
    BY Zenon DEF ShutdownLock, StopPath, KillProcess, StopExited, ShutdownDone
  <2> QED BY <1>1, <2>1, Zenon DEF ProcessInv, MarkInv
<1>11. ProcessInv' /\ PromiseInv'
  BY <1>1, <1>2, <1>4, <1>5, <1>6, <1>8, <1>9, <1>10, OpKeeps, Zenon
<1>12. KeepsStep
  <2>1. (Settled => Settled') /\ entry'.attempt = entry.attempt
    BY <1>1, <1>2, Zenon DEF Settled, Alive, SameAttempt
  <2> QED BY <1>1, <1>2, <1>10, <2>1, RunStep, Zenon
<1> QED BY <1>11, <1>12, Zenon DEF Sound

\* Mount and startMount as far as there is no process.
LEMMA StartMoves ==
  ASSUME IInv, IInv', ProcessInv, PromiseInv,
         CreateRecord \/ CreateFails \/ StartFails \/ StartTooLate
  PROVE  Sound
<1>0. TypeOK /\ ThreadsOK /\ Op \in Threads
  BY ThreadFacts, Zenon DEF IInv, TypeOK
<1>1. /\ pc[Op] \in {"create", "start"}
      /\ UNCHANGED <<callVars, timerVars, child, killed, daemonVars>>
      /\ closed' = closed \/ closed' = closed \cup {entry.exitDone}
  BY Zenon DEF CreateRecord, CreateFails, StartFails, StartTooLate, CloseExitDone
<1>2. /\ SameAttempt /\ entry'.command = entry.command
      /\ entry'.unmounting = entry.unmounting
  <2>1. CASE CreateRecord
    BY <2>1, Zenon DEF CreateRecord, SameAttempt
  <2>2. CASE CreateFails \/ StartFails
    <3>1. \/ entry' = entry
          \/ entry' = [entry EXCEPT !.state = "RETRY_WAIT"]
          \/ entry' = [entry EXCEPT !.state = "FAILED"]
      BY <2>2, Zenon DEF CreateFails, StartFails, RecordMountFailure
    <3> QED BY <1>0, <3>1, Zenon DEF TypeOK, Entries, SameAttempt
  <2>3. CASE StartTooLate
    <3> DEFINE late == [entry EXCEPT !.timedOut = TRUE]
    <3>1. RecordMountFailure(Op, entry.generation, FALSE, late)
      BY <2>3, Zenon DEF StartTooLate
    <3>2. /\ late \in Entries
          /\ late.generation = entry.generation /\ late.exitDone = entry.exitDone
          /\ late.attempt = entry.attempt /\ late.command = entry.command
          /\ late.unmounting = entry.unmounting
      BY <1>0, Zenon DEF TypeOK, Entries
    <3> HIDE DEF late
    <3>3. \/ entry' = late
          \/ entry' = [late EXCEPT !.state = "RETRY_WAIT"]
          \/ entry' = [late EXCEPT !.state = "FAILED"]
      BY <3>1, Zenon DEF RecordMountFailure
    <3> QED BY <3>2, <3>3, Zenon DEF Entries, SameAttempt
  <2> QED BY <2>1, <2>2, <2>3, Zenon
<1>3. /\ Starting /\ ~Stopping /\ stop # "stopping"
      /\ entry.command = 0 /\ ~Alive(entry.exitDone)
      /\ ~entry.unmounting /\ Settled /\ Settled'
  <2>1. Starting /\ ~Stopping
    BY <1>1, OpPlace, Zenon
  <2>2. entry.command = 0 /\ child[entry.generation] = "none" /\ stop # "stopping"
    BY <2>1, Zenon DEF ProcessInv, CommandInv, ChildInv, IntentInv
  <2>3. entry.exitDone = entry.generation /\ ~entry.unmounting
    BY <2>1, Zenon DEF IInv, ControlInv, ExitInv, UnmountInv
  <2> QED BY <1>2, <2>1, <2>2, <2>3, Zenon DEF Alive, Settled
<1>4. /\ OthersStay(Op) /\ rec' = rec
      /\ \/ pc'[Op] = "start" /\ CreateRecord
         \/ pc'[Op] = "idle"
         \/ pc'[Op] = "clone" /\ then'[Op] \in {"idle", "arm"} /\ pc[Op] = "start"
  <2>1. \/ Goto(Op, "start") /\ CreateRecord
        \/ Finish(Op)
        \/ (Persist(Op, "arm") \/ Persist(Op, "idle")) /\ pc[Op] = "start"
    BY Zenon DEF CreateRecord, CreateFails, StartFails, StartTooLate, RecordMountFailure
  <2> QED BY <1>0, <2>1, MoveFacts, Zenon
<1>5. /\ db' = db \/ db'.attempt # 0
      /\ CreateRecord => db' # NoRecord
  <2>1. CASE CreateRecord
    <3>1. db'.attempt = entry.attempt
      BY <2>1, Zenon DEF CreateRecord
    <3>2. NoRecord.attempt = 0 /\ entry.attempt # 0
      BY Zenon DEF NoRecord, ProcessInv, AttemptsCounted
    <3> QED BY <3>1, <3>2, Zenon
  <2>2. CASE ~CreateRecord
    BY <2>2, Zenon DEF CreateFails, StartFails, StartTooLate
  <2> QED BY <2>1, <2>2, Zenon
<1>6. ~Spawning' /\ ~OpUnmounting' /\ pc'[Op] \notin {"write", "tombstone", "reap"}
      /\ pc'[Op] \notin {"remove", "delete", "unregister"}
  BY <1>4, Zenon DEF Spawning, OpUnmounting, OpAt
<1>7. OpUnstarted => OpUnstarted' \/ db' # NoRecord
  <2>1. OpUnstarted => pc[Op] = "create"
    BY <1>1, <1>3, Zenon DEF OpUnstarted
  <2> QED BY <1>4, <1>5, <2>1, Zenon DEF OpUnstarted
<1>8. OpCourse
  BY <1>1, <1>2, <1>3, <1>6, <1>7, Zenon DEF OpCourse
<1>9. RegistryCourse
  BY <1>1, <1>2, Zenon DEF RegistryCourse, Exists, ProcessInv, MarkInv
<1>10. pc[Op] # "idle" /\ reg = "managed" /\ reg' = "managed"
  BY <1>1, OpManaged, Zenon
<1>11. ProcessInv' /\ PromiseInv'
  BY <1>1, <1>2, <1>3, <1>4, <1>5, <1>6, <1>8, <1>9, <1>10, OpKeeps, Zenon
<1>12. KeepsStep
  <2>1. entry'.attempt = entry.attempt /\ (Settled <=> Settled')
    BY <1>2, <1>3, Zenon DEF SameAttempt
  <2>2. CASE CreateRecord
    <3>1. Promise!Record
      BY <1>2, <1>3, <1>5, <1>10, <2>1, <2>2, Zenon
         DEF CreateRecord, Promise!Record, Promise!CanStart
    <3> QED BY <3>1, Zenon DEF KeepsStep, Promise!Next
  <2>3. CASE CreateFails
    BY <1>2, <1>10, <2>1, <2>3, RunStep, Zenon DEF CreateFails
  <2>4. CASE StartFails \/ StartTooLate
    <3>1. db' = db /\ pc[Op] = "start"
      BY <2>4, Zenon DEF StartFails, StartTooLate
    <3>2. db # NoRecord
      <4>1. ~OpUnstarted
        BY <1>3, <3>1, Zenon DEF OpUnstarted
      <4> QED BY <1>10, <3>1, <4>1, Zenon DEF ProcessInv, RecordInv, NeverStarted
    <3>3. CASE data' # "none"
      <4>1. Promise!MakeFiles
        BY <1>2, <1>3, <1>10, <2>1, <3>1, <3>2, <3>3, Zenon
           DEF Promise!MakeFiles, Promise!CanStart
      <4> QED BY <4>1, Zenon DEF KeepsStep, Promise!Next
    <3>4. CASE data' = "none"
      <4>1. Promise!RemoveFiles
        BY <1>2, <1>3, <1>10, <2>1, <3>1, <3>4, Zenon DEF Promise!RemoveFiles
      <4> QED BY <4>1, Zenon DEF KeepsStep, Promise!Next
    <3> QED BY <3>3, <3>4, Zenon
  <2> QED BY <2>2, <2>3, <2>4, Zenon
<1> QED BY <1>11, <1>12, Zenon DEF Sound

\* The tombstone cannot be written: Unmount takes its mark back.  When only a
\* missing record can be the reason, no goroutine has written one with the mark.
LEMMA RollbackMove ==
  ASSUME IInv, IInv', ProcessInv, PromiseInv, TombstoneFails PROVE Sound
<1>0. TypeOK /\ ThreadsOK /\ Op \in Threads
  BY ThreadFacts, Zenon DEF IInv, TypeOK
<1>1. /\ pc[Op] = "tombstone"
      /\ entry' = [entry EXCEPT !.unmounting = req.wasUnmounting,
                                !.state = req.previousState]
      /\ rec' = [rec EXCEPT ![Op] = NoRecord] /\ pc' = [pc EXCEPT ![Op] = "idle"]
      /\ UNCHANGED <<client, reg, then, otherVars>>
  BY Zenon DEF TombstoneFails
<1>2. SameAttempt /\ entry'.command = entry.command
  BY <1>0, <1>1, Zenon DEF TypeOK, Entries, SameAttempt
<1>3. /\ OthersStay(Op) /\ pc'[Op] = "idle"
      /\ \A t \in Threads : t # Op => rec'[t] = rec[t]
  BY <1>0, <1>1, Zenon DEF ThreadsOK, OthersStay
<1>4. reg = "managed" /\ ~Stopping /\ stop # "stopping"
  BY <1>1, OpPlace, Zenon DEF ProcessInv, IntentInv
<1>5. NoRollback => \A t \in Threads : pc'[t] # "write"
  <2>1. NoRollback => db = NoRecord
    BY Zenon DEF TombstoneFails, NoRollback, CallerGone
  <2>2. NoRollback => \A t \in Threads \ {Op} : pc[t] = "idle"
    BY <1>1, <1>4, <2>1, Zenon DEF ProcessInv, RecordInv, NeverStarted
  <2> QED BY <1>3, <2>2, Zenon DEF OthersStay
<1>6. ~Starting' /\ ~Spawning' /\ ~OpUnmounting' /\ ~Carries(Op)' /\ OpUnstarted'
  BY <1>3, Zenon DEF Starting, Spawning, OpUnmounting, OpAt, Carries, OpUnstarted
<1>7. OpCourse
  BY <1>1, <1>3, <1>4, <1>5, <1>6, Zenon DEF OpCourse
<1>8. RegistryCourse
  BY <1>1, <1>4, Zenon DEF RegistryCourse, Exists
<1>9. ProcessInv' /\ PromiseInv'
  BY <1>1, <1>2, <1>3, <1>4, <1>6, <1>7, <1>8, OpKeeps, Zenon
<1>10. KeepsStep
  <2>1. /\ OpUnmounting /\ entry.unmounting /\ entry'.unmounting \in BOOLEAN
        /\ entry'.attempt = entry.attempt /\ (Settled <=> Settled')
    BY <1>1, <1>2, OpPlace, Zenon
       DEF ProcessInv, MarkInv, IInv, TypeOK, Entries, SameAttempt, Settled, Alive
  <2>2. CASE entry'.unmounting
    BY <1>1, <2>1, <2>2, RunStep, Zenon
  <2>3. CASE ~entry'.unmounting
    <3>1. Promise!TakeBackUnmount
      BY <1>1, <1>4, <2>1, <2>3, Zenon DEF Promise!TakeBackUnmount
    <3> QED BY <3>1, Zenon DEF KeepsStep, Promise!Next
  <2> QED BY <2>2, <2>3, Zenon
<1> QED BY <1>9, <1>10, Zenon DEF Sound

-----------------------------------------------------------------------------
(* The steps that begin, run or end an attempt, and those in which neither *)
(* the call nor a goroutine moves, as steps of ManagedMount.               *)

\* Mount, retryMount and remount: a new attempt has nothing yet.
LEMMA FreshPromise ==
  ASSUME PromiseInv, UNCHANGED <<child, killed>>, reg' = "managed", entry'.command = 0,
         pc'[Op] = "create" \/ (pc'[Op] = "clone" /\ then'[Op] = "start")
  PROVE  PromiseInv'
<1>1. ~OpUnmounting' /\ pc'[Op] \notin {"delete", "unregister"}
  BY Zenon DEF OpUnmounting, OpAt
<1> QED BY <1>1, Zenon DEF PromiseInv, AloneInv, RemovedInv, FilesInv, StartedInv

LEMMA MountSound ==
  ASSUME IInv, ProcessInv, PromiseInv, Mount \/ Remount PROVE Sound
<1>0. /\ TypeOK /\ ThreadsOK /\ Op \in Threads
      /\ db.attempt \in Nat /\ db.attempt <= MaxAttempts /\ MaxAttempts \in Nat
      /\ db # NoRecord => db.attempt # 0
  BY ThreadFacts, AttemptsAssumption, Zenon
     DEF IInv, TypeOK, Records, ControlInv, AttemptInv, ProcessInv, AttemptsCounted
<1>1. /\ ~Exists /\ reg' = "managed" /\ db' = db
      /\ data' = data /\ UNCHANGED <<child, killed>>
  BY Zenon DEF Mount, Remount, Exists, Clearing, Unmounting
<1>2. /\ entry'.command = 0 /\ ~entry'.unmounting /\ entry'.unmounting = FALSE
      /\ Mount => entry'.attempt = 1
      /\ Remount => entry'.attempt = db.attempt
  <2>1. ~(Mount /\ Remount)
    BY Zenon DEF Mount, Remount
  <2>2. CASE Mount
    BY <2>1, <2>2 DEF Mount, NewEntry
  <2>3. CASE Remount
    BY <2>1, <2>3 DEF Remount, Restored, NewEntry
  <2> QED BY <2>2, <2>3, Zenon
<1>3. pc'[Op] = "create" \/ (pc'[Op] = "clone" /\ then'[Op] = "start")
  BY <1>0, MoveFacts, Zenon DEF Mount, Remount
<1>4. Settled /\ Settled'
  BY <1>1, <1>2, Zenon DEF ProcessInv, CommandInv, Settled
<1>5. Promise!Register
  <2>1. CASE Mount
    <3>1. reg = "absent"
      BY <2>1, Zenon DEF Mount
    <3> QED BY <1>1, <1>2, <1>4, <2>1, <3>1, Zenon DEF Promise!Register
  <2>2. CASE Remount
    <3>1. reg = "down" /\ db # NoRecord
      BY <2>2, Zenon DEF Remount
    <3>2. entry'.attempt \in 1 .. MaxAttempts
      BY <1>0, <1>2, <2>2, <3>1
    <3> QED BY <1>1, <1>2, <1>4, <3>1, <3>2, Zenon DEF Promise!Register
  <2> QED BY <2>1, <2>2, Zenon
<1>6. PromiseInv'
  BY <1>1, <1>2, <1>3, FreshPromise, Zenon
<1>7. ProcessInv'
  BY MountProcess, Zenon
<1> QED BY <1>5, <1>6, <1>7, Zenon DEF Sound, KeepsStep, Promise!Next

\* Whatever is left of the earlier attempts, a retried mount has its record
\* and no process.
LEMMA RetryMountSound ==
  ASSUME IInv, ProcessInv, PromiseInv, NEW tm, RetryMount(tm) PROVE Sound
<1>0. TypeOK /\ ThreadsOK /\ Op \in Threads
  BY ThreadFacts, Zenon DEF IInv, TypeOK
<1>1. /\ tm \in Pending /\ tm.by # "unmount" /\ tm.gen = entry.generation
      /\ ~entry.unmounting /\ LockAndPersist(Op, "start") /\ entry' = NextAttempt
      /\ UNCHANGED <<reg, db, data, child, killed>>
  BY Zenon DEF RetryMount, Superseded, Pending
<1>2. reg = "managed" /\ db # NoRecord /\ Settled /\ entry.attempt < MaxAttempts
  <2>1. Exists
    BY <1>1, Zenon DEF IInv, ControlInv, ExistsInv, Pending
  <2>2. reg = "managed"
    BY <1>1, <2>1, Zenon DEF Exists, ProcessInv, MarkInv
  <2>3. pc[Op] = "idle"
    <3>1. Op # NoThread /\ OperationFree
      BY <1>1, ThreadFacts, Zenon DEF LockAndPersist
    <3> QED BY <3>1, Zenon DEF IInv, ControlInv, LockInv, OperationFree
  <2>4. db # NoRecord
    BY <1>1, <2>2, <2>3, Zenon DEF ProcessInv, RecordInv, NeverStarted
  <2> QED BY <1>1, <2>2, <2>4, Zenon
          DEF ProcessInv, SettledInv, IInv, ControlInv, AttemptInv
<1>3. /\ entry'.command = 0 /\ entry'.attempt = entry.attempt + 1
      /\ entry'.unmounting = entry.unmounting
  BY <1>0, <1>1, Zenon DEF NextAttempt, NextAttemptOldChannel, TypeOK, Entries
<1>4. pc'[Op] = "clone" /\ then'[Op] = "start"
  BY <1>0, <1>1, MoveFacts, Zenon
<1>5. Promise!Retry
  <2>1. Settled'
    BY <1>3, Zenon DEF Settled
  <2> QED BY <1>1, <1>2, <1>3, <2>1, Zenon DEF Promise!Retry, Promise!CanStart
<1>6. PromiseInv'
  BY <1>1, <1>2, <1>3, <1>4, FreshPromise, Zenon
<1>7. ProcessInv'
  BY RetryMountProcess, Zenon
<1> QED BY <1>5, <1>6, <1>7, Zenon DEF Sound, KeepsStep, Promise!Next

\* Unmount and retryUnmount make every earlier attempt one of the past.
LEMMA UnmountSound ==
  ASSUME IInv, ProcessInv, PromiseInv, Unmount \/ \E tm : RetryUnmount(tm) PROVE Sound
<1>0. /\ TypeOK /\ ThreadsOK /\ Op \in Threads /\ entry.generation \in Nat
      /\ GenInv /\ ExistsInv
  BY Counters, ThreadFacts, Zenon DEF IInv, TypeOK, ControlInv
<1>1. /\ Pending' \subseteq Pending /\ UNCHANGED <<reg, db, data, child, killed>>
      /\ Unmount => reg = "managed"
  BY Zenon DEF Unmount, RetryUnmount, Pending
<1>2. /\ entry'.generation = entry.generation + 1 /\ entry'.command = entry.command
      /\ entry'.unmounting
      /\ Unmount => entry'.attempt = (IF entry.unmounting THEN entry.attempt ELSE 1)
      /\ ~Unmount => entry'.attempt = entry.attempt + 1 /\ entry.unmounting
  <2>1. CASE Unmount
    BY <1>0, <2>1, Zenon DEF Unmount, TypeOK, Entries
  <2>2. CASE ~Unmount
    <3>1. PICK tm : RetryUnmount(tm)
      BY <2>2, Zenon
    <3>2. /\ entry' = [entry EXCEPT !.retryTimer = NoTimer, !.generation = @ + 1,
                                    !.attempt = @ + 1, !.state = "UNMOUNTING"]
          /\ entry.unmounting
      BY <3>1, Zenon DEF RetryUnmount
    <3> QED BY <1>0, <2>2, <3>2, Zenon DEF TypeOK, Entries
  <2> QED BY <2>1, <2>2, Zenon
<1>3. /\ OthersStay(Op)
      /\ pc'[Op] = "tombstone" \/ pc'[Op] = "clone"
  <2>1. CASE Unmount
    BY <1>0, <2>1, Zenon DEF Unmount, ThreadsOK, OthersStay
  <2>2. CASE \E tm : RetryUnmount(tm)
    BY <1>0, <2>2, MoveFacts, Zenon DEF RetryUnmount
  <2> QED BY <2>1, <2>2, Zenon
<1>4. ~Unmount => /\ reg = "managed" /\ db # NoRecord /\ entry.attempt < MaxAttempts
  <2> SUFFICES ASSUME NEW tm, RetryUnmount(tm)
               PROVE  reg = "managed" /\ db # NoRecord /\ entry.attempt < MaxAttempts
    BY Zenon
  <2>1. tm \in Pending /\ tm.gen = entry.generation /\ OperationFree
    BY Zenon DEF RetryUnmount, LockAndPersist, Pending
  <2>2. reg = "managed"
    <3>1. Exists
      BY <1>0, <2>1, Zenon DEF ExistsInv, Pending
    <3> QED BY <2>1, <3>1, Zenon DEF Exists, PromiseInv, AloneInv
  <2>3. pc[Op] = "idle"
    <3>1. Op # NoThread
      BY ThreadFacts, Zenon
    <3> QED BY <2>1, <3>1, Zenon DEF IInv, ControlInv, LockInv, OperationFree
  <2>4. db # NoRecord
    BY <2>1, <2>2, <2>3, Zenon DEF ProcessInv, RecordInv, NeverStarted
  <2> QED BY <2>1, <2>2, <2>4, Zenon DEF IInv, ControlInv, AttemptInv
<1>5. Settled' <=> Settled
  BY <1>1, <1>2, Zenon DEF Settled, Alive
<1>6. KeepsStep
  <2>1. CASE Unmount
    <3>1. Promise!AcceptUnmount
      BY <1>1, <1>2, <1>5, <2>1, Zenon DEF Promise!AcceptUnmount, IInv, TypeOK, Entries
    <3> QED BY <3>1, Zenon DEF KeepsStep, Promise!Next
  <2>2. CASE ~Unmount
    <3>1. Promise!Retry
      BY <1>1, <1>2, <1>4, <1>5, <2>2, Zenon DEF Promise!Retry
    <3> QED BY <3>1, Zenon DEF KeepsStep, Promise!Next
  <2> QED BY <2>1, <2>2, Zenon
<1>7. PromiseInv'
  <2>1. reg' = "managed" /\ pc'[Op] \notin {"delete", "unregister"}
    BY <1>1, <1>3, <1>4, Zenon
  <2>2. ASSUME NEW tm \in Pending' PROVE tm.gen # entry'.generation
    <3>1. tm.gen <= entry.generation
      BY <1>0, <1>1, Zenon DEF GenInv
    <3>2. tm.gen \in Nat
      BY <1>0, <1>1, GenTypes, Zenon DEF Pending
    <3> QED BY <1>0, <1>2, <3>1, <3>2
  <2>3. ASSUME NEW t \in Threads \ {Op}, t.gen = entry'.generation PROVE pc'[t] = "idle"
    <3>1. ~(t.gen <= entry.generation)
      BY <1>0, <1>2, <2>3
    <3>2. t \in Threads /\ t # Op
      BY Zenon
    <3>3. pc[t] = "idle"
      BY <1>0, <3>1, <3>2, Zenon DEF GenInv
    <3> QED BY <1>3, <3>2, <3>3, Zenon DEF OthersStay
  <2> QED BY <1>1, <1>2, <2>1, <2>2, <2>3, Zenon
          DEF PromiseInv, AloneInv, RemovedInv, FilesInv, StartedInv
<1>8. ProcessInv'
  BY UnmountProcess, Zenon
<1> QED BY <1>6, <1>7, <1>8, Zenon DEF Sound

\* startMount runs the command of an attempt that has no process, for a mount
\* that has its record.
LEMMA StartSound ==
  ASSUME IInv, IInv', ProcessInv, PromiseInv, StartCommand PROVE Sound
<1>0. /\ TypeOK /\ ThreadsOK /\ Op \in Threads /\ pc[Op] = "start" /\ Starting
      /\ reg = "managed" /\ entry.generation \in Gens /\ entry.generation # 0
  <2>1. pc[Op] = "start"
    BY Zenon DEF StartCommand
  <2>2. entry.generation \in Gens
    BY <2>1, OpGeneration, Zenon
  <2>3. entry.generation # 0
    BY <2>2 DEF Gens
  <2> QED BY <2>1, <2>2, <2>3, OpPlace, OpManaged, ThreadFacts, Zenon DEF IInv, TypeOK
<1>1. /\ entry.command = 0 /\ ~entry.unmounting /\ Settled /\ db # NoRecord
      /\ entry.generation \notin killed
  <2>1. ~Stopping
    BY <1>0, OpPlace, Zenon
  <2>2. db # NoRecord
    BY <1>0, <2>1, Zenon DEF ProcessInv, RecordInv, NeverStarted, OpUnstarted
  <2> QED BY <1>0, <2>2, Zenon DEF ProcessInv, CommandInv, ChildInv, IInv, ControlInv,
                                   UnmountInv, Settled, PromiseInv, StartedInv
<1>2. /\ child' = [child EXCEPT ![entry.generation] = "starting"]
      /\ data' = MadeData /\ UNCHANGED <<reg, db, killed>> /\ Persist(Op, "spawn")
  BY Zenon DEF StartCommand
<1>3. /\ entry'.command = entry.generation /\ entry'.attempt = entry.attempt
      /\ entry'.unmounting = entry.unmounting
  BY <1>0, Zenon DEF StartCommand, TypeOK, Entries
<1>4. /\ child'[entry.generation] = "starting"
      /\ \A g \in Gens : g # entry.generation => child'[g] = child[g]
  BY <1>0, <1>2, Zenon DEF TypeOK
<1>5. ~Settled' /\ data' # "none"
  <2>1. Alive(entry.command)'
    BY <1>3, <1>4, Zenon DEF Alive
  <2>2. data' # "none"
    BY <1>2, Zenon DEF MadeData
  <2> QED BY <1>0, <1>1, <1>2, <1>3, <2>1, <2>2, Zenon DEF Settled
<1>6. Promise!Start
  BY <1>0, <1>1, <1>2, <1>3, <1>5, Zenon DEF Promise!Start, Promise!CanStart
<1>7. PromiseInv'
  <2>1. pc'[Op] = "clone" /\ then'[Op] = "spawn"
    BY <1>0, <1>2, MoveFacts, Zenon
  <2>2. ~OpUnmounting' /\ pc'[Op] \notin {"delete", "unregister"}
    BY <2>1, Zenon DEF OpUnmounting, OpAt
  <2>3. killed \subseteq Gens
    BY <1>0, Zenon DEF TypeOK
  <2>4. StartedInv'
    BY <1>2, <1>3, <1>4, <2>3, Zenon DEF PromiseInv, StartedInv
  <2> QED BY <1>0, <1>2, <2>2, <2>4, Zenon DEF PromiseInv, AloneInv, RemovedInv, FilesInv
<1>8. ProcessInv'
  BY StartProcess, Zenon
<1> QED BY <1>6, <1>7, <1>8, Zenon DEF Sound, KeepsStep, Promise!Next

LEMMA SpawnSound ==
  ASSUME IInv, ProcessInv, PromiseInv, SpawnWaiters PROVE Sound
<1>0. ThreadsOK /\ Op \in Threads /\ pc[Op] = "spawn" /\ reg = "managed"
  <2>1. pc[Op] = "spawn"
    BY Zenon DEF SpawnWaiters
  <2> QED BY <2>1, OpManaged, ThreadFacts, Zenon DEF IInv, TypeOK
<1>1. UNCHANGED <<entry, reg, db, data, child, killed>>
  BY Zenon DEF SpawnWaiters
<1>2. pc'[Op] = "idle"
  <2>1. entry.generation \in Gens
    BY <1>0, OpGeneration, Zenon
  <2> QED BY <1>0, <2>1, ThreadFacts DEF SpawnWaiters, ThreadsOK
<1>3. ~OpUnmounting'
  BY <1>2, Zenon DEF OpUnmounting, OpAt
<1>4. PromiseInv'
  BY <1>0, <1>1, <1>2, <1>3, Zenon
     DEF PromiseInv, AloneInv, RemovedInv, FilesInv, StartedInv
<1>5. KeepsStep
  <2>1. Settled' <=> Settled
    BY <1>1, Zenon DEF Settled, Alive
  <2> QED BY <1>1, <2>1, RunStep, Zenon
<1>6. ProcessInv'
  BY SpawnProcess, Zenon
<1> QED BY <1>4, <1>5, <1>6, Zenon DEF Sound

LEMMA ExitSound ==
  ASSUME IInv, ProcessInv, PromiseInv, DaemonExit PROVE Sound
<1>1. pc'[Op] = "idle" /\ reg' = "down" /\ UNCHANGED <<db, data, child, killed>>
  BY ThreadFacts, Zenon DEF DaemonExit
<1>2. entry'.command = 0 /\ entry'.attempt = 1 /\ entry'.unmounting = FALSE
  BY Zenon DEF DaemonExit, NewEntry
<1>3. ~OpUnmounting' /\ Settled'
  BY <1>1, <1>2, Zenon DEF OpUnmounting, OpAt, Settled
<1>4. PromiseInv'
  BY <1>1, <1>2, <1>3, Zenon DEF PromiseInv, AloneInv, RemovedInv, FilesInv, StartedInv
<1>5. Promise!Exit
  BY <1>1, <1>2, <1>3, Zenon DEF Promise!Exit
<1>6. ProcessInv'
  BY ExitProcess, Zenon
<1> QED BY <1>4, <1>5, <1>6, Zenon DEF Sound, KeepsStep, Promise!Next

\* Nothing of the call or of a goroutine moves.
LEMMA QuietPromise ==
  ASSUME IInv, IInv', ProcessInv, PromiseInv, SameProcess, UNCHANGED <<pc, then, killed>>,
         Pending' \subseteq Pending, reg' = "removed" => reg = "removed",
         data = "none" => data' = "none",
         \A g \in Gens : child[g] # "none" => child'[g] # "none"
  PROVE  PromiseInv'
<1>1. Op \in Threads /\ OthersStay(Op) /\ ArmsOnly(Op) /\ (OpUnmounting' <=> OpUnmounting)
  BY ThreadFacts, Zenon DEF OthersStay, ArmsOnly, OpUnmounting, OpAt
<1>2. pc'[Op] \in {"delete", "unregister"} => data' = "none"
  BY Zenon DEF PromiseInv, FilesInv
<1> QED BY <1>1, <1>2, MovePromise, Zenon

\* Restart and PeriodicReconcile find no process that is the daemon's.
LEMMA QuietSound ==
  ASSUME IInv, IInv', ProcessInv, PromiseInv,
         \/ \E tm : TimerFires(tm) \/ RetryIgnored(tm)
         \/ ShutdownBegin \/ (ShutdownLock /\ entry.unmounting)
         \/ Restart \/ PeriodicReconcile \/ CacheSynchronised
  PROVE  Sound
<1>1. UNCHANGED <<pc, then, child, killed, restarts>>
  BY Zenon DEF TimerFires, RetryIgnored, ShutdownBegin, ShutdownLock, Restart,
               PeriodicReconcile, CacheSynchronised, threadVars
<1>2. entry' = entry \/ entry' = [entry EXCEPT !.retryTimer = NoTimer]
  BY Zenon DEF TimerFires, RetryIgnored, ShutdownBegin, ShutdownLock, Restart,
               PeriodicReconcile, CacheSynchronised
<1>3. SameAttempt /\ entry'.command = entry.command /\ entry'.unmounting = entry.unmounting
  BY <1>2, Zenon DEF IInv, TypeOK, Entries, SameAttempt
<1>4. SameProcess /\ (Settled' <=> Settled) /\ entry'.attempt = entry.attempt
  BY <1>1, <1>3, Zenon DEF SameProcess, SameAttempt, Settled, Alive
<1>5. Pending' \subseteq Pending
  BY Zenon DEF TimerFires, RetryIgnored, ShutdownBegin, ShutdownLock, Restart,
               PeriodicReconcile, CacheSynchronised, Pending
<1>6. CASE Restart \/ PeriodicReconcile
  <2>1. /\ reg # "managed"
        /\ reg' = IF reg = "down" THEN "absent" ELSE reg
        /\ Settled
    BY <1>6, Zenon DEF Restart, PeriodicReconcile, NotManaged, ProcessInv, CommandInv,
                       Exists, Settled, PromiseInv, RemovedInv
  <2>2. /\ data = "none" => data' = "none"
        /\ \/ db' = db /\ (data' = "none" <=> data = "none")
           \/ db # NoRecord /\ data' = "none" /\ db' \in {db, NoRecord}
    <3>1. CASE UNCHANGED <<data, db>>
      BY <3>1, Zenon
    <3>2. CASE db' = db /\ \E result \in {"failed", "lazy"} : Clearing(client, result)
      BY <3>2, Zenon DEF Clearing, Unmounting
    <3>3. CASE db # NoRecord /\ data' = "none" /\ db' \in {db, NoRecord}
      BY <3>3, Zenon
    <3> QED BY <1>6, <3>1, <3>2, <3>3, Zenon DEF Restart, PeriodicReconcile, ReconcileTombstone
  <2>3. reg' = "removed" => reg = "removed"
    BY <2>1, Zenon
  <2>4. Promise!Reconcile
    <3>1. CASE db' = db /\ (data' = "none" <=> data = "none")
      BY <1>3, <1>4, <2>1, <3>1, Zenon DEF Promise!Reconcile
    <3>2. CASE db # NoRecord /\ data' = "none" /\ db' \in {db, NoRecord}
      BY <1>3, <1>4, <2>1, <3>2, Zenon DEF Promise!Reconcile
    <3> QED BY <2>2, <3>1, <3>2, Zenon
  <2>5. PromiseInv'
    BY <1>1, <1>4, <1>5, <2>2, <2>3, QuietPromise, Zenon
  <2> QED BY <2>4, <2>5, QuietProcess, Zenon DEF Sound, KeepsStep, Promise!Next
<1>7. CASE ~(Restart \/ PeriodicReconcile)
  <2>1. reg' = reg /\ db' = db /\ (data' = "none" <=> data = "none")
    BY <1>7, Zenon
       DEF TimerFires, RetryIgnored, ShutdownBegin, ShutdownLock, CacheSynchronised
  <2>2. PromiseInv'
    BY <1>1, <1>4, <1>5, <2>1, QuietPromise, Zenon
  <2>3. KeepsStep
    BY <1>3, <1>4, <2>1, RunStep, Zenon
  <2> QED BY <2>2, <2>3, QuietProcess, Zenon DEF Sound
<1> QED BY <1>6, <1>7, Zenon

LEMMA ChildSound ==
  ASSUME IInv, IInv', ProcessInv, PromiseInv, NEW g \in Gens, ChildMounts(g) \/ ChildExits(g)
  PROVE  Sound
<1>1. UNCHANGED <<entry, reg, pc, then, armed, fired, db, killed, data, restarts>>
  BY Zenon DEF ChildMounts, ChildExits, threadVars
<1>2. child[g] \in {"starting", "serving"} /\ child'[g] # "none"
  BY Zenon DEF ChildMounts, ChildExits, Alive, IInv, TypeOK
<1>3. \A h \in Gens : h # g => child'[h] = child[h]
  BY Zenon DEF ChildMounts, ChildExits, IInv, TypeOK
<1>4. SameProcess /\ Pending' \subseteq Pending
  BY <1>1, <1>2, <1>3, Zenon DEF SameProcess, SameAttempt, Alive, Pending
<1>5. PromiseInv'
  BY <1>1, <1>2, <1>3, <1>4, QuietPromise, Zenon
<1>6. KeepsStep
  <2>1. Settled => Settled'
    BY <1>4, SettledStays, Zenon DEF IInv
  <2> QED BY <1>1, <2>1, RunStep, Zenon
<1> QED BY <1>5, <1>6, ChildProcess, Zenon DEF Sound

-----------------------------------------------------------------------------
(* All actions.                                                            *)

\* Every step preserves the invariants and is one of ManagedMount.
LEMMA NextSound ==
  IInv /\ IInv' /\ ProcessInv /\ PromiseInv /\ [Next]_vars => Sound
<1> SUFFICES ASSUME IInv, IInv', ProcessInv, PromiseInv, [Next]_vars PROVE Sound
  OBVIOUS
<1>1. Op \in Threads /\ \A g \in Gens : /\ Proc(g) \in Threads /\ Proc(g) # Op
                                       /\ Watch(g) \in Threads /\ Watch(g) # Op
  BY ThreadFacts, Zenon
<1>2. ASSUME OpStep PROVE Sound
  <2>1. KillProcess => pc[Op] \in {"wait", "stopwait"}
    BY Zenon DEF KillProcess
  <2> QED BY <1>1, <1>2, <2>1, StartSound, SpawnSound, StartMoves, RollbackMove,
             UnmountMoves, ShutdownMoves, PersistProcess, Zenon DEF OpStep
<1>3. ASSUME NEW g \in Gens, ProcStep(g) PROVE Sound
  BY <1>1, <1>3, ProcProcess, RecordProcess, PersistProcess, Zenon DEF ProcStep
<1>4. ASSUME NEW g \in Gens, WatchStep(g) PROVE Sound
  BY <1>1, <1>4, WatchProcess, RecordProcess, PersistProcess, Zenon DEF WatchStep
<1>5. ASSUME NEW g \in Gens, TimerStep(g) PROVE Sound
  BY <1>5, QuietSound, RetryMountSound, UnmountSound, Zenon DEF TimerStep
<1>6. ASSUME ShutdownLock PROVE Sound
  BY <1>6, QuietSound, ShutdownMoves, Zenon
<1>7. ASSUME DaemonStep PROVE Sound
  BY <1>2, <1>3, <1>4, <1>5, <1>6, <1>7, Zenon DEF DaemonStep
<1>8. ASSUME UNCHANGED vars PROVE Sound
  <2>1. UNCHANGED <<entry, reg, pc, then, rec, armed, fired, closed, db, child, killed,
                    data, stop, restarts>>
    BY <1>8, Zenon DEF vars, threadVars
  <2>2. SameProcess /\ Pending' = Pending
    BY <2>1, Zenon DEF SameProcess, SameAttempt, Alive, Pending
  <2>3. ProcessInv'
    BY <2>1, <2>2, QuietKeeps, Zenon
  <2>4. PromiseInv'
    BY <2>1, <2>2, QuietPromise, Zenon
  <2>5. KeepsStep
    <3>1. Settled => Settled'
      BY <2>2, SettledStays, Zenon DEF IInv
    <3> QED BY <2>1, <3>1, RunStep, Zenon
  <2> QED BY <2>3, <2>4, <2>5, Zenon DEF Sound
<1> QED BY <1>7, <1>8, MountSound, UnmountSound, QuietSound, ExitSound,
           ChildSound, Zenon DEF Next

-----------------------------------------------------------------------------
(* The theorems, for any clients, limits, policies and faults.             *)

\* entry.command, the child processes, the record and the data directory stay
\* in step with the goroutines in every reachable state, and a mount that is
\* being unmounted, or is gone, is left alone by what earlier attempts left.
THEOREM ProcessInvHolds == Spec => [](IInv /\ ProcessInv /\ PromiseInv)
<1>1. Init => IInv /\ ProcessInv /\ PromiseInv
  <2>1. Init => PromiseInv
    <3> SUFFICES ASSUME Init PROVE PromiseInv
      OBVIOUS
    <3>1. reg = "absent" /\ pc[Op] = "idle" /\ entry.command = 0 /\ killed = {}
      BY ThreadFacts, Zenon DEF Init, NewEntry
    <3> QED BY <3>1, Zenon DEF PromiseInv, AloneInv, RemovedInv, FilesInv, StartedInv,
                               OpUnmounting, OpAt
  <2> QED BY <2>1, InitIInv, InitProcess, Zenon
<1>2. IInv /\ ProcessInv /\ PromiseInv /\ [Next]_vars => IInv' /\ ProcessInv' /\ PromiseInv'
  BY NextIInv, NextSound, Zenon DEF Sound
<1> QED BY <1>1, <1>2, PTL DEF Spec

\* The goroutines, timers, callers and restarts of mount_manager.go implement
\* ManagedMount: a client process is started only for a mount that is recorded,
\* not being unmounted and without a process; the files go, and then the record,
\* only when there is none; attempts are counted; a removed mount stays removed.
THEOREM EntryKeepsPromise == Spec => KeepsPromise
<1>1. Init => Promise!Init
  <2> SUFFICES ASSUME Init PROVE Promise!Init
    OBVIOUS
  <2>1. /\ entry.command = 0 /\ entry.attempt = 1 /\ entry.unmounting = FALSE
        /\ reg = "absent" /\ db = NoRecord /\ data = "none"
    BY Zenon DEF Init, NewEntry
  <2>2. Settled
    BY <2>1, Zenon DEF Settled
  <2> QED BY <2>1, <2>2, Zenon DEF Promise!Init
<1>2. IInv /\ ProcessInv /\ PromiseInv /\ [Next]_vars => [Promise!Next]_(Promise!vars)
  BY NextIInv, NextSound, Zenon DEF Sound, KeepsStep
<1> QED BY <1>1, <1>2, ProcessInvHolds, PTL DEF Spec, KeepsPromise, Promise!Spec

\* While the client process of a managed mount runs and nobody has killed it,
\* the repository has the record to restore it from and its data directory is
\* in place: performUnmountAttempt removes both only after exitDone, and
\* handleMountTimeout only after Kill.
THEOREM RunningChildRecorded == Spec => []RunningChildIsRecorded
<1>1. ProcessInv => RunningChildIsRecorded
  <2> SUFFICES ASSUME ProcessInv, reg = "managed", entry.command # 0,
                      Alive(entry.command), entry.command \notin killed
               PROVE  db # NoRecord /\ data # "none"
    BY Zenon DEF RunningChildIsRecorded
  <2>1. ~Settled
    BY Zenon DEF Settled
  <2>2. data # "none"
    BY <2>1, Zenon DEF ProcessInv, DataInv
  <2>3. db # NoRecord
    <3>1. ~NeverStarted
      BY Zenon DEF NeverStarted
    <3>2. pc[Op] # "unregister"
      BY <2>1, Zenon DEF ProcessInv, SettledInv
    <3> QED BY <3>1, <3>2, Zenon DEF ProcessInv, RecordInv
  <2> QED BY <2>2, <2>3, Zenon
<1> QED BY <1>1, ProcessInvHolds, PTL

\* A daemon that was never restarted has one client process per mount: any
\* other that is still there was killed before the attempt that replaced it
\* (retryMount resets entry.command only after recordMountFailure).
THEOREM OneClientAlive == Spec => []OneLiveClient
<1>1. ProcessInv => OneLiveClient
  BY Zenon DEF ProcessInv
<1> QED BY <1>1, ProcessInvHolds, PTL

\* When the repository does not fail and no caller leaves, shutdownEntry and
\* whatever still runs after it leave the record of a mount in place and without
\* a tombstone, so that the next start restores it.
THEOREM ShutdownIntent == NoRollback => (Spec => ShutdownKeepsIntent)
<1> SUFFICES ASSUME NoRollback PROVE Spec => ShutdownKeepsIntent
  OBVIOUS
<1>1. ASSUME IInv, ProcessInv, [Next]_vars,
             stop = "stopping" \/ (stop = "done" /\ ~entry.unmounting),
             db # NoRecord, ~db.tomb
      PROVE  db' # NoRecord /\ ~db'.tomb
  <2>1. ~entry.unmounting /\ ~OpUnmounting
    BY <1>1, Zenon DEF IInv, ControlInv, UnmountInv, ProcessInv, IntentInv, MarkInv
  <2>2. pc[Op] \notin {"tombstone", "delete"}
    BY <2>1, OpPlace, Zenon
  <2>3. ASSUME NEW t \in Threads, PersistStep(t) PROVE db' # NoRecord /\ ~db'.tomb
    <3>1. db' = db \/ (pc[t] = "write" /\ db' = rec[t])
      BY <2>3, Zenon DEF PersistStep, CloneRecord, WriteRecord, ArmTimer, StoreTimer
    <3>2. pc[t] = "write" => rec[t].attempt # 0 /\ ~rec[t].tomb
      BY <1>1, <2>1, Zenon DEF ProcessInv, AttemptsCounted, IntentInv
    <3>3. NoRecord.attempt = 0
      BY Zenon DEF NoRecord
    <3> QED BY <1>1, <3>1, <3>2, <3>3, Zenon
  <2>4. ASSUME OpStep PROVE db' # NoRecord /\ ~db'.tomb
    <3>1. PersistStep(Op) \/ db' = db
      BY <1>1, <2>2, <2>4, Zenon
         DEF OpStep, CreateRecord, CreateFails, StartCommand, SpawnWaiters, StartFails,
             StartTooLate, WriteTombstone, TombstoneFails, UnmountPath, UnmountFails,
             ProcessExited, KillProcess, RemoveData, DeleteRecord, Unregister, StopPath,
             StopExited, ShutdownDone
    <3> QED BY <1>1, <2>3, <3>1, ThreadFacts, Zenon
  <2>5. ASSUME NEW g \in Gens, ProcStep(g) \/ WatchStep(g) PROVE db' # NoRecord /\ ~db'.tomb
    <3>1. PersistStep(Proc(g)) \/ PersistStep(Watch(g)) \/ db' = db
      BY <2>5, Zenon
         DEF ProcStep, WatchStep, ReapProcess, CleanUpCrash, RecordFailure, WatchProbe,
             WatchSeen, WatchExit, WatchDeadline, HandleMountTimeout, CleanUpTimeout
    <3> QED BY <1>1, <2>3, <3>1, ThreadFacts, Zenon
  <2>6. ASSUME \/ \E g \in Gens : TimerStep(g) \/ ChildMounts(g) \/ ChildExits(g)
               \/ Mount \/ Unmount \/ ShutdownBegin \/ ShutdownLock \/ DaemonExit
               \/ Restart \/ Remount \/ PeriodicReconcile \/ CacheSynchronised
               \/ UNCHANGED vars
        PROVE  db' = db
    <3>1. CASE Restart \/ PeriodicReconcile
      BY <1>1, <3>1, Zenon DEF Restart, PeriodicReconcile
    <3>2. CASE \E g \in Gens : TimerStep(g) \/ ChildMounts(g) \/ ChildExits(g)
      BY <3>2, Zenon DEF TimerStep, TimerFires, RetryIgnored, RetryMount, RetryUnmount,
                         ChildMounts, ChildExits
    <3>3. CASE \/ Mount \/ Unmount \/ ShutdownBegin \/ ShutdownLock \/ DaemonExit
               \/ Remount \/ CacheSynchronised \/ UNCHANGED vars
      BY <3>3, Zenon DEF Mount, Unmount, ShutdownBegin, ShutdownLock, DaemonExit, Remount,
                         CacheSynchronised, vars
    <3> QED BY <2>6, <3>1, <3>2, <3>3, Zenon
  <2> QED BY <1>1, <2>4, <2>5, <2>6, Zenon DEF Next, DaemonStep
<1>2. IInv /\ ProcessInv /\ [Next]_vars =>
        [/\ stop = "stopping" \/ (stop = "done" /\ ~entry.unmounting)
         /\ db # NoRecord /\ ~db.tomb
         => db' # NoRecord /\ ~db'.tomb]_vars
  BY <1>1, Zenon
<1> QED BY <1>2, ProcessInvHolds, PTL DEF Spec, ShutdownKeepsIntent
=============================================================================
