-------------------------- MODULE MountProcessSteps --------------------------
(***************************************************************************)
(* What a step may do to the client process of a mount, its record and its *)
(* data directory without breaking ProcessInv.  MoveKeeps covers every     *)
(* step that leaves entry.command alone, whoever takes it; the attempts    *)
(* that begin, the start of the process and the exit of the daemon come    *)
(* one by one.  MovePromise and RunStep say the same of PromiseInv and of  *)
(* the steps of ManagedMount.  MountProcessProofs has the other actions    *)
(* and the theorems.                                                       *)
(***************************************************************************)
EXTENDS MountEntryLemmas

USE DEF callVars, timerVars, systemVars, daemonVars, otherVars

\* The entry keeps its process; processes only end.
SameProcess ==
  /\ SameAttempt
  /\ entry'.command = entry.command
  /\ killed \subseteq killed'
  /\ \A g \in Gens : /\ Alive(g)' => Alive(g)
                     /\ child[g] = "none" => child'[g] = "none"
  /\ restarts' = restarts

\* What a waiter may do.
WaiterCourse(t) ==
  /\ pc[t] # "idle"
  /\ Reports(t)' /\ (t.gen = entry.generation \/ pc'[t] = "reap") => Settled'
  /\ entry'.unmounting = entry.unmounting
  /\ stop' = stop /\ reg' = reg

\* What the Op call may do, and what happens to it when others move.
OpCourse ==
  /\ (Starting' => Starting) /\ (Spawning' => Spawning)
  /\ OpUnstarted => OpUnstarted' \/ db' # NoRecord
  /\ pc[Op] = "unregister" => pc'[Op] = "unregister" \/ reg' # "managed"
  /\ Carries(Op)' /\ ~entry'.unmounting => Settled'
  /\ pc'[Op] \in {"remove", "delete", "unregister"} => Settled'
  /\ OpUnmounting' => entry'.unmounting
  /\ stop' = "stopping" => Stopping'
  /\ pc'[Op] = "tombstone" => pc[Op] = "tombstone" /\ reg' = reg
  /\ entry.unmounting => \/ entry'.unmounting
                         \/ NoRollback => \A t \in Threads : pc'[t] # "write"

\* What may become of records and files.
StoreCourse ==
  /\ \A t \in Threads : pc'[t] \in {"write", "tombstone"} =>
       \/ pc[t] = pc'[t] /\ rec'[t] = rec[t]
       \/ rec'[t] = CurrentRecord
  /\ \/ db' = db
     \/ db'.attempt # 0
     \/ db' = NoRecord /\ (reg' # "managed" \/ pc'[Op] = "unregister")
  /\ data' = "none" => data = "none" \/ Settled' \/ reg' # "managed"

RegistryCourse ==
  /\ Exists => Exists'
  /\ reg' = "managed" => reg = "managed"
  /\ reg' = "removed" => entry'.unmounting

\* The process an entry names is one of its generations.
LEMMA CommandType ==
  ASSUME TypeOK PROVE entry.command = 0 \/ entry.command \in Gens
BY BoundsAssumption DEF TypeOK, Entries, Gens

\* A process that is over or killed stays so.
LEMMA SettledStays == ASSUME TypeOK, SameProcess, Settled PROVE Settled'
BY CommandType, Zenon DEF SameProcess, Settled

\* A waiter leaves the Op call where it is.
LEMMA WaiterLeavesOp ==
  ASSUME TypeOK, ProcessInv, SameProcess, NEW t \in Threads, t # Op,
         OthersStay(t), WaiterCourse(t)
  PROVE  OpCourse
<1>1. pc'[Op] = pc[Op] /\ then'[Op] = then[Op]
  BY ThreadFacts, Zenon DEF OthersStay
<1>2. /\ Starting' <=> Starting
      /\ Spawning' <=> Spawning
      /\ Stopping' <=> Stopping
      /\ OpUnmounting' <=> OpUnmounting
      /\ Carries(Op)' <=> Carries(Op)
  BY <1>1, Zenon DEF Starting, Spawning, Stopping, OpUnmounting, OpAt, Carries
<1>3. OpUnstarted' <=> OpUnstarted
  BY <1>1, <1>2, Zenon DEF OpUnstarted
<1>4. Settled => Settled'
  BY SettledStays, Zenon
<1>5. /\ Carries(Op)' /\ ~entry'.unmounting => Settled'
      /\ pc'[Op] \in {"remove", "delete", "unregister"} => Settled'
  BY <1>1, <1>2, <1>4, Zenon DEF ProcessInv, SettledInv, WaiterCourse
<1>6. OpUnmounting' => entry'.unmounting
  BY <1>2, Zenon DEF ProcessInv, MarkInv, WaiterCourse
<1>7. stop' = "stopping" => Stopping'
  BY <1>2, Zenon DEF ProcessInv, IntentInv, WaiterCourse
<1> QED BY <1>1, <1>2, <1>3, <1>5, <1>6, <1>7, Zenon DEF OpCourse, WaiterCourse

\* The timers that t may arm.
ArmsOnly(t) ==
  \A tm \in Pending' : tm \in Pending \/ (Carries(t) /\ pc'[t] # "idle" /\ tm = TimerOf(t))

\* A step that leaves entry.command alone.
LEMMA MoveKeeps ==
  ASSUME IInv, IInv', ProcessInv, NEW t \in Threads, OthersStay(t), SameProcess,
         t = Op => OpCourse,
         t # Op => WaiterCourse(t),
         ArmsOnly(t), StoreCourse, RegistryCourse,
         \A g \in closed' : g \in closed \/ ~Alive(g)
  PROVE  ProcessInv'
<1>0. /\ TypeOK /\ TypeOK' /\ OpCourse /\ (Settled => Settled')
      /\ Op \in Threads
      /\ entry'.generation = entry.generation
      /\ entry'.exitDone = entry.exitDone
      /\ entry'.attempt = entry.attempt
      /\ entry'.command = entry.command
  BY WaiterLeavesOp, SettledStays, ThreadFacts, Zenon DEF IInv, SameProcess, SameAttempt
<1>r. CurrentRecord.attempt = entry.attempt /\ CurrentRecord.tomb = entry.unmounting
  BY Zenon DEF CurrentRecord
<1>1. \A u \in Threads : u # Op /\ pc[u] = "idle" => pc'[u] = "idle"
  BY Zenon DEF OthersStay, WaiterCourse
<1>2. CommandInv'
  <2>1. ~Exists' \/ Starting' => entry.command = 0
    BY <1>0, Zenon DEF ProcessInv, CommandInv, OpCourse, RegistryCourse
  <2>2. \A g \in Gens : pc'[Proc(g)] # "idle" => pc[Proc(g)] # "idle"
    BY <1>1, ThreadFacts, Zenon
  <2> QED BY <1>0, <2>1, <2>2, Zenon DEF ProcessInv, CommandInv, OpCourse
<1>3. ChildInv'
  <2>1. closed' \subseteq Gens
    BY <1>0, Zenon DEF TypeOK
  <2>2. Starting' => child'[entry.generation] = "none"
    <3>1. Starting => entry.generation \in Gens
      BY OpGeneration, Zenon DEF Starting, OpAt
    <3> QED BY <1>0, <3>1, Zenon DEF ProcessInv, ChildInv, OpCourse, SameProcess
  <2> QED BY <1>0, <2>1, <2>2, Zenon DEF ProcessInv, ChildInv, SameProcess
<1>4. \A tm \in Pending' : tm.gen = entry.generation =>
        tm \in Pending \/ (tm = TimerOf(t) /\ Carries(t) /\ ~Starting' /\ ~Spawning')
  <2>1. CASE t = Op
    <3>1. Carries(t) => ~Starting /\ ~Spawning
      BY <2>1, Zenon DEF Carries, Starting, Spawning, OpAt
    <3> QED BY <1>0, <3>1, Zenon DEF ArmsOnly, OpCourse
  <2>2. CASE t # Op
    <3>1. PICK g \in Gens : t = Proc(g) \/ t = Watch(g)
      BY <2>2, ThreadFacts, Zenon
    <3>2. TimerOf(t).gen = g
      BY <2>2, <3>1, ThreadFacts, Zenon DEF TimerOf, Timer, GenerationOf
    <3>3. g = entry.generation /\ (Starting \/ Spawning) => pc[t] = "idle"
      BY <3>1, Zenon DEF IInv, ControlInv, ExitInv, ProcessInv, FreshInv
    <3>4. pc[t] # "idle"
      BY <2>2, Zenon DEF WaiterCourse
    <3> QED BY <1>0, <3>2, <3>3, <3>4, Zenon DEF ArmsOnly, OpCourse
  <2> QED BY <2>1, <2>2, Zenon
<1>5. FreshInv'
  <2>1. Starting' \/ Spawning' => entry.generation \in Gens /\ (Starting \/ Spawning)
    BY <1>0, OpGeneration, Zenon DEF OpCourse, Starting, Spawning, OpAt
  <2>2. Starting' \/ Spawning' => pc'[Watch(entry.generation)] = "idle"
    BY <1>1, <2>1, ThreadFacts, Zenon DEF ProcessInv, FreshInv
  <2> QED BY <1>0, <1>4, <2>1, <2>2, Zenon DEF ProcessInv, FreshInv
<1>6. MarkInv'
  BY <1>0, Zenon DEF MarkInv, OpCourse, RegistryCourse
<1>7. SettledInv'
  <2>1. ASSUME NEW tm \in Pending', tm.by # "unmount", tm.gen = entry.generation
        PROVE  Settled'
    <3>1. CASE tm \in Pending
      BY <1>0, <2>1, <3>1, Zenon DEF ProcessInv, SettledInv
    <3>2. CASE tm = TimerOf(t) /\ Carries(t)
      <4>1. CASE t = Op
        <5>1. ~entry.unmounting
          BY <2>1, <3>2, <4>1, Zenon DEF TimerOf, Timer, TimerKind
        <5> QED BY <1>0, <3>2, <4>1, <5>1, Zenon DEF ProcessInv, SettledInv
      <4>2. CASE t # Op
        <5>1. t.gen = entry.generation
          BY <2>1, <3>2, <4>2, Zenon DEF TimerOf, Timer, GenerationOf
        <5>2. Reports(t)
          BY <3>2, Zenon DEF Reports
        <5> QED BY <1>0, <4>2, <5>1, <5>2, Zenon DEF ProcessInv, SettledInv
      <4> QED BY <4>1, <4>2, Zenon
    <3> QED BY <1>4, <2>1, <3>1, <3>2, Zenon
  <2>2. ASSUME NEW u \in Threads, u # Op, Reports(u)',
               u.gen = entry.generation \/ pc'[u] = "reap"
        PROVE  Settled'
    <3>1. CASE u = t
      BY <2>2, <3>1, Zenon DEF WaiterCourse
    <3>2. CASE u # t
      <4>1. pc'[u] = pc[u] /\ Reports(u)
        BY <2>2, <3>2, Zenon DEF OthersStay, Reports, Carries
      <4> QED BY <1>0, <2>2, <4>1, Zenon DEF ProcessInv, SettledInv
    <3> QED BY <3>1, <3>2, Zenon
  <2> QED BY <1>0, <2>1, <2>2, Zenon DEF SettledInv, OpCourse
<1>8. AttemptsCounted'
  <2>1. ASSUME NEW u \in Threads, pc'[u] \in {"write", "tombstone"}
        PROVE  rec'[u].attempt # 0
    <3>1. CASE pc[u] = pc'[u] /\ rec'[u] = rec[u]
      BY <2>1, <3>1, Zenon DEF ProcessInv, AttemptsCounted
    <3>2. CASE rec'[u] = CurrentRecord
      BY <1>r, <3>2, Zenon DEF ProcessInv, AttemptsCounted
    <3> QED BY <2>1, <3>1, <3>2, Zenon DEF StoreCourse
  <2> QED BY <1>0, <2>1, Zenon DEF ProcessInv, AttemptsCounted, StoreCourse
<1>9. RecordInv'
  <2> SUFFICES ASSUME reg' = "managed", db' = NoRecord, pc'[Op] # "unregister"
               PROVE  NeverStarted'
    BY Zenon DEF RecordInv
  <2>1. db = NoRecord /\ reg = "managed"
    BY Zenon DEF StoreCourse, RegistryCourse, NoRecord
  <2>2. NeverStarted
    BY <1>0, <2>1, Zenon DEF ProcessInv, RecordInv, OpCourse
  <2>3. t = Op
    BY <2>2, Zenon DEF NeverStarted, WaiterCourse
  <2>4. ~Carries(Op)
    BY <2>2, Zenon DEF NeverStarted, OpUnstarted, Stopping, OpAt, Carries
  <2>5. Pending' = {}
    BY <2>2, <2>3, <2>4, Zenon DEF NeverStarted, ArmsOnly
  <2> QED BY <1>0, <1>1, <2>2, <2>5, Zenon DEF NeverStarted, OpCourse
<1>10. DataInv'
  BY <1>0, Zenon DEF ProcessInv, DataInv, StoreCourse, RegistryCourse
<1>11. IntentInv'
  <2>1. ASSUME NoRollback, NEW u \in Threads, pc'[u] = "write", rec'[u].tomb
        PROVE  entry'.unmounting
    <3>1. entry.unmounting
      <4>1. CASE pc[u] = pc'[u] /\ rec'[u] = rec[u]
        BY <2>1, <4>1, Zenon DEF ProcessInv, IntentInv
      <4>2. CASE rec'[u] = CurrentRecord
        BY <1>r, <2>1, <4>2, Zenon
      <4> QED BY <2>1, <4>1, <4>2, Zenon DEF StoreCourse
    <3> QED BY <1>0, <2>1, <3>1, Zenon DEF OpCourse
  <2> QED BY <1>0, <2>1, Zenon DEF IntentInv, OpCourse, ProcessInv
<1>12. OneLiveClient'
  BY <1>0, Zenon DEF ProcessInv, OneLiveClient, SameProcess
<1> QED BY <1>2, <1>3, <1>5, <1>6, <1>7, <1>8, <1>9, <1>10, <1>11, <1>12, Zenon
        DEF ProcessInv
\* What a generation is compared with when the next one begins.
LEMMA NextGeneration ==
  ASSUME IInv, entry.generation < MaxGen
  PROVE  /\ entry.generation + 1 \in Gens /\ entry.generation + 1 # 0
         /\ \A t \in Threads : t.gen = entry.generation + 1 => pc[t] = "idle"
         /\ \A g \in Gens : g = entry.generation + 1 =>
              pc[Proc(g)] = "idle" /\ pc[Watch(g)] = "idle"
         /\ \A tm \in Pending : tm.gen # entry.generation + 1
         /\ \A g \in Gens : g > entry.generation + 1 => g > entry.generation
         /\ entry.generation + 1 > entry.generation
<1>1. TypeOK /\ GenInv
  BY Zenon DEF IInv, ControlInv
<1>2. /\ entry.generation + 1 \in Gens /\ entry.generation \in Nat /\ Gens \subseteq Nat
      /\ \A t \in Threads : t.gen \in Nat
      /\ \A tm \in armed \cup fired : tm.gen \in Nat
  BY <1>1, Counters, GenTypes, Zenon
<1>3. \A t \in Threads : pc[t] # "idle" => t.gen # entry.generation + 1
  BY <1>1, <1>2 DEF GenInv
<1>4. \A tm \in Pending : tm.gen # entry.generation + 1
  BY <1>1, <1>2 DEF GenInv, Pending
<1>5. ASSUME NEW g \in Gens, g = entry.generation + 1
      PROVE  pc[Proc(g)] = "idle" /\ pc[Watch(g)] = "idle"
  <2>1. Proc(g).gen = entry.generation + 1 /\ Watch(g).gen = entry.generation + 1
    BY <1>5, ThreadFacts, Zenon
  <2> QED BY <1>3, <2>1, ThreadFacts, Zenon
<1> QED BY <1>2, <1>3, <1>4, <1>5

\* It has no waiters, also after the step that begins it.
LEMMA NextHasNoWaiters ==
  ASSUME IInv, entry.generation < MaxGen, OthersStay(Op),
         NEW g \in Gens, g = entry.generation + 1
  PROVE  pc'[Proc(g)] = "idle" /\ pc'[Watch(g)] = "idle"
<1>1. pc[Proc(g)] = "idle" /\ pc[Watch(g)] = "idle"
  BY NextGeneration, Zenon
<1>2. pc'[Proc(g)] = pc[Proc(g)] /\ pc'[Watch(g)] = pc[Watch(g)]
  BY ThreadFacts, Zenon DEF OthersStay
<1> QED BY <1>1, <1>2, Zenon

\* A new mount attempt: nothing runs for it, and what still runs is killed.
LEMMA FreshKeeps ==
  ASSUME IInv, ProcessInv, entry.generation < MaxGen, OthersStay(Op),
         entry'.generation = entry.generation + 1,
         entry'.exitDone = entry.generation + 1,
         entry'.command = 0, entry'.attempt # 0, ~entry'.unmounting,
         \/ pc'[Op] = "create"
         \/ pc'[Op] = "clone" /\ then'[Op] = "start",
         reg' = "managed", stop' # "stopping", Pending' \subseteq Pending,
         UNCHANGED <<rec, closed, db, child, killed, restarts>>,
         restarts = 0 => \A g \in Gens : Alive(g) => g \in killed,
         \/ db # NoRecord
         \/ /\ pc'[Op] = "create" /\ Pending = {}
            /\ \A t \in Threads \ {Op} : pc[t] = "idle",
         NoRollback => \A t \in Threads : pc[t] = "write" /\ rec[t].tomb => FALSE
  PROVE  ProcessInv'
<1>0. /\ entry.generation + 1 \in Gens /\ Exists'
      /\ \A u \in Threads : u # Op => pc'[u] = pc[u]
      /\ \A t \in Threads : t.gen = entry.generation + 1 => pc[t] = "idle"
      /\ \A tm \in Pending' : tm.gen # entry.generation + 1
      /\ \A g \in Gens : g > entry.generation + 1 => g > entry.generation
      /\ entry.generation + 1 > entry.generation
      /\ closed \subseteq Gens /\ child' = child /\ killed' = killed
      /\ db' = db /\ rec' = rec /\ closed' = closed /\ restarts' = restarts
  BY NextGeneration, Zenon DEF IInv, TypeOK, Exists, OthersStay
<1>1. Starting' /\ ~Spawning' /\ ~OpUnmounting' /\ ~Carries(Op)' /\ Settled'
  BY Zenon DEF Starting, Spawning, OpUnmounting, OpAt, Carries, Settled
<1>2. CommandInv'
  <2>1. \A g \in Gens : g = entry.generation + 1 => pc'[Proc(g)] = "idle"
    BY <1>0, NextHasNoWaiters, Zenon
  <2> QED BY <1>0, <1>1, <2>1, Zenon DEF CommandInv
<1>3. ChildInv'
  BY <1>0, Zenon DEF ProcessInv, ChildInv, Alive
<1>4. FreshInv'
  <2>1. pc'[Watch(entry.generation + 1)] = "idle"
    BY <1>0, NextHasNoWaiters, Zenon
  <2> QED BY <1>0, <2>1, Zenon DEF FreshInv
<1>5. MarkInv' BY <1>1, Zenon DEF MarkInv
<1>6. SettledInv' BY <1>1, Zenon DEF SettledInv
<1>7. AttemptsCounted'
  BY <1>0, Zenon DEF ProcessInv, AttemptsCounted
<1>8. RecordInv'
  <2>1. CASE db # NoRecord BY <1>0, <2>1, Zenon DEF RecordInv
  <2>2. CASE db = NoRecord
    <3>1. NeverStarted'
      BY <1>0, <2>2, Zenon DEF NeverStarted, OpUnstarted
    <3> QED BY <3>1, Zenon DEF RecordInv
  <2> QED BY <2>1, <2>2, Zenon
<1>9. DataInv' BY <1>1, Zenon DEF DataInv
<1>10. IntentInv'
  BY <1>0, Zenon DEF IntentInv
<1>11. OneLiveClient'
  BY <1>0, Zenon DEF OneLiveClient, Alive
<1> QED BY <1>2, <1>3, <1>4, <1>5, <1>6, <1>7, <1>8, <1>9, <1>10, <1>11, Zenon
        DEF ProcessInv

\* An attempt to unmount: the process stays the one of the mount attempt.
LEMMA UnmountKeeps ==
  ASSUME IInv, ProcessInv, entry.generation < MaxGen, OperationFree, OthersStay(Op),
         entry'.generation = entry.generation + 1,
         entry'.exitDone = entry.exitDone, entry'.command = entry.command,
         entry'.attempt # 0, entry'.unmounting,
         \/ pc'[Op] = "tombstone" /\ rec'[Op].attempt # 0 /\ reg = "managed"
         \/ pc'[Op] = "clone" /\ then'[Op] = "probe" /\ Pending # {},
         Exists, \A t \in Threads \ {Op} : rec'[t] = rec[t],
         Pending' \subseteq Pending,
         UNCHANGED <<reg, stop, closed, db, child, killed, data, restarts>>
  PROVE  ProcessInv'
<1>0. /\ entry.generation + 1 \in Gens /\ Exists'
      /\ pc[Op] = "idle"
      /\ \A u \in Threads : u # Op => pc'[u] = pc[u]
      /\ \A t \in Threads : t.gen = entry.generation + 1 => pc[t] = "idle"
      /\ \A tm \in Pending' : tm.gen # entry.generation + 1
      /\ \A g \in Gens : g > entry.generation + 1 => g > entry.generation
      /\ closed \subseteq Gens /\ child' = child /\ killed' = killed
      /\ db' = db /\ closed' = closed /\ restarts' = restarts /\ data' = data
      /\ reg' = reg /\ stop' = stop
  BY NextGeneration, ThreadFacts, Zenon
     DEF IInv, TypeOK, Exists, OthersStay, ControlInv, LockInv, OperationFree
<1>1. ~Starting' /\ ~Spawning' /\ ~Carries(Op)' /\ (Settled' <=> Settled)
  BY <1>0, Zenon DEF Starting, Spawning, OpAt, Carries, Settled, Alive
<1>2. CommandInv'
  <2>1. \A g \in Gens : g = entry.generation + 1 => pc'[Proc(g)] = "idle"
    BY <1>0, NextHasNoWaiters, Zenon
  <2> QED BY <1>0, <1>1, <2>1, Zenon DEF CommandInv, ProcessInv
<1>3. ChildInv'
  BY <1>0, <1>1, Zenon DEF ProcessInv, ChildInv, Alive
<1>4. FreshInv' BY <1>1, Zenon DEF FreshInv
<1>5. MarkInv' BY Zenon DEF MarkInv
<1>6. SettledInv'
  <2>1. ASSUME NEW t \in Threads, t # Op, Reports(t)',
               t.gen = entry.generation + 1 \/ pc'[t] = "reap"
        PROVE  FALSE
    <3>1. pc[t] # "idle"
      BY <1>0, <2>1, Zenon DEF Reports, Carries
    <3>2. pc[t] = "reap"
      BY <1>0, <2>1, <3>1, Zenon
    <3>3. PICK g \in Gens : t = Proc(g) \/ t = Watch(g)
      BY <2>1, ThreadFacts, Zenon
    <3>4. t = Watch(g)
      <4>1. t = Proc(g) => pc[t] \in ProcPCs
        <5>1. PCs(Proc(g)) = ProcPCs
          BY ThreadFacts, Zenon DEF PCs
        <5> QED BY <2>1, <5>1, Zenon DEF IInv, TypeOK, ThreadsOK
      <4>2. "reap" \notin ProcPCs
        BY Zenon DEF ProcPCs, PersistPCs
      <4> QED BY <3>2, <3>3, <4>1, <4>2, Zenon
    <3> QED BY <3>2, <3>4, ThreadFacts, Zenon
            DEF IInv, ControlInv, LockInv, OperationFree
  <2>2. pc'[Op] \notin {"remove", "delete", "unregister"}
    OBVIOUS
  <2> QED BY <1>0, <1>1, <2>1, <2>2, Zenon DEF SettledInv
<1>7. AttemptsCounted'
  BY <1>0, Zenon DEF ProcessInv, AttemptsCounted
<1>8. RecordInv'
  <2> SUFFICES ASSUME reg = "managed", db = NoRecord PROVE NeverStarted'
    BY <1>0, Zenon DEF RecordInv
  <2>1. NeverStarted
    BY <1>0, Zenon DEF ProcessInv, RecordInv
  <2>2. pc'[Op] = "tombstone" /\ Pending' = {}
    BY <2>1, Zenon DEF NeverStarted
  <2> QED BY <1>0, <2>1, <2>2, Zenon DEF NeverStarted, OpUnstarted
<1>9. DataInv' BY <1>0, <1>1, Zenon DEF ProcessInv, DataInv
<1>10. IntentInv'
  <2>1. stop # "stopping"
    BY <1>0, Zenon DEF ProcessInv, IntentInv, Stopping, OpAt
  <2> QED BY <1>0, <2>1, Zenon DEF IntentInv
<1>11. OneLiveClient'
  BY <1>0, Zenon DEF ProcessInv, OneLiveClient, Alive
<1> QED BY <1>2, <1>3, <1>4, <1>5, <1>6, <1>7, <1>8, <1>9, <1>10, <1>11, Zenon
        DEF ProcessInv
-----------------------------------------------------------------------------
(* The steps that begin or end an attempt.                                 *)

\* No process and no record at first.
LEMMA InitProcess == Init => ProcessInv
<1> SUFFICES ASSUME Init PROVE ProcessInv
  OBVIOUS
<1>1. /\ \A t \in Threads : pc[t] = "idle" /\ ~Carries(t)
      /\ pc[Op] = "idle" /\ armed = {} /\ fired = {} /\ Pending = {}
      /\ reg = "absent" /\ closed = {} /\ stop = "no" /\ db = NoRecord
      /\ child = [g \in Gens |-> "none"]
  BY ThreadFacts, Zenon DEF Init, Carries, Pending
<1>2. entry.command = 0 /\ entry.attempt = 1
  BY Zenon DEF Init, NewEntry
<1>3. ~Starting /\ ~Spawning /\ ~OpUnmounting /\ ~Exists /\ Settled
  BY <1>1, <1>2, Zenon DEF Starting, Spawning, OpUnmounting, OpAt, Exists, Settled
<1>4. CommandInv BY <1>1, <1>2, <1>3, ThreadFacts, Zenon DEF CommandInv
<1>5. ChildInv BY <1>1, <1>3, Zenon DEF ChildInv
<1>6. FreshInv /\ MarkInv BY <1>1, <1>3, Zenon DEF FreshInv, MarkInv
<1>7. SettledInv BY <1>3, Zenon DEF SettledInv
<1>8. AttemptsCounted BY <1>1, <1>2 DEF AttemptsCounted
<1>9. RecordInv /\ DataInv /\ IntentInv
  BY <1>1, Zenon DEF RecordInv, DataInv, IntentInv
<1>10. OneLiveClient BY <1>1, Zenon DEF OneLiveClient, Alive
<1> QED BY <1>4, <1>5, <1>6, <1>7, <1>8, <1>9, <1>10, Zenon DEF ProcessInv

\* Mount and remount have no waiters of an earlier entry around.
LEMMA MountProcess ==
  ASSUME IInv, ProcessInv, Mount \/ Remount PROVE ProcessInv'
<1>0. /\ TypeOK /\ ThreadsOK /\ ExistsInv /\ Op \in Threads
      /\ db # NoRecord => db.attempt # 0
  BY ThreadFacts, Zenon DEF IInv, TypeOK, ControlInv, ProcessInv, AttemptsCounted
<1>1. ~Exists /\ entry.generation < MaxGen /\ reg' = "managed" /\ stop' = stop
  BY Zenon DEF Mount, Remount, Exists
<1>2. /\ armed = {} /\ fired = {} /\ Pending = {} /\ entry.command = 0
      /\ \A t \in Threads : pc[t] = "idle"
  <2>1. pc[Op] = "idle" /\ \A g \in Gens : pc[Proc(g)] = "idle" /\ pc[Watch(g)] = "idle"
    BY <1>0, <1>1, Zenon DEF ExistsInv
  <2>2. ASSUME NEW t \in Threads PROVE pc[t] = "idle"
    <3>1. t = Op \/ \E g \in Gens : t = Proc(g) \/ t = Watch(g)
      BY ThreadFacts, Zenon
    <3> QED BY <2>1, <3>1, Zenon
  <2>3. armed = {} /\ fired = {} /\ Pending = {}
    BY <1>0, <1>1, Zenon DEF ExistsInv, Pending
  <2> QED BY <1>1, <2>2, <2>3, Zenon DEF ProcessInv, CommandInv
<1>3. stop' # "stopping"
  BY <1>0, <1>1, <1>2, Zenon DEF ProcessInv, IntentInv, Stopping, OpAt
<1>4. restarts = 0 => \A g \in Gens : Alive(g) => g \in killed
  <2>1. \A g \in Gens : g # 0
    BY DEF Gens
  <2> QED BY <1>2, <2>1, Zenon DEF ProcessInv, OneLiveClient
<1>5. /\ OthersStay(Op) /\ rec' = rec
      /\ \/ Mount /\ pc'[Op] = "create"
         \/ Remount /\ pc'[Op] = "clone" /\ then'[Op] = "start"
  BY <1>0, MoveFacts, Zenon DEF Mount, Remount
<1>6. /\ UNCHANGED <<closed, db, child, killed, restarts, armed, fired>>
      /\ Remount => db # NoRecord
  BY Zenon DEF Mount, Remount
<1>7. /\ entry'.generation = entry.generation + 1
      /\ entry'.exitDone = entry.generation + 1
      /\ entry'.command = 0 /\ entry'.attempt # 0 /\ ~entry'.unmounting
  <2>1. CASE Mount
    BY <2>1 DEF Mount, NewEntry
  <2>2. CASE Remount
    BY <1>0, <2>2, Zenon DEF Remount, Restored, NewEntry
  <2> QED BY <2>1, <2>2, Zenon
<1>8. Pending' \subseteq Pending
  BY <1>6, Zenon DEF Pending
<1> QED BY <1>1, <1>2, <1>3, <1>4, <1>5, <1>6, <1>7, <1>8, FreshKeeps, Zenon

\* A retry begins when the process of the attempt it follows is over or killed.
LEMMA RetryMountProcess ==
  ASSUME IInv, ProcessInv, NEW tm, RetryMount(tm) PROVE ProcessInv'
<1>0. /\ TypeOK /\ ThreadsOK /\ ExistsInv /\ LockInv /\ Op \in Threads
      /\ entry.attempt \in Nat /\ entry.generation \in Nat
  BY Counters, ThreadFacts, Zenon DEF IInv, TypeOK, ControlInv
<1>1. /\ tm \in fired /\ tm.by # "unmount" /\ tm.gen = entry.generation
      /\ ~entry.unmounting /\ entry.generation < MaxGen /\ OperationFree
      /\ LockAndPersist(Op, "start") /\ fired' = fired \ {tm}
      /\ entry' = NextAttempt
      /\ UNCHANGED <<client, reg, armed, closed, db, systemVars, daemonVars>>
  BY Zenon DEF RetryMount, Superseded, LockAndPersist
<1>2. tm \in Pending /\ Settled
  BY <1>1, Zenon DEF Pending, ProcessInv, SettledInv
<1>3. pc[Op] = "idle" /\ reg = "managed"
  <2>1. pc[Op] = "idle"
    BY <1>0, <1>1, ThreadFacts, Zenon DEF LockInv, OperationFree
  <2>2. Exists
    BY <1>0, <1>1, Zenon DEF ExistsInv
  <2> QED BY <1>1, <2>1, <2>2, Zenon DEF Exists, ProcessInv, MarkInv
<1>4. stop' # "stopping"
  BY <1>1, <1>3, Zenon DEF ProcessInv, IntentInv, Stopping, OpAt
<1>5. restarts = 0 => \A g \in Gens : Alive(g) => g \in killed
  <2>1. \A g \in Gens : g # 0
    BY DEF Gens
  <2> QED BY <1>2, <2>1, Zenon DEF ProcessInv, OneLiveClient, Settled
<1>6. /\ OthersStay(Op) /\ rec' = rec /\ pc'[Op] = "clone" /\ then'[Op] = "start"
  BY <1>0, <1>1, MoveFacts, Zenon
<1>7. db # NoRecord
  BY <1>2, <1>3, Zenon DEF ProcessInv, RecordInv, NeverStarted
<1>8. /\ entry'.generation = entry.generation + 1
      /\ entry'.exitDone = entry.generation + 1
      /\ entry'.command = 0 /\ entry'.attempt = entry.attempt + 1
      /\ entry'.unmounting = entry.unmounting
  BY <1>0, <1>1, Zenon DEF NextAttempt, NextAttemptOldChannel, TypeOK, Entries
<1>9. entry'.attempt # 0
  BY <1>0, <1>8
<1>10. Pending' \subseteq Pending
  BY <1>1, Zenon DEF Pending
<1>11. NoRollback => \A t \in Threads : pc[t] = "write" /\ rec[t].tomb => FALSE
  BY <1>1, Zenon DEF ProcessInv, IntentInv
<1> QED BY <1>1, <1>3, <1>4, <1>5, <1>6, <1>7, <1>8, <1>9, <1>10, <1>11, FreshKeeps, Zenon

\* Unmount and retryUnmount.
LEMMA UnmountProcess ==
  ASSUME IInv, ProcessInv, Unmount \/ \E tm : RetryUnmount(tm) PROVE ProcessInv'
<1>0. /\ TypeOK /\ ThreadsOK /\ ExistsInv /\ Op \in Threads
      /\ entry.attempt \in Nat /\ entry.generation \in Nat /\ entry.attempt # 0
      /\ MaxGen \in Nat
  BY Counters, ThreadFacts, Zenon
     DEF IInv, TypeOK, ControlInv, ProcessInv, AttemptsCounted
<1>1. CASE Unmount
  <2>1. /\ reg = "managed" /\ OperationFree /\ Exists
        /\ entry.generation + MaxAttempts <= MaxGen
        /\ pc' = [pc EXCEPT ![Op] = "tombstone"] /\ then' = then
        /\ rec' = [rec EXCEPT ![Op] = [attempt |-> entry'.attempt,
                                       mountedAt |-> entry.mountedAt, tomb |-> TRUE]]
        /\ armed' \subseteq armed /\ fired' = fired
        /\ UNCHANGED <<reg, stop, closed, db, child, killed, data, restarts>>
    BY <1>1, Zenon DEF Unmount, Exists
  <2>2. entry.generation < MaxGen
    BY <1>0, <2>1, AttemptsAssumption
  <2>3. /\ entry'.generation = entry.generation + 1
        /\ entry'.exitDone = entry.exitDone /\ entry'.command = entry.command
        /\ entry'.attempt = (IF entry.unmounting THEN entry.attempt ELSE 1)
        /\ entry'.unmounting
    BY <1>0, <1>1, Zenon DEF Unmount, TypeOK, Entries
  <2>4. entry'.attempt # 0
    BY <1>0, <2>3
  <2>5. /\ OthersStay(Op) /\ pc'[Op] = "tombstone" /\ rec'[Op].attempt = entry'.attempt
        /\ \A t \in Threads \ {Op} : rec'[t] = rec[t]
    BY <1>0, <2>1, Zenon DEF ThreadsOK, OthersStay
  <2>6. Pending' \subseteq Pending
    BY <2>1, Zenon DEF Pending
  <2> QED BY <2>1, <2>2, <2>3, <2>4, <2>5, <2>6, UnmountKeeps, Zenon
<1>2. CASE \E tm : RetryUnmount(tm)
  <2>0. PICK tm : RetryUnmount(tm)
    BY <1>2, Zenon
  <2>1. /\ OperationFree /\ entry.generation < MaxGen /\ entry.unmounting
        /\ LockAndPersist(Op, "probe") /\ armed' = armed
        /\ tm \in fired /\ fired' = fired \ {tm}
        /\ UNCHANGED <<reg, stop, closed, db, child, killed, data, restarts>>
    BY <2>0, Zenon DEF RetryUnmount, LockAndPersist
  <2>2. /\ entry'.generation = entry.generation + 1
        /\ entry'.exitDone = entry.exitDone /\ entry'.command = entry.command
        /\ entry'.attempt = entry.attempt + 1
        /\ entry'.unmounting = entry.unmounting
    BY <1>0, <2>0, Zenon DEF RetryUnmount, TypeOK, Entries
  <2>3. entry'.attempt # 0
    BY <1>0, <2>2
  <2>4. /\ OthersStay(Op) /\ pc'[Op] = "clone" /\ then'[Op] = "probe" /\ rec' = rec
    BY <1>0, <2>1, MoveFacts, Zenon
  <2>5. Pending' \subseteq Pending /\ Pending # {} /\ Exists
    BY <1>0, <2>1, Zenon DEF Pending, ExistsInv
  <2> QED BY <2>1, <2>2, <2>3, <2>4, <2>5, UnmountKeeps, Zenon
<1> QED BY <1>1, <1>2, Zenon

\* startMount runs the command.
LEMMA StartProcess ==
  ASSUME IInv, IInv', ProcessInv, StartCommand PROVE ProcessInv'
<1>0. /\ TypeOK /\ ThreadsOK /\ Op \in Threads /\ pc[Op] = "start"
      /\ entry.generation \in Gens /\ Exists
      /\ entry.exitDone = entry.generation /\ entry.generation \notin closed
      /\ pc[Proc(entry.generation)] = "idle"
      /\ Starting /\ ~entry.unmounting
  <2>1. pc[Op] = "start" /\ Starting
    BY Zenon DEF StartCommand, Starting, OpAt
  <2> QED BY <2>1, OpGeneration, ThreadFacts, Zenon
          DEF IInv, TypeOK, ControlInv, ExitInv, UnmountInv
<1>1. /\ child' = [child EXCEPT ![entry.generation] = "starting"]
      /\ data' = MadeData
      /\ UNCHANGED <<reg, stop, armed, fired, closed, db, killed, restarts>>
      /\ Persist(Op, "spawn")
  BY Zenon DEF StartCommand
<1>2. /\ OthersStay(Op) /\ pc'[Op] = "clone" /\ then'[Op] = "spawn" /\ rec' = rec
      /\ \A u \in Threads : u # Op => pc'[u] = pc[u]
  BY <1>0, <1>1, MoveFacts, Zenon DEF OthersStay
<1>3. /\ entry'.generation = entry.generation /\ entry'.exitDone = entry.exitDone
      /\ entry'.command = entry.generation /\ entry'.attempt = entry.attempt
      /\ entry'.unmounting = entry.unmounting
  BY <1>0, Zenon DEF StartCommand, TypeOK, Entries
<1>4. /\ child'[entry.generation] = "starting"
      /\ \A g \in Gens : g # entry.generation => child'[g] = child[g]
  BY <1>0, <1>1, Zenon DEF TypeOK
<1>5. /\ ~Starting' /\ Spawning' /\ ~OpUnmounting' /\ ~Carries(Op)'
      /\ Pending' = Pending /\ Exists'
  BY <1>0, <1>1, <1>2, Zenon
     DEF Starting, Spawning, OpUnmounting, OpAt, Carries, Pending, Exists
<1>6. CommandInv'
  <2>1. \A g \in Gens : g = entry.generation => pc'[Proc(g)] = pc[Proc(g)]
    BY <1>2, ThreadFacts, Zenon
  <2> QED BY <1>0, <1>3, <1>5, <2>1, Zenon DEF CommandInv
<1>7. ChildInv'
  <2>1. \A g \in Gens : g > entry.generation => g # entry.generation
    BY <1>0 DEF Gens
  <2>2. closed' = closed /\ closed \subseteq Gens
    BY <1>0, <1>1, Zenon DEF TypeOK
  <2> QED BY <1>0, <1>3, <1>4, <1>5, <2>1, <2>2, Zenon DEF ProcessInv, ChildInv, Alive
<1>8. FreshInv'
  <2>1. pc'[Watch(entry.generation)] = pc[Watch(entry.generation)]
    BY <1>0, <1>2, ThreadFacts, Zenon
  <2> QED BY <1>0, <1>3, <1>5, <2>1, Zenon DEF ProcessInv, FreshInv
<1>9. MarkInv'
  BY <1>0, <1>1, <1>3, <1>5, Zenon DEF ProcessInv, MarkInv
<1>10. SettledInv'
  <2>1. \A tm \in Pending' : tm.gen # entry.generation
    BY <1>0, <1>5, Zenon DEF ProcessInv, FreshInv
  <2>2. ASSUME NEW t \in Threads, t # Op, Reports(t)', t.gen = entry.generation
        PROVE  FALSE
    <3>1. PICK g \in Gens : t = Proc(g) \/ t = Watch(g)
      BY <2>2, ThreadFacts, Zenon
    <3>2. g = entry.generation
      BY <2>2, <3>1, ThreadFacts, Zenon
    <3>3. pc[t] = "idle"
      BY <1>0, <3>1, <3>2, Zenon DEF ProcessInv, FreshInv
    <3> QED BY <1>2, <2>2, <3>3, Zenon DEF Reports, Carries
  <2>3. ASSUME NEW t \in Threads, t # Op, pc'[t] = "reap" PROVE FALSE
    <3>1. operation = Op
      BY <1>0, Zenon DEF IInv, ControlInv, LockInv
    <3>2. \A g \in Gens : pc[Watch(g)] # "reap"
      BY <3>1, ThreadFacts, Zenon DEF IInv, ControlInv, LockInv
    <3>3. PICK g \in Gens : t = Proc(g) \/ t = Watch(g)
      BY <2>3, ThreadFacts, Zenon
    <3>4. "reap" \notin PCs(Proc(g))
      BY ThreadFacts, Zenon DEF PCs, ProcPCs, PersistPCs
    <3> QED BY <1>0, <1>2, <2>3, <3>2, <3>3, <3>4, Zenon DEF ThreadsOK
  <2> QED BY <1>2, <1>3, <1>5, <2>1, <2>2, <2>3, Zenon DEF SettledInv
<1>11. AttemptsCounted'
  BY <1>1, <1>2, <1>3, Zenon DEF ProcessInv, AttemptsCounted
<1>12. RecordInv'
  <2>1. ~OpUnstarted
    BY <1>0, Zenon DEF OpUnstarted, Stopping, OpAt
  <2> QED BY <1>0, <1>1, <2>1, Zenon DEF ProcessInv, RecordInv, NeverStarted
<1>13. DataInv'
  BY <1>1, Zenon DEF DataInv, MadeData
<1>14. IntentInv'
  <2>1. stop # "stopping"
    BY <1>0, Zenon DEF ProcessInv, IntentInv, Stopping, OpAt
  <2> QED BY <1>1, <1>2, <1>3, <2>1, Zenon DEF ProcessInv, IntentInv
<1>15. OneLiveClient'
  <2>1. \A g \in Gens : g # 0
    BY DEF Gens
  <2>2. entry.command = 0
    BY <1>0, Zenon DEF ProcessInv, CommandInv
  <2> QED BY <1>1, <1>3, <1>4, <2>1, <2>2, Zenon DEF ProcessInv, OneLiveClient, Alive
<1> QED BY <1>6, <1>7, <1>8, <1>9, <1>10, <1>11, <1>12, <1>13, <1>14, <1>15, Zenon
        DEF ProcessInv

\* waitForProcess and waitForMount are started.
LEMMA SpawnProcess ==
  ASSUME IInv, ProcessInv, SpawnWaiters PROVE ProcessInv'
<1> DEFINE gen == entry.generation
<1>0. /\ TypeOK /\ ThreadsOK /\ Op \in Threads /\ pc[Op] = "spawn"
      /\ gen \in Gens /\ Exists /\ Spawning /\ entry.command = gen
      /\ UNCHANGED <<then, rec, entry, callVars, otherVars>>
  <2>1. pc[Op] = "spawn" /\ Spawning
    BY Zenon DEF SpawnWaiters, Spawning, OpAt
  <2> QED BY <2>1, OpGeneration, ThreadFacts, Zenon
          DEF SpawnWaiters, IInv, TypeOK, ProcessInv, CommandInv
<1>1. /\ \A t \in Threads : t \notin {Op, Proc(gen), Watch(gen)} => pc'[t] = pc[t]
      /\ pc'[Op] = "idle" /\ pc'[Proc(gen)] = "run" /\ pc'[Watch(gen)] = "poll"
  BY <1>0, ThreadFacts DEF SpawnWaiters, ThreadsOK
<1>2. ~Starting' /\ ~Spawning' /\ ~OpUnmounting' /\ ~Carries(Op)'
  BY <1>1, Zenon DEF Starting, Spawning, OpUnmounting, OpAt, Carries
<1>3. /\ Exists' /\ (Settled' <=> Settled) /\ Pending' = Pending
      /\ \A g \in Gens : Alive(g)' <=> Alive(g)
  BY <1>0, Zenon DEF Exists, Settled, Pending, Alive
<1> HIDE DEF gen
<1>g. gen = entry.generation
  BY Zenon DEF gen
<1>4. CommandInv'
  BY <1>0, <1>2, <1>3, <1>g, Zenon DEF ProcessInv, CommandInv
<1>5. ChildInv'
  BY <1>0, <1>2, <1>3, Zenon DEF ProcessInv, ChildInv, TypeOK
<1>6. FreshInv' BY <1>2, Zenon DEF FreshInv
<1>7. MarkInv' BY <1>0, <1>2, Zenon DEF ProcessInv, MarkInv
<1>8. SettledInv'
  <2>1. ASSUME NEW t \in Threads, t # Op, Reports(t)'
        PROVE  Reports(t) /\ pc'[t] = pc[t]
    BY <1>0, <1>1, <2>1, Zenon DEF Reports, Carries
  <2> QED BY <1>0, <1>1, <1>2, <1>3, <2>1, Zenon DEF ProcessInv, SettledInv
<1>9. AttemptsCounted'
  <2>1. \A t \in Threads : pc'[t] \in {"write", "tombstone"} => pc'[t] = pc[t]
    BY <1>0, <1>1, Zenon
  <2> QED BY <1>0, <2>1, Zenon DEF ProcessInv, AttemptsCounted
<1>10. RecordInv'
  <2>1. ~OpUnstarted
    BY <1>0, Zenon DEF OpUnstarted, Stopping, OpAt
  <2> QED BY <1>0, <2>1, Zenon DEF ProcessInv, RecordInv, NeverStarted
<1>11. DataInv' BY <1>0, <1>3, Zenon DEF ProcessInv, DataInv
<1>12. IntentInv'
  <2>1. stop # "stopping"
    BY <1>0, Zenon DEF ProcessInv, IntentInv, Stopping, OpAt
  <2>2. \A t \in Threads : pc'[t] = "write" => pc[t] = "write"
    BY <1>0, <1>1, Zenon
  <2> QED BY <1>0, <1>1, <2>1, <2>2, Zenon DEF ProcessInv, IntentInv
<1>13. OneLiveClient'
  BY <1>0, <1>3, Zenon DEF ProcessInv, OneLiveClient
<1> QED BY <1>4, <1>5, <1>6, <1>7, <1>8, <1>9, <1>10, <1>11, <1>12, <1>13, Zenon
        DEF ProcessInv

\* The daemon exits: processes stay, and belong to no entry any more.
LEMMA ExitProcess ==
  ASSUME IInv, ProcessInv, DaemonExit PROVE ProcessInv'
<1>1. /\ \A t \in Threads : pc'[t] = "idle"
      /\ pc'[Op] = "idle" /\ armed' = {} /\ fired' = {} /\ Pending' = {}
      /\ reg' = "down" /\ stop' = "no" /\ restarts' = restarts + 1
      /\ UNCHANGED <<closed, db, child, killed>>
  BY ThreadFacts, Zenon DEF DaemonExit, Pending
<1>2. entry'.command = 0 /\ entry'.attempt = 1 /\ entry'.generation = entry.generation
  BY Zenon DEF DaemonExit, NewEntry
<1>3. ~Starting' /\ ~Spawning' /\ ~OpUnmounting' /\ ~Exists' /\ Settled'
  BY <1>1, <1>2, Zenon DEF Starting, Spawning, OpUnmounting, OpAt, Exists, Settled
<1>4. CommandInv'
  BY <1>1, <1>2, <1>3, ThreadFacts, Zenon DEF CommandInv
<1>5. ChildInv'
  BY <1>1, <1>2, <1>3, Zenon DEF ProcessInv, ChildInv, Alive
<1>6. FreshInv' /\ MarkInv'
  BY <1>1, <1>3, Zenon DEF FreshInv, MarkInv
<1>7. SettledInv' BY <1>3, Zenon DEF SettledInv
<1>8. AttemptsCounted'
  BY <1>1, <1>2 DEF ProcessInv, AttemptsCounted
<1>9. RecordInv' /\ DataInv' /\ IntentInv'
  BY <1>1, Zenon DEF RecordInv, DataInv, IntentInv
<1>10. OneLiveClient'
  <2>1. restarts' # 0
    BY <1>1 DEF IInv, TypeOK
  <2> QED BY <2>1, Zenon DEF OneLiveClient
<1> QED BY <1>4, <1>5, <1>6, <1>7, <1>8, <1>9, <1>10, Zenon DEF ProcessInv
-----------------------------------------------------------------------------
(* The steps that leave every goroutine where it is.                       *)

LEMMA QuietKeeps ==
  ASSUME IInv, IInv', ProcessInv, SameProcess, UNCHANGED <<pc, then, rec, closed>>,
         entry'.unmounting = entry.unmounting,
         stop' = "stopping" => stop = "stopping",
         Pending' \subseteq Pending,
         reg' = reg \/ (~Exists /\ ~Exists'),
         db' = db \/ (db' = NoRecord /\ reg' # "managed"),
         data' = "none" => data = "none" \/ reg' # "managed"
  PROVE  ProcessInv'
<1>0. TypeOK /\ Op \in Threads /\ (Settled => Settled')
  BY SettledStays, ThreadFacts, Zenon DEF IInv
<1>1. /\ Starting' <=> Starting
      /\ Spawning' <=> Spawning
      /\ Stopping' <=> Stopping
      /\ OpUnmounting' <=> OpUnmounting
      /\ Carries(Op)' <=> Carries(Op)
  BY Zenon DEF Starting, Spawning, Stopping, OpUnmounting, OpAt, Carries
<1>2. OpUnstarted' <=> OpUnstarted
  BY <1>1, Zenon DEF OpUnstarted
<1>3. pc[Op] # "idle" => reg' = reg
  BY Zenon DEF IInv, ControlInv, ExistsInv
<1>4. OpCourse
  BY <1>0, <1>1, <1>2, <1>3, Zenon
     DEF OpCourse, ProcessInv, SettledInv, MarkInv, IntentInv
<1>5. OthersStay(Op) /\ ArmsOnly(Op)
  BY Zenon DEF OthersStay, ArmsOnly
<1>6. StoreCourse
  BY Zenon DEF StoreCourse
<1>7. RegistryCourse
  BY Zenon DEF RegistryCourse, Exists, ProcessInv, MarkInv
<1> QED BY <1>0, <1>4, <1>5, <1>6, <1>7, MoveKeeps, Zenon

\* Timers fire or are ignored, Shutdown stops them, the daemon starts or
\* reconciles, davfs2 uploads.
LEMMA QuietProcess ==
  ASSUME IInv, IInv', ProcessInv,
         \/ \E tm : TimerFires(tm) \/ RetryIgnored(tm)
         \/ ShutdownBegin \/ (ShutdownLock /\ entry.unmounting)
         \/ Restart \/ PeriodicReconcile \/ CacheSynchronised
  PROVE  ProcessInv'
<1>1. UNCHANGED <<pc, then, rec, closed, child, killed, restarts>>
  BY Zenon DEF TimerFires, RetryIgnored, ShutdownBegin, ShutdownLock, Restart,
               PeriodicReconcile, CacheSynchronised, threadVars
<1>2. entry' = entry \/ entry' = [entry EXCEPT !.retryTimer = NoTimer]
  BY Zenon DEF TimerFires, RetryIgnored, ShutdownBegin, ShutdownLock, Restart,
               PeriodicReconcile, CacheSynchronised
<1>3. SameAttempt /\ entry'.command = entry.command /\ entry'.unmounting = entry.unmounting
  BY <1>2, Zenon DEF IInv, TypeOK, Entries, SameAttempt
<1>4. SameProcess
  BY <1>1, <1>3, Zenon DEF SameProcess, Alive
<1>5. Pending' \subseteq Pending
  BY Zenon DEF TimerFires, RetryIgnored, ShutdownBegin, ShutdownLock, Restart,
               PeriodicReconcile, CacheSynchronised, Pending
<1>6. stop' = "stopping" => stop = "stopping"
  BY Zenon DEF TimerFires, RetryIgnored, ShutdownBegin, ShutdownLock, Restart,
               PeriodicReconcile, CacheSynchronised
<1>7. reg' = reg \/ (~Exists /\ ~Exists')
  BY Zenon DEF TimerFires, RetryIgnored, ShutdownBegin, ShutdownLock, Restart,
               PeriodicReconcile, CacheSynchronised, Exists
<1>8. /\ db' = db \/ (db' = NoRecord /\ reg' # "managed")
      /\ data' = "none" => data = "none" \/ reg' # "managed"
  <2>1. CASE Restart \/ PeriodicReconcile
    BY <2>1, Zenon DEF Restart, PeriodicReconcile, NotManaged, ReconcileTombstone
  <2>2. CASE ~(Restart \/ PeriodicReconcile)
    BY <2>2, Zenon
       DEF TimerFires, RetryIgnored, ShutdownBegin, ShutdownLock, CacheSynchronised
  <2> QED BY <2>1, <2>2, Zenon
<1> QED BY <1>1, <1>3, <1>4, <1>5, <1>6, <1>7, <1>8, QuietKeeps, Zenon

\* A client mounts or exits.
LEMMA ChildProcess ==
  ASSUME IInv, IInv', ProcessInv, NEW g \in Gens, ChildMounts(g) \/ ChildExits(g)
  PROVE  ProcessInv'
<1>1. UNCHANGED <<entry, reg, pc, then, rec, armed, fired, closed, db, killed, data, stop,
                  restarts>>
  BY Zenon DEF ChildMounts, ChildExits, threadVars
<1>2. child[g] \in {"starting", "serving"}
  BY Zenon DEF ChildMounts, ChildExits, Alive
<1>3. \A h \in Gens : h # g => child'[h] = child[h]
  BY Zenon DEF ChildMounts, ChildExits, IInv, TypeOK
<1>4. SameProcess
  BY <1>1, <1>2, <1>3, Zenon DEF SameProcess, SameAttempt, Alive
<1>5. Pending' \subseteq Pending
  BY <1>1, Zenon DEF Pending
<1> QED BY <1>1, <1>4, <1>5, QuietKeeps, Zenon

-----------------------------------------------------------------------------
(* persistRecord and the arming of timers, whoever calls them.             *)

\* What goes on inside persistRecord does not change what follows it.
LEMMA PersistCourse ==
  ASSUME IInv, IInv', ProcessInv, NEW t \in Threads, OthersStay(t), SameProcess,
         UNCHANGED <<stop, reg>>, entry'.unmounting = entry.unmounting,
         pc[t] \in {"clone", "write", "arm", "store"},
         Carries(t)' => Carries(t),
         pc'[t] \notin {"tombstone", "cleanup", "reap", "record", "terminal"},
         t = Op =>
           \A P : P \cap {"clone", "write", "idle", "arm", "store"} = {} =>
             (OpAt(P)' <=> OpAt(P)),
         t = Op => pc'[Op] \notin {"remove", "delete", "unregister"}
  PROVE  (t = Op => OpCourse) /\ (t # Op => WaiterCourse(t)) /\ RegistryCourse
<1>0. TypeOK /\ Op \in Threads /\ (Settled => Settled')
  BY SettledStays, ThreadFacts, Zenon DEF IInv
<1>1. ASSUME t = Op PROVE OpCourse
  <2>1. /\ Starting' <=> Starting
        /\ Spawning' <=> Spawning
        /\ Stopping' <=> Stopping
        /\ OpUnmounting' <=> OpUnmounting
    BY <1>1, Zenon DEF Starting, Spawning, Stopping, OpUnmounting
  <2>2. OpUnstarted => OpUnstarted'
    BY <1>1, <2>1, Zenon DEF OpUnstarted
  <2> QED BY <1>0, <1>1, <2>1, <2>2, Zenon
          DEF OpCourse, ProcessInv, SettledInv, MarkInv, IntentInv
<1>2. ASSUME t # Op PROVE WaiterCourse(t)
  <2>1. Reports(t)' => Reports(t) /\ pc'[t] # "reap"
    BY Zenon DEF Reports
  <2>2. pc[t] # "idle"
    OBVIOUS
  <2> QED BY <1>0, <1>2, <2>1, <2>2, Zenon DEF WaiterCourse, ProcessInv, SettledInv
<1>3. RegistryCourse
  BY Zenon DEF RegistryCourse, Exists, ProcessInv, MarkInv
<1> QED BY <1>1, <1>2, <1>3, Zenon

-----------------------------------------------------------------------------
(* What keeps PromiseInv, and what is a step of ManagedMount.              *)

\* The step is one of ManagedMount, or changes nothing that it sees.
KeepsStep == [Promise!Next]_(Promise!vars)
Sound == ProcessInv' /\ PromiseInv' /\ KeepsStep

\* The Op call is at one place.
LEMMA OpPlace ==
  /\ pc[Op] \in {"create", "start"} => Starting
  /\ pc[Op] \in {"stopprobe", "stopwait", "stopkill", "stopped"} => Stopping
  /\ pc[Op] \in {"tombstone", "probe", "wait", "killwait", "remove", "delete",
                 "unregister"} => OpUnmounting
  /\ pc[Op] \notin {"clone", "write", "create", "start"} => ~Starting
  /\ pc[Op] \notin {"clone", "write", "spawn"} => ~Spawning
  /\ pc[Op] \notin {"clone", "write", "stopprobe", "stopwait", "stopkill",
                    "stopped"} => ~Stopping
  /\ pc[Op] \notin {"clone", "write", "tombstone", "probe", "wait", "killwait",
                    "remove", "delete", "unregister"} => ~OpUnmounting
  /\ pc[Op] = "clone" /\ then[Op] \in {"idle", "arm"} =>
       ~Starting /\ ~Spawning /\ ~Stopping /\ ~OpUnmounting
  /\ pc[Op] = "clone" /\ then[Op] = "stopped" =>
       ~Starting /\ ~Spawning /\ Stopping /\ ~OpUnmounting
BY Zenon DEF Starting, Spawning, Stopping, OpUnmounting, OpAt

\* Whoever waits for a killed process holds entry.operation.
LEMMA ReapHoldsOperation ==
  ASSUME IInv, NEW t \in Threads, pc[t] = "reap" PROVE pc[Op] = "idle" /\ t # Op
<1>0. ThreadsOK
  BY Zenon DEF IInv, TypeOK
<1>1. "reap" \notin PCs(Op) /\ \A g \in Gens : "reap" \notin PCs(Proc(g))
  BY ThreadFacts, Zenon DEF PCs, OpPCs, ProcPCs, PersistPCs
<1>2. PICK g \in Gens : t = Watch(g)
  <2>1. pc[t] \in PCs(t)
    BY <1>0, Zenon DEF ThreadsOK
  <2>2. t # Op /\ \A g \in Gens : t # Proc(g)
    BY <1>1, <2>1, Zenon
  <2> QED BY <2>2, ThreadFacts, Zenon
<1>3. operation = Watch(g)
  BY <1>2, Zenon DEF IInv, ControlInv, LockInv
<1> QED BY <1>2, <1>3, ThreadFacts, Zenon DEF IInv, ControlInv, LockInv

\* A step that leaves entry.command alone.
LEMMA MovePromise ==
  ASSUME IInv, IInv', ProcessInv, PromiseInv, NEW t \in Threads,
         OthersStay(t), SameProcess, ArmsOnly(t),
         t # Op => pc[t] # "idle",
         t = Op => pc[Op] # "idle" \/ pc'[Op] = "idle" \/ reg' # "removed",
         OpUnmounting' => OpUnmounting,
         reg' = "removed" =>
           reg = "removed" \/ (t = Op /\ pc[Op] = "unregister" /\ pc'[Op] = "idle"),
         pc'[t] = "reap" => pc[t] = "reap" \/ reg' # "removed",
         pc'[Op] \in {"delete", "unregister"} => data' = "none",
         data = "none" => data' = "none" \/ reg' # "removed",
         \A g \in Gens : child[g] # "none" => child'[g] # "none",
         \A g \in killed' : g \in killed \/ g = entry.command
  PROVE  PromiseInv'
<1>0. /\ TypeOK /\ TypeOK' /\ Op \in Threads /\ (Settled => Settled')
      /\ entry'.generation = entry.generation /\ entry'.command = entry.command
      /\ \A u \in Threads : u # t => pc'[u] = pc[u]
  BY SettledStays, ThreadFacts, Zenon DEF IInv, SameProcess, SameAttempt, OthersStay
<1>1. pc[Op] # "idle" => reg # "removed"
  BY Zenon DEF PromiseInv, RemovedInv
<1>2. AloneInv'
  <2> SUFFICES ASSUME OpUnmounting' \/ reg' = "removed"
               PROVE  /\ \A tm \in Pending' : tm.gen # entry.generation
                      /\ \A u \in Threads \ {Op} :
                           u.gen = entry.generation => pc'[u] = "idle"
    BY <1>0, Zenon DEF AloneInv
  <2>1. OpUnmounting \/ reg = "removed"
    BY OpPlace, Zenon
  <2>2. /\ \A tm \in Pending : tm.gen # entry.generation
        /\ \A u \in Threads \ {Op} : u.gen = entry.generation => pc[u] = "idle"
    BY <2>1, Zenon DEF PromiseInv, AloneInv
  <2>3. Carries(t) => t # Op
    <3>1. Carries(Op) => ~OpUnmounting /\ pc[Op] # "idle"
      BY Zenon DEF Carries, OpUnmounting, OpAt
    <3> QED BY <1>1, <2>1, <3>1, Zenon
  <2>4. Carries(t) => TimerOf(t).gen # entry.generation
    <3>1. Carries(t) => pc[t] # "idle"
      BY Zenon DEF Carries
    <3>2. t # Op => TimerOf(t).gen = t.gen
      BY Zenon DEF TimerOf, Timer, GenerationOf
    <3> QED BY <2>2, <2>3, <3>1, <3>2, Zenon
  <2> QED BY <1>0, <2>2, <2>4, Zenon DEF ArmsOnly
<1>3. RemovedInv'
  <2> SUFFICES ASSUME reg' = "removed"
               PROVE  pc'[Op] = "idle" /\ Settled' /\ \A u \in Threads : pc'[u] # "reap"
    BY Zenon DEF RemovedInv
  <2>1. CASE reg = "removed"
    BY <1>0, <1>1, <2>1, Zenon DEF PromiseInv, RemovedInv
  <2>2. CASE t = Op /\ pc[Op] = "unregister" /\ pc'[Op] = "idle"
    <3>1. Settled
      BY <2>2, Zenon DEF ProcessInv, SettledInv
    <3>2. \A u \in Threads : pc[u] # "reap"
      BY <2>2, ReapHoldsOperation, Zenon
    <3> QED BY <1>0, <2>2, <3>1, <3>2, Zenon
  <2> QED BY <2>1, <2>2, Zenon
<1>4. FilesInv'
  BY Zenon DEF PromiseInv, FilesInv
<1>5. StartedInv'
  <2>1. entry.command # 0 => entry.command \in Gens
    BY <1>0, CommandType, Zenon
  <2>2. killed' \subseteq Gens
    BY <1>0, Zenon DEF TypeOK
  <2>3. entry.command # 0 => child'[entry.command] # "none"
    BY <2>1, Zenon DEF PromiseInv, StartedInv
  <2>4. \A g \in killed : g \in Gens /\ child[g] # "none"
    BY <1>0, Zenon DEF PromiseInv, StartedInv, TypeOK
  <2>5. \A g \in killed' : child'[g] # "none"
    <3>1. \A g \in Gens : g # 0
      BY DEF Gens
    <3> QED BY <2>2, <2>3, <2>4, <3>1, Zenon
  <2> QED BY <1>0, <2>3, <2>5, Zenon DEF StartedInv
<1> QED BY <1>2, <1>3, <1>4, <1>5, Zenon DEF PromiseInv

\* Of what ManagedMount sees, a step changes nothing, or ends the process.
LEMMA RunStep ==
  ASSUME UNCHANGED reg, entry'.unmounting = entry.unmounting,
         entry'.attempt = entry.attempt, Settled => Settled',
         db' = NoRecord <=> db = NoRecord, data' = "none" <=> data = "none"
  PROVE  KeepsStep
<1>1. CASE Settled' <=> Settled
  BY <1>1, Zenon DEF KeepsStep, Promise!vars
<1>2. CASE ~Settled /\ Settled'
  <2>1. Promise!End
    BY <1>2, Zenon DEF Promise!End
  <2> QED BY <2>1, Zenon DEF KeepsStep, Promise!Next
<1> QED BY <1>1, <1>2, Zenon

\* Steps inside persistRecord, or at a timer: ManagedMount does not see them.
LEMMA PersistPromise ==
  ASSUME IInv, IInv', ProcessInv, PromiseInv, NEW t \in Threads, OthersStay(t),
         SameProcess, ArmsOnly(t), UNCHANGED <<reg, child, killed, data>>,
         entry'.unmounting = entry.unmounting, db' = NoRecord <=> db = NoRecord,
         pc[t] \in {"clone", "write", "arm", "store"},
         pc'[t] \notin {"reap", "delete", "unregister"},
         t = Op =>
           \A P : P \cap {"clone", "write", "idle", "arm", "store"} = {} =>
             (OpAt(P)' <=> OpAt(P))
  PROVE  PromiseInv' /\ KeepsStep
<1>0. Op \in Threads /\ (Settled => Settled') /\ entry'.attempt = entry.attempt
  BY SettledStays, ThreadFacts, Zenon DEF IInv, SameProcess, SameAttempt
<1>1. OpUnmounting' => OpUnmounting
  <2>1. t # Op => (OpUnmounting' <=> OpUnmounting)
    BY <1>0, Zenon DEF OpUnmounting, OpAt, OthersStay
  <2>2. t = Op => (OpUnmounting' <=> OpUnmounting)
    BY Zenon DEF OpUnmounting
  <2> QED BY <2>1, <2>2, Zenon
<1>2. pc'[Op] \in {"delete", "unregister"} => data' = "none"
  BY <1>0, Zenon DEF OthersStay, PromiseInv, FilesInv
<1>3. PromiseInv'
  BY <1>1, <1>2, MovePromise, Zenon
<1>4. KeepsStep
  BY <1>0, RunStep, Zenon
<1> QED BY <1>3, <1>4, Zenon

\* persistRecord and the timer that follows a recorded failure.
LEMMA PersistProcess ==
  ASSUME IInv, IInv', ProcessInv, PromiseInv, NEW t \in Threads, PersistStep(t)
  PROVE  Sound
<1>0. TypeOK /\ ThreadsOK
  BY Zenon DEF IInv, TypeOK
<1>1. ASSUME CloneRecord(t) PROVE Sound
  <2>0. /\ pc[t] = "clone" /\ UNCHANGED <<operation, then, entry, callVars, otherVars>>
        /\ pc' = [pc EXCEPT ![t] = "write"]
        /\ rec' = [rec EXCEPT ![t] = CurrentRecord]
    BY <1>1, Zenon DEF CloneRecord
  <2>1. /\ OthersStay(t) /\ pc'[t] = "write" /\ then'[t] = then[t]
        /\ rec'[t] = CurrentRecord /\ \A u \in Threads : u # t => rec'[u] = rec[u]
    BY <1>0, <2>0, Zenon DEF ThreadsOK, OthersStay
  <2>2. SameProcess
    BY <2>0, Zenon DEF SameProcess, SameAttempt, Alive
  <2>3. Carries(t)' => Carries(t)
    BY <2>0, <2>1, Zenon DEF Carries
  <2>4. ASSUME t = Op, NEW P, P \cap {"clone", "write", "idle", "arm", "store"} = {}
        PROVE  OpAt(P)' <=> OpAt(P)
    BY <2>0, <2>1, <2>4, Zenon DEF OpAt
  <2>5. (t = Op => OpCourse) /\ (t # Op => WaiterCourse(t)) /\ RegistryCourse
    BY <2>0, <2>1, <2>2, <2>3, <2>4, PersistCourse, Zenon
  <2>6. StoreCourse
    BY <2>0, <2>1, Zenon DEF StoreCourse, OthersStay
  <2>7. ArmsOnly(t)
    BY <2>0, Zenon DEF ArmsOnly, Pending
  <2>8. ProcessInv'
    BY <2>0, <2>1, <2>2, <2>5, <2>6, <2>7, MoveKeeps, Zenon
  <2>9. PromiseInv' /\ KeepsStep
    BY <2>0, <2>1, <2>2, <2>4, <2>7, PersistPromise, Zenon
  <2> QED BY <2>8, <2>9, Zenon DEF Sound
<1>2. ASSUME WriteRecord(t) PROVE Sound
  <2>0. /\ pc[t] = "write" /\ UNCHANGED <<entry, callVars, timerVars, closed,
                                          systemVars, daemonVars>>
        /\ pc' = [pc EXCEPT ![t] = then[t]]
        /\ then' = [then EXCEPT ![t] = "idle"]
        /\ rec' = [rec EXCEPT ![t] = NoRecord]
        /\ db' = db \/ db' = rec[t]
    BY <1>2, Zenon DEF WriteRecord
  <2>1. /\ OthersStay(t) /\ pc'[t] = then[t] /\ then'[t] = "idle"
        /\ \A u \in Threads : u # t => rec'[u] = rec[u]
    BY <1>0, <2>0, Zenon DEF ThreadsOK, OthersStay
  <2>2. then[t] \in {"idle", "arm", "start", "spawn", "probe", "stopped"}
    BY <1>0, Zenon DEF ThreadsOK, Thens
  <2>3. SameProcess
    BY <2>0, Zenon DEF SameProcess, SameAttempt, Alive
  <2>4. Carries(t)' => Carries(t)
    BY <2>0, <2>1, <2>2, Zenon DEF Carries
  <2>5. ASSUME t = Op, NEW P, P \cap {"clone", "write", "idle", "arm", "store"} = {}
        PROVE  OpAt(P)' <=> OpAt(P)
    BY <2>0, <2>1, <2>2, <2>5, Zenon DEF OpAt
  <2>6. (t = Op => OpCourse) /\ (t # Op => WaiterCourse(t)) /\ RegistryCourse
    BY <2>0, <2>1, <2>2, <2>3, <2>4, <2>5, PersistCourse, Zenon
  <2>7. StoreCourse
    <3>1. rec[t].attempt # 0
      BY <2>0, Zenon DEF ProcessInv, AttemptsCounted
    <3> QED BY <2>0, <2>1, <2>2, <3>1, Zenon DEF StoreCourse, OthersStay
  <2>8. ArmsOnly(t)
    BY <2>0, Zenon DEF ArmsOnly, Pending
  <2>9. ProcessInv'
    BY <2>0, <2>1, <2>3, <2>6, <2>7, <2>8, MoveKeeps, Zenon
  <2>10. db' = NoRecord <=> db = NoRecord
    <3>1. rec[t].attempt # 0 /\ NoRecord.attempt = 0
      BY <2>0, Zenon DEF ProcessInv, AttemptsCounted, NoRecord
    <3>2. db' = db \/ (db # NoRecord /\ db' = rec[t])
      BY <1>2, Zenon DEF WriteRecord
    <3> QED BY <3>1, <3>2, Zenon
  <2>11. PromiseInv' /\ KeepsStep
    BY <2>0, <2>1, <2>2, <2>3, <2>5, <2>8, <2>10, PersistPromise, Zenon
  <2> QED BY <2>9, <2>11, Zenon DEF Sound
<1>3. ASSUME ArmTimer(t) \/ StoreTimer(t) PROVE Sound
  <2>0. /\ UNCHANGED <<callVars, fired, closed, db, systemVars, daemonVars>>
        /\ \/ /\ pc[t] = "arm" /\ armed' = armed \cup {TimerOf(t)} /\ Goto(t, "store")
              /\ entry' = entry
           \/ /\ pc[t] = "store" /\ entry' = [entry EXCEPT !.retryTimer = TimerOf(t)]
              /\ Finish(t) /\ armed' = armed
    BY <1>3, Zenon DEF ArmTimer, StoreTimer
  <2>1. /\ OthersStay(t) /\ rec' = rec /\ then'[t] = then[t]
        /\ \/ pc[t] = "arm" /\ pc'[t] = "store"
           \/ pc[t] = "store" /\ pc'[t] = "idle"
    BY <1>0, <2>0, MoveFacts, Zenon
  <2>2. SameProcess /\ entry'.unmounting = entry.unmounting
    <3>1. /\ SameAttempt /\ entry'.command = entry.command
          /\ entry'.unmounting = entry.unmounting
      BY <1>0, <2>0, Zenon DEF TypeOK, Entries, SameAttempt
    <3> QED BY <2>0, <3>1, Zenon DEF SameProcess, Alive
  <2>3. Carries(t)
    BY <2>1, Zenon DEF Carries
  <2>4. ASSUME t = Op, NEW P, P \cap {"clone", "write", "idle", "arm", "store"} = {}
        PROVE  OpAt(P)' <=> OpAt(P)
    BY <2>1, <2>4, Zenon DEF OpAt
  <2>5. (t = Op => OpCourse) /\ (t # Op => WaiterCourse(t)) /\ RegistryCourse
    BY <2>0, <2>1, <2>2, <2>3, <2>4, PersistCourse, Zenon
  <2>6. StoreCourse
    BY <2>0, <2>1, Zenon DEF StoreCourse, OthersStay
  <2>7. ArmsOnly(t)
    BY <2>0, <2>1, <2>3, Zenon DEF ArmsOnly, Pending
  <2>8. ProcessInv'
    BY <2>0, <2>1, <2>2, <2>5, <2>6, <2>7, MoveKeeps, Zenon
  <2>9. PromiseInv' /\ KeepsStep
    BY <2>0, <2>1, <2>2, <2>4, <2>7, PersistPromise, Zenon
  <2> QED BY <2>8, <2>9, Zenon DEF Sound
<1> QED BY <1>1, <1>2, <1>3, Zenon DEF PersistStep
=============================================================================
