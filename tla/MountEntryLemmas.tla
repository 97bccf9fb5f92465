--------------------------- MODULE MountEntryLemmas ---------------------------
(***************************************************************************)
(* Facts about the operators of MountEntry, and what a step may do to the  *)
(* goroutines and the entry without breaking ControlInv.  MountEntryProofs *)
(* shows that every action is such a step.                                 *)
(***************************************************************************)
EXTENDS MountEntryInvariant, SequenceTheorems, TLAPS

\* The goroutine names are pairwise different.
LEMMA ThreadFacts ==
  /\ Op \in Threads /\ NoThread \notin Threads
  /\ Op.kind = "op" /\ Op.gen = 0
  /\ \A g \in Gens :
       /\ Proc(g) \in Threads /\ Watch(g) \in Threads
       /\ Proc(g) # Op /\ Watch(g) # Op
       /\ Proc(g).gen = g /\ Watch(g).gen = g
       /\ Proc(g).kind = "proc" /\ Watch(g).kind = "watch"
  /\ \A g, h \in Gens : /\ Proc(g) # Watch(h)
                        /\ Proc(g) = Proc(h) => g = h
                        /\ Watch(g) = Watch(h) => g = h
  /\ \A t \in Threads : t # Op => \E g \in Gens : t = Proc(g) \/ t = Watch(g)
BY Zenon DEF Threads, Op, Proc, Watch, NoThread

\* The shared steps keep every goroutine where its code can be.
LEMMA ThreadsOKStep ==
  ASSUME ThreadsOK, NEW t \in Threads
  PROVE  /\ \A p \in PCs(t) : Goto(t, p) \/ LockAt(t, p) => ThreadsOK'
         /\ Finish(t) => ThreadsOK'
         /\ \A p \in Thens(t) :
              Persist(t, p) \/ LockAndPersist(t, p) => ThreadsOK'
<1>1. {"idle", "clone"} \subseteq PCs(t)
  BY Zenon DEF PCs, OpPCs, ProcPCs, WatchPCs, PersistPCs
<1>2. PCs(t) \subseteq OpPCs \cup ProcPCs \cup WatchPCs /\ Thens(t) \subseteq OpPCs
  BY Zenon DEF PCs, Thens, OpPCs, PersistPCs
<1>3. ASSUME NEW p \in PCs(t), Goto(t, p) \/ LockAt(t, p) PROVE ThreadsOK'
  BY <1>2, <1>3, Zenon DEF ThreadsOK, Goto, LockAt
<1>4. ASSUME Finish(t) PROVE ThreadsOK'
  BY <1>1, <1>2, <1>4, Zenon DEF ThreadsOK, Finish
<1>5. ASSUME NEW p \in Thens(t), Persist(t, p) \/ LockAndPersist(t, p)
      PROVE  ThreadsOK'
  BY <1>1, <1>2, <1>5, Zenon DEF ThreadsOK, Persist, LockAndPersist
<1> QED BY <1>3, <1>4, <1>5, Zenon

\* The counters of an entry are natural numbers.
LEMMA Counters ==
  ASSUME TypeOK
  PROVE  /\ entry.generation \in 0 .. MaxGen /\ entry.exitDone \in 0 .. MaxGen
         /\ entry.generation \in Nat /\ entry.exitDone \in Nat
         /\ entry.attempt \in Nat /\ MaxGen \in Nat /\ Gens \subseteq Nat
         /\ entry.generation < MaxGen =>
              entry.generation + 1 \in 0 .. MaxGen /\ entry.generation + 1 \in Gens
BY BoundsAssumption DEF TypeOK, Entries, Gens

\* So is everything a generation is compared with.
LEMMA GenTypes ==
  ASSUME TypeOK
  PROVE  /\ \A t \in Threads : t.gen \in Nat
         /\ \A tm \in armed \cup fired : tm.gen \in Nat
         /\ \A g \in closed : g \in Nat
<1>1. \A t \in Threads : t.gen \in Nat
  BY DEF Threads, Op, Proc, Watch, Gens
<1>2. \A tm \in armed \cup fired : tm.gen \in Nat
  BY DEF TypeOK, Timers, Gens
<1>3. \A g \in closed : g \in Nat
  BY DEF TypeOK, Gens
<1> QED BY <1>1, <1>2, <1>3, Zenon

\* There is an entry, hence a generation, whenever the Op call is under way.
LEMMA OpGeneration ==
  ASSUME IInv, pc[Op] # "idle"
  PROVE  Exists /\ entry.generation \in Gens /\ entry.exitDone \in Gens
BY BoundsAssumption
   DEF IInv, TypeOK, ControlInv, ExistsInv, GenInv, Exists, Entries, Gens

\* Unmounting leaves a table and a data directory.
LEMMA TableType ==
  ASSUME TypeOK
  PROVE  /\ \A i \in 1 .. Len(table) : TableWithout(i) \in Seq(Gens)
         /\ TableWithoutTop \in Seq(Gens)
         /\ \A c, r : Unmounting(c, r) \/ Clearing(c, r) =>
              /\ table' \in Seq(Gens)
              /\ data' \in {"none", "dir", "unsynced"}
<1>1. ASSUME NEW i \in 1 .. Len(table) PROVE TableWithout(i) \in Seq(Gens)
  <2>1. SubSeq(table, 1, i - 1) \in Seq(Gens)
    BY SubSeqProperties DEF TypeOK
  <2>2. SubSeq(table, i + 1, Len(table)) \in Seq(Gens)
    BY SubSeqProperties DEF TypeOK
  <2> QED BY <2>1, <2>2 DEF TableWithout
<1>2. TableWithoutTop \in Seq(Gens)
  BY <1>1 DEF TypeOK, TableWithoutTop, Mounted
<1> QED BY <1>1, <1>2, Zenon DEF TypeOK, Unmounting, Clearing

\* A new entry is an entry.
LEMMA NewEntryType ==
  ASSUME NEW g \in 0 .. MaxGen, NEW attempt \in Nat, NEW mountedAt \in BOOLEAN
  PROVE  NewEntry(g, attempt, mountedAt) \in Entries
<1>1. "PENDING_MOUNT" \in States /\ 0 \in 0 .. MaxGen
  BY BoundsAssumption DEF States
<1> QED BY <1>1, Zenon DEF NewEntry, Entries

\* No entry yet: nothing holds anything.
LEMMA InitIInv == Init => IInv
<1> SUFFICES ASSUME Init PROVE IInv
  OBVIOUS
<1>1. ThreadsOK
  BY Zenon DEF Init, ThreadsOK, PCs, Thens, OpPCs, ProcPCs, WatchPCs, PersistPCs,
         Records, NoRecord
<1>2. entry \in Entries
  <2>1. 0 \in 0 .. MaxGen /\ 1 \in Nat
    BY BoundsAssumption
  <2>2. NewEntry(0, 1, FALSE) \in Entries
    BY <2>1, NewEntryType, Zenon
  <2> QED BY <2>2, Zenon DEF Init, Entries, States
<1>3. TypeOK
  BY <1>1, <1>2, ClientsAssumption
     DEF Init, TypeOK, NoCall, States, Records, NoRecord, ChildStates
<1>4. ControlInv
  BY ThreadFacts, AttemptsAssumption
     DEF Init, NewEntry, NoRecord, ControlInv, LockInv, ExistsInv, GenInv,
         ExitInv, AttemptInv, UnmountInv, UnmountPrevails, Exists, Starting,
         Spawning, Stopping, OpAt, Pending, Carries, NoCall
<1> QED BY <1>3, <1>4, Zenon DEF IInv

-----------------------------------------------------------------------------
(* Steps that preserve ControlInv, by what they do.                         *)

\* Only goroutine t moves.
OthersStay(t) ==
  \A u \in Threads : u # t => pc'[u] = pc[u] /\ then'[u] = then[u]

\* The entry keeps what the goroutines identify it by.
SameAttempt ==
  /\ entry'.generation = entry.generation
  /\ entry'.exitDone = entry.exitDone
  /\ entry'.attempt = entry.attempt

\* The records in flight and in the repository stay within the limit.
RecordsBounded ==
  /\ db.attempt <= MaxAttempts
  /\ \A t \in Threads : rec[t].attempt <= MaxAttempts

\* Nothing that ControlInv speaks of changes, except that timers go and
\* records are deleted.
LEMMA QuietStep ==
  ASSUME IInv, SameAttempt, entry'.unmounting = entry.unmounting,
         entry'.state = entry.state, RecordsBounded',
         UNCHANGED <<operation, pc, then, closed>>,
         armed' \cup fired' \subseteq armed \cup fired,
         Exists' <=> Exists,
         req' = req,
         stop' = "locking" => Exists
  PROVE  ControlInv'
<1>1. LockInv' BY Zenon DEF IInv, ControlInv, LockInv
<1>2. ExistsInv'
  <2>1. ~Exists' => armed' = {} /\ fired' = {}
    BY Zenon DEF IInv, ControlInv, ExistsInv
  <2> QED BY <2>1, Zenon DEF IInv, ControlInv, ExistsInv
<1>3. GenInv'
  BY Zenon DEF IInv, ControlInv, GenInv, SameAttempt, Pending
<1>4. ExitInv'
  BY Zenon DEF IInv, ControlInv, ExitInv, SameAttempt, Starting, Spawning, OpAt,
         CurrentExited
<1>5. AttemptInv'
  BY Zenon DEF IInv, ControlInv, AttemptInv, SameAttempt, RecordsBounded, Pending,
         Carries, GenerationOf
<1>6. UnmountInv'
  BY Zenon DEF IInv, ControlInv, UnmountInv, UnmountPrevails, Starting, Spawning,
         Stopping, OpAt
<1> QED BY <1>1, <1>2, <1>3, <1>4, <1>5, <1>6, Zenon DEF ControlInv

\* The Op call moves on or returns, and is not about to start a process: it
\* had not been, or it has closed the channel of the attempt it gives up.
LEMMA OpMove ==
  ASSUME IInv, SameAttempt, OthersStay(Op), pc[Op] # "idle",
         \/ pc'[Op] # "idle" /\ operation' = operation
         \/ pc'[Op] = "idle" /\ operation' = NoThread,
         ~Starting', ~Spawning', pc'[Op] # "tombstone",
         closed' = IF Starting \/ Spawning THEN closed \cup {entry.exitDone}
                   ELSE closed,
         UnmountPrevails', Stopping' => ~entry'.unmounting,
         Carries(Op)' => entry.attempt < MaxAttempts,
         RecordsBounded', reg' \in {"managed", "removed"}, UNCHANGED timerVars
  PROVE  ControlInv'
<1>0. /\ TypeOK /\ operation = Op /\ Exists /\ Exists'
      /\ entry.exitDone \in Gens /\ entry.exitDone \in Nat
      /\ entry.generation \in Nat
  BY OpGeneration, Counters, Zenon DEF IInv, ControlInv, LockInv, Exists
<1>1. LockInv'
  BY <1>0, ThreadFacts DEF IInv, ControlInv, LockInv, OthersStay
<1>2. ExistsInv'
  BY <1>0, Zenon DEF ExistsInv
<1>3. GenInv'
  BY <1>0, ThreadFacts, ZenonT(30)
     DEF IInv, ControlInv, GenInv, OthersStay, SameAttempt, Pending, timerVars
<1>4. ExitInv'
  <2>1. \A g \in Gens : pc'[Proc(g)] = pc[Proc(g)]
    BY ThreadFacts, Zenon DEF OthersStay
  <2>2. \A g \in Gens : pc[Proc(g)] = "run" => g \notin closed'
    <3>1. ASSUME NEW g \in Gens, pc[Proc(g)] = "run", g \in closed' PROVE FALSE
      <4>1. g \notin closed /\ g = entry.exitDone
        BY <3>1, Zenon DEF IInv, ControlInv, ExitInv
      <4>2. ~Starting /\ ~Spawning
        BY <3>1, <4>1, Zenon DEF IInv, ControlInv, ExitInv
      <4> QED BY <3>1, <4>1, <4>2, Zenon
    <3> QED BY <3>1, Zenon
  <2>3. entry.exitDone \in closed' \/ pc[Proc(entry.exitDone)] = "run"
    BY <1>0, Zenon DEF IInv, ControlInv, ExitInv, CurrentExited
  <2> QED BY <1>0, <2>1, <2>2, <2>3, Zenon DEF ExitInv, CurrentExited, SameAttempt
<1>5. AttemptInv'
  <2>1. \A t \in Threads : t # Op => (Carries(t)' <=> Carries(t))
    BY Zenon DEF OthersStay, Carries
  <2> QED BY <2>1, Zenon
          DEF IInv, ControlInv, AttemptInv, SameAttempt, RecordsBounded, Pending,
              timerVars, GenerationOf
<1>6. UnmountInv' BY Zenon DEF UnmountInv
<1> QED BY <1>1, <1>2, <1>3, <1>4, <1>5, <1>6, Zenon DEF ControlInv

\* A free entry.operation is taken for a new mount attempt with a channel of
\* its own.
LEMMA FreshAttempt ==
  ASSUME IInv, entry.generation < MaxGen, OperationFree, operation' = Op,
         entry'.generation = entry.generation + 1,
         entry'.exitDone = entry.generation + 1,
         entry'.attempt \in Nat, entry'.attempt <= MaxAttempts,
         ~entry'.unmounting, OthersStay(Op),
         \/ pc'[Op] = "create"
         \/ pc'[Op] = "clone" /\ then'[Op] = "start",
         RecordsBounded', UNCHANGED closed, Exists',
         armed' \cup fired' \subseteq armed \cup fired
  PROVE  ControlInv'
<1>0. /\ TypeOK /\ GenInv
      /\ entry.generation + 1 \in Gens /\ entry.generation \in Nat
      /\ \A t \in Threads : t.gen \in Nat
      /\ \A tm \in armed \cup fired : tm.gen \in Nat
      /\ \A g \in closed : g \in Nat
  BY Counters, GenTypes, Zenon DEF IInv, ControlInv
<1>1. LockInv'
  BY ThreadFacts, ZenonT(30) DEF IInv, ControlInv, LockInv, OthersStay, OperationFree
<1>2. ExistsInv' BY Zenon DEF ExistsInv, Exists
<1>3. GenInv'
  BY <1>0, ThreadFacts DEF GenInv, OthersStay, Pending
<1>4. ExitInv'
  <2>1. pc'[Proc(entry.generation + 1)] = "idle"
    BY <1>0, ThreadFacts DEF GenInv, OthersStay
  <2>2. entry.generation + 1 \notin closed
    BY <1>0 DEF GenInv
  <2>3. Starting'
    BY Zenon DEF Starting, OpAt
  <2>4. \A g \in Gens : pc'[Proc(g)] = "run" => g \notin closed'
    BY ThreadFacts, Zenon DEF IInv, ControlInv, ExitInv, OthersStay
  <2> QED BY <2>1, <2>2, <2>3, <2>4, Zenon DEF ExitInv
<1>5. AttemptInv'
  <2>1. \A tm \in Pending' : tm.gen # entry'.generation
    BY <1>0 DEF GenInv, Pending
  <2>2. \A t \in Threads : Carries(t)' => GenerationOf(t)' # entry'.generation
    <3>1. ~Carries(Op)'
      BY Zenon DEF Carries
    <3>2. ASSUME NEW t \in Threads, t # Op, Carries(t)'
          PROVE  GenerationOf(t)' # entry'.generation
      <4>1. pc[t] # "idle"
        BY <3>2, Zenon DEF Carries, OthersStay
      <4> QED BY <1>0, <3>2, <4>1 DEF GenInv, GenerationOf
    <3> QED BY <3>1, <3>2, Zenon
  <2> QED BY <2>1, <2>2, Zenon DEF AttemptInv, RecordsBounded
<1>6. UnmountInv'
  BY Zenon DEF UnmountInv, UnmountPrevails
<1> QED BY <1>1, <1>2, <1>3, <1>4, <1>5, <1>6, Zenon DEF ControlInv

\* A free entry.operation is taken for an attempt to unmount.
LEMMA UnmountAttempt ==
  ASSUME IInv, Exists, entry.generation < MaxGen, OperationFree, operation' = Op,
         entry'.generation = entry.generation + 1,
         entry'.exitDone = entry.exitDone, entry'.attempt <= MaxAttempts,
         entry'.state = "UNMOUNTING", OthersStay(Op),
         \/ /\ pc'[Op] = "tombstone"
            /\ req'.wasUnmounting = entry.unmounting
            /\ req'.previousState = entry.state
         \/ pc'[Op] = "clone" /\ then'[Op] = "probe",
         RecordsBounded', UNCHANGED <<closed, reg>>,
         armed' \cup fired' \subseteq armed \cup fired
  PROVE  ControlInv'
<1>0. /\ TypeOK /\ GenInv /\ pc[Op] = "idle"
      /\ entry.generation \in Nat /\ entry.exitDone \in Nat
      /\ entry.exitDone \in Gens
      /\ \A t \in Threads : t.gen \in Nat
      /\ \A tm \in armed \cup fired : tm.gen \in Nat
      /\ \A g \in closed : g \in Nat
  <2>1. TypeOK /\ GenInv /\ pc[Op] = "idle"
    BY ThreadFacts, Zenon DEF IInv, ControlInv, LockInv, OperationFree
  <2>2. entry.exitDone >= 1
    BY <2>1, Zenon DEF GenInv
  <2> QED BY <2>1, <2>2, Counters, GenTypes DEF Gens
<1>1. LockInv'
  BY ThreadFacts DEF IInv, ControlInv, LockInv, OthersStay, OperationFree
<1>2. ExistsInv' BY Zenon DEF ExistsInv, Exists
<1>3. GenInv'
  BY <1>0, ThreadFacts DEF GenInv, OthersStay, Pending, Exists
<1>4. ExitInv'
  <2>1. \A g \in Gens : pc'[Proc(g)] = pc[Proc(g)]
    BY ThreadFacts, Zenon DEF OthersStay
  <2>2. ~Starting /\ ~Spawning /\ ~Starting' /\ ~Spawning'
    BY <1>0, Zenon DEF Starting, Spawning, OpAt
  <2> QED BY <1>0, <2>1, <2>2, Zenon DEF IInv, ControlInv, ExitInv, CurrentExited
<1>5. AttemptInv'
  <2>1. \A tm \in Pending' : tm.gen # entry'.generation
    BY <1>0 DEF GenInv, Pending
  <2>2. \A t \in Threads : Carries(t)' => GenerationOf(t)' # entry'.generation
    <3>1. ~Carries(Op)'
      BY Zenon DEF Carries
    <3>2. ASSUME NEW t \in Threads, t # Op, Carries(t)'
          PROVE  GenerationOf(t)' # entry'.generation
      <4>1. pc[t] # "idle"
        BY <3>2, Zenon DEF Carries, OthersStay
      <4> QED BY <1>0, <3>2, <4>1 DEF GenInv, GenerationOf
    <3> QED BY <3>1, <3>2, Zenon
  <2> QED BY <2>1, <2>2, Zenon DEF AttemptInv, RecordsBounded
<1>6. UnmountInv'
  BY Zenon DEF IInv, ControlInv, UnmountInv, UnmountPrevails, Starting, Spawning,
         Stopping, OpAt
<1> QED BY <1>1, <1>2, <1>3, <1>4, <1>5, <1>6, Zenon DEF ControlInv

\* A waiter may move on, take or release entry.operation, and change the state
\* of an entry that is not being unmounted.
LEMMA WaiterStep ==
  ASSUME IInv, NEW t \in Threads, t # Op, OthersStay(t), SameAttempt,
         pc[t] \notin {"idle", "run"}, pc'[t] # "run",
         Carries(t)' => entry.attempt < MaxAttempts,
         \/ operation' = operation
         \/ operation = t /\ operation' = NoThread
         \/ operation = NoThread /\ operation' = t,
         pc'[t] = "reap" => operation' = t,
         entry'.unmounting = entry.unmounting,
         entry'.state = entry.state \/ ~entry.unmounting,
         UNCHANGED <<rec, callVars, timerVars, closed, db, daemonVars>>
  PROVE  ControlInv'
<1>0. /\ TypeOK /\ pc'[Op] = pc[Op] /\ then'[Op] = then[Op]
      /\ Exists /\ (Exists' <=> Exists) /\ entry.exitDone \in Gens
  <2>1. Exists
    BY ThreadFacts DEF IInv, ControlInv, ExistsInv
  <2>2. TypeOK /\ entry.exitDone >= 1
    BY <2>1, Zenon DEF IInv, ControlInv, GenInv
  <2> QED BY <2>1, <2>2, ThreadFacts, Counters DEF OthersStay, Exists, callVars, Gens
<1>1. (Starting' <=> Starting) /\ (Spawning' <=> Spawning) /\ (Stopping' <=> Stopping)
  BY <1>0, Zenon DEF Starting, Spawning, Stopping, OpAt
<1>2. LockInv'
  BY ThreadFacts DEF IInv, ControlInv, LockInv, OthersStay
<1>3. ExistsInv' BY <1>0, Zenon DEF ExistsInv
<1>4. GenInv'
  BY <1>0, Zenon
     DEF IInv, ControlInv, GenInv, OthersStay, SameAttempt, Pending, timerVars
<1>5. ExitInv'
  <2>1. \A g \in Gens : /\ pc'[Proc(g)] = "run" <=> pc[Proc(g)] = "run"
                        /\ pc[Proc(g)] = "idle" => pc'[Proc(g)] = "idle"
    BY ThreadFacts, Zenon DEF OthersStay
  <2> QED BY <1>0, <1>1, <2>1, Zenon
          DEF IInv, ControlInv, ExitInv, CurrentExited, SameAttempt
<1>6. AttemptInv'
  <2>1. \A u \in Threads : u # t => (Carries(u)' <=> Carries(u))
    BY Zenon DEF OthersStay, Carries
  <2> QED BY <2>1, Zenon
          DEF IInv, ControlInv, AttemptInv, SameAttempt, Pending, timerVars,
              GenerationOf
<1>7. UnmountInv'
  BY <1>0, <1>1, Zenon DEF IInv, ControlInv, UnmountInv, UnmountPrevails, callVars
<1> QED BY <1>2, <1>3, <1>4, <1>5, <1>6, <1>7, Zenon DEF ControlInv

\* A goroutine is on its way through persistRecord and the arming of a timer.
LEMMA PersistMove ==
  ASSUME IInv, NEW t \in Threads, OthersStay(t), SameAttempt,
         pc[t] \in {"clone", "write", "arm", "store"},
         pc'[t] \notin {"run", "reap", "tombstone"},
         \/ pc'[t] # "idle" /\ operation' = operation
         \/ pc'[t] = "idle" /\ operation' = IF operation = t THEN NoThread
                                            ELSE operation,
         t = Op => /\ Starting' <=> Starting
                   /\ Spawning' <=> Spawning
                   /\ Stopping' <=> Stopping,
         Carries(t)' => Carries(t),
         \A tm \in Pending' :
           tm \in Pending \/ (tm.gen = GenerationOf(t) /\ Carries(t)),
         entry'.unmounting = entry.unmounting, entry'.state = entry.state,
         RecordsBounded', UNCHANGED <<closed, callVars>>
  PROVE  ControlInv'
<1>0. /\ TypeOK /\ Exists /\ (Exists' <=> Exists) /\ entry.exitDone \in Gens
      /\ entry.generation \in Nat
  <2>1. Exists
    BY ThreadFacts, Zenon DEF IInv, ControlInv, ExistsInv
  <2>2. TypeOK /\ entry.exitDone >= 1
    BY <2>1, Zenon DEF IInv, ControlInv, GenInv
  <2> QED BY <2>1, <2>2, Counters DEF Exists, callVars, Gens
<1>1. (Starting' <=> Starting) /\ (Spawning' <=> Spawning) /\ (Stopping' <=> Stopping)
  BY ThreadFacts, Zenon DEF OthersStay, Starting, Spawning, Stopping, OpAt
<1>2. LockInv'
  BY ThreadFacts DEF IInv, ControlInv, LockInv, OthersStay
<1>3. ExistsInv' BY <1>0, Zenon DEF ExistsInv
<1>4. GenInv'
  <2>1. GenerationOf(t) <= entry.generation
    BY <1>0 DEF IInv, ControlInv, GenInv, GenerationOf
  <2> QED BY <1>0, <2>1, Zenon
          DEF IInv, ControlInv, GenInv, OthersStay, SameAttempt
<1>5. ExitInv'
  <2>1. \A g \in Gens : /\ pc'[Proc(g)] = "run" <=> pc[Proc(g)] = "run"
                        /\ pc[Proc(g)] = "idle" => pc'[Proc(g)] = "idle"
    BY ThreadFacts, ZenonT(30) DEF OthersStay
  <2> QED BY <1>0, <1>1, <2>1, Zenon
          DEF IInv, ControlInv, ExitInv, CurrentExited, SameAttempt
<1>6. AttemptInv'
  <2>1. \A u \in Threads : Carries(u)' => Carries(u)
    BY Zenon DEF OthersStay, Carries
  <2>2. \A u \in Threads : GenerationOf(u)' = GenerationOf(u)
    BY Zenon DEF GenerationOf, SameAttempt
  <2> QED BY <2>1, <2>2, Zenon
          DEF IInv, ControlInv, AttemptInv, SameAttempt, RecordsBounded
<1>7. UnmountInv'
  <2>1. pc'[Op] = "tombstone" => pc[Op] = "tombstone"
    BY ThreadFacts, Zenon DEF OthersStay
  <2> QED BY <1>0, <1>1, <2>1, Zenon
          DEF IInv, ControlInv, UnmountInv, UnmountPrevails, callVars
<1> QED BY <1>2, <1>3, <1>4, <1>5, <1>6, <1>7, Zenon DEF ControlInv

-----------------------------------------------------------------------------
(* The shared steps, as the lemmas above see them.                          *)

\* Which goroutine moves, and where to.
LEMMA MoveFacts ==
  ASSUME ThreadsOK, NEW t \in Threads
  PROVE  /\ \A p : Goto(t, p) =>
              /\ OthersStay(t) /\ pc'[t] = p /\ then'[t] = then[t]
              /\ operation' = operation /\ rec' = rec
         /\ \A p : LockAt(t, p) =>
              /\ OthersStay(t) /\ pc'[t] = p /\ then'[t] = then[t]
              /\ OperationFree /\ operation' = t /\ rec' = rec
         /\ Finish(t) =>
              /\ OthersStay(t) /\ pc'[t] = "idle" /\ then'[t] = then[t]
              /\ operation' = IF operation = t THEN NoThread ELSE operation
              /\ rec' = rec
         /\ \A p : Persist(t, p) =>
              /\ OthersStay(t) /\ pc'[t] = "clone" /\ then'[t] = p
              /\ operation' = operation /\ rec' = rec
         /\ \A p : LockAndPersist(t, p) =>
              /\ OthersStay(t) /\ pc'[t] = "clone" /\ then'[t] = p
              /\ OperationFree /\ operation' = t /\ rec' = rec
BY Zenon DEF ThreadsOK, Goto, LockAt, Finish, Persist, LockAndPersist, OthersStay, Holds

\* The Op call goes on to its next point.
LEMMA OpGoesOn ==
  ASSUME IInv, NEW p, Goto(Op, p),
         pc[Op] \in {"probe", "wait", "killwait", "remove", "delete",
                     "stopprobe", "stopwait"},
         p \in {"wait", "killwait", "remove", "delete", "unregister",
                "stopwait", "stopkill"},
         p \in {"stopwait", "stopkill"} => pc[Op] \in {"stopprobe", "stopwait"},
         db' \in {db, NoRecord}, UNCHANGED <<entry, reg, timerVars, closed>>
  PROVE  ControlInv'
<1>1. /\ OthersStay(Op) /\ pc'[Op] = p /\ operation' = operation /\ rec' = rec
  BY MoveFacts, ThreadFacts, Zenon DEF IInv, TypeOK
<1>2. ~Starting /\ ~Spawning /\ ~Starting' /\ ~Spawning' /\ ~Carries(Op)'
  BY <1>1, Zenon DEF Starting, Spawning, OpAt, Carries
<1>3. Stopping' => ~entry'.unmounting
  BY <1>1, Zenon DEF IInv, ControlInv, UnmountInv, Stopping, OpAt
<1>4. RecordsBounded'
  BY <1>1, AttemptsAssumption
     DEF IInv, ControlInv, AttemptInv, RecordsBounded, NoRecord
<1>5. SameAttempt /\ UnmountPrevails'
  BY Zenon DEF IInv, ControlInv, UnmountInv, UnmountPrevails, SameAttempt
<1>6. reg' \in {"managed", "removed"}
  BY Zenon DEF IInv, ControlInv, ExistsInv, Exists
<1> QED BY <1>1, <1>2, <1>3, <1>4, <1>5, <1>6, OpMove, Zenon

\* The Op call returns, or persists a record before it does.
LEMMA OpEnds ==
  ASSUME IInv, SameAttempt, pc[Op] \notin {"idle", "spawn", "clone", "write"},
         \/ Finish(Op)
         \/ Persist(Op, "idle")
         \/ Persist(Op, "arm") /\ entry.attempt < MaxAttempts
         \/ Persist(Op, "stopped") /\ pc[Op] \in {"stopwait", "stopkill"},
         entry'.unmounting = entry.unmounting,
         entry.unmounting => entry'.state \in {"UNMOUNTING", "RETRY_WAIT", "FAILED"},
         closed' = IF pc[Op] \in {"create", "start"}
                     THEN closed \cup {entry.exitDone} ELSE closed,
         reg' \in {"managed", "removed"}, UNCHANGED <<timerVars, db>>
  PROVE  ControlInv'
<1>1. operation = Op
  BY Zenon DEF IInv, ControlInv, LockInv
<1>2. /\ OthersStay(Op) /\ rec' = rec
      /\ \/ pc'[Op] = "idle" /\ operation' = NoThread
         \/ /\ pc'[Op] = "clone" /\ operation' = operation
            /\ \/ then'[Op] = "idle"
               \/ then'[Op] = "arm" /\ entry.attempt < MaxAttempts
               \/ then'[Op] = "stopped" /\ pc[Op] \in {"stopwait", "stopkill"}
  <2>0. ThreadsOK /\ Op \in Threads
    BY ThreadFacts, Zenon DEF IInv, TypeOK
  <2>1. CASE Finish(Op)
    BY <1>1, <2>0, <2>1, MoveFacts, Zenon
  <2>2. CASE Persist(Op, "idle")
    BY <1>1, <2>0, <2>2, MoveFacts, Zenon
  <2>3. CASE Persist(Op, "arm") /\ entry.attempt < MaxAttempts
    BY <1>1, <2>0, <2>3, MoveFacts, Zenon
  <2>4. CASE Persist(Op, "stopped") /\ pc[Op] \in {"stopwait", "stopkill"}
    BY <1>1, <2>0, <2>4, MoveFacts, Zenon
  <2> QED BY <2>1, <2>2, <2>3, <2>4, Zenon
<1>3. /\ ~Spawning /\ ~Starting' /\ ~Spawning' /\ pc'[Op] # "tombstone"
      /\ Starting <=> pc[Op] \in {"create", "start"}
      /\ Carries(Op)' => entry.attempt < MaxAttempts
  BY <1>2, Zenon DEF Starting, Spawning, OpAt, Carries
<1>4. Stopping' => ~entry'.unmounting
  BY <1>2, Zenon DEF IInv, ControlInv, UnmountInv, Stopping, OpAt
<1>5. RecordsBounded'
  BY <1>2, Zenon DEF IInv, ControlInv, AttemptInv, RecordsBounded
<1>6. UnmountPrevails'
  BY Zenon DEF UnmountPrevails
<1> QED BY <1>2, <1>3, <1>4, <1>5, <1>6, OpMove, Zenon
====
