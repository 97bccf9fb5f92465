-------------------------- MODULE MountEntryInvariant --------------------------
(***************************************************************************)
(* The inductive invariant behind the safety properties of MountEntry.     *)
(***************************************************************************)
EXTENDS MountEntry

\* An entry exists: in manager.mounts, or still known to its goroutines.
Exists == reg \in {"managed", "removed"}

\* The Op call is at one of the points P, or persists a record on its way there.
OpAt(P) ==
  \/ pc[Op] \in P
  \/ pc[Op] \in {"clone", "write"} /\ then[Op] \in P

Starting == OpAt({"create", "start"})
Spawning == OpAt({"spawn"})
Stopping == OpAt({"stopprobe", "stopwait", "stopkill", "stopped"})

Pending == armed \cup fired

\* Who holds entry.operation.
LockInv ==
  /\ pc[Op] # "idle" <=> operation = Op
  /\ \A g \in Gens : pc[Watch(g)] = "reap" => operation = Watch(g)

\* Nothing runs for an entry that does not exist.
ExistsInv ==
  ~Exists => /\ armed = {} /\ fired = {}
             /\ pc[Op] = "idle"
             /\ \A g \in Gens : pc[Proc(g)] = "idle" /\ pc[Watch(g)] = "idle"
             /\ stop # "locking"

\* No goroutine, timer or channel is ahead of entry.generation.
GenInv ==
  /\ Exists => entry.generation >= 1 /\ entry.exitDone >= 1
  /\ entry.exitDone <= entry.generation
  /\ \A t \in Threads : pc[t] # "idle" => t.gen <= entry.generation
  /\ \A g \in closed : g <= entry.generation
  /\ \A tm \in Pending : tm.gen <= entry.generation

\* Who closes the exitDone channel of an attempt.
ExitInv ==
  /\ \A g \in Gens : pc[Proc(g)] = "run" => g \notin closed
  /\ Starting \/ Spawning => /\ entry.exitDone = entry.generation
                             /\ entry.exitDone \notin closed
                             /\ pc[Proc(entry.exitDone)] = "idle"
  /\ Exists /\ ~Starting /\ ~Spawning =>
       CurrentExited \/ pc[Proc(entry.exitDone)] = "run"

\* A retry is promised only while attempts are left, and survives neither the
\* generation it was promised for nor the record of an earlier daemon.
AttemptInv ==
  /\ entry.attempt <= MaxAttempts
  /\ db.attempt <= MaxAttempts
  /\ \A t \in Threads : rec[t].attempt <= MaxAttempts
  /\ \A tm \in Pending : tm.gen = entry.generation => entry.attempt < MaxAttempts
  /\ \A t \in Threads : Carries(t) /\ GenerationOf(t) = entry.generation
                          => entry.attempt < MaxAttempts

\* An unmount owns the entry until it is rolled back.
UnmountInv ==
  /\ UnmountPrevails
  /\ Starting \/ Spawning \/ Stopping => ~entry.unmounting
  /\ pc[Op] = "tombstone" /\ req.wasUnmounting =>
       req.previousState \in {"UNMOUNTING", "RETRY_WAIT", "FAILED"}

ControlInv ==
  LockInv /\ ExistsInv /\ GenInv /\ ExitInv /\ AttemptInv /\ UnmountInv

IInv == TypeOK /\ ControlInv
-----------------------------------------------------------------------------
(* What ties the client process, the repository and the data directory to  *)
(* the entry.                                                              *)

OpUnmounting == OpAt({"tombstone", "probe", "wait", "killwait", "remove",
                      "delete", "unregister"})

\* The process that entry.command names, if there is one, is over or killed.
Settled ==
  \/ entry.command = 0
  \/ ~Alive(entry.command)
  \/ entry.command \in killed

\* Goroutine t reports the end of its attempt, or is about to.
Reports(t) == Carries(t) \/ pc[t] \in {"cleanup", "reap", "record", "terminal"}

\* Whose process entry.command is.
CommandInv ==
  /\ entry.command # 0 => entry.command = entry.exitDone
  /\ ~Exists \/ Starting => entry.command = 0
  /\ Spawning => entry.command = entry.generation
  /\ \A g \in Gens : g = entry.generation /\ pc[Proc(g)] # "idle" =>
                       entry.command = g

\* A closed exitDone means that no process is left; none is ahead of its time.
ChildInv ==
  /\ \A g \in Gens : g > entry.generation => child[g] = "none"
  /\ Starting => child[entry.generation] = "none"
  /\ \A g \in closed : ~Alive(g)

\* What was left by earlier attempts is not of the one being started.
FreshInv ==
  Starting \/ Spawning => /\ \A tm \in Pending : tm.gen # entry.generation
                          /\ pc[Watch(entry.generation)] = "idle"

\* The Op call unmounts under the mark of an unmount, which a removed entry keeps.
MarkInv == OpUnmounting \/ reg = "removed" => entry.unmounting

\* Nobody retries a mount, or takes its files away, while its process runs.
SettledInv ==
  /\ \A tm \in Pending : tm.by # "unmount" /\ tm.gen = entry.generation => Settled
  /\ Carries(Op) /\ ~entry.unmounting => Settled
  /\ pc[Op] \in {"remove", "delete", "unregister"} => Settled
  /\ \A t \in Threads \ {Op} :
       Reports(t) /\ (t.gen = entry.generation \/ pc[t] = "reap") => Settled

\* A record in flight is not the absence of one.
AttemptsCounted ==
  /\ entry.attempt # 0
  /\ db.attempt = 0 => db = NoRecord
  /\ \A t \in Threads : pc[t] \in {"write", "tombstone"} => rec[t].attempt # 0

\* Mount has not created the record (yet), or could not: nothing was ever
\* started, and only an unmount (in vain) or shutdown can come.
OpUnstarted == pc[Op] \in {"idle", "create", "tombstone"} \/ Stopping
NeverStarted ==
  /\ entry.command = 0
  /\ Pending = {}
  /\ \A t \in Threads \ {Op} : pc[t] = "idle"
  /\ OpUnstarted

\* A managed entry without a record has not begun, or has just come to its end.
RecordInv ==
  reg = "managed" /\ db = NoRecord => NeverStarted \/ pc[Op] = "unregister"

\* The files of a running process are in place.
DataInv == reg = "managed" /\ ~Settled => data # "none"

\* No goroutine is about to write the mark of an unmount that is no longer in
\* control, if no unmount is rolled back under it: the repository does not
\* fail and callers do not leave.
NoRollback == "db" \notin Faults /\ "cancel" \notin Faults
IntentInv ==
  /\ stop = "stopping" => Stopping
  /\ pc[Op] = "tombstone" => reg = "managed"
  /\ NoRollback =>
       \A t \in Threads : pc[t] = "write" /\ rec[t].tomb => entry.unmounting

ProcessInv ==
  /\ CommandInv /\ ChildInv /\ FreshInv /\ MarkInv /\ SettledInv
  /\ AttemptsCounted /\ RecordInv /\ DataInv /\ IntentInv /\ OneLiveClient
-----------------------------------------------------------------------------
(* The abstract specification.  A mount's process runs unless the one that *)
(* entry.command names is over or killed.                                  *)

Promise == INSTANCE ManagedMount
  WITH phase <- reg, unmounting <- entry.unmounting, attempt <- entry.attempt,
       running <- ~Settled, recorded <- db # NoRecord, files <- data # "none"

\* The goroutines, timers and callers of an entry keep the promise of
\* ManagedMount: what mount_manager.go does to the process, the record, the data
\* directory and the attempt count comes in an order that is safe.
KeepsPromise == Promise!Spec

\* An unmount works on an entry that no attempt speaks for any more, and after
\* it nothing does.
AloneInv ==
  OpUnmounting \/ reg = "removed" =>
    /\ \A tm \in Pending : tm.gen # entry.generation
    /\ \A t \in Threads \ {Op} : t.gen = entry.generation => pc[t] = "idle"
RemovedInv ==
  reg = "removed" => /\ pc[Op] = "idle" /\ Settled
                     /\ \A t \in Threads : pc[t] # "reap"

\* It has removed the files before it deletes the record.
FilesInv ==
  pc[Op] \in {"delete", "unregister"} \/ reg = "removed" => data = "none"

\* A process that was killed, or that entry.command names, was started.
StartedInv ==
  /\ entry.command # 0 => child[entry.command] # "none"
  /\ \A g \in killed : child[g] # "none"

PromiseInv == AloneInv /\ RemovedInv /\ FilesInv /\ StartedInv
====
