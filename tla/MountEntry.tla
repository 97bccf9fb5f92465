------------------------------ MODULE MountEntry ------------------------------
(***************************************************************************)
(* The life of one managed mount (service/mount_manager.go).               *)
(*                                                                         *)
(* A managedMount is driven by several goroutines at once:                 *)
(*                                                                         *)
(*   Op        whoever holds entry.operation to run Mount, remount,        *)
(*             Unmount, retryMount, retryUnmount or shutdownEntry.  The    *)
(*             mutex admits one of them at a time, so one thread name      *)
(*             stands for all; a caller that waits for the mutex is an     *)
(*             enabled action (API calls), a fired timer, or stop =        *)
(*             "locking".                                                  *)
(*   Proc(g)   waitForProcess of the attempt with generation g.            *)
(*   Watch(g)  waitForMount of that attempt; it takes entry.operation      *)
(*             itself when it runs handleMountTimeout.                     *)
(*                                                                         *)
(* An action is what one goroutine does between two points where another   *)
(* can run: a critical section of entry.mutex, one repository transaction, *)
(* one command run against the mount table.  The exec'd mount client, the  *)
(* mount table and the data directory are the environment.                 *)
(*                                                                         *)
(* Generations are compared for equality inside one entry only, so the     *)
(* entry of a restarted daemon continues the count instead of restarting   *)
(* it at 1: that keeps the children of all attempts apart.                 *)
(***************************************************************************)
EXTENDS Integers, Sequences, FiniteSets

CONSTANTS
  Clients,      \* the mount clients the run explores
  MaxAttempts,  \* config.Retry.MaxAttempts
  AutoRemount,  \* config.AutoRemount
  Restore,      \* the values config.RestoreMountsOnRestart has at a restart
  Faults,       \* what the environment may do wrong, see FaultKinds
  MaxGen,       \* bound: generations of a run
  MaxRestarts   \* bound: daemon restarts of a run

ClientTypes == {"irodsfs", "davfs", "nfs"}

(* db: a repository transaction fails; cancel: the context of an API call  *)
(* is done; probe: the mount table cannot be read; unmount: the unmount    *)
(* command fails; lazy: a DAVFS unmount exceeds its timeout and ends in a  *)
(* lazy detach; disk: a directory, log file or process cannot be created   *)
(* or removed; shutdown: the daemon is asked to stop; crash: it dies.      *)
FaultKinds ==
  {"db", "cancel", "probe", "unmount", "lazy", "disk", "shutdown", "crash"}

ASSUME ClientsAssumption == Clients \subseteq ClientTypes /\ Clients # {}
ASSUME AttemptsAssumption == MaxAttempts \in Nat \ {0}
ASSUME PolicyAssumption == AutoRemount \in BOOLEAN /\ Restore \subseteq BOOLEAN
ASSUME FaultsAssumption == Faults \subseteq FaultKinds
ASSUME BoundsAssumption == MaxGen \in Nat \ {0} /\ MaxRestarts \in Nat

VARIABLES
  client,     \* info.Config's client type: fixed by the mount request
  entry,      \* the managedMount
  reg,        \* whether manager.mounts holds the entry
  operation,  \* the holder of entry.operation
  pc,         \* where each goroutine is
  then,       \* where it continues after persistRecord
  rec,        \* the record it has cloned and not yet written
  req,        \* what the running Op call remembers of its caller
  armed,      \* retry timers that have not fired
  fired,      \* retry timers whose function is waiting for entry.operation
  closed,     \* generations whose exitDone channel is closed
  db,         \* the repository's record of this mount
  child,      \* the mount client process of each attempt
  killed,     \* attempts whose process was sent SIGKILL
  table,      \* mounts stacked on the mount path, oldest first
  data,       \* the per-mount data directory
  stop,       \* progress of Shutdown for this entry
  restarts    \* restarts so far

callVars == <<client, reg, req>>
threadVars == <<operation, pc, then, rec>>
timerVars == <<armed, fired>>
systemVars == <<child, killed, table, data>>
daemonVars == <<stop, restarts>>
otherVars == <<timerVars, closed, db, systemVars, daemonVars>>
vars == <<entry, callVars, threadVars, otherVars>>

-----------------------------------------------------------------------------
(* State.                                                                  *)

Gens == 1 .. MaxGen
States == {"PENDING_MOUNT", "MOUNTING", "MOUNTED", "UNMOUNTING",
           "RETRY_WAIT", "FAILED"}

Op == [kind |-> "op", gen |-> 0]
Proc(g) == [kind |-> "proc", gen |-> g]
Watch(g) == [kind |-> "watch", gen |-> g]
NoThread == [kind |-> "none", gen |-> 0]
Threads == {Op} \cup {Proc(g) : g \in Gens} \cup {Watch(g) : g \in Gens}

\* A retry timer is known by the call that armed it and by the generation its
\* function was given; the ones of "unmount" run retryUnmount.
TimerKinds == {"op", "proc", "watch", "unmount"}
Timer(by, g) == [by |-> by, gen |-> g]
Timers == [by : TimerKinds, gen : Gens]
NoTimer == Timer("none", 0)

Records == [attempt : Nat, mountedAt : BOOLEAN, tomb : BOOLEAN]
NoRecord == [attempt |-> 0, mountedAt |-> FALSE, tomb |-> FALSE]

ChildStates == {"none", "starting", "serving", "ok", "failed", "invalid"}

Entries == [state : States, attempt : Nat, mountedAt : BOOLEAN,
            unmounting : BOOLEAN, timedOut : BOOLEAN, stopping : BOOLEAN,
            generation : 0 .. MaxGen, command : 0 .. MaxGen,
            exitDone : 0 .. MaxGen, retryTimer : Timers \cup {NoTimer}]

NewEntry(g, attempt, mountedAt) ==
  [state |-> "PENDING_MOUNT", attempt |-> attempt, mountedAt |-> mountedAt,
   unmounting |-> FALSE, timedOut |-> FALSE, stopping |-> FALSE,
   generation |-> g, command |-> 0, exitDone |-> g, retryTimer |-> NoTimer]

\* entry.persistent and entry.client are set and reset with entry.command.
Persistent == client = "irodsfs" /\ entry.command # 0

Alive(g) == child[g] \in {"starting", "serving"}
Mounted == table # <<>>
\* What a successful unmount of the path leaves: the topmost mount goes.
TableWithout(i) == SubSeq(table, 1, i - 1) \o SubSeq(table, i + 1, Len(table))
TableWithoutTop == IF Mounted THEN TableWithout(Len(table)) ELSE table
\* Mutated: nobody waits for the exit.
ExitNotAwaited == TRUE
CurrentExited == entry.exitDone \in closed

NoCall == [api |-> FALSE, wasUnmounting |-> FALSE, previousState |-> "FAILED"]

\* No entry exists while reg is "absent": its fields are then placeholders.
Init ==
  /\ client \in Clients
  /\ entry = [NewEntry(0, 1, FALSE) EXCEPT !.state = "FAILED"]
  /\ reg = "absent"
  /\ operation = NoThread
  /\ pc = [t \in Threads |-> "idle"]
  /\ then = [t \in Threads |-> "idle"]
  /\ rec = [t \in Threads |-> NoRecord]
  /\ req = NoCall
  /\ armed = {}
  /\ fired = {}
  /\ closed = {}
  /\ db = NoRecord
  /\ child = [g \in Gens |-> "none"]
  /\ killed = {}
  /\ table = <<>>
  /\ data = "none"
  /\ stop = "no"
  /\ restarts = 0

-----------------------------------------------------------------------------
(* Steps shared by several calls.                                          *)

Holds(t) == operation = t
OperationFree == operation = NoThread

\* The goroutine goes on at p.
Goto(t, p) ==
  /\ pc' = [pc EXCEPT ![t] = p]
  /\ UNCHANGED <<operation, then, rec>>

\* entry.operation.Lock(), and on to p.
LockAt(t, p) ==
  /\ OperationFree
  /\ operation' = t
  /\ pc' = [pc EXCEPT ![t] = p]
  /\ UNCHANGED <<then, rec>>

\* The goroutine returns; a deferred entry.operation.Unlock() runs.
Finish(t) ==
  /\ pc' = [pc EXCEPT ![t] = "idle"]
  /\ operation' = IF Holds(t) THEN NoThread ELSE operation
  /\ UNCHANGED <<then, rec>>

\* persistRecord is called next, and p follows it.
Persist(t, p) ==
  /\ pc' = [pc EXCEPT ![t] = "clone"]
  /\ then' = [then EXCEPT ![t] = p]
  /\ UNCHANGED <<operation, rec>>

\* The same, entered together with entry.operation.
LockAndPersist(t, p) ==
  /\ OperationFree
  /\ operation' = t
  /\ pc' = [pc EXCEPT ![t] = "clone"]
  /\ then' = [then EXCEPT ![t] = p]
  /\ UNCHANGED rec

\* persistRecord's clone, taken under entry.mutex.
CurrentRecord == [attempt |-> entry.attempt, mountedAt |-> entry.mountedAt,
                  tomb |-> entry.unmounting]

CloneRecord(t) ==
  /\ pc[t] = "clone"
  /\ rec' = [rec EXCEPT ![t] = CurrentRecord]
  /\ pc' = [pc EXCEPT ![t] = "write"]
  /\ UNCHANGED <<operation, then, entry, callVars, otherVars>>

\* repository.Update, after entry.mutex was released.  It fails when there is
\* no record to update; persistBestEffort only logs a failure.  A goroutine
\* that has nothing left to do returns.
WriteRecord(t) ==
  /\ pc[t] = "write"
  /\ \/ db # NoRecord /\ db' = rec[t]
     \/ (db = NoRecord \/ "db" \in Faults) /\ UNCHANGED db
  /\ pc' = [pc EXCEPT ![t] = then[t]]
  /\ operation' = IF Holds(t) /\ then[t] = "idle" THEN NoThread ELSE operation
  /\ rec' = [rec EXCEPT ![t] = NoRecord]
  /\ then' = [then EXCEPT ![t] = "idle"]
  /\ UNCHANGED <<entry, callVars, timerVars, closed, systemVars, daemonVars>>

GenerationOf(t) == IF t = Op THEN entry.generation ELSE t.gen
TimerKind(t) == IF t = Op /\ entry.unmounting THEN "unmount" ELSE t.kind
\* Mutated: the function gets no generation; it gets the one to come.
TimerWithoutGeneration(t) == Timer(TimerKind(t), 0)
TimerOfNext(t) == Timer(TimerKind(t), GenerationOf(t) + 1)
TimerOf(t) == Timer(TimerKind(t), GenerationOf(t))

\* time.AfterFunc starts the timer before entry.retryTimer knows it.
ArmTimer(t) ==
  /\ pc[t] = "arm"
  /\ armed' = armed \cup {TimerOf(t)}
  /\ Goto(t, "store")
  /\ UNCHANGED <<entry, callVars, fired, closed, db, systemVars, daemonVars>>

StoreTimer(t) ==
  /\ pc[t] = "store"
  /\ entry' = [entry EXCEPT !.retryTimer = TimerOf(t)]
  /\ Finish(t)
  /\ UNCHANGED <<callVars, otherVars>>

\* A goroutine or timer of generation g has nothing to say any more.
\* Mutated: without the check; without the comparison of generations.
SupersededNever(g) == FALSE
SupersededByUnmount(g) == entry.unmounting
Superseded(g) == entry.generation # g \/ entry.unmounting

\* recordMountFailure: nothing if the attempt is superseded or an unmount is
\* in control; else RETRY_WAIT with a timer to come, or FAILED.
RetryAllowed(nonRetryable) ==
  /\ ~nonRetryable
  /\ entry.attempt < MaxAttempts
  /\ ~entry.mountedAt \/ AutoRemount

RecordMountFailure(t, g, nonRetryable, e) ==
  \/ /\ Superseded(g)
     /\ entry' = e
     /\ Finish(t)
  \/ /\ ~Superseded(g)
     /\ RetryAllowed(nonRetryable)
     /\ entry' = [e EXCEPT !.state = "RETRY_WAIT"]
     /\ Persist(t, "arm")
  \/ /\ ~Superseded(g)
     /\ ~RetryAllowed(nonRetryable)
     /\ entry' = [e EXCEPT !.state = "FAILED"]
     /\ Persist(t, "idle")

\* recordTerminalMountFailure.
RecordTerminalMountFailure(t, g) ==
  \/ /\ Superseded(g)
     /\ UNCHANGED entry
     /\ Finish(t)
  \/ /\ ~Superseded(g)
     /\ entry' = [entry EXCEPT !.state = "FAILED"]
     /\ Persist(t, "idle")

\* recordUnmountFailure; its caller holds entry.operation, under which the
\* generation does not move.
RecordUnmountFailure ==
  \/ /\ entry.attempt < MaxAttempts
     /\ entry' = [entry EXCEPT !.state = "RETRY_WAIT"]
     /\ Persist(Op, "arm")
  \/ /\ entry.attempt >= MaxAttempts
     /\ entry' = [entry EXCEPT !.state = "FAILED"]
     /\ Persist(Op, "idle")

-----------------------------------------------------------------------------
(* The mount table and the data directory, as the code acts on them.       *)

\* unmountByClientType for client c: what it reports, and what it did.  A DAVFS unmount that runs out of time is
\* detached lazily and leaves unsynchronised files in the data directory.
Unmounting(c, result) ==
  \/ /\ result = "ok"
     /\ table' = TableWithoutTop
     /\ UNCHANGED data
  \/ /\ result = "failed"
     /\ "unmount" \in Faults
     /\ UNCHANGED <<table, data>>
  \/ /\ result = "lazy"
     /\ c = "davfs" /\ "lazy" \in Faults
     /\ table' = TableWithoutTop
     /\ data' = IF data = "none" THEN "none" ELSE "unsynced"

\* The probe followed by an unmount of what it found.
Clearing(c, result) ==
  \/ /\ result = "ok"
     /\ ~Mounted
     /\ UNCHANGED <<table, data>>
  \/ Mounted /\ Unmounting(c, result)

ProbeFails == "probe" \in Faults

\* entry.client, which retryMount resets together with entry.command.
EntryClient == IF entry.command = 0 THEN "none" ELSE client

\* command.Process.Kill(), when there is a command.
\* Mutated: the signal is not sent.
KillNothing == UNCHANGED killed
KillCommand ==
  killed' = IF entry.command = 0 THEN killed ELSE killed \cup {entry.command}

\* close(entry.exitDone) by a call that never started a process.
\* Mutated: it is left open.
LeaveExitDoneOpen == UNCHANGED closed
CloseExitDone == closed' = closed \cup {entry.exitDone}

\* The data directory after os.MkdirAll.
MadeData == IF data = "none" THEN "dir" ELSE data

\* The context of the API call is done.
CallerGone == req.api /\ "cancel" \in Faults

-----------------------------------------------------------------------------
(* Mount and startMount.                                                   *)

\* Mount up to the registration in manager.mounts.
Mount ==
  /\ reg = "absent"
  /\ stop = "no"
  /\ entry.generation < MaxGen
  /\ LockAt(Op, "create")
  /\ entry' = NewEntry(entry.generation + 1, 1, FALSE)
  /\ reg' = "managed"
  /\ req' = [NoCall EXCEPT !.api = TRUE]
  /\ UNCHANGED <<client, otherVars>>

\* repository.Create; it also fails when a record of an earlier daemon that
\* was not restored still holds the mount ID.
CreateRecord ==
  /\ pc[Op] = "create"
  /\ db = NoRecord
  /\ db' = [attempt |-> entry.attempt, mountedAt |-> FALSE, tomb |-> FALSE]
  /\ Goto(Op, "start")
  /\ UNCHANGED <<entry, callVars, timerVars, closed, systemVars, daemonVars>>

CreateFails ==
  /\ pc[Op] = "create"
  /\ db # NoRecord \/ "db" \in Faults \/ CallerGone
  /\ entry' = [entry EXCEPT !.state = "FAILED"]
  /\ CloseExitDone
  /\ Finish(Op)
  /\ UNCHANGED <<callVars, timerVars, db, systemVars, daemonVars>>

\* startMount: the client process is running before anybody waits for it.
StartCommand ==
  /\ pc[Op] = "start"
  /\ child' = [child EXCEPT ![entry.generation] = "starting"]
  /\ data' = MadeData
  /\ entry' = [entry EXCEPT !.state = "MOUNTING", !.command = entry.generation]
  /\ Persist(Op, "spawn")
  /\ UNCHANGED <<callVars, timerVars, closed, db, killed, table, daemonVars>>

SpawnWaiters ==
  /\ pc[Op] = "spawn"
  /\ operation' = NoThread
  /\ pc' = [pc EXCEPT ![Op] = "idle", ![Proc(entry.generation)] = "run",
                      ![Watch(entry.generation)] = "poll"]
  /\ UNCHANGED <<then, rec, entry, callVars, otherVars>>

\* startMount gives up before it runs the command (finishMountStartFailure):
\* a directory, the log or the command could not be made.
StartFails ==
  /\ pc[Op] = "start"
  /\ "disk" \in Faults
  /\ CloseExitDone
  /\ data' \in {data, MadeData}
  /\ RecordMountFailure(Op, entry.generation, FALSE, entry)
  /\ UNCHANGED <<callVars, timerVars, db, child, killed, table, daemonVars>>

\* The mount deadline passed while startMount prepared (failMountBeforeStart).
StartTooLate ==
  /\ pc[Op] = "start"
  /\ CloseExitDone
  /\ RecordMountFailure(Op, entry.generation, FALSE,
                        [entry EXCEPT !.timedOut = TRUE])
  /\ \/ data' = "none"
     \/ "disk" \in Faults /\ data' = MadeData
  /\ UNCHANGED <<callVars, timerVars, db, child, killed, table, daemonVars>>

\* The entry at the start of a retried mount attempt.
\* Mutated: the new attempt has the channel of the old one.
NextAttemptOldChannel ==
  [entry EXCEPT !.retryTimer = NoTimer, !.generation = @ + 1,
                !.attempt = @ + 1, !.state = "PENDING_MOUNT",
                !.timedOut = FALSE, !.command = 0]
NextAttempt == [NextAttemptOldChannel EXCEPT !.exitDone = entry.generation + 1]

\* A fired retryMount that gets entry.operation.
RetryMount(tm) ==
  /\ tm \in fired /\ tm.by # "unmount"
  /\ ~Superseded(tm.gen)
  /\ entry.generation < MaxGen
  /\ LockAndPersist(Op, "start")
  /\ fired' = fired \ {tm}
  /\ entry' = NextAttempt
  /\ req' = NoCall
  /\ UNCHANGED <<client, reg, armed, closed, db, systemVars, daemonVars>>

\* A fired timer that finds the entry has moved on.
RetryIgnored(tm) ==
  /\ tm \in fired
  /\ OperationFree
  /\ IF tm.by = "unmount"
       THEN entry.generation # tm.gen \/ ~entry.unmounting
       ELSE Superseded(tm.gen)
  /\ fired' = fired \ {tm}
  /\ UNCHANGED <<entry, callVars, threadVars, armed, closed, db, systemVars, daemonVars>>

TimerFires(tm) ==
  /\ tm \in armed
  /\ armed' = armed \ {tm}
  /\ fired' = fired \cup {tm}
  /\ UNCHANGED <<entry, callVars, threadVars, closed, db, systemVars, daemonVars>>

-----------------------------------------------------------------------------
(* Unmount and performUnmountAttempt.                                      *)

\* Unmount up to the tombstone write.  The bound leaves room for the retries
\* of this unmount.
Unmount ==
  /\ reg = "managed"
  /\ stop = "no"
  /\ entry.generation + MaxAttempts <= MaxGen
  /\ OperationFree
  /\ operation' = Op
  /\ pc' = [pc EXCEPT ![Op] = "tombstone"]
  /\ armed' = armed \ {entry.retryTimer}
  /\ entry' = [entry EXCEPT !.retryTimer = NoTimer,
                            !.generation = @ + 1,
                            !.unmounting = TRUE,
                            !.state = "UNMOUNTING",
                            !.attempt = IF entry.unmounting THEN @ ELSE 1]
  /\ req' = [api |-> TRUE, wasUnmounting |-> entry.unmounting,
             previousState |-> entry.state]
  /\ rec' = [rec EXCEPT ![Op] = [attempt |-> entry'.attempt,
                                 mountedAt |-> entry.mountedAt, tomb |-> TRUE]]
  /\ UNCHANGED <<client, reg, then, fired, closed, db, systemVars, daemonVars>>

WriteTombstone ==
  /\ pc[Op] = "tombstone"
  /\ db # NoRecord
  /\ db' = rec[Op]
  /\ rec' = [rec EXCEPT ![Op] = NoRecord]
  /\ pc' = [pc EXCEPT ![Op] = "probe"]
  /\ UNCHANGED <<operation, then, entry, callVars, timerVars, closed, systemVars, daemonVars>>

\* The update fails, or the caller's context is done: Unmount puts unmounting
\* and the state back, and leaves the generation and the timer as they are.
TombstoneFails ==
  /\ pc[Op] = "tombstone"
  /\ db = NoRecord \/ "db" \in Faults \/ CallerGone
  /\ entry' = [entry EXCEPT !.unmounting = req.wasUnmounting,
                            !.state = req.previousState]
  /\ rec' = [rec EXCEPT ![Op] = NoRecord]
  /\ pc' = [pc EXCEPT ![Op] = "idle"]
  /\ operation' = NoThread
  /\ req' = NoCall
  /\ UNCHANGED <<client, reg, then, otherVars>>

\* performUnmountAttempt: probe the path and unmount what is there.
UnmountPath ==
  /\ pc[Op] = "probe"
  /\ Clearing(EntryClient, "ok")
  /\ Goto(Op, "wait")
  /\ UNCHANGED <<entry, callVars, timerVars, closed, db, child, killed, daemonVars>>

\* Whatever goes wrong on the way is an unmount failure: the probe, the unmount
\* command, a caller that leaves while the process is waited for (a retried
\* unmount has none), the removal of the data directory.
UnmountFails ==
  /\ \/ /\ pc[Op] = "probe"
        /\ \/ ProbeFails /\ UNCHANGED <<table, data>>
           \/ /\ CallerGone /\ Mounted /\ EntryClient # "irodsfs"
              /\ UNCHANGED <<table, data>>
           \/ \E result \in {"failed", "lazy"} : Clearing(EntryClient, result)
     \/ /\ pc[Op] \in {"wait", "killwait"} /\ CallerGone
        /\ UNCHANGED <<table, data>>
     \/ /\ pc[Op] = "remove" /\ "disk" \in Faults
        /\ UNCHANGED <<table, data>>
  /\ RecordUnmountFailure
  /\ UNCHANGED <<callVars, timerVars, closed, db, child, killed, daemonVars>>

\* The wait for the client process: a persistent one was sent SIGTERM; after
\* unmount_timeout whatever runs is killed and waited for again.
ProcessExited ==
  /\ pc[Op] \in {"wait", "killwait"}
  /\ CurrentExited
  /\ Goto(Op, "remove")
  /\ UNCHANGED <<entry, callVars, otherVars>>

KillProcess ==
  /\ pc[Op] \in {"wait", "stopwait"}
  /\ KillCommand
  /\ Goto(Op, IF pc[Op] = "wait" THEN "killwait" ELSE "stopkill")
  /\ UNCHANGED <<entry, callVars, timerVars, closed, db, child, table, data, daemonVars>>

RemoveData ==
  /\ pc[Op] = "remove"
  /\ data' = "none"
  /\ Goto(Op, "delete")
  /\ UNCHANGED <<entry, callVars, timerVars, closed, db, child, killed, table, daemonVars>>

\* repository.Delete: a failure is logged and changes nothing else.
DeleteRecord ==
  /\ pc[Op] = "delete"
  /\ \/ db' = NoRecord
     \/ ("db" \in Faults \/ CallerGone) /\ UNCHANGED db
  /\ Goto(Op, "unregister")
  /\ UNCHANGED <<entry, callVars, timerVars, closed, systemVars, daemonVars>>

Unregister ==
  /\ pc[Op] = "unregister"
  /\ reg' = "removed"
  /\ Finish(Op)
  /\ UNCHANGED <<client, entry, req, otherVars>>

\* A fired retryUnmount that gets entry.operation.
RetryUnmount(tm) ==
  /\ tm \in fired /\ tm.by = "unmount"
  /\ entry.generation = tm.gen /\ entry.unmounting
  /\ entry.generation < MaxGen
  /\ LockAndPersist(Op, "probe")
  /\ fired' = fired \ {tm}
  /\ entry' = [entry EXCEPT !.retryTimer = NoTimer,
                            !.generation = @ + 1,
                            !.attempt = @ + 1,
                            !.state = "UNMOUNTING"]
  /\ req' = NoCall
  /\ UNCHANGED <<client, reg, armed, closed, db, systemVars, daemonVars>>

-----------------------------------------------------------------------------
(* waitForProcess.                                                         *)

\* command.Wait returned: close the attempt's own channel and decide whether
\* the exit was a crash.
Crashed(g) ==
  /\ ~Superseded(g)
  /\ ~entry.timedOut /\ ~entry.stopping
  /\ Persistent \/ child[g] # "ok"

ReapProcess(g) ==
  /\ pc[Proc(g)] = "run"
  /\ ~Alive(g)
  /\ closed' = closed \cup {g}
  /\ IF Crashed(g) THEN Goto(Proc(g), "cleanup") ELSE Finish(Proc(g))
  /\ UNCHANGED <<entry, callVars, timerVars, db, systemVars, daemonVars>>

\* Clear what the dead process left on the path.  A probe that fails counts
\* as nothing mounted; an unmount that fails (a lazy one included) makes the
\* failure terminal.
CleanUpCrash(g) ==
  /\ pc[Proc(g)] = "cleanup"
  /\ \/ ProbeFails /\ UNCHANGED <<table, data>> /\ Goto(Proc(g), "record")
     \/ Clearing(client, "ok") /\ Goto(Proc(g), "record")
     \/ /\ \E result \in {"failed", "lazy"} : Clearing(client, result)
        /\ Goto(Proc(g), "terminal")
  /\ UNCHANGED <<entry, callVars, timerVars, closed, db, child, killed, daemonVars>>

\* Also the end of handleMountTimeout, for which no failure is nonretryable.
RecordFailure(t) ==
  /\ \/ /\ pc[t] = "record"
        /\ RecordMountFailure(t, t.gen, t = Proc(t.gen) /\ child[t.gen] = "invalid",
                              entry)
     \/ /\ pc[t] = "terminal"
        /\ RecordTerminalMountFailure(t, t.gen)
  /\ UNCHANGED <<callVars, otherVars>>

-----------------------------------------------------------------------------
(* waitForMount and handleMountTimeout.                                    *)

\* The probe finds a filesystem on the path (it cannot tell whose it is) ...
WatchProbe(g) ==
  /\ pc[Watch(g)] \in {"poll", "polldone"}
  /\ Mounted
  /\ Goto(Watch(g), "seen")
  /\ UNCHANGED <<entry, callVars, otherVars>>

\* ... and the entry becomes MOUNTED if this attempt is still the one.
WatchSeen(g) ==
  /\ pc[Watch(g)] = "seen"
  /\ \/ /\ ~Superseded(g) /\ entry.state = "MOUNTING"
        /\ entry' = [entry EXCEPT !.state = "MOUNTED", !.mountedAt = TRUE]
        /\ Persist(Watch(g), "idle")
     \/ /\ Superseded(g) \/ entry.state # "MOUNTING"
        /\ UNCHANGED entry
        /\ Finish(Watch(g))
  /\ UNCHANGED <<callVars, otherVars>>

\* exitDone is closed: stop, or go on without it when a one-shot helper may
\* still have mounted.
WatchExit(g) ==
  /\ pc[Watch(g)] = "poll"
  /\ g \in closed
  /\ IF \/ Persistent
        \/ entry.generation # g
        \/ entry.state \in {"FAILED", "RETRY_WAIT"}
       THEN Finish(Watch(g))
       ELSE Goto(Watch(g), "polldone")
  /\ UNCHANGED <<entry, callVars, otherVars>>

\* The mount deadline passes; select may take it although exitDone is ready.
WatchDeadline(g) ==
  /\ pc[Watch(g)] \in {"poll", "polldone"}
  /\ Goto(Watch(g), "expired")
  /\ UNCHANGED <<entry, callVars, otherVars>>

\* handleMountTimeout gets entry.operation.
HandleMountTimeout(g) ==
  /\ pc[Watch(g)] = "expired"
  /\ OperationFree
  /\ IF Superseded(g) \/ entry.state = "MOUNTED"
       THEN /\ Finish(Watch(g))
            /\ UNCHANGED <<entry, killed>>
       ELSE /\ LockAt(Watch(g), "reap")
            /\ entry' = [entry EXCEPT !.timedOut = TRUE]
            /\ KillCommand
  /\ UNCHANGED <<callVars, timerVars, closed, db, child, table, data, daemonVars>>

\* cleanupTimedOutMount: what it unmounts it detaches lazily, so a DAVFS data
\* directory is preserved; every other one is removed.
CleanUpTimeout(g) ==
  /\ pc[Watch(g)] = "reap"
  /\ \/ /\ Mounted /\ client = "davfs"
        /\ table' = TableWithoutTop
        /\ data' = IF data = "none" THEN "none" ELSE "unsynced"
        /\ Goto(Watch(g), "record")
     \/ /\ ~(Mounted /\ client = "davfs")
        /\ table' = TableWithoutTop
        /\ \/ data' = "none" /\ Goto(Watch(g), "record")
           \/ "disk" \in Faults /\ UNCHANGED data /\ Goto(Watch(g), "terminal")
     \/ /\ ProbeFails \/ (Mounted /\ "unmount" \in Faults)
        /\ UNCHANGED <<table, data>>
        /\ Goto(Watch(g), "terminal")
  /\ UNCHANGED <<entry, callVars, timerVars, closed, db, child, killed, daemonVars>>

-----------------------------------------------------------------------------
(* Shutdown and shutdownEntry.  Service.Stop has drained the API by then.  *)

ShutdownBegin ==
  /\ "shutdown" \in Faults
  /\ stop = "no" /\ reg \in {"absent", "managed", "removed"}
  /\ pc[Op] = "idle" \/ ~req.api
  /\ IF reg = "managed"
       THEN /\ stop' = "locking"
            /\ armed' = armed \ {entry.retryTimer}
            /\ entry' = [entry EXCEPT !.retryTimer = NoTimer]
       ELSE stop' = "done" /\ UNCHANGED <<armed, entry>>
  /\ UNCHANGED <<callVars, threadVars, fired, closed, db, systemVars, restarts>>

\* Mutated: shutdown takes the mark of an unmount.
MarkUnmounting == [entry EXCEPT !.unmounting = TRUE]
MarkStopping == [entry EXCEPT !.stopping = TRUE]

ShutdownLock ==
  /\ stop = "locking"
  /\ OperationFree
  /\ IF entry.unmounting
       THEN stop' = "done" /\ UNCHANGED <<entry, threadVars>>
       ELSE /\ entry' = MarkStopping
            /\ LockAt(Op, "stopprobe")
            /\ stop' = "stopping"
  /\ UNCHANGED <<callVars, timerVars, closed, db, systemVars, restarts>>

\* Errors of the probe and of the unmount are only logged.
StopPath ==
  /\ pc[Op] = "stopprobe"
  /\ \/ ProbeFails /\ UNCHANGED <<table, data>>
     \/ \E result \in {"ok", "failed", "lazy"} : Clearing(EntryClient, result)
  /\ Goto(Op, "stopwait")
  /\ UNCHANGED <<entry, callVars, timerVars, closed, db, child, killed, daemonVars>>

StopExited ==
  /\ pc[Op] \in {"stopwait", "stopkill"}
  /\ CurrentExited
  /\ entry' = [entry EXCEPT !.state = "PENDING_MOUNT"]
  /\ Persist(Op, "stopped")
  /\ UNCHANGED <<callVars, otherVars>>

ShutdownDone ==
  /\ pc[Op] = "stopped"
  /\ Finish(Op)
  /\ stop' = "done"
  /\ UNCHANGED <<entry, callVars, timerVars, closed, db, systemVars, restarts>>

-----------------------------------------------------------------------------
(* The daemon dies, or exits after Shutdown, and starts again.             *)

\* Goroutines, timers and the entry are gone; the record, the data directory,
\* the mounts and (nothing ties them to the daemon) the children are not.
DaemonExit ==
  /\ reg # "down"
  /\ "crash" \in Faults \/ stop = "done"
  /\ restarts < MaxRestarts
  /\ reg' = "down"
  /\ entry' = [NewEntry(entry.generation, 1, FALSE) EXCEPT !.state = "FAILED"]
  /\ req' = NoCall
  /\ operation' = NoThread
  /\ pc' = [t \in Threads |-> "idle"]
  /\ then' = [t \in Threads |-> "idle"]
  /\ rec' = [t \in Threads |-> NoRecord]
  /\ armed' = {} /\ fired' = {}
  /\ stop' = "no"
  /\ restarts' = restarts + 1
  /\ UNCHANGED <<client, closed, db, systemVars>>

\* reconcileTombstone: finish the unmount, or leave everything for the next
\* pass.
ReconcileTombstone ==
  \/ ProbeFails /\ UNCHANGED <<table, data, db>>
  \/ (\E result \in {"failed", "lazy"} : Clearing(client, result)) /\ UNCHANGED db
  \/ /\ table' = TableWithoutTop
     /\ \/ "disk" \in Faults /\ UNCHANGED <<data, db>>
        \/ data' = "none" /\ db' = NoRecord
        \/ data' = "none" /\ "db" \in Faults /\ UNCHANGED db

\* Startup without anything to restore: Reconcile, or ReconcileTombstones
\* when restoration is off.
Restart ==
  /\ reg = "down"
  /\ reg' = "absent"
  /\ \/ db # NoRecord /\ db.tomb /\ ReconcileTombstone
     \/ /\ db # NoRecord /\ ~db.tomb /\ TRUE \in Restore
        /\ \/ ProbeFails /\ UNCHANGED <<table, data>>
           \/ \E result \in {"failed", "lazy"} : Clearing(client, result)
        /\ UNCHANGED db
     \/ /\ db = NoRecord \/ (~db.tomb /\ FALSE \in Restore)
        /\ UNCHANGED <<table, data, db>>
  /\ UNCHANGED <<client, entry, req, threadVars, timerVars, closed, child, killed, daemonVars>>

\* The entry remount registers has the attempt count and MountedAt of the
\* record.  Mutated: the remount counts as one more attempt.
RestoredAsRetry == NewEntry(entry.generation + 1, db.attempt + 1, db.mountedAt)
Restored == NewEntry(entry.generation + 1, db.attempt, db.mountedAt)

\* reconcileOrdinaryRecord detaches a surviving mount; remount starts over.
Remount ==
  /\ reg = "down"
  /\ TRUE \in Restore
  /\ db # NoRecord /\ ~db.tomb
  /\ entry.generation < MaxGen
  /\ Clearing(client, "ok")
  /\ entry' = Restored
  /\ reg' = "managed"
  /\ LockAndPersist(Op, "start")
  /\ UNCHANGED <<client, req, timerVars, closed, db, child, killed, daemonVars>>

\* reconcileRecord passes over a record that an entry answers for.
\* Mutated: it does not look.
ManagedOrNot == reg # "down"
NotManaged == reg \in {"absent", "removed"}

\* The periodic ReconcileTombstones.
PeriodicReconcile ==
  /\ NotManaged
  /\ stop = "no"
  /\ db # NoRecord /\ db.tomb
  /\ ReconcileTombstone
  /\ UNCHANGED <<entry, callVars, threadVars, timerVars, closed, child, killed, daemonVars>>

-----------------------------------------------------------------------------
(* The mount clients.                                                      *)

\* The client mounts its filesystem on the path.
ChildMounts(g) ==
  /\ child[g] = "starting"
  /\ child' = [child EXCEPT ![g] = "serving"]
  /\ table' = Append(table, g)
  /\ UNCHANGED <<entry, callVars, threadVars, timerVars, closed, db, killed, data, daemonVars>>

\* The process ends.  A one-shot helper succeeds once it has mounted; irodsfs
\* exits with status 10 or 11 ("invalid") before it has.  In any other case
\* irodsfs takes its mount along or leaves a broken endpoint behind.
ChildExits(g) ==
  /\ \/ /\ client # "irodsfs" /\ child[g] = "serving"
        /\ child' = [child EXCEPT ![g] = "ok"]
        /\ UNCHANGED table
     \/ /\ client = "irodsfs" /\ child[g] = "starting"
        /\ child' = [child EXCEPT ![g] = "invalid"]
        /\ UNCHANGED table
     \/ /\ Alive(g)
        /\ child' = [child EXCEPT ![g] = "failed"]
        /\ \/ UNCHANGED table
           \/ /\ client = "irodsfs"
              /\ \E i \in 1 .. Len(table) : table[i] = g /\ table' = TableWithout(i)
  /\ UNCHANGED <<entry, callVars, threadVars, timerVars, closed, db, killed, data, daemonVars>>

\* davfs2 finishes uploading what a lazy detach left behind.
CacheSynchronised ==
  /\ data = "unsynced"
  /\ data' = "dir"
  /\ UNCHANGED <<entry, callVars, threadVars, timerVars, closed, db, child, killed, table, daemonVars>>

-----------------------------------------------------------------------------

PersistStep(t) ==
  CloneRecord(t) \/ WriteRecord(t) \/ ArmTimer(t) \/ StoreTimer(t)

OpStep ==
  \/ CreateRecord \/ CreateFails
  \/ StartCommand \/ SpawnWaiters \/ StartFails \/ StartTooLate
  \/ WriteTombstone \/ TombstoneFails \/ UnmountPath \/ UnmountFails
  \/ ProcessExited \/ KillProcess \/ RemoveData \/ DeleteRecord \/ Unregister
  \/ StopPath \/ StopExited \/ ShutdownDone
  \/ PersistStep(Op)

ProcStep(g) ==
  \/ ReapProcess(g) \/ CleanUpCrash(g) \/ RecordFailure(Proc(g))
  \/ PersistStep(Proc(g))

WatchStep(g) ==
  \/ WatchProbe(g) \/ WatchSeen(g) \/ WatchExit(g) \/ WatchDeadline(g)
  \/ HandleMountTimeout(g) \/ CleanUpTimeout(g) \/ RecordFailure(Watch(g))
  \/ PersistStep(Watch(g))

TimerStep(g) ==
  \E by \in TimerKinds :
    \/ TimerFires(Timer(by, g)) \/ RetryIgnored(Timer(by, g))
    \/ RetryMount(Timer(by, g)) \/ RetryUnmount(Timer(by, g))

DaemonStep ==
  \/ OpStep
  \/ \E g \in Gens : ProcStep(g) \/ WatchStep(g) \/ TimerStep(g)
  \/ ShutdownLock

Next ==
  \/ Mount \/ Unmount \/ ShutdownBegin
  \/ DaemonStep
  \/ DaemonExit \/ Restart \/ Remount \/ PeriodicReconcile
  \/ \E g \in Gens : ChildMounts(g) \/ ChildExits(g)
  \/ CacheSynchronised

Spec == Init /\ [][Next]_vars

\* The daemon runs some goroutine, lock waiter or due timer as long as there is
\* one that can run, and a killed process ends.  Nobody has to call the API,
\* and a client may neither mount nor exit of its own accord.  Which goroutine
\* runs is left open: each has finitely many steps in a generation, so none
\* can hold up the others forever.
Fairness ==
  /\ WF_vars(DaemonStep)
  /\ \A g \in Gens : WF_vars(g \in killed /\ ChildExits(g))

FairSpec == Spec /\ Fairness

-----------------------------------------------------------------------------
(* Properties.                                                             *)

PersistPCs == {"idle", "clone", "write", "arm", "store"}
OpPCs == PersistPCs \cup
  {"create", "start", "spawn", "tombstone", "probe", "wait", "killwait",
   "remove", "delete", "unregister", "stopprobe", "stopwait", "stopkill",
   "stopped"}
ProcPCs == PersistPCs \cup {"run", "cleanup", "record", "terminal"}
WatchPCs == PersistPCs \cup
  {"poll", "polldone", "seen", "expired", "reap", "record", "terminal"}
PCs(t) == IF t = Op THEN OpPCs
          ELSE IF t.kind = "proc" THEN ProcPCs ELSE WatchPCs
\* What may follow persistRecord.
Thens(t) == IF t = Op THEN {"idle", "arm", "start", "spawn", "probe", "stopped"}
            ELSE {"idle", "arm"}

ThreadsOK ==
  /\ operation \in Threads \cup {NoThread}
  /\ pc \in [Threads -> OpPCs \cup ProcPCs \cup WatchPCs]
  /\ \A t \in Threads : pc[t] \in PCs(t)
  /\ then \in [Threads -> OpPCs]
  /\ \A t \in Threads : then[t] \in Thens(t)
  /\ rec \in [Threads -> Records]

\* The values of the variables; each goroutine is where its code can be.
TypeOK ==
  /\ client \in ClientTypes
  /\ entry \in Entries
  /\ reg \in {"absent", "managed", "removed", "down"}
  /\ req \in [api : BOOLEAN, wasUnmounting : BOOLEAN, previousState : States]
  /\ ThreadsOK
  /\ armed \subseteq Timers
  /\ fired \subseteq Timers
  /\ closed \subseteq Gens
  /\ db \in Records
  /\ child \in [Gens -> ChildStates]
  /\ killed \subseteq Gens
  /\ table \in Seq(Gens)
  /\ data \in {"none", "dir", "unsynced"}
  /\ stop \in {"no", "locking", "stopping", "done"}
  /\ restarts \in Nat

\* Closing a closed channel panics.  exitDone of an attempt is closed by
\* waitForProcess, or by the call that never got to start the process: it is
\* still open whenever one of them is about to close it.
ExitDoneClosedOnce ==
  /\ \A g \in Gens : pc[Proc(g)] = "run" => g \notin closed
  /\ pc[Op] \in {"create", "start"} => ~CurrentExited

\* Unmount and shutdown wait for exitDone without a bound after they killed
\* the process: the channel is closed, or waitForProcess of the attempt that
\* owns it is there to close it.
ExitDoneHasCloser ==
  pc[Op] \in {"wait", "killwait", "stopwait", "stopkill"} =>
    CurrentExited \/ pc[Proc(entry.exitDone)] = "run"

\* An accepted unmount is not undone by a mount attempt that was in flight:
\* waitForMount, waitForProcess, retryMount and handleMountTimeout leave the
\* entry to it, whatever they had observed before.
UnmountPrevails ==
  entry.unmounting => entry.state \in {"UNMOUNTING", "RETRY_WAIT", "FAILED"}

\* The attempt count never exceeds the configured maximum, although two
\* timers can be pending for one failed attempt (waitForProcess and
\* handleMountTimeout may both record it).
AttemptsBounded == entry.attempt <= MaxAttempts

\* "Never an unrecorded child process": while the client process the entry
\* owns is running and has not been killed, the repository has its record and
\* its data directory is in place.
RunningChildIsRecorded ==
  reg = "managed" /\ entry.command # 0 =>
    (Alive(entry.command) /\ entry.command \notin killed =>
       db # NoRecord /\ data # "none")

\* A mount has one client process: any other one that an earlier attempt left
\* running has been killed before the next attempt begins.  (Children survive a
\* crash of the daemon, so this is about one run of it.)
OneLiveClient ==
  restarts = 0 =>
    \A g \in Gens : Alive(g) => g = entry.command \/ g \in killed

\* A retry that was promised (RETRY_WAIT) has somebody to carry it out.
Carries(t) ==
  \/ pc[t] \in {"clone", "write"} /\ then[t] = "arm"
  \/ pc[t] \in {"arm", "store"}
RetryIsPending ==
  reg = "managed" /\ entry.state = "RETRY_WAIT" /\ stop = "no" =>
    \/ \E tm \in armed \cup fired : tm.gen = entry.generation
    \/ \E t \in Threads : Carries(t) /\ GenerationOf(t) = entry.generation

\* A persisted unmount stays one until the record is deleted: "a restart or a
\* retried Unmount must keep trying to unmount rather than treat the mount as
\* active again" (recordUnmountFailure).
TombstoneIsFinal ==
  [][db # NoRecord /\ db.tomb /\ db' # NoRecord => db'.tomb]_vars

\* Only an explicit Unmount tombstones or deletes a record: while Shutdown stops
\* a mount and after it, whatever its waiters still write, an ordinary record stays
\* one, so that the next start restores the mount (shutdownEntry, persistRecord).
ShutdownKeepsIntent ==
  [][/\ stop = "stopping" \/ (stop = "done" /\ ~entry.unmounting)
     /\ db # NoRecord /\ ~db.tomb
     => db' # NoRecord /\ ~db'.tomb]_vars

\* FAILED is left only by an explicit request or a restart.
FailedIsFinal ==
  [][/\ reg = "managed" /\ reg' = "managed"
     /\ entry.state = "FAILED" /\ ~entry.unmounting /\ stop = "no"
     => entry'.state \in {"FAILED", "UNMOUNTING"}]_vars

\* A retried unmount does not discard files that the lazy DAVFS detach of an
\* earlier attempt left unsynchronised (performUnmountAttempt, os.RemoveAll).
UnsyncedDataKept ==
  [][entry.unmounting /\ ~req.api /\ data = "unsynced" => data' # "none"]_vars

\* When Unmount has succeeded nothing is mounted on the path.
RemovedIsUnmounted == reg = "removed" => ~Mounted

\* Every attempt comes to an end: whatever the client process does, a mount is
\* eventually MOUNTED, FAILED or removed (or the daemon stops).
Transient == {"PENDING_MOUNT", "MOUNTING", "UNMOUNTING", "RETRY_WAIT"}
Settles ==
  (reg = "managed" /\ entry.state \in Transient)
    ~> (reg # "managed" \/ entry.state \notin Transient \/ stop # "no")

\* Shutdown returns: shutdownEntry gets entry.operation from whatever attempt
\* is running, and the process it waits for is gone at last.
ShutdownTerminates ==
  stop \in {"locking", "stopping"} ~> stop \in {"done", "no"}
====
