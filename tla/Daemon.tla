-------------------------------- MODULE Daemon --------------------------------
(***************************************************************************)
(* The life of irodsfsd processes that share a configuration: cmd/main.go  *)
(* (start, run, stop), cmd/commons/pid_file.go, the start and the stop of  *)
(* service/service.go, the work directories of commons/config.go and the   *)
(* opening of service/store/store.go, composed with the event streams of   *)
(* MountEvents that a stopping daemon waits for.                           *)
(*                                                                         *)
(* What the processes share is the PID file (a path, and inodes that may   *)
(* outlive their name), the UNIX socket's path and the mount database,     *)
(* which Badger opens for one process at a time.                           *)
(***************************************************************************)
EXTENDS MountEvents

CONSTANTS Daemons,   \* processes: the PIDs irodsfsd may run under
          Callers,   \* unary gRPC and REST requests under way
          Inodes,    \* bound: inodes the PID file may have had
          Scenes,    \* what takes part in a behaviour, and its bound on state changes
          NoDaemon   \* nobody

ASSUME DaemonAssumption ==
         /\ NoDaemon \notin Daemons
         /\ Inodes \subseteq Nat \ {0}
         /\ Scenes \subseteq [daemons : SUBSET Daemons,
                              foreground : SUBSET Daemons,
                              callers : SUBSET Callers,
                              watchers : SUBSET Watchers,
                              mounts : SUBSET IDs,
                              changes : Nat]

VARIABLES scene,    \* who takes part: chosen at first, then fixed
          pc,       \* where each process is in runDaemonManaged
          path,     \* the inode the PID file's path names, 0 when there is none
          fd,       \* the inode each process has open, 0 when it has none
          holder,   \* who holds each inode's flock
          content,  \* the PID each inode holds, NoDaemon when it is empty
          named,    \* history: who locked the inode while the path named it
          socket,   \* whose listener created the socket at its path
          store,    \* who has the mount database open
          loop,     \* runPeriodicReconcile of each process
          calls,    \* the requests each process is serving
          stopper   \* the PID the stop command has read

pidVars == <<path, fd, holder, content, named>>
serviceVars == <<socket, store, loop, calls>>
daemonVars == <<scene, pc, pidVars, serviceVars, stopper>>
vars == <<daemonVars, eventVars>>

Init ==
  /\ EventsInit
  /\ scene \in Scenes
  /\ pc = [d \in Daemons |-> "down"]
  /\ path = 0
  /\ fd = [d \in Daemons |-> 0]
  /\ holder = [i \in Inodes |-> NoDaemon]
  /\ content = [i \in Inodes |-> NoDaemon]
  /\ named = {}
  /\ socket = NoDaemon
  /\ store = NoDaemon
  /\ loop = [d \in Daemons |-> "off"]
  /\ calls = [d \in Daemons |-> {}]
  /\ stopper = NoDaemon

Goto(d, from, to) == pc[d] = from /\ pc' = [pc EXCEPT ![d] = to]

-----------------------------------------------------------------------------
(* The PID file.                                                           *)

Unused(i) == i # path /\ \A d \in Daemons : fd[d] # i

\* `irodsfsd start` relaunches itself: the child is the daemon.  `irodsfsd run`
\* stays in the foreground and has no PID file.
Daemonized(d) == d \in scene.daemons \ scene.foreground

\* The PID file is opened, and created when there is none.
OpenPIDFile(d) ==
  /\ Daemonized(d)
  /\ Goto(d, "down", "lock")
  /\ path = 0 => \E i \in Inodes : Unused(i)
  /\ path' = IF path # 0 THEN path ELSE CHOOSE i \in Inodes : Unused(i)
  /\ fd' = [fd EXCEPT ![d] = path']
  /\ content' = IF path # 0 THEN content
                            ELSE [content EXCEPT ![path'] = NoDaemon]
  /\ UNCHANGED <<scene, holder, named, serviceVars, stopper, eventVars>>

\* `run` takes its working directory for the data root: here it is the same one.
RunForeground(d) ==
  /\ d \in scene.daemons \cap scene.foreground
  /\ Goto(d, "down", "dirs")
  /\ UNCHANGED <<scene, pidVars, serviceVars, stopper, eventVars>>

\* The lock is taken without waiting; then the file is truncated.
LockPIDFile(d) ==
  /\ Goto(d, "lock", "write")
  /\ holder[fd[d]] = NoDaemon
  /\ holder' = [holder EXCEPT ![fd[d]] = d]
  /\ content' = [content EXCEPT ![fd[d]] = NoDaemon]
  /\ named' = IF path = fd[d] THEN named \cup {d} ELSE named
  /\ UNCHANGED <<scene, path, fd, serviceVars, stopper, eventVars>>

\* "irodsfsd is already running".
AlreadyRunning(d) ==
  /\ Goto(d, "lock", "down")
  /\ holder[fd[d]] # NoDaemon
  /\ fd' = [fd EXCEPT ![d] = 0]
  /\ UNCHANGED <<scene, path, holder, content, named, serviceVars, stopper,
                 eventVars>>

WritePID(d) ==
  /\ Goto(d, "write", "dirs")
  /\ content' = [content EXCEPT ![fd[d]] = d]
  /\ UNCHANGED <<scene, path, fd, holder, named, serviceVars, stopper, eventVars>>

\* releaseFile, and the process's end.
ReleaseFile(d) ==
  /\ fd' = [fd EXCEPT ![d] = 0]
  /\ holder' = [i \in Inodes |-> IF holder[i] = d THEN NoDaemon ELSE holder[i]]
  /\ named' = named \ {d}

\* The PID could not be written: the file is left behind, without a PID.
WritePIDFails(d) ==
  /\ Goto(d, "write", "down")
  /\ ReleaseFile(d)
  /\ UNCHANGED <<scene, path, content, serviceVars, stopper, eventVars>>

\* Mutated: whatever PID file there is goes.
OwnsAnyPIDFile(d) == path # 0

\* Close compares the PID in the file with its own.
OwnsPIDFile(d) == path # 0 /\ content[path] = d

ClosePIDFile(d) ==
  /\ d \notin scene.foreground
  /\ Goto(d, "close", IF OwnsPIDFile(d) THEN "unlink" ELSE "unlock")
  /\ UNCHANGED <<scene, pidVars, serviceVars, stopper, eventVars>>

RemovePIDFile(d) ==
  /\ Goto(d, "unlink", "unlock")
  /\ path' = 0
  /\ UNCHANGED <<scene, fd, holder, content, named, serviceVars, stopper,
                 eventVars>>

Exit(d) ==
  /\ IF d \in scene.foreground THEN Goto(d, "close", "down")
                               ELSE Goto(d, "unlock", "down")
  /\ ReleaseFile(d)
  /\ UNCHANGED <<scene, path, content, serviceVars, stopper, eventVars>>

-----------------------------------------------------------------------------
(* run: work directories, configuration, service.                          *)

\* MakeWorkDirs removes whatever socket there is, by its path.
MakeWorkDirs(d) ==
  /\ Goto(d, "dirs", "open")
  /\ socket' = NoDaemon
  /\ UNCHANGED <<scene, pidVars, store, loop, calls, stopper, eventVars>>

\* A directory cannot be made or written; for the socket's own, that is noticed
\* after the socket is removed.
MakeWorkDirsFails(d) ==
  /\ Goto(d, "dirs", "close")
  /\ socket' \in {socket, NoDaemon}
  /\ UNCHANGED <<scene, pidVars, store, loop, calls, stopper, eventVars>>

\* NewService opens the database: refused to all but one process.
OpenStore(d) ==
  /\ Goto(d, "open", "reconcile")
  /\ store = NoDaemon
  /\ store' = d
  /\ UNCHANGED <<scene, pidVars, socket, loop, calls, stopper, eventVars>>

\* Validate refuses the configuration, or the key, the database's lock or its
\* schema stops NewService.
NewServiceFails(d) ==
  /\ Goto(d, "open", "close")
  /\ UNCHANGED <<scene, pidVars, serviceVars, stopper, eventVars>>

Reconciled(d) ==
  /\ Goto(d, "reconcile", "listen")
  /\ UNCHANGED <<scene, pidVars, serviceVars, stopper, eventVars>>

\* The error paths of NewService behind store.Open close the database.
ReconcileFails(d) ==
  /\ Goto(d, "reconcile", "close")
  /\ store' = NoDaemon
  /\ UNCHANGED <<scene, pidVars, socket, loop, calls, stopper, eventVars>>

\* Start: both endpoints listen, and the reconcile loop begins.
Start(d) ==
  /\ Goto(d, "listen", "serve")
  /\ socket = NoDaemon
  /\ socket' = d
  /\ loop' = [loop EXCEPT ![d] = "waiting"]
  /\ UNCHANGED <<scene, pidVars, store, calls, stopper, eventVars>>

\* An endpoint cannot be listened on (a socket created by another process in
\* the meantime, the REST port): run releases a service that never started, so
\* its Stop returns at once.
StartFails(d) ==
  /\ Goto(d, "listen", "release")
  /\ UNCHANGED <<scene, pidVars, serviceVars, stopper, eventVars>>

-----------------------------------------------------------------------------
(* The service at work, and its Stop.                                      *)

BeginCall(d, c) ==
  /\ pc[d] = "serve"
  /\ c \notin calls[d]
  /\ calls' = [calls EXCEPT ![d] = @ \cup {c}]
  /\ UNCHANGED <<scene, pc, pidVars, socket, store, loop, stopper, eventVars>>

EndCall(d, c) ==
  /\ c \in calls[d]
  /\ calls' = [calls EXCEPT ![d] = @ \ {c}]
  /\ UNCHANGED <<scene, pc, pidVars, socket, store, loop, stopper, eventVars>>

LoopMoves(d, from, to) ==
  /\ loop[d] = from
  /\ loop' = [loop EXCEPT ![d] = to]
  /\ UNCHANGED <<scene, pc, pidVars, socket, store, calls, stopper, eventVars>>

\* A tick that is due competes with the cancelled context in one select.
Tick(d) == LoopMoves(d, "waiting", "pass")
PassEnds(d) == LoopMoves(d, "pass", "waiting")
\* Mutated: Stop cancels the loop's context after it has waited for its end.
LoopEndsLate(d) == pc[d] = "shutdown" /\ LoopMoves(d, "waiting", "off")
LoopEnds(d) == pc[d] = "await" /\ LoopMoves(d, "waiting", "off")

\* The streams of the event watchers.
OpenStreams == {w \in Watchers : subscribers[w].pc # "off"}

\* What REST Shutdown and GracefulStop wait for, without a deadline.
Drained(d) == calls[d] = {} /\ OpenStreams = {}

\* Both servers have drained; the reconcile loop's context is cancelled.
DrainEnds(d) ==
  /\ Drained(d)
  /\ Goto(d, "drain", "await")
  /\ UNCHANGED <<scene, pidVars, serviceVars, stopper, eventVars>>

\* Mutated: Stop cancels the loop without waiting for reconcileDone.
LoopCancelled(d) == pc[d] = "await"

LoopDone(d) == pc[d] = "await" /\ loop[d] = "off"

AwaitReconcile(d) ==
  /\ LoopDone(d)
  /\ Goto(d, "await", "shutdown")
  /\ UNCHANGED <<scene, pidVars, serviceVars, stopper, eventVars>>

\* Mutated: the database is closed with the mounts, before the socket's removal.
ShutdownAndClose(d) ==
  /\ Goto(d, "shutdown", "stopped")
  /\ store' = NoDaemon
  /\ UNCHANGED <<scene, pidVars, socket, loop, calls, stopper, eventVars>>

\* manager.Shutdown stops every mount.
Shutdown(d) ==
  /\ Goto(d, "shutdown", "stopped")
  /\ UNCHANGED <<scene, pidVars, serviceVars, stopper, eventVars>>

\* removeUnixSocket, at the end of Stop and again in Release: by its path.
RemoveUnixSocket(d) ==
  /\ Goto(d, "stopped", "release") \/ Goto(d, "release", "closing")
  /\ socket' = NoDaemon
  /\ UNCHANGED <<scene, pidVars, store, loop, calls, stopper, eventVars>>

\* What the events of a manager leave behind.
EventsEnd ==
  /\ mounts' = {}
  /\ info' = [id \in IDs |-> [state |-> "unmounted", version |-> 0]]
  /\ publication' = [id \in IDs |-> [role \in Roles |-> Quiet]]
  /\ subscribers' = [w \in Watchers |-> Off]
  /\ changes' = 0

\* The database is closed; the process has nothing left to do but exit.
CloseStore(d) ==
  /\ Goto(d, "closing", "close")
  /\ store' = NoDaemon
  /\ EventsEnd
  /\ UNCHANGED <<scene, pidVars, socket, loop, calls, stopper>>

-----------------------------------------------------------------------------
(* Signals.                                                                *)

\* A process dies: the system drops its locks and its streams; the paths of its
\* PID file and of its socket stay.
Die(d) ==
  /\ pc[d] # "down"
  /\ pc' = [pc EXCEPT ![d] = "down"]
  /\ ReleaseFile(d)
  /\ store' = IF store = d THEN NoDaemon ELSE store
  /\ loop' = [loop EXCEPT ![d] = "off"]
  /\ calls' = [calls EXCEPT ![d] = {}]
  /\ IF store = d THEN EventsEnd ELSE UNCHANGED eventVars
  /\ UNCHANGED <<scene, path, content, socket>>

Crash(d) == Die(d) /\ UNCHANGED stopper

\* SIGTERM is caught only while waitForShutdown waits: it begins Stop, whose
\* GracefulStop closes the listener, which removes the socket's path.  Before
\* that, and once Stop runs, it kills.
Terminate(d) ==
  IF pc[d] = "serve"
  THEN /\ Goto(d, "serve", "drain")
       /\ socket' = NoDaemon
       /\ UNCHANGED <<scene, pidVars, store, loop, calls, eventVars>>
  ELSE Die(d)

ProcessRunning(d) == pc[d] # "down"

\* `irodsfsd stop` reads the PID file...
ReadPID ==
  /\ stopper = NoDaemon
  /\ path # 0
  /\ content[path] # NoDaemon
  /\ stopper' = content[path]
  /\ UNCHANGED <<scene, pc, pidVars, serviceVars, eventVars>>

\* ...and signals the process of that PID, or reports the PID stale.
SignalPID ==
  /\ stopper # NoDaemon
  /\ stopper' = NoDaemon
  /\ IF ProcessRunning(stopper) THEN Terminate(stopper)
     ELSE UNCHANGED <<scene, pc, pidVars, serviceVars, eventVars>>

\* A foreground daemon is stopped by its service manager.
Interrupt(d) ==
  d \in scene.foreground /\ pc[d] = "serve" /\ Terminate(d) /\ UNCHANGED stopper

-----------------------------------------------------------------------------
\* What a process does of itself once it has been started.
Step(d) ==
  \/ LockPIDFile(d) \/ AlreadyRunning(d) \/ WritePID(d) \/ WritePIDFails(d)
  \/ MakeWorkDirs(d) \/ MakeWorkDirsFails(d) \/ OpenStore(d) \/ NewServiceFails(d)
  \/ Reconciled(d) \/ ReconcileFails(d) \/ Start(d) \/ StartFails(d)
  \/ DrainEnds(d) \/ AwaitReconcile(d) \/ Shutdown(d) \/ RemoveUnixSocket(d)
  \/ CloseStore(d) \/ ClosePIDFile(d) \/ RemovePIDFile(d) \/ Exit(d)

\* The manager whose events the streams carry.
Working(d) == store = d /\ pc[d] \in {"serve", "drain", "await", "shutdown"}

AtWork == \E d \in Daemons : Working(d)

Open(w) ==
  \E d \in Daemons : Working(d) /\ pc[d] = "serve" /\ Watch(w, scene.mounts)

EventStep ==
  /\ \/ AtWork /\ changes < scene.changes /\ Change(scene.mounts)
     \/ AtWork /\ Publishing
     \/ \E w \in scene.watchers : Open(w) \/ Leave(w) \/ Stream(w)
  /\ UNCHANGED daemonVars

Next ==
  \/ \E d \in Daemons :
       \/ OpenPIDFile(d) \/ RunForeground(d) \/ Step(d)
       \/ Tick(d) \/ PassEnds(d) \/ LoopEnds(d)
       \/ Crash(d) \/ Interrupt(d)
       \/ \E c \in scene.callers : BeginCall(d, c) \/ EndCall(d, c)
  \/ ReadPID \/ SignalPID
  \/ EventStep

Spec == Init /\ [][Next]_vars

\* Goroutines and handlers that can go on do so.  Nothing obliges an operator
\* to start or stop a daemon, a caller to make a request, or a watcher to leave
\* its stream.  The reconcile loop's select takes a cancelled context in the
\* end, even if ticks are due too.
FairSpec ==
  /\ Spec
  /\ \A d \in Daemons :
       /\ WF_vars(Step(d))
       /\ WF_vars(PassEnds(d))
       /\ SF_vars(LoopEnds(d))
       /\ \A c \in Callers : WF_vars(EndCall(d, c))
  /\ SF_vars(AtWork /\ Publishing /\ UNCHANGED daemonVars)
  /\ \A w \in Watchers :
       WF_vars(w \in scene.watchers /\ Stream(w) /\ UNCHANGED daemonVars)

-----------------------------------------------------------------------------
(* Properties.                                                             *)

PCs == {"down", "lock", "write", "dirs", "open", "reconcile", "listen", "serve",
        "drain", "await", "shutdown", "stopped", "release", "closing", "close",
        "unlink", "unlock"}

\* The types of the daemons' state and of the events'.
TypeOK ==
  /\ EventsTypeOK
  /\ scene \in Scenes
  /\ pc \in [Daemons -> PCs]
  /\ path \in Inodes \cup {0}
  /\ fd \in [Daemons -> Inodes \cup {0}]
  /\ holder \in [Inodes -> Daemons \cup {NoDaemon}]
  /\ content \in [Inodes -> Daemons \cup {NoDaemon}]
  /\ named \subseteq Daemons
  /\ {socket, store, stopper} \subseteq Daemons \cup {NoDaemon}
  /\ loop \in [Daemons -> {"off", "waiting", "pass"}]
  /\ calls \in [Daemons -> SUBSET Callers]

\* Whatever works on mounts does so in the process that has the database open:
\* startup reconciliation, every request, every pass of the reconcile loop, every
\* event stream and Shutdown itself end before Release closes it, so no two
\* processes ever manage mounts (service.Stop, Release).
UsesOpenStore ==
  /\ \A d \in Daemons :
       (\/ pc[d] \in {"reconcile", "listen", "serve", "drain", "await", "shutdown"}
        \/ calls[d] # {}
        \/ loop[d] # "off")
       => store = d
  /\ OpenStreams # {} => AtWork

\* Cleaning up after itself, a daemon never takes away the socket another one
\* listens on, although it removes the socket by its path and twice: only
\* MakeWorkDirs of a process that starts does (removeUnixSocket before Close).
CleanupSparesOthers ==
  [][\A d \in Daemons :
       (pc[d] = "serve" /\ pc'[d] = "serve" /\ socket = d /\ socket' # d)
       => \E e \in Daemons : pc[e] = "dirs" /\ pc'[e] # "dirs"]_vars

\* While a daemon runs that locked its PID file under its name, the path names
\* that file and the file holds its PID: no other process's start, failure or
\* Close removes or overwrites it, and stop and status find the daemon
\* (AcquirePIDFile, PIDFile.Close).
PIDFileKept ==
  \A d \in named :
    pc[d] \notin {"write", "unlock"}
    => path = fd[d] /\ content[path] = d

\* A daemon told to stop is gone in the end, if all event streams end: requests,
\* a pass of the reconcile loop and the files it cleans up hold it up only for a
\* while (service.Stop, runUntilShutdown).
StopFinishes ==
  (<>[](OpenStreams = {}))
    => \A d \in Daemons : (pc[d] = "drain") ~> (pc[d] = "down")
=============================================================================
