---------------------------- MODULE MountRegistry ----------------------------
(***************************************************************************)
(* Many mounts: the registry manager.mounts, the repository with its index *)
(* of mount paths (service/store/mount_repository.go), the policy a mount  *)
(* request must satisfy, and the reconciler, which works through a list of *)
(* records read earlier.                                                   *)
(*                                                                         *)
(* MountEntry has the life of one entry in full.  Here an entry is what    *)
(* the registry needs of it: its number, its configuration, whether it has *)
(* a record, whether it is unmounting and who holds its operation mutex.   *)
(* The mount table is the set of paths at which something is mounted, and  *)
(* what a mount client does between two of its changes is left out.  A     *)
(* step is a critical section of manager.mutex, a repository transaction,  *)
(* or a probe of the mount table or an unmount command.                    *)
(***************************************************************************)
EXTENDS Naturals, Sequences, FiniteSets

CONSTANTS
  IDs,            \* mount IDs
  Paths,          \* cleaned absolute mount paths
  Callers,        \* goroutines of API calls, and of fired unmount retries
  Requests,       \* the mount configurations that callers submit
  Location,       \* where each path leads: its components, links resolved
  AllowedRoots,   \* config.AllowedMountRootPaths
  Reserved,       \* the daemon's own directories
  AllowOther,     \* config.AllowFuseAllowOther
  MaxConcurrentMounts,  \* config.MaxConcurrentMounts, 0 for no limit
  ReuseIDs,       \* whether callers supply a mount ID that was used before
  NoID,           \* no mount ID
  Nobody,         \* no caller
  MaxEntries,     \* bound: entries ever registered
  MaxFaults,      \* bound: failing transactions, probes and commands
  MaxWrites,      \* bound: writes of a mount's state under way at once
  MaxRestarts     \* bound: restarts of the daemon

ClientTypes == {"irodsfs", "davfs", "nfs"}

(* A configuration: the path, the client, whether the fields that the      *)
(* client requires are there (host, user and zone, URL, port range) and    *)
(* the path is a directory or absent, and the mount options that a         *)
(* property tells apart.                                                   *)
Configs == [path : Paths, client : ClientTypes, complete : BOOLEAN,
            options : SUBSET {"allow_other"}]

ASSUME RequestsAssumption == Requests \subseteq Configs
ASSUME PolicyAssumption ==
  /\ Location \in [Paths -> Seq(STRING)]
  /\ AllowedRoots \subseteq Paths
  /\ Reserved \subseteq Paths
  /\ AllowOther \in BOOLEAN
  /\ ReuseIDs \in BOOLEAN
ASSUME NullAssumption == NoID \notin IDs /\ Nobody \notin Callers
ASSUME BoundsAssumption ==
  /\ MaxConcurrentMounts \in Nat
  /\ MaxEntries \in Nat
  /\ MaxFaults \in Nat
  /\ MaxWrites \in Nat
  /\ MaxRestarts \in Nat

VARIABLES
  mounts,     \* manager.mounts
  operation,  \* the holder of each entry's operation mutex
  call,       \* what each caller is doing
  records,    \* the repository: mount ID -> record
  index,      \* the repository: mount path -> mount ID
  writes,     \* mount states cloned for the repository, not written yet
  table,      \* the paths at which something is mounted
  reconciler, \* the reconciliation pass in progress
  serving,    \* whether the API accepts calls
  used,       \* mount IDs that were ever registered
  acked,      \* mount IDs whose mount was acknowledged to its caller
  asked,      \* mount IDs whose unmount was begun
  entries,    \* how many entries were registered
  faults, restarts

boundVars == <<entries, faults, restarts>>
historyVars == <<used, acked, asked>>
repositoryVars == <<records, index>>
apiVars == <<mounts, operation, call>>
passVars == <<reconciler, serving>>
vars == <<apiVars, passVars, writes, repositoryVars, table, boundVars,
          historyVars>>

-----------------------------------------------------------------------------
(* State.                                                                  *)

Nums == 1 .. MaxEntries
\* stored: the entry was created in, or restored from, the repository; retry:
\* the timer of an unmount retry runs.
Entries == [num : Nums, config : Configs, stored : BOOLEAN,
            unmounting : BOOLEAN, retry : BOOLEAN]
Records == [config : Configs, tombstone : BOOLEAN]
NoEntry == [num |-> 0]
NoRecord == [tombstone |-> FALSE]

Managed == {id \in IDs : mounts[id] # NoEntry}
Recorded == {id \in IDs : records[id] # NoRecord}
PathOf(id) == mounts[id].config.path

Idle == [pc |-> "idle"]
Resting == [pc |-> "idle"]

Init ==
  /\ mounts = [id \in IDs |-> NoEntry]
  /\ operation = [n \in Nums |-> Nobody]
  /\ call = [c \in Callers |-> Idle]
  /\ records = [id \in IDs |-> NoRecord]
  /\ index = [p \in Paths |-> NoID]
  /\ writes = {}
  /\ table = {}
  /\ reconciler = Resting
  /\ serving = TRUE
  /\ used = {}
  /\ acked = {}
  /\ asked = {}
  /\ entries = 0
  /\ faults = 0
  /\ restarts = 0

\* Something fails that may fail: the bound is on how often.
Fault ==
  /\ faults < MaxFaults
  /\ faults' = faults + 1

-----------------------------------------------------------------------------
(* What a mount request must satisfy.                                      *)

canonicalizePath(path) == Location[path]

\* filepath.Rel(root, target) does not start with "..": root is target or one
\* of its ancestors.
Within(target, root) ==
  /\ Len(root) <= Len(target)
  /\ SubSeq(target, 1, Len(root)) = root

pathWithinAnyRoot(target, roots) == \E root \in roots : Within(target, root)

\* Mutated: an ancestor of a reserved directory is accepted.
ConflictsBelowOnly(a, b) == pathWithinAnyRoot(a, {b})
pathsConflict(a, b) ==
  pathWithinAnyRoot(a, {b}) \/ pathWithinAnyRoot(b, {a})

\* The root directory conflicts only when it is the target itself.
reservedPathConflict(target) ==
  \/ target = <<>>
  \/ \E path \in Reserved : pathsConflict(target, canonicalizePath(path))

RequestsAllowOther(config) == "allow_other" \in config.options

validateFuseAllowOtherPolicy(config) ==
  RequestsAllowOther(config) => config.client # "nfs" /\ AllowOther

validateMountConfig(config) ==
  LET target == canonicalizePath(config.path) IN
  /\ config.complete
  /\ validateFuseAllowOtherPolicy(config)
  /\ AllowedRoots # {} =>
       pathWithinAnyRoot(target, {canonicalizePath(root) : root \in AllowedRoots})
  /\ ~ reservedPathConflict(target)

\* The configuration that is stored: the policy adds allow_other to every
\* FUSE mount.
applyFuseAllowOtherPolicy(config) ==
  IF AllowOther /\ config.client # "nfs"
  THEN [config EXCEPT !.options = @ \cup {"allow_other"}]
  ELSE config

-----------------------------------------------------------------------------
(* The repository.                                                         *)

\* Mutated: Create does not look at the path index.
CanCreateAnywhere(id, path) == records[id] = NoRecord
CanCreate(id, path) == records[id] = NoRecord /\ index[path] = NoID

Create(id, config) ==
  /\ records' = [records EXCEPT
                   ![id] = [config |-> config, tombstone |-> FALSE]]
  /\ index' = [index EXCEPT ![config.path] = id]

\* Update replaces a record that exists; it does not touch the index.
CanUpdate(id) == records[id] # NoRecord
Update(id, config, tombstone) ==
  /\ records' = [records EXCEPT
                   ![id] = [config |-> config, tombstone |-> tombstone]]
  /\ UNCHANGED index

\* Mutated: the path index is not deleted with the record.
DeleteRecordOnly(id) ==
  /\ records' = [records EXCEPT ![id] = NoRecord]
  /\ UNCHANGED index
\* Deleting an unknown ID is no error; the index key comes from the record.
Delete(id) ==
  /\ records' = [records EXCEPT ![id] = NoRecord]
  /\ index' = IF records[id] = NoRecord THEN index
              ELSE [index EXCEPT ![records[id].config.path] = NoID]

-----------------------------------------------------------------------------
(* MountManager.Mount.                                                     *)

\* Mutated: the paths of registered mounts are not compared.
RefusedByID(id, path) == id \in Managed
Refused(id, path) ==
  \/ id \in Managed
  \/ MaxConcurrentMounts > 0 /\ Cardinality(Managed) >= MaxConcurrentMounts
  \/ \E other \in Managed : PathOf(other) = path

\* Mutated: a new entry has no retry timer field.
EntryWithoutTimer(n, config, stored) ==
  [num |-> n, config |-> config, stored |-> stored, unmounting |-> FALSE]
NewEntry(n, config, stored) ==
  [num |-> n, config |-> config, stored |-> stored, unmounting |-> FALSE,
   retry |-> FALSE]

\* A generated ID is new; a supplied one may have been used before.  A request
\* that is refused changes nothing.
Mount(c, id, request) ==
  LET n == entries + 1
      config == applyFuseAllowOtherPolicy(request) IN
  /\ serving
  /\ call[c] = Idle
  /\ entries < MaxEntries
  /\ id \in used => ReuseIDs
  /\ validateMountConfig(request)
  /\ ~ Refused(id, request.path)
  /\ mounts' = [mounts EXCEPT ![id] = NewEntry(n, config, FALSE)]
  /\ operation' = [operation EXCEPT ![n] = c]
  /\ call' = [call EXCEPT ![c] = [pc |-> "create", id |-> id, num |-> n]]
  /\ entries' = n
  /\ used' = used \cup {id}
  /\ UNCHANGED <<passVars, writes, repositoryVars, table, faults, restarts,
                 acked, asked>>

\* The call ends and releases entry.operation.
Return(c) ==
  /\ call' = [call EXCEPT ![c] = Idle]
  /\ operation' = [operation EXCEPT ![call[c].num] = Nobody]

Step(c, pc) == call' = [call EXCEPT ![c].pc = pc] /\ UNCHANGED operation

CreateRecord(c) ==
  LET id == call[c].id IN
  /\ call[c].pc = "create"
  /\ CanCreate(id, PathOf(id))
  /\ Create(id, mounts[id].config)
  /\ mounts' = [mounts EXCEPT ![id].stored = TRUE]
  /\ Step(c, "start")
  /\ UNCHANGED <<passVars, writes, table, boundVars, historyVars>>

\* A conflict with a record that is not managed, or a failing transaction:
\* the entry stays registered, without a record of its own.
CreateFails(c) ==
  /\ call[c].pc = "create"
  /\ \/ ~ CanCreate(call[c].id, PathOf(call[c].id)) /\ UNCHANGED faults
     \/ Fault
  /\ Return(c)
  /\ UNCHANGED <<mounts, passVars, writes, repositoryVars, table, entries,
                 restarts, historyVars>>

\* The client is started and the caller gets the mount; or it is not started,
\* the caller gets an error, and a retry is left to start it.
StartMount(c) ==
  /\ call[c].pc = "start"
  /\ \/ acked' = acked \cup {call[c].id} /\ UNCHANGED faults
     \/ Fault /\ UNCHANGED acked
  /\ Return(c)
  /\ UNCHANGED <<mounts, passVars, writes, repositoryVars, table, entries,
                 restarts, used, asked>>

-----------------------------------------------------------------------------
(* MountManager.Unmount.                                                   *)

Unmount(c, id) ==
  /\ serving
  /\ call[c] = Idle
  /\ id \in Managed
  /\ call' = [call EXCEPT ![c] =
                [pc |-> "lock", id |-> id, num |-> mounts[id].num]]
  /\ UNCHANGED <<mounts, operation, passVars, writes, repositoryVars, table,
                 boundVars, historyVars>>

SameEntry(c) == mounts[call[c].id].num = call[c].num

\* entry.operation is free.  The entry may be gone, or the ID be another's.
UnmountBegin(c) ==
  LET id == call[c].id
      n == call[c].num IN
  /\ call[c].pc = "lock"
  /\ operation[n] = Nobody
  /\ IF SameEntry(c)
     THEN /\ operation' = [operation EXCEPT ![n] = c]
          /\ call' = [call EXCEPT ![c] =
                        [pc |-> "tombstone", id |-> id, num |-> n,
                         wasUnmounting |-> mounts[id].unmounting]]
          /\ mounts' = [mounts EXCEPT ![id].unmounting = TRUE,
                                      ![id].retry = FALSE]
          /\ asked' = asked \cup {id}
     ELSE /\ call' = [call EXCEPT ![c] = Idle]
          /\ UNCHANGED <<operation, mounts, asked>>
  /\ UNCHANGED <<passVars, writes, repositoryVars, table, boundVars, used,
                 acked>>

\* performUnmountAttempt of the caller's entry follows.
Attempt(c) ==
  call' = [call EXCEPT ![c] =
             [pc |-> "detach", id |-> call[c].id, num |-> call[c].num]]

WriteTombstone(c) ==
  LET id == call[c].id IN
  /\ call[c].pc = "tombstone"
  /\ CanUpdate(id)
  /\ Update(id, mounts[id].config, TRUE)
  /\ Attempt(c)
  /\ UNCHANGED <<mounts, operation, passVars, writes, table, boundVars,
                 historyVars>>

\* There is no record, or the transaction fails: the call is refused.
TombstoneFails(c) ==
  LET id == call[c].id IN
  /\ call[c].pc = "tombstone"
  /\ \/ ~ CanUpdate(id) /\ UNCHANGED faults
     \/ Fault
  /\ mounts' = [mounts EXCEPT ![id].unmounting = call[c].wasUnmounting]
  /\ Return(c)
  /\ UNCHANGED <<passVars, writes, repositoryVars, table, entries, restarts,
                 historyVars>>

\* The timer of an unmount attempt that failed.
RetryUnmount(c, id) ==
  LET n == mounts[id].num IN
  /\ call[c] = Idle
  /\ id \in Managed
  /\ mounts[id].unmounting
  /\ mounts[id].retry
  /\ operation[n] = Nobody
  /\ operation' = [operation EXCEPT ![n] = c]
  /\ call' = [call EXCEPT ![c] = [pc |-> "detach", id |-> id, num |-> n]]
  /\ mounts' = [mounts EXCEPT ![id].retry = FALSE]
  /\ UNCHANGED <<passVars, writes, repositoryVars, table, boundVars,
                 historyVars>>

\* Whatever is mounted is unmounted, the client exits, the data directory is
\* removed.
Detach(c) ==
  /\ call[c].pc = "detach"
  /\ table' = table \ {PathOf(call[c].id)}
  /\ Step(c, "delete")
  /\ UNCHANGED <<mounts, passVars, writes, repositoryVars, boundVars,
                 historyVars>>

\* Any of it fails: unless the attempts are used up, a retry is scheduled.
UnmountFails(c) ==
  /\ call[c].pc = "detach"
  /\ Fault
  /\ \E retry \in BOOLEAN :
       mounts' = [mounts EXCEPT ![call[c].id].retry = retry]
  /\ Return(c)
  /\ UNCHANGED <<passVars, writes, repositoryVars, table, entries, restarts,
                 historyVars>>

\* A failing deletion is logged, and left to the reconciler.
DeleteRecord(c) ==
  /\ call[c].pc = "delete"
  /\ \/ Delete(call[c].id) /\ UNCHANGED faults
     \/ Fault /\ UNCHANGED repositoryVars
  /\ Step(c, "unregister")
  /\ UNCHANGED <<mounts, passVars, writes, table, entries, restarts,
                 historyVars>>

Unregister(c) ==
  /\ call[c].pc = "unregister"
  /\ mounts' = [mounts EXCEPT ![call[c].id] = NoEntry]
  /\ Return(c)
  /\ UNCHANGED <<passVars, writes, repositoryVars, table, boundVars,
                 historyVars>>

-----------------------------------------------------------------------------
(* The goroutines of the entries, as far as others see them.               *)

\* persistRecord: a clone of the entry is taken under entry.mutex.
CloneRecord(id) ==
  /\ Cardinality(writes) < MaxWrites
  /\ id \in Managed
  /\ mounts[id].stored
  /\ writes' = writes \cup {[id |-> id, config |-> mounts[id].config,
                             tombstone |-> mounts[id].unmounting]}
  /\ UNCHANGED <<apiVars, passVars, repositoryVars, table, boundVars,
                 historyVars>>

\* The clone is written, by then possibly stale, or to no record at all.
WriteRecord(w) ==
  /\ w \in writes
  /\ writes' = writes \ {w}
  /\ IF CanUpdate(w.id) THEN Update(w.id, w.config, w.tombstone)
     ELSE UNCHANGED repositoryVars
  /\ UNCHANGED <<apiVars, passVars, table, boundVars, historyVars>>

\* The client of an entry, started by its call or by a retry, mounts.
ClientMounts(id) ==
  /\ id \in Managed
  /\ mounts[id].stored
  /\ ~ mounts[id].unmounting
  /\ operation[mounts[id].num] = Nobody
  /\ table' = table \cup {PathOf(id)}
  /\ UNCHANGED <<apiVars, passVars, writes, repositoryVars, boundVars,
                 historyVars>>

\* A client is gone, and with it, at once or after the clean-up of
\* waitForProcess, its file system.
ClientGone(path) ==
  /\ path \in table
  /\ table' = table \ {path}
  /\ UNCHANGED <<apiVars, passVars, writes, repositoryVars, boundVars,
                 historyVars>>

-----------------------------------------------------------------------------
(* Reconciliation.                                                         *)

Listed(ids) == {[id |-> id, record |-> records[id]] : id \in ids}
Tombstoned == {id \in Recorded : records[id].tombstone}

Pass(list) == [pc |-> "next", list |-> list]

\* ReconcileTombstones, every ReconcileInterval.
ListTombstones ==
  /\ serving
  /\ reconciler = Resting
  /\ Tombstoned # {}
  /\ reconciler' = Pass(Listed(Tombstoned))
  /\ UNCHANGED <<apiVars, serving, writes, repositoryVars, table, boundVars,
                 historyVars>>

\* The daemon dies, in the middle of anything, and starts again.  Reconcile
\* goes through every record, ReconcileTombstones only resumes unmounts; the
\* one that restore_on_start selects runs before the API accepts calls.
Restart ==
  /\ restarts < MaxRestarts
  /\ entries + Cardinality(Recorded) <= MaxEntries
  /\ restarts' = restarts + 1
  /\ mounts' = [id \in IDs |-> NoEntry]
  /\ operation' = [n \in Nums |-> Nobody]
  /\ call' = [c \in Callers |-> Idle]
  /\ writes' = {}
  /\ serving' = FALSE
  /\ \E ids \in {Recorded, Tombstoned} : reconciler' = Pass(Listed(ids))
  /\ UNCHANGED <<repositoryVars, table, entries, faults, historyVars>>

alreadyManaged(id) == id \in Managed

\* reconcileRecord.  A record that is supervised here is left to its
\* controller.
ReconcileManaged ==
  /\ reconciler.pc = "next"
  /\ \E r \in reconciler.list :
       /\ alreadyManaged(r.id)
       /\ reconciler' = Pass(reconciler.list \ {r})
  /\ UNCHANGED <<apiVars, serving, writes, repositoryVars, table, boundVars,
                 historyVars>>

ReconcileRecord ==
  /\ reconciler.pc = "next"
  /\ \E r \in reconciler.list :
       /\ ~ alreadyManaged(r.id)
       /\ reconciler' = [pc |-> "probe", list |-> reconciler.list \ {r},
                         rec |-> r]
  /\ UNCHANGED <<apiVars, serving, writes, repositoryVars, table, boundVars,
                 historyVars>>

ReconcileProbe ==
  /\ reconciler.pc = "probe"
  /\ reconciler' = [reconciler EXCEPT
                      !.pc = IF reconciler.rec.record.config.path \in table
                             THEN "detach" ELSE "detached"]
  /\ UNCHANGED <<apiVars, serving, writes, repositoryVars, table, boundVars,
                 historyVars>>

\* unmountByClientType of the path in the record.
ReconcileDetach ==
  /\ reconciler.pc = "detach"
  /\ table' = table \ {reconciler.rec.record.config.path}
  /\ reconciler' = [reconciler EXCEPT !.pc = "detached"]
  /\ UNCHANGED <<apiVars, serving, writes, repositoryVars, boundVars,
                 historyVars>>

\* The probe, the command, the removal of the data directory or the deletion
\* fails: the record is left to the next pass, or to the next start.
ReconcileFails ==
  /\ \/ reconciler.pc \in {"probe", "detach"}
     \/ reconciler.pc = "detached" /\ reconciler.rec.record.tombstone
  /\ Fault
  /\ reconciler' = Pass(reconciler.list)
  /\ UNCHANGED <<apiVars, serving, writes, repositoryVars, table, entries,
                 restarts, historyVars>>

\* Mutated: an ordinary record is deleted like a tombstone.
EitherRecord == TRUE
TombstoneInHand == reconciler.rec.record.tombstone

\* Mutated: the data directory is removed, the record is forgotten.
TombstoneForgotten ==
  /\ reconciler.pc = "detached"
  /\ TombstoneInHand
  /\ reconciler' = Pass(reconciler.list)
  /\ UNCHANGED <<apiVars, serving, writes, repositoryVars, table, boundVars,
                 historyVars>>
\* reconcileTombstone, once nothing is mounted.
ReconcileTombstone ==
  /\ reconciler.pc = "detached"
  /\ TombstoneInHand
  /\ Delete(reconciler.rec.id)
  /\ reconciler' = Pass(reconciler.list)
  /\ UNCHANGED <<apiVars, serving, writes, table, boundVars, historyVars>>

\* reconcileOrdinaryRecord and remount: no path is compared and nothing is
\* created.  Only the pass at startup has an ordinary record in hand, and no
\* call of the API runs then: nobody else sees the steps in between.
Remount ==
  LET id == reconciler.rec.id
      config == reconciler.rec.record.config
      n == entries + 1 IN
  /\ reconciler.pc = "detached"
  /\ ~ reconciler.rec.record.tombstone
  /\ ~ alreadyManaged(id)
  /\ entries < MaxEntries
  /\ mounts' = [mounts EXCEPT ![id] = NewEntry(n, config, TRUE)]
  /\ entries' = n
  /\ IF CanUpdate(id) THEN Update(id, config, FALSE)
     ELSE UNCHANGED repositoryVars
  /\ reconciler' = Pass(reconciler.list)
  /\ UNCHANGED <<operation, call, serving, writes, table, faults, restarts,
                 historyVars>>

\* The pass is over; after the one at startup the API opens.
ReconcileDone ==
  /\ reconciler = Pass({})
  /\ reconciler' = Resting
  /\ serving' = TRUE
  /\ UNCHANGED <<apiVars, writes, repositoryVars, table, boundVars,
                 historyVars>>

-----------------------------------------------------------------------------
Call(c) ==
  \/ \E id \in IDs, request \in Requests : Mount(c, id, request)
  \/ \E id \in IDs : Unmount(c, id) \/ RetryUnmount(c, id)
  \/ CreateRecord(c) \/ CreateFails(c) \/ StartMount(c)
  \/ UnmountBegin(c) \/ WriteTombstone(c) \/ TombstoneFails(c)
  \/ Detach(c) \/ UnmountFails(c) \/ DeleteRecord(c) \/ Unregister(c)

Reconciliation ==
  \/ ListTombstones \/ ReconcileManaged \/ ReconcileRecord
  \/ ReconcileProbe \/ ReconcileDetach \/ ReconcileFails
  \/ ReconcileTombstone \/ Remount \/ ReconcileDone

Entry(id) == CloneRecord(id) \/ ClientMounts(id)

Next ==
  \/ \E c \in Callers : Call(c)
  \/ Reconciliation
  \/ \E id \in IDs : Entry(id)
  \/ \E w \in writes : WriteRecord(w)
  \/ \E path \in table : ClientGone(path)
  \/ Restart

Spec == Init /\ [][Next]_vars

\* The ticker of the periodic reconciler fires again and again, and a pass
\* that was begun goes on.
FairSpec == Spec /\ WF_vars(Reconciliation)
====
