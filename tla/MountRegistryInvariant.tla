------------------------ MODULE MountRegistryInvariant ------------------------
(***************************************************************************)
(* The properties of MountRegistry, and the invariant behind them.  Apart  *)
(* from the type invariant they are about callers that never supply a      *)
(* mount ID that was used before.                                          *)
(***************************************************************************)
EXTENDS MountRegistry

Calls ==
  {Idle}
  \cup [pc : {"create", "start", "lock", "detach", "delete", "unregister"},
        id : IDs, num : Nums]
  \cup [pc : {"tombstone"}, id : IDs, num : Nums, wasUnmounting : BOOLEAN]

ListedRecords == [id : IDs, record : Records]
Passes ==
  {Resting}
  \cup [pc : {"next"}, list : SUBSET ListedRecords]
  \cup [pc : {"probe", "detach", "detached"}, list : SUBSET ListedRecords,
        rec : ListedRecords]

(* The state of the registry, the repository and the reconciler has the    *)
(* shape that the code gives it (mount_manager.go, mount_repository.go).   *)
TypeOK ==
  /\ mounts \in [IDs -> Entries \cup {NoEntry}]
  /\ operation \in [Nums -> Callers \cup {Nobody}]
  /\ call \in [Callers -> Calls]
  /\ records \in [IDs -> Records \cup {NoRecord}]
  /\ index \in [Paths -> IDs \cup {NoID}]
  /\ reconciler \in Passes
  /\ serving \in BOOLEAN
  /\ writes \subseteq [id : IDs, config : Configs, tombstone : BOOLEAN]
  /\ used \subseteq IDs
  /\ acked \subseteq IDs
  /\ asked \subseteq IDs
  /\ table \subseteq Paths
  /\ entries \in 0 .. MaxEntries
  /\ faults \in 0 .. MaxFaults
  /\ restarts \in 0 .. MaxRestarts

(* The path index of the repository and its records name each other:       *)
(* Update, which leaves the index alone, and Delete, which takes the path  *)
(* to free from the record, never part them, and no two records share a    *)
(* path.                                                                   *)
IndexMatchesRecords ==
  ~ ReuseIDs =>
    \A p \in Paths, id \in IDs :
      index[p] = id <=> id \in Recorded /\ records[id].config.path = p

(* No two registered mounts have the same path, though Remount compares no *)
(* paths and an entry may be registered whose record could not be created. *)
PathsDistinct ==
  ~ ReuseIDs =>
    \A id, other \in Managed : PathOf(id) = PathOf(other) => id = other

(* A mount that was acknowledged is on record, with its path reserved, for *)
(* as long as nobody asks to unmount it: neither a failing call, nor a     *)
(* pass of the reconciler over an old list, nor a restart loses it.        *)
AcknowledgedIsRecorded ==
  ~ ReuseIDs =>
    \A id \in acked \ asked :
      /\ id \in Recorded
      /\ index[records[id].config.path] = id

\* What the policy promises of a configuration that was accepted and stored.
Accepted(config) ==
  LET target == Location[config.path] IN
  /\ AllowedRoots # {} => \E root \in AllowedRoots : Within(target, Location[root])
  /\ target # <<>>
  /\ \A path \in Reserved : /\ ~ Within(target, Location[path])
                            /\ ~ Within(Location[path], target)
  /\ RequestsAllowOther(config) <=> (AllowOther /\ config.client # "nfs")

(* Every record has a configuration that the policy of the daemon accepts  *)
(* (validateMountConfig), with allow_other exactly where the policy puts   *)
(* it, whichever way the record was last written.                          *)
AcceptedByPolicy == \A id \in Recorded : Accepted(records[id].config)

(* An unsupervised tombstone, left by a failed deletion or by a restart,   *)
(* is cleared by some pass of the reconciler (or is no tombstone any more, *)
(* when a late write of the mount's state has replaced it).                *)
OrphanTombstoneCleared ==
  \A id \in IDs : (id \in Tombstoned \ Managed) ~> (id \notin Tombstoned)

-----------------------------------------------------------------------------
(* The abstract specification.  A path belongs to the mount whose record   *)
(* has it.                                                                 *)

Owner == [p \in Paths |->
            IF \E id \in Recorded : records[id].config.path = p
            THEN CHOOSE id \in Recorded : records[id].config.path = p
            ELSE NoID]

Ownership == INSTANCE PathOwnership WITH owner <- Owner, asked <- asked

(* The records of the repository implement exclusive ownership of paths:   *)
(* Create, Update and Delete as the calls and the reconciler use them.     *)
ImplementsOwnership == Ownership!Spec

-----------------------------------------------------------------------------
(* The reconciler never runs the unmount command on the path of another    *)
(* mount, one that this process supervises and whose record has the path.  *)
ReconcilerSparesManaged ==
  reconciler.pc = "detach" =>
    \A id \in Managed \ {reconciler.rec.id} :
      mounts[id].stored => PathOf(id) # reconciler.rec.record.config.path
====
