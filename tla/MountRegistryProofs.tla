------------------------- MODULE MountRegistryProofs -------------------------
(***************************************************************************)
(* The registry and the repository for any number of mounts, paths,        *)
(* callers, faults and restarts: the index of paths names the records,     *)
(* registered mounts have distinct paths, an acknowledged mount is not     *)
(* lost, every record was accepted by the policy, and the records          *)
(* implement exclusive ownership of paths.                                 *)
(*                                                                         *)
(* The invariant ties the four places where a mount's configuration is     *)
(* (entries, records, writes under way, the list of the reconciler) to one *)
(* another, and everything that may delete a record to a request to        *)
(* unmount it.                                                             *)
(***************************************************************************)
EXTENDS MountRegistryInvariant, TLAPS

\* The records that the pass of the reconciler has still to treat.
InHand == IF reconciler.pc \in {"probe", "detach", "detached"}
          THEN {reconciler.rec} ELSE {}
ToDo == IF reconciler.pc = "idle" THEN {} ELSE reconciler.list
InPass == ToDo \cup InHand

PolicyInv ==
  /\ \A id \in Managed : Accepted(mounts[id].config)
  /\ \A id \in Recorded : Accepted(records[id].config)
  /\ \A w \in writes : Accepted(w.config)
  /\ \A r \in InPass : Accepted(r.record.config)

\* A call past entry.operation.Lock, and one that unmounts.
Locked(c) == call[c].pc \notin {"idle", "lock"}
Unmounting(c) == call[c].pc \in {"tombstone", "detach", "delete", "unregister"}

\* An entry number is an entry's; a call past the lock holds its mutex, and
\* the entry is registered for as long.
EntryInv ==
  /\ \A id \in Managed : mounts[id].num <= entries
  /\ \A id, other \in Managed : mounts[id].num = mounts[other].num => id = other
  /\ \A c \in Callers : Locked(c) =>
       /\ operation[call[c].num] = c
       /\ call[c].id \in Managed
       /\ mounts[call[c].id].num = call[c].num
       /\ call[c].pc = "create" => ~ mounts[call[c].id].stored

\* The rest holds when no ID is supplied twice.  An ID is used up by what
\* refers to it.
UsedInv ==
  /\ Managed \cup Recorded \cup asked \subseteq used
  /\ \A w \in writes : w.id \in used

\* Nothing refers to the ID of a mount whose record is about to be created.
CreateInv ==
  \A c \in Callers : call[c].pc = "create" =>
    /\ call[c].id \notin Recorded \cup asked
    /\ \A w \in writes : w.id # call[c].id

\* The configuration of a mount never changes.
SameInv ==
  /\ \A id \in Managed \cap Recorded : mounts[id].config = records[id].config
  /\ \A w \in writes : w.id \in Recorded => w.config = records[w.id].config

AckInv ==
  /\ acked \subseteq Recorded \cup asked
  /\ \A c \in Callers : call[c].pc = "start" => call[c].id \in Recorded \cup asked

\* Whatever leads to the deletion of a record was asked for.
AskedInv ==
  /\ \A id \in Recorded : records[id].tombstone => id \in asked
  /\ \A id \in Managed : mounts[id].unmounting => id \in asked
  /\ \A w \in writes : w.tombstone => w.id \in asked
  /\ \A c \in Callers : Unmounting(c) => call[c].id \in asked

\* The pass at startup: nobody calls, and an ordinary record that is still to
\* be treated is as it was read.
StartupInv ==
  /\ \A c \in Callers : call[c].pc = "idle"
  /\ \A id \in Managed : id \in Recorded /\ ~ mounts[id].unmounting
  /\ \A r \in InPass :
       /\ r.id \notin Managed
       /\ ~ r.record.tombstone =>
            r.id \in Recorded /\ r.record.config = records[r.id].config
  /\ \A r, s \in ToDo : r.id = s.id => r = s
  /\ \A r \in ToDo, s \in InHand : r.id # s.id

PassInv ==
  /\ \A r \in InPass : r.record.tombstone => r.id \in asked
  /\ serving => \A r \in InPass : r.record.tombstone
  /\ ~ serving => StartupInv

IndexInv ==
  \A p \in Paths, id \in IDs :
    index[p] = id <=> (id \in Recorded /\ records[id].config.path = p)

PathInv == \A id, other \in Managed : PathOf(id) = PathOf(other) => id = other

RepoInv ==
  /\ UsedInv /\ CreateInv /\ SameInv /\ AckInv /\ AskedInv
  /\ IndexInv /\ PathInv

Inv == TypeOK /\ PolicyInv /\ EntryInv /\ (~ ReuseIDs => RepoInv /\ PassInv)

-----------------------------------------------------------------------------
(* Entries, records and calls.                                             *)

\* An entry is not the missing one, nor is a record.
LEMMA Present ==
  /\ \A e \in Entries : e # NoEntry
  /\ \A r \in Records : r # NoRecord
<1>1. \A e \in Entries : e # NoEntry
  BY BoundsAssumption DEF Entries, NoEntry, Nums
<1>2. \A r \in Records : r # NoRecord
  <2> SUFFICES ASSUME NEW r \in Records PROVE r # NoRecord OBVIOUS
  <2>1. DOMAIN r = {"config", "tombstone"} BY Zenon DEF Records
  <2>2. DOMAIN NoRecord = {"tombstone"} BY Zenon DEF NoRecord
  <2> QED BY <2>1, <2>2
<1> QED BY <1>1, <1>2, Zenon

\* What is registered and recorded has the fields of an entry and of a record.
LEMMA Shapes ==
  ASSUME TypeOK
  PROVE  /\ \A id \in Managed :
              /\ id \in IDs /\ mounts[id] \in Entries /\ mounts[id].num \in Nums
              /\ mounts[id].config \in Configs /\ PathOf(id) \in Paths
         /\ \A id \in Recorded :
              /\ id \in IDs /\ records[id] \in Records
              /\ records[id].config \in Configs /\ records[id].config.path \in Paths
         /\ \A w \in writes : w.id \in IDs /\ w.config \in Configs
<1>1. ASSUME NEW id \in Managed
      PROVE  id \in IDs /\ mounts[id] \in Entries
  BY <1>1, Zenon DEF TypeOK, Managed
<1>2. ASSUME NEW id \in Recorded
      PROVE  id \in IDs /\ records[id] \in Records
  BY <1>2, Zenon DEF TypeOK, Recorded
<1>3. \A w \in writes : w.id \in IDs /\ w.config \in Configs BY Zenon DEF TypeOK
<1>4. \A e \in Entries : e.num \in Nums /\ e.config \in Configs BY Zenon DEF Entries
<1>5. \A r \in Records : r.config \in Configs BY Zenon DEF Records
<1>6. \A k \in Configs : k.path \in Paths BY Zenon DEF Configs
<1> QED BY <1>1, <1>2, <1>3, <1>4, <1>5, <1>6, Zenon DEF PathOf

\* A call that is not idle is about an entry.
LEMMA CallShape ==
  ASSUME TypeOK, NEW c \in Callers
  PROVE  /\ call[c].pc = "idle" => call[c] = Idle
         /\ call[c] = Idle => call[c].pc = "idle"
         /\ call[c].pc # "idle" => call[c].id \in IDs /\ call[c].num \in Nums
         /\ call[c].pc \in {"idle", "create", "start", "lock", "tombstone", "detach",
                            "delete", "unregister"}
<1>1. call[c] \in Calls BY Zenon DEF TypeOK
<1>2. CASE call[c] = Idle BY <1>2 DEF Idle
<1>3. CASE call[c] \in [pc : {"create", "start", "lock", "detach", "delete", "unregister"},
                        id : IDs, num : Nums]
  BY <1>3 DEF Idle
<1>4. CASE call[c] \in [pc : {"tombstone"}, id : IDs, num : Nums, wasUnmounting : BOOLEAN]
  BY <1>4 DEF Idle
<1> QED BY <1>1, <1>2, <1>3, <1>4, Zenon DEF Calls

-----------------------------------------------------------------------------
(* What the registry and the repository hold after a change.               *)

\* An entry is registered, or replaced by one with other flags.
LEMMA Registers ==
  ASSUME TypeOK, NEW id \in IDs, NEW e \in Entries,
         mounts' = [mounts EXCEPT ![id] = e]
  PROVE  /\ mounts' \in [IDs -> Entries \cup {NoEntry}]
         /\ Managed' = Managed \cup {id} /\ mounts'[id] = e
         /\ \A o \in IDs : o # id => mounts'[o] = mounts[o]
BY Present, Zenon DEF TypeOK, Managed

\* An entry is deleted from the registry.
LEMMA Unregisters ==
  ASSUME TypeOK, NEW id \in IDs, mounts' = [mounts EXCEPT ![id] = NoEntry]
  PROVE  /\ mounts' \in [IDs -> Entries \cup {NoEntry}]
         /\ Managed' = Managed \ {id}
         /\ \A o \in IDs : o # id => mounts'[o] = mounts[o]
BY Zenon DEF TypeOK, Managed

\* Create and Update put a record in place, Delete removes it.
LEMMA Records1 ==
  ASSUME TypeOK, NEW id \in IDs, NEW r \in Records,
         records' = [records EXCEPT ![id] = r]
  PROVE  /\ records' \in [IDs -> Records \cup {NoRecord}]
         /\ Recorded' = Recorded \cup {id} /\ records'[id] = r
         /\ \A o \in IDs : o # id => records'[o] = records[o]
BY Present, Zenon DEF TypeOK, Recorded

\* A record is deleted.
LEMMA Deletes ==
  ASSUME TypeOK, NEW id \in IDs, records' = [records EXCEPT ![id] = NoRecord]
  PROVE  /\ records' \in [IDs -> Records \cup {NoRecord}]
         /\ Recorded' = Recorded \ {id}
         /\ \A o \in IDs : o # id => records'[o] = records[o]
BY Zenon DEF TypeOK, Recorded

-----------------------------------------------------------------------------
(* The repository: what its operations keep.                               *)

\* A step that creates no record and changes no path: records are kept, are
\* written again with the same configuration, or are deleted on request.
RepoStep ==
  /\ Recorded' \subseteq Recorded
  /\ \A id \in Recorded' :
       /\ records'[id].config = records[id].config
       /\ records'[id].tombstone => id \in asked'
  /\ Recorded \ Recorded' \subseteq asked
  /\ IndexInv'

RepoType ==
  /\ records' \in [IDs -> Records \cup {NoRecord}]
  /\ index' \in [Paths -> IDs \cup {NoID}]
  /\ \A id \in Recorded' : Accepted(records'[id].config)

\* The repository is left alone.
LEMMA RepoSame ==
  ASSUME Inv, UNCHANGED repositoryVars, asked \subseteq asked'
  PROVE  RepoType /\ (~ ReuseIDs => RepoStep)
<1>1. /\ records' = records /\ index' = index /\ Recorded' = Recorded
  BY Zenon DEF repositoryVars, Recorded
<1>2. RepoType BY <1>1, Zenon DEF Inv, TypeOK, PolicyInv, RepoType
<1>3. ~ ReuseIDs => RepoStep
  BY <1>1, Zenon DEF Inv, RepoInv, AskedInv, IndexInv, RepoStep
<1> QED BY <1>2, <1>3, Zenon

\* Update of a record with the configuration that the mount has.
LEMMA RepoUpdate ==
  ASSUME Inv, NEW id \in IDs, NEW config \in Configs, NEW t \in BOOLEAN,
         CanUpdate(id), Update(id, config, t), Accepted(config),
         asked \subseteq asked',
         ~ ReuseIDs => (config = records[id].config /\ (t => id \in asked'))
  PROVE  RepoType /\ (~ ReuseIDs => RepoStep)
<1> DEFINE r == [config |-> config, tombstone |-> t]
<1>1. /\ r \in Records /\ r.config = config /\ r.tombstone = t BY Zenon DEF Records
<1>2. records' = [records EXCEPT ![id] = r] /\ index' = index /\ id \in Recorded
  BY Zenon DEF Update, CanUpdate, Recorded
<1> HIDE DEF r
<1>3. /\ records' \in [IDs -> Records \cup {NoRecord}] /\ Recorded' = Recorded
      /\ records'[id] = r /\ \A o \in IDs : o # id => records'[o] = records[o]
  <2>1. TypeOK /\ Recorded \cup {id} = Recorded BY <1>2, Zenon DEF Inv
  <2> QED BY <1>1, <1>2, <2>1, Records1, Zenon
<1>4. Recorded \subseteq IDs BY Zenon DEF Recorded
<1>5. RepoType
  BY <1>1, <1>2, <1>3, <1>4, Zenon DEF Inv, TypeOK, PolicyInv, RepoType
<1>6. ASSUME ~ ReuseIDs PROVE RepoStep
  <2>1. /\ IndexInv /\ \A o \in Recorded : records[o].tombstone => o \in asked
    BY <1>6, Zenon DEF Inv, RepoInv, AskedInv
  <2>2. \A o \in Recorded : records'[o].config = records[o].config
    BY <1>1, <1>3, <1>4, <1>6, Zenon
  <2>3. IndexInv' BY <1>2, <1>3, <2>1, <2>2 DEF IndexInv
  <2> QED BY <1>1, <1>3, <1>4, <1>6, <2>1, <2>2, <2>3, Zenon DEF RepoStep
<1> QED BY <1>5, <1>6, Zenon

\* Delete of a record.
LEMMA RepoDelete ==
  ASSUME Inv, NEW id \in IDs, Delete(id), asked' = asked,
         ~ ReuseIDs => id \in asked
  PROVE  RepoType /\ (~ ReuseIDs => RepoStep)
<1>1. /\ records' = [records EXCEPT ![id] = NoRecord] /\ TypeOK
      /\ index' = IF id \in Recorded
                  THEN [index EXCEPT ![records[id].config.path] = NoID] ELSE index
  BY Zenon DEF Delete, Recorded, Inv
<1>2. /\ records' \in [IDs -> Records \cup {NoRecord}]
      /\ Recorded' = Recorded \ {id} /\ Recorded \subseteq IDs
      /\ \A o \in IDs : o # id => records'[o] = records[o]
  BY <1>1, Deletes, Zenon DEF Recorded
<1>3. index' \in [Paths -> IDs \cup {NoID}]
  BY <1>1, Zenon DEF TypeOK
<1>4. RepoType BY <1>2, <1>3, Zenon DEF Inv, PolicyInv, RepoType
<1>5. ASSUME ~ ReuseIDs PROVE RepoStep
  <2>1. /\ IndexInv /\ \A o \in Recorded : records[o].tombstone => o \in asked
        /\ id \in asked
    BY <1>5, Zenon DEF Inv, RepoInv, AskedInv
  <2>2. IndexInv'
    <3> SUFFICES ASSUME NEW p \in Paths, NEW o \in IDs
                 PROVE  index'[p] = o <=> (o \in Recorded' /\ records'[o].config.path = p)
      BY Zenon DEF IndexInv
    <3>1. index[p] = o <=> (o \in Recorded /\ records[o].config.path = p)
      BY <2>1, Zenon DEF IndexInv
    <3>2. id \in Recorded => index[records[id].config.path] = id
      BY <1>1, <2>1, Shapes DEF IndexInv
    <3>3. index \in [Paths -> IDs \cup {NoID}] /\ NoID \notin IDs
      BY <1>1, NullAssumption, Zenon DEF TypeOK
    <3>4. CASE id \notin Recorded BY <1>1, <1>2, <3>1, <3>4, Zenon
    <3>5. CASE id \in Recorded /\ p = records[id].config.path
      BY <1>1, <1>2, <3>1, <3>2, <3>3, <3>5, Zenon
    <3>6. CASE id \in Recorded /\ p # records[id].config.path
      BY <1>1, <1>2, <3>1, <3>3, <3>6, Zenon
    <3> QED BY <3>4, <3>5, <3>6, Zenon
  <2> QED BY <1>2, <2>1, <2>2, Zenon DEF RepoStep
<1> QED BY <1>4, <1>5, Zenon

-----------------------------------------------------------------------------
(* The steps that register nothing.                                        *)

\* A step keeps the entries, or unregisters one.
EntriesKept ==
  /\ mounts' \in [IDs -> Entries \cup {NoEntry}]
  /\ Managed' \subseteq Managed
  /\ \A id \in Managed' :
       /\ mounts'[id].num = mounts[id].num
       /\ mounts'[id].config = mounts[id].config
       /\ mounts'[id].stored = mounts[id].stored

\* What such a step keeps of the conjuncts about IDs.
LEMMA RepoInvStep ==
  ASSUME TypeOK, EntryInv, RepoInv, RepoStep, EntriesKept,
         \A id \in Managed' : mounts'[id].unmounting => id \in asked',
         \A w \in writes' : \/ w \in writes
                            \/ /\ w.id \in Managed /\ mounts[w.id].stored
                               /\ w.config = mounts[w.id].config
                               /\ w.tombstone => w.id \in asked,
         used' = used, asked \subseteq asked', asked' \subseteq asked \cup Managed,
         acked' \subseteq acked \cup Recorded \cup asked,
         \A d \in Callers :
           /\ call'[d].pc = "create" =>
                call[d].pc = "create" /\ call'[d].id = call[d].id /\ call[d].id \notin asked'
           /\ call'[d].pc = "start" =>
                call[d].pc = "start" /\ call'[d].id = call[d].id
           /\ Unmounting(d)' => call'[d].id \in asked'
  PROVE  RepoInv'
<1>1. UsedInv'
  BY Zenon DEF RepoInv, UsedInv, RepoStep, EntriesKept
<1>2. CreateInv'
  <2> SUFFICES ASSUME NEW c \in Callers, call'[c].pc = "create"
               PROVE  /\ call'[c].id \notin Recorded' \cup asked'
                      /\ \A w \in writes' : w.id # call'[c].id
    BY Zenon DEF CreateInv
  <2>1. /\ call[c].pc = "create" /\ call'[c].id = call[c].id /\ call[c].id \notin asked'
        /\ call[c].id \notin Recorded /\ \A w \in writes : w.id # call[c].id
        /\ ~ mounts[call[c].id].stored
    BY Zenon DEF RepoInv, CreateInv, EntryInv, Locked
  <2> QED BY <2>1, Zenon DEF RepoStep
<1>3. SameInv'
  BY DEF RepoInv, SameInv, RepoStep, EntriesKept
<1>4. AckInv'
  BY Zenon DEF RepoInv, AckInv, RepoStep
<1>5. AskedInv'
  BY Zenon DEF RepoInv, AskedInv, RepoStep
<1>6. PathInv'
  BY DEF RepoInv, PathInv, PathOf, EntriesKept
<1> QED BY <1>1, <1>2, <1>3, <1>4, <1>5, <1>6, Zenon DEF RepoInv, RepoStep

\* A step of call c that leaves the rest of the daemon alone.
ApiStep(c) ==
  /\ UNCHANGED <<reconciler, serving, writes, used, entries, restarts>>
  /\ faults' \in 0 .. MaxFaults /\ table' \subseteq Paths
  /\ EntriesKept
  /\ operation' \in [Nums -> Callers \cup {Nobody}] /\ call' \in [Callers -> Calls]
  /\ \A d \in Callers : d # c => /\ call'[d] = call[d]
                                 /\ Locked(d) => /\ operation'[call[d].num] = d
                                                 /\ call[d].id \in Managed'
  /\ call'[c].pc \notin {"create", "start"}
  /\ Locked(c)' => /\ call'[c].id \in Managed'
                   /\ mounts[call'[c].id].num = call'[c].num
                   /\ operation'[call'[c].num] = c
  /\ asked \subseteq asked' /\ asked' \subseteq asked \cup Managed
  /\ \A id \in asked' \ asked : \A d \in Callers : Locked(d) => call[d].id # id
  /\ acked \subseteq acked' /\ acked' \subseteq IDs
  /\ \A id \in acked' \ acked : call[c].pc = "start" /\ call[c].id = id
  /\ \A id \in Managed' : mounts'[id].unmounting =>
       mounts[id].unmounting \/ id \in asked' \/ (Unmounting(c) /\ id = call[c].id)
  /\ Unmounting(c)' =>
       \/ call'[c].id \in asked' \/ mounts[call'[c].id].unmounting
       \/ Unmounting(c) /\ call'[c].id = call[c].id
  /\ serving \/ call[c].pc # "idle" \/ \E id \in Managed : mounts[id].unmounting

\* It keeps the invariant when its change of the repository is legal.
LEMMA ApiStepInv ==
  ASSUME Inv, NEW c \in Callers, ApiStep(c), RepoType, ~ ReuseIDs => RepoStep
  PROVE  Inv'
<1>0. TypeOK /\ PolicyInv /\ EntryInv BY Zenon DEF Inv
<1>1. TypeOK'
  <2>1. Managed \subseteq IDs BY Zenon DEF Managed
  <2> QED BY <1>0, <2>1, Zenon DEF TypeOK, ApiStep, EntriesKept, RepoType
<1>2. PolicyInv'
  <2>1. InPass' = InPass BY Zenon DEF ApiStep, InPass, ToDo, InHand
  <2> QED BY <1>0, <2>1, Zenon DEF PolicyInv, ApiStep, EntriesKept, RepoType
<1>3. EntryInv'
  <2>1. /\ \A id \in Managed' : mounts'[id].num <= entries'
        /\ \A id, other \in Managed' : mounts'[id].num = mounts'[other].num => id = other
    <3>1. entries' = entries /\ EntriesKept BY Zenon DEF ApiStep
    <3> QED BY <1>0, <3>1 DEF EntryInv, EntriesKept
  <2>2. ASSUME NEW d \in Callers, Locked(d)'
        PROVE  /\ operation'[call'[d].num] = d
               /\ call'[d].id \in Managed'
               /\ mounts'[call'[d].id].num = call'[d].num
               /\ call'[d].pc = "create" => ~ mounts'[call'[d].id].stored
    <3>1. CASE d = c BY <2>2, <3>1, Zenon DEF ApiStep, EntriesKept
    <3>2. CASE d # c
      <4>1. call'[d] = call[d] /\ Locked(d) BY <2>2, <3>2, Zenon DEF ApiStep, Locked
      <4>2. /\ EntriesKept /\ operation'[call[d].num] = d /\ call[d].id \in Managed'
        BY <3>2, <4>1, Zenon DEF ApiStep
      <4> QED BY <1>0, <4>1, <4>2 DEF EntriesKept, EntryInv
    <3> QED BY <3>1, <3>2, Zenon
  <2> QED BY <2>1, <2>2, Zenon DEF EntryInv
<1>4. ASSUME ~ ReuseIDs PROVE RepoInv' /\ PassInv'
  <2>0. RepoInv /\ PassInv /\ RepoStep BY <1>4, Zenon DEF Inv
  <2>1. serving
    BY <2>0, Zenon DEF ApiStep, PassInv, StartupInv
  <2>2. PassInv'
    <3>1. InPass' = InPass /\ serving' = serving /\ asked \subseteq asked'
      BY Zenon DEF ApiStep, InPass, ToDo, InHand
    <3> QED BY <2>0, <2>1, <3>1, Zenon DEF PassInv
  <2>3. \A id \in Managed' : mounts'[id].unmounting => id \in asked'
    BY <2>0 DEF ApiStep, EntriesKept, RepoInv, AskedInv
  <2>4. ASSUME NEW d \in Callers
        PROVE  /\ call'[d].pc = "create" =>
                    call[d].pc = "create" /\ call'[d].id = call[d].id
                      /\ call[d].id \notin asked'
               /\ call'[d].pc = "start" => call[d].pc = "start" /\ call'[d].id = call[d].id
               /\ Unmounting(d)' => call'[d].id \in asked'
    <3>1. CASE d = c
      <4>1. call'[c].pc \notin {"create", "start"} BY Zenon DEF ApiStep
      <4>2. Unmounting(c)' => call'[c].id \in Managed
        BY Zenon DEF ApiStep, EntriesKept, Locked, Unmounting
      <4>3. Unmounting(c)' => call'[c].id \in asked'
        BY <2>0, <4>2, Zenon DEF ApiStep, RepoInv, AskedInv
      <4> QED BY <3>1, <4>1, <4>3, Zenon
    <3>2. CASE d # c
      <4>1. call'[d] = call[d] /\ asked \subseteq asked' BY <3>2, Zenon DEF ApiStep
      <4>2. Unmounting(d)' => Unmounting(d) BY <4>1, Zenon DEF Unmounting
      <4>3. call[d].pc = "create" => call[d].id \notin asked'
        BY <2>0 DEF ApiStep, RepoInv, CreateInv, Locked
      <4> QED BY <2>0, <4>1, <4>2, <4>3, Zenon DEF RepoInv, AskedInv
    <3> QED BY <3>1, <3>2, Zenon
  <2>5. acked' \subseteq acked \cup Recorded \cup asked
    BY <2>0 DEF ApiStep, RepoInv, AckInv
  <2>6. RepoInv'
    <3>1. /\ EntriesKept /\ writes' = writes /\ used' = used
          /\ asked \subseteq asked' /\ asked' \subseteq asked \cup Managed
      BY Zenon DEF ApiStep
    <3> QED BY <1>0, <2>0, <2>3, <2>4, <2>5, <3>1, RepoInvStep, Zenon
  <2> QED BY <2>2, <2>6, Zenon
<1> QED BY <1>1, <1>2, <1>3, <1>4, Zenon DEF Inv

-----------------------------------------------------------------------------
(* The steps of a call.                                                    *)

\* The entries stay registered as they are.
LEMMA Untouched ==
  ASSUME TypeOK, mounts' = mounts PROVE EntriesKept /\ Managed' = Managed
BY Zenon DEF TypeOK, EntriesKept, Managed

\* The flags of an entry change.
LEMMA Flags ==
  ASSUME TypeOK, NEW id \in Managed, NEW e \in Entries,
         e.num = mounts[id].num, e.config = mounts[id].config,
         e.stored = mounts[id].stored, mounts' = [mounts EXCEPT ![id] = e]
  PROVE  /\ EntriesKept /\ Managed' = Managed /\ mounts'[id] = e
         /\ \A o \in IDs : o # id => mounts'[o] = mounts[o]
<1>1. id \in IDs /\ Managed \subseteq IDs /\ Managed \cup {id} = Managed BY Zenon DEF Managed
<1>2. /\ mounts' \in [IDs -> Entries \cup {NoEntry}]
      /\ Managed' = Managed /\ mounts'[id] = e
      /\ \A o \in IDs : o # id => mounts'[o] = mounts[o]
  BY <1>1, Registers, Zenon
<1> QED BY <1>1, <1>2, Zenon DEF EntriesKept

\* The call that holds an entry's mutex ends.
LEMMA Returns ==
  ASSUME TypeOK, EntryInv, NEW c \in Callers, Locked(c), Return(c)
  PROVE  /\ operation' \in [Nums -> Callers \cup {Nobody}]
         /\ call' \in [Callers -> Calls] /\ call'[c].pc = "idle"
         /\ \A d \in Callers : d # c =>
              call'[d] = call[d] /\ (Locked(d) => operation'[call[d].num] = d)
<1>1. call[c].num \in Nums BY CallShape, Zenon DEF Locked
<1>2. /\ call' = [call EXCEPT ![c] = Idle]
      /\ operation' = [operation EXCEPT ![call[c].num] = Nobody]
      /\ operation \in [Nums -> Callers \cup {Nobody}] /\ call \in [Callers -> Calls]
  BY Zenon DEF Return, TypeOK
<1>3. ASSUME NEW d \in Callers, d # c, Locked(d) PROVE operation'[call[d].num] = d
  <2>1. /\ operation[call[d].num] = d /\ operation[call[c].num] = c
        /\ call[d].num \in Nums
    BY <1>3, CallShape, Zenon DEF EntryInv, Locked
  <2> QED BY <1>1, <1>2, <1>3, <2>1, Zenon
<1>4. Idle \in Calls /\ Idle.pc = "idle" BY Zenon DEF Calls, Idle
<1> QED BY <1>1, <1>2, <1>3, <1>4, Zenon

\* A call moves on within its entry's critical section.
LEMMA Steps ==
  ASSUME TypeOK, EntryInv, NEW c \in Callers,
         NEW pc \in {"start", "detach", "delete", "unregister"},
         Step(c, pc), call[c].pc \in {"create", "detach", "delete"}
  PROVE  /\ operation' = operation
         /\ call' \in [Callers -> Calls] /\ call'[c].pc = pc
         /\ call'[c].id = call[c].id /\ call'[c].num = call[c].num
         /\ \A d \in Callers : d # c =>
              call'[d] = call[d] /\ (Locked(d) => operation'[call[d].num] = d)
<1>1. call' = [call EXCEPT ![c].pc = pc] /\ operation' = operation BY Zenon DEF Step
<1>2. call[c] \in [pc : {"create", "start", "lock", "detach", "delete", "unregister"},
                   id : IDs, num : Nums]
  BY DEF TypeOK, Calls, Idle
<1> DEFINE r == [call[c] EXCEPT !.pc = pc]
<1>3. /\ r \in [pc : {"create", "start", "lock", "detach", "delete", "unregister"},
                id : IDs, num : Nums]
      /\ r.pc = pc /\ r.id = call[c].id /\ r.num = call[c].num
  BY <1>2, Zenon
<1>4. call' = [call EXCEPT ![c] = r] BY <1>1, Zenon
<1> HIDE DEF r
<1>5. r \in Calls BY <1>3, Zenon DEF Calls
<1>6. call \in [Callers -> Calls] BY Zenon DEF TypeOK
<1>7. \A d \in Callers : Locked(d) => operation[call[d].num] = d BY Zenon DEF EntryInv
<1> QED BY <1>1, <1>3, <1>4, <1>5, <1>6, <1>7, Zenon

\* A call takes a free mutex.
LEMMA Locks ==
  ASSUME TypeOK, EntryInv, NEW c \in Callers, NEW n \in Nums, NEW r \in Calls,
         operation[n] = Nobody, operation' = [operation EXCEPT ![n] = c],
         call' = [call EXCEPT ![c] = r]
  PROVE  /\ operation' \in [Nums -> Callers \cup {Nobody}] /\ operation'[n] = c
         /\ call' \in [Callers -> Calls] /\ call'[c] = r
         /\ \A d \in Callers : /\ Locked(d) => call[d].num # n
                               /\ d # c => /\ call'[d] = call[d]
                                           /\ Locked(d) => operation'[call[d].num] = d
<1>1. /\ operation \in [Nums -> Callers \cup {Nobody}] /\ call \in [Callers -> Calls]
      /\ Nobody \notin Callers
  BY NullAssumption, Zenon DEF TypeOK
<1>2. \A d \in Callers : Locked(d) => call[d].num \in Nums /\ operation[call[d].num] = d
  BY CallShape, Zenon DEF EntryInv, Locked
<1> QED BY <1>1, <1>2, Zenon

\* A fault is counted, or nothing is.
LEMMA Faults == ASSUME TypeOK, Fault \/ UNCHANGED faults PROVE faults' \in 0 .. MaxFaults
BY BoundsAssumption DEF TypeOK, Fault

\* A failing Create, and the end of a mount call.
LEMMA MountEndsInv ==
  ASSUME Inv, NEW c \in Callers, CreateFails(c) \/ StartMount(c) PROVE Inv'
<1>0. TypeOK /\ EntryInv BY Zenon DEF Inv
<1>1. /\ UNCHANGED <<mounts, reconciler, serving, writes, records, index, table, entries,
                      restarts, used, asked>>
      /\ call[c].pc \in {"create", "start"} /\ Return(c) /\ (Fault \/ UNCHANGED faults)
      /\ acked' = acked \/ (call[c].pc = "start" /\ acked' = acked \cup {call[c].id})
  BY Zenon DEF CreateFails, StartMount, passVars, repositoryVars, historyVars
<1>2. Locked(c) /\ call[c].id \in IDs BY <1>0, <1>1, CallShape, Zenon DEF Locked
<1>3. EntriesKept /\ Managed' = Managed BY <1>0, <1>1, Untouched, Zenon
<1>4. /\ operation' \in [Nums -> Callers \cup {Nobody}]
      /\ call' \in [Callers -> Calls] /\ call'[c].pc = "idle"
      /\ \A d \in Callers : d # c =>
           call'[d] = call[d] /\ (Locked(d) => operation'[call[d].num] = d)
  BY <1>0, <1>1, <1>2, Returns, Zenon
<1>5. faults' \in 0 .. MaxFaults BY <1>0, <1>1, Faults, Zenon
<1>6. /\ ~ Locked(c)' /\ ~ Unmounting(c)'
  BY <1>4, Zenon DEF Locked, Unmounting
<1>7. \A d \in Callers : Locked(d) => call[d].id \in Managed BY <1>0, Zenon DEF EntryInv
<1>8. table' \subseteq Paths /\ acked' \subseteq IDs BY <1>0, <1>1, <1>2, Zenon DEF TypeOK
<1>9. ApiStep(c)
  BY <1>1, <1>3, <1>4, <1>5, <1>6, <1>7, <1>8, Zenon DEF ApiStep
<1> QED BY <1>1, <1>9, ApiStepInv, RepoSame, Zenon DEF repositoryVars

\* Unmount finds the entry.
LEMMA UnmountInv ==
  ASSUME Inv, NEW c \in Callers, NEW id \in IDs, Unmount(c, id) PROVE Inv'
<1>0. TypeOK /\ EntryInv BY Zenon DEF Inv
<1>1. /\ UNCHANGED <<mounts, operation, reconciler, serving, writes, records, index, table,
                      entries, faults, restarts, used, acked, asked>>
      /\ serving /\ id \in Managed
      /\ call' = [call EXCEPT ![c] = [pc |-> "lock", id |-> id, num |-> mounts[id].num]]
  BY Zenon DEF Unmount, passVars, repositoryVars, boundVars, historyVars
<1> DEFINE r == [pc |-> "lock", id |-> id, num |-> mounts[id].num]
<1>2. r \in Calls /\ r.pc = "lock" BY <1>0, <1>1, Shapes, Zenon DEF Calls
<1> HIDE DEF r
<1>3. /\ call' \in [Callers -> Calls] /\ call'[c].pc = "lock"
      /\ \A d \in Callers : d # c => call'[d] = call[d]
  BY <1>0, <1>1, <1>2, Zenon DEF TypeOK, r
<1>4. EntriesKept /\ Managed' = Managed BY <1>0, <1>1, Untouched, Zenon
<1>5. /\ ~ Locked(c)' /\ ~ Unmounting(c)'
  BY <1>3, Zenon DEF Locked, Unmounting
<1>6. \A d \in Callers : Locked(d) =>
        call[d].id \in Managed /\ operation[call[d].num] = d
  BY <1>0, Zenon DEF EntryInv
<1>7. /\ table' \subseteq Paths /\ acked' \subseteq IDs /\ faults' \in 0 .. MaxFaults
      /\ operation' \in [Nums -> Callers \cup {Nobody}]
  BY <1>0, <1>1, Zenon DEF TypeOK
<1>8. ApiStep(c)
  BY <1>1, <1>3, <1>4, <1>5, <1>6, <1>7, Zenon DEF ApiStep
<1> QED BY <1>1, <1>8, ApiStepInv, RepoSame, Zenon DEF repositoryVars

\* Unmount gets entry.operation: it begins, or the entry is gone.
LEMMA UnmountBeginInv ==
  ASSUME Inv, NEW c \in Callers, UnmountBegin(c) PROVE Inv'
<1>0. TypeOK /\ EntryInv BY Zenon DEF Inv
<1> DEFINE id == call[c].id
           n == call[c].num
<1>1. /\ UNCHANGED <<reconciler, serving, writes, records, index, table,
                      entries, faults, restarts, used, acked>>
      /\ call[c].pc = "lock" /\ operation[n] = Nobody
  BY Zenon DEF UnmountBegin, passVars, repositoryVars, boundVars
<1>2. id \in IDs /\ n \in Nums /\ ~ Locked(c) BY <1>0, <1>1, CallShape, Zenon DEF Locked
<1>3. \A d \in Callers : Locked(d) =>
        /\ call[d].id \in Managed /\ operation[call[d].num] = d
        /\ mounts[call[d].id].num = call[d].num
  BY <1>0, Zenon DEF EntryInv
<1>4. /\ table' \subseteq Paths /\ acked' \subseteq IDs /\ faults' \in 0 .. MaxFaults
  BY <1>0, <1>1, Zenon DEF TypeOK
<1>5. CASE SameEntry(c)
  <2> DEFINE e == [mounts[id] EXCEPT !.unmounting = TRUE, !.retry = FALSE]
             r == [pc |-> "tombstone", id |-> id, num |-> n,
                   wasUnmounting |-> mounts[id].unmounting]
  <2>1. /\ operation' = [operation EXCEPT ![n] = c] /\ call' = [call EXCEPT ![c] = r]
        /\ mounts' = [mounts EXCEPT ![id].unmounting = TRUE, ![id].retry = FALSE]
        /\ asked' = asked \cup {id}
    BY <1>5, Zenon DEF UnmountBegin
  <2>2. id \in Managed
    BY <1>2, <1>5 DEF SameEntry, Managed, NoEntry, Nums
  <2>3. mounts[id] \in Entries BY <1>0, <2>2, Shapes, Zenon
  <2>4. /\ e \in Entries /\ e.num = mounts[id].num /\ e.config = mounts[id].config
        /\ e.stored = mounts[id].stored
    BY <2>3, Zenon DEF Entries
  <2>5. mounts' = [mounts EXCEPT ![id] = e]
    BY <1>0, <2>1, <2>3, Zenon DEF TypeOK, Entries
  <2>6. /\ r \in Calls /\ r.pc = "tombstone" /\ r.id = id /\ r.num = n
    BY <1>2, <2>3, Zenon DEF Calls, Entries
  <2> HIDE DEF e, r
  <2>7. /\ EntriesKept /\ Managed' = Managed
        /\ \A o \in IDs : o # id => mounts'[o] = mounts[o]
    BY <1>0, <2>2, <2>4, <2>5, Flags, Zenon
  <2>8. /\ operation' \in [Nums -> Callers \cup {Nobody}] /\ operation'[n] = c
        /\ call' \in [Callers -> Calls] /\ call'[c] = r
        /\ \A d \in Callers : /\ Locked(d) => call[d].num # n
                              /\ d # c => /\ call'[d] = call[d]
                                          /\ Locked(d) => operation'[call[d].num] = d
    BY <1>0, <1>1, <1>2, <2>1, <2>6, Locks, Zenon
  <2>9. Locked(c)' /\ Unmounting(c)' BY <2>6, <2>8, Zenon DEF Locked, Unmounting
  <2>10. /\ mounts[id].num = n /\ Managed \subseteq IDs BY <1>5, Zenon DEF SameEntry, Managed
  <2>11. \A d \in Callers : Locked(d) => call[d].id # id
    BY <1>3, <2>8, <2>10
  <2> HIDE DEF id, n
  <2>12. ApiStep(c)
    <3>1. /\ asked \subseteq asked' /\ asked' \subseteq asked \cup Managed
          /\ id \in asked' /\ asked' \ asked \subseteq {id}
      BY <2>1, <2>2, Zenon
    <3>2. \A o \in Managed' : mounts'[o].unmounting => mounts[o].unmounting \/ o \in asked'
      BY <2>7, <2>10, <3>1, Zenon
    <3> QED BY <1>1, <1>3, <1>4, <2>2, <2>6, <2>7, <2>8, <2>9, <2>10, <2>11, <3>1, <3>2
            DEF ApiStep
  <2>13. asked \subseteq asked' BY <2>1, Zenon
  <2> QED BY <1>1, <2>12, <2>13, ApiStepInv, RepoSame, Zenon DEF repositoryVars
<1>6. CASE ~ SameEntry(c)
  <2>1. /\ UNCHANGED <<operation, mounts, asked>> /\ call' = [call EXCEPT ![c] = Idle]
    BY <1>6, Zenon DEF UnmountBegin
  <2>2. EntriesKept /\ Managed' = Managed BY <1>0, <2>1, Untouched, Zenon
  <2>3. Idle \in Calls /\ Idle.pc = "idle" BY Zenon DEF Idle, Calls
  <2>4. /\ call' \in [Callers -> Calls] /\ call'[c].pc = "idle"
        /\ \A d \in Callers : d # c => call'[d] = call[d]
        /\ operation' \in [Nums -> Callers \cup {Nobody}]
    BY <1>0, <2>1, <2>3, Zenon DEF TypeOK
  <2>5. ~ Locked(c)' /\ ~ Unmounting(c)' BY <2>4, Zenon DEF Locked, Unmounting
  <2>6. ApiStep(c)
    BY <1>1, <1>3, <1>4, <2>1, <2>2, <2>4, <2>5, Zenon DEF ApiStep
  <2> QED BY <1>1, <2>1, <2>6, ApiStepInv, RepoSame, Zenon DEF repositoryVars
<1> QED BY <1>5, <1>6, Zenon

\* A call past the lock, and the calls beside it.
LEMMA Holder ==
  ASSUME TypeOK, EntryInv, NEW c \in Callers, Locked(c)
  PROVE  /\ call[c].id \in Managed /\ call[c].id \in IDs /\ call[c].num \in Nums
         /\ mounts[call[c].id].num = call[c].num /\ operation[call[c].num] = c
         /\ mounts[call[c].id] \in Entries
         /\ \A d \in Callers : Locked(d) => call[d].id \in Managed
         /\ \A d \in Callers : Locked(d) /\ d # c => call[d].id # call[c].id
<1>1. \A d \in Callers : Locked(d) =>
        /\ call[d].id \in Managed /\ operation[call[d].num] = d
        /\ mounts[call[d].id].num = call[d].num
  BY Zenon DEF EntryInv
<1>2. call[c].id \in IDs /\ call[c].num \in Nums BY CallShape, Zenon DEF Locked
<1>3. mounts[call[c].id] \in Entries BY <1>1, Shapes, Zenon
<1> QED BY <1>1, <1>2, <1>3

\* The tombstone is not written, or the attempt to unmount fails: the call ends,
\* with the flags of its entry set.
LEMMA UnmountEndsInv ==
  ASSUME Inv, NEW c \in Callers, TombstoneFails(c) \/ UnmountFails(c) PROVE Inv'
<1>0. TypeOK /\ EntryInv BY Zenon DEF Inv
<1> DEFINE id == call[c].id
<1>1. /\ UNCHANGED <<reconciler, serving, writes, records, index, table, entries,
                      restarts, used, acked, asked>>
      /\ call[c].pc \in {"tombstone", "detach"} /\ Return(c) /\ (Fault \/ UNCHANGED faults)
  BY Zenon DEF TombstoneFails, UnmountFails, passVars, repositoryVars, historyVars
<1>2. Locked(c) /\ Unmounting(c) BY <1>1, Zenon DEF Locked, Unmounting
<1>3. /\ id \in Managed /\ id \in IDs /\ mounts[id] \in Entries
      /\ \A d \in Callers : Locked(d) => call[d].id \in Managed
  BY <1>0, <1>2, Holder, Zenon
<1>4. PICK e \in Entries : /\ e.num = mounts[id].num /\ e.config = mounts[id].config
                           /\ e.stored = mounts[id].stored
                           /\ mounts' = [mounts EXCEPT ![id] = e]
  <2>1. CASE TombstoneFails(c)
    <3> DEFINE u == call[c].wasUnmounting
               e == [mounts[id] EXCEPT !.unmounting = u]
    <3>1. call[c].pc = "tombstone" /\ mounts' = [mounts EXCEPT ![id] = e]
      BY <2>1, Zenon DEF TombstoneFails
    <3>2. u \in BOOLEAN BY <1>0, <3>1 DEF TypeOK, Calls, Idle
    <3> HIDE DEF u
    <3>3. /\ e \in Entries /\ e.num = mounts[id].num /\ e.config = mounts[id].config
          /\ e.stored = mounts[id].stored
      BY <1>3, <3>2, Zenon DEF Entries
    <3> QED BY <3>1, <3>3, Zenon
  <2>2. CASE UnmountFails(c)
    <3>1. PICK u \in BOOLEAN : mounts' = [mounts EXCEPT ![id].retry = u]
      BY <2>2, Zenon DEF UnmountFails
    <3> DEFINE e == [mounts[id] EXCEPT !.retry = u]
    <3>2. mounts' = [mounts EXCEPT ![id] = e] BY <3>1, Zenon
    <3>3. /\ e \in Entries /\ e.num = mounts[id].num /\ e.config = mounts[id].config
          /\ e.stored = mounts[id].stored
      BY <1>3, Zenon DEF Entries
    <3> QED BY <3>2, <3>3, Zenon
  <2> QED BY <2>1, <2>2, Zenon
<1>5. /\ EntriesKept /\ Managed' = Managed
      /\ \A o \in IDs : o # id => mounts'[o] = mounts[o]
  BY <1>0, <1>3, <1>4, Flags, Zenon
<1>6. /\ operation' \in [Nums -> Callers \cup {Nobody}]
      /\ call' \in [Callers -> Calls] /\ call'[c].pc = "idle"
      /\ \A d \in Callers : d # c =>
           call'[d] = call[d] /\ (Locked(d) => operation'[call[d].num] = d)
  BY <1>0, <1>1, <1>2, Returns, Zenon
<1>7. faults' \in 0 .. MaxFaults BY <1>0, <1>1, Faults, Zenon
<1>8. ~ Locked(c)' /\ ~ Unmounting(c)' BY <1>6, Zenon DEF Locked, Unmounting
<1>9. /\ table' \subseteq Paths /\ acked' \subseteq IDs /\ Managed \subseteq IDs
  BY <1>0, <1>1, Zenon DEF TypeOK, Managed
<1>10. ApiStep(c)
  BY <1>1, <1>2, <1>3, <1>5, <1>6, <1>7, <1>8, <1>9, Zenon DEF ApiStep
<1> QED BY <1>1, <1>10, ApiStepInv, RepoSame, Zenon DEF repositoryVars

\* The retry of an unmount begins.
LEMMA RetryUnmountInv ==
  ASSUME Inv, NEW c \in Callers, NEW id \in IDs, RetryUnmount(c, id) PROVE Inv'
<1>0. TypeOK /\ EntryInv BY Zenon DEF Inv
<1> DEFINE n == mounts[id].num
           e == [mounts[id] EXCEPT !.retry = FALSE]
           r == [pc |-> "detach", id |-> id, num |-> n]
<1>1. /\ UNCHANGED <<reconciler, serving, writes, records, index, table, entries, faults,
                      restarts, used, acked, asked>>
      /\ id \in Managed /\ mounts[id].unmounting /\ operation[n] = Nobody
      /\ operation' = [operation EXCEPT ![n] = c]
      /\ call' = [call EXCEPT ![c] = r]
      /\ mounts' = [mounts EXCEPT ![id] = e]
  BY Zenon DEF RetryUnmount, passVars, repositoryVars, boundVars, historyVars
<1>2. mounts[id] \in Entries /\ n \in Nums BY <1>0, <1>1, Shapes, Zenon
<1>3. /\ e \in Entries /\ e.num = mounts[id].num /\ e.config = mounts[id].config
      /\ e.stored = mounts[id].stored /\ e.unmounting = mounts[id].unmounting
  BY <1>2, Zenon DEF Entries
<1>4. /\ r \in Calls /\ r.pc = "detach" /\ r.id = id /\ r.num = n BY <1>2, Zenon DEF Calls
<1> HIDE DEF e, r
<1>5. /\ EntriesKept /\ Managed' = Managed /\ mounts'[id] = e
      /\ \A o \in IDs : o # id => mounts'[o] = mounts[o]
  BY <1>0, <1>1, <1>3, Flags, Zenon
<1>6. /\ operation' \in [Nums -> Callers \cup {Nobody}] /\ operation'[n] = c
      /\ call' \in [Callers -> Calls] /\ call'[c] = r
      /\ \A d \in Callers : d # c => /\ call'[d] = call[d]
                                     /\ Locked(d) => operation'[call[d].num] = d
  <2>1. /\ n \in Nums /\ r \in Calls /\ operation[n] = Nobody
        /\ operation' = [operation EXCEPT ![n] = c] /\ call' = [call EXCEPT ![c] = r]
    BY <1>1, <1>2, <1>4, Zenon
  <2> HIDE DEF n
  <2> QED BY <1>0, <2>1, Locks, Zenon
<1>7. Locked(c)' BY <1>4, <1>6, Zenon DEF Locked
<1>8. \A d \in Callers : Locked(d) => call[d].id \in Managed BY <1>0, Zenon DEF EntryInv
<1>9. /\ table' \subseteq Paths /\ acked' \subseteq IDs /\ Managed \subseteq IDs
      /\ faults' \in 0 .. MaxFaults
  BY <1>0, <1>1, Zenon DEF TypeOK, Managed
<1>10. ApiStep(c)
  <2>1. \A o \in Managed' : mounts'[o].unmounting => mounts[o].unmounting
    BY <1>3, <1>5, <1>9, Zenon
  <2> QED BY <1>1, <1>4, <1>5, <1>6, <1>7, <1>8, <1>9, <2>1, Zenon DEF ApiStep
<1> QED BY <1>1, <1>10, ApiStepInv, RepoSame, Zenon DEF repositoryVars

\* The steps of an unmount that keep its entry: the tombstone is written, the
\* mount goes, the record goes or its deletion fails.
LEMMA UnmountStepsInv ==
  ASSUME Inv, NEW c \in Callers, WriteTombstone(c) \/ Detach(c) \/ DeleteRecord(c)
  PROVE  Inv'
<1>0. TypeOK /\ EntryInv /\ PolicyInv BY Zenon DEF Inv
<1> DEFINE id == call[c].id
<1>1. /\ UNCHANGED <<mounts, reconciler, serving, writes, entries, restarts, used, acked,
                      asked>>
      /\ operation' = operation
      /\ call[c].pc \in {"tombstone", "detach", "delete"} /\ (Fault \/ UNCHANGED faults)
      /\ table' \subseteq table
  BY Zenon DEF WriteTombstone, Detach, DeleteRecord, Step, passVars, boundVars, historyVars
<1>2. Locked(c) /\ Unmounting(c) BY <1>1, Zenon DEF Locked, Unmounting
<1>3. /\ id \in Managed /\ id \in IDs /\ mounts[id] \in Entries /\ call[c].num \in Nums
      /\ mounts[id].num = call[c].num /\ operation[call[c].num] = c
      /\ \A d \in Callers : Locked(d) => call[d].id \in Managed
  BY <1>0, <1>2, Holder, Zenon
<1>4. /\ call' \in [Callers -> Calls] /\ call'[c].pc \in {"detach", "delete", "unregister"}
      /\ call'[c].id = id /\ call'[c].num = call[c].num
      /\ \A d \in Callers : d # c =>
           call'[d] = call[d] /\ (Locked(d) => operation'[call[d].num] = d)
  <2>1. CASE WriteTombstone(c)
    <3> DEFINE r == [pc |-> "detach", id |-> id, num |-> call[c].num]
    <3>1. call' = [call EXCEPT ![c] = r] BY <2>1, Zenon DEF WriteTombstone, Attempt
    <3>2. /\ r \in Calls /\ r.pc = "detach" /\ r.id = id /\ r.num = call[c].num
      BY <1>3, Zenon DEF Calls
    <3> HIDE DEF r
    <3>3. /\ call \in [Callers -> Calls]
          /\ \A d \in Callers : Locked(d) => operation[call[d].num] = d
      BY <1>0, Zenon DEF TypeOK, EntryInv
    <3> QED BY <1>1, <3>1, <3>2, <3>3, Zenon
  <2>2. CASE Detach(c) \/ DeleteRecord(c)
    <3>1. \E pc \in {"delete", "unregister"} : Step(c, pc) /\ call[c].pc \in {"detach", "delete"}
      BY <2>2, Zenon DEF Detach, DeleteRecord
    <3> QED BY <1>0, <3>1, Steps, Zenon
  <2> QED BY <2>1, <2>2, Zenon
<1>5. EntriesKept /\ Managed' = Managed BY <1>0, <1>1, Untouched, Zenon
<1>6. faults' \in 0 .. MaxFaults BY <1>0, <1>1, Faults, Zenon
<1>7. /\ table' \subseteq Paths /\ acked' \subseteq IDs
      /\ operation' \in [Nums -> Callers \cup {Nobody}]
  BY <1>0, <1>1, Zenon DEF TypeOK
<1>8. ApiStep(c)
  BY <1>1, <1>2, <1>3, <1>4, <1>5, <1>6, <1>7, Zenon DEF ApiStep
<1>9. ~ ReuseIDs => id \in asked BY <1>2, Zenon DEF Inv, RepoInv, AskedInv
<1>10. RepoType /\ (~ ReuseIDs => RepoStep)
  <2>1. CASE WriteTombstone(c)
    <3>1. CanUpdate(id) /\ Update(id, mounts[id].config, TRUE)
      BY <2>1, Zenon DEF WriteTombstone
    <3>2. mounts[id].config \in Configs /\ Accepted(mounts[id].config)
      BY <1>0, <1>3, Shapes, Zenon DEF PolicyInv
    <3>3. ~ ReuseIDs => mounts[id].config = records[id].config
      BY <1>3, <3>1, Zenon DEF Inv, RepoInv, SameInv, CanUpdate, Recorded
    <3> HIDE DEF id
    <3> QED BY <1>1, <1>3, <1>9, <3>1, <3>2, <3>3, RepoUpdate, Zenon
  <2>2. CASE UNCHANGED repositoryVars BY <1>1, <2>2, RepoSame, Zenon
  <2>3. CASE Delete(id) BY <1>1, <1>3, <1>9, <2>3, RepoDelete, Zenon
  <2> QED BY <2>1, <2>2, <2>3, Zenon DEF Detach, DeleteRecord
<1> QED BY <1>8, <1>10, ApiStepInv, Zenon

\* The entry is unregistered.
LEMMA UnregisterInv == ASSUME Inv, NEW c \in Callers, Unregister(c) PROVE Inv'
<1>0. TypeOK /\ EntryInv BY Zenon DEF Inv
<1> DEFINE id == call[c].id
<1>1. /\ UNCHANGED <<reconciler, serving, writes, records, index, table, entries, faults,
                      restarts, used, acked, asked>>
      /\ call[c].pc = "unregister" /\ Return(c)
      /\ mounts' = [mounts EXCEPT ![id] = NoEntry]
  BY Zenon DEF Unregister, passVars, repositoryVars, boundVars, historyVars
<1>2. Locked(c) BY <1>1, Zenon DEF Locked
<1>3. /\ id \in IDs
      /\ \A d \in Callers : Locked(d) => call[d].id \in Managed
      /\ \A d \in Callers : Locked(d) /\ d # c => call[d].id # id
  BY <1>0, <1>2, Holder, Zenon
<1>4. /\ mounts' \in [IDs -> Entries \cup {NoEntry}]
      /\ Managed' = Managed \ {id} /\ Managed \subseteq IDs
      /\ \A o \in IDs : o # id => mounts'[o] = mounts[o]
  BY <1>0, <1>1, <1>3, Unregisters, Zenon DEF Managed
<1>5. EntriesKept /\ \A o \in Managed' : mounts'[o] = mounts[o] BY <1>4, Zenon DEF EntriesKept
<1>6. /\ operation' \in [Nums -> Callers \cup {Nobody}]
      /\ call' \in [Callers -> Calls] /\ call'[c].pc = "idle"
      /\ \A d \in Callers : d # c =>
           call'[d] = call[d] /\ (Locked(d) => operation'[call[d].num] = d)
  BY <1>0, <1>1, <1>2, Returns, Zenon
<1>7. ~ Locked(c)' /\ ~ Unmounting(c)' BY <1>6, Zenon DEF Locked, Unmounting
<1>8. /\ table' \subseteq Paths /\ acked' \subseteq IDs /\ faults' \in 0 .. MaxFaults
  BY <1>0, <1>1, Zenon DEF TypeOK
<1>9. ApiStep(c)
  BY <1>1, <1>3, <1>4, <1>5, <1>6, <1>7, <1>8, Zenon DEF ApiStep
<1> QED BY <1>1, <1>9, ApiStepInv, RepoSame, Zenon DEF repositoryVars

-----------------------------------------------------------------------------
(* A mount is requested.                                                   *)

\* A request that passes validateMountConfig is stored as the policy says.
LEMMA Validated ==
  ASSUME NEW request \in Configs, validateMountConfig(request)
  PROVE  /\ applyFuseAllowOtherPolicy(request) \in Configs
         /\ applyFuseAllowOtherPolicy(request).path = request.path
         /\ Accepted(applyFuseAllowOtherPolicy(request))
<1> DEFINE config == applyFuseAllowOtherPolicy(request)
           more == [request EXCEPT !.options = @ \cup {"allow_other"}]
           target == Location[request.path]
<1>1. /\ request.client \in ClientTypes /\ request.options \subseteq {"allow_other"}
  BY Zenon DEF Configs
<1>2. /\ more \in Configs /\ more.path = request.path /\ more.client = request.client
      /\ "allow_other" \in more.options
  BY Zenon DEF Configs
<1>3. /\ config \in Configs /\ config.path = request.path
      /\ config.client = request.client
      /\ (AllowOther /\ request.client # "nfs") => RequestsAllowOther(config)
      /\ ~ (AllowOther /\ request.client # "nfs") => config = request
  BY <1>2, Zenon DEF applyFuseAllowOtherPolicy, RequestsAllowOther
<1>4. /\ validateFuseAllowOtherPolicy(request) /\ ~ reservedPathConflict(target)
      /\ AllowedRoots # {} =>
           pathWithinAnyRoot(target, {canonicalizePath(root) : root \in AllowedRoots})
  BY Zenon DEF validateMountConfig, canonicalizePath
<1> HIDE DEF config, target
<1>5. RequestsAllowOther(config) <=> (AllowOther /\ config.client # "nfs")
  BY <1>3, <1>4, Zenon DEF validateFuseAllowOtherPolicy
<1>6. AllowedRoots # {} => \E root \in AllowedRoots : Within(target, Location[root])
  BY <1>4, Zenon DEF pathWithinAnyRoot, canonicalizePath
<1>7. /\ target # <<>>
      /\ \A path \in Reserved : /\ ~ Within(target, Location[path])
                                /\ ~ Within(Location[path], target)
  BY <1>4, Zenon DEF reservedPathConflict, pathsConflict, pathWithinAnyRoot, canonicalizePath
<1>8. Location[config.path] = target BY <1>3, Zenon DEF target
<1>9. Accepted(config) BY <1>5, <1>6, <1>7, <1>8, Zenon DEF Accepted
<1> QED BY <1>3, <1>9, Zenon DEF config

\* An entry is registered for a new mount.
LEMMA MountInv ==
  ASSUME Inv, NEW c \in Callers, NEW id \in IDs, NEW request \in Requests,
         Mount(c, id, request)
  PROVE  Inv'
<1>0. TypeOK /\ EntryInv /\ PolicyInv BY Zenon DEF Inv
<1> DEFINE n == entries + 1
           config == applyFuseAllowOtherPolicy(request)
           e == NewEntry(n, config, FALSE)
           r == [pc |-> "create", id |-> id, num |-> n]
<1>1. /\ UNCHANGED <<reconciler, serving, writes, records, index, table, faults, restarts,
                      acked, asked>>
      /\ serving /\ entries < MaxEntries /\ (id \in used => ReuseIDs)
      /\ mounts' = [mounts EXCEPT ![id] = e] /\ operation' = [operation EXCEPT ![n] = c]
      /\ call' = [call EXCEPT ![c] = r] /\ entries' = n /\ used' = used \cup {id}
      /\ id \notin Managed /\ \A other \in Managed : PathOf(other) # request.path
      /\ validateMountConfig(request)
  BY Zenon DEF Mount, Refused, passVars, repositoryVars
<1>2. /\ config \in Configs /\ config.path = request.path /\ Accepted(config)
  BY <1>1, Validated, RequestsAssumption, Zenon
<1>3. n \in Nums /\ n \in 0 .. MaxEntries /\ entries \in Nat
  BY <1>0, <1>1, BoundsAssumption DEF TypeOK, Nums
<1> HIDE DEF config
<1>4. /\ e \in Entries /\ e.num = n /\ e.config = config /\ ~ e.stored /\ ~ e.unmounting
  BY <1>2, <1>3, Zenon DEF NewEntry, Entries
<1>5. /\ r \in Calls /\ r.pc = "create" /\ r.id = id /\ r.num = n BY <1>3, Zenon DEF Calls
<1> HIDE DEF e, r
<1>6. /\ mounts' \in [IDs -> Entries \cup {NoEntry}]
      /\ Managed' = Managed \cup {id} /\ mounts'[id] = e /\ Managed \subseteq IDs
      /\ \A o \in IDs : o # id => mounts'[o] = mounts[o]
  BY <1>0, <1>1, <1>4, Registers, Zenon DEF Managed
<1>7. /\ operation' \in [Nums -> Callers \cup {Nobody}] /\ operation'[n] = c
      /\ call' \in [Callers -> Calls] /\ call'[c] = r
      /\ \A d \in Callers : d # c => call'[d] = call[d]
      /\ \A m \in Nums : m # n => operation'[m] = operation[m]
  BY <1>0, <1>1, <1>3, <1>5, Zenon DEF TypeOK
<1>8. \A o \in Managed : /\ mounts'[o] = mounts[o] /\ o # id
                         /\ mounts[o].num <= entries /\ mounts[o].num \in Nums
  BY <1>0, <1>1, <1>6, Shapes, Zenon DEF EntryInv
<1>9. Recorded' = Recorded /\ InPass' = InPass
  BY <1>1, Zenon DEF Recorded, InPass, ToDo, InHand
<1>10. TypeOK'
  BY <1>0, <1>1, <1>3, <1>6, <1>7, Zenon DEF TypeOK
<1>11. PolicyInv'
  BY <1>0, <1>1, <1>2, <1>4, <1>6, <1>8, <1>9, Zenon DEF PolicyInv
<1>12. EntryInv'
  <2>1. \A o \in Managed : mounts[o].num # n BY <1>3, <1>8 DEF Nums
  <2>2. /\ \A o \in Managed' : mounts'[o].num <= entries'
        /\ \A o, other \in Managed' : mounts'[o].num = mounts'[other].num => o = other
    <3>1. \A o \in Managed : mounts[o].num <= n BY <1>3, <1>8 DEF Nums
    <3> QED BY <1>0, <1>1, <1>3, <1>4, <1>6, <1>8, <2>1, <3>1 DEF EntryInv
  <2>3. ASSUME NEW d \in Callers, Locked(d)'
        PROVE  /\ operation'[call'[d].num] = d
               /\ call'[d].id \in Managed'
               /\ mounts'[call'[d].id].num = call'[d].num
               /\ call'[d].pc = "create" => ~ mounts'[call'[d].id].stored
    <3>1. CASE d = c BY <1>4, <1>5, <1>6, <1>7, <3>1, Zenon
    <3>2. CASE d # c
      <4>1. call'[d] = call[d] /\ Locked(d) BY <1>7, <2>3, <3>2, Zenon DEF Locked
      <4> QED BY <1>0, <1>6, <1>7, <1>8, <2>1, <4>1 DEF EntryInv
    <3> QED BY <3>1, <3>2, Zenon
  <2> QED BY <2>2, <2>3, Zenon DEF EntryInv
<1>13. ASSUME ~ ReuseIDs PROVE RepoInv' /\ PassInv'
  <2>0. RepoInv /\ PassInv /\ id \notin used BY <1>1, <1>13, Zenon DEF Inv
  <2>1. id \notin Recorded \cup asked /\ \A w \in writes : w.id # id
    BY <2>0, Zenon DEF RepoInv, UsedInv
  <2>2. UsedInv' BY <1>1, <1>6, <1>9, <2>0, Zenon DEF RepoInv, UsedInv
  <2>3. CreateInv'
    BY <1>1, <1>5, <1>7, <1>9, <2>0, <2>1, Zenon DEF RepoInv, CreateInv
  <2>4. SameInv' BY <1>1, <1>6, <1>8, <1>9, <2>0, <2>1, Zenon DEF RepoInv, SameInv
  <2>5. AckInv' BY <1>1, <1>5, <1>7, <1>9, <2>0, Zenon DEF RepoInv, AckInv
  <2>6. AskedInv'
    <3>1. \A d \in Callers : Unmounting(d)' => Unmounting(d) /\ call'[d] = call[d]
      BY <1>5, <1>7, Zenon DEF Unmounting
    <3> QED BY <1>1, <1>4, <1>6, <1>8, <1>9, <2>0, <3>1 DEF RepoInv, AskedInv
  <2>7. IndexInv' BY <1>1, <1>9, <2>0, Zenon DEF RepoInv, IndexInv
  <2>8. PathInv'
    <3>1. \A o \in Managed : PathOf(o)' = PathOf(o) /\ PathOf(o) # request.path
      BY <1>1, <1>8, Zenon DEF PathOf
    <3>2. PathOf(id)' = request.path BY <1>2, <1>4, <1>6, Zenon DEF PathOf
    <3> QED BY <1>6, <2>0, <3>1, <3>2 DEF RepoInv, PathInv
  <2>9. PassInv' BY <1>1, <1>9, <2>0, Zenon DEF PassInv
  <2> QED BY <2>2, <2>3, <2>4, <2>5, <2>6, <2>7, <2>8, <2>9, Zenon DEF RepoInv
<1> QED BY <1>10, <1>11, <1>12, <1>13, Zenon DEF Inv

\* Its record is created, with its path in the index.
LEMMA CreateRecordInv ==
  ASSUME Inv, NEW c \in Callers, CreateRecord(c) PROVE Inv'
<1>0. TypeOK /\ EntryInv /\ PolicyInv BY Zenon DEF Inv
<1> DEFINE id == call[c].id
           config == mounts[id].config
           e == [mounts[id] EXCEPT !.stored = TRUE]
           r == [config |-> config, tombstone |-> FALSE]
<1>1. /\ UNCHANGED <<reconciler, serving, writes, table, entries, faults, restarts,
                      used, acked, asked>>
      /\ call[c].pc = "create" /\ Step(c, "start")
      /\ records[id] = NoRecord /\ index[config.path] = NoID
      /\ records' = [records EXCEPT ![id] = r]
      /\ index' = [index EXCEPT ![config.path] = id]
      /\ mounts' = [mounts EXCEPT ![id] = e]
  BY Zenon DEF CreateRecord, CanCreate, Create, PathOf, passVars, boundVars, historyVars
<1>2. Locked(c) BY <1>1, Zenon DEF Locked
<1>3. /\ id \in Managed /\ id \in IDs /\ mounts[id] \in Entries /\ call[c].num \in Nums
      /\ mounts[id].num = call[c].num /\ operation[call[c].num] = c
      /\ \A d \in Callers : Locked(d) /\ d # c => call[d].id # id
  BY <1>0, <1>2, Holder, Zenon
<1>4. config \in Configs /\ config.path \in Paths /\ Accepted(config)
  BY <1>0, <1>3, Shapes, Zenon DEF PolicyInv, PathOf
<1>5. /\ e \in Entries /\ e.num = mounts[id].num /\ e.config = config
      /\ e.unmounting = mounts[id].unmounting
  BY <1>3, Zenon DEF Entries
<1>6. /\ r \in Records /\ r.config = config /\ ~ r.tombstone BY <1>4, Zenon DEF Records
<1> HIDE DEF e, r
<1>7. /\ mounts' \in [IDs -> Entries \cup {NoEntry}] /\ Managed \subseteq IDs
      /\ Managed' = Managed /\ mounts'[id] = e
      /\ \A o \in IDs : o # id => mounts'[o] = mounts[o]
  <2>1. Managed \cup {id} = Managed /\ Managed \subseteq IDs BY <1>3, Zenon DEF Managed
  <2> QED BY <1>0, <1>1, <1>3, <1>5, <2>1, Registers, Zenon
<1>8. /\ operation' = operation /\ call' \in [Callers -> Calls] /\ call'[c].pc = "start"
      /\ call'[c].id = id /\ call'[c].num = call[c].num
      /\ \A d \in Callers : d # c =>
           call'[d] = call[d] /\ (Locked(d) => operation'[call[d].num] = d)
  BY <1>0, <1>1, Steps, Zenon
<1> HIDE DEF id, config
<1>9. /\ records' \in [IDs -> Records \cup {NoRecord}] /\ Recorded \subseteq IDs
      /\ Recorded' = Recorded \cup {id} /\ records'[id] = r
      /\ \A o \in IDs : o # id => records'[o] = records[o]
  BY <1>0, <1>1, <1>3, <1>6, Records1, Zenon DEF Recorded
<1>10. /\ index' \in [Paths -> IDs \cup {NoID}] /\ index'[config.path] = id
       /\ \A p \in Paths : p # config.path => index'[p] = index[p]
  BY <1>0, <1>1, <1>3, <1>4, Zenon DEF TypeOK
<1>11. InPass' = InPass BY <1>1, Zenon DEF InPass, ToDo, InHand
<1>12. TypeOK' BY <1>0, <1>1, <1>7, <1>8, <1>9, <1>10, Zenon DEF TypeOK
<1>13. PolicyInv'
  BY <1>0, <1>1, <1>4, <1>5, <1>6, <1>7, <1>9, <1>11 DEF PolicyInv, config
<1>14. EntryInv'
  <2>1. \A o \in Managed : mounts'[o].num = mounts[o].num BY <1>5, <1>7, Zenon
  <2>2. ASSUME NEW d \in Callers, Locked(d)'
        PROVE  /\ operation'[call'[d].num] = d
               /\ call'[d].id \in Managed'
               /\ mounts'[call'[d].id].num = call'[d].num
               /\ call'[d].pc = "create" => ~ mounts'[call'[d].id].stored
    <3>1. CASE d = c BY <1>3, <1>7, <1>8, <2>1, <3>1, Zenon
    <3>2. CASE d # c
      <4>1. call'[d] = call[d] /\ Locked(d) BY <1>8, <2>2, <3>2, Zenon DEF Locked
      <4>2. call[d].id # id BY <1>3, <3>2, <4>1, Zenon
      <4> QED BY <1>0, <1>7, <1>8, <2>1, <3>2, <4>1, <4>2 DEF EntryInv
    <3> QED BY <3>1, <3>2, Zenon
  <2> QED BY <1>0, <1>1, <1>7, <2>1, <2>2 DEF EntryInv
<1>15. ASSUME ~ ReuseIDs PROVE RepoInv' /\ PassInv'
  <2>0. RepoInv /\ PassInv BY <1>15, Zenon DEF Inv
  <2>1. /\ id \notin Recorded \cup asked /\ \A w \in writes : w.id # id
    BY <1>1, <2>0, Zenon DEF RepoInv, CreateInv, id
  <2>2. serving BY <1>1, <2>0, Zenon DEF PassInv, StartupInv
  <2>3. UsedInv' BY <1>1, <1>3, <1>7, <1>9, <2>0 DEF RepoInv, UsedInv
  <2>4. CreateInv'
    BY <1>1, <1>3, <1>8, <1>9, <2>0 DEF RepoInv, CreateInv, Locked
  <2>5. SameInv'
    BY <1>1, <1>5, <1>6, <1>7, <1>9, <2>0, <2>1, Zenon DEF RepoInv, SameInv
  <2>6. AckInv' BY <1>1, <1>8, <1>9, <2>0, Zenon DEF RepoInv, AckInv
  <2>7. AskedInv'
    <3>1. \A d \in Callers : Unmounting(d)' => Unmounting(d) /\ call'[d] = call[d]
      BY <1>8, Zenon DEF Unmounting
    <3> QED BY <1>1, <1>5, <1>6, <1>7, <1>9, <2>0, <3>1 DEF RepoInv, AskedInv
  <2>8. IndexInv'
    <3>1. NoID \notin IDs BY NullAssumption, Zenon
    <3>2. IndexInv BY <2>0, Zenon DEF RepoInv
    <3> SUFFICES ASSUME NEW p \in Paths, NEW o \in IDs
                 PROVE  index'[p] = o <=> (o \in Recorded' /\ records'[o].config.path = p)
      BY Zenon DEF IndexInv
    <3>3. index[p] = o <=> (o \in Recorded /\ records[o].config.path = p)
      BY <3>2, Zenon DEF IndexInv
    <3>4. CASE o = id BY <1>3, <1>6, <1>9, <1>10, <2>1, <3>3, <3>4, Zenon
    <3>5. CASE o # id BY <1>1, <1>9, <1>10, <3>1, <3>3, <3>5, Zenon
    <3> QED BY <3>4, <3>5, Zenon
  <2>9. PathInv'
    <3>1. \A o \in Managed : PathOf(o)' = PathOf(o)
      BY <1>5, <1>7, Zenon DEF PathOf, config
    <3> QED BY <1>7, <2>0, <3>1 DEF RepoInv, PathInv
  <2>10. PassInv' BY <1>1, <1>11, <2>0, <2>2, Zenon DEF PassInv
  <2> QED BY <2>3, <2>4, <2>5, <2>6, <2>7, <2>8, <2>9, <2>10, Zenon DEF RepoInv
<1> QED BY <1>12, <1>13, <1>14, <1>15, Zenon DEF Inv

-----------------------------------------------------------------------------
(* The steps outside the calls.                                            *)

\* They leave the registry and the calls alone, and clone what is registered.
OtherStep ==
  /\ UNCHANGED <<mounts, operation, call, used, acked, asked, entries, restarts>>
  /\ faults' \in 0 .. MaxFaults /\ table' \subseteq Paths /\ serving' \in BOOLEAN
  /\ writes' \subseteq [id : IDs, config : Configs, tombstone : BOOLEAN]
  /\ \A w \in writes' : \/ w \in writes
                        \/ /\ w.id \in Managed /\ mounts[w.id].stored
                           /\ w.config = mounts[w.id].config
                           /\ w.tombstone => mounts[w.id].unmounting
  /\ reconciler' \in Passes
  /\ \A r \in InPass' : Accepted(r.record.config)

\* They keep the invariant if they change the repository and the pass as they may.
LEMMA OtherStepInv ==
  ASSUME Inv, OtherStep, RepoType, ~ ReuseIDs => RepoStep /\ PassInv'
  PROVE  Inv'
<1>0. TypeOK /\ EntryInv /\ PolicyInv BY Zenon DEF Inv
<1>1. /\ UNCHANGED <<mounts, operation, call, used, acked, asked, entries, restarts>>
      /\ Managed' = Managed
  BY Zenon DEF OtherStep, Managed
<1>2. TypeOK' BY <1>0, <1>1, Zenon DEF TypeOK, OtherStep, RepoType
<1>3. PolicyInv' BY <1>0, <1>1, Zenon DEF PolicyInv, OtherStep, RepoType
<1>4. EntryInv'
  <2>1. \A d \in Callers : Locked(d)' = Locked(d) BY <1>1, Zenon DEF Locked
  <2> QED BY <1>0, <1>1, <2>1 DEF EntryInv
<1>5. ASSUME ~ ReuseIDs PROVE RepoInv'
  <2>1. RepoInv /\ RepoStep /\ EntriesKept BY <1>0, <1>1, <1>5, Untouched, Zenon DEF Inv
  <2>2. \A d \in Callers : Unmounting(d)' = Unmounting(d) BY <1>1, Zenon DEF Unmounting
  <2>3. /\ \A id \in Managed' : mounts'[id].unmounting => id \in asked'
        /\ \A w \in writes' : \/ w \in writes
                              \/ /\ w.id \in Managed /\ mounts[w.id].stored
                                 /\ w.config = mounts[w.id].config
                                 /\ w.tombstone => w.id \in asked
    BY <1>1, <2>1, Zenon DEF OtherStep, RepoInv, AskedInv
  <2>4. \A d \in Callers :
          /\ call'[d].pc = "create" =>
               call[d].pc = "create" /\ call'[d].id = call[d].id /\ call[d].id \notin asked'
          /\ call'[d].pc = "start" => call[d].pc = "start" /\ call'[d].id = call[d].id
          /\ Unmounting(d)' => call'[d].id \in asked'
    BY <1>1, <2>1, <2>2, Zenon DEF RepoInv, CreateInv, AskedInv
  <2>5. /\ used' = used /\ asked \subseteq asked' /\ asked' \subseteq asked \cup Managed
        /\ acked' \subseteq acked \cup Recorded \cup asked
    BY <1>1, Zenon
  <2> QED BY <1>0, <2>1, <2>3, <2>4, <2>5, RepoInvStep, Zenon
<1> QED BY <1>2, <1>3, <1>4, <1>5, Zenon DEF Inv

\* The fields of a pass.
LEMMA PassShape ==
  ASSUME TypeOK
  PROVE  /\ reconciler.pc \in {"idle", "next", "probe", "detach", "detached"}
         /\ ToDo \subseteq ListedRecords /\ InHand \subseteq ListedRecords
         /\ reconciler.pc # "idle" => ToDo = reconciler.list
         /\ reconciler.pc \in {"probe", "detach", "detached"} =>
              InHand = {reconciler.rec} /\ reconciler.rec \in ListedRecords
         /\ reconciler.pc \in {"probe", "detach", "detached"} =>
              reconciler \in [pc : {"probe", "detach", "detached"},
                              list : SUBSET ListedRecords, rec : ListedRecords]
<1>1. reconciler \in Passes BY Zenon DEF TypeOK
<1>2. CASE reconciler = Resting BY <1>2, Zenon DEF Resting, ToDo, InHand
<1>3. CASE reconciler \in [pc : {"next"}, list : SUBSET ListedRecords]
  BY <1>3, Zenon DEF ToDo, InHand
<1>4. CASE reconciler \in [pc : {"probe", "detach", "detached"},
                           list : SUBSET ListedRecords, rec : ListedRecords]
  BY <1>4, Zenon DEF ToDo, InHand
<1> QED BY <1>1, <1>2, <1>3, <1>4, Zenon DEF Passes

\* A pass with a list and nothing in hand.
LEMMA PassOf ==
  ASSUME NEW list \in SUBSET ListedRecords, reconciler' = Pass(list)
  PROVE  reconciler' \in Passes /\ ToDo' = list /\ InHand' = {} /\ InPass' = list
<1>1. /\ reconciler' \in [pc : {"next"}, list : SUBSET ListedRecords]
      /\ reconciler'.pc = "next" /\ reconciler'.list = list
  BY Zenon DEF Pass
<1> QED BY <1>1, Zenon DEF Passes, ToDo, InHand, InPass

\* A listed record has the fields of a record.
LEMMA ListedShape ==
  ASSUME NEW r \in ListedRecords
  PROVE  /\ r.id \in IDs /\ r.record.config \in Configs /\ r.record.tombstone \in BOOLEAN
BY Zenon DEF ListedRecords, Records

\* A pass goes on: a record leaves it, is taken in hand or stays there.
PassMoves ==
  /\ reconciler' \in Passes
  /\ ToDo' \subseteq ToDo
  /\ \/ InHand' \subseteq InHand
     \/ \E r \in ToDo : InHand' = {r} /\ r \notin ToDo'

\* It then keeps what the invariant says of it, if the repository keeps the
\* records that matter to it.
LEMMA PassKept ==
  ASSUME PassInv, PassMoves, UNCHANGED <<mounts, call, asked, serving>>,
         ~ serving => /\ Managed \subseteq Recorded'
                      /\ \A r \in InPass' : r.id \in Recorded /\ ~ r.record.tombstone =>
                           r.id \in Recorded' /\ records'[r.id].config = records[r.id].config
  PROVE  PassInv' /\ InPass' \subseteq InPass
<1>1. InPass' \subseteq InPass BY Zenon DEF PassMoves, InPass
<1>2. CASE serving BY <1>1, <1>2, Zenon DEF PassInv
<1>3. CASE ~ serving
  <2>1. StartupInv /\ Managed' = Managed BY <1>3, Zenon DEF PassInv, Managed
  <2>2. /\ \A r, s \in ToDo' : r.id = s.id => r = s
        /\ \A r \in ToDo', s \in InHand' : r.id # s.id
    BY <2>1, Zenon DEF StartupInv, PassMoves
  <2>3. \A r \in InPass' :
          /\ r.id \notin Managed'
          /\ ~ r.record.tombstone =>
               r.id \in Recorded' /\ r.record.config = records'[r.id].config
    BY <1>1, <1>3, <2>1, Zenon DEF StartupInv
  <2>4. /\ \A c \in Callers : call'[c].pc = "idle"
        /\ \A id \in Managed' : id \in Recorded' /\ ~ mounts'[id].unmounting
    BY <1>3, <2>1, Zenon DEF StartupInv
  <2>5. StartupInv' BY <2>2, <2>3, <2>4, Zenon DEF StartupInv
  <2> QED BY <1>1, <1>3, <2>5, Zenon DEF PassInv
<1> QED BY <1>2, <1>3, Zenon

\* The steps of a pass that leave the repository alone.
PassStep ==
  \/ ReconcileManaged \/ ReconcileRecord \/ ReconcileProbe \/ ReconcileDetach
  \/ ReconcileFails

\* A pass moves in each of them.
LEMMA PassStepMoves ==
  ASSUME TypeOK, PassStep
  PROVE  /\ PassMoves /\ table' \subseteq table /\ (Fault \/ UNCHANGED faults)
         /\ UNCHANGED <<mounts, operation, call, serving, writes, records, index, entries,
                         restarts, used, acked, asked>>
<1>1. /\ table' \subseteq table /\ (Fault \/ UNCHANGED faults)
      /\ UNCHANGED <<mounts, operation, call, serving, writes, records, index, entries,
                      restarts, used, acked, asked>>
  BY Zenon DEF PassStep, ReconcileManaged, ReconcileRecord, ReconcileProbe, ReconcileDetach,
         ReconcileFails, apiVars, repositoryVars, boundVars, historyVars
<1>2. CASE ReconcileManaged
  <2>1. PICK r \in reconciler.list :
          reconciler.pc = "next" /\ reconciler' = Pass(reconciler.list \ {r})
    BY <1>2, Zenon DEF ReconcileManaged
  <2>2. ToDo = reconciler.list /\ ToDo \subseteq ListedRecords BY <2>1, PassShape, Zenon
  <2>3. reconciler' \in Passes /\ ToDo' = ToDo \ {r} /\ InHand' = {}
    BY <2>1, <2>2, PassOf, Zenon
  <2> QED BY <1>1, <2>3, Zenon DEF PassMoves
<1>3. CASE ReconcileRecord
  <2>1. PICK r \in reconciler.list :
          /\ reconciler.pc = "next"
          /\ reconciler' = [pc |-> "probe", list |-> reconciler.list \ {r}, rec |-> r]
    BY <1>3, Zenon DEF ReconcileRecord
  <2>2. ToDo = reconciler.list /\ ToDo \subseteq ListedRecords BY <2>1, PassShape, Zenon
  <2>3. reconciler' \in Passes /\ ToDo' = ToDo \ {r} /\ InHand' = {r}
    BY <2>1, <2>2, Zenon DEF Passes, ToDo, InHand
  <2> QED BY <1>1, <2>1, <2>2, <2>3, Zenon DEF PassMoves
<1>4. CASE ReconcileProbe \/ ReconcileDetach
  <2>1. /\ reconciler.pc \in {"probe", "detach"}
        /\ \E pc \in {"detach", "detached"} : reconciler' = [reconciler EXCEPT !.pc = pc]
    BY <1>4, Zenon DEF ReconcileProbe, ReconcileDetach
  <2>2. PICK pc \in {"detach", "detached"} : reconciler' = [reconciler EXCEPT !.pc = pc]
    BY <2>1, Zenon
  <2>3. reconciler \in [pc : {"probe", "detach", "detached"},
                        list : SUBSET ListedRecords, rec : ListedRecords]
    BY <2>1, PassShape, Zenon
  <2>4. /\ reconciler' \in [pc : {"probe", "detach", "detached"},
                            list : SUBSET ListedRecords, rec : ListedRecords]
        /\ reconciler'.pc = pc /\ reconciler'.list = reconciler.list
        /\ reconciler'.rec = reconciler.rec
    BY <2>2, <2>3, Zenon
  <2>5. reconciler' \in Passes /\ ToDo' = ToDo /\ InHand' = InHand
    BY <2>1, <2>4, Zenon DEF Passes, ToDo, InHand
  <2> QED BY <1>1, <2>5, Zenon DEF PassMoves
<1>5. CASE ReconcileFails
  <2>1. /\ reconciler.pc \in {"probe", "detach", "detached"}
        /\ reconciler' = Pass(reconciler.list)
    BY <1>5, Zenon DEF ReconcileFails
  <2>2. ToDo = reconciler.list /\ ToDo \subseteq ListedRecords BY <2>1, PassShape, Zenon
  <2>3. reconciler' \in Passes /\ ToDo' = ToDo /\ InHand' = {}
    BY <2>1, <2>2, PassOf, Zenon
  <2> QED BY <1>1, <2>3, Zenon DEF PassMoves
<1> QED BY <1>2, <1>3, <1>4, <1>5, Zenon DEF PassStep

\* They keep the invariant.
LEMMA PassStepInv == ASSUME Inv, PassStep PROVE Inv'
<1>0. TypeOK /\ PolicyInv BY Zenon DEF Inv
<1>1. /\ PassMoves /\ table' \subseteq table /\ (Fault \/ UNCHANGED faults)
      /\ UNCHANGED <<mounts, operation, call, serving, writes, records, index, entries,
                      restarts, used, acked, asked>>
  BY <1>0, PassStepMoves, Zenon
<1>2. Recorded' = Recorded BY <1>1, Zenon DEF Recorded
<1>3. InPass' \subseteq InPass BY <1>1, Zenon DEF PassMoves, InPass
<1>4. ASSUME ~ ReuseIDs PROVE PassInv'
  <2>1. PassInv BY <1>4, Zenon DEF Inv
  <2>2. ~ serving => Managed \subseteq Recorded BY <2>1, Zenon DEF PassInv, StartupInv
  <2> QED BY <1>1, <1>2, <2>1, <2>2, PassKept, Zenon
<1>5. faults' \in 0 .. MaxFaults BY <1>0, <1>1, Faults, Zenon
<1>6. OtherStep
  BY <1>0, <1>1, <1>3, <1>5, Zenon DEF OtherStep, TypeOK, PolicyInv, PassMoves
<1> QED BY <1>1, <1>4, <1>6, RepoSame, OtherStepInv, Zenon DEF repositoryVars

\* The entries' goroutines, and the clients: a clone of a record is taken,
\* something is mounted or is gone.
LEMMA EntryStepInv ==
  ASSUME Inv,
         \/ \E id \in IDs : Entry(id)
         \/ \E path \in table : ClientGone(path)
  PROVE  Inv'
<1>0. TypeOK /\ PolicyInv BY Zenon DEF Inv
<1>1. UNCHANGED <<mounts, operation, call, reconciler, serving, records, index, entries,
                  faults, restarts, used, acked, asked>>
  BY Zenon DEF Entry, CloneRecord, ClientMounts, ClientGone, apiVars, passVars, repositoryVars,
         boundVars, historyVars
<1>2. /\ Recorded' = Recorded /\ Managed' = Managed
      /\ ToDo' = ToDo /\ InHand' = InHand /\ InPass' = InPass
  BY <1>1, Zenon DEF Recorded, Managed, InPass, ToDo, InHand
<1>3. ASSUME ~ ReuseIDs PROVE PassInv'
  BY <1>1, <1>2, <1>3, Zenon DEF Inv, PassInv, StartupInv
<1>4. table' \subseteq Paths /\ writes' \subseteq [id : IDs, config : Configs, tombstone : BOOLEAN]
      /\ \A w \in writes' : \/ w \in writes
                            \/ /\ w.id \in Managed /\ mounts[w.id].stored
                               /\ w.config = mounts[w.id].config
                               /\ w.tombstone => mounts[w.id].unmounting
  <2>0. /\ writes \subseteq [id : IDs, config : Configs, tombstone : BOOLEAN]
        /\ table \subseteq Paths
    BY <1>0, Zenon DEF TypeOK
  <2>1. ASSUME NEW id \in IDs, CloneRecord(id)
        PROVE  /\ table' \subseteq Paths
               /\ writes' \subseteq [id : IDs, config : Configs, tombstone : BOOLEAN]
               /\ \A w \in writes' : \/ w \in writes
                                     \/ /\ w.id \in Managed /\ mounts[w.id].stored
                                        /\ w.config = mounts[w.id].config
                                        /\ w.tombstone => mounts[w.id].unmounting
    <3> DEFINE k == [id |-> id, config |-> mounts[id].config,
                     tombstone |-> mounts[id].unmounting]
    <3>1. /\ id \in Managed /\ mounts[id].stored /\ table' = table
          /\ writes' = writes \cup {k}
      BY <2>1, Zenon DEF CloneRecord
    <3>2. mounts[id] \in Entries BY <1>0, <3>1, Shapes, Zenon
    <3>3. /\ k \in [id : IDs, config : Configs, tombstone : BOOLEAN]
          /\ k.id = id /\ k.config = mounts[id].config
          /\ k.tombstone = mounts[id].unmounting
      BY <3>2, Zenon DEF Entries
    <3> HIDE DEF k
    <3> QED BY <2>0, <3>1, <3>3, Zenon
  <2>2. ASSUME NEW id \in IDs, ClientMounts(id)
        PROVE  table' \subseteq Paths /\ writes' = writes
    <3>1. /\ id \in Managed /\ table' = table \cup {PathOf(id)} /\ writes' = writes
      BY <2>2, Zenon DEF ClientMounts
    <3>2. PathOf(id) \in Paths BY <1>0, <3>1, Shapes, Zenon
    <3> QED BY <2>0, <3>1, <3>2, Zenon
  <2>3. ASSUME NEW path \in table, ClientGone(path)
        PROVE  table' \subseteq Paths /\ writes' = writes
    BY <2>0, <2>3, Zenon DEF ClientGone
  <2> QED BY <2>0, <2>1, <2>2, <2>3, Zenon DEF Entry
<1>5. OtherStep
  BY <1>0, <1>1, <1>2, <1>4, Zenon DEF OtherStep, TypeOK, PolicyInv
<1> QED BY <1>1, <1>3, <1>5, RepoSame, OtherStepInv, Zenon DEF repositoryVars

\* A clone is written, or dropped since there is no record.
LEMMA WriteRecordInv == ASSUME Inv, NEW w \in writes, WriteRecord(w) PROVE Inv'
<1>0. TypeOK /\ PolicyInv BY Zenon DEF Inv
<1>1. /\ UNCHANGED <<mounts, operation, call, reconciler, serving, table, entries, faults,
                      restarts, used, acked, asked>>
      /\ writes' = writes \ {w}
      /\ \/ CanUpdate(w.id) /\ Update(w.id, w.config, w.tombstone)
         \/ UNCHANGED repositoryVars
  BY Zenon DEF WriteRecord, apiVars, passVars, boundVars, historyVars
<1>2. w.id \in IDs /\ w.config \in Configs /\ w.tombstone \in BOOLEAN /\ Accepted(w.config)
  BY <1>0, Zenon DEF TypeOK, PolicyInv
<1>3. ~ ReuseIDs => /\ w.id \in Recorded => w.config = records[w.id].config
                    /\ w.tombstone => w.id \in asked
  BY Zenon DEF Inv, RepoInv, SameInv, AskedInv
<1>4. RepoType /\ (~ ReuseIDs => RepoStep)
  <2>1. CASE CanUpdate(w.id) /\ Update(w.id, w.config, w.tombstone)
    <3>1. w.id \in Recorded BY <1>2, <2>1, Zenon DEF CanUpdate, Recorded
    <3> QED BY <1>1, <1>2, <1>3, <2>1, <3>1, RepoUpdate, Zenon
  <2>2. CASE UNCHANGED repositoryVars BY <1>1, <2>2, RepoSame, Zenon
  <2> QED BY <1>1, <2>1, <2>2, Zenon
<1>5. Recorded' = Recorded
  <2>1. CASE CanUpdate(w.id) /\ Update(w.id, w.config, w.tombstone)
    <3>1. w.id \in Recorded /\ Recorded \cup {w.id} = Recorded
      BY <1>2, <2>1, Zenon DEF CanUpdate, Recorded
    <3>2. [config |-> w.config, tombstone |-> w.tombstone] \in Records
      BY <1>2, Zenon DEF Records
    <3> QED BY <1>0, <1>2, <2>1, <3>1, <3>2, Records1, Zenon DEF Update
  <2>2. CASE UNCHANGED repositoryVars BY <2>2, Zenon DEF repositoryVars, Recorded
  <2> QED BY <1>1, <2>1, <2>2, Zenon
<1>6. PassMoves
  <2>1. reconciler' \in Passes BY <1>0, <1>1, Zenon DEF TypeOK
  <2> QED BY <1>1, <2>1, Zenon DEF PassMoves, ToDo, InHand
<1>7. ASSUME ~ ReuseIDs PROVE PassInv'
  <2>1. PassInv /\ RepoStep BY <1>4, <1>7, Zenon DEF Inv
  <2>2. ~ serving => Managed \subseteq Recorded BY <2>1, Zenon DEF PassInv, StartupInv
  <2>3. \A id \in Recorded : records'[id].config = records[id].config
    BY <1>5, <2>1, Zenon DEF RepoStep
  <2> QED BY <1>1, <1>5, <1>6, <2>1, <2>2, <2>3, PassKept, Zenon
<1>8. OtherStep
  <2>1. InPass' = InPass BY <1>1, Zenon DEF InPass, ToDo, InHand
  <2> QED BY <1>0, <1>1, <2>1, Zenon DEF OtherStep, TypeOK, PolicyInv
<1> QED BY <1>4, <1>7, <1>8, OtherStepInv, Zenon

\* The list of a pass has the records as they are.
LEMMA ListedFacts ==
  ASSUME TypeOK, NEW ids, ids \subseteq Recorded
  PROVE  /\ Listed(ids) \subseteq ListedRecords
         /\ \A r \in Listed(ids) : r.id \in ids /\ r.record = records[r.id]
         /\ \A r, s \in Listed(ids) : r.id = s.id => r = s
<1>1. ASSUME NEW r \in Listed(ids)
      PROVE  /\ r = [id |-> r.id, record |-> records[r.id]] /\ r.id \in ids
             /\ r.record = records[r.id]
  BY DEF Listed
<1>2. \A id \in ids : id \in IDs /\ records[id] \in Records BY Shapes, Zenon
<1>3. Listed(ids) \subseteq ListedRecords BY <1>2 DEF Listed, ListedRecords
<1> QED BY <1>1, <1>3, Zenon

\* The periodic pass lists the tombstones.
LEMMA ListTombstonesInv == ASSUME Inv, ListTombstones PROVE Inv'
<1>0. TypeOK /\ PolicyInv BY Zenon DEF Inv
<1>1. /\ UNCHANGED <<mounts, operation, call, serving, writes, records, index, table,
                      entries, faults, restarts, used, acked, asked>>
      /\ serving /\ reconciler' = Pass(Listed(Tombstoned))
  BY Zenon DEF ListTombstones, apiVars, repositoryVars, boundVars, historyVars
<1>2. Tombstoned \subseteq Recorded /\ \A id \in Tombstoned : records[id].tombstone
  BY Zenon DEF Tombstoned
<1>3. /\ Listed(Tombstoned) \subseteq ListedRecords
      /\ \A r \in Listed(Tombstoned) : r.id \in Tombstoned /\ r.record = records[r.id]
  BY <1>0, <1>2, ListedFacts, Zenon
<1>4. reconciler' \in Passes /\ InPass' = Listed(Tombstoned) BY <1>1, <1>3, PassOf, Zenon
<1>5. ASSUME ~ ReuseIDs PROVE PassInv'
  <2>1. \A id \in Tombstoned : id \in asked BY <1>2, <1>5, Zenon DEF Inv, RepoInv, AskedInv
  <2> QED BY <1>1, <1>2, <1>3, <1>4, <2>1, Zenon DEF PassInv
<1>6. OtherStep
  BY <1>0, <1>1, <1>2, <1>3, <1>4, Zenon DEF OtherStep, TypeOK, PolicyInv
<1> QED BY <1>1, <1>5, <1>6, RepoSame, OtherStepInv, Zenon DEF repositoryVars

\* A pass ends.
LEMMA ReconcileDoneInv == ASSUME Inv, ReconcileDone PROVE Inv'
<1>0. TypeOK BY Zenon DEF Inv
<1>1. /\ UNCHANGED <<mounts, operation, call, writes, records, index, table, entries,
                      faults, restarts, used, acked, asked>>
      /\ serving' = TRUE /\ reconciler' = Resting
  BY Zenon DEF ReconcileDone, apiVars, repositoryVars, boundVars, historyVars
<1>2. reconciler' \in Passes /\ InPass' = {}
  BY <1>1, Zenon DEF Resting, Passes, InPass, ToDo, InHand
<1>3. PassInv' BY <1>1, <1>2, Zenon DEF PassInv
<1>4. OtherStep BY <1>0, <1>1, <1>2, Zenon DEF OtherStep, TypeOK
<1> QED BY <1>1, <1>3, <1>4, RepoSame, OtherStepInv, Zenon DEF repositoryVars

\* The reconciler deletes a record whose tombstone it read.
LEMMA ReconcileTombstoneInv == ASSUME Inv, ReconcileTombstone PROVE Inv'
<1>0. TypeOK /\ PolicyInv BY Zenon DEF Inv
<1> DEFINE rec == reconciler.rec
<1>1. /\ UNCHANGED <<mounts, operation, call, serving, writes, table, entries, faults,
                      restarts, used, acked, asked>>
      /\ reconciler.pc = "detached" /\ rec.record.tombstone /\ Delete(rec.id)
      /\ reconciler' = Pass(reconciler.list)
  BY Zenon DEF ReconcileTombstone, TombstoneInHand, apiVars, boundVars, historyVars
<1>2. /\ ToDo \subseteq ListedRecords /\ ToDo = reconciler.list
      /\ InHand = {rec} /\ rec \in ListedRecords
  BY <1>0, <1>1, PassShape, Zenon
<1>3. rec.id \in IDs BY <1>2, ListedShape, Zenon
<1>4. reconciler' \in Passes /\ ToDo' = ToDo /\ InHand' = {} /\ InPass' = ToDo
  BY <1>1, <1>2, PassOf, Zenon
<1> HIDE DEF rec
<1>5. ~ ReuseIDs => rec.id \in asked
  BY <1>1, <1>2, Zenon DEF Inv, PassInv, InPass
<1>6. RepoType /\ (~ ReuseIDs => RepoStep) BY <1>1, <1>3, <1>5, RepoDelete, Zenon
<1>7. ASSUME ~ ReuseIDs PROVE PassInv'
  <2>1. PassInv /\ PassMoves BY <1>4, <1>7, Zenon DEF Inv, PassMoves
  <2>2. /\ Recorded' = Recorded \ {rec.id}
        /\ \A id \in IDs : id # rec.id => records'[id] = records[id]
    BY <1>0, <1>1, <1>3, Deletes, Zenon DEF Delete
  <2>3. ~ serving => /\ Managed \subseteq Recorded /\ rec.id \notin Managed
                     /\ \A r \in ToDo : r.id # rec.id
    BY <1>2, <2>1, Zenon DEF PassInv, StartupInv, InPass
  <2>4. \A r \in ToDo : r.id \in IDs BY <1>2, ListedShape, Zenon
  <2> QED BY <1>1, <1>4, <2>1, <2>2, <2>3, <2>4, PassKept, Zenon
<1>8. OtherStep
  <2>1. InPass' \subseteq InPass BY <1>4, Zenon DEF InPass
  <2> QED BY <1>0, <1>1, <1>4, <2>1, Zenon DEF OtherStep, TypeOK, PolicyInv
<1> QED BY <1>6, <1>7, <1>8, OtherStepInv, Zenon

\* An ordinary record is mounted again: no path is compared, and none needs to be.
LEMMA RemountInv == ASSUME Inv, Remount PROVE Inv'
<1>0. TypeOK /\ EntryInv /\ PolicyInv BY Zenon DEF Inv
<1> DEFINE rec == reconciler.rec
           id == rec.id
           config == rec.record.config
           n == entries + 1
           e == NewEntry(n, config, TRUE)
<1>1. /\ UNCHANGED <<operation, call, serving, writes, table, faults, restarts, used, acked,
                      asked>>
      /\ reconciler.pc = "detached" /\ ~ rec.record.tombstone /\ id \notin Managed
      /\ entries < MaxEntries /\ entries' = n /\ mounts' = [mounts EXCEPT ![id] = e]
      /\ reconciler' = Pass(reconciler.list)
      /\ \/ CanUpdate(id) /\ Update(id, config, FALSE)
         \/ UNCHANGED repositoryVars
  BY Zenon DEF Remount, alreadyManaged, historyVars
<1>2. /\ ToDo \subseteq ListedRecords /\ ToDo = reconciler.list
      /\ InHand = {rec} /\ rec \in ListedRecords
  BY <1>0, <1>1, PassShape, Zenon
<1>3. id \in IDs /\ config \in Configs BY <1>2, ListedShape, Zenon
<1>4. reconciler' \in Passes /\ ToDo' = ToDo /\ InHand' = {} /\ InPass' = ToDo
  BY <1>1, <1>2, PassOf, Zenon
<1>5. rec \in InPass /\ ToDo \subseteq InPass /\ Accepted(config)
  BY <1>0, <1>2, Zenon DEF InPass, PolicyInv
<1>6. n \in Nums /\ n \in 0 .. MaxEntries /\ entries \in Nat
  BY <1>0, <1>1, BoundsAssumption DEF TypeOK, Nums
<1> HIDE DEF rec, config
<1>7. /\ e \in Entries /\ e.num = n /\ e.config = config /\ ~ e.unmounting
  BY <1>3, <1>6, Zenon DEF NewEntry, Entries
<1> HIDE DEF e, id
<1>8. /\ mounts' \in [IDs -> Entries \cup {NoEntry}]
      /\ Managed' = Managed \cup {id} /\ mounts'[id] = e /\ Managed \subseteq IDs
      /\ \A o \in IDs : o # id => mounts'[o] = mounts[o]
  BY <1>0, <1>1, <1>3, <1>7, Registers, Zenon DEF Managed
<1>9. \A o \in Managed : /\ mounts'[o] = mounts[o] /\ o # id
                         /\ mounts[o].num <= entries /\ mounts[o].num \in Nums
  BY <1>0, <1>1, <1>8, Shapes, Zenon DEF EntryInv
<1>10. ASSUME ~ ReuseIDs
       PROVE  /\ RepoInv /\ PassInv /\ StartupInv /\ ~ serving
              /\ id \in Recorded /\ config = records[id].config
              /\ \A r \in ToDo : r.id # id
  <2>1. RepoInv /\ PassInv BY <1>10, Zenon DEF Inv
  <2>2. ~ serving BY <1>1, <1>5, <2>1, Zenon DEF PassInv
  <2>3. StartupInv BY <2>1, <2>2, Zenon DEF PassInv
  <2> QED BY <1>1, <1>2, <1>5, <2>1, <2>2, <2>3, Zenon DEF StartupInv, id, config
<1>11. /\ RepoType /\ (~ ReuseIDs => RepoStep) /\ Recorded' = Recorded
  <2>1. CASE CanUpdate(id) /\ Update(id, config, FALSE)
    <3>1. RepoType /\ (~ ReuseIDs => RepoStep)
      BY <1>1, <1>3, <1>5, <1>10, <2>1, RepoUpdate, Zenon
    <3>2. id \in Recorded /\ Recorded \cup {id} = Recorded
      BY <1>3, <2>1, Zenon DEF CanUpdate, Recorded
    <3>3. [config |-> config, tombstone |-> FALSE] \in Records
      BY <1>3, Zenon DEF Records
    <3>4. records' = [records EXCEPT ![id] = [config |-> config, tombstone |-> FALSE]]
      BY <2>1, Zenon DEF Update
    <3>5. Recorded' = Recorded BY <1>0, <1>3, <3>2, <3>3, <3>4, Records1, Zenon
    <3> QED BY <3>1, <3>5, Zenon
  <2>2. CASE UNCHANGED repositoryVars
    BY <1>1, <2>2, RepoSame, Zenon DEF repositoryVars, Recorded
  <2> QED BY <1>1, <2>1, <2>2, Zenon
<1>12. TypeOK' BY <1>0, <1>1, <1>4, <1>6, <1>8, <1>11, Zenon DEF TypeOK, RepoType
<1>13. PolicyInv'
  BY <1>0, <1>1, <1>4, <1>5, <1>7, <1>8, <1>9, <1>11, Zenon DEF PolicyInv, RepoType
<1>14. EntryInv'
  <2>1. \A o \in Managed : mounts[o].num # n /\ mounts[o].num <= n
    BY <1>6, <1>9 DEF Nums
  <2>2. \A d \in Callers : Locked(d)' = Locked(d) BY <1>1, Zenon DEF Locked
  <2> QED BY <1>0, <1>1, <1>6, <1>7, <1>8, <1>9, <2>1, <2>2 DEF EntryInv
<1>15. ASSUME ~ ReuseIDs PROVE RepoInv' /\ PassInv'
  <2>0. /\ RepoInv /\ RepoStep /\ PassInv /\ StartupInv /\ ~ serving
        /\ id \in Recorded /\ config = records[id].config
        /\ \A r \in ToDo : r.id # id
        /\ \A c \in Callers : call'[c].pc = "idle"
    BY <1>1, <1>10, <1>11, <1>15, Zenon DEF StartupInv
  <2>1. UsedInv' BY <1>1, <1>8, <1>11, <2>0 DEF RepoInv, UsedInv
  <2>2. CreateInv' BY <2>0, Zenon DEF CreateInv
  <2>3. SameInv'
    BY <1>1, <1>7, <1>8, <1>9, <1>11, <2>0 DEF RepoInv, SameInv, RepoStep
  <2>4. AckInv' BY <1>1, <1>11, <2>0, Zenon DEF RepoInv, AckInv
  <2>5. AskedInv'
    <3>1. \A d \in Callers : ~ Unmounting(d)' BY <2>0, Zenon DEF Unmounting
    <3> QED BY <1>1, <1>7, <1>8, <1>9, <1>11, <2>0, <3>1 DEF RepoInv, AskedInv, RepoStep
  <2>6. PathInv'
    <3>1. ASSUME NEW o \in Managed
          PROVE  /\ mounts'[o].config = mounts[o].config
                 /\ mounts[o].config.path # config.path
      <4>1. o \in Recorded /\ o \in IDs /\ mounts[o].config = records[o].config
        BY <1>8, <2>0, Zenon DEF StartupInv, RepoInv, SameInv
      <4>2. config.path \in Paths BY <1>3, Zenon DEF Configs
      <4>3. index[config.path] = id BY <1>3, <2>0, <4>2 DEF RepoInv, IndexInv
      <4>4. mounts[o].config.path = config.path => index[config.path] = o
        BY <2>0, <4>1, <4>2 DEF RepoInv, IndexInv
      <4> QED BY <1>9, <4>3, <4>4, Zenon
    <3>2. mounts'[id].config = config BY <1>7, <1>8, Zenon
    <3> QED BY <1>8, <2>0, <3>1, <3>2 DEF RepoInv, PathInv, PathOf
  <2>7. StartupInv'
    <3>1. \A o \in Managed' : o \in Recorded' /\ ~ mounts'[o].unmounting
      BY <1>7, <1>8, <1>9, <1>11, <2>0, Zenon DEF StartupInv
    <3>2. \A r \in InPass' :
            /\ r.id \notin Managed'
            /\ ~ r.record.tombstone =>
                 r.id \in Recorded' /\ r.record.config = records'[r.id].config
      BY <1>4, <1>5, <1>8, <1>11, <2>0, Zenon DEF StartupInv, RepoStep
    <3> QED BY <1>4, <2>0, <3>1, <3>2, Zenon DEF StartupInv
  <2>8. PassInv' BY <1>1, <1>4, <1>5, <2>0, <2>7, Zenon DEF PassInv
  <2> QED BY <2>0, <2>1, <2>2, <2>3, <2>4, <2>5, <2>6, <2>8, Zenon DEF RepoInv, RepoStep
<1> QED BY <1>12, <1>13, <1>14, <1>15, Zenon DEF Inv

\* The daemon starts again.
LEMMA RestartInv == ASSUME Inv, Restart PROVE Inv'
<1>0. TypeOK /\ PolicyInv BY Zenon DEF Inv
<1>1. /\ UNCHANGED <<records, index, table, entries, faults, used, acked, asked>>
      /\ restarts < MaxRestarts /\ restarts' = restarts + 1
      /\ mounts' = [id \in IDs |-> NoEntry] /\ operation' = [n \in Nums |-> Nobody]
      /\ call' = [c \in Callers |-> Idle] /\ writes' = {} /\ serving' = FALSE
      /\ \E ids \in {Recorded, Tombstoned} : reconciler' = Pass(Listed(ids))
  BY Zenon DEF Restart, repositoryVars, historyVars
<1>2. PICK ids \in {Recorded, Tombstoned} : reconciler' = Pass(Listed(ids)) BY <1>1, Zenon
<1>3. ids \subseteq Recorded BY Zenon DEF Tombstoned
<1>4. /\ Listed(ids) \subseteq ListedRecords
      /\ \A r \in Listed(ids) : r.id \in ids /\ r.record = records[r.id]
      /\ \A r, s \in Listed(ids) : r.id = s.id => r = s
  BY <1>0, <1>3, ListedFacts, Zenon
<1>5. /\ reconciler' \in Passes /\ InPass' = Listed(ids) /\ ToDo' = Listed(ids)
      /\ InHand' = {}
  BY <1>2, <1>4, PassOf, Zenon
<1>6. Managed' = {} /\ Recorded' = Recorded BY <1>1, Zenon DEF Managed, Recorded
<1>7. /\ Idle \in Calls /\ Idle.pc = "idle" BY Zenon DEF Idle, Calls
<1>8. \A c \in Callers : /\ call'[c].pc = "idle" /\ ~ Locked(c)' /\ ~ Unmounting(c)'
  BY <1>1, <1>7, Zenon DEF Locked, Unmounting
<1>9. TypeOK'
  <2>1. restarts' \in 0 .. MaxRestarts BY <1>0, <1>1, BoundsAssumption DEF TypeOK
  <2> QED BY <1>0, <1>1, <1>5, <1>7, <2>1, Zenon DEF TypeOK
<1>10. PolicyInv' BY <1>0, <1>1, <1>3, <1>4, <1>5, <1>6, Zenon DEF PolicyInv
<1>11. EntryInv' BY <1>6, <1>8, Zenon DEF EntryInv
<1>12. ASSUME ~ ReuseIDs PROVE RepoInv' /\ PassInv'
  <2>0. RepoInv BY <1>12, Zenon DEF Inv
  <2>1. UsedInv' BY <1>1, <1>6, <2>0, Zenon DEF RepoInv, UsedInv
  <2>2. CreateInv' BY <1>8, Zenon DEF CreateInv
  <2>3. SameInv' BY <1>1, <1>6, Zenon DEF SameInv
  <2>4. AckInv' BY <1>1, <1>6, <1>8, <2>0, Zenon DEF RepoInv, AckInv
  <2>5. AskedInv' BY <1>1, <1>6, <1>8, <2>0, Zenon DEF RepoInv, AskedInv
  <2>6. IndexInv' BY <1>1, <1>6, <2>0, Zenon DEF RepoInv, IndexInv
  <2>7. PathInv' BY <1>6, Zenon DEF PathInv
  <2>8. StartupInv' BY <1>1, <1>3, <1>4, <1>5, <1>6, <1>8, Zenon DEF StartupInv
  <2>9. PassInv'
    BY <1>1, <1>3, <1>4, <1>5, <2>0, <2>8, Zenon DEF PassInv, RepoInv, AskedInv
  <2> QED BY <2>1, <2>2, <2>3, <2>4, <2>5, <2>6, <2>7, <2>9, Zenon DEF RepoInv
<1> QED BY <1>9, <1>10, <1>11, <1>12, Zenon DEF Inv

-----------------------------------------------------------------------------
\* The invariant holds at first.
LEMMA InitInv == Init => Inv
<1> SUFFICES ASSUME Init PROVE Inv OBVIOUS
<1>1. /\ Managed = {} /\ Recorded = {} BY Zenon DEF Init, Managed, Recorded
<1>2. /\ Idle \in Calls /\ Idle.pc = "idle" BY Zenon DEF Idle, Calls
<1>3. \A c \in Callers : /\ call[c].pc = "idle" /\ ~ Locked(c) /\ ~ Unmounting(c)
  BY <1>2, Zenon DEF Init, Locked, Unmounting
<1>4. /\ reconciler \in Passes /\ InPass = {}
  BY Zenon DEF Init, Resting, Passes, InPass, ToDo, InHand
<1>5. TypeOK
  BY <1>2, <1>4, BoundsAssumption DEF Init, TypeOK
<1>6. PolicyInv BY <1>1, <1>4, Zenon DEF Init, PolicyInv
<1>7. EntryInv BY <1>1, <1>3, Zenon DEF EntryInv
<1>8. /\ UsedInv /\ CreateInv /\ SameInv /\ AckInv /\ AskedInv /\ PathInv
  BY <1>1, <1>3, Zenon DEF Init, UsedInv, CreateInv, SameInv, AckInv, AskedInv, PathInv
<1>9. IndexInv BY <1>1, NullAssumption, Zenon DEF Init, IndexInv
<1>10. PassInv BY <1>4, Zenon DEF Init, PassInv
<1> QED BY <1>5, <1>6, <1>7, <1>8, <1>9, <1>10, Zenon DEF Inv, RepoInv

\* Every step keeps it.
LEMMA NextInv == Inv /\ [Next]_vars => Inv'
<1> SUFFICES ASSUME Inv, [Next]_vars PROVE Inv' OBVIOUS
<1>1. ASSUME NEW c \in Callers, Call(c) PROVE Inv'
  BY <1>1, MountInv, UnmountInv, RetryUnmountInv, CreateRecordInv, MountEndsInv,
     UnmountBeginInv, UnmountStepsInv, UnmountEndsInv, UnregisterInv, Zenon DEF Call
<1>2. CASE Reconciliation
  BY <1>2, ListTombstonesInv, PassStepInv, ReconcileTombstoneInv, RemountInv,
     ReconcileDoneInv, Zenon DEF Reconciliation, PassStep
<1>3. CASE UNCHANGED vars
  <2>1. /\ UNCHANGED <<mounts, operation, call, reconciler, serving, writes, records,
                        index, table, entries, faults, restarts, used, acked, asked>>
    BY <1>3, Zenon DEF vars, apiVars, passVars, repositoryVars, boundVars, historyVars
  <2>2. TypeOK BY Zenon DEF Inv
  <2>3. /\ ToDo' = ToDo /\ InHand' = InHand /\ InPass' = InPass
        /\ Managed' = Managed /\ Recorded' = Recorded
    BY <2>1, Zenon DEF InPass, ToDo, InHand, Managed, Recorded
  <2>4. ASSUME ~ ReuseIDs PROVE PassInv'
    BY <2>1, <2>3, <2>4, Zenon DEF Inv, PassInv, StartupInv
  <2>5. OtherStep
    BY <2>1, <2>2, <2>3, Zenon DEF Inv, OtherStep, TypeOK, PolicyInv
  <2> QED BY <2>1, <2>4, <2>5, RepoSame, OtherStepInv, Zenon DEF repositoryVars
<1> QED BY <1>1, <1>2, <1>3, EntryStepInv, WriteRecordInv, RestartInv, Zenon DEF Next

\* The invariant holds in every state.
THEOREM InvHolds == Spec => []Inv
BY InitInv, NextInv, PTL DEF Spec

\* The types are kept (TypeOK).
THEOREM TypeCorrect == Spec => []TypeOK
<1>1. Inv => TypeOK BY Zenon DEF Inv
<1> QED BY <1>1, InvHolds, PTL

\* The index of the repository names the record of each path, and no other
\* path: Create, Update and Delete keep both keys together.
THEOREM IndexRight == Spec => []IndexMatchesRecords
<1>1. Inv => IndexMatchesRecords BY Zenon DEF Inv, RepoInv, IndexInv, IndexMatchesRecords
<1> QED BY <1>1, InvHolds, PTL

\* Two registered mounts never have the same path.
THEOREM NoSharedPath == Spec => []PathsDistinct
<1>1. Inv => PathsDistinct BY Zenon DEF Inv, RepoInv, PathInv, PathsDistinct
<1> QED BY <1>1, InvHolds, PTL

\* An acknowledged mount stays on record, with its path, until somebody asks to
\* unmount it.
THEOREM NothingLost == Spec => []AcknowledgedIsRecorded
<1>1. Inv => AcknowledgedIsRecorded
  <2> SUFFICES ASSUME Inv, ~ ReuseIDs, NEW id \in acked \ asked
               PROVE  id \in Recorded /\ index[records[id].config.path] = id
    BY Zenon DEF AcknowledgedIsRecorded
  <2>1. id \in Recorded BY Zenon DEF Inv, RepoInv, AckInv
  <2>2. id \in IDs /\ records[id].config.path \in Paths BY <2>1, Shapes, Zenon DEF Inv
  <2> QED BY <2>1, <2>2 DEF Inv, RepoInv, IndexInv
<1> QED BY <1>1, InvHolds, PTL

\* Every record satisfies the daemon's policy (validateMountConfig,
\* applyFuseAllowOtherPolicy), also when IDs are supplied again.
THEOREM PolicyHolds == Spec => []AcceptedByPolicy
<1>1. Inv => AcceptedByPolicy BY Zenon DEF Inv, PolicyInv, AcceptedByPolicy
<1> QED BY <1>1, InvHolds, PTL

-----------------------------------------------------------------------------
(* The refinement.                                                         *)

\* The abstract owner of a path is the one in the index.
LEMMA OwnerIsIndex == ~ ReuseIDs /\ Inv => Owner = index
<1> SUFFICES ASSUME ~ ReuseIDs, Inv PROVE Owner = index OBVIOUS
<1>1. IndexInv /\ index \in [Paths -> IDs \cup {NoID}] /\ Recorded \subseteq IDs
  BY Zenon DEF Inv, RepoInv, TypeOK, Recorded
<1>2. ASSUME NEW p \in Paths PROVE Owner[p] = index[p]
  <2>1. CASE \E id \in Recorded : records[id].config.path = p
    <3>1. PICK id \in Recorded : records[id].config.path = p BY <2>1, Zenon
    <3>2. \A o \in Recorded : records[o].config.path = p => o = index[p]
      BY <1>1, Zenon DEF IndexInv
    <3>3. Owner[p] = CHOOSE o \in Recorded : records[o].config.path = p
      BY <2>1, Zenon DEF Owner
    <3> QED BY <3>1, <3>2, <3>3, Zenon
  <2>2. CASE ~ \E id \in Recorded : records[id].config.path = p
    <3>1. Owner[p] = NoID BY <2>2, Zenon DEF Owner
    <3>2. \A id \in IDs : index[p] # id BY <1>1, <2>2 DEF IndexInv
    <3> QED BY <1>1, <3>1, <3>2, Zenon
  <2> QED BY <2>1, <2>2, Zenon
<1>3. Owner = [p \in Paths |-> Owner[p]] BY Zenon DEF Owner
<1> QED BY <1>1, <1>2, <1>3, Zenon

\* What a step does to the index and to the requests.
OwnerStep ==
  \/ UNCHANGED <<index, asked>>
  \/ \E id \in IDs : asked' = asked \cup {id} /\ index' = index
  \/ \E id \in IDs, p \in Paths :
       /\ id \notin asked /\ asked' = asked
       /\ index[p] = NoID /\ \A q \in Paths : index[q] # id
       /\ index' = [index EXCEPT ![p] = id]
  \/ \E id \in IDs, p \in Paths :
       /\ id \in asked /\ asked' = asked /\ index[p] = id
       /\ index' = [index EXCEPT ![p] = NoID]

\* A record is deleted.
LEMMA DeleteOwner ==
  ASSUME Inv, ~ ReuseIDs, NEW id \in IDs, Delete(id), asked' = asked, id \in asked
  PROVE  OwnerStep
<1>1. CASE id \notin Recorded BY <1>1, Zenon DEF Delete, Recorded, OwnerStep
<1>2. CASE id \in Recorded
  <2> DEFINE p == records[id].config.path
  <2>1. p \in Paths BY <1>2, Shapes, Zenon DEF Inv
  <2>2. index' = [index EXCEPT ![p] = NoID] BY <1>2, Zenon DEF Delete, Recorded
  <2>3. index[p] = id BY <1>2, <2>1 DEF Inv, RepoInv, IndexInv
  <2> HIDE DEF p
  <2> QED BY <2>1, <2>2, <2>3, Zenon DEF OwnerStep
<1> QED BY <1>1, <1>2, Zenon

\* A record is created.
LEMMA CreateOwner ==
  ASSUME Inv, ~ ReuseIDs, NEW c \in Callers, CreateRecord(c) PROVE OwnerStep
<1>0. TypeOK /\ EntryInv BY Zenon DEF Inv
<1> DEFINE id == call[c].id
           p == mounts[id].config.path
<1>1. /\ call[c].pc = "create" /\ asked' = asked /\ index[p] = NoID
      /\ index' = [index EXCEPT ![p] = id]
  BY Zenon DEF CreateRecord, CanCreate, Create, PathOf, historyVars
<1>2. Locked(c) BY <1>1, Zenon DEF Locked
<1>3. id \in Managed /\ id \in IDs BY <1>0, <1>2, Holder, Zenon
<1>4. p \in Paths BY <1>0, <1>3, Shapes, Zenon DEF PathOf
<1>5. id \notin Recorded /\ id \notin asked BY <1>1, Zenon DEF Inv, RepoInv, CreateInv
<1>6. \A q \in Paths : index[q] # id BY <1>3, <1>5, Zenon DEF Inv, RepoInv, IndexInv
<1> HIDE DEF id, p
<1> QED BY <1>1, <1>3, <1>4, <1>5, <1>6, Zenon DEF OwnerStep

\* Every step does one of these things.
LEMMA NextOwner == ASSUME Inv, ~ ReuseIDs, [Next]_vars PROVE OwnerStep
<1>0. TypeOK /\ EntryInv /\ RepoInv /\ PassInv BY Zenon DEF Inv
<1>1. ASSUME NEW c \in Callers, Call(c) PROVE OwnerStep
  <2>1. CASE DeleteRecord(c)
    <3>1. /\ asked' = asked /\ call[c].pc = "delete"
          /\ Delete(call[c].id) \/ UNCHANGED repositoryVars
      BY <2>1, Zenon DEF DeleteRecord, historyVars
    <3>2. call[c].id \in IDs /\ call[c].id \in asked
      BY <1>0, <3>1, CallShape, Zenon DEF RepoInv, AskedInv, Unmounting
    <3> QED BY <3>1, <3>2, DeleteOwner, Zenon DEF repositoryVars, OwnerStep
  <2>2. CASE UnmountBegin(c)
    <3>1. call[c].id \in IDs BY <1>0, <2>2, CallShape, Zenon DEF UnmountBegin
    <3>2. index' = index /\ (asked' = asked \/ asked' = asked \cup {call[c].id})
      BY <2>2, Zenon DEF UnmountBegin, repositoryVars
    <3> QED BY <3>1, <3>2, Zenon DEF OwnerStep
  <2>3. CASE ~ (DeleteRecord(c) \/ UnmountBegin(c) \/ CreateRecord(c))
    <3>1. UNCHANGED <<index, asked>>
      BY <1>1, <2>3, Zenon DEF Call, Mount, Unmount, RetryUnmount, CreateFails, StartMount,
         WriteTombstone, TombstoneFails, Detach, UnmountFails, Unregister, Update,
         repositoryVars, historyVars
    <3> QED BY <3>1, Zenon DEF OwnerStep
  <2> QED BY <2>1, <2>2, <2>3, CreateOwner, Zenon
<1>2. CASE Reconciliation
  <2>1. CASE ReconcileTombstone
    <3>1. /\ reconciler.pc = "detached" /\ reconciler.rec.record.tombstone
          /\ Delete(reconciler.rec.id) /\ asked' = asked
      BY <2>1, Zenon DEF ReconcileTombstone, TombstoneInHand, historyVars
    <3>2. InHand = {reconciler.rec} /\ reconciler.rec \in ListedRecords
      BY <1>0, <3>1, PassShape, Zenon
    <3>3. reconciler.rec.id \in IDs BY <3>2, ListedShape, Zenon
    <3>4. reconciler.rec.id \in asked BY <1>0, <3>1, <3>2, Zenon DEF PassInv, InPass
    <3> QED BY <3>1, <3>3, <3>4, DeleteOwner, Zenon
  <2>2. CASE ~ ReconcileTombstone
    <3>1. UNCHANGED <<index, asked>>
      BY <1>2, <2>2, Zenon DEF Reconciliation, ListTombstones, ReconcileManaged, ReconcileRecord,
         ReconcileProbe, ReconcileDetach, ReconcileFails, Remount, ReconcileDone, Update,
         repositoryVars, historyVars
    <3> QED BY <3>1, Zenon DEF OwnerStep
  <2> QED BY <2>1, <2>2, Zenon
<1>3. CASE \/ \E id \in IDs : Entry(id)
           \/ \E w \in writes : WriteRecord(w)
           \/ \E path \in table : ClientGone(path)
           \/ Restart
           \/ UNCHANGED vars
  <2>1. UNCHANGED <<index, asked>>
    BY <1>3, Zenon DEF Entry, CloneRecord, ClientMounts, WriteRecord, ClientGone, Restart, Update,
       repositoryVars, historyVars, vars
  <2> QED BY <2>1, Zenon DEF OwnerStep
<1> QED BY <1>1, <1>2, <1>3, Zenon DEF Next

\* The records implement exclusive ownership of paths (PathOwnership): a path is
\* claimed when it is free, by a mount that nobody asked to unmount and that
\* owns nothing, and is given up on request only.
THEOREM RecordsOwnPaths == ~ ReuseIDs => (Spec => ImplementsOwnership)
<1> SUFFICES ASSUME ~ ReuseIDs PROVE Spec => ImplementsOwnership OBVIOUS
<1>1. Init => Ownership!Init
  <2> SUFFICES ASSUME Init PROVE Ownership!Init OBVIOUS
  <2>1. Inv BY InitInv, Zenon
  <2>2. Owner = index BY <2>1, OwnerIsIndex, Zenon
  <2> QED BY <2>2, Zenon DEF Init, Ownership!Init
<1>2. Inv /\ Inv' /\ [Next]_vars => [Ownership!Next]_(Ownership!vars)
  <2> SUFFICES ASSUME Inv, Inv', [Next]_vars
               PROVE  [Ownership!Next]_(Ownership!vars)
    OBVIOUS
  <2>1. Owner = index /\ (Owner = index)'
    <3>1. (~ ReuseIDs /\ Inv => Owner = index)' BY OwnerIsIndex, PTL
    <3> QED BY <3>1, OwnerIsIndex, Zenon
  <2>2. OwnerStep BY NextOwner, Zenon
  <2>3. CASE UNCHANGED <<index, asked>>
    BY <2>1, <2>3, Zenon DEF Ownership!vars
  <2>4. CASE \E id \in IDs : asked' = asked \cup {id} /\ index' = index
    BY <2>1, <2>4, Zenon DEF Ownership!Next, Ownership!AskUnmount
  <2>5. ASSUME NEW id \in IDs, NEW p \in Paths,
               id \notin asked, asked' = asked,
               index[p] = NoID, \A q \in Paths : index[q] # id,
               index' = [index EXCEPT ![p] = id]
        PROVE  Ownership!Next
    <3>1. Ownership!Claim(id, p)
      BY <2>1, <2>5, Zenon DEF Ownership!Claim, Ownership!OwnsNothing
    <3> QED BY <3>1, Zenon DEF Ownership!Next
  <2>6. ASSUME NEW id \in IDs, NEW p \in Paths,
               id \in asked, asked' = asked, index[p] = id,
               index' = [index EXCEPT ![p] = NoID]
        PROVE  Ownership!Next
    <3>1. Ownership!Release(id, p)
      BY <2>1, <2>6, Zenon DEF Ownership!Release
    <3> QED BY <3>1, Zenon DEF Ownership!Next
  <2> QED BY <2>2, <2>3, <2>4, <2>5, <2>6, Zenon DEF OwnerStep
<1> QED BY <1>1, <1>2, InvHolds, PTL DEF Spec, ImplementsOwnership, Ownership!Spec
=============================================================================
