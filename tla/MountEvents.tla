----------------------------- MODULE MountEvents -----------------------------
(***************************************************************************)
(* The lifecycle events of service/mount_manager.go: subscriptions with an *)
(* initial snapshot, the publication that follows every state change, the  *)
(* server's stream loop and the client's waitForMount.                     *)
(*                                                                         *)
(* A mount is reduced to its state and the number of changes it has seen   *)
(* (its version).  Two goroutines may change one mount: the operation that *)
(* holds entry.operation, and the supervisor of its client.  Each changes  *)
(* the entry, later clones it (manager.snapshot), and later still takes    *)
(* eventMutex to publish the clone; the three steps of two goroutines      *)
(* interleave freely.                                                      *)
(***************************************************************************)
EXTENDS Naturals, Sequences, FiniteSets

CONSTANTS IDs,                 \* mount IDs
          Watchers,            \* callers of WatchMountEvents
          Waiters,             \* the watchers that are MountWithID(wait)
          Capacity,            \* slots of a subscriber's channel, 64
          MaxConcurrentMounts  \* config.MaxConcurrentMounts

ASSUME EventsAssumption ==
         /\ Waiters \subseteq Watchers
         /\ {Capacity, MaxConcurrentMounts} \subseteq Nat

VARIABLES mounts,      \* manager.mounts: the registered IDs
          info,        \* entry.info of each ID, kept by an entry removed
          publication, \* per ID and goroutine: what it has yet to publish
          subscribers, \* per watcher: its stream and its channel
          changes      \* how many state changes there were, to bound them

eventVars == <<mounts, info, publication, subscribers, changes>>

States == {"pending", "mounting", "mounted", "retry", "failed", "unmounting",
           "unmounted", "unrecorded"}

Roles == {"operation", "supervisor"}

Infos == [state : States, version : Nat]

Events == [id : IDs, state : States, version : Nat, removed : BOOLEAN]

Event(id, removed) ==
  [id |-> id, state |-> info[id].state, version |-> info[id].version,
   removed |-> removed]

\* No publication under way, and one whose clone is still to be taken.
Quiet == [pc |-> "none"]
Changed == [pc |-> "changed"]
Cloned(event) == [pc |-> "cloned", event |-> event]

\* A watcher without a stream.  Three fields are histories: the latest version
\* in its snapshot or queued for it, the IDs its snapshot listed, whether an
\* event was lost.
Off == [pc |-> "off", ids |-> {}, include |-> FALSE, left |-> {},
        taken |-> <<>>, queue |-> <<>>, newest |-> [id \in IDs |-> 0],
        listed |-> {}, dropped |-> FALSE]

EventsInit ==
  /\ mounts = {}
  /\ info = [id \in IDs |-> [state |-> "unmounted", version |-> 0]]
  /\ publication = [id \in IDs |-> [role \in Roles |-> Quiet]]
  /\ subscribers = [w \in Watchers |-> Off]
  /\ changes = 0

-----------------------------------------------------------------------------
(* The state changes, with where they happen.                              *)

Move(id, state) ==
  /\ changes' = changes + 1
  /\ info' = [info EXCEPT ![id] = [state |-> state, version |-> @.version + 1]]

\* Mount registers the entry: PENDING, and no event.
Register(id) ==
  /\ id \notin mounts
  /\ publication[id]["operation"] = Quiet
  /\ Cardinality(mounts) < MaxConcurrentMounts
  /\ Move(id, "pending")
  /\ mounts' = mounts \cup {id}
  /\ UNCHANGED <<publication, subscribers>>

\* The repository refuses the record: the entry stays, FAILED, and no event
\* tells of it.  The state is named apart from a FAILED that is announced.
CreateFails(id) ==
  /\ id \in mounts
  /\ info[id].state = "pending"
  /\ publication[id]["operation"] = Quiet
  /\ Move(id, "unrecorded")
  /\ UNCHANGED <<mounts, publication, subscribers>>

\* What the holder of entry.operation does (startMount and its failures,
\* Unmount, recordUnmountFailure, retryUnmount), and what the supervisor of the
\* client does (the readiness probe, the client's exit).
OperationMoves ==
  {<<"pending", "mounting">>, <<"pending", "retry">>, <<"pending", "failed">>,
   <<"retry", "mounting">>, <<"retry", "failed">>,
   <<"unmounting", "retry">>, <<"unmounting", "failed">>}
    \cup (States \ {"pending", "unmounting", "unmounted"}) \X {"unmounting"}

SupervisorMoves ==
  {<<"mounting", "mounted">>, <<"mounting", "retry">>, <<"mounting", "failed">>,
   <<"mounted", "retry">>, <<"mounted", "failed">>}

Moves(role) == IF role = "operation" THEN OperationMoves ELSE SupervisorMoves

\* The new state is stored under entry.mutex; the event comes later.
Transition(id, role, state) ==
  /\ id \in mounts
  /\ publication[id][role] = Quiet
  /\ <<info[id].state, state>> \in Moves(role)
  /\ Move(id, state)
  /\ publication' = [publication EXCEPT ![id][role] = Changed]
  /\ UNCHANGED <<mounts, subscribers>>

\* A finished unmount: the result is cloned and the entry leaves the registry
\* before REMOVED is published.
Remove(id) ==
  /\ id \in mounts
  /\ info[id].state = "unmounting"
  /\ publication[id]["operation"] = Quiet
  /\ Move(id, "unmounted")
  /\ mounts' = mounts \ {id}
  /\ publication' = [publication EXCEPT ![id]["operation"] = Cloned(
       [id |-> id, state |-> "unmounted", version |-> info[id].version + 1,
        removed |-> TRUE])]
  /\ UNCHANGED subscribers

\* The argument of publishMountEvent: the entry as it is by now.
snapshot(id, role) ==
  /\ publication[id][role] = Changed
  /\ publication' = [publication EXCEPT ![id][role] = Cloned(Event(id, FALSE))]
  /\ UNCHANGED <<mounts, info, subscribers, changes>>

-----------------------------------------------------------------------------
(* Subscriptions and publications, serialised by eventMutex.               *)

\* Mutated: the snapshots are taken before eventMutex is locked.
SnapshotUnlocked(w) == FALSE

\* SubscribeMountEvents keeps eventMutex until its snapshots are queued.
HoldsEventMutex(w) == subscribers[w].pc = "snapshot"

EventMutexFree == \A w \in Watchers : ~HoldsEventMutex(w)

matches(subscriber, id) == subscriber.ids = {} \/ id \in subscriber.ids

SubscribeMountEvents(w, ids, include) ==
  /\ subscribers[w].pc = "off"
  /\ EventMutexFree
  /\ subscribers' = [subscribers EXCEPT ![w] = [Off EXCEPT
       !.pc = IF include THEN "snapshot" ELSE "open",
       !.ids = ids,
       !.include = include,
       !.left = IF include THEN mounts ELSE {},
       !.listed = IF include THEN mounts ELSE {}]]
  /\ UNCHANGED <<mounts, info, publication, changes>>

\* Each listed entry is cloned in turn; one removed meanwhile still has its
\* info.  The clones that match are kept.
snapshotMounts(w, id) ==
  LET s == subscribers[w] IN
  /\ s.pc = "snapshot"
  /\ id \in s.left
  /\ subscribers' = [subscribers EXCEPT ![w] =
       IF matches(s, id)
       THEN [s EXCEPT !.left = @ \ {id},
                      !.taken = Append(@, Event(id, FALSE)),
                      !.newest[id] = info[id].version]
       ELSE [s EXCEPT !.left = @ \ {id}]]
  /\ UNCHANGED <<mounts, info, publication, changes>>

\* Mutated: with nothing to queue, eventMutex is never unlocked.
FitsSome(events) == Len(events) \in 1 .. Capacity

\* Nobody reads the channel before SubscribeMountEvents returns: snapshots that
\* do not fit block it, with eventMutex locked.
Fits(events) == Len(events) <= Capacity

queueSnapshots(w) ==
  LET s == subscribers[w] IN
  /\ s.pc = "snapshot"
  /\ s.left = {}
  /\ Fits(s.taken)
  /\ subscribers' = [subscribers EXCEPT ![w] = [s EXCEPT
       !.pc = "open", !.taken = <<>>, !.queue = s.taken]]
  /\ UNCHANGED <<mounts, info, publication, changes>>

\* Mutated: the channel grows with what is published.
SendAlways(s, event) ==
  IF s.pc # "open" \/ ~matches(s, event.id) THEN s
  ELSE [s EXCEPT !.queue = Append(@, event),
                 !.newest[event.id] = event.version]
\* The non-blocking send: a full channel loses the event.
Send(s, event) ==
  IF s.pc # "open" \/ ~matches(s, event.id) THEN s
  ELSE IF Len(s.queue) = Capacity THEN [s EXCEPT !.dropped = TRUE]
  ELSE [s EXCEPT !.queue = Append(@, event),
                 !.newest[event.id] = IF event.version > @ THEN event.version
                                                           ELSE @]

publishMountEvent(id, role) ==
  /\ publication[id][role].pc = "cloned"
  /\ EventMutexFree
  /\ subscribers' = [w \in Watchers |->
                       Send(subscribers[w], publication[id][role].event)]
  /\ publication' = [publication EXCEPT ![id][role] = Quiet]
  /\ UNCHANGED <<mounts, info, changes>>

-----------------------------------------------------------------------------
(* The stream: the server's loop, and the client at its other end.         *)

\* Mutated: a mount that has failed is waited for.
EndsOnMounted(event) == event.state = "mounted" \/ event.removed

\* waitForMount returns the mount, or an error when it was removed.
EndsWait(event) == event.state \in {"mounted", "failed"} \/ event.removed

\* One turn of the server's loop: an event is taken from the channel and sent.
\* A waiter with its answer cancels its stream.
Receive(w) ==
  LET s == subscribers[w] IN
  /\ s.pc = "open"
  /\ s.queue # <<>>
  /\ subscribers' = [subscribers EXCEPT
       ![w].queue = Tail(@),
       ![w].pc = IF w \in Waiters /\ EndsWait(Head(s.queue)) THEN "leaving"
                                                             ELSE @]
  /\ UNCHANGED <<mounts, info, publication, changes>>

\* The caller cancels its stream, its deadline passes, or a Send fails.
Leave(w) ==
  /\ subscribers[w].pc = "open"
  /\ subscribers' = [subscribers EXCEPT ![w].pc = "leaving"]
  /\ UNCHANGED <<mounts, info, publication, changes>>

\* The handler returns: the deferred cancel removes the subscriber.
CancelSubscription(w) ==
  /\ subscribers[w].pc = "leaving"
  /\ EventMutexFree
  /\ subscribers' = [subscribers EXCEPT ![w] = Off]
  /\ UNCHANGED <<mounts, info, publication, changes>>

\* The request of a waiter names its mount and asks for its current state.
Watch(w, ids) ==
  \/ w \in Waiters /\ \E id \in ids : SubscribeMountEvents(w, {id}, TRUE)
  \/ w \notin Waiters /\ \E include \in BOOLEAN :
                             SubscribeMountEvents(w, {}, include)

Change(ids) ==
  \/ \E id \in ids : Register(id) \/ CreateFails(id) \/ Remove(id)
  \/ \E id \in ids, role \in Roles, state \in States :
        Transition(id, role, state)

Publishing ==
  \E id \in IDs, role \in Roles : snapshot(id, role) \/ publishMountEvent(id, role)

Stream(w) ==
  \/ \E id \in IDs : snapshotMounts(w, id)
  \/ queueSnapshots(w) \/ Receive(w) \/ CancelSubscription(w)

-----------------------------------------------------------------------------
(* Properties.                                                             *)

Publications == {Quiet, Changed} \cup [pc : {"cloned"}, event : Events]

Subscribers ==
  [pc : {"off", "snapshot", "open", "leaving"}, ids : SUBSET IDs,
   include : BOOLEAN, left : SUBSET IDs, taken : Seq(Events),
   queue : Seq(Events), newest : [IDs -> Nat], listed : SUBSET IDs,
   dropped : BOOLEAN]

EventsTypeOK ==
  /\ mounts \subseteq IDs
  /\ info \in [IDs -> Infos]
  /\ publication \in [IDs -> [Roles -> Publications]]
  /\ subscribers \in [Watchers -> Subscribers]
  /\ \A w \in Watchers : Len(subscribers[w].queue) <= Capacity
  /\ changes \in Nat

\* Nothing about id is still to be published.
Announced(id) ==
  /\ \A role \in Roles : publication[id][role] = Quiet
  /\ info[id].state \notin {"pending", "unrecorded"}

\* A subscriber that asked for the current mounts, and whose channel never
\* overflowed, has been sent the latest change of every mount it watches that
\* is registered, or that its snapshot listed, once that change is published:
\* none falls between the snapshot and the first event (SubscribeMountEvents
\* holds eventMutex over both).
CaughtUp ==
  \A w \in Watchers, id \in IDs :
    LET s == subscribers[w] IN
    (/\ s.pc = "open" /\ s.include /\ ~s.dropped
     /\ matches(s, id)
     /\ Announced(id)
     /\ id \in mounts \cup s.listed)
    => s.newest[id] = info[id].version

\* A goroutine with an event to publish gets to publish it, however slow the
\* subscribers are: sends do not block, and a subscription holds eventMutex
\* only while its snapshots fit the channel (publishMountEvent).
PublisherProceeds ==
  \A id \in IDs, role \in Roles :
    (publication[id][role] # Quiet) ~> (publication[id][role] = Quiet)

\* MountWithID(wait) gets its answer: a waiter subscribed while its mount is
\* MOUNTED or FAILED, and told so, returns, unless an event was dropped or the
\* mount moves on first (client.waitForMount).
WaiterAnswered ==
  \A w \in Waiters, id \in IDs :
    LET waiting == subscribers[w].pc \in {"snapshot", "open"}
                     /\ subscribers[w].ids = {id} /\ ~subscribers[w].dropped
        settled == Announced(id) /\ info[id].state \in {"mounted", "failed"}
    IN (waiting /\ settled) ~> (~waiting \/ ~settled)
=============================================================================
