----------------------------- MODULE DaemonProofs -----------------------------
(***************************************************************************)
(* The safety of the daemon's life, for any number of processes, requests, *)
(* watchers and mounts: the PID file stays with the daemon that locked it, *)
(* the database is open in the process that uses it, a stopping daemon     *)
(* spares the socket of the next, and no event stream misses a change.     *)
(*                                                                         *)
(* Inv joins the types, PIDInv, StoreInv and EventsInv; each kind of step  *)
(* preserves it.  EventsInv comes first: every step of MountEvents         *)
(* preserves it, and it implies CaughtUp.                                  *)
(***************************************************************************)
EXTENDS Daemon, TLAPS

\* The latest change of id has still to reach the subscribers, or never will.
Due(id) ==
  \/ info[id].state \in {"pending", "unrecorded"}
  \/ \E role \in Roles :
       \/ publication[id][role] = Changed
       \/ /\ publication[id][role].pc = "cloned"
          /\ publication[id][role].event.version = info[id].version

\* What the subscriber in state s knows of id, or is going to know.
Knows(s, id) ==
  (/\ s.pc \in {"snapshot", "open"} /\ s.include /\ ~s.dropped
   /\ matches(s, id)
   /\ id \in mounts \cup s.listed
   /\ id \notin s.left)
  => s.newest[id] = info[id].version \/ Due(id)

PublicationInv ==
  \A id \in IDs, role \in Roles :
    publication[id][role].pc = "cloned" =>
      /\ publication[id][role].event.id = id
      /\ publication[id][role].event.version <= info[id].version

SubscriberInv ==
  \A w \in Watchers :
    /\ subscribers[w].pc # "snapshot" => subscribers[w].left = {}
    /\ \A id \in IDs : /\ subscribers[w].newest[id] <= info[id].version
                       /\ Knows(subscribers[w], id)

EventsInv == EventsTypeOK /\ PublicationInv /\ SubscriberInv

\* A watcher without a stream is a subscriber that knows nothing.
LEMMA OffType == Off \in Subscribers /\ Off.pc = "off" /\ Off.left = {}
  /\ Off.queue = <<>> /\ Off.newest = [id \in IDs |-> 0]
BY DEF Off, Subscribers

\* A manager without mounts or subscribers satisfies the invariant.
LEMMA InitEvents == EventsInit => EventsInv
<1> SUFFICES ASSUME EventsInit PROVE EventsInv OBVIOUS
<1>1. EventsTypeOK
  <2>1. \A w \in Watchers : Len(subscribers[w].queue) = 0
    BY Zenon DEF EventsInit, Off
  <2>2. info \in [IDs -> Infos]
    BY Zenon DEF EventsInit, Infos, States
  <2>3. publication \in [IDs -> [Roles -> Publications]]
    BY Zenon DEF EventsInit, Publications
  <2> QED BY <2>1, <2>2, <2>3, OffType, EventsAssumption DEF EventsInit, EventsTypeOK
<1>2. PublicationInv
  BY Zenon DEF EventsInit, PublicationInv, Quiet
<1>3. SubscriberInv
  BY OffType DEF EventsInit, SubscriberInv, Knows
<1> QED BY <1>1, <1>2, <1>3, Zenon DEF EventsInv

-----------------------------------------------------------------------------
(* Changes of a mount.                                                     *)

\* A change of mount m, whose publication by a role is due or needs none,
\* leaves what is known of the others alone.
LEMMA MoveStep ==
  ASSUME EventsInv, NEW m \in IDs, NEW state \in States, Move(m, state),
         UNCHANGED subscribers, mounts' \subseteq mounts \cup {m},
         publication' \in [IDs -> [Roles -> Publications]],
         \A id \in IDs : id # m => publication'[id] = publication[id],
         PublicationInv', Due(m)'
  PROVE  EventsInv'
<1>1. /\ info' \in [IDs -> Infos] /\ info'[m].version = info[m].version + 1
      /\ \A id \in IDs : id # m => info'[id] = info[id]
      /\ \A id \in IDs : info[id].version \in Nat
  BY DEF EventsInv, EventsTypeOK, Move, Infos
<1>2. EventsTypeOK'
  BY <1>1 DEF EventsInv, EventsTypeOK, Move
<1>3. ASSUME NEW w \in Watchers PROVE
        /\ subscribers'[w].pc # "snapshot" => subscribers'[w].left = {}
        /\ \A id \in IDs : /\ subscribers'[w].newest[id] <= info'[id].version
                           /\ Knows(subscribers[w], id)'
  <2>1. /\ subscribers[w].pc # "snapshot" => subscribers[w].left = {}
        /\ \A id \in IDs : /\ subscribers[w].newest[id] <= info[id].version
                           /\ Knows(subscribers[w], id)
        /\ \A id \in IDs : subscribers[w].newest[id] \in Nat
    BY Zenon DEF EventsInv, SubscriberInv, EventsTypeOK, Subscribers
  <2>2. ASSUME NEW id \in IDs, id # m PROVE Due(id) => Due(id)'
    BY <1>1, <2>2, Zenon DEF Due
  <2>3. ASSUME NEW id \in IDs PROVE Knows(subscribers[w], id)'
    BY <1>1, <2>1, <2>2, Zenon DEF Knows, matches
  <2> QED BY <1>1, <2>1, <2>3
<1>4. SubscriberInv'
  BY <1>3, Zenon DEF SubscriberInv
<1> QED BY <1>2, <1>4, Zenon DEF EventsInv

\* Every change of a mount, by either goroutine, keeps the invariant.
LEMMA ChangeStep ==
  ASSUME EventsInv, NEW ids \in SUBSET IDs, Change(ids) PROVE EventsInv'
<1>0. /\ publication \in [IDs -> [Roles -> Publications]] /\ PublicationInv
      /\ info \in [IDs -> Infos] /\ mounts \subseteq IDs
  BY Zenon DEF EventsInv, EventsTypeOK
<1>1. ASSUME NEW m \in ids, Register(m) \/ CreateFails(m) PROVE EventsInv'
  <2>1. PICK state \in {"pending", "unrecorded"} :
          /\ Move(m, state) /\ mounts' \subseteq mounts \cup {m}
          /\ UNCHANGED <<publication, subscribers>>
    BY <1>1, Zenon DEF Register, CreateFails
  <2>2. /\ info'[m].state = state /\ info'[m].version = info[m].version + 1
        /\ \A id \in IDs : id # m => info'[id] = info[id]
        /\ info[m].version \in Nat
    BY <1>0, <2>1, Zenon DEF Move, Infos
  <2>3. Due(m)' BY <2>2, Zenon DEF Due
  <2>4. PublicationInv'
    <3>1. ASSUME NEW role \in Roles, publication[m][role].pc = "cloned"
          PROVE  publication[m][role].event.version \in Nat
      BY <1>0, <3>1 DEF Publications, Events, Quiet, Changed
    <3> QED BY <1>0, <2>1, <2>2, <3>1 DEF PublicationInv
  <2>5. state \in States BY Zenon DEF States
  <2> QED BY <1>0, <2>1, <2>3, <2>4, <2>5, MoveStep, Zenon
<1>2. ASSUME NEW m \in ids, NEW role \in Roles, NEW state \in States,
             Transition(m, role, state)
      PROVE  EventsInv'
  <2>1. /\ Move(m, state) /\ UNCHANGED <<mounts, subscribers>>
        /\ publication' = [publication EXCEPT ![m][role] = Changed]
    BY <1>2, Zenon DEF Transition
  <2>2. /\ info'[m].version = info[m].version + 1
        /\ \A id \in IDs : id # m => info'[id] = info[id]
        /\ info[m].version \in Nat
    BY <1>0, <2>1, Zenon DEF Move, Infos
  <2>3. /\ publication' \in [IDs -> [Roles -> Publications]]
        /\ \A id \in IDs : id # m => publication'[id] = publication[id]
        /\ publication'[m][role] = Changed
        /\ \A r \in Roles : r # role => publication'[m][r] = publication[m][r]
    BY <1>0, <2>1, Zenon DEF Publications
  <2>4. Due(m)' BY <2>3, Zenon DEF Due
  <2>5. PublicationInv'
    <3>1. ASSUME NEW r \in Roles, publication[m][r].pc = "cloned"
          PROVE  publication[m][r].event.version \in Nat
      BY <1>0, <3>1 DEF Publications, Events, Quiet, Changed
    <3>2. Changed.pc # "cloned" BY Zenon DEF Changed
    <3> QED BY <1>0, <2>2, <2>3, <3>1, <3>2 DEF PublicationInv
  <2> QED BY <2>1, <2>3, <2>4, <2>5, MoveStep, Zenon
<1>3. ASSUME NEW m \in ids, Remove(m) PROVE EventsInv'
  <2> DEFINE event == [id |-> m, state |-> "unmounted",
                       version |-> info[m].version + 1, removed |-> TRUE]
  <2>1. /\ Move(m, "unmounted") /\ mounts' = mounts \ {m}
        /\ UNCHANGED subscribers
        /\ publication' = [publication EXCEPT ![m]["operation"] = Cloned(event)]
    BY <1>3, Zenon DEF Remove
  <2>2. /\ info'[m].version = info[m].version + 1
        /\ \A id \in IDs : id # m => info'[id] = info[id]
        /\ info[m].version \in Nat
    BY <1>0, <2>1, Zenon DEF Move, Infos
  <2>3. /\ "operation" \in Roles /\ "unmounted" \in States
        /\ event \in Events /\ event.id = m
        /\ event.version = info[m].version + 1
        /\ Cloned(event) \in Publications /\ Cloned(event).pc = "cloned"
        /\ Cloned(event).event = event
    BY <2>2 DEF Roles, States, Events, Cloned, Publications
  <2> HIDE DEF event
  <2>4. /\ publication' \in [IDs -> [Roles -> Publications]]
        /\ \A id \in IDs : id # m => publication'[id] = publication[id]
        /\ publication'[m]["operation"] = Cloned(event)
        /\ \A r \in Roles : r # "operation" => publication'[m][r] = publication[m][r]
    BY <1>0, <2>1, <2>3, Zenon
  <2>5. Due(m)' BY <2>2, <2>3, <2>4 DEF Due
  <2>6. PublicationInv'
    <3>1. ASSUME NEW r \in Roles, publication[m][r].pc = "cloned"
          PROVE  publication[m][r].event.version \in Nat
      BY <1>0, <3>1 DEF Publications, Events, Quiet, Changed
    <3> QED BY <1>0, <2>2, <2>3, <2>4, <3>1 DEF PublicationInv
  <2> QED BY <2>1, <2>3, <2>4, <2>5, <2>6, MoveStep, Zenon
<1> QED BY <1>1, <1>2, <1>3, Zenon DEF Change

-----------------------------------------------------------------------------
(* Publications and streams.                                               *)

\* A send to one subscriber keeps its type and adds at most the event's version
\* to what it knows; only a drop may leave an open subscriber without it.
LEMMA SendFacts ==
  ASSUME NEW s \in Subscribers, NEW e \in Events, Len(s.queue) <= Capacity
  PROVE  /\ Send(s, e) \in Subscribers /\ Len(Send(s, e).queue) <= Capacity
         /\ Send(s, e).pc = s.pc /\ Send(s, e).left = s.left
         /\ Send(s, e).include = s.include /\ Send(s, e).listed = s.listed
         /\ Send(s, e).ids = s.ids
         /\ s.dropped => Send(s, e).dropped
         /\ \A id \in IDs :
              /\ Send(s, e).newest[id] \in
                   {s.newest[id]} \cup (IF id = e.id THEN {e.version} ELSE {})
              /\ Send(s, e).newest[id] >= s.newest[id]
         /\ (s.pc = "open" /\ matches(s, e.id) /\ ~Send(s, e).dropped)
              => Send(s, e).newest[e.id] >= e.version
<1>1. /\ s.queue \in Seq(Events) /\ s.newest \in [IDs -> Nat] /\ Capacity \in Nat
      /\ e.id \in IDs /\ e.version \in Nat /\ s.dropped \in BOOLEAN
  BY EventsAssumption, Zenon DEF Subscribers, Events
<1>2. CASE s.pc # "open" \/ ~matches(s, e.id)
  BY <1>1, <1>2 DEF Send
<1>3. CASE ~(s.pc # "open" \/ ~matches(s, e.id)) /\ Len(s.queue) = Capacity
  <2>1. Send(s, e) = [s EXCEPT !.dropped = TRUE] BY <1>3, Zenon DEF Send
  <2>2. /\ Send(s, e) \in Subscribers /\ Send(s, e).dropped = TRUE
        /\ Send(s, e).queue = s.queue /\ Send(s, e).newest = s.newest
        /\ Send(s, e).pc = s.pc /\ Send(s, e).left = s.left
        /\ Send(s, e).include = s.include /\ Send(s, e).listed = s.listed
        /\ Send(s, e).ids = s.ids
    BY <2>1, Zenon DEF Subscribers
  <2> QED BY <1>1, <2>2
<1>4. CASE ~(s.pc # "open" \/ ~matches(s, e.id)) /\ Len(s.queue) # Capacity
  <2> DEFINE top == IF e.version > s.newest[e.id] THEN e.version
                                                  ELSE s.newest[e.id]
             q == Append(s.queue, e)
             n == [s.newest EXCEPT ![e.id] = top]
  <2>1. Send(s, e) = [s EXCEPT !.queue = q, !.newest = n] BY <1>4, Zenon DEF Send
  <2>2. q \in Seq(Events) /\ Len(q) <= Capacity BY <1>1, <1>4
  <2>3. top \in Nat /\ top >= e.version /\ top >= s.newest[e.id]
        /\ top \in {s.newest[e.id], e.version}
    BY <1>1
  <2>4. /\ n \in [IDs -> Nat] /\ n[e.id] = top
        /\ \A id \in IDs : id # e.id => n[id] = s.newest[id]
    BY <1>1, <2>3, Zenon
  <2> HIDE DEF q, n, top
  <2>5. /\ Send(s, e) \in Subscribers
        /\ Send(s, e).queue = q /\ Send(s, e).newest = n
        /\ Send(s, e).pc = s.pc /\ Send(s, e).left = s.left
        /\ Send(s, e).include = s.include /\ Send(s, e).listed = s.listed
        /\ Send(s, e).ids = s.ids /\ Send(s, e).dropped = s.dropped
    BY <2>1, <2>2, <2>4, Zenon DEF Subscribers
  <2> QED BY <1>1, <2>2, <2>3, <2>4, <2>5
<1> QED BY <1>2, <1>3, <1>4, Zenon

\* Cloning an entry and publishing the clone keep the invariant: what is
\* published reaches every open subscriber, for eventMutex is free.
LEMMA PublishStep == ASSUME EventsInv, Publishing PROVE EventsInv'
<1> PICK m \in IDs, role \in Roles : snapshot(m, role) \/ publishMountEvent(m, role)
  BY Zenon DEF Publishing
<1>0. /\ publication \in [IDs -> [Roles -> Publications]] /\ PublicationInv
      /\ info \in [IDs -> Infos] /\ subscribers \in [Watchers -> Subscribers]
      /\ \A id \in IDs : info[id].version \in Nat
  BY Zenon DEF EventsInv, EventsTypeOK, Infos
<1>1. CASE snapshot(m, role)
  <2> DEFINE e == Event(m, FALSE)
  <2>1. /\ publication' = [publication EXCEPT ![m][role] = Cloned(e)]
        /\ UNCHANGED <<mounts, info, subscribers, changes>>
    BY <1>1, Zenon DEF snapshot
  <2>2. /\ e \in Events /\ e.id = m /\ e.version = info[m].version
        /\ Cloned(e) \in Publications /\ Cloned(e).pc = "cloned"
        /\ Cloned(e).event = e
    BY <1>0, Zenon DEF Event, Events, Infos, Cloned, Publications
  <2> HIDE DEF e
  <2>3. /\ publication' \in [IDs -> [Roles -> Publications]]
        /\ \A id \in IDs : id # m => publication'[id] = publication[id]
        /\ publication'[m][role] = Cloned(e)
        /\ \A r \in Roles : r # role => publication'[m][r] = publication[m][r]
    BY <1>0, <2>1, <2>2, Zenon
  <2>4. PublicationInv' BY <1>0, <2>1, <2>2, <2>3 DEF PublicationInv
  <2>5. \A id \in IDs : Due(id) => Due(id)' BY <2>1, <2>2, <2>3 DEF Due
  <2>6. EventsTypeOK' BY <2>1, <2>3, Zenon DEF EventsInv, EventsTypeOK
  <2>7. SubscriberInv' BY <2>1, <2>5, Zenon DEF EventsInv, SubscriberInv, Knows, matches
  <2> QED BY <2>4, <2>6, <2>7, Zenon DEF EventsInv
<1>2. CASE publishMountEvent(m, role)
  <2> DEFINE e == publication[m][role].event
  <2>1. /\ publication[m][role].pc = "cloned" /\ EventMutexFree
        /\ subscribers' = [w \in Watchers |-> Send(subscribers[w], e)]
        /\ publication' = [publication EXCEPT ![m][role] = Quiet]
        /\ UNCHANGED <<mounts, info, changes>>
    BY <1>2, Zenon DEF publishMountEvent
  <2>2. e \in Events /\ e.id = m /\ e.version <= info[m].version /\ e.version \in Nat
    BY <1>0, <2>1 DEF Publications, Quiet, Changed, PublicationInv, Events
  <2>3. /\ publication' \in [IDs -> [Roles -> Publications]]
        /\ \A id \in IDs : id # m => publication'[id] = publication[id]
        /\ publication'[m][role] = Quiet
        /\ \A r \in Roles : r # role => publication'[m][r] = publication[m][r]
    BY <1>0, <2>1, Zenon DEF Publications
  <2>4. PublicationInv' BY <1>0, <2>1, <2>3 DEF PublicationInv, Quiet
  <2>5. /\ \A id \in IDs : id # m => (Due(id) => Due(id)')
        /\ Due(m) => Due(m)' \/ e.version = info[m].version
    BY <2>1, <2>3 DEF Due, Changed, Quiet
  <2> HIDE DEF e
  <2>6. ASSUME NEW w \in Watchers PROVE
          LET s == subscribers[w] t == subscribers'[w] IN
          /\ t \in Subscribers /\ Len(t.queue) <= Capacity
          /\ t.pc = s.pc /\ t.left = s.left /\ t.include = s.include
          /\ t.listed = s.listed /\ t.ids = s.ids /\ (s.dropped => t.dropped)
          /\ \A id \in IDs :
               /\ t.newest[id] \in
                    {s.newest[id]} \cup (IF id = e.id THEN {e.version} ELSE {})
               /\ t.newest[id] >= s.newest[id]
          /\ (s.pc = "open" /\ matches(s, e.id) /\ ~t.dropped)
               => t.newest[e.id] >= e.version
    <3>1. subscribers[w] \in Subscribers /\ Len(subscribers[w].queue) <= Capacity
      BY <1>0, Zenon DEF EventsInv, EventsTypeOK
    <3>2. subscribers'[w] = Send(subscribers[w], e) BY <2>1, Zenon
    <3> QED BY <2>2, <3>1, <3>2, SendFacts
  <2>7. EventsTypeOK'
    BY <2>1, <2>3, <2>6, Zenon DEF EventsInv, EventsTypeOK
  <2>8. ASSUME NEW w \in Watchers, NEW id \in IDs
        PROVE  subscribers'[w].newest[id] <= info'[id].version
               /\ Knows(subscribers[w], id)'
    <3>1. /\ subscribers[w].newest[id] <= info[id].version
          /\ subscribers[w].newest[id] \in Nat /\ subscribers[w].pc # "snapshot"
          /\ Knows(subscribers[w], id)
      BY <1>0, <2>1, Zenon DEF EventsInv, SubscriberInv, Subscribers, EventMutexFree,
                        HoldsEventMutex
    <3>2. subscribers'[w].newest[id] <= info'[id].version
      BY <1>0, <2>1, <2>2, <2>6, <3>1, Zenon
    <3>3. CASE id # m
      BY <1>0, <2>1, <2>2, <2>5, <2>6, <3>1, <3>3 DEF Knows, matches
    <3>4. CASE id = m
      <4>1. SUFFICES ASSUME subscribers[w].pc = "open", ~subscribers'[w].dropped,
                            matches(subscribers[w], m), ~Due(m)',
                            subscribers[w].newest[m] = info[m].version \/ Due(m)
                     PROVE  subscribers'[w].newest[m] = info[m].version
        BY <2>1, <2>6, <3>1, <3>2, <3>4, Zenon DEF Knows, matches
      <4>2. CASE e.version = info[m].version
        <5>1. subscribers'[w].newest[m] >= e.version
          BY <2>2, <2>6, <4>1, Zenon
        <5>2. subscribers'[w].newest[m] \in {subscribers[w].newest[m], e.version}
          BY <2>2, <2>6, Zenon
        <5>3. subscribers[w].newest[m] <= info[m].version
              /\ subscribers[w].newest[m] \in Nat /\ info[m].version \in Nat
          BY <1>0, <3>1, <3>4, Zenon
        <5> QED BY <4>2, <5>1, <5>2, <5>3
      <4>3. CASE subscribers[w].newest[m] = info[m].version
        BY <1>0, <2>1, <2>2, <2>6, <3>1, <3>2, <3>4, <4>3
      <4> QED BY <2>5, <4>1, <4>2, <4>3, Zenon
    <3> QED BY <3>2, <3>3, <3>4, Zenon
  <2>9. SubscriberInv'
    BY <2>6, <2>8, Zenon DEF SubscriberInv, EventsInv
  <2> QED BY <2>4, <2>7, <2>9, Zenon DEF EventsInv
<1> QED BY <1>1, <1>2, Zenon

\* The steps that only change one subscriber keep the invariant when that
\* subscriber keeps its part of it.
LEMMA StreamFrame ==
  ASSUME EventsInv, NEW w \in Watchers, NEW t \in Subscribers,
         Len(t.queue) <= Capacity,
         subscribers' = [subscribers EXCEPT ![w] = t],
         UNCHANGED <<mounts, info, publication, changes>>,
         t.pc # "snapshot" => t.left = {},
         \A id \in IDs : t.newest[id] <= info[id].version /\ Knows(t, id)
  PROVE  EventsInv'
<1>1. /\ subscribers' \in [Watchers -> Subscribers] /\ subscribers'[w] = t
      /\ \A x \in Watchers : x # w => subscribers'[x] = subscribers[x]
  BY Zenon DEF EventsInv, EventsTypeOK
<1>2. EventsTypeOK' BY <1>1, Zenon DEF EventsInv, EventsTypeOK
<1>3. PublicationInv' BY Zenon DEF EventsInv, PublicationInv
<1>4. \A id \in IDs : Due(id)' <=> Due(id) BY Zenon DEF Due
<1>5. SubscriberInv'
  BY <1>1, <1>4, Zenon DEF EventsInv, SubscriberInv, Knows, matches
<1> QED BY <1>2, <1>3, <1>5, Zenon DEF EventsInv

\* A subscription lists the registered mounts, and has them all still to clone.
LEMMA WatchStep ==
  ASSUME EventsInv, NEW w \in Watchers, NEW ids \in SUBSET IDs, Watch(w, ids)
  PROVE  EventsInv'
<1> PICK watched \in SUBSET IDs, include \in BOOLEAN :
      SubscribeMountEvents(w, watched, include)
  BY Zenon DEF Watch
<1> DEFINE t == [Off EXCEPT
       !.pc = IF include THEN "snapshot" ELSE "open",
       !.ids = watched,
       !.include = include,
       !.left = IF include THEN mounts ELSE {},
       !.listed = IF include THEN mounts ELSE {}]
<1>1. /\ subscribers' = [subscribers EXCEPT ![w] = t]
      /\ UNCHANGED <<mounts, info, publication, changes>>
  BY Zenon DEF SubscribeMountEvents
<1>2. mounts \subseteq IDs /\ \A id \in IDs : info[id].version \in Nat
  BY Zenon DEF EventsInv, EventsTypeOK, Infos
<1>3. /\ t \in Subscribers /\ t.queue = <<>> /\ t.include = include
      /\ t.newest = [id \in IDs |-> 0]
      /\ include => t.pc = "snapshot" /\ t.left = mounts /\ t.listed = mounts
      /\ ~include => t.left = {}
  <2>1. /\ (IF include THEN "snapshot" ELSE "open") \in {"snapshot", "open"}
        /\ (IF include THEN mounts ELSE {}) \in SUBSET IDs
    BY <1>2, Zenon
  <2> QED BY <2>1, OffType, Zenon DEF Subscribers
<1> HIDE DEF t
<1>4. t.pc # "snapshot" => t.left = {} BY <1>3, Zenon
<1>5. \A id \in IDs : t.newest[id] <= info[id].version /\ Knows(t, id)
  BY <1>2, <1>3 DEF Knows
<1>6. Len(t.queue) <= Capacity BY <1>3, EventsAssumption
<1> QED BY <1>1, <1>3, <1>4, <1>5, <1>6, StreamFrame, Zenon

\* Cloning a listed mount, queueing the clones, sending an event and ending a
\* stream keep the invariant.
LEMMA StreamStep ==
  ASSUME EventsInv, NEW w \in Watchers, Stream(w) \/ Leave(w) PROVE EventsInv'
<1> DEFINE s == subscribers[w]
<1>0. /\ subscribers \in [Watchers -> Subscribers] /\ s \in Subscribers
      /\ Len(s.queue) <= Capacity
      /\ \A id \in IDs : info[id] \in Infos
      /\ \A id \in IDs : info[id].version \in Nat
      /\ s.pc # "snapshot" => s.left = {}
      /\ \A id \in IDs : s.newest[id] <= info[id].version /\ Knows(s, id)
  BY Zenon DEF EventsInv, EventsTypeOK, SubscriberInv, Infos
<1>1. ASSUME NEW id \in IDs, snapshotMounts(w, id) PROVE EventsInv'
  <2>1. CASE matches(s, id)
    <3> DEFINE t == [s EXCEPT !.left = s.left \ {id},
                              !.taken = Append(s.taken, Event(id, FALSE)),
                              !.newest = [s.newest EXCEPT ![id] = info[id].version]]
    <3>1. /\ subscribers' = [subscribers EXCEPT ![w] = t] /\ s.pc = "snapshot"
          /\ UNCHANGED <<mounts, info, publication, changes>>
      BY <1>1, <2>1, Zenon DEF snapshotMounts
    <3>2. Event(id, FALSE) \in Events BY <1>0, Zenon DEF Event, Events, Infos
    <3>3. Append(s.taken, Event(id, FALSE)) \in Seq(Events)
          /\ [s.newest EXCEPT ![id] = info[id].version] \in [IDs -> Nat]
      <4>1. s.taken \in Seq(Events) /\ s.newest \in [IDs -> Nat]
        BY <1>0, Zenon DEF Subscribers
      <4>2. Append(s.taken, Event(id, FALSE)) \in Seq(Events)
        <5>1. \A q \in Seq(Events), e \in Events : Append(q, e) \in Seq(Events)
          OBVIOUS
        <5> HIDE DEF s
        <5> QED BY <3>2, <4>1, <5>1, Zenon
      <4>3. [s.newest EXCEPT ![id] = info[id].version] \in [IDs -> Nat]
        <5> HIDE DEF s
        <5> QED BY <1>0, <4>1, Zenon
      <4> QED BY <4>2, <4>3, Zenon
    <3>4. /\ t \in Subscribers /\ t.pc = s.pc /\ t.queue = s.queue
          /\ t.left = s.left \ {id} /\ t.include = s.include
          /\ t.dropped = s.dropped /\ t.listed = s.listed /\ t.ids = s.ids
          /\ t.newest = [s.newest EXCEPT ![id] = info[id].version]
      BY <1>0, <3>3, Zenon DEF Subscribers
    <3>5. /\ t.newest[id] = info[id].version
          /\ \A x \in IDs : x # id => t.newest[x] = s.newest[x]
      BY <1>0, <3>4, Zenon DEF Subscribers
    <3> HIDE DEF t
    <3>6. ASSUME NEW x \in IDs
          PROVE  t.newest[x] <= info[x].version /\ Knows(t, x)
      BY <1>0, <3>4, <3>5 DEF Knows, matches
    <3> QED BY <1>0, <3>1, <3>4, <3>6, StreamFrame, Zenon
  <2>2. CASE ~matches(s, id)
    <3> DEFINE t == [s EXCEPT !.left = s.left \ {id}]
    <3>1. /\ subscribers' = [subscribers EXCEPT ![w] = t] /\ s.pc = "snapshot"
          /\ UNCHANGED <<mounts, info, publication, changes>>
      BY <1>1, <2>2, Zenon DEF snapshotMounts
    <3>2. /\ t \in Subscribers /\ t.pc = s.pc /\ t.queue = s.queue
          /\ t.left = s.left \ {id} /\ t.include = s.include
          /\ t.dropped = s.dropped /\ t.listed = s.listed /\ t.ids = s.ids
          /\ t.newest = s.newest
      BY <1>0, Zenon DEF Subscribers
    <3> HIDE DEF t
    <3>3. ASSUME NEW x \in IDs
          PROVE  t.newest[x] <= info[x].version /\ Knows(t, x)
      BY <1>0, <2>2, <3>2, Zenon DEF Knows, matches
    <3> QED BY <1>0, <3>1, <3>2, <3>3, StreamFrame, Zenon
  <2> QED BY <2>1, <2>2, Zenon
<1>2. ASSUME queueSnapshots(w) PROVE EventsInv'
  <2> DEFINE t == [s EXCEPT !.pc = "open", !.taken = <<>>, !.queue = s.taken]
  <2>1. /\ subscribers' = [subscribers EXCEPT ![w] = t] /\ s.pc = "snapshot"
        /\ s.left = {} /\ Len(s.taken) <= Capacity
        /\ UNCHANGED <<mounts, info, publication, changes>>
    BY <1>2, Zenon DEF queueSnapshots, Fits
  <2>2. /\ t \in Subscribers /\ t.pc = "open" /\ t.queue = s.taken
        /\ t.left = s.left /\ t.include = s.include
        /\ t.dropped = s.dropped /\ t.listed = s.listed /\ t.ids = s.ids
        /\ t.newest = s.newest
    <3>1. s.taken \in Seq(Events) /\ <<>> \in Seq(Events)
      BY <1>0 DEF Subscribers
    <3> HIDE DEF s
    <3> QED BY <1>0, <3>1, Zenon DEF Subscribers
  <2> HIDE DEF t
  <2>3. ASSUME NEW x \in IDs
        PROVE  t.newest[x] <= info[x].version /\ Knows(t, x)
    BY <1>0, <2>1, <2>2, Zenon DEF Knows, matches
  <2> QED BY <2>1, <2>2, <2>3, StreamFrame, Zenon
<1>3. ASSUME Receive(w) \/ Leave(w) PROVE EventsInv'
  <2> PICK where \in {"open", "leaving"}, rest \in {s.queue, Tail(s.queue)} :
        /\ subscribers' = [subscribers EXCEPT ![w] =
                             [s EXCEPT !.queue = rest, !.pc = where]]
        /\ s.pc = "open" /\ rest \in Seq(Events) /\ Len(rest) <= Capacity
        /\ UNCHANGED <<mounts, info, publication, changes>>
    <3>1. CASE Receive(w)
      <4>1. /\ Tail(s.queue) \in Seq(Events) /\ Len(Tail(s.queue)) <= Capacity
            /\ s.pc = "open"
        BY <1>0, <3>1, EventsAssumption DEF Receive, Subscribers
      <4>2. CASE w \in Waiters /\ EndsWait(Head(s.queue))
        <5>1. subscribers' = [subscribers EXCEPT ![w] =
                [s EXCEPT !.queue = Tail(s.queue), !.pc = "leaving"]]
          BY <1>0, <3>1, <4>2, Zenon DEF Receive, Subscribers
        <5> QED BY <3>1, <4>1, <5>1, Zenon DEF Receive
      <4>3. CASE ~(w \in Waiters /\ EndsWait(Head(s.queue)))
        <5>1. subscribers' = [subscribers EXCEPT ![w] =
                [s EXCEPT !.queue = Tail(s.queue), !.pc = "open"]]
          BY <1>0, <3>1, <4>1, <4>3, Zenon DEF Receive, Subscribers
        <5> QED BY <3>1, <4>1, <5>1, Zenon DEF Receive
      <4> QED BY <4>2, <4>3, Zenon
    <3>2. CASE Leave(w)
      <4>1. s.queue \in Seq(Events) BY <1>0, Zenon DEF Subscribers
      <4>2. [s EXCEPT !.pc = "leaving"]
              = [s EXCEPT !.queue = s.queue, !.pc = "leaving"]
        BY <1>0, Zenon DEF Subscribers
      <4>3. subscribers' = [subscribers EXCEPT ![w] = [s EXCEPT !.pc = "leaving"]]
        BY <1>0, <3>2, Zenon DEF Leave
      <4> QED BY <1>0, <3>2, <4>1, <4>2, <4>3, Zenon DEF Leave
    <3> QED BY <1>3, <3>1, <3>2, Zenon
  <2> DEFINE t == [s EXCEPT !.queue = rest, !.pc = where]
  <2>2. /\ t \in Subscribers /\ t.pc = where /\ t.queue = rest
        /\ t.left = s.left /\ t.include = s.include
        /\ t.dropped = s.dropped /\ t.listed = s.listed /\ t.ids = s.ids
        /\ t.newest = s.newest
    BY <1>0, Zenon DEF Subscribers
  <2>1. subscribers' = [subscribers EXCEPT ![w] = t] OBVIOUS
  <2> HIDE DEF t
  <2>3. ASSUME NEW x \in IDs
        PROVE  t.newest[x] <= info[x].version /\ Knows(t, x)
    BY <1>0, <2>2, Zenon DEF Knows, matches
  <2> QED BY <1>0, <2>1, <2>2, <2>3, StreamFrame, Zenon
<1>4. ASSUME CancelSubscription(w) PROVE EventsInv'
  <2>1. /\ subscribers' = [subscribers EXCEPT ![w] = Off]
        /\ UNCHANGED <<mounts, info, publication, changes>>
    BY <1>4, Zenon DEF CancelSubscription
  <2>2. Len(Off.queue) <= Capacity BY EventsAssumption DEF Off
  <2>3. \A x \in IDs : Off.newest[x] <= info[x].version /\ Knows(Off, x)
    BY <1>0, OffType DEF Knows
  <2> QED BY <2>1, <2>2, <2>3, OffType, StreamFrame, Zenon
<1> QED BY <1>1, <1>2, <1>3, <1>4, Zenon DEF Stream

-----------------------------------------------------------------------------
\* The invariant says of an open stream what CaughtUp says.
LEMMA InvCaughtUp == EventsInv => CaughtUp
<1> SUFFICES ASSUME EventsInv, NEW w \in Watchers, NEW id \in IDs,
                    subscribers[w].pc = "open", subscribers[w].include,
                    ~subscribers[w].dropped, matches(subscribers[w], id),
                    Announced(id), id \in mounts \cup subscribers[w].listed
             PROVE  subscribers[w].newest[id] = info[id].version
  BY Zenon DEF CaughtUp
<1>1. subscribers[w].left = {} /\ Knows(subscribers[w], id)
  BY Zenon DEF EventsInv, SubscriberInv
<1>2. ~Due(id)
  BY DEF Announced, Due, Quiet, Changed
<1> QED BY <1>1, <1>2, Zenon DEF Knows

-----------------------------------------------------------------------------
(* The daemon.                                                             *)

\* Where a process has the database open.
Owning == {"reconcile", "listen", "serve", "drain", "await", "shutdown",
           "stopped", "release", "closing"}

\* Where a process does nothing with its PID file.
Ordinary == Owning \cup {"dirs", "open", "close"}

DaemonType ==
  /\ scene \in Scenes
  /\ pc \in [Daemons -> PCs]
  /\ path \in Inodes \cup {0}
  /\ fd \in [Daemons -> Inodes \cup {0}]
  /\ holder \in [Inodes -> Daemons \cup {NoDaemon}]
  /\ content \in [Inodes -> Daemons \cup {NoDaemon}]
  /\ named \subseteq Daemons
  /\ {socket, store, stopper} \subseteq Daemons \cup {NoDaemon}
  /\ loop \in [Daemons -> {"off", "waiting", "pass"}]
  /\ calls \in [Daemons -> SUBSET Callers]

\* A daemon past the lock holds the lock of the file it has open; the path names
\* another file only when that one does not hold its PID; one that locked the
\* file under its name finds it there until it removes it.
PIDInvOf(d) ==
  /\ d \in scene.foreground =>
       fd[d] = 0 /\ pc[d] \notin {"lock", "write", "unlink", "unlock"}
  /\ pc[d] = "down" => fd[d] = 0
  /\ (d \notin scene.foreground /\ pc[d] # "down") => fd[d] # 0
  /\ (fd[d] # 0 /\ pc[d] # "lock") => holder[fd[d]] = d
  /\ (fd[d] # 0 /\ fd[d] # path /\ path # 0) => content[path] # d
  /\ pc[d] = "unlink" => path = fd[d]
  /\ d \in named =>
       /\ fd[d] # 0 /\ pc[d] # "lock"
       /\ pc[d] # "unlock" => path = fd[d]
       /\ pc[d] \notin {"write", "unlock"} => content[fd[d]] = d

PIDInv == \A d \in Daemons : PIDInvOf(d)

\* The database is open exactly in the process that is between its opening and
\* its closing; requests, the reconcile loop and the streams live inside that.
StoreInv ==
  /\ \A d \in Daemons :
       /\ pc[d] \in Owning <=> store = d
       /\ calls[d] # {} => pc[d] \in {"serve", "drain"}
       /\ loop[d] # "off" => pc[d] \in {"serve", "drain", "await"}
  /\ OpenStreams # {} =>
       \E d \in Daemons : store = d /\ pc[d] \in {"serve", "drain"}

Inv == DaemonType /\ PIDInv /\ StoreInv /\ EventsInv

-----------------------------------------------------------------------------
(* The kinds of steps.                                                     *)

\* The steps on the PID file.
PIDStep(d) ==
  \/ OpenPIDFile(d) \/ LockPIDFile(d) \/ AlreadyRunning(d) \/ WritePID(d)
  \/ WritePIDFails(d) \/ ClosePIDFile(d) \/ RemovePIDFile(d) \/ Exit(d)

\* The beginning of Stop.
Stop(d) ==
  /\ Goto(d, "serve", "drain")
  /\ socket' = NoDaemon
  /\ UNCHANGED <<scene, pidVars, store, loop, calls, eventVars>>

\* The steps of run and of the service, which leave the PID file alone.
ServiceStep(d) ==
  \/ MakeWorkDirs(d) \/ MakeWorkDirsFails(d) \/ OpenStore(d) \/ NewServiceFails(d)
  \/ Reconciled(d) \/ ReconcileFails(d) \/ Start(d) \/ StartFails(d)
  \/ DrainEnds(d) \/ AwaitReconcile(d) \/ Shutdown(d) \/ RemoveUnixSocket(d)
  \/ CloseStore(d)
  \/ Stop(d) /\ stopper' \in {stopper, NoDaemon}

\* The steps beside them, during which every process stays where it is.
BackgroundStep ==
  /\ UNCHANGED <<scene, pc, pidVars, socket, store>>
  /\ \/ \E d \in Daemons : Tick(d) \/ PassEnds(d) \/ LoopEnds(d)
     \/ \E d \in Daemons, c \in scene.callers : BeginCall(d, c) \/ EndCall(d, c)
     \/ /\ stopper' \in {stopper, NoDaemon} \cup (IF path = 0 THEN {} ELSE {content[path]})
        /\ UNCHANGED <<loop, calls, eventVars>>
     \/ EventStep

\* Every step is of one of these kinds.
LEMMA StepKinds ==
  ASSUME DaemonType, Next
  PROVE  \/ BackgroundStep
         \/ \E d \in Daemons : \/ PIDStep(d) \/ RunForeground(d) \/ ServiceStep(d)
                               \/ Die(d) /\ stopper' \in {stopper, NoDaemon}
<1>1. ASSUME NEW d \in Daemons, Step(d) PROVE PIDStep(d) \/ ServiceStep(d)
  BY <1>1, Zenon DEF Step, PIDStep, ServiceStep
<1>2. ASSUME NEW d \in Daemons, Terminate(d), stopper' \in {stopper, NoDaemon}
      PROVE  ServiceStep(d) \/ (Die(d) /\ stopper' \in {stopper, NoDaemon})
  BY <1>2, Zenon DEF Terminate, Stop, ServiceStep
<1>3. ASSUME NEW d \in Daemons,
             \/ Tick(d) \/ PassEnds(d) \/ LoopEnds(d)
             \/ \E c \in scene.callers : BeginCall(d, c) \/ EndCall(d, c)
      PROVE  BackgroundStep
  BY <1>3, Zenon DEF Tick, PassEnds, LoopEnds, LoopMoves, BeginCall, EndCall,
              BackgroundStep
<1>4. ASSUME ReadPID PROVE BackgroundStep
  BY <1>4, Zenon DEF ReadPID, BackgroundStep, serviceVars
<1>5. ASSUME SignalPID
      PROVE  \/ BackgroundStep
             \/ \E d \in Daemons : \/ ServiceStep(d)
                                   \/ Die(d) /\ stopper' \in {stopper, NoDaemon}
  <2>1. CASE ProcessRunning(stopper)
    <3>1. stopper \in Daemons BY <1>5, Zenon DEF SignalPID, DaemonType
    <3> QED BY <1>2, <1>5, <2>1, <3>1, Zenon DEF SignalPID
  <2>2. CASE ~ProcessRunning(stopper)
    BY <1>5, <2>2, Zenon DEF SignalPID, BackgroundStep, serviceVars
  <2> QED BY <2>1, <2>2, Zenon
<1>6. ASSUME EventStep PROVE BackgroundStep
  BY <1>6, Zenon DEF EventStep, BackgroundStep, daemonVars, serviceVars
<1>7. ASSUME NEW d \in Daemons, Crash(d) 
      PROVE  Die(d) /\ stopper' \in {stopper, NoDaemon}
  BY <1>7, Zenon DEF Crash
<1>8. ASSUME NEW d \in Daemons, Interrupt(d)
      PROVE  Terminate(d) /\ stopper' \in {stopper, NoDaemon}
  BY <1>8, Zenon DEF Interrupt
<1>9. \A d \in Daemons : OpenPIDFile(d) => PIDStep(d)
  BY Zenon DEF PIDStep
<1> QED BY <1>1, <1>2, <1>3, <1>4, <1>5, <1>6, <1>7, <1>8, <1>9, Zenon DEF Next

\* A process that moves changes no other one's place.
LEMMA GotoPC ==
  ASSUME DaemonType, NEW d \in Daemons, NEW from, NEW to \in PCs, Goto(d, from, to)
  PROVE  /\ pc' \in [Daemons -> PCs] /\ pc[d] = from /\ pc'[d] = to
         /\ \A e \in Daemons : e # d => pc'[e] = pc[e]
BY Zenon DEF DaemonType, Goto

-----------------------------------------------------------------------------
(* The PID file.                                                           *)

\* What the assumptions say of the constants.
LEMMA Constants ==
  /\ NoDaemon \notin Daemons /\ 0 \notin Inodes
  /\ \A x \in Scenes : /\ x.watchers \subseteq Watchers /\ x.mounts \subseteq IDs
                        /\ x.callers \subseteq Callers
BY DaemonAssumption, Zenon

\* The steps on the PID file keep the types.
LEMMA PIDStepType ==
  ASSUME DaemonType, PIDInv, NEW d \in Daemons, PIDStep(d) PROVE DaemonType'
<1>0. /\ fd[d] \in Inodes \cup {0}
      /\ pc[d] \in {"lock", "write"} => fd[d] \in Inodes
  BY Zenon DEF DaemonType, PIDInv, PIDInvOf
<1>1. CASE OpenPIDFile(d)
  <2>1. path' \in Inodes
    BY <1>1, Zenon DEF OpenPIDFile, DaemonType
  <2>2. pc' \in [Daemons -> PCs] BY <1>1, GotoPC, Zenon DEF OpenPIDFile, PCs
  <2> QED BY <1>1, <2>1, <2>2, Zenon DEF OpenPIDFile, DaemonType, serviceVars
<1>2. CASE LockPIDFile(d)
  <2>1. pc' \in [Daemons -> PCs] /\ fd[d] \in Inodes
    BY <1>0, <1>2, GotoPC, Zenon DEF LockPIDFile, PCs
  <2> QED BY <1>2, <2>1, Zenon DEF LockPIDFile, DaemonType, serviceVars
<1>3. CASE AlreadyRunning(d)
  <2>1. pc' \in [Daemons -> PCs] BY <1>3, GotoPC, Zenon DEF AlreadyRunning, PCs
  <2> QED BY <1>3, <2>1, Zenon DEF AlreadyRunning, DaemonType, serviceVars
<1>4. CASE WritePID(d)
  <2>1. pc' \in [Daemons -> PCs] /\ fd[d] \in Inodes
    BY <1>0, <1>4, GotoPC, Zenon DEF WritePID, PCs
  <2> QED BY <1>4, <2>1, Zenon DEF WritePID, DaemonType, serviceVars
<1>5. CASE WritePIDFails(d)
  <2>1. pc' \in [Daemons -> PCs] BY <1>5, GotoPC, Zenon DEF WritePIDFails, PCs
  <2> QED BY <1>5, <2>1, Zenon DEF WritePIDFails, ReleaseFile, DaemonType, serviceVars
<1>6. CASE ClosePIDFile(d)
  <2>1. pc' \in [Daemons -> PCs] BY <1>6, GotoPC, Zenon DEF ClosePIDFile, PCs
  <2> QED BY <1>6, <2>1, Zenon DEF ClosePIDFile, DaemonType, serviceVars, pidVars
<1>7. CASE RemovePIDFile(d)
  <2>1. pc' \in [Daemons -> PCs] BY <1>7, GotoPC, Zenon DEF RemovePIDFile, PCs
  <2> QED BY <1>7, <2>1, Zenon DEF RemovePIDFile, DaemonType, serviceVars
<1>8. CASE Exit(d)
  <2>1. pc' \in [Daemons -> PCs] BY <1>8, GotoPC, Zenon DEF Exit, PCs
  <2> QED BY <1>8, <2>1, Zenon DEF Exit, ReleaseFile, DaemonType, serviceVars
<1> QED BY <1>1, <1>2, <1>3, <1>4, <1>5, <1>6, <1>7, <1>8, Zenon DEF PIDStep

\* A process that closes its PID file, or dies, leaves the others' alone.
LEMMA ReleasePID ==
  ASSUME DaemonType, PIDInv, NEW d \in Daemons, ReleaseFile(d),
         UNCHANGED <<scene, path, content>>,
         pc' = [pc EXCEPT ![d] = "down"]
  PROVE  PIDInv'
<1>1. ASSUME NEW e \in Daemons, e # d PROVE PIDInvOf(e)'
  <2>1. /\ fd'[e] = fd[e] /\ pc'[e] = pc[e] /\ (e \in named' <=> e \in named)
        /\ \A i \in Inodes : holder[i] = e => holder'[i] = e
        /\ fd[e] \in Inodes \cup {0}
    BY <1>1, Zenon DEF ReleaseFile, DaemonType
  <2>2. PIDInvOf(e) /\ scene' = scene /\ path' = path /\ content' = content
    BY Zenon DEF PIDInv
  <2> QED BY <2>1, <2>2, Zenon DEF PIDInvOf
<1>2. PIDInvOf(d)'
  <2>1. fd'[d] = 0 /\ pc'[d] = "down" /\ d \notin named'
    BY Zenon DEF ReleaseFile, DaemonType
  <2> QED BY <2>1, Zenon DEF PIDInvOf
<1> QED BY <1>1, <1>2, Zenon DEF PIDInv

\* The steps on the PID file keep what the processes rely on there.
LEMMA PIDStepPID ==
  ASSUME DaemonType, PIDInv, NEW d \in Daemons, PIDStep(d) PROVE PIDInv'
<1>0. /\ \A e \in Daemons : fd[e] \in Inodes \cup {0} /\ PIDInvOf(e)
      /\ pc \in [Daemons -> PCs] /\ fd \in [Daemons -> Inodes \cup {0}]
      /\ holder \in [Inodes -> Daemons \cup {NoDaemon}]
      /\ content \in [Inodes -> Daemons \cup {NoDaemon}]
      /\ path \in Inodes \cup {0}
  BY Zenon DEF DaemonType, PIDInv
<1>1. CASE OpenPIDFile(d)
  <2>1. /\ pc[d] = "down" /\ pc'[d] = "lock" /\ d \notin scene.foreground
        /\ \A e \in Daemons : e # d => pc'[e] = pc[e] /\ fd'[e] = fd[e]
        /\ fd'[d] = path' /\ scene' = scene /\ holder' = holder /\ named' = named
    BY <1>0, <1>1, Zenon DEF OpenPIDFile, Goto, Daemonized
  <2>2. CASE path # 0
    <3>1. path' = path /\ content' = content BY <1>1, <2>2, Zenon DEF OpenPIDFile
    <3>2. PIDInvOf(d)' BY <1>0, <2>1, <2>2, <3>1, Zenon DEF PIDInvOf
    <3>3. ASSUME NEW e \in Daemons, e # d PROVE PIDInvOf(e)'
      BY <1>0, <2>1, <3>1, <3>3, Zenon DEF PIDInvOf
    <3> QED BY <3>2, <3>3, Zenon DEF PIDInv
  <2>3. CASE path = 0
    <3>1. /\ path' \in Inodes /\ Unused(path')
          /\ content' = [content EXCEPT ![path'] = NoDaemon]
      BY <1>1, <2>3, Zenon DEF OpenPIDFile
    <3>2. /\ content'[path'] = NoDaemon /\ path' # 0
          /\ \A e \in Daemons : fd[e] # path'
          /\ \A i \in Inodes : i # path' => content'[i] = content[i]
      BY <1>0, <3>1, Constants, Zenon DEF Unused
    <3>3. PIDInvOf(d)' BY <1>0, <2>1, <2>3, <3>2, Constants, Zenon DEF PIDInvOf
    <3>4. ASSUME NEW e \in Daemons, e # d PROVE PIDInvOf(e)'
      BY <1>0, <2>1, <2>3, <3>2, <3>4, Constants DEF PIDInvOf
    <3> QED BY <3>3, <3>4, Zenon DEF PIDInv
  <2> QED BY <2>2, <2>3, Zenon
<1>2. CASE LockPIDFile(d)
  <2>1. /\ pc[d] = "lock" /\ pc'[d] = "write" /\ fd[d] \in Inodes
        /\ \A e \in Daemons : e # d => pc'[e] = pc[e] /\ (fd[e] # fd[d] \/ pc[e] = "lock")
        /\ scene' = scene /\ fd' = fd /\ path' = path
    BY <1>0, <1>2, Constants, Zenon DEF LockPIDFile, Goto, PIDInvOf
  <2>2. /\ holder[fd[d]] = NoDaemon /\ holder'[fd[d]] = d /\ content'[fd[d]] = NoDaemon
        /\ \A i \in Inodes : i # fd[d] => holder'[i] = holder[i] /\ content'[i] = content[i]
        /\ named' = IF path = fd[d] THEN named \cup {d} ELSE named
        /\ \A e \in Daemons : e # d => pc'[e] = pc[e]
    BY <1>0, <1>2, <2>1, Zenon DEF LockPIDFile, Goto
  <2>3. PIDInvOf(d)'
    BY <1>0, <2>1, <2>2, Constants, Zenon DEF PIDInvOf
  <2>4. ASSUME NEW e \in Daemons, e # d PROVE PIDInvOf(e)'
    <3>1. e \in named' <=> e \in named BY <2>2, <2>4, Zenon
    <3> QED BY <1>0, <2>1, <2>2, <2>4, <3>1, Constants DEF PIDInvOf
  <2> QED BY <2>3, <2>4, Zenon DEF PIDInv
<1>3. CASE AlreadyRunning(d)
  <2>1. /\ pc[d] = "lock" /\ pc'[d] = "down" /\ fd'[d] = 0
        /\ \A e \in Daemons : e # d => pc'[e] = pc[e] /\ fd'[e] = fd[e]
        /\ UNCHANGED <<scene, path, holder, content, named>>
    BY <1>0, <1>3, Zenon DEF AlreadyRunning, Goto
  <2>2. PIDInvOf(d)' BY <1>0, <2>1, Zenon DEF PIDInvOf
  <2>3. ASSUME NEW e \in Daemons, e # d PROVE PIDInvOf(e)'
    BY <1>0, <2>1, <2>3, Zenon DEF PIDInvOf
  <2> QED BY <2>2, <2>3, Zenon DEF PIDInv
<1>4. CASE WritePID(d)
  <2>1. /\ pc[d] = "write" /\ pc'[d] = "dirs" /\ fd[d] \in Inodes
        /\ \A e \in Daemons : e # d => pc'[e] = pc[e]
        /\ UNCHANGED <<scene, path, fd, holder, named>>
        /\ content'[fd[d]] = d
        /\ \A i \in Inodes : i # fd[d] => content'[i] = content[i]
    BY <1>0, <1>4, Zenon DEF WritePID, Goto, PIDInvOf
  <2>2. PIDInvOf(d)' BY <1>0, <2>1, Zenon DEF PIDInvOf
  <2>3. ASSUME NEW e \in Daemons, e # d PROVE PIDInvOf(e)'
    BY <1>0, <2>1, <2>3 DEF PIDInvOf
  <2> QED BY <2>2, <2>3, Zenon DEF PIDInv
<1>5. CASE WritePIDFails(d)
  BY <1>5, ReleasePID, Zenon DEF WritePIDFails, Goto
<1>6. CASE ClosePIDFile(d)
  <2>1. /\ pc[d] = "close" /\ d \notin scene.foreground
        /\ pc'[d] = IF OwnsPIDFile(d) THEN "unlink" ELSE "unlock"
        /\ \A e \in Daemons : e # d => pc'[e] = pc[e]
        /\ UNCHANGED <<scene, path, fd, holder, content, named>>
    BY <1>0, <1>6, Zenon DEF ClosePIDFile, Goto, pidVars
  <2>2. PIDInvOf(d)' BY <1>0, <2>1, Zenon DEF PIDInvOf, OwnsPIDFile
  <2>3. ASSUME NEW e \in Daemons, e # d PROVE PIDInvOf(e)'
    BY <1>0, <2>1, <2>3, Zenon DEF PIDInvOf
  <2> QED BY <2>2, <2>3, Zenon DEF PIDInv
<1>7. CASE RemovePIDFile(d)
  <2>1. /\ pc[d] = "unlink" /\ pc'[d] = "unlock" /\ path' = 0 /\ path = fd[d]
        /\ \A e \in Daemons : e # d => pc'[e] = pc[e]
        /\ UNCHANGED <<scene, fd, holder, content, named>>
    BY <1>0, <1>7, Zenon DEF RemovePIDFile, Goto, PIDInvOf
  <2>2. PIDInvOf(d)' BY <1>0, <2>1, Zenon DEF PIDInvOf
  <2>3. ASSUME NEW e \in Daemons, e # d PROVE PIDInvOf(e)'
    <3>1. holder[fd[d]] = d /\ fd[d] # 0 BY <1>0, <2>1, Zenon DEF PIDInvOf
    <3> QED BY <1>0, <2>1, <2>3, <3>1, Zenon DEF PIDInvOf
  <2> QED BY <2>2, <2>3, Zenon DEF PIDInv
<1>8. CASE Exit(d)
  BY <1>8, ReleasePID, Zenon DEF Exit, Goto
<1> QED BY <1>1, <1>2, <1>3, <1>4, <1>5, <1>6, <1>7, <1>8, Zenon DEF PIDStep

\* Moving between places that do nothing with the PID file keeps it as it is.
LEMMA OrdinaryMove ==
  ASSUME PIDInv, UNCHANGED <<scene, pidVars>>,
         \A d \in Daemons : pc'[d] = pc[d] \/ {pc[d], pc'[d]} \subseteq Ordinary
  PROVE  PIDInv'
<1> SUFFICES ASSUME NEW d \in Daemons PROVE PIDInvOf(d)'
  BY Zenon DEF PIDInv
<1>1. /\ PIDInvOf(d)
      /\ UNCHANGED <<scene, path, fd, holder, content, named>>
  BY Zenon DEF PIDInv, pidVars
<1>2. CASE pc'[d] = pc[d] BY <1>1, <1>2, Zenon DEF PIDInvOf
<1>3. CASE {pc[d], pc'[d]} \subseteq Ordinary
  BY <1>1, <1>3, Zenon DEF PIDInvOf, Ordinary, Owning
<1> QED BY <1>2, <1>3, Zenon

-----------------------------------------------------------------------------
(* The service.                                                            *)

\* Where a step of the service goes, and what it leaves alone.
LEMMA ServiceMoves ==
  ASSUME DaemonType, NEW d \in Daemons, ServiceStep(d)
  PROVE  /\ pc' \in [Daemons -> PCs] /\ pc' = [pc EXCEPT ![d] = pc'[d]]
         /\ {pc[d], pc'[d]} \subseteq Ordinary
         /\ UNCHANGED <<scene, pidVars, calls>>
<1>1. ASSUME NEW from \in Ordinary, NEW to \in Ordinary, Goto(d, from, to)
      PROVE  /\ pc' \in [Daemons -> PCs] /\ pc' = [pc EXCEPT ![d] = pc'[d]]
             /\ {pc[d], pc'[d]} \subseteq Ordinary
  BY <1>1 DEF DaemonType, Goto, Ordinary, Owning, PCs
<1>2. PICK from \in Ordinary, to \in Ordinary :
        Goto(d, from, to) /\ UNCHANGED <<scene, pidVars, calls>>
  <2>1. CASE MakeWorkDirs(d) \/ MakeWorkDirsFails(d) \/ OpenStore(d) \/ NewServiceFails(d)
    BY <2>1, Zenon DEF MakeWorkDirs, MakeWorkDirsFails, OpenStore, NewServiceFails,
                serviceVars, Ordinary, Owning
  <2>2. CASE Reconciled(d) \/ ReconcileFails(d) \/ Start(d) \/ StartFails(d)
    BY <2>2, Zenon DEF Reconciled, ReconcileFails, Start, StartFails,
                serviceVars, Ordinary, Owning
  <2>3. CASE DrainEnds(d) \/ AwaitReconcile(d) \/ Shutdown(d)
    BY <2>3, Zenon DEF DrainEnds, AwaitReconcile, Shutdown,
                serviceVars, Ordinary, Owning
  <2>4. CASE RemoveUnixSocket(d) \/ CloseStore(d) \/ Stop(d)
    BY <2>4, Zenon DEF RemoveUnixSocket, CloseStore, Stop,
                serviceVars, Ordinary, Owning
  <2> QED BY <2>1, <2>2, <2>3, <2>4, Zenon DEF ServiceStep
<1> QED BY <1>1, <1>2, Zenon

\* The steps of the service keep the types.
LEMMA ServiceType ==
  ASSUME DaemonType, NEW d \in Daemons, ServiceStep(d) PROVE DaemonType'
<1>1. /\ {socket', store'} \subseteq Daemons \cup {NoDaemon}
      /\ stopper' \in {stopper, NoDaemon}
      /\ loop' \in [Daemons -> {"off", "waiting", "pass"}]
  <2>1. CASE MakeWorkDirs(d) \/ MakeWorkDirsFails(d) \/ OpenStore(d) \/ NewServiceFails(d)
    BY <2>1, Zenon DEF MakeWorkDirs, MakeWorkDirsFails, OpenStore, NewServiceFails,
                serviceVars, DaemonType
  <2>2. CASE Reconciled(d) \/ ReconcileFails(d) \/ Start(d) \/ StartFails(d)
    BY <2>2, Zenon DEF Reconciled, ReconcileFails, Start, StartFails,
                serviceVars, DaemonType
  <2>3. CASE DrainEnds(d) \/ AwaitReconcile(d) \/ Shutdown(d)
    BY <2>3, Zenon DEF DrainEnds, AwaitReconcile, Shutdown,
                serviceVars, DaemonType
  <2>4. CASE RemoveUnixSocket(d) \/ CloseStore(d)
             \/ (Stop(d) /\ stopper' \in {stopper, NoDaemon})
    BY <2>4, Zenon DEF RemoveUnixSocket, CloseStore, Stop,
                serviceVars, DaemonType
  <2> QED BY <2>1, <2>2, <2>3, <2>4, Zenon DEF ServiceStep
<1> QED BY <1>1, ServiceMoves, Zenon DEF DaemonType, pidVars

\* An open stream has a daemon at its other end, whose place says it serves.
LEMMA StreamsServed ==
  ASSUME StoreInv, NEW d \in Daemons, store = d, pc[d] \notin {"serve", "drain"}
  PROVE  OpenStreams = {}
BY Zenon DEF StoreInv

\* The steps of the service keep what the database's users rely on.
LEMMA ServiceStore ==
  ASSUME DaemonType, StoreInv, NEW d \in Daemons, ServiceStep(d) PROVE StoreInv'
<1>0. /\ \A e \in Daemons : e # d => pc'[e] = pc[e]
      /\ calls' = calls /\ d # NoDaemon
      /\ \A e \in Daemons : pc[e] \in Owning <=> store = e
  BY ServiceMoves, Constants DEF DaemonType, StoreInv
<1>1. ASSUME UNCHANGED <<store, loop, eventVars>>,
             \/ {pc[d], pc'[d]} \subseteq Ordinary \ Owning
             \/ {pc[d], pc'[d]} \subseteq Owning \ {"serve", "drain", "await"}
             \/ pc[d] = "serve" /\ pc'[d] = "drain"
      PROVE  StoreInv'
  <2>1. OpenStreams' = OpenStreams BY <1>1, Zenon DEF OpenStreams, eventVars
  <2>2. CASE {pc[d], pc'[d]} \subseteq Ordinary \ Owning
    <3>1. store # d /\ calls[d] = {} /\ loop[d] = "off"
      BY <1>0, <2>2, Zenon DEF StoreInv, Ordinary, Owning
    <3> QED BY <1>0, <1>1, <2>1, <2>2, <3>1, Zenon DEF StoreInv
  <2>3. CASE {pc[d], pc'[d]} \subseteq Owning \ {"serve", "drain", "await"}
    <3>1. store = d /\ calls[d] = {} /\ loop[d] = "off" /\ OpenStreams = {}
      BY <1>0, <2>3, StreamsServed, Zenon DEF StoreInv
    <3> QED BY <1>0, <1>1, <2>1, <2>3, <3>1, Zenon DEF StoreInv
  <2>4. CASE pc[d] = "serve" /\ pc'[d] = "drain"
    <3>1. store = d BY <1>0, <2>4, Zenon DEF Owning
    <3> QED BY <1>0, <1>1, <2>1, <2>4, <3>1, Zenon DEF StoreInv, Owning
  <2> QED BY <1>1, <2>2, <2>3, <2>4, Zenon
<1>2. CASE MakeWorkDirs(d) \/ MakeWorkDirsFails(d) \/ NewServiceFails(d)
  <2>1. {pc[d], pc'[d]} \subseteq Ordinary \ Owning /\ UNCHANGED <<store, loop, eventVars>>
    BY <1>2, Zenon DEF MakeWorkDirs, MakeWorkDirsFails, NewServiceFails, Goto, serviceVars,
                Ordinary, Owning, DaemonType
  <2> QED BY <1>1, <2>1, Zenon
<1>3. CASE Reconciled(d) \/ StartFails(d) \/ Shutdown(d) \/ RemoveUnixSocket(d)
  <2>1. /\ {pc[d], pc'[d]} \subseteq Owning \ {"serve", "drain", "await"}
        /\ UNCHANGED <<store, loop, eventVars>>
    BY <1>3, Zenon DEF Reconciled, StartFails, Shutdown, RemoveUnixSocket, Goto, serviceVars,
                Owning, DaemonType
  <2> QED BY <1>1, <2>1, Zenon
<1>4. CASE Stop(d)
  <2>1. /\ pc[d] = "serve" /\ pc'[d] = "drain" /\ UNCHANGED <<store, loop, eventVars>>
    BY <1>4, Zenon DEF Stop, Goto, DaemonType
  <2> QED BY <1>1, <2>1, Zenon
<1>5. CASE OpenStore(d)
  <2>1. /\ pc[d] = "open" /\ pc'[d] = "reconcile" /\ store = NoDaemon /\ store' = d
        /\ loop' = loop /\ subscribers' = subscribers
    BY <1>5, Zenon DEF OpenStore, Goto, DaemonType, eventVars
  <2>2. OpenStreams' = {} BY <2>1, Constants, Zenon DEF StoreInv, OpenStreams
  <2>3. calls[d] = {} /\ loop[d] = "off" BY <2>1, Zenon DEF StoreInv
  <2> QED BY <1>0, <2>1, <2>2, <2>3, Constants, Zenon DEF StoreInv, Owning
<1>6. CASE ReconcileFails(d) \/ CloseStore(d)
  <2>1. /\ pc[d] \in {"reconcile", "closing"} /\ pc'[d] = "close"
        /\ store' = NoDaemon /\ loop' = loop
        /\ subscribers' \in {subscribers, [w \in Watchers |-> Off]}
    BY <1>6, Zenon DEF ReconcileFails, CloseStore, EventsEnd, Goto, DaemonType, eventVars
  <2>2. store = d /\ calls[d] = {} /\ loop[d] = "off"
    BY <1>0, <2>1, Zenon DEF StoreInv, Owning
  <2>3. OpenStreams = {} BY <2>1, <2>2, StreamsServed, Zenon
  <2>4. OpenStreams' = {} BY <2>1, <2>3, OffType, Zenon DEF OpenStreams
  <2> QED BY <1>0, <2>1, <2>2, <2>4, Constants, Zenon DEF StoreInv, Owning
<1>7. CASE Start(d)
  <2>1. /\ pc[d] = "listen" /\ pc'[d] = "serve" /\ store' = store
        /\ loop' = [loop EXCEPT ![d] = "waiting"] /\ subscribers' = subscribers
    BY <1>7, Zenon DEF Start, Goto, DaemonType, eventVars
  <2>2. /\ store = d /\ calls[d] = {}
        /\ \A e \in Daemons : e # d => loop'[e] = loop[e]
    BY <1>0, <2>1, Zenon DEF StoreInv, Owning, DaemonType
  <2>3. OpenStreams' = {} BY <2>1, <2>2, StreamsServed, Zenon DEF OpenStreams
  <2> QED BY <1>0, <2>1, <2>2, <2>3, Zenon DEF StoreInv, Owning
<1>8. CASE DrainEnds(d)
  <2>1. /\ pc[d] = "drain" /\ pc'[d] = "await" /\ UNCHANGED <<store, loop, subscribers>>
        /\ calls[d] = {} /\ OpenStreams = {}
    BY <1>8, Zenon DEF DrainEnds, Drained, Goto, DaemonType, serviceVars, eventVars
  <2>2. store = d /\ OpenStreams' = {} BY <1>0, <2>1, Zenon DEF Owning, OpenStreams
  <2> QED BY <1>0, <2>1, <2>2, Zenon DEF StoreInv, Owning
<1>9. CASE AwaitReconcile(d)
  <2>1. /\ pc[d] = "await" /\ pc'[d] = "shutdown" /\ UNCHANGED <<store, loop, subscribers>>
        /\ loop[d] = "off"
    BY <1>9, Zenon DEF AwaitReconcile, LoopDone, Goto, DaemonType, serviceVars, eventVars
  <2>2. store = d /\ calls[d] = {} BY <1>0, <2>1, Zenon DEF StoreInv, Owning
  <2>3. OpenStreams' = {} BY <2>1, <2>2, StreamsServed, Zenon DEF OpenStreams
  <2> QED BY <1>0, <2>1, <2>2, <2>3, Zenon DEF StoreInv, Owning
<1> QED BY <1>2, <1>3, <1>4, <1>5, <1>6, <1>7, <1>8, <1>9, Zenon DEF ServiceStep

-----------------------------------------------------------------------------
(* Steps on the PID file, seen from the database; a process's end; and the *)
(* steps beside them.                                                      *)

\* The steps on the PID file, and the start in the foreground, stay clear of
\* the database and of the events.
LEMMA OutsideMoves ==
  ASSUME DaemonType, NEW d \in Daemons, PIDStep(d) \/ RunForeground(d)
  PROVE  /\ UNCHANGED <<scene, socket, store, loop, calls, stopper, eventVars>>
         /\ pc[d] \notin Owning /\ pc'[d] \notin Owning
         /\ \A e \in Daemons : e # d => pc'[e] = pc[e]
<1>1. ASSUME NEW from \in PCs \ Owning, NEW to \in PCs \ Owning, Goto(d, from, to)
      PROVE  /\ pc[d] \notin Owning /\ pc'[d] \notin Owning
             /\ \A e \in Daemons : e # d => pc'[e] = pc[e]
  BY <1>1, GotoPC, Zenon
<1>2. {"down", "lock", "write", "dirs", "close", "unlink", "unlock"} \subseteq PCs \ Owning
  BY Zenon DEF PCs, Owning
<1>3. CASE OpenPIDFile(d) \/ RunForeground(d)
  BY <1>1, <1>2, <1>3, Zenon DEF OpenPIDFile, RunForeground, serviceVars
<1>4. CASE LockPIDFile(d) \/ AlreadyRunning(d)
  BY <1>1, <1>2, <1>4, Zenon DEF LockPIDFile, AlreadyRunning, serviceVars
<1>5. CASE WritePID(d) \/ WritePIDFails(d)
  BY <1>1, <1>2, <1>5, Zenon DEF WritePID, WritePIDFails, serviceVars
<1>6. CASE ClosePIDFile(d) \/ RemovePIDFile(d)
  BY <1>1, <1>2, <1>6, Zenon DEF ClosePIDFile, RemovePIDFile, serviceVars
<1>7. CASE Exit(d)
  BY <1>1, <1>2, <1>7, Zenon DEF Exit, serviceVars
<1> QED BY <1>3, <1>4, <1>5, <1>6, <1>7, Zenon DEF PIDStep

\* So they keep what the database's users rely on.
LEMMA OutsideStore ==
  ASSUME DaemonType, StoreInv, NEW d \in Daemons, PIDStep(d) \/ RunForeground(d)
  PROVE  StoreInv'
<1>1. /\ UNCHANGED <<store, loop, calls, subscribers>>
      /\ pc[d] \notin Owning /\ pc'[d] \notin Owning
      /\ \A e \in Daemons : e # d => pc'[e] = pc[e]
  BY OutsideMoves, Zenon DEF eventVars
<1>2. store # d /\ calls[d] = {} /\ loop[d] = "off"
  BY <1>1, Zenon DEF StoreInv, Owning
<1>3. OpenStreams' = OpenStreams BY <1>1, Zenon DEF OpenStreams
<1> QED BY <1>1, <1>2, <1>3, Zenon DEF StoreInv

\* The start in the foreground has no PID file.
LEMMA ForegroundStep ==
  ASSUME DaemonType, PIDInv, NEW d \in Daemons, RunForeground(d)
  PROVE  DaemonType' /\ PIDInv'
<1>1. /\ pc' \in [Daemons -> PCs] /\ pc[d] = "down" /\ pc'[d] = "dirs"
      /\ \A e \in Daemons : e # d => pc'[e] = pc[e]
      /\ d \in scene.foreground
      /\ UNCHANGED <<scene, pidVars, serviceVars, stopper>>
  BY GotoPC, Zenon DEF RunForeground, PCs
<1>2. DaemonType' BY <1>1, Zenon DEF DaemonType, pidVars, serviceVars
<1>3. UNCHANGED <<scene, path, fd, holder, content, named>>
  BY <1>1, Zenon DEF pidVars
<1>4. \A e \in Daemons : PIDInvOf(e) BY Zenon DEF PIDInv
<1>5. PIDInvOf(d)' BY <1>1, <1>3, <1>4, Zenon DEF PIDInvOf
<1>6. ASSUME NEW e \in Daemons, e # d PROVE PIDInvOf(e)'
  BY <1>1, <1>3, <1>4, <1>6, Zenon DEF PIDInvOf
<1> QED BY <1>2, <1>5, <1>6, Zenon DEF PIDInv

\* The end of a manager leaves nothing of its events.
LEMMA EndEvents == EventsEnd => EventsInv'
<1>1. EventsEnd => EventsInit' BY Zenon DEF EventsEnd, EventsInit
<1>2. EventsInit' => EventsInv' BY InitEvents, PTL
<1> QED BY <1>1, <1>2, Zenon

\* A process's death releases all it had.
LEMMA DieStep ==
  ASSUME Inv, NEW d \in Daemons, Die(d), stopper' \in {stopper, NoDaemon}
  PROVE  Inv'
<1>0. DaemonType /\ PIDInv /\ StoreInv /\ EventsInv BY Zenon DEF Inv
<1>1. /\ pc' \in [Daemons -> PCs] /\ pc'[d] = "down"
      /\ \A e \in Daemons : e # d => pc'[e] = pc[e]
  BY <1>0, Zenon DEF Die, DaemonType, PCs
<1>2. DaemonType'
  BY <1>0, <1>1 DEF Die, ReleaseFile, DaemonType
<1>3. PIDInv'
  BY <1>0, ReleasePID, Zenon DEF Die
<1>4. EventsInv'
  <2>1. CASE store = d BY <2>1, EndEvents, Zenon DEF Die
  <2>2. CASE store # d
    <3>1. UNCHANGED eventVars BY <2>2, Zenon DEF Die
    <3> QED BY <1>0, <3>1 DEF eventVars, EventsInv, EventsTypeOK, PublicationInv,
                             SubscriberInv, Knows, matches, Due
  <2> QED BY <2>1, <2>2, Zenon
<1>5. StoreInv'
  <2>1. /\ store' = IF store = d THEN NoDaemon ELSE store
        /\ loop'[d] = "off" /\ calls'[d] = {}
        /\ \A e \in Daemons : e # d => loop'[e] = loop[e] /\ calls'[e] = calls[e]
        /\ subscribers' = IF store = d THEN [w \in Watchers |-> Off] ELSE subscribers
    BY <1>0, Zenon DEF Die, DaemonType, EventsEnd, eventVars
  <2>2. OpenStreams' = IF store = d THEN {} ELSE OpenStreams
    BY <2>1, OffType, Zenon DEF OpenStreams
  <2>3. \A e \in Daemons : pc'[e] \in Owning <=> store' = e
    BY <1>0, <1>1, <2>1, Constants, Zenon DEF StoreInv, Owning
  <2> QED BY <1>0, <1>1, <2>1, <2>2, <2>3, Zenon DEF StoreInv
<1> QED BY <1>2, <1>3, <1>4, <1>5, Zenon DEF Inv

\* The event steps keep the events' invariant, and open a stream only at a
\* daemon that serves.
LEMMA EventsKept ==
  ASSUME DaemonType, EventsInv, EventStep
  PROVE  /\ EventsInv'
         /\ \/ OpenStreams' \subseteq OpenStreams
            \/ \E d \in Daemons : store = d /\ pc[d] = "serve"
<1>0. scene.watchers \subseteq Watchers /\ scene.mounts \subseteq IDs
  BY Constants, Zenon DEF DaemonType
<1>1. CASE Change(scene.mounts)
  <2>1. subscribers' = subscribers
    BY <1>1, Zenon DEF Change, Register, CreateFails, Remove, Transition
  <2>2. EventsInv' BY <1>0, <1>1, ChangeStep, Zenon
  <2> QED BY <2>1, <2>2, Zenon DEF OpenStreams
<1>2. CASE Publishing
  <2>1. \A w \in Watchers : subscribers'[w].pc = subscribers[w].pc
    <3> PICK m \in IDs, role \in Roles : snapshot(m, role) \/ publishMountEvent(m, role)
      BY <1>2, Zenon DEF Publishing
    <3>1. CASE snapshot(m, role) BY <3>1, Zenon DEF snapshot
    <3>2. CASE publishMountEvent(m, role)
      <4> SUFFICES ASSUME NEW w \in Watchers PROVE subscribers'[w].pc = subscribers[w].pc
        OBVIOUS
      <4>1. subscribers'[w] = Send(subscribers[w], publication[m][role].event)
        BY <3>2, Zenon DEF publishMountEvent
      <4>2. publication[m][role].event \in Events
        BY <3>2 DEF publishMountEvent, EventsInv, EventsTypeOK, Publications, Quiet, Changed
      <4>3. subscribers[w] \in Subscribers /\ Len(subscribers[w].queue) <= Capacity
        BY Zenon DEF EventsInv, EventsTypeOK
      <4> QED BY <4>1, <4>2, <4>3, SendFacts
    <3> QED BY <3>1, <3>2, Zenon
  <2>2. EventsInv' BY <1>2, PublishStep, Zenon
  <2> QED BY <2>1, <2>2, Zenon DEF OpenStreams
<1>3. ASSUME NEW w \in scene.watchers, Open(w)
      PROVE  EventsInv' /\ \E d \in Daemons : store = d /\ pc[d] = "serve"
  BY <1>0, <1>3, WatchStep, Zenon DEF Open, Working
<1>4. ASSUME NEW w \in scene.watchers, Leave(w) \/ Stream(w)
      PROVE  EventsInv' /\ OpenStreams' \subseteq OpenStreams
  <2>1. EventsInv' BY <1>0, <1>4, StreamStep, Zenon
  <2>2. w \in Watchers /\ subscribers[w].pc # "off"
    BY <1>0, <1>4, Zenon DEF Leave, Stream, snapshotMounts, queueSnapshots, Receive,
                      CancelSubscription
  <2>3. ASSUME NEW x \in Watchers, x # w PROVE subscribers'[x] = subscribers[x]
    <3>1. subscribers \in [Watchers -> Subscribers] BY Zenon DEF EventsInv, EventsTypeOK
    <3> QED BY <1>4, <2>2, <2>3, <3>1, Zenon DEF Leave, Stream, snapshotMounts, queueSnapshots,
                                         Receive, CancelSubscription
  <2> QED BY <2>1, <2>2, <2>3, Zenon DEF OpenStreams
<1> QED BY <1>1, <1>2, <1>3, <1>4, Zenon DEF EventStep

\* The steps beside them keep the invariant.
LEMMA BackgroundKept == ASSUME Inv, BackgroundStep PROVE Inv'
<1>0. /\ DaemonType /\ PIDInv /\ StoreInv /\ EventsInv
      /\ UNCHANGED <<scene, pc, pidVars, socket, store>>
  BY Zenon DEF Inv, BackgroundStep
<1>1. PIDInv' BY <1>0, OrdinaryMove, Zenon
<1>2. ASSUME UNCHANGED eventVars PROVE EventsInv' /\ OpenStreams' = OpenStreams
  BY <1>0, <1>2 DEF eventVars, EventsInv, EventsTypeOK, PublicationInv,
                    SubscriberInv, Knows, matches, Due, OpenStreams
<1>3. ASSUME NEW d \in Daemons, Tick(d) \/ PassEnds(d) \/ LoopEnds(d) PROVE Inv'
  <2>1. /\ loop[d] # "off" /\ loop' \in [Daemons -> {"off", "waiting", "pass"}]
        /\ \A e \in Daemons : e # d => loop'[e] = loop[e]
        /\ UNCHANGED <<calls, stopper, eventVars>>
    BY <1>0, <1>3, Zenon DEF Tick, PassEnds, LoopEnds, LoopMoves, DaemonType
  <2>2. DaemonType' BY <1>0, <2>1, Zenon DEF DaemonType, pidVars
  <2>3. StoreInv' BY <1>0, <1>2, <2>1, Zenon DEF StoreInv
  <2> QED BY <1>1, <1>2, <2>1, <2>2, <2>3, Zenon DEF Inv
<1>4. ASSUME NEW d \in Daemons, NEW c \in scene.callers, BeginCall(d, c) \/ EndCall(d, c)
      PROVE  Inv'
  <2>1. c \in Callers BY <1>0, Constants, Zenon DEF DaemonType
  <2>2. /\ pc[d] = "serve" \/ calls[d] # {}
        /\ calls' \in [Daemons -> SUBSET Callers]
        /\ \A e \in Daemons : e # d => calls'[e] = calls[e]
        /\ UNCHANGED <<loop, stopper, eventVars>>
    BY <1>0, <1>4, <2>1 DEF BeginCall, EndCall, DaemonType
  <2>3. DaemonType' BY <1>0, <2>2, Zenon DEF DaemonType, pidVars
  <2>4. StoreInv' BY <1>0, <1>2, <2>2, Zenon DEF StoreInv
  <2> QED BY <1>1, <1>2, <2>2, <2>3, <2>4, Zenon DEF Inv
<1>5. ASSUME stopper' \in {stopper, NoDaemon}
                            \cup (IF path = 0 THEN {} ELSE {content[path]}),
             UNCHANGED <<loop, calls, eventVars>>
      PROVE  Inv'
  <2>1. stopper' \in Daemons \cup {NoDaemon} BY <1>0, <1>5, Zenon DEF DaemonType
  <2>2. DaemonType' BY <1>0, <1>5, <2>1, Zenon DEF DaemonType, pidVars
  <2>3. StoreInv' BY <1>0, <1>2, <1>5, Zenon DEF StoreInv
  <2> QED BY <1>1, <1>2, <1>5, <2>2, <2>3, Zenon DEF Inv
<1>6. ASSUME EventStep PROVE Inv'
  <2>1. UNCHANGED daemonVars BY <1>6, Zenon DEF EventStep
  <2>2. UNCHANGED <<loop, calls, stopper>> BY <2>1, Zenon DEF daemonVars, serviceVars
  <2>3. DaemonType' BY <1>0, <2>2, Zenon DEF DaemonType, pidVars
  <2>4. StoreInv' BY <1>0, <1>6, <2>2, EventsKept, Zenon DEF StoreInv
  <2> QED BY <1>0, <1>1, <1>6, <2>3, <2>4, EventsKept, Zenon DEF Inv
<1> QED BY <1>3, <1>4, <1>5, <1>6, Zenon DEF BackgroundStep

-----------------------------------------------------------------------------
(* The theorems.                                                           *)

\* A step that leaves the events alone keeps their invariant.
LEMMA EventsFrame == ASSUME EventsInv, UNCHANGED eventVars PROVE EventsInv'
BY DEF eventVars, EventsInv, EventsTypeOK, PublicationInv, SubscriberInv, Knows,
       matches, Due

\* The steps of the service leave the events alone, or end them.
LEMMA ServiceEvents ==
  ASSUME EventsInv, NEW d \in Daemons, ServiceStep(d) PROVE EventsInv'
<1>1. UNCHANGED eventVars \/ EventsEnd
  BY Zenon DEF ServiceStep, MakeWorkDirs, MakeWorkDirsFails, OpenStore, NewServiceFails,
         Reconciled, ReconcileFails, Start, StartFails, DrainEnds, AwaitReconcile,
         Shutdown, RemoveUnixSocket, CloseStore, Stop
<1> QED BY <1>1, EventsFrame, EndEvents, Zenon

\* The invariant holds at first.
LEMMA InitInv == Init => Inv
<1> SUFFICES ASSUME Init PROVE Inv OBVIOUS
<1>1. DaemonType BY Zenon DEF Init, DaemonType, PCs
<1>2. PIDInv BY Zenon DEF Init, PIDInv, PIDInvOf
<1>3. StoreInv
  <2>1. OpenStreams = {} BY OffType, Zenon DEF Init, EventsInit, OpenStreams
  <2> QED BY <2>1, Constants, Zenon DEF Init, StoreInv, Owning
<1>4. EventsInv BY InitEvents, Zenon DEF Init
<1> QED BY <1>1, <1>2, <1>3, <1>4, Zenon DEF Inv

\* Every step keeps it.
LEMMA NextInv == Inv /\ [Next]_vars => Inv'
<1> SUFFICES ASSUME Inv, [Next]_vars PROVE Inv' OBVIOUS
<1>0. DaemonType /\ PIDInv /\ StoreInv /\ EventsInv BY Zenon DEF Inv
<1>1. CASE Next
  <2>1. CASE BackgroundStep BY <2>1, BackgroundKept, Zenon
  <2>2. ASSUME NEW d \in Daemons, PIDStep(d) PROVE Inv'
    <3>1. EventsInv' BY <1>0, <2>2, OutsideMoves, EventsFrame, Zenon
    <3> QED BY <1>0, <2>2, <3>1, PIDStepType, PIDStepPID, OutsideStore, Zenon DEF Inv
  <2>3. ASSUME NEW d \in Daemons, RunForeground(d) PROVE Inv'
    <3>1. EventsInv' BY <1>0, <2>3, OutsideMoves, EventsFrame, Zenon
    <3> QED BY <1>0, <2>3, <3>1, ForegroundStep, OutsideStore, Zenon DEF Inv
  <2>4. ASSUME NEW d \in Daemons, ServiceStep(d) PROVE Inv'
    <3>1. PIDInv'
      <4>1. \A e \in Daemons : pc'[e] = pc[e] \/ {pc[e], pc'[e]} \subseteq Ordinary
        BY <1>0, <2>4, ServiceMoves, Zenon DEF DaemonType
      <4> QED BY <1>0, <2>4, <4>1, ServiceMoves, OrdinaryMove, Zenon
    <3> QED BY <1>0, <2>4, <3>1, ServiceType, ServiceStore, ServiceEvents, Zenon DEF Inv
  <2>5. ASSUME NEW d \in Daemons, Die(d), stopper' \in {stopper, NoDaemon} PROVE Inv'
    BY <2>5, DieStep, Zenon
  <2> QED BY <1>0, <1>1, <2>1, <2>2, <2>3, <2>4, <2>5, StepKinds, Zenon
<1>2. CASE UNCHANGED vars
  <2>1. /\ UNCHANGED <<scene, pc, pidVars, socket, store, loop, calls, stopper>>
        /\ UNCHANGED eventVars
    BY <1>2, Zenon DEF vars, daemonVars, serviceVars
  <2>2. DaemonType' BY <1>0, <2>1, Zenon DEF DaemonType, pidVars
  <2>3. PIDInv' BY <1>0, <2>1, OrdinaryMove, Zenon
  <2>4. OpenStreams' = OpenStreams BY <2>1, Zenon DEF OpenStreams, eventVars
  <2>5. StoreInv' BY <1>0, <2>1, <2>4, Zenon DEF StoreInv
  <2> QED BY <1>0, <2>1, <2>2, <2>3, <2>5, EventsFrame, Zenon DEF Inv
<1> QED BY <1>1, <1>2, Zenon

\* Inv is an invariant of the daemons' life.
THEOREM InvHolds == Spec => []Inv
BY InitInv, NextInv, PTL DEF Spec

\* The types are kept (TypeOK).
THEOREM TypeCorrect == Spec => []TypeOK
<1>1. Inv => TypeOK BY Zenon DEF Inv, DaemonType, EventsInv, TypeOK
<1> QED BY <1>1, InvHolds, PTL

\* Startup reconciliation, requests, the reconcile loop, event streams and
\* Shutdown run only in the process that has the database open, so no two
\* processes manage mounts (service.Stop, Release).
THEOREM StoreIsOpen == Spec => []UsesOpenStore
<1>1. Inv => UsesOpenStore
  <2> SUFFICES ASSUME Inv PROVE UsesOpenStore OBVIOUS
  <2>1. ASSUME NEW d \in Daemons,
               \/ pc[d] \in {"reconcile", "listen", "serve", "drain", "await", "shutdown"}
               \/ calls[d] # {} \/ loop[d] # "off"
        PROVE  store = d
    <3>1. pc[d] \in Owning BY <2>1, Zenon DEF Inv, StoreInv, Owning
    <3> QED BY <3>1, Zenon DEF Inv, StoreInv
  <2>2. OpenStreams # {} => AtWork BY Zenon DEF Inv, StoreInv, AtWork, Working
  <2> QED BY <2>1, <2>2, Zenon DEF UsesOpenStore
<1> QED BY <1>1, InvHolds, PTL

\* The PID file that a daemon locked under its name stays at its path, with the
\* daemon's PID, until the daemon removes it (AcquirePIDFile, PIDFile.Close).
THEOREM PIDFileStays == Spec => []PIDFileKept
<1>1. Inv => PIDFileKept
  BY Zenon DEF Inv, DaemonType, PIDInv, PIDInvOf, PIDFileKept
<1> QED BY <1>1, InvHolds, PTL

\* A subscriber that asked for the current mounts and lost no event has been
\* sent the latest published change of each (SubscribeMountEvents).
THEOREM StreamsCaughtUp == Spec => []CaughtUp
<1>1. Inv => CaughtUp BY InvCaughtUp, Zenon DEF Inv
<1> QED BY <1>1, InvHolds, PTL

\* A daemon that stops never removes the socket another one listens on
\* (removeUnixSocket before the database is closed).
THEOREM SocketSpared == Spec => CleanupSparesOthers
<1> DEFINE Spared == \A d \in Daemons :
       (pc[d] = "serve" /\ pc'[d] = "serve" /\ socket = d /\ socket' # d)
       => \E e \in Daemons : pc[e] = "dirs" /\ pc'[e] # "dirs"
<1>1. Inv /\ [Next]_vars => [Spared]_vars
  <2> SUFFICES ASSUME Inv, Next, NEW d \in Daemons, pc[d] = "serve",
                      pc'[d] = "serve", socket = d, socket' # d
               PROVE  \E e \in Daemons : pc[e] = "dirs" /\ pc'[e] # "dirs"
    OBVIOUS
  <2>0. DaemonType /\ StoreInv /\ store = d /\ d # NoDaemon
    BY Constants, Zenon DEF Inv, StoreInv, Owning
  <2>1. PICK e \in Daemons : ServiceStep(e)
    <3>1. ~BackgroundStep BY Zenon DEF BackgroundStep
    <3>2. ASSUME NEW e \in Daemons, PIDStep(e) \/ RunForeground(e) PROVE FALSE
      BY <2>0, <3>2, OutsideMoves, Zenon
    <3>3. ASSUME NEW e \in Daemons, Die(e) PROVE FALSE
      BY <3>3, Zenon DEF Die
    <3> QED BY <2>0, <3>1, <3>2, <3>3, StepKinds, Zenon
  <2>2. ASSUME MakeWorkDirs(e) \/ MakeWorkDirsFails(e)
        PROVE  pc[e] = "dirs" /\ pc'[e] # "dirs"
    BY <2>0, <2>2, Zenon DEF MakeWorkDirs, MakeWorkDirsFails, Goto, DaemonType
  <2>3. ASSUME RemoveUnixSocket(e) \/ Stop(e) PROVE FALSE
    <3>1. pc[e] \in Owning BY <2>3, Zenon DEF RemoveUnixSocket, Stop, Goto, Owning
    <3>2. e = d BY <2>0, <3>1, Zenon DEF StoreInv
    <3> QED BY <2>0, <2>3, <3>2, Zenon DEF RemoveUnixSocket, Stop, Goto, DaemonType
  <2>4. ASSUME \/ OpenStore(e) \/ NewServiceFails(e) \/ Reconciled(e)
               \/ ReconcileFails(e) \/ Start(e) \/ StartFails(e)
               \/ DrainEnds(e) \/ AwaitReconcile(e) \/ Shutdown(e) \/ CloseStore(e)
        PROVE  FALSE
    BY <2>0, <2>4, Zenon DEF OpenStore, NewServiceFails, Reconciled, ReconcileFails, Start,
         StartFails, DrainEnds, AwaitReconcile, Shutdown, CloseStore, serviceVars
  <2> QED BY <2>1, <2>2, <2>3, <2>4, Zenon DEF ServiceStep
<1>2. CleanupSparesOthers <=> [][Spared]_vars BY Zenon DEF CleanupSparesOthers
<1> QED BY <1>1, <1>2, InvHolds, PTL DEF Spec
=============================================================================
