---------------------------- MODULE PathOwnership ----------------------------
(***************************************************************************)
(* What the daemon promises about mount paths, across calls, failures and  *)
(* restarts: a path belongs to one mount at a time, a mount has one path,  *)
(* and only a mount that somebody asked to unmount gives its path up.      *)
(***************************************************************************)
EXTENDS Naturals

CONSTANTS
  IDs,    \* mount IDs
  Paths,  \* mount paths
  NoID    \* the owner of a free path

VARIABLES
  owner,  \* the mount that each path belongs to
  asked   \* the mounts that somebody asked to unmount

vars == <<owner, asked>>

Init ==
  /\ owner = [p \in Paths |-> NoID]
  /\ asked = {}

OwnsNothing(id) == \A p \in Paths : owner[p] # id

Claim(id, p) ==
  /\ id \notin asked
  /\ OwnsNothing(id)
  /\ owner[p] = NoID
  /\ owner' = [owner EXCEPT ![p] = id]
  /\ UNCHANGED asked

AskUnmount(id) ==
  /\ asked' = asked \cup {id}
  /\ UNCHANGED owner

Release(id, p) ==
  /\ id \in asked
  /\ owner[p] = id
  /\ owner' = [owner EXCEPT ![p] = NoID]
  /\ UNCHANGED asked

Next == \E id \in IDs :
  \/ AskUnmount(id)
  \/ \E p \in Paths : Claim(id, p) \/ Release(id, p)

Spec == Init /\ [][Next]_vars
====
