----------------------------- MODULE ManagedMount -----------------------------
(***************************************************************************)
(* What the daemon promises about one mount, whichever goroutines, timers  *)
(* and callers work on it and whatever fails: a client process is started  *)
(* only for a mount that is recorded, that nobody is unmounting and whose  *)
(* last process is over; its files and then its record go away only when   *)
(* no process is left; the attempts of a mount, and those of an unmount,   *)
(* are counted; after its removal only what is left behind is cleaned up.  *)
(***************************************************************************)
EXTENDS Naturals

CONSTANT MaxAttempts  \* config.Retry.MaxAttempts

VARIABLES
  phase,       \* "absent", "managed", "removed", or "down" with the daemon
  unmounting,  \* an unmount has been accepted
  attempt,     \* the attempts made at the current intent
  running,     \* the mount's client process runs, and was not told to stop
  recorded,    \* the repository has a record of the mount
  files        \* the mount has a data directory

vars == <<phase, unmounting, attempt, running, recorded, files>>

Init ==
  /\ phase = "absent"
  /\ unmounting = FALSE
  /\ attempt = 1
  /\ running = FALSE
  /\ recorded = FALSE
  /\ files = FALSE

\* A mount is requested, or taken up again from its record.
Register ==
  /\ \/ phase = "absent" /\ attempt' = 1
     \/ phase = "down" /\ recorded /\ attempt' \in 1 .. MaxAttempts
  /\ phase' = "managed"
  /\ unmounting' = FALSE
  /\ UNCHANGED <<running, recorded, files>>

\* The mount has no process and may get one.
CanStart == phase = "managed" /\ ~unmounting /\ ~running

Record ==
  /\ CanStart
  /\ recorded' = TRUE
  /\ UNCHANGED <<phase, unmounting, attempt, running, files>>

MakeFiles ==
  /\ CanStart
  /\ recorded
  /\ files' = TRUE
  /\ UNCHANGED <<phase, unmounting, attempt, running, recorded>>

Start ==
  /\ CanStart
  /\ recorded
  /\ running' = TRUE
  /\ files' = TRUE
  /\ UNCHANGED <<phase, unmounting, attempt, recorded>>

\* The process exits, or is killed.
End ==
  /\ running
  /\ running' = FALSE
  /\ UNCHANGED <<phase, unmounting, attempt, recorded, files>>

\* One more attempt to mount, or to unmount.
Retry ==
  /\ CanStart \/ (phase = "managed" /\ unmounting)
  /\ recorded
  /\ attempt < MaxAttempts
  /\ attempt' = attempt + 1
  /\ UNCHANGED <<phase, unmounting, running, recorded, files>>

AcceptUnmount ==
  /\ phase = "managed"
  /\ unmounting' = TRUE
  /\ attempt' = IF unmounting THEN attempt ELSE 1
  /\ UNCHANGED <<phase, running, recorded, files>>

\* The unmount could not be made durable.
TakeBackUnmount ==
  /\ phase = "managed" /\ unmounting
  /\ unmounting' = FALSE
  /\ UNCHANGED <<phase, attempt, running, recorded, files>>

RemoveFiles ==
  /\ phase = "managed" /\ ~running
  /\ files' = FALSE
  /\ UNCHANGED <<phase, unmounting, attempt, running, recorded>>

\* Nothing is left of an unmounted mount.
Gone == phase = "managed" /\ unmounting /\ ~running /\ ~files

DeleteRecord ==
  /\ Gone
  /\ recorded' = FALSE
  /\ UNCHANGED <<phase, unmounting, attempt, running, files>>

Remove ==
  /\ Gone
  /\ phase' = "removed"
  /\ UNCHANGED <<unmounting, attempt, running, recorded, files>>

\* The daemon starts, or cleans up after a mount that it does not manage: the
\* files go before the record.
Reconcile ==
  /\ phase # "managed" /\ ~running
  /\ phase' = IF phase = "down" THEN "absent" ELSE phase
  /\ \/ UNCHANGED <<files, recorded>>
     \/ recorded /\ files' = FALSE /\ recorded' \in {recorded, FALSE}
  /\ UNCHANGED <<unmounting, attempt, running>>

\* The daemon is gone, and with it what it knew of the mount.
Exit ==
  /\ phase' = "down"
  /\ unmounting' = FALSE
  /\ attempt' = 1
  /\ running' = FALSE
  /\ UNCHANGED <<recorded, files>>

Next ==
  \/ Register \/ Record \/ MakeFiles \/ Start \/ End \/ Retry
  \/ AcceptUnmount \/ TakeBackUnmount \/ RemoveFiles \/ DeleteRecord \/ Remove
  \/ Reconcile \/ Exit

Spec == Init /\ [][Next]_vars
====
