------------------------------- MODULE MCDaemon -------------------------------
(***************************************************************************)
(* Four small instances of Daemon in one run: two processes that start,   *)
(* stop and crash over one PID file and one database, the second one in    *)
(* the foreground or not; and one process with a watcher, or with a client *)
(* that waits for its mount.                                               *)
(***************************************************************************)
EXTENDS Daemon

CONSTANTS d1, d2, watcher, waiter

\* Two processes, with requests and the reconcile loop at work.
Processes(foreground) ==
  [daemons |-> {d1, d2}, foreground |-> foreground, callers |-> Callers,
   watchers |-> {}, mounts |-> {}, changes |-> 0]

\* One process whose events are watched.
Streams(client, bound) ==
  [daemons |-> {d1}, foreground |-> {d1}, callers |-> {}, watchers |-> {client},
   mounts |-> IDs, changes |-> bound]

MCScenes ==
  {Processes({}), Processes({d2}),
   Streams(watcher, 3), Streams(waiter, 4)}
=============================================================================
