----------------------------- MODULE MountClient -----------------------------
(***************************************************************************)
(* The Go client of the daemon (client/client.go): API calls of several    *)
(* goroutines over one shared connection, the reconnection that a call     *)
(* starts when the daemon is unavailable, the loop that goes on with it in *)
(* the background, and the goroutine that connects and disconnects.        *)
(*                                                                         *)
(* A step is one atomic operation, one critical section of client.mutex or *)
(* of bgCancelMu, or one event of a gRPC connection.                       *)
(***************************************************************************)
EXTENDS Naturals, FiniteSets

CONSTANTS
  Callers,         \* goroutines that call the API
  AutoReconnect,   \* the client's autoReconnect option
  NoConn,          \* no gRPC connection
  MaxConns,        \* bound: gRPC connections in use at once
  MaxCalls,        \* bound: API calls
  MaxDisconnects   \* bound: calls of Disconnect

ASSUME ClientAssumption ==
  /\ AutoReconnect \in BOOLEAN
  /\ MaxConns \in Nat
  /\ NoConn \notin 1 .. MaxConns
  /\ MaxCalls \in Nat
  /\ MaxDisconnects \in Nat

VARIABLES
  connected, connection,  \* client.connected, client.grpcConnection
  open,            \* the gRPC connections that are not closed
  reconnectingFlag,
  reconnectSequence,
  bgCancel,        \* the loop that bgCancel cancels, 0 for nil
  done,            \* the loops whose context is cancelled or has timed out
  call,            \* what each caller is doing
  loop,            \* what each background loop is doing
  owner,           \* what the goroutine that disconnects is doing
  answered,        \* the callers whose current request the daemon answered
  calls, disconnects

flagVars == <<reconnectingFlag, reconnectSequence, bgCancel, done>>
connVars == <<connected, connection, open>>
vars == <<connVars, flagVars, call, loop, owner, answered, calls,
          disconnects>>

-----------------------------------------------------------------------------
Conns == 1 .. MaxConns
Loops == 1 .. MaxCalls + MaxDisconnects
Operations == {"ready", "other"}

IdleCall == [pc |-> "idle", op |-> "other", conn |-> NoConn, new |-> NoConn,
             again |-> FALSE, sequence |-> 0]
NoLoop == [pc |-> "none", conn |-> NoConn]

Init ==
  /\ connected = FALSE
  /\ connection = NoConn
  /\ open = {}
  /\ reconnectingFlag = 0
  /\ reconnectSequence = 0
  /\ bgCancel = 0
  /\ done = {}
  /\ call = [c \in Callers |-> IdleCall]
  /\ loop = [s \in Loops |-> NoLoop]
  /\ owner = [pc |-> "idle", conn |-> NoConn]
  /\ answered = {}
  /\ calls = 0
  /\ disconnects = 0

\* newConnection.  A connection has a number that nothing else refers to.
InUse ==
  open \cup {connection, owner.conn} \cup {loop[s].conn : s \in Loops}
       \cup {call[c].conn : c \in Callers} \cup {call[c].new : c \in Callers}
CanDial == Conns \ InUse # {}
newConnection == CHOOSE k \in Conns \ InUse : TRUE

-----------------------------------------------------------------------------
(* What the daemon answers.                                                *)

Errors == {"canceled", "deadline", "lazyUnmount", "notFound", "idConflict",
           "pathConflict", "limit", "invalid", "other"}

\* Mutated: an error without a code of its own is reported as Unavailable.
InternalIsUnavailable(error) ==
  CASE error = "canceled" -> "Canceled"
    [] error \in {"deadline", "lazyUnmount"} -> "DeadlineExceeded"
    [] error = "notFound" -> "NotFound"
    [] error \in {"idConflict", "pathConflict"} -> "AlreadyExists"
    [] error = "limit" -> "ResourceExhausted"
    [] error = "invalid" -> "InvalidArgument"
    [] OTHER -> "Unavailable"
mountStatusError(error) ==
  CASE error = "canceled" -> "Canceled"
    [] error \in {"deadline", "lazyUnmount"} -> "DeadlineExceeded"
    [] error = "notFound" -> "NotFound"
    [] error \in {"idConflict", "pathConflict"} -> "AlreadyExists"
    [] error = "limit" -> "ResourceExhausted"
    [] error = "invalid" -> "InvalidArgument"
    [] OTHER -> "Internal"

\* Ready has one answer of its own.
Answers(op) ==
  IF op = "ready" THEN {"OK", "Unavailable"}
  ELSE {"OK"} \cup {mountStatusError(error) : error \in Errors}

isTransportError(code) == code = "Unavailable"

-----------------------------------------------------------------------------
(* doWithReconnect: the request.                                           *)

Goto(c, pc) == call' = [call EXCEPT ![c].pc = pc]
Return(c) == call' = [call EXCEPT ![c] = IdleCall]

\* A call that begins while a reconnection is in progress fails at once.
Begin(c, op) ==
  /\ call[c].pc = "idle"
  /\ calls < MaxCalls
  /\ reconnectingFlag = 0
  /\ call' = [call EXCEPT ![c] = [IdleCall EXCEPT !.pc = "load", !.op = op]]
  /\ calls' = calls + 1
  /\ answered' = answered \ {c}
  /\ UNCHANGED <<connVars, flagVars, loop, owner, disconnects>>

\* The request failed with this code: return it, or go on to reconnect.
Failed(c, code) ==
  IF isTransportError(code) /\ AutoReconnect /\ ~ call[c].again
  THEN call' = [call EXCEPT ![c].pc = "failed", ![c].conn = NoConn]
  ELSE Return(c)

\* getAPIClient: the flag, read a second time; set, it makes the code of a
\* transport error.
LoadFlag(c) ==
  /\ call[c].pc = "load"
  /\ IF reconnectingFlag = 1 THEN Failed(c, "Unavailable")
     ELSE Goto(c, "lock")
  /\ UNCHANGED <<connVars, flagVars, loop, owner, answered, calls,
                 disconnects>>

\* getAPIClient: the connection, under the mutex.
LockClient(c) ==
  /\ call[c].pc = "lock"
  /\ IF connected
     THEN call' = [call EXCEPT ![c].pc = "sent", ![c].conn = connection]
     ELSE Return(c)
  /\ UNCHANGED <<connVars, flagVars, loop, owner, answered, calls,
                 disconnects>>

\* The daemon carries the request out, and its answer arrives.
Answer(c, code) ==
  /\ call[c].pc = "sent"
  /\ call[c].conn \in open
  /\ code \in Answers(call[c].op)
  /\ answered' = answered \cup {c}
  /\ IF code = "OK" THEN Return(c) ELSE Failed(c, code)
  /\ UNCHANGED <<connVars, flagVars, loop, owner, calls, disconnects>>

\* The transport fails, before or after the daemon has carried it out.
Lost(c) ==
  /\ call[c].pc = "sent"
  /\ Failed(c, "Unavailable")
  /\ UNCHANGED <<connVars, flagVars, loop, owner, answered, calls,
                 disconnects>>

\* The connection is closed under the request, or operationTimeout expires.
Abandoned(c) ==
  /\ call[c].pc = "sent"
  /\ Return(c)
  /\ UNCHANGED <<connVars, flagVars, loop, owner, answered, calls,
                 disconnects>>

-----------------------------------------------------------------------------
(* doWithReconnect: one immediate attempt to reconnect.                    *)

CheckConnected(c) ==
  /\ call[c].pc = "failed"
  /\ IF connected THEN Goto(c, "swapFlag") ELSE Return(c)
  /\ UNCHANGED <<connVars, flagVars, loop, owner, answered, calls,
                 disconnects>>

\* Only the goroutine whose compare-and-swap succeeds goes on.
SwapFlag(c) ==
  /\ call[c].pc = "swapFlag"
  /\ IF reconnectingFlag = 0
     THEN reconnectingFlag' = 1 /\ Goto(c, "dial")
     ELSE Return(c) /\ UNCHANGED reconnectingFlag
  /\ UNCHANGED <<connVars, reconnectSequence, bgCancel, done, loop, owner,
                 answered, calls, disconnects>>

Dial(c) ==
  /\ call[c].pc = "dial"
  /\ CanDial
  /\ call' = [call EXCEPT ![c].pc = "wait", ![c].new = newConnection]
  /\ open' = open \cup {newConnection}
  /\ UNCHANGED <<connected, connection, flagVars, loop, owner, answered,
                 calls, disconnects>>

DropNew(c) ==
  /\ open' = open \ {call[c].new}
  /\ call' = [call EXCEPT ![c].pc = "handOver", ![c].new = NoConn]

\* waitForReady, for one second.
Wait(c) ==
  /\ call[c].pc = "wait"
  /\ \/ Goto(c, "install") /\ UNCHANGED open
     \/ DropNew(c)
  /\ UNCHANGED <<connected, connection, flagVars, loop, owner, answered,
                 calls, disconnects>>

\* Mutated: the new connection is not closed when the client has disconnected.
InstallOrForget(c) ==
  /\ call[c].pc = "install"
  /\ IF connected
     THEN /\ connection' = call[c].new
          /\ call' = [call EXCEPT ![c].pc = "closeOld", ![c].new = connection]
     ELSE /\ call' = [call EXCEPT ![c].pc = "handOver", ![c].new = NoConn]
          /\ UNCHANGED connection
  /\ UNCHANGED <<connected, open, flagVars, loop, owner, answered, calls,
                 disconnects>>
\* Swap the connections under the mutex; the old one is still to be closed.
Install(c) ==
  /\ call[c].pc = "install"
  /\ IF connected
     THEN /\ connection' = call[c].new
          /\ call' = [call EXCEPT ![c].pc = "closeOld", ![c].new = connection]
          /\ UNCHANGED open
     ELSE /\ DropNew(c)
          /\ UNCHANGED connection
  /\ UNCHANGED <<connected, flagVars, loop, owner, answered, calls,
                 disconnects>>

\* Mutated: what is closed is the connection installed by now.
CloseInstalled(c) ==
  /\ call[c].pc = "closeOld"
  /\ open' = open \ {connection}
  /\ call' = [call EXCEPT ![c].pc = "clear", ![c].new = NoConn]
  /\ UNCHANGED <<connected, connection, flagVars, loop, owner, answered,
                 calls, disconnects>>
CloseOld(c) ==
  /\ call[c].pc = "closeOld"
  /\ open' = open \ {call[c].new}
  /\ call' = [call EXCEPT ![c].pc = "clear", ![c].new = NoConn]
  /\ UNCHANGED <<connected, connection, flagVars, loop, owner, answered,
                 calls, disconnects>>

\* The request is sent once more.
ClearAndRetry(c) ==
  /\ call[c].pc = "clear"
  /\ reconnectingFlag' = 0
  /\ call' = [call EXCEPT ![c].pc = "load", ![c].again = TRUE]
  /\ UNCHANGED <<connVars, reconnectSequence, bgCancel, done, loop, owner,
                 answered, calls, disconnects>>

-----------------------------------------------------------------------------
(* doWithReconnect: the hand-over to a background loop.                    *)

HandOver(c) ==
  /\ call[c].pc = "handOver"
  /\ Goto(c, IF connected THEN "start" ELSE "giveUp")
  /\ UNCHANGED <<connVars, flagVars, loop, owner, answered, calls,
                 disconnects>>

\* Mutated: the flag stays set when the client has disconnected.
GiveUpKeepFlag(c) ==
  /\ call[c].pc = "giveUp"
  /\ Return(c)
  /\ UNCHANGED <<connVars, flagVars, loop, owner, answered, calls,
                 disconnects>>
GiveUp(c) ==
  /\ call[c].pc = "giveUp"
  /\ reconnectingFlag' = 0
  /\ Return(c)
  /\ UNCHANGED <<connVars, reconnectSequence, bgCancel, done, loop, owner,
                 answered, calls, disconnects>>

\* Mutated: the number is taken twice, by the caller and by what it starts.
TakeTwoNumbers(c) ==
  /\ call[c].pc = "start"
  /\ reconnectSequence' = reconnectSequence + 2
  /\ call' = [call EXCEPT ![c].pc = "spawn",
                          ![c].sequence = reconnectSequence + 2]
  /\ UNCHANGED <<connVars, reconnectingFlag, bgCancel, done, loop, owner,
                 answered, calls, disconnects>>
\* startBackgroundReconnect takes its sequence number before the mutex.
TakeSequence(c) ==
  /\ call[c].pc = "start"
  /\ reconnectSequence' = reconnectSequence + 1
  /\ call' = [call EXCEPT ![c].pc = "spawn",
                          ![c].sequence = reconnectSequence + 1]
  /\ UNCHANGED <<connVars, reconnectingFlag, bgCancel, done, loop, owner,
                 answered, calls, disconnects>>

Cancelled == IF bgCancel = 0 THEN done ELSE done \cup {bgCancel}

Spawn(c) ==
  LET s == call[c].sequence IN
  /\ call[c].pc = "spawn"
  /\ done' = Cancelled
  /\ bgCancel' = s
  /\ loop' = [loop EXCEPT ![s].pc = "check"]
  /\ Return(c)
  /\ UNCHANGED <<connVars, reconnectingFlag, reconnectSequence, owner,
                 answered, calls, disconnects>>

-----------------------------------------------------------------------------
(* backgroundReconnect.                                                    *)

LoopGoto(s, pc) == loop' = [loop EXCEPT ![s] = [pc |-> pc, conn |-> NoConn]]

LoopCheck(s) ==
  /\ loop[s].pc = "check"
  /\ IF s \in done \/ ~ connected
     THEN LoopGoto(s, "end") /\ UNCHANGED open
     ELSE /\ CanDial
          /\ loop' = [loop EXCEPT ![s] = [pc |-> "wait",
                                          conn |-> newConnection]]
          /\ open' = open \cup {newConnection}
  /\ UNCHANGED <<connected, connection, flagVars, call, owner, answered,
                 calls, disconnects>>

LoopWait(s) ==
  /\ loop[s].pc = "wait"
  /\ \/ /\ loop' = [loop EXCEPT ![s].pc = "install"]
        /\ UNCHANGED open
     \/ /\ LoopGoto(s, "check")
        /\ open' = open \ {loop[s].conn}
  /\ UNCHANGED <<connected, connection, flagVars, call, owner, answered,
                 calls, disconnects>>

LoopInstall(s) ==
  /\ loop[s].pc = "install"
  /\ IF ~ connected \/ s \in done
     THEN /\ open' = open \ {loop[s].conn}
          /\ LoopGoto(s, "end")
          /\ UNCHANGED connection
     ELSE /\ connection' = loop[s].conn
          /\ loop' = [loop EXCEPT ![s] = [pc |-> "closeOld",
                                          conn |-> connection]]
          /\ UNCHANGED open
  /\ UNCHANGED <<connected, flagVars, call, owner, answered, calls,
                 disconnects>>

LoopCloseOld(s) ==
  /\ loop[s].pc = "closeOld"
  /\ open' = open \ {loop[s].conn}
  /\ LoopGoto(s, "end")
  /\ UNCHANGED <<connected, connection, flagVars, call, owner, answered,
                 calls, disconnects>>

\* Mutated: only a loop that was not cancelled clears the flag.
ClearsUnlessCancelled(s) == reconnectSequence = s /\ s \notin done
ClearsFlag(s) == reconnectSequence = s

\* The deferred function.
LoopEnd(s) ==
  /\ loop[s].pc = "end"
  /\ IF ClearsFlag(s)
     THEN reconnectingFlag' = 0 /\ bgCancel' = 0
     ELSE UNCHANGED <<reconnectingFlag, bgCancel>>
  /\ LoopGoto(s, "none")
  /\ done' = done \ {s}
  /\ UNCHANGED <<connVars, reconnectSequence, call, owner, answered,
                 calls, disconnects>>

\* reconnectTimeout.
LoopTimeout(s) ==
  /\ loop[s].pc # "none"
  /\ s \notin done
  /\ done' = done \cup {s}
  /\ UNCHANGED <<connVars, reconnectingFlag, reconnectSequence, bgCancel,
                 call, loop, owner, answered, calls, disconnects>>

-----------------------------------------------------------------------------
(* Connect and Disconnect.                                                 *)

\* A client that is connected already refuses, and closes what it opened.
Connect ==
  /\ owner.pc = "idle"
  /\ ~ connected
  /\ CanDial
  /\ connected' = TRUE
  /\ connection' = newConnection
  /\ open' = open \cup {newConnection}
  /\ UNCHANGED <<flagVars, call, loop, owner, answered, calls,
                 disconnects>>

DisconnectBegin ==
  /\ owner.pc = "idle"
  /\ disconnects < MaxDisconnects
  /\ disconnects' = disconnects + 1
  /\ reconnectSequence' = reconnectSequence + 1
  /\ owner' = [owner EXCEPT !.pc = "cancel"]
  /\ UNCHANGED <<connVars, reconnectingFlag, bgCancel, done, call, loop,
                 answered, calls>>

DisconnectCancel ==
  /\ owner.pc = "cancel"
  /\ done' = Cancelled
  /\ bgCancel' = 0
  /\ owner' = [owner EXCEPT !.pc = "clear"]
  /\ UNCHANGED <<connVars, reconnectingFlag, reconnectSequence, call, loop,
                 answered, calls, disconnects>>

DisconnectClear ==
  /\ owner.pc = "clear"
  /\ reconnectingFlag' = 0
  /\ owner' = [owner EXCEPT !.pc = "drop"]
  /\ UNCHANGED <<connVars, reconnectSequence, bgCancel, done, call, loop,
                 answered, calls, disconnects>>

\* disconnectConn.
DisconnectDrop ==
  /\ owner.pc = "drop"
  /\ connected' = FALSE
  /\ connection' = NoConn
  /\ owner' = [pc |-> "close", conn |-> connection]
  /\ UNCHANGED <<open, flagVars, call, loop, answered, calls, disconnects>>

DisconnectClose ==
  /\ owner.pc = "close"
  /\ open' = open \ {owner.conn}
  /\ owner' = [pc |-> "idle", conn |-> NoConn]
  /\ UNCHANGED <<connected, connection, flagVars, call, loop, answered,
                 calls, disconnects>>

-----------------------------------------------------------------------------
Reply(c) ==
  \/ \E code \in Answers(call[c].op) : Answer(c, code)
  \/ Lost(c) \/ Abandoned(c)

CallStep(c) ==
  \/ LoadFlag(c) \/ LockClient(c) \/ Reply(c) \/ CheckConnected(c)
  \/ SwapFlag(c) \/ Dial(c) \/ Wait(c) \/ Install(c) \/ CloseOld(c)
  \/ ClearAndRetry(c) \/ HandOver(c) \/ GiveUp(c) \/ TakeSequence(c)
  \/ Spawn(c)

LoopStep(s) ==
  \/ LoopCheck(s) \/ LoopWait(s) \/ LoopInstall(s) \/ LoopCloseOld(s)
  \/ LoopEnd(s)

DisconnectStep ==
  \/ DisconnectCancel \/ DisconnectClear \/ DisconnectDrop \/ DisconnectClose

Next ==
  \/ \E c \in Callers : (\E op \in Operations : Begin(c, op)) \/ CallStep(c)
  \/ \E s \in Loops : LoopStep(s) \/ LoopTimeout(s)
  \/ Connect
  \/ DisconnectBegin
  \/ DisconnectStep

Spec == Init /\ [][Next]_vars

\* Goroutines run, and a request, a dial and a loop have their timeouts.
Fairness ==
  /\ \A c \in Callers : WF_vars(CallStep(c))
  /\ \A s \in Loops : WF_vars(LoopStep(s)) /\ WF_vars(LoopTimeout(s))
  /\ WF_vars(DisconnectStep)

FairSpec == Spec /\ Fairness

-----------------------------------------------------------------------------
Sections == {"dial", "wait", "install", "closeOld", "clear", "handOver",
             "giveUp", "start"}

CallRecords ==
  [pc : Sections \cup {"idle", "load", "lock", "sent", "failed", "swapFlag",
                       "spawn"},
   op : Operations, conn : Conns \cup {NoConn}, new : Conns \cup {NoConn},
   again : BOOLEAN, sequence : {0} \cup Loops]

(* The fields of the client, and the local state of its goroutines.        *)
TypeOK ==
  /\ connected \in BOOLEAN
  /\ connection \in Conns \cup {NoConn}
  /\ open \subseteq Conns
  /\ reconnectingFlag \in {0, 1}
  /\ reconnectSequence \in {0} \cup Loops
  /\ bgCancel \in {0} \cup Loops
  /\ done \subseteq Loops
  /\ call \in [Callers -> CallRecords]
  /\ loop \in [Loops -> [pc : {"none", "check", "wait", "install",
                               "closeOld", "end"},
                         conn : Conns \cup {NoConn}]]
  /\ owner \in [pc : {"idle", "cancel", "clear", "drop", "close"},
                conn : Conns \cup {NoConn}]
  /\ answered \subseteq Callers
  /\ calls \in 0 .. MaxCalls
  /\ disconnects \in 0 .. MaxDisconnects

(* Every open gRPC connection is the installed one or in the hands of a    *)
(* goroutine that still has to install or to close it: however calls,      *)
(* loops, Connect and Disconnect interleave, none is leaked.               *)
NoStrayConnection ==
  open \subseteq
    {connection, owner.conn} \cup {call[c].new : c \in Callers}
                             \cup {loop[s].conn : s \in Loops}

(* The installed connection is open: a goroutine that closes the one it    *)
(* replaced, or gave up, never closes the one that calls are to use.       *)
InstalledIsOpen ==
  /\ connected <=> connection # NoConn
  /\ connected => connection \in open

(* While reconnectingFlag is set, which makes every call fail, somebody is *)
(* left who will clear it: a caller between its compare-and-swap and its   *)
(* hand-over, the loop with the latest sequence number, or a Disconnect.   *)
FlagHasOwner ==
  reconnectingFlag = 1 =>
    \/ \E c \in Callers : call[c].pc \in Sections
    \/ \E c \in Callers : /\ call[c].pc = "spawn"
                          /\ call[c].sequence = reconnectSequence
    \/ \E s \in Loops : /\ loop[s].pc # "none"
                        /\ s = reconnectSequence
    \/ owner.pc \in {"cancel", "clear"}

(* A request that the daemon answered is never sent again: no error        *)
(* of the mount manager looks like a failure of the transport.  (Ready is  *)
(* not a mount operation, and answers Unavailable itself.)                 *)
AnsweredOnce ==
  \A c \in answered : call[c].op = "other" => call[c].pc # "sent"

(* The client never stays unusable: the flag is cleared some time after it *)
(* was set, whether the daemon comes back or not.                          *)
FlagClears == (reconnectingFlag = 1) ~> (reconnectingFlag = 0)

(* After a Disconnect every connection is closed in the end, also the ones *)
(* that calls and loops had open, unless the client connects again.        *)
DisconnectCloses == (~ connected) ~> (open = {} \/ connected)
====
