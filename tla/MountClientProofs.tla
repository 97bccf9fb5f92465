-------------------------- MODULE MountClientProofs --------------------------
(***************************************************************************)
(* The safety of the Go client for any number of callers, connections,     *)
(* calls and Disconnects: no gRPC connection is leaked, the installed one  *)
(* is never closed, the reconnecting flag always has somebody to clear it, *)
(* and a mount operation the daemon answered is not sent again.            *)
(***************************************************************************)
EXTENDS MountClient, FiniteSetTheorems, TLAPS

\* What counting the calls under way needs of finite sets: one hypothesis of the
\* steps below, which Counts discharges from the library's theorems.
CountFacts ==
  /\ IsFiniteSet({}) /\ Cardinality({}) = 0
  /\ \A P, Q, c : IsFiniteSet(P) =>
       /\ Cardinality(P) \in Nat
       /\ Q \subseteq P => IsFiniteSet(Q) /\ Cardinality(Q) <= Cardinality(P)
                            /\ Cardinality(Q) \in Nat
       /\ (Q = P \cup {c} /\ c \notin P) =>
            IsFiniteSet(Q) /\ Cardinality(Q) = Cardinality(P) + 1
       /\ (Q = P \ {c} /\ c \in P) =>
            IsFiniteSet(Q) /\ Cardinality(Q) = Cardinality(P) - 1

\* The connections in the hands of the callers and of the loops.
News == [c \in Callers |-> call[c].new]
LoopConns == [s \in Loops |-> loop[s].conn]

\* The open connections o are the ones held, each by one holder: the client (k),
\* the goroutine that disconnects (w), a caller (n) or a loop (l).
Apart(o, k, w, n, l) ==
  /\ \A x \in o : /\ x # NoConn
                  /\ \/ x = k \/ x = w
                     \/ \E c \in Callers : x = n[c]
                     \/ \E s \in Loops : x = l[s]
  /\ k # NoConn => /\ k \in o /\ k # w
                   /\ \A c \in Callers : k # n[c]
                   /\ \A s \in Loops : k # l[s]
  /\ w # NoConn => /\ w \in o
                   /\ \A c \in Callers : w # n[c]
                   /\ \A s \in Loops : w # l[s]
  /\ \A c \in Callers : n[c] # NoConn =>
       /\ n[c] \in o
       /\ \A d \in Callers : d # c => n[c] # n[d]
       /\ \A s \in Loops : n[c] # l[s]
  /\ \A s \in Loops : l[s] # NoConn =>
       /\ l[s] \in o
       /\ \A t \in Loops : t # s => l[s] # l[t]

ConnInv == Apart(open, connection, owner.conn, News, LoopConns)

\* Where a goroutine holds a connection.
LocalInv ==
  /\ connected <=> connection # NoConn
  /\ \A c \in Callers :
       /\ call[c].pc \in {"wait", "install"} => call[c].new # NoConn
       /\ call[c].pc \notin {"wait", "install", "closeOld"} => call[c].new = NoConn
  /\ \A s \in Loops :
       /\ loop[s].pc \in {"wait", "install"} => loop[s].conn # NoConn
       /\ loop[s].pc \notin {"wait", "install", "closeOld"} => loop[s].conn = NoConn
  /\ owner.pc # "close" => owner.conn = NoConn

\* The calls that may still take a sequence number.
Pending == {c \in Callers : call[c].pc \notin {"idle", "spawn"}}

SeqInv ==
  /\ IsFiniteSet(Pending)
  /\ reconnectSequence + Cardinality(Pending) <= calls + disconnects
  /\ \A c \in Callers : call[c].pc = "spawn" =>
       /\ call[c].sequence \in Loops
       /\ call[c].sequence <= reconnectSequence
       /\ loop[call[c].sequence].pc = "none"
       /\ \A d \in Callers :
            d # c /\ call[d].pc = "spawn" => call[d].sequence # call[c].sequence
  /\ \A s \in Loops : loop[s].pc # "none" => s <= reconnectSequence

AnswerInv == \A c \in answered : call[c].op = "other" => call[c].pc = "idle"

Inv == TypeOK /\ ConnInv /\ LocalInv /\ SeqInv /\ AnswerInv /\ FlagHasOwner

-----------------------------------------------------------------------------
(* Connections change hands.                                               *)

\* A new connection is nobody's.
Fresh(x, o, k, w, n, l) ==
  /\ x # NoConn /\ x \notin o /\ x # k /\ x # w
  /\ \A c \in Callers : x # n[c]
  /\ \A s \in Loops : x # l[s]

\* m is n with another connection for c.
Replaces(m, n, S, c, x) == m[c] = x /\ \A d \in S : d # c => m[d] = n[d]

\* A caller dials.
LEMMA CallTakes ==
  ASSUME NEW o, NEW k, NEW w, NEW n, NEW l, Apart(o, k, w, n, l), NEW x, NEW m,
         Fresh(x, o, k, w, n, l), NEW c \in Callers, n[c] = NoConn,
         Replaces(m, n, Callers, c, x)
  PROVE  Apart(o \cup {x}, k, w, m, l)
BY DEF Apart, Fresh, Replaces

\* A caller closes the connection it holds.
LEMMA CallDrops ==
  ASSUME NEW o, NEW k, NEW w, NEW n, NEW l, Apart(o, k, w, n, l), NEW m,
         NEW c \in Callers, Replaces(m, n, Callers, c, NoConn)
  PROVE  Apart(o \ {n[c]}, k, w, m, l)
BY DEF Apart, Replaces

\* A caller installs its connection and is left with the one it replaces.
LEMMA CallSwaps ==
  ASSUME NEW o, NEW k, NEW w, NEW n, NEW l, Apart(o, k, w, n, l), NEW m,
         NEW c \in Callers, Replaces(m, n, Callers, c, k)
  PROVE  Apart(o, n[c], w, m, l)
BY DEF Apart, Replaces

\* A background loop dials.
LEMMA LoopTakes ==
  ASSUME NEW o, NEW k, NEW w, NEW n, NEW l, Apart(o, k, w, n, l), NEW x, NEW m,
         Fresh(x, o, k, w, n, l), NEW s \in Loops, l[s] = NoConn,
         Replaces(m, l, Loops, s, x)
  PROVE  Apart(o \cup {x}, k, w, n, m)
BY DEF Apart, Fresh, Replaces

\* A background loop closes the connection it holds.
LEMMA LoopDrops ==
  ASSUME NEW o, NEW k, NEW w, NEW n, NEW l, Apart(o, k, w, n, l), NEW m,
         NEW s \in Loops, Replaces(m, l, Loops, s, NoConn)
  PROVE  Apart(o \ {l[s]}, k, w, n, m)
BY DEF Apart, Replaces

\* A background loop installs its connection.
LEMMA LoopSwaps ==
  ASSUME NEW o, NEW k, NEW w, NEW n, NEW l, Apart(o, k, w, n, l), NEW m,
         NEW s \in Loops, Replaces(m, l, Loops, s, k)
  PROVE  Apart(o, l[s], w, n, m)
BY DEF Apart, Replaces

\* Connect dials.
LEMMA ClientTakes ==
  ASSUME NEW o, NEW w, NEW n, NEW l, Apart(o, NoConn, w, n, l), NEW x,
         Fresh(x, o, NoConn, w, n, l)
  PROVE  Apart(o \cup {x}, x, w, n, l)
BY Zenon DEF Apart, Fresh

\* Disconnect takes the installed connection away.
LEMMA OwnerTakes ==
  ASSUME NEW o, NEW k, NEW n, NEW l, Apart(o, k, NoConn, n, l)
  PROVE  Apart(o, NoConn, k, n, l)
BY Zenon DEF Apart

\* Disconnect closes the connection it took.
LEMMA OwnerDrops ==
  ASSUME NEW o, NEW k, NEW w, NEW n, NEW l, Apart(o, k, w, n, l)
  PROVE  Apart(o \ {w}, k, NoConn, n, l)
BY Zenon DEF Apart

\* newConnection is a number that nobody refers to.
LEMMA NewIsFresh ==
  ASSUME CanDial
  PROVE  /\ newConnection \in Conns
         /\ Fresh(newConnection, open, connection, owner.conn, News, LoopConns)
<1>1. newConnection \in Conns \ InUse BY Zenon DEF CanDial, newConnection
<1> QED BY <1>1, ClientAssumption, Zenon DEF InUse, Fresh, News, LoopConns, Conns

-----------------------------------------------------------------------------
(* A goroutine's connection changes from `mine' to k.                      *)

Dialled(k, mine) ==
  /\ mine = NoConn /\ k \in Conns
  /\ Fresh(k, open, connection, owner.conn, News, LoopConns)
  /\ open' = open \cup {k} /\ connection' = connection

Kept(k, mine) == k = mine /\ open' = open /\ connection' = connection

Dropped(k, mine) ==
  k = NoConn /\ open' = open \ {mine} /\ connection' = connection

Swapped(k, mine) ==
  k = connection /\ connected /\ mine # NoConn /\ open' = open /\ connection' = mine

Hands(k, mine) ==
  Dialled(k, mine) \/ Kept(k, mine) \/ Dropped(k, mine) \/ Swapped(k, mine)

\* The connection a caller holds changes.
LEMMA CallHands ==
  ASSUME ConnInv, NEW c \in Callers, NEW k, Hands(k, News[c]), owner' = owner,
         Replaces(News', News, Callers, c, k), LoopConns' = LoopConns
  PROVE  ConnInv'
<1>1. Apart(open, connection, owner.conn, News, LoopConns) BY Zenon DEF ConnInv
<1>2. CASE Dialled(k, News[c]) BY <1>1, <1>2, CallTakes, Zenon DEF Dialled, ConnInv
<1>3. CASE Kept(k, News[c])
  <2>1. \A d \in Callers : News'[d] = News[d] BY <1>3, Zenon DEF Replaces, Kept
  <2> QED BY <1>1, <1>3, <2>1 DEF ConnInv, Apart, Kept
<1>4. CASE Dropped(k, News[c]) BY <1>1, <1>4, CallDrops, Zenon DEF Dropped, ConnInv
<1>5. CASE Swapped(k, News[c]) BY <1>1, <1>5, CallSwaps, Zenon DEF Swapped, ConnInv
<1> QED BY <1>2, <1>3, <1>4, <1>5, Zenon DEF Hands

\* The connection a loop holds changes.
LEMMA LoopHands ==
  ASSUME ConnInv, NEW s \in Loops, NEW k, Hands(k, LoopConns[s]), owner' = owner,
         Replaces(LoopConns', LoopConns, Loops, s, k), News' = News
  PROVE  ConnInv'
<1>1. Apart(open, connection, owner.conn, News, LoopConns) BY Zenon DEF ConnInv
<1>2. CASE Dialled(k, LoopConns[s]) BY <1>1, <1>2, LoopTakes, Zenon DEF Dialled, ConnInv
<1>3. CASE Kept(k, LoopConns[s])
  <2>1. \A t \in Loops : LoopConns'[t] = LoopConns[t] BY <1>3, Zenon DEF Replaces, Kept
  <2> QED BY <1>1, <1>3, <2>1 DEF ConnInv, Apart, Kept
<1>4. CASE Dropped(k, LoopConns[s]) BY <1>1, <1>4, LoopDrops, Zenon DEF Dropped, ConnInv
<1>5. CASE Swapped(k, LoopConns[s]) BY <1>1, <1>5, LoopSwaps, Zenon DEF Swapped, ConnInv
<1> QED BY <1>2, <1>3, <1>4, <1>5, Zenon DEF Hands

\* The client's own fields keep their types, and stay in agreement.
LEMMA HandsType ==
  ASSUME NEW k, NEW mine \in Conns \cup {NoConn}, Hands(k, mine),
         connection \in Conns \cup {NoConn}, open \subseteq Conns,
         connected <=> connection # NoConn, connected' = connected
  PROVE  /\ k \in Conns \cup {NoConn}
         /\ connection' \in Conns \cup {NoConn} /\ open' \subseteq Conns
         /\ connected' <=> connection' # NoConn
BY Zenon DEF Hands, Dialled, Kept, Dropped, Swapped

-----------------------------------------------------------------------------
(* Quiet steps of a caller: the ones that hold and take nothing.           *)

Holding == {"wait", "install", "closeOld"}

\* What a quiet step of caller c leaves alone.
QuietStep(c) ==
  /\ UNCHANGED <<connVars, reconnectSequence, bgCancel, done, loop, owner, disconnects>>
  /\ call' \in [Callers -> CallRecords]
  /\ \A d \in Callers : d # c => call'[d] = call[d]
  /\ {call[c].pc, call'[c].pc} \cap (Holding \cup {"spawn"}) = {}
  /\ call'[c].new = NoConn
  /\ reconnectingFlag' \in {0, 1} /\ answered' \subseteq Callers

\* An idle record, and what a caller's record becomes when its request fails.
LEMMA IdleType ==
  /\ IdleCall \in CallRecords /\ IdleCall.pc = "idle" /\ IdleCall.new = NoConn
  /\ IdleCall.op = "other"
BY Zenon DEF IdleCall, CallRecords, Operations

\* A caller's record when its request fails or its call returns.
LEMMA FailedFacts ==
  ASSUME TypeOK, LocalInv, NEW c \in Callers, call[c].pc \notin Holding,
         NEW code, Failed(c, code) \/ Return(c)
  PROVE  /\ call' \in [Callers -> CallRecords]
         /\ \A d \in Callers : d # c => call'[d] = call[d]
         /\ call'[c].new = NoConn
         /\ \/ call'[c] = IdleCall
            \/ /\ call'[c].pc = "failed" /\ call'[c].op = call[c].op
               /\ isTransportError(code)
<1>1. call \in [Callers -> CallRecords] /\ call[c].new = NoConn
  BY Zenon DEF TypeOK, LocalInv, Holding
<1>2. CASE call' = [call EXCEPT ![c] = IdleCall]
  BY <1>1, <1>2, IdleType, Zenon
<1>3. CASE /\ isTransportError(code)
           /\ call' = [call EXCEPT ![c].pc = "failed", ![c].conn = NoConn]
  <2> DEFINE r == [call[c] EXCEPT !.pc = "failed", !.conn = NoConn]
  <2>1. call' = [call EXCEPT ![c] = r] BY <1>1, <1>3, Zenon DEF CallRecords
  <2>2. /\ r \in CallRecords /\ r.pc = "failed" /\ r.new = call[c].new
        /\ r.op = call[c].op
    BY <1>1, Zenon DEF CallRecords
  <2> HIDE DEF r
  <2> QED BY <1>1, <1>3, <2>1, <2>2, Zenon
<1> QED BY <1>2, <1>3, Zenon DEF Failed, Return

\* A caller's record when it moves on.
LEMMA GotoFacts ==
  ASSUME TypeOK, NEW c \in Callers, NEW pc,
         pc \in Sections \cup {"lock", "failed", "swapFlag", "load"}, Goto(c, pc)
  PROVE  /\ call' \in [Callers -> CallRecords]
         /\ \A d \in Callers : d # c => call'[d] = call[d]
         /\ call'[c].pc = pc /\ call'[c].new = call[c].new
         /\ call'[c].op = call[c].op
BY DEF TypeOK, Goto, CallRecords

\* The steps that are quiet.
QuietActions(c) ==
  \/ LoadFlag(c) \/ LockClient(c) \/ Reply(c) \/ CheckConnected(c) \/ SwapFlag(c)
  \/ ClearAndRetry(c) \/ HandOver(c) \/ GiveUp(c)

\* They are quiet; an answer is recorded once, and the flag that they set is theirs.
LEMMA QuietFacts ==
  ASSUME TypeOK, LocalInv, NEW c \in Callers, QuietActions(c)
  PROVE  /\ QuietStep(c) /\ calls' = calls /\ call[c].pc # "idle"
         /\ c \in answered' => \/ c \in answered \/ call[c].pc = "sent"
         /\ answered' \subseteq answered \cup {c}
         /\ call'[c] = IdleCall \/ call'[c].op = call[c].op
         /\ (call[c].op = "other" /\ c \in answered' /\ c \notin answered)
              => call'[c] = IdleCall
         /\ (reconnectingFlag' = 1 /\ (reconnectingFlag = 0 \/ call[c].pc \in Sections))
              => call'[c].pc \in Sections
<1>0. /\ call[c].pc \notin Holding => call[c].new = NoConn
      /\ answered \subseteq Callers /\ reconnectingFlag \in {0, 1}
  BY Zenon DEF LocalInv, Holding, TypeOK
<1>1. CASE LoadFlag(c)
  <2>1. CASE reconnectingFlag = 1
    BY <1>0, <1>1, <2>1, FailedFacts, IdleType
       DEF LoadFlag, QuietStep, Holding, flagVars, Sections
  <2>2. CASE reconnectingFlag # 1
    BY <1>0, <1>1, <2>2, GotoFacts DEF LoadFlag, QuietStep, Holding, flagVars, Sections
  <2> QED BY <2>1, <2>2, Zenon
<1>2. CASE LockClient(c)
  <2>1. CASE connected
    <3>1. /\ call' \in [Callers -> CallRecords] /\ call'[c].pc = "sent"
          /\ \A d \in Callers : d # c => call'[d] = call[d]
          /\ call'[c].new = call[c].new /\ call'[c].op = call[c].op
      BY <1>2, <2>1 DEF LockClient, TypeOK, CallRecords
    <3> QED BY <1>0, <1>2, <3>1 DEF LockClient, QuietStep, Holding, flagVars, Sections
  <2>2. CASE ~connected
    BY <1>0, <1>2, <2>2, FailedFacts, IdleType
       DEF LockClient, QuietStep, Holding, flagVars, Sections
  <2> QED BY <2>1, <2>2, Zenon
<1>3. CASE Reply(c)
  <2>0. call[c].pc = "sent" /\ call[c].pc \notin Holding
    BY <1>3, Zenon DEF Reply, Answer, Lost, Abandoned, Holding
  <2>1. ASSUME NEW code \in Answers(call[c].op), Answer(c, code)
        PROVE  /\ Failed(c, code) \/ Return(c)
               /\ answered' = answered \cup {c}
               /\ UNCHANGED <<connVars, flagVars, loop, owner, calls, disconnects>>
               /\ call[c].op = "other" => ~isTransportError(code)
    <3>1. code \in Answers("other") => code # "Unavailable"
      BY Zenon DEF Answers, mountStatusError, Errors
    <3> QED BY <2>1, <3>1, Zenon DEF Answer, isTransportError
  <2>2. ASSUME Lost(c) \/ Abandoned(c)
        PROVE  /\ Failed(c, "Unavailable") \/ Return(c)
               /\ UNCHANGED <<connVars, flagVars, loop, owner, answered, calls, disconnects>>
    BY <2>2, Zenon DEF Lost, Abandoned
  <2>3. PICK code : /\ Failed(c, code) \/ Return(c)
                    /\ UNCHANGED <<connVars, flagVars, loop, owner, calls, disconnects>>
                    /\ \/ answered' = answered
                       \/ /\ answered' = answered \cup {c}
                          /\ call[c].op = "other" => ~isTransportError(code)
    BY <1>3, <2>1, <2>2, Zenon DEF Reply
  <2>4. /\ call' \in [Callers -> CallRecords]
        /\ \A d \in Callers : d # c => call'[d] = call[d]
        /\ call'[c].new = NoConn
        /\ \/ call'[c] = IdleCall
           \/ /\ call'[c].pc = "failed" /\ call'[c].op = call[c].op
              /\ isTransportError(code)
    BY <2>0, <2>3, FailedFacts, Zenon
  <2> QED BY <1>0, <2>0, <2>3, <2>4, IdleType DEF QuietStep, Holding, flagVars, Sections
<1>4. CASE CheckConnected(c)
  <2>1. CASE connected
    BY <1>0, <1>4, <2>1, GotoFacts DEF CheckConnected, QuietStep, Holding, flagVars, Sections
  <2>2. CASE ~connected
    BY <1>0, <1>4, <2>2, FailedFacts, IdleType
       DEF CheckConnected, QuietStep, Holding, flagVars, Sections
  <2> QED BY <2>1, <2>2, Zenon
<1>5. CASE SwapFlag(c)
  <2>1. CASE reconnectingFlag = 0
    BY <1>0, <1>5, <2>1, GotoFacts DEF SwapFlag, QuietStep, Holding, Sections
  <2>2. CASE reconnectingFlag # 0
    BY <1>0, <1>5, <2>2, FailedFacts, IdleType, Zenon
       DEF SwapFlag, QuietStep, Holding, Sections
  <2> QED BY <2>1, <2>2, Zenon
<1>6. CASE ClearAndRetry(c)
  <2>1. /\ call' \in [Callers -> CallRecords] /\ call'[c].pc = "load"
        /\ \A d \in Callers : d # c => call'[d] = call[d]
        /\ call'[c].new = call[c].new /\ call'[c].op = call[c].op
    <3> DEFINE r == [call[c] EXCEPT !.pc = "load", !.again = TRUE]
    <3>0. call \in [Callers -> CallRecords] BY Zenon DEF TypeOK
    <3>1. call' = [call EXCEPT ![c] = r] BY <1>6, <3>0, Zenon DEF ClearAndRetry, CallRecords
    <3>2. /\ r \in CallRecords /\ r.pc = "load" /\ r.new = call[c].new
          /\ r.op = call[c].op
      BY <3>0, Zenon DEF CallRecords
    <3> HIDE DEF r
    <3> QED BY <3>0, <3>1, <3>2, Zenon
  <2> QED BY <1>0, <1>6, <2>1 DEF ClearAndRetry, QuietStep, Holding
<1>7. CASE HandOver(c)
  <2>1. PICK pc \in {"start", "giveUp"} : Goto(c, pc) BY <1>7, Zenon DEF HandOver
  <2> QED BY <1>0, <1>7, <2>1, GotoFacts, Zenon DEF HandOver, QuietStep, Holding, flagVars, Sections
<1>8. CASE GiveUp(c)
  BY <1>0, <1>8, FailedFacts, IdleType DEF GiveUp, QuietStep, Holding
<1> QED BY <1>1, <1>2, <1>3, <1>4, <1>5, <1>6, <1>7, <1>8, Zenon DEF QuietActions

\* So is the beginning of a call.
LEMMA BeginFacts ==
  ASSUME TypeOK, LocalInv, NEW c \in Callers, NEW op \in Operations, Begin(c, op)
  PROVE  /\ QuietStep(c) /\ calls' = calls + 1 /\ calls < MaxCalls
         /\ call[c].pc = "idle" /\ call'[c].pc = "load"
         /\ answered' = answered \ {c} /\ reconnectingFlag' = 0
<1> DEFINE r == [IdleCall EXCEPT !.pc = "load", !.op = op]
<1>1. /\ call' = [call EXCEPT ![c] = r] /\ call[c].pc = "idle"
      /\ call \in [Callers -> CallRecords] /\ answered \subseteq Callers
      /\ UNCHANGED <<connVars, flagVars, loop, owner, disconnects>>
      /\ answered' = answered \ {c} /\ reconnectingFlag = 0
      /\ calls' = calls + 1 /\ calls < MaxCalls
  BY Zenon DEF Begin, TypeOK
<1>2. r \in CallRecords /\ r.pc = "load" /\ r.new = NoConn
  BY IdleType, Zenon DEF CallRecords
<1> HIDE DEF r
<1>3. /\ call' \in [Callers -> CallRecords] /\ call'[c].pc = "load"
      /\ call'[c].new = NoConn /\ \A d \in Callers : d # c => call'[d] = call[d]
  BY <1>1, <1>2, Zenon
<1> QED BY <1>1, <1>3, Zenon DEF QuietStep, Holding, flagVars

\* What quiet steps keep whatever the counters do.
LEMMA QuietKept ==
  ASSUME Inv, NEW c \in Callers, QuietStep(c), calls' \in 0 .. MaxCalls
  PROVE  TypeOK' /\ ConnInv' /\ LocalInv'
<1>0. /\ TypeOK /\ ConnInv /\ LocalInv
      /\ UNCHANGED <<connected, connection, open, reconnectSequence, bgCancel, done,
                      loop, owner, disconnects>>
  BY Zenon DEF Inv, QuietStep, connVars
<1>1. TypeOK' BY <1>0, Zenon DEF TypeOK, QuietStep
<1>2. \A d \in Callers : call'[d].new = call[d].new
  BY <1>0, Zenon DEF LocalInv, QuietStep, Holding
<1>3. ConnInv'
  <2>1. News' = News /\ LoopConns' = LoopConns BY <1>0, <1>2, Zenon DEF News, LoopConns
  <2> QED BY <1>0, <2>1, Zenon DEF ConnInv
<1>4. LocalInv' BY <1>0, Zenon DEF LocalInv, QuietStep, Holding
<1> QED BY <1>1, <1>3, <1>4, Zenon

\* They keep the invariant.
LEMMA QuietActionsInv ==
  ASSUME CountFacts, Inv, NEW c \in Callers, QuietActions(c) PROVE Inv'
<1>0. TypeOK /\ LocalInv /\ SeqInv /\ AnswerInv /\ FlagHasOwner BY Zenon DEF Inv
<1>1. /\ QuietStep(c) /\ calls' = calls /\ call[c].pc # "idle"
      /\ c \in answered' => \/ c \in answered \/ call[c].pc = "sent"
      /\ answered' \subseteq answered \cup {c}
      /\ call'[c] = IdleCall \/ call'[c].op = call[c].op
      /\ (call[c].op = "other" /\ c \in answered' /\ c \notin answered)
           => call'[c] = IdleCall
      /\ (reconnectingFlag' = 1 /\ (reconnectingFlag = 0 \/ call[c].pc \in Sections))
           => call'[c].pc \in Sections
  BY <1>0, QuietFacts, Zenon
<1>2. TypeOK' /\ ConnInv' /\ LocalInv'
  <2>1. calls' \in 0 .. MaxCalls BY <1>0, <1>1, Zenon DEF TypeOK
  <2> QED BY <1>1, <2>1, QuietKept, Zenon
<1>3. /\ UNCHANGED <<reconnectSequence, loop, owner, disconnects, calls>>
      /\ \A d \in Callers : d # c => call'[d] = call[d]
      /\ call[c].pc # "spawn" /\ call'[c].pc # "spawn"
  BY <1>1, Zenon DEF QuietStep
<1>4. SeqInv'
  <2>1. Pending' \subseteq Pending BY <1>1, <1>3, Zenon DEF Pending
  <2>2. /\ IsFiniteSet(Pending') /\ Cardinality(Pending') <= Cardinality(Pending)
        /\ Cardinality(Pending') \in Nat /\ Cardinality(Pending) \in Nat
    BY <1>0, <2>1, Zenon DEF SeqInv, CountFacts
  <2>3. reconnectSequence \in Nat /\ calls \in Nat /\ disconnects \in Nat
    BY <1>0, ClientAssumption DEF TypeOK, Loops
  <2>4. reconnectSequence' + Cardinality(Pending') <= calls' + disconnects'
    BY <1>0, <1>3, <2>2, <2>3 DEF SeqInv
  <2> QED BY <1>0, <1>3, <2>2, <2>4 DEF SeqInv
<1>5. AnswerInv'
  <2>1. answered \subseteq Callers BY <1>0, Zenon DEF TypeOK
  <2> QED BY <1>0, <1>1, <1>3, <2>1, IdleType, Zenon DEF AnswerInv
<1>6. FlagHasOwner'
  <2>1. reconnectingFlag \in {0, 1} BY <1>0, Zenon DEF TypeOK
  <2> QED BY <1>0, <1>1, <1>3, <2>1, Zenon DEF FlagHasOwner
<1> QED BY <1>2, <1>4, <1>5, <1>6, Zenon DEF Inv

\* A new call keeps it.
LEMMA BeginInv ==
  ASSUME CountFacts, Inv, NEW c \in Callers, NEW op \in Operations, Begin(c, op) PROVE Inv'
<1>0. TypeOK /\ LocalInv /\ SeqInv /\ AnswerInv BY Zenon DEF Inv
<1>1. /\ QuietStep(c) /\ calls' = calls + 1 /\ calls < MaxCalls
      /\ call[c].pc = "idle" /\ call'[c].pc = "load"
      /\ answered' = answered \ {c} /\ reconnectingFlag' = 0
  BY <1>0, BeginFacts, Zenon
<1>2. /\ TypeOK' /\ ConnInv' /\ LocalInv'
  <2>1. calls' \in 0 .. MaxCalls BY <1>0, <1>1, ClientAssumption DEF TypeOK
  <2> QED BY <1>1, <2>1, QuietKept, Zenon
<1>3. /\ UNCHANGED <<reconnectSequence, loop, owner, disconnects>>
      /\ \A d \in Callers : d # c => call'[d] = call[d]
  BY <1>1, Zenon DEF QuietStep
<1>4. SeqInv'
  <2>1. Pending' = Pending \cup {c} /\ c \notin Pending BY <1>1, <1>3, Zenon DEF Pending
  <2>2. /\ IsFiniteSet(Pending') /\ Cardinality(Pending') = Cardinality(Pending) + 1
        /\ Cardinality(Pending) \in Nat
    BY <1>0, <2>1, Zenon DEF SeqInv, CountFacts
  <2>3. reconnectSequence \in Nat /\ calls \in Nat /\ disconnects \in Nat
    BY <1>0, ClientAssumption DEF TypeOK, Loops
  <2>4. reconnectSequence' + Cardinality(Pending') <= calls' + disconnects'
    BY <1>0, <1>1, <1>3, <2>2, <2>3 DEF SeqInv
  <2> QED BY <1>0, <1>1, <1>3, <2>2, <2>4 DEF SeqInv
<1>5. AnswerInv' BY <1>0, <1>1, <1>3, Zenon DEF AnswerInv, TypeOK
<1>6. FlagHasOwner' BY <1>1 DEF FlagHasOwner
<1> QED BY <1>2, <1>4, <1>5, <1>6, Zenon DEF Inv

-----------------------------------------------------------------------------
(* The steps of a caller that hold a connection or take a number.          *)

\* What such a step of caller c leaves alone: only its own record changes, it
\* stays pending and, with the flag, in its section.
BusyStep(c) ==
  /\ UNCHANGED <<flagVars, loop, owner, answered, calls, disconnects>>
  /\ call' \in [Callers -> CallRecords]
  /\ \A d \in Callers : d # c => call'[d] = call[d]
  /\ {call[c].pc, call'[c].pc} \subseteq Sections
  /\ call'[c].op = call[c].op

\* The steps of a reconnecting call leave the counters and the flag alone.
LEMMA BusyKept ==
  ASSUME Inv, NEW c \in Callers, BusyStep(c)
  PROVE  SeqInv' /\ AnswerInv' /\ FlagHasOwner'
<1>0. /\ TypeOK /\ SeqInv /\ AnswerInv /\ FlagHasOwner
      /\ UNCHANGED <<reconnectingFlag, reconnectSequence, loop, owner, answered,
                      calls, disconnects>>
      /\ \A d \in Callers : d # c => call'[d] = call[d]
      /\ {call[c].pc, call'[c].pc} \subseteq Sections
      /\ call'[c].op = call[c].op
      /\ Sections \cap {"idle", "spawn"} = {}
  BY Zenon DEF Inv, BusyStep, flagVars, Sections
<1>1. Pending' = Pending BY <1>0, Zenon DEF Pending
<1>2. SeqInv' BY <1>0, <1>1 DEF SeqInv
<1>3. AnswerInv' BY <1>0 DEF AnswerInv, TypeOK
<1>4. FlagHasOwner' BY <1>0, Zenon DEF FlagHasOwner
<1> QED BY <1>2, <1>3, <1>4, Zenon

\* The step of c that gives it a place and a connection.
CallMove(c, pc, k) ==
  /\ call' = [call EXCEPT ![c] = [call[c] EXCEPT !.pc = pc, !.new = k]]
  /\ call[c].pc \in Sections /\ connected' = connected
  /\ UNCHANGED <<flagVars, loop, owner, answered, calls, disconnects>>
  /\ Hands(k, call[c].new)
  /\ pc \in {"wait", "install"} => k # NoConn
  /\ pc \notin {"wait", "install", "closeOld"} => k = NoConn

\* The dial, its wait, the swap and the closing of the old connection are such.
LEMMA BusyMoves ==
  ASSUME Inv, NEW c \in Callers, Dial(c) \/ Wait(c) \/ Install(c) \/ CloseOld(c)
  PROVE  \E pc \in Sections, k \in Conns \cup {NoConn} : CallMove(c, pc, k)
<1>0. /\ call[c] \in CallRecords /\ call \in [Callers -> CallRecords]
      /\ call[c].new \in Conns \cup {NoConn}
      /\ connection \in Conns \cup {NoConn}
      /\ call[c].pc \in {"wait", "install"} => call[c].new # NoConn
      /\ call[c].pc = "dial" => call[c].new = NoConn
  BY Zenon DEF Inv, TypeOK, LocalInv, CallRecords
<1>1. {"wait", "install", "handOver", "clear", "closeOld", "dial"} \subseteq Sections
  BY Zenon DEF Sections
<1>2. CASE Dial(c)
  <2>1. /\ newConnection \in Conns
        /\ Fresh(newConnection, open, connection, owner.conn, News, LoopConns)
    BY <1>2, NewIsFresh, Zenon DEF Dial
  <2>2. newConnection # NoConn BY <2>1, Zenon DEF Fresh
  <2>3. Hands(newConnection, call[c].new)
    BY <1>0, <1>2, <2>1, Zenon DEF Dial, Hands, Dialled
  <2>4. CallMove(c, "wait", newConnection)
    BY <1>1, <1>2, <2>2, <2>3, Zenon DEF Dial, CallMove
  <2> QED BY <1>1, <2>1, <2>4, Zenon
<1>3. CASE Wait(c)
  <2>1. CASE Goto(c, "install") /\ UNCHANGED open
    <3>1. call' = [call EXCEPT ![c] = [call[c] EXCEPT !.pc = "install",
                                                      !.new = call[c].new]]
      BY <1>0, <2>1, Zenon DEF Goto, CallRecords
    <3>2. Hands(call[c].new, call[c].new) BY <1>3, <2>1, Zenon DEF Wait, Hands, Kept
    <3>3. CallMove(c, "install", call[c].new)
      BY <1>0, <1>1, <1>3, <3>1, <3>2, Zenon DEF Wait, CallMove
    <3> QED BY <1>0, <1>1, <3>3, Zenon
  <2>2. CASE DropNew(c)
    <3>1. Hands(NoConn, call[c].new)
      BY <1>3, <2>2, Zenon DEF Wait, DropNew, Hands, Dropped
    <3>2. CallMove(c, "handOver", NoConn)
      BY <1>1, <1>3, <2>2, <3>1, Zenon DEF Wait, DropNew, CallMove
    <3> QED BY <1>1, <3>2, Zenon
  <2> QED BY <1>3, <2>1, <2>2, Zenon DEF Wait
<1>4. CASE Install(c)
  <2>1. CASE connected
    <3>1. Hands(connection, call[c].new)
      BY <1>0, <1>4, <2>1, Zenon DEF Install, Hands, Swapped
    <3>2. CallMove(c, "closeOld", connection)
      BY <1>1, <1>4, <2>1, <3>1, Zenon DEF Install, CallMove
    <3> QED BY <1>0, <1>1, <3>2, Zenon
  <2>2. CASE ~connected
    <3>1. Hands(NoConn, call[c].new)
      BY <1>4, <2>2, Zenon DEF Install, DropNew, Hands, Dropped
    <3>2. CallMove(c, "handOver", NoConn)
      BY <1>1, <1>4, <2>2, <3>1, Zenon DEF Install, DropNew, CallMove
    <3> QED BY <1>1, <3>2, Zenon
  <2> QED BY <2>1, <2>2, Zenon
<1>5. CASE CloseOld(c)
  <2>1. Hands(NoConn, call[c].new) BY <1>5, Zenon DEF CloseOld, Hands, Dropped
  <2>2. CallMove(c, "clear", NoConn)
    BY <1>1, <1>5, <2>1, Zenon DEF CloseOld, CallMove
  <2> QED BY <1>1, <2>2, Zenon
<1> QED BY <1>2, <1>3, <1>4, <1>5, Zenon

\* They keep the invariant.
LEMMA BusyInv ==
  ASSUME Inv, NEW c \in Callers, NEW pc \in Sections, NEW k \in Conns \cup {NoConn},
         CallMove(c, pc, k)
  PROVE  Inv'
<1> DEFINE r == [call[c] EXCEPT !.pc = pc, !.new = k]
<1>0. TypeOK /\ ConnInv /\ LocalInv /\ call \in [Callers -> CallRecords]
  BY Zenon DEF Inv, TypeOK
<1>1. r \in CallRecords /\ r.pc = pc /\ r.new = k /\ r.op = call[c].op
  BY <1>0, Zenon DEF CallRecords
<1>2. /\ call' = [call EXCEPT ![c] = r] /\ connected' = connected
      /\ UNCHANGED <<flagVars, loop, owner, answered, calls, disconnects>>
      /\ Hands(k, call[c].new) /\ call[c].pc \in Sections
      /\ pc \in {"wait", "install"} => k # NoConn
      /\ pc \notin {"wait", "install", "closeOld"} => k = NoConn
  BY Zenon DEF CallMove
<1> HIDE DEF r
<1>3. /\ call' \in [Callers -> CallRecords] /\ call'[c] = r
      /\ \A d \in Callers : d # c => call'[d] = call[d]
  BY <1>0, <1>1, <1>2, Zenon
<1>4. BusyStep(c) BY <1>1, <1>2, <1>3, Zenon DEF BusyStep
<1>5. /\ connection' \in Conns \cup {NoConn} /\ open' \subseteq Conns
      /\ connected' <=> connection' # NoConn
  <2>1. /\ connection \in Conns \cup {NoConn} /\ open \subseteq Conns
        /\ connected <=> connection # NoConn
    BY <1>0, Zenon DEF TypeOK, LocalInv
  <2>2. call[c].new \in Conns \cup {NoConn} BY <1>0, Zenon DEF CallRecords
  <2> QED BY <1>2, <2>1, <2>2, HandsType, Zenon
<1>6. ConnInv'
  <2>1. /\ Replaces(News', News, Callers, c, k) /\ News[c] = call[c].new
        /\ LoopConns' = LoopConns
    BY <1>1, <1>2, <1>3, Zenon DEF Replaces, News, LoopConns
  <2> QED BY <1>0, <1>2, <2>1, CallHands, Zenon
<1>7. TypeOK'
  BY <1>0, <1>2, <1>3, <1>5, Zenon DEF TypeOK, flagVars
<1>8. LocalInv' BY <1>0, <1>1, <1>2, <1>3, <1>5, Zenon DEF LocalInv
<1> QED BY <1>4, <1>6, <1>7, <1>8, BusyKept, Zenon DEF Inv

\* A caller takes a sequence number: there is one for it, and it is new.
LEMMA TakeSequenceInv ==
  ASSUME CountFacts, Inv, NEW c \in Callers, TakeSequence(c) PROVE Inv'
<1> DEFINE n == reconnectSequence + 1
           r == [call[c] EXCEPT !.pc = "spawn", !.sequence = n]
<1>0. /\ TypeOK /\ ConnInv /\ LocalInv /\ SeqInv /\ AnswerInv /\ FlagHasOwner
      /\ call \in [Callers -> CallRecords] /\ call[c].pc = "start"
      /\ reconnectSequence' = n
      /\ UNCHANGED <<connected, connection, open, reconnectingFlag, bgCancel, done, loop,
                      owner, answered, calls, disconnects>>
  BY Zenon DEF Inv, TypeOK, TakeSequence, connVars
<1>1. /\ reconnectSequence \in Nat /\ calls \in Nat /\ disconnects \in Nat
      /\ calls <= MaxCalls /\ disconnects <= MaxDisconnects
      /\ MaxCalls \in Nat /\ MaxDisconnects \in Nat
  BY <1>0, ClientAssumption DEF TypeOK, Loops
<1>2. /\ IsFiniteSet(Pending \ {c})
      /\ Cardinality(Pending \ {c}) = Cardinality(Pending) - 1
      /\ Cardinality(Pending \ {c}) \in Nat /\ Cardinality(Pending) \in Nat
  <2>1. c \in Pending /\ IsFiniteSet(Pending) BY <1>0, Zenon DEF Pending, SeqInv
  <2> QED BY <2>1, Zenon DEF CountFacts
<1>3. n \in Loops
  BY <1>0, <1>1, <1>2 DEF SeqInv, Loops
<1>4. /\ call' = [call EXCEPT ![c] = r] /\ r \in CallRecords /\ r.pc = "spawn"
      /\ r.sequence = n /\ r.new = call[c].new /\ r.op = call[c].op
  <2>1. call' = [call EXCEPT ![c] = r] BY <1>0, Zenon DEF TakeSequence
  <2> HIDE DEF n
  <2>2. /\ r \in CallRecords /\ r.pc = "spawn"
        /\ r.sequence = n /\ r.new = call[c].new /\ r.op = call[c].op
    BY <1>0, <1>3, Zenon DEF CallRecords
  <2> QED BY <2>1, <2>2, Zenon
<1> HIDE DEF r
<1>5. /\ call' \in [Callers -> CallRecords] /\ call'[c].pc = "spawn"
      /\ call'[c].sequence = n /\ call'[c].new = call[c].new /\ call'[c].op = call[c].op
      /\ \A d \in Callers : d # c => call'[d] = call[d]
  BY <1>0, <1>4, Zenon
<1>6. TypeOK' BY <1>0, <1>3, <1>5, Zenon DEF TypeOK
<1>7. ConnInv'
  <2>1. News' = News /\ LoopConns' = LoopConns BY <1>0, <1>5, Zenon DEF News, LoopConns
  <2> QED BY <1>0, <2>1, Zenon DEF ConnInv
<1>8. LocalInv' BY <1>0, <1>5, Zenon DEF LocalInv
<1>9. SeqInv'
  <2>1. Pending' = Pending \ {c} BY <1>5, Zenon DEF Pending
  <2>2. reconnectSequence' + Cardinality(Pending') <= calls' + disconnects'
    BY <1>0, <1>1, <1>2, <2>1 DEF SeqInv
  <2>3. \A s \in Loops : s \in Nat BY DEF Loops
  <2>4. loop[n].pc = "none" BY <1>0, <1>1, <1>3 DEF SeqInv
  <2> QED BY <1>0, <1>1, <1>2, <1>3, <1>5, <2>1, <2>2, <2>3, <2>4 DEF SeqInv
<1>10. AnswerInv' BY <1>0, <1>5 DEF AnswerInv, TypeOK
<1>11. FlagHasOwner' BY <1>0, <1>5, Zenon DEF FlagHasOwner
<1> QED BY <1>6, <1>7, <1>8, <1>9, <1>10, <1>11, Zenon DEF Inv

\* It starts the loop of that number.
LEMMA SpawnInv == ASSUME Inv, NEW c \in Callers, Spawn(c) PROVE Inv'
<1> DEFINE s == call[c].sequence
<1>0. /\ TypeOK /\ ConnInv /\ LocalInv /\ SeqInv /\ AnswerInv /\ FlagHasOwner
      /\ call \in [Callers -> CallRecords] /\ call[c].pc = "spawn"
      /\ UNCHANGED <<connected, connection, open, reconnectingFlag, reconnectSequence,
                      owner, answered, calls, disconnects>>
  BY Zenon DEF Inv, TypeOK, Spawn, connVars
<1>1. /\ s \in Loops /\ s <= reconnectSequence /\ loop[s].pc = "none"
      /\ loop[s].conn = NoConn
  BY <1>0, Zenon DEF SeqInv, LocalInv
<1>2. /\ call' \in [Callers -> CallRecords] /\ call'[c] = IdleCall
      /\ \A d \in Callers : d # c => call'[d] = call[d]
  BY <1>0, IdleType, Zenon DEF Spawn, Return
<1>3. /\ loop' \in [Loops -> [pc : {"none", "check", "wait", "install", "closeOld", "end"},
                               conn : Conns \cup {NoConn}]]
      /\ loop'[s].pc = "check" /\ loop'[s].conn = NoConn
      /\ \A t \in Loops : t # s => loop'[t] = loop[t]
      /\ bgCancel' = s /\ done' \subseteq Loops
  BY <1>0, <1>1, Zenon DEF Spawn, TypeOK, Cancelled
<1> HIDE DEF s
<1>4. TypeOK' BY <1>0, <1>1, <1>2, <1>3, Zenon DEF TypeOK
<1>5. ConnInv'
  <2>1. /\ \A d \in Callers : call'[d].new = call[d].new
        /\ \A t \in Loops : loop'[t].conn = loop[t].conn
    BY <1>0, <1>1, <1>2, <1>3, IdleType, Zenon DEF LocalInv
  <2>2. News' = News /\ LoopConns' = LoopConns BY <2>1, Zenon DEF News, LoopConns
  <2> QED BY <1>0, <2>2, Zenon DEF ConnInv
<1>6. LocalInv' BY <1>0, <1>2, <1>3, IdleType, Zenon DEF LocalInv
<1>7. SeqInv'
  <2>1. Pending' = Pending BY <1>0, <1>2, IdleType, Zenon DEF Pending
  <2>2. \A d \in Callers : call'[d].pc = "spawn" => d # c /\ call[d].sequence # s
    BY <1>0, <1>2, IdleType, Zenon DEF SeqInv, s
  <2> QED BY <1>0, <1>1, <1>2, <1>3, <2>1, <2>2 DEF SeqInv
<1>8. AnswerInv' BY <1>0, <1>2, IdleType DEF AnswerInv, TypeOK
<1>9. FlagHasOwner'
  <2>1. "spawn" \notin Sections BY Zenon DEF Sections
  <2>2. call[c].sequence = reconnectSequence => s = reconnectSequence BY Zenon DEF s
  <2> QED BY <1>0, <1>1, <1>2, <1>3, <2>1, <2>2 DEF FlagHasOwner
<1> QED BY <1>4, <1>5, <1>6, <1>7, <1>8, <1>9, Zenon DEF Inv

-----------------------------------------------------------------------------
(* The loops, Connect and Disconnect.                                      *)

LoopRecords == [pc : {"none", "check", "wait", "install", "closeOld", "end"},
                conn : Conns \cup {NoConn}]

\* The step of loop s that gives it a place and a connection.
LoopMove(s, pc, k) ==
  /\ loop' = [loop EXCEPT ![s] = [pc |-> pc, conn |-> k]]
  /\ loop[s].pc # "none" /\ connected' = connected
  /\ UNCHANGED <<flagVars, call, owner, answered, calls, disconnects>>
  /\ Hands(k, loop[s].conn)
  /\ pc \in {"wait", "install"} => k # NoConn
  /\ pc \notin {"wait", "install", "closeOld"} => k = NoConn

\* Every step of a loop, but its end, is such.
LEMMA LoopMoves ==
  ASSUME Inv, NEW s \in Loops,
         LoopCheck(s) \/ LoopWait(s) \/ LoopInstall(s) \/ LoopCloseOld(s)
  PROVE  \E pc \in {"check", "wait", "install", "closeOld", "end"},
            k \in Conns \cup {NoConn} : LoopMove(s, pc, k)
<1>0. /\ loop \in [Loops -> LoopRecords] /\ loop[s] \in LoopRecords
      /\ loop[s].conn \in Conns \cup {NoConn}
      /\ connection \in Conns \cup {NoConn}
      /\ loop[s].pc \in {"wait", "install"} => loop[s].conn # NoConn
      /\ loop[s].pc = "check" => loop[s].conn = NoConn
  BY Zenon DEF Inv, TypeOK, LocalInv, LoopRecords
<1>1. CASE LoopCheck(s)
  <2>1. CASE s \in done \/ ~connected
    <3>1. Hands(NoConn, loop[s].conn)
      BY <1>0, <1>1, <2>1, Zenon DEF LoopCheck, Hands, Kept
    <3>2. LoopMove(s, "end", NoConn)
      BY <1>1, <2>1, <3>1, Zenon DEF LoopCheck, LoopGoto, LoopMove
    <3> QED BY <3>2, Zenon
  <2>2. CASE ~(s \in done \/ ~connected)
    <3>1. /\ newConnection \in Conns
          /\ Fresh(newConnection, open, connection, owner.conn, News, LoopConns)
      BY <1>1, <2>2, NewIsFresh, Zenon DEF LoopCheck
    <3>2. newConnection # NoConn BY <3>1, Zenon DEF Fresh
    <3>3. Hands(newConnection, loop[s].conn)
      BY <1>0, <1>1, <2>2, <3>1, Zenon DEF LoopCheck, Hands, Dialled
    <3>4. LoopMove(s, "wait", newConnection)
      BY <1>1, <2>2, <3>2, <3>3, Zenon DEF LoopCheck, LoopMove
    <3> QED BY <3>1, <3>4, Zenon
  <2> QED BY <2>1, <2>2, Zenon
<1>2. CASE LoopWait(s)
  <2>1. CASE loop' = [loop EXCEPT ![s].pc = "install"] /\ UNCHANGED open
    <3>1. [loop[s] EXCEPT !.pc = "install"] = [pc |-> "install", conn |-> loop[s].conn]
      BY <1>0 DEF LoopRecords
    <3>2. loop' = [loop EXCEPT ![s] = [pc |-> "install", conn |-> loop[s].conn]]
      BY <2>1, <3>1, Zenon
    <3>3. Hands(loop[s].conn, loop[s].conn) BY <1>2, <2>1, Zenon DEF LoopWait, Hands, Kept
    <3>4. LoopMove(s, "install", loop[s].conn)
      BY <1>0, <1>2, <3>2, <3>3, Zenon DEF LoopWait, LoopMove
    <3> QED BY <1>0, <3>4, Zenon
  <2>2. CASE LoopGoto(s, "check") /\ open' = open \ {loop[s].conn}
    <3>1. Hands(NoConn, loop[s].conn)
      BY <1>2, <2>2, Zenon DEF LoopWait, Hands, Dropped
    <3>2. LoopMove(s, "check", NoConn)
      BY <1>2, <2>2, <3>1, Zenon DEF LoopWait, LoopGoto, LoopMove
    <3> QED BY <3>2, Zenon
  <2> QED BY <1>2, <2>1, <2>2, Zenon DEF LoopWait
<1>3. CASE LoopInstall(s)
  <2>1. CASE ~connected \/ s \in done
    <3>1. Hands(NoConn, loop[s].conn)
      BY <1>3, <2>1, Zenon DEF LoopInstall, Hands, Dropped
    <3>2. LoopMove(s, "end", NoConn)
      BY <1>3, <2>1, <3>1, Zenon DEF LoopInstall, LoopGoto, LoopMove
    <3> QED BY <3>2, Zenon
  <2>2. CASE ~(~connected \/ s \in done)
    <3>1. Hands(connection, loop[s].conn)
      BY <1>0, <1>3, <2>2, Zenon DEF LoopInstall, Hands, Swapped
    <3>2. LoopMove(s, "closeOld", connection)
      BY <1>3, <2>2, <3>1, Zenon DEF LoopInstall, LoopMove
    <3> QED BY <1>0, <3>2, Zenon
  <2> QED BY <2>1, <2>2, Zenon
<1>4. CASE LoopCloseOld(s)
  <2>1. Hands(NoConn, loop[s].conn) BY <1>4, Zenon DEF LoopCloseOld, Hands, Dropped
  <2>2. LoopMove(s, "end", NoConn)
    BY <1>4, <2>1, Zenon DEF LoopCloseOld, LoopGoto, LoopMove
  <2> QED BY <2>2, Zenon
<1> QED BY <1>1, <1>2, <1>3, <1>4, Zenon

\* They keep the invariant.
LEMMA LoopStepInv ==
  ASSUME Inv, NEW s \in Loops, NEW pc \in {"check", "wait", "install", "closeOld", "end"},
         NEW k \in Conns \cup {NoConn}, LoopMove(s, pc, k)
  PROVE  Inv'
<1>0. /\ TypeOK /\ ConnInv /\ LocalInv /\ SeqInv /\ AnswerInv /\ FlagHasOwner
      /\ loop \in [Loops -> LoopRecords]
  BY Zenon DEF Inv, TypeOK, LoopRecords
<1>1. /\ loop' = [loop EXCEPT ![s] = [pc |-> pc, conn |-> k]] /\ connected' = connected
      /\ UNCHANGED <<reconnectingFlag, reconnectSequence, bgCancel, done, call, owner,
                      answered, calls, disconnects>>
      /\ Hands(k, loop[s].conn) /\ loop[s].pc # "none"
      /\ pc \in {"wait", "install"} => k # NoConn
      /\ pc \notin {"wait", "install", "closeOld"} => k = NoConn
  BY Zenon DEF LoopMove, flagVars
<1>2. /\ loop' \in [Loops -> LoopRecords]
      /\ \A t \in Loops : t # s => loop'[t] = loop[t]
      /\ loop'[s].pc = pc /\ loop'[s].conn = k /\ pc # "none"
  <2>1. [pc |-> pc, conn |-> k] \in LoopRecords BY Zenon DEF LoopRecords
  <2> QED BY <1>0, <1>1, <2>1, Zenon
<1>3. /\ connection' \in Conns \cup {NoConn} /\ open' \subseteq Conns
      /\ connected' <=> connection' # NoConn
  <2>1. /\ connection \in Conns \cup {NoConn} /\ open \subseteq Conns
        /\ connected <=> connection # NoConn
    BY <1>0, Zenon DEF TypeOK, LocalInv
  <2>2. loop[s].conn \in Conns \cup {NoConn} BY <1>0, Zenon DEF LoopRecords
  <2> QED BY <1>1, <2>1, <2>2, HandsType, Zenon
<1>4. ConnInv'
  <2>1. /\ Replaces(LoopConns', LoopConns, Loops, s, k) /\ LoopConns[s] = loop[s].conn
        /\ News' = News
    BY <1>1, <1>2, Zenon DEF Replaces, News, LoopConns
  <2> QED BY <1>0, <1>1, <2>1, LoopHands, Zenon
<1>5. TypeOK' BY <1>0, <1>1, <1>2, <1>3, Zenon DEF TypeOK, LoopRecords
<1>6. LocalInv' BY <1>0, <1>1, <1>2, <1>3, Zenon DEF LocalInv
<1>7. SeqInv'
  <2>1. Pending' = Pending BY <1>1, Zenon DEF Pending
  <2>2. UNCHANGED <<call, reconnectSequence, calls, disconnects>> BY <1>1, Zenon
  <2>3. \A t \in Loops : loop'[t].pc = "none" <=> loop[t].pc = "none" BY <1>1, <1>2, Zenon
  <2> QED BY <1>0, <2>1, <2>2, <2>3, Zenon DEF SeqInv
<1>8. AnswerInv' BY <1>0, <1>1, Zenon DEF AnswerInv
<1>9. FlagHasOwner' BY <1>0, <1>1, <1>2, Zenon DEF FlagHasOwner
<1> QED BY <1>4, <1>5, <1>6, <1>7, <1>8, <1>9, Zenon DEF Inv

\* The end of a loop, and its timeout.
LEMMA LoopEndInv == ASSUME Inv, NEW s \in Loops, LoopEnd(s) \/ LoopTimeout(s) PROVE Inv'
<1>0. /\ TypeOK /\ ConnInv /\ LocalInv /\ SeqInv /\ AnswerInv /\ FlagHasOwner
      /\ loop \in [Loops -> LoopRecords]
      /\ UNCHANGED <<connected, connection, open, reconnectSequence, call, owner,
                      answered, calls, disconnects>>
  BY Zenon DEF Inv, TypeOK, LoopRecords, LoopEnd, LoopTimeout, connVars
<1>1. /\ \A t \in Loops : t # s => loop'[t] = loop[t]
      /\ loop' \in [Loops -> LoopRecords] /\ loop'[s].conn = loop[s].conn
      /\ loop'[s].pc \in {loop[s].pc, "none"}
      /\ reconnectingFlag' \in {0, 1} /\ bgCancel' \in {0} \cup Loops
      /\ done' \subseteq Loops
      /\ reconnectingFlag' = 1 => /\ reconnectingFlag = 1
                                 /\ (loop'[s].pc = loop[s].pc \/ reconnectSequence # s)
  <2>1. CASE LoopEnd(s)
    <3>1. loop' = [loop EXCEPT ![s] = [pc |-> "none", conn |-> NoConn]]
      BY <2>1, Zenon DEF LoopEnd, LoopGoto
    <3>2. loop[s].conn = NoConn BY <1>0, <2>1, Zenon DEF LoopEnd, LocalInv
    <3>3. /\ loop' \in [Loops -> LoopRecords] /\ loop'[s].pc = "none"
          /\ loop'[s].conn = NoConn /\ \A t \in Loops : t # s => loop'[t] = loop[t]
      BY <1>0, <3>1, Zenon DEF LoopRecords
    <3> QED BY <1>0, <2>1, <3>2, <3>3 DEF LoopEnd, ClearsFlag, TypeOK
  <2>2. CASE LoopTimeout(s)
    BY <1>0, <2>2, Zenon DEF LoopTimeout, TypeOK
  <2> QED BY <2>1, <2>2, Zenon
<1>2. TypeOK' BY <1>0, <1>1, Zenon DEF TypeOK, LoopRecords
<1>3. ConnInv'
  <2>1. \A t \in Loops : loop'[t].conn = loop[t].conn BY <1>1, Zenon
  <2>2. News' = News /\ LoopConns' = LoopConns BY <1>0, <2>1, Zenon DEF News, LoopConns
  <2> QED BY <1>0, <2>2, Zenon DEF ConnInv
<1>4. LocalInv'
  <2>1. CASE LoopEnd(s)
    <3>1. loop'[s].conn = NoConn /\ loop'[s].pc = "none"
      BY <1>0, <2>1, Zenon DEF LoopEnd, LoopGoto, LocalInv, LoopRecords
    <3> QED BY <1>0, <1>1, <3>1, Zenon DEF LocalInv
  <2>2. CASE LoopTimeout(s)
    BY <1>0, <2>2, Zenon DEF LoopTimeout, LocalInv
  <2> QED BY <2>1, <2>2, Zenon
<1>5. SeqInv'
  <2>1. Pending' = Pending BY <1>0, Zenon DEF Pending
  <2> QED BY <1>0, <1>1, <2>1, Zenon DEF SeqInv
<1>6. AnswerInv' BY <1>0, Zenon DEF AnswerInv
<1>7. FlagHasOwner'
  <2>1. ASSUME reconnectingFlag' = 1, NEW t \in Loops, loop[t].pc # "none",
               t = reconnectSequence
        PROVE  loop'[t].pc # "none"
    BY <1>1, <2>1, Zenon
  <2>2. reconnectingFlag' = 1 => reconnectingFlag = 1
    BY DEF LoopEnd, LoopTimeout
  <2> QED BY <1>0, <2>1, <2>2, Zenon DEF FlagHasOwner
<1> QED BY <1>2, <1>3, <1>4, <1>5, <1>6, <1>7, Zenon DEF Inv

\* Connect installs the connection it dials.
LEMMA ConnectInv == ASSUME Inv, Connect PROVE Inv'
<1>a. /\ TypeOK /\ ConnInv /\ LocalInv /\ SeqInv /\ AnswerInv /\ FlagHasOwner
      /\ owner \in [pc : {"idle", "cancel", "clear", "drop", "close"},
                    conn : Conns \cup {NoConn}]
      /\ Apart(open, connection, owner.conn, News, LoopConns)
      /\ connection \in Conns \cup {NoConn} /\ open \subseteq Conns
  BY Zenon DEF Inv, TypeOK, ConnInv
<1>b. UNCHANGED <<call, loop, answered, calls>> BY Zenon DEF Connect
<1>c. News' = News /\ LoopConns' = LoopConns /\ Pending' = Pending
  BY <1>b, Zenon DEF News, LoopConns, Pending
<1>d. AnswerInv' BY <1>a, <1>b, Zenon DEF AnswerInv
<1>1. /\ newConnection \in Conns
      /\ Fresh(newConnection, open, connection, owner.conn, News, LoopConns)
  BY NewIsFresh, Zenon DEF Connect
<1>2. /\ connected' = TRUE /\ connection' = newConnection
      /\ open' = open \cup {newConnection} /\ connection = NoConn
      /\ UNCHANGED <<reconnectingFlag, reconnectSequence, bgCancel, done, owner,
                      disconnects>>
  BY <1>a, Zenon DEF Connect, flagVars, LocalInv
<1>3. TypeOK' BY <1>a, <1>b, <1>1, <1>2, Zenon DEF TypeOK
<1>4. ConnInv' BY <1>a, <1>c, <1>1, <1>2, ClientTakes, Zenon DEF ConnInv
<1>5. LocalInv' BY <1>a, <1>b, <1>1, <1>2, Zenon DEF LocalInv, Fresh
<1>6. SeqInv' BY <1>a, <1>b, <1>c, <1>2, Zenon DEF SeqInv
<1>7. FlagHasOwner' BY <1>a, <1>b, <1>2, Zenon DEF FlagHasOwner
<1> QED BY <1>d, <1>3, <1>4, <1>5, <1>6, <1>7, Zenon DEF Inv

\* Disconnect takes a sequence number too.
LEMMA DisconnectBeginInv == ASSUME CountFacts, Inv, DisconnectBegin PROVE Inv'
<1>a. /\ TypeOK /\ ConnInv /\ LocalInv /\ SeqInv /\ AnswerInv /\ FlagHasOwner
      /\ owner \in [pc : {"idle", "cancel", "clear", "drop", "close"},
                    conn : Conns \cup {NoConn}]
      /\ Apart(open, connection, owner.conn, News, LoopConns)
      /\ connection \in Conns \cup {NoConn} /\ open \subseteq Conns
  BY Zenon DEF Inv, TypeOK, ConnInv
<1>b. UNCHANGED <<call, loop, answered, calls>> BY Zenon DEF DisconnectBegin
<1>c. News' = News /\ LoopConns' = LoopConns /\ Pending' = Pending
  BY <1>b, Zenon DEF News, LoopConns, Pending
<1>d. AnswerInv' BY <1>a, <1>b, Zenon DEF AnswerInv
<1>1. /\ disconnects < MaxDisconnects /\ disconnects' = disconnects + 1
      /\ reconnectSequence' = reconnectSequence + 1
      /\ UNCHANGED <<connected, connection, open, reconnectingFlag, bgCancel, done>>
      /\ owner.pc = "idle" /\ owner' = [owner EXCEPT !.pc = "cancel"]
  BY Zenon DEF DisconnectBegin, connVars
<1>2. /\ owner' \in [pc : {"idle", "cancel", "clear", "drop", "close"},
                     conn : Conns \cup {NoConn}]
      /\ owner'.pc = "cancel" /\ owner'.conn = owner.conn
  BY <1>a, <1>1, Zenon
<1>3. /\ reconnectSequence \in Nat /\ calls \in Nat /\ disconnects \in Nat
      /\ calls <= MaxCalls /\ Cardinality(Pending) \in Nat
      /\ MaxCalls \in Nat /\ MaxDisconnects \in Nat
  <2>1. Cardinality(Pending) \in Nat BY <1>a, Zenon DEF SeqInv, CountFacts
  <2> QED BY <1>a, <2>1, ClientAssumption DEF TypeOK, Loops
<1>4. /\ reconnectSequence' + Cardinality(Pending') <= calls' + disconnects'
      /\ reconnectSequence' \in Loops
  BY <1>a, <1>b, <1>c, <1>1, <1>3 DEF SeqInv, Loops
<1>5. TypeOK' BY <1>a, <1>b, <1>1, <1>2, <1>3, <1>4 DEF TypeOK
<1>6. ConnInv' BY <1>a, <1>c, <1>1, <1>2, Zenon DEF ConnInv
<1>7. LocalInv' BY <1>a, <1>b, <1>1, <1>2, Zenon DEF LocalInv
<1>8. SeqInv'
  <2>1. \A t \in Loops : t \in Nat BY DEF Loops
  <2> QED BY <1>a, <1>b, <1>c, <1>1, <1>3, <1>4, <2>1 DEF SeqInv
<1>9. FlagHasOwner' BY <1>2, Zenon DEF FlagHasOwner
<1> QED BY <1>d, <1>5, <1>6, <1>7, <1>8, <1>9, Zenon DEF Inv

\* It cancels the latest loop and clears the flag.
LEMMA DisconnectSignalsInv == ASSUME Inv, DisconnectCancel \/ DisconnectClear PROVE Inv'
<1>a. /\ TypeOK /\ ConnInv /\ LocalInv /\ SeqInv /\ AnswerInv /\ FlagHasOwner
      /\ owner \in [pc : {"idle", "cancel", "clear", "drop", "close"},
                    conn : Conns \cup {NoConn}]
      /\ Apart(open, connection, owner.conn, News, LoopConns)
      /\ connection \in Conns \cup {NoConn} /\ open \subseteq Conns
  BY Zenon DEF Inv, TypeOK, ConnInv
<1>b. UNCHANGED <<call, loop, answered, calls>> BY Zenon DEF DisconnectCancel, DisconnectClear
<1>c. News' = News /\ LoopConns' = LoopConns /\ Pending' = Pending
  BY <1>b, Zenon DEF News, LoopConns, Pending
<1>d. AnswerInv' BY <1>a, <1>b, Zenon DEF AnswerInv
<1>1. /\ UNCHANGED <<connected, connection, open, reconnectSequence, disconnects>>
      /\ bgCancel' \in {bgCancel, 0} /\ done' \in {done, Cancelled}
      /\ \/ owner.pc = "cancel" /\ owner' = [owner EXCEPT !.pc = "clear"]
            /\ reconnectingFlag' = reconnectingFlag
         \/ owner.pc = "clear" /\ owner' = [owner EXCEPT !.pc = "drop"]
            /\ reconnectingFlag' = 0
  BY Zenon DEF DisconnectCancel, DisconnectClear, connVars
<1>2. /\ owner' \in [pc : {"idle", "cancel", "clear", "drop", "close"},
                     conn : Conns \cup {NoConn}]
      /\ owner'.conn = owner.conn /\ owner'.conn = NoConn
      /\ reconnectingFlag' = 0 \/ owner'.pc = "clear"
      /\ reconnectingFlag' \in {0, 1}
  BY <1>a, <1>1, Zenon DEF LocalInv, TypeOK
<1>3. done' \subseteq Loops /\ bgCancel' \in {0} \cup Loops
  BY <1>a, <1>1, Zenon DEF TypeOK, Cancelled
<1>4. TypeOK' BY <1>a, <1>b, <1>1, <1>2, <1>3, Zenon DEF TypeOK
<1>5. ConnInv' BY <1>a, <1>c, <1>1, <1>2, Zenon DEF ConnInv
<1>6. LocalInv' BY <1>a, <1>b, <1>1, <1>2, Zenon DEF LocalInv
<1>7. SeqInv' BY <1>a, <1>b, <1>c, <1>1 DEF SeqInv
<1>8. FlagHasOwner' BY <1>2 DEF FlagHasOwner
<1> QED BY <1>d, <1>4, <1>5, <1>6, <1>7, <1>8, Zenon DEF Inv

\* It takes the installed connection away, and closes it.
LEMMA DisconnectDropInv == ASSUME Inv, DisconnectDrop \/ DisconnectClose PROVE Inv'
<1>a. /\ TypeOK /\ ConnInv /\ LocalInv /\ SeqInv /\ AnswerInv /\ FlagHasOwner
      /\ owner \in [pc : {"idle", "cancel", "clear", "drop", "close"},
                    conn : Conns \cup {NoConn}]
      /\ Apart(open, connection, owner.conn, News, LoopConns)
      /\ connection \in Conns \cup {NoConn} /\ open \subseteq Conns
  BY Zenon DEF Inv, TypeOK, ConnInv
<1>b. UNCHANGED <<call, loop, answered, calls>> BY Zenon DEF DisconnectDrop, DisconnectClose
<1>c. News' = News /\ LoopConns' = LoopConns /\ Pending' = Pending
  BY <1>b, Zenon DEF News, LoopConns, Pending
<1>d. AnswerInv' BY <1>a, <1>b, Zenon DEF AnswerInv
<1>1. /\ UNCHANGED <<reconnectingFlag, reconnectSequence, bgCancel, done, disconnects>>
      /\ \/ /\ owner.pc = "drop" /\ connected' = FALSE /\ connection' = NoConn
            /\ open' = open /\ owner' = [pc |-> "close", conn |-> connection]
         \/ /\ owner.pc = "close" /\ connected' = connected
            /\ connection' = connection /\ open' = open \ {owner.conn}
            /\ owner' = [pc |-> "idle", conn |-> NoConn]
  BY Zenon DEF DisconnectDrop, DisconnectClose, flagVars
<1>2. TypeOK'
  <2>1. /\ owner' \in [pc : {"idle", "cancel", "clear", "drop", "close"},
                       conn : Conns \cup {NoConn}]
        /\ connected' \in BOOLEAN /\ connection' \in Conns \cup {NoConn}
        /\ open' \subseteq Conns
    <3>1. connected \in BOOLEAN BY <1>a, Zenon DEF TypeOK
    <3>2. CASE owner.pc = "drop" 
      <4>1. owner' = [pc |-> "close", conn |-> connection] /\ connected' = FALSE
            /\ connection' = NoConn /\ open' = open
        BY <1>1, <3>2, Zenon
      <4> QED BY <1>a, <4>1, Zenon
    <3>3. CASE owner.pc = "close"
      <4>1. owner' = [pc |-> "idle", conn |-> NoConn] /\ connected' = connected
            /\ connection' = connection /\ open' = open \ {owner.conn}
        BY <1>1, <3>3, Zenon
      <4> QED BY <1>a, <3>1, <4>1, Zenon
    <3> QED BY <1>1, <3>2, <3>3, Zenon
  <2> QED BY <1>a, <1>b, <1>1, <2>1, Zenon DEF TypeOK
<1>3. ConnInv'
  <2>1. CASE owner.pc = "drop"
    <3>1. owner.conn = NoConn BY <1>a, <2>1, Zenon DEF LocalInv
    <3>2. owner'.conn = connection /\ connection' = NoConn /\ open' = open
      BY <1>1, <2>1
    <3> QED BY <1>a, <1>c, <3>1, <3>2, OwnerTakes, Zenon DEF ConnInv
  <2>2. CASE owner.pc = "close"
    <3>1. owner'.conn = NoConn /\ connection' = connection /\ open' = open \ {owner.conn}
      BY <1>1, <2>2
    <3> QED BY <1>a, <1>c, <3>1, OwnerDrops, Zenon DEF ConnInv
  <2> QED BY <1>1, <2>1, <2>2, Zenon
<1>4. LocalInv' BY <1>a, <1>b, <1>1 DEF LocalInv
<1>5. SeqInv' BY <1>a, <1>b, <1>c, <1>1, Zenon DEF SeqInv
<1>6. owner.pc \notin {"cancel", "clear"} BY <1>1, Zenon
<1>7. FlagHasOwner' BY <1>a, <1>b, <1>1, <1>6, Zenon DEF FlagHasOwner
<1> QED BY <1>d, <1>2, <1>3, <1>4, <1>5, <1>7, Zenon DEF Inv

-----------------------------------------------------------------------------
(* The theorems.                                                           *)

\* The invariant holds at first.
LEMMA InitInv == ASSUME CountFacts, Init PROVE Inv
<1>0. /\ \A c \in Callers : call[c] = IdleCall
      /\ \A s \in Loops : loop[s] = NoLoop /\ loop[s].conn = NoConn /\ loop[s].pc = "none"
      /\ owner.pc = "idle" /\ owner.conn = NoConn
  BY Zenon DEF Init, NoLoop
<1>1. TypeOK
  <2>1. call \in [Callers -> CallRecords] BY IdleType, Zenon DEF Init
  <2>2. loop \in [Loops -> [pc : {"none", "check", "wait", "install", "closeOld", "end"},
                            conn : Conns \cup {NoConn}]]
    BY Zenon DEF Init, NoLoop
  <2>3. owner \in [pc : {"idle", "cancel", "clear", "drop", "close"},
                   conn : Conns \cup {NoConn}]
    BY Zenon DEF Init
  <2>4. calls \in 0 .. MaxCalls /\ disconnects \in 0 .. MaxDisconnects
    BY ClientAssumption DEF Init
  <2> QED BY <2>1, <2>2, <2>3, <2>4, Zenon DEF Init, TypeOK
<1>2. ConnInv
  <2>1. /\ \A c \in Callers : News[c] = NoConn
        /\ \A s \in Loops : LoopConns[s] = NoConn
    BY <1>0, IdleType, Zenon DEF News, LoopConns
  <2> QED BY <1>0, <2>1, Zenon DEF Init, ConnInv, Apart
<1>3. LocalInv BY <1>0, IdleType, Zenon DEF Init, LocalInv
<1>4. SeqInv
  <2>1. Pending = {} BY <1>0, IdleType, Zenon DEF Pending
  <2>2. IsFiniteSet({}) /\ Cardinality({}) = 0 BY Zenon DEF CountFacts
  <2> QED BY <1>0, <2>1, <2>2, IdleType DEF Init, SeqInv
<1>5. AnswerInv BY Zenon DEF Init, AnswerInv
<1>6. FlagHasOwner BY DEF Init, FlagHasOwner
<1> QED BY <1>1, <1>2, <1>3, <1>4, <1>5, <1>6, Zenon DEF Inv

\* Every step keeps it.
LEMMA NextInv == ASSUME CountFacts, Inv, [Next]_vars PROVE Inv'
<1>1. ASSUME NEW c \in Callers, CallStep(c) PROVE Inv'
  <2>1. \/ QuietActions(c) \/ TakeSequence(c) \/ Spawn(c)
        \/ (Dial(c) \/ Wait(c) \/ Install(c) \/ CloseOld(c))
    BY <1>1, Zenon DEF CallStep, QuietActions
  <2> QED BY <2>1, QuietActionsInv, BusyMoves, BusyInv, TakeSequenceInv, SpawnInv, Zenon
<1>2. ASSUME NEW s \in Loops, LoopStep(s) \/ LoopTimeout(s) PROVE Inv'
  BY <1>2, LoopMoves, LoopStepInv, LoopEndInv, Zenon DEF LoopStep
<1>3. CASE UNCHANGED vars
  <2>1. UNCHANGED <<connected, connection, open, reconnectingFlag, reconnectSequence,
                    bgCancel, done, call, loop, owner, answered, calls, disconnects>>
    BY <1>3, Zenon DEF vars, connVars, flagVars
  <2>2. TypeOK' BY <2>1, Zenon DEF Inv, TypeOK
  <2>3. ConnInv' BY <2>1, Zenon DEF Inv, ConnInv, News, LoopConns
  <2>4. LocalInv' BY <2>1, Zenon DEF Inv, LocalInv
  <2>5. SeqInv' BY <2>1, Zenon DEF Inv, SeqInv, Pending
  <2>6. AnswerInv' BY <2>1, Zenon DEF Inv, AnswerInv
  <2>7. FlagHasOwner' BY <2>1, Zenon DEF Inv, FlagHasOwner
  <2> QED BY <2>2, <2>3, <2>4, <2>5, <2>6, <2>7, Zenon DEF Inv
<1> QED BY <1>1, <1>2, <1>3, BeginInv, ConnectInv, DisconnectBeginInv,
          DisconnectSignalsInv, DisconnectDropInv, Zenon DEF Next, DisconnectStep

-----------------------------------------------------------------------------
(* The theorems.                                                           *)

\* The facts about finite sets that the steps rest on.
LEMMA Counts == CountFacts
BY FS_EmptySet, FS_CardinalityType, FS_Subset, FS_AddElement, FS_RemoveElement
   DEF CountFacts

\* The invariant holds in every state.
THEOREM InvHolds == Spec => []Inv
<1>1. Init => Inv BY Counts, InitInv
<1>2. Inv /\ [Next]_vars => Inv' BY Counts, NextInv
<1> QED BY <1>1, <1>2, PTL DEF Spec

\* The types are kept; in particular the sequence numbers stay within one per
\* call and one per Disconnect (TypeOK).
THEOREM TypeCorrect == Spec => []TypeOK
<1>1. Inv => TypeOK BY DEF Inv
<1> QED BY <1>1, InvHolds, PTL

\* No gRPC connection is leaked: whichever is open is installed, or held by a
\* goroutine that has still to install or to close it.
THEOREM NothingStray == Spec => []NoStrayConnection
<1>1. Inv => NoStrayConnection
  <2> SUFFICES ASSUME Inv, NEW x \in open
               PROVE  \/ x = connection \/ x = owner.conn
                      \/ \E c \in Callers : x = call[c].new
                      \/ \E s \in Loops : x = loop[s].conn
    BY DEF NoStrayConnection
  <2>1. \/ x = connection \/ x = owner.conn
        \/ \E c \in Callers : x = News[c]
        \/ \E s \in Loops : x = LoopConns[s]
    BY Zenon DEF Inv, ConnInv, Apart
  <2> QED BY <2>1 DEF News, LoopConns
<1> QED BY <1>1, InvHolds, PTL

\* The installed connection is never closed by a goroutine that closes the one
\* it replaced or gave up (doWithReconnect, backgroundReconnect).
THEOREM InstalledStaysOpen == Spec => []InstalledIsOpen
<1>1. Inv => InstalledIsOpen
  BY Zenon DEF Inv, ConnInv, Apart, LocalInv, InstalledIsOpen
<1> QED BY <1>1, InvHolds, PTL

\* While the flag that fails every call is set, somebody is left to clear it.
THEOREM FlagOwned == Spec => []FlagHasOwner
<1>1. Inv => FlagHasOwner BY DEF Inv
<1> QED BY <1>1, InvHolds, PTL

\* A mount operation that the daemon answered is not sent again.
THEOREM NotSentAgain == Spec => []AnsweredOnce
<1>1. Inv => AnsweredOnce BY Zenon DEF Inv, AnswerInv, AnsweredOnce
<1> QED BY <1>1, InvHolds, PTL
=============================================================================
