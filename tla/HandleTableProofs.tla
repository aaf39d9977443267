-------------------------- MODULE HandleTableProofs --------------------------
(***************************************************************************)
(* Proofs about HandleTable, for any number of handlers, parameters and    *)
(* queries and both kinds of mutex: what ProcessTick, the worker's pass    *)
(* and the scripts' handles rely on while the vector changes under them.   *)
(***************************************************************************)
EXTENDS HandleTable, QueueLemmas

\* The query of a statement in progress that will end in an error record.
Pending(x) == IF statement = x THEN {refused} \ {0} ELSE {}

\* What a handler's queues hold, or will when a statement returns.
Held(x) == Range(queueData[x]) \cup Range(callbackData[x])
              \cup Range(errorCallback[x]) \cup Pending(x)

\* A handler that is there is the newest with its parameters.
Newest == \A i \in Positions, x \in DOMAIN param :
             param[x] = param[SQLHandle[i]] => x <= SQLHandle[i]

\* Handlers stay in the order they were made, and each is there once.
VectorInv ==
    /\ \A i, j \in Positions : i < j => SQLHandle[i] < SQLHandle[j]
    /\ \A i \in Positions : SQLHandle[i] \in 1 .. Made
    /\ Len(SQLHandle) <= Made
    /\ Newest

\* The worker has the mutex for its whole pass.  Natives hold it for no
\* longer than their step.
TurnInv ==
    /\ mutex \in {MutexFree, [owner |-> "worker", depth |-> 1]}
    /\ mutex.owner = "worker" <=> pass.phase # "sleep"

\* What is in the queues of a handler was asked of it; a handler that has
\* not been made holds nothing.
EntriesInv ==
    \A x \in Handlers :
       /\ Held(x) \subseteq 1 .. Accepted
       /\ x > Made => Held(x) = {}
       /\ steady => \A e \in Held(x) : asked[e] = param[x]

\* While scripts close only the last handle, theirs are right.
KnownInv ==
    steady => \A p \in Params : known[p] # 0 =>
                 known[p] \in Positions /\ param[SQLHandle[known[p]]] = p

\* The conjunction is inductive.
TableInv ==
    /\ TableTypeOK
    /\ VectorInv
    /\ TurnInv
    /\ WorkerKeepsHandler
    /\ PopsWhatItTold
    /\ EntriesInv
    /\ KnownInv
    /\ HandlesOnlyMoveUp

-----------------------------------------------------------------------------
(* The types, in groups.                                                   *)
VectorTypes ==
    /\ SQLHandle \in Seq(Handlers)
    /\ param \in Seq(Params)
    /\ Made \in 0 .. MaxHandlers

FlagTypes ==
    /\ m_bIsConnected \in [Handlers -> BOOLEAN]
    /\ m_bQueryProcessing \in [Handlers -> BOOLEAN]
    /\ m_bNonThreadedQuery \in [Handlers -> BOOLEAN]

CallTypes == statement \in 0 .. MaxHandlers /\ refused \in 0 .. MaxQueries

QueueTypes ==
    /\ queueData \in [Handlers -> Entries]
    /\ callbackData \in [Handlers -> Entries]
    /\ errorCallback \in [Handlers -> Entries]

LoopTypes ==
    /\ tick \in [phase : TickPhases, at : Nat \ {0}, entry : Queries \cup {0}]
    /\ pass \in Passes
    /\ fault \in {"none", "beyond", "empty", "moved"}

HistoryTypes ==
    /\ known \in [Params -> 0 .. MaxHandlers]
    /\ asked \in Seq(Params)
    /\ Accepted \in 0 .. MaxQueries
    /\ careful \in BOOLEAN
    /\ steady \in BOOLEAN

\* The groups together are TableTypeOK.
LEMMA TypeGroups ==
    TableTypeOK <=> /\ MutexTypeOK /\ VectorTypes /\ FlagTypes /\ QueueTypes
                    /\ CallTypes /\ LoopTypes /\ HistoryTypes
BY DEF TableTypeOK, VectorTypes, FlagTypes, QueueTypes, CallTypes, LoopTypes,
       HistoryTypes

\* What of the invariant the steps below rest on.
LEMMA Shape ==
    ASSUME TableInv
    PROVE  /\ VectorTypes /\ FlagTypes /\ QueueTypes /\ LoopTypes /\ HistoryTypes
           /\ CallTypes
           /\ Len(SQLHandle) \in Nat /\ Positions = 1 .. Len(SQLHandle)
           /\ Made \in Nat /\ Made <= MaxHandlers /\ Len(SQLHandle) <= Made
           /\ Accepted \in Nat /\ Accepted <= MaxQueries
           /\ \A i \in Positions : SQLHandle[i] \in Handlers /\ SQLHandle[i] \in 1 .. Made
           /\ \A i, j \in Positions : i < j => SQLHandle[i] < SQLHandle[j]
           /\ \A i, j \in Positions : SQLHandle[i] = SQLHandle[j] => i = j
           /\ CanLock("main") <=> pass.phase = "sleep"
<1>1. /\ VectorTypes /\ FlagTypes /\ QueueTypes /\ LoopTypes /\ HistoryTypes
      /\ CallTypes /\ VectorInv
  BY TypeGroups DEF TableInv
<1>2. /\ Len(SQLHandle) \in Nat /\ Positions = 1 .. Len(SQLHandle)
      /\ \A i \in Positions : SQLHandle[i] \in Handlers
      /\ Made \in Nat /\ Made <= MaxHandlers
      /\ Accepted \in Nat /\ Accepted <= MaxQueries
  BY <1>1, TableAssumption DEF VectorTypes, HistoryTypes, Positions
<1>3. /\ \A i \in Positions : SQLHandle[i] \in 1 .. Made
      /\ \A i, j \in Positions : i < j => SQLHandle[i] < SQLHandle[j]
      /\ Len(SQLHandle) <= Made
  BY <1>1 DEF VectorInv
<1>4. \A i, j \in Positions : SQLHandle[i] = SQLHandle[j] => i = j
  <2> SUFFICES ASSUME NEW i \in Positions, NEW j \in Positions, i # j
               PROVE  SQLHandle[i] # SQLHandle[j]
    OBVIOUS
  <2>1. i < j \/ j < i
    BY <1>2
  <2> QED BY <1>2, <1>3, <2>1
<1>5. CanLock("main") <=> pass.phase = "sleep"
  BY DEF TableInv, TurnInv, CanLock, MutexFree
<1> QED BY <1>1, <1>2, <1>3, <1>4, <1>5

\* What a push to a queue and a pop from one do.
LEMMA EntriesPushed ==
    ASSUME NEW s \in Entries, NEW e \in Queries
    PROVE  /\ Append(s, e) \in Entries
           /\ Append(s, e) # <<>>
           /\ Range(Append(s, e)) = Range(s) \cup {e}
           /\ s # <<>> => Head(Append(s, e)) = Head(s)
<1>1. Append(s, e) \in Entries /\ Range(Append(s, e)) = Range(s) \cup {e}
  BY RangePushed DEF Entries
<1>2. Append(s, e) # <<>> /\ (s # <<>> => Head(Append(s, e)) = Head(s))
  BY PushedHead DEF Entries
<1> QED BY <1>1, <1>2

LEMMA EntriesPopped ==
    ASSUME NEW s \in Entries, s # <<>>
    PROVE  /\ Head(s) \in Queries
           /\ Tail(s) \in Entries
           /\ Range(s) = {Head(s)} \cup Range(Tail(s))
BY RangePopped DEF Entries

LEMMA EntriesEmpty == <<>> \in Entries /\ Range(<<>>) = {}
BY RangeEmpty DEF Entries

-----------------------------------------------------------------------------
(* Which variables an action leaves alone.                                 *)
LEMMA TickFrame ==
    ASSUME ProcessTick
    PROVE  /\ UNCHANGED <<SQLHandle, param, m_bIsConnected, mutex, pass, queueData>>
           /\ UNCHANGED <<m_bNonThreadedQuery, statement, refused>>
           /\ UNCHANGED <<known, asked, careful, steady>>
BY DEF ProcessTick, TickStart, TickError, TickErrorDone, TickFinish,
       TickFinishDone, history, queues, calling

LEMMA WorkerFrame ==
    ASSUME ProcessQueryThread
    PROVE  /\ UNCHANGED <<SQLHandle, param, tick, m_bNonThreadedQuery>>
           /\ UNCHANGED <<statement, refused>>
           /\ UNCHANGED <<known, asked, careful, steady>>
BY DEF ProcessQueryThread, WorkerLock, WorkerLook, WorkerRead, WorkerConnect,
       WorkerExec, WorkerPop, history, handlers, calling

\* Positions are numbers.
LEMMA PositionsNumbers ==
    ASSUME TableInv
    PROVE  Positions \subseteq Nat
<1>1. Len(SQLHandle) \in Nat /\ Positions = 1 .. Len(SQLHandle)
  BY Shape
<1> QED BY <1>1

-----------------------------------------------------------------------------
(* What opening and closing a handle do to the vector.                     *)
\* mysql_connect: one more handler, behind the others.
LEMMA Opened ==
    ASSUME TableInv, NEW p \in Params, MysqlConnectNew(p)
    PROVE  /\ Made + 1 \in Handlers /\ Made' = Made + 1
           /\ SQLHandle' \in Seq(Handlers) /\ param' \in Seq(Params)
           /\ Len(SQLHandle)' = Len(SQLHandle) + 1
           /\ Positions' = Positions \cup {Len(SQLHandle) + 1}
           /\ \A i \in Positions : SQLHandle'[i] = SQLHandle[i]
           /\ SQLHandle'[Len(SQLHandle) + 1] = Made + 1
           /\ \A x \in 1 .. Made : param'[x] = param[x]
           /\ param'[Made + 1] = p
           /\ \A i \in Positions : param[SQLHandle[i]] # p
<1>1. Made + 1 \in Handlers
  BY Shape, TableAssumption DEF MysqlConnectNew, Handlers
<1>2. /\ SQLHandle' = Append(SQLHandle, Made + 1) /\ param' = Append(param, p)
      /\ SQLHandle \in Seq(Handlers) /\ param \in Seq(Params)
  BY Shape DEF MysqlConnectNew, VectorTypes
<1>3. /\ SQLHandle' \in Seq(Handlers)
      /\ Len(SQLHandle') = Len(SQLHandle) + 1
      /\ DOMAIN SQLHandle' = 1 .. Len(SQLHandle) + 1
      /\ \A i \in 1 .. Len(SQLHandle) : SQLHandle'[i] = SQLHandle[i]
      /\ SQLHandle'[Len(SQLHandle) + 1] = Made + 1
  BY <1>1, <1>2
<1>4. /\ param' \in Seq(Params) /\ Len(param') = Len(param) + 1
      /\ \A x \in 1 .. Len(param) : param'[x] = param[x]
      /\ param'[Len(param) + 1] = p
  BY <1>2
<1>5. \A i \in Positions : param[SQLHandle[i]] # p
  BY DEF MysqlConnectNew, SameParams
<1>6. Positions' = Positions \cup {Len(SQLHandle) + 1}
  BY <1>3, Shape DEF Positions
<1> QED BY <1>1, <1>3, <1>4, <1>5, <1>6, Shape DEF Made, Positions

\* mysql_close: those behind the closed handle move down by one.
LEMMA Closed ==
    ASSUME TableInv, NEW p \in Params, MysqlClose(p)
    PROVE  /\ known[p] \in Positions /\ pass.phase = "sleep"
           /\ SQLHandle' \in Seq(Handlers)
           /\ Len(SQLHandle)' = Len(SQLHandle) - 1
           /\ Positions' = 1 .. Len(SQLHandle) - 1
           /\ Positions' \subseteq Positions
           /\ \A i \in Positions' : i + 1 \in Positions
           /\ \A i \in Positions' :
                 SQLHandle'[i] = IF i < known[p] THEN SQLHandle[i] ELSE SQLHandle[i + 1]
           /\ known' = [known EXCEPT ![p] = 0]
           /\ careful' = (careful /\ (tick.phase = "none" \/ tick.at < known[p]))
           /\ steady' = (steady /\ known[p] = Len(SQLHandle))
<1>1. PICK h \in Positions :
         /\ Valid(p, h)
         /\ CloseInTurn
         /\ SQLHandle' = RemoveAt(SQLHandle, h)
         /\ known' = [known EXCEPT ![p] = 0]
         /\ careful' = (careful /\ (tick.phase = "none" \/ tick.at < h))
         /\ steady' = (steady /\ h = Len(SQLHandle))
  BY DEF MysqlClose, Erased
<1>2. known[p] = h /\ pass.phase = "sleep"
  BY <1>1, Shape DEF Valid, CloseInTurn
<1>3. SQLHandle \in Seq(Handlers) /\ h \in 1 .. Len(SQLHandle) /\ Len(SQLHandle) \in Nat
  BY Shape DEF VectorTypes
<1>4. /\ RemoveAt(SQLHandle, h) \in Seq(Handlers)
      /\ Len(RemoveAt(SQLHandle, h)) = Len(SQLHandle) - 1
      /\ DOMAIN RemoveAt(SQLHandle, h) = 1 .. Len(SQLHandle) - 1
      /\ \A i \in 1 .. Len(SQLHandle) - 1 : RemoveAt(SQLHandle, h)[i]
            = IF i < h THEN SQLHandle[i] ELSE SQLHandle[i + 1]
  BY <1>3, Removed
<1>5. Positions' = 1 .. Len(SQLHandle) - 1
  BY <1>1, <1>4 DEF Positions
<1> QED BY <1>1, <1>2, <1>3, <1>4, <1>5, Shape

\* Every step keeps the order of the vector and its parameters apart.
LEMMA VectorStep ==
    ASSUME TableInv, TableNext
    PROVE  VectorTypes' /\ VectorInv'
<1>1. ASSUME NEW p \in Params, MysqlConnectNew(p)
      PROVE  VectorTypes' /\ VectorInv'
  <2>1. VectorTypes'
    BY <1>1, Opened, Shape, TableAssumption DEF VectorTypes, Made, Handlers
  <2>2. \A i \in Positions' : SQLHandle'[i] \in 1 .. Made'
    BY <1>1, Opened, Shape
  <2>3. \A i, j \in Positions' : i < j => SQLHandle'[i] < SQLHandle'[j]
    BY <1>1, Opened, Shape
  <2>4. Newest'
    <3> SUFFICES ASSUME NEW i \in Positions', NEW x \in DOMAIN param',
                        param'[x] = param'[SQLHandle'[i]]
                 PROVE  x <= SQLHandle'[i]
      BY DEF Newest
    <3>1. /\ DOMAIN param = 1 .. Made /\ x \in 1 .. Made + 1
          /\ Newest /\ Made \in Nat
      <4>1. DOMAIN param' = 1 .. Made' /\ DOMAIN param = 1 .. Made
        BY <1>1, Opened, Shape DEF Made, VectorTypes
      <4> QED BY <1>1, <4>1, Opened, Shape DEF TableInv, VectorInv
    <3>2. CASE i = Len(SQLHandle) + 1
      BY <1>1, <3>1, <3>2, Opened
    <3>3. CASE i \in Positions
      <4>1. /\ SQLHandle'[i] = SQLHandle[i] /\ SQLHandle[i] \in 1 .. Made
            /\ param'[SQLHandle'[i]] = param[SQLHandle[i]]
            /\ param[SQLHandle[i]] # p
        BY <1>1, <3>3, Opened, Shape
      <4>2. x # Made + 1
        BY <1>1, <4>1, Opened
      <4>3. x \in 1 .. Made
        BY <3>1, <4>2
      <4>4. param'[x] = param[x]
        BY <1>1, <4>3, Opened
      <4> QED BY <3>1, <3>3, <4>1, <4>3, <4>4 DEF Newest
    <3> QED BY <1>1, <3>2, <3>3, Opened
  <2>5. Len(SQLHandle)' <= Made'
    BY <1>1, Opened, Shape
  <2> QED BY <2>1, <2>2, <2>3, <2>4, <2>5 DEF VectorInv
<1>2. ASSUME NEW p \in Params, MysqlClose(p)
      PROVE  VectorTypes' /\ VectorInv'
  <2>1. param' = param /\ Made' = Made
    BY <1>2 DEF MysqlClose, Made
  <2>2. VectorTypes'
    BY <1>2, <2>1, Closed, Shape DEF VectorTypes
  <2>3. \A i \in Positions' : SQLHandle'[i] \in 1 .. Made'
    BY <1>2, <2>1, Closed, Shape
  <2>4. \A i, j \in Positions' : i < j => SQLHandle'[i] < SQLHandle'[j]
    <3> SUFFICES ASSUME NEW i \in Positions', NEW j \in Positions', i < j
                 PROVE  SQLHandle'[i] < SQLHandle'[j]
      OBVIOUS
    <3> DEFINE was(k) == IF k < known[p] THEN k ELSE k + 1
    <3>1. \A k \in {i, j} : was(k) \in Positions /\ SQLHandle'[k] = SQLHandle[was(k)]
      BY <1>2, Closed
    <3>2. i \in Nat /\ j \in Nat /\ known[p] \in Nat
      BY <1>2, Closed, PositionsNumbers
    <3>3. was(i) < was(j)
      BY <3>2
    <3> HIDE DEF was
    <3> QED BY <3>1, <3>3, Shape
  <2>5. Newest'
    <3> SUFFICES ASSUME NEW i \in Positions', NEW x \in DOMAIN param,
                        param[x] = param[SQLHandle'[i]]
                 PROVE  x <= SQLHandle'[i]
      BY <2>1 DEF Newest
    <3>1. \E k \in Positions : SQLHandle'[i] = SQLHandle[k]
      BY <1>2, Closed
    <3> QED BY <3>1 DEF TableInv, VectorInv, Newest
  <2>6. Len(SQLHandle)' <= Made'
    BY <1>2, <2>1, Closed, Shape
  <2> QED BY <2>2, <2>3, <2>4, <2>5, <2>6 DEF VectorInv
<1>3. ASSUME UNCHANGED <<SQLHandle, param>>
      PROVE  VectorTypes' /\ VectorInv'
  <2>1. VectorTypes /\ VectorInv
    BY Shape DEF TableInv
  <2> QED BY <1>3, <2>1 DEF VectorTypes, VectorInv, Newest, Positions, Made
<1>4. \/ UNCHANGED <<SQLHandle, param>>
      \/ \E p \in Params : MysqlConnectNew(p) \/ MysqlClose(p)
  <2>1. CASE Natives
    BY <2>1 DEF Natives, MysqlConnectAgain, MysqlReconnect, MysqlQuery,
                Statement, handlers
  <2> QED BY <2>1, TickFrame, WorkerFrame DEF TableNext, StatementDone
<1> QED BY <1>1, <1>2, <1>3, <1>4

-----------------------------------------------------------------------------
(* The mutex, and the worker that holds it.                                *)
\* The handlers and queues the two loops are at, which are there.
LEMMA ThereIs ==
    ASSUME TableInv, pass.phase \in {"read", "connect", "exec", "pop"}
    PROVE  /\ pass.at \in Positions /\ There \in Handlers
           /\ queueData[There] \in Entries
           /\ callbackData[There] \in Entries
           /\ errorCallback[There] \in Entries
           /\ There = pass.handler
           /\ pass.phase \in {"exec", "pop"} =>
                 /\ queueData[There] # <<>>
                 /\ Head(queueData[There]) = pass.query
                 /\ Head(queueData[There]) \in Queries
                 /\ Tail(queueData[There]) \in Entries
<1>1. /\ pass.at \in Positions /\ There = pass.handler
      /\ pass.phase \in {"exec", "pop"} =>
            queueData[There] # <<>> /\ Head(queueData[There]) = pass.query
  BY DEF TableInv, WorkerKeepsHandler
<1>2. There \in Handlers
  BY <1>1, Shape DEF There
<1>3. /\ queueData[There] \in Entries
      /\ callbackData[There] \in Entries
      /\ errorCallback[There] \in Entries
  BY <1>2, Shape DEF QueueTypes
<1> QED BY <1>1, <1>2, <1>3, EntriesPopped

LEMMA HereIs ==
    ASSUME TableInv, tick.at \in Positions
    PROVE  /\ Here \in Handlers
           /\ queueData[Here] \in Entries
           /\ callbackData[Here] \in Entries
           /\ errorCallback[Here] \in Entries
<1>1. Here \in Handlers
  BY Shape DEF Here
<1> QED BY <1>1, Shape DEF QueueTypes

\* Reading SQLHandle[i] goes wrong, passes the handler over, disconnects it, or
\* takes its query.
LEMMA ReadOutcomes ==
    ASSUME TableInv, WorkerRead
    PROVE  /\ pass.phase = "read"
           /\ UNCHANGED <<param, m_bQueryProcessing, queueData, callbackData,
                          errorCallback, mutex>>
           /\ \/ pass' = pass /\ fault' = "moved"
              \/ pass'.phase = "look" /\ fault' = fault
              \/ /\ pass'.phase = "connect" /\ fault' = fault
                 /\ pass'.at = pass.at /\ pass'.handler = pass.handler
              \/ /\ pass'.phase = "exec" /\ fault' = fault
                 /\ pass'.at = pass.at /\ pass'.handler = pass.handler
                 /\ queueData[There] # <<>> /\ pass'.query = Head(queueData[There])
           /\ pass' \in Passes
<1> DEFINE took == [pass EXCEPT !.phase = "exec", !.stale = FALSE,
                                !.query = Head(queueData[There])]
           left == [pass EXCEPT !.phase = "connect", !.stale = FALSE]
<1>1. /\ pass.phase = "read" /\ pass \in Passes
      /\ UNCHANGED <<param, m_bQueryProcessing, queueData, callbackData,
                     errorCallback, mutex>>
      /\ \/ pass' = pass /\ fault' = "moved"
         \/ pass' = PassNext /\ fault' = fault
         \/ pass' = left /\ fault' = fault
         \/ pass' = took /\ fault' = fault /\ queueData[There] # <<>>
  BY Shape DEF WorkerRead, Ready, queues, LoopTypes
<1>2. PassNext.phase = "look" /\ PassNext \in Passes
  <2>1. pass.at + 1 \in Nat \ {0} /\ 0 \in 0 .. MaxHandlers /\ 0 \in 0 .. MaxQueries
    BY <1>1, TableAssumption DEF Passes
  <2>2. Asleep \in Passes
    BY <2>1 DEF Asleep, Passes, PassPhases
  <2> QED BY <2>1, <2>2 DEF PassNext, Passes, PassPhases
<1>3. /\ left.phase = "connect" /\ left.at = pass.at
      /\ left.handler = pass.handler /\ left \in Passes
  BY <1>1 DEF Passes, PassPhases
<1>4. queueData[There] # <<>> =>
         /\ took.phase = "exec" /\ took.at = pass.at
         /\ took.handler = pass.handler /\ took.query = Head(queueData[There])
         /\ took \in Passes
  <2> SUFFICES ASSUME queueData[There] # <<>>
               PROVE  /\ took.phase = "exec" /\ took.at = pass.at
                      /\ took.handler = pass.handler
                      /\ took.query = Head(queueData[There])
                      /\ took \in Passes
    OBVIOUS
  <2>1. Head(queueData[There]) \in Queries
    BY <1>1, ThereIs, EntriesPopped
  <2>2. Head(queueData[There]) \in 0 .. MaxQueries
    BY <2>1, TableAssumption DEF Queries
  <2> QED BY <1>1, <2>2 DEF Passes, PassPhases
<1> HIDE DEF took, left
<1> QED BY <1>1, <1>2, <1>3, <1>4

\* Every step leaves the mutex with the worker, or free.
LEMMA TurnStep ==
    ASSUME TableInv, TableNext
    PROVE  MutexTypeOK' /\ TurnInv'
<1>1. TurnInv /\ MutexTypeOK /\ LoopTypes
  BY Shape, TypeGroups DEF TableInv
<1>2. CASE Natives
  <2>1. /\ mutex' = mutex
        /\ pass' = pass \/ \E b : pass' = [pass EXCEPT !.stale = b]
    BY <1>2 DEF Natives, MysqlConnectNew, MysqlConnectAgain, MysqlReconnect,
                MysqlQuery, Statement, MysqlClose
  <2>2. pass'.phase = pass.phase
    BY <1>1, <2>1 DEF LoopTypes, Passes
  <2> QED BY <1>1, <2>1, <2>2 DEF TurnInv, MutexTypeOK
<1>3. CASE ProcessTick
  BY <1>1, <1>3, TickFrame DEF TurnInv, MutexTypeOK
<1>4. CASE ProcessQueryThread
  <2>1. CASE WorkerLock
    BY <1>1, <2>1 DEF WorkerLock, LockMutex, CanLock, TurnInv, MutexTypeOK,
                      MutexFree, Asleep, Threads
  <2>2. CASE WorkerLook
    <3>1. CASE More
      <4>1. mutex' = mutex /\ pass.phase = "look" /\ pass'.phase = "read"
        BY <1>1, <2>2, <3>1 DEF WorkerLook, LoopTypes, Passes
      <4> QED BY <1>1, <4>1 DEF TurnInv, MutexTypeOK
    <3>2. CASE ~More
      <4>1. UnlockMutex /\ pass' = Asleep /\ pass.phase = "look"
        BY <2>2, <3>2 DEF WorkerLook, Sleep
      <4>2. pass'.phase = "sleep"
        BY <4>1 DEF Asleep
      <4> QED BY <1>1, <4>1, <4>2 DEF UnlockMutex, TurnInv, MutexTypeOK,
                                      MutexFree, Threads
    <3> QED BY <3>1, <3>2
  <2>3. CASE WorkerRead
    BY <1>1, <2>3, ReadOutcomes DEF TurnInv, MutexTypeOK
  <2>4. CASE WorkerConnect \/ WorkerExec \/ WorkerPop
    BY <1>1, <2>4 DEF WorkerConnect, WorkerExec, WorkerPop, PassNext, Asleep,
                      TurnInv, MutexTypeOK, LoopTypes, Passes
  <2> QED BY <1>4, <2>1, <2>2, <2>3, <2>4 DEF ProcessQueryThread
<1>5. CASE StatementDone
  BY <1>1, <1>5 DEF StatementDone, TurnInv, MutexTypeOK
<1> QED BY <1>2, <1>3, <1>4, <1>5 DEF TableNext

\* No step takes the worker's handler or query away.
LEMMA WorkerKeepsStep ==
    ASSUME TableInv, TableNext
    PROVE  WorkerKeepsHandler'
<1>1. WorkerKeepsHandler /\ LoopTypes
  BY Shape DEF TableInv
<1>2. CASE pass.phase = "sleep" /\ pass'.phase = "sleep"
  BY <1>2 DEF WorkerKeepsHandler
<1>3. CASE Natives
  <2>1. /\ pass'.phase = pass.phase /\ pass'.at = pass.at
        /\ pass'.handler = pass.handler /\ pass'.query = pass.query
    BY <1>1, <1>3
    DEF LoopTypes, Passes, Natives, MysqlConnectNew, MysqlConnectAgain,
        MysqlReconnect, MysqlQuery, Statement, MysqlClose
  <2>2. ASSUME NEW p \in Params, MysqlConnectNew(p)
        PROVE  WorkerKeepsHandler'
    <3>1. /\ Positions \subseteq Positions' /\ queueData' = queueData
          /\ \A i \in Positions : SQLHandle'[i] = SQLHandle[i]
      BY <2>2, Opened DEF MysqlConnectNew, queues
    <3> QED BY <1>1, <2>1, <3>1 DEF WorkerKeepsHandler, There
  <2>3. ASSUME NEW p \in Params,
               MysqlReconnect(p) \/ MysqlQuery(p) \/ MysqlClose(p)
        PROVE  WorkerKeepsHandler'
    <3>1. CASE pass.phase = "sleep"
      BY <1>2, <2>1, <3>1
    <3>2. CASE pass.phase # "sleep"
      <4>1. ~CanLock("main")
        BY <3>2, Shape
      <4>2. UNCHANGED <<SQLHandle, queueData>>
        BY <2>3, <4>1 DEF MysqlReconnect, MysqlQuery, MysqlClose, CloseInTurn
      <4> QED BY <1>1, <2>1, <4>2 DEF WorkerKeepsHandler, There, Positions
    <3> QED BY <3>1, <3>2
  <2>4. ASSUME NEW p \in Params, MysqlConnectAgain(p) \/ Statement(p)
        PROVE  WorkerKeepsHandler'
    <3>1. UNCHANGED <<SQLHandle, queueData>>
      BY <2>4 DEF MysqlConnectAgain, Statement, queues
    <3> QED BY <1>1, <2>1, <3>1 DEF WorkerKeepsHandler, There, Positions
  <2> QED BY <1>3, <2>2, <2>3, <2>4 DEF Natives
<1>4. CASE ProcessTick
  BY <1>1, <1>4, TickFrame DEF WorkerKeepsHandler, There, Positions
<1>5. CASE ProcessQueryThread
  <2>0. SQLHandle' = SQLHandle
    BY <1>5, WorkerFrame
  <2>1. CASE WorkerLock
    BY <2>1 DEF WorkerLock, Asleep, WorkerKeepsHandler
  <2>2. CASE WorkerLook
    <3>1. CASE More
      <4>1. pass.at \in Positions
        BY <1>1, <3>1, Shape DEF More, LoopTypes, Passes
      <4>2. pass'.phase = "read" /\ pass'.at = pass.at /\ pass'.handler = There
        BY <1>1, <2>2, <3>1 DEF WorkerLook, LoopTypes, Passes
      <4> QED BY <2>0, <4>1, <4>2 DEF WorkerKeepsHandler, There, Positions
    <3>2. CASE ~More
      BY <2>2, <3>2 DEF WorkerLook, Sleep, Asleep, WorkerKeepsHandler
    <3> QED BY <3>1, <3>2
  <2>3. CASE WorkerRead
    BY <1>1, <2>0, <2>3, ReadOutcomes DEF WorkerKeepsHandler, There, Positions
  <2>4. CASE WorkerExec
    BY <1>1, <2>0, <2>4 DEF WorkerExec, There, WorkerKeepsHandler, LoopTypes,
                            Passes, Positions
  <2>5. CASE WorkerPop \/ WorkerConnect
    BY <2>5 DEF WorkerPop, WorkerConnect, PassNext, Asleep, WorkerKeepsHandler
  <2> QED BY <1>5, <2>1, <2>2, <2>3, <2>4, <2>5 DEF ProcessQueryThread
<1>6. CASE StatementDone
  BY <1>1, <1>6 DEF StatementDone, WorkerKeepsHandler, There, Positions
<1> QED BY <1>3, <1>4, <1>5, <1>6 DEF TableNext

-----------------------------------------------------------------------------
(* The notification ProcessTick is at.                                     *)
\* A step that keeps the heads of the two queues in place.
LEMMA PopsKept ==
    ASSUME TableInv, tick' = tick, fault' \notin {"beyond", "empty"},
           careful' => careful,
           careful' /\ tick.phase \notin {"none", "error"} =>
              /\ tick.at \in Positions'
              /\ errorCallback[Here] # <<>> =>
                    /\ errorCallback'[Here'] # <<>>
                    /\ Head(errorCallback'[Here']) = Head(errorCallback[Here])
              /\ callbackData[Here] # <<>> =>
                    /\ callbackData'[Here'] # <<>>
                    /\ Head(callbackData'[Here']) = Head(callbackData[Here])
    PROVE  PopsWhatItTold'
BY DEF TableInv, PopsWhatItTold

\* Natives in a callback: those that close need tick.at < h.
LEMMA PopsNative ==
    ASSUME TableInv, Natives
    PROVE  PopsWhatItTold'
<1>1. /\ fault = "none" /\ fault' = fault /\ tick' = tick
      /\ careful' => careful
  <2>1. ASSUME NEW p \in Params, MysqlConnectNew(p) \/ MysqlConnectAgain(p)
                                 \/ MysqlReconnect(p)
        PROVE  fault' = fault /\ tick' = tick /\ careful' = careful
    BY <2>1 DEF MysqlConnectNew, MysqlConnectAgain, MysqlReconnect, history
  <2>2. ASSUME NEW p \in Params, MysqlQuery(p) \/ Statement(p)
        PROVE  fault' = fault /\ tick' = tick /\ careful' = careful
    BY <2>2 DEF MysqlQuery, Statement
  <2>3. ASSUME NEW p \in Params, MysqlClose(p)
        PROVE  fault' = fault /\ tick' = tick /\ (careful' => careful)
    BY <2>3 DEF MysqlClose
  <2> QED BY <2>1, <2>2, <2>3 DEF Natives, Running
<1> SUFFICES ASSUME careful', tick.phase \notin {"none", "error"}
             PROVE  /\ tick.at \in Positions'
                    /\ errorCallback[Here] # <<>> =>
                          /\ errorCallback'[Here'] # <<>>
                          /\ Head(errorCallback'[Here']) = Head(errorCallback[Here])
                    /\ callbackData[Here] # <<>> =>
                          /\ callbackData'[Here'] # <<>>
                          /\ Head(callbackData'[Here']) = Head(callbackData[Here])
  BY <1>1, PopsKept
<1>2. tick.at \in Positions
  BY <1>1 DEF TableInv, PopsWhatItTold
<1>3. ASSUME NEW p \in Params, MysqlConnectNew(p)
      PROVE  /\ tick.at \in Positions' /\ Here' = Here
             /\ UNCHANGED <<errorCallback, callbackData>>
  BY <1>1, <1>2, <1>3, Opened DEF MysqlConnectNew, queues, Here
<1>4. ASSUME NEW p \in Params,
             \/ MysqlConnectAgain(p) \/ MysqlReconnect(p)
             \/ MysqlQuery(p) \/ Statement(p)
      PROVE  UNCHANGED <<SQLHandle, errorCallback, callbackData>>
  BY <1>4 DEF MysqlConnectAgain, MysqlReconnect, MysqlQuery, Statement, queues
<1>6. ASSUME NEW p \in Params, MysqlClose(p)
      PROVE  /\ tick.at \in Positions' /\ Here' = Here
             /\ callbackData'[Here] = callbackData[Here]
             /\ errorCallback'[Here] = errorCallback[Here]
  <2>1. known[p] \in Positions /\ tick.at < known[p]
    BY <1>6, Closed
  <2>2. tick.at \in Positions'
    <3>1. /\ Len(SQLHandle) \in Nat /\ Positions = 1 .. Len(SQLHandle)
          /\ Positions' = 1 .. Len(SQLHandle) - 1
      BY <1>6, Closed, Shape
    <3> QED BY <1>2, <2>1, <3>1
  <2>3. SQLHandle'[tick.at] = SQLHandle[tick.at]
    BY <1>6, <2>1, <2>2, Closed
  <2>4. SQLHandle[known[p]] # Here
    BY <1>2, <2>1, Shape, PositionsNumbers DEF Here
  <2>5. /\ callbackData' = [callbackData EXCEPT ![SQLHandle[known[p]]] = <<>>]
        /\ errorCallback' = [errorCallback EXCEPT ![SQLHandle[known[p]]] = <<>>]
    BY <1>6 DEF MysqlClose, Valid
  <2>6. Here \in Handlers
    BY <1>2, HereIs
  <2> QED BY <1>1, <2>2, <2>3, <2>4, <2>5, <2>6, Shape DEF Here, QueueTypes
<1>7. CASE \E p \in Params : MysqlConnectNew(p)
  BY <1>3, <1>7
<1>8. CASE \E p \in Params : \/ MysqlConnectAgain(p) \/ MysqlReconnect(p)
                             \/ MysqlQuery(p) \/ Statement(p)
  BY <1>1, <1>2, <1>4, <1>8 DEF Here, Positions
<1>9. CASE \E p \in Params : MysqlClose(p)
  BY <1>6, <1>9
<1> QED BY <1>7, <1>8, <1>9 DEF Natives

\* A statement that fails pushes behind what is there.
LEMMA PopsStatement ==
    ASSUME TableInv, StatementDone
    PROVE  PopsWhatItTold'
<1>1. /\ UNCHANGED <<SQLHandle, tick, careful, callbackData>>
      /\ fault = "none" /\ fault' = fault
      /\ \/ errorCallback' = errorCallback
         \/ /\ statement \in Handlers /\ refused \in Queries
            /\ errorCallback' = [errorCallback EXCEPT ![statement] = Append(@, refused)]
  BY Shape, TableAssumption
  DEF StatementDone, Running, CallTypes, Handlers, Queries, history
<1>2. careful /\ tick.phase \notin {"none", "error"} =>
         /\ tick.at \in Positions' /\ Here' = Here
         /\ Here \in Handlers /\ errorCallback[Here] \in Entries
  BY <1>1, HereIs DEF TableInv, PopsWhatItTold, Here, Positions
<1>3. CASE errorCallback' = errorCallback
  BY <1>1, <1>2, <1>3, PopsKept
<1>4. CASE errorCallback' # errorCallback
  <2>1. \A x \in Handlers :
           errorCallback'[x] \in {errorCallback[x], Append(errorCallback[x], refused)}
    BY <1>1, <1>4, Shape DEF QueueTypes
  <2> QED BY <1>1, <1>2, <1>4, <2>1, EntriesPushed, PopsKept
<1> QED BY <1>3, <1>4

\* ProcessTick itself.
LEMMA PopsTick ==
    ASSUME TableInv, ProcessTick
    PROVE  PopsWhatItTold'
<1> SUFFICES ASSUME careful
             PROVE  PopsWhatItTold'
  BY TickFrame DEF PopsWhatItTold
<1>1. /\ fault = "none" /\ Positions' = Positions /\ SQLHandle' = SQLHandle
      /\ LoopTypes /\ PopsWhatItTold
  BY TickFrame, Shape DEF ProcessTick, Running, Positions, TableInv
<1>2. CASE TickStart
  BY <1>1, <1>2 DEF TickStart, TickGo, PopsWhatItTold, LoopTypes
<1>3. CASE TickError
  <2>1. tick.phase = "error" /\ UNCHANGED <<fault, errorCallback>>
    BY <1>3 DEF TickError, queues
  <2>2. CASE tick.at \notin Positions
    <3>1. tick'.phase = "none"
      BY <1>3, <2>2 DEF TickError, Resting
    <3> QED BY <1>1, <2>1, <3>1 DEF PopsWhatItTold
  <2>3. CASE tick.at \in Positions /\ errorCallback[Here] = <<>>
    <3>1. tick'.phase = "finish" /\ tick'.at = tick.at
      BY <1>1, <1>3, <2>3 DEF TickError, TickGo, LoopTypes
    <3> QED BY <1>1, <2>1, <2>3, <3>1 DEF PopsWhatItTold
  <2>4. CASE tick.at \in Positions /\ errorCallback[Here] # <<>>
    <3>1. /\ tick'.phase = "in error" /\ tick'.at = tick.at
          /\ tick'.entry = Head(errorCallback[Here])
      BY <1>1, <1>3, <2>4 DEF TickError, LoopTypes
    <3> QED BY <1>1, <2>1, <2>4, <3>1 DEF PopsWhatItTold, Here
  <2> QED BY <2>2, <2>3, <2>4
<1>4. CASE TickErrorDone
  <2>1. tick.at \in Positions /\ errorCallback[Here] # <<>>
    BY <1>1, <1>4 DEF TickErrorDone, PopsWhatItTold
  <2>2. fault' = "none" /\ tick'.phase = "finish" /\ tick'.at = tick.at
    BY <1>1, <1>4, <2>1 DEF TickErrorDone, NothingToPop, TickGo, LoopTypes
  <2> QED BY <1>1, <2>1, <2>2 DEF PopsWhatItTold
<1>5. CASE TickFinish
  <2>1. tick.at \in Positions
    BY <1>1, <1>5 DEF TickFinish, PopsWhatItTold
  <2>2. fault' = "none" /\ callbackData' = callbackData
    BY <1>5, <2>1 DEF TickFinish, queues
  <2>3. CASE callbackData[Here] = <<>>
    <3>1. tick'.phase = "error"
      BY <1>5, <2>2, <2>3 DEF TickFinish, TickNext
    <3> QED BY <2>2, <3>1 DEF PopsWhatItTold
  <2>4. CASE callbackData[Here] # <<>>
    <3>1. /\ tick'.phase = "in finish" /\ tick'.at = tick.at
          /\ tick'.entry = Head(callbackData[Here])
      BY <1>1, <1>5, <2>2, <2>4 DEF TickFinish, LoopTypes
    <3> QED BY <1>1, <2>1, <2>2, <2>4, <3>1 DEF PopsWhatItTold, Here
  <2> QED BY <2>3, <2>4
<1>6. CASE TickFinishDone
  <2>1. tick.at \in Positions /\ callbackData[Here] # <<>>
    BY <1>1, <1>6 DEF TickFinishDone, PopsWhatItTold
  <2>2. fault' = "none" /\ tick'.phase = "error"
    BY <1>6, <2>1 DEF TickFinishDone, NothingToPop, TickNext
  <2> QED BY <2>2 DEF PopsWhatItTold
<1> QED BY <1>2, <1>3, <1>4, <1>5, <1>6 DEF ProcessTick

\* The worker only pushes behind what is there.
LEMMA PopsWorker ==
    ASSUME TableInv, ProcessQueryThread
    PROVE  PopsWhatItTold'
<1>1. /\ UNCHANGED <<SQLHandle, tick, careful>> /\ fault = "none" /\ LoopTypes
  BY WorkerFrame, Shape DEF ProcessQueryThread, Running
<1>2. careful /\ tick.phase \notin {"none", "error"} =>
         /\ tick.at \in Positions' /\ Here' = Here
         /\ Here \in Handlers /\ errorCallback[Here] \in Entries
         /\ callbackData[Here] \in Entries
  BY <1>1, HereIs DEF TableInv, PopsWhatItTold, Here, Positions
<1>3. CASE WorkerExec
  <2>1. /\ There \in Handlers /\ pass.query \in Queries
    BY <1>3, ThereIs DEF WorkerExec
  <2>2. /\ fault' = fault
        /\ \/ /\ callbackData' = [callbackData EXCEPT ![There] = Append(@, pass.query)]
              /\ errorCallback' = errorCallback
           \/ /\ errorCallback' = [errorCallback EXCEPT ![There] = Append(@, pass.query)]
              /\ callbackData' = callbackData
    BY <1>3 DEF WorkerExec
  <2>3. \A x \in Handlers :
           /\ callbackData'[x] \in {callbackData[x], Append(callbackData[x], pass.query)}
           /\ errorCallback'[x] \in {errorCallback[x], Append(errorCallback[x], pass.query)}
    BY <2>1, <2>2, Shape DEF QueueTypes
  <2> QED BY <1>1, <1>2, <2>1, <2>2, <2>3, EntriesPushed, PopsKept
<1>4. CASE ~WorkerExec
  <2>1. UNCHANGED <<callbackData, errorCallback>> /\ fault' \in {fault, "moved"}
    BY <1>1, <1>4, ReadOutcomes DEF ProcessQueryThread, WorkerLock, WorkerLook,
                                    WorkerConnect, WorkerPop, queues
  <2> QED BY <1>1, <1>2, <2>1, PopsKept
<1> QED BY <1>3, <1>4

LEMMA PopsStep ==
    ASSUME TableInv, TableNext
    PROVE  PopsWhatItTold'
BY PopsNative, PopsStatement, PopsTick, PopsWorker DEF TableNext

-----------------------------------------------------------------------------
(* What the queues hold, and which handles scripts have.                   *)
\* Queues that only shrink, or pass an entry on, hold what they should.
LEMMA EntriesKept ==
    ASSUME TableInv, asked' = asked, steady' => steady,
           Made' \in Nat, Made <= Made',
           \A x \in 1 .. Made : param'[x] = param[x],
           \A x \in Handlers : Held(x)' \subseteq Held(x)
    PROVE  EntriesInv'
<1>1. EntriesInv /\ Accepted' = Accepted /\ Made \in Nat
  BY Shape DEF TableInv, Accepted
<1> SUFFICES ASSUME NEW x \in Handlers
             PROVE  /\ Held(x)' \subseteq 1 .. Accepted'
                    /\ x > Made' => Held(x)' = {}
                    /\ steady' => \A e \in Held(x)' : asked'[e] = param'[x]
  BY DEF EntriesInv
<1>2. Held(x)' \subseteq Held(x) /\ x \in Nat /\ x >= 1
  BY DEF Handlers
<1>3. Held(x)' \subseteq 1 .. Accepted'
  BY <1>1, <1>2 DEF EntriesInv
<1>4. x > Made' => Held(x)' = {}
  <2>1. x > Made' => x > Made
    BY <1>1, <1>2
  <2> QED BY <1>1, <1>2, <2>1 DEF EntriesInv
<1>5. ASSUME steady', NEW e \in Held(x)'
      PROVE  asked'[e] = param'[x]
  <2>1. e \in Held(x) /\ asked[e] = param[x]
    BY <1>1, <1>2, <1>5 DEF EntriesInv
  <2>2. x \in 1 .. Made
    BY <1>1, <1>2, <2>1 DEF EntriesInv
  <2> QED BY <2>1, <2>2
<1> QED BY <1>3, <1>4, <1>5

\* A query is queued, or an error will be for it, on the handler of the handle
\* meant.
LEMMA EntriesAdded ==
    ASSUME TableInv, NEW p \in Params, MysqlQuery(p) \/ Statement(p),
           statement = 0, asked' # asked
    PROVE  EntriesInv'
<1>1. PICK h \in Positions :
         /\ Valid(p, h)
         /\ Accepted < MaxQueries
         /\ asked' = Append(asked, p)
         /\ UNCHANGED <<param, steady, callbackData, errorCallback>>
         /\ \/ /\ queueData' = [queueData EXCEPT ![SQLHandle[h]] = Append(@, Accepted + 1)]
               /\ UNCHANGED <<statement, refused>>
            \/ /\ statement' = SQLHandle[h] /\ refused' = Accepted + 1
               /\ queueData' = queueData
  BY DEF MysqlQuery, Statement, handlers, queues, calling
<1> DEFINE y == SQLHandle[h]
<1>2. y \in Handlers /\ y \in 1 .. Made /\ Accepted + 1 \in Queries /\ Accepted \in Nat
  BY <1>1, Shape, TableAssumption DEF Queries
<1>3. /\ Accepted' = Accepted + 1 /\ asked'[Accepted + 1] = p
      /\ \A e \in 1 .. Accepted : asked'[e] = asked[e]
  BY <1>1, Shape DEF Accepted, HistoryTypes
<1>4. EntriesInv /\ KnownInv /\ Made' = Made /\ Made \in Nat
  BY <1>1, Shape DEF TableInv, Made
<1>5. steady => param[y] = p
  <2>1. known[p] = h /\ h # 0
    BY <1>1, PositionsNumbers, Shape DEF Valid
  <2> QED BY <1>4, <2>1 DEF KnownInv
<1> SUFFICES ASSUME NEW x \in Handlers
             PROVE  /\ Held(x)' \subseteq 1 .. Accepted'
                    /\ x > Made' => Held(x)' = {}
                    /\ steady' => \A e \in Held(x)' : asked'[e] = param'[x]
  BY DEF EntriesInv
<1>6. /\ Held(x)' \subseteq Held(x) \cup {Accepted + 1}
      /\ x # y => Held(x)' = Held(x)
  <2>1. QueueTypes
    BY Shape
  <2>0. Pending(x) = {} /\ Pending(x)' \subseteq {Accepted + 1}
        /\ (x # y => Pending(x)' = {})
    <3>1. x # 0
      BY DEF Handlers
    <3> QED BY <1>1, <3>1 DEF Pending
  <2>2. CASE x # y
    <3>1. queueData'[x] = queueData[x]
      BY <1>1, <1>2, <2>1, <2>2 DEF QueueTypes
    <3> QED BY <1>1, <2>0, <2>2, <3>1 DEF Held
  <2>3. CASE x = y
    <3>1. queueData[y] \in Entries
      BY <1>2, <2>1 DEF QueueTypes
    <3>2. queueData'[y] \in {queueData[y], Append(queueData[y], Accepted + 1)}
      BY <1>1, <1>2, <2>1 DEF QueueTypes
    <3>3. Range(queueData'[y]) \subseteq Range(queueData[y]) \cup {Accepted + 1}
      BY <1>2, <3>1, <3>2, EntriesPushed
    <3> QED BY <1>1, <2>0, <2>3, <3>3 DEF Held
  <2> QED BY <2>2, <2>3
<1> HIDE DEF y
<1>7. Held(x) \subseteq 1 .. Accepted /\ (x > Made => Held(x) = {})
      /\ (steady => \A e \in Held(x) : asked[e] = param[x])
  BY <1>4 DEF EntriesInv
<1>8. Held(x)' \subseteq 1 .. Accepted'
  <2>1. 1 .. Accepted \subseteq 1 .. Accepted + 1 /\ Accepted + 1 \in 1 .. Accepted + 1
    BY <1>2
  <2> QED BY <1>3, <1>6, <1>7, <2>1
<1>9. x > Made' => Held(x)' = {}
  <2>1. x > Made => x # y
    BY <1>2, <1>4
  <2> QED BY <1>4, <1>6, <1>7, <2>1
<1>10. ASSUME steady', NEW e \in Held(x)'
       PROVE  asked'[e] = param'[x]
  <2>1. steady /\ param' = param
    BY <1>1, <1>10
  <2>2. CASE e \in Held(x)
    <3>1. asked[e] = param[x] /\ e \in 1 .. Accepted
      BY <1>7, <2>1, <2>2
    <3> QED BY <1>3, <2>1, <3>1
  <2>3. CASE e \notin Held(x)
    <3>1. e = Accepted + 1 /\ x = y
      BY <1>6, <1>10, <2>3
    <3> QED BY <1>3, <1>5, <2>1, <3>1
  <2> QED BY <2>2, <2>3
<1> QED BY <1>8, <1>9, <1>10

\* A statement the server will not refuse adds nothing.
LEMMA EntriesAsked ==
    ASSUME TableInv, NEW p \in Params, MysqlQuery(p) \/ Statement(p),
           statement = 0
    PROVE  EntriesInv'
<1>1. CASE asked' # asked
  BY <1>1, EntriesAdded
<1>2. CASE asked' = asked
  <2>1. Append(asked, p) # asked
    <3>1. asked \in Seq(Params)
      BY Shape DEF HistoryTypes
    <3>2. Len(Append(asked, p)) # Len(asked)
      BY <3>1
    <3> QED BY <3>2
  <2>2. Statement(p) /\ refused' = 0
    BY <1>2, <2>1 DEF MysqlQuery, Statement
  <2>3. /\ UNCHANGED <<queueData, callbackData, errorCallback, param, steady>>
        /\ \A x \in Handlers : Pending(x)' = {}
    BY <2>2 DEF Statement, queues, Pending
  <2>4. \A x \in Handlers : Held(x)' \subseteq Held(x)
    BY <2>3 DEF Held
  <2> QED BY <1>2, <2>3, <2>4, EntriesKept, Shape DEF Made
<1> QED BY <1>1, <1>2

\* Every step keeps every entry on the handler it was meant for.
LEMMA EntriesStep ==
    ASSUME TableInv, TableNext
    PROVE  EntriesInv'
<1>1. QueueTypes /\ Made \in Nat /\ Made <= Made
  BY Shape
<1>2. CASE Natives
  <2>1. ASSUME NEW p \in Params, MysqlConnectNew(p)
        PROVE  EntriesInv'
    <3>1. /\ asked' = asked /\ steady' = steady
          /\ \A x \in Handlers : Held(x)' = Held(x)
      BY <2>1 DEF MysqlConnectNew, queues, calling, Held, Pending
    <3> QED BY <1>1, <2>1, <3>1, Opened, EntriesKept
  <2>2. ASSUME NEW p \in Params, MysqlConnectAgain(p) \/ MysqlReconnect(p)
        PROVE  EntriesInv'
    <3>1. /\ UNCHANGED <<asked, steady, param, callbackData, errorCallback>>
          /\ UNCHANGED <<statement, refused>>
          /\ \/ queueData' = queueData
             \/ \E h \in Positions : queueData' = [queueData EXCEPT ![SQLHandle[h]] = <<>>]
      BY <2>2 DEF MysqlConnectAgain, MysqlReconnect, queues, calling, history
    <3>2. \A x \in Handlers : queueData'[x] \in {queueData[x], <<>>}
      BY <1>1, <3>1, Shape DEF QueueTypes
    <3>3. \A x \in Handlers : Held(x)' \subseteq Held(x)
      BY <3>1, <3>2, EntriesEmpty DEF Held, Pending
    <3> QED BY <1>1, <3>1, <3>3, EntriesKept DEF Made
  <2>3. ASSUME NEW p \in Params, MysqlQuery(p) \/ Statement(p)
        PROVE  EntriesInv'
    <3>1. statement = 0
      BY <1>2 DEF Natives
    <3> QED BY <2>3, <3>1, EntriesAsked
  <2>4. ASSUME NEW p \in Params, MysqlClose(p)
        PROVE  EntriesInv'
    <3>1. PICK h \in Positions :
             /\ UNCHANGED <<asked, param, statement, refused>> /\ (steady' => steady)
             /\ queueData' = [queueData EXCEPT ![SQLHandle[h]] = <<>>]
             /\ callbackData' = [callbackData EXCEPT ![SQLHandle[h]] = <<>>]
             /\ errorCallback' = [errorCallback EXCEPT ![SQLHandle[h]] = <<>>]
      BY <2>4 DEF MysqlClose, calling
    <3>2. \A x \in Handlers :
             /\ queueData'[x] \in {queueData[x], <<>>}
             /\ callbackData'[x] \in {callbackData[x], <<>>}
             /\ errorCallback'[x] \in {errorCallback[x], <<>>}
      BY <1>1, <3>1, Shape DEF QueueTypes
    <3>3. \A x \in Handlers : Held(x)' \subseteq Held(x)
      BY <3>1, <3>2, EntriesEmpty DEF Held, Pending
    <3> QED BY <1>1, <3>1, <3>3, EntriesKept DEF Made
  <2> QED BY <1>2, <2>1, <2>2, <2>3, <2>4 DEF Natives
<1>3. CASE ProcessTick
  <2>1. UNCHANGED <<asked, steady, param, queueData, statement, refused>>
    BY <1>3, TickFrame
  <2>2. \A x \in Handlers :
           /\ \/ callbackData'[x] = callbackData[x]
              \/ callbackData[x] # <<>> /\ callbackData'[x] = Tail(callbackData[x])
           /\ \/ errorCallback'[x] = errorCallback[x]
              \/ errorCallback[x] # <<>> /\ errorCallback'[x] = Tail(errorCallback[x])
    <3>1. CASE TickErrorDone
      <4>1. callbackData' = callbackData
        BY <3>1 DEF TickErrorDone
      <4>2. CASE fault' = "none"
        <5>1. errorCallback[Here] # <<>> /\ errorCallback' = [errorCallback EXCEPT ![Here] = Tail(@)]
          BY <3>1, <4>2 DEF TickErrorDone, NothingToPop
        <5> QED BY <1>1, <4>1, <5>1 DEF QueueTypes
      <4>3. CASE fault' # "none"
        BY <3>1, <4>1, <4>3 DEF TickErrorDone
      <4> QED BY <4>2, <4>3
    <3>2. CASE TickFinishDone
      <4>1. errorCallback' = errorCallback
        BY <3>2 DEF TickFinishDone
      <4>2. CASE fault' = "none"
        <5>1. callbackData[Here] # <<>> /\ callbackData' = [callbackData EXCEPT ![Here] = Tail(@)]
          BY <3>2, <4>2 DEF TickFinishDone, NothingToPop
        <5> QED BY <1>1, <4>1, <5>1 DEF QueueTypes
      <4>3. CASE fault' # "none"
        BY <3>2, <4>1, <4>3 DEF TickFinishDone
      <4> QED BY <4>2, <4>3
    <3>3. CASE TickStart \/ TickError \/ TickFinish
      BY <3>3 DEF TickStart, TickError, TickFinish, queues
    <3> QED BY <1>3, <3>1, <3>2, <3>3 DEF ProcessTick
  <2>3. \A x \in Handlers : Held(x)' \subseteq Held(x)
    <3> SUFFICES ASSUME NEW x \in Handlers
                 PROVE  Held(x)' \subseteq Held(x)
      OBVIOUS
    <3>1. callbackData[x] \in Entries /\ errorCallback[x] \in Entries
      BY <1>1 DEF QueueTypes
    <3>2. /\ Range(callbackData'[x]) \subseteq Range(callbackData[x])
          /\ Range(errorCallback'[x]) \subseteq Range(errorCallback[x])
      BY <2>2, <3>1, EntriesPopped
    <3> QED BY <2>1, <3>2 DEF Held, Pending
  <2> QED BY <1>1, <2>1, <2>3, EntriesKept DEF Made
<1>4. CASE ProcessQueryThread
  <2>1. UNCHANGED <<asked, steady, param, statement, refused>> /\ LoopTypes
    BY <1>4, WorkerFrame, Shape
  <2>2. \A x \in Handlers : Held(x)' \subseteq Held(x)
    <3> SUFFICES ASSUME NEW x \in Handlers
                 PROVE  Held(x)' \subseteq Held(x)
      OBVIOUS
    <3>1. CASE WorkerExec
      <4> DEFINE q == pass.query
      <4>1. /\ q = Head(queueData[There]) /\ There \in Handlers /\ queueData[There] \in Entries
            /\ queueData[There] # <<>> /\ q \in Queries
        BY <3>1, ThereIs DEF WorkerExec
      <4>2. q \in Range(queueData[There])
        BY <4>1, EntriesPopped
      <4>3. /\ queueData' = queueData
            /\ \/ /\ callbackData' = [callbackData EXCEPT ![There] = Append(@, q)]
                  /\ errorCallback' = errorCallback
               \/ /\ errorCallback' = [errorCallback EXCEPT ![There] = Append(@, q)]
                  /\ callbackData' = callbackData
        BY <3>1 DEF WorkerExec
      <4> HIDE DEF q
      <4>4. /\ \/ callbackData'[x] = callbackData[x]
               \/ x = There /\ callbackData'[x] = Append(callbackData[x], q)
            /\ \/ errorCallback'[x] = errorCallback[x]
               \/ x = There /\ errorCallback'[x] = Append(errorCallback[x], q)
            /\ callbackData[x] \in Entries /\ errorCallback[x] \in Entries
        BY <1>1, <4>1, <4>3 DEF QueueTypes
      <4>5. ASSUME NEW s \in Entries, NEW t,
                   t = s \/ (x = There /\ t = Append(s, q))
            PROVE  Range(t) \subseteq Range(s) \cup Range(queueData[x])
        <5>1. Range(Append(s, q)) = Range(s) \cup {q}
          BY <4>1, EntriesPushed
        <5> QED BY <4>2, <4>5, <5>1
      <4>6. /\ Range(callbackData'[x]) \subseteq Range(callbackData[x]) \cup Range(queueData[x])
            /\ Range(errorCallback'[x]) \subseteq Range(errorCallback[x]) \cup Range(queueData[x])
        BY <4>4, <4>5
      <4> QED BY <2>1, <4>3, <4>6 DEF Held, Pending
    <3>2. CASE WorkerPop
      <4>1. /\ There \in Handlers /\ queueData[There] \in Entries
            /\ queueData[There] # <<>>
        BY <3>2, ThereIs DEF WorkerPop
      <4>2. /\ UNCHANGED <<callbackData, errorCallback>>
            /\ queueData' = [queueData EXCEPT ![There] = Tail(@)]
        BY <3>2 DEF WorkerPop
      <4>3. \/ queueData'[x] = queueData[x]
            \/ x = There /\ queueData'[x] = Tail(queueData[There])
        BY <1>1, <4>1, <4>2 DEF QueueTypes
      <4>4. Range(queueData'[x]) \subseteq Range(queueData[x])
        BY <4>1, <4>3, EntriesPopped
      <4> QED BY <2>1, <4>2, <4>4 DEF Held, Pending
    <3>3. CASE WorkerLock \/ WorkerLook \/ WorkerRead \/ WorkerConnect
      <4>1. UNCHANGED <<queueData, callbackData, errorCallback>>
        BY <2>1, <3>3, ReadOutcomes DEF WorkerLock, WorkerLook, WorkerConnect, queues
      <4> QED BY <2>1, <4>1 DEF Held, Pending
    <3> QED BY <1>4, <3>1, <3>2, <3>3 DEF ProcessQueryThread
  <2> QED BY <1>1, <2>1, <2>2, EntriesKept DEF Made
<1>5. CASE StatementDone
  <2>1. /\ UNCHANGED <<asked, steady, param, queueData, callbackData>>
        /\ statement' = 0 /\ refused' = 0 /\ statement # 0
        /\ refused = 0 => errorCallback' = errorCallback
        /\ refused # 0 =>
              errorCallback' = [errorCallback EXCEPT ![statement] = Append(@, refused)]
    BY <1>5 DEF StatementDone, history
  <2>2. ASSUME NEW x \in Handlers
        PROVE  Held(x)' \subseteq Held(x)
    <3>1. errorCallback[x] \in Entries
      BY <1>1, <2>2 DEF QueueTypes
    <3>2. CASE refused = 0 \/ statement # x
      <4>1. errorCallback'[x] = errorCallback[x]
        BY <1>1, <2>1, <2>2, <3>2 DEF QueueTypes
      <4> QED BY <2>1, <4>1 DEF Held, Pending
    <3>3. CASE refused # 0 /\ statement = x
      <4>1. refused \in Queries /\ Pending(x) = {refused}
        BY <3>3, Shape, TableAssumption DEF CallTypes, Queries, Pending
      <4>2. errorCallback'[x] = Append(errorCallback[x], refused)
        BY <1>1, <2>1, <2>2, <3>3 DEF QueueTypes
      <4>3. Range(errorCallback'[x]) = Range(errorCallback[x]) \cup {refused}
        BY <3>1, <4>1, <4>2, EntriesPushed
      <4> QED BY <2>1, <4>1, <4>3 DEF Held, Pending
    <3> QED BY <3>2, <3>3
  <2> QED BY <1>1, <2>1, <2>2, EntriesKept DEF Made
<1> QED BY <1>2, <1>3, <1>4, <1>5 DEF TableNext

\* Every step keeps the handles right, closing the last one included.
LEMMA KnownStep ==
    ASSUME TableInv, TableNext
    PROVE  KnownInv'
<1>1. KnownInv /\ HistoryTypes
  BY Shape DEF TableInv
<1>2. ASSUME NEW p \in Params, MysqlConnectNew(p)
      PROVE  KnownInv'
  <2>1. /\ steady' = steady
        /\ known' = [known EXCEPT ![p] = Len(SQLHandle) + 1]
    BY <1>2 DEF MysqlConnectNew, NewHandle
  <2> SUFFICES ASSUME steady, NEW q \in Params, known'[q] # 0
               PROVE  known'[q] \in Positions' /\ param'[SQLHandle'[known'[q]]] = q
    BY <2>1 DEF KnownInv
  <2>2. CASE q = p
    <3>1. known'[q] = Len(SQLHandle) + 1
      BY <1>1, <2>1, <2>2 DEF HistoryTypes
    <3> QED BY <1>2, <2>2, <3>1, Opened
  <2>3. CASE q # p
    <3>1. known'[q] = known[q]
      BY <1>1, <2>1, <2>3 DEF HistoryTypes
    <3>2. known[q] \in Positions /\ param[SQLHandle[known[q]]] = q
      BY <1>1, <3>1 DEF KnownInv
    <3>3. SQLHandle[known[q]] \in 1 .. Made
      BY <3>2, Shape
    <3> QED BY <1>2, <3>1, <3>2, <3>3, Opened
  <2> QED BY <2>2, <2>3
<1>3. ASSUME NEW p \in Params, MysqlConnectAgain(p)
      PROVE  KnownInv'
  <2>1. PICK i \in Positions :
           /\ param[SQLHandle[i]] = p
           /\ known' = [known EXCEPT ![p] = i]
           /\ UNCHANGED <<SQLHandle, param, steady>>
    BY <1>3 DEF MysqlConnectAgain, SameParams
  <2> QED BY <1>1, <2>1 DEF KnownInv, HistoryTypes, Positions
<1>4. ASSUME NEW p \in Params, MysqlClose(p)
      PROVE  KnownInv'
  <2>1. param' = param
    BY <1>4 DEF MysqlClose
  <2>2. /\ known[p] \in Positions /\ known' = [known EXCEPT ![p] = 0]
        /\ steady' = (steady /\ known[p] = Len(SQLHandle))
        /\ Positions' = 1 .. Len(SQLHandle) - 1
        /\ \A i \in Positions' :
              SQLHandle'[i] = IF i < known[p] THEN SQLHandle[i] ELSE SQLHandle[i + 1]
    BY <1>4, Closed
  <2>3. Len(SQLHandle) \in Nat /\ Positions = 1 .. Len(SQLHandle)
    BY Shape
  <2> SUFFICES ASSUME steady, known[p] = Len(SQLHandle),
                      NEW q \in Params, known'[q] # 0
               PROVE  known'[q] \in Positions' /\ param[SQLHandle'[known'[q]]] = q
    BY <2>1, <2>2 DEF KnownInv
  <2>4. q # p /\ known'[q] = known[q]
    BY <1>1, <2>2 DEF HistoryTypes
  <2>5. known[q] \in Positions /\ param[SQLHandle[known[q]]] = q
    BY <1>1, <2>4 DEF KnownInv
  <2>6. known[q] # known[p]
    <3>1. known[p] # 0
      BY <2>2, <2>3
    <3> QED BY <1>1, <2>4, <2>5, <3>1 DEF KnownInv
  <2>7. known[q] \in Positions' /\ known[q] < known[p]
    BY <2>2, <2>3, <2>5, <2>6
  <2> QED BY <2>2, <2>4, <2>5, <2>7
<1>5. ASSUME UNCHANGED <<SQLHandle, param, known, steady>>
      PROVE  KnownInv'
  BY <1>1, <1>5 DEF KnownInv, Positions
<1>6. \/ UNCHANGED <<SQLHandle, param, known, steady>>
      \/ \E p \in Params : MysqlConnectNew(p) \/ MysqlConnectAgain(p) \/ MysqlClose(p)
  <2>1. CASE Natives
    BY <2>1 DEF Natives, MysqlReconnect, MysqlQuery, Statement, history, handlers
  <2> QED BY <2>1, TickFrame, WorkerFrame DEF TableNext, StatementDone, history
<1> QED BY <1>2, <1>3, <1>4, <1>5, <1>6

\* Every step keeps the handles below the handlers made later.
LEMMA UpStep ==
    ASSUME TableInv, TableNext
    PROVE  HandlesOnlyMoveUp'
<1>1. /\ HandlesOnlyMoveUp /\ HistoryTypes /\ Newest
      /\ DOMAIN param = 1 .. Made /\ Made \in Nat
  BY Shape DEF TableInv, VectorInv, VectorTypes, Made
<1>2. Len(SQLHandle) \in Nat /\ Positions = 1 .. Len(SQLHandle)
  BY Shape
<1>3. ASSUME NEW p \in Params, MysqlConnectNew(p)
      PROVE  HandlesOnlyMoveUp'
  <2>1. known' = [known EXCEPT ![p] = Len(SQLHandle) + 1]
    BY <1>3 DEF MysqlConnectNew, NewHandle
  <2>2. DOMAIN param' = 1 .. Made + 1
    BY <1>3, Opened DEF Made
  <2> SUFFICES ASSUME NEW q \in Params, known'[q] # 0, NEW i \in Positions',
                      NEW x \in 1 .. Made + 1, known'[q] <= i, param'[x] = q
               PROVE  x <= SQLHandle'[i]
    BY <2>2 DEF HandlesOnlyMoveUp
  <2>3. CASE i = Len(SQLHandle) + 1
    BY <1>1, <1>3, <2>3, Opened
  <2>4. CASE i \in Positions
    <3>1. q # p /\ known'[q] = known[q]
      BY <1>1, <1>2, <2>1, <2>4 DEF HistoryTypes
    <3>2. x # Made + 1
      BY <1>3, <3>1, Opened
    <3>3. x \in 1 .. Made /\ param[x] = q
      BY <1>1, <1>3, <3>2, Opened
    <3>4. x <= SQLHandle[i]
      BY <1>1, <2>4, <3>1, <3>3 DEF HandlesOnlyMoveUp
    <3> QED BY <1>3, <2>4, <3>4, Opened
  <2> QED BY <1>3, <2>3, <2>4, Opened
<1>4. ASSUME NEW p \in Params, MysqlConnectAgain(p)
      PROVE  HandlesOnlyMoveUp'
  <2>1. PICK j \in Positions :
           /\ param[SQLHandle[j]] = p
           /\ known' = [known EXCEPT ![p] = j]
           /\ UNCHANGED <<SQLHandle, param>>
    BY <1>4 DEF MysqlConnectAgain, SameParams
  <2> SUFFICES ASSUME NEW q \in Params, known'[q] # 0, NEW i \in Positions,
                      NEW x \in DOMAIN param, known'[q] <= i, param[x] = q
               PROVE  x <= SQLHandle[i]
    BY <2>1 DEF HandlesOnlyMoveUp, Positions
  <2>2. CASE q # p
    BY <1>1, <2>1, <2>2 DEF HandlesOnlyMoveUp, HistoryTypes
  <2>3. CASE q = p
    <3>1. j <= i
      BY <1>1, <2>1, <2>3 DEF HistoryTypes
    <3>2. x <= SQLHandle[j]
      BY <1>1, <2>1, <2>3 DEF Newest
    <3>3. SQLHandle[j] <= SQLHandle[i]
      <4>1. j < i => SQLHandle[j] < SQLHandle[i]
        BY Shape
      <4>2. j = i \/ j < i
        BY <1>2, <3>1
      <4>3. SQLHandle[j] \in 1 .. Made /\ SQLHandle[i] \in 1 .. Made
        BY Shape
      <4> QED BY <4>1, <4>2, <4>3
    <3>4. x \in Nat /\ SQLHandle[j] \in Nat /\ SQLHandle[i] \in Nat
      <4>1. SQLHandle[j] \in 1 .. Made /\ SQLHandle[i] \in 1 .. Made
        BY Shape
      <4> QED BY <1>1, <4>1
    <3> QED BY <3>2, <3>3, <3>4
  <2> QED BY <2>2, <2>3
<1>5. ASSUME NEW p \in Params, MysqlClose(p)
      PROVE  HandlesOnlyMoveUp'
  <2>1. param' = param /\ known' = [known EXCEPT ![p] = 0]
    BY <1>5, Closed DEF MysqlClose
  <2> SUFFICES ASSUME NEW q \in Params, known'[q] # 0, NEW i \in Positions',
                      NEW x \in DOMAIN param, known'[q] <= i, param[x] = q
               PROVE  x <= SQLHandle'[i]
    BY <2>1 DEF HandlesOnlyMoveUp
  <2>2. known'[q] = known[q] /\ known[q] \in Nat
    BY <1>1, <2>1 DEF HistoryTypes
  <2>3. \E k \in {i, i + 1} : k \in Positions /\ SQLHandle'[i] = SQLHandle[k]
    BY <1>5, Closed
  <2>4. PICK k \in {i, i + 1} : k \in Positions /\ SQLHandle'[i] = SQLHandle[k]
    BY <2>3
  <2>5. known[q] <= k
    BY <1>5, <2>2, <2>4, Closed, PositionsNumbers
  <2> QED BY <1>1, <2>2, <2>4, <2>5 DEF HandlesOnlyMoveUp
<1>6. ASSUME UNCHANGED <<SQLHandle, param, known>>
      PROVE  HandlesOnlyMoveUp'
  BY <1>1, <1>6 DEF HandlesOnlyMoveUp, Positions
<1>7. \/ UNCHANGED <<SQLHandle, param, known>>
      \/ \E p \in Params : MysqlConnectNew(p) \/ MysqlConnectAgain(p) \/ MysqlClose(p)
  <2>1. CASE Natives
    BY <2>1 DEF Natives, MysqlReconnect, MysqlQuery, Statement, history, handlers
  <2> QED BY <2>1, TickFrame, WorkerFrame DEF TableNext, StatementDone, history
<1> QED BY <1>3, <1>4, <1>5, <1>6, <1>7

-----------------------------------------------------------------------------
(* The remaining types.                                                    *)
LEMMA FlagsStep ==
    ASSUME TableInv, TableNext
    PROVE  FlagTypes'
<1>1. FlagTypes
  BY Shape
<1>2. CASE Natives
  <2>1. ASSUME NEW p \in Params, MysqlConnectNew(p) \/ MysqlConnectAgain(p)
                                                    \/ MysqlReconnect(p)
        PROVE  FlagTypes'
    BY <1>1, <2>1 DEF MysqlConnectNew, MysqlConnectAgain, MysqlReconnect, FlagTypes
  <2>2. ASSUME NEW p \in Params, MysqlQuery(p) \/ Statement(p)
        PROVE  FlagTypes'
    BY <1>1, <2>2 DEF MysqlQuery, Statement, FlagTypes, handlers
  <2>3. ASSUME NEW p \in Params, MysqlClose(p)
        PROVE  FlagTypes'
    BY <1>1, <2>3 DEF MysqlClose, FlagTypes
  <2> QED BY <1>2, <2>1, <2>2, <2>3 DEF Natives
<1>3. CASE ProcessTick
  BY <1>1, <1>3
  DEF ProcessTick, TickStart, TickError, TickErrorDone, TickFinish,
      TickFinishDone, FlagTypes
<1>4. CASE ProcessQueryThread
  BY <1>1, <1>4
  DEF ProcessQueryThread, WorkerLock, WorkerLook, WorkerRead, WorkerConnect,
      WorkerExec, WorkerPop, FlagTypes, handlers
<1>5. CASE StatementDone
  BY <1>1, <1>5 DEF StatementDone, FlagTypes
<1> QED BY <1>2, <1>3, <1>4, <1>5 DEF TableNext

\* The statement in progress is on a handler, or there is none.
LEMMA CallStep ==
    ASSUME TableInv, TableNext
    PROVE  CallTypes'
<1>1. CallTypes /\ 0 \in 0 .. MaxHandlers /\ 0 \in 0 .. MaxQueries
  BY Shape, TableAssumption
<1>2. ASSUME NEW p \in Params, Statement(p)
      PROVE  CallTypes'
  <2>1. PICK h \in Positions :
           /\ statement' = SQLHandle[h]
           /\ refused' = 0 \/ (Accepted < MaxQueries /\ refused' = Accepted + 1)
    BY <1>2 DEF Statement
  <2>2. SQLHandle[h] \in 0 .. MaxHandlers
    BY <2>1, Shape DEF Handlers
  <2>3. Accepted < MaxQueries => Accepted + 1 \in 0 .. MaxQueries
    BY Shape, TableAssumption
  <2> QED BY <1>1, <2>1, <2>2, <2>3 DEF CallTypes
<1>3. CASE StatementDone
  BY <1>1, <1>3 DEF StatementDone, CallTypes
<1>4. ASSUME UNCHANGED <<statement, refused>>
      PROVE  CallTypes'
  BY <1>1, <1>4 DEF CallTypes
<1>5. Natives => \/ UNCHANGED <<statement, refused>>
                 \/ \E p \in Params : Statement(p)
  BY DEF Natives, MysqlConnectNew, MysqlConnectAgain, MysqlReconnect, MysqlQuery,
         MysqlClose, calling
<1> QED BY <1>2, <1>3, <1>4, <1>5, TickFrame, WorkerFrame DEF TableNext

LEMMA QueuesStep ==
    ASSUME TableInv, TableNext
    PROVE  QueueTypes'
<1>1. QueueTypes /\ <<>> \in Entries
  BY Shape, EntriesEmpty
<1>2. \A f \in [Handlers -> Entries], x \in Handlers, s \in Entries :
         [f EXCEPT ![x] = s] \in [Handlers -> Entries]
  OBVIOUS
<1>3. CASE Natives
  <2>1. ASSUME NEW p \in Params, MysqlQuery(p)
        PROVE  QueueTypes'
    <3>1. PICK h \in Positions :
             /\ Accepted < MaxQueries
             /\ UNCHANGED <<callbackData, errorCallback>>
             /\ queueData' = [queueData EXCEPT ![SQLHandle[h]] = Append(@, Accepted + 1)]
      BY <2>1 DEF MysqlQuery
    <3>2. SQLHandle[h] \in Handlers /\ Accepted + 1 \in Queries
      BY <3>1, Shape, TableAssumption DEF Queries
    <3>3. Append(queueData[SQLHandle[h]], Accepted + 1) \in Entries
      <4>1. queueData[SQLHandle[h]] \in Entries
        BY <1>1, <3>2 DEF QueueTypes
      <4> QED BY <3>2, <4>1, EntriesPushed
    <3>4. queueData' \in [Handlers -> Entries]
      BY <1>1, <3>1, <3>2, <3>3 DEF QueueTypes
    <3> QED BY <1>1, <3>1, <3>4 DEF QueueTypes
  <2>2. ASSUME NEW p \in Params,
               MysqlConnectNew(p) \/ MysqlConnectAgain(p) \/ Statement(p)
        PROVE  QueueTypes'
    <3>1. UNCHANGED <<queueData, callbackData, errorCallback>>
      BY <2>2 DEF MysqlConnectNew, MysqlConnectAgain, Statement, queues
    <3> QED BY <1>1, <3>1 DEF QueueTypes
  <2>3. ASSUME NEW p \in Params, MysqlReconnect(p)
        PROVE  QueueTypes'
    <3>1. PICK h \in Positions :
             /\ UNCHANGED <<callbackData, errorCallback>>
             /\ queueData' \in {queueData, [queueData EXCEPT ![SQLHandle[h]] = <<>>]}
      BY <2>3 DEF MysqlReconnect
    <3>2. SQLHandle[h] \in Handlers
      BY Shape
    <3> QED BY <1>1, <1>2, <3>1, <3>2 DEF QueueTypes
  <2>4. ASSUME NEW p \in Params, MysqlClose(p)
        PROVE  QueueTypes'
    <3>1. PICK h \in Positions :
             /\ queueData' = [queueData EXCEPT ![SQLHandle[h]] = <<>>]
             /\ callbackData' = [callbackData EXCEPT ![SQLHandle[h]] = <<>>]
             /\ errorCallback' = [errorCallback EXCEPT ![SQLHandle[h]] = <<>>]
      BY <2>4 DEF MysqlClose
    <3>2. SQLHandle[h] \in Handlers
      BY Shape
    <3> QED BY <1>1, <1>2, <3>1, <3>2 DEF QueueTypes
  <2> QED BY <1>3, <2>1, <2>2, <2>3, <2>4 DEF Natives
<1>4. CASE ProcessTick
  <2>1. CASE TickErrorDone
    <3>1. CASE fault' = "none"
      <4>1. /\ tick.at \in Positions /\ errorCallback[Here] # <<>>
            /\ errorCallback' = [errorCallback EXCEPT ![Here] = Tail(@)]
            /\ UNCHANGED <<queueData, callbackData>>
        BY <2>1, <3>1 DEF TickErrorDone, NothingToPop
      <4>2. Here \in Handlers /\ Tail(errorCallback[Here]) \in Entries
        BY <4>1, HereIs, EntriesPopped
      <4> QED BY <1>1, <1>2, <4>1, <4>2 DEF QueueTypes
    <3>2. CASE fault' # "none"
      BY <1>1, <2>1, <3>2 DEF TickErrorDone, QueueTypes
    <3> QED BY <3>1, <3>2
  <2>2. CASE TickFinishDone
    <3>1. CASE fault' = "none"
      <4>1. /\ tick.at \in Positions /\ callbackData[Here] # <<>>
            /\ callbackData' = [callbackData EXCEPT ![Here] = Tail(@)]
            /\ UNCHANGED <<queueData, errorCallback>>
        BY <2>2, <3>1 DEF TickFinishDone, NothingToPop
      <4>2. Here \in Handlers /\ Tail(callbackData[Here]) \in Entries
        BY <4>1, HereIs, EntriesPopped
      <4> QED BY <1>1, <1>2, <4>1, <4>2 DEF QueueTypes
    <3>2. CASE fault' # "none"
      BY <1>1, <2>2, <3>2 DEF TickFinishDone, QueueTypes
    <3> QED BY <3>1, <3>2
  <2>3. CASE TickStart \/ TickError \/ TickFinish
    BY <1>1, <2>3 DEF TickStart, TickError, TickFinish, QueueTypes, queues
  <2> QED BY <1>4, <2>1, <2>2, <2>3 DEF ProcessTick
<1>5. CASE ProcessQueryThread
  <2>1. CASE WorkerExec
    <3> DEFINE q == pass.query
    <3>1. /\ There \in Handlers
          /\ Append(callbackData[There], q) \in Entries
          /\ Append(errorCallback[There], q) \in Entries
      BY <2>1, ThereIs, EntriesPushed DEF WorkerExec
    <3>2. /\ queueData' = queueData
          /\ \/ /\ callbackData' = [callbackData EXCEPT ![There] = Append(@, q)]
                /\ errorCallback' = errorCallback
             \/ /\ errorCallback' = [errorCallback EXCEPT ![There] = Append(@, q)]
                /\ callbackData' = callbackData
      BY <2>1 DEF WorkerExec
    <3> QED BY <1>1, <1>2, <3>1, <3>2 DEF QueueTypes
  <2>2. CASE WorkerPop
    <3>1. There \in Handlers /\ Tail(queueData[There]) \in Entries
      BY <2>2, ThereIs DEF WorkerPop
    <3> QED BY <1>1, <1>2, <2>2, <3>1 DEF WorkerPop, QueueTypes
  <2>3. CASE WorkerLock \/ WorkerLook \/ WorkerRead \/ WorkerConnect
    <3>1. UNCHANGED <<queueData, callbackData, errorCallback>>
      BY <2>3, ReadOutcomes, Shape DEF WorkerLock, WorkerLook,
                                    WorkerConnect, queues
    <3> QED BY <1>1, <3>1 DEF QueueTypes
  <2> QED BY <1>5, <2>1, <2>2, <2>3 DEF ProcessQueryThread
<1>6. CASE StatementDone
  <2>1. /\ UNCHANGED <<queueData, callbackData>>
        /\ statement \in Handlers
        /\ refused = 0 => errorCallback' = errorCallback
        /\ refused # 0 =>
              /\ refused \in Queries
              /\ errorCallback' = [errorCallback EXCEPT ![statement] = Append(@, refused)]
    BY <1>6, Shape, TableAssumption DEF StatementDone, CallTypes, Handlers, Queries
  <2>2. refused # 0 => Append(errorCallback[statement], refused) \in Entries
    BY <1>1, <2>1, EntriesPushed DEF QueueTypes
  <2> QED BY <1>1, <1>2, <2>1, <2>2 DEF QueueTypes
<1> QED BY <1>3, <1>4, <1>5, <1>6 DEF TableNext

LEMMA LoopsStep ==
    ASSUME TableInv, TableNext
    PROVE  LoopTypes'
<1> DEFINE Ticks == [phase : TickPhases, at : Nat \ {0}, entry : Queries \cup {0}]
<1>1. /\ tick \in Ticks /\ pass \in Passes
      /\ fault \in {"none", "beyond", "empty", "moved"} /\ LoopTypes
  BY Shape DEF LoopTypes
<1>2. /\ Resting \in Ticks /\ TickNext \in Ticks
      /\ Asleep \in Passes /\ PassNext \in Passes
  <2>1. /\ tick.at + 1 \in Nat \ {0} /\ pass.at + 1 \in Nat \ {0} /\ 1 \in Nat \ {0}
        /\ 0 \in 0 .. MaxHandlers /\ 0 \in 0 .. MaxQueries
    BY <1>1, TableAssumption DEF Passes
  <2>2. Resting \in Ticks /\ Asleep \in Passes
    BY <2>1 DEF Resting, Asleep, TickPhases, Passes, PassPhases
  <2>3. TickNext \in Ticks /\ PassNext \in Passes
    BY <2>1 DEF TickNext, PassNext, Asleep, TickPhases, Passes, PassPhases
  <2> QED BY <2>2, <2>3
<1>3. \A ph \in TickPhases :
         [tick EXCEPT !.phase = ph, !.entry = 0] \in Ticks
  BY <1>1
<1>4. \A ph \in PassPhases, b \in BOOLEAN :
         /\ [pass EXCEPT !.phase = ph] \in Passes
         /\ [pass EXCEPT !.stale = b] \in Passes
         /\ [Asleep EXCEPT !.phase = ph] \in Passes
  BY <1>1, <1>2 DEF Passes
<1>5. CASE Natives
  <2>1. UNCHANGED <<tick, fault>> /\ (pass' = pass
            \/ \E b \in BOOLEAN : pass' = [pass EXCEPT !.stale = b])
    <3>1. ASSUME NEW p \in Params, MysqlConnectNew(p)
          PROVE  /\ UNCHANGED <<tick, fault>>
                 /\ \E b \in BOOLEAN : pass' = [pass EXCEPT !.stale = b]
      <4>1. pass.stale \in BOOLEAN
        BY <1>1 DEF Passes
      <4>2. PICK moves \in BOOLEAN :
               pass' = [pass EXCEPT !.stale = @ \/ (moves /\ pass.phase = "read")]
        BY <3>1 DEF MysqlConnectNew
      <4>3. (pass.stale \/ (moves /\ pass.phase = "read")) \in BOOLEAN
        BY <4>1
      <4> QED BY <3>1, <4>2, <4>3 DEF MysqlConnectNew
    <3>2. ASSUME NEW p \in Params, \/ MysqlConnectAgain(p) \/ MysqlReconnect(p)
                                   \/ MysqlQuery(p) \/ Statement(p)
                                   \/ MysqlClose(p)
          PROVE  UNCHANGED <<tick, fault, pass>>
      BY <3>2 DEF MysqlConnectAgain, MysqlReconnect, MysqlQuery,
                  Statement, MysqlClose
    <3> QED BY <1>5, <3>1, <3>2 DEF Natives
  <2>2. pass' \in Passes
    <3>1. pass.phase \in PassPhases
      BY <1>1 DEF Passes
    <3> QED BY <1>1, <1>4, <2>1, <3>1
  <2> QED BY <1>1, <2>1, <2>2 DEF LoopTypes
<1>6. CASE ProcessTick
  <2>0. pass' = pass /\ QueueTypes
    BY <1>6, TickFrame, Shape
  <2> SUFFICES tick' \in Ticks /\ fault' \in {"none", "beyond", "empty"}
    BY <1>1, <2>0 DEF LoopTypes
  <2>1. fault = "none"
    BY <1>6 DEF ProcessTick, Running
  <2>2. CASE TickStart
    BY <1>3, <2>1, <2>2 DEF TickStart, TickGo, TickPhases
  <2>3. CASE TickError
    <3>0. fault' = "none"
      BY <2>1, <2>3 DEF TickError
    <3>1. CASE tick.at \notin Positions
      <4>1. tick' = Resting
        BY <2>3, <3>1 DEF TickError
      <4> QED BY <1>2, <3>0, <4>1
    <3>2. CASE tick.at \in Positions /\ errorCallback[Here] = <<>>
      <4>1. tick' = [tick EXCEPT !.phase = "finish", !.entry = 0]
        BY <2>3, <3>2 DEF TickError, TickGo
      <4> QED BY <1>3, <3>0, <4>1 DEF TickPhases
    <3>3. CASE tick.at \in Positions /\ errorCallback[Here] # <<>>
      <4>1. Head(errorCallback[Here]) \in Queries
        BY <3>3, HereIs, EntriesPopped
      <4>2. tick' = [tick EXCEPT !.phase = "in error",
                                 !.entry = Head(errorCallback[Here])]
        BY <2>3, <3>3 DEF TickError
      <4>3. \A e \in Queries :
               [tick EXCEPT !.phase = "in error", !.entry = e] \in Ticks
        BY <1>1 DEF TickPhases
      <4> HIDE DEF Ticks
      <4> QED BY <3>0, <4>1, <4>2, <4>3
    <3> QED BY <3>1, <3>2, <3>3
  <2>4. CASE TickErrorDone
    <3>1. fault' \in {"none", "beyond", "empty"}
      BY <2>4 DEF TickErrorDone, NothingToPop
    <3>2. tick' = [tick EXCEPT !.phase = "finish", !.entry = 0]
      BY <2>4 DEF TickErrorDone, TickGo
    <3> QED BY <1>3, <3>1, <3>2 DEF TickPhases
  <2>5. CASE TickFinish
    <3>1. fault' \in {"none", "beyond"}
      <4>1. fault' = IF tick.at \in Positions THEN "none" ELSE "beyond"
        BY <2>5 DEF TickFinish
      <4> QED BY <4>1
    <3>2. CASE tick.at \in Positions /\ callbackData[Here] # <<>>
      <4>1. Head(callbackData[Here]) \in Queries
        BY <3>2, HereIs, EntriesPopped
      <4>2. fault' = "none"
        BY <2>5, <3>2 DEF TickFinish
      <4>3. tick' = [tick EXCEPT !.phase = "in finish",
                                 !.entry = Head(callbackData[Here])]
        BY <2>5, <3>2, <4>2 DEF TickFinish
      <4>4. \A e \in Queries :
               [tick EXCEPT !.phase = "in finish", !.entry = e] \in Ticks
        BY <1>1 DEF TickPhases
      <4> HIDE DEF Ticks
      <4> QED BY <4>1, <4>2, <4>3, <4>4
    <3>3. CASE ~(tick.at \in Positions /\ callbackData[Here] # <<>>)
      BY <1>1, <1>2, <2>5, <3>1, <3>3 DEF TickFinish
    <3> QED BY <3>1, <3>2, <3>3
  <2>6. CASE TickFinishDone
    <3>1. fault' \in {"none", "beyond", "empty"}
      BY <2>6 DEF TickFinishDone, NothingToPop
    <3>2. tick' = TickNext
      BY <2>6 DEF TickFinishDone
    <3> QED BY <1>2, <3>1, <3>2
  <2> QED BY <1>6, <2>2, <2>3, <2>4, <2>5, <2>6 DEF ProcessTick
<1>7. CASE ProcessQueryThread
  <2>0. tick' = tick
    BY <1>7, WorkerFrame
  <2>1. CASE WorkerLock
    BY <1>1, <1>4, <2>0, <2>1 DEF WorkerLock, PassPhases, LoopTypes
  <2>2. CASE WorkerLook
    <3>1. fault' = fault
      BY <2>2 DEF WorkerLook
    <3>2. CASE ~More
      BY <1>1, <1>2, <2>0, <2>2, <3>1, <3>2 DEF WorkerLook, Sleep, LoopTypes
    <3>3. CASE More
      <4>1. There \in 0 .. MaxHandlers
        BY <1>1, <3>3, Shape DEF More, There, Passes, Handlers
      <4>2. pass' = [pass EXCEPT !.phase = "read", !.handler = There]
        BY <2>2, <3>3 DEF WorkerLook
      <4>3. pass' \in Passes
        BY <1>1, <4>1, <4>2 DEF Passes, PassPhases
      <4> QED BY <1>1, <2>0, <3>1, <4>3 DEF LoopTypes
    <3> QED BY <3>2, <3>3
  <2>3. CASE WorkerRead
    BY <1>1, <2>0, <2>3, ReadOutcomes DEF LoopTypes
  <2>4. CASE WorkerExec
    BY <1>1, <1>4, <2>0, <2>4 DEF WorkerExec, PassPhases, LoopTypes
  <2>5. CASE WorkerPop \/ WorkerConnect
    BY <1>1, <1>2, <2>0, <2>5 DEF WorkerPop, WorkerConnect, LoopTypes
  <2> QED BY <1>7, <2>1, <2>2, <2>3, <2>4, <2>5 DEF ProcessQueryThread
<1>8. CASE StatementDone
  BY <1>1, <1>8 DEF StatementDone, LoopTypes
<1> QED BY <1>5, <1>6, <1>7, <1>8 DEF TableNext

LEMMA HistoryStep ==
    ASSUME TableInv, TableNext
    PROVE  HistoryTypes'
<1>1. HistoryTypes
  BY Shape
<1>2. CASE Natives
  <2>1. ASSUME NEW p \in Params, MysqlConnectNew(p)
        PROVE  HistoryTypes'
    <3>1. Len(SQLHandle) + 1 \in 0 .. MaxHandlers
      BY <2>1, Shape, TableAssumption DEF MysqlConnectNew
    <3> QED BY <1>1, <2>1, <3>1 DEF MysqlConnectNew, NewHandle, HistoryTypes, Accepted
  <2>2. ASSUME NEW p \in Params, MysqlConnectAgain(p)
        PROVE  HistoryTypes'
    <3>1. \A i \in Positions : i \in 0 .. MaxHandlers
      BY Shape, TableAssumption
    <3>2. PICK i \in Positions : known' = [known EXCEPT ![p] = i]
      BY <2>2 DEF MysqlConnectAgain, SameParams
    <3>3. UNCHANGED <<asked, careful, steady>>
      BY <2>2 DEF MysqlConnectAgain
    <3> QED BY <1>1, <3>1, <3>2, <3>3 DEF HistoryTypes, Accepted
  <2>3. ASSUME NEW p \in Params, MysqlReconnect(p)
        PROVE  HistoryTypes'
    BY <1>1, <2>3 DEF MysqlReconnect, HistoryTypes, Accepted, history
  <2>4. ASSUME NEW p \in Params, MysqlQuery(p) \/ Statement(p)
        PROVE  HistoryTypes'
    <3>1. /\ \/ asked' = asked
             \/ Accepted < MaxQueries /\ asked' = Append(asked, p)
          /\ UNCHANGED <<known, careful, steady>>
      BY <2>4 DEF MysqlQuery, Statement
    <3>2. CASE asked' = asked
      BY <1>1, <3>1, <3>2 DEF HistoryTypes, Accepted
    <3>3. CASE Accepted < MaxQueries /\ asked' = Append(asked, p)
      <4>1. asked' \in Seq(Params) /\ Accepted' = Accepted + 1
        BY <1>1, <3>3 DEF HistoryTypes, Accepted
      <4> QED BY <1>1, <3>1, <3>3, <4>1, TableAssumption DEF HistoryTypes
    <3> QED BY <3>1, <3>2, <3>3
  <2>5. ASSUME NEW p \in Params, MysqlClose(p)
        PROVE  HistoryTypes'
    <3>1. asked' = asked /\ 0 \in 0 .. MaxHandlers
      BY <2>5, TableAssumption DEF MysqlClose
    <3> QED BY <1>1, <2>5, <3>1, Closed DEF HistoryTypes, Accepted
  <2> QED BY <1>2, <2>1, <2>2, <2>3, <2>4, <2>5 DEF Natives
<1>3. CASE ProcessTick \/ ProcessQueryThread
  BY <1>1, <1>3, TickFrame, WorkerFrame DEF HistoryTypes, Accepted
<1>4. CASE StatementDone
  BY <1>1, <1>4 DEF StatementDone, HistoryTypes, Accepted, history
<1> QED BY <1>2, <1>3, <1>4 DEF TableNext

-----------------------------------------------------------------------------
(* The invariant, and what it says for every number of handlers.           *)
\* It holds at first.
LEMMA TableStarts == TableInit => TableInv
<1> SUFFICES ASSUME TableInit
             PROVE  TableInv
  OBVIOUS
<1>1. /\ SQLHandle = <<>> /\ param = <<>> /\ asked = <<>>
      /\ SQLHandle \in Seq(Handlers) /\ param \in Seq(Params) /\ asked \in Seq(Params)
      /\ Made = 0 /\ Accepted = 0 /\ Len(SQLHandle) = 0 /\ Positions = {}
  BY DEF TableInit, Made, Accepted, Positions
<1>2. TableTypeOK
  <2>1. MutexTypeOK
    BY DEF TableInit, MutexInit, MutexFree, MutexTypeOK
  <2>2. VectorTypes /\ HistoryTypes
    BY <1>1, TableAssumption DEF TableInit, VectorTypes, HistoryTypes
  <2>3. FlagTypes /\ QueueTypes
    BY EntriesEmpty DEF TableInit, FlagTypes, QueueTypes
  <2>4. LoopTypes /\ CallTypes
    <3>1. 0 \in 0 .. MaxHandlers /\ 0 \in 0 .. MaxQueries
      BY TableAssumption
    <3> QED BY <3>1 DEF TableInit, LoopTypes, CallTypes, Resting, Asleep,
                        TickPhases, Passes, PassPhases
  <2> QED BY <2>1, <2>2, <2>3, <2>4, TypeGroups
<1>3. VectorInv
  BY <1>1 DEF VectorInv, Newest
<1>4. TurnInv /\ WorkerKeepsHandler /\ PopsWhatItTold
  BY DEF TableInit, MutexInit, MutexFree, TurnInv, WorkerKeepsHandler,
         PopsWhatItTold, Resting, Asleep
<1>5. EntriesInv
  <2>1. \A x \in Handlers : Held(x) = {}
    BY EntriesEmpty DEF TableInit, Held, Pending, Handlers
  <2> QED BY <2>1 DEF EntriesInv
<1>6. KnownInv /\ HandlesOnlyMoveUp
  BY DEF TableInit, KnownInv, HandlesOnlyMoveUp
<1> QED BY <1>2, <1>3, <1>4, <1>5, <1>6 DEF TableInv

\* It holds when nothing changes.
LEMMA TableStutters ==
    ASSUME TableInv, UNCHANGED vars
    PROVE  TableInv'
<1>1. /\ UNCHANGED <<SQLHandle, param, m_bIsConnected, m_bQueryProcessing>>
      /\ UNCHANGED <<queueData, callbackData, errorCallback, mutex, tick, pass>>
      /\ UNCHANGED <<fault, known, asked, careful, steady>>
      /\ UNCHANGED <<m_bNonThreadedQuery, statement, refused>>
  BY DEF vars, handlers, queues, calling, history
<1>2. TableTypeOK'
  BY <1>1 DEF TableInv, TableTypeOK, MutexTypeOK, Made, Accepted
<1>3. VectorInv' /\ TurnInv' /\ KnownInv' /\ HandlesOnlyMoveUp'
  BY <1>1 DEF TableInv, VectorInv, TurnInv, KnownInv, HandlesOnlyMoveUp, Newest,
              Positions, Made
<1>4. WorkerKeepsHandler' /\ PopsWhatItTold'
  BY <1>1 DEF TableInv, WorkerKeepsHandler, PopsWhatItTold, Here, There, Positions
<1>5. EntriesInv'
  BY <1>1 DEF TableInv, EntriesInv, Held, Pending, Made, Accepted
<1> QED BY <1>2, <1>3, <1>4, <1>5 DEF TableInv

\* Natives, ProcessTick and the worker's pass keep the invariant.
THEOREM TableInductive == TableSpec => []TableInv
<1>1. TableInv /\ TableNext => TableInv'
  <2> SUFFICES ASSUME TableInv, TableNext
               PROVE  TableInv'
    OBVIOUS
  <2>1. TableTypeOK'
    <3>1. /\ MutexTypeOK' /\ VectorTypes' /\ FlagTypes' /\ QueueTypes'
          /\ CallTypes' /\ LoopTypes' /\ HistoryTypes'
      BY TurnStep, VectorStep, FlagsStep, CallStep, QueuesStep, LoopsStep, HistoryStep
    <3> QED BY <3>1
            DEF TableTypeOK, VectorTypes, FlagTypes, CallTypes, QueueTypes,
                LoopTypes, HistoryTypes
  <2> QED BY <2>1, VectorStep, TurnStep, WorkerKeepsStep, PopsStep,
             EntriesStep, KnownStep, UpStep DEF TableInv
<1>2. TableInv /\ [TableNext]_vars => TableInv'
  BY <1>1, TableStutters
<1> QED BY <1>2, TableStarts, PTL DEF TableSpec

(***************************************************************************)
(* Types: positions and queue entries stay in range (main.cpp's loops).    *)
(***************************************************************************)
THEOREM TableTypes == TableSpec => []TableTypeOK
<1>1. TableInv => TableTypeOK
  BY DEF TableInv
<1> QED BY <1>1, TableInductive, PTL

(***************************************************************************)
(* ProcessTick pops the entry whose callback has just returned, as long as *)
(* no callback closes its own handle or one before it (mysql_close).       *)
(***************************************************************************)
THEOREM PopsSafe == TableSpec => []PopsWhatItTold
<1>1. TableInv => PopsWhatItTold
  BY DEF TableInv
<1> QED BY <1>1, TableInductive, PTL

(***************************************************************************)
(* A handle that a mysql_close has made stale names a newer connection or  *)
(* none, and never an older one (mysql_connect and SQLHandle.erase).       *)
(***************************************************************************)
THEOREM HandlesMoveUp == TableSpec => []HandlesOnlyMoveUp
<1>1. TableInv => HandlesOnlyMoveUp
  BY DEF TableInv
<1> QED BY <1>1, TableInductive, PTL

(***************************************************************************)
(* The mutex alone keeps the handler the worker has turned to at its       *)
(* position, and the query it has taken at the head of that handler's      *)
(* queue: no mysql_close or mysql_reconnect pulls them away during a pass. *)
(***************************************************************************)
THEOREM HandlerStays == TableSpec => []WorkerKeepsHandler
<1>1. TableInv => WorkerKeepsHandler
  BY DEF TableInv
<1> QED BY <1>1, TableInductive, PTL

(***************************************************************************)
(* Handles keep naming their connections, and queries reach the one they   *)
(* were meant for, if scripts close only the last handle (mysql_close).    *)
(***************************************************************************)
THEOREM HandlesMeanTheSame == TableSpec => []HandlesKeepTheirMeaning
<1>1. TableInv => HandlesKeepTheirMeaning
  <2> SUFFICES ASSUME TableInv
               PROVE  HandlesKeepTheirMeaning
    OBVIOUS
  <2>1. \A i \in Positions : SQLHandle[i] \in Handlers
    BY Shape
  <2> QED BY <2>1 DEF TableInv, KnownInv, EntriesInv, Held, HandlesKeepTheirMeaning
<1> QED BY <1>1, TableInductive, PTL
=============================================================================
