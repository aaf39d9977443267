----------------------------- MODULE HandleTable ----------------------------
(***************************************************************************)
(* SQLHandle, the vector of connection handlers.  A script knows a         *)
(* connection by its handle, the position in the vector.  Positions change *)
(* when mysql_close erases one, and ProcessTick walks the vector by        *)
(* position while the callbacks it runs may open and close handles.        *)
(*                                                                         *)
(* Each handler keeps its three queues; what goes on inside one connection *)
(* is the subject of QueryThread.                                          *)
(*                                                                         *)
(* Stepping beyond the vector, popping an empty queue and reading the      *)
(* vector through memory it has moved out of are undefined: a fault, at    *)
(* which a behaviour ends.                                                 *)
(***************************************************************************)
EXTENDS CMutex, SequencesExt

CONSTANTS
    Params,        \* host, user, database, password and port, all in one
    MaxHandlers,   \* bound: handlers a behaviour makes
    MaxQueries     \* bound: threaded queries a behaviour accepts

ASSUME TableAssumption == MaxHandlers \in Nat /\ MaxQueries \in Nat

VARIABLES
    SQLHandle,                    \* handlers, numbered as they are made
    param,                        \* what each handler connects to
    m_bIsConnected, m_bQueryProcessing, m_bNonThreadedQuery,
    queueData, callbackData, errorCallback,   \* of each handler
    statement,                    \* the handler the main thread is in a
                                  \* mysql_real_query for, or 0
    refused,                      \* the query in it, if it will fail, or 0
    tick,                         \* ProcessTick's loop
    pass,                         \* ProcessQueryThread's loop
    fault,                        \* the first fault, if any
    \* history
    known,                        \* the handle a script has for a connection
    asked,                        \* which connection each query was meant for
    careful, steady               \* what scripts have refrained from so far

handlers == <<param, m_bIsConnected, m_bQueryProcessing, m_bNonThreadedQuery>>
queues   == <<queueData, callbackData, errorCallback>>
calling  == <<statement, refused>>
history  == <<known, asked, careful, steady>>

vars == <<SQLHandle, handlers, queues, mutex, calling, tick, pass, fault, history>>

Handlers == 1 .. MaxHandlers
Queries  == 1 .. MaxQueries
Entries  == Seq(Queries)

Made == Len(param)
Accepted == Len(asked)

\* Where the two loops are.  at counts from 1, the code's i from 0.
TickPhases == {"none", "error", "in error", "finish", "in finish"}
PassPhases == {"sleep", "look", "read", "connect", "exec", "pop"}

Resting == [phase |-> "none", at |-> 1, entry |-> 0]
Asleep  == [phase |-> "sleep", at |-> 1, stale |-> FALSE, handler |-> 0, query |-> 0]

\* handler and query: what the worker has turned to, and taken from its queue.
Passes  == [phase : PassPhases, at : Nat \ {0}, stale : BOOLEAN,
            handler : 0 .. MaxHandlers, query : 0 .. MaxQueries]

TableTypeOK ==
    /\ MutexTypeOK
    /\ SQLHandle \in Seq(Handlers)
    /\ param \in Seq(Params)
    /\ Made \in 0 .. MaxHandlers
    /\ m_bIsConnected \in [Handlers -> BOOLEAN]
    /\ m_bQueryProcessing \in [Handlers -> BOOLEAN]
    /\ m_bNonThreadedQuery \in [Handlers -> BOOLEAN]
    /\ queueData \in [Handlers -> Entries]
    /\ callbackData \in [Handlers -> Entries]
    /\ errorCallback \in [Handlers -> Entries]
    /\ statement \in 0 .. MaxHandlers
    /\ refused \in 0 .. MaxQueries
    /\ tick \in [phase : TickPhases, at : Nat \ {0}, entry : Queries \cup {0}]
    /\ pass \in Passes
    /\ fault \in {"none", "beyond", "empty", "moved"}
    /\ known \in [Params -> 0 .. MaxHandlers]
    /\ asked \in Seq(Params)
    /\ Accepted \in 0 .. MaxQueries
    /\ careful \in BOOLEAN
    /\ steady \in BOOLEAN

TableInit ==
    /\ MutexInit
    /\ SQLHandle = <<>>
    /\ param = <<>>
    /\ m_bIsConnected = [x \in Handlers |-> FALSE]
    /\ m_bQueryProcessing = [x \in Handlers |-> FALSE]
    /\ m_bNonThreadedQuery = [x \in Handlers |-> FALSE]
    /\ queueData = [x \in Handlers |-> <<>>]
    /\ callbackData = [x \in Handlers |-> <<>>]
    /\ errorCallback = [x \in Handlers |-> <<>>]
    /\ statement = 0
    /\ refused = 0
    /\ tick = Resting
    /\ pass = Asleep
    /\ fault = "none"
    /\ known = [p \in Params |-> 0]
    /\ asked = <<>>
    /\ careful = TRUE
    /\ steady = TRUE

Positions == DOMAIN SQLHandle

Running == fault = "none"

\* Where mysql_connect finds these parameters.
SameParams(p) == {i \in Positions : param[SQLHandle[i]] = p}

-----------------------------------------------------------------------------
(***************************************************************************)
(* The natives.  A script uses the handles it has: known.  A native is one *)
(* step, but for a statement, during which the main thread is in the       *)
(* library; those that push or clear queueData, or erase, need the mutex.  *)
(***************************************************************************)

\* Mutant: the handle is computed before the handler is pushed.
NewHandleEarly == Len(SQLHandle)

\* SQLHandle.size() after the push_back.
NewHandle == Len(SQLHandle) + 1

\* mysql_connect, parameters not in the table.  push_back may move the
\* vector while the worker is reading an element of it.
MysqlConnectNew(p) ==
    /\ SameParams(p) = {}
    /\ Made < MaxHandlers
    /\ SQLHandle' = Append(SQLHandle, Made + 1)
    /\ param' = Append(param, p)
    /\ \E ok \in BOOLEAN : m_bIsConnected' = [m_bIsConnected EXCEPT ![Made + 1] = ok]
    /\ known' = [known EXCEPT ![p] = NewHandle]
    /\ \E moves \in BOOLEAN :
          pass' = [pass EXCEPT !.stale = @ \/ (moves /\ pass.phase = "read")]
    /\ UNCHANGED <<m_bQueryProcessing, m_bNonThreadedQuery, queues, mutex,
                   calling, tick, fault, asked, careful, steady>>

\* mysql_connect, parameters of a handler in the table: connect it again.
MysqlConnectAgain(p) ==
    \E i \in SameParams(p), ok \in BOOLEAN :
       /\ \A j \in SameParams(p) : i <= j
       /\ m_bIsConnected' = [m_bIsConnected EXCEPT ![SQLHandle[i]] = ok]
       /\ known' = [known EXCEPT ![p] = i]
       /\ UNCHANGED <<SQLHandle, param, m_bQueryProcessing, m_bNonThreadedQuery,
                      queues, mutex, calling, tick, pass, fault, asked,
                      careful, steady>>

\* VALID_CONNECTION_HANDLE: the script has a handle h, and h is in range.
Valid(p, h) == known[p] = h /\ h \in Positions

\* mysql_reconnect: Disconnect empties the queue of a connected handler.
MysqlReconnect(p) ==
    \E h \in Positions, ok \in BOOLEAN :
       LET x == SQLHandle[h] IN
       /\ Valid(p, h)
       /\ m_bIsConnected[x] => CanLock("main")
       /\ queueData' = IF m_bIsConnected[x] THEN [queueData EXCEPT ![x] = <<>>]
                       ELSE queueData
       /\ m_bIsConnected' = [m_bIsConnected EXCEPT ![x] = ok]
       /\ UNCHANGED <<SQLHandle, param, m_bQueryProcessing, m_bNonThreadedQuery,
                      callbackData, errorCallback, mutex, calling, tick, pass,
                      fault, history>>

\* mysql_query with a result id, mysql_query_callback.
MysqlQuery(p) ==
    \E h \in Positions :
       LET x == SQLHandle[h] IN
       /\ Valid(p, h)
       /\ m_bIsConnected[x]
       /\ CanLock("main")
       /\ Accepted < MaxQueries
       /\ asked' = Append(asked, p)
       /\ queueData' = [queueData EXCEPT ![x] = Append(@, Accepted + 1)]
       /\ UNCHANGED <<SQLHandle, handlers, callbackData, errorCallback, mutex,
                      calling, tick, pass, fault, known, careful, steady>>

\* mysql_query without a result id: OldQuery marks the handler and sends the
\* statement.  What the server will answer is decided here.
Statement(p) ==
    \E h \in Positions :
       LET x == SQLHandle[h] IN
       /\ Valid(p, h)
       /\ m_bIsConnected[x]
       /\ m_bNonThreadedQuery' = [m_bNonThreadedQuery EXCEPT ![x] = TRUE]
       /\ statement' = x
       /\ \/ refused' = 0 /\ UNCHANGED asked
          \/ /\ Accepted < MaxQueries
             /\ refused' = Accepted + 1
             /\ asked' = Append(asked, p)
       /\ UNCHANGED <<SQLHandle, param, m_bIsConnected, m_bQueryProcessing, queues,
                      mutex, tick, pass, fault, known, careful, steady>>

\* OldQuery queues the error itself.  (What two pushes at once do is in
\* QueryThread.)
StatementDone ==
    /\ Running
    /\ statement # 0
    /\ m_bNonThreadedQuery' = [m_bNonThreadedQuery EXCEPT ![statement] = FALSE]
    /\ errorCallback' = IF refused = 0 THEN errorCallback
                        ELSE [errorCallback EXCEPT ![statement] = Append(@, refused)]
    /\ statement' = 0
    /\ refused' = 0
    /\ UNCHANGED <<SQLHandle, param, m_bIsConnected, m_bQueryProcessing, queueData,
                   callbackData, mutex, tick, pass, fault, history>>

\* Mutant: mysql_close does not wait for the worker's pass to end.
CloseAnyTime == TRUE

\* mysql_close takes the mutex.
CloseInTurn == CanLock("main")

\* Mutant: the handle before the one meant is erased.
EraseBefore(h) == IF h > 1 THEN h - 1 ELSE h

\* SQLHandle.erase(SQLHandle.begin() + cID)
Erased(h) == h

\* mysql_close: the handler and its queues are deleted and the handles
\* after it move down by one.  Disconnect of a connected one takes the mutex
\* again: on pthreads the call never returns (CloseReturns in QueryThread).
MysqlClose(p) ==
    \E h \in Positions :
       LET x == SQLHandle[h] IN
       /\ Valid(p, h)
       /\ CloseInTurn
       /\ m_bIsConnected[x] => Recursive
       /\ SQLHandle' = RemoveAt(SQLHandle, Erased(h))
       /\ m_bIsConnected' = [m_bIsConnected EXCEPT ![x] = FALSE]
       /\ m_bQueryProcessing' = [m_bQueryProcessing EXCEPT ![x] = FALSE]
       /\ m_bNonThreadedQuery' = [m_bNonThreadedQuery EXCEPT ![x] = FALSE]
       /\ queueData' = [queueData EXCEPT ![x] = <<>>]
       /\ callbackData' = [callbackData EXCEPT ![x] = <<>>]
       /\ errorCallback' = [errorCallback EXCEPT ![x] = <<>>]
       /\ known' = [known EXCEPT ![p] = 0]
       /\ careful' = (careful /\ (tick.phase = "none" \/ tick.at < h))
       /\ steady' = (steady /\ h = Len(SQLHandle))
       /\ UNCHANGED <<param, mutex, calling, tick, pass, fault, asked>>

Natives ==
    /\ Running
    /\ statement = 0
    /\ tick.phase \in {"none", "in error", "in finish"}
    /\ \E p \in Params :
          \/ MysqlConnectNew(p) \/ MysqlConnectAgain(p) \/ MysqlReconnect(p)
          \/ MysqlQuery(p) \/ Statement(p) \/ MysqlClose(p)

-----------------------------------------------------------------------------
(***************************************************************************)
(* ProcessTick: for each position an error, then a finished query.  Only   *)
(* the head of the loop compares the position with the size; the entry is  *)
(* popped from SQLHandle[i] as it is after the callback.                   *)
(***************************************************************************)
Here == SQLHandle[tick.at]

TickGo(phase) == tick' = [tick EXCEPT !.phase = phase, !.entry = 0]

TickStart ==
    /\ tick.phase = "none"
    /\ SQLHandle # <<>>
    /\ TickGo("error")
    /\ UNCHANGED <<m_bQueryProcessing, queues, fault>>

TickError ==
    /\ tick.phase = "error"
    /\ IF tick.at \notin Positions THEN tick' = Resting
       ELSE IF errorCallback[Here] = <<>> THEN TickGo("finish")
       ELSE tick' = [tick EXCEPT !.phase = "in error",
                                 !.entry = Head(errorCallback[Here])]
    /\ UNCHANGED <<m_bQueryProcessing, queues, fault>>

\* What SQLHandle[i]->queue.pop() does when there is nothing to pop.
NothingToPop(queue) ==
    fault' = IF tick.at \notin Positions THEN "beyond"
             ELSE IF queue[Here] = <<>> THEN "empty" ELSE "none"

TickErrorDone ==
    /\ tick.phase = "in error"
    /\ NothingToPop(errorCallback)
    /\ errorCallback' = IF fault' = "none"
                        THEN [errorCallback EXCEPT ![Here] = Tail(@)]
                        ELSE errorCallback
    /\ TickGo("finish")
    /\ UNCHANGED <<m_bQueryProcessing, queueData, callbackData>>

\* Mutant: the loop goes one handler too far.
TickNextLate == [phase |-> "finish", at |-> tick.at + 1, entry |-> 0]

\* i++
TickNext == [phase |-> "error", at |-> tick.at + 1, entry |-> 0]

TickFinish ==
    /\ tick.phase = "finish"
    /\ fault' = IF tick.at \in Positions THEN "none" ELSE "beyond"
    /\ tick' = IF fault' # "none" THEN tick
               ELSE IF callbackData[Here] = <<>> THEN TickNext
               ELSE [tick EXCEPT !.phase = "in finish",
                                 !.entry = Head(callbackData[Here])]
    /\ UNCHANGED <<m_bQueryProcessing, queues>>

TickFinishDone ==
    /\ tick.phase = "in finish"
    /\ NothingToPop(callbackData)
    /\ IF fault' = "none"
       THEN /\ callbackData' = [callbackData EXCEPT ![Here] = Tail(@)]
            /\ m_bQueryProcessing' = [m_bQueryProcessing EXCEPT ![Here] = FALSE]
       ELSE UNCHANGED <<callbackData, m_bQueryProcessing>>
    /\ tick' = TickNext
    /\ UNCHANGED <<queueData, errorCallback>>

ProcessTick ==
    /\ Running
    /\ statement = 0
    /\ \/ TickStart \/ TickError \/ TickErrorDone \/ TickFinish \/ TickFinishDone
    /\ UNCHANGED <<SQLHandle, param, m_bIsConnected, m_bNonThreadedQuery, mutex,
                   calling, pass, history>>

-----------------------------------------------------------------------------
(***************************************************************************)
(* ProcessQueryThread: a pass over the vector under the mutex.             *)
(***************************************************************************)
There == SQLHandle[pass.at]

WorkerLock ==
    /\ pass.phase = "sleep"
    /\ LockMutex("worker")
    /\ pass' = [Asleep EXCEPT !.phase = "look"]
    /\ UNCHANGED <<handlers, queues, fault>>

\* Mutant: the last handler is never looked at.
MoreButLast == pass.at < Len(SQLHandle)

\* i < SQLHandle.size()
More == pass.at <= Len(SQLHandle)

\* Mutant: the worker goes to sleep with the mutex.
SleepLocked == pass' = Asleep /\ UNCHANGED mutex

Sleep == pass' = Asleep /\ UnlockMutex

\* The loop's condition; then the worker begins to read SQLHandle[i].
WorkerLook ==
    /\ pass.phase = "look"
    /\ IF More
       THEN /\ pass' = [pass EXCEPT !.phase = "read", !.handler = There]
            /\ UNCHANGED mutex
       ELSE Sleep
    /\ UNCHANGED <<handlers, queues, fault>>

Ready(x) ==
    /\ queueData[x] # <<>>
    /\ m_bIsConnected[x]
    /\ ~m_bQueryProcessing[x]
    /\ ~m_bNonThreadedQuery[x]

PassNext == [Asleep EXCEPT !.phase = "look", !.at = pass.at + 1]

\* SQLHandle[i] is read, the guard evaluated, the connection pinged and the
\* query in front copied; after a failed ping the handler is disconnected.
\* This read stands for every mention of SQLHandle[i] in the loop: each reads
\* the vector anew.
WorkerRead ==
    /\ pass.phase = "read"
    /\ \/ pass.stale /\ fault' = "moved" /\ UNCHANGED <<pass, m_bIsConnected>>
       \/ /\ Ready(There)
          /\ pass' = [pass EXCEPT !.phase = "exec", !.stale = FALSE,
                                  !.query = Head(queueData[There])]
          /\ UNCHANGED <<fault, m_bIsConnected>>
       \/ /\ Ready(There)
          /\ m_bIsConnected' = [m_bIsConnected EXCEPT ![There] = FALSE]
          /\ pass' = [pass EXCEPT !.phase = "connect", !.stale = FALSE]
          /\ UNCHANGED fault
       \/ ~Ready(There) /\ pass' = PassNext /\ UNCHANGED <<fault, m_bIsConnected>>
    /\ UNCHANGED <<param, m_bQueryProcessing, m_bNonThreadedQuery, queues, mutex>>

\* Connect, which does nothing if mysql_reconnect was faster.
WorkerConnect ==
    /\ pass.phase = "connect"
    /\ \E ok \in BOOLEAN :
          m_bIsConnected' = [m_bIsConnected EXCEPT ![There] = @ \/ ok]
    /\ pass' = PassNext
    /\ UNCHANGED <<param, m_bQueryProcessing, m_bNonThreadedQuery, queues, mutex,
                   fault>>

\* The statement, and the push of its outcome.
WorkerExec ==
    /\ pass.phase = "exec"
    /\ \/ /\ callbackData' = [callbackData EXCEPT ![There] = Append(@, pass.query)]
          /\ m_bQueryProcessing' = [m_bQueryProcessing EXCEPT ![There] = TRUE]
          /\ UNCHANGED errorCallback
       \/ /\ errorCallback' = [errorCallback EXCEPT ![There] = Append(@, pass.query)]
          /\ UNCHANGED <<callbackData, m_bQueryProcessing>>
    /\ pass' = [pass EXCEPT !.phase = "pop"]
    /\ UNCHANGED <<param, m_bIsConnected, m_bNonThreadedQuery, queueData, mutex,
                   fault>>

WorkerPop ==
    /\ pass.phase = "pop"
    /\ queueData' = [queueData EXCEPT ![There] = Tail(@)]
    /\ pass' = PassNext
    /\ UNCHANGED <<handlers, callbackData, errorCallback, mutex, fault>>

ProcessQueryThread ==
    /\ Running
    /\ \/ WorkerLock \/ WorkerLook \/ WorkerRead \/ WorkerConnect \/ WorkerExec
       \/ WorkerPop
    /\ UNCHANGED <<SQLHandle, calling, tick, history>>

-----------------------------------------------------------------------------
TableNext == Natives \/ StatementDone \/ ProcessTick \/ ProcessQueryThread

TableSpec == TableInit /\ [][TableNext]_vars

\* Statements return, the worker runs, and the server returns to ProcessTick
\* and callbacks return although natives come in between.
TableFairSpec ==
    /\ TableSpec
    /\ WF_vars(StatementDone)
    /\ SF_vars(ProcessTick)
    /\ WF_vars(ProcessQueryThread)

-----------------------------------------------------------------------------
(***************************************************************************)
(* As long as no callback has closed its own handle or one before it,      *)
(* ProcessTick pops exactly the entry whose callback has just returned, on *)
(* the handler it took it from, and never leaves the vector: opening       *)
(* handles and closing later ones from a callback is safe.  (The worker's  *)
(* push to the same queues is one step here; that it may overlap with a    *)
(* pop of errorCallback, and lose or invent a record, is in QueryThread.)  *)
(***************************************************************************)
PopsWhatItTold ==
    careful =>
       /\ fault \notin {"beyond", "empty"}
       /\ tick.phase \notin {"none", "error"} => tick.at \in Positions
       /\ tick.phase = "in error" =>
             errorCallback[Here] # <<>> /\ Head(errorCallback[Here]) = tick.entry
       /\ tick.phase = "in finish" =>
             callbackData[Here] # <<>> /\ Head(callbackData[Here]) = tick.entry

(***************************************************************************)
(* Handles only move up: a handle that a mysql_close has made to name      *)
(* another connection names one that was made after all those with its     *)
(* parameters, or none, and so does every handle behind it; never an older *)
(* one, however handles are opened and closed.                             *)
(***************************************************************************)
HandlesOnlyMoveUp ==
    \A p \in Params : known[p] # 0 =>
       \A i \in Positions, x \in DOMAIN param :
          known[p] <= i /\ param[x] = p => x <= SQLHandle[i]

(***************************************************************************)
(* For scripts that close only the handle with the highest number (at any  *)
(* time, callbacks included) a handle keeps naming the connection it was   *)
(* returned for, and every queued or finished query is on the connection   *)
(* the script meant.  After any other mysql_close neither holds.           *)
(***************************************************************************)
HandlesKeepTheirMeaning ==
    steady =>
       /\ \A p \in Params : known[p] # 0 =>
             known[p] \in Positions /\ param[SQLHandle[known[p]]] = p
       /\ \A i \in Positions : LET x == SQLHandle[i] IN
             \A e \in Range(queueData[x]) \cup Range(callbackData[x])
                         \cup Range(errorCallback[x]) : asked[e] = param[x]

(***************************************************************************)
(* The handler the worker is working on is not deleted or moved under it:  *)
(* while it pings, connects, queries and pops, the handler it turned to is *)
(* still at its position, and the query it took still at the head of that  *)
(* handler's queue, so that what it pops is what it executed.  Only the    *)
(* mutex in mysql_close, mysql_reconnect and the destructor's Disconnect   *)
(* sees to it.                                                             *)
(***************************************************************************)
WorkerKeepsHandler ==
    /\ pass.phase \in {"read", "connect", "exec", "pop"} =>
          pass.at \in Positions /\ There = pass.handler
    /\ pass.phase \in {"exec", "pop"} =>
          queueData[There] # <<>> /\ Head(queueData[There]) = pass.query

(***************************************************************************)
(* No handle starves behind the others: what is queued on a handle is      *)
(* executed, unless its pings keep failing or scripts run statement after  *)
(* statement on that very handle, for a statement in progress keeps the    *)
(* worker away.  (While it is not executed, it is followed again and again *)
(* by a disconnection or a statement there.)  That takes a worker that     *)
(* comes back to every position and a ProcessTick that runs the callback   *)
(* of every query before it, for until then m_bQueryProcessing keeps the   *)
(* worker away.                                                            *)
(***************************************************************************)
EveryHandlerServed ==
    \A x \in Handlers :
       queueData[x] # <<>> ~> \/ queueData[x] = <<>>
                              \/ ~m_bIsConnected[x]
                              \/ statement = x
                              \/ ~Running
=============================================================================
