----------------------------- MODULE QueryThread ----------------------------
(***************************************************************************)
(* The threaded queries of one connection handle: the natives a script     *)
(* calls, ProcessTick, and ProcessQueryThread, sharing one CMySQLHandler.  *)
(*                                                                         *)
(* The main thread runs natives, ProcessTick and, from inside ProcessTick, *)
(* the script's callbacks, which call natives again; it never runs two of  *)
(* these at once.  ProcessQueryThread holds the mutex for a whole pass     *)
(* over the handles.  Natives and ProcessTick mostly do not take it, so    *)
(* every read and write of the handler's fields is a step of its own,      *)
(* unless nothing the other thread does can tell.                          *)
(*                                                                         *)
(* SQLHandle holds this handler (exists) or nothing.                       *)
(***************************************************************************)
EXTENDS MySQLClient, Queues

CONSTANTS
    MaxQueries,      \* bound: threaded queries a behaviour accepts
    MaxStatements,   \* bound: non-threaded statements a behaviour runs
    MaxDrops         \* bound: connections the server drops

ASSUME BoundsAssumption ==
    MaxQueries \in Nat /\ MaxStatements \in Nat /\ MaxDrops \in Nat

VARIABLES
    \* CMySQLHandler
    exists, m_bIsConnected, m_bQueryProcessing, m_bNonThreadedQuery,
    m_stConnectionPtr, queueData, callbackData, errorCallback,
    \* control
    pc,          \* where each thread is
    tick,        \* which callback ProcessTick is in, if any
    current,     \* the entry ProcessTick copied before calling the script
    errorRace,   \* changes to errorCallback during the worker's push to it
    \* bounds and history
    statements, drops, accepted, finished, reported, dropped,
    repeated,    \* queries OnQueryError was called for once more
    overlapped,  \* has errorCallback been changed during a push?
    initFailed   \* has mysql_init returned the null pointer?

handler == <<exists, m_bIsConnected, m_bQueryProcessing, m_bNonThreadedQuery,
             m_stConnectionPtr>>
queues  == <<queueData, callbackData, errorCallback, errorRace>>
client  == <<conn, call>>
ticking == <<tick, current>>
bounds  == <<statements, drops>>
race    == <<repeated, overlapped>>
history == <<accepted, finished, reported, dropped, race, initFailed>>

vars == <<handler, queues, client, mutex, pc, ticking, bounds, history>>

Queries == 1 .. MaxQueries

\* The entry of errorCallback that belongs to no threaded query.
NoQuery == 0

(***************************************************************************)
(* An entry nobody pushed: the queue counts one entry too many, and where  *)
(* that entry is read there may be the remains of an earlier one.          *)
(***************************************************************************)
Stale == -1

Entries == Queries \cup {NoQuery, Stale}

\* The threaded queries a queue of error records holds.
Records(s) == Range(s) \cap Queries

TickStates == {"none", "error", "between", "finish", "unreadable"}

MainPcs == {"idle", "push", "statement", "store", "command", "ping", "clear",
            "close", "init", "open", "connect", "erase"}

WorkerPcs == {"sleep", "scan", "ping", "exec", "query", "push", "pop",
              "drain", "store", "init", "open", "connect", "unlock"}

\* Where a thread is inside a call of the client library.
CallPcs == {"statement", "store", "command", "ping", "close", "connect",
            "query"}

HandlerTypeOK ==
    /\ exists \in BOOLEAN
    /\ m_bIsConnected \in BOOLEAN
    /\ m_bQueryProcessing \in BOOLEAN
    /\ m_bNonThreadedQuery \in BOOLEAN
    /\ m_stConnectionPtr \in Conns \cup {NULL}

QueuesTypeOK ==
    /\ queueData \in Seq(Queries)
    /\ callbackData \in Seq(Queries)
    /\ errorCallback \in Seq(Entries)
    /\ errorRace \in Nat

ControlTypeOK ==
    /\ pc \in [Threads -> MainPcs \cup WorkerPcs]
    /\ pc["main"] \in MainPcs
    /\ pc["worker"] \in WorkerPcs
    /\ tick \in TickStates
    /\ current \in Queries \cup {NoQuery}
    /\ statements \in 0 .. MaxStatements
    /\ drops \in 0 .. MaxDrops

HistoryTypeOK ==
    /\ accepted \in 0 .. MaxQueries
    /\ finished \in Seq(Queries)
    /\ reported \in Seq(Queries)
    /\ dropped \in SUBSET Queries
    /\ repeated \in SUBSET Queries
    /\ overlapped \in BOOLEAN
    /\ initFailed \in BOOLEAN

TypeOK ==
    /\ MutexTypeOK
    /\ ClientTypeOK
    /\ HandlerTypeOK
    /\ QueuesTypeOK
    /\ ControlTypeOK
    /\ HistoryTypeOK

Init ==
    /\ MutexInit
    /\ ClientInit
    /\ exists = FALSE
    /\ m_bIsConnected = FALSE
    /\ m_bQueryProcessing = FALSE
    /\ m_bNonThreadedQuery = FALSE
    /\ m_stConnectionPtr = NULL
    /\ queueData = <<>>
    /\ callbackData = <<>>
    /\ errorCallback = <<>>
    /\ errorRace = 0
    /\ pc = [t \in Threads |-> IF t = "main" THEN "idle" ELSE "sleep"]
    /\ tick = "none"
    /\ current = NoQuery
    /\ statements = 0
    /\ drops = 0
    /\ accepted = 0
    /\ finished = <<>>
    /\ reported = <<>>
    /\ dropped = {}
    /\ repeated = {}
    /\ overlapped = FALSE
    /\ initFailed = FALSE

Go(t, label) == pc' = [pc EXCEPT ![t] = label]

\* Between two natives: at rest, or in a callback of the script.
Idle == pc["main"] = "idle"

At(t, label) == pc[t] = label

(***************************************************************************)
(* The process ends: a library call was given the null pointer             *)
(* (mysql_close takes it), or ProcessTick reads an entry that is no        *)
(* record.                                                                 *)
(***************************************************************************)
Crashed ==
    \/ \E t \in Threads : pc[t] \in CallPcs \ {"close"} /\ call[t] = NULL
    \/ tick = "unreadable"
-----------------------------------------------------------------------------
(***************************************************************************)
(* CMySQLHandler::Connect, called by mysql_connect and mysql_reconnect on  *)
(* the main thread and by ProcessQueryThread.                              *)
(***************************************************************************)
AfterConnect(t) == IF t = "main" THEN "idle" ELSE "unlock"

\* Connected already: return 0.  Otherwise m_stConnectionPtr = mysql_init();
\* that it returned NULL is logged, and mysql_real_connect called all the same.
ConnectInit(t) ==
    /\ At(t, "init")
    /\ IF m_bIsConnected
       THEN /\ Go(t, AfterConnect(t))
            /\ UNCHANGED <<m_stConnectionPtr, conn, initFailed>>
       ELSE /\ Go(t, "open")
            /\ \E c \in Conns \cup {NULL} :
                  /\ MysqlInit(c, m_stConnectionPtr)
                  /\ m_stConnectionPtr' = c
                  /\ initFailed' = (initFailed \/ c = NULL)
    /\ UNCHANGED <<exists, m_bIsConnected, m_bQueryProcessing,
                   m_bNonThreadedQuery, queues, call, mutex, ticking, bounds,
                   accepted, finished, reported, dropped, race>>

\* mysql_real_connect begins, on the object the pointer now holds.
ConnectOpen(t) ==
    /\ At(t, "open")
    /\ Begin(t, m_stConnectionPtr)
    /\ Go(t, "connect")
    /\ UNCHANGED <<handler, queues, mutex, ticking, bounds, history>>

ConnectDone(t) ==
    /\ At(t, "connect")
    /\ \E o \in ConnectOutcomes(StateOf(call[t])) :
          /\ End(t, o.state)
          /\ m_bIsConnected' = o.ok
    /\ Go(t, AfterConnect(t))
    /\ UNCHANGED <<exists, m_bQueryProcessing, m_bNonThreadedQuery,
                   m_stConnectionPtr, queues, mutex, ticking, bounds, history>>
-----------------------------------------------------------------------------
(***************************************************************************)
(* The natives, on the main thread.                                        *)
(***************************************************************************)

\* mysql_connect with new parameters: the constructor connects, then the
\* handler is pushed onto SQLHandle, where the worker can first see it.
\* When mysql_init fails it does not come to that.
MysqlConnectNew ==
    /\ Idle
    /\ ~exists
    /\ \/ /\ exists' = TRUE
          /\ \E c \in Conns, ok \in BOOLEAN :
                /\ m_stConnectionPtr' = c
                /\ m_bIsConnected' = ok
                /\ conn' = [d \in Conns |-> IF d # c THEN "free"
                                            ELSE IF ok THEN "up" ELSE "init"]
          /\ UNCHANGED <<pc, initFailed>>
       \/ /\ Go("main", "connect")
          /\ initFailed' = TRUE
          /\ UNCHANGED <<exists, m_stConnectionPtr, m_bIsConnected, conn>>
    /\ UNCHANGED <<m_bQueryProcessing, m_bNonThreadedQuery, queues, call,
                   mutex, ticking, bounds, accepted, finished, reported,
                   dropped, race>>

\* mysql_connect with the parameters of a handle: connect that handle again.
MysqlConnectAgain ==
    /\ Idle
    /\ exists
    /\ m_bIsConnected' = FALSE
    /\ Go("main", "init")
    /\ UNCHANGED <<exists, m_bQueryProcessing, m_bNonThreadedQuery,
                   m_stConnectionPtr, queues, client, mutex, ticking, bounds,
                   history>>

\* mysql_reconnect up to Disconnect's wait for the mutex.
MysqlReconnect ==
    /\ Idle
    /\ exists
    /\ IF m_bIsConnected /\ m_stConnectionPtr # NULL
       THEN /\ Go("main", "clear")
            /\ UNCHANGED m_bIsConnected
       ELSE /\ Go("main", "init")
            /\ m_bIsConnected' = FALSE
    /\ UNCHANGED <<exists, m_bQueryProcessing, m_bNonThreadedQuery,
                   m_stConnectionPtr, queues, client, mutex, ticking, bounds,
                   history>>

\* mysql_close takes the mutex, empties the queue and calls the destructor.
\* Scripts that close a handle from inside a callback are in HandleTable.
MysqlClose ==
    /\ Idle
    /\ exists
    /\ tick = "none"
    /\ LockMutex("main")
    /\ queueData' = <<>>
    /\ dropped' = dropped \cup Range(queueData)
    /\ Go("main", IF m_bIsConnected /\ m_stConnectionPtr # NULL
                  THEN "clear" ELSE "erase")
    /\ UNCHANGED <<handler, callbackData, errorCallback, errorRace, client,
                   ticking, bounds, accepted, finished, reported, race,
                   initFailed>>

\* Mutant: Disconnect leaves the queue as it is.
DisconnectKeepsQueue ==
    /\ At("main", "clear")
    /\ CanLock("main")
    /\ Begin("main", m_stConnectionPtr)
    /\ Go("main", "close")
    /\ UNCHANGED <<handler, queues, mutex, ticking, bounds, history>>

\* Disconnect locks, empties the queue, unlocks, and then calls mysql_close.
\* Under mysql_close the main thread owns the mutex already.
DisconnectClear ==
    /\ At("main", "clear")
    /\ CanLock("main")
    /\ queueData' = <<>>
    /\ dropped' = dropped \cup Range(queueData)
    /\ Begin("main", m_stConnectionPtr)
    /\ Go("main", "close")
    /\ UNCHANGED <<handler, callbackData, errorCallback, errorRace, mutex,
                   ticking, bounds, accepted, finished, reported, race,
                   initFailed>>

DisconnectClose ==
    /\ At("main", "close")
    /\ End("main", "closed")
    /\ m_stConnectionPtr' = NULL
    /\ m_bIsConnected' = FALSE
    /\ Go("main", IF mutex.owner = "main" THEN "erase" ELSE "init")
    /\ UNCHANGED <<exists, m_bQueryProcessing, m_bNonThreadedQuery, queues,
                   mutex, ticking, bounds, history>>

\* The handler is gone: its queues with it, and its entry in SQLHandle.
MysqlCloseErase ==
    /\ At("main", "erase")
    /\ exists' = FALSE
    /\ m_bIsConnected' = FALSE
    /\ m_bQueryProcessing' = FALSE
    /\ m_bNonThreadedQuery' = FALSE
    /\ m_stConnectionPtr' = NULL
    /\ callbackData' = <<>>
    /\ errorCallback' = <<>>
    /\ dropped' = dropped \cup Range(callbackData)
                          \cup Records(errorCallback)
    /\ UnlockMutex
    /\ Go("main", "idle")
    /\ UNCHANGED <<queueData, errorRace, client, ticking, bounds, accepted,
                   finished, reported, race, initFailed>>

\* mysql_query with a result id, or mysql_query_callback: refused when not
\* connected (no step); the push waits for the mutex.
MysqlQuery ==
    /\ Idle
    /\ exists
    /\ m_bIsConnected
    /\ accepted < MaxQueries
    /\ Go("main", "push")
    /\ UNCHANGED <<handler, queues, client, mutex, ticking, bounds, history>>

\* Mutant: the newest query is put first.
QueryPushFront ==
    /\ At("main", "push")
    /\ CanLock("main")
    /\ accepted' = accepted + 1
    /\ queueData' = <<accepted + 1>> \o queueData
    /\ Go("main", "idle")
    /\ UNCHANGED <<handler, callbackData, errorCallback, errorRace, client,
                   mutex, ticking, bounds, finished, reported, dropped, race,
                   initFailed>>

QueryPush ==
    /\ At("main", "push")
    /\ CanLock("main")
    /\ accepted' = accepted + 1
    /\ queueData' = Append(queueData, accepted + 1)
    /\ Go("main", "idle")
    /\ UNCHANGED <<handler, callbackData, errorCallback, errorRace, client,
                   mutex, ticking, bounds, finished, reported, dropped, race,
                   initFailed>>

\* mysql_query without a result id runs the statement on the main thread.
Statement ==
    /\ Idle
    /\ exists
    /\ m_bIsConnected
    /\ statements < MaxStatements
    /\ statements' = statements + 1
    /\ m_bNonThreadedQuery' = TRUE
    /\ Begin("main", m_stConnectionPtr)
    /\ Go("main", "statement")
    /\ UNCHANGED <<exists, m_bIsConnected, m_bQueryProcessing,
                   m_stConnectionPtr, queues, mutex, ticking, drops, history>>

\* Is the worker inside its push to errorCallback?
WorkerPushing == At("worker", "push")

\* The main thread changes errorCallback, perhaps during the worker's push.
ErrorsChanged ==
    /\ errorRace' = errorRace + (IF WorkerPushing THEN 1 ELSE 0)
    /\ overlapped' = (overlapped \/ WorkerPushing)

\* The record of a failed statement may be lost to the worker's push.
StatementDone ==
    /\ At("main", "statement")
    /\ \E o \in QueryOutcomes(StateOf(call["main"])) :
          /\ End("main", o.state)
          /\ IF o.ok
             THEN UNCHANGED <<errorCallback, errorRace, overlapped>>
             ELSE /\ ErrorsChanged
                  /\ \/ errorCallback' = Append(errorCallback, NoQuery)
                     \/ WorkerPushing /\ UNCHANGED errorCallback
    /\ m_bNonThreadedQuery' = FALSE
    /\ Go("main", "idle")
    /\ UNCHANGED <<exists, m_bIsConnected, m_bQueryProcessing,
                   m_stConnectionPtr, queueData, callbackData, mutex, ticking,
                   bounds, accepted, finished, reported, dropped, repeated,
                   initFailed>>

MysqlStoreResult ==
    /\ Idle
    /\ exists
    /\ m_bIsConnected
    /\ Begin("main", m_stConnectionPtr)
    /\ Go("main", "store")
    /\ UNCHANGED <<handler, queues, mutex, ticking, bounds, history>>

StoreResultDone ==
    /\ At("main", "store")
    /\ \E o \in StoreOutcomes(StateOf(call["main"])) : End("main", o.state)
    /\ Go("main", "idle")
    /\ UNCHANGED <<handler, queues, mutex, ticking, bounds, history>>

\* mysql_stat, mysql_reload and mysql_set_charset: one command to the server
\* and its answer.  (A mysql_stat that fails ends the program: Statistics
\* makes a string of a null pointer.)
Command ==
    /\ Idle
    /\ exists
    /\ m_bIsConnected
    /\ Begin("main", m_stConnectionPtr)
    /\ Go("main", "command")
    /\ UNCHANGED <<handler, queues, mutex, ticking, bounds, history>>

CommandDone ==
    /\ At("main", "command")
    /\ \E o \in PingOutcomes(StateOf(call["main"])) : End("main", o.state)
    /\ Go("main", "idle")
    /\ UNCHANGED <<handler, queues, mutex, ticking, bounds, history>>

\* Mutant: mysql_ping does not look at the queue.
PingAlways == TRUE

\* mysql_ping answers 1 without a ping while the queue is not empty (no
\* step); it looks at the queue under the mutex and pings after giving it up.
PingNeeded == queueData = <<>>

MysqlPing ==
    /\ Idle
    /\ exists
    /\ CanLock("main")
    /\ PingNeeded
    /\ m_bIsConnected
    /\ Begin("main", m_stConnectionPtr)
    /\ Go("main", "ping")
    /\ UNCHANGED <<handler, queues, mutex, ticking, bounds, history>>

MysqlPingDone ==
    /\ At("main", "ping")
    /\ \E o \in PingOutcomes(StateOf(call["main"])) : End("main", o.state)
    /\ Go("main", "idle")
    /\ UNCHANGED <<handler, queues, mutex, ticking, bounds, history>>

Natives ==
    \/ MysqlConnectNew \/ MysqlConnectAgain \/ MysqlReconnect \/ MysqlClose
    \/ MysqlQuery \/ Statement \/ MysqlStoreResult \/ Command \/ MysqlPing

\* The steps that finish a native the main thread is in the middle of.
NativeSteps ==
    \/ ConnectInit("main") \/ ConnectOpen("main") \/ ConnectDone("main")
    \/ DisconnectClear \/ DisconnectClose \/ MysqlCloseErase
    \/ QueryPush \/ StatementDone \/ StoreResultDone \/ CommandDone
    \/ MysqlPingDone
-----------------------------------------------------------------------------
(***************************************************************************)
(* ProcessTick, on the main thread: first one error, then one finished     *)
(* query.  The entry stays in its queue while the script runs.             *)
(***************************************************************************)
TickRecord ==
    /\ tick' = "error"
    /\ current' = Head(errorCallback)
    /\ reported' = IF current' = NoQuery THEN reported
                   ELSE Append(reported, current')
    /\ UNCHANGED repeated

\* Where nobody pushed a record: one reported before, one of a statement of
\* the script, or nothing that can be read.
TickStale ==
    /\ \/ tick' = "error" /\ current' \in Range(reported) \cup {NoQuery}
       \/ tick' = "unreadable" /\ current' = NoQuery
    /\ repeated' = repeated \cup ({current'} \cap Queries)
    /\ UNCHANGED reported

TickError ==
    /\ Idle
    /\ exists
    /\ tick = "none"
    /\ IF errorCallback # <<>>
       THEN IF Head(errorCallback) = Stale THEN TickStale ELSE TickRecord
       ELSE /\ tick' = "between"
            /\ UNCHANGED <<current, reported, repeated>>
    /\ UNCHANGED <<handler, queues, client, mutex, pc, bounds, accepted,
                   finished, dropped, overlapped, initFailed>>

TickErrorDone ==
    /\ Idle
    /\ tick = "error"
    /\ errorCallback' = Tail(errorCallback)
    /\ ErrorsChanged
    /\ tick' = "between"
    /\ current' = NoQuery
    /\ UNCHANGED <<handler, queueData, callbackData, client, mutex, pc, bounds,
                   accepted, finished, reported, dropped, repeated,
                   initFailed>>

\* Mutant: callbacks wait for the connection.
TickFinishConnected ==
    /\ Idle
    /\ tick = "between"
    /\ IF callbackData # <<>> /\ m_bIsConnected
       THEN /\ tick' = "finish"
            /\ current' = Head(callbackData)
            /\ finished' = Append(finished, current')
       ELSE /\ tick' = "none"
            /\ UNCHANGED <<current, finished>>
    /\ UNCHANGED <<handler, queues, client, mutex, pc, bounds, accepted,
                   reported, dropped, race, initFailed>>

TickFinish ==
    /\ Idle
    /\ tick = "between"
    /\ IF callbackData # <<>>
       THEN /\ tick' = "finish"
            /\ current' = Head(callbackData)
            /\ finished' = Append(finished, current')
       ELSE /\ tick' = "none"
            /\ UNCHANGED <<current, finished>>
    /\ UNCHANGED <<handler, queues, client, mutex, pc, bounds, accepted,
                   reported, dropped, race, initFailed>>

TickFinishDone ==
    /\ Idle
    /\ tick = "finish"
    /\ callbackData' = Tail(callbackData)
    /\ m_bQueryProcessing' = FALSE
    /\ tick' = "none"
    /\ current' = NoQuery
    /\ UNCHANGED <<exists, m_bIsConnected, m_bNonThreadedQuery,
                   m_stConnectionPtr, queueData, errorCallback, errorRace,
                   client, mutex, pc, bounds, history>>

ProcessTick == TickError \/ TickErrorDone \/ TickFinish \/ TickFinishDone
-----------------------------------------------------------------------------
(***************************************************************************)
(* ProcessQueryThread: one pass over SQLHandle per turn of the mutex.      *)
(***************************************************************************)
WorkerLock ==
    /\ At("worker", "sleep")
    /\ LockMutex("worker")
    /\ Go("worker", "scan")
    /\ UNCHANGED <<handler, queues, client, ticking, bounds, history>>

\* Mutant: m_bQueryProcessing is not looked at.
ReadyEarly == exists /\ queueData # <<>> /\ m_bIsConnected /\ ~m_bNonThreadedQuery

\* May the worker start on this handle?
Ready ==
    /\ exists
    /\ queueData # <<>>
    /\ m_bIsConnected
    /\ ~m_bQueryProcessing
    /\ ~m_bNonThreadedQuery

WorkerScan ==
    /\ At("worker", "scan")
    /\ IF Ready
       THEN /\ Begin("worker", m_stConnectionPtr)
            /\ Go("worker", "ping")
       ELSE /\ Go("worker", "unlock")
            /\ UNCHANGED client
    /\ UNCHANGED <<handler, queues, mutex, ticking, bounds, history>>

\* A failed ping sends the worker to reconnect; the query stays queued.
WorkerPinged ==
    /\ At("worker", "ping")
    /\ \E o \in PingOutcomes(StateOf(call["worker"])) :
          /\ End("worker", o.state)
          /\ Go("worker", IF o.ok THEN "exec" ELSE "drain")
          /\ m_bIsConnected' = (m_bIsConnected /\ o.ok)
    /\ UNCHANGED <<exists, m_bQueryProcessing, m_bNonThreadedQuery,
                   m_stConnectionPtr, queues, mutex, ticking, bounds, history>>

\* Mutant: m_bQueryProcessing is not set.
WorkerExecUnmarked ==
    /\ At("worker", "exec")
    /\ Begin("worker", m_stConnectionPtr)
    /\ Go("worker", "query")
    /\ UNCHANGED <<handler, queues, mutex, ticking, bounds, history>>

WorkerExec ==
    /\ At("worker", "exec")
    /\ m_bQueryProcessing' = TRUE
    /\ Begin("worker", m_stConnectionPtr)
    /\ Go("worker", "query")
    /\ UNCHANGED <<exists, m_bIsConnected, m_bNonThreadedQuery,
                   m_stConnectionPtr, queues, mutex, ticking, bounds, history>>

\* The statement returned: hand the query to ProcessTick, or begin to push an
\* error record.  The query is at the head of the queue until WorkerPop.
WorkerQueried ==
    /\ At("worker", "query")
    /\ \E o \in QueryOutcomes(StateOf(call["worker"])) :
          /\ End("worker", o.state)
          /\ Go("worker", IF o.ok THEN "pop" ELSE "push")
          /\ callbackData' = IF o.ok THEN Append(callbackData, Head(queueData))
                             ELSE callbackData
    /\ UNCHANGED <<handler, queueData, errorCallback, errorRace, mutex,
                   ticking, bounds, history>>

\* Mutant: m_bQueryProcessing is not cleared after an error.
WorkerPushedMarked ==
    /\ At("worker", "push")
    /\ errorCallback' = Append(errorCallback, Head(queueData))
    /\ errorRace' = 0
    /\ Go("worker", "pop")
    /\ UNCHANGED <<handler, queueData, callbackData, client, mutex, ticking,
                   bounds, history>>

(***************************************************************************)
(* The push ends and m_bQueryProcessing is cleared.  Where the main thread *)
(* changed the queue during the push, updates of the queue's size may be   *)
(* lost: that of the push, and the record with it, or those of the main    *)
(* thread, each leaving one entry too many.                                *)
(***************************************************************************)
WorkerPushed ==
    /\ At("worker", "push")
    /\ \E surplus \in {[i \in 1 .. n |-> Stale] : n \in 0 .. errorRace} :
          \/ /\ errorCallback' = Append(errorCallback, Head(queueData))
                                   \o surplus
             /\ UNCHANGED dropped
          \/ /\ errorRace > 0
             /\ errorCallback' = errorCallback \o surplus
             /\ dropped' = dropped \cup {Head(queueData)}
    /\ errorRace' = 0
    /\ m_bQueryProcessing' = FALSE
    /\ Go("worker", "pop")
    /\ UNCHANGED <<exists, m_bIsConnected, m_bNonThreadedQuery,
                   m_stConnectionPtr, queueData, callbackData, client, mutex,
                   ticking, bounds, accepted, finished, reported, race,
                   initFailed>>

WorkerPop ==
    /\ At("worker", "pop")
    /\ queueData' = Tail(queueData)
    /\ Go("worker", "unlock")
    /\ UNCHANGED <<handler, callbackData, errorCallback, errorRace, client,
                   mutex, ticking, bounds, history>>

\* After a failed ping: take rows left on the connection off it, then Connect.
WorkerDrain ==
    /\ At("worker", "drain")
    /\ Begin("worker", m_stConnectionPtr)
    /\ Go("worker", "store")
    /\ UNCHANGED <<handler, queues, mutex, ticking, bounds, history>>

WorkerDrained ==
    /\ At("worker", "store")
    /\ \E o \in StoreOutcomes(StateOf(call["worker"])) : End("worker", o.state)
    /\ Go("worker", "init")
    /\ UNCHANGED <<handler, queues, mutex, ticking, bounds, history>>

\* Mutant: the worker sleeps without giving the mutex back.
WorkerSleepLocked ==
    /\ At("worker", "unlock")
    /\ Go("worker", "sleep")
    /\ UNCHANGED <<handler, queues, client, mutex, ticking, bounds, history>>

WorkerUnlock ==
    /\ At("worker", "unlock")
    /\ UnlockMutex
    /\ Go("worker", "sleep")
    /\ UNCHANGED <<handler, queues, client, ticking, bounds, history>>

WorkerSteps ==
    \/ WorkerScan \/ WorkerPinged \/ WorkerExec \/ WorkerQueried
    \/ WorkerPushed \/ WorkerPop \/ WorkerDrain \/ WorkerDrained
    \/ ConnectInit("worker") \/ ConnectOpen("worker") \/ ConnectDone("worker")
    \/ WorkerUnlock

\* The server drops the handle's connection.
Drop ==
    /\ drops < MaxDrops
    /\ drops' = drops + 1
    /\ ServerDrops(m_stConnectionPtr)
    /\ UNCHANGED <<handler, queues, call, mutex, pc, ticking, statements,
                   history>>
-----------------------------------------------------------------------------
Next ==
    /\ ~Crashed
    /\ \/ Natives
       \/ NativeSteps
       \/ ProcessTick
       \/ WorkerLock
       \/ WorkerSteps
       \/ Drop

Spec == Init /\ [][Next]_vars

(***************************************************************************)
(* Fairness.  Library calls return and threads run: weak fairness of the   *)
(* steps that wait for nothing.  The mutex is handed to a waiting thread   *)
(* although it is free only now and then, and the server returns to        *)
(* ProcessTick, and a script from its callback, although natives come in   *)
(* between: strong fairness.  Nothing obliges a script to call a native.   *)
(* A process that has ended takes no step.                                 *)
(***************************************************************************)
Fairness ==
    /\ WF_vars(~Crashed /\ WorkerSteps)
    /\ SF_vars(~Crashed /\ WorkerLock)
    /\ WF_vars(~Crashed /\ NativeSteps)
    /\ SF_vars(~Crashed /\ (DisconnectClear \/ QueryPush))
    /\ SF_vars(~Crashed /\ ProcessTick)

FairSpec == Spec /\ Fairness
-----------------------------------------------------------------------------
(***************************************************************************)
(* From the moment a statement's success is published in callbackData      *)
(* until its callback has returned, the worker makes no call on the        *)
(* connection: the rows the callback fetches with mysql_store_result are   *)
(* not disturbed by the next threaded query.  (m_bQueryProcessing, set in  *)
(* ProcessQueryThread and cleared in ProcessTick.)                         *)
(***************************************************************************)
CallbackOwnsConnection ==
    callbackData # <<>> => ~At("worker", "query") /\ call["worker"] = NULL

(***************************************************************************)
(* The worker never adds a second finished query behind one whose callback *)
(* is still owed, so ProcessTick, which pops callbackData without the      *)
(* mutex, never pops while the worker pushes.                              *)
(***************************************************************************)
OneResultAtATime == Len(callbackData) <= 1

(***************************************************************************)
(* No thread is inside a library call on an object that mysql_close        *)
(* released: Disconnect closes outside the mutex, and only the queue it    *)
(* emptied before keeps the worker away.  Nor is one on the null pointer   *)
(* Disconnect leaves behind: only Connect, which goes on when mysql_init   *)
(* has failed (CMySQLHandler.cpp:215), hands one to the library.           *)
(***************************************************************************)
NoUseAfterClose ==
    \A t \in Threads : pc[t] \in CallPcs =>
       IF call[t] = NULL THEN initFailed
                         ELSE conn[call[t]] \notin {"free", "closed"}

(***************************************************************************)
(* While the main thread pings the server or closes the connection, the    *)
(* worker is in no library call: mysql_ping relies on having seen an empty *)
(* queue under the mutex, Disconnect on having emptied it.                 *)
(***************************************************************************)
PingAndCloseAlone ==
    pc["main"] \in {"ping", "close"} => call["worker"] = NULL

(***************************************************************************)
(* The refinement: what QueryPromise calls waiting, done and failed.  The  *)
(* query the worker has executed stays at the head of queueData until      *)
(* WorkerPop, and an entry ProcessTick has called the script for stays in  *)
(* its queue until the script returns.                                     *)
(***************************************************************************)
Executed == pc["worker"] \in {"push", "pop"}

Waiting == IF Executed THEN Tail(queueData) ELSE queueData

Done == IF tick = "finish" THEN Tail(callbackData) ELSE callbackData

Failed ==
    LET owed == IF tick = "error" THEN Tail(errorCallback) ELSE errorCallback
    IN  Records(owed)
           \cup (IF WorkerPushing THEN {Head(queueData)} ELSE {})

Promise == INSTANCE QueryPromise WITH waiting <- Waiting, done <- Done,
                                      failed <- Failed

\* Threads, races and connections and all, the plugin keeps QueryPromise.
KeepsPromise == Promise!Spec
-----------------------------------------------------------------------------
(***************************************************************************)
(* A finished query's callback is eventually run, or the handle is closed, *)
(* or the process has ended.                                               *)
(***************************************************************************)
CallbackRuns == callbackData # <<>> ~> callbackData = <<>> \/ Crashed

(***************************************************************************)
(* The worker is not kept from the handle for good: m_bQueryProcessing is  *)
(* cleared again whenever it was set, on the success and on the error path *)
(* and across reconnects, unless the process ends.                         *)
(***************************************************************************)
PipelineResumes == m_bQueryProcessing ~> ~m_bQueryProcessing \/ Crashed

(***************************************************************************)
(* mysql_close, once it holds the mutex, deletes the handler and returns:  *)
(* "delete the class instance and call the deconstructor"                  *)
(* (CScripting.cpp:220).                                                   *)
(***************************************************************************)
CloseReturns == mutex.owner = "main" ~> ~exists \/ Crashed

(***************************************************************************)
(* While queries are queued, mysql_ping answers without a ping, because    *)
(* "the ping check is already done in the thread" (CScripting.cpp:272).    *)
(* So while a query stays queued, the script calling no native, the worker *)
(* must keep pinging.                                                      *)
(***************************************************************************)
PingedInThread ==
    <>[](queueData # <<>> /\ Idle /\ ~Crashed) => []<>At("worker", "ping")

(***************************************************************************)
(* mysql_connect with the parameters of an existing handle reuses it: the  *)
(* check exists "to avoid double instances of the same connection"         *)
(* (CScripting.cpp:72).  So it must not leave the handle's old session     *)
(* open at the server when it takes a new MYSQL object.                    *)
(***************************************************************************)
NoDoubleInstance ==
    [][ConnectInit("main") /\ m_stConnectionPtr' # m_stConnectionPtr
         => StateOf(m_stConnectionPtr) \notin OpenStates]_vars
=============================================================================
