------------------------ MODULE QueryThreadInvariant ------------------------
(***************************************************************************)
(* The inductive invariant of QueryThread: why the code is safe although   *)
(* natives and ProcessTick share a handler with the worker mostly without  *)
(* the mutex.  It is the conjunction of TypeOK and seven named parts; each   *)
(* part is what one mechanism of the code maintains.                       *)
(***************************************************************************)
EXTENDS QueryThread

\* The worker is inside its pass and has found the handle ready.
WorkerBusy == ~(pc["worker"] \in {"sleep", "scan", "unlock"})

\* The worker uses the head of the queue.
WorkerTakesHead == pc["worker"] \in {"ping", "exec", "query", "push", "pop"}

\* The worker goes on to use the pointer, without looking at m_bIsConnected.
UsesPointer(t) ==
    IF t = "main" THEN pc[t] \in {"clear", "open", "connect"}
    ELSE WorkerBusy

(***************************************************************************)
(* The mutex: the worker has it for a whole pass, the main thread only     *)
(* inside mysql_close, and never twice.                                    *)
(***************************************************************************)
MutexInv ==
    /\ mutex \in {MutexFree} \cup [owner : Threads, depth : {1}]
    /\ mutex.owner = "worker" <=> ~At("worker", "sleep")
    /\ mutex.owner = "main" => pc["main"] \in {"clear", "close", "erase"}
    /\ At("main", "erase") => mutex.owner = "main"

(***************************************************************************)
(* The queue: the worker turns to a handle only if it exists and its       *)
(* queue is not empty; the main thread pings or closes only while it is.   *)
(***************************************************************************)
QueueInv ==
    /\ WorkerBusy => exists
    /\ WorkerTakesHead => queueData # <<>>
    /\ pc["main"] \in {"ping", "close"} => queueData = <<>> /\ ~WorkerBusy
    /\ At("main", "push") => accepted < MaxQueries

(***************************************************************************)
(* m_bQueryProcessing: at most one callback is owed, and while one is the  *)
(* worker does not turn to the handle.                                     *)
(***************************************************************************)
CallbackInv ==
    /\ Len(callbackData) <= 1
    /\ callbackData # <<>> =>
          /\ m_bQueryProcessing
          /\ pc["worker"] \in {"sleep", "scan", "pop", "unlock"}
    /\ pc["worker"] \in {"query", "push"} => m_bQueryProcessing

(***************************************************************************)
(* ProcessTick: the entry it called the script for is still in its queue   *)
(* when the script returns.                                                *)
(***************************************************************************)
TickInv ==
    /\ tick \in {"error", "unreadable"} => errorCallback # <<>>
    /\ tick = "finish" => callbackData # <<>>
    /\ mutex.owner = "main" => tick = "none"

(***************************************************************************)
(* The pointer: it never dangles, and a call uses an object that was not   *)
(* released; unless mysql_init has failed, it is null only when nobody is  *)
(* going to use it.                                                        *)
(***************************************************************************)
PointerInv ==
    /\ m_stConnectionPtr # NULL => conn[m_stConnectionPtr] \notin {"free", "closed"}
    /\ ~initFailed =>
          /\ m_bIsConnected => m_stConnectionPtr # NULL
          /\ \A t \in Threads : UsesPointer(t) => m_stConnectionPtr # NULL
          /\ \A t \in Threads : pc[t] \in CallPcs => call[t] # NULL
    /\ \A t \in Threads : call[t] # NULL =>
          /\ pc[t] \in CallPcs
          /\ conn[call[t]] \notin {"free", "closed"}

Guards == MutexInv /\ QueueInv /\ CallbackInv /\ TickInv /\ PointerInv

(***************************************************************************)
(* The race for errorCallback: the main thread can change it during the    *)
(* worker's push, and only that leaves entries nobody pushed.              *)
(***************************************************************************)
RaceInv ==
    /\ errorRace > 0 => overlapped /\ WorkerPushing
    /\ Stale \in Range(errorCallback) => overlapped

(***************************************************************************)
(* Order: queries wait in the order of acceptance, their error records     *)
(* follow one another in that order, and whatever is still to be executed  *)
(* is younger than every record.                                           *)
(***************************************************************************)
OrderedRecords(s) ==
    \A i, j \in DOMAIN s : i < j /\ s[j] \in Queries => s[i] < s[j]

Unpopped == IF At("worker", "pop") THEN Tail(queueData) ELSE queueData

OrderInv ==
    /\ Ascending(queueData)
    /\ OrderedRecords(errorCallback)
    /\ \A e \in Range(errorCallback), w \in Range(Unpopped) : e < w
    /\ \A e \in Range(errorCallback) \cup Range(queueData) : e <= accepted

\* The conjunction is inductive: see QueryThreadProofs.
IInv == TypeOK /\ Guards /\ RaceInv /\ OrderInv
=============================================================================
