------------------------- MODULE QueryThreadProofs --------------------------
(***************************************************************************)
(* Proofs that QueryThread keeps IInv, and what follows from it, for every *)
(* number of queries, statements and dropped connections, for every set of *)
(* MYSQL objects, and for both kinds of mutex.                             *)
(***************************************************************************)
EXTENDS QueryThreadInvariant, QueueLemmas

USE DEF Go, At, Threads, handler, queues, client, ticking, bounds, race, history
-----------------------------------------------------------------------------
(* What the operators the actions are built from preserve.                 *)

LEMMA HeadTailType ==
    ASSUME NEW S, NEW s \in Seq(S), s # <<>>
    PROVE  Head(s) \in S /\ Tail(s) \in Seq(S)
OBVIOUS

LEMMA EmptyType ==
    ASSUME NEW S
    PROVE  <<>> \in Seq(S)
OBVIOUS

LEMMA PushType ==
    ASSUME NEW S, NEW s \in Seq(S), NEW e \in S, NEW x \in Seq(S)
    PROVE  Append(s, e) \in Seq(S) /\ s \o x \in Seq(S)
OBVIOUS

LEMMA BeginType ==
    ASSUME ClientTypeOK, NEW t \in Threads, NEW c \in Conns \cup {NULL}, Begin(t, c)
    PROVE  ClientTypeOK'
BY DEF ClientTypeOK, Begin, ConnStates

\* A thread moves on, outside the library, and no pointer changes.
LEMMA PointerFrame ==
    ASSUME PointerInv, pc \in [Threads -> MainPcs \cup WorkerPcs],
           NEW t \in Threads, NEW label, label \notin CallPcs,
           pc' = [pc EXCEPT ![t] = label], call[t] = NULL,
           \/ m_stConnectionPtr # NULL
           \/ t = "main" /\ label \notin {"clear", "open", "connect"}
           \/ t = "worker" /\ label \in {"sleep", "scan", "unlock"},
           m_bIsConnected' => m_bIsConnected,
           UNCHANGED <<m_stConnectionPtr, conn, call, initFailed>>
    PROVE  PointerInv'
<1>1. \A u \in Threads : pc'[u] = IF u = t THEN label ELSE pc[u]
  OBVIOUS
<1>2. ~initFailed => \A u \in Threads : UsesPointer(u)' => m_stConnectionPtr # NULL
  BY <1>1 DEF PointerInv, UsesPointer, WorkerBusy
<1>3. \A u \in Threads : /\ ~initFailed /\ pc'[u] \in CallPcs => call[u] # NULL
                         /\ call[u] # NULL => pc'[u] \in CallPcs
  BY <1>1 DEF PointerInv
<1> QED BY <1>2, <1>3 DEF PointerInv

-----------------------------------------------------------------------------
(* Every step keeps the guards.                                            *)

LEMMA GuardStep ==
    ASSUME IInv, Next
    PROVE  Guards'
<1> USE ConnsAssumption, BoundsAssumption, RecursiveAssumption
    DEF IInv, Guards, TypeOK, MutexTypeOK, ClientTypeOK, HandlerTypeOK,
             QueuesTypeOK, ControlTypeOK, HistoryTypeOK, MutexInv, MutexFree,
             QueueInv, CallbackInv, TickInv, PointerInv, UsesPointer,
             WorkerBusy, WorkerTakesHead, CallPcs, MainPcs, WorkerPcs,
             Queries, NoQuery, ConnStates
<1>1. ASSUME NEW t \in Threads, ConnectInit(t)
       PROVE  Guards'
  <2>1. MutexInv'
    BY <1>1 DEF ConnectInit, AfterConnect
  <2>2. QueueInv'
    BY <1>1 DEF ConnectInit, AfterConnect
  <2>3. CallbackInv'
    BY <1>1 DEF ConnectInit, AfterConnect
  <2>4. TickInv'
    BY <1>1 DEF ConnectInit, AfterConnect
  <2>5. PointerInv'
    <3>1. CASE m_bIsConnected
      <4>1. pc' = [pc EXCEPT ![t] = AfterConnect(t)]
        BY <1>1, <3>1 DEF ConnectInit
      <4>2. AfterConnect(t) \in {"idle", "unlock"} /\ call[t] = NULL
        BY <1>1 DEF ConnectInit, AfterConnect
      <4>3. UNCHANGED <<m_stConnectionPtr, m_bIsConnected, conn, call, initFailed>>
        BY <1>1, <3>1 DEF ConnectInit
      <4>4. AfterConnect(t) \notin CallPcs
        BY <4>2
      <4> QED BY <1>1, <4>1, <4>2, <4>3, <4>4, PointerFrame DEF AfterConnect
    <3>2. CASE ~m_bIsConnected
      <4>1. PICK c \in Conns \cup {NULL} :
               /\ MysqlInit(c, m_stConnectionPtr)
               /\ m_stConnectionPtr' = c
               /\ initFailed' = (initFailed \/ c = NULL)
        BY <1>1, <3>2 DEF ConnectInit
      <4>2. /\ c # NULL => conn'[c] = "init"
            /\ ~initFailed' => c # NULL /\ ~initFailed
        BY <4>1 DEF MysqlInit
      <4>3. \A u \in Threads : /\ call'[u] = call[u]
                               /\ call[u] # NULL => conn'[call[u]] = conn[call[u]]
        BY <1>1, <4>1 DEF ConnectInit, MysqlInit, InCall
      <4>4. /\ pc' = [pc EXCEPT ![t] = "open"]
            /\ m_bIsConnected' = m_bIsConnected
        BY <1>1, <3>2 DEF ConnectInit
      <4> QED BY <1>1, <4>1, <4>2, <4>3, <4>4 DEF ConnectInit
    <3> QED BY <3>1, <3>2
  <2> QED BY <2>1, <2>2, <2>3, <2>4, <2>5
<1>2. ASSUME NEW t \in Threads, ConnectOpen(t)
       PROVE  Guards'
  BY <1>2 DEF ConnectOpen, Begin
<1>3. ASSUME NEW t \in Threads, ConnectDone(t)
       PROVE  Guards'
  <2>1. MutexInv'
    BY <1>3 DEF ConnectDone, AfterConnect
  <2>2. QueueInv'
    BY <1>3 DEF ConnectDone, AfterConnect
  <2>3. CallbackInv'
    BY <1>3 DEF ConnectDone, AfterConnect
  <2>4. TickInv'
    BY <1>3 DEF ConnectDone, AfterConnect
  <2>5. PointerInv'
    BY <1>3 DEF ConnectDone, AfterConnect, End, ConnectOutcomes, Outcomes, BadStates, OpenStates, StateOf
  <2> QED BY <2>1, <2>2, <2>3, <2>4, <2>5
<1>4. CASE MysqlConnectNew
  BY <1>4 DEF MysqlConnectNew, Idle
<1>5. CASE MysqlConnectAgain
  <2>1. MutexInv'
    BY <1>5 DEF MysqlConnectAgain, Idle
  <2>2. QueueInv'
    BY <1>5 DEF MysqlConnectAgain, Idle
  <2>3. CallbackInv'
    BY <1>5 DEF MysqlConnectAgain, Idle
  <2>4. TickInv'
    BY <1>5 DEF MysqlConnectAgain, Idle
  <2>5. PointerInv'
    <3>1. call["main"] = NULL
      BY <1>5 DEF MysqlConnectAgain, Idle
    <3> QED BY <1>5, <3>1, PointerFrame DEF MysqlConnectAgain
  <2> QED BY <2>1, <2>2, <2>3, <2>4, <2>5
<1>6. CASE MysqlReconnect
  <2>1. MutexInv'
    BY <1>6 DEF MysqlReconnect, Idle
  <2>2. QueueInv'
    BY <1>6 DEF MysqlReconnect, Idle
  <2>3. CallbackInv'
    BY <1>6 DEF MysqlReconnect, Idle
  <2>4. TickInv'
    BY <1>6 DEF MysqlReconnect, Idle
  <2>5. PointerInv'
    <3>1. call["main"] = NULL
      BY <1>6 DEF MysqlReconnect, Idle
    <3>2. PICK label \in {"clear", "init"} :
             /\ pc' = [pc EXCEPT !["main"] = label]
             /\ label = "clear" => m_stConnectionPtr # NULL
      BY <1>6 DEF MysqlReconnect
    <3>3. /\ m_bIsConnected' => m_bIsConnected
          /\ UNCHANGED <<m_stConnectionPtr, conn, call, initFailed>>
      BY <1>6 DEF MysqlReconnect
    <3> QED BY <3>1, <3>2, <3>3, PointerFrame
  <2> QED BY <2>1, <2>2, <2>3, <2>4, <2>5
<1>7. CASE MysqlClose
  <2>1. MutexInv'
    BY <1>7 DEF MysqlClose, Idle, LockMutex, CanLock
  <2>2. QueueInv'
    BY <1>7 DEF MysqlClose, Idle, LockMutex, CanLock
  <2>3. CallbackInv'
    BY <1>7 DEF MysqlClose, Idle
  <2>4. TickInv'
    BY <1>7 DEF MysqlClose, Idle
  <2>5. PointerInv'
    <3>1. call["main"] = NULL
      BY <1>7 DEF MysqlClose, Idle
    <3>2. PICK label \in {"clear", "erase"} :
             /\ pc' = [pc EXCEPT !["main"] = label]
             /\ label = "clear" => m_stConnectionPtr # NULL
      BY <1>7 DEF MysqlClose
    <3>3. UNCHANGED <<m_bIsConnected, m_stConnectionPtr, conn, call, initFailed>>
      BY <1>7 DEF MysqlClose
    <3> QED BY <3>1, <3>2, <3>3, PointerFrame
  <2> QED BY <2>1, <2>2, <2>3, <2>4, <2>5
<1>8. CASE DisconnectClear
  BY <1>8 DEF DisconnectClear, CanLock, Range, Begin
<1>9. CASE DisconnectClose
  BY <1>9 DEF DisconnectClose, End
<1>10. CASE MysqlCloseErase
  <2>1. MutexInv'
    BY <1>10 DEF MysqlCloseErase, UnlockMutex
  <2>2. QueueInv'
    BY <1>10 DEF MysqlCloseErase
  <2>3. CallbackInv'
    BY <1>10 DEF MysqlCloseErase
  <2>4. TickInv'
    BY <1>10 DEF MysqlCloseErase
  <2>5. PointerInv'
    BY <1>10 DEF MysqlCloseErase
  <2> QED BY <2>1, <2>2, <2>3, <2>4, <2>5
<1>11. CASE MysqlQuery
  BY <1>11 DEF MysqlQuery, Idle
<1>12. CASE QueryPush
  BY <1>12 DEF QueryPush, CanLock
<1>13. CASE Statement
  BY <1>13 DEF Statement, Idle, Begin
<1>14. CASE StatementDone
  <2>1. MutexInv'
    BY <1>14 DEF StatementDone, ErrorsChanged, WorkerPushing
  <2>2. QueueInv'
    BY <1>14 DEF StatementDone, ErrorsChanged, WorkerPushing
  <2>3. CallbackInv'
    BY <1>14 DEF StatementDone, ErrorsChanged, WorkerPushing
  <2>4. TickInv'
    <3>1. \/ errorCallback' = errorCallback
          \/ errorCallback' = Append(errorCallback, NoQuery)
      BY <1>14 DEF StatementDone
    <3>2. errorCallback # <<>> => errorCallback' # <<>>
      BY <3>1
    <3> QED BY <1>14, <3>2 DEF StatementDone
  <2>5. PointerInv'
    BY <1>14 DEF StatementDone, End, QueryOutcomes, Outcomes, BadStates, OpenStates, StateOf, WorkerPushing
  <2> QED BY <2>1, <2>2, <2>3, <2>4, <2>5
<1>15. CASE MysqlStoreResult
  BY <1>15 DEF MysqlStoreResult, Idle, Begin
<1>16. CASE StoreResultDone
  <2>1. MutexInv'
    BY <1>16 DEF StoreResultDone
  <2>2. QueueInv'
    BY <1>16 DEF StoreResultDone
  <2>3. CallbackInv'
    BY <1>16 DEF StoreResultDone
  <2>4. TickInv'
    BY <1>16 DEF StoreResultDone
  <2>5. PointerInv'
    BY <1>16 DEF StoreResultDone, End, StoreOutcomes, Outcomes, BadStates,
                  OpenStates, StateOf
  <2> QED BY <2>1, <2>2, <2>3, <2>4, <2>5
<1>17. CASE Command
  BY <1>17 DEF Command, Idle, Begin
<1>18. CASE CommandDone
  BY <1>18 DEF CommandDone, End, PingOutcomes, Outcomes, BadStates,
               OpenStates, StateOf
<1>19. CASE MysqlPing
  BY <1>19 DEF MysqlPing, Idle, Begin, CanLock, PingNeeded
<1>20. CASE MysqlPingDone
  BY <1>20 DEF MysqlPingDone, End, PingOutcomes, Outcomes, BadStates,
               OpenStates, StateOf
<1>21. CASE TickError
  <2>1. MutexInv'
    BY <1>21 DEF TickError, TickRecord, TickStale, Idle
  <2>2. QueueInv'
    BY <1>21 DEF TickError, TickRecord, TickStale, Idle
  <2>3. CallbackInv'
    BY <1>21 DEF TickError, TickRecord, TickStale, Idle
  <2>4. TickInv'
    BY <1>21 DEF TickError, TickRecord, TickStale, Idle
  <2>5. PointerInv'
    BY <1>21 DEF TickError, TickRecord, TickStale, Idle
  <2> QED BY <2>1, <2>2, <2>3, <2>4, <2>5
<1>22. CASE TickErrorDone
  BY <1>22 DEF TickErrorDone, Idle, WorkerPushing
<1>23. CASE TickFinish
  BY <1>23 DEF TickFinish, Idle
<1>24. CASE TickFinishDone
  <2>1. MutexInv'
    BY <1>24 DEF TickFinishDone, Idle
  <2>2. QueueInv'
    BY <1>24 DEF TickFinishDone, Idle
  <2>3. CallbackInv'
    <3>1. callbackData # <<>> /\ Len(callbackData) <= 1
      BY <1>24 DEF TickFinishDone
    <3>2. callbackData' = Tail(callbackData) /\ pc' = pc
      BY <1>24 DEF TickFinishDone
    <3>3. callbackData' = <<>>
      BY <3>1, <3>2
    <3>4. pc["worker"] \in {"sleep", "scan", "pop", "unlock"}
      BY <3>1
    <3> QED BY <3>2, <3>3, <3>4
  <2>4. TickInv'
    BY <1>24 DEF TickFinishDone, Idle
  <2>5. PointerInv'
    BY <1>24 DEF TickFinishDone, Idle
  <2> QED BY <2>1, <2>2, <2>3, <2>4, <2>5
<1>25. CASE WorkerLock
  BY <1>25 DEF WorkerLock, LockMutex, CanLock
<1>26. CASE WorkerScan
  <2>1. MutexInv'
    BY <1>26 DEF WorkerScan, Ready
  <2>2. QueueInv'
    BY <1>26 DEF WorkerScan, Ready
  <2>3. CallbackInv'
    BY <1>26 DEF WorkerScan, Ready
  <2>4. TickInv'
    BY <1>26 DEF WorkerScan, Ready
  <2>5. PointerInv'
    <3>1. CASE Ready
      <4>1. /\ Begin("worker", m_stConnectionPtr)
            /\ pc' = [pc EXCEPT !["worker"] = "ping"]
            /\ UNCHANGED handler
        BY <1>26, <3>1 DEF WorkerScan
      <4>2. ~initFailed => m_stConnectionPtr # NULL
        BY <3>1 DEF Ready
      <4>3. call["worker"] = NULL
        BY <1>26 DEF WorkerScan
      <4>4. \/ call["main"] = m_stConnectionPtr /\ pc["main"] \in CallPcs
            \/ conn' = conn
        BY <4>1 DEF Begin
      <4>5. \A t \in Threads :
               /\ pc'[t] = IF t = "worker" THEN "ping" ELSE pc[t]
               /\ call'[t] = IF t = "worker" THEN m_stConnectionPtr ELSE call[t]
        BY <4>1 DEF Begin
      <4>6. \A c \in Conns : conn'[c] = conn[c] \/ conn'[c] = "corrupt"
        BY <4>1 DEF Begin
      <4>7. initFailed' = initFailed
        BY <1>26 DEF WorkerScan
      <4>8. m_stConnectionPtr # NULL
               => conn'[m_stConnectionPtr] \notin {"free", "closed"}
        BY <4>6
      <4>9. ~initFailed' => \A t \in Threads :
               /\ UsesPointer(t)' => m_stConnectionPtr # NULL
               /\ pc'[t] \in CallPcs => call'[t] # NULL
        BY <4>2, <4>5, <4>7
      <4>10. \A t \in Threads : call'[t] # NULL =>
                /\ pc'[t] \in CallPcs
                /\ conn'[call'[t]] \notin {"free", "closed"}
        BY <4>5, <4>6
      <4>11. UNCHANGED <<m_bIsConnected, m_stConnectionPtr>>
        BY <4>1
      <4> QED BY <4>7, <4>8, <4>9, <4>10, <4>11
    <3>2. CASE ~Ready
      BY <1>26, <3>2 DEF WorkerScan
    <3> QED BY <3>1, <3>2
  <2> QED BY <2>1, <2>2, <2>3, <2>4, <2>5
<1>27. CASE WorkerPinged
  BY <1>27 DEF WorkerPinged, End, PingOutcomes, Outcomes, BadStates,
               OpenStates, StateOf
<1>28. CASE WorkerExec
  BY <1>28 DEF WorkerExec, Begin
<1>29. CASE WorkerQueried
  BY <1>29 DEF WorkerQueried, End, QueryOutcomes, Outcomes, BadStates,
               OpenStates, StateOf
<1>30. CASE WorkerPushed
  <2>1. MutexInv'
    BY <1>30 DEF WorkerPushed
  <2>2. QueueInv'
    BY <1>30 DEF WorkerPushed
  <2>3. CallbackInv'
    BY <1>30 DEF WorkerPushed
  <2>4. TickInv'
    BY <1>30 DEF WorkerPushed
  <2>5. PointerInv'
    BY <1>30 DEF WorkerPushed
  <2> QED BY <2>1, <2>2, <2>3, <2>4, <2>5
<1>31. CASE WorkerPop
  BY <1>31 DEF WorkerPop
<1>32. CASE WorkerDrain
  BY <1>32 DEF WorkerDrain, Begin
<1>33. CASE WorkerDrained
  BY <1>33 DEF WorkerDrained, End, StoreOutcomes, Outcomes, BadStates,
               OpenStates, StateOf
<1>34. CASE WorkerUnlock
  <2>1. MutexInv'
    BY <1>34 DEF WorkerUnlock, UnlockMutex
  <2>2. QueueInv'
    BY <1>34 DEF WorkerUnlock, UnlockMutex
  <2>3. CallbackInv'
    BY <1>34 DEF WorkerUnlock, UnlockMutex
  <2>4. TickInv'
    BY <1>34 DEF WorkerUnlock, UnlockMutex
  <2>5. PointerInv'
    BY <1>34 DEF WorkerUnlock, UnlockMutex
  <2> QED BY <2>1, <2>2, <2>3, <2>4, <2>5
<1>35. CASE Drop
  BY <1>35 DEF Drop, ServerDrops, OpenStates
<1> QED
  BY <1>1, <1>2, <1>3, <1>4, <1>5, <1>6, <1>7, <1>8, <1>9, <1>10, <1>11,
     <1>12, <1>13, <1>14, <1>15, <1>16, <1>17, <1>18, <1>19, <1>20, <1>21,
     <1>22, <1>23, <1>24, <1>25, <1>26, <1>27, <1>28, <1>29, <1>30, <1>31,
     <1>32, <1>33, <1>34, <1>35
  DEF Next, Natives, NativeSteps, ProcessTick, WorkerSteps
-----------------------------------------------------------------------------
(* Every step keeps the types.                                             *)

LEMMA TypeStep ==
    ASSUME IInv, Next, MutexInv'
    PROVE  TypeOK'
<1> USE ConnsAssumption, BoundsAssumption
<1>a. TypeOK
  BY DEF IInv
<1>b. MutexTypeOK'
  BY DEF MutexInv, MutexTypeOK, MutexFree
<1> USE <1>a, <1>b
    DEF IInv, Guards, TypeOK, MutexTypeOK, ClientTypeOK, HandlerTypeOK,
        QueuesTypeOK, ControlTypeOK, HistoryTypeOK, QueueInv, TickInv,
        WorkerTakesHead, Queries, NoQuery, Entries, Stale, MainPcs,
        WorkerPcs, CallPcs, TickStates, ConnStates
<1>1. ASSUME NEW t \in Threads, ConnectInit(t)
       PROVE  TypeOK'
  <2>1. ClientTypeOK'
    BY <1>1 DEF ConnectInit, AfterConnect, MysqlInit, InCall
  <2>2. HandlerTypeOK'
    BY <1>1 DEF ConnectInit
  <2>3. QueuesTypeOK'
    BY <1>1 DEF ConnectInit, AfterConnect
  <2>4. ControlTypeOK'
    BY <1>1 DEF ConnectInit, AfterConnect
  <2>5. HistoryTypeOK'
    BY <1>1 DEF ConnectInit, AfterConnect
  <2> QED BY <2>1, <2>2, <2>3, <2>4, <2>5
<1>2. ASSUME NEW t \in Threads, ConnectOpen(t)
       PROVE  TypeOK'
  <2>1. ClientTypeOK'
    BY <1>2, BeginType DEF ConnectOpen
  <2>2. HandlerTypeOK' /\ QueuesTypeOK' /\ HistoryTypeOK'
    BY <1>2 DEF ConnectOpen
  <2>3. ControlTypeOK'
    BY <1>2 DEF ConnectOpen
  <2> QED BY <2>1, <2>2, <2>3
<1>3. ASSUME NEW t \in Threads, ConnectDone(t)
       PROVE  TypeOK'
  <2>1. ClientTypeOK'
    BY <1>3 DEF ConnectDone, AfterConnect, End, ConnectOutcomes, Outcomes
  <2>2. HandlerTypeOK'
    BY <1>3 DEF ConnectDone, AfterConnect, End, ConnectOutcomes, Outcomes
  <2>3. QueuesTypeOK'
    BY <1>3 DEF ConnectDone, AfterConnect, End, ConnectOutcomes, Outcomes
  <2>4. ControlTypeOK'
    BY <1>3 DEF ConnectDone, AfterConnect
  <2>5. HistoryTypeOK'
    BY <1>3 DEF ConnectDone, AfterConnect
  <2> QED BY <2>1, <2>2, <2>3, <2>4, <2>5
<1>4. CASE MysqlConnectNew
  <2>1. ClientTypeOK'
    BY <1>4 DEF MysqlConnectNew, Idle
  <2>2. HandlerTypeOK'
    BY <1>4 DEF MysqlConnectNew, Idle
  <2>3. QueuesTypeOK'
    BY <1>4 DEF MysqlConnectNew, Idle
  <2>4. ControlTypeOK'
    BY <1>4 DEF MysqlConnectNew, Idle
  <2>5. HistoryTypeOK'
    BY <1>4 DEF MysqlConnectNew, Idle
  <2> QED BY <2>1, <2>2, <2>3, <2>4, <2>5
<1>5. CASE MysqlConnectAgain
  BY <1>5 DEF MysqlConnectAgain, Idle
<1>6. CASE MysqlReconnect
  <2>1. ClientTypeOK'
    BY <1>6 DEF MysqlReconnect, Idle
  <2>2. HandlerTypeOK'
    BY <1>6 DEF MysqlReconnect, Idle
  <2>3. QueuesTypeOK'
    BY <1>6 DEF MysqlReconnect, Idle
  <2>4. ControlTypeOK'
    BY <1>6 DEF MysqlReconnect, Idle
  <2>5. HistoryTypeOK'
    BY <1>6 DEF MysqlReconnect, Idle
  <2> QED BY <2>1, <2>2, <2>3, <2>4, <2>5
<1>7. CASE MysqlClose
  <2>1. ClientTypeOK'
    BY <1>7 DEF MysqlClose, Idle, LockMutex, CanLock
  <2>2. HandlerTypeOK'
    BY <1>7 DEF MysqlClose, Idle, LockMutex, CanLock
  <2>3. QueuesTypeOK'
    BY <1>7 DEF MysqlClose, Idle, LockMutex, CanLock
  <2>4. ControlTypeOK'
    BY <1>7 DEF MysqlClose, Idle, LockMutex, CanLock
  <2>5. HistoryTypeOK'
    BY <1>7, RangeInside DEF MysqlClose, Idle, LockMutex, CanLock
  <2> QED BY <2>1, <2>2, <2>3, <2>4, <2>5
<1>8. CASE DisconnectClear
  <2>1. ClientTypeOK'
    BY <1>8, BeginType DEF DisconnectClear, CanLock
  <2>2. HandlerTypeOK'
    BY <1>8 DEF DisconnectClear, CanLock
  <2>3. QueuesTypeOK'
    BY <1>8 DEF DisconnectClear, CanLock
  <2>4. ControlTypeOK'
    BY <1>8 DEF DisconnectClear, CanLock
  <2>5. HistoryTypeOK'
    BY <1>8, RangeInside DEF DisconnectClear, CanLock
  <2> QED BY <2>1, <2>2, <2>3, <2>4, <2>5
<1>9. CASE DisconnectClose
  BY <1>9 DEF DisconnectClose, End
<1>10. CASE MysqlCloseErase
  <2>1. ClientTypeOK'
    BY <1>10 DEF MysqlCloseErase, UnlockMutex
  <2>2. HandlerTypeOK'
    BY <1>10 DEF MysqlCloseErase, UnlockMutex
  <2>3. QueuesTypeOK'
    BY <1>10 DEF MysqlCloseErase, UnlockMutex
  <2>4. ControlTypeOK'
    BY <1>10 DEF MysqlCloseErase, UnlockMutex
  <2>5. HistoryTypeOK'
    BY <1>10, RangeInside DEF MysqlCloseErase, Records
  <2> QED BY <2>1, <2>2, <2>3, <2>4, <2>5
<1>11. CASE MysqlQuery
  BY <1>11 DEF MysqlQuery, Idle
<1>12. CASE QueryPush
  BY <1>12 DEF QueryPush, CanLock
<1>13. CASE Statement
  BY <1>13 DEF Statement, Idle, Begin
<1>14. CASE StatementDone
  <2>1. ClientTypeOK'
    BY <1>14 DEF StatementDone, ErrorsChanged, WorkerPushing, End, QueryOutcomes, Outcomes
  <2>2. HandlerTypeOK'
    BY <1>14 DEF StatementDone, ErrorsChanged, WorkerPushing, End, QueryOutcomes, Outcomes
  <2>3. QueuesTypeOK'
    <3>1. errorCallback' \in Seq(Entries)
      <4>1. \/ errorCallback' = errorCallback
            \/ errorCallback' = Append(errorCallback, NoQuery)
        BY <1>14 DEF StatementDone
      <4>2. errorCallback \in Seq(Entries) /\ NoQuery \in Entries
        BY <1>a
      <4> HIDE DEF Queries, NoQuery, Stale, Entries
      <4> QED BY ONLY <4>1, <4>2
    <3>2. errorRace' \in Nat
      BY <1>14 DEF StatementDone, ErrorsChanged
    <3> QED BY <1>14, <3>1, <3>2 DEF StatementDone
  <2>4. ControlTypeOK'
    BY <1>14 DEF StatementDone, ErrorsChanged, WorkerPushing
  <2>5. HistoryTypeOK'
    BY <1>14 DEF StatementDone, ErrorsChanged, WorkerPushing
  <2> QED BY <2>1, <2>2, <2>3, <2>4, <2>5
<1>15. CASE MysqlStoreResult
  BY <1>15 DEF MysqlStoreResult, Idle, Begin
<1>16. CASE StoreResultDone
  <2>1. ClientTypeOK'
    BY <1>16 DEF StoreResultDone, End, StoreOutcomes, Outcomes
  <2>2. HandlerTypeOK'
    BY <1>16 DEF StoreResultDone
  <2>3. QueuesTypeOK'
    BY <1>16 DEF StoreResultDone
  <2>4. ControlTypeOK'
    BY <1>16 DEF StoreResultDone
  <2>5. HistoryTypeOK'
    BY <1>16 DEF StoreResultDone
  <2> QED BY <2>1, <2>2, <2>3, <2>4, <2>5
<1>17. CASE Command
  BY <1>17 DEF Command, Idle, Begin
<1>18. CASE CommandDone
  <2>1. ClientTypeOK'
    BY <1>18 DEF CommandDone, End, PingOutcomes, Outcomes
  <2>2. HandlerTypeOK'
    BY <1>18 DEF CommandDone
  <2>3. QueuesTypeOK'
    BY <1>18 DEF CommandDone
  <2>4. ControlTypeOK'
    BY <1>18 DEF CommandDone
  <2>5. HistoryTypeOK'
    BY <1>18 DEF CommandDone
  <2> QED BY <2>1, <2>2, <2>3, <2>4, <2>5
<1>19. CASE MysqlPing
  BY <1>19 DEF MysqlPing, Idle, Begin, CanLock, PingNeeded
<1>20. CASE MysqlPingDone
  <2>1. ClientTypeOK'
    BY <1>20 DEF MysqlPingDone, End, PingOutcomes, Outcomes
  <2>2. HandlerTypeOK'
    BY <1>20 DEF MysqlPingDone
  <2>3. QueuesTypeOK'
    BY <1>20 DEF MysqlPingDone
  <2>4. ControlTypeOK'
    BY <1>20 DEF MysqlPingDone
  <2>5. HistoryTypeOK'
    BY <1>20 DEF MysqlPingDone
  <2> QED BY <2>1, <2>2, <2>3, <2>4, <2>5
<1>21. CASE TickError
  <2>1. ClientTypeOK'
    BY <1>21 DEF TickError, Idle
  <2>2. HandlerTypeOK'
    BY <1>21 DEF TickError, Idle
  <2>3. QueuesTypeOK'
    BY <1>21 DEF TickError, Idle
  <2>4. ControlTypeOK'
    <3>1. current' \in Queries \cup {NoQuery} /\ tick' \in TickStates
      <4>1. CASE errorCallback = <<>>
        BY <1>21, <4>1 DEF TickError
      <4>2. CASE errorCallback # <<>> /\ Head(errorCallback) = Stale
        <5>1. TickStale
          BY <1>21, <4>2 DEF TickError
        <5>2. Range(reported) \subseteq Queries
          BY RangeInside
        <5> QED BY <5>1, <5>2 DEF TickStale
      <4>3. CASE errorCallback # <<>> /\ Head(errorCallback) # Stale
        <5>1. TickRecord
          BY <1>21, <4>3 DEF TickError
        <5>2. Head(errorCallback) \in Queries \cup {NoQuery}
          <6> HIDE DEF Queries, NoQuery, Stale
          <6>1. errorCallback \in Seq(Entries)
            BY <1>a
          <6> QED BY <4>3, <6>1, HeadTailType
        <5> QED BY <5>1, <5>2 DEF TickRecord
      <4> QED BY <4>1, <4>2, <4>3
    <3> QED BY <1>21, <3>1 DEF TickError
  <2>5. HistoryTypeOK'
    <3> DEFINE r == Head(errorCallback)
    <3>1. UNCHANGED <<accepted, finished, dropped, overlapped, initFailed>>
      BY <1>21 DEF TickError
    <3>2. CASE errorCallback # <<>> /\ r \in Queries
      <4>1. reported' = Append(reported, r) /\ repeated' = repeated
        BY <1>21, <3>2 DEF TickError, TickRecord
      <4>2. reported' \in Seq(Queries)
        <5> HIDE DEF Queries
        <5> QED BY <1>a, <3>2, <4>1
      <4> QED BY <1>a, <3>1, <4>1, <4>2
    <3>3. CASE ~(errorCallback # <<>> /\ r \in Queries)
      <4>1. errorCallback # <<>> => r \in {NoQuery, Stale}
        <5> HIDE DEF Queries, NoQuery, Stale
        <5>1. errorCallback \in Seq(Entries)
          BY <1>a
        <5> QED BY <3>3, <5>1, HeadTailType
      <4>2. reported' = reported /\ repeated' \in SUBSET Queries
        BY <1>21, <3>3, <4>1 DEF TickError, TickRecord, TickStale
      <4> QED BY <1>a, <3>1, <4>2
    <3> QED BY <3>2, <3>3
  <2> QED BY <2>1, <2>2, <2>3, <2>4, <2>5
<1>22. CASE TickErrorDone
  BY <1>22 DEF TickErrorDone, ErrorsChanged, Idle, WorkerPushing
<1>23. CASE TickFinish
  <2>1. ClientTypeOK'
    BY <1>23 DEF TickFinish, Idle
  <2>2. HandlerTypeOK'
    BY <1>23 DEF TickFinish, Idle
  <2>3. QueuesTypeOK'
    BY <1>23 DEF TickFinish, Idle
  <2>4. ControlTypeOK'
    <3>1. current' \in Queries \cup {NoQuery} /\ tick' \in TickStates
      <4>1. callbackData \in Seq(Queries)
        BY <1>a
      <4> HIDE DEF Queries, NoQuery
      <4>2. callbackData # <<>> => Head(callbackData) \in Queries
        BY <4>1, HeadTailType
      <4> QED BY <1>23, <1>a, <4>2 DEF TickFinish
    <3> QED BY <1>23, <3>1 DEF TickFinish
  <2>5. HistoryTypeOK'
    <3>1. CASE callbackData # <<>>
      <4>1. finished' = Append(finished, Head(callbackData))
        BY <1>23, <3>1 DEF TickFinish
      <4> QED BY <1>23, <3>1, <4>1 DEF TickFinish
    <3>2. CASE callbackData = <<>>
      BY <1>23, <3>2 DEF TickFinish
    <3> QED BY <3>1, <3>2
  <2> QED BY <2>1, <2>2, <2>3, <2>4, <2>5
<1>24. CASE TickFinishDone
  <2>1. ClientTypeOK'
    BY <1>24 DEF TickFinishDone, Idle
  <2>2. HandlerTypeOK'
    BY <1>24 DEF TickFinishDone, Idle
  <2>3. QueuesTypeOK'
    BY <1>24, HeadTailType DEF TickFinishDone, Idle
  <2>4. ControlTypeOK'
    BY <1>24 DEF TickFinishDone, Idle
  <2>5. HistoryTypeOK'
    BY <1>24 DEF TickFinishDone, Idle
  <2> QED BY <2>1, <2>2, <2>3, <2>4, <2>5
<1>25. CASE WorkerLock
  BY <1>25 DEF WorkerLock, LockMutex, CanLock
<1>26. CASE WorkerScan
  <2>1. ClientTypeOK'
    BY <1>26, BeginType DEF WorkerScan, Ready
  <2>2. HandlerTypeOK'
    BY <1>26 DEF WorkerScan, Ready
  <2>3. QueuesTypeOK'
    BY <1>26 DEF WorkerScan, Ready
  <2>4. ControlTypeOK'
    BY <1>26 DEF WorkerScan, Ready
  <2>5. HistoryTypeOK'
    BY <1>26 DEF WorkerScan, Ready
  <2> QED BY <2>1, <2>2, <2>3, <2>4, <2>5
<1>27. CASE WorkerPinged
  <2>1. ClientTypeOK'
    BY <1>27 DEF WorkerPinged, End, PingOutcomes, Outcomes
  <2>2. HandlerTypeOK'
    BY <1>27 DEF WorkerPinged
  <2>3. QueuesTypeOK'
    BY <1>27 DEF WorkerPinged
  <2>4. ControlTypeOK'
    BY <1>27 DEF WorkerPinged
  <2>5. HistoryTypeOK'
    BY <1>27 DEF WorkerPinged
  <2> QED BY <2>1, <2>2, <2>3, <2>4, <2>5
<1>28. CASE WorkerExec
  BY <1>28 DEF WorkerExec, Begin
<1>29. CASE WorkerQueried
  <2>1. ClientTypeOK'
    BY <1>29 DEF WorkerQueried, End, QueryOutcomes, Outcomes
  <2>2. HandlerTypeOK'
    BY <1>29 DEF WorkerQueried, End, QueryOutcomes, Outcomes
  <2>3. QueuesTypeOK'
    <3>1. Head(queueData) \in Queries
      BY <1>29, HeadTailType DEF WorkerQueried
    <3>2. \/ callbackData' = Append(callbackData, Head(queueData))
          \/ callbackData' = callbackData
      BY <1>29 DEF WorkerQueried
    <3>3. callbackData' \in Seq(Queries)
      <4> HIDE DEF Queries
      <4>1. callbackData \in Seq(Queries)
        BY <1>a
      <4> QED BY ONLY <4>1, <3>1, <3>2
    <3> QED BY <1>29, <3>3 DEF WorkerQueried
  <2>4. ControlTypeOK'
    BY <1>29, HeadTailType DEF WorkerQueried
  <2>5. HistoryTypeOK'
    BY <1>29, HeadTailType DEF WorkerQueried
  <2> QED BY <2>1, <2>2, <2>3, <2>4, <2>5
<1>30. CASE WorkerPushed
  <2>1. ClientTypeOK'
    BY <1>30 DEF WorkerPushed
  <2>2. HandlerTypeOK'
    BY <1>30 DEF WorkerPushed
  <2>3. QueuesTypeOK'
    <3>1. Head(queueData) \in Queries
      BY <1>30, HeadTailType DEF WorkerPushed
    <3>2. PICK n \in 0 .. errorRace :
             \/ errorCallback' = Append(errorCallback, Head(queueData))
                                    \o [i \in 1 .. n |-> Stale]
             \/ errorCallback' = errorCallback \o [i \in 1 .. n |-> Stale]
      <4> HIDE DEF Queries, NoQuery, Stale, Entries
      <4> QED BY <1>30 DEF WorkerPushed
    <3>3. errorCallback' \in Seq(Entries)
      <4> HIDE DEF Queries, NoQuery, Stale
      <4>1. errorCallback \in Seq(Entries) /\ Head(queueData) \in Entries
        BY <1>a, <3>1
      <4> DEFINE x == [i \in 1 .. n |-> Stale]
                 E == Append(errorCallback, Head(queueData))
      <4>2. Stale \in Entries /\ n \in Nat
        BY <1>a
      <4> HIDE DEF Entries
      <4>3. x \in Seq(Entries)
        BY ONLY <4>2
      <4>4. E \in Seq(Entries)
        BY ONLY <4>1
      <4>5. errorCallback' = E \o x \/ errorCallback' = errorCallback \o x
        BY <3>2
      <4> HIDE DEF x, E
      <4>6. E \o x \in Seq(Entries) /\ errorCallback \o x \in Seq(Entries)
        BY ONLY <4>1, <4>3, <4>4
      <4> QED BY ONLY <4>5, <4>6
    <3> QED BY <1>30, <3>3 DEF WorkerPushed
  <2>4. ControlTypeOK'
    BY <1>30, HeadTailType DEF WorkerPushed
  <2>5. HistoryTypeOK'
    <3>1. Head(queueData) \in Queries
      BY <1>30, HeadTailType DEF WorkerPushed
    <3>2. dropped' \in {dropped, dropped \cup {Head(queueData)}}
      BY <1>30 DEF WorkerPushed
    <3> QED BY <1>30, <3>1, <3>2 DEF WorkerPushed
  <2> QED BY <2>1, <2>2, <2>3, <2>4, <2>5
<1>31. CASE WorkerPop
  BY <1>31 DEF WorkerPop
<1>32. CASE WorkerDrain
  BY <1>32 DEF WorkerDrain, Begin
<1>33. CASE WorkerDrained
  <2>1. ClientTypeOK'
    BY <1>33 DEF WorkerDrained, End, StoreOutcomes, Outcomes
  <2>2. HandlerTypeOK'
    BY <1>33 DEF WorkerDrained
  <2>3. QueuesTypeOK'
    BY <1>33 DEF WorkerDrained
  <2>4. ControlTypeOK'
    BY <1>33 DEF WorkerDrained
  <2>5. HistoryTypeOK'
    BY <1>33 DEF WorkerDrained
  <2> QED BY <2>1, <2>2, <2>3, <2>4, <2>5
<1>34. CASE WorkerUnlock
  <2>1. ClientTypeOK' /\ HandlerTypeOK' /\ QueuesTypeOK' /\ HistoryTypeOK'
    BY <1>34 DEF WorkerUnlock
  <2>2. ControlTypeOK'
    BY <1>34 DEF WorkerUnlock
  <2> QED BY <2>1, <2>2
<1>35. CASE Drop
  BY <1>35 DEF Drop, ServerDrops, OpenStates
<1> QED
  BY <1>1, <1>2, <1>3, <1>4, <1>5, <1>6, <1>7, <1>8, <1>9, <1>10, <1>11,
     <1>12, <1>13, <1>14, <1>15, <1>16, <1>17, <1>18, <1>19, <1>20, <1>21,
     <1>22, <1>23, <1>24, <1>25, <1>26, <1>27, <1>28, <1>29, <1>30, <1>31,
     <1>32, <1>33, <1>34, <1>35
  DEF Next, Natives, NativeSteps, ProcessTick, WorkerSteps
-----------------------------------------------------------------------------
(* Every step keeps the order.                                             *)

LEMMA RecordsPushed ==
    ASSUME NEW S \in SUBSET Int, NEW s \in Seq(S), NEW e \in S,
           OrderedRecords(s), e \notin Queries \/ \A f \in Range(s) : f < e
    PROVE  OrderedRecords(Append(s, e))
<1>1. /\ DOMAIN s = 1 .. Len(s) /\ Len(s) \in Nat
      /\ DOMAIN Append(s, e) = 1 .. Len(s) + 1
      /\ \A i \in 1 .. Len(s) : Append(s, e)[i] = s[i]
      /\ Append(s, e)[Len(s) + 1] = e
  OBVIOUS
<1>2. ASSUME NEW i \in 1 .. Len(s) + 1, NEW j \in 1 .. Len(s) + 1, i < j,
             Append(s, e)[j] \in Queries
      PROVE  Append(s, e)[i] < Append(s, e)[j]
  <2>1. i \in 1 .. Len(s) /\ s[i] \in Range(s)
    BY <1>1, <1>2 DEF Range
  <2>2. CASE j = Len(s) + 1
    BY <1>1, <1>2, <2>1, <2>2
  <2>3. CASE j \in 1 .. Len(s)
    BY <1>1, <1>2, <2>1, <2>3 DEF OrderedRecords
  <2> QED BY <1>1, <1>2, <2>2, <2>3
<1> QED BY <1>1, <1>2 DEF OrderedRecords

LEMMA RecordsPopped ==
    ASSUME NEW S \in SUBSET Int, NEW s \in Seq(S), s # <<>>, OrderedRecords(s)
    PROVE  OrderedRecords(Tail(s))
<1>1. /\ Len(s) \in Nat \ {0}
      /\ DOMAIN s = 1 .. Len(s) /\ DOMAIN Tail(s) = 1 .. Len(s) - 1
      /\ \A i \in 1 .. Len(s) - 1 : Tail(s)[i] = s[i + 1]
  OBVIOUS
<1>2. \A i \in 1 .. Len(s) - 1 : i + 1 \in 1 .. Len(s)
  BY <1>1
<1> SUFFICES ASSUME NEW i \in 1 .. Len(s) - 1, NEW j \in 1 .. Len(s) - 1,
                    i < j, s[j + 1] \in Queries
             PROVE  s[i + 1] < s[j + 1]
  BY <1>1 DEF OrderedRecords
<1>3. i + 1 < j + 1
  BY <1>1
<1> QED BY <1>1, <1>2, <1>3 DEF OrderedRecords

\* The numbers in the queues, in a form the lemmas above ask for.
LEMMA Numbered ==
    ASSUME TypeOK
    PROVE  /\ Queries \in SUBSET Nat /\ Entries \in SUBSET Int
           /\ Queries \subseteq Entries
           /\ NoQuery \in Entries \ Queries /\ Stale \in Entries \ Queries
           /\ \A q \in Queries : NoQuery < q /\ Stale < q
           /\ queueData \in Seq(Queries)
           /\ errorCallback \in Seq(Entries)
           /\ accepted \in Nat
           /\ NoQuery <= accepted /\ Stale <= accepted
BY BoundsAssumption
DEF TypeOK, QueuesTypeOK, HistoryTypeOK, Queries, Entries, NoQuery, Stale

\* A push to errorCallback.
LEMMA ErrorPushed ==
    ASSUME NEW s \in Seq(Entries), NEW e \in Entries,
           OrderedRecords(s), e \notin Queries \/ \A f \in Range(s) : f < e
    PROVE  /\ Append(s, e) \in Seq(Entries)
           /\ OrderedRecords(Append(s, e))
           /\ Range(Append(s, e)) = Range(s) \cup {e}
<1>1. Entries \in SUBSET Int
  BY BoundsAssumption DEF Entries, Queries, NoQuery, Stale
<1> QED BY <1>1, RangePushed, RecordsPushed

\* Entries nobody pushed.
LEMMA SurplusPushed ==
    ASSUME NEW s \in Seq(Entries), NEW n \in Nat, NEW x \in [1 .. n -> {Stale}],
           OrderedRecords(s)
    PROVE  /\ x \in Seq(Entries) /\ s \o x \in Seq(Entries)
           /\ OrderedRecords(s \o x)
           /\ Records(s \o x) = Records(s)
           /\ Range(s \o x) \subseteq Range(s) \cup {Stale}
           /\ n = 0 => s \o x = s
<1>1. Stale \in Entries \ Queries
  BY BoundsAssumption DEF Entries, Queries, Stale
<1>2. /\ x \in Seq(Entries) /\ Len(x) = n
      /\ \A i \in 1 .. n : x[i] = Stale
  BY <1>1
<1> HIDE DEF Entries
<1>3. /\ s \o x \in Seq(Entries) /\ Len(s) \in Nat
      /\ DOMAIN s = 1 .. Len(s) /\ DOMAIN (s \o x) = 1 .. Len(s) + n
      /\ \A i \in 1 .. Len(s) + n :
            (s \o x)[i] = IF i <= Len(s) THEN s[i] ELSE x[i - Len(s)]
  BY <1>2
<1>4. \A i \in 1 .. Len(s) : i \in 1 .. Len(s) + n /\ (s \o x)[i] = s[i]
  BY <1>3
<1>5. \A i \in 1 .. Len(s) + n : i \notin 1 .. Len(s) => (s \o x)[i] = Stale
  BY <1>2, <1>3
<1>6. OrderedRecords(s \o x)
  <2> SUFFICES ASSUME NEW i \in 1 .. Len(s) + n, NEW j \in 1 .. Len(s) + n,
                      i < j, (s \o x)[j] \in Queries
               PROVE  (s \o x)[i] < (s \o x)[j]
    BY <1>3 DEF OrderedRecords
  <2>1. j \in 1 .. Len(s)
    BY <1>1, <1>5
  <2>2. i \in 1 .. Len(s)
    BY <1>3, <2>1
  <2> QED BY <1>3, <1>4, <2>1, <2>2 DEF OrderedRecords
<1>7. Range(s \o x) \subseteq Range(s) \cup {Stale} /\ Range(s) \subseteq Range(s \o x)
  <2> DEFINE c == s \o x
  <2>1. /\ DOMAIN c = 1 .. Len(s) + n
        /\ \A i \in 1 .. Len(s) : i \in 1 .. Len(s) + n /\ c[i] = s[i]
        /\ \A i \in 1 .. Len(s) + n : i \notin 1 .. Len(s) => c[i] = Stale
    BY <1>3, <1>4, <1>5
  <2> HIDE DEF c
  <2>2. Range(c) \subseteq Range(s) \cup {Stale} /\ Range(s) \subseteq Range(c)
    BY <1>3, <2>1 DEF Range
  <2> QED BY <2>2 DEF c
<1>8. Records(s \o x) = Records(s)
  BY <1>1, <1>7 DEF Records
<1>9. n = 0 => s \o x = s
  BY <1>2
<1> QED BY <1>2, <1>3, <1>6, <1>7, <1>8, <1>9

\* Nothing new in the queues.
LEMMA OrderShrinks ==
    ASSUME OrderInv, accepted' = accepted,
           Ascending(queueData'), OrderedRecords(errorCallback'),
           Range(queueData)' \subseteq Range(queueData),
           Range(Unpopped)' \subseteq Range(Unpopped),
           Range(errorCallback)' \subseteq Range(errorCallback)
    PROVE  OrderInv'
BY DEF OrderInv

\* What a pop leaves.
LEMMA QueuePopped ==
    ASSUME TypeOK, OrderInv, queueData # <<>>
    PROVE  /\ Head(queueData) \in Queries /\ Head(queueData) \in Range(queueData)
           /\ Ascending(Tail(queueData))
           /\ Range(Tail(queueData)) \subseteq Range(queueData)
           /\ \A w \in Range(Tail(queueData)) : Head(queueData) < w
<1>1. Queries \in SUBSET Nat /\ queueData \in Seq(Queries) /\ Ascending(queueData)
  BY Numbered DEF OrderInv
<1>2. Head(queueData) \in Queries
      /\ Range(queueData) = {Head(queueData)} \cup Range(Tail(queueData))
  BY <1>1, RangePopped
<1> QED BY <1>1, <1>2, AscendingPopped

LEMMA OrderStep ==
    ASSUME IInv, Next
    PROVE  OrderInv'
<1> DEFINE Quiet == /\ UNCHANGED <<queueData, errorCallback, accepted>>
                    /\ At("worker", "pop")' = At("worker", "pop")
<1>a. TypeOK /\ Guards /\ OrderInv
  BY DEF IInv
<1>b. pc \in [Threads -> MainPcs \cup WorkerPcs]
  BY <1>a DEF TypeOK, ControlTypeOK
<1>c. CanLock("main") => At("worker", "sleep")
  BY <1>a DEF Guards, MutexInv, CanLock, MutexFree
<1>q. CASE Quiet
  BY <1>a, <1>q, OrderShrinks DEF OrderInv, Unpopped
<1>1. ASSUME NEW t \in Threads, ConnectInit(t) \/ ConnectOpen(t) \/ ConnectDone(t)
      PROVE  Quiet
  BY <1>1, <1>b DEF ConnectInit, ConnectOpen, ConnectDone, AfterConnect
<1>2. CASE MysqlConnectNew \/ MysqlConnectAgain \/ MysqlReconnect \/ MysqlQuery
           \/ Statement \/ MysqlStoreResult \/ Command \/ MysqlPing
  <2>1. Quiet
    BY <1>2, <1>b DEF MysqlConnectNew, MysqlConnectAgain, MysqlReconnect,
       MysqlQuery, Statement, MysqlStoreResult, Command, MysqlPing
  <2> QED BY <1>q, <2>1
<1>3. CASE DisconnectClose \/ StoreResultDone \/ CommandDone \/ MysqlPingDone
           \/ TickError \/ TickFinish \/ TickFinishDone
  <2>1. Quiet
    BY <1>3, <1>b DEF DisconnectClose, StoreResultDone, CommandDone,
       MysqlPingDone, TickError, TickFinish, TickFinishDone
  <2> QED BY <1>q, <2>1
<1>4. CASE WorkerLock \/ WorkerScan \/ WorkerPinged \/ WorkerExec
           \/ WorkerDrain \/ WorkerDrained \/ WorkerUnlock \/ Drop
  <2>1. Quiet
    BY <1>4, <1>b DEF WorkerLock, WorkerScan, WorkerPinged, WorkerExec,
       WorkerDrain, WorkerDrained, WorkerUnlock, Drop
  <2> QED BY <1>q, <2>1
<1>5. CASE MysqlClose \/ DisconnectClear
  <2>1. At("worker", "sleep") /\ At("worker", "sleep")'
    BY <1>5, <1>b, <1>c DEF MysqlClose, DisconnectClear, LockMutex
  <2>2. queueData' = <<>> /\ UNCHANGED <<errorCallback, accepted>>
    BY <1>5 DEF MysqlClose, DisconnectClear
  <2>3. Ascending(queueData') /\ Range(queueData)' = {} /\ Range(Unpopped)' = {}
    BY <2>1, <2>2, RangeEmpty DEF Ascending, Unpopped
  <2> QED BY <1>a, <2>2, <2>3, OrderShrinks DEF OrderInv
<1>6. CASE MysqlCloseErase
  <2>1. errorCallback' = <<>> /\ UNCHANGED <<queueData, accepted>>
        /\ Unpopped' = Unpopped
    BY <1>6, <1>b DEF MysqlCloseErase, Unpopped
  <2>2. OrderedRecords(errorCallback') /\ Range(errorCallback)' = {}
    BY <2>1, RangeEmpty DEF OrderedRecords
  <2> QED BY <1>a, <2>1, <2>2, OrderShrinks DEF OrderInv
<1>7. CASE QueryPush
  <2>1. At("worker", "sleep") /\ At("worker", "sleep")'
    BY <1>7, <1>b, <1>c DEF QueryPush
  <2>2. /\ queueData' = Append(queueData, accepted + 1)
        /\ errorCallback' = errorCallback /\ accepted' = accepted + 1
    BY <1>7 DEF QueryPush
  <2>3. accepted + 1 \in Queries
    BY <1>7, <1>a, BoundsAssumption
    DEF QueryPush, Guards, QueueInv, TypeOK, HistoryTypeOK, Queries
  <2>4. \A e \in Range(errorCallback) \cup Range(queueData) : e < accepted + 1
    <3>1. \A e \in Range(errorCallback) \cup Range(queueData) : e \in Int
      BY <1>a, Numbered, RangeInside
    <3> QED BY <1>a, <3>1, Numbered DEF OrderInv
  <2>5. Range(queueData)' = Range(queueData) \cup {accepted + 1}
    BY <1>a, <2>2, <2>3, Numbered, RangePushed
  <2>6. Ascending(queueData')
    BY <1>a, <2>2, <2>3, <2>4, Numbered, AscendingPushed DEF OrderInv
  <2>7. Unpopped = queueData /\ Unpopped' = queueData'
    BY <2>1 DEF Unpopped
  <2>8. \A e \in Range(errorCallback), w \in Range(Unpopped)' : e < w
    BY <1>a, <2>4, <2>5, <2>7 DEF OrderInv
  <2>9. \A e \in Range(errorCallback) \cup Range(queueData)' : e <= accepted + 1
    <3>1. \A e \in Range(errorCallback) \cup Range(queueData) : e \in Int
      BY <1>a, Numbered, RangeInside
    <3> QED BY <1>a, <2>4, <2>5, <3>1, Numbered
  <2> QED BY <1>a, <2>2, <2>6, <2>8, <2>9 DEF OrderInv
<1>8. CASE StatementDone
  <2>1. /\ errorCallback' = errorCallback \/ errorCallback' = Append(errorCallback, NoQuery)
        /\ UNCHANGED <<queueData, accepted>> /\ Unpopped' = Unpopped
    BY <1>8, <1>b DEF StatementDone, ErrorsChanged, Unpopped
  <2>2. CASE errorCallback' = errorCallback
    BY <1>a, <2>1, <2>2, OrderShrinks DEF OrderInv
  <2>3. CASE errorCallback' = Append(errorCallback, NoQuery)
    <3>1. OrderedRecords(errorCallback')
          /\ Range(errorCallback)' = Range(errorCallback) \cup {NoQuery}
      BY <1>a, <2>3, Numbered, ErrorPushed DEF OrderInv
    <3>2. Range(Unpopped) \subseteq Queries
      <4>1. Range(queueData) \subseteq Queries
        BY <1>a, Numbered, RangeInside
      <4>2. At("worker", "pop") => queueData # <<>>
        BY <1>a DEF Guards, QueueInv, WorkerTakesHead
      <4> QED BY <1>a, <4>1, <4>2, QueuePopped DEF Unpopped
    <3>3. \A w \in Range(Unpopped) : NoQuery < w
      BY <1>a, <3>2, Numbered
    <3>4. NoQuery <= accepted
      BY <1>a, Numbered
    <3> QED BY <1>a, <2>1, <3>1, <3>3, <3>4 DEF OrderInv
  <2> QED BY <2>1, <2>2, <2>3
<1>9. CASE TickErrorDone
  <2>1. /\ errorCallback # <<>> /\ errorCallback' = Tail(errorCallback)
        /\ UNCHANGED <<queueData, accepted>> /\ Unpopped' = Unpopped
    BY <1>9, <1>a DEF TickErrorDone, Guards, TickInv, Unpopped
  <2>2. OrderedRecords(errorCallback')
        /\ Range(errorCallback)' \subseteq Range(errorCallback)
    BY <1>a, <2>1, Numbered, RecordsPopped, RangePopped DEF OrderInv
  <2> QED BY <1>a, <2>1, <2>2, OrderShrinks DEF OrderInv
<1>10. CASE WorkerQueried
  <2>1. /\ UNCHANGED <<queueData, errorCallback, accepted>> /\ queueData # <<>>
        /\ Unpopped = queueData /\ Unpopped' \in {queueData, Tail(queueData)}
    BY <1>10, <1>a, <1>b DEF WorkerQueried, Guards, QueueInv, WorkerTakesHead, Unpopped
  <2>2. Range(Unpopped)' \subseteq Range(Unpopped)
    BY <1>a, <2>1, QueuePopped
  <2> QED BY <1>a, <2>1, <2>2, OrderShrinks DEF OrderInv
<1>11. CASE WorkerPushed
  <2> DEFINE h == Head(queueData)
  <2>1. /\ UNCHANGED <<queueData, accepted>> /\ queueData # <<>>
        /\ Unpopped = queueData /\ Unpopped' = Tail(queueData)
    BY <1>11, <1>a, <1>b DEF WorkerPushed, Guards, QueueInv, WorkerTakesHead, Unpopped
  <2>2. PICK n \in 0 .. errorRace :
           \/ errorCallback' = Append(errorCallback, h) \o [i \in 1 .. n |-> Stale]
           \/ errorCallback' = errorCallback \o [i \in 1 .. n |-> Stale]
    BY <1>11 DEF WorkerPushed
  <2> DEFINE x == [i \in 1 .. n |-> Stale]
  <2>x. n \in Nat /\ x \in [1 .. n -> {Stale}]
    BY <1>a DEF TypeOK, QueuesTypeOK
  <2>3. /\ h \in Queries /\ h \in Range(queueData)
        /\ Range(Unpopped)' \subseteq Range(queueData)
        /\ \A w \in Range(Unpopped)' : h < w
    BY <1>a, <2>1, QueuePopped
  <2>4. (\A e \in Range(errorCallback) : e < h) /\ h <= accepted
    BY <1>a, <2>1, <2>3 DEF OrderInv
  <2>5. \A w \in Range(Unpopped)' : Stale < w
    BY <1>a, <2>3, Numbered, RangeInside
  <2> DEFINE E == Append(errorCallback, h)
  <2>6. /\ E \in Seq(Entries) /\ OrderedRecords(E)
        /\ Range(E) = Range(errorCallback) \cup {h}
    BY <1>a, <2>3, <2>4, Numbered, ErrorPushed DEF OrderInv
  <2>7. /\ OrderedRecords(E \o x)
        /\ Range(E \o x) \subseteq Range(E) \cup {Stale}
    <3> HIDE DEF E, x
    <3> QED BY <2>x, <2>6, SurplusPushed
  <2>8. /\ OrderedRecords(errorCallback \o x)
        /\ Range(errorCallback \o x) \subseteq Range(errorCallback) \cup {Stale}
    <3> HIDE DEF x
    <3> QED BY <1>a, <2>x, Numbered, SurplusPushed DEF OrderInv
  <2>9. /\ OrderedRecords(errorCallback')
        /\ Range(errorCallback)' \subseteq Range(errorCallback) \cup {h, Stale}
    BY <2>2, <2>6, <2>7, <2>8
  <2>10. Stale <= accepted
    BY <1>a, Numbered
  <2> HIDE DEF h, E
  <2>11. \A e \in Range(errorCallback)', w \in Range(Unpopped)' : e < w
    BY <1>a, <2>1, <2>3, <2>5, <2>9 DEF OrderInv
  <2>12. \A e \in Range(errorCallback)' \cup Range(queueData) : e <= accepted
    BY <1>a, <2>4, <2>9, <2>10 DEF OrderInv
  <2> QED BY <1>a, <2>1, <2>9, <2>11, <2>12 DEF OrderInv
<1>12. CASE WorkerPop
  <2>1. /\ queueData # <<>> /\ queueData' = Tail(queueData)
        /\ UNCHANGED <<errorCallback, accepted>> /\ Unpopped' = Unpopped
    BY <1>12, <1>a, <1>b DEF WorkerPop, Guards, QueueInv, WorkerTakesHead, Unpopped
  <2>2. Ascending(queueData') /\ Range(queueData)' \subseteq Range(queueData)
    BY <1>a, <2>1, QueuePopped
  <2> QED BY <1>a, <2>1, <2>2, OrderShrinks DEF OrderInv
<1> QED
  BY <1>q, <1>1, <1>2, <1>3, <1>4, <1>5, <1>6, <1>7, <1>8, <1>9, <1>10,
     <1>11, <1>12
  DEF Next, Natives, NativeSteps, ProcessTick, WorkerSteps

-----------------------------------------------------------------------------
(* Every step keeps the account of the race for errorCallback.             *)

LEMMA RaceStep ==
    ASSUME IInv, Next
    PROVE  RaceInv'
<1>a. TypeOK /\ Guards /\ RaceInv /\ errorRace \in Nat
  BY DEF IInv, TypeOK, QueuesTypeOK
<1>b. pc \in [Threads -> MainPcs \cup WorkerPcs]
  BY <1>a DEF TypeOK, ControlTypeOK
<1>c. errorCallback \in Seq(Entries) /\ NoQuery # Stale
  BY <1>a DEF TypeOK, QueuesTypeOK, NoQuery, Stale
<1>1. ASSUME UNCHANGED <<errorCallback, errorRace, overlapped>>,
             At("worker", "push") => At("worker", "push")'
      PROVE  RaceInv'
  BY <1>a, <1>1 DEF RaceInv, WorkerPushing
<1>2. CASE StatementDone
  <2>1. /\ UNCHANGED <<errorCallback, errorRace, overlapped>> \/ ErrorsChanged
        /\ \/ errorCallback' = errorCallback
           \/ errorCallback' = Append(errorCallback, NoQuery)
        /\ WorkerPushing' = WorkerPushing
    BY <1>2, <1>b DEF StatementDone, WorkerPushing
  <2>2. Stale \in Range(errorCallback)' => Stale \in Range(errorCallback)
    <3>1. NoQuery \in Entries
      BY DEF Entries
    <3>2. Range(Append(errorCallback, NoQuery)) = Range(errorCallback) \cup {NoQuery}
      BY <1>c, <3>1, RangePushed
    <3> QED BY <1>c, <2>1, <3>2
  <2>3. /\ overlapped => overlapped'
        /\ errorRace' # errorRace => overlapped' /\ WorkerPushing
    <3>1. CASE ErrorsChanged
      <4>1. overlapped' = (overlapped \/ WorkerPushing)
        BY <3>1, Zenon DEF ErrorsChanged
      <4>2. errorRace' # errorRace => WorkerPushing
        BY <1>a, <3>1 DEF ErrorsChanged
      <4> QED BY <4>1, <4>2, Zenon
    <3> QED BY <2>1, <3>1
  <2> QED BY <1>a, <2>1, <2>2, <2>3 DEF RaceInv
<1>3. CASE TickErrorDone
  <2>1. /\ ErrorsChanged /\ errorCallback' = Tail(errorCallback)
        /\ WorkerPushing' = WorkerPushing /\ errorCallback # <<>>
    BY <1>3, <1>a DEF TickErrorDone, WorkerPushing, Guards, TickInv
  <2>2. Stale \in Range(errorCallback)' => Stale \in Range(errorCallback)
    BY <1>c, <2>1, RangePopped
  <2>3. /\ overlapped => overlapped'
        /\ errorRace' # errorRace => overlapped' /\ WorkerPushing
    <3>1. CASE ErrorsChanged
      <4>1. overlapped' = (overlapped \/ WorkerPushing)
        BY <3>1, Zenon DEF ErrorsChanged
      <4>2. errorRace' # errorRace => WorkerPushing
        BY <1>a, <3>1 DEF ErrorsChanged
      <4> QED BY <4>1, <4>2, Zenon
    <3> QED BY <2>1, <3>1
  <2> QED BY <1>a, <2>1, <2>2, <2>3 DEF RaceInv
<1>4. CASE WorkerPushed
  <2> DEFINE h == Head(queueData)
             E == Append(errorCallback, h)
  <2>1. errorRace' = 0 /\ overlapped' = overlapped
    BY <1>4 DEF WorkerPushed
  <2>2. PICK n \in 0 .. errorRace : \E y \in [1 .. n -> {Stale}] :
           errorCallback' = E \o y \/ errorCallback' = errorCallback \o y
    BY <1>4 DEF WorkerPushed
  <2>3. h \in Queries /\ h # Stale
    BY <1>4, <1>a, Numbered, HeadTailType
    DEF WorkerPushed, Guards, QueueInv, WorkerTakesHead
  <2>4. /\ E \in Seq(Entries) /\ Range(E) = Range(errorCallback) \cup {h}
    BY <1>a, <1>c, <2>3, Numbered, RangePushed
  <2>5. n \in Nat /\ (n = 0 \/ errorRace > 0)
    BY <1>a, <2>2
  <2>6. OrderedRecords(errorCallback) /\ OrderedRecords(E)
    <3>1. Unpopped = queueData /\ h \in Range(queueData)
      BY <1>4, <1>a, QueuePopped
      DEF WorkerPushed, Unpopped, IInv, Guards, QueueInv, WorkerTakesHead
    <3> QED BY <1>c, <2>3, <3>1, <1>a, Numbered, ErrorPushed DEF IInv, OrderInv
  <2>7. n = 0 => Range(errorCallback)' \subseteq Range(errorCallback) \cup {h}
    <3> HIDE DEF E, h
    <3> QED BY <1>c, <2>2, <2>4, <2>5, <2>6, SurplusPushed
  <2> QED BY <1>a, <2>1, <2>3, <2>5, <2>7 DEF RaceInv
<1>5. CASE MysqlCloseErase
  BY <1>5, <1>a, <1>b, RangeEmpty DEF MysqlCloseErase, RaceInv, WorkerPushing
<1> DEFINE Quiet == /\ UNCHANGED <<errorCallback, errorRace, overlapped>>
                    /\ At("worker", "push") => At("worker", "push")'
<1>6. ASSUME NEW t \in Threads, ConnectInit(t) \/ ConnectOpen(t) \/ ConnectDone(t)
      PROVE  Quiet
  BY <1>6, <1>b DEF ConnectInit, ConnectOpen, ConnectDone, AfterConnect, queues
<1>7. CASE MysqlConnectNew \/ MysqlConnectAgain \/ MysqlReconnect \/ MysqlQuery
           \/ Statement \/ MysqlStoreResult \/ Command \/ MysqlPing
  <2>1. Quiet
    BY <1>7, <1>b DEF MysqlConnectNew, MysqlConnectAgain, MysqlReconnect,
       MysqlQuery, Statement, MysqlStoreResult, Command, MysqlPing, queues
  <2> QED BY <1>1, <2>1
<1>8. CASE DisconnectClose \/ StoreResultDone \/ CommandDone \/ MysqlPingDone
           \/ TickError \/ TickFinish \/ TickFinishDone \/ QueryPush
           \/ MysqlClose \/ DisconnectClear
  <2>1. Quiet
    BY <1>8, <1>b DEF DisconnectClose, StoreResultDone, CommandDone,
       MysqlPingDone, TickError, TickFinish, TickFinishDone, QueryPush,
       MysqlClose, DisconnectClear, queues
  <2> QED BY <1>1, <2>1
<1>9. CASE WorkerLock \/ WorkerScan \/ WorkerPinged \/ WorkerExec
           \/ WorkerDrain \/ WorkerDrained \/ WorkerUnlock \/ Drop
           \/ WorkerQueried \/ WorkerPop
  <2>1. Quiet
    BY <1>9, <1>b DEF WorkerLock, WorkerScan, WorkerPinged, WorkerExec,
       WorkerDrain, WorkerDrained, WorkerUnlock, Drop, WorkerQueried,
       WorkerPop, queues
  <2> QED BY <1>1, <2>1
<1> QED
  BY <1>1, <1>2, <1>3, <1>4, <1>5, <1>6, <1>7, <1>8, <1>9
  DEF Next, Natives, NativeSteps, ProcessTick, WorkerSteps

-----------------------------------------------------------------------------
(* What holds for every instance.                                          *)

LEMMA InitInv == Init => IInv
<1> SUFFICES ASSUME Init PROVE IInv
  OBVIOUS
<1> USE ConnsAssumption, BoundsAssumption
    DEF Init, MutexInit, ClientInit, MutexFree
<1>1. TypeOK
  <2>1. MutexTypeOK /\ ClientTypeOK
    BY DEF MutexTypeOK, ClientTypeOK, ConnStates
  <2>2. HandlerTypeOK
    BY DEF HandlerTypeOK
  <2>5. HistoryTypeOK
    <3>1. accepted \in 0 .. MaxQueries /\ dropped \in SUBSET Queries
      OBVIOUS
    <3> QED BY <3>1, EmptyType DEF HistoryTypeOK
  <2>3. QueuesTypeOK
    BY EmptyType DEF QueuesTypeOK
  <2>4. ControlTypeOK
    BY DEF ControlTypeOK, MainPcs, WorkerPcs, TickStates
  <2> QED BY <2>1, <2>2, <2>3, <2>4, <2>5 DEF TypeOK
<1>2. Guards
  BY DEF Guards, MutexInv, QueueInv, CallbackInv, TickInv, PointerInv,
         WorkerBusy, WorkerTakesHead, UsesPointer, CallPcs
<1>3. OrderInv /\ RaceInv
  BY DEF OrderInv, RaceInv, Ascending, OrderedRecords, Unpopped, Range
<1> QED BY <1>1, <1>2, <1>3 DEF IInv

LEMMA StutterInv == IInv /\ UNCHANGED vars => IInv'
<1> SUFFICES ASSUME IInv, UNCHANGED vars PROVE IInv'
  OBVIOUS
<1>1. TypeOK'
  BY DEF IInv, vars, TypeOK, MutexTypeOK, ClientTypeOK, HandlerTypeOK,
         QueuesTypeOK, ControlTypeOK, HistoryTypeOK
<1>2. Guards'
  BY DEF IInv, vars, Guards, MutexInv, QueueInv, CallbackInv, TickInv,
         PointerInv, WorkerBusy, WorkerTakesHead, UsesPointer
<1>3. OrderInv' /\ RaceInv'
  BY DEF IInv, vars, OrderInv, Unpopped, RaceInv, WorkerPushing
<1> QED BY <1>1, <1>2, <1>3 DEF IInv

\* The invariant is inductive.
THEOREM Inductive == Spec => []IInv
<1>1. IInv /\ [Next]_vars => IInv'
  BY GuardStep, TypeStep, RaceStep, OrderStep, StutterInv DEF IInv, Guards
<1> QED BY <1>1, InitInv, PTL DEF Spec

(***************************************************************************)
(* Every variable of the handler, the threads and the client library keeps *)
(* its type; in particular no queue is popped or read when it is empty     *)
(* (ProcessTick, ProcessQueryThread).                                      *)
(***************************************************************************)
THEOREM TypeCorrect == Spec => []TypeOK
<1>1. IInv => TypeOK
  BY DEF IInv
<1> QED BY <1>1, Inductive, PTL

(***************************************************************************)
(* m_bQueryProcessing keeps the worker off the connection from the moment  *)
(* a result is published until its callback has returned, whatever natives *)
(* run in between.                                                         *)
(***************************************************************************)
THEOREM CallbackSafe == Spec => []CallbackOwnsConnection
<1>1. IInv => CallbackOwnsConnection
  BY DEF IInv, Guards, CallbackInv, PointerInv, CallPcs,
         CallbackOwnsConnection
<1> QED BY <1>1, Inductive, PTL

(***************************************************************************)
(* callbackData, which ProcessTick pops without the mutex, never holds     *)
(* more than one finished query.                                           *)
(***************************************************************************)
THEOREM OneResult == Spec => []OneResultAtATime
<1>1. IInv => OneResultAtATime
  BY DEF IInv, Guards, CallbackInv, OneResultAtATime
<1> QED BY <1>1, Inductive, PTL

(***************************************************************************)
(* No library call uses a released object, and none the null pointer       *)
(* before mysql_init fails, although Disconnect closes outside the mutex   *)
(* and both threads connect without it.                                    *)
(***************************************************************************)
THEOREM PointerSafe == Spec => []NoUseAfterClose
<1>1. IInv => NoUseAfterClose
  BY DEF IInv, Guards, PointerInv, NoUseAfterClose
<1> QED BY <1>1, Inductive, PTL

(***************************************************************************)
(* mysql_ping and Disconnect release the mutex before they call the        *)
(* library, and still the worker is in no call while they are in theirs.   *)
(***************************************************************************)
THEOREM PingAndCloseSafe == Spec => []PingAndCloseAlone
<1>1. IInv => PingAndCloseAlone
  BY DEF IInv, TypeOK, ControlTypeOK, WorkerPcs, Guards, QueueInv, PointerInv,
         WorkerBusy, CallPcs, PingAndCloseAlone
<1> QED BY <1>1, Inductive, PTL
=============================================================================
