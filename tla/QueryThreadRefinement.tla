------------------------ MODULE QueryThreadRefinement -----------------------
(***************************************************************************)
(* QueryThread implements QueryPromise: whatever the two threads do to one *)
(* handle, for the script it is accepting, executing, notifying and        *)
(* dropping queries one at a time.                                         *)
(***************************************************************************)
EXTENDS QueryThreadProofs

\* The variables of QueryPromise, as QueryThread computes them.
promised == <<accepted, Waiting, Done, Failed, finished, reported, dropped,
              repeated, overlapped>>

-----------------------------------------------------------------------------
LEMMA PromiseInit == Init => Promise!Init
BY RangeEmpty
DEF Init, Promise!Init, Waiting, Done, Failed, Executed, WorkerPushing,
    Records, Threads, At

\* The error records whose callback has not begun.
Owed == IF tick = "error" THEN Tail(errorCallback) ELSE errorCallback

LEMMA FailedIs ==
    Failed = Records(Owed)
                \cup (IF WorkerPushing THEN {Head(queueData)} ELSE {})
BY DEF Failed, Owed

LEMMA RecordsHead ==
    ASSUME NEW S \in SUBSET Int, NEW s \in Seq(S), s # <<>>, OrderedRecords(s)
    PROVE  \A e \in Range(Tail(s)) : e \in Queries => Head(s) < e
<1>1. /\ Head(s) = s[1] /\ Len(s) \in Nat \ {0}
      /\ DOMAIN s = 1 .. Len(s) /\ DOMAIN Tail(s) = 1 .. Len(s) - 1
      /\ \A i \in 1 .. Len(s) - 1 : Tail(s)[i] = s[i + 1]
  OBVIOUS
<1>2. \A i \in 1 .. Len(s) - 1 : i + 1 \in 1 .. Len(s) /\ 1 < i + 1
  BY <1>1
<1>3. 1 \in 1 .. Len(s)
  BY <1>1
<1> SUFFICES ASSUME NEW i \in 1 .. Len(s) - 1, s[i + 1] \in Queries
             PROVE  s[1] < s[i + 1]
  BY <1>1 DEF Range
<1> QED BY <1>1, <1>2, <1>3 DEF OrderedRecords

\* What of the invariant the refinement rests on.
LEMMA Facts ==
    ASSUME IInv
    PROVE  /\ TypeOK /\ OrderInv /\ RaceInv
           /\ pc \in [Threads -> MainPcs \cup WorkerPcs]
           /\ CanLock("main") => pc["worker"] = "sleep"
           /\ mutex.owner = "main" => pc["worker"] = "sleep" /\ tick = "none"
           /\ WorkerTakesHead => queueData # <<>>
           /\ tick \in {"error", "unreadable"} => errorCallback # <<>>
           /\ tick = "finish" => callbackData # <<>>
           /\ pc["worker"] = "query" => callbackData = <<>>
           /\ pc["main"] = "push" => accepted < MaxQueries
           /\ pc["main"] = "erase" => mutex.owner = "main"
BY DEF IInv, TypeOK, ControlTypeOK, Guards, MutexInv, QueueInv, TickInv,
       CallbackInv, CanLock, MutexFree, At, Threads

\* A step that touches no queue is a stutter.
LEMMA QuietStep ==
    ASSUME UNCHANGED <<queueData, callbackData, errorCallback, tick>>,
           UNCHANGED <<accepted, finished, reported, dropped, race>>,
           pc'["worker"] = "push" <=> pc["worker"] = "push",
           pc'["worker"] = "pop" <=> pc["worker"] = "pop"
    PROVE  UNCHANGED promised
BY DEF promised, race, Waiting, Done, Failed, Executed, WorkerPushing, At

-----------------------------------------------------------------------------
(* One lemma for each kind of step.                                        *)

LEMMA PushAccepts ==
    ASSUME IInv, QueryPush
    PROVE  Promise!Accept
<1>1. /\ pc["worker"] = "sleep" /\ pc'["worker"] = "sleep"
      /\ accepted < MaxQueries /\ accepted' = accepted + 1
      /\ queueData' = Append(queueData, accepted + 1)
      /\ UNCHANGED <<callbackData, errorCallback, tick, finished, reported, dropped>>
      /\ UNCHANGED race
  BY Facts DEF QueryPush, ticking, At, Go, Threads
<1>2. /\ Waiting = queueData /\ Waiting' = queueData'
      /\ Done' = Done /\ Failed' = Failed
  BY <1>1 DEF Waiting, Done, Failed, Executed, WorkerPushing, At
<1> QED BY <1>1, <1>2 DEF Promise!Accept, Promise!race, race

LEMMA ClearDrops ==
    ASSUME IInv, MysqlClose \/ DisconnectClear
    PROVE  Promise!DropWaiting
<1>1. pc["worker"] = "sleep" /\ pc'["worker"] = "sleep"
  BY Facts DEF MysqlClose, DisconnectClear, LockMutex, Go, Threads
<1>2. /\ queueData' = <<>> /\ dropped' = dropped \cup Range(queueData)
      /\ UNCHANGED <<callbackData, errorCallback, tick, accepted, finished, reported>>
      /\ UNCHANGED race
  BY DEF MysqlClose, DisconnectClear, ticking
<1>3. /\ Waiting = queueData /\ Waiting' = <<>>
      /\ Done' = Done /\ Failed' = Failed
  BY <1>1, <1>2 DEF Waiting, Done, Failed, Executed, WorkerPushing, At
<1> QED BY <1>2, <1>3 DEF Promise!DropWaiting, Promise!Range, Range,
                             Promise!race, race

LEMMA EraseDrops ==
    ASSUME IInv, MysqlCloseErase
    PROVE  Promise!DropOwed
<1>1. pc["worker"] = "sleep" /\ pc'["worker"] = "sleep" /\ tick = "none"
  BY Facts DEF MysqlCloseErase, At, Go, Threads
<1>2. /\ callbackData' = <<>> /\ errorCallback' = <<>>
      /\ dropped' = dropped \cup Range(callbackData)
                            \cup Records(errorCallback)
      /\ UNCHANGED <<queueData, tick, accepted, finished, reported, race>>
  BY DEF MysqlCloseErase, ticking
<1>3. /\ Waiting' = Waiting /\ Done = callbackData /\ Done' = <<>>
      /\ Failed = Records(errorCallback) /\ Failed' = {}
  BY <1>1, <1>2, RangeEmpty DEF Records, Waiting, Done, Failed, Executed, WorkerPushing, At
<1> QED BY <1>2, <1>3 DEF Promise!DropOwed, Promise!Range, Range,
                             Promise!race, race

\* A change of errorCallback by the main thread, for the promise.
LEMMA ChangeOverlaps ==
    ASSUME IInv, ErrorsChanged, UNCHANGED <<accepted, finished, reported>>,
           UNCHANGED <<dropped, repeated, Waiting, Done, Failed>>
    PROVE  Promise!Overlap \/ UNCHANGED promised
<1>1. overlapped' = (overlapped \/ WorkerPushing)
  BY Zenon DEF ErrorsChanged
<1>2. CASE WorkerPushing
  BY <1>1, <1>2 DEF Promise!Overlap
<1>3. CASE ~WorkerPushing
  <2>1. overlapped' = overlapped
    <3>1. overlapped \in BOOLEAN
      BY DEF IInv, TypeOK, HistoryTypeOK
    <3> QED BY <1>1, <1>3, <3>1
  <2> QED BY <2>1 DEF promised
<1> QED BY <1>2, <1>3

\* A failed statement's record belongs to no query.
LEMMA StatementOverlaps ==
    ASSUME IInv, StatementDone
    PROVE  Promise!Overlap \/ UNCHANGED promised
<1>1. /\ pc'["worker"] = pc["worker"]
      /\ UNCHANGED <<queueData, callbackData, tick, accepted, finished, reported>>
      /\ UNCHANGED <<dropped, repeated>>
      /\ \/ UNCHANGED <<errorCallback, overlapped>>
         \/ ErrorsChanged /\ errorCallback' = errorCallback
         \/ ErrorsChanged /\ errorCallback' = Append(errorCallback, NoQuery)
  BY Facts DEF StatementDone, ticking, Go, Threads
<1>2. Waiting' = Waiting /\ Done' = Done /\ WorkerPushing' = WorkerPushing
  BY <1>1 DEF Waiting, Done, Executed, WorkerPushing, At
<1>3. Records(Owed)' = Records(Owed)
  <2>1. CASE errorCallback' = errorCallback
    BY <1>1, <2>1 DEF Owed
  <2>2. CASE errorCallback' = Append(errorCallback, NoQuery)
    <3>1. /\ errorCallback \in Seq(Entries)
          /\ NoQuery \in Entries \ Queries
          /\ tick = "error" => errorCallback # <<>>
      BY Facts, Numbered
    <3> HIDE DEF Entries, NoQuery, Queries
    <3>2. Owed \in Seq(Entries) /\ Owed' = Append(Owed, NoQuery)
      BY <1>1, <2>2, <3>1, PushedPopped, RangePopped DEF Owed
    <3>3. Range(Append(Owed, NoQuery)) = Range(Owed) \cup {NoQuery}
      BY <3>1, <3>2, RangePushed
    <3> QED BY <3>1, <3>2, <3>3 DEF Records
  <2> QED BY <1>1, <2>1, <2>2
<1>4. Failed' = Failed
  BY <1>1, <1>2, <1>3 DEF Failed, Owed
<1>5. CASE UNCHANGED <<errorCallback, overlapped>>
  BY <1>1, <1>2, <1>4, <1>5 DEF promised
<1>6. CASE ErrorsChanged
  BY <1>1, <1>2, <1>4, <1>6, ChangeOverlaps
<1> QED BY <1>1, <1>5, <1>6

\* Of the records owed the one in front is the oldest.
LEMMA ErrorReports ==
    ASSUME IInv, TickError
    PROVE  Promise!Report \/ Promise!Repeat \/ UNCHANGED promised
<1>1. /\ UNCHANGED <<queueData, callbackData, errorCallback, pc>>
      /\ UNCHANGED <<accepted, finished, dropped, overlapped>>
      /\ tick = "none"
  BY DEF TickError, handler, queues
<1>2. CASE errorCallback = <<>>
  <2>1. tick' = "between" /\ reported' = reported /\ repeated' = repeated
    BY <1>2 DEF TickError
  <2> QED BY <1>1, <2>1 DEF promised, Waiting, Done, Failed, Executed,
                            WorkerPushing, At
<1> DEFINE r == Head(errorCallback)
           P == IF WorkerPushing THEN {Head(queueData)} ELSE {}
<1>3. /\ UNCHANGED <<Waiting, WorkerPushing>> /\ P' = P
      /\ Done = callbackData /\ Owed = errorCallback
      /\ tick' # "finish" => Done' = callbackData
      /\ tick' = "error" => Owed' = Tail(errorCallback)
      /\ tick' # "error" => Owed' = errorCallback
  BY <1>1 DEF Waiting, Done, Owed, Executed, WorkerPushing, At
<1>4. Failed = Records(Owed) \cup P /\ Failed' = Records(Owed)' \cup P
  BY <1>3, FailedIs DEF Failed, Owed
<1>5. errorCallback # <<>> =>
         /\ r \in Entries /\ r \in Range(errorCallback)
         /\ Range(errorCallback) = {r} \cup Range(Tail(errorCallback))
         /\ Range(Tail(errorCallback)) \subseteq Entries
         /\ \A e \in Range(Tail(errorCallback)) : e \in Queries => r < e
  <2>1. /\ Entries \in SUBSET Int /\ errorCallback \in Seq(Entries)
        /\ OrderedRecords(errorCallback)
    BY Facts, Numbered DEF OrderInv
  <2> HIDE DEF Entries
  <2>2. errorCallback # <<>> => Tail(errorCallback) \in Seq(Entries)
    BY <2>1, RangePopped
  <2> QED BY <2>1, <2>2, RangePopped, RecordsHead, RangeInside
<1>6. CASE errorCallback # <<>> /\ r = Stale
  <2>1. /\ tick' \in {"error", "unreadable"} /\ reported' = reported
        /\ repeated' = repeated \cup ({current'} \cap Queries)
        /\ current' \in Range(reported) \cup {NoQuery}
    BY <1>6 DEF TickError, TickStale
  <2>2. overlapped
    BY <1>5, <1>6, Facts DEF RaceInv
  <2>3. Records(Owed)' = Records(Owed)
    <3>1. r \notin Queries
      BY <1>6, Facts, Numbered
    <3> QED BY <1>3, <1>5, <1>6, <3>1 DEF Records
  <2>4. UNCHANGED <<Waiting, Done, Failed>>
    BY <1>3, <1>4, <2>1, <2>3
  <2>5. CASE current' \in Queries
    <3>1. current' \in Range(reported) /\ repeated' = repeated \cup {current'}
      BY <2>1, <2>5, Facts, Numbered
    <3> QED BY <1>1, <2>1, <2>2, <2>4, <3>1 DEF Promise!Repeat, Promise!Range, Range
  <2>6. CASE current' \notin Queries
    BY <1>1, <2>1, <2>4, <2>6 DEF promised
  <2> QED BY <2>5, <2>6
<1>7. CASE errorCallback # <<>> /\ r # Stale
  <2>1. /\ tick' = "error" /\ repeated' = repeated
        /\ reported' = IF r = NoQuery THEN reported ELSE Append(reported, r)
    BY <1>7 DEF TickError, TickRecord
  <2>2. \A p \in P : p \in Nat /\ r < p
    <3> SUFFICES ASSUME WorkerPushing
                 PROVE  Head(queueData) \in Nat /\ r < Head(queueData)
      OBVIOUS
    <3>1. queueData # <<>> /\ Unpopped = queueData
      BY Facts DEF WorkerPushing, WorkerTakesHead, Unpopped, At
    <3>2. Head(queueData) \in Nat /\ Head(queueData) \in Range(queueData)
      BY <3>1, Facts, QueuePopped, Numbered
    <3> QED BY <1>5, <1>7, <3>1, <3>2, Facts DEF OrderInv
  <2>3. CASE r \notin Queries
    <3>1. r = NoQuery
      BY <1>5, <1>7, <2>3 DEF Entries
    <3>2. Records(Owed)' = Records(Owed)
      BY <1>3, <1>5, <1>7, <2>1, <2>3 DEF Records
    <3> QED BY <1>1, <1>3, <1>4, <2>1, <3>1, <3>2 DEF promised
  <2>4. CASE r \in Queries
    <3>1. r # NoQuery /\ r \in Nat /\ Queries \subseteq Nat
      BY <2>4, Facts, Numbered
    <3>2. reported' = Append(reported, r)
      BY <2>1, <3>1
    <3>3. /\ Records(errorCallback) = {r} \cup Records(Tail(errorCallback))
          /\ \A e \in Records(Tail(errorCallback)) : e \in Nat /\ r < e
      BY <1>5, <1>7, <2>4, <3>1 DEF Records
    <3>4. Records(Owed)' = Records(Tail(errorCallback))
      BY <1>3, <2>1 DEF Records
    <3> HIDE DEF r, P
    <3>5. r \notin Records(Tail(errorCallback)) /\ r \notin P
      BY <2>2, <3>1, <3>3
    <3>6. r \in Failed /\ Failed' = Failed \ {r}
      BY <1>3, <1>4, <3>3, <3>4, <3>5
    <3>7. \A p \in Failed : r <= p
      BY <1>3, <1>4, <2>2, <3>1, <3>3
    <3> QED BY <1>1, <1>3, <2>1, <3>2, <3>6, <3>7 DEF Promise!Report, Promise!race
  <2> QED BY <2>3, <2>4
<1> QED BY <1>2, <1>6, <1>7

LEMMA ErrorDoneOverlaps ==
    ASSUME IInv, TickErrorDone
    PROVE  Promise!Overlap \/ UNCHANGED promised
<1>1. /\ ErrorsChanged /\ errorCallback' = Tail(errorCallback)
      /\ tick = "error" /\ tick' = "between"
      /\ UNCHANGED <<queueData, callbackData, pc, accepted, finished, reported>>
      /\ UNCHANGED <<dropped, repeated>>
  BY DEF TickErrorDone
<1>2. UNCHANGED <<Waiting, Done, Failed>>
  BY <1>1 DEF Waiting, Done, Failed, Executed, WorkerPushing, At
<1> QED BY <1>1, <1>2, ChangeOverlaps

LEMMA FinishFinishes ==
    ASSUME IInv, TickFinish
    PROVE  Promise!Finish \/ UNCHANGED promised
<1>1. /\ UNCHANGED <<queueData, callbackData, errorCallback, pc>>
      /\ UNCHANGED <<accepted, reported, dropped, race>>
      /\ tick = "between"
  BY DEF TickFinish, handler, queues
<1>2. CASE callbackData = <<>>
  <2>1. tick' = "none" /\ finished' = finished
    BY <1>2 DEF TickFinish
  <2> QED BY <1>1, <2>1 DEF promised, race, Waiting, Done, Failed, Executed,
                            WorkerPushing, At
<1>3. CASE callbackData # <<>>
  <2>1. tick' = "finish" /\ finished' = Append(finished, Head(callbackData))
    BY <1>3 DEF TickFinish
  <2>2. /\ UNCHANGED <<Waiting, Failed>>
        /\ Done = callbackData /\ Done' = Tail(callbackData)
    BY <1>1, <2>1 DEF Waiting, Done, Failed, Executed, WorkerPushing, At
  <2> QED BY <1>1, <1>3, <2>1, <2>2 DEF Promise!Finish, Promise!race, race
<1> QED BY <1>2, <1>3

LEMMA FinishDoneStutters ==
    ASSUME IInv, TickFinishDone
    PROVE  UNCHANGED promised
BY DEF TickFinishDone, history, race, promised, Waiting, Done, Failed,
       Executed, WorkerPushing, At

\* The statement returned: it succeeded or failed, and no callback is owed.
LEMMA QueriedExecutes ==
    ASSUME IInv, WorkerQueried
    PROVE  Promise!Succeed \/ Promise!Fail
<1>1. /\ pc["worker"] = "query" /\ queueData # <<>> /\ callbackData = <<>>
      /\ tick # "finish"
  BY Facts DEF WorkerQueried, WorkerTakesHead, At
<1>2. /\ UNCHANGED <<queueData, errorCallback, tick>>
      /\ UNCHANGED <<accepted, finished, reported, dropped, race>>
      /\ \/ /\ pc'["worker"] = "pop"
            /\ callbackData' = Append(callbackData, Head(queueData))
         \/ pc'["worker"] = "push" /\ callbackData' = callbackData
  BY Facts DEF WorkerQueried, ticking, history, Go, Threads
<1>3. /\ Waiting = queueData /\ Waiting' = Tail(queueData) /\ Done = <<>>
      /\ Done' = callbackData' /\ Owed' = Owed /\ ~WorkerPushing
  BY <1>1, <1>2 DEF Waiting, Done, Owed, Executed, WorkerPushing, At
<1>4. CASE pc'["worker"] = "pop"
  <2>1. Done' = <<Head(queueData)>>
    BY <1>1, <1>2, <1>3, <1>4
  <2>2. Failed' = Failed
    BY <1>2, <1>3, <1>4 DEF Failed, Owed, WorkerPushing, At
  <2> QED BY <1>1, <1>2, <1>3, <2>1, <2>2 DEF Promise!Succeed, Promise!race, race
<1>5. CASE pc'["worker"] = "push"
  <2>1. Done' = Done
    BY <1>1, <1>2, <1>3, <1>5
  <2>2. Failed' = Failed \cup {Head(queueData)}
    BY <1>2, <1>3, <1>5 DEF Failed, Owed, WorkerPushing, At
  <2> QED BY <1>1, <1>2, <1>3, <2>1, <2>2 DEF Promise!Fail, Promise!race, race
<1> QED BY <1>2, <1>4, <1>5

\* The push keeps the record, or loses it; entries nobody pushed are no records.
LEMMA PushedKeepsOrLoses ==
    ASSUME IInv, WorkerPushed
    PROVE  Promise!LoseReport \/ UNCHANGED promised
<1> DEFINE h == Head(queueData)
           O == Append(Owed, h)
<1>1. /\ pc["worker"] = "push" /\ pc'["worker"] = "pop" /\ queueData # <<>>
      /\ UNCHANGED <<queueData, callbackData, tick, accepted, finished, reported>>
      /\ UNCHANGED race
      /\ errorRace \in Nat /\ (errorRace > 0 => overlapped)
  BY Facts DEF WorkerPushed, WorkerTakesHead, ticking, Go, At, Threads,
               RaceInv, TypeOK, QueuesTypeOK
<1>2. PICK n \in 0 .. errorRace : \E y \in [1 .. n -> {Stale}] :
         \/ errorCallback' = Append(errorCallback, h) \o y /\ dropped' = dropped
         \/ /\ errorRace > 0
            /\ errorCallback' = errorCallback \o y
            /\ dropped' = dropped \cup {h}
  BY DEF WorkerPushed
<1>3. /\ UNCHANGED <<Waiting, Done>> /\ WorkerPushing /\ ~WorkerPushing'
      /\ n \in Nat
  BY <1>1 DEF Waiting, Done, Executed, WorkerPushing, At
<1>4. /\ errorCallback \in Seq(Entries) /\ h \in Entries /\ h \in Queries
      /\ h \notin Range(errorCallback)
      /\ tick = "error" => errorCallback # <<>>
      /\ OrderedRecords(errorCallback)
      /\ \A e \in Range(errorCallback) : e < h
  <2>1. h \in Queries /\ h \in Range(queueData) /\ h \in Int
    BY <1>1, Facts, QueuePopped, Numbered
  <2>2. Unpopped = queueData
    BY <1>1 DEF Unpopped, At
  <2>3. \A e \in Range(errorCallback) : e < h
    BY <2>1, <2>2, Facts DEF OrderInv
  <2>4. h \notin Range(errorCallback)
    BY <2>1, <2>3
  <2> QED BY <2>1, <2>3, <2>4, Facts, Numbered DEF OrderInv
<1>5. Failed = Records(Owed) \cup {h} /\ Failed' = Records(Owed)'
  BY <1>3 DEF Failed, Owed
<1> HIDE DEF h
<1>6. /\ Owed \in Seq(Entries) /\ OrderedRecords(Owed)
      /\ \A e \in Range(Owed) : e < h /\ h \notin Range(Owed)
  <2>1. errorCallback # <<>> =>
           /\ Tail(errorCallback) \in Seq(Entries)
           /\ Range(Tail(errorCallback)) \subseteq Range(errorCallback)
           /\ OrderedRecords(Tail(errorCallback))
    BY <1>4, RangePopped, RecordsPopped, Facts, Numbered
  <2> QED BY <1>4, <2>1 DEF Owed
<1>7. /\ O \in Seq(Entries) /\ OrderedRecords(O)
      /\ Records(O) = Records(Owed) \cup {h}
  <2>1. Range(O) = Range(Owed) \cup {h} /\ O \in Seq(Entries) /\ OrderedRecords(O)
    BY <1>4, <1>6, ErrorPushed
  <2> QED BY <1>4, <2>1 DEF Records
<1>8. ASSUME NEW y \in [1 .. n -> {Stale}],
             errorCallback' = Append(errorCallback, h) \o y, dropped' = dropped
      PROVE  UNCHANGED promised
  <2>1. Owed' = O \o y
    <3> DEFINE E == Append(errorCallback, h)
    <3>1. /\ E \in Seq(Entries) /\ E # <<>> /\ y \in Seq(Entries)
          /\ tick = "error" => Tail(E) = Append(Tail(errorCallback), h)
      BY <1>3, <1>4, <1>6, PushedPopped, PushedHead, RangePushed, SurplusPushed
    <3>2. Tail(E \o y) = Tail(E) \o y
      <4> HIDE DEF E, Entries
      <4> QED BY <3>1
    <3>3. CASE tick = "error"
      BY <1>1, <1>8, <3>1, <3>2, <3>3 DEF Owed
    <3>4. CASE tick # "error"
      BY <1>1, <1>8, <3>4 DEF Owed
    <3> QED BY <3>3, <3>4
  <2>2. Records(O \o y) = Records(O)
    <3> HIDE DEF O
    <3> QED BY <1>3, <1>7, SurplusPushed
  <2> QED BY <1>1, <1>3, <1>5, <1>7, <1>8, <2>1, <2>2 DEF promised, race
<1>9. ASSUME NEW y \in [1 .. n -> {Stale}], errorRace > 0,
             errorCallback' = errorCallback \o y, dropped' = dropped \cup {h}
      PROVE  Promise!LoseReport
  <2>1. Owed' = Owed \o y
    <3>1. y \in Seq(Entries)
      BY <1>3, <1>6, SurplusPushed
    <3>2. errorCallback # <<>> => Tail(errorCallback \o y) = Tail(errorCallback) \o y
      <4> HIDE DEF Entries
      <4> QED BY <1>4, <3>1
    <3>3. CASE tick = "error"
      BY <1>1, <1>4, <1>9, <3>2, <3>3 DEF Owed
    <3>4. CASE tick # "error"
      BY <1>1, <1>9, <3>4 DEF Owed
    <3> QED BY <3>3, <3>4
  <2>2. Records(Owed \o y) = Records(Owed)
    BY <1>3, <1>6, SurplusPushed
  <2>3. h \notin Records(Owed)
    BY <1>6 DEF Records
  <2>4. h \in Failed /\ Failed' = Failed \ {h}
    BY <1>5, <2>1, <2>2, <2>3
  <2> QED BY <1>1, <1>3, <1>9, <2>4 DEF Promise!LoseReport, Promise!race, race
<1> QED BY <1>2, <1>8, <1>9

LEMMA PopStutters ==
    ASSUME IInv, WorkerPop
    PROVE  UNCHANGED promised
<1>1. /\ pc["worker"] = "pop" /\ pc'["worker"] = "unlock"
      /\ queueData' = Tail(queueData)
      /\ UNCHANGED <<callbackData, errorCallback, tick>>
      /\ UNCHANGED <<accepted, finished, reported, dropped, race>>
  BY Facts DEF WorkerPop, ticking, history, Go, At, Threads
<1> QED BY <1>1 DEF promised, race, Waiting, Done, Failed, Executed, WorkerPushing, At

-----------------------------------------------------------------------------
\* The steps that change neither a queue nor the history.
Quiet ==
    \/ MysqlConnectNew \/ MysqlConnectAgain \/ MysqlReconnect \/ MysqlQuery
    \/ Statement \/ MysqlStoreResult \/ Command \/ MysqlPing
    \/ \E t \in Threads : ConnectInit(t) \/ ConnectOpen(t) \/ ConnectDone(t)
    \/ DisconnectClose \/ StoreResultDone \/ CommandDone \/ MysqlPingDone
    \/ WorkerLock \/ WorkerScan \/ WorkerPinged \/ WorkerExec
    \/ WorkerDrain \/ WorkerDrained \/ WorkerUnlock \/ Drop

LEMMA QuietStutters ==
    ASSUME IInv, Quiet
    PROVE  UNCHANGED promised
<1>1. /\ UNCHANGED <<queueData, callbackData, errorCallback, tick>>
      /\ UNCHANGED <<accepted, finished, reported, dropped, race>>
  BY DEF Quiet, queues, ticking, history,
         MysqlConnectNew, MysqlConnectAgain, MysqlReconnect, MysqlQuery,
         Statement, MysqlStoreResult, Command, MysqlPing, ConnectInit,
         ConnectOpen, ConnectDone, DisconnectClose, StoreResultDone,
         CommandDone, MysqlPingDone, WorkerLock, WorkerScan, WorkerPinged,
         WorkerExec, WorkerDrain, WorkerDrained, WorkerUnlock, Drop
<1>2. pc'["worker"] = pc["worker"]
      \/ (pc["worker"] \notin {"push", "pop"} /\ pc'["worker"] \notin {"push", "pop"})
  <2>1. CASE \/ MysqlConnectNew \/ MysqlConnectAgain \/ MysqlReconnect
             \/ MysqlQuery \/ Statement \/ MysqlStoreResult \/ Command
             \/ MysqlPing \/ DisconnectClose \/ StoreResultDone
             \/ CommandDone \/ MysqlPingDone \/ Drop
    BY <2>1, Facts
    DEF Go, Threads, MysqlConnectNew, MysqlConnectAgain, MysqlReconnect,
        MysqlQuery, Statement, MysqlStoreResult, Command, MysqlPing,
        DisconnectClose, StoreResultDone, CommandDone, MysqlPingDone, Drop
  <2>2. CASE \E t \in Threads : ConnectInit(t) \/ ConnectOpen(t) \/ ConnectDone(t)
    BY <2>2, Facts
    DEF Go, At, Threads, AfterConnect, ConnectInit, ConnectOpen, ConnectDone
  <2>3. CASE \/ WorkerLock \/ WorkerScan \/ WorkerPinged \/ WorkerExec
             \/ WorkerDrain \/ WorkerDrained \/ WorkerUnlock
    BY <2>3, Facts
    DEF Go, At, Threads, WorkerLock, WorkerScan, WorkerPinged, WorkerExec,
        WorkerDrain, WorkerDrained, WorkerUnlock
  <2> QED BY <2>1, <2>2, <2>3 DEF Quiet
<1> QED BY <1>1, <1>2, QuietStep

\* Every step of the plugin is a step of the promise, or none.
LEMMA PromiseStep ==
    ASSUME IInv, Next
    PROVE  Promise!Next \/ UNCHANGED promised
<1>1. CASE Quiet
  BY <1>1, QuietStutters
<1>2. CASE QueryPush
  BY <1>2, PushAccepts DEF Promise!Next
<1>3. CASE MysqlClose \/ DisconnectClear
  BY <1>3, ClearDrops DEF Promise!Next
<1>4. CASE MysqlCloseErase
  BY <1>4, EraseDrops DEF Promise!Next
<1>5. CASE StatementDone
  BY <1>5, StatementOverlaps DEF Promise!Next
<1>6. CASE TickError
  BY <1>6, ErrorReports DEF Promise!Next
<1>7. CASE TickErrorDone
  BY <1>7, ErrorDoneOverlaps DEF Promise!Next
<1>8. CASE TickFinish
  BY <1>8, FinishFinishes DEF Promise!Next
<1>9. CASE TickFinishDone
  BY <1>9, FinishDoneStutters
<1>10. CASE WorkerQueried
  BY <1>10, QueriedExecutes DEF Promise!Next
<1>11. CASE WorkerPushed
  BY <1>11, PushedKeepsOrLoses DEF Promise!Next
<1>12. CASE WorkerPop
  BY <1>12, PopStutters
<1> QED
  BY <1>1, <1>2, <1>3, <1>4, <1>5, <1>6, <1>7, <1>8, <1>9, <1>10, <1>11, <1>12
  DEF Next, Natives, NativeSteps, ProcessTick, WorkerSteps, Quiet, Threads

\* Nothing changes when the plugin stands still.
LEMMA PromiseRests ==
    ASSUME UNCHANGED vars
    PROVE  UNCHANGED promised
BY QuietStep DEF vars, queues, ticking, history

(***************************************************************************)
(* The plugin keeps the promise of QueryPromise.tla to a script, for any   *)
(* number of queries, statements and dropped connections: callbacks in the *)
(* order the queries were sent, one query's result at a time, none         *)
(* forgotten but those a close drops, and no error lost or told again      *)
(* unless the two threads changed errorCallback at once.                   *)
(***************************************************************************)
THEOREM ImplementsPromise == Spec => KeepsPromise
<1>1. Promise!Init /\ [][Promise!Next]_promised => KeepsPromise
  BY DEF KeepsPromise, Promise!Spec, Promise!vars, promised
<1>2. Init => Promise!Init
  BY PromiseInit
<1>3. IInv /\ [Next]_vars => [Promise!Next]_promised
  BY PromiseStep, PromiseRests
<1> QED
  BY <1>1, <1>2, <1>3, Inductive, PTL DEF Spec
=============================================================================
