-------------------------- MODULE QueryNoticeProofs --------------------------
(***************************************************************************)
(* Proofs about QueryNotice, for any scripts with any publics and any      *)
(* number of queries: the arguments reach the publics in the order the     *)
(* include declares, mysql_errno is that of the query called back,         *)
(* ProcessTick keeps its place among the scripts, and everyone is told of  *)
(* every query once.                                                       *)
(***************************************************************************)
EXTENDS QueryNotice, QueueLemmas, FiniteSetTheorems

Threaded == {q \in 1 .. Asked : asked[q] # "statement"}

\* The records as their native or the worker filled them.
NativeRecord(q) ==
    [id |-> q, query |-> Arg("query", q), result |-> Arg("result", q),
     extra |-> Arg("extra", q), callback |-> Callback(q)]

ErrorRecord(q, extra) ==
    [id |-> q, query |-> Arg("query", q), result |-> Result(q), extra |-> extra,
     callback |-> Callback(q), errorid |-> Arg("errorid", q),
     error |-> Arg("error", q)]

NativeRecords == {NativeRecord(q) : q \in Threaded}
ErrorRecordsOf(q) ==
    {ErrorRecord(q, extra) : extra \in {Garbage, MinusOne, Arg("extra", q)}}
AllErrorRecords == UNION {ErrorRecordsOf(q) : q \in 1 .. Asked}

\* A call of a public with its query's arguments as declared.
AsDeclared(c) ==
    /\ c.id \in 1 .. Asked
    /\ IF c.public = "OnQueryError"
       THEN /\ Len(c.args) = 7
            /\ <<c.args[1], c.args[2], c.args[3]>> =
                  <<Arg("errorid", c.id), Arg("error", c.id), Result(c.id)>>
            /\ <<c.args[5], c.args[6], c.args[7]>> =
                  <<Name(Callback(c.id)), Arg("query", c.id), Handle>>
       ELSE /\ c.public = Callback(c.id)
            /\ c.args = <<Arg("query", c.id), Result(c.id), Arg("extra", c.id),
                          Handle>>

Natives == {"mysql_query", "mysql_query_callback", "statement"}
AskedInv == asked \in Seq(Natives)
QueueInv == queueData \in Seq(NativeRecords)
CallbackInv == callbackData \in Seq(NativeRecords)
ErrorInv == errorCallback \in Seq(AllErrorRecords)
ToldInv == told \in Seq(Range(told)) /\ \A c \in Range(told) : AsDeclared(c)

\* The entries the worker and ProcessTick are at.
WorkerInv ==
    /\ worker \in {"idle", "failed", "pushed", "pop"}
    /\ worker # "idle" => queueData # <<>>

TickInv ==
    /\ tick.phase = "error" => errorCallback # <<>>
    /\ tick.phase = "finish" => callbackData # <<>>
    /\ tick.busy => tick.phase \in {"error", "finish"}

\* While a callback is owed the worker is past its query, and m_dwError with
\* it unless it has just pushed.
ErrnoInv ==
    /\ m_bQueryProcessing \in BOOLEAN /\ alone \in BOOLEAN
    /\ Len(callbackData) <= 1
    /\ callbackData # <<>> =>
          /\ m_bQueryProcessing /\ worker # "failed"
          /\ worker # "pushed" /\ alone => m_dwError = 0

NoticeInv ==
    /\ AskedInv /\ QueueInv /\ CallbackInv /\ ErrorInv /\ ToldInv
    /\ WorkerInv /\ TickInv /\ ErrnoInv

-----------------------------------------------------------------------------
\* A sequence, whatever is in it, and one entry more.
LEMMA OneMore ==
    ASSUME NEW s, s \in Seq(Range(s)), NEW e
    PROVE  /\ Append(s, e) \in Seq(Range(Append(s, e)))
           /\ Range(Append(s, e)) = Range(s) \cup {e}
<1> DEFINE S == Range(s) \cup {e}
<1>1. s \in Seq(S) /\ e \in S
  <2>1. Range(s) \subseteq S
    OBVIOUS
  <2>2. e \in S
    OBVIOUS
  <2> HIDE DEF S
  <2>3. s \in Seq(S)
    BY <2>1
  <2> QED BY <2>2, <2>3
<1>2. Append(s, e) \in Seq(S) /\ Range(Append(s, e)) = Range(s) \cup {e}
  <2> HIDE DEF S
  <2> QED BY <1>1, RangePushed
<1> QED BY <1>2

LEMMA Pushed1 ==
    ASSUME NEW S, NEW T, S \subseteq T, NEW s \in Seq(S), NEW e \in T
    PROVE  /\ Append(s, e) \in Seq(T) /\ Append(s, e) # <<>>
           /\ Len(Append(s, e)) = Len(s) + 1
<1>1. s \in Seq(T)
  OBVIOUS
<1>2. Append(s, e) \in Seq(T) /\ Len(Append(s, e)) = Len(s) + 1
  BY <1>1
<1> QED BY <1>1, <1>2, PushedHead

LEMMA Popped1 ==
    ASSUME NEW S, NEW s \in Seq(S), s # <<>>
    PROVE  /\ Tail(s) \in Seq(S) /\ Head(s) \in S
           /\ Len(Tail(s)) = Len(s) - 1 /\ Len(s) \in Nat
<1>1. Len(Tail(s)) = Len(s) - 1 /\ Len(s) \in Nat
  OBVIOUS
<1> QED BY <1>1, RangePopped

LEMMA LenZero ==
    ASSUME NEW S, NEW s \in Seq(S), Len(s) = 0
    PROVE  s = <<>>
OBVIOUS

\* What is said of a query stays true when another is asked.
AskMore == asked' = asked \/ \E n \in Natives : asked' = Append(asked, n)

LEMMA AskedKept ==
    ASSUME AskedInv, AskMore
    PROVE  /\ AskedInv'
           /\ Asked \in Nat
           /\ 1 .. Asked \subseteq 1 .. Asked'
           /\ \A q \in 1 .. Asked : asked'[q] = asked[q]
<1>1. CASE asked' = asked
  <2>1. Asked \in Nat
    BY DEF AskedInv, Asked
  <2> QED BY <1>1, <2>1 DEF AskedInv, Asked
<1>2. CASE \E n \in Natives : asked' = Append(asked, n)
  <2>1. PICK n \in Natives : asked' = Append(asked, n)
    BY <1>2
  <2>2. /\ asked' \in Seq(Natives) /\ Asked \in Nat /\ Asked' = Asked + 1
        /\ \A q \in 1 .. Asked : asked'[q] = asked[q]
    <3> HIDE DEF Natives
    <3> QED BY <2>1 DEF AskedInv, Asked
  <2> QED BY <2>2 DEF AskedInv, Natives
<1> QED BY <1>1, <1>2 DEF AskMore

LEMMA RecordsKept ==
    ASSUME AskedInv, AskMore
    PROVE  /\ NativeRecords \subseteq NativeRecords'
           /\ AllErrorRecords \subseteq AllErrorRecords'
           /\ \A c : AsDeclared(c) => AsDeclared(c)'
<1>1. /\ 1 .. Asked \subseteq 1 .. Asked'
      /\ \A q \in 1 .. Asked : asked'[q] = asked[q]
  BY AskedKept
<1>2. \A q \in 1 .. Asked : Callback(q)' = Callback(q) /\ Result(q)' = Result(q)
  BY <1>1 DEF Callback, Result
<1>3. NativeRecords \subseteq NativeRecords'
  <2>1. Threaded \subseteq Threaded' /\ Threaded \subseteq 1 .. Asked
    BY <1>1 DEF Threaded
  <2>2. \A q \in Threaded : NativeRecord(q)' = NativeRecord(q)
    BY <1>2, <2>1 DEF NativeRecord
  <2> QED BY <2>1, <2>2 DEF NativeRecords
<1>4. AllErrorRecords \subseteq AllErrorRecords'
  <2>1. \A q \in 1 .. Asked : \A extra : ErrorRecord(q, extra)' = ErrorRecord(q, extra)
    BY <1>2 DEF ErrorRecord
  <2>2. \A q \in 1 .. Asked : ErrorRecordsOf(q)' = ErrorRecordsOf(q)
    BY <2>1 DEF ErrorRecordsOf
  <2> QED BY <1>1, <2>2 DEF AllErrorRecords
<1>5. ASSUME NEW c, AsDeclared(c)
      PROVE  AsDeclared(c)'
  <2>1. /\ c.id \in 1 .. Asked /\ c.id \in 1 .. Asked'
        /\ Callback(c.id)' = Callback(c.id) /\ Result(c.id)' = Result(c.id)
    BY <1>1, <1>2, <1>5 DEF AsDeclared
  <2> QED BY <1>5, <2>1 DEF AsDeclared
<1> QED BY <1>3, <1>4, <1>5

\* Whatever is left alone stays as it was.
LEMMA PartsKept ==
    ASSUME AskedInv, AskMore
    PROVE  /\ QueueInv /\ UNCHANGED queueData => QueueInv'
           /\ CallbackInv /\ UNCHANGED callbackData => CallbackInv'
           /\ ErrorInv /\ UNCHANGED errorCallback => ErrorInv'
           /\ ToldInv /\ UNCHANGED told => ToldInv'
<1>1. \A S, T : S \subseteq T => Seq(S) \subseteq Seq(T)
  OBVIOUS
<1>2. /\ Seq(NativeRecords) \subseteq Seq(NativeRecords')
      /\ Seq(AllErrorRecords) \subseteq Seq(AllErrorRecords')
  BY <1>1, RecordsKept
<1>3. QueueInv /\ UNCHANGED queueData => QueueInv'
  BY <1>2 DEF QueueInv
<1>4. CallbackInv /\ UNCHANGED callbackData => CallbackInv'
  BY <1>2 DEF CallbackInv
<1>5. ErrorInv /\ UNCHANGED errorCallback => ErrorInv'
  BY <1>2 DEF ErrorInv
<1>6. ToldInv /\ UNCHANGED told => ToldInv'
  BY RecordsKept DEF ToldInv
<1> QED BY <1>3, <1>4, <1>5, <1>6

-----------------------------------------------------------------------------
LEMMA NoticeInitInv == NoticeInit => NoticeInv
<1> SUFFICES ASSUME NoticeInit PROVE NoticeInv
  OBVIOUS
<1>1. \A S : <<>> \in Seq(S)
  OBVIOUS
<1>2. AskedInv /\ QueueInv /\ CallbackInv /\ ErrorInv
  BY <1>1 DEF NoticeInit, AskedInv, QueueInv, CallbackInv, ErrorInv
<1>3. ToldInv
  BY <1>1, RangeEmpty DEF NoticeInit, ToldInv
<1>4. WorkerInv /\ TickInv
  BY DEF NoticeInit, WorkerInv, TickInv, NoTick
<1>5. ErrnoInv
  <2>1. callbackData = <<>> /\ Len(callbackData) <= 1
    BY DEF NoticeInit
  <2>2. m_bQueryProcessing = FALSE /\ alone = TRUE
    BY DEF NoticeInit
  <2> QED BY <2>1, <2>2 DEF ErrnoInv
<1> QED BY <1>2, <1>3, <1>4, <1>5 DEF NoticeInv

\* The natives that add a query to queueData.
LEMMA AskStep ==
    ASSUME NoticeInv, NEW n \in Natives, NEW r, Ask(n, r), n # "statement",
           r \in NativeRecords'
    PROVE  NoticeInv'
<1>1. AskedInv /\ AskMore
  BY DEF NoticeInv, Ask, AskMore
<1>2. AskedInv' /\ NativeRecords \subseteq NativeRecords'
  BY <1>1, AskedKept, RecordsKept
<1>3. CallbackInv' /\ ErrorInv' /\ ToldInv'
  BY <1>1, PartsKept DEF NoticeInv, Ask
<1>4. queueData' \in Seq(NativeRecords') /\ queueData' # <<>>
  <2> HIDE DEF NativeRecords
  <2> QED BY <1>2, Pushed1 DEF NoticeInv, QueueInv, Ask
<1>5. WorkerInv' /\ TickInv' /\ ErrnoInv'
  BY <1>4 DEF NoticeInv, WorkerInv, TickInv, ErrnoInv, Ask
<1> QED BY <1>2, <1>3, <1>4, <1>5 DEF NoticeInv, QueueInv

LEMMA LastAskedNat ==
    ASSUME AskedInv
    PROVE  Asked + 1 \in Nat
<1>1. Asked \in Nat
  BY DEF AskedInv, Asked
<1> QED BY <1>1

LEMMA LastAsked ==
    ASSUME AskedInv, NEW n \in Natives, asked' = Append(asked, n)
    PROVE  /\ Asked' = Asked + 1 /\ Asked \in Nat
           /\ Asked + 1 \in 1 .. Asked'
           /\ asked'[Asked + 1] = n
<1>1. /\ Asked' = Asked + 1 /\ Asked \in Nat /\ asked'[Asked + 1] = n
  <2> HIDE DEF Natives
  <2> QED BY DEF AskedInv, Asked
<1> QED BY <1>1

LEMMA MysqlQueryStep ==
    ASSUME NoticeInv, MysqlQuery
    PROVE  NoticeInv'
<1>q. PICK q \in Nat : q = Asked + 1
  BY LastAskedNat DEF NoticeInv
<1> DEFINE r == OldQuery(q, <<Arg("query", q), Arg("result", q), Arg("extra", q),
                              Handle>>)
<1>1. Ask("mysql_query", r)
  BY <1>q DEF MysqlQuery
<1>2. q \in 1 .. Asked' /\ asked'[q] = "mysql_query"
  BY <1>q, <1>1, LastAsked DEF NoticeInv, Ask, Natives
<1>3. r = NativeRecord(q)'
  <2>1. Callback(q)' = "OnQueryFinish"
    BY <1>2 DEF Callback
  <2> QED BY <2>1 DEF NativeRecord, OldQuery
<1>4. r \in NativeRecords'
  <2>1. q \in Threaded'
    BY <1>2 DEF Threaded
  <2> QED BY <1>3, <2>1 DEF NativeRecords
<1> HIDE DEF r
<1> QED BY <1>1, <1>4, AskStep DEF Natives

LEMMA MysqlQueryCallbackStep ==
    ASSUME NoticeInv, MysqlQueryCallback
    PROVE  NoticeInv'
<1>q. PICK q \in Nat : q = Asked + 1
  BY LastAskedNat DEF NoticeInv
<1> DEFINE r == Query(q, <<Arg("result", q), Arg("query", q), "OnCustom",
                           Arg("extra", q), Handle>>)
<1>1. Ask("mysql_query_callback", r)
  BY <1>q DEF MysqlQueryCallback
<1>2. q \in 1 .. Asked' /\ asked'[q] = "mysql_query_callback"
  BY <1>q, <1>1, LastAsked DEF NoticeInv, Ask, Natives
<1>3. r = NativeRecord(q)'
  <2>1. Callback(q)' = "OnCustom"
    BY <1>2 DEF Callback
  <2> QED BY <2>1 DEF NativeRecord, Query
<1>4. r \in NativeRecords'
  <2>1. q \in Threaded'
    BY <1>2 DEF Threaded
  <2> QED BY <1>3, <2>1 DEF NativeRecords
<1> HIDE DEF r
<1> QED BY <1>1, <1>4, AskStep DEF Natives

LEMMA StatementStep ==
    ASSUME NoticeInv, Statement
    PROVE  NoticeInv'
<1>q. PICK q \in Nat : q = Asked + 1
  BY LastAskedNat DEF NoticeInv
<1> DEFINE r == [id |-> q, query |-> Arg("query", q), errorid |-> Arg("errorid", q),
                 result |-> MinusOne, callback |-> "NULL", extra |-> MinusOne,
                 error |-> Arg("error", q)]
<1>1. AskedInv /\ AskMore /\ asked' = Append(asked, "statement")
  BY DEF NoticeInv, Statement, AskMore, Natives
<1>2. q \in 1 .. Asked' /\ asked'[q] = "statement"
  BY <1>q, <1>1, LastAsked DEF Natives
<1>3. r \in AllErrorRecords'
  <2>1. Callback(q)' = "NULL" /\ Result(q)' = MinusOne
    BY <1>2 DEF Callback, Result
  <2>2. r = ErrorRecord(q, MinusOne)'
    BY <2>1 DEF ErrorRecord
  <2>3. r \in ErrorRecordsOf(q)'
    BY <2>2 DEF ErrorRecordsOf
  <2> QED BY <1>2, <2>3 DEF AllErrorRecords
<1>4. AskedInv' /\ QueueInv' /\ CallbackInv' /\ ToldInv'
  BY <1>1, AskedKept, PartsKept DEF NoticeInv, Statement
<1>5. errorCallback' = Append(errorCallback, r)
  BY <1>q DEF Statement
<1>6. errorCallback' \in Seq(AllErrorRecords') /\ errorCallback' # <<>>
  <2>1. AllErrorRecords \subseteq AllErrorRecords'
    BY <1>1, RecordsKept
  <2> HIDE DEF AllErrorRecords, r
  <2> QED BY <1>3, <1>5, <2>1, Pushed1 DEF NoticeInv, ErrorInv
<1>7. WorkerInv' /\ TickInv' /\ ErrnoInv'
  BY <1>6 DEF NoticeInv, WorkerInv, TickInv, ErrnoInv, Statement
<1> QED BY <1>4, <1>6, <1>7 DEF NoticeInv, ErrorInv

-----------------------------------------------------------------------------
\* A step that only moves the scripts or the iterator between them.
LEMMA ScriptsStep ==
    ASSUME NoticeInv, NEW s \in Scripts, AmxLoad(s) \/ AmxUnload(s)
    PROVE  NoticeInv'
<1>1. UNCHANGED <<queueData, callbackData, errorCallback, told, asked, worker, tick,
                  m_bQueryProcessing, m_dwError, alone>>
  BY DEF AmxLoad, AmxUnload, queues
<1>2. AskedInv /\ AskMore
  BY <1>1 DEF NoticeInv, AskMore
<1>3. AskedInv' /\ QueueInv' /\ CallbackInv' /\ ErrorInv' /\ ToldInv'
  BY <1>1, <1>2, AskedKept, PartsKept DEF NoticeInv
<1>4. WorkerInv' /\ TickInv' /\ ErrnoInv'
  BY <1>1 DEF NoticeInv, WorkerInv, TickInv, ErrnoInv
<1> QED BY <1>3, <1>4 DEF NoticeInv

\* A native, or the worker's Connect, that writes m_dwError.
LEMMA NativeErrnoStep ==
    ASSUME NoticeInv, NativeErrno
    PROVE  NoticeInv'
<1>1. UNCHANGED <<queueData, callbackData, errorCallback, told, asked, worker, tick,
                  m_bQueryProcessing>>
  BY DEF NativeErrno, queues
<1>2. AskedInv /\ AskMore
  BY <1>1 DEF NoticeInv, AskMore
<1>3. AskedInv' /\ QueueInv' /\ CallbackInv' /\ ErrorInv' /\ ToldInv'
  BY <1>1, <1>2, AskedKept, PartsKept DEF NoticeInv
<1>4. WorkerInv' /\ TickInv'
  BY <1>1 DEF NoticeInv, WorkerInv, TickInv
<1>5. ErrnoInv'
  <2>1. alone' = (alone /\ m_dwError' = 0)
    BY DEF NativeErrno
  <2> QED BY <1>1, <2>1 DEF NoticeInv, ErrnoInv
<1> QED BY <1>3, <1>4, <1>5 DEF NoticeInv

LEMMA WorkerReconnectFailsStep ==
    ASSUME NoticeInv, WorkerReconnectFails, UNCHANGED <<asked, told, tick>>
    PROVE  NoticeInv'
<1>1. UNCHANGED <<queueData, callbackData, errorCallback, worker,
                  m_bQueryProcessing, alone>>
  BY DEF WorkerReconnectFails, queues
<1>2. AskedInv /\ AskMore
  BY DEF NoticeInv, AskMore
<1>3. AskedInv' /\ QueueInv' /\ CallbackInv' /\ ErrorInv' /\ ToldInv'
  BY <1>1, <1>2, AskedKept, PartsKept DEF NoticeInv
<1>4. WorkerInv' /\ TickInv'
  BY <1>1 DEF NoticeInv, WorkerInv, TickInv
<1>5. ErrnoInv'
  <2>1. callbackData = <<>>
    BY DEF NoticeInv, ErrnoInv, WorkerReconnectFails
  <2> QED BY <1>1, <2>1 DEF NoticeInv, ErrnoInv
<1> QED BY <1>3, <1>4, <1>5 DEF NoticeInv

LEMMA WorkerSucceedsStep ==
    ASSUME NoticeInv, WorkerSucceeds, UNCHANGED <<asked, told, tick>>
    PROVE  NoticeInv'
<1>1. AskedInv /\ AskMore
  BY DEF NoticeInv, AskMore
<1>2. AskedInv' /\ QueueInv' /\ ErrorInv' /\ ToldInv'
  BY <1>1, AskedKept, PartsKept DEF NoticeInv, WorkerSucceeds
<1>3. callbackData = <<>> /\ queueData # <<>>
  BY DEF NoticeInv, ErrnoInv, WorkerSucceeds
<1>4. /\ callbackData' \in Seq(NativeRecords') /\ callbackData' # <<>>
      /\ Len(callbackData') = 1
  <2>1. NativeRecords \subseteq NativeRecords'
    BY <1>1, RecordsKept
  <2> HIDE DEF NativeRecords
  <2>2. Head(queueData) \in NativeRecords'
    BY <1>3, <2>1, Popped1 DEF NoticeInv, QueueInv
  <2>3. callbackData \in Seq(NativeRecords) /\ Len(callbackData) = 0
    BY <1>3
  <2> QED BY <2>1, <2>2, <2>3, Pushed1 DEF WorkerSucceeds
<1>5. WorkerInv'
  BY <1>3 DEF NoticeInv, WorkerInv, WorkerSucceeds
<1>6. TickInv'
  BY <1>4 DEF NoticeInv, TickInv, WorkerSucceeds
<1>7. ErrnoInv'
  <2>1. Len(callbackData') <= 1
    BY <1>4
  <2>2. m_bQueryProcessing' = TRUE /\ alone' \in BOOLEAN
    BY DEF NoticeInv, ErrnoInv, WorkerSucceeds
  <2>3. worker' = "pushed"
    BY DEF WorkerSucceeds
  <2> QED BY <2>1, <2>2, <2>3 DEF ErrnoInv
<1> QED BY <1>2, <1>4, <1>5, <1>6, <1>7 DEF NoticeInv, CallbackInv

LEMMA WorkerClearsErrorStep ==
    ASSUME NoticeInv, WorkerClearsError, UNCHANGED <<asked, told, tick>>
    PROVE  NoticeInv'
<1>1. AskedInv /\ AskMore
  BY DEF NoticeInv, AskMore
<1>2. AskedInv' /\ QueueInv' /\ CallbackInv' /\ ErrorInv' /\ ToldInv'
  BY <1>1, AskedKept, PartsKept DEF NoticeInv, WorkerClearsError, queues
<1>3. WorkerInv' /\ TickInv'
  BY DEF NoticeInv, WorkerInv, TickInv, WorkerClearsError, queues
<1>4. ErrnoInv'
  BY DEF NoticeInv, ErrnoInv, WorkerClearsError, ErrorCleared, queues
<1> QED BY <1>2, <1>3, <1>4 DEF NoticeInv

LEMMA WorkerFailsStep ==
    ASSUME NoticeInv, WorkerFails, UNCHANGED <<asked, told, tick>>
    PROVE  NoticeInv'
<1>1. AskedInv /\ AskMore
  BY DEF NoticeInv, AskMore
<1>2. AskedInv' /\ QueueInv' /\ CallbackInv' /\ ErrorInv' /\ ToldInv'
  BY <1>1, AskedKept, PartsKept DEF NoticeInv, WorkerFails, queues
<1>3. WorkerInv' /\ TickInv'
  BY DEF NoticeInv, WorkerInv, TickInv, WorkerFails, queues
<1>4. ErrnoInv'
  <2>1. callbackData = <<>> /\ callbackData' = callbackData
    BY DEF NoticeInv, ErrnoInv, WorkerFails, queues
  <2>2. m_bQueryProcessing' = TRUE /\ alone' \in BOOLEAN /\ Len(callbackData') <= 1
    BY DEF NoticeInv, ErrnoInv, WorkerFails, queues
  <2> QED BY <2>1, <2>2 DEF ErrnoInv
<1> QED BY <1>2, <1>3, <1>4 DEF NoticeInv

LEMMA WorkerReportsStep ==
    ASSUME NoticeInv, WorkerReports, UNCHANGED <<asked, told, tick>>
    PROVE  NoticeInv'
<1>1. AskedInv /\ AskMore
  BY DEF NoticeInv, AskMore
<1>2. AskedInv' /\ QueueInv' /\ CallbackInv' /\ ToldInv'
  BY <1>1, AskedKept, PartsKept DEF NoticeInv, WorkerReports
<1>3. queueData # <<>> /\ Head(queueData) \in NativeRecords
  <2>1. queueData # <<>>
    BY DEF NoticeInv, WorkerInv, WorkerReports
  <2> HIDE DEF NativeRecords
  <2> QED BY <2>1, Popped1 DEF NoticeInv, QueueInv
<1>4. PICK q \in Threaded : Head(queueData) = NativeRecord(q)
  BY <1>3 DEF NativeRecords
<1>5. PICK extra \in {Garbage, Head(queueData).extra} :
         errorCallback' = Append(errorCallback, ErrorInfo(Head(queueData), extra))
  BY DEF WorkerReports
<1>6. /\ Head(queueData).id = q /\ Head(queueData).query = Arg("query", q)
      /\ Head(queueData).result = Arg("result", q)
      /\ Head(queueData).extra = Arg("extra", q)
      /\ Head(queueData).callback = Callback(q)
  BY <1>4 DEF NativeRecord
<1>7. Result(q) = Arg("result", q) /\ q \in 1 .. Asked
  BY DEF Result, Threaded
<1>8. ErrorInfo(Head(queueData), extra) = ErrorRecord(q, extra)
  BY <1>6, <1>7 DEF ErrorInfo, ErrorRecord
<1>9. ErrorRecord(q, extra) \in AllErrorRecords
  <2>1. extra \in {Garbage, MinusOne, Arg("extra", q)}
    BY <1>5, <1>6
  <2>2. ErrorRecord(q, extra) \in ErrorRecordsOf(q)
    BY <2>1 DEF ErrorRecordsOf
  <2> QED BY <1>7, <2>2 DEF AllErrorRecords
<1>10. errorCallback' \in Seq(AllErrorRecords') /\ errorCallback' # <<>>
  <2>1. AllErrorRecords \subseteq AllErrorRecords'
    BY <1>1, RecordsKept
  <2> DEFINE e == ErrorRecord(q, extra)
  <2>2. e \in AllErrorRecords' /\ errorCallback' = Append(errorCallback, e)
    BY <1>5, <1>8, <1>9, <2>1
  <2> HIDE DEF e, AllErrorRecords
  <2> QED BY <2>1, <2>2, Pushed1 DEF NoticeInv, ErrorInv
<1>11. WorkerInv' /\ TickInv'
  BY <1>3, <1>10 DEF NoticeInv, WorkerInv, TickInv, WorkerReports
<1>12. ErrnoInv'
  <2>1. callbackData = <<>> /\ callbackData' = callbackData
    BY DEF NoticeInv, ErrnoInv, WorkerReports
  <2>2. m_bQueryProcessing' = FALSE /\ alone' \in BOOLEAN /\ Len(callbackData') <= 1
    BY DEF NoticeInv, ErrnoInv, WorkerReports
  <2> QED BY <2>1, <2>2 DEF ErrnoInv
<1> QED BY <1>2, <1>10, <1>11, <1>12 DEF NoticeInv, ErrorInv

LEMMA WorkerPopStep ==
    ASSUME NoticeInv, WorkerPop, UNCHANGED <<asked, told, tick>>
    PROVE  NoticeInv'
<1>1. AskedInv /\ AskMore
  BY DEF NoticeInv, AskMore
<1>2. AskedInv' /\ CallbackInv' /\ ErrorInv' /\ ToldInv'
  BY <1>1, AskedKept, PartsKept DEF NoticeInv, WorkerPop
<1>3. queueData' \in Seq(NativeRecords')
  <2>1. queueData # <<>>
    BY DEF NoticeInv, WorkerInv, WorkerPop
  <2>2. \A S, T : S \subseteq T => Seq(S) \subseteq Seq(T)
    OBVIOUS
  <2>3. NativeRecords \subseteq NativeRecords'
    BY <1>1, RecordsKept
  <2> HIDE DEF NativeRecords
  <2>4. queueData' \in Seq(NativeRecords)
    BY <2>1, Popped1 DEF NoticeInv, QueueInv, WorkerPop
  <2> QED BY <2>2, <2>3, <2>4
<1>4. WorkerInv' /\ TickInv'
  BY DEF NoticeInv, WorkerInv, TickInv, WorkerPop
<1>5. ErrnoInv'
  BY DEF NoticeInv, ErrnoInv, WorkerPop
<1> QED BY <1>2, <1>3, <1>4, <1>5 DEF NoticeInv, QueueInv

-----------------------------------------------------------------------------
\* A step of ProcessTick that calls nobody and pops nothing.
LEMMA TickMoves ==
    ASSUME NoticeInv, TickInv',
           UNCHANGED <<queueData, callbackData, errorCallback, told, asked, worker,
                       m_bQueryProcessing, m_dwError, alone>>
    PROVE  NoticeInv'
<1>1. AskedInv /\ AskMore
  BY DEF NoticeInv, AskMore
<1>2. AskedInv' /\ QueueInv' /\ CallbackInv' /\ ErrorInv' /\ ToldInv'
  BY <1>1, AskedKept, PartsKept DEF NoticeInv
<1>3. WorkerInv' /\ ErrnoInv'
  BY DEF NoticeInv, WorkerInv, ErrnoInv
<1> QED BY <1>2, <1>3 DEF NoticeInv

TickFrame == UNCHANGED <<m_dwError, worker, asked, alone>>

LEMMA TickMovesStep ==
    ASSUME NoticeInv, TickFrame, TickError \/ TickFinish \/ TickReturn
    PROVE  NoticeInv'
<1>1. UNCHANGED <<queueData, callbackData, errorCallback, told, asked, worker,
                  m_bQueryProcessing, m_dwError, alone>>
  BY DEF TickFrame, TickError, TickFinish, TickReturn, queues
<1>2. TickInv'
  <2>1. CASE TickError
    BY <1>1, <2>1 DEF TickError, TickInv, Goto
  <2>2. CASE TickFinish
    BY <1>1, <2>2 DEF TickFinish, TickInv, Goto, NoTick
  <2>3. CASE TickReturn
    BY <1>1, <2>3 DEF TickReturn, TickInv, Goto, NoticeInv
  <2> QED BY <2>1, <2>2, <2>3
<1> QED BY <1>1, <1>2, TickMoves

LEMMA TickErrorDoneStep ==
    ASSUME NoticeInv, TickFrame, TickErrorDone, UNCHANGED told
    PROVE  NoticeInv'
<1>1. AskedInv /\ AskMore
  BY DEF NoticeInv, AskMore, TickFrame
<1>2. AskedInv' /\ QueueInv' /\ CallbackInv' /\ ToldInv'
  BY <1>1, AskedKept, PartsKept DEF NoticeInv, TickErrorDone
<1>3. errorCallback' \in Seq(AllErrorRecords')
  <2>1. errorCallback # <<>>
    BY DEF NoticeInv, TickInv, TickErrorDone
  <2>2. \A S, T : S \subseteq T => Seq(S) \subseteq Seq(T)
    OBVIOUS
  <2>3. AllErrorRecords \subseteq AllErrorRecords'
    BY <1>1, RecordsKept
  <2> HIDE DEF AllErrorRecords
  <2>4. errorCallback' \in Seq(AllErrorRecords)
    BY <2>1, Popped1 DEF NoticeInv, ErrorInv, TickErrorDone
  <2> QED BY <2>2, <2>3, <2>4
<1>4. TickInv'
  BY DEF TickInv, TickErrorDone, Goto
<1>5. WorkerInv' /\ ErrnoInv'
  BY DEF NoticeInv, WorkerInv, ErrnoInv, TickFrame, TickErrorDone
<1> QED BY <1>2, <1>3, <1>4, <1>5 DEF NoticeInv, ErrorInv

LEMMA TickFinishDoneStep ==
    ASSUME NoticeInv, TickFrame, TickFinishDone, UNCHANGED told
    PROVE  NoticeInv'
<1>1. AskedInv /\ AskMore
  BY DEF NoticeInv, AskMore, TickFrame
<1>2. AskedInv' /\ QueueInv' /\ ErrorInv' /\ ToldInv'
  BY <1>1, AskedKept, PartsKept DEF NoticeInv, TickFinishDone
<1>3. callbackData' = <<>>
  <2>1. callbackData # <<>>
    BY DEF NoticeInv, TickInv, TickFinishDone
  <2> HIDE DEF NativeRecords
  <2>2. /\ Tail(callbackData) \in Seq(NativeRecords)
        /\ Len(Tail(callbackData)) = Len(callbackData) - 1
        /\ Len(callbackData) \in Nat
    BY <2>1, Popped1 DEF NoticeInv, CallbackInv
  <2>3. Len(callbackData) <= 1
    BY DEF NoticeInv, ErrnoInv
  <2>4. Len(Tail(callbackData)) = 0
    BY <2>2, <2>3
  <2>5. Tail(callbackData) = <<>>
    BY <2>2, <2>4, LenZero
  <2> QED BY <2>5 DEF TickFinishDone
<1>4. CallbackInv'
  <2>1. \A S : <<>> \in Seq(S)
    OBVIOUS
  <2> QED BY <1>3, <2>1 DEF CallbackInv
<1>5. TickInv'
  BY DEF TickInv, TickFinishDone, NoTick
<1>6. WorkerInv'
  BY DEF NoticeInv, WorkerInv, TickFrame, TickFinishDone
<1>7. ErrnoInv'
  <2>1. m_bQueryProcessing' = FALSE /\ alone' \in BOOLEAN
    BY DEF NoticeInv, ErrnoInv, TickFrame, TickFinishDone
  <2>2. Len(callbackData') <= 1
    BY <1>3
  <2> QED BY <1>3, <2>1, <2>2 DEF ErrnoInv
<1> QED BY <1>2, <1>4, <1>5, <1>6, <1>7 DEF NoticeInv

\* What is told of an entry that waits.
Call == [amx |-> tick.amx, id |-> Entry.id, public |-> Public, args |-> Reverse(Stack)]

LEMMA ErrorDeclared ==
    ASSUME NoticeInv, tick.phase = "error"
    PROVE  AsDeclared(Call)
<1>1. Head(errorCallback) \in AllErrorRecords
  <2>1. errorCallback # <<>>
    BY DEF NoticeInv, TickInv
  <2> HIDE DEF AllErrorRecords
  <2> QED BY <2>1, Popped1 DEF NoticeInv, ErrorInv
<1>2. PICK q \in 1 .. Asked : Head(errorCallback) \in ErrorRecordsOf(q)
  BY <1>1 DEF AllErrorRecords
<1>3. PICK extra : Head(errorCallback) = ErrorRecord(q, extra)
  BY <1>2 DEF ErrorRecordsOf
<1>4. Entry = ErrorRecord(q, extra) /\ Public = "OnQueryError"
  BY <1>3 DEF Entry, Public
<1> DEFINE stack == <<Handle, Arg("query", q), Name(Callback(q)), extra, Result(q),
                      Arg("error", q), Arg("errorid", q)>>
<1>5. Stack = stack
  <2>1. Stack = ErrorPushed(ErrorRecord(q, extra))
    BY <1>4 DEF Stack
  <2> QED BY <2>1 DEF ErrorPushed, ErrorRecord
<1>6. Reverse(stack) = <<Arg("errorid", q), Arg("error", q), Result(q), extra,
                         Name(Callback(q)), Arg("query", q), Handle>>
  BY DEF Reverse
<1>7. /\ Call.id = q /\ Call.public = "OnQueryError"
      /\ Call.args = <<Arg("errorid", q), Arg("error", q), Result(q), extra,
                       Name(Callback(q)), Arg("query", q), Handle>>
  BY <1>4, <1>5, <1>6 DEF Call, ErrorRecord
<1> HIDE DEF Call
<1> QED BY <1>7 DEF AsDeclared

LEMMA FinishDeclared ==
    ASSUME NoticeInv, tick.phase = "finish"
    PROVE  AsDeclared(Call)
<1>1. Head(callbackData) \in NativeRecords
  <2>1. callbackData # <<>>
    BY DEF NoticeInv, TickInv
  <2> HIDE DEF NativeRecords
  <2> QED BY <2>1, Popped1 DEF NoticeInv, CallbackInv
<1>2. PICK q \in Threaded : Head(callbackData) = NativeRecord(q)
  BY <1>1 DEF NativeRecords
<1>3. Entry = NativeRecord(q) /\ Public = Callback(q)
  BY <1>2 DEF Entry, Public, NativeRecord
<1>4. Result(q) = Arg("result", q) /\ q \in 1 .. Asked
  BY DEF Result, Threaded
<1> DEFINE stack == <<Handle, Arg("extra", q), Arg("result", q), Arg("query", q)>>
<1>5. Stack = stack
  <2>1. Stack = Pushed(NativeRecord(q))
    BY <1>3 DEF Stack
  <2> QED BY <2>1 DEF Pushed, NativeRecord
<1>6. Reverse(stack) = <<Arg("query", q), Arg("result", q), Arg("extra", q), Handle>>
  BY DEF Reverse
<1>7. Callback(q) # "OnQueryError"
  <2>1. asked[q] \in Natives
    BY <1>4 DEF NoticeInv, AskedInv, Asked
  <2> QED BY <2>1 DEF Callback, Natives
<1>8. /\ Call.id = q /\ Call.public = Callback(q)
      /\ Call.args = <<Arg("query", q), Result(q), Arg("extra", q), Handle>>
  BY <1>3, <1>4, <1>5, <1>6 DEF Call, NativeRecord
<1> HIDE DEF Call
<1> QED BY <1>4, <1>7, <1>8 DEF AsDeclared

LEMMA TickCallStep ==
    ASSUME NoticeInv, TickFrame, TickCall
    PROVE  NoticeInv'
<1>1. /\ tick.phase \in {"error", "finish"} /\ tick'.phase = tick.phase
      /\ UNCHANGED <<queueData, callbackData, errorCallback, m_bQueryProcessing>>
  BY DEF TickCall, Goto, queues
<1>2. UNCHANGED <<worker, asked, m_dwError, alone>>
  BY DEF TickFrame
<1>3. TickInv'
  BY <1>1 DEF NoticeInv, TickInv
<1>4. CASE UNCHANGED told
  BY <1>1, <1>2, <1>3, <1>4, TickMoves
<1>5. CASE told' = Append(told, Call)
  <2>1. AskedInv /\ AskMore
    BY <1>2 DEF NoticeInv, AskMore
  <2>2. AskedInv' /\ QueueInv' /\ CallbackInv' /\ ErrorInv'
    BY <1>1, <2>1, AskedKept, PartsKept DEF NoticeInv
  <2>3. WorkerInv' /\ ErrnoInv'
    BY <1>1, <1>2 DEF NoticeInv, WorkerInv, ErrnoInv
  <2>4. AsDeclared(Call)
    BY <1>1, ErrorDeclared, FinishDeclared
  <2>5. \A c \in Range(told) \cup {Call} : AsDeclared(c)
    BY <2>4 DEF NoticeInv, ToldInv
  <2>6. told' \in Seq(Range(told')) /\ Range(told') = Range(told) \cup {Call}
    <3> HIDE DEF Call
    <3> QED BY <1>5, OneMore DEF NoticeInv, ToldInv
  <2>7. \A c : AsDeclared(c) => AsDeclared(c)'
    BY <2>1, RecordsKept
  <2>8. ToldInv'
    <3>1. \A c \in Range(told') : AsDeclared(c)
      BY <2>5, <2>6
    <3> QED BY <2>6, <2>7, <3>1 DEF ToldInv
  <2> QED BY <1>3, <2>2, <2>3, <2>8 DEF NoticeInv
<1> QED BY <1>4, <1>5 DEF TickCall, Call

-----------------------------------------------------------------------------
LEMMA NoticeRests == NoticeInv /\ UNCHANGED vars => NoticeInv'
<1> SUFFICES ASSUME NoticeInv, UNCHANGED vars PROVE NoticeInv'
  OBVIOUS
<1>1. UNCHANGED <<queueData, callbackData, errorCallback, told, asked, worker, tick,
                  m_bQueryProcessing, m_dwError, alone>>
  BY DEF vars, queues, history
<1>2. TickInv'
  BY <1>1 DEF NoticeInv, TickInv
<1> QED BY <1>1, <1>2, TickMoves

LEMMA NoticeStep == NoticeInv /\ NoticeNext => NoticeInv'
<1> SUFFICES ASSUME NoticeInv, NoticeNext PROVE NoticeInv'
  OBVIOUS
<1>1. CASE MysqlQuery
  BY <1>1, MysqlQueryStep
<1>2. CASE MysqlQueryCallback
  BY <1>2, MysqlQueryCallbackStep
<1>3. CASE Statement
  BY <1>3, StatementStep
<1>4. CASE \E s \in Scripts : AmxLoad(s) \/ AmxUnload(s)
  BY <1>4, ScriptsStep
<1>5. CASE ProcessTick
  <2>1. TickFrame
    BY <1>5 DEF ProcessTick, TickFrame
  <2>2. CASE TickError \/ TickFinish \/ TickReturn
    BY <2>1, <2>2, TickMovesStep
  <2>3. CASE TickCall
    BY <2>1, <2>3, TickCallStep
  <2>4. CASE TickErrorDone
    BY <2>1, <2>4, TickErrorDoneStep DEF TickErrorDone
  <2>5. CASE TickFinishDone
    BY <2>1, <2>5, TickFinishDoneStep DEF TickFinishDone
  <2> QED BY <1>5, <2>2, <2>3, <2>4, <2>5 DEF ProcessTick
<1>6. CASE ProcessQueryThread
  <2>1. UNCHANGED <<asked, told, tick>>
    BY <1>6 DEF ProcessQueryThread
  <2> QED BY <1>6, <2>1, WorkerReconnectFailsStep, WorkerSucceedsStep,
             WorkerClearsErrorStep, WorkerFailsStep, WorkerReportsStep, WorkerPopStep DEF ProcessQueryThread
<1>7. CASE NativeErrno
  BY <1>7, NativeErrnoStep
<1> QED BY <1>1, <1>2, <1>3, <1>4, <1>5, <1>6, <1>7 DEF NoticeNext

(***************************************************************************)
(* NoticeInv holds in every state: each record in a queue is that of one   *)
(* query, and while a callback is owed the worker fails at no other.       *)
(***************************************************************************)
THEOREM NoticeInductive == NoticeSpec => []NoticeInv
<1>1. NoticeInv /\ [NoticeNext]_vars => NoticeInv'
  BY NoticeStep, NoticeRests
<1> QED BY <1>1, NoticeInitInv, PTL DEF NoticeSpec

(***************************************************************************)
(* Every public gets its own query's arguments in the declared order,      *)
(* whatever scripts come and go.                                           *)
(***************************************************************************)
THEOREM ArgumentsInOrder == NoticeSpec => []ArgumentsAsDeclared
<1>1. NoticeInv => ArgumentsAsDeclared
  <2> SUFFICES ASSUME NoticeInv, NEW i \in DOMAIN told
               PROVE  LET q == told[i].id  args == told[i].args IN
                      IF told[i].public = "OnQueryError"
                      THEN /\ Len(args) = 7
                           /\ <<args[1], args[2], args[3]>> =
                                 <<Arg("errorid", q), Arg("error", q), Result(q)>>
                           /\ <<args[5], args[6], args[7]>> =
                                 <<Name(Callback(q)), Arg("query", q), Handle>>
                      ELSE /\ told[i].public = Callback(q)
                           /\ args = <<Arg("query", q), Result(q),
                                       Arg("extra", q), Handle>>
    BY DEF ArgumentsAsDeclared
  <2>1. told[i] \in Range(told)
    BY DEF Range
  <2>2. AsDeclared(told[i])
    BY <2>1 DEF NoticeInv, ToldInv
  <2> QED BY <2>2 DEF AsDeclared
<1> QED BY <1>1, NoticeInductive, PTL

(***************************************************************************)
(* In the callback of a finished query mysql_errno gives no earlier        *)
(* query's error number.                                                   *)
(***************************************************************************)
THEOREM ErrnoIsOwn == NoticeSpec => []ErrnoOfCallback
<1>1. NoticeInv => ErrnoOfCallback
  BY DEF NoticeInv, TickInv, ErrnoInv, ErrnoOfCallback
<1> QED BY <1>1, NoticeInductive, PTL

-----------------------------------------------------------------------------
(***************************************************************************)
(* Types.  What NoticeInv says of the records gives those of the queues.   *)
(***************************************************************************)
ScriptTypes == p_Amx \in Seq(Scripts) /\ loaded \in SUBSET Scripts /\ early \in BOOLEAN

FlagTypes ==
    /\ m_bQueryProcessing \in BOOLEAN /\ alone \in BOOLEAN /\ fault \in BOOLEAN
    /\ m_dwError \in 0 .. MaxQueries
    /\ worker \in {"idle", "failed", "pushed", "pop"}

TickTypes == tick \in [phase : {"none", "error", "then", "finish"},
                       amx : Scripts \cup {End}, busy : BOOLEAN]

CallType == [amx : Scripts, id : Queries, public : Publics, args : Seq(Args)]

HistoryTypes == Asked \in 0 .. MaxQueries /\ told \in Seq(CallType)

\* No script is in the list twice, since it is loaded once.
ScriptsInv ==
    /\ \A i, j \in DOMAIN p_Amx : p_Amx[i] = p_Amx[j] => i = j
    /\ \A i \in DOMAIN p_Amx : p_Amx[i] \in loaded

TypeInv == ScriptTypes /\ FlagTypes /\ TickTypes /\ HistoryTypes /\ ScriptsInv

LEMMA ArgTypes ==
    ASSUME NEW q \in 0 .. MaxQueries,
           NEW of \in Publics \cup {"query", "result", "extra", "handle", "error",
                                    "errorid", "garbage", "-1"}
    PROVE  Arg(of, q) \in Args
BY DEF Arg, Args

LEMMA FixedArgTypes ==
    ASSUME MaxQueries >= 1
    PROVE  /\ Handle \in Args /\ Garbage \in Args /\ MinusOne \in Args
           /\ \A public \in Publics : Name(public) \in Args
<1>1. 0 \in 0 .. MaxQueries /\ 1 \in 0 .. MaxQueries
  BY NoticeAssumption
<1> QED BY <1>1, ArgTypes DEF Handle, Garbage, MinusOne, Name

LEMMA CallbackType ==
    ASSUME AskedInv, NEW q \in 1 .. Asked
    PROVE  Callback(q) \in Publics
<1>1. asked[q] \in Natives
  BY DEF AskedInv, Asked
<1> QED BY <1>1 DEF Callback, Natives, Publics

LEMMA RecordTypes ==
    ASSUME AskedInv, Asked \in 0 .. MaxQueries
    PROVE  NativeRecords \subseteq Records /\ AllErrorRecords \subseteq ErrorRecords
<1>1. ASSUME NEW q \in 1 .. Asked
      PROVE  /\ q \in Queries /\ q \in 0 .. MaxQueries /\ MaxQueries >= 1
             /\ Callback(q) \in Publics
             /\ \A of \in {"query", "result", "extra", "error", "errorid"} :
                   Arg(of, q) \in Args
             /\ Result(q) \in Args
  <2>1. q \in Queries /\ q \in 0 .. MaxQueries /\ MaxQueries >= 1
    BY NoticeAssumption DEF Queries
  <2>2. \A of \in {"query", "result", "extra", "error", "errorid"} : Arg(of, q) \in Args
    BY <2>1, ArgTypes
  <2>3. Result(q) \in Args
    BY <2>1, <2>2, FixedArgTypes DEF Result
  <2> QED BY <2>1, <2>2, <2>3, CallbackType
<1>2. ASSUME NEW q \in Threaded
      PROVE  NativeRecord(q) \in Records
  <2>1. q \in 1 .. Asked
    BY DEF Threaded
  <2> QED BY <1>1, <2>1 DEF NativeRecord, Records
<1>3. ASSUME NEW q \in 1 .. Asked, NEW e \in ErrorRecordsOf(q)
      PROVE  e \in ErrorRecords
  <2>1. PICK extra \in {Garbage, MinusOne, Arg("extra", q)} : e = ErrorRecord(q, extra)
    BY DEF ErrorRecordsOf
  <2>2. extra \in Args
    BY <1>1, <2>1, FixedArgTypes
  <2> QED BY <1>1, <2>1, <2>2 DEF ErrorRecord, ErrorRecords
<1> QED BY <1>2, <1>3 DEF NativeRecords, AllErrorRecords

\* What TickCall adds to told.
LEMMA CallTypes ==
    ASSUME NoticeInv, TypeInv, tick.phase \in {"error", "finish"}, tick.amx # End
    PROVE  Call \in CallType
<1>0. NativeRecords \subseteq Records /\ AllErrorRecords \subseteq ErrorRecords
  BY RecordTypes DEF NoticeInv, TypeInv, HistoryTypes
<1>1. tick.amx \in Scripts
  BY DEF TypeInv, TickTypes
<1>2. CASE tick.phase = "error"
  <2>1. Head(errorCallback) \in AllErrorRecords
    <3>1. errorCallback # <<>>
      BY <1>2 DEF NoticeInv, TickInv
    <3> HIDE DEF AllErrorRecords
    <3> QED BY <3>1, Popped1 DEF NoticeInv, ErrorInv
  <2>2. Entry \in ErrorRecords /\ Public = "OnQueryError" /\ Stack = ErrorPushed(Entry)
    BY <1>0, <1>2, <2>1 DEF Entry, Public, Stack
  <2>3. Entry.id \in Queries /\ MaxQueries >= 1 /\ Public \in Publics
    BY <2>2, NoticeAssumption DEF ErrorRecords, Queries, Publics
  <2>4. Stack \in Seq(Args)
    <3>1. /\ Entry.query \in Args /\ Entry.callback \in Publics /\ Entry.extra \in Args
          /\ Entry.result \in Args /\ Entry.error \in Args /\ Entry.errorid \in Args
      BY <2>2 DEF ErrorRecords
    <3>2. Handle \in Args /\ Name(Entry.callback) \in Args
      BY <2>3, <3>1, FixedArgTypes
    <3> HIDE DEF Args
    <3> QED BY <2>2, <3>1, <3>2 DEF ErrorPushed
  <2>5. Reverse(Stack) \in Seq(Args)
    <3> HIDE DEF Stack, Args
    <3> QED BY <2>4 DEF Reverse
  <2> QED BY <1>1, <2>3, <2>5 DEF Call, CallType
<1>3. CASE tick.phase = "finish"
  <2>1. Head(callbackData) \in NativeRecords
    <3>1. callbackData # <<>>
      BY <1>3 DEF NoticeInv, TickInv
    <3> HIDE DEF NativeRecords
    <3> QED BY <3>1, Popped1 DEF NoticeInv, CallbackInv
  <2>2. Entry \in Records /\ Public = Entry.callback /\ Stack = Pushed(Entry)
    BY <1>0, <1>3, <2>1 DEF Entry, Public, Stack
  <2>3. Entry.id \in Queries /\ MaxQueries >= 1 /\ Public \in Publics
    BY <2>2, NoticeAssumption DEF Records, Queries
  <2>4. Stack \in Seq(Args)
    <3>1. /\ Entry.query \in Args /\ Entry.extra \in Args /\ Entry.result \in Args
      BY <2>2 DEF Records
    <3>2. Handle \in Args
      BY <2>3, FixedArgTypes
    <3> HIDE DEF Args
    <3> QED BY <2>2, <3>1, <3>2 DEF Pushed
  <2>5. Reverse(Stack) \in Seq(Args)
    <3> HIDE DEF Stack, Args
    <3> QED BY <2>4 DEF Reverse
  <2> QED BY <1>1, <2>3, <2>5 DEF Call, CallType
<1> QED BY <1>2, <1>3

\* AmxLoad's push_back, and what erase(i) takes out of AmxUnload's list.
LEMMA ScriptLoaded ==
    ASSUME ScriptTypes, ScriptsInv, NEW s \in Scripts, AmxLoad(s)
    PROVE  /\ ScriptTypes' /\ ScriptsInv'
           /\ DOMAIN p_Amx' = 1 .. Len(p_Amx) + 1 /\ Len(p_Amx) \in Nat
           /\ \A i \in 1 .. Len(p_Amx) : p_Amx'[i] = p_Amx[i]
           /\ p_Amx'[Len(p_Amx) + 1] = s
<1>1. /\ p_Amx' \in Seq(Scripts) /\ DOMAIN p_Amx' = 1 .. Len(p_Amx) + 1
      /\ Len(p_Amx) \in Nat /\ DOMAIN p_Amx = 1 .. Len(p_Amx)
      /\ \A i \in 1 .. Len(p_Amx) : p_Amx'[i] = p_Amx[i]
      /\ p_Amx'[Len(p_Amx) + 1] = s
  BY DEF ScriptTypes, AmxLoad
<1>2. loaded' = loaded \cup {s} /\ s \notin loaded /\ UNCHANGED early
  BY DEF AmxLoad
<1>3. \A i \in 1 .. Len(p_Amx) + 1 : i \in 1 .. Len(p_Amx) \/ i = Len(p_Amx) + 1
  BY <1>1
<1>4. ScriptTypes'
  BY <1>1, <1>2 DEF ScriptTypes
<1>5. ScriptsInv'
  BY <1>1, <1>2, <1>3 DEF ScriptsInv
<1> QED BY <1>1, <1>4, <1>5

LEMMA ScriptErased ==
    ASSUME ScriptTypes, ScriptsInv, NEW s \in Scripts, AmxUnload(s)
    PROVE  /\ ScriptTypes' /\ ScriptsInv'
           /\ \E h \in DOMAIN p_Amx :
                 /\ p_Amx[h] = s
                 /\ DOMAIN p_Amx' = 1 .. Len(p_Amx) - 1
                 /\ \A i \in 1 .. Len(p_Amx) - 1 :
                       p_Amx'[i] = IF i < h THEN p_Amx[i] ELSE p_Amx[i + 1]
<1>1. PICK h \in DOMAIN p_Amx : p_Amx[h] = s
  BY DEF AmxUnload, ToSet
<1>2. DOMAIN p_Amx = 1 .. Len(p_Amx) /\ Len(p_Amx) \in Nat
  BY DEF ScriptTypes
<1>3. p_Amx' = RemoveAt(p_Amx, h)
  <2>1. \A i \in 1 .. Len(p_Amx) : p_Amx[i] = s => i = h
    BY <1>1, <1>2 DEF ScriptsInv
  <2> QED BY <1>1, <1>2, <2>1, RemovedFirst DEF ScriptTypes, AmxUnload, Without
<1>4. /\ p_Amx' \in Seq(Scripts) /\ DOMAIN p_Amx' = 1 .. Len(p_Amx) - 1
      /\ \A i \in 1 .. Len(p_Amx) - 1 :
            p_Amx'[i] = IF i < h THEN p_Amx[i] ELSE p_Amx[i + 1]
  BY <1>1, <1>2, <1>3, Removed DEF ScriptTypes
<1>5. loaded' = loaded /\ early' \in BOOLEAN
  BY DEF AmxUnload, ScriptTypes
<1>6. ScriptsInv'
  <2> DEFINE was(i) == IF i < h THEN i ELSE i + 1
  <2>1. \A i \in 1 .. Len(p_Amx) - 1 :
           was(i) \in DOMAIN p_Amx /\ p_Amx'[i] = p_Amx[was(i)]
    BY <1>1, <1>2, <1>4
  <2>2. \A i, j \in 1 .. Len(p_Amx) - 1 : was(i) = was(j) => i = j
    BY <1>1, <1>2
  <2> HIDE DEF was
  <2>3. ASSUME NEW i \in DOMAIN p_Amx', NEW j \in DOMAIN p_Amx', p_Amx'[i] = p_Amx'[j]
        PROVE  i = j
    <3>1. p_Amx[was(i)] = p_Amx[was(j)]
      BY <1>4, <2>1, <2>3
    <3> QED BY <1>4, <2>1, <2>2, <3>1 DEF ScriptsInv
  <2>4. \A i \in DOMAIN p_Amx' : p_Amx'[i] \in loaded'
    BY <1>4, <1>5, <2>1 DEF ScriptsInv
  <2> QED BY <2>3, <2>4 DEF ScriptsInv
<1> QED BY <1>1, <1>4, <1>5, <1>6 DEF ScriptTypes

\* The script after one of the list, wherever that is in it.
LEMMA AfterIs ==
    ASSUME ScriptTypes, ScriptsInv, NEW j \in DOMAIN p_Amx
    PROVE  /\ After(p_Amx[j]) = IF j = Len(p_Amx) THEN End ELSE p_Amx[j + 1]
           /\ After(p_Amx[j]) \in Scripts \cup {End}
           /\ After(p_Amx[j]) # End =>
                 j + 1 \in DOMAIN p_Amx /\ p_Amx[j + 1] = After(p_Amx[j])
<1>1. DOMAIN p_Amx = 1 .. Len(p_Amx) /\ Len(p_Amx) \in Nat
  BY DEF ScriptTypes
<1>2. (CHOOSE i \in DOMAIN p_Amx : p_Amx[i] = p_Amx[j]) = j
  BY DEF ScriptsInv
<1>3. After(p_Amx[j]) = IF j = Len(p_Amx) THEN End ELSE p_Amx[j + 1]
  BY <1>2 DEF After
<1>4. j # Len(p_Amx) => j + 1 \in DOMAIN p_Amx
  BY <1>1
<1> QED BY <1>1, <1>3, <1>4 DEF ScriptTypes

LEMMA BeginIs ==
    ASSUME ScriptTypes
    PROVE  /\ Begin \in Scripts \cup {End}
           /\ Begin # End => 1 \in DOMAIN p_Amx /\ p_Amx[1] = Begin
           /\ Begin = End => p_Amx = <<>>
<1>1. p_Amx # <<>> =>
         1 \in DOMAIN p_Amx /\ p_Amx[1] = Head(p_Amx) /\ Head(p_Amx) \in Scripts
  BY DEF ScriptTypes
<1> QED BY <1>1, EndAssumption DEF Begin

LEMMA AskedTypes ==
    ASSUME AskedInv, Asked < MaxQueries, Asked \in 0 .. MaxQueries, NEW n \in Natives,
           asked' = Append(asked, n)
    PROVE  Asked' \in 0 .. MaxQueries
<1>1. Asked' = Asked + 1 /\ Asked \in Nat
  BY LastAsked
<1> QED BY <1>1, NoticeAssumption

LEMMA NativeTypes ==
    ASSUME NoticeInv, TypeInv,
           MysqlQuery \/ MysqlQueryCallback \/ Statement \/ NativeErrno
    PROVE  TypeInv'
<1> USE DEF TypeInv
<1>1. /\ UNCHANGED <<p_Amx, loaded, early, m_bQueryProcessing, fault, worker, tick, told>>
      /\ alone' \in BOOLEAN
  BY DEF MysqlQuery, MysqlQueryCallback, Ask, Statement, NativeErrno, FlagTypes
<1>2. Asked' \in 0 .. MaxQueries
  <2>1. CASE UNCHANGED asked
    BY <2>1 DEF HistoryTypes, Asked
  <2>2. CASE \E n \in Natives : Asked < MaxQueries /\ asked' = Append(asked, n)
    BY <2>2, AskedTypes DEF NoticeInv, HistoryTypes
  <2> QED BY <2>1, <2>2 DEF MysqlQuery, MysqlQueryCallback, Ask, Statement,
                            NativeErrno, Natives
<1>3. m_dwError' \in 0 .. MaxQueries
  <2>1. CASE Statement
    <3>1. Asked + 1 \in 0 .. MaxQueries
      BY <2>1, NoticeAssumption DEF Statement, HistoryTypes
    <3> QED BY <2>1, <3>1 DEF Statement
  <2> QED BY <2>1 DEF MysqlQuery, MysqlQueryCallback, Ask, NativeErrno, FlagTypes
<1>4. ScriptTypes' /\ ScriptsInv' /\ TickTypes'
  BY <1>1 DEF ScriptTypes, ScriptsInv, TickTypes
<1>5. FlagTypes' /\ HistoryTypes'
  BY <1>1, <1>2, <1>3 DEF FlagTypes, HistoryTypes
<1> QED BY <1>4, <1>5

LEMMA LoadTypes ==
    ASSUME TypeInv, NEW s \in Scripts, AmxLoad(s) \/ AmxUnload(s)
    PROVE  TypeInv'
<1>1. ScriptTypes' /\ ScriptsInv'
  BY ScriptLoaded, ScriptErased DEF TypeInv
<1>2. UNCHANGED <<m_bQueryProcessing, m_dwError, worker, tick, fault, asked, told, alone>>
  BY DEF AmxLoad, AmxUnload
<1> QED BY <1>1, <1>2 DEF TypeInv, FlagTypes, TickTypes, HistoryTypes, Asked

LEMMA WorkerTypes ==
    ASSUME NoticeInv, TypeInv, ProcessQueryThread
    PROVE  TypeInv'
<1>1. UNCHANGED <<p_Amx, tick, fault, asked, told, loaded, early>>
  BY DEF ProcessQueryThread
<1>2. FlagTypes'
  <2>0. 0 \in 0 .. MaxQueries /\ Queries \subseteq 0 .. MaxQueries
    BY NoticeAssumption DEF Queries
  <2>1. CASE WorkerFails
    <3>1. Head(queueData) \in NativeRecords
      <4>1. queueData # <<>>
        BY <2>1 DEF WorkerFails
      <4> HIDE DEF NativeRecords
      <4> QED BY <4>1, Popped1 DEF NoticeInv, QueueInv
    <3>2. Head(queueData).id \in 0 .. MaxQueries
      BY <2>0, <3>1, RecordTypes DEF NoticeInv, TypeInv, HistoryTypes, Records
    <3> QED BY <1>1, <2>1, <3>2 DEF WorkerFails, TypeInv, FlagTypes
  <2> QED BY <1>1, <2>0, <2>1 DEF ProcessQueryThread, WorkerReconnectFails, WorkerSucceeds,
             WorkerClearsError, ErrorCleared, WorkerReports, WorkerPop, TypeInv, FlagTypes
<1> QED BY <1>1, <1>2 DEF TypeInv, ScriptTypes, ScriptsInv, TickTypes, HistoryTypes, Asked

\* Whenever ProcessTick is at a script it is one of the list, unless that
\* script was unloaded in its own callback.
PlaceInv ==
    /\ tick.phase \in {"none", "then"} => tick.amx = End
    /\ tick.busy => tick.amx # End
    /\ tick.amx # End /\ ~(\E j \in DOMAIN p_Amx : p_Amx[j] = tick.amx) =>
          tick.busy /\ early
    /\ fault => early

LEMMA TickTypesStep ==
    ASSUME NoticeInv, TypeInv, PlaceInv, ProcessTick
    PROVE  TypeInv' /\ PlaceInv'
<1>1. UNCHANGED <<p_Amx, m_dwError, worker, asked, loaded, early, alone>> /\ ~fault
  BY DEF ProcessTick
<1>2. TickTypes' /\ PlaceInv' /\ FlagTypes'
  <2> DEFINE P == {"none", "error", "then", "finish"}
  <2>1. CASE TickError \/ TickFinish
    <3>1. PICK phase \in P, amx \in {Begin, End} :
             /\ tick' = [phase |-> phase, amx |-> amx, busy |-> FALSE]
             /\ phase \in {"none", "then"} => amx = End
      BY <2>1 DEF TickError, TickFinish, Goto, NoTick
    <3>2. /\ amx \in Scripts \cup {End}
          /\ amx # End => \E j \in DOMAIN p_Amx : p_Amx[j] = amx
      BY <3>1, BeginIs DEF TypeInv
    <3>3. UNCHANGED <<fault, m_bQueryProcessing>>
      BY <2>1 DEF TickError, TickFinish
    <3>4. TickTypes'
      BY <3>1, <3>2 DEF TickTypes
    <3>5. PlaceInv'
      BY <1>1, <3>1, <3>2, <3>3 DEF PlaceInv
    <3> QED BY <1>1, <3>3, <3>4, <3>5 DEF TypeInv, FlagTypes
  <2>2. CASE TickErrorDone \/ TickFinishDone
    <3>1. \E phase \in P : tick' = [phase |-> phase, amx |-> End, busy |-> FALSE]
      BY <2>2 DEF TickErrorDone, TickFinishDone, Goto, NoTick
    <3>2. fault' = fault /\ m_bQueryProcessing' \in BOOLEAN
      BY <2>2 DEF TickErrorDone, TickFinishDone, TypeInv, FlagTypes
    <3> QED BY <1>1, <3>1, <3>2 DEF TypeInv, TickTypes, FlagTypes, PlaceInv
  <2>3. ASSUME TickCall \/ TickReturn,
               tick' = [phase |-> tick.phase, amx |-> After(tick.amx), busy |-> FALSE],
               fault' = fault, \E j \in DOMAIN p_Amx : p_Amx[j] = tick.amx
        PROVE  TickTypes' /\ PlaceInv' /\ FlagTypes'
    <3>1. PICK j \in DOMAIN p_Amx : p_Amx[j] = tick.amx
      BY <2>3
    <3>2. /\ After(tick.amx) \in Scripts \cup {End}
          /\ After(tick.amx) # End =>
                j + 1 \in DOMAIN p_Amx /\ p_Amx[j + 1] = After(tick.amx)
      BY <3>1, AfterIs DEF TypeInv
    <3>3. tick.phase \in {"error", "finish"} /\ m_bQueryProcessing' = m_bQueryProcessing
      BY <2>3 DEF TypeInv, TickTypes, TickCall, TickReturn, PlaceInv
    <3> QED BY <1>1, <2>3, <3>2, <3>3 DEF TypeInv, TickTypes, FlagTypes, PlaceInv
  <2>4. CASE TickCall
    <3>1. \E j \in DOMAIN p_Amx : p_Amx[j] = tick.amx
      BY <2>4 DEF TickCall, PlaceInv
    <3>2. CASE tick' = [phase |-> tick.phase, amx |-> tick.amx, busy |-> TRUE]
      BY <1>1, <2>4, <3>1, <3>2 DEF TickCall, TypeInv, TickTypes, FlagTypes, PlaceInv
    <3> QED BY <2>3, <2>4, <3>1, <3>2 DEF TickCall, Goto
  <2>5. CASE TickReturn
    <3>1. CASE Gone
      <4>1. tick.amx # End /\ ~(\E j \in DOMAIN p_Amx : p_Amx[j] = tick.amx)
        BY <2>5, <3>1 DEF TickReturn, PlaceInv, Gone, ToSet
      <4>2. early
        BY <4>1 DEF PlaceInv
      <4> QED BY <1>1, <2>5, <3>1, <4>2 DEF TickReturn, TypeInv, TickTypes, FlagTypes,
                 PlaceInv
    <3>2. CASE ~Gone
      <4>1. \E j \in DOMAIN p_Amx : p_Amx[j] = tick.amx
        BY <3>2 DEF Gone, ToSet
      <4> QED BY <2>3, <2>5, <3>2, <4>1 DEF TickReturn, Goto, Next
    <3> QED BY <3>1, <3>2
  <2> QED BY <2>1, <2>2, <2>4, <2>5 DEF ProcessTick
<1>3. told' \in Seq(CallType)
  <2>1. CASE UNCHANGED told
    BY <2>1 DEF TypeInv, HistoryTypes
  <2>2. CASE TickCall /\ told' = Append(told, Call)
    <3>1. Call \in CallType
      BY <2>2, CallTypes DEF TickCall
    <3> HIDE DEF Call, CallType
    <3> QED BY <2>2, <3>1 DEF TypeInv, HistoryTypes
  <2> QED BY <2>1, <2>2 DEF ProcessTick, TickError, TickFinish, TickCall, TickReturn,
             TickErrorDone, TickFinishDone, Call
<1> QED BY <1>1, <1>2, <1>3 DEF TypeInv, ScriptTypes, ScriptsInv, HistoryTypes, Asked

LEMMA PlaceStep ==
    ASSUME NoticeInv, TypeInv, PlaceInv, NoticeNext
    PROVE  TypeInv' /\ PlaceInv'
<1>1. CASE ProcessTick
  BY <1>1, TickTypesStep
<1>2. CASE MysqlQuery \/ MysqlQueryCallback \/ Statement \/ NativeErrno
  <2>1. UNCHANGED <<p_Amx, tick, fault, early>>
    BY <1>2 DEF MysqlQuery, MysqlQueryCallback, Ask, Statement, NativeErrno
  <2> QED BY <1>2, <2>1, NativeTypes DEF PlaceInv
<1>3. CASE ProcessQueryThread
  <2>1. UNCHANGED <<p_Amx, tick, fault, early>>
    BY <1>3 DEF ProcessQueryThread
  <2> QED BY <1>3, <2>1, WorkerTypes DEF PlaceInv
<1>4. ASSUME NEW s \in Scripts, AmxLoad(s)
      PROVE  TypeInv' /\ PlaceInv'
  <2>1. UNCHANGED <<tick, fault, early>>
    BY <1>4 DEF AmxLoad
  <2>2. \A j \in DOMAIN p_Amx : j \in DOMAIN p_Amx' /\ p_Amx'[j] = p_Amx[j]
    <3>1. DOMAIN p_Amx = 1 .. Len(p_Amx)
      BY DEF TypeInv, ScriptTypes
    <3> QED BY <1>4, <3>1, ScriptLoaded DEF TypeInv
  <2>3. PlaceInv'
    BY <2>1, <2>2 DEF PlaceInv
  <2> QED BY <1>4, <2>3, LoadTypes
<1>5. ASSUME NEW s \in Scripts, AmxUnload(s)
      PROVE  TypeInv' /\ PlaceInv'
  <2>1. UNCHANGED <<tick, fault>> /\ ~fault /\ (tick.phase = "none" \/ tick.busy)
    BY <1>5 DEF AmxUnload, ScriptRuns
  <2>2. PICK h \in DOMAIN p_Amx :
           /\ p_Amx[h] = s
           /\ DOMAIN p_Amx' = 1 .. Len(p_Amx) - 1
           /\ \A i \in 1 .. Len(p_Amx) - 1 :
                 p_Amx'[i] = IF i < h THEN p_Amx[i] ELSE p_Amx[i + 1]
    BY <1>5, ScriptErased DEF TypeInv
  <2>3. DOMAIN p_Amx = 1 .. Len(p_Amx) /\ Len(p_Amx) \in Nat
    BY DEF TypeInv, ScriptTypes
  <2>4. ASSUME NEW j \in DOMAIN p_Amx, p_Amx[j] # s
        PROVE  \E i \in DOMAIN p_Amx' : p_Amx'[i] = p_Amx[j]
    <3>1. CASE j < h
      BY <2>2, <2>3, <3>1
    <3>2. CASE j > h
      <4>1. j - 1 \in 1 .. Len(p_Amx) - 1 /\ ~(j - 1 < h) /\ (j - 1) + 1 = j
        BY <2>2, <2>3, <3>2
      <4> QED BY <2>2, <4>1
    <3> QED BY <2>2, <2>3, <2>4, <3>1, <3>2
  <2>5. early' = (early \/ tick.amx = s)
    BY <1>5 DEF AmxUnload
  <2>6. tick.amx # End => tick.busy
    BY <2>1 DEF PlaceInv
  <2>7. PlaceInv'
    <3>1. CASE \E j \in DOMAIN p_Amx : p_Amx[j] = tick.amx
      <4>1. tick.amx # s => \E i \in DOMAIN p_Amx' : p_Amx'[i] = tick.amx
        BY <2>4, <3>1
      <4> QED BY <2>1, <2>5, <2>6, <4>1 DEF PlaceInv
    <3>2. CASE ~(\E j \in DOMAIN p_Amx : p_Amx[j] = tick.amx)
      BY <2>1, <2>5, <3>2 DEF PlaceInv
    <3> QED BY <3>1, <3>2
  <2> QED BY <1>5, <2>7, LoadTypes
<1> QED BY <1>1, <1>2, <1>3, <1>4, <1>5 DEF NoticeNext

LEMMA PlaceRests == TypeInv /\ PlaceInv /\ UNCHANGED vars => TypeInv' /\ PlaceInv'
BY DEF vars, history, queues, TypeInv, ScriptTypes, ScriptsInv, FlagTypes, TickTypes,
       HistoryTypes, Asked, PlaceInv

(***************************************************************************)
(* The types hold in every state, no script is listed twice, and           *)
(* ProcessTick is at a script of the list unless that one was unloaded.    *)
(***************************************************************************)
THEOREM PlaceInductive == NoticeSpec => [](TypeInv /\ PlaceInv)
<1>1. NoticeInit => TypeInv /\ PlaceInv
  <2> SUFFICES ASSUME NoticeInit PROVE TypeInv /\ PlaceInv
    OBVIOUS
  <2>1. \A S : <<>> \in Seq(S)
    OBVIOUS
  <2>2. ScriptTypes /\ ScriptsInv
    <3>1. p_Amx = <<>> /\ DOMAIN <<>> = {} /\ loaded = {} /\ early = FALSE
      BY DEF NoticeInit
    <3> QED BY <2>1, <3>1 DEF ScriptTypes, ScriptsInv
  <2>3. FlagTypes /\ TickTypes /\ PlaceInv
    BY DEF NoticeInit, FlagTypes, TickTypes, PlaceInv, NoTick
  <2>4. HistoryTypes
    <3>1. told \in Seq(CallType)
      BY <2>1 DEF NoticeInit
    <3>2. Asked \in 0 .. MaxQueries
      BY NoticeAssumption DEF NoticeInit, Asked
    <3> QED BY <3>1, <3>2 DEF HistoryTypes
  <2> QED BY <2>2, <2>3, <2>4 DEF TypeInv
<1>2. NoticeInv /\ TypeInv /\ PlaceInv /\ [NoticeNext]_vars => TypeInv' /\ PlaceInv'
  BY PlaceStep, PlaceRests
<1> QED BY <1>1, <1>2, NoticeInductive, PTL DEF NoticeSpec

(***************************************************************************)
(* The type invariant of QueryNotice.                                      *)
(***************************************************************************)
THEOREM NoticeTypes == NoticeSpec => []NoticeTypeOK
<1>1. NoticeInv /\ TypeInv => NoticeTypeOK
  <2> SUFFICES ASSUME NoticeInv, TypeInv PROVE NoticeTypeOK
    OBVIOUS
  <2>1. NativeRecords \subseteq Records /\ AllErrorRecords \subseteq ErrorRecords
    BY RecordTypes DEF NoticeInv, TypeInv, HistoryTypes
  <2>2. \A S, T : S \subseteq T => Seq(S) \subseteq Seq(T)
    OBVIOUS
  <2>3. /\ queueData \in Seq(Records) /\ callbackData \in Seq(Records)
        /\ errorCallback \in Seq(ErrorRecords)
    BY <2>1, <2>2 DEF NoticeInv, QueueInv, CallbackInv, ErrorInv
  <2>4. asked \in Seq({"mysql_query", "mysql_query_callback", "statement"})
    BY DEF NoticeInv, AskedInv, Natives
  <2> QED BY <2>3, <2>4 DEF NoticeTypeOK, TypeInv, ScriptTypes, FlagTypes, TickTypes,
                            HistoryTypes, CallType
<1> QED BY <1>1, NoticeInductive, PlaceInductive, PTL

(***************************************************************************)
(* ProcessTick's iterator is left pointing nowhere only when a script is   *)
(* unloaded in its own callback: every other coming and going of scripts,  *)
(* in any callback, keeps its place.                                       *)
(***************************************************************************)
THEOREM TickKeepsPlace == NoticeSpec => []TickSafe
<1>1. PlaceInv => TickSafe
  BY DEF PlaceInv, TickSafe
<1> QED BY <1>1, PlaceInductive, PTL

-----------------------------------------------------------------------------
(***************************************************************************)
(* Who was told of what.  A query's id is in one place at a time: with the *)
(* worker, in callbackData or errorCallback, or being told.                *)
(***************************************************************************)
Ids(s) == {s[i].id : i \in DOMAIN s}
Distinct(s) == \A i, j \in DOMAIN s : s[i].id = s[j].id => i = j

\* Queries of which nobody was told yet: those the worker has not pushed
\* anywhere, and the entries ProcessTick has not come to.
Waiting == IF worker \in {"pushed", "pop"}
           THEN Ids(queueData) \ {Head(queueData).id} ELSE Ids(queueData)
Owed == IF tick.phase = "finish" THEN {} ELSE Ids(callbackData)
Reported == IF tick.phase = "error"
            THEN Ids(errorCallback) \ {Head(errorCallback).id} ELSE Ids(errorCallback)

IdsInv ==
    /\ Distinct(queueData) /\ Distinct(errorCallback)
    /\ Waiting \cap (Ids(callbackData) \cup Ids(errorCallback)) = {}
    /\ Ids(callbackData) \cap Ids(errorCallback) = {}
    /\ Ids(told) \cap (Waiting \cup Owed \cup Reported) = {}

OnceInv ==
    /\ \A i, j \in DOMAIN told :
          told[i].amx = told[j].amx /\ told[i].id = told[j].id => i = j
    /\ \A i \in DOMAIN told : told[i].amx \in loaded

\* While ProcessTick is at an entry, the scripts up to its iterator that have
\* the public were told of it, and none of those after it, whatever comes or
\* goes in a callback.
Was(s) == \E i \in DOMAIN told : told[i].amx = s /\ told[i].id = Entry.id
ToldIfPublic(s) == HasPublic(s, Public) => Was(s)

UpTo(j) ==
    \A i \in DOMAIN p_Amx :
       /\ i < j \/ (i = j /\ tick.busy) => ToldIfPublic(p_Amx[i])
       /\ i > j \/ (i = j /\ ~tick.busy) => ~Was(p_Amx[i])

ProgressInv ==
    /\ tick.amx # End => tick.amx \in loaded
    /\ tick.phase \in {"error", "finish"} =>
          /\ tick.amx = End => \A i \in DOMAIN p_Amx : ToldIfPublic(p_Amx[i])
          /\ \A j \in DOMAIN p_Amx : p_Amx[j] = tick.amx => UpTo(j)

TellInv == IdsInv /\ OnceInv /\ ProgressInv

LEMMA IdsPushed ==
    ASSUME NEW S, NEW s \in Seq(S), NEW e \in S
    PROVE  /\ Ids(Append(s, e)) = Ids(s) \cup {e.id}
           /\ Distinct(s) /\ e.id \notin Ids(s) => Distinct(Append(s, e))
<1>1. /\ DOMAIN Append(s, e) = 1 .. Len(s) + 1 /\ Len(s) \in Nat
      /\ DOMAIN s = 1 .. Len(s)
      /\ \A i \in 1 .. Len(s) : Append(s, e)[i] = s[i]
      /\ Append(s, e)[Len(s) + 1] = e
  OBVIOUS
<1>2. 1 .. Len(s) + 1 = (1 .. Len(s)) \cup {Len(s) + 1}
  BY <1>1
<1>3. Ids(Append(s, e)) = Ids(s) \cup {e.id}
  BY <1>1, <1>2 DEF Ids
<1>4. ASSUME Distinct(s), e.id \notin Ids(s)
      PROVE  Distinct(Append(s, e))
  <2>1. \A i \in 1 .. Len(s) : s[i].id # e.id
    BY <1>1, <1>4 DEF Ids
  <2> QED BY <1>1, <1>2, <1>4, <2>1 DEF Distinct
<1> QED BY <1>3, <1>4

LEMMA IdsPopped ==
    ASSUME NEW S, NEW s \in Seq(S), s # <<>>
    PROVE  /\ Ids(s) = {Head(s).id} \cup Ids(Tail(s))
           /\ Distinct(s) => Distinct(Tail(s)) /\ Head(s).id \notin Ids(Tail(s))
<1>1. /\ Head(s) = s[1] /\ Len(s) \in Nat \ {0}
      /\ DOMAIN s = 1 .. Len(s) /\ DOMAIN Tail(s) = 1 .. Len(s) - 1
      /\ \A i \in 1 .. Len(s) - 1 : Tail(s)[i] = s[i + 1]
  OBVIOUS
<1>2. /\ \A i \in 1 .. Len(s) - 1 : i + 1 \in 1 .. Len(s) /\ i + 1 # 1
      /\ \A i \in 1 .. Len(s) : i = 1 \/ (i - 1 \in 1 .. Len(s) - 1 /\ (i - 1) + 1 = i)
      /\ 1 \in 1 .. Len(s)
  BY <1>1
<1>3. Ids(s) \subseteq {Head(s).id} \cup Ids(Tail(s))
  <2> SUFFICES ASSUME NEW i \in 1 .. Len(s), i # 1
               PROVE  s[i].id \in Ids(Tail(s))
    BY <1>1 DEF Ids
  <2>1. i - 1 \in DOMAIN Tail(s) /\ Tail(s)[i - 1] = s[i]
    BY <1>1, <1>2
  <2> QED BY <2>1 DEF Ids
<1>4. {Head(s).id} \cup Ids(Tail(s)) \subseteq Ids(s)
  BY <1>1, <1>2 DEF Ids
<1>5. ASSUME Distinct(s)
      PROVE  Distinct(Tail(s)) /\ Head(s).id \notin Ids(Tail(s))
  <2>1. Distinct(Tail(s))
    <3> SUFFICES ASSUME NEW i \in 1 .. Len(s) - 1, NEW j \in 1 .. Len(s) - 1,
                        s[i + 1].id = s[j + 1].id
                 PROVE  i = j
      BY <1>1 DEF Distinct
    <3>1. i + 1 = j + 1
      BY <1>1, <1>2, <1>5 DEF Distinct
    <3> QED BY <3>1
  <2>2. Head(s).id \notin Ids(Tail(s))
    BY <1>1, <1>2, <1>5 DEF Distinct, Ids
  <2> QED BY <2>1, <2>2
<1> QED BY <1>3, <1>4, <1>5

\* Every id is that of a query that was asked.
LEMMA IdsAsked ==
    ASSUME NoticeInv
    PROVE  /\ Ids(queueData) \subseteq 1 .. Asked
           /\ Ids(callbackData) \subseteq 1 .. Asked
           /\ Ids(errorCallback) \subseteq 1 .. Asked
           /\ Ids(told) \subseteq 1 .. Asked
           /\ Asked + 1 \notin 1 .. Asked
<1>1. \A r \in NativeRecords : r.id \in 1 .. Asked
  BY DEF NativeRecords, NativeRecord, Threaded
<1>2. \A r \in AllErrorRecords : r.id \in 1 .. Asked
  BY DEF AllErrorRecords, ErrorRecordsOf, ErrorRecord
<1>3. /\ \A i \in DOMAIN queueData : queueData[i] \in NativeRecords
      /\ \A i \in DOMAIN callbackData : callbackData[i] \in NativeRecords
  <2> HIDE DEF NativeRecords
  <2> QED BY DEF NoticeInv, QueueInv, CallbackInv
<1>4. \A i \in DOMAIN errorCallback : errorCallback[i] \in AllErrorRecords
  <2> HIDE DEF AllErrorRecords
  <2> QED BY DEF NoticeInv, ErrorInv
<1>5. \A i \in DOMAIN told : told[i].id \in 1 .. Asked
  <2>1. \A i \in DOMAIN told : told[i] \in Range(told)
    BY DEF Range
  <2> QED BY <2>1 DEF NoticeInv, ToldInv, AsDeclared
<1>6. Asked \in Nat
  BY DEF NoticeInv, AskedInv, Asked
<1> QED BY <1>1, <1>2, <1>3, <1>4, <1>5, <1>6 DEF Ids

LEMMA IdsEmpty == Ids(<<>>) = {} /\ Distinct(<<>>)
BY DEF Ids, Distinct

\* A step that leaves the queues and told alone and comes to no later entry.
LEMMA IdsFrame ==
    ASSUME IdsInv, UNCHANGED <<queueData, callbackData, errorCallback, told>>,
           worker' = worker \/ {worker, worker'} \in {{"idle", "failed"}, {"pushed", "pop"}},
           tick'.phase = tick.phase \/ tick'.phase \in {"error", "finish", "then"},
           tick.phase \in {"none", "then"} \/ tick'.phase = tick.phase
    PROVE  IdsInv'
<1>1. Waiting' = Waiting
  BY DEF Waiting
<1>2. Owed' \subseteq Owed
  BY DEF Owed
<1>3. Reported' \subseteq Reported
  BY DEF Reported
<1> QED BY <1>1, <1>2, <1>3 DEF IdsInv

\* The natives.
LEMMA IdsAskStep ==
    ASSUME NoticeInv, IdsInv, NEW n, NEW r, r.id = Asked + 1, Ask(n, r)
    PROVE  IdsInv'
<1>1. /\ queueData' = Append(queueData, r)
      /\ UNCHANGED <<callbackData, errorCallback, told, worker, tick>>
  BY DEF Ask
<1>2. /\ Ids(queueData)' = Ids(queueData) \cup {Asked + 1}
      /\ Asked + 1 \notin Ids(queueData)
      /\ Distinct(queueData)'
      /\ queueData # <<>> => Head(queueData)' = Head(queueData)
  <2>1. queueData \in Seq(NativeRecords \cup {r}) /\ r \in NativeRecords \cup {r}
    <3> HIDE DEF NativeRecords
    <3> QED BY DEF NoticeInv, QueueInv
  <2> DEFINE S == NativeRecords \cup {r}
  <2> HIDE DEF S
  <2>2. queueData \in Seq(S) /\ r \in S
    BY <2>1 DEF S
  <2> QED BY <1>1, <2>2, IdsPushed, PushedHead, IdsAsked DEF IdsInv
<1>3. Waiting' \subseteq Waiting \cup {Asked + 1}
  <2>1. worker # "idle" => queueData # <<>>
    BY DEF NoticeInv, WorkerInv
  <2> QED BY <1>1, <1>2, <2>1 DEF Waiting
<1>4. Owed' = Owed /\ Reported' = Reported
  BY <1>1 DEF Owed, Reported
<1>5. /\ Asked + 1 \notin Ids(callbackData) /\ Asked + 1 \notin Ids(errorCallback)
      /\ Asked + 1 \notin Ids(told)
  BY IdsAsked
<1> QED BY <1>1, <1>2, <1>3, <1>4, <1>5 DEF IdsInv

LEMMA IdsStatementStep ==
    ASSUME NoticeInv, IdsInv, Statement
    PROVE  IdsInv'
<1> DEFINE r == [id |-> Asked + 1, query |-> Arg("query", Asked + 1),
                 errorid |-> Arg("errorid", Asked + 1),
                 result |-> MinusOne, callback |-> "NULL", extra |-> MinusOne,
                 error |-> Arg("error", Asked + 1)]
<1>1. /\ errorCallback' = Append(errorCallback, r)
      /\ UNCHANGED <<queueData, callbackData, told, worker, tick>>
  BY DEF Statement
<1>2. /\ Ids(errorCallback)' = Ids(errorCallback) \cup {Asked + 1}
      /\ Asked + 1 \notin Ids(errorCallback)
      /\ Distinct(errorCallback)'
      /\ errorCallback # <<>> => Head(errorCallback)' = Head(errorCallback)
  <2> DEFINE S == AllErrorRecords \cup {r}
  <2>1. r.id = Asked + 1
    OBVIOUS
  <2>2. errorCallback \in Seq(S) /\ r \in S
    <3> HIDE DEF AllErrorRecords, r
    <3> QED BY DEF NoticeInv, ErrorInv
  <2> HIDE DEF S, r
  <2> QED BY <1>1, <2>1, <2>2, IdsPushed, PushedHead, IdsAsked DEF IdsInv
<1>3. Reported' \subseteq Reported \cup {Asked + 1}
  <2>1. tick.phase = "error" => errorCallback # <<>>
    BY DEF NoticeInv, TickInv
  <2> QED BY <1>1, <1>2, <2>1 DEF Reported
<1>4. Owed' = Owed /\ Waiting' = Waiting
  BY <1>1 DEF Owed, Waiting
<1>5. /\ Asked + 1 \notin Ids(callbackData) /\ Asked + 1 \notin Ids(queueData)
      /\ Asked + 1 \notin Ids(told) /\ Waiting \subseteq Ids(queueData)
  BY IdsAsked DEF Waiting
<1> QED BY <1>1, <1>2, <1>3, <1>4, <1>5 DEF IdsInv

\* The worker hands its query on, and drops it.
LEMMA IdsWorkerStep ==
    ASSUME NoticeInv, IdsInv, ProcessQueryThread
    PROVE  IdsInv'
<1>0. UNCHANGED <<tick, told>>
  BY DEF ProcessQueryThread
<1>1. CASE WorkerReconnectFails \/ WorkerClearsError \/ WorkerFails
  <2>1. /\ UNCHANGED <<queueData, callbackData, errorCallback>>
        /\ worker' = worker \/ {worker, worker'} \in {{"idle", "failed"}, {"pushed", "pop"}}
    BY <1>1 DEF WorkerReconnectFails, WorkerClearsError, WorkerFails, queues
  <2>2. \/ tick.phase \in {"none", "then"} \/ tick'.phase = tick.phase
    BY <1>0
  <2> QED BY <1>0, <2>1, <2>2, IdsFrame
<1>2. ASSUME queueData # <<>>
      PROVE  /\ Ids(queueData) = {Head(queueData).id} \cup Ids(Tail(queueData))
             /\ Distinct(Tail(queueData)) /\ Head(queueData).id \notin Ids(Tail(queueData))
             /\ Head(queueData) \in NativeRecords
  <2> HIDE DEF NativeRecords
  <2> QED BY <1>2, IdsPopped, Popped1 DEF NoticeInv, QueueInv, IdsInv
<1>3. CASE WorkerSucceeds
  <2>1. /\ queueData # <<>> /\ worker = "idle" /\ worker' = "pushed"
        /\ callbackData' = Append(callbackData, Head(queueData))
        /\ UNCHANGED <<queueData, errorCallback>>
        /\ callbackData = <<>>
    BY <1>3 DEF WorkerSucceeds, NoticeInv, ErrnoInv
  <2> DEFINE h == Head(queueData).id
  <2>2. Ids(callbackData)' = {h} /\ Ids(callbackData) = {}
    <3> HIDE DEF NativeRecords
    <3>1. callbackData \in Seq(NativeRecords)
      BY DEF NoticeInv, CallbackInv
    <3>2. Ids(callbackData') = Ids(callbackData) \cup {h}
      <4>1. Head(queueData) \in NativeRecords
        BY <1>2, <2>1
      <4>2. Ids(Append(callbackData, Head(queueData))) = Ids(callbackData) \cup {h}
        BY <3>1, <4>1, IdsPushed
      <4> QED BY <2>1, <4>2
    <3>3. Ids(callbackData)' = Ids(callbackData')
      BY DEF Ids
    <3> QED BY <2>1, <3>2, <3>3, IdsEmpty
  <2>3. /\ Ids(queueData)' = Ids(queueData) /\ Ids(errorCallback)' = Ids(errorCallback)
        /\ Ids(told)' = Ids(told)
        /\ Distinct(queueData)' /\ Distinct(errorCallback)'
    BY <1>0, <2>1 DEF Ids, Distinct, IdsInv
  <2>4. /\ Waiting = Ids(queueData) /\ Waiting' = Waiting \ {h} /\ h \in Waiting
        /\ Reported' = Reported
        /\ Owed' \subseteq {h}
    BY <1>0, <1>2, <2>1, <2>2, <2>3 DEF Waiting, Reported, Owed
  <2> HIDE DEF h
  <2> QED BY <2>2, <2>3, <2>4 DEF IdsInv
<1>4. CASE WorkerReports
  <2>1. /\ queueData # <<>> /\ worker = "failed" /\ worker' = "pop"
        /\ UNCHANGED <<queueData, callbackData>>
    BY <1>4 DEF WorkerReports, NoticeInv, WorkerInv
  <2> DEFINE h == Head(queueData).id
  <2>2. PICK extra \in {Garbage, Head(queueData).extra} :
           errorCallback' = Append(errorCallback, ErrorInfo(Head(queueData), extra))
    BY <1>4 DEF WorkerReports
  <2>3. /\ Ids(queueData)' = Ids(queueData) /\ Ids(callbackData)' = Ids(callbackData)
        /\ Ids(told)' = Ids(told)
        /\ Distinct(queueData)'
    BY <1>0, <2>1 DEF Ids, Distinct, IdsInv
  <2>4. Waiting = Ids(queueData) /\ Waiting' = Waiting \ {h} /\ h \in Waiting
    BY <1>2, <2>1 DEF Waiting
  <2>5. /\ Ids(errorCallback)' = Ids(errorCallback) \cup {h}
        /\ Distinct(errorCallback)'
        /\ errorCallback # <<>> => Head(errorCallback)' = Head(errorCallback)
    <3> DEFINE r == ErrorInfo(Head(queueData), extra)
               S == AllErrorRecords \cup {r}
    <3>1. r.id = h
      BY DEF ErrorInfo
    <3>2. errorCallback \in Seq(S) /\ r \in S
      <4> HIDE DEF AllErrorRecords, r
      <4> QED BY DEF NoticeInv, ErrorInv
    <3>3. h \notin Ids(errorCallback) /\ Distinct(errorCallback)
      BY <2>4 DEF IdsInv
    <3> HIDE DEF S, r, h
    <3> QED BY <2>2, <3>1, <3>2, <3>3, IdsPushed, PushedHead DEF r
  <2>6. Reported' \subseteq Reported \cup {h} /\ Owed' = Owed
    <3>1. tick.phase = "error" => errorCallback # <<>>
      BY DEF NoticeInv, TickInv
    <3> QED BY <1>0, <2>1, <2>5, <3>1 DEF Reported, Owed
  <2> HIDE DEF h
  <2> QED BY <2>3, <2>4, <2>5, <2>6 DEF IdsInv
<1>5. CASE WorkerPop
  <2>1. /\ queueData # <<>> /\ worker = "pop" /\ worker' = "idle"
        /\ queueData' = Tail(queueData)
        /\ UNCHANGED <<callbackData, errorCallback>>
    BY <1>5 DEF WorkerPop, NoticeInv, WorkerInv
  <2>2. Waiting' = Waiting /\ Distinct(queueData)'
    BY <1>2, <2>1 DEF Waiting, Ids, Distinct
  <2>3. Reported' = Reported /\ Owed' = Owed
    BY <1>0, <2>1 DEF Reported, Owed
  <2> QED BY <1>0, <2>1, <2>2, <2>3 DEF IdsInv
<1> QED BY <1>1, <1>3, <1>4, <1>5 DEF ProcessQueryThread

\* ProcessTick: an entry is told and then popped.
LEMMA IdsTickStep ==
    ASSUME NoticeInv, TypeInv, IdsInv, ProcessTick
    PROVE  IdsInv'
<1>0. UNCHANGED worker
  BY DEF ProcessTick
<1>1. CASE TickError \/ TickFinish \/ TickReturn \/ (TickCall /\ UNCHANGED told)
  <2>1. /\ UNCHANGED <<queueData, callbackData, errorCallback, told>>
        /\ tick'.phase = tick.phase \/ tick'.phase \in {"error", "finish", "then"}
                                    \/ (tick.phase = "then" /\ tick'.phase = "none")
        /\ tick.phase \in {"none", "then"} \/ tick'.phase = tick.phase
    BY <1>1 DEF TickError, TickFinish, TickReturn, TickCall, Goto, NoTick, queues
  <2> QED BY <1>0, <2>1 DEF IdsInv, Waiting, Owed, Reported
<1>2. CASE TickCall /\ told' = Append(told, Call)
  <2>1. /\ tick.phase \in {"error", "finish"} /\ tick'.phase = tick.phase
        /\ UNCHANGED <<queueData, callbackData, errorCallback>>
    BY <1>2 DEF TickCall, Goto, queues
  <2>2. Ids(told)' = Ids(told) \cup {Entry.id}
    <3> DEFINE S == Range(told) \cup {Call}
    <3>1. Call.id = Entry.id
      BY DEF Call
    <3>2. told \in Seq(S) /\ Call \in S
      <4> DEFINE R == Range(told)
      <4>1. told \in Seq(R)
        BY DEF NoticeInv, ToldInv
      <4> HIDE DEF R, Call
      <4> QED BY <4>1 DEF R
    <3>3. Ids(told)' = Ids(told')
      BY DEF Ids
    <3> HIDE DEF S, Call
    <3> QED BY <1>2, <3>1, <3>2, <3>3, IdsPushed
  <2>3. Waiting' = Waiting /\ Owed' = Owed /\ Reported' = Reported
    BY <1>0, <2>1 DEF Waiting, Owed, Reported
  <2>4. Entry.id \notin Waiting \cup Owed \cup Reported
    <3>1. CASE tick.phase = "error"
      <4>1. errorCallback # <<>>
        BY <3>1 DEF NoticeInv, TickInv
      <4>2. Entry.id \in Ids(errorCallback)
        <5> HIDE DEF AllErrorRecords
        <5> QED BY <3>1, <4>1, IdsPopped DEF NoticeInv, ErrorInv, Entry
      <4> QED BY <3>1, <4>2 DEF IdsInv, Owed, Reported, Entry
    <3>2. CASE tick.phase = "finish"
      <4>1. callbackData # <<>>
        BY <3>2 DEF NoticeInv, TickInv
      <4>2. Entry.id \in Ids(callbackData)
        <5> HIDE DEF NativeRecords
        <5> QED BY <3>2, <4>1, IdsPopped DEF NoticeInv, CallbackInv, Entry
      <4> QED BY <3>2, <4>2 DEF IdsInv, Owed, Reported
    <3> QED BY <2>1, <3>1, <3>2
  <2> QED BY <2>1, <2>2, <2>3, <2>4 DEF IdsInv, Ids, Distinct
<1>3. CASE TickErrorDone
  <2>1. /\ tick.phase = "error" /\ tick'.phase = "then"
        /\ errorCallback' = Tail(errorCallback) /\ errorCallback # <<>>
        /\ UNCHANGED <<queueData, callbackData, told>>
    BY <1>3 DEF TickErrorDone, Goto, NoticeInv, TickInv
  <2>2. /\ Ids(errorCallback) = {Head(errorCallback).id} \cup Ids(Tail(errorCallback))
        /\ Distinct(Tail(errorCallback))
        /\ Head(errorCallback).id \notin Ids(Tail(errorCallback))
    <3> HIDE DEF AllErrorRecords
    <3> QED BY <2>1, IdsPopped DEF NoticeInv, ErrorInv, IdsInv
  <2>3. /\ Ids(errorCallback)' \subseteq Ids(errorCallback)
        /\ Reported' = Reported /\ Distinct(errorCallback)'
    <3>1. Ids(errorCallback)' = Ids(errorCallback')
      BY DEF Ids
    <3>2. Distinct(errorCallback)'
      BY <2>1, <2>2 DEF Distinct
    <3> QED BY <2>1, <2>2, <3>1, <3>2 DEF Reported
  <2>4. Waiting' = Waiting /\ Owed' = Owed
    BY <1>0, <2>1 DEF Waiting, Owed
  <2> QED BY <2>1, <2>3, <2>4 DEF IdsInv
<1>4. CASE TickFinishDone
  <2>1. /\ tick.phase = "finish" /\ tick'.phase = "none"
        /\ callbackData' = Tail(callbackData) /\ callbackData # <<>>
        /\ UNCHANGED <<queueData, errorCallback, told>>
    BY <1>4 DEF TickFinishDone, NoTick, NoticeInv, TickInv
  <2>2. callbackData' = <<>>
    <3> HIDE DEF NativeRecords
    <3>1. /\ Tail(callbackData) \in Seq(NativeRecords)
          /\ Len(Tail(callbackData)) = Len(callbackData) - 1
          /\ Len(callbackData) \in Nat /\ Len(Tail(callbackData)) \in Nat
      BY <2>1, Popped1 DEF NoticeInv, CallbackInv
    <3>2. Len(callbackData) <= 1
      BY DEF NoticeInv, ErrnoInv
    <3>3. Len(Tail(callbackData)) = 0
      BY <3>1, <3>2
    <3> QED BY <2>1, <3>1, <3>3, LenZero
  <2>3. Ids(callbackData)' = {}
    BY <2>2, IdsEmpty DEF Ids
  <2>4. Waiting' = Waiting /\ Reported' = Reported /\ Owed' = {}
    BY <1>0, <2>1, <2>3 DEF Waiting, Reported, Owed
  <2> QED BY <2>1, <2>3, <2>4 DEF IdsInv
<1> QED BY <1>1, <1>2, <1>3, <1>4 DEF ProcessTick, TickCall, Call

\* The entry ProcessTick is at stays the first while others are pushed.
LEMMA EntryKept ==
    ASSUME NoticeInv, tick.phase \in {"error", "finish"},
           \/ MysqlQuery \/ MysqlQueryCallback \/ Statement \/ NativeErrno
           \/ \E s \in Scripts : AmxLoad(s) \/ AmxUnload(s)
           \/ ProcessQueryThread
    PROVE  Entry' = Entry /\ Public' = Public
<1>0. UNCHANGED tick
  BY DEF MysqlQuery, MysqlQueryCallback, Ask, Statement, NativeErrno, AmxLoad, AmxUnload,
         ProcessQueryThread
<1>1. \/ UNCHANGED <<callbackData, errorCallback>>
      \/ \E r : errorCallback' = Append(errorCallback, r) /\ UNCHANGED callbackData
      \/ WorkerSucceeds
  BY DEF MysqlQuery, MysqlQueryCallback, Ask, Statement, NativeErrno, AmxLoad, AmxUnload,
         ProcessQueryThread, WorkerReconnectFails, WorkerClearsError, WorkerFails,
         WorkerReports, WorkerPop, queues
<1>2. tick.phase = "error" => Head(errorCallback)' = Head(errorCallback)
  <2>1. ASSUME tick.phase = "error", NEW r, errorCallback' = Append(errorCallback, r)
        PROVE  Head(errorCallback)' = Head(errorCallback)
    <3> DEFINE S == AllErrorRecords \cup {r}
    <3>1. errorCallback # <<>>
      BY <2>1 DEF NoticeInv, TickInv
    <3>2. errorCallback \in Seq(S) /\ r \in S
      <4> HIDE DEF AllErrorRecords
      <4> QED BY DEF NoticeInv, ErrorInv
    <3> HIDE DEF S
    <3> QED BY <2>1, <3>1, <3>2, PushedHead
  <2> QED BY <1>1, <2>1 DEF WorkerSucceeds
<1>3. tick.phase = "finish" => callbackData' = callbackData
  <2>1. tick.phase = "finish" => m_bQueryProcessing
    BY DEF NoticeInv, TickInv, ErrnoInv
  <2> QED BY <1>1, <2>1 DEF WorkerSucceeds
<1> QED BY <1>0, <1>2, <1>3 DEF Entry, Public

\* A step that neither tells anyone nor moves ProcessTick or the scripts.
LEMMA ProgressFrame ==
    ASSUME OnceInv, ProgressInv, UNCHANGED <<p_Amx, tick, told, loaded>>,
           tick.phase \in {"error", "finish"} => Entry' = Entry /\ Public' = Public
    PROVE  OnceInv' /\ ProgressInv'
BY DEF OnceInv, ProgressInv, UpTo, ToldIfPublic, Was

LEMMA ProgressLoad ==
    ASSUME NoticeInv, TypeInv, PlaceInv, OnceInv, ProgressInv,
           NEW s \in Scripts, AmxLoad(s)
    PROVE  OnceInv' /\ ProgressInv'
<1>1. /\ UNCHANGED <<tick, told>> /\ loaded' = loaded \cup {s} /\ s \notin loaded
      /\ tick.phase = "none" \/ tick.busy
  BY DEF AmxLoad, ScriptRuns
<1>2. OnceInv'
  BY <1>1 DEF OnceInv
<1>3. /\ DOMAIN p_Amx' = 1 .. Len(p_Amx) + 1 /\ Len(p_Amx) \in Nat
      /\ DOMAIN p_Amx = 1 .. Len(p_Amx)
      /\ \A i \in 1 .. Len(p_Amx) : p_Amx'[i] = p_Amx[i]
      /\ p_Amx'[Len(p_Amx) + 1] = s
  BY ScriptLoaded DEF TypeInv, ScriptTypes
<1>4. ASSUME tick.phase \in {"error", "finish"}, NEW j \in DOMAIN p_Amx',
             p_Amx'[j] = tick.amx, NEW i \in DOMAIN p_Amx'
      PROVE  /\ i < j \/ (i = j /\ tick.busy) => ToldIfPublic(p_Amx'[i])
             /\ i > j \/ (i = j /\ ~tick.busy) => ~Was(p_Amx'[i])
  <2>1. tick.amx # End /\ tick.amx # s
    BY <1>1, <1>4 DEF PlaceInv, ProgressInv
  <2>2. j \in DOMAIN p_Amx /\ p_Amx[j] = tick.amx
    BY <1>3, <1>4, <2>1
  <2>3. UpTo(j)
    BY <1>4, <2>2 DEF ProgressInv
  <2>4. CASE i = Len(p_Amx) + 1
    <3>1. ~Was(s)
      BY <1>1 DEF OnceInv, Was
    <3> QED BY <1>3, <2>2, <2>4, <3>1
  <2>5. CASE i \in DOMAIN p_Amx
    BY <1>3, <2>3, <2>5 DEF UpTo
  <2> QED BY <1>3, <2>4, <2>5
<1>5. tick.phase \in {"error", "finish"} => tick.amx # End
  BY <1>1 DEF PlaceInv
<1>6. tick.phase \in {"error", "finish"} => Entry' = Entry /\ Public' = Public
  BY EntryKept
<1> QED BY <1>1, <1>2, <1>4, <1>5, <1>6 DEF ProgressInv, UpTo, ToldIfPublic, Was

LEMMA ProgressUnload ==
    ASSUME NoticeInv, TypeInv, PlaceInv, OnceInv, ProgressInv,
           NEW s \in Scripts, AmxUnload(s)
    PROVE  OnceInv' /\ ProgressInv'
<1>1. /\ UNCHANGED <<tick, told, loaded>>
      /\ tick.phase = "none" \/ tick.busy
  BY DEF AmxUnload, ScriptRuns
<1>2. OnceInv'
  BY <1>1 DEF OnceInv
<1>3. PICK h \in DOMAIN p_Amx :
         /\ DOMAIN p_Amx' = 1 .. Len(p_Amx) - 1
         /\ \A i \in 1 .. Len(p_Amx) - 1 :
               p_Amx'[i] = IF i < h THEN p_Amx[i] ELSE p_Amx[i + 1]
  BY ScriptErased DEF TypeInv
<1>4. DOMAIN p_Amx = 1 .. Len(p_Amx) /\ Len(p_Amx) \in Nat
  BY DEF TypeInv, ScriptTypes
<1> DEFINE was(i) == IF i < h THEN i ELSE i + 1
<1>5. /\ \A i \in DOMAIN p_Amx' : was(i) \in DOMAIN p_Amx /\ p_Amx'[i] = p_Amx[was(i)]
      /\ \A i, j \in DOMAIN p_Amx' : /\ i < j <=> was(i) < was(j)
                                     /\ i > j <=> was(i) > was(j)
                                     /\ i = j <=> was(i) = was(j)
  BY <1>3, <1>4
<1> HIDE DEF was
<1>6. ASSUME tick.phase \in {"error", "finish"}, NEW j \in DOMAIN p_Amx',
             p_Amx'[j] = tick.amx, NEW i \in DOMAIN p_Amx'
      PROVE  /\ i < j \/ (i = j /\ tick.busy) => ToldIfPublic(p_Amx'[i])
             /\ i > j \/ (i = j /\ ~tick.busy) => ~Was(p_Amx'[i])
  <2>1. was(j) \in DOMAIN p_Amx /\ p_Amx[was(j)] = tick.amx
    BY <1>5, <1>6
  <2>2. UpTo(was(j))
    BY <1>6, <2>1 DEF ProgressInv
  <2> QED BY <1>5, <2>2 DEF UpTo
<1>7. tick.phase \in {"error", "finish"} => tick.amx # End
  BY <1>1 DEF PlaceInv
<1>8. tick.phase \in {"error", "finish"} => Entry' = Entry /\ Public' = Public
  BY EntryKept
<1> QED BY <1>1, <1>2, <1>6, <1>7, <1>8 DEF ProgressInv, UpTo, ToldIfPublic, Was

\* ProcessTick comes to an entry of which nobody was told.
LEMMA NobodyTold ==
    ASSUME NoticeInv, IdsInv, ProcessTick, TickError \/ TickFinish,
           tick'.phase \in {"error", "finish"}
    PROVE  \A i \in DOMAIN told : told[i].id # Entry'.id
<1>1. \A i \in DOMAIN told : told[i].id \in Ids(told)
  BY DEF Ids
<1>2. CASE TickError
  <2>1. /\ errorCallback # <<>> /\ tick.phase = "none" /\ tick'.phase = "error"
        /\ UNCHANGED errorCallback
    BY <1>2 DEF TickError, Goto, queues
  <2>2. Head(errorCallback).id \in Ids(errorCallback)
    <3> HIDE DEF AllErrorRecords
    <3> QED BY <2>1, IdsPopped DEF NoticeInv, ErrorInv
  <2>3. Entry' = Head(errorCallback)
    BY <2>1 DEF Entry
  <2> QED BY <1>1, <2>1, <2>2, <2>3 DEF IdsInv, Reported
<1>3. CASE TickFinish
  <2>1. /\ callbackData # <<>> /\ tick.phase = "then" /\ tick'.phase = "finish"
        /\ UNCHANGED callbackData
    BY <1>3 DEF TickFinish, Goto, NoTick, queues
  <2>2. Head(callbackData).id \in Ids(callbackData)
    <3> HIDE DEF NativeRecords
    <3> QED BY <2>1, IdsPopped DEF NoticeInv, CallbackInv
  <2>3. Entry' = Head(callbackData)
    BY <2>1 DEF Entry
  <2> QED BY <1>1, <2>1, <2>2, <2>3 DEF IdsInv, Owed
<1> QED BY <1>2, <1>3

\* The iterator moves on from a script that was told, or has no such public.
LEMMA ProgressNext ==
    ASSUME TypeInv, ProgressInv, UNCHANGED <<p_Amx, queues, told, loaded>>,
           tick' = [phase |-> tick.phase, amx |-> After(tick.amx), busy |-> FALSE],
           tick.phase \in {"error", "finish"},
           NEW k \in DOMAIN p_Amx, p_Amx[k] = tick.amx, ToldIfPublic(p_Amx[k])
    PROVE  ProgressInv'
<1>1. DOMAIN p_Amx = 1 .. Len(p_Amx) /\ Len(p_Amx) \in Nat
  BY DEF TypeInv, ScriptTypes
<1>2. /\ After(tick.amx) = IF k = Len(p_Amx) THEN End ELSE p_Amx[k + 1]
      /\ After(tick.amx) # End => k + 1 \in DOMAIN p_Amx /\ p_Amx[k + 1] = After(tick.amx)
  BY AfterIs DEF TypeInv
<1>3. Entry' = Entry /\ Public' = Public
  BY DEF Entry, Public, queues
<1>4. UpTo(k)
  BY DEF ProgressInv
<1>5. \A i \in DOMAIN p_Amx : i <= k => ToldIfPublic(p_Amx[i])
  BY <1>1, <1>4 DEF UpTo
<1>6. \A i \in DOMAIN p_Amx : i > k => ~Was(p_Amx[i])
  BY <1>4 DEF UpTo
<1>7. tick'.amx # End => tick'.amx \in loaded
  BY <1>2 DEF TypeInv, ScriptsInv
<1>8. tick'.amx = End => \A i \in DOMAIN p_Amx : ToldIfPublic(p_Amx[i])
  <2>1. tick'.amx = End => k = Len(p_Amx)
    BY <1>1, <1>2, EndAssumption DEF TypeInv, ScriptTypes
  <2> QED BY <1>1, <1>5, <2>1
<1>9. ASSUME NEW j \in DOMAIN p_Amx, p_Amx[j] = tick'.amx, NEW i \in DOMAIN p_Amx
      PROVE  /\ i < j => ToldIfPublic(p_Amx[i])
             /\ i >= j => ~Was(p_Amx[i])
  <2>1. tick'.amx # End
    BY <1>9, EndAssumption DEF TypeInv, ScriptTypes
  <2>2. j = k + 1
    BY <1>2, <1>9, <2>1 DEF TypeInv, ScriptsInv
  <2> QED BY <1>1, <1>5, <1>6, <2>2
<1>10. \A i, j \in DOMAIN p_Amx : i > j \/ i = j <=> i >= j
  BY <1>1
<1> QED BY <1>3, <1>7, <1>8, <1>9, <1>10 DEF ProgressInv, UpTo, ToldIfPublic, Was

\* A public is called: its script was told of this query never before.
LEMMA ProgressCall ==
    ASSUME NoticeInv, TypeInv, PlaceInv, OnceInv, ProgressInv, TickCall,
           UNCHANGED <<p_Amx, loaded>>, told' = Append(told, Call),
           tick' = [phase |-> tick.phase, amx |-> tick.amx, busy |-> TRUE]
    PROVE  OnceInv' /\ ProgressInv'
<1>1. /\ tick.phase \in {"error", "finish"} /\ tick.amx # End /\ ~tick.busy
      /\ UNCHANGED queues
  BY DEF TickCall
<1>2. PICK k \in DOMAIN p_Amx : p_Amx[k] = tick.amx
  BY <1>1 DEF PlaceInv
<1>3. Entry' = Entry /\ Public' = Public
  BY <1>1 DEF Entry, Public, queues
<1>4. /\ DOMAIN told = 1 .. Len(told) /\ DOMAIN told' = 1 .. Len(told) + 1
      /\ Len(told) \in Nat /\ told'[Len(told) + 1] = Call
      /\ \A i \in 1 .. Len(told) : told'[i] = told[i]
  <2> DEFINE S == CallType \cup {Call}
  <2>1. told \in Seq(S) /\ Call \in S
    <3> HIDE DEF CallType, Call
    <3> QED BY DEF TypeInv, HistoryTypes
  <2> HIDE DEF S, Call
  <2> QED BY <2>1
<1>5. Call.amx = tick.amx /\ Call.id = Entry.id
  BY DEF Call
<1>6. UpTo(k)
  BY <1>1, <1>2 DEF ProgressInv
<1>7. ~Was(tick.amx)
  BY <1>1, <1>2, <1>6 DEF UpTo
<1>8. \A i \in 1 .. Len(told) + 1 : i \in 1 .. Len(told) \/ i = Len(told) + 1
  BY <1>4
<1> HIDE DEF Call
<1>9. OnceInv'
  <2>1. tick.amx \in loaded
    BY <1>1 DEF ProgressInv
  <2>2. \A i \in DOMAIN told' : told'[i].amx \in loaded
    BY <1>4, <1>5, <1>8, <2>1 DEF OnceInv
  <2>3. ASSUME NEW i \in DOMAIN told', NEW j \in DOMAIN told',
               told'[i].amx = told'[j].amx, told'[i].id = told'[j].id
        PROVE  i = j
    <3>1. \A t \in DOMAIN told : told[t].amx # tick.amx \/ told[t].id # Entry.id
      BY <1>7 DEF Was
    <3> QED BY <1>4, <1>5, <1>8, <2>3, <3>1 DEF OnceInv
  <2> QED BY <2>2, <2>3 DEF OnceInv
<1>10. \A i \in DOMAIN p_Amx :
          (\E t \in DOMAIN told' : told'[t].amx = p_Amx[i] /\ told'[t].id = Entry.id)
             <=> Was(p_Amx[i]) \/ p_Amx[i] = tick.amx
  BY <1>4, <1>5, <1>8 DEF Was
<1>11. ASSUME NEW j \in DOMAIN p_Amx, p_Amx[j] = tick.amx
       PROVE  j = k
  BY <1>2, <1>11 DEF TypeInv, ScriptsInv
<1>12. DOMAIN p_Amx = 1 .. Len(p_Amx) /\ Len(p_Amx) \in Nat
  BY DEF TypeInv, ScriptTypes
<1>13. ASSUME NEW i \in DOMAIN p_Amx
       PROVE  /\ i <= k => (HasPublic(p_Amx[i], Public)
                              => Was(p_Amx[i]) \/ p_Amx[i] = tick.amx)
              /\ i > k => ~(Was(p_Amx[i]) \/ p_Amx[i] = tick.amx)
  BY <1>2, <1>6, <1>11, <1>12 DEF UpTo, ToldIfPublic
<1>14. UpTo(k)'
  <2>1. \A i \in DOMAIN p_Amx : (i < k \/ i = k <=> i <= k)
    BY <1>12
  <2> QED BY <1>3, <1>10, <1>13, <2>1 DEF UpTo, ToldIfPublic, Was
<1>15. tick'.amx = tick.amx /\ tick.amx \in loaded
  BY <1>1 DEF ProgressInv
<1> QED BY <1>1, <1>9, <1>11, <1>14, <1>15 DEF ProgressInv

LEMMA ProgressTick ==
    ASSUME NoticeInv, TypeInv, PlaceInv, IdsInv, OnceInv, ProgressInv, ProcessTick
    PROVE  OnceInv' /\ ProgressInv'
<1>0. UNCHANGED <<p_Amx, loaded>>
  BY DEF ProcessTick
<1>1. CASE TickError \/ TickFinish
  <2>1. UNCHANGED told
    BY <1>1 DEF TickError, TickFinish
  <2>2. OnceInv'
    BY <1>0, <2>1 DEF OnceInv
  <2>3. PICK amx \in {Begin, End} :
           /\ tick'.amx = amx /\ tick'.busy = FALSE
           /\ tick'.phase \in {"error", "finish"} => amx = Begin
    BY <1>1 DEF TickError, TickFinish, Goto, NoTick
  <2>4. tick'.amx # End => tick'.amx \in loaded
    BY <2>3, BeginIs DEF TypeInv, ScriptsInv
  <2>5. ASSUME tick'.phase \in {"error", "finish"}
        PROVE  \A i \in DOMAIN told' : told'[i].id # Entry'.id
    BY <1>1, <2>1, <2>5, NobodyTold
  <2>6. ASSUME tick'.phase \in {"error", "finish"}, tick'.amx = End
        PROVE  DOMAIN p_Amx = {}
    <3>1. p_Amx = <<>>
      BY <2>3, <2>6, BeginIs DEF TypeInv
    <3> QED BY <3>1
  <2>7. ASSUME tick'.phase \in {"error", "finish"},
               NEW j \in DOMAIN p_Amx, p_Amx[j] = tick'.amx, NEW i \in DOMAIN p_Amx
        PROVE  i >= j
    <3>1. DOMAIN p_Amx = 1 .. Len(p_Amx) /\ Len(p_Amx) \in Nat
      BY DEF TypeInv, ScriptTypes
    <3>2. j = 1
      BY <2>3, <2>7, <3>1, BeginIs, EndAssumption DEF TypeInv, ScriptsInv, ScriptTypes
    <3> QED BY <3>1, <3>2
  <2>8. \A i, j \in DOMAIN p_Amx : i >= j => ~(i < j)
    BY DEF TypeInv, ScriptTypes
  <2>9. ProgressInv'
    BY <1>0, <2>3, <2>4, <2>5, <2>6, <2>7, <2>8 DEF ProgressInv, UpTo, ToldIfPublic, Was
  <2> QED BY <2>2, <2>9
<1>2. CASE TickErrorDone \/ TickFinishDone
  <2>1. /\ UNCHANGED told /\ tick'.phase \in {"none", "then"} /\ tick'.amx = End
    BY <1>2 DEF TickErrorDone, TickFinishDone, Goto, NoTick
  <2> QED BY <1>0, <2>1 DEF OnceInv, ProgressInv
<1>3. CASE TickCall
  <2>1. PICK k \in DOMAIN p_Amx : p_Amx[k] = tick.amx
    BY <1>3 DEF TickCall, PlaceInv
  <2>2. CASE HasPublic(tick.amx, Public)
    <3>1. /\ told' = Append(told, Call)
          /\ tick' = [phase |-> tick.phase, amx |-> tick.amx, busy |-> TRUE]
      BY <1>3, <2>2 DEF TickCall, Goto, Call
    <3> QED BY <1>0, <1>3, <3>1, ProgressCall
  <2>3. CASE ~HasPublic(tick.amx, Public)
    <3>1. /\ UNCHANGED <<told, queues>>
          /\ tick' = [phase |-> tick.phase, amx |-> After(tick.amx), busy |-> FALSE]
          /\ tick.phase \in {"error", "finish"}
      BY <1>3, <2>3 DEF TickCall, Goto
    <3>2. ToldIfPublic(p_Amx[k])
      BY <2>1, <2>3 DEF ToldIfPublic
    <3> QED BY <1>0, <2>1, <3>1, <3>2, ProgressNext DEF OnceInv
  <2> QED BY <2>2, <2>3
<1>4. CASE TickReturn
  <2>1. UNCHANGED <<told, queues>> /\ tick.busy /\ tick.phase \in {"error", "finish"}
    BY <1>4 DEF TickReturn, NoticeInv, TickInv
  <2>2. CASE Gone
    <3>1. UNCHANGED tick
      BY <1>4, <2>2 DEF TickReturn
    <3>2. Entry' = Entry /\ Public' = Public
      BY <2>1, <3>1 DEF Entry, Public, queues
    <3> QED BY <1>0, <2>1, <3>1, <3>2, ProgressFrame
  <2>3. CASE ~Gone
    <3>1. tick' = [phase |-> tick.phase, amx |-> After(tick.amx), busy |-> FALSE]
      BY <1>4, <2>3 DEF TickReturn, Goto, Next
    <3>2. PICK k \in DOMAIN p_Amx : p_Amx[k] = tick.amx
      BY <2>3 DEF Gone, ToSet
    <3>3. ToldIfPublic(p_Amx[k])
      <4>1. UpTo(k)
        BY <2>1, <3>2 DEF ProgressInv
      <4> QED BY <2>1, <4>1 DEF UpTo
    <3> QED BY <1>0, <2>1, <3>1, <3>2, <3>3, ProgressNext DEF OnceInv
  <2> QED BY <2>2, <2>3
<1> QED BY <1>1, <1>2, <1>3, <1>4 DEF ProcessTick

LEMMA TellStep ==
    ASSUME NoticeInv, TypeInv, PlaceInv, TellInv, NoticeNext
    PROVE  TellInv'
<1> USE DEF TellInv
<1>1. CASE ProcessTick
  BY <1>1, IdsTickStep, ProgressTick
<1>2. CASE MysqlQuery \/ MysqlQueryCallback \/ Statement \/ NativeErrno \/ ProcessQueryThread
  <2>1. UNCHANGED <<p_Amx, tick, told, loaded>>
    BY <1>2 DEF MysqlQuery, MysqlQueryCallback, Ask, Statement, NativeErrno, ProcessQueryThread
  <2>2. OnceInv' /\ ProgressInv'
    BY <1>2, <2>1, EntryKept, ProgressFrame
  <2>3. IdsInv'
    <3>1. CASE MysqlQuery \/ MysqlQueryCallback
      <4>1. PICK n, r : Ask(n, r) /\ r.id = Asked + 1
        BY <3>1 DEF MysqlQuery, MysqlQueryCallback, OldQuery, Query
      <4> QED BY <4>1, IdsAskStep
    <3>2. CASE NativeErrno
      BY <2>1, <3>2, IdsFrame DEF NativeErrno, queues
    <3> QED BY <1>2, <3>1, <3>2, IdsStatementStep, IdsWorkerStep
  <2> QED BY <2>2, <2>3
<1>3. ASSUME NEW s \in Scripts, AmxLoad(s) \/ AmxUnload(s)
      PROVE  TellInv'
  <2>1. UNCHANGED <<tick, told, queueData, callbackData, errorCallback, worker>>
    BY <1>3 DEF AmxLoad, AmxUnload, queues
  <2>2. IdsInv'
    BY <2>1, IdsFrame
  <2> QED BY <1>3, <2>2, ProgressLoad, ProgressUnload
<1> QED BY <1>1, <1>2, <1>3 DEF NoticeNext

LEMMA TellRests == TellInv /\ UNCHANGED vars => TellInv'
<1> SUFFICES ASSUME TellInv, UNCHANGED vars PROVE TellInv'
  OBVIOUS
<1>1. /\ UNCHANGED <<queueData, callbackData, errorCallback, told, worker, tick>>
      /\ UNCHANGED <<p_Amx, loaded>>
  BY DEF vars, queues, history
<1>2. IdsInv'
  <2>1. Waiting' = Waiting /\ Owed' = Owed /\ Reported' = Reported
    BY <1>1 DEF Waiting, Owed, Reported
  <2> QED BY <1>1, <2>1 DEF TellInv, IdsInv, Ids, Distinct
<1>3. Entry' = Entry /\ Public' = Public
  BY <1>1 DEF Entry, Public
<1> QED BY <1>1, <1>2, <1>3, ProgressFrame DEF TellInv

(***************************************************************************)
(* An id is in one queue at a time and is told from one entry, and behind  *)
(* ProcessTick's iterator everyone who has the public was told of it.      *)
(***************************************************************************)
THEOREM TellInductive == NoticeSpec => []TellInv
<1>1. NoticeInit => TellInv
  <2> SUFFICES ASSUME NoticeInit PROVE TellInv
    OBVIOUS
  <2>1. /\ queueData = <<>> /\ callbackData = <<>> /\ errorCallback = <<>>
        /\ told = <<>> /\ DOMAIN <<>> = {} /\ tick = NoTick
    BY DEF NoticeInit
  <2>2. IdsInv
    BY <2>1, IdsEmpty DEF IdsInv, Waiting, Owed, Reported, NoTick
  <2>3. OnceInv
    BY <2>1 DEF OnceInv
  <2>4. ProgressInv
    BY <2>1 DEF ProgressInv, NoTick
  <2> QED BY <2>2, <2>3, <2>4 DEF TellInv
<1>2. NoticeInv /\ TypeInv /\ PlaceInv /\ TellInv /\ [NoticeNext]_vars => TellInv'
  BY TellStep, TellRests
<1> QED BY <1>1, <1>2, NoticeInductive, PlaceInductive, PTL DEF NoticeSpec

(***************************************************************************)
(* Whatever scripts come and go in whatever callback: each that is loaded  *)
(* when an entry is popped and has the public was told of it exactly once, *)
(* and nobody is told of a query twice, by its callback and by             *)
(* OnQueryError together.                                                  *)
(***************************************************************************)
THEOREM EveryoneTold == NoticeSpec => []EveryScriptTold
<1>1. NoticeInv /\ TypeInv /\ TellInv => EveryScriptTold
  <2> SUFFICES ASSUME NoticeInv, TypeInv, TellInv PROVE EveryScriptTold
    OBVIOUS
  <2> DEFINE Calls(s, q) == {i \in DOMAIN told : told[i].amx = s /\ told[i].id = q}
  <2>1. \A s, q : \A i \in Calls(s, q) : Calls(s, q) = {i}
    BY DEF TellInv, OnceInv
  <2>2. \A s, q : Times(s, q) = Cardinality(Calls(s, q))
    BY DEF Times
  <2> HIDE DEF Calls
  <2>3. \A s, q : Calls(s, q) = {} \/ \E i : Calls(s, q) = {i}
    BY <2>1
  <2>4. \A s \in Scripts, q \in Queries : Times(s, q) <= 1
    <3> TAKE s \in Scripts, q \in Queries
    <3>1. Calls(s, q) = {} => Times(s, q) = 0
      BY <2>2, FS_EmptySet
    <3>2. (\E i : Calls(s, q) = {i}) => Times(s, q) = 1
      BY <2>2, FS_Singleton
    <3> QED BY <2>3, <3>1, <3>2
  <2>5. ASSUME tick.phase \in {"error", "finish"}, tick.amx = End,
               NEW s \in ToSet(p_Amx), HasPublic(s, Public)
        PROVE  Times(s, Entry.id) = 1
    <3>1. Was(s)
      BY <2>5 DEF TellInv, ProgressInv, ToldIfPublic, ToSet
    <3>2. PICK i : i \in Calls(s, Entry.id)
      BY <3>1 DEF Was, Calls
    <3>3. Calls(s, Entry.id) = {i}
      BY <2>1, <3>2
    <3> QED BY <2>2, <3>3, FS_Singleton
  <2> QED BY <2>4, <2>5 DEF EveryScriptTold
<1> QED BY <1>1, NoticeInductive, PlaceInductive, TellInductive, PTL
=============================================================================
