----------------------------- MODULE QueryNotice ----------------------------
(***************************************************************************)
(* What the scripts are told of a query: the arguments of the natives go   *)
(* into a mainInfo record, through the worker into callbackData or, as an  *)
(* errorInfo, into errorCallback, and from there to OnQueryError or the    *)
(* callback of every script that has it, while scripts come and go.        *)
(*                                                                         *)
(* One handle.  A number, a query or a text a script passes stands for     *)
(* itself: which argument of which call it was.  When a threaded query may *)
(* start is the subject of QueryThread.                                    *)
(***************************************************************************)
EXTENDS Naturals, SequencesExt

CONSTANTS
    Scripts,
    HasPublic(_, _),   \* which publics a script has
    MaxQueries         \* bound: calls of the querying natives

ASSUME NoticeAssumption == MaxQueries \in Nat

VARIABLES
    p_Amx,                                   \* the scripts loaded, in order
    queueData, callbackData, errorCallback,
    m_bQueryProcessing, m_dwError,
    worker,                                  \* where ProcessQueryThread is
    tick,                                    \* where ProcessTick is
    fault,
    \* history
    asked,                                   \* the native of each query
    told,                                    \* calls of publics, in order
    loaded,                                  \* scripts that were ever loaded
    early, alone                             \* see TickSafe, ErrnoOfCallback

queues  == <<queueData, callbackData, errorCallback>>
history == <<asked, told, loaded, early, alone>>

vars == <<p_Amx, queues, m_bQueryProcessing, m_dwError, worker, tick, fault,
          history>>

Queries == 1 .. MaxQueries
Asked == Len(asked)

\* Argument "of" of the call that made query "from".
Arg(of, from) == [of |-> of, from |-> from]
Handle == Arg("handle", 1)
Garbage == Arg("garbage", 0)

\* Mutant: the ids are kept unsigned.
LargestUnsigned == Arg("4294967295", 0)

MinusOne == Arg("-1", 0)

Publics == {"OnQueryFinish", "OnCustom", "OnQueryError", "NULL"}
Name(public) == Arg(public, 0)

Args == [of : Publics \cup {"query", "result", "extra", "handle", "error",
                            "errorid", "garbage", "-1"}, from : 0 .. MaxQueries]

Records == [id : Queries, query : Args, result : Args, extra : Args,
            callback : Publics]
ErrorRecords == [id : Queries, query : Args, result : Args, extra : Args,
                 callback : Publics, error : Args, errorid : Args]

\* ProcessTick's iterator: the script it has come to, or the end.
End == "end"

ASSUME EndAssumption == End \notin Scripts

NoTick == [phase |-> "none", amx |-> End, busy |-> FALSE]

NoticeTypeOK ==
    /\ p_Amx \in Seq(Scripts)
    /\ queueData \in Seq(Records)
    /\ callbackData \in Seq(Records)
    /\ errorCallback \in Seq(ErrorRecords)
    /\ m_bQueryProcessing \in BOOLEAN
    /\ m_dwError \in 0 .. MaxQueries
    /\ worker \in {"idle", "failed", "pushed", "pop"}
    /\ tick \in [phase : {"none", "error", "then", "finish"},
                 amx : Scripts \cup {End}, busy : BOOLEAN]
    /\ fault \in BOOLEAN
    /\ asked \in Seq({"mysql_query", "mysql_query_callback", "statement"})
    /\ Asked \in 0 .. MaxQueries
    /\ told \in Seq([amx : Scripts, id : Queries, public : Publics,
                     args : Seq(Args)])
    /\ loaded \in SUBSET Scripts
    /\ early \in BOOLEAN
    /\ alone \in BOOLEAN

\* The constructor leaves m_dwError as it finds it.
NoticeInit ==
    /\ p_Amx = <<>>
    /\ queueData = <<>> /\ callbackData = <<>> /\ errorCallback = <<>>
    /\ m_bQueryProcessing = FALSE
    /\ m_dwError \in 0 .. MaxQueries
    /\ worker = "idle"
    /\ tick = NoTick
    /\ fault = FALSE
    /\ asked = <<>> /\ told = <<>>
    /\ loaded = {}
    /\ early = FALSE /\ alone = TRUE

-----------------------------------------------------------------------------
(***************************************************************************)
(* The natives, with the parameters in the order a_mysql.inc declares.     *)
(***************************************************************************)

\* A script runs: between two ticks, or in a callback.
ScriptRuns == ~fault /\ (tick.phase = "none" \/ tick.busy)

\* OldQuery(params[1], params[2], params[3])
OldQuery(q, params) ==
    [id |-> q, query |-> params[1], result |-> params[2], extra |-> params[3],
     callback |-> "OnQueryFinish"]

\* Query(params[2], params[3], params[1], params[4])
Query(q, params) ==
    [id |-> q, query |-> params[2], callback |-> params[3],
     result |-> params[1], extra |-> params[4]]

Ask(native, record) ==
    /\ ScriptRuns
    /\ Asked < MaxQueries
    /\ asked' = Append(asked, native)
    /\ queueData' = Append(queueData, record)
    /\ UNCHANGED <<p_Amx, callbackData, errorCallback, m_bQueryProcessing,
                   m_dwError, worker, tick, fault, told, loaded, early, alone>>

MysqlQuery ==
    LET q == Asked + 1 IN
    Ask("mysql_query",
        OldQuery(q, <<Arg("query", q), Arg("result", q), Arg("extra", q), Handle>>))

MysqlQueryCallback ==
    LET q == Asked + 1 IN
    Ask("mysql_query_callback",
        Query(q, <<Arg("result", q), Arg("query", q), "OnCustom", Arg("extra", q),
                   Handle>>))

\* mysql_query without a result id, when the server refuses it.
Statement ==
    LET q == Asked + 1 IN
    /\ ScriptRuns
    /\ Asked < MaxQueries
    /\ asked' = Append(asked, "statement")
    /\ m_dwError' = q
    /\ alone' = FALSE
    /\ errorCallback' = Append(errorCallback,
          [id |-> q, query |-> Arg("query", q), errorid |-> Arg("errorid", q),
           result |-> MinusOne, callback |-> "NULL", extra |-> MinusOne,
           error |-> Arg("error", q)])
    /\ UNCHANGED <<p_Amx, queueData, callbackData, m_bQueryProcessing, worker,
                   tick, fault, told, loaded, early>>

\* A statement that succeeds clears m_dwError; mysql_fetch_row_format at the
\* end of a result, a failing mysql_ping and a failing connect write it too.
NativeErrno ==
    /\ ScriptRuns
    /\ m_dwError' \in 0 .. MaxQueries
    /\ alone' = (alone /\ m_dwError' = 0)
    /\ UNCHANGED <<p_Amx, queues, m_bQueryProcessing, worker, tick, fault, asked,
                   told, loaded, early>>

\* push_back; each AMX the server loads has an address of its own.
AmxLoad(s) ==
    /\ ScriptRuns
    /\ s \notin loaded
    /\ p_Amx' = Append(p_Amx, s)
    /\ loaded' = loaded \cup {s}
    /\ UNCHANGED <<queues, m_bQueryProcessing, m_dwError, worker, tick, fault,
                   asked, told, early, alone>>

\* Mutant: the script after the one that is unloaded is erased.
WithoutNext(s) ==
    SelectSeq(p_Amx, LAMBDA a : \A i \in DOMAIN p_Amx : p_Amx[i] = a =>
                         i = 1 \/ p_Amx[i - 1] # s)

\* erase(i), and break: the first that is s.
Without(s) == RemoveFirst(p_Amx, s)

\* A script that is unloaded in its own callback leaves ProcessTick with an
\* iterator to nowhere.
AmxUnload(s) ==
    /\ ScriptRuns
    /\ s \in ToSet(p_Amx)
    /\ p_Amx' = Without(s)
    /\ early' = (early \/ tick.amx = s)
    /\ UNCHANGED <<queues, m_bQueryProcessing, m_dwError, worker, tick, fault,
                   asked, told, loaded, alone>>

-----------------------------------------------------------------------------
(***************************************************************************)
(* ProcessQueryThread.  The two outcomes write m_dwError on different      *)
(* sides of the push.                                                      *)
(***************************************************************************)
WorkerSucceeds ==
    /\ worker = "idle"
    /\ queueData # <<>>
    /\ ~m_bQueryProcessing
    /\ m_bQueryProcessing' = TRUE
    /\ callbackData' = Append(callbackData, Head(queueData))
    /\ worker' = "pushed"
    /\ UNCHANGED <<queueData, errorCallback, m_dwError, alone>>

\* Mutant: the error number of an earlier query stays.
ErrorKept == m_dwError

ErrorCleared == 0

WorkerClearsError ==
    /\ worker = "pushed"
    /\ m_dwError' = ErrorCleared
    /\ alone' = TRUE
    /\ worker' = "pop"
    /\ UNCHANGED <<queues, m_bQueryProcessing>>

\* The ping before a query fails, and so does the Connect after it, which
\* writes m_dwError.
WorkerReconnectFails ==
    /\ worker = "idle"
    /\ queueData # <<>>
    /\ ~m_bQueryProcessing
    /\ m_dwError' \in Queries
    /\ UNCHANGED <<queues, m_bQueryProcessing, worker, alone>>

WorkerFails ==
    /\ worker = "idle"
    /\ queueData # <<>>
    /\ ~m_bQueryProcessing
    /\ m_bQueryProcessing' = TRUE
    /\ m_dwError' = Head(queueData).id
    /\ worker' = "failed"
    /\ UNCHANGED <<queues, alone>>

\* cError: m_uiExtra is whatever was on the stack.
ErrorInfo(cQueue, extra) ==
    [id |-> cQueue.id, query |-> cQueue.query, result |-> cQueue.result,
     extra |-> extra, callback |-> cQueue.callback,
     errorid |-> Arg("errorid", cQueue.id), error |-> Arg("error", cQueue.id)]

WorkerReports ==
    /\ worker = "failed"
    /\ \E extra \in {Garbage, Head(queueData).extra} :
          errorCallback' = Append(errorCallback, ErrorInfo(Head(queueData), extra))
    /\ m_bQueryProcessing' = FALSE
    /\ worker' = "pop"
    /\ UNCHANGED <<queueData, callbackData, m_dwError, alone>>

WorkerPop ==
    /\ worker = "pop"
    /\ queueData' = Tail(queueData)
    /\ worker' = "idle"
    /\ UNCHANGED <<callbackData, errorCallback, m_bQueryProcessing, m_dwError, alone>>

ProcessQueryThread ==
    /\ ~fault
    /\ \/ WorkerReconnectFails \/ WorkerSucceeds \/ WorkerClearsError
       \/ WorkerFails \/ WorkerReports \/ WorkerPop
    /\ UNCHANGED <<p_Amx, tick, fault, asked, told, loaded, early>>

-----------------------------------------------------------------------------
(***************************************************************************)
(* ProcessTick for this handle: an error, then a finished query, each told *)
(* to one script after the other.  A public takes the argument that was    *)
(* pushed last as its first.                                               *)
(***************************************************************************)
Begin == IF p_Amx = <<>> THEN End ELSE Head(p_Amx)

\* The script after s.
After(s) ==
    LET i == CHOOSE j \in DOMAIN p_Amx : p_Amx[j] = s
    IN  IF i = Len(p_Amx) THEN End ELSE p_Amx[i + 1]

Goto(phase, amx, busy) == tick' = [phase |-> phase, amx |-> amx, busy |-> busy]

TickError ==
    /\ tick.phase = "none"
    /\ IF errorCallback = <<>> THEN Goto("then", End, FALSE)
       ELSE Goto("error", Begin, FALSE)
    /\ UNCHANGED <<queues, m_bQueryProcessing, fault, told>>

TickFinish ==
    /\ tick.phase = "then"
    /\ IF callbackData = <<>> THEN tick' = NoTick ELSE Goto("finish", Begin, FALSE)
    /\ UNCHANGED <<queues, m_bQueryProcessing, fault, told>>

Entry == Head(IF tick.phase = "error" THEN errorCallback ELSE callbackData)
Public == IF tick.phase = "error" THEN "OnQueryError" ELSE Entry.callback

\* Mutant: extra id and index are pushed in the order they are declared.
PushedInOrder(e) == <<Handle, e.result, e.extra, e.query>>

Pushed(e) == <<Handle, e.extra, e.result, e.query>>

ErrorPushed(e) ==
    <<Handle, e.query, Name(e.callback), e.extra, e.result, e.error, e.errorid>>

Stack == IF tick.phase = "error" THEN ErrorPushed(Entry) ELSE Pushed(Entry)

TickCall ==
    /\ tick.phase \in {"error", "finish"}
    /\ tick.amx # End /\ ~tick.busy
    /\ IF HasPublic(tick.amx, Public)
       THEN /\ Goto(tick.phase, tick.amx, TRUE)
            /\ told' = Append(told, [amx |-> tick.amx, id |-> Entry.id,
                                     public |-> Public, args |-> Reverse(Stack)])
       ELSE Goto(tick.phase, After(tick.amx), FALSE) /\ UNCHANGED told
    /\ UNCHANGED <<queues, m_bQueryProcessing, fault>>

\* Mutant: the script after the next one is passed over.
AfterNext(s) == IF After(s) = End THEN End ELSE After(After(s))

Next(s) == After(s)

Gone == tick.amx \notin ToSet(p_Amx)

TickReturn ==
    /\ tick.busy
    /\ IF Gone THEN fault' = TRUE /\ UNCHANGED tick
       ELSE Goto(tick.phase, Next(tick.amx), FALSE) /\ UNCHANGED fault
    /\ UNCHANGED <<queues, m_bQueryProcessing, told>>

TickErrorDone ==
    /\ tick.phase = "error"
    /\ tick.amx = End
    /\ errorCallback' = Tail(errorCallback)
    /\ Goto("then", End, FALSE)
    /\ UNCHANGED <<queueData, callbackData, m_bQueryProcessing, fault, told>>

TickFinishDone ==
    /\ tick.phase = "finish"
    /\ tick.amx = End
    /\ callbackData' = Tail(callbackData)
    /\ m_bQueryProcessing' = FALSE
    /\ tick' = NoTick
    /\ UNCHANGED <<queueData, errorCallback, fault, told>>

ProcessTick ==
    /\ ~fault
    /\ \/ TickError \/ TickFinish \/ TickCall \/ TickReturn \/ TickErrorDone
       \/ TickFinishDone
    /\ UNCHANGED <<p_Amx, m_dwError, worker, asked, loaded, early, alone>>

-----------------------------------------------------------------------------
NoticeNext ==
    \/ MysqlQuery \/ MysqlQueryCallback \/ Statement \/ NativeErrno
    \/ \E s \in Scripts : AmxLoad(s) \/ AmxUnload(s)
    \/ ProcessTick \/ ProcessQueryThread

NoticeSpec == NoticeInit /\ [][NoticeNext]_vars

-----------------------------------------------------------------------------
\* The arguments the calling script gave, as a_mysql.inc declares the public.
Result(q) == IF asked[q] = "statement" THEN MinusOne ELSE Arg("result", q)

Callback(q) == CASE asked[q] = "mysql_query" -> "OnQueryFinish"
                 [] asked[q] = "mysql_query_callback" -> "OnCustom"
                 [] asked[q] = "statement" -> "NULL"

(***************************************************************************)
(* Every public gets its own query's arguments in the declared order: the  *)
(* include's for OnQueryFinish and OnQueryError, main.cpp's comment for a  *)
(* custom callback, whatever order the natives took them in and ProcessTick*)
(* pushed them in.  The extra id of OnQueryError is left to                *)
(* ErrorTellsExtra.                                                        *)
(***************************************************************************)
ArgumentsAsDeclared ==
    \A i \in DOMAIN told :
       LET q == told[i].id  args == told[i].args IN
       IF told[i].public = "OnQueryError"
       THEN /\ Len(args) = 7
            /\ <<args[1], args[2], args[3]>> =
                  <<Arg("errorid", q), Arg("error", q), Result(q)>>
            /\ <<args[5], args[6], args[7]>> = 
                  <<Name(Callback(q)), Arg("query", q), Handle>>
       ELSE /\ told[i].public = Callback(q)
            /\ args = <<Arg("query", q), Result(q), Arg("extra", q), Handle>>

Times(s, q) == Cardinality({i \in DOMAIN told : told[i].amx = s /\ told[i].id = q})

(***************************************************************************)
(* When an entry is about to be popped, each script that is loaded and has *)
(* the public was told of it once, those that were loaded during another   *)
(* script's callback too; and nobody is told of a query twice, over its    *)
(* whole life, whoever was unloaded meanwhile.  (Each push to              *)
(* errorCallback is one step here.  What it does to a record when another  *)
(* push or a pop overlaps with it is in QueryThread, whose promise allows  *)
(* a query to be reported again after that.)                               *)
(***************************************************************************)
EveryScriptTold ==
    /\ \A s \in Scripts, q \in Queries : Times(s, q) <= 1
    /\ tick.phase \in {"error", "finish"} /\ tick.amx = End =>
          \A s \in ToSet(p_Amx) : HasPublic(s, Public) => Times(s, Entry.id) = 1

(***************************************************************************)
(* ProcessTick loses its place in p_Amx only if a script was unloaded in   *)
(* its own callback; unloading any other, or loading, from a callback is   *)
(* safe.                                                                   *)
(***************************************************************************)
TickSafe == fault => early

(***************************************************************************)
(* mysql_errno in the callback of a finished query is 0, never the number  *)
(* of an earlier query, unless a native of the script itself failed since  *)
(* the query, or the worker, which pushes first, has not come to           *)
(* m_dwError = 0 yet.                                                      *)
(***************************************************************************)
ErrnoOfCallback ==
    tick.phase = "finish" /\ worker # "pushed" /\ alone => m_dwError = 0

(***************************************************************************)
(* OnQueryError(errorid, error[], resultid, extraid, ...), says the        *)
(* include: extraid is that of the query.                                  *)
(***************************************************************************)
ErrorTellsExtra ==
    \A i \in DOMAIN told :
       told[i].public = "OnQueryError" /\ asked[told[i].id] # "statement"
          => told[i].args[4] = Arg("extra", told[i].id)
=============================================================================
