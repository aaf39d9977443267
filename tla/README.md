# Specifications and proofs of the SA-MP MySQL plugin R6

This directory specifies, in TLA+, how the plugin runs a script's queries:
two threads, one mutex, and for every connection a handler with three queues.
The paths below are relative to `src/mysql_rel/` unless they start with `src/`.

## 1. The system

The plugin is a library inside the game server. A *script* (Pawn, run by the
server's AMX) calls *natives*, and the plugin calls *publics* of the script
back. There are two threads:

- the **main thread**, on which the server calls `Load`, `Unload`, `AmxLoad`,
  `AmxUnload` and, periodically, `ProcessTick`, and on which scripts run;
  a callback made by `ProcessTick` calls natives again, on the same stack;
- the **worker**, `ProcessQueryThread`, started by `Load`, which locks the
  mutex, makes one pass over all handlers, unlocks and sleeps 5 ms, for ever.

### Components

| component | where | state | operations |
|---|---|---|---|
| Mutex | `source/CMutex.cpp` | singleton pointer, OS mutex | `getInstance`, `_lockMutex`, `_unlockMutex` |
| client library | external (`mysql.h`) | `MYSQL`, `MYSQL_RES` | `mysql_init`, `_real_connect`, `_ping`, `_real_query`, `_store_result`, `_close`, ... |
| handler: connection and queues | `source/CMySQLHandler.cpp` | `m_bIsConnected`, `m_bQueryProcessing`, `m_bNonThreadedQuery`, `m_stConnectionPtr`, `queueData`, `callbackData`, `errorCallback` | constructor, destructor, `Connect`, `Disconnect`, `Query`, `OldQuery`, `Ping` |
| handler: results and rows | `source/CMySQLHandler.cpp` | `m_stResult`, `m_stRow`, `m_stField`, `m_dwFields`, `m_cSStream`, `m_szResult`, `Delimiter`, `m_dwError` | `StoreResult`, `FreeResult`, `FetchRow`, `FetchField`, `FetchFieldName`, `RetrieveRow`, counters |
| natives | `source/CScripting.cpp` | none of their own | 27 natives, `a_mysql.inc:28-54` |
| handle table | `source/CScripting.cpp`, `main.cpp` | `SQLHandle`, `ID` | `push_back` in `mysql_connect`, `erase` in `mysql_close` and `Unload`; a handle is an index + 1 |
| ProcessTick | `main.cpp:89-138` | none | calls `OnQueryError`, then the finished query's callback |
| ProcessQueryThread | `main.cpp:140-195` | none | pings, queries, pushes the outcome, pops; reconnects |
| life cycle | `main.cpp:50-87, 232-247` | `p_Amx` | `Load`, `Unload`, `AmxLoad`, `AmxUnload` |
| AMX strings, debug log, SDK thunks | `source/CAmxString.cpp`, `CScripting.cpp:433-466`, `src/SDK` | - | copies and logging |

### How the parts interact

`mysql_query`/`mysql_query_callback` push to `queueData` under the mutex. The
worker, holding the mutex for its whole pass, takes a handler whose queue is not
empty and that is connected, is not processing a query and runs no non-threaded
statement; it pings, sets `m_bQueryProcessing`, runs the statement, pushes to
`callbackData` (or to `errorCallback`, clearing `m_bQueryProcessing`) and only
then pops `queueData`. `ProcessTick` takes no lock at all: it reads and pops
`errorCallback` and `callbackData`, and clears `m_bQueryProcessing` after the
callback. `Disconnect` empties `queueData` under the mutex and closes the
connection after releasing it. `mysql_close` calls the destructor, and so
`Disconnect`, with the mutex held.

### What is hard, and what makes each part correct

- *Flags instead of locks.* One connection is used by two threads; that they do
  not meet depends on the order in which four flags and queues are written.
  Correct: the worker stays off a connection while a callback is owed
  (`CallbackOwnsConnection`), while it is pinged or closed by the main thread
  (`PingAndCloseAlone`), no call uses a released object, and none a null pointer
  but where `mysql_init` has failed (`NoUseAfterClose`).
- *Order.* Queries are executed and called back in order, each at most once,
  and none is lost silently (`QueryPromise`), but for error records that both
  threads touch at once.
- *Progress.* `m_bQueryProcessing` must come back (`PipelineResumes`), a
  finished query must be called back (`CallbackRuns`), `mysql_close` must return
  (`CloseReturns`), queued queries must be pinged and tried (`PingedInThread`).
- *Lost connections.* A failed ping makes the worker reconnect, a failed
  reconnect stops the queue.
- *Re-entrancy.* A callback may close or open handles, and load or unload
  scripts, under `ProcessTick`'s two loops (`PopsWhatItTold`,
  `HandlesKeepTheirMeaning`, `EveryScriptTold`, `TickSafe`); `mysql_close` gives
  handles another meaning (`HandlesOnlyMoveUp`) and moves
  the vector the worker walks (`WorkerKeepsHandler`), and no handle may starve
  behind another (`EveryHandlerServed`).
- *Argument order.* Natives, records and publics list the same arguments in
  different orders (`ArgumentsAsDeclared`).
- *Pointer lifetimes* of results and rows (`ReleasedNeverUsed`,
  `UninitialisedOnlyAtFirst`, `RowGivenIsRowRead`, `TidyScriptsLeakNothing`),
  and *leftovers* in the text stream (`NoLeftover`, `NativesGiveTheRow`).
- *Start and stop*: the mutex is made by whichever thread asks first
  (`InsideAlone`, `ImplementsMutex`), and `Unload` deletes it and the handlers
  while the worker goes on walking the vector (`ClosedUnused`,
  `UnloadForgetsHalf`, `UnloadReturns`).

`PROJECT.json` lists every hazard at its line.

## 2. Modules

| module | models | kind |
|---|---|---|
| `CMutex` | the mutex; `Recursive` says whether its owner may lock again (Windows kernel mutex) or waits for itself (default pthread mutex) | component |
| `MySQLClient` | `MYSQL` objects and library calls; extends `CMutex` | external component |
| `Queues` | what it means for a queue of numbers to be in order | helper |
| `QueryThread` | one handler, the natives that work on its connection and queues, `ProcessTick`, `ProcessQueryThread`; extends `MySQLClient` | system |
| `QueryPromise` | what a script may rely on, without threads and connections | abstract specification |
| `HandleTable` | `SQLHandle`: several handlers, the natives that make, use and erase them, and the loops of `ProcessTick` and of the worker over the vector; extends `CMutex` | component |
| `QueryNotice` | a query's arguments on their way from the native through the records to the publics of all scripts, `AmxLoad`/`AmxUnload`, `m_dwError` | component |
| `PluginLife` | `Mutex::getInstance` step by step, `Load`, `Unload`, and the worker's walk over the vector `Unload` takes apart; shown to implement `CMutex` | component |
| `ResultSet` | `m_stResult`, `m_stRow`, `m_stField`, the natives that store, fetch and free, and what the pointers point to; its inductive invariant `ResultInv` | component |
| `RowText` | `m_cSStream` and `m_szResult`: the text of rows and fields on its way to the script; extends `ResultSet` and does both halves of each native in one step | component |
| `QueryThreadInvariant` | the inductive invariant `IInv` of `QueryThread` | invariant |
| `QueueLemmas` | sequences: push and pop, an entry removed, sequences put together; the least element of a set of numbers | proofs |
| `QueryThreadProofs`, `QueryThreadRefinement` | `QueryThread` keeps `IInv`; it implements `QueryPromise` | proofs |
| `QueryPromiseProofs`, `HandleTableProofs`, `QueryNoticeProofs`, `PluginLifeProofs`, `ResultSetProofs` | invariants and properties of the module each is named after; `ResultSetProofs` also those of `RowText` | proofs |
| `MCQueryThread`, `MCResultSet` | symmetry for TLC | model checking |
| `MCHandleTable`, `MCQueryNotice`, `MCRowText` | the parameters of connections, who has which public, the texts of the rows | model checking |

How they fit together: `QueryThread` is one handler in full detail and
`HandleTable` is many handlers with that detail left out (a ping, a statement
and the push of its outcome are one or two steps; the flags that keep the worker
away are kept, the `MYSQL` objects are not). Both build on `CMutex`, which `PluginLife` shows to be what the lazily made
singleton amounts to. `QueryNotice` follows what the numbers in `QueryThread`'s
queues stand for.

### State and actions of QueryThread

The variables of the handler have the code's names; `exists` says whether
`SQLHandle` holds it. `pc` says where each thread is. A step is everything up to
the next point at which the other thread could see or change something: a
library call takes two steps (`Begin`, `End`), and so does the worker's push to
`errorCallback`, because the main thread pushes to and pops the same queue with
no lock. If it does so during the worker's push (`errorRace` counts how often),
updates of the size of the `std::queue` may be lost: the worker's, and its record
with it, or some of the main thread's, each of which leaves one entry too many.
Nobody pushed what is read there (`Stale`): it may be a record reported before,
which is reported again (`repeated`), one of a statement, or no record at all, at
which the process ends (`tick = "unreadable"`).

`mysql_init` may fail at any time. `Connect` logs that and calls
`mysql_real_connect` with the null pointer, and there the process ends: `Crashed`,
after which there is no step. `initFailed` remembers it.

| code | actions |
|---|---|
| `Connect` (both threads) | `ConnectInit`, `ConnectOpen`, `ConnectDone` |
| `mysql_connect`, new handle / known parameters | `MysqlConnectNew` / `MysqlConnectAgain` |
| `mysql_reconnect`, `mysql_close`, `Disconnect` | `MysqlReconnect`, `MysqlClose`, `DisconnectClear`, `DisconnectClose`, `MysqlCloseErase` |
| threaded `mysql_query`, `mysql_query_callback` | `MysqlQuery`, `QueryPush` |
| non-threaded `mysql_query` | `Statement`, `StatementDone` |
| `mysql_store_result`, `mysql_ping` | `MysqlStoreResult`/`StoreResultDone`, `MysqlPing`/`MysqlPingDone` |
| `mysql_reload`, `mysql_stat`, `mysql_set_charset` | `Command`/`CommandDone` |
| `ProcessTick` | `TickError`, `TickErrorDone`, `TickFinish`, `TickFinishDone`; between the first and the second of each pair the script runs and may call natives |
| `ProcessQueryThread` | `WorkerLock`, `WorkerScan`, `WorkerPinged`, `WorkerExec`, `WorkerQueried`, `WorkerPushed`, `WorkerPop`, `WorkerDrain`, `WorkerDrained`, `WorkerUnlock` |
| the server | `Drop` |

A `MYSQL` object used by two threads at once becomes `corrupt`, and its calls
report anything from then on. This does happen: a non-threaded statement may
begin while the worker is inside a ping or a query, and `Connect` may run in
both threads. The properties below hold in spite of it; none of them is about
the rows such an object delivers, nor about whether a reconnect was needed.

Abstractions: a query is its number of acceptance; result texts, error numbers
and parameters are left out; the constructor's connect is one step with
`push_back` (the worker cannot see the handler before); a native that the code
refuses is no step. One assumption on scripts: `mysql_close` is not called from
inside a callback of the same handler (`tick = "none"` in `MysqlClose`). What
happens then is the subject of `HandleTable`.

### State and actions of HandleTable

A handler is the number it was made with; a handle, the position the script was
given, is in `known`. A native is one step, and needs the mutex to be free where
the code takes it. The exception is a statement: the main thread is in it from
`Statement` to `StatementDone`, and `m_bNonThreadedQuery` keeps the worker off that
handler so long. The two loops are kept step by step (`tick`, `pass`), each
with its own index, since callbacks and natives change the vector between the
steps; `pass` also records which handler the worker turned to and which query it
took.

| code | actions |
|---|---|
| `mysql_connect` | `MysqlConnectNew`, `MysqlConnectAgain` |
| `mysql_reconnect`, `mysql_close` | `MysqlReconnect`, `MysqlClose` |
| threaded queries; statements | `MysqlQuery`; `Statement`, `StatementDone` |
| `ProcessTick`'s loop | `TickStart`, `TickError`, `TickErrorDone`, `TickFinish`, `TickFinishDone` |
| the worker's loop | `WorkerLock`, `WorkerLook`, `WorkerRead`, `WorkerConnect`, `WorkerExec`, `WorkerPop` |

Undefined behaviour is a `fault` at which a behaviour ends: an index beyond the
vector, a pop of an empty queue, and a read of memory the vector has moved out
of, which `mysql_connect`'s unlocked `push_back` can cause (`moved`). Two
histories say what scripts have refrained from: `careful`, no callback closed its
own handle or one before it; `steady`, only ever the last handle was closed. The
properties say what holds for such scripts; for the others TLC finds wrong pops
and handles that mean another connection, as the code has it. `HandlesOnlyMoveUp`
and `WorkerKeepsHandler` ask nothing of the scripts: the first bounds what a handle
may come to mean after any `mysql_close`, a connection made later than every one it was
returned for, never an older one.

### State and actions of QueryNotice

An argument is `[of, from]`: which argument of which query it was. `p_Amx` is the
list of scripts; a script loads once, since a reload gives it another address.

| code | actions |
|---|---|
| `mysql_query`, `mysql_query_callback` | `MysqlQuery`, `MysqlQueryCallback`, through `OldQuery` and `Query`, which take the parameters by position |
| a statement that fails | `Statement` |
| `AmxLoad`, `AmxUnload` | the actions of these names |
| other writes of `m_dwError` | `NativeErrno`, `WorkerReconnectFails` |
| the worker's records | `WorkerSucceeds`, `WorkerClearsError`, `WorkerFails`, `WorkerReports`, `WorkerPop` |
| `ProcessTick`'s loops over `p_Amx` | `TickError`, `TickFinish`, `TickCall`, `TickReturn`, `TickErrorDone`, `TickFinishDone` |

`told` is every call of a public with its arguments, reversed from the order in
which `ProcessTick` pushes them. `m_uiExtra` of the worker's error record is
never set: it is garbage or, by chance, right (`ErrorTellsExtra` is the finding).
A script that unloads itself in its own callback leaves the loop with an invalid
iterator: `fault`; `TickSafe` says that this is the only way to get there.

### State and actions of PluginLife

`getInstance` is three steps, the test, the making and the last read of
`m_pInstance` (`TestInstance`, `MakeInstance`, `ReadInstance`), then the call on
what was returned (`LockMutex`, `UnlockMutex`, `DeleteMutex`, or `BadCall` on
`NULL` and deleted objects). Both threads run them, for natives, for the worker's
passes and for `Unload`. Operating-system mutexes are apart from `Mutex` objects: on
Windows `CreateMutex` gives every object the one of the same name (`Kernel`), with
pthreads each has its own.

| code | actions |
|---|---|
| `getInstance` and the call after it | `TestInstance`, `MakeInstance`, `ReadInstance`; `LockMutex`, `UnlockMutex`, `BadCall` |
| natives that lock | `NativeCalls` |
| `ProcessQueryThread` | `WorkerLocks`; for each position `WorkerLook` (the size), `WorkerRead` (the guard and the ping), `WorkerUsed` (the statement or `Connect` and what follows); `WorkerUnlocks` |
| `Unload`, a handler that is not connected | `UnloadHandler`, `UnloadErase` |
| `Unload`, a connected one | `UnloadConnected` (waits for the mutex), `UnloadDisconnect` (empties the queue, unlocks), `UnloadDisconnected`, `UnloadErase` |
| the end of `Unload` | `UnloadMutex`, `DeleteMutex`; `UnloadBeyond` past `end()` |

`Unload` holds the mutex only while a destructor's `Disconnect` empties a queue; it
deletes handlers and erases them from the vector without it, wherever the worker is. The
worker reads `SQLHandle[i]` anew for everything it does. Where the two meet the
behaviour is undefined and ends in a fault: `handler`, the one in use was
deleted, or a deleted one is read (a handler the worker is reconnecting has
`m_bIsConnected` false, so its destructor does not wait); `shifted`, another one is at the
position; `beyond`, there is none; `deleted` and `NULL`, the mutex called is no
more. TLC reaches them all. What can be relied on is stated by `ClosedUnused`
(where `Unload` does wait, the worker is off the handler and stays off),
`UnloadForgetsHalf`, and `UnloadReturns`, which excludes that `Unload` is stuck.

So on Windows two objects may be made when both threads come first together, but
they stand for one mutex and nothing goes wrong; the second object is leaked. With
pthreads the two threads could lock different mutexes; `HeadStart` is the
assumption that the worker, started by `Load`, has come through `getInstance`
before a script calls a native that locks. Nothing in the code waits for that,
5 ms of sleep only make it likely; under it the theorems hold for pthreads too.

### State and actions of ResultSet and RowText

A native is one step. In between the worker may reconnect, and on the way it
overwrites `m_stResult` (`WorkerDrain`): the result a script holds is lost, though
its rows stay readable through `m_stRow`. Every native asks about
`m_bIsConnected` first; if the worker drains while a native is past that check, the
native goes on with another pointer, which is the fault `raced` (`Overlap`). In the callback
of a finished query this cannot happen: the worker stays off the connection then
(`CallbackOwnsConnection`, proved of `QueryThread`). So `held`/`tidy` follow a script
that frees what it stored before the worker may come. What there is to store
depends on the statements; here it is any rows, or none.

| code | `ResultSet` | `RowText` |
|---|---|---|
| constructor by `mysql_connect` | `MysqlConnect`; the pointers start as `NULL` or `Wild`, the constructor sets none | `NewHandler` |
| `mysql_reconnect`'s `Disconnect`, `Connect` | `Disconnect`, `Connect` | `Textless` |
| the worker's reconnect | `WorkerDrain`, `Overlap`, `Connect` | `Textless` |
| `mysql_close`, destructor | `MysqlClose`, `FreeBeforeDisconnect` | `Textless` |
| `mysql_free_result`, `mysql_store_result` | `MysqlFreeResult`, `MysqlStoreResult` | `Textless` |
| `mysql_num_rows`, `mysql_num_fields` | `MysqlNumRows` (a step only if it goes wrong) | `Textless` |
| `mysql_retrieve_row` | `FetchNext` | `MysqlRetrieveRow` |
| `FetchRow` in `mysql_fetch_row_format`, `_int`, `_float` | `FetchNext` | `MysqlFetchRowFormat`, `MysqlFetchInt`, `MysqlFetchFloat` |
| `mysql_fetch_field_row` | `FetchField` | `MysqlFetchFieldRow` |
| `mysql_fetch_field` | `MysqlFetchField` | `Textless` |

What C++ leaves undefined is a `fault`, at which a behaviour ends: going through
an uninitialised or a freed pointer, and both paths of `mysql_fetch_field`,
which makes a `std::string` of a null pointer when it refuses and otherwise
calls `free` with a pointer into the result. The invariants say which faults can
happen and to whom: without a race none by a freed pointer, and none by an uninitialised
one after the script has stored a result and fetched a row.

A text is a sequence of symbols; reading (`Line`, `Word`) splits it where
`getline` and `>>` do. A number is the text it was read from. `ctot` is `ToCell`
and `ToFloat`: a number too large for a cell (not in `CellNumbers`) becomes another
one (`OtherNumber`); a float is the digits the text begins with, and one that was
never set if there are none, though `mysql_fetch_float` answers 1. One digit
stands for all, and how signs, points and exponents of a float are read is left
out. `plain` says that so far no text had a line break and every delimiter was
one character. While it holds a native that has a row gives what that row says:
its text, the field, or the number if the row is one column of digits (and fits
into a cell, for `mysql_fetch_int`). After one text of two lines the script
gets a word of the second, and the rest stands in front of the next row; after
an empty text under an empty delimiter the stream takes nothing more until the
next `FetchField`. Even for plain texts, a `mysql_fetch_float` or a
`mysql_fetch_field_row` *without* a row may hand out what
`mysql_fetch_int` left behind; `mysql_fetch_int` may not (`IntNeedsRow`).

### ErrorsMayBeOvertaken

`QueryPromise` promises no order between the two kinds of notification. The
worker would wait for `errorCallback` to be empty, but that guard is commented
out (`main.cpp:152`), so it may run on after an error whose `OnQueryError` is
still owed; and `ProcessTick` runs one error and one callback per tick: the
callback of a later query can run before the `OnQueryError` of an earlier one
when several errors have piled up.

## 3. Runs

| run | module, cfg | result | shows |
|---|---|---|---|
| `query_thread` | `MCQueryThread`, `QueryThread.cfg` | holds, 2.1 M states | the safety of the threads, `IInv`, and that `QueryThread` implements `QueryPromise` |
| `query_thread_liveness` | `MCQueryThread`, `QueryThreadLiveness.cfg` | holds, 0.4 M states | unless the process ends, callbacks run, the pipeline resumes, `mysql_close` returns (`Recursive = TRUE`) |
| `query_promise` | `QueryPromise`, `QueryPromise.cfg` | holds | what the promise implies for order and loss |
| `result_set` | `MCResultSet`, `ResultSet.cfg` | holds, 56 k states | pointers, leaks, and `ResultInv` |
| `row_text` | `MCRowText`, `RowText.cfg` | holds, 1.6 M states | texts and numbers reach the script unmixed |
| `handle_table` | `MCHandleTable`, `HandleTable.cfg` | holds, 0.47 M states | what handles, `ProcessTick` and the worker rely on while the vector changes; nobody starves |
| `plugin_life` | `PluginLife`, `PluginLife.cfg` | holds, 0.53 M states | one mutex whoever makes it; what `Unload` waits for and deletes under the worker's walk, and how it ends |
| `query_notice` | `MCQueryNotice`, `QueryNotice.cfg` | holds, 1.1 M states | who is told of a query, how often, and with which arguments |
| `error_tells_extra` | `MCQueryNotice`, `ErrorTellsExtra.cfg` | violated | the extra id of `OnQueryError` is never set for a threaded query |
| `close_on_pthreads` | `MCQueryThread`, `CloseOnPthreads.cfg` | violated | `mysql_close` never returns with a default pthread mutex |
| `pinged_in_thread` | `MCQueryThread`, `PingedInThread.cfg` | violated | after a failed reconnect queued queries are never pinged or tried again |
| `no_double_instance` | `MCQueryThread`, `NoDoubleInstance.cfg` | violated | `mysql_connect` with known parameters leaves the old session open |

The four violations are disagreements between a comment or declaration of the
code and the code; `PROJECT.json` quotes them. The README of the repository says the Linux
version has not been tested, which is where `close_on_pthreads` bites. Every property of a
passing run has a mutant, a plausible slip in one definition, that violates it.

### Bounds

- `Conns`: three objects. `mysql_init` needs one that is neither in a call of
  the other thread nor behind the pointer being overwritten, so three never run
  out; a fourth changes no state count under symmetry.
- `MaxQueries` of `QueryThread`: two for safety, so that one query can be
  executed, or wait behind one whose callback is owed, with errors and
  successes mixed. One for liveness. Four in `query_promise`.
- `MaxStatements`, `MaxDrops`: one non-threaded statement and one lost
  connection (none for liveness). Failures without a lost connection (a statement that fails, a
  connect that is refused) are not bounded.
- natives without a bound (reconnect, connect again, close, ping, store) may be
  called for ever: the state space is finite without.
- `HandleTable`: three handlers are made of two parameters `p`, `q`, so that a
  handle can be closed before, at or after the position of a loop and its
  parameters be connected again; two queries, so that both may wait on one
  handler or on two.
- `PluginLife`: 0 to 4 handlers, odd and even numbers with something left in the
  vector; up to four `Mutex` objects: two made before `Unload`, one after it, and one spare.
- `QueryNotice`: three scripts with different publics, so that one can be
  unloaded before, at and after the iterator; two queries, so that an error and
  a callback can pile up. A number is its origin.
- `Results`: three, so that one can be leaked, one freed and its address used
  again, and one be current; `MaxRows` two: a row, the next, and the end. In
  `row_text` one result suffices, a store after a free reuses it.
- texts: a number, one too large for a cell, a word, NULL, nothing, and two lines, in rows of one and two
  columns; delimiters `|`, a space, and none. A row has at most one line break,
  which keeps what piles up in the stream bounded.
- Deadlock is not checked (`CHECK_DEADLOCK FALSE`) where a behaviour ends at a
  fault (`ResultSet`, `RowText`, `HandleTable`, `QueryNotice`, `PluginLife`) or with the
  process (`QueryThread`), and in `close_on_pthreads`, where both threads really wait for
  ever. In `QueryThread` with the Windows mutex the liveness run takes its place: no thread
  is stuck.
- `Conns` is a symmetry set in `query_thread` only, and `Results` in
  `result_set`: never where liveness is checked.

### Fairness

`FairSpec` of `QueryThread` has weak fairness of the steps that finish a native or a worker's
pass, since nothing but the scheduler and a blocking library call (which
returns or times out) is between them; that a call returns is also assumed of an object
two threads have used at once, whatever it then reports. A process that has
`Crashed` takes no step, and the liveness properties say so. Strong fairness is used in three
places. The mutex: the worker gives it up for 5 ms each pass and the operating system hands it to
a waiter, yet it is only ever free intermittently (`WorkerLock`, and
`DisconnectClear \/ QueryPush`). `ProcessTick`: the server calls it on every
tick and a callback returns, though natives run in between. No fairness is
assumed of natives, of connects succeeding, or of the server.

`TableFairSpec` has weak fairness of `StatementDone` and of the worker, and strong
fairness of `ProcessTick`, which cannot go on while the script is in a statement. Natives
are single steps there and cannot keep the mutex. Nothing is assumed of pings or
statements: a query that waits is executed, *or* its handler is disconnected or its
script runs a statement there, again and again. A database whose every ping fails,
or a script that sends statement after statement, can starve its own handle, which is
how the code is; what `EveryHandlerServed` excludes is that another handle does.
`LifeFairSpec` has weak fairness of the worker and
strong fairness of the main thread once `Unload` was called, for the same reason
as with the mutex above: it takes the mutex for each connected handler.

## 4. Proofs

Nothing is assumed but the named `ASSUME`s of the modules: bounds are natural
numbers, `NULL` and `Wild` are no objects, `Recursive` and `HeadStart` are Booleans,
`End` (the iterator's end) is no script, and a row has at least one column, its texts
made of the same symbols as the delimiters, as in every result of the client library.
Every theorem is for every value of the constants.

**Sequences** (`QueueLemmas`). What a push or a pop does to the entries of a queue
and to their order; what is left when one entry is removed from anywhere
(`Removed`, `RemovedFirst`: `AmxUnload`'s `erase`); what a concatenation contains
(`Concatenated`). Rows are put together with `FlattenSeq`, a recursive function of the
library: `FlattenExists` shows that some function satisfies its equation, using
`LeastOf` (a set of numbers that is not empty has a least element) in place of an
induction; `Flattened` says that the result is a sequence and when it is not empty.

**`QueryThread`** (`QueryThreadProofs`). `Inductive`: `Spec => []IInv`, and from it
`TypeCorrect`, `CallbackSafe`, `OneResult`, `PointerSafe`, `PingAndCloseSafe`. None of
the safety invariants is inductive. `IInv` adds to `TypeOK`:

- `MutexInv`: the worker owns the mutex exactly when it is not asleep, the main
  thread only inside `mysql_close`, nobody twice;
- `QueueInv`: the worker goes past its guard only with an existing handler and a
  non-empty queue; while the main thread pings or closes, the queue is empty and
  the worker has not got past its guard. This is what carries the argument over
  the gap between unlock and `mysql_close`: it was empty when the mutex was
  released, and only the main thread, busy closing, could refill it;
- `CallbackInv`: an owed callback implies `m_bQueryProcessing`, and the worker
  is past its last use of the connection;
- `TickInv`: the entry the script was called for is still there to be popped;
- `PointerInv`: the pointer does not dangle, and where somebody goes on to use it
  without looking at `m_bIsConnected` it is null only if `mysql_init` has failed;
- `OrderInv`: queries wait in the order of acceptance, and whatever is still to be
  executed is younger than every error record; an entry nobody pushed is there only
  after an overlap. Only the refinement needs it.

The types, the guards and the order of a step are a lemma each, with one case per action.

**`QueryPromise`** (`QueryPromiseProofs`). `PInv`, the conjunction of the properties with two
facts more (one result is owed at a time; owed notifications are younger than
those first given), is inductive: `PromiseInductive`, `PromiseTypes`, `InOrder`,
`NoneForgotten`, `InTurn`.

**Refinement** (`QueryThreadRefinement`). `ImplementsPromise`: `Spec => KeepsPromise`.
A query counts as executed when the worker knows the outcome, although it
is still at the head of `queueData` until the pop (`Waiting`), and as notified when
`ProcessTick` calls the script, although the record is still in its queue (`Done`,
`Failed`). Under this mapping each step of the two threads is one step of the
promise or none; a pop of `errorCallback`, or a statement's push to it, during the
worker's is its `Overlap`, the record that is lost its `LoseReport`, and a stale
entry that still holds an old one its `Repeat`. The last two need an overlap before them.
The proof uses `IInv`, chiefly `OrderInv` (records stay in order) and `CallbackInv`
(no success is published while another is owed).

**`HandleTable`** (`HandleTableProofs`). `TableInductive`, and `TableTypes`, `PopsSafe`,
`HandlesMoveUp`, `HandlerStays`, `HandlesMeanTheSame`. `TableInv` adds: the vector is ascending in
the order of making, so a handler is in it once and `erase` keeps that; the
worker has the mutex for its whole pass, so `mysql_close` and
`mysql_reconnect` cannot move or empty what it is at; what is in a handler's queues was
asked of it, and a handler not yet made holds nothing.

**`QueryNotice`** (`QueryNoticeProofs`). Three layers:

- `NoticeInductive`, `ArgumentsInOrder`, `ErrnoIsOwn`. `NoticeInv` says that each
  record in a queue is one query's record, field by field, and that while a
  callback is owed `m_bQueryProcessing` keeps the worker from failing at another
  query.
- `PlaceInductive`, `NoticeTypes`, `TickKeepsPlace`. No script is in `p_Amx` twice
  (`TypeInv`), so erasing one leaves the iterator on its script unless that is
  the one erased, which only its own callback can do (`PlaceInv`).
- `TellInductive`, `EveryoneTold`. "Told exactly once" says nothing of what is still
  to come. `TellInv` adds: a query's id is in one place at a time, with the
  worker, in `callbackData`, in `errorCallback`, or told (`IdsInv`); and
  while `ProcessTick` is at an entry, the scripts before its iterator that have
  the public were told of it and those after it were not (`ProgressInv`). A script
  loaded in a callback is appended and so comes after; one unloaded moves those
  behind it by one place, and the iterator goes on from its script.

**`PluginLife`** (`PluginLifeProofs`). `LifeInductive`, `InsideSafe`, `LifeImplementsMutex` and
`UnloadCloses`, for the kernel mutex of Windows and for pthreads with the
head start; the run checks the former. `LifeInv`: an operating-system mutex with an
owner is the instance's, and its owner is inside as deep; between the steps of
`getInstance` what was read is still the instance or, on Windows, as good. `UnloadCloses`
adds where the worker may be: it uses a handler only while it is inside, so not when
`Unload` is in `Disconnect`, and it turns to one again only if a query waits there, which
only a native could bring about.
`LifeTypes` and `HalfForgotten` need neither the kernel mutex nor the head start:
`TypesInductive` holds of every build, also when the threads lock different mutexes.
`HandlersInv` says where `Unload`'s loop is: before place `at` of the vector every
other handler is gone and deleted, from there on all are there.

**`ResultSet`** (`ResultSetProofs`). `ResultInductive`, `ResultTypeCorrect`, `PointersSafe`,
`InitialisedInTime`, `GivenRowSafe`, `NoLeak`. That no freed memory is used is not
inductive: `FetchField` is safe although `m_stField` dangles after a free,
because `PointerInv` ties a row that is not null to its fields and to a result
that was not freed, and `FreeResult` clears `m_stRow`. That a tidy script leaks
nothing needs `HistoryInv`: the only result allocated is the one it still owes a
free.

**`RowText`** (`ResultSetProofs`). `RowTextImplementsResultSet`: its natives move the
pointers as `ResultSet` says, so every theorem above holds of it. `TextInductive`
proves `ResultInv /\ TextInv`, and from it `NothingLeftOver`, `RowsUnmixed` and
`NoIntWithoutRow`. The first two need each other: a native gives its row because the
stream was good and empty when it began, and leaves it so because it takes the whole
text of the row, which is not empty with a delimiter of one character after each column.
`NumberFloat` shows that `ToFloat` reads all of a text of digits; a text that reads as a
number is one column, for the delimiter between two is a space (`JoinedText`).
`TextInv` adds that `m_szResult` never reads as a number between two
natives, which is why `mysql_fetch_int` fails without a row after any texts,
plain or not, and that a row the script holds is a row of its result.

### Only model-checked

- everything temporal under fairness: the liveness of `query_thread_liveness`,
  `EveryHandlerServed`, `UnloadReturns`. They rest on fairness, and the prover does not
  reason about `ENABLED`;
- what becomes of texts that are not plain in `RowText`, beyond `IntNeedsRow`: the run has
  such texts, and no property is about what exactly is left of them;
- that the faults of `PluginLife` and `HandleTable` are reached: TLC's counterexamples to their
  absence show it, and no run is kept for that.

Every invariant and action property of a passing run is proved.

## 5. Not modelled

- AMX string copies, the debug log and the SDK's thunks hold no state that a
  property could be about; `Supports` returns a constant; the Pawn include is
  declarations, quoted where a property is about them.
- Natives that only read or compute: `mysql_insert_id`, `mysql_affected_rows`,
  `mysql_field_count`, `mysql_warning_count`, `mysql_get_character_set`, `mysql_real_escape_string`,
  `mysql_debug`, and `mysql_errno` apart from its value in `QueryNotice`. A
  failing `mysql_stat` ends the server (`CMySQLHandler.cpp:405`); `QueryThread` goes on.
- What a failed `mysql_init` does but end the process, and what a corrupt `MYSQL` object
  does to the rows it delivers.
- The client library, the C++ streams and `std::queue` are external: modelled from
  how the plugin uses them.
- `mysql_close` in a callback of the same handler is in `HandleTable` and left out of
  `QueryThread`.
- Two threads making the `Mutex` at once on Windows leak one object; no property is
  about that.

The sources of the plugin are some 1600 lines, of which the map covers about
half; the rest is logging, declarations, string copies and the natives above.
The remaining 20 000 lines of the repository are vendored headers (the MySQL
client's under `mysql_include/`, and the SDK's), which hold no behaviour of the
plugin, so the share of the whole repository that is mapped stays small and could
only be raised by mapping code the plugin does not run.

## 6. What is left

- `mysql_close` in a callback, in `QueryThread`'s detail: the destructor under a
  `ProcessTick` that goes on with the next handler.
- The fine interleaving of a native's reads of `m_stResult` with the worker's drain,
  which `ResultSet` takes for a fault as a whole.
- `Unload` in the detail of `QueryThread`: what the worker does to a connection that is being
  closed under it, after one of `PluginLife`'s faults.
- How far leftovers go after a text that is not plain: a property of `RowText` that
  bounds them, and its proof.
