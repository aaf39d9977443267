----------------------------- MODULE PluginLife -----------------------------
(***************************************************************************)
(* The plugin from Load to Unload: two threads find the mutex through      *)
(* Mutex::getInstance, which makes it when it is first asked for, and      *)
(* Unload deletes handlers and mutex while ProcessQueryThread goes on      *)
(* walking the vector of handlers.                                         *)
(*                                                                         *)
(* _lockMutex and _unlockMutex look the instance up each time.  On Windows *)
(* CreateMutex gives every Mutex object the kernel mutex of one name;      *)
(* elsewhere each object has a pthread mutex of its own.  Recursive says   *)
(* which, as in CMutex.                                                    *)
(*                                                                         *)
(* Undefined are: a step beyond the vector, by either thread; a handler    *)
(* read or used after it was deleted; another handler found where the one  *)
(* in use was; a Mutex called that is NULL or deleted.  Each is a fault,   *)
(* at which a behaviour ends.                                              *)
(***************************************************************************)
EXTENDS Naturals, SequencesExt

CONSTANTS
    Recursive,
    HeadStart,     \* the worker has the mutex made before a native needs it
    MaxHandlers,   \* bound: handlers open when the plugin is unloaded
    MaxMutexes     \* bound: Mutex objects made

ASSUME LifeAssumption ==
    /\ Recursive \in BOOLEAN
    /\ HeadStart \in BOOLEAN
    /\ MaxHandlers \in Nat
    /\ MaxMutexes \in Nat \ {0}

VARIABLES
    m_pInstance,   \* the Mutex object, NULL before there is one
    made,          \* how many objects were made, numbered from 1
    freed,         \* those that were deleted
    owned,         \* of each operating-system mutex: its owner, and how deep
    phase,         \* where each thread is in getInstance and after it
    aim,           \* what it wants the instance for
    got,           \* what getInstance returned to it
    holds,         \* history: how many times over it has the mutex
    unload,        \* where Unload is
    SQLHandle,     \* the handlers, numbered by their place before Unload
    deleted,       \* those that were deleted
    connected,     \* those with m_bIsConnected
    waiting,       \* those with a query the worker may turn to: the rest of
                   \* its guard, queueData and the two marks, in one
    at,            \* Unload's iterator
    pass,          \* ProcessQueryThread's loop
    opened,        \* history: how many handlers there were
    fault          \* the first fault, if any

instance == <<m_pInstance, made, freed>>
threads  == <<phase, aim, got, holds>>
handles  == <<SQLHandle, deleted, connected, waiting, at, pass, opened>>

vars == <<instance, owned, threads, unload, handles, fault>>

NULL == 0
Threads == {"main", "worker"}
Objects == 1 .. MaxMutexes
Handlers == 1 .. MaxHandlers

Free == [owner |-> "none", depth |-> 0]

Phases == {"out", "test", "make", "read", "call"}

\* The worker compares i with the size, reads SQLHandle[i], and uses the
\* handler: pings, sends the statement or connects.
PassPhases == {"look", "read", "use", "over"}
Passes == [phase : PassPhases, at : Nat \ {0}, handler : Handlers \cup {0}]

PassStart == [phase |-> "look", at |-> 1, handler |-> 0]

Faults == {"none", "beyond", "handler", "shifted", "deleted", "NULL"}

LifeTypeOK ==
    /\ m_pInstance \in Objects \cup {NULL}
    /\ made \in 0 .. MaxMutexes
    /\ freed \in SUBSET Objects
    /\ owned \in [Objects -> [owner : Threads \cup {"none"}, depth : 0 .. 2]]
    /\ phase \in [Threads -> Phases]
    /\ aim \in [Threads -> {"lock", "unlock", "delete"}]
    /\ got \in [Threads -> Objects \cup {NULL}]
    /\ holds \in [Threads -> 0 .. 2]
    /\ unload \in {"no", "loop", "closing", "erase", "mutex", "done"}
    /\ SQLHandle \in Seq(Handlers)
    /\ deleted \in SUBSET Handlers
    /\ connected \in SUBSET Handlers
    /\ waiting \in SUBSET Handlers
    /\ at \in Nat
    /\ pass \in Passes
    /\ opened \in 0 .. MaxHandlers
    /\ fault \in Faults

\* Load: no Mutex yet, the worker started.  SQLHandle is what the scripts
\* will have opened by the time of Unload; what natives and callbacks do to
\* it before is in HandleTable.
LifeInit ==
    /\ m_pInstance = NULL
    /\ made = 0
    /\ freed = {}
    /\ owned = [k \in Objects |-> Free]
    /\ phase = [t \in Threads |-> "out"]
    /\ aim = [t \in Threads |-> "lock"]
    /\ got = [t \in Threads |-> NULL]
    /\ holds = [t \in Threads |-> 0]
    /\ unload = "no"
    /\ opened \in 0 .. MaxHandlers
    /\ SQLHandle = [i \in 1 .. opened |-> i]
    /\ deleted = {}
    /\ connected \in SUBSET (1 .. opened)
    /\ waiting \in SUBSET (1 .. opened)
    /\ at = 0
    /\ pass = PassStart
    /\ fault = "none"

\* Mutant: the name of the kernel mutex is not the same for all objects.
Unnamed(o) == o

\* The operating-system mutex of object o.
Kernel(o) == IF Recursive THEN 1 ELSE o

-----------------------------------------------------------------------------
(***************************************************************************)
(* getInstance: the test, the new object, and the value returned, which is *)
(* read from m_pInstance once more.                                        *)
(***************************************************************************)
Call(t, purpose) ==
    /\ phase[t] = "out"
    /\ phase' = [phase EXCEPT ![t] = "test"]
    /\ aim' = [aim EXCEPT ![t] = purpose]

Find == IF m_pInstance = NULL THEN "make" ELSE "read"

TestInstance(t) ==
    /\ phase[t] = "test"
    /\ phase' = [phase EXCEPT ![t] = Find]
    /\ UNCHANGED <<instance, owned, aim, got, holds, unload, handles, fault>>

MakeInstance(t) ==
    /\ phase[t] = "make"
    /\ made < MaxMutexes
    /\ made' = made + 1
    /\ m_pInstance' = made + 1
    /\ phase' = [phase EXCEPT ![t] = "read"]
    /\ UNCHANGED <<freed, owned, aim, got, holds, unload, handles, fault>>

ReadInstance(t) ==
    /\ phase[t] = "read"
    /\ got' = [got EXCEPT ![t] = m_pInstance]
    /\ phase' = [phase EXCEPT ![t] = "call"]
    /\ UNCHANGED <<instance, owned, aim, holds, unload, handles, fault>>

\* A call on an object that is not there.
BadCall(t) ==
    /\ phase[t] = "call"
    /\ got[t] \in freed \cup {NULL}
    /\ fault' = IF got[t] = NULL THEN "NULL" ELSE "deleted"
    /\ UNCHANGED <<instance, owned, threads, unload, handles>>

Calls(t, purpose) ==
    /\ phase[t] = "call"
    /\ aim[t] = purpose
    /\ got[t] \notin freed \cup {NULL}
    /\ phase' = [phase EXCEPT ![t] = "out"]

LockMutex(t) ==
    LET k == Kernel(got[t]) IN
    /\ Calls(t, "lock")
    /\ owned[k].owner = "none" \/ (Recursive /\ owned[k].owner = t)
    /\ owned' = [owned EXCEPT ![k] = [owner |-> t, depth |-> @.depth + 1]]
    /\ holds' = [holds EXCEPT ![t] = @ + 1]
    /\ UNCHANGED <<instance, aim, got, unload, handles, fault>>

\* Mutant: nothing is given back.
Kept(os) == os

GivenBack(os) == IF os.depth = 1 THEN Free ELSE [os EXCEPT !.depth = @ - 1]

\* Unlocking what another thread has: Windows refuses; pthreads leaves it
\* undefined, here either nothing or the mutex is free.
UnlockMutex(t) ==
    LET k == Kernel(got[t]) IN
    /\ Calls(t, "unlock")
    /\ \/ /\ owned[k].owner = t
          /\ owned' = [owned EXCEPT ![k] = GivenBack(@)]
       \/ owned[k].owner # t /\ UNCHANGED owned
       \/ owned[k].owner # t /\ ~Recursive /\ owned' = [owned EXCEPT ![k] = Free]
    /\ holds' = [holds EXCEPT ![t] = @ - 1]
    /\ UNCHANGED <<instance, aim, got, unload, handles, fault>>

GetInstance(t) ==
    TestInstance(t) \/ MakeInstance(t) \/ ReadInstance(t) \/ BadCall(t)
    \/ LockMutex(t) \/ UnlockMutex(t)

-----------------------------------------------------------------------------
(***************************************************************************)
(* A native locks and unlocks; mysql_close locks once more in between, a   *)
(* call that does not return on pthreads (CloseReturns in QueryThread) and *)
(* is left out there.                                                      *)
(***************************************************************************)
NativeCalls ==
    /\ unload = "no"
    /\ HeadStart => m_pInstance # NULL
    /\ \/ Call("main", "lock") /\ holds["main"] < IF Recursive THEN 2 ELSE 1
       \/ Call("main", "unlock") /\ holds["main"] > 0
    /\ UNCHANGED <<instance, owned, got, holds, unload, handles, fault>>

-----------------------------------------------------------------------------
(***************************************************************************)
(* ProcessQueryThread: lock, a pass over the vector, unlock, for ever.     *)
(* Every mention of SQLHandle[i] reads the vector anew.                    *)
(***************************************************************************)
Using(x) == pass.phase = "use" /\ pass.handler = x

There == SQLHandle[pass.at]

WorkerLocks ==
    /\ holds["worker"] = 0
    /\ Call("worker", "lock")
    /\ UNCHANGED <<instance, owned, got, holds, unload, handles, fault>>

WorkerUnlocks ==
    /\ holds["worker"] > 0
    /\ pass.phase = "over"
    /\ Call("worker", "unlock")
    /\ pass' = PassStart
    /\ UNCHANGED <<instance, owned, got, holds, unload, SQLHandle, deleted,
                   connected, waiting, at, opened, fault>>

Walking(where) ==
    /\ phase["worker"] = "out"
    /\ holds["worker"] > 0
    /\ pass.phase = where
    /\ UNCHANGED <<instance, owned, threads, unload, SQLHandle, deleted, at, opened>>

PassNext == [PassStart EXCEPT !.at = pass.at + 1]

\* i < SQLHandle.size()
WorkerLook ==
    /\ Walking("look")
    /\ pass' = [pass EXCEPT !.phase = IF pass.at <= Len(SQLHandle) THEN "read" ELSE "over"]
    /\ UNCHANGED <<connected, waiting, fault>>

\* What SQLHandle[i]-> meets.
Met == IF pass.at > Len(SQLHandle) THEN "beyond"
       ELSE IF There \in deleted THEN "handler" ELSE "none"

\* The guard, and the ping: after a failed one the handler is disconnected.
WorkerRead ==
    /\ Walking("read")
    /\ fault' = Met
    /\ \/ Met # "none" /\ UNCHANGED <<pass, connected>>
       \/ /\ Met = "none" /\ There \notin waiting \cap connected
          /\ pass' = PassNext
          /\ UNCHANGED connected
       \/ /\ Met = "none" /\ There \in waiting \cap connected
          /\ pass' = [pass EXCEPT !.phase = "use", !.handler = There]
          /\ connected' \in {connected, connected \ {There}}
    /\ UNCHANGED waiting

\* The statement's outcome is queued and the query popped, or Connect ends.
WorkerUsed ==
    /\ Walking("use")
    /\ fault' = IF Met = "none" /\ There # pass.handler THEN "shifted" ELSE Met
    /\ \/ fault' # "none" /\ UNCHANGED <<pass, connected, waiting>>
       \/ /\ fault' = "none" /\ There \in connected
          /\ waiting' \in {waiting, waiting \ {There}}
          /\ pass' = PassNext
          /\ UNCHANGED connected
       \/ /\ fault' = "none" /\ There \notin connected
          /\ connected' \in {connected, connected \cup {There}}
          /\ pass' = PassNext
          /\ UNCHANGED waiting

ProcessQueryThread ==
    WorkerLocks \/ WorkerUnlocks \/ WorkerLook \/ WorkerRead \/ WorkerUsed

-----------------------------------------------------------------------------
(***************************************************************************)
(* Unload.  The iterator stays where the erased handler was, and the loop  *)
(* then increments it; past end() it is dereferenced all the same.         *)
(***************************************************************************)
Quiet == phase["main"] = "out" /\ holds["main"] = 0

Here == SQLHandle[at]

UnloadStart ==
    /\ Quiet
    /\ unload = "no"
    /\ HeadStart => m_pInstance # NULL
    /\ unload' = "loop"
    /\ at' = 1
    /\ UNCHANGED <<instance, owned, threads, SQLHandle, deleted, connected, waiting,
                   pass, opened, fault>>

\* delete *i, after what its destructor waits for.
DeleteHandler ==
    /\ Quiet
    /\ deleted' = deleted \cup {Here}
    /\ fault' = IF Using(Here) THEN "handler" ELSE "none"
    /\ unload' = "erase"
    /\ UNCHANGED <<instance, owned, threads, SQLHandle, waiting, at, pass, opened>>

\* The destructor of a handler that is not connected does not lock.
UnloadHandler ==
    /\ unload = "loop"
    /\ at <= Len(SQLHandle)
    /\ Here \notin connected
    /\ DeleteHandler
    /\ UNCHANGED connected

\* Mutant: Unload keeps the mutex over the destructor's Disconnect.
LockOnly == holds["main"] = 1 /\ Call("main", "lock")

\* Disconnect's second call.
UnlockAfter == holds["main"] = 1 /\ Call("main", "unlock")

\* The destructor of a connected one locks, in Disconnect.
UnloadConnected ==
    /\ unload = "loop"
    /\ at <= Len(SQLHandle)
    /\ Here \in connected
    /\ Quiet
    /\ Call("main", "lock")
    /\ unload' = "closing"
    /\ UNCHANGED <<instance, owned, got, holds, handles, fault>>

\* Mutant: Disconnect leaves the queries in the queue.
QueueKept == waiting' = waiting

\* while(!queueData.empty()) queueData.pop()
QueueEmptied == waiting' = waiting \ {Here}

UnloadDisconnect ==
    /\ unload = "closing"
    /\ UnlockAfter
    /\ QueueEmptied
    /\ UNCHANGED <<instance, owned, got, holds, unload, SQLHandle, deleted, connected,
                   at, pass, opened, fault>>

\* mysql_close, m_bIsConnected = false, and the object goes.
UnloadDisconnected ==
    /\ unload = "closing"
    /\ DeleteHandler
    /\ connected' = connected \ {Here}

\* Mutant: the iterator is not incremented after an erase.
EraseHereOnly == at' = at /\ SQLHandle' = RemoveAt(SQLHandle, at)

\* SQLHandle.erase(i), ++i
EraseAndStep == at' = at + 1 /\ SQLHandle' = RemoveAt(SQLHandle, at)

\* Without the mutex, wherever the worker is.
UnloadErase ==
    /\ unload = "erase"
    /\ EraseAndStep
    /\ unload' = "loop"
    /\ UNCHANGED <<instance, owned, threads, deleted, connected, waiting, pass,
                   opened, fault>>

UnloadBeyond ==
    /\ unload = "loop"
    /\ at > Len(SQLHandle) + 1
    /\ fault' = "beyond"
    /\ UNCHANGED <<instance, owned, threads, unload, handles>>

\* SQLHandle.clear(), delete Mutex::getInstance()
UnloadMutex ==
    /\ unload = "loop"
    /\ at = Len(SQLHandle) + 1
    /\ SQLHandle' = <<>>
    /\ Call("main", "delete")
    /\ unload' = "mutex"
    /\ UNCHANGED <<instance, owned, got, holds, deleted, connected, waiting, at,
                   pass, opened, fault>>

\* The destructor: the operating-system mutex goes with its last object, and
\* m_pInstance becomes NULL whatever it was.
DeleteMutex ==
    LET o == got["main"]
        last == \A other \in 1 .. made \ (freed \cup {o}) : Kernel(other) # Kernel(o)
    IN
    /\ Calls("main", "delete")
    /\ freed' = freed \cup {o}
    /\ owned' = IF last THEN [owned EXCEPT ![Kernel(o)] = Free] ELSE owned
    /\ m_pInstance' = NULL
    /\ unload' = "done"
    /\ UNCHANGED <<made, aim, got, holds, handles, fault>>

Unload ==
    UnloadStart \/ UnloadHandler \/ UnloadConnected \/ UnloadDisconnect
    \/ UnloadDisconnected \/ UnloadErase \/ UnloadBeyond \/ UnloadMutex \/ DeleteMutex

-----------------------------------------------------------------------------
MainThread   == fault = "none" /\ (NativeCalls \/ Unload \/ GetInstance("main"))
WorkerThread == fault = "none" /\ (ProcessQueryThread \/ GetInstance("worker"))

LifeNext == MainThread \/ WorkerThread

LifeSpec == LifeInit /\ [][LifeNext]_vars

\* Both threads run; who waits for a mutex that is given back again and
\* again gets it; the server calls Unload for once.
LifeFairSpec ==
    LifeSpec /\ WF_vars(WorkerThread) /\ SF_vars(MainThread /\ unload # "no")

-----------------------------------------------------------------------------
Loaded == unload # "done"

\* Who is between _lockMutex and _unlockMutex, and how many times over.
Inside ==
    IF holds["main"] > 0 THEN [owner |-> "main", depth |-> holds["main"]]
    ELSE IF holds["worker"] > 0 THEN [owner |-> "worker", depth |-> holds["worker"]]
    ELSE Free

M == INSTANCE CMutex WITH mutex <- Inside

(***************************************************************************)
(* The two threads are never both between _lockMutex and _unlockMutex,     *)
(* until Unload deletes the mutex.  On Windows this is so whoever makes    *)
(* the instance, and if both make one; on pthreads it needs the head start.*)
(***************************************************************************)
InsideAlone == Loaded => ~(holds["main"] > 0 /\ holds["worker"] > 0)

(***************************************************************************)
(* What the threads do through getInstance, with all its races, is what    *)
(* CMutex says of the mutex: a thread gets in only when the mutex is free  *)
(* or its own, and leaves one level at a time.  The other modules build on *)
(* this.                                                                   *)
(***************************************************************************)
ImplementsMutex ==
    M!MutexInit /\ [][unload' # "done" => M!MutexNext \/ UNCHANGED Inside]_vars

(***************************************************************************)
(* When the destructor of a connected handler comes to close the           *)
(* connection, the mutex given back, the worker is not using the handler   *)
(* and will not again: it has been waited for, and the queue is empty.     *)
(* (A handler that is not connected, say because the worker is in its      *)
(* Connect, is deleted without waiting: the fault "handler".)              *)
(***************************************************************************)
ClosedUnused ==
    unload = "closing" /\ Quiet => ~Using(Here) /\ Here \notin waiting

(***************************************************************************)
(* Unload's loop passes over every second handler: when it ends only those *)
(* at odd places were deleted, and clear() forgets the others; and it ends *)
(* only if their number was even, so that half of them are forgotten.      *)
(***************************************************************************)
UnloadForgetsHalf ==
    unload \in {"mutex", "done"} =>
       \E n \in 0 .. opened :
          /\ opened = 2 * n
          /\ deleted = {2 * i - 1 : i \in 1 .. n}

(***************************************************************************)
(* Unload returns, unless there is a fault on the way (it steps out of the *)
(* vector, or the worker loses the handler it reads or uses): waiting for  *)
(* the worker's pass in each Disconnect does not block it.                 *)
(***************************************************************************)
UnloadReturns == unload = "loop" ~> unload = "done" \/ fault # "none"
=============================================================================
