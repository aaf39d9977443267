-------------------------- MODULE PluginLifeProofs --------------------------
(***************************************************************************)
(* Proofs about PluginLife, for any number of handlers and mutexes: with   *)
(* the kernel mutex of Windows, or with a head start of the worker, the    *)
(* lazily made instance works as the one mutex CMutex describes.           *)
(***************************************************************************)
EXTENDS PluginLife, QueueLemmas

ShapeOK ==
    /\ m_pInstance \in Objects \cup {NULL}
    /\ made \in Nat
    /\ owned \in [Objects -> [owner : Threads \cup {"none"}, depth : Nat]]
    /\ phase \in [Threads -> Phases]
    /\ aim \in [Threads -> {"lock", "unlock", "delete"}]
    /\ got \in [Threads -> Objects \cup {NULL}]
    /\ holds \in [Threads -> Nat]

\* An operating-system mutex has an owner only if it is that of the instance
\* and its owner is inside that deep.
OwnerInv ==
    \A k \in Objects :
       /\ owned[k].owner = "none" => owned[k] = Free
       /\ \A t \in Threads : owned[k].owner = t =>
             m_pInstance # NULL /\ k = Kernel(m_pInstance) /\ owned[k].depth = holds[t]

InsideInv ==
    \A t \in Threads :
       /\ holds[t] > 0 => m_pInstance # NULL /\ owned[Kernel(m_pInstance)].owner = t
       /\ phase[t] # "out" /\ aim[t] = "unlock" => holds[t] > 0

\* What getInstance may rely on between its steps.
LookupInv ==
    \A t \in Threads :
       /\ phase[t] = "read" => m_pInstance # NULL
       /\ phase[t] = "call" =>
             /\ m_pInstance # NULL /\ got[t] # NULL
             /\ Recursive \/ got[t] = m_pInstance
       /\ ~Recursive /\ m_pInstance # NULL => phase[t] # "make"

HeadInv ==
    HeadStart => /\ m_pInstance = NULL => phase["main"] = "out"
                 /\ unload # "no" => m_pInstance # NULL

LifeInv ==
    Loaded => ShapeOK /\ OwnerInv /\ InsideInv /\ LookupInv /\ HeadInv /\ freed = {}

USE DEF NULL

LEMMA KernelType == ASSUME NEW o \in Objects PROVE Kernel(o) \in Objects
  BY LifeAssumption DEF Kernel, Objects

\* Steps that only take a thread into getInstance.
LEMMA CallKeeps ==
  ASSUME LifeInv, Loaded, NEW t \in Threads, NEW purpose \in {"lock", "unlock", "delete"},
         Call(t, purpose), purpose = "unlock" => holds[t] > 0,
         t = "main" /\ HeadStart => m_pInstance # NULL,
         unload' # "no" /\ HeadStart => m_pInstance # NULL,
         UNCHANGED <<instance, owned, got, holds>>
  PROVE  LifeInv'
  <1> USE DEF LifeInv, Call, instance
  <1>1. ShapeOK' BY DEF ShapeOK, Phases
  <1>2. OwnerInv' BY DEF OwnerInv, Kernel
  <1>3. InsideInv' BY DEF InsideInv, Kernel, ShapeOK
  <1>4. LookupInv' BY DEF LookupInv, ShapeOK
  <1>5. HeadInv' BY DEF HeadInv, ShapeOK, Threads
  <1> QED BY <1>1, <1>2, <1>3, <1>4, <1>5

\* Steps that leave the threads' business with the mutex alone.
LEMMA FrameKeeps ==
  ASSUME LifeInv, Loaded, unload' # "no" /\ HeadStart => m_pInstance # NULL,
         UNCHANGED <<instance, owned, threads>>
  PROVE  LifeInv'
  BY DEF LifeInv, ShapeOK, OwnerInv, InsideInv, LookupInv, HeadInv, instance,
         threads, Kernel

LEMMA LookupKeeps ==
  ASSUME LifeInv, Loaded, Recursive \/ HeadStart, NEW t \in Threads,
         TestInstance(t) \/ MakeInstance(t) \/ ReadInstance(t)
  PROVE  LifeInv'
  <1> USE DEF LifeInv
  <1>0. Loaded' BY DEF TestInstance, MakeInstance, ReadInstance, Loaded
  <1>1. CASE TestInstance(t)
    <2> USE <1>1 DEF TestInstance, instance
    <2>1. ShapeOK' BY DEF ShapeOK, Phases, Find
    <2>2. OwnerInv' BY DEF OwnerInv, Kernel
    <2>3. InsideInv' BY DEF InsideInv, Kernel, ShapeOK
    <2>4. LookupInv' BY DEF LookupInv, ShapeOK, Find
    <2>5. HeadInv' BY DEF HeadInv, ShapeOK, Threads, handles
    <2> QED BY <2>1, <2>2, <2>3, <2>4, <2>5
  <1>2. CASE MakeInstance(t)
    <2> USE <1>2 DEF MakeInstance, instance
    <2>0. made + 1 \in Objects /\ made + 1 # NULL
      BY LifeAssumption DEF ShapeOK, Objects
    <2>1. Recursive \/ m_pInstance = NULL BY DEF LookupInv
    <2>2. \A k \in Objects, u \in Threads : owned[k].owner = u =>
             k = Kernel(m_pInstance)' /\ m_pInstance' # NULL
      BY <2>0, <2>1 DEF OwnerInv, Kernel
    <2>3. ShapeOK' BY <2>0 DEF ShapeOK, Phases
    <2>4. OwnerInv' BY <2>2 DEF OwnerInv
    <2>5. InsideInv'
      BY <2>0, <2>1 DEF InsideInv, Kernel, ShapeOK
    <2>6. ~Recursive => \A u \in Threads : u # t => phase[u] # "make" /\ phase[u] # "call"
      BY <2>1 DEF LookupInv, HeadInv, Threads
    <2>7. LookupInv' BY <2>0, <2>6 DEF LookupInv, ShapeOK
    <2>8. HeadInv' BY <2>0 DEF HeadInv
    <2> QED BY <2>3, <2>4, <2>5, <2>7, <2>8
  <1>3. CASE ReadInstance(t)
    <2> USE <1>3 DEF ReadInstance, instance
    <2>1. ShapeOK' BY DEF ShapeOK, Phases
    <2>2. OwnerInv' BY DEF OwnerInv, Kernel
    <2>3. InsideInv' BY DEF InsideInv, Kernel, ShapeOK
    <2>4. LookupInv' BY DEF LookupInv, ShapeOK
    <2>5. HeadInv' BY DEF HeadInv, ShapeOK
    <2> QED BY <2>1, <2>2, <2>3, <2>4, <2>5
  <1> QED BY <1>1, <1>2, <1>3

\* A thread that calls the instance has the mutex the others mean.
LEMMA CallsKernel ==
  ASSUME LifeInv, Loaded, NEW t \in Threads, phase[t] = "call"
  PROVE  /\ Kernel(got[t]) = Kernel(m_pInstance) /\ Kernel(got[t]) \in Objects
         /\ got[t] \in Objects /\ m_pInstance # NULL
  <1>1. got[t] \in Objects BY DEF LifeInv, LookupInv, ShapeOK
  <1>2. Kernel(got[t]) = Kernel(m_pInstance) BY DEF LifeInv, LookupInv, Kernel
  <1> QED BY <1>1, <1>2, KernelType DEF LifeInv, LookupInv

LEMMA LockKeeps ==
  ASSUME LifeInv, Loaded, NEW t \in Threads, LockMutex(t)
  PROVE  LifeInv'
  <1> DEFINE k == Kernel(got[t])
  <1> USE DEF LifeInv, LockMutex, Calls, instance
  <1>1. k = Kernel(m_pInstance) /\ k \in Objects /\ m_pInstance # NULL
    BY CallsKernel
  <1>2. owned[k].depth = holds[t]
    <2>1. CASE owned[k].owner = "none"
      <3>1. holds[t] = 0 BY <1>1, <2>1 DEF InsideInv, ShapeOK, Threads
      <3> QED BY <1>1, <2>1, <3>1 DEF OwnerInv, Free
    <2> QED BY <1>1, <2>1 DEF OwnerInv
  <1>3. owned' = [owned EXCEPT ![k] = [owner |-> t, depth |-> holds[t] + 1]]
    BY <1>2
  <1>4. \A u \in Threads : u # t => holds[u] = 0
    BY <1>1 DEF InsideInv, ShapeOK, Threads
  <1> HIDE DEF k
  <1>5. ShapeOK'
    <2>1. [owner |-> t, depth |-> holds[t] + 1]
             \in [owner : Threads \cup {"none"}, depth : Nat] BY DEF ShapeOK
    <2>2. owned' \in [Objects -> [owner : Threads \cup {"none"}, depth : Nat]]
      BY <1>1, <1>3, <2>1 DEF ShapeOK
    <2>3. holds' \in [Threads -> Nat] /\ phase' \in [Threads -> Phases]
      BY DEF ShapeOK, Phases
    <2> QED BY <2>2, <2>3 DEF ShapeOK
  <1>6. Kernel(m_pInstance)' = k BY <1>1 DEF Kernel
  <1>7. OwnerInv'
    BY <1>1, <1>3, <1>4, <1>6 DEF OwnerInv, ShapeOK, Free, Threads
  <1>8. InsideInv' BY <1>1, <1>3, <1>4, <1>6 DEF InsideInv, ShapeOK
  <1>9. LookupInv' BY DEF LookupInv, ShapeOK
  <1>10. HeadInv' BY DEF HeadInv, ShapeOK
  <1> QED BY <1>5, <1>7, <1>8, <1>9, <1>10

LEMMA UnlockKeeps ==
  ASSUME LifeInv, Loaded, NEW t \in Threads, UnlockMutex(t)
  PROVE  LifeInv' /\ holds[t] > 0
  <1> DEFINE k == Kernel(got[t])
  <1> USE DEF LifeInv, UnlockMutex, Calls, instance
  <1>1. k = Kernel(m_pInstance) /\ k \in Objects /\ m_pInstance # NULL
    BY CallsKernel
  <1>2. holds[t] > 0 /\ holds[t] \in Nat BY DEF InsideInv, ShapeOK
  <1>3. owned[k].owner = t /\ owned[k].depth = holds[t]
    BY <1>1, <1>2 DEF InsideInv, OwnerInv
  <1>4. owned' = [owned EXCEPT ![k] = GivenBack(owned[k])] BY <1>3
  <1>5. \A u \in Threads : u # t => holds[u] = 0
    BY <1>1, <1>3 DEF InsideInv, ShapeOK
  <1>6. Kernel(m_pInstance)' = k BY <1>1 DEF Kernel
  <1> HIDE DEF k
  <1>7. owned[k] \in [owner : Threads \cup {"none"}, depth : Nat]
    BY <1>1 DEF ShapeOK
  <1>8. IF holds[t] = 1 THEN owned'[k] = Free
        ELSE owned'[k].owner = t /\ owned'[k].depth = holds[t] - 1
    BY <1>1, <1>2, <1>3, <1>4, <1>7 DEF GivenBack, ShapeOK
  <1>9. GivenBack(owned[k]) \in [owner : Threads \cup {"none"}, depth : Nat]
    BY <1>2, <1>3, <1>7 DEF GivenBack, Free
  <1>10. /\ \A j \in Objects : j # k => owned'[j] = owned[j]
         /\ holds' = [holds EXCEPT ![t] = holds[t] - 1]
    BY <1>4 DEF ShapeOK
  <1>11. ShapeOK' BY <1>1, <1>2, <1>4, <1>9, <1>10 DEF ShapeOK, Phases
  <1>12. OwnerInv'
    <2> SUFFICES ASSUME NEW j \in Objects
                 PROVE  /\ owned'[j].owner = "none" => owned'[j] = Free
                        /\ \A u \in Threads : owned'[j].owner = u =>
                              j = k /\ owned'[j].depth = holds'[u]
      BY <1>1, <1>6 DEF OwnerInv
    <2>1. CASE j # k BY <2>1, <1>1, <1>10 DEF OwnerInv
    <2>2. CASE j = k
      BY <2>2, <1>2, <1>8, <1>10 DEF Free, Threads, ShapeOK
    <2> QED BY <2>1, <2>2
  <1>13. InsideInv'
    BY <1>1, <1>2, <1>5, <1>6, <1>8, <1>10 DEF InsideInv, ShapeOK
  <1>14. LookupInv' BY DEF LookupInv, ShapeOK
  <1>15. HeadInv' BY DEF HeadInv, ShapeOK
  <1> QED BY <1>2, <1>11, <1>12, <1>13, <1>14, <1>15

\* No thread meets a Mutex that is not there.
LEMMA NoBadCall ==
  ASSUME LifeInv, Loaded, NEW t \in Threads
  PROVE  ~BadCall(t)
  BY DEF LifeInv, LookupInv, BadCall

-----------------------------------------------------------------------------
\* No step leads back from Unload.
LEMMA LoadedBefore ==
  ASSUME [LifeNext]_vars, Loaded' PROVE Loaded
  BY DEF Loaded, LifeNext, MainThread, WorkerThread, ProcessQueryThread,
     WorkerLocks, WorkerUnlocks, WorkerLook, WorkerRead, WorkerUsed, Walking,
     NativeCalls, Unload, UnloadStart, UnloadHandler, DeleteHandler, UnloadConnected,
     UnloadDisconnect, UnloadDisconnected, UnloadErase, UnloadBeyond, UnloadMutex,
     DeleteMutex, GetInstance, TestInstance, MakeInstance, ReadInstance,
     BadCall, LockMutex, UnlockMutex, vars

\* One step of either thread: what it keeps, and what it does to Inside.
LEMMA StepKeeps ==
  ASSUME LifeInv, Recursive \/ HeadStart, [LifeNext]_vars, Loaded'
  PROVE  LifeInv'
  <1>0. Loaded BY LoadedBefore
  <1> USE <1>0
  <1>1. HeadStart /\ unload # "no" => m_pInstance # NULL
    BY DEF LifeInv, HeadInv
  <1>2. ASSUME NEW t \in Threads, GetInstance(t) PROVE LifeInv'
    BY <1>2, LookupKeeps, LockKeeps, UnlockKeeps, NoBadCall DEF GetInstance
  <1>3. CASE ProcessQueryThread
    <2>1. CASE WorkerLocks
      BY <1>1, <2>1, CallKeeps DEF WorkerLocks, Threads
    <2>2. CASE WorkerUnlocks
      BY <1>1, <2>2, CallKeeps DEF WorkerUnlocks, Threads
    <2>3. CASE WorkerLook \/ WorkerRead \/ WorkerUsed
      BY <1>1, <2>3, FrameKeeps DEF WorkerLook, WorkerRead, WorkerUsed, Walking
    <2> QED BY <1>3, <2>1, <2>2, <2>3 DEF ProcessQueryThread
  <1>4. CASE NativeCalls
    BY <1>1, <1>4, CallKeeps DEF NativeCalls, Threads
  <1>5. CASE Unload
    <2>1. CASE UnloadConnected
      BY <1>1, <2>1, CallKeeps DEF UnloadConnected, Threads
    <2>2. CASE UnloadDisconnect
      BY <1>1, <2>2, CallKeeps DEF UnloadDisconnect, UnlockAfter, Threads
    <2>3. CASE UnloadMutex
      BY <1>1, <2>3, CallKeeps DEF UnloadMutex, Threads
    <2>4. CASE UnloadStart BY <2>4, FrameKeeps DEF UnloadStart
    <2>5. CASE UnloadHandler \/ UnloadDisconnected
      BY <1>1, <2>5, FrameKeeps DEF UnloadHandler, UnloadDisconnected, DeleteHandler
    <2>6. CASE UnloadErase BY <1>1, <2>6, FrameKeeps DEF UnloadErase
    <2>7. CASE UnloadBeyond BY <1>1, <2>7, FrameKeeps DEF UnloadBeyond
    <2>8. CASE DeleteMutex BY <2>8 DEF DeleteMutex, Loaded
    <2> QED BY <1>5, <2>1, <2>2, <2>3, <2>4, <2>5, <2>6, <2>7, <2>8 DEF Unload
  <1>6. CASE UNCHANGED vars BY <1>1, <1>6, FrameKeeps DEF vars
  <1> QED BY <1>2, <1>3, <1>4, <1>5, <1>6
        DEF LifeNext, MainThread, WorkerThread, Threads

(***************************************************************************)
(* The invariant of the lazily made mutex.  It says nothing of a state in  *)
(* which Unload has deleted the mutex, and no step leads back from there.  *)
(***************************************************************************)
THEOREM LifeInductive ==
  ASSUME Recursive \/ HeadStart PROVE LifeSpec => []LifeInv
  <1>1. LifeInit => LifeInv
    BY DEF LifeInit, LifeInv, ShapeOK, OwnerInv, InsideInv, LookupInv, HeadInv,
           Free, Phases, Threads
  <1>2. LifeInv /\ [LifeNext]_vars => LifeInv'
    BY StepKeeps DEF LifeInv
  <1> QED BY <1>1, <1>2, PTL DEF LifeSpec

(***************************************************************************)
(* Until Unload deletes the mutex the two threads are never both between   *)
(* _lockMutex and _unlockMutex.                                            *)
(***************************************************************************)
THEOREM InsideSafe ==
  ASSUME Recursive \/ HeadStart PROVE LifeSpec => []InsideAlone
  <1>1. LifeInv => InsideAlone
    BY DEF LifeInv, InsideInv, InsideAlone, Threads
  <1> QED BY <1>1, LifeInductive, PTL

(***************************************************************************)
(* The lazily made mutex implements CMutex: each step of the program locks *)
(* it, unlocks it by its owner or leaves it alone, until Unload.           *)
(***************************************************************************)
THEOREM LifeImplementsMutex ==
  ASSUME Recursive \/ HeadStart PROVE LifeSpec => ImplementsMutex
  <1>1. LifeInit => M!MutexInit
    BY DEF LifeInit, M!MutexInit, M!MutexFree, Inside, Free, Threads
  <1>2. ASSUME LifeInv, [LifeNext]_vars, unload' # "done"
        PROVE  M!MutexNext \/ UNCHANGED Inside
    <2>1. Loaded BY <1>2, LoadedBefore DEF Loaded
    <2>2. ASSUME NEW t \in Threads, LockMutex(t) PROVE M!MutexNext
      <3>1. \A u \in Threads : u # t => holds[u] = 0
        BY <1>2, <2>1, <2>2, CallsKernel
           DEF LockMutex, Calls, LifeInv, InsideInv, ShapeOK, Threads
      <3>2. holds[t] > 0 => Recursive
        BY <1>2, <2>1, <2>2, CallsKernel
           DEF LockMutex, Calls, LifeInv, InsideInv, Threads
      <3>3. holds' = [holds EXCEPT ![t] = holds[t] + 1] /\ holds \in [Threads -> Nat]
        BY <1>2, <2>1, <2>2 DEF LockMutex, LifeInv, ShapeOK
      <3>4. Inside = IF holds[t] > 0 THEN [owner |-> t, depth |-> holds[t]] ELSE Free
        BY <3>1, <3>3 DEF Inside, Threads
      <3>5. Inside' = [owner |-> t, depth |-> holds[t] + 1]
        BY <3>1, <3>3 DEF Inside, Threads
      <3>6. M!LockMutex(t)
        BY <3>2, <3>3, <3>4, <3>5 DEF M!LockMutex, M!CanLock, Free
      <3> QED BY <3>6 DEF M!MutexNext, M!Threads, Threads
    <2>3. ASSUME NEW t \in Threads, UnlockMutex(t) PROVE M!MutexNext
      <3>1. holds[t] > 0 BY <1>2, <2>1, <2>3, UnlockKeeps
      <3>2. \A u \in Threads : u # t => holds[u] = 0
        BY <1>2, <2>1, <3>1 DEF LifeInv, InsideInv, ShapeOK, Threads
      <3>3. holds' = [holds EXCEPT ![t] = holds[t] - 1] /\ holds \in [Threads -> Nat]
        BY <1>2, <2>1, <2>3 DEF UnlockMutex, LifeInv, ShapeOK
      <3>4. Inside = [owner |-> t, depth |-> holds[t]]
        BY <3>1, <3>2, <3>3 DEF Inside, Threads
      <3>5. Inside' = IF holds[t] = 1 THEN Free
                      ELSE [owner |-> t, depth |-> holds[t] - 1]
        BY <3>1, <3>2, <3>3 DEF Inside, Threads
      <3>6. M!UnlockMutex /\ Inside.owner = t
        BY <3>1, <3>4, <3>5 DEF M!UnlockMutex, M!MutexFree, Free
      <3> QED BY <3>6 DEF M!MutexNext, M!Threads, Threads
    <2>4. \/ UNCHANGED holds
          \/ \E t \in Threads : LockMutex(t) \/ UnlockMutex(t)
      BY <1>2 DEF LifeNext, MainThread, WorkerThread, ProcessQueryThread,
            WorkerLocks, WorkerUnlocks, WorkerLook, WorkerRead, WorkerUsed, Walking,
            NativeCalls, Unload, UnloadStart, UnloadHandler, DeleteHandler,
            UnloadConnected, UnloadDisconnect, UnloadDisconnected, UnloadErase,
            UnloadBeyond, UnloadMutex, DeleteMutex, GetInstance, TestInstance, MakeInstance, ReadInstance,
            BadCall, vars, threads, Threads
    <2> QED BY <2>2, <2>3, <2>4 DEF Inside
  <1>3. LifeInv /\ [LifeNext]_vars
          => [unload' # "done" => M!MutexNext \/ UNCHANGED Inside]_vars
    BY <1>2
  <1> QED BY <1>1, <1>3, LifeInductive, PTL DEF LifeSpec, ImplementsMutex
-----------------------------------------------------------------------------
(***************************************************************************)
(* Types, for every build and whoever makes the instance: how deep an      *)
(* operating-system mutex can be locked, and where Unload's loop is.       *)
(***************************************************************************)
OwnedType == [owner : Threads \cup {"none"}, depth : 0 .. 2]

DepthInv ==
    \A k \in Objects :
       /\ k # Kernel(k) => owned[k].owner = "none"
       /\ owned[k].owner = "none" => owned[k].depth = 0
       /\ \A t \in Threads : owned[k].owner = t =>
             /\ owned[k].depth > 0
             /\ IF Recursive THEN owned[k].depth <= holds[t] ELSE owned[k].depth = 1

\* What a thread is about to do leaves holds in its bounds.
AimInv ==
    \A t \in Threads : phase[t] # "out" =>
       /\ aim[t] = "lock" => holds[t] < 2
       /\ aim[t] = "unlock" => holds[t] > 0

\* The first n odd numbers.
Odd(n) == {2 * i - 1 : i \in 1 .. n}

\* Before place "at" every other handler is gone, from there on all are there.
\* Those gone were deleted, and the one at "at" is about to be.
HandlersInv ==
    /\ unload = "no" => /\ Len(SQLHandle) = opened
                        /\ \A i \in DOMAIN SQLHandle : SQLHandle[i] = i
                        /\ deleted = {}
    /\ unload \in {"loop", "closing", "erase"} =>
          /\ at > 0
          /\ Len(SQLHandle) + at = opened + 1
          /\ \A i \in DOMAIN SQLHandle :
                SQLHandle[i] = IF i < at THEN 2 * i ELSE i + at - 1
    /\ unload \in {"loop", "closing"} => deleted = Odd(at - 1)
    /\ unload = "erase" => deleted = Odd(at)
    /\ unload \in {"closing", "erase"} => at <= Len(SQLHandle)
    /\ UnloadForgetsHalf

MutexTypeOK ==
    /\ m_pInstance \in Objects \cup {NULL}
    /\ made \in 0 .. MaxMutexes
    /\ freed \in SUBSET Objects
    /\ owned \in [Objects -> OwnedType]
    /\ phase \in [Threads -> Phases]
    /\ aim \in [Threads -> {"lock", "unlock", "delete"}]
    /\ got \in [Threads -> Objects \cup {NULL}]
    /\ holds \in [Threads -> 0 .. 2]
    /\ fault \in Faults

UnloadTypeOK ==
    /\ unload \in {"no", "loop", "closing", "erase", "mutex", "done"}
    /\ SQLHandle \in Seq(Handlers)
    /\ deleted \in SUBSET Handlers
    /\ at \in Nat
    /\ opened \in 0 .. MaxHandlers

\* What the worker walks over, and where it is.
PassTypeOK ==
    /\ connected \in SUBSET Handlers
    /\ waiting \in SUBSET Handlers
    /\ pass \in Passes

ThreadsInv == MutexTypeOK /\ DepthInv /\ AimInv
UnloadInv == UnloadTypeOK /\ HandlersInv

\* Only Unload deletes the mutex, after its loop.
DeleteInv == phase["main"] # "out" /\ aim["main"] = "delete" => unload = "mutex"

TypeInv == ThreadsInv /\ UnloadInv /\ DeleteInv /\ PassTypeOK

\* Going into getInstance.
LEMMA CallTypes ==
  ASSUME ThreadsInv, NEW t \in Threads, NEW purpose \in {"lock", "unlock", "delete"},
         Call(t, purpose),
         purpose = "lock" => holds[t] < 2, purpose = "unlock" => holds[t] > 0,
         UNCHANGED <<instance, owned, got, holds, fault>>
  PROVE  ThreadsInv'
  <1> USE DEF ThreadsInv, Call, instance
  <1>1. MutexTypeOK' BY DEF MutexTypeOK, Phases
  <1>2. DepthInv' BY DEF DepthInv
  <1>3. AimInv' BY DEF AimInv, MutexTypeOK
  <1> QED BY <1>1, <1>2, <1>3

\* Steps of Unload alone, and those that only meet a fault.
LEMMA RestTypes ==
  ASSUME ThreadsInv, UNCHANGED <<instance, owned, threads>>,
         fault' \in Faults
  PROVE  ThreadsInv'
  <1> USE DEF ThreadsInv, instance, threads
  <1>1. MutexTypeOK' BY DEF MutexTypeOK
  <1>2. DepthInv' BY DEF DepthInv
  <1>3. AimInv' BY DEF AimInv
  <1> QED BY <1>1, <1>2, <1>3

LEMMA LookupTypes ==
  ASSUME ThreadsInv, NEW t \in Threads,
         TestInstance(t) \/ MakeInstance(t) \/ ReadInstance(t)
  PROVE  ThreadsInv'
  <1> USE DEF ThreadsInv, instance
  <1>1. CASE TestInstance(t)
    BY <1>1 DEF TestInstance, MutexTypeOK, DepthInv, AimInv, Phases, Find
  <1>2. CASE MakeInstance(t)
    <2>1. made + 1 \in Objects /\ made + 1 \in 0 .. MaxMutexes
      BY <1>2, LifeAssumption DEF MakeInstance, MutexTypeOK, Objects
    <2>2. MutexTypeOK' BY <1>2, <2>1 DEF MakeInstance, MutexTypeOK, Phases
    <2> QED BY <1>2, <2>2 DEF MakeInstance, MutexTypeOK, DepthInv, AimInv
  <1>3. CASE ReadInstance(t)
    <2>1. MutexTypeOK' BY <1>3 DEF ReadInstance, MutexTypeOK, Phases
    <2> QED BY <1>3, <2>1 DEF ReadInstance, MutexTypeOK, DepthInv, AimInv
  <1> QED BY <1>1, <1>2, <1>3

\* A thread out of the instance again, holding n of it.
LEMMA CallsTypes ==
  ASSUME ThreadsInv, NEW t \in Threads, NEW purpose, Calls(t, purpose),
         NEW n \in 0 .. 2, holds' = [holds EXCEPT ![t] = n],
         owned' \in [Objects -> OwnedType], DepthInv',
         UNCHANGED <<instance, aim, got, fault>>
  PROVE  ThreadsInv'
  <1> USE DEF ThreadsInv, Calls, instance
  <1>1. MutexTypeOK' BY DEF MutexTypeOK, Phases
  <1>2. AimInv' BY DEF AimInv, MutexTypeOK
  <1> QED BY <1>1, <1>2

LEMMA CalledKernel ==
  ASSUME ThreadsInv, NEW t \in Threads, got[t] \notin freed \cup {NULL}
  PROVE  Kernel(got[t]) \in Objects
  <1>1. got[t] \in Objects BY DEF ThreadsInv, MutexTypeOK
  <1> QED BY <1>1, KernelType

LEMMA LockTypes ==
  ASSUME ThreadsInv, NEW t \in Threads, LockMutex(t)
  PROVE  ThreadsInv'
  <1> DEFINE k == Kernel(got[t])
  <1> USE DEF LockMutex
  <1>1. k \in Objects BY CalledKernel DEF Calls
  <1>2. holds[t] \in 0 .. 1
    BY DEF ThreadsInv, AimInv, MutexTypeOK, Calls
  <1>3. owned[k] \in OwnedType BY <1>1 DEF ThreadsInv, MutexTypeOK
  <1>4. /\ owned[k].depth <= holds[t]
        /\ ~Recursive => owned[k].depth = 0
    BY <1>1, <1>2 DEF ThreadsInv, DepthInv
  <1>5. owned[k].depth \in 0 .. 1
    BY <1>2, <1>3, <1>4 DEF OwnedType
  <1> DEFINE new == [owner |-> t, depth |-> owned[k].depth + 1]
  <1>6. owned' = [owned EXCEPT ![k] = new]
    OBVIOUS
  <1>7. /\ new \in OwnedType /\ new.owner = t /\ new.depth = owned[k].depth + 1
        /\ new.depth \in 1 .. 2
    BY <1>5 DEF OwnedType
  <1> HIDE DEF new, k
  <1>8. owned' \in [Objects -> OwnedType]
    BY <1>1, <1>6, <1>7 DEF ThreadsInv, MutexTypeOK
  <1>9. holds' = [holds EXCEPT ![t] = holds[t] + 1] /\ holds \in [Threads -> 0 .. 2]
    BY DEF ThreadsInv, MutexTypeOK
  <1>10. DepthInv'
    <2> SUFFICES ASSUME NEW j \in Objects
                 PROVE  /\ j # Kernel(j) => owned'[j].owner = "none"
                        /\ owned'[j].owner = "none" => owned'[j].depth = 0
                        /\ \A u \in Threads : owned'[j].owner = u =>
                              /\ owned'[j].depth > 0
                              /\ IF Recursive THEN owned'[j].depth <= holds'[u]
                                 ELSE owned'[j].depth = 1
      BY DEF DepthInv, Kernel
    <2>0. k = Kernel(k) BY DEF k, Kernel
    <2>1. CASE j = k
      <3>1. owned'[j] = new BY <1>1, <1>6, <2>1 DEF ThreadsInv, MutexTypeOK
      <3> QED BY <1>2, <1>4, <1>5, <1>7, <1>9, <2>0, <2>1, <3>1 DEF Threads
    <2>2. CASE j # k
      <3>1. owned'[j] = owned[j] /\ owned[j] \in OwnedType
        BY <1>6, <2>2 DEF ThreadsInv, MutexTypeOK
      <3>2. \A u \in Threads : holds[u] <= holds'[u] /\ holds[u] \in 0 .. 2
                               /\ holds'[u] \in 0 .. 2
        BY <1>2, <1>9
      <3> QED BY <3>1, <3>2 DEF ThreadsInv, DepthInv, OwnedType
    <2> QED BY <2>1, <2>2
  <1>11. holds[t] + 1 \in 0 .. 2 BY <1>2
  <1> QED BY <1>8, <1>9, <1>10, <1>11, CallsTypes

LEMMA UnlockTypes ==
  ASSUME ThreadsInv, NEW t \in Threads, UnlockMutex(t)
  PROVE  ThreadsInv'
  <1> DEFINE k == Kernel(got[t])
  <1> USE DEF UnlockMutex
  <1>1. k \in Objects BY CalledKernel DEF Calls
  <1>2. holds[t] \in 1 .. 2
    BY DEF ThreadsInv, AimInv, MutexTypeOK, Calls
  <1>3. owned[k] \in OwnedType BY <1>1 DEF ThreadsInv, MutexTypeOK
  <1>4. PICK new \in OwnedType :
           /\ owned' = [owned EXCEPT ![k] = new]
           /\ \/ owned[k].owner = t /\ new = GivenBack(owned[k])
              \/ owned[k].owner # t /\ new = owned[k]
              \/ ~Recursive /\ new = Free
    <2>1. Free \in OwnedType BY DEF OwnedType, Free
    <2>2. CASE owned[k].owner = t
      <3>1. owned[k].depth > 0 BY <1>1, <2>2 DEF ThreadsInv, DepthInv
      <3>2. GivenBack(owned[k]) \in OwnedType
        BY <1>3, <2>1, <3>1 DEF OwnedType, GivenBack
      <3> QED BY <2>2, <3>2
    <2>3. CASE owned[k].owner # t
      <3>1. owned = [owned EXCEPT ![k] = owned[k]]
        BY DEF ThreadsInv, MutexTypeOK
      <3> QED BY <1>3, <2>1, <2>3, <3>1
    <2> QED BY <2>2, <2>3
  <1>5. holds' = [holds EXCEPT ![t] = holds[t] - 1] /\ holds \in [Threads -> 0 .. 2]
    BY DEF ThreadsInv, MutexTypeOK
  <1> HIDE DEF k
  <1>6. owned' \in [Objects -> OwnedType]
    BY <1>1, <1>4 DEF ThreadsInv, MutexTypeOK
  <1>7. ASSUME NEW j \in Objects, NEW u \in Threads, owned'[j].owner = u
        PROVE  /\ owned'[j].depth > 0
               /\ IF Recursive THEN owned'[j].depth <= holds'[u]
                  ELSE owned'[j].depth = 1
    \* Another thread's hold does not change, and on Windows nobody has two.
    <2>1. CASE j = k /\ owned[k].owner = t /\ new = GivenBack(owned[k])
      <3>1. owned'[j] = GivenBack(owned[k])
        BY <1>1, <1>4, <2>1 DEF ThreadsInv, MutexTypeOK
      <3>2. /\ owned[k].depth > 0
            /\ IF Recursive THEN owned[k].depth <= holds[t] ELSE owned[k].depth = 1
        BY <1>1, <2>1 DEF ThreadsInv, DepthInv
      <3>3. owned[k].depth # 1
        BY <1>7, <3>1 DEF GivenBack, Free, Threads
      <3>4. owned'[j].owner = t /\ owned'[j].depth = owned[k].depth - 1
        BY <1>3, <2>1, <3>1, <3>3 DEF GivenBack, OwnedType
      <3> QED BY <1>2, <1>3, <1>5, <1>7, <3>2, <3>3, <3>4 DEF OwnedType
    <2>2. CASE j = k /\ ~Recursive /\ new = Free
      <3>1. owned'[j] = Free
        BY <1>1, <1>4, <2>2 DEF ThreadsInv, MutexTypeOK
      <3> QED BY <1>7, <3>1 DEF Free, Threads
    <2>3. CASE owned'[j] = owned[j] /\ ~(Recursive /\ u = t)
      <3>1. /\ owned[j].depth > 0
            /\ IF Recursive THEN owned[j].depth <= holds[u] ELSE owned[j].depth = 1
        BY <1>7, <2>3 DEF ThreadsInv, DepthInv
      <3>2. Recursive => holds'[u] = holds[u]
        BY <1>5, <2>3
      <3> QED BY <2>3, <3>1, <3>2
    <2>4. j # k => owned'[j] = owned[j]
      BY <1>4 DEF ThreadsInv, MutexTypeOK
    <2>5. j = k /\ owned[k].owner # t /\ new = owned[k] => owned'[j] = owned[j] /\ u # t
      BY <1>1, <1>4, <1>7 DEF ThreadsInv, MutexTypeOK
    <2>6. Recursive /\ j # k => owned[j].owner # u
      <3>1. k = Kernel(k) /\ (Recursive => Kernel(j) = Kernel(k)) BY DEF k, Kernel
      <3> QED BY <1>7, <3>1 DEF ThreadsInv, DepthInv, Threads
    <2> QED BY <1>4, <1>7, <2>1, <2>2, <2>3, <2>4, <2>5, <2>6

  <1>8. ASSUME NEW j \in Objects
        PROVE  /\ j # Kernel(j) => owned'[j].owner = "none"
               /\ owned'[j].owner = "none" => owned'[j].depth = 0
    <2>1. k = Kernel(k) BY DEF k, Kernel
    <2>2. CASE j # k
      <3>1. owned'[j] = owned[j] BY <1>4, <2>2 DEF ThreadsInv, MutexTypeOK
      <3> QED BY <3>1 DEF ThreadsInv, DepthInv
    <2>3. CASE j = k
      <3>1. owned'[k] = new BY <1>1, <1>4 DEF ThreadsInv, MutexTypeOK
      <3>2. new.owner = "none" => new.depth = 0
        BY <1>1, <1>3, <1>4 DEF GivenBack, Free, OwnedType, ThreadsInv, DepthInv, Threads
      <3> QED BY <2>1, <2>3, <3>1, <3>2
    <2> QED BY <2>2, <2>3
  <1>9. DepthInv' BY <1>7, <1>8 DEF DepthInv, Kernel
  <1>10. holds[t] - 1 \in 0 .. 2 BY <1>2
  <1> QED BY <1>5, <1>6, <1>9, <1>10, CallsTypes

LEMMA DeleteTypes ==
  ASSUME ThreadsInv, DeleteMutex
  PROVE  ThreadsInv'
  <1> DEFINE o == got["main"]
  <1> USE DEF DeleteMutex, Calls
  <1>1. o \in Objects /\ Kernel(o) \in Objects
    BY CalledKernel DEF ThreadsInv, MutexTypeOK, Threads
  <1>2. owned' = owned \/ owned' = [owned EXCEPT ![Kernel(o)] = Free]
    OBVIOUS
  <1>3. Free \in OwnedType /\ Free.owner = "none" /\ Free.depth = 0
    BY DEF Free, OwnedType
  <1> HIDE DEF o
  <1>4. MutexTypeOK'
    <2>1. owned' \in [Objects -> OwnedType]
      BY <1>1, <1>2, <1>3 DEF ThreadsInv, MutexTypeOK
    <2>2. freed' \in SUBSET Objects BY <1>1 DEF o, ThreadsInv, MutexTypeOK
    <2> QED BY <2>1, <2>2 DEF ThreadsInv, MutexTypeOK, Phases
  <1>5. \A k \in Objects : owned'[k] = owned[k] \/ owned'[k] = Free
    BY <1>1, <1>2 DEF ThreadsInv, MutexTypeOK
  <1>6. DepthInv'
    <2>1. ASSUME NEW k \in Objects
          PROVE  /\ k # Kernel(k) => owned'[k].owner = "none"
                 /\ owned'[k].owner = "none" => owned'[k].depth = 0
                 /\ \A t \in Threads : owned'[k].owner = t =>
                       /\ owned'[k].depth > 0
                       /\ IF Recursive THEN owned'[k].depth <= holds[t]
                          ELSE owned'[k].depth = 1
      BY <1>3, <1>5 DEF ThreadsInv, DepthInv, Threads
    <2> QED BY <2>1 DEF DepthInv, Kernel
  <1>7. AimInv' BY DEF ThreadsInv, AimInv, MutexTypeOK
  <1> QED BY <1>4, <1>6, <1>7 DEF ThreadsInv

LEMMA ThreadsStep == ThreadsInv /\ [LifeNext]_vars => ThreadsInv'
  <1> SUFFICES ASSUME ThreadsInv, [LifeNext]_vars PROVE ThreadsInv'
    OBVIOUS
  <1> USE DEF instance, threads
  <1>0. /\ fault \in Faults
        /\ \A t \in Threads : holds[t] \in 0 .. 2
    BY DEF ThreadsInv, MutexTypeOK
  <1>1. ASSUME NEW t \in Threads, GetInstance(t) PROVE ThreadsInv'
    <2>1. CASE BadCall(t) BY <2>1, RestTypes DEF BadCall, Faults
    <2> QED BY <1>1, <2>1, LookupTypes, LockTypes, UnlockTypes DEF GetInstance
  <1>2. CASE ProcessQueryThread
    <2>1. CASE WorkerLocks
      BY <1>0, <2>1, CallTypes DEF WorkerLocks, Threads
    <2>2. CASE WorkerUnlocks
      BY <1>0, <2>2, CallTypes DEF WorkerUnlocks, Threads
    <2>3. CASE WorkerLook \/ WorkerRead \/ WorkerUsed
      <3>1. fault' \in Faults
        BY <1>0, <2>3 DEF WorkerLook, WorkerRead, WorkerUsed, Met, Faults
      <3> QED BY <2>3, <3>1, RestTypes DEF WorkerLook, WorkerRead, WorkerUsed, Walking
    <2> QED BY <1>2, <2>1, <2>2, <2>3 DEF ProcessQueryThread
  <1>3. CASE NativeCalls
    BY <1>0, <1>3, CallTypes DEF NativeCalls, Threads
  <1>4. CASE Unload
    <2>1. CASE UnloadConnected
      BY <2>1, CallTypes DEF UnloadConnected, Quiet, Threads
    <2>2. CASE UnloadDisconnect
      BY <2>2, CallTypes DEF UnloadDisconnect, UnlockAfter, Threads
    <2>3. CASE UnloadMutex BY <2>3, CallTypes DEF UnloadMutex, Threads
    <2>4. CASE UnloadStart BY <1>0, <2>4, RestTypes DEF UnloadStart
    <2>5. CASE UnloadHandler \/ UnloadDisconnected
      BY <2>5, RestTypes DEF UnloadHandler, UnloadDisconnected, DeleteHandler, Faults
    <2>6. CASE UnloadErase BY <1>0, <2>6, RestTypes DEF UnloadErase
    <2>7. CASE UnloadBeyond BY <2>7, RestTypes DEF UnloadBeyond, Faults
    <2>8. CASE DeleteMutex BY <2>8, DeleteTypes
    <2> QED BY <1>4, <2>1, <2>2, <2>3, <2>4, <2>5, <2>6, <2>7, <2>8 DEF Unload
  <1>5. CASE UNCHANGED vars BY <1>0, <1>5, RestTypes DEF vars
  <1> QED BY <1>1, <1>2, <1>3, <1>4, <1>5
        DEF LifeNext, MainThread, WorkerThread, Threads

-----------------------------------------------------------------------------
LEMMA OddNext ==
  ASSUME NEW n \in Nat PROVE Odd(n + 1) = Odd(n) \cup {2 * (n + 1) - 1}
  <1>1. \A i : i \in 1 .. n + 1 <=> i \in 1 .. n \/ i = n + 1
    OBVIOUS
  <1> QED BY <1>1 DEF Odd

\* Deleting the handler at the iterator.
LEMMA DeletesHandler ==
  ASSUME UnloadInv, unload \in {"loop", "closing"}, at <= Len(SQLHandle),
         deleted' = deleted \cup {Here}, unload' = "erase",
         UNCHANGED <<SQLHandle, at, opened>>
  PROVE  UnloadInv'
  <1>1. /\ at \in 1 .. Len(SQLHandle) /\ Len(SQLHandle) \in Nat /\ opened \in Nat
        /\ Here \in Handlers /\ deleted \in SUBSET Handlers
    BY DEF UnloadInv, UnloadTypeOK, HandlersInv, Here
  <1>2. Here = 2 * at - 1 /\ deleted = Odd(at - 1)
    <2>1. SQLHandle[at] = at + at - 1
      BY <1>1 DEF UnloadInv, HandlersInv
    <2>2. deleted = Odd(at - 1)
      BY DEF UnloadInv, HandlersInv
    <2> QED BY <1>1, <2>1, <2>2 DEF Here
  <1>3. deleted' = Odd(at)
    <2>1. at - 1 \in Nat /\ (at - 1) + 1 = at
      BY <1>1
    <2>2. Odd(at) = Odd(at - 1) \cup {2 * at - 1}
      BY <2>1, OddNext
    <2> QED BY <1>2, <2>2
  <1>4. UnloadTypeOK'
    BY <1>1 DEF UnloadInv, UnloadTypeOK
  <1>5. HandlersInv'
    BY <1>1, <1>3 DEF UnloadInv, HandlersInv, UnloadForgetsHalf, Odd
  <1> QED BY <1>4, <1>5 DEF UnloadInv

\* Erasing it, and stepping over the next one.
LEMMA EraseHandler ==
  ASSUME UnloadInv, UnloadErase
  PROVE  UnloadInv'
  <1> USE DEF UnloadInv, UnloadTypeOK, UnloadErase
  <1>1. at \in 1 .. Len(SQLHandle) /\ Len(SQLHandle) \in Nat /\ opened \in Nat
    BY DEF HandlersInv
  <1>2. /\ SQLHandle' \in Seq(Handlers)
        /\ Len(SQLHandle') = Len(SQLHandle) - 1
        /\ \A j \in 1 .. Len(SQLHandle) - 1 :
              SQLHandle'[j] = IF j < at THEN SQLHandle[j] ELSE SQLHandle[j + 1]
    BY <1>1, Removed DEF EraseAndStep
  <1>3. at' = at + 1 BY DEF EraseAndStep
  <1>4. UnloadTypeOK' BY <1>1, <1>2, <1>3
  <1>5. /\ Len(SQLHandle) + at = opened + 1
        /\ \A i \in 1 .. Len(SQLHandle) :
              SQLHandle[i] = IF i < at THEN 2 * i ELSE i + at - 1
    BY DEF HandlersInv
  <1>6. ASSUME NEW j \in 1 .. Len(SQLHandle) - 1
        PROVE  SQLHandle'[j] = IF j < at + 1 THEN 2 * j ELSE j + (at + 1) - 1
    <2> HIDE DEF UnloadInv, UnloadTypeOK, UnloadErase
    <2>1. j \in 1 .. Len(SQLHandle) /\ j + 1 \in 1 .. Len(SQLHandle) BY <1>1
    <2>2. CASE j < at
      <3>1. SQLHandle'[j] = SQLHandle[j] /\ SQLHandle[j] = 2 * j
        BY <1>2, <1>5, <2>1, <2>2
      <3> QED BY <1>1, <2>1, <2>2, <3>1
    <2>3. CASE j = at
      <3>1. SQLHandle'[j] = SQLHandle[j + 1] /\ SQLHandle[j + 1] = (j + 1) + at - 1
        BY <1>1, <1>2, <1>5, <2>1, <2>3
      <3> QED BY <1>1, <2>1, <2>3, <3>1
    <2>4. CASE j > at
      <3>1. SQLHandle'[j] = SQLHandle[j + 1] /\ SQLHandle[j + 1] = (j + 1) + at - 1
        BY <1>1, <1>2, <1>5, <2>1, <2>4
      <3> QED BY <1>1, <2>1, <2>4, <3>1
    <2> QED BY <1>1, <2>1, <2>2, <2>3, <2>4
  <1>7. Len(SQLHandle') + at' = opened' + 1 /\ at' > 0
    <2> DEFINE n == Len(SQLHandle)
    <2>1. n \in Nat /\ at \in Nat /\ n + at = opened + 1 BY <1>1, <1>5
    <2>2. Len(SQLHandle') = n - 1 /\ at' = at + 1 /\ opened' = opened BY <1>2, <1>3
    <2> HIDE DEF n, UnloadInv, UnloadTypeOK, UnloadErase
    <2> QED BY <2>1, <2>2, <1>1
  <1>8. \A j \in DOMAIN SQLHandle' :
           SQLHandle'[j] = IF j < at' THEN 2 * j ELSE j + at' - 1
    BY <1>1, <1>2, <1>3, <1>6
  <1>9. deleted' = Odd(at' - 1)
    <2>1. at' - 1 = at
      BY <1>1, <1>3
    <2>2. deleted = Odd(at) /\ deleted' = deleted
      BY DEF HandlersInv
    <2> QED BY <2>1, <2>2
  <1>10. HandlersInv'
    BY <1>7, <1>8, <1>9 DEF HandlersInv, UnloadForgetsHalf
  <1> QED BY <1>4, <1>10

LEMMA UnloadStep == UnloadInv /\ DeleteInv /\ [LifeNext]_vars => UnloadInv'
  <1> SUFFICES ASSUME UnloadInv, DeleteInv, [LifeNext]_vars PROVE UnloadInv'
    OBVIOUS
  <1>1. CASE UNCHANGED <<unload, SQLHandle, deleted, at, opened>>
    BY <1>1 DEF UnloadInv, UnloadTypeOK, HandlersInv, UnloadForgetsHalf, Odd
  <1>2. CASE UnloadStart
    <2>1. Odd(at' - 1) = {} /\ at' = 1
      BY <1>2 DEF UnloadStart, Odd
    <2>2. Len(SQLHandle) = opened /\ deleted' = {} /\ SQLHandle' = SQLHandle
          /\ opened' = opened /\ unload' = "loop" /\ opened \in Nat
      BY <1>2 DEF UnloadStart, UnloadInv, UnloadTypeOK, HandlersInv
    <2>3. \A i \in DOMAIN SQLHandle : i >= 1 /\ SQLHandle[i] = i
      BY <1>2 DEF UnloadStart, UnloadInv, UnloadTypeOK, HandlersInv
    <2>4. \A i \in DOMAIN SQLHandle' :
             SQLHandle'[i] = IF i < at' THEN 2 * i ELSE i + at' - 1
      BY <2>1, <2>2, <2>3
    <2>5. HandlersInv'
      BY <2>1, <2>2, <2>4 DEF HandlersInv, UnloadForgetsHalf
    <2>6. UnloadTypeOK'
      BY <1>2 DEF UnloadStart, UnloadInv, UnloadTypeOK
    <2> QED BY <2>5, <2>6 DEF UnloadInv
  <1>3. CASE UnloadHandler \/ UnloadDisconnected
    <2>1. unload \in {"loop", "closing"} /\ at <= Len(SQLHandle)
      BY <1>3 DEF UnloadHandler, UnloadDisconnected, UnloadInv, HandlersInv
    <2> QED BY <1>3, <2>1, DeletesHandler
        DEF UnloadHandler, UnloadDisconnected, DeleteHandler
  <1>4. CASE UnloadConnected
    BY <1>4 DEF UnloadConnected, handles, UnloadInv, UnloadTypeOK, HandlersInv,
                UnloadForgetsHalf, Odd
  <1>5. CASE UnloadErase
    BY <1>5, EraseHandler
  <1>6. CASE UnloadMutex
    <2>1. at = Len(SQLHandle) + 1 /\ Len(SQLHandle) \in Nat /\ opened \in Nat
      BY <1>6 DEF UnloadMutex, UnloadInv, UnloadTypeOK
    <2>2. opened = 2 * (at - 1) /\ deleted = Odd(at - 1) /\ at - 1 \in 0 .. opened
      BY <1>6, <2>1 DEF UnloadMutex, UnloadInv, HandlersInv
    <2>3. UnloadForgetsHalf'
      BY <1>6, <2>2 DEF UnloadMutex, UnloadForgetsHalf, Odd
    <2>4. UnloadTypeOK'
      BY <1>6 DEF UnloadMutex, UnloadInv, UnloadTypeOK
    <2> QED BY <1>6, <2>3, <2>4 DEF UnloadMutex, UnloadInv, HandlersInv
  <1>7. CASE DeleteMutex
    <2>1. unload = "mutex" BY <1>7 DEF DeleteMutex, Calls, DeleteInv
    <2> QED BY <1>7, <2>1 DEF DeleteMutex, handles, UnloadInv, UnloadTypeOK,
                              HandlersInv, UnloadForgetsHalf
  <1> QED BY <1>1, <1>2, <1>3, <1>4, <1>5, <1>6, <1>7
        DEF LifeNext, MainThread, WorkerThread, ProcessQueryThread, WorkerLocks,
            WorkerUnlocks, WorkerLook, WorkerRead, WorkerUsed, Walking, NativeCalls,
            Unload, UnloadDisconnect, UnloadBeyond, GetInstance, TestInstance,
            MakeInstance, ReadInstance, BadCall, LockMutex, UnlockMutex, vars, handles

LEMMA DeleteStep == ThreadsInv /\ DeleteInv /\ [LifeNext]_vars => DeleteInv'
  <1> SUFFICES ASSUME ThreadsInv, DeleteInv, [LifeNext]_vars PROVE DeleteInv'
    OBVIOUS
  <1>1. phase \in [Threads -> Phases] /\ aim \in [Threads -> {"lock", "unlock", "delete"}]
    BY DEF ThreadsInv, MutexTypeOK
  <1> HIDE DEF ThreadsInv
  <1> USE <1>1 DEF DeleteInv, Threads, threads
  <1>2. ASSUME NEW t \in Threads, GetInstance(t) PROVE DeleteInv'
    BY <1>2 DEF GetInstance, TestInstance, MakeInstance, ReadInstance, BadCall,
          LockMutex, UnlockMutex, Calls
  <1>3. CASE ProcessQueryThread
    BY <1>3 DEF ProcessQueryThread, WorkerLocks, WorkerUnlocks, WorkerLook,
          WorkerRead, WorkerUsed, Walking, Call
  <1>4. CASE NativeCalls BY <1>4 DEF NativeCalls, Call
  <1>5. CASE Unload
    BY <1>5 DEF Unload, UnloadStart, UnloadHandler, DeleteHandler, UnloadConnected,
          UnloadDisconnect, UnloadDisconnected, UnloadErase, UnloadBeyond, UnloadMutex,
          DeleteMutex, Call, Calls, UnlockAfter, Quiet
  <1>6. CASE UNCHANGED vars BY <1>6 DEF vars
  <1> QED BY <1>2, <1>3, <1>4, <1>5, <1>6 DEF LifeNext, MainThread, WorkerThread

LEMMA PassStep == PassTypeOK /\ UnloadTypeOK /\ [LifeNext]_vars => PassTypeOK'
  <1> SUFFICES ASSUME PassTypeOK, UnloadTypeOK, [LifeNext]_vars PROVE PassTypeOK'
    OBVIOUS
  <1>1. /\ pass \in Passes /\ pass.at \in Nat \ {0} /\ pass.handler \in Handlers \cup {0}
        /\ PassStart \in Passes /\ PassNext \in Passes
    BY DEF PassTypeOK, Passes, PassStart, PassNext, PassPhases
  <1>2. CASE UNCHANGED <<connected, waiting, pass>>
    BY <1>2 DEF PassTypeOK
  <1>3. CASE WorkerUnlocks
    BY <1>1, <1>3 DEF WorkerUnlocks, PassTypeOK
  <1>4. CASE WorkerLook
    <2>1. [pass EXCEPT !.phase = "read"] \in Passes /\ [pass EXCEPT !.phase = "over"] \in Passes
      BY <1>1 DEF Passes, PassPhases
    <2> QED BY <1>4, <2>1 DEF WorkerLook, PassTypeOK
  <1>5. CASE WorkerRead
    <2>1. ASSUME Met = "none", There \in waiting \cap connected,
                 pass' = [pass EXCEPT !.phase = "use", !.handler = There],
                 connected' \in {connected, connected \ {There}}
          PROVE  PassTypeOK'
      <3>1. There \in Handlers
        BY <2>1 DEF PassTypeOK
      <3>2. [pass EXCEPT !.phase = "use", !.handler = There] \in Passes
        BY <1>1, <3>1 DEF Passes, PassPhases
      <3> QED BY <1>5, <2>1, <3>2 DEF WorkerRead, PassTypeOK
    <2> QED BY <1>1, <1>5, <2>1 DEF WorkerRead, PassTypeOK
  <1>6. CASE WorkerUsed
    <2>1. Met = "none" => There \in Handlers
      BY <1>1 DEF Met, There, UnloadTypeOK
    <2> QED BY <1>1, <1>6, <2>1 DEF WorkerUsed, PassTypeOK
  <1>7. CASE Unload
    <2>1. pass' = pass /\ connected' \subseteq connected /\ waiting' \subseteq waiting
      BY <1>7 DEF Unload, UnloadStart, UnloadHandler, DeleteHandler, UnloadConnected,
            UnloadDisconnect, QueueEmptied, UnloadDisconnected, UnloadErase,
            UnloadBeyond, UnloadMutex, DeleteMutex, handles
    <2> QED BY <2>1 DEF PassTypeOK
  <1> QED BY <1>2, <1>3, <1>4, <1>5, <1>6, <1>7
        DEF LifeNext, MainThread, WorkerThread, ProcessQueryThread, WorkerLocks,
            NativeCalls, GetInstance, TestInstance, MakeInstance, ReadInstance,
            BadCall, LockMutex, UnlockMutex, vars, handles

(***************************************************************************)
(* In every build, with and without the head start, the variables keep     *)
(* their types: no mutex is locked more than twice over, none is given     *)
(* back more often than it was taken, and the vector of handlers is in     *)
(* each step what erasing every second one has left of it.                 *)
(***************************************************************************)
THEOREM TypesInductive == LifeSpec => []TypeInv
  <1>1. LifeInit => ThreadsInv
    BY LifeAssumption DEF LifeInit, ThreadsInv, MutexTypeOK, DepthInv, AimInv,
          OwnedType, Free, Phases, Threads, Kernel, Faults
  <1>2. LifeInit => UnloadInv
    <2> SUFFICES ASSUME LifeInit PROVE UnloadInv
      OBVIOUS
    <2>1. opened \in 0 .. MaxHandlers /\ opened \in Nat
      BY LifeAssumption DEF LifeInit
    <2>2. /\ SQLHandle \in Seq(Handlers) /\ Len(SQLHandle) = opened
          /\ \A i \in 1 .. opened : SQLHandle[i] = i
      <3>1. SQLHandle = [i \in 1 .. opened |-> i] BY DEF LifeInit
      <3>2. SQLHandle \in [1 .. opened -> Handlers]
        BY <2>1, <3>1, LifeAssumption DEF Handlers
      <3> QED BY <2>1, <3>1, <3>2
    <2> QED BY <2>1, <2>2
          DEF LifeInit, UnloadInv, UnloadTypeOK, HandlersInv, UnloadForgetsHalf
  <1>3. LifeInit => DeleteInv BY DEF LifeInit, DeleteInv, Threads
  <1>4. LifeInit => PassTypeOK
    <2> SUFFICES ASSUME LifeInit PROVE PassTypeOK
      OBVIOUS
    <2>1. 1 .. opened \subseteq Handlers
      BY LifeAssumption DEF LifeInit, Handlers
    <2> QED BY <2>1 DEF LifeInit, PassTypeOK, PassStart, Passes, PassPhases
  <1>5. TypeInv /\ [LifeNext]_vars => TypeInv'
    BY ThreadsStep, UnloadStep, DeleteStep, PassStep DEF TypeInv, UnloadInv
  <1> QED BY <1>1, <1>2, <1>3, <1>4, <1>5, PTL DEF LifeSpec, TypeInv

(***************************************************************************)
(* The type invariant of PluginLife, where the mutex can be locked twice   *)
(* over at most and the worker's walk stays within its phases.             *)
(***************************************************************************)
THEOREM LifeTypes == LifeSpec => []LifeTypeOK
  <1>1. TypeInv => LifeTypeOK
    BY DEF TypeInv, ThreadsInv, UnloadInv, MutexTypeOK, UnloadTypeOK, PassTypeOK,
           OwnedType, LifeTypeOK
  <1> QED BY <1>1, TypesInductive, PTL

(***************************************************************************)
(* However many handlers there were, connected or not: the loop of Unload  *)
(* that comes to its end leaves every second one undeleted, and it comes   *)
(* there only if their number was even.                                    *)
(***************************************************************************)
THEOREM HalfForgotten == LifeSpec => []UnloadForgetsHalf
  <1>1. TypeInv => UnloadForgetsHalf
    BY DEF TypeInv, UnloadInv, HandlersInv
  <1> QED BY <1>1, TypesInductive, PTL

-----------------------------------------------------------------------------
(* The worker's walk and Disconnect, as far as the mutex keeps them apart. *)

\* A pass is under way only with the mutex; it uses only what has a query.
WalkInv ==
    /\ pass # PassStart => phase["worker"] = "out" /\ holds["worker"] > 0
    /\ pass.phase = "use" => pass.handler \in waiting

\* Disconnect: before the lock, with it, and after the queue was emptied.
ClosingInv ==
    unload = "closing" =>
       \/ phase["main"] # "out" /\ aim["main"] = "lock"
       \/ phase["main"] = "out" /\ holds["main"] > 0
       \/ phase["main"] # "out" /\ aim["main"] = "unlock" /\ Here \notin waiting
       \/ phase["main"] = "out" /\ Here \notin waiting

ApartInv == WalkInv /\ (Loaded => ClosingInv)

LEMMA WalkStep ==
  ASSUME LifeInv, Loaded, Recursive \/ HeadStart, TypeInv, ApartInv, [LifeNext]_vars
  PROVE  WalkInv'
  <1>0. /\ WalkInv /\ ClosingInv /\ PassTypeOK
        /\ phase \in [Threads -> Phases] /\ holds \in [Threads -> Nat]
    BY DEF ApartInv, TypeInv, LifeInv, ShapeOK
  <1>1. ASSUME UNCHANGED <<pass, waiting>>, phase'["worker"] = phase["worker"],
               holds'["worker"] = holds["worker"]
        PROVE  WalkInv'
    BY <1>0, <1>1 DEF WalkInv
  <1>2. ASSUME pass = PassStart, pass' = pass
        PROVE  WalkInv'
    BY <1>2 DEF WalkInv, PassStart
  <1>3. CASE GetInstance("worker")
    <2>1. pass' = pass /\ waiting' = waiting
      BY <1>3 DEF GetInstance, TestInstance, MakeInstance, ReadInstance, BadCall,
            LockMutex, UnlockMutex, handles
    <2>2. phase["worker"] # "out"
      BY <1>3 DEF GetInstance, TestInstance, MakeInstance, ReadInstance, BadCall,
            LockMutex, UnlockMutex, Calls
    <2> QED BY <1>0, <1>2, <2>1, <2>2 DEF WalkInv
  <1>4. CASE GetInstance("main")
    <2>1. UNCHANGED <<pass, waiting>>
      BY <1>4 DEF GetInstance, TestInstance, MakeInstance, ReadInstance, BadCall,
            LockMutex, UnlockMutex, handles
    <2>2. phase'["worker"] = phase["worker"] /\ holds'["worker"] = holds["worker"]
      BY <1>0, <1>4 DEF GetInstance, TestInstance, MakeInstance, ReadInstance, BadCall,
            LockMutex, UnlockMutex, Calls, threads, Threads
    <2> QED BY <1>1, <2>1, <2>2
  <1>5. CASE NativeCalls
    <2>1. UNCHANGED <<pass, waiting, holds>> /\ phase'["worker"] = phase["worker"]
      BY <1>0, <1>5 DEF NativeCalls, Call, handles, Threads
    <2> QED BY <1>1, <2>1
  <1>6. CASE Unload
    <2>1. CASE UnloadDisconnect
      <3>1. holds["worker"] = 0
        BY <2>1 DEF UnloadDisconnect, UnlockAfter, LifeInv, InsideInv, ShapeOK, Threads
      <3>2. pass = PassStart /\ pass' = pass
        BY <1>0, <2>1, <3>1 DEF UnloadDisconnect, WalkInv
      <3> QED BY <1>2, <3>2
    <2>2. CASE ~UnloadDisconnect
      <3>1. UNCHANGED <<pass, waiting>>
        BY <1>6, <2>2 DEF Unload, UnloadStart, UnloadHandler, DeleteHandler,
              UnloadConnected, UnloadDisconnected, UnloadErase, UnloadBeyond,
              UnloadMutex, DeleteMutex, handles
      <3>2. phase'["worker"] = phase["worker"] /\ holds'["worker"] = holds["worker"]
        BY <1>0, <1>6, <2>2 DEF Unload, UnloadStart, UnloadHandler, DeleteHandler,
              UnloadConnected, UnloadDisconnected, UnloadErase, UnloadBeyond,
              UnloadMutex, DeleteMutex, Call, Calls, threads, Threads
      <3> QED BY <1>1, <3>1, <3>2
    <2> QED BY <2>1, <2>2
  <1>7. CASE ProcessQueryThread
    <2>1. CASE WorkerLocks
      <3>1. pass = PassStart /\ pass' = pass
        BY <1>0, <2>1 DEF WorkerLocks, WalkInv, handles
      <3> QED BY <1>2, <3>1
    <2>2. CASE WorkerUnlocks
      BY <2>2 DEF WorkerUnlocks, WalkInv, PassStart
    <2>3. CASE WorkerLook \/ WorkerRead \/ WorkerUsed
      <3>1. /\ phase'["worker"] = "out" /\ holds'["worker"] > 0
        BY <2>3 DEF WorkerLook, WorkerRead, WorkerUsed, Walking, threads
      <3>2. pass'.phase = "use" => pass'.handler \in waiting'
        <4>1. pass \in Passes
          BY <1>0 DEF PassTypeOK
        <4>2. CASE WorkerLook
          <5>1. pass'.phase # "use"
            BY <4>1, <4>2 DEF WorkerLook, Passes
          <5> QED BY <5>1
        <4>3. CASE WorkerRead
          <5>1. pass'.phase = "use" => pass'.handler = There /\ There \in waiting
            BY <4>1, <4>3 DEF WorkerRead, Walking, Passes, PassNext, PassStart
          <5> QED BY <4>3, <5>1 DEF WorkerRead
        <4>4. CASE WorkerUsed
          <5>1. pass'.phase = "use" => pass' = pass /\ waiting' = waiting
            BY <4>4 DEF WorkerUsed, PassNext, PassStart
          <5> QED BY <1>0, <5>1 DEF WalkInv
        <4> QED BY <2>3, <4>2, <4>3, <4>4
      <3> QED BY <3>1, <3>2 DEF WalkInv
    <2> QED BY <1>7, <2>1, <2>2, <2>3 DEF ProcessQueryThread
  <1>8. CASE UNCHANGED vars
    BY <1>1, <1>8 DEF vars, handles, threads
  <1> QED BY <1>3, <1>4, <1>5, <1>6, <1>7, <1>8
        DEF LifeNext, MainThread, WorkerThread

LEMMA ClosingStep ==
  ASSUME LifeInv, Loaded, TypeInv, ClosingInv, [LifeNext]_vars
  PROVE  ClosingInv'
  <1>0. /\ phase \in [Threads -> Phases] /\ holds \in [Threads -> Nat]
        /\ aim \in [Threads -> {"lock", "unlock", "delete"}]
    BY DEF LifeInv, ShapeOK
  <1>1. ASSUME UNCHANGED <<unload, SQLHandle, at>>, waiting' \subseteq waiting,
               phase'["main"] = phase["main"], aim'["main"] = aim["main"],
               holds'["main"] = holds["main"]
        PROVE  ClosingInv'
    BY <1>1 DEF ClosingInv, Here
  <1>2. ASSUME unload' # "closing" PROVE ClosingInv'
    BY <1>2 DEF ClosingInv
  <1>3. CASE GetInstance("worker")
    <2>1. UNCHANGED <<unload, SQLHandle, at, waiting, aim>>
      BY <1>3 DEF GetInstance, TestInstance, MakeInstance, ReadInstance, BadCall,
            LockMutex, UnlockMutex, handles, threads
    <2>2. phase'["main"] = phase["main"] /\ holds'["main"] = holds["main"]
      BY <1>0, <1>3 DEF GetInstance, TestInstance, MakeInstance, ReadInstance, BadCall,
            LockMutex, UnlockMutex, Calls, threads, Threads
    <2> QED BY <1>1, <2>1, <2>2
  <1>4. CASE GetInstance("main")
    <2>1. UNCHANGED <<unload, SQLHandle, at, waiting, aim>>
      BY <1>4 DEF GetInstance, TestInstance, MakeInstance, ReadInstance, BadCall,
            LockMutex, UnlockMutex, handles, threads
    <2>2. phase["main"] # "out"
      BY <1>4 DEF GetInstance, TestInstance, MakeInstance, ReadInstance, BadCall,
            LockMutex, UnlockMutex, Calls
    <2>3. CASE TestInstance("main") \/ MakeInstance("main") \/ ReadInstance("main")
               \/ BadCall("main")
      <3>1. phase'["main"] # "out"
        BY <1>0, <2>2, <2>3 DEF TestInstance, Find, MakeInstance, ReadInstance, BadCall,
              threads, Threads
      <3> QED BY <2>1, <2>2, <3>1 DEF ClosingInv, Here
    <2>4. CASE LockMutex("main")
      <3>1. phase'["main"] = "out" /\ holds'["main"] > 0
        BY <1>0, <2>4 DEF LockMutex, Calls, Threads
      <3> QED BY <3>1 DEF ClosingInv
    <2>5. CASE UnlockMutex("main")
      <3>1. phase'["main"] = "out" /\ aim["main"] = "unlock"
        BY <1>0, <2>5 DEF UnlockMutex, Calls, Threads
      <3> QED BY <2>1, <2>2, <3>1 DEF ClosingInv, Here
    <2> QED BY <1>4, <2>3, <2>4, <2>5 DEF GetInstance
  <1>5. CASE NativeCalls
    BY <1>2, <1>5 DEF NativeCalls
  <1>6. CASE Unload
    <2>1. CASE UnloadConnected
      <3>1. phase'["main"] # "out" /\ aim'["main"] = "lock"
        BY <1>0, <2>1 DEF UnloadConnected, Call, Threads
      <3> QED BY <3>1 DEF ClosingInv
    <2>2. CASE UnloadDisconnect
      <3>1. phase'["main"] # "out" /\ aim'["main"] = "unlock"
        BY <1>0, <2>2 DEF UnloadDisconnect, UnlockAfter, Call, Threads
      <3>2. Here' \notin waiting'
        BY <2>2 DEF UnloadDisconnect, QueueEmptied, Here
      <3> QED BY <3>1, <3>2 DEF ClosingInv
    <2>3. CASE UnloadBeyond
      BY <1>1, <2>3 DEF UnloadBeyond, threads, handles
    <2>4. CASE UnloadStart \/ UnloadHandler \/ UnloadDisconnected \/ UnloadErase
               \/ UnloadMutex \/ DeleteMutex
      BY <1>2, <2>4 DEF UnloadStart, UnloadHandler, UnloadDisconnected, DeleteHandler,
            UnloadErase, UnloadMutex, DeleteMutex
    <2> QED BY <1>6, <2>1, <2>2, <2>3, <2>4 DEF Unload
  <1>7. CASE ProcessQueryThread
    <2>1. UNCHANGED <<unload, SQLHandle, at, holds>> /\ waiting' \subseteq waiting
      BY <1>7 DEF ProcessQueryThread, WorkerLocks, WorkerUnlocks, WorkerLook,
            WorkerRead, WorkerUsed, Walking, handles, threads
    <2>2. phase'["main"] = phase["main"] /\ aim'["main"] = aim["main"]
      BY <1>0, <1>7 DEF ProcessQueryThread, WorkerLocks, WorkerUnlocks, WorkerLook,
            WorkerRead, WorkerUsed, Walking, Call, threads, Threads
    <2> QED BY <1>1, <2>1, <2>2
  <1>8. CASE UNCHANGED vars
    BY <1>1, <1>8 DEF vars, handles, threads
  <1> QED BY <1>3, <1>4, <1>5, <1>6, <1>7, <1>8
        DEF LifeNext, MainThread, WorkerThread

(***************************************************************************)
(* Unload closes the connection of a connected handler only when the       *)
(* worker is not using the handler and will not again, for any number of   *)
(* handlers and wherever the worker was: Disconnect waited for its pass    *)
(* and emptied the queue.                                                  *)
(***************************************************************************)
THEOREM UnloadCloses ==
  ASSUME Recursive \/ HeadStart PROVE LifeSpec => []ClosedUnused
  <1>1. LifeInit => ApartInv
    BY DEF LifeInit, ApartInv, WalkInv, ClosingInv, PassStart
  <1> DEFINE Apart == Loaded => ApartInv
  <1>2. LifeInv /\ TypeInv /\ Apart /\ [LifeNext]_vars => Apart'
    <2> SUFFICES ASSUME LifeInv, TypeInv, Apart, [LifeNext]_vars, Loaded'
                 PROVE  ApartInv'
      OBVIOUS
    <2>1. Loaded /\ ApartInv
      BY LoadedBefore
    <2>2. WalkInv' /\ ClosingInv'
      BY <2>1, WalkStep, ClosingStep DEF ApartInv
    <2> QED BY <2>2 DEF ApartInv
  <1>3. Apart => ClosedUnused
    <2> SUFFICES ASSUME Apart, unload = "closing", Quiet
                 PROVE  ~Using(Here) /\ Here \notin waiting
      BY DEF ClosedUnused
    <2>1. WalkInv /\ ClosingInv
      BY DEF ApartInv, Loaded
    <2>2. Here \notin waiting
      BY <2>1 DEF ClosingInv, Quiet
    <2> QED BY <2>1, <2>2 DEF WalkInv, Using
  <1>4. LifeInit => Apart
    BY <1>1
  <1> HIDE DEF Apart
  <1> QED BY <1>2, <1>3, <1>4, LifeInductive, TypesInductive, PTL DEF LifeSpec
=============================================================================
