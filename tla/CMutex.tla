------------------------------- MODULE CMutex -------------------------------
(***************************************************************************)
(* The one mutex of the plugin (source/CMutex.cpp).  Every thread that     *)
(* calls _lockMutex waits until it can have it; _unlockMutex gives back    *)
(* one level.                                                              *)
(*                                                                         *)
(* On Windows the mutex is a kernel mutex made by CreateMutex, which its   *)
(* owner may take again; elsewhere it is a pthread mutex initialised with  *)
(* default attributes, which its owner waits for like everybody else.      *)
(* Recursive says which of the two the build uses.                         *)
(***************************************************************************)
EXTENDS Naturals

CONSTANT Recursive

ASSUME RecursiveAssumption == Recursive \in BOOLEAN

VARIABLE mutex   \* who owns the mutex, and how many times over

(***************************************************************************)
(* The two threads of the plugin: the server's main thread, on which       *)
(* natives, ProcessTick and callbacks run, and ProcessQueryThread.         *)
(***************************************************************************)
Threads == {"main", "worker"}

MutexFree == [owner |-> "none", depth |-> 0]

MutexTypeOK == mutex \in [owner : Threads \cup {"none"}, depth : 0 .. 2]

MutexInit == mutex = MutexFree

\* Mutant: the owner waits for itself on every platform.
CanLockOnce(t) == mutex.owner = "none"

CanLock(t) == mutex.owner = "none" \/ (Recursive /\ mutex.owner = t)

LockMutex(t) ==
    /\ CanLock(t)
    /\ mutex' = [owner |-> t, depth |-> mutex.depth + 1]

UnlockMutex ==
    mutex' = IF mutex.depth = 1
             THEN MutexFree
             ELSE [mutex EXCEPT !.depth = mutex.depth - 1]

\* What may happen to a mutex: who unlocks it is who has it.
MutexNext ==
    \E t \in Threads : LockMutex(t) \/ (mutex.owner = t /\ UnlockMutex)
=============================================================================
