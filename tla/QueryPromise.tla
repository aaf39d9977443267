---------------------------- MODULE QueryPromise ----------------------------
(***************************************************************************)
(* What the plugin promises a script about the threaded queries of one     *)
(* connection handle, without threads, mutexes or connections.             *)
(*                                                                         *)
(* The accepted queries are numbered in the order of acceptance.  They are *)
(* executed one at a time in that order, none while the callback of an     *)
(* earlier one is still owed.  A statement that succeeds earns exactly one *)
(* callback; one that fails earns one OnQueryError.  Reconnecting or       *)
(* closing the handle drops queries that are waiting.                      *)
(*                                                                         *)
(* The records of failed queries are in a queue that both threads change   *)
(* without a lock.  Once they have done so at the same time (overlapped),  *)
(* an OnQueryError may be lost, or be called again for an earlier query.   *)
(***************************************************************************)
EXTENDS Queues

CONSTANT MaxQueries   \* how many queries a behaviour accepts

ASSUME MaxQueriesAssumption == MaxQueries \in Nat

VARIABLES
    accepted,   \* how many queries have been accepted
    waiting,    \* accepted and not executed, oldest first
    done,       \* executed, the callback still owed (at most one)
    failed,     \* the queries that failed, OnQueryError still owed
    finished,   \* queries whose callback ran, in the order the callbacks ran
    reported,   \* queries OnQueryError was called for, in that order
    dropped,    \* queries given up without a notification
    repeated,   \* queries OnQueryError was called for once more
    overlapped  \* have two threads changed the error records at once?

vars == <<accepted, waiting, done, failed, finished, reported, dropped,
          repeated, overlapped>>

race == <<repeated, overlapped>>

Queries == 1 .. MaxQueries

TypeOK ==
    /\ accepted \in 0 .. MaxQueries
    /\ waiting \in Seq(Queries)
    /\ done \in Seq(Queries)
    /\ failed \in SUBSET Queries
    /\ finished \in Seq(Queries)
    /\ reported \in Seq(Queries)
    /\ dropped \in SUBSET Queries
    /\ repeated \in SUBSET Queries
    /\ overlapped \in BOOLEAN

Init ==
    /\ accepted = 0
    /\ waiting = <<>>
    /\ done = <<>>
    /\ failed = {}
    /\ finished = <<>>
    /\ reported = <<>>
    /\ dropped = {}
    /\ repeated = {}
    /\ overlapped = FALSE

\* Mutant: the query is queued under its predecessor's number.
AcceptOffByOne ==
    /\ accepted < MaxQueries
    /\ accepted' = accepted + 1
    /\ waiting' = Append(waiting, accepted)
    /\ UNCHANGED <<done, failed, finished, reported, dropped, race>>

\* Mutant: the newest query is put first.
AcceptFront ==
    /\ accepted < MaxQueries
    /\ accepted' = accepted + 1
    /\ waiting' = <<accepted + 1>> \o waiting
    /\ UNCHANGED <<done, failed, finished, reported, dropped, race>>

Accept ==
    /\ accepted < MaxQueries
    /\ accepted' = accepted + 1
    /\ waiting' = Append(waiting, accepted + 1)
    /\ UNCHANGED <<done, failed, finished, reported, dropped, race>>

Succeed ==
    /\ waiting # <<>>
    /\ done = <<>>
    /\ done' = <<Head(waiting)>>
    /\ waiting' = Tail(waiting)
    /\ UNCHANGED <<accepted, failed, finished, reported, dropped, race>>

Fail ==
    /\ waiting # <<>>
    /\ done = <<>>
    /\ failed' = failed \cup {Head(waiting)}
    /\ waiting' = Tail(waiting)
    /\ UNCHANGED <<accepted, done, finished, reported, dropped, race>>

Finish ==
    /\ done # <<>>
    /\ finished' = Append(finished, Head(done))
    /\ done' = Tail(done)
    /\ UNCHANGED <<accepted, waiting, failed, reported, dropped, race>>

\* Mutant: errors are reported in any order.
ReportAny ==
    \E q \in failed :
       /\ reported' = Append(reported, q)
       /\ failed' = failed \ {q}
       /\ UNCHANGED <<accepted, waiting, done, finished, dropped, race>>

Report ==
    \E q \in failed :
       /\ \A p \in failed : q <= p
       /\ reported' = Append(reported, q)
       /\ failed' = failed \ {q}
       /\ UNCHANGED <<accepted, waiting, done, finished, dropped, race>>

\* Disconnect empties the queue.
DropWaiting ==
    /\ dropped' = dropped \cup Range(waiting)
    /\ waiting' = <<>>
    /\ UNCHANGED <<accepted, done, failed, finished, reported, race>>

\* Mutant: the callback that was owed is lost without a trace.
DropErrorsOnly ==
    /\ dropped' = dropped \cup failed
    /\ done' = <<>>
    /\ failed' = {}
    /\ UNCHANGED <<accepted, waiting, finished, reported, race>>

\* Deleting the handler takes the notifications that were still owed with it.
DropOwed ==
    /\ dropped' = dropped \cup Range(done) \cup failed
    /\ done' = <<>>
    /\ failed' = {}
    /\ UNCHANGED <<accepted, waiting, finished, reported, race>>

\* ProcessTick or a failing statement changes errorCallback during the
\* worker's push to it.
Overlap ==
    /\ overlapped' = TRUE
    /\ UNCHANGED <<accepted, waiting, done, failed, finished, reported, dropped,
                   repeated>>

\* A record was lost in such an overlap.
LoseReport ==
    \E q \in failed :
       /\ overlapped
       /\ dropped' = dropped \cup {q}
       /\ failed' = failed \ {q}
       /\ UNCHANGED <<accepted, waiting, done, finished, reported, race>>

\* An overlap left one entry too many, which still holds an old record.
Repeat ==
    \E q \in Range(reported) :
       /\ overlapped
       /\ repeated' = repeated \cup {q}
       /\ UNCHANGED <<accepted, waiting, done, failed, finished, reported,
                      dropped, overlapped>>

Next ==
    \/ Accept
    \/ Succeed
    \/ Fail
    \/ Finish
    \/ Report
    \/ DropWaiting
    \/ DropOwed
    \/ Overlap
    \/ LoseReport
    \/ Repeat

Spec == Init /\ [][Next]_vars
-----------------------------------------------------------------------------
(***************************************************************************)
(* The callbacks of a connection run in the order its queries were         *)
(* accepted, each query's at most once, and so do the OnQueryError calls,  *)
(* but for repetitions, which follow the first call and need an overlap;   *)
(* no query gets both.  (Between the two kinds no order is promised: see   *)
(* ErrorsMayBeOvertaken in the README.)                                    *)
(***************************************************************************)
NotifiedInOrder ==
    /\ Ascending(finished)
    /\ Ascending(reported)
    /\ repeated \subseteq Range(reported)
    /\ repeated # {} => overlapped
    /\ Range(finished) \cap Range(reported) = {}

(***************************************************************************)
(* No accepted query is forgotten and none is in two places: every one is  *)
(* waiting, owed a notification, notified or dropped, and exactly one of   *)
(* these.                                                                  *)
(***************************************************************************)
Places == <<Range(waiting), Range(done), failed,
            Range(finished), Range(reported), dropped>>

NothingForgotten ==
    /\ UNION {Places[i] : i \in DOMAIN Places} = 1 .. accepted
    /\ \A i, j \in DOMAIN Places : i # j => Places[i] \cap Places[j] = {}

(***************************************************************************)
(* Queries are executed in order: whatever is still waiting is younger     *)
(* than everything that was executed, and waits in order.                  *)
(***************************************************************************)
ExecutedInOrder ==
    /\ Ascending(waiting)
    /\ \A w \in Range(waiting) :
         \A e \in Range(done) \cup failed
                    \cup Range(finished) \cup Range(reported) : e < w
=============================================================================
