----------------------------- MODULE MySQLClient ----------------------------
(***************************************************************************)
(* The MySQL C client library as the plugin uses it.  The library is not   *)
(* part of the repository: what is stated here is what mysql.h and         *)
(* errmsg.h declare and what the plugin's code relies on.                  *)
(*                                                                         *)
(* A MYSQL object may be used by one thread at a time.  A library call     *)
(* takes time, so it is a Begin step and an End step; a call that begins   *)
(* on an object another thread is still using corrupts the object, and     *)
(* from then on its calls may report anything.                             *)
(***************************************************************************)
EXTENDS CMutex

CONSTANTS Conns,   \* identities of MYSQL objects
          NULL     \* the null pointer

ASSUME ConnsAssumption == NULL \notin Conns

VARIABLES conn,    \* state of every MYSQL object
          call     \* the object each thread is inside a library call on

(***************************************************************************)
(*   free     not allocated (or leaked: nothing refers to it any more)     *)
(*   init     made by mysql_init, not connected                            *)
(*   up       connected and idle (MYSQL_STATUS_READY)                      *)
(*   result   connected, a statement's rows are waiting to be fetched      *)
(*            (MYSQL_STATUS_GET_RESULT)                                    *)
(*   lost     the server dropped the connection                            *)
(*   closed   released by mysql_close                                      *)
(*   corrupt  used by two threads at once                                  *)
(***************************************************************************)
ConnStates == {"free", "init", "up", "result", "lost", "closed", "corrupt"}

\* The states in which the server holds a session for the object.
OpenStates == {"up", "result"}

ClientTypeOK ==
    /\ conn \in [Conns -> ConnStates]
    /\ call \in [Threads -> Conns \cup {NULL}]

ClientInit ==
    /\ conn = [c \in Conns |-> "free"]
    /\ call = [t \in Threads |-> NULL]

\* A null or dangling pointer behaves like no object at all.
StateOf(c) == IF c = NULL THEN "closed" ELSE conn[c]

InCall == {call[t] : t \in Threads}

Begin(t, c) ==
    /\ call' = [call EXCEPT ![t] = c]
    /\ conn' = IF c \in Conns /\ \E u \in Threads \ {t} : call[u] = c
               THEN [conn EXCEPT ![c] = "corrupt"]
               ELSE conn

End(t, state) ==
    /\ call' = [call EXCEPT ![t] = NULL]
    /\ conn' = IF call[t] \in Conns
               THEN [conn EXCEPT ![call[t]] = state]
               ELSE conn

(***************************************************************************)
(* What a finished call may have done to an object in state s: whether it  *)
(* reported success, and the state it left.                                *)
(***************************************************************************)
Outcomes == [ok : BOOLEAN, state : ConnStates]

\* No call but mysql_init and mysql_close changes these, whatever it reports.
BadStates == {"free", "closed", "corrupt"}

\* mysql_real_query fails with "commands out of sync" when rows of an earlier
\* statement are waiting, and a lost connection may come back by itself if
\* the object's reconnect option happens to be set.
QueryOutcomes(s) == {o \in Outcomes :
    \/ s \in {"up", "lost"} /\ o.ok /\ o.state \in OpenStates
    \/ s \in {"up", "lost", "result", "init"} /\ ~o.ok /\ o.state = s
    \/ s \in BadStates /\ o.state = s}

PingOutcomes(s) == {o \in Outcomes :
    \/ s \in {"up", "lost"} /\ o.ok /\ o.state = "up"
    \/ s \in {"lost", "result", "init"} /\ ~o.ok /\ o.state = s
    \/ s \in BadStates /\ o.state = s}

\* mysql_store_result takes the waiting rows off the connection.
StoreOutcomes(s) == {o \in Outcomes :
    \/ s = "result" /\ o.ok /\ o.state = "up"
    \/ s \in {"up", "init", "lost"} /\ ~o.ok /\ o.state = s
    \/ s \in BadStates /\ o.state = s}

\* mysql_real_connect refuses an object that is already connected.
ConnectOutcomes(s) == {o \in Outcomes :
    \/ s = "init" /\ o.ok /\ o.state = "up"
    \/ s \in {"init", "up", "result", "lost"} /\ ~o.ok /\ o.state = s
    \/ s \in BadStates /\ o.state = s}

(***************************************************************************)
(* mysql_init returns an object c nobody refers to or, when there is no    *)
(* memory, the null pointer.  The pointer it is assigned to (old) gives up *)
(* its object: one that no call is using either can never be reached       *)
(* again, and its identity is recycled.                                    *)
(***************************************************************************)
MysqlInit(c, old) ==
    /\ c \notin (InCall \cup {old}) \ {NULL}
    /\ conn' = [d \in Conns |-> IF d = c THEN "init"
                                ELSE IF d \in InCall THEN conn[d]
                                ELSE "free"]

\* The server drops a connection the plugin holds at p.
ServerDrops(p) ==
    /\ p \in Conns
    /\ conn[p] \in OpenStates
    /\ conn' = [conn EXCEPT ![p] = "lost"]
=============================================================================
