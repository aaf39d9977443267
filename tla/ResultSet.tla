------------------------------ MODULE ResultSet -----------------------------
(***************************************************************************)
(* The result of one connection handle: m_stResult, m_stRow and m_stField, *)
(* what they point to, and the natives that store, fetch from and free it. *)
(*                                                                         *)
(* A native is one step.  In between ProcessQueryThread may reconnect, and *)
(* overwrite m_stResult on the way (WorkerDrain); natives look at          *)
(* m_bIsConnected before anything else.  If it does so while a native is   *)
(* past that look (Overlap), anything may come of it: a fault.  In the     *)
(* callback of a finished query it cannot (CallbackOwnsConnection in       *)
(* QueryThread).  What the library has to store depends on the statements  *)
(* (QueryThread again); here it is any rows.                               *)
(*                                                                         *)
(* The constructor does not initialise the pointers: each starts as NULL   *)
(* or as Wild, an address of nothing.  A native that goes through a        *)
(* pointer to nothing, or hands the library or the runtime what it must    *)
(* not be given, is a fault, and the model follows the program no further. *)
(***************************************************************************)
EXTENDS Naturals, Sequences

CONSTANTS
    Results,     \* bound: MYSQL_RES objects that can exist at a time
    Contents,    \* contents of a row
    MaxRows,     \* bound: rows of a result
    NULL, Wild

\* A MYSQL_ROW: the at-th row of a result.
RowPointers == [res : Results, at : 1 .. MaxRows]

\* NULL and Wild point to nothing.
ASSUME ResultAssumption ==
    /\ MaxRows \in Nat
    /\ NULL \notin Results \cup RowPointers
    /\ Wild \notin Results \cup RowPointers
    /\ NULL # Wild

VARIABLES
    exists,                           \* SQLHandle has the handler
    m_bIsConnected, m_stResult, m_stRow, m_stField,
    live,                             \* results the library has allocated
    rows, cursor,                     \* rows of each, and how many were fetched
    fault,                            \* the first fault, if any
    stored, fetched,                  \* a result was stored, a row fetched from
    given,                            \* the row the script was last given
    held, tidy                        \* the script owes a free; it freed all

pointers == <<m_stResult, m_stRow, m_stField>>
library  == <<live, rows, cursor>>
script   == <<stored, fetched, given, held, tidy>>

resultVars == <<exists, m_bIsConnected, pointers, library, fault, script>>

\* The rows a result may have.
Tables == UNION {[1 .. n -> Contents] : n \in 0 .. MaxRows}

PointersTypeOK ==
    /\ m_stResult \in Results \cup {NULL, Wild}
    /\ m_stRow \in RowPointers \cup {NULL, Wild}
    /\ m_stField \in Results \cup {NULL, Wild}

LibraryTypeOK ==
    /\ live \in SUBSET Results
    /\ rows \in [Results -> Tables]
    /\ cursor \in [Results -> 0 .. MaxRows]

ScriptTypeOK ==
    /\ stored \in BOOLEAN
    /\ fetched \in BOOLEAN
    /\ given \in RowPointers \cup {NULL}
    /\ held \in BOOLEAN
    /\ tidy \in BOOLEAN

HandleTypeOK ==
    /\ exists \in BOOLEAN
    /\ m_bIsConnected \in BOOLEAN
    /\ fault \in {"none", "uninitialised", "released", "null text", "heap", "raced"}

ResultTypeOK ==
    /\ PointersTypeOK
    /\ LibraryTypeOK
    /\ ScriptTypeOK
    /\ HandleTypeOK

ResultInit ==
    /\ exists = FALSE
    /\ m_bIsConnected = FALSE
    /\ m_stResult = NULL /\ m_stRow = NULL /\ m_stField = NULL
    /\ live = {}
    /\ rows = [r \in Results |-> <<>>]
    /\ cursor = [r \in Results |-> 0]
    /\ fault = "none"
    /\ stored = FALSE /\ fetched = FALSE
    /\ given = NULL
    /\ held = FALSE /\ tidy = TRUE

\* A native reaches the handler: VALID_CONNECTION_HANDLE, and no fault before.
Running == exists /\ fault = "none"

\* Going through a pointer into result r, NULL excluded, goes wrong.
Bad(r) == r \notin live

Fault(r) == fault' = IF r = Wild THEN "uninitialised" ELSE "released"

-----------------------------------------------------------------------------
(***************************************************************************)
(* The connection.                                                         *)
(***************************************************************************)

\* mysql_connect makes a handler; its Connect may fail.
MysqlConnect ==
    /\ ~exists
    /\ fault = "none"
    /\ exists' = TRUE
    /\ m_bIsConnected' \in BOOLEAN
    /\ m_stResult' \in {NULL, Wild}
    /\ m_stRow' \in {NULL, Wild}
    /\ m_stField' \in {NULL, Wild}
    /\ stored' = FALSE /\ fetched' = FALSE
    /\ UNCHANGED <<library, fault, given, held, tidy>>

\* Disconnect, in mysql_reconnect: results stay.
Disconnect ==
    /\ Running
    /\ m_bIsConnected
    /\ m_bIsConnected' = FALSE
    /\ UNCHANGED <<exists, pointers, library, fault, script>>

\* The ping of ProcessQueryThread has failed.  Rows left on the connection
\* are stored in m_stResult and freed at once; the result that was there is
\* never freed.  Connect comes next.
WorkerDrain ==
    /\ Running
    /\ m_bIsConnected
    /\ m_bIsConnected' = FALSE
    /\ m_stResult' = NULL
    /\ tidy' = (tidy /\ ~held)
    /\ held' = FALSE
    /\ UNCHANGED <<exists, m_stRow, m_stField, library, fault, stored, fetched, given>>

\* A native that has found the connection alive goes on with NULL, or with
\* rows the worker is freeing.
Overlap ==
    /\ Running
    /\ m_bIsConnected
    /\ fault' = "raced"
    /\ UNCHANGED <<exists, m_bIsConnected, pointers, library, script>>

\* A Connect that succeeds.
Connect ==
    /\ Running
    /\ ~m_bIsConnected
    /\ m_bIsConnected' = TRUE
    /\ UNCHANGED <<exists, pointers, library, fault, script>>

\* Mutant: FreeResult does not look at the connection.
FreeableAnyway(connected) == m_stResult # NULL

\* FreeResult's early returns.
Freeable(connected) == connected /\ m_stResult # NULL

\* Mutant: FreeResult leaves m_stRow alone.
RowKept == UNCHANGED m_stRow

\* The row was in the result that was freed.
RowGone == m_stRow' = NULL

\* CMySQLHandler::FreeResult, called with or without a connection.
FreeResult(connected) ==
    IF ~Freeable(connected)
    THEN UNCHANGED <<m_stResult, m_stRow, live, fault>>
    ELSE IF Bad(m_stResult)
    THEN Fault(m_stResult) /\ UNCHANGED <<m_stResult, m_stRow, live>>
    ELSE /\ live' = live \ {m_stResult}
         /\ m_stResult' = NULL
         /\ RowGone
         /\ UNCHANGED fault

\* Mutant: the destructor disconnects first, and FreeResult refuses.
FreeAfterDisconnect == FreeResult(FALSE)

\* The destructor frees the result, then disconnects.
FreeBeforeDisconnect == FreeResult(m_bIsConnected)

\* mysql_close: the destructor, then the handler's memory is given back.
MysqlClose ==
    /\ Running
    /\ FreeBeforeDisconnect
    /\ exists' = FALSE
    /\ m_bIsConnected' = FALSE
    /\ given' = NULL
    /\ tidy' = (tidy /\ (m_bIsConnected \/ ~held))
    /\ held' = FALSE
    /\ UNCHANGED <<m_stField, rows, cursor, stored, fetched>>

-----------------------------------------------------------------------------
(***************************************************************************)
(* The natives on the result.  One that the code refuses because there is  *)
(* no connection or no result tells the script so and changes nothing,     *)
(* except that the script has no row (mysql_retrieve_row returned 0).      *)
(***************************************************************************)

MysqlFreeResult ==
    /\ Running
    /\ FreeResult(m_bIsConnected)
    /\ given' = IF m_bIsConnected THEN NULL ELSE given
    /\ held' = (held /\ ~m_bIsConnected)
    /\ UNCHANGED <<exists, m_bIsConnected, m_stField, rows, cursor,
                   stored, fetched, tidy>>

\* m_stResult is overwritten by what the library returns, a result or NULL.
MysqlStoreResult ==
    /\ Running
    /\ m_bIsConnected
    /\ \/ \E r \in Results \ live, table \in Tables :
            /\ m_stResult' = r
            /\ live' = live \cup {r}
            /\ rows' = [rows EXCEPT ![r] = table]
            /\ cursor' = [cursor EXCEPT ![r] = 0]
            /\ held' = TRUE
       \/ /\ m_stResult' = NULL
          /\ held' = FALSE
          /\ UNCHANGED library
    /\ stored' = TRUE
    /\ given' = NULL
    /\ tidy' = (tidy /\ ~held)
    /\ UNCHANGED <<exists, m_bIsConnected, m_stRow, m_stField, fault, fetched>>

\* There is a connection and m_stResult is not NULL.
HasResult == m_bIsConnected /\ m_stResult # NULL

\* mysql_num_rows, mysql_num_fields: only read the result.
MysqlNumRows ==
    /\ Running
    /\ HasResult
    /\ Bad(m_stResult)
    /\ Fault(m_stResult)
    /\ UNCHANGED <<exists, m_bIsConnected, pointers, library, script>>

\* Mutant: m_stField is fetched for the first row only.
FieldsOnce ==
    IF m_stField = NULL THEN m_stField' = m_stResult ELSE UNCHANGED m_stField

\* mysql_fetch_fields.
Fields == m_stField' = m_stResult

\* Mutant: one row too many is taken from the result.
OneRowMore == cursor[m_stResult] <= Len(rows[m_stResult])

\* mysql_fetch_row finds another row.
AnotherRow == cursor[m_stResult] < Len(rows[m_stResult])

\* mysql_fetch_fields and mysql_fetch_row, in FetchRow and RetrieveRow.
NextRow ==
    LET next == [res |-> m_stResult, at |-> cursor[m_stResult] + 1] IN
    /\ Fields
    /\ IF AnotherRow
       THEN /\ m_stRow' = next
            /\ given' = next
            /\ cursor' = [cursor EXCEPT ![m_stResult] = next.at]
            /\ fetched' = TRUE
       ELSE /\ m_stRow' = NULL
            /\ given' = NULL
            /\ UNCHANGED <<cursor, fetched>>

\* FetchRow and RetrieveRow, as far as the pointers go.
FetchNext ==
    /\ Running
    /\ IF ~HasResult
       THEN /\ given' = NULL
            /\ UNCHANGED <<m_stRow, m_stField, cursor, fetched, fault>>
       ELSE IF Bad(m_stResult)
       THEN /\ Fault(m_stResult)
            /\ UNCHANGED <<m_stRow, m_stField, cursor, fetched, given>>
       ELSE NextRow /\ UNCHANGED fault
    /\ UNCHANGED <<exists, m_bIsConnected, m_stResult, live, rows,
                   stored, held, tidy>>

\* FetchField reads m_stField[i].name and m_stRow[i].
ReadsField == m_bIsConnected /\ m_stField # NULL /\ m_stRow # NULL

\* What FetchField reads is there.
FieldThere ==
    /\ m_stField \in live
    /\ m_stRow # Wild
    /\ m_stRow.res \in live

\* mysql_fetch_field_row, as far as the pointers go.
FetchField ==
    /\ Running
    /\ fault' = IF ~ReadsField \/ FieldThere THEN fault
                ELSE IF Wild \in {m_stField, m_stRow} THEN "uninitialised"
                ELSE "released"
    /\ UNCHANGED <<exists, m_bIsConnected, pointers, library, script>>

(***************************************************************************)
(* mysql_fetch_field.  Refused, FetchFieldName returns 0 as a std::string, *)
(* which is made from a null pointer.  Otherwise it gives free() a pointer *)
(* into the result, which malloc never returned.                           *)
(***************************************************************************)
MysqlFetchField ==
    /\ Running
    /\ IF ~HasResult THEN fault' = "null text"
       ELSE IF Bad(m_stResult) THEN Fault(m_stResult)
       ELSE fault' = "heap"
    /\ UNCHANGED <<exists, m_bIsConnected, pointers, library, script>>

Connection ==
    MysqlConnect \/ Disconnect \/ WorkerDrain \/ Overlap \/ Connect \/ MysqlClose

ResultNext ==
    \/ Connection
    \/ MysqlFreeResult
    \/ MysqlStoreResult
    \/ MysqlNumRows
    \/ FetchNext
    \/ FetchField
    \/ MysqlFetchField

ResultSpec == ResultInit /\ [][ResultNext]_resultVars

-----------------------------------------------------------------------------
(***************************************************************************)
(* Properties                                                              *)
(***************************************************************************)

(***************************************************************************)
(* No native ever goes through a pointer into a result that was freed, in  *)
(* whatever order a script stores, fetches and frees, and wherever between *)
(* two natives the worker reconnects.  FreeResult leaves m_stField         *)
(* behind and StoreResult leaves m_stRow and m_stField: that this is       *)
(* harmless rests on FetchField looking at m_stRow as well.                *)
(***************************************************************************)
ReleasedNeverUsed == fault # "released"

(***************************************************************************)
(* What the constructor leaves uninitialised is used only by a script that *)
(* has not yet stored a result or not yet fetched a row from one: after    *)
(* both no order of natives brings an uninitialised pointer into play.     *)
(***************************************************************************)
UninitialisedOnlyAtFirst == fault = "uninitialised" => ~stored \/ ~fetched

(***************************************************************************)
(* The row FetchField reads is the row the script was given: as long as    *)
(* its last mysql_retrieve_row found a row and it has neither stored nor   *)
(* freed since, m_stRow and m_stField are that row and the fields of its   *)
(* result, which is not freed, also after the worker has reconnected and   *)
(* m_stResult is no longer that result.                                    *)
(***************************************************************************)
RowGivenIsRowRead ==
    (given # NULL /\ fault = "none") =>
        /\ m_stRow = given
        /\ m_stField = given.res
        /\ given.res \in live

(***************************************************************************)
(* A script that frees each result (mysql_free_result returned 1) before   *)
(* it stores the next, before the worker may reconnect (in the callback of *)
(* a finished query it may not), and before it closes a dead connection,   *)
(* leaks none: the only result allocated is the one m_stResult points to,  *)
(* none after mysql_close.                                                 *)
(***************************************************************************)
TidyScriptsLeakNothing ==
    (tidy /\ fault = "none") =>
        \A r \in live : exists /\ m_stResult = r

-----------------------------------------------------------------------------
(***************************************************************************)
(* The inductive invariant                                                 *)
(***************************************************************************)

(***************************************************************************)
(* What the pointers are as long as nothing went wrong: m_stResult is      *)
(* never a freed result; a row that is not NULL and the fields belong      *)
(* together and to a result that was not freed, even if it leaked; what    *)
(* the natives have assigned is not Wild.                                  *)
(***************************************************************************)
PointerInv ==
    /\ m_stResult \in Results => m_stResult \in live
    /\ m_stRow \in RowPointers =>
          m_stRow.res \in live /\ m_stField = m_stRow.res
    /\ stored => m_stResult # Wild
    /\ fetched => m_stRow # Wild /\ m_stField # Wild

\* What the script knows; if it is tidy it owes a free for the only result.
HistoryInv ==
    /\ given # NULL =>
          /\ exists
          /\ m_stRow = given
          /\ m_stField = given.res
          /\ given.res \in live
    /\ tidy => \A r \in live : exists /\ m_stResult = r /\ held

FaultInv ==
    /\ ReleasedNeverUsed
    /\ UninitialisedOnlyAtFirst

ResultInv ==
    /\ ResultTypeOK
    /\ fault = "none" => PointerInv /\ HistoryInv
    /\ FaultInv
=============================================================================
