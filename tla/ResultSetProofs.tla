--------------------------- MODULE ResultSetProofs --------------------------
(***************************************************************************)
(* ResultSet keeps ResultInv, and with it its safety properties, for any   *)
(* number of results, rows and row contents; RowText implements it and     *)
(* keeps its texts apart, for rows of any columns of any texts.            *)
(***************************************************************************)
EXTENDS RowText, QueueLemmas, SequenceTheorems

(***************************************************************************)
(* The library's cursor never goes beyond the rows of a result.            *)
(***************************************************************************)
LEMMA TableLength ==
    ASSUME NEW table \in Tables
    PROVE  Len(table) \in 0 .. MaxRows
<1>1. PICK n \in 0 .. MaxRows : table \in [1 .. n -> Contents]
  BY DEF Tables
<1>2. n \in Nat
  BY <1>1, ResultAssumption
<1>3. Len(table) = n
  BY <1>1, <1>2
<1>4. QED
  BY <1>1, <1>3

LEMMA ResultInitInv == ResultInit => ResultInv
<1>1. SUFFICES ASSUME ResultInit PROVE ResultInv
  OBVIOUS
<1>2. <<>> \in Tables
  <2>1. 0 \in 0 .. MaxRows
    BY ResultAssumption
  <2>2. <<>> \in [1 .. 0 -> Contents]
    OBVIOUS
  <2>3. QED
    BY <2>1, <2>2 DEF Tables
<1>3. ResultTypeOK
  <2>1. cursor \in [Results -> 0 .. MaxRows]
    BY <1>1, ResultAssumption DEF ResultInit
  <2>2. rows \in [Results -> Tables]
    BY <1>1, <1>2 DEF ResultInit
  <2>3. QED
    BY <1>1, <2>1, <2>2 DEF ResultInit, ResultTypeOK, PointersTypeOK,
       LibraryTypeOK, ScriptTypeOK, HandleTypeOK
<1>4. PointerInv /\ HistoryInv /\ FaultInv
  BY <1>1, ResultAssumption DEF ResultInit, PointerInv, HistoryInv, FaultInv,
     ReleasedNeverUsed, UninitialisedOnlyAtFirst, RowPointers
<1>5. QED
  BY <1>3, <1>4 DEF ResultInv

-----------------------------------------------------------------------------
(***************************************************************************)
(* A step keeps the types.                                                 *)
(***************************************************************************)
LEMMA NextRowType ==
    ASSUME ResultTypeOK, m_stResult \in Results, NextRow
    PROVE  /\ m_stRow' \in RowPointers \cup {NULL}
           /\ AnotherRow => m_stRow' \in RowPointers
           /\ m_stField' \in Results
           /\ cursor' \in [Results -> 0 .. MaxRows]
           /\ given' \in RowPointers \cup {NULL}
           /\ fetched' \in BOOLEAN
<1> DEFINE at == cursor[m_stResult] + 1
<1>1. m_stField' \in Results
  BY DEF NextRow, Fields
<1>2. CASE AnotherRow
  <2>1. Len(rows[m_stResult]) \in 0 .. MaxRows
    BY TableLength DEF ResultTypeOK, LibraryTypeOK
  <2>2. cursor[m_stResult] \in 0 .. MaxRows
    BY DEF ResultTypeOK, LibraryTypeOK
  <2>3. at \in 1 .. MaxRows
    BY <1>2, <2>1, <2>2, ResultAssumption DEF AnotherRow
  <2>4. [res |-> m_stResult, at |-> at] \in RowPointers
    BY <2>3 DEF RowPointers
  <2>5. cursor' = [cursor EXCEPT ![m_stResult] = at]
    BY <1>2 DEF NextRow
  <2>6. at \in 0 .. MaxRows
    BY <2>3
  <2>7. cursor' \in [Results -> 0 .. MaxRows]
    BY <2>5, <2>6 DEF ResultTypeOK, LibraryTypeOK
  <2>8. QED
    BY <1>1, <1>2, <2>4, <2>7 DEF NextRow
<1>3. CASE ~AnotherRow
  BY <1>1, <1>3 DEF NextRow, ResultTypeOK, LibraryTypeOK, ScriptTypeOK
<1>4. QED
  BY <1>2, <1>3

(* What a step leaves alone keeps its type.                                *)

LEMMA SamePointers ==
    ASSUME PointersTypeOK, UNCHANGED <<m_stResult, m_stRow, m_stField>>
    PROVE  PointersTypeOK'
BY DEF PointersTypeOK

LEMMA SameLibrary ==
    ASSUME LibraryTypeOK, UNCHANGED <<live, rows, cursor>>
    PROVE  LibraryTypeOK'
BY DEF LibraryTypeOK

LEMMA SameScript ==
    ASSUME ScriptTypeOK, UNCHANGED <<stored, fetched, given, held, tidy>>
    PROVE  ScriptTypeOK'
<1>1. /\ stored' = stored /\ fetched' = fetched /\ given' = given
      /\ held' = held /\ tidy' = tidy
  OBVIOUS
<1> QED BY <1>1, Zenon DEF ScriptTypeOK

LEMMA ResultTypeStep == ResultInv /\ [ResultNext]_resultVars => ResultTypeOK'
<1>1. SUFFICES ASSUME ResultInv, [ResultNext]_resultVars
               PROVE  ResultTypeOK'
  OBVIOUS
<1>2. PointersTypeOK /\ LibraryTypeOK /\ ScriptTypeOK /\ HandleTypeOK
  BY <1>1 DEF ResultInv, ResultTypeOK
<1>0. 0 \in 0 .. MaxRows
  BY ResultAssumption
<1> USE <1>2
<1>3. CASE MysqlConnect
  <2>1. PointersTypeOK'
    BY <1>3 DEF MysqlConnect, PointersTypeOK
  <2>2. LibraryTypeOK'
    BY <1>3, SameLibrary DEF MysqlConnect, library
  <2>3. ScriptTypeOK'
    BY <1>3 DEF MysqlConnect, ScriptTypeOK
  <2>4. HandleTypeOK'
    BY <1>3 DEF MysqlConnect, HandleTypeOK
  <2> QED BY <2>1, <2>2, <2>3, <2>4 DEF ResultTypeOK
<1>4. CASE Disconnect
  <2>1. PointersTypeOK'
    BY <1>4, SamePointers DEF Disconnect, pointers
  <2>2. LibraryTypeOK'
    BY <1>4, SameLibrary DEF Disconnect, library
  <2>3. ScriptTypeOK'
    BY <1>4, SameScript DEF Disconnect, script
  <2>4. HandleTypeOK'
    BY <1>4 DEF Disconnect, HandleTypeOK
  <2> QED BY <2>1, <2>2, <2>3, <2>4 DEF ResultTypeOK
<1>14. CASE WorkerDrain
  <2>1. PointersTypeOK'
    BY <1>14 DEF WorkerDrain, PointersTypeOK
  <2>2. LibraryTypeOK'
    BY <1>14, SameLibrary DEF WorkerDrain, library
  <2>3. ScriptTypeOK'
    BY <1>14 DEF WorkerDrain, ScriptTypeOK
  <2>4. HandleTypeOK'
    BY <1>14 DEF WorkerDrain, HandleTypeOK
  <2> QED BY <2>1, <2>2, <2>3, <2>4 DEF ResultTypeOK
<1>15. CASE Overlap
  <2>1. PointersTypeOK'
    BY <1>15, SamePointers DEF Overlap, pointers
  <2>2. LibraryTypeOK'
    BY <1>15, SameLibrary DEF Overlap, library
  <2>3. ScriptTypeOK'
    BY <1>15, SameScript DEF Overlap, script
  <2>4. HandleTypeOK'
    BY <1>15 DEF Overlap, HandleTypeOK
  <2> QED BY <2>1, <2>2, <2>3, <2>4 DEF ResultTypeOK
<1>5. CASE Connect
  <2>1. PointersTypeOK'
    BY <1>5, SamePointers DEF Connect, pointers
  <2>2. LibraryTypeOK'
    BY <1>5, SameLibrary DEF Connect, library
  <2>3. ScriptTypeOK'
    BY <1>5, SameScript DEF Connect, script
  <2>4. HandleTypeOK'
    BY <1>5 DEF Connect, HandleTypeOK
  <2> QED BY <2>1, <2>2, <2>3, <2>4 DEF ResultTypeOK
<1>6. CASE MysqlClose
  <2>1. PointersTypeOK'
    BY <1>6 DEF MysqlClose, FreeBeforeDisconnect, FreeResult, RowGone, PointersTypeOK
  <2>2. LibraryTypeOK'
    BY <1>6 DEF MysqlClose, FreeBeforeDisconnect, FreeResult, RowGone, LibraryTypeOK
  <2>3. ScriptTypeOK'
    BY <1>6 DEF MysqlClose, ScriptTypeOK
  <2>4. HandleTypeOK'
    BY <1>6 DEF MysqlClose, FreeBeforeDisconnect, FreeResult, Fault, HandleTypeOK
  <2> QED BY <2>1, <2>2, <2>3, <2>4 DEF ResultTypeOK
<1>7. CASE MysqlFreeResult
  <2>1. PointersTypeOK'
    BY <1>7 DEF MysqlFreeResult, FreeResult, RowGone, PointersTypeOK
  <2>2. LibraryTypeOK'
    BY <1>7 DEF MysqlFreeResult, FreeResult, RowGone, LibraryTypeOK
  <2>3. ScriptTypeOK'
    BY <1>7 DEF MysqlFreeResult, ScriptTypeOK
  <2>4. HandleTypeOK'
    BY <1>7 DEF MysqlFreeResult, FreeResult, Fault, HandleTypeOK
  <2> QED BY <2>1, <2>2, <2>3, <2>4 DEF ResultTypeOK
<1>8. CASE MysqlStoreResult
  <2>1. PointersTypeOK'
    BY <1>8 DEF MysqlStoreResult, PointersTypeOK
  <2>2. LibraryTypeOK'
    BY <1>0, <1>8 DEF MysqlStoreResult, LibraryTypeOK, library
  <2>3. ScriptTypeOK'
    BY <1>8 DEF MysqlStoreResult, ScriptTypeOK
  <2>4. HandleTypeOK'
    BY <1>8 DEF MysqlStoreResult, HandleTypeOK
  <2> QED BY <2>1, <2>2, <2>3, <2>4 DEF ResultTypeOK
<1>9. CASE MysqlNumRows
  <2>1. PointersTypeOK'
    BY <1>9, SamePointers DEF MysqlNumRows, pointers
  <2>2. LibraryTypeOK'
    BY <1>9, SameLibrary DEF MysqlNumRows, library
  <2>3. ScriptTypeOK'
    BY <1>9, SameScript DEF MysqlNumRows, script
  <2>4. HandleTypeOK'
    BY <1>9 DEF MysqlNumRows, Fault, HandleTypeOK
  <2> QED BY <2>1, <2>2, <2>3, <2>4 DEF ResultTypeOK
<1>10. CASE FetchNext
  <2>1. CASE HasResult /\ ~Bad(m_stResult)
    <3>1. m_stResult \in Results
      BY <2>1 DEF Bad, LibraryTypeOK
    <3>2. NextRow /\ UNCHANGED fault
      BY <1>10, <2>1 DEF FetchNext
    <3>3. /\ UNCHANGED <<exists, m_bIsConnected, m_stResult, live, rows>>
          /\ UNCHANGED <<stored, held, tidy>>
      BY <1>10 DEF FetchNext
    <3>4. /\ m_stRow' \in RowPointers \cup {NULL}
          /\ m_stField' \in Results
          /\ cursor' \in [Results -> 0 .. MaxRows]
          /\ given' \in RowPointers \cup {NULL}
          /\ fetched' \in BOOLEAN
      BY <3>1, <3>2, NextRowType DEF ResultTypeOK
    <3>5. PointersTypeOK'
      BY <3>3, <3>4 DEF PointersTypeOK
    <3>6. LibraryTypeOK'
      BY <3>3, <3>4 DEF LibraryTypeOK
    <3>7. ScriptTypeOK'
      BY <3>3, <3>4 DEF ScriptTypeOK
    <3>8. HandleTypeOK'
      BY <3>2, <3>3 DEF HandleTypeOK
    <3> QED BY <3>5, <3>6, <3>7, <3>8 DEF ResultTypeOK
  <2>2. CASE ~HasResult \/ Bad(m_stResult)
    <3>1. /\ UNCHANGED <<m_stResult, m_stRow, m_stField>>
          /\ UNCHANGED <<live, rows, cursor>>
          /\ UNCHANGED <<stored, fetched, held, tidy>>
          /\ given' \in {given, NULL}
      BY <1>10, <2>2 DEF FetchNext
    <3>2. PointersTypeOK' /\ LibraryTypeOK'
      BY <3>1, SamePointers, SameLibrary
    <3>3. ScriptTypeOK'
      BY <3>1 DEF ScriptTypeOK
    <3>4. HandleTypeOK'
      BY <1>10, <2>2 DEF FetchNext, Fault, HandleTypeOK
    <3> QED BY <3>2, <3>3, <3>4 DEF ResultTypeOK
  <2> QED BY <2>1, <2>2
<1>11. CASE FetchField
  <2>1. PointersTypeOK'
    BY <1>11, SamePointers DEF FetchField, pointers
  <2>2. LibraryTypeOK'
    BY <1>11, SameLibrary DEF FetchField, library
  <2>3. ScriptTypeOK'
    BY <1>11, SameScript DEF FetchField, script
  <2>4. HandleTypeOK'
    BY <1>11 DEF FetchField, HandleTypeOK
  <2> QED BY <2>1, <2>2, <2>3, <2>4 DEF ResultTypeOK
<1>12. CASE MysqlFetchField
  <2>1. PointersTypeOK'
    BY <1>12, SamePointers DEF MysqlFetchField, pointers
  <2>2. LibraryTypeOK'
    BY <1>12, SameLibrary DEF MysqlFetchField, library
  <2>3. ScriptTypeOK'
    BY <1>12, SameScript DEF MysqlFetchField, script
  <2>4. HandleTypeOK'
    BY <1>12 DEF MysqlFetchField, Fault, HandleTypeOK
  <2> QED BY <2>1, <2>2, <2>3, <2>4 DEF ResultTypeOK
<1>13. CASE UNCHANGED resultVars
  <2>1. PointersTypeOK'
    BY <1>13, SamePointers DEF resultVars, pointers
  <2>2. LibraryTypeOK'
    BY <1>13, SameLibrary DEF resultVars, library
  <2>3. ScriptTypeOK'
    BY <1>13, SameScript DEF resultVars, script
  <2>4. HandleTypeOK'
    BY <1>13 DEF resultVars, HandleTypeOK
  <2> QED BY <2>1, <2>2, <2>3, <2>4 DEF ResultTypeOK
<1> QED
  BY <1>1, <1>3, <1>4, <1>5, <1>6, <1>7, <1>8, <1>9, <1>10, <1>11, <1>12,
     <1>13, <1>14, <1>15 DEF ResultNext, Connection

(***************************************************************************)
(* A step keeps the other parts.                                           *)
(***************************************************************************)
LEMMA ResultSafetyStep ==
    ResultInv /\ [ResultNext]_resultVars =>
        /\ fault' = "none" => PointerInv' /\ HistoryInv'
        /\ FaultInv'
<1>1. SUFFICES ASSUME ResultInv, [ResultNext]_resultVars
               PROVE  /\ fault' = "none" => PointerInv' /\ HistoryInv'
                      /\ FaultInv'
  OBVIOUS
<1>2. ResultTypeOK /\ (fault = "none" => PointerInv /\ HistoryInv) /\ FaultInv
  BY <1>1 DEF ResultInv
<1> USE <1>2, ResultAssumption
        DEF ResultTypeOK, PointersTypeOK, LibraryTypeOK, ScriptTypeOK,
            HandleTypeOK, PointerInv, HistoryInv, FaultInv,
            ReleasedNeverUsed, UninitialisedOnlyAtFirst
<1>3. CASE MysqlConnect
  BY <1>3 DEF MysqlConnect, library
<1>4. CASE Disconnect
  BY <1>4 DEF Disconnect, Running, pointers, library, script
<1>5. CASE Connect
  BY <1>5 DEF Connect, Running, pointers, library, script
<1>6. CASE MysqlClose
  BY <1>6 DEF MysqlClose, Running, FreeBeforeDisconnect, FreeResult, Freeable,
     RowGone, Bad, Fault
<1>7. CASE MysqlFreeResult
  BY <1>7 DEF MysqlFreeResult, Running, FreeResult, Freeable, RowGone, Bad,
     Fault
<1>8. CASE MysqlStoreResult
  BY <1>8 DEF MysqlStoreResult, Running, library
<1>9. CASE MysqlNumRows
  BY <1>9 DEF MysqlNumRows, Running, HasResult, Bad, Fault, pointers, library,
     script
<1>10. CASE FetchNext
  <2>1. CASE ~HasResult
    BY <1>10, <2>1 DEF FetchNext, Running
  <2>2. CASE HasResult /\ Bad(m_stResult)
    BY <1>10, <2>2 DEF FetchNext, Running, HasResult, Bad, Fault
  <2>3. CASE HasResult /\ ~Bad(m_stResult)
    <3>1. m_stResult \in Results /\ m_stResult \in live /\ fault = "none"
      BY <1>10, <2>3 DEF FetchNext, Running, Bad
    <3>2. NextRow /\ UNCHANGED <<fault, exists, m_stResult, live, stored, held, tidy>>
      BY <1>10, <2>3 DEF FetchNext
    <3>3. CASE AnotherRow
      <4>1. m_stRow' \in RowPointers \cup {NULL} /\ m_stField' \in Results
        BY <3>1, <3>2, NextRowType
      <4>2. /\ m_stRow' = given' /\ m_stRow'.res = m_stResult
            /\ m_stField' = m_stResult
        BY ONLY <3>2, <3>3 DEF NextRow, Fields
      <4>3. m_stRow' \in RowPointers
        BY <3>1, <3>2, <3>3, NextRowType
      <4>4. exists /\ (tidy => \A r \in live : m_stResult = r /\ held)
        BY <1>10, <3>1 DEF FetchNext, Running
      <4>5. PointerInv'
        BY <3>1, <3>2, <4>1, <4>2, <4>3
      <4>6. HistoryInv'
        BY <3>1, <3>2, <4>1, <4>2, <4>4
      <4>7. FaultInv'
        BY <3>1, <3>2
      <4>8. QED
        BY <4>5, <4>6, <4>7
    <3>4. CASE ~AnotherRow
      BY <3>1, <3>2, <3>4 DEF NextRow, Fields
    <3>5. QED
      BY <3>3, <3>4
  <2>4. QED
    BY <2>1, <2>2, <2>3
<1>11. CASE FetchField
  BY <1>11 DEF FetchField, Running, ReadsField, FieldThere, pointers, library,
     script
<1>12. CASE MysqlFetchField
  BY <1>12 DEF MysqlFetchField, Running, HasResult, Bad, Fault, pointers,
     library, script
<1>13. CASE UNCHANGED resultVars
  BY <1>13 DEF resultVars, pointers, library, script
<1>14. CASE WorkerDrain
  BY <1>14 DEF WorkerDrain, Running, library
<1>15. CASE Overlap
  BY <1>15 DEF Overlap, Running, pointers, library, script
<1>16. QED
  BY <1>1, <1>3, <1>4, <1>5, <1>6, <1>7, <1>8, <1>9, <1>10, <1>11, <1>12,
     <1>13, <1>14, <1>15 DEF ResultNext, Connection

-----------------------------------------------------------------------------
(***************************************************************************)
(* ResultInv holds in every state a handler's results can be in.           *)
(***************************************************************************)
THEOREM ResultInductive == ResultSpec => []ResultInv
<1>1. ResultInv /\ [ResultNext]_resultVars => ResultInv'
  BY ResultTypeStep, ResultSafetyStep DEF ResultInv
<1>2. QED
  BY ResultInitInv, <1>1, PTL DEF ResultSpec

(***************************************************************************)
(* Type correctness: no row is taken beyond the end of a result.           *)
(***************************************************************************)
THEOREM ResultTypeCorrect == ResultSpec => []ResultTypeOK
<1>1. ResultInv => ResultTypeOK
  BY DEF ResultInv
<1>2. QED
  BY ResultInductive, <1>1, PTL

(***************************************************************************)
(* No native goes through a pointer into a freed result, whatever the      *)
(* order of mysql_store_result, mysql_free_result and the fetching natives *)
(* and whenever the connection goes or comes.                              *)
(***************************************************************************)
THEOREM PointersSafe == ResultSpec => []ReleasedNeverUsed
<1>1. ResultInv => ReleasedNeverUsed
  BY DEF ResultInv, FaultInv
<1>2. QED
  BY ResultInductive, <1>1, PTL

(***************************************************************************)
(* What the constructor left uninitialised is never used after a result    *)
(* was stored and a row fetched.                                           *)
(***************************************************************************)
THEOREM InitialisedInTime == ResultSpec => []UninitialisedOnlyAtFirst
<1>1. ResultInv => UninitialisedOnlyAtFirst
  BY DEF ResultInv, FaultInv
<1>2. QED
  BY ResultInductive, <1>1, PTL

(***************************************************************************)
(* The row a script was given is the row mysql_fetch_field_row reads, with *)
(* the fields of the same result, until it stores or frees.                *)
(***************************************************************************)
THEOREM GivenRowSafe == ResultSpec => []RowGivenIsRowRead
<1>1. ResultInv => RowGivenIsRowRead
  BY DEF ResultInv, HistoryInv, RowGivenIsRowRead
<1>2. QED
  BY ResultInductive, <1>1, PTL

(***************************************************************************)
(* A script that frees every result before it stores the next, before the  *)
(* worker may reconnect, and before it closes a dead connection, leaks no  *)
(* result: the destructor and FreeResult free all there are.               *)
(***************************************************************************)
THEOREM NoLeak == ResultSpec => []TidyScriptsLeakNothing
<1>1. ResultInv => TidyScriptsLeakNothing
  BY DEF ResultInv, HistoryInv, TidyScriptsLeakNothing
<1>2. QED
  BY ResultInductive, <1>1, PTL

-----------------------------------------------------------------------------
(***************************************************************************)
(* RowText.  Its natives do to the pointers what those of ResultSet do, so *)
(* all of the above is true of it; what is left is the text.               *)
(***************************************************************************)
LEMMA RowTextStep == [Next]_vars => [ResultNext]_resultVars
<1> SUFFICES ASSUME [Next]_vars PROVE [ResultNext]_resultVars
  OBVIOUS
<1>1. CASE Next
  BY <1>1 DEF Next, NewHandler, Textless, MysqlFetchRowFormat, MysqlFetchInt,
     MysqlFetchFloat, MysqlRetrieveRow, MysqlFetchFieldRow, FieldFault, ResultNext,
     Connection
<1>2. CASE UNCHANGED vars
  BY <1>2 DEF vars
<1> QED BY <1>1, <1>2

(***************************************************************************)
(* RowText is ResultSet with the texts added.                              *)
(***************************************************************************)
THEOREM RowTextImplementsResultSet == Spec => ResultSpec
<1>1. Init => ResultInit
  BY DEF Init
<1> QED BY <1>1, RowTextStep, PTL DEF Spec, ResultSpec

\* The row m_stRow points to is one of its result.
RowThere ==
    fault = "none" /\ m_stRow \in RowPointers => m_stRow.at \in DOMAIN rows[m_stRow.res]

LEMMA TableRow ==
    ASSUME NEW table \in Tables, NEW i \in DOMAIN table
    PROVE  table[i] \in Contents
BY DEF Tables

LEMMA NextRowThere ==
    ASSUME ResultTypeOK, m_stResult \in Results, NextRow, AnotherRow
    PROVE  /\ given' = [res |-> m_stResult, at |-> cursor[m_stResult] + 1]
           /\ m_stRow' = given'
           /\ given'.at \in DOMAIN rows[given'.res]
<1>1. given' = [res |-> m_stResult, at |-> cursor[m_stResult] + 1] /\ m_stRow' = given'
  BY DEF NextRow
<1>2. rows[m_stResult] \in Tables /\ cursor[m_stResult] \in 0 .. MaxRows
  BY DEF ResultTypeOK, LibraryTypeOK
<1>3. PICK n \in 0 .. MaxRows : rows[m_stResult] \in [1 .. n -> Contents]
  BY <1>2 DEF Tables
<1>4. n \in Nat /\ Len(rows[m_stResult]) = n /\ DOMAIN rows[m_stResult] = 1 .. n
  BY <1>3, ResultAssumption
<1>5. cursor[m_stResult] + 1 \in 1 .. n
  BY <1>2, <1>4, ResultAssumption DEF AnotherRow
<1> QED BY <1>1, <1>4, <1>5

LEMMA RowThereStep ==
    ASSUME ResultInv, RowThere, [ResultNext]_resultVars
    PROVE  RowThere'
<1> SUFFICES ASSUME fault' = "none", m_stRow' \in RowPointers
             PROVE  m_stRow'.at \in DOMAIN rows'[m_stRow'.res]
  BY DEF RowThere, RowPointers
<1>0. NULL \notin RowPointers /\ Wild \notin RowPointers
  BY ResultAssumption
<1>1. CASE MysqlConnect
  BY <1>0, <1>1 DEF MysqlConnect
<1>2. CASE MysqlStoreResult
  <2>1. m_stRow' = m_stRow /\ fault = "none"
    BY <1>2 DEF MysqlStoreResult
  <2>2. m_stRow.res \in live /\ live \subseteq Results
    BY <2>1 DEF ResultInv, PointerInv, ResultTypeOK, LibraryTypeOK
  <2>3. rows'[m_stRow.res] = rows[m_stRow.res]
    BY <1>2, <2>2 DEF MysqlStoreResult, library, ResultInv, ResultTypeOK, LibraryTypeOK
  <2> QED BY <2>1, <2>3 DEF RowThere
<1>3. CASE FetchNext
  <2>1. CASE HasResult /\ ~Bad(m_stResult)
    <3>1. m_stResult \in Results /\ NextRow /\ UNCHANGED <<rows, fault>>
      BY <1>3, <2>1 DEF FetchNext, Bad, ResultInv, ResultTypeOK, LibraryTypeOK
    <3>2. AnotherRow
      BY <1>0, <3>1 DEF NextRow
    <3> QED BY <3>1, <3>2, NextRowThere DEF ResultInv
  <2>2. CASE ~(HasResult /\ ~Bad(m_stResult))
    BY <1>3, <2>2 DEF FetchNext, Running, RowThere
  <2> QED BY <2>1, <2>2
<1>4. CASE UNCHANGED <<rows, m_stRow>> /\ fault = "none"
  BY <1>4 DEF RowThere
<1>5. CASE MysqlClose \/ MysqlFreeResult
  <2>1. UNCHANGED rows /\ fault = "none" /\ m_stRow' \in {NULL, m_stRow}
    BY <1>5 DEF MysqlClose, FreeBeforeDisconnect, MysqlFreeResult, FreeResult, RowGone, Running
  <2> QED BY <1>0, <1>4, <2>1
<1> QED BY <1>1, <1>2, <1>3, <1>4, <1>5 DEF ResultNext, Connection, Disconnect, WorkerDrain,
       Overlap, Connect, MysqlNumRows, FetchField, MysqlFetchField, Running, resultVars,
       pointers, library

-----------------------------------------------------------------------------
(***************************************************************************)
(* The texts.                                                              *)
(***************************************************************************)
LEMMA WrittenText ==
    ASSUME NEW columns \in Contents, NEW d \in Seq(Symbols)
    PROVE  /\ Written(columns, d) \in Seq(Symbols)
           /\ Len(d) = 1 => Written(columns, d) # <<>>
<1> DEFINE n == Len(columns)
           s == [i \in DOMAIN columns |-> columns[i] \o d]
<1>1. /\ n \in Nat /\ n # 0 /\ DOMAIN columns = 1 .. n
      /\ \A i \in 1 .. n : columns[i] \in Seq(Symbols)
  <2>1. columns \in Seq(Seq(Symbols)) /\ columns # <<>>
    BY TextAssumption
  <2> QED BY <2>1
<1>2. \A i \in 1 .. n : s[i] = columns[i] \o d /\ s[i] \in Seq(Symbols)
  BY <1>1, Concatenated
<1>3. s \in Seq(Seq(Symbols)) /\ Len(s) = n
  <2>1. s \in [1 .. n -> Seq(Symbols)]
    BY <1>1, <1>2
  <2> HIDE DEF s
  <2> QED BY <1>1, <2>1
<1>4. s # <<>>
  BY <1>1, <1>3
<1>5. Len(d) = 1 => s[n] # <<>>
  <2> DEFINE e == columns[n]
  <2>1. e \in Seq(Symbols) /\ s[n] = e \o d
    BY <1>1, <1>2
  <2> HIDE DEF e, s
  <2>2. Len(e \o d) = Len(e) + Len(d) /\ Len(e) \in Nat
    BY <2>1, Concatenated
  <2>3. Len(<<>>) = 0
    OBVIOUS
  <2> QED BY <2>1, <2>2, <2>3
<1> HIDE DEF s
<1>6. FlattenSeq(s) \in Seq(Symbols) /\ (Len(d) = 1 => FlattenSeq(s) # <<>>)
  BY <1>3, <1>4, <1>5, Flattened
<1> QED BY <1>6 DEF Written, s

\* getline takes all of a text without a line break, and meets its end.
LEMMA PlainLine ==
    ASSUME NEW text \in Seq(Symbols), ~Contains(text, Break)
    PROVE  Line(text) = [got |-> text, rest |-> <<>>, good |-> FALSE]
<1>1. SelectInSeq(text, LAMBDA c : c = Break) = 0
  BY DEF SelectInSeq, Contains
<1> QED BY <1>1 DEF Line

LEMMA PlainExtract ==
    ASSUME m_cSStream = <<>>, good, NEW text \in Seq(Symbols), ~Contains(text, Break)
    PROVE  Extract(Put(text)) = [got |-> text, rest |-> <<>>, good |-> FALSE]
<1>1. Put(text) = text
  BY DEF Put
<1>2. Line(text) = [got |-> text, rest |-> <<>>, good |-> FALSE]
  BY PlainLine
<1>3. ~Line(text).good
  BY <1>2
<1>4. Extract(text) = Line(text)
  BY <1>3, Zenon DEF Extract
<1> QED BY <1>1, <1>2, <1>4

\* A row that is fetched is one of the library's.
LEMMA FoundColumns ==
    ASSUME ResultInv, FetchNext, Found
    PROVE  Columns \in Contents
<1>1. HasResult /\ ~Bad(m_stResult)
  BY DEF Found, FetchNext, Fault
<1>2. m_stResult \in Results /\ NextRow /\ UNCHANGED rows
  BY <1>1 DEF FetchNext, Bad, ResultInv, ResultTypeOK, LibraryTypeOK
<1>3. AnotherRow
  BY <1>2 DEF NextRow, Found
<1>4. /\ given'.at \in DOMAIN rows[given'.res] /\ given'.res = m_stResult
  BY <1>2, <1>3, NextRowThere DEF ResultInv
<1>5. rows[m_stResult] \in Tables
  BY <1>2 DEF ResultInv, ResultTypeOK, LibraryTypeOK
<1> QED BY <1>4, <1>5, TableRow DEF Columns

\* From a stream that is good and empty, FetchRow gives a plain row whole, and
\* leaves the stream so.
LEMMA FetchedRow ==
    ASSUME ResultInv, NoLeftover, plain, FetchNext, Found, NEW d \in Seq(Symbols),
           IsPlain(Written(Columns, d), d)
    PROVE  FetchRow(d) = [ret |-> Joined(Columns, d), kept |-> Joined(Columns, d),
                          rest |-> <<>>, good |-> TRUE]
<1> DEFINE text == Written(Columns, d)
<1>1. text \in Seq(Symbols) /\ text # <<>> /\ Len(d) = 1 /\ ~Contains(text, Break)
  BY FoundColumns, WrittenText DEF IsPlain
<1>2. Joined(Columns, d) = Front(text)
  BY <1>1 DEF Joined, Front
<1> HIDE DEF text
<1>3. Extract(Put(text)) = [got |-> text, rest |-> <<>>, good |-> FALSE]
  BY <1>1, PlainExtract DEF NoLeftover
<1> QED BY <1>1, <1>2, <1>3 DEF FetchRow, ClearAfterRow, text

LEMMA NullTextIsNoNumber == ~Numeric(NullText) /\ ~Numeric(<<>>)
BY DEF Numeric, NullText

(***************************************************************************)
(* Between two natives, as long as all was plain, the stream is empty and  *)
(* good; and, plain or not, m_szResult holds no number.                    *)
(***************************************************************************)
TextInv ==
    /\ NoLeftover /\ NativesGiveTheRow /\ IntNeedsRow
    /\ ~Numeric(m_szResult)
    /\ RowThere

LEMMA TextInit == Init => TextInv
<1> SUFFICES ASSUME Init PROVE TextInv
  OBVIOUS
<1>1. NoLeftover /\ NativesGiveTheRow /\ IntNeedsRow
  BY DEF Init, NoLeftover, NativesGiveTheRow, IntNeedsRow
<1>2. m_szResult = <<>> /\ m_stRow = NULL
  BY DEF Init, ResultInit
<1> QED BY <1>1, <1>2, NullTextIsNoNumber, ResultAssumption DEF TextInv, RowThere

\* What the natives that fetch a row leave, and what they answer.
LEMMA FetchKeeps ==
    ASSUME ResultInv, TextInv, FetchNext, NEW d \in Seq(Symbols), NEW n, Asked(n, d),
           NEW taken, Leave(FetchRow(d), taken)
    PROVE  /\ NoLeftover'
           /\ plain' /\ Found => /\ FetchRow(d).ret = Joined(Columns, d)
                                 /\ FetchRow(d).kept = Joined(Columns, d)
           /\ ~Found => FetchRow(d).kept = m_szResult
           /\ native' = n /\ (found' <=> Found)
           /\ RowThere'
<1>1. RowThere'
  BY RowThereStep DEF TextInv, ResultNext
<1>2. native' = n /\ (found' <=> Found)
  BY DEF Asked
<1>3. CASE ~Found
  <2>1. FetchRow(d) = [ret |-> NullText, kept |-> m_szResult, rest |-> m_cSStream,
                       good |-> good]
    BY <1>3 DEF FetchRow
  <2>2. m_cSStream' = m_cSStream /\ good' = good
    BY <2>1 DEF Leave
  <2>3. plain' => plain
    BY DEF Asked
  <2> QED BY <1>1, <1>2, <1>3, <2>1, <2>2, <2>3 DEF TextInv, NoLeftover
<1>4. CASE Found /\ plain'
  <2>1. plain /\ IsPlain(Written(Columns, d), d)
    BY <1>4 DEF Asked
  <2>2. FetchRow(d) = [ret |-> Joined(Columns, d), kept |-> Joined(Columns, d),
                       rest |-> <<>>, good |-> TRUE]
    BY <1>4, <2>1, FetchedRow DEF TextInv
  <2>3. m_cSStream' = <<>> /\ good'
    BY <2>2 DEF Leave
  <2> QED BY <1>1, <1>2, <1>4, <2>2, <2>3 DEF NoLeftover
<1>5. CASE Found /\ ~plain'
  BY <1>1, <1>2, <1>5 DEF NoLeftover
<1> QED BY <1>3, <1>4, <1>5

LEMMA RowFormatStep ==
    ASSUME ResultInv, TextInv, NEW d \in Delimiters, MysqlFetchRowFormat(d)
    PROVE  TextInv'
<1> DEFINE f == FetchRow(d)
<1>1. /\ d \in Seq(Symbols) /\ FetchNext /\ Asked("row", d) /\ Leave(f, f.ret # NullText)
      /\ answer' = IF f.ret # NullText THEN Given(f.ret) ELSE Nothing
      /\ wanted' = IF Found /\ Joined(Columns, d) # NullText
                   THEN Given(Joined(Columns, d)) ELSE Nothing
  BY TextAssumption DEF MysqlFetchRowFormat
<1>2. /\ NoLeftover' /\ RowThere' /\ native' = "row"
      /\ plain' /\ Found => f.ret = Joined(Columns, d)
      /\ found' <=> Found
  BY <1>1, FetchKeeps
<1>3. ~Numeric(m_szResult')
  <2>1. f.kept \in {m_szResult, <<>>, f.ret}
    BY DEF FetchRow
  <2>2. m_szResult' = IF f.ret # NullText THEN <<>> ELSE f.kept
    BY <1>1 DEF Leave
  <2> HIDE DEF f
  <2> QED BY <2>1, <2>2, NullTextIsNoNumber DEF TextInv
<1>4. NativesGiveTheRow'
  <2> HIDE DEF f
  <2> QED BY <1>1, <1>2 DEF NativesGiveTheRow, Given, Nothing
<1>5. IntNeedsRow'
  BY <1>2 DEF IntNeedsRow
<1> QED BY <1>2, <1>3, <1>4, <1>5 DEF TextInv, Numeric

LEMMA SpaceText == <<Space>> \in Seq(Symbols)
BY TextAssumption

LEMMA IntStep ==
    ASSUME ResultInv, TextInv, MysqlFetchInt
    PROVE  TextInv'
<1> DEFINE d == <<Space>>
           f == FetchRow(d)
<1>1. /\ FetchNext /\ Asked("int", d) /\ Leave(f, IntTaken(f.kept))
      /\ answer' = IF Numeric(f.kept) THEN ToCell(f.kept) ELSE Nothing
      /\ wanted' = IF Found /\ Joined(Columns, d) \in CellNumbers
                            /\ Numeric(Joined(Columns, d))
                   THEN Given(Joined(Columns, d)) ELSE Nothing
  BY DEF MysqlFetchInt
<1>2. /\ NoLeftover' /\ RowThere' /\ native' = "int"
      /\ plain' /\ Found => f.kept = Joined(Columns, d)
      /\ ~Found => f.kept = m_szResult
      /\ found' <=> Found
  BY <1>1, SpaceText, FetchKeeps
<1>3. m_szResult' = IF Numeric(f.kept) THEN <<>> ELSE f.kept
  BY <1>1 DEF Leave, IntTaken
<1> HIDE DEF f, d
<1>4. ~Numeric(m_szResult')
  BY <1>3, NullTextIsNoNumber
<1>5. NativesGiveTheRow'
  BY <1>1, <1>2 DEF NativesGiveTheRow, ToCell, Given, Nothing
<1>6. IntNeedsRow'
  BY <1>1, <1>2 DEF IntNeedsRow, TextInv, Nothing
<1> QED BY <1>2, <1>4, <1>5, <1>6 DEF TextInv, Numeric

\* A number reads as itself.
LEMMA NumberFloat ==
    ASSUME NEW text \in Seq(Symbols), Numeric(text)
    PROVE  ToFloat(text) = Given(text)
<1> DEFINE n == Len(text)
<1>1. n \in Nat /\ n # 0 /\ \A i \in 1 .. n : text[i] = Digit
  BY DEF Numeric
<1>2. WordStart(text) = 1
  <2> DEFINE I == {i \in 1 .. n : ~IsSpace(text[i])}
  <2>1. I = 1 .. n
    BY <1>1 DEF IsSpace, Digit, Break, Space
  <2>2. 1 \in I /\ \A y \in I : 1 <= y
    BY <1>1, <2>1
  <2>3. \A x \in I : x \in Nat
    OBVIOUS
  <2> HIDE DEF I
  <2>4. Min(I) = 1
    BY <2>2, <2>3 DEF Min
  <2> QED BY <2>2, <2>4 DEF WordStart, SelectInSeq, I
<1>3. DigitsEnd(text, 1) = 0
  BY <1>1 DEF DigitsEnd, SelectInSubSeq
<1>4. SubSeq(text, 1, n) = text
  BY <1>1
<1> HIDE DEF n
<1>5. text # <<>>
  BY DEF Numeric
<1> DEFINE from   == WordStart(text)
           end    == DigitsEnd(text, from)
           digits == SubSeq(text, from, IF end = 0 THEN Len(text) ELSE end - 1)
<1>6. ToFloat(text) = IF from = 0 \/ digits = <<>> THEN OtherNumber ELSE Given(digits)
  BY Zenon DEF ToFloat
<1>7. from = 1 /\ end = 0 /\ from # 0
  BY <1>2, <1>3
<1> HIDE DEF from, end
<1>8. digits = SubSeq(text, 1, n)
  BY <1>7 DEF n
<1> HIDE DEF digits
<1> QED BY <1>4, <1>5, <1>6, <1>7, <1>8, Zenon

\* The text of a row that was found.
LEMMA JoinedText ==
    ASSUME ResultInv, FetchNext, Found, NEW d \in Seq(Symbols), Len(d) = 1
    PROVE  Joined(Columns, d) \in Seq(Symbols)
<1> DEFINE text == Written(Columns, d)
<1>1. text \in Seq(Symbols) /\ text # <<>>
  BY FoundColumns, WrittenText
<1> HIDE DEF text
<1>2. SubSeq(text, 1, Len(text) - 1) \in Seq(Symbols)
  <2>1. Len(text) \in Nat /\ Len(text) # 0
    BY <1>1
  <2>2. \A i \in 1 .. Len(text) - 1 : text[i] \in Symbols
    BY <1>1, <2>1
  <2> QED BY <2>1, <2>2, <1>1
<1> QED BY <1>2 DEF Joined, text

LEMMA FloatStep ==
    ASSUME ResultInv, TextInv, MysqlFetchFloat
    PROVE  TextInv'
<1> DEFINE d == <<Space>>
           f == FetchRow(d)
<1>1. /\ FetchNext /\ Asked("float", d) /\ Leave(f, f.kept # <<>>)
      /\ answer' = IF f.kept # <<>> THEN ToFloat(f.kept) ELSE Nothing
      /\ wanted' = IF Found /\ Numeric(Joined(Columns, d))
                   THEN Given(Joined(Columns, d)) ELSE Nothing
  BY DEF MysqlFetchFloat
<1>2. /\ NoLeftover' /\ RowThere' /\ native' = "float"
      /\ plain' /\ Found => f.kept = Joined(Columns, d)
      /\ found' <=> Found
  BY <1>1, SpaceText, FetchKeeps
<1>3. m_szResult' = <<>>
  BY <1>1 DEF Leave
<1> HIDE DEF f, d
<1>4. NativesGiveTheRow'
  <2>1. SUFFICES ASSUME plain', Found, Numeric(Joined(Columns, d))
                 PROVE  answer' = Given(Joined(Columns, d))
    BY <1>1, <1>2 DEF NativesGiveTheRow, Nothing
  <2>2. f.kept = Joined(Columns, d)
    BY <1>2, <2>1
  <2>3. Joined(Columns, d) \in Seq(Symbols)
    BY <1>1, <2>1, SpaceText, JoinedText DEF d
  <2>4. f.kept # <<>> /\ ToFloat(f.kept) = Given(f.kept)
    BY <2>1, <2>2, <2>3, NumberFloat DEF Numeric
  <2> QED BY <1>1, <2>2, <2>4
<1>5. IntNeedsRow'
  BY <1>2 DEF IntNeedsRow
<1> QED BY <1>2, <1>3, <1>4, <1>5, NullTextIsNoNumber DEF TextInv, Numeric

\* mysql_fetch_field_row, of a column the row has or has not.
LEMMA FieldText ==
    ASSUME ResultInv, TextInv, FetchField, fault' = "none", ReadsField, NEW c
    PROVE  Field(c) \in Seq(Symbols)
<1>1. FieldThere /\ fault = "none"
  BY DEF FetchField, Running
<1>2. m_stRow \in RowPointers
  BY <1>1 DEF FieldThere, ReadsField, ResultInv, ResultTypeOK, PointersTypeOK
<1> DEFINE columns == rows[m_stRow.res][m_stRow.at]
<1>3. columns \in Contents
  <2>1. rows[m_stRow.res] \in Tables
    BY <1>2 DEF RowPointers, ResultInv, ResultTypeOK, LibraryTypeOK
  <2>2. m_stRow.at \in DOMAIN rows[m_stRow.res]
    BY <1>1, <1>2 DEF TextInv, RowThere
  <2> QED BY <2>1, <2>2, TableRow
<1> HIDE DEF columns
<1>4. columns \in Seq(Seq(Symbols))
  BY <1>3, TextAssumption
<1>5. \A i \in DOMAIN columns : columns[i] \in Seq(Symbols)
  BY <1>4
<1>6. <<>> \in Seq(Symbols)
  OBVIOUS
<1> QED BY <1>5, <1>6 DEF Field, columns

LEMMA FieldRowStep ==
    ASSUME ResultInv, TextInv, NEW c, MysqlFetchFieldRow(c)
    PROVE  TextInv'
<1>1. /\ FetchField /\ fault' = "none" /\ native' = "field" /\ m_szResult' = <<>>
      /\ found' = ReadsField
  BY DEF MysqlFetchFieldRow
<1>2. RowThere'
  BY <1>1, RowThereStep DEF TextInv, ResultNext
<1>3. IntNeedsRow' /\ ~Numeric(m_szResult')
  BY <1>1, NullTextIsNoNumber DEF IntNeedsRow
<1>4. NoLeftover' /\ NativesGiveTheRow'
  <2>1. CASE ~ReadsField
    <3>1. UNCHANGED <<m_cSStream, good, plain>> /\ ~found'
      BY <1>1, <2>1 DEF MysqlFetchFieldRow
    <3> QED BY <3>1 DEF TextInv, NoLeftover, NativesGiveTheRow
  <2>2. CASE ReadsField /\ plain'
    <3> DEFINE x == Extract(Put(Field(c)))
    <3>1. /\ m_cSStream' = x.rest /\ good' = ClearAfterField(x)
          /\ answer' = Given(x.got) /\ wanted' = Given(Field(c))
          /\ plain /\ ~Contains(Field(c), Break)
      BY <2>2 DEF MysqlFetchFieldRow
    <3>2. x = [got |-> Field(c), rest |-> <<>>, good |-> FALSE]
      BY <1>1, <2>2, <3>1, FieldText, PlainExtract DEF TextInv, NoLeftover
    <3> HIDE DEF x
    <3> QED BY <3>1, <3>2 DEF NoLeftover, NativesGiveTheRow, ClearAfterField, Given
  <2>3. CASE ~plain'
    BY <2>3 DEF NoLeftover, NativesGiveTheRow
  <2> QED BY <2>1, <2>2, <2>3
<1> QED BY <1>1, <1>2, <1>3, <1>4 DEF TextInv, Numeric

LEMMA TextStep ==
    ASSUME ResultInv, TextInv, [Next]_vars
    PROVE  TextInv'
<1>1. RowThere'
  BY RowTextStep, RowThereStep DEF TextInv
<1>2. CASE UNCHANGED <<stream, asked>>
  BY <1>1, <1>2 DEF TextInv, NoLeftover, NativesGiveTheRow, IntNeedsRow, Numeric, stream, asked
<1>3. CASE NewHandler
  <2>1. /\ m_cSStream' = <<>> /\ good' /\ m_szResult' = <<>> /\ ~found'
        /\ native' = "none"
    BY <1>3 DEF NewHandler
  <2> QED BY <1>1, <2>1, NullTextIsNoNumber
          DEF TextInv, NoLeftover, NativesGiveTheRow, IntNeedsRow, Numeric
<1> QED BY <1>2, <1>3, RowFormatStep, IntStep, FloatStep, FieldRowStep
        DEF Next, Textless, MysqlRetrieveRow, FieldFault, vars

(***************************************************************************)
(* Whatever is fetched in whatever order, the next native finds the stream *)
(* empty and good as long as every text and delimiter was plain, and no    *)
(* number in m_szResult at all.                                            *)
(***************************************************************************)
THEOREM TextInductive == Spec => [](ResultInv /\ TextInv)
<1>1. ResultInv /\ TextInv /\ [Next]_vars => TextInv'
  BY TextStep
<1> QED BY <1>1, TextInit, RowTextImplementsResultSet, ResultInductive, PTL DEF Spec

(***************************************************************************)
(* No text of a row or a field is left in m_cSStream for the next.         *)
(***************************************************************************)
THEOREM NothingLeftOver == Spec => []NoLeftover
<1>1. TextInv => NoLeftover
  BY DEF TextInv
<1> QED BY <1>1, TextInductive, PTL

(***************************************************************************)
(* The natives that have a row give the script exactly what it says, for   *)
(* rows of any number of columns of any plain texts.                       *)
(***************************************************************************)
THEOREM RowsUnmixed == Spec => []NativesGiveTheRow
<1>1. TextInv => NativesGiveTheRow
  BY DEF TextInv
<1> QED BY <1>1, TextInductive, PTL

(***************************************************************************)
(* mysql_fetch_int returns no number when there is no row: nothing that is *)
(* left in m_szResult is one.                                              *)
(***************************************************************************)
THEOREM NoIntWithoutRow == Spec => []IntNeedsRow
<1>1. TextInv => IntNeedsRow
  BY DEF TextInv
<1> QED BY <1>1, TextInductive, PTL
=============================================================================
