------------------------- MODULE QueryPromiseProofs -------------------------
(***************************************************************************)
(* Proofs of what QueryPromise guarantees, for every number of queries.    *)
(* The properties need each other and two facts more (one result is owed   *)
(* at a time, and owed notifications are younger than those given): their  *)
(* conjunction PInv is inductive.                                          *)
(***************************************************************************)
EXTENDS QueryPromise, QueueLemmas

-----------------------------------------------------------------------------
(***************************************************************************)
(* The invariant.  Partition is NothingForgotten place by place.           *)
(***************************************************************************)
W == Range(waiting)
D == Range(done)
F == Range(finished)
R == Range(reported)

Partition ==
    /\ W \cup D \cup failed \cup F \cup R \cup dropped = 1 .. accepted
    /\ W \cap D = {} /\ W \cap failed = {} /\ W \cap F = {}
    /\ W \cap R = {} /\ W \cap dropped = {}
    /\ D \cap failed = {} /\ D \cap F = {} /\ D \cap R = {}
    /\ D \cap dropped = {}
    /\ failed \cap F = {} /\ failed \cap R = {} /\ failed \cap dropped = {}
    /\ F \cap R = {} /\ F \cap dropped = {} /\ R \cap dropped = {}

Younger ==
    /\ \A w \in W : \A e \in D \cup failed \cup F \cup R : e < w
    /\ \A d \in D, f \in F : f < d
    /\ \A q \in failed, r \in R : r < q

Ordered == Ascending(waiting) /\ Ascending(finished) /\ Ascending(reported)

OneOwed == done # <<>> => Tail(done) = <<>>

Repeats == repeated \subseteq R /\ (repeated # {} => overlapped)

PInv == TypeOK /\ Partition /\ Younger /\ Ordered /\ OneOwed /\ Repeats

LEMMA PartitionMeans == Partition => NothingForgotten
<1> SUFFICES ASSUME Partition PROVE NothingForgotten
  OBVIOUS
<1>1. DOMAIN Places = 1 .. 6
  BY DEF Places
<1>2. /\ Places[1] = W /\ Places[2] = D /\ Places[3] = failed
      /\ Places[4] = F /\ Places[5] = R /\ Places[6] = dropped
  BY DEF Places, W, D, F, R
<1>3. UNION {Places[i] : i \in DOMAIN Places}
         = W \cup D \cup failed \cup F \cup R \cup dropped
  <2>1. \A i \in 1 .. 6 : i = 1 \/ i = 2 \/ i = 3 \/ i = 4 \/ i = 5 \/ i = 6
    OBVIOUS
  <2>2. {Places[i] : i \in DOMAIN Places} = {W, D, failed, F, R, dropped}
    BY <1>1, <1>2, <2>1
  <2> QED BY <2>2
<1>4. ASSUME NEW i \in DOMAIN Places, NEW j \in DOMAIN Places, i # j
      PROVE  Places[i] \cap Places[j] = {}
  <2>1. i \in 1 .. 6 /\ j \in 1 .. 6
    BY <1>1
  <2>2. /\ i = 1 \/ i = 2 \/ i = 3 \/ i = 4 \/ i = 5 \/ i = 6
        /\ j = 1 \/ j = 2 \/ j = 3 \/ j = 4 \/ j = 5 \/ j = 6
    BY <2>1
  <2> HIDE DEF W, D, F, R
  <2> QED BY <1>2, <1>4, <2>2 DEF Partition
<1> QED BY <1>3, <1>4 DEF NothingForgotten, Partition

LEMMA PInvInit == Init => PInv
<1> SUFFICES ASSUME Init PROVE PInv
  OBVIOUS
<1>1. TypeOK
  <2>1. <<>> \in Seq(Queries)
    OBVIOUS
  <2>2. 0 \in 0 .. MaxQueries
    BY MaxQueriesAssumption
  <2> QED BY <2>1, <2>2, Zenon DEF Init, TypeOK
<1>2. W = {} /\ D = {} /\ F = {} /\ R = {}
  BY RangeEmpty DEF Init, W, D, F, R
<1>3. Partition /\ Younger /\ OneOwed /\ Repeats
  <2> HIDE DEF W, D, F, R
  <2> QED BY <1>2 DEF Init, Partition, Younger, OneOwed, Repeats
<1>4. Ordered
  BY DEF Init, Ordered, Ascending
<1> QED BY <1>1, <1>3, <1>4 DEF PInv

-----------------------------------------------------------------------------
(***************************************************************************)
(* One lemma per action: first where each query is afterwards, then the    *)
(* parts of the invariant.                                                 *)
(***************************************************************************)
LEMMA Numbers ==
    ASSUME TypeOK
    PROVE  /\ Queries \subseteq Nat
           /\ W \subseteq Queries /\ D \subseteq Queries /\ F \subseteq Queries
           /\ R \subseteq Queries /\ failed \subseteq Queries
<1>1. Queries \subseteq Nat
  BY MaxQueriesAssumption DEF Queries
<1> QED BY <1>1, RangeInside DEF TypeOK, W, D, F, R

USE DEF race

LEMMA AcceptKeeps == ASSUME PInv, Accept PROVE PInv'
<1>1. accepted + 1 \in Queries /\ waiting \in Seq(Queries)
  BY MaxQueriesAssumption DEF PInv, TypeOK, Accept, Queries
<1>2. /\ W' = W \cup {accepted + 1} /\ waiting' \in Seq(Queries)
      /\ D' = D /\ F' = F /\ R' = R
  BY <1>1, RangePushed DEF Accept, W, D, F, R
<1>3. UNCHANGED <<done, failed, finished, reported, dropped, race>>
      /\ accepted' = accepted + 1
  BY DEF Accept
<1>4. \A e \in W \cup D \cup failed \cup F \cup R : e < accepted + 1
  BY DEF PInv, Partition, TypeOK
<1>5. TypeOK'
  BY <1>1, <1>2, <1>3 DEF PInv, TypeOK, Queries
<1>6. Partition'
  <2>1. 1 .. (accepted + 1) = (1 .. accepted) \cup {accepted + 1}
    BY DEF PInv, TypeOK
  <2>2. accepted + 1 \notin 1 .. accepted
    BY DEF PInv, TypeOK
  <2> HIDE DEF W, D, F, R
  <2> QED BY <1>2, <1>3, <2>1, <2>2 DEF PInv, Partition
<1>7. Younger'
  BY <1>2, <1>3, <1>4 DEF PInv, Younger
<1>8. Ordered'
  <2>1. Queries \in SUBSET Nat
    BY Numbers DEF PInv
  <2>2. \A e \in W : e < accepted + 1
    BY <1>4
  <2>3. Ascending(waiting')
    BY <1>1, <2>1, <2>2, AscendingPushed DEF PInv, Ordered, Accept, W
  <2> QED BY <1>3, <2>3 DEF PInv, Ordered
<1>9. OneOwed' /\ Repeats'
  BY <1>2, <1>3 DEF PInv, OneOwed, Repeats
<1> QED BY <1>5, <1>6, <1>7, <1>8, <1>9 DEF PInv

\* What taking the oldest waiting query does, whatever becomes of it.
LEMMA Taken ==
    ASSUME PInv, waiting # <<>>, waiting' = Tail(waiting)
    PROVE  /\ Head(waiting) \in Queries /\ waiting' \in Seq(Queries)
           /\ W = {Head(waiting)} \cup W' /\ Head(waiting) \notin W'
           /\ Ascending(waiting')
           /\ \A w \in W' : Head(waiting) < w
<1>1. waiting \in Seq(Queries) /\ Ascending(waiting)
  BY DEF PInv, TypeOK, Ordered
<1>2. /\ Head(waiting) \in Queries /\ waiting' \in Seq(Queries)
      /\ W = {Head(waiting)} \cup W'
  BY <1>1, RangePopped DEF W
<1>3. Ascending(waiting') /\ \A w \in W' : Head(waiting) < w
  <2>1. Queries \in SUBSET Nat
    BY Numbers DEF PInv
  <2> QED BY <1>1, <2>1, AscendingPopped DEF W
<1>4. Head(waiting) \notin W'
  BY <1>2, <1>3, MaxQueriesAssumption DEF Queries
<1> QED BY <1>2, <1>3, <1>4

LEMMA SucceedKeeps == ASSUME PInv, Succeed PROVE PInv'
<1> DEFINE h == Head(waiting)
<1>1. /\ waiting # <<>> /\ waiting' = Tail(waiting) /\ done = <<>>
      /\ UNCHANGED <<accepted, failed, finished, reported, dropped, race>>
      /\ done' = <<h>>
  BY DEF Succeed
<1>2. /\ h \in Queries /\ waiting' \in Seq(Queries)
      /\ W = {h} \cup W' /\ h \notin W' /\ Ascending(waiting')
      /\ \A w \in W' : h < w
  BY <1>1, Taken
<1>3. D = {} /\ D' = {h} /\ F' = F /\ R' = R
  BY <1>1, RangeEmpty DEF D, F, R, Range
<1> HIDE DEF h
<1>4. TypeOK'
  <2>1. <<h>> \in Seq(Queries)
    BY <1>2
  <2> QED BY <1>1, <1>2, <2>1 DEF PInv, TypeOK
<1>5. Partition'
  <2> HIDE DEF W, D, F, R
  <2> QED BY <1>1, <1>2, <1>3 DEF PInv, Partition
<1>6. Younger'
  BY <1>1, <1>2, <1>3 DEF PInv, Younger
<1>7. Ordered' /\ OneOwed' /\ Repeats'
  BY <1>1, <1>2, <1>3 DEF PInv, Ordered, OneOwed, Repeats
<1> QED BY <1>4, <1>5, <1>6, <1>7 DEF PInv

LEMMA FailKeeps == ASSUME PInv, Fail PROVE PInv'
<1> DEFINE h == Head(waiting)
<1>1. /\ waiting # <<>> /\ waiting' = Tail(waiting)
      /\ UNCHANGED <<accepted, done, finished, reported, dropped, race>>
      /\ failed' = failed \cup {h}
  BY DEF Fail
<1>2. /\ h \in Queries /\ waiting' \in Seq(Queries)
      /\ W = {h} \cup W' /\ h \notin W' /\ Ascending(waiting')
      /\ \A w \in W' : h < w
  BY <1>1, Taken
<1>3. D' = D /\ F' = F /\ R' = R
  BY <1>1 DEF D, F, R
<1> HIDE DEF h
<1>4. TypeOK'
  BY <1>1, <1>2 DEF PInv, TypeOK
<1>5. Partition'
  <2> HIDE DEF W, D, F, R
  <2> QED BY <1>1, <1>2, <1>3 DEF PInv, Partition
<1>6. Younger'
  BY <1>1, <1>2, <1>3 DEF PInv, Younger
<1>7. Ordered' /\ OneOwed' /\ Repeats'
  BY <1>1, <1>2, <1>3 DEF PInv, Ordered, OneOwed, Repeats
<1> QED BY <1>4, <1>5, <1>6, <1>7 DEF PInv

LEMMA FinishKeeps == ASSUME PInv, Finish PROVE PInv'
<1> DEFINE h == Head(done)
<1>1. /\ done # <<>> /\ done' = Tail(done) /\ finished' = Append(finished, h)
      /\ UNCHANGED <<accepted, waiting, failed, reported, dropped, race>>
  BY DEF Finish
<1>2. done \in Seq(Queries) /\ finished \in Seq(Queries) /\ done' = <<>>
  BY <1>1 DEF PInv, TypeOK, OneOwed
<1>3. h \in Queries /\ D = {h} /\ D' = {}
  <2>1. h \in Queries /\ D = {h} \cup Range(Tail(done))
    BY <1>1, <1>2, RangePopped DEF D
  <2> QED BY <1>1, <1>2, <2>1, RangeEmpty DEF D
<1> HIDE DEF h
<1>4. finished' \in Seq(Queries) /\ F' = F \cup {h} /\ W' = W /\ R' = R
  BY <1>1, <1>2, <1>3, RangePushed DEF W, F, R
<1>5. TypeOK'
  <2>1. done' \in Seq(Queries)
    BY <1>2
  <2> QED BY <1>1, <1>4, <2>1 DEF PInv, TypeOK
<1>6. Partition'
  <2> HIDE DEF W, D, F, R
  <2> QED BY <1>1, <1>3, <1>4 DEF PInv, Partition
<1>7. Younger'
  BY <1>1, <1>3, <1>4 DEF PInv, Younger
<1>8. Ordered'
  <2>1. \A f \in F : f < h
    BY <1>3 DEF PInv, Younger
  <2>2. Ascending(finished')
    BY <1>1, <1>2, <1>3, <2>1, Numbers, AscendingPushed DEF PInv, Ordered, F
  <2> QED BY <1>1, <2>2 DEF PInv, Ordered
<1>9. OneOwed' /\ Repeats'
  BY <1>1, <1>2, <1>4 DEF PInv, OneOwed, Repeats
<1> QED BY <1>5, <1>6, <1>7, <1>8, <1>9 DEF PInv

LEMMA ReportKeeps == ASSUME PInv, Report PROVE PInv'
<1>1. PICK q \in failed :
         /\ \A p \in failed : q <= p
         /\ reported' = Append(reported, q)
         /\ failed' = failed \ {q}
         /\ UNCHANGED <<accepted, waiting, done, finished, dropped, race>>
  BY DEF Report
<1>2. q \in Queries /\ reported \in Seq(Queries) /\ failed \subseteq Nat
  BY Numbers DEF PInv, TypeOK
<1>3. reported' \in Seq(Queries) /\ R' = R \cup {q} /\ W' = W /\ D' = D /\ F' = F
  BY <1>1, <1>2, RangePushed DEF W, D, F, R
<1>4. TypeOK'
  BY <1>1, <1>3 DEF PInv, TypeOK
<1>5. Partition'
  <2> HIDE DEF W, D, F, R
  <2> QED BY <1>1, <1>3 DEF PInv, Partition
<1>6. Younger'
  <2>1. \A p \in failed' : q < p
    BY <1>1, <1>2
  <2> QED BY <1>1, <1>3, <2>1 DEF PInv, Younger
<1>7. Ordered'
  <2>1. \A r \in R : r < q
    BY <1>1 DEF PInv, Younger
  <2>2. Ascending(reported')
    BY <1>1, <1>2, <2>1, Numbers, AscendingPushed DEF PInv, Ordered, R
  <2> QED BY <1>1, <2>2 DEF PInv, Ordered
<1>8. OneOwed' /\ Repeats'
  BY <1>1, <1>3 DEF PInv, OneOwed, Repeats
<1> QED BY <1>4, <1>5, <1>6, <1>7, <1>8 DEF PInv

\* DropWaiting, DropOwed and LoseReport only take queries away.
LEMMA DropsKeep == ASSUME PInv, DropWaiting \/ DropOwed \/ LoseReport PROVE PInv'
<1>1. /\ UNCHANGED <<accepted, finished, reported, race>>
      /\ waiting' \in {waiting, <<>>} /\ done' \in {done, <<>>}
      /\ F' = F /\ R' = R
  BY DEF DropWaiting, DropOwed, LoseReport, F, R
<1>2. /\ W' \subseteq W /\ D' \subseteq D /\ failed' \subseteq failed
      /\ dropped' = dropped \cup (W \ W') \cup (D \ D') \cup (failed \ failed')
  <2>1. CASE DropWaiting
    BY <2>1, RangeEmpty DEF DropWaiting, W, D
  <2>2. CASE DropOwed
    BY <2>2, RangeEmpty DEF DropOwed, W, D
  <2>3. CASE LoseReport
    BY <2>3 DEF LoseReport, W, D
  <2> QED BY <2>1, <2>2, <2>3
<1>3. TypeOK'
  <2>1. <<>> \in Seq(Queries)
    OBVIOUS
  <2>2. dropped' \subseteq Queries
    BY <1>2, Numbers DEF PInv, TypeOK
  <2> QED BY <1>1, <1>2, <2>1, <2>2 DEF PInv, TypeOK
<1>4. Partition'
  <2> HIDE DEF W, D, F, R
  <2> QED BY <1>1, <1>2 DEF PInv, Partition
<1>5. Younger'
  BY <1>1, <1>2 DEF PInv, Younger
<1>6. Ordered' /\ OneOwed' /\ Repeats'
  <2>1. Ascending(<<>>)
    BY DEF Ascending
  <2> QED BY <1>1, <2>1 DEF PInv, Ordered, OneOwed, Repeats
<1> QED BY <1>3, <1>4, <1>5, <1>6 DEF PInv

\* Overlap and Repeat touch no query's place.
LEMMA RaceKeeps == ASSUME PInv, Overlap \/ Repeat PROVE PInv'
<1>1. /\ UNCHANGED <<accepted, waiting, done, failed, finished, reported, dropped>>
      /\ W' = W /\ D' = D /\ F' = F /\ R' = R
  BY DEF Overlap, Repeat, W, D, F, R
<1>2. /\ overlapped' \in BOOLEAN /\ repeated' \subseteq R
      /\ repeated' # {} => overlapped'
  BY DEF Overlap, Repeat, R, PInv, Repeats, TypeOK
<1>3. TypeOK'
  BY <1>1, <1>2, Numbers DEF PInv, TypeOK
<1>4. Partition' /\ Younger' /\ Ordered' /\ OneOwed' /\ Repeats'
  <2> HIDE DEF W, D, F, R
  <2> QED BY <1>1, <1>2 DEF PInv, Partition, Younger, Ordered, OneOwed, Repeats
<1> QED BY <1>3, <1>4 DEF PInv

LEMMA PInvStutter == PInv /\ UNCHANGED vars => PInv'
BY DEF PInv, vars, TypeOK, Partition, Younger, Ordered, OneOwed, Repeats,
       W, D, F, R

-----------------------------------------------------------------------------
(* What holds for every number of queries.                                 *)

\* The invariant is inductive.
THEOREM PromiseInductive == Spec => []PInv
<1>1. PInv /\ [Next]_vars => PInv'
  BY AcceptKeeps, SucceedKeeps, FailKeeps, FinishKeeps, ReportKeeps,
     DropsKeep, RaceKeeps, PInvStutter DEF Next
<1> QED BY <1>1, PInvInit, PTL DEF Spec

(***************************************************************************)
(* Every query keeps its number and every queue its type.                  *)
(***************************************************************************)
THEOREM PromiseTypes == Spec => []TypeOK
<1>1. PInv => TypeOK
  BY DEF PInv
<1> QED BY <1>1, PromiseInductive, PTL

(***************************************************************************)
(* Callbacks run in the order of mysql_query, each at most once, and so do *)
(* the calls of OnQueryError, but for those an overlap repeats; no query   *)
(* gets both (ProcessTick).                                                *)
(***************************************************************************)
THEOREM InOrder == Spec => []NotifiedInOrder
<1>1. PInv => NotifiedInOrder
  BY DEF PInv, Ordered, Partition, Repeats, NotifiedInOrder, F, R
<1> QED BY <1>1, PromiseInductive, PTL

(***************************************************************************)
(* Every accepted query is in exactly one place: waiting, owed a           *)
(* notification, notified or dropped.                                      *)
(***************************************************************************)
THEOREM NoneForgotten == Spec => []NothingForgotten
<1>1. PInv => NothingForgotten
  BY PartitionMeans DEF PInv
<1> QED BY <1>1, PromiseInductive, PTL

(***************************************************************************)
(* What waits is younger than all that was executed, and waits in order    *)
(* (ProcessQueryThread takes the front of queueData).                      *)
(***************************************************************************)
THEOREM InTurn == Spec => []ExecutedInOrder
<1>1. PInv => ExecutedInOrder
  BY DEF PInv, Ordered, Younger, ExecutedInOrder, W, D, F, R
<1> QED BY <1>1, PromiseInductive, PTL
=============================================================================
