------------------------- MODULE RuntimeQueueProofs -------------------------
(***************************************************************************)
(* What holds of the durable queue for every set of envelopes and sessions *)
(* and every number of attempts: QueueTypeOK and UniqueRows are invariants *)
(* and RowLifecycle is an action property of QueueSpec.                    *)
(*                                                                         *)
(* UniqueRows is inductive together with QueueTypeOK: only Insert makes a  *)
(* row present, and its guard is that no present row conflicts with it.    *)
(* The table is finite, so that its oldest rows can be counted: a          *)
(* statement inserts at most one row.                                      *)
(***************************************************************************)
EXTENDS RuntimeQueue, FiniteSetTheorems, TLAPS

\* A statement of the table that leaves the set of rows alone changes the
\* status of the rows it selects to a value of the column.
LEMMA StatusWhere ==
  ASSUME QueueTypeOK, NEW ids, NEW from \in SUBSET Live,
         NEW to \in Live \cup Terminal, SetStatusWhere(ids, from, to)
  PROVE  /\ QueueTypeOK'
         /\ \A i \in Items : Present(i)' <=> Present(i)
BY DEF QueueTypeOK, SetStatusWhere, Present, Live, Waiting, Terminal, Status

\* The statements that mark rows are all of that form.
LEMMA MarksAreWhere ==
  ASSUME \/ \E i \in Items : \/ MarkCompletedIfRunning(i)
                             \/ MarkFailedIfRunning(i)
                             \/ MarkInterruptedIfRunning(i)
         \/ \E s \in Sessions : MarkInterruptedBySession(s)
         \/ \E ids \in SUBSET Items : MarkInterruptedByIds(ids)
         \/ MarkInterruptedFromRunning
  PROVE  \E ids \in SUBSET Items, from \in SUBSET Live, to \in Terminal :
           SetStatusWhere(ids, from, to)
<1> DEFINE Where == \E ids \in SUBSET Items, from \in SUBSET Live, to \in Terminal :
                      SetStatusWhere(ids, from, to)
<1>1. /\ {"running"} \in SUBSET Live /\ Live \in SUBSET Live
      /\ "completed" \in Terminal /\ "failed" \in Terminal /\ "interrupted" \in Terminal
  BY DEF Live, Terminal
<1>2. ASSUME NEW i \in Items, MarkCompletedIfRunning(i) PROVE Where
  BY <1>1, <1>2, {i} \in SUBSET Items DEF MarkCompletedIfRunning
<1>3. ASSUME NEW i \in Items, MarkFailedIfRunning(i) PROVE Where
  BY <1>1, <1>3, {i} \in SUBSET Items DEF MarkFailedIfRunning
<1>4. ASSUME NEW i \in Items, MarkInterruptedIfRunning(i) PROVE Where
  BY <1>1, <1>4, {i} \in SUBSET Items DEF MarkInterruptedIfRunning
<1>5. ASSUME NEW s \in Sessions, MarkInterruptedBySession(s) PROVE Where
  BY <1>1, <1>5, {i \in Items : SessionOf[i] = s} \in SUBSET Items
     DEF MarkInterruptedBySession
<1>6. ASSUME NEW ids \in SUBSET Items, MarkInterruptedByIds(ids) PROVE Where
  BY <1>1, <1>6 DEF MarkInterruptedByIds
<1>7. ASSUME MarkInterruptedFromRunning PROVE Where
  BY <1>1, <1>7, Items \in SUBSET Items DEF MarkInterruptedFromRunning
<1> QED
  BY <1>2, <1>3, <1>4, <1>5, <1>6, <1>7

---------------------------------------------------------------------------
(* The invariants.                                                         *)

QueueInv == QueueTypeOK /\ UniqueRows

LEMMA QueueInitInv == QueueInit => QueueInv
BY QueueAssumption
   DEF QueueInit, QueueInv, QueueTypeOK, UniqueRows, Present, Status

\* A step that makes no row present keeps the rows unique.
LEMMA UniqueWhenNoneAppears ==
  ASSUME UniqueRows, \A i \in Items : Present(i)' => Present(i)
  PROVE  UniqueRows'
BY DEF UniqueRows, Conflict

LEMMA InsertInv ==
  ASSUME QueueInv, NEW i \in Items, NEW t \in 1..MaxStamp, NEW available \in BOOLEAN,
         Insert(i, t, available)
  PROVE  QueueInv'
<1>1. QueueTypeOK'
  BY QueueAssumption DEF QueueInv, QueueTypeOK, Insert, Status, Live, Waiting
<1>2. \A j \in Items : Present(j)' => Present(j) \/ j = i
  BY DEF QueueInv, QueueTypeOK, Insert, Present
<1>3. \A j \in Items : Present(j) => ~Conflict(i, j) /\ ~Conflict(j, i)
  BY DEF Insert, Duplicate, Conflict
<1>4. UniqueRows'
  BY <1>2, <1>3 DEF QueueInv, UniqueRows, Conflict
<1> QED
  BY <1>1, <1>4 DEF QueueInv

LEMMA QueueNextInv == QueueInv /\ [QueueNext]_queueVars => QueueInv'
<1> SUFFICES ASSUME QueueInv, [QueueNext]_queueVars PROVE QueueInv'
  OBVIOUS
<1> USE QueueAssumption
<1>1. ASSUME NEW i \in Items, NEW t \in 1..MaxStamp, NEW available \in BOOLEAN,
             Insert(i, t, available)
      PROVE  QueueInv'
  BY <1>1, InsertInv
<1> DEFINE Stays == QueueTypeOK' /\ \A i \in Items : Present(i)' => Present(i)
<1>2. Stays => QueueInv'
  BY UniqueWhenNoneAppears DEF QueueInv
<1>3. ASSUME NEW i \in Items, MergeQueued(i) \/ BecomeDue(i) PROVE Stays
  BY <1>3 DEF QueueInv, QueueTypeOK, MergeQueued, BecomeDue, Present
<1>4. ASSUME NEW i \in Items, Claim(i) PROVE Stays
  BY <1>4 DEF QueueInv, QueueTypeOK, Claim, Present, Waiting, Live, Status
<1>5. ASSUME NEW i \in Items, attempts[i] < MaxAttempts, MarkRetryingIfRunning(i)
      PROVE  Stays
  <2>1. /\ status' \in [Items -> Status]
        /\ \A j \in Items : Present(j)' => Present(j)
    BY <1>5 DEF QueueInv, QueueTypeOK, MarkRetryingIfRunning, Present, Waiting, Live, Status
  <2>2. attempts' \in [Items -> 0..MaxAttempts]
    BY <1>5 DEF QueueInv, QueueTypeOK, MarkRetryingIfRunning
  <2>3. due' \in [Items -> BOOLEAN] /\ stamp' \in [Items -> 0..MaxStamp]
    BY <1>5 DEF QueueInv, QueueTypeOK, MarkRetryingIfRunning
  <2> QED
    BY <2>1, <2>2, <2>3 DEF QueueTypeOK
<1>6. ASSUME NEW ids \in SUBSET Items, NEW from \in SUBSET Live, NEW to \in Terminal,
             SetStatusWhere(ids, from, to)
      PROVE  Stays
  BY <1>6, StatusWhere DEF QueueInv
<1>7. CASE UNCHANGED queueVars
  BY <1>2, <1>7 DEF QueueInv, QueueTypeOK, queueVars, Present
<1> QED
  BY <1>1, <1>2, <1>3, <1>4, <1>5, <1>6, <1>7, MarksAreWhere DEF QueueNext, Statement

\* Every reachable table is well typed: in particular no row is retried more
\* often than MaxAttempts, whoever issues the statements.
THEOREM QueueTypes == QueueSpec => []QueueTypeOK
<1>1. QueueInv => QueueTypeOK
  BY DEF QueueInv
<1> QED
  BY <1>1, QueueInitInv, QueueNextInv, PTL DEF QueueSpec

\* No two rows of the table ever share an id or a dedup key.
THEOREM RowsUnique == QueueSpec => []UniqueRows
<1>1. QueueInv => UniqueRows
  BY DEF QueueInv
<1> QED
  BY <1>1, QueueInitInv, QueueNextInv, PTL DEF QueueSpec

\* The table is finite at any time, though Items need not be.
PresentRows == {i \in Items : Present(i)}
FiniteRows  == IsFiniteSet(PresentRows)

\* A step inserts at most one row.
LEMMA OneAppears ==
  ASSUME QueueInv, [QueueNext]_queueVars
  PROVE  \E x : PresentRows' \subseteq PresentRows \cup {x}
<1> SUFFICES \E x : \A i \in Items : Present(i)' => Present(i) \/ i = x
  BY DEF PresentRows
<1> USE DEF QueueInv
<1>1. ASSUME NEW i \in Items, NEW t, NEW available, Insert(i, t, available)
      PROVE  \A j \in Items : Present(j)' => Present(j) \/ j = i
  BY <1>1 DEF QueueTypeOK, Insert, Present
<1>2. ASSUME NEW i \in Items, \/ MergeQueued(i) \/ BecomeDue(i) \/ Claim(i)
                              \/ MarkRetryingIfRunning(i)
      PROVE  \A j \in Items : Present(j)' => Present(j)
  BY <1>2 DEF QueueTypeOK, MergeQueued, BecomeDue, Claim, MarkRetryingIfRunning, Present, Waiting
<1>3. ASSUME NEW ids \in SUBSET Items, NEW from \in SUBSET Live, NEW to \in Terminal,
             SetStatusWhere(ids, from, to)
      PROVE  \A j \in Items : Present(j)' => Present(j)
  BY <1>3, StatusWhere
<1>4. CASE UNCHANGED queueVars
  BY <1>4 DEF queueVars, Present
<1> QED
  BY <1>1, <1>2, <1>3, <1>4, MarksAreWhere DEF QueueNext, Statement

\* However many messages arrive, the table has finitely many rows, so that
\* pages, backlogs and their sizes are what they are taken to be.
THEOREM TableIsFinite == QueueSpec => []FiniteRows
<1>1. QueueInit => FiniteRows
  <2>1. QueueInit => PresentRows = {}
    BY DEF QueueInit, PresentRows, Present
  <2> QED
    BY <2>1, FS_EmptySet DEF FiniteRows
<1>2. QueueInv /\ FiniteRows /\ [QueueNext]_queueVars => FiniteRows'
  <2> SUFFICES ASSUME QueueInv, FiniteRows, [QueueNext]_queueVars PROVE FiniteRows'
    OBVIOUS
  <2>1. PICK x : PresentRows' \subseteq PresentRows \cup {x}
    BY OneAppears
  <2>2. IsFiniteSet(PresentRows \cup {x})
    BY FS_AddElement DEF FiniteRows
  <2> QED
    BY <2>1, <2>2, FS_Subset DEF FiniteRows
<1>3. QueueTypeOK /\ UniqueRows => QueueInv
  BY DEF QueueInv
<1> QED
  BY <1>1, <1>2, <1>3, QueueTypes, RowsUnique, PTL DEF QueueSpec

---------------------------------------------------------------------------
(* The life of a row.                                                      *)

\* What RowLifecycle says of one row in one step.
LifeStep(i) ==
  /\ status[i] \in Terminal => status'[i] = status[i]
  /\ status'[i] = "running"  => status[i] \in Waiting \cup {"running"}
  /\ status'[i] = "retrying" => status[i] \in {"running", "retrying"}
  /\ status'[i] = "absent"   => status[i] = "absent"
  /\ status'[i] \in Terminal => status[i] # "absent"

LEMMA EveryStepLives ==
  ASSUME QueueTypeOK, QueueNext
  PROVE  \A j \in Items : LifeStep(j)
<1> USE DEF QueueTypeOK, LifeStep, Terminal, Waiting, Live, Status
<1>1. ASSUME NEW i \in Items, NEW t \in 1..MaxStamp, NEW available \in BOOLEAN,
             Insert(i, t, available)
      PROVE  \A j \in Items : LifeStep(j)
  <2>1. status[i] = "absent"
    BY <1>1 DEF Insert, Duplicate, Conflict, Present
  <2> QED
    BY <1>1, <2>1 DEF Insert
<1>2. ASSUME NEW i \in Items, MergeQueued(i) \/ BecomeDue(i)
      PROVE  \A j \in Items : LifeStep(j)
  BY <1>2 DEF MergeQueued, BecomeDue
<1>3. ASSUME NEW i \in Items, Claim(i) PROVE \A j \in Items : LifeStep(j)
  BY <1>3 DEF Claim
<1>4. ASSUME NEW i \in Items, MarkRetryingIfRunning(i)
      PROVE  \A j \in Items : LifeStep(j)
  BY <1>4 DEF MarkRetryingIfRunning
<1>5. ASSUME NEW ids \in SUBSET Items, NEW from \in SUBSET Live, NEW to \in Terminal,
             SetStatusWhere(ids, from, to)
      PROVE  \A j \in Items : LifeStep(j)
  BY <1>5 DEF SetStatusWhere
<1> QED
  BY <1>1, <1>2, <1>3, <1>4, <1>5, MarksAreWhere DEF QueueNext, Statement

\* A row that ended stays ended, and runs only out of waiting, whatever
\* statements the callers issue and in whatever order.
THEOREM RowsLive == QueueSpec => RowLifecycle
<1>1. QueueTypeOK /\ [QueueNext]_queueVars
      => [\A i \in Items : LifeStep(i)]_queueVars
  BY EveryStepLives
<1> QED
  BY <1>1, QueueTypes, PTL DEF QueueSpec, RowLifecycle, LifeStep
=============================================================================
