--------------------------- MODULE RuntimeQueue ---------------------------
(***************************************************************************)
(* The durable queue of the runtime: the SQLite table runtime_queue and    *)
(* the statements of src/storage/repos/runtime-queue.ts that touch it.     *)
(*                                                                         *)
(* Every statement is one autocommitted UPDATE or INSERT, so every action  *)
(* here is one statement.  An UPDATE whose WHERE clause selects no row is  *)
(* a step that changes nothing.                                            *)
(*                                                                         *)
(* A row is addressed by the envelope it was made for.  The table itself   *)
(* addresses it by its primary key, RowId; the two agree because at most   *)
(* one envelope of each RowId is ever present (UniqueRows).                *)
(***************************************************************************)
EXTENDS Naturals

CONSTANTS
  Items,        \* the envelopes that may ever be offered to the queue
  Sessions,     \* the session keys
  SessionOf,    \* session_key of an envelope
  RowId,        \* primary key (id) an envelope asks for
  DedupKey,     \* dedup_key of an envelope
  MaxAttempts,  \* bound: how often a row may be marked for a retry
  MaxStamp      \* bound: the largest enqueued_at

ASSUME QueueAssumption ==
  /\ SessionOf \in [Items -> Sessions]
  /\ MaxAttempts \in Nat
  /\ MaxStamp \in Nat \ {0}

VARIABLES
  status,       \* status column; "absent" while the row does not exist
  attempts,     \* attempts column
  stamp,        \* enqueued_at column
  due           \* available_at <= now

queueVars == <<status, attempts, stamp, due>>

Waiting  == {"queued", "retrying"}
Live     == Waiting \cup {"running"}
Terminal == {"completed", "failed", "interrupted"}
Status   == {"absent"} \cup Live \cup Terminal

Present(i) == status[i] # "absent"

\* Variant: the primary key is not looked at.
DuplicateByKey(i) == \E j \in Items : Present(j) /\ DedupKey[i] = DedupKey[j]

\* INSERT OR IGNORE: a row is refused when its id or its dedup_key is taken
\* by any row, whatever the status of that row.
Conflict(i, j) == RowId[i] = RowId[j] \/ DedupKey[i] = DedupKey[j]
Duplicate(i)   == \E j \in Items : Present(j) /\ Conflict(i, j)

---------------------------------------------------------------------------
(* Reads.                                                                  *)

\* ORDER BY enqueued_at ASC among rows that may be claimed.
Runnable(i)     == status[i] \in Waiting /\ due[i]
Earlier(i, j)   == stamp[i] < stamp[j]
Pending(s)      == {i \in Items : SessionOf[i] = s /\ status[i] \in Waiting}

\* findLatestQueuedBySessionSince: the youngest queued row of the session
\* enqueued no earlier than since.
LatestQueued(s, since) ==
  {i \in Items : /\ SessionOf[i] = s /\ status[i] = "queued" /\ stamp[i] >= since
                 /\ \A j \in Items : /\ SessionOf[j] = s
                                     /\ status[j] = "queued"
                                     => stamp[j] <= stamp[i]}

---------------------------------------------------------------------------
(* Statements.                                                             *)

QueueInit ==
  /\ status   = [i \in Items |-> "absent"]
  /\ attempts = [i \in Items |-> 0]
  /\ stamp    = [i \in Items |-> 0]
  /\ due      = [i \in Items |-> FALSE]

\* enqueue, when the row is inserted.
Insert(i, t, available) ==
  /\ ~Duplicate(i)
  /\ status'   = [status EXCEPT ![i] = "queued"]
  /\ attempts' = [attempts EXCEPT ![i] = 0]
  /\ stamp'    = [stamp EXCEPT ![i] = t]
  /\ due'      = [due EXCEPT ![i] = available]

\* mergeQueuedInbound: a new inbound_json and a later available_at.
MergeQueued(i) ==
  /\ due' = [due EXCEPT ![i] = IF status[i] = "queued" THEN FALSE ELSE @]
  /\ UNCHANGED <<status, attempts, stamp>>

Claim(i) ==
  /\ status[i] \in Waiting
  /\ status' = [status EXCEPT ![i] = "running"]
  /\ UNCHANGED <<attempts, stamp, due>>

\* UPDATE ... SET status = to WHERE id IN ids AND status IN from
SetStatusWhere(ids, from, to) ==
  /\ status' = [i \in Items |-> IF i \in ids /\ status[i] \in from
                                THEN to ELSE status[i]]
  /\ UNCHANGED <<attempts, stamp, due>>

\* The unguarded statements that nothing but a test calls any more.
MarkFailed(i) == SetStatusWhere({i}, Status \ {"absent"}, "failed")
MarkRetrying(i) ==
  /\ status'   = [status EXCEPT ![i] = "retrying"]
  /\ attempts' = [attempts EXCEPT ![i] = @ + 1]
  /\ due'      = [due EXCEPT ![i] = FALSE]
  /\ UNCHANGED stamp

MarkCompletedIfRunning(i)   == SetStatusWhere({i}, {"running"}, "completed")
MarkFailedIfRunning(i)      == SetStatusWhere({i}, {"running"}, "failed")
MarkInterruptedIfRunning(i) == SetStatusWhere({i}, {"running"}, "interrupted")
MarkInterruptedByIds(ids)   == SetStatusWhere(ids, Live, "interrupted")
MarkInterruptedBySession(s) ==
  SetStatusWhere({i \in Items : SessionOf[i] = s}, Live, "interrupted")
MarkInterruptedFromRunning  == SetStatusWhere(Items, {"running"}, "interrupted")

\* Variant: the attempt is counted when it starts and when it fails.
RetryingCountedTwice(i) ==
  LET hit == status[i] = "running" IN
  /\ status'   = [status EXCEPT ![i] = IF hit THEN "retrying" ELSE @]
  /\ attempts' = [attempts EXCEPT ![i] = IF hit THEN @ + 2 ELSE @]
  /\ due'      = [due EXCEPT ![i] = IF hit THEN FALSE ELSE @]
  /\ UNCHANGED stamp

MarkRetryingIfRunning(i) ==
  LET hit == status[i] = "running" IN
  /\ status'   = [status EXCEPT ![i] = IF hit THEN "retrying" ELSE @]
  /\ attempts' = [attempts EXCEPT ![i] = IF hit THEN @ + 1 ELSE @]
  /\ due'      = [due EXCEPT ![i] = IF hit THEN FALSE ELSE @]
  /\ UNCHANGED stamp

\* The clock passes available_at of a row.
BecomeDue(i) ==
  /\ Present(i)
  /\ ~due[i]
  /\ due' = [due EXCEPT ![i] = TRUE]
  /\ UNCHANGED <<status, attempts, stamp>>

---------------------------------------------------------------------------
(* Any caller may issue any statement at any time.                         *)

Statement ==
  \/ \E i \in Items, t \in 1..MaxStamp, available \in BOOLEAN : Insert(i, t, available)
  \/ \E i \in Items :
       \/ MergeQueued(i)
       \/ Claim(i)
       \/ MarkCompletedIfRunning(i)
       \/ MarkFailedIfRunning(i)
       \/ MarkInterruptedIfRunning(i)
       \/ attempts[i] < MaxAttempts /\ MarkRetryingIfRunning(i)
  \/ \E s \in Sessions : MarkInterruptedBySession(s)
  \/ \E ids \in SUBSET Items : MarkInterruptedByIds(ids)
  \/ MarkInterruptedFromRunning

QueueNext == Statement \/ \E i \in Items : BecomeDue(i)

QueueSpec == QueueInit /\ [][QueueNext]_queueVars

---------------------------------------------------------------------------
(* Properties.                                                             *)

QueueTypeOK ==
  /\ status   \in [Items -> Status]
  /\ attempts \in [Items -> 0..MaxAttempts]
  /\ stamp    \in [Items -> 0..MaxStamp]
  /\ due      \in [Items -> BOOLEAN]

\* The PRIMARY KEY and UNIQUE constraints of migrations.ts:61-62: no two
\* rows share an id or a dedup key, so a redelivered message, and a message
\* whose first delivery already ended, is never queued a second time.
UniqueRows ==
  \A i, j \in Items : i # j /\ Present(i) /\ Present(j) => ~Conflict(i, j)

\* A row that ended never comes back, is never claimed out of nothing, and
\* is retried only from running: every statement's WHERE clause respects the
\* life of a row, in whatever order callers issue the statements.
RowLifecycle ==
  [][\A i \in Items :
       /\ status[i] \in Terminal => status'[i] = status[i]
       /\ status'[i] = "running"  => status[i] \in Waiting \cup {"running"}
       /\ status'[i] = "retrying" => status[i] \in {"running", "retrying"}
       /\ status'[i] = "absent"   => status[i] = "absent"
       /\ status'[i] \in Terminal => status[i] # "absent"]_queueVars
===========================================================================
