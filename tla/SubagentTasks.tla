--------------------------- MODULE SubagentTasks ---------------------------
(***************************************************************************)
(* Subagent tasks: the SubagentRegistry, which gives every parent session  *)
(* a number of slots and queues the spawns beyond it; the                  *)
(* DetachedRunRegistry, which keeps a record of every task in memory and in *)
(* a file; startDetachedPromptRun, which executes a task; and the tasks    *)
(* control plane, which stops, cleans and reconciles records.              *)
(*                                                                         *)
(* An action is one synchronous segment, with the microtasks that follow   *)
(* it.  The end of a run and its terminal callback are one action: that    *)
(* the callback runs, once, is the subject of DetachedRuns.                *)
(***************************************************************************)
EXTENDS Naturals, Sequences, FiniteSets

CONSTANTS
  Tasks,          \* calls of subagent_run and sessions_spawn
  Parents,        \* parent sessions
  ParentOf,       \* parent session of a task
  Refused,        \* tasks ensureAllowed refuses (depth, allow list)
  Unstarted,      \* tasks that may be calls of sessions_spawn
  MaxConcurrent,  \* _MAX_CONCURRENT_SUBAGENTS
  MaxRestarts,    \* bound: restarts of the host
  MaxFaults       \* bound: failing writes of the file

ASSUME TasksAssumption ==
  /\ ParentOf \in [Tasks -> Parents]
  /\ Refused \subseteq Tasks /\ Unstarted \subseteq Tasks
  /\ MaxConcurrent \in Nat \ {0} /\ MaxRestarts \in Nat /\ MaxFaults \in Nat

VARIABLES
  taskAt,       \* where the call that spawned a task, and then its run, is
  activeCount,  \* activeBySession
  spawnQueue,   \* spawnQueues
  slots,        \* keys of activeDetachedRuns
  record,       \* runs of the registry
  saved,        \* the file the registry persists to
  reported,     \* tasks whose subagent_result row is in the queue of the parent
  restarts, faults

taskVars == <<taskAt, activeCount, spawnQueue, slots, record, saved, reported,
              restarts, faults>>

TaskStage    == {"none", "waiting", "creating", "starting", "live", "over"}
TaskTerminal == {"completed", "failed", "aborted", "timeout"}
TaskStatus   == {"accepted", "started"} \cup TaskTerminal
TaskRecord   == [status : TaskStatus, delivery : {"none", "pending", "delivered"},
                 phases : SUBSET TaskTerminal]
NoRecord     == [status |-> "none", delivery |-> "none", phases |-> {}]

Known(r)     == r # NoRecord
Ended(r)     == r.status \in TaskTerminal
Open(r)      == Known(r) /\ ~Ended(r)
\* DetachedRunRecord.announced
Announced(r) == r.phases # {}
Faulty       == faults < MaxFaults /\ faults' = faults + 1
Sound        == UNCHANGED faults

TasksInit ==
  /\ taskAt = [t \in Tasks |-> "none"]
  /\ activeCount = [p \in Parents |-> 0]
  /\ spawnQueue = [p \in Parents |-> <<>>]
  /\ slots = {} /\ reported = {}
  /\ record = [t \in Tasks |-> NoRecord]
  /\ saved = record
  /\ restarts = 0 /\ faults = 0

---------------------------------------------------------------------------
(* The registry.  persist() writes all records.                            *)

Accepted    == [status |-> "accepted", delivery |-> "none", phases |-> {}]
Persist     == saved' = record'
\* setTerminal up to its persist(): the announcement is pending.
Pending(r, e)   == [r EXCEPT !.status = e, !.delivery = "pending"]
\* triggerAnnounce of a subagent: delivered, without a delivery.
Delivered(r, e) == [r EXCEPT !.status = e, !.delivery = "delivered",
                             !.phases = @ \cup {e}]

\* Variant: the record keeps its terminal status when the write fails.
TerminalThrowsNoRollback(t, e) ==
  /\ Known(record[t]) /\ e \notin record[t].phases
  /\ Faulty
  /\ record' = [record EXCEPT ![t].status = e]
  /\ UNCHANGED saved

\* setTerminal returns: nothing is done to a missing record, or twice for one
\* status.  Another terminal status is no reason to return early.
TerminalSet(t, e) ==
  /\ record' = IF Known(record[t]) /\ e \notin record[t].phases
               THEN [record EXCEPT ![t] = Delivered(@, e)] ELSE record
  /\ IF record' = record THEN UNCHANGED saved ELSE Persist
  /\ Sound

\* setTerminal throws: at its first write, and all is rolled back; or at a
\* write of the announcement, and what was done stays done.
TerminalThrows(t, e) ==
  /\ Known(record[t]) /\ e \notin record[t].phases
  /\ Faulty
  /\ \/ UNCHANGED <<record, saved>>
     \/ /\ record' = [record EXCEPT ![t] = [Pending(@, e) EXCEPT !.delivery = "delivered"]]
        /\ saved'  = [record EXCEPT ![t] = Pending(@, e)]

\* Variant: also a record that has ended is ended.
ReconciledAgain(r, runs, e) == IF Known(r) /\ ~runs THEN Delivered(r, e) ELSE r

\* reconcileOrphanedRuns for one record: a pending announcement is repeated,
\* an open record without a run is ended.
Reconciled(r, runs, e) ==
  IF Ended(r) /\ ~Announced(r) /\ r.delivery # "delivered" THEN Delivered(r, r.status)
  ELSE IF Open(r) /\ ~Announced(r) /\ ~runs THEN Delivered(r, e)
  ELSE r

---------------------------------------------------------------------------
(* The slots of a parent.                                                  *)

StartsNext(q) == {i \in 1..Len(q) : q[i] \notin Refused
                                      /\ \A j \in 1..(i - 1) : q[j] \in Refused}

\* Variant: the slot is given back, nobody waiting is called.
SlotFreedNoDrain(t) ==
  /\ activeCount' = [activeCount EXCEPT ![ParentOf[t]] = @ - 1]
  /\ taskAt' = [taskAt EXCEPT ![t] = "over"]
  /\ UNCHANGED spawnQueue

\* onSubagentTerminated, for the task t: decActive and drainSpawnQueue, where
\* a waiting spawn that is refused gives its slot to the next at once.
SlotFreed(t) ==
  LET p == ParentOf[t]
      q == spawnQueue[p]
      gone(i) == {x \in Tasks : x = t \/ \E j \in 1..(i - 1) : q[j] = x} IN
  \/ \E i \in StartsNext(q) :
       /\ taskAt' = [x \in Tasks |-> IF x = q[i] THEN "creating"
                                     ELSE IF x \in gone(i) THEN "over" ELSE taskAt[x]]
       /\ spawnQueue' = [spawnQueue EXCEPT ![p] = SubSeq(q, i + 1, Len(q))]
       /\ UNCHANGED activeCount
  \/ /\ StartsNext(q) = {}
     /\ taskAt' = [x \in Tasks |-> IF x \in gone(Len(q) + 1) THEN "over" ELSE taskAt[x]]
     /\ spawnQueue' = [spawnQueue EXCEPT ![p] = <<>>]
     /\ activeCount' = [activeCount EXCEPT ![p] = @ - 1]

\* Variant: the limit is read after the spawn was counted.
SpawnOverLimit(t) ==
  LET p == ParentOf[t] IN
  /\ taskAt[t] = "none" /\ t \notin Refused
  /\ activeCount[p] <= MaxConcurrent
  /\ taskAt' = [taskAt EXCEPT ![t] = "creating"]
  /\ activeCount' = [activeCount EXCEPT ![p] = @ + 1]
  /\ UNCHANGED <<spawnQueue, slots, record, saved, reported, restarts, faults>>

\* spawn, and doSpawn up to its first await.
Spawn(t) ==
  LET p == ParentOf[t] IN
  /\ taskAt[t] = "none"
  /\ \/ /\ activeCount[p] >= MaxConcurrent
        /\ taskAt' = [taskAt EXCEPT ![t] = "waiting"]
        /\ spawnQueue' = [spawnQueue EXCEPT ![p] = Append(@, t)]
        /\ UNCHANGED activeCount
     \/ /\ activeCount[p] < MaxConcurrent /\ t \notin Refused
        /\ taskAt' = [taskAt EXCEPT ![t] = "creating"]
        /\ activeCount' = [activeCount EXCEPT ![p] = @ + 1]
        /\ UNCHANGED spawnQueue
     \/ /\ activeCount[p] < MaxConcurrent /\ t \in Refused
        /\ taskAt' = [taskAt EXCEPT ![t] = "over"]
        /\ UNCHANGED <<activeCount, spawnQueue>>
  /\ UNCHANGED <<slots, record, saved, reported, restarts, faults>>

\* spawnSubAgent after the child session was awaited: registered, or not
\* accepted; a failed write leaves the record in memory.
Create(t) ==
  /\ taskAt[t] = "creating"
  /\ \/ /\ record' = [record EXCEPT ![t] = Accepted]
        /\ Persist /\ Sound
        /\ slots' = slots \cup {t}
        /\ taskAt' = [taskAt EXCEPT ![t] = "starting"]
        /\ UNCHANGED <<activeCount, spawnQueue>>
     \/ SlotFreed(t) /\ Sound /\ UNCHANGED <<slots, record, saved>>
     \/ /\ Faulty
        /\ record' = [record EXCEPT ![t] = Accepted]
        /\ SlotFreed(t)
        /\ UNCHANGED <<slots, saved>>
  /\ UNCHANGED <<reported, restarts>>

\* sessions_spawn registers a run, and nobody starts it.
SpawnUnstarted(t) ==
  /\ taskAt[t] = "none" /\ t \in Unstarted
  /\ record' = [record EXCEPT ![t] = Accepted]
  /\ Persist
  /\ taskAt' = [taskAt EXCEPT ![t] = "over"]
  /\ UNCHANGED <<activeCount, spawnQueue, slots, reported, restarts, faults>>

\* The agent of the child session is not available: the catch block.
StartFails(t) ==
  /\ taskAt[t] = "starting"
  /\ slots' = slots \ {t}
  /\ \/ TerminalSet(t, "failed") /\ SlotFreed(t)
     \/ /\ TerminalThrows(t, "failed")
        /\ taskAt' = [taskAt EXCEPT ![t] = "over"]
        /\ UNCHANGED <<activeCount, spawnQueue>>
  /\ UNCHANGED <<reported, restarts>>

\* createRun, and onAccepted: markStarted, if the record allows it.  When its
\* write fails the memory has changed, and the run is about to end as failed.
Start(t) ==
  /\ taskAt[t] = "starting"
  /\ taskAt' = [taskAt EXCEPT ![t] = "live"]
  /\ record' = [record EXCEPT ![t].status = IF @ = "accepted" THEN "started" ELSE @]
  /\ \/ Open(record[t]) /\ Persist /\ Sound
     \/ Open(record[t]) /\ Faulty /\ UNCHANGED saved
     \/ ~Open(record[t]) /\ Sound /\ UNCHANGED saved
  /\ UNCHANGED <<activeCount, spawnQueue, slots, reported, restarts>>

---------------------------------------------------------------------------
(* The end of a run: its onTerminal callback.                              *)

\* runtime_queue declares inbound_json NOT NULL; enqueueEvent inserts NULL.
Insertable(row) == row.inbound # "NULL"
ResultRow(t)    == [task |-> t, inbound |-> "NULL"]

Finish(t, e) ==
  /\ taskAt[t] = "live"
  /\ \/ /\ TerminalSet(t, e)
        /\ SlotFreed(t)
        /\ slots' = slots \ {t}
        /\ reported' = IF Insertable(ResultRow(t)) THEN reported \cup {t} ELSE reported
     \/ /\ TerminalThrows(t, e)
        /\ taskAt' = [taskAt EXCEPT ![t] = "over"]
        /\ UNCHANGED <<activeCount, spawnQueue, slots, reported>>
  /\ UNCHANGED restarts

\* stop: a live run is aborted, anything else is taken for an orphan.
Stop(t) ==
  /\ Open(record[t])
  /\ \/ Finish(t, "aborted")
     \/ /\ taskAt[t] # "live"
        /\ TerminalSet(t, "aborted") \/ TerminalThrows(t, "aborted")
        /\ UNCHANGED <<taskAt, activeCount, spawnQueue, slots, reported, restarts>>

\* clean, and the sweeper for a record that is old enough.
Forget(gone) ==
  /\ gone # {} /\ \A t \in gone : Ended(record[t])
  /\ record' = [t \in Tasks |-> IF t \in gone THEN NoRecord ELSE record[t]]
  /\ Persist
  /\ UNCHANGED <<taskAt, activeCount, spawnQueue, slots, reported, restarts, faults>>

Clean(p) == Forget({t \in Tasks : ParentOf[t] = p /\ Ended(record[t])})
Sweep(t) == Announced(record[t]) /\ Forget({t})

Reconcile(p) ==
  /\ record' = [t \in Tasks |->
                 IF ParentOf[t] = p
                 THEN Reconciled(record[t], taskAt[t] = "live", "aborted") ELSE record[t]]
  /\ record' # record
  /\ Persist
  /\ UNCHANGED <<taskAt, activeCount, spawnQueue, slots, reported, restarts, faults>>

\* What a process that dies leaves on the disk: the last complete write, the
\* first of the two writes that end a task, or a torn file.
Ending ==
  {te \in Tasks \X TaskTerminal :
     /\ Known(record[te[1]]) /\ te[2] \notin record[te[1]].phases
     /\ \/ taskAt[te[1]] = "live"
        \/ taskAt[te[1]] = "starting" /\ te[2] = "failed"
        \/ Open(record[te[1]]) /\ te[2] = "aborted"}

OnDisk ==
  {saved, [t \in Tasks |-> NoRecord]}
  \cup {[record EXCEPT ![te[1]] = Pending(@, te[2])] : te \in Ending}

\* The host starts again: restore and, before messages are taken,
\* reconcileOrphanedRuns.  Waiting spawns, slots and runs are gone.
Restart ==
  /\ restarts < MaxRestarts
  /\ restarts' = restarts + 1
  /\ \E disk \in OnDisk :
       record' = [t \in Tasks |-> Reconciled(disk[t], FALSE, "failed")]
  /\ Persist
  /\ taskAt' = [t \in Tasks |-> IF taskAt[t] = "none" THEN "none" ELSE "over"]
  /\ activeCount' = [p \in Parents |-> 0]
  /\ spawnQueue' = [p \in Parents |-> <<>>]
  /\ slots' = {}
  /\ UNCHANGED <<reported, faults>>

---------------------------------------------------------------------------
TasksNext ==
  \/ \E t \in Tasks :
       \/ Spawn(t)
       \/ SpawnUnstarted(t)
       \/ Create(t)
       \/ StartFails(t)
       \/ Start(t)
       \/ \E e \in TaskTerminal : Finish(t, e)
       \/ Stop(t)
       \/ Sweep(t)
  \/ \E p \in Parents : Clean(p) \/ Reconcile(p)
  \/ Restart

TasksSpec == TasksInit /\ [][TasksNext]_taskVars

\* The awaits of a spawn settle; a run has a timeout (300 seconds if none is
\* given), so it ends.
TasksFairness ==
  \A t \in Tasks :
    /\ WF_taskVars(Create(t))
    /\ WF_taskVars(StartFails(t) \/ Start(t))
    /\ WF_taskVars(\E e \in TaskTerminal : Finish(t, e))

---------------------------------------------------------------------------
(* Properties.                                                             *)

TasksTypeOK ==
  /\ taskAt \in [Tasks -> TaskStage]
  /\ activeCount \in [Parents -> Nat]
  /\ spawnQueue \in [Parents -> Seq(Tasks)]
  /\ slots \subseteq Tasks /\ reported \subseteq Tasks
  /\ record \in [Tasks -> TaskRecord \cup {NoRecord}]
  /\ saved \in [Tasks -> TaskRecord \cup {NoRecord}]
  /\ restarts \in 0..MaxRestarts /\ faults \in 0..MaxFaults

Holding(p) == {t \in Tasks : ParentOf[t] = p /\ taskAt[t] \in {"creating", "starting", "live"}}

\* The counter of a parent is never exceeded by what runs for it, never above
\* the limit, and (as long as every write succeeded) exactly the number of its
\* tasks under way: no order of refused, failed, stopped and finished spawns
\* leaks a slot or gives one back twice.  Nobody waits while a slot is free.
SlotsHeld ==
  \A p \in Parents :
    /\ Cardinality(Holding(p)) <= activeCount[p] /\ activeCount[p] <= MaxConcurrent
    /\ faults = 0 => activeCount[p] = Cardinality(Holding(p))
    /\ spawnQueue[p] # <<>> => activeCount[p] = MaxConcurrent

\* No task disappears.  validateNoBlackHoleTasks, of the memory and of the
\* file: what has ended was delivered or is still to be delivered, and then a
\* restart finds it.  And a record stays open only while its task is on its way
\* or executing: no end, stop, reconciliation or restart leaves one behind that
\* nobody will close.  (Tasks of sessions_spawn have nobody; so has a task whose
\* last write failed.)
NoBlackHole ==
  \A t \in Tasks :
    /\ Ended(record[t]) => record[t].delivery # "none"
    /\ Ended(saved[t]) => saved[t].delivery # "none"
    /\ Open(record[t]) /\ t \notin Unstarted /\ faults = 0
         => taskAt[t] \in {"starting", "live"}

\* The outcome of a task is not changed once its run is over, whoever stops,
\* reconciles or restarts it afterwards.
OutcomeKept ==
  [][\A t \in Tasks :
       Ended(record[t]) /\ Known(record'[t]) /\ record'[t].status # record[t].status
       => taskAt[t] \in {"starting", "live"}]_taskVars

\* A spawn that waits for a slot is served: the runs before it end, and each
\* gives its slot on, unless the end of one could not be written.
SpawnsServed ==
  \A t \in Tasks : taskAt[t] = "waiting" ~> (taskAt[t] # "waiting" \/ faults > 0)

\* What the comment of triggerAnnounce says: a task marked delivered is handled
\* by its subagent_result event.  So the step that ends a run and marks its
\* record delivered puts the event into the queue of the parent.
DeliveredIsReported ==
  [][\A t \in Tasks :
       /\ taskAt[t] = "live" /\ taskAt'[t] = "over" /\ restarts' = restarts
       /\ record'[t].delivery = "delivered" /\ faults' = faults
       => t \in reported']_taskVars
===========================================================================
