------------------------ MODULE RuntimeKernelProofs ------------------------
(***************************************************************************)
(* What holds of the kernel for every set of messages, continuations and   *)
(* sessions, every configuration, and any number of crashes:               *)
(*                                                                         *)
(*   - its steps are statements of the queue or leave the table alone, so  *)
(*     that all that is proved of QueueSpec holds of the kernel;           *)
(*   - LaneDiscipline and RunningIsOwned are invariants, OldestFirst is an *)
(*     action property;                                                    *)
(*   - it implements the abstract queue SessionLanes.                      *)
(*                                                                         *)
(* The kernel has some thirty actions, but lanes and rows tell only five   *)
(* kinds of step apart (StepKinds): a claim, a release, a crash, a start,  *)
(* and a Segment, which keeps every lane and starts no row.                *)
(***************************************************************************)
EXTENDS RuntimeKernel, RuntimeQueueProofs

---------------------------------------------------------------------------
(* The kernel uses the queue.                                              *)

LEMMA SurplusOfSession ==
  ASSUME NEW s, NEW D \in Surplus(s)
  PROVE  D \in SUBSET Items /\ \A i \in D : SessionOf[i] = s
<1>1. D = {} \/ D \in SUBSET Pending(s)
  BY DEF Surplus
<1> QED
  BY <1>1 DEF Pending

LEMMA FailIsStatement ==
  ASSUME NEW i \in Items, NEW retryable, Fail(i, retryable)
  PROVE  QueueNext
BY DEF Fail, QueueNext, Statement

LEMMA SettleIsStatement ==
  ASSUME NEW i \in Items, NEW t, Settle(i, t)
  PROVE  QueueNext
BY FailIsStatement DEF Settle, QueueNext, Statement

LEMMA OfferIsStatement ==
  ASSUME NEW m \in Messages, Offer(m)
  PROVE  [QueueNext]_queueVars
<1>1. m \in Items /\ StampOf[m] \in 1..MaxStamp
  BY KernelAssumption
<1>2. (mode # "collect" \/ CollectWindow = 0) \in BOOLEAN
  OBVIOUS
<1> QED
  BY <1>1, <1>2 DEF Offer, QueueNext, Statement

LEMMA ReceiveIsStatement ==
  ASSUME NEW m \in Messages, Receive(m)
  PROVE  [QueueNext]_queueVars
<1>1. SessionOf[m] \in Sessions /\ m \in Items
  BY KernelAssumption, QueueAssumption
<1>2. CASE ReceiveStop(m) \/ ReceivePreempting(m) \/ ReceiveInterrupting(m)
  BY <1>1, <1>2 DEF ReceiveStop, ReceivePreempting, ReceiveInterrupting, QueueNext, Statement
<1>3. CASE ReceiveInjected(m)
  BY <1>3 DEF ReceiveInjected
<1>4. CASE ReceiveCollected(m)
  <2>1. Collects(m) \subseteq Items
    BY DEF Collects, LatestQueued
  <2> QED
    BY <1>4, <2>1 DEF ReceiveCollected, QueueNext, Statement
<1>5. CASE ReceiveQueued(m)
  BY <1>5, OfferIsStatement DEF ReceiveQueued
<1> QED
  BY <1>2, <1>3, <1>4, <1>5 DEF Receive

LEMMA AdmitIsStatement ==
  ASSUME NEW m \in Messages, Admit(m)
  PROVE  [QueueNext]_queueVars
<1>1. CASE Decided(m)
  BY <1>1, OfferIsStatement DEF Decided
<1>2. CASE Enqueued(m) \/ Collected(m)
  <2>1. PICK D \in Surplus(SessionOf[m]) : MarkInterruptedByIds(D)
    BY <1>2 DEF Enqueued, Collected
  <2> QED
    BY <2>1, SurplusOfSession DEF QueueNext, Statement
<1>3. CASE EnqueueFails(m)
  BY <1>3 DEF EnqueueFails
<1> QED
  BY <1>1, <1>2, <1>3 DEF Admit

LEMMA ItemIsStatement ==
  ASSUME NEW i \in Items, ItemStep(i)
  PROVE  [QueueNext]_queueVars
<1>1. CASE PumpClaim(i)
  BY <1>1 DEF PumpClaim, QueueNext, Statement
<1>2. CASE Refuse(i) \/ LaunchFails(i)
  BY <1>2, FailIsStatement DEF Refuse, LaunchFails
<1>3. CASE Launch(i) \/ JobBegin(i) \/ Consume(i) \/ Conclude(i) \/ Release(i)
  BY <1>3 DEF Launch, JobBegin, Consume, Conclude, Release
<1>4. CASE OnTerminal(i)
  BY <1>4, SettleIsStatement DEF OnTerminal
<1>5. ASSUME NEW c \in Conts, EnqueueContinuation(i, c) PROVE [QueueNext]_queueVars
  <2>1. c \in Items /\ StampOf[c] \in 1..MaxStamp
    BY KernelAssumption
  <2> QED
    BY <1>5, <2>1 DEF EnqueueContinuation, QueueNext, Statement
<1> QED
  BY <1>1, <1>2, <1>3, <1>4, <1>5 DEF ItemStep

LEMMA EveryStepIsStatement ==
  ASSUME KernelNext
  PROVE  [QueueNext]_queueVars
<1>1. ASSUME NEW m \in Messages, InterruptEnds(m) PROVE [QueueNext]_queueVars
  BY <1>1 DEF InterruptEnds, Hosted
<1>2. ASSUME NEW i \in Items, TurnMoves(i) \/ TurnEnds(i) PROVE [QueueNext]_queueVars
  BY <1>2 DEF TurnMoves, TurnEnds, Hosted
<1>3. ASSUME NEW i \in Items, NEW t, JobEnd(i, t) PROVE [QueueNext]_queueVars
  BY <1>3, SettleIsStatement DEF JobEnd
<1>4. ASSUME NEW i \in Items, NEW c \in Conts, ScheduleContinuation(i, c)
      PROVE  [QueueNext]_queueVars
  BY <1>4 DEF ScheduleContinuation
<1>5. ASSUME NEW i \in Items, TimePasses(i) PROVE [QueueNext]_queueVars
  BY <1>5 DEF TimePasses, QueueNext
<1>6. CASE PollTick \/ PumpBegin \/ PumpEnd \/ Stop \/ Reconfigure \/ Crash
  BY <1>6 DEF PollTick, PumpBegin, PumpEnd, Stop, Reconfigure, Crash
<1>7. CASE Start
  BY <1>7 DEF Start, QueueNext, Statement
<1> QED
  BY <1>1, <1>2, <1>3, <1>4, <1>5, <1>6, <1>7,
     ReceiveIsStatement, AdmitIsStatement, ItemIsStatement DEF KernelNext

\* Whatever the kernel does, it does by statements of the queue.
THEOREM KernelUsesQueue == KernelSpec => QueueSpec
<1>1. KernelInit => QueueInit
  BY DEF KernelInit
<1>2. [KernelNext]_vars => [QueueNext]_queueVars
  BY EveryStepIsStatement DEF vars, queueVars
<1> QED
  BY <1>1, <1>2, PTL DEF KernelSpec, QueueSpec

\* What is proved of the queue under any callers holds of the kernel's table:
\* it is well typed, with no row retried more than MaxAttempts times, no two
\* rows share an id or a dedup key, and a row that ended stays ended.
THEOREM KernelRows == KernelSpec => [](QueueTypeOK /\ UniqueRows) /\ RowLifecycle
BY KernelUsesQueue, QueueTypes, RowsUnique, RowsLive, PTL

---------------------------------------------------------------------------
(* What a step does to the status column, apart from a claim.              *)

Appears(i)     == status[i] = "absent" /\ status' = [status EXCEPT ![i] = "queued"]
Settled(i, to) == status[i] = "running" /\ status' = [status EXCEPT ![i] = to]
Dropped(ids)   ==
  /\ \A i \in ids : status[i] \in Live
  /\ \A i, j \in ids : SessionOf[i] = SessionOf[j]
  /\ status' = [i \in Items |-> IF i \in ids THEN "interrupted" ELSE status[i]]

\* What the admission of messages does: rows are added or given up.
Admission ==
  \/ UNCHANGED status
  \/ \E i \in Items : Appears(i)
  \/ \E ids \in SUBSET Items : Dropped(ids)

Effect ==
  \/ Admission
  \/ \E i \in Items, to \in Terminal \cup {"retrying"} : Settled(i, to)

\* Such a step starts no row.
LEMMA EffectStartsNone ==
  ASSUME QueueTypeOK, Effect, NEW i \in Items, status'[i] = "running"
  PROVE  status[i] = "running"
BY DEF QueueTypeOK, Effect, Admission, Appears, Settled, Dropped, Terminal

LEMMA InsertEffect ==
  ASSUME QueueTypeOK, NEW i \in Items, NEW t, NEW available, Insert(i, t, available)
  PROVE  Admission
<1>1. status[i] = "absent"
  BY DEF Insert, Duplicate, Conflict, Present
<1> QED
  BY <1>1 DEF Insert, Admission, Appears

\* An UPDATE of one row WHERE status = 'running'.
LEMMA UpdateEffect ==
  ASSUME QueueTypeOK, NEW i \in Items,
         NEW to \in Terminal \cup {"retrying"},
         status' = [status EXCEPT ![i] = IF status[i] = "running" THEN to ELSE @]
  PROVE  Effect /\ status'[i] # "running"
<1>1. CASE status[i] = "running"
  BY <1>1 DEF Effect, Settled, QueueTypeOK, Terminal
<1>2. CASE status[i] # "running"
  BY <1>2 DEF Effect, Admission, QueueTypeOK
<1> QED
  BY <1>1, <1>2

LEMMA MarkIfRunningEffect ==
  ASSUME QueueTypeOK, NEW i \in Items,
         \/ MarkCompletedIfRunning(i) \/ MarkFailedIfRunning(i)
         \/ MarkInterruptedIfRunning(i) \/ MarkRetryingIfRunning(i)
  PROVE  Effect /\ status'[i] # "running"
<1>1. PICK to \in Terminal \cup {"retrying"} :
        status' = [status EXCEPT ![i] = IF status[i] = "running" THEN to ELSE @]
  BY DEF QueueTypeOK, MarkCompletedIfRunning, MarkFailedIfRunning, MarkInterruptedIfRunning,
         MarkRetryingIfRunning, SetStatusWhere, Terminal
<1> QED
  BY <1>1, UpdateEffect

\* Giving up rows of one session.
LEMMA GiveUpEffect ==
  ASSUME QueueTypeOK, NEW s, NEW ids \in SUBSET Items, \A i \in ids : SessionOf[i] = s,
         SetStatusWhere(ids, Live, "interrupted")
  PROVE  Admission
<1> DEFINE hit == {i \in ids : status[i] \in Live}
<1>1. status' = [i \in Items |-> IF i \in hit THEN "interrupted" ELSE status[i]]
  BY DEF SetStatusWhere
<1>2. hit \in SUBSET Items /\ Dropped(hit)
  BY <1>1 DEF Dropped
<1> QED
  BY <1>2 DEF Admission

---------------------------------------------------------------------------
(* The kinds of step.                                                      *)

\* The invariant: the table is typed, lanes and rows are owned, and the pump
\* loop executes only in a process that is up.
KernelInv ==
  /\ QueueTypeOK
  /\ proc \in [Items -> ProcState]
  /\ up \in BOOLEAN
  /\ pumping => up
  /\ LaneDiscipline
  /\ RunningIsOwned

\* Item i is processed further, and is no longer running once out of hand.
Advances(i) ==
  /\ proc[i] # "idle"
  /\ \E to \in ProcState \ {"idle"} : proc' = [proc EXCEPT ![i] = to]
  /\ status'[i] = "running" => InHand(i)'

\* A segment that takes and frees no lane.
Segment ==
  /\ UNCHANGED <<lanes, up>>
  /\ Effect
  /\ up \/ UNCHANGED status
  /\ UNCHANGED proc \/ \E i \in Items : Advances(i)
  /\ pumping' => up

LEMMA FailEffect ==
  ASSUME QueueTypeOK, NEW i \in Items, NEW retryable, Fail(i, retryable)
  PROVE  Effect /\ status'[i] # "running"
BY MarkIfRunningEffect DEF Fail

LEMMA SettleEffect ==
  ASSUME QueueTypeOK, proc \in [Items -> ProcState], NEW i \in Items, NEW t,
         Settle(i, t), proc[i] # "idle"
  PROVE  Effect /\ Advances(i)
<1>1. Effect /\ status'[i] # "running"
  BY MarkIfRunningEffect, FailEffect DEF Settle
<1>2. \E to \in ProcState \ {"idle"} : proc' = [proc EXCEPT ![i] = to]
  BY DEF Settle, Step, ProcState
<1> QED
  BY <1>1, <1>2 DEF Advances

LEMMA OfferEffect ==
  ASSUME QueueTypeOK, NEW m \in Messages, Offer(m)
  PROVE  Admission
<1>1. m \in Items
  BY KernelAssumption
<1>2. CASE UNCHANGED queueVars
  BY <1>2 DEF queueVars, Admission
<1> QED
  BY <1>1, <1>2, InsertEffect DEF Offer

LEMMA ReceiveKind ==
  ASSUME KernelInv, NEW m \in Messages, Receive(m)
  PROVE  Segment /\ Admission /\ UNCHANGED proc
<1> USE DEF KernelInv
<1>1. up /\ Quiet /\ m \in Items
  BY KernelAssumption DEF Receive, ReceiveStop, ReceivePreempting, ReceiveInterrupting,
     ReceiveInjected, ReceiveCollected, ReceiveQueued, Arrive, Quiet
<1>2. UNCHANGED <<lanes, up, proc, pumping>>
  BY DEF Receive, ReceiveStop, ReceivePreempting, ReceiveInterrupting, ReceiveInjected,
     ReceiveCollected, ReceiveQueued, pumpVars, lifeVars
<1>3. Admission
  <2>1. CASE MarkInterruptedBySession(SessionOf[m])
    <3>1. {i \in Items : SessionOf[i] = SessionOf[m]} \in SUBSET Items
      OBVIOUS
    <3> QED
      BY <2>1, <3>1, GiveUpEffect DEF MarkInterruptedBySession
  <2>2. CASE ReceiveStop(m) \/ ReceivePreempting(m) \/ ReceiveInterrupting(m)
    BY <2>1, <2>2 DEF ReceiveStop, ReceivePreempting, ReceiveInterrupting
  <2>3. CASE ReceiveInjected(m)
    BY <2>3 DEF ReceiveInjected, queueVars, Admission
  <2>4. CASE ReceiveCollected(m)
    BY <2>4 DEF ReceiveCollected, MergeQueued, Admission
  <2>5. CASE ReceiveQueued(m)
    BY <2>5, OfferEffect DEF ReceiveQueued, queueVars, Admission
  <2> QED
    BY <2>2, <2>3, <2>4, <2>5 DEF Receive
<1> QED
  BY <1>1, <1>2, <1>3 DEF Segment, Effect

LEMMA AdmitKind ==
  ASSUME KernelInv, NEW m \in Messages, Admit(m)
  PROVE  Segment /\ Admission /\ UNCHANGED proc
<1> USE DEF KernelInv
<1>1. up /\ UNCHANGED <<lanes, up, proc, pumping>>
  BY DEF Admit, Decided, Enqueued, Collected, EnqueueFails, Quiet, pumpVars, lifeVars
<1>2. Admission
  <2>1. CASE Decided(m)
    BY <2>1, OfferEffect DEF Decided
  <2>2. CASE Enqueued(m) \/ Collected(m)
    <3>1. PICK D \in Surplus(SessionOf[m]) : MarkInterruptedByIds(D)
      BY <2>2 DEF Enqueued, Collected
    <3>2. D \in SUBSET Items /\ \A i \in D : SessionOf[i] = SessionOf[m]
      BY SurplusOfSession
    <3> QED
      BY <3>1, <3>2, GiveUpEffect DEF MarkInterruptedByIds
  <2>3. CASE EnqueueFails(m)
    BY <2>3 DEF EnqueueFails, queueVars, Admission
  <2> QED
    BY <2>1, <2>2, <2>3 DEF Admit
<1> QED
  BY <1>1, <1>2 DEF Segment, Effect

LEMMA ItemKind ==
  ASSUME KernelInv, NEW i \in Items, ItemStep(i)
  PROVE  Segment \/ PumpClaim(i) \/ Release(i)
<1> USE DEF KernelInv
<1>1. CASE Refuse(i) \/ LaunchFails(i)
  <2>1. up /\ UNCHANGED <<lanes, up, pumping>> /\ proc[i] # "idle"
    BY <1>1 DEF Refuse, LaunchFails, Quiet, lifeVars
  <2>2. Effect /\ status'[i] # "running"
    BY <1>1, FailEffect DEF Refuse, LaunchFails
  <2>3. Advances(i)
    BY <1>1, <2>1, <2>2 DEF Refuse, LaunchFails, Step, Advances, ProcState
  <2> QED
    BY <2>1, <2>2, <2>3 DEF Segment
<1>2. CASE Launch(i)
  <2>1. up /\ UNCHANGED <<lanes, up, pumping, status>>
    BY <1>2 DEF Launch, Quiet, lifeVars, pumpVars, queueVars
  <2>2. Advances(i)
    BY <1>2, <2>1 DEF Launch, Step, Advances, ProcState, InHand
  <2> QED
    BY <2>1, <2>2 DEF Segment, Effect, Admission
<1>3. CASE JobBegin(i)
  BY <1>3 DEF JobBegin, Quiet, lifeVars, pumpVars, queueVars, Segment, Effect, Admission
<1>4. CASE OnTerminal(i)
  <2>1. up /\ UNCHANGED <<lanes, up, pumping>> /\ proc[i] # "idle"
    BY <1>4 DEF OnTerminal, Quiet, lifeVars
  <2>2. Effect /\ Advances(i)
    BY <1>4, <2>1, SettleEffect DEF OnTerminal
  <2> QED
    BY <2>1, <2>2 DEF Segment
<1>5. CASE Consume(i) \/ Conclude(i)
  <2>1. up /\ UNCHANGED <<lanes, up, pumping, status>>
    BY <1>5 DEF Consume, Conclude, Quiet, lifeVars, pumpVars, queueVars
  <2>2. proc[i] \in {"completed", "continuing"}
    BY <1>5 DEF Consume, Conclude
  <2>3. status[i] # "running"
    BY <2>1, <2>2 DEF RunningIsOwned, InHand
  <2>4. Advances(i)
    BY <1>5, <2>1, <2>2, <2>3 DEF Consume, Conclude, Step, Advances, ProcState
  <2> QED
    BY <2>1, <2>4 DEF Segment, Effect, Admission
<1>6. ASSUME NEW c \in Conts, EnqueueContinuation(i, c) PROVE Segment
  <2>1. c \in Items
    BY KernelAssumption
  <2>2. Admission
    BY <1>6, <2>1, InsertEffect DEF EnqueueContinuation
  <2> QED
    BY <1>6, <2>2 DEF EnqueueContinuation, Quiet, lifeVars, Segment, Effect
<1> QED
  BY <1>1, <1>2, <1>3, <1>4, <1>5, <1>6 DEF ItemStep

LEMMA HostKind ==
  ASSUME KernelInv,
         \/ \E m \in Messages : InterruptEnds(m)
         \/ \E i \in Items : \/ TurnMoves(i) \/ TurnEnds(i) \/ TimePasses(i)
                             \/ \E c \in Conts : ScheduleContinuation(i, c)
         \/ PollTick \/ PumpBegin \/ PumpEnd \/ Stop \/ Reconfigure
  PROVE  Segment
<1>1. UNCHANGED <<lanes, up, proc, status>>
  BY DEF InterruptEnds, TurnMoves, TurnEnds, Hosted, TimePasses, BecomeDue, ScheduleContinuation,
         PollTick, PumpBegin, PumpEnd, Stop, Reconfigure, pumpVars, lifeVars, queueVars
<1>2. pumping' => up
  BY DEF KernelInv, InterruptEnds, TurnMoves, TurnEnds, Hosted, TimePasses, ScheduleContinuation,
         PollTick, PumpBegin, PumpEnd, Stop, Reconfigure, pumpVars, Quiet
<1> QED
  BY <1>1, <1>2 DEF Segment, Effect, Admission

LEMMA JobEndKind ==
  ASSUME KernelInv, NEW i \in Items, NEW t, JobEnd(i, t)
  PROVE  Segment
<1>1. up /\ UNCHANGED <<lanes, up, pumping>> /\ proc[i] # "idle"
  BY DEF JobEnd, Quiet, lifeVars
<1>2. Effect /\ Advances(i)
  BY <1>1, SettleEffect DEF JobEnd, KernelInv
<1> QED
  BY <1>1, <1>2 DEF Segment, KernelInv

LEMMA StepKinds ==
  ASSUME KernelInv, KernelNext
  PROVE  \/ Segment
         \/ \E i \in Items : PumpClaim(i)
         \/ \E i \in Items : Release(i)
         \/ Crash
         \/ Start
BY ReceiveKind, AdmitKind, ItemKind, HostKind, JobEndKind DEF KernelNext

---------------------------------------------------------------------------
(* The invariant.                                                          *)

LEMMA KernelInitInv == KernelInit => KernelInv
<1> SUFFICES ASSUME KernelInit PROVE KernelInv
  OBVIOUS
<1>1. QueueTypeOK
  BY QueueInitInv DEF KernelInit, QueueInv
<1> QED
  BY <1>1 DEF KernelInit, KernelInv, QueueInit, LaneDiscipline, RunningIsOwned, Busy, ProcState

LEMMA SegmentInv ==
  ASSUME KernelInv, QueueTypeOK', Segment
  PROVE  KernelInv'
<1> USE DEF KernelInv
<1>1. CASE UNCHANGED proc
  <2>1. LaneDiscipline'
    BY <1>1 DEF Segment, LaneDiscipline, Busy
  <2>2. RunningIsOwned'
    BY <1>1, EffectStartsNone DEF Segment, RunningIsOwned, InHand
  <2> QED
    BY <1>1, <2>1, <2>2 DEF Segment
<1>2. ASSUME NEW i \in Items, Advances(i) PROVE KernelInv'
  <2>1. PICK to \in ProcState \ {"idle"} : proc' = [proc EXCEPT ![i] = to]
    BY <1>2 DEF Advances
  <2>2. proc' \in [Items -> ProcState] /\ Busy' = Busy
    BY <1>2, <2>1 DEF Advances, Busy
  <2>3. LaneDiscipline'
    BY <2>2 DEF Segment, LaneDiscipline
  <2>4. RunningIsOwned'
    <3> SUFFICES ASSUME up', NEW j \in Items, status'[j] = "running" PROVE InHand(j)'
      BY DEF RunningIsOwned
    <3>1. CASE j = i
      BY <1>2, <3>1 DEF Advances
    <3>2. CASE j # i
      BY <2>1, <3>2, EffectStartsNone DEF Segment, RunningIsOwned, InHand
    <3> QED
      BY <3>1, <3>2
  <2> QED
    BY <2>2, <2>3, <2>4 DEF Segment
<1> QED
  BY <1>1, <1>2 DEF Segment

\* A claimed row is the eldest of its session among those that are due.
LEMMA ClaimedIsOldest ==
  ASSUME NEW i \in Items, PumpClaim(i)
  PROVE  /\ SessionOf[i] \notin lanes
         /\ \A j \in Items : SessionOf[j] = SessionOf[i] /\ Runnable(j) => ~Earlier(j, i)
<1>1. PICK P \in Pages : i \in Oldest(FreeIn(P))
  BY DEF PumpClaim
<1>2. i \in P /\ SessionOf[i] \notin lanes
  BY <1>1 DEF Oldest, FreeIn
<1>3. ASSUME NEW j \in Items, SessionOf[j] = SessionOf[i], Runnable(j) PROVE ~Earlier(j, i)
  <2>1. CASE j \in P
    <3>1. j \in FreeIn(P)
      BY <1>2, <1>3, <2>1 DEF FreeIn
    <3> QED
      BY <1>1, <3>1 DEF Oldest
  <2>2. CASE j \notin P
    BY <1>2, <1>3, <2>2 DEF Pages, PagesOf, RunnableRows
  <2> QED
    BY <2>1, <2>2
<1> QED
  BY <1>2, <1>3

\* What a claim does to rows and lanes.
LEMMA ClaimEffect ==
  ASSUME KernelInv, NEW i \in Items, PumpClaim(i)
  PROVE  /\ up /\ UNCHANGED <<up, pumping>>
         /\ status[i] \in Waiting /\ status' = [status EXCEPT ![i] = "running"]
         /\ proc[i] = "idle" /\ proc' \in [Items -> ProcState] /\ InHand(i)'
         /\ \A j \in Items : j # i => proc'[j] = proc[j]
         /\ Busy' = Busy \cup {i}
         /\ lanes' = lanes \cup {SessionOf[i]}
<1> DEFINE to == CASE i \in Messages -> "claimed"
                   [] i \in jobs     -> "refused"
                   [] OTHER          -> "job"
<1>1. to \in {"claimed", "refused", "job"}
  OBVIOUS
<1>2. proc' = [proc EXCEPT ![i] = to]
  BY DEF PumpClaim
<1> HIDE DEF to
<1>3. proc[i] = "idle"
  BY ClaimedIsOldest DEF KernelInv, LaneDiscipline, Busy
<1>4. Busy' = Busy \cup {i} /\ proc' \in [Items -> ProcState] /\ InHand(i)'
  BY <1>1, <1>2 DEF KernelInv, Busy, ProcState, InHand
<1> QED
  BY <1>2, <1>3, <1>4 DEF KernelInv, PumpClaim, Claim, lifeVars

LEMMA ClaimInv ==
  ASSUME KernelInv, QueueTypeOK', NEW i \in Items, PumpClaim(i)
  PROVE  KernelInv'
<1>1. LaneDiscipline'
  BY ClaimEffect, ClaimedIsOldest DEF KernelInv, LaneDiscipline
<1>2. RunningIsOwned'
  BY ClaimEffect DEF KernelInv, RunningIsOwned, InHand, QueueTypeOK
<1> QED
  BY <1>1, <1>2, ClaimEffect DEF KernelInv

LEMMA ReleaseInv ==
  ASSUME KernelInv, QueueTypeOK', NEW i \in Items, Release(i)
  PROVE  KernelInv' /\ Busy' = Busy \ {i}
<1> USE DEF KernelInv
<1>1. /\ proc[i] = "settled" /\ proc' = [proc EXCEPT ![i] = "idle"]
      /\ lanes' = lanes \ {SessionOf[i]}
      /\ up /\ UNCHANGED <<up, pumping, status>>
  BY DEF Release, Step, Quiet, queueVars, lifeVars
<1>2. Busy' = Busy \ {i} /\ proc' \in [Items -> ProcState] /\ i \in Busy
  BY <1>1 DEF Busy, ProcState
<1>3. LaneDiscipline'
  BY <1>1, <1>2 DEF LaneDiscipline
<1>4. RunningIsOwned'
  BY <1>1 DEF RunningIsOwned, InHand
<1> QED
  BY <1>1, <1>2, <1>3, <1>4

LEMMA KernelNextInv == KernelInv /\ QueueTypeOK' /\ [KernelNext]_vars => KernelInv'
<1> SUFFICES ASSUME KernelInv, QueueTypeOK', [KernelNext]_vars PROVE KernelInv'
  OBVIOUS
<1>1. CASE Crash
  BY <1>1 DEF Crash, KernelInv, LaneDiscipline, RunningIsOwned, Busy, ProcState
<1>2. CASE Start
  <2>1. \A i \in Items : status'[i] # "running"
    BY <1>2 DEF Start, MarkInterruptedFromRunning, SetStatusWhere
  <2> QED
    BY <1>2, <2>1 DEF Start, KernelInv, LaneDiscipline, RunningIsOwned, Busy
<1>3. CASE UNCHANGED vars
  BY <1>3 DEF vars, queueVars, pumpVars, lifeVars, KernelInv, LaneDiscipline, RunningIsOwned,
              Busy, InHand
<1> QED
  BY <1>1, <1>2, <1>3, StepKinds, SegmentInv, ClaimInv, ReleaseInv

THEOREM KernelInvariant == KernelSpec => []KernelInv
BY KernelRows, KernelInitInv, KernelNextInv, PTL DEF KernelSpec

\* activeSessions is exactly the set of sessions of the items in process, and
\* no session has two: no path frees a lane early or leaves it taken.
THEOREM LanesHeld == KernelSpec => []LaneDiscipline
<1>1. KernelInv => LaneDiscipline
  BY DEF KernelInv
<1> QED
  BY <1>1, KernelInvariant, PTL

\* A row is running only while an item of this process is in hand that will
\* settle it, after any number of crashes.
THEOREM RowsOwned == KernelSpec => []RunningIsOwned
<1>1. KernelInv => RunningIsOwned
  BY DEF KernelInv
<1> QED
  BY <1>1, KernelInvariant, PTL

\* What OldestFirst says of a step.
OldestStep ==
  \A i, j \in Items :
    status[i] \in Waiting /\ status'[i] = "running" /\ SessionOf[i] = SessionOf[j]
    /\ Runnable(j) => ~Earlier(j, i)

LEMMA EveryStepOldest ==
  ASSUME KernelInv, KernelNext
  PROVE  OldestStep
<1> SUFFICES ASSUME NEW i \in Items, NEW j \in Items, status[i] \in Waiting,
                    status'[i] = "running", SessionOf[i] = SessionOf[j], Runnable(j)
             PROVE  ~Earlier(j, i)
  BY DEF OldestStep
<1>1. status[i] # "running"
  BY DEF Waiting
<1>2. ~Segment
  BY <1>1, EffectStartsNone DEF Segment, KernelInv
<1>3. ASSUME NEW k \in Items, PumpClaim(k) PROVE ~Earlier(j, i)
  <2>1. k = i
    BY <1>1, <1>3, ClaimEffect DEF KernelInv, QueueTypeOK
  <2> QED
    BY <1>3, <2>1, ClaimedIsOldest
<1>4. ~Crash /\ ~Start /\ \A k \in Items : ~Release(k)
  BY <1>1 DEF Crash, Start, Release, queueVars, MarkInterruptedFromRunning, SetStatusWhere
<1> QED
  BY <1>2, <1>3, <1>4, StepKinds

\* A due row is never overtaken by a younger row of its session, however the
\* pages of the queue are cut and whatever other sessions do.
THEOREM OldestServed == KernelSpec => OldestFirst
<1>1. KernelInv /\ [KernelNext]_vars => [OldestStep]_vars
  BY EveryStepOldest
<1> QED
  BY <1>1, KernelInvariant, PTL DEF KernelSpec, OldestFirst, OldestStep

---------------------------------------------------------------------------
(* The kernel implements the abstract queue.                               *)

LEMMA Holders ==
  ASSUME NEW I \in SUBSET Items,
         \A i, j \in I : SessionOf[i] = SessionOf[j] => i = j
  PROVE  /\ \A i \in I : HolderIn(I)[SessionOf[i]] = i
         /\ \A s \in Sessions : (\A i \in I : SessionOf[i] # s) => HolderIn(I)[s] = None
<1>1. ASSUME NEW i \in I PROVE HolderIn(I)[SessionOf[i]] = i
  <2>1. SessionOf[i] \in Sessions
    BY QueueAssumption
  <2>2. (CHOOSE j \in I : SessionOf[j] = SessionOf[i]) = i
    OBVIOUS
  <2> QED
    BY <2>1, <2>2 DEF HolderIn
<1> QED
  BY <1>1 DEF HolderIn

LEMMA Phases ==
  /\ Phase["absent"] = "absent"
  /\ \A st \in Waiting  : Phase[st] = "waiting"
  /\ Phase["running"] = "served"
  /\ \A st \in Terminal : Phase[st] = "ended"
BY DEF Phase, Status, Live, Waiting, Terminal

\* A segment, or a statement of it, seen from the abstract queue.
LEMMA EffectRefines ==
  ASSUME QueueTypeOK, QueueTypeOK', up, up' = up, Effect, LaneHolder' = LaneHolder
  PROVE  [Lanes!LanesNext]_(Lanes!laneVars)
<1>1. CASE UNCHANGED status
  BY <1>1 DEF LaneRow, Lanes!laneVars
<1>2. ASSUME NEW i \in Items, Appears(i) PROVE Lanes!LanesNext
  <2>1. LaneRow[i] = "absent" /\ LaneRow' = [LaneRow EXCEPT ![i] = "waiting"]
    BY <1>2, Phases DEF QueueTypeOK, Appears, LaneRow, Waiting
  <2> QED
    BY <2>1 DEF Lanes!LanesNext, Lanes!Offered
<1>3. ASSUME NEW i \in Items, NEW to \in Terminal \cup {"retrying"}, Settled(i, to)
      PROVE  Lanes!LanesNext
  <2>1. PICK out \in {"waiting", "ended"} :
          LaneRow[i] = "served" /\ LaneRow' = [LaneRow EXCEPT ![i] = out]
    BY <1>3, Phases DEF QueueTypeOK, Settled, LaneRow, Waiting
  <2> QED
    BY <2>1 DEF Lanes!LanesNext, Lanes!Finished
<1>4. ASSUME NEW ids \in SUBSET Items, Dropped(ids) PROVE Lanes!LanesNext
  <2>1. /\ \A i \in ids : LaneRow[i] \in {"waiting", "served"}
        /\ LaneRow' = [i \in Items |-> IF i \in ids THEN "ended" ELSE LaneRow[i]]
    BY <1>4, Phases DEF QueueTypeOK, Dropped, LaneRow, Live, Terminal
  <2> QED
    BY <1>4, <2>1 DEF Dropped, Lanes!LanesNext, Lanes!GivenUp
<1> QED
  BY <1>1, <1>2, <1>3, <1>4 DEF Effect, Admission

LEMMA SegmentRefines ==
  ASSUME KernelInv, QueueTypeOK', Segment
  PROVE  [Lanes!LanesNext]_(Lanes!laneVars)
<1>1. Busy' = Busy
  BY DEF KernelInv, Segment, Advances, Busy
<1>2. LaneHolder' = LaneHolder
  BY <1>1 DEF LaneHolder, HolderIn
<1>3. CASE UNCHANGED status
  BY <1>2, <1>3 DEF Segment, LaneRow, Lanes!laneVars
<1> QED
  BY <1>2, <1>3, EffectRefines DEF KernelInv, Segment

LEMMA ClaimRefines ==
  ASSUME KernelInv, KernelInv', NEW i \in Items, PumpClaim(i)
  PROVE  Lanes!Served(i)
<1> DEFINE s == SessionOf[i]
<1>1. /\ s \in Sessions /\ Busy' = Busy \cup {i}
      /\ \A j \in Busy : SessionOf[j] # s
      /\ Busy \in SUBSET Items /\ Busy' \in SUBSET Items
  BY QueueAssumption, ClaimEffect, ClaimedIsOldest DEF KernelInv, LaneDiscipline, Busy
<1>2. LaneHolder[s] = None
  BY <1>1, Holders DEF KernelInv, LaneDiscipline, LaneHolder
<1>3. LaneHolder' = [LaneHolder EXCEPT ![s] = i]
  <2>1. HolderIn(Busy')[s] = i
    BY <1>1, Holders DEF KernelInv, LaneDiscipline
  <2>2. ASSUME NEW t \in Sessions, t # s PROVE HolderIn(Busy')[t] = HolderIn(Busy)[t]
    <3>1. \A j : j \in Busy' /\ SessionOf[j] = t <=> j \in Busy /\ SessionOf[j] = t
      BY <1>1, <2>2
    <3> QED
      BY <3>1 DEF HolderIn
  <2> QED
    <3>. DEFINE before == HolderIn(Busy)
                after == HolderIn(Busy')
    <3>1. LaneHolder = before /\ LaneHolder' = after
      BY DEF LaneHolder, HolderIn
    <3>2. DOMAIN before = Sessions /\ DOMAIN after = Sessions
      BY DEF HolderIn
    <3>3. after = [t \in Sessions |-> after[t]] /\ before = [t \in Sessions |-> before[t]]
      BY DEF HolderIn
    <3>. HIDE DEF before, after
    <3>4. \A t \in Sessions : after[t] = IF t = s THEN i ELSE before[t]
      BY <2>1, <2>2, Zenon DEF before, after
    <3> QED
      BY <1>1, <3>1, <3>2, <3>3, <3>4
<1>4. LaneRow[i] = "waiting" /\ LaneRow' = [LaneRow EXCEPT ![i] = "served"]
  <2>1. status[i] \in Waiting /\ status' = [status EXCEPT ![i] = "running"]
    BY ClaimEffect
  <2>2. status \in [Items -> Status]
    BY DEF KernelInv, QueueTypeOK
  <2> QED
    BY <2>1, <2>2, Phases DEF LaneRow
<1> QED
  BY <1>2, <1>3, <1>4, ClaimEffect DEF Lanes!Served

LEMMA ReleaseRefines ==
  ASSUME KernelInv, KernelInv', NEW i \in Items, Release(i)
  PROVE  Lanes!Left(SessionOf[i])
<1> DEFINE s == SessionOf[i]
<1>1. /\ proc[i] = "settled" /\ i \in Busy /\ up /\ UNCHANGED <<up, status>>
      /\ s \in Sessions /\ Busy \in SUBSET Items /\ Busy' = Busy \ {i}
  BY QueueAssumption, ReleaseInv DEF Release, Quiet, queueVars, lifeVars, Busy, KernelInv
<1>2. LaneHolder[s] = i
  BY <1>1, Holders DEF KernelInv, LaneDiscipline, LaneHolder
<1>3. LaneHolder' = [LaneHolder EXCEPT ![s] = None]
  <2>1. \A j \in Busy' : SessionOf[j] # s
    BY <1>1 DEF KernelInv, LaneDiscipline
  <2>2. HolderIn(Busy')[s] = None
    BY <1>1, <2>1 DEF HolderIn
  <2>3. ASSUME NEW t \in Sessions, t # s PROVE HolderIn(Busy')[t] = HolderIn(Busy)[t]
    <3>1. \A j : j \in Busy' /\ SessionOf[j] = t <=> j \in Busy /\ SessionOf[j] = t
      BY <1>1, <2>3
    <3> QED
      BY <3>1 DEF HolderIn
  <2>4. \A I : HolderIn(I) = [t \in Sessions |-> HolderIn(I)[t]]
    BY DEF HolderIn
  <2> HIDE DEF s
  <2> QED
    BY <1>1, <2>2, <2>3, <2>4 DEF LaneHolder
<1>4. LaneRow[i] # "served" /\ LaneRow' = LaneRow
  <2>1. status[i] # "running"
    BY <1>1 DEF KernelInv, RunningIsOwned, InHand
  <2> QED
    BY <1>1, <2>1, Phases DEF KernelInv, QueueTypeOK, Status, Live, LaneRow
<1>5. i # None
  BY KernelAssumption
<1> QED
  BY <1>1, <1>2, <1>3, <1>4, <1>5 DEF Lanes!Left

LEMMA CrashRefines ==
  ASSUME KernelInv, Crash
  PROVE  Lanes!Died
<1>1. Busy' = {} /\ UNCHANGED status /\ up /\ up' = FALSE
  BY DEF Crash, Busy, queueVars
<1> QED
  BY <1>1 DEF LaneHolder, HolderIn, LaneRow, Lanes!Died

LEMMA StartRefines ==
  ASSUME KernelInv, QueueTypeOK', Start
  PROVE  Lanes!Revived
<1>1. /\ up' = TRUE /\ ~up /\ Busy' = Busy
      /\ status' = [i \in Items |-> IF status[i] = "running" THEN "interrupted" ELSE status[i]]
  BY DEF Start, Busy, MarkInterruptedFromRunning, SetStatusWhere
<1>2. LaneHolder' = LaneHolder
  BY <1>1 DEF LaneHolder, HolderIn
<1>3. LaneRow' = [i \in Items |-> IF LaneRow[i] = "served" THEN "ended" ELSE LaneRow[i]]
  BY <1>1, Phases DEF KernelInv, QueueTypeOK, Status, Live, Terminal, LaneRow
<1> QED
  BY <1>1, <1>2, <1>3 DEF Lanes!Revived

\* Every step of the kernel is a step of the abstract queue or changes
\* nothing of it: the kernel serves each session one item at a time, serves
\* an item never again once it ended, and leaves no lane taken, for any
\* messages, configuration and crashes.
THEOREM KernelImplementsLanes == KernelSpec => ImplementsLanes
<1>1. KernelInit => Lanes!LanesInit
  BY Phases DEF KernelInit, QueueInit, Busy, LaneRow, LaneHolder, HolderIn, Lanes!LanesInit
<1>2. ASSUME KernelInv, KernelInv', KernelNext PROVE [Lanes!LanesNext]_(Lanes!laneVars)
  <2>1. QueueTypeOK'
    BY <1>2 DEF KernelInv
  <2>2. ASSUME NEW i \in Items, PumpClaim(i) PROVE Lanes!LanesNext
    BY <1>2, <2>2, ClaimRefines DEF Lanes!LanesNext
  <2>3. ASSUME NEW i \in Items, Release(i) PROVE Lanes!LanesNext
    BY <1>2, <2>3, ReleaseRefines, QueueAssumption DEF Lanes!LanesNext
  <2>4. CASE Crash
    BY <1>2, <2>4, CrashRefines DEF Lanes!LanesNext
  <2>5. CASE Start
    BY <1>2, <2>1, <2>5, StartRefines DEF Lanes!LanesNext
  <2> QED
    BY <1>2, <2>1, <2>2, <2>3, <2>4, <2>5, StepKinds, SegmentRefines
<1>3. KernelInv /\ UNCHANGED vars => UNCHANGED Lanes!laneVars
  BY DEF vars, queueVars, lifeVars, Lanes!laneVars, LaneRow, LaneHolder, HolderIn, Busy
<1>4. KernelInv /\ KernelInv' /\ [KernelNext]_vars => [Lanes!LanesNext]_(Lanes!laneVars)
  BY <1>2, <1>3
<1> QED
  BY <1>1, <1>4, KernelInvariant, PTL DEF KernelSpec, ImplementsLanes, Lanes!LanesSpec
============================================================================
