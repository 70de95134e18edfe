--------------------------- MODULE RuntimeKernel ---------------------------
(***************************************************************************)
(* RuntimeKernel: admission of inbound messages under the queue modes, the *)
(* pump with its session lanes, the processing of a claimed queue item up  *)
(* to its terminal state, continuations, stop, crash and restart.          *)
(*                                                                         *)
(* It composes the durable queue (RuntimeQueue, every statement of which   *)
(* it issues) with the detached runs of the host (DetachedRuns), whose     *)
(* runs are the items of the queue.  An action is a synchronous segment    *)
(* between two awaits; the pump loop, which has none, is spread over       *)
(* several actions during which `pumping' keeps every other one disabled.  *)
(***************************************************************************)
EXTENDS RuntimeQueue, FiniteSets

CONSTANTS
  Messages,      \* envelopes of inbound messages
  Conts,         \* envelopes of continuations (queueItemId is a fresh UUID)
  Stops,         \* messages whose command token is /stop
  Resets,        \* messages that are /new or /reset
  Modes,         \* the modes queueConfig.mode may be configured to
  CollectWindow, \* queueConfig.collectWindowMs
  MaxBacklog,    \* queueConfig.maxBacklog, 0 when unset
  Window,        \* the LIMIT of listRunnable (64)
  StampOf,       \* receivedAt of a message, creation time of a continuation
  InOrder,       \* the channel delivers the messages of a session by receivedAt
  None,
  MaxCrashes     \* bound: how often the process may die

QueueMode == {"followup", "collect", "interrupt", "steer", "steer-backlog"}

ASSUME KernelAssumption ==
  /\ Items = Messages \cup Conts /\ Messages \cap Conts = {}
  /\ Stops \subseteq Messages /\ Resets \subseteq Messages \ Stops
  /\ Modes \subseteq QueueMode /\ Modes # {}
  /\ CollectWindow \in Nat /\ MaxBacklog \in Nat /\ Window \in Nat \ {0}
  /\ StampOf \in [Items -> 1..MaxStamp]
  /\ InOrder \in BOOLEAN
  /\ MaxCrashes \in Nat
  /\ None \notin Items \cup Sessions

VARIABLES
  run, current, callback, micro, turn, prompt, waiting,  \* DetachedRuns
  up,            \* the process is running and has started the kernel
  stopped,       \* RuntimeKernel.stopped
  mode,          \* queueConfig.mode
  lanes,         \* pumpState.activeSessions
  pumpScheduled, \* pumpState.pumpScheduled
  pumping,       \* the pump loop is executing
  enq,           \* where enqueueInbound is with a message
  proc,          \* where processQueueItem is with an item
  cont,          \* where a continuation request is
  cancelled,     \* continuationRegistry.cancelledSessions
  jobs,          \* ids known to the agent job registry
  crashes        \* how often the process died

R == INSTANCE DetachedRuns WITH
       Runs <- Items, Timed <- {}, Resetting <- Resets, Callers <- Messages

runVars  == <<run, current, callback, micro, turn, prompt, waiting>>
pumpVars == <<lanes, pumpScheduled, pumping>>
contVars == <<cont, cancelled>>
lifeVars == <<up, stopped, mode, crashes>>
vars == <<queueVars, runVars, pumpVars, contVars, lifeVars, enq, proc, jobs>>

EnqState  == {"out", "deciding", "inserted", "merged", "done"}
ProcState == {"idle", "claimed", "refused", "detached", "job", "completed",
              "continuing", "settled"}
ContState == {"unused", "pending", "taken", "queued", "dropped"}

\* No synchronous segment is under way, so that another one may begin.
Quiet == up /\ ~pumping

\* The items whose session lane is held for them.
Busy  == {i \in Items : proc[i] # "idle"}
InHand(i) == proc[i] \in {"claimed", "refused", "detached", "job"}

KernelInit ==
  /\ QueueInit
  /\ R!RunsInit
  /\ up = TRUE /\ stopped = FALSE /\ mode \in Modes /\ crashes = 0
  /\ lanes = {} /\ pumpScheduled = TRUE /\ pumping = FALSE
  /\ enq  = [m \in Messages |-> "out"]
  /\ proc = [i \in Items |-> "idle"]
  /\ cont = [c \in Conts |-> "unused"]
  /\ cancelled = {} /\ jobs = {}

---------------------------------------------------------------------------
(* Continuation registry and pump scheduling.                              *)

SchedulePump == pumpScheduled' = (pumpScheduled \/ ~stopped)

\* Variant: the pending requests survive.
CancelSessionKeeps(s) == cancelled' = cancelled \cup {s} /\ UNCHANGED cont

\* cancelSession
CancelSession(s) ==
  /\ cancelled' = cancelled \cup {s}
  /\ cont' = [c \in Conts |-> IF cont[c] = "pending" /\ SessionOf[c] = s
                              THEN "dropped" ELSE cont[c]]

\* schedule, called by a tool of the session's running prompt.
ScheduleContinuation(i, c) ==
  /\ Quiet /\ turn[i] = "prompting"
  /\ SessionOf[c] = SessionOf[i] /\ SessionOf[c] \notin cancelled
  /\ cont[c] = "unused"
  /\ cont' = [cont EXCEPT ![c] = "pending"]
  /\ UNCHANGED <<queueVars, runVars, pumpVars, lifeVars, enq, proc, cancelled, jobs>>

---------------------------------------------------------------------------
(* enqueueInbound.                                                         *)

Arrive(m) ==
  /\ Quiet /\ enq[m] = "out"
  /\ InOrder => \A n \in Messages :
       SessionOf[n] = SessionOf[m] /\ StampOf[n] < StampOf[m] => enq[n] # "out"
Goto(m, e) == enq' = [enq EXCEPT ![m] = e]

\* handleStopCommand: the message itself is never queued.
ReceiveStop(m) ==
  LET s == SessionOf[m] IN
  /\ Arrive(m) /\ m \in Stops
  /\ MarkInterruptedBySession(s)
  /\ CancelSession(s)
  /\ R!Interrupt(m, s)
  /\ Goto(m, "done")
  /\ UNCHANGED <<pumpVars, lifeVars, proc, jobs>>

\* A plain message in the steering modes; a command is only queued.
Steers(m) == mode \in {"steer", "steer-backlog"} /\ m \notin Resets
Preempts(m) == mode = "steer-backlog" /\ Steers(m) /\ R!SessionActive(SessionOf[m])
Injects(m)  == mode = "steer" /\ Steers(m) /\ prompt[SessionOf[m]] # None
Collects(m) == IF mode = "collect" /\ CollectWindow > 0
               THEN LatestQueued(SessionOf[m],
                      IF StampOf[m] > CollectWindow THEN StampOf[m] - CollectWindow ELSE 0)
               ELSE {}

\* preemptActiveSessionForLatestInput
ReceivePreempting(m) ==
  LET s == SessionOf[m] IN
  /\ Arrive(m) /\ m \notin Stops /\ Preempts(m)
  /\ MarkInterruptedBySession(s)
  /\ CancelSession(s)
  /\ R!Interrupt(m, s)
  /\ Goto(m, "deciding")
  /\ UNCHANGED <<pumpVars, lifeVars, proc, jobs>>

\* handleInterruptMode
ReceiveInterrupting(m) ==
  LET s == SessionOf[m] IN
  /\ Arrive(m) /\ m \notin Stops /\ mode = "interrupt"
  /\ MarkInterruptedBySession(s)
  /\ R!Interrupt(m, s)
  /\ Goto(m, "deciding")
  /\ UNCHANGED <<pumpVars, contVars, lifeVars, proc, jobs>>

\* steerSession takes the text into the active prompt: nothing is queued.
ReceiveInjected(m) ==
  /\ Arrive(m) /\ m \notin Stops /\ Injects(m)
  /\ Goto(m, "done")
  /\ UNCHANGED <<queueVars, runVars, pumpVars, contVars, lifeVars, proc, jobs>>

\* tryCollectIntoQueued
ReceiveCollected(m) ==
  /\ Arrive(m) /\ m \notin Stops
  /\ \E i \in Collects(m) : MergeQueued(i)
  /\ Goto(m, "merged")
  /\ UNCHANGED <<runVars, pumpVars, contVars, lifeVars, proc, jobs>>

\* enqueue; a duplicate is reported and forgotten.
Offer(m) ==
  \/ Insert(m, StampOf[m], mode # "collect" \/ CollectWindow = 0) /\ Goto(m, "inserted")
  \/ Duplicate(m) /\ Goto(m, "done") /\ UNCHANGED queueVars

\* The modes other than followup await the helper that found nothing to do.
ReceiveQueued(m) ==
  /\ Arrive(m) /\ m \notin Stops
  /\ ~Preempts(m) /\ ~Injects(m) /\ mode # "interrupt" /\ Collects(m) = {}
  /\ IF mode = "followup" THEN Offer(m)
     ELSE Goto(m, "deciding") /\ UNCHANGED queueVars
  /\ UNCHANGED <<runVars, pumpVars, contVars, lifeVars, proc, jobs>>

\* The awaited helper has returned, and with it interruptSession.
Decided(m) ==
  /\ Quiet /\ enq[m] = "deciding" /\ R!Idle(m)
  /\ Offer(m)
  /\ UNCHANGED <<runVars, pumpVars, contVars, lifeVars, proc, jobs>>

\* Variant: the youngest rows are trimmed.
SurplusYoungest(s) ==
  IF MaxBacklog = 0 \/ Cardinality(Pending(s)) <= MaxBacklog THEN {{}}
  ELSE {D \in SUBSET Pending(s) :
          /\ Cardinality(D) = Cardinality(Pending(s)) - MaxBacklog
          /\ \A i \in D, j \in Pending(s) \ D : ~Earlier(i, j)}

\* trimSessionBacklog: the oldest pending rows beyond maxBacklog.
Surplus(s) ==
  IF MaxBacklog = 0 \/ Cardinality(Pending(s)) <= MaxBacklog THEN {{}}
  ELSE {D \in SUBSET Pending(s) :
          /\ Cardinality(D) = Cardinality(Pending(s)) - MaxBacklog
          /\ \A i \in D, j \in Pending(s) \ D : ~Earlier(j, i)}

\* After the session bookkeeping is awaited: trim, then schedule the pump.
Enqueued(m) ==
  /\ Quiet /\ enq[m] = "inserted"
  /\ \E D \in Surplus(SessionOf[m]) : MarkInterruptedByIds(D)
  /\ SchedulePump
  /\ Goto(m, "done")
  /\ UNCHANGED <<runVars, lanes, pumping, contVars, lifeVars, proc, jobs>>

Collected(m) ==
  /\ Quiet /\ enq[m] = "merged"
  /\ \E D \in Surplus(SessionOf[m]) : MarkInterruptedByIds(D)
  /\ Goto(m, "done")
  /\ UNCHANGED <<runVars, pumpVars, contVars, lifeVars, proc, jobs>>

\* The bookkeeping throws: enqueueInbound rejects, the row stays.
EnqueueFails(m) ==
  /\ Quiet /\ enq[m] \in {"inserted", "merged"}
  /\ Goto(m, "done")
  /\ UNCHANGED <<queueVars, runVars, pumpVars, contVars, lifeVars, proc, jobs>>

Receive(m) ==
  \/ ReceiveStop(m) \/ ReceivePreempting(m) \/ ReceiveInterrupting(m)
  \/ ReceiveInjected(m) \/ ReceiveCollected(m) \/ ReceiveQueued(m)

Admit(m) == Decided(m) \/ Enqueued(m) \/ Collected(m) \/ EnqueueFails(m)

---------------------------------------------------------------------------
(* The pump.                                                               *)

\* The interval of the kernel; it is cleared by stop().
PollTick ==
  /\ Quiet /\ ~stopped /\ ~pumpScheduled
  /\ SchedulePump
  /\ UNCHANGED <<queueVars, runVars, lanes, pumping, contVars, lifeVars, enq, proc, jobs>>

PumpBegin ==
  /\ Quiet /\ pumpScheduled
  /\ pumpScheduled' = FALSE
  /\ pumping' = ~stopped
  /\ UNCHANGED <<queueVars, runVars, lanes, contVars, lifeVars, enq, proc, jobs>>

RunnableRows == {i \in Items : Runnable(i)}
\* The pages listRunnable may return: rows of one enqueued_at in any order.
PagesOf(limit) ==
  {P \in SUBSET RunnableRows :
     /\ Cardinality(P) = IF Cardinality(RunnableRows) < limit
                         THEN Cardinality(RunnableRows) ELSE limit
     /\ \A i \in P, j \in RunnableRows \ P : ~Earlier(j, i)}
\* Variant: a page one row short.
PagesOneShort == PagesOf(Window - 1)
Pages == PagesOf(Window)

\* Variant: the lanes are not looked at.
AnyLane(P) == P
\* pickNextRunnable: the first row of the page whose session is inactive.
FreeIn(P) == {i \in P : SessionOf[i] \notin lanes}
\* Variant: any row of the page.
Whichever(S) == S
Oldest(S) == {i \in S : \A j \in S : ~Earlier(j, i)}

\* An item created as an agent job with a known id is refused on the spot.
PumpClaim(i) ==
  /\ pumping /\ \E P \in Pages : i \in Oldest(FreeIn(P))
  /\ \A j \in Items : proc[j] # "refused"
  /\ Claim(i)
  /\ lanes' = lanes \cup {SessionOf[i]}
  /\ cancelled' = cancelled \ {SessionOf[i]}
  /\ proc' = [proc EXCEPT ![i] = CASE i \in Messages -> "claimed"
                                   [] i \in jobs     -> "refused"
                                   [] OTHER          -> "job"]
  /\ jobs' = jobs \cup ({i} \cap Conts)
  /\ UNCHANGED <<runVars, pumpScheduled, pumping, cont, lifeVars, enq>>

PumpEnd ==
  /\ pumping /\ \E P \in Pages : FreeIn(P) = {}
  /\ \A j \in Items : proc[j] # "refused"
  /\ pumping' = FALSE
  /\ UNCHANGED <<queueVars, runVars, lanes, pumpScheduled, contVars, lifeVars, enq, proc, jobs>>

---------------------------------------------------------------------------
(* processQueueItem and handleDetachedTerminal.                            *)

Step(i, to) == proc' = [proc EXCEPT ![i] = to]

\* Variant: one retry too many.
FailOneMore(i, retryable) ==
  IF retryable /\ attempts[i] <= MaxAttempts
  THEN MarkRetryingIfRunning(i) /\ SchedulePump
  ELSE MarkFailedIfRunning(i) /\ UNCHANGED pumpScheduled

\* The error policy: a transient error is retried while attempts remain.
\* MaxAttempts + 1 is the maxRetries of DefaultRuntimeErrorPolicy.
Fail(i, retryable) ==
  IF retryable /\ attempts[i] < MaxAttempts
  THEN MarkRetryingIfRunning(i) /\ SchedulePump
  ELSE MarkFailedIfRunning(i) /\ UNCHANGED pumpScheduled

\* create() threw "Agent job already exists", an error nobody retries.
Refuse(i) ==
  /\ pumping /\ proc[i] = "refused"
  /\ Fail(i, FALSE)
  /\ Step(i, "settled")
  /\ UNCHANGED <<runVars, lanes, pumping, contVars, lifeVars, enq, jobs>>

\* Variant: the lane is released when the run has been accepted.
LaunchReleases(i) ==
  /\ Quiet /\ proc[i] = "claimed"
  /\ R!StartRun(i)
  /\ Step(i, "detached")
  /\ lanes' = lanes \ {SessionOf[i]}
  /\ UNCHANGED <<queueVars, pumpScheduled, pumping, contVars, lifeVars, enq, jobs>>

\* Variant: the row is marked running again as the run starts.
LaunchMarksRunning(i) ==
  /\ Quiet /\ proc[i] = "claimed"
  /\ R!StartRun(i)
  /\ Step(i, "detached")
  /\ status' = [status EXCEPT ![i] = "running"]
  /\ UNCHANGED <<attempts, stamp, due, pumpVars, contVars, lifeVars, enq, jobs>>

\* Session status and agent are awaited, then startDetachedRun creates the
\* run.  The row is not looked at again.
Launch(i) ==
  /\ Quiet /\ proc[i] = "claimed"
  /\ R!StartRun(i)
  /\ Step(i, "detached")
  /\ UNCHANGED <<queueVars, pumpVars, contVars, lifeVars, enq, jobs>>

\* Variant: the catch block releases the session before it settles the row.
LaunchFailsReleases(i) ==
  /\ Quiet /\ proc[i] = "claimed"
  /\ \E retryable \in BOOLEAN : Fail(i, retryable)
  /\ Step(i, "settled")
  /\ lanes' = lanes \ {SessionOf[i]}
  /\ UNCHANGED <<runVars, pumping, contVars, lifeVars, enq, jobs>>

\* One of these awaits rejects.
LaunchFails(i) ==
  /\ Quiet /\ proc[i] = "claimed"
  /\ \E retryable \in BOOLEAN : Fail(i, retryable)
  /\ Step(i, "settled")
  /\ UNCHANGED <<runVars, lanes, pumping, contVars, lifeVars, enq, jobs>>

\* AgentJobRunner.run prompts the session on behalf of a continuation.
JobBegin(i) ==
  /\ Quiet /\ proc[i] = "job" /\ turn[i] = "none"
  /\ turn' = [turn EXCEPT ![i] = "running"]
  /\ UNCHANGED <<queueVars, run, current, callback, micro, prompt, waiting,
                 pumpVars, contVars, lifeVars, enq, proc, jobs>>

\* handleDetachedTerminal for terminal state t.
Settle(i, t) ==
  \/ /\ t = "completed"
     /\ MarkCompletedIfRunning(i)
     /\ Step(i, IF status[i] = "running" THEN "completed" ELSE "settled")
     /\ UNCHANGED pumpScheduled
  \/ /\ t = "aborted"
     /\ MarkInterruptedIfRunning(i)
     /\ Step(i, "settled")
     /\ UNCHANGED pumpScheduled
  \/ /\ t = "failed"
     /\ \E retryable \in BOOLEAN : Fail(i, retryable)
     /\ Step(i, "settled")

\* The callback of a detached run.
OnTerminal(i) ==
  /\ Quiet /\ proc[i] = "detached"
  /\ R!Deliver(i)
  /\ Settle(i, micro[i])
  /\ UNCHANGED <<lanes, pumping, contVars, lifeVars, enq, jobs>>

JobEnd(i, t) ==
  /\ Quiet /\ proc[i] = "job" /\ turn[i] = "running"
  /\ turn' = [turn EXCEPT ![i] = "none"]
  /\ Settle(i, t)
  /\ UNCHANGED <<run, current, callback, micro, prompt, waiting,
                 lanes, pumping, contVars, lifeVars, enq, jobs>>

\* processPendingContinuations: consume.
Consume(i) ==
  LET s == SessionOf[i] IN
  /\ Quiet /\ proc[i] = "completed"
  /\ cont' = [c \in Conts |-> IF cont[c] = "pending" /\ SessionOf[c] = s
                              THEN IF s \in cancelled THEN "dropped" ELSE "taken"
                              ELSE cont[c]]
  /\ Step(i, "continuing")
  /\ UNCHANGED <<queueVars, runVars, pumpVars, cancelled, lifeVars, enq, jobs>>

\* enqueueContinuation
EnqueueContinuation(i, c) ==
  /\ Quiet /\ proc[i] = "continuing"
  /\ cont[c] = "taken" /\ SessionOf[c] = SessionOf[i]
  /\ \E now \in BOOLEAN : Insert(c, StampOf[c], now)
  /\ cont' = [cont EXCEPT ![c] = "queued"]
  /\ SchedulePump
  /\ UNCHANGED <<runVars, lanes, pumping, cancelled, lifeVars, enq, proc, jobs>>

\* The continuations are enqueued, or the session bookkeeping threw before:
\* those not yet enqueued are lost.
Conclude(i) ==
  /\ Quiet /\ proc[i] \in {"completed", "continuing"}
  /\ Step(i, "settled")
  /\ cont' = [c \in Conts |-> IF /\ proc[i] = "continuing"
                                 /\ cont[c] = "taken" /\ SessionOf[c] = SessionOf[i]
                              THEN "dropped" ELSE cont[c]]
  /\ UNCHANGED <<queueVars, runVars, pumpVars, cancelled, lifeVars, enq, jobs>>

\* Variant: an interrupted row returns early and keeps its lane.
ReleaseUnlessInterrupted(i) ==
  /\ Quiet /\ proc[i] = "settled" /\ status[i] # "interrupted"
  /\ Step(i, "idle")
  /\ lanes' = lanes \ {SessionOf[i]}
  /\ IF SessionOf[i] \in lanes THEN SchedulePump ELSE UNCHANGED pumpScheduled
  /\ UNCHANGED <<queueVars, runVars, pumping, contVars, lifeVars, enq, jobs>>

\* releaseSession
Release(i) ==
  /\ Quiet /\ proc[i] = "settled"
  /\ Step(i, "idle")
  /\ lanes' = lanes \ {SessionOf[i]}
  /\ IF SessionOf[i] \in lanes THEN SchedulePump ELSE UNCHANGED pumpScheduled
  /\ UNCHANGED <<queueVars, runVars, pumping, contVars, lifeVars, enq, jobs>>

---------------------------------------------------------------------------
(* The host: turns, stop, crash and start.                                 *)

Hosted == UNCHANGED <<queueVars, pumpVars, contVars, lifeVars, enq, proc, jobs>>

TurnMoves(i)      == Quiet /\ R!TurnStep(i) /\ Hosted
TurnEnds(i)       == /\ Quiet /\ proc[i] # "job"
                     /\ \E t \in {"completed", "failed", "aborted"} : R!TurnEnd(i, t)
                     /\ Hosted
InterruptEnds(m)  == Quiet /\ R!InterruptEnd(m) /\ Hosted
TimePasses(i)     == BecomeDue(i) /\ ~pumping /\ UNCHANGED <<runVars, pumpVars, contVars,
                                                         lifeVars, enq, proc, jobs>>

Stop ==
  /\ Quiet /\ ~stopped
  /\ stopped' = TRUE
  /\ UNCHANGED <<queueVars, runVars, pumpVars, contVars, up, mode, crashes, enq, proc, jobs>>

\* updateQueueConfig, when no message is half way through the branches of
\* enqueueInbound, each of which reads the mode again.
Reconfigure ==
  /\ Quiet /\ \A m \in Messages : enq[m] # "deciding"
  /\ mode' \in Modes \ {mode}
  /\ UNCHANGED <<queueVars, runVars, pumpVars, contVars, up, stopped, crashes, enq, proc, jobs>>

\* The process ends: of the state only the table survives.
Crash ==
  /\ up /\ crashes < MaxCrashes
  /\ up' = FALSE /\ crashes' = crashes + 1 /\ stopped' = TRUE
  /\ lanes' = {} /\ pumpScheduled' = FALSE /\ pumping' = FALSE
  /\ proc' = [i \in Items |-> "idle"]
  /\ enq'  = [m \in Messages |-> IF enq[m] = "out" THEN "out" ELSE "done"]
  /\ cont' = [c \in Conts |-> IF cont[c] \in {"pending", "taken"} THEN "dropped" ELSE cont[c]]
  /\ cancelled' = {} /\ jobs' = {}
  /\ R!RunsReset
  /\ UNCHANGED <<queueVars, mode>>

\* Variant: the table is left as it was found.
StartUnrecovered ==
  /\ ~up
  /\ up' = TRUE /\ stopped' = FALSE
  /\ pumpScheduled' = TRUE
  /\ UNCHANGED <<queueVars, runVars, lanes, pumping, contVars, mode, crashes, enq, proc, jobs>>

\* start(): the rows of the previous process are marked interrupted.
Start ==
  /\ ~up
  /\ up' = TRUE /\ stopped' = FALSE
  /\ MarkInterruptedFromRunning
  /\ pumpScheduled' = TRUE
  /\ UNCHANGED <<runVars, lanes, pumping, contVars, mode, crashes, enq, proc, jobs>>

---------------------------------------------------------------------------
ItemStep(i) ==
  \/ PumpClaim(i) \/ Refuse(i) \/ Launch(i) \/ LaunchFails(i) \/ JobBegin(i)
  \/ OnTerminal(i) \/ Consume(i) \/ Conclude(i) \/ Release(i)
  \/ \E c \in Conts : EnqueueContinuation(i, c)

KernelNext ==
  \/ \E m \in Messages : Receive(m) \/ Admit(m) \/ InterruptEnds(m)
  \/ \E i \in Items :
       \/ ItemStep(i)
       \/ TurnMoves(i)
       \/ TurnEnds(i)
       \/ \E t \in {"completed", "failed"} : JobEnd(i, t)
       \/ \E c \in Conts : ScheduleContinuation(i, c)
       \/ TimePasses(i)
  \/ PollTick \/ PumpBegin \/ PumpEnd
  \/ Stop \/ Reconfigure \/ Crash \/ Start

KernelSpec == KernelInit /\ [][KernelNext]_vars

TurnBegins(i) == Quiet /\ (R!TurnStart(i) \/ R!ResetSession(i)) /\ Hosted

\* The steps of which there are finitely many for the messages received.
Progress ==
  \/ \E m \in Messages : Admit(m) \/ InterruptEnds(m)
  \/ \E i \in Items : ItemStep(i) \/ TimePasses(i) \/ TurnBegins(i)
  \/ Start
Ends(i)       == TurnEnds(i) \/ \E t \in {"completed", "failed"} : JobEnd(i, t)
PromptEnds(i) == Quiet /\ R!PromptEnd(i) /\ Hosted

\* Awaits settle, microtasks and timers run, and a prompt and its fallbacks
\* are finite: the event loop comes back to them between other segments,
\* which is strong fairness, for the pump loop disables them as it executes.
\* Whoever supervises the process starts it again.  That some step of a
\* kind is taken is enough, since Progress and Ends run out.
KernelFairness ==
  /\ WF_vars(PollTick \/ PumpBegin \/ PumpEnd)
  /\ SF_vars(Progress)
  /\ SF_vars(\E i \in Items : PromptEnds(i))
  /\ SF_vars(\E i \in Items : Ends(i))

FairKernelSpec == KernelSpec /\ KernelFairness

---------------------------------------------------------------------------
(* Properties.                                                             *)

KernelTypeOK ==
  /\ QueueTypeOK /\ R!RunsTypeOK
  /\ up \in BOOLEAN /\ stopped \in BOOLEAN /\ mode \in Modes /\ crashes \in 0..MaxCrashes
  /\ lanes \subseteq Sessions /\ pumpScheduled \in BOOLEAN /\ pumping \in BOOLEAN
  /\ enq \in [Messages -> EnqState] /\ proc \in [Items -> ProcState]
  /\ cont \in [Conts -> ContState] /\ cancelled \subseteq Sessions /\ jobs \subseteq Conts

\* activeSessions is exactly the set of sessions of the items in process,
\* and no session has two: neither a failure, a retry nor a /stop while the
\* item is in hand frees the lane early or leaves it taken.
LaneDiscipline ==
  /\ lanes = {SessionOf[i] : i \in Busy}
  /\ \A i, j \in Busy : SessionOf[i] = SessionOf[j] => i = j

\* A row is running only while something in the process will settle it.
RunningIsOwned ==
  up => \A i \in Items : status[i] = "running" => InHand(i)

\* An item given to a detached run is waiting for a terminal callback that
\* is on its way or that a live run still owes, and nobody else gets one:
\* otherwise the lane of the session would be held for ever.
CallbackOwed ==
  \A i \in Items :
    /\ proc[i] = "detached" => micro[i] # "none" \/ (R!Live(i) /\ i \in callback)
    /\ micro[i] # "none" \/ R!Live(i) => proc[i] = "detached"

\* An item that is about to be launched, for the second time as well, finds
\* its run id free.  createRun would overwrite the entry of the former
\* attempt, and the finally block of the former attempt would then drop the
\* entry and the callback of the new one.
RunIdFree ==
  \A i \in Items : proc[i] = "claimed" =>
    run[i] = "none" /\ turn[i] = "none" /\ micro[i] = "none" /\ i \notin callback

\* Turns of one session follow each other (kernel.integration.test.ts:93), and
\* a prompt that steer mode would inject a message into belongs to an item that
\* holds the lane of the session, hence to a turn still being answered.
TurnsSerialized ==
  /\ \A i, j \in Items : SessionOf[i] = SessionOf[j] /\ turn[i] # "none" /\ turn[j] # "none"
                         => i = j
  /\ \A s \in Sessions : prompt[s] # None => s \in lanes

\* A session that was cancelled has no continuation left to be consumed.
CancelledHasNone ==
  \A c \in Conts : cont[c] = "pending" => SessionOf[c] \notin cancelled

\* A pump run leaves no due row of an inactive session behind.
PumpExhausts ==
  [][pumping /\ ~pumping' /\ up' =>
       \A i \in Items : Runnable(i) => SessionOf[i] \in lanes]_vars

\* A due row is never overtaken by a younger row of its session.
OldestFirst ==
  [][\A i, j \in Items :
       status[i] \in Waiting /\ status'[i] = "running" /\ SessionOf[i] = SessionOf[j]
       /\ Runnable(j) => ~Earlier(j, i)]_vars

Phase ==
  [st \in Status |-> CASE st = "absent"   -> "absent"
                      [] st \in Waiting  -> "waiting"
                      [] st = "running"  -> "served"
                      [] st \in Terminal -> "ended"]
LaneRow == [i \in Items |-> Phase[status[i]]]
HolderIn(I) ==
  [s \in Sessions |-> IF \E i \in I : SessionOf[i] = s
                      THEN CHOOSE i \in I : SessionOf[i] = s ELSE None]
LaneHolder == HolderIn(Busy)

Lanes == INSTANCE SessionLanes WITH
  Nobody <- None, row <- LaneRow, holder <- LaneHolder, alive <- up

\* The kernel implements the abstract queue: every segment is a step of a
\* session that serves one item at a time, or changes nothing of it.
ImplementsLanes == Lanes!LanesSpec

\* Unless the kernel is stopped, every row reaches an end: also the rows a
\* former process left queued, retried ones and those behind a broken turn.
RowsEnd ==
  \A i \in Items :
    status[i] \in Live /\ ~stopped ~> status[i] \in Terminal \/ stopped

\* Every lane is given back, whatever becomes of the item that holds it.
LanesFreed == \A s \in Sessions : s \in lanes ~> s \notin lanes

\* Trimming a backlog gives up rows for the sake of one at least as young,
\* and never the row being processed.
TrimKeepsYoungest ==
  [][\A m \in Messages, i \in Items :
       enq[m] \in {"inserted", "merged"} /\ enq'[m] = "done"
       /\ status[i] # status'[i] /\ up'
       => /\ status[i] \in Waiting
          /\ \E j \in Items : /\ SessionOf[j] = SessionOf[i]
                            /\ status'[j] \in Waiting /\ ~Earlier(j, i)]_vars

---------------------------------------------------------------------------
(* Statements of the documentation that the code does not keep.            *)

\* Only a message whose dedup key is known is dropped as a duplicate
\* (kernel.integration.test.ts:255).
DroppedByKeyOnly ==
  [][\A m \in Messages \ Stops :
       enq[m] = "out" /\ enq'[m] = "done" /\ mode = "followup"
       => \E j \in Items : Present(j) /\ DedupKey[j] = DedupKey[m]]_vars

\* A row cancelled by /stop is not started (enqueue-coordinator.ts:47-52).
StoppedNotLaunched ==
  [][\A i \in Items :
       proc[i] = "claimed" /\ proc'[i] = "detached" => status[i] = "running"]_vars

\* The interrupt of a message aborts the runs of older messages
\* (enqueue-policy.ts:27), never the run of a message newer than itself.
NewerRunSpared ==
  [][\A m \in Messages, i \in Items :
       waiting[m] # None /\ waiting'[m] = None /\ R!Live(i) /\ run'[i] = "aborted"
       => StampOf[i] <= StampOf[m]]_vars

\* In interrupt mode the latest message is handled next: no two rows of a
\* session are alive (kernel.integration.test.ts:414).
OnlyLatestLive ==
  mode = "interrupt" =>
    \A i, j \in Items : /\ status[i] \in Live /\ status[j] \in Live
                       /\ SessionOf[i] = SessionOf[j] => i = j

\* A continuation that failed of a transient error is run again
\* (docs/MODULES/runtime-core.md).
RetryIsRun == \A i \in Items : proc[i] # "refused"
===========================================================================
