------------------------- MODULE KernelRunsProofs -------------------------
(***************************************************************************)
(* The kernel and the detached runs it starts, for every set of messages   *)
(* and continuations: the state stays well typed, every item handed to the *)
(* host is owed a callback, and a run id is free when it is used again.    *)
(*                                                                         *)
(* The argument follows an item through its attempts.  A row that waits    *)
(* has no run (Unstarted), Launch gives it one, and only an outcome that   *)
(* the task itself found, "failed", lets the row wait again: at that time  *)
(* its finally block has been executed (FailedIsGone).  All else that ends *)
(* a run ends the row, so a task that outlives its run is never met by a   *)
(* second attempt.                                                         *)
(*                                                                         *)
(* Then what rests on it: the registry of runs and its callbacks inside    *)
(* the kernel, the turns of a session that follow one another when no      *)
(* message interrupts them, and what a pump run and the trimming of a      *)
(* backlog do with a table of any length.                                  *)
(***************************************************************************)
EXTENDS RuntimeKernelProofs

Unstarted(i) ==
  run[i] = "none" /\ turn[i] = "none" /\ micro[i] = "none" /\ i \notin callback

\* A callback that is queued belongs to a run that ended.
EndedFirst == \A i \in Items : micro[i] # "none" => ~R!Live(i)

FailedIsGone ==
  \A i \in Items : micro[i] = "failed" =>
    run[i] = "none" /\ turn[i] = "none" /\ i \notin callback

\* Rows that wait, or that are about to be launched, have no run.
WaitingIsFresh ==
  \A i \in Items : status[i] \in Waiting \cup {"absent"} \/ proc[i] = "claimed" => Unstarted(i)

\* The row of an item in hand runs or has ended.
InHandRow ==
  \A i \in Items : InHand(i) => status[i] \notin Waiting \cup {"absent"}

\* Continuations run as jobs and have no detached run.
JobsApart ==
  /\ \A i \in Items : proc[i] \in {"claimed", "detached"} => i \in Messages
  /\ \A i \in Items : proc[i] \in {"job", "refused"} => i \in Conts
  /\ \A c \in Conts : run[c] = "none" /\ micro[c] = "none" /\ c \notin callback

HandInv == EndedFirst /\ FailedIsGone /\ WaitingIsFresh /\ InHandRow /\ JobsApart /\ CallbackOwed

KernelRunsInv == R!RunsTypeOK /\ HandInv

---------------------------------------------------------------------------
(* What the host does to runs between launch and callback.                 *)

Same(x) == run'[x] = run[x] /\ micro'[x] = micro[x]
Grown(x) == R!Live(x) /\ R!Live(x)' /\ micro'[x] = micro[x]
Cut(x) ==
  /\ R!Live(x) /\ run'[x] = "aborted"
  /\ micro'[x] = IF x \in callback THEN "aborted" ELSE micro[x]

\* No task begins or ends; some runs grow or are aborted.
HostEffect ==
  /\ UNCHANGED callback
  /\ \A x \in Items : turn'[x] = "none" <=> turn[x] = "none"
  /\ \A x \in Items : Same(x) \/ Grown(x) \/ Cut(x)

LEMMA AbortEffect ==
  ASSUME R!RunsTypeOK, NEW s \in Sessions, R!AbortSession(s)
  PROVE  /\ \A x \in Items : Same(x) \/ Cut(x)
         /\ run'     \in [Items -> {"none"} \cup R!LiveState \cup R!RunTerminal]
         /\ micro'   \in [Items -> {"none"} \cup R!RunTerminal]
         /\ current' \in [Sessions -> Items \cup {None}]
<1>1. CASE current[s] # None /\ R!SetTerminal(current[s], "aborted")
  <2>1. current[s] \in Items
    BY <1>1 DEF R!RunsTypeOK
  <2>2. SessionOf[current[s]] \in Sessions
    BY <2>1, QueueAssumption
  <2> QED
    BY <1>1, <2>1, <2>2 DEF R!RunsTypeOK, R!SetTerminal, Same, Cut, R!RunTerminal
<1>2. CASE UNCHANGED <<run, current, micro>>
  BY <1>2 DEF R!RunsTypeOK, Same
<1> QED
  BY <1>1, <1>2 DEF R!AbortSession

LEMMA InterruptHost ==
  ASSUME R!RunsTypeOK, NEW m \in Messages, NEW s \in Sessions, R!Interrupt(m, s)
  PROVE  HostEffect /\ R!RunsTypeOK'
<1>1. CASE R!AbortSession(s) /\ UNCHANGED <<callback, turn, prompt, waiting>>
  BY <1>1, AbortEffect DEF HostEffect, R!RunsTypeOK
<1>2. CASE /\ waiting' = [waiting EXCEPT ![m] = s]
           /\ UNCHANGED <<run, current, callback, micro, turn, prompt>>
  BY <1>2 DEF HostEffect, Same, R!RunsTypeOK
<1> QED
  BY <1>1, <1>2 DEF R!Interrupt

LEMMA InterruptEndHost ==
  ASSUME R!RunsTypeOK, NEW m \in Messages, R!InterruptEnd(m)
  PROVE  HostEffect /\ R!RunsTypeOK'
<1>1. waiting[m] \in Sessions /\ waiting' \in [Messages -> Sessions \cup {None}]
  BY DEF R!RunsTypeOK, R!InterruptEnd, R!Idle
<1> QED
  BY <1>1, AbortEffect DEF R!InterruptEnd, HostEffect, R!RunsTypeOK

LEMMA TurnStepHost ==
  ASSUME R!RunsTypeOK, NEW i \in Items, R!TurnStep(i)
  PROVE  HostEffect /\ R!RunsTypeOK'
<1> DEFINE s == SessionOf[i]
<1>0. s \in Sessions
  BY QueueAssumption
<1>1. CASE R!TurnStart(i)
  BY <1>1 DEF R!TurnStart, HostEffect, Same, Grown, R!Live, R!LiveState, R!RunsTypeOK, R!TurnState
<1>2. CASE R!PromptBegin(i)
  BY <1>0, <1>2 DEF R!PromptBegin, HostEffect, Same, R!RunsTypeOK, R!TurnState
<1>3. CASE R!Stream(i)
  BY <1>3 DEF R!Stream, HostEffect, Same, Grown, R!Live, R!LiveState, R!RunsTypeOK
<1>4. CASE R!PromptEnd(i)
  BY <1>0, <1>4 DEF R!PromptEnd, HostEffect, Same, R!RunsTypeOK, R!TurnState
<1>5. CASE R!ResetSession(i)
  <2>1. /\ turn[i] = "command" /\ turn' = [turn EXCEPT ![i] = "running"]
        /\ UNCHANGED <<callback, prompt>>
    BY <1>5 DEF R!ResetSession
  <2>2. turn' \in [Items -> R!TurnState] /\ \A x \in Items : turn'[x] = "none" <=> turn[x] = "none"
    BY <2>1 DEF R!RunsTypeOK, R!TurnState
  <2>3. CASE R!AbortSession(s) /\ UNCHANGED waiting
    BY <1>0, <2>1, <2>2, <2>3, AbortEffect DEF HostEffect, R!RunsTypeOK
  <2>4. CASE waiting' = [waiting EXCEPT ![i] = s] /\ UNCHANGED <<run, current, micro>>
    BY <1>0, <2>1, <2>2, <2>4 DEF HostEffect, Same, R!RunsTypeOK
  <2> QED
    BY <1>5, <2>3, <2>4 DEF R!ResetSession
<1> QED
  BY <1>1, <1>2, <1>3, <1>4, <1>5 DEF R!TurnStep

LEMMA UnchangedHost ==
  ASSUME R!RunsTypeOK, UNCHANGED runVars
  PROVE  HostEffect /\ R!RunsTypeOK'
BY DEF runVars, HostEffect, Same, R!RunsTypeOK

\* Such a step, when no item is processed further and no row waits anew.
LEMMA HostEffectInv ==
  ASSUME HandInv, HostEffect, UNCHANGED proc,
         \A i \in Items : status'[i] \in Waiting \cup {"absent"} => status[i] \in Waiting \cup {"absent"}
  PROVE  HandInv'
<1> USE DEF HandInv, HostEffect, Same, Grown, Cut
<1>1. EndedFirst'
  BY DEF EndedFirst, R!Live, R!LiveState
<1>2. FailedIsGone'
  BY DEF FailedIsGone, R!Live, R!LiveState
<1>3. WaitingIsFresh'
  BY DEF WaitingIsFresh, Unstarted, R!Live, R!LiveState
<1>4. InHandRow'
  BY DEF InHandRow, InHand
<1>5. JobsApart'
  BY KernelAssumption DEF JobsApart, R!Live, R!LiveState
<1>6. CallbackOwed'
  BY DEF CallbackOwed, EndedFirst, R!Live, R!LiveState
<1> QED
  BY <1>1, <1>2, <1>3, <1>4, <1>5, <1>6

---------------------------------------------------------------------------
(* Steps that process no item: admission, the host, pump, stop and start.  *)

LEMMA AdmissionKeepsWaiting ==
  ASSUME QueueTypeOK, Admission, NEW i \in Items, status'[i] \in Waiting \cup {"absent"}
  PROVE  status[i] \in Waiting \cup {"absent"}
BY DEF QueueTypeOK, Admission, Appears, Dropped, Waiting

LEMMA ReceiveHost ==
  ASSUME R!RunsTypeOK, NEW m \in Messages, Receive(m)
  PROVE  HostEffect /\ R!RunsTypeOK'
<1>1. SessionOf[m] \in Sessions
  BY QueueAssumption, KernelAssumption
<1>2. CASE R!Interrupt(m, SessionOf[m])
  BY <1>1, <1>2, InterruptHost
<1>3. CASE UNCHANGED runVars
  BY <1>3, UnchangedHost
<1> QED
  BY <1>2, <1>3 DEF Receive, ReceiveStop, ReceivePreempting, ReceiveInterrupting,
     ReceiveInjected, ReceiveCollected, ReceiveQueued

LEMMA AdmitHost ==
  ASSUME R!RunsTypeOK, NEW m \in Messages, Admit(m)
  PROVE  HostEffect /\ R!RunsTypeOK'
BY UnchangedHost DEF Admit, Decided, Enqueued, Collected, EnqueueFails

LEMMA OutsideInv ==
  ASSUME KernelInv, KernelRunsInv,
         \/ \E m \in Messages : Receive(m) \/ Admit(m)
         \/ \E i \in Items, c \in Conts : EnqueueContinuation(i, c)
  PROVE  KernelRunsInv'
<1>1. HostEffect /\ R!RunsTypeOK'
  BY ReceiveHost, AdmitHost, UnchangedHost DEF KernelRunsInv, EnqueueContinuation
<1>2. Admission /\ UNCHANGED proc
  <2>1. ASSUME NEW i \in Items, NEW c \in Conts, EnqueueContinuation(i, c)
        PROVE  Admission /\ UNCHANGED proc
    <3>1. c \in Items
      BY KernelAssumption
    <3> QED
      BY <2>1, <3>1, InsertEffect DEF EnqueueContinuation, KernelInv
  <2> QED
    BY <2>1, ReceiveKind, AdmitKind
<1> QED
  BY <1>1, <1>2, HostEffectInv, AdmissionKeepsWaiting DEF KernelRunsInv, KernelInv

LEMMA IdleStepInv ==
  ASSUME KernelInv, KernelRunsInv,
         \/ \E m \in Messages : InterruptEnds(m)
         \/ \E i \in Items : \/ TurnMoves(i) \/ TimePasses(i)
                             \/ \E c \in Conts : ScheduleContinuation(i, c)
         \/ PollTick \/ PumpBegin \/ PumpEnd \/ Stop \/ Reconfigure \/ Start
  PROVE  KernelRunsInv'
<1>1. HostEffect /\ R!RunsTypeOK'
  BY InterruptEndHost, TurnStepHost, UnchangedHost
     DEF KernelRunsInv, InterruptEnds, TurnMoves, TimePasses, ScheduleContinuation,
         PollTick, PumpBegin, PumpEnd, Stop, Reconfigure, Start
<1>2. UNCHANGED proc
  BY DEF InterruptEnds, TurnMoves, Hosted, TimePasses, ScheduleContinuation,
         PollTick, PumpBegin, PumpEnd, Stop, Reconfigure, Start
<1>3. ASSUME NEW i \in Items, status'[i] \in Waiting \cup {"absent"}
      PROVE  status[i] \in Waiting \cup {"absent"}
  <2>1. CASE Start
    BY <1>3, <2>1 DEF Start, MarkInterruptedFromRunning, SetStatusWhere, Waiting
  <2>2. CASE UNCHANGED status
    BY <1>3, <2>2
  <2> QED
    BY <2>1, <2>2 DEF InterruptEnds, TurnMoves, Hosted, TimePasses, BecomeDue,
       ScheduleContinuation, PollTick, PumpBegin, PumpEnd, Stop, Reconfigure, queueVars
<1> QED
  BY <1>1, <1>2, <1>3, HostEffectInv DEF KernelRunsInv

---------------------------------------------------------------------------
(* Steps that process an item, one by one.                                 *)

\* The row of item i may change, all other rows and items stay.
LEMMA ClaimRuns ==
  ASSUME KernelInv, KernelRunsInv, jobs \subseteq Conts, NEW i \in Items, PumpClaim(i)
  PROVE  KernelRunsInv'
<1>1. UNCHANGED <<run, current, callback, micro, turn, prompt, waiting>>
  BY DEF PumpClaim, runVars
<1>2. /\ status[i] \in Waiting /\ status' = [status EXCEPT ![i] = "running"]
      /\ \A j \in Items : j # i => proc'[j] = proc[j]
      /\ status \in [Items -> Status]
  BY ClaimEffect DEF KernelInv, QueueTypeOK
<1>3. /\ proc'[i] \in {"claimed", "refused", "job"}
      /\ proc'[i] = "claimed" => i \in Messages
      /\ proc'[i] \in {"job", "refused"} => i \notin Messages
  <2> DEFINE to == CASE i \in Messages -> "claimed"
                     [] i \in jobs     -> "refused"
                     [] OTHER          -> "job"
  <2>1. /\ to \in {"claimed", "refused", "job"}
        /\ to = "claimed" => i \in Messages
        /\ to \in {"job", "refused"} => i \notin Messages
    <3>1. CASE i \in Messages
      <4>1. i \notin jobs
        BY <3>1, KernelAssumption
      <4>2. to = "claimed"
        BY <3>1, <4>1
      <4> QED
        BY <3>1, <4>2
    <3>2. CASE i \notin Messages /\ i \in jobs
      <4>1. to = "refused"
        BY <3>2
      <4> QED
        BY <3>2, <4>1
    <3>3. CASE i \notin Messages /\ i \notin jobs
      <4>1. to = "job"
        BY <3>3
      <4> QED
        BY <3>3, <4>1
    <3> QED
      BY <3>1, <3>2, <3>3
  <2>2. proc' = [proc EXCEPT ![i] = to]
    BY DEF PumpClaim
  <2> HIDE DEF to
  <2> QED
    BY <2>1, <2>2 DEF KernelInv
<1>4. Unstarted(i)
  BY <1>2 DEF KernelRunsInv, HandInv, WaitingIsFresh
<1>5. R!RunsTypeOK' /\ EndedFirst' /\ FailedIsGone'
  BY <1>1 DEF KernelRunsInv, HandInv, R!RunsTypeOK, EndedFirst, FailedIsGone, R!Live
<1>6. WaitingIsFresh'
  BY <1>1, <1>2, <1>4 DEF KernelRunsInv, HandInv, WaitingIsFresh, Unstarted
<1>7. InHandRow'
  BY <1>2 DEF KernelRunsInv, HandInv, InHandRow, InHand, Waiting
<1>8. JobsApart'
  BY <1>1, <1>2, <1>3, KernelAssumption DEF KernelRunsInv, HandInv, JobsApart
<1>9. CallbackOwed'
  BY <1>1, <1>2, <1>3, <1>4 DEF KernelRunsInv, HandInv, CallbackOwed, Unstarted, R!Live, R!LiveState
<1> QED
  BY <1>5, <1>6, <1>7, <1>8, <1>9 DEF KernelRunsInv, HandInv

LEMMA LaunchRuns ==
  ASSUME KernelInv, KernelRunsInv, NEW i \in Items, Launch(i)
  PROVE  KernelRunsInv'
<1> DEFINE s == SessionOf[i]
           superseded == {x \in Items : x = current[s] /\ R!Live(x)}
<1>1. /\ run' = [x \in Items |-> IF x = i THEN "accepted"
                                 ELSE IF x \in superseded THEN "aborted" ELSE run[x]]
      /\ micro' = [x \in Items |-> IF x \in superseded \cap callback
                                   THEN "aborted" ELSE micro[x]]
      /\ current'  = [current EXCEPT ![s] = i]
      /\ callback' = callback \cup {i}
      /\ turn'     = [turn EXCEPT ![i] = "queued"]
      /\ UNCHANGED <<prompt, waiting, status>>
  BY DEF Launch, R!StartRun, queueVars
<1>2. proc[i] = "claimed" /\ proc' = [proc EXCEPT ![i] = "detached"] /\ Unstarted(i)
  BY DEF Launch, Step, KernelRunsInv, HandInv, WaitingIsFresh
<1>3. i \notin superseded /\ \A x \in superseded : x \in callback /\ micro[x] = "none"
  BY <1>2 DEF Unstarted, R!Live, R!LiveState, KernelRunsInv, HandInv, EndedFirst, CallbackOwed
<1>4. \A x \in Items : x # i => \/ Same(x)
                                \/ R!Live(x) /\ run'[x] = "aborted" /\ micro'[x] = "aborted"
  BY <1>1, <1>3 DEF Same
<1>5. run'[i] = "accepted" /\ micro'[i] = "none"
  BY <1>1, <1>2, <1>3 DEF Unstarted
<1>6. R!RunsTypeOK'
  <2>1. s \in Sessions
    BY QueueAssumption
  <2> QED
    BY <1>1, <2>1 DEF KernelRunsInv, R!RunsTypeOK, R!LiveState, R!RunTerminal, R!TurnState
<1> HIDE DEF superseded
<1> USE DEF KernelRunsInv, HandInv
<1>7. EndedFirst' /\ FailedIsGone'
  BY <1>1, <1>4, <1>5 DEF EndedFirst, FailedIsGone, Same, R!Live, R!LiveState, R!RunsTypeOK
<1>8. status[i] \notin Waiting \cup {"absent"}
  BY <1>2 DEF InHandRow, InHand
<1>9. WaitingIsFresh'
  BY <1>1, <1>2, <1>4, <1>8
     DEF KernelInv, WaitingIsFresh, Unstarted, Same, R!Live, R!LiveState, R!RunsTypeOK
<1>10. InHandRow'
  BY <1>1, <1>2 DEF KernelInv, InHandRow, InHand
<1>11. JobsApart'
  <2>1. i \in Messages /\ Conts \subseteq Items \ {i}
    BY <1>2, KernelAssumption DEF JobsApart
  <2>2. \A c \in Conts : run'[c] = "none" /\ micro'[c] = "none" /\ c \notin callback'
    BY <1>1, <1>4, <2>1 DEF JobsApart, Same, R!Live, R!LiveState
  <2>3. \A j \in Items : proc'[j] = IF j = i THEN "detached" ELSE proc[j]
    BY <1>2 DEF KernelInv
  <2> QED
    BY <2>1, <2>2, <2>3 DEF JobsApart
<1>12. CallbackOwed'
  BY <1>1, <1>2, <1>4, <1>5 DEF KernelInv, CallbackOwed, Same, R!Live, R!LiveState
<1> QED
  BY <1>6, <1>7, <1>9, <1>10, <1>11, <1>12

\* An attempt at starting the run that fails, or a job refused.
LEMMA FailRuns ==
  ASSUME KernelInv, KernelRunsInv, NEW i \in Items, Refuse(i) \/ LaunchFails(i)
  PROVE  KernelRunsInv'
<1> USE DEF KernelRunsInv, HandInv
<1>1. /\ UNCHANGED <<run, current, callback, micro, turn, prompt, waiting>>
      /\ proc[i] \in {"claimed", "refused"} /\ proc' = [proc EXCEPT ![i] = "settled"]
  BY DEF Refuse, LaunchFails, Step, runVars
<1>2. \A j \in Items : j # i => status'[j] = status[j]
  BY DEF Refuse, LaunchFails, Fail, MarkFailedIfRunning, MarkRetryingIfRunning, SetStatusWhere,
         KernelInv, QueueTypeOK
<1>3. status'[i] \in Waiting \cup {"absent"} => proc[i] = "claimed"
  <2>1. CASE Refuse(i)
    <3>1. MarkFailedIfRunning(i) /\ InHand(i)
      BY <2>1 DEF Refuse, Fail, InHand
    <3>2. status'[i] = IF status[i] = "running" THEN "failed" ELSE status[i]
      BY <3>1 DEF MarkFailedIfRunning, SetStatusWhere
    <3> QED
      BY <3>1, <3>2 DEF InHandRow, Waiting
  <2>2. CASE LaunchFails(i)
    BY <2>2 DEF LaunchFails
  <2> QED
    BY <2>1, <2>2
<1>4. \A j \in Items : proc'[j] = IF j = i THEN "settled" ELSE proc[j]
  BY <1>1 DEF KernelInv
<1>5. R!RunsTypeOK' /\ EndedFirst' /\ FailedIsGone'
  BY <1>1 DEF R!RunsTypeOK, EndedFirst, FailedIsGone, R!Live
<1>6. WaitingIsFresh'
  BY <1>1, <1>2, <1>3, <1>4 DEF WaitingIsFresh, Unstarted
<1>7. InHandRow'
  BY <1>2, <1>4 DEF InHandRow, InHand
<1>8. JobsApart'
  BY <1>1, <1>4 DEF JobsApart
<1>9. CallbackOwed'
  BY <1>1, <1>4 DEF CallbackOwed, R!Live
<1> QED
  BY <1>5, <1>6, <1>7, <1>8, <1>9

LEMMA JobBeginRuns ==
  ASSUME KernelInv, KernelRunsInv, NEW i \in Items, JobBegin(i)
  PROVE  KernelRunsInv'
<1> USE DEF KernelRunsInv, HandInv
<1>1. /\ proc[i] = "job" /\ turn' = [turn EXCEPT ![i] = "running"]
      /\ UNCHANGED <<run, current, callback, micro, prompt, waiting, status, proc>>
  BY DEF JobBegin, queueVars
<1>2. R!RunsTypeOK' /\ EndedFirst'
  BY <1>1 DEF R!RunsTypeOK, R!TurnState, EndedFirst, R!Live
<1>3. micro[i] # "failed" /\ status[i] \notin Waiting \cup {"absent"}
  BY <1>1 DEF JobsApart, InHandRow, InHand
<1>4. FailedIsGone'
  BY <1>1, <1>3 DEF FailedIsGone, R!RunsTypeOK
<1>5. WaitingIsFresh'
  BY <1>1, <1>3 DEF WaitingIsFresh, Unstarted, R!RunsTypeOK
<1>6. InHandRow' /\ JobsApart' /\ CallbackOwed'
  BY <1>1 DEF InHandRow, InHand, JobsApart, CallbackOwed, R!Live
<1> QED
  BY <1>2, <1>4, <1>5, <1>6

\* The outcome of a run or a job settles the row of an item in hand that has
\* no run any more unless the row ends.
LEMMA SettleRuns ==
  ASSUME KernelInv, InHandRow, NEW i \in Items, NEW t, InHand(i), Settle(i, t)
  PROVE  /\ \A j \in Items : j # i => proc'[j] = proc[j] /\ status'[j] = status[j]
         /\ proc'[i] \in {"settled", "completed"}
         /\ status'[i] \in Waiting \cup {"absent"} => t = "failed"
<1>1. status[i] \notin Waiting \cup {"absent"}
  BY DEF InHandRow
<1>2. proc'[i] \in {"settled", "completed"} /\ \A j \in Items : j # i => proc'[j] = proc[j]
  BY DEF KernelInv, Settle, Step
<1>3. \A j \in Items : j # i => status'[j] = status[j]
  BY DEF KernelInv, QueueTypeOK, Settle, Fail, MarkCompletedIfRunning, MarkInterruptedIfRunning,
         MarkFailedIfRunning, MarkRetryingIfRunning, SetStatusWhere
<1>4. t # "failed" => status'[i] \notin Waiting \cup {"absent"}
  BY <1>1 DEF Settle, MarkCompletedIfRunning, MarkInterruptedIfRunning, SetStatusWhere, Waiting
<1> QED
  BY <1>2, <1>3, <1>4

LEMMA OnTerminalRuns ==
  ASSUME KernelInv, KernelRunsInv, NEW i \in Items, OnTerminal(i)
  PROVE  KernelRunsInv'
<1> USE DEF KernelRunsInv, HandInv
<1>1. /\ proc[i] = "detached" /\ InHand(i) /\ Settle(i, micro[i])
      /\ micro[i] # "none" /\ micro' = [micro EXCEPT ![i] = "none"]
      /\ UNCHANGED <<run, current, callback, turn, prompt, waiting>>
  BY DEF OnTerminal, R!Deliver, InHand
<1>2. /\ \A j \in Items : j # i => proc'[j] = proc[j] /\ status'[j] = status[j]
      /\ proc'[i] \in {"settled", "completed"}
      /\ status'[i] \in Waiting \cup {"absent"} => micro[i] = "failed"
  BY <1>1, SettleRuns
<1>3. ~R!Live(i)
  BY <1>1 DEF EndedFirst
<1>4. R!RunsTypeOK' /\ EndedFirst' /\ FailedIsGone'
  BY <1>1 DEF R!RunsTypeOK, EndedFirst, FailedIsGone, R!Live
<1>5. WaitingIsFresh'
  BY <1>1, <1>2 DEF WaitingIsFresh, FailedIsGone, Unstarted, R!RunsTypeOK
<1>6. InHandRow' /\ JobsApart'
  BY <1>1, <1>2, KernelAssumption DEF InHandRow, InHand, JobsApart, R!RunsTypeOK
<1>7. CallbackOwed'
  BY <1>1, <1>2, <1>3 DEF CallbackOwed, R!Live, R!RunsTypeOK
<1> QED
  BY <1>4, <1>5, <1>6, <1>7

LEMMA JobEndRuns ==
  ASSUME KernelInv, KernelRunsInv, NEW i \in Items, NEW t, JobEnd(i, t)
  PROVE  KernelRunsInv'
<1> USE DEF KernelRunsInv, HandInv
<1>1. /\ proc[i] = "job" /\ InHand(i) /\ Settle(i, t)
      /\ turn' = [turn EXCEPT ![i] = "none"]
      /\ UNCHANGED <<run, current, callback, micro, prompt, waiting>>
  BY DEF JobEnd, InHand
<1>2. /\ \A j \in Items : j # i => proc'[j] = proc[j] /\ status'[j] = status[j]
      /\ proc'[i] \in {"settled", "completed"}
  BY <1>1, SettleRuns
<1>3. run[i] = "none" /\ micro[i] = "none" /\ i \notin callback
  BY <1>1 DEF JobsApart
<1>4. R!RunsTypeOK' /\ EndedFirst' /\ FailedIsGone'
  BY <1>1 DEF R!RunsTypeOK, R!TurnState, EndedFirst, FailedIsGone, R!Live
<1>5. WaitingIsFresh'
  BY <1>1, <1>2, <1>3 DEF WaitingIsFresh, Unstarted, R!RunsTypeOK
<1>6. InHandRow' /\ JobsApart' /\ CallbackOwed'
  BY <1>1, <1>2, <1>3 DEF InHandRow, InHand, JobsApart, CallbackOwed, R!Live, R!LiveState
<1> QED
  BY <1>4, <1>5, <1>6

LEMMA AfterwardsRuns ==
  ASSUME KernelInv, KernelRunsInv, NEW i \in Items, Consume(i) \/ Conclude(i) \/ Release(i)
  PROVE  KernelRunsInv'
<1> USE DEF KernelRunsInv, HandInv
<1>1. /\ UNCHANGED <<run, current, callback, micro, turn, prompt, waiting, status>>
      /\ proc[i] \in {"completed", "continuing", "settled"}
      /\ \A j \in Items : j # i => proc'[j] = proc[j]
      /\ proc'[i] \in {"continuing", "settled", "idle"}
  BY DEF Consume, Conclude, Release, Step, runVars, queueVars, KernelInv
<1>2. R!RunsTypeOK' /\ EndedFirst' /\ FailedIsGone' /\ WaitingIsFresh'
  BY <1>1 DEF R!RunsTypeOK, EndedFirst, FailedIsGone, WaitingIsFresh, Unstarted, R!Live
<1>3. InHandRow' /\ JobsApart' /\ CallbackOwed'
  BY <1>1 DEF InHandRow, InHand, JobsApart, CallbackOwed, R!Live
<1> QED
  BY <1>2, <1>3

\* The task of a run is over: its outcome is set and its finally block done.
LEMMA TurnEndsRuns ==
  ASSUME KernelInv, KernelRunsInv, NEW i \in Items, TurnEnds(i)
  PROVE  KernelRunsInv'
<1> USE DEF KernelRunsInv, HandInv
<1>0. PICK t \in {"completed", "failed", "aborted"} : R!TurnEnd(i, t)
  BY DEF TurnEnds
<1>1. /\ turn[i] = "running" /\ turn' = [turn EXCEPT ![i] = "none"]
      /\ run' = [run EXCEPT ![i] = "none"]
      /\ micro' = [micro EXCEPT ![i] = IF R!Live(i) /\ i \in callback THEN t ELSE @]
      /\ callback' = callback \ {i}
      /\ UNCHANGED <<prompt, waiting, status, proc>>
  BY <1>0 DEF R!TurnEnd, TurnEnds, Hosted, queueVars
<1>2. current' \in [Sessions -> Items \cup {None}]
  BY <1>0 DEF R!TurnEnd, R!RunsTypeOK
<1>3. R!RunsTypeOK' /\ EndedFirst'
  BY <1>1, <1>2 DEF R!RunsTypeOK, R!RunTerminal, R!TurnState, EndedFirst, R!Live, R!LiveState
<1>4. FailedIsGone' /\ WaitingIsFresh'
  BY <1>1 DEF FailedIsGone, WaitingIsFresh, Unstarted, R!RunsTypeOK
<1>5. InHandRow' /\ JobsApart'
  BY <1>1 DEF InHandRow, InHand, JobsApart, R!RunsTypeOK, R!Live, R!LiveState
<1>6. CallbackOwed'
  BY <1>1 DEF CallbackOwed, R!RunsTypeOK, R!Live, R!LiveState
<1> QED
  BY <1>3, <1>4, <1>5, <1>6

LEMMA CrashRuns ==
  ASSUME KernelInv, KernelRunsInv, Crash
  PROVE  KernelRunsInv'
<1>1. /\ run' = R!NoTurns /\ micro' = R!NoTurns /\ turn' = R!NoTurns
      /\ current' = R!NoSessions /\ prompt' = R!NoSessions
      /\ callback' = {} /\ waiting' = R!NoWaits
      /\ proc' = [i \in Items |-> "idle"]
  BY DEF Crash, R!RunsReset
<1>2. R!RunsTypeOK'
  BY <1>1 DEF R!RunsTypeOK, R!NoTurns, R!NoSessions, R!NoWaits, R!TurnState
<1>3. HandInv'
  BY <1>1, KernelAssumption
     DEF HandInv, EndedFirst, FailedIsGone, WaitingIsFresh, Unstarted, InHandRow, InHand,
         JobsApart, CallbackOwed, R!NoTurns, R!Live, R!LiveState
<1> QED
  BY <1>2, <1>3 DEF KernelRunsInv

LEMMA StutterRuns ==
  ASSUME KernelRunsInv, UNCHANGED vars
  PROVE  KernelRunsInv'
BY DEF KernelRunsInv, vars, runVars, queueVars, R!RunsTypeOK, HandInv, EndedFirst, FailedIsGone,
       WaitingIsFresh, Unstarted, InHandRow, InHand, JobsApart, CallbackOwed, R!Live

---------------------------------------------------------------------------
(* The rest of the state.                                                  *)

RestTypeOK ==
  /\ up \in BOOLEAN /\ stopped \in BOOLEAN /\ mode \in Modes /\ crashes \in 0..MaxCrashes
  /\ pumpScheduled \in BOOLEAN /\ pumping \in BOOLEAN
  /\ enq \in [Messages -> EnqState] /\ cont \in [Conts -> ContState]
  /\ cancelled \subseteq Sessions /\ jobs \subseteq Conts

LEMMA RestByMessage ==
  ASSUME RestTypeOK, NEW m \in Messages, Receive(m) \/ Admit(m) \/ InterruptEnds(m)
  PROVE  RestTypeOK'
<1>1. SessionOf[m] \in Sessions
  BY QueueAssumption, KernelAssumption
<1>2. CASE Receive(m)
  BY <1>1, <1>2 DEF Receive, ReceiveStop, ReceivePreempting, ReceiveInterrupting, ReceiveInjected,
     ReceiveCollected, ReceiveQueued, Offer, CancelSession, Goto, RestTypeOK, EnqState, ContState,
     pumpVars, contVars, lifeVars
<1>3. CASE Admit(m)
  BY <1>3 DEF Admit, Decided, Offer, Enqueued, Collected, EnqueueFails, SchedulePump, Goto,
     RestTypeOK, EnqState, pumpVars, contVars, lifeVars
<1>4. CASE InterruptEnds(m)
  BY <1>4 DEF InterruptEnds, Hosted, RestTypeOK, pumpVars, contVars, lifeVars
<1> QED
  BY <1>2, <1>3, <1>4

LEMMA RestByItem ==
  ASSUME RestTypeOK, NEW i \in Items, ItemStep(i)
  PROVE  RestTypeOK'
<1> USE DEF RestTypeOK, lifeVars, contVars, pumpVars
<1>1. CASE PumpClaim(i)
  BY <1>1 DEF PumpClaim
<1>2. CASE Refuse(i) \/ LaunchFails(i)
  BY <1>2 DEF Refuse, LaunchFails, Fail, SchedulePump
<1>3. CASE Launch(i) \/ JobBegin(i)
  BY <1>3 DEF Launch, JobBegin
<1>4. CASE OnTerminal(i)
  BY <1>4 DEF OnTerminal, Settle, Fail, SchedulePump
<1>5. CASE Consume(i) \/ Conclude(i) \/ Release(i)
  BY <1>5 DEF Consume, Conclude, Release, ContState, SchedulePump
<1>6. ASSUME NEW c \in Conts, EnqueueContinuation(i, c) PROVE RestTypeOK'
  BY <1>6 DEF EnqueueContinuation, ContState, SchedulePump
<1> QED
  BY <1>1, <1>2, <1>3, <1>4, <1>5, <1>6 DEF ItemStep

LEMMA RestNext == RestTypeOK /\ [KernelNext]_vars => RestTypeOK'
<1> SUFFICES ASSUME RestTypeOK, [KernelNext]_vars PROVE RestTypeOK'
  OBVIOUS
<1> USE DEF RestTypeOK, lifeVars, contVars, pumpVars
<1>1. ASSUME NEW i \in Items, TurnMoves(i) \/ TurnEnds(i) \/ TimePasses(i) PROVE RestTypeOK'
  BY <1>1 DEF TurnMoves, TurnEnds, Hosted, TimePasses
<1>2. ASSUME NEW i \in Items, NEW t, JobEnd(i, t) PROVE RestTypeOK'
  BY <1>2 DEF JobEnd, Settle, Fail, SchedulePump
<1>3. ASSUME NEW i \in Items, NEW c \in Conts, ScheduleContinuation(i, c) PROVE RestTypeOK'
  BY <1>3 DEF ScheduleContinuation, ContState
<1>4. CASE PollTick \/ PumpBegin \/ PumpEnd \/ Stop \/ Reconfigure
  BY <1>4 DEF PollTick, PumpBegin, PumpEnd, Stop, Reconfigure, SchedulePump
<1>5. CASE Crash
  <2>1. crashes' \in 0..MaxCrashes
    BY <1>5, KernelAssumption DEF Crash
  <2> QED
    BY <1>5, <2>1 DEF Crash, EnqState, ContState
<1>6. CASE Start
  BY <1>6 DEF Start
<1>7. CASE UNCHANGED vars
  BY <1>7 DEF vars
<1> QED
  BY <1>1, <1>2, <1>3, <1>4, <1>5, <1>6, <1>7, RestByMessage, RestByItem DEF KernelNext

---------------------------------------------------------------------------
(* The theorems.                                                           *)

LEMMA InitRuns == KernelInit => KernelRunsInv /\ RestTypeOK
<1> SUFFICES ASSUME KernelInit PROVE KernelRunsInv /\ RestTypeOK
  OBVIOUS
<1>1. R!RunsTypeOK
  BY DEF KernelInit, R!RunsInit, R!RunsTypeOK, R!NoTurns, R!NoSessions, R!NoWaits, R!TurnState
<1>2. HandInv
  BY KernelAssumption
     DEF KernelInit, R!RunsInit, HandInv, EndedFirst, FailedIsGone, WaitingIsFresh, Unstarted,
         InHandRow, InHand, JobsApart, CallbackOwed, R!NoTurns, R!Live, R!LiveState
<1>3. RestTypeOK
  <2>1. 0 \in 0..MaxCrashes
    BY KernelAssumption
  <2>2. /\ up = TRUE /\ stopped = FALSE /\ mode \in Modes /\ crashes = 0
        /\ pumpScheduled = TRUE /\ pumping = FALSE /\ cancelled = {} /\ jobs = {}
    BY DEF KernelInit
  <2>3. enq \in [Messages -> EnqState] /\ cont \in [Conts -> ContState]
    BY DEF KernelInit, EnqState, ContState
  <2> QED
    BY <2>1, <2>2, <2>3 DEF RestTypeOK
<1> QED
  BY <1>1, <1>2, <1>3 DEF KernelRunsInv

LEMMA NextRuns ==
  ASSUME KernelInv, KernelRunsInv, RestTypeOK, [KernelNext]_vars
  PROVE  KernelRunsInv'
<1>1. ASSUME NEW i \in Items, ItemStep(i) PROVE KernelRunsInv'
  <2>1. ASSUME NEW c \in Conts, EnqueueContinuation(i, c) PROVE KernelRunsInv'
    BY <2>1, OutsideInv
  <2> QED
    BY <1>1, <2>1, ClaimRuns, FailRuns, LaunchRuns, JobBeginRuns, OnTerminalRuns, AfterwardsRuns
       DEF ItemStep, RestTypeOK
<1>2. ASSUME NEW m \in Messages, Receive(m) \/ Admit(m) \/ InterruptEnds(m)
      PROVE  KernelRunsInv'
  BY <1>2, OutsideInv, IdleStepInv
<1>3. ASSUME NEW i \in Items, TurnMoves(i) \/ TimePasses(i) PROVE KernelRunsInv'
  BY <1>3, IdleStepInv
<1>4. ASSUME NEW i \in Items, NEW c \in Conts, ScheduleContinuation(i, c) PROVE KernelRunsInv'
  BY <1>4, IdleStepInv
<1>5. CASE PollTick \/ PumpBegin \/ PumpEnd \/ Stop \/ Reconfigure \/ Start
  BY <1>5, IdleStepInv
<1>6. ASSUME NEW i \in Items, NEW t, TurnEnds(i) \/ JobEnd(i, t) PROVE KernelRunsInv'
  BY <1>6, TurnEndsRuns, JobEndRuns
<1>7. CASE Crash \/ UNCHANGED vars
  BY <1>7, CrashRuns, StutterRuns
<1> QED
  BY <1>1, <1>2, <1>3, <1>4, <1>5, <1>6, <1>7 DEF KernelNext

THEOREM KernelRunsInvariant == KernelSpec => [](KernelInv /\ KernelRunsInv /\ RestTypeOK)
<1>1. /\ KernelInv /\ KernelRunsInv /\ RestTypeOK
      /\ [KernelNext]_vars
      => KernelRunsInv' /\ RestTypeOK'
  BY NextRuns, RestNext
<1> QED
  BY <1>1, InitRuns, KernelInvariant, PTL DEF KernelSpec

\* The whole state of the kernel and its runs stays well typed.
THEOREM KernelTypes == KernelSpec => []KernelTypeOK
<1>1. KernelInv /\ KernelRunsInv /\ RestTypeOK => KernelTypeOK
  BY QueueAssumption
     DEF KernelInv, KernelRunsInv, RestTypeOK, KernelTypeOK, LaneDiscipline, Busy
<1> QED
  BY <1>1, KernelRunsInvariant, PTL

\* Every item handed to the host is owed a callback, and nothing else is: no
\* lane waits for an answer that will not come.
THEOREM CallbacksOwed == KernelSpec => []CallbackOwed
<1>1. KernelRunsInv => CallbackOwed
  BY DEF KernelRunsInv, HandInv
<1> QED
  BY <1>1, KernelRunsInvariant, PTL

\* A run id is free whenever an item is about to be launched, so that the
\* finally block of one attempt never meets the run of another.
THEOREM RunIdsFree == KernelSpec => []RunIdFree
<1>1. KernelRunsInv => RunIdFree
  BY DEF KernelRunsInv, HandInv, WaitingIsFresh, Unstarted, RunIdFree
<1> QED
  BY <1>1, KernelRunsInvariant, PTL

---------------------------------------------------------------------------
(* Continuations.                                                          *)

ContStep == UNCHANGED contVars \/ CancelledHasNone'

LEMMA ContByMessage ==
  ASSUME CancelledHasNone, NEW m \in Messages, Receive(m) \/ Admit(m) \/ InterruptEnds(m)
  PROVE  ContStep
<1>1. CASE CancelSession(SessionOf[m])
  BY <1>1 DEF CancelSession, ContStep, CancelledHasNone
<1>2. CASE UNCHANGED contVars
  BY <1>2 DEF ContStep
<1> QED
  BY <1>1, <1>2 DEF Receive, ReceiveStop, ReceivePreempting, ReceiveInterrupting, ReceiveInjected,
     ReceiveCollected, ReceiveQueued, Admit, Decided, Enqueued, Collected, EnqueueFails,
     InterruptEnds, Hosted

LEMMA ContByItem ==
  ASSUME CancelledHasNone, NEW i \in Items, ItemStep(i)
  PROVE  ContStep
<1> USE DEF ContStep, CancelledHasNone
<1>1. CASE PumpClaim(i)
  BY <1>1 DEF PumpClaim
<1>2. CASE Consume(i) \/ Conclude(i)
  BY <1>2 DEF Consume, Conclude
<1>3. ASSUME NEW c \in Conts, EnqueueContinuation(i, c) PROVE ContStep
  BY <1>3 DEF EnqueueContinuation
<1>4. CASE Refuse(i) \/ Launch(i) \/ LaunchFails(i) \/ JobBegin(i) \/ OnTerminal(i) \/ Release(i)
  BY <1>4 DEF Refuse, Launch, LaunchFails, JobBegin, OnTerminal, Release
<1> QED
  BY <1>1, <1>2, <1>3, <1>4 DEF ItemStep

LEMMA ContNext == CancelledHasNone /\ RestTypeOK /\ [KernelNext]_vars => CancelledHasNone'
<1> SUFFICES ASSUME CancelledHasNone, RestTypeOK, [KernelNext]_vars PROVE ContStep
  BY DEF ContStep, contVars, CancelledHasNone
<1> USE DEF ContStep
<1>1. ASSUME NEW i \in Items, NEW t,
             TurnMoves(i) \/ TurnEnds(i) \/ TimePasses(i) \/ JobEnd(i, t)
      PROVE  ContStep
  BY <1>1 DEF TurnMoves, TurnEnds, Hosted, TimePasses, JobEnd
<1>2. ASSUME NEW i \in Items, NEW c \in Conts, ScheduleContinuation(i, c) PROVE ContStep
  BY <1>2 DEF ScheduleContinuation, CancelledHasNone, RestTypeOK
<1>3. CASE PollTick \/ PumpBegin \/ PumpEnd \/ Stop \/ Reconfigure \/ Start
  BY <1>3 DEF PollTick, PumpBegin, PumpEnd, Stop, Reconfigure, Start
<1>4. CASE Crash
  BY <1>4 DEF Crash, CancelledHasNone
<1>5. CASE UNCHANGED vars
  BY <1>5 DEF vars
<1> QED
  BY <1>1, <1>2, <1>3, <1>4, <1>5, ContByMessage, ContByItem DEF KernelNext

\* After /stop, a preempting message or a crash, no continuation scheduled
\* before is left to be consumed by the next turn of the session.
THEOREM NoneLeft == KernelSpec => []CancelledHasNone
<1>1. KernelInit => CancelledHasNone
  BY DEF KernelInit, CancelledHasNone
<1> QED
  BY <1>1, ContNext, KernelRunsInvariant, PTL DEF KernelSpec

---------------------------------------------------------------------------
(* The registry of runs inside the kernel.  ExecutionProofs says the       *)
(* same of the host on its own; here the runs share their sessions and     *)
(* their prompts with the turns of jobs, and the process may die.          *)

\* The run and the callback of a message are there while its task is.
TasksOwned ==
  /\ \A m \in Messages : run[m] # "none" <=> turn[m] # "none"
  /\ callback = {m \in Messages : turn[m] # "none"}

RegistryInv == R!LiveIndex /\ TasksOwned

\* A run that ends has its callback queued in that step, no other has.
OnceStep ==
  \A x \in Items :
    /\ R!Live(x) /\ run'[x] \notin R!LiveState => micro[x] = "none" /\ micro'[x] # "none"
    /\ ~R!Live(x) => micro'[x] \in {micro[x], "none"}

\* No task begins or ends.
SameTasks == \A x \in Messages : turn'[x] = "none" <=> turn[x] = "none"

LEMMA LiveIsOwed ==
  ASSUME HandInv, NEW x \in Items, R!Live(x)
  PROVE  x \in Messages /\ x \in callback /\ micro[x] = "none"
<1>1. micro[x] = "none"
  BY DEF HandInv, EndedFirst
<1>2. proc[x] = "detached" /\ x \in callback
  BY <1>1 DEF HandInv, CallbackOwed
<1> QED
  BY <1>1, <1>2 DEF HandInv, JobsApart

\* No run is created or ended.
LEMMA GrowRegistry ==
  ASSUME KernelRunsInv, RegistryInv, UNCHANGED <<current, callback>>, SameTasks,
         \A x \in Items : run'[x] = run[x] \/ (R!Live(x) /\ R!Live(x)'),
         \A x \in Items : micro'[x] \in {micro[x], "none"}
  PROVE  RegistryInv' /\ OnceStep
<1>1. \A x \in Items : R!Live(x)' <=> R!Live(x)
  BY DEF R!Live
<1>2. R!LiveIndex'
  <2>1. \A s \in Sessions : current[s] # None => current[s] \in Items
    BY DEF KernelRunsInv, R!RunsTypeOK
  <2> QED
    BY <1>1, <2>1 DEF RegistryInv, R!LiveIndex
<1>3. TasksOwned'
  BY KernelAssumption DEF RegistryInv, TasksOwned, SameTasks, R!Live, R!LiveState
<1>4. OnceStep
  BY <1>1 DEF OnceStep, R!Live
<1> QED
  BY <1>2, <1>3, <1>4 DEF RegistryInv

\* abortSession: by the index it ends the run of the session and no other.
LEMMA AbortRegistry ==
  ASSUME KernelRunsInv, RegistryInv, NEW s \in Sessions, R!AbortSession(s),
         UNCHANGED callback, SameTasks
  PROVE  RegistryInv' /\ OnceStep
<1> DEFINE r == current[s]
<1>1. CASE UNCHANGED <<run, current, micro>>
  BY <1>1, GrowRegistry
<1>2. CASE r # None /\ R!SetTerminal(r, "aborted")
  <2>1. r \in Items /\ SessionOf[r] = s /\ R!Live(r)
    BY <1>2 DEF KernelRunsInv, R!RunsTypeOK, RegistryInv, R!LiveIndex
  <2>2. r \in Messages /\ r \in callback /\ micro[r] = "none"
    BY <2>1, LiveIsOwed DEF KernelRunsInv
  <2>3. /\ run' = [run EXCEPT ![r] = "aborted"]
        /\ current' = [current EXCEPT ![s] = None]
        /\ micro' = [micro EXCEPT ![r] = "aborted"]
    BY <1>2, <2>1, <2>2 DEF R!SetTerminal
  <2> HIDE DEF r
  <2>4. \A x \in Items : R!Live(x)' <=> R!Live(x) /\ x # r
    BY <2>1, <2>3 DEF KernelRunsInv, R!RunsTypeOK, R!Live, R!LiveState
  <2>5. R!LiveIndex'
    BY <2>1, <2>3, <2>4 DEF KernelRunsInv, R!RunsTypeOK, RegistryInv, R!LiveIndex
  <2>6. TasksOwned'
    BY <2>1, <2>2, <2>3, KernelAssumption
       DEF KernelRunsInv, R!RunsTypeOK, RegistryInv, TasksOwned, SameTasks
  <2>7. OnceStep
    BY <2>1, <2>2, <2>3, <2>4 DEF KernelRunsInv, R!RunsTypeOK, OnceStep, R!Live
  <2> QED
    BY <2>5, <2>6, <2>7 DEF RegistryInv
<1> QED
  BY <1>1, <1>2 DEF R!AbortSession

LEMMA UnchangedRegistry ==
  ASSUME KernelRunsInv, RegistryInv, UNCHANGED <<run, current, callback, micro>>, SameTasks
  PROVE  RegistryInv' /\ OnceStep
BY GrowRegistry

LEMMA MessageRegistry ==
  ASSUME KernelRunsInv, RegistryInv, NEW m \in Messages,
         Receive(m) \/ Admit(m) \/ InterruptEnds(m)
  PROVE  RegistryInv' /\ OnceStep
<1>1. UNCHANGED <<callback, turn>> /\ SameTasks
  BY DEF Receive, ReceiveStop, ReceivePreempting, ReceiveInterrupting, ReceiveInjected,
     ReceiveCollected, ReceiveQueued, Admit, Decided, Enqueued, Collected, EnqueueFails,
     InterruptEnds, R!Interrupt, R!InterruptEnd, runVars, SameTasks
<1>2. ASSUME NEW s \in Sessions, R!AbortSession(s) PROVE RegistryInv' /\ OnceStep
  BY <1>1, <1>2, AbortRegistry
<1>3. CASE UNCHANGED <<run, current, callback, micro>>
  BY <1>1, <1>3, UnchangedRegistry
<1>4. CASE R!Interrupt(m, SessionOf[m])
  <2>1. SessionOf[m] \in Sessions
    BY QueueAssumption, KernelAssumption
  <2> QED
    BY <1>2, <1>3, <1>4, <2>1 DEF R!Interrupt
<1>5. CASE R!InterruptEnd(m)
  <2>1. waiting[m] \in Sessions
    BY <1>5 DEF KernelRunsInv, R!RunsTypeOK, R!InterruptEnd, R!Idle
  <2> QED
    BY <1>2, <1>5, <2>1 DEF R!InterruptEnd
<1> QED
  BY <1>3, <1>4, <1>5 DEF Receive, ReceiveStop, ReceivePreempting, ReceiveInterrupting,
     ReceiveInjected, ReceiveCollected, ReceiveQueued, Admit, Decided, Enqueued, Collected,
     EnqueueFails, InterruptEnds, runVars

LEMMA TurnMovesRegistry ==
  ASSUME KernelRunsInv, RegistryInv, NEW i \in Items, TurnMoves(i)
  PROVE  RegistryInv' /\ OnceStep
<1> USE DEF TurnMoves, R!TurnStep
<1>1. turn \in [Items -> R!TurnState] /\ SessionOf[i] \in Sessions
  BY QueueAssumption DEF KernelRunsInv, R!RunsTypeOK
<1>2. SameTasks
  BY <1>1, KernelAssumption DEF R!TurnStart, R!ResetSession, R!PromptBegin, R!Stream, R!PromptEnd,
     SameTasks
<1>3. CASE R!TurnStart(i) \/ R!Stream(i) \/ R!PromptBegin(i) \/ R!PromptEnd(i)
  BY <1>2, <1>3, GrowRegistry
     DEF R!TurnStart, R!Stream, R!PromptBegin, R!PromptEnd, R!Live, R!LiveState,
         KernelRunsInv, R!RunsTypeOK
<1>4. CASE R!ResetSession(i)
  BY <1>1, <1>2, <1>4, AbortRegistry, UnchangedRegistry DEF R!ResetSession
<1> QED
  BY <1>3, <1>4

LEMMA LaunchRegistry ==
  ASSUME KernelInv, KernelRunsInv, RegistryInv, NEW i \in Items, Launch(i)
  PROVE  RegistryInv' /\ OnceStep
<1> DEFINE s == SessionOf[i]
           superseded == {x \in Items : x = current[s] /\ R!Live(x)}
<1>1. /\ run' = [x \in Items |-> IF x = i THEN "accepted"
                                 ELSE IF x \in superseded THEN "aborted" ELSE run[x]]
      /\ micro' = [x \in Items |-> IF x \in superseded \cap callback
                                   THEN "aborted" ELSE micro[x]]
      /\ current'  = [current EXCEPT ![s] = i]
      /\ callback' = callback \cup {i}
      /\ turn'     = [turn EXCEPT ![i] = "queued"]
  BY DEF Launch, R!StartRun
<1>2. i \in Messages /\ Unstarted(i) /\ ~R!Live(i) /\ i # None /\ s \in Sessions
  BY QueueAssumption, KernelAssumption
     DEF Launch, KernelRunsInv, HandInv, WaitingIsFresh, JobsApart, Unstarted, R!Live, R!LiveState
<1>3. \A x \in Items : SessionOf[x] = s /\ R!Live(x) => x \in superseded
  BY DEF RegistryInv, R!LiveIndex
<1>4. \A x \in superseded : x # i /\ SessionOf[x] = s /\ x \in callback /\ micro[x] = "none"
  BY <1>2, LiveIsOwed, KernelAssumption DEF KernelRunsInv, RegistryInv, R!LiveIndex
<1> HIDE DEF superseded
<1>5. superseded \subseteq Items /\ \A x \in superseded : R!Live(x)
  BY DEF superseded
<1>6. \A x \in Items : R!Live(x)' <=> x = i \/ (R!Live(x) /\ x \notin superseded)
  BY <1>1 DEF R!Live, R!LiveState
<1>7. R!LiveIndex'
  <2>1. ASSUME NEW x \in Sessions, current'[x] # None
        PROVE  SessionOf[current'[x]] = x /\ R!Live(current[x])'
    <3>1. CASE x = s
      <4>1. current'[x] = i /\ run'[i] = "accepted"
        BY <1>1, <1>2, <3>1 DEF KernelRunsInv, R!RunsTypeOK
      <4> QED
        BY <3>1, <4>1 DEF R!Live, R!LiveState
    <3>2. CASE x # s
      <4>1. /\ current'[x] = current[x] /\ current[x] \in Items
            /\ SessionOf[current[x]] = x /\ R!Live(current[x])
        BY <1>1, <2>1, <3>2 DEF KernelRunsInv, R!RunsTypeOK, RegistryInv, R!LiveIndex
      <4>2. run'[current[x]] \in R!LiveState
        BY <1>1, <1>4, <3>2, <4>1 DEF R!Live, R!LiveState
      <4> QED
        BY <4>1, <4>2 DEF R!Live
    <3> QED
      BY <3>1, <3>2
  <2>2. ASSUME NEW x \in Items, R!Live(x)' PROVE current'[SessionOf[x]] = x
    <3>1. CASE x = i
      BY <1>1, <1>2, <3>1 DEF KernelRunsInv, R!RunsTypeOK
    <3>2. CASE x # i
      <4>1. R!Live(x) /\ SessionOf[x] # s
        BY <1>3, <1>6, <2>2, <3>2
      <4> QED
        BY <1>1, <4>1, QueueAssumption DEF KernelRunsInv, R!RunsTypeOK, RegistryInv, R!LiveIndex
    <3> QED
      BY <3>1, <3>2
  <2> QED
    BY <2>1, <2>2 DEF R!LiveIndex, R!Live
<1>8. TasksOwned'
  BY <1>1, <1>2, <1>5, KernelAssumption
     DEF KernelRunsInv, R!RunsTypeOK, RegistryInv, TasksOwned, R!Live, R!LiveState
<1>9. OnceStep
  BY <1>1, <1>2, <1>4, <1>5, <1>6 DEF OnceStep, R!Live, Unstarted
<1> QED
  BY <1>7, <1>8, <1>9 DEF RegistryInv

LEMMA TurnEndsRegistry ==
  ASSUME KernelInv, KernelRunsInv, RegistryInv, NEW i \in Items, TurnEnds(i)
  PROVE  RegistryInv' /\ OnceStep
<1> DEFINE s == SessionOf[i]
<1>0. PICK t \in {"completed", "failed", "aborted"} : R!TurnEnd(i, t)
  BY DEF TurnEnds
<1>1. /\ turn' = [turn EXCEPT ![i] = "none"]
      /\ run' = [run EXCEPT ![i] = "none"]
      /\ micro' = [micro EXCEPT ![i] = IF R!Live(i) /\ i \in callback THEN t ELSE @]
      /\ callback' = callback \ {i}
      /\ current' = [current EXCEPT ![s] = IF R!Live(i) \/ @ = i THEN None ELSE @]
      /\ s \in Sessions
  BY <1>0, QueueAssumption DEF R!TurnEnd
<1>2. \A x \in Items : R!Live(x)' <=> R!Live(x) /\ x # i
  BY <1>1 DEF KernelRunsInv, R!RunsTypeOK, R!Live, R!LiveState
<1>3. R!LiveIndex'
  <2>1. ASSUME NEW x \in Sessions, current'[x] # None
        PROVE  SessionOf[current'[x]] = x /\ R!Live(current[x])'
    <3>1. /\ current'[x] = current[x] /\ current[x] \in Items
          /\ SessionOf[current[x]] = x /\ R!Live(current[x])
      BY <1>1, <2>1 DEF KernelRunsInv, R!RunsTypeOK, RegistryInv, R!LiveIndex
    <3>2. current[x] # i
      BY <1>1, <2>1, <3>1 DEF KernelRunsInv, R!RunsTypeOK
    <3>3. run'[current[x]] = run[current[x]]
      BY <1>1, <3>1, <3>2 DEF KernelRunsInv, R!RunsTypeOK
    <3> QED
      BY <3>1, <3>3 DEF R!Live
  <2>2. ASSUME NEW x \in Items, R!Live(x)' PROVE current'[SessionOf[x]] = x
    <3>1. R!Live(x) /\ x # i /\ current[SessionOf[x]] = x /\ SessionOf[x] \in Sessions
      BY <1>2, <2>2, QueueAssumption DEF RegistryInv, R!LiveIndex
    <3>2. SessionOf[x] = s => ~R!Live(i)
      BY <3>1 DEF RegistryInv, R!LiveIndex
    <3> QED
      BY <1>1, <3>1, <3>2 DEF KernelRunsInv, R!RunsTypeOK
  <2> QED
    BY <2>1, <2>2 DEF R!LiveIndex, R!Live
<1>4. TasksOwned'
  BY <1>1, KernelAssumption DEF KernelRunsInv, R!RunsTypeOK, RegistryInv, TasksOwned
<1>5. OnceStep
  <2>1. R!Live(i) => i \in callback /\ micro[i] = "none"
    BY LiveIsOwed DEF KernelRunsInv
  <2> QED
    BY <1>1, <1>2, <2>1 DEF KernelRunsInv, R!RunsTypeOK, OnceStep, R!Live
<1> QED
  BY <1>3, <1>4, <1>5 DEF RegistryInv

\* The other steps of an item, and of its job.
LEMMA ItemRegistry ==
  ASSUME KernelInv, KernelRunsInv, RegistryInv, NEW i \in Items,
         ItemStep(i) \/ (\E t \in {"completed", "failed"} : JobEnd(i, t))
  PROVE  RegistryInv' /\ OnceStep
<1>1. CASE Launch(i)
  BY <1>1, LaunchRegistry
<1>2. CASE OnTerminal(i)
  BY <1>2, GrowRegistry DEF OnTerminal, R!Deliver, KernelRunsInv, R!RunsTypeOK, SameTasks
<1>3. CASE JobBegin(i) \/ (\E t \in {"completed", "failed"} : JobEnd(i, t))
  <2>1. i \notin Messages
    BY <1>3, KernelAssumption DEF JobBegin, JobEnd, KernelRunsInv, HandInv, JobsApart
  <2>2. SameTasks
    BY <1>3, <2>1, KernelAssumption DEF JobBegin, JobEnd, KernelRunsInv, R!RunsTypeOK, SameTasks
  <2> QED
    BY <1>3, <2>2, UnchangedRegistry DEF JobBegin, JobEnd
<1>4. CASE \/ PumpClaim(i) \/ Refuse(i) \/ LaunchFails(i) \/ Consume(i) \/ Conclude(i)
           \/ Release(i) \/ \E c \in Conts : EnqueueContinuation(i, c)
  BY <1>4, UnchangedRegistry
     DEF PumpClaim, Refuse, LaunchFails, Consume, Conclude, Release, EnqueueContinuation,
         runVars, SameTasks
<1> QED
  BY <1>1, <1>2, <1>3, <1>4 DEF ItemStep

LEMMA CrashRegistry ==
  ASSUME Crash
  PROVE  RegistryInv'
BY KernelAssumption
   DEF Crash, R!RunsReset, RegistryInv, R!LiveIndex, TasksOwned, R!NoTurns, R!NoSessions,
       R!Live, R!LiveState

LEMMA RegistryNext ==
  ASSUME KernelInv, KernelRunsInv, RegistryInv, KernelNext
  PROVE  RegistryInv' /\ (up' => OnceStep)
<1>1. CASE \E m \in Messages : Receive(m) \/ Admit(m) \/ InterruptEnds(m)
  BY <1>1, MessageRegistry
<1>2. CASE \E i \in Items : ItemStep(i) \/ \E t \in {"completed", "failed"} : JobEnd(i, t)
  BY <1>2, ItemRegistry
<1>3. CASE \E i \in Items : TurnMoves(i) \/ TurnEnds(i)
  BY <1>3, TurnMovesRegistry, TurnEndsRegistry
<1>4. CASE \/ \E i \in Items : TimePasses(i) \/ \E c \in Conts : ScheduleContinuation(i, c)
           \/ PollTick \/ PumpBegin \/ PumpEnd \/ Stop \/ Reconfigure \/ Start
  BY <1>4, UnchangedRegistry
     DEF TimePasses, ScheduleContinuation, PollTick, PumpBegin, PumpEnd, Stop, Reconfigure, Start,
         runVars, SameTasks
<1>5. CASE Crash
  BY <1>5, CrashRegistry DEF Crash
<1> QED
  BY <1>1, <1>2, <1>3, <1>4, <1>5 DEF KernelNext

LEMMA RegistryInit == KernelInit => RegistryInv
BY KernelAssumption
   DEF KernelInit, R!RunsInit, RegistryInv, R!LiveIndex, TasksOwned, R!NoTurns, R!NoSessions,
       R!Live, R!LiveState

\* Also with jobs that prompt the same sessions, with interrupts at any time
\* and with crashes, the index of the registry is that of the live runs, and
\* a message has a run and a callback exactly while its task exists.
THEOREM RegistryConsistent == KernelSpec => [](R!LiveIndex /\ TasksOwned)
<1>1. KernelInv /\ KernelRunsInv /\ RegistryInv /\ [KernelNext]_vars => RegistryInv'
  <2>1. ASSUME RegistryInv, UNCHANGED vars PROVE RegistryInv'
    BY <2>1 DEF vars, runVars, RegistryInv, R!LiveIndex, R!Live, TasksOwned
  <2> QED
    BY <2>1, RegistryNext
<1>2. RegistryInv <=> R!LiveIndex /\ TasksOwned
  BY DEF RegistryInv
<1> QED
  BY <1>1, <1>2, RegistryInit, KernelRunsInvariant, PTL DEF KernelSpec

\* While the process lives, whoever ends a run queues its callback in that
\* step, and no callback is queued twice, overwritten or lost.
THEOREM CallbackOncePerRun == KernelSpec => [][up' => OnceStep]_vars
<1>1. KernelInv /\ KernelRunsInv /\ RegistryInv /\ [KernelNext]_vars => [up' => OnceStep]_vars
  BY RegistryNext
<1>2. R!LiveIndex /\ TasksOwned => RegistryInv
  BY DEF RegistryInv
<1> QED
  BY <1>1, <1>2, RegistryConsistent, KernelRunsInvariant, PTL DEF KernelSpec

\* A run that may still answer holds the lane of its session.
LiveHoldsLane ==
  \A i \in Items : R!Live(i) =>
    /\ SessionOf[i] \in lanes
    /\ \A j \in Busy : SessionOf[j] = SessionOf[i] => j = i

\* Whatever interrupts, resets or supersedes: a run that may still answer is
\* that of the one item in process for its session.  Only a task whose run
\* was ended for it can go on beside the next one.
THEOREM LiveRunsHoldLanes == KernelSpec => []LiveHoldsLane
<1>1. KernelInv /\ KernelRunsInv => LiveHoldsLane
  <2> SUFFICES ASSUME KernelInv, KernelRunsInv, NEW i \in Items, R!Live(i)
               PROVE  /\ SessionOf[i] \in lanes
                      /\ \A j \in Busy : SessionOf[j] = SessionOf[i] => j = i
    BY DEF LiveHoldsLane
  <2>1. i \in Busy
    BY DEF KernelRunsInv, HandInv, CallbackOwed, Busy
  <2> QED
    BY <2>1 DEF KernelInv, LaneDiscipline
<1> QED
  BY <1>1, KernelRunsInvariant, PTL

---------------------------------------------------------------------------
(* Turns, when nothing interrupts.                                         *)

\* No message is a /stop, a /new or a /reset, and the configuration has none
\* of the two modes that abort the run of a session.  With any of them turns
\* overlap: the run is ended, its callback frees the lane, and the task that
\* nobody stopped goes on.
Uninterrupted ==
  Stops = {} /\ Resets = {} /\ Modes \cap {"interrupt", "steer-backlog"} = {}

\* A turn is taken on behalf of an item that holds its lane.
TurnHasLane ==
  \A i \in Items : turn[i] # "none" => proc[i] \in {"detached", "job"} /\ turn[i] # "command"

\* The callback of a run is queued when its task is over.
AnsweredLast == \A i \in Items : micro[i] # "none" => turn[i] = "none"

PromptOwned ==
  \A s \in Sessions : prompt[s] # None =>
    SessionOf[prompt[s]] = s /\ turn[prompt[s]] = "prompting"

NobodyWaits == \A m \in Messages : waiting[m] = None

SerialInv == TurnHasLane /\ AnsweredLast /\ PromptOwned /\ NobodyWaits

\* A step that leaves the runs alone and moves no item off its turn.
LEMMA RunsKeptSerial ==
  ASSUME SerialInv, UNCHANGED <<micro, turn, prompt, waiting>>,
         \A i \in Items : turn[i] # "none" => proc'[i] = proc[i]
  PROVE  SerialInv'
BY DEF SerialInv, TurnHasLane, AnsweredLast, PromptOwned, NobodyWaits

LEMMA MessageSerial ==
  ASSUME Uninterrupted, RestTypeOK, SerialInv, NEW m \in Messages,
         Receive(m) \/ Admit(m) \/ InterruptEnds(m)
  PROVE  SerialInv'
<1>1. ~ReceiveStop(m) /\ ~ReceivePreempting(m) /\ ~ReceiveInterrupting(m)
  BY DEF Uninterrupted, RestTypeOK, ReceiveStop, ReceivePreempting, ReceiveInterrupting, Preempts
<1>2. ~InterruptEnds(m)
  BY DEF SerialInv, NobodyWaits, InterruptEnds, R!InterruptEnd, R!Idle
<1> QED
  BY <1>1, <1>2, RunsKeptSerial
     DEF Receive, ReceiveInjected, ReceiveCollected, ReceiveQueued, Admit, Decided, Enqueued,
         Collected, EnqueueFails, runVars

LEMMA TurnMovesSerial ==
  ASSUME Uninterrupted, KernelRunsInv, SerialInv, NEW i \in Items, TurnMoves(i)
  PROVE  SerialInv'
<1> DEFINE s == SessionOf[i]
<1> USE DEF SerialInv
<1>1. /\ s \in Sessions /\ UNCHANGED proc
      /\ turn \in [Items -> R!TurnState] /\ prompt \in [Sessions -> Items \cup {None}]
  BY QueueAssumption DEF TurnMoves, Hosted, KernelRunsInv, R!RunsTypeOK
<1>2. CASE R!TurnStart(i) \/ R!Stream(i)
  BY <1>1, <1>2
     DEF Uninterrupted, R!TurnStart, R!Stream, TurnHasLane, AnsweredLast, PromptOwned, NobodyWaits
<1>3. CASE R!PromptBegin(i) \/ R!PromptEnd(i)
  <2>1. /\ turn[i] \in {"running", "prompting"} /\ UNCHANGED <<micro, waiting>>
        /\ \/ turn' = [turn EXCEPT ![i] = "prompting"] /\ prompt' = [prompt EXCEPT ![s] = i]
           \/ turn' = [turn EXCEPT ![i] = "running"] /\ prompt' = [prompt EXCEPT ![s] = None]
    BY <1>3 DEF R!PromptBegin, R!PromptEnd
  <2>2. TurnHasLane' /\ AnsweredLast' /\ NobodyWaits'
    BY <1>1, <2>1 DEF TurnHasLane, AnsweredLast, NobodyWaits
  <2>3. ASSUME NEW x \in Sessions, prompt'[x] # None
        PROVE  SessionOf[prompt'[x]] = x /\ turn'[prompt'[x]] = "prompting"
    <3>1. CASE x = s
      BY <1>1, <2>1, <2>3, <3>1
    <3>2. CASE x # s
      <4>1. prompt'[x] = prompt[x] /\ prompt[x] \in Items
        BY <1>1, <2>1, <2>3, <3>2
      <4> QED
        BY <1>1, <2>1, <2>3, <3>2, <4>1 DEF PromptOwned
    <3> QED
      BY <3>1, <3>2
  <2> QED
    BY <2>2, <2>3 DEF PromptOwned
<1>4. ~R!ResetSession(i)
  BY DEF R!ResetSession, TurnHasLane
<1> QED
  BY <1>2, <1>3, <1>4 DEF TurnMoves, R!TurnStep

\* The lane keeps a session from having a second run: none is superseded.
LEMMA LaunchSerial ==
  ASSUME KernelInv, KernelRunsInv, RegistryInv, SerialInv, NEW i \in Items, Launch(i)
  PROVE  SerialInv'
<1> USE DEF SerialInv
<1> DEFINE s == SessionOf[i]
           superseded == {x \in Items : x = current[s] /\ R!Live(x)}
<1>1. /\ micro' = [x \in Items |-> IF x \in superseded \cap callback THEN "aborted" ELSE micro[x]]
      /\ turn' = [turn EXCEPT ![i] = "queued"] /\ UNCHANGED <<prompt, waiting>>
      /\ proc[i] = "claimed" /\ proc' = [proc EXCEPT ![i] = "detached"]
  BY DEF Launch, R!StartRun, Step
<1>2. Unstarted(i) /\ ~R!Live(i)
  BY <1>1 DEF KernelRunsInv, HandInv, WaitingIsFresh, Unstarted, R!Live, R!LiveState
<1>3. superseded = {}
  <2> SUFFICES ASSUME NEW x \in Items, x = current[s], R!Live(x) PROVE FALSE
    OBVIOUS
  <2>1. s \in Sessions /\ x # None
    BY QueueAssumption, KernelAssumption
  <2>2. SessionOf[x] = s
    BY <2>1 DEF RegistryInv, R!LiveIndex
  <2>3. proc[x] = "detached"
    BY DEF KernelRunsInv, HandInv, CallbackOwed
  <2>4. i \in Busy /\ x \in Busy
    BY <1>1, <2>3 DEF Busy
  <2> QED
    BY <1>2, <2>2, <2>4 DEF KernelInv, LaneDiscipline
<1>4. micro' = [x \in Items |-> micro[x]]
  BY <1>1, <1>3
<1> HIDE DEF superseded
<1>5. turn[i] = "none" /\ micro[i] = "none"
  BY <1>2 DEF Unstarted
<1>6. TurnHasLane' /\ AnsweredLast' /\ NobodyWaits'
  BY <1>1, <1>4, <1>5 DEF KernelInv, KernelRunsInv, R!RunsTypeOK, TurnHasLane, AnsweredLast, NobodyWaits
<1>7. PromptOwned'
  BY <1>1, <1>5 DEF KernelRunsInv, R!RunsTypeOK, PromptOwned
<1> QED
  BY <1>6, <1>7

LEMMA TurnEndsSerial ==
  ASSUME KernelRunsInv, SerialInv, NEW i \in Items, TurnEnds(i)
  PROVE  SerialInv'
<1> USE DEF SerialInv
<1>1. /\ turn[i] = "running" /\ turn' = [turn EXCEPT ![i] = "none"]
      /\ \E t : micro' = [micro EXCEPT ![i] = t]
      /\ UNCHANGED <<prompt, waiting, proc>>
  BY DEF TurnEnds, R!TurnEnd, Hosted
<1> QED
  BY <1>1 DEF KernelRunsInv, R!RunsTypeOK, TurnHasLane, AnsweredLast, PromptOwned, NobodyWaits

LEMMA ItemSerial ==
  ASSUME KernelInv, KernelRunsInv, RegistryInv, SerialInv, NEW i \in Items,
         ItemStep(i) \/ (\E t \in {"completed", "failed"} : JobEnd(i, t))
  PROVE  SerialInv'
<1> USE DEF SerialInv
<1>1. CASE Launch(i)
  BY <1>1, LaunchSerial
<1>2. CASE OnTerminal(i)
  <2>1. /\ micro[i] # "none" /\ micro' = [micro EXCEPT ![i] = "none"]
        /\ UNCHANGED <<turn, prompt, waiting>>
        /\ \A j \in Items : j # i => proc'[j] = proc[j]
    BY <1>2, SettleRuns DEF OnTerminal, R!Deliver, InHand, KernelRunsInv, HandInv
  <2> QED
    BY <2>1 DEF KernelRunsInv, R!RunsTypeOK, TurnHasLane, AnsweredLast, PromptOwned, NobodyWaits
<1>3. CASE JobBegin(i)
  <2>1. /\ proc[i] = "job" /\ turn[i] = "none" /\ turn' = [turn EXCEPT ![i] = "running"]
        /\ UNCHANGED <<micro, prompt, waiting, proc>>
    BY <1>3 DEF JobBegin
  <2>2. micro[i] = "none"
    BY <2>1 DEF KernelRunsInv, HandInv, JobsApart
  <2> QED
    BY <2>1, <2>2
       DEF KernelRunsInv, R!RunsTypeOK, TurnHasLane, AnsweredLast, PromptOwned, NobodyWaits
<1>4. ASSUME NEW t, JobEnd(i, t) PROVE SerialInv'
  <2>1. /\ turn[i] = "running" /\ turn' = [turn EXCEPT ![i] = "none"]
        /\ UNCHANGED <<micro, prompt, waiting>>
        /\ \A j \in Items : j # i => proc'[j] = proc[j]
    BY <1>4, SettleRuns DEF JobEnd, InHand, KernelRunsInv, HandInv
  <2> QED
    BY <2>1 DEF KernelRunsInv, R!RunsTypeOK, TurnHasLane, AnsweredLast, PromptOwned, NobodyWaits
<1>5. CASE PumpClaim(i)
  BY <1>5, ClaimEffect, RunsKeptSerial DEF PumpClaim, runVars, TurnHasLane
<1>6. CASE Refuse(i) \/ LaunchFails(i) \/ Consume(i) \/ Conclude(i) \/ Release(i)
  <2>1. turn[i] = "none" /\ \A j \in Items : j # i => proc'[j] = proc[j]
    BY <1>6 DEF Refuse, LaunchFails, Consume, Conclude, Release, Step, TurnHasLane, KernelInv
  <2> QED
    BY <1>6, <2>1, RunsKeptSerial DEF Refuse, LaunchFails, Consume, Conclude, Release, runVars
<1>7. CASE \E c \in Conts : EnqueueContinuation(i, c)
  BY <1>7, RunsKeptSerial DEF EnqueueContinuation, runVars
<1> QED
  BY <1>1, <1>2, <1>3, <1>4, <1>5, <1>6, <1>7 DEF ItemStep

LEMMA SerialNext ==
  ASSUME Uninterrupted, KernelInv, KernelRunsInv, RestTypeOK, RegistryInv, SerialInv,
         [KernelNext]_vars
  PROVE  SerialInv'
<1>1. CASE \E m \in Messages : Receive(m) \/ Admit(m) \/ InterruptEnds(m)
  BY <1>1, MessageSerial
<1>2. CASE \E i \in Items : ItemStep(i) \/ \E t \in {"completed", "failed"} : JobEnd(i, t)
  BY <1>2, ItemSerial
<1>3. CASE \E i \in Items : TurnMoves(i) \/ TurnEnds(i)
  BY <1>3, TurnMovesSerial, TurnEndsSerial
<1>4. CASE \/ \E i \in Items : TimePasses(i) \/ \E c \in Conts : ScheduleContinuation(i, c)
           \/ PollTick \/ PumpBegin \/ PumpEnd \/ Stop \/ Reconfigure \/ Start \/ UNCHANGED vars
  BY <1>4, RunsKeptSerial
     DEF TimePasses, ScheduleContinuation, PollTick, PumpBegin, PumpEnd, Stop, Reconfigure, Start,
         runVars, vars
<1>5. CASE Crash
  BY <1>5
     DEF Crash, R!RunsReset, R!NoTurns, R!NoSessions, R!NoWaits, SerialInv, TurnHasLane,
         AnsweredLast, PromptOwned, NobodyWaits
<1> QED
  BY <1>1, <1>2, <1>3, <1>4, <1>5 DEF KernelNext

\* Turns of a session follow each other, and a prompt that a message could be
\* injected into belongs to a turn that is still being answered, as long as
\* nothing interrupts: under any pump schedule, with retries, continuations,
\* steering into the active prompt, and crashes.
THEOREM TurnsFollowEachOther ==
  ASSUME Uninterrupted
  PROVE  KernelSpec => []TurnsSerialized
<1>1. KernelInit => SerialInv
  BY DEF KernelInit, R!RunsInit, R!NoTurns, R!NoSessions, R!NoWaits, SerialInv, TurnHasLane,
         AnsweredLast, PromptOwned, NobodyWaits
<1>2. R!LiveIndex /\ TasksOwned => RegistryInv
  BY DEF RegistryInv
<1>3. /\ KernelInv /\ KernelRunsInv /\ RestTypeOK /\ RegistryInv /\ SerialInv
      /\ [KernelNext]_vars
      => SerialInv'
  BY SerialNext
<1>4. KernelInv /\ KernelRunsInv /\ SerialInv => TurnsSerialized
  <2> SUFFICES ASSUME KernelInv, KernelRunsInv, SerialInv PROVE TurnsSerialized
    OBVIOUS
  <2>1. \A i \in Items : turn[i] # "none" => i \in Busy
    BY DEF SerialInv, TurnHasLane, Busy
  <2>2. \A i, j \in Items : SessionOf[i] = SessionOf[j] /\ turn[i] # "none" /\ turn[j] # "none"
                            => i = j
    BY <2>1 DEF KernelInv, LaneDiscipline
  <2>3. ASSUME NEW s \in Sessions, prompt[s] # None PROVE s \in lanes
    <3>1. prompt[s] \in Busy /\ SessionOf[prompt[s]] = s
      BY <2>1, <2>3 DEF SerialInv, PromptOwned, KernelRunsInv, R!RunsTypeOK
    <3> QED
      BY <3>1 DEF KernelInv, LaneDiscipline
  <2> QED
    BY <2>2, <2>3 DEF TurnsSerialized
<1> QED
  BY <1>1, <1>2, <1>3, <1>4, RegistryConsistent, KernelRunsInvariant, PTL DEF KernelSpec

---------------------------------------------------------------------------
(* The ends of a pump run and of an enqueue.                               *)

LEMMA PumpEndsOnly ==
  ASSUME RestTypeOK, KernelNext, pumping, ~pumping', up'
  PROVE  PumpEnd
<1> USE DEF Quiet
<1>1. ASSUME NEW m \in Messages PROVE ~Receive(m) /\ ~Admit(m) /\ ~InterruptEnds(m)
  BY DEF Receive, ReceiveStop, ReceivePreempting, ReceiveInterrupting, ReceiveInjected,
     ReceiveCollected, ReceiveQueued, Arrive, Admit, Decided, Enqueued, Collected, EnqueueFails,
     InterruptEnds
<1>2. ASSUME NEW i \in Items PROVE ~ItemStep(i)
  <2>1. ~PumpClaim(i) /\ ~Refuse(i)
    BY DEF PumpClaim, Refuse
  <2> QED
    BY <2>1 DEF ItemStep, Launch, LaunchFails, JobBegin, OnTerminal, Consume, Conclude,
       Release, EnqueueContinuation
<1>3. ASSUME NEW i \in Items PROVE ~TurnMoves(i) /\ ~TurnEnds(i) /\ ~TimePasses(i)
  BY DEF TurnMoves, TurnEnds, TimePasses
<1>4. ASSUME NEW i \in Items PROVE /\ \A t : ~JobEnd(i, t)
                                   /\ \A c \in Conts : ~ScheduleContinuation(i, c)
  BY DEF JobEnd, ScheduleContinuation
<1>5. ~PollTick /\ ~PumpBegin /\ ~Stop /\ ~Reconfigure /\ ~Crash /\ ~Start
  BY DEF PollTick, PumpBegin, Stop, Reconfigure, Crash, Start, RestTypeOK
<1> QED
  BY <1>1, <1>2, <1>3, <1>4, <1>5 DEF KernelNext

\* A page is as long as the window, or it is all there is.
LEMMA ShortPageIsAll ==
  ASSUME FiniteRows, NEW P \in Pages, Cardinality(P) # Window
  PROVE  P = RunnableRows
<1>1. RunnableRows \subseteq PresentRows
  BY DEF RunnableRows, Runnable, PresentRows, Present, Waiting
<1>2. IsFiniteSet(RunnableRows)
  BY <1>1, FS_Subset DEF FiniteRows
<1>3. P \in SUBSET RunnableRows /\ Cardinality(P) = Cardinality(RunnableRows)
  BY DEF Pages, PagesOf
<1> QED
  BY <1>2, <1>3, FS_Subset

\* The sessions of all rows that could be claimed are in process.
AllTaken == \A i \in Items : Runnable(i) => SessionOf[i] \in lanes

\* The eldest rows fill a page, and all belong to sessions in process.
PageTaken ==
  \E P \in SUBSET RunnableRows :
    /\ Cardinality(P) = Window /\ FreeIn(P) = {}
    /\ \A i \in P, j \in RunnableRows \ P : ~Earlier(j, i)

LEMMA PumpEndTakes ==
  ASSUME FiniteRows, PumpEnd
  PROVE  AllTaken \/ PageTaken
<1>1. PICK P \in Pages : FreeIn(P) = {}
  BY DEF PumpEnd
<1>2. CASE Cardinality(P) = Window
  BY <1>1, <1>2 DEF Pages, PagesOf, PageTaken
<1>3. CASE Cardinality(P) # Window
  <2>1. P = RunnableRows
    BY <1>3, ShortPageIsAll
  <2> QED
    BY <1>1, <2>1 DEF AllTaken, RunnableRows, FreeIn
<1> QED
  BY <1>2, <1>3

LEMMA KernelTable == KernelSpec => []FiniteRows
BY KernelUsesQueue, TableIsFinite, PTL

\* A pump run stops with a row of an idle session left only when the eldest
\* rows, as many as listRunnable returns, all wait for sessions in process.
THEOREM PumpStopsForFullPage ==
  KernelSpec => [][pumping /\ ~pumping' /\ up' => AllTaken \/ PageTaken]_vars
<1>1. RestTypeOK /\ FiniteRows /\ [KernelNext]_vars
      => [pumping /\ ~pumping' /\ up' => AllTaken \/ PageTaken]_vars
  BY PumpEndsOnly, PumpEndTakes
<1> QED
  BY <1>1, KernelTable, KernelRunsInvariant, PTL DEF KernelSpec

\* With no more items than fit into a page, a pump run leaves no due row of
\* an inactive session behind.
THEOREM PumpLeavesNothing ==
  ASSUME IsFiniteSet(Items), Cardinality(Items) <= Window
  PROVE  KernelSpec => PumpExhausts
<1>1. FiniteRows /\ PageTaken => AllTaken
  <2> SUFFICES ASSUME FiniteRows, NEW P \in SUBSET RunnableRows, Cardinality(P) = Window,
                      FreeIn(P) = {}
               PROVE  AllTaken
    BY DEF PageTaken
  <2>1. P \in SUBSET Items
    BY DEF RunnableRows
  <2>2. Cardinality(P) <= Cardinality(Items) /\ Cardinality(Items) \in Nat
    BY <2>1, FS_Subset, FS_CardinalityType
  <2>3. Cardinality(P) = Cardinality(Items)
    BY <2>2, KernelAssumption
  <2>4. P = Items
    BY <2>1, <2>3, FS_Subset
  <2> QED
    BY <2>4 DEF AllTaken, FreeIn
<1>2. FiniteRows /\ [pumping /\ ~pumping' /\ up' => AllTaken \/ PageTaken]_vars
      => [pumping /\ ~pumping' /\ up' => AllTaken]_vars
  BY <1>1
<1> QED
  BY <1>2, KernelTable, PumpStopsForFullPage, PTL DEF PumpExhausts, AllTaken

LEMMA EnqueueEndsOnly ==
  ASSUME RestTypeOK, KernelNext, up', NEW m \in Messages,
         enq[m] \in {"inserted", "merged"}, enq'[m] = "done"
  PROVE  Enqueued(m) \/ Collected(m) \/ EnqueueFails(m)
<1>1. ASSUME NEW n \in Messages, Receive(n) PROVE FALSE
  <2>1. enq[n] = "out" /\ \E e : enq' = [enq EXCEPT ![n] = e]
    BY <1>1 DEF Receive, ReceiveStop, ReceivePreempting, ReceiveInterrupting, ReceiveInjected,
       ReceiveCollected, ReceiveQueued, Offer, Arrive, Goto
  <2> QED
    BY <2>1 DEF RestTypeOK
<1>2. ASSUME NEW n \in Messages, Admit(n) PROVE n = m /\ ~Decided(n)
  <2>1. /\ \E e : enq' = [enq EXCEPT ![n] = e]
        /\ Decided(n) => enq[n] = "deciding"
    BY <1>2 DEF Admit, Decided, Offer, Enqueued, Collected, EnqueueFails, Goto
  <2> QED
    BY <2>1 DEF RestTypeOK
<1>3. CASE UNCHANGED enq
  BY <1>3
<1>4. ASSUME NEW i \in Items, ItemStep(i) PROVE UNCHANGED enq
  BY <1>4 DEF ItemStep, PumpClaim, Refuse, Launch, LaunchFails, JobBegin, OnTerminal, Consume,
     Conclude, Release, EnqueueContinuation
<1> QED
  BY <1>1, <1>2, <1>3, <1>4
     DEF KernelNext, Admit, InterruptEnds, TurnMoves, TurnEnds, Hosted, JobEnd,
         ScheduleContinuation, TimePasses, PollTick, PumpBegin, PumpEnd, Stop, Reconfigure, Crash,
         Start

\* What is trimmed waits, and something at least as young goes on waiting.
LEMMA SurplusSpares ==
  ASSUME FiniteRows, NEW s, NEW D \in Surplus(s), NEW i \in D
  PROVE  /\ i \in Pending(s)
         /\ \E j \in Pending(s) \ D : ~Earlier(j, i)
<1>1. /\ MaxBacklog # 0 /\ D \in SUBSET Pending(s)
      /\ Cardinality(D) = Cardinality(Pending(s)) - MaxBacklog
      /\ \A x \in D, j \in Pending(s) \ D : ~Earlier(j, x)
  BY DEF Surplus
<1>2. IsFiniteSet(Pending(s))
  <2>1. Pending(s) \subseteq PresentRows
    BY DEF Pending, PresentRows, Present, Waiting
  <2> QED
    BY <2>1, FS_Subset DEF FiniteRows
<1>3. D # Pending(s)
  <2>1. Cardinality(Pending(s)) \in Nat
    BY <1>2, FS_CardinalityType
  <2> QED
    BY <1>1, <2>1, KernelAssumption
<1> QED
  BY <1>1, <1>3

\* What TrimKeepsYoungest says of a step.
TrimStep ==
  \A m \in Messages, i \in Items :
    enq[m] \in {"inserted", "merged"} /\ enq'[m] = "done" /\ status[i] # status'[i] /\ up'
    => /\ status[i] \in Waiting
       /\ \E j \in Items : /\ SessionOf[j] = SessionOf[i]
                         /\ status'[j] \in Waiting /\ ~Earlier(j, i)

LEMMA EveryStepTrims ==
  ASSUME QueueTypeOK, FiniteRows, RestTypeOK, KernelNext
  PROVE  TrimStep
<1> SUFFICES ASSUME NEW m \in Messages, NEW i \in Items, enq[m] \in {"inserted", "merged"},
                    enq'[m] = "done", status[i] # status'[i], up'
             PROVE  /\ status[i] \in Waiting
                    /\ \E j \in Items : /\ SessionOf[j] = SessionOf[i]
                                      /\ status'[j] \in Waiting /\ ~Earlier(j, i)
  BY DEF TrimStep
<1>1. PICK D \in Surplus(SessionOf[m]) : MarkInterruptedByIds(D)
  BY EnqueueEndsOnly DEF Enqueued, Collected, EnqueueFails, queueVars
<1>2. \A j \in Items : status'[j] = IF j \in D /\ status[j] \in Live
                                    THEN "interrupted" ELSE status[j]
  BY <1>1 DEF MarkInterruptedByIds, SetStatusWhere
<1>3. i \in D
  BY <1>2
<1>4. PICK j \in Pending(SessionOf[m]) \ D : ~Earlier(j, i)
  BY <1>3, SurplusSpares
<1>5. i \in Pending(SessionOf[m])
  BY <1>3, SurplusSpares
<1>6. /\ j \in Items /\ SessionOf[j] = SessionOf[i] /\ status'[j] = status[j]
      /\ status[j] \in Waiting
  BY <1>2, <1>4, <1>5 DEF Pending
<1> QED
  BY <1>4, <1>5, <1>6 DEF Pending

\* Trimming a backlog never takes the youngest waiting row of a session, nor
\* the row that is being processed, whatever the table holds.
THEOREM TrimSparesYoungest == KernelSpec => TrimKeepsYoungest
<1>1. KernelInv /\ FiniteRows /\ RestTypeOK /\ [KernelNext]_vars => [TrimStep]_vars
  BY EveryStepTrims DEF KernelInv
<1> QED
  BY <1>1, KernelTable, KernelRunsInvariant, PTL DEF KernelSpec, TrimKeepsYoungest, TrimStep
===========================================================================
