--------------------------- MODULE DetachedRuns ---------------------------
(***************************************************************************)
(* Detached runs of the host: the RunLifecycleRegistry, the table of       *)
(* active prompts of the MessageHandler, the task that startDetachedRun    *)
(* starts for every run, and interruptSession, which reads both tables,    *)
(* waits for the agent to settle and then aborts a run.                    *)
(*                                                                         *)
(* JavaScript runs one synchronous segment at a time: an action is one     *)
(* segment between two awaits.  A terminal callback runs in a microtask of *)
(* its own, after the segment that ended the run.                          *)
(*                                                                         *)
(* The registry keeps its entries under a run id; a run stands for the     *)
(* queue item (or the subagent task) the id was made from.                 *)
(***************************************************************************)
EXTENDS Naturals

CONSTANTS
  Runs,        \* run ids
  Sessions,    \* session keys
  SessionOf,   \* session key of a run
  Timed,       \* runs with a run timeout (subagent tasks)
  Resetting,   \* runs whose message is /new or /reset
  Callers,     \* callers of interruptSession
  None

ASSUME RunsAssumption ==
  /\ SessionOf \in [Runs -> Sessions]
  /\ Timed \subseteq Runs
  /\ Resetting \subseteq Runs
  /\ Resetting \subseteq Callers
  /\ None \notin Runs \cup Sessions

VARIABLES
  run,         \* byRunId: the state of the entry, "none" without an entry
  current,     \* runBySession
  callback,    \* keys of detachedTerminalCallbacks
  micro,       \* the terminal state a queued callback microtask will deliver
  turn,        \* where the task of a run is
  prompt,      \* activePromptRuns: the run that registered the entry
  waiting      \* the session of an interruptSession call that waits to abort its run

runVars == <<run, current, callback, micro, turn, prompt, waiting>>

LiveState   == {"accepted", "started", "streaming"}
RunTerminal == {"completed", "failed", "aborted", "timeout"}
TurnState   == {"none", "queued", "command", "running", "prompting"}

Live(r)    == run[r] \in LiveState
Idle(q)    == waiting[q] = None
\* A task waits for its own call of interruptSession.
Free(r)    == r \in Callers => Idle(r)
\* MessageHandler.isSessionActive
SessionActive(s) == prompt[s] # None \/ current[s] # None

NoTurns    == [r \in Runs |-> "none"]
NoSessions == [s \in Sessions |-> None]
NoWaits    == [q \in Callers |-> None]

RunsInit ==
  /\ run = NoTurns /\ micro = NoTurns /\ turn = NoTurns
  /\ current = NoSessions /\ prompt = NoSessions
  /\ callback = {} /\ waiting = NoWaits

\* The process dies: nothing of this is persisted.
RunsReset ==
  /\ run' = NoTurns /\ micro' = NoTurns /\ turn' = NoTurns
  /\ current' = NoSessions /\ prompt' = NoSessions
  /\ callback' = {} /\ waiting' = NoWaits

---------------------------------------------------------------------------
(* The registry.                                                           *)

\* Variant: the index entry of the session stays.
SetTerminalKeepsIndex(r, t) ==
  \/ /\ Live(r)
     /\ run'   = [run EXCEPT ![r] = t]
     /\ micro' = [micro EXCEPT ![r] = IF r \in callback THEN t ELSE @]
     /\ UNCHANGED current
  \/ /\ ~Live(r)
     /\ UNCHANGED <<run, current, micro>>

\* Variant: a second outcome overwrites the first.
SetTerminalLastWins(r, t) ==
  /\ run'     = [run EXCEPT ![r] = t]
  /\ current' = [current EXCEPT ![SessionOf[r]] = None]
  /\ micro'   = [micro EXCEPT ![r] = IF r \in callback THEN t ELSE @]

\* setTerminal and the onTerminal listener: the first terminal state wins,
\* frees the session, and queues the callback if there is one.
SetTerminal(r, t) ==
  \/ /\ Live(r)
     /\ run'     = [run EXCEPT ![r] = t]
     /\ current' = [current EXCEPT ![SessionOf[r]] = None]
     /\ micro'   = [micro EXCEPT ![r] = IF r \in callback THEN t ELSE @]
  \/ /\ ~Live(r)
     /\ UNCHANGED <<run, current, micro>>

\* Variant: the status of a queue row is used as the state of a run.
AbortSessionAsRow(s) ==
  \/ current[s] # None /\ SetTerminal(current[s], "interrupted")
  \/ current[s] = None /\ UNCHANGED <<run, current, micro>>

\* Variant: the run is dropped from the index, its callback is not queued.
AbortSessionSilently(s) ==
  /\ current' = [current EXCEPT ![s] = None]
  /\ run' = [r \in Runs |-> IF r = current[s] THEN "aborted" ELSE run[r]]
  /\ UNCHANGED micro

AbortSession(s) ==
  \/ current[s] # None /\ SetTerminal(current[s], "aborted")
  \/ current[s] = None /\ UNCHANGED <<run, current, micro>>

\* createRun, then the callback is stored and the task is queued.  A run
\* the session already has is aborted.
StartRun(r) ==
  LET s == SessionOf[r]
      old == current[s]
      superseded == {x \in Runs : x = old /\ Live(x)} IN
  /\ run[r] = "none" /\ turn[r] = "none" /\ micro[r] = "none"
  /\ run' = [x \in Runs |-> IF x = r THEN "accepted"
                            ELSE IF x \in superseded THEN "aborted" ELSE run[x]]
  /\ micro' = [x \in Runs |-> IF x \in superseded \cap callback
                              THEN "aborted" ELSE micro[x]]
  /\ current'  = [current EXCEPT ![s] = r]
  /\ callback' = callback \cup {r}
  /\ turn'     = [turn EXCEPT ![r] = "queued"]
  /\ UNCHANGED <<prompt, waiting>>

---------------------------------------------------------------------------
(* The task of a run.                                                      *)

\* markStarted, then handle() up to its first await.
TurnStart(r) ==
  /\ turn[r] = "queued"
  /\ turn' = [turn EXCEPT ![r] = IF r \in Resetting THEN "command" ELSE "running"]
  /\ run'  = [run EXCEPT ![r] = IF Live(r) THEN "started" ELSE @]
  /\ UNCHANGED <<current, callback, micro, prompt, waiting>>

PromptBegin(r) ==
  /\ turn[r] = "running" /\ Free(r)
  /\ turn'   = [turn EXCEPT ![r] = "prompting"]
  /\ prompt' = [prompt EXCEPT ![SessionOf[r]] = r]
  /\ UNCHANGED <<run, current, callback, micro, waiting>>

\* appendDelta: a delta of the prompt is ignored once the run has ended.
Stream(r) ==
  /\ turn[r] = "prompting" /\ Live(r)
  /\ run' = [run EXCEPT ![r] = "streaming"]
  /\ UNCHANGED <<current, callback, micro, turn, prompt, waiting>>

\* The prompt returns, fails or is aborted.  clearActivePromptRun deletes
\* the entry of the session, whoever registered it.
PromptEnd(r) ==
  /\ turn[r] = "prompting"
  /\ turn'   = [turn EXCEPT ![r] = "running"]
  /\ prompt' = [prompt EXCEPT ![SessionOf[r]] = None]
  /\ UNCHANGED <<run, current, callback, micro, waiting>>

\* Variant: the entry is disposed of only if the task itself ended the run.
TurnEndKeepsEntry(r, t) ==
  /\ turn[r] = "running" /\ Free(r)
  /\ turn'     = [turn EXCEPT ![r] = "none"]
  /\ micro'    = [micro EXCEPT ![r] = IF Live(r) /\ r \in callback THEN t ELSE @]
  /\ run'      = [run EXCEPT ![r] = IF Live(r) THEN "none" ELSE @]
  /\ current'  = [current EXCEPT ![SessionOf[r]] = IF Live(r) THEN None ELSE @]
  /\ callback' = callback \ {r}
  /\ UNCHANGED <<prompt, waiting>>

\* Variant: something is awaited between the outcome and the finally block.
TurnEndAwaits(r, t) ==
  /\ turn[r] = "running" /\ Free(r)
  /\ micro'    = [micro EXCEPT ![r] = IF Live(r) /\ r \in callback THEN t ELSE @]
  /\ run'      = [run EXCEPT ![r] = IF Live(r) THEN t ELSE "none"]
  /\ current'  = [current EXCEPT ![SessionOf[r]] = IF Live(r) THEN None ELSE @]
  /\ turn'     = [turn EXCEPT ![r] = IF Live(r) THEN @ ELSE "none"]
  /\ callback' = IF Live(r) THEN callback ELSE callback \ {r}
  /\ UNCHANGED <<prompt, waiting>>

\* setTerminal with the outcome of the task; then, in the same segment, the
\* finally block drops the callback and disposes of the entry.
TurnEnd(r, t) ==
  LET s == SessionOf[r] IN
  /\ turn[r] = "running" /\ Free(r)
  /\ turn'     = [turn EXCEPT ![r] = "none"]
  /\ micro'    = [micro EXCEPT ![r] = IF Live(r) /\ r \in callback THEN t ELSE @]
  /\ run'      = [run EXCEPT ![r] = "none"]
  /\ current'  = [current EXCEPT ![s] = IF Live(r) \/ @ = r THEN None ELSE @]
  /\ callback' = callback \ {r}
  /\ UNCHANGED <<prompt, waiting>>

\* The timer of a subagent task: set once the task has started, cleared by
\* its finally block, whatever ended the run in between.
Timeout(r) ==
  /\ r \in Timed /\ turn[r] \notin {"none", "queued"}
  /\ SetTerminal(r, "timeout")
  /\ UNCHANGED <<callback, turn, prompt, waiting>>

\* The tasks control plane stops one run by its id.
AbortRun(r) ==
  /\ Live(r)
  /\ SetTerminal(r, "aborted")
  /\ UNCHANGED <<callback, turn, prompt, waiting>>

\* The callback microtask of a run executes.
Deliver(r) ==
  /\ micro[r] # "none"
  /\ micro' = [micro EXCEPT ![r] = "none"]
  /\ UNCHANGED <<run, current, callback, turn, prompt, waiting>>

---------------------------------------------------------------------------
(* interruptSession.                                                       *)

\* Up to the wait.  Without an active prompt there is nothing to wait for.
Interrupt(q, s) ==
  \/ /\ prompt[s] = None
     /\ AbortSession(s)
     /\ UNCHANGED <<callback, turn, prompt, waiting>>
  \/ /\ prompt[s] # None
     /\ waiting' = [waiting EXCEPT ![q] = s]
     /\ UNCHANGED <<run, current, callback, micro, turn, prompt>>

\* Variant: waitForAgentIdle really waits until the agent is idle.
InterruptEndWhenIdle(q) ==
  /\ ~Idle(q)
  /\ prompt[waiting[q]] = None
  /\ AbortSession(waiting[q])
  /\ waiting' = [waiting EXCEPT ![q] = None]
  /\ UNCHANGED <<callback, turn, prompt>>

\* After the wait: abortSession aborts the run the session has by then.
InterruptEnd(q) ==
  /\ ~Idle(q)
  /\ AbortSession(waiting[q])
  /\ waiting' = [waiting EXCEPT ![q] = None]
  /\ UNCHANGED <<callback, turn, prompt>>

\* The command stage of /new and /reset interrupts the session of its own run.
\* (The same table update as Interrupt, in the segment that moves the task on.)
ResetSession(r) ==
  LET s == SessionOf[r] IN
  /\ turn[r] = "command"
  /\ turn' = [turn EXCEPT ![r] = "running"]
  /\ \/ prompt[s] = None /\ AbortSession(s) /\ UNCHANGED waiting
     \/ /\ prompt[s] # None
        /\ waiting' = [waiting EXCEPT ![r] = s]
        /\ UNCHANGED <<run, current, micro>>
  /\ UNCHANGED <<callback, prompt>>

---------------------------------------------------------------------------
TurnStep(r) ==
  \/ TurnStart(r)
  \/ ResetSession(r)
  \/ PromptBegin(r)
  \/ Stream(r)
  \/ PromptEnd(r)

RunsNext ==
  \/ \E r \in Runs :
       \/ StartRun(r)
       \/ TurnStep(r)
       \/ \E t \in {"completed", "failed", "aborted"} : TurnEnd(r, t)
       \/ Timeout(r)
       \/ AbortRun(r)
       \/ Deliver(r)
  \/ \E q \in Callers : InterruptEnd(q)
  \/ \E q \in Callers \ Resetting, s \in Sessions : Idle(q) /\ Interrupt(q, s)

RunsSpec == RunsInit /\ [][RunsNext]_runVars

\* The task of a run is an async function whose awaits all settle: a prompt
\* has an execution timeout and a finite list of fallback models, so it ends
\* however often it was begun again.  Microtasks and timers always run.
RunsFairness ==
  /\ \A r \in Runs :
       /\ WF_runVars(TurnStart(r))
       /\ WF_runVars(ResetSession(r))
       /\ WF_runVars(PromptEnd(r))
       /\ SF_runVars(\E t \in {"completed", "failed", "aborted"} : TurnEnd(r, t))
       /\ WF_runVars(Deliver(r))
  /\ \A q \in Callers : WF_runVars(InterruptEnd(q))

FairRunsSpec == RunsSpec /\ RunsFairness

---------------------------------------------------------------------------
(* Properties.                                                             *)

RunsTypeOK ==
  /\ run      \in [Runs -> {"none"} \cup LiveState \cup RunTerminal]
  /\ current  \in [Sessions -> Runs \cup {None}]
  /\ callback \in SUBSET Runs
  /\ micro    \in [Runs -> {"none"} \cup RunTerminal]
  /\ turn     \in [Runs -> TurnState]
  /\ prompt   \in [Sessions -> Runs \cup {None}]
  /\ waiting  \in [Callers -> Sessions \cup {None}]

\* runBySession is exactly the index of the live entries, although
\* setTerminal deletes the entry of the session without looking whose it
\* is: two runs of a session are never live together, a live run can always
\* be found and interrupted through its session, and a finished run never
\* blocks or is interrupted in place of another.
LiveIndex ==
  /\ \A s \in Sessions : current[s] # None =>
       SessionOf[current[s]] = s /\ Live(current[s])
  /\ \A r \in Runs : Live(r) => current[SessionOf[r]] = r

\* The registry and the callback table hold exactly the runs whose task has
\* not reached its finally block: nothing leaks, and no live run is left
\* without a task and a callback to end it, whatever aborted it meanwhile.
EntriesOwned ==
  /\ \A r \in Runs : run[r] # "none" <=> turn[r] # "none"
  /\ callback = {r \in Runs : turn[r] # "none"}

\* Whoever ends a run (its task, a newer run, a timer, an interrupt), its
\* terminal callback is queued in that very step, exactly once, and is
\* neither dropped nor overwritten by a later outcome before it executes.
TerminalOnce ==
  [][\A r \in Runs :
       /\ Live(r) /\ run'[r] \notin LiveState => micro[r] = "none" /\ micro'[r] # "none"
       /\ ~Live(r) => micro'[r] \in {micro[r], "none"}]_runVars

\* A run that was accepted is over, its callback executed, at some time: no
\* wait of interruptSession, no abort and no superseding run holds it up.
RunsFinish ==
  \A r \in Runs :
    turn[r] # "none" ~> (turn[r] = "none" /\ micro[r] = "none")
===========================================================================
