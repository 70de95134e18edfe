--------------------------- MODULE PromptAttempts ---------------------------
(***************************************************************************)
(* The model calls of one session's turns: checkInputCapability, which may *)
(* route a turn with media to another model; runPromptWithFallback, which  *)
(* prompts, compacts and falls back; the coordinator after it; and the     *)
(* cleanup flow, which restores the model.  They share the session's model *)
(* state (agent manager), activePromptRuns and interruptedPromptRuns.  A   *)
(* new run of the session supersedes the one under way, whose code goes on *)
(* beside it until it notices.                                             *)
(*                                                                         *)
(* An action ends at an await; a call of the agent manager, whose own      *)
(* awaits only look up credentials or build an agent, is one step.         *)
(***************************************************************************)
EXTENDS Naturals, Sequences

CONSTANTS
  Models, NoModel,
  DefaultModel,    \* resolveAgentModelRef of the agent
  Fallbacks,       \* getAgentFallbacks, a sequence
  Sanitized,       \* models for which shouldSanitizeTools holds
  MediaModel,      \* the routed model of the modality (imageModel)
  Turns, NoTurn,
  MediaTurns,      \* turns whose message has media
  MaxModelFaults,  \* bound: failing setModel, agent creation, notice
  MaxPicks         \* bound: /switch commands

ASSUME AttemptsAssumption ==
  /\ {DefaultModel, MediaModel} \subseteq Models /\ NoModel \notin Models
  /\ Fallbacks \in Seq(Models) /\ Sanitized \subseteq Models
  /\ MediaTurns \subseteq Turns /\ NoTurn \notin Turns
  /\ MaxModelFaults \in Nat /\ MaxPicks \in Nat

VARIABLES
  model,         \* currentModel, runtimeModelOverrides and agentModelRefs of the session
  picked,        \* the model the user, or the configuration, asked for
  turnAt,
  modelOf,       \* modelRef of the attempt under way
  tried,         \* tried of runPromptWithFallback
  restoreTo,     \* state.capabilityRestoreModelRef
  aborted,       \* turns whose abortSignal is aborted
  superseded,    \* of those, the ones a newer run superseded
  activeRun,     \* turn of the session's entry in activePromptRuns
  interrupted,   \* the session is in interruptedPromptRuns
  modelFaults, picks

turnVars    == <<turnAt, modelOf, tried, restoreTo>>
signalVars  == <<aborted, superseded, activeRun, interrupted>>
attemptVars == <<model, picked, turnVars, signalVars, modelFaults, picks>>

TurnStages == {"idle", "routing", "ready", "trying", "prompting", "answered", "ended", "over"}
UnderWay   == {t \in Turns : turnAt[t] \notin {"idle", "over"}}

AttemptsInit ==
  /\ model = [locked |-> NoModel, override |-> NoModel, active |-> NoModel]
  /\ picked = DefaultModel
  /\ turnAt = [t \in Turns |-> "idle"]
  /\ modelOf = [t \in Turns |-> NoModel]
  /\ tried = [t \in Turns |-> {}]
  /\ restoreTo = [t \in Turns |-> NoModel]
  /\ aborted = {} /\ superseded = {}
  /\ activeRun = NoTurn /\ interrupted = FALSE
  /\ modelFaults = 0 /\ picks = 0

---------------------------------------------------------------------------
(* The agent manager.  Each operator is the set of states a call may leave; *)
(* the ones called ...Failed are those of a call that throws.               *)

Wanted(s) == IF s.override # NoModel THEN s.override
             ELSE IF s.locked # NoModel THEN s.locked ELSE DefaultModel

Recorded(s, m, persist) ==
  IF persist THEN [s EXCEPT !.locked = m, !.override = NoModel]
             ELSE [s EXCEPT !.override = m]

Compatible(s, m) == s.active \in Sanitized <=> m \in Sanitized

\* setSessionModel: an agent of the other kind of tools is disposed.
SetModel(s, m, persist) ==
  [Recorded(s, m, persist) EXCEPT
     !.active = IF @ # NoModel /\ Compatible(s, m) THEN m ELSE NoModel]

\* agent.setModel throws when the override is already recorded.
SetModelFailed(s, m, persist) ==
  {r \in {Recorded(s, m, persist)} : s.active # NoModel /\ Compatible(s, m)}

\* getAgent: an agent with another model is switched, which records an
\* override; a missing one is created.
GetAgent(s) ==
  LET m == Wanted(s)
      k == IF s.active \in {NoModel, m} THEN s ELSE SetModel(s, m, FALSE) IN
  [k EXCEPT !.active = m]

GetAgentFailed(s) ==
  LET m == Wanted(s) IN
  IF s.active = m THEN {}
  ELSE IF s.active = NoModel THEN {s}
  ELSE IF Compatible(s, m) THEN SetModelFailed(s, m, FALSE)
  ELSE {SetModel(s, m, FALSE)}

\* Variant: the finally block is gone.
KeepOverride(s) == s

\* clearRuntimeModelOverride, in the finally block of runPromptWithFallback.
ClearOverride(s) == [s EXCEPT !.override = NoModel]

FaultOf(states) ==
  /\ modelFaults < MaxModelFaults /\ modelFaults' = modelFaults + 1
  /\ model' \in states

Goes(t, at) == turnAt' = [turnAt EXCEPT ![t] = at]

---------------------------------------------------------------------------
(* Before the prompt.                                                      *)

\* createRun supersedes the run under way; the lifecycle flow may rotate the
\* session, which disposes its agent and its override.
Begin(t) ==
  /\ turnAt[t] = "idle"
  /\ Goes(t, "routing")
  /\ aborted' = aborted \cup UnderWay
  /\ superseded' = superseded \cup UnderWay
  /\ \/ UNCHANGED model
     \/ model' = [model EXCEPT !.override = NoModel, !.active = NoModel]
  /\ UNCHANGED <<picked, modelOf, tried, restoreTo, activeRun, interrupted,
                 modelFaults, picks>>

\* checkInputCapability.
Route(t) ==
  /\ turnAt[t] = "routing"
  /\ \/ /\ t \notin MediaTurns
        /\ UNCHANGED <<model, restoreTo>>
     \/ /\ t \in MediaTurns
        /\ model' = SetModel(GetAgent(model), MediaModel, FALSE)
        /\ restoreTo' = [restoreTo EXCEPT
             ![t] = IF Wanted(model) = MediaModel THEN NoModel ELSE Wanted(model)]
  /\ Goes(t, "ready")
  /\ UNCHANGED <<picked, modelOf, tried, signalVars, modelFaults, picks>>

\* It throws: in a call of the agent manager, or sending the notice that
\* another modality is degraded, after the switch.  restoreModelRef is lost.
RouteFails(t) ==
  /\ turnAt[t] = "routing" /\ t \in MediaTurns
  /\ LET s == GetAgent(model) IN
     FaultOf(GetAgentFailed(model) \cup SetModelFailed(s, MediaModel, FALSE)
               \cup {SetModel(s, MediaModel, FALSE)})
  /\ Goes(t, "ended")
  /\ UNCHANGED <<picked, modelOf, tried, restoreTo, signalVars, picks>>

\* The prompt flow goes on to the execution flow, or a before_agent_start hook
\* blocks the turn.
Prepare(t) ==
  /\ turnAt[t] = "ready"
  /\ Goes(t, "trying") \/ Goes(t, "ended")
  /\ UNCHANGED <<model, picked, modelOf, tried, restoreTo, signalVars,
                 modelFaults, picks>>

---------------------------------------------------------------------------
(* runPromptWithFallback.                                                  *)

\* An iteration: registerActivePromptRun, and agent.prompt is called, also
\* when the signal is aborted already.
Attempt(t) ==
  /\ turnAt[t] = "trying"
  /\ model' = GetAgent(model)
  /\ modelOf' = [modelOf EXCEPT ![t] = Wanted(model)]
  /\ activeRun' = t /\ interrupted' = FALSE
  /\ Goes(t, "prompting")
  /\ UNCHANGED <<picked, tried, restoreTo, aborted, superseded, modelFaults, picks>>

NoAgent(t) ==
  /\ turnAt[t] = "trying"
  /\ FaultOf({ClearOverride(s) : s \in GetAgentFailed(model)})
  /\ Goes(t, "ended")
  /\ UNCHANGED <<picked, modelOf, tried, restoreTo, signalVars, picks>>

\* clearActivePromptRun, by the session's key.
Unregister == activeRun' = NoTurn /\ interrupted' = FALSE

PromptReturns(t) ==
  /\ turnAt[t] = "prompting" /\ t \notin aborted
  /\ model' = ClearOverride(model)
  /\ Unregister
  /\ Goes(t, "answered")
  /\ UNCHANGED <<picked, modelOf, tried, restoreTo, aborted, superseded,
                 modelFaults, picks>>

\* The error is thrown on: the session was interrupted, or the provider threw
\* an AbortError.
GiveUp(t) ==
  /\ turnAt[t] = "prompting" /\ (interrupted \/ t \notin aborted)
  /\ model' = ClearOverride(model)
  /\ Unregister
  /\ Goes(t, "ended")
  /\ UNCHANGED <<picked, modelOf, tried, restoreTo, aborted, superseded,
                 modelFaults, picks>>

\* A context overflow, compacted: the same model is prompted again, however
\* often that was done before.
Compacted(t) ==
  /\ turnAt[t] = "prompting" /\ ~interrupted /\ t \notin aborted
  /\ model' = GetAgent(model)
  /\ Unregister
  /\ Goes(t, "trying")
  /\ UNCHANGED <<picked, modelOf, tried, restoreTo, aborted, superseded,
                 modelFaults, picks>>

\* The compaction fails, which ends the turn.
CompactionFails(t) ==
  /\ turnAt[t] = "prompting" /\ ~interrupted /\ t \notin aborted
  /\ model' = ClearOverride(GetAgent(model))
  /\ Unregister
  /\ Goes(t, "ended")
  /\ UNCHANGED <<picked, modelOf, tried, restoreTo, aborted, superseded,
                 modelFaults, picks>>

\* fallbacks.find: the first one that was not tried, if there is one.
Untried(known) ==
  {Fallbacks[i] : i \in {i \in DOMAIN Fallbacks :
     Fallbacks[i] \notin known /\ \A j \in 1..(i - 1) : Fallbacks[j] \in known}}

\* Variant: the failed model is not remembered.
FallBackForgets(t) ==
  /\ turnAt[t] = "prompting" /\ ~interrupted
  /\ \/ /\ \E m \in Untried(tried[t]) : model' = SetModel(model, m, FALSE)
        /\ Goes(t, "trying")
     \/ /\ Untried(tried[t]) = {}
        /\ model' = ClearOverride(model)
        /\ Goes(t, "ended")
  /\ Unregister
  /\ UNCHANGED <<picked, modelOf, tried, restoreTo, aborted, superseded,
                 modelFaults, picks>>

\* Any other error, a timeout and an abort with a plain reason among them: the
\* next fallback, if one is left.
FallBack(t) ==
  /\ turnAt[t] = "prompting" /\ ~interrupted
  /\ tried' = [tried EXCEPT ![t] = @ \cup {modelOf[t]}]
  /\ \/ /\ \E m \in Untried(tried'[t]) : model' = SetModel(model, m, FALSE)
        /\ Goes(t, "trying")
     \/ /\ Untried(tried'[t]) = {}
        /\ model' = ClearOverride(model)
        /\ Goes(t, "ended")
  /\ Unregister
  /\ UNCHANGED <<picked, modelOf, restoreTo, aborted, superseded,
                 modelFaults, picks>>

\* setSessionModel for the fallback throws.
FallBackFails(t) ==
  /\ turnAt[t] = "prompting" /\ ~interrupted
  /\ \E m \in Untried(tried[t] \cup {modelOf[t]}) :
       FaultOf({ClearOverride(s) : s \in SetModelFailed(model, m, FALSE)})
  /\ Unregister
  /\ Goes(t, "ended")
  /\ UNCHANGED <<picked, modelOf, tried, restoreTo, aborted, superseded, picks>>

---------------------------------------------------------------------------
(* After the prompt.                                                       *)

\* The coordinator reads the answer from getAgent: the model is switched back.
\* When that throws, or the answer is flagged as failed, the turn fails.
Summarise(t) ==
  /\ turnAt[t] = "answered"
  /\ \/ model' = GetAgent(model) /\ UNCHANGED modelFaults
     \/ FaultOf(GetAgentFailed(model))
  /\ Goes(t, "ended")
  /\ UNCHANGED <<picked, modelOf, tried, restoreTo, signalVars, picks>>

\* The cleanup flow: setSessionModel, persistently; when it throws, a warning.
\* The variables of the turn go out of scope.
Cleanup(t) ==
  /\ turnAt[t] = "ended"
  /\ \/ /\ restoreTo[t] = NoModel
        /\ UNCHANGED <<model, modelFaults>>
     \/ /\ restoreTo[t] # NoModel
        /\ \/ model' = SetModel(model, restoreTo[t], TRUE) /\ UNCHANGED modelFaults
           \/ FaultOf(SetModelFailed(model, restoreTo[t], TRUE))
  /\ Goes(t, "over")
  /\ modelOf' = [modelOf EXCEPT ![t] = NoModel]
  /\ tried' = [tried EXCEPT ![t] = {}]
  /\ restoreTo' = [restoreTo EXCEPT ![t] = NoModel]
  /\ UNCHANGED <<picked, signalVars, picks>>

---------------------------------------------------------------------------
\* /tasks stop, or the timeout of a task: the newest run is aborted.  /stop and
\* a preempting message also mark the session, if a prompt is registered.
Abort ==
  /\ UnderWay \ aborted # {}
  /\ aborted' = aborted \cup UnderWay
  /\ interrupted' \in {interrupted, interrupted \/ activeRun # NoTurn}
  /\ UNCHANGED <<model, picked, turnVars, superseded, activeRun,
                 modelFaults, picks>>

\* /switch, a command turn of the session.
Pick(m) ==
  /\ UnderWay = {} /\ picks < MaxPicks /\ picks' = picks + 1
  /\ picked' = m
  /\ \/ model' = SetModel(model, m, TRUE) /\ UNCHANGED modelFaults
     \/ FaultOf(SetModelFailed(model, m, TRUE))
  /\ UNCHANGED <<turnVars, signalVars>>

AttemptsNext ==
  \/ \E t \in Turns :
       \/ Begin(t)
       \/ Route(t)
       \/ RouteFails(t)
       \/ Prepare(t)
       \/ Attempt(t)
       \/ NoAgent(t)
       \/ PromptReturns(t)
       \/ GiveUp(t)
       \/ Compacted(t)
       \/ CompactionFails(t)
       \/ FallBack(t)
       \/ FallBackFails(t)
       \/ Summarise(t)
       \/ Cleanup(t)
  \/ Abort
  \/ \E m \in Models : Pick(m)

AttemptsSpec == AttemptsInit /\ [][AttemptsNext]_attemptVars

\* The awaits of a turn settle; a prompt has a timeout.
AttemptsFairness ==
  \A t \in Turns :
    /\ WF_attemptVars(Route(t) \/ Prepare(t) \/ Summarise(t) \/ Cleanup(t))
    /\ WF_attemptVars(Attempt(t))
    /\ WF_attemptVars(PromptReturns(t) \/ GiveUp(t) \/ Compacted(t)
                        \/ CompactionFails(t) \/ FallBack(t))

---------------------------------------------------------------------------
(* Properties.                                                             *)

AttemptsTypeOK ==
  /\ model \in [locked : Models \cup {NoModel}, override : Models \cup {NoModel},
                active : Models \cup {NoModel}]
  /\ picked \in Models
  /\ turnAt \in [Turns -> TurnStages]
  /\ modelOf \in [Turns -> Models \cup {NoModel}]
  /\ tried \in [Turns -> SUBSET Models]
  /\ restoreTo \in [Turns -> Models \cup {NoModel}]
  /\ aborted \subseteq Turns /\ superseded \subseteq aborted
  /\ activeRun \in Turns \cup {NoTurn} /\ interrupted \in BOOLEAN
  /\ modelFaults \in 0..MaxModelFaults
  /\ picks \in 0..MaxPicks

\* Between turns the session answers with the model the user asked for,
\* whatever routing, fallbacks, compactions, rotations and aborts the turns
\* before went through, unless a call of the agent manager failed or one run
\* superseded another.
ModelsRestored ==
  UnderWay = {} /\ superseded = {} /\ modelFaults = 0 => Wanted(model) = picked

\* A turn ends, unless its context overflows again and again after compactions
\* that succeed, which nothing in the code counts: routing and fallbacks, and any
\* number of compactions between them, each of which changes the model the others
\* read, make no other cycle.  Turns that overlap can: each sets the override the
\* other was about to read, and neither tries anything new.
TurnsEnd ==
  \A t \in Turns :
    \/ []<><<Compacted(t)>>_attemptVars
    \/ turnAt[t] = "routing" ~> (turnAt[t] = "over" \/ superseded # {})
===========================================================================
