---------------------------- MODULE ProcessRuns ----------------------------
(***************************************************************************)
(* Commands an agent executes on the host: ExecRuntime, which answers the  *)
(* call, the process supervisor, which keeps the runs and their timers,    *)
(* the process registry, a table of SQLite with one row per command, the   *)
(* process tool's kill, and killProcessTree.                               *)
(*                                                                         *)
(* The row and the run change apart: the row exists before the process     *)
(* does, anybody who may list the rows may kill one, and a call can be     *)
(* answered, by its signal or its timer, while the process goes on.        *)
(***************************************************************************)
EXTENDS Naturals, FiniteSets

CONSTANTS
  Execs,       \* calls of execute
  OneShots,    \* without background and yieldMs; these always have a timeout
  Yielding,    \* with yieldMs; the others are background calls
  TimedExecs,  \* with an overall timeout
  Abortable,   \* with an abort signal
  Stubborn,    \* processes that ignore SIGTERM
  MaxCalls,    \* bound: calls made in a behaviour
  MaxHostRestarts  \* bound: restarts of the host

ASSUME ExecAssumption ==
  /\ OneShots \subseteq TimedExecs /\ TimedExecs \subseteq Execs
  /\ Yielding \subseteq Execs \ OneShots
  /\ Abortable \subseteq Execs /\ Stubborn \subseteq Execs
  /\ MaxCalls \in Nat /\ MaxHostRestarts \in Nat

VARIABLES
  call,       \* stage of the call; "lost" when the host restarted
  answer,     \* what execute returned
  process,    \* the operating system's process
  managed,    \* state of the supervisor's record
  why,        \* terminationReason in it
  forced,     \* forcedReason of the run
  settled,    \* the run's settled
  execRow,    \* status of the row; "killed" is "exited" with signal SIGTERM
  signalled,  \* abort signals that fired
  onAbort,    \* runs whose abort handler is registered
  hostRestarts

execVars == <<call, answer, process, managed, why, forced, settled, execRow, signalled,
              onAbort, hostRestarts>>

CallStage   == {"idle", "spawning", "racing", "answered", "lost"}
ExecAnswer  == {"none", "error", "completed", "backgrounded", "yielded"}
ProcessLife == {"none", "alive", "termed", "dead"}
RunState    == {"none", "starting", "running", "exiting", "exited"}
EndReason   == {"none", "exit", "manual-cancel", "overall-timeout", "spawn-error"}
RowStatus   == {"none", "running", "exited", "killed", "deleted"}

ExecInit ==
  /\ call = [x \in Execs |-> "idle"]
  /\ answer = [x \in Execs |-> "none"] /\ process = answer /\ managed = answer
  /\ why = answer /\ forced = answer /\ execRow = answer
  /\ settled = {} /\ signalled = {} /\ onAbort = {}
  /\ hostRestarts = 0

---------------------------------------------------------------------------
(* The pieces of a step.                                                   *)

\* A run the supervisor has in `active'.
Active(x) == call[x] \in {"racing", "answered"} /\ process[x] # "none" /\ x \notin settled

\* requestCancel: the first reason stays; the tree is sent SIGTERM.
RequestCancel(x, reason) ==
  /\ forced' = [forced EXCEPT ![x] = IF @ = "none" THEN reason ELSE @]
  /\ IF forced[x] = "none"
     THEN /\ managed' = [managed EXCEPT ![x] = "exiting"]
          /\ why' = [why EXCEPT ![x] = reason]
     ELSE UNCHANGED <<managed, why>>
  /\ process' = [process EXCEPT ![x] = IF x \notin settled /\ @ = "alive" THEN "termed" ELSE @]

\* markExited: an UPDATE, which finds no deleted row.
Marked(x, status) == IF execRow[x] = "deleted" THEN execRow ELSE [execRow EXCEPT ![x] = status]

ExecAnswered(x, a) ==
  /\ call' = [call EXCEPT ![x] = "answered"]
  /\ answer' = [answer EXCEPT ![x] = a]

---------------------------------------------------------------------------
(* The call.                                                               *)

\* addSession, then spawn up to its await.
Execute(x) ==
  /\ call[x] = "idle" /\ Cardinality({y \in Execs : call[y] # "idle"}) < MaxCalls
  /\ call' = [call EXCEPT ![x] = "spawning"]
  /\ execRow' = [execRow EXCEPT ![x] = "running"]
  /\ managed' = [managed EXCEPT ![x] = "starting"]
  /\ UNCHANGED <<answer, process, why, forced, settled, signalled, onAbort, hostRestarts>>

\* Neither the PTY nor the child can be spawned.
SpawnFails(x) ==
  /\ call[x] = "spawning"
  /\ managed' = [managed EXCEPT ![x] = "exited"]
  /\ why' = [why EXCEPT ![x] = "spawn-error"]
  /\ execRow' = Marked(x, "exited")
  /\ ExecAnswered(x, "error")
  /\ UNCHANGED <<process, forced, settled, signalled, onAbort, hostRestarts>>

\* The process exists: the supervisor's continuation, then the caller's.
Spawned(x) ==
  /\ call[x] = "spawning"
  /\ \/ /\ x \in signalled
        /\ process' = [process EXCEPT ![x] = "termed"]
        /\ managed' = [managed EXCEPT ![x] = "exiting"]
        /\ why' = [why EXCEPT ![x] = "manual-cancel"]
        /\ forced' = [forced EXCEPT ![x] = "manual-cancel"]
        /\ execRow' = Marked(x, "exited")
        /\ ExecAnswered(x, "completed")
        /\ UNCHANGED onAbort
     \/ /\ x \notin signalled
        /\ process' = [process EXCEPT ![x] = "alive"]
        /\ managed' = [managed EXCEPT ![x] = "running"]
        /\ onAbort' = onAbort \cup ({x} \cap Abortable)
        /\ IF x \in OneShots \cup Yielding
           THEN call' = [call EXCEPT ![x] = "racing"] /\ UNCHANGED answer
           ELSE ExecAnswered(x, "backgrounded")
        /\ UNCHANGED <<why, forced, execRow>>
  /\ UNCHANGED <<settled, signalled, hostRestarts>>

\* Variant: who yields is answered, and its process is left alone.
AbortAnswersOnly(x) ==
  /\ x \in Abortable \ signalled /\ call[x] \notin {"idle", "lost"}
  /\ signalled' = signalled \cup {x}
  /\ onAbort' = onAbort \ {x}
  /\ IF x \in onAbort /\ call[x] = "answered"
     THEN RequestCancel(x, "manual-cancel") ELSE UNCHANGED <<forced, managed, why, process>>
  /\ IF x \in onAbort /\ call[x] = "racing"
     THEN execRow' = Marked(x, "exited") /\ ExecAnswered(x, "completed")
     ELSE UNCHANGED <<execRow, call, answer>>
  /\ UNCHANGED <<settled, hostRestarts>>

\* The signal fires.  A handler that is registered cancels the run; a call
\* that is not answered yet is answered, and its row marked.  The handler of a
\* background call is registered as long as nobody aborts.
AbortExec(x) ==
  /\ x \in Abortable \ signalled /\ call[x] \notin {"idle", "lost"}
  /\ signalled' = signalled \cup {x}
  /\ onAbort' = onAbort \ {x}
  /\ IF x \in onAbort
     THEN RequestCancel(x, "manual-cancel") ELSE UNCHANGED <<forced, managed, why, process>>
  /\ IF x \in onAbort /\ call[x] = "racing"
     THEN execRow' = Marked(x, "exited") /\ ExecAnswered(x, "completed")
     ELSE UNCHANGED <<execRow, call, answer>>
  /\ UNCHANGED <<settled, hostRestarts>>

\* The timer of yieldMs.
Yield(x) ==
  /\ x \in Yielding /\ call[x] = "racing"
  /\ onAbort' = onAbort \ {x}
  /\ ExecAnswered(x, "yielded")
  /\ UNCHANGED <<process, managed, why, forced, settled, execRow, signalled, hostRestarts>>

---------------------------------------------------------------------------
(* The run.                                                                *)

OverallTimeout(x) ==
  /\ x \in TimedExecs /\ Active(x)
  /\ RequestCancel(x, "overall-timeout")
  /\ UNCHANGED <<call, answer, settled, execRow, signalled, onAbort, hostRestarts>>

\* The process ends by itself, or of SIGTERM.
Exits(x) ==
  /\ \/ process[x] = "alive"
     \/ process[x] = "termed" /\ x \notin Stubborn
  /\ process' = [process EXCEPT ![x] = "dead"]
  /\ UNCHANGED <<call, answer, managed, why, forced, settled, execRow, signalled, onAbort,
                 hostRestarts>>

\* Variant: the second signal is SIGTERM again.
GraceTerm(x) ==
  /\ process[x] = "termed" /\ call[x] # "lost" /\ x \notin Stubborn
  /\ process' = [process EXCEPT ![x] = "dead"]
  /\ UNCHANGED <<call, answer, managed, why, forced, settled, execRow, signalled, onAbort,
                 hostRestarts>>

\* The timer of killProcessTree, after the grace period: SIGKILL.
GraceOver(x) ==
  /\ process[x] = "termed" /\ call[x] # "lost"
  /\ process' = [process EXCEPT ![x] = "dead"]
  /\ UNCHANGED <<call, answer, managed, why, forced, settled, execRow, signalled, onAbort,
                 hostRestarts>>

\* wait of the adapter resolves: the run is settled and those who await it
\* go on in the same turn of the event loop.  (A call answered by its signal has
\* marked its row already.)  The handler of a background call stays.
ExecSettles(x) ==
  /\ Active(x) /\ process[x] = "dead"
  /\ settled' = settled \cup {x}
  /\ managed' = [managed EXCEPT ![x] = "exited"]
  /\ why' = [why EXCEPT ![x] = IF forced[x] = "none" THEN "exit" ELSE forced[x]]
  /\ execRow' = Marked(x, "exited")
  /\ IF call[x] = "racing"
     THEN \E a \in {"completed", "error"} : ExecAnswered(x, a)
     ELSE UNCHANGED <<call, answer>>
  /\ onAbort' = onAbort \ ({x} \cap (OneShots \cup Yielding))
  /\ UNCHANGED <<process, forced, signalled, hostRestarts>>

---------------------------------------------------------------------------
(* The process tool, the sweeper, the host.                                *)

\* handleKill: cancel does nothing unless the run is active, and its own
\* reason goes into the record whatever the first one was.
KillRow(x) ==
  /\ execRow[x] = "running"
  /\ execRow' = [execRow EXCEPT ![x] = "killed"]
  /\ IF Active(x)
     THEN /\ forced' = [forced EXCEPT ![x] = IF @ = "none" THEN "manual-cancel" ELSE @]
          /\ managed' = [managed EXCEPT ![x] = "exiting"]
          /\ why' = [why EXCEPT ![x] = "manual-cancel"]
          /\ process' = [process EXCEPT ![x] = IF @ = "alive" THEN "termed" ELSE @]
     ELSE UNCHANGED <<forced, managed, why, process>>
  /\ UNCHANGED <<call, answer, settled, signalled, onAbort, hostRestarts>>

\* pruneExpiredSessions goes by the start of a row that has ended.
SweepRow(x) ==
  /\ execRow[x] \in {"exited", "killed"}
  /\ execRow' = [execRow EXCEPT ![x] = "deleted"]
  /\ UNCHANGED <<call, answer, process, managed, why, forced, settled, signalled, onAbort,
                 hostRestarts>>

\* The host stops and starts again: the rows and the processes, which lead
\* groups of their own, stay; a SIGKILL that was due is never sent.
RestartHost ==
  /\ hostRestarts < MaxHostRestarts /\ hostRestarts' = hostRestarts + 1
  /\ call' = [x \in Execs |-> IF call[x] = "idle" THEN "idle" ELSE "lost"]
  /\ managed' = [x \in Execs |-> "none"] /\ why' = managed' /\ forced' = managed'
  /\ onAbort' = {}
  /\ UNCHANGED <<answer, process, settled, execRow, signalled>>

---------------------------------------------------------------------------
ExecStep(x) ==
  \/ Execute(x) \/ SpawnFails(x) \/ Spawned(x) \/ AbortExec(x) \/ Yield(x)
  \/ OverallTimeout(x) \/ Exits(x) \/ GraceOver(x) \/ ExecSettles(x)
  \/ KillRow(x) \/ SweepRow(x)

ExecNext == RestartHost \/ \E x \in Execs : ExecStep(x)

ExecSpec == ExecInit /\ [][ExecNext]_execVars

\* A spawn settles, timers fire and Node reports the end of a child.  Nothing
\* makes a process end by itself.
ExecFairness ==
  \A x \in Execs :
    /\ WF_execVars(SpawnFails(x) \/ Spawned(x))
    /\ WF_execVars(Yield(x)) /\ WF_execVars(OverallTimeout(x))
    /\ WF_execVars(GraceOver(x)) /\ WF_execVars(ExecSettles(x))

---------------------------------------------------------------------------
(* Properties.                                                             *)

ExecTypeOK ==
  /\ call \in [Execs -> CallStage] /\ answer \in [Execs -> ExecAnswer]
  /\ process \in [Execs -> ProcessLife] /\ managed \in [Execs -> RunState]
  /\ why \in [Execs -> EndReason] /\ forced \in [Execs -> EndReason]
  /\ execRow \in [Execs -> RowStatus]
  /\ settled \subseteq Execs /\ signalled \subseteq Execs /\ onAbort \subseteq Execs
  /\ hostRestarts \in 0..MaxHostRestarts

\* What is said of a process to the end: a call that was answered "completed" or
\* with an error, or a row that says "exited", has a process that was stopped or
\* ended, and a row of such a call does not say "running"; no restart of the host
\* makes that wrong.
SaidToEnd(x) == answer[x] \in {"completed", "error"}

\* The row, the answer and the process agree.  As long as the host is up, a row
\* moreover says "running" only while its run is; but a row that was killed while
\* its process was being spawned has a process nobody stops.  (After a restart a
\* row may say "running" of a process that is gone, or "killed" of one that is
\* not: the host that knew the process is no more.)
RowsHonest ==
  \A x \in Execs :
    /\ SaidToEnd(x) \/ execRow[x] = "exited" => process[x] # "alive"
    /\ SaidToEnd(x) => execRow[x] # "running"
    /\ call[x] # "lost" =>
       /\ execRow[x] = "running" => call[x] = "spawning" \/ Active(x)
       /\ execRow[x] = "killed" /\ process[x] = "alive" => forced[x] = "none"
       /\ managed[x] = "exited" /\ forced[x] # "none" => why[x] = forced[x]

\* A call is answered, and a run that is to end does, whatever its process
\* ignores and in whatever order signals, timers and kills come.
RunsEnd ==
  \A x \in Execs :
    /\ call[x] = "spawning" ~> call[x] \in {"answered", "lost"}
    /\ forced[x] # "none" ~> (process[x] = "dead" /\ execRow[x] # "running") \/ call[x] = "lost"
=============================================================================
