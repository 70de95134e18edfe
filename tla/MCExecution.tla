---------------------------- MODULE MCExecution -----------------------------
(***************************************************************************)
(* What the host executes for others, each on its own: a behaviour is one  *)
(* of a single part, which the initial state picks, and the other parts    *)
(* stay as they are initially, where none of their fair actions is         *)
(* enabled.                                                                *)
(*                                                                         *)
(* Runs: two message runs of one session, the second one a /new, a run     *)
(* with a timeout in a session of its own, an outside interrupter. Tasks:  *)
(* one parent with one slot; the third task is refused, or one of          *)
(* sessions_spawn. Jobs: one job id that is used twice, by two waiters,    *)
(* one of them impatient. Execs: a call that awaits its process, one that  *)
(* yields, one in the background.                                          *)
(***************************************************************************)
EXTENDS DetachedRuns, SubagentTasks, AgentJobs, ProcessRuns, TLC

CONSTANTS m1, m2, sub, stop, s1, s2, p1, j1

MCSessionOf == m1 :> s1 @@ m2 :> s1 @@ sub :> s2
MCParentOf  == [t \in Tasks |-> p1]
MCJobOf     == [r \in JobRuns |-> j1]
MCAwaited   == [w \in Waiters |-> j1]

VARIABLE part

parts == <<runVars, taskVars, jobVars, execVars>>

mcVars == <<part, parts>>

MCInit ==
  /\ part \in {"runs", "tasks", "jobs", "execs"}
  /\ RunsInit /\ TasksInit /\ JobsInit /\ ExecInit

MCNext ==
  /\ UNCHANGED part
  /\ \/ /\ part = "runs" /\ RunsNext
        /\ UNCHANGED <<taskVars, jobVars, execVars>>
     \/ /\ part = "tasks" /\ TasksNext
        /\ UNCHANGED <<runVars, jobVars, execVars>>
     \/ /\ part = "jobs" /\ JobsNext
        /\ UNCHANGED <<runVars, taskVars, execVars>>
     \/ /\ part = "execs" /\ ExecNext
        /\ UNCHANGED <<runVars, taskVars, jobVars>>

MCSpec ==
  /\ MCInit /\ [][MCNext]_mcVars
  /\ RunsFairness /\ TasksFairness /\ JobsFairness /\ ExecFairness
=============================================================================
