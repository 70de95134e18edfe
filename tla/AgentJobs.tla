----------------------------- MODULE AgentJobs -----------------------------
(***************************************************************************)
(* Agent jobs: the InMemoryAgentJobRegistry, which keeps the active jobs,  *)
(* the snapshots of those that ended and those who wait for one; the       *)
(* AgentJobRunner, which prompts an agent for a job; and AgentJobDelivery, *)
(* which sends the reply and tries again when that fails.                  *)
(*                                                                         *)
(* A run is one call of AgentJobRunner.run; several runs may be made for   *)
(* one job id, as when a queue item or a reminder is executed again.       *)
(***************************************************************************)
EXTENDS Naturals

CONSTANTS
  Jobs,       \* job ids
  JobRuns,    \* calls of run
  JobOf,      \* job id of a run
  Waiters,    \* calls of waitForJob
  Awaited,    \* job a waiter waits for
  Impatient,  \* waiters with a timeout or an abort signal
  Retries,    \* AgentJobDelivery.retries
  MaxPrunes   \* bound: how often pruneSnapshots finds something

ASSUME JobsAssumption ==
  /\ JobOf \in [JobRuns -> Jobs] /\ Awaited \in [Waiters -> Jobs]
  /\ Impatient \subseteq Waiters
  /\ Retries \in Nat /\ MaxPrunes \in Nat

VARIABLES
  jobStatus,  \* activeJobs: the status of the entry, "none" without one
  snapshot,   \* completedSnapshots: the status in it, "none" without one
  jobRunAt,   \* where a run is
  listening,  \* jobWaiters
  told,       \* what the promise of a waiter resolved to
  sends,      \* how often the dispatcher was called for a run
  arrived,    \* how many of these calls put a message on the wire
  prunes

jobVars == <<jobStatus, snapshot, jobRunAt, listening, told, sends, arrived, prunes>>

JobTerminal == {"completed", "failed", "cancelled"}
JobRunStage == {"none", "created", "prompting", "sending", "returned", "threw"}
JobWaiting  == {"unasked", "asked"}

JobsInit ==
  /\ jobStatus = [j \in Jobs |-> "none"]
  /\ snapshot = [j \in Jobs |-> "none"]
  /\ jobRunAt = [r \in JobRuns |-> "none"]
  /\ listening = [j \in Jobs |-> {}]
  /\ told = [w \in Waiters |-> "unasked"]
  /\ sends = [r \in JobRuns |-> 0] /\ arrived = sends
  /\ prunes = 0

---------------------------------------------------------------------------
(* The registry.                                                           *)

\* create, by the caller that is about to run the job.
CreateJob(r) ==
  LET j == JobOf[r] IN
  /\ jobRunAt[r] = "none"
  /\ jobStatus[j] = "none" /\ snapshot[j] = "none"
  /\ jobStatus' = [jobStatus EXCEPT ![j] = "queued"]
  /\ jobRunAt' = [jobRunAt EXCEPT ![r] = "created"]
  /\ UNCHANGED <<snapshot, listening, told, sends, arrived, prunes>>

\* ALLOWED_TRANSITIONS, for an end.
Allowed(j) == jobStatus[j] \in {"running", "waiting"}

\* Variant: those who wait are told when the job completed, not otherwise.
CompleteSilently(j, o) ==
  /\ Allowed(j)
  /\ jobStatus' = [jobStatus EXCEPT ![j] = "none"]
  /\ snapshot' = [snapshot EXCEPT ![j] = o]
  /\ listening' = [listening EXCEPT ![j] = {}]
  /\ told' = [w \in Waiters |-> IF w \in listening[j] /\ o # "cancelled" THEN o ELSE told[w]]

\* Variant: a snapshot for a job that is not active.
CompleteTwice(j, o) ==
  /\ Allowed(j) \/ snapshot[j] # "none"
  /\ jobStatus' = [jobStatus EXCEPT ![j] = "none"]
  /\ snapshot' = [snapshot EXCEPT ![j] = o]
  /\ listening' = [listening EXCEPT ![j] = {}]
  /\ told' = [w \in Waiters |-> IF w \in listening[j] THEN o ELSE told[w]]

\* updateStatus to an end, and complete: a snapshot, and an answer to everyone
\* who waits.  Both throw, and change nothing, when the guard is false.
Complete(j, o) ==
  /\ Allowed(j)
  /\ jobStatus' = [jobStatus EXCEPT ![j] = "none"]
  /\ snapshot' = [snapshot EXCEPT ![j] = o]
  /\ listening' = [listening EXCEPT ![j] = {}]
  /\ told' = [w \in Waiters |-> IF w \in listening[j] THEN o ELSE told[w]]

\* cancel; a queued job cannot be cancelled, the call throws.
CancelJob(j) ==
  /\ Complete(j, "cancelled")
  /\ UNCHANGED <<jobRunAt, sends, arrived, prunes>>

\* waitForJob.
WaitForJob(w) ==
  LET j == Awaited[w] IN
  /\ told[w] = "unasked"
  /\ \/ /\ snapshot[j] # "none"
        /\ told' = [told EXCEPT ![w] = snapshot[j]]
        /\ UNCHANGED listening
     \/ /\ snapshot[j] = "none"
        /\ told' = [told EXCEPT ![w] = "asked"]
        /\ listening' = [listening EXCEPT ![j] = @ \cup {w}]
     \/ /\ snapshot[j] = "none" /\ w \in Impatient
        /\ told' = [told EXCEPT ![w] = "null"]
        /\ UNCHANGED listening
  /\ UNCHANGED <<jobStatus, snapshot, jobRunAt, sends, arrived, prunes>>

\* The timer or the signal of a waiter: settle(null).
GiveUpWaiting(w) ==
  /\ w \in Impatient /\ told[w] = "asked"
  /\ told' = [told EXCEPT ![w] = "null"]
  /\ listening' = [listening EXCEPT ![Awaited[w]] = @ \ {w}]
  /\ UNCHANGED <<jobStatus, snapshot, jobRunAt, sends, arrived, prunes>>

\* pruneSnapshots, for a snapshot whose time is over.
PruneSnapshot(j) ==
  /\ snapshot[j] # "none" /\ prunes < MaxPrunes
  /\ snapshot' = [snapshot EXCEPT ![j] = "none"]
  /\ prunes' = prunes + 1
  /\ UNCHANGED <<jobStatus, jobRunAt, listening, told, sends, arrived>>

---------------------------------------------------------------------------
(* The runner and the delivery.                                            *)

RunJob(r) ==
  /\ jobRunAt[r] = "created" /\ jobStatus[JobOf[r]] = "queued"
  /\ jobStatus' = [jobStatus EXCEPT ![JobOf[r]] = "running"]
  /\ jobRunAt' = [jobRunAt EXCEPT ![r] = "prompting"]
  /\ UNCHANGED <<snapshot, listening, told, sends, arrived, prunes>>

\* executePrompt resolves or rejects.  When the job was ended by somebody else
\* the transition to completed throws, then that of the catch block.
PromptSettles(r) ==
  LET j == JobOf[r] IN
  /\ jobRunAt[r] = "prompting"
  /\ \/ /\ Complete(j, "completed")
        /\ jobRunAt' = [jobRunAt EXCEPT ![r] = "sending"]
     \/ /\ Complete(j, "failed") \/ Complete(j, "cancelled")
        /\ jobRunAt' = [jobRunAt EXCEPT ![r] = "returned"]
     \/ /\ ~Allowed(j)
        /\ jobRunAt' = [jobRunAt EXCEPT ![r] = "threw"]
        /\ UNCHANGED <<jobStatus, snapshot, listening, told>>
  /\ UNCHANGED <<sends, arrived, prunes>>

\* Variant: the loop goes on after a success, up to the number of retries.
SendAgain(r) ==
  /\ jobRunAt[r] = "sending"
  /\ sends' = [sends EXCEPT ![r] = @ + 1]
  /\ \E ok \in BOOLEAN, wire \in {0, 1} :
       /\ ok => wire = 1
       /\ arrived' = [arrived EXCEPT ![r] = @ + wire]
       /\ jobRunAt' = [jobRunAt EXCEPT ![r] = IF sends[r] > Retries THEN "returned" ELSE @]
  /\ UNCHANGED <<jobStatus, snapshot, listening, told, prunes>>

\* One iteration of deliver: the dispatcher answers, or throws although the
\* message may be on the wire.
SendReply(r) ==
  /\ jobRunAt[r] = "sending"
  /\ sends' = [sends EXCEPT ![r] = @ + 1]
  /\ \E ok \in BOOLEAN, wire \in {0, 1} :
       /\ ok => wire = 1
       /\ arrived' = [arrived EXCEPT ![r] = @ + wire]
       /\ jobRunAt' = [jobRunAt EXCEPT ![r] = IF ok \/ sends[r] = Retries
                                              THEN "returned" ELSE @]
  /\ UNCHANGED <<jobStatus, snapshot, listening, told, prunes>>

---------------------------------------------------------------------------
JobsNext ==
  \/ \E r \in JobRuns : CreateJob(r) \/ RunJob(r) \/ PromptSettles(r) \/ SendReply(r)
  \/ \E j \in Jobs : CancelJob(j) \/ PruneSnapshot(j)
  \/ \E w \in Waiters : WaitForJob(w) \/ GiveUpWaiting(w)

JobsSpec == JobsInit /\ [][JobsNext]_jobVars

\* A job is run by the caller that created it; a prompt has a timeout.
JobsFairness == \A r \in JobRuns : WF_jobVars(RunJob(r)) /\ WF_jobVars(PromptSettles(r))

---------------------------------------------------------------------------
(* Properties.                                                             *)

JobsTypeOK ==
  /\ jobStatus \in [Jobs -> {"none", "queued", "running", "waiting"}]
  /\ snapshot \in [Jobs -> JobTerminal \cup {"none"}]
  /\ jobRunAt \in [JobRuns -> JobRunStage]
  /\ listening \in [Jobs -> SUBSET Waiters]
  /\ told \in [Waiters -> JobWaiting \cup JobTerminal \cup {"null"}]
  /\ sends \in [JobRuns -> 0..(Retries + 1)]
  /\ arrived \in [JobRuns -> 0..(Retries + 1)]
  /\ prunes \in 0..MaxPrunes

\* The sets of waiters in the registry are exactly the promises not yet
\* resolved, and nobody waits for a job that has a snapshot: whatever order of
\* completion, cancellation, timeout, abort and pruning.
WaitersKept ==
  /\ \A j \in Jobs : listening[j] = {w \in Waiters : Awaited[w] = j /\ told[w] = "asked"}
  /\ \A j \in Jobs : snapshot[j] # "none" => listening[j] = {} /\ jobStatus[j] = "none"

\* The registry keeps the promise of Futures.
F == INSTANCE Futures WITH Outcomes <- JobTerminal, outcome <- snapshot, answer <- told
ImplementsFutures == F!FuturesSpec

\* Who waits for a job that was created is answered without any timeout.
WaitersServed ==
  \A w \in Waiters :
    told[w] = "asked" /\ jobStatus[Awaited[w]] # "none" ~> told[w] # "asked"
=============================================================================
