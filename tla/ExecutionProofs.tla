-------------------------- MODULE ExecutionProofs --------------------------
(***************************************************************************)
(* Proofs about the commands of an agent (ProcessRuns), its subagent tasks *)
(* (SubagentTasks), the registry of agent jobs (AgentJobs) and the         *)
(* detached runs of the host (DetachedRuns), and about their composition.  *)
(*                                                                         *)
(* Commands: beside the row, the run and the process of a call, what holds *)
(* before its process exists and after its run is settled.                 *)
(*                                                                         *)
(* Detached runs: LiveIndex is what makes setTerminal correct, which       *)
(* deletes the entry of the session without looking whose it is: the entry *)
(* is that of the run because the run is live.  It needs EntriesOwned for  *)
(* one step only, the start of a run, whose id must not be in use.         *)
(* TerminalOnce needs that no callback is queued for a run that is still   *)
(* live (NoEarlyCallback).                                                 *)
(***************************************************************************)
EXTENDS MCExecution, FiniteSetTheorems, SequenceTheorems, TLAPS

---------------------------------------------------------------------------
(* Commands.                                                               *)

\* Before a process there is nothing to stop; a settled run has none left.
CallBooks(x) ==
  /\ call[x] = "idle" => execRow[x] = "none"
  /\ call[x] \in {"idle", "spawning"} =>
       process[x] = "none" /\ forced[x] = "none" /\ x \notin settled /\ x \notin onAbort
  /\ call[x] \in {"idle", "spawning", "racing"} => answer[x] = "none"
  /\ call[x] = "spawning" => execRow[x] # "exited"
  /\ x \in settled /\ call[x] # "lost" => process[x] = "dead"

RowHonest(x) ==
  /\ SaidToEnd(x) \/ execRow[x] = "exited" => process[x] # "alive"
  /\ SaidToEnd(x) => execRow[x] # "running"
  /\ call[x] # "lost" =>
     /\ execRow[x] = "running" => call[x] = "spawning" \/ Active(x)
     /\ execRow[x] = "killed" /\ process[x] = "alive" => forced[x] = "none"
     /\ managed[x] = "exited" /\ forced[x] # "none" => why[x] = forced[x]

ExecInv == ExecTypeOK /\ \A x \in Execs : CallBooks(x) /\ RowHonest(x)

LEMMA ExecTypes ==
  ASSUME ExecTypeOK, [ExecNext]_execVars
  PROVE  ExecTypeOK'
<1>. USE ExecAssumption DEF ExecTypeOK, CallStage, ExecAnswer, ProcessLife, RunState, EndReason,
                            RowStatus
<1>1. ASSUME NEW x \in Execs, Execute(x) PROVE ExecTypeOK'
  BY <1>1 DEF Execute
<1>2. ASSUME NEW x \in Execs, SpawnFails(x) \/ Spawned(x) PROVE ExecTypeOK'
  BY <1>2 DEF SpawnFails, Spawned, Marked, ExecAnswered
<1>3. ASSUME NEW x \in Execs, AbortExec(x) PROVE ExecTypeOK'
  BY <1>3 DEF AbortExec, RequestCancel, Marked, ExecAnswered
<1>4. ASSUME NEW x \in Execs, Yield(x) \/ Exits(x) \/ GraceOver(x) \/ SweepRow(x)
      PROVE  ExecTypeOK'
  BY <1>4 DEF Yield, Exits, GraceOver, SweepRow, ExecAnswered
<1>5. ASSUME NEW x \in Execs, OverallTimeout(x) PROVE ExecTypeOK'
  BY <1>5 DEF OverallTimeout, RequestCancel
<1>6. ASSUME NEW x \in Execs, ExecSettles(x) PROVE ExecTypeOK'
  BY <1>6 DEF ExecSettles, Marked, ExecAnswered
<1>7. ASSUME NEW x \in Execs, KillRow(x) PROVE ExecTypeOK'
  BY <1>7 DEF KillRow
<1>8. CASE RestartHost \/ UNCHANGED execVars
  BY <1>8 DEF RestartHost, execVars
<1>. QED
  BY <1>1, <1>2, <1>3, <1>4, <1>5, <1>6, <1>7, <1>8 DEF ExecNext, ExecStep

\* A step of a call leaves the books of the others alone.
LEMMA OtherCalls ==
  ASSUME ExecInv, NEW x \in Execs, ExecStep(x), NEW y \in Execs, y # x
  PROVE  CallBooks(y)' /\ RowHonest(y)'
<1>. DEFINE Same == /\ call'[y] = call[y] /\ process'[y] = process[y] /\ forced'[y] = forced[y]
                    /\ answer'[y] = answer[y]
                    /\ managed'[y] = managed[y] /\ why'[y] = why[y] /\ execRow'[y] = execRow[y]
                    /\ y \in settled' <=> y \in settled
                    /\ y \in onAbort' => y \in onAbort
<1>. USE DEF ExecTypeOK
<1>1. ExecTypeOK
  BY DEF ExecInv
<1>2. CASE Execute(x)
  <2>. Same  BY <1>1, <1>2 DEF Execute
  <2>. QED  BY DEF ExecInv, CallBooks, RowHonest, SaidToEnd, Active
<1>3. CASE SpawnFails(x) \/ Spawned(x)
  <2>. Same  BY <1>1, <1>3 DEF SpawnFails, Spawned, Marked, ExecAnswered
  <2>. QED  BY DEF ExecInv, CallBooks, RowHonest, SaidToEnd, Active
<1>4. CASE AbortExec(x) \/ OverallTimeout(x)
  <2>. Same  BY <1>1, <1>4 DEF AbortExec, OverallTimeout, RequestCancel, Marked, ExecAnswered
  <2>. QED  BY DEF ExecInv, CallBooks, RowHonest, SaidToEnd, Active
<1>5. CASE Yield(x) \/ Exits(x) \/ GraceOver(x) \/ SweepRow(x)
  <2>. Same  BY <1>1, <1>5 DEF Yield, Exits, GraceOver, SweepRow, ExecAnswered
  <2>. QED  BY DEF ExecInv, CallBooks, RowHonest, SaidToEnd, Active
<1>6. CASE ExecSettles(x) \/ KillRow(x)
  <2>. Same  BY <1>1, <1>6 DEF ExecSettles, KillRow, Marked, ExecAnswered
  <2>. QED  BY DEF ExecInv, CallBooks, RowHonest, SaidToEnd, Active
<1>. QED  BY <1>2, <1>3, <1>4, <1>5, <1>6 DEF ExecStep

LEMMA OwnCall ==
  ASSUME ExecInv, NEW x \in Execs, ExecStep(x)
  PROVE  CallBooks(x)' /\ RowHonest(x)'
<1>. USE DEF ExecTypeOK, CallBooks, RowHonest, SaidToEnd, Active
<1>1. ExecTypeOK /\ CallBooks(x) /\ RowHonest(x)
  BY DEF ExecInv
<1>2. CASE Execute(x)
  BY <1>1, <1>2 DEF Execute
<1>3. CASE SpawnFails(x)
  BY <1>1, <1>3 DEF SpawnFails, Marked, ExecAnswered
<1>4. CASE Spawned(x)
  BY <1>1, <1>4 DEF Spawned, Marked, ExecAnswered
<1>5. CASE AbortExec(x)
  BY <1>1, <1>5 DEF AbortExec, RequestCancel, Marked, ExecAnswered
<1>6. CASE OverallTimeout(x)
  BY <1>1, <1>6 DEF OverallTimeout, RequestCancel
<1>7. CASE Yield(x)
  BY <1>1, <1>7 DEF Yield, ExecAnswered
<1>8. CASE Exits(x) \/ GraceOver(x) \/ SweepRow(x)
  BY <1>1, <1>8 DEF Exits, GraceOver, SweepRow
<1>9. CASE ExecSettles(x)
  BY <1>1, <1>9 DEF ExecSettles, Marked, ExecAnswered
<1>10. CASE KillRow(x)
  BY <1>1, <1>10 DEF KillRow
<1>. QED
  BY <1>2, <1>3, <1>4, <1>5, <1>6, <1>7, <1>8, <1>9, <1>10 DEF ExecStep

\* In whatever order signals, timers, kills, sweeps and restarts come: a call
\* that was answered to the end and a row that says "exited" have a process that
\* was stopped or ended, also after a restart; while the host is up a row says
\* "running" only while its run is, and the reason a run ended for is the first
\* it was asked to.
THEOREM RowsAreHonest == ExecSpec => []RowsHonest
<1>1. ExecInit => ExecInv
  BY ExecAssumption DEF ExecInit, ExecInv, ExecTypeOK, CallBooks, RowHonest, SaidToEnd, CallStage, ExecAnswer, ProcessLife,
         RunState, EndReason, RowStatus
<1>2. ExecInv /\ [ExecNext]_execVars => ExecInv'
  <2>. SUFFICES ASSUME ExecInv, [ExecNext]_execVars PROVE ExecInv'
    OBVIOUS
  <2>1. ExecTypeOK'
    BY ExecTypes DEF ExecInv
  <2>2. ASSUME NEW x \in Execs, ExecStep(x), NEW y \in Execs PROVE CallBooks(y)' /\ RowHonest(y)'
    BY <2>2, OwnCall, OtherCalls
  <2>3. ASSUME RestartHost, NEW y \in Execs PROVE CallBooks(y)' /\ RowHonest(y)'
    <3>1. /\ call'[y] = (IF call[y] = "idle" THEN "idle" ELSE "lost")
          /\ managed'[y] = "none" /\ forced'[y] = "none" /\ y \notin onAbort'
          /\ process' = process /\ execRow' = execRow /\ settled' = settled
          /\ answer' = answer
      BY <2>3 DEF RestartHost
    <3>. QED  BY <3>1 DEF ExecInv, CallBooks, RowHonest, SaidToEnd
  <2>4. ASSUME UNCHANGED execVars, NEW y \in Execs PROVE CallBooks(y)' /\ RowHonest(y)'
    BY <2>4 DEF execVars, ExecInv, CallBooks, RowHonest, SaidToEnd, Active
  <2>5. \A y \in Execs : CallBooks(y)' /\ RowHonest(y)'
    BY <2>2, <2>3, <2>4 DEF ExecNext
  <2>. QED  BY <2>1, <2>5 DEF ExecInv
<1>3. ExecInv => RowsHonest
  BY DEF ExecInv, RowsHonest, RowHonest
<1>. QED  BY <1>1, <1>2, <1>3, PTL DEF ExecSpec

---------------------------------------------------------------------------
(* Subagent tasks: the slots of a parent.                                  *)

Under == {"creating", "starting", "live"}

\* A queue holds spawns of its parent, each once, that wait.
Waits ==
  \A p \in Parents :
    /\ \A i \in 1..Len(spawnQueue[p]) :
         taskAt[spawnQueue[p][i]] = "waiting" /\ ParentOf[spawnQueue[p][i]] = p
    /\ \A i, j \in 1..Len(spawnQueue[p]) : spawnQueue[p][i] = spawnQueue[p][j] => i = j

SlotsOf(p) ==
  /\ IsFiniteSet(Holding(p))
  /\ Cardinality(Holding(p)) <= activeCount[p] /\ activeCount[p] <= MaxConcurrent
  /\ faults = 0 => activeCount[p] = Cardinality(Holding(p))
  /\ spawnQueue[p] # <<>> => activeCount[p] = MaxConcurrent

SlotTypes ==
  /\ taskAt \in [Tasks -> TaskStage]
  /\ activeCount \in [Parents -> Nat]
  /\ spawnQueue \in [Parents -> Seq(Tasks)]
  /\ faults \in 0..MaxFaults

SlotInv == SlotTypes /\ Waits /\ \A p \in Parents : SlotsOf(p)

\* A task that gives its slot back: what happens to every other one.
Moved(t) ==
  \A x \in Tasks :
    \/ taskAt'[x] = taskAt[x]
    \/ x = t /\ taskAt'[x] = "over"
    \/ taskAt[x] = "waiting" /\ taskAt'[x] \in {"creating", "over"}

\* What is left of a queue after its first i.
LEMMA RestOfQueue ==
  ASSUME NEW S, NEW q \in Seq(S), NEW i \in 1..Len(q)
  PROVE  LET rest == SubSeq(q, i + 1, Len(q)) IN
         /\ rest \in Seq(S) /\ Len(rest) = Len(q) - i
         /\ \A j \in 1..Len(rest) : i + j \in 1..Len(q) /\ rest[j] = q[i + j]
<1>1. i + 1 \in Int /\ Len(q) \in Int /\ \A k \in (i + 1)..Len(q) : q[k] \in S
  OBVIOUS
<1>. QED  BY <1>1, SubSeqProperties

LEMMA SlotPassedOn ==
  ASSUME SlotInv, NEW t \in Tasks, taskAt[t] \in Under, faults' \in {faults, faults + 1},
         faults' <= MaxFaults, SlotFreed(t)
  PROVE  SlotInv' /\ Moved(t)
<1>. DEFINE p == ParentOf[t]
            q == spawnQueue[p]
            gone(i) == {x \in Tasks : x = t \/ \E j \in 1..(i - 1) : q[j] = x}
<1>. USE TasksAssumption
<1>1. /\ p \in Parents /\ q \in Seq(Tasks) /\ Len(q) \in Nat /\ faults \in Nat /\ MaxFaults \in Nat
      /\ activeCount \in [Parents -> Nat] /\ spawnQueue \in [Parents -> Seq(Tasks)]
      /\ taskAt \in [Tasks -> TaskStage] /\ faults' \in 0..MaxFaults
  BY DEF SlotInv, SlotTypes
<1>2. \A i \in 1..Len(q) : q[i] \in Tasks /\ taskAt[q[i]] = "waiting" /\ ParentOf[q[i]] = p
  BY <1>1 DEF SlotInv, Waits
<1>3. \A i, j \in 1..Len(q) : q[i] = q[j] => i = j
  BY <1>1 DEF SlotInv, Waits
<1>4. t \in Holding(p) /\ IsFiniteSet(Holding(p)) /\ SlotsOf(p)
  BY <1>1 DEF SlotInv, SlotsOf, Holding, Under
<1>5. \A r \in Parents \ {p} : \A i \in 1..Len(spawnQueue[r]) :
        /\ spawnQueue[r][i] \in Tasks
        /\ taskAt[spawnQueue[r][i]] = "waiting" /\ ParentOf[spawnQueue[r][i]] = r
  BY <1>1 DEF SlotInv, Waits
<1>6. /\ IsFiniteSet(Holding(p) \ {t})
      /\ Cardinality(Holding(p) \ {t}) = Cardinality(Holding(p)) - 1
      /\ Cardinality(Holding(p)) \in Nat
  BY <1>4, FS_RemoveElement, FS_CardinalityType
<1>7. ASSUME NEW i \in StartsNext(q),
             taskAt' = [x \in Tasks |-> IF x = q[i] THEN "creating"
                                        ELSE IF x \in gone(i) THEN "over" ELSE taskAt[x]],
             spawnQueue' = [spawnQueue EXCEPT ![p] = SubSeq(q, i + 1, Len(q))],
             UNCHANGED activeCount
      PROVE  SlotInv' /\ Moved(t)
  <2>1. i \in 1..Len(q)
    BY DEF StartsNext
  <2>2. q[i] \in Tasks /\ q[i] # t /\ taskAt[q[i]] = "waiting" /\ ParentOf[q[i]] = p
    BY <1>2, <2>1 DEF Under
  <2>3. \A x \in gone(i) : x = t \/ taskAt[x] = "waiting"
    BY <1>2, <2>1
  <2>4. Moved(t)
    BY <1>7, <2>2, <2>3 DEF Moved
  <2>5. \A x \in Tasks : taskAt'[x] \in Under <=> x = q[i] \/ (x # t /\ taskAt[x] \in Under)
    BY <1>7, <1>1, <2>2, <2>3 DEF Under
  <2>6. Holding(p)' = (Holding(p) \ {t}) \cup {q[i]}
    BY <2>2, <2>5 DEF Holding, Under
  <2>7. q[i] \notin Holding(p)
    BY <2>2 DEF Holding
  <2>8. IsFiniteSet(Holding(p)') /\ Cardinality(Holding(p)') = Cardinality(Holding(p))
    <3>1. q[i] \notin Holding(p) \ {t}
      BY <2>7
    <3>2. /\ IsFiniteSet((Holding(p) \ {t}) \cup {q[i]})
          /\ Cardinality((Holding(p) \ {t}) \cup {q[i]}) = Cardinality(Holding(p) \ {t}) + 1
      BY <1>6, <3>1, FS_AddElement
    <3>. QED  BY <1>6, <2>6, <3>2
  <2>9. \A r \in Parents \ {p} : Holding(r)' = Holding(r)
    BY <2>2, <2>5 DEF Holding, Under
  <2>10. DEFINE rest == SubSeq(q, i + 1, Len(q))
  <2>11. /\ rest \in Seq(Tasks) /\ Len(rest) = Len(q) - i
         /\ \A j \in 1..Len(rest) : i + j \in 1..Len(q) /\ rest[j] = q[i + j]
    BY <1>1, <2>1, RestOfQueue
  <2>. HIDE DEF rest
  <2>12. \A j \in 1..Len(rest) : taskAt'[rest[j]] = "waiting" /\ ParentOf[rest[j]] = p
    <3>. SUFFICES ASSUME NEW j \in 1..Len(rest)
                  PROVE  taskAt'[rest[j]] = "waiting" /\ ParentOf[rest[j]] = p
      OBVIOUS
    <3>1. i + j \in 1..Len(q) /\ rest[j] = q[i + j]
      BY <2>11
    <3>2. q[i + j] # q[i] /\ q[i + j] # t
      BY <3>1, <1>2, <1>3, <2>1 DEF Under
    <3>3. q[i + j] \notin gone(i)
      <4>1. ASSUME NEW k \in 1..(i - 1) PROVE q[k] # q[i + j]
        <5>. DEFINE l == Len(q)
        <5>0. /\ l \in Nat /\ i \in 1..l /\ k \in Nat /\ k >= 1 /\ k <= i - 1
              /\ j \in Nat /\ j >= 1
          BY <1>1, <2>1
        <5>. HIDE DEF l
        <5>1. k \in 1..l /\ k # i + j
          BY <5>0
        <5>. QED  BY <1>3, <3>1, <5>1 DEF l
      <4>. QED  BY <3>2, <4>1
    <3>. QED  BY <3>1, <3>2, <3>3, <1>2, <1>7
  <2>13. \A j, k \in 1..Len(rest) : rest[j] = rest[k] => j = k
    <3>. SUFFICES ASSUME NEW j \in 1..Len(rest), NEW k \in 1..Len(rest), rest[j] = rest[k]
                  PROVE  j = k
      OBVIOUS
    <3>1. /\ i + j \in 1..Len(q) /\ rest[j] = q[i + j]
          /\ i + k \in 1..Len(q) /\ rest[k] = q[i + k]
      BY <2>11
    <3>2. i + j = i + k
      BY <3>1, <1>3
    <3>. QED  BY <3>2, <2>1
  <2>14. spawnQueue'[p] = rest /\ \A r \in Parents \ {p} : spawnQueue'[r] = spawnQueue[r]
    BY <1>7, <1>1 DEF rest
  <2>15. \A r \in Parents \ {p} : \A j \in 1..Len(spawnQueue[r]) :
           taskAt'[spawnQueue[r][j]] = "waiting"
    <3>. SUFFICES ASSUME NEW r \in Parents \ {p}, NEW j \in 1..Len(spawnQueue[r])
                  PROVE  taskAt'[spawnQueue[r][j]] = "waiting"
      OBVIOUS
    <3>1. spawnQueue[r][j] # q[i] /\ spawnQueue[r][j] # t
      BY <1>5, <2>2 DEF Under
    <3>2. spawnQueue[r][j] \notin gone(i)
      BY <3>1, <1>5, <1>2, <2>1
    <3>. QED  BY <3>1, <3>2, <1>5, <1>7
  <2>16. SlotTypes'
    BY <1>1, <1>7, <2>11, <2>2 DEF SlotTypes, TaskStage, rest
  <2>17. Waits'
    <3>1. ASSUME NEW r \in Parents, r # p
          PROVE  /\ \A j \in 1..Len(spawnQueue'[r]) :
                      taskAt'[spawnQueue'[r][j]] = "waiting" /\ ParentOf[spawnQueue'[r][j]] = r
                 /\ \A j, k \in 1..Len(spawnQueue'[r]) :
                      spawnQueue'[r][j] = spawnQueue'[r][k] => j = k
      BY <3>1, <2>14, <2>15, <1>5 DEF Waits, SlotInv
    <3>. QED  BY <3>1, <2>12, <2>13, <2>14 DEF Waits
  <2>18. q # <<>>
    BY <2>1, <1>1
  <2>19. SlotsOf(p)'
    BY <1>4, <1>1, <1>7, <2>8, <2>18 DEF SlotsOf
  <2>20. \A r \in Parents \ {p} : SlotsOf(r)'
    BY <1>1, <1>7, <2>9, <2>14 DEF SlotInv, SlotsOf
  <2>. QED  BY <2>4, <2>16, <2>17, <2>19, <2>20 DEF SlotInv
<1>8. ASSUME taskAt' = [x \in Tasks |-> IF x \in gone(Len(q) + 1) THEN "over" ELSE taskAt[x]],
             spawnQueue' = [spawnQueue EXCEPT ![p] = <<>>],
             activeCount' = [activeCount EXCEPT ![p] = @ - 1]
      PROVE  SlotInv' /\ Moved(t)
  <2>1. \A x \in gone(Len(q) + 1) : x = t \/ (taskAt[x] = "waiting" /\ ParentOf[x] = p)
    BY <1>1, <1>2
  <2>2. Moved(t)
    BY <1>8, <2>1 DEF Moved
  <2>3. \A x \in Tasks : taskAt'[x] \in Under <=> x # t /\ taskAt[x] \in Under
    BY <1>8, <1>1, <2>1 DEF Under
  <2>4. Holding(p)' = Holding(p) \ {t} /\ \A r \in Parents \ {p} : Holding(r)' = Holding(r)
    BY <2>3 DEF Holding, Under
  <2>5. activeCount[p] \in Nat /\ activeCount[p] >= 1
    BY <1>1, <1>4, <1>6, FS_CardinalityType DEF SlotsOf
  <2>6. SlotTypes'
    BY <1>1, <1>8, <2>5 DEF SlotTypes, TaskStage
  <2>7. spawnQueue'[p] = <<>> /\ \A r \in Parents \ {p} : spawnQueue'[r] = spawnQueue[r]
    BY <1>8, <1>1
  <2>8. \A r \in Parents \ {p} : \A j \in 1..Len(spawnQueue[r]) :
           taskAt'[spawnQueue[r][j]] = "waiting"
    BY <1>5, <1>8, <2>1 DEF Under
  <2>9. Waits'
    BY <2>7, <2>8, <1>5 DEF Waits, SlotInv
  <2>10. SlotsOf(p)'
    BY <1>1, <1>4, <1>6, <1>8, <2>4, <2>5, <2>7 DEF SlotsOf
  <2>11. \A r \in Parents \ {p} : SlotsOf(r)'
    BY <1>1, <1>8, <2>4, <2>7 DEF SlotInv, SlotsOf
  <2>. QED  BY <2>2, <2>6, <2>9, <2>10, <2>11 DEF SlotInv
<1>. QED  BY <1>7, <1>8 DEF SlotFreed

\* Steps that neither take nor give a slot.
LEMMA SlotsSame ==
  ASSUME SlotInv, taskAt' \in [Tasks -> TaskStage], UNCHANGED <<activeCount, spawnQueue>>,
         \A x \in Tasks : /\ taskAt'[x] \in Under <=> taskAt[x] \in Under
                          /\ taskAt[x] = "waiting" => taskAt'[x] = "waiting",
         faults' \in {faults, faults + 1}, faults' <= MaxFaults
  PROVE  SlotInv'
<1>1. SlotTypes' /\ faults \in Nat
  BY TasksAssumption DEF SlotInv, SlotTypes
<1>2. Waits'
  <2>1. \A p \in Parents : \A i \in 1..Len(spawnQueue[p]) : spawnQueue[p][i] \in Tasks
    BY DEF SlotInv, SlotTypes
  <2>. QED  BY <2>1 DEF SlotInv, Waits
<1>3. ASSUME NEW p \in Parents PROVE SlotsOf(p)'
  <2>1. Holding(p)' = Holding(p)
    BY DEF Holding, Under
  <2>. QED  BY <1>1, <2>1 DEF SlotInv, SlotsOf
<1>. QED  BY <1>1, <1>2, <1>3 DEF SlotInv

\* A slot that is never given back, since a write failed.
LEMMA SlotLeaked ==
  ASSUME SlotInv, NEW t \in Tasks, taskAt[t] \in Under, taskAt' = [taskAt EXCEPT ![t] = "over"],
         UNCHANGED <<activeCount, spawnQueue>>, faults' = faults + 1, faults' <= MaxFaults
  PROVE  SlotInv'
<1>. USE TasksAssumption
<1>1. SlotTypes' /\ faults \in Nat /\ taskAt \in [Tasks -> TaskStage]
  BY DEF SlotInv, SlotTypes, TaskStage
<1>2. Waits'
  <2>1. \A p \in Parents : \A i \in 1..Len(spawnQueue[p]) :
          spawnQueue[p][i] \in Tasks /\ taskAt'[spawnQueue[p][i]] = "waiting"
    BY <1>1 DEF SlotInv, SlotTypes, Waits, Under
  <2>. QED  BY <2>1 DEF SlotInv, Waits
<1>3. ASSUME NEW p \in Parents PROVE SlotsOf(p)'
  <2>1. Holding(p)' = Holding(p) \ {t}
    BY <1>1 DEF Holding, Under
  <2>2. IsFiniteSet(Holding(p)) /\ activeCount[p] \in Nat
    BY DEF SlotInv, SlotsOf, SlotTypes
  <2>3. /\ IsFiniteSet(Holding(p) \ {t}) /\ Cardinality(Holding(p)) \in Nat
        /\ Cardinality(Holding(p) \ {t}) <= Cardinality(Holding(p))
    <3>1. Cardinality(Holding(p)) \in Nat
      BY <2>2, FS_CardinalityType
    <3>2. /\ IsFiniteSet(Holding(p) \ {t})
          /\ Cardinality(Holding(p) \ {t})
               = IF t \in Holding(p) THEN Cardinality(Holding(p)) - 1 ELSE Cardinality(Holding(p))
      BY <2>2, FS_RemoveElement
    <3>. QED  BY <3>1, <3>2
  <2>4. Cardinality(Holding(p) \ {t}) \in Nat
    BY <2>3, FS_CardinalityType
  <2>. QED  BY <1>1, <2>1, <2>2, <2>3, <2>4 DEF SlotInv, SlotsOf
<1>. QED  BY <1>1, <1>2, <1>3 DEF SlotInv

LEMMA SpawnSlots ==
  ASSUME SlotInv, NEW t \in Tasks, Spawn(t)
  PROVE  SlotInv'
<1>. DEFINE p == ParentOf[t]
            q == spawnQueue[p]
<1>. USE TasksAssumption
<1>1. /\ p \in Parents /\ q \in Seq(Tasks) /\ Len(q) \in Nat /\ faults \in Nat
      /\ activeCount \in [Parents -> Nat] /\ spawnQueue \in [Parents -> Seq(Tasks)]
      /\ taskAt \in [Tasks -> TaskStage] /\ taskAt[t] = "none" /\ faults' = faults
      /\ MaxFaults \in Nat /\ faults <= MaxFaults
  BY DEF SlotInv, SlotTypes, Spawn
<1>2. \A r \in Parents : \A i \in 1..Len(spawnQueue[r]) :
        /\ spawnQueue[r][i] \in Tasks /\ spawnQueue[r][i] # t
        /\ taskAt[spawnQueue[r][i]] = "waiting" /\ ParentOf[spawnQueue[r][i]] = r
  BY <1>1 DEF SlotInv, Waits
<1>3. CASE /\ activeCount[p] >= MaxConcurrent
           /\ taskAt' = [taskAt EXCEPT ![t] = "waiting"]
           /\ spawnQueue' = [spawnQueue EXCEPT ![p] = Append(@, t)]
           /\ UNCHANGED activeCount
  <2>1. SlotTypes'
    BY <1>1, <1>3 DEF SlotInv, SlotTypes, TaskStage
  <2>2. ASSUME NEW r \in Parents PROVE Holding(r)' = Holding(r)
    BY <1>1, <1>3 DEF Holding
  <2>3. spawnQueue'[p] = Append(q, t) /\ \A r \in Parents : r # p => spawnQueue'[r] = spawnQueue[r]
    BY <1>1, <1>3
  <2>4. \A x \in Tasks : taskAt[x] = "waiting" => taskAt'[x] = "waiting"
    BY <1>1, <1>3
  <2>5. /\ Len(Append(q, t)) = Len(q) + 1 /\ Append(q, t)[Len(q) + 1] = t
        /\ \A i \in 1..Len(q) : Append(q, t)[i] = q[i]
    BY <1>1
  <2>6. Waits'
    <3>1. ASSUME NEW r \in Parents, r # p
          PROVE  /\ \A j \in 1..Len(spawnQueue'[r]) :
                      taskAt'[spawnQueue'[r][j]] = "waiting" /\ ParentOf[spawnQueue'[r][j]] = r
                 /\ \A j, k \in 1..Len(spawnQueue'[r]) :
                      spawnQueue'[r][j] = spawnQueue'[r][k] => j = k
      <4>1. spawnQueue'[r] = spawnQueue[r]
        BY <3>1, <2>3
      <4>2. \A j, k \in 1..Len(spawnQueue[r]) : spawnQueue[r][j] = spawnQueue[r][k] => j = k
        BY DEF Waits, SlotInv
      <4>3. \A j \in 1..Len(spawnQueue[r]) :
              taskAt'[spawnQueue[r][j]] = "waiting" /\ ParentOf[spawnQueue[r][j]] = r
        BY <1>2, <2>4
      <4>. QED  BY <4>1, <4>2, <4>3
    <3>2. \A j \in 1..(Len(q) + 1) : j = Len(q) + 1 \/ j \in 1..Len(q)
      BY <1>1
    <3>3. taskAt'[t] = "waiting"
      BY <1>1, <1>3
    <3>4. \A j \in 1..(Len(q) + 1) :
            taskAt'[Append(q, t)[j]] = "waiting" /\ ParentOf[Append(q, t)[j]] = p
      <4>1. \A j \in 1..Len(q) : taskAt'[q[j]] = "waiting" /\ ParentOf[q[j]] = p
        BY <1>1, <1>2, <2>4
      <4>. DEFINE w == Append(q, t)
      <4>2. w[Len(q) + 1] = t /\ \A j \in 1..Len(q) : w[j] = q[j]
        BY <2>5
      <4>3. ParentOf[t] = p
        OBVIOUS
      <4>. HIDE DEF w, q, p
      <4>4. \A j \in 1..(Len(q) + 1) : taskAt'[w[j]] = "waiting" /\ ParentOf[w[j]] = p
        BY <3>2, <3>3, <4>1, <4>2, <4>3
      <4>. QED  BY <4>4 DEF w
    <3>5. \A j, k \in 1..Len(q) : q[j] = q[k] => j = k
      BY <1>1 DEF SlotInv, Waits
    <3>6. \A j, k \in 1..(Len(q) + 1) : Append(q, t)[j] = Append(q, t)[k] => j = k
      <4>1. \A j \in 1..Len(q) : q[j] # t
        BY <1>1, <1>2
      <4>. DEFINE w == Append(q, t)
      <4>2. w[Len(q) + 1] = t /\ \A j \in 1..Len(q) : w[j] = q[j]
        BY <2>5
      <4>. HIDE DEF w, q
      <4>3. \A j, k \in 1..(Len(q) + 1) : w[j] = w[k] => j = k
        BY <3>2, <3>5, <4>1, <4>2
      <4>. QED  BY <4>3 DEF w
    <3>7. spawnQueue'[p] = Append(q, t) /\ Len(spawnQueue'[p]) = Len(q) + 1
      BY <2>3, <2>5
    <3>8. /\ \A j \in 1..Len(spawnQueue'[p]) :
               taskAt'[spawnQueue'[p][j]] = "waiting" /\ ParentOf[spawnQueue'[p][j]] = p
          /\ \A j, k \in 1..Len(spawnQueue'[p]) :
               spawnQueue'[p][j] = spawnQueue'[p][k] => j = k
      BY <3>4, <3>6, <3>7
    <3>. HIDE DEF p, q
    <3>. QED  BY <3>1, <3>8, Zenon DEF Waits
  <2>7. ASSUME NEW r \in Parents PROVE SlotsOf(r)'
    <3>1. SlotsOf(r) /\ SlotsOf(p) /\ activeCount[p] \in Nat
      BY <1>1 DEF SlotInv
    <3>2. activeCount[p] = MaxConcurrent
      BY <1>3, <3>1 DEF SlotsOf
    <3>. QED  BY <1>1, <1>3, <2>2, <2>3, <3>1, <3>2 DEF SlotsOf
  <2>. QED  BY <2>1, <2>6, <2>7 DEF SlotInv
<1>4. CASE /\ activeCount[p] < MaxConcurrent
           /\ taskAt' = [taskAt EXCEPT ![t] = "creating"]
           /\ activeCount' = [activeCount EXCEPT ![p] = @ + 1]
           /\ UNCHANGED spawnQueue
  <2>1. SlotTypes'
    BY <1>1, <1>4 DEF SlotInv, SlotTypes, TaskStage
  <2>2. Waits'
    BY <1>1, <1>2, <1>4 DEF Waits, SlotInv
  <2>3. t \notin Holding(p) /\ Holding(p)' = Holding(p) \cup {t}
    BY <1>1, <1>4 DEF Holding
  <2>4. SlotsOf(p) /\ activeCount[p] \in Nat
    BY <1>1 DEF SlotInv
  <2>5. /\ IsFiniteSet(Holding(p) \cup {t}) /\ Cardinality(Holding(p)) \in Nat
        /\ Cardinality(Holding(p) \cup {t}) = Cardinality(Holding(p)) + 1
    BY <2>3, <2>4, FS_AddElement, FS_CardinalityType DEF SlotsOf
  <2>6. SlotsOf(p)'
    BY <1>1, <1>4, <2>3, <2>4, <2>5 DEF SlotsOf
  <2>7. ASSUME NEW r \in Parents, r # p PROVE SlotsOf(r)'
    <3>1. Holding(r)' = Holding(r)
      BY <2>7, <1>1, <1>4 DEF Holding
    <3>. QED  BY <1>1, <1>4, <2>7, <3>1 DEF SlotInv, SlotsOf
  <2>. QED  BY <2>1, <2>2, <2>6, <2>7 DEF SlotInv
<1>5. CASE /\ taskAt' = [taskAt EXCEPT ![t] = "over"]
           /\ UNCHANGED <<activeCount, spawnQueue>>
  BY <1>1, <1>5, SlotsSame DEF TaskStage, Under
<1>. QED  BY <1>3, <1>4, <1>5 DEF Spawn

---------------------------------------------------------------------------
(* Subagent tasks: the records.                                            *)

RecordTypes ==
  /\ slots \subseteq Tasks /\ reported \subseteq Tasks
  /\ record \in [Tasks -> TaskRecord \cup {NoRecord}]
  /\ saved \in [Tasks -> TaskRecord \cup {NoRecord}]
  /\ restarts \in 0..MaxRestarts

\* What was announced has ended; what has ended is to be delivered.
RecordOK(r) == (Announced(r) => Ended(r)) /\ (Ended(r) => r.delivery # "none")

\* A call that has not registered its task has no record; the file knows the
\* status of a task that has ended; an open record has somebody to close it.
Books(t) ==
  /\ RecordOK(record[t]) /\ RecordOK(saved[t])
  /\ taskAt[t] \in {"none", "waiting", "creating"} => record[t] = NoRecord
  /\ taskAt[t] = "none" => saved[t] = NoRecord
  /\ Ended(record[t]) => saved[t].status = record[t].status
  /\ Open(record[t]) /\ t \notin Unstarted /\ faults = 0 => taskAt[t] \in {"starting", "live"}

Kept(t) ==
  Ended(record[t]) /\ Known(record'[t]) /\ record'[t].status # record[t].status
  => taskAt[t] \in {"starting", "live"}

RecordInv == RecordTypes /\ \A t \in Tasks : Books(t)

LEMMA RecordForms ==
  ASSUME NEW r \in TaskRecord, NEW e \in TaskTerminal
  PROVE  /\ Delivered(r, e) \in TaskRecord /\ RecordOK(Delivered(r, e))
         /\ Ended(Delivered(r, e)) /\ Delivered(r, e).status = e
         /\ Pending(r, e) \in TaskRecord /\ Ended(Pending(r, e)) /\ Pending(r, e).status = e
         /\ RecordOK(Pending(r, e))
         /\ [Pending(r, e) EXCEPT !.delivery = "delivered"] \in TaskRecord
         /\ RecordOK([Pending(r, e) EXCEPT !.delivery = "delivered"])
         /\ Ended([Pending(r, e) EXCEPT !.delivery = "delivered"])
         /\ [Pending(r, e) EXCEPT !.delivery = "delivered"].status = e
         /\ r # NoRecord
<1>. DEFINE sent == [Pending(r, e) EXCEPT !.delivery = "delivered"]
<1>1. e \in TaskStatus /\ r.phases \in SUBSET TaskTerminal
  BY DEF TaskRecord, TaskStatus
<1>2. /\ Delivered(r, e) \in TaskRecord
      /\ Delivered(r, e).status = e /\ Delivered(r, e).delivery = "delivered"
  BY <1>1 DEF TaskRecord, Delivered
<1>3. /\ Pending(r, e) \in TaskRecord
      /\ Pending(r, e).status = e /\ Pending(r, e).delivery = "pending"
  BY <1>1 DEF TaskRecord, Pending
<1>4. sent \in TaskRecord /\ sent.status = e /\ sent.delivery = "delivered"
  BY <1>3 DEF TaskRecord
<1>5. r # NoRecord
  BY DEF TaskRecord, TaskStatus, TaskTerminal, NoRecord
<1>. QED  BY <1>2, <1>3, <1>4, <1>5 DEF RecordOK, Ended

LEMMA NoRecordForm ==
  /\ RecordOK(NoRecord) /\ ~Ended(NoRecord) /\ ~Open(NoRecord) /\ ~Known(NoRecord)
  /\ ~Announced(NoRecord) /\ NoRecord \notin TaskRecord
BY DEF NoRecord, RecordOK, Ended, Open, Known, Announced, TaskTerminal, TaskRecord, TaskStatus

LEMMA AcceptedForm ==
  /\ Accepted \in TaskRecord /\ RecordOK(Accepted) /\ ~Ended(Accepted)
BY DEF Accepted, TaskRecord, TaskStatus, TaskTerminal, RecordOK, Ended, Announced

\* What setTerminal leaves behind, whether it returns or throws.
Closed(t) ==
  /\ \A x \in Tasks : /\ RecordOK(record'[x]) /\ RecordOK(saved'[x])
                      /\ x # t => record'[x] = record[x]
                      /\ record[x] = NoRecord => record'[x] = NoRecord
                      /\ record[x] = NoRecord /\ saved[x] = NoRecord => saved'[x] = NoRecord
                      /\ Ended(record'[x]) => saved'[x].status = record'[x].status
  /\ Open(record'[t]) => faults' > 0
  /\ faults' \in {faults, faults + 1} /\ faults' <= MaxFaults

LEMMA TerminalCloses ==
  ASSUME RecordInv, faults \in 0..MaxFaults, NEW t \in Tasks, NEW e \in TaskTerminal,
         TerminalSet(t, e) \/ TerminalThrows(t, e)
  PROVE  /\ Closed(t)
         /\ record' \in [Tasks -> TaskRecord \cup {NoRecord}]
         /\ saved' \in [Tasks -> TaskRecord \cup {NoRecord}]
<1>. USE TasksAssumption
<1>1. /\ record \in [Tasks -> TaskRecord \cup {NoRecord}]
      /\ saved \in [Tasks -> TaskRecord \cup {NoRecord}]
      /\ MaxFaults \in Nat /\ faults \in Nat
      /\ \A x \in Tasks : Books(x)
  BY DEF RecordInv, RecordTypes
<1>2. Known(record[t]) => record[t] \in TaskRecord
  BY <1>1 DEF Known
<1>3. CASE Known(record[t]) /\ e \notin record[t].phases /\ TerminalSet(t, e)
  <2>1. /\ record' = [record EXCEPT ![t] = Delivered(@, e)] \/ record' = record
        /\ record'[t] = Delivered(record[t], e)
        /\ UNCHANGED faults
    BY <1>1, <1>3 DEF TerminalSet, Sound
  <2>2. Delivered(record[t], e) \in TaskRecord /\ RecordOK(Delivered(record[t], e))
        /\ Ended(Delivered(record[t], e))
    BY <1>2, <1>3, RecordForms
  <2>3. saved' = record' \/ (record' = record /\ saved' = saved)
    BY <1>3 DEF TerminalSet, Persist
  <2>. QED  BY <1>1, <1>2, <1>3, <2>1, <2>2, <2>3 DEF Closed, Books, Open, Known
<1>4. CASE ~(Known(record[t]) /\ e \notin record[t].phases) /\ TerminalSet(t, e)
  <2>1. UNCHANGED <<record, saved, faults>>
    BY <1>4 DEF TerminalSet, Sound
  <2>2. ~Open(record[t])
    BY <1>1, <1>4 DEF Books, RecordOK, Open, Announced
  <2>. QED  BY <1>1, <2>1, <2>2 DEF Closed, Books
<1>5. CASE TerminalThrows(t, e)
  <2>1. Known(record[t]) /\ record[t] \in TaskRecord /\ faults < MaxFaults /\ faults' = faults + 1
    BY <1>2, <1>5 DEF TerminalThrows, Faulty
  <2>2. CASE UNCHANGED <<record, saved>>
    BY <1>1, <2>1, <2>2 DEF Closed, Books
  <2>3. CASE /\ record' = [record EXCEPT ![t] = [Pending(@, e) EXCEPT !.delivery = "delivered"]]
             /\ saved'  = [record EXCEPT ![t] = Pending(@, e)]
    <3>1. /\ record'[t] = [Pending(record[t], e) EXCEPT !.delivery = "delivered"]
          /\ saved'[t] = Pending(record[t], e)
          /\ \A x \in Tasks : x # t => record'[x] = record[x] /\ saved'[x] = record[x]
      BY <1>1, <2>3
    <3>2. /\ record'[t] \in TaskRecord /\ saved'[t] \in TaskRecord
          /\ RecordOK(record'[t]) /\ RecordOK(saved'[t])
          /\ record'[t].status = e /\ saved'[t].status = e
      BY <2>1, <3>1, RecordForms
    <3>3. /\ record' \in [Tasks -> TaskRecord \cup {NoRecord}]
          /\ saved' \in [Tasks -> TaskRecord \cup {NoRecord}]
      BY <1>1, <2>3, <3>1, <3>2
    <3>4. ASSUME NEW x \in Tasks
          PROVE  /\ RecordOK(record'[x]) /\ RecordOK(saved'[x])
                 /\ x # t => record'[x] = record[x]
                 /\ record[x] = NoRecord => record'[x] = NoRecord
                 /\ record[x] = NoRecord /\ saved[x] = NoRecord => saved'[x] = NoRecord
                 /\ Ended(record'[x]) => saved'[x].status = record'[x].status
      <4>1. CASE x = t
        BY <2>1, <3>2, <4>1 DEF Known
      <4>2. CASE x # t
        BY <1>1, <3>1, <4>2 DEF Books
      <4>. QED  BY <4>1, <4>2
    <3>. QED  BY <1>1, <2>1, <3>3, <3>4 DEF Closed
  <2>. QED  BY <1>5, <2>2, <2>3 DEF TerminalThrows
<1>. QED  BY <1>3, <1>4, <1>5

TasksInv == SlotInv /\ RecordInv

LEMMA MovedBooks ==
  ASSUME TasksInv, NEW t \in Tasks, Closed(t), Moved(t), taskAt' \in [Tasks -> TaskStage],
         taskAt[t] \in {"starting", "live"} \/ (Open(record[t]) /\ taskAt' = taskAt)
  PROVE  \A x \in Tasks : Books(x)' /\ Kept(x)
<1>. SUFFICES ASSUME NEW x \in Tasks PROVE Books(x)' /\ Kept(x)
  OBVIOUS
<1>1. Books(x) /\ Books(t) /\ faults \in Nat /\ taskAt[t] \in TaskStage
  BY TasksAssumption DEF TasksInv, RecordInv, SlotInv, SlotTypes
<1>2. Kept(x)
  <2>1. CASE x = t
    BY <2>1 DEF Kept, Open
  <2>2. CASE x # t
    BY <2>2 DEF Kept, Closed
  <2>. QED  BY <2>1, <2>2
<1>3. taskAt'[x] \in {"none", "waiting", "creating"} => taskAt[x] \in {"none", "waiting", "creating"}
  BY DEF Moved
<1>4. taskAt'[x] = "none" => taskAt[x] = "none"
  BY DEF Moved
<1>5. Open(record'[x]) /\ x \notin Unstarted /\ faults' = 0 => taskAt'[x] \in {"starting", "live"}
  <2>1. CASE x = t
    BY <2>1 DEF Closed
  <2>2. CASE x # t
    BY <1>1, <2>2 DEF Closed, Moved, Books
  <2>. QED  BY <2>1, <2>2
<1>. QED  BY <1>1, <1>2, <1>3, <1>4, <1>5 DEF Books, Closed

LEMMA InvTypes == TasksInv => TasksTypeOK
BY DEF TasksInv, SlotInv, SlotTypes, RecordInv, RecordTypes, TasksTypeOK

\* Steps that end a run.
LEMMA EndsRun ==
  ASSUME TasksInv, NEW t \in Tasks, NEW e \in TaskTerminal,
         (StartFails(t) /\ e = "failed") \/ Finish(t, e)
  PROVE  TasksInv' /\ \A x \in Tasks : Kept(x)
<1>1. /\ taskAt[t] \in {"starting", "live"} /\ taskAt \in [Tasks -> TaskStage]
      /\ faults \in 0..MaxFaults /\ faults \in Nat /\ MaxFaults \in Nat
      /\ SlotInv /\ RecordInv
  BY TasksAssumption DEF StartFails, Finish, TasksInv, SlotInv, SlotTypes
<1>2. TerminalSet(t, e) \/ TerminalThrows(t, e)
  BY DEF StartFails, Finish
<1>3. /\ Closed(t)
      /\ record' \in [Tasks -> TaskRecord \cup {NoRecord}]
      /\ saved' \in [Tasks -> TaskRecord \cup {NoRecord}]
  BY <1>1, <1>2, TerminalCloses
<1>4. ASSUME SlotFreed(t) PROVE SlotInv' /\ Moved(t)
  BY <1>1, <1>3, <1>4, SlotPassedOn DEF Under, Closed
<1>5. ASSUME taskAt' = [taskAt EXCEPT ![t] = "over"], faults' = faults + 1,
             UNCHANGED <<activeCount, spawnQueue>>
      PROVE  SlotInv' /\ Moved(t)
  <2>1. SlotInv'
    BY <1>1, <1>3, <1>5, SlotLeaked DEF Under, Closed
  <2>. QED  BY <1>1, <1>5, <2>1 DEF Moved
<1>6. SlotInv' /\ Moved(t)
  BY <1>4, <1>5 DEF StartFails, Finish, TerminalThrows, Faulty
<1>7. \A x \in Tasks : Books(x)' /\ Kept(x)
  BY <1>1, <1>3, <1>6, MovedBooks DEF SlotInv, SlotTypes
<1>8. slots' \subseteq Tasks /\ reported' \subseteq Tasks /\ restarts' = restarts
  BY <1>1 DEF StartFails, Finish, RecordInv, RecordTypes
<1>. QED  BY <1>1, <1>3, <1>6, <1>7, <1>8 DEF TasksInv, RecordInv, RecordTypes

LEMMA StopRun ==
  ASSUME TasksInv, NEW t \in Tasks, Stop(t)
  PROVE  TasksInv' /\ \A x \in Tasks : Kept(x)
<1>1. "aborted" \in TaskTerminal
  BY DEF TaskTerminal
<1>2. CASE Finish(t, "aborted")
  BY <1>1, <1>2, EndsRun
<1>3. CASE /\ TerminalSet(t, "aborted") \/ TerminalThrows(t, "aborted")
           /\ UNCHANGED <<taskAt, activeCount, spawnQueue, slots, reported, restarts>>
  <2>1. /\ taskAt \in [Tasks -> TaskStage] /\ faults \in 0..MaxFaults
        /\ faults \in Nat /\ MaxFaults \in Nat /\ SlotInv /\ RecordInv
    BY TasksAssumption DEF TasksInv, SlotInv, SlotTypes
  <2>2. /\ Closed(t)
        /\ record' \in [Tasks -> TaskRecord \cup {NoRecord}]
        /\ saved' \in [Tasks -> TaskRecord \cup {NoRecord}]
    BY <1>1, <1>3, <2>1, TerminalCloses
  <2>3. SlotInv'
    BY <1>3, <2>1, <2>2, SlotsSame DEF Closed
  <2>4. Open(record[t]) /\ Moved(t)
    BY <1>3 DEF Stop, Moved
  <2>5. \A x \in Tasks : Books(x)' /\ Kept(x)
    BY <1>3, <2>1, <2>2, <2>4, MovedBooks
  <2>. QED  BY <1>3, <2>1, <2>2, <2>3, <2>5 DEF TasksInv, RecordInv, RecordTypes
<1>. QED  BY <1>2, <1>3 DEF Stop

\* Steps that spawn, register or start a task.
LEMMA SpawnBooks ==
  ASSUME TasksInv, NEW t \in Tasks, Spawn(t) \/ SpawnUnstarted(t)
  PROVE  TasksInv' /\ \A x \in Tasks : Kept(x)
<1>1. /\ taskAt \in [Tasks -> TaskStage] /\ faults \in 0..MaxFaults
      /\ faults \in Nat /\ MaxFaults \in Nat /\ SlotInv /\ RecordInv
      /\ record \in [Tasks -> TaskRecord \cup {NoRecord}] /\ \A x \in Tasks : Books(x)
  BY TasksAssumption DEF TasksInv, SlotInv, SlotTypes, RecordInv, RecordTypes
<1>2. CASE Spawn(t)
  <2>1. SlotInv'
    BY <1>1, <1>2, SpawnSlots
  <2>2. /\ UNCHANGED <<slots, record, saved, reported, restarts, faults>>
        /\ taskAt[t] = "none" /\ \A x \in Tasks : x # t => taskAt'[x] = taskAt[x]
    BY <1>1, <1>2 DEF Spawn
  <2>3. record[t] = NoRecord /\ saved[t] = NoRecord
    BY <1>1, <2>2 DEF Books
  <2>4. ASSUME NEW x \in Tasks PROVE Books(x)' /\ Kept(x)
    <3>1. CASE x = t
      BY <1>1, <2>2, <2>3, <3>1, NoRecordForm DEF Books, Kept
    <3>2. CASE x # t
      BY <1>1, <2>2, <3>2 DEF Books, Kept
    <3>. QED  BY <3>1, <3>2
  <2>. QED  BY <1>1, <2>1, <2>2, <2>4 DEF TasksInv, RecordInv, RecordTypes
<1>3. CASE SpawnUnstarted(t)
  <2>1. /\ taskAt' = [taskAt EXCEPT ![t] = "over"] /\ taskAt[t] = "none" /\ t \in Unstarted
        /\ record' = [record EXCEPT ![t] = Accepted] /\ saved' = record'
        /\ UNCHANGED <<activeCount, spawnQueue, slots, reported, restarts, faults>>
    BY <1>3 DEF SpawnUnstarted, Persist
  <2>2. SlotInv'
    BY <1>1, <2>1, SlotsSame DEF TaskStage, Under
  <2>3. record' \in [Tasks -> TaskRecord \cup {NoRecord}]
    BY <1>1, <2>1, AcceptedForm
  <2>4. ASSUME NEW x \in Tasks PROVE Books(x)' /\ Kept(x)
    <3>1. CASE x = t
      <4>1. record'[t] = Accepted /\ saved'[t] = Accepted /\ taskAt'[t] = "over"
        BY <1>1, <2>1
      <4>2. record[t] = NoRecord
        BY <1>1, <2>1 DEF Books
      <4>. QED  BY <2>1, <3>1, <4>1, <4>2, AcceptedForm, NoRecordForm DEF Books, Kept
    <3>2. CASE x # t
      <4>1. record'[x] = record[x] /\ saved'[x] = record[x] /\ taskAt'[x] = taskAt[x]
        BY <1>1, <2>1, <3>2
      <4>. QED  BY <1>1, <2>1, <4>1 DEF Books, Kept
    <3>. QED  BY <3>1, <3>2
  <2>. QED  BY <1>1, <2>1, <2>2, <2>3, <2>4 DEF TasksInv, RecordInv, RecordTypes
<1>. QED  BY <1>2, <1>3

LEMMA CreateBooks ==
  ASSUME TasksInv, NEW t \in Tasks, Create(t)
  PROVE  TasksInv' /\ \A x \in Tasks : Kept(x)
<1>1. /\ taskAt \in [Tasks -> TaskStage] /\ faults \in 0..MaxFaults
      /\ faults \in Nat /\ MaxFaults \in Nat /\ SlotInv /\ RecordInv
      /\ record \in [Tasks -> TaskRecord \cup {NoRecord}] /\ \A x \in Tasks : Books(x)
  BY TasksAssumption DEF TasksInv, SlotInv, SlotTypes, RecordInv, RecordTypes
<1>2. taskAt[t] = "creating" /\ record[t] = NoRecord /\ UNCHANGED <<reported, restarts>>
  BY <1>1 DEF Create, Books
<1>3. slots' \subseteq Tasks
  BY <1>1 DEF Create, RecordInv, RecordTypes
<1>4. [record EXCEPT ![t] = Accepted] \in [Tasks -> TaskRecord \cup {NoRecord}]
  BY <1>1, AcceptedForm
<1>5. CASE /\ record' = [record EXCEPT ![t] = Accepted] /\ saved' = record' /\ faults' = faults
           /\ taskAt' = [taskAt EXCEPT ![t] = "starting"]
           /\ UNCHANGED <<activeCount, spawnQueue>>
  <2>1. SlotInv'
    BY <1>1, <1>2, <1>5, SlotsSame DEF TaskStage, Under
  <2>2. ASSUME NEW x \in Tasks PROVE Books(x)' /\ Kept(x)
    <3>1. CASE x = t
      <4>1. record'[t] = Accepted /\ saved'[t] = Accepted /\ taskAt'[t] = "starting"
        BY <1>1, <1>5
      <4>. QED  BY <1>2, <3>1, <4>1, AcceptedForm, NoRecordForm DEF Books, Kept
    <3>2. CASE x # t
      <4>1. record'[x] = record[x] /\ saved'[x] = record[x] /\ taskAt'[x] = taskAt[x]
        BY <1>1, <1>5, <3>2
      <4>. QED  BY <1>1, <1>5, <4>1 DEF Books, Kept
    <3>. QED  BY <3>1, <3>2
  <2>. QED  BY <1>1, <1>2, <1>3, <1>4, <1>5, <2>1, <2>2 DEF TasksInv, RecordInv, RecordTypes
<1>6. CASE /\ SlotFreed(t) /\ saved' = saved
           /\ \/ record' = record /\ faults' = faults
              \/ /\ record' = [record EXCEPT ![t] = Accepted]
                 /\ faults < MaxFaults /\ faults' = faults + 1
  <2>1. SlotInv' /\ Moved(t)
    BY <1>1, <1>2, <1>6, SlotPassedOn DEF Under
  <2>2. taskAt'[t] \in {"creating", "over"} /\ taskAt' \in [Tasks -> TaskStage]
    BY <1>2, <2>1 DEF Moved, SlotInv, SlotTypes
  <2>3. taskAt'[t] = "over"
    BY <1>2, <1>6, <1>1, TasksAssumption DEF SlotFreed, StartsNext, SlotInv, Waits
  <2>4. ASSUME NEW x \in Tasks PROVE Books(x)' /\ Kept(x)
    <3>1. CASE x = t
      <4>1. record'[t] = record[t] \/ (record'[t] = Accepted /\ faults' > 0)
        BY <1>1, <1>6
      <4>. QED  BY <1>1, <1>2, <1>6, <2>3, <3>1, <4>1, AcceptedForm, NoRecordForm
                DEF Books, Kept
    <3>2. CASE x # t
      <4>1. record'[x] = record[x] /\ saved'[x] = saved[x] /\ (faults' = 0 => faults = 0)
        BY <1>1, <1>6, <3>2
      <4>2. \/ taskAt'[x] = taskAt[x]
            \/ taskAt[x] = "waiting" /\ taskAt'[x] \in {"creating", "over"}
        BY <2>1, <3>2 DEF Moved
      <4>. QED  BY <1>1, <4>1, <4>2, NoRecordForm DEF Books, Kept
    <3>. QED  BY <3>1, <3>2
  <2>5. record' \in [Tasks -> TaskRecord \cup {NoRecord}]
    BY <1>1, <1>4, <1>6
  <2>. QED  BY <1>1, <1>2, <1>3, <1>6, <2>1, <2>4, <2>5 DEF TasksInv, RecordInv, RecordTypes
<1>. QED  BY <1>5, <1>6 DEF Create, Persist, Sound, Faulty

LEMMA StartBooks ==
  ASSUME TasksInv, NEW t \in Tasks, Start(t)
  PROVE  TasksInv' /\ \A x \in Tasks : Kept(x)
<1>1. /\ taskAt \in [Tasks -> TaskStage] /\ faults \in 0..MaxFaults
      /\ faults \in Nat /\ MaxFaults \in Nat /\ SlotInv /\ RecordInv
      /\ record \in [Tasks -> TaskRecord \cup {NoRecord}] /\ \A x \in Tasks : Books(x)
  BY TasksAssumption DEF TasksInv, SlotInv, SlotTypes, RecordInv, RecordTypes
<1>2. /\ taskAt' = [taskAt EXCEPT ![t] = "live"] /\ taskAt[t] = "starting"
      /\ faults' \in {faults, faults + 1} /\ faults' <= MaxFaults
      /\ UNCHANGED <<activeCount, spawnQueue, slots, reported, restarts>>
  BY <1>1 DEF Start, Sound, Faulty
<1>3. SlotInv'
  BY <1>1, <1>2, SlotsSame DEF TaskStage, Under
<1>4. CASE record[t].status # "accepted"
  <2>1. record' = record
    <3>1. record' = [record EXCEPT ![t] = [record[t] EXCEPT !.status = record[t].status]]
      BY <1>1, <1>4 DEF Start
    <3>2. [record[t] EXCEPT !.status = record[t].status] = record[t]
      BY <1>1 DEF TaskRecord, NoRecord
    <3>. QED  BY <1>1, <3>1, <3>2
  <2>2. saved' = record \/ saved' = saved
    BY <2>1 DEF Start, Persist
  <2>3. ASSUME NEW x \in Tasks PROVE Books(x)' /\ Kept(x)
    <3>1. taskAt'[x] = taskAt[x] \/ (x = t /\ taskAt'[x] = "live")
      BY <1>1, <1>2
    <3>. QED  BY <1>1, <1>2, <2>1, <2>2, <3>1 DEF Books, Kept
  <2>. QED  BY <1>1, <1>2, <1>3, <2>1, <2>2, <2>3 DEF TasksInv, RecordInv, RecordTypes
<1>5. CASE record[t].status = "accepted"
  <2>1. record[t] \in TaskRecord /\ ~Ended(record[t])
    BY <1>1, <1>5 DEF NoRecord, Ended, TaskTerminal
  <2>2. record' = [record EXCEPT ![t].status = "started"]
    BY <1>1, <1>5 DEF Start
  <2>3. /\ record'[t] \in TaskRecord /\ RecordOK(record'[t]) /\ ~Ended(record'[t])
        /\ record' \in [Tasks -> TaskRecord \cup {NoRecord}]
    <3>1. record'[t] = [record[t] EXCEPT !.status = "started"]
      BY <1>1, <2>2
    <3>2. record'[t] \in TaskRecord
      BY <2>1, <3>1 DEF TaskRecord, TaskStatus
    <3>3. record'[t].status = "started" /\ record'[t].phases = record[t].phases
      BY <2>1, <3>1 DEF TaskRecord
    <3>4. record[t].phases = {}
      BY <1>1, <2>1 DEF Books, RecordOK, Announced
    <3>. QED
      BY <1>1, <2>2, <3>1, <3>2, <3>3, <3>4 DEF RecordOK, Ended, Announced, TaskTerminal
  <2>4. saved' = record' \/ saved' = saved
    BY DEF Start, Persist
  <2>5. ASSUME NEW x \in Tasks PROVE Books(x)' /\ Kept(x)
    <3>1. CASE x = t
      <4>1. taskAt'[t] = "live" /\ record[t] # NoRecord
        BY <1>1, <1>2, <2>1, NoRecordForm
      <4>. QED  BY <1>1, <2>1, <2>3, <2>4, <3>1, <4>1 DEF Books, Kept
    <3>2. CASE x # t
      <4>1. record'[x] = record[x] /\ taskAt'[x] = taskAt[x]
        BY <1>1, <1>2, <2>2, <3>2
      <4>2. saved'[x] = record[x] \/ saved'[x] = saved[x]
        BY <2>4, <4>1
      <4>. QED  BY <1>1, <1>2, <4>1, <4>2 DEF Books, Kept
    <3>. QED  BY <3>1, <3>2
  <2>. QED  BY <1>1, <1>2, <1>3, <2>3, <2>4, <2>5 DEF TasksInv, RecordInv, RecordTypes
<1>. QED  BY <1>4, <1>5

\* Steps that only touch records.
LEMMA ForgetBooks ==
  ASSUME TasksInv, NEW gone \in SUBSET Tasks, Forget(gone)
  PROVE  TasksInv' /\ \A x \in Tasks : Kept(x)
<1>1. /\ SlotInv /\ RecordInv /\ faults \in Nat /\ MaxFaults \in Nat /\ faults <= MaxFaults
      /\ taskAt \in [Tasks -> TaskStage]
      /\ record \in [Tasks -> TaskRecord \cup {NoRecord}] /\ \A x \in Tasks : Books(x)
  BY TasksAssumption DEF TasksInv, SlotInv, SlotTypes, RecordInv, RecordTypes
<1>2. /\ \A x \in Tasks : record'[x] = (IF x \in gone THEN NoRecord ELSE record[x])
      /\ record' \in [Tasks -> TaskRecord \cup {NoRecord}] /\ saved' = record'
      /\ UNCHANGED <<taskAt, activeCount, spawnQueue, slots, reported, restarts, faults>>
  BY <1>1 DEF Forget, Persist
<1>3. SlotInv'
  BY <1>1, <1>2, SlotsSame
<1>4. ASSUME NEW x \in Tasks PROVE Books(x)' /\ Kept(x)
  <2>1. record'[x] = NoRecord \/ record'[x] = record[x]
    BY <1>2
  <2>. QED  BY <1>1, <1>2, <2>1, NoRecordForm DEF Books, Kept
<1>. QED  BY <1>1, <1>2, <1>3, <1>4 DEF TasksInv, RecordInv, RecordTypes

\* A record that is reconciled keeps an outcome it has, and is open only while
\* its run is.
LEMMA ReconciledForm ==
  ASSUME NEW r \in TaskRecord \cup {NoRecord}, NEW e \in TaskTerminal, RecordOK(r), NEW n,
         n \in {Reconciled(r, TRUE, e), Reconciled(r, FALSE, e)}
  PROVE  /\ n \in TaskRecord \cup {NoRecord} /\ RecordOK(n)
         /\ r = NoRecord => n = NoRecord
         /\ Ended(r) => n.status = r.status
         /\ Open(n) => Open(r) /\ n # Reconciled(r, FALSE, e)
<1>1. CASE r = NoRecord
  BY <1>1, NoRecordForm DEF Reconciled
<1>2. CASE r # NoRecord /\ Ended(r)
  <2>1. r \in TaskRecord /\ r.status \in TaskTerminal
    BY <1>2 DEF Ended
  <2>2. /\ Delivered(r, r.status) \in TaskRecord /\ RecordOK(Delivered(r, r.status))
        /\ Ended(Delivered(r, r.status)) /\ Delivered(r, r.status).status = r.status
    BY <2>1, RecordForms
  <2>. QED  BY <1>2, <2>1, <2>2 DEF Reconciled, Open
<1>3. CASE r # NoRecord /\ ~Ended(r)
  <2>1. r \in TaskRecord /\ Open(r) /\ ~Announced(r)
    BY <1>3 DEF Open, Known, RecordOK
  <2>2. /\ Delivered(r, e) \in TaskRecord /\ RecordOK(Delivered(r, e)) /\ Ended(Delivered(r, e))
    BY <2>1, RecordForms
  <2>. QED  BY <1>3, <2>1, <2>2 DEF Reconciled, Open
<1>. QED  BY <1>1, <1>2, <1>3

LEMMA ReconcileBooks ==
  ASSUME TasksInv, NEW p \in Parents, Reconcile(p)
  PROVE  TasksInv' /\ \A x \in Tasks : Kept(x)
<1>1. /\ SlotInv /\ RecordInv /\ faults \in Nat /\ MaxFaults \in Nat /\ faults <= MaxFaults
      /\ taskAt \in [Tasks -> TaskStage]
      /\ record \in [Tasks -> TaskRecord \cup {NoRecord}] /\ \A x \in Tasks : Books(x)
  BY TasksAssumption DEF TasksInv, SlotInv, SlotTypes, RecordInv, RecordTypes
<1>2. /\ \A x \in Tasks : \/ record'[x] = Reconciled(record[x], taskAt[x] = "live", "aborted")
                          \/ record'[x] = record[x]
      /\ saved' = record' /\ record' = [x \in Tasks |-> record'[x]]
      /\ UNCHANGED <<taskAt, activeCount, spawnQueue, slots, reported, restarts, faults>>
  BY <1>1 DEF Reconcile, Persist
<1>3. SlotInv'
  BY <1>1, <1>2, SlotsSame
<1>4. ASSUME NEW x \in Tasks
      PROVE  /\ record'[x] \in TaskRecord \cup {NoRecord} /\ RecordOK(record'[x])
             /\ record[x] = NoRecord => record'[x] = NoRecord
             /\ Ended(record[x]) => record'[x].status = record[x].status
             /\ Open(record'[x]) => Open(record[x])
  <2>1. record[x] \in TaskRecord \cup {NoRecord} /\ RecordOK(record[x]) /\ "aborted" \in TaskTerminal
    BY <1>1 DEF Books, TaskTerminal
  <2>2. CASE record'[x] = record[x]
    BY <2>1, <2>2
  <2>3. CASE record'[x] = Reconciled(record[x], taskAt[x] = "live", "aborted")
    <3>1. record'[x] \in {Reconciled(record[x], TRUE, "aborted"),
                          Reconciled(record[x], FALSE, "aborted")}
      BY <2>3 DEF Reconciled
    <3>. DEFINE r == record[x]
                n == record'[x]
    <3>2. /\ r \in TaskRecord \cup {NoRecord} /\ RecordOK(r)
          /\ n \in {Reconciled(r, TRUE, "aborted"), Reconciled(r, FALSE, "aborted")}
      BY <2>1, <3>1
    <3>. HIDE DEF r, n
    <3>3. /\ n \in TaskRecord \cup {NoRecord} /\ RecordOK(n)
          /\ r = NoRecord => n = NoRecord
          /\ Ended(r) => n.status = r.status
          /\ Open(n) => Open(r)
      BY <2>1, <3>2, ReconciledForm, ZenonT(30)
    <3>. QED  BY <3>3, Zenon DEF r, n
  <2>. QED  BY <1>2, <2>2, <2>3
<1>5. ASSUME NEW x \in Tasks PROVE Books(x)' /\ Kept(x)
  BY <1>1, <1>2, <1>4 DEF Books, Kept
<1>6. record' \in [Tasks -> TaskRecord \cup {NoRecord}]
  BY <1>2, <1>4
<1>. QED  BY <1>1, <1>2, <1>3, <1>5, <1>6 DEF TasksInv, RecordInv, RecordTypes

LEMMA RestartBooks ==
  ASSUME TasksInv, Restart
  PROVE  TasksInv' /\ \A x \in Tasks : Kept(x)
<1>1. /\ SlotInv /\ RecordInv /\ faults \in 0..MaxFaults
      /\ MaxRestarts \in Nat /\ restarts \in 0..MaxRestarts
      /\ taskAt \in [Tasks -> TaskStage]
      /\ record \in [Tasks -> TaskRecord \cup {NoRecord}]
      /\ saved \in [Tasks -> TaskRecord \cup {NoRecord}] /\ \A x \in Tasks : Books(x)
  BY TasksAssumption DEF TasksInv, SlotInv, SlotTypes, RecordInv, RecordTypes
<1>2. PICK disk \in OnDisk : record' = [t \in Tasks |-> Reconciled(disk[t], FALSE, "failed")]
  BY DEF Restart
<1>3. /\ saved' = record' /\ restarts' = restarts + 1 /\ restarts < MaxRestarts
      /\ taskAt' = [t \in Tasks |-> IF taskAt[t] = "none" THEN "none" ELSE "over"]
      /\ activeCount' = [p \in Parents |-> 0] /\ spawnQueue' = [p \in Parents |-> <<>>]
      /\ slots' = {} /\ UNCHANGED <<reported, faults>>
  BY DEF Restart, Persist
<1>4. SlotInv'
  <2>1. SlotTypes'
    BY <1>1, <1>3 DEF SlotTypes, TaskStage
  <2>2. Waits'
    <3>1. \A p \in Parents : spawnQueue'[p] = <<>> /\ 1..Len(spawnQueue'[p]) = {}
      BY <1>3
    <3>. QED  BY <3>1 DEF Waits
  <2>3. ASSUME NEW p \in Parents PROVE SlotsOf(p)'
    <3>1. Holding(p)' = {}
      BY <1>3 DEF Holding
    <3>2. IsFiniteSet({}) /\ Cardinality({}) = 0
      BY FS_EmptySet
    <3>3. activeCount'[p] = 0 /\ spawnQueue'[p] = <<>>
      BY <1>3
    <3>. QED  BY <3>1, <3>2, <3>3, TasksAssumption DEF SlotsOf
  <2>. QED  BY <2>1, <2>2, <2>3 DEF SlotInv
<1>5. ASSUME NEW x \in Tasks
      PROVE  /\ disk[x] \in TaskRecord \cup {NoRecord} /\ RecordOK(disk[x])
             /\ taskAt[x] = "none" => disk[x] = NoRecord
             /\ Ended(record[x]) /\ taskAt[x] \notin {"starting", "live"} /\ disk[x] # NoRecord
                  => disk[x].status = record[x].status
             /\ Ended(record[x]) /\ taskAt[x] \notin {"starting", "live"} /\ disk[x] # NoRecord
                  => Ended(disk[x])
  <2>1. Books(x)
    BY <1>1
  <2>2. CASE disk = saved
    BY <1>1, <2>1, <2>2 DEF Books, Ended
  <2>3. CASE disk = [t \in Tasks |-> NoRecord]
    BY <2>3, NoRecordForm
  <2>4. ASSUME NEW te \in Ending, disk = [record EXCEPT ![te[1]] = Pending(@, te[2])]
        PROVE  <1>5!2
    <3>1. te[1] \in Tasks /\ te[2] \in TaskTerminal /\ record[te[1]] \in TaskRecord
      BY <1>1 DEF Ending, Known
    <3>2. Pending(record[te[1]], te[2]) \in TaskRecord /\ RecordOK(Pending(record[te[1]], te[2]))
      BY <3>1, RecordForms
    <3>3. CASE x = te[1]
      <4>1. disk[x] = Pending(record[x], te[2]) /\ record[x] # NoRecord
        BY <1>1, <2>4, <3>1, <3>3, NoRecordForm
      <4>2. taskAt[x] \in {"starting", "live"} \/ ~Ended(record[x])
        BY <3>3 DEF Ending, Open
      <4>. QED  BY <2>1, <3>2, <3>3, <4>1, <4>2 DEF Books
    <3>4. CASE x # te[1]
      <4>1. disk[x] = record[x]
        BY <1>1, <2>4, <3>1, <3>4
      <4>. QED  BY <1>1, <2>1, <4>1 DEF Books
    <3>. QED  BY <3>3, <3>4
  <2>. QED  BY <2>2, <2>3, <2>4 DEF OnDisk
<1>6. ASSUME NEW x \in Tasks
      PROVE  /\ record'[x] \in TaskRecord \cup {NoRecord} /\ RecordOK(record'[x])
             /\ disk[x] = NoRecord => record'[x] = NoRecord
             /\ Ended(disk[x]) => record'[x].status = disk[x].status
             /\ ~Open(record'[x])
  <2>1. record'[x] = Reconciled(disk[x], FALSE, "failed") /\ "failed" \in TaskTerminal
    BY <1>2 DEF TaskTerminal
  <2>. DEFINE r == disk[x]
              n == record'[x]
  <2>2. /\ r \in TaskRecord \cup {NoRecord} /\ RecordOK(r)
        /\ n = Reconciled(r, FALSE, "failed")
    BY <1>5, <2>1
  <2>. HIDE DEF r, n
  <2>3. n \in {Reconciled(r, TRUE, "failed"), Reconciled(r, FALSE, "failed")}
    BY <2>2, Zenon
  <2>4. /\ n \in TaskRecord \cup {NoRecord} /\ RecordOK(n)
        /\ r = NoRecord => n = NoRecord
        /\ Ended(r) => n.status = r.status
        /\ ~Open(n)
    BY <2>1, <2>2, <2>3, ReconciledForm, ZenonT(30)
  <2>. QED  BY <2>4, Zenon DEF r, n
<1>7. ASSUME NEW x \in Tasks PROVE Books(x)' /\ Kept(x)
  <2>1. taskAt'[x] = "over" \/ (taskAt'[x] = "none" /\ taskAt[x] = "none")
    BY <1>3
  <2>. QED  BY <1>3, <1>5, <1>6, <2>1, NoRecordForm DEF Books, Kept, Known
<1>8. record' \in [Tasks -> TaskRecord \cup {NoRecord}]
  BY <1>2, <1>6
<1>. QED
  BY <1>1, <1>3, <1>4, <1>7, <1>8 DEF TasksInv, RecordInv, RecordTypes

LEMMA TasksStep ==
  ASSUME TasksInv, [TasksNext]_taskVars
  PROVE  TasksInv' /\ (UNCHANGED taskVars \/ \A x \in Tasks : Kept(x))
<1>1. ASSUME NEW t \in Tasks,
             \/ Spawn(t) \/ SpawnUnstarted(t) \/ Create(t) \/ StartFails(t) \/ Start(t)
             \/ (\E e \in TaskTerminal : Finish(t, e)) \/ Stop(t)
      PROVE  TasksInv' /\ \A x \in Tasks : Kept(x)
  <2>1. "failed" \in TaskTerminal
    BY DEF TaskTerminal
  <2>. QED  BY <1>1, <2>1, SpawnBooks, CreateBooks, StartBooks, EndsRun, StopRun
<1>2. ASSUME NEW t \in Tasks, Sweep(t) PROVE TasksInv' /\ \A x \in Tasks : Kept(x)
  BY <1>2, ForgetBooks DEF Sweep
<1>3. ASSUME NEW p \in Parents, Clean(p) PROVE TasksInv' /\ \A x \in Tasks : Kept(x)
  BY <1>3, ForgetBooks DEF Clean
<1>4. CASE UNCHANGED taskVars
  <2>1. SlotInv'
    <3>1. taskAt' = taskAt /\ faults' = faults /\ UNCHANGED <<activeCount, spawnQueue>>
      BY <1>4 DEF taskVars
    <3>. QED  BY <3>1, SlotsSame, TasksAssumption DEF TasksInv, SlotInv, SlotTypes
  <2>2. RecordInv'
    BY <1>4 DEF taskVars, TasksInv, RecordInv, RecordTypes, Books
  <2>. QED  BY <1>4, <2>1, <2>2 DEF TasksInv
<1>. QED  BY <1>1, <1>2, <1>3, <1>4, ReconcileBooks, RestartBooks DEF TasksNext

LEMMA TasksInvInit == TasksInit => TasksInv
<1>. SUFFICES ASSUME TasksInit PROVE TasksInv
  OBVIOUS
<1>. USE TasksAssumption DEF TasksInit
<1>1. SlotTypes
  BY DEF SlotTypes, TaskStage
<1>2. Waits
  <2>1. \A p \in Parents : spawnQueue[p] = <<>> /\ 1..Len(spawnQueue[p]) = {}
    OBVIOUS
  <2>. QED  BY <2>1 DEF Waits
<1>3. ASSUME NEW p \in Parents PROVE SlotsOf(p)
  <2>1. Holding(p) = {}
    BY DEF Holding
  <2>2. IsFiniteSet({}) /\ Cardinality({}) = 0
    BY FS_EmptySet
  <2>. QED  BY <2>1, <2>2 DEF SlotsOf
<1>4. RecordTypes
  BY DEF RecordTypes
<1>5. \A t \in Tasks : Books(t)
  BY NoRecordForm DEF Books
<1>. QED  BY <1>1, <1>2, <1>3, <1>4, <1>5 DEF TasksInv, SlotInv, RecordInv

LEMMA TasksAlways == TasksSpec => []TasksInv
<1>1. TasksInv /\ [TasksNext]_taskVars => TasksInv'
  BY TasksStep
<1>. QED  BY <1>1, TasksInvInit, PTL DEF TasksSpec

\* For any tasks, parents, limit, restarts and failing writes: what runs for a
\* parent is counted and within the limit, exactly as long as every write
\* succeeds, and nobody waits while a slot is free.
THEOREM SlotsAreHeld == TasksSpec => []SlotsHeld
<1>1. TasksInv => SlotsHeld
  BY DEF TasksInv, SlotInv, SlotsOf, SlotsHeld
<1>. QED  BY <1>1, TasksAlways, PTL

\* No end, stop, reconciliation, failing write or restart leaves a record that
\* ended and is neither delivered nor to be, or an open one nobody will close.
THEOREM NoTaskIsLost == TasksSpec => []NoBlackHole
<1>1. TasksInv => NoBlackHole
  BY DEF TasksInv, RecordInv, Books, RecordOK, NoBlackHole
<1>. QED  BY <1>1, TasksAlways, PTL

\* Once its run is over nobody changes the outcome of a task.
THEOREM OutcomesAreKept == TasksSpec => OutcomeKept
<1>1. TasksInv /\ [TasksNext]_taskVars
      => [\A t \in Tasks : Kept(t)]_taskVars
  BY TasksStep
<1>2. (\A t \in Tasks : Kept(t)) =>
        \A t \in Tasks :
          Ended(record[t]) /\ Known(record'[t]) /\ record'[t].status # record[t].status
          => taskAt[t] \in {"starting", "live"}
  BY DEF Kept
<1>. QED  BY <1>1, <1>2, TasksAlways, PTL DEF TasksSpec, OutcomeKept

---------------------------------------------------------------------------
(* The registry of agent jobs.  A completion is a decision of Futures      *)
(* because a job that may still end has no snapshot, and because the       *)
(* registered waiters are exactly those that were not answered.            *)

\* A run sends at most Retries + 1 times, and what arrived was sent.
SendsBounded ==
  \A r \in JobRuns :
    /\ arrived[r] <= sends[r]
    /\ jobRunAt[r] \notin {"returned", "threw"} => sends[r] <= Retries

JobsInv == JobsTypeOK /\ WaitersKept /\ SendsBounded

---------------------------------------------------------------------------
LEMMA JobsInvInit == JobsInit => JobsInv
BY JobsAssumption, SMT
   DEF JobsInit, JobsInv, JobsTypeOK, WaitersKept, SendsBounded, JobTerminal, JobRunStage,
       JobWaiting

\* An end of a job leaves the registry consistent, and is a decision of Futures.
LEMMA CompleteStep ==
  ASSUME JobsTypeOK, WaitersKept, NEW j \in Jobs, NEW o \in JobTerminal, Complete(j, o)
  PROVE  /\ jobStatus' \in [Jobs -> {"none", "queued", "running", "waiting"}]
         /\ snapshot' \in [Jobs -> JobTerminal \cup {"none"}]
         /\ listening' \in [Jobs -> SUBSET Waiters]
         /\ told' \in [Waiters -> JobWaiting \cup JobTerminal \cup {"null"}]
         /\ WaitersKept'
         /\ F!Decide(j, o)
<1>1. snapshot[j] = "none" /\ jobStatus[j] # "none"
  BY DEF Complete, Allowed, WaitersKept
<1>2. listening[j] = {w \in Waiters : Awaited[w] = j /\ told[w] = "asked"}
  BY DEF WaitersKept
<1>3. o \notin {"asked", "none"}
  BY DEF JobTerminal
<1>4. /\ jobStatus' \in [Jobs -> {"none", "queued", "running", "waiting"}]
      /\ snapshot' \in [Jobs -> JobTerminal \cup {"none"}]
      /\ listening' \in [Jobs -> SUBSET Waiters]
      /\ told' \in [Waiters -> JobWaiting \cup JobTerminal \cup {"null"}]
  BY DEF Complete, JobsTypeOK
<1>5. WaitersKept'
  <2>1. ASSUME NEW k \in Jobs
        PROVE  listening'[k] = {w \in Waiters : Awaited[w] = k /\ told'[w] = "asked"}
    BY <1>2, <1>3, JobsAssumption DEF Complete, JobsTypeOK, WaitersKept
  <2>2. ASSUME NEW k \in Jobs, snapshot'[k] # "none"
        PROVE  listening'[k] = {} /\ jobStatus'[k] = "none"
    BY <2>2 DEF Complete, JobsTypeOK, WaitersKept
  <2>. QED  BY <2>1, <2>2 DEF WaitersKept
<1>6. F!Decide(j, o)
  BY <1>1, <1>2 DEF F!Decide, Complete, JobsTypeOK
<1>. QED  BY <1>4, <1>5, <1>6

---------------------------------------------------------------------------
\* Steps on the registry alone.

LEMMA CancelJobStep ==
  ASSUME JobsInv, NEW j \in Jobs, CancelJob(j)
  PROVE  JobsInv' /\ F!Decide(j, "cancelled")
BY CompleteStep DEF JobsInv, CancelJob, JobTerminal, JobsTypeOK, SendsBounded

LEMMA CreateJobStep ==
  ASSUME JobsInv, NEW r \in JobRuns, CreateJob(r)
  PROVE  JobsInv' /\ UNCHANGED <<snapshot, told>>
<1>1. JobOf[r] \in Jobs
  BY JobsAssumption
<1>2. JobsTypeOK'
  BY <1>1 DEF JobsInv, CreateJob, JobsTypeOK, JobRunStage
<1>3. WaitersKept'
  BY <1>1 DEF JobsInv, CreateJob, JobsTypeOK, WaitersKept
<1>4. SendsBounded'
  BY DEF JobsInv, CreateJob, JobsTypeOK, SendsBounded
<1>. QED  BY <1>2, <1>3, <1>4 DEF JobsInv, CreateJob

LEMMA WaitForJobStep ==
  ASSUME JobsInv, NEW w \in Waiters, WaitForJob(w)
  PROVE  JobsInv' /\ (F!Ask(w) \/ F!GiveUp(w))
<1>. DEFINE j == Awaited[w]
<1>1. j \in Jobs /\ told[w] = "unasked" /\ told \in [Waiters -> JobWaiting \cup JobTerminal \cup {"null"}]
  BY JobsAssumption DEF WaitForJob, JobsInv, JobsTypeOK
<1>2. UNCHANGED <<jobStatus, snapshot, jobRunAt, sends, arrived, prunes>>
  BY DEF WaitForJob
<1>3. JobsTypeOK'
  BY <1>1, <1>2 DEF JobsInv, JobsTypeOK, WaitForJob, JobWaiting
<1>4. WaitersKept'
  <2>1. ASSUME NEW k \in Jobs
        PROVE  listening'[k] = {v \in Waiters : Awaited[v] = k /\ told'[v] = "asked"}
    <3>1. CASE snapshot[j] # "none"
      <4>1. snapshot[j] # "asked"
        BY <1>1 DEF JobsInv, JobsTypeOK, JobTerminal
      <4>2. told' = [told EXCEPT ![w] = snapshot[j]] /\ listening' = listening
        BY <3>1 DEF WaitForJob
      <4>. QED  BY <1>1, <4>1, <4>2 DEF JobsInv, WaitersKept
    <3>2. CASE snapshot[j] = "none"
      BY <1>1, <3>2 DEF WaitForJob, JobsInv, JobsTypeOK, WaitersKept
    <3>. QED  BY <3>1, <3>2
  <2>2. ASSUME NEW k \in Jobs, snapshot'[k] # "none"
        PROVE  listening'[k] = {} /\ jobStatus'[k] = "none"
    BY <1>1, <1>2, <2>2 DEF WaitForJob, JobsInv, JobsTypeOK, WaitersKept
  <2>. QED  BY <2>1, <2>2 DEF WaitersKept
<1>5. SendsBounded'
  BY <1>2 DEF JobsInv, SendsBounded
<1>6. F!Ask(w) \/ F!GiveUp(w)
  BY <1>1, <1>2 DEF WaitForJob, F!Ask, F!GiveUp
<1>. QED  BY <1>3, <1>4, <1>5, <1>6 DEF JobsInv

LEMMA GiveUpWaitingStep ==
  ASSUME JobsInv, NEW w \in Waiters, GiveUpWaiting(w)
  PROVE  JobsInv' /\ F!GiveUp(w)
<1>1. Awaited[w] \in Jobs
  BY JobsAssumption
<1>2. JobsTypeOK' /\ SendsBounded'
  BY <1>1 DEF JobsInv, GiveUpWaiting, JobsTypeOK, SendsBounded
<1>3. WaitersKept'
  BY <1>1 DEF JobsInv, GiveUpWaiting, JobsTypeOK, WaitersKept
<1>4. F!GiveUp(w)
  BY DEF GiveUpWaiting, F!GiveUp
<1>. QED  BY <1>2, <1>3, <1>4 DEF JobsInv

LEMMA PruneSnapshotStep ==
  ASSUME JobsInv, NEW j \in Jobs, PruneSnapshot(j)
  PROVE  JobsInv' /\ F!Forget(j)
<1>1. JobsTypeOK'
  BY JobsAssumption DEF JobsInv, PruneSnapshot, JobsTypeOK
<1>2. WaitersKept' /\ SendsBounded'
  BY DEF JobsInv, PruneSnapshot, JobsTypeOK, WaitersKept, SendsBounded
<1>3. F!Forget(j)
  BY DEF PruneSnapshot, F!Forget
<1>. QED  BY <1>1, <1>2, <1>3 DEF JobsInv

---------------------------------------------------------------------------
\* Steps of a run.

LEMMA RunJobStep ==
  ASSUME JobsInv, NEW r \in JobRuns, RunJob(r)
  PROVE  JobsInv' /\ UNCHANGED <<snapshot, told>>
<1>1. JobOf[r] \in Jobs
  BY JobsAssumption
<1>2. JobsTypeOK'
  BY <1>1 DEF JobsInv, RunJob, JobsTypeOK, JobRunStage
<1>3. WaitersKept'
  BY <1>1 DEF JobsInv, RunJob, JobsTypeOK, WaitersKept
<1>4. SendsBounded'
  BY DEF JobsInv, RunJob, JobsTypeOK, SendsBounded
<1>. QED  BY <1>2, <1>3, <1>4 DEF JobsInv, RunJob

LEMMA PromptSettlesStep ==
  ASSUME JobsInv, NEW r \in JobRuns, PromptSettles(r)
  PROVE  /\ JobsInv'
         /\ \/ \E o \in JobTerminal : F!Decide(JobOf[r], o)
            \/ UNCHANGED <<snapshot, told>>
<1>. DEFINE j == JobOf[r]
<1>1. j \in Jobs
  BY JobsAssumption
<1>2. /\ jobRunAt' \in [JobRuns -> JobRunStage]
      /\ SendsBounded'
  BY DEF JobsInv, JobsTypeOK, SendsBounded, PromptSettles, JobRunStage
<1>3. CASE \E o \in JobTerminal : Complete(j, o)
  <2>1. PICK o \in JobTerminal : Complete(j, o)
    BY <1>3
  <2>2. JobsTypeOK /\ WaitersKept
    BY DEF JobsInv
  <2>3. WaitersKept' /\ F!Decide(j, o)
    BY <1>1, <2>1, <2>2, CompleteStep
  <2>4. JobsTypeOK'
    BY <1>1, <1>2, <2>1, <2>2, CompleteStep DEF JobsTypeOK, PromptSettles
  <2>. QED  BY <1>2, <2>3, <2>4 DEF JobsInv
<1>4. CASE UNCHANGED <<jobStatus, snapshot, listening, told>>
  BY <1>2, <1>4 DEF JobsInv, JobsTypeOK, WaitersKept, PromptSettles
<1>. QED
  BY <1>3, <1>4 DEF PromptSettles, JobTerminal

LEMMA SendReplyStep ==
  ASSUME JobsInv, NEW r \in JobRuns, SendReply(r)
  PROVE  JobsInv' /\ UNCHANGED <<snapshot, told>>
<1>1. PICK ok \in BOOLEAN, wire \in {0, 1} :
        /\ arrived' = [arrived EXCEPT ![r] = @ + wire]
        /\ jobRunAt' = [jobRunAt EXCEPT ![r] = IF ok \/ sends[r] = Retries THEN "returned" ELSE @]
  BY DEF SendReply
<1>2. sends' = [sends EXCEPT ![r] = @ + 1] /\ jobRunAt[r] = "sending"
  BY DEF SendReply
<1>3. sends[r] \in Nat /\ arrived[r] \in Nat /\ Retries \in Nat
      /\ arrived[r] <= sends[r] /\ sends[r] <= Retries
  BY <1>2, JobsAssumption DEF JobsInv, JobsTypeOK, SendsBounded
<1>4. JobsTypeOK'
  BY <1>1, <1>2, <1>3 DEF JobsInv, JobsTypeOK, SendReply, JobRunStage
<1>5. SendsBounded'
  BY <1>1, <1>2, <1>3 DEF JobsInv, JobsTypeOK, SendsBounded
<1>6. WaitersKept'
  BY DEF JobsInv, WaitersKept, SendReply
<1>. QED  BY <1>4, <1>5, <1>6 DEF JobsInv, SendReply

---------------------------------------------------------------------------
\* Every step keeps the invariant, and is a step of Futures or none.
LEMMA JobsStep ==
  ASSUME JobsInv, [JobsNext]_jobVars
  PROVE  JobsInv' /\ [F!FuturesNext]_(F!futureVars)
<1>1. ASSUME NEW r \in JobRuns, CreateJob(r) \/ RunJob(r) \/ SendReply(r)
      PROVE  JobsInv' /\ UNCHANGED F!futureVars
  BY <1>1, CreateJobStep, RunJobStep, SendReplyStep DEF F!futureVars
<1>2. ASSUME NEW r \in JobRuns, PromptSettles(r)
      PROVE  JobsInv' /\ [F!FuturesNext]_(F!futureVars)
  BY <1>2, PromptSettlesStep, JobsAssumption DEF F!FuturesNext, F!futureVars
<1>3. ASSUME NEW j \in Jobs, CancelJob(j) \/ PruneSnapshot(j)
      PROVE  JobsInv' /\ F!FuturesNext
  BY <1>3, CancelJobStep, PruneSnapshotStep DEF F!FuturesNext, JobTerminal
<1>4. ASSUME NEW w \in Waiters, WaitForJob(w) \/ GiveUpWaiting(w)
      PROVE  JobsInv' /\ F!FuturesNext
  BY <1>4, WaitForJobStep, GiveUpWaitingStep DEF F!FuturesNext
<1>5. CASE UNCHANGED jobVars
  BY <1>5 DEF jobVars, F!futureVars, JobsInv, JobsTypeOK, WaitersKept, SendsBounded
<1>. QED  BY <1>1, <1>2, <1>3, <1>4, <1>5 DEF JobsNext

LEMMA JobsInvariant == JobsSpec => []JobsInv
<1>1. JobsInv /\ [JobsNext]_jobVars => JobsInv'
  BY JobsStep
<1>. QED  BY <1>1, JobsInvInit, PTL DEF JobsSpec

\* For any jobs and waiters the promises that wait are exactly those the
\* registry will answer, and nobody waits for a job that has an outcome.
THEOREM WaitersAreKept == JobsSpec => []WaitersKept
<1>1. JobsInv => WaitersKept
  BY DEF JobsInv
<1>. QED  BY <1>1, JobsInvariant, PTL

\* Every behaviour of the registry is one of Futures: one outcome, the same for
\* all who wait, given in the step that decides it.
THEOREM JobsImplementFutures == JobsSpec => ImplementsFutures
<1>1. JobsInit => F!FuturesInit
  BY DEF JobsInit, F!FuturesInit
<1>2. JobsInv /\ [JobsNext]_jobVars => [F!FuturesNext]_(F!futureVars)
  BY JobsStep
<1>. QED  BY <1>1, <1>2, JobsInvariant, PTL DEF JobsSpec, ImplementsFutures, F!FuturesSpec

---------------------------------------------------------------------------
(* Detached runs.                                                          *)

NoEarlyCallback == \A r \in Runs : micro[r] # "none" => ~Live(r)

RunsInv == RunsTypeOK /\ LiveIndex /\ EntriesOwned /\ NoEarlyCallback

Outcomes == {"completed", "failed", "aborted"}

LEMMA RunsInitInv == RunsInit => RunsInv
BY RunsAssumption
   DEF RunsInit, RunsInv, RunsTypeOK, LiveIndex, EntriesOwned, NoEarlyCallback,
       NoTurns, NoSessions, NoWaits, Live, LiveState, TurnState

---------------------------------------------------------------------------
(* The registry.                                                           *)

\* setTerminal on a run, live or over, keeps the tables consistent.
LEMMA SetTerminalInv ==
  ASSUME RunsInv, NEW r \in Runs, NEW t \in RunTerminal, SetTerminal(r, t),
         UNCHANGED <<callback, turn, prompt>>, waiting' \in [Callers -> Sessions \cup {None}]
  PROVE  RunsInv'
<1> USE RunsAssumption DEF RunsInv
<1>1. CASE ~Live(r)
  <2>1. UNCHANGED <<run, current, micro>>
    BY <1>1 DEF SetTerminal
  <2> QED
    BY <2>1 DEF RunsTypeOK, LiveIndex, EntriesOwned, NoEarlyCallback, Live
<1>2. CASE Live(r)
  <2>1. /\ run' = [run EXCEPT ![r] = t]
        /\ current' = [current EXCEPT ![SessionOf[r]] = None]
        /\ micro' = [micro EXCEPT ![r] = IF r \in callback THEN t ELSE @]
    BY <1>2 DEF SetTerminal
  <2>2. SessionOf[r] \in Sessions /\ t \notin LiveState /\ t # "none"
    BY DEF RunTerminal, LiveState
  <2>3. RunsTypeOK'
    BY <2>1, <2>2 DEF RunsTypeOK
  <2>4. \A x \in Runs : Live(x)' <=> Live(x) /\ x # r
    BY <2>1, <2>2 DEF Live, RunsTypeOK
  <2>5. LiveIndex'
    BY <1>2, <2>1, <2>2, <2>4 DEF LiveIndex, RunsTypeOK
  <2>6. EntriesOwned'
    BY <1>2, <2>1, <2>2 DEF EntriesOwned, RunsTypeOK, Live, LiveState
  <2>7. NoEarlyCallback'
    BY <2>1, <2>4 DEF NoEarlyCallback, RunsTypeOK
  <2> QED
    BY <2>3, <2>5, <2>6, <2>7
<1> QED
  BY <1>1, <1>2

\* abortSession is setTerminal on the run of the session, if it has one.
LEMMA AbortSessionInv ==
  ASSUME RunsInv, NEW s \in Sessions, AbortSession(s),
         UNCHANGED <<callback, turn, prompt>>, waiting' \in [Callers -> Sessions \cup {None}]
  PROVE  RunsInv'
<1>1. CASE current[s] # None
  <2>1. current[s] \in Runs /\ SetTerminal(current[s], "aborted")
    BY <1>1 DEF RunsInv, RunsTypeOK, AbortSession
  <2> QED
    BY <2>1, SetTerminalInv DEF RunTerminal
<1>2. CASE current[s] = None
  BY <1>2 DEF AbortSession, RunsInv, RunsTypeOK, LiveIndex, EntriesOwned, NoEarlyCallback, Live
<1> QED
  BY <1>1, <1>2

---------------------------------------------------------------------------
(* One lemma per action that touches a table of its own.                   *)

LEMMA StartRunInv ==
  ASSUME RunsInv, NEW r \in Runs, StartRun(r)
  PROVE  RunsInv'
<1> USE RunsAssumption DEF RunsInv
<1> DEFINE s == SessionOf[r]
           superseded == {x \in Runs : x = current[s] /\ Live(x)}
<1>1. /\ run[r] = "none" /\ turn[r] = "none" /\ micro[r] = "none"
      /\ run' = [x \in Runs |-> IF x = r THEN "accepted"
                                ELSE IF x \in superseded THEN "aborted" ELSE run[x]]
      /\ micro' = [x \in Runs |-> IF x \in superseded \cap callback
                                  THEN "aborted" ELSE micro[x]]
      /\ current'  = [current EXCEPT ![s] = r]
      /\ callback' = callback \cup {r}
      /\ turn'     = [turn EXCEPT ![r] = "queued"]
      /\ UNCHANGED <<prompt, waiting>>
  BY DEF StartRun
<1>2. s \in Sessions /\ r # None /\ ~Live(r)
  BY <1>1 DEF Live, LiveState
<1>3. \A x \in Runs : Live(x)' <=> x = r \/ (Live(x) /\ x \notin superseded)
  BY <1>1 DEF Live, LiveState
<1>4. \A x \in Runs : Live(x) /\ SessionOf[x] = s => x \in superseded
  BY DEF LiveIndex
<1>5. RunsTypeOK'
  BY <1>1, <1>2 DEF RunsTypeOK, LiveState, RunTerminal, TurnState
<1>6. LiveIndex'
  <2>1. \A x \in Sessions : x # s => current'[x] = current[x]
    BY <1>1 DEF RunsTypeOK
  <2>2. current'[s] = r
    BY <1>1, <1>2 DEF RunsTypeOK
  <2>3. ASSUME NEW x \in Sessions, current'[x] # None
        PROVE  SessionOf[current'[x]] = x /\ Live(current[x])'
    <3>1. CASE x = s
      <4>1. run'[r] = "accepted"
        BY <1>1
      <4> QED
        BY <3>1, <2>2, <4>1 DEF Live, LiveState
    <3>2. CASE x # s
      <4>1. /\ current'[x] = current[x] /\ current[x] \in Runs
            /\ SessionOf[current[x]] = x /\ Live(current[x])
        BY <3>2, <2>1, <2>3 DEF LiveIndex, RunsTypeOK
      <4>2. current[x] \notin superseded
        BY <3>2, <4>1, <1>2 DEF LiveIndex
      <4>3. run'[current[x]] \in LiveState
        BY <4>1, <4>2, <1>1 DEF Live, LiveState
      <4> QED
        BY <4>1, <4>3 DEF Live
    <3> QED
      BY <3>1, <3>2
  <2>4. ASSUME NEW x \in Runs, Live(x)' PROVE current'[SessionOf[x]] = x
    <3>1. CASE x = r
      BY <3>1, <2>2
    <3>2. CASE x # r
      BY <3>2, <2>4, <1>3, <1>4, <2>1 DEF LiveIndex
    <3> QED
      BY <3>1, <3>2
  <2> QED
    BY <2>3, <2>4 DEF LiveIndex, Live
<1>7. EntriesOwned'
  <2>1. \A x \in Runs : turn'[x] # "none" <=> x = r \/ turn[x] # "none"
    BY <1>1 DEF RunsTypeOK
  <2>2. \A x \in Runs : x \in superseded => run[x] # "none" /\ x # r
    BY <1>2 DEF Live, LiveState
  <2>3. \A x \in Runs : run'[x] # "none" <=> x = r \/ run[x] # "none"
    BY <1>1, <2>2
  <2> QED
    BY <1>1, <2>1, <2>3 DEF EntriesOwned
<1>8. NoEarlyCallback'
  <2> SUFFICES ASSUME NEW x \in Runs, micro'[x] # "none" PROVE ~Live(x)'
    BY DEF NoEarlyCallback
  <2>1. CASE x \in superseded
    BY <1>2, <1>3, <2>1
  <2>2. CASE x \notin superseded
    <3>1. micro[x] # "none"
      BY <1>1, <2>2
    <3> QED
      BY <1>1, <1>3, <3>1 DEF NoEarlyCallback
  <2> QED
    BY <2>1, <2>2
<1> QED
  BY <1>5, <1>6, <1>7, <1>8

\* setTerminal, the drop of the callback and the disposal of the entry are
\* one segment: the index loses the run, whoever ended it.
LEMMA TurnEndInv ==
  ASSUME RunsInv, NEW r \in Runs, NEW t \in Outcomes, TurnEnd(r, t)
  PROVE  RunsInv'
<1> USE RunsAssumption DEF RunsInv
<1> DEFINE s == SessionOf[r]
<1>1. /\ turn[r] = "running"
      /\ turn'     = [turn EXCEPT ![r] = "none"]
      /\ micro'    = [micro EXCEPT ![r] = IF Live(r) /\ r \in callback THEN t ELSE @]
      /\ run'      = [run EXCEPT ![r] = "none"]
      /\ current'  = [current EXCEPT ![s] = IF Live(r) \/ @ = r THEN None ELSE @]
      /\ callback' = callback \ {r}
      /\ UNCHANGED <<prompt, waiting>>
  BY DEF TurnEnd
<1>2. s \in Sessions
  OBVIOUS
<1>3. \A x \in Runs : Live(x)' <=> Live(x) /\ x # r
  BY <1>1 DEF Live, LiveState, RunsTypeOK
<1>4. RunsTypeOK'
  BY <1>1, <1>2 DEF RunsTypeOK, RunTerminal, TurnState, Outcomes
<1>5. LiveIndex'
  <2>1. ASSUME NEW x \in Sessions, current'[x] # None
        PROVE  /\ current'[x] = current[x] /\ current[x] \in Runs
               /\ current[x] # r /\ Live(current[x]) /\ SessionOf[current[x]] = x
    BY <1>1, <1>2, <2>1 DEF LiveIndex, RunsTypeOK
  <2>2. ASSUME NEW x \in Runs, Live(x), x # r PROVE current'[SessionOf[x]] = x
    <3>1. current[SessionOf[x]] = x /\ SessionOf[x] \in Sessions
      BY <2>2 DEF LiveIndex
    <3>2. SessionOf[x] = s => ~Live(r) /\ current[s] # r
      BY <3>1, <2>2 DEF LiveIndex
    <3> QED
      BY <1>1, <3>1, <3>2 DEF RunsTypeOK
  <2>3. \A x \in Sessions : current'[x] # None => run'[current'[x]] \in LiveState
    BY <2>1, <1>1 DEF Live, RunsTypeOK
  <2> QED
    BY <2>1, <2>2, <2>3, <1>3 DEF LiveIndex, Live
<1>6. EntriesOwned'
  BY <1>1 DEF EntriesOwned, RunsTypeOK, TurnState
<1>7. NoEarlyCallback'
  BY <1>1, <1>3 DEF NoEarlyCallback, RunsTypeOK
<1> QED
  BY <1>4, <1>5, <1>6, <1>7

\* The steps of a task that end no run.
LEMMA TurnStepInv ==
  ASSUME RunsInv, NEW r \in Runs, TurnStep(r)
  PROVE  RunsInv'
<1> USE RunsAssumption DEF RunsInv
<1>1. CASE TurnStart(r)
  <2>1. /\ turn[r] = "queued"
        /\ turn' = [turn EXCEPT ![r] = IF r \in Resetting THEN "command" ELSE "running"]
        /\ run'  = [run EXCEPT ![r] = IF Live(r) THEN "started" ELSE @]
        /\ UNCHANGED <<current, callback, micro, prompt, waiting>>
    BY <1>1 DEF TurnStart
  <2>2. \A x \in Runs : Live(x)' <=> Live(x)
    BY <2>1 DEF Live, LiveState, RunsTypeOK
  <2>3. RunsTypeOK'
    BY <2>1 DEF RunsTypeOK, TurnState, LiveState
  <2>4. LiveIndex'
    BY <2>1, <2>2 DEF LiveIndex, RunsTypeOK, Live, LiveState
  <2>5. EntriesOwned'
    BY <2>1 DEF EntriesOwned, RunsTypeOK, Live, LiveState
  <2>6. NoEarlyCallback'
    BY <2>1, <2>2 DEF NoEarlyCallback
  <2> QED
    BY <2>3, <2>4, <2>5, <2>6
<1>2. CASE ResetSession(r)
  <2> DEFINE s == SessionOf[r]
  <2>1. /\ turn[r] = "command" /\ turn' = [turn EXCEPT ![r] = "running"]
        /\ UNCHANGED <<callback, prompt>>
        /\ \/ AbortSession(s) /\ UNCHANGED waiting
           \/ /\ waiting' = [waiting EXCEPT ![r] = s]
              /\ UNCHANGED <<run, current, micro>>
    BY <1>2 DEF ResetSession
  <2>2. s \in Sessions
    OBVIOUS
  <2>3. turn' \in [Runs -> TurnState] /\ \A x \in Runs : turn'[x] = "none" <=> turn[x] = "none"
    BY <2>1 DEF RunsTypeOK, TurnState
  <2>4. waiting' \in [Callers -> Sessions \cup {None}]
    BY <2>1, <2>2 DEF RunsTypeOK
  <2>5. CASE UNCHANGED <<run, current, micro>>
    BY <2>1, <2>3, <2>4, <2>5
       DEF RunsTypeOK, LiveIndex, EntriesOwned, NoEarlyCallback, Live
  <2>6. CASE current[s] # None /\ SetTerminal(current[s], "aborted")
    <3> DEFINE x == current[s]
    <3>1. x \in Runs /\ SessionOf[x] = s /\ Live(x) /\ x \in callback
      BY <2>2, <2>6 DEF RunsTypeOK, LiveIndex, EntriesOwned, Live, LiveState
    <3>2. /\ run' = [run EXCEPT ![x] = "aborted"]
          /\ current' = [current EXCEPT ![s] = None]
          /\ micro' = [micro EXCEPT ![x] = "aborted"]
      BY <2>6, <3>1 DEF SetTerminal
    <3> HIDE DEF x
    <3>3. \A y \in Runs : Live(y)' <=> Live(y) /\ y # x
      BY <3>1, <3>2 DEF Live, LiveState, RunsTypeOK
    <3>4. RunsTypeOK'
      BY <2>1, <2>2, <2>3, <2>4, <3>1, <3>2 DEF RunsTypeOK, RunTerminal
    <3>5. LiveIndex'
      BY <2>2, <3>1, <3>2, <3>3 DEF LiveIndex, RunsTypeOK
    <3>6. EntriesOwned'
      BY <2>1, <2>3, <3>1, <3>2 DEF EntriesOwned, RunsTypeOK, Live, LiveState
    <3>7. NoEarlyCallback'
      BY <3>1, <3>2, <3>3 DEF NoEarlyCallback, RunsTypeOK
    <3> QED
      BY <3>4, <3>5, <3>6, <3>7
  <2> QED
    BY <2>1, <2>5, <2>6 DEF AbortSession
<1>3. CASE PromptBegin(r)
  BY <1>3 DEF PromptBegin, RunsTypeOK, LiveIndex, EntriesOwned, NoEarlyCallback, Live, TurnState
<1>4. CASE Stream(r)
  <2>1. /\ Live(r) /\ run' = [run EXCEPT ![r] = "streaming"]
        /\ UNCHANGED <<current, callback, micro, turn, prompt, waiting>>
    BY <1>4 DEF Stream
  <2>2. \A x \in Runs : Live(x)' <=> Live(x)
    BY <2>1 DEF Live, LiveState, RunsTypeOK
  <2>3. LiveIndex'
    BY <2>1, <2>2 DEF LiveIndex, RunsTypeOK, Live, LiveState
  <2>4. RunsTypeOK' /\ EntriesOwned' /\ NoEarlyCallback'
    BY <2>1, <2>2 DEF RunsTypeOK, EntriesOwned, NoEarlyCallback, Live, LiveState
  <2> QED
    BY <2>3, <2>4
<1>5. CASE PromptEnd(r)
  BY <1>5 DEF PromptEnd, RunsTypeOK, LiveIndex, EntriesOwned, NoEarlyCallback, Live, TurnState
<1> QED
  BY <1>1, <1>2, <1>3, <1>4, <1>5 DEF TurnStep

LEMMA DeliverInv ==
  ASSUME RunsInv, NEW r \in Runs, Deliver(r)
  PROVE  RunsInv'
BY DEF RunsInv, Deliver, RunsTypeOK, LiveIndex, EntriesOwned, NoEarlyCallback, Live

LEMMA InterruptInv ==
  ASSUME RunsInv, NEW q \in Callers, NEW s \in Sessions, Interrupt(q, s)
  PROVE  RunsInv'
<1>1. waiting' \in [Callers -> Sessions \cup {None}]
  BY DEF RunsInv, RunsTypeOK, Interrupt
<1>2. CASE AbortSession(s) /\ UNCHANGED <<callback, turn, prompt, waiting>>
  BY <1>1, <1>2, AbortSessionInv
<1>3. CASE UNCHANGED <<run, current, callback, micro, turn, prompt>>
  BY <1>1, <1>3 DEF RunsInv, RunsTypeOK, LiveIndex, EntriesOwned, NoEarlyCallback, Live
<1> QED
  BY <1>2, <1>3 DEF Interrupt

LEMMA InterruptEndInv ==
  ASSUME RunsInv, NEW q \in Callers, InterruptEnd(q)
  PROVE  RunsInv'
<1>1. waiting[q] \in Sessions /\ waiting' \in [Callers -> Sessions \cup {None}]
  BY DEF RunsInv, RunsTypeOK, InterruptEnd, Idle
<1> QED
  BY <1>1, AbortSessionInv DEF InterruptEnd

LEMMA RunsNextInv == RunsInv /\ [RunsNext]_runVars => RunsInv'
<1> SUFFICES ASSUME RunsInv, [RunsNext]_runVars PROVE RunsInv'
  OBVIOUS
<1>1. ASSUME NEW r \in Runs, StartRun(r) PROVE RunsInv'
  BY <1>1, StartRunInv
<1>2. ASSUME NEW r \in Runs, TurnStep(r) PROVE RunsInv'
  BY <1>2, TurnStepInv
<1>3. ASSUME NEW r \in Runs, NEW t \in Outcomes, TurnEnd(r, t) PROVE RunsInv'
  BY <1>3, TurnEndInv
<1>4. ASSUME NEW r \in Runs, Timeout(r) PROVE RunsInv'
  BY <1>4, SetTerminalInv DEF Timeout, RunTerminal, RunsInv, RunsTypeOK
<1>5. ASSUME NEW r \in Runs, AbortRun(r) PROVE RunsInv'
  BY <1>5, SetTerminalInv DEF AbortRun, RunTerminal, RunsInv, RunsTypeOK
<1>6. ASSUME NEW r \in Runs, Deliver(r) PROVE RunsInv'
  BY <1>6, DeliverInv
<1>7. ASSUME NEW q \in Callers, InterruptEnd(q) PROVE RunsInv'
  BY <1>7, InterruptEndInv
<1>8. ASSUME NEW q \in Callers, NEW s \in Sessions, Interrupt(q, s) PROVE RunsInv'
  BY <1>8, InterruptInv
<1>9. CASE UNCHANGED runVars
  BY <1>9 DEF runVars, RunsInv, RunsTypeOK, LiveIndex, EntriesOwned, NoEarlyCallback, Live
<1> QED
  BY <1>1, <1>2, <1>3, <1>4, <1>5, <1>6, <1>7, <1>8, <1>9 DEF RunsNext, Outcomes

THEOREM RunsInvariant == RunsSpec => []RunsInv
BY RunsInitInv, RunsNextInv, PTL DEF RunsSpec

\* The tables stay well typed: a run is never put into a state of a queue
\* row, a session never indexes something that is not a run.
THEOREM RunsTypes == RunsSpec => []RunsTypeOK
BY RunsInvariant, PTL DEF RunsInv

\* runBySession is exactly the index of the live runs.
THEOREM IndexIsLive == RunsSpec => []LiveIndex
BY RunsInvariant, PTL DEF RunsInv

\* Registry and callback table hold exactly the runs whose task is not over.
THEOREM NothingLeaks == RunsSpec => []EntriesOwned
BY RunsInvariant, PTL DEF RunsInv

---------------------------------------------------------------------------
(* The terminal callback.                                                  *)

\* What TerminalOnce says of one run in one step.
OnceStep(r) ==
  /\ Live(r) /\ run'[r] \notin LiveState => micro[r] = "none" /\ micro'[r] # "none"
  /\ ~Live(r) => micro'[r] \in {micro[r], "none"}

LEMMA SetTerminalOnce ==
  ASSUME RunsInv, NEW r \in Runs, NEW t \in RunTerminal, SetTerminal(r, t)
  PROVE  \A x \in Runs : OnceStep(x)
BY DEF SetTerminal, OnceStep, RunsInv, RunsTypeOK, EntriesOwned, NoEarlyCallback,
       Live, LiveState, RunTerminal

LEMMA AbortSessionOnce ==
  ASSUME RunsInv, NEW s \in Sessions, AbortSession(s)
  PROVE  \A x \in Runs : OnceStep(x)
<1>1. CASE current[s] # None /\ SetTerminal(current[s], "aborted")
  BY <1>1, SetTerminalOnce DEF RunsInv, RunsTypeOK, RunTerminal
<1>2. CASE UNCHANGED <<run, current, micro>>
  BY <1>2 DEF OnceStep, Live
<1> QED
  BY <1>1, <1>2 DEF AbortSession

LEMMA StartRunOnce ==
  ASSUME RunsInv, NEW r \in Runs, StartRun(r)
  PROVE  \A x \in Runs : OnceStep(x)
<1> DEFINE superseded == {x \in Runs : x = current[SessionOf[r]] /\ Live(x)}
<1>1. /\ run' = [x \in Runs |-> IF x = r THEN "accepted"
                                ELSE IF x \in superseded THEN "aborted" ELSE run[x]]
      /\ micro' = [x \in Runs |-> IF x \in superseded \cap callback
                                  THEN "aborted" ELSE micro[x]]
  BY DEF StartRun
<1>2. SUFFICES ASSUME NEW x \in Runs PROVE OnceStep(x)
  OBVIOUS
<1>3. CASE x \in superseded
  <2>1. x \in callback /\ micro[x] = "none" /\ Live(x)
    BY <1>3 DEF RunsInv, EntriesOwned, NoEarlyCallback, Live, LiveState
  <2> QED
    BY <1>1, <1>3, <2>1 DEF OnceStep
<1>4. CASE x \notin superseded
  <2>1. micro'[x] = micro[x] /\ (Live(x) => run'[x] \in LiveState)
    BY <1>1, <1>4 DEF Live, LiveState
  <2> QED
    BY <2>1 DEF OnceStep
<1> QED
  BY <1>3, <1>4

LEMMA TurnEndOnce ==
  ASSUME RunsInv, NEW r \in Runs, NEW t \in Outcomes, TurnEnd(r, t)
  PROVE  \A x \in Runs : OnceStep(x)
BY DEF TurnEnd, OnceStep, RunsInv, RunsTypeOK, EntriesOwned, NoEarlyCallback,
       Live, LiveState, Outcomes

LEMMA EveryStepOnce ==
  ASSUME RunsInv, RunsNext
  PROVE  \A x \in Runs : OnceStep(x)
<1> DEFINE Once == \A x \in Runs : OnceStep(x)
<1>1. ASSUME NEW r \in Runs, StartRun(r) PROVE Once
  BY <1>1, StartRunOnce
<1>2. ASSUME NEW r \in Runs, TurnStep(r) PROVE Once
  <2>1. CASE ResetSession(r)
    <3>1. CASE AbortSession(SessionOf[r])
      BY <3>1, RunsAssumption, AbortSessionOnce
    <3>2. CASE UNCHANGED <<run, micro>>
      BY <3>2 DEF OnceStep, Live
    <3> QED
      BY <2>1, <3>1, <3>2 DEF ResetSession
  <2>2. CASE TurnStart(r) \/ Stream(r)
    BY <2>2 DEF TurnStart, Stream, OnceStep, RunsInv, RunsTypeOK, Live, LiveState
  <2>3. CASE PromptBegin(r) \/ PromptEnd(r)
    BY <2>3 DEF PromptBegin, PromptEnd, OnceStep, Live
  <2> QED
    BY <1>2, <2>1, <2>2, <2>3 DEF TurnStep
<1>3. ASSUME NEW r \in Runs, NEW t \in Outcomes, TurnEnd(r, t) PROVE Once
  BY <1>3, TurnEndOnce
<1>4. ASSUME NEW r \in Runs, Timeout(r) \/ AbortRun(r) PROVE Once
  BY <1>4, SetTerminalOnce DEF Timeout, AbortRun, RunTerminal
<1>5. ASSUME NEW r \in Runs, Deliver(r) PROVE Once
  BY <1>5 DEF Deliver, OnceStep, RunsInv, RunsTypeOK, Live
<1>6. ASSUME NEW q \in Callers, InterruptEnd(q) PROVE Once
  BY <1>6, AbortSessionOnce DEF InterruptEnd, Idle, RunsInv, RunsTypeOK
<1>7. ASSUME NEW q \in Callers, NEW s \in Sessions, Interrupt(q, s) PROVE Once
  <2>1. CASE AbortSession(s)
    BY <2>1, AbortSessionOnce
  <2>2. CASE UNCHANGED <<run, micro>>
    BY <2>2 DEF OnceStep, Live
  <2> QED
    BY <1>7, <2>1, <2>2 DEF Interrupt
<1> QED
  BY <1>1, <1>2, <1>3, <1>4, <1>5, <1>6, <1>7 DEF RunsNext, Outcomes

\* Every run that ends has its callback queued in that very step, once, and
\* no later outcome replaces it: the kernel settles the row of a run exactly
\* once, whoever races to end the run.
THEOREM CallbackOnce == RunsSpec => TerminalOnce
<1>1. RunsInv /\ [RunsNext]_runVars => [\A r \in Runs : OnceStep(r)]_runVars
  BY EveryStepOnce
<1> QED
  BY <1>1, RunsInvariant, PTL DEF RunsSpec, TerminalOnce, OnceStep

---------------------------------------------------------------------------
(* The parts beside each other.                                            *)

LEMMA ExecutionSteps ==
  ASSUME [MCNext]_mcVars
  PROVE  [RunsNext]_runVars /\ [TasksNext]_taskVars /\ [JobsNext]_jobVars /\ [ExecNext]_execVars
<1>1. CASE MCNext
  BY <1>1 DEF MCNext
<1>2. CASE UNCHANGED mcVars
  BY <1>2 DEF mcVars, parts
<1>. QED  BY <1>1, <1>2

\* The composition runs every part as it is specified, so for any number of
\* runs, tasks, jobs and commands the registries of the host agree with what is
\* under way, no task is lost, every outcome is kept and reported once, and the
\* jobs implement futures.
THEOREM ExecutionStaysSafe ==
  MCSpec => /\ RunsSpec /\ TasksSpec /\ JobsSpec /\ ExecSpec
            /\ [](LiveIndex /\ EntriesOwned /\ SlotsHeld /\ NoBlackHole /\ RowsHonest)
            /\ [](WaitersKept) /\ TerminalOnce /\ OutcomeKept /\ ImplementsFutures
<1>1. MCInit => RunsInit /\ TasksInit /\ JobsInit /\ ExecInit
  BY DEF MCInit
<1>2. MCSpec => RunsSpec /\ TasksSpec /\ JobsSpec /\ ExecSpec
  BY <1>1, ExecutionSteps, PTL DEF MCSpec, RunsSpec, TasksSpec, JobsSpec, ExecSpec
<1>. QED
  BY <1>2, IndexIsLive, NothingLeaks, SlotsAreHeld, NoTaskIsLost, RowsAreHonest,
     WaitersAreKept, CallbackOnce, OutcomesAreKept, JobsImplementFutures, PTL
=============================================================================
