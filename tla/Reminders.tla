----------------------------- MODULE Reminders -----------------------------
(***************************************************************************)
(* Reminders: the table of reminders with the statements of its            *)
(* repository, the commands that create, update, snooze and cancel one,    *)
(* and the ReminderRunner, whose tick reads a batch of due rows and then   *)
(* works through these copies, awaiting the job of each before it looks at *)
(* the next.  Commands are handled while a tick awaits a job.              *)
(***************************************************************************)
EXTENDS ScheduleTimes, Sequences, FiniteSets

CONSTANTS
  Reminders,   \* ids
  Delays,      \* durations in commands: of a snooze, "in" and "every"
  Anchored,    \* whether "every" may have an anchor: a set of booleans
  BatchSize,   \* ReminderRunner.batchSize
  Horizon,     \* bound: the last time of the clock
  MaxEdits,    \* bound: commands that write a row
  MaxKills     \* bound: how often the process dies

ASSUME RemindersAssumption ==
  /\ IsFiniteSet(Reminders)
  /\ Delays \subseteq Nat \ {0} /\ Anchored \subseteq BOOLEAN /\ BatchSize \in Nat \ {0}
  /\ Horizon \in Nat \ {0} /\ MaxEdits \in Nat /\ MaxKills \in Nat

VARIABLES
  clock,
  row,       \* the table
  ticking,   \* ReminderRunner.running
  batch,     \* copies of the due rows the tick has not looked at yet
  firing,    \* the tick awaits the job of a reminder
  fired,     \* the last firing: scheduled time, and message
  edits, kills

reminderVars == <<clock, row, ticking, batch, firing, fired, edits, kills>>

Never   == 0
NoRow   == [enabled |-> FALSE, next |-> Never, message |-> 0, schedule |-> At(Never)]
Exists(i) == row[i].message > 0
Due(i)  == row[i].enabled /\ row[i].next # Never /\ row[i].next <= clock

RemindersInit ==
  /\ clock = 1
  /\ row = [i \in Reminders |-> NoRow]
  /\ ticking = FALSE /\ batch = <<>> /\ firing = FALSE
  /\ fired = [i \in Reminders |-> [at |-> Never, message |-> 0]]
  /\ edits = 0 /\ kills = 0

---------------------------------------------------------------------------
(* Commands.  A message is the number of the command that wrote the row.   *)

\* What can be asked for now: once, or repeatedly, with this moment or, by the
\* tool of the agent, no fixed moment as the anchor.
Asked ==
  {At(clock + d) : d \in Delays}
  \cup {Every(d, IF a THEN clock ELSE NoAnchor) : d \in Delays, a \in Anchored}

Edit(i, new) ==
  /\ edits < MaxEdits /\ edits' = edits + 1
  /\ row' = [row EXCEPT ![i] = new]
  /\ UNCHANGED <<clock, ticking, batch, firing, fired, kills>>

\* create, or updateBySession of a row: a schedule without a future is refused
\* by create and disables a row by update; no command asks for one here.
WriteReminder(i) ==
  \E s \in Asked : \E t \in NextRun(s, clock) :
    Edit(i, [enabled |-> TRUE, next |-> t, message |-> edits + 1, schedule |-> s])

\* updateNextRunBySession enables the row, also when it was cancelled.
SnoozeReminder(i) ==
  /\ Exists(i)
  /\ \E d \in Delays :
       Edit(i, [row[i] EXCEPT !.enabled = TRUE, !.next = clock + d])

CancelReminder(i) ==
  /\ row[i].enabled
  /\ row' = [row EXCEPT ![i].enabled = FALSE]
  /\ UNCHANGED <<clock, ticking, batch, firing, fired, edits, kills>>

---------------------------------------------------------------------------
(* The runner.                                                             *)

Copy(i) == [id |-> i, next |-> row[i].next, message |-> row[i].message,
            schedule |-> row[i].schedule]

Earliest(q) == \A a, b \in 1..Len(q) : a < b => row[q[a]].next <= row[q[b]].next

\* Variant: only rows that become due at this moment.
DueNowBatches ==
  LET D == {i \in Reminders : row[i].enabled /\ row[i].next = clock} IN
  {q \in [1..Cardinality(D) -> D] : \A a, b \in DOMAIN q : q[a] = q[b] => a = b}

\* listDue: the enabled rows that are due, by next_run_at, up to the limit.
DueBatches ==
  LET D == {i \in Reminders : Due(i)}
      n == IF Cardinality(D) < BatchSize THEN Cardinality(D) ELSE BatchSize
      listed(q) == {q[k] : k \in 1..n} IN
  {q \in [1..n -> D] :
     /\ Cardinality(listed(q)) = n /\ Earliest(q)
     /\ \A i \in listed(q), j \in D \ listed(q) : row[i].next <= row[j].next}

TickBegin ==
  /\ ~ticking
  /\ \E i \in Reminders : Due(i)
  /\ ticking' = TRUE
  /\ \E q \in DueBatches : batch' = [k \in DOMAIN q |-> Copy(q[k])]
  /\ UNCHANGED <<clock, row, firing, fired, edits, kills>>

\* Variant: the row is claimed by its id alone.
MarkFiredById(c, t, keep) ==
  /\ row[c.id].enabled
  /\ row' = [row EXCEPT ![c.id].next = t, ![c.id].enabled = keep]

\* markFired: WHERE enabled = 1 AND next_run_at is what the copy says.
MarkFired(c, t, keep) ==
  /\ row[c.id].enabled /\ row[c.id].next = c.next
  /\ row' = [row EXCEPT ![c.id].next = t, ![c.id].enabled = keep]

\* The schedule of the copy, after the time that is due.  "at" runs once.
NextOf(c) == IF c.schedule.kind = "at" THEN {} ELSE NextRun(c.schedule, c.next + 1)

Claimed(c) ==
  IF NextOf(c) = {} THEN MarkFired(c, Never, FALSE)
  ELSE \E t \in NextOf(c) : MarkFired(c, t, TRUE)

\* One copy of the batch: the row is advanced and its job created, or skipped
\* when markFired changed nothing.
TickItem ==
  /\ ticking /\ ~firing /\ batch # <<>>
  /\ batch' = Tail(batch)
  /\ LET c == Head(batch) IN
     \/ /\ Claimed(c)
        /\ firing' = TRUE
        /\ fired' = [fired EXCEPT ![c.id] = [at |-> c.next, message |-> c.message]]
     \/ /\ ~(row[c.id].enabled /\ row[c.id].next = c.next)
        /\ UNCHANGED <<row, firing, fired>>
  /\ UNCHANGED <<clock, ticking, edits, kills>>

\* The job was run, or its run rejected, which the tick logs.
JobReturns ==
  /\ firing
  /\ firing' = FALSE
  /\ UNCHANGED <<clock, row, ticking, batch, fired, edits, kills>>

TickEnd ==
  /\ ticking /\ ~firing /\ batch = <<>>
  /\ ticking' = FALSE
  /\ UNCHANGED <<clock, row, batch, firing, fired, edits, kills>>

ClockTick ==
  /\ clock < Horizon
  /\ clock' = clock + 1
  /\ UNCHANGED <<row, ticking, batch, firing, fired, edits, kills>>

\* The process dies, and starts again: only the table is left.
KillHost ==
  /\ kills < MaxKills
  /\ kills' = kills + 1
  /\ ticking' = FALSE /\ batch' = <<>> /\ firing' = FALSE
  /\ UNCHANGED <<clock, row, fired, edits>>

RemindersNext ==
  \/ \E i \in Reminders : WriteReminder(i) \/ SnoozeReminder(i) \/ CancelReminder(i)
  \/ TickBegin \/ TickItem \/ JobReturns \/ TickEnd
  \/ ClockTick \/ KillHost

RemindersSpec == RemindersInit /\ [][RemindersNext]_reminderVars

\* setInterval calls tick; the job of a reminder ends as every prompt does.
RemindersFairness ==
  WF_reminderVars(TickBegin) /\ WF_reminderVars(TickItem)
  /\ WF_reminderVars(JobReturns) /\ WF_reminderVars(TickEnd)

---------------------------------------------------------------------------
(* Properties.                                                             *)

RemindersTypeOK ==
  /\ clock \in 1..Horizon
  /\ \A i \in Reminders :
       /\ row[i].enabled \in BOOLEAN /\ row[i].next \in Nat
       /\ row[i].message \in 0..MaxEdits
       /\ fired[i].at \in 0..Horizon /\ fired[i].message \in 0..MaxEdits
       /\ row[i].enabled => row[i].next # Never
  /\ ticking \in BOOLEAN /\ firing \in BOOLEAN
  /\ Len(batch) <= BatchSize
  /\ firing \/ batch # <<>> => ticking
  /\ edits \in 0..MaxEdits /\ kills \in 0..MaxKills

\* What fires is what the table asks for at that moment, although the tick
\* works on copies it made before it awaited other jobs: an enabled row that is
\* due, with its current message, and never twice for a time, whatever was
\* cancelled, snoozed or rewritten meanwhile and whenever the process died.
FiredAsAsked ==
  [][\A i \in Reminders : fired'[i] # fired[i] =>
       /\ Due(i)
       /\ fired'[i] = [at |-> row[i].next, message |-> row[i].message]
       /\ fired'[i].at > fired[i].at]_reminderVars

\* A reminder that is due is fired, as often as it must to catch up with the
\* clock, or changed by a command: no full batch, no failing job and no crash in
\* the middle of a batch makes it wait for ever.
DueFires == \A i \in Reminders : Due(i) ~> ~Due(i)
=============================================================================
