---------------------------- MODULE CronTimers ----------------------------
(***************************************************************************)
(* The CronScheduler: a table of jobs, a table of timers, and handlers     *)
(* that are awaited by the callback of a timer.  The callback keeps the    *)
(* job object it was made for: after the handler it schedules that object, *)
(* which the table of jobs may no longer hold.                             *)
(***************************************************************************)
EXTENDS Naturals

CONSTANTS
  CronIds,     \* job ids
  CronJobs,    \* job objects: those that are added, and copies update makes
  CronIdOf,    \* id of a job object
  Recurring,   \* job objects whose schedule is not "at"
  Unplannable, \* those no next run is found for: a cron expression that does
               \* not parse, no known kind of schedule, an "at" without a time
  NoJob,
  MaxHandlers  \* bound: handlers of one object under way

ASSUME CronAssumption ==
  /\ CronIdOf \in [CronJobs -> CronIds] /\ Recurring \subseteq CronJobs
  /\ Unplannable \subseteq CronJobs
  /\ NoJob \notin CronJobs /\ MaxHandlers \in Nat

VARIABLES
  jobs,      \* the job object of an id
  timers,    \* the job object whose timer the scheduler has for an id
  armed,     \* how many timers of a job object are armed
  enabled,   \* job objects that are enabled
  handling,  \* how many handlers of a job object are under way
  fresh,     \* job objects not made yet
  stopped    \* ids nothing was scheduled for since stop was called

cronVars == <<jobs, timers, armed, enabled, handling, fresh, stopped>>

CronInit ==
  /\ jobs = [i \in CronIds |-> NoJob] /\ timers = jobs
  /\ armed = [o \in CronJobs |-> 0] /\ handling = armed
  /\ enabled = {} /\ fresh = CronJobs /\ stopped = {}

\* clearTimeout of the timer the scheduler has for an id.
Cleared(a, i) == [o \in CronJobs |-> IF o = timers[i] THEN a[o] - 1 ELSE a[o]]

\* scheduleJob, when `on' is the set of enabled objects.  An "at" in the past
\* is disabled.  An object without a next run stays enabled and gets no timer.
ScheduleJob(o, on) ==
  LET i == CronIdOf[o] IN
  \/ /\ o \in on \ Unplannable
     /\ armed' = [Cleared(armed, i) EXCEPT ![o] = @ + 1]
     /\ timers' = [timers EXCEPT ![i] = o]
     /\ enabled' = on
  \/ /\ o \notin on \/ o \notin Recurring \/ o \in Unplannable
     /\ armed' = Cleared(armed, i)
     /\ timers' = [timers EXCEPT ![i] = NoJob]
     /\ enabled' = IF o \in Unplannable THEN on ELSE on \ {o}

\* add, which removes the job that has the id.
AddCronJob(o) ==
  LET i == CronIdOf[o] IN
  /\ o \in fresh /\ fresh' = fresh \ {o}
  /\ jobs' = [jobs EXCEPT ![i] = o]
  /\ \/ ScheduleJob(o, enabled \cup {o})
     \/ jobs[i] # NoJob /\ ScheduleJob(o, enabled)
     \/ jobs[i] = NoJob /\ UNCHANGED <<timers, armed, enabled>>
  /\ stopped' = stopped \ {i}
  /\ UNCHANGED handling

\* update makes a copy with other values and schedules it.
UpdateCronJob(o) ==
  LET i == CronIdOf[o] IN
  /\ jobs[i] # NoJob
  /\ o \in fresh /\ fresh' = fresh \ {o}
  /\ jobs' = [jobs EXCEPT ![i] = o]
  /\ ScheduleJob(o, enabled \cup {o}) \/ ScheduleJob(o, enabled)
  /\ stopped' = stopped \ {i}
  /\ UNCHANGED handling

RemoveCronJob(i) ==
  /\ jobs[i] # NoJob
  /\ jobs' = [jobs EXCEPT ![i] = NoJob]
  /\ armed' = Cleared(armed, i)
  /\ timers' = [timers EXCEPT ![i] = NoJob]
  /\ UNCHANGED <<enabled, handling, fresh, stopped>>

\* The callback of a timer, up to its await: the entry of the id is deleted.
FireCronJob(o) ==
  /\ armed[o] > 0 /\ handling[o] < MaxHandlers
  /\ armed' = [armed EXCEPT ![o] = @ - 1]
  /\ timers' = [timers EXCEPT ![CronIdOf[o]] = NoJob]
  /\ handling' = [handling EXCEPT ![o] = @ + 1]
  /\ UNCHANGED <<jobs, enabled, fresh, stopped>>

\* The callback of a timer that only waited for MAX_TIMEOUT.
RearmCronJob(o) ==
  /\ armed[o] > 0
  /\ ScheduleJob(o, enabled)
  /\ UNCHANGED <<jobs, handling, fresh, stopped>>

\* Variant: a handler that throws is not followed by the next run.
HandlerThrows(o) ==
  /\ handling[o] > 0
  /\ handling' = [handling EXCEPT ![o] = @ - 1]
  /\ \/ /\ o \in Recurring
        /\ ScheduleJob(o, enabled) \/ UNCHANGED <<timers, armed, enabled>>
     \/ /\ o \notin Recurring
        /\ enabled' = enabled \ {o}
        /\ UNCHANGED <<timers, armed>>
  /\ UNCHANGED <<jobs, fresh, stopped>>

\* The handler settled, or threw, which is logged.
HandlerEnds(o) ==
  /\ handling[o] > 0
  /\ handling' = [handling EXCEPT ![o] = @ - 1]
  /\ \/ o \in Recurring /\ ScheduleJob(o, enabled)
     \/ /\ o \notin Recurring
        /\ enabled' = enabled \ {o}
        /\ UNCHANGED <<timers, armed>>
  /\ UNCHANGED <<jobs, fresh, stopped>>

Scheduled(i) == jobs[i] # NoJob /\ jobs[i] \in enabled

\* start schedules every enabled job; `past' are those whose "at" is over.
StartCron ==
  \E past \in SUBSET (enabled \ (Recurring \cup Unplannable)) :
    LET now == {i \in CronIds : Scheduled(i)}
        on  == {jobs[i] : i \in now} \ (past \cup Unplannable) IN
    /\ past \subseteq {jobs[i] : i \in now}
    /\ timers' = [i \in CronIds |-> IF i \notin now THEN timers[i]
                                   ELSE IF jobs[i] \in on THEN jobs[i] ELSE NoJob]
    /\ armed' = [o \in CronJobs |->
                   armed[o] + (IF o \in on THEN 1 ELSE 0)
                   - (IF CronIdOf[o] \in now /\ timers[CronIdOf[o]] = o THEN 1 ELSE 0)]
    /\ enabled' = enabled \ past
    /\ stopped' = {}
    /\ UNCHANGED <<jobs, handling, fresh>>

StopCron ==
  /\ timers' = [i \in CronIds |-> NoJob]
  /\ armed' = [o \in CronJobs |-> IF timers[CronIdOf[o]] = o THEN armed[o] - 1 ELSE armed[o]]
  /\ stopped' = CronIds
  /\ UNCHANGED <<jobs, enabled, handling, fresh>>

---------------------------------------------------------------------------
CronNext ==
  \/ \E o \in CronJobs :
       \/ AddCronJob(o) \/ UpdateCronJob(o)
       \/ FireCronJob(o) \/ RearmCronJob(o) \/ HandlerEnds(o)
  \/ \E i \in CronIds : RemoveCronJob(i)
  \/ StartCron \/ StopCron

CronSpec == CronInit /\ [][CronNext]_cronVars

---------------------------------------------------------------------------
(* Properties.                                                             *)

CronTypeOK ==
  /\ jobs \in [CronIds -> CronJobs \cup {NoJob}]
  /\ timers \in [CronIds -> CronJobs \cup {NoJob}]
  /\ armed \in [CronJobs -> Nat]
  /\ handling \in [CronJobs -> 0..MaxHandlers]
  /\ enabled \subseteq CronJobs /\ fresh \subseteq CronJobs
  /\ stopped \subseteq CronIds

\* Every armed timer is one the table knows, so there is one for an id and stop
\* and remove can clear it, although callbacks of replaced objects delete and
\* write the entries of their id.
TimersTracked ==
  \A o \in CronJobs : armed[o] = (IF timers[CronIdOf[o]] = o THEN 1 ELSE 0)

\* A recurring job that is enabled and has a next run goes on: its id has a
\* timer, or a handler that will set one, whatever is updated or throws in a
\* handler, also when the job comes after one that never had a next run.  (The
\* timer may be that of an object that was replaced during its own handler;
\* an object removed during its handler gets a timer again, for no job.)
CronGoesOn ==
  \A i \in CronIds :
    i \notin stopped /\ Scheduled(i) /\ jobs[i] \in Recurring \ Unplannable
    => \/ timers[i] # NoJob
       \/ \E o \in CronJobs : CronIdOf[o] = i /\ handling[o] > 0

CronAlive == TimersTracked /\ CronGoesOn
=============================================================================
