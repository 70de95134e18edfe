----------------------------- MODULE Heartbeats -----------------------------
(***************************************************************************)
(* Heartbeats of one agent and one session: the queue of system events,    *)
(* the wake that a finished command requests, with its coalescing timer    *)
(* and its retries, and HeartbeatRunner, which reads the events, lets a    *)
(* model triage them and puts a prompt into the inbound queue.             *)
(*                                                                         *)
(* A beat is one call of runHeartbeat.  The ticker does not wait for the   *)
(* beat before, and a wake does not either: beats overlap.  A beat is one  *)
(* of the session the agent's last route leads to.                         *)
(***************************************************************************)
EXTENDS Naturals, Sequences, FiniteSets

CONSTANTS
  Events,      \* calls of enqueueSystemEvent
  ContextOf,   \* contextKey of an event
  Beats,
  MaxEvents,   \* MAX_EVENTS
  MaxRetries,  \* MAX_RETRIES
  MaxObstacles \* bound: obstacles at one time

ASSUME HeartbeatAssumption ==
  /\ DOMAIN ContextOf = Events
  /\ MaxEvents \in Nat \ {0} /\ MaxRetries \in Nat /\ MaxObstacles \in Nat

VARIABLES
  events,     \* the session's queue
  fate,       \* what became of an event
  accepted,   \* the events the queue took, in order
  coalescing, \* the wake's timer is armed
  waking,     \* retries made by the dispatches that wait for their timer
  beat,       \* where a beat is
  peeked,     \* the events a beat has read
  missed,     \* events that came while a beat was in its triage
  obstacles   \* what keeps a beat from the session's events

queueVars == <<events, fate, accepted>>
beatVars  == <<queueVars, coalescing, waking, beat, peeked, missed, obstacles>>

BeatStage == {"idle", "reading", "triaging", "enqueuing"}
Fate == {"new", "queued", "refused", "evicted", "read", "unread"}

\* active: isSessionActive.  paused: the agent has no HeartbeatState, or a
\* paused one.  elsewhere: it has no last route, or that of another session.
\* homeless: getHomeDir finds none.  disabled: by a directive of HEARTBEAT.md.
Obstacle == {"active", "paused", "elsewhere", "homeless", "disabled"}

Clear(of) == obstacles \cap of = {}

HeartbeatInit ==
  /\ events = <<>> /\ fate = [e \in Events |-> "new"] /\ accepted = <<>>
  /\ coalescing = FALSE /\ waking = {}
  /\ beat = [b \in Beats |-> "idle"] /\ peeked = [b \in Beats |-> {}]
  /\ missed = {} /\ obstacles = {"elsewhere"}

Queued == {events[i] : i \in 1..Len(events)}
Idle(b) == beat[b] = "idle"

---------------------------------------------------------------------------
(* System events and wakes.                                                *)

\* Variant: the queue is cut when it is already too long.
FullLater == Len(events) > MaxEvents

\* One more event makes the queue too long.
Full == Len(events) = MaxEvents

\* enqueueSystemEvent, and for an event that was queued requestHeartbeatNow:
\* the timer of the session is armed again.
PostEvent(e) ==
  /\ fate[e] = "new"
  /\ IF events # <<>> /\ ContextOf[e] = ContextOf[events[Len(events)]]
     THEN /\ fate' = [fate EXCEPT ![e] = "refused"]
          /\ UNCHANGED <<events, accepted, coalescing, missed>>
     ELSE /\ events' = IF Full THEN Append(Tail(events), e) ELSE Append(events, e)
          /\ fate' = [d \in Events |-> CASE d = e -> "queued"
                                         [] Full /\ d = Head(events) -> "evicted"
                                         [] OTHER -> fate[d]]
          /\ accepted' = Append(accepted, e)
          /\ coalescing' = TRUE
          /\ missed' = IF \E b \in Beats : beat[b] = "triaging" THEN missed \cup {e} ELSE missed
  /\ UNCHANGED <<waking, beat, peeked, obstacles>>

\* handleWake, for the given number of retries made; "skipped" is tried again.
\* A beat without a home dir ends at once, and is "ok".
HandleWake(n) ==
  \/ /\ ~Clear({"paused", "elsewhere", "active"})
     /\ waking' = (waking \ {n}) \cup (IF n < MaxRetries THEN {n + 1} ELSE {})
     /\ UNCHANGED beat
  \/ /\ Clear({"paused", "elsewhere", "active"})
     /\ \/ "homeless" \in obstacles /\ UNCHANGED beat
        \/ /\ "homeless" \notin obstacles
           /\ \E b \in Beats : Idle(b) /\ beat' = [beat EXCEPT ![b] = "reading"]
     /\ waking' = waking \ {n}

\* The coalescing timer.
WakeNow ==
  /\ coalescing /\ coalescing' = FALSE
  /\ HandleWake(0)
  /\ UNCHANGED <<queueVars, peeked, missed, obstacles>>

\* The timer of a retry.
WakeAgain ==
  /\ \E n \in waking : HandleWake(n)
  /\ UNCHANGED <<queueVars, coalescing, peeked, missed, obstacles>>

---------------------------------------------------------------------------
(* HeartbeatRunner.                                                        *)

\* tick, when the agent is due; nextRunAt moves only after the beat.  The route
\* and the home dir are those of now.  (A beat of another session leaves this
\* one alone.)
Tick(b) ==
  /\ Idle(b) /\ Clear({"paused", "elsewhere", "homeless"})
  /\ beat' = [beat EXCEPT ![b] = "reading"]
  /\ UNCHANGED <<queueVars, coalescing, waking, peeked, missed, obstacles>>

\* Variant: an empty file ends the beat, also when there are events.
FileReadOnly(b) ==
  /\ beat[b] = "reading"
  /\ \/ /\ beat' = [beat EXCEPT ![b] = "idle"]
        /\ UNCHANGED peeked
     \/ /\ Clear({"disabled", "active"})
        /\ beat' = [beat EXCEPT ![b] = "triaging"]
        /\ peeked' = [peeked EXCEPT ![b] = Queued]
  /\ UNCHANGED <<queueVars, coalescing, waking, missed, obstacles>>

\* Variant: the events are drained where they are looked at.
FileReadDrains(b) ==
  /\ beat[b] = "reading"
  /\ LET go == Clear({"disabled", "active"}) IN
     /\ beat' = [beat EXCEPT ![b] = IF go THEN "triaging" ELSE "idle"]
     /\ peeked' = [peeked EXCEPT ![b] = IF go THEN Queued ELSE {}]
     /\ fate' = [e \in Events |-> IF e \notin Queued THEN fate[e]
                                  ELSE IF go THEN "read" ELSE "unread"]
  /\ events' = <<>>
  /\ UNCHANGED <<accepted, coalescing, waking, missed, obstacles>>

\* HEARTBEAT.md was read.  Its directive, a session that is active, or nothing
\* to say end the beat and leave the events where they are.
FileRead(b) ==
  /\ beat[b] = "reading"
  /\ \/ /\ events = <<>> \/ ~Clear({"disabled", "active"})
        /\ beat' = [beat EXCEPT ![b] = "idle"]
        /\ UNCHANGED peeked
     \/ /\ Clear({"disabled", "active"})
        /\ beat' = [beat EXCEPT ![b] = "triaging"]
        /\ peeked' = [peeked EXCEPT ![b] = Queued]
  /\ UNCHANGED <<queueVars, coalescing, waking, missed, obstacles>>

\* The triage answers, fails or times out: the queue is emptied, then the
\* prompt is put into the inbound queue unless nothing is actionable.
Triaged(b) ==
  /\ beat[b] = "triaging"
  /\ events' = <<>>
  /\ fate' = [e \in Events |-> IF e \notin Queued THEN fate[e]
                               ELSE IF e \in peeked[b] THEN "read" ELSE "unread"]
  /\ peeked' = [peeked EXCEPT ![b] = {}]
  /\ \E next \in {"idle", "enqueuing"} : beat' = [beat EXCEPT ![b] = next]
  /\ UNCHANGED <<accepted, coalescing, waking, missed, obstacles>>

\* enqueueInbound settles; an error is logged.
Enqueued(b) ==
  /\ beat[b] = "enqueuing" /\ beat' = [beat EXCEPT ![b] = "idle"]
  /\ UNCHANGED <<queueVars, coalescing, waking, peeked, missed, obstacles>>

\* A prompt of the session starts, the agent is paused or leaves the
\* configuration, it gets a message from elsewhere, somebody writes the
\* directive into its HEARTBEAT.md.
Obstruct(o) ==
  /\ obstacles' = obstacles \cup {o}
  /\ Cardinality(obstacles') <= MaxObstacles
  /\ UNCHANGED <<queueVars, coalescing, waking, beat, peeked, missed>>

\* And the other way round: the first message of the session makes it the one
\* the last route leads to.
Unblock(o) ==
  /\ o \in obstacles /\ obstacles' = obstacles \ {o}
  /\ UNCHANGED <<queueVars, coalescing, waking, beat, peeked, missed>>

---------------------------------------------------------------------------
HeartbeatNext ==
  \/ \E e \in Events : PostEvent(e)
  \/ WakeNow \/ WakeAgain
  \/ \E o \in Obstacle : Obstruct(o) \/ Unblock(o)
  \/ \E b \in Beats : Tick(b) \/ FileRead(b) \/ Triaged(b) \/ Enqueued(b)

HeartbeatSpec == HeartbeatInit /\ [][HeartbeatNext]_beatVars

\* The ticker ticks, files are read, and a triage has a timeout.
HeartbeatFairness ==
  \A b \in Beats :
    /\ WF_beatVars(Tick(b)) /\ WF_beatVars(FileRead(b))
    /\ WF_beatVars(Triaged(b)) /\ WF_beatVars(Enqueued(b))

---------------------------------------------------------------------------
(* Properties.                                                             *)

HeartbeatTypeOK ==
  /\ events \in Seq(Events) /\ Len(events) <= MaxEvents
  /\ fate \in [Events -> Fate] /\ accepted \in Seq(Events)
  /\ coalescing \in BOOLEAN /\ waking \subseteq 1..MaxRetries
  /\ beat \in [Beats -> BeatStage] /\ peeked \in [Beats -> SUBSET Events]
  /\ missed \subseteq Events /\ obstacles \subseteq Obstacle

\* The queue holds the events that are neither read nor lost.  There are two
\* ways to lose one.  Unread: a heartbeat was in its triage when the event came,
\* and the end of a triage empties the queue, also of what it did not read.
\* Evicted: the queue took MaxEvents events after it.
EventsAccounted ==
  /\ \A e \in Events : fate[e] = "queued" <=> e \in Queued
  /\ \A e \in Events : fate[e] = "unread" => e \in missed
  /\ \A i \in DOMAIN accepted :
       fate[accepted[i]] = "evicted" => Len(accepted) - i >= MaxEvents

\* An event does not stay in the queue unless something keeps the beats away
\* from it now and again: the session is active when they look, the agent's last
\* route is that of another session, or it is paused, homeless or disabled.
\* (While one of these lasts, the code does leave the event there.)
EventsServed ==
  \A e \in Events : fate[e] = "queued" ~> fate[e] # "queued" \/ obstacles # {}
=============================================================================
