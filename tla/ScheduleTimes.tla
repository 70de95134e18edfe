--------------------------- MODULE ScheduleTimes ---------------------------
(***************************************************************************)
(* When a schedule runs next: computeNextRun of the reminders and          *)
(* calculateNextRun of the cron scheduler, which are the same function.    *)
(* Times are whole milliseconds.  A time that may not exist is a set with  *)
(* at most one member.  The times of a cron expression are those of the    *)
(* external parser: any set of times.                                      *)
(***************************************************************************)
EXTENDS Integers

At(t)            == [kind |-> "at", at |-> t]
Every(p, anchor) == [kind |-> "every", period |-> p, anchor |-> anchor]
NoAnchor         == -1
Cron(times)      == [kind |-> "cron", times |-> times]

\* Math.max(1, Math.floor((elapsed + everyMs) / everyMs)) steps after the anchor.
NextEvery(p, anchor, now) ==
  IF now < anchor THEN anchor ELSE anchor + ((now - anchor + p) \div p) * p

NextRun(s, now) ==
  CASE s.kind = "at"    -> {t \in {s.at} : t > now}
    [] s.kind = "every" -> {NextEvery(s.period, IF s.anchor = NoAnchor THEN now ELSE s.anchor, now)}
    [] s.kind = "cron"  -> {t \in s.times : t > now /\ \A u \in s.times : u > now => t <= u}
=============================================================================
