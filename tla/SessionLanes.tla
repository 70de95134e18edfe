--------------------------- MODULE SessionLanes ---------------------------
(***************************************************************************)
(* What the kernel promises of its queue, without pump, runs or timers:    *)
(* a session serves one item at a time; an item is served at most once at  *)
(* a time and never again once it ended; nothing is being served without   *)
(* holding its session, except in the table a dead process left behind.    *)
(***************************************************************************)
CONSTANTS Items, Sessions, SessionOf, Nobody

\* What a theorem about LanesSpec assumes.
LanesAssumption ==
  /\ SessionOf \in [Items -> Sessions]
  /\ Nobody \notin Items

VARIABLES
  row,      \* "absent", "waiting", "served", "ended"
  holder,   \* the item that holds the lane of a session
  alive     \* the process runs

laneVars == <<row, holder, alive>>

LanesInit ==
  /\ row    = [i \in Items |-> "absent"]
  /\ holder = [s \in Sessions |-> Nobody]
  /\ alive  = TRUE

\* A message (or a continuation) is queued; nothing else moves.
Offered(i) ==
  /\ alive /\ row[i] = "absent"
  /\ row' = [row EXCEPT ![i] = "waiting"]
  /\ UNCHANGED <<holder, alive>>

Served(i) ==
  /\ alive /\ row[i] = "waiting" /\ holder[SessionOf[i]] = Nobody
  /\ row'    = [row EXCEPT ![i] = "served"]
  /\ holder' = [holder EXCEPT ![SessionOf[i]] = i]
  /\ UNCHANGED alive

\* Served to an end, or to another attempt.  The lane is still held.
Finished(i, to) ==
  /\ alive /\ row[i] = "served"
  /\ row' = [row EXCEPT ![i] = to]
  /\ UNCHANGED <<holder, alive>>

\* The session, or the oldest of its waiting items, is given up.
GivenUp(ids) ==
  /\ alive
  /\ \A i \in ids : row[i] \in {"waiting", "served"}
  /\ \A i, j \in ids : SessionOf[i] = SessionOf[j]
  /\ row' = [i \in Items |-> IF i \in ids THEN "ended" ELSE row[i]]
  /\ UNCHANGED <<holder, alive>>

Left(s) ==
  /\ alive /\ holder[s] # Nobody
  /\ row[holder[s]] # "served"
  /\ holder' = [holder EXCEPT ![s] = Nobody]
  /\ UNCHANGED <<row, alive>>

Died ==
  /\ alive
  /\ alive'  = FALSE
  /\ holder' = [s \in Sessions |-> Nobody]
  /\ UNCHANGED row

Revived ==
  /\ ~alive
  /\ alive' = TRUE
  /\ row' = [i \in Items |-> IF row[i] = "served" THEN "ended" ELSE row[i]]
  /\ UNCHANGED holder

LanesNext ==
  \/ \E i \in Items : Offered(i) \/ Served(i) \/ \E to \in {"waiting", "ended"} : Finished(i, to)
  \/ \E ids \in SUBSET Items : GivenUp(ids)
  \/ \E s \in Sessions : Left(s)
  \/ Died \/ Revived

LanesSpec == LanesInit /\ [][LanesNext]_laneVars

---------------------------------------------------------------------------
LanesTypeOK ==
  /\ row    \in [Items -> {"absent", "waiting", "served", "ended"}]
  /\ holder \in [Sessions -> Items \cup {Nobody}]
  /\ alive  \in BOOLEAN

\* One item of a session is served at a time, and by the holder of its lane.
OneServed ==
  alive => \A i \in Items : row[i] = "served" => holder[SessionOf[i]] = i
===========================================================================
