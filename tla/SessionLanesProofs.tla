------------------------ MODULE SessionLanesProofs ------------------------
(***************************************************************************)
(* OneServed is an invariant of the abstract queue for every set of items  *)
(* and sessions; what refines LanesSpec inherits it.  It is inductive with *)
(* the types: an item is served only when nobody holds the lane, which     *)
(* then is nobody else's, and the lane is left only when its holder is no  *)
(* longer served.                                                          *)
(***************************************************************************)
EXTENDS SessionLanes, TLAPS

LanesInv == LanesTypeOK /\ OneServed

LEMMA LanesInitInv ==
  ASSUME LanesAssumption
  PROVE  LanesInit => LanesInv
BY DEF LanesAssumption, LanesInit, LanesInv, LanesTypeOK, OneServed

LEMMA LanesNextInv ==
  ASSUME LanesAssumption
  PROVE  LanesInv /\ [LanesNext]_laneVars => LanesInv'
<1> SUFFICES ASSUME LanesInv, [LanesNext]_laneVars PROVE LanesInv'
  OBVIOUS
<1> USE DEF LanesAssumption, LanesInv, LanesTypeOK, OneServed
<1>1. ASSUME NEW i \in Items, Offered(i) PROVE LanesInv'
  BY <1>1 DEF Offered
<1>2. ASSUME NEW i \in Items, Served(i) PROVE LanesInv'
  BY <1>2 DEF Served
<1>3. ASSUME NEW i \in Items, NEW to \in {"waiting", "ended"}, Finished(i, to)
      PROVE  LanesInv'
  BY <1>3 DEF Finished
<1>4. ASSUME NEW ids \in SUBSET Items, GivenUp(ids) PROVE LanesInv'
  BY <1>4 DEF GivenUp
<1>5. ASSUME NEW s \in Sessions, Left(s) PROVE LanesInv'
  BY <1>5 DEF Left
<1>6. CASE Died
  BY <1>6 DEF Died
<1>7. CASE Revived
  BY <1>7 DEF Revived
<1>8. CASE UNCHANGED laneVars
  BY <1>8 DEF laneVars
<1> QED
  BY <1>1, <1>2, <1>3, <1>4, <1>5, <1>6, <1>7, <1>8 DEF LanesNext

\* In a living process one item of a session is served at a time, by the
\* holder of the lane of the session.
THEOREM OneIsServed ==
  ASSUME LanesAssumption
  PROVE  LanesSpec => []OneServed
<1>1. LanesInv => OneServed
  BY DEF LanesInv
<1> QED
  BY <1>1, LanesInitInv, LanesNextInv, PTL DEF LanesSpec
===========================================================================
