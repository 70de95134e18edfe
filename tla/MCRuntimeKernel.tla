-------------------------- MODULE MCRuntimeKernel --------------------------
(* The kernel on two or three messages and a continuation.  A cfg chooses  *)
(* the messages, what they are, the mode and one of these assignments.     *)
EXTENDS RuntimeKernel, TLC

CONSTANTS m1, m2, m3, c1, s1, s2

OneSession  == [i \in Items |-> s1]
\* m3 has a session of its own.
TwoSessions == [i \in Items |-> IF i = m3 THEN s2 ELSE s1]
\* m3 is m1 in another chat: another dedup key, the same message id.
OwnId       == [i \in Items |-> i]
SharedId    == [i \in Items |-> IF i = m3 THEN m1 ELSE i]
\* m1 is the eldest; m2 and m3 arrived in one tick.
Stamps      == [i \in Items |-> IF i = m1 THEN 1 ELSE 2]
ThreeStamps == m1 :> 1 @@ m2 :> 2 @@ m3 :> 3
============================================================================
