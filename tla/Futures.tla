------------------------------ MODULE Futures ------------------------------
(***************************************************************************)
(* What a registry of jobs promises to those who wait: a job gets one      *)
(* outcome, all who wait for it get that outcome in the step that decides  *)
(* it, who asks later gets it at once, and who gives up gets nothing.  An  *)
(* outcome may be forgotten; no answer is ever taken back.                 *)
(***************************************************************************)
CONSTANTS Jobs, Waiters, Awaited, Outcomes

VARIABLES
  outcome,  \* the outcome of a job, "none" while there is none
  answer    \* what a waiter was told: "unasked", "asked", "null", an outcome

futureVars == <<outcome, answer>>

FuturesInit ==
  /\ outcome = [j \in Jobs |-> "none"]
  /\ answer = [w \in Waiters |-> "unasked"]

Ask(w) ==
  LET o == outcome[Awaited[w]] IN
  /\ answer[w] = "unasked"
  /\ answer' = [answer EXCEPT ![w] = IF o = "none" THEN "asked" ELSE o]
  /\ UNCHANGED outcome

\* A waiter whose signal is aborted before it asks is not kept waiting.
GiveUp(w) ==
  /\ answer[w] \in {"unasked", "asked"}
  /\ answer' = [answer EXCEPT ![w] = "null"]
  /\ UNCHANGED outcome

Decide(j, o) ==
  /\ outcome[j] = "none"
  /\ outcome' = [outcome EXCEPT ![j] = o]
  /\ answer' = [w \in Waiters |-> IF Awaited[w] = j /\ answer[w] = "asked"
                                  THEN o ELSE answer[w]]

Forget(j) ==
  /\ outcome[j] # "none"
  /\ outcome' = [outcome EXCEPT ![j] = "none"]
  /\ UNCHANGED answer

FuturesNext ==
  \/ \E w \in Waiters : Ask(w) \/ GiveUp(w)
  \/ \E j \in Jobs : Forget(j) \/ \E o \in Outcomes : Decide(j, o)

FuturesSpec == FuturesInit /\ [][FuturesNext]_futureVars

\* No answer is taken back or changed once it was given.
AnswersFinal ==
  [][\A w \in Waiters : answer[w] \notin {"unasked", "asked"}
                        => answer'[w] = answer[w]]_futureVars
=============================================================================
