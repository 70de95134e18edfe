----------------------------- MODULE AcpBridge -----------------------------
(***************************************************************************)
(* The ACP bridge: an editor sends prompts and cancel notifications for    *)
(* its sessions; AcpGatewayAgent runs each prompt as a stream of events of *)
(* the runtime adapter and answers the request when its stream ends, fails *)
(* or is cancelled.  pendingPrompts and the session store are keyed by the *)
(* session, not by the prompt.                                             *)
(*                                                                         *)
(* The store knows when a session was last touched; here any idle session  *)
(* may be the oldest, and may have been idle for long enough.  Keys,       *)
(* labels and texts are left out, and so are the updates a stream sends    *)
(* and the limit on how often a session may be opened.                     *)
(***************************************************************************)
EXTENDS Naturals, FiniteSets

CONSTANTS
  Prompts, NoPrompt,
  BridgeSessions,
  BridgeSessionOf,    \* the session a prompt is for
  MaxBridgeSessions,  \* maxSessions of the store
  MaxCancels          \* bound: cancel notifications

ASSUME BridgeAssumption ==
  /\ NoPrompt \notin Prompts
  /\ BridgeSessionOf \in [Prompts -> BridgeSessions]
  /\ MaxBridgeSessions \in Nat \ {0} /\ MaxCancels \in Nat

VARIABLES
  stored,          \* sessions of the store
  activeBridgeRun, \* activeRunId, and with it abortController, by session
  pendingPrompt,   \* pendingPrompts, by session
  answer,          \* of the request, by prompt
  stream,          \* runAdapterStream: open, left by a break, or over
  cancelling,      \* sessions with a cancel that waits for abortSession
  cancels,
  overlapped       \* sessions where two streams were under way at once

storeVars  == <<stored, activeBridgeRun>>
bridgeVars == <<storeVars, pendingPrompt, answer, stream,
                cancelling, cancels, overlapped>>

Settled == {"done", "failed", "cancelled"}

BridgeInit ==
  /\ stored = {} /\ activeBridgeRun = [s \in BridgeSessions |-> NoPrompt]
  /\ pendingPrompt = [s \in BridgeSessions |-> NoPrompt]
  /\ answer = [p \in Prompts |-> "none"]
  /\ stream = [p \in Prompts |-> "none"]
  /\ cancelling = {} /\ cancels = 0 /\ overlapped = {}

---------------------------------------------------------------------------
(* The session store.                                                      *)

IdleSessions == {s \in stored : activeBridgeRun[s] = NoPrompt}

\* createSession, of newSession and loadSession: idle sessions are reaped, one
\* more is oldest when the store is full, and when none is idle it throws.
OpenSession(s) ==
  /\ s \notin stored
  /\ \E reaped \in SUBSET IdleSessions :
       LET left == stored \ reaped IN
       \/ /\ Cardinality(left) < MaxBridgeSessions
          /\ stored' = left \cup {s}
       \/ /\ Cardinality(left) >= MaxBridgeSessions
          /\ \E oldest \in IdleSessions \ reaped : stored' = (left \ {oldest}) \cup {s}
       \/ /\ Cardinality(left) >= MaxBridgeSessions /\ IdleSessions \subseteq reaped
          /\ stored' = left
  /\ UNCHANGED <<activeBridgeRun, pendingPrompt, answer, stream, cancelling, cancels, overlapped>>

\* clearActiveRun, and cancelActiveRun, which also sets the abort signal: the
\* adapter then kills its process, and the stream ends as it does anyway.
ClearActive(s) == activeBridgeRun' = [activeBridgeRun EXCEPT ![s] = NoPrompt]

---------------------------------------------------------------------------
(* Requests.                                                               *)

Respond(p, a) == answer' = [answer EXCEPT ![p] = IF @ = "pending" THEN a ELSE @]

\* prompt: the run under way is aborted; the entry of pendingPrompts is
\* replaced, also when it is the one of that run.
Prompt(p) ==
  LET s == BridgeSessionOf[p] IN
  /\ answer[p] = "none" /\ s \in stored
  /\ activeBridgeRun' = [activeBridgeRun EXCEPT ![s] = p]
  /\ pendingPrompt' = [pendingPrompt EXCEPT ![s] = p]
  /\ answer' = [answer EXCEPT ![p] = "pending"]
  /\ stream' = [stream EXCEPT ![p] = "open"]
  /\ overlapped' = IF \E q \in Prompts : BridgeSessionOf[q] = s /\ stream[q] \in {"open", "left"}
                   THEN overlapped \cup {s} ELSE overlapped
  /\ UNCHANGED <<stored, cancelling, cancels>>

\* The session is gone, or the prompt is too large, which is found after the
\* run under way was aborted.
PromptRefused(p) ==
  LET s == BridgeSessionOf[p] IN
  /\ answer[p] = "none"
  /\ answer' = [answer EXCEPT ![p] = "failed"]
  /\ IF s \in stored THEN ClearActive(s) ELSE UNCHANGED activeBridgeRun
  /\ UNCHANGED <<stored, pendingPrompt, stream, cancelling, cancels, overlapped>>

\* cancel, up to the wait for abortSession.
CancelPrompt(s) ==
  /\ s \in stored /\ s \notin cancelling
  /\ cancels < MaxCancels /\ cancels' = cancels + 1
  /\ ClearActive(s)
  /\ cancelling' = cancelling \cup {s}
  /\ UNCHANGED <<stored, pendingPrompt, answer, stream, overlapped>>

\* It answers the prompt that is pending by then.
CancelReturns(s) ==
  /\ s \in cancelling /\ cancelling' = cancelling \ {s}
  /\ IF pendingPrompt[s] = NoPrompt
     THEN UNCHANGED <<pendingPrompt, answer>>
     ELSE /\ Respond(pendingPrompt[s], "cancelled")
          /\ pendingPrompt' = [pendingPrompt EXCEPT ![s] = NoPrompt]
  /\ UNCHANGED <<storeVars, stream, cancels, overlapped>>

---------------------------------------------------------------------------
(* runAdapterStream.                                                       *)

\* What a stream that is over leaves behind: the entry of its session is
\* deleted, whoever it is of, and a prompt is answered.
Leave(p, answered, a) ==
  LET s == BridgeSessionOf[p] IN
  /\ stream' = [stream EXCEPT ![p] = "over"]
  /\ pendingPrompt' = [pendingPrompt EXCEPT ![s] = NoPrompt]
  /\ IF s \in stored THEN ClearActive(s) ELSE UNCHANGED activeBridgeRun
  /\ Respond(answered, a)
  /\ UNCHANGED <<stored, cancelling, cancels, overlapped>>

Quits(p, at) ==
  /\ stream' = [stream EXCEPT ![p] = at]
  /\ UNCHANGED <<storeVars, pendingPrompt, answer, cancelling, cancels, overlapped>>

HasPending(p) == pendingPrompt[BridgeSessionOf[p]] # NoPrompt

\* An event when nothing of the session is pending: the loop is left.
StreamBreaks(p) == stream[p] = "open" /\ ~HasPending(p) /\ Quits(p, "left")

\* The event "done", or the end of a stream, also after a break: finishPrompt.
StreamFinishes(p) ==
  /\ stream[p] \in {"open", "left"} /\ HasPending(p)
  /\ Leave(p, p, "done")

\* Variant: an error of the adapter is only logged.
StreamFailsSilently(p) == stream[p] = "open" /\ Quits(p, "over")

\* The event "error", or an exception of the adapter or the connection: the
\* prompt that is pending is rejected.
StreamFails(p) ==
  /\ stream[p] = "open"
  /\ IF HasPending(p) THEN Leave(p, pendingPrompt[BridgeSessionOf[p]], "failed")
                      ELSE Quits(p, "over")

\* After a break, and nothing pending.
StreamIsOver(p) == stream[p] = "left" /\ ~HasPending(p) /\ Quits(p, "over")

BridgeNext ==
  \/ \E s \in BridgeSessions :
       \/ OpenSession(s)
       \/ CancelPrompt(s)
       \/ CancelReturns(s)
  \/ \E p \in Prompts :
       \/ Prompt(p)
       \/ PromptRefused(p)
       \/ StreamBreaks(p)
       \/ StreamFinishes(p)
       \/ StreamFails(p)
       \/ StreamIsOver(p)

BridgeSpec == BridgeInit /\ [][BridgeNext]_bridgeVars

\* The process of the adapter exits, and a cancel of it returns.
BridgeFairness ==
  /\ \A p \in Prompts :
       WF_bridgeVars(StreamBreaks(p) \/ StreamFinishes(p) \/ StreamFails(p) \/ StreamIsOver(p))
  /\ \A s \in BridgeSessions : WF_bridgeVars(CancelReturns(s))

---------------------------------------------------------------------------
(* Properties.                                                             *)

BridgeTypeOK ==
  /\ stored \subseteq BridgeSessions /\ Cardinality(stored) <= MaxBridgeSessions
  /\ activeBridgeRun \in [BridgeSessions -> Prompts \cup {NoPrompt}]
  /\ pendingPrompt \in [BridgeSessions -> Prompts \cup {NoPrompt}]
  /\ answer \in [Prompts -> {"none", "pending"} \cup Settled]
  /\ stream \in [Prompts -> {"none", "open", "left", "over"}]
  /\ cancelling \subseteq BridgeSessions /\ overlapped \subseteq BridgeSessions
  /\ cancels \in 0..MaxCancels

\* The editor gets an answer to every prompt, whichever of the stream, its
\* failure, a cancel and the eviction of the session comes first, as long as no
\* prompt of a session is sent while an earlier stream of it goes on.  With two
\* streams of a session the first that ends deletes the entry of the other, and
\* the other's request is never answered.
PromptsAnswered ==
  \A p \in Prompts :
    answer[p] = "pending" ~> (answer[p] \in Settled \/ BridgeSessionOf[p] \in overlapped)
===========================================================================
