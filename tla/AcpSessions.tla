---------------------------- MODULE AcpSessions ----------------------------
(***************************************************************************)
(* The AcpSessionManager: operations of a session go through its           *)
(* SessionActorQueue, a chain of promises; a RuntimeCache keeps the handle *)
(* of the runtime that serves a session; activeTurns keeps the turn that   *)
(* may be cancelled; the meta of a session is stored.  cancelTurn and      *)
(* evictIdleRuntimes do not go through the queue.                          *)
(*                                                                         *)
(* A handle is named by the operation that opened it.                      *)
(***************************************************************************)
EXTENDS Naturals

CONSTANTS
  AcpSessionKeys,
  AcpOps,        \* calls of ensureSession, runTurn and closeSession
  KeyOf,         \* session of an operation
  AcpTurns,      \* operations that are turns,
  Closes,        \* and closes; the others call ensureSession
  NoOp,
  MaxEvictions   \* bound: calls of evictIdleRuntimes

ASSUME AcpAssumption ==
  /\ KeyOf \in [AcpOps -> AcpSessionKeys]
  /\ AcpTurns \subseteq AcpOps /\ Closes \subseteq AcpOps /\ AcpTurns \cap Closes = {}
  /\ NoOp \notin AcpOps
  /\ MaxEvictions \in Nat

VARIABLES
  opAt,        \* where an operation is
  after,       \* the tail it found in the queue
  released,    \* operations whose marker is resolved
  tail,        \* tailBySession
  cache,       \* RuntimeCache: the handle for a session
  using,       \* the handle an operation took from the cache
  open,        \* handles the backend has open
  activeTurns,
  meta,        \* state in the stored meta, "none" without one
  cancelled,   \* turns whose controller was aborted
  victims,     \* idle candidates evictIdleRuntimes has still to look at
  evicting,    \* session whose runtime it awaits the close of
  evicted,     \* handles it closed
  evictions

acpVars == <<opAt, after, released, tail, cache, using, open, activeTurns, meta, cancelled,
             victims, evicting, evicted, evictions>>
evictVars == <<victims, evicting, evicted, evictions>>
actorVars == <<after, released, tail>>

AcpStage == {"uncalled", "queued", "ensuring", "controls", "streaming", "status", "closing",
             "done"}
Busy == {"ensuring", "controls", "streaming", "status", "closing"}

AcpInit ==
  /\ opAt = [o \in AcpOps |-> "uncalled"] /\ after = [o \in AcpOps |-> NoOp]
  /\ released = {} /\ tail = [s \in AcpSessionKeys |-> NoOp]
  /\ cache = tail /\ activeTurns = tail /\ using = after
  /\ open = {} /\ cancelled = {}
  /\ meta = [s \in AcpSessionKeys |-> "idle"]
  /\ victims = {} /\ evicting = NoOp /\ evicted = {} /\ evictions = 0

---------------------------------------------------------------------------
(* The actor queue.                                                        *)

\* run, up to its await.
Enqueue(o) ==
  /\ opAt[o] = "uncalled" /\ opAt' = [opAt EXCEPT ![o] = "queued"]
  /\ after' = [after EXCEPT ![o] = tail[KeyOf[o]]]
  /\ tail' = [tail EXCEPT ![KeyOf[o]] = o]
  /\ UNCHANGED <<released, cache, using, open, activeTurns, meta, cancelled, evictVars>>

\* The tail o found is resolved once its marker is: it was released after
\* those before it.
MayRun(o) == opAt[o] = "queued" /\ (after[o] = NoOp \/ after[o] \in released)

\* Variant: the entry of the session is deleted whatever operation it names.
ReleaseAll(o) ==
  /\ opAt' = [opAt EXCEPT ![o] = "done"]
  /\ released' = released \cup {o}
  /\ tail' = [tail EXCEPT ![KeyOf[o]] = NoOp]
  /\ UNCHANGED after

\* The finally of run.
Release(o) ==
  /\ opAt' = [opAt EXCEPT ![o] = "done"]
  /\ released' = released \cup {o}
  /\ tail' = [tail EXCEPT ![KeyOf[o]] = IF @ = o THEN NoOp ELSE @]
  /\ UNCHANGED after

\* upsertSessionMeta with a mutate that keeps a missing meta missing.
MetaState(s, st) == IF meta[s] = "none" THEN meta ELSE [meta EXCEPT ![s] = st]

\* Variant: the operation throws out of run.
TurnThrows(o) ==
  /\ meta' = MetaState(KeyOf[o], "error")
  /\ activeTurns' = [activeTurns EXCEPT ![KeyOf[o]] = NoOp]
  /\ opAt' = [opAt EXCEPT ![o] = "done"]
  /\ UNCHANGED actorVars

\* The catch blocks of runTurn.
TurnFails(o) ==
  /\ meta' = MetaState(KeyOf[o], "error")
  /\ activeTurns' = [activeTurns EXCEPT ![KeyOf[o]] = NoOp]
  /\ Release(o)

---------------------------------------------------------------------------
(* ensureSession and runTurn.                                              *)

\* Up to the first await, of the backend: the meta is read, then the cache.
StartOp(o) ==
  LET s == KeyOf[o] IN
  /\ o \notin Closes /\ MayRun(o)
  /\ \/ /\ meta[s] = "none"
        /\ IF o \in AcpTurns THEN TurnFails(o) ELSE Release(o) /\ UNCHANGED <<meta, activeTurns>>
        /\ UNCHANGED <<cache, using>>
     \/ /\ meta[s] # "none" /\ cache[s] # NoOp
        /\ IF o \in AcpTurns
           THEN /\ opAt' = [opAt EXCEPT ![o] = "controls"]
                /\ using' = [using EXCEPT ![o] = cache[s]]
                /\ UNCHANGED actorVars
           ELSE Release(o) /\ UNCHANGED using
        /\ UNCHANGED <<cache, meta, activeTurns>>
     \/ \* no runtime, or one of another identity
        /\ meta[s] # "none"
        /\ o \in AcpTurns => cache[s] = NoOp
        /\ opAt' = [opAt EXCEPT ![o] = "ensuring"]
        /\ cache' = [cache EXCEPT ![s] = NoOp]
        /\ UNCHANGED <<actorVars, using, meta, activeTurns>>
  /\ UNCHANGED <<open, cancelled, evictVars>>

\* The backend's ensureSession settles.
Ensured(o) ==
  LET s == KeyOf[o] IN
  /\ opAt[o] = "ensuring"
  /\ \/ /\ open' = open \cup {o}
        /\ cache' = [cache EXCEPT ![s] = o]
        /\ meta' = [meta EXCEPT ![s] = "idle"]
        /\ IF o \in AcpTurns
           THEN /\ opAt' = [opAt EXCEPT ![o] = "controls"]
                /\ using' = [using EXCEPT ![o] = o]
                /\ UNCHANGED actorVars
           ELSE Release(o) /\ UNCHANGED using
        /\ UNCHANGED activeTurns
     \/ /\ IF o \in AcpTurns THEN TurnFails(o) ELSE Release(o) /\ UNCHANGED <<meta, activeTurns>>
        /\ UNCHANGED <<open, cache, using>>
  /\ UNCHANGED <<cancelled, evictVars>>

\* applyManagerRuntimeControls settles; the turn becomes active.
ControlsApplied(o) ==
  LET s == KeyOf[o] IN
  /\ opAt[o] = "controls"
  /\ \/ /\ meta' = MetaState(s, "running")
        /\ activeTurns' = [activeTurns EXCEPT ![s] = o]
        /\ opAt' = [opAt EXCEPT ![o] = "streaming"]
        /\ UNCHANGED actorVars
     \/ TurnFails(o)
  /\ UNCHANGED <<cache, using, open, cancelled, evictVars>>

\* The stream of events ends or throws; then the status of the runtime.
StreamEnds(o) ==
  /\ opAt[o] = "streaming"
  /\ \/ opAt' = [opAt EXCEPT ![o] = "status"] /\ UNCHANGED <<actorVars, meta, activeTurns>>
     \/ TurnFails(o)
  /\ UNCHANGED <<cache, using, open, cancelled, evictVars>>

TurnEnds(o) ==
  /\ opAt[o] = "status"
  /\ meta' = MetaState(KeyOf[o], "idle")
  /\ activeTurns' = [activeTurns EXCEPT ![KeyOf[o]] = NoOp]
  /\ Release(o)
  /\ UNCHANGED <<cache, using, open, cancelled, evictVars>>

\* cancelTurn, for a turn that is active.
CancelTurn(s) ==
  /\ activeTurns[s] # NoOp /\ cancelled' = cancelled \cup {activeTurns[s]}
  /\ UNCHANGED <<opAt, actorVars, cache, using, open, activeTurns, meta, evictVars>>

---------------------------------------------------------------------------
(* closeSession.                                                           *)

\* What it does to the meta, with clearMeta and without.
MetaClosed(s) == meta' \in {[meta EXCEPT ![s] = "none"], MetaState(s, "idle")}

\* Up to the close of the backend; a turn that is active is aborted.
StartClose(o) ==
  LET s == KeyOf[o] IN
  /\ o \in Closes /\ MayRun(o)
  /\ IF cache[s] = NoOp
     THEN Release(o) /\ MetaClosed(s) /\ UNCHANGED <<using, cancelled>>
     ELSE /\ opAt' = [opAt EXCEPT ![o] = "closing"]
          /\ using' = [using EXCEPT ![o] = cache[s]]
          /\ cancelled' = cancelled \cup ({activeTurns[s]} \ {NoOp})
          /\ UNCHANGED <<actorVars, meta>>
  /\ UNCHANGED <<cache, open, activeTurns, evictVars>>

\* The close settles: done, failed and tolerated, or failed.
ClosedByBackend(o) ==
  LET s == KeyOf[o] IN
  /\ opAt[o] = "closing" /\ Release(o)
  /\ \/ /\ open' \in {open, open \ {using[o]}}
        /\ cache' = [cache EXCEPT ![s] = NoOp]
        /\ MetaClosed(s)
     \/ UNCHANGED <<open, cache, meta>>
  /\ UNCHANGED <<using, activeTurns, cancelled, evictVars>>

---------------------------------------------------------------------------
(* evictIdleRuntimes.                                                      *)

\* collectIdleCandidates.
EvictIdle ==
  /\ evictions < MaxEvictions /\ evictions' = evictions + 1
  /\ victims = {} /\ evicting = NoOp
  /\ \E S \in SUBSET {s \in AcpSessionKeys : cache[s] # NoOp} :
       victims' = {<<s, cache[s]>> : s \in S}
  /\ UNCHANGED <<opAt, actorVars, cache, using, open, activeTurns, meta, cancelled, evicting,
                 evicted>>

\* The next candidate: skipped while a turn is active, else closed.
EvictNext ==
  /\ evicting = NoOp
  /\ \E v \in victims :
       /\ victims' = victims \ {v}
       /\ IF activeTurns[v[1]] # NoOp THEN UNCHANGED <<evicting, evicted, open>>
          ELSE /\ evicting' = v[1]
               /\ evicted' = evicted \cup {v[2]}
               /\ open' \in {open, open \ {v[2]}}
  /\ UNCHANGED <<opAt, actorVars, cache, using, activeTurns, meta, cancelled, evictions>>

\* The close settles: the entry of the session goes, whichever it is now.
EvictClosed ==
  /\ evicting # NoOp /\ evicting' = NoOp
  /\ cache' = [cache EXCEPT ![evicting] = NoOp]
  /\ UNCHANGED <<opAt, actorVars, using, open, activeTurns, meta, cancelled, victims, evicted,
                 evictions>>

---------------------------------------------------------------------------
AcpStep(o) ==
  \/ Enqueue(o) \/ StartOp(o) \/ Ensured(o) \/ ControlsApplied(o) \/ StreamEnds(o) \/ TurnEnds(o)
  \/ StartClose(o) \/ ClosedByBackend(o)

AcpNext ==
  \/ \E o \in AcpOps : AcpStep(o)
  \/ \E s \in AcpSessionKeys : CancelTurn(s)
  \/ EvictIdle \/ EvictNext \/ EvictClosed

AcpSpec == AcpInit /\ [][AcpNext]_acpVars

\* Promises are continued, and a backend settles what it is asked: without
\* that a session is stuck behind the operation that is not.
AcpFairness ==
  \A o \in AcpOps :
    /\ WF_acpVars(StartOp(o)) /\ WF_acpVars(StartClose(o))
    /\ WF_acpVars(Ensured(o)) /\ WF_acpVars(ControlsApplied(o))
    /\ WF_acpVars(StreamEnds(o)) /\ WF_acpVars(TurnEnds(o)) /\ WF_acpVars(ClosedByBackend(o))

---------------------------------------------------------------------------
(* Properties.                                                             *)

AcpTypeOK ==
  /\ opAt \in [AcpOps -> AcpStage] /\ after \in [AcpOps -> AcpOps \cup {NoOp}]
  /\ released \subseteq AcpOps /\ tail \in [AcpSessionKeys -> AcpOps \cup {NoOp}]
  /\ cache \in [AcpSessionKeys -> AcpOps \cup {NoOp}]
  /\ using \in [AcpOps -> AcpOps \cup {NoOp}] /\ open \subseteq AcpOps
  /\ activeTurns \in [AcpSessionKeys -> AcpOps \cup {NoOp}]
  /\ meta \in [AcpSessionKeys -> {"none", "idle", "running", "error"}]
  /\ cancelled \subseteq AcpOps
  /\ victims \subseteq AcpSessionKeys \X AcpOps
  /\ evicting \in AcpSessionKeys \cup {NoOp} /\ evicted \subseteq AcpOps
  /\ evictions \in 0..MaxEvictions

\* The queue lets one operation of a session run at a time.  So the turn that
\* can be aborted is the one that runs, the meta says "running" only while it
\* does, nothing but a turn is ever aborted, and only an eviction can close the
\* runtime a turn streams from.
OpsSerialized ==
  /\ \A o, p \in AcpOps :
       o # p /\ KeyOf[o] = KeyOf[p] => ~(opAt[o] \in Busy /\ opAt[p] \in Busy)
  /\ \A s \in AcpSessionKeys :
       /\ \A o \in AcpOps :
            activeTurns[s] = o <=> KeyOf[o] = s /\ opAt[o] \in {"streaming", "status"}
       /\ meta[s] = "running" => activeTurns[s] # NoOp
  /\ \A o \in AcpTurns : opAt[o] = "streaming" => using[o] \in open \cup evicted

\* Every operation ends, also behind operations that failed.
OpsFinish == \A o \in AcpOps : opAt[o] = "queued" ~> opAt[o] = "done"
=============================================================================
