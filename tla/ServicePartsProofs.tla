------------------------- MODULE ServicePartsProofs -------------------------
(***************************************************************************)
(* The services side by side: MCServices picks one part, so each of its    *)
(* behaviours is one of the specification of every part, and what is       *)
(* proved about a part, here, in ServicesProofs and in TranscriptsProofs,  *)
(* holds in the composition, for any value of the constants of all parts.  *)
(*                                                                         *)
(* Here also the parts that these modules leave: the ACP bridge, the index *)
(* of the memory, and the types of reminders and of turns.                 *)
(***************************************************************************)
EXTENDS MCServices, ServicesProofs, TranscriptsProofs

---------------------------------------------------------------------------
(* The ACP bridge.                                                         *)

FlowsIn(s) == {p \in Prompts : BridgeSessionOf[p] = s /\ stream[p] \in {"open", "left"}}

\* As long as no prompt overtakes a stream of its session: one stream of it is
\* under way, the entry of the session is that of the request that waits, and
\* the stream of that request is open.
EntryBooks ==
  /\ \A p \in Prompts : answer[p] = "none" => stream[p] = "none"
  /\ \A s \in BridgeSessions :
       pendingPrompt[s] # NoPrompt => BridgeSessionOf[pendingPrompt[s]] = s
  /\ \A s \in BridgeSessions \ overlapped :
       /\ \A p, q \in FlowsIn(s) : p = q
       /\ pendingPrompt[s] # NoPrompt =>
            /\ pendingPrompt[s] \in FlowsIn(s)
            /\ answer[pendingPrompt[s]] = "pending" /\ stream[pendingPrompt[s]] = "open"
       /\ \A p \in Prompts :
            BridgeSessionOf[p] = s /\ answer[p] = "pending" => pendingPrompt[s] = p

BridgeInv == BridgeTypeOK /\ IsFiniteSet(stored) /\ EntryBooks

LEMMA BridgeInvInit == BridgeInit => BridgeInv
<1>. SUFFICES ASSUME BridgeInit PROVE BridgeInv
  OBVIOUS
<1>1. IsFiniteSet(stored) /\ Cardinality(stored) = 0
  BY FS_EmptySet DEF BridgeInit
<1>2. BridgeTypeOK
  BY <1>1, BridgeAssumption DEF BridgeInit, BridgeTypeOK, Settled
<1>3. EntryBooks
  BY DEF BridgeInit, EntryBooks, FlowsIn
<1>. QED  BY <1>1, <1>2, <1>3 DEF BridgeInv

\* createSession keeps the store within its limit: it evicts one session when
\* the idle ones that are reaped make no room.
LEMMA OpenSessionStep ==
  ASSUME BridgeInv, NEW s \in BridgeSessions, OpenSession(s)
  PROVE  BridgeInv'
<1>1. PICK reaped \in SUBSET IdleSessions :
        LET left == stored \ reaped IN
        \/ Cardinality(left) < MaxBridgeSessions /\ stored' = left \cup {s}
        \/ \E oldest \in IdleSessions \ reaped : stored' = (left \ {oldest}) \cup {s}
        \/ stored' = left
  BY DEF OpenSession
<1>. DEFINE left == stored \ reaped
<1>2. IsFiniteSet(stored) /\ stored \subseteq BridgeSessions
      /\ Cardinality(stored) <= MaxBridgeSessions
  BY DEF BridgeInv, BridgeTypeOK
<1>3. /\ IsFiniteSet(left) /\ left \subseteq stored /\ s \notin left
      /\ Cardinality(left) <= Cardinality(stored)
      /\ Cardinality(left) \in Nat /\ Cardinality(stored) \in Nat
  BY <1>2, FS_Subset, FS_CardinalityType DEF OpenSession
<1>4. /\ IsFiniteSet(stored') /\ stored' \subseteq BridgeSessions
      /\ Cardinality(stored') <= MaxBridgeSessions
  <2>1. CASE Cardinality(left) < MaxBridgeSessions /\ stored' = left \cup {s}
    <3>1. IsFiniteSet(stored') /\ Cardinality(stored') = Cardinality(left) + 1
      BY <1>3, <2>1, FS_AddElement
    <3>. QED  BY <1>2, <1>3, <2>1, <3>1, BridgeAssumption
  <2>2. ASSUME NEW oldest \in IdleSessions \ reaped, stored' = (left \ {oldest}) \cup {s}
        PROVE  /\ IsFiniteSet(stored') /\ stored' \subseteq BridgeSessions
               /\ Cardinality(stored') <= MaxBridgeSessions
    <3>1. oldest \in left
      BY DEF IdleSessions
    <3>2. /\ IsFiniteSet(left \ {oldest})
          /\ Cardinality(left \ {oldest}) = Cardinality(left) - 1
      BY <1>3, <3>1, FS_RemoveElement
    <3>3. IsFiniteSet(stored') /\ Cardinality(stored') = Cardinality(left \ {oldest}) + 1
      BY <1>3, <2>2, <3>2, FS_AddElement
    <3>. QED  BY <1>2, <1>3, <2>2, <3>2, <3>3, BridgeAssumption
  <2>3. CASE stored' = left
    BY <1>2, <1>3, <2>3, BridgeAssumption
  <2>. QED  BY <1>1, <2>1, <2>2, <2>3
<1>5. UNCHANGED <<activeBridgeRun, pendingPrompt, answer, stream, cancelling, cancels, overlapped>>
  BY DEF OpenSession
<1>. QED  BY <1>4, <1>5 DEF BridgeInv, BridgeTypeOK, EntryBooks, FlowsIn

LEMMA BridgeTypes ==
  ASSUME BridgeTypeOK, BridgeNext, UNCHANGED stored
  PROVE  BridgeTypeOK'
<1>. USE BridgeAssumption DEF BridgeTypeOK, Settled
<1>1. ASSUME NEW s \in BridgeSessions, CancelPrompt(s) PROVE BridgeTypeOK'
  BY <1>1 DEF CancelPrompt, ClearActive
<1>2. ASSUME NEW s \in BridgeSessions, CancelReturns(s) PROVE BridgeTypeOK'
  BY <1>2 DEF CancelReturns, Respond, storeVars
<1>3. ASSUME NEW s \in BridgeSessions, OpenSession(s) PROVE BridgeTypeOK'
  BY <1>3 DEF OpenSession
<1>4. ASSUME NEW p \in Prompts, Prompt(p) PROVE BridgeTypeOK'
  BY <1>4 DEF Prompt
<1>5. ASSUME NEW p \in Prompts, PromptRefused(p) PROVE BridgeTypeOK'
  BY <1>5 DEF PromptRefused, ClearActive
<1>6. ASSUME NEW p \in Prompts, NEW q \in Prompts, NEW a \in Settled, Leave(p, q, a)
      PROVE  BridgeTypeOK'
  BY <1>6 DEF Leave, ClearActive, Respond
<1>7. ASSUME NEW p \in Prompts, NEW at \in {"left", "over"}, Quits(p, at)
      PROVE  BridgeTypeOK'
  BY <1>7 DEF Quits, storeVars
<1>8. ASSUME NEW p \in Prompts,
             StreamBreaks(p) \/ StreamFinishes(p) \/ StreamFails(p) \/ StreamIsOver(p)
      PROVE  BridgeTypeOK'
  <2>1. HasPending(p) => pendingPrompt[BridgeSessionOf[p]] \in Prompts
    BY DEF HasPending
  <2>. QED
    BY <1>6, <1>7, <1>8, <2>1 DEF StreamBreaks, StreamFinishes, StreamFails, StreamIsOver
<1>. QED  BY <1>1, <1>2, <1>3, <1>4, <1>5, <1>8 DEF BridgeNext

\* Requests.

LEMMA RequestEntries ==
  ASSUME BridgeTypeOK, EntryBooks, NEW p \in Prompts, Prompt(p) \/ PromptRefused(p)
  PROVE  EntryBooks'
<1>. DEFINE s == BridgeSessionOf[p]
<1>1. s \in BridgeSessions /\ p # NoPrompt
  BY BridgeAssumption
<1>2. answer[p] = "none" /\ stream[p] = "none"
  BY DEF Prompt, PromptRefused, EntryBooks
<1>3. CASE Prompt(p)
  <2>1. /\ stream' = [stream EXCEPT ![p] = "open"]
        /\ answer' = [answer EXCEPT ![p] = "pending"]
        /\ pendingPrompt' = [pendingPrompt EXCEPT ![s] = p]
    BY <1>3 DEF Prompt
  <2>2. overlapped' = IF FlowsIn(s) # {} THEN overlapped \cup {s} ELSE overlapped
    BY <1>3 DEF Prompt, FlowsIn
  <2>3. \A q \in Prompts : answer'[q] = "none" => stream'[q] = "none"
    BY <2>1 DEF BridgeTypeOK, EntryBooks
  <2>4. /\ FlowsIn(s)' = FlowsIn(s) \cup {p}
        /\ \A z \in BridgeSessions \ {s} : FlowsIn(z)' = FlowsIn(z)
    BY <2>1 DEF FlowsIn, BridgeTypeOK
  <2>5. ASSUME NEW z \in BridgeSessions \ overlapped', z # s
        PROVE  /\ \A q, r \in FlowsIn(z)' : q = r
               /\ pendingPrompt'[z] # NoPrompt =>
                    /\ pendingPrompt'[z] \in FlowsIn(z)'
                    /\ answer'[pendingPrompt'[z]] = "pending"
                    /\ stream'[pendingPrompt'[z]] = "open"
               /\ \A q \in Prompts :
                    BridgeSessionOf[q] = z /\ answer'[q] = "pending" => pendingPrompt'[z] = q
    <3>1. z \notin overlapped /\ pendingPrompt'[z] = pendingPrompt[z] /\ FlowsIn(z)' = FlowsIn(z)
      BY <2>1, <2>2, <2>4, <2>5 DEF BridgeTypeOK
    <3>2. \A q \in Prompts : BridgeSessionOf[q] = z => answer'[q] = answer[q] /\ stream'[q] = stream[q]
      BY <2>1, <2>5 DEF BridgeTypeOK
    <3>. QED  BY <3>1, <3>2 DEF EntryBooks, FlowsIn
  <2>6. ASSUME s \notin overlapped'
        PROVE  /\ \A q, r \in FlowsIn(s)' : q = r
               /\ pendingPrompt'[s] = p /\ p \in FlowsIn(s)'
               /\ answer'[p] = "pending" /\ stream'[p] = "open"
               /\ \A q \in Prompts :
                    BridgeSessionOf[q] = s /\ answer'[q] = "pending" => pendingPrompt'[s] = q
    <3>1. s \notin overlapped /\ FlowsIn(s) = {}
      BY <2>2, <2>6
    <3>2. \A q \in Prompts : BridgeSessionOf[q] = s => answer[q] # "pending"
      BY BridgeAssumption, <3>1 DEF EntryBooks, BridgeTypeOK
    <3>. QED  BY <1>1, <2>1, <2>4, <3>1, <3>2 DEF BridgeTypeOK
  <2>7. \A z \in BridgeSessions :
          pendingPrompt'[z] # NoPrompt => BridgeSessionOf[pendingPrompt'[z]] = z
    BY <2>1 DEF EntryBooks, BridgeTypeOK
  <2>. QED  BY <2>3, <2>5, <2>6, <2>7 DEF EntryBooks
<1>4. CASE PromptRefused(p)
  <2>1. answer' = [answer EXCEPT ![p] = "failed"] /\ UNCHANGED <<pendingPrompt, stream, overlapped>>
    BY <1>4 DEF PromptRefused
  <2>2. \A z \in BridgeSessions : FlowsIn(z)' = FlowsIn(z)
    BY <2>1 DEF FlowsIn
  <2>. QED  BY <1>2, <2>1, <2>2 DEF EntryBooks, BridgeTypeOK
<1>. QED  BY <1>3, <1>4

LEMMA CancelEntries ==
  ASSUME BridgeTypeOK, EntryBooks, NEW s \in BridgeSessions, CancelPrompt(s) \/ CancelReturns(s)
  PROVE  EntryBooks'
<1>1. UNCHANGED <<stream, overlapped>> /\ \A z \in BridgeSessions : FlowsIn(z)' = FlowsIn(z)
  BY DEF CancelPrompt, CancelReturns, FlowsIn
<1>2. CASE UNCHANGED <<pendingPrompt, answer>>
  BY <1>1, <1>2 DEF EntryBooks
<1>3. CASE /\ pendingPrompt[s] # NoPrompt
           /\ Respond(pendingPrompt[s], "cancelled")
           /\ pendingPrompt' = [pendingPrompt EXCEPT ![s] = NoPrompt]
  <2>1. pendingPrompt[s] \in Prompts
    BY <1>3 DEF BridgeTypeOK
  <2>2. \A q \in Prompts :
          answer'[q] = IF q = pendingPrompt[s] /\ answer[q] = "pending" THEN "cancelled" ELSE answer[q]
    BY <1>3, <2>1 DEF Respond, BridgeTypeOK
  <2>3. \A z \in BridgeSessions :
          pendingPrompt'[z] = IF z = s THEN NoPrompt ELSE pendingPrompt[z]
    BY <1>3 DEF BridgeTypeOK
  <2>4. BridgeSessionOf[pendingPrompt[s]] = s
    BY <1>3 DEF EntryBooks
  <2>5. \A q \in Prompts : answer'[q] = "none" => stream'[q] = "none"
    BY <1>1, <2>2 DEF EntryBooks
  <2>6. ASSUME NEW z \in BridgeSessions \ overlapped,
               NEW q \in Prompts, BridgeSessionOf[q] = z, answer'[q] = "pending"
        PROVE  pendingPrompt'[z] = q
    BY <2>2, <2>3, <2>6 DEF EntryBooks
  <2>7. ASSUME NEW z \in BridgeSessions \ overlapped, pendingPrompt'[z] # NoPrompt
        PROVE  answer'[pendingPrompt'[z]] = "pending"
    <3>1. z # s /\ pendingPrompt'[z] = pendingPrompt[z]
      BY <2>3, <2>7
    <3>2. pendingPrompt[z] \in Prompts /\ answer[pendingPrompt[z]] = "pending"
          /\ BridgeSessionOf[pendingPrompt[z]] = z
      BY <2>7, <3>1 DEF EntryBooks, FlowsIn
    <3>3. pendingPrompt[s] # pendingPrompt[z]
      BY <2>4, <3>1, <3>2
    <3>. QED  BY <2>2, <3>1, <3>2, <3>3
  <2>. QED  BY <1>1, <2>3, <2>5, <2>6, <2>7 DEF EntryBooks
<1>. QED  BY <1>2, <1>3 DEF CancelPrompt, CancelReturns

\* Streams.

LEMMA LeaveEntries ==
  ASSUME BridgeTypeOK, EntryBooks, NEW p \in Prompts, p \in FlowsIn(BridgeSessionOf[p]),
         NEW q \in Prompts, q = p \/ q = pendingPrompt[BridgeSessionOf[p]],
         HasPending(p), NEW a \in Settled, Leave(p, q, a)
  PROVE  EntryBooks'
<1>. DEFINE s == BridgeSessionOf[p]
<1>1. s \in BridgeSessions
  BY BridgeAssumption
<1>2. /\ stream' = [stream EXCEPT ![p] = "over"]
      /\ pendingPrompt' = [pendingPrompt EXCEPT ![s] = NoPrompt]
      /\ overlapped' = overlapped
      /\ \A r \in Prompts :
           answer'[r] = IF r = q /\ answer[r] = "pending" THEN a ELSE answer[r]
  BY DEF Leave, Respond, BridgeTypeOK
<1>3. \A r \in Prompts : answer'[r] = "none" => answer[r] = "none" /\ r # p
  BY <1>2 DEF EntryBooks, FlowsIn, Settled
<1>4. \A r \in Prompts : answer'[r] = "none" => stream'[r] = "none"
  BY <1>2, <1>3 DEF EntryBooks, BridgeTypeOK
<1>5. \A z \in BridgeSessions :
        /\ pendingPrompt'[z] = IF z = s THEN NoPrompt ELSE pendingPrompt[z]
        /\ FlowsIn(z)' = FlowsIn(z) \ {p}
  BY <1>2 DEF FlowsIn, BridgeTypeOK
<1>6. BridgeSessionOf[q] = s
  BY <1>1 DEF EntryBooks, HasPending
<1>7. s \notin overlapped => q = p /\ pendingPrompt[s] = p
  BY <1>1 DEF EntryBooks, HasPending
<1>8. ASSUME NEW z \in BridgeSessions \ overlapped
      PROVE  /\ \A r, t \in FlowsIn(z)' : r = t
             /\ pendingPrompt'[z] # NoPrompt =>
                  /\ pendingPrompt'[z] \in FlowsIn(z)'
                  /\ answer'[pendingPrompt'[z]] = "pending"
                  /\ stream'[pendingPrompt'[z]] = "open"
             /\ \A r \in Prompts :
                  BridgeSessionOf[r] = z /\ answer'[r] = "pending" => pendingPrompt'[z] = r
  <2>1. CASE z = s
    <3>1. q = p /\ pendingPrompt[s] = p
      BY <1>7, <2>1
    <3>2. ASSUME NEW r \in Prompts, BridgeSessionOf[r] = s PROVE answer'[r] # "pending"
      BY <1>1, <1>2, <2>1, <3>1, <3>2 DEF EntryBooks, Settled
    <3>. QED  BY <1>5, <2>1, <3>2 DEF EntryBooks
  <2>2. CASE z # s
    <3>1. \A r \in Prompts : BridgeSessionOf[r] = z => r # p /\ r # q
      BY <1>6, <2>2
    <3>2. \A r \in Prompts : BridgeSessionOf[r] = z => stream'[r] = stream[r] /\ answer'[r] = answer[r]
      BY <1>2, <3>1 DEF BridgeTypeOK
    <3>3. pendingPrompt'[z] = pendingPrompt[z] /\ FlowsIn(z)' = FlowsIn(z)
      BY <1>5, <2>2 DEF FlowsIn
    <3>. QED  BY <3>2, <3>3 DEF EntryBooks, FlowsIn
  <2>. QED  BY <2>1, <2>2
<1>. QED  BY <1>2, <1>4, <1>5, <1>8 DEF EntryBooks

\* A stream that is left, or is over, while nothing of its session is pending.
LEMMA QuitsEntries ==
  ASSUME BridgeTypeOK, EntryBooks, NEW p \in Prompts, p \in FlowsIn(BridgeSessionOf[p]),
         ~HasPending(p), NEW at \in {"left", "over"}, Quits(p, at)
  PROVE  EntryBooks'
<1>. DEFINE s == BridgeSessionOf[p]
<1>1. s \in BridgeSessions /\ pendingPrompt[s] = NoPrompt
  BY BridgeAssumption DEF HasPending
<1>2. stream' = [stream EXCEPT ![p] = at] /\ UNCHANGED <<pendingPrompt, answer, overlapped>>
  BY DEF Quits
<1>3. answer[p] # "none"
  BY DEF EntryBooks, FlowsIn
<1>4. \A z \in BridgeSessions :
        /\ FlowsIn(z)' \subseteq FlowsIn(z)
        /\ z # s => FlowsIn(z)' = FlowsIn(z)
  BY <1>2 DEF FlowsIn, BridgeTypeOK
<1>5. \A z \in BridgeSessions : pendingPrompt[z] # NoPrompt => pendingPrompt[z] # p
  BY <1>1 DEF EntryBooks
<1>6. ASSUME NEW z \in BridgeSessions \ overlapped, pendingPrompt[z] # NoPrompt
      PROVE  pendingPrompt[z] \in FlowsIn(z)' /\ stream'[pendingPrompt[z]] = "open"
  BY <1>1, <1>2, <1>4, <1>5, <1>6 DEF EntryBooks, FlowsIn, BridgeTypeOK
<1>7. \A r \in Prompts : answer'[r] = "none" => stream'[r] = "none"
  BY <1>2, <1>3 DEF EntryBooks, BridgeTypeOK
<1>8. \A z \in BridgeSessions \ overlapped : \A r, t \in FlowsIn(z)' : r = t
  BY <1>4 DEF EntryBooks
<1>. QED  BY <1>2, <1>6, <1>7, <1>8 DEF EntryBooks

LEMMA StreamEntries ==
  ASSUME BridgeTypeOK, EntryBooks, NEW p \in Prompts,
         StreamBreaks(p) \/ StreamFinishes(p) \/ StreamFails(p) \/ StreamIsOver(p)
  PROVE  EntryBooks'
<1>1. p \in FlowsIn(BridgeSessionOf[p])
  BY DEF FlowsIn, StreamBreaks, StreamFinishes, StreamFails, StreamIsOver
<1>2. HasPending(p) => pendingPrompt[BridgeSessionOf[p]] \in Prompts
  BY BridgeAssumption DEF HasPending, BridgeTypeOK
<1>3. CASE HasPending(p)
  <2>1. \E q \in Prompts, a \in Settled :
          (q = p \/ q = pendingPrompt[BridgeSessionOf[p]]) /\ Leave(p, q, a)
    BY <1>2, <1>3 DEF StreamBreaks, StreamFinishes, StreamFails, StreamIsOver, Settled
  <2>. QED  BY <1>1, <1>3, <2>1, LeaveEntries
<1>4. CASE ~HasPending(p)
  <2>1. Quits(p, "left") \/ Quits(p, "over")
    BY <1>4 DEF StreamBreaks, StreamFinishes, StreamFails, StreamIsOver
  <2>. QED  BY <1>1, <1>4, <2>1, QuitsEntries
<1>. QED  BY <1>3, <1>4

LEMMA BridgeInvariant == BridgeSpec => []BridgeInv
<1>1. BridgeInv /\ [BridgeNext]_bridgeVars => BridgeInv'
  <2>. SUFFICES ASSUME BridgeInv, [BridgeNext]_bridgeVars PROVE BridgeInv'
    OBVIOUS
  <2>1. CASE UNCHANGED bridgeVars
    BY <2>1 DEF bridgeVars, storeVars, BridgeInv, BridgeTypeOK, EntryBooks, FlowsIn
  <2>2. ASSUME NEW s \in BridgeSessions, CancelPrompt(s) \/ CancelReturns(s)
        PROVE  EntryBooks' /\ UNCHANGED stored
    BY <2>2, CancelEntries DEF BridgeInv, CancelPrompt, CancelReturns, storeVars
  <2>3. ASSUME NEW p \in Prompts, Prompt(p) \/ PromptRefused(p)
        PROVE  EntryBooks' /\ UNCHANGED stored
    BY <2>3, RequestEntries DEF BridgeInv, Prompt, PromptRefused
  <2>4. ASSUME NEW p \in Prompts,
               StreamBreaks(p) \/ StreamFinishes(p) \/ StreamFails(p) \/ StreamIsOver(p)
        PROVE  EntryBooks' /\ UNCHANGED stored
    BY <2>4, StreamEntries
    DEF BridgeInv, StreamBreaks, StreamFinishes, StreamFails, StreamIsOver, Leave, Quits, storeVars
  <2>5. BridgeNext /\ EntryBooks' /\ UNCHANGED stored => BridgeInv'
    BY BridgeTypes DEF BridgeInv
  <2>. QED  BY <2>1, <2>2, <2>3, <2>4, <2>5, OpenSessionStep DEF BridgeNext
<1>. QED  BY <1>1, BridgeInvInit, PTL DEF BridgeSpec

\* The session store never grows over its limit, and every request keeps its type.
THEOREM BridgeTypesHold == BridgeSpec => []BridgeTypeOK
<1>1. BridgeInv => BridgeTypeOK
  BY DEF BridgeInv
<1>. QED  BY <1>1, BridgeInvariant, PTL

\* The safety half of PromptsAnswered: as long as no prompt of its session
\* overtook a stream, a request that waits is the one the entry of its session
\* names, and its stream is open, whose end, failure or cancel answers it.
WaitersHaveStreams ==
  \A p \in Prompts :
    answer[p] = "pending" =>
      \/ BridgeSessionOf[p] \in overlapped
      \/ pendingPrompt[BridgeSessionOf[p]] = p /\ stream[p] = "open"

\* WaitersHaveStreams, for any prompts, sessions and limit of the store.
THEOREM NoRequestIsOrphaned == BridgeSpec => []WaitersHaveStreams
<1>1. BridgeInv => WaitersHaveStreams
  BY BridgeAssumption DEF BridgeInv, EntryBooks, WaitersHaveStreams
<1>. QED  BY <1>1, BridgeInvariant, PTL

---------------------------------------------------------------------------
(* The index of the memory files.                                          *)

\* A hash that is the file's current one stands over its current text: what a
\* sync skips is right.  (The text may be newer than the hash, when the file
\* changed between the listing and the reading; then the hash is an old one.)
HashTellsText == \A f \in Files : index[f].hash = disk[f] => index[f].text = disk[f]

\* Contents are numbered by the edits made so far.  What is left to compare was
\* listed, and what was compared is indexed under the hash of the listing.
SyncBooks ==
  \A f \in Files :
    /\ {disk[f], listed[f], index[f].hash, index[f].text} \subseteq 0..fileEdits
    /\ index[f].hash = 0 => index[f].text = 0
    /\ f \in todo => listed[f] # 0
    /\ syncAt = "indexing" /\ listed[f] # 0 /\ f \notin todo => index[f].hash = listed[f]

IndexInv == IndexTypeOK /\ HashTellsText /\ SyncBooks

\* A sync that ends without an edit since it listed the files leaves exactly
\* what they say.
CatchesUp == SyncEnds /\ disk = listed => \A f \in Files : index'[f].text = disk'[f]

LEMMA SyncStep ==
  ASSUME IndexInv, NEW force \in BOOLEAN, Sync(force),
         UNCHANGED <<disk, fileEdits>>,
         {hasMeta', dirty', noticed', watchTimer'} \subseteq BOOLEAN
  PROVE  IndexInv'
<1>1. CASE syncAt # "idle"
  BY <1>1 DEF Sync, syncVars, IndexInv, IndexTypeOK, HashTellsText, SyncBooks
<1>2. CASE syncAt = "idle"
  <2>1. syncAt' = "listing" /\ reindex' \in BOOLEAN /\ UNCHANGED <<listed, todo>>
    BY <1>2 DEF Sync, IndexInv, IndexTypeOK
  <2>2. index' = index \/ index' = [f \in Files |-> Unindexed]
    BY <1>2 DEF Sync
  <2>3. fileEdits \in Nat /\ 0 \in Content
    BY IndexAssumption DEF IndexInv, IndexTypeOK, Content
  <2>4. index' \in [Files -> [hash : Content, text : Content]]
    BY <2>2, <2>3 DEF IndexInv, IndexTypeOK, Unindexed
  <2>5. \A f \in Files :
          \/ index'[f] = index[f]
          \/ index'[f].hash = 0 /\ index'[f].text = 0
    <3>1. Unindexed.hash = 0 /\ Unindexed.text = 0
      BY DEF Unindexed
    <3>2. \A f \in Files : index'[f] = index[f] \/ index'[f] = Unindexed
      BY <2>2
    <3>. QED  BY <3>1, <3>2
  <2>6. HashTellsText' /\ SyncBooks'
    BY <2>1, <2>3, <2>5 DEF IndexInv, HashTellsText, SyncBooks
  <2>. QED  BY <2>1, <2>4, <2>6 DEF IndexInv, IndexTypeOK
<1>. QED  BY <1>1, <1>2

LEMMA EditFileStep ==
  ASSUME IndexInv, NEW f \in Files, EditFile(f)
  PROVE  IndexInv'
<1>1. /\ fileEdits \in Nat /\ fileEdits' = fileEdits + 1 /\ fileEdits' \in 0..MaxFileEdits
      /\ noticed' = TRUE
      /\ UNCHANGED <<index, hasMeta, dirty, watchTimer, syncAt, reindex, listed, todo>>
  BY IndexAssumption DEF EditFile, IndexInv, IndexTypeOK, syncVars
<1>2. PICK c \in {0, fileEdits'} : disk' = [disk EXCEPT ![f] = c]
  BY DEF EditFile
<1>3. disk' \in [Files -> Content]
  BY IndexAssumption, <1>1, <1>2 DEF IndexInv, IndexTypeOK, Content
<1>4. \A g \in Files : disk'[g] = IF g = f THEN c ELSE disk[g]
  BY <1>2 DEF IndexInv, IndexTypeOK
<1>5. SyncBooks'
  BY <1>1, <1>2, <1>4 DEF IndexInv, SyncBooks
<1>6. index[f].hash \in 0..fileEdits
  BY DEF IndexInv, SyncBooks
<1>7. HashTellsText'
  BY <1>1, <1>2, <1>4, <1>6 DEF IndexInv, SyncBooks, HashTellsText
<1>. QED  BY <1>1, <1>3, <1>5, <1>7 DEF IndexInv, IndexTypeOK

LEMMA ListStep == ASSUME IndexInv, List PROVE IndexInv'
<1>1. /\ listed' = disk /\ todo' = {f \in Files : disk[f] # 0} /\ syncAt' = "indexing"
      /\ UNCHANGED <<disk, index, hasMeta, dirty, noticed, watchTimer, reindex, fileEdits>>
  BY DEF List
<1>2. IndexTypeOK' /\ HashTellsText'
  BY <1>1 DEF IndexInv, IndexTypeOK, HashTellsText
<1>3. SyncBooks'
  BY <1>1 DEF IndexInv, SyncBooks
<1>. QED  BY <1>2, <1>3 DEF IndexInv

LEMMA CompareStep ==
  ASSUME IndexInv, NEW f \in Files, Compare(f)
  PROVE  IndexInv'
<1>1. /\ syncAt = "indexing" /\ f \in todo /\ todo' = todo \ {f}
      /\ UNCHANGED <<disk, hasMeta, dirty, noticed, watchTimer, syncAt, reindex, listed,
                     fileEdits>>
  BY DEF Compare
<1>2. CASE index[f].hash = listed[f] /\ UNCHANGED index
  BY <1>1, <1>2 DEF IndexInv, IndexTypeOK, HashTellsText, SyncBooks
<1>3. CASE index' = [index EXCEPT ![f] = [hash |-> listed[f], text |-> disk[f]]]
  <2>1. index' \in [Files -> [hash : Content, text : Content]]
    BY <1>3 DEF IndexInv, IndexTypeOK
  <2>2. /\ index'[f].hash = listed[f] /\ index'[f].text = disk[f]
        /\ \A g \in Files \ {f} : index'[g] = index[g]
    BY <1>3 DEF IndexInv, IndexTypeOK
  <2>3. HashTellsText'
    BY <1>1, <2>2 DEF IndexInv, HashTellsText
  <2>4. SyncBooks'
    BY <1>1, <2>2 DEF IndexInv, SyncBooks
  <2>. QED  BY <1>1, <2>1, <2>3, <2>4 DEF IndexInv, IndexTypeOK
<1>. QED  BY <1>2, <1>3 DEF Compare

LEMMA CompareFailsStep ==
  ASSUME IndexInv, NEW f \in Files, CompareFails(f)
  PROVE  IndexInv'
<1>1. /\ syncAt' = "idle" /\ todo' = {}
      /\ UNCHANGED <<disk, index, hasMeta, dirty, noticed, watchTimer, reindex, listed, fileEdits>>
  BY IndexAssumption DEF CompareFails, IndexInv, IndexTypeOK
<1>. QED  BY <1>1 DEF IndexInv, IndexTypeOK, HashTellsText, SyncBooks

LEMMA SyncEndsStep == ASSUME IndexInv, SyncEnds PROVE IndexInv' /\ CatchesUp
<1>1. /\ syncAt = "indexing" /\ todo = {} /\ syncAt' = "idle" /\ dirty' = FALSE /\ hasMeta' = TRUE
      /\ index' = [f \in Files |-> IF listed[f] = 0 THEN Unindexed ELSE index[f]]
      /\ UNCHANGED <<disk, noticed, watchTimer, reindex, listed, todo, fileEdits>>
  BY DEF SyncEnds
<1>2. 0 \in Content /\ fileEdits \in Nat
  BY IndexAssumption DEF IndexInv, IndexTypeOK, Content
<1>3. IndexTypeOK'
  BY <1>1, <1>2 DEF IndexInv, IndexTypeOK, Unindexed
<1>4. \A f \in Files :
        IF listed[f] = 0 THEN index'[f].hash = 0 /\ index'[f].text = 0 ELSE index'[f] = index[f]
  BY <1>1 DEF Unindexed
<1>5. HashTellsText' /\ SyncBooks'
  BY <1>1, <1>2, <1>4 DEF IndexInv, HashTellsText, SyncBooks
<1>6. CatchesUp
  BY <1>1, <1>4 DEF CatchesUp, IndexInv, HashTellsText, SyncBooks
<1>. QED  BY <1>3, <1>5, <1>6 DEF IndexInv

LEMMA IndexStep == IndexInv /\ [IndexNext]_indexVars => IndexInv' /\ CatchesUp
<1>. SUFFICES ASSUME IndexInv, [IndexNext]_indexVars PROVE IndexInv' /\ CatchesUp
  OBVIOUS
<1>1. ASSUME UNCHANGED indexVars \/ Notice PROVE IndexInv'
  <2>1. /\ UNCHANGED <<disk, index, hasMeta, syncAt, reindex, listed, todo, fileEdits>>
        /\ {dirty', noticed', watchTimer'} \subseteq BOOLEAN
    BY <1>1 DEF indexVars, syncVars, Notice, IndexInv, IndexTypeOK
  <2>. QED  BY <2>1 DEF IndexInv, IndexTypeOK, HashTellsText, SyncBooks
<1>2. ASSUME WatchTimer \/ Search \/ ForcedSync PROVE IndexInv'
  <2>1. /\ UNCHANGED <<disk, hasMeta, fileEdits>>
        /\ {hasMeta', dirty', noticed', watchTimer'} \subseteq BOOLEAN
    BY <1>2 DEF WatchTimer, Search, ForcedSync, IndexInv, IndexTypeOK
  <2>2. Sync(FALSE) \/ Sync(TRUE)
    BY <1>2 DEF WatchTimer, Search, ForcedSync
  <2>. QED  BY <2>1, <2>2, SyncStep
<1>3. IndexInv'
  BY <1>1, <1>2, EditFileStep, ListStep, CompareStep, CompareFailsStep, SyncEndsStep DEF IndexNext
<1>4. CatchesUp
  <2>1. SyncEnds => CatchesUp
    BY SyncEndsStep
  <2>. QED  BY <2>1 DEF CatchesUp
<1>. QED  BY <1>3, <1>4

LEMMA IndexInvariant == IndexSpec => []IndexInv
<1>1. IndexInit => IndexInv
  <2>. SUFFICES ASSUME IndexInit PROVE IndexInv
    OBVIOUS
  <2>1. 0 \in Content /\ 0 \in 0..MaxFileEdits
    BY IndexAssumption DEF Content
  <2>2. Unindexed \in [hash : Content, text : Content] /\ Unindexed.hash = 0 /\ Unindexed.text = 0
    BY <2>1 DEF Unindexed
  <2>3. IndexTypeOK
    BY <2>1, <2>2 DEF IndexInit, IndexTypeOK
  <2>4. HashTellsText /\ SyncBooks
    BY <2>2 DEF IndexInit, HashTellsText, SyncBooks
  <2>. QED  BY <2>3, <2>4 DEF IndexInv
<1>. QED  BY <1>1, IndexStep, PTL DEF IndexSpec

\* However files change while they are read and whichever syncs fail: what the
\* next sync will not read again is indexed as it is.
THEOREM SkippedFilesAreCurrent == IndexSpec => []HashTellsText
<1>1. IndexInv => HashTellsText
  BY DEF IndexInv
<1>. QED  BY <1>1, IndexInvariant, PTL

\* The safety half of IndexCatchesUp: a sync that nobody interferes with makes
\* up for everything that went wrong before it.
THEOREM QuietSyncsCatchUp == IndexSpec => [][CatchesUp]_indexVars
<1>1. IndexInv /\ [IndexNext]_indexVars => [CatchesUp]_indexVars
  BY IndexStep
<1>. QED  BY <1>1, IndexInvariant, PTL DEF IndexSpec

---------------------------------------------------------------------------
(* Reminders: the types of the table and of the runner.                    *)

\* A batch is of a tick, and no longer than asked for; messages are those of
\* commands.  That what fires has a message is not told apart here: it is the
\* one of its row (Asks).
RunnerBounds ==
  /\ clock <= Horizon /\ edits <= MaxEdits /\ kills \in 0..MaxKills
  /\ ticking \in BOOLEAN /\ firing \in BOOLEAN
  /\ firing \/ batch # <<>> => ticking
  /\ Len(batch) <= BatchSize
  /\ \A i \in Reminders : row[i].message <= MaxEdits /\ fired[i].message <= MaxEdits

LEMMA CommandsBounded ==
  ASSUME RemInv, RunnerBounds, NEW i \in Reminders,
         WriteReminder(i) \/ SnoozeReminder(i) \/ CancelReminder(i)
  PROVE  RunnerBounds'
<1>. USE RemindersAssumption
<1>1. /\ row \in [Reminders -> Rows] /\ edits \in Nat /\ row[i] \in Rows
      /\ row[i].message \in Nat /\ row[i].message <= MaxEdits
  BY DEF RemInv, RunnerBounds, Rows
<1>2. UNCHANGED <<clock, ticking, batch, firing, fired, kills>>
  BY DEF WriteReminder, SnoozeReminder, CancelReminder, Edit
<1>3. PICK new : /\ row' = [row EXCEPT ![i] = new] /\ new.message <= MaxEdits
                 /\ edits' <= MaxEdits
  <2>1. CASE WriteReminder(i)
    <3>1. PICK s \in Asked : \E t \in NextRun(s, clock) :
            Edit(i, [enabled |-> TRUE, next |-> t, message |-> edits + 1, schedule |-> s])
      BY <2>1 DEF WriteReminder
    <3>2. PICK t \in NextRun(s, clock) :
            Edit(i, [enabled |-> TRUE, next |-> t, message |-> edits + 1, schedule |-> s])
      BY <3>1
    <3>. DEFINE new == [enabled |-> TRUE, next |-> t, message |-> edits + 1, schedule |-> s]
    <3>3. new.message = edits + 1 /\ edits' = edits + 1 /\ edits + 1 <= MaxEdits
      BY <1>1, <3>2 DEF Edit
    <3>4. row' = [row EXCEPT ![i] = new]
      BY <3>2 DEF Edit
    <3>. HIDE DEF new
    <3>. QED  BY <3>3, <3>4
  <2>2. CASE SnoozeReminder(i)
    <3>1. PICK d \in Delays : Edit(i, [row[i] EXCEPT !.enabled = TRUE, !.next = clock + d])
      BY <2>2 DEF SnoozeReminder
    <3>. DEFINE new == [row[i] EXCEPT !.enabled = TRUE, !.next = clock + d]
    <3>2. new.message = row[i].message
      BY <1>1 DEF Rows
    <3>3. row' = [row EXCEPT ![i] = new] /\ edits' <= MaxEdits
      BY <1>1, <3>1 DEF Edit
    <3>. HIDE DEF new
    <3>. QED  BY <1>1, <3>2, <3>3
  <2>3. CASE CancelReminder(i)
    <3>1. /\ row' = [row EXCEPT ![i] = [row[i] EXCEPT !.enabled = FALSE]]
          /\ edits' = edits
      BY <2>3 DEF CancelReminder
    <3>2. [row[i] EXCEPT !.enabled = FALSE].message = row[i].message
      BY <1>1 DEF Rows
    <3>. QED  BY <1>1, <3>1, <3>2 DEF RunnerBounds
  <2>. QED  BY <2>1, <2>2, <2>3
<1>4. \A j \in Reminders : row'[j] = IF j = i THEN new ELSE row[j]
  BY <1>1, <1>3
<1>. QED  BY <1>2, <1>3, <1>4 DEF RunnerBounds

LEMMA TickBounded ==
  ASSUME RemInv, RunnerBounds, TickBegin
  PROVE  RunnerBounds'
<1>. USE RemindersAssumption
<1>. DEFINE D == {i \in Reminders : Due(i)}
            n == IF Cardinality(D) < BatchSize THEN Cardinality(D) ELSE BatchSize
<1>1. n \in Nat /\ n <= BatchSize
  BY FS_Subset, FS_CardinalityType
<1>2. PICK q \in [1..n -> D] : batch' = [k \in 1..n |-> Copy(q[k])]
  BY DEF TickBegin, DueBatches
<1>. HIDE DEF n, D
<1>3. Len(batch') = n
  BY <1>1, <1>2
<1>. QED  BY <1>1, <1>3 DEF TickBegin, RunnerBounds

LEMMA ItemBounded ==
  ASSUME RemInv, RunnerBounds, TickItem
  PROVE  RunnerBounds'
<1>1. /\ batch \in Seq(Copies) /\ batch # <<>> /\ batch' = Tail(batch)
      /\ UNCHANGED <<clock, ticking, edits, kills>> /\ ticking /\ firing' \in BOOLEAN
  BY DEF RemInv, TickItem, RunnerBounds
<1>2. Head(batch).id \in Reminders /\ Len(batch') = Len(batch) - 1 /\ Len(batch) \in Nat
  <2>1. Head(batch) \in Copies /\ Len(batch') = Len(batch) - 1 /\ Len(batch) \in Nat
    BY <1>1
  <2>. QED  BY <2>1 DEF Copies
<1>3. /\ row' \in [Reminders -> Rows] /\ fired' \in [Reminders -> [at : Nat, message : Nat]]
      /\ row \in [Reminders -> Rows] /\ Asks
  BY TickItems DEF RemInv
<1>4. \A i \in Reminders : row'[i].message = row[i].message
  <2>1. CASE UNCHANGED row
    BY <2>1
  <2>2. ASSUME NEW t, NEW keep, MarkFired(Head(batch), t, keep)
        PROVE  \A i \in Reminders : row'[i].message = row[i].message
    <3>. DEFINE h == Head(batch).id
                new == [row[h] EXCEPT !.next = t, !.enabled = keep]
    <3>1. row' = [row EXCEPT ![h] = new]
      BY <1>2, <1>3, <2>2 DEF MarkFired
    <3>2. new.message = row[h].message
      BY <1>2, <1>3 DEF Rows
    <3>. HIDE DEF new
    <3>. QED  BY <1>2, <1>3, <3>1, <3>2
  <2>. QED  BY <2>1, <2>2 DEF TickItem, Claimed
<1>5. \A i \in Reminders : fired'[i].message \in {fired[i].message, row[i].message}
  BY <1>3 DEF Asks
<1>. QED  BY <1>1, <1>2, <1>4, <1>5, RemindersAssumption DEF RunnerBounds

\* The table and the runner keep their types: what is enabled has a time.
THEOREM ReminderTypesHold == RemindersSpec => []RemindersTypeOK
<1>1. RemindersInit => RunnerBounds
  <2>. SUFFICES ASSUME RemindersInit PROVE RunnerBounds
    OBVIOUS
  <2>1. NoRow.message = 0
    BY DEF NoRow
  <2>2. \A i \in Reminders : row[i].message = 0 /\ fired[i].message = 0
    BY <2>1 DEF RemindersInit
  <2>3. Len(batch) = 0 /\ batch = <<>>
    BY DEF RemindersInit
  <2>4. ticking \in BOOLEAN /\ firing \in BOOLEAN /\ (firing \/ batch # <<>> => ticking)
    BY Zenon DEF RemindersInit
  <2>. QED  BY <2>2, <2>3, <2>4, RemindersAssumption DEF RemindersInit, RunnerBounds
<1>2. RemInv /\ RunnerBounds /\ [RemindersNext]_reminderVars => RunnerBounds'
  <2>. SUFFICES ASSUME RemInv, RunnerBounds, [RemindersNext]_reminderVars PROVE RunnerBounds'
    OBVIOUS
  <2>. DEFINE Flags == ticking \in BOOLEAN /\ firing \in BOOLEAN /\ (firing \/ batch # <<>> => ticking)
  <2>0. Flags
    BY DEF RunnerBounds
  <2>1. CASE JobReturns \/ TickEnd \/ UNCHANGED reminderVars
    <3>1. UNCHANGED <<clock, row, batch, fired, edits, kills>>
      BY <2>1 DEF JobReturns, TickEnd, reminderVars
    <3>2. CASE JobReturns
      <4>1. firing' = FALSE /\ ticking' = ticking /\ batch' = batch
        BY <3>2 DEF JobReturns
      <4>. QED  BY <2>0, <3>1, <4>1 DEF RunnerBounds
    <3>3. CASE TickEnd
      <4>1. ticking' = FALSE /\ ~firing /\ firing' = firing /\ batch' = <<>>
        BY <3>3 DEF TickEnd
      <4>. QED  BY <2>0, <3>1, <4>1 DEF RunnerBounds
    <3>4. CASE UNCHANGED reminderVars
      <4>1. UNCHANGED <<ticking, firing, batch>>
        BY <3>4 DEF reminderVars
      <4>. QED  BY <2>0, <3>1, <4>1 DEF RunnerBounds
    <3>. QED  BY <2>1, <3>2, <3>3, <3>4
  <2>2. CASE ClockTick
    BY <2>2, RemindersAssumption DEF ClockTick, RunnerBounds, RemInv
  <2>3. CASE KillHost
    <3>0. ticking' = FALSE /\ firing' = FALSE /\ batch' = <<>>
      BY <2>3 DEF KillHost
    <3>1. ~firing' /\ ticking' \in BOOLEAN /\ firing' \in BOOLEAN
      BY <3>0, Zenon
    <3>2. /\ UNCHANGED <<clock, row, fired, edits>> /\ Len(batch') = 0
          /\ kills' = kills + 1 /\ kills < MaxKills
      BY <2>3 DEF KillHost
    <3>. QED  BY <3>0, <3>1, <3>2, RemindersAssumption DEF RunnerBounds
  <2>. QED  BY <2>1, <2>2, <2>3, CommandsBounded, TickBounded, ItemBounded DEF RemindersNext
<1>3. RemInv /\ RunnerBounds => RemindersTypeOK
  <2>. SUFFICES ASSUME RemInv, RunnerBounds PROVE RemindersTypeOK
    OBVIOUS
  <2>1. \A i \in Reminders :
          /\ row[i].enabled \in BOOLEAN /\ row[i].next \in Nat /\ row[i].message \in Nat
          /\ fired[i].at \in Nat /\ fired[i].message \in Nat
    BY DEF RemInv, Rows
  <2>. QED  BY <2>1, RemindersAssumption DEF RemInv, RowBooks, RunnerBounds, RemindersTypeOK, Never
<1>. QED  BY <1>1, <1>2, <1>3, RemInvariant, PTL DEF RemindersSpec
---------------------------------------------------------------------------
(* The model calls of a session: the types.                                *)

ModelStates == [locked : Models \cup {NoModel}, override : Models \cup {NoModel},
                active : Models \cup {NoModel}]

\* What the agent manager leaves of the session is a state of the session,
\* also when a call throws; what it wants is a model.
LEMMA ManagerKeepsStates ==
  ASSUME NEW s \in ModelStates, NEW m \in Models, NEW persist \in BOOLEAN
  PROVE  /\ Wanted(s) \in Models /\ ClearOverride(s) \in ModelStates
         /\ SetModel(s, m, persist) \in ModelStates
         /\ SetModelFailed(s, m, persist) \subseteq ModelStates
<1>. USE AttemptsAssumption
<1>1. Wanted(s) \in Models
  BY DEF Wanted, ModelStates
<1>2. ClearOverride(s) \in ModelStates
  BY DEF ClearOverride, ModelStates
<1>3. Recorded(s, m, persist) \in ModelStates
  BY DEF Recorded, ModelStates
<1>4. SetModelFailed(s, m, persist) \subseteq ModelStates
  BY <1>3 DEF SetModelFailed
<1>5. SetModel(s, m, persist) \in ModelStates
  BY <1>3 DEF SetModel, ModelStates
<1>. QED  BY <1>1, <1>2, <1>4, <1>5

LEMMA AgentKeepsStates ==
  ASSUME NEW s \in ModelStates
  PROVE  GetAgent(s) \in ModelStates /\ GetAgentFailed(s) \subseteq ModelStates
<1>. DEFINE m == Wanted(s)
            k == IF s.active \in {NoModel, m} THEN s ELSE SetModel(s, m, FALSE)
<1>1. m \in Models
  BY AttemptsAssumption DEF Wanted, ModelStates
<1>2. SetModel(s, m, FALSE) \in ModelStates /\ SetModelFailed(s, m, FALSE) \subseteq ModelStates
  BY <1>1, ManagerKeepsStates
<1>3. k \in ModelStates
  BY <1>2
<1>4. GetAgent(s) = [k EXCEPT !.active = m]
  BY DEF GetAgent
<1>5. GetAgentFailed(s) \subseteq {s, SetModel(s, m, FALSE)} \cup SetModelFailed(s, m, FALSE)
  BY DEF GetAgentFailed
<1>. HIDE DEF m, k
<1>6. GetAgent(s) \in ModelStates
  BY <1>1, <1>3, <1>4 DEF ModelStates
<1>. QED  BY <1>2, <1>5, <1>6

\* A turn that prompts has a model, which it has tried when it falls back.
PromptsHaveModels == \A t \in Turns : turnAt[t] = "prompting" => modelOf[t] # NoModel

AttemptTypesInv == AttemptsTypeOK /\ PromptsHaveModels

LEMMA AttemptTypesStep ==
  ASSUME AttemptTypesInv, NEW t \in Turns, NEW at \in TurnStages, Goes(t, at),
         model' \in ModelStates, modelOf' \in [Turns -> Models \cup {NoModel}],
         tried' \in [Turns -> SUBSET Models],
         restoreTo' \in [Turns -> Models \cup {NoModel}],
         \A u \in Turns \ {t} : modelOf'[u] = modelOf[u],
         at = "prompting" => modelOf'[t] # NoModel,
         aborted' \subseteq Turns, superseded' \subseteq aborted',
         activeRun' \in Turns \cup {NoTurn}, interrupted' \in BOOLEAN,
         modelFaults' \in 0..MaxModelFaults,
         UNCHANGED <<picked, picks>>
  PROVE  AttemptTypesInv'
<1>1. turnAt' = [turnAt EXCEPT ![t] = at] /\ turnAt \in [Turns -> TurnStages]
  BY DEF Goes, AttemptTypesInv, AttemptsTypeOK
<1>. QED  BY <1>1 DEF AttemptTypesInv, AttemptsTypeOK, PromptsHaveModels, ModelStates
\* The steps of a turn, by what they do to the model's state and to the turn.
LEMMA TurnTypesStep ==
  ASSUME AttemptTypesInv, NEW t \in Turns,
         \/ Begin(t) \/ Route(t) \/ Prepare(t) \/ Attempt(t) \/ PromptReturns(t)
         \/ GiveUp(t) \/ Compacted(t) \/ CompactionFails(t) \/ FallBack(t)
  PROVE  AttemptTypesInv'
<1>. USE AttemptsAssumption
<1>1. /\ model \in ModelStates /\ modelOf \in [Turns -> Models \cup {NoModel}]
      /\ tried \in [Turns -> SUBSET Models] /\ restoreTo \in [Turns -> Models \cup {NoModel}]
      /\ aborted \subseteq Turns /\ superseded \subseteq aborted
      /\ activeRun \in Turns \cup {NoTurn} /\ interrupted \in BOOLEAN
      /\ modelFaults \in 0..MaxModelFaults
  BY DEF AttemptTypesInv, AttemptsTypeOK, ModelStates
<1>2. /\ Wanted(model) \in Models /\ ClearOverride(model) \in ModelStates
      /\ \A m \in Models, persist \in BOOLEAN : SetModel(model, m, persist) \in ModelStates
  BY <1>1, ManagerKeepsStates
<1>3. GetAgent(model) \in ModelStates
  BY <1>1, AgentKeepsStates
<1>4. /\ ClearOverride(GetAgent(model)) \in ModelStates
      /\ \A m \in Models : SetModel(GetAgent(model), m, FALSE) \in ModelStates
  BY <1>3, ManagerKeepsStates
<1>5. {"routing", "ready", "trying", "prompting", "answered", "ended"} \subseteq TurnStages
  BY DEF TurnStages
<1>6. CASE Begin(t)
  <2>1. model' \in ModelStates
    <3>1. [model EXCEPT !.override = NoModel, !.active = NoModel] \in ModelStates
      BY <1>1 DEF ModelStates
    <3>. QED  BY <1>1, <1>6, <3>1 DEF Begin
  <2>2. aborted' \subseteq Turns /\ superseded' \subseteq aborted'
    BY <1>1, <1>6 DEF Begin, UnderWay
  <2>3. /\ Goes(t, "routing")
        /\ UNCHANGED <<picked, modelOf, tried, restoreTo, activeRun, interrupted,
                       modelFaults, picks>>
    BY <1>6 DEF Begin
  <2>. QED  BY <1>1, <1>5, <2>1, <2>2, <2>3, AttemptTypesStep
<1>7. CASE Route(t)
  <2>1. model' \in ModelStates /\ restoreTo' \in [Turns -> Models \cup {NoModel}]
    <3>1. CASE UNCHANGED <<model, restoreTo>>
      BY <1>1, <3>1
    <3>2. CASE /\ model' = SetModel(GetAgent(model), MediaModel, FALSE)
               /\ restoreTo' = [restoreTo EXCEPT
                    ![t] = IF Wanted(model) = MediaModel THEN NoModel ELSE Wanted(model)]
      <4>1. MediaModel \in Models
        OBVIOUS
      <4>. QED  BY <1>1, <1>2, <1>4, <3>2, <4>1
    <3>. QED  BY <1>7, <3>1, <3>2 DEF Route
  <2>2. /\ Goes(t, "ready")
        /\ UNCHANGED <<picked, modelOf, tried, aborted, superseded, activeRun, interrupted,
                       modelFaults, picks>>
    BY <1>7 DEF Route, signalVars
  <2>. QED  BY <1>1, <1>5, <2>1, <2>2, AttemptTypesStep
<1>8. CASE Prepare(t)
  <2>1. PICK at \in {"trying", "ended"} :
          /\ Goes(t, at)
          /\ UNCHANGED <<model, picked, modelOf, tried, restoreTo, aborted, superseded,
                         activeRun, interrupted, modelFaults, picks>>
    <3>1. UNCHANGED <<model, picked, modelOf, tried, restoreTo, aborted, superseded,
                      activeRun, interrupted, modelFaults, picks>>
      BY <1>8 DEF Prepare, signalVars
    <3>2. Goes(t, "trying") \/ Goes(t, "ended")
      BY <1>8 DEF Prepare
    <3>. QED  BY <3>1, <3>2
  <2>. QED  BY <1>1, <1>5, <2>1, AttemptTypesStep
<1>9. CASE Attempt(t)
  <2>1. /\ model' \in ModelStates /\ modelOf' \in [Turns -> Models \cup {NoModel}]
        /\ modelOf'[t] # NoModel /\ \A u \in Turns \ {t} : modelOf'[u] = modelOf[u]
        /\ activeRun' = t /\ interrupted' = FALSE
    BY <1>1, <1>2, <1>3, <1>9 DEF Attempt
  <2>2. /\ Goes(t, "prompting")
        /\ UNCHANGED <<picked, tried, restoreTo, aborted, superseded, modelFaults, picks>>
    BY <1>9 DEF Attempt
  <2>. QED  BY <1>1, <1>5, <2>1, <2>2, AttemptTypesStep
<1>10. CASE PromptReturns(t) \/ GiveUp(t)
  <2>1. PICK at \in {"answered", "ended"} :
          /\ Goes(t, at) /\ model' = ClearOverride(model)
          /\ activeRun' = NoTurn /\ interrupted' = FALSE
          /\ UNCHANGED <<picked, modelOf, tried, restoreTo, aborted, superseded,
                         modelFaults, picks>>
    BY <1>10 DEF PromptReturns, GiveUp, Unregister
  <2>. QED  BY <1>1, <1>2, <1>5, <2>1, AttemptTypesStep
<1>11. CASE Compacted(t) \/ CompactionFails(t)
  <2>1. PICK at \in {"trying", "ended"} :
          /\ Goes(t, at) /\ model' \in {GetAgent(model), ClearOverride(GetAgent(model))}
          /\ activeRun' = NoTurn /\ interrupted' = FALSE
          /\ UNCHANGED <<picked, modelOf, tried, restoreTo, aborted, superseded,
                         modelFaults, picks>>
    BY <1>11 DEF Compacted, CompactionFails, Unregister
  <2>. QED  BY <1>1, <1>3, <1>4, <1>5, <2>1, AttemptTypesStep
<1>12. CASE FallBack(t)
  <2>1. \A known : Untried(known) \subseteq Models
    BY DEF Untried
  <2>2. PICK at \in {"trying", "ended"} :
          /\ Goes(t, at)
          /\ model' = ClearOverride(model)
             \/ \E m \in Untried(tried'[t]) : model' = SetModel(model, m, FALSE)
    BY <1>12 DEF FallBack
  <2>3. model' \in ModelStates
    BY <1>2, <2>1, <2>2
  <2>4. modelOf[t] \in Models
    BY <1>1, <1>12 DEF FallBack, AttemptTypesInv, PromptsHaveModels
  <2>5. tried' \in [Turns -> SUBSET Models]
    BY <1>1, <1>12, <2>4 DEF FallBack
  <2>6. /\ activeRun' = NoTurn /\ interrupted' = FALSE
        /\ UNCHANGED <<picked, modelOf, restoreTo, aborted, superseded, modelFaults, picks>>
    BY <1>12 DEF FallBack, Unregister
  <2>. QED  BY <1>1, <1>5, <2>2, <2>3, <2>5, <2>6, AttemptTypesStep
<1>. QED  BY <1>6, <1>7, <1>8, <1>9, <1>10, <1>11, <1>12

\* The steps in which a call of the agent manager throws, and the two last ones
\* of a turn, in which one may.
LEMMA FaultTypes ==
  ASSUME AttemptTypesInv, NEW states, states \subseteq ModelStates, FaultOf(states)
  PROVE  model' \in ModelStates /\ modelFaults' \in 0..MaxModelFaults
BY AttemptsAssumption DEF FaultOf, AttemptTypesInv, AttemptsTypeOK

LEMMA EndTypesStep ==
  ASSUME AttemptTypesInv, NEW t \in Turns,
         RouteFails(t) \/ NoAgent(t) \/ FallBackFails(t) \/ Summarise(t) \/ Cleanup(t)
  PROVE  AttemptTypesInv'
<1>. USE AttemptsAssumption
<1>1. /\ model \in ModelStates /\ modelOf \in [Turns -> Models \cup {NoModel}]
      /\ tried \in [Turns -> SUBSET Models] /\ restoreTo \in [Turns -> Models \cup {NoModel}]
      /\ aborted \subseteq Turns /\ superseded \subseteq aborted
      /\ activeRun \in Turns \cup {NoTurn} /\ interrupted \in BOOLEAN
      /\ modelFaults \in 0..MaxModelFaults
  BY DEF AttemptTypesInv, AttemptsTypeOK, ModelStates
<1>2. \A m \in Models, persist \in BOOLEAN :
        /\ SetModel(model, m, persist) \in ModelStates
        /\ SetModelFailed(model, m, persist) \subseteq ModelStates
  BY <1>1, ManagerKeepsStates
<1>3. GetAgent(model) \in ModelStates /\ GetAgentFailed(model) \subseteq ModelStates
  BY <1>1, AgentKeepsStates
<1>4. \A s \in ModelStates : ClearOverride(s) \in ModelStates
  BY DEF ClearOverride, ModelStates
<1>5. {"ended", "over"} \subseteq TurnStages
  BY DEF TurnStages
<1>6. CASE RouteFails(t)
  <2>1. /\ SetModel(GetAgent(model), MediaModel, FALSE) \in ModelStates
        /\ SetModelFailed(GetAgent(model), MediaModel, FALSE) \subseteq ModelStates
    BY <1>3, ManagerKeepsStates
  <2>2. model' \in ModelStates /\ modelFaults' \in 0..MaxModelFaults
    BY <1>3, <1>6, <2>1, FaultTypes DEF RouteFails
  <2>3. /\ Goes(t, "ended")
        /\ UNCHANGED <<picked, modelOf, tried, restoreTo, aborted, superseded, activeRun,
                       interrupted, picks>>
    BY <1>6 DEF RouteFails, signalVars
  <2>. QED  BY <1>1, <1>5, <2>2, <2>3, AttemptTypesStep
<1>7. CASE NoAgent(t)
  <2>1. model' \in ModelStates /\ modelFaults' \in 0..MaxModelFaults
    <3>1. {ClearOverride(s) : s \in GetAgentFailed(model)} \subseteq ModelStates
      BY <1>3, <1>4
    <3>. QED  BY <1>7, <3>1, FaultTypes DEF NoAgent
  <2>2. /\ Goes(t, "ended")
        /\ UNCHANGED <<picked, modelOf, tried, restoreTo, aborted, superseded, activeRun,
                       interrupted, picks>>
    BY <1>7 DEF NoAgent, signalVars
  <2>. QED  BY <1>1, <1>5, <2>1, <2>2, AttemptTypesStep
<1>8. CASE FallBackFails(t)
  <2>1. model' \in ModelStates /\ modelFaults' \in 0..MaxModelFaults
    <3>1. PICK m \in Untried(tried[t] \cup {modelOf[t]}) :
            FaultOf({ClearOverride(s) : s \in SetModelFailed(model, m, FALSE)})
      BY <1>8 DEF FallBackFails
    <3>2. m \in Models
      BY DEF Untried
    <3>3. {ClearOverride(s) : s \in SetModelFailed(model, m, FALSE)} \subseteq ModelStates
      BY <1>2, <1>4, <3>2
    <3>. QED  BY <3>1, <3>3, FaultTypes
  <2>2. /\ Goes(t, "ended") /\ activeRun' = NoTurn /\ interrupted' = FALSE
        /\ UNCHANGED <<picked, modelOf, tried, restoreTo, aborted, superseded, picks>>
    BY <1>8 DEF FallBackFails, Unregister
  <2>. QED  BY <1>1, <1>5, <2>1, <2>2, AttemptTypesStep
<1>9. CASE Summarise(t)
  <2>1. model' \in ModelStates /\ modelFaults' \in 0..MaxModelFaults
    BY <1>1, <1>3, <1>9, FaultTypes DEF Summarise
  <2>2. /\ Goes(t, "ended")
        /\ UNCHANGED <<picked, modelOf, tried, restoreTo, aborted, superseded, activeRun,
                       interrupted, picks>>
    BY <1>9 DEF Summarise, signalVars
  <2>. QED  BY <1>1, <1>5, <2>1, <2>2, AttemptTypesStep
<1>10. CASE Cleanup(t)
  <2>1. model' \in ModelStates /\ modelFaults' \in 0..MaxModelFaults
    <3>1. restoreTo[t] # NoModel => restoreTo[t] \in Models
      BY <1>1
    <3>. QED  BY <1>1, <1>2, <1>10, <3>1, FaultTypes DEF Cleanup
  <2>2. /\ modelOf' \in [Turns -> Models \cup {NoModel}]
        /\ tried' \in [Turns -> SUBSET Models]
        /\ restoreTo' \in [Turns -> Models \cup {NoModel}]
        /\ \A u \in Turns \ {t} : modelOf'[u] = modelOf[u]
    BY <1>1, <1>10 DEF Cleanup
  <2>3. /\ Goes(t, "over")
        /\ UNCHANGED <<picked, aborted, superseded, activeRun, interrupted, picks>>
    BY <1>10 DEF Cleanup, signalVars
  <2>. QED  BY <1>1, <1>5, <2>1, <2>2, <2>3, AttemptTypesStep
<1>. QED  BY <1>6, <1>7, <1>8, <1>9, <1>10

\* The session's model state and the turns keep their types: a fallback that
\* was tried is a model, and a superseded run is an aborted one.
THEOREM AttemptTypesHold == AttemptsSpec => []AttemptsTypeOK
<1>. USE AttemptsAssumption
<1>1. AttemptsInit => AttemptTypesInv
  <2>. SUFFICES ASSUME AttemptsInit PROVE AttemptTypesInv
    OBVIOUS
  <2>1. /\ model = [locked |-> NoModel, override |-> NoModel, active |-> NoModel]
        /\ turnAt = [t \in Turns |-> "idle"] /\ modelOf = [t \in Turns |-> NoModel]
        /\ tried = [t \in Turns |-> {}] /\ restoreTo = [t \in Turns |-> NoModel]
        /\ picked = DefaultModel /\ aborted = {} /\ superseded = {}
        /\ activeRun = NoTurn /\ interrupted = FALSE
        /\ modelFaults = 0 /\ picks = 0
    BY DEF AttemptsInit
  <2>2. /\ modelFaults \in 0..MaxModelFaults
        /\ picks \in 0..MaxPicks
    BY <2>1
  <2>3. "idle" \in TurnStages /\ "idle" # "prompting"
    BY DEF TurnStages
  <2>. QED  BY <2>1, <2>2, <2>3 DEF AttemptTypesInv, AttemptsTypeOK, PromptsHaveModels
<1>2. AttemptTypesInv /\ [AttemptsNext]_attemptVars => AttemptTypesInv'
  <2>. SUFFICES ASSUME AttemptTypesInv, [AttemptsNext]_attemptVars PROVE AttemptTypesInv'
    OBVIOUS
  <2>1. CASE Abort
    <3>1. /\ aborted' = aborted \cup UnderWay /\ UnderWay \subseteq Turns
          /\ interrupted' \in {interrupted, interrupted \/ activeRun # NoTurn}
          /\ UNCHANGED <<model, picked, turnAt, modelOf, tried, restoreTo, superseded,
                         activeRun, modelFaults, picks>>
      BY <2>1 DEF Abort, UnderWay, turnVars
    <3>2. interrupted' \in BOOLEAN
      BY <3>1 DEF AttemptTypesInv, AttemptsTypeOK
    <3>. QED  BY <3>1, <3>2 DEF AttemptTypesInv, AttemptsTypeOK, PromptsHaveModels
  <2>2. ASSUME NEW m \in Models, Pick(m) PROVE AttemptTypesInv'
    <3>1. model \in ModelStates /\ modelFaults \in 0..MaxModelFaults
      BY DEF AttemptTypesInv, AttemptsTypeOK, ModelStates
    <3>2. SetModel(model, m, TRUE) \in ModelStates
          /\ SetModelFailed(model, m, TRUE) \subseteq ModelStates
      BY <3>1, ManagerKeepsStates
    <3>3. model' \in ModelStates /\ modelFaults' \in 0..MaxModelFaults
      BY <2>2, <3>1, <3>2, FaultTypes DEF Pick
    <3>4. /\ picked' = m /\ picks < MaxPicks /\ picks' = picks + 1
          /\ UNCHANGED <<turnAt, modelOf, tried, restoreTo, aborted, superseded, activeRun, interrupted>>
      BY <2>2 DEF Pick, turnVars, signalVars
    <3>. QED  BY <3>3, <3>4 DEF AttemptTypesInv, AttemptsTypeOK, PromptsHaveModels, ModelStates
  <2>3. CASE UNCHANGED attemptVars
    BY <2>3 DEF attemptVars, turnVars, signalVars, AttemptTypesInv, AttemptsTypeOK,
                PromptsHaveModels
  <2>. QED  BY <2>1, <2>2, <2>3, TurnTypesStep, EndTypesStep DEF AttemptsNext
<1>3. AttemptTypesInv => AttemptsTypeOK
  BY DEF AttemptTypesInv
<1>. QED  BY <1>1, <1>2, <1>3, PTL DEF AttemptsSpec
---------------------------------------------------------------------------
(* The services beside each other.  A behaviour of the composition is one  *)
(* of every part: what is proved of a part alone holds of the whole.       *)

LEMMA PartSteps ==
  ASSUME [MCNext]_mcVars
  PROVE  /\ [RemindersNext]_reminderVars /\ [CronNext]_cronVars
         /\ [HeartbeatNext]_beatVars /\ [AcpNext]_acpVars /\ [RelayNext]_relayVars
         /\ [AttemptsNext]_attemptVars /\ [ReplyNext]_replyVars /\ [IndexNext]_indexVars
         /\ [TranscriptsNext]_transcriptVars /\ [BridgeNext]_bridgeVars
<1>1. CASE MCNext
  BY <1>1 DEF MCNext
<1>2. CASE UNCHANGED mcVars
  BY <1>2 DEF mcVars, parts
<1>. QED  BY <1>1, <1>2

\* Each part of the composition runs as it is specified: no part changes the
\* state of another one.
THEOREM PartsRunAsSpecified ==
  MCSpec => /\ RemindersSpec /\ CronSpec /\ HeartbeatSpec /\ AcpSpec /\ RelaySpec
            /\ AttemptsSpec /\ ReplySpec /\ IndexSpec /\ TranscriptsSpec /\ BridgeSpec
<1>1. MCInit => /\ RemindersInit /\ CronInit /\ HeartbeatInit /\ AcpInit /\ RelayInit
                /\ AttemptsInit /\ ReplyInit /\ IndexInit /\ TranscriptsInit /\ BridgeInit
  BY DEF MCInit
<1>. QED
  BY <1>1, PartSteps, PTL
  DEF MCSpec, RemindersSpec, CronSpec, HeartbeatSpec, AcpSpec, RelaySpec, AttemptsSpec,
      ReplySpec, IndexSpec, TranscriptsSpec, BridgeSpec

\* The state of every service keeps its type, for any values of the constants.
THEOREM ServicesKeepTypes == MCSpec => []ServicesTypeOK
<1>1. CronInv => CronTypeOK
  BY DEF CronInv
<1>2. BeatInv => HeartbeatTypeOK
  BY DEF BeatInv
<1>3. AcpInv => AcpTypeOK
  BY DEF AcpInv
<1>4. RelayInv => RelayTypeOK
  BY DEF RelayInv
<1>5. ReplyInv => ReplyTypeOK
  BY DEF ReplyInv
<1>6. IndexInv => IndexTypeOK
  BY DEF IndexInv
<1>7. TranscriptsInv => TranscriptsTypeOK
  BY DEF TranscriptsInv
<1>. QED
  BY <1>1, <1>2, <1>3, <1>4, <1>5, <1>6, <1>7, PartsRunAsSpecified, ReminderTypesHold,
     CronInvariant, BeatInvariant, AcpInvariant, RelayInvariant, AttemptTypesHold,
     ReplyInvariant, IndexInvariant, TranscriptsInvariant, BridgeTypesHold, PTL
  DEF ServicesTypeOK

\* With the exceptions each of these properties names, nothing the services do, in
\* any order, leaves a timer that cannot be cleared, or a recurring job that has a
\* next run without one; loses an event other than to the end of a triage or, when
\* it is the oldest, to a full queue; runs two operations of a session at once;
\* shows a client other targets than the relay has; leaves a model switched; ends
\* a reply with another text; leaves a request without its stream; skips a changed
\* file; gives a model a transcript its provider refuses; or fires a reminder that
\* the table does not ask for.
THEOREM ServicesStaySafe ==
  MCSpec => /\ [](CronAlive /\ EventsAccounted /\ OpsSerialized /\ RelayConsistent)
            /\ [](ModelsRestored /\ FinalTextWins /\ ContextAccepted)
            /\ [](WaitersHaveStreams /\ HashTellsText)
            /\ FiredAsAsked
BY PartsRunAsSpecified, CronStaysAlive, NoEventIsLost, SessionsAreSerial,
   RelayStaysConsistent, ModelsComeBack, RepliesEndWithTheirText, ContextIsAccepted,
   NoRequestIsOrphaned, SkippedFilesAreCurrent, FiresWhatIsAsked, PTL
=============================================================================
