--------------------------- MODULE ServicesProofs ---------------------------
(***************************************************************************)
(* Theorems about services around the kernel, each for any value of its    *)
(* constants: the browser relay across reconnections of the extension, the *)
(* system events of overlapping heartbeats, the actor queue of the ACP     *)
(* control plane, the timers of the cron scheduler, the reminders, the     *)
(* streamed reply of a turn, and the session's model across turns.         *)
(***************************************************************************)
EXTENDS ExtensionRelay, Heartbeats, AcpSessions, CronTimers, Reminders,
        StreamingReply, PromptAttempts, FiniteSetTheorems, SequenceTheorems, TLAPS

---------------------------------------------------------------------------
(* The relay.                                                              *)

\* What RelayConsistent rests on.  A client is in cdpClients while it is open,
\* asks nothing before it connects, and is never told of a target that is gone;
\* what is pending was sent on a socket.
RelayBooks ==
  /\ \A w \in Clients :
       /\ client[w] = "open" => w \in cdpClients
       /\ client[w] = "new" => w \notin attached /\ seen[w] = {}
       /\ w \in Listeners => seen[w] \subseteq Connected
  /\ \A q \in Commands : command[q] = "pending" => via[q] # NoSocket

RelayInv == RelayTypeOK /\ RelayBooks /\ RelayConsistent

LEMMA RelayInvInit == RelayInit => RelayInv
BY RelayAssumption
   DEF RelayInit, RelayInv, RelayTypeOK, RelayBooks, RelayConsistent, ReadyState, CommandState,
       Listeners, Connected

LEMMA ExtensionConnectsStep ==
  ASSUME RelayInv, NEW c \in Sockets, ExtensionConnects(c)
  PROVE  RelayInv'
<1>. USE RelayAssumption DEF RelayInv
<1>1. RelayTypeOK'
  BY DEF ExtensionConnects, RelayTypeOK, ReadyState, clientVars, commandVars
<1>2. RelayBooks'
  BY DEF ExtensionConnects, RelayBooks, Listeners, Connected, clientVars, commandVars
<1>3. \A d \in Sockets : socket[d] # "open"
  BY DEF ExtensionConnects, ExtensionConnected, RelayConsistent, RelayTypeOK
<1>4. \A d \in Sockets : socket'[d] = "open" => d = extensionWs'
  BY <1>3 DEF ExtensionConnects, RelayTypeOK
<1>5. UNCHANGED <<clientVars, commandVars, connectedTargets>>
      /\ replaced' = replaced \cup ({extensionWs} \ {NoSocket})
  BY DEF ExtensionConnects
<1>6. \A q \in Commands : command'[q] = "pending" => via'[q] \in {extensionWs'} \cup replaced'
  BY <1>5 DEF RelayConsistent, RelayBooks, commandVars
<1>7. \A t \in Connected' : connectedTargets'[t] \in {extensionWs'} \cup replaced'
  BY <1>5 DEF RelayConsistent, Connected
<1>8. \A w \in attached' \cap Listeners' : seen'[w] = Connected'
  BY <1>5 DEF RelayConsistent, Connected, Listeners, clientVars
<1>. QED  BY <1>1, <1>2, <1>4, <1>6, <1>7, <1>8 DEF RelayConsistent

LEMMA SocketClosesStep ==
  ASSUME RelayInv, NEW c \in Sockets, SocketCloses(c)
  PROVE  RelayInv'
BY DEF RelayInv, SocketCloses, RelayTypeOK, RelayBooks, RelayConsistent, ReadyState, Listeners,
       Connected, clientVars, commandVars

\* The late close event of a replaced socket changes nothing but its state.
LEMMA CloseEventStep ==
  ASSUME RelayInv, NEW c \in Sockets, CloseEvent(c)
  PROVE  RelayInv'
<1>. USE DEF RelayInv
<1>1. RelayTypeOK'
  BY DEF CloseEvent, RelayTypeOK, ReadyState, CommandState
<1>2. CASE extensionWs # c
  BY <1>1, <1>2
     DEF CloseEvent, RelayTypeOK, RelayBooks, RelayConsistent, Listeners, Connected
<1>3. CASE extensionWs = c
  <2>1. \A d \in Sockets : socket'[d] # "open"
    BY <1>3 DEF CloseEvent, RelayTypeOK, RelayConsistent
  <2>2. Listeners' = {} /\ Connected' = {}
    BY <1>3 DEF CloseEvent, Listeners, Connected
  <2>3. \A q \in Commands : command'[q] # "pending"
    BY <1>3 DEF CloseEvent, RelayTypeOK
  <2>4. \A w \in Clients : /\ client'[w] # "open"
                           /\ client'[w] = "new" => client[w] = "new"
    BY <1>3 DEF CloseEvent, RelayTypeOK, RelayBooks
  <2>5. UNCHANGED <<attached, seen>>
    BY DEF CloseEvent
  <2>6. RelayBooks'
    BY <2>2, <2>3, <2>4, <2>5 DEF RelayBooks
  <2>. QED  BY <1>1, <2>1, <2>2, <2>3, <2>6 DEF RelayConsistent
<1>. QED  BY <1>2, <1>3

LEMMA ClientStep ==
  ASSUME RelayInv, NEW w \in Clients, ClientConnects(w) \/ ClientCloses(w) \/ AutoAttach(w)
  PROVE  RelayInv'
<1>. USE DEF RelayInv
<1>1. UNCHANGED <<socket, extensionWs, replaced, command, via, connectedTargets>>
  BY DEF ClientConnects, ClientCloses, AutoAttach, socketVars, commandVars
<1>2. RelayTypeOK'
  BY <1>1 DEF ClientConnects, ClientCloses, AutoAttach, RelayTypeOK, ReadyState, Connected
<1>3. Connected' = Connected
  BY <1>1 DEF Connected
<1>4. RelayBooks' /\ \A v \in attached' \cap Listeners' : seen'[v] = Connected'
  <2>1. CASE ClientConnects(w)
    BY <1>1, <1>3, <2>1 DEF ClientConnects, RelayTypeOK, RelayBooks, RelayConsistent, Listeners
  <2>2. CASE ClientCloses(w)
    BY <1>1, <1>3, <2>2 DEF ClientCloses, RelayTypeOK, RelayBooks, RelayConsistent, Listeners
  <2>3. CASE AutoAttach(w)
    BY <1>1, <1>3, <2>3 DEF AutoAttach, RelayTypeOK, RelayBooks, RelayConsistent, Listeners
  <2>. QED  BY <2>1, <2>2, <2>3
<1>. QED  BY <1>1, <1>2, <1>3, <1>4 DEF RelayConsistent

LEMMA CommandStep ==
  ASSUME RelayInv, NEW q \in Commands, Forward(q) \/ CommandTimesOut(q) \/ Answer(q)
  PROVE  RelayInv'
<1>. USE RelayAssumption DEF RelayInv
<1>1. UNCHANGED <<socketVars, clientVars, connectedTargets>>
  BY DEF Forward, CommandTimesOut, Answer
<1>2. RelayTypeOK'
  BY <1>1 DEF Forward, CommandTimesOut, Answer, RelayTypeOK, CommandState, socketVars, clientVars,
              ExtensionConnected
<1>3. \A p \in Commands :
        command'[p] = "pending" => via'[p] # NoSocket /\ via'[p] \in {extensionWs'} \cup replaced'
  BY <1>1 DEF Forward, CommandTimesOut, Answer, RelayTypeOK, RelayBooks, RelayConsistent,
              ExtensionConnected, socketVars
<1>4. RelayBooks'
  BY <1>1, <1>3 DEF RelayBooks, Listeners, Connected, clientVars
<1>. QED
  BY <1>1, <1>2, <1>3, <1>4 DEF RelayConsistent, Listeners, Connected, clientVars, socketVars

LEMMA TargetAttachedStep ==
  ASSUME RelayInv, NEW t \in Targets, TargetAttached(t)
  PROVE  RelayInv'
<1>. USE RelayAssumption DEF RelayInv
<1>1. PICK c \in Sockets : Speaks(c) /\ connectedTargets' = [connectedTargets EXCEPT ![t] = c]
  BY DEF TargetAttached
<1>2. PICK changed \in BOOLEAN :
        seen' = [w \in Clients |-> IF w \in Listeners /\ (t \notin Connected \/ changed)
                                   THEN seen[w] \cup {t} ELSE seen[w]]
  BY DEF TargetAttached
<1>3. UNCHANGED <<socketVars, client, cdpClients, attached, commandVars>>
  BY DEF TargetAttached
<1>4. Connected' = Connected \cup {t} /\ Listeners' = Listeners
  BY <1>1, <1>3 DEF Connected, Listeners, RelayTypeOK
<1>5. RelayTypeOK'
  BY <1>1, <1>2, <1>3 DEF RelayTypeOK, socketVars, commandVars
<1>6. RelayBooks'
  BY <1>2, <1>3, <1>4 DEF RelayBooks, Listeners, commandVars, RelayTypeOK
<1>7. \A w \in attached' \cap Listeners' : seen'[w] = Connected'
  BY <1>2, <1>3, <1>4 DEF RelayConsistent, RelayTypeOK
<1>8. \A u \in Connected' : connectedTargets'[u] \in {extensionWs'} \cup replaced'
  BY <1>1, <1>3, <1>4 DEF RelayConsistent, RelayTypeOK, Speaks, socketVars
<1>. QED  BY <1>3, <1>5, <1>6, <1>7, <1>8 DEF RelayConsistent, socketVars, commandVars

LEMMA TargetDetachedStep ==
  ASSUME RelayInv, NEW t \in Targets, TargetDetached(t)
  PROVE  RelayInv'
<1>. USE DEF RelayInv
<1>1. /\ connectedTargets' = [connectedTargets EXCEPT ![t] = NoSocket]
      /\ seen' = [w \in Clients |-> IF w \in Listeners THEN seen[w] \ {t} ELSE seen[w]]
      /\ UNCHANGED <<socketVars, client, cdpClients, attached, commandVars>>
  BY DEF TargetDetached
<1>2. Connected' = Connected \ {t} /\ Listeners' = Listeners
  BY <1>1 DEF Connected, Listeners, RelayTypeOK
<1>3. RelayTypeOK'
  BY <1>1 DEF RelayTypeOK, socketVars, commandVars
<1>4. RelayBooks'
  BY <1>1, <1>2 DEF RelayBooks, Listeners, commandVars, RelayTypeOK
<1>5. \A w \in attached' \cap Listeners' : seen'[w] = Connected'
  BY <1>1, <1>2 DEF RelayConsistent, RelayTypeOK
<1>6. \A u \in Connected' : connectedTargets'[u] \in {extensionWs'} \cup replaced'
  BY <1>1, <1>2 DEF RelayConsistent, RelayTypeOK, Connected, socketVars
<1>. QED  BY <1>1, <1>3, <1>4, <1>5, <1>6 DEF RelayConsistent, socketVars, commandVars

LEMMA RelayInvariant == RelaySpec => []RelayInv
<1>1. RelayInv /\ [RelayNext]_relayVars => RelayInv'
  <2>. SUFFICES ASSUME RelayInv, [RelayNext]_relayVars PROVE RelayInv'
    OBVIOUS
  <2>1. CASE UNCHANGED relayVars
    BY <2>1 DEF relayVars, RelayInv, RelayTypeOK, RelayBooks, RelayConsistent, Listeners,
                Connected
  <2>. QED
    BY <2>1, ExtensionConnectsStep, SocketClosesStep, CloseEventStep, ClientStep, CommandStep,
       TargetAttachedStep, TargetDetachedStep DEF RelayNext
<1>. QED  BY <1>1, RelayInvInit, PTL DEF RelaySpec

\* However often the extension reconnects, also before the close event of its
\* old socket: one open socket, clients told of exactly the targets there are,
\* nothing pending that was sent nowhere.
THEOREM RelayStaysConsistent == RelaySpec => []RelayConsistent
<1>1. RelayInv => RelayConsistent
  BY DEF RelayInv
<1>. QED  BY <1>1, RelayInvariant, PTL

---------------------------------------------------------------------------
(* System events and heartbeats.                                           *)

InQueue(s)  == {s[i] : i \in 1..Len(s)}
Distinct(s) == \A i, j \in 1..Len(s) : s[i] = s[j] => i = j

EndOf(s, t) ==
  Len(s) <= Len(t) /\ \A i \in 1..Len(s) : s[i] = t[Len(t) - Len(s) + i]

\* The queue is the end of what was accepted: so the event a full queue evicts
\* is the one that MaxEvents accepted events follow.
QueueIsEnd ==
  /\ EndOf(events, accepted) /\ Distinct(accepted)
  /\ \A i \in 1..Len(accepted) : fate[accepted[i]] # "new"

\* What a beat in its triage has not read came while it was there.  With that,
\* what the end of the triage drops unread is among the missed.
BeatBooks ==
  /\ Distinct(events) /\ QueueIsEnd
  /\ \A b \in Beats : beat[b] = "triaging" => Queued \ peeked[b] \subseteq missed

BeatInv == HeartbeatTypeOK /\ BeatBooks /\ EventsAccounted

\* A new element at the end, with or without the loss of the first.
LEMMA AppendKeeps ==
  ASSUME NEW S, NEW s \in Seq(S), NEW e \in S, e \notin InQueue(s), Distinct(s)
  PROVE  /\ InQueue(Append(s, e)) = InQueue(s) \cup {e}
         /\ Distinct(Append(s, e))
<1>. DEFINE u == Append(s, e)
<1>1. Len(u) = Len(s) + 1 /\ u[Len(u)] = e /\ \A i \in 1..Len(s) : u[i] = s[i]
  OBVIOUS
<1>2. Len(s) \in Nat
  OBVIOUS
<1>. HIDE DEF u
<1>3. InQueue(u) = InQueue(s) \cup {e}
  <2>1. ASSUME NEW x \in InQueue(u) PROVE x \in InQueue(s) \cup {e}
    BY <1>1, <1>2, <2>1 DEF InQueue
  <2>2. ASSUME NEW x \in InQueue(s) PROVE x \in InQueue(u)
    BY <1>1, <1>2, <2>2 DEF InQueue
  <2>3. e \in InQueue(u)
    BY <1>1, <1>2 DEF InQueue
  <2>. QED  BY <2>1, <2>2, <2>3
<1>4. Distinct(u)
  BY <1>1, <1>2 DEF Distinct, InQueue
<1>. QED  BY <1>3, <1>4 DEF u

LEMMA TailKeeps ==
  ASSUME NEW S, NEW s \in Seq(S), s # <<>>, Distinct(s)
  PROVE  /\ Tail(s) \in Seq(S) /\ Len(Tail(s)) = Len(s) - 1
         /\ InQueue(Tail(s)) = InQueue(s) \ {Head(s)}
         /\ Distinct(Tail(s)) /\ Head(s) \in InQueue(s)
<1>. DEFINE u == Tail(s)
<1>1. /\ u \in Seq(S) /\ Len(u) = Len(s) - 1 /\ Len(s) \in Nat \ {0} /\ Head(s) = s[1]
      /\ \A i \in 1..Len(u) : u[i] = s[i + 1]
  OBVIOUS
<1>. HIDE DEF u
<1>2. \A i \in 1..Len(s) : i # 1 => i - 1 \in 1..Len(u) /\ u[i - 1] = s[i]
  BY <1>1
<1>3. InQueue(u) = InQueue(s) \ {Head(s)}
  <2>1. ASSUME NEW x \in InQueue(u) PROVE x \in InQueue(s) \ {Head(s)}
    <3>1. PICK i \in 1..Len(u) : x = u[i]
      BY <2>1 DEF InQueue
    <3>2. i + 1 \in 1..Len(s) /\ 1 \in 1..Len(s) /\ i + 1 # 1 /\ x = s[i + 1]
      BY <1>1, <3>1
    <3>. QED  BY <1>1, <3>2 DEF InQueue, Distinct
  <2>2. ASSUME NEW x \in InQueue(s) \ {Head(s)} PROVE x \in InQueue(u)
    <3>1. PICK i \in 1..Len(s) : x = s[i]
      BY DEF InQueue
    <3>2. i # 1
      BY <1>1, <3>1
    <3>. QED  BY <1>2, <3>1, <3>2 DEF InQueue
  <2>. QED  BY <2>1, <2>2
<1>4. Distinct(u) /\ Head(s) \in InQueue(s)
  BY <1>1 DEF Distinct, InQueue
<1>. QED  BY <1>1, <1>3, <1>4 DEF u

LEMMA EndOfAppend ==
  ASSUME NEW S, NEW s \in Seq(S), NEW t \in Seq(S), NEW e \in S, EndOf(s, t)
  PROVE  EndOf(Append(s, e), Append(t, e))
<1>. DEFINE u == Append(s, e)
            v == Append(t, e)
<1>1. /\ Len(u) = Len(s) + 1 /\ u[Len(s) + 1] = e /\ \A i \in 1..Len(s) : u[i] = s[i]
      /\ Len(v) = Len(t) + 1 /\ v[Len(t) + 1] = e /\ \A i \in 1..Len(t) : v[i] = t[i]
      /\ Len(s) \in Nat /\ Len(t) \in Nat
  OBVIOUS
<1>. HIDE DEF u, v
<1>2. ASSUME NEW i \in 1..Len(s) PROVE u[i] = v[Len(v) - Len(u) + i]
  <2>1. Len(v) - Len(u) + i = Len(t) - Len(s) + i /\ Len(t) - Len(s) + i \in 1..Len(t)
    BY <1>1 DEF EndOf
  <2>2. u[i] = s[i] /\ s[i] = t[Len(t) - Len(s) + i]
    BY <1>1 DEF EndOf
  <2>. QED  BY <1>1, <2>1, <2>2
<1>3. u[Len(s) + 1] = v[Len(v) - Len(u) + (Len(s) + 1)]
  <2>1. Len(v) - Len(u) + (Len(s) + 1) = Len(t) + 1
    BY <1>1
  <2>. QED  BY <1>1, <2>1
<1>4. Len(u) <= Len(v)
  BY <1>1 DEF EndOf
<1>5. \A i \in 1..Len(u) : u[i] = v[Len(v) - Len(u) + i]
  <2>1. \A i \in 1..Len(u) : i \in 1..Len(s) \/ i = Len(s) + 1
    BY <1>1
  <2>. QED  BY <1>2, <1>3, <2>1
<1>6. EndOf(u, v)
  BY <1>4, <1>5 DEF EndOf
<1>. QED  BY <1>6 DEF u, v

LEMMA EndOfTail ==
  ASSUME NEW S, NEW s \in Seq(S), NEW t \in Seq(S), s # <<>>, EndOf(s, t)
  PROVE  EndOf(Tail(s), t) /\ Head(s) = t[Len(t) - Len(s) + 1]
<1>. DEFINE u == Tail(s)
<1>1. /\ Len(u) = Len(s) - 1 /\ Len(s) \in Nat \ {0} /\ Len(t) \in Nat /\ Head(s) = s[1]
      /\ \A i \in 1..Len(u) : u[i] = s[i + 1]
  OBVIOUS
<1>. HIDE DEF u
<1>2. ASSUME NEW i \in 1..Len(u) PROVE u[i] = t[Len(t) - Len(u) + i]
  <2>1. i + 1 \in 1..Len(s) /\ Len(t) - Len(u) + i = Len(t) - Len(s) + (i + 1)
    BY <1>1
  <2>. QED  BY <1>1, <2>1 DEF EndOf
<1>. QED  BY <1>1, <1>2 DEF EndOf, u

LEMMA BeatInvInit == HeartbeatInit => BeatInv
<1>. SUFFICES ASSUME HeartbeatInit PROVE BeatInv
  OBVIOUS
<1>1. events = <<>> /\ accepted = <<>> /\ Queued = {}
  BY DEF HeartbeatInit, Queued
<1>2. HeartbeatTypeOK
  <2>1. events \in Seq(Events) /\ Len(events) <= MaxEvents /\ accepted \in Seq(Events)
    BY <1>1, HeartbeatAssumption
  <2>2. /\ fate \in [Events -> Fate] /\ beat \in [Beats -> BeatStage]
        /\ peeked \in [Beats -> SUBSET Events]
    BY DEF HeartbeatInit, Fate, BeatStage
  <2>3. /\ coalescing \in BOOLEAN /\ waking \subseteq 1..MaxRetries
        /\ missed \subseteq Events /\ obstacles \subseteq Obstacle
    BY DEF HeartbeatInit, Obstacle
  <2>. QED  BY <2>1, <2>2, <2>3 DEF HeartbeatTypeOK
<1>3. /\ Len(events) = 0 /\ Len(accepted) = 0 /\ DOMAIN accepted = {}
      /\ \A e \in Events : fate[e] = "new"
      /\ \A b \in Beats : beat[b] = "idle"
  BY <1>1 DEF HeartbeatInit
<1>4. BeatBooks
  <2>1. Distinct(events) /\ Distinct(accepted) /\ EndOf(events, accepted)
    BY <1>3 DEF EndOf, Distinct
  <2>2. \A i \in 1..Len(accepted) : fate[accepted[i]] # "new"
    BY <1>3
  <2>3. \A b \in Beats : beat[b] # "triaging"
    BY <1>3
  <2>. QED  BY <2>1, <2>2, <2>3 DEF BeatBooks, QueueIsEnd
<1>5. EventsAccounted
  BY <1>1, <1>3 DEF EventsAccounted
<1>. QED  BY <1>2, <1>4, <1>5 DEF BeatInv

LEMMA PostEventStep ==
  ASSUME BeatInv, NEW e \in Events, PostEvent(e)
  PROVE  BeatInv'
<1>. USE HeartbeatAssumption DEF BeatInv
<1>1. events \in Seq(Events) /\ Distinct(events) /\ Queued = InQueue(events)
      /\ Queued' = InQueue(events')
  BY DEF HeartbeatTypeOK, BeatBooks, Queued, InQueue
<1>2. e \notin Queued /\ fate[e] = "new"
  BY DEF PostEvent, EventsAccounted
<1>3. UNCHANGED <<waking, beat, peeked, obstacles>>
  BY DEF PostEvent
<1>4. CASE UNCHANGED <<events, accepted, coalescing, missed>> /\ fate' = [fate EXCEPT ![e] = "refused"]
  <2>1. Queued' = Queued
    BY <1>4 DEF Queued
  <2>2. accepted \in Seq(Events) /\ \A i \in 1..Len(accepted) : accepted[i] # e
    BY <1>2 DEF BeatBooks, QueueIsEnd, HeartbeatTypeOK
  <2>3. \A d \in Events : fate'[d] = IF d = e THEN "refused" ELSE fate[d]
    BY <1>4 DEF HeartbeatTypeOK
  <2>4. /\ DOMAIN accepted = 1..Len(accepted)
        /\ \A i \in 1..Len(accepted) : accepted[i] \in Events \ {e}
    BY <2>2
  <2>5. HeartbeatTypeOK'
    BY <1>3, <1>4 DEF HeartbeatTypeOK, Fate
  <2>6. BeatBooks'
    <3>1. \A i \in 1..Len(accepted) : fate'[accepted[i]] # "new"
      BY <2>3, <2>4 DEF BeatBooks, QueueIsEnd
    <3>. QED  BY <1>3, <1>4, <2>1, <3>1 DEF BeatBooks, QueueIsEnd, EndOf, Distinct
  <2>7. EventsAccounted'
    <3>1. \A i \in DOMAIN accepted : fate'[accepted[i]] = fate[accepted[i]]
      BY <2>3, <2>4
    <3>. QED  BY <1>2, <1>4, <2>1, <2>3, <3>1 DEF EventsAccounted
  <2>. QED  BY <2>5, <2>6, <2>7
<1>5. CASE /\ events' = IF Full THEN Append(Tail(events), e) ELSE Append(events, e)
           /\ fate' = [d \in Events |-> CASE d = e -> "queued"
                                          [] Full /\ d = Head(events) -> "evicted"
                                          [] OTHER -> fate[d]]
           /\ accepted' = Append(accepted, e)
           /\ coalescing' = TRUE
           /\ missed' = IF \E b \in Beats : beat[b] = "triaging" THEN missed \cup {e} ELSE missed
  <2>1. fate'[e] = "queued"
    <3>1. Full => events # <<>>
      BY <1>1 DEF Full
    <3>2. Full => e # Head(events)
      BY <1>1, <1>2, <3>1, TailKeeps
    <3>. QED  BY <1>5, <3>2
  <2>2. /\ accepted \in Seq(Events) /\ accepted' \in Seq(Events) /\ Len(accepted) \in Nat
        /\ Len(accepted') = Len(accepted) + 1 /\ accepted'[Len(accepted) + 1] = e
        /\ \A i \in 1..Len(accepted) : accepted'[i] = accepted[i] /\ accepted[i] # e
                                        /\ accepted[i] \in Events
    BY <1>2, <1>5 DEF HeartbeatTypeOK, BeatBooks, QueueIsEnd
  <2>3. Distinct(accepted') /\ \A i \in 1..Len(accepted') : fate'[accepted'[i]] # "new"
    <3>1. Distinct(accepted')
      BY <2>2 DEF BeatBooks, QueueIsEnd, Distinct
    <3>2. ASSUME NEW i \in 1..Len(accepted) PROVE fate'[accepted'[i]] # "new"
      BY <1>5, <2>2 DEF BeatBooks, QueueIsEnd
    <3>3. fate'[accepted'[Len(accepted) + 1]] # "new"
      BY <1>5, <2>2
    <3>. QED  BY <2>2, <3>1, <3>2, <3>3
  <2>4. ASSUME NEW i \in DOMAIN accepted', fate'[accepted'[i]] = "evicted"
        PROVE  Len(accepted') - i >= MaxEvents
    <3>1. i \in 1..Len(accepted) /\ accepted'[i] = accepted[i] /\ accepted[i] # e
      <4>1. DOMAIN accepted' = 1..(Len(accepted) + 1)
        BY <2>2
      <4>2. i # Len(accepted) + 1
        <5>1. fate'[accepted'[Len(accepted) + 1]] # "evicted"
          BY <2>2, <2>1
        <5>. QED  BY <2>4, <5>1
      <4>3. i \in 1..Len(accepted)
        BY <2>2, <4>1, <4>2
      <4>. QED  BY <2>2, <4>3
    <3>2. CASE fate[accepted[i]] = "evicted"
      BY <2>2, <3>1, <3>2 DEF EventsAccounted
    <3>3. CASE Full /\ accepted[i] = Head(events)
      <4>1. events # <<>> /\ Len(events) = MaxEvents
        BY <1>1, <3>3 DEF Full
      <4>2. Head(events) = accepted[Len(accepted) - MaxEvents + 1] /\ MaxEvents <= Len(accepted)
        BY <1>1, <2>2, <4>1, EndOfTail DEF BeatBooks, QueueIsEnd, EndOf
      <4>3. i = Len(accepted) - MaxEvents + 1
        BY <2>2, <3>1, <3>3, <4>2 DEF BeatBooks, QueueIsEnd, Distinct
      <4>. QED  BY <2>2, <3>1, <4>3
    <3>. QED  BY <1>5, <2>2, <2>4, <3>1, <3>2, <3>3
  <2>5. CASE Full
    <3>1. events # <<>> /\ Len(events) = MaxEvents
      BY <1>1, <2>5 DEF Full
    <3>2. /\ Tail(events) \in Seq(Events) /\ Len(Tail(events)) = Len(events) - 1
          /\ InQueue(Tail(events)) = Queued \ {Head(events)}
          /\ Distinct(Tail(events)) /\ Head(events) \in Queued
      BY <1>1, <3>1, TailKeeps
    <3>3. e \notin InQueue(Tail(events))
      BY <1>2, <3>2
    <3>4. Queued' = (Queued \ {Head(events)}) \cup {e} /\ Distinct(events')
      <4>1. /\ InQueue(Append(Tail(events), e)) = InQueue(Tail(events)) \cup {e}
            /\ Distinct(Append(Tail(events), e))
        BY <3>2, <3>3, AppendKeeps
      <4>. QED  BY <1>1, <1>5, <2>5, <3>2, <4>1
    <3>5. events' \in Seq(Events) /\ Len(events') <= MaxEvents
      BY <1>5, <2>5, <3>1, <3>2
    <3>6. HeartbeatTypeOK'
      BY <1>3, <1>5, <2>2, <3>5 DEF HeartbeatTypeOK, Fate
    <3>7. EventsAccounted'
      BY <1>2, <1>5, <2>5, <2>4, <3>2, <3>4 DEF EventsAccounted
    <3>8. EndOf(events', accepted')
      BY <1>1, <1>5, <2>5, <2>2, <3>1, <3>2, EndOfTail, EndOfAppend DEF BeatBooks, QueueIsEnd
    <3>9. BeatBooks'
      BY <1>3, <1>5, <2>3, <3>4, <3>8 DEF BeatBooks, QueueIsEnd
    <3>. QED  BY <3>6, <3>7, <3>9
  <2>6. CASE ~Full
    <3>1. Queued' = Queued \cup {e} /\ Distinct(events')
      BY <1>1, <1>2, <1>5, <2>6, AppendKeeps
    <3>2. events' \in Seq(Events) /\ Len(events') <= MaxEvents
      BY <1>1, <1>5, <2>6 DEF Full, HeartbeatTypeOK
    <3>3. HeartbeatTypeOK'
      BY <1>3, <1>5, <2>2, <3>2 DEF HeartbeatTypeOK, Fate
    <3>4. EventsAccounted'
      BY <1>2, <1>5, <2>6, <2>4, <3>1 DEF EventsAccounted
    <3>5. EndOf(events', accepted')
      BY <1>1, <1>5, <2>6, <2>2, EndOfAppend DEF BeatBooks, QueueIsEnd
    <3>6. BeatBooks'
      BY <1>3, <1>5, <2>3, <3>1, <3>5 DEF BeatBooks, QueueIsEnd
    <3>. QED  BY <3>3, <3>4, <3>6
  <2>. QED  BY <2>5, <2>6
<1>. QED  BY <1>4, <1>5 DEF PostEvent

LEMMA WakeStep ==
  ASSUME BeatInv, WakeNow \/ WakeAgain
  PROVE  BeatInv'
<1>. USE HeartbeatAssumption DEF BeatInv
<1>1. UNCHANGED <<events, fate, accepted, peeked, missed, obstacles>> /\ coalescing' \in BOOLEAN
  BY DEF WakeNow, WakeAgain, HeartbeatTypeOK, queueVars
<1>2. PICK n \in 0..MaxRetries : HandleWake(n)
  BY DEF WakeNow, WakeAgain, HeartbeatTypeOK
<1>3. waking' \subseteq 1..MaxRetries
  <2>1. n < MaxRetries => n + 1 \in 1..MaxRetries
    OBVIOUS
  <2>2. waking \subseteq 1..MaxRetries
    BY DEF HeartbeatTypeOK
  <2>. QED  BY <1>2, <2>1, <2>2 DEF HandleWake
<1>4. /\ beat' \in [Beats -> BeatStage]
      /\ \A b \in Beats : beat'[b] = "triaging" => beat[b] = "triaging"
  BY <1>2 DEF HandleWake, HeartbeatTypeOK, BeatStage
<1>5. Queued' = Queued
  BY <1>1 DEF Queued
<1>. QED
  BY <1>1, <1>3, <1>4, <1>5
     DEF HeartbeatTypeOK, BeatBooks, QueueIsEnd, EndOf, EventsAccounted, Distinct

LEMMA BeatStep ==
  ASSUME BeatInv, NEW b \in Beats, Tick(b) \/ FileRead(b) \/ Enqueued(b)
  PROVE  BeatInv'
<1>. USE DEF BeatInv
<1>1. UNCHANGED <<events, fate, accepted, coalescing, waking, missed, obstacles>>
  BY DEF Tick, FileRead, Enqueued, queueVars
<1>2. Queued' = Queued
  BY <1>1 DEF Queued
<1>3. Queued \subseteq Events
  BY DEF Queued, HeartbeatTypeOK
<1>4. /\ beat' \in [Beats -> BeatStage] /\ peeked' \in [Beats -> SUBSET Events]
      /\ \A a \in Beats : beat'[a] = "triaging" => Queued \ peeked'[a] \subseteq missed
  BY <1>3 DEF Tick, FileRead, Enqueued, HeartbeatTypeOK, BeatStage, BeatBooks, Idle
<1>. QED
  BY <1>1, <1>2, <1>4
     DEF HeartbeatTypeOK, BeatBooks, QueueIsEnd, EndOf, EventsAccounted, Distinct

LEMMA TriagedStep ==
  ASSUME BeatInv, NEW b \in Beats, Triaged(b)
  PROVE  BeatInv'
<1>. USE HeartbeatAssumption DEF BeatInv
<1>1. Queued' = {} /\ events' = <<>>
  BY DEF Triaged, Queued
<1>2. HeartbeatTypeOK'
  BY DEF Triaged, HeartbeatTypeOK, Fate, BeatStage
<1>6. accepted' = accepted /\ \A e \in Events :
        fate'[e] = fate[e] \/ (fate[e] = "queued" /\ fate'[e] \in {"read", "unread"})
  BY DEF Triaged, EventsAccounted, HeartbeatTypeOK
<1>7. accepted \in Seq(Events) /\ \A i \in 1..Len(accepted) : accepted[i] \in Events
  BY DEF HeartbeatTypeOK
<1>3. BeatBooks'
  <2>1. EndOf(events', accepted')
    BY <1>1, <1>6, <1>7 DEF EndOf
  <2>2. \A i \in 1..Len(accepted') : fate'[accepted'[i]] # "new"
    BY <1>6, <1>7 DEF BeatBooks, QueueIsEnd
  <2>. QED  BY <1>1, <1>6, <2>1, <2>2 DEF BeatBooks, QueueIsEnd, Distinct
<1>4. \A e \in Events : fate'[e] = "unread" => e \in missed'
  BY DEF Triaged, BeatBooks, EventsAccounted
<1>5. \A e \in Events : fate'[e] # "queued"
  BY DEF Triaged, EventsAccounted
<1>8. \A i \in DOMAIN accepted' :
        fate'[accepted'[i]] = "evicted" => Len(accepted') - i >= MaxEvents
  BY <1>6, <1>7 DEF EventsAccounted
<1>. QED  BY <1>1, <1>2, <1>3, <1>4, <1>5, <1>8 DEF EventsAccounted

LEMMA BeatInvariant == HeartbeatSpec => []BeatInv
<1>1. BeatInv /\ [HeartbeatNext]_beatVars => BeatInv'
  <2>. SUFFICES ASSUME BeatInv, [HeartbeatNext]_beatVars PROVE BeatInv'
    OBVIOUS
  <2>1. CASE UNCHANGED beatVars \/ \E o \in Obstacle : Obstruct(o) \/ Unblock(o)
    <3>1. UNCHANGED <<events, fate, accepted, coalescing, waking, beat, peeked, missed>>
          /\ obstacles' \subseteq Obstacle
      BY <2>1 DEF beatVars, queueVars, Obstruct, Unblock, BeatInv, HeartbeatTypeOK
    <3>2. Queued' = Queued
      BY <3>1 DEF Queued
    <3>. QED
      BY <3>1, <3>2 DEF BeatInv, HeartbeatTypeOK, BeatBooks, QueueIsEnd, EndOf, EventsAccounted,
                        Distinct
  <2>. QED
    BY <2>1, PostEventStep, WakeStep, BeatStep, TriagedStep DEF HeartbeatNext
<1>. QED  BY <1>1, BeatInvInit, PTL DEF HeartbeatSpec

\* With any number of beats under way at once, an event that is lost came in
\* while a beat was in its triage, whose end drops it unread, or was evicted when
\* a full queue had taken MaxEvents events after it.
THEOREM NoEventIsLost == HeartbeatSpec => []EventsAccounted
<1>1. BeatInv => EventsAccounted
  BY DEF BeatInv
<1>. QED  BY <1>1, BeatInvariant, PTL

---------------------------------------------------------------------------
(* The actor queue and the sessions of the ACP control plane.              *)

Undone(o) == opAt[o] \notin {"uncalled", "done"}
Foremost(o)  == after[o] = NoOp \/ after[o] \in released
Runs(o)   == opAt[o] \in Busy \/ MayRun(o)
Moves(o)  == \E st \in Busy : opAt' = [opAt EXCEPT ![o] = st] /\ UNCHANGED actorVars

\* The operations of a session in the order they were called in: what is not
\* the first waits for the one before it, and the tail is the last.
Ordered(rank, n) ==
  /\ \A o \in AcpOps : rank[o] < n
  /\ \A o, p \in AcpOps :
       Undone(o) /\ Undone(p) /\ KeyOf[o] = KeyOf[p] /\ o # p
       => /\ rank[o] # rank[p]
          /\ rank[p] < rank[o] => /\ after[o] \in AcpOps /\ Undone(after[o])
                                 /\ KeyOf[after[o]] = KeyOf[o]
                                 /\ rank[p] <= rank[after[o]]
  /\ \A s \in AcpSessionKeys :
       \/ tail[s] = NoOp /\ \A o \in AcpOps : KeyOf[o] = s => ~Undone(o)
       \/ /\ tail[s] \in AcpOps /\ Undone(tail[s]) /\ KeyOf[tail[s]] = s
          /\ \A o \in AcpOps : Undone(o) /\ KeyOf[o] = s => rank[o] <= rank[tail[s]]

ActorInv ==
  /\ released = {o \in AcpOps : opAt[o] = "done"}
  /\ \A o \in AcpOps : opAt[o] \in Busy => Foremost(o)
  /\ \E rank \in [AcpOps -> Nat], n \in Nat : Ordered(rank, n)

\* One operation of a session runs at a time.
LEMMA OneRuns ==
  ASSUME AcpTypeOK, ActorInv, NEW o \in AcpOps, NEW p \in AcpOps, Runs(o),
         o # p, KeyOf[o] = KeyOf[p]
  PROVE  opAt[p] \notin Busy
<1>. SUFFICES ASSUME opAt[p] \in Busy PROVE FALSE
  OBVIOUS
<1>1. PICK rank \in [AcpOps -> Nat], n \in Nat : Ordered(rank, n)
  BY DEF ActorInv
<1>2. Undone(o) /\ Undone(p) /\ Foremost(o) /\ Foremost(p)
  BY DEF ActorInv, Runs, MayRun, Foremost, Undone, Busy
<1>3. ~(rank[p] < rank[o]) /\ ~(rank[o] < rank[p])
  BY <1>1, <1>2, AcpAssumption DEF Ordered, Foremost, Undone, ActorInv
<1>4. rank[o] # rank[p] /\ rank[o] \in Nat /\ rank[p] \in Nat
  BY <1>1, <1>2 DEF Ordered
<1>. QED  BY <1>3, <1>4

LEMMA EnqueueActor ==
  ASSUME AcpTypeOK, ActorInv, NEW o \in AcpOps, Enqueue(o)
  PROVE  ActorInv'
<1>. DEFINE s == KeyOf[o]
<1>1. s \in AcpSessionKeys /\ opAt[o] = "uncalled" /\ opAt' = [opAt EXCEPT ![o] = "queued"]
      /\ after' = [after EXCEPT ![o] = tail[s]] /\ tail' = [tail EXCEPT ![s] = o]
      /\ released' = released
  BY AcpAssumption DEF Enqueue
<1>2. released' = {x \in AcpOps : opAt'[x] = "done"}
  BY <1>1 DEF ActorInv, AcpTypeOK
<1>3. \A x \in AcpOps : opAt'[x] \in Busy => Foremost(x)'
  BY <1>1 DEF ActorInv, AcpTypeOK, Busy, Foremost
<1>4. PICK rank \in [AcpOps -> Nat], n \in Nat : Ordered(rank, n)
  BY DEF ActorInv
<1>. DEFINE r == [rank EXCEPT ![o] = n]
<1>5. r \in [AcpOps -> Nat] /\ n + 1 \in Nat /\ \A x \in AcpOps : r[x] < n + 1
  BY <1>4 DEF Ordered
<1>6. \A x \in AcpOps : x # o => (Undone(x)' <=> Undone(x)) /\ r[x] = rank[x] /\ r[x] < n
                                 /\ after'[x] = after[x]
  BY <1>1, <1>4 DEF Undone, AcpTypeOK, Ordered
<1>7. r[o] = n /\ Undone(o)' /\ ~Undone(o) /\ after'[o] = tail[s]
  BY <1>1 DEF Undone, AcpTypeOK
<1>. HIDE DEF r
<1>8. ASSUME NEW x \in AcpOps, NEW y \in AcpOps, Undone(x)', Undone(y)', KeyOf[x] = KeyOf[y],
             x # y
      PROVE  /\ r[x] # r[y]
             /\ r[y] < r[x] => /\ after'[x] \in AcpOps /\ Undone(after[x])'
                              /\ KeyOf[after'[x]] = KeyOf[x]
                              /\ r[y] <= r[after'[x]]
  <2>1. CASE x # o /\ y # o
    <3>1. /\ rank[x] # rank[y]
          /\ rank[y] < rank[x] => /\ after[x] \in AcpOps /\ Undone(after[x])
                                 /\ KeyOf[after[x]] = KeyOf[x]
                                 /\ rank[y] <= rank[after[x]]
      BY <1>4, <1>6, <1>8, <2>1 DEF Ordered
    <3>2. rank[y] < rank[x] => after[x] # o
      BY <3>1, <1>7
    <3>. QED  BY <1>6, <2>1, <3>1, <3>2
  <2>2. CASE x = o
    <3>1. Undone(y) /\ KeyOf[y] = s /\ y # o
      BY <1>6, <1>8, <2>2
    <3>2. /\ tail[s] \in AcpOps /\ Undone(tail[s]) /\ KeyOf[tail[s]] = s
          /\ rank[y] <= rank[tail[s]]
      BY <1>1, <1>4, <3>1 DEF Ordered
    <3>3. tail[s] # o
      BY <1>7, <3>2
    <3>. QED  BY <1>5, <1>6, <1>7, <2>2, <3>1, <3>2, <3>3
  <2>3. CASE y = o
    BY <1>4, <1>5, <1>6, <1>7, <1>8, <2>3
  <2>. QED  BY <2>1, <2>2, <2>3
<1>9. ASSUME NEW k \in AcpSessionKeys
      PROVE  \/ tail'[k] = NoOp /\ \A x \in AcpOps : KeyOf[x] = k => ~Undone(x)'
             \/ /\ tail'[k] \in AcpOps /\ Undone(tail[k])' /\ KeyOf[tail'[k]] = k
                /\ \A x \in AcpOps : Undone(x)' /\ KeyOf[x] = k => r[x] <= r[tail'[k]]
  <2>1. CASE k = s
    BY <1>1, <1>4, <1>5, <1>6, <1>7, <2>1 DEF AcpTypeOK
  <2>2. CASE k # s
    <3>1. tail'[k] = tail[k] /\ \A x \in AcpOps : KeyOf[x] = k => x # o
      BY <1>1, <2>2 DEF AcpTypeOK
    <3>. QED  BY <1>4, <1>6, <3>1 DEF Ordered
  <2>. QED  BY <2>1, <2>2
<1>10. Ordered(r, n + 1)'
  BY <1>5, <1>8, <1>9 DEF Ordered
<1>. QED  BY <1>2, <1>3, <1>5, <1>10 DEF ActorInv

LEMMA ReleaseActor ==
  ASSUME AcpTypeOK, ActorInv, NEW o \in AcpOps, Runs(o), Release(o)
  PROVE  ActorInv'
<1>. DEFINE s == KeyOf[o]
<1>1. s \in AcpSessionKeys /\ opAt' = [opAt EXCEPT ![o] = "done"] /\ after' = after
      /\ tail' = [tail EXCEPT ![s] = IF @ = o THEN NoOp ELSE @] /\ released' = released \cup {o}
  BY AcpAssumption DEF Release
<1>2. released' = {x \in AcpOps : opAt'[x] = "done"}
  BY <1>1 DEF ActorInv, AcpTypeOK
<1>3. \A x \in AcpOps : opAt'[x] \in Busy => Foremost(x)'
  BY <1>1 DEF ActorInv, AcpTypeOK, Busy, Foremost
<1>4. PICK rank \in [AcpOps -> Nat], n \in Nat : Ordered(rank, n)
  BY DEF ActorInv
<1>5. Undone(o) /\ Foremost(o)
  BY DEF ActorInv, Runs, MayRun, Foremost, Undone, Busy
<1>6. ~Undone(o)' /\ \A x \in AcpOps : x # o => (Undone(x)' <=> Undone(x))
  BY <1>1 DEF Undone, AcpTypeOK
<1>7. \A x \in AcpOps : Undone(x) /\ KeyOf[x] = s /\ x # o => rank[o] < rank[x]
  <2>1. \A x \in AcpOps : Undone(x) /\ KeyOf[x] = s /\ x # o => ~(rank[x] < rank[o])
    BY <1>4, <1>5, AcpAssumption DEF Ordered, Foremost, Undone, ActorInv
  <2>2. \A x \in AcpOps : Undone(x) /\ KeyOf[x] = s /\ x # o => rank[x] # rank[o]
    BY <1>4, <1>5 DEF Ordered
  <2>. QED  BY <2>1, <2>2
<1>8. ASSUME NEW x \in AcpOps, NEW y \in AcpOps, Undone(x)', Undone(y)', KeyOf[x] = KeyOf[y],
             x # y
      PROVE  /\ rank[x] # rank[y]
             /\ rank[y] < rank[x] => /\ after'[x] \in AcpOps /\ Undone(after[x])'
                                    /\ KeyOf[after'[x]] = KeyOf[x]
                                    /\ rank[y] <= rank[after'[x]]
  <2>1. Undone(x) /\ Undone(y) /\ x # o /\ y # o
    BY <1>6, <1>8
  <2>2. /\ rank[x] # rank[y]
        /\ rank[y] < rank[x] => /\ after[x] \in AcpOps /\ Undone(after[x])
                               /\ KeyOf[after[x]] = KeyOf[x]
                               /\ rank[y] <= rank[after[x]]
    BY <1>4, <1>8, <2>1 DEF Ordered
  <2>3. rank[y] < rank[x] => after[x] # o
    BY <1>7, <1>8, <2>1, <2>2
  <2>. QED  BY <1>1, <1>6, <2>2, <2>3
<1>9. ASSUME NEW k \in AcpSessionKeys
      PROVE  \/ tail'[k] = NoOp /\ \A x \in AcpOps : KeyOf[x] = k => ~Undone(x)'
             \/ /\ tail'[k] \in AcpOps /\ Undone(tail[k])' /\ KeyOf[tail'[k]] = k
                /\ \A x \in AcpOps : Undone(x)' /\ KeyOf[x] = k => rank[x] <= rank[tail'[k]]
  <2>1. CASE k = s /\ tail[s] = o
    <3>1. tail'[k] = NoOp
      BY <1>1, <2>1 DEF AcpTypeOK
    <3>2. \A x \in AcpOps : Undone(x) /\ KeyOf[x] = s => rank[x] <= rank[o]
      BY <1>1, <1>4, <2>1, AcpAssumption DEF Ordered
    <3>3. \A x \in AcpOps : KeyOf[x] = s => ~Undone(x)'
      BY <1>6, <1>7, <3>2
    <3>. QED  BY <2>1, <3>1, <3>3
  <2>2. CASE k # s \/ tail[s] # o
    <3>1. tail'[k] = tail[k]
      BY <1>1, <2>2 DEF AcpTypeOK
    <3>2. tail[k] # o
      BY <1>1, <1>4, <1>5, <2>2, AcpAssumption DEF Ordered
    <3>. QED  BY <1>4, <1>6, <3>1, <3>2 DEF Ordered
  <2>. QED  BY <2>1, <2>2
<1>10. Ordered(rank, n)'
  BY <1>4, <1>8, <1>9 DEF Ordered
<1>. QED  BY <1>2, <1>3, <1>4, <1>10 DEF ActorInv

LEMMA MovesActor ==
  ASSUME AcpTypeOK, ActorInv, NEW o \in AcpOps, Runs(o), Moves(o)
  PROVE  ActorInv'
<1>1. PICK st \in Busy : opAt' = [opAt EXCEPT ![o] = st]
  BY DEF Moves
<1>2. UNCHANGED <<after, released, tail>>
  BY DEF Moves, actorVars
<1>3. Undone(o) /\ Foremost(o) /\ opAt[o] # "done"
  BY DEF ActorInv, Runs, MayRun, Foremost, Undone, Busy
<1>4. released' = {x \in AcpOps : opAt'[x] = "done"}
  BY <1>1, <1>2, <1>3 DEF ActorInv, AcpTypeOK, Busy
<1>5. \A x \in AcpOps : opAt'[x] \in Busy => Foremost(x)'
  BY <1>1, <1>2, <1>3 DEF ActorInv, AcpTypeOK, Foremost
<1>6. \A x \in AcpOps : Undone(x)' <=> Undone(x)
  BY <1>1, <1>3 DEF Undone, AcpTypeOK, Busy
<1>7. PICK rank \in [AcpOps -> Nat], n \in Nat : Ordered(rank, n)
  BY DEF ActorInv
<1>8. Ordered(rank, n)'
  BY <1>2, <1>6, <1>7 DEF Ordered
<1>. QED  BY <1>4, <1>5, <1>7, <1>8 DEF ActorInv

\* Every step of an operation is one of these to the queue.
LEMMA ActorKinds ==
  ASSUME NEW o \in AcpOps, AcpStep(o)
  PROVE  Enqueue(o) \/ (Runs(o) /\ Release(o)) \/ (Runs(o) /\ Moves(o))
<1>1. CASE StartOp(o) \/ StartClose(o)
  BY <1>1 DEF StartOp, StartClose, Runs, Moves, Busy, TurnFails
<1>2. CASE Ensured(o)
  BY <1>2 DEF Ensured, Runs, Moves, Busy, TurnFails
<1>3. CASE ControlsApplied(o) \/ StreamEnds(o)
  BY <1>3 DEF ControlsApplied, StreamEnds, Runs, Moves, Busy, TurnFails
<1>4. CASE TurnEnds(o) \/ ClosedByBackend(o)
  BY <1>4 DEF TurnEnds, ClosedByBackend, Runs, Busy
<1>. QED  BY <1>1, <1>2, <1>3, <1>4 DEF AcpStep

LEMMA ActorStep ==
  ASSUME AcpTypeOK, ActorInv, [AcpNext]_acpVars
  PROVE  ActorInv'
<1>1. ASSUME NEW o \in AcpOps, AcpStep(o) PROVE ActorInv'
  BY <1>1, ActorKinds, EnqueueActor, ReleaseActor, MovesActor
<1>2. CASE UNCHANGED <<opAt, actorVars>>
  <2>1. PICK rank \in [AcpOps -> Nat], n \in Nat : Ordered(rank, n)
    BY DEF ActorInv
  <2>2. Ordered(rank, n)'
    BY <1>2, <2>1 DEF Ordered, Undone, actorVars
  <2>. QED  BY <1>2, <2>1, <2>2 DEF ActorInv, Foremost, actorVars
<1>3. CASE EvictIdle \/ EvictNext \/ EvictClosed \/ UNCHANGED acpVars
  BY <1>2, <1>3 DEF EvictIdle, EvictNext, EvictClosed, acpVars, actorVars
<1>4. ASSUME NEW s \in AcpSessionKeys, CancelTurn(s) PROVE ActorInv'
  BY <1>2, <1>4 DEF CancelTurn, actorVars
<1>. QED
  BY <1>1, <1>3, <1>4 DEF AcpNext

\* The handle of a session was opened for it, and is open unless an eviction
\* closed it; so is the handle of a turn.  Only the turn in its stream or its
\* status is active.
Handle(h, s) == h \in AcpOps /\ KeyOf[h] = s /\ h \in open \cup evicted

SessionBooks ==
  /\ \A s \in AcpSessionKeys : cache[s] # NoOp => Handle(cache[s], s)
  /\ \A o \in AcpOps :
       /\ opAt[o] \in {"controls", "streaming"} => Handle(using[o], KeyOf[o])
       /\ opAt[o] = "closing" => using[o] \in AcpOps /\ KeyOf[using[o]] = KeyOf[o]

ActiveBooks ==
  \A s \in AcpSessionKeys :
    /\ \A o \in AcpOps :
         activeTurns[s] = o <=> KeyOf[o] = s /\ opAt[o] \in {"streaming", "status"}
    /\ meta[s] = "running" => activeTurns[s] # NoOp

AcpInv == AcpTypeOK /\ ActorInv /\ SessionBooks /\ ActiveBooks

LEMMA AcpTypes ==
  ASSUME AcpTypeOK, [AcpNext]_acpVars
  PROVE  AcpTypeOK'
<1>. USE AcpAssumption DEF AcpTypeOK
<1>1. ASSUME NEW o \in AcpOps, Enqueue(o) PROVE AcpTypeOK'
  BY <1>1 DEF Enqueue, AcpStage, evictVars
<1>2. ASSUME NEW o \in AcpOps, StartOp(o) PROVE AcpTypeOK'
  BY <1>2 DEF StartOp, Release, TurnFails, MetaState, AcpStage, actorVars, evictVars
<1>3. ASSUME NEW o \in AcpOps, Ensured(o) PROVE AcpTypeOK'
  BY <1>3 DEF Ensured, Release, TurnFails, MetaState, AcpStage, actorVars, evictVars
<1>4. ASSUME NEW o \in AcpOps, ControlsApplied(o) \/ StreamEnds(o) \/ TurnEnds(o) PROVE AcpTypeOK'
  BY <1>4 DEF ControlsApplied, StreamEnds, TurnEnds, Release, TurnFails, MetaState, AcpStage,
              actorVars, evictVars
<1>5. ASSUME NEW o \in AcpOps, StartClose(o) \/ ClosedByBackend(o) PROVE AcpTypeOK'
  BY <1>5 DEF StartClose, ClosedByBackend, Release, MetaState, MetaClosed, AcpStage, actorVars,
              evictVars
<1>6. ASSUME NEW s \in AcpSessionKeys, CancelTurn(s) PROVE AcpTypeOK'
  BY <1>6 DEF CancelTurn, actorVars, evictVars
<1>7. CASE EvictIdle \/ EvictNext \/ EvictClosed
  BY <1>7 DEF EvictIdle, EvictNext, EvictClosed, actorVars
<1>8. CASE UNCHANGED acpVars
  BY <1>8 DEF acpVars
<1>. QED
  BY <1>1, <1>2, <1>3, <1>4, <1>5, <1>6, <1>7, <1>8 DEF AcpNext, AcpStep

\* Steps of an operation that keep or set handles.
LEMMA SessionStep ==
  ASSUME AcpTypeOK, AcpTypeOK', ActorInv, SessionBooks, [AcpNext]_acpVars
  PROVE  SessionBooks'
<1>. USE AcpAssumption DEF AcpTypeOK, SessionBooks, Handle
<1>1. ASSUME NEW o \in AcpOps, Enqueue(o) PROVE SessionBooks'
  BY <1>1 DEF Enqueue, evictVars
<1>2. ASSUME NEW o \in AcpOps, StartOp(o) PROVE SessionBooks'
  BY <1>2 DEF StartOp, Release, TurnFails, actorVars, evictVars
<1>3. ASSUME NEW o \in AcpOps, Ensured(o) PROVE SessionBooks'
  BY <1>3 DEF Ensured, Release, TurnFails, actorVars, evictVars
<1>4. ASSUME NEW o \in AcpOps, ControlsApplied(o) \/ StreamEnds(o) \/ TurnEnds(o)
      PROVE  SessionBooks'
  BY <1>4 DEF ControlsApplied, StreamEnds, TurnEnds, Release, TurnFails, actorVars, evictVars
<1>5. ASSUME NEW o \in AcpOps, StartClose(o) PROVE SessionBooks'
  BY <1>5 DEF StartClose, Release, actorVars, evictVars
<1>6. ASSUME NEW o \in AcpOps, ClosedByBackend(o) PROVE SessionBooks'
  <2>1. \A p \in AcpOps : p # o /\ KeyOf[p] = KeyOf[o] => opAt[p] \notin Busy
    BY <1>6, OneRuns DEF ClosedByBackend, Runs, Busy
  <2>2. using[o] \in AcpOps /\ KeyOf[using[o]] = KeyOf[o]
    BY <1>6 DEF ClosedByBackend
  <2>. QED
    BY <1>6, <2>1, <2>2 DEF ClosedByBackend, Release, Busy, evictVars
<1>7. CASE EvictIdle \/ EvictNext \/ EvictClosed
  BY <1>7 DEF EvictIdle, EvictNext, EvictClosed
<1>8. CASE UNCHANGED acpVars \/ \E s \in AcpSessionKeys : CancelTurn(s)
  BY <1>8 DEF acpVars, CancelTurn, evictVars
<1>. QED
  BY <1>1, <1>2, <1>3, <1>4, <1>5, <1>6, <1>7, <1>8 DEF AcpNext, AcpStep

LEMMA ActiveStep ==
  ASSUME AcpTypeOK, AcpTypeOK', ActorInv, ActiveBooks, [AcpNext]_acpVars
  PROVE  ActiveBooks'
<1>. USE AcpAssumption DEF AcpTypeOK, ActiveBooks
<1>1. ASSUME NEW o \in AcpOps, Enqueue(o) PROVE ActiveBooks'
  BY <1>1 DEF Enqueue
<1>2. ASSUME NEW o \in AcpOps, Runs(o), TurnFails(o) PROVE ActiveBooks'
  <2>1. \A p \in AcpOps : p # o /\ KeyOf[p] = KeyOf[o] => opAt[p] \notin Busy
    BY <1>2, OneRuns
  <2>. QED  BY <1>2, <2>1 DEF TurnFails, Release, MetaState, Busy
<1>3. ASSUME NEW o \in AcpOps, StartOp(o), ~TurnFails(o) PROVE ActiveBooks'
  BY <1>3 DEF StartOp, MayRun, Release, actorVars
<1>4. ASSUME NEW o \in AcpOps, Ensured(o), ~TurnFails(o) PROVE ActiveBooks'
  BY <1>4 DEF Ensured, Release, actorVars
<1>5. ASSUME NEW o \in AcpOps, ControlsApplied(o), ~TurnFails(o) PROVE ActiveBooks'
  <2>1. \A p \in AcpOps : p # o /\ KeyOf[p] = KeyOf[o] => opAt[p] \notin Busy
    BY <1>5, OneRuns DEF ControlsApplied, Runs, Busy
  <2>. QED  BY <1>5, <2>1 DEF ControlsApplied, MetaState, Busy
<1>6. ASSUME NEW o \in AcpOps, StreamEnds(o), ~TurnFails(o) PROVE ActiveBooks'
  BY <1>6 DEF StreamEnds
<1>7. ASSUME NEW o \in AcpOps, TurnEnds(o) PROVE ActiveBooks'
  <2>1. \A p \in AcpOps : p # o /\ KeyOf[p] = KeyOf[o] => opAt[p] \notin Busy
    BY <1>7, OneRuns DEF TurnEnds, Runs, Busy
  <2>. QED  BY <1>7, <2>1 DEF TurnEnds, Release, MetaState, Busy
<1>8. ASSUME NEW o \in AcpOps, StartClose(o) \/ ClosedByBackend(o) PROVE ActiveBooks'
  BY <1>8 DEF StartClose, ClosedByBackend, MayRun, Release, MetaClosed, MetaState, actorVars
<1>9. CASE EvictIdle \/ EvictNext \/ EvictClosed
  BY <1>9 DEF EvictIdle, EvictNext, EvictClosed
<1>10. CASE UNCHANGED acpVars \/ \E s \in AcpSessionKeys : CancelTurn(s)
  BY <1>10 DEF acpVars, CancelTurn
<1>11. ASSUME NEW o \in AcpOps, AcpStep(o), TurnFails(o) PROVE Runs(o)
  <2>1. opAt'[o] = "done"
    BY <1>11 DEF TurnFails, Release
  <2>2. ~Enqueue(o)
    BY <2>1 DEF Enqueue
  <2>. QED  BY <1>11, <2>2, ActorKinds
<1>12. ASSUME NEW o \in AcpOps, AcpStep(o) PROVE ActiveBooks'
  BY <1>1, <1>2, <1>3, <1>4, <1>5, <1>6, <1>7, <1>8, <1>11, <1>12 DEF AcpStep
<1>. QED
  BY <1>9, <1>10, <1>12 DEF AcpNext

LEMMA AcpInvInit == AcpInit => AcpInv
<1>. SUFFICES ASSUME AcpInit PROVE AcpInv
  OBVIOUS
<1>1. AcpTypeOK
  BY AcpAssumption DEF AcpInit, AcpTypeOK, AcpStage
<1>2. SessionBooks /\ ActiveBooks
  BY AcpAssumption DEF AcpInit, SessionBooks, ActiveBooks, Handle
<1>3. [o \in AcpOps |-> 0] \in [AcpOps -> Nat] /\ 1 \in Nat
  OBVIOUS
<1>4. Ordered([o \in AcpOps |-> 0], 1)
  BY DEF AcpInit, Ordered, Undone
<1>5. ActorInv
  BY <1>3, <1>4 DEF ActorInv, AcpInit, Busy
<1>. QED  BY <1>1, <1>2, <1>5 DEF AcpInv

LEMMA AcpInvariant == AcpSpec => []AcpInv
<1>1. AcpInv /\ [AcpNext]_acpVars => AcpInv'
  BY AcpTypes, ActorStep, SessionStep, ActiveStep DEF AcpInv
<1>. QED  BY <1>1, AcpInvInit, PTL DEF AcpSpec

\* However operations are queued, fail, are cancelled or have their runtime
\* evicted: one of a session runs at a time, the active turn is the one that
\* runs, and only an eviction closes the runtime it streams from.
THEOREM SessionsAreSerial == AcpSpec => []OpsSerialized
<1>1. AcpInv => OpsSerialized
  <2>. SUFFICES ASSUME AcpInv PROVE OpsSerialized
    OBVIOUS
  <2>1. \A o, p \in AcpOps :
          o # p /\ KeyOf[o] = KeyOf[p] => ~(opAt[o] \in Busy /\ opAt[p] \in Busy)
    BY OneRuns DEF AcpInv, Runs
  <2>2. \A o \in AcpTurns : opAt[o] = "streaming" => using[o] \in open \cup evicted
    BY AcpAssumption DEF AcpInv, SessionBooks, Handle
  <2>. QED  BY <2>1, <2>2 DEF AcpInv, ActiveBooks, OpsSerialized
<1>. QED  BY <1>1, AcpInvariant, PTL

---------------------------------------------------------------------------
(* Cron timers.                                                            *)

\* An object is armed when the table has its timer, and only then.
CronBooks ==
  /\ \A i \in CronIds :
       /\ timers[i] # NoJob => CronIdOf[timers[i]] = i
       /\ jobs[i] # NoJob => CronIdOf[jobs[i]] = i
       /\ timers[i] \notin Recurring \cup {NoJob} => jobs[i] = timers[i]
  /\ TimersTracked
  /\ \A o \in fresh :
       /\ timers[CronIdOf[o]] # o /\ jobs[CronIdOf[o]] # o
       /\ handling[o] = 0 /\ o \notin enabled
  /\ \A o \in Recurring : timers[CronIdOf[o]] = o \/ handling[o] > 0 => o \in enabled
  /\ \A o \in CronJobs : timers[CronIdOf[o]] = o \/ handling[o] > 0 => o \notin Unplannable

\* What is scheduled again by a handler is an object that recurs; one that ever
\* had a timer has a next run.
Recurs ==
  \A i \in CronIds :
    i \notin stopped /\ Scheduled(i) /\ jobs[i] \in Recurring \ Unplannable
    => \/ timers[i] # NoJob
       \/ \E o \in Recurring : CronIdOf[o] = i /\ handling[o] > 0

CronInv == CronTypeOK /\ CronBooks /\ Recurs

\* What scheduleJob leaves behind.
LEMMA JobScheduled ==
  ASSUME CronTypeOK, CronBooks, NEW o \in CronJobs, NEW on \in SUBSET CronJobs,
         ScheduleJob(o, on)
  PROVE  LET i == CronIdOf[o] IN
         /\ \/ /\ o \in on /\ o \notin Unplannable
               /\ timers' = [timers EXCEPT ![i] = o] /\ enabled' = on
            \/ /\ timers' = [timers EXCEPT ![i] = NoJob]
               /\ enabled' = IF o \in Unplannable THEN on ELSE on \ {o}
               /\ o \notin on \/ o \notin Recurring \/ o \in Unplannable
         /\ armed' \in [CronJobs -> Nat] /\ TimersTracked'
<1>. USE CronAssumption DEF CronTypeOK
<1>. DEFINE i == CronIdOf[o]
<1>1. \A x \in CronJobs : armed[x] = (IF timers[CronIdOf[x]] = x THEN 1 ELSE 0)
  BY DEF CronBooks, TimersTracked
<1>2. \A x \in CronJobs : x = timers[i] => CronIdOf[x] = i
  BY DEF CronBooks
<1>3. \A x \in CronJobs : Cleared(armed, i)[x] = (IF x = timers[i] THEN 0 ELSE armed[x])
  BY <1>1, <1>2 DEF Cleared
<1>4. i \in CronIds /\ Cleared(armed, i) \in [CronJobs -> Nat]
  BY <1>3 DEF Cleared
<1>5. CASE /\ o \in on \ Unplannable /\ enabled' = on
           /\ armed' = [Cleared(armed, i) EXCEPT ![o] = @ + 1]
           /\ timers' = [timers EXCEPT ![i] = o]
  <2>1. Cleared(armed, i)[o] = 0
    BY <1>1, <1>3
  <2>2. armed'[o] = 1 /\ \A x \in CronJobs \ {o} : armed'[x] = Cleared(armed, i)[x]
    BY <1>4, <1>5, <2>1
  <2>3. armed' \in [CronJobs -> Nat]
    BY <1>4, <1>5
  <2>4. ASSUME NEW x \in CronJobs
        PROVE  armed'[x] = (IF timers'[CronIdOf[x]] = x THEN 1 ELSE 0)
    <3>1. timers'[CronIdOf[x]] = (IF CronIdOf[x] = i THEN o ELSE timers[CronIdOf[x]])
      BY <1>4, <1>5
    <3>. QED  BY <1>1, <1>2, <1>3, <2>2, <3>1
  <2>. QED  BY <1>5, <2>3, <2>4 DEF TimersTracked
<1>6. CASE /\ o \notin on \/ o \notin Recurring \/ o \in Unplannable
           /\ enabled' = IF o \in Unplannable THEN on ELSE on \ {o}
           /\ armed' = Cleared(armed, i)
           /\ timers' = [timers EXCEPT ![i] = NoJob]
  <2>1. ASSUME NEW x \in CronJobs
        PROVE  armed'[x] = (IF timers'[CronIdOf[x]] = x THEN 1 ELSE 0)
    <3>1. timers'[CronIdOf[x]] = (IF CronIdOf[x] = i THEN NoJob ELSE timers[CronIdOf[x]])
      BY <1>4, <1>6
    <3>. QED  BY <1>1, <1>2, <1>3, <1>6, <3>1
  <2>. QED  BY <1>4, <1>6, <2>1 DEF TimersTracked
<1>. QED  BY <1>5, <1>6 DEF ScheduleJob

LEMMA CronAdds ==
  ASSUME CronInv, NEW o \in CronJobs, AddCronJob(o) \/ UpdateCronJob(o)
  PROVE  CronInv'
<1>. USE CronAssumption DEF CronTypeOK
<1>. DEFINE i == CronIdOf[o]
<1>1. /\ CronTypeOK /\ CronBooks /\ Recurs /\ i \in CronIds
      /\ o \in fresh /\ o \notin enabled /\ fresh' = fresh \ {o}
      /\ jobs' = [jobs EXCEPT ![i] = o] /\ stopped' = stopped \ {i} /\ handling' = handling
  BY DEF CronInv, CronBooks, AddCronJob, UpdateCronJob
<1>2. ASSUME NEW on \in {enabled, enabled \cup {o}}, ScheduleJob(o, on) PROVE CronInv'
  <2>1. /\ \/ /\ o \in on /\ o \notin Unplannable
              /\ timers' = [timers EXCEPT ![i] = o] /\ enabled' = on
           \/ /\ timers' = [timers EXCEPT ![i] = NoJob]
              /\ enabled' = IF o \in Unplannable THEN on ELSE on \ {o}
              /\ o \notin on \/ o \notin Recurring \/ o \in Unplannable
        /\ armed' \in [CronJobs -> Nat] /\ TimersTracked'
    BY <1>1, <1>2, JobScheduled
  <2>2. CronTypeOK'
    BY <1>1, <2>1
  <2>3. /\ \A x \in CronJobs : x # o => (x \in enabled' <=> x \in enabled)
        /\ \A k \in CronIds : k # i => timers'[k] = timers[k] /\ jobs'[k] = jobs[k]
        /\ jobs'[i] = o
    BY <1>1, <2>1
  <2>4. \/ timers'[i] = o /\ o \in enabled' /\ o \notin Unplannable
        \/ timers'[i] = NoJob /\ (o \in enabled' /\ o \in Recurring => o \in Unplannable)
    BY <1>1, <2>1
  <2>5. CronBooks'
    <3>1. \A k \in CronIds :
            /\ timers'[k] # NoJob => CronIdOf[timers'[k]] = k
            /\ jobs'[k] # NoJob => CronIdOf[jobs'[k]] = k
            /\ timers'[k] \notin Recurring \cup {NoJob} => jobs'[k] = timers'[k]
      BY <1>1, <2>3, <2>4 DEF CronBooks
    <3>2. \A x \in fresh' :
            /\ timers'[CronIdOf[x]] # x /\ jobs'[CronIdOf[x]] # x
            /\ handling'[x] = 0 /\ x \notin enabled'
      BY <1>1, <2>3, <2>4 DEF CronBooks
    <3>3. \A x \in Recurring : timers'[CronIdOf[x]] = x \/ handling'[x] > 0 => x \in enabled'
      <4>. SUFFICES ASSUME NEW x \in Recurring, timers'[CronIdOf[x]] = x \/ handling'[x] > 0
                    PROVE  x \in enabled'
        OBVIOUS
      <4>1. CASE x = o
        BY <1>1, <2>4, <4>1 DEF CronBooks
      <4>2. CASE x # o
        BY <1>1, <2>3, <2>4, <4>2 DEF CronBooks
      <4>. QED  BY <4>1, <4>2
    <3>4. \A x \in CronJobs : timers'[CronIdOf[x]] = x \/ handling'[x] > 0 => x \notin Unplannable
      BY <1>1, <2>3, <2>4 DEF CronBooks
    <3>. QED  BY <2>1, <3>1, <3>2, <3>3, <3>4 DEF CronBooks
  <2>6. Recurs'
    <3>. SUFFICES ASSUME NEW k \in CronIds, k \notin stopped', Scheduled(k)',
                         jobs'[k] \in Recurring \ Unplannable
                  PROVE  \/ timers'[k] # NoJob
                         \/ \E x \in Recurring : CronIdOf[x] = k /\ handling'[x] > 0
      BY DEF Recurs
    <3>1. CASE k = i
      BY <1>1, <2>3, <2>4, <3>1 DEF Scheduled
    <3>2. CASE k # i
      <4>1. jobs[k] # o
        BY <1>1, <3>2 DEF CronBooks
      <4>. QED  BY <1>1, <2>3, <3>2, <4>1 DEF Scheduled, Recurs
    <3>. QED  BY <3>1, <3>2
  <2>. QED  BY <2>2, <2>5, <2>6 DEF CronInv
<1>3. CASE jobs[i] = NoJob /\ UNCHANGED <<timers, armed, enabled>>
  <2>1. timers[i] \in Recurring \cup {NoJob}
    BY <1>1, <1>3 DEF CronBooks
  <2>2. jobs'[i] = o /\ \A k \in CronIds : k # i => jobs'[k] = jobs[k]
    BY <1>1
  <2>3. CronTypeOK'
    BY <1>1, <1>3
  <2>4. CronBooks'
    BY <1>1, <1>3, <2>1, <2>2 DEF CronBooks, TimersTracked
  <2>5. Recurs'
    BY <1>1, <1>3, <2>2 DEF Recurs, Scheduled
  <2>. QED  BY <2>3, <2>4, <2>5 DEF CronInv
<1>. QED  BY <1>2, <1>3 DEF AddCronJob, UpdateCronJob

LEMMA CronCallbacks ==
  ASSUME CronInv, NEW o \in CronJobs, FireCronJob(o) \/ RearmCronJob(o) \/ HandlerEnds(o)
  PROVE  CronInv'
<1>. USE CronAssumption DEF CronTypeOK
<1>. DEFINE i == CronIdOf[o]
<1>1. CronTypeOK /\ CronBooks /\ Recurs /\ i \in CronIds
  BY DEF CronInv
<1>2. armed[o] > 0 => timers[i] = o
  BY <1>1 DEF CronBooks, TimersTracked
<1>3. CASE FireCronJob(o)
  <2>1. /\ timers' = [timers EXCEPT ![i] = NoJob] /\ timers[i] = o
        /\ handling' = [handling EXCEPT ![o] = @ + 1] /\ handling[o] < MaxHandlers
        /\ armed' = [armed EXCEPT ![o] = @ - 1] /\ armed[o] = 1
        /\ UNCHANGED <<jobs, enabled, fresh, stopped>>
    BY <1>1, <1>2, <1>3 DEF FireCronJob, CronBooks, TimersTracked
  <2>2. CronTypeOK'
    BY <1>1, <2>1
  <2>3. TimersTracked'
    BY <1>1, <2>1 DEF TimersTracked, CronBooks
  <2>4. CronBooks'
    <3>1. o \notin fresh /\ (o \in Recurring => o \in enabled) /\ o \notin Unplannable
      BY <1>1, <2>1 DEF CronBooks
    <3>. QED  BY <1>1, <2>1, <2>3, <3>1 DEF CronBooks
  <2>5. Recurs'
    BY <1>1, <2>1 DEF Recurs, Scheduled, CronBooks
  <2>. QED  BY <2>2, <2>4, <2>5 DEF CronInv
<1>4. ASSUME ScheduleJob(o, enabled), o \in Recurring => o \in enabled, o \notin fresh,
             o \notin Unplannable, o \in Recurring \/ jobs[i] = o,
             \A x \in CronJobs : handling'[x] \in 0..MaxHandlers,
             handling' = [x \in CronJobs |-> handling'[x]],
             \A x \in CronJobs : x # o => handling'[x] = handling[x],
             UNCHANGED <<jobs, fresh, stopped>>
      PROVE  CronInv'
  <2>1. /\ \/ o \in enabled /\ timers' = [timers EXCEPT ![i] = o] /\ enabled' = enabled
           \/ /\ timers' = [timers EXCEPT ![i] = NoJob] /\ enabled' = enabled \ {o}
              /\ o \notin Recurring
        /\ armed' \in [CronJobs -> Nat] /\ TimersTracked'
    BY <1>1, <1>4, JobScheduled
  <2>2. CronTypeOK'
    BY <1>1, <1>4, <2>1
  <2>3. \A k \in CronIds : k # i => timers'[k] = timers[k]
    BY <1>1, <2>1
  <2>4. timers'[i] \in {o, NoJob}
    BY <1>1, <2>1
  <2>5. CronBooks'
    BY <1>1, <1>4, <2>1, <2>3, <2>4 DEF CronBooks
  <2>6. Recurs'
    BY <1>1, <1>4, <2>1, <2>3, <2>4 DEF Recurs, Scheduled
  <2>. QED  BY <2>2, <2>5, <2>6 DEF CronInv
<1>5. CASE RearmCronJob(o)
  <2>1. timers[i] = o /\ ScheduleJob(o, enabled) /\ UNCHANGED <<jobs, handling, fresh, stopped>>
    BY <1>2, <1>5 DEF RearmCronJob
  <2>2. /\ o \in Recurring => o \in enabled
        /\ o \notin fresh /\ o \notin Unplannable /\ (o \in Recurring \/ jobs[i] = o)
    BY <1>1, <2>1 DEF CronBooks
  <2>. QED  BY <1>1, <1>4, <2>1, <2>2
<1>6. CASE HandlerEnds(o)
  <2>1. /\ handling[o] > 0 /\ handling' = [handling EXCEPT ![o] = @ - 1]
        /\ handling' \in [CronJobs -> 0..MaxHandlers]
        /\ UNCHANGED <<jobs, fresh, stopped>>
    BY <1>1, <1>6 DEF HandlerEnds
  <2>2. (o \in Recurring => o \in enabled) /\ o \notin fresh /\ o \notin Unplannable
    BY <1>1, <2>1 DEF CronBooks
  <2>3. CASE o \in Recurring /\ ScheduleJob(o, enabled)
    BY <1>1, <1>4, <2>1, <2>2, <2>3
  <2>4. CASE o \notin Recurring /\ enabled' = enabled \ {o} /\ UNCHANGED <<timers, armed>>
    <3>1. CronTypeOK'
      BY <1>1, <2>1, <2>4
    <3>2. CronBooks'
      BY <1>1, <2>1, <2>2, <2>4 DEF CronBooks, TimersTracked
    <3>3. Recurs'
      BY <1>1, <2>1, <2>4 DEF Recurs, Scheduled
    <3>. QED  BY <3>1, <3>2, <3>3 DEF CronInv
  <2>. QED  BY <1>6, <2>3, <2>4 DEF HandlerEnds
<1>. QED  BY <1>3, <1>5, <1>6

LEMMA CronStops ==
  ASSUME CronInv, StopCron \/ \E i \in CronIds : RemoveCronJob(i)
  PROVE  CronInv'
<1>. USE CronAssumption DEF CronTypeOK
<1>1. /\ CronTypeOK /\ CronBooks /\ Recurs
      /\ \A o \in CronJobs : armed[o] = (IF timers[CronIdOf[o]] = o THEN 1 ELSE 0)
  BY DEF CronInv, CronBooks, TimersTracked
<1>2. CASE StopCron
  <2>1. \A o \in CronJobs : armed'[o] = 0 /\ timers'[CronIdOf[o]] = NoJob
    BY <1>1, <1>2 DEF StopCron
  <2>2. armed' \in [CronJobs -> Nat]
    BY <1>2, <2>1 DEF StopCron
  <2>3. TimersTracked'
    BY <2>1 DEF TimersTracked
  <2>. QED  BY <1>1, <1>2, <2>2, <2>3 DEF StopCron, CronInv, CronBooks, Recurs
<1>3. ASSUME NEW i \in CronIds, RemoveCronJob(i) PROVE CronInv'
  <2>1. \A o \in CronJobs : o = timers[i] => CronIdOf[o] = i
    BY <1>1 DEF CronBooks
  <2>2. /\ \A o \in CronJobs : armed'[o] = (IF o = timers[i] THEN 0 ELSE armed[o])
        /\ armed' \in [CronJobs -> Nat]
    BY <1>1, <1>3, <2>1 DEF RemoveCronJob, Cleared
  <2>3. /\ timers' = [timers EXCEPT ![i] = NoJob] /\ jobs' = [jobs EXCEPT ![i] = NoJob]
        /\ UNCHANGED <<enabled, handling, fresh, stopped>>
    BY <1>3 DEF RemoveCronJob
  <2>4. TimersTracked'
    BY <1>1, <2>1, <2>2, <2>3 DEF TimersTracked
  <2>5. CronBooks'
    BY <1>1, <2>3, <2>4 DEF CronBooks
  <2>6. Recurs'
    BY <1>1, <2>3 DEF Recurs, Scheduled
  <2>. QED  BY <1>1, <2>2, <2>3, <2>5, <2>6 DEF CronInv
<1>. QED  BY <1>2, <1>3

LEMMA CronStarts ==
  ASSUME CronInv, StartCron
  PROVE  CronInv'
<1>. USE CronAssumption DEF CronTypeOK
<1>. DEFINE now == {i \in CronIds : Scheduled(i)}
<1>1. /\ CronTypeOK /\ CronBooks /\ Recurs
      /\ \A o \in CronJobs : armed[o] = (IF timers[CronIdOf[o]] = o THEN 1 ELSE 0)
  BY DEF CronInv, CronBooks, TimersTracked
<1>2. PICK past \in SUBSET (enabled \ (Recurring \cup Unplannable)) :
        LET on == {jobs[i] : i \in now} \ (past \cup Unplannable) IN
        /\ timers' = [i \in CronIds |-> IF i \notin now THEN timers[i]
                                        ELSE IF jobs[i] \in on THEN jobs[i] ELSE NoJob]
        /\ armed' = [o \in CronJobs |->
                       armed[o] + (IF o \in on THEN 1 ELSE 0)
                       - (IF CronIdOf[o] \in now /\ timers[CronIdOf[o]] = o THEN 1 ELSE 0)]
        /\ enabled' = enabled \ past /\ stopped' = {}
        /\ UNCHANGED <<jobs, handling, fresh>>
  BY DEF StartCron
<1>. DEFINE on == {jobs[i] : i \in now} \ (past \cup Unplannable)
<1>3. \A i \in now : i \in CronIds /\ jobs[i] \in CronJobs /\ CronIdOf[jobs[i]] = i
                     /\ jobs[i] \in enabled
  BY <1>1 DEF Scheduled, CronBooks
<1>4. \A o \in CronJobs : o \in on <=> CronIdOf[o] \in now /\ jobs[CronIdOf[o]] = o
                               /\ o \notin past \cup Unplannable
  BY <1>3
<1>5. \A i \in CronIds : timers'[i] = IF i \notin now THEN timers[i]
                                      ELSE IF jobs[i] \notin past \cup Unplannable
                                      THEN jobs[i] ELSE NoJob
  BY <1>2
<1>6. ASSUME NEW o \in CronJobs
      PROVE  armed'[o] = (IF timers'[CronIdOf[o]] = o THEN 1 ELSE 0)
  <2>1. armed'[o] = armed[o] + (IF o \in on THEN 1 ELSE 0)
                    - (IF CronIdOf[o] \in now /\ timers[CronIdOf[o]] = o THEN 1 ELSE 0)
    BY <1>2
  <2>2. CronIdOf[o] \in CronIds
    OBVIOUS
  <2>3. CASE CronIdOf[o] \in now
    <3>1. armed'[o] = IF o \in on THEN 1 ELSE 0
      BY <1>1, <2>1, <2>3
    <3>. QED  BY <1>4, <1>5, <2>2, <2>3, <3>1
  <2>4. CASE CronIdOf[o] \notin now
    <3>1. armed'[o] = armed[o]
      BY <1>1, <1>4, <2>1, <2>4
    <3>. QED  BY <1>1, <1>5, <2>2, <2>4, <3>1
  <2>. QED  BY <2>3, <2>4
<1>7. TimersTracked' /\ armed' \in [CronJobs -> Nat]
  <2>1. armed' = [o \in CronJobs |-> armed'[o]]
    BY <1>2
  <2>2. \A o \in CronJobs : armed'[o] \in Nat
    BY <1>6
  <2>. QED  BY <1>6, <2>1, <2>2 DEF TimersTracked
<1>8. timers' \in [CronIds -> CronJobs \cup {NoJob}]
  BY <1>1, <1>2, <1>3, <1>5
<1>9. CronTypeOK'
  BY <1>1, <1>2, <1>7, <1>8
<1>10. CronBooks'
  <2>1. \A i \in CronIds :
          /\ timers'[i] # NoJob => CronIdOf[timers'[i]] = i
          /\ timers'[i] \notin Recurring \cup {NoJob} => jobs[i] = timers'[i]
    BY <1>1, <1>3, <1>5 DEF CronBooks
  <2>2. \A o \in fresh : timers'[CronIdOf[o]] # o
    BY <1>1, <1>3, <1>5 DEF CronBooks
  <2>3. \A o \in Recurring : timers'[CronIdOf[o]] = o => o \in enabled
    BY <1>1, <1>3, <1>5 DEF CronBooks
  <2>4. \A o \in Recurring : o \in enabled => o \in enabled'
    BY <1>2
  <2>5. \A o \in CronJobs : timers'[CronIdOf[o]] = o => o \notin Unplannable
    BY <1>1, <1>3, <1>5 DEF CronBooks
  <2>. QED  BY <1>1, <1>2, <1>7, <2>1, <2>2, <2>3, <2>4, <2>5 DEF CronBooks
<1>11. Recurs'
  <2>. SUFFICES ASSUME NEW i \in CronIds, Scheduled(i)', jobs'[i] \in Recurring \ Unplannable
                PROVE  timers'[i] # NoJob
    BY DEF Recurs
  <2>1. i \in now /\ jobs[i] \notin past \cup Unplannable /\ jobs[i] \in Recurring
    BY <1>2 DEF Scheduled
  <2>. QED  BY <1>3, <1>5, <2>1
<1>. QED  BY <1>9, <1>10, <1>11 DEF CronInv

LEMMA CronInvariant == CronSpec => []CronInv
<1>1. CronInit => CronInv
  BY CronAssumption DEF CronInit, CronInv, CronTypeOK, CronBooks, TimersTracked, Recurs, Scheduled
<1>2. CronInv /\ [CronNext]_cronVars => CronInv'
  <2>1. CronInv /\ UNCHANGED cronVars => CronInv'
    BY DEF cronVars, CronInv, CronTypeOK, CronBooks, TimersTracked, Recurs, Scheduled
  <2>. QED  BY <2>1, CronAdds, CronCallbacks, CronStops, CronStarts DEF CronNext
<1>. QED  BY <1>1, <1>2, PTL DEF CronSpec

\* However often jobs are replaced, removed, stopped and started while their
\* handlers run or throw: a timer is armed if and only if the scheduler can clear
\* it, and a recurring job that is enabled and has a next run has a timer or will
\* get one.  (One without a next run, say for an expression that does not parse,
\* stays enabled and has none.)
THEOREM CronStaysAlive == CronSpec => []CronAlive
<1>1. CronInv => CronAlive
  BY CronAssumption DEF CronInv, CronBooks, CronAlive, Recurs, CronGoesOn
<1>. QED  BY <1>1, CronInvariant, PTL

---------------------------------------------------------------------------
(* Reminders.                                                              *)

\* The steps of an "every" schedule go past any elapsed time.
LEMMA Steps ==
  ASSUME NEW e \in Nat, NEW p \in Nat \ {0}
  PROVE  ((e + p) \div p) * p \in Nat /\ ((e + p) \div p) * p > e
<1>. DEFINE k == (e + p) \div p
<1>1. k \in Int /\ p * k <= e + p /\ e + p < p * (k + 1)
  BY Z3
<1>2. p * (k + 1) = p * k + p
  BY <1>1, Z3
<1>3. k * p = p * k
  BY <1>1, Z3
<1>. QED BY <1>1, <1>2, <1>3

Schedules ==
  {At(t) : t \in Nat} \cup {Every(p, a) : p \in Nat \ {0}, a \in Nat \cup {NoAnchor}}
Rows   == [enabled : BOOLEAN, next : Nat, message : Nat, schedule : Schedules]
Copies == [id : Reminders, next : Nat, message : Nat, schedule : Schedules]

LEMMA RunsLater ==
  ASSUME NEW s \in Schedules, NEW now \in Nat, NEW t \in NextRun(s, now)
  PROVE  t \in Nat /\ t > now
<1>1. CASE s \in {At(x) : x \in Nat}
  BY <1>1 DEF At, NextRun
<1>2. ASSUME NEW p \in Nat \ {0}, NEW a \in Nat \cup {NoAnchor}, s = Every(p, a)
      PROVE  t \in Nat /\ t > now
  <2>. DEFINE b == IF a = NoAnchor THEN now ELSE a
  <2>1. b \in Nat
    BY DEF NoAnchor
  <2>2. t = NextEvery(p, b, now)
    BY <1>2 DEF Every, NextRun
  <2>3. CASE now < b
    BY <2>1, <2>2, <2>3 DEF NextEvery
  <2>4. CASE ~(now < b)
    <3>1. now - b \in Nat
      BY <2>1, <2>4
    <3>2. ((now - b + p) \div p) * p \in Nat /\ ((now - b + p) \div p) * p > now - b
      BY <3>1, Steps
    <3>. QED  BY <2>1, <2>2, <2>4, <3>2 DEF NextEvery
  <2>. QED  BY <2>3, <2>4
<1>. QED  BY <1>1, <1>2 DEF Schedules

\* A row asks for a time after the last it was fired for.  A copy is of a time
\* that is over; until the row asks for a later one, or is disabled, it has the
\* message of the copy.
RowBooks ==
  \A i \in Reminders :
    /\ fired[i].at <= clock
    /\ row[i].enabled => row[i].next > fired[i].at

CopyOf(c) ==
  /\ c.next # Never /\ c.next <= clock
  /\ \/ ~row[c.id].enabled
     \/ row[c.id].next > c.next
     \/ row[c.id].message = c.message

RemInv ==
  /\ clock \in Nat /\ clock >= 1 /\ edits \in Nat
  /\ row \in [Reminders -> Rows]
  /\ fired \in [Reminders -> [at : Nat, message : Nat]]
  /\ batch \in Seq(Copies)
  /\ RowBooks
  /\ \A k \in 1..Len(batch) : CopyOf(batch[k])

Asks ==
  \A i \in Reminders : fired'[i] # fired[i] =>
    /\ Due(i)
    /\ fired'[i] = [at |-> row[i].next, message |-> row[i].message]
    /\ fired'[i].at > fired[i].at

\* Commands and the runner write rows whose next time is over that of every
\* copy, or disable them.
LEMMA RowWritten ==
  ASSUME RemInv, NEW i \in Reminders, NEW new \in Rows, row' = [row EXCEPT ![i] = new],
         ~new.enabled \/ new.next > clock,
         UNCHANGED <<clock, batch, fired>>
  PROVE  /\ row' \in [Reminders -> Rows] /\ RowBooks'
         /\ \A k \in 1..Len(batch) : CopyOf(batch[k])'
<1>1. row' \in [Reminders -> Rows] /\ \A j \in Reminders : row'[j] = IF j = i THEN new ELSE row[j]
  BY DEF RemInv
<1>2. new.next \in Nat /\ clock \in Nat /\ \A j \in Reminders : fired[j].at \in Nat
  BY DEF RemInv, Rows
<1>3. RowBooks'
  BY <1>1, <1>2 DEF RemInv, RowBooks
<1>4. ASSUME NEW k \in 1..Len(batch) PROVE CopyOf(batch[k])'
  <2>1. batch[k] \in Copies /\ CopyOf(batch[k])
    BY DEF RemInv
  <2>2. batch[k].id \in Reminders /\ batch[k].next \in Nat
    BY <2>1 DEF Copies
  <2>. QED  BY <1>1, <1>2, <2>1, <2>2 DEF CopyOf
<1>. QED  BY <1>1, <1>3, <1>4

LEMMA CommandsWrite ==
  ASSUME RemInv, NEW i \in Reminders,
         WriteReminder(i) \/ SnoozeReminder(i) \/ CancelReminder(i)
  PROVE  RemInv' /\ fired' = fired
<1>. USE RemindersAssumption
<1>1. row[i] \in Rows /\ clock \in Nat /\ edits \in Nat
  BY DEF RemInv
<1>2. ASSUME NEW new \in Rows, Edit(i, new), new.next > clock PROVE RemInv' /\ fired' = fired
  <2>1. row' = [row EXCEPT ![i] = new] /\ UNCHANGED <<clock, batch, fired>> /\ edits' = edits + 1
    BY <1>2 DEF Edit
  <2>2. /\ row' \in [Reminders -> Rows] /\ RowBooks'
        /\ \A k \in 1..Len(batch) : CopyOf(batch[k])'
    BY <1>2, <2>1, RowWritten
  <2>. QED  BY <1>1, <2>1, <2>2 DEF RemInv
<1>3. CASE WriteReminder(i)
  <2>0. PICK s \in Asked : \E t \in NextRun(s, clock) :
          Edit(i, [enabled |-> TRUE, next |-> t, message |-> edits + 1, schedule |-> s])
    BY <1>3 DEF WriteReminder
  <2>1. PICK t \in NextRun(s, clock) :
          Edit(i, [enabled |-> TRUE, next |-> t, message |-> edits + 1, schedule |-> s])
    BY <2>0
  <2>2. s \in Schedules
    <3>1. CASE s \in {At(clock + d) : d \in Delays}
      BY <1>1, <3>1 DEF Schedules
    <3>2. ASSUME NEW d \in Delays, NEW a \in Anchored,
                 s = Every(d, IF a THEN clock ELSE NoAnchor)
          PROVE  s \in Schedules
      <4>1. PICK b \in Nat \cup {NoAnchor} : s = Every(d, b)
        BY <1>1, <3>2
      <4>. QED  BY <4>1 DEF Schedules
    <3>. QED  BY <3>1, <3>2 DEF Asked
  <2>3. t \in Nat /\ t > clock
    BY <1>1, <2>1, <2>2, RunsLater
  <2>4. [enabled |-> TRUE, next |-> t, message |-> edits + 1, schedule |-> s] \in Rows
    BY <1>1, <2>2, <2>3 DEF Rows
  <2>. QED  BY <1>2, <2>1, <2>3, <2>4
<1>4. CASE SnoozeReminder(i)
  <2>1. PICK d \in Delays : Edit(i, [row[i] EXCEPT !.enabled = TRUE, !.next = clock + d])
    BY <1>4 DEF SnoozeReminder
  <2>2. clock + d \in Nat /\ clock + d > clock
    BY <1>1, <2>1
  <2>3. /\ [row[i] EXCEPT !.enabled = TRUE, !.next = clock + d] \in Rows
        /\ [row[i] EXCEPT !.enabled = TRUE, !.next = clock + d].next = clock + d
    BY <1>1, <2>2 DEF Rows
  <2>. QED  BY <1>2, <2>1, <2>2, <2>3
<1>5. CASE CancelReminder(i)
  <2>1. /\ row' = [row EXCEPT ![i] = [row[i] EXCEPT !.enabled = FALSE]]
        /\ UNCHANGED <<clock, batch, fired, edits>>
    BY <1>5 DEF CancelReminder
  <2>2. /\ [row[i] EXCEPT !.enabled = FALSE] \in Rows
        /\ ~[row[i] EXCEPT !.enabled = FALSE].enabled
    BY <1>1 DEF Rows
  <2>3. /\ row' \in [Reminders -> Rows] /\ RowBooks'
        /\ \A k \in 1..Len(batch) : CopyOf(batch[k])'
    BY <2>1, <2>2, RowWritten
  <2>. QED  BY <1>1, <2>1, <2>3 DEF RemInv
<1>. QED  BY <1>3, <1>4, <1>5

LEMMA TickBegins ==
  ASSUME RemInv, TickBegin
  PROVE  RemInv' /\ fired' = fired
<1>. USE RemindersAssumption
<1>. DEFINE D == {i \in Reminders : Due(i)}
            n == IF Cardinality(D) < BatchSize THEN Cardinality(D) ELSE BatchSize
<1>1. n \in Nat
  BY FS_Subset, FS_CardinalityType
<1>2. PICK q \in [1..n -> D] : batch' = [k \in 1..n |-> Copy(q[k])]
  BY DEF TickBegin, DueBatches
<1>3. UNCHANGED <<clock, row, fired, edits>>
  BY DEF TickBegin
<1>4. ASSUME NEW i \in D PROVE Copy(i) \in Copies /\ CopyOf(Copy(i))
  <2>1. i \in Reminders /\ row[i] \in Rows
    BY DEF RemInv
  <2>2. /\ Copy(i) \in Copies /\ Copy(i).id = i /\ Copy(i).next = row[i].next
        /\ Copy(i).message = row[i].message
    BY <2>1 DEF Copy, Copies, Rows
  <2>. QED  BY <1>4, <2>2 DEF CopyOf, Due
<1>. HIDE DEF n, D
<1>5. batch' \in Seq(Copies) /\ Len(batch') = n /\ \A k \in 1..n : batch'[k] = Copy(q[k])
  BY <1>1, <1>2, <1>4
<1>6. ASSUME NEW k \in 1..Len(batch') PROVE CopyOf(batch[k])'
  <2>1. CopyOf(batch'[k])
    BY <1>2, <1>4, <1>5
  <2>. QED  BY <1>3, <2>1 DEF CopyOf
<1>. QED  BY <1>3, <1>5, <1>6 DEF RemInv, RowBooks

LEMMA TickItems ==
  ASSUME RemInv, TickItem
  PROVE  RemInv' /\ Asks
<1>. DEFINE c == Head(batch)
            i == c.id
<1>1. /\ batch \in Seq(Copies) /\ batch # <<>> /\ batch' = Tail(batch)
      /\ UNCHANGED <<clock, edits>>
  BY DEF RemInv, TickItem
<1>2. c \in Copies /\ CopyOf(c) /\ 1 \in 1..Len(batch) /\ c = batch[1]
  BY <1>1 DEF RemInv
<1>3. /\ i \in Reminders /\ c.next \in Nat /\ c.message \in Nat /\ c.schedule \in Schedules
      /\ row[i] \in Rows /\ clock \in Nat
  BY <1>2 DEF Copies, RemInv
<1>4. batch' \in Seq(Copies) /\ Len(batch') = Len(batch) - 1
      /\ \A k \in 1..Len(batch') : batch'[k] \in Copies /\ CopyOf(batch'[k])
  <2>1. \A k \in 1..Len(batch') : k + 1 \in 1..Len(batch) /\ batch'[k] = batch[k + 1]
    BY <1>1
  <2>. QED  BY <1>1, <2>1 DEF RemInv
<1>5. CASE UNCHANGED <<row, fired>>
  <2>1. \A k \in 1..Len(batch') : CopyOf(batch[k])'
    BY <1>1, <1>4, <1>5 DEF CopyOf
  <2>. QED  BY <1>1, <1>4, <1>5, <2>1 DEF RemInv, RowBooks, Asks
<1>6. CASE /\ Claimed(c)
           /\ fired' = [fired EXCEPT ![i] = [at |-> c.next, message |-> c.message]]
  <2>1. PICK t \in Nat, keep \in BOOLEAN : MarkFired(c, t, keep) /\ (keep => t > c.next)
    <3>1. CASE NextOf(c) = {}
      BY <1>6, <3>1 DEF Claimed, Never
    <3>2. CASE NextOf(c) # {}
      <4>1. PICK t \in NextOf(c) : MarkFired(c, t, TRUE)
        BY <1>6, <3>2 DEF Claimed
      <4>2. t \in NextRun(c.schedule, c.next + 1) /\ c.next + 1 \in Nat
        BY <1>3, <4>1 DEF NextOf
      <4>3. t \in Nat /\ t > c.next + 1
        BY <1>3, <4>2, RunsLater
      <4>4. t > c.next
        BY <1>3, <4>3
      <4>. QED  BY <4>1, <4>3, <4>4, Zenon
    <3>. QED  BY <3>1, <3>2
  <2>2. row[i].enabled /\ row[i].next = c.next
    BY <2>1 DEF MarkFired
  <2>3. row' = [row EXCEPT ![i] = [row[i] EXCEPT !.next = t, !.enabled = keep]]
    BY <1>3, <2>1 DEF MarkFired, RemInv
  <2>. DEFINE new == [row[i] EXCEPT !.next = t, !.enabled = keep]
  <2>4. new \in Rows /\ new.next = t /\ new.enabled = keep /\ new.message = row[i].message
    BY <1>3, <2>1 DEF Rows
  <2>5. \A j \in Reminders : row'[j] = IF j = i THEN new ELSE row[j]
    BY <1>3, <2>3 DEF RemInv
  <2>6. /\ row' \in [Reminders -> Rows]
        /\ fired' \in [Reminders -> [at : Nat, message : Nat]]
        /\ fired'[i] = [at |-> c.next, message |-> c.message]
        /\ \A j \in Reminders : j # i => fired'[j] = fired[j]
    BY <1>3, <1>6, <2>3, <2>4 DEF RemInv
  <2>7. row[i].message = c.message
    BY <1>2, <1>3, <2>2 DEF CopyOf
  <2>8. Asks
    <3>1. Due(i)
      BY <1>2, <2>2 DEF Due, CopyOf
    <3>2. row[i].next > fired[i].at
      BY <1>3, <2>2 DEF RemInv, RowBooks
    <3>3. fired'[i].at = row[i].next
      BY <2>2, <2>6
    <3>. QED  BY <2>2, <2>6, <2>7, <3>1, <3>2, <3>3 DEF Asks
  <2>. HIDE DEF new
  <2>9. RowBooks'
    <3>. SUFFICES ASSUME NEW j \in Reminders
                  PROVE  fired'[j].at <= clock' /\ (row'[j].enabled => row'[j].next > fired'[j].at)
      BY DEF RowBooks
    <3>1. CASE j = i
      BY <1>1, <1>2, <1>3, <2>1, <2>4, <2>5, <2>6, <3>1 DEF CopyOf
    <3>2. CASE j # i
      BY <1>1, <2>5, <2>6, <3>2 DEF RemInv, RowBooks
    <3>. QED  BY <3>1, <3>2
  <2>10. ASSUME NEW k \in 1..Len(batch') PROVE CopyOf(batch[k])'
    <3>. DEFINE b == batch'[k]
    <3>1. b \in Copies /\ CopyOf(b)
      BY <1>4
    <3>. HIDE DEF b
    <3>2. b.id \in Reminders /\ b.next \in Nat
      BY <3>1 DEF Copies
    <3>3. CASE b.id = i
      BY <1>1, <1>3, <2>1, <2>2, <2>4, <2>5, <3>1, <3>2, <3>3, SMTT(30) DEF CopyOf, b
    <3>4. CASE b.id # i
      BY <1>1, <2>5, <3>1, <3>2, <3>4 DEF CopyOf, b
    <3>. QED  BY <3>3, <3>4 DEF b
  <2>. QED  BY <1>1, <1>4, <2>6, <2>8, <2>9, <2>10 DEF RemInv
<1>. QED  BY <1>5, <1>6 DEF TickItem

LEMMA RemStep ==
  ASSUME RemInv, [RemindersNext]_reminderVars
  PROVE  RemInv' /\ (Asks \/ fired' = fired)
<1>1. CASE JobReturns \/ TickEnd
  BY <1>1 DEF JobReturns, TickEnd, RemInv, RowBooks, CopyOf
<1>2. CASE ClockTick
  <2>1. clock \in Nat /\ clock' = clock + 1 /\ UNCHANGED <<row, batch, fired, edits>>
    BY <1>2 DEF ClockTick, RemInv
  <2>2. RowBooks'
    BY <2>1 DEF RemInv, RowBooks
  <2>3. ASSUME NEW k \in 1..Len(batch) PROVE CopyOf(batch[k])'
    <3>1. batch[k] \in Copies /\ CopyOf(batch[k])
      BY DEF RemInv
    <3>2. batch[k].next \in Nat
      BY <3>1 DEF Copies
    <3>. QED  BY <2>1, <3>1, <3>2 DEF CopyOf
  <2>. QED  BY <2>1, <2>2, <2>3 DEF RemInv
<1>3. CASE KillHost
  BY <1>3 DEF KillHost, RemInv, RowBooks
<1>4. CASE UNCHANGED reminderVars
  BY <1>4 DEF reminderVars, RemInv, RowBooks, CopyOf
<1>. QED  BY <1>1, <1>2, <1>3, <1>4, CommandsWrite, TickBegins, TickItems DEF RemindersNext

LEMMA RemInvariant == RemindersSpec => []RemInv
<1>1. RemindersInit => RemInv
  BY DEF RemindersInit, RemInv, RowBooks, NoRow, Never, Rows, Schedules, At
<1>2. RemInv /\ [RemindersNext]_reminderVars => RemInv'
  BY RemStep
<1>. QED  BY <1>1, <1>2, PTL DEF RemindersSpec

\* However commands rewrite, snooze and cancel reminders while the runner works
\* on copies, and whenever the process dies: what fires is due, has the current
\* message, and is later than what was fired before.
THEOREM FiresWhatIsAsked == RemindersSpec => FiredAsAsked
<1>1. RemInv /\ [RemindersNext]_reminderVars => [Asks]_reminderVars
  <2>1. fired' = fired => Asks
    BY DEF Asks
  <2>. QED  BY <2>1, RemStep
<1>. QED  BY <1>1, RemInvariant, PTL DEF RemindersSpec, FiredAsAsked, Asks

---------------------------------------------------------------------------
(* The reply of a turn.                                                    *)

\* Where the turn is bounds what the buffer can do: once finalized nothing is
\* due, and past "settling" nothing is under way.
PhaseBooks ==
  /\ phase = "streaming" => ~finalized /\ ~failing /\ goal = 0
  /\ phase # "streaming" => finalized /\ ~flushTimer
  /\ phase \notin {"streaming", "settling"} => flights = <<>>
  /\ flushTimer => buffer # 0
  /\ calling => flights # <<>>
  /\ phase \in {"sending", "dispatching"} => messageId = 0
  /\ phase \in {"editing", "resending"} => messageId # 0
  /\ phase \in {"sending", "editing", "resending"} => TerminalText # 0
  /\ phase \in {"resending", "dispatching"} => channelFaults # 0
  /\ phase = "dispatching" => goal # 0 /\ ~failing

\* While no call of the stream failed, the channel shows what was sent last;
\* while no call failed at all, in its only message.
ShownBooks ==
  /\ phase \in {"streaming", "settling"} /\ messageId # 0 /\ ~streamFailed
     => shown[messageId] = lastSent
  /\ channelFaults = 0 =>
       /\ ~streamFailed
       /\ (messageId = 0 /\ shown = <<>>) \/ (messageId = 1 /\ shown = <<lastSent>>)

ReplyInv == ReplyTypeOK /\ PhaseBooks /\ ShownBooks /\ FinalTextWins

LEMMA TextsAreNumbers ==
  /\ Texts = 0..(MaxDeltas + 2)
  /\ 0 \in Texts /\ Final \in Texts /\ Failure \in Texts
  /\ 1..MaxDeltas \subseteq Texts /\ 0..MaxDeltas \subseteq Texts
BY ReplyAssumption DEF Texts, Final, Failure

LEMMA ReplyInvInit == ReplyInit => ReplyInv
<1>. SUFFICES ASSUME ReplyInit PROVE ReplyInv
  OBVIOUS
<1>1. <<>> \in Seq(1..MaxDeltas) /\ <<>> \in Seq(Texts) /\ Len(<<>>) = 0
  OBVIOUS
<1>2. ReplyTypeOK
  <2>1. shown \in Seq(Texts) /\ flights \in Seq(1..MaxDeltas) /\ Len(shown) = 0
    BY <1>1 DEF ReplyInit
  <2>2. /\ phase = "streaming" /\ goal \in Texts /\ buffer \in 0..MaxDeltas /\ lastSent \in Texts
        /\ messageId = 0 /\ outbound = 0 /\ channelFaults \in 0..MaxChannelFaults
    BY ReplyAssumption, TextsAreNumbers DEF ReplyInit
  <2>3. /\ failing \in BOOLEAN /\ streamFailed \in BOOLEAN /\ finalized \in BOOLEAN
        /\ flushTimer \in BOOLEAN /\ calling \in BOOLEAN
    BY DEF ReplyInit
  <2>. QED  BY <2>1, <2>2, <2>3 DEF ReplyTypeOK
<1>3. PhaseBooks
  <2>1. phase = "streaming" /\ ~finalized /\ ~failing /\ ~flushTimer /\ ~calling /\ goal = 0
    BY DEF ReplyInit
  <2>. QED  BY <2>1 DEF PhaseBooks
<1>4. ShownBooks
  BY DEF ReplyInit, ShownBooks
<1>5. FinalTextWins
  BY DEF ReplyInit, FinalTextWins
<1>. QED  BY <1>2, <1>3, <1>4, <1>5 DEF ReplyInv

\* What a message put on the channel does to it.
LEMMA SentShows ==
  ASSUME ReplyTypeOK, NEW text \in Texts, Sent(text)
  PROVE  /\ shown' \in Seq(Texts)
         /\ Len(shown') = Len(shown) + 1 /\ Len(shown) \in Nat
         /\ shown'[Len(shown')] = text
         /\ shown = <<>> => shown' = <<text>> /\ Len(shown') = 1
<1>1. /\ shown' \in Seq(Texts)
      /\ Len(shown') = Len(shown) + 1 /\ Len(shown) \in Nat
      /\ shown'[Len(shown) + 1] = text
  BY AppendProperties, LenProperties DEF Sent, ReplyTypeOK
<1>2. shown = <<>> => shown' = <<text>>
  BY DEF Sent
<1>. QED  BY <1>1, <1>2

LEMMA EditedShows ==
  ASSUME ReplyTypeOK, NEW text \in Texts, messageId # 0, Edited(messageId, text)
  PROVE  /\ shown' \in Seq(Texts)
         /\ Len(shown') = Len(shown) /\ Len(shown) \in Nat
         /\ shown'[messageId] = text
         /\ messageId = 1 /\ Len(shown) = 1 => shown' = <<text>>
<1>1. messageId \in 1..Len(shown)
  BY LenProperties DEF ReplyTypeOK
<1>2. /\ shown' \in Seq(Texts)
      /\ Len(shown') = Len(shown) /\ Len(shown) \in Nat
      /\ shown'[messageId] = text
  BY <1>1, ExceptSeq, LenProperties DEF Edited, ReplyTypeOK
<1>3. messageId = 1 /\ Len(shown) = 1 => shown' = <<text>>
  <2>. SUFFICES ASSUME messageId = 1, Len(shown) = 1
                PROVE  shown' = <<text>>
    OBVIOUS
  <2>. DEFINE one == <<text>>
  <2>1. one \in Seq(Texts) /\ Len(one) = 1 /\ one[1] = text
    OBVIOUS
  <2>. HIDE DEF one
  <2>2. \A i \in 1..Len(shown') : shown'[i] = one[i]
    BY <1>2, <2>1
  <2>3. shown' = one
    BY <1>2, <2>1, <2>2, SeqEqual
  <2>. QED  BY <2>3 DEF one
<1>. QED  BY <1>2, <1>3

\* What the chain of flushes is after one more, and after its first is over.
LEMMA FlushChains ==
  ASSUME flights \in Seq(1..MaxDeltas), NEW text \in 1..MaxDeltas
  PROVE  Append(flights, text) \in Seq(1..MaxDeltas) /\ Append(flights, text) # <<>>
BY AppendProperties

LEMMA ChainMovesOn ==
  ASSUME flights \in Seq(1..MaxDeltas), flights # <<>>
  PROVE  Tail(flights) \in Seq(1..MaxDeltas) /\ Head(flights) \in 1..MaxDeltas
BY HeadTailProperties

LEMMA DeltaStep == ASSUME ReplyInv, Delta PROVE ReplyInv'
<1>. USE ReplyAssumption DEF ReplyInv
<1>1. buffer' \in 1..MaxDeltas
  BY DEF Delta, ReplyTypeOK
<1>2. flights' \in Seq(1..MaxDeltas) /\ (flights # <<>> => flights' # <<>>)
  BY <1>1, FlushChains DEF Delta, Flush, ReplyTypeOK
<1>3. flushTimer' \in BOOLEAN
  BY DEF Delta, Flush
<1>4. ReplyTypeOK'
  BY <1>1, <1>2, <1>3 DEF Delta, ReplyTypeOK
<1>5. PhaseBooks'
  BY <1>1, <1>2 DEF Delta, PhaseBooks, TerminalText
<1>6. ShownBooks' /\ FinalTextWins'
  BY DEF Delta, ShownBooks, FinalTextWins
<1>. QED  BY <1>4, <1>5, <1>6

LEMMA FlushTimerStep == ASSUME ReplyInv, FlushTimer PROVE ReplyInv'
<1>. USE ReplyAssumption DEF ReplyInv
<1>1. buffer \in 1..MaxDeltas /\ phase = "streaming"
  BY DEF FlushTimer, PhaseBooks, ReplyTypeOK
<1>2. flights' \in Seq(1..MaxDeltas) /\ flights' # <<>> /\ flushTimer' = FALSE
  BY <1>1, FlushChains DEF FlushTimer, Flush, ReplyTypeOK
<1>3. ReplyTypeOK'
  BY <1>2 DEF FlushTimer, bufferVars, ReplyTypeOK
<1>4. PhaseBooks'
  BY <1>1, <1>2 DEF FlushTimer, bufferVars, PhaseBooks, TerminalText
<1>5. ShownBooks' /\ FinalTextWins'
  BY DEF FlushTimer, bufferVars, ShownBooks, FinalTextWins
<1>. QED  BY <1>3, <1>4, <1>5

LEMMA StartFlightStep == ASSUME ReplyInv, StartFlight PROVE ReplyInv'
<1>. USE ReplyAssumption DEF ReplyInv
<1>1. /\ flights' \in Seq(1..MaxDeltas)
      /\ calling' => flights' # <<>>
      /\ calling' \in BOOLEAN
      /\ flights # <<>>
  BY ChainMovesOn DEF StartFlight, ReplyTypeOK
<1>2. ReplyTypeOK'
  BY <1>1 DEF StartFlight, bufferVars, ReplyTypeOK
<1>3. PhaseBooks'
  BY <1>1 DEF StartFlight, bufferVars, PhaseBooks, TerminalText
<1>4. ShownBooks' /\ FinalTextWins'
  BY DEF StartFlight, bufferVars, ShownBooks, FinalTextWins
<1>. QED  BY <1>2, <1>3, <1>4

LEMMA FlightReturnsStep == ASSUME ReplyInv, FlightReturns PROVE ReplyInv'
<1>. USE ReplyAssumption DEF ReplyInv
<1>. DEFINE text == Head(flights)
<1>1. /\ flights # <<>> /\ phase \in {"streaming", "settling"}
      /\ Tail(flights) \in Seq(1..MaxDeltas) /\ text \in Texts
  BY ChainMovesOn, TextsAreNumbers DEF FlightReturns, PhaseBooks, ReplyTypeOK
<1>. HIDE DEF text
<1>2. /\ FlightCall <=> IF messageId = 0 THEN Sent(text) ELSE Edited(messageId, text)
      /\ flights' = Tail(flights) /\ ~calling' /\ calling' \in BOOLEAN
      /\ UNCHANGED <<phase, goal, failing, buffer, finalized, flushTimer, outbound>>
  BY DEF FlightReturns, FlightCall, text
<1>3. FlightCall =>
        /\ shown' \in Seq(Texts) /\ Len(shown') >= Len(shown)
        /\ Len(shown) \in Nat /\ Len(shown') \in Nat
        /\ messageId = 0 => Len(shown') # 0 /\ shown'[Len(shown')] = text
        /\ messageId # 0 => shown'[messageId] = text
        /\ messageId = 0 /\ shown = <<>> => shown' = <<text>> /\ Len(shown') = 1
        /\ messageId = 1 /\ shown = <<lastSent>> => shown' = <<text>>
  BY <1>1, <1>2, SentShows, EditedShows, LenProperties
<1>4. shown \in Seq(Texts) /\ Len(shown) \in Nat
  BY LenProperties DEF ReplyTypeOK
<1>5. CASE /\ Answered(FlightCall)
           /\ messageId' = IF messageId = 0 THEN Len(shown') ELSE messageId
           /\ lastSent' = text
           /\ UNCHANGED streamFailed
  <2>1. ReplyTypeOK'
    BY <1>1, <1>2, <1>3, <1>5 DEF Answered, ReplyTypeOK
  <2>2. PhaseBooks'
    BY <1>1, <1>2, <1>3, <1>5 DEF Answered, PhaseBooks
  <2>3. ShownBooks' /\ FinalTextWins'
    BY <1>1, <1>2, <1>3, <1>5 DEF Answered, ShownBooks, FinalTextWins
  <2>. QED  BY <2>1, <2>2, <2>3
<1>6. CASE /\ Lost(FlightCall)
           /\ streamFailed' = TRUE
           /\ UNCHANGED <<messageId, lastSent>>
  <2>1. /\ channelFaults' # 0 /\ channelFaults' \in 0..MaxChannelFaults
        /\ shown' \in Seq(Texts) /\ Len(shown') >= Len(shown) /\ Len(shown') \in Nat
    BY <1>3, <1>4, <1>6 DEF Lost, ReplyTypeOK
  <2>2. ReplyTypeOK'
    BY <1>1, <1>2, <1>4, <1>6, <2>1 DEF ReplyTypeOK
  <2>3. PhaseBooks'
    BY <1>1, <1>2, <1>6, <2>1 DEF PhaseBooks
  <2>4. ShownBooks' /\ FinalTextWins'
    BY <1>1, <1>2, <1>6, <2>1 DEF ShownBooks, FinalTextWins
  <2>. QED  BY <2>2, <2>3, <2>4
<1>. QED  BY <1>5, <1>6 DEF FlightReturns, text

LEMMA PromptEndsStep == ASSUME ReplyInv, PromptEnds PROVE ReplyInv'
<1>. USE ReplyAssumption DEF ReplyInv
<1>1. /\ phase = "streaming" /\ phase' = "settling" /\ finalized' = TRUE /\ flushTimer' = FALSE
      /\ goal' \in Texts /\ failing' \in BOOLEAN
      /\ UNCHANGED <<buffer, lastSent, messageId, streamFailed, flights, calling,
                     shown, outbound, channelFaults>>
  BY TextsAreNumbers DEF PromptEnds, Finalize, ReplyTypeOK
<1>2. ReplyTypeOK'
  BY <1>1 DEF ReplyTypeOK
<1>3. PhaseBooks' /\ ShownBooks' /\ FinalTextWins'
  BY <1>1 DEF PhaseBooks, ShownBooks, FinalTextWins
<1>. QED  BY <1>2, <1>3

LEMMA SettleStep == ASSUME ReplyInv, Settle PROVE ReplyInv'
<1>. USE ReplyAssumption DEF ReplyInv
<1>1. /\ phase = "settling" /\ flights = <<>>
      /\ UNCHANGED <<goal, failing, buffer, lastSent, messageId, streamFailed, finalized,
                     flushTimer, flights, calling, shown, channelFaults>>
      /\ TerminalText' = TerminalText
  BY DEF Settle, bufferVars, TerminalText
<1>2. CASE TerminalText = 0 \/ (messageId # 0 /\ lastSent = TerminalText /\ ~streamFailed)
  <2>1. Returns(messageId)
    BY <1>2 DEF Settle
  <2>2. goal # 0 => messageId # 0 /\ shown[messageId] = goal /\ phase' = "over"
    BY <1>1, <1>2, <2>1 DEF Returns, TerminalText, ShownBooks
  <2>3. goal # 0 /\ channelFaults = 0 => shown = <<goal>>
    BY <1>1, <1>2 DEF TerminalText, ShownBooks, ReplyTypeOK
  <2>4. goal = 0 => phase' = "over"
    BY <2>1 DEF Returns
  <2>5. ReplyTypeOK'
    BY <1>1, <2>1, <2>2, <2>4 DEF Returns, ReplyTypeOK
  <2>6. PhaseBooks'
    BY <1>1, <2>2, <2>4 DEF PhaseBooks
  <2>7. ShownBooks' /\ FinalTextWins'
    BY <1>1, <2>1, <2>2, <2>3, <2>4 DEF Returns, ShownBooks, FinalTextWins
  <2>. QED  BY <2>5, <2>6, <2>7
<1>3. CASE TerminalText # 0 /\ ~(messageId # 0 /\ lastSent = TerminalText /\ ~streamFailed)
  <2>1. phase' = (IF messageId = 0 THEN "sending" ELSE "editing") /\ UNCHANGED outbound
    BY <1>3 DEF Settle
  <2>2. ReplyTypeOK'
    BY <1>1, <2>1 DEF ReplyTypeOK
  <2>3. PhaseBooks'
    BY <1>1, <1>3, <2>1 DEF PhaseBooks
  <2>4. ShownBooks' /\ FinalTextWins'
    BY <1>1, <2>1 DEF ShownBooks, FinalTextWins
  <2>. QED  BY <2>2, <2>3, <2>4
<1>. QED  BY <1>2, <1>3

LEMMA TerminalTextIsText ==
  ASSUME ReplyTypeOK PROVE TerminalText \in Texts
BY ReplyAssumption, TextsAreNumbers DEF ReplyTypeOK, TerminalText

LEMMA FinalSendStep == ASSUME ReplyInv, FinalSend PROVE ReplyInv'
<1>. USE ReplyAssumption DEF ReplyInv
<1>1. /\ phase \in {"sending", "resending"}
      /\ UNCHANGED <<goal, failing, buffer, streamFailed, finalized, flushTimer, flights, calling>>
      /\ flights = <<>> /\ TerminalText # 0 /\ TerminalText \in Texts
      /\ goal # 0 => TerminalText = goal
      /\ shown \in Seq(Texts) /\ Len(shown) \in Nat
  BY TerminalTextIsText, LenProperties DEF FinalSend, PhaseBooks, TerminalText, ReplyTypeOK
<1>2. Sent(TerminalText) =>
        /\ shown' \in Seq(Texts) /\ Len(shown') = Len(shown) + 1
        /\ shown'[Len(shown')] = TerminalText
        /\ shown = <<>> => shown' = <<TerminalText>> /\ Len(shown') = 1
  BY <1>1, SentShows
<1>3. CASE /\ Answered(Sent(TerminalText))
           /\ messageId' = Len(shown') /\ lastSent' = TerminalText
           /\ Returns(messageId')
  <2>1. /\ messageId' # 0 /\ phase' = "over" /\ outbound' = messageId'
        /\ shown'[outbound'] = TerminalText /\ UNCHANGED channelFaults
    BY <1>1, <1>2, <1>3 DEF Answered, Returns
  <2>2. channelFaults = 0 => shown' = <<TerminalText>> /\ messageId' = 1
    BY <1>1, <1>2, <1>3 DEF Answered, PhaseBooks, ShownBooks
  <2>3. ReplyTypeOK'
    BY <1>1, <1>2, <1>3, <2>1 DEF Answered, ReplyTypeOK
  <2>4. PhaseBooks'
    BY <1>1, <2>1 DEF PhaseBooks
  <2>5. ShownBooks' /\ FinalTextWins'
    BY <1>1, <1>3, <2>1, <2>2 DEF ShownBooks, FinalTextWins
  <2>. QED  BY <2>3, <2>4, <2>5
<1>4. CASE /\ Lost(Sent(TerminalText))
           /\ Returns(messageId)
           /\ UNCHANGED <<messageId, lastSent>>
  <2>1. /\ channelFaults' # 0 /\ channelFaults' \in 0..MaxChannelFaults
        /\ channelFaults' = channelFaults + 1 /\ channelFaults \in Nat
        /\ shown' \in Seq(Texts) /\ Len(shown') >= Len(shown) /\ Len(shown') \in Nat
    BY <1>1, <1>2, <1>4 DEF Lost, ReplyTypeOK
  <2>2. phase' = "over" => goal = 0 \/ failing \/ channelFaults # 0
    BY <1>1, <1>4 DEF Returns, PhaseBooks
  <2>3. /\ phase' \in {"dispatching", "over"} /\ outbound' = messageId
        /\ phase' = "dispatching" => messageId = 0 /\ goal # 0 /\ ~failing
    BY <1>4 DEF Returns
  <2>4. ReplyTypeOK'
    BY <1>1, <1>4, <2>1, <2>3 DEF ReplyTypeOK
  <2>5. PhaseBooks'
    BY <1>1, <1>4, <2>1, <2>3 DEF PhaseBooks
  <2>6. ShownBooks' /\ FinalTextWins'
    BY <1>1, <1>4, <2>1, <2>2, <2>3 DEF ShownBooks, FinalTextWins
  <2>. QED  BY <2>4, <2>5, <2>6
<1>. QED  BY <1>3, <1>4 DEF FinalSend

LEMMA FinalEditStep == ASSUME ReplyInv, FinalEdit PROVE ReplyInv'
<1>. USE ReplyAssumption DEF ReplyInv
<1>1. /\ phase = "editing" /\ messageId # 0
      /\ UNCHANGED <<goal, failing, buffer, messageId, streamFailed, finalized, flushTimer,
                     flights, calling>>
      /\ flights = <<>> /\ TerminalText # 0 /\ TerminalText \in Texts
      /\ goal # 0 => TerminalText = goal
      /\ TerminalText' = TerminalText
      /\ shown \in Seq(Texts) /\ Len(shown) \in Nat
  BY TerminalTextIsText, LenProperties DEF FinalEdit, PhaseBooks, TerminalText, ReplyTypeOK
<1>2. Edited(messageId, TerminalText) =>
        /\ shown' \in Seq(Texts) /\ Len(shown') = Len(shown)
        /\ shown'[messageId] = TerminalText
        /\ messageId = 1 /\ Len(shown) = 1 => shown' = <<TerminalText>>
  BY <1>1, EditedShows
<1>3. CASE /\ Answered(Edited(messageId, TerminalText))
           /\ lastSent' = TerminalText
           /\ Returns(messageId)
  <2>1. /\ phase' = "over" /\ outbound' = messageId /\ UNCHANGED channelFaults
        /\ shown'[outbound'] = TerminalText
    BY <1>1, <1>2, <1>3 DEF Answered, Returns
  <2>2. channelFaults = 0 => shown' = <<TerminalText>> /\ messageId = 1
    <3>1. channelFaults = 0 => messageId = 1 /\ Len(shown) = 1
      BY <1>1 DEF ShownBooks
    <3>. QED  BY <1>2, <1>3, <3>1 DEF Answered
  <2>3. ReplyTypeOK'
    BY <1>1, <1>2, <1>3, <2>1 DEF Answered, ReplyTypeOK
  <2>4. PhaseBooks'
    BY <1>1, <2>1 DEF PhaseBooks
  <2>5. ShownBooks' /\ FinalTextWins'
    BY <1>1, <1>3, <2>1, <2>2 DEF ShownBooks, FinalTextWins
  <2>. QED  BY <2>3, <2>4, <2>5
<1>4. CASE /\ Lost(Edited(messageId, TerminalText))
           /\ phase' = "resending"
           /\ UNCHANGED <<lastSent, outbound>>
  <2>1. /\ channelFaults' # 0 /\ channelFaults' \in 0..MaxChannelFaults
        /\ shown' \in Seq(Texts) /\ Len(shown') = Len(shown)
    BY <1>1, <1>2, <1>4 DEF Lost, ReplyTypeOK
  <2>2. ReplyTypeOK'
    BY <1>1, <1>4, <2>1 DEF ReplyTypeOK
  <2>3. PhaseBooks'
    BY <1>1, <1>4, <2>1 DEF PhaseBooks
  <2>4. ShownBooks' /\ FinalTextWins'
    BY <1>1, <1>4, <2>1 DEF ShownBooks, FinalTextWins
  <2>. QED  BY <2>2, <2>3, <2>4
<1>. QED  BY <1>3, <1>4 DEF FinalEdit

LEMMA DispatchStep == ASSUME ReplyInv, Dispatch PROVE ReplyInv'
<1>. USE ReplyAssumption DEF ReplyInv
<1>1. /\ phase = "dispatching" /\ messageId = 0 /\ goal # 0 /\ goal \in Texts
      /\ flights = <<>> /\ channelFaults # 0 /\ ~flushTimer /\ finalized
      /\ UNCHANGED <<buffer, lastSent, messageId, streamFailed, flights, calling>>
      /\ shown \in Seq(Texts) /\ Len(shown) \in Nat
  BY LenProperties DEF Dispatch, PhaseBooks, ReplyTypeOK
<1>2. Sent(goal) =>
        /\ shown' \in Seq(Texts) /\ Len(shown') = Len(shown) + 1
        /\ shown'[Len(shown')] = goal
  BY <1>1, SentShows
<1>3. CASE /\ Answered(Sent(goal))
           /\ outbound' = Len(shown') /\ phase' = "over"
           /\ UNCHANGED <<goal, failing, finalized, flushTimer>>
  <2>1. ReplyTypeOK'
    BY <1>1, <1>2, <1>3 DEF Answered, ReplyTypeOK
  <2>2. PhaseBooks'
    BY <1>1, <1>3 DEF PhaseBooks
  <2>3. ShownBooks' /\ FinalTextWins'
    BY <1>1, <1>2, <1>3 DEF Answered, ShownBooks, FinalTextWins
  <2>. QED  BY <2>1, <2>2, <2>3
<1>4. CASE Lost(Sent(goal)) /\ Finalize(Failure, TRUE) /\ UNCHANGED outbound
  <2>1. /\ channelFaults' # 0 /\ channelFaults' \in 0..MaxChannelFaults
        /\ shown' \in Seq(Texts) /\ Len(shown') >= Len(shown) /\ Len(shown') \in Nat
    BY <1>1, <1>2, <1>4 DEF Lost, ReplyTypeOK
  <2>2. ReplyTypeOK'
    <3>1. /\ goal' \in Texts /\ failing' \in BOOLEAN /\ phase' = "settling"
          /\ finalized' \in BOOLEAN /\ flushTimer' \in BOOLEAN
      BY <1>4, TextsAreNumbers DEF Finalize
    <3>. QED  BY <1>1, <1>4, <2>1, <3>1 DEF ReplyTypeOK
  <2>3. PhaseBooks'
    BY <1>1, <1>4, <2>1 DEF Finalize, PhaseBooks
  <2>4. ShownBooks' /\ FinalTextWins'
    BY <1>1, <1>4, <2>1 DEF Finalize, ShownBooks, FinalTextWins
  <2>. QED  BY <2>2, <2>3, <2>4
<1>. QED  BY <1>3, <1>4 DEF Dispatch

LEMMA ReplyInvNext == ReplyInv /\ [ReplyNext]_replyVars => ReplyInv'
<1>. SUFFICES ASSUME ReplyInv, [ReplyNext]_replyVars PROVE ReplyInv'
  OBVIOUS
<1>1. CASE UNCHANGED replyVars
  BY <1>1 DEF replyVars, bufferVars, ReplyInv, ReplyTypeOK, PhaseBooks, ShownBooks,
              FinalTextWins, TerminalText
<1>. QED
  BY <1>1, DeltaStep, FlushTimerStep, StartFlightStep, FlightReturnsStep, PromptEndsStep,
     SettleStep, FinalSendStep, FinalEditStep, DispatchStep
  DEF ReplyNext

LEMMA ReplyInvariant == ReplySpec => []ReplyInv
BY ReplyInvInit, ReplyInvNext, PTL DEF ReplySpec

\* The text the turn ends with is the one its reported message shows, unless the
\* channel failed twice, for any number of deltas and any interleaving of the
\* flushes with finalize (streaming buffer, prompt coordinator).
THEOREM RepliesEndWithTheirText == ReplySpec => []FinalTextWins
<1>1. ReplyInv => FinalTextWins
  BY DEF ReplyInv
<1>. QED  BY <1>1, ReplyInvariant, PTL

---------------------------------------------------------------------------
(* The session's model across turns.                                       *)

\* What the session wants without an override.
Base(s) == IF s.locked # NoModel THEN s.locked ELSE DefaultModel

\* No override, or one that says what the session wants anyway.
Plain(s) == s.override \in {NoModel, picked}

IsModelState(s) == {"locked", "override", "active"} \subseteq DOMAIN s

TurnTypes ==
  /\ picked \in Models /\ modelFaults \in Nat
  /\ turnAt \in [Turns -> TurnStages]

\* While nothing failed and no run superseded another, one turn is under way at
\* most; what is recorded for good is the pick, and an override that differs
\* from it is cleared by the turn, in the loop or with what it restores.
ModelBooks ==
  superseded = {} /\ modelFaults = 0 =>
    /\ IsModelState(model)
    /\ restoreTo \in [Turns -> {NoModel, picked}]
    /\ \A t, u \in UnderWay : t = u
    /\ Base(model) = picked
    /\ UnderWay = {} => Plain(model)
    /\ \A t \in Turns :
         /\ turnAt[t] \in {"idle", "routing", "over"} => restoreTo[t] = NoModel
         /\ turnAt[t] = "routing" => Plain(model)
         /\ turnAt[t] = "answered" => model.override = NoModel
         /\ turnAt[t] \in {"ready", "ended"} => Plain(model) \/ restoreTo[t] = picked

AttemptsInv == TurnTypes /\ ModelBooks

LEMMA AttemptsInvInit == AttemptsInit => AttemptsInv
<1>. SUFFICES ASSUME AttemptsInit PROVE AttemptsInv
  OBVIOUS
<1>1. /\ DOMAIN model = {"locked", "override", "active"}
      /\ model.locked = NoModel /\ model.override = NoModel
      /\ picked = DefaultModel /\ modelFaults = 0
      /\ turnAt = [t \in Turns |-> "idle"] /\ restoreTo = [t \in Turns |-> NoModel]
  BY DEF AttemptsInit
<1>2. TurnTypes
  BY <1>1, AttemptsAssumption DEF TurnTypes, TurnStages
<1>3. ModelBooks
  BY <1>1 DEF ModelBooks, IsModelState, UnderWay, Base, Plain
<1>. QED  BY <1>2, <1>3 DEF AttemptsInv

\* getAgent and setSessionModel keep the shape; an override getAgent records is
\* what the session wanted already.
LEMMA AgentKeepsWanted ==
  ASSUME IsModelState(model)
  PROVE  /\ GetAgent(model).locked = model.locked
         /\ GetAgent(model).override \in {model.override, Wanted(model)}
         /\ DOMAIN GetAgent(model) = DOMAIN model
<1>. DEFINE m == Wanted(model)
<1>. DEFINE r == [model EXCEPT !.override = m]
<1>1. /\ r.locked = model.locked /\ r.override = m /\ DOMAIN r = DOMAIN model
  BY DEF IsModelState
<1>2. Recorded(model, m, FALSE) = r
  BY DEF Recorded
<1>. DEFINE k == SetModel(model, m, FALSE)
<1>3. k.locked = model.locked /\ k.override = m /\ DOMAIN k = DOMAIN model
  BY <1>1, <1>2 DEF SetModel, IsModelState
<1>. HIDE DEF k, r
<1>. DEFINE g == IF model.active \in {NoModel, m} THEN model ELSE k
<1>4. g.locked = model.locked /\ g.override \in {model.override, m} /\ DOMAIN g = DOMAIN model
  BY <1>3
<1>5. GetAgent(model) = [g EXCEPT !.active = m]
  BY DEF GetAgent, k
<1>. HIDE DEF g
<1>. QED  BY <1>4, <1>5 DEF IsModelState

LEMMA SetModelRecords ==
  ASSUME NEW s, IsModelState(s), NEW m, NEW persist \in BOOLEAN
  PROVE  /\ DOMAIN SetModel(s, m, persist) = DOMAIN s
         /\ persist => /\ SetModel(s, m, persist).locked = m
                       /\ SetModel(s, m, persist).override = NoModel
         /\ ~persist => /\ SetModel(s, m, persist).locked = s.locked
                        /\ SetModel(s, m, persist).override = m
<1>. DEFINE r == Recorded(s, m, persist)
<1>1. /\ DOMAIN r = DOMAIN s
      /\ persist => r.locked = m /\ r.override = NoModel
      /\ ~persist => r.locked = s.locked /\ r.override = m
  BY DEF Recorded, IsModelState
<1>. HIDE DEF r
<1>2. SetModel(s, m, persist) =
        [r EXCEPT !.active = IF @ # NoModel /\ Compatible(s, m) THEN m ELSE NoModel]
  BY DEF SetModel, r
<1>. QED  BY <1>1, <1>2 DEF IsModelState

LEMMA ClearOverrideClears ==
  ASSUME NEW s, IsModelState(s)
  PROVE  /\ DOMAIN ClearOverride(s) = DOMAIN s
         /\ ClearOverride(s).locked = s.locked /\ ClearOverride(s).override = NoModel
BY DEF ClearOverride, IsModelState

\* A turn under way goes on: what it has to show is about itself only.
LEMMA TurnGoesOn ==
  ASSUME AttemptsInv, NEW t \in UnderWay \cap Turns, NEW at \in TurnStages \ {"idle", "routing", "over"},
         Goes(t, at), modelFaults' \in Nat, modelFaults' = 0 => modelFaults = 0,
         UNCHANGED <<picked, restoreTo, superseded>>,
         superseded = {} /\ modelFaults' = 0 =>
           /\ IsModelState(model') /\ model'.locked = model.locked
           /\ at = "answered" => model'.override = NoModel
           /\ at \in {"ready", "ended"} =>
                model'.override \in {NoModel, picked} \/ restoreTo[t] = picked
  PROVE  AttemptsInv'
<1>1. /\ turnAt \in [Turns -> TurnStages] /\ turnAt' = [turnAt EXCEPT ![t] = at]
      /\ turnAt[t] \notin {"idle", "over"}
  BY DEF AttemptsInv, TurnTypes, Goes, UnderWay
<1>2. TurnTypes'
  BY <1>1 DEF AttemptsInv, TurnTypes
<1>3. UnderWay' = UnderWay
  BY <1>1 DEF UnderWay
<1>4. ASSUME superseded' = {}, modelFaults' = 0 PROVE ModelBooks'
  <2>1. /\ \A u, v \in UnderWay : u = v
        /\ Base(model) = picked
        /\ restoreTo \in [Turns -> {NoModel, picked}]
        /\ \A u \in Turns : turnAt[u] \in {"idle", "over"} => restoreTo[u] = NoModel
    BY <1>4 DEF AttemptsInv, ModelBooks
  <2>2. Base(model') = picked
    BY <1>4, <2>1 DEF Base
  <2>3. \A u \in Turns \ {t} : turnAt'[u] \in {"idle", "over"} /\ restoreTo'[u] = NoModel
    BY <1>1, <2>1 DEF UnderWay
  <2>. QED  BY <1>1, <1>3, <1>4, <2>1, <2>2, <2>3 DEF ModelBooks, Plain
<1>. QED  BY <1>2, <1>4 DEF AttemptsInv, ModelBooks

LEMMA BeginStep == ASSUME AttemptsInv, NEW t \in Turns, Begin(t) PROVE AttemptsInv'
<1>1. /\ turnAt \in [Turns -> TurnStages] /\ turnAt' = [turnAt EXCEPT ![t] = "routing"]
      /\ turnAt[t] = "idle" /\ UNCHANGED <<picked, restoreTo, modelFaults>>
      /\ superseded' = superseded \cup UnderWay
  BY DEF Begin, AttemptsInv, TurnTypes, Goes
<1>2. TurnTypes'
  BY <1>1 DEF AttemptsInv, TurnTypes, TurnStages
<1>3. ASSUME superseded' = {}, modelFaults' = 0 PROVE ModelBooks'
  <2>1. superseded = {} /\ modelFaults = 0 /\ UnderWay = {}
    BY <1>1, <1>3
  <2>2. /\ IsModelState(model) /\ Base(model) = picked /\ Plain(model)
        /\ restoreTo \in [Turns -> {NoModel, picked}]
        /\ \A u \in Turns : turnAt[u] \in {"idle", "over"} => restoreTo[u] = NoModel
    BY <2>1 DEF AttemptsInv, ModelBooks
  <2>3. /\ IsModelState(model') /\ model'.locked = model.locked
        /\ model'.override \in {NoModel, model.override}
    BY <2>2 DEF Begin, IsModelState
  <2>4. Base(model') = picked /\ Plain(model)'
    BY <1>1, <2>2, <2>3 DEF Base, Plain
  <2>5. UnderWay' = {t}
    BY <1>1, <2>1 DEF UnderWay
  <2>6. /\ \A u \in Turns \ {t} : turnAt'[u] \in {"idle", "over"} /\ restoreTo'[u] = NoModel
        /\ restoreTo'[t] = NoModel
    BY <1>1, <2>1, <2>2 DEF UnderWay
  <2>. QED  BY <1>1, <2>2, <2>3, <2>4, <2>5, <2>6 DEF ModelBooks
<1>. QED  BY <1>2, <1>3 DEF AttemptsInv, ModelBooks

LEMMA RouteStep == ASSUME AttemptsInv, NEW t \in Turns, Route(t) PROVE AttemptsInv'
<1>1. /\ turnAt \in [Turns -> TurnStages] /\ turnAt' = [turnAt EXCEPT ![t] = "ready"]
      /\ turnAt[t] = "routing" /\ UNCHANGED <<picked, superseded, modelFaults>>
  BY DEF Route, AttemptsInv, TurnTypes, Goes, signalVars
<1>2. Wanted(model) \in Models \cup {NoModel} \/ ~(superseded = {} /\ modelFaults = 0)
  BY AttemptsAssumption, <1>1 DEF AttemptsInv, ModelBooks, Base, Plain, Wanted, TurnTypes
<1>3. UnderWay' = UnderWay /\ t \in UnderWay
  BY <1>1 DEF UnderWay
<1>4. ASSUME superseded = {}, modelFaults = 0 PROVE AttemptsInv'
  <2>1. /\ IsModelState(model) /\ Base(model) = picked /\ Plain(model)
        /\ restoreTo \in [Turns -> {NoModel, picked}]
        /\ \A u, v \in UnderWay : u = v
        /\ \A u \in Turns : turnAt[u] \in {"idle", "over"} => restoreTo[u] = NoModel
    BY <1>1, <1>4 DEF AttemptsInv, ModelBooks
  <2>2. Wanted(model) = picked
    BY <2>1, AttemptsAssumption DEF Wanted, Base, Plain, AttemptsInv, TurnTypes
  <2>3. \A u \in Turns \ {t} : turnAt'[u] \in {"idle", "over"} /\ restoreTo'[u] = NoModel
    BY <1>1, <1>3, <2>1 DEF UnderWay, Route
  <2>4. /\ IsModelState(model') /\ model'.locked = model.locked
        /\ restoreTo' \in [Turns -> {NoModel, picked}]
        /\ model'.override \in {NoModel, picked} \/ restoreTo'[t] = picked
    <3>1. CASE t \notin MediaTurns /\ UNCHANGED <<model, restoreTo>>
      BY <2>1, <3>1 DEF Plain, AttemptsInv, TurnTypes
    <3>2. CASE /\ model' = SetModel(GetAgent(model), MediaModel, FALSE)
               /\ restoreTo' = [restoreTo EXCEPT
                    ![t] = IF Wanted(model) = MediaModel THEN NoModel ELSE Wanted(model)]
      <4>. DEFINE g == GetAgent(model)
      <4>1. IsModelState(g) /\ g.locked = model.locked
        BY <2>1, AgentKeepsWanted DEF IsModelState
      <4>. HIDE DEF g
      <4>2. IsModelState(model') /\ model'.locked = model.locked /\ model'.override = MediaModel
        BY <3>2, <4>1, SetModelRecords DEF IsModelState, g
      <4>. QED  BY <2>1, <2>2, <3>2, <4>2 DEF AttemptsInv, TurnTypes
    <3>. QED  BY <3>1, <3>2 DEF Route
  <2>5. TurnTypes'
    BY <1>1, <2>4 DEF AttemptsInv, TurnTypes, TurnStages
  <2>6. Base(model') = picked
    BY <2>1, <2>4 DEF Base
  <2>. QED  BY <1>1, <1>3, <2>1, <2>3, <2>4, <2>5, <2>6 DEF AttemptsInv, ModelBooks, Plain
<1>5. ASSUME ~(superseded = {} /\ modelFaults = 0) PROVE AttemptsInv'
  BY <1>1, <1>5 DEF AttemptsInv, TurnTypes, TurnStages, ModelBooks
<1>. QED  BY <1>4, <1>5

\* A step with a fault, or of a turn that failed, has nothing to show.
LEMMA FaultShowsNothing ==
  ASSUME TurnTypes, NEW states, FaultOf(states)
  PROVE  modelFaults' \in Nat /\ modelFaults' # 0
BY DEF FaultOf, TurnTypes

LEMMA TurnFailsStep ==
  ASSUME AttemptsInv, NEW t \in Turns, RouteFails(t) \/ NoAgent(t) \/ FallBackFails(t)
  PROVE  AttemptsInv'
<1>1. modelFaults' \in Nat /\ modelFaults' # 0
  BY FaultShowsNothing DEF AttemptsInv, RouteFails, NoAgent, FallBackFails
<1>2. /\ turnAt \in [Turns -> TurnStages] /\ Goes(t, "ended") /\ picked' = picked
      /\ picked \in Models
  BY DEF AttemptsInv, TurnTypes, RouteFails, NoAgent, FallBackFails
<1>. QED  BY <1>1, <1>2 DEF Goes, AttemptsInv, TurnTypes, TurnStages, ModelBooks

LEMMA PrepareStep == ASSUME AttemptsInv, NEW t \in Turns, Prepare(t) PROVE AttemptsInv'
<1>1. /\ t \in UnderWay \cap Turns
      /\ UNCHANGED <<model, picked, restoreTo, superseded, modelFaults>>
      /\ modelFaults' \in Nat /\ (modelFaults' = 0 => modelFaults = 0)
  BY DEF Prepare, UnderWay, AttemptsInv, TurnTypes, signalVars
<1>2. superseded = {} /\ modelFaults' = 0 =>
        /\ IsModelState(model') /\ model'.locked = model.locked
        /\ model'.override \in {NoModel, picked} \/ restoreTo[t] = picked
  BY <1>1 DEF Prepare, AttemptsInv, ModelBooks, Plain
<1>3. "trying" \in TurnStages \ {"idle", "routing", "over"}
      /\ "ended" \in TurnStages \ {"idle", "routing", "over"}
  BY DEF TurnStages
<1>4. CASE Goes(t, "trying")
  BY <1>1, <1>2, <1>3, <1>4, TurnGoesOn
<1>5. CASE Goes(t, "ended")
  BY <1>1, <1>2, <1>3, <1>5, TurnGoesOn
<1>. QED  BY <1>4, <1>5 DEF Prepare

LEMMA AttemptStep == ASSUME AttemptsInv, NEW t \in Turns, Attempt(t) PROVE AttemptsInv'
<1>1. /\ t \in UnderWay \cap Turns /\ Goes(t, "prompting") /\ model' = GetAgent(model)
      /\ UNCHANGED <<picked, restoreTo, superseded, modelFaults>> /\ modelFaults \in Nat
  BY DEF Attempt, UnderWay, AttemptsInv, TurnTypes
<1>2. superseded = {} /\ modelFaults = 0 => IsModelState(model') /\ model'.locked = model.locked
  BY <1>1, AgentKeepsWanted DEF AttemptsInv, ModelBooks, IsModelState
<1>3. "prompting" \in TurnStages \ {"idle", "routing", "over"}
  BY DEF TurnStages
<1>. QED  BY <1>1, <1>2, <1>3, TurnGoesOn

\* Every end of the loop clears the override.
LEMMA PromptStep ==
  ASSUME AttemptsInv, NEW t \in Turns,
         PromptReturns(t) \/ GiveUp(t) \/ Compacted(t) \/ CompactionFails(t) \/ FallBack(t)
  PROVE  AttemptsInv'
<1>1. /\ t \in UnderWay \cap Turns /\ modelFaults \in Nat
      /\ UNCHANGED <<picked, restoreTo, superseded, modelFaults>>
  BY DEF PromptReturns, GiveUp, Compacted, CompactionFails, FallBack, UnderWay,
         AttemptsInv, TurnTypes
<1>2. {"trying", "answered", "ended"} \subseteq TurnStages \ {"idle", "routing", "over"}
  BY DEF TurnStages
<1>. DEFINE Regular == superseded = {} /\ modelFaults = 0
<1>3. Regular => IsModelState(model)
  BY DEF AttemptsInv, ModelBooks
<1>4. ASSUME NEW at \in {"answered", "ended"}, Goes(t, at),
             model' = ClearOverride(model) \/ model' = ClearOverride(GetAgent(model))
      PROVE  AttemptsInv'
  <2>1. Regular => IsModelState(model') /\ model'.locked = model.locked /\ model'.override = NoModel
    <3>. SUFFICES ASSUME Regular
                  PROVE  IsModelState(model') /\ model'.locked = model.locked /\ model'.override = NoModel
      OBVIOUS
    <3>. DEFINE g == GetAgent(model)
    <3>1. IsModelState(g) /\ g.locked = model.locked
      BY <1>3, AgentKeepsWanted DEF IsModelState
    <3>. HIDE DEF g
    <3>2. model' = ClearOverride(model) \/ model' = ClearOverride(g)
      BY <1>4 DEF g
    <3>3. CASE model' = ClearOverride(model)
      BY <1>3, <3>3, ClearOverrideClears DEF IsModelState
    <3>4. CASE model' = ClearOverride(g)
      BY <3>1, <3>4, ClearOverrideClears DEF IsModelState
    <3>. QED  BY <3>2, <3>3, <3>4
  <2>. QED  BY <1>1, <1>2, <1>4, <2>1, TurnGoesOn
<1>5. ASSUME Goes(t, "trying"),
             model' = GetAgent(model) \/ \E m : model' = SetModel(model, m, FALSE)
      PROVE  AttemptsInv'
  <2>1. Regular => IsModelState(model') /\ model'.locked = model.locked
    <3>1. CASE model' = GetAgent(model)
      BY <1>3, <3>1, AgentKeepsWanted DEF IsModelState
    <3>2. ASSUME NEW m, model' = SetModel(model, m, FALSE)
          PROVE  Regular => IsModelState(model') /\ model'.locked = model.locked
      BY <1>3, <3>2, SetModelRecords DEF IsModelState
    <3>. QED  BY <1>5, <3>1, <3>2
  <2>. QED  BY <1>1, <1>2, <1>5, <2>1, TurnGoesOn
<1>6. CASE PromptReturns(t) \/ GiveUp(t) \/ CompactionFails(t)
  BY <1>4, <1>6 DEF PromptReturns, GiveUp, CompactionFails
<1>7. CASE Compacted(t)
  BY <1>5, <1>7 DEF Compacted
<1>8. CASE FallBack(t)
  BY <1>4, <1>5, <1>8 DEF FallBack
<1>. QED  BY <1>6, <1>7, <1>8

LEMMA SummariseStep == ASSUME AttemptsInv, NEW t \in Turns, Summarise(t) PROVE AttemptsInv'
<1>1. /\ t \in UnderWay \cap Turns /\ Goes(t, "ended") /\ turnAt[t] = "answered"
      /\ UNCHANGED <<picked, restoreTo, superseded>>
      /\ "ended" \in TurnStages \ {"idle", "routing", "over"}
  BY DEF Summarise, UnderWay, AttemptsInv, TurnTypes, TurnStages, signalVars
<1>2. modelFaults' \in Nat /\ (modelFaults' = 0 => modelFaults = 0)
  BY FaultShowsNothing DEF Summarise, AttemptsInv, TurnTypes
<1>3. superseded = {} /\ modelFaults' = 0 =>
        /\ IsModelState(model') /\ model'.locked = model.locked
        /\ model'.override \in {NoModel, picked}
  <2>. SUFFICES ASSUME superseded = {}, modelFaults' = 0
                PROVE  /\ IsModelState(model') /\ model'.locked = model.locked
                       /\ model'.override \in {NoModel, picked}
    OBVIOUS
  <2>1. model' = GetAgent(model)
    BY FaultShowsNothing DEF Summarise, AttemptsInv
  <2>2. IsModelState(model) /\ model.override = NoModel /\ Base(model) = picked
    BY <1>1, <1>2 DEF AttemptsInv, ModelBooks
  <2>3. Wanted(model) = picked
    BY <2>2 DEF Wanted, Base
  <2>. QED  BY <2>1, <2>2, <2>3, AgentKeepsWanted DEF IsModelState
<1>. QED  BY <1>1, <1>2, <1>3, TurnGoesOn

LEMMA CleanupStep == ASSUME AttemptsInv, NEW t \in Turns, Cleanup(t) PROVE AttemptsInv'
<1>1. /\ turnAt \in [Turns -> TurnStages] /\ turnAt' = [turnAt EXCEPT ![t] = "over"]
      /\ turnAt[t] = "ended" /\ UNCHANGED <<picked, superseded>>
      /\ restoreTo' = [restoreTo EXCEPT ![t] = NoModel]
  BY DEF Cleanup, AttemptsInv, TurnTypes, Goes, signalVars
<1>2. modelFaults' \in Nat /\ (modelFaults' = 0 => modelFaults = 0)
  BY FaultShowsNothing DEF Cleanup, AttemptsInv, TurnTypes
<1>3. TurnTypes'
  BY <1>1, <1>2 DEF AttemptsInv, TurnTypes, TurnStages
<1>4. ASSUME superseded' = {}, modelFaults' = 0 PROVE ModelBooks'
  <2>1. /\ IsModelState(model) /\ Base(model) = picked
        /\ Plain(model) \/ restoreTo[t] = picked
        /\ restoreTo \in [Turns -> {NoModel, picked}]
        /\ \A u, v \in UnderWay : u = v
        /\ \A u \in Turns : turnAt[u] \in {"idle", "over"} => restoreTo[u] = NoModel
    BY <1>1, <1>2, <1>4 DEF AttemptsInv, ModelBooks
  <2>2. UnderWay' = {} /\ \A u \in Turns : turnAt'[u] \in {"idle", "over"} /\ restoreTo'[u] = NoModel
    BY <1>1, <2>1 DEF UnderWay
  <2>3. IsModelState(model') /\ Base(model') = picked /\ model'.override \in {NoModel, picked}
    <3>1. CASE restoreTo[t] = NoModel
      <4>1. UNCHANGED model /\ picked # NoModel
        BY <3>1, AttemptsAssumption DEF Cleanup, AttemptsInv, TurnTypes
      <4>. QED  BY <2>1, <3>1, <4>1 DEF Plain
    <3>2. CASE restoreTo[t] # NoModel
      <4>1. restoreTo[t] = picked /\ model' = SetModel(model, picked, TRUE)
        BY <1>4, <2>1, <3>2, FaultShowsNothing DEF Cleanup, AttemptsInv
      <4>2. IsModelState(model') /\ model'.locked = picked /\ model'.override = NoModel
        <5>1. IsModelState(model) /\ TRUE \in BOOLEAN
          BY <2>1
        <5>2. /\ DOMAIN SetModel(model, picked, TRUE) = DOMAIN model
              /\ SetModel(model, picked, TRUE).locked = picked
              /\ SetModel(model, picked, TRUE).override = NoModel
          BY <5>1, SetModelRecords, ZenonT(30)
        <5>. QED  BY <4>1, <5>1, <5>2, Zenon DEF IsModelState
      <4>. QED  BY <3>2, <4>1, <4>2 DEF Base
    <3>. QED  BY <3>1, <3>2
  <2>4. restoreTo' \in [Turns -> {NoModel, picked}]
    BY <1>1, <2>1
  <2>. QED  BY <1>1, <2>2, <2>3, <2>4 DEF ModelBooks, Plain
<1>. QED  BY <1>3, <1>4 DEF AttemptsInv, ModelBooks

LEMMA PickStep == ASSUME AttemptsInv, NEW m \in Models, Pick(m) PROVE AttemptsInv'
<1>1. /\ UnderWay = {} /\ picked' = m /\ m # NoModel
      /\ UNCHANGED <<turnAt, restoreTo, superseded>>
  BY AttemptsAssumption DEF Pick, turnVars, signalVars
<1>2. modelFaults' \in Nat /\ (modelFaults' = 0 => modelFaults = 0)
  BY FaultShowsNothing DEF Pick, AttemptsInv, TurnTypes
<1>3. TurnTypes'
  BY <1>1, <1>2 DEF AttemptsInv, TurnTypes
<1>4. ASSUME superseded' = {}, modelFaults' = 0 PROVE ModelBooks'
  <2>1. IsModelState(model) /\ model' = SetModel(model, m, TRUE)
    BY <1>1, <1>2, <1>4, FaultShowsNothing DEF Pick, AttemptsInv, ModelBooks
  <2>2. IsModelState(model') /\ model'.locked = m /\ model'.override = NoModel
    BY <2>1, SetModelRecords DEF IsModelState
  <2>3. \A t \in Turns : turnAt[t] \in {"idle", "over"} /\ restoreTo[t] = NoModel
    BY <1>1, <1>2, <1>4 DEF UnderWay, AttemptsInv, ModelBooks
  <2>4. restoreTo' \in [Turns -> {NoModel, picked'}] /\ UnderWay' = {}
    BY <1>1, <1>2, <1>4, <2>3 DEF AttemptsInv, ModelBooks, UnderWay
  <2>5. Base(model') = picked' /\ Plain(model)'
    BY <1>1, <2>2 DEF Base, Plain
  <2>. QED  BY <1>1, <2>2, <2>3, <2>4, <2>5 DEF ModelBooks
<1>. QED  BY <1>3, <1>4 DEF AttemptsInv, ModelBooks

LEMMA AttemptsInvNext == AttemptsInv /\ [AttemptsNext]_attemptVars => AttemptsInv'
<1>. SUFFICES ASSUME AttemptsInv, [AttemptsNext]_attemptVars PROVE AttemptsInv'
  OBVIOUS
<1>1. CASE Abort \/ UNCHANGED attemptVars
  <2>1. UNCHANGED <<model, picked, turnAt, restoreTo, superseded, modelFaults>>
    BY <1>1 DEF Abort, attemptVars, turnVars, signalVars
  <2>. QED  BY <2>1 DEF AttemptsInv, TurnTypes, ModelBooks, UnderWay, Plain
<1>. QED
  BY <1>1, BeginStep, RouteStep, TurnFailsStep, PrepareStep, AttemptStep, PromptStep,
     SummariseStep, CleanupStep, PickStep
  DEF AttemptsNext

\* Between turns the session answers with the model that was asked for, for any
\* number of turns and any models, fallbacks and routes (prompt runner,
\* capability check, cleanup flow).
THEOREM ModelsComeBack == AttemptsSpec => []ModelsRestored
<1>1. AttemptsInv => ModelsRestored
  BY AttemptsAssumption DEF AttemptsInv, TurnTypes, ModelBooks, ModelsRestored, Base, Plain, Wanted
<1>. QED  BY <1>1, AttemptsInvInit, AttemptsInvNext, PTL DEF AttemptsSpec
=============================================================================
