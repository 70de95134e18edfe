--------------------------- MODULE ExtensionRelay ---------------------------
(***************************************************************************)
(* The relay between CDP clients and the browser extension: one web socket *)
(* of the extension at a time, the commands that wait for its answer, the  *)
(* targets it reported, and the clients, which are told of targets as they *)
(* come and go.                                                            *)
(*                                                                         *)
(* A socket leaves the state OPEN some time before its close event.  When  *)
(* the extension comes back in between, the new socket replaces the old    *)
(* one, whose close event then finds that it is not the extension's.       *)
(***************************************************************************)
EXTENDS Naturals

CONSTANTS
  Sockets,    \* connections of the extension
  Clients,    \* connections to /cdp
  Commands,   \* commands that are forwarded
  Targets,    \* CDP sessions
  NoSocket

ASSUME RelayAssumption == NoSocket \notin Sockets

VARIABLES
  socket,           \* readyState of a connection
  extensionWs,
  replaced,         \* sockets another one replaced
  client,           \* readyState of a client
  cdpClients,
  command,          \* what became of a command
  via,              \* the socket it was sent on
  connectedTargets, \* the socket that reported a target, NoSocket without one
  attached,         \* clients that asked for setAutoAttach
  seen              \* the targets a client was told of

relayVars == <<socket, extensionWs, replaced, client, cdpClients, command, via,
               connectedTargets, attached, seen>>
socketVars == <<socket, extensionWs, replaced>>
clientVars == <<client, cdpClients, attached, seen>>
commandVars == <<command, via>>

ReadyState == {"new", "open", "closing", "closed"}
CommandState == {"new", "pending", "resolved", "rejected", "timedout"}

RelayInit ==
  /\ socket = [c \in Sockets |-> "new"] /\ extensionWs = NoSocket /\ replaced = {}
  /\ client = [w \in Clients |-> "new"] /\ cdpClients = {}
  /\ command = [q \in Commands |-> "new"] /\ via = [q \in Commands |-> NoSocket]
  /\ connectedTargets = [t \in Targets |-> NoSocket]
  /\ attached = {} /\ seen = [w \in Clients |-> {}]

ExtensionConnected == extensionWs # NoSocket /\ socket[extensionWs] = "open"
Connected == {t \in Targets : connectedTargets[t] # NoSocket}
Listeners == {w \in cdpClients : client[w] = "open"}

---------------------------------------------------------------------------
(* Sockets of the extension.                                               *)

\* The upgrade of /extension, with its connection event: refused while the
\* extension is connected; a socket that is not open any more is terminated.
ExtensionConnects(c) ==
  /\ socket[c] = "new" /\ ~ExtensionConnected
  /\ replaced' = replaced \cup ({extensionWs} \ {NoSocket})
  /\ \/ /\ socket' = [socket EXCEPT ![c] = "open"]
        /\ extensionWs' = c
     \/ \* the handshake fails
        /\ socket' = [socket EXCEPT ![c] = "closed"]
        /\ extensionWs' = NoSocket
  /\ UNCHANGED <<clientVars, commandVars, connectedTargets>>

\* A side closes the socket, or it breaks.
SocketCloses(c) ==
  /\ socket[c] = "open" /\ socket' = [socket EXCEPT ![c] = "closing"]
  /\ UNCHANGED <<extensionWs, replaced, clientVars, commandVars, connectedTargets>>

\* Variant: the targets are kept for when the extension comes back.
CloseEventKeeps(c) ==
  /\ socket[c] = "closing" /\ socket' = [socket EXCEPT ![c] = "closed"]
  /\ IF extensionWs = c
     THEN /\ extensionWs' = NoSocket
          /\ command' = [q \in Commands |->
                           IF command[q] = "pending" THEN "rejected" ELSE command[q]]
          /\ client' = [w \in Clients |-> IF w \in cdpClients /\ client[w] = "open"
                                          THEN "closing" ELSE client[w]]
          /\ cdpClients' = {}
     ELSE UNCHANGED <<extensionWs, command, client, cdpClients>>
  /\ UNCHANGED <<replaced, via, connectedTargets, attached, seen>>

\* The close event: that of the extension's socket rejects what is pending,
\* forgets the targets and closes the clients.
CloseEvent(c) ==
  /\ socket[c] = "closing" /\ socket' = [socket EXCEPT ![c] = "closed"]
  /\ IF extensionWs = c
     THEN /\ extensionWs' = NoSocket
          /\ command' = [q \in Commands |->
                           IF command[q] = "pending" THEN "rejected" ELSE command[q]]
          /\ connectedTargets' = [t \in Targets |-> NoSocket]
          /\ client' = [w \in Clients |-> IF w \in cdpClients /\ client[w] = "open"
                                          THEN "closing" ELSE client[w]]
          /\ cdpClients' = {}
     ELSE UNCHANGED <<extensionWs, command, connectedTargets, client, cdpClients>>
  /\ UNCHANGED <<replaced, via, attached, seen>>

---------------------------------------------------------------------------
(* Clients and their commands.                                             *)

ClientConnects(w) ==
  /\ client[w] = "new" /\ ExtensionConnected
  /\ client' = [client EXCEPT ![w] = "open"] /\ cdpClients' = cdpClients \cup {w}
  /\ UNCHANGED <<socketVars, commandVars, connectedTargets, attached, seen>>

ClientCloses(w) ==
  /\ client[w] \in {"open", "closing"}
  /\ client' = [client EXCEPT ![w] = "closed"] /\ cdpClients' = cdpClients \ {w}
  /\ UNCHANGED <<socketVars, commandVars, connectedTargets, attached, seen>>

\* Target.setAutoAttach: the client is told of the targets there are.
AutoAttach(w) ==
  /\ client[w] = "open" /\ ExtensionConnected
  /\ attached' = attached \cup {w}
  /\ seen' = [seen EXCEPT ![w] = @ \cup Connected]
  /\ UNCHANGED <<socketVars, client, cdpClients, commandVars, connectedTargets>>

\* sendToExtension, for a client or for a request of /json.
Forward(q) ==
  /\ command[q] = "new"
  /\ IF ExtensionConnected
     THEN /\ command' = [command EXCEPT ![q] = "pending"]
          /\ via' = [via EXCEPT ![q] = extensionWs]
     ELSE command' = [command EXCEPT ![q] = "rejected"] /\ UNCHANGED via
  /\ UNCHANGED <<socketVars, clientVars, connectedTargets>>

CommandTimesOut(q) ==
  /\ command[q] = "pending" /\ command' = [command EXCEPT ![q] = "timedout"]
  /\ UNCHANGED <<socketVars, clientVars, via, connectedTargets>>

---------------------------------------------------------------------------
(* Messages of the extension; only those of extensionWs are looked at.     *)

Speaks(c) == c = extensionWs /\ socket[c] \in {"open", "closing"}

\* The answer to a command, which is not looked up by its socket; an extension
\* answers what it was sent.
Answer(q) ==
  /\ command[q] = "pending" /\ Speaks(via[q])
  /\ \E a \in {"resolved", "rejected"} : command' = [command EXCEPT ![q] = a]
  /\ UNCHANGED <<socketVars, clientVars, via, connectedTargets>>

\* Target.attachedToTarget: a session that is new, or has another target now
\* and is taken back first, is told to the clients.
TargetAttached(t) ==
  /\ \E c \in Sockets : Speaks(c) /\ connectedTargets' = [connectedTargets EXCEPT ![t] = c]
  /\ \E changed \in BOOLEAN :
       seen' = [w \in Clients |-> IF w \in Listeners /\ (t \notin Connected \/ changed)
                                  THEN seen[w] \cup {t} ELSE seen[w]]
  /\ UNCHANGED <<socketVars, client, cdpClients, attached, commandVars>>

\* Target.detachedFromTarget.
TargetDetached(t) ==
  /\ \E c \in Sockets : Speaks(c)
  /\ connectedTargets' = [connectedTargets EXCEPT ![t] = NoSocket]
  /\ seen' = [w \in Clients |-> IF w \in Listeners THEN seen[w] \ {t} ELSE seen[w]]
  /\ UNCHANGED <<socketVars, client, cdpClients, attached, commandVars>>

---------------------------------------------------------------------------
RelayNext ==
  \/ \E c \in Sockets : ExtensionConnects(c) \/ SocketCloses(c) \/ CloseEvent(c)
  \/ \E w \in Clients : ClientConnects(w) \/ ClientCloses(w) \/ AutoAttach(w)
  \/ \E q \in Commands : Forward(q) \/ CommandTimesOut(q) \/ Answer(q)
  \/ \E t \in Targets : TargetAttached(t) \/ TargetDetached(t)

RelaySpec == RelayInit /\ [][RelayNext]_relayVars

---------------------------------------------------------------------------
(* Properties.                                                             *)

RelayTypeOK ==
  /\ socket \in [Sockets -> ReadyState] /\ extensionWs \in Sockets \cup {NoSocket}
  /\ replaced \subseteq Sockets
  /\ client \in [Clients -> ReadyState] /\ cdpClients \subseteq Clients
  /\ command \in [Commands -> CommandState] /\ via \in [Commands -> Sockets \cup {NoSocket}]
  /\ connectedTargets \in [Targets -> Sockets \cup {NoSocket}]
  /\ attached \subseteq Clients /\ seen \in [Clients -> SUBSET Targets]

\* Across disconnections and reconnections: only one socket of the extension is
\* open; a client that attached has been told of exactly the targets the relay
\* has; and what waits, or is listed, belongs to the extension's socket, unless
\* its own socket was replaced before its close event.
RelayConsistent ==
  /\ \A c \in Sockets : socket[c] = "open" => c = extensionWs
  /\ \A w \in attached \cap Listeners : seen[w] = Connected
  /\ \A q \in Commands : command[q] = "pending" => via[q] \in {extensionWs} \cup replaced
  /\ \A t \in Connected : connectedTargets[t] \in {extensionWs} \cup replaced
=============================================================================
