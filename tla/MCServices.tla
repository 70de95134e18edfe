----------------------------- MODULE MCServices -----------------------------
(***************************************************************************)
(* The services around the kernel and the inside of a turn, each part on   *)
(* its own: a behaviour is one of a single part, which the initial state   *)
(* picks; the other parts stay as they are initially, where none of their  *)
(* fair actions is enabled.                                                *)
(*                                                                         *)
(* Reminders: two ids, two edits, a death of the process. Cron: a job, a   *)
(* copy an update makes, one that fires once, one without a next run, all  *)
(* of one id. Heartbeats: two events of two contexts for a queue of one,   *)
(* one retry, one obstacle at a time. ACP: a turn, an ensureSession and a  *)
(* close of one session. Relay: two connections of the extension, a        *)
(* client, a command. Prompts: a turn with media and one without, a        *)
(* fallback model that needs the other kind of tools, a model the media    *)
(* are routed to, a /switch. Replies: three deltas, two failing calls.     *)
(* Memory: two files, three writes. Transcripts: six messages, two calls.  *)
(* Bridge: two prompts of a session and one of another for a store of      *)
(* one, a cancel.                                                          *)
(***************************************************************************)
EXTENDS Reminders, CronTimers, Heartbeats, AcpSessions,
        ExtensionRelay, PromptAttempts, StreamingReply, MemoryIndex,
        Transcripts, AcpBridge, TLC

CONSTANTS i1, e2, e3, k1, f1, g1, g2, g3, b4, b5

MCCronIdOf  == [o \in CronJobs |-> i1]
MCContextOf == e2 :> 2 @@ e3 :> 3
MCKeyOf     == [o \in AcpOps |-> k1]
MCFallbacks == <<f1>>
MCBridgeSessionOf == g1 :> b4 @@ g2 :> b4 @@ g3 :> b5

VARIABLE part

parts == <<reminderVars, cronVars, beatVars, acpVars, relayVars, attemptVars,
           replyVars, indexVars, transcriptVars, bridgeVars>>

mcVars == <<part, parts>>

MCInit ==
  /\ part \in {"reminders", "cron", "beats", "acp", "relay", "prompts",
               "reply", "index", "transcripts", "bridge"}
  /\ RemindersInit /\ CronInit /\ HeartbeatInit /\ AcpInit
  /\ RelayInit /\ AttemptsInit /\ ReplyInit /\ IndexInit
  /\ TranscriptsInit /\ BridgeInit

MCNext ==
  /\ UNCHANGED part
  /\ \/ /\ part = "reminders" /\ RemindersNext
        /\ UNCHANGED <<cronVars, beatVars, acpVars, relayVars, attemptVars,
                       replyVars, indexVars, transcriptVars, bridgeVars>>
     \/ /\ part = "cron" /\ CronNext
        /\ UNCHANGED <<reminderVars, beatVars, acpVars, relayVars, attemptVars,
                       replyVars, indexVars, transcriptVars, bridgeVars>>
     \/ /\ part = "beats" /\ HeartbeatNext
        /\ UNCHANGED <<reminderVars, cronVars, acpVars, relayVars, attemptVars,
                       replyVars, indexVars, transcriptVars, bridgeVars>>
     \/ /\ part = "acp" /\ AcpNext
        /\ UNCHANGED <<reminderVars, cronVars, beatVars, relayVars,
                       attemptVars, replyVars, indexVars, transcriptVars,
                       bridgeVars>>
     \/ /\ part = "relay" /\ RelayNext
        /\ UNCHANGED <<reminderVars, cronVars, beatVars, acpVars, attemptVars,
                       replyVars, indexVars, transcriptVars, bridgeVars>>
     \/ /\ part = "prompts" /\ AttemptsNext
        /\ UNCHANGED <<reminderVars, cronVars, beatVars, acpVars, relayVars,
                       replyVars, indexVars, transcriptVars, bridgeVars>>
     \/ /\ part = "reply" /\ ReplyNext
        /\ UNCHANGED <<reminderVars, cronVars, beatVars, acpVars, relayVars,
                       attemptVars, indexVars, transcriptVars, bridgeVars>>
     \/ /\ part = "index" /\ IndexNext
        /\ UNCHANGED <<reminderVars, cronVars, beatVars, acpVars, relayVars,
                       attemptVars, replyVars, transcriptVars, bridgeVars>>
     \/ /\ part = "transcripts" /\ TranscriptsNext
        /\ UNCHANGED <<reminderVars, cronVars, beatVars, acpVars, relayVars,
                       attemptVars, replyVars, indexVars, bridgeVars>>
     \/ /\ part = "bridge" /\ BridgeNext
        /\ UNCHANGED <<reminderVars, cronVars, beatVars, acpVars, relayVars,
                       attemptVars, replyVars, indexVars, transcriptVars>>

MCSpec ==
  /\ MCInit /\ [][MCNext]_mcVars
  /\ RemindersFairness /\ HeartbeatFairness /\ AcpFairness
  /\ AttemptsFairness /\ IndexFairness /\ BridgeFairness

\* The state of every part keeps its type.
ServicesTypeOK ==
  /\ RemindersTypeOK /\ CronTypeOK /\ HeartbeatTypeOK /\ AcpTypeOK
  /\ RelayTypeOK /\ AttemptsTypeOK /\ ReplyTypeOK /\ IndexTypeOK
  /\ TranscriptsTypeOK /\ BridgeTypeOK
=============================================================================
