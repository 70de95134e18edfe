--------------------------- MODULE StreamingReply ---------------------------
(***************************************************************************)
(* The reply of one turn on a channel that can edit messages: the stream   *)
(* of deltas goes through a StreamingBuffer, which sends a message and      *)
(* edits it; the execution flow finalizes it with the terminal text, or    *)
(* dispatches the text when that failed; the error flow finalizes it with  *)
(* an error.                                                               *)
(*                                                                         *)
(* A text is the number of deltas it shows; Final and Failure are texts    *)
(* of their own, 0 is no text.  A call of the channel that fails may have  *)
(* had its effect: the answer was lost.                                    *)
(***************************************************************************)
EXTENDS Naturals, Sequences

CONSTANTS
  MaxDeltas,        \* bound: deltas of the stream
  MaxChannelFaults  \* bound: failing calls of the channel

ASSUME ReplyAssumption == MaxDeltas \in Nat \ {0} /\ MaxChannelFaults \in Nat

Final   == MaxDeltas + 1
Failure == MaxDeltas + 2
Texts   == 0..Failure

VARIABLES
  phase,         \* where the turn is: streaming, finalizing, over
  goal,          \* the text finalize was called with
  failing,       \* in the error flow
  buffer, lastSent, messageId, streamFailed, finalized,
  flushTimer,
  flights,       \* the texts of the flushes chained on inFlight
  calling,       \* the first of them has called the channel
  shown,         \* the texts of the messages on the channel; an id is a position
  outbound,      \* state.outboundId
  channelFaults

bufferVars == <<buffer, lastSent, messageId, streamFailed, finalized>>
replyVars  == <<phase, goal, failing, bufferVars, flushTimer, flights, calling,
                shown, outbound, channelFaults>>

ReplyInit ==
  /\ phase = "streaming" /\ goal = 0 /\ failing = FALSE
  /\ buffer = 0 /\ lastSent = 0 /\ messageId = 0
  /\ streamFailed = FALSE /\ finalized = FALSE
  /\ flushTimer = FALSE /\ flights = <<>> /\ calling = FALSE
  /\ shown = <<>> /\ outbound = 0 /\ channelFaults = 0

---------------------------------------------------------------------------
(* The channel.                                                            *)

Sent(text) == shown' = Append(shown, text)
Edited(id, text) == shown' = [shown EXCEPT ![id] = text]

Lost(effect) ==
  /\ channelFaults < MaxChannelFaults /\ channelFaults' = channelFaults + 1
  /\ effect \/ UNCHANGED shown

Answered(effect) == effect /\ UNCHANGED channelFaults

---------------------------------------------------------------------------
(* The stream.                                                             *)

Flush(text) == flushTimer' = FALSE /\ flights' = Append(flights, text)

\* append and scheduleFlush: at once while there is no message; else when the
\* buffer is long and old enough, or with the timer.
Delta ==
  /\ phase = "streaming" /\ buffer < MaxDeltas
  /\ buffer' = buffer + 1
  /\ \/ (messageId = 0 \/ ~flushTimer) /\ Flush(buffer')
     \/ /\ messageId # 0
        /\ flushTimer' = TRUE
        /\ UNCHANGED flights
  /\ UNCHANGED <<phase, goal, failing, lastSent, messageId, streamFailed, finalized,
                 calling, shown, outbound, channelFaults>>

FlushTimer ==
  /\ flushTimer
  /\ Flush(buffer)
  /\ UNCHANGED <<phase, goal, failing, bufferVars, calling, shown, outbound, channelFaults>>

\* The next flush of the chain: it does nothing, or it calls the channel.
StartFlight ==
  /\ flights # <<>> /\ ~calling
  /\ IF finalized \/ streamFailed \/ (messageId # 0 /\ Head(flights) = lastSent)
     THEN flights' = Tail(flights) /\ UNCHANGED calling
     ELSE calling' = TRUE /\ UNCHANGED flights
  /\ UNCHANGED <<phase, goal, failing, bufferVars, flushTimer, shown, outbound, channelFaults>>

FlightCall == IF messageId = 0 THEN Sent(Head(flights)) ELSE Edited(messageId, Head(flights))

FlightReturns ==
  /\ calling /\ calling' = FALSE
  /\ flights' = Tail(flights)
  /\ \/ /\ Answered(FlightCall)
        /\ messageId' = IF messageId = 0 THEN Len(shown') ELSE messageId
        /\ lastSent' = Head(flights)
        /\ UNCHANGED streamFailed
     \/ /\ Lost(FlightCall)
        /\ streamFailed' = TRUE
        /\ UNCHANGED <<messageId, lastSent>>
  /\ UNCHANGED <<phase, goal, failing, buffer, finalized, flushTimer, outbound>>

---------------------------------------------------------------------------
(* finalize, and who calls it.                                             *)

Finalize(text, error) ==
  /\ phase' = "settling"
  /\ goal' = text /\ failing' = error
  /\ finalized' = TRUE /\ flushTimer' = FALSE

\* The prompt ended: with a terminal text, which may be the one streamed; with
\* a reply that is suppressed or cancelled, or an abort, and no text; or with an
\* error.
PromptEnds ==
  /\ phase = "streaming"
  /\ \/ \E text \in {0, buffer, Final} : Finalize(text, FALSE)
     \/ Finalize(Failure, TRUE)
  /\ UNCHANGED <<buffer, lastSent, messageId, streamFailed, flights, calling,
                 shown, outbound, channelFaults>>

\* finalize returns.  The execution flow dispatches a text that has no message;
\* the error flow does not.
Returns(id) ==
  /\ outbound' = id
  /\ phase' = IF id = 0 /\ goal # 0 /\ ~failing THEN "dispatching" ELSE "over"

TerminalText == IF goal # 0 THEN goal ELSE buffer

\* Variant: the flushes under way are not awaited.
SettleAtOnce ==
  /\ phase = "settling"
  /\ IF TerminalText = 0 \/ (messageId # 0 /\ lastSent = TerminalText /\ ~streamFailed)
     THEN Returns(messageId)
     ELSE phase' = (IF messageId = 0 THEN "sending" ELSE "editing") /\ UNCHANGED outbound
  /\ UNCHANGED <<goal, failing, bufferVars, flushTimer, flights, calling, shown, channelFaults>>

\* inFlight is awaited; what is left of the chain does nothing.
Settle ==
  /\ phase = "settling" /\ flights = <<>>
  /\ IF TerminalText = 0 \/ (messageId # 0 /\ lastSent = TerminalText /\ ~streamFailed)
     THEN Returns(messageId)
     ELSE phase' = (IF messageId = 0 THEN "sending" ELSE "editing") /\ UNCHANGED outbound
  /\ UNCHANGED <<goal, failing, bufferVars, flushTimer, flights, calling, shown, channelFaults>>

\* The first message, or a new one after the edit failed.
FinalSend ==
  /\ phase \in {"sending", "resending"}
  /\ \/ /\ Answered(Sent(TerminalText))
        /\ messageId' = Len(shown') /\ lastSent' = TerminalText
        /\ Returns(messageId')
     \/ /\ Lost(Sent(TerminalText))
        /\ Returns(messageId)
        /\ UNCHANGED <<messageId, lastSent>>
  /\ UNCHANGED <<goal, failing, buffer, streamFailed, finalized, flushTimer, flights, calling>>

FinalEdit ==
  /\ phase = "editing"
  /\ \/ /\ Answered(Edited(messageId, TerminalText))
        /\ lastSent' = TerminalText
        /\ Returns(messageId)
     \/ /\ Lost(Edited(messageId, TerminalText))
        /\ phase' = "resending"
        /\ UNCHANGED <<lastSent, outbound>>
  /\ UNCHANGED <<goal, failing, buffer, messageId, streamFailed, finalized, flushTimer,
                 flights, calling>>

\* dispatchReply; when it throws, the error flow finalizes once more.
Dispatch ==
  /\ phase = "dispatching"
  /\ \/ /\ Answered(Sent(goal))
        /\ outbound' = Len(shown') /\ phase' = "over"
        /\ UNCHANGED <<goal, failing, finalized, flushTimer>>
     \/ /\ Lost(Sent(goal))
        /\ Finalize(Failure, TRUE)
        /\ UNCHANGED outbound
  /\ UNCHANGED <<buffer, lastSent, messageId, streamFailed, flights, calling>>

ReplyNext ==
  \/ Delta
  \/ FlushTimer
  \/ StartFlight
  \/ FlightReturns
  \/ PromptEnds
  \/ Settle
  \/ FinalSend
  \/ FinalEdit
  \/ Dispatch

ReplySpec == ReplyInit /\ [][ReplyNext]_replyVars

---------------------------------------------------------------------------
(* Properties.                                                             *)

ReplyTypeOK ==
  /\ phase \in {"streaming", "settling", "sending", "editing", "resending", "dispatching", "over"}
  /\ goal \in Texts /\ buffer \in 0..MaxDeltas /\ lastSent \in Texts
  /\ failing \in BOOLEAN /\ streamFailed \in BOOLEAN /\ finalized \in BOOLEAN
  /\ flushTimer \in BOOLEAN /\ calling \in BOOLEAN
  /\ flights \in Seq(1..MaxDeltas) /\ shown \in Seq(Texts)
  /\ messageId \in 0..Len(shown) /\ outbound \in 0..Len(shown)
  /\ channelFaults \in 0..MaxChannelFaults

\* When the turn is over the user reads its text, in the message the turn
\* reports: no flush that was under way, queued or due overwrites it, and one
\* call of the channel that fails loses nothing.  Without a failure there is one
\* message, however many flushes were chained before its id was known.
FinalTextWins ==
  phase = "over" /\ goal # 0 =>
    /\ ~failing /\ channelFaults <= 1 => outbound # 0 /\ shown[outbound] = goal
    /\ channelFaults = 0 => shown = <<goal>>
===========================================================================
