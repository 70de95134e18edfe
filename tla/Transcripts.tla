---------------------------- MODULE Transcripts ----------------------------
(***************************************************************************)
(* What the model is given of a session: the agent library keeps the       *)
(* history in a file; when the agent of the session is built again (after  *)
(* a restart, a change of the model, a failure), the host limits it to the *)
(* last turns, prunes results of tools, repairs the pairing of calls and   *)
(* results, and orders the turns the way the provider wants them.          *)
(*                                                                         *)
(* The history grows by actions of the agent library (external): a turn    *)
(* may be interrupted between a call and its result, and a result may      *)
(* still be written when the next turn has begun.  The text of a message   *)
(* is its number of characters.                                            *)
(***************************************************************************)
EXTENDS Naturals, SequencesExt

CONSTANTS
  CallIds,       \* ids of calls; the library gives every call one of its own
  HistoryLimit,  \* dmHistoryLimit; 0: none
  KeepLast,      \* keepLastAssistants
  SoftAt,        \* softTrimRatio of the window, in characters
  HardAt,        \* hardClearRatio of the window, in characters
  SoftMax,       \* softTrim.maxChars
  TrimmedSize,   \* characters of a trimmed result
  ClearedSize,   \* characters of hardClearPlaceholder
  MinPrunable,   \* minPrunableChars
  ResultSizes,   \* bound: characters of a result
  MaxMessages    \* bound: messages of the history

ASSUME TranscriptsAssumption ==
  /\ IsFiniteSet(CallIds) /\ ResultSizes \subseteq Nat
  /\ HistoryLimit \in Nat /\ KeepLast \in Nat
  /\ SoftAt \in Nat /\ HardAt \in Nat /\ SoftMax \in Nat /\ MinPrunable \in Nat
  /\ TrimmedSize \in Nat /\ ClearedSize \in Nat /\ MaxMessages \in Nat

VARIABLES
  history,  \* messages of the session file
  running,  \* TRUE while the agent runs its turn
  called,   \* calls of the last reply whose tool is executing
  late      \* calls of an aborted turn whose tool is still executing

transcriptVars == <<history, running, called, late>>

\* A user message of one text; an assistant message of a text or of calls,
\* whose arguments may be missing; the result of a call.
User(n)          == [role |-> "user", size |-> n]
Reply(calls, ok) == [role |-> "assistant", calls |-> calls, failed |-> ~ok, size |-> 1]
Result(id, n, k) == [role |-> "toolResult", id |-> id, size |-> n, kept |-> k]

IsUser(msg)   == msg.role = "user"
IsReply(msg)  == msg.role = "assistant"
IsResult(msg) == msg.role = "toolResult"

Users(s)   == {i \in DOMAIN s : IsUser(s[i])}
Replies(s) == {i \in DOMAIN s : IsReply(s[i])}

\* Of a set of positions: the first one; the last n.
First(S)     == CHOOSE i \in S : \A j \in S : i <= j
LastOf(S, n) == {i \in S : Cardinality({j \in S : i <= j}) <= n}

\* What a sequence has at a set of positions, and the size of these messages;
\* Sizes has the size of them in each prefix.
Chosen(s, S) == FlattenSeq([i \in DOMAIN s |-> IF i \in S THEN <<s[i]>> ELSE <<>>])
Sizes(s, S)  ==
  LET size[n \in 0..Len(s)] ==
        IF n = 0 THEN 0 ELSE size[n - 1] + (IF n \in S THEN s[n].size ELSE 0)
  IN size
SizeAt(s, S) == Sizes(s, S)[Len(s)]
Total(s)     == SizeAt(s, DOMAIN s)

TranscriptsInit == history = <<>> /\ running = FALSE /\ called = {} /\ late = {}

---------------------------------------------------------------------------
(* The history (external).                                                 *)

Room     == Len(history) < MaxMessages
Write(m) == Room /\ history' = Append(history, m)
UsedIds  == UNION {{c.id : c \in Range(m.calls)} : m \in {x \in Range(history) : IsReply(x)}}

\* A turn begins, or a message is steered into the running one.
Ask == Write(User(1)) /\ running' = TRUE /\ UNCHANGED <<called, late>>

\* The model replies: with a text, which ends the turn, or with calls, some of
\* them without arguments.
ReplyText ==
  /\ running /\ called = {}
  /\ \E ok \in BOOLEAN : Write(Reply(<<>>, ok))
  /\ running' = FALSE
  /\ UNCHANGED <<called, late>>

ReplyCalls ==
  /\ running /\ called = {}
  /\ \E ids \in SUBSET (CallIds \ UsedIds), ok \in BOOLEAN :
       /\ ids # {}
       /\ \E whole \in {ids} \cup {{id} : id \in ids} :
            Write(Reply(SetToSeq({[id |-> id, input |-> id \in whole] : id \in ids}), ok))
       /\ called' = IF ok THEN ids ELSE {}
       /\ running' = ok
  /\ UNCHANGED late

\* A tool ends; its result may be one that is never pruned: of a protected
\* tool, or with an image.
ToolEnds(id) ==
  /\ id \in called \cup late
  /\ \E n \in ResultSizes, k \in BOOLEAN : Write(Result(id, n, k))
  /\ called' = called \ {id} /\ late' = late \ {id}
  /\ UNCHANGED running

\* The turn is aborted; a tool that ignores the signal goes on.
AbortTurn ==
  /\ running
  /\ running' = FALSE
  /\ called' = {} /\ late' = late \cup called
  /\ UNCHANGED history

\* The process dies.
LoseTurn ==
  /\ called \cup late # {}
  /\ running' = FALSE /\ called' = {} /\ late' = {}
  /\ UNCHANGED history

---------------------------------------------------------------------------
(* limitHistoryTurns: the last turns, from their user message on.          *)

LimitHistoryTurns(s) ==
  IF HistoryLimit = 0 \/ Cardinality(Users(s)) <= HistoryLimit THEN s
  ELSE SubSeq(s, First(LastOf(Users(s), HistoryLimit)), Len(s))

---------------------------------------------------------------------------
(* pruneContextMessages.                                                   *)

\* findAssistantCutoff: what is before it may be pruned; 0 if all is kept.
AssistantCutoff(s) ==
  IF KeepLast = 0 THEN Len(s) + 1
  ELSE IF Cardinality(Replies(s)) < KeepLast THEN 0
  ELSE First(LastOf(Replies(s), KeepLast))

Prunable(s) ==
  {i \in DOMAIN s : /\ i < AssistantCutoff(s) /\ IsResult(s[i]) /\ ~s[i].kept
                    /\ \E j \in 1..i : IsUser(s[j])}

SoftTrimmed(s) ==
  LET prunable == Prunable(s) IN
  [i \in DOMAIN s |-> IF i \in prunable /\ s[i].size > SoftMax
                      THEN [s[i] EXCEPT !.size = TrimmedSize] ELSE s[i]]

\* The oldest first, until the transcript is small enough.
HardCleared(s) ==
  LET prunable == Prunable(s)
      clear[n \in 0..Len(s)] ==
        IF n = 0 THEN s
        ELSE LET t == clear[n - 1] IN
             IF n \in prunable /\ Total(t) >= HardAt
             THEN [t EXCEPT ![n].size = ClearedSize] ELSE t
  IN clear[Len(s)]

PruneContextMessages(s) ==
  LET trimmed == SoftTrimmed(s)
      weight  == SizeAt(trimmed, Prunable(s)) IN
  IF AssistantCutoff(s) = 0 \/ Total(s) < SoftAt THEN s
  ELSE IF Total(trimmed) < HardAt \/ weight < MinPrunable THEN trimmed
  ELSE HardCleared(trimmed)

---------------------------------------------------------------------------
(* sanitizePromptInputForModel.                                            *)

\* repairToolCallInputs: calls without arguments go, and a reply of nothing
\* else.
RepairToolCallInputs(s) ==
  LET whole(msg) ==
        [msg EXCEPT !.calls = Chosen(@, {k \in DOMAIN msg.calls : msg.calls[k].input})]
      keep(msg)  == ~IsReply(msg) \/ msg.calls = <<>> \/ whole(msg).calls # <<>> IN
  FlattenSeq([i \in DOMAIN s |->
               IF ~keep(s[i]) THEN <<>>
               ELSE IF IsReply(s[i]) THEN <<whole(s[i])>> ELSE <<s[i]>>])

\* Replies whose calls have to be answered.
Calling(msg) == IsReply(msg) /\ ~msg.failed /\ msg.calls # <<>>

\* What follows s[i] up to the next reply.
Span(s, i) ==
  {j \in i + 1..Len(s) : \A k \in i + 1..j : ~IsReply(s[k])}

\* A result is taken for the first call of its id only.
Seen(s, i) == UNION {{c.id : c \in Range(s[j].calls)} : j \in {k \in 1..(i - 1) : Calling(s[k])}}

\* Variant: a call whose result was lost stays without one.
ResultForFound(s, i, id) ==
  LET found == {j \in Span(s, i) : IsResult(s[j]) /\ s[j].id = id} IN
  IF found = {} THEN <<>> ELSE <<s[First(found)]>>

\* The result in the span, or a synthetic one.
ResultFor(s, i, id) ==
  LET found == {j \in Span(s, i) : IsResult(s[j]) /\ s[j].id = id} IN
  IF id \in Seen(s, i) THEN <<>>
  ELSE IF found = {} THEN <<Result(id, 1, FALSE)>>
  ELSE <<s[First(found)]>>

\* repairToolUseResultPairing: the answers directly after their calls, then
\* what the user said meanwhile; all other results go.
RepairToolUseResultPairing(s) ==
  LET callers == {i \in DOMAIN s : Calling(s[i])}
      answers(i) ==
        FlattenSeq([k \in DOMAIN s[i].calls |-> ResultFor(s, i, s[i].calls[k].id)])
      piece(i) ==
        IF i \in callers
        THEN <<s[i]>> \o answers(i) \o Chosen(s, Span(s, i) \cap Users(s))
        ELSE IF IsResult(s[i]) \/ \E k \in callers : i \in Span(s, k) THEN <<>>
        ELSE <<s[i]>>
  IN FlattenSeq([i \in DOMAIN s |-> piece(i)])

\* sanitizeGoogleTurnOrdering: no transcript begins with a reply.
SanitizeGoogleTurnOrdering(s) ==
  IF s # <<>> /\ IsReply(s[1]) THEN <<User(0)>> \o s ELSE s

\* validateGeminiTurns and validateAnthropicTurns: two messages of one role
\* become one.  (The content of a user's message is a list of blocks, as the
\* library writes it; a plain string would be dropped here.)
Join(a, b) == IF IsUser(a) THEN User(a.size + b.size) ELSE [b EXCEPT !.calls = a.calls \o @]

\* What each prefix becomes.
Merged(s, role) ==
  LET out[n \in 0..Len(s)] ==
        IF n = 0 THEN <<>>
        ELSE LET t == out[n - 1] IN
             IF t # <<>> /\ Last(t).role = role /\ s[n].role = role
             THEN [t EXCEPT ![Len(t)] = Join(@, s[n])]
             ELSE Append(t, s[n])
  IN out

ValidateGeminiTurns(s)    == Merged(s, "assistant")[Len(s)]
ValidateAnthropicTurns(s) == Merged(s, "user")[Len(s)]

\* The policies of resolveTranscriptPolicy, for OpenAI nothing is done.
Providers == {"openai", "google", "anthropic"}

SanitizePromptInput(s, provider) ==
  LET repaired == RepairToolUseResultPairing(RepairToolCallInputs(s)) IN
  IF provider = "openai" THEN s
  ELSE IF provider = "google"
       THEN ValidateGeminiTurns(SanitizeGoogleTurnOrdering(repaired))
       ELSE ValidateAnthropicTurns(repaired)

\* createAndInitializeAgentSession: what replaceMessages is given.
Context(provider) ==
  SanitizePromptInput(PruneContextMessages(LimitHistoryTurns(history)), provider)

---------------------------------------------------------------------------
TranscriptsNext ==
  \/ Ask \/ ReplyText \/ ReplyCalls
  \/ \E id \in CallIds : ToolEnds(id)
  \/ AbortTurn \/ LoseTurn

TranscriptsSpec == TranscriptsInit /\ [][TranscriptsNext]_transcriptVars

---------------------------------------------------------------------------
(* Properties.                                                             *)

Message ==
  [role : {"user"}, size : Nat]
  \cup [role : {"assistant"}, calls : Seq([id : CallIds, input : BOOLEAN]),
        failed : BOOLEAN, size : Nat]
  \cup [role : {"toolResult"}, id : CallIds, size : Nat, kept : BOOLEAN]

TranscriptsTypeOK ==
  /\ history \in Seq(Message) /\ Len(history) <= MaxMessages
  /\ running \in BOOLEAN
  /\ called \subseteq CallIds /\ late \subseteq CallIds \ called

\* Every call of a reply that did not fail is answered once, directly after
\* it and in the order of the calls, and every result answers such a call.
Paired(s) ==
  \A i \in DOMAIN s :
    /\ Calling(s[i]) => \A k \in DOMAIN s[i].calls :
         /\ i + k \in DOMAIN s
         /\ IsResult(s[i + k]) /\ s[i + k].id = s[i].calls[k].id
    /\ IsResult(s[i]) => \E k \in 1..(i - 1) :
         Calling(s[i - k]) /\ k <= Len(s[i - k].calls)

\* However a session was interrupted, killed, steered and limited, what its
\* next model is given is a transcript the provider accepts: calls and results
\* are paired, turns alternate as the provider wants; nothing the user said in
\* the turns that are kept is lost; and the results of the last replies are
\* those of the file, not pruned ones.
ContextAccepted ==
  LET said(s)  == SizeAt(s, Users(s))
      limited  == LimitHistoryTurns(history)
      pruned   == PruneContextMessages(limited)
      recent   == IF AssistantCutoff(limited) = 0 THEN 1 ELSE AssistantCutoff(limited) IN
  /\ \A i \in DOMAIN limited : i >= recent => pruned[i] = limited[i]
  /\ \A provider \in {"google", "anthropic"} :
       LET s == Context(provider) IN
       /\ Paired(s)
       /\ said(s) = said(limited)
       /\ provider = "google" => \A i \in DOMAIN s : IsReply(s[i]) =>
            i > 1 /\ ~IsReply(s[i - 1])
       /\ provider = "anthropic" => \A i \in DOMAIN s : IsUser(s[i]) =>
            i = 1 \/ ~IsUser(s[i - 1])
=============================================================================
