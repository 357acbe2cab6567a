---------------------------- MODULE SessionStream ----------------------------
(***************************************************************************)
(* A provider's stream of NDJSON lines, read by StreamReader and turned by *)
(* StreamNormalizer into session events: what is skipped, what is emitted, *)
(* which provider session each event names, which subagents are open, and  *)
(* the single session_end that closes the stream.  Texts are sequences of  *)
(* rune widths in bytes: only their truncation matters.                    *)
(***************************************************************************)
EXTENDS Naturals, Sequences, FiniteSets, SequencesExt

CONSTANTS StSession,   \* provider session IDs
          StNone,      \* no ID
          StTool,      \* tool_use IDs
          StRaw,       \* raw lines, as sequences of rune widths
          StRawMax,    \* RawFieldMaxBytes
          StLines      \* bound: lines read

ASSUME StreamAssumption ==
  /\ StNone \notin StSession \union StTool
  /\ StRaw \subseteq Seq(1 .. 4)
  /\ StRawMax \in Nat /\ StRawMax >= 3
  /\ StLines \in Nat

VARIABLES
  stRead,      \* lines read so far
  stPending,   \* StreamReader.readErr: "none", "eof" or "error"
  stState,     \* the run: "reading", "eof", "error" or "ended"
  stSid,       \* the normalizer: provider session ID
  stAgents,    \* the normalizer: open subagents
  stUsage,     \* the normalizer: a result's usage is saved
  stOut        \* events emitted, in order

streamVars == <<stRead, stPending, stState, stSid, stAgents, stUsage, stOut>>

StBlock == [kind : {"text", "thinking"}, tool : {StNone}]
           \union [kind : {"Bash", "Agent"}, tool : StTool]

\* ParseStreamMessage: the messages the cases of NormalizeMessage tell apart.
StMessage ==
  [kind : {"init", "hook_started", "hook_response", "result", "rate_limit_event", "other", "failure"},
   sid : StSession \union {StNone}, tool : {StNone}, blocks : {<<>>}]
  \union [kind : {"tool_result"}, sid : StSession, tool : StTool, blocks : {<<>>}]
  \union [kind : {"assistant"}, sid : StSession, tool : {StNone},
          blocks : {<<>>} \union {<<b>> : b \in StBlock}
                   \union {<<b, c>> : b, c \in StBlock}]

StreamInit ==
  /\ stRead = 0
  /\ stPending = "none"
  /\ stState = "reading"
  /\ stSid = StNone
  /\ stAgents = {}
  /\ stUsage = FALSE
  /\ stOut = <<>>

-----------------------------------------------------------------------------

Widths(bytes, rune) == bytes + rune
Bytes(runes) == FoldLeft(Widths, 0, runes)

\* Mutant of KeptRunes: a cut at the byte limit, whatever rune it falls in.
KeptBytes(runes, max) ==
  CHOOSE k \in 0 .. Len(runes) :
    /\ Bytes(SubSeq(runes, 1, k)) <= max
    /\ k = Len(runes) \/ Bytes(SubSeq(runes, 1, k + 1)) > max

\* TruncateField: the runes kept in full, before the "...".
KeptRunes(runes, max) ==
  CHOOSE k \in 0 .. Len(runes) :
    /\ Bytes(SubSeq(runes, 1, k)) <= max - 3
    /\ k = Len(runes) \/ Bytes(SubSeq(runes, 1, k + 1)) > max - 3

TruncateField(runes, max) ==
  IF Bytes(runes) <= max
  THEN [bytes |-> Bytes(runes), cut |-> FALSE]
  ELSE [bytes |-> Bytes(SubSeq(runes, 1, KeptRunes(runes, max))) + 3, cut |-> TRUE]

IsToolUse(b) == b.kind \in {"Bash", "Agent"}

\* ExtractToolUse: the place of the first block that is a tool use, if there is one.
FirstToolUse(blocks) ==
  {i \in DOMAIN blocks : IsToolUse(blocks[i]) /\ \A j \in 1 .. i - 1 : ~IsToolUse(blocks[j])}

\* normalizeAssistant: the first tool use, else thinking, else text, else nothing.
AssistantEvent(msg) ==
  LET first == FirstToolUse(msg.blocks)
      tool  == msg.blocks[CHOOSE i \in first : TRUE]
      kinds == {b.kind : b \in Range(msg.blocks)}
  IN  IF first # {}
      THEN IF tool.kind = "Agent"
           THEN [type |-> "subagent_start", agent |-> tool.tool]
           ELSE [type |-> "tool_use_start", agent |-> StNone]
      ELSE [type  |-> IF "thinking" \in kinds THEN "thinking"
                      ELSE IF "text" \in kinds THEN "assistant_text" ELSE "none",
            agent |-> StNone]

\* NormalizeMessage: the event a message becomes; type "none" is not published.
EventOf(msg) ==
  CASE msg.kind = "assistant" -> AssistantEvent(msg)
    [] msg.kind = "tool_result" /\ msg.tool \in stAgents
         -> [type |-> "subagent_end", agent |-> msg.tool]
    [] OTHER -> [type  |-> CASE msg.kind = "init" -> "session_start"
                             [] msg.kind = "hook_started" -> "hook_start"
                             [] msg.kind = "hook_response" -> "hook_result"
                             [] msg.kind = "tool_result" -> "tool_result"
                             [] msg.kind = "rate_limit_event" -> "rate_limit"
                             [] msg.kind = "failure" -> "error"
                             [] OTHER -> "none",
                 agent |-> StNone]

\* A session ID that follows the messages.
SidFollows(msg) == IF msg.sid = StNone THEN stSid ELSE msg.sid

\* The session ID is that of the first message that has one.
SidAfter(msg) == IF stSid = StNone THEN msg.sid ELSE stSid

OpenAgents(ev) ==
  CASE ev.type = "subagent_start" -> stAgents \union {ev.agent}
    [] ev.type = "subagent_end" -> stAgents \ {ev.agent}
    [] OTHER -> stAgents

\* NormalizeMessage and publish.
NormalizeMessage(msg, raw) ==
  LET ev == EventOf(msg)
  IN  /\ stSid' = SidAfter(msg)
      /\ stAgents' = OpenAgents(ev)
      /\ stUsage' = (stUsage \/ msg.kind = "result")
      /\ stOut' = IF ev.type = "none" THEN stOut
                  ELSE Append(stOut, [type  |-> ev.type, agent |-> ev.agent,
                                      sid   |-> SidAfter(msg), usage |-> FALSE,
                                      raw   |-> TruncateField(raw, StRawMax), of |-> raw])

\* StreamReader.Next on a line that parses; the last line may lack its newline.
ReadMessage ==
  /\ stState = "reading" /\ stPending = "none" /\ stRead < StLines
  /\ \E msg \in StMessage, raw \in StRaw, rest \in {"none", "eof", "error"} :
       /\ NormalizeMessage(msg, raw)
       /\ stPending' = rest
  /\ stRead' = stRead + 1
  /\ UNCHANGED stState

\* A line that is blank or does not parse is skipped; one that ends the stream ends it.
SkipLine ==
  /\ stState = "reading" /\ stPending = "none" /\ stRead < StLines
  /\ \E rest \in {"reading", "eof", "error"} : stState' = rest
  /\ stRead' = stRead + 1
  /\ UNCHANGED <<stPending, stSid, stAgents, stUsage, stOut>>

\* Next returns the error it held back, and forgets it.
StreamStops ==
  /\ stState = "reading"
  /\ stState' \in IF stPending = "none" THEN {"eof", "error"} ELSE {stPending}
  /\ stPending' = "none"
  /\ UNCHANGED <<stRead, stSid, stAgents, stUsage, stOut>>

\* SessionEnd: the caller names a provider session, the stream's or any other,
\* which session_end then bears, or none.
SessionEnd ==
  /\ stState \in {"eof", "error"}
  /\ stState' = "ended"
  /\ \E sid \in StSession \union {StNone} :
       stOut' = Append(stOut, [type  |-> "session_end", agent |-> StNone,
                               sid   |-> IF sid = StNone THEN stSid ELSE sid,
                               usage |-> stUsage,
                               raw   |-> TruncateField(<<>>, StRawMax), of |-> <<>>])
  /\ UNCHANGED <<stRead, stPending, stSid, stAgents, stUsage>>

StreamNext == ReadMessage \/ SkipLine \/ StreamStops \/ SessionEnd

StreamSpec == StreamInit /\ [][StreamNext]_streamVars

-----------------------------------------------------------------------------

\* Every variable has its type.
StreamTypeOK ==
  /\ stRead \in 0 .. StLines
  /\ stPending \in {"none", "eof", "error"}
  /\ stState \in {"reading", "eof", "error", "ended"}
  /\ stSid \in StSession \union {StNone}
  /\ stAgents \subseteq StTool
  /\ stUsage \in BOOLEAN
  /\ \A i \in DOMAIN stOut : stOut[i].sid \in StSession \union {StNone}

\* session_end is emitted once, at the end, although results also end sessions.
OneSessionEnd ==
  \A i \in DOMAIN stOut :
    stOut[i].type = "session_end" => i = Len(stOut) /\ stState = "ended"

\* The open subagents are those whose last event is a start, and a subagent's
\* end answers a start of it that nothing else has ended.
AgentsPaired ==
  \A t \in StTool :
    /\ t \in stAgents <=>
         \E i \in DOMAIN stOut :
           /\ stOut[i].agent = t /\ stOut[i].type = "subagent_start"
           /\ \A j \in i + 1 .. Len(stOut) : stOut[j].agent # t
    /\ \A i \in DOMAIN stOut : stOut[i].agent = t =>
         \/ stOut[i].type = "subagent_start"
         \/ /\ stOut[i].type = "subagent_end"
            /\ \E j \in 1 .. i - 1 :
                 /\ stOut[j].agent = t /\ stOut[j].type = "subagent_start"
                 /\ \A k \in j + 1 .. i - 1 : stOut[k].agent # t

\* Once an event names the provider's session, every later one names the same,
\* but for session_end, which may bear its caller's and names one in any case.
OneSession ==
  \A i, j \in DOMAIN stOut :
    i < j /\ stOut[i].sid # StNone =>
      \/ stOut[j].sid = stOut[i].sid
      \/ stOut[j].type = "session_end" /\ stOut[j].sid # StNone

\* The raw line of an event fits, and no rune of it is cut in two.
RawFits ==
  \A i \in DOMAIN stOut :
    LET raw == stOut[i].raw IN
      /\ raw.bytes <= StRawMax
      /\ IF raw.cut
         THEN \E k \in 0 .. Len(stOut[i].of) : raw.bytes = Bytes(SubSeq(stOut[i].of, 1, k)) + 3
         ELSE raw.bytes = Bytes(stOut[i].of)

\* What the normalizer promises of the events of one stream.
StreamSound == OneSessionEnd /\ AgentsPaired /\ OneSession /\ RawFits

===============================================================================
