------------------------------ MODULE Corrections ------------------------------
(***************************************************************************)
(* A correction travels through D-Mail metadata, a map from keys to texts: *)
(* each tool parses the map into a record, adds itself to the histories,   *)
(* and writes the record onto a map again.  Texts are tokens where their   *)
(* spelling matters: a history is a sequence of names, ">" and ",".  Of    *)
(* the keys that are merely copied one stands for all (failure_type).      *)
(***************************************************************************)
EXTENDS Integers, Sequences, FiniteSets, SequencesExt

CONSTANTS CoMeta,    \* metadata maps that tools which are not this one send
          CoTool,    \* names of the tools the correction passes
          CoHops     \* bound on the hops

\* A text is a sequence of tokens.
IsText(text) == Len(text) \in Nat /\ text = [i \in 1 .. Len(text) |-> text[i]]

\* The text of a number n is <<"#", n>>; the name of a tool has no separator.
ASSUME CorrectionsAssumption ==
  /\ CoHops \in Nat
  /\ \A meta \in CoMeta : \A k \in DOMAIN meta : IsText(meta[k])
  /\ \A meta \in CoMeta : \A k \in DOMAIN meta \intersect {"recurrence_count", "provider_retry_budget"} :
       Len(meta[k]) = 2 /\ meta[k][1] = "#" => meta[k][2] \in Int
  /\ \A tool \in CoTool :
       IsText(tool) /\ tool # <<>> /\ ~Contains(tool, ">") /\ ~Contains(tool, ",")

VARIABLES
  coMeta,    \* the metadata of the D-Mail under way
  coFirst,   \* history: the correction as it was first parsed, {} before
  coVia,     \* history: the tools it passed
  coFresh    \* whether every hop wrote onto an empty map

coVars == <<coMeta, coFirst, coVia, coFresh>>

CoInit == coMeta \in CoMeta /\ coFirst = {} /\ coVia = <<>> /\ coFresh = TRUE

\* A key that is missing reads as the empty text.
Text(meta, key) == IF key \in DOMAIN meta THEN meta[key] ELSE <<>>

-----------------------------------------------------------------------------
\* Vocabularies.  A word is <<word>>, in capitals <<"^", word>>.

Known == [severity        |-> {"low", "medium", "high"},
          routing_mode    |-> {"retry", "reroute", "escalate"},
          provider_state  |-> {"active", "waiting", "degraded", "paused"},
          outcome         |-> {"pending", "resolved", "escalated", "failed_again", "ignored"}]

\* NormalizeSeverity, NormalizeRoutingMode, NormalizeImprovementOutcome,
\* NormalizeProviderState: a known word is lowered, another stays as it is.
Lowered(text) == IF text # <<>> /\ text[1] = "^" THEN Tail(text) ELSE text
Normalize(key, text) ==
  IF \E word \in Known[key] : Lowered(text) = <<word>> THEN Lowered(text) ELSE text

IsKnown(key, text) == \E word \in Known[key] : Normalize(key, text) = <<word>>

-----------------------------------------------------------------------------
\* Histories.

\* appendImprovementHistory: not the empty name, not the last one again.
AppendHistory(history, name) ==
  IF name = <<>> \/ (history # <<>> /\ Last(history) = name) THEN history ELSE Append(history, name)

NormalizeHistory(history) == FoldLeft(AppendHistory, <<>>, history)

\* The names that the separator leaves, as AppendHistory takes them.
TakeToken(acc, token) ==
  IF token = acc.separator THEN [acc EXCEPT !.names = AppendHistory(@, acc.word), !.word = <<>>]
  ELSE [acc EXCEPT !.word = Append(@, token)]

SplitAt(text, separator) ==
  LET acc == FoldLeft(TakeToken, [separator |-> separator, names |-> <<>>, word |-> <<>>], text)
  IN  AppendHistory(acc.names, acc.word)

\* parseImprovementHistory: ">" separates, or "," where there is no ">".
ParseHistory(text) == SplitAt(text, IF Contains(text, ">") THEN ">" ELSE ",")

\* formatImprovementHistory.
JoinName(text, name) == IF text = <<>> THEN name ELSE text \o <<">">> \o name
FormatHistory(history) == FoldLeft(JoinName, <<>>, NormalizeHistory(history))

-----------------------------------------------------------------------------
\* The record.

\* strconv.Atoi and ParseBool: a text that is no number, no truth value, is as
\* none; the text of the number n is <<"#", n>>.
Count(text) == IF Len(text) = 2 /\ text[1] = "#" THEN text[2] ELSE 0

\* CorrectionMetadataFromMap.
CorrectionFromMap(meta) ==
  [schema   |-> Text(meta, "schema_version"),
   failure  |-> Text(meta, "failure_type"),
   severity |-> Normalize("severity", Text(meta, "severity")),
   agent    |-> Text(meta, "target_agent"),
   mode     |-> Normalize("routing_mode", Text(meta, "routing_mode")),
   routing  |-> ParseHistory(Text(meta, "routing_history")),
   count    |-> Count(Text(meta, "recurrence_count")),
   state    |-> Normalize("provider_state", Text(meta, "provider_state")),
   budget   |-> Count(Text(meta, "provider_retry_budget")),
   outcome  |-> Normalize("outcome", Text(meta, "outcome"))]

\* IsImprovement: any field but the provider's.
IsImprovement(m) ==
  \/ m.count > 0 \/ m.routing # <<>>
  \/ {m.schema, m.failure, m.severity, m.agent, m.mode, m.outcome} # {<<>>}

HasSupportedVocabulary(m) ==
  /\ m.severity = <<>> \/ IsKnown("severity", m.severity)
  /\ m.mode = <<>> \/ IsKnown("routing_mode", m.mode)
  /\ m.state = <<>> \/ IsKnown("provider_state", m.state)
  /\ m.outcome = <<>> \/ IsKnown("outcome", m.outcome)

\* What the record says, by key.
Said(m) ==
  [schema_version        |-> IF m.schema = <<>> THEN <<"1">> ELSE m.schema,
   failure_type          |-> m.failure,
   severity              |-> Normalize("severity", m.severity),
   target_agent          |-> m.agent,
   routing_mode          |-> Normalize("routing_mode", m.mode),
   routing_history       |-> FormatHistory(m.routing),
   recurrence_count      |-> IF m.count > 0 THEN <<"#", m.count>> ELSE <<>>,
   provider_state        |-> Normalize("provider_state", m.state),
   provider_retry_budget |-> IF m.state # <<>> \/ m.budget # 0 THEN <<"#", m.budget>> ELSE <<>>,
   outcome               |-> m.outcome]

\* Apply: what the record says is set, what it does not say is left as it was.
Apply(m, meta) ==
  LET keys == {k \in DOMAIN Said(m) : Said(m)[k] # <<>>}
  IN  [k \in DOMAIN meta \union keys |-> IF k \in keys THEN Said(m)[k] ELSE meta[k]]

\* ForwardForRecheck.
ForwardForRecheck(m) ==
  IF ~IsImprovement(m) THEN m
  ELSE [m EXCEPT !.schema  = IF @ = <<>> THEN <<"1">> ELSE @,
                 !.agent   = <<>>, !.mode = <<>>,
                 !.outcome = IF @ = <<>> THEN <<"pending">> ELSE @]

-----------------------------------------------------------------------------

\* A tool takes the correction, enters itself and sends it on, for a recheck or
\* to another tool, in a D-Mail of its own or with the metadata it received.
Hop ==
  /\ Len(coVia) < CoHops
  /\ \E tool \in CoTool, fresh \in BOOLEAN, recheck \in BOOLEAN :
       LET m    == CorrectionFromMap(coMeta)
           sent == [IF recheck THEN ForwardForRecheck(m) ELSE m
                      EXCEPT !.routing = AppendHistory(m.routing, tool)]
       IN  /\ HasSupportedVocabulary(m)
           /\ coMeta' = Apply(sent, IF fresh THEN <<>> ELSE coMeta)
           /\ coFirst' = IF coFirst = {} THEN {m} ELSE coFirst
           /\ coVia' = Append(coVia, tool)
           /\ coFresh' = (coFresh /\ fresh)

CoNext == Hop

CoSpec == CoInit /\ [][CoNext]_coVars

-----------------------------------------------------------------------------

\* Every variable has its type; the correction was read when the first tool took it.
CoTypeOK ==
  /\ coVia \in Seq(CoTool) /\ Len(coVia) <= CoHops
  /\ coFirst = {} <=> coVia = <<>>
  /\ \A m, n \in coFirst : m = n
  /\ coFresh \in BOOLEAN

\* After any number of hops the history is the first one and the tools passed,
\* without repetition; and a history written by either convention, commas only
\* or ">", is taken apart by it.
HistoryKept ==
  LET text  == Text(coMeta, "routing_history")
      names == CorrectionFromMap(coMeta).routing
  IN  /\ \A m \in coFirst : names = FoldLeft(AppendHistory, m.routing, coVia)
      /\ \A i \in DOMAIN names : ~Contains(names[i], ">")
                               /\ (Contains(names[i], ",") => Contains(text, ">"))

\* No hop loses or changes what the correction says of the failure, and words
\* that were understood stay understood.
CorrectionKept ==
  \A m \in coFirst : LET now == CorrectionFromMap(coMeta) IN
    /\ <<now.failure, now.severity, now.state>> = <<m.failure, m.severity, m.state>>
    /\ m.count >= 0 => now.count = m.count
    /\ now.outcome \in {m.outcome, <<"pending">>}
    /\ HasSupportedVocabulary(now)

\* After the first hop the map is what the record says of it: parsing it and
\* writing it again changes nothing.
ApplyIsStable ==
  coFirst # {} /\ coFresh => Apply(CorrectionFromMap(coMeta), coMeta) = coMeta

\* What a correction keeps from hop to hop.
CorrectionsSound == HistoryKept /\ CorrectionKept /\ ApplyIsStable

===============================================================================
