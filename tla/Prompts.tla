------------------------------ MODULE Prompts ------------------------------
(***************************************************************************)
(* The templates of the prompts and their expansion                        *)
(* (harness/filter/registry.go, expedition.go).  A text is a sequence of   *)
(* tokens [kind, name]: "text", the placeholder "var" of a variable, and   *)
(* the marks "if" (of a variable), "else" and "end" of a conditional.  A   *)
(* value is a text too: what a user or a mail wrote may look like a        *)
(* placeholder or a mark.                                                  *)
(*                                                                         *)
(* A template is written token by token and then expanded, or the prompt   *)
(* of an expedition is rendered from its data.                             *)
(***************************************************************************)
EXTENDS Naturals, FiniteSets, Sequences, SequencesExt

CONSTANTS PrToken,    \* tokens of a template
          PrValue,    \* values of the variables "k" and "j": functions to texts
          PrData,     \* data of an expedition
          PrTokens    \* bound: tokens of a template

Word(name) == [kind |-> "text", name |-> name]
Var(name) == [kind |-> "var", name |-> name]

\* What a text may hold; a mark of the expansion is none of it.
Token == [kind : {"text", "var", "if", "else", "end"}, name : STRING]

\* Words of the templates that depend on the data.
OfWave == {Word("wave target"), Word("issues on github"), Word("mission wave")}
OfLinear == {Word("linear scope"), Word("issues on linear"), Word("mission linear")}
OfTemplates == {Word("glossary")} \union OfWave \union OfLinear

\* What users and mails say is told apart from what the templates say.
ASSUME PrAssumption ==
    /\ PrTokens \in Nat
    /\ PrToken \subseteq Token
    /\ PrValue # {} /\ \A v \in PrValue : v \in [{"k", "j"} -> Seq(Token)]
    /\ \A d \in PrData :
          /\ d \in [wave : BOOLEAN, team : STRING, contract : BOOLEAN,
                    lumina : Seq(Token), context : Seq(Token), inbox : Seq(Token)]
          /\ ({Word(d.team)} \union ToSet(d.lumina) \union ToSet(d.context) \union ToSet(d.inbox))
                \intersect OfTemplates = {}

VARIABLES prTemplate,  \* the template that is being written
          prOrders,    \* what it expands to, one result per order of the variables
          prValues,    \* the values it was expanded with
          prPrompts    \* the prompts rendered, with their data: at most one

prVars == << prTemplate, prOrders, prValues, prPrompts >>

PrInit ==
    /\ prTemplate = << >>
    /\ prOrders = {}
    /\ prValues = CHOOSE v \in PrValue : TRUE
    /\ prPrompts = << >>

-----------------------------------------------------------------------------
(* Expansion.                                                              *)

Truthy(k, vars) == k \in DOMAIN vars /\ vars[k] # << >> /\ vars[k] # << Word("false") >>

IndexOf(t, kind, from) ==
    LET at == {i \in from .. Len(t) : t[i].kind = kind}
    IN  IF at = {} THEN 0 ELSE Min(at)

\* The first conditional, up to the first end mark behind it, is replaced by
\* one of its branches.
ProcessFirst(t, vars) ==
    LET start == IndexOf(t, "if", 1)
        end == IF start = 0 THEN 0 ELSE IndexOf(t, "end", start)
        body == SubSeq(t, start + 1, end - 1)
        middle == IndexOf(body, "else", 1)
        yes == IF middle = 0 THEN body ELSE SubSeq(body, 1, middle - 1)
        no == IF middle = 0 THEN << >> ELSE SubSeq(body, middle + 1, Len(body))
    IN  IF end = 0 THEN t
        ELSE SubSeq(t, 1, start - 1) \o (IF Truthy(t[start].name, vars) THEN yes ELSE no)
             \o SubSeq(t, end + 1, Len(t))

\* Until nothing changes: each step takes a mark away.
ProcessConditionals(t, vars) == FoldLeft(ProcessFirst, t, [i \in DOMAIN t |-> vars])

Join(text, part) == text \o part
Joined(parts) == FoldLeft(Join, << >>, parts)

Substitute(t, change) ==
    Joined([i \in DOMAIN t |-> IF t[i] = change.old THEN change.new ELSE << t[i] >>])

Sentinel(k) == [kind |-> "mark", name |-> k]

\* Mutant of ReplaceVars: the placeholders are replaced by the values at once.
ReplaceVarsAtOnce(t, vars, order) ==
    FoldLeft(Substitute, t, [i \in DOMAIN order |-> [old |-> Var(order[i]), new |-> vars[order[i]]]])

\* First every placeholder becomes a mark no text contains, then every mark
\* its value: what stands in a value is not looked at again.  The order in
\* which the variables come is that of a map.
ReplaceVars(t, vars, order) ==
    LET marks == [i \in DOMAIN order |-> [old |-> Var(order[i]), new |-> << Sentinel(order[i]) >>]]
        values == [i \in DOMAIN order |-> [old |-> Sentinel(order[i]), new |-> vars[order[i]]]]
    IN  FoldLeft(Substitute, FoldLeft(Substitute, t, marks), values)

ExpandTemplate(t, vars, order) == ReplaceVars(ProcessConditionals(t, vars), vars, order)

Orders(vars) == {o \in [1 .. Cardinality(DOMAIN vars) -> DOMAIN vars] : \A i, j \in DOMAIN o : o[i] = o[j] => i = j}

-----------------------------------------------------------------------------
(* The prompt of an expedition.                                            *)

BoolFlag(b) == << Word(IF b THEN "true" ELSE "false") >>

\* Wave target, or the scope of a team, or nothing.
RenderScopeSection(d) ==
    IF d.wave THEN << Word("wave target") >>
    ELSE IF d.team # "none" THEN << Word("linear scope"), Word(d.team) >> ELSE << >>

RenderEnvironmentSection(d) ==
    (IF d.wave THEN << Word("issues on github") >> ELSE << Word("issues on linear") >>)
    \o << Word("tools") >>

WithHeader(header, text) == IF text = << >> THEN << >> ELSE << Word(header) >> \o text

MissionPromptName(d) == IF d.wave THEN "mission wave" ELSE "mission linear"

\* What the prompts of all languages have in common, in their order.
ExpeditionTemplate ==
    << Var("lumina_section"), Var("gradient_section"), Var("scope_section"), Var("environment_section"),
       Var("context_section"), Var("inbox_section"), [kind |-> "if", name |-> "has_event_sourced_contract"],
       Word("glossary"), [kind |-> "end", name |-> ""], Var("mission_section") >>

ExpeditionVars(d) ==
    [lumina_section |-> d.lumina, gradient_section |-> << Word("gradient") >>,
     scope_section |-> RenderScopeSection(d), environment_section |-> RenderEnvironmentSection(d),
     context_section |-> WithHeader("context", d.context), inbox_section |-> WithHeader("inbox", d.inbox),
     mission_section |-> << Word(MissionPromptName(d)) >>, is_wave_mode |-> BoolFlag(d.wave),
     has_event_sourced_contract |-> BoolFlag(d.contract)]

Names == << "lumina_section", "gradient_section", "scope_section", "environment_section", "context_section",
           "inbox_section", "mission_section", "is_wave_mode", "has_event_sourced_contract" >>

\* The names in a few orders: that of the template, its reverse, and one that
\* starts in the middle.
SomeOrders == {Names, Reverse(Names), SubSeq(Names, 5, 9) \o SubSeq(Names, 1, 4)}

-----------------------------------------------------------------------------
WriteToken ==
    /\ prOrders = {} /\ prPrompts = << >>
    /\ Len(prTemplate) < PrTokens
    /\ \E x \in PrToken : prTemplate' = Append(prTemplate, x)
    /\ UNCHANGED << prOrders, prValues, prPrompts >>

Expand ==
    /\ prOrders = {} /\ prTemplate # << >>
    /\ \E v \in PrValue :
         /\ prValues' = v
         /\ prOrders' = {ExpandTemplate(prTemplate, v, o) : o \in Orders(v)}
    /\ UNCHANGED << prTemplate, prPrompts >>

RenderExpeditionPrompt ==
    /\ prTemplate = << >> /\ prPrompts = << >>
    /\ \E d \in PrData : \E o \in SomeOrders :
         prPrompts' = << [data |-> d, text |-> ExpandTemplate(ExpeditionTemplate, ExpeditionVars(d), o)] >>
    /\ UNCHANGED << prTemplate, prOrders, prValues >>

PrNext == WriteToken \/ Expand \/ RenderExpeditionPrompt

PrSpec == PrInit /\ [][PrNext]_prVars

-----------------------------------------------------------------------------
\* Every variable has its type.
PrTypeOK ==
    /\ prTemplate \in Seq(PrToken) /\ Len(prTemplate) <= PrTokens
    /\ prValues \in PrValue
    /\ Len(prPrompts) <= 1

\* A conditional that is complete and holds no other.
Flat(t) ==
    /\ \A i \in DOMAIN t : t[i].kind = "if" =>
            \E j \in i + 1 .. Len(t) : t[j].kind = "end" /\ \A k \in i + 1 .. j - 1 : t[k].kind \notin {"if", "end"}
    /\ \A i \in DOMAIN t : t[i].kind \in {"else", "end"} =>
            \E j \in 1 .. i - 1 :
                t[j].kind = "if" /\ \A k \in j + 1 .. i - 1 : t[k].kind # "end" /\ (t[i].kind = "else" => t[k].kind # "else")

\* The branch a token of a flat template stands in decides whether it stays.
Stays(t, i, vars) ==
    LET opened == {j \in 1 .. i : t[j].kind = "if" /\ \A k \in j .. i : t[k].kind # "end"}
    IN  /\ t[i].kind \in {"text", "var"}
        /\ \A j \in opened :
              Truthy(t[j].name, vars) <=> \A k \in j .. i : t[k].kind # "else"

\* A template whose conditionals do not nest expands to the tokens of the
\* branches that are taken, each placeholder replaced by its value as it is.
\* The order of the variables makes no difference, and nothing in a value is
\* taken for a placeholder or a mark.
ExpandsToValues ==
    (prOrders # {} /\ Flat(prTemplate)) =>
        prOrders = {Joined([i \in DOMAIN prTemplate |->
            IF ~Stays(prTemplate, i, prValues) THEN << >>
            ELSE IF prTemplate[i].kind = "var" /\ prTemplate[i].name \in DOMAIN prValues
            THEN prValues[prTemplate[i].name] ELSE << prTemplate[i] >>])}

\* Whatever the conditionals are, one expansion is what every order gives.
OrderIsNoMatter == Cardinality(prOrders) <= 1

\* The mails and the context stand in the prompt word for word, the glossary
\* exactly when a contract asks for it, and a wave's prompt speaks of Linear
\* nowhere in its scope, environment or mission.
PromptIsComplete ==
    \A i \in DOMAIN prPrompts :
        LET d == prPrompts[i].data
            text == prPrompts[i].text
        IN  /\ \E k \in 0 .. Len(text) : IsPrefix(d.inbox, SubSeq(text, k + 1, Len(text)))
            /\ \E k \in 0 .. Len(text) : IsPrefix(d.context, SubSeq(text, k + 1, Len(text)))
            /\ d.contract <=> Word("glossary") \in ToSet(text)
            /\ d.wave => ToSet(text) \intersect OfLinear = {}
            /\ ~d.wave => ToSet(text) \intersect OfWave = {}

\* What the prompts say of the values they were made from.
PromptsSound == ExpandsToValues /\ OrderIsNoMatter /\ PromptIsComplete
=============================================================================
