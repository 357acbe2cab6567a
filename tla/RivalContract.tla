--------------------------- MODULE RivalContract ---------------------------
(***************************************************************************)
(* Specifications that are rival contracts                                 *)
(* (harness/policy/rival_contract.go, harness/filter/dmail.go): a producer *)
(* writes a body line by line and sends it with a map of metadata; the     *)
(* prompt of an expedition shows the sections of a complete contract and   *)
(* any other body as it is, and has a glossary when the metadata say so.   *)
(*                                                                         *)
(* A line is [kind, text]: "title" is `# Contract: ...', "top" another     *)
(* heading of level one, "section" `## <text>', "text" prose, "blank" the  *)
(* blank line.  A name or a value that is not there is "none".  Bullets of *)
(* the evidence are read from a section that has been cut out already, and *)
(* explored apart.                                                         *)
(***************************************************************************)
EXTENDS Naturals, Sequences, SequencesExt

CONSTANTS CtRequired,   \* headings a contract must have, in order
          CtShown,      \* headings of these that the prompt shows, in its order
          CtLine,       \* lines a producer may write
          CtLines,      \* bound: lines of a body
          CtSent,       \* bound: lines of a body that is sent
          CtSources,    \* what a contract id may be derived from
          CtMeta,       \* the rest of the metadata
          CtBullet,     \* bullets of the evidence
          CtBullets     \* bound: bullets

ASSUME CtAssumption ==
    /\ CtLines \in Nat /\ CtSent \in Nat /\ CtBullets \in Nat
    /\ \A i \in DOMAIN CtShown : CtShown[i] \in ToSet(CtRequired)
    /\ \A s \in CtSources : s \in [wave : STRING, issues : Seq(Nat), cluster : STRING]
    /\ CtLine \subseteq [kind : STRING, text : STRING]
    /\ \A b \in CtBullet : b.value \in Seq(ToSet(b.value))

VARIABLES ctBody,      \* the body being written
          ctMail,      \* the specifications sent, at most one
          ctEvidence   \* the lines of a section of evidence

ctVars == << ctBody, ctMail, ctEvidence >>

CtInit == ctBody = << >> /\ ctMail = << >> /\ ctEvidence = << >>

-----------------------------------------------------------------------------
(* The body.                                                               *)

Blank(line) == line.kind = "blank"

\* The first line that is not blank must be the title.
ExtractContractTitle(body) ==
    \E i \in DOMAIN body : body[i].kind = "title" /\ \A j \in 1 .. i - 1 : Blank(body[j])

Trimmed(lines) ==
    LET solid == {i \in DOMAIN lines : ~Blank(lines[i])}
    IN  IF solid = {} THEN << >>
        ELSE SubSeq(lines, CHOOSE i \in solid : \A j \in solid : i <= j,
                           CHOOSE i \in solid : \A j \in solid : j <= i)

\* The section that is being read, {} or its heading, is put with the others; it
\* replaces an earlier one of its name.
Flushed(acc) ==
    [h \in DOMAIN acc.out \union acc.current |-> IF h \in acc.current THEN Trimmed(acc.held) ELSE acc.out[h]]

\* A heading ends the section before it; a known one begins its own, an unknown
\* one begins none.
TakeLine(acc, line) ==
    IF line.kind = "section"
    THEN [out |-> Flushed(acc), held |-> << >>, current |-> {line.text} \intersect ToSet(CtRequired)]
    ELSE IF acc.current = {} THEN acc ELSE [acc EXCEPT !.held = Append(@, line)]

SplitRivalSections(body) ==
    Flushed(FoldLeft(TakeLine, [out |-> [h \in {} |-> << >>], held |-> << >>, current |-> {}], body))

\* "legacy": no contract; "partial": a title and too few sections.
ParseRivalContractBody(body) ==
    LET sections == SplitRivalSections(body)
    IN  IF ~ExtractContractTitle(body) THEN [as |-> "legacy", sections |-> << >>]
        ELSE IF ToSet(CtRequired) \subseteq DOMAIN sections
             THEN [as |-> "contract", sections |-> sections]
             ELSE [as |-> "partial", sections |-> << >>]

\* A line that occurred before goes, blank ones stay.
DedupeLine(out, line) == IF ~Blank(line) /\ line \in ToSet(out) THEN out ELSE Append(out, line)
DedupeLines(lines) == FoldLeft(DedupeLine, << >>, lines)

FormatRivalContractForPrompt(sections) ==
    [i \in DOMAIN CtShown |->
        [heading |-> CtShown[i],
         lines |-> IF CtShown[i] = "Boundaries" THEN Trimmed(DedupeLines(sections[CtShown[i]]))
                   ELSE sections[CtShown[i]]]]

\* A section of the contract, or the whole body under the mail's name.
FormatDMailForPrompt(mail) ==
    LET parsed == ParseRivalContractBody(mail.body)
    IN  IF mail.kind = "specification" /\ parsed.as = "contract"
        THEN FormatRivalContractForPrompt(parsed.sections)
        ELSE << [heading |-> "mail", lines |-> mail.body] >>

-----------------------------------------------------------------------------
(* The metadata.                                                           *)

SortIssues(issues) == SetToSortSeq(issues, <)

\* A wave's id, else the sorted issues, else the cluster's name.
DeriveContractID(source) ==
    IF source.wave # "none" THEN [ok |-> TRUE, name |-> source.wave, issues |-> << >>]
    ELSE IF source.issues # << >>
         THEN [ok |-> TRUE, name |-> "none", issues |-> SortIssues(ToSet(source.issues))]
    ELSE [ok |-> source.cluster # "none", name |-> source.cluster, issues |-> << >>]

IsDMailName(id) == id.name = "spec-x_0123abcd"

\* "legacy", "invalid" or "contract".
ParseRivalContractMetadata(meta) ==
    IF meta.schema = "none" THEN "legacy"
    ELSE IF /\ meta.schema = "rival-contract-v1"
            /\ meta.id.ok /\ ~IsDMailName(meta.id)
            /\ meta.revision > 0
            /\ meta.style \in {"none", "event-sourced", "generic", "mixed"}
    THEN "contract" ELSE "invalid"

\* The body is not looked at.
HasEventSourcedContract(mails) ==
    \E i \in DOMAIN mails :
        /\ mails[i].kind = "specification"
        /\ ParseRivalContractMetadata(mails[i].meta) = "contract"
        /\ mails[i].meta.style = "event-sourced"

-----------------------------------------------------------------------------
(* The evidence.                                                           *)

\* Mutant of Operators: the short operators are tried first.
ShortOperatorsFirst == << << "<" >>, << ">" >>, << "=" >>, << "<", "=" >>, << ">", "=" >>, << "=", "=" >> >>

Operators == << << "<", "=" >>, << ">", "=" >>, << "=", "=" >>, << "<" >>, << ">" >>, << "=" >> >>

\* The first operator of the list that the value begins with.
SplitOperator(value) ==
    LET fits == {i \in DOMAIN Operators : IsPrefix(Operators[i], value)}
        op == IF fits = {} THEN << >> ELSE Operators[CHOOSE i \in fits : \A j \in fits : i <= j]
    IN  [operator |-> op, value |-> SubSeq(value, Len(op) + 1, Len(value))]

KeepItem(items, b) ==
    IF b.dash /\ b.key \in {"check", "test", "nfr.error_rate_percent"}
    THEN Append(items, [key |-> b.key, is |-> SplitOperator(b.value)])
    ELSE items
ParseEvidenceItems(lines) == FoldLeft(KeepItem, << >>, lines)

-----------------------------------------------------------------------------
WriteContractLine ==
    /\ ctMail = << >> /\ ctEvidence = << >>
    /\ Len(ctBody) < CtLines
    /\ \E line \in CtLine : ctBody' = Append(ctBody, line)
    /\ UNCHANGED << ctMail, ctEvidence >>

SendSpecification ==
    /\ ctMail = << >> /\ ctEvidence = << >>
    /\ Len(ctBody) <= CtSent
    /\ \E kind \in {"specification", "report"}, source \in CtSources, m \in CtMeta :
         ctMail' = << [kind |-> kind, body |-> ctBody, source |-> source,
                       meta |-> [schema |-> m.schema, revision |-> m.revision, style |-> m.style,
                                 id |-> DeriveContractID(source)]] >>
    /\ UNCHANGED << ctBody, ctEvidence >>

ReadBullet ==
    /\ ctMail = << >> /\ ctBody = << >>
    /\ Len(ctEvidence) < CtBullets
    /\ \E b \in CtBullet : ctEvidence' = Append(ctEvidence, b)
    /\ UNCHANGED << ctBody, ctMail >>

CtNext == WriteContractLine \/ SendSpecification \/ ReadBullet

CtSpec == CtInit /\ [][CtNext]_ctVars

-----------------------------------------------------------------------------
\* Every variable has its type.
CtTypeOK ==
    /\ ctBody \in Seq(CtLine) /\ Len(ctBody) <= CtLines
    /\ ctEvidence \in Seq(CtBullet) /\ Len(ctEvidence) <= CtBullets
    /\ Len(ctMail) <= 1

\* The heading a line stands under is the last one above it; of two sections
\* of one name only the second counts.
Under(body, i, h) ==
    \E j \in 1 .. i - 1 :
        /\ body[j].kind = "section" /\ body[j].text = h
        /\ \A k \in j + 1 .. Len(body) : body[k].kind = "section" => k > i /\ body[k].text # h

\* Every line of prose of a complete contract that stands under a heading the
\* prompt shows is in the prompt, in that section and no other, unless its
\* section was written a second time.
SectionsAreComplete ==
    LET parsed == ParseRivalContractBody(ctBody)
        shown == FormatRivalContractForPrompt(parsed.sections)
        written(h) == {ctBody[i] : i \in {j \in DOMAIN ctBody : ctBody[j].kind # "section" /\ Under(ctBody, j, h)}}
        solid(lines) == {line \in lines : ~Blank(line)}
    IN  parsed.as = "contract" =>
            \A i \in DOMAIN shown : solid(ToSet(shown[i].lines)) = solid(written(shown[i].heading))

\* The prompt has no boundary twice.
BoundariesOnce ==
    LET parsed == ParseRivalContractBody(ctBody)
        shown == FormatRivalContractForPrompt(parsed.sections)
    IN  parsed.as = "contract" =>
            \A i \in DOMAIN shown : shown[i].heading = "Boundaries" =>
                \A a, b \in DOMAIN shown[i].lines :
                    shown[i].lines[a] = shown[i].lines[b] => a = b \/ Blank(shown[i].lines[a])

\* A mail that is no complete contract is shown as it came: nothing a producer
\* got wrong makes a line disappear.
OthersShownWhole ==
    \A i \in DOMAIN ctMail :
        LET shown == FormatDMailForPrompt(ctMail[i])
        IN  \/ shown = << [heading |-> "mail", lines |-> ctMail[i].body] >>
            \/ /\ ctMail[i].kind = "specification"
               /\ ExtractContractTitle(ctMail[i].body)
               /\ \A h \in ToSet(CtRequired) : \E j \in DOMAIN ctMail[i].body :
                        ctMail[i].body[j] = [kind |-> "section", text |-> h]

\* An id that could be derived is accepted on the other side unless it has the
\* shape of a mail's name; and the order of the issues does not matter.
IdsAreAccepted ==
    \A i \in DOMAIN ctMail :
        LET meta == ctMail[i].meta
        IN  /\ (/\ meta.id.ok /\ ~IsDMailName(meta.id) /\ meta.schema = "rival-contract-v1"
                /\ meta.revision > 0 /\ meta.style \in {"none", "generic", "event-sourced"})
               => ParseRivalContractMetadata(meta) = "contract"
            /\ meta.id = DeriveContractID([ctMail[i].source EXCEPT !.issues = Reverse(@)])
            /\ HasEventSourcedContract(ctMail) => meta.id.ok

\* Evidence keeps its order, drops only what it does not know, and splits off
\* the longest operator: what is compared with never begins with "=" unless
\* the operator is complete.
EvidenceSplit ==
    LET items == ParseEvidenceItems(ctEvidence)
    IN  /\ Len(items) <= Len(ctEvidence)
        /\ \A i \in DOMAIN items :
              items[i].is.operator \in {<< "<" >>, << ">" >>, << "=" >>}
              /\ items[i].is.value # << >> => Head(items[i].is.value) # "="

\* What the parser, the prompt and the emitters make of a contract.
ContractSound ==
    SectionsAreComplete /\ BoundariesOnce /\ OthersShownWhole /\ IdsAreAccepted /\ EvidenceSplit
=============================================================================
