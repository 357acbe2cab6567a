----------------------------- MODULE MCLibrary -----------------------------
(* Values and bounds for checking Library. *)
EXTENDS Library

\* Reserve: the primary model and two reserves.
MCModels == << "opus", "sonnet", "haiku" >>

\* Waves: a specification without steps, which its projection skips, and one
\* with two.
MCSteps == {<< >>, << "a", "b" >>}

\* SessionStream: a raw line of runes of one, four and two bytes.
MCRaw == {<< 1, 4, 2 >>}

\* Recovery: a reason of one class, and one that mentions two.
MCReason == {{"timeout"}, {"timeout", "rate_limit"}}

\* Review: no tag, a keyword alone, tags in the wrong order, a tag with one.
MCReviewLine ==
    {[tags |-> << >>, keyword |-> TRUE], [tags |-> << >>, keyword |-> FALSE],
     [tags |-> << 2, 1 >>, keyword |-> FALSE], [tags |-> << 2 >>, keyword |-> TRUE]}

\* Triage: the same two issues in either order, one issue, none, an escalation.
MCTriageMail ==
    {[action |-> "retry", issues |-> i] : i \in {<< 1, 2 >>, << 2, 1 >>, << 1 >>, << >>}}
    \union {[action |-> "escalate", issues |-> << 1 >>]}

MCCorrection == {[title |-> << "m1" >>, tail |-> "heading"]}
MCJournal ==
    {[status |-> "failed", key |-> "x", alert |-> ""], [status |-> "success", key |-> "y", alert |-> "a"],
     [status |-> "failed", key |-> "y", alert |-> ""]}

MCTexts == << "a", "x", "y" >>

\* Corrections: metadata of other tools, with capitals, both arrows, counts
\* that are no numbers or negative, and without a correction.
MCMeta ==
    {("severity" :> << "^", "high" >>) @@ ("routing_history" :> << "a", ",", "b" >>)
        @@ ("recurrence_count" :> << "x" >>) @@ ("target_agent" :> << "p" >>),
     ("provider_state" :> << "^", "paused" >>) @@ ("outcome" :> << "^", "failed_again" >>)
        @@ ("failure_type" :> << "f" >>),
     ("routing_history" :> << "a", ",", "b", ">", "b", ">", "b" >>) @@ ("recurrence_count" :> << "#", 2 >>),
     ("routing_history" :> << ">", "a", "c", ",", ",", ",", ">" >>)
        @@ ("recurrence_count" :> << "#", -1 >>) @@ ("outcome" :> << "z" >>),
     ("provider_state" :> << "active" >>) @@ ("provider_retry_budget" :> << "#", 3 >>)}
MCTool == {<< "a" >>, << "b" >>}

\* Doctor: tools and skills of a context that is small, of every kind, large;
\* scopes that contain one another's names.
MCSizes == {<< 0, 0, 0, 0 >>, << 2, 1, 0, 1 >>, << 0, 0, 3, 2 >>}
MCScopes == {{"repo", "read:project"}, {"public_repo", "read:project"}, {"project", "repo"}}

\* RivalContract: two of the six headings, one of which the prompt shows.
MCRequired == << "Domain", "Boundaries" >>
MCShown == << "Boundaries" >>
Of(k, t) == [kind |-> k, text |-> t]
MCContractLine ==
    {Of("title", "t"), Of("section", "Domain"), Of("section", "Boundaries"), Of("section", "Notes"),
     Of("blank", ""), Of("text", "a")}
MCSources ==
    {[wave |-> w, issues |-> i, cluster |-> c] :
        w \in {"none", "w", "spec-x_0123abcd"}, i \in {<< >>, << 2, 1, 2 >>}, c \in {"none", "c"}}
MCContractMeta ==
    {[schema |-> "none", revision |-> 1, style |-> "none"],
     [schema |-> "rival-contract-v1", revision |-> 0, style |-> "none"],
     [schema |-> "rival-contract-v1", revision |-> 2, style |-> "event-sourced"],
     [schema |-> "rival-contract-v1", revision |-> 2, style |-> "other"]}
Bullet(k, v) == [dash |-> TRUE, key |-> k, value |-> v]
MCBullet ==
    {Bullet("test", << "<", "=", "5" >>), Bullet("test", << "=", "5" >>), Bullet("prose", << "<", "5" >>),
     Bullet("check", << "go" >>), [dash |-> FALSE, key |-> "check", value |-> << "go" >>]}

\* Approval: a yes, a no, and a no with a y in it.
MCTypedLine == {<< "y" >>, << "n", "o" >>, << "m", "y" >>}

\* Prompts: a text, placeholders of a variable and of none, and the marks;
\* values that look like placeholders and marks.
Mark(kind, name) == [kind |-> kind, name |-> name]
MCToken ==
    {Word("a"), Var("k"), Var("x"), Mark("if", "k"), Mark("if", "j"), Mark("else", ""), Mark("end", "")}
MCValue ==
    {[k |-> << Var("j") >>, j |-> << Word("v") >>], [k |-> << >>, j |-> << Var("k") >>],
     [k |-> << Word("false") >>, j |-> << >>]}
MCData ==
    {[wave |-> w, team |-> t, contract |-> c, lumina |-> << >>, context |-> x, inbox |-> i] :
        w \in BOOLEAN, t \in {"none", "T"}, c \in BOOLEAN, x \in {<< >>, << Var("inbox_section") >>},
        i \in {<< >>, << Var("mission_section"), Mark("end", "") >>}}
=============================================================================
