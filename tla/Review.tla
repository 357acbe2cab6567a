-------------------------------- MODULE Review --------------------------------
(***************************************************************************)
(* The review gate of a pull request: review outputs are read for priority *)
(* tags, a history of cycles tells stagnation, a strategy rotates with the *)
(* cycle, and the outcome is written into the PR body, which is read and   *)
(* replaced in two calls while others edit it.  A body is a sequence of    *)
(* blocks: plain text, "##" and "###" headings with what follows them.     *)
(***************************************************************************)
EXTENDS Naturals, Sequences, FiniteSets, SequencesExt, FiniteSetsExt

CONSTANTS RvUpdater,   \* processes that update the PR
          RvLine,      \* review lines: [tags: a bag of priorities, keyword: BOOLEAN]
          RvWindow,    \* stall window
          RvLines,     \* bound on the review lines
          RvEdits      \* bound on the edits of others and the updates

ASSUME ReviewAssumption ==
  /\ RvWindow \in Nat \ {0} /\ RvLines \in Nat /\ RvEdits \in Nat
  /\ \A line \in RvLine : line.tags \in Seq(Nat) /\ line.keyword \in BOOLEAN

VARIABLES
  rvOutputs,   \* the output of each review cycle, a sequence of lines
  rvBody,      \* the PR body
  rvSeen,      \* per updater: {} or the body it read
  rvBlocks     \* number of blocks and updates written

rvVars == <<rvOutputs, rvBody, rvSeen, rvBlocks>>

GateKinds == {"gate", "subgate"}

RvInit ==
  /\ rvOutputs = <<>>
  /\ rvBody = <<>>
  /\ rvSeen = [u \in RvUpdater |-> {}]
  /\ rvBlocks = 0

-----------------------------------------------------------------------------
\* Review cycles.

\* ReflectionAccumulator.AddCycle, a line at a time.
AddReviewLine ==
  /\ Len(FlattenSeq(rvOutputs)) < RvLines /\ rvBlocks = 0
  /\ \E line \in RvLine :
       \/ rvOutputs' = Append(rvOutputs, <<line>>)
       \/ rvOutputs # <<>> /\ rvOutputs' = [rvOutputs EXCEPT ![Len(rvOutputs)] = Append(@, line)]
  /\ UNCHANGED <<rvBody, rvSeen, rvBlocks>>

HasReviewComments(output) ==
  \E i \in DOMAIN output : output[i].keyword \/ output[i].tags # <<>>

\* sort.SliceStable by priority: insertion from the left.
InsertComment(sorted, c) ==
  LET k == Max({0} \union {i \in DOMAIN sorted : sorted[i].priority <= c.priority})
  IN  SubSeq(sorted, 1, k) \o <<c>> \o SubSeq(sorted, k + 1, Len(sorted))

\* detectPriority: a line counts with its most urgent tag.
ReadReviewLine(read, line) ==
  LET n == read.lines + 1
  IN  [lines |-> n,
       found |-> IF line.tags = <<>> THEN read.found
                 ELSE InsertComment(read.found, [line |-> n, priority |-> Min(ToSet(line.tags))])]

\* extractReviewComments: without tags the keyword makes the whole output one comment.
ExtractReviewComments(output) ==
  LET tagged == FoldLeft(ReadReviewLine, [lines |-> 0, found |-> <<>>], output).found
  IN  IF tagged = <<>> /\ HasReviewComments(output) THEN <<[line |-> 0, priority |-> 4]>> ELSE tagged

\* CountPriorityTags: every occurrence counts.
CountTags(n, line) == n + Len(line.tags)
CountPriorityTags(output) == FoldLeft(CountTags, 0, output)

RvCounts == [i \in DOMAIN rvOutputs |-> CountPriorityTags(rvOutputs[i])]

\* IsStagnant, on the last two cycles.
IsStagnant ==
  LET n == Len(rvOutputs)
  IN  n >= 2 /\ RvCounts[n - 1] # 0 /\ RvCounts[n] >= RvCounts[n - 1]

\* ReviewCycleHistory.IsStalled: an improvement rate of exactly zero.
IsStalled ==
  LET n == Len(rvOutputs)
  IN  n >= RvWindow /\ (RvCounts[1] = 0 \/ RvCounts[n] = RvCounts[1])

StrategyForCycle(cycle) ==
  <<"direct", "decompose", "rewrite">>[(((IF cycle < 1 THEN 1 ELSE cycle) - 1) % 3) + 1]

-----------------------------------------------------------------------------
\* The PR body.

\* Somebody else adds a block, at the end or before everything.  (The body and
\* the cycles, which share nothing, are explored apart.)
OthersEdit ==
  /\ rvBlocks < RvEdits /\ rvOutputs = <<>>
  /\ rvBlocks' = rvBlocks + 1
  /\ \E kind \in {"section", "sub", "subgate"}, front \in BOOLEAN :
       LET block == <<[kind |-> kind, by |-> rvBlocks]>>
       IN  rvBody' = IF front THEN block \o rvBody ELSE rvBody \o block
  /\ UNCHANGED <<rvOutputs, rvSeen>>

\* UpdatePRReviewGate: gh pr view.
ViewBody(u) ==
  /\ rvSeen[u] = {} /\ rvBlocks < RvEdits /\ rvOutputs = <<>>
  /\ rvSeen' = [rvSeen EXCEPT ![u] = {rvBody}]
  /\ UNCHANGED <<rvOutputs, rvBody, rvBlocks>>

\* AppendReviewGateSection.  The header is sought as a text, so a "###" heading
\* of that name is taken for it; the section reaches to the next "##" heading.
AlwaysAppended(body, section) == Append(body, section)
AppendReviewGateSection(body, section) ==
  LET gates == {i \in DOMAIN body : body[i].kind \in GateKinds}
      at    == Min(gates)
      next  == {j \in DOMAIN body : j > at /\ body[j].kind \in {"gate", "section"}}
  IN  IF gates = {} THEN Append(body, section)
      ELSE SubSeq(body, 1, at - 1) \o <<[kind |-> body[at].kind, by |-> section.by]>>
             \o (IF next = {} THEN <<>> ELSE SubSeq(body, Min(next), Len(body)))

\* gh pr edit replaces the body, or fails or times out.
EditBody(u) ==
  /\ rvBlocks < RvEdits
  /\ \E body \in rvSeen[u] :
       rvBody' = AppendReviewGateSection(body, [kind |-> "gate", by |-> rvBlocks])
  /\ rvBlocks' = rvBlocks + 1
  /\ rvSeen' = [rvSeen EXCEPT ![u] = {}]
  /\ UNCHANGED rvOutputs

UpdateFails(u) ==
  /\ rvSeen[u] # {}
  /\ rvSeen' = [rvSeen EXCEPT ![u] = {}]
  /\ UNCHANGED <<rvOutputs, rvBody, rvBlocks>>

RvNext ==
  \/ AddReviewLine
  \/ OthersEdit
  \/ \E u \in RvUpdater : ViewBody(u) \/ EditBody(u) \/ UpdateFails(u)

RvSpec == RvInit /\ [][RvNext]_rvVars

-----------------------------------------------------------------------------

\* Every variable has its type.
RvTypeOK ==
  /\ \A i \in DOMAIN rvOutputs : rvOutputs[i] \in Seq(RvLine)
  /\ \A i \in DOMAIN rvBody : rvBody[i] \in [kind : GateKinds \union {"section", "sub"}, by : 0 .. RvEdits]
  /\ rvBlocks \in 0 .. RvEdits

\* The body has one gate section however often and by whomever it was updated,
\* as long as nobody else writes one.
OneGate == Cardinality({i \in DOMAIN rvBody : rvBody[i].kind = "gate"}) <= 1

\* What others wrote stays: an update keeps every section of the body it read, and
\* every "###" heading above the gate.  (What is added between the read and the
\* write, or below the gate's heading, is lost.)
OthersKept ==
  [][ \A u \in RvUpdater : rvSeen'[u] = {} /\ rvBody' # rvBody =>
        \A body \in rvSeen[u] : \A i \in DOMAIN body :
          body[i].kind = "section" \/ (\A j \in 1 .. i : body[j].kind \notin GateKinds)
            => \E k \in DOMAIN rvBody' : rvBody'[k] = body[i] ]_rvVars

\* The gate's verdict and the comments agree: comments are reported exactly if
\* the output is said to have some, most urgent first, each line once.
CommentsSound ==
  \A c \in DOMAIN rvOutputs :
    LET output == rvOutputs[c]
        found  == ExtractReviewComments(output)
    IN  /\ HasReviewComments(output) <=> found # <<>>
        /\ \A i, j \in DOMAIN found : i < j =>
             \/ found[i].priority < found[j].priority
             \/ found[i].priority = found[j].priority /\ found[i].line < found[j].line
        /\ CountPriorityTags(output) > 0 => Len(found) <= CountPriorityTags(output)

\* A stalled review has a cycle that removed nothing; one that has just removed
\* every comment is not stagnant, nor stalled if there were any at first; and
\* three cycles in a row try the three strategies.
StagnationSound ==
  LET n == Len(rvOutputs)
  IN  /\ IsStalled /\ n >= 2 => \E i \in 2 .. n : RvCounts[i] >= RvCounts[i - 1]
      /\ n >= 2 /\ RvCounts[n] = 0 /\ RvCounts[1] > 0 => ~IsStagnant /\ ~IsStalled
      /\ Cardinality({StrategyForCycle(i) : i \in n .. n + 2}) = IF n = 0 THEN 2 ELSE 3

\* What is read from a review and written to the pull request.
ReviewSound == OneGate /\ CommentsSound /\ StagnationSound

===============================================================================
