------------------------------ MODULE Statistics ------------------------------
(***************************************************************************)
(* What is computed from what was recorded: the success rate and its       *)
(* trend, durations and percentiles, the sequential probability ratio test *)
(* and the order of issues.  The records grow one at a time; an event's    *)
(* time is its position.  Rates are compared as fractions; logarithms are  *)
(* integers in some unit.                                                  *)
(***************************************************************************)
EXTENDS Integers, Sequences, FiniteSets, SequencesExt, FiniteSetsExt

CONSTANTS StExp,            \* expedition numbers
          StWindow,         \* window sizes
          StGain, StLoss,   \* log(P1/P0) and -log((1-P1)/(1-P0))
          StUpper, StLower, \* log((1-beta)/alpha) and -log(beta/(1-alpha))
          StRecords         \* bound on the records

ASSUME StatisticsAssumption ==
  /\ StWindow \subseteq Nat \ {0} /\ StRecords \in Nat
  /\ {StGain, StLoss, StUpper, StLower} \subseteq Nat \ {0}

VARIABLES
  stLog,     \* expedition events
  stIssues   \* priorities of the issues, in the order of the query

stVars == <<stLog, stIssues>>

StInit == stLog = <<>> /\ stIssues = <<>>

RecordExpedition ==
  /\ Len(stLog) < StRecords /\ stIssues = <<>>
  /\ \E exp \in StExp, status \in {"started", "success", "failed", "skipped"} :
       stLog' = Append(stLog, [exp |-> exp, status |-> status])
  /\ UNCHANGED stIssues

ListIssue ==
  /\ Len(stIssues) < StRecords /\ stLog = <<>>
  /\ \E priority \in 0 .. 2 : stIssues' = Append(stIssues, priority)
  /\ UNCHANGED stLog

StNext == RecordExpedition \/ ListIssue

StSpec == StInit /\ [][StNext]_stVars

-----------------------------------------------------------------------------
\* Rates and trend.

\* The events that count: completed expeditions that succeeded or failed.
Keep(kept, e) == IF e.status \in {"success", "failed"} THEN Append(kept, e) ELSE kept
Relevant == FoldLeft(Keep, <<>>, stLog)

\* How many of them succeeded.
Wins(events) == Cardinality({i \in DOMAIN events : events[i].status = "success"})

\* The window: the last n of them.
LastOfLog(events, n) == SubSeq(events, Len(events) - n + 1, Len(events))

\* WindowedSuccessRate, as a fraction.
WindowedSuccessRate(size) ==
  LET rs == IF Len(Relevant) > size THEN LastOfLog(Relevant, size) ELSE Relevant
  IN  <<Wins(rs), Len(rs)>>

\* Mutant of DetectSuccessRateTrend: the windows are swapped.
TrendBackwards(size) ==
  LET diff == Wins(SubSeq(Relevant, 1, size)) - Wins(LastOfLog(Relevant, size))
  IN  IF Len(Relevant) < 2 * size THEN "stable"
      ELSE IF 10 * diff > size THEN "improving"
      ELSE IF 10 * diff < -size THEN "declining" ELSE "stable"

\* DetectSuccessRateTrend: the last window against the FIRST; more than a
\* tenth is a change.
DetectSuccessRateTrend(size) ==
  LET diff == Wins(LastOfLog(Relevant, size)) - Wins(SubSeq(Relevant, 1, size))
  IN  IF Len(Relevant) < 2 * size THEN "stable"
      ELSE IF 10 * diff > size THEN "improving"
      ELSE IF 10 * diff < -size THEN "declining" ELSE "stable"

\* ExpeditionDurations: from the expedition's LAST start to each completion.
Starts(exp) == {i \in DOMAIN stLog : stLog[i] = [exp |-> exp, status |-> "started"]}

AddDuration(durations, i) ==
  IF stLog[i].status \in {"success", "failed"} /\ Starts(stLog[i].exp) # {}
  THEN Append(durations, [at |-> i, took |-> i - Max(Starts(stLog[i].exp))])
  ELSE durations

ExpeditionDurations == FoldLeft(AddDuration, <<>>, [i \in DOMAIN stLog |-> i])

\* DurationPercentiles: a copy is sorted.
InsertDuration(sorted, d) ==
  LET k == Max({0} \union {i \in DOMAIN sorted : sorted[i] <= d.took})
  IN  SubSeq(sorted, 1, k) \o <<d.took>> \o SubSeq(sorted, k + 1, Len(sorted))

SortedDurations == FoldLeft(InsertDuration, <<>>, ExpeditionDurations)

Percentile(sorted, pct) == sorted[1 + ((Len(sorted) - 1) * pct) \div 100]

\* SPRT: the test ends at the first result that carries it over a bound.
TakeResult(acc, r) ==
  IF acc.verdict # "inconclusive" THEN acc
  ELSE LET l == acc.lambda + (IF r.status = "success" THEN StGain ELSE -StLoss)
       IN  [lambda |-> l, used |-> acc.used + 1,
            verdict |-> IF l >= StUpper THEN "pass"
                        ELSE IF l <= -StLower THEN "fail" ELSE "inconclusive"]

SPRT(results) == FoldLeft(TakeResult, [lambda |-> 0, used |-> 0, verdict |-> "inconclusive"], results)

-----------------------------------------------------------------------------
\* Orders.

\* SortByPriority: ascending, 0 is unset and last; sort.SliceStable on a short
\* slice is insertion from the left.
ComesFirst(a, b) == a.priority # 0 /\ (b.priority = 0 \/ a.priority < b.priority)

InsertByPriority(sorted, x) ==
  LET k == Max({0} \union {i \in DOMAIN sorted : ~ComesFirst(x, sorted[i])})
  IN  SubSeq(sorted, 1, k) \o <<x>> \o SubSeq(sorted, k + 1, Len(sorted))

SortByPriority ==
  FoldLeft(InsertByPriority, <<>>, [i \in DOMAIN stIssues |-> [id |-> i, priority |-> stIssues[i]]])

-----------------------------------------------------------------------------

\* Every variable has its type.
StTypeOK ==
  /\ stLog \in Seq([exp : StExp, status : {"started", "success", "failed", "skipped"}])
  /\ stIssues \in Seq(0 .. 2)

\* The verdict on the trend is neither turned round nor blind: when the last
\* window was all successes it is not "declining", all failures not "improving",
\* and with exactly two windows it compares each with the one before.
TrendSound ==
  \A size \in StWindow : Len(Relevant) >= size =>
    LET recent == WindowedSuccessRate(size)[1]
        trend  == DetectSuccessRateTrend(size)
    IN  /\ recent = size => trend # "declining"
        /\ recent = 0 => trend # "improving"
        /\ Len(Relevant) = 2 * size /\ size < 10 =>
             (trend = "improving" <=> recent > Wins(SubSeq(Relevant, 1, size)))

\* An expedition took a positive time, unless it was started again after it
\* completed: its last start is the one that counts, and the time is negative.
DurationsSound ==
  \A d \in ToSet(ExpeditionDurations) :
    d.took <= 0 <=> \E j \in Starts(stLog[d.at].exp) : j > d.at

\* The percentiles are durations that occurred, in their order, and half of the
\* durations are at most the median.
PercentilesSound ==
  LET sorted == SortedDurations
      p(pct) == Percentile(sorted, pct)
  IN  sorted # <<>> =>
        /\ p(50) <= p(90) /\ p(90) <= p(99)
        /\ {p(50), p(90), p(99)} \subseteq {d.took : d \in ToSet(ExpeditionDurations)}
        /\ 2 * Cardinality({i \in DOMAIN sorted : sorted[i] <= p(50)}) >= Len(sorted)

\* The test's verdict is the one at the first time that a prefix crosses a bound,
\* so results that come later never change it.
SPRTSound ==
  \A n \in 0 .. Len(Relevant) :
    LET early == SPRT(SubSeq(Relevant, 1, n))
        wins  == Wins(SubSeq(Relevant, 1, early.used))
    IN  /\ early.verdict # "inconclusive" => SPRT(Relevant) = early
        /\ early.lambda = StGain * wins - StLoss * (early.used - wins)
        /\ early.verdict = "inconclusive" <=> early.lambda \in 1 - StLower .. StUpper - 1

\* Issues come by ascending priority, unset ones last, equals in the order of
\* the query, and none is lost.
IssueOrder ==
  LET sorted == SortByPriority
      rank(x) == IF x.priority = 0 THEN 5 ELSE x.priority
  IN  /\ {sorted[i].id : i \in DOMAIN sorted} = DOMAIN stIssues
      /\ Len(sorted) = Len(stIssues)
      /\ \A i, j \in DOMAIN sorted : i < j =>
           \/ rank(sorted[i]) < rank(sorted[j])
           \/ rank(sorted[i]) = rank(sorted[j]) /\ sorted[i].id < sorted[j].id

\* What the statistics say agrees with the log.
StatisticsSound == TrendSound /\ DurationsSound /\ PercentilesSound /\ SPRTSound /\ IssueOrder

===============================================================================
