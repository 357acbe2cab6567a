------------------------------- MODULE Recovery -------------------------------
(***************************************************************************)
(* The expedition aggregate behind its emitter: every call changes the     *)
(* counters of the streak in memory and appends an event, in this order,   *)
(* so an append that fails leaves the counters ahead of the log.  From the *)
(* log and the journals the streak is classified, a recovery is decided,   *)
(* and after a crash the unfinished expeditions are found.                 *)
(***************************************************************************)
EXTENDS Naturals, Sequences, FiniteSets, SequencesExt, FiniteSetsExt

CONSTANTS RcExp,        \* expedition numbers
          RcReason,     \* failure reasons: each the set of classes whose keyword it contains
          RcThreshold,  \* consecutive failures that escalate
          RcWindow,     \* journals that recentFailureReasons reads
          RcEvents      \* bound on the events appended


VARIABLES
  rcStreak,    \* consecutiveFailures
  rcFired,     \* escalationFired
  rcAttempts,  \* recoveryAttempts
  rcLog,       \* the event log: lines, whole or torn
  rcLost       \* history: an append failed or the process restarted

rcVars == <<rcStreak, rcFired, rcAttempts, rcLog, rcLost>>

RcClass == {"timeout", "rate_limit", "parse_error", "blocker"}

ASSUME RecoveryAssumption ==
  /\ RcThreshold \in Nat \ {0} /\ RcWindow \in Nat /\ RcEvents \in Nat
  /\ RcReason \subseteq SUBSET RcClass

Transient == {"timeout", "rate_limit", "parse_error"}

MaxRecoveryAttempts == 2

RcInit == rcStreak = 0 /\ rcFired = FALSE /\ rcAttempts = 0 /\ rcLog = <<>> /\ rcLost = FALSE

\* One of the Emit methods: the event is appended, or the append fails before
\* it wrote anything, or half-way.  One fault, of an append or a crash, is modelled.
EmitRecorded(event) ==
  /\ Len(rcLog) < RcEvents
  /\ \/ rcLog' = Append(rcLog, event) /\ UNCHANGED rcLost
     \/ ~rcLost /\ rcLost' = TRUE /\ rcLog' \in {rcLog, Append(rcLog, [type |-> "torn"])}

\* CompleteExpedition: the counters change before the event is stored.
CompleteExpedition(exp, status, reason) ==
  /\ rcStreak' = CASE status = "success" -> 0
                   [] status \in {"failed", "parse_error"} -> rcStreak + 1
                   [] OTHER -> rcStreak
  /\ rcFired' = (rcFired /\ status # "success")
  /\ EmitRecorded([type |-> "completed", exp |-> exp, status |-> status, reason |-> reason])
  /\ UNCHANGED rcAttempts

RecordCheckpoint(exp, commits) ==
  /\ EmitRecorded([type |-> "checkpoint", exp |-> exp, commits |-> commits])
  /\ UNCHANGED <<rcStreak, rcFired, rcAttempts>>

\* ShouldEscalate, and the escalation that the caller then records.
EscalateEachTime ==
  /\ rcStreak >= RcThreshold
  /\ rcFired' = TRUE
  /\ EmitRecorded([type |-> "escalated"])
  /\ UNCHANGED <<rcStreak, rcAttempts>>
ShouldEscalate ==
  /\ rcStreak >= RcThreshold
  /\ ~rcFired
  /\ rcFired' = TRUE
  /\ EmitRecorded([type |-> "escalated"])
  /\ UNCHANGED <<rcStreak, rcAttempts>>

RcPositions(types) == {i \in DOMAIN rcLog : rcLog[i].type \in types}

\* recentFailureReasons: the failures, by their place in the log, among the last
\* journals; a journal is written for every completed expedition.
RecentFailures ==
  LET journals == RcPositions({"completed"})
  IN  {i \in journals : /\ Cardinality({j \in journals : j >= i}) <= RcWindow
                        /\ rcLog[i].status \in {"failed", "parse_error"}}

\* ClassifyGommage.  A reason counts for one of the classes it mentions, the
\* one that the map's iteration comes to first; the majority is strict.
Votes(failures) ==
  {v \in [failures -> RcClass \union {"none"}] :
     \A i \in failures : IF rcLog[i].reason = {} THEN v[i] = "none" ELSE v[i] \in rcLog[i].reason}

Won(v, failures) ==
  {c \in RcClass : Cardinality({i \in failures : v[i] = c}) > Cardinality(failures) \div 2}

ClassifyGommage(failures) ==
  UNION {IF Won(v, failures) = {} THEN {"systematic"} ELSE Won(v, failures) : v \in Votes(failures)}

CooldownForClass(class, retryNum) ==
  LET base == [timeout |-> <<30, 90>>, rate_limit |-> <<60, 180>>, parse_error |-> <<5, 15>>]
  IN  IF class \notin Transient THEN 0
      ELSE IF retryNum <= 1 THEN base[class][1] ELSE base[class][2]

\* DecideRecovery and the gommage.recovery event of the decision.
DecideRecovery ==
  \E class \in ClassifyGommage(RecentFailures) :
    LET retry == class \in Transient /\ rcAttempts < MaxRecoveryAttempts
    IN  /\ rcAttempts' = IF retry THEN rcAttempts + 1 ELSE rcAttempts
        /\ EmitRecorded([type |-> "recovery", class |-> class, retry |-> retry,
                         num |-> IF retry THEN rcAttempts + 1 ELSE 0,
                         cooldown |-> IF retry THEN CooldownForClass(class, rcAttempts + 1) ELSE 0])
        /\ UNCHANGED <<rcStreak, rcFired>>

\* ResetRecovery, when the streak is over.
ResetRecovery ==
  /\ rcStreak = 0
  /\ rcAttempts' = 0
  /\ UNCHANGED <<rcStreak, rcFired, rcLog, rcLost>>

\* A new process: the aggregate starts from nothing, the log stays.
AggregateRestarts ==
  /\ ~rcLost /\ rcLost' = TRUE
  /\ rcStreak' = 0 /\ rcFired' = FALSE /\ rcAttempts' = 0
  /\ UNCHANGED rcLog

RcNext ==
  \/ \E exp \in RcExp, reason \in RcReason : CompleteExpedition(exp, "failed", reason)
  \/ \E exp \in RcExp : CompleteExpedition(exp, "parse_error", {"parse_error"})
  \/ \E exp \in RcExp, status \in {"success", "skipped"} : CompleteExpedition(exp, status, {})
  \/ \E exp \in RcExp, commits \in 0 .. 1 : RecordCheckpoint(exp, commits)
  \/ ShouldEscalate
  \/ DecideRecovery
  \/ ResetRecovery
  \/ AggregateRestarts

RcSpec == RcInit /\ [][RcNext]_rcVars

\* FindIncompleteCheckpoints: one pass, lines that do not parse are skipped, a
\* later checkpoint of an expedition replaces the earlier.
ScanLine(seen, e) ==
  CASE e.type = "checkpoint" -> [at |-> {c \in seen.at : c.exp # e.exp} \union {e},
                                 completed |-> seen.completed]
    [] e.type = "completed"  -> [at |-> seen.at, completed |-> seen.completed \union {e.exp}]
    [] OTHER                 -> seen

Scan(log) == FoldLeft(ScanLine, [at |-> {}, completed |-> {}], log)

FindIncompleteCheckpoints == {c \in Scan(rcLog).at : c.exp \notin Scan(rcLog).completed}

-----------------------------------------------------------------------------

\* Every variable has its type.
RcTypeOK ==
  /\ rcStreak \in 0 .. RcEvents + 1
  /\ rcFired \in BOOLEAN /\ rcLost \in BOOLEAN
  /\ rcAttempts \in 0 .. MaxRecoveryAttempts
  /\ \A i \in DOMAIN rcLog :
       rcLog[i].type \in {"completed", "checkpoint", "escalated", "recovery", "torn"}

Successes == {i \in RcPositions({"completed"}) : rcLog[i].status = "success"}
Failures  == {i \in RcPositions({"completed"}) : rcLog[i].status \in {"failed", "parse_error"}}

\* While no append failed and no process restarted, the streak in memory is the
\* failures in the log since the last success.
StreakFromLog ==
  ~rcLost => rcStreak = Cardinality({i \in Failures : \A s \in Successes : s < i})

\* One streak escalates once, after RcThreshold failures.
EscalatesOnce ==
  ~rcLost => \A i \in RcPositions({"escalated"}) :
    LET start == Max({0} \union {s \in Successes : s < i})
    IN  /\ Cardinality({f \in Failures : start < f /\ f < i}) >= RcThreshold
        /\ \A j \in RcPositions({"escalated"}) : start < j => i <= j

\* A retry is decided for a class that most of the recent reasons mention, it is
\* never the third, and the second waits longer than the first of its class.
RecoveryBounded ==
  /\ \A i \in RcPositions({"recovery"}) : LET d == rcLog[i] IN
       d.retry => d.class \in Transient /\ d.num \in 1 .. MaxRecoveryAttempts
  /\ \A i, j \in RcPositions({"recovery"}) :
       /\ rcLog[i].retry /\ rcLog[j].retry /\ rcLog[i].class = rcLog[j].class
       /\ rcLog[i].num < rcLog[j].num
       => rcLog[i].cooldown < rcLog[j].cooldown
  /\ \A class \in ClassifyGommage(RecentFailures) \ {"systematic"} :
       2 * Cardinality({i \in RecentFailures : class \in rcLog[i].reason}) > Cardinality(RecentFailures)

\* Where every reason mentions at most one class the order in which the map is
\* iterated does not matter.
ClassIsDetermined ==
  (\A i \in RecentFailures : Cardinality(rcLog[i].reason) <= 1)
    => Cardinality(ClassifyGommage(RecentFailures)) = 1

\* The last whole checkpoint of an expedition, if no completion of it follows:
\* the comment of FindIncompleteCheckpoints asks for these.
Unfinished ==
  {k \in RcPositions({"checkpoint"}) :
     \A j \in RcPositions({"checkpoint", "completed"}) : rcLog[j].exp = rcLog[k].exp => j <= k}

\* The number of checkpoint k had been completed when it was given out again.
Reused(k) == \E j \in RcPositions({"completed"}) : j < k /\ rcLog[j].exp = rcLog[k].exp

\* The expeditions found unfinished are those of the comment ("no subsequent
\* expedition.completed event"), each as its last whole checkpoint says, but for
\* those whose number was used before: an earlier completion hides these.
ResumesTheUnfinished ==
  FindIncompleteCheckpoints = {rcLog[k] : k \in {u \in Unfinished : ~Reused(u)}}

\* What the aggregate decides agrees with its log.
RecoverySound ==
  StreakFromLog /\ EscalatesOnce /\ RecoveryBounded /\ ClassIsDetermined /\ ResumesTheUnfinished

===============================================================================
