-------------------------------- MODULE Triage --------------------------------
(***************************************************************************)
(* What the expedition loop keeps in memory to steer itself: the gradient  *)
(* gauge and its log, retries per set of issues and the pre-flight         *)
(* decision they lead to, the claims of parallel expeditions on issues,    *)
(* and the retry budget with what its exhaustion asks for.                 *)
(***************************************************************************)
EXTENDS Integers, Sequences, FiniteSets, SequencesExt, FiniteSetsExt

CONSTANTS TrMail,       \* D-Mails: [action, issues: a sequence of issue numbers]
          TrExp,        \* expeditions that run in parallel
          TrMaxLevel,   \* maximum of the gauge
          TrMaxRetries, \* retries before escalation
          TrBudget,     \* retry budgets
          TrSteps       \* bound on gauge steps, mails and budget steps

ASSUME TriageAssumption ==
  /\ TrMaxLevel \in Nat /\ TrMaxRetries \in Nat /\ TrSteps \in Nat
  /\ TrBudget \subseteq Int /\ TrBudget # {}
  /\ \A m \in TrMail : m.issues \in Seq(Int)

VARIABLES
  trLevel, trGauge,   \* level of the gauge and its log
  trCount, trDone,    \* retry counts by key; the decisions taken, a sequence
  trClaims, trOwn,    \* claims by issue: {} or the holder; issues each expedition got
  trBudget            \* [initial, consumed] of the budget tracker

trVars == <<trLevel, trGauge, trCount, trDone, trClaims, trOwn, trBudget>>

TrIssue == UNION {ToSet(m.issues) : m \in TrMail}

\* RetryKey: the issues sorted, with repetitions.
InOrderOfMail(issues) == issues
InsertIssue(sorted, issue) ==
  LET k == Max({0} \union {i \in DOMAIN sorted : sorted[i] <= issue})
  IN  SubSeq(sorted, 1, k) \o <<issue>> \o SubSeq(sorted, k + 1, Len(sorted))

RetryKey(issues) == FoldLeft(InsertIssue, <<>>, issues)

TrKeys == {RetryKey(m.issues) : m \in TrMail}

AtLeastZero(n) == IF n < 0 THEN 0 ELSE n

TrInit ==
  /\ trLevel = 0 /\ trGauge = <<>>
  /\ trCount = [k \in TrKeys |-> 0] /\ trDone = <<>>
  /\ trClaims = [i \in TrIssue |-> {}] /\ trOwn = [e \in TrExp |-> {}]
  /\ trBudget = [initial |-> AtLeastZero(CHOOSE n \in TrBudget : TRUE), consumed |-> 0]

\* The four objects share nothing: a step of one leaves the others, and they are
\* explored apart, each with the others as they were at the start.
OthersIdle(part) ==
  /\ part # "gauge"  => trGauge = <<>> /\ UNCHANGED <<trLevel, trGauge>>
  /\ part # "mail"   => trDone = <<>> /\ UNCHANGED <<trCount, trDone>>
  /\ part # "claims" => (\A e \in TrExp : trOwn[e] = {}) /\ UNCHANGED <<trClaims, trOwn>>
  /\ part # "budget" => trBudget.consumed = 0 /\ UNCHANGED trBudget

-----------------------------------------------------------------------------
\* The gauge.

TrLogs(entry) == Len(trGauge) < TrSteps /\ trGauge' = Append(trGauge, entry)

\* Mutant of Charge: the gauge has no top.
ChargeUncapped ==
  /\ TrLogs("+1")
  /\ trLevel' = trLevel + 1
  /\ OthersIdle("gauge")

\* Charge: a success is logged even where the gauge is full.
Charge ==
  /\ TrLogs("+1")
  /\ trLevel' = IF trLevel < TrMaxLevel THEN trLevel + 1 ELSE trLevel
  /\ OthersIdle("gauge")

Discharge == TrLogs("RESET") /\ trLevel' = 0 /\ OthersIdle("gauge")

Decay == trLevel > 0 /\ TrLogs("-1") /\ trLevel' = trLevel - 1 /\ OthersIdle("gauge")

IsGradientAttack == trLevel >= TrMaxLevel

PriorityHint ==
  CASE IsGradientAttack -> "attack"
    [] ~IsGradientAttack /\ trLevel >= 3 -> "high"
    [] ~IsGradientAttack /\ trLevel \in {1, 2} -> "normal"
    [] OTHER -> "empty"

\* statsLocked, from the log.
GaugeStats(entry) == Cardinality({i \in DOMAIN trGauge : trGauge[i] = entry})

-----------------------------------------------------------------------------
\* Retries.

Exhausted(key) == TrMaxRetries > 0 /\ trCount[key] >= TrMaxRetries

DeterminePreFlightDecision(mail, retryCount) ==
  CASE mail.action = "escalate" -> "escalate"
    [] mail.action = "resolve"  -> "resolve"
    [] mail.action = "retry" /\ mail.issues # <<>> ->
         IF retryCount > TrMaxRetries THEN "escalate" ELSE "retry"
    [] OTHER -> "pass"

\* A mail is triaged: Track counts a retry, then the decision is taken.
TriageMail ==
  /\ Len(trDone) < TrSteps
  /\ \E mail \in TrMail :
       LET key == RetryKey(mail.issues)
           n   == trCount[key] + 1
       IN  IF mail.action = "retry" /\ mail.issues # <<>>
           THEN /\ trCount' = [trCount EXCEPT ![key] = n]
                /\ trDone' = Append(trDone, [mail |-> mail, did |-> DeterminePreFlightDecision(mail, n)])
           ELSE /\ UNCHANGED trCount
                /\ trDone' = Append(trDone, [mail |-> mail, did |-> DeterminePreFlightDecision(mail, 0)])
  /\ OthersIdle("mail")

-----------------------------------------------------------------------------
\* Claims.

TryClaim(e) ==
  /\ \E i \in TrIssue :
       IF trClaims[i] \subseteq {e}
       THEN /\ trClaims' = [trClaims EXCEPT ![i] = {e}]
            /\ trOwn' = [trOwn EXCEPT ![e] = @ \union {i}]
       ELSE UNCHANGED <<trClaims, trOwn>>
  /\ OthersIdle("claims")

\* Release frees the issue whoever holds it; an expedition releases its own.
ReleaseClaim(e) ==
  /\ \E i \in trOwn[e] :
       /\ trClaims' = [trClaims EXCEPT ![i] = {}]
       /\ trOwn' = [trOwn EXCEPT ![e] = @ \ {i}]
  /\ OthersIdle("claims")

-----------------------------------------------------------------------------
\* The budget.

ConsumeBudget ==
  /\ trBudget.consumed < trBudget.initial
  /\ trBudget' = [initial |-> trBudget.initial, consumed |-> trBudget.consumed + 1]
  /\ OthersIdle("budget")

ResetBudget ==
  /\ \E n \in TrBudget : trBudget' = [initial |-> AtLeastZero(n), consumed |-> 0]
  /\ OthersIdle("budget")

BudgetRemaining == AtLeastZero(trBudget.initial - trBudget.consumed)

\* EvaluateExhaustion, for the state a snapshot carries.
EvaluateExhaustion(state) ==
  CASE state = "paused" -> "abort" [] state = "waiting" -> "wait" [] OTHER -> "pause"

TrNext ==
  \/ Charge \/ Discharge \/ Decay
  \/ TriageMail
  \/ \E e \in TrExp : TryClaim(e) \/ ReleaseClaim(e)
  \/ ConsumeBudget \/ ResetBudget

TrSpec == TrInit /\ [][TrNext]_trVars

-----------------------------------------------------------------------------

\* Types; the gauge keeps its bounds.
TrTypeOK ==
  /\ trLevel \in 0 .. TrMaxLevel
  /\ trGauge \in Seq({"+1", "-1", "RESET"})
  /\ \A k \in TrKeys : trCount[k] \in 0 .. TrSteps
  /\ \A i \in TrIssue : trClaims[i] \subseteq TrExp
  /\ trBudget.initial \in Nat /\ trBudget.consumed \in Nat

\* The net of the gauge's steps since the last reset.
LastReset == Max({0} \union {i \in DOMAIN trGauge : trGauge[i] = "RESET"})
WithEntry(n, entry) == IF entry = "+1" THEN n + 1 ELSE n - 1
Net(entries) == FoldLeft(WithEntry, 0, entries)
NetCharge == Net(SubSeq(trGauge, LastReset + 1, Len(trGauge)))

\* The log accounts for the level: since the last reset the level is at most the
\* charges less the decays, and exactly that while no charge met a full gauge; a
\* full gauge, and only that, asks for the attack.
GaugeFromLog ==
  /\ trLevel <= NetCharge
  /\ GaugeStats("+1") <= TrMaxLevel => trLevel = NetCharge
  /\ PriorityHint = "attack" <=> trLevel = TrMaxLevel

\* However a mail lists its issues, a set of issues is retried TrMaxRetries times
\* and escalated from then on; the tracker calls it exhausted one retry earlier.
RetriesCapped ==
  \A i \in DOMAIN trDone : LET m == trDone[i].mail IN
    m.action = "retry" /\ m.issues # <<>> =>
      LET same == {j \in 1 .. i : /\ trDone[j].mail.action = "retry"
                                  /\ \A x \in TrIssue :
                                       Cardinality({p \in DOMAIN m.issues : m.issues[p] = x})
                                         = Cardinality({p \in DOMAIN trDone[j].mail.issues :
                                                          trDone[j].mail.issues[p] = x})}
      IN  /\ trDone[i].did = "retry" <=> Cardinality(same) <= TrMaxRetries
          /\ trDone[i].did = "escalate" => Exhausted(RetryKey(m.issues)) \/ TrMaxRetries = 0

\* No two expeditions hold an issue, and the registry knows who holds it.
ClaimsExclusive ==
  /\ \A e, f \in TrExp : e # f => trOwn[e] \intersect trOwn[f] = {}
  /\ \A i \in TrIssue : trClaims[i] = {e \in TrExp : i \in trOwn[e]}

\* A budget is never overdrawn, not even by a reset to a smaller or negative one.
BudgetKept == trBudget.consumed + BudgetRemaining = trBudget.initial

\* What parallel expeditions share of it is shared soundly.
ClaimsSound == ClaimsExclusive /\ BudgetKept

===============================================================================
