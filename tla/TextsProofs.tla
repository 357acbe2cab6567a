------------------------------ MODULE TextsProofs ------------------------------
(***************************************************************************)
(* Theorems, for any constants, about what is computed from a log, a list  *)
(* of mails or a text: the claims, the gauge and the retries, the          *)
(* statistics, the luminas, the doctor's reports.                          *)
(***************************************************************************)
EXTENDS RecordsProofs, Statistics, Triage, Doctor

(***************************************************************************)
(* What parallel expeditions share: the claims of issues and the budget.   *)
(***************************************************************************)

ClaimsInv ==
  /\ trClaims \in [TrIssue -> SUBSET TrExp]
  /\ trOwn \in [TrExp -> SUBSET TrIssue]
  /\ ClaimsExclusive
  /\ trBudget \in [initial : Nat, consumed : Nat]
  /\ trBudget.consumed <= trBudget.initial

LEMMA BudgetsAreNaturals == \A n \in TrBudget : AtLeastZero(n) \in Nat
  BY TriageAssumption DEF AtLeastZero

LEMMA ClaimsInitially == TrInit => ClaimsInv
<1> SUFFICES ASSUME TrInit PROVE ClaimsInv
  OBVIOUS
<1>1. AtLeastZero(CHOOSE n \in TrBudget : TRUE) \in Nat
  BY BudgetsAreNaturals, TriageAssumption
<1> QED
  BY <1>1 DEF TrInit, ClaimsInv, ClaimsExclusive

LEMMA ClaimKeeps ==
  ASSUME ClaimsInv, NEW e \in TrExp, NEW i \in TrIssue, trClaims[i] \subseteq {e},
         trClaims' = [trClaims EXCEPT ![i] = {e}],
         trOwn' = [trOwn EXCEPT ![e] = @ \union {i}],
         UNCHANGED trBudget
  PROVE  ClaimsInv'
<1>1. trClaims' \in [TrIssue -> SUBSET TrExp] /\ trOwn' \in [TrExp -> SUBSET TrIssue]
  BY DEF ClaimsInv
<1>2. \A f \in TrExp : i \in trOwn[f] => f = e
  BY DEF ClaimsInv, ClaimsExclusive
<1> QED
  BY <1>1, <1>2 DEF ClaimsInv, ClaimsExclusive

LEMMA UnclaimKeeps ==
  ASSUME ClaimsInv, NEW e \in TrExp, NEW i \in trOwn[e],
         trClaims' = [trClaims EXCEPT ![i] = {}],
         trOwn' = [trOwn EXCEPT ![e] = @ \ {i}],
         UNCHANGED trBudget
  PROVE  ClaimsInv'
<1>1. i \in TrIssue /\ trClaims' \in [TrIssue -> SUBSET TrExp] /\ trOwn' \in [TrExp -> SUBSET TrIssue]
  BY DEF ClaimsInv
<1>2. \A f \in TrExp : i \in trOwn[f] => f = e
  BY DEF ClaimsInv, ClaimsExclusive
<1> QED
  BY <1>1, <1>2 DEF ClaimsInv, ClaimsExclusive

LEMMA BudgetKeeps ==
  ASSUME ClaimsInv, ConsumeBudget \/ ResetBudget
  PROVE  ClaimsInv'
<1>1. UNCHANGED <<trClaims, trOwn>>
  BY DEF ConsumeBudget, ResetBudget, OthersIdle
<1>2. trBudget' \in [initial : Nat, consumed : Nat] /\ trBudget'.consumed <= trBudget'.initial
  <2>1. CASE ConsumeBudget
    <3>1. PICK b \in [initial : Nat, consumed : Nat] :
            /\ b.consumed < b.initial
            /\ trBudget' = [initial |-> b.initial, consumed |-> b.consumed + 1]
      BY <2>1 DEF ConsumeBudget, ClaimsInv
    <3> QED
      BY <3>1
  <2>2. CASE ResetBudget
    <3>1. PICK n \in TrBudget : trBudget' = [initial |-> AtLeastZero(n), consumed |-> 0]
      BY <2>2 DEF ResetBudget
    <3>2. AtLeastZero(n) \in Nat
      BY BudgetsAreNaturals
    <3> QED
      BY <3>1, <3>2
  <2> QED
    BY <2>1, <2>2
<1> QED
  BY <1>1, <1>2 DEF ClaimsInv, ClaimsExclusive

\* Every step keeps the invariant; gauge and mail leave claims and budget alone.
LEMMA ClaimsStepKeep == ClaimsInv /\ [TrNext]_trVars => ClaimsInv'
<1> SUFFICES ASSUME ClaimsInv, [TrNext]_trVars PROVE ClaimsInv'
  OBVIOUS
<1>1. CASE UNCHANGED <<trClaims, trOwn, trBudget>>
  BY <1>1 DEF ClaimsInv, ClaimsExclusive
<1>2. CASE Charge \/ Discharge \/ Decay \/ TriageMail
  BY <1>1, <1>2 DEF Charge, Discharge, Decay, TriageMail, OthersIdle
<1>3. ASSUME NEW e \in TrExp, TryClaim(e) PROVE ClaimsInv'
  BY <1>1, <1>3, ClaimKeeps DEF TryClaim, OthersIdle
<1>4. ASSUME NEW e \in TrExp, ReleaseClaim(e) PROVE ClaimsInv'
  BY <1>4, UnclaimKeeps DEF ReleaseClaim, OthersIdle
<1>5. CASE ConsumeBudget \/ ResetBudget
  BY <1>5, BudgetKeeps
<1>6. CASE UNCHANGED trVars
  BY <1>1, <1>6 DEF trVars
<1> QED
  BY <1>2, <1>3, <1>4, <1>5, <1>6 DEF TrNext

LEMMA ClaimsInvImplies == ClaimsInv => ClaimsSound
  BY DEF ClaimsInv, ClaimsSound, BudgetKept, BudgetRemaining, AtLeastZero

\* Whatever parallel expeditions claim and release, no issue has two holders and
\* the registry names the one it has; no budget is overdrawn
\* (domain/issue_claim_registry.go, domain/provider_state.go).
THEOREM ClaimsAreSound == TrSpec => []ClaimsSound
<1> QED
  BY ClaimsInitially, ClaimsStepKeep, ClaimsInvImplies, PTL DEF TrSpec

-----------------------------------------------------------------------------
(***************************************************************************)
(* The gauge, the retries and the budget.                                  *)
(***************************************************************************)

GaugeNet == INSTANCE Folding WITH Step <- WithEntry

Steps == {"+1", "-1", "RESET"}

LEMMA NetIs ==
  /\ Net(<< >>) = 0
  /\ \A s \in Seq(Steps), x \in Steps : Net(Append(s, x)) = WithEntry(Net(s), x)
  /\ \A s \in Seq(Steps) : Net(s) \in Int
<1>1. \A s : Net(s) = GaugeNet!Folded(0, s)
  BY DEF Net, FoldLeft, MapThenFoldSet, Max, GaugeNet!Folded, GaugeNet!Greatest
<1>2. GaugeNet!Folded(0, << >>) = 0
  BY GaugeNet!FoldEmpty
<1>3. \A s \in Seq(Steps), x \in Steps :
        GaugeNet!Folded(0, Append(s, x)) = WithEntry(GaugeNet!Folded(0, s), x)
  BY GaugeNet!FoldAppend
<1>4. 0 \in Int /\ \A v \in Int, x \in Steps : WithEntry(v, x) \in Int
  BY DEF WithEntry
<1>5. \A s \in Seq(Steps) : GaugeNet!Folded(0, s) \in Int
  BY <1>4, GaugeNet!FoldKeeps
<1> QED
  BY <1>1, <1>2, <1>3, <1>5

\* What the log says of the level, kept by every step.
GaugeInv ==
  /\ trLevel \in 0 .. TrMaxLevel /\ trGauge \in Seq(Steps)
  /\ trLevel <= NetCharge
  /\ NetCharge <= GaugeStats("+1")
  /\ GaugeStats("+1") <= TrMaxLevel => trLevel = NetCharge

RetryInv ==
  /\ trCount \in [TrKeys -> Nat] /\ Len(trDone) \in 0 .. TrSteps
  /\ trDone \in Seq([mail : TrMail, did : {"escalate", "resolve", "retry", "pass"}])
  /\ \A k \in TrKeys : trCount[k] <= Len(trDone)

-----------------------------------------------------------------------------
LEMMA TailAppended ==
  ASSUME NEW T, NEW s \in Seq(T), NEW x \in T, NEW l \in 0 .. Len(s)
  PROVE  /\ SubSeq(s, l + 1, Len(s)) \in Seq(T)
         /\ SubSeq(Append(s, x), l + 1, Len(Append(s, x))) = Append(SubSeq(s, l + 1, Len(s)), x)
<1> DEFINE t == Append(s, x)
           n == Len(s)
           a == SubSeq(s, l + 1, n)
           b == SubSeq(t, l + 1, n + 1)
<1>1. /\ n \in Nat /\ l \in Nat /\ l <= n
      /\ Len(t) = n + 1 /\ t[n + 1] = x /\ \A i \in 1 .. n : t[i] = s[i] /\ s[i] \in T
  OBVIOUS
<1> HIDE DEF t, n
<1>2. l + 1 \in Int /\ n \in Int /\ n + 1 \in Int /\ (\A i \in l + 1 .. n : i \in 1 .. n)
      /\ (\A i \in l + 1 .. n + 1 : i = n + 1 \/ i \in 1 .. n)
  BY <1>1
<1>3. \A i \in l + 1 .. n : s[i] \in T
  BY <1>1, <1>2
<1>4. \A i \in l + 1 .. n + 1 : t[i] \in T
  BY <1>1, <1>2
<1>5. /\ a \in Seq(T) /\ Len(a) = IF l + 1 <= n THEN n - (l + 1) + 1 ELSE 0
      /\ \A i \in 1 .. n - (l + 1) + 1 : a[i] = s[l + 1 + i - 1]
  BY ONLY <1>2, <1>3, SubSeqProperties
<1>6. /\ b \in Seq(T) /\ Len(b) = IF l + 1 <= n + 1 THEN n + 1 - (l + 1) + 1 ELSE 0
      /\ \A i \in 1 .. n + 1 - (l + 1) + 1 : b[i] = t[l + 1 + i - 1]
  BY ONLY <1>2, <1>4, SubSeqProperties
<1> HIDE DEF a, b
<1>7. Len(a) = n - l /\ Len(b) = n - l + 1
  BY <1>1, <1>5, <1>6
<1>8. /\ Append(a, x) \in Seq(T) /\ Len(Append(a, x)) = n - l + 1
      /\ Append(a, x)[n - l + 1] = x /\ \A i \in 1 .. n - l : Append(a, x)[i] = a[i]
  BY <1>5, <1>7
<1>9. ASSUME NEW i \in 1 .. Len(b) PROVE b[i] = Append(a, x)[i]
  <2>1. i \in 1 .. n + 1 - (l + 1) + 1 /\ l + 1 + i - 1 = l + i
    BY <1>1, <1>7
  <2>2. b[i] = t[l + i]
    BY <1>6, <2>1
  <2>3. CASE i = n - l + 1
    <3>1. l + i = n + 1
      BY <1>1, <2>3
    <3> QED
      BY <1>1, <1>8, <2>2, <2>3, <3>1
  <2>4. CASE i # n - l + 1
    <3>1. i \in 1 .. n - l /\ i \in 1 .. n - (l + 1) + 1 /\ l + i \in 1 .. n
      BY <1>1, <1>7, <2>4
    <3>2. a[i] = s[l + i]
      BY <1>5, <2>1, <3>1
    <3> QED
      BY <1>1, <1>8, <2>2, <3>1, <3>2
  <2> QED
    BY <2>3, <2>4
<1>10. b = Append(a, x)
  <2>1. Len(b) = Len(Append(a, x))
    BY <1>7, <1>8
  <2> QED
    BY <1>6, <1>8, <1>9, <2>1, SeqEqual
<1> QED
  BY <1>1, <1>5, <1>10 DEF a, b, t, n

LEMMA NetStep ==
  ASSUME trGauge \in Seq(Steps), NEW x \in Steps, trGauge' = Append(trGauge, x)
  PROVE  /\ NetCharge \in Int
         /\ NetCharge' = IF x = "RESET" THEN 0 ELSE WithEntry(NetCharge, x)
         /\ GaugeStats("+1") \in Nat
         /\ GaugeStats("+1")' = GaugeStats("+1") + (IF x = "+1" THEN 1 ELSE 0)
<1> DEFINE n == Len(trGauge)
           R == {0} \union At(trGauge, {"RESET"})
           Q == {0} \union At(trGauge', {"RESET"})
<1>1. n \in Nat /\ trGauge' \in Seq(Steps) /\ Len(trGauge') = n + 1
  OBVIOUS
<1>2. LastReset = Max(R) /\ LastReset' = Max(Q)
  BY DEF LastReset, At
<1>3. R \subseteq 0 .. n /\ R # {}
  BY <1>1, AtIsFinite
<1>4. LastReset \in 0 .. n
  BY <1>1, <1>2, <1>3, GreatestOf
<1>5. NetCharge \in Int
  BY <1>4, TailAppended, NetIs DEF NetCharge
<1>6. Q = R \union (IF x \in {"RESET"} THEN {n + 1} ELSE {})
  BY AtAppended
<1>7. ASSUME x = "RESET" PROVE NetCharge' = 0
  <2>1. n + 1 \in Q /\ Q \subseteq 0 .. n + 1 /\ n + 1 \in Nat
    BY <1>1, <1>3, <1>6, <1>7
  <2>2. LastReset' \in Q /\ n + 1 <= LastReset'
    BY <1>2, <2>1, GreatestOf
  <2>3. LastReset' = n + 1
    BY <1>1, <2>1, <2>2
  <2>4. SubSeq(trGauge', n + 1 + 1, n + 1) = << >>
    BY <1>1, SubSeqEmpty
  <2> QED
    BY <1>1, <1>7, <2>3, <2>4, NetIs DEF NetCharge
<1>8. ASSUME x # "RESET" PROVE NetCharge' = WithEntry(NetCharge, x)
  <2>1. LastReset' = LastReset
    BY <1>2, <1>6, <1>8
  <2> DEFINE a == SubSeq(trGauge, LastReset + 1, n)
  <2>2. a \in Seq(Steps) /\ SubSeq(trGauge', LastReset + 1, Len(trGauge')) = Append(a, x)
    BY <1>4, TailAppended
  <2>3. NetCharge = Net(a) /\ NetCharge' = Net(Append(a, x))
    BY <2>1, <2>2 DEF NetCharge
  <2> QED
    BY <1>8, <2>2, <2>3, NetIs
<1>9. /\ GaugeStats("+1") \in Nat
      /\ GaugeStats("+1")' = GaugeStats("+1") + (IF x = "+1" THEN 1 ELSE 0)
  <2>1. GaugeStats("+1") = Cardinality(At(trGauge, {"+1"}))
        /\ GaugeStats("+1")' = Cardinality(At(trGauge', {"+1"}))
    BY DEF GaugeStats, At
  <2>2. Cardinality(At(trGauge', {"+1"})) =
          Cardinality(At(trGauge, {"+1"})) + (IF x \in {"+1"} THEN 1 ELSE 0)
    BY CountAppended
  <2> QED
    BY <2>1, <2>2, AtIsFinite
<1> QED
  BY <1>5, <1>7, <1>8, <1>9

LEMMA TrInitially == TrInit => GaugeInv /\ RetryInv
<1> SUFFICES ASSUME TrInit PROVE GaugeInv /\ RetryInv
  OBVIOUS
<1> USE TriageAssumption
<1>1. trLevel = 0 /\ trGauge = << >> /\ trDone = << >> /\ trCount = [k \in TrKeys |-> 0]
  BY DEF TrInit
<1>2. LastReset = 0
  <2>1. {0} \union {i \in DOMAIN trGauge : trGauge[i] = "RESET"} = {0}
    BY <1>1
  <2>2. {0} \subseteq 0 .. 0 /\ {0} # {} /\ 0 \in Nat
    OBVIOUS
  <2>3. Max({0}) \in {0}
    BY <2>2, GreatestOf
  <2> QED
    BY <2>1, <2>3 DEF LastReset
<1>3. NetCharge = 0
  <2>1. SubSeq(<< >>, 0 + 1, Len(<< >>)) = << >>
    BY SubSeqEmpty
  <2> QED
    BY <1>1, <1>2, <2>1, NetIs DEF NetCharge
<1>4. GaugeStats("+1") \in Nat
  <2>1. trGauge \in Seq(Steps)
    BY <1>1
  <2>2. GaugeStats("+1") = Cardinality(At(trGauge, {"+1"}))
    BY DEF GaugeStats, At
  <2> QED
    BY <2>1, <2>2, AtIsFinite
<1>5. GaugeInv
  BY <1>1, <1>3, <1>4 DEF GaugeInv
<1>6. RetryInv
  BY <1>1 DEF RetryInv
<1> QED
  BY <1>5, <1>6

LEMMA GaugeKeeps ==
  ASSUME GaugeInv, NEW x \in Steps, TrLogs(x),
         trLevel' = CASE x = "+1" -> IF trLevel < TrMaxLevel THEN trLevel + 1 ELSE trLevel
                      [] x = "-1" -> trLevel - 1
                      [] OTHER -> 0,
         x = "-1" => trLevel > 0
  PROVE  GaugeInv'
<1>1. trGauge \in Seq(Steps) /\ trGauge' = Append(trGauge, x) /\ trGauge' \in Seq(Steps)
  BY DEF GaugeInv, TrLogs
<1>2. /\ NetCharge \in Int /\ GaugeStats("+1") \in Nat
      /\ NetCharge' = IF x = "RESET" THEN 0 ELSE WithEntry(NetCharge, x)
      /\ GaugeStats("+1")' = GaugeStats("+1") + (IF x = "+1" THEN 1 ELSE 0)
  BY <1>1, NetStep
<1>3. TrMaxLevel \in Nat /\ trLevel \in 0 .. TrMaxLevel
  BY TriageAssumption DEF GaugeInv
<1> QED
  BY <1>1, <1>2, <1>3 DEF GaugeInv, WithEntry, Steps

LEMMA TriageKeeps ==
  ASSUME RetryInv, TriageMail
  PROVE  RetryInv'
<1> DEFINE D == [mail : TrMail, did : {"escalate", "resolve", "retry", "pass"}]
<1>1. PICK mail \in TrMail :
        LET key == RetryKey(mail.issues)
            n   == trCount[key] + 1
        IN  IF mail.action = "retry" /\ mail.issues # <<>>
            THEN /\ trCount' = [trCount EXCEPT ![key] = n]
                 /\ trDone' = Append(trDone, [mail |-> mail, did |-> DeterminePreFlightDecision(mail, n)])
            ELSE /\ UNCHANGED trCount
                 /\ trDone' = Append(trDone, [mail |-> mail, did |-> DeterminePreFlightDecision(mail, 0)])
  BY DEF TriageMail
<1>2. RetryKey(mail.issues) \in TrKeys
  BY DEF TrKeys
<1>3. \A n : [mail |-> mail, did |-> DeterminePreFlightDecision(mail, n)] \in D
  BY DEF DeterminePreFlightDecision
<1>4. PICK d \in D : trDone' = Append(trDone, d)
  BY <1>1, <1>3
<1>5. Len(trDone) \in 0 .. TrSteps /\ Len(trDone) < TrSteps /\ TrSteps \in Nat /\ trDone \in Seq(D)
  BY TriageAssumption DEF RetryInv, TriageMail
<1>6. trDone' \in Seq(D) /\ Len(trDone') = Len(trDone) + 1 /\ Len(trDone') \in 0 .. TrSteps
  BY <1>4, <1>5
<1>7. trCount' \in [TrKeys -> Nat] /\ \A k \in TrKeys : trCount'[k] <= trCount[k] + 1
  <2>1. trCount \in [TrKeys -> Nat]
    BY DEF RetryInv
  <2>2. CASE UNCHANGED trCount
    BY <2>1, <2>2
  <2>3. CASE trCount' = [trCount EXCEPT ![RetryKey(mail.issues)] = trCount[RetryKey(mail.issues)] + 1]
    BY <1>2, <2>1, <2>3
  <2> QED
    BY <1>1, <2>2, <2>3
<1>8. \A k \in TrKeys : trCount'[k] <= Len(trDone')
  BY <1>5, <1>6, <1>7 DEF RetryInv
<1> QED
  BY <1>6, <1>7, <1>8 DEF RetryInv

LEMMA TrStepKeeps == GaugeInv /\ RetryInv /\ [TrNext]_trVars => GaugeInv' /\ RetryInv'
<1> SUFFICES ASSUME GaugeInv, RetryInv, [TrNext]_trVars PROVE GaugeInv' /\ RetryInv'
  OBVIOUS
<1>1. ASSUME UNCHANGED <<trLevel, trGauge>> PROVE GaugeInv'
  BY <1>1 DEF GaugeInv, NetCharge, LastReset, GaugeStats
<1>2. ASSUME UNCHANGED <<trCount, trDone>> PROVE RetryInv'
  BY <1>2 DEF RetryInv
<1>3. CASE Charge \/ Discharge \/ Decay
  <2>1. UNCHANGED <<trCount, trDone>>
    BY <1>3 DEF Charge, Discharge, Decay, OthersIdle
  <2>2. ASSUME Charge PROVE GaugeInv'
    <3>1. "+1" \in Steps /\ TrLogs("+1") /\ "+1" # "-1"
          /\ trLevel' = IF trLevel < TrMaxLevel THEN trLevel + 1 ELSE trLevel
      BY <2>2 DEF Charge, Steps
    <3> QED
      BY <3>1, GaugeKeeps
  <2>3. ASSUME Discharge PROVE GaugeInv'
    <3>1. "RESET" \in Steps /\ TrLogs("RESET") /\ "RESET" # "-1" /\ "RESET" # "+1" /\ trLevel' = 0
      BY <2>3 DEF Discharge, Steps
    <3> QED
      BY <3>1, GaugeKeeps
  <2>4. ASSUME Decay PROVE GaugeInv'
    <3>1. "-1" \in Steps /\ TrLogs("-1") /\ "-1" # "+1" /\ trLevel > 0 /\ trLevel' = trLevel - 1
      BY <2>4 DEF Decay, Steps
    <3> QED
      BY <3>1, GaugeKeeps
  <2> QED
    BY <1>2, <1>3, <2>1, <2>2, <2>3, <2>4
<1>4. CASE TriageMail
  BY <1>1, <1>4, TriageKeeps DEF TriageMail, OthersIdle
<1>5. CASE \E e \in TrExp : TryClaim(e) \/ ReleaseClaim(e)
  BY <1>1, <1>2, <1>5 DEF TryClaim, ReleaseClaim, OthersIdle
<1>6. CASE ConsumeBudget \/ ResetBudget
  BY <1>1, <1>2, <1>6 DEF ConsumeBudget, ResetBudget, OthersIdle
<1>7. CASE UNCHANGED trVars
  BY <1>1, <1>2, <1>7 DEF trVars
<1> QED
  BY <1>3, <1>4, <1>5, <1>6, <1>7 DEF TrNext

LEMMA TrInvImplies == GaugeInv /\ RetryInv /\ ClaimsInv => TrTypeOK /\ GaugeFromLog
<1> SUFFICES ASSUME GaugeInv, RetryInv, ClaimsInv PROVE TrTypeOK /\ GaugeFromLog
  OBVIOUS
<1> USE TriageAssumption
<1>1. \A k \in TrKeys : trCount[k] \in 0 .. TrSteps
  BY DEF RetryInv
<1>2. TrTypeOK
  BY <1>1 DEF TrTypeOK, GaugeInv, Steps, ClaimsInv
<1>3. PriorityHint = "attack" <=> trLevel = TrMaxLevel
  BY DEF PriorityHint, IsGradientAttack, GaugeInv
<1> QED
  BY <1>2, <1>3 DEF GaugeFromLog, GaugeInv

\* However long its log is: since the last reset the gauge stands at the charges
\* less the decays, and at less only when a charge met a full gauge
\* (gradient.go); and what triage counts has its type (retry_tracker.go,
\* preflight.go).
THEOREM GaugeIsSound == TrSpec => [](TrTypeOK /\ GaugeFromLog)
  BY ClaimsInitially, ClaimsStepKeep, TrInitially, TrStepKeeps, TrInvImplies, PTL DEF TrSpec

(***************************************************************************)
(* Insertion: what slices are sorted by.                                   *)
(***************************************************************************)

\* r is s with c after its first k elements.
Inserted(s, k, c) == SubSeq(s, 1, k) \o << c >> \o SubSeq(s, k + 1, Len(s))
HasInserted(r, s, k, c) ==
  /\ Len(r) = Len(s) + 1 /\ DOMAIN r = 1 .. Len(s) + 1 /\ r[k + 1] = c
  /\ \A i \in 1 .. k : r[i] = s[i]
  /\ \A i \in k + 2 .. Len(s) + 1 : r[i] = s[i - 1]

LEMMA InsertedHas ==
  ASSUME NEW S, NEW s \in Seq(S), NEW c \in S, NEW k \in 0 .. Len(s)
  PROVE  Inserted(s, k, c) \in Seq(S) /\ HasInserted(Inserted(s, k, c), s, k, c)
<1> DEFINE r == Inserted(s, k, c)
           n == Len(s)
           front == SubSeq(s, 1, k)
           back == SubSeq(s, k + 1, n)
           q == front \o << c >>
<1>1. n \in Nat /\ k \in Nat /\ k <= n
  OBVIOUS
<1> HIDE DEF n
<1>2. front \in Seq(S) /\ Len(front) = k /\ \A i \in 1 .. k : front[i] = s[i]
  BY <1>1 DEF n
<1>3. back \in Seq(S) /\ Len(back) = n - k /\ \A i \in 1 .. n - k : back[i] = s[k + i]
  <2>1. k + 1 \in 1 .. n + 1 /\ s \in Seq(S) /\ Len(s) = n /\ n - (k + 1) + 1 = n - k
    BY <1>1 DEF n
  <2>2. back \in Seq(S) /\ Len(back) = n - k
    BY <1>1, <2>1
  <2>3. ASSUME NEW i \in 1 .. n - k PROVE back[i] = s[k + i]
    <3>1. back[i] = s[(k + 1) + i - 1] /\ (k + 1) + i - 1 = k + i
      BY <1>1, <2>1
    <3> QED
      BY <3>1
  <2> QED
    BY <2>2, <2>3
<1> HIDE DEF front, back
<1>4. << c >> \in Seq(S) /\ Len(<< c >>) = 1 /\ << c >>[1] = c
  OBVIOUS
<1>5. /\ q \in Seq(S) /\ Len(q) = k + 1 /\ q[k + 1] = c
      /\ \A i \in 1 .. k : q[i] = front[i]
  BY <1>1, <1>2, <1>4
<1>6. r = q \o back
  BY DEF Inserted, front, back, n
<1> HIDE DEF q, r
<1>7. /\ r \in Seq(S) /\ Len(r) = Len(q) + Len(back)
      /\ \A i \in 1 .. Len(q) : r[i] = q[i]
      /\ \A i \in 1 .. Len(back) : r[Len(q) + i] = back[i]
  <2>1. q \in Seq(S) /\ back \in Seq(S)
    BY <1>3, <1>5
  <2> QED
    BY ONLY <2>1, <1>6
<1>8. \A i \in k + 2 .. n + 1 : i - (k + 1) \in 1 .. n - k /\ k + (i - (k + 1)) = i - 1
                                /\ (k + 1) + (i - (k + 1)) = i
  BY <1>1
<1>9. ASSUME NEW i \in k + 2 .. n + 1 PROVE r[i] = s[i - 1]
  <2>1. r[(k + 1) + (i - (k + 1))] = back[i - (k + 1)]
    BY <1>3, <1>5, <1>7, <1>8
  <2>2. back[i - (k + 1)] = s[k + (i - (k + 1))]
    BY <1>3, <1>8
  <2> QED
    BY <1>8, <2>1, <2>2
<1>10. (\A i \in 1 .. k : i \in 1 .. k + 1) /\ k + 1 \in 1 .. k + 1
  BY <1>1
<1>11. Len(r) = n + 1 /\ DOMAIN r = 1 .. n + 1
  <2>0. Len(r) = Len(q) + Len(back) /\ Len(q) = k + 1 /\ Len(back) = n - k
    BY <1>3, <1>5, <1>7
  <2>1. Len(r) = n + 1
    BY ONLY <1>1, <2>0
  <2>2. r \in Seq(S)
    BY <1>7
  <2> QED
    BY ONLY <2>1, <2>2
<1>12. \A i \in 1 .. k : r[i] = s[i]
  BY <1>2, <1>5, <1>7, <1>10
<1>13. r[k + 1] = c
  BY <1>5, <1>7, <1>10
<1> QED
  BY <1>7, <1>9, <1>11, <1>12, <1>13 DEF n, r, HasInserted

\* Each place of the longer sequence is one of the shorter, or that of the new element.
LEMMA PlaceAmong ==
  ASSUME NEW n \in Nat, NEW k \in 0 .. n, NEW i \in 1 .. n + 1
  PROVE  \/ i \in 1 .. k /\ i \in 1 .. n
         \/ i = k + 1
         \/ i \in k + 2 .. n + 1 /\ i - 1 \in 1 .. n /\ i - 1 > k
  OBVIOUS

LEMMA PlaceIs ==
  ASSUME NEW n \in Nat, NEW D, D \subseteq 1 .. n, NEW k, k = Max({0} \union D)
  PROVE  /\ k \in 0 .. n /\ (k # 0 => k \in D)
         /\ \A i \in 1 .. n : i > k => i \notin D
<1> DEFINE P == {0} \union D
<1>1. P \subseteq 0 .. n /\ P # {}
  OBVIOUS
<1>2. k \in P /\ \A m \in P : m <= k
  BY <1>1, GreatestOf
<1>3. k \in 0 .. n /\ (k # 0 => k \in D)
  BY <1>1, <1>2
<1>4. ASSUME NEW i \in 1 .. n, i > k, i \in D PROVE FALSE
  BY <1>2, <1>3, <1>4
<1> QED
  BY <1>3, <1>4

(***************************************************************************)
(* Numbers in ascending order.                                             *)
(***************************************************************************)

Ascending(s) == \A i, j \in DOMAIN s : i < j => s[i] <= s[j]

LEMMA NumberInserted ==
  ASSUME NEW s \in Seq(Int), NEW c \in Int, Ascending(s)
  PROVE  /\ InsertIssue(s, c) \in Seq(Int) /\ Ascending(InsertIssue(s, c))
         /\ \E k \in 0 .. Len(s) : HasInserted(InsertIssue(s, c), s, k, c)
<1> DEFINE r == InsertIssue(s, c)
           n == Len(s)
           D == {i \in DOMAIN s : s[i] <= c}
           k == Max({0} \union D)
<1>1. n \in Nat /\ DOMAIN s = 1 .. n /\ \A i \in 1 .. n : s[i] \in Int
  OBVIOUS
<1>2. D \subseteq 1 .. n
  BY <1>1
<1>4. r = SubSeq(s, 1, k) \o << c >> \o SubSeq(s, k + 1, n)
  BY DEF InsertIssue
<1>0. k = Max({0} \union D)
  OBVIOUS
<1> HIDE DEF k, D, n, r
<1>3. /\ k \in 0 .. n /\ (k # 0 => k \in D)
      /\ \A i \in 1 .. n : i > k => i \notin D
  BY <1>0, <1>1, <1>2, PlaceIs
<1>5. /\ r \in Seq(Int) /\ Len(r) = n + 1 /\ DOMAIN r = 1 .. n + 1 /\ r[k + 1] = c
      /\ \A i \in 1 .. k : r[i] = s[i]
      /\ \A i \in k + 2 .. n + 1 : r[i] = s[i - 1]
  <2>1. k \in 0 .. Len(s) /\ r = Inserted(s, k, c)
    BY <1>3, <1>4 DEF n, Inserted
  <2>2. r \in Seq(Int) /\ HasInserted(r, s, k, c)
    BY <2>1, InsertedHas
  <2> QED
    BY <2>2 DEF n, HasInserted
<1>11. \E l \in 0 .. Len(s) : HasInserted(r, s, l, c)
  BY <1>1, <1>3, <1>5 DEF n, HasInserted
<1>6. \A i \in 1 .. n : i > k => c <= s[i]
  BY <1>1, <1>3 DEF D
<1>7. k # 0 => s[k] <= c /\ k \in 1 .. n
  BY <1>1, <1>3 DEF D
<1>8. ASSUME NEW i \in 1 .. n, i <= k PROVE s[i] <= c
  <2>1. k # 0 /\ k \in 1 .. n /\ s[k] <= c
    BY <1>1, <1>3, <1>7, <1>8
  <2>3. i = k \/ i < k
    BY <1>1, <1>3, <1>8
  <2>4. ASSUME i < k PROVE s[i] <= s[k]
    BY <1>1, <2>1, <2>4 DEF Ascending
  <2>2. i = k \/ s[i] <= s[k]
    BY <2>3, <2>4
  <2> QED
    BY <1>1, <2>1, <2>2
<1>9. ASSUME NEW i \in 1 .. n + 1, NEW j \in 1 .. n + 1, i < j PROVE r[i] <= r[j]
  <2>1. CASE i \in 1 .. k /\ j \in 1 .. k
    <3>1. r[i] = s[i] /\ r[j] = s[j] /\ i \in 1 .. n /\ j \in 1 .. n
      BY <1>1, <1>3, <1>5, <2>1
    <3> QED
      BY <1>1, <1>9, <3>1 DEF Ascending
  <2>2. CASE i \in 1 .. k /\ j = k + 1
    <3>1. r[i] = s[i] /\ r[j] = c /\ i \in 1 .. n /\ i <= k
      BY <1>1, <1>3, <1>5, <2>2
    <3> QED
      BY <1>8, <3>1
  <2>3. CASE i \in 1 .. k /\ j \in k + 2 .. n + 1
    <3>1. r[i] = s[i] /\ r[j] = s[j - 1] /\ i \in 1 .. n /\ j - 1 \in 1 .. n /\ i < j - 1
      BY <1>1, <1>3, <1>5, <2>3
    <3> QED
      BY <1>1, <3>1 DEF Ascending
  <2>4. CASE i = k + 1 /\ j \in k + 2 .. n + 1
    <3>1. r[i] = c /\ r[j] = s[j - 1] /\ j - 1 \in 1 .. n /\ j - 1 > k
      BY <1>1, <1>3, <1>5, <2>4
    <3> QED
      BY <1>6, <3>1
  <2>5. CASE i \in k + 2 .. n + 1 /\ j \in k + 2 .. n + 1
    <3>1. r[i] = s[i - 1] /\ r[j] = s[j - 1] /\ i - 1 \in 1 .. n /\ j - 1 \in 1 .. n /\ i - 1 < j - 1
      BY <1>1, <1>3, <1>5, <1>9, <2>5
    <3> QED
      BY <1>1, <3>1 DEF Ascending
  <2> QED
    BY <1>1, <1>3, <1>9, <2>1, <2>2, <2>3, <2>4, <2>5, PlaceAmong
<1>10. Ascending(r)
  BY <1>5, <1>9 DEF Ascending
<1> QED
  BY <1>5, <1>10, <1>11 DEF r

\* How often a number occurs after another was inserted.
LEMMA OccursInserted ==
  ASSUME NEW s \in Seq(Int), NEW c \in Int, NEW V, NEW k \in 0 .. Len(s), NEW r \in Seq(Int),
         HasInserted(r, s, k, c)
  PROVE  Cardinality(At(r, V)) = Cardinality(At(s, V)) + (IF c \in V THEN 1 ELSE 0)
<1>0. /\ Len(r) = Len(s) + 1 /\ r[k + 1] = c
      /\ \A i \in 1 .. k : r[i] = s[i]
      /\ \A i \in k + 2 .. Len(s) + 1 : r[i] = s[i - 1]
  BY DEF HasInserted
<1> DEFINE n == Len(s)
           A == At(s, V)
           Moved(i) == IF i <= k THEN i ELSE i + 1
           B == At(r, V) \ {k + 1}
           f == [i \in A |-> Moved(i)]
<1>1. n \in Nat /\ DOMAIN s = 1 .. n /\ DOMAIN r = 1 .. n + 1 /\ k \in Nat /\ k <= n
  BY <1>0
<1>2. A \subseteq 1 .. n /\ IsFiniteSet(A) /\ Cardinality(A) \in Nat
  BY AtIsFinite
<1>3. \A i \in 1 .. n : Moved(i) \in 1 .. n + 1 /\ Moved(i) # k + 1 /\ r[Moved(i)] = s[i]
  <2>1. ASSUME NEW i \in 1 .. n PROVE Moved(i) \in 1 .. n + 1 /\ Moved(i) # k + 1 /\ r[Moved(i)] = s[i]
    <3>1. CASE i <= k
      BY <1>0, <1>1, <3>1
    <3>2. CASE i > k
      <4>1. Moved(i) = i + 1 /\ i + 1 \in k + 2 .. n + 1
        BY <1>1, <3>2
      <4>2. r[i + 1] = s[(i + 1) - 1] /\ (i + 1) - 1 = i
        BY <1>0, <4>1
      <4> QED
        BY <1>1, <3>2, <4>1, <4>2
    <3> QED
      BY <1>1, <3>1, <3>2
  <2> QED
    BY <2>1
<1>4. \A j \in 1 .. n + 1 : j # k + 1 => \E i \in 1 .. n : Moved(i) = j
  <2>1. ASSUME NEW j \in 1 .. n + 1, j # k + 1 PROVE \E i \in 1 .. n : Moved(i) = j
    <3>1. CASE j <= k
      BY <1>1, <3>1
    <3>2. CASE j > k
      <4>1. j - 1 \in 1 .. n /\ ~(j - 1 <= k) /\ (j - 1) + 1 = j
        BY <1>1, <2>1, <3>2
      <4> QED
        BY <4>1
    <3> QED
      BY <1>1, <3>1, <3>2
  <2> QED
    BY <2>1
<1>5. \A i, j \in 1 .. n : Moved(i) = Moved(j) => i = j
  <2>1. ASSUME NEW i \in 1 .. n, NEW j \in 1 .. n, Moved(i) = Moved(j) PROVE i = j
    <3>3. (i <= k => Moved(i) = i) /\ (j <= k => Moved(j) = j)
      OBVIOUS
    <3>4. (~ (i <= k) => Moved(i) = i + 1) /\ (~ (j <= k) => Moved(j) = j + 1)
      OBVIOUS
    <3> HIDE DEF Moved
    <3>5. CASE i <= k /\ j <= k
      BY <2>1, <3>3, <3>5
    <3>6. CASE ~ (i <= k) /\ ~ (j <= k)
      BY <2>1, <3>4, <3>6
    <3>7. CASE i <= k /\ ~ (j <= k)
      BY <1>1, <2>1, <3>3, <3>4, <3>7
    <3>8. CASE ~ (i <= k) /\ j <= k
      BY <1>1, <2>1, <3>3, <3>4, <3>8
    <3> QED
      BY <3>5, <3>6, <3>7, <3>8
  <2> QED
    BY <2>1
<1> HIDE DEF Moved
<1>6. f \in Bijection(A, B)
  <2>1. \A i \in A : f[i] \in B
    <3>1. ASSUME NEW i \in A PROVE Moved(i) \in B
      <4>1. i \in 1 .. n /\ s[i] \in V
        BY <1>2 DEF At
      <4> QED
        BY <1>1, <1>3, <4>1 DEF At
    <3> QED
      BY <3>1
  <2>2. \A i, j \in A : f[i] = f[j] => i = j
    BY <1>2, <1>5
  <2>3. ASSUME NEW j \in B PROVE \E i \in A : f[i] = j
    <3>1. j \in 1 .. n + 1 /\ j # k + 1 /\ r[j] \in V
      BY <1>1 DEF At
    <3>2. PICK i \in 1 .. n : Moved(i) = j
      BY <1>4, <3>1
    <3>3. i \in A
      BY <1>1, <1>3, <3>1, <3>2 DEF At
    <3> QED
      BY <3>2, <3>3
  <2>4. f \in [A -> B]
    BY <2>1
  <2> HIDE DEF f, A, B
  <2> QED
    BY <2>2, <2>3, <2>4, Zenon DEF Bijection, Injection, Surjection, IsInjective
<1>7. IsFiniteSet(B) /\ Cardinality(B) = Cardinality(A)
  BY <1>2, <1>6, FS_Bijection DEF ExistsBijection
<1>8. k + 1 \in At(r, V) <=> c \in V
  BY <1>0, <1>1 DEF At
<1>9. CASE c \in V
  <2>1. At(r, V) = B \union {k + 1} /\ k + 1 \notin B
    BY <1>8, <1>9
  <2> HIDE DEF A, B
  <2>2. Cardinality(B \union {k + 1}) = Cardinality(B) + 1
    BY <1>7, <2>1, FS_AddElement
  <2> QED
    BY <1>7, <1>9, <2>1, <2>2 DEF A
<1>10. CASE c \notin V
  <2>1. At(r, V) = B
    BY <1>8, <1>10
  <2>2. Cardinality(At(r, V)) = Cardinality(A)
    BY <1>7, <2>1
  <2>3. (IF c \in V THEN 1 ELSE 0) = 0
    BY <1>10
  <2> HIDE DEF B
  <2> QED
    BY <1>2, <2>2, <2>3
<1> QED
  BY <1>9, <1>10

(***************************************************************************)
(* The key of a set of issues (retry_tracker.go): two lists of issues have *)
(* the same key iff each issue occurs as often in both.                    *)
(***************************************************************************)

Keys == INSTANCE Folding WITH Step <- InsertIssue

\* A key is in order and has the issues of the list, each as often.
KeyOf(s, k) ==
  /\ k \in Seq(Int) /\ Len(k) = Len(s) /\ Ascending(k)
  /\ \A V : Cardinality(At(k, V)) = Cardinality(At(s, V))

LEMMA KeyGrows ==
  ASSUME NEW s \in Seq(Int), NEW c \in Int, NEW k, KeyOf(s, k)
  PROVE  KeyOf(Append(s, c), InsertIssue(k, c))
<1> DEFINE r == InsertIssue(k, c)
           t == Append(s, c)
<1>1. k \in Seq(Int) /\ Ascending(k) /\ Len(k) = Len(s) /\ Len(s) \in Nat
  BY DEF KeyOf
<1>2. r \in Seq(Int) /\ Ascending(r) /\ \E l \in 0 .. Len(k) : HasInserted(r, k, l, c)
  BY <1>1, NumberInserted
<1>3. t \in Seq(Int) /\ Len(t) = Len(s) + 1
  OBVIOUS
<1>4. \A V : Cardinality(At(t, V)) = Cardinality(At(s, V)) + (IF c \in V THEN 1 ELSE 0)
  BY CountAppended
<1> HIDE DEF r, t
<1>5. PICK l \in 0 .. Len(k) : HasInserted(r, k, l, c)
  BY <1>2
<1>6. Len(r) = Len(k) + 1
  BY <1>5 DEF HasInserted
<1>7. ASSUME NEW V PROVE Cardinality(At(r, V)) = Cardinality(At(t, V))
  <2>1. Cardinality(At(r, V)) = Cardinality(At(k, V)) + (IF c \in V THEN 1 ELSE 0)
    <3>1. k \in Seq(Int) /\ c \in Int /\ l \in 0 .. Len(k) /\ r \in Seq(Int) /\ HasInserted(r, k, l, c)
      BY <1>1, <1>2, <1>5
    <3> QED
      BY <3>1, OccursInserted
  <2>2. Cardinality(At(k, V)) = Cardinality(At(s, V))
    BY DEF KeyOf
  <2> QED
    BY <1>4, <2>1, <2>2
<1>8. KeyOf(t, r)
  BY <1>1, <1>2, <1>3, <1>6, <1>7 DEF KeyOf
<1> QED
  BY <1>8 DEF r, t

LEMMA KeyIs == ASSUME NEW s \in Seq(Int) PROVE KeyOf(s, RetryKey(s))
<1> DEFINE F(q) == Keys!Folded(<< >>, q)
           G == {q \in Seq(Int) : KeyOf(q, F(q))}
<1>1. F(<< >>) = << >>
  BY Keys!FoldEmpty
<1>2. KeyOf(<< >>, << >>)
  BY DEF KeyOf, Ascending
<1>3. << >> \in G
  BY <1>1, <1>2
<1>4. ASSUME NEW q \in Seq(Int), NEW c \in Int, q \in G PROVE Append(q, c) \in G
  <2>1. F(Append(q, c)) = InsertIssue(F(q), c)
    BY Keys!FoldAppend
  <2>2. KeyOf(Append(q, c), InsertIssue(F(q), c))
    <3>1. KeyOf(q, F(q))
      BY <1>4
    <3> HIDE DEF F
    <3> QED
      BY <3>1, KeyGrows
  <2>3. Append(q, c) \in Seq(Int)
    OBVIOUS
  <2> HIDE DEF F
  <2> QED
    BY <2>1, <2>2, <2>3
<1> HIDE DEF G
<1>5. Seq(Int) \subseteq G
  BY <1>3, <1>4, Keys!SequencesGrow
<1>6. RetryKey(s) = F(s)
  BY DEF RetryKey, FoldLeft, MapThenFoldSet, Max, Keys!Folded, Keys!Greatest
<1> QED
  BY <1>5, <1>6 DEF G

\* What is in the first places of both, and only in the next place of a.
LEMMA OccursLess ==
  ASSUME NEW a \in Seq(Int), NEW b \in Seq(Int), NEW i \in DOMAIN a,
         \A j \in 1 .. i - 1 : j \in DOMAIN b => b[j] = a[j],
         \A j \in DOMAIN b : j >= i => b[j] > a[i]
  PROVE  Cardinality(At(b, {a[i]})) < Cardinality(At(a, {a[i]}))
<1> DEFINE A == At(a, {a[i]})
           B == At(b, {a[i]})
<1>1. IsFiniteSet(A) /\ i \in A
  BY AtIsFinite DEF At
<1>2. B \subseteq A /\ i \notin B
  <2>1. ASSUME NEW j \in DOMAIN b, b[j] = a[i] PROVE j \in A /\ j # i
    <3>1. j \in 1 .. i - 1
      <4>1. j \in Nat /\ j >= 1 /\ i \in Nat /\ a[i] \in Int
        OBVIOUS
      <4>2. ~ (j >= i)
        BY <2>1, <4>1
      <4> QED
        BY <4>1, <4>2
    <3>2. j \in DOMAIN a /\ b[j] = a[j]
      BY <3>1
    <3> QED
      BY <2>1, <3>1, <3>2 DEF At
  <2> QED
    BY <2>1 DEF At
<1>3. IsFiniteSet(B) /\ Cardinality(B) <= Cardinality(A) /\ (Cardinality(B) = Cardinality(A) => B = A)
  BY <1>1, <1>2, FS_Subset
<1>4. Cardinality(A) \in Nat /\ Cardinality(B) \in Nat
  BY <1>1, <1>3, FS_CardinalityType
<1> QED
  BY <1>1, <1>2, <1>3, <1>4

LEMMA SortedAreEqual ==
  ASSUME NEW a \in Seq(Int), NEW b \in Seq(Int), Ascending(a), Ascending(b),
         \A i \in DOMAIN a : Cardinality(At(a, {a[i]})) = Cardinality(At(b, {a[i]})),
         \A i \in DOMAIN b : Cardinality(At(b, {b[i]})) = Cardinality(At(a, {b[i]}))
  PROVE  a = b
<1> DEFINE Differ(i) == \/ i \in DOMAIN a /\ i \in DOMAIN b /\ a[i] # b[i]
                        \/ i \in DOMAIN a /\ i \notin DOMAIN b
                        \/ i \notin DOMAIN a /\ i \in DOMAIN b
           T == {i \in Nat : Differ(i)}
<1>0. /\ Len(a) \in Nat /\ DOMAIN a = 1 .. Len(a) /\ \A i \in 1 .. Len(a) : a[i] \in Int
      /\ Len(b) \in Nat /\ DOMAIN b = 1 .. Len(b) /\ \A i \in 1 .. Len(b) : b[i] \in Int
  OBVIOUS
<1>1. CASE T = {}
  <2>1. Len(a) = Len(b)
    <3>1. Len(a) + 1 \notin T /\ Len(b) + 1 \notin T
      BY <1>1
    <3>2. CASE Len(a) < Len(b)
      <4>1. Len(a) + 1 \in Nat /\ Len(a) + 1 \in DOMAIN b /\ Len(a) + 1 \notin DOMAIN a
        BY <1>0, <3>2
      <4> QED
        BY <3>1, <4>1
    <3>3. CASE Len(b) < Len(a)
      <4>1. Len(b) + 1 \in Nat /\ Len(b) + 1 \in DOMAIN a /\ Len(b) + 1 \notin DOMAIN b
        BY <1>0, <3>3
      <4> QED
        BY <3>1, <4>1
    <3>5. Len(a) \in Nat /\ Len(b) \in Nat
      BY <1>0
    <3>4. Len(a) = Len(b) \/ Len(a) < Len(b) \/ Len(b) < Len(a)
      BY ONLY <3>5
    <3> QED
      BY <3>2, <3>3, <3>4
  <2>2. ASSUME NEW i \in 1 .. Len(a) PROVE a[i] = b[i]
    <3>1. i \in Nat /\ i \notin T /\ i \in DOMAIN a /\ i \in DOMAIN b
      BY <1>0, <1>1, <2>1
    <3> QED
      BY <3>1
  <2> QED
    BY <2>1, <2>2, SeqEqual
<1>2. CASE T # {}
  <2>1. PICK i \in T : \A j \in T : i <= j
    BY <1>2, Numbers!LeastElement
  <2>2. i \in Nat /\ Differ(i)
    BY <2>1
  <2>3. ASSUME NEW j \in 1 .. i - 1 PROVE (j \in DOMAIN a <=> j \in DOMAIN b) /\ (j \in DOMAIN a => a[j] = b[j])
    <3>1. j \in Nat /\ j \notin T
      BY <2>1, <2>2
    <3> QED
      BY <3>1
  <2> HIDE DEF T
  <2>4. ASSUME i \in DOMAIN a, \A j \in DOMAIN b : j >= i => b[j] > a[i] PROVE FALSE
    <3>1. Cardinality(At(b, {a[i]})) < Cardinality(At(a, {a[i]}))
      BY <2>3, <2>4, OccursLess
    <3>2. Cardinality(At(a, {a[i]})) = Cardinality(At(b, {a[i]})) /\ Cardinality(At(a, {a[i]})) \in Nat
      BY <2>4, AtIsFinite
    <3> QED
      BY <3>1, <3>2
  <2>5. ASSUME i \in DOMAIN b, \A j \in DOMAIN a : j >= i => a[j] > b[i] PROVE FALSE
    <3>1. Cardinality(At(a, {b[i]})) < Cardinality(At(b, {b[i]}))
      BY <2>3, <2>5, OccursLess
    <3>2. Cardinality(At(b, {b[i]})) = Cardinality(At(a, {b[i]})) /\ Cardinality(At(b, {b[i]})) \in Nat
      BY <2>5, AtIsFinite
    <3> QED
      BY <3>1, <3>2
  <2>6. CASE i \in DOMAIN a /\ i \notin DOMAIN b
    <3>1. \A j \in DOMAIN b : ~ (j >= i)
      BY <1>0, <2>2, <2>6
    <3> QED
      BY <2>4, <2>6, <3>1
  <2>7. CASE i \notin DOMAIN a /\ i \in DOMAIN b
    <3>1. \A j \in DOMAIN a : ~ (j >= i)
      BY <1>0, <2>2, <2>7
    <3> QED
      BY <2>5, <2>7, <3>1
  <2>8. CASE i \in DOMAIN a /\ i \in DOMAIN b /\ a[i] < b[i]
    <3>1. ASSUME NEW j \in DOMAIN b, j >= i PROVE b[j] > a[i]
      <4>1. i = j \/ b[i] <= b[j]
        BY <1>0, <2>8, <3>1 DEF Ascending
      <4> QED
        BY <1>0, <2>8, <4>1
    <3> QED
      BY <2>4, <2>8, <3>1
  <2>9. CASE i \in DOMAIN a /\ i \in DOMAIN b /\ b[i] < a[i]
    <3>1. ASSUME NEW j \in DOMAIN a, j >= i PROVE a[j] > b[i]
      <4>1. i = j \/ a[i] <= a[j]
        BY <1>0, <2>9, <3>1 DEF Ascending
      <4> QED
        BY <1>0, <2>9, <4>1
    <3> QED
      BY <2>5, <2>9, <3>1
  <2>10. ASSUME i \in DOMAIN a, i \in DOMAIN b, a[i] # b[i] PROVE a[i] < b[i] \/ b[i] < a[i]
    BY <1>0, <2>10
  <2> QED
    BY <2>2, <2>6, <2>7, <2>8, <2>9, <2>10
<1> QED
  BY <1>1, <1>2

\* How often an issue is in a list.
Occurs(s, x) == Cardinality({p \in DOMAIN s : s[p] = x})

LEMMA SameKey ==
  ASSUME NEW m \in TrMail, NEW o \in TrMail
  PROVE  RetryKey(m.issues) = RetryKey(o.issues) <=> \A x \in TrIssue : Occurs(m.issues, x) = Occurs(o.issues, x)
<1> DEFINE s == m.issues
           t == o.issues
           a == RetryKey(s)
           b == RetryKey(t)
<1>1. s \in Seq(Int) /\ t \in Seq(Int)
  BY TriageAssumption
<1>2. \A q, x : Occurs(q, x) = Cardinality(At(q, {x}))
  <2>1. \A q, x : {p \in DOMAIN q : q[p] = x} = At(q, {x})
    BY DEF At
  <2> QED
    BY <2>1 DEF Occurs
<1>3. ToSet(s) \subseteq TrIssue /\ ToSet(t) \subseteq TrIssue
  BY DEF TrIssue
<1> HIDE DEF s, t
<1>4. KeyOf(s, a) /\ KeyOf(t, b)
  BY <1>1, KeyIs
<1>5. ASSUME a = b, NEW x PROVE Occurs(s, x) = Occurs(t, x)
  BY <1>2, <1>4, <1>5 DEF KeyOf
<1> HIDE DEF a, b
<1>6. ASSUME NEW q \in Seq(Int), NEW k, KeyOf(q, k), NEW i \in DOMAIN k PROVE k[i] \in ToSet(q)
  <2>1. /\ k \in Seq(Int) /\ Cardinality(At(k, {k[i]})) = Cardinality(At(q, {k[i]}))
    BY <1>6 DEF KeyOf
  <2>0. IsFiniteSet(At(k, {k[i]}))
    BY <2>1, AtIsFinite
  <2>2. IsFiniteSet(At(k, {k[i]})) /\ i \in At(k, {k[i]})
    BY <2>0 DEF At
  <2>3. Cardinality(At(q, {k[i]})) # 0
    BY <2>1, <2>2, FS_EmptySet
  <2>4. At(q, {k[i]}) # {}
    BY <2>3, FS_EmptySet
  <2> QED
    BY <2>4 DEF At, ToSet
<1>7. ASSUME \A x \in TrIssue : Occurs(s, x) = Occurs(t, x) PROVE a = b
  <2>1. a \in Seq(Int) /\ b \in Seq(Int) /\ Ascending(a) /\ Ascending(b)
    BY <1>4 DEF KeyOf
  <2>2. \A x \in TrIssue : Cardinality(At(a, {x})) = Cardinality(At(b, {x}))
    BY <1>2, <1>4, <1>7 DEF KeyOf
  <2>3. \A i \in DOMAIN a : a[i] \in TrIssue
    BY <1>1, <1>3, <1>4, <1>6
  <2>4. \A i \in DOMAIN b : b[i] \in TrIssue
    BY <1>1, <1>3, <1>4, <1>6
  <2>5. \A i \in DOMAIN a : Cardinality(At(a, {a[i]})) = Cardinality(At(b, {a[i]}))
    BY <2>2, <2>3
  <2>6. \A i \in DOMAIN b : Cardinality(At(b, {b[i]})) = Cardinality(At(a, {b[i]}))
    BY <2>2, <2>4
  <2> QED
    BY <2>1, <2>5, <2>6, SortedAreEqual
<1>8. a = b <=> \A x \in TrIssue : Occurs(s, x) = Occurs(t, x)
  BY <1>5, <1>7
<1> QED
  BY <1>8 DEF a, b, s, t

(***************************************************************************)
(* Retries: each count is of the mails in the log, and each decision was   *)
(* taken by the count at the time.                                         *)
(***************************************************************************)

Retried(m) == m.action = "retry" /\ m.issues # << >>
RetryPlaces(log, k, i) == {j \in 1 .. i : Retried(log[j].mail) /\ RetryKey(log[j].mail.issues) = k}

RetryHistory ==
  /\ \A k \in TrKeys : trCount[k] = Cardinality(RetryPlaces(trDone, k, Len(trDone)))
  /\ \A i \in DOMAIN trDone :
       Retried(trDone[i].mail) =>
         trDone[i].did = IF Cardinality(RetryPlaces(trDone, RetryKey(trDone[i].mail.issues), i)) > TrMaxRetries
                         THEN "escalate" ELSE "retry"

LEMMA RetriesAreFinite ==
  ASSUME NEW log, NEW k, NEW n \in Nat, NEW i \in 0 .. n
  PROVE  /\ IsFiniteSet(RetryPlaces(log, k, i)) /\ Cardinality(RetryPlaces(log, k, i)) \in Nat
         /\ Cardinality(RetryPlaces(log, k, i)) <= Cardinality(RetryPlaces(log, k, n))
<1>1. IsFiniteSet(1 .. n)
  BY FS_Interval
<1>2. RetryPlaces(log, k, i) \subseteq RetryPlaces(log, k, n) /\ RetryPlaces(log, k, n) \subseteq 1 .. n
  BY DEF RetryPlaces
<1>3. IsFiniteSet(RetryPlaces(log, k, n))
  BY <1>1, <1>2, FS_Subset
<1>4. IsFiniteSet(RetryPlaces(log, k, i)) /\ Cardinality(RetryPlaces(log, k, i)) <= Cardinality(RetryPlaces(log, k, n))
  BY <1>2, <1>3, FS_Subset
<1> QED
  BY <1>4, FS_CardinalityType

LEMMA RetriesStart ==
  ASSUME TrInit
  PROVE  RetryHistory
<1>1. trCount = [k \in TrKeys |-> 0] /\ trDone = << >>
  BY DEF TrInit
<1>2. Len(trDone) = 0 /\ DOMAIN trDone = {} /\ 1 .. 0 = {}
  BY <1>1
<1>3. \A k : RetryPlaces(trDone, k, Len(trDone)) = {}
  BY <1>2 DEF RetryPlaces
<1>4. Cardinality({}) = 0
  BY FS_EmptySet
<1> QED
  BY <1>1, <1>2, <1>3, <1>4 DEF RetryHistory

\* One more mail in the log.
LEMMA RetriesGrow ==
  ASSUME NEW D, NEW log \in Seq(D), NEW d \in D, NEW k
  PROVE  /\ \A i \in 0 .. Len(log) : RetryPlaces(Append(log, d), k, i) = RetryPlaces(log, k, i)
         /\ RetryPlaces(Append(log, d), k, Len(log) + 1) =
              RetryPlaces(log, k, Len(log)) \union
                (IF Retried(d.mail) /\ RetryKey(d.mail.issues) = k THEN {Len(log) + 1} ELSE {})
<1> DEFINE n == Len(log)
           t == Append(log, d)
<1>1. n \in Nat /\ t[n + 1] = d /\ \A i \in 1 .. n : t[i] = log[i]
  OBVIOUS
<1> HIDE DEF t
<1>2. ASSUME NEW i \in 0 .. n PROVE RetryPlaces(t, k, i) = RetryPlaces(log, k, i)
  BY <1>1 DEF RetryPlaces
<1>3. \A j \in 1 .. n + 1 : j = n + 1 \/ j \in 1 .. n
  BY <1>1
<1>4. 1 .. n \subseteq 1 .. n + 1 /\ n + 1 \in 1 .. n + 1
  BY <1>1
<1>5. \A j : j \in RetryPlaces(t, k, n + 1) <=>
               j \in RetryPlaces(log, k, n) \union
                 (IF Retried(d.mail) /\ RetryKey(d.mail.issues) = k THEN {n + 1} ELSE {})
  BY <1>1, <1>3, <1>4 DEF RetryPlaces
<1> QED
  BY <1>2, <1>5 DEF t, n

LEMMA RetriesCounted ==
  ASSUME NEW D, NEW log \in Seq(D), NEW d \in D, NEW k
  PROVE  Cardinality(RetryPlaces(Append(log, d), k, Len(log) + 1)) =
           Cardinality(RetryPlaces(log, k, Len(log)))
             + (IF Retried(d.mail) /\ RetryKey(d.mail.issues) = k THEN 1 ELSE 0)
<1> DEFINE n == Len(log)
           R == RetryPlaces(log, k, n)
           S == RetryPlaces(Append(log, d), k, n + 1)
<1>1. n \in Nat /\ n \in 0 .. n
  OBVIOUS
<1>2. IsFiniteSet(R) /\ Cardinality(R) \in Nat
  BY <1>1, RetriesAreFinite
<1>3. n + 1 \notin R
  BY <1>1 DEF RetryPlaces
<1>4. S = R \union (IF Retried(d.mail) /\ RetryKey(d.mail.issues) = k THEN {n + 1} ELSE {})
  BY RetriesGrow
<1> HIDE DEF n, R, S
<1>5. CASE Retried(d.mail) /\ RetryKey(d.mail.issues) = k
  <2>1. Cardinality(R \union {n + 1}) = Cardinality(R) + 1
    BY <1>2, <1>3, FS_AddElement
  <2> QED
    BY <1>4, <1>5, <2>1 DEF R, S, n
<1>6. CASE ~ (Retried(d.mail) /\ RetryKey(d.mail.issues) = k)
  <2>1. S = R
    BY <1>4, <1>6
  <2> QED
    BY <1>2, <1>6, <2>1 DEF R, S, n
<1> QED
  BY <1>5, <1>6

LEMMA RetryTriaged ==
  ASSUME RetryInv, RetryHistory, TriageMail
  PROVE  RetryHistory'
<1> DEFINE D == [mail : TrMail, did : {"escalate", "resolve", "retry", "pass"}]
           n == Len(trDone)
<1>1. PICK mail \in TrMail :
        LET key == RetryKey(mail.issues)
            c   == trCount[key] + 1
        IN  IF mail.action = "retry" /\ mail.issues # <<>>
            THEN /\ trCount' = [trCount EXCEPT ![key] = c]
                 /\ trDone' = Append(trDone, [mail |-> mail, did |-> DeterminePreFlightDecision(mail, c)])
            ELSE /\ UNCHANGED trCount
                 /\ trDone' = Append(trDone, [mail |-> mail, did |-> DeterminePreFlightDecision(mail, 0)])
  BY DEF TriageMail
<1> DEFINE key == RetryKey(mail.issues)
           c == trCount[key] + 1
<1>2. key \in TrKeys
  BY DEF TrKeys
<1>3. \A m : [mail |-> mail, did |-> DeterminePreFlightDecision(mail, m)] \in D
  BY DEF DeterminePreFlightDecision
<1>4. trDone \in Seq(D) /\ trCount \in [TrKeys -> Nat] /\ n \in Nat
  BY DEF RetryInv
<1>5. PICK d \in D : /\ trDone' = Append(trDone, d) /\ d.mail = mail
                     /\ Retried(mail) => d.did = IF c > TrMaxRetries THEN "escalate" ELSE "retry"
  <2>1. Retried(mail) => DeterminePreFlightDecision(mail, c) = IF c > TrMaxRetries THEN "escalate" ELSE "retry"
    BY DEF Retried, DeterminePreFlightDecision
  <2>2. CASE Retried(mail)
    <3>1. trDone' = Append(trDone, [mail |-> mail, did |-> DeterminePreFlightDecision(mail, c)])
      BY <1>1, <2>2 DEF Retried
    <3> QED
      BY <1>3, <2>1, <3>1
  <2>3. CASE ~ Retried(mail)
    <3>1. trDone' = Append(trDone, [mail |-> mail, did |-> DeterminePreFlightDecision(mail, 0)])
      BY <1>1, <2>3 DEF Retried
    <3> QED
      BY <1>3, <2>3, <3>1
  <2> QED
    BY <2>2, <2>3
<1>6. trCount' = IF Retried(mail) THEN [trCount EXCEPT ![key] = c] ELSE trCount
  BY <1>1 DEF Retried
<1>7. /\ trDone' \in Seq(D) /\ Len(trDone') = n + 1 /\ DOMAIN trDone' = 1 .. n + 1 /\ DOMAIN trDone = 1 .. n
      /\ trDone'[n + 1] = d /\ \A i \in 1 .. n : trDone'[i] = trDone[i]
  BY <1>4, <1>5
<1>8. ASSUME NEW k
      PROVE  Cardinality(RetryPlaces(trDone', k, n + 1))
               = Cardinality(RetryPlaces(trDone, k, n)) + (IF Retried(mail) /\ key = k THEN 1 ELSE 0)
  BY <1>4, <1>5, RetriesCounted
<1> HIDE DEF D, n, key, c
<1>9. ASSUME NEW k \in TrKeys PROVE trCount'[k] = Cardinality(RetryPlaces(trDone', k, n + 1))
  <2>1. trCount[k] = Cardinality(RetryPlaces(trDone, k, n)) /\ trCount[k] \in Nat
    BY <1>4 DEF RetryHistory, n
  <2>2. CASE Retried(mail) /\ key = k
    <3>1. trCount'[k] = trCount[k] + 1
      BY <1>2, <1>4, <1>6, <2>2 DEF c
    <3> QED
      BY <1>8, <2>1, <2>2, <3>1
  <2>3. CASE ~ (Retried(mail) /\ key = k)
    <3>1. trCount'[k] = trCount[k]
      BY <1>2, <1>4, <1>6, <2>3
    <3> QED
      BY <1>8, <2>1, <2>3, <3>1
  <2> QED
    BY <2>2, <2>3
<1>10. ASSUME NEW i \in 1 .. n + 1, Retried(trDone'[i].mail)
       PROVE  trDone'[i].did = IF Cardinality(RetryPlaces(trDone', RetryKey(trDone'[i].mail.issues), i)) > TrMaxRetries
                               THEN "escalate" ELSE "retry"
  <2>1. CASE i = n + 1
    <3>1. trDone'[i] = d /\ Retried(mail) /\ d.mail = mail
      BY <1>5, <1>7, <1>10, <2>1
    <3>2. Cardinality(RetryPlaces(trDone', key, n + 1)) = Cardinality(RetryPlaces(trDone, key, n)) + 1
      BY <1>8, <3>1
    <3>3. c = Cardinality(RetryPlaces(trDone, key, n)) + 1
      BY <1>2 DEF RetryHistory, c, n
    <3>4. d.did = IF Cardinality(RetryPlaces(trDone', key, n + 1)) > TrMaxRetries THEN "escalate" ELSE "retry"
      BY <1>5, <3>1, <3>2, <3>3
    <3> QED
      BY <2>1, <3>1, <3>4 DEF key
  <2>2. CASE i # n + 1
    <3>1. i \in 1 .. n /\ i \in 0 .. n /\ i \in DOMAIN trDone /\ trDone'[i] = trDone[i]
      BY <1>4, <1>7, <2>2
    <3>2. \A k : RetryPlaces(trDone', k, i) = RetryPlaces(trDone, k, i)
      BY <1>4, <1>5, <3>1, RetriesGrow DEF n
    <3> QED
      BY <1>10, <3>1, <3>2 DEF RetryHistory
  <2> QED
    BY <2>1, <2>2
<1> QED
  BY <1>7, <1>9, <1>10 DEF RetryHistory

LEMMA RetryStepKeeps == RetryInv /\ RetryHistory /\ [TrNext]_trVars => RetryHistory'
<1> SUFFICES ASSUME RetryInv, RetryHistory, [TrNext]_trVars PROVE RetryHistory'
  OBVIOUS
<1>1. ASSUME UNCHANGED << trCount, trDone >> PROVE RetryHistory'
  BY <1>1 DEF RetryHistory, RetryPlaces
<1>2. CASE Charge \/ Discharge \/ Decay
  BY <1>1, <1>2 DEF Charge, Discharge, Decay, OthersIdle
<1>3. CASE TriageMail
  BY <1>3, RetryTriaged
<1>4. CASE \E e \in TrExp : TryClaim(e) \/ ReleaseClaim(e)
  BY <1>1, <1>4 DEF TryClaim, ReleaseClaim, OthersIdle
<1>5. CASE ConsumeBudget \/ ResetBudget
  BY <1>1, <1>5 DEF ConsumeBudget, ResetBudget, OthersIdle
<1>6. CASE UNCHANGED trVars
  BY <1>1, <1>6 DEF trVars
<1> QED
  BY <1>2, <1>3, <1>4, <1>5, <1>6 DEF TrNext

LEMMA RetriesImply == RetryInv /\ RetryHistory => RetriesCapped
<1> SUFFICES ASSUME RetryInv, RetryHistory,
                    NEW i \in DOMAIN trDone, Retried(trDone[i].mail)
             PROVE  LET m == trDone[i].mail
                        same == {j \in 1 .. i :
                                   /\ trDone[j].mail.action = "retry"
                                   /\ \A x \in TrIssue : Occurs(m.issues, x) = Occurs(trDone[j].mail.issues, x)}
                    IN  /\ trDone[i].did = "retry" <=> Cardinality(same) <= TrMaxRetries
                        /\ trDone[i].did = "escalate" => Exhausted(RetryKey(m.issues)) \/ TrMaxRetries = 0
  BY DEF RetriesCapped, Retried, Occurs
<1> DEFINE m == trDone[i].mail
           key == RetryKey(m.issues)
           n == Len(trDone)
           same == {j \in 1 .. i :
                      /\ trDone[j].mail.action = "retry"
                      /\ \A x \in TrIssue : Occurs(m.issues, x) = Occurs(trDone[j].mail.issues, x)}
<1>1. /\ n \in Nat /\ i \in 0 .. n /\ i \in 1 .. n
      /\ \A j \in 1 .. n : trDone[j].mail \in TrMail
  <2> DEFINE D == [mail : TrMail, did : {"escalate", "resolve", "retry", "pass"}]
  <2>1. trDone \in Seq(D) /\ \A d \in D : d.mail \in TrMail
    BY DEF RetryInv
  <2> HIDE DEF D
  <2>2. n \in Nat /\ DOMAIN trDone = 1 .. n /\ \A j \in 1 .. n : trDone[j] \in D
    BY <2>1
  <2>3. i \in 0 .. n /\ i \in 1 .. n
    BY <2>2
  <2> QED
    BY <2>1, <2>2, <2>3
<1>2. m \in TrMail /\ key \in TrKeys /\ Retried(m)
  BY <1>1 DEF TrKeys
<1>3. ASSUME NEW j \in 1 .. i PROVE j \in same <=> j \in RetryPlaces(trDone, key, i)
  <2> DEFINE o == trDone[j].mail
  <2>1. o \in TrMail
    BY <1>1
  <2>2. key = RetryKey(o.issues) <=> \A x \in TrIssue : Occurs(m.issues, x) = Occurs(o.issues, x)
    BY <1>2, <2>1, SameKey
  <2>3. key = RetryKey(o.issues) => o.issues # << >>
    <3>1. m.issues \in Seq(Int) /\ o.issues \in Seq(Int) /\ m.issues # << >>
      BY <1>2, <2>1, TriageAssumption DEF Retried
    <3>2. Len(key) = Len(m.issues) /\ Len(RetryKey(o.issues)) = Len(o.issues)
      BY <3>1, KeyIs DEF KeyOf
    <3>3. Len(m.issues) # 0
      BY <3>1
    <3>4. o.issues = << >> => Len(o.issues) = 0
      OBVIOUS
    <3> QED
      BY <3>2, <3>3, <3>4
  <2> HIDE DEF m, key
  <2> QED
    BY <2>2, <2>3 DEF RetryPlaces, Retried
<1>4. same = RetryPlaces(trDone, key, i)
  <2>1. same \subseteq 1 .. i /\ RetryPlaces(trDone, key, i) \subseteq 1 .. i
    BY DEF RetryPlaces
  <2> HIDE DEF same
  <2> QED
    BY <1>3, <2>1
<1>5. trDone[i].did = IF Cardinality(RetryPlaces(trDone, key, i)) > TrMaxRetries THEN "escalate" ELSE "retry"
  BY <1>2 DEF RetryHistory
<1>6. trCount[key] = Cardinality(RetryPlaces(trDone, key, n))
  BY <1>2 DEF RetryHistory
<1>7. Cardinality(RetryPlaces(trDone, key, i)) \in Nat /\ Cardinality(RetryPlaces(trDone, key, i)) <= Cardinality(RetryPlaces(trDone, key, n))
      /\ Cardinality(RetryPlaces(trDone, key, n)) \in Nat
  <2>1. n \in 0 .. n
    BY <1>1
  <2> QED
    BY <1>1, <2>1, RetriesAreFinite
<1>8. TrMaxRetries \in Nat
  BY TriageAssumption
<1> HIDE DEF same, key, m, n
<1>9. trDone[i].did = "retry" <=> Cardinality(same) <= TrMaxRetries
  BY <1>4, <1>5, <1>7, <1>8
<1>10. trDone[i].did = "escalate" => Exhausted(key) \/ TrMaxRetries = 0
  BY <1>5, <1>6, <1>7, <1>8 DEF Exhausted
<1> QED
  BY <1>9, <1>10 DEF same, key, m

\* However a mail lists its issues, a set of issues is retried as often as it may
\* be and escalated from then on: however often it is told (retry_tracker.go,
\* preflight.go).
THEOREM RetriesAreCapped == TrSpec => []RetriesCapped
  BY TrInitially, TrStepKeeps, RetriesStart, RetryStepKeeps, RetriesImply, PTL DEF TrSpec

\* Statistics: the records and the issues have their types (metrics.go).
THEOREM StatisticsTypes == StSpec => []StTypeOK
<1> DEFINE Rec == [exp : StExp, status : {"started", "success", "failed", "skipped"}]
<1>1. StInit => StTypeOK
  BY Nothing DEF StInit, StTypeOK
<1>2. StTypeOK /\ [StNext]_stVars => StTypeOK'
  <2> SUFFICES ASSUME StTypeOK, [StNext]_stVars PROVE StTypeOK'
    OBVIOUS
  <2>1. stLog \in Seq(Rec) /\ stIssues \in Seq(0 .. 2)
    BY DEF StTypeOK
  <2>2. CASE RecordExpedition
    <3>1. PICK exp \in StExp, status \in {"started", "success", "failed", "skipped"} :
            stLog' = Append(stLog, [exp |-> exp, status |-> status])
      BY <2>2 DEF RecordExpedition
    <3>2. [exp |-> exp, status |-> status] \in Rec
      OBVIOUS
    <3>3. stIssues' = stIssues
      BY <2>2 DEF RecordExpedition
    <3> HIDE DEF Rec
    <3>4. stLog' \in Seq(Rec)
      BY <2>1, <3>1, <3>2, Appended
    <3> QED
      BY <2>1, <3>3, <3>4 DEF StTypeOK, Rec
  <2>3. CASE ListIssue
    <3>1. PICK priority \in 0 .. 2 : stIssues' = Append(stIssues, priority)
      BY <2>3 DEF ListIssue
    <3>2. stIssues' \in Seq(0 .. 2) /\ stLog' = stLog
      BY <2>1, <2>3, <3>1 DEF ListIssue
    <3> QED
      BY <2>1, <3>2 DEF StTypeOK
  <2>4. CASE UNCHANGED stVars
    BY <2>4 DEF stVars, StTypeOK
  <2> QED
    BY <2>2, <2>3, <2>4 DEF StNext
<1> QED
  BY <1>1, <1>2, PTL DEF StSpec

(***************************************************************************)
(* Statistics.  The results that count, and the trend.                     *)
(***************************************************************************)

StEvents == [exp : StExp, status : {"started", "success", "failed", "skipped"}]
Rated == {e \in StEvents : e.status \in {"success", "failed"}}

RatedOf == INSTANCE Folding WITH Step <- Keep

LEMMA RelevantAre == ASSUME StTypeOK PROVE Relevant \in Seq(Rated)
<1>1. stLog \in Seq(StEvents)
  BY DEF StTypeOK, StEvents
<1>2. << >> \in Seq(Rated)
  OBVIOUS
<1>3. \A v \in Seq(Rated), x \in StEvents : Keep(v, x) \in Seq(Rated)
  BY DEF Keep, Rated
<1>4. RatedOf!Folded(<< >>, stLog) \in Seq(Rated)
  BY <1>1, <1>2, <1>3, RatedOf!FoldKeeps
<1> QED
  BY <1>4 DEF Relevant, FoldLeft, MapThenFoldSet, Max, RatedOf!Folded, RatedOf!Greatest

LEMMA WinsAre ==
  ASSUME NEW T, NEW s \in Seq(T)
  PROVE  Wins(s) \in Nat /\ Wins(s) <= Len(s)
<1> DEFINE W == {i \in DOMAIN s : s[i].status = "success"}
<1>0. Len(s) \in Nat /\ W \subseteq 1 .. Len(s)
  OBVIOUS
<1>1. Len(s) \in Nat /\ W \subseteq 1 .. Len(s) /\ IsFiniteSet(1 .. Len(s)) /\ Cardinality(1 .. Len(s)) = Len(s)
  <2> HIDE DEF W
  <2>1. IsFiniteSet(1 .. Len(s)) /\ Cardinality(1 .. Len(s)) = IF 1 > Len(s) THEN 0 ELSE Len(s) - 1 + 1
    BY <1>0, FS_Interval
  <2> QED
    BY <1>0, <2>1
<1>2. Cardinality(W) <= Cardinality(1 .. Len(s)) /\ IsFiniteSet(W)
  BY <1>1, FS_Subset
<1>3. Cardinality(W) \in Nat
  BY <1>2, FS_CardinalityType
<1> QED
  BY <1>1, <1>2, <1>3 DEF Wins

LEMMA WindowIs ==
  ASSUME NEW T, NEW s \in Seq(T), NEW size \in Nat, size >= 1, Len(s) >= size
  PROVE  /\ SubSeq(s, 1, size) \in Seq(T) /\ Len(SubSeq(s, 1, size)) = size
         /\ LastOfLog(s, size) \in Seq(T) /\ Len(LastOfLog(s, size)) = size
<1>1. Len(s) \in Nat /\ Len(s) - size + 1 \in 1 .. Len(s) /\ Len(s) - (Len(s) - size + 1) + 1 = size
  OBVIOUS
<1>2. SubSeq(s, 1, size) \in Seq(T) /\ Len(SubSeq(s, 1, size)) = size
  BY <1>1
<1> DEFINE f == Len(s) - size + 1
<1> HIDE DEF f
<1>3. SubSeq(s, f, Len(s)) \in Seq(T) /\ Len(SubSeq(s, f, Len(s))) = Len(s) - f + 1
  <2>1. f \in 1 .. Len(s) /\ Len(s) \in Nat
    BY <1>1 DEF f
  <2> QED
    BY <2>1
<1> QED
  BY <1>1, <1>2, <1>3 DEF LastOfLog, f

LEMMA TrendIs == ASSUME StTypeOK PROVE TrendSound
<1> SUFFICES ASSUME NEW size \in StWindow, Len(Relevant) >= size
             PROVE  LET recent == WindowedSuccessRate(size)[1]
                        trend  == DetectSuccessRateTrend(size)
                    IN  /\ recent = size => trend # "declining"
                        /\ recent = 0 => trend # "improving"
                        /\ Len(Relevant) = 2 * size /\ size < 10 =>
                             (trend = "improving" <=> recent > Wins(SubSeq(Relevant, 1, size)))
  BY DEF TrendSound
<1> DEFINE n == Len(Relevant)
           last == LastOfLog(Relevant, size)
           first == SubSeq(Relevant, 1, size)
           recent == WindowedSuccessRate(size)[1]
           trend  == DetectSuccessRateTrend(size)
           l == Wins(last)
           f == Wins(first)
<1>1. Relevant \in Seq(Rated) /\ size \in Nat /\ size >= 1
  BY RelevantAre, StatisticsAssumption
<1>2. n \in Nat /\ n >= size
  BY <1>1
<1>3. last \in Seq(Rated) /\ Len(last) = size /\ first \in Seq(Rated) /\ Len(first) = size
  BY <1>1, WindowIs
<1>4. l \in Nat /\ l <= size /\ f \in Nat /\ f <= size
  BY <1>3, WinsAre
<1>5. n > size => recent = l
  BY DEF WindowedSuccessRate
<1>6. trend = IF n < 2 * size THEN "stable"
              ELSE IF 10 * (l - f) > size THEN "improving"
              ELSE IF 10 * (l - f) < -size THEN "declining" ELSE "stable"
  BY DEF DetectSuccessRateTrend
<1> HIDE DEF n, last, first, recent, trend, l, f
<1>7. CASE n < 2 * size
  <2>1. trend = "stable" /\ n # 2 * size
    BY <1>1, <1>2, <1>6, <1>7
  <2> QED
    BY <2>1 DEF trend, n
<1>8. CASE ~ (n < 2 * size)
  <2>1. recent = l
    BY <1>1, <1>2, <1>5, <1>8
  <2>2. trend = IF 10 * (l - f) > size THEN "improving"
                ELSE IF 10 * (l - f) < -size THEN "declining" ELSE "stable"
    BY <1>1, <1>4, <1>6, <1>8
  <2>3. ~ (l = size /\ 10 * (l - f) < -size)
    BY <1>1, <1>4
  <2>4. ~ (l = 0 /\ 10 * (l - f) > size)
    BY <1>1, <1>4
  <2>5. size < 10 => (10 * (l - f) > size <=> l > f)
    BY <1>1, <1>4
  <2>6. /\ l = size => trend # "declining"
        /\ l = 0 => trend # "improving"
        /\ size < 10 => (trend = "improving" <=> l > f)
    BY <2>2, <2>3, <2>4, <2>5
  <2> QED
    BY <2>1, <2>6 DEF recent, trend, f, first, n
<1> QED
  BY <1>7, <1>8

(***************************************************************************)
(* Durations and percentiles.                                              *)
(***************************************************************************)

\* A duration in the log.
Durations ==
  {d \in [at : 1 .. Len(stLog), took : Int] :
     /\ stLog[d.at].status \in {"success", "failed"}
     /\ Starts(stLog[d.at].exp) # {}
     /\ d.took = d.at - Max(Starts(stLog[d.at].exp))}

Timed == INSTANCE Folding WITH Step <- AddDuration

LEMMA LastStart ==
  ASSUME StTypeOK, NEW exp, Starts(exp) # {}
  PROVE  /\ Max(Starts(exp)) \in Starts(exp) /\ Max(Starts(exp)) \in 1 .. Len(stLog)
         /\ \A j \in Starts(exp) : j <= Max(Starts(exp)) /\ j \in Nat
<1>1. Len(stLog) \in Nat /\ DOMAIN stLog = 1 .. Len(stLog)
  BY DEF StTypeOK
<1>2. Starts(exp) \subseteq 1 .. Len(stLog)
  BY <1>1 DEF Starts
<1>3. Starts(exp) \subseteq 0 .. Len(stLog)
  BY <1>1, <1>2
<1> QED
  BY <1>1, <1>2, <1>3, GreatestOf

LEMMA DurationsAre == ASSUME StTypeOK PROVE ExpeditionDurations \in Seq(Durations)
<1> DEFINE n == Len(stLog)
           s == [i \in DOMAIN stLog |-> i]
<1>1. n \in Nat /\ DOMAIN stLog = 1 .. n
  BY DEF StTypeOK
<1>2. s \in Seq(1 .. n)
  BY <1>1
<1>3. << >> \in Seq(Durations)
  OBVIOUS
<1>4. ASSUME NEW v \in Seq(Durations), NEW i \in 1 .. n PROVE AddDuration(v, i) \in Seq(Durations)
  <2> DEFINE d == [at |-> i, took |-> i - Max(Starts(stLog[i].exp))]
  <2>1. CASE stLog[i].status \in {"success", "failed"} /\ Starts(stLog[i].exp) # {}
    <3>1. Max(Starts(stLog[i].exp)) \in 1 .. n
      BY <2>1, LastStart
    <3>2. d.at = i /\ d.took = i - Max(Starts(stLog[i].exp)) /\ d \in [at : 1 .. n, took : Int]
      BY <1>1, <3>1
    <3> HIDE DEF d
    <3>3. d \in Durations
      BY <2>1, <3>2 DEF Durations
    <3>4. AddDuration(v, i) = Append(v, d)
      BY <2>1 DEF AddDuration, d
    <3> QED
      BY <3>3, <3>4
  <2>2. CASE ~ (stLog[i].status \in {"success", "failed"} /\ Starts(stLog[i].exp) # {})
    BY <2>2 DEF AddDuration
  <2> QED
    BY <2>1, <2>2
<1> HIDE DEF s, n
<1>5. Timed!Folded(<< >>, s) \in Seq(Durations)
  BY <1>2, <1>3, <1>4, Timed!FoldKeeps
<1>6. ExpeditionDurations = FoldLeft(AddDuration, << >>, s)
  BY DEF ExpeditionDurations, s
<1> QED
  BY <1>5, <1>6 DEF FoldLeft, MapThenFoldSet, Max, Timed!Folded, Timed!Greatest

LEMMA DurationsHold == ASSUME StTypeOK PROVE DurationsSound
<1> SUFFICES ASSUME NEW d \in ToSet(ExpeditionDurations)
             PROVE  d.took <= 0 <=> \E j \in Starts(stLog[d.at].exp) : j > d.at
  BY DEF DurationsSound
<1>1. d \in Durations
  BY DurationsAre DEF ToSet
<1> DEFINE exp == stLog[d.at].exp
           last == Max(Starts(exp))
<1>2. /\ d.at \in 1 .. Len(stLog) /\ d.took = d.at - last /\ Starts(exp) # {}
      /\ stLog[d.at].status \in {"success", "failed"}
  BY <1>1 DEF Durations
<1>3. /\ last \in Starts(exp) /\ last \in 1 .. Len(stLog)
      /\ \A j \in Starts(exp) : j <= last /\ j \in Nat
  BY <1>2, LastStart
<1>4. d.at \notin Starts(exp)
  BY <1>2 DEF Starts
<1>5. last # d.at /\ Len(stLog) \in Nat
  BY <1>3, <1>4 DEF StTypeOK
<1> HIDE DEF last, exp
<1>6. d.took <= 0 => last > d.at
  BY <1>2, <1>3, <1>5
<1>7. ASSUME NEW j \in Starts(exp), j > d.at PROVE d.took <= 0
  <2>1. j \in Nat /\ j <= last
    BY <1>3
  <2>2. last \in Nat /\ d.at \in Nat
    BY <1>2, <1>3, <1>5
  <2>3. d.took = d.at - last
    BY <1>2
  <2> QED
    BY ONLY <1>7, <2>1, <2>2, <2>3
<1> QED
  BY <1>3, <1>6, <1>7 DEF exp

Sorted == INSTANCE Folding WITH Step <- InsertDuration

\* What q looks like sorted.
SortedOf(q, k) ==
  /\ k \in Seq(Int) /\ Len(k) = Len(q) /\ Ascending(k)
  /\ \A i \in DOMAIN k : k[i] \in {d.took : d \in ToSet(q)}

LEMMA SortedGrows ==
  ASSUME NEW D, \A e \in D : e.took \in Int, NEW q \in Seq(D), NEW d \in D, NEW k, SortedOf(q, k)
  PROVE  SortedOf(Append(q, d), InsertDuration(k, d))
<1> DEFINE r == InsertIssue(k, d.took)
           t == Append(q, d)
           n == Len(q)
<1>1. k \in Seq(Int) /\ Ascending(k) /\ Len(k) = n /\ n \in Nat /\ DOMAIN k = 1 .. n /\ d.took \in Int
  BY DEF SortedOf
<1>2. r \in Seq(Int) /\ Ascending(r) /\ \E l \in 0 .. Len(k) : HasInserted(r, k, l, d.took)
  BY <1>1, NumberInserted
<1>3. t \in Seq(D) /\ Len(t) = n + 1 /\ DOMAIN q = 1 .. n /\ DOMAIN t = 1 .. n + 1 /\ t[n + 1] = d
      /\ \A i \in 1 .. n : t[i] = q[i]
  OBVIOUS
<1>4. r = InsertDuration(k, d)
  BY DEF InsertIssue, InsertDuration
<1> HIDE DEF r, t, n
<1>5. PICK l \in 0 .. n : HasInserted(r, k, l, d.took)
  BY <1>1, <1>2
<1>6. /\ Len(r) = n + 1 /\ DOMAIN r = 1 .. n + 1 /\ r[l + 1] = d.took
      /\ \A i \in 1 .. l : r[i] = k[i]
      /\ \A i \in l + 2 .. n + 1 : r[i] = k[i - 1]
  BY <1>1, <1>5 DEF HasInserted
<1>7. d \in ToSet(t) /\ ToSet(q) \subseteq ToSet(t)
  <2>1. n + 1 \in 1 .. n + 1 /\ 1 .. n \subseteq 1 .. n + 1
    BY <1>1
  <2> QED
    BY <1>3, <2>1 DEF ToSet
<1>8. ASSUME NEW i \in 1 .. n PROVE k[i] \in {e.took : e \in ToSet(t)}
  BY <1>1, <1>7 DEF SortedOf
<1>9. ASSUME NEW i \in 1 .. n + 1 PROVE r[i] \in {e.took : e \in ToSet(t)}
  <2>1. CASE i \in 1 .. l /\ i \in 1 .. n
    BY <1>6, <1>8, <2>1
  <2>2. CASE i = l + 1
    BY <1>6, <1>7, <2>2
  <2>3. CASE i \in l + 2 .. n + 1 /\ i - 1 \in 1 .. n
    BY <1>6, <1>8, <2>3
  <2> QED
    BY <1>1, <2>1, <2>2, <2>3, PlaceAmong
<1>10. SortedOf(t, r)
  BY <1>2, <1>3, <1>6, <1>9 DEF SortedOf
<1> QED
  BY <1>4, <1>10 DEF t

LEMMA SortedIs == ASSUME StTypeOK PROVE SortedOf(ExpeditionDurations, SortedDurations)
<1> DEFINE F(q) == Sorted!Folded(<< >>, q)
           D == {d \in [at : 1 .. Len(stLog), took : Int] : TRUE}
           G == {q \in Seq(D) : SortedOf(q, F(q))}
<1>0. \A d \in D : d.took \in Int
  OBVIOUS
<1>1. F(<< >>) = << >>
  BY Sorted!FoldEmpty
<1>2. SortedOf(<< >>, << >>)
  BY DEF SortedOf, Ascending
<1>9. Durations \subseteq D
  BY DEF Durations
<1> HIDE DEF D
<1>3. << >> \in G
  BY <1>1, <1>2
<1>4. ASSUME NEW q \in Seq(D), NEW d \in D, q \in G PROVE Append(q, d) \in G
  <2>1. F(Append(q, d)) = InsertDuration(F(q), d)
    BY Sorted!FoldAppend
  <2>2. SortedOf(Append(q, d), InsertDuration(F(q), d))
    <3>1. SortedOf(q, F(q))
      BY <1>4
    <3> HIDE DEF F
    <3> QED
      BY <1>0, <3>1, SortedGrows
  <2>3. Append(q, d) \in Seq(D)
    OBVIOUS
  <2> HIDE DEF F
  <2> QED
    BY <2>1, <2>2, <2>3
<1> HIDE DEF G
<1>5. Seq(D) \subseteq G
  BY <1>3, <1>4, Sorted!SequencesGrow
<1>6. ExpeditionDurations \in Seq(D)
  BY <1>9, DurationsAre
<1>7. SortedDurations = F(ExpeditionDurations)
  BY DEF SortedDurations, FoldLeft, MapThenFoldSet, Max, Sorted!Folded, Sorted!Greatest
<1>8. ExpeditionDurations \in G
  BY <1>5, <1>6
<1> QED
  BY <1>7, <1>8 DEF G

LEMMA PercentilesHold == ASSUME StTypeOK PROVE PercentilesSound
<1> DEFINE sorted == SortedDurations
           n == Len(sorted)
           a == 1 + ((n - 1) * 50) \div 100
           b == 1 + ((n - 1) * 90) \div 100
           c == 1 + ((n - 1) * 99) \div 100
           took == {d.took : d \in ToSet(ExpeditionDurations)}
<1>1. SortedOf(ExpeditionDurations, sorted)
  BY SortedIs
<1>2. sorted \in Seq(Int) /\ Ascending(sorted) /\ (\A i \in DOMAIN sorted : sorted[i] \in took)
  BY <1>1 DEF SortedOf
<1> HIDE DEF sorted, took
<1>3. n \in Nat /\ DOMAIN sorted = 1 .. n /\ (\A i \in 1 .. n : sorted[i] \in Int) /\ (sorted # << >> => n >= 1)
  BY <1>2
<1> SUFFICES ASSUME n >= 1
             PROVE  /\ sorted[a] <= sorted[b] /\ sorted[b] <= sorted[c]
                    /\ {sorted[a], sorted[b], sorted[c]} \subseteq took
                    /\ 2 * Cardinality({i \in DOMAIN sorted : sorted[i] <= sorted[a]}) >= n
  BY <1>3 DEF PercentilesSound, Percentile, sorted, took
<1> HIDE DEF n
<1>4. a \in 1 .. n /\ b \in 1 .. n /\ c \in 1 .. n /\ a <= b /\ b <= c /\ 2 * a >= n
  BY <1>3
<1> HIDE DEF a, b, c
<1>5. \A i, j \in 1 .. n : i <= j => sorted[i] <= sorted[j]
  <2>1. ASSUME NEW i \in 1 .. n, NEW j \in 1 .. n, i <= j PROVE sorted[i] <= sorted[j]
    <3>1. i = j \/ i < j
      BY <1>3, <2>1
    <3> QED
      BY <1>2, <1>3, <3>1 DEF Ascending
  <2> QED
    BY <2>1
<1>6. sorted[a] <= sorted[b] /\ sorted[b] <= sorted[c]
  BY <1>4, <1>5
<1>7. {sorted[a], sorted[b], sorted[c]} \subseteq took
  BY <1>2, <1>3, <1>4
<1> DEFINE H == {i \in DOMAIN sorted : sorted[i] <= sorted[a]}
<1>8. 1 .. a \subseteq H /\ H \subseteq 1 .. n
  <2>1. ASSUME NEW i \in 1 .. a PROVE i \in H
    <3>1. i \in 1 .. n /\ i <= a
      BY <1>3, <1>4
    <3> QED
      BY <1>3, <1>4, <1>5, <3>1
  <2> QED
    BY <1>3, <2>1
<1>9. IsFiniteSet(1 .. n) /\ IsFiniteSet(1 .. a) /\ Cardinality(1 .. a) = a
  <2>1. a \in Int /\ 1 \in Int /\ n \in Int /\ ~ (1 > a) /\ a - 1 + 1 = a
    BY <1>3, <1>4
  <2>2. IsFiniteSet(1 .. n) /\ IsFiniteSet(1 .. a) /\ Cardinality(1 .. a) = IF 1 > a THEN 0 ELSE a - 1 + 1
    BY <2>1, FS_Interval
  <2> QED
    BY <2>1, <2>2
<1> HIDE DEF H
<1>10. IsFiniteSet(H) /\ Cardinality(1 .. a) <= Cardinality(H) /\ Cardinality(H) \in Nat
  BY <1>8, <1>9, FS_Subset, FS_CardinalityType
<1>11. 2 * Cardinality(H) >= n
  BY <1>3, <1>4, <1>9, <1>10
<1> QED
  BY <1>6, <1>7, <1>11 DEF H

(***************************************************************************)
(* The sequential test.                                                    *)
(***************************************************************************)

Test == INSTANCE Folding WITH Step <- TakeResult
Undecided == [lambda |-> 0, used |-> 0, verdict |-> "inconclusive"]
TestOf(q) == Test!Folded(Undecided, q)
Verdicts == [lambda : Int, used : Nat, verdict : {"pass", "fail", "inconclusive"}]

\* The logarithm after wins among used results.
Lambda(wins, used) == StGain * wins - StLoss * (used - wins)

\* Where the test stands after q.
TestIs(q, v) ==
  /\ v \in Verdicts /\ v.used <= Len(q)
  /\ v.verdict = "inconclusive" => v.used = Len(q)
  /\ v.lambda = Lambda(Wins(SubSeq(q, 1, v.used)), v.used)
  /\ v.verdict = "inconclusive" <=> v.lambda \in 1 - StLower .. StUpper - 1

LEMMA OneMoreTimes == ASSUME NEW a \in Nat, NEW b \in Nat PROVE a * (b + 1) = a * b + a /\ a * b \in Nat
  OBVIOUS

LEMMA WinsAppended ==
  ASSUME NEW q \in Seq(Rated), NEW r \in Rated
  PROVE  Wins(Append(q, r)) = Wins(q) + (IF r.status = "success" THEN 1 ELSE 0)
<1> DEFINE V == {e \in Rated : e.status = "success"}
           t == Append(q, r)
<1>1. Cardinality(At(t, V)) = Cardinality(At(q, V)) + (IF r \in V THEN 1 ELSE 0)
  BY CountAppended
<1>2. t \in Seq(Rated)
  OBVIOUS
<1> HIDE DEF t
<1>3. ASSUME NEW s \in Seq(Rated) PROVE Wins(s) = Cardinality(At(s, V))
  <2>1. {i \in DOMAIN s : s[i].status = "success"} = At(s, V)
    BY DEF At
  <2> QED
    BY <2>1 DEF Wins
<1> QED
  BY <1>1, <1>2, <1>3 DEF t

LEMMA TestGrows ==
  ASSUME NEW q \in Seq(Rated), NEW r \in Rated, NEW v, TestIs(q, v)
  PROVE  TestIs(Append(q, r), TakeResult(v, r))
<1> DEFINE t == Append(q, r)
           w == TakeResult(v, r)
           n == Len(q)
           W == Wins(SubSeq(q, 1, v.used))
<1> USE StatisticsAssumption
<1>1. /\ n \in Nat /\ t \in Seq(Rated) /\ Len(t) = n + 1
      /\ v \in Verdicts /\ v.used \in Nat /\ v.used <= n /\ v.lambda \in Int
  BY DEF TestIs, Verdicts
<1>2. SubSeq(t, 1, v.used) = SubSeq(q, 1, v.used)
  BY <1>1
<1>3. CASE v.verdict # "inconclusive"
  <2>1. w = v
    BY <1>3 DEF TakeResult
  <2> HIDE DEF t, w
  <2>2. TestIs(t, v)
    <3>1. v.used <= Len(t)
      BY <1>1
    <3> QED
      BY <1>2, <1>3, <3>1 DEF TestIs
  <2> QED
    BY <2>1, <2>2 DEF t, w
<1>4. CASE v.verdict = "inconclusive"
  <2> DEFINE l == v.lambda + (IF r.status = "success" THEN StGain ELSE -StLoss)
             z == IF l >= StUpper THEN "pass" ELSE IF l <= -StLower THEN "fail" ELSE "inconclusive"
  <2>1. w = [lambda |-> l, used |-> v.used + 1, verdict |-> z]
    BY <1>4 DEF TakeResult
  <2>2. v.used = n /\ v.lambda = StGain * W - StLoss * (n - W)
    BY <1>4 DEF TestIs, Lambda
  <2>3. SubSeq(q, 1, n) = q /\ SubSeq(t, 1, n + 1) = t
    BY <1>1
  <2>4. W = Wins(q) /\ W \in Nat /\ W <= n
    BY <2>2, <2>3, WinsAre
  <2>5. Wins(t) = W + (IF r.status = "success" THEN 1 ELSE 0)
    BY <2>4, WinsAppended
  <2>6. l \in Int /\ z \in {"pass", "fail", "inconclusive"}
        /\ (z = "inconclusive" <=> l \in 1 - StLower .. StUpper - 1)
    BY <1>1
  <2> DEFINE u == n - W
  <2>7. u \in Nat
    BY <1>1, <2>4
  <2>8. n = W + u
    BY <1>1, <2>4
  <2> HIDE DEF t, w, z, W, u
  <2>9. l = StGain * Wins(t) - StLoss * ((n + 1) - Wins(t))
    <3>1. CASE r.status = "success"
      <4>1. Wins(t) = W + 1 /\ (n + 1) - Wins(t) = u
        BY <2>4, <2>5, <2>7, <2>8, <3>1
      <4>2. n - W = u
        BY <2>4, <2>7, <2>8
      <4>3. StGain * (W + 1) = StGain * W + StGain /\ StGain * W \in Nat /\ StLoss * u \in Nat
        BY <2>4, <2>7, OneMoreTimes
      <4>4. l = StGain * W - StLoss * u + StGain
        BY <2>2, <3>1, <4>2
      <4> QED
        BY <4>1, <4>3, <4>4
    <3>2. CASE r.status # "success"
      <4>1. Wins(t) = W /\ (n + 1) - Wins(t) = u + 1
        BY <2>4, <2>5, <2>7, <2>8, <3>2
      <4>2. n - W = u
        BY <2>4, <2>7, <2>8
      <4>3. StLoss * (u + 1) = StLoss * u + StLoss /\ StGain * W \in Nat /\ StLoss * u \in Nat
        BY <2>4, <2>7, OneMoreTimes
      <4>4. l = StGain * W - StLoss * u + (- StLoss)
        BY <2>2, <3>2, <4>2
      <4> QED
        BY <4>1, <4>3, <4>4
    <3> QED
      BY <3>1, <3>2
  <2> HIDE DEF l
  <2>10. w \in Verdicts /\ w.lambda = l /\ w.used = n + 1 /\ w.verdict = z
    BY <1>1, <2>1, <2>2, <2>6 DEF Verdicts
  <2>12. l = Lambda(Wins(SubSeq(t, 1, w.used)), w.used)
    BY <2>3, <2>9, <2>10 DEF Lambda
  <2>13. w.used <= Len(t) /\ w.used = Len(t)
    BY <1>1, <2>10
  <2>11. TestIs(t, w)
    BY <2>6, <2>10, <2>12, <2>13 DEF TestIs
  <2> QED
    BY <2>11 DEF t, w
<1> QED
  BY <1>3, <1>4

LEMMA TestAppend ==
  ASSUME NEW q \in Seq(Rated), NEW r \in Rated
  PROVE  TestOf(Append(q, r)) = TakeResult(TestOf(q), r)
  BY Test!FoldAppend DEF TestOf

LEMMA TestStands == ASSUME NEW q \in Seq(Rated) PROVE TestIs(q, TestOf(q))
<1> DEFINE G == {s \in Seq(Rated) : TestIs(s, TestOf(s))}
<1>1. TestOf(<< >>) = Undecided
  BY Test!FoldEmpty DEF TestOf
<1>2. TestIs(<< >>, Undecided)
  <2>1. SubSeq(<< >>, 1, 0) = << >> /\ Len(<< >>) = 0
    OBVIOUS
  <2>2. Wins(<< >>) = 0
    <3>1. {i \in DOMAIN << >> : << >>[i].status = "success"} = {}
      OBVIOUS
    <3> QED
      BY <3>1, FS_EmptySet DEF Wins
  <2>3. Undecided \in Verdicts /\ Undecided.used = 0 /\ Undecided.lambda = 0 /\ Undecided.verdict = "inconclusive"
    BY DEF Undecided, Verdicts
  <2>4. Lambda(0, 0) = 0 /\ 0 \in 1 - StLower .. StUpper - 1
    BY StatisticsAssumption DEF Lambda
  <2> HIDE DEF Undecided
  <2>5. Undecided.lambda = Lambda(Wins(SubSeq(<< >>, 1, Undecided.used)), Undecided.used)
    BY <2>1, <2>2, <2>3, <2>4
  <2>6. Undecided.used <= Len(<< >>) /\ Undecided.used = Len(<< >>)
    BY <2>1, <2>3
  <2> QED
    BY <2>3, <2>4, <2>5, <2>6 DEF TestIs
<1>3. << >> \in G
  BY <1>1, <1>2
<1>4. ASSUME NEW s \in Seq(Rated), NEW r \in Rated, s \in G PROVE Append(s, r) \in G
  <2>1. TestIs(Append(s, r), TestOf(Append(s, r)))
    BY <1>4, TestGrows, TestAppend
  <2>2. Append(s, r) \in Seq(Rated)
    OBVIOUS
  <2> QED
    BY <2>1, <2>2
<1> HIDE DEF G
<1>5. Seq(Rated) \subseteq G
  BY <1>3, <1>4, Test!SequencesGrow
<1> QED
  BY <1>5 DEF G

\* A verdict stays.
LEMMA VerdictStays ==
  ASSUME NEW q \in Seq(Rated), NEW n \in 0 .. Len(q), TestOf(SubSeq(q, 1, n)).verdict # "inconclusive"
  PROVE  TestOf(q) = TestOf(SubSeq(q, 1, n))
<1> DEFINE VerdictHolds(s) == \A m \in 0 .. Len(s) : TestOf(SubSeq(s, 1, m)).verdict # "inconclusive"
                                              => TestOf(s) = TestOf(SubSeq(s, 1, m))
           G == {s \in Seq(Rated) : VerdictHolds(s)}
<1>1. << >> \in G
  <2>1. Len(<< >>) = 0 /\ SubSeq(<< >>, 1, 0) = << >> /\ << >> \in Seq(Rated)
    OBVIOUS
  <2>2. \A m \in 0 .. 0 : m = 0
    OBVIOUS
  <2> QED
    BY <2>1, <2>2
<1>2. ASSUME NEW s \in Seq(Rated), NEW r \in Rated, s \in G PROVE Append(s, r) \in G
  <2> DEFINE t == Append(s, r)
             k == Len(s)
  <2>1. k \in Nat /\ t \in Seq(Rated) /\ Len(t) = k + 1 /\ SubSeq(t, 1, k + 1) = t
    OBVIOUS
  <2>2. \A m \in 0 .. k : SubSeq(t, 1, m) = SubSeq(s, 1, m)
    OBVIOUS
  <2>3. TestOf(t) = TakeResult(TestOf(s), r)
    BY TestAppend
  <2> HIDE DEF t
  <2>4. ASSUME NEW m \in 0 .. k + 1, TestOf(SubSeq(t, 1, m)).verdict # "inconclusive"
        PROVE  TestOf(t) = TestOf(SubSeq(t, 1, m))
    <3>1. CASE m = k + 1
      BY <2>1, <3>1
    <3>2. CASE m \in 0 .. k
      <4>1. TestOf(SubSeq(s, 1, m)).verdict # "inconclusive" /\ SubSeq(t, 1, m) = SubSeq(s, 1, m)
        BY <2>2, <2>4, <3>2
      <4>2. TestOf(s) = TestOf(SubSeq(s, 1, m))
        BY <1>2, <3>2, <4>1
      <4> QED
        BY <2>3, <4>1, <4>2 DEF TakeResult
    <3> QED
      BY <2>1, <3>1, <3>2
  <2> QED
    BY <2>1, <2>4 DEF t
<1> HIDE DEF G
<1>3. Seq(Rated) \subseteq G
  BY <1>1, <1>2, Test!SequencesGrow
<1> QED
  BY <1>3 DEF G

LEMMA SPRTIs == \A q : SPRT(q) = TestOf(q)
  BY DEF SPRT, TestOf, Undecided, FoldLeft, MapThenFoldSet, Max, Test!Folded, Test!Greatest

LEMMA SPRTHolds == ASSUME StTypeOK PROVE SPRTSound
<1> DEFINE q == Relevant
<1>1. q \in Seq(Rated) /\ Len(q) \in Nat
  BY RelevantAre
<1> HIDE DEF q
<1>2. ASSUME NEW n \in 0 .. Len(q)
      PROVE  LET early == TestOf(SubSeq(q, 1, n))
                 wins  == Wins(SubSeq(q, 1, early.used))
             IN  /\ early.verdict # "inconclusive" => TestOf(q) = early
                 /\ early.lambda = StGain * wins - StLoss * (early.used - wins)
                 /\ early.verdict = "inconclusive" <=> early.lambda \in 1 - StLower .. StUpper - 1
  <2> DEFINE p == SubSeq(q, 1, n)
             v == TestOf(p)
  <2>1. p \in Seq(Rated) /\ Len(p) = n /\ n \in Nat
    BY <1>1
  <2>2. \A m \in 0 .. n : SubSeq(p, 1, m) = SubSeq(q, 1, m)
    BY <1>1
  <2>3. v.verdict # "inconclusive" => TestOf(q) = v
    BY <1>1, VerdictStays
  <2> HIDE DEF p
  <2>4. TestIs(p, v)
    BY <2>1, TestStands
  <2> HIDE DEF v
  <2>5. v.used \in Nat /\ v.used <= n
    BY <2>1, <2>4 DEF TestIs, Verdicts
  <2>6. v.used \in 0 .. n
    BY <2>1, <2>5
  <2>7. SubSeq(p, 1, v.used) = SubSeq(q, 1, v.used)
    BY <2>2, <2>6
  <2> QED
    BY <2>3, <2>4, <2>7 DEF TestIs, Lambda, v, p
<1> QED
  BY <1>2, SPRTIs DEF SPRTSound, q

(***************************************************************************)
(* The order of the issues.                                                *)
(***************************************************************************)

Issues == [id : Nat, priority : 0 .. 2]
Rank(x) == IF x.priority = 0 THEN 5 ELSE x.priority
Precedes(x, y) == Rank(x) < Rank(y) \/ (Rank(x) = Rank(y) /\ x.id < y.id)

Placed == INSTANCE Folding WITH Step <- InsertByPriority
PlacedOf(q) == Placed!Folded(<< >>, q)

\* The issues of q in the order of the query.
Listed(q) == \A i \in DOMAIN q : q[i].id = i

\* k is q in order.
SortedAs(q, k) ==
  /\ k \in Seq(Issues) /\ Len(k) = Len(q)
  /\ {k[i].id : i \in DOMAIN k} = DOMAIN q
  /\ \A i, j \in DOMAIN k : i < j => Precedes(k[i], k[j])

LEMMA IssuePlaced ==
  ASSUME NEW q \in Seq(Issues), NEW x \in Issues, x.id = Len(q) + 1, NEW k, SortedAs(q, k)
  PROVE  SortedAs(Append(q, x), InsertByPriority(k, x))
<1> DEFINE n == Len(q)
           t == Append(q, x)
           D == {i \in DOMAIN k : ~ComesFirst(x, k[i])}
           l == Max({0} \union D)
           r == InsertByPriority(k, x)
<1>1. /\ n \in Nat /\ k \in Seq(Issues) /\ Len(k) = n /\ DOMAIN k = 1 .. n /\ DOMAIN q = 1 .. n
      /\ DOMAIN t = 1 .. n + 1 /\ Len(t) = n + 1 /\ x.id = n + 1
  BY DEF SortedAs
<1>2. \A i \in 1 .. n : k[i] \in Issues
  BY <1>1
<1>3. \A a, b \in Issues : ~ ComesFirst(a, b) <=> Rank(b) <= Rank(a)
  BY DEF ComesFirst, Rank, Issues
<1>4. \A a \in Issues : Rank(a) \in Nat /\ a.id \in Nat
  BY DEF Rank, Issues
<1>5. r = Inserted(k, l, x)
  BY <1>1 DEF InsertByPriority, Inserted
<1>0. l = Max({0} \union D) /\ D \subseteq 1 .. n
  BY <1>1
<1> HIDE DEF l, r, t, n
<1>6. /\ l \in 0 .. n /\ (l # 0 => l \in D)
      /\ \A i \in 1 .. n : i > l => i \notin D
  <2> HIDE DEF D
  <2>1. n \in Nat
    BY <1>1
  <2> QED
    BY ONLY <1>0, <2>1, PlaceIs
<1>7. \A i \in 1 .. n : i > l => Rank(x) < Rank(k[i])
  <2>1. ASSUME NEW i \in 1 .. n, i > l PROVE Rank(x) < Rank(k[i])
    <3>1. ComesFirst(x, k[i])
      BY <1>1, <1>6, <2>1
    <3> QED
      BY <1>2, <1>3, <1>4, <3>1
  <2> QED
    BY <2>1
<1>8. l # 0 => l \in 1 .. n /\ Rank(k[l]) <= Rank(x)
  <2>1. l # 0 => l \in 1 .. n /\ ~ ComesFirst(x, k[l])
    BY <1>1, <1>6
  <2> QED
    BY <1>2, <1>3, <2>1
<1>9. \A i, j \in 1 .. n : i < j => Precedes(k[i], k[j])
  BY <1>1 DEF SortedAs
<1>10. {k[i].id : i \in 1 .. n} = 1 .. n
  BY <1>1 DEF SortedAs
<1> HIDE DEF D
<1>11. ASSUME NEW i \in 1 .. n, i <= l PROVE Rank(k[i]) <= Rank(x) /\ k[i].id < x.id
  <2>1. l # 0 /\ l \in 1 .. n /\ Rank(k[l]) <= Rank(x)
    BY <1>1, <1>6, <1>8, <1>11
  <2>2. k[i].id \in 1 .. n
    BY <1>10
  <2>3. i = l \/ Rank(k[i]) <= Rank(k[l])
    <3>1. i < l => Precedes(k[i], k[l])
      BY <1>9, <2>1
    <3>2. Rank(k[i]) \in Nat /\ Rank(k[l]) \in Nat
      BY <1>2, <1>4, <2>1
    <3>3. i < l \/ i = l
      BY <1>1, <1>6, <1>11
    <3> QED
      BY <3>1, <3>2, <3>3 DEF Precedes
  <2>4. Rank(k[i]) \in Nat /\ Rank(k[l]) \in Nat /\ Rank(x) \in Nat
    BY <1>2, <1>4, <2>1
  <2>5. Rank(k[i]) <= Rank(x)
    BY <2>1, <2>3, <2>4
  <2> QED
    BY <1>1, <2>2, <2>5
<1>12. r \in Seq(Issues) /\ HasInserted(r, k, l, x)
  <2>1. l \in 0 .. Len(k)
    BY <1>1, <1>6
  <2> QED
    BY <1>1, <1>5, <2>1, InsertedHas
<1>13. /\ Len(r) = n + 1 /\ DOMAIN r = 1 .. n + 1 /\ r[l + 1] = x
       /\ \A i \in 1 .. l : r[i] = k[i]
       /\ \A i \in l + 2 .. n + 1 : r[i] = k[i - 1]
  BY <1>1, <1>12 DEF HasInserted
<1>14. ASSUME NEW i \in 1 .. n + 1, NEW j \in 1 .. n + 1, i < j PROVE Precedes(r[i], r[j])
  <2>1. CASE i \in 1 .. l /\ j \in 1 .. l
    <3>1. r[i] = k[i] /\ r[j] = k[j] /\ i \in 1 .. n /\ j \in 1 .. n
      BY <1>1, <1>6, <1>13, <2>1
    <3> QED
      BY <1>9, <1>14, <3>1
  <2>2. CASE i \in 1 .. l /\ j = l + 1
    <3>1. r[i] = k[i] /\ r[j] = x /\ i \in 1 .. n /\ i <= l
      BY <1>1, <1>6, <1>13, <2>2
    <3>2. Rank(k[i]) \in Nat /\ Rank(x) \in Nat
      BY <1>2, <1>4, <3>1
    <3>3. Rank(k[i]) <= Rank(x) /\ k[i].id < x.id
      BY <1>11, <3>1
    <3> QED
      BY <3>1, <3>2, <3>3 DEF Precedes
  <2>3. CASE i \in 1 .. l /\ j \in l + 2 .. n + 1
    <3>1. r[i] = k[i] /\ r[j] = k[j - 1] /\ i \in 1 .. n /\ j - 1 \in 1 .. n /\ i < j - 1
      BY <1>1, <1>6, <1>13, <2>3
    <3> QED
      BY <1>9, <3>1
  <2>4. CASE i = l + 1 /\ j \in l + 2 .. n + 1
    <3>1. r[i] = x /\ r[j] = k[j - 1] /\ j - 1 \in 1 .. n /\ j - 1 > l
      BY <1>1, <1>6, <1>13, <2>4
    <3> QED
      BY <1>7, <3>1 DEF Precedes
  <2>5. CASE i \in l + 2 .. n + 1 /\ j \in l + 2 .. n + 1
    <3>1. i - 1 \in 1 .. n /\ j - 1 \in 1 .. n /\ i - 1 < j - 1
      BY <1>1, <1>6, <1>14, <2>5
    <3>2. r[i] = k[i - 1] /\ r[j] = k[j - 1]
      BY <1>13, <2>5
    <3> QED
      BY <1>9, <3>1, <3>2
  <2> QED
    BY <1>1, <1>6, <1>14, <2>1, <2>2, <2>3, <2>4, <2>5, PlaceAmong
\* No issue is lost.
<1>15. {r[i].id : i \in 1 .. n + 1} = 1 .. n + 1
  <2>1. ASSUME NEW i \in 1 .. n + 1 PROVE r[i].id \in 1 .. n + 1
    <3>0. \A m \in 1 .. n : k[m].id \in 1 .. n + 1
      <4>1. 1 .. n \subseteq 1 .. n + 1
        BY <1>1
      <4> QED
        BY <1>10, <4>1
    <3>1. CASE i \in 1 .. l /\ i \in 1 .. n
      BY <1>13, <3>0, <3>1
    <3>2. CASE i = l + 1
      <4>1. n + 1 \in 1 .. n + 1
        BY <1>1
      <4> QED
        BY <1>1, <1>13, <3>2, <4>1
    <3>3. CASE i \in l + 2 .. n + 1 /\ i - 1 \in 1 .. n
      BY <1>13, <3>0, <3>3
    <3> QED
      BY <1>1, <1>6, <3>1, <3>2, <3>3, PlaceAmong
  <2>2. ASSUME NEW m \in 1 .. n + 1 PROVE \E i \in 1 .. n + 1 : r[i].id = m
    <3>1. CASE m = n + 1
      <4>1. l + 1 \in 1 .. n + 1
        BY <1>1, <1>6
      <4> QED
        BY <1>1, <1>13, <3>1, <4>1
    <3>2. CASE m # n + 1
      <4>1. m \in 1 .. n
        BY <1>1, <3>2
      <4>2. PICK i \in 1 .. n : k[i].id = m
        BY <1>10, <4>1
      <4>3. CASE i <= l
        <5>1. i \in 1 .. l /\ i \in 1 .. n + 1
          BY <1>1, <1>6, <4>3
        <5> QED
          BY <1>13, <4>2, <5>1
      <4>4. CASE i > l
        <5>1. i + 1 \in l + 2 .. n + 1 /\ i + 1 \in 1 .. n + 1 /\ (i + 1) - 1 = i
          BY <1>1, <1>6, <4>4
        <5>2. r[i + 1] = k[i]
          BY <1>13, <5>1
        <5> QED
          BY <4>2, <5>1, <5>2
      <4> QED
        BY <1>1, <1>6, <4>3, <4>4
    <3> QED
      BY <3>1, <3>2
  <2> QED
    BY <2>1, <2>2
<1>16. SortedAs(t, r)
  BY <1>1, <1>12, <1>13, <1>14, <1>15 DEF SortedAs
<1> QED
  BY <1>16 DEF r, t

LEMMA PlacedInOrder == ASSUME NEW q \in Seq(Issues), Listed(q) PROVE SortedAs(q, PlacedOf(q))
<1> DEFINE G == {s \in Seq(Issues) : Listed(s) => SortedAs(s, PlacedOf(s))}
<1>1. << >> \in G
  <2>1. PlacedOf(<< >>) = << >>
    BY Placed!FoldEmpty DEF PlacedOf
  <2>2. SortedAs(<< >>, << >>)
    BY DEF SortedAs
  <2>3. << >> \in Seq(Issues)
    OBVIOUS
  <2> QED
    BY <2>1, <2>2, <2>3
<1>2. ASSUME NEW s \in Seq(Issues), NEW x \in Issues, s \in G PROVE Append(s, x) \in G
  <2> DEFINE t == Append(s, x)
  <2>1. /\ t \in Seq(Issues) /\ DOMAIN t = 1 .. Len(s) + 1 /\ t[Len(s) + 1] = x /\ Len(s) \in Nat
        /\ DOMAIN s = 1 .. Len(s) /\ \A i \in 1 .. Len(s) : t[i] = s[i]
    OBVIOUS
  <2>2. PlacedOf(t) = InsertByPriority(PlacedOf(s), x)
    BY Placed!FoldAppend DEF PlacedOf
  <2>3. ASSUME Listed(t) PROVE Listed(s) /\ x.id = Len(s) + 1
    <3> HIDE DEF t
    <3>1. Len(s) + 1 \in 1 .. Len(s) + 1 /\ 1 .. Len(s) \subseteq 1 .. Len(s) + 1
      BY <2>1
    <3> QED
      BY <2>1, <2>3, <3>1 DEF Listed
  <2>4. ASSUME Listed(t) PROVE SortedAs(t, PlacedOf(t))
    <3>1. SortedAs(s, PlacedOf(s)) /\ x.id = Len(s) + 1
      BY <1>2, <2>3, <2>4
    <3> QED
      BY <2>2, <3>1, IssuePlaced
  <2> QED
    BY <2>1, <2>4
<1> HIDE DEF G
<1>3. Seq(Issues) \subseteq G
  BY <1>1, <1>2, Placed!SequencesGrow
<1> QED
  BY <1>3 DEF G

LEMMA IssuesInOrder == ASSUME StTypeOK PROVE IssueOrder
<1> DEFINE q == [i \in DOMAIN stIssues |-> [id |-> i, priority |-> stIssues[i]]]
           n == Len(stIssues)
<1>1. n \in Nat /\ DOMAIN stIssues = 1 .. n /\ \A i \in 1 .. n : stIssues[i] \in 0 .. 2
  BY DEF StTypeOK
<1>2. \A i \in 1 .. n : [id |-> i, priority |-> stIssues[i]] \in Issues
  BY <1>1 DEF Issues
<1> HIDE DEF n
<1>3. q \in Seq(Issues) /\ DOMAIN q = 1 .. n /\ \A i \in 1 .. n : q[i].id = i
  BY <1>1, <1>2
<1>4. Len(q) = n
  BY <1>1, <1>3
<1>5. SortByPriority = FoldLeft(InsertByPriority, << >>, q)
  BY DEF SortByPriority
<1> HIDE DEF q
<1>6. SortByPriority = PlacedOf(q)
  BY <1>5 DEF PlacedOf, FoldLeft, MapThenFoldSet, Max, Placed!Folded, Placed!Greatest
<1>7. Listed(q)
  BY <1>3 DEF Listed
<1>8. SortedAs(q, SortByPriority)
  BY <1>3, <1>6, <1>7, PlacedInOrder
<1> QED
  BY <1>1, <1>3, <1>4, <1>8 DEF SortedAs, IssueOrder, Precedes, Rank, n

LEMMA StatisticsHold == StTypeOK => StatisticsSound
  BY TrendIs, DurationsHold, PercentilesHold, SPRTHolds, IssuesInOrder DEF StatisticsSound

\* What the statistics say agrees with the log: however long it is (metrics.go,
\* sprt.go, issues.go).
THEOREM StatisticsAreSound == StSpec => []StatisticsSound
  BY StatisticsTypes, StatisticsHold, PTL

(***************************************************************************)
(* Luminas: what each source adds is sorted by its uses, and the sources   *)
(* stand one behind the other.                                             *)
(***************************************************************************)

Enlists == INSTANCE Folding WITH Step <- AddLumina

Lumina(source) == [source : {source}, key : ToSet(InsTexts), uses : Nat]
ByUses(list) == \A i, j \in DOMAIN list : i < j => list[i].uses >= list[j].uses

LEMMA LuminaInserted ==
  ASSUME NEW source, NEW s \in Seq(Lumina(source)), NEW c \in Lumina(source), ByUses(s),
         c.uses >= Need[source], Need[source] \in Nat
  PROVE  /\ AddLumina(s, c) \in Seq(Lumina(source)) /\ ByUses(AddLumina(s, c))
         /\ \E k \in 0 .. Len(s) : HasInserted(AddLumina(s, c), s, k, c)
<1> DEFINE r == AddLumina(s, c)
           n == Len(s)
           D == {i \in DOMAIN s : s[i].uses >= c.uses}
           k == Max({0} \union D)
           L == Lumina(source)
<1>1. n \in Nat /\ DOMAIN s = 1 .. n /\ c \in L /\ s \in Seq(L)
  OBVIOUS
<1>1a. c.uses \in Nat /\ c.source = source /\ \A i \in 1 .. n : s[i].uses \in Nat
  <2>1. \A l \in L : l.uses \in Nat /\ l.source = source
    BY DEF Lumina
  <2> HIDE DEF L
  <2>2. \A i \in 1 .. n : s[i] \in L
    BY <1>1
  <2> QED
    BY <1>1, <2>1, <2>2
<1>2. D \subseteq 1 .. n
  BY <1>1
<1>4. r = SubSeq(s, 1, k) \o << c >> \o SubSeq(s, k + 1, n)
  <2>1. ~ (c.uses < Need[c.source])
    BY <1>1a
  <2> QED
    BY <2>1 DEF AddLumina
<1>0. k = Max({0} \union D)
  OBVIOUS
<1> HIDE DEF k, D, n, r, L
<1>3. /\ k \in 0 .. n /\ (k # 0 => k \in D)
      /\ \A i \in 1 .. n : i > k => i \notin D
  BY <1>0, <1>1, <1>2, PlaceIs
<1>5. r \in Seq(L) /\ HasInserted(r, s, k, c)
  <2>1. k \in 0 .. Len(s) /\ r = Inserted(s, k, c)
    BY <1>3, <1>4 DEF n, Inserted
  <2> QED
    BY <1>1, <2>1, InsertedHas
<1>5a. /\ DOMAIN r = 1 .. n + 1 /\ r[k + 1] = c
       /\ \A i \in 1 .. k : r[i] = s[i]
       /\ \A i \in k + 2 .. n + 1 : r[i] = s[i - 1]
  BY <1>5 DEF HasInserted, n
<1>6. \A i \in 1 .. n : i > k => c.uses > s[i].uses
  <2> TAKE i \in 1 .. n
  <2> HAVE i > k
  <2>1. ~ (s[i].uses >= c.uses)
    BY <1>1, <1>3 DEF D
  <2> QED
    BY <1>1a, <2>1
<1>7. k # 0 => s[k].uses >= c.uses /\ k \in 1 .. n
  BY <1>1, <1>3 DEF D
<1>8. ASSUME NEW i \in 1 .. n, i <= k PROVE s[i].uses >= c.uses
  <2>1. k # 0 /\ k \in 1 .. n /\ s[k].uses >= c.uses
    BY <1>1, <1>3, <1>7, <1>8
  <2>3. i = k \/ i < k
    BY <1>1, <1>3, <1>8
  <2>4. ASSUME i < k PROVE s[i].uses >= s[k].uses
    BY <1>1, <2>1, <2>4 DEF ByUses
  <2> QED
    BY <1>1a, <2>1, <2>3, <2>4
<1>9. ASSUME NEW i \in 1 .. n + 1, NEW j \in 1 .. n + 1, i < j PROVE r[i].uses >= r[j].uses
  <2>1. CASE i \in 1 .. k /\ j \in 1 .. k
    <3>1. r[i] = s[i] /\ r[j] = s[j] /\ i \in 1 .. n /\ j \in 1 .. n
      BY <1>1, <1>3, <1>5a, <2>1
    <3> QED
      BY <1>1, <1>9, <3>1 DEF ByUses
  <2>2. CASE i \in 1 .. k /\ j = k + 1
    <3>1. r[i] = s[i] /\ r[j] = c /\ i \in 1 .. n /\ i <= k
      BY <1>1, <1>3, <1>5a, <2>2
    <3> QED
      BY <1>8, <3>1
  <2>3. CASE i \in 1 .. k /\ j \in k + 2 .. n + 1
    <3>1. r[i] = s[i] /\ r[j] = s[j - 1] /\ i \in 1 .. n /\ j - 1 \in 1 .. n /\ i < j - 1
      BY <1>1, <1>3, <1>5a, <2>3
    <3> QED
      BY <1>1, <3>1 DEF ByUses
  <2>4. CASE i = k + 1 /\ j \in k + 2 .. n + 1
    <3>1. r[i] = c /\ r[j] = s[j - 1] /\ j - 1 \in 1 .. n /\ j - 1 > k
      BY <1>1, <1>3, <1>5a, <2>4
    <3>2. c.uses > s[j - 1].uses
      BY <1>6, <3>1
    <3> QED
      BY <1>1a, <3>1, <3>2
  <2>5. CASE i \in k + 2 .. n + 1 /\ j \in k + 2 .. n + 1
    <3>1. r[i] = s[i - 1] /\ r[j] = s[j - 1] /\ i - 1 \in 1 .. n /\ j - 1 \in 1 .. n /\ i - 1 < j - 1
      BY <1>1, <1>3, <1>5a, <1>9, <2>5
    <3> QED
      BY <1>1, <3>1 DEF ByUses
  <2> QED
    BY <1>1, <1>3, <1>9, <2>1, <2>2, <2>3, <2>4, <2>5, PlaceAmong
<1>10. ByUses(r)
  BY <1>5a, <1>9 DEF ByUses
<1> QED
  BY <1>3, <1>5, <1>10 DEF r, n, L

\* What a list has once every count was looked at: all that are used enough.
Chosen(source, counts, list) ==
  /\ list \in Seq(Lumina(source)) /\ ByUses(list)
  /\ \A i \in DOMAIN counts : counts[i].uses >= Need[source] => \E j \in DOMAIN list : list[j] = counts[i]

LEMMA CountTaken ==
  ASSUME NEW source, NEW counts \in Seq(Lumina(source)), NEW c \in Lumina(source), NEW list,
         Chosen(source, counts, list), Need[source] \in Nat
  PROVE  Chosen(source, Append(counts, c), AddLumina(list, c))
<1> DEFINE r == AddLumina(list, c)
           q == Append(counts, c)
           L == Lumina(source)
<1>1. list \in Seq(L) /\ ByUses(list) /\ c.uses \in Nat /\ c.source = source
  BY DEF Chosen, Lumina
<1>2. DOMAIN q = 1 .. Len(counts) + 1 /\ Len(counts) \in Nat /\ q[Len(counts) + 1] = c
      /\ \A i \in 1 .. Len(counts) : q[i] = counts[i] /\ i \in DOMAIN counts
  <2> HIDE DEF L
  <2>1. counts \in Seq(L) /\ c \in L
    BY DEF L
  <2> QED
    BY <2>1
<1>3. \A i \in DOMAIN q : i = Len(counts) + 1 \/ i \in 1 .. Len(counts)
  BY <1>2
<1>4. ASSUME c.uses < Need[source] PROVE Chosen(source, q, r)
  <2>1. r = list
    BY <1>1, <1>4 DEF AddLumina
  <2>2. ~ (c.uses >= Need[source])
    BY <1>1, <1>4
  <2> HIDE DEF r, q
  <2> QED
    BY <1>2, <1>3, <2>1, <2>2 DEF Chosen
<1>5. ASSUME ~ (c.uses < Need[source]) PROVE Chosen(source, q, r)
  <2>1. c.uses >= Need[source]
    BY <1>1, <1>5
  <2>2. r \in Seq(L) /\ ByUses(r) /\ \E k \in 0 .. Len(list) : HasInserted(r, list, k, c)
    BY <1>1, <2>1, LuminaInserted
  <2>3. PICK k \in 0 .. Len(list) : HasInserted(r, list, k, c)
    BY <2>2
  <2>4. Len(list) \in Nat /\ DOMAIN list = 1 .. Len(list)
    <3> HIDE DEF L
    <3> QED
      BY <1>1
  <2>5. k + 1 \in DOMAIN r /\ r[k + 1] = c
    BY <2>3, <2>4 DEF HasInserted
  <2>6. ASSUME NEW j \in DOMAIN list PROVE \E m \in DOMAIN r : r[m] = list[j]
    <3>1. CASE j <= k
      <4>1. j \in 1 .. k /\ j \in 1 .. Len(list) + 1
        BY <2>4, <3>1
      <4> QED
        BY <2>3, <4>1 DEF HasInserted
    <3>2. CASE j > k
      <4>1. j + 1 \in k + 2 .. Len(list) + 1 /\ j + 1 \in 1 .. Len(list) + 1 /\ (j + 1) - 1 = j
        BY <2>4, <3>2
      <4>2. r[j + 1] = list[(j + 1) - 1]
        BY <2>3, <4>1 DEF HasInserted
      <4> QED
        BY <2>3, <4>1, <4>2 DEF HasInserted
    <3> QED
      BY <2>4, <3>1, <3>2
  <2> HIDE DEF r, q
  <2>7. ASSUME NEW i \in DOMAIN q, q[i].uses >= Need[source] PROVE \E j \in DOMAIN r : r[j] = q[i]
    <3>1. CASE i = Len(counts) + 1
      BY <1>2, <2>5, <3>1
    <3>2. CASE i \in 1 .. Len(counts)
      <4>1. q[i] = counts[i] /\ i \in DOMAIN counts
        BY <1>2, <3>2
      <4>2. PICK j \in DOMAIN list : list[j] = counts[i]
        BY <2>7, <4>1 DEF Chosen
      <4> QED
        BY <2>6, <4>1, <4>2
    <3> QED
      BY <1>3, <3>1, <3>2
  <2> QED
    BY <2>2, <2>7 DEF Chosen, L
<1> QED
  BY <1>4, <1>5

LEMMA CountsTaken ==
  ASSUME NEW source, Need[source] \in Nat
  PROVE  \A counts \in Seq(Lumina(source)) : Chosen(source, counts, Enlists!Folded(<< >>, counts))
<1> DEFINE L == Lumina(source)
           G == {c \in Seq(L) : Chosen(source, c, Enlists!Folded(<< >>, c))}
<1>1. << >> \in G
  <2>1. << >> \in Seq(L) /\ DOMAIN << >> = {}
    OBVIOUS
  <2> QED
    BY <2>1, Enlists!FoldEmpty DEF Chosen, ByUses
<1>2. ASSUME NEW s \in Seq(L), NEW x \in L, s \in G PROVE Append(s, x) \in G
  <2>1. Enlists!Folded(<< >>, Append(s, x)) = AddLumina(Enlists!Folded(<< >>, s), x)
    BY Enlists!FoldAppend
  <2>2. Append(s, x) \in Seq(L)
    BY Appended
  <2> QED
    BY <1>2, <2>1, <2>2, CountTaken
<1> HIDE DEF G
<1> QED
  BY <1>1, <1>2, Enlists!SequencesGrow DEF G

LEMMA UsesAreCounted ==
  ASSUME NEW source, NEW key, insJournals \in Seq(InsJournal)
  PROVE  Uses(source, key) \in Nat
<1>1. Len(insJournals) \in Nat /\ DOMAIN insJournals = 1 .. Len(insJournals)
  OBVIOUS
<1>2. \A U : U \subseteq 1 .. Len(insJournals) => Cardinality(U) \in Nat
  <2>1. IsFiniteSet(1 .. Len(insJournals))
    BY <1>1, FS_Interval
  <2> QED
    BY <2>1, FS_Subset, FS_CardinalityType
<1> DEFINE UsedIn(i) == CASE source = "alert" -> insJournals[i].alert = key
                          [] source = "warn"  -> insJournals[i].status = "failed" /\ insJournals[i].key = key
                          [] OTHER            -> insJournals[i].status = "success" /\ insJournals[i].key = key
<1>3. Uses(source, key) = Cardinality({i \in DOMAIN insJournals : UsedIn(i)})
  BY Zenon DEF Uses
<1> HIDE DEF UsedIn
<1> QED
  BY <1>1, <1>2, <1>3

LEMMA CountsTyped ==
  ASSUME NEW source, insJournals \in Seq(InsJournal)
  PROVE  UseCounts(source) \in Seq(Lumina(source))
<1>1. InsTexts \in Seq(ToSet(InsTexts))
  BY InsightsAssumption
<1>2. /\ Len(InsTexts) \in Nat /\ DOMAIN InsTexts = 1 .. Len(InsTexts)
      /\ \A i \in DOMAIN InsTexts : InsTexts[i] \in ToSet(InsTexts)
  BY <1>1
<1>3. \A i \in DOMAIN InsTexts : [source |-> source, key |-> InsTexts[i], uses |-> Uses(source, InsTexts[i])] \in Lumina(source)
  BY <1>2, UsesAreCounted DEF Lumina
<1> QED
  BY <1>2, <1>3 DEF UseCounts

\* What each source adds, of which every text that is used enough.
Listing(source, list) ==
  /\ list \in Seq(Lumina(source)) /\ ByUses(list)
  /\ \A k \in ToSet(InsTexts) : Uses(source, k) >= Need[source] =>
       \E j \in DOMAIN list : list[j] = [source |-> source, key |-> k, uses |-> Uses(source, k)]

LEMMA SourceListed ==
  ASSUME NEW source \in DOMAIN Need, insJournals \in Seq(InsJournal)
  PROVE  Listing(source, Enlists!Folded(<< >>, UseCounts(source)))
<1>1. Chosen(source, UseCounts(source), Enlists!Folded(<< >>, UseCounts(source)))
  <2>1. Need[source] \in Nat
    BY DEF Need
  <2> QED
    BY <2>1, CountsTyped, CountsTaken
<1>2. ASSUME NEW k \in ToSet(InsTexts)
      PROVE  \E i \in DOMAIN UseCounts(source) :
               UseCounts(source)[i] = [source |-> source, key |-> k, uses |-> Uses(source, k)]
  BY DEF ToSet, UseCounts
<1> QED
  BY <1>1, <1>2 DEF Chosen, Listing

LEMMA TwoLists ==
  ASSUME NEW S, NEW s \in Seq(S), NEW t \in Seq(S)
  PROVE  /\ s \o t \in Seq(S) /\ Len(s \o t) = Len(s) + Len(t) /\ Len(s) \in Nat /\ Len(t) \in Nat
         /\ \A i \in 1 .. Len(s) : (s \o t)[i] = s[i]
  OBVIOUS

\* The places of three lists, one behind the other.
LEMMA ThreeLists ==
  ASSUME NEW S, NEW a \in Seq(S), NEW w \in Seq(S), NEW o \in Seq(S)
  PROVE  /\ a \o w \o o \in Seq(S) /\ Len(a \o w \o o) = Len(a) + Len(w) + Len(o)
         /\ Len(a) \in Nat /\ Len(w) \in Nat /\ Len(o) \in Nat
         /\ \A i \in 1 .. Len(a) : (a \o w \o o)[i] = a[i]
         /\ \A i \in 1 .. Len(w) : (a \o w \o o)[Len(a) + i] = w[i]
<1> DEFINE h == a \o w
<1>1. h \in Seq(S) /\ Len(h) = Len(a) + Len(w) /\ Len(a) \in Nat /\ Len(w) \in Nat /\ Len(o) \in Nat
      /\ \A i \in 1 .. Len(a) : h[i] = a[i]
  BY TwoLists
<1>2. \A i \in 1 .. Len(w) : h[Len(a) + i] = w[i]
  OBVIOUS
<1> HIDE DEF h
<1>3. h \o o \in Seq(S) /\ Len(h \o o) = Len(h) + Len(o) /\ \A i \in 1 .. Len(h) : (h \o o)[i] = h[i]
  BY <1>1, TwoLists
<1>4. \A i \in 1 .. Len(w) : Len(a) + i \in 1 .. Len(h)
  BY <1>1
<1>5. \A i \in 1 .. Len(a) : i \in 1 .. Len(h)
  BY <1>1
<1> QED
  BY <1>1, <1>2, <1>3, <1>4, <1>5 DEF h

\* The beginning of a list: all of it, or as much as was asked for.
LEMMA Beginning ==
  ASSUME NEW S, NEW s \in Seq(S), NEW max \in Nat
  PROVE  LET b == SubSeq(s, 1, IF Len(s) > max THEN max ELSE Len(s)) IN
         /\ Len(b) \in Nat /\ Len(b) <= max /\ Len(b) <= Len(s) /\ DOMAIN b = 1 .. Len(b)
         /\ Len(b) # max => Len(b) = Len(s)
         /\ \A i \in 1 .. Len(b) : b[i] = s[i]
<1> DEFINE n == IF Len(s) > max THEN max ELSE Len(s)
           b == SubSeq(s, 1, n)
<1>1. n \in Nat /\ n <= max /\ n <= Len(s) /\ (n # max => n = Len(s)) /\ Len(s) \in Nat
  OBVIOUS
<1> HIDE DEF n
<1>2. Len(b) = n /\ DOMAIN b = 1 .. n /\ \A i \in 1 .. n : b[i] = s[i]
  BY <1>1
<1> HIDE DEF b
<1>3. Len(b) \in Nat /\ Len(b) <= max /\ Len(b) <= Len(s) /\ DOMAIN b = 1 .. Len(b)
      /\ (Len(b) # max => Len(b) = Len(s)) /\ \A i \in 1 .. Len(b) : b[i] = s[i]
  BY <1>1, <1>2
<1> QED
  BY <1>3 DEF b, n

\* The three lists, and what is kept of them.
LEMMA LuminasHold ==
  ASSUME insJournals \in Seq(InsJournal)
  PROVE  LuminasSound
<1> DEFINE A == Enlists!Folded(<< >>, UseCounts("alert"))
           W == Enlists!Folded(<< >>, UseCounts("warn"))
           O == Enlists!Folded(<< >>, UseCounts("ok"))
           ls == ScanJournalsForLumina
           max == InsMaxLuminas
           Luminas == Lumina("alert") \union Lumina("warn") \union Lumina("ok")
           m == Len(ls)
<1>1. Listing("alert", A) /\ Listing("warn", W) /\ Listing("ok", O)
  <2>1. DOMAIN Need = {"alert", "warn", "ok"}
    BY DEF Need
  <2> QED
    BY <2>1, SourceListed
<1>2. A \in Seq(Lumina("alert")) /\ W \in Seq(Lumina("warn")) /\ O \in Seq(Lumina("ok"))
  BY <1>1 DEF Listing
<1>3. ls = SubSeq(A \o W \o O, 1, IF Len(A \o W \o O) > max THEN max ELSE Len(A \o W \o O))
  BY DEF ScanJournalsForLumina, FoldLeft, MapThenFoldSet, Max, Enlists!Folded, Enlists!Greatest
<1> HIDE DEF A, W, O, ls, max
<1>4. max \in Nat
  BY InsightsAssumption DEF max
<1>5. A \in Seq(Luminas) /\ W \in Seq(Luminas) /\ O \in Seq(Luminas)
  <2> DEFINE LA == Lumina("alert")
             LW == Lumina("warn")
             LO == Lumina("ok")
  <2> HIDE DEF LA, LW, LO
  <2>1. A \in Seq(LA) /\ W \in Seq(LW) /\ O \in Seq(LO)
    BY <1>2 DEF LA, LW, LO
  <2>2. A \in Seq(LA \union LW \union LO) /\ W \in Seq(LA \union LW \union LO) /\ O \in Seq(LA \union LW \union LO)
    BY <2>1
  <2> QED
    BY <2>2 DEF LA, LW, LO
<1> HIDE DEF Luminas
<1>6. /\ A \o W \o O \in Seq(Luminas) /\ Len(A \o W \o O) = Len(A) + Len(W) + Len(O)
      /\ Len(A) \in Nat /\ Len(W) \in Nat /\ Len(O) \in Nat
      /\ \A i \in 1 .. Len(A) : (A \o W \o O)[i] = A[i]
      /\ \A i \in 1 .. Len(W) : (A \o W \o O)[Len(A) + i] = W[i]
  BY <1>5, ThreeLists
<1>7. /\ m \in Nat /\ m <= max /\ m <= Len(A \o W \o O) /\ DOMAIN ls = 1 .. m
      /\ m # max => m = Len(A \o W \o O)
      /\ \A i \in 1 .. m : ls[i] = (A \o W \o O)[i]
  BY <1>3, <1>4, <1>6, Beginning
<1> HIDE DEF m
<1>8. /\ m \in Nat /\ m <= max /\ m <= Len(A) + Len(W) + Len(O)
      /\ m # max => m = Len(A) + Len(W) + Len(O)
  BY <1>6, <1>7
<1>9. \A i \in 1 .. m : i <= Len(A) => i \in DOMAIN A /\ ls[i] = A[i]
  <2> TAKE i \in 1 .. m
  <2> HAVE i <= Len(A)
  <2>1. i \in 1 .. Len(A)
    BY <1>6, <1>8
  <2> QED
    BY <1>2, <1>6, <1>7, <2>1
<1>10. \A i \in 1 .. m : i > Len(A) /\ i <= Len(A) + Len(W) => i - Len(A) \in DOMAIN W /\ ls[i] = W[i - Len(A)]
  <2> TAKE i \in 1 .. m
  <2> HAVE i > Len(A) /\ i <= Len(A) + Len(W)
  <2>1. i - Len(A) \in 1 .. Len(W) /\ Len(A) + (i - Len(A)) = i
    BY <1>6, <1>8
  <2> QED
    BY <1>2, <1>6, <1>7, <2>1
<1>11. (\A j \in DOMAIN A : A[j].source = "alert") /\ \A j \in DOMAIN W : W[j].source = "warn" /\ W[j].uses \in Nat
  <2>1. \A l \in Lumina("alert") : l.source = "alert"
    BY DEF Lumina
  <2>2. \A l \in Lumina("warn") : l.source = "warn" /\ l.uses \in Nat
    BY DEF Lumina
  <2>3. (\A j \in DOMAIN A : A[j] \in Lumina("alert")) /\ \A j \in DOMAIN W : W[j] \in Lumina("warn")
    BY <1>2
  <2> QED
    BY <2>1, <2>2, <2>3
<1>12. DOMAIN A = 1 .. Len(A) /\ DOMAIN W = 1 .. Len(W)
  BY <1>2
<1>13. ASSUME NEW k \in ToSet(InsTexts), Uses("alert", k) >= 1
       PROVE  \/ \E i \in DOMAIN ls : ls[i].source = "alert" /\ ls[i].key = k
              \/ \A i \in DOMAIN ls : ls[i].source = "alert" /\ m = max
  <2>1. PICK j \in DOMAIN A : A[j] = [source |-> "alert", key |-> k, uses |-> Uses("alert", k)]
    BY <1>1, <1>13 DEF Listing, Need
  <2>2. CASE j <= m
    <3>1. j \in 1 .. m /\ j <= Len(A)
      BY <1>6, <1>8, <1>12, <2>2
    <3> QED
      BY <1>7, <1>9, <2>1, <3>1
  <2>3. CASE ~ (j <= m)
    <3>1. m = max /\ \A i \in 1 .. m : i <= Len(A)
      BY <1>6, <1>8, <1>12, <2>3
    <3> QED
      BY <1>7, <1>9, <1>11, <3>1
  <2> QED
    BY <2>2, <2>3
<1>14. ASSUME NEW k \in ToSet(InsTexts), Uses("warn", k) >= 2
       PROVE  \/ \E i \in DOMAIN ls : ls[i].source = "warn" /\ ls[i].key = k
              \/ /\ m = max
                 /\ \A i \in DOMAIN ls : ls[i].source # "ok" /\
                      (ls[i].source = "warn" => ls[i].uses >= Uses("warn", k))
  <2>1. PICK j \in DOMAIN W : W[j] = [source |-> "warn", key |-> k, uses |-> Uses("warn", k)]
    BY <1>1, <1>14 DEF Listing, Need
  <2>2. CASE Len(A) + j <= m
    <3>1. Len(A) + j \in 1 .. m /\ Len(A) + j > Len(A) /\ Len(A) + j <= Len(A) + Len(W) /\ (Len(A) + j) - Len(A) = j
      BY <1>6, <1>8, <1>12, <2>2
    <3>2. ls[Len(A) + j] = W[j] /\ Len(A) + j \in DOMAIN ls
      BY <1>7, <1>10, <3>1
    <3> QED
      BY <2>1, <3>2
  <2>3. CASE ~ (Len(A) + j <= m)
    <3>1. m = max /\ \A i \in 1 .. m : i <= Len(A) \/ (i > Len(A) /\ i <= Len(A) + Len(W) /\ i - Len(A) < j)
      BY <1>6, <1>8, <1>12, <2>3
    <3>2. ASSUME NEW i \in 1 .. m
          PROVE  ls[i].source # "ok" /\ (ls[i].source = "warn" => ls[i].uses >= Uses("warn", k))
      <4>1. CASE i <= Len(A)
        BY <1>9, <1>11, <4>1
      <4>2. CASE i > Len(A) /\ i <= Len(A) + Len(W) /\ i - Len(A) < j
        <5>1. i - Len(A) \in DOMAIN W /\ ls[i] = W[i - Len(A)]
          BY <1>10, <4>2
        <5>2. W[i - Len(A)].uses >= W[j].uses
          BY <1>1, <4>2, <5>1 DEF Listing, ByUses
        <5> QED
          BY <1>11, <2>1, <5>1, <5>2
      <4> QED
        BY <3>1, <4>1, <4>2
    <3> QED
      BY <1>7, <3>1, <3>2
  <2> QED
    BY <2>2, <2>3
<1>15. m <= max
  BY <1>8
<1> QED
  BY <1>13, <1>14, <1>15 DEF LuminasSound, ls, m, max

\* Whatever the journals hold, what is cut from the luminas is never more urgent
\* than what is kept (ScanJournalsForLumina of lumina.go).
THEOREM LuminasAreSound == InsSpec => []LuminasSound
<1>1. InsTypeOK => LuminasSound
  BY LuminasHold DEF InsTypeOK
<1> QED
  BY <1>1, LedgerIsSound, PTL

(***************************************************************************)
(* The doctor: what it looks at and what it reports have their types.      *)
(***************************************************************************)

\* What is not about the directories leaves them alone.
LEMMA OtherFields ==
  ASSUME NEW w, DirsTyped(w), NEW x
  PROVE  /\ DirsTyped([w EXCEPT !.path = x]) /\ DirsTyped([w EXCEPT !.mcp = x])
         /\ DirsTyped([w EXCEPT !.auth = x]) /\ DirsTyped([w EXCEPT !.scopes = x])
         /\ DirsTyped([w EXCEPT !.git = x]) /\ DirsTyped([w EXCEPT !.uvInstall = x])
         /\ DirsTyped([w EXCEPT !.watches = x]) /\ DirsTyped([w EXCEPT !.checkout = x])
         /\ DirsTyped([w EXCEPT !.linear = x]) /\ DirsTyped([w EXCEPT !.writable = x])
         /\ DirsTyped([w EXCEPT !.skills = x]) /\ DirsTyped([w EXCEPT !.config = x])
         /\ DirsTyped([w EXCEPT !.pid = x]) /\ DirsTyped([w EXCEPT !.outbox = x])
         /\ DirsTyped([w EXCEPT !.events = x])
<1>1. "dirs" \in DOMAIN w /\ w.dirs \subseteq StateDirs
  BY DEF DirsTyped
<1>2. DirsTyped([w EXCEPT !.path = x]) /\ DirsTyped([w EXCEPT !.mcp = x])
  BY <1>1, Zenon DEF DirsTyped
<1>3. DirsTyped([w EXCEPT !.auth = x]) /\ DirsTyped([w EXCEPT !.scopes = x])
  BY <1>1, Zenon DEF DirsTyped
<1>4. DirsTyped([w EXCEPT !.git = x]) /\ DirsTyped([w EXCEPT !.uvInstall = x])
  BY <1>1, Zenon DEF DirsTyped
<1>5. DirsTyped([w EXCEPT !.watches = x]) /\ DirsTyped([w EXCEPT !.checkout = x])
  BY <1>1, Zenon DEF DirsTyped
<1>6. DirsTyped([w EXCEPT !.linear = x]) /\ DirsTyped([w EXCEPT !.writable = x])
  BY <1>1, Zenon DEF DirsTyped
<1>7. DirsTyped([w EXCEPT !.skills = x]) /\ DirsTyped([w EXCEPT !.config = x])
  BY <1>1, Zenon DEF DirsTyped
<1>8. DirsTyped([w EXCEPT !.pid = x]) /\ DirsTyped([w EXCEPT !.outbox = x])
  BY <1>1, Zenon DEF DirsTyped
<1>9. DirsTyped([w EXCEPT !.events = x])
  BY <1>1, Zenon DEF DirsTyped
<1> QED
  BY <1>2, <1>3, <1>4, <1>5, <1>6, <1>7, <1>8, <1>9

\* Other directories, and only them.
LEMMA DirsChange ==
  ASSUME NEW w, DirsTyped(w), NEW x, x \subseteq StateDirs
  PROVE  DirsTyped([w EXCEPT !.dirs = x])
<1>1. DOMAIN [w EXCEPT !.dirs = x] = DOMAIN w /\ [w EXCEPT !.dirs = x].dirs = x
  BY Zenon DEF DirsTyped
<1> QED
  BY <1>1 DEF DirsTyped

LEMMA MachinesTyped == ASSUME NEW w, DirsTyped(w), NEW v \in Machines(w) PROVE DirsTyped(v)
<1>1. \/ \E x : v = [w EXCEPT !.path = x]
      \/ \E x : v = [w EXCEPT !.mcp = x]
      \/ \E x : v = [w EXCEPT !.auth = x]
      \/ \E x : v = [w EXCEPT !.scopes = x]
      \/ \E x : v = [w EXCEPT !.git = x]
      \/ \E x : v = [w EXCEPT !.uvInstall = x]
      \/ \E x : v = [w EXCEPT !.watches = x]
      \/ \E x : v = [w EXCEPT !.checkout = x]
      \/ \E x : v = [w EXCEPT !.linear = x]
      \/ \E x : v = [w EXCEPT !.writable = x]
  BY Zenon DEF Machines
<1>2. \A x : /\ DirsTyped([w EXCEPT !.path = x]) /\ DirsTyped([w EXCEPT !.mcp = x])
             /\ DirsTyped([w EXCEPT !.auth = x]) /\ DirsTyped([w EXCEPT !.scopes = x])
             /\ DirsTyped([w EXCEPT !.git = x]) /\ DirsTyped([w EXCEPT !.uvInstall = x])
             /\ DirsTyped([w EXCEPT !.watches = x]) /\ DirsTyped([w EXCEPT !.checkout = x])
             /\ DirsTyped([w EXCEPT !.linear = x]) /\ DirsTyped([w EXCEPT !.writable = x])
  BY OtherFields
<1> QED
  BY <1>1, <1>2

LEMMA EmptiedTyped == ASSUME NEW w, DirsTyped(w) PROVE DirsTyped(Emptied(w))
<1>1. DOMAIN Emptied(w) = DOMAIN w
  BY Zenon DEF Emptied
<1>2. Emptied(w).dirs = {}
  BY Zenon DEF Emptied, DirsTyped
<1> QED
  BY <1>1, <1>2 DEF DirsTyped

LEMMA WithoutDirTyped == ASSUME NEW w, DirsTyped(w), NEW d PROVE DirsTyped(WithoutDir(w, d))
<1>1. CASE d = "root"
  BY <1>1, EmptiedTyped DEF WithoutDir
<1>2. CASE d # "root"
  <2>1. PICK x, y : WithoutDir(w, d) = [w EXCEPT !.dirs = w.dirs \ {d}, !.outbox = x, !.events = y]
    BY <1>2, Zenon DEF WithoutDir
  <2>2. DOMAIN WithoutDir(w, d) = DOMAIN w
    BY <2>1, Zenon
  <2>3. WithoutDir(w, d).dirs = w.dirs \ {d}
    BY <2>1, Zenon DEF DirsTyped
  <2> QED
    BY <2>2, <2>3 DEF DirsTyped
<1> QED
  BY <1>1, <1>2

\* What may have happened to the state directory before the doctor looks at it.
LEMMA ContinentsAre ==
  ASSUME NEW w, NEW v \in Continents(w)
  PROVE  \/ \E d : v = WithoutDir(w, d)
         \/ \E x : v = [w EXCEPT !.skills = x]
         \/ \E x : v = [w EXCEPT !.config = x]
         \/ \E x : v = [w EXCEPT !.pid = x]
         \/ \E x : v = [w EXCEPT !.outbox = x]
         \/ \E x : v = [w EXCEPT !.events = x]
<1>1. CASE \E d \in w.dirs : v = WithoutDir(w, d)
  BY <1>1
<1>2. CASE v \in {[w EXCEPT !.skills = Over([k \in {s} |-> t], w.skills)] :
                  s \in {"dmail-readable", "foreign"}, t \in {"current", "unversioned", "deprecated"}}
  <2>1. PICK s \in {"dmail-readable", "foreign"}, t \in {"current", "unversioned", "deprecated"} :
          v = [w EXCEPT !.skills = Over([k \in {s} |-> t], w.skills)]
    BY <1>2
  <2> QED
    BY <2>1, Zenon
<1>5. CASE v \in {[w EXCEPT !.config = c] : c \in {"bad", "good"}}
  BY <1>5, Zenon
<1>6. CASE v \in {[w EXCEPT !.pid = p] : p \in {"dead", "live", "garbled"}}
  BY <1>6, Zenon
<1>3. CASE v \in {[w EXCEPT !.outbox = o] : o \in {"unreadable", "empty", "dead"}}
  BY <1>3, Zenon
<1>4. CASE v \in {[w EXCEPT !.events = e] : e \in {"clean", "corrupt", "unscannable"}}
  BY <1>4, Zenon
<1> QED
  BY <1>1, <1>2, <1>3, <1>4, <1>5, <1>6 DEF Continents

LEMMA ContinentsTyped == ASSUME NEW w, DirsTyped(w), NEW v \in Continents(w) PROVE DirsTyped(v)
<1>1. \/ \E d : v = WithoutDir(w, d)
      \/ \E x : v = [w EXCEPT !.skills = x]
      \/ \E x : v = [w EXCEPT !.config = x]
      \/ \E x : v = [w EXCEPT !.pid = x]
      \/ \E x : v = [w EXCEPT !.outbox = x]
      \/ \E x : v = [w EXCEPT !.events = x]
  BY ContinentsAre
<1>2. \A x : /\ DirsTyped([w EXCEPT !.skills = x]) /\ DirsTyped([w EXCEPT !.config = x])
             /\ DirsTyped([w EXCEPT !.pid = x]) /\ DirsTyped([w EXCEPT !.outbox = x])
             /\ DirsTyped([w EXCEPT !.events = x])
  BY OtherFields
<1>3. \A d : DirsTyped(WithoutDir(w, d))
  BY WithoutDirTyped
<1> QED
  BY <1>1, <1>2, <1>3

\* The results a check may have, and one report.
Results == {"ok", "fail", "skip", "warn", "fix", "unasked"}

LEMMA ChecksTyped ==
  ASSUME NEW w, NEW repair, DirsTyped(w)
  PROVE  LET d == Diagnosis(w, repair)
         IN  DirsTyped(d.world) /\ \A c \in DOMAIN d.checks : d.checks[c] \in Results
<1> DEFINE dirs == CheckContinent(w, repair)
           skills == RepairSkills(dirs.world, repair)
           tools == CheckSkillsRefToolchain(skills.world, repair)
           pid == CleanStalePid(tools.world, repair)
<1>1. dirs.status \in Results /\ DirsTyped(dirs.world)
  <2> DEFINE missing == ({"root"} \union RequiredDirs) \ w.dirs
             fixed == [w EXCEPT !.dirs = w.dirs \union missing]
  <2>1. missing \subseteq StateDirs
    BY DEF RequiredDirs, StateDirs
  <2>2. w.dirs \union missing \subseteq StateDirs
    BY <2>1 DEF DirsTyped
  <2> HIDE DEF missing
  <2>3. DirsTyped(fixed)
    BY <2>2, DirsChange
  <2>4. \/ dirs = [status |-> "ok", world |-> w]
        \/ dirs = [status |-> "fix", world |-> fixed]
        \/ dirs = [status |-> "warn", world |-> w]
    BY Zenon DEF CheckContinent, missing
  <2> HIDE DEF fixed, dirs
  <2> QED
    BY <2>3, <2>4 DEF Results
<1> HIDE DEF dirs
<1>2. skills.status \in Results /\ DirsTyped(skills.world)
  <2> DEFINE before == CheckSkills(dirs.world)
             done == ValidateContinent(dirs.world)
  <2>1. before \in Results
    BY DEF CheckSkills, Results
  <2>2. DirsTyped(done.world)
    BY <1>1, ValidatedTyped
  <2>3. \/ skills = [status |-> before, world |-> dirs.world]
        \/ skills = [status |-> before, world |-> done.world]
        \/ skills = [status |-> "fix", world |-> done.world]
    BY Zenon DEF RepairSkills
  <2> HIDE DEF before, done, skills
  <2> QED
    BY <1>1, <2>1, <2>2, <2>3 DEF Results
<1> HIDE DEF skills
<1>3. tools.status \in Results /\ DirsTyped(tools.world)
  <2> DEFINE with(x) == [skills.world EXCEPT !.path = x]
  <2>1. \E x : \/ tools = [status |-> "ok", world |-> skills.world]
               \/ tools = [status |-> "warn", world |-> skills.world]
               \/ tools = [status |-> "fix", world |-> skills.world]
               \/ tools = [status |-> "fix", world |-> with(x)]
               \/ tools = [status |-> "warn", world |-> with(x)]
    BY Zenon DEF CheckSkillsRefToolchain
  <2>2. \A x : DirsTyped(with(x))
    BY <1>2, OtherFields
  <2> HIDE DEF with, tools
  <2> QED
    BY <1>2, <2>1, <2>2 DEF Results
<1> HIDE DEF tools
<1>4. pid.status \in Results /\ DirsTyped(pid.world)
  <2> DEFINE gone == [tools.world EXCEPT !.pid = "none"]
  <2>1. \/ pid = [status |-> "fix", world |-> gone]
        \/ pid = [status |-> "fix", world |-> tools.world]
        \/ pid = [status |-> "unasked", world |-> tools.world]
    BY Zenon DEF CleanStalePid
  <2>2. DirsTyped(gone)
    BY <1>3, OtherFields
  <2> HIDE DEF gone, pid
  <2> QED
    BY <1>3, <2>1, <2>2 DEF Results
<1> HIDE DEF pid
<1>5. /\ \A c : CheckCommand(w, c) \in Results
      /\ CheckGHScopes(w) \in Results /\ CheckConfig(w) \in Results
      /\ CheckGitRepo(w) \in Results /\ CheckGitRemote(w) \in Results
      /\ CheckWritability(dirs.world) \in Results /\ CheckEventStore(skills.world) \in Results
  BY DEF Results, CheckCommand, CheckGHScopes, CheckConfig, CheckGitRepo, CheckGitRemote,
         CheckWritability, CheckEventStore
<1>6. /\ CheckDeadLetters(w) \in Results /\ CheckFsnotify(w) \in Results
      /\ CheckClaudeAuth(w) \in Results /\ CheckLinearMCP(w) \in Results /\ "skip" \in Results
  BY DEF Results, CheckDeadLetters, CheckFsnotify, CheckClaudeAuth, CheckLinearMCP
<1> DEFINE d == Diagnosis(w, repair)
<1>7. d.world = pid.world
  BY DEF Diagnosis, dirs, skills, tools, pid
<1>8. d.checks = [git |-> CheckCommand(w, "git"), claude |-> CheckCommand(w, "claude"),
                  gh |-> CheckCommand(w, "gh"), docker |-> CheckCommand(w, "docker"),
                  ghScopes |-> CheckGHScopes(w), continent |-> dirs.status, config |-> CheckConfig(w),
                  gitRepo |-> CheckGitRepo(w), gitRemote |-> CheckGitRemote(w),
                  writable |-> CheckWritability(dirs.world), skills |-> skills.status,
                  events |-> CheckEventStore(skills.world), deadLetters |-> CheckDeadLetters(w),
                  fsnotify |-> CheckFsnotify(w), claudeAuth |-> CheckClaudeAuth(w),
                  linearMCP |-> CheckLinearMCP(w), claudeInference |-> "skip", contextBudget |-> "skip",
                  skillsRef |-> tools.status, stalePid |-> pid.status]
  BY DEF Diagnosis, dirs, skills, tools, pid
<1> HIDE DEF d
<1>9. \A c \in DOMAIN d.checks : d.checks[c] \in Results
  BY <1>1, <1>2, <1>3, <1>4, <1>5, <1>6, <1>8
<1> QED
  BY <1>4, <1>7, <1>9 DEF d

\* Lists of any kind grow by one.
LEMMA AnyGrows ==
  ASSUME NEW s, \E S : s \in Seq(S), NEW x, NEW n \in Nat, Len(s) < n
  PROVE  /\ \E S : Append(s, x) \in Seq(S)
         /\ Len(Append(s, x)) <= n
         /\ \A i \in DOMAIN Append(s, x) : Append(s, x)[i] = x \/ (i \in DOMAIN s /\ Append(s, x)[i] = s[i])
<1>1. PICK S : s \in Seq(S)
  OBVIOUS
<1> DEFINE T == S \union {x}
           r == Append(s, x)
<1>2. s \in Seq(T) /\ x \in T
  BY <1>1
<1> HIDE DEF T
<1>3. /\ r \in Seq(T) /\ Len(r) = Len(s) + 1 /\ Len(s) \in Nat /\ r[Len(s) + 1] = x
      /\ \A i \in 1 .. Len(s) : r[i] = s[i]
  BY <1>2
<1>4. DOMAIN r = 1 .. Len(s) + 1 /\ DOMAIN s = 1 .. Len(s)
  BY <1>2, <1>3
<1> HIDE DEF r
<1>5. \A i \in DOMAIN r : r[i] = x \/ (i \in DOMAIN s /\ r[i] = s[i])
  BY <1>3, <1>4
<1> QED
  BY <1>3, <1>5 DEF r

\* The doctor's world, its reports and the stream have their types (doctor.go).
THEOREM DoctorTypes == DrSpec => []DrTypeOK
<1> DEFINE Good(r) == \A c \in DOMAIN r.checks : r.checks[c] \in Results
           Inv == /\ DirsTyped(drWorld) /\ drChanges \in 0 .. DrChanges
                  /\ \E S : drReports \in Seq(S)
                  /\ \E S : drStream \in Seq(S)
                  /\ Len(drReports) <= 2 /\ Len(drStream) <= DrMessages
                  /\ \A i \in DOMAIN drReports : Good(drReports[i])
<1>0. << >> \in Seq({}) /\ Len(<< >>) = 0 /\ DOMAIN << >> = {} /\ DrChanges \in Nat /\ DrMessages \in Nat
  BY Nothing, DrAssumption
<1>1. DrInit => Inv
  <2> SUFFICES ASSUME DrInit PROVE Inv
    OBVIOUS
  <2>1. drReports = << >> /\ drStream = << >> /\ drChanges = 0
    BY DEF DrInit
  <2>2. DirsTyped(drWorld)
    BY DEF DrInit, NewMachine, DirsTyped
  <2> QED
    BY <1>0, <2>1, <2>2
<1>2. Inv /\ [DrNext]_drVars => Inv'
  <2> SUFFICES ASSUME Inv, [DrNext]_drVars PROVE Inv'
    OBVIOUS
  <2>1. CASE \E repair \in BOOLEAN : RunDoctor(repair)
    <3>1. PICK repair \in BOOLEAN : RunDoctor(repair)
      BY <2>1
    <3> DEFINE d == Diagnosis(drWorld, repair)
    <3>2. PICK failed :
            drReports' = Append(drReports, [repair |-> repair, checks |-> d.checks, failed |-> failed])
      BY <3>1, Zenon DEF RunDoctor
    <3>3. /\ Len(drReports) < 2 /\ drWorld' = d.world
          /\ UNCHANGED << drChanges, drStream >>
      BY <3>1, Zenon DEF RunDoctor
    <3>4. DirsTyped(d.world) /\ \A c \in DOMAIN d.checks : d.checks[c] \in Results
      BY ChecksTyped
    <3> DEFINE r == [repair |-> repair, checks |-> d.checks, failed |-> failed]
    <3>5. r.checks = d.checks
      OBVIOUS
    <3> HIDE DEF d, r
    <3>6. /\ \E S : drReports' \in Seq(S)
          /\ Len(drReports') <= 2
          /\ \A i \in DOMAIN drReports' : drReports'[i] = r \/ (i \in DOMAIN drReports /\ drReports'[i] = drReports[i])
      BY <3>2, <3>3, AnyGrows DEF r
    <3> QED
      BY <3>3, <3>4, <3>5, <3>6
  <2>2. CASE Clean
    <3>1. drReports' = << >> /\ drWorld' = Emptied(drWorld) /\ UNCHANGED << drChanges, drStream >>
      BY <2>2, Zenon DEF Clean
    <3> QED
      BY <1>0, <3>1, EmptiedTyped
  <2>3. CASE WorldChanges
    <3>1. /\ drReports' = << >> /\ drChanges < DrChanges /\ drChanges' = drChanges + 1
          /\ UNCHANGED drStream
          /\ drWorld' \in Machines(drWorld) \/ drWorld' \in Continents(drWorld)
      BY <2>3 DEF WorldChanges
    <3>2. DirsTyped(drWorld')
      BY <3>1, MachinesTyped, ContinentsTyped
    <3>3. drChanges' \in 0 .. DrChanges
      BY <1>0, <3>1
    <3> QED
      BY <1>0, <3>1, <3>2, <3>3
  <2>4. CASE StreamMessage
    <3>1. Len(drStream) < DrMessages /\ UNCHANGED << drWorld, drReports, drChanges >>
      BY <2>4, Zenon DEF StreamMessage
    <3>2. PICK x : drStream' = Append(drStream, x)
      BY <2>4, Zenon DEF StreamMessage
    <3>3. (\E S : drStream' \in Seq(S)) /\ Len(drStream') <= DrMessages
      BY <1>0, <3>1, <3>2, AnyGrows
    <3> QED
      BY <3>1, <3>3
  <2>5. CASE UNCHANGED drVars
    BY <2>5 DEF drVars
  <2> QED
    BY <2>1, <2>2, <2>3, <2>4, <2>5 DEF DrNext
<1>3. Inv => DrTypeOK
  BY DEF DrTypeOK, DirsTyped, Results
<1> QED
  BY <1>1, <1>2, <1>3, PTL DEF DrSpec

(***************************************************************************)
(* The doctor: what two runs in a row see of each other's repairs, and the *)
(* context budget.                                                         *)
(***************************************************************************)

Fields == {"dirs", "skills", "ignore", "writable", "path", "mcp", "auth", "scopes", "git", "config",
           "outbox", "events", "pid", "watches", "checkout", "uvInstall", "linear"}
Whole(w) == Fields \subseteq DOMAIN w

\* What no repair touches.
Kin(w, v) ==
  /\ Whole(w) /\ Whole(v)
  /\ v.writable = w.writable /\ v.mcp = w.mcp /\ v.auth = w.auth /\ v.scopes = w.scopes
  /\ v.git = w.git /\ v.config = w.config /\ v.outbox = w.outbox /\ v.events = w.events
  /\ v.watches = w.watches /\ v.checkout = w.checkout /\ v.uvInstall = w.uvInstall /\ v.linear = w.linear

LEMMA DirsChecked ==
  ASSUME NEW w, Whole(w), NEW r \in BOOLEAN, NEW d, d = CheckContinent(w, r)
  PROVE  /\ Kin(w, d.world) /\ d.world.skills = w.skills /\ d.world.path = w.path /\ d.world.pid = w.pid
         /\ w.dirs \subseteq d.world.dirs
         /\ d.status \in {"ok", "fix", "warn"}
         /\ d.status \in {"ok", "fix"} => {"root"} \union RequiredDirs \subseteq d.world.dirs
         /\ ~r => d.world = w
<1> DEFINE missing == ({"root"} \union RequiredDirs) \ w.dirs
           fixed == [w EXCEPT !.dirs = w.dirs \union missing]
<1>1. \/ d = [status |-> "ok", world |-> w] /\ missing = {}
      \/ d = [status |-> "fix", world |-> fixed] /\ r
      \/ d = [status |-> "warn", world |-> w]
  BY Zenon DEF CheckContinent
<1>2. /\ Kin(w, fixed) /\ fixed.skills = w.skills /\ fixed.path = w.path /\ fixed.pid = w.pid
      /\ fixed.dirs = w.dirs \union missing
  <2> HIDE DEF missing
  <2> QED
    BY DEF Kin, Whole, Fields
<1>3. Kin(w, w)
  BY DEF Kin
<1>4. missing = {} => {"root"} \union RequiredDirs \subseteq w.dirs
  OBVIOUS
<1>5. {"root"} \union RequiredDirs \subseteq w.dirs \union missing
  OBVIOUS
<1> HIDE DEF fixed, missing
<1>6. CASE d = [status |-> "ok", world |-> w] /\ missing = {}
  <2>1. d.status = "ok" /\ d.world = w
    BY <1>6
  <2> QED
    BY <1>3, <1>4, <1>6, <2>1
<1>7. CASE d = [status |-> "fix", world |-> fixed] /\ r
  <2>0. d = [status |-> "fix", world |-> fixed]
    BY <1>7, Zenon
  <2>1. d.status = "fix" /\ d.world = fixed
    BY <2>0
  <2> QED
    BY <1>2, <1>5, <1>7, <2>1
<1>8. CASE d = [status |-> "warn", world |-> w]
  <2>1. d.status = "warn" /\ d.world = w
    BY <1>8
  <2> QED
    BY <1>3, <2>1
<1> QED
  BY <1>1, <1>6, <1>7, <1>8

\* Writing the templates leaves no text of another kind than there was.
LEMMA SkillsWritten ==
  ASSUME NEW w, Whole(w), NEW v, v = Validated(w)
  PROVE  /\ Kin(w, v) /\ v.path = w.path /\ v.pid = w.pid /\ w.dirs \subseteq v.dirs
         /\ "current" \in {v.skills[s] : s \in DOMAIN v.skills}
         /\ {v.skills[s] : s \in DOMAIN v.skills} \subseteq {w.skills[s] : s \in DOMAIN w.skills} \union {"current"}
<1> DEFINE a == EnsureStateDir(w)
           k == Over([s \in OwnSkills |-> "current"], a.skills)
           b == SyncSkills(a)
<1>1. a = [w EXCEPT !.dirs = w.dirs \union StateDirs]
  BY Zenon DEF EnsureStateDir
<1>2. Kin(w, a) /\ a.path = w.path /\ a.pid = w.pid /\ a.skills = w.skills /\ a.dirs = w.dirs \union StateDirs
  <2> HIDE DEF a
  <2> QED
    BY <1>1 DEF Kin, Whole, Fields
<1>3. b = [a EXCEPT !.skills = k]
  BY Zenon DEF SyncSkills
<1> HIDE DEF a
<1>4. Kin(a, b) /\ b.path = a.path /\ b.pid = a.pid /\ b.skills = k /\ b.dirs = a.dirs
  <2> HIDE DEF b, k
  <2> QED
    BY <1>2, <1>3 DEF Kin, Whole, Fields
<1>5. PICK x : v = [b EXCEPT !.ignore = x]
  BY Zenon DEF EnsureGitignoreEntries, Validated, a, b
<1> HIDE DEF b
<1>6. Kin(b, v) /\ v.path = b.path /\ v.pid = b.pid /\ v.skills = b.skills /\ v.dirs = b.dirs
  BY <1>4, <1>5 DEF Kin, Whole, Fields
<1>7. DOMAIN k = OwnSkills \union DOMAIN w.skills
  BY <1>2 DEF Over
<1>8. \A s \in OwnSkills : k[s] = "current"
  BY DEF Over
<1>9. \A s \in DOMAIN w.skills : s \notin OwnSkills => k[s] = w.skills[s]
  BY <1>2 DEF Over
<1>10. "dmail-sendable" \in OwnSkills
  BY DEF OwnSkills
<1> HIDE DEF k
<1>11. v.skills = k
  BY <1>4, <1>6
<1>12. Kin(w, v)
  BY <1>2, <1>4, <1>6 DEF Kin
<1> QED
  BY <1>2, <1>4, <1>6, <1>7, <1>8, <1>9, <1>10, <1>11, <1>12

LEMMA SkillsChecked ==
  ASSUME NEW w, Whole(w), NEW r \in BOOLEAN, NEW d, d = RepairSkills(w, r)
  PROVE  /\ Kin(w, d.world) /\ d.world.path = w.path /\ d.world.pid = w.pid /\ w.dirs \subseteq d.world.dirs
         /\ d.status \in {"ok", "fix", "warn", "fail"}
         /\ d.status \in {"ok", "fix"} => CheckSkills(d.world) = "ok"
         /\ d.status = "fail" => CheckSkills(d.world) = "fail"
         /\ d.status # "fix" => d.status = CheckSkills(w)
         /\ CheckSkills(w) = "ok" => d.status = "ok"
         /\ d.status = "fix" => r
         /\ ~r => d.world = w
<1> DEFINE before == CheckSkills(w)
           v == Validated(w)
<1>1. Kin(w, w) /\ before \in {"ok", "warn", "fail"}
  BY DEF Kin, CheckSkills
<1>2. /\ Kin(w, v) /\ v.path = w.path /\ v.pid = w.pid /\ w.dirs \subseteq v.dirs
      /\ "current" \in {v.skills[s] : s \in DOMAIN v.skills}
      /\ {v.skills[s] : s \in DOMAIN v.skills} \subseteq {w.skills[s] : s \in DOMAIN w.skills} \union {"current"}
  BY SkillsWritten
<1>3. \/ d = [status |-> before, world |-> w] /\ (~r \/ before = "ok")
      \/ d = [status |-> "fix", world |-> v] /\ CheckSkills(v) = "ok" /\ r
      \/ d = [status |-> before, world |-> v] /\ CheckSkills(v) # "ok" /\ r
      \/ d = [status |-> before, world |-> w] /\ r
  <2> DEFINE done == ValidateContinent(w)
  <2>1. \/ done = [ok |-> TRUE, world |-> v]
        \/ done = [ok |-> FALSE, world |-> w]
    BY Zenon DEF ValidateContinent
  <2>2. (done.ok /\ done.world = v) \/ (~done.ok /\ done.world = w)
    <3> HIDE DEF v, done
    <3> QED
      BY <2>1
  <2>3. \/ d = [status |-> before, world |-> w] /\ (~r \/ before = "ok")
        \/ d = [status |-> "fix", world |-> done.world] /\ r /\ done.ok /\ CheckSkills(done.world) = "ok"
        \/ d = [status |-> before, world |-> done.world] /\ r /\ ~(done.ok /\ CheckSkills(done.world) = "ok")
    BY Zenon DEF RepairSkills
  <2> HIDE DEF v, done, before
  <2> QED
    BY <2>2, <2>3
<1>4. before = "fail" => CheckSkills(v) \in {"ok", "fail"}
  <2> HIDE DEF v
  <2> SUFFICES ASSUME before = "fail" PROVE "unversioned" \notin {v.skills[s] : s \in DOMAIN v.skills}
    BY <1>2 DEF CheckSkills
  <2>1. "unversioned" \notin {w.skills[s] : s \in DOMAIN w.skills}
    BY DEF CheckSkills
  <2> QED
    BY <1>2, <2>1
<1> HIDE DEF v
<1>5. before = CheckSkills(w)
  OBVIOUS
<1> HIDE DEF before
<1>9. before = "ok" => d = [status |-> before, world |-> w]
  BY Zenon DEF RepairSkills, before
<1>10. before = "ok" => d.status = "ok"
  BY <1>9
<1>6. CASE d = [status |-> before, world |-> w]
  <2>1. d.status = before /\ d.world = w
    BY <1>6
  <2> QED
    BY <1>1, <1>5, <2>1
<1>7. CASE d = [status |-> "fix", world |-> v] /\ CheckSkills(v) = "ok" /\ r
  <2>0. d = [status |-> "fix", world |-> v]
    BY <1>7, Zenon
  <2>1. d.status = "fix" /\ d.world = v
    BY <2>0
  <2> QED
    BY <1>2, <1>5, <1>7, <1>10, <2>1
<1>8. CASE d = [status |-> before, world |-> v] /\ CheckSkills(v) # "ok" /\ r /\ before # "ok"
  <2>0. d = [status |-> before, world |-> v]
    BY <1>8, Zenon
  <2>1. d.status = before /\ d.world = v
    BY <2>0
  <2> QED
    BY <1>1, <1>2, <1>4, <1>5, <1>8, <2>1
<1> QED
  BY <1>3, <1>5, <1>6, <1>7, <1>8, <1>9, <1>10

LEMMA ToolsChecked ==
  ASSUME NEW w, Whole(w), NEW r \in BOOLEAN, NEW d, d = CheckSkillsRefToolchain(w, r)
  PROVE  /\ Kin(w, d.world) /\ d.world.skills = w.skills /\ d.world.pid = w.pid /\ d.world.dirs = w.dirs
         /\ d.world.path = w.path \/ d.world.path = w.path \union {"agentskills"}
         /\ d.status \in {"ok", "fix", "warn"}
         /\ d.status \in {"ok", "fix"} => FindSkillsRefBin(d.world)
         /\ FindSkillsRefBin(w) => d.status = "ok"
         /\ ~r => d.world = w
<1> DEFINE v == [w EXCEPT !.path = w.path \union {"agentskills"}]
           installed == IF w.uvInstall = "works" THEN v ELSE w
<1>1. /\ Kin(w, v) /\ v.skills = w.skills /\ v.pid = w.pid /\ v.dirs = w.dirs
      /\ v.path = w.path \union {"agentskills"}
  BY DEF Kin, Whole, Fields
<1>2. Kin(w, w)
  BY DEF Kin
<1>3. \/ d = [status |-> "ok", world |-> w] /\ FindSkillsRefBin(w)
      \/ d = [status |-> "warn", world |-> w]
      \/ d = [status |-> "fix", world |-> installed] /\ FindSkillsRefBin(installed) /\ r
      \/ d = [status |-> "warn", world |-> installed] /\ r
  BY Zenon DEF CheckSkillsRefToolchain
<1>4. installed = v \/ installed = w
  BY Zenon
<1>6. FindSkillsRefBin(w) => d = [status |-> "ok", world |-> w]
  BY Zenon DEF CheckSkillsRefToolchain
<1> HIDE DEF v, installed
<1>5. \/ d.status = "ok" /\ d.world = w /\ FindSkillsRefBin(w)
      \/ d.status = "warn" /\ d.world = w
      \/ d.status = "fix" /\ d.world = installed /\ FindSkillsRefBin(installed) /\ r
      \/ d.status = "warn" /\ d.world = installed /\ r
  BY <1>3
<1>7. FindSkillsRefBin(w) => d.status = "ok"
  BY <1>6
<1> QED
  BY <1>1, <1>2, <1>4, <1>5, <1>7

LEMMA PidChecked ==
  ASSUME NEW w, Whole(w), NEW r \in BOOLEAN, NEW d, d = CleanStalePid(w, r)
  PROVE  /\ Kin(w, d.world) /\ d.world.skills = w.skills /\ d.world.dirs = w.dirs /\ d.world.path = w.path
         /\ d.status \in {"fix", "unasked"}
         /\ d.status = "fix" => r /\ w.pid = "dead" /\ (w.writable => d.world.pid = "none")
         /\ ~r => d.world = w
<1> DEFINE v == [w EXCEPT !.pid = "none"]
<1>1. Kin(w, v) /\ v.skills = w.skills /\ v.dirs = w.dirs /\ v.path = w.path /\ v.pid = "none"
  BY DEF Kin, Whole, Fields
<1>2. Kin(w, w)
  BY DEF Kin
<1>3. \/ d = [status |-> "fix", world |-> v] /\ r /\ w.pid = "dead"
      \/ d = [status |-> "fix", world |-> w] /\ r /\ w.pid = "dead" /\ ~w.writable
      \/ d = [status |-> "unasked", world |-> w]
  BY Zenon DEF CleanStalePid
<1> HIDE DEF v
<1>4. \/ d.status = "fix" /\ d.world = v /\ r /\ w.pid = "dead"
      \/ d.status = "fix" /\ d.world = w /\ r /\ w.pid = "dead" /\ ~w.writable
      \/ d.status = "unasked" /\ d.world = w
  BY <1>3
<1> QED
  BY <1>1, <1>2, <1>4

\* The repairs of a run, in their order.
DirsOf(w, r) == CheckContinent(w, r)
SkillsOf(w, r) == RepairSkills(DirsOf(w, r).world, r)
ToolsOf(w, r) == CheckSkillsRefToolchain(SkillsOf(w, r).world, r)
PidOf(w, r) == CleanStalePid(ToolsOf(w, r).world, r)

LEMMA DiagnosisIs ==
  ASSUME NEW w, NEW r
  PROVE  /\ Diagnosis(w, r).world = PidOf(w, r).world
         /\ Diagnosis(w, r).checks =
              [git |-> CheckCommand(w, "git"), claude |-> CheckCommand(w, "claude"),
               gh |-> CheckCommand(w, "gh"), docker |-> CheckCommand(w, "docker"),
               ghScopes |-> CheckGHScopes(w), continent |-> DirsOf(w, r).status, config |-> CheckConfig(w),
               gitRepo |-> CheckGitRepo(w), gitRemote |-> CheckGitRemote(w),
               writable |-> CheckWritability(DirsOf(w, r).world), skills |-> SkillsOf(w, r).status,
               events |-> CheckEventStore(SkillsOf(w, r).world), deadLetters |-> CheckDeadLetters(w),
               fsnotify |-> CheckFsnotify(w), claudeAuth |-> CheckClaudeAuth(w),
               linearMCP |-> CheckLinearMCP(w), claudeInference |-> "skip", contextBudget |-> "skip",
               skillsRef |-> ToolsOf(w, r).status, stalePid |-> PidOf(w, r).status]
  BY DEF Diagnosis, DirsOf, SkillsOf, ToolsOf, PidOf

\* What a run leaves behind.
LEMMA WorldAfter ==
  ASSUME NEW w, Whole(w), NEW r \in BOOLEAN, NEW v, v = Diagnosis(w, r).world
  PROVE  /\ Kin(w, v) /\ w.dirs \subseteq v.dirs
         /\ v.path = w.path \/ v.path = w.path \union {"agentskills"}
         /\ ~r => v = w
         /\ DirsOf(w, r).world.dirs \subseteq v.dirs /\ Kin(w, DirsOf(w, r).world)
         /\ DirsOf(w, r).status \in {"ok", "fix", "warn"}
         /\ DirsOf(w, r).status \in {"ok", "fix"} => {"root"} \union RequiredDirs \subseteq v.dirs
         /\ Kin(w, SkillsOf(w, r).world)
         /\ SkillsOf(w, r).status \in {"ok", "fix", "warn", "fail"}
         /\ SkillsOf(w, r).status \in {"ok", "fix"} => CheckSkills(v) = "ok"
         /\ SkillsOf(w, r).status = "fail" => CheckSkills(v) = "fail"
         /\ SkillsOf(w, r).status # "fix" => SkillsOf(w, r).status = CheckSkills(w)
         /\ CheckSkills(w) = "ok" => SkillsOf(w, r).status = "ok"
         /\ SkillsOf(w, r).status = "fix" => r
         /\ ToolsOf(w, r).status \in {"ok", "fix", "warn"}
         /\ ToolsOf(w, r).status \in {"ok", "fix"} => FindSkillsRefBin(v)
         /\ FindSkillsRefBin(w) => ToolsOf(w, r).status = "ok"
         /\ PidOf(w, r).status \in {"fix", "unasked"}
         /\ PidOf(w, r).status = "fix" => r /\ w.pid = "dead" /\ (w.writable => v.pid = "none")
<1> DEFINE a == DirsOf(w, r)
           b == SkillsOf(w, r)
           t == ToolsOf(w, r)
           p == PidOf(w, r)
<1>1. /\ Kin(w, a.world) /\ a.world.skills = w.skills /\ a.world.path = w.path /\ a.world.pid = w.pid
      /\ w.dirs \subseteq a.world.dirs
      /\ a.status \in {"ok", "fix", "warn"}
      /\ a.status \in {"ok", "fix"} => {"root"} \union RequiredDirs \subseteq a.world.dirs
      /\ ~r => a.world = w
  BY DirsChecked DEF DirsOf
<1>2. b = RepairSkills(a.world, r) /\ t = CheckSkillsRefToolchain(b.world, r) /\ p = CleanStalePid(t.world, r)
  BY DEF SkillsOf, ToolsOf, PidOf
<1>3. v = p.world
  BY DiagnosisIs
<1> HIDE DEF a, b, t, p
<1>4. Whole(a.world)
  BY <1>1 DEF Kin
<1>5. /\ Kin(a.world, b.world) /\ b.world.path = a.world.path /\ b.world.pid = a.world.pid
      /\ a.world.dirs \subseteq b.world.dirs
      /\ b.status \in {"ok", "fix", "warn", "fail"}
      /\ b.status \in {"ok", "fix"} => CheckSkills(b.world) = "ok"
      /\ b.status = "fail" => CheckSkills(b.world) = "fail"
      /\ b.status # "fix" => b.status = CheckSkills(a.world)
      /\ CheckSkills(a.world) = "ok" => b.status = "ok"
      /\ b.status = "fix" => r
      /\ ~r => b.world = a.world
  BY <1>2, <1>4, SkillsChecked
<1>6. Whole(b.world)
  BY <1>5 DEF Kin
<1>7. /\ Kin(b.world, t.world) /\ t.world.skills = b.world.skills /\ t.world.pid = b.world.pid
      /\ t.world.dirs = b.world.dirs
      /\ t.world.path = b.world.path \/ t.world.path = b.world.path \union {"agentskills"}
      /\ t.status \in {"ok", "fix", "warn"}
      /\ t.status \in {"ok", "fix"} => FindSkillsRefBin(t.world)
      /\ FindSkillsRefBin(b.world) => t.status = "ok"
      /\ ~r => t.world = b.world
  BY <1>2, <1>6, ToolsChecked
<1>8. Whole(t.world)
  BY <1>7 DEF Kin
<1>9. /\ Kin(t.world, p.world) /\ p.world.skills = t.world.skills /\ p.world.dirs = t.world.dirs
      /\ p.world.path = t.world.path
      /\ p.status \in {"fix", "unasked"}
      /\ p.status = "fix" => r /\ t.world.pid = "dead" /\ (t.world.writable => p.world.pid = "none")
      /\ ~r => p.world = t.world
  BY <1>2, <1>8, PidChecked
<1>10. Kin(w, b.world)
  BY <1>1, <1>5 DEF Kin
<1>11. Kin(w, t.world) /\ Kin(w, v)
  BY <1>3, <1>7, <1>9, <1>10 DEF Kin
<1>12. CheckSkills(a.world) = CheckSkills(w) /\ CheckSkills(v) = CheckSkills(b.world)
  BY <1>1, <1>3, <1>7, <1>9 DEF CheckSkills
<1>13. FindSkillsRefBin(v) = FindSkillsRefBin(t.world)
  BY <1>3, <1>9 DEF FindSkillsRefBin
<1>14. t.world.writable = w.writable
  BY <1>11 DEF Kin
<1>15. v.path = w.path \/ v.path = w.path \union {"agentskills"}
  BY <1>1, <1>3, <1>5, <1>7, <1>9
<1>16. w.dirs \subseteq v.dirs /\ a.world.dirs \subseteq v.dirs
  BY <1>1, <1>3, <1>5, <1>7, <1>9
<1>17. ~r => v = w
  BY <1>1, <1>3, <1>5, <1>7, <1>9
<1>18. a.status \in {"ok", "fix"} => {"root"} \union RequiredDirs \subseteq v.dirs
  BY <1>1, <1>16
<1>19. /\ b.status \in {"ok", "fix"} => CheckSkills(v) = "ok"
       /\ b.status = "fail" => CheckSkills(v) = "fail"
       /\ b.status # "fix" => b.status = CheckSkills(w)
       /\ CheckSkills(w) = "ok" => b.status = "ok"
  BY <1>5, <1>12
<1>20. t.status \in {"ok", "fix"} => FindSkillsRefBin(v)
  BY <1>7, <1>13, Zenon
<1>21. t.world.pid = w.pid
  BY <1>1, <1>5, <1>7
<1>22. p.status = "fix" => r /\ w.pid = "dead" /\ (w.writable => v.pid = "none")
  BY <1>3, <1>9, <1>14, <1>21, Zenon
<1>23. b.world.path = w.path
  BY <1>1, <1>5
<1>24. FindSkillsRefBin(w) => t.status = "ok"
  BY <1>7, <1>23 DEF FindSkillsRefBin
<1> QED
  BY <1>1, <1>5, <1>7, <1>9, <1>10, <1>11, <1>15, <1>16, <1>17, <1>18, <1>19, <1>20, <1>22, <1>24, Zenon DEF a, b, t, p

\* The checks that only look find after a run what they found before it.
LEMMA OnlyLook ==
  ASSUME NEW w, NEW v, Kin(w, v), v.path = w.path \/ v.path = w.path \union {"agentskills"}
  PROVE  /\ \A c \in {"git", "claude", "gh", "docker"} : CheckCommand(v, c) = CheckCommand(w, c)
         /\ CheckGHScopes(v) = CheckGHScopes(w) /\ CheckConfig(v) = CheckConfig(w)
         /\ CheckGitRepo(v) = CheckGitRepo(w) /\ CheckGitRemote(v) = CheckGitRemote(w)
         /\ CheckEventStore(v) = CheckEventStore(w) /\ CheckDeadLetters(v) = CheckDeadLetters(w)
         /\ CheckFsnotify(v) = CheckFsnotify(w) /\ CheckClaudeAuth(v) = CheckClaudeAuth(w)
         /\ CheckLinearMCP(v) = CheckLinearMCP(w)
<1>1. \A c \in {"git", "claude", "gh", "docker"} : c \in v.path <=> c \in w.path
  OBVIOUS
<1>2. \A c \in {"git", "claude", "gh", "docker"} : CheckCommand(v, c) = CheckCommand(w, c)
  BY <1>1 DEF CheckCommand
<1>3. CheckGHScopes(v) = CheckGHScopes(w)
  BY <1>1 DEF CheckGHScopes, Kin
<1>4. CheckConfig(v) = CheckConfig(w) /\ CheckGitRepo(v) = CheckGitRepo(w) /\ CheckGitRemote(v) = CheckGitRemote(w)
  BY <1>1 DEF CheckConfig, CheckGitRepo, CheckGitRemote, Kin
<1>5. CheckEventStore(v) = CheckEventStore(w) /\ CheckDeadLetters(v) = CheckDeadLetters(w)
  BY DEF CheckEventStore, CheckDeadLetters, Kin
<1>6. CheckFsnotify(v) = CheckFsnotify(w)
  BY DEF CheckFsnotify, Kin
<1>7. CheckClaudeAuth(v) = CheckClaudeAuth(w)
  BY <1>1 DEF CheckClaudeAuth, Kin
<1>8. CheckLinearMCP(v) = CheckLinearMCP(w)
  BY <1>7 DEF CheckLinearMCP, Kin
<1> QED
  BY <1>2, <1>3, <1>4, <1>5, <1>6, <1>7, <1>8

\* How bad a result is.
Badness(s) == CASE s \in {"ok", "fix"} -> 0 [] s = "skip" -> 1 [] s = "warn" -> 2 [] OTHER -> 3

\* What the next run may find where this one has found something.
Stands(c, one, two, repair, writable) ==
  /\ one = "fix" => two = "ok" \/ (c = "stalePid" /\ (writable => two = "unasked"))
  /\ \/ "unasked" \in {one, two}
     \/ Badness(two) <= Badness(one)
     \/ c = "skills" /\ repair /\ one = "warn"

LEMMA SameStands ==
  ASSUME NEW c, NEW one, one # "fix", NEW repair, NEW writable
  PROVE  Stands(c, one, one, repair, writable)
  BY DEF Stands, Badness

LEMMA SecondRun ==
  ASSUME NEW w, Whole(w), NEW r \in BOOLEAN, NEW q \in BOOLEAN, NEW v, v = Diagnosis(w, r).world
  PROVE  \A c \in DOMAIN Diagnosis(w, r).checks :
           Stands(c, Diagnosis(w, r).checks[c], Diagnosis(v, q).checks[c], r, Diagnosis(v, q).world.writable)
<1> DEFINE one == Diagnosis(w, r).checks
           two == Diagnosis(v, q).checks
           free == Diagnosis(v, q).world.writable
           S(c) == Stands(c, one[c], two[c], r, free)
<1>1. /\ Kin(w, v) /\ w.dirs \subseteq v.dirs
      /\ v.path = w.path \/ v.path = w.path \union {"agentskills"}
      /\ ~r => v = w
      /\ DirsOf(w, r).world.dirs \subseteq v.dirs /\ Kin(w, DirsOf(w, r).world)
      /\ DirsOf(w, r).status \in {"ok", "fix", "warn"}
      /\ DirsOf(w, r).status \in {"ok", "fix"} => {"root"} \union RequiredDirs \subseteq v.dirs
      /\ Kin(w, SkillsOf(w, r).world)
      /\ SkillsOf(w, r).status \in {"ok", "fix", "warn", "fail"}
      /\ SkillsOf(w, r).status \in {"ok", "fix"} => CheckSkills(v) = "ok"
      /\ SkillsOf(w, r).status # "fix" => SkillsOf(w, r).status = CheckSkills(w)
      /\ ToolsOf(w, r).status \in {"ok", "fix", "warn"}
      /\ ToolsOf(w, r).status \in {"ok", "fix"} => FindSkillsRefBin(v)
      /\ PidOf(w, r).status \in {"fix", "unasked"}
      /\ PidOf(w, r).status = "fix" => (w.writable => v.pid = "none")
      /\ SkillsOf(w, r).status = "fix" => r
  BY WorldAfter
<1>2. Whole(v)
  BY <1>1 DEF Kin
<1>3. /\ Kin(v, Diagnosis(v, q).world)
      /\ v.dirs \subseteq DirsOf(v, q).world.dirs /\ Kin(v, DirsOf(v, q).world)
      /\ DirsOf(v, q).status \in {"ok", "fix", "warn"}
      /\ Kin(v, SkillsOf(v, q).world)
      /\ SkillsOf(v, q).status \in {"ok", "fix", "warn", "fail"}
      /\ SkillsOf(v, q).status # "fix" => SkillsOf(v, q).status = CheckSkills(v)
      /\ CheckSkills(v) = "ok" => SkillsOf(v, q).status = "ok"
      /\ ToolsOf(v, q).status \in {"ok", "fix", "warn"}
      /\ FindSkillsRefBin(v) => ToolsOf(v, q).status = "ok"
      /\ PidOf(v, q).status \in {"fix", "unasked"}
      /\ PidOf(v, q).status = "fix" => v.pid = "dead"
  <2>1. v.dirs \subseteq DirsOf(v, q).world.dirs
    BY <1>2, DirsChecked DEF DirsOf
  <2> QED
    BY <1>2, <2>1, WorldAfter
<1>4. one =
        [git |-> CheckCommand(w, "git"), claude |-> CheckCommand(w, "claude"),
         gh |-> CheckCommand(w, "gh"), docker |-> CheckCommand(w, "docker"),
         ghScopes |-> CheckGHScopes(w), continent |-> DirsOf(w, r).status, config |-> CheckConfig(w),
         gitRepo |-> CheckGitRepo(w), gitRemote |-> CheckGitRemote(w),
         writable |-> CheckWritability(DirsOf(w, r).world), skills |-> SkillsOf(w, r).status,
         events |-> CheckEventStore(SkillsOf(w, r).world), deadLetters |-> CheckDeadLetters(w),
         fsnotify |-> CheckFsnotify(w), claudeAuth |-> CheckClaudeAuth(w),
         linearMCP |-> CheckLinearMCP(w), claudeInference |-> "skip", contextBudget |-> "skip",
         skillsRef |-> ToolsOf(w, r).status, stalePid |-> PidOf(w, r).status]
  BY DiagnosisIs
<1>5. two =
        [git |-> CheckCommand(v, "git"), claude |-> CheckCommand(v, "claude"),
         gh |-> CheckCommand(v, "gh"), docker |-> CheckCommand(v, "docker"),
         ghScopes |-> CheckGHScopes(v), continent |-> DirsOf(v, q).status, config |-> CheckConfig(v),
         gitRepo |-> CheckGitRepo(v), gitRemote |-> CheckGitRemote(v),
         writable |-> CheckWritability(DirsOf(v, q).world), skills |-> SkillsOf(v, q).status,
         events |-> CheckEventStore(SkillsOf(v, q).world), deadLetters |-> CheckDeadLetters(v),
         fsnotify |-> CheckFsnotify(v), claudeAuth |-> CheckClaudeAuth(v),
         linearMCP |-> CheckLinearMCP(v), claudeInference |-> "skip", contextBudget |-> "skip",
         skillsRef |-> ToolsOf(v, q).status, stalePid |-> PidOf(v, q).status]
  BY DiagnosisIs
<1>6. free = w.writable
  BY <1>1, <1>3 DEF Kin
<1> HIDE DEF one, two, free
<1>7. S("git") /\ S("claude") /\ S("gh") /\ S("docker")
  <2>1. /\ two.git = one.git /\ two.claude = one.claude /\ two.gh = one.gh /\ two.docker = one.docker
    BY <1>1, <1>4, <1>5, OnlyLook
  <2>2. "fix" \notin {one.git, one.claude, one.gh, one.docker}
    BY <1>4 DEF CheckCommand
  <2> QED
    BY <2>1, <2>2, SameStands
<1>8. S("ghScopes") /\ S("config") /\ S("gitRepo") /\ S("gitRemote")
  <2>1. /\ two.ghScopes = one.ghScopes /\ two.config = one.config
        /\ two.gitRepo = one.gitRepo /\ two.gitRemote = one.gitRemote
    BY <1>1, <1>4, <1>5, OnlyLook
  <2>2. "fix" \notin {one.ghScopes, one.config, one.gitRepo, one.gitRemote}
    BY <1>4 DEF CheckGHScopes, CheckConfig, CheckGitRepo, CheckGitRemote
  <2> QED
    BY <2>1, <2>2, SameStands
<1>9. S("deadLetters") /\ S("fsnotify") /\ S("claudeAuth") /\ S("linearMCP")
  <2>1. /\ two.deadLetters = one.deadLetters /\ two.fsnotify = one.fsnotify
        /\ two.claudeAuth = one.claudeAuth /\ two.linearMCP = one.linearMCP
    BY <1>1, <1>4, <1>5, OnlyLook
  <2>2. "fix" \notin {one.deadLetters, one.fsnotify, one.claudeAuth, one.linearMCP}
    BY <1>4 DEF CheckDeadLetters, CheckFsnotify, CheckClaudeAuth, CheckLinearMCP
  <2> QED
    BY <2>1, <2>2, SameStands
<1>10. S("claudeInference") /\ S("contextBudget")
  <2>1. one.claudeInference = "skip" /\ two.claudeInference = "skip"
    BY <1>4, <1>5
  <2>2. one.contextBudget = "skip" /\ two.contextBudget = "skip"
    BY <1>4, <1>5
  <2> QED
    BY <2>1, <2>2, SameStands
<1>11. S("events")
  <2>1. one.events = CheckEventStore(w) /\ two.events = CheckEventStore(w)
    BY <1>1, <1>3, <1>4, <1>5 DEF CheckEventStore, Kin
  <2>2. one.events # "fix"
    BY <2>1 DEF CheckEventStore
  <2> QED
    BY <2>1, <2>2, SameStands
<1>12. S("continent")
  <2>1. one.continent = DirsOf(w, r).status /\ two.continent = DirsOf(v, q).status
    BY <1>4, <1>5
  <2>2. one.continent \in {"ok", "fix"} => two.continent = "ok"
    <3>1. {"root"} \union RequiredDirs \subseteq v.dirs => DirsOf(v, q) = [status |-> "ok", world |-> v]
      BY Zenon DEF DirsOf, CheckContinent
    <3>2. {"root"} \union RequiredDirs \subseteq v.dirs => DirsOf(v, q).status = "ok"
      BY <3>1
    <3> QED
      BY <1>1, <2>1, <3>2, Zenon
  <2>3. one.continent \in {"ok", "fix", "warn"} /\ two.continent \in {"ok", "fix", "warn"}
    BY <1>1, <1>3, <2>1
  <2> QED
    BY <2>2, <2>3 DEF Stands, Badness
<1>13. S("writable")
  <2>1. one.writable = CheckWritability(DirsOf(w, r).world) /\ two.writable = CheckWritability(DirsOf(v, q).world)
    BY <1>4, <1>5
  <2>2. one.writable = "ok" => two.writable = "ok"
    BY <1>1, <1>3, <2>1 DEF CheckWritability, Kin
  <2>3. one.writable \in {"ok", "warn"} /\ two.writable \in {"ok", "warn"}
    BY <2>1 DEF CheckWritability
  <2> QED
    BY <2>2, <2>3 DEF Stands, Badness
<1>14. S("skills")
  <2>1. one.skills = SkillsOf(w, r).status /\ two.skills = SkillsOf(v, q).status
    BY <1>4, <1>5
  <2>2. one.skills \in {"ok", "fix"} => two.skills = "ok"
    BY <1>1, <1>3, <2>1
  <2>3. one.skills = "warn" /\ ~r => two.skills \in {"warn", "fix"}
    <3>1. one.skills = "warn" => CheckSkills(w) = "warn"
      BY <1>1, <2>1
    <3>2. two.skills # "fix" => two.skills = CheckSkills(v)
      BY <1>3, <2>1
    <3> QED
      BY <1>1, <3>1, <3>2
  <2>4. one.skills \in {"ok", "fix", "warn", "fail"} /\ two.skills \in {"ok", "fix", "warn", "fail"}
    BY <1>1, <1>3, <2>1
  <2> QED
    BY <2>2, <2>3, <2>4 DEF Stands, Badness
<1>15. S("skillsRef")
  <2>1. one.skillsRef = ToolsOf(w, r).status /\ two.skillsRef = ToolsOf(v, q).status
    BY <1>4, <1>5
  <2>2. one.skillsRef \in {"ok", "fix"} => two.skillsRef = "ok"
    BY <1>1, <1>3, <2>1, Zenon
  <2>3. one.skillsRef \in {"ok", "fix", "warn"} /\ two.skillsRef \in {"ok", "fix", "warn"}
    BY <1>1, <1>3, <2>1
  <2> QED
    BY <2>2, <2>3 DEF Stands, Badness
<1>16. S("stalePid")
  <2>1. one.stalePid = PidOf(w, r).status /\ two.stalePid = PidOf(v, q).status
    BY <1>4, <1>5
  <2>2. one.stalePid = "fix" /\ free => two.stalePid = "unasked"
    BY <1>1, <1>3, <1>6, <2>1
  <2>3. one.stalePid \in {"fix", "unasked"} /\ two.stalePid \in {"fix", "unasked"}
    BY <1>1, <1>3, <2>1
  <2> QED
    BY <2>2, <2>3 DEF Stands, Badness
<1> HIDE DEF S
<1>17. \A c \in DOMAIN one : S(c)
  <2>1. DOMAIN one = {"git", "claude", "gh", "docker", "ghScopes", "continent", "config", "gitRepo",
                      "gitRemote", "writable", "skills", "events", "deadLetters", "fsnotify", "claudeAuth",
                      "linearMCP", "claudeInference", "contextBudget", "skillsRef", "stalePid"}
    BY <1>4
  <2> QED
    BY <1>7, <1>8, <1>9, <1>10, <1>11, <1>12, <1>13, <1>14, <1>15, <1>16, <2>1
<1> QED
  BY <1>17 DEF S, one, two, free

\* What others do leaves the world whole.
LEMMA WholeChanged ==
  ASSUME NEW w, Whole(w), NEW v, v \in Machines(w) \/ v \in Continents(w) \/ v = Emptied(w)
  PROVE  Whole(v)
<1>1. CASE v \in Machines(w)
  <2>1. DOMAIN v = DOMAIN w
    BY <1>1, Zenon DEF Machines
  <2> QED
    BY <2>1 DEF Whole
<1>2. DOMAIN Emptied(w) = DOMAIN w
  BY Zenon DEF Emptied
<1>3. CASE v \in Continents(w)
  <2>1. \A d : DOMAIN WithoutDir(w, d) = DOMAIN w
    BY <1>2, Zenon DEF WithoutDir
  <2>3. \/ \E d : v = WithoutDir(w, d)
        \/ \E x : v = [w EXCEPT !.skills = x]
        \/ \E x : v = [w EXCEPT !.config = x]
        \/ \E x : v = [w EXCEPT !.pid = x]
        \/ \E x : v = [w EXCEPT !.outbox = x]
        \/ \E x : v = [w EXCEPT !.events = x]
    BY <1>3, ContinentsAre
  <2>4. (\E d : v = WithoutDir(w, d)) => DOMAIN v = DOMAIN w
    BY <2>1
  <2>2. DOMAIN v = DOMAIN w
    BY <2>3, <2>4
  <2> QED
    BY <2>2 DEF Whole
<1> QED
  BY <1>1, <1>2, <1>3 DEF Whole

\* The report of a run.
Report(w, r) ==
  [repair |-> r, checks |-> Diagnosis(w, r).checks,
   failed |-> \E c \in DOMAIN Diagnosis(w, r).checks : Diagnosis(w, r).checks[c] = "fail"]

\* The reports are those of one or two runs, of which each found what the one before it left.
ReportsAre(reports, world) ==
  /\ Whole(world)
  /\ \/ reports = << >>
     \/ \E w, r : /\ Whole(w) /\ r \in BOOLEAN
                  /\ reports = << Report(w, r) >> /\ world = Diagnosis(w, r).world
     \/ \E w, r, q : /\ Whole(w) /\ r \in BOOLEAN /\ q \in BOOLEAN
                     /\ reports = << Report(w, r), Report(Diagnosis(w, r).world, q) >>
                     /\ world = Diagnosis(Diagnosis(w, r).world, q).world

\* What a session cannot do without is not there.
Broken(v) ==
  \/ ~({"git", "claude", "gh"} \subseteq v.path)
  \/ ~v.watches
  \/ /\ "deprecated" \in {v.skills[s] : s \in DOMAIN v.skills}
     /\ "unversioned" \notin {v.skills[s] : s \in DOMAIN v.skills}

LEMMA ErrorsAre ==
  ASSUME NEW w, Whole(w), NEW r \in BOOLEAN, NEW v, v = Diagnosis(w, r).world
  PROVE  /\ Report(w, r).failed => Broken(v)
         /\ Broken(v) /\ ~r => Report(w, r).failed
<1> DEFINE c == Diagnosis(w, r).checks
           failed == \E k \in DOMAIN c : c[k] = "fail"
<1>1. /\ Kin(w, v)
      /\ v.path = w.path \/ v.path = w.path \union {"agentskills"}
      /\ ~r => v = w
      /\ DirsOf(w, r).status \in {"ok", "fix", "warn"}
      /\ SkillsOf(w, r).status \in {"ok", "fix", "warn", "fail"}
      /\ SkillsOf(w, r).status = "fail" => CheckSkills(v) = "fail"
      /\ SkillsOf(w, r).status # "fix" => SkillsOf(w, r).status = CheckSkills(w)
      /\ SkillsOf(w, r).status = "fix" => r
      /\ ToolsOf(w, r).status \in {"ok", "fix", "warn"}
      /\ PidOf(w, r).status \in {"fix", "unasked"}
  BY WorldAfter
<1>2. c =
        [git |-> CheckCommand(w, "git"), claude |-> CheckCommand(w, "claude"),
         gh |-> CheckCommand(w, "gh"), docker |-> CheckCommand(w, "docker"),
         ghScopes |-> CheckGHScopes(w), continent |-> DirsOf(w, r).status, config |-> CheckConfig(w),
         gitRepo |-> CheckGitRepo(w), gitRemote |-> CheckGitRemote(w),
         writable |-> CheckWritability(DirsOf(w, r).world), skills |-> SkillsOf(w, r).status,
         events |-> CheckEventStore(SkillsOf(w, r).world), deadLetters |-> CheckDeadLetters(w),
         fsnotify |-> CheckFsnotify(w), claudeAuth |-> CheckClaudeAuth(w),
         linearMCP |-> CheckLinearMCP(w), claudeInference |-> "skip", contextBudget |-> "skip",
         skillsRef |-> ToolsOf(w, r).status, stalePid |-> PidOf(w, r).status]
  BY DiagnosisIs
<1>3. /\ CheckCommand(w, "docker") # "fail" /\ CheckGHScopes(w) # "fail" /\ CheckConfig(w) # "fail"
      /\ CheckGitRepo(w) # "fail" /\ CheckGitRemote(w) # "fail" /\ CheckDeadLetters(w) # "fail"
      /\ CheckClaudeAuth(w) # "fail" /\ CheckLinearMCP(w) # "fail"
  BY DEF CheckCommand, CheckGHScopes, CheckConfig, CheckGitRepo, CheckGitRemote, CheckDeadLetters,
         CheckClaudeAuth, CheckLinearMCP
<1>4. CheckWritability(DirsOf(w, r).world) # "fail" /\ CheckEventStore(SkillsOf(w, r).world) # "fail"
  BY DEF CheckWritability, CheckEventStore
<1> HIDE DEF c
<1>5. DOMAIN c = {"git", "claude", "gh", "docker", "ghScopes", "continent", "config", "gitRepo",
                  "gitRemote", "writable", "skills", "events", "deadLetters", "fsnotify", "claudeAuth",
                  "linearMCP", "claudeInference", "contextBudget", "skillsRef", "stalePid"}
  BY <1>2
<1>6. \A k \in DOMAIN c : c[k] = "fail" => k \in {"git", "claude", "gh", "skills", "fsnotify"}
  <2>1. /\ c.docker # "fail" /\ c.ghScopes # "fail" /\ c.config # "fail" /\ c.gitRepo # "fail"
        /\ c.gitRemote # "fail" /\ c.deadLetters # "fail" /\ c.claudeAuth # "fail" /\ c.linearMCP # "fail"
    BY <1>2, <1>3
  <2>2. c.writable # "fail" /\ c.events # "fail" /\ c.claudeInference # "fail" /\ c.contextBudget # "fail"
    BY <1>2, <1>4
  <2>3. c.continent # "fail" /\ c.skillsRef # "fail" /\ c.stalePid # "fail"
    BY <1>1, <1>2
  <2> QED
    BY <1>5, <2>1, <2>2, <2>3
<1>7. /\ c.git = "fail" <=> "git" \notin v.path
      /\ c.claude = "fail" <=> "claude" \notin v.path
      /\ c.gh = "fail" <=> "gh" \notin v.path
  BY <1>1, <1>2 DEF CheckCommand
<1>8. c.fsnotify = "fail" <=> ~v.watches
  BY <1>1, <1>2 DEF CheckFsnotify, Kin
<1>9. CheckSkills(v) = "fail" <=> /\ "deprecated" \in {v.skills[s] : s \in DOMAIN v.skills}
                                  /\ "unversioned" \notin {v.skills[s] : s \in DOMAIN v.skills}
  BY DEF CheckSkills
<1>10. /\ c.skills = "fail" => CheckSkills(v) = "fail"
       /\ CheckSkills(v) = "fail" /\ ~r => c.skills = "fail"
  BY <1>1, <1>2
<1>11. failed <=> c.git = "fail" \/ c.claude = "fail" \/ c.gh = "fail" \/ c.skills = "fail" \/ c.fsnotify = "fail"
  BY <1>5, <1>6
<1>12. ~({"git", "claude", "gh"} \subseteq v.path) <=> "git" \notin v.path \/ "claude" \notin v.path \/ "gh" \notin v.path
  OBVIOUS
<1>13. /\ failed => Broken(v)
       /\ Broken(v) /\ ~r => failed
  BY <1>7, <1>8, <1>9, <1>10, <1>11, <1>12 DEF Broken
<1>14. Report(w, r).failed = failed
  BY DEF Report, c
<1> HIDE DEF failed
<1> QED
  BY <1>13, <1>14

Budgets == INSTANCE Folding WITH Step <- CountMessage

Messages == [subtype : {"init", "hook_response"}, counts : [1 .. 4 -> Nat], bytes : Nat]
BudgetReports == [counts : [1 .. 4 -> Nat], bytes : Nat]

LEMMA Counted4 ==
  /\ << 0, 0, 0, 0 >> \in [1 .. 4 -> Nat]
  /\ \A s \in Seq(Nat) : Len(s) = 4 => s \in [1 .. 4 -> Nat]
<1>1. ASSUME NEW s \in Seq(Nat), Len(s) = 4 PROVE s \in [1 .. 4 -> Nat]
  <2>1. s \in [1 .. Len(s) -> Nat]
    OBVIOUS
  <2> QED
    BY <1>1, <2>1
<1>2. << 0, 0, 0, 0 >> \in Seq(Nat) /\ Len(<< 0, 0, 0, 0 >>) = 4
  OBVIOUS
<1> QED
  BY <1>1, <1>2

LEMMA BudgetTyped ==
  ASSUME NEW s \in Seq(Messages)
  PROVE  CalculateContextBudget(s) \in BudgetReports
<1> DEFINE start == [counts |-> << 0, 0, 0, 0 >>, bytes |-> 0]
<1>1. start \in BudgetReports
  BY Counted4 DEF BudgetReports
<1>2. ASSUME NEW v \in BudgetReports, NEW m \in Messages PROVE CountMessage(v, m) \in BudgetReports
  <2>1. /\ v = [counts |-> v.counts, bytes |-> v.bytes] /\ v.counts \in [1 .. 4 -> Nat] /\ v.bytes \in Nat
        /\ m.counts \in [1 .. 4 -> Nat] /\ m.bytes \in Nat
    BY DEF BudgetReports, Messages
  <2>2. \/ CountMessage(v, m) = [v EXCEPT !.counts = m.counts]
        \/ CountMessage(v, m) = [v EXCEPT !.bytes = v.bytes + m.bytes]
    BY Zenon DEF CountMessage
  <2>3. [v EXCEPT !.counts = m.counts] = [counts |-> m.counts, bytes |-> v.bytes]
    BY <2>1
  <2>4. [v EXCEPT !.bytes = v.bytes + m.bytes] = [counts |-> v.counts, bytes |-> v.bytes + m.bytes]
    BY <2>1
  <2>5. v.bytes + m.bytes \in Nat
    BY <2>1
  <2> QED
    BY <2>1, <2>2, <2>3, <2>4, <2>5 DEF BudgetReports
<1>4. CalculateContextBudget(s) = FoldLeft(CountMessage, start, s)
  BY DEF CalculateContextBudget
<1> HIDE DEF start
<1>3. Budgets!Folded(start, s) \in BudgetReports
  BY <1>1, <1>2, Budgets!FoldKeeps
<1> QED
  BY <1>3, <1>4 DEF FoldLeft, MapThenFoldSet, Max, Budgets!Folded, Budgets!Greatest

\* Of five numbers one is the first of the greatest.
LEMMA FirstGreatest ==
  ASSUME NEW a \in Nat, NEW b \in Nat, NEW c \in Nat, NEW d \in Nat, NEW e \in Nat
  PROVE  \/ b <= a /\ c <= a /\ d <= a /\ e <= a
         \/ a < b /\ c <= b /\ d <= b /\ e <= b
         \/ a < c /\ b < c /\ d <= c /\ e <= c
         \/ a < d /\ b < d /\ c < d /\ e <= d
         \/ a < e /\ b < e /\ c < e /\ d < e
  OBVIOUS

LEMMA BudgetIs == ASSUME NEW r \in BudgetReports
  PROVE  /\ EstimatedTokens(r) = BudgetItems(r)[1].tokens + BudgetItems(r)[2].tokens + BudgetItems(r)[3].tokens
                                   + BudgetItems(r)[4].tokens + BudgetItems(r)[5].tokens
         /\ (DetailedBreakdown(r) = 0) <=> (EstimatedTokens(r) = 0)
         /\ DetailedBreakdown(r) # 0 =>
              \A i \in DOMAIN BudgetItems(r) : BudgetItems(r)[i].tokens <= BudgetItems(r)[DetailedBreakdown(r)].tokens
<1> DEFINE items == BudgetItems(r)
           t(i) == items[i].tokens
           sum == t(1) + t(2) + t(3) + t(4) + t(5)
           heavier(i) == \A j \in DOMAIN items : IF j < i THEN t(j) < t(i) ELSE t(j) <= t(i)
           top == CHOOSE i \in DOMAIN items : heavier(i)
<1>1. r.counts \in [1 .. 4 -> Nat] /\ r.bytes \in Nat
  BY DEF BudgetReports
<1>2. r.bytes \div 4 \in Nat
  BY <1>1
<1>3. DOMAIN items = 1 .. 5
  BY DEF BudgetItems
<1>4. /\ t(1) = r.counts[1] * 150 /\ t(2) = r.counts[2] * 500 /\ t(3) = r.counts[3] * 200
      /\ t(4) = r.counts[4] * 300 /\ t(5) = r.bytes \div 4
  BY DEF BudgetItems
<1>5. /\ r.counts[1] \in Nat /\ r.counts[2] \in Nat /\ r.counts[3] \in Nat /\ r.counts[4] \in Nat
  BY <1>1
<1>6. EstimatedTokens(r) = sum
  BY <1>4 DEF EstimatedTokens
<1>7. t(1) \in Nat /\ t(2) \in Nat /\ t(3) \in Nat /\ t(4) \in Nat /\ t(5) \in Nat
  BY <1>2, <1>4, <1>5
<1>8. DetailedBreakdown(r) = IF \A i \in DOMAIN items : t(i) = 0 THEN 0 ELSE top
  BY Zenon DEF DetailedBreakdown
<1> HIDE DEF items
<1>9. (\A i \in DOMAIN items : t(i) = 0) <=> sum = 0
  <2> HIDE DEF items
  <2>1. (\A i \in DOMAIN items : t(i) = 0) <=> t(1) = 0 /\ t(2) = 0 /\ t(3) = 0 /\ t(4) = 0 /\ t(5) = 0
    BY <1>3
  <2>2. (t(1) = 0 /\ t(2) = 0 /\ t(3) = 0 /\ t(4) = 0 /\ t(5) = 0) <=> sum = 0
    <3>1. ASSUME NEW a \in Nat, NEW b \in Nat, NEW c \in Nat, NEW d \in Nat, NEW e \in Nat
          PROVE  a + b + c + d + e = 0 <=> a = 0 /\ b = 0 /\ c = 0 /\ d = 0 /\ e = 0
      OBVIOUS
    <3> HIDE DEF t
    <3> QED
      BY <1>7, <3>1
  <2> QED
    BY <2>1, <2>2
<1>10. \E i \in DOMAIN items : heavier(i)
  <2>1. heavier(1) \/ heavier(2) \/ heavier(3) \/ heavier(4) \/ heavier(5)
    BY <1>3, <1>7, FirstGreatest
  <2> HIDE DEF heavier
  <2> QED
    BY <1>3, <2>1
<1>11. top \in DOMAIN items /\ heavier(top)
  BY <1>10, Zenon
<1> HIDE DEF top
<1>12. top # 0 /\ \A j \in DOMAIN items : t(j) <= t(top)
  <2>1. \A j \in DOMAIN items : t(j) \in Nat
    BY <1>3, <1>7
  <2>2. \A j \in DOMAIN items : t(j) < t(top) \/ t(j) <= t(top)
    BY <1>11
  <2> QED
    BY <1>3, <1>11, <2>1, <2>2
<1> QED
  BY <1>6, <1>8, <1>9, <1>12 DEF items

\* Where the world and the reports come from.
DrHistory == ReportsAre(drReports, drWorld) /\ drStream \in Seq(Messages)

LEMMA DoctorInitially == DrInit => DrHistory
<1> SUFFICES ASSUME DrInit PROVE DrHistory
  OBVIOUS
<1>1. drReports = << >> /\ drStream = << >> /\ drWorld = NewMachine
  BY DEF DrInit
<1>2. Whole(NewMachine)
  BY DEF Whole, Fields, NewMachine
<1> QED
  BY <1>1, <1>2 DEF DrHistory, ReportsAre

LEMMA OneMore ==
  ASSUME NEW S, NEW s \in Seq(S), Len(s) = 1, NEW b \in S
  PROVE  /\ Append(s, b) \in Seq(S) /\ Len(Append(s, b)) = 2
         /\ Append(s, b)[1] = s[1] /\ Append(s, b)[2] = b
<1> DEFINE t == Append(s, b)
<1>1. /\ t \in Seq(S) /\ Len(t) = Len(s) + 1 /\ t[Len(s) + 1] = b
      /\ \A i \in 1 .. Len(s) : t[i] = s[i]
  OBVIOUS
<1> HIDE DEF t
<1>2. 1 \in 1 .. Len(s) /\ Len(s) + 1 = 2
  OBVIOUS
<1>3. t \in Seq(S) /\ Len(t) = 2 /\ t[1] = s[1] /\ t[2] = b
  BY <1>1, <1>2
<1> QED
  BY <1>3 DEF t

LEMMA SecondAppended == ASSUME NEW a, NEW b PROVE Append(<< a >>, b) = << a, b >>
<1> DEFINE S == {a, b}
           s == << a >>
           t == << a, b >>
<1>1. a \in S /\ b \in S
  OBVIOUS
<1> HIDE DEF S
<1>2. s \in Seq(S) /\ t \in Seq(S) /\ Len(s) = 1 /\ Len(t) = 2 /\ s[1] = a /\ t[1] = a /\ t[2] = b
  BY <1>1
<1> HIDE DEF s, t
<1>3. Append(s, b) \in Seq(S) /\ Len(Append(s, b)) = 2 /\ Append(s, b)[1] = a /\ Append(s, b)[2] = b
  BY <1>1, <1>2, OneMore
<1>4. \A i \in 1 .. 2 : i = 1 \/ i = 2
  OBVIOUS
<1>5. Append(s, b) = t
  BY <1>2, <1>3, <1>4, SeqEqual
<1> QED
  BY <1>5 DEF s, t

LEMMA ReportsGrow ==
  ASSUME DrHistory, NEW r \in BOOLEAN, RunDoctor(r)
  PROVE  DrHistory'
<1> DEFINE d == Diagnosis(drWorld, r)
           x == Report(drWorld, r)
<1>1. /\ Len(drReports) < 2 /\ drWorld' = d.world /\ drStream' = drStream
      /\ drReports' = Append(drReports, x)
  BY Zenon DEF RunDoctor, Report
<1>2. Whole(drWorld)
  BY DEF DrHistory, ReportsAre
<1>3. Whole(drWorld')
  BY <1>1, <1>2, WorldAfter DEF Kin
<1>4. CASE drReports = << >>
  <2>1. drReports' = << x >>
    BY <1>1, <1>4
  <2> QED
    BY <1>1, <1>2, <1>3, <2>1, Zenon DEF DrHistory, ReportsAre
<1>5. CASE \E w, q : /\ Whole(w) /\ q \in BOOLEAN
                     /\ drReports = << Report(w, q) >> /\ drWorld = Diagnosis(w, q).world
  <2>1. PICK w, q : /\ Whole(w) /\ q \in BOOLEAN
                    /\ drReports = << Report(w, q) >> /\ drWorld = Diagnosis(w, q).world
    BY <1>5
  <2>2. drReports' = << Report(w, q), x >>
    <3> DEFINE y == Report(w, q)
    <3> HIDE DEF x, y
    <3>1. drReports = << y >>
      BY <2>1 DEF y
    <3>2. Append(<< y >>, x) = << y, x >>
      BY SecondAppended
    <3> QED
      BY <1>1, <3>1, <3>2 DEF y
  <2>3. drReports' = << Report(w, q), Report(Diagnosis(w, q).world, r) >>
    BY <2>1, <2>2
  <2>4. drWorld' = Diagnosis(Diagnosis(w, q).world, r).world
    BY <1>1, <2>1
  <2>5. ReportsAre(drReports, drWorld)'
    BY <1>3, <2>1, <2>3, <2>4, Zenon DEF ReportsAre
  <2> QED
    BY <1>1, <2>5 DEF DrHistory
<1>6. CASE \E w, p, q : drReports = << Report(w, p), Report(Diagnosis(w, p).world, q) >>
  <2>1. PICK y, z : drReports = << y, z >>
    BY <1>6
  <2>2. Len(drReports) = 2
    BY <2>1
  <2> QED
    BY <1>1, <2>2
<1> QED
  BY <1>4, <1>5, <1>6, Zenon DEF DrHistory, ReportsAre

LEMMA DoctorStepKeeps == DrHistory /\ [DrNext]_drVars => DrHistory'
<1> SUFFICES ASSUME DrHistory, [DrNext]_drVars PROVE DrHistory'
  OBVIOUS
<1>0. Whole(drWorld) /\ drStream \in Seq(Messages) /\ << >> \in Seq(Messages)
  BY DEF DrHistory, ReportsAre
<1>1. CASE \E repair \in BOOLEAN : RunDoctor(repair)
  BY <1>1, ReportsGrow
<1>2. CASE Clean
  <2>1. drReports' = << >> /\ drWorld' = Emptied(drWorld) /\ drStream' = drStream
    BY <1>2, Zenon DEF Clean
  <2>2. Whole(drWorld')
    BY <1>0, <2>1, WholeChanged
  <2> QED
    BY <1>0, <2>1, <2>2 DEF DrHistory, ReportsAre
<1>3. CASE WorldChanges
  <2>1. /\ drReports' = << >> /\ drStream' = drStream
        /\ drWorld' \in Machines(drWorld) \/ drWorld' \in Continents(drWorld)
    BY <1>3 DEF WorldChanges
  <2>2. Whole(drWorld')
    BY <1>0, <2>1, WholeChanged
  <2> QED
    BY <1>0, <2>1, <2>2 DEF DrHistory, ReportsAre
<1>4. CASE StreamMessage
  <2>1. /\ UNCHANGED << drWorld, drReports >>
        /\ \/ \E c \in DrSizes : drStream' = Append(drStream, [subtype |-> "init", counts |-> c, bytes |-> 0])
           \/ \E b \in DrBytes :
                drStream' = Append(drStream, [subtype |-> "hook_response", counts |-> << 0, 0, 0, 0 >>, bytes |-> b])
    BY <1>4, Zenon DEF StreamMessage
  <2>2. \A c \in DrSizes : [subtype |-> "init", counts |-> c, bytes |-> 0] \in Messages
    <3>1. \A c \in DrSizes : c \in [1 .. 4 -> Nat]
      BY DrAssumption, Counted4
    <3> QED
      BY <3>1 DEF Messages
  <2>3. \A b \in DrBytes : [subtype |-> "hook_response", counts |-> << 0, 0, 0, 0 >>, bytes |-> b] \in Messages
    <3>1. \A b \in DrBytes : b \in Nat
      BY DrAssumption
    <3> DEFINE none == << 0, 0, 0, 0 >>
    <3>2. none \in [1 .. 4 -> Nat]
      BY Counted4
    <3> HIDE DEF none
    <3>3. \A b \in DrBytes : [subtype |-> "hook_response", counts |-> none, bytes |-> b] \in Messages
      BY <3>1, <3>2 DEF Messages
    <3> QED
      BY <3>3 DEF none
  <2>4. PICK m \in Messages : drStream' = Append(drStream, m)
    BY <2>1, <2>2, <2>3, Zenon
  <2>5. drStream' \in Seq(Messages)
    BY <1>0, <2>4
  <2> QED
    BY <2>1, <2>5 DEF DrHistory, ReportsAre
<1>5. CASE UNCHANGED drVars
  BY <1>5 DEF drVars, DrHistory, ReportsAre
<1> QED
  BY <1>1, <1>2, <1>3, <1>4, <1>5 DEF DrNext

LEMMA PairIs == ASSUME NEW a, NEW b PROVE Len(<< a, b >>) = 2 /\ << a, b >>[1] = a /\ << a, b >>[2] = b
  OBVIOUS

LEMMA OneIs == ASSUME NEW a PROVE Len(<< a >>) = 1 /\ << a >>[1] = a
  OBVIOUS

LEMMA LastReport ==
  ASSUME DrHistory, drReports # << >>
  PROVE  \E w, r : Whole(w) /\ r \in BOOLEAN /\ Last(drReports) = Report(w, r) /\ drWorld = Diagnosis(w, r).world
<1>1. CASE \E w, r : /\ Whole(w) /\ r \in BOOLEAN
                     /\ drReports = << Report(w, r) >> /\ drWorld = Diagnosis(w, r).world
  <2>1. PICK w, r : /\ Whole(w) /\ r \in BOOLEAN
                    /\ drReports = << Report(w, r) >> /\ drWorld = Diagnosis(w, r).world
    BY <1>1
  <2>2. Last(drReports) = Report(w, r)
    BY <2>1, OneIs DEF Last
  <2> QED
    BY <2>1, <2>2, Zenon
<1>2. CASE \E w, r, q : /\ Whole(w) /\ r \in BOOLEAN /\ q \in BOOLEAN
                        /\ drReports = << Report(w, r), Report(Diagnosis(w, r).world, q) >>
                        /\ drWorld = Diagnosis(Diagnosis(w, r).world, q).world
  <2>1. PICK w, r, q : /\ Whole(w) /\ r \in BOOLEAN /\ q \in BOOLEAN
                       /\ drReports = << Report(w, r), Report(Diagnosis(w, r).world, q) >>
                       /\ drWorld = Diagnosis(Diagnosis(w, r).world, q).world
    BY <1>2
  <2>2. Last(drReports) = Report(Diagnosis(w, r).world, q)
    BY <2>1, PairIs DEF Last
  <2>3. Whole(Diagnosis(w, r).world)
    BY <2>1, WorldAfter DEF Kin
  <2> QED
    BY <2>1, <2>2, <2>3, Zenon
<1> QED
  BY <1>1, <1>2, Zenon DEF DrHistory, ReportsAre

\* What the doctor reports as fixed stays fixed, a run finds no more wrong than
\* the one before it, it fails for what a session cannot do without, and the
\* items of the context budget add up (doctor.go, context_budget.go).
THEOREM DoctorIsSound == DrSpec => []DoctorSound
<1>1. DrHistory => RepairHolds /\ NeverWorse
  <2> SUFFICES ASSUME DrHistory, Len(drReports) = 2
      PROVE  \A c \in DOMAIN drReports[1].checks :
               Stands(c, drReports[1].checks[c], drReports[2].checks[c], drReports[1].repair, drWorld.writable)
    BY Zenon DEF RepairHolds, NeverWorse, Stands, Badness
  <2>1. PICK w, r, q : /\ Whole(w) /\ r \in BOOLEAN /\ q \in BOOLEAN
                       /\ drReports = << Report(w, r), Report(Diagnosis(w, r).world, q) >>
                       /\ drWorld = Diagnosis(Diagnosis(w, r).world, q).world
    <3>1. drReports # << >>
      OBVIOUS
    <3>2. \A a : drReports # << a >>
      BY OneIs
    <3> QED
      BY <3>1, <3>2, Zenon DEF DrHistory, ReportsAre
  <2>2. drReports[1] = Report(w, r) /\ drReports[2] = Report(Diagnosis(w, r).world, q)
    BY <2>1, PairIs
  <2>3. \A u, p : Report(u, p).checks = Diagnosis(u, p).checks /\ Report(u, p).repair = p
    BY DEF Report
  <2> QED
    BY <2>1, <2>2, <2>3, SecondRun
<1>2. DrHistory => ExitTells
  <2> SUFFICES ASSUME DrHistory, drReports # << >> PROVE ExitTells
    BY DEF ExitTells
  <2>1. PICK w, r : /\ Whole(w) /\ r \in BOOLEAN /\ Last(drReports) = Report(w, r)
                    /\ drWorld = Diagnosis(w, r).world
    BY LastReport
  <2>2. Report(w, r).repair = r
    BY DEF Report
  <2>3. /\ Report(w, r).failed => Broken(drWorld)
        /\ Broken(drWorld) /\ ~r => Report(w, r).failed
    BY <2>1, ErrorsAre
  <2>4. LET report == Last(drReports)
        IN  (report.failed => Broken(drWorld)) /\ (Broken(drWorld) /\ ~report.repair => report.failed)
    BY <2>1, <2>2, <2>3, Zenon
  <2> QED
    BY <2>4, Zenon DEF ExitTells, Broken
<1>3. DrHistory => BudgetAddsUp
  <2> SUFFICES ASSUME DrHistory PROVE BudgetAddsUp
    OBVIOUS
  <2> DEFINE report == CalculateContextBudget(drStream)
  <2>1. report \in BudgetReports
    BY BudgetTyped DEF DrHistory
  <2> HIDE DEF report
  <2>2. /\ EstimatedTokens(report) = BudgetItems(report)[1].tokens + BudgetItems(report)[2].tokens
              + BudgetItems(report)[3].tokens + BudgetItems(report)[4].tokens + BudgetItems(report)[5].tokens
        /\ (DetailedBreakdown(report) = 0) <=> (EstimatedTokens(report) = 0)
        /\ DetailedBreakdown(report) # 0 =>
             \A i \in DOMAIN BudgetItems(report) : BudgetItems(report)[i].tokens <= BudgetItems(report)[DetailedBreakdown(report)].tokens
    BY <2>1, BudgetIs
  <2> QED
    BY <2>2, Zenon DEF BudgetAddsUp, report
<1> QED
  BY <1>1, <1>2, <1>3, DoctorInitially, DoctorStepKeeps, PTL DEF DrSpec, DoctorSound
=============================================================================
