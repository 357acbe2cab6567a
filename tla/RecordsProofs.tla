----------------------------- MODULE RecordsProofs -----------------------------
(***************************************************************************)
(* Theorems, for any constants, about the components that keep records or  *)
(* work on those of others: the reserve party, recovery, the waves, the    *)
(* set-up of a project, the review gate, corrections, the ledger of        *)
(* insights; and the facts about numbers and sequences they rest on.       *)
(***************************************************************************)
EXTENDS Reserve, Waves, Recovery, Review, Insights, Corrections, ProjectSetup,
        FiniteSetTheorems, SequenceTheorems, TLAPS

\* The number of elements of a sequence, as a fold: any fold gives the facts
\* about numbers that module Folding proves.
Counts(n, x) == n + 1
Numbers == INSTANCE Folding WITH Step <- Counts

(***************************************************************************)
(* Numbers and sequences.                                                  *)
(***************************************************************************)

LEMMA GreatestOf ==
  ASSUME NEW k \in Nat, NEW T, T \subseteq 0 .. k, T # {}
  PROVE  Max(T) \in T /\ \A m \in T : m <= Max(T)
<1> DEFINE U == {n \in Nat : \A m \in T : m <= n}
<1>1. U \subseteq Nat /\ U # {}
  <2>1. k \in U
    OBVIOUS
  <2> QED
    BY <2>1
<1>2. PICK n \in U : \A m \in U : n <= m
  BY <1>1, Numbers!LeastElement
<1>3. n \in T
  <2>1. SUFFICES ASSUME n \notin T PROVE FALSE
    OBVIOUS
  <2>2. n \in Nat /\ \A m \in T : m \in Nat /\ m <= n /\ m # n
    BY <2>1
  <2>3. \A m \in T : m <= n - 1
    BY <2>2
  <2>4. n - 1 \in Nat
    <3>1. PICK m \in T : TRUE
      OBVIOUS
    <3>2. m \in Nat /\ m <= n - 1 /\ n \in Nat
      BY <2>2, <2>3
    <3> QED
      BY <3>2
  <2>5. n - 1 \in U
    BY <2>3, <2>4
  <2>6. n <= n - 1
    BY <1>2, <2>5
  <2> QED
    BY <2>2, <2>6
<1>4. \E x \in T : \A y \in T : x >= y
  <2>1. \A y \in T : n >= y
    OBVIOUS
  <2> QED
    BY <1>3, <2>1
<1>5. Max(T) \in T /\ \A y \in T : Max(T) >= y
  BY <1>4, Zenon DEF Max
<1> QED
  BY <1>5

LEMMA SmallestOf ==
  ASSUME NEW T, T \subseteq Nat, T # {}
  PROVE  Min(T) \in T /\ \A m \in T : Min(T) <= m
<1>1. \E x \in T : \A y \in T : x <= y
  BY Numbers!LeastElement
<1> QED
  BY <1>1, Zenon DEF Min

LEMMA Appended ==
  ASSUME NEW T, NEW s \in Seq(T), NEW x \in T
  PROVE  /\ Append(s, x) \in Seq(T)
         /\ Len(s) \in Nat /\ Len(Append(s, x)) = Len(s) + 1
         /\ DOMAIN s = 1 .. Len(s) /\ DOMAIN Append(s, x) = 1 .. Len(s) + 1
         /\ Append(s, x)[Len(s) + 1] = x
         /\ \A i \in 1 .. Len(s) : Append(s, x)[i] = s[i]
  OBVIOUS

LEMMA NoneOrOne ==
  ASSUME NEW S, \A x, y \in S : x = y
  PROVE  Cardinality(S) <= 1
<1>1. CASE S = {}
  BY <1>1, FS_EmptySet
<1>2. CASE S # {}
  <2>1. PICK x : S = {x}
    BY <1>2
  <2> QED
    BY <2>1, FS_Singleton
<1> QED
  BY <1>1, <1>2

LEMMA Nothing == ASSUME NEW T PROVE << >> \in Seq(T) /\ Len(<< >>) = 0 /\ DOMAIN << >> = {}
  OBVIOUS

LEMMA ListGrows ==
  ASSUME NEW T, NEW s \in Seq(T), NEW x \in T, NEW n \in Nat, Len(s) < n
  PROVE  Append(s, x) \in Seq(T) /\ Len(Append(s, x)) <= n
  BY Appended

(***************************************************************************)
(* The reserve party.                                                      *)
(***************************************************************************)

LEMMA PartyInOrder ==
  /\ RpModel = {RpModels[i] : i \in 1 .. Len(RpModels)}
  /\ Len(RpModels) \in Nat /\ RpPrimary \in RpModel
<1>1. RpModels \in Seq(ToSet(RpModels)) /\ RpModels # << >>
  BY ReserveAssumption
<1>2. DOMAIN RpModels = 1 .. Len(RpModels) /\ Len(RpModels) \in Nat /\ Len(RpModels) > 0
  BY <1>1
<1> QED
  BY <1>2 DEF RpModel, RpPrimary, ToSet

LEMMA RpInitially == RpInit => RpTypeOK
  BY PartyInOrder, ReserveAssumption DEF RpInit, RpTypeOK

\* A model that is called available is another one, and not cooling down.
LEMMA AvailableIs ==
  ASSUME NEW C, Available(C) # {}
  PROVE  /\ Min(Available(C)) \in 1 .. Len(RpModels)
         /\ RpModels[Min(Available(C))] # rpActive
         /\ ~Cooling(C, RpModels[Min(Available(C))])
<1>1. Available(C) \subseteq Nat
  BY DEF Available
<1>2. Min(Available(C)) \in Available(C)
  BY <1>1, SmallestOf
<1> QED
  BY <1>2 DEF Available

LEMMA CoolDownIs ==
  ASSUME RpTypeOK, CoolDown
  PROVE  /\ rpCooldowns' \in [RpModel -> Nat \cup {-1}] /\ rpActive' \in RpModel
         /\ rpActive' # rpActive => ~Cooling(rpCooldowns', rpActive')
         /\ rpActive' = rpActive => \A m \in RpModel : Cooling(rpCooldowns', m)
<1> DEFINE C == [rpCooldowns EXCEPT ![rpActive] = rpNow + RpCooldown]
<1>1. /\ rpCooldowns' = C
      /\ rpActive' = IF Available(C) = {} THEN rpActive ELSE RpModels[Min(Available(C))]
  BY DEF CoolDown
<1>2. rpNow \in Nat /\ rpActive \in RpModel /\ RpCooldown \in Nat
      /\ rpCooldowns \in [RpModel -> Nat \cup {-1}]
  BY ReserveAssumption DEF RpTypeOK
<1>3. C \in [RpModel -> Nat \cup {-1}] /\ C[rpActive] = rpNow + RpCooldown
  BY <1>2
<1>4. Cooling(C, rpActive)
  BY <1>2, <1>3 DEF Cooling
<1> HIDE DEF C
<1>5. CASE Available(C) = {}
  <2>1. ASSUME NEW m \in RpModel PROVE Cooling(C, m)
    <3>1. PICK i \in 1 .. Len(RpModels) : m = RpModels[i]
      BY PartyInOrder
    <3> QED
      BY <1>4, <1>5, <3>1 DEF Available
  <2> QED
    BY <1>1, <1>2, <1>3, <1>5, <2>1
<1>6. CASE Available(C) # {}
  BY <1>1, <1>3, <1>6, AvailableIs, PartyInOrder
<1> QED
  BY <1>5, <1>6

LEMMA RpStepKeeps == RpTypeOK /\ [RpNext]_rpVars => RpTypeOK'
<1> SUFFICES ASSUME RpTypeOK, [RpNext]_rpVars PROVE RpTypeOK'
  OBVIOUS
<1> USE ReserveAssumption DEF RpTypeOK
<1>1. CASE RpTick
  BY <1>1 DEF RpTick
<1>2. CASE ForceReserve
  BY <1>2, CoolDownIs DEF ForceReserve
<1>3. ASSUME NEW s \in RpStream, TryRecoverPrimary(s) PROVE RpTypeOK'
  <2>1. rpActive' \in RpModel
    BY <1>3, PartyInOrder DEF TryRecoverPrimary
  <2> QED
    BY <1>3, <2>1 DEF TryRecoverPrimary
<1>4. ASSUME NEW s \in RpStream, CheckOutput(s) PROVE RpTypeOK'
  <2>1. CoolDown /\ rpHits' \in 0 .. RpMaxHits /\ UNCHANGED <<rpNow, rpRuns>>
    BY <1>4 DEF CheckOutput
  <2> QED
    BY <2>1, CoolDownIs
<1>5. ASSUME NEW s \in RpStream, StreamEnds(s) PROVE RpTypeOK'
  BY <1>5 DEF StreamEnds
<1>6. CASE UNCHANGED rpVars
  BY <1>6 DEF rpVars
<1> QED
  BY <1>1, <1>2, <1>3, <1>4, <1>5, <1>6 DEF RpNext

\* What SwitchSound says of one step.
SwitchStep ==
  /\ rpActive' # rpActive => ~Cooling(rpCooldowns', rpActive')
  /\ rpCooldowns' # rpCooldowns /\ rpActive' = rpActive => \A m \in RpModel : Cooling(rpCooldowns', m)

LEMMA SwitchStepHolds == RpTypeOK /\ [RpNext]_rpVars => SwitchStep
<1> SUFFICES ASSUME RpTypeOK, [RpNext]_rpVars PROVE SwitchStep
  OBVIOUS
<1>1. CASE ForceReserve \/ \E s \in RpStream : CheckOutput(s)
  BY <1>1, CoolDownIs DEF ForceReserve, CheckOutput, SwitchStep
<1>2. CASE \E s \in RpStream : TryRecoverPrimary(s)
  BY <1>2 DEF TryRecoverPrimary, SwitchStep
<1>3. CASE RpTick \/ (\E s \in RpStream : StreamEnds(s)) \/ UNCHANGED rpVars
  BY <1>3 DEF RpTick, StreamEnds, rpVars, SwitchStep
<1> QED
  BY <1>1, <1>2, <1>3 DEF RpNext

\* Whichever models there are, and however late their outputs report a limit:
\* a switch is to a model that is not cooling down, and only a party in which
\* every model cools down stays with the one that has hit its limit.
THEOREM SwitchesAreSound == RpSpec => []RpTypeOK /\ SwitchSound
<1>1. RpTypeOK /\ [RpNext]_rpVars => [SwitchStep]_rpVars
  BY SwitchStepHolds
<1> QED
  BY <1>1, RpInitially, RpStepKeeps, PTL DEF RpSpec, SwitchSound, SwitchStep

(***************************************************************************)
(* Logs: where the entries of a kind are.                                  *)
(***************************************************************************)

At(s, V) == {i \in DOMAIN s : s[i] \in V}

LEMMA AtAppended ==
  ASSUME NEW T, NEW s \in Seq(T), NEW x \in T, NEW V
  PROVE  At(Append(s, x), V) = At(s, V) \union (IF x \in V THEN {Len(s) + 1} ELSE {})
<1> DEFINE t == Append(s, x)
<1>1. /\ Len(s) \in Nat /\ DOMAIN s = 1 .. Len(s) /\ DOMAIN t = 1 .. Len(s) + 1
      /\ t[Len(s) + 1] = x /\ \A i \in 1 .. Len(s) : t[i] = s[i]
  OBVIOUS
<1> HIDE DEF t
<1>2. \A i \in 1 .. Len(s) + 1 : i = Len(s) + 1 \/ i \in 1 .. Len(s)
  BY <1>1
<1>3. 1 .. Len(s) \subseteq 1 .. Len(s) + 1 /\ Len(s) + 1 \in 1 .. Len(s) + 1
  BY <1>1
<1>4. \A i : i \in At(t, V) <=> i \in At(s, V) \union (IF x \in V THEN {Len(s) + 1} ELSE {})
  BY <1>1, <1>2, <1>3 DEF At
<1> QED
  BY <1>4 DEF t

LEMMA AtIsFinite ==
  ASSUME NEW T, NEW s \in Seq(T), NEW V
  PROVE  /\ At(s, V) \subseteq 1 .. Len(s) /\ Len(s) + 1 \notin At(s, V)
         /\ IsFiniteSet(At(s, V)) /\ Cardinality(At(s, V)) \in Nat
<1>1. At(s, V) \subseteq 1 .. Len(s) /\ Len(s) \in Nat
  BY DEF At
<1>2. IsFiniteSet(1 .. Len(s))
  BY <1>1, FS_Interval
<1>3. IsFiniteSet(At(s, V))
  BY <1>1, <1>2, FS_Subset
<1>4. Cardinality(At(s, V)) \in Nat
  BY <1>3, FS_CardinalityType
<1>5. Len(s) + 1 \notin At(s, V)
  BY <1>1
<1> QED
  BY <1>1, <1>3, <1>4, <1>5

LEMMA CountAppended ==
  ASSUME NEW T, NEW s \in Seq(T), NEW x \in T, NEW V
  PROVE  Cardinality(At(Append(s, x), V)) = Cardinality(At(s, V)) + (IF x \in V THEN 1 ELSE 0)
<1>1. CASE x \in V
  <2>1. Cardinality(At(s, V) \union {Len(s) + 1}) = Cardinality(At(s, V)) + 1
    BY AtIsFinite, FS_AddElement
  <2> QED
    BY <1>1, <2>1, AtAppended
<1>2. CASE x \notin V
  <2>1. At(s, V) \union {} = At(s, V) /\ Cardinality(At(s, V)) \in Nat
    BY AtIsFinite
  <2>2. At(Append(s, x), V) = At(s, V)
    BY <1>2, <2>1, AtAppended
  <2> QED
    BY <1>2, <2>1, <2>2
<1> QED
  BY <1>1, <1>2

(***************************************************************************)
(* Recovery.  Everything is said of the log by the places of its entries:  *)
(* failures, successes, escalations.                                       *)
(***************************************************************************)

RcStatus == {"success", "skipped", "failed", "parse_error"}
CompletedEv == [type : {"completed"}, exp : RcExp, status : RcStatus, reason : SUBSET RcClass]
CheckpointEv == [type : {"checkpoint"}, exp : RcExp, commits : Nat]
EscalatedEv == [type : {"escalated"}]
TornEv == [type : {"torn"}]
RecoveryEv ==
  {d \in [type : {"recovery"}, class : RcClass \union {"systematic"}, retry : BOOLEAN, num : Nat, cooldown : Nat] :
     d.retry => /\ d.class \in Transient /\ d.num \in 1 .. MaxRecoveryAttempts
                /\ d.cooldown = CooldownForClass(d.class, d.num)}
RcEv == CompletedEv \union CheckpointEv \union EscalatedEv \union TornEv \union RecoveryEv

SuccessEv == {e \in CompletedEv : e.status = "success"}
FailureEv == {e \in CompletedEv : e.status \in {"failed", "parse_error"}}

FailPlaces    == At(rcLog, FailureEv)
Succs    == At(rcLog, SuccessEv)
Escalats == At(rcLog, EscalatedEv)

Since(F, S) == {i \in F : \A s \in S : s < i}
Before(S, i) == {s \in S : s < i}

\* One escalation per streak, and not before RcThreshold failures; said without
\* the number of the last success.
StreakInv ==
  /\ rcStreak = Cardinality(Since(FailPlaces, Succs))
  /\ ~rcFired => \A j \in Escalats : \E s \in Succs : j < s
  /\ \A i \in Escalats :
       /\ Cardinality(Since(Before(FailPlaces, i), Before(Succs, i))) >= RcThreshold
       /\ \A j \in Escalats : (\A s \in Before(Succs, i) : s < j) => i <= j

RcInv ==
  /\ rcLog \in Seq(RcEv) /\ Len(rcLog) <= RcEvents
  /\ rcStreak \in Nat /\ rcStreak <= Len(rcLog) + (IF rcLost THEN 1 ELSE 0)
  /\ rcFired \in BOOLEAN /\ rcLost \in BOOLEAN
  /\ rcAttempts \in 0 .. MaxRecoveryAttempts
  /\ ~rcLost => StreakInv

-----------------------------------------------------------------------------
LEMMA RcEvents1 ==
  /\ \A exp \in RcExp, status \in RcStatus, reason \in SUBSET RcClass :
       [type |-> "completed", exp |-> exp, status |-> status, reason |-> reason] \in CompletedEv
  /\ \A exp \in RcExp, commits \in Nat :
       [type |-> "checkpoint", exp |-> exp, commits |-> commits] \in CheckpointEv
  /\ [type |-> "escalated"] \in EscalatedEv
  /\ [type |-> "torn"] \in TornEv
  BY DEF CompletedEv, CheckpointEv, EscalatedEv, TornEv

LEMMA RcEvents2 ==
  /\ \A e \in CompletedEv : e.type = "completed"
  /\ \A e \in CheckpointEv : e.type = "checkpoint"
  /\ \A e \in EscalatedEv : e.type = "escalated"
  /\ \A e \in TornEv : e.type = "torn"
  /\ \A e \in RecoveryEv : e.type = "recovery"
  BY DEF CompletedEv, CheckpointEv, EscalatedEv, TornEv, RecoveryEv

\* The types tell the kinds apart.
LEMMA RcEvents3 ==
  /\ \A e \in RcEv : e \in CompletedEv <=> e.type = "completed"
  /\ \A e \in RcEv : e \in CheckpointEv <=> e.type = "checkpoint"
  /\ \A e \in RcEv : e \in EscalatedEv <=> e.type = "escalated"
  /\ \A e \in RcEv : e \in TornEv <=> e.type = "torn"
  /\ \A e \in RcEv : e \in RecoveryEv <=> e.type = "recovery"
  BY RcEvents2 DEF RcEv

LEMMA RcEvents4 ==
  /\ \A e \in RcEv : e \in SuccessEv <=> e.type = "completed" /\ e.status = "success"
  /\ \A e \in RcEv : e \in FailureEv <=> e.type = "completed" /\ e.status \in {"failed", "parse_error"}
  BY RcEvents3 DEF SuccessEv, FailureEv

LEMMA CooldownsAre ==
  /\ \A class, n : CooldownForClass(class, n) \in Nat
  /\ \A class \in Transient : CooldownForClass(class, 1) < CooldownForClass(class, 2)
<1> DEFINE base == [timeout |-> <<30, 90>>, rate_limit |-> <<60, 180>>, parse_error |-> <<5, 15>>]
<1>1. /\ base["timeout"][1] = 30 /\ base["timeout"][2] = 90
      /\ base["rate_limit"][1] = 60 /\ base["rate_limit"][2] = 180
      /\ base["parse_error"][1] = 5 /\ base["parse_error"][2] = 15
  OBVIOUS
<1> HIDE DEF base
<1>2. \A class, n : CooldownForClass(class, n) =
        IF class \notin Transient THEN 0 ELSE IF n <= 1 THEN base[class][1] ELSE base[class][2]
  BY Zenon DEF CooldownForClass, base
<1>3. \A class \in Transient : class = "timeout" \/ class = "rate_limit" \/ class = "parse_error"
  BY DEF Transient
<1> QED
  BY <1>1, <1>2, <1>3

LEMMA RcInitially == RcInit => RcInv
<1> SUFFICES ASSUME RcInit PROVE RcInv
  OBVIOUS
<1>1. rcLog = << >> /\ rcStreak = 0 /\ rcFired = FALSE /\ rcLost = FALSE /\ rcAttempts = 0
  BY DEF RcInit
<1>2. FailPlaces = {} /\ Succs = {} /\ Escalats = {}
  BY <1>1 DEF FailPlaces, Succs, Escalats, At
<1>3. Since(FailPlaces, Succs) = {}
  BY <1>2 DEF Since
<1>4. Cardinality({}) = 0
  BY FS_EmptySet
<1>5. StreakInv
  BY <1>1, <1>2, <1>3, <1>4 DEF StreakInv
<1>6. << >> \in Seq(RcEv) /\ Len(<< >>) = 0
  OBVIOUS
<1>7. Len(rcLog) <= RcEvents /\ rcStreak <= Len(rcLog) + (IF rcLost THEN 1 ELSE 0)
  BY <1>1, <1>6, RecoveryAssumption
<1>8. rcLog \in Seq(RcEv)
  BY <1>1, <1>6
<1>9. rcStreak \in Nat /\ rcFired \in BOOLEAN /\ rcLost \in BOOLEAN
      /\ rcAttempts \in 0 .. MaxRecoveryAttempts
  <2>1. 0 \in Nat /\ 0 \in 0 .. MaxRecoveryAttempts
    BY DEF MaxRecoveryAttempts
  <2>2. FALSE \in BOOLEAN
    OBVIOUS
  <2>3. rcStreak \in Nat /\ rcAttempts \in 0 .. MaxRecoveryAttempts
    BY <1>1, <2>1
  <2>4. rcFired \in BOOLEAN /\ rcLost \in BOOLEAN
    BY Zenon, <1>1, <2>2
  <2> QED
    BY <2>3, <2>4
<1> QED
  BY <1>5, <1>7, <1>8, <1>9 DEF RcInv

\* What one entry more does to the places.
LEMMA RcAppended ==
  ASSUME rcLog \in Seq(RcEv), NEW e \in RcEv, rcLog' = Append(rcLog, e)
  PROVE  /\ FailPlaces \subseteq 1 .. Len(rcLog) /\ Succs \subseteq 1 .. Len(rcLog)
         /\ Escalats \subseteq 1 .. Len(rcLog) /\ IsFiniteSet(FailPlaces) /\ Len(rcLog) \in Nat
         /\ FailPlaces' = FailPlaces \union (IF e \in FailureEv THEN {Len(rcLog) + 1} ELSE {})
         /\ Succs' = Succs \union (IF e \in SuccessEv THEN {Len(rcLog) + 1} ELSE {})
         /\ Escalats' = Escalats \union (IF e \in EscalatedEv THEN {Len(rcLog) + 1} ELSE {})
  BY AtAppended, AtIsFinite DEF FailPlaces, Succs, Escalats

LEMMA SinceIsFinite ==
  ASSUME NEW F, IsFiniteSet(F), NEW S
  PROVE  IsFiniteSet(Since(F, S)) /\ Cardinality(Since(F, S)) \in Nat
<1>1. Since(F, S) \subseteq F
  BY DEF Since
<1>2. IsFiniteSet(Since(F, S))
  BY <1>1, FS_Subset
<1> QED
  BY <1>2, FS_CardinalityType

\* An entry that is no escalation leaves what is said of the escalations.
LEMMA EscalationsStay ==
  ASSUME rcLog \in Seq(RcEv), NEW e \in RcEv, rcLog' = Append(rcLog, e), e \notin EscalatedEv, StreakInv
  PROVE  \A i \in Escalats' :
           /\ Cardinality(Since(Before(FailPlaces', i), Before(Succs', i))) >= RcThreshold
           /\ \A j \in Escalats' : (\A s \in Before(Succs', i) : s < j) => i <= j
<1>1. Escalats' = Escalats
  BY RcAppended
<1>2. ASSUME NEW i \in Escalats
      PROVE  Before(FailPlaces', i) = Before(FailPlaces, i) /\ Before(Succs', i) = Before(Succs, i)
  <2>1. i \in 1 .. Len(rcLog) /\ Len(rcLog) \in Nat
    BY RcAppended
  <2> DEFINE A == IF e \in FailureEv THEN {Len(rcLog) + 1} ELSE {}
             B == IF e \in SuccessEv THEN {Len(rcLog) + 1} ELSE {}
  <2>2. A \subseteq {Len(rcLog) + 1} /\ B \subseteq {Len(rcLog) + 1}
        /\ FailPlaces' = FailPlaces \union A /\ Succs' = Succs \union B
        /\ FailPlaces \subseteq 1 .. Len(rcLog) /\ Succs \subseteq 1 .. Len(rcLog)
    BY RcAppended
  <2> HIDE DEF A, B
  <2>0. \A s : s = Len(rcLog) + 1 => ~ (s < i)
    BY <2>1
  <2>3. Before(FailPlaces \union A, i) = Before(FailPlaces, i)
    <3>1. \A s : s \in Before(FailPlaces \union A, i) <=> s \in Before(FailPlaces, i)
      BY ONLY <2>0, <2>2 DEF Before
    <3> QED
      BY ONLY <3>1
  <2>4. Before(Succs \union B, i) = Before(Succs, i)
    <3>1. \A s : s \in Before(Succs \union B, i) <=> s \in Before(Succs, i)
      BY ONLY <2>0, <2>2 DEF Before
    <3> QED
      BY ONLY <3>1
  <2>5. Before(FailPlaces', i) = Before(FailPlaces \union A, i) /\ Before(Succs', i) = Before(Succs \union B, i)
    BY ONLY Zenon, <2>2
  <2> QED
    BY ONLY <2>3, <2>4, <2>5
<1> QED
  BY <1>1, <1>2 DEF StreakInv

LEMMA SuccessEndsStreak ==
  ASSUME rcLog \in Seq(RcEv), NEW e \in SuccessEv, e \in RcEv, rcLog' = Append(rcLog, e), StreakInv,
         rcStreak' = 0
  PROVE  StreakInv'
<1> DEFINE n == Len(rcLog)
<1>1. e \notin FailureEv /\ e \notin EscalatedEv
  BY RcEvents3, RcEvents4
<1>2. FailPlaces' = FailPlaces /\ Succs' = Succs \union {n + 1} /\ Escalats' = Escalats
      /\ FailPlaces \subseteq 1 .. n /\ Escalats \subseteq 1 .. n /\ n \in Nat
  BY <1>1, RcAppended
<1>3. Since(FailPlaces, Succs)' = {}
  <2>1. \A i \in FailPlaces' : n + 1 \in Succs' /\ ~ (n + 1 < i)
    BY <1>2
  <2>2. \A i : i \notin Since(FailPlaces, Succs)'
    BY <2>1 DEF Since
  <2> QED
    BY <2>2
<1>4. \A j \in Escalats' : \E s \in Succs' : j < s
  <2>1. \A j \in Escalats : j < n + 1 /\ n + 1 \in Succs'
    BY <1>2
  <2> QED
    BY <1>2, <2>1
<1>5. Cardinality(Since(FailPlaces, Succs)') = 0
  BY <1>3, FS_EmptySet
<1> QED
  BY <1>1, <1>4, <1>5, EscalationsStay DEF StreakInv

LEMMA FailureAddsOne ==
  ASSUME rcLog \in Seq(RcEv), NEW e \in FailureEv, e \in RcEv, rcLog' = Append(rcLog, e), StreakInv,
         rcStreak' = rcStreak + 1, rcFired' = rcFired
  PROVE  StreakInv'
<1> DEFINE n == Len(rcLog)
<1>1. e \notin SuccessEv /\ e \notin EscalatedEv
  BY RcEvents3, RcEvents4
<1>2. FailPlaces' = FailPlaces \union {n + 1} /\ Succs' = Succs /\ Escalats' = Escalats
      /\ FailPlaces \subseteq 1 .. n /\ Succs \subseteq 1 .. n /\ n \in Nat /\ IsFiniteSet(FailPlaces)
  BY <1>1, RcAppended
<1>3. Since(FailPlaces, Succs)' = Since(FailPlaces, Succs) \union {n + 1} /\ n + 1 \notin Since(FailPlaces, Succs)
  BY <1>2 DEF Since
<1>4. Cardinality(Since(FailPlaces, Succs) \union {n + 1}) = Cardinality(Since(FailPlaces, Succs)) + 1
  BY <1>2, <1>3, SinceIsFinite, FS_AddElement
<1>5. rcStreak' = Cardinality(Since(FailPlaces, Succs)')
  BY <1>3, <1>4 DEF StreakInv
<1> QED
  BY <1>1, <1>2, <1>5, EscalationsStay DEF StreakInv

LEMMA OthersStayOut ==
  ASSUME rcLog \in Seq(RcEv), NEW e \in RcEv, rcLog' = Append(rcLog, e),
         e \notin SuccessEv, e \notin FailureEv, e \notin EscalatedEv, StreakInv,
         rcStreak' = rcStreak, rcFired' = rcFired
  PROVE  StreakInv'
<1>1. FailPlaces' = FailPlaces /\ Succs' = Succs /\ Escalats' = Escalats
  BY RcAppended
<1> QED
  BY <1>1, EscalationsStay DEF StreakInv

LEMMA EscalationIsOne ==
  ASSUME rcLog \in Seq(RcEv), NEW e \in EscalatedEv, e \in RcEv, rcLog' = Append(rcLog, e), StreakInv,
         rcStreak >= RcThreshold, ~rcFired, rcFired' = TRUE, rcStreak' = rcStreak
  PROVE  StreakInv'
<1> DEFINE n == Len(rcLog)
<1>1. e \notin SuccessEv /\ e \notin FailureEv
  BY RcEvents3, RcEvents4
<1>2. FailPlaces' = FailPlaces /\ Succs' = Succs /\ Escalats' = Escalats \union {n + 1}
      /\ FailPlaces \subseteq 1 .. n /\ Succs \subseteq 1 .. n /\ Escalats \subseteq 1 .. n /\ n \in Nat
  BY <1>1, RcAppended
<1>3. ASSUME NEW i \in Escalats
      PROVE  /\ Cardinality(Since(Before(FailPlaces, i), Before(Succs, i))) >= RcThreshold
             /\ \A j \in Escalats \union {n + 1} : (\A s \in Before(Succs, i) : s < j) => i <= j
  <2>1. i <= n + 1
    BY <1>2
  <2> QED
    BY <2>1 DEF StreakInv
<1>4. Before(FailPlaces, n + 1) = FailPlaces /\ Before(Succs, n + 1) = Succs
  <2>1. (\A s \in FailPlaces : s < n + 1) /\ (\A s \in Succs : s < n + 1)
    BY <1>2
  <2>2. \A s : (s \in Before(FailPlaces, n + 1) <=> s \in FailPlaces) /\ (s \in Before(Succs, n + 1) <=> s \in Succs)
    BY <2>1 DEF Before
  <2> QED
    BY <2>2
<1>5. Cardinality(Since(Before(FailPlaces, n + 1), Before(Succs, n + 1))) >= RcThreshold
  BY <1>4 DEF StreakInv
<1>6. ASSUME NEW j \in Escalats \union {n + 1}, \A s \in Succs : s < j
      PROVE  n + 1 <= j
  <2>1. CASE j \in Escalats
    <3>1. PICK s \in Succs : j < s
      BY <2>1 DEF StreakInv
    <3>2. s < j /\ s \in Nat /\ j \in Nat
      BY <1>2, <1>6, <2>1
    <3> QED
      BY <3>1, <3>2
  <2>2. CASE j = n + 1
    BY <1>2, <2>2
  <2> QED
    BY <2>1, <2>2
<1>7. \A i \in Escalats' :
        /\ Cardinality(Since(Before(FailPlaces', i), Before(Succs', i))) >= RcThreshold
        /\ \A j \in Escalats' : (\A s \in Before(Succs', i) : s < j) => i <= j
  BY <1>2, <1>3, <1>4, <1>5, <1>6
<1>8. rcStreak' = Cardinality(Since(FailPlaces, Succs)')
  BY <1>2 DEF StreakInv
<1> QED
  BY <1>7, <1>8 DEF StreakInv

-----------------------------------------------------------------------------
\* What EmitRecorded does: the event in the log, or a fault.
LEMMA EmitIs ==
  ASSUME RcInv, NEW e \in RcEv, EmitRecorded(e)
  PROVE  /\ rcLog' \in Seq(RcEv) /\ Len(rcLog') <= RcEvents /\ rcLost' \in BOOLEAN
         /\ Len(rcLog) \in Nat /\ Len(rcLog') \in Nat
         /\ Len(rcLog) + 1 + (IF rcLost THEN 1 ELSE 0) <= Len(rcLog') + (IF rcLost' THEN 1 ELSE 0)
         /\ ~rcLost' => ~rcLost /\ rcLog' = Append(rcLog, e)
<1>1. rcLog \in Seq(RcEv) /\ rcLost \in BOOLEAN /\ Len(rcLog) < RcEvents /\ RcEvents \in Nat
  BY RecoveryAssumption DEF RcInv, EmitRecorded
<1>2. ASSUME NEW x \in RcEv
      PROVE  Append(rcLog, x) \in Seq(RcEv) /\ Len(Append(rcLog, x)) = Len(rcLog) + 1 /\ Len(rcLog) \in Nat
  BY <1>1, Appended
<1>3. [type |-> "torn"] \in RcEv
  BY RcEvents1 DEF RcEv
<1>4. CASE rcLog' = Append(rcLog, e) /\ rcLost' = rcLost
  BY <1>1, <1>2, <1>4
<1>5. CASE ~rcLost /\ rcLost' = TRUE /\ rcLog' = rcLog
  <2>1. Len(rcLog) \in Nat
    BY <1>1
  <2> QED
    BY <1>1, <1>5, <2>1
<1>6. CASE ~rcLost /\ rcLost' = TRUE /\ rcLog' = Append(rcLog, [type |-> "torn"])
  BY <1>1, <1>2, <1>3, <1>6
<1>7. \/ rcLog' = Append(rcLog, e) /\ rcLost' = rcLost
      \/ ~rcLost /\ rcLost' = TRUE /\ rcLog' = rcLog
      \/ ~rcLost /\ rcLost' = TRUE /\ rcLog' = Append(rcLog, [type |-> "torn"])
  BY DEF EmitRecorded
<1> QED
  BY <1>4, <1>5, <1>6, <1>7

LEMMA CompleteKeeps ==
  ASSUME RcInv, NEW exp \in RcExp, NEW status \in RcStatus, NEW reason \in SUBSET RcClass,
         CompleteExpedition(exp, status, reason)
  PROVE  RcInv'
<1> DEFINE e == [type |-> "completed", exp |-> exp, status |-> status, reason |-> reason]
<1>1. e \in CompletedEv /\ e \in RcEv /\ e.status = status /\ e.type = "completed"
  BY RcEvents1 DEF RcEv
<1>2. /\ rcStreak' = CASE status = "success" -> 0
                       [] status \in {"failed", "parse_error"} -> rcStreak + 1
                       [] OTHER -> rcStreak
      /\ rcFired' = (rcFired /\ status # "success") /\ rcAttempts' = rcAttempts /\ EmitRecorded(e)
  BY DEF CompleteExpedition
<1> HIDE DEF e
<1>3. /\ rcLog' \in Seq(RcEv) /\ Len(rcLog') <= RcEvents /\ rcLost' \in BOOLEAN
      /\ Len(rcLog) \in Nat /\ Len(rcLog') \in Nat
      /\ Len(rcLog) + 1 + (IF rcLost THEN 1 ELSE 0) <= Len(rcLog') + (IF rcLost' THEN 1 ELSE 0)
      /\ ~rcLost' => ~rcLost /\ rcLog' = Append(rcLog, e)
  BY <1>1, <1>2, EmitIs
<1>4. rcStreak' \in Nat /\ rcStreak' <= rcStreak + 1 /\ rcStreak \in Nat
  BY <1>2 DEF RcInv
<1>5. rcStreak' <= Len(rcLog') + (IF rcLost' THEN 1 ELSE 0)
  BY <1>3, <1>4 DEF RcInv
<1>6. ASSUME ~rcLost' PROVE StreakInv'
  <2>1. rcLog \in Seq(RcEv) /\ StreakInv /\ rcLog' = Append(rcLog, e) /\ rcFired \in BOOLEAN
    BY <1>3, <1>6 DEF RcInv
  <2>2. CASE status = "success"
    <3>1. e \in SuccessEv /\ rcStreak' = 0
      BY <1>1, <1>2, <2>2, RcEvents4
    <3> QED
      BY <1>1, <2>1, <3>1, SuccessEndsStreak
  <2>3. CASE status \in {"failed", "parse_error"}
    <3>1. e \in FailureEv /\ rcStreak' = rcStreak + 1 /\ rcFired' = rcFired
      BY <1>1, <1>2, <2>1, <2>3, RcEvents4
    <3> QED
      BY <1>1, <2>1, <3>1, FailureAddsOne
  <2>4. CASE status = "skipped"
    <3>1. e \notin FailureEv /\ e \notin SuccessEv /\ e \notin EscalatedEv
      BY <1>1, <2>4, RcEvents3, RcEvents4
    <3>2. rcStreak' = rcStreak /\ rcFired' = rcFired
      BY <1>2, <2>1, <2>4
    <3> QED
      BY <1>1, <2>1, <3>1, <3>2, OthersStayOut
  <2> QED
    BY <2>2, <2>3, <2>4 DEF RcStatus
<1> QED
  BY <1>2, <1>3, <1>4, <1>5, <1>6 DEF RcInv

\* An event that says nothing of the streak.
LEMMA NeutralKeeps ==
  ASSUME RcInv, NEW e \in CheckpointEv \union RecoveryEv, EmitRecorded(e),
         UNCHANGED <<rcStreak, rcFired>>, rcAttempts' \in 0 .. MaxRecoveryAttempts
  PROVE  RcInv'
<1>1. e \in RcEv /\ e \notin FailureEv /\ e \notin SuccessEv /\ e \notin EscalatedEv
  BY RcEvents2, RcEvents3, RcEvents4 DEF RcEv
<1>2. /\ rcLog' \in Seq(RcEv) /\ Len(rcLog') <= RcEvents /\ rcLost' \in BOOLEAN
      /\ Len(rcLog) \in Nat /\ Len(rcLog') \in Nat
      /\ Len(rcLog) + 1 + (IF rcLost THEN 1 ELSE 0) <= Len(rcLog') + (IF rcLost' THEN 1 ELSE 0)
      /\ ~rcLost' => ~rcLost /\ rcLog' = Append(rcLog, e)
  BY <1>1, EmitIs
<1>3. ASSUME ~rcLost' PROVE StreakInv'
  BY <1>1, <1>2, <1>3, OthersStayOut DEF RcInv
<1> QED
  BY <1>2, <1>3 DEF RcInv

LEMMA EscalateKeeps ==
  ASSUME RcInv, ShouldEscalate
  PROVE  RcInv'
<1> DEFINE e == [type |-> "escalated"]
<1>1. e \in EscalatedEv /\ e \in RcEv
  BY RcEvents1 DEF RcEv
<1>2. rcStreak >= RcThreshold /\ ~rcFired /\ rcFired' = TRUE /\ EmitRecorded(e)
      /\ UNCHANGED <<rcStreak, rcAttempts>>
  BY DEF ShouldEscalate
<1> HIDE DEF e
<1>3. /\ rcLog' \in Seq(RcEv) /\ Len(rcLog') <= RcEvents /\ rcLost' \in BOOLEAN
      /\ Len(rcLog) \in Nat /\ Len(rcLog') \in Nat
      /\ Len(rcLog) + 1 + (IF rcLost THEN 1 ELSE 0) <= Len(rcLog') + (IF rcLost' THEN 1 ELSE 0)
      /\ ~rcLost' => ~rcLost /\ rcLog' = Append(rcLog, e)
  BY <1>1, <1>2, EmitIs
<1>4. ASSUME ~rcLost' PROVE StreakInv'
  BY <1>1, <1>2, <1>3, <1>4, EscalationIsOne DEF RcInv
<1> QED
  BY <1>2, <1>3, <1>4 DEF RcInv

\* The classes that a log of failures may be given.
LEMMA ClassesAre == ASSUME NEW F PROVE ClassifyGommage(F) \subseteq RcClass \union {"systematic"}
<1>1. \A v : (IF Won(v, F) = {} THEN {"systematic"} ELSE Won(v, F)) \subseteq RcClass \union {"systematic"}
  BY DEF Won
<1> QED
  BY <1>1 DEF ClassifyGommage

LEMMA RecoveryKeeps ==
  ASSUME RcInv, DecideRecovery
  PROVE  RcInv'
<1>1. PICK class \in ClassifyGommage(RecentFailures) :
        LET retry == class \in Transient /\ rcAttempts < MaxRecoveryAttempts
        IN  /\ rcAttempts' = IF retry THEN rcAttempts + 1 ELSE rcAttempts
            /\ EmitRecorded([type |-> "recovery", class |-> class, retry |-> retry,
                             num |-> IF retry THEN rcAttempts + 1 ELSE 0,
                             cooldown |-> IF retry THEN CooldownForClass(class, rcAttempts + 1) ELSE 0])
            /\ UNCHANGED <<rcStreak, rcFired>>
  BY DEF DecideRecovery
<1>2. class \in RcClass \union {"systematic"}
  BY <1>1, ClassesAre
<1>3. rcAttempts \in 0 .. MaxRecoveryAttempts /\ MaxRecoveryAttempts = 2
  BY DEF RcInv, MaxRecoveryAttempts
<1>4. CASE class \in Transient /\ rcAttempts < MaxRecoveryAttempts
  <2> DEFINE e == [type |-> "recovery", class |-> class, retry |-> TRUE, num |-> rcAttempts + 1,
                   cooldown |-> CooldownForClass(class, rcAttempts + 1)]
  <2>1. EmitRecorded(e) /\ rcAttempts' = rcAttempts + 1 /\ UNCHANGED <<rcStreak, rcFired>>
    BY <1>1, <1>4
  <2>2. rcAttempts + 1 \in 1 .. 2 /\ CooldownForClass(class, rcAttempts + 1) \in Nat
    BY <1>3, <1>4, CooldownsAre
  <2>3. e \in RecoveryEv
    BY <1>2, <1>3, <1>4, <2>2 DEF RecoveryEv
  <2> HIDE DEF e
  <2>4. rcAttempts' \in 0 .. MaxRecoveryAttempts
    BY <1>3, <2>1, <2>2
  <2> QED
    BY <2>1, <2>3, <2>4, NeutralKeeps
<1>5. CASE ~(class \in Transient /\ rcAttempts < MaxRecoveryAttempts)
  <2> DEFINE e == [type |-> "recovery", class |-> class, retry |-> FALSE, num |-> 0, cooldown |-> 0]
  <2>1. EmitRecorded(e) /\ rcAttempts' = rcAttempts /\ UNCHANGED <<rcStreak, rcFired>>
    BY <1>1, <1>5
  <2>2. e \in RecoveryEv
    BY <1>2 DEF RecoveryEv
  <2> HIDE DEF e
  <2> QED
    BY <1>3, <2>1, <2>2, NeutralKeeps
<1> QED
  BY <1>4, <1>5

LEMMA RcStepKeeps == RcInv /\ [RcNext]_rcVars => RcInv'
<1> SUFFICES ASSUME RcInv, [RcNext]_rcVars PROVE RcInv'
  OBVIOUS
<1>1. CASE \E exp \in RcExp, reason \in RcReason : CompleteExpedition(exp, "failed", reason)
  BY <1>1, CompleteKeeps, RecoveryAssumption DEF RcStatus
<1>2. CASE \E exp \in RcExp : CompleteExpedition(exp, "parse_error", {"parse_error"})
  BY <1>2, CompleteKeeps DEF RcStatus, RcClass
<1>3. CASE \E exp \in RcExp, status \in {"success", "skipped"} : CompleteExpedition(exp, status, {})
  BY <1>3, CompleteKeeps DEF RcStatus
<1>4. ASSUME NEW exp \in RcExp, NEW commits \in 0 .. 1, RecordCheckpoint(exp, commits) PROVE RcInv'
  <2> DEFINE e == [type |-> "checkpoint", exp |-> exp, commits |-> commits]
  <2>1. e \in CheckpointEv
    BY RcEvents1
  <2>2. EmitRecorded(e) /\ UNCHANGED <<rcStreak, rcFired, rcAttempts>>
    BY <1>4 DEF RecordCheckpoint
  <2> HIDE DEF e
  <2>3. rcAttempts' \in 0 .. MaxRecoveryAttempts
    BY <2>2 DEF RcInv
  <2> QED
    BY <2>1, <2>2, <2>3, NeutralKeeps
<1>5. CASE ShouldEscalate
  BY <1>5, EscalateKeeps
<1>6. CASE DecideRecovery
  BY <1>6, RecoveryKeeps
<1>7. CASE ResetRecovery
  BY <1>7 DEF ResetRecovery, RcInv, MaxRecoveryAttempts, StreakInv, FailPlaces, Succs, Escalats
<1>8. CASE AggregateRestarts
  <2>1. /\ rcLost' = TRUE /\ rcStreak' = 0 /\ rcFired' = FALSE /\ rcAttempts' = 0 /\ rcLog' = rcLog
        /\ rcLog \in Seq(RcEv) /\ Len(rcLog) <= RcEvents
    BY <1>8 DEF AggregateRestarts, RcInv
  <2>2. Len(rcLog) \in Nat /\ 0 <= Len(rcLog) + 1 /\ 0 \in 0 .. MaxRecoveryAttempts
    BY <2>1 DEF MaxRecoveryAttempts
  <2>3. rcLog' \in Seq(RcEv) /\ Len(rcLog') <= RcEvents
    BY <2>1
  <2>4. rcStreak' <= Len(rcLog') + (IF rcLost' THEN 1 ELSE 0)
    BY <2>1, <2>2
  <2> QED
    BY <2>1, <2>2, <2>3, <2>4 DEF RcInv
<1>9. CASE UNCHANGED rcVars
  BY <1>9 DEF rcVars, RcInv, StreakInv, FailPlaces, Succs, Escalats
<1> QED
  BY <1>1, <1>2, <1>3, <1>4, <1>5, <1>6, <1>7, <1>8, <1>9 DEF RcNext

-----------------------------------------------------------------------------
(* What the invariant says of the aggregate. *)

LEMMA RcPlaces ==
  ASSUME RcInv
  PROVE  /\ RcPositions({"completed"}) = At(rcLog, CompletedEv)
         /\ RcPositions({"checkpoint"}) = At(rcLog, CheckpointEv)
         /\ RcPositions({"recovery"}) = At(rcLog, RecoveryEv)
         /\ RcPositions({"escalated"}) = Escalats
         /\ Successes = Succs /\ Failures = FailPlaces
<1>1. \A i \in DOMAIN rcLog : rcLog[i] \in RcEv
  BY DEF RcInv
<1>2. /\ RcPositions({"completed"}) = At(rcLog, CompletedEv)
      /\ RcPositions({"checkpoint"}) = At(rcLog, CheckpointEv)
      /\ RcPositions({"recovery"}) = At(rcLog, RecoveryEv)
      /\ RcPositions({"escalated"}) = Escalats
  BY <1>1, RcEvents3 DEF RcPositions, At, Escalats
<1>3. Successes = Succs /\ Failures = FailPlaces
  BY <1>1, <1>2, RcEvents3, RcEvents4 DEF RcPositions, Successes, Failures, Succs, FailPlaces, At
<1> QED
  BY <1>2, <1>3

LEMMA RcTypes == RcInv => RcTypeOK
<1> SUFFICES ASSUME RcInv PROVE RcTypeOK
  OBVIOUS
<1>1. rcLog \in Seq(RcEv) /\ Len(rcLog) \in Nat /\ Len(rcLog) <= RcEvents /\ RcEvents \in Nat
  BY RecoveryAssumption DEF RcInv
<1>2. rcStreak \in Nat /\ rcStreak <= Len(rcLog) + 1
  BY <1>1 DEF RcInv
<1>3. rcStreak \in 0 .. RcEvents + 1
  BY <1>1, <1>2
<1>4. \A i \in DOMAIN rcLog : rcLog[i] \in RcEv
  BY <1>1
<1>5. \A i \in DOMAIN rcLog :
        rcLog[i].type \in {"completed", "checkpoint", "escalated", "recovery", "torn"}
  BY <1>4, RcEvents2 DEF RcEv
<1> QED
  BY <1>3, <1>5 DEF RcInv, RcTypeOK

LEMMA RcStreaks == RcInv => StreakFromLog /\ EscalatesOnce
<1> SUFFICES ASSUME RcInv, ~rcLost PROVE StreakFromLog /\ EscalatesOnce
  BY DEF StreakFromLog, EscalatesOnce
<1>1. StreakFromLog
  BY RcPlaces DEF RcInv, StreakInv, StreakFromLog, Since
<1>2. ASSUME NEW i \in Escalats
      PROVE  LET start == Max({0} \union {s \in Succs : s < i})
             IN  /\ Cardinality({f \in FailPlaces : start < f /\ f < i}) >= RcThreshold
                 /\ \A j \in Escalats : start < j => i <= j
  <2> DEFINE n == Len(rcLog)
             P == {0} \union {s \in Succs : s < i}
             start == Max(P)
  <2>1. n \in Nat /\ FailPlaces \subseteq 1 .. n /\ Succs \subseteq 1 .. n /\ Escalats \subseteq 1 .. n
    BY AtIsFinite DEF RcInv, FailPlaces, Succs, Escalats
  <2>2. P \subseteq 0 .. n /\ P # {}
    <3>1. 0 \in P
      OBVIOUS
    <3>2. \A p \in P : p = 0 \/ p \in Succs
      OBVIOUS
    <3>3. \A p : p = 0 \/ p \in Succs => p \in 0 .. n
      <4>1. \A p \in 1 .. n : p \in 0 .. n
        BY <2>1
      <4>2. 0 \in 0 .. n
        BY <2>1
      <4>3. \A p \in Succs : p \in 1 .. n
        BY Zenon, <2>1
      <4> QED
        BY ONLY <4>1, <4>2, <4>3
    <3> QED
      BY <3>1, <3>2, <3>3
  <2>3. start \in P /\ \A m \in P : m <= start
    BY <2>1, <2>2, GreatestOf
  <2> HIDE DEF start
  <2>4. \A f \in 1 .. n : start < f <=> \A s \in Before(Succs, i) : s < f
    BY <2>1, <2>2, <2>3 DEF Before
  <2>5. {f \in FailPlaces : start < f /\ f < i} = Since(Before(FailPlaces, i), Before(Succs, i))
    <3>1. \A f : f \in {g \in FailPlaces : start < g /\ g < i} <=> f \in Since(Before(FailPlaces, i), Before(Succs, i))
      BY <2>1, <2>4 DEF Since, Before
    <3> QED
      BY <3>1
  <2>6. Cardinality(Since(Before(FailPlaces, i), Before(Succs, i))) >= RcThreshold
        /\ \A j \in Escalats : (\A s \in Before(Succs, i) : s < j) => i <= j
    BY DEF RcInv, StreakInv
  <2>7. Cardinality({f \in FailPlaces : start < f /\ f < i}) >= RcThreshold
    BY <2>5, <2>6
  <2>8. \A j \in Escalats : start < j => i <= j
    BY <2>1, <2>4, <2>6
  <2> QED
    BY <2>7, <2>8 DEF start
<1>3. EscalatesOnce
  BY <1>2, RcPlaces DEF EscalatesOnce
<1> QED
  BY <1>1, <1>3

\* Half of a number, rounded down.
LEMMA Halves == \A n, k \in Nat : k > n \div 2 => 2 * k > n
  OBVIOUS

LEMMA RecentIs ==
  ASSUME RcInv
  PROVE  /\ RecentFailures \subseteq FailPlaces /\ IsFiniteSet(RecentFailures)
         /\ Cardinality(RecentFailures) \in Nat
         /\ \A i \in RecentFailures : rcLog[i].reason \subseteq RcClass
<1>1. RecentFailures \subseteq FailPlaces
  BY RcPlaces DEF RecentFailures, Failures
<1>2. IsFiniteSet(FailPlaces)
  BY AtIsFinite DEF RcInv, FailPlaces
<1>3. IsFiniteSet(RecentFailures)
  BY <1>1, <1>2, FS_Subset
<1>4. \A i \in FailPlaces : rcLog[i] \in FailureEv
  BY DEF FailPlaces, At
<1>5. \A e \in FailureEv : e.reason \subseteq RcClass
  BY DEF FailureEv, CompletedEv
<1> QED
  BY <1>1, <1>3, <1>4, <1>5, FS_CardinalityType

\* A class that wins is in most of the reasons.
LEMMA MajorityIs ==
  ASSUME RcInv, NEW v \in Votes(RecentFailures), NEW c \in Won(v, RecentFailures)
  PROVE  2 * Cardinality({i \in RecentFailures : c \in rcLog[i].reason}) > Cardinality(RecentFailures)
<1> DEFINE F == RecentFailures
           A == {i \in F : v[i] = c}
           B == {i \in F : c \in rcLog[i].reason}
<1>1. c \in RcClass /\ Cardinality(A) > Cardinality(F) \div 2
  BY DEF Won
<1>2. c # "none"
  BY <1>1 DEF RcClass
<1>3. A \subseteq B
  BY <1>2 DEF Votes
<1>4. IsFiniteSet(B) /\ Cardinality(F) \in Nat
  BY RecentIs, FS_Subset
<1>5. Cardinality(A) <= Cardinality(B) /\ IsFiniteSet(A)
  BY <1>3, <1>4, FS_Subset
<1>6. Cardinality(A) \in Nat /\ Cardinality(B) \in Nat
  BY <1>4, <1>5, FS_CardinalityType
<1>7. Cardinality(B) > Cardinality(F) \div 2
  BY <1>1, <1>4, <1>5, <1>6
<1> QED
  BY <1>4, <1>6, <1>7, Halves

LEMMA RcBounded == RcInv => RecoveryBounded
<1> SUFFICES ASSUME RcInv PROVE RecoveryBounded
  OBVIOUS
<1>1. \A i \in RcPositions({"recovery"}) : rcLog[i] \in RecoveryEv
  BY RcPlaces DEF At
<1>2. \A d \in RecoveryEv : d.retry => d.class \in Transient /\ d.num \in 1 .. MaxRecoveryAttempts
  BY DEF RecoveryEv
<1>3. ASSUME NEW d \in RecoveryEv, NEW e \in RecoveryEv, d.retry, e.retry, d.class = e.class, d.num < e.num
      PROVE  d.cooldown < e.cooldown
  <2>1. /\ d.class \in Transient /\ d.num \in 1 .. 2 /\ e.num \in 1 .. 2
        /\ d.cooldown = CooldownForClass(d.class, d.num) /\ e.cooldown = CooldownForClass(d.class, e.num)
    BY <1>3 DEF RecoveryEv, MaxRecoveryAttempts
  <2>2. d.num = 1 /\ e.num = 2
    BY <1>3, <2>1
  <2> QED
    BY <2>1, <2>2, CooldownsAre
<1>4. ASSUME NEW class \in ClassifyGommage(RecentFailures) \ {"systematic"}
      PROVE  2 * Cardinality({i \in RecentFailures : class \in rcLog[i].reason}) > Cardinality(RecentFailures)
  <2>1. PICK v \in Votes(RecentFailures) :
          class \in IF Won(v, RecentFailures) = {} THEN {"systematic"} ELSE Won(v, RecentFailures)
    BY DEF ClassifyGommage
  <2>2. class \in Won(v, RecentFailures)
    BY <2>1
  <2> QED
    BY <2>2, MajorityIs
<1> QED
  BY <1>1, <1>2, <1>3, <1>4 DEF RecoveryBounded

\* Two classes cannot both have most of the votes.
LEMMA WinnerIsOne ==
  ASSUME NEW v, NEW F, IsFiniteSet(F), NEW c \in Won(v, F), NEW d \in Won(v, F)
  PROVE  c = d
<1> SUFFICES ASSUME c # d PROVE FALSE
  OBVIOUS
<1> DEFINE A == {i \in F : v[i] = c}
           B == {i \in F : v[i] = d}
<1>1. Cardinality(A) > Cardinality(F) \div 2 /\ Cardinality(B) > Cardinality(F) \div 2
  BY DEF Won
<1>2. A \subseteq F /\ B \subseteq F /\ A \cap B = {} /\ A \union B \subseteq F
  OBVIOUS
<1> HIDE DEF A, B
<1>3. IsFiniteSet(A) /\ IsFiniteSet(B)
  BY <1>2, FS_Subset
<1>4. /\ IsFiniteSet(A \union B)
      /\ Cardinality(A \union B) = Cardinality(A) + Cardinality(B) - Cardinality(A \cap B)
  BY <1>3, FS_Union
<1>5. Cardinality(A \cap B) = 0
  BY <1>2, FS_EmptySet
<1>6. Cardinality(A \union B) <= Cardinality(F)
  BY <1>2, FS_Subset
<1>7. Cardinality(A) \in Nat /\ Cardinality(B) \in Nat /\ Cardinality(F) \in Nat
      /\ Cardinality(A \union B) \in Nat
  BY <1>3, <1>4, FS_CardinalityType
<1>8. \A a, b, n \in Nat : a > n \div 2 /\ b > n \div 2 => a + b > n
  OBVIOUS
<1>9. Cardinality(A) + Cardinality(B) > Cardinality(F)
  BY <1>1, <1>7, <1>8
<1> QED
  BY <1>4, <1>5, <1>6, <1>7, <1>9

\* With at most one class to a reason there is one way to vote.
LEMMA VoteIsOne ==
  ASSUME RcInv, \A i \in RecentFailures : Cardinality(rcLog[i].reason) <= 1
  PROVE  \E v : Votes(RecentFailures) = {v}
<1> DEFINE F == RecentFailures
           w == [i \in F |-> IF rcLog[i].reason = {} THEN "none" ELSE CHOOSE c : c \in rcLog[i].reason]
<1>1. \A i \in F : rcLog[i].reason \subseteq RcClass
  BY RecentIs
<1>2. IsFiniteSet(RcClass)
  <2>1. RcClass = {"timeout"} \union ({"rate_limit"} \union ({"parse_error"} \union {"blocker"}))
    BY DEF RcClass
  <2>2. IsFiniteSet({"parse_error"} \union {"blocker"})
    BY FS_Singleton, FS_Union
  <2>3. IsFiniteSet({"rate_limit"} \union ({"parse_error"} \union {"blocker"}))
    BY <2>2, FS_Singleton, FS_Union
  <2> QED
    BY <2>1, <2>3, FS_Singleton, FS_Union
<1>3. ASSUME NEW i \in F, NEW c \in rcLog[i].reason PROVE rcLog[i].reason = {c}
  <2> DEFINE R == rcLog[i].reason
  <2>1. IsFiniteSet(R) /\ Cardinality(R) \in Nat /\ Cardinality(R) <= 1
    BY <1>1, <1>2, FS_Subset, FS_CardinalityType
  <2>2. {c} \in SUBSET R
    OBVIOUS
  <2> HIDE DEF R
  <2>3. Cardinality({c}) = 1
    BY FS_Singleton
  <2>4. Cardinality({c}) <= Cardinality(R) /\ (Cardinality(R) = Cardinality({c}) => R = {c})
    BY <2>1, <2>2, FS_Subset
  <2>5. R = {c}
    BY <2>1, <2>3, <2>4
  <2> QED
    BY <2>5 DEF R
<1>4. ASSUME NEW i \in F
      PROVE  /\ w[i] \in RcClass \union {"none"}
             /\ (rcLog[i].reason = {} => w[i] = "none")
             /\ (rcLog[i].reason # {} => w[i] \in rcLog[i].reason)
  <2>1. CASE rcLog[i].reason = {}
    BY <2>1
  <2>2. CASE rcLog[i].reason # {}
    <3>1. w[i] = CHOOSE c : c \in rcLog[i].reason
      BY <2>2
    <3>2. \E c : c \in rcLog[i].reason
      BY <2>2
    <3>3. w[i] \in rcLog[i].reason
      BY <3>1, <3>2, Zenon
    <3> QED
      BY <1>1, <2>2, <3>3
  <2> QED
    BY <2>1, <2>2
<1>5. w \in [F -> RcClass \union {"none"}]
  <2>1. w = [i \in F |-> w[i]]
    OBVIOUS
  <2> HIDE DEF w
  <2> QED
    BY <1>4, <2>1
<1> HIDE DEF w
<1>6. w \in Votes(F)
  BY <1>4, <1>5 DEF Votes
<1>7. ASSUME NEW v \in Votes(F) PROVE v = w
  <2>1. /\ v \in [F -> RcClass \union {"none"}]
        /\ \A i \in F : IF rcLog[i].reason = {} THEN v[i] = "none" ELSE v[i] \in rcLog[i].reason
    BY DEF Votes
  <2>2. ASSUME NEW i \in F PROVE v[i] = w[i]
    <3>1. CASE rcLog[i].reason = {}
      BY <1>4, <2>1, <3>1
    <3>2. CASE rcLog[i].reason # {}
      <4>1. v[i] \in rcLog[i].reason /\ w[i] \in rcLog[i].reason
        BY <1>4, <2>1, <3>2
      <4>2. rcLog[i].reason = {v[i]}
        BY <1>3, <4>1
      <4> QED
        BY <4>1, <4>2
    <3> QED
      BY <3>1, <3>2
  <2> QED
    BY <1>5, <2>1, <2>2
<1> QED
  BY <1>6, <1>7

LEMMA RcDetermined == RcInv => ClassIsDetermined
<1> SUFFICES ASSUME RcInv, \A i \in RecentFailures : Cardinality(rcLog[i].reason) <= 1
             PROVE  Cardinality(ClassifyGommage(RecentFailures)) = 1
  BY DEF ClassIsDetermined
<1>1. PICK v : Votes(RecentFailures) = {v}
  BY VoteIsOne
<1> DEFINE W == Won(v, RecentFailures)
           Named(w) == IF Won(w, RecentFailures) = {} THEN {"systematic"} ELSE Won(w, RecentFailures)
<1>2. ClassifyGommage(RecentFailures) = UNION {Named(w) : w \in {v}}
  BY <1>1 DEF ClassifyGommage
<1>3. UNION {Named(w) : w \in {v}} = Named(v)
  <2> HIDE DEF Named
  <2> QED
    OBVIOUS
<1>4. IsFiniteSet(RecentFailures)
  BY RecentIs
<1>5. \E c : Named(v) = {c}
  <2>1. CASE W = {}
    BY <2>1
  <2>2. CASE W # {}
    <3>1. PICK c \in W : TRUE
      BY <2>2
    <3>2. \A d \in W : d = c
      BY <1>4, <3>1, WinnerIsOne
    <3>3. W = {c}
      BY <3>1, <3>2
    <3> QED
      BY <2>2, <3>3
  <2> QED
    BY <2>1, <2>2
<1> QED
  BY <1>2, <1>3, <1>5, FS_Singleton

-----------------------------------------------------------------------------
(* What a log's scan finds. *)

Scans == INSTANCE Folding WITH Step <- ScanLine

LEMMA ScanIsFold == ASSUME NEW log PROVE Scan(log) = Scans!Folded([at |-> {}, completed |-> {}], log)
  BY DEF Scan, FoldLeft, MapThenFoldSet, Max, Scans!Folded, Scans!Greatest

LastCheckpoints(log) ==
  {k \in At(log, CheckpointEv) : \A j \in At(log, CheckpointEv) : log[j].exp = log[k].exp => j <= k}

ScanIs(log) ==
  /\ Scan(log) = [at |-> Scan(log).at, completed |-> Scan(log).completed]
  /\ Scan(log).at = {log[i] : i \in LastCheckpoints(log)}
  /\ Scan(log).completed = {log[i].exp : i \in At(log, CompletedEv)}

LEMMA ScanNothing == ScanIs(<< >>)
<1>1. Scan(<< >>) = [at |-> {}, completed |-> {}]
  BY ScanIsFold, Scans!FoldEmpty
<1>2. At(<< >>, CompletedEv) = {} /\ At(<< >>, CheckpointEv) = {}
  BY DEF At
<1>3. LastCheckpoints(<< >>) = {}
  BY <1>2 DEF LastCheckpoints
<1> QED
  BY <1>1, <1>2, <1>3 DEF ScanIs

LEMMA ScanAppended ==
  ASSUME NEW log \in Seq(RcEv), NEW e \in RcEv, ScanIs(log)
  PROVE  ScanIs(Append(log, e))
<1> DEFINE r == Append(log, e)
           n == Len(log)
           C == At(log, CheckpointEv)
           D == At(log, CompletedEv)
<1>1. n \in Nat /\ r[n + 1] = e /\ (\A i \in 1 .. n : r[i] = log[i])
  BY Appended
<1>2. C \subseteq 1 .. n /\ D \subseteq 1 .. n
  BY AtIsFinite
<1>3. /\ At(r, CheckpointEv) = C \union (IF e \in CheckpointEv THEN {n + 1} ELSE {})
      /\ At(r, CompletedEv) = D \union (IF e \in CompletedEv THEN {n + 1} ELSE {})
  BY AtAppended
<1>4. Scan(r) = ScanLine(Scan(log), e)
  BY ScanIsFold, Scans!FoldAppend
<1> HIDE DEF r, n, C, D
<1>5. ASSUME e.type # "checkpoint" PROVE LastCheckpoints(r) = LastCheckpoints(log)
  <2>1. At(r, CheckpointEv) = C
    BY <1>3, <1>5, RcEvents3
  <2>2. \A i \in C : r[i] = log[i]
    BY <1>1, <1>2
  <2> QED
    BY <2>1, <2>2 DEF LastCheckpoints, C
<1>6. ASSUME NEW i \in C \union D PROVE r[i] = log[i] /\ i \in 1 .. n
  BY <1>1, <1>2
<1>7. LastCheckpoints(log) \subseteq C
  BY DEF LastCheckpoints, C
<1>8. CASE e.type = "completed"
  <2>1. e \in CompletedEv /\ e.type # "checkpoint"
    BY <1>8, RcEvents3
  <2>2. Scan(r) = [at |-> Scan(log).at, completed |-> Scan(log).completed \union {e.exp}]
    BY <1>4, <1>8 DEF ScanLine
  <2>3. {r[i] : i \in LastCheckpoints(r)} = {log[i] : i \in LastCheckpoints(log)}
    BY <1>5, <1>6, <1>7, <2>1
  <2>4. At(r, CompletedEv) = D \union {n + 1}
    BY <1>3, <2>1
  <2>5. {r[i].exp : i \in D \union {n + 1}} = {log[i].exp : i \in D} \union {e.exp}
    BY <1>1, <1>6
  <2>6. /\ Scan(r).at = Scan(log).at /\ Scan(r).completed = Scan(log).completed \union {e.exp}
        /\ Scan(r) = [at |-> Scan(r).at, completed |-> Scan(r).completed]
    BY ONLY <2>2
  <2>7. Scan(r).at = {r[i] : i \in LastCheckpoints(r)}
    BY <2>3, <2>6 DEF ScanIs
  <2>8. Scan(r).completed = {r[i].exp : i \in At(r, CompletedEv)}
    BY <2>4, <2>5, <2>6 DEF ScanIs, D
  <2>9. ScanIs(r)
    BY <2>6, <2>7, <2>8 DEF ScanIs
  <2> QED
    BY <2>9 DEF r
<1>9. CASE e.type = "checkpoint"
  <2>1. e \in CheckpointEv /\ e \notin CompletedEv
    BY <1>9, RcEvents3
  <2>2. Scan(r) = [at |-> {c \in Scan(log).at : c.exp # e.exp} \union {e},
                   completed |-> Scan(log).completed]
    BY <1>4, <1>9 DEF ScanLine
  <2>3. At(r, CheckpointEv) = C \union {n + 1} /\ At(r, CompletedEv) = D
    BY <1>3, <2>1
  <2>4. {r[i].exp : i \in D} = {log[i].exp : i \in D}
    BY <1>6
  <2>5. \A k : k \in LastCheckpoints(r) <=> k = n + 1 \/ (k \in LastCheckpoints(log) /\ log[k].exp # e.exp)
    <3>1. \A j \in C : r[j] = log[j] /\ j <= n /\ j \in Nat /\ ~(n + 1 <= j) /\ j # n + 1
      BY <1>1, <1>6
    <3>2. n + 1 \in LastCheckpoints(r)
      BY <1>1, <2>3, <3>1 DEF LastCheckpoints
    <3>3. ASSUME NEW k \in C
          PROVE  k \in LastCheckpoints(r) <=> k \in LastCheckpoints(log) /\ log[k].exp # e.exp
      BY <1>1, <2>3, <3>1 DEF LastCheckpoints, C
    <3> QED
      BY <1>7, <2>3, <3>1, <3>2, <3>3 DEF LastCheckpoints
  <2>6. \A c : c \in {r[i] : i \in LastCheckpoints(r)}
               <=> c \in {d \in {log[i] : i \in LastCheckpoints(log)} : d.exp # e.exp} \union {e}
    BY <1>1, <1>6, <1>7, <2>5
  <2>7. {r[i] : i \in LastCheckpoints(r)}
          = {c \in Scan(log).at : c.exp # e.exp} \union {e}
    BY <2>6 DEF ScanIs
  <2>8. /\ Scan(r).at = {c \in Scan(log).at : c.exp # e.exp} \union {e}
        /\ Scan(r).completed = Scan(log).completed
        /\ Scan(r) = [at |-> Scan(r).at, completed |-> Scan(r).completed]
    BY ONLY <2>2
  <2>9. Scan(r).at = {r[i] : i \in LastCheckpoints(r)}
    BY <2>7, <2>8
  <2>10. Scan(r).completed = {r[i].exp : i \in At(r, CompletedEv)}
    BY <2>3, <2>4, <2>8 DEF ScanIs, D
  <2>11. ScanIs(r)
    BY <2>8, <2>9, <2>10 DEF ScanIs
  <2> QED
    BY <2>11 DEF r
<1>10. CASE e.type \notin {"completed", "checkpoint"}
  <2>1. e \notin CheckpointEv /\ e \notin CompletedEv
    BY <1>10, RcEvents3
  <2>2. Scan(r) = Scan(log)
    BY <1>4, <1>10 DEF ScanLine
  <2>3. {r[i] : i \in LastCheckpoints(r)} = {log[i] : i \in LastCheckpoints(log)}
    BY <1>5, <1>6, <1>7, <1>10
  <2>4. At(r, CompletedEv) = D
    BY <1>3, <2>1
  <2>5. {r[i].exp : i \in D} = {log[i].exp : i \in D}
    BY <1>6
  <2> QED
    BY <2>2, <2>3, <2>4, <2>5 DEF ScanIs, D, r
<1> QED
  BY <1>8, <1>9, <1>10

LEMMA ScansAre == \A log \in Seq(RcEv) : ScanIs(log)
<1> DEFINE G == {log \in Seq(RcEv) : ScanIs(log)}
<1>1. << >> \in G
  BY ScanNothing, Nothing
<1>2. ASSUME NEW s \in Seq(RcEv), NEW x \in RcEv, s \in G PROVE Append(s, x) \in G
  BY <1>2, ScanAppended, Appended
<1> HIDE DEF G
<1>3. Seq(RcEv) \subseteq G
  BY <1>1, <1>2, Numbers!SequencesGrow
<1> QED
  BY <1>3 DEF G

LEMMA RcResumes == RcInv => ResumesTheUnfinished
<1> SUFFICES ASSUME RcInv PROVE ResumesTheUnfinished
  OBVIOUS
<1>1. ScanIs(rcLog)
  BY ScansAre DEF RcInv
<1> DEFINE C == RcPositions({"checkpoint"})
           D == RcPositions({"completed"})
           U == {k \in C : /\ \A j \in D : rcLog[j].exp # rcLog[k].exp
                           /\ \A j \in C : rcLog[j].exp = rcLog[k].exp => j <= k}
<1>2. C = At(rcLog, CheckpointEv) /\ D = At(rcLog, CompletedEv)
  BY RcPlaces
<1>3. LastCheckpoints(rcLog) = {k \in C : \A j \in C : rcLog[j].exp = rcLog[k].exp => j <= k}
  BY <1>2 DEF LastCheckpoints
<1>4. /\ Scan(rcLog).at = {rcLog[i] : i \in LastCheckpoints(rcLog)}
      /\ Scan(rcLog).completed = {rcLog[i].exp : i \in D}
  BY <1>1, <1>2 DEF ScanIs
<1> HIDE DEF C, D
<1>5. \A c : c \in FindIncompleteCheckpoints <=> c \in {rcLog[i] : i \in U}
  BY <1>3, <1>4 DEF FindIncompleteCheckpoints
<1>6. FindIncompleteCheckpoints = {rcLog[i] : i \in U}
  BY <1>5
<1>7. U = {u \in Unfinished : ~ Reused(u)}
  <2>1. /\ C \subseteq Nat /\ D \subseteq Nat /\ C \cap D = {}
        /\ RcPositions({"checkpoint", "completed"}) = C \union D
    BY DEF C, D, RcPositions, RcInv
  <2>2. Unfinished = {k \in C : \A j \in C \union D : rcLog[j].exp = rcLog[k].exp => j <= k}
    BY <2>1 DEF Unfinished, C
  <2>3. \A k \in C : Reused(k) <=> \E j \in D : j < k /\ rcLog[j].exp = rcLog[k].exp
    BY DEF Reused, D
  <2>4. \A k \in C, j \in D : j < k <=> j <= k
    BY <2>1
  <2>5. \A k : k \in U <=> k \in {u \in Unfinished : ~ Reused(u)}
    BY <2>2, <2>3, <2>4
  <2> QED
    BY <2>5
<1> QED
  BY <1>6, <1>7 DEF ResumesTheUnfinished

\* For any expeditions, reasons, threshold, window and log: the streak that the
\* aggregate counts is its log's, it escalates once and not too early, a retry is
\* bounded and of a class with a strict majority, and after a crash exactly the
\* unfinished expeditions are found whose number had not been completed before
\* (expedition_aggregate.go, gommage.go, checkpoint_scanner.go).
THEOREM RecoveryIsSound == RcSpec => [](RcTypeOK /\ RecoverySound)
<1>1. RcInv => RcTypeOK /\ RecoverySound
  BY RcTypes, RcStreaks, RcBounded, RcDetermined, RcResumes DEF RecoverySound
<1> QED
  BY <1>1, RcInitially, RcStepKeeps, PTL DEF RcSpec

(***************************************************************************)
(* Waves: the projection of the event log, an event at a time.             *)
(***************************************************************************)

Waves1 == INSTANCE Folding WITH Step <- ApplyWaveStepEvent

WvEv == [type : {"spec.registered"}, wave : WvWave, steps : WvSteps]
        \union [type : {"expedition.completed"}, wave : WvWave, step : WvStepName, status : WvStatus]

\* What one event may not do to what was projected from those before it.
StaysDone(p, q) ==
  \A wave \in DOMAIN p.status :
    /\ wave \in DOMAIN q.status
    /\ DOMAIN q.status[wave] = DOMAIN p.status[wave]
    /\ \A step \in DOMAIN p.status[wave] : p.status[wave][step] = "completed" => q.status[wave][step] = "completed"

LEMMA ProgressIsFold == ASSUME NEW events PROVE ProjectWaveStepProgress(events) = Waves1!Folded(NoProgress, events)
  BY DEF ProjectWaveStepProgress, FoldLeft, MapThenFoldSet, Max, Waves1!Folded, Waves1!Greatest

LEMMA RegisteredStays == ASSUME NEW p, NEW wave, NEW steps PROVE StaysDone(p, Registered(p, wave, steps))
<1> DEFINE ids == StepsOf(wave, steps)
           h == [w \in DOMAIN p.status \cup {wave} |->
                   IF w = wave THEN [s \in ToSet(ids) |-> "pending"] ELSE p.status[w]]
<1>1. CASE wave \in DOMAIN p.status
  BY <1>1 DEF Registered, StaysDone
<1>2. CASE wave \notin DOMAIN p.status
  <2>1. Registered(p, wave, steps)
          = [plan |-> p.plan \o [j \in 1 .. Len(ids) |-> <<wave, ids[j]>>], status |-> h]
    BY <1>2 DEF Registered
  <2>2. Registered(p, wave, steps).status = h
    BY <2>1
  <2>3. \A w \in DOMAIN p.status : w \in DOMAIN h /\ h[w] = p.status[w]
    BY <1>2
  <2> HIDE DEF h
  <2> QED
    BY <2>2, <2>3 DEF StaysDone
<1> QED
  BY <1>1, <1>2

LEMMA CompletionStays ==
  ASSUME NEW p, NEW wave, NEW step, KnownStep(p, wave, step)
  PROVE  StaysDone(p, WithStatus(p, wave, step, "completed"))
<1> DEFINE h == [p.status EXCEPT ![wave] = [@ EXCEPT ![step] = "completed"]]
<1>1. WithStatus(p, wave, step, "completed").status = h
  BY DEF WithStatus
<1>2. wave \in DOMAIN p.status /\ step \in DOMAIN p.status[wave]
  BY DEF KnownStep
<1>3. DOMAIN h = DOMAIN p.status
  OBVIOUS
<1>4. h[wave] = [p.status[wave] EXCEPT ![step] = "completed"]
  BY <1>2
<1>5. \A w \in DOMAIN p.status : w # wave => h[w] = p.status[w]
  BY <1>2
<1> HIDE DEF h
<1>6. DOMAIN h[wave] = DOMAIN p.status[wave] /\ h[wave][step] = "completed"
      /\ \A s \in DOMAIN p.status[wave] : s # step => h[wave][s] = p.status[wave][s]
  BY <1>2, <1>4
<1> QED
  BY <1>1, <1>2, <1>3, <1>5, <1>6 DEF StaysDone

LEMMA EventStays == ASSUME NEW p, NEW e PROVE StaysDone(p, ApplyWaveStepEvent(p, e))
<1> DEFINE step == StepOf(e.wave, e.step)
<1>1. CASE e.type = "spec.registered"
  <2>1. ApplyWaveStepEvent(p, e) = Registered(p, e.wave, e.steps)
    BY <1>1 DEF ApplyWaveStepEvent
  <2> QED
    BY <2>1, RegisteredStays
<1>2. CASE e.type # "spec.registered" /\ KnownStep(p, e.wave, step) /\ e.status \in {"success", "skipped"}
  <2>1. ApplyWaveStepEvent(p, e) = WithStatus(p, e.wave, step, "completed")
    BY <1>2 DEF ApplyWaveStepEvent
  <2> QED
    BY <1>2, <2>1, CompletionStays
<1>3. CASE e.type # "spec.registered" /\ ~(KnownStep(p, e.wave, step) /\ e.status \in {"success", "skipped"})
  <2>1. ApplyWaveStepEvent(p, e) = p
    BY <1>3 DEF ApplyWaveStepEvent
  <2> QED
    BY <2>1 DEF StaysDone
<1> QED
  BY <1>1, <1>2, <1>3

LEMMA EventsKeep ==
  ASSUME wvEvents \in Seq(WvEv), NEW e \in WvEv, wvEvents' = Append(wvEvents, e)
  PROVE  /\ wvEvents' \in Seq(WvEv)
         /\ StaysDone(ProjectWaveStepProgress(wvEvents), ProjectWaveStepProgress(wvEvents'))
<1>1. ProjectWaveStepProgress(wvEvents') = ApplyWaveStepEvent(ProjectWaveStepProgress(wvEvents), e)
  BY ProgressIsFold, Waves1!FoldAppend
<1> QED
  BY <1>1, EventStays, Appended

LEMMA EventsStay ==
  ASSUME wvEvents \in Seq(WvEv), wvEvents' = wvEvents
  PROVE  /\ wvEvents' \in Seq(WvEv)
         /\ StaysDone(ProjectWaveStepProgress(wvEvents), ProjectWaveStepProgress(wvEvents'))
  BY DEF StaysDone

LEMMA WvStepStays ==
  ASSUME wvEvents \in Seq(WvEv), [WvNext]_wvVars
  PROVE  /\ wvEvents' \in Seq(WvEv)
         /\ StaysDone(ProjectWaveStepProgress(wvEvents), ProjectWaveStepProgress(wvEvents'))
<1>1. ASSUME SpecArrives PROVE \E e \in WvEv : wvEvents' = Append(wvEvents, e)
  <2>1. PICK wave \in WvWave, steps \in WvSteps :
          wvEvents' = Append(wvEvents, [type |-> "spec.registered", wave |-> wave, steps |-> steps])
    BY <1>1, Zenon DEF SpecArrives
  <2>2. [type |-> "spec.registered", wave |-> wave, steps |-> steps] \in WvEv
    BY DEF WvEv
  <2> QED
    BY <2>1, <2>2
<1>2. ASSUME ExpeditionEnds PROVE \E e \in WvEv : wvEvents' = Append(wvEvents, e)
  <2>1. PICK wave \in WvWave, step \in WvStepName, status \in WvStatus :
          wvEvents' = Append(wvEvents, [type |-> "expedition.completed", wave |-> wave,
                                        step |-> step, status |-> status])
    BY <1>2, Zenon DEF ExpeditionEnds
  <2>2. [type |-> "expedition.completed", wave |-> wave, step |-> step, status |-> status] \in WvEv
    BY DEF WvEv
  <2> QED
    BY <2>1, <2>2
<1>3. ASSUME SpecWaits \/ FeedbackArrives \/ InboxSpoilt \/ UNCHANGED wvVars PROVE wvEvents' = wvEvents
  <2>1. CASE SpecWaits
    BY <2>1, Zenon DEF SpecWaits
  <2>2. CASE FeedbackArrives
    BY <2>2, Zenon DEF FeedbackArrives
  <2>3. CASE InboxSpoilt
    BY <2>3, Zenon DEF InboxSpoilt
  <2>4. CASE UNCHANGED wvVars
    BY <2>4 DEF wvVars
  <2> QED
    BY <1>3, <2>1, <2>2, <2>3, <2>4
<1> QED
  BY <1>1, <1>2, <1>3, EventsKeep, EventsStay DEF WvNext

WaveStep ==
  LET old == ProjectWaveStepProgress(wvEvents)
      new == ProjectWaveStepProgress(wvEvents')
  IN  \A wave \in DOMAIN old.status :
        /\ wave \in DOMAIN new.status
        /\ DOMAIN new.status[wave] = DOMAIN old.status[wave]
        /\ \A step \in DOMAIN old.status[wave] :
             old.status[wave][step] = "completed" => new.status[wave][step] = "completed"

\* Whatever waves, steps and events there are, a step that is completed stays so
\* and a registered wave keeps its steps (wave_projection.go).
THEOREM WavesUndoNothing == WvSpec => NothingUndone
<1>1. WvInit => wvEvents \in Seq(WvEv)
  <2>1. WvInit => wvEvents = << >>
    BY Zenon DEF WvInit
  <2> QED
    BY <2>1
<1>2. wvEvents \in Seq(WvEv) /\ [WvNext]_wvVars => (wvEvents \in Seq(WvEv))' /\ [WaveStep]_wvVars
  BY WvStepStays DEF StaysDone, WaveStep
<1> QED
  BY <1>1, <1>2, PTL DEF WvSpec, NothingUndone, WaveStep

(***************************************************************************)
(* The set-up of a project.                                                *)
(***************************************************************************)

\* While the command is under way the continent's file is there.
StageInv ==
  /\ suStage.at \in {"idle", "root", "write", "settings"}
  /\ suStage.at # "idle" => suServers.text # "absent"

LEMMA StagesAre ==
  ASSUME NEW at, NEW force, NEW held
  PROVE  /\ Stage(at, force, held).at = at /\ Stage(at, force, held).force = force
         /\ Stage(at, force, held).held = held
  BY DEF Stage

LEMMA IdleStage == Stage("idle", FALSE, NoServers).at = "idle"
  BY DEF Stage

LEMMA StageInitially == SuInit => StageInv
<1> SUFFICES ASSUME SuInit PROVE StageInv
  OBVIOUS
<1>1. suStage = Stage("idle", FALSE, NoServers)
  BY Zenon DEF SuInit
<1>2. suStage.at = "idle"
  BY <1>1, IdleStage, Zenon
<1> QED
  BY <1>2 DEF StageInv

\* What a command that is not about the servers does to them.
McpIdle ==
  /\ UNCHANGED << suServers, suRoot, suStage >>

ServersStep ==
  /\ suStage'.at = "settings" =>
        \A s \in suRoot.servers \ suRoot'.servers : s \notin suStage.held.servers
  /\ suStage'.at = "root" /\ ~suStage'.force =>
        ResolveMCPConfigPath.servers \ {"linear"} \subseteq suServers'.servers

LEMMA IdleKeepsServers == StageInv /\ McpIdle => StageInv' /\ ServersStep
  BY DEF StageInv, McpIdle, ServersStep, ResolveMCPConfigPath

LEMMA SuStepKeepsServers == StageInv /\ [SuNext]_suVars => StageInv' /\ ServersStep
<1> SUFFICES ASSUME StageInv, [SuNext]_suVars PROVE StageInv' /\ ServersStep
  OBVIOUS
<1>1. ASSUME NEW k \in ConfigKeys, NEW v \in Tried[k], UpdateProjectConfig(k, v) PROVE StageInv' /\ ServersStep
  <2>1. McpIdle
    BY <1>1, Zenon DEF UpdateProjectConfig, McpParts, McpIdle
  <2> QED
    BY <2>1, IdleKeepsServers
<1>2. ASSUME NEW team, NEW project, NEW force, InitProject(team, project, force) PROVE StageInv' /\ ServersStep
  <2>1. McpIdle
    BY <1>2, Zenon DEF InitProject, McpParts, McpIdle
  <2> QED
    BY <2>1, IdleKeepsServers
<1>3. ASSUME EditConfig \/ EditIgnore \/ UNCHANGED suVars PROVE StageInv' /\ ServersStep
  <2>1. CASE EditConfig
    <3>1. McpIdle
      BY <2>1, Zenon DEF EditConfig, McpIdle
    <3> QED
      BY <3>1, IdleKeepsServers
  <2>2. CASE EditIgnore
    <3>1. McpIdle
      BY <2>2, Zenon DEF EditIgnore, McpIdle
    <3> QED
      BY <3>1, IdleKeepsServers
  <2>3. CASE UNCHANGED suVars
    <3>1. McpIdle
      BY <2>3, Zenon DEF suVars, McpIdle
    <3> QED
      BY <3>1, IdleKeepsServers
  <2> QED
    BY <1>3, <2>1, <2>2, <2>3
<1>4. ASSUME NEW force \in BOOLEAN, GenerateMCPConfig(force) PROVE StageInv' /\ ServersStep
  <2>1. /\ suStage' = Stage("root", force, NoServers)
        /\ suServers' = IF ~force /\ suServers.text # "absent" THEN suServers
                        ELSE [text |-> "json",
                              servers |-> (IF force THEN {} ELSE suLegacy.servers \ {"linear"})
                                          \union {"paintress"}]
    BY <1>4 DEF GenerateMCPConfig
  <2>2. suStage'.at = "root" /\ suStage'.force = force
    BY <2>1, StagesAre
  <2>3. suServers'.text # "absent"
    BY <2>1
  <2>4. ~force => ResolveMCPConfigPath.servers \ {"linear"} \subseteq suServers'.servers
    <3>1. CASE suServers.text # "absent"
      BY <2>1, <3>1 DEF ResolveMCPConfigPath
    <3>2. CASE suServers.text = "absent" /\ ~force
      <4>1. suServers'.servers = (suLegacy.servers \ {"linear"}) \union {"paintress"}
        BY <2>1, <3>2
      <4> QED
        BY <3>2, <4>1 DEF ResolveMCPConfigPath
    <3> QED
      BY <3>1, <3>2
  <2> QED
    BY <2>2, <2>3, <2>4 DEF StageInv, ServersStep
<1>5. ASSUME ReadRootConfig PROVE StageInv' /\ ServersStep
  <2>1. /\ suStage' = Stage("idle", FALSE, NoServers) \/ suStage' = Stage("write", suStage.force, suRoot)
        /\ suStage.at = "root" /\ UNCHANGED << suServers, suRoot >>
    BY <1>5 DEF ReadRootConfig
  <2>2. suStage'.at = "idle" \/ suStage'.at = "write"
    <3>1. CASE suStage' = Stage("idle", FALSE, NoServers)
      BY <3>1, IdleStage, Zenon
    <3>2. CASE suStage' = Stage("write", suStage.force, suRoot)
      BY <3>2, StagesAre
    <3> QED
      BY <2>1, <3>1, <3>2
  <2> QED
    BY <2>1, <2>2 DEF StageInv, ServersStep
<1>6. ASSUME UpsertRootMCPConfig PROVE StageInv' /\ ServersStep
  <2>1. /\ suStage' = Stage("settings", suStage.force, NoServers) /\ suStage.at = "write"
        /\ suRoot' = WithOurs(suStage.held) /\ UNCHANGED suServers
    BY <1>6 DEF UpsertRootMCPConfig
  <2>2. suStage'.at = "settings"
    BY <2>1, StagesAre
  <2>3. suRoot'.servers = suStage.held.servers \union {"paintress"}
    BY <2>1 DEF WithOurs
  <2> QED
    BY <2>1, <2>2, <2>3 DEF StageInv, ServersStep
<1>7. ASSUME GenerateClaudeSettings PROVE StageInv' /\ ServersStep
  <2>1. suStage' = Stage("idle", FALSE, NoServers) /\ UNCHANGED suServers
    BY <1>7 DEF GenerateClaudeSettings
  <2>2. suStage'.at = "idle"
    BY <2>1, IdleStage, Zenon
  <2> QED
    BY <2>1, <2>2 DEF StageInv, ServersStep
<1>8. ASSUME SiblingUpserts PROVE StageInv' /\ ServersStep
  <2>1. suRoot' = [text |-> "json", servers |-> suRoot.servers \union {"sibling"}]
        /\ UNCHANGED << suServers, suStage >>
    BY <1>8 DEF SiblingUpserts
  <2>2. suRoot'.servers = suRoot.servers \union {"sibling"}
    BY <2>1
  <2> QED
    BY <2>1, <2>2 DEF StageInv, ServersStep, ResolveMCPConfigPath
<1>9. ASSUME UserEditsServers PROVE StageInv' /\ ServersStep
  <2>1. suStage.at = "idle" /\ UNCHANGED suStage
    BY <1>9 DEF UserEditsServers
  <2> QED
    BY <2>1 DEF StageInv, ServersStep
<1> QED
  BY <1>1, <1>2, <1>3, <1>4, <1>5, <1>6, <1>7, <1>8, <1>9 DEF SuNext

\* Whoever else writes the shared file: the command takes no server out of it
\* that it has read, and none that the user added without --force
\* (claude_wiring.go).
THEOREM ServersStay == SuSpec => ServersKept
<1>1. StageInv /\ [SuNext]_suVars => StageInv' /\ [ServersStep]_suVars
  BY SuStepKeepsServers
<1> QED
  BY <1>1, StageInitially, PTL DEF SuSpec, ServersKept, ServersStep

SuInv ==
  /\ StageInv
  /\ suConfig.text \in {"absent", "garbled", "yaml"} /\ DOMAIN suConfig.keys \subseteq ConfigKeys
  /\ "dirs" \in DOMAIN suContinent /\ suContinent.dirs \subseteq StateDirs
  /\ suSettings \in {"absent", "edited", "minimal"}
  /\ suSteps \in 0 .. SuSteps

ConfigTyped(file) == file.text \in {"absent", "garbled", "yaml"} /\ DOMAIN file.keys \subseteq ConfigKeys

DirsTyped(w) == "dirs" \in DOMAIN w /\ w.dirs \subseteq StateDirs

LEMMA YamlTyped == ASSUME NEW keys, DOMAIN keys \subseteq ConfigKeys PROVE ConfigTyped(Yaml(keys))
  BY DEF ConfigTyped, Yaml

LEMMA SavedTyped == ASSUME NEW config PROVE ConfigTyped(SaveProjectConfig(config))
<1> DEFINE keys == [k \in {j \in ConfigKeys : config[j] # Zero[j]} |-> config[k]]
<1>1. DOMAIN keys \subseteq ConfigKeys
  OBVIOUS
<1>2. SaveProjectConfig(config) = Yaml(keys)
  BY DEF SaveProjectConfig
<1> QED
  BY <1>1, <1>2, YamlTyped

LEMMA RootDirTyped ==
  ASSUME NEW w, DirsTyped(w) PROVE DirsTyped([w EXCEPT !.dirs = @ \union {"root"}])
<1>1. DOMAIN [w EXCEPT !.dirs = @ \union {"root"}] = DOMAIN w
  BY Zenon
<1>2. [w EXCEPT !.dirs = @ \union {"root"}].dirs = w.dirs \union {"root"}
  BY Zenon DEF DirsTyped
<1>3. "root" \in StateDirs
  BY DEF StateDirs
<1> QED
  BY <1>1, <1>2, <1>3 DEF DirsTyped

LEMMA ValidatedTyped == ASSUME NEW w, DirsTyped(w) PROVE DirsTyped(ValidateContinent(w).world)
<1>1. DirsTyped(EnsureStateDir(w))
  <2>1. DOMAIN [w EXCEPT !.dirs = @ \union StateDirs] = DOMAIN w
    BY Zenon
  <2>2. [w EXCEPT !.dirs = @ \union StateDirs].dirs = w.dirs \union StateDirs
    BY Zenon DEF DirsTyped
  <2> QED
    BY <2>1, <2>2 DEF DirsTyped, EnsureStateDir
<1>2. ASSUME NEW v, DirsTyped(v) PROVE DirsTyped(SyncSkills(v))
  <2> DEFINE x == Over([s \in OwnSkills |-> "current"], v.skills)
  <2>1. SyncSkills(v) = [v EXCEPT !.skills = x]
    BY Zenon DEF SyncSkills
  <2> HIDE DEF x
  <2>2. DOMAIN [v EXCEPT !.skills = x] = DOMAIN v /\ [v EXCEPT !.skills = x].dirs = v.dirs
    BY <1>2, Zenon DEF DirsTyped
  <2> QED
    BY <1>2, <2>1, <2>2 DEF DirsTyped
<1>3. ASSUME NEW v, DirsTyped(v) PROVE DirsTyped(EnsureGitignoreEntries(v))
  <2>1. PICK x : EnsureGitignoreEntries(v) = [v EXCEPT !.ignore = x]
    BY Zenon DEF EnsureGitignoreEntries
  <2>2. DOMAIN [v EXCEPT !.ignore = x] = DOMAIN v /\ [v EXCEPT !.ignore = x].dirs = v.dirs
    BY <1>3, Zenon DEF DirsTyped
  <2> QED
    BY <1>3, <2>1, <2>2 DEF DirsTyped
<1>4. DirsTyped(Validated(w))
  BY <1>1, <1>2, <1>3 DEF Validated
<1>5. ValidateContinent(w).world = Validated(w) \/ ValidateContinent(w).world = w
  BY DEF ValidateContinent
<1> QED
  BY <1>4, <1>5

LEMMA SuInitially == SuInit => SuInv
<1> SUFFICES ASSUME SuInit PROVE SuInv
  OBVIOUS
<1>1. suContinent = NoContinent /\ suConfig = NoFile /\ suSettings = "absent" /\ suSteps = 0
  BY Zenon DEF SuInit
<1>2. DirsTyped(NoContinent)
  BY DEF DirsTyped, NoContinent
<1>3. ConfigTyped(NoFile)
  BY DEF ConfigTyped, NoFile
<1>4. suSteps \in 0 .. SuSteps
  BY <1>1, SuAssumption
<1> QED
  BY <1>1, <1>2, <1>3, <1>4, StageInitially DEF SuInv, DirsTyped, ConfigTyped

LEMMA CountedTyped == SuInv /\ Counted => suSteps' \in 0 .. SuSteps
  BY SuAssumption DEF SuInv, Counted

LEMMA SuStepTyped ==
  ASSUME SuInv, [SuNext]_suVars
  PROVE  /\ ConfigTyped(suConfig') /\ DirsTyped(suContinent')
         /\ suSettings' \in {"absent", "edited", "minimal"} /\ suSteps' \in 0 .. SuSteps
<1>1. ConfigTyped(suConfig) /\ DirsTyped(suContinent) /\ suSettings \in {"absent", "edited", "minimal"}
      /\ suSteps \in 0 .. SuSteps
  BY DEF SuInv, ConfigTyped, DirsTyped
<1>2. ASSUME NEW k \in ConfigKeys, NEW v \in Tried[k], UpdateProjectConfig(k, v)
      PROVE  /\ ConfigTyped(suConfig') /\ DirsTyped(suContinent') /\ suSettings' = suSettings /\ Counted
  <2>1. PICK new : /\ suConfig' = SaveProjectConfig(new) \/ suConfig' = suConfig
                   /\ suContinent' = [suContinent EXCEPT !.dirs = @ \union {"root"}] \/ suContinent' = suContinent
                   /\ UNCHANGED McpParts /\ Counted
    BY <1>2, Zenon DEF UpdateProjectConfig
  <2>2. suSettings' = suSettings
    BY <2>1 DEF McpParts
  <2> QED
    BY <1>1, <2>1, <2>2, SavedTyped, RootDirTyped
<1>3. ASSUME NEW team, NEW project, NEW force, InitProject(team, project, force)
      PROVE  /\ ConfigTyped(suConfig') /\ DirsTyped(suContinent') /\ suSettings' = suSettings /\ Counted
  <2>1. PICK new : /\ suConfig' = SaveProjectConfig(new) \/ suConfig' = suConfig
                   /\ suContinent' = ValidateContinent(suContinent).world \/ suContinent' = suContinent
                   /\ UNCHANGED McpParts /\ Counted
    BY <1>3, Zenon DEF InitProject
  <2>2. suSettings' = suSettings
    BY <2>1 DEF McpParts
  <2> QED
    BY <1>1, <2>1, <2>2, SavedTyped, ValidatedTyped
<1>4. ASSUME EditConfig
      PROVE  /\ ConfigTyped(suConfig') /\ DirsTyped(suContinent') /\ suSettings' = suSettings /\ Counted
  <2>1. /\ (\E k \in ConfigKeys : \E v \in Tried[k] : suConfig' = Yaml(WithKey(suConfig.keys, k, v)))
           \/ suConfig' = Garbled
        /\ suContinent' = suContinent /\ suSettings' = suSettings /\ Counted
    BY <1>4, Zenon DEF EditConfig
  <2>2. ConfigTyped(Garbled)
    BY DEF ConfigTyped, Garbled
  <2>3. ASSUME NEW k \in ConfigKeys, NEW v PROVE ConfigTyped(Yaml(WithKey(suConfig.keys, k, v)))
    <3>1. DOMAIN WithKey(suConfig.keys, k, v) \subseteq ConfigKeys
      BY <1>1 DEF ConfigTyped, WithKey
    <3> QED
      BY <3>1, YamlTyped
  <2> QED
    BY <1>1, <2>1, <2>2, <2>3
<1>5. ASSUME EditIgnore
      PROVE  /\ ConfigTyped(suConfig') /\ DirsTyped(suContinent') /\ suSettings' = suSettings /\ Counted
  <2>1. /\ \E x : suContinent' = [suContinent EXCEPT !.dirs = @ \union {"root"}, !.ignore = x]
        /\ suConfig' = suConfig /\ suSettings' = suSettings /\ Counted
    BY <1>5, Zenon DEF EditIgnore
  <2>2. PICK x : suContinent' = [suContinent EXCEPT !.dirs = @ \union {"root"}, !.ignore = x]
    BY <2>1
  <2> DEFINE w == [suContinent EXCEPT !.dirs = @ \union {"root"}]
  <2>3. DirsTyped(w)
    BY <1>1, RootDirTyped
  <2>4. suContinent' = [w EXCEPT !.ignore = x]
    BY <2>2
  <2> HIDE DEF w
  <2>5. DOMAIN [w EXCEPT !.ignore = x] = DOMAIN w /\ [w EXCEPT !.ignore = x].dirs = w.dirs
    BY <2>3, Zenon DEF DirsTyped
  <2>6. DirsTyped(suContinent')
    BY <2>3, <2>4, <2>5 DEF DirsTyped
  <2> QED
    BY <1>1, <2>1, <2>6
<1>6. ASSUME NEW force \in BOOLEAN, GenerateMCPConfig(force)
      PROVE  UNCHANGED << suConfig, suContinent, suSettings >> /\ Counted
  BY <1>6, Zenon DEF GenerateMCPConfig
<1>7. ASSUME ReadRootConfig \/ UpsertRootMCPConfig \/ UNCHANGED suVars
      PROVE  UNCHANGED << suConfig, suContinent, suSettings, suSteps >>
  BY <1>7, Zenon DEF ReadRootConfig, UpsertRootMCPConfig, suVars
<1>8. ASSUME GenerateClaudeSettings
      PROVE  UNCHANGED << suConfig, suContinent, suSteps >> /\ suSettings' \in {"absent", "edited", "minimal"}
  BY <1>1, <1>8 DEF GenerateClaudeSettings
<1>9. ASSUME SiblingUpserts PROVE UNCHANGED << suConfig, suContinent, suSettings >> /\ Counted
  BY <1>9, Zenon DEF SiblingUpserts
<1>10. ASSUME UserEditsServers
       PROVE  /\ UNCHANGED << suConfig, suContinent >> /\ Counted
              /\ suSettings' \in {"absent", "edited", "minimal"}
  BY <1>1, <1>10 DEF UserEditsServers
<1> QED
  BY <1>1, <1>2, <1>3, <1>4, <1>5, <1>6, <1>7, <1>8, <1>9, <1>10, CountedTyped DEF SuNext

LEMMA SuStepKeeps == SuInv /\ [SuNext]_suVars => SuInv'
<1> SUFFICES ASSUME SuInv, [SuNext]_suVars PROVE SuInv'
  OBVIOUS
<1>1. StageInv'
  BY SuStepKeepsServers DEF SuInv
<1>2. /\ ConfigTyped(suConfig') /\ DirsTyped(suContinent')
      /\ suSettings' \in {"absent", "edited", "minimal"} /\ suSteps' \in 0 .. SuSteps
  BY SuStepTyped
<1> QED
  BY <1>1, <1>2 DEF SuInv, ConfigTyped, DirsTyped

\* The files hold what the commands and the user can put there.
THEOREM SetupTypes == SuSpec => []SuTypeOK
<1>1. SuInv => SuTypeOK
  BY DEF SuInv, StageInv, SuTypeOK
<1> QED
  BY <1>1, SuInitially, SuStepKeeps, PTL DEF SuSpec

-----------------------------------------------------------------------------
(* What a command leaves of the configuration: what the last one wrote, or *)
(* refused to.                                                             *)

LEMMA OverIs ==
  ASSUME NEW f, NEW g
  PROVE  DOMAIN Over(f, g) = DOMAIN f \union DOMAIN g
  BY DEF Over

LEMMA GivenWins ==
  ASSUME NEW f, NEW g, NEW k, k \in DOMAIN f
  PROVE  Over(f, g)[k] = f[k]
  BY DEF Over

LEMMA BelowShows ==
  ASSUME NEW f, NEW g, NEW k, k \in DOMAIN g, k \notin DOMAIN f
  PROVE  Over(f, g)[k] = g[k]
  BY DEF Over

LEMMA DefaultsAre ==
  /\ DOMAIN Default = ConfigKeys /\ DOMAIN Zero = ConfigKeys
  /\ Default["team"] = Unset /\ Default["project"] = Unset /\ Default["workers"] = "1"
  /\ Zero["team"] = Unset /\ Zero["project"] = Unset /\ Zero["dev_cmd"] = Unset /\ Zero["no_dev"] = "false"
  BY DEF Default, Zero, ConfigKeys

\* Every key has a value.
FullConfig(config) == DOMAIN config = ConfigKeys

LEMMA LoadedIs ==
  ASSUME NEW file, ConfigTyped(file)
  PROVE  /\ FullConfig(LoadProjectConfig(file).config)
         /\ LoadProjectConfig(file).ok => LoadProjectConfig(file).config["workers"] # "many"
<1>1. CASE file.text = "garbled" \/ ~ WellTyped(file.keys)
  <2>1. LoadProjectConfig(file) = [ok |-> FALSE, config |-> Default]
    BY <1>1 DEF LoadProjectConfig
  <2> QED
    BY <2>1, DefaultsAre DEF FullConfig
<1>2. CASE ~ (file.text = "garbled" \/ ~ WellTyped(file.keys))
  <2>1. LoadProjectConfig(file) = [ok |-> TRUE, config |-> Over(file.keys, Default)]
    BY <1>2 DEF LoadProjectConfig
  <2>2. LoadProjectConfig(file).config = Over(file.keys, Default)
    BY <2>1
  <2>3. DOMAIN file.keys \subseteq ConfigKeys
    BY DEF ConfigTyped
  <2>4. DOMAIN Over(file.keys, Default) = ConfigKeys
    BY <2>3, OverIs, DefaultsAre
  <2>5. "workers" \in ConfigKeys
    BY DEF ConfigKeys
  <2>6. Over(file.keys, Default)["workers"] # "many"
    <3>1. CASE "workers" \in DOMAIN file.keys
      <4>1. Over(file.keys, Default)["workers"] = file.keys["workers"]
        BY <3>1, GivenWins
      <4> QED
        BY <1>2, <3>1, <4>1 DEF WellTyped
    <3>2. CASE "workers" \notin DOMAIN file.keys
      <4>1. Over(file.keys, Default)["workers"] = "1"
        BY <2>5, <3>2, BelowShows, DefaultsAre
      <4> QED
        BY <4>1
    <3> QED
      BY <3>1, <3>2
  <2> QED
    BY <2>2, <2>4, <2>6 DEF FullConfig
<1> QED
  BY <1>1, <1>2

\* What is read back of a configuration that was written.
LEMMA WrittenIsRead ==
  ASSUME NEW config, config["workers"] # "many"
  PROVE  /\ LoadProjectConfig(SaveProjectConfig(config)).ok
         /\ \A k \in ConfigKeys :
              LoadProjectConfig(SaveProjectConfig(config)).config[k] = Kept(k, config[k])
<1> DEFINE keys == [k \in {j \in ConfigKeys : config[j] # Zero[j]} |-> config[k]]
           file == SaveProjectConfig(config)
<1>1. file.text = "yaml" /\ file.keys = keys
  BY DEF SaveProjectConfig, Yaml
<1>2. WellTyped(keys)
  BY DEF WellTyped
<1>3. LoadProjectConfig(file) = [ok |-> TRUE, config |-> Over(keys, Default)]
  <2> HIDE DEF file, keys
  <2> QED
    BY <1>1, <1>2 DEF LoadProjectConfig
<1>4. ASSUME NEW k \in ConfigKeys PROVE Over(keys, Default)[k] = Kept(k, config[k])
  <2>1. CASE config[k] # Zero[k]
    <3>1. k \in DOMAIN keys /\ keys[k] = config[k]
      BY <2>1
    <3>2. Over(keys, Default)[k] = keys[k]
      BY <3>1, GivenWins
    <3> QED
      BY <2>1, <3>1, <3>2 DEF Kept
  <2>2. CASE config[k] = Zero[k]
    <3>1. k \notin DOMAIN keys
      BY <2>2
    <3>2. Over(keys, Default)[k] = Default[k]
      BY <3>1, BelowShows, DefaultsAre
    <3> QED
      BY <2>2, <3>2 DEF Kept
  <2> QED
    BY <2>1, <2>2
<1> HIDE DEF file, keys
<1>5. LoadProjectConfig(file).ok /\ LoadProjectConfig(file).config = Over(keys, Default)
  BY <1>3
<1> QED
  BY <1>4, <1>5 DEF file

\* The configuration that `config set' writes.
SetConfig == [LoadProjectConfig(suLast.was).config EXCEPT ![suLast.key] = suLast.value]

LastSet ==
  suLast.op = "set" /\ suLast.ok =>
    /\ suLast.key \in ConfigKeys /\ LoadProjectConfig(suLast.was).ok
    /\ WellTyped([j \in {suLast.key} |-> suLast.value])
    /\ ValidateProjectConfig(SetConfig)
    /\ suConfig = SaveProjectConfig(SetConfig)

InitConfig == MergedConfig(suLast.was, suLast.value, suLast.project)

LastInit ==
  suLast.op = "init" /\ suLast.ok => WellTyped(InitConfig) /\ suConfig = SaveProjectConfig(InitConfig)

LastInv ==
  /\ "op" \in DOMAIN suLast /\ ConfigTyped(suLast.was)
  /\ LastSet /\ LastInit /\ RefusalsKeep

LEMMA LastInitially == SuInit => LastInv
<1> SUFFICES ASSUME SuInit PROVE LastInv
  OBVIOUS
<1>1. suLast = [op |-> "none", ok |-> FALSE, was |-> NoFile, key |-> "team", value |-> Unset,
                project |-> Unset]
  BY Zenon DEF SuInit
<1>2. ConfigTyped(NoFile)
  BY DEF ConfigTyped, NoFile
<1>3. /\ DOMAIN suLast = {"op", "ok", "was", "key", "value", "project"}
      /\ suLast.op = "none" /\ suLast.was = NoFile
  BY <1>1
<1> QED
  BY <1>2, <1>3 DEF LastInv, LastSet, LastInit, RefusalsKeep

\* Only these commands change the configuration or the record of the last one.
LEMMA LastStays == LastInv /\ UNCHANGED << suConfig, suLast >> => LastInv'
  BY DEF LastInv, LastSet, LastInit, RefusalsKeep, SetConfig, InitConfig

LEMMA UpdateKeepsLast ==
  ASSUME SuInv, NEW k \in ConfigKeys, NEW v, UpdateProjectConfig(k, v)
  PROVE  LastInv'
<1> DEFINE old == LoadProjectConfig(suConfig)
           new == [old.config EXCEPT ![k] = v]
           ok == old.ok /\ WellTyped([j \in {k} |-> v]) /\ ValidateProjectConfig(new)
<1>1. /\ suConfig' = IF ok THEN SaveProjectConfig(new) ELSE suConfig
      /\ suLast' = [op |-> "set", ok |-> ok, was |-> suConfig, key |-> k, value |-> v, project |-> Unset]
  BY Zenon DEF UpdateProjectConfig
<1>2. /\ DOMAIN suLast' = {"op", "ok", "was", "key", "value", "project"}
      /\ suLast'.op = "set" /\ suLast'.ok = ok /\ suLast'.was = suConfig /\ suLast'.key = k
      /\ suLast'.value = v
  <2> HIDE DEF ok
  <2> QED
    BY <1>1
<1>3. SetConfig' = new
  BY <1>2 DEF SetConfig
<1>4. ConfigTyped(suConfig)
  BY DEF SuInv, ConfigTyped
<1>5. LastSet'
  BY <1>1, <1>2, <1>3 DEF LastSet
<1>6. LastInit' /\ RefusalsKeep'
  <2> HIDE DEF ok, new
  <2> QED
    BY <1>1, <1>2 DEF LastInit, RefusalsKeep
<1> QED
  BY <1>2, <1>4, <1>5, <1>6 DEF LastInv

LEMMA InitKeepsLast ==
  ASSUME SuInv, NEW team, NEW project, NEW force, InitProject(team, project, force)
  PROVE  LastInv'
<1> DEFINE merged == MergedConfig(suConfig, team, project)
           ok == (suConfig.text = "absent" \/ force) /\ WellTyped(merged)
<1>1. /\ suConfig' = IF ok THEN SaveProjectConfig(merged) ELSE suConfig
      /\ suLast' = [op |-> "init", ok |-> ok, was |-> suConfig, key |-> "team", value |-> team,
                    project |-> project]
  BY Zenon DEF InitProject
<1>2. /\ DOMAIN suLast' = {"op", "ok", "was", "key", "value", "project"}
      /\ suLast'.op = "init" /\ suLast'.ok = ok /\ suLast'.was = suConfig
      /\ suLast'.value = team /\ suLast'.project = project
  <2> HIDE DEF ok
  <2> QED
    BY <1>1
<1>3. InitConfig' = merged
  BY <1>2 DEF InitConfig
<1>4. ConfigTyped(suConfig)
  BY DEF SuInv, ConfigTyped
<1>5. LastInit'
  BY <1>1, <1>2, <1>3 DEF LastInit
<1>6. LastSet' /\ RefusalsKeep'
  <2> HIDE DEF ok, merged
  <2> QED
    BY <1>1, <1>2 DEF LastSet, RefusalsKeep
<1> QED
  BY <1>2, <1>4, <1>5, <1>6 DEF LastInv

LEMMA EditKeepsLast == ASSUME LastInv, EditConfig PROVE LastInv'
<1>1. suLast' = [suLast EXCEPT !.op = "none"]
  BY Zenon DEF EditConfig
<1>2. DOMAIN suLast' = DOMAIN suLast /\ suLast'.op = "none" /\ suLast'.was = suLast.was
  BY <1>1 DEF LastInv
<1> QED
  BY <1>2 DEF LastInv, LastSet, LastInit, RefusalsKeep

LEMMA LastStepKeep == SuInv /\ LastInv /\ [SuNext]_suVars => LastInv'
<1> SUFFICES ASSUME SuInv, LastInv, [SuNext]_suVars PROVE LastInv'
  OBVIOUS
<1>1. CASE EditIgnore
  BY <1>1, LastStays, Zenon DEF EditIgnore
<1>2. ASSUME NEW force \in BOOLEAN, GenerateMCPConfig(force) PROVE LastInv'
  BY <1>2, LastStays, Zenon DEF GenerateMCPConfig
<1>3. CASE ReadRootConfig \/ UpsertRootMCPConfig \/ GenerateClaudeSettings
  BY <1>3, LastStays, Zenon DEF ReadRootConfig, UpsertRootMCPConfig, GenerateClaudeSettings
<1>4. CASE SiblingUpserts \/ UserEditsServers
  BY <1>4, LastStays, Zenon DEF SiblingUpserts, UserEditsServers
<1>5. CASE UNCHANGED suVars
  BY <1>5, LastStays, Zenon DEF suVars
<1> QED
  BY <1>1, <1>2, <1>3, <1>4, <1>5, UpdateKeepsLast, InitKeepsLast, EditKeepsLast DEF SuNext

LEMMA SetIsOfOneKey == LastInv => SetChangesOneKey
<1> DEFINE before == LoadProjectConfig(suLast.was).config
           now == LoadProjectConfig(suConfig)
<1> SUFFICES ASSUME LastInv, suLast.op = "set" /\ suLast.ok
             PROVE  /\ now.ok /\ ValidateProjectConfig(now.config)
                    /\ now.config[suLast.key] = Kept(suLast.key, suLast.value)
                    /\ \A k \in ConfigKeys \ {suLast.key} : now.config[k] = Kept(k, before[k])
  BY DEF SetChangesOneKey
<1> DEFINE k == suLast.key
           v == suLast.value
<1>1. /\ k \in ConfigKeys /\ LoadProjectConfig(suLast.was).ok
      /\ WellTyped([j \in {k} |-> v]) /\ ValidateProjectConfig(SetConfig)
      /\ suConfig = SaveProjectConfig(SetConfig) /\ ConfigTyped(suLast.was)
  BY DEF LastInv, LastSet
<1>2. DOMAIN before = ConfigKeys /\ before["workers"] # "many"
  BY <1>1, LoadedIs DEF FullConfig
<1>3. SetConfig = [before EXCEPT ![k] = v]
  BY DEF SetConfig
<1>4. SetConfig[k] = v /\ \A j \in ConfigKeys \ {k} : SetConfig[j] = before[j]
  <2> HIDE DEF before, k, v
  <2> QED
    BY <1>1, <1>2, <1>3
<1>5. SetConfig["workers"] # "many"
  <2>1. CASE k = "workers"
    <3>1. ~ ([j \in {k} |-> v][k] = "many")
      BY <1>1, <2>1 DEF WellTyped
    <3> QED
      BY <1>4, <2>1, <3>1
  <2>2. CASE k # "workers"
    <3>1. "workers" \in ConfigKeys
      BY DEF ConfigKeys
    <3> QED
      BY <1>2, <1>4, <2>2, <3>1
  <2> QED
    BY <2>1, <2>2
<1>6. now.ok /\ \A j \in ConfigKeys : now.config[j] = Kept(j, SetConfig[j])
  BY <1>1, <1>5, WrittenIsRead
<1> HIDE DEF now, before, k, v
<1>7. ValidateProjectConfig(now.config)
  <2>1. "no_dev" \in ConfigKeys /\ "dev_cmd" \in ConfigKeys
    BY DEF ConfigKeys
  <2>2. CASE SetConfig.no_dev = "true"
    <3>1. now.config.no_dev = "true"
      BY <1>6, <2>1, <2>2, DefaultsAre DEF Kept
    <3> QED
      BY <3>1 DEF ValidateProjectConfig
  <2>3. CASE SetConfig.dev_cmd # Unset
    <3>1. now.config.dev_cmd = SetConfig.dev_cmd
      BY <1>6, <2>1, <2>3, DefaultsAre DEF Kept
    <3> QED
      BY <2>3, <3>1 DEF ValidateProjectConfig
  <2> QED
    BY <1>1, <2>2, <2>3 DEF ValidateProjectConfig
<1> QED
  BY <1>1, <1>4, <1>6, <1>7 DEF k, v

\* What an init merges: the flags with a team, then the file, then the defaults.
LEMMA MergedIs ==
  ASSUME NEW keys, DOMAIN keys \subseteq ConfigKeys, NEW file, file.keys = keys, NEW team, NEW project
  PROVE  /\ \A k \in ConfigKeys \ {"team", "project"} :
              MergedConfig(file, team, project)[k] = Over(keys, Default)[k]
         /\ DOMAIN keys \ {"team", "project"} \subseteq DOMAIN MergedConfig(file, team, project)
         /\ "workers" \in DOMAIN MergedConfig(file, team, project)
         /\ team # Unset => /\ MergedConfig(file, team, project)["team"] = team
                            /\ MergedConfig(file, team, project)["project"] = project
         /\ team = Unset => /\ MergedConfig(file, team, project)["team"] = Over(keys, Default)["team"]
                            /\ "project" \in DOMAIN keys =>
                                 MergedConfig(file, team, project)["project"] = keys["project"]
<1> DEFINE flagged == [Default EXCEPT !.team = team, !.project = project]
           lower == Over(keys, flagged)
           merged == MergedConfig(file, team, project)
<1>1. /\ "team" \in ConfigKeys /\ "project" \in ConfigKeys /\ "workers" \in ConfigKeys
  BY DEF ConfigKeys
<1>2. /\ DOMAIN flagged = ConfigKeys /\ flagged["team"] = team
      /\ \A k \in ConfigKeys \ {"team", "project"} : flagged[k] = Default[k]
  BY <1>1, DefaultsAre
<1> HIDE DEF flagged
<1>3. /\ DOMAIN lower = ConfigKeys
      /\ \A k \in DOMAIN keys : lower[k] = keys[k]
      /\ \A k \in ConfigKeys \ DOMAIN keys : lower[k] = flagged[k]
  BY <1>2, OverIs, GivenWins, BelowShows
<1>4. \A k \in ConfigKeys \ {"team", "project"} : lower[k] = Over(keys, Default)[k]
  <2>1. ASSUME NEW k \in ConfigKeys \ {"team", "project"} PROVE lower[k] = Over(keys, Default)[k]
    <3>1. CASE k \in DOMAIN keys
      BY <1>3, <3>1, GivenWins
    <3>2. CASE k \notin DOMAIN keys
      BY <1>2, <1>3, <3>2, BelowShows, DefaultsAre
    <3> QED
      BY <3>1, <3>2
  <2> QED
    BY <2>1
<1>5. team = Unset => lower["team"] = Over(keys, Default)["team"]
  <2>1. CASE "team" \in DOMAIN keys
    BY <1>3, <2>1, GivenWins
  <2>2. CASE "team" \notin DOMAIN keys
    BY <1>1, <1>2, <1>3, <2>2, BelowShows, DefaultsAre
  <2> QED
    BY <2>1, <2>2
<1> HIDE DEF lower
<1>6. CASE team = Unset
  <2>1. merged = Over(<< >>, lower)
    BY <1>6, Zenon DEF MergedConfig, lower, flagged
  <2>2. DOMAIN << >> = {}
    OBVIOUS
  <2>3. DOMAIN merged = ConfigKeys /\ \A k \in ConfigKeys : merged[k] = lower[k]
    <3> DEFINE none == << >>
    <3>1. DOMAIN none = {} /\ merged = Over(none, lower)
      BY <2>1, <2>2
    <3> HIDE DEF none, merged
    <3>2. DOMAIN merged = ConfigKeys
      <4>1. DOMAIN merged = DOMAIN none \union DOMAIN lower
        BY <3>1, OverIs
      <4> QED
        BY <1>3, <3>1, <4>1
    <3>3. ASSUME NEW k \in ConfigKeys PROVE merged[k] = lower[k]
      BY <1>3, <3>1, BelowShows
    <3> QED
      BY <3>2, <3>3
  <2> HIDE DEF merged
  <2> QED
    BY <1>1, <1>3, <1>4, <1>5, <1>6, <2>3 DEF merged
<1>7. CASE team # Unset
  <2> DEFINE given == [team |-> team, project |-> project]
  <2>1. merged = Over(given, lower)
    BY <1>7, Zenon DEF MergedConfig, lower, flagged
  <2>2. DOMAIN given = {"team", "project"} /\ given["team"] = team /\ given["project"] = project
    OBVIOUS
  <2> HIDE DEF given
  <2>3. /\ DOMAIN merged = ConfigKeys /\ merged["team"] = team /\ merged["project"] = project
        /\ \A k \in ConfigKeys \ {"team", "project"} : merged[k] = lower[k]
    <3> HIDE DEF merged
    <3>1. DOMAIN merged = ConfigKeys
      BY <1>1, <1>3, <2>1, <2>2, OverIs
    <3>2. merged["team"] = team
      BY <2>1, <2>2, GivenWins
    <3>3. merged["project"] = project
      BY <2>1, <2>2, GivenWins
    <3>4. ASSUME NEW k \in ConfigKeys \ {"team", "project"} PROVE merged[k] = lower[k]
      BY <1>3, <2>1, <2>2, BelowShows
    <3> QED
      BY <3>1, <3>2, <3>3, <3>4
  <2> HIDE DEF merged
  <2> QED
    BY <1>1, <1>3, <1>4, <1>7, <2>3 DEF merged
<1> QED
  BY <1>6, <1>7

LEMMA InitIsKeeping == LastInv => InitKeepsSettings
<1> DEFINE before == LoadProjectConfig(suLast.was).config
           now == LoadProjectConfig(suConfig)
           keys == suLast.was.keys
           team == suLast.value
           project == suLast.project
<1> SUFFICES ASSUME LastInv, suLast.op = "init" /\ suLast.ok /\ suLast.was.text = "yaml"
             PROVE  /\ now.ok
                    /\ \A k \in ConfigKeys \ {"team", "project"} : now.config[k] = Kept(k, before[k])
                    /\ team # Unset => now.config.team = team /\ now.config.project = project
                    /\ team = Unset => now.config.team = before.team
                    /\ team = Unset /\ "project" \in DOMAIN keys => now.config.project = before.project
  BY Zenon DEF InitKeepsSettings
<1>1. /\ WellTyped(InitConfig) /\ suConfig = SaveProjectConfig(InitConfig)
      /\ InitConfig = MergedConfig(suLast.was, team, project)
      /\ DOMAIN keys \subseteq ConfigKeys
  BY DEF LastInv, LastInit, InitConfig, ConfigTyped
<1> HIDE DEF keys
<1>2. /\ \A k \in ConfigKeys \ {"team", "project"} : InitConfig[k] = Over(keys, Default)[k]
      /\ DOMAIN keys \ {"team", "project"} \subseteq DOMAIN InitConfig
      /\ "workers" \in DOMAIN InitConfig
      /\ team # Unset => InitConfig["team"] = team /\ InitConfig["project"] = project
      /\ team = Unset => /\ InitConfig["team"] = Over(keys, Default)["team"]
                         /\ "project" \in DOMAIN keys => InitConfig["project"] = keys["project"]
  <2>1. suLast.was.keys = keys
    BY DEF keys
  <2> HIDE DEF team, project
  <2> QED
    BY <1>1, <2>1, MergedIs
<1>3. /\ "team" \in ConfigKeys /\ "project" \in ConfigKeys /\ "workers" \in ConfigKeys
      /\ "workers" \notin {"team", "project"}
  BY DEF ConfigKeys
<1>4. InitConfig["workers"] # "many"
  BY <1>1, <1>2 DEF WellTyped
<1>5. before = Over(keys, Default)
  <2>1. WellTyped(keys)
    <3>1. SUFFICES ASSUME "workers" \in DOMAIN keys, keys["workers"] = "many" PROVE FALSE
      BY DEF WellTyped
    <3>2. Over(keys, Default)["workers"] = keys["workers"]
      BY <3>1, GivenWins
    <3>3. InitConfig["workers"] = Over(keys, Default)["workers"]
      BY <1>2, <1>3
    <3> QED
      BY <1>4, <3>1, <3>2, <3>3
  <2>2. suLast.was.keys = keys
    BY DEF keys
  <2>3. LoadProjectConfig(suLast.was) = [ok |-> TRUE, config |-> Over(keys, Default)]
    BY <2>1, <2>2 DEF LoadProjectConfig
  <2> QED
    BY <2>3
<1>6. now.ok /\ \A k \in ConfigKeys : now.config[k] = Kept(k, InitConfig[k])
  BY <1>1, <1>4, WrittenIsRead
<1>7. \A x : Kept("team", x) = x /\ Kept("project", x) = x
  BY DefaultsAre DEF Kept
<1>8. "project" \in DOMAIN keys => Over(keys, Default)["project"] = keys["project"]
  BY GivenWins
<1> HIDE DEF now, before, team, project
<1> QED
  BY <1>2, <1>3, <1>5, <1>6, <1>7, <1>8

-----------------------------------------------------------------------------
(* What is in .gitignore. *)

EntriesOf(w) == {l.entry : l \in w.ignore}

IgnoreOK(w) ==
  /\ {"dirs", "skills", "ignore", "writable"} \subseteq DOMAIN w /\ w.writable
  /\ EntriesOf(w) \subseteq IgnoredEntries
  /\ "events" \in w.dirs => EntriesOf(w) = IgnoredEntries

LEMMA EntryOfLine == ASSUME NEW mark, NEW entry PROVE [mark |-> mark, entry |-> entry].entry = entry
  OBVIOUS

LEMMA IgnoreValidated == ASSUME NEW w, IgnoreOK(w) PROVE IgnoreOK(ValidateContinent(w).world)
<1> DEFINE a == EnsureStateDir(w)
           b == SyncSkills(a)
           c == EnsureGitignoreEntries(b)
<1>1. ValidateContinent(w).world = c
  BY DEF ValidateContinent, Validated, IgnoreOK
<1>2. /\ DOMAIN a = DOMAIN w /\ a.ignore = w.ignore /\ a.writable = w.writable
  <2>1. a = [w EXCEPT !.dirs = w.dirs \union StateDirs]
    BY DEF EnsureStateDir
  <2>2. "dirs" \in DOMAIN w
    BY DEF IgnoreOK
  <2> HIDE DEF a
  <2> QED
    BY <2>1, <2>2
<1>3. DOMAIN b = DOMAIN a /\ b.ignore = a.ignore /\ b.writable = a.writable
  <2>1. PICK x : b = [a EXCEPT !.skills = x]
    BY Zenon DEF SyncSkills
  <2> HIDE DEF a, b
  <2> QED
    BY <2>1
<1> HIDE DEF a, b
<1> DEFINE new == {[mark |-> "", entry |-> e] : e \in IgnoredEntries \ EntriesOf(b)}
<1>4. c = [b EXCEPT !.ignore = b.ignore \union new]
  BY Zenon DEF EnsureGitignoreEntries, EntriesOf
<1>5. {l.entry : l \in new} = IgnoredEntries \ EntriesOf(b)
  BY EntryOfLine, Zenon
<1> HIDE DEF new, c
<1>6. DOMAIN c = DOMAIN b /\ c.ignore = b.ignore \union new /\ c.writable = b.writable
  BY <1>2, <1>3, <1>4 DEF IgnoreOK
<1>7. EntriesOf(c) = EntriesOf(b) \union {l.entry : l \in new}
  BY <1>6, Zenon DEF EntriesOf
<1>8. EntriesOf(b) = EntriesOf(w)
  BY <1>2, <1>3 DEF EntriesOf
<1>9. EntriesOf(c) = IgnoredEntries
  <2>1. EntriesOf(w) \subseteq IgnoredEntries
    BY DEF IgnoreOK
  <2> QED
    BY <1>5, <1>7, <1>8, <2>1
<1>10. {"dirs", "skills", "ignore", "writable"} \subseteq DOMAIN c /\ c.writable
  BY <1>2, <1>3, <1>6 DEF IgnoreOK
<1> QED
  BY <1>1, <1>9, <1>10 DEF IgnoreOK

LEMMA IgnoreStays ==
  ASSUME NEW w, IgnoreOK(w) PROVE IgnoreOK([w EXCEPT !.dirs = @ \union {"root"}])
<1> DEFINE v == [w EXCEPT !.dirs = w.dirs \union {"root"}]
<1>1. "dirs" \in DOMAIN w
  BY DEF IgnoreOK
<1>2. /\ DOMAIN v = DOMAIN w /\ v.ignore = w.ignore /\ v.writable = w.writable
      /\ v.dirs = w.dirs \union {"root"}
  BY <1>1
<1> HIDE DEF v
<1>3. EntriesOf(v) = EntriesOf(w)
  BY <1>2 DEF EntriesOf
<1>4. IgnoreOK(v)
  BY <1>2, <1>3 DEF IgnoreOK
<1> QED
  BY <1>4 DEF v

LEMMA IgnoreEdited == ASSUME IgnoreOK(suContinent), EditIgnore PROVE IgnoreOK(suContinent')
<1> DEFINE left == {l \in suContinent.ignore : l.entry # "events/"}
<1>1. PICK mark : suContinent' = [suContinent EXCEPT !.dirs = suContinent.dirs \union {"root"},
                                  !.ignore = left \union {[mark |-> mark, entry |-> "events/"]}]
  BY Zenon DEF EditIgnore
<1> DEFINE more == {[mark |-> mark, entry |-> "events/"]}
<1>2. {l.entry : l \in more} = {"events/"}
  BY EntryOfLine, Zenon
<1>3. {l.entry : l \in left} = EntriesOf(suContinent) \ {"events/"}
  BY Zenon DEF EntriesOf
<1> HIDE DEF left, more
<1>4. suContinent' = [suContinent EXCEPT !.dirs = suContinent.dirs \union {"root"}, !.ignore = left \union more]
  BY <1>1 DEF more
<1>5. /\ DOMAIN suContinent' = DOMAIN suContinent
      /\ suContinent'.ignore = left \union more /\ suContinent'.writable = suContinent.writable
      /\ suContinent'.dirs = suContinent.dirs \union {"root"}
  BY <1>4 DEF IgnoreOK
<1>6. EntriesOf(suContinent') = {l.entry : l \in left} \union {l.entry : l \in more}
  BY <1>5, Zenon DEF EntriesOf
<1>7. EntriesOf(suContinent') = (EntriesOf(suContinent) \ {"events/"}) \union {"events/"}
  BY <1>2, <1>3, <1>6
<1>8. "events/" \in IgnoredEntries
  BY DEF IgnoredEntries
<1> QED
  BY <1>5, <1>7, <1>8 DEF IgnoreOK

LEMMA IgnoreInitially == SuInit => IgnoreOK(suContinent)
<1> SUFFICES ASSUME SuInit PROVE IgnoreOK(suContinent)
  OBVIOUS
<1>1. suContinent = NoContinent
  BY Zenon DEF SuInit
<1>2. /\ DOMAIN NoContinent = {"dirs", "skills", "ignore", "writable"}
      /\ NoContinent.dirs = {} /\ NoContinent.ignore = {} /\ NoContinent.writable
  BY DEF NoContinent
<1>3. EntriesOf(NoContinent) = {}
  BY <1>2 DEF EntriesOf
<1> QED
  BY <1>1, <1>2, <1>3 DEF IgnoreOK

LEMMA IgnoreStepKeep == IgnoreOK(suContinent) /\ [SuNext]_suVars => IgnoreOK(suContinent)'
<1> SUFFICES ASSUME IgnoreOK(suContinent), [SuNext]_suVars PROVE IgnoreOK(suContinent')
  BY DEF IgnoreOK, EntriesOf
<1>1. ASSUME NEW k \in ConfigKeys, NEW v \in Tried[k], UpdateProjectConfig(k, v) PROVE IgnoreOK(suContinent')
  <2>1. suContinent' = [suContinent EXCEPT !.dirs = @ \union {"root"}] \/ suContinent' = suContinent
    BY <1>1, Zenon DEF UpdateProjectConfig
  <2> QED
    BY <2>1, IgnoreStays
<1>2. ASSUME NEW team, NEW project, NEW force, InitProject(team, project, force) PROVE IgnoreOK(suContinent')
  <2>1. suContinent' = ValidateContinent(suContinent).world \/ suContinent' = suContinent
    BY <1>2, Zenon DEF InitProject
  <2> QED
    BY <2>1, IgnoreValidated
<1>3. ASSUME EditConfig \/ UNCHANGED suVars PROVE suContinent' = suContinent
  BY <1>3, Zenon DEF EditConfig, suVars
<1>4. ASSUME NEW force \in BOOLEAN, GenerateMCPConfig(force) PROVE suContinent' = suContinent
  BY <1>4, Zenon DEF GenerateMCPConfig
<1>5. ASSUME ReadRootConfig \/ UpsertRootMCPConfig \/ GenerateClaudeSettings PROVE suContinent' = suContinent
  BY <1>5, Zenon DEF ReadRootConfig, UpsertRootMCPConfig, GenerateClaudeSettings
<1>6. ASSUME SiblingUpserts \/ UserEditsServers PROVE suContinent' = suContinent
  BY <1>6, Zenon DEF SiblingUpserts, UserEditsServers
<1> QED
  BY <1>1, <1>2, <1>3, <1>4, <1>5, <1>6, IgnoreEdited DEF SuNext

\* Whatever the user writes in the files between the commands: `config set'
\* changes its key and no other, `init --force' keeps what was set, what is
\* refused changes nothing, and every entry is in .gitignore once all
\* directories are there (init.go, project_config.go, claude_wiring.go).
THEOREM SetupIsSound == SuSpec => []SetupSound
<1>1. SuInit => SuInv /\ LastInv /\ IgnoreOK(suContinent)
  BY SuInitially, LastInitially, IgnoreInitially
<1>2. SuInv /\ LastInv /\ IgnoreOK(suContinent) /\ [SuNext]_suVars
      => SuInv' /\ LastInv' /\ IgnoreOK(suContinent)'
  BY SuStepKeeps, LastStepKeep, IgnoreStepKeep
<1>3. SuInv /\ LastInv /\ IgnoreOK(suContinent) => SetupSound
  <2> SUFFICES ASSUME LastInv, IgnoreOK(suContinent) PROVE SetupSound
    OBVIOUS
  <2>1. IgnoredOrMentioned
    <3>1. "events" \in StateDirs
      BY DEF StateDirs
    <3> QED
      BY <3>1 DEF IgnoredOrMentioned, IgnoreOK, EntriesOf
  <2>2. RefusalsKeep
    BY DEF LastInv
  <2> QED
    BY <2>1, <2>2, SetIsOfOneKey, InitIsKeeping DEF SetupSound
<1> QED
  BY <1>1, <1>2, <1>3, PTL DEF SuSpec

(***************************************************************************)
(* The review gate.                                                        *)
(***************************************************************************)

RvBlock == [kind : GateKinds \union {"section", "sub"}, by : 0 .. RvEdits]

Gates(body) == {i \in DOMAIN body : body[i].kind \in GateKinds}
After(body) == {j \in DOMAIN body : j > Min(Gates(body)) /\ body[j].kind \in {"gate", "section"}}

GateIsOne(body) == \A i, j \in DOMAIN body : body[i].kind = "gate" /\ body[j].kind = "gate" => i = j

\* The sections of others in a body that an update must keep.
Others(body) ==
  {i \in DOMAIN body : body[i].kind = "section" \/ \A j \in 1 .. i : body[j].kind \notin GateKinds}

RvKept(body, next) == \A i \in Others(body) : \E k \in DOMAIN next : next[k] = body[i]

\* The three parts of what an update writes.
LEMMA GateReplaced ==
  ASSUME NEW body \in Seq(RvBlock), NEW section \in RvBlock, Gates(body) # {}
  PROVE  LET at == Min(Gates(body))
             new == [kind |-> body[at].kind, by |-> section.by]
             r == AppendReviewGateSection(body, section)
         IN  /\ at \in 1 .. Len(body) /\ Len(body) \in Nat /\ r \in Seq(RvBlock)
             /\ body[at].kind \in GateKinds
             /\ \A i \in 1 .. at - 1 : body[i].kind \notin GateKinds
             /\ \A k \in 1 .. at - 1 : k \in DOMAIN r /\ r[k] = body[k]
             /\ at \in DOMAIN r /\ r[at] = new
             /\ After(body) = {} => DOMAIN r = 1 .. at
             /\ After(body) # {} =>
                  LET m == Min(After(body))
                  IN  /\ m \in 1 .. Len(body) /\ at < m /\ \A j \in After(body) : m <= j
                      /\ DOMAIN r = 1 .. at + Len(body) - m + 1
                      /\ \A i \in m .. Len(body) : r[at + 1 + i - m] = body[i]
<1> DEFINE n == Len(body)
           at == Min(Gates(body))
           m == Min(After(body))
           new == [kind |-> body[at].kind, by |-> section.by]
           front == SubSeq(body, 1, at - 1)
           back == IF After(body) = {} THEN << >> ELSE SubSeq(body, m, n)
           r == AppendReviewGateSection(body, section)
<1>1. n \in Nat /\ DOMAIN body = 1 .. n
  OBVIOUS
<1>2. Gates(body) \subseteq 1 .. n /\ After(body) \subseteq 1 .. n
  BY <1>1 DEF Gates, After
<1>3. at \in Gates(body) /\ \A i \in Gates(body) : at <= i
  BY <1>2, SmallestOf
<1>4. at \in 1 .. n /\ body[at].kind \in GateKinds /\ at \in Nat /\ at >= 1 /\ n \in Nat
  BY <1>1, <1>3 DEF Gates
<1>5. ASSUME NEW i \in 1 .. at - 1 PROVE body[i].kind \notin GateKinds
  <2>1. i \in DOMAIN body /\ ~ (at <= i)
    BY <1>1, <1>4
  <2>2. i \notin Gates(body)
    BY <1>3, <2>1
  <2> QED
    BY <2>1, <2>2 DEF Gates
<1>6. r = front \o << new >> \o back
  BY DEF AppendReviewGateSection, Gates, After
<1>7. new \in RvBlock
  BY <1>4 DEF RvBlock
<1>8. After(body) # {} => m \in Nat /\ m \in 1 .. n /\ at < m /\ \A j \in After(body) : m <= j
  <2>1. SUFFICES ASSUME After(body) # {} PROVE m \in After(body) /\ \A j \in After(body) : m <= j
    BY <1>1, <1>4 DEF After
  <2>2. After(body) \subseteq Nat
    BY <1>2
  <2> QED
    BY <2>1, <2>2, SmallestOf
<1> HIDE DEF at, m, new, r, n
<1>9. front \in Seq(RvBlock) /\ Len(front) = at - 1 /\ \A k \in 1 .. at - 1 : front[k] = body[k]
  BY <1>1, <1>4 DEF n
<1>10. /\ back \in Seq(RvBlock)
       /\ After(body) = {} => Len(back) = 0
       /\ After(body) # {} => Len(back) = n - m + 1 /\ \A i \in m .. n : back[i - m + 1] = body[i]
  <2>1. CASE After(body) = {}
    BY <2>1
  <2>2. CASE After(body) # {}
    BY <1>1, <1>8, <2>2 DEF n
  <2> QED
    BY <2>1, <2>2
<1> HIDE DEF front, back
<1>11. /\ r \in Seq(RvBlock) /\ Len(r) = at + Len(back)
       /\ \A k \in 1 .. at - 1 : r[k] = front[k]
       /\ r[at] = new
       /\ \A k \in 1 .. Len(back) : r[at + k] = back[k]
  <2> DEFINE q == front \o << new >>
  <2>1. << new >> \in Seq(RvBlock) /\ Len(<< new >>) = 1 /\ << new >>[1] = new
    BY <1>7
  <2>2. /\ q \in Seq(RvBlock) /\ Len(q) = at /\ q[at] = new
        /\ \A k \in 1 .. at - 1 : q[k] = front[k]
    <3>1. at - 1 \in Nat /\ (at - 1) + 1 = at /\ front \in Seq(RvBlock) /\ Len(front) = at - 1
      BY <1>4, <1>9
    <3>2. q = Append(front, new)
      BY <2>1, <3>1
    <3>3. q \in Seq(RvBlock) /\ Len(q) = at
      BY <1>7, <3>1, <3>2
    <3> HIDE DEF q
    <3>4. q[at] = new /\ \A k \in 1 .. at - 1 : q[k] = front[k]
      <4>1. /\ Append(front, new)[Len(front) + 1] = new
            /\ \A k \in 1 .. Len(front) : Append(front, new)[k] = front[k]
        BY <1>7, <3>1, Appended
      <4> QED
        BY <3>1, <3>2, <4>1
    <3> QED
      BY <3>3, <3>4
  <2>3. r = q \o back
    BY <1>6
  <2> HIDE DEF q
  <2>4. Len(back) \in Nat /\ DOMAIN q = 1 .. at /\ DOMAIN back = 1 .. Len(back)
    BY <1>10, <2>2
  <2>5. r \in Seq(RvBlock) /\ Len(r) = at + Len(back)
    <3>1. q \in Seq(RvBlock) /\ back \in Seq(RvBlock)
      BY <1>10, <2>2
    <3>2. q \o back \in Seq(RvBlock) /\ Len(q \o back) = Len(q) + Len(back)
      BY ONLY <3>1
    <3> QED
      BY ONLY <2>2, <2>3, <3>2
  <2>6. \A k \in 1 .. at : r[k] = q[k]
    BY <1>4, <1>10, <2>2, <2>3, <2>4
  <2>7. \A k \in 1 .. Len(back) : r[at + k] = back[k]
    BY <1>4, <1>10, <2>2, <2>3, <2>4
  <2> QED
    BY <1>4, <2>2, <2>5, <2>6, <2>7
<1>12. Len(back) \in Nat /\ DOMAIN r = 1 .. at + Len(back)
  BY <1>4, <1>10, <1>11
<1>13. \A k \in 1 .. at - 1 : k \in DOMAIN r /\ r[k] = body[k]
  BY <1>4, <1>9, <1>11, <1>12
<1>14. at \in DOMAIN r
  BY <1>4, <1>12
<1>15. After(body) = {} => DOMAIN r = 1 .. at
  BY <1>4, <1>10, <1>12
<1>16. After(body) # {} => DOMAIN r = 1 .. at + n - m + 1
  BY <1>4, <1>8, <1>10, <1>12
<1>17. ASSUME After(body) # {}, NEW i \in m .. n PROVE r[at + 1 + i - m] = body[i]
  <2>1. i - m + 1 \in 1 .. Len(back) /\ back[i - m + 1] = body[i]
    BY <1>1, <1>8, <1>10, <1>17
  <2>2. r[at + (i - m + 1)] = body[i]
    BY <1>11, <2>1
  <2>3. at + (i - m + 1) = at + 1 + i - m
    BY <1>1, <1>4, <1>8, <1>17
  <2> QED
    BY <2>2, <2>3
<1> QED
  BY <1>1, <1>4, <1>5, <1>8, <1>11, <1>13, <1>14, <1>15, <1>16, <1>17 DEF at, m, new, r, n

LEMMA NoGates ==
  ASSUME NEW body \in Seq(RvBlock), NEW section \in RvBlock, Gates(body) = {}
  PROVE  AppendReviewGateSection(body, section) = Append(body, section)
  BY DEF AppendReviewGateSection, Gates

LEMMA UpdateKeeps ==
  ASSUME NEW body \in Seq(RvBlock), NEW section \in RvBlock
  PROVE  /\ AppendReviewGateSection(body, section) \in Seq(RvBlock)
         /\ RvKept(body, AppendReviewGateSection(body, section))
<1> DEFINE r == AppendReviewGateSection(body, section)
           n == Len(body)
<1>1. n \in Nat /\ DOMAIN body = 1 .. n
  OBVIOUS
<1>2. CASE Gates(body) = {}
  <2>1. r = Append(body, section)
    BY <1>2, NoGates
  <2> HIDE DEF r
  <2>2. r \in Seq(RvBlock) /\ DOMAIN r = 1 .. n + 1 /\ \A i \in 1 .. n : r[i] = body[i]
    BY <2>1
  <2>3. RvKept(body, r)
    BY <1>1, <2>2 DEF RvKept, Others
  <2> QED
    BY <2>2, <2>3 DEF r
<1>3. CASE Gates(body) # {}
  <2> DEFINE at == Min(Gates(body))
             m == Min(After(body))
  <2>1. /\ at \in 1 .. n /\ r \in Seq(RvBlock)
        /\ body[at].kind \in GateKinds
        /\ \A k \in 1 .. at - 1 : k \in DOMAIN r /\ r[k] = body[k]
        /\ After(body) # {} =>
                  /\ m \in 1 .. n /\ at < m /\ \A j \in After(body) : m <= j
                  /\ DOMAIN r = 1 .. at + n - m + 1
                  /\ \A i \in m .. n : r[at + 1 + i - m] = body[i]
    BY <1>3, GateReplaced, ZenonT(120)
  <2> HIDE DEF r, at, m, n
  <2>2. ASSUME NEW i \in Others(body) PROVE \E k \in DOMAIN r : r[k] = body[i]
    <3>1. i \in 1 .. n
      BY <1>1 DEF Others
    <3>2. CASE i < at
      BY <1>1, <2>1, <3>1, <3>2
    <3>3. CASE ~ (i < at)
      <4>1. at \in 1 .. i
        BY <1>1, <2>1, <3>1, <3>3
      <4>2. body[i].kind = "section"
        BY <2>1, <4>1 DEF Others
      <4>3. "section" \notin GateKinds
        BY DEF GateKinds
      <4>4. i > at
        BY <1>1, <2>1, <3>1, <3>3, <4>2, <4>3
      <4>5. i \in After(body)
        BY <1>1, <3>1, <4>2, <4>4 DEF After, at
      <4>6. i \in m .. n /\ at + 1 + i - m \in 1 .. at + n - m + 1
        BY <1>1, <2>1, <3>1, <4>5
      <4> QED
        BY <2>1, <4>5, <4>6
    <3> QED
      BY <3>2, <3>3
  <2> QED
    BY <2>1, <2>2 DEF RvKept, r
<1> QED
  BY <1>2, <1>3

\* An update adds a gate only where there is none.
LEMMA UpdateKeepsOne ==
  ASSUME NEW body \in Seq(RvBlock), NEW section \in RvBlock, GateIsOne(body)
  PROVE  GateIsOne(AppendReviewGateSection(body, section))
<1> DEFINE r == AppendReviewGateSection(body, section)
           n == Len(body)
<1>1. n \in Nat /\ DOMAIN body = 1 .. n
  OBVIOUS
<1>2. CASE Gates(body) = {}
  <2>1. r = Append(body, section)
    BY <1>2, NoGates
  <2> HIDE DEF r
  <2>2. DOMAIN r = 1 .. n + 1 /\ \A i \in 1 .. n : r[i] = body[i]
    BY <2>1
  <2>3. \A i \in 1 .. n : body[i].kind # "gate"
    BY <1>1, <1>2 DEF Gates, GateKinds
  <2>4. \A i \in DOMAIN r : r[i].kind = "gate" => i = n + 1
    BY <1>1, <2>2, <2>3
  <2> QED
    BY <2>4 DEF GateIsOne, r
<1>3. CASE Gates(body) # {}
  <2> DEFINE at == Min(Gates(body))
             m == Min(After(body))
             new == [kind |-> body[at].kind, by |-> section.by]
             From(k) == IF k <= at THEN k ELSE k - at - 1 + m
  <2>1. /\ at \in 1 .. n
        /\ \A k \in 1 .. at - 1 : k \in DOMAIN r /\ r[k] = body[k]
        /\ r[at] = new
        /\ After(body) = {} => DOMAIN r = 1 .. at
        /\ After(body) # {} =>
                  /\ m \in 1 .. n /\ at < m /\ \A j \in After(body) : m <= j
                  /\ DOMAIN r = 1 .. at + n - m + 1
                  /\ \A i \in m .. n : r[at + 1 + i - m] = body[i]
    BY <1>3, GateReplaced, ZenonT(120)
  <2>2. new.kind = body[at].kind
    OBVIOUS
  <2>0. \A k : (k <= at => From(k) = k) /\ (~ (k <= at) => From(k) = k - at - 1 + m)
    OBVIOUS
  <2> HIDE DEF r, at, m, n, new, From
  \* Every place of the new body comes from one of the old, with its kind.
  <2>3. ASSUME NEW k \in DOMAIN r PROVE From(k) \in 1 .. n /\ r[k].kind = body[From(k)].kind
    <3>0. k \in Int /\ k >= 1
      <4>1. CASE After(body) = {}
        BY <1>1, <2>1, <4>1
      <4>2. CASE After(body) # {}
        BY <1>1, <2>1, <4>2
      <4> QED
        BY <4>1, <4>2
    <3>1. CASE k < at
      <4>1. From(k) = k /\ k \in 1 .. n /\ k \in 1 .. at - 1
        <5>1. at \in Int /\ at <= n /\ n \in Nat
          BY <1>1, <2>1
        <5>2. k <= at /\ k \in 1 .. n /\ k \in 1 .. at - 1
          BY ONLY <3>0, <3>1, <5>1
        <5> QED
          BY <2>0, <5>2
      <4> QED
        BY <2>1, <4>1
    <3>2. CASE k = at
      <4>1. From(k) = k
        BY <1>1, <2>0, <2>1, <3>2
      <4> QED
        BY <2>1, <2>2, <3>2, <4>1
    <3>3. CASE ~ (k < at) /\ k # at
      <4>1. k \in Int /\ k > at /\ After(body) # {}
        BY <1>1, <2>1, <3>0, <3>3
      <4>2. From(k) = k - at - 1 + m /\ From(k) \in m .. n
        <5>1. From(k) = k - at - 1 + m
          BY <1>1, <2>0, <2>1, <4>1
        <5>2. k - at - 1 + m \in m .. n
          <6>1. k \in 1 .. at + n - m + 1 /\ k > at /\ m \in 1 .. n /\ at \in 1 .. n /\ n \in Nat
            BY <1>1, <2>1, <4>1
          <6> QED
            BY ONLY <6>1
        <5> QED
          BY <5>1, <5>2
      <4>3. r[at + 1 + From(k) - m] = body[From(k)]
        BY <2>1, <4>1, <4>2
      <4>4. at + 1 + From(k) - m = k
        <5>1. at \in Int /\ m \in Int
          BY <1>1, <2>1, <4>1
        <5>2. From(k) = k - at - 1 + m /\ k \in Int
          BY <4>1, <4>2
        <5> QED
          BY ONLY <5>1, <5>2
      <4>5. From(k) \in 1 .. n
        BY <1>1, <2>1, <4>1, <4>2
      <4> QED
        BY <4>3, <4>4, <4>5
    <3> QED
      BY <3>1, <3>2, <3>3
  <2>4. ASSUME NEW i \in DOMAIN r, NEW j \in DOMAIN r, From(i) = From(j) PROVE i = j
    <3>1. CASE After(body) = {}
      BY <1>1, <2>0, <2>1, <2>4, <3>1
    <3>2. CASE After(body) # {}
      <4>1. at \in Int /\ m \in Int /\ at < m /\ i \in Int /\ j \in Int
        BY <1>1, <2>1, <3>2
      <4>2. /\ i <= at => From(i) = i
            /\ ~ (i <= at) => From(i) = i - at - 1 + m
            /\ j <= at => From(j) = j
            /\ ~ (j <= at) => From(j) = j - at - 1 + m
        BY <2>0
      <4> QED
        BY ONLY <2>4, <4>1, <4>2
    <3> QED
      BY <3>1, <3>2
  <2>5. ASSUME NEW i \in DOMAIN r, NEW j \in DOMAIN r, r[i].kind = "gate", r[j].kind = "gate" PROVE i = j
    <3>1. From(i) = From(j)
      BY <1>1, <2>3, <2>5 DEF GateIsOne
    <3> QED
      BY <2>4, <3>1
  <2> QED
    BY <2>5 DEF GateIsOne, r
<1> QED
  BY <1>2, <1>3

RvInv ==
  /\ rvOutputs \in Seq(Seq(RvLine))
  /\ rvBody \in Seq(RvBlock) /\ GateIsOne(rvBody)
  /\ rvSeen \in [RvUpdater -> SUBSET Seq(RvBlock)]
  /\ \A u \in RvUpdater : \A b \in rvSeen[u] : GateIsOne(b) /\ \A c \in rvSeen[u] : b = c
  /\ rvBlocks \in 0 .. RvEdits

RvStep ==
  \A u \in RvUpdater : rvSeen'[u] = {} /\ rvBody' # rvBody =>
    \A body \in rvSeen[u] : \A i \in DOMAIN body :
      body[i].kind = "section" \/ (\A j \in 1 .. i : body[j].kind \notin GateKinds)
        => \E k \in DOMAIN rvBody' : rvBody'[k] = body[i]

LEMMA RvInitially == RvInit => RvInv
<1> SUFFICES ASSUME RvInit PROVE RvInv
  OBVIOUS
<1>1. rvOutputs = << >> /\ rvBody = << >> /\ rvBlocks = 0 /\ rvSeen = [u \in RvUpdater |-> {}]
  BY DEF RvInit
<1>2. << >> \in Seq(Seq(RvLine)) /\ << >> \in Seq(RvBlock) /\ DOMAIN << >> = {}
  OBVIOUS
<1>3. GateIsOne(rvBody)
  BY <1>1, <1>2 DEF GateIsOne
<1>4. 0 \in 0 .. RvEdits
  BY ReviewAssumption
<1> QED
  BY <1>1, <1>2, <1>3, <1>4 DEF RvInv

\* A block more, at either end, that is no gate.
LEMMA BlockAdded ==
  ASSUME NEW body \in Seq(RvBlock), NEW b \in RvBlock, b.kind # "gate", GateIsOne(body)
  PROVE  /\ << b >> \o body \in Seq(RvBlock) /\ GateIsOne(<< b >> \o body)
         /\ body \o << b >> \in Seq(RvBlock) /\ GateIsOne(body \o << b >>)
<1> DEFINE n == Len(body)
           f == << b >> \o body
           g == body \o << b >>
<1>1. n \in Nat /\ DOMAIN body = 1 .. n /\ << b >> \in Seq(RvBlock) /\ Len(<< b >>) = 1 /\ << b >>[1] = b
  OBVIOUS
<1>2. /\ f \in Seq(RvBlock) /\ DOMAIN f = 1 .. n + 1 /\ f[1] = b
      /\ \A i \in 2 .. n + 1 : f[i] = body[i - 1]
  BY <1>1
<1>3. /\ g \in Seq(RvBlock) /\ DOMAIN g = 1 .. n + 1 /\ g[n + 1] = b
      /\ \A i \in 1 .. n : g[i] = body[i]
  BY <1>1
<1> HIDE DEF f, g, n
<1>4. ASSUME NEW i \in DOMAIN f, NEW j \in DOMAIN f, f[i].kind = "gate", f[j].kind = "gate" PROVE i = j
  <2>1. i \in 2 .. n + 1 /\ j \in 2 .. n + 1
    BY <1>1, <1>2, <1>4
  <2>2. i - 1 \in DOMAIN body /\ j - 1 \in DOMAIN body /\ i \in Int /\ j \in Int
    BY <1>1, <2>1
  <2>3. i - 1 = j - 1
    BY <1>2, <1>4, <2>1, <2>2 DEF GateIsOne
  <2> QED
    BY <2>2, <2>3
<1>5. ASSUME NEW i \in DOMAIN g, NEW j \in DOMAIN g, g[i].kind = "gate", g[j].kind = "gate" PROVE i = j
  <2>1. i \in 1 .. n /\ j \in 1 .. n
    BY <1>1, <1>3, <1>5
  <2> QED
    BY <1>1, <1>3, <1>5, <2>1 DEF GateIsOne
<1> QED
  BY <1>2, <1>3, <1>4, <1>5 DEF GateIsOne, f, g

LEMMA RvStepKeeps == RvInv /\ [RvNext]_rvVars => RvInv' /\ RvStep
<1> SUFFICES ASSUME RvInv, [RvNext]_rvVars PROVE RvInv' /\ RvStep
  OBVIOUS
<1>1. ASSUME AddReviewLine PROVE RvInv' /\ RvStep
  <2>1. PICK line \in RvLine :
          \/ rvOutputs' = Append(rvOutputs, << line >>)
          \/ rvOutputs # << >> /\ rvOutputs' = [rvOutputs EXCEPT ![Len(rvOutputs)] = Append(@, line)]
    BY <1>1 DEF AddReviewLine
  <2>2. rvOutputs \in Seq(Seq(RvLine)) /\ << line >> \in Seq(RvLine)
    BY DEF RvInv
  <2>3. rvOutputs' \in Seq(Seq(RvLine))
    <3>1. CASE rvOutputs' = Append(rvOutputs, << line >>)
      BY <2>2, <3>1
    <3>2. CASE rvOutputs # << >> /\ rvOutputs' = [rvOutputs EXCEPT ![Len(rvOutputs)] = Append(@, line)]
      <4>1. Len(rvOutputs) \in DOMAIN rvOutputs /\ rvOutputs[Len(rvOutputs)] \in Seq(RvLine)
        BY <2>2, <3>2
      <4>2. Append(rvOutputs[Len(rvOutputs)], line) \in Seq(RvLine)
        BY <4>1
      <4> QED
        BY <2>2, <3>2, <4>2
    <3> QED
      BY <2>1, <3>1, <3>2
  <2>4. UNCHANGED << rvBody, rvSeen, rvBlocks >>
    BY <1>1 DEF AddReviewLine
  <2> QED
    BY <2>3, <2>4 DEF RvInv, RvStep
<1>2. ASSUME OthersEdit PROVE RvInv' /\ RvStep
  <2>1. PICK kind \in {"section", "sub", "subgate"}, front \in BOOLEAN :
          rvBody' = IF front THEN << [kind |-> kind, by |-> rvBlocks] >> \o rvBody
                             ELSE rvBody \o << [kind |-> kind, by |-> rvBlocks] >>
    BY <1>2 DEF OthersEdit
  <2>2. /\ rvBlocks < RvEdits /\ rvBlocks' = rvBlocks + 1 /\ UNCHANGED << rvOutputs, rvSeen >>
        /\ rvBlocks \in 0 .. RvEdits /\ RvEdits \in Nat
    BY <1>2, ReviewAssumption DEF OthersEdit, RvInv
  <2>3. [kind |-> kind, by |-> rvBlocks] \in RvBlock /\ [kind |-> kind, by |-> rvBlocks].kind # "gate"
    BY <2>2 DEF RvBlock, GateKinds
  <2>4. rvBody' \in Seq(RvBlock) /\ GateIsOne(rvBody')
    BY <2>1, <2>3, BlockAdded DEF RvInv
  <2>5. rvBlocks' \in 0 .. RvEdits
    BY <2>2
  <2>6. RvInv'
    BY <2>2, <2>4, <2>5 DEF RvInv
  <2>7. RvStep
    BY <2>2 DEF RvStep
  <2> QED
    BY <2>6, <2>7
<1>3. ASSUME NEW u \in RvUpdater, ViewBody(u) PROVE RvInv' /\ RvStep
  <2>1. rvSeen' = [rvSeen EXCEPT ![u] = {rvBody}] /\ UNCHANGED << rvOutputs, rvBody, rvBlocks >>
    BY <1>3 DEF ViewBody
  <2>2. rvSeen' \in [RvUpdater -> SUBSET Seq(RvBlock)]
    BY <2>1 DEF RvInv
  <2>3. \A w \in RvUpdater : rvSeen'[w] = IF w = u THEN {rvBody} ELSE rvSeen[w]
    BY <2>1 DEF RvInv
  <2>4. RvInv'
    BY <2>1, <2>2, <2>3 DEF RvInv
  <2> QED
    BY <2>1, <2>4 DEF RvStep
<1>4. ASSUME NEW u \in RvUpdater, EditBody(u) PROVE RvInv' /\ RvStep
  <2> DEFINE section == [kind |-> "gate", by |-> rvBlocks]
  <2>1. PICK body \in rvSeen[u] : rvBody' = AppendReviewGateSection(body, section)
    BY <1>4 DEF EditBody
  <2>2. /\ rvBlocks < RvEdits /\ rvBlocks' = rvBlocks + 1 /\ rvSeen' = [rvSeen EXCEPT ![u] = {}]
        /\ UNCHANGED rvOutputs /\ rvBlocks \in 0 .. RvEdits /\ RvEdits \in Nat
    BY <1>4, ReviewAssumption DEF EditBody, RvInv
  <2>3. section \in RvBlock
    BY <2>2 DEF RvBlock, GateKinds
  <2>4. body \in Seq(RvBlock) /\ GateIsOne(body) /\ \A b \in rvSeen[u] : b = body
    BY DEF RvInv
  <2> HIDE DEF section
  <2>5. rvBody' \in Seq(RvBlock) /\ GateIsOne(rvBody') /\ RvKept(body, rvBody')
    BY <2>1, <2>3, <2>4, UpdateKeeps, UpdateKeepsOne
  <2>6. rvBlocks' \in 0 .. RvEdits
    BY <2>2
  <2>7. rvSeen' \in [RvUpdater -> SUBSET Seq(RvBlock)]
        /\ \A w \in RvUpdater : rvSeen'[w] = IF w = u THEN {} ELSE rvSeen[w]
    BY <2>2 DEF RvInv
  <2>8. RvInv'
    BY <2>2, <2>5, <2>6, <2>7 DEF RvInv
  <2>9. RvStep
    BY <2>4, <2>5, <2>7 DEF RvStep, RvKept, Others
  <2> QED
    BY <2>8, <2>9
<1>5. ASSUME NEW u \in RvUpdater, UpdateFails(u) PROVE RvInv' /\ RvStep
  <2>1. rvSeen' = [rvSeen EXCEPT ![u] = {}] /\ UNCHANGED << rvOutputs, rvBody, rvBlocks >>
    BY <1>5 DEF UpdateFails
  <2>2. rvSeen' \in [RvUpdater -> SUBSET Seq(RvBlock)]
        /\ \A w \in RvUpdater : rvSeen'[w] = IF w = u THEN {} ELSE rvSeen[w]
    BY <2>1 DEF RvInv
  <2>3. RvInv'
    BY <2>1, <2>2 DEF RvInv
  <2> QED
    BY <2>1, <2>3 DEF RvStep
<1>6. CASE UNCHANGED rvVars
  BY <1>6 DEF rvVars, RvInv, RvStep
<1> QED
  BY <1>1, <1>2, <1>3, <1>4, <1>5, <1>6 DEF RvNext

\* However many processes update the pull request: what others wrote stays, but
\* for what an update does not look at (pr_update.go).
THEOREM OthersAreKept == RvSpec => OthersKept
<1>1. RvInv /\ [RvNext]_rvVars => RvInv' /\ [RvStep]_rvVars
  BY RvStepKeeps
<1> QED
  BY <1>1, RvInitially, PTL DEF RvSpec, OthersKept, RvStep

LEMMA RvTypes == RvInv => RvTypeOK
<1> SUFFICES ASSUME RvInv PROVE RvTypeOK
  OBVIOUS
<1>1. \A i \in DOMAIN rvOutputs : rvOutputs[i] \in Seq(RvLine)
  BY DEF RvInv
<1>2. \A i \in DOMAIN rvBody : rvBody[i] \in RvBlock
  BY DEF RvInv
<1> QED
  BY <1>1, <1>2 DEF RvInv, RvTypeOK, RvBlock

LEMMA RvOneGate == RvInv => OneGate
<1> SUFFICES ASSUME RvInv PROVE OneGate
  OBVIOUS
<1> DEFINE G == {i \in DOMAIN rvBody : rvBody[i].kind = "gate"}
<1>1. \A x, y \in G : x = y
  BY DEF RvInv, GateIsOne
<1> HIDE DEF G
<1>2. CASE G = {}
  BY <1>2, FS_EmptySet DEF OneGate, G
<1>3. CASE G # {}
  <2>1. PICK x \in G : TRUE
    BY <1>3
  <2>2. G = {x}
    BY <1>1, <2>1
  <2>3. Cardinality(G) = 1
    BY <2>2, FS_Singleton
  <2> QED
    BY <2>3 DEF OneGate, G
<1> QED
  BY <1>2, <1>3

NoComments == [lines |-> 0, found |-> << >>]
Reads == INSTANCE Folding WITH Step <- ReadReviewLine
Tags == INSTANCE Folding WITH Step <- CountTags

Comment == [line : Nat, priority : Nat]

UrgentFirst(s) ==
  \A i, j \in DOMAIN s : i < j =>
    \/ s[i].priority < s[j].priority
    \/ s[i].priority = s[j].priority /\ s[i].line < s[j].line

LEMMA CommentsAre ==
  /\ \A c \in Comment : c.line \in Nat /\ c.priority \in Nat
  /\ \A s \in Seq(Comment) : \A i \in DOMAIN s : s[i] \in Comment
<1>1. \A c \in Comment : c.line \in Nat /\ c.priority \in Nat
  BY DEF Comment
<1>2. \A s \in Seq(Comment) : \A i \in DOMAIN s : s[i] \in Comment
  OBVIOUS
<1> QED
  BY <1>1, <1>2

LEMMA CommentInserted ==
  ASSUME NEW s \in Seq(Comment), UrgentFirst(s), NEW c \in Comment, \A i \in DOMAIN s : s[i].line < c.line
  PROVE  LET r == InsertComment(s, c)
         IN  /\ r \in Seq(Comment) /\ Len(r) = Len(s) + 1 /\ UrgentFirst(r)
             /\ \A i \in DOMAIN r : r[i] = c \/ \E j \in DOMAIN s : r[i] = s[j]
<1> DEFINE n == Len(s)
           P == {0} \union {i \in DOMAIN s : s[i].priority <= c.priority}
           k == Max(P)
           front == SubSeq(s, 1, k)
           back == SubSeq(s, k + 1, n)
           r == InsertComment(s, c)
<1>1. n \in Nat /\ DOMAIN s = 1 .. n /\ c.priority \in Nat /\ \A i \in 1 .. n : s[i].priority \in Nat
  <2>1. n \in Nat /\ DOMAIN s = 1 .. n
    OBVIOUS
  <2> QED
    BY <2>1, CommentsAre
<1>2. P \subseteq 0 .. n /\ P # {}
  <2>1. 0 \in P /\ 0 \in 0 .. n
    BY <1>1
  <2>2. \A i \in DOMAIN s : i \in 0 .. n
    BY <1>1
  <2> QED
    BY <2>1, <2>2
<1>3. k \in P /\ \A m \in P : m <= k
  BY <1>1, <1>2, GreatestOf
<1>4. r = front \o << c >> \o back
  BY DEF InsertComment
<1>5. k \in 0 .. n /\ k \in Nat
  BY <1>1, <1>2, <1>3
<1>6. \A i \in 1 .. n : i > k => c.priority < s[i].priority
  <2>1. ASSUME NEW i \in 1 .. n, i > k PROVE c.priority < s[i].priority
    <3>1. i \notin P
      BY <1>1, <1>3, <1>5, <2>1
    <3> QED
      BY <1>1, <3>1
  <2> QED
    BY <2>1
<1>7. k # 0 => s[k].priority <= c.priority
  BY <1>3
<1> HIDE DEF k, P, r, n
<1>8. \A i \in 1 .. k : s[i].priority <= c.priority
  <2>1. ASSUME NEW i \in 1 .. k PROVE s[i].priority <= c.priority
    <3>1. k # 0 /\ k \in 1 .. n /\ i \in 1 .. n
      BY <1>1, <1>5, <2>1
    <3>2. i = k \/ s[i].priority <= s[k].priority
      BY <1>1, <3>1, <2>1 DEF UrgentFirst
    <3> QED
      BY <1>1, <1>7, <3>1, <3>2
  <2> QED
    BY <2>1
<1>9. front \in Seq(Comment) /\ Len(front) = k /\ \A i \in 1 .. k : front[i] = s[i]
  BY <1>1, <1>5 DEF n
<1>10. back \in Seq(Comment) /\ Len(back) = n - k /\ \A i \in 1 .. n - k : back[i] = s[k + i]
  <2>1. k + 1 \in 1 .. n + 1 /\ s \in Seq(Comment) /\ Len(s) = n /\ n - (k + 1) + 1 = n - k
    BY <1>1, <1>5 DEF n
  <2>2. back \in Seq(Comment) /\ Len(back) = n - k
    BY <1>1, <1>5, <2>1
  <2>3. ASSUME NEW i \in 1 .. n - k PROVE back[i] = s[k + i]
    <3>1. back[i] = s[(k + 1) + i - 1] /\ (k + 1) + i - 1 = k + i
      BY <1>1, <1>5, <2>1
    <3> QED
      BY <3>1
  <2> QED
    BY <2>2, <2>3
<1> HIDE DEF front, back
<1>11. /\ r \in Seq(Comment) /\ Len(r) = n + 1 /\ r[k + 1] = c
       /\ \A i \in 1 .. k : r[i] = s[i]
       /\ \A i \in k + 2 .. n + 1 : r[i] = s[i - 1]
  <2> DEFINE q == front \o << c >>
  <2>1. << c >> \in Seq(Comment) /\ Len(<< c >>) = 1 /\ << c >>[1] = c
    OBVIOUS
  <2>2. /\ q \in Seq(Comment) /\ Len(q) = k + 1 /\ q[k + 1] = c
        /\ \A i \in 1 .. k : q[i] = front[i]
    BY <1>5, <1>9, <2>1
  <2>3. r = q \o back
    BY <1>4
  <2> HIDE DEF q
  <2>4. /\ r \in Seq(Comment) /\ Len(r) = Len(q) + Len(back)
        /\ \A i \in 1 .. Len(q) : r[i] = q[i]
        /\ \A i \in 1 .. Len(back) : r[Len(q) + i] = back[i]
    <3>1. q \in Seq(Comment) /\ back \in Seq(Comment)
      BY <1>10, <2>2
    <3> QED
      BY ONLY <3>1, <2>3
  <2>5. \A i \in k + 2 .. n + 1 : i - (k + 1) \in 1 .. n - k /\ k + (i - (k + 1)) = i - 1
                                  /\ (k + 1) + (i - (k + 1)) = i
    BY <1>1, <1>5
  <2>6. \A i \in k + 2 .. n + 1 : r[i] = s[i - 1]
    <3>1. ASSUME NEW i \in k + 2 .. n + 1 PROVE r[i] = s[i - 1]
      <4>1. r[(k + 1) + (i - (k + 1))] = back[i - (k + 1)]
        BY <1>10, <2>2, <2>4, <2>5
      <4>2. back[i - (k + 1)] = s[k + (i - (k + 1))]
        BY <1>10, <2>5
      <4> QED
        BY <2>5, <4>1, <4>2
    <3> QED
      BY <3>1
  <2>7. \A i \in 1 .. k : i \in 1 .. k + 1
    BY <1>5
  <2>8. k + 1 \in 1 .. k + 1
    BY <1>5
  <2> QED
    BY <1>1, <1>5, <1>9, <1>10, <2>2, <2>4, <2>6, <2>7, <2>8
<1>12. DOMAIN r = 1 .. n + 1
  BY <1>1, <1>11
\* Where a comment of the new list was.
<1>13. ASSUME NEW i \in 1 .. n + 1
       PROVE  \/ i \in 1 .. k /\ r[i] = s[i] /\ i \in 1 .. n
              \/ i = k + 1 /\ r[i] = c
              \/ i \in k + 2 .. n + 1 /\ r[i] = s[i - 1] /\ i - 1 \in 1 .. n /\ i - 1 > k
  <2>1. i \in 1 .. k \/ i = k + 1 \/ i \in k + 2 .. n + 1
    BY <1>1, <1>5
  <2>2. i \in 1 .. k => i \in 1 .. n
    BY <1>1, <1>5
  <2>3. i \in k + 2 .. n + 1 => i - 1 \in 1 .. n /\ i - 1 > k
    BY <1>1, <1>5
  <2> QED
    BY <1>11, <2>1, <2>2, <2>3
<1>14. ASSUME NEW i \in 1 .. n + 1, NEW j \in 1 .. n + 1, i < j
       PROVE  \/ r[i].priority < r[j].priority
              \/ r[i].priority = r[j].priority /\ r[i].line < r[j].line
  <2>1. CASE i \in 1 .. k /\ j \in 1 .. k
    <3>1. r[i] = s[i] /\ r[j] = s[j] /\ i \in DOMAIN s /\ j \in DOMAIN s
      BY <1>1, <1>5, <1>11, <2>1
    <3> QED
      BY <1>14, <3>1 DEF UrgentFirst
  <2>2. CASE i \in 1 .. k /\ j = k + 1
    <3>1. r[i] = s[i] /\ r[j] = c /\ i \in 1 .. n
      BY <1>5, <1>11, <1>13, <2>2
    <3>2. s[i].priority <= c.priority /\ s[i].line < c.line
      BY <1>1, <1>8, <2>2, <3>1
    <3> QED
      BY <1>1, <3>1, <3>2
  <2>3. CASE i \in 1 .. k /\ j \in k + 2 .. n + 1
    <3>1. r[i] = s[i] /\ r[j] = s[j - 1] /\ i \in 1 .. n /\ j - 1 \in 1 .. n /\ i < j - 1
      BY <1>1, <1>5, <1>11, <2>3
    <3> QED
      BY <1>1, <3>1 DEF UrgentFirst
  <2>4. CASE i = k + 1 /\ j \in k + 2 .. n + 1
    <3>1. r[i] = c /\ r[j] = s[j - 1] /\ j - 1 \in 1 .. n /\ j - 1 > k
      BY <1>1, <1>5, <1>11, <2>4
    <3> QED
      BY <1>6, <3>1
  <2>5. CASE i \in k + 2 .. n + 1 /\ j \in k + 2 .. n + 1
    <3>1. r[i] = s[i - 1] /\ r[j] = s[j - 1] /\ i - 1 \in 1 .. n /\ j - 1 \in 1 .. n /\ i - 1 < j - 1
      BY <1>1, <1>5, <1>11, <1>14, <2>5
    <3> QED
      BY <1>1, <3>1 DEF UrgentFirst
  <2>6. \/ i \in 1 .. k /\ (j \in 1 .. k \/ j = k + 1 \/ j \in k + 2 .. n + 1)
        \/ i = k + 1 /\ j \in k + 2 .. n + 1
        \/ i \in k + 2 .. n + 1 /\ j \in k + 2 .. n + 1
    BY <1>1, <1>5, <1>14
  <2> QED
    BY <2>1, <2>2, <2>3, <2>4, <2>5, <2>6
<1>15. UrgentFirst(r)
  BY <1>12, <1>14 DEF UrgentFirst
<1>16. \A i \in DOMAIN r : r[i] = c \/ \E j \in DOMAIN s : r[i] = s[j]
  BY <1>1, <1>12, <1>13
<1> QED
  BY <1>11, <1>15, <1>16 DEF r, n

LEMMA ReadIsFold ==
  ASSUME NEW output
  PROVE  /\ FoldLeft(ReadReviewLine, [lines |-> 0, found |-> << >>], output)
              = Reads!Folded(NoComments, output)
         /\ CountPriorityTags(output) = Tags!Folded(0, output)
  BY DEF NoComments, CountPriorityTags, FoldLeft, MapThenFoldSet, Max, Reads!Folded, Tags!Folded,
         Reads!Greatest, Tags!Greatest

ReadIs(output) ==
  LET read == Reads!Folded(NoComments, output)
      count == Tags!Folded(0, output)
  IN  /\ read.lines = Len(output) /\ read.found \in Seq(Comment) /\ UrgentFirst(read.found)
      /\ \A i \in DOMAIN read.found : read.found[i].line <= Len(output)
      /\ count \in Nat /\ Len(read.found) <= count
      /\ read.found = << >> <=> \A i \in DOMAIN output : output[i].tags = << >>

LEMMA NothingRead == ReadIs(<< >>)
<1>1. Reads!Folded(NoComments, << >>) = [lines |-> 0, found |-> << >>] /\ Tags!Folded(0, << >>) = 0
  BY Reads!FoldEmpty, Tags!FoldEmpty DEF NoComments
<1>2. << >> \in Seq(Comment) /\ Len(<< >>) = 0 /\ DOMAIN << >> = {}
  OBVIOUS
<1>3. Reads!Folded(NoComments, << >>).lines = 0 /\ Reads!Folded(NoComments, << >>).found = << >>
  BY <1>1
<1>4. UrgentFirst(<< >>)
  BY <1>2 DEF UrgentFirst
<1> DEFINE read == Reads!Folded(NoComments, << >>)
           count == Tags!Folded(0, << >>)
<1>5. read.lines = Len(<< >>) /\ count \in Nat
  BY <1>1, <1>2, <1>3
<1>6. read.found \in Seq(Comment)
  BY <1>2, <1>3
<1>7. UrgentFirst(read.found)
  BY <1>3, <1>4
<1>8. \A i \in DOMAIN read.found : read.found[i].line <= Len(<< >>)
  BY <1>2, <1>3
<1>9. Len(read.found) <= count
  BY <1>1, <1>2, <1>3
<1>10. read.found = << >> <=> \A i \in DOMAIN << >> : << >>[i].tags = << >>
  BY <1>2, <1>3
<1> HIDE DEF read, count
<1> QED
  BY <1>5, <1>6, <1>7, <1>8, <1>9, <1>10 DEF ReadIs, read, count

LEMMA LineRead ==
  ASSUME NEW s \in Seq(RvLine), NEW x \in RvLine, ReadIs(s)
  PROVE  ReadIs(Append(s, x))
<1> DEFINE t == Append(s, x)
           n == Len(s)
           read == Reads!Folded(NoComments, s)
           now == Reads!Folded(NoComments, t)
<1>1. /\ n \in Nat /\ DOMAIN s = 1 .. n /\ DOMAIN t = 1 .. n + 1 /\ Len(t) = n + 1 /\ t[n + 1] = x
      /\ \A i \in 1 .. n : t[i] = s[i]
  BY Appended
<1>2. now = ReadReviewLine(read, x) /\ Tags!Folded(0, t) = CountTags(Tags!Folded(0, s), x)
  BY Reads!FoldAppend, Tags!FoldAppend
<1>3. x.tags \in Seq(Nat) /\ Len(x.tags) \in Nat
  BY ReviewAssumption
<1>4. /\ read.lines = n /\ read.found \in Seq(Comment) /\ UrgentFirst(read.found)
      /\ \A i \in DOMAIN read.found : read.found[i].line <= n
      /\ Tags!Folded(0, s) \in Nat /\ Len(read.found) <= Tags!Folded(0, s)
      /\ read.found = << >> <=> \A i \in DOMAIN s : s[i].tags = << >>
  BY DEF ReadIs
<1>5. Tags!Folded(0, t) = Tags!Folded(0, s) + Len(x.tags)
  BY <1>2 DEF CountTags
<1> HIDE DEF t, n, read, now
<1>6. CASE x.tags = << >>
  <2>1. now = [lines |-> n + 1, found |-> read.found]
    BY <1>2, <1>4, <1>6 DEF ReadReviewLine
  <2>2. now.lines = n + 1 /\ now.found = read.found
    BY <2>1
  <2>3. Len(x.tags) = 0
    BY <1>6
  <2>4. \A i \in DOMAIN now.found : now.found[i].line <= n + 1
    <3>1. \A i \in DOMAIN read.found : read.found[i].line \in Nat
      BY <1>4, CommentsAre
    <3> QED
      BY <1>1, <1>4, <2>2, <3>1
  <2>5. now.found = << >> <=> \A i \in DOMAIN t : t[i].tags = << >>
    BY <1>1, <1>4, <1>6, <2>2
  <2>6. Tags!Folded(0, t) \in Nat /\ Len(now.found) <= Tags!Folded(0, t)
    BY <1>4, <1>5, <2>2, <2>3
  <2> QED
    BY <1>1, <1>4, <2>2, <2>4, <2>5, <2>6 DEF ReadIs, now, t
<1>7. CASE x.tags # << >>
  <2> DEFINE c == [line |-> n + 1, priority |-> Min(ToSet(x.tags))]
  <2>1. now = [lines |-> n + 1, found |-> InsertComment(read.found, c)]
    BY <1>2, <1>4, <1>7 DEF ReadReviewLine
  <2>2. Min(ToSet(x.tags)) \in Nat /\ Len(x.tags) >= 1
    <3>1. Len(x.tags) >= 1 /\ DOMAIN x.tags = 1 .. Len(x.tags)
      BY <1>3, <1>7
    <3>2. ToSet(x.tags) \subseteq Nat /\ ToSet(x.tags) # {}
      <4>1. \A i \in DOMAIN x.tags : x.tags[i] \in Nat
        BY <1>3
      <4>2. 1 \in DOMAIN x.tags
        BY <1>3, <3>1
      <4>3. ToSet(x.tags) = {x.tags[i] : i \in DOMAIN x.tags}
        BY DEF ToSet
      <4> QED
        BY <4>1, <4>2, <4>3
    <3> QED
      BY <3>1, <3>2, SmallestOf
  <2>3. c \in Comment /\ c.line = n + 1
    BY <1>1, <2>2 DEF Comment
  <2> HIDE DEF c
  <2>4. \A i \in DOMAIN read.found : read.found[i].line < c.line
    <3>1. \A i \in DOMAIN read.found : read.found[i].line \in Nat
      BY <1>4, CommentsAre
    <3> QED
      BY <1>1, <1>4, <2>3, <3>1
  <2>5. now.lines = n + 1 /\ now.found = InsertComment(read.found, c)
    BY <2>1
  <2>6. /\ now.found \in Seq(Comment) /\ Len(now.found) = Len(read.found) + 1 /\ UrgentFirst(now.found)
        /\ \A i \in DOMAIN now.found : now.found[i] = c \/ \E j \in DOMAIN read.found : now.found[i] = read.found[j]
    <3> DEFINE f == read.found
    <3>1. f \in Seq(Comment) /\ UrgentFirst(f) /\ c \in Comment /\ \A i \in DOMAIN f : f[i].line < c.line
      BY <1>4, <2>3, <2>4
    <3>2. now.found = InsertComment(f, c)
      BY <2>5
    <3> HIDE DEF f
    <3>3. /\ InsertComment(f, c) \in Seq(Comment) /\ Len(InsertComment(f, c)) = Len(f) + 1
          /\ UrgentFirst(InsertComment(f, c))
          /\ \A i \in DOMAIN InsertComment(f, c) :
               InsertComment(f, c)[i] = c \/ \E j \in DOMAIN f : InsertComment(f, c)[i] = f[j]
      BY ONLY <3>1, CommentInserted
    <3>4. /\ now.found \in Seq(Comment) /\ Len(now.found) = Len(f) + 1 /\ UrgentFirst(now.found)
          /\ \A i \in DOMAIN now.found : now.found[i] = c \/ \E j \in DOMAIN f : now.found[i] = f[j]
      BY ONLY <3>2, <3>3
    <3> QED
      BY <3>4 DEF f
  <2>7. \A i \in DOMAIN now.found : now.found[i].line <= n + 1
    <3>1. \A j \in DOMAIN read.found : read.found[j].line \in Nat /\ read.found[j].line <= n + 1
      BY <1>1, <1>4, <2>3, <2>4, CommentsAre
    <3> QED
      BY <1>1, <2>3, <2>6, <3>1
  <2>8. now.found # << >> /\ t[n + 1].tags # << >> /\ n + 1 \in DOMAIN t
    <3>1. Len(read.found) \in Nat /\ Len(<< >>) = 0
      BY <1>4
    <3>2. n + 1 \in 1 .. n + 1
      BY <1>1
    <3> QED
      BY <1>1, <1>7, <2>6, <3>1, <3>2
  <2>9. Tags!Folded(0, t) \in Nat /\ Len(now.found) <= Tags!Folded(0, t)
    <3>1. Len(read.found) \in Nat /\ Len(read.found) <= Tags!Folded(0, s) /\ Tags!Folded(0, s) \in Nat
      BY <1>4
    <3>2. Len(x.tags) \in Nat /\ Len(x.tags) >= 1
      BY <1>3, <2>2
    <3>3. Len(now.found) = Len(read.found) + 1
      BY <2>6
    <3> QED
      BY ONLY <1>5, <3>1, <3>2, <3>3
  <2> QED
    BY <1>1, <2>5, <2>6, <2>7, <2>8, <2>9 DEF ReadIs, now, t
<1> QED
  BY <1>6, <1>7

LEMMA OutputsAreRead == \A s \in Seq(RvLine) : ReadIs(s)
<1> DEFINE G == {s \in Seq(RvLine) : ReadIs(s)}
<1>1. << >> \in G
  BY NothingRead
<1>2. ASSUME NEW s \in Seq(RvLine), NEW x \in RvLine, s \in G PROVE Append(s, x) \in G
  BY <1>2, LineRead, Appended
<1> HIDE DEF G
<1>3. Seq(RvLine) \subseteq G
  BY <1>1, <1>2, Numbers!SequencesGrow
<1> QED
  BY <1>3 DEF G

LEMMA RvComments == RvInv => CommentsSound
<1> SUFFICES ASSUME RvInv, NEW o \in DOMAIN rvOutputs
             PROVE  LET output == rvOutputs[o]
                        found  == ExtractReviewComments(output)
                    IN  /\ HasReviewComments(output) <=> found # << >>
                        /\ \A i, j \in DOMAIN found : i < j =>
                             \/ found[i].priority < found[j].priority
                             \/ found[i].priority = found[j].priority /\ found[i].line < found[j].line
                        /\ CountPriorityTags(output) > 0 => Len(found) <= CountPriorityTags(output)
  BY DEF CommentsSound
<1> DEFINE output == rvOutputs[o]
           found == ExtractReviewComments(output)
           tagged == Reads!Folded(NoComments, output).found
<1>1. output \in Seq(RvLine)
  BY DEF RvInv
<1>2. ReadIs(output)
  BY <1>1, OutputsAreRead
<1>3. found = IF tagged = << >> /\ HasReviewComments(output) THEN << [line |-> 0, priority |-> 4] >> ELSE tagged
  BY ReadIsFold DEF ExtractReviewComments
<1>4. CountPriorityTags(output) = Tags!Folded(0, output)
  BY ReadIsFold
<1> HIDE DEF output, found, tagged
<1>5. /\ tagged \in Seq(Comment) /\ UrgentFirst(tagged)
      /\ Tags!Folded(0, output) \in Nat /\ Len(tagged) <= Tags!Folded(0, output)
      /\ tagged = << >> <=> \A i \in DOMAIN output : output[i].tags = << >>
  BY <1>2 DEF ReadIs, tagged
<1>6. CASE tagged = << >> /\ HasReviewComments(output)
  <2> DEFINE only == << [line |-> 0, priority |-> 4] >>
  <2>1. found = only
    BY <1>3, <1>6
  <2>2. DOMAIN only = {1} /\ Len(only) = 1 /\ only # << >>
    OBVIOUS
  <2> HIDE DEF only
  <2>3. \A i, j \in DOMAIN found : ~ (i < j)
    BY <2>1, <2>2
  <2> QED
    BY <1>4, <1>5, <1>6, <2>1, <2>2, <2>3 DEF output, found
<1>7. CASE ~ (tagged = << >> /\ HasReviewComments(output))
  <2>1. found = tagged
    BY <1>3, <1>7
  <2>2. found # << >> => HasReviewComments(output)
    BY <1>5, <2>1 DEF HasReviewComments
  <2> QED
    BY <1>4, <1>5, <1>7, <2>1, <2>2 DEF UrgentFirst, output, found
<1> QED
  BY <1>6, <1>7

LEMMA CountsAre == RvInv => \A i \in DOMAIN rvOutputs : RvCounts[i] \in Nat
<1> SUFFICES ASSUME RvInv, NEW i \in DOMAIN rvOutputs PROVE RvCounts[i] \in Nat
  OBVIOUS
<1>1. ReadIs(rvOutputs[i])
  BY OutputsAreRead DEF RvInv
<1>2. CountPriorityTags(rvOutputs[i]) \in Nat
  BY <1>1, ReadIsFold DEF ReadIs
<1> QED
  BY <1>2 DEF RvCounts

\* A cycle that is no better than the one before it is among those that end as high as they began.
LEMMA SomeCycleStalls ==
  ASSUME NEW n \in Nat, n >= 2, NEW C, \A i \in 1 .. n : C[i] \in Nat, C[1] = 0 \/ C[n] = C[1]
  PROVE  \E i \in 2 .. n : C[i] >= C[i - 1]
<1> SUFFICES ASSUME \A i \in 2 .. n : ~ (C[i] >= C[i - 1]) PROVE FALSE
  OBVIOUS
<1> DEFINE T == {j \in 2 .. n : C[j] >= C[1]}
<1>1. C[1] \in Nat /\ C[2] \in Nat /\ C[n] \in Nat /\ 2 \in 2 .. n /\ n \in 2 .. n
  OBVIOUS
<1>2. C[n] >= C[1]
  BY <1>1
<1>3. n \in T /\ T \subseteq Nat
  BY <1>1, <1>2
<1> HIDE DEF T
<1>4. Min(T) \in T /\ \A m \in T : Min(T) <= m
  BY <1>3, SmallestOf
<1> DEFINE j == Min(T)
<1>5. j \in 2 .. n /\ C[j] >= C[1]
  BY <1>4 DEF T
<1> HIDE DEF j
<1>6. j # 2
  <2>1. C[2] < C[2 - 1] /\ 2 - 1 = 1
    BY <1>1
  <2> QED
    BY <1>1, <1>5, <2>1
<1>7. j - 1 \in 2 .. n /\ j - 1 \in 1 .. n /\ j \in 1 .. n
  BY <1>5, <1>6
<1>8. j - 1 \notin T
  BY <1>4, <1>5, <1>7 DEF j
<1>9. C[j - 1] < C[1]
  BY <1>1, <1>7, <1>8 DEF T
<1>10. C[j] < C[j - 1]
  BY <1>5, <1>7
<1> QED
  BY <1>1, <1>5, <1>7, <1>9, <1>10

LEMMA NextStrategy ==
  ASSUME NEW m \in Nat
  PROVE  /\ m % 3 \in 0 .. 2
         /\ (m + 1) % 3 = IF m % 3 = 2 THEN 0 ELSE (m % 3) + 1
  OBVIOUS

Strategy(r) == << "direct", "decompose", "rewrite" >>[r + 1]

LEMMA StrategiesAre ==
  /\ Strategy(0) = "direct" /\ Strategy(1) = "decompose" /\ Strategy(2) = "rewrite"
  BY DEF Strategy

LEMMA CyclesTryAll ==
  ASSUME NEW n \in Nat
  PROVE  Cardinality({StrategyForCycle(i) : i \in n .. n + 2}) = IF n = 0 THEN 2 ELSE 3
<1> DEFINE S == {StrategyForCycle(i) : i \in n .. n + 2}
<1>1. S = {StrategyForCycle(n), StrategyForCycle(n + 1), StrategyForCycle(n + 2)}
  <2>1. n .. n + 2 = {n, n + 1, n + 2}
    OBVIOUS
  <2> HIDE DEF StrategyForCycle
  <2> QED
    BY <2>1
<1>2. Cardinality({"direct", "decompose"}) = 2 /\ IsFiniteSet({"direct", "decompose"})
  <2>1. Cardinality({"direct"}) = 1 /\ IsFiniteSet({"direct"})
    BY FS_Singleton
  <2>2. {"direct", "decompose"} = {"direct"} \union {"decompose"} /\ "decompose" \notin {"direct"}
    OBVIOUS
  <2> QED
    BY <2>1, <2>2, FS_AddElement
<1>3. Cardinality({"direct", "decompose", "rewrite"}) = 3
  <2>1. {"direct", "decompose", "rewrite"} = {"direct", "decompose"} \union {"rewrite"}
    OBVIOUS
  <2>2. "rewrite" \notin {"direct", "decompose"}
    OBVIOUS
  <2> QED
    BY <1>2, <2>1, <2>2, FS_AddElement
<1>4. CASE n = 0
  <2>1. StrategyForCycle(0) = "direct" /\ StrategyForCycle(1) = "direct" /\ StrategyForCycle(2) = "decompose"
    <3>1. StrategyForCycle(0) = Strategy((1 - 1) % 3) /\ StrategyForCycle(1) = Strategy((1 - 1) % 3)
          /\ StrategyForCycle(2) = Strategy((2 - 1) % 3)
      BY DEF StrategyForCycle, Strategy
    <3> QED
      BY <3>1, StrategiesAre
  <2>2. n + 1 = 1 /\ n + 2 = 2
    BY <1>4
  <2>3. S = {"direct", "decompose"}
    BY <1>1, <1>4, <2>1, <2>2
  <2> QED
    BY <1>2, <1>4, <2>3
<1>5. CASE n # 0
  <2>1. /\ StrategyForCycle(n) = Strategy((n - 1) % 3)
        /\ StrategyForCycle(n + 1) = Strategy(n % 3)
        /\ StrategyForCycle(n + 2) = Strategy((n + 1) % 3)
    <3>1. ~ (n < 1) /\ ~ (n + 1 < 1) /\ ~ (n + 2 < 1) /\ n + 1 - 1 = n /\ n + 2 - 1 = n + 1
      BY <1>5
    <3> QED
      BY <3>1 DEF StrategyForCycle, Strategy
  <2>2. n - 1 \in Nat /\ n - 1 + 1 = n
    BY <1>5
  <2>3. /\ (n - 1) % 3 \in 0 .. 2
        /\ n % 3 = IF (n - 1) % 3 = 2 THEN 0 ELSE ((n - 1) % 3) + 1
        /\ (n + 1) % 3 = IF n % 3 = 2 THEN 0 ELSE (n % 3) + 1
    BY <2>2, NextStrategy
  <2> DEFINE a == (n - 1) % 3
             b == n % 3
             c == (n + 1) % 3
  <2>4. \/ a = 0 /\ b = 1 /\ c = 2
        \/ a = 1 /\ b = 2 /\ c = 0
        \/ a = 2 /\ b = 0 /\ c = 1
    <3> HIDE DEF a, b, c
    <3>1. a \in 0 .. 2 /\ b = (IF a = 2 THEN 0 ELSE a + 1) /\ c = (IF b = 2 THEN 0 ELSE b + 1)
      BY <2>3 DEF a, b, c
    <3> QED
      BY <3>1
  <2>5. S = {Strategy(a), Strategy(b), Strategy(c)}
    BY <1>1, <2>1
  <2>6. S = {"direct", "decompose", "rewrite"}
    <3> HIDE DEF a, b, c, S
    <3> QED
      BY <2>4, <2>5, StrategiesAre
  <2> QED
    BY <1>3, <1>5, <2>6
<1> QED
  BY <1>4, <1>5

LEMMA RvStagnation == RvInv => StagnationSound
<1> SUFFICES ASSUME RvInv PROVE StagnationSound
  OBVIOUS
<1> DEFINE n == Len(rvOutputs)
<1>1. n \in Nat /\ DOMAIN rvOutputs = 1 .. n
  BY DEF RvInv
<1>2. \A i \in 1 .. n : RvCounts[i] \in Nat
  BY <1>1, CountsAre
<1>3. IsStalled /\ n >= 2 => \E i \in 2 .. n : RvCounts[i] >= RvCounts[i - 1]
  <2> SUFFICES ASSUME IsStalled, n >= 2 PROVE \E i \in 2 .. n : RvCounts[i] >= RvCounts[i - 1]
    OBVIOUS
  <2>1. RvCounts[1] = 0 \/ RvCounts[n] = RvCounts[1]
    BY DEF IsStalled
  <2> HIDE DEF n
  <2> QED
    BY <1>1, <1>2, <2>1, SomeCycleStalls
<1>4. n >= 2 /\ RvCounts[n] = 0 /\ RvCounts[1] > 0 => ~ IsStagnant /\ ~ IsStalled
  <2> SUFFICES ASSUME n >= 2, RvCounts[n] = 0, RvCounts[1] > 0 PROVE ~ IsStagnant /\ ~ IsStalled
    OBVIOUS
  <2>1. RvCounts[1] \in Nat /\ RvCounts[n - 1] \in Nat
    BY <1>1, <1>2
  <2>2. ~ IsStagnant
    BY <2>1 DEF IsStagnant
  <2>3. ~ IsStalled
    BY <2>1 DEF IsStalled
  <2> QED
    BY <2>2, <2>3
<1>5. Cardinality({StrategyForCycle(i) : i \in n .. n + 2}) = IF n = 0 THEN 2 ELSE 3
  BY <1>1, CyclesTryAll
<1> QED
  BY <1>3, <1>4, <1>5 DEF StagnationSound

\* What is read from the outputs of a review and what is written to the pull request is sound ...
THEOREM ReviewIsSound == RvSpec => [](RvTypeOK /\ ReviewSound)
<1>1. RvInv /\ [RvNext]_rvVars => RvInv'
  BY RvStepKeeps
<1>2. RvInv => RvTypeOK /\ ReviewSound
  BY RvTypes, RvOneGate, RvComments, RvStagnation DEF ReviewSound
<1> QED
  BY RvInitially, <1>1, <1>2, PTL DEF RvSpec

(***************************************************************************)
(* Corrections.  A history is read back as it was written, so that a map   *)
(* holds, after a hop, what the record said or what the map said before.   *)
(***************************************************************************)

\* Tokens of the texts there are, and what a hop may add.
CoTexts == CoTool \union UNION {{meta[k] : k \in DOMAIN meta} : meta \in CoMeta}
TokensOf(T) == UNION {{t[i] : i \in DOMAIN t} : t \in T}
CoToken == ({">", "#", "1"} \union Int \union UNION {Known[k] : k \in DOMAIN Known}) \union TokensOf(CoTexts)
CoText == Seq(CoToken)

LEMMA TokensAre == ASSUME NEW t \in CoTexts, NEW i \in DOMAIN t PROVE t[i] \in CoToken
<1>1. t[i] \in TokensOf(CoTexts)
  <2>1. t[i] \in {t[j] : j \in DOMAIN t}
    OBVIOUS
  <2>2. {t[j] : j \in DOMAIN t} \in {{s[j] : j \in DOMAIN s} : s \in CoTexts}
    OBVIOUS
  <2> QED
    BY <2>1, <2>2 DEF TokensOf
<1> QED
  BY <1>1 DEF CoToken

LEMMA TextIs ==
  ASSUME NEW t, IsText(t), NEW T, \A i \in DOMAIN t : t[i] \in T
  PROVE  t \in Seq(T)
<1>1. t \in [1 .. Len(t) -> T] /\ Len(t) \in Nat
  BY DEF IsText
<1> QED
  BY <1>1

LEMMA ToolsAreTexts == ASSUME NEW tool \in CoTool PROVE tool \in CoText
<1>1. IsText(tool) /\ \A i \in DOMAIN tool : tool[i] \in CoToken
  BY CorrectionsAssumption, TokensAre, Zenon DEF CoTexts
<1> QED
  BY <1>1, TextIs DEF CoText

\* Metadata: texts, and numbers where a number is expected.
Numbered(text) == Len(text) = 2 /\ text[1] = "#" => text[2] \in Int
MetaTyped(meta) ==
  /\ \A k \in DOMAIN meta : meta[k] \in CoText
  /\ \A k \in DOMAIN meta \intersect {"recurrence_count", "provider_retry_budget"} : Numbered(meta[k])

LEMMA MetasAreTyped == ASSUME NEW meta \in CoMeta PROVE MetaTyped(meta)
<1>1. ASSUME NEW k \in DOMAIN meta PROVE meta[k] \in CoText
  <2>1. IsText(meta[k])
    BY CorrectionsAssumption
  <2>3. meta[k] \in CoTexts
    <3>1. meta[k] \in {meta[j] : j \in DOMAIN meta}
      OBVIOUS
    <3> QED
      BY <3>1, Zenon DEF CoTexts
  <2>2. \A i \in DOMAIN meta[k] : meta[k][i] \in CoToken
    BY <2>3, TokensAre
  <2> QED
    BY <2>1, <2>2, TextIs DEF CoText
<1> QED
  BY <1>1, CorrectionsAssumption DEF MetaTyped, Numbered

LEMMA TextTyped ==
  ASSUME NEW meta, MetaTyped(meta), NEW k
  PROVE  /\ Text(meta, k) \in CoText
         /\ k \in {"recurrence_count", "provider_retry_budget"} => Count(Text(meta, k)) \in Int
<1>1. << >> \in CoText /\ Len(<< >>) = 0
  BY DEF CoText
<1>2. Text(meta, k) \in CoText
  BY <1>1 DEF Text, MetaTyped
<1>3. ASSUME k \in {"recurrence_count", "provider_retry_budget"} PROVE Numbered(Text(meta, k))
  BY <1>1, <1>3 DEF Text, MetaTyped, Numbered
<1> QED
  BY <1>2, <1>3 DEF Count, Numbered

(***************************************************************************)
(* Words.                                                                  *)
(***************************************************************************)

LEMMA OneToken == ASSUME NEW w PROVE << w >> # << >> /\ << w >>[1] = w /\ Len(<< w >>) = 1
  OBVIOUS

LEMMA NormalizeIs ==
  ASSUME NEW key \in DOMAIN Known, NEW text
  PROVE  \/ \E w \in Known[key] : Lowered(text) = << w >> /\ Normalize(key, text) = << w >>
         \/ Normalize(key, text) = text /\ ~ \E w \in Known[key] : Lowered(text) = << w >>
  BY DEF Normalize

LEMMA WordsStay ==
  ASSUME NEW key \in DOMAIN Known, NEW w \in Known[key]
  PROVE  Lowered(<< w >>) = << w >> /\ Normalize(key, << w >>) = << w >>
<1>1. w # "^"
  BY DEF Known
<1>2. Lowered(<< w >>) = << w >>
  BY <1>1, OneToken DEF Lowered
<1> QED
  BY <1>2 DEF Normalize

LEMMA NormalizeTwice ==
  ASSUME NEW key \in DOMAIN Known, NEW text
  PROVE  Normalize(key, Normalize(key, text)) = Normalize(key, text)
<1>1. CASE \E w \in Known[key] : Lowered(text) = << w >> /\ Normalize(key, text) = << w >>
  BY <1>1, WordsStay
<1>2. CASE Normalize(key, text) = text
  BY <1>2
<1> QED
  BY <1>1, <1>2, NormalizeIs

LEMMA NormalizeNothing == ASSUME NEW key \in DOMAIN Known PROVE Normalize(key, << >>) = << >>
<1>1. Lowered(<< >>) = << >>
  BY DEF Lowered
<1> QED
  BY <1>1 DEF Normalize

LEMMA NormalizeTyped ==
  ASSUME NEW key \in DOMAIN Known, NEW text \in CoText
  PROVE  Normalize(key, text) \in CoText
<1>1. CASE \E w \in Known[key] : Lowered(text) = << w >> /\ Normalize(key, text) = << w >>
  <2>1. PICK w \in Known[key] : Normalize(key, text) = << w >>
    BY <1>1
  <2>2. w \in CoToken
    BY DEF CoToken
  <2> QED
    BY <2>1, <2>2 DEF CoText
<1>2. CASE Normalize(key, text) = text
  BY <1>2
<1> QED
  BY <1>1, <1>2, NormalizeIs

(***************************************************************************)
(* IsHistory: lists of names, none empty and none twice in a row.  Split   *)
(* at a separator, the text of a list gives it back.                       *)
(***************************************************************************)

Joins  == INSTANCE Folding WITH Step <- JoinName
Enters == INSTANCE Folding WITH Step <- AppendHistory
Splits == INSTANCE Folding WITH Step <- TakeToken

\* Names without a token c; lists of them.
NameWithout(c) == {w \in CoText : w # << >> /\ ~Contains(w, c)}
IsHistory(h, c) == h \in Seq(NameWithout(c)) /\ \A i \in 1 .. Len(h) - 1 : h[i] # h[i + 1]

LEMMA ContainsNot ==
  ASSUME NEW w \in CoText, NEW c, NEW x \in CoToken
  PROVE  /\ w \in Seq(CoToken) /\ Append(w, x) \in CoText
         /\ Contains(Append(w, x), c) <=> Contains(w, c) \/ x = c
<1>1. w \in Seq(CoToken)
  BY DEF CoText
<1> QED
  BY <1>1, Appended DEF Contains, CoText

LEMMA HistoryGrows ==
  ASSUME NEW c, NEW h, IsHistory(h, c), NEW name \in CoText, ~Contains(name, c)
  PROVE  IsHistory(AppendHistory(h, name), c)
<1>1. CASE name = << >> \/ (h # << >> /\ Last(h) = name)
  BY <1>1 DEF AppendHistory
<1>2. CASE ~ (name = << >> \/ (h # << >> /\ Last(h) = name))
  <2> DEFINE r == Append(h, name)
  <2>1. AppendHistory(h, name) = r
    BY <1>2 DEF AppendHistory
  <2>2. h \in Seq(NameWithout(c)) /\ name \in NameWithout(c)
    BY <1>2 DEF NameWithout, IsHistory
  <2>3. /\ r \in Seq(NameWithout(c)) /\ Len(r) = Len(h) + 1 /\ r[Len(h) + 1] = name
        /\ \A i \in 1 .. Len(h) : r[i] = h[i]
    BY <2>2, Appended
  <2>4. Len(h) \in Nat /\ (h = << >> \/ h[Len(h)] # name)
    BY <1>2, <2>2 DEF Last
  <2> HIDE DEF r
  <2>5. ASSUME NEW i \in 1 .. Len(r) - 1 PROVE r[i] # r[i + 1]
    <3>1. CASE i = Len(h)
      BY <2>2, <2>3, <2>4, <3>1
    <3>2. CASE i # Len(h)
      <4>1. i \in 1 .. Len(h) - 1 /\ i \in 1 .. Len(h) /\ i + 1 \in 1 .. Len(h)
        BY <2>3, <2>4, <3>2
      <4> QED
        BY <2>3, <4>1 DEF IsHistory
    <3> QED
      BY <3>1, <3>2
  <2> QED
    BY <2>1, <2>3, <2>5 DEF IsHistory
<1> QED
  BY <1>1, <1>2

\* A list is kept by the pass that leaves out what is empty or repeated.
LEMMA ListsStay ==
  ASSUME NEW c, NEW h, IsHistory(h, c)
  PROVE  NormalizeHistory(h) = h
<1> DEFINE S == NameWithout(c)
           G == {s \in Seq(S) : (\A i \in 1 .. Len(s) - 1 : s[i] # s[i + 1]) => Enters!Folded(<< >>, s) = s}
<1>1. << >> \in G
  BY Enters!FoldEmpty
<1>2. ASSUME NEW s \in Seq(S), NEW x \in S, s \in G PROVE Append(s, x) \in G
  <2> DEFINE r == Append(s, x)
  <2>1. /\ r \in Seq(S) /\ Len(r) = Len(s) + 1 /\ r[Len(s) + 1] = x /\ Len(s) \in Nat
        /\ \A i \in 1 .. Len(s) : r[i] = s[i]
    BY Appended
  <2>2. SUFFICES ASSUME \A i \in 1 .. Len(r) - 1 : r[i] # r[i + 1] PROVE Enters!Folded(<< >>, r) = r
    BY <2>1
  <2>3. Enters!Folded(<< >>, r) = AppendHistory(Enters!Folded(<< >>, s), x)
    BY Enters!FoldAppend
  <2> HIDE DEF r
  <2>4. ASSUME NEW i \in 1 .. Len(s) - 1 PROVE s[i] # s[i + 1]
    <3>1. i \in 1 .. Len(r) - 1 /\ i \in 1 .. Len(s) /\ i + 1 \in 1 .. Len(s)
      BY <2>1
    <3> QED
      BY <2>1, <2>2, <3>1
  <2>5. Enters!Folded(<< >>, s) = s
    BY <1>2, <2>4
  <2>6. x # << >> /\ (s = << >> \/ Last(s) # x)
    <3>1. x # << >>
      BY DEF NameWithout
    <3>2. ASSUME s # << >> PROVE Last(s) # x
      <4>1. Len(s) \in 1 .. Len(r) - 1 /\ Len(s) \in 1 .. Len(s)
        BY <2>1, <3>2
      <4> QED
        BY <2>1, <2>2, <4>1 DEF Last
    <3> QED
      BY <3>1, <3>2
  <2> QED
    BY <2>3, <2>5, <2>6 DEF AppendHistory, r
<1> HIDE DEF G
<1>3. Seq(S) \subseteq G
  BY <1>1, <1>2, Enters!SequencesGrow
<1>4. Enters!Folded(<< >>, h) = h
  BY <1>3 DEF G, IsHistory
<1> QED
  BY <1>4 DEF NormalizeHistory, FoldLeft, MapThenFoldSet, Max, Enters!Folded, Enters!Greatest

LEMMA NewNameEnters ==
  ASSUME NEW c, NEW h, IsHistory(h, c), NEW n \in Seq(NameWithout(c)), NEW w \in NameWithout(c), h = Append(n, w)
  PROVE  AppendHistory(n, w) = h
<1>1. /\ Len(n) \in Nat /\ Len(h) = Len(n) + 1 /\ h[Len(n) + 1] = w
      /\ \A i \in 1 .. Len(n) : h[i] = n[i]
  BY Appended
<1>2. ASSUME n # << >> PROVE Last(n) # w
  <2>1. Len(n) \in 1 .. Len(n) /\ Len(n) \in 1 .. Len(h) - 1
    BY <1>1, <1>2
  <2> QED
    BY <1>1, <2>1 DEF IsHistory, Last
<1>3. w # << >>
  BY DEF NameWithout
<1> QED
  BY <1>2, <1>3 DEF AppendHistory

(* Splitting. *)

Split(c, names, word) == [separator |-> c, names |-> names, word |-> word]

LEMMA SplitAtIs ==
  ASSUME NEW text, NEW c, NEW n, NEW w,
         Splits!Folded(Split(c, << >>, << >>), text) = Split(c, n, w)
  PROVE  SplitAt(text, c) = AppendHistory(n, w)
<1>1. SplitAt(text, c) = LET acc == Splits!Folded(Split(c, << >>, << >>), text)
                         IN  AppendHistory(acc.names, acc.word)
  BY DEF SplitAt, Split, FoldLeft, MapThenFoldSet, Max, Splits!Folded, Splits!Greatest
<1> QED
  BY <1>1 DEF Split

LEMMA SplitsConcat ==
  ASSUME NEW start, NEW s \in CoText, NEW t \in CoText
  PROVE  Splits!Folded(start, s \o t) = Splits!Folded(Splits!Folded(start, s), t)
<1> DEFINE G == {r \in Seq(CoToken) : Splits!Folded(start, s \o r) = Splits!Folded(Splits!Folded(start, s), r)}
<1>0. s \in Seq(CoToken)
  BY DEF CoText
<1>1. << >> \in G
  <2>1. s \o << >> = s
    BY <1>0
  <2> QED
    BY <2>1, Splits!FoldEmpty
<1>2. ASSUME NEW r \in Seq(CoToken), NEW x \in CoToken, r \in G PROVE Append(r, x) \in G
  <2>1. /\ s \o Append(r, x) = Append(s \o r, x)
        /\ s \o r \in Seq(CoToken) /\ Append(r, x) \in Seq(CoToken)
    BY <1>0
  <2>2. Splits!Folded(start, Append(s \o r, x)) = TakeToken(Splits!Folded(start, s \o r), x)
    BY <2>1, Splits!FoldAppend
  <2> DEFINE begun == Splits!Folded(start, s)
  <2>3. Splits!Folded(start, s \o r) = Splits!Folded(begun, r)
    BY <1>2
  <2> HIDE DEF begun
  <2>4. Splits!Folded(begun, Append(r, x)) = TakeToken(Splits!Folded(begun, r), x)
    BY Splits!FoldAppend
  <2> QED
    BY <2>1, <2>2, <2>3, <2>4 DEF begun
<1> HIDE DEF G
<1>3. Seq(CoToken) \subseteq G
  BY <1>1, <1>2, Splits!SequencesGrow
<1> QED
  BY <1>3 DEF G, CoText

LEMMA TokenInWord ==
  ASSUME NEW c, NEW names, NEW word, NEW x, x # c
  PROVE  TakeToken(Split(c, names, word), x) = Split(c, names, Append(word, x))
  BY DEF TakeToken, Split

LEMMA TokenSplits ==
  ASSUME NEW c, NEW names, NEW word
  PROVE  TakeToken(Split(c, names, word), c) = Split(c, AppendHistory(names, word), << >>)
  BY DEF TakeToken, Split

\* A word without the separator is added to the word before it.
LEMMA SplitWord ==
  ASSUME NEW c, NEW names, NEW w \in CoText, ~Contains(w, c)
  PROVE  Splits!Folded(Split(c, names, << >>), w) = Split(c, names, w)
<1> DEFINE G == {r \in Seq(CoToken) : ~Contains(r, c) =>
                   Splits!Folded(Split(c, names, << >>), r) = Split(c, names, r)}
<1>1. << >> \in G
  BY Splits!FoldEmpty
<1>2. ASSUME NEW r \in Seq(CoToken), NEW x \in CoToken, r \in G PROVE Append(r, x) \in G
  <2>1. /\ Append(r, x) \in Seq(CoToken)
        /\ Contains(Append(r, x), c) <=> Contains(r, c) \/ x = c
    BY ContainsNot DEF CoText
  <2>2. SUFFICES ASSUME ~Contains(Append(r, x), c)
                 PROVE  Splits!Folded(Split(c, names, << >>), Append(r, x)) = Split(c, names, Append(r, x))
    BY <2>1
  <2>3. Splits!Folded(Split(c, names, << >>), Append(r, x))
          = TakeToken(Splits!Folded(Split(c, names, << >>), r), x)
    BY Splits!FoldAppend
  <2>4. Splits!Folded(Split(c, names, << >>), r) = Split(c, names, r) /\ x # c
    BY <1>2, <2>1, <2>2
  <2> QED
    BY <2>3, <2>4, TokenInWord
<1> HIDE DEF G
<1>3. Seq(CoToken) \subseteq G
  BY <1>1, <1>2, Splits!SequencesGrow
<1> QED
  BY <1>3 DEF G, CoText

LEMMA SplitSole ==
  ASSUME NEW c, NEW w \in CoText, ~Contains(w, c)
  PROVE  SplitAt(w, c) = AppendHistory(<< >>, w)
<1>1. Splits!Folded(Split(c, << >>, << >>), w) = Split(c, << >>, w)
  BY SplitWord
<1> QED
  BY <1>1, SplitAtIs

\* The names have no separator, and no token that the text has not.
LEMMA SplitTyped ==
  ASSUME NEW c, NEW D, NEW text \in Seq(CoToken \ D)
  PROVE  \A d \in D \union {c} : IsHistory(SplitAt(text, c), d)
<1> DEFINE H == {h \in Seq(CoText) : \A d \in D \union {c} : IsHistory(h, d)}
           W == {w \in CoText : \A d \in D \union {c} : ~Contains(w, d)}
           T == {Split(c, h, w) : h \in H, w \in W}
<1>0. << >> \in W /\ << >> \in H
  <2>1. Len(<< >>) = 0 /\ << >> \in CoText /\ << >> \in Seq(CoText)
    BY DEF CoText
  <2>2. \A d : ~Contains(<< >>, d)
    BY DEF Contains
  <2>3. \A d : IsHistory(<< >>, d)
    BY <2>1 DEF IsHistory
  <2> QED
    BY <2>1, <2>2, <2>3
<1>1. ASSUME NEW h \in H, NEW w \in W PROVE AppendHistory(h, w) \in H
  <2>1. AppendHistory(h, w) \in Seq(CoText)
    <3>1. h \in Seq(CoText) /\ w \in CoText
      OBVIOUS
    <3> HIDE DEF H, W
    <3> QED
      BY <3>1, Appended DEF AppendHistory
  <2>2. ASSUME NEW d \in D \union {c} PROVE IsHistory(AppendHistory(h, w), d)
    <3>1. IsHistory(h, d) /\ w \in CoText /\ ~Contains(w, d)
      OBVIOUS
    <3> HIDE DEF H, W
    <3> QED
      BY <3>1, HistoryGrows
  <2> QED
    BY <2>1, <2>2
<1>2. ASSUME NEW w \in W, NEW x \in CoToken \ D, x # c PROVE Append(w, x) \in W
  <2>1. \A d \in D \union {c} : x # d
    BY <1>2
  <2> QED
    BY <2>1, ContainsNot
<1> HIDE DEF H, W
<1>3. ASSUME NEW v \in T, NEW x \in CoToken \ D PROVE TakeToken(v, x) \in T
  <2>1. PICK h \in H, w \in W : v = Split(c, h, w)
    OBVIOUS
  <2>2. CASE x = c
    BY <1>0, <1>1, <2>1, <2>2, TokenSplits
  <2>3. CASE x # c
    BY <1>2, <2>1, <2>3, TokenInWord
  <2> QED
    BY <2>2, <2>3
<1>4. Split(c, << >>, << >>) \in T
  BY <1>0
<1> HIDE DEF T
<1>5. Splits!Folded(Split(c, << >>, << >>), text) \in T
  BY <1>3, <1>4, Splits!FoldKeeps
<1>6. PICK h \in H, w \in W : Splits!Folded(Split(c, << >>, << >>), text) = Split(c, h, w)
  BY <1>5 DEF T
<1>7. SplitAt(text, c) = AppendHistory(h, w)
  BY <1>6, SplitAtIs
<1>8. AppendHistory(h, w) \in H
  BY <1>1
<1> QED
  BY <1>7, <1>8 DEF H

\* parseImprovementHistory gives a history without ">", and without "," unless
\* the text has a ">".
LEMMA ParsedIsHistory ==
  ASSUME NEW text \in CoText
  PROVE  /\ IsHistory(ParseHistory(text), ">")
         /\ ~Contains(text, ">") => IsHistory(ParseHistory(text), ",")
<1>1. text \in Seq(CoToken \ {})
  BY DEF CoText
<1>2. CASE Contains(text, ">")
  BY <1>1, <1>2, SplitTyped DEF ParseHistory
<1>3. CASE ~Contains(text, ">")
  <2>1. text \in Seq(CoToken \ {">"})
    <3>1. text \in Seq(CoToken) /\ \A i \in 1 .. Len(text) : text[i] # ">"
      BY <1>3 DEF CoText, Contains
    <3> QED
      BY <3>1
  <2> QED
    BY <1>3, <2>1, SplitTyped DEF ParseHistory
<1> QED
  BY <1>2, <1>3

(* Joining. *)

LEMMA ContainsEither ==
  ASSUME NEW s \in CoText, NEW t \in CoText, NEW c
  PROVE  /\ s \o t \in CoText /\ Len(s \o t) = Len(s) + Len(t)
         /\ Contains(t, c) => Contains(s \o t, c)
<1>1. s \in Seq(CoToken) /\ t \in Seq(CoToken)
  BY DEF CoText
<1>2. s \o t \in Seq(CoToken) /\ Len(s \o t) = Len(s) + Len(t)
  BY <1>1
<1>3. ASSUME NEW i \in 1 .. Len(t) PROVE Len(s) + i \in 1 .. Len(s \o t) /\ (s \o t)[Len(s) + i] = t[i]
  BY <1>1, <1>2
<1> QED
  BY <1>1, <1>2, <1>3 DEF CoText, Contains

LEMMA SeparatorIs == << ">" >> \in CoText /\ Contains(<< ">" >>, ">") /\ Len(<< ">" >>) = 1
<1>1. ">" \in CoToken
  BY DEF CoToken
<1> QED
  BY <1>1 DEF CoText, Contains

\* The joined text of a history that is not empty: split, it is the names
\* before the last one and the last one as the word begun.
JoinedText(s) == Joins!Folded(<< >>, s)
Resplit(s) ==
  /\ JoinedText(s) \in CoText /\ JoinedText(s) # << >>
  /\ Len(s) = 1 => JoinedText(s) = s[1]
  /\ Len(s) > 1 => Contains(JoinedText(s), ">")
  /\ \E n \in Seq(NameWithout(">")), w \in NameWithout(">") :
       s = Append(n, w) /\ Splits!Folded(Split(">", << >>, << >>), JoinedText(s)) = Split(">", n, w)

LEMMA FirstJoins ==
  ASSUME NEW x \in NameWithout(">")
  PROVE  Resplit(Append(<< >>, x))
<1> DEFINE s == Append(<< >>, x)
<1>1. << >> \in Seq(NameWithout(">")) /\ Len(s) = 1 /\ s[1] = x
  OBVIOUS
<1>2. JoinedText(s) = x
  <2>1. JoinedText(s) = JoinName(Joins!Folded(<< >>, << >>), x)
    BY <1>1, Joins!FoldAppend DEF JoinedText
  <2> QED
    BY <2>1, Joins!FoldEmpty DEF JoinName
<1>3. x \in CoText /\ x # << >> /\ ~Contains(x, ">")
  BY DEF NameWithout
<1>4. Splits!Folded(Split(">", << >>, << >>), x) = Split(">", << >>, x)
  BY <1>3, SplitWord
<1> HIDE DEF s
<1>5. s = Append(<< >>, x)
  BY DEF s
<1>6. \E n \in Seq(NameWithout(">")), w \in NameWithout(">") :
        s = Append(n, w) /\ Splits!Folded(Split(">", << >>, << >>), x) = Split(">", n, w)
  BY <1>1, <1>4, <1>5
<1>7. ~(Len(s) > 1)
  BY <1>1
<1>8. Resplit(s)
  BY <1>1, <1>2, <1>3, <1>6, <1>7 DEF Resplit
<1> QED
  BY <1>5, <1>8

LEMMA NextJoins ==
  ASSUME NEW s, IsHistory(s, ">"), Resplit(s), NEW x \in NameWithout(">")
  PROVE  Resplit(Append(s, x))
<1> DEFINE r == Append(s, x)
<1>1. s \in Seq(NameWithout(">"))
  BY DEF IsHistory
<1>2. x \in CoText /\ x # << >> /\ ~Contains(x, ">") /\ JoinedText(s) \in CoText /\ JoinedText(s) # << >>
  BY DEF NameWithout, Resplit
<1>3. JoinedText(r) = JoinedText(s) \o << ">" >> \o x
  <2>1. JoinedText(r) = JoinName(JoinedText(s), x)
    BY <1>1, Joins!FoldAppend DEF JoinedText
  <2> QED
    BY <1>2, <2>1 DEF JoinName
<1>4. PICK n \in Seq(NameWithout(">")), w \in NameWithout(">") :
        s = Append(n, w) /\ Splits!Folded(Split(">", << >>, << >>), JoinedText(s)) = Split(">", n, w)
  BY DEF Resplit
<1> DEFINE begun == JoinedText(s) \o << ">" >>
<1>5. begun \in CoText /\ Contains(begun, ">") /\ Len(begun) = Len(JoinedText(s)) + 1
  BY <1>2, SeparatorIs, ContainsEither
<1>6. Splits!Folded(Split(">", << >>, << >>), begun) = Split(">", s, << >>)
  <2>1. JoinedText(s) \in Seq(CoToken) /\ begun = Append(JoinedText(s), ">") /\ ">" \in CoToken
    BY <1>2 DEF CoText, CoToken
  <2>2. Splits!Folded(Split(">", << >>, << >>), Append(JoinedText(s), ">"))
          = TakeToken(Splits!Folded(Split(">", << >>, << >>), JoinedText(s)), ">")
    BY <2>1, Splits!FoldAppend
  <2>3. AppendHistory(n, w) = s
    BY <1>4, NewNameEnters
  <2> QED
    BY <1>4, <2>1, <2>2, <2>3, TokenSplits
<1> HIDE DEF begun
<1>7. Splits!Folded(Split(">", << >>, << >>), begun \o x) = Split(">", s, x)
  <2>1. Splits!Folded(Split(">", << >>, << >>), begun \o x)
          = Splits!Folded(Splits!Folded(Split(">", << >>, << >>), begun), x)
    BY <1>2, <1>5, SplitsConcat
  <2> QED
    BY <1>2, <1>6, <2>1, SplitWord
<1>8. JoinedText(r) = begun \o x
  BY <1>3 DEF begun
<1>9. begun \o x \in CoText /\ begun \o x # << >> /\ Contains(begun \o x, ">")
  <2>1. begun \in Seq(CoToken) /\ x \in Seq(CoToken) /\ \E i \in 1 .. Len(begun) : begun[i] = ">"
    BY <1>2, <1>5 DEF CoText, Contains
  <2>2. PICK i \in 1 .. Len(begun) : begun[i] = ">"
    BY <2>1
  <2>3. begun \o x \in Seq(CoToken) /\ i \in 1 .. Len(begun \o x) /\ (begun \o x)[i] = ">"
    BY <2>1, <2>2
  <2> QED
    BY <2>3 DEF CoText, Contains
<1>10. Len(r) # 1
  <2>1. Len(s) # 0 /\ Len(s) \in Nat /\ Len(r) = Len(s) + 1
    <3>1. Len(s) = Len(n) + 1 /\ Len(n) \in Nat
      BY <1>4
    <3> QED
      BY <1>1, <3>1
  <2> QED
    BY <2>1
<1>11. r = Append(s, x)
  OBVIOUS
<1> HIDE DEF r
<1> QED
  BY <1>1, <1>7, <1>8, <1>9, <1>10, <1>11 DEF Resplit

LEMMA ListsResplit == ASSUME NEW h, IsHistory(h, ">"), h # << >> PROVE Resplit(h)
<1> DEFINE S == NameWithout(">")
           G == {s \in Seq(S) : (\A i \in 1 .. Len(s) - 1 : s[i] # s[i + 1]) /\ s # << >> => Resplit(s)}
<1>1. << >> \in G
  OBVIOUS
<1>2. ASSUME NEW s \in Seq(S), NEW x \in S, s \in G PROVE Append(s, x) \in G
  <2> DEFINE r == Append(s, x)
  <2>1. /\ r \in Seq(S) /\ Len(r) = Len(s) + 1 /\ Len(s) \in Nat
        /\ \A i \in 1 .. Len(s) : r[i] = s[i]
    BY Appended
  <2>2. SUFFICES ASSUME \A i \in 1 .. Len(r) - 1 : r[i] # r[i + 1] PROVE Resplit(r)
    BY <2>1
  <2>3. CASE s = << >>
    BY <2>3, FirstJoins
  <2>4. CASE s # << >>
    <3> HIDE DEF r
    <3>1. ASSUME NEW i \in 1 .. Len(s) - 1 PROVE s[i] # s[i + 1]
      <4>1. i \in 1 .. Len(r) - 1 /\ i \in 1 .. Len(s) /\ i + 1 \in 1 .. Len(s)
        BY <2>1
      <4> QED
        BY <2>1, <2>2, <4>1
    <3>2. IsHistory(s, ">") /\ Resplit(s)
      BY <1>2, <2>4, <3>1 DEF IsHistory
    <3> QED
      BY <3>2, NextJoins DEF r
  <2> QED
    BY <2>3, <2>4
<1> HIDE DEF G
<1>3. Seq(S) \subseteq G
  BY <1>1, <1>2, Enters!SequencesGrow
<1> QED
  BY <1>3 DEF G, IsHistory

LEMMA HistoriesAreLists ==
  ASSUME NEW c, NEW h, IsHistory(h, c)
  PROVE  h \in Seq(NameWithout(c)) /\ Len(h) \in Nat /\ (Len(h) = 1 => h = << h[1] >> /\ h[1] \in NameWithout(c))
                /\ (h # << >> /\ Len(h) # 1 => Len(h) > 1)
<1>1. h \in Seq(NameWithout(c))
  BY DEF IsHistory
<1>2. Len(h) \in Nat /\ (h # << >> /\ Len(h) # 1 => Len(h) > 1)
  <2> DEFINE S == NameWithout(c)
  <2>1. h \in Seq(S)
    BY <1>1
  <2> HIDE DEF S
  <2>2. Len(h) \in Nat /\ (Len(h) = 0 => h = << >>)
    BY <2>1
  <2>3. ASSUME NEW n \in Nat, n # 0, n # 1 PROVE n > 1
    BY <2>3
  <2> QED
    BY <2>2, <2>3, Zenon
<1>3. ASSUME Len(h) = 1 PROVE h = << h[1] >> /\ h[1] \in NameWithout(c)
  <2>1. h[1] \in NameWithout(c) /\ << h[1] >> \in Seq(NameWithout(c)) /\ Len(<< h[1] >>) = 1
    BY <1>1, <1>3
  <2> QED
    BY <1>1, <1>3, <2>1
<1> QED
  BY <1>1, <1>2, <1>3

SoleHasNoComma(h) == Len(h) = 1 => ~Contains(h[1], ",")

\* What formatImprovementHistory writes, parseImprovementHistory reads.
LEMMA HistoryIsReadBack ==
  ASSUME NEW h, IsHistory(h, ">"), SoleHasNoComma(h)
  PROVE  /\ FormatHistory(h) \in CoText /\ (FormatHistory(h) = << >> <=> h = << >>)
         /\ ParseHistory(FormatHistory(h)) = h
<1>1. FormatHistory(h) = JoinedText(h)
  <2>1. NormalizeHistory(h) = h
    BY ListsStay
  <2> QED
    BY <2>1 DEF FormatHistory, FoldLeft, MapThenFoldSet, Max, JoinedText, Joins!Folded, Joins!Greatest
<1>2. h \in Seq(NameWithout(">")) /\ Len(h) \in Nat
  BY HistoriesAreLists
<1>3. CASE h = << >>
  <2>1. JoinedText(h) = << >>
    BY <1>3, Joins!FoldEmpty DEF JoinedText
  <2>2. << >> \in CoText /\ ~Contains(<< >>, ">")
    BY DEF CoText, Contains
  <2>3. SplitAt(<< >>, ",") = AppendHistory(<< >>, << >>)
    BY SplitAtIs, Splits!FoldEmpty
  <2> QED
    BY <1>1, <1>3, <2>1, <2>2, <2>3 DEF ParseHistory, AppendHistory
<1>4. CASE Len(h) = 1
  <2> DEFINE w == h[1]
  <2>1. JoinedText(h) = w /\ w # << >> /\ w \in CoText /\ ~Contains(w, ">") /\ ~Contains(w, ",") /\ h # << >>
    <3>1. h # << >> /\ w \in NameWithout(">")
      BY <1>4, HistoriesAreLists
    <3>2. Resplit(h)
      BY <3>1, ListsResplit
    <3> QED
      BY <1>4, <3>1, <3>2 DEF Resplit, NameWithout, SoleHasNoComma
  <2>2. h = << w >>
    BY <1>4, HistoriesAreLists
  <2> HIDE DEF w
  <2>3. SplitAt(w, ",") = AppendHistory(<< >>, w)
    BY <2>1, SplitSole
  <2>4. AppendHistory(<< >>, w) = << w >>
    <3>1. Append(<< >>, w) = << w >>
      OBVIOUS
    <3> QED
      BY <2>1, <3>1, Zenon DEF AppendHistory
  <2>5. ParseHistory(w) = SplitAt(w, ",")
    BY <2>1 DEF ParseHistory
  <2> QED
    BY <1>1, <2>1, <2>2, <2>3, <2>4, <2>5
<1>5. CASE h # << >> /\ Len(h) # 1
  <2>1. Resplit(h) /\ Contains(JoinedText(h), ">")
    <3>1. Len(h) > 1
      BY <1>5, HistoriesAreLists
    <3>2. Resplit(h)
      BY <1>5, ListsResplit
    <3> QED
      BY <3>1, <3>2 DEF Resplit
  <2>2. PICK n \in Seq(NameWithout(">")), w \in NameWithout(">") :
          h = Append(n, w) /\ Splits!Folded(Split(">", << >>, << >>), JoinedText(h)) = Split(">", n, w)
    BY <2>1 DEF Resplit
  <2>3. SplitAt(JoinedText(h), ">") = AppendHistory(n, w)
    BY <2>2, SplitAtIs
  <2>4. AppendHistory(n, w) = h
    BY <2>2, NewNameEnters
  <2>5. JoinedText(h) \in CoText /\ JoinedText(h) # << >>
    BY <2>1 DEF Resplit
  <2> QED
    BY <1>1, <1>5, <2>1, <2>3, <2>4, <2>5 DEF ParseHistory
<1> QED
  BY <1>2, <1>3, <1>4, <1>5

(***************************************************************************)
(* The record and the map.                                                 *)
(***************************************************************************)

\* What parsing a map gives: texts in their normal form, whole numbers, a history.
CoRecord == [schema : CoText, failure : CoText, severity : CoText, agent : CoText, mode : CoText,
             routing : Seq(NameWithout(">")), count : Int, state : CoText, budget : Int, outcome : CoText]
Carried(m) ==
  /\ m \in CoRecord
  /\ Normalize("severity", m.severity) = m.severity
  /\ Normalize("routing_mode", m.mode) = m.mode
  /\ Normalize("provider_state", m.state) = m.state
  /\ Normalize("outcome", m.outcome) = m.outcome
  /\ IsHistory(m.routing, ">")

LEMMA KnownKeys == DOMAIN Known = {"severity", "routing_mode", "provider_state", "outcome"}
  BY DEF Known

LEMMA ParsedIsCarried ==
  ASSUME NEW meta, MetaTyped(meta)
  PROVE  Carried(CorrectionFromMap(meta))
<1> DEFINE m == CorrectionFromMap(meta)
<1>1. \A k : Text(meta, k) \in CoText
  BY TextTyped
<1>2. m.count \in Int /\ m.budget \in Int
  BY TextTyped DEF CorrectionFromMap
<1>3. /\ m.schema \in CoText /\ m.failure \in CoText /\ m.agent \in CoText
      /\ m.severity \in CoText /\ m.mode \in CoText /\ m.state \in CoText /\ m.outcome \in CoText
  BY <1>1, NormalizeTyped, KnownKeys DEF CorrectionFromMap
<1>4. /\ Normalize("severity", m.severity) = m.severity
      /\ Normalize("routing_mode", m.mode) = m.mode
      /\ Normalize("provider_state", m.state) = m.state
      /\ Normalize("outcome", m.outcome) = m.outcome
  BY NormalizeTwice, KnownKeys DEF CorrectionFromMap
<1>5. IsHistory(m.routing, ">")
  BY <1>1, ParsedIsHistory DEF CorrectionFromMap
<1>6. m.routing \in Seq(NameWithout(">"))
  BY <1>5 DEF IsHistory
<1>7. m = [schema |-> m.schema, failure |-> m.failure, severity |-> m.severity, agent |-> m.agent,
           mode |-> m.mode, routing |-> m.routing, count |-> m.count, state |-> m.state,
           budget |-> m.budget, outcome |-> m.outcome]
  BY DEF CorrectionFromMap
<1> HIDE DEF m
<1>8. m \in CoRecord
  BY <1>2, <1>3, <1>6, <1>7 DEF CoRecord
<1> QED
  BY <1>4, <1>5, <1>8 DEF Carried, m

\* What a tool sends: the record forwarded or not, itself entered.
SentOn(m, tool, recheck) ==
  [IF recheck THEN ForwardForRecheck(m) ELSE m EXCEPT !.routing = AppendHistory(m.routing, tool)]

LEMMA SentIs ==
  ASSUME NEW m \in CoRecord, NEW tool, NEW recheck \in BOOLEAN
  PROVE  LET s == SentOn(m, tool, recheck) IN
         /\ s = [schema |-> s.schema, failure |-> m.failure, severity |-> m.severity, agent |-> s.agent,
                 mode |-> s.mode, routing |-> AppendHistory(m.routing, tool), count |-> m.count,
                 state |-> m.state, budget |-> m.budget, outcome |-> s.outcome]
         /\ s.schema \in {m.schema, << "1" >>} /\ s.agent \in {m.agent, << >>} /\ s.mode \in {m.mode, << >>}
         /\ s.outcome = m.outcome \/ s.outcome = << "pending" >>
<1>1. CASE recheck /\ IsImprovement(m)
  <2> DEFINE sc == IF m.schema = << >> THEN << "1" >> ELSE m.schema
             ou == IF m.outcome = << >> THEN << "pending" >> ELSE m.outcome
             f == [m EXCEPT !.schema = sc, !.agent = << >>, !.mode = << >>, !.outcome = ou]
  <2>1. ForwardForRecheck(m) = f
    BY <1>1 DEF ForwardForRecheck
  <2>2. SentOn(m, tool, recheck) = [f EXCEPT !.routing = AppendHistory(m.routing, tool)]
    BY <1>1, <2>1, Zenon DEF SentOn
  <2>3. sc \in {m.schema, << "1" >>} /\ (ou = m.outcome \/ ou = << "pending" >>)
    OBVIOUS
  <2> HIDE DEF sc, ou
  <2>4. SentOn(m, tool, recheck) =
           [schema |-> sc, failure |-> m.failure, severity |-> m.severity, agent |-> << >>,
            mode |-> << >>, routing |-> AppendHistory(m.routing, tool), count |-> m.count,
            state |-> m.state, budget |-> m.budget, outcome |-> ou]
    BY <2>2 DEF CoRecord
  <2> QED
    BY <2>3, <2>4
<1>2. CASE ~(recheck /\ IsImprovement(m))
  <2>1. SentOn(m, tool, recheck) = [m EXCEPT !.routing = AppendHistory(m.routing, tool)]
    BY <1>2, Zenon DEF SentOn, ForwardForRecheck
  <2> QED
    BY <2>1 DEF CoRecord
<1> QED
  BY <1>1, <1>2

LEMMA ToolEnters ==
  ASSUME NEW h, IsHistory(h, ">"), NEW tool \in CoTool
  PROVE  /\ IsHistory(AppendHistory(h, tool), ">") /\ AppendHistory(h, tool) # << >>
         /\ SoleHasNoComma(AppendHistory(h, tool))
<1>1. tool \in CoText /\ tool # << >> /\ ~Contains(tool, ">") /\ ~Contains(tool, ",")
  BY ToolsAreTexts, CorrectionsAssumption
<1>2. IsHistory(AppendHistory(h, tool), ">")
  BY <1>1, HistoryGrows
<1>3. CASE h # << >> /\ Last(h) = tool
  <2>1. AppendHistory(h, tool) = h
    BY <1>3 DEF AppendHistory
  <2> QED
    BY <1>1, <1>2, <1>3, <2>1 DEF SoleHasNoComma, Last
<1>4. CASE h = << >> \/ Last(h) # tool
  <2>1. AppendHistory(h, tool) = Append(h, tool)
    BY <1>1, <1>4, Zenon DEF AppendHistory
  <2> DEFINE S == NameWithout(">")
  <2>2. h \in Seq(S) /\ tool \in S
    BY <1>1 DEF IsHistory, NameWithout
  <2> HIDE DEF S
  <2>3. Len(Append(h, tool)) = Len(h) + 1 /\ Len(h) \in Nat /\ Append(h, tool)[Len(h) + 1] = tool
    BY <2>2, Appended
  <2>4. Append(h, tool) # << >>
    BY <2>3
  <2>5. Len(Append(h, tool)) = 1 => Append(h, tool)[1] = tool
    BY <2>3
  <2> QED
    BY <1>1, <1>2, <2>1, <2>4, <2>5 DEF SoleHasNoComma
<1> QED
  BY <1>3, <1>4

LEMMA SentIsCarried ==
  ASSUME NEW m, Carried(m), NEW tool \in CoTool, NEW recheck \in BOOLEAN
  PROVE  Carried(SentOn(m, tool, recheck))
<1> DEFINE s == SentOn(m, tool, recheck)
<1>1. m \in CoRecord
  BY DEF Carried
<1>2. << "1" >> \in CoText /\ << "pending" >> \in CoText /\ << >> \in CoText
  <2>1. "1" \in CoToken
    BY DEF CoToken
  <2>2. "pending" \in CoToken
    <3>1. "pending" \in Known["outcome"] /\ "outcome" \in DOMAIN Known
      BY DEF Known
    <3> QED
      BY <3>1 DEF CoToken
  <2> QED
    BY <2>1, <2>2 DEF CoText
<1>3. Normalize("routing_mode", << >>) = << >> /\ Normalize("outcome", << "pending" >>) = << "pending" >>
  <2>1. "pending" \in Known["outcome"]
    BY DEF Known
  <2> QED
    BY <2>1, NormalizeNothing, WordsStay, KnownKeys
<1>4. IsHistory(AppendHistory(m.routing, tool), ">")
  BY ToolEnters DEF Carried
<1>5. /\ s = [schema |-> s.schema, failure |-> m.failure, severity |-> m.severity, agent |-> s.agent,
              mode |-> s.mode, routing |-> AppendHistory(m.routing, tool), count |-> m.count,
              state |-> m.state, budget |-> m.budget, outcome |-> s.outcome]
      /\ s.schema \in {m.schema, << "1" >>} /\ s.agent \in {m.agent, << >>} /\ s.mode \in {m.mode, << >>}
      /\ s.outcome = m.outcome \/ s.outcome = << "pending" >>
  BY <1>1, SentIs
<1> HIDE DEF s
<1>6. AppendHistory(m.routing, tool) \in Seq(NameWithout(">"))
  BY <1>4 DEF IsHistory
<1>7. s \in CoRecord
  <2>1. /\ m.schema \in CoText /\ m.failure \in CoText /\ m.agent \in CoText /\ m.severity \in CoText
        /\ m.mode \in CoText /\ m.state \in CoText /\ m.outcome \in CoText /\ m.count \in Int /\ m.budget \in Int
    BY <1>1 DEF CoRecord
  <2>2. s.schema \in CoText /\ s.agent \in CoText /\ s.mode \in CoText /\ s.outcome \in CoText
    BY <1>2, <1>5, <2>1
  <2>3. \A sc, ag, mo, ou \in CoText :
          [schema |-> sc, failure |-> m.failure, severity |-> m.severity, agent |-> ag,
           mode |-> mo, routing |-> AppendHistory(m.routing, tool), count |-> m.count,
           state |-> m.state, budget |-> m.budget, outcome |-> ou] \in CoRecord
    BY <1>6, <2>1 DEF CoRecord
  <2>4. [schema |-> s.schema, failure |-> m.failure, severity |-> m.severity, agent |-> s.agent,
         mode |-> s.mode, routing |-> AppendHistory(m.routing, tool), count |-> m.count,
         state |-> m.state, budget |-> m.budget, outcome |-> s.outcome] \in CoRecord
    BY <2>2, <2>3, Zenon
  <2> QED
    BY <1>5, <2>4, Zenon
<1>8. s.severity = m.severity /\ s.state = m.state /\ s.routing = AppendHistory(m.routing, tool)
  BY <1>5
<1> QED
  BY <1>3, <1>4, <1>5, <1>7, <1>8 DEF Carried, s

(* Applying. *)

CoKeys == {"schema_version", "failure_type", "severity", "target_agent", "routing_mode", "routing_history",
           "recurrence_count", "provider_state", "provider_retry_budget", "outcome"}

LEMMA SaidKeys == ASSUME NEW m PROVE DOMAIN Said(m) = CoKeys
  BY DEF Said, CoKeys

LEMMA ApplyIs ==
  ASSUME NEW m, NEW meta, NEW k
  PROVE  IF k \in CoKeys /\ Said(m)[k] # << >>
         THEN /\ k \in DOMAIN Apply(m, meta) /\ Apply(m, meta)[k] = Said(m)[k]
              /\ Text(Apply(m, meta), k) = Said(m)[k]
         ELSE /\ k \in DOMAIN Apply(m, meta) <=> k \in DOMAIN meta
              /\ (k \in DOMAIN meta => Apply(m, meta)[k] = meta[k])
              /\ Text(Apply(m, meta), k) = Text(meta, k)
<1> DEFINE keys == {j \in DOMAIN Said(m) : Said(m)[j] # << >>}
<1>1. Apply(m, meta) = [j \in DOMAIN meta \union keys |-> IF j \in keys THEN Said(m)[j] ELSE meta[j]]
  BY DEF Apply
<1>2. k \in keys <=> k \in CoKeys /\ Said(m)[k] # << >>
  BY SaidKeys
<1> HIDE DEF keys
<1> QED
  BY <1>1, <1>2 DEF Text

LEMMA SaidTyped ==
  ASSUME NEW m, Carried(m), SoleHasNoComma(m.routing), NEW k \in CoKeys
  PROVE  Said(m)[k] \in CoText /\ (k \in {"recurrence_count", "provider_retry_budget"} => Numbered(Said(m)[k]))
<1>1. m \in CoRecord
  BY DEF Carried
<1>2. \A n \in Int : << "#", n >> \in CoText /\ Numbered(<< "#", n >>)
  BY DEF CoText, CoToken, Numbered
<1>3. << >> \in CoText /\ Numbered(<< >>) /\ << "1" >> \in CoText
  BY DEF CoText, CoToken, Numbered
<1>4. CASE k \in {"recurrence_count", "provider_retry_budget"}
  BY <1>1, <1>2, <1>3, <1>4 DEF Said, CoRecord
<1>5. CASE k \in {"schema_version", "failure_type", "target_agent", "severity", "routing_mode", "provider_state", "outcome"}
  BY <1>1, <1>3, <1>5 DEF Said, CoRecord, Carried
<1>6. CASE k = "routing_history"
  <2>1. FormatHistory(m.routing) \in CoText
    BY HistoryIsReadBack DEF Carried
  <2> QED
    BY <1>6, <2>1 DEF Said
<1> QED
  BY <1>4, <1>5, <1>6 DEF CoKeys

LEMMA ApplyTyped ==
  ASSUME NEW m, Carried(m), SoleHasNoComma(m.routing), NEW meta, MetaTyped(meta)
  PROVE  MetaTyped(Apply(m, meta))
<1>1. ASSUME NEW k \in DOMAIN Apply(m, meta) PROVE Apply(m, meta)[k] \in CoText
  BY <1>1, ApplyIs, SaidTyped DEF MetaTyped
<1>2. ASSUME NEW k \in DOMAIN Apply(m, meta) \intersect {"recurrence_count", "provider_retry_budget"}
      PROVE  Numbered(Apply(m, meta)[k])
  BY <1>2, ApplyIs, SaidTyped DEF MetaTyped
<1> QED
  BY <1>1, <1>2 DEF MetaTyped

(***************************************************************************)
(* A hop: what the next tool reads of what this one sends.                 *)
(***************************************************************************)

\* What the two records say alike.
Agrees(n, m) ==
  /\ n.failure = m.failure /\ n.severity = m.severity /\ n.state = m.state
  /\ m.count >= 0 => n.count = m.count
  /\ n.outcome \in {m.outcome, << "pending" >>}
  /\ HasSupportedVocabulary(m) => HasSupportedVocabulary(n)

LEMMA NothingSaid ==
  /\ MetaTyped(<< >>) /\ \A k : Text(<< >>, k) = << >>
  /\ Count(<< >>) = 0
<1>1. DOMAIN << >> = {} /\ Len(<< >>) = 0
  OBVIOUS
<1> QED
  BY <1>1 DEF MetaTyped, Text, Count

LEMMA NumberReads == ASSUME NEW n PROVE Count(<< "#", n >>) = n /\ << "#", n >> # << >>
  BY DEF Count

\* The fields of a record as they are read from a map.
LEMMA CorrectionFields ==
  ASSUME NEW meta
  PROVE  LET m == CorrectionFromMap(meta) IN
         /\ m.schema = Text(meta, "schema_version") /\ m.failure = Text(meta, "failure_type")
         /\ m.severity = Normalize("severity", Text(meta, "severity")) /\ m.agent = Text(meta, "target_agent")
         /\ m.mode = Normalize("routing_mode", Text(meta, "routing_mode"))
         /\ m.routing = ParseHistory(Text(meta, "routing_history"))
         /\ m.count = Count(Text(meta, "recurrence_count"))
         /\ m.state = Normalize("provider_state", Text(meta, "provider_state"))
         /\ m.budget = Count(Text(meta, "provider_retry_budget"))
         /\ m.outcome = Normalize("outcome", Text(meta, "outcome"))
  BY DEF CorrectionFromMap

LEMMA SaidFields ==
  ASSUME NEW m, Carried(m)
  PROVE  /\ Said(m)["schema_version"] = IF m.schema = << >> THEN << "1" >> ELSE m.schema
         /\ Said(m)["failure_type"] = m.failure /\ Said(m)["severity"] = m.severity
         /\ Said(m)["target_agent"] = m.agent /\ Said(m)["routing_mode"] = m.mode
         /\ Said(m)["routing_history"] = FormatHistory(m.routing)
         /\ Said(m)["recurrence_count"] = IF m.count > 0 THEN << "#", m.count >> ELSE << >>
         /\ Said(m)["provider_state"] = m.state
         /\ Said(m)["provider_retry_budget"] = IF m.state # << >> \/ m.budget # 0 THEN << "#", m.budget >> ELSE << >>
         /\ Said(m)["outcome"] = m.outcome
  BY DEF Said, Carried

LEMMA TextApplied ==
  ASSUME NEW m, NEW meta, NEW k \in CoKeys
  PROVE  Text(Apply(m, meta), k) = IF Said(m)[k] # << >> THEN Said(m)[k] ELSE Text(meta, k)
  BY ApplyIs

\* The record that the next tool reads, from what was sent and what it was
\* written on: nothing, or the map it was read from.
LEMMA NextReads ==
  ASSUME NEW meta, MetaTyped(meta), NEW base \in {<< >>, meta}, NEW tool \in CoTool, NEW recheck \in BOOLEAN
  PROVE  LET m == CorrectionFromMap(meta)
             new == Apply(SentOn(m, tool, recheck), base)
             n == CorrectionFromMap(new)
         IN  MetaTyped(new) /\ Agrees(n, m) /\ n.routing = AppendHistory(m.routing, tool)
<1> DEFINE m == CorrectionFromMap(meta)
           s == SentOn(m, tool, recheck)
           new == Apply(s, base)
           n == CorrectionFromMap(new)
<1>1. Carried(m) /\ m \in CoRecord /\ IsHistory(m.routing, ">")
  BY ParsedIsCarried DEF Carried
<1>2. Carried(s)
  BY <1>1, SentIsCarried
<1>3. /\ s.failure = m.failure /\ s.severity = m.severity /\ s.count = m.count /\ s.state = m.state
      /\ s.routing = AppendHistory(m.routing, tool) /\ s.mode \in {m.mode, << >>}
      /\ s.outcome = m.outcome \/ s.outcome = << "pending" >>
  BY <1>1, SentIs
<1>4. IsHistory(s.routing, ">") /\ s.routing # << >> /\ SoleHasNoComma(s.routing)
  BY <1>1, <1>3, ToolEnters
<1>5. MetaTyped(base)
  BY NothingSaid
<1>6. MetaTyped(new)
  BY <1>2, <1>4, <1>5, ApplyTyped
<1>7. \A k : Text(base, k) = << >> \/ Text(base, k) = Text(meta, k)
  BY NothingSaid
<1>8. m.count \in Int
  BY <1>1 DEF CoRecord
<1>9. \A k \in CoKeys : Text(new, k) = IF Said(s)[k] # << >> THEN Said(s)[k] ELSE Text(base, k)
  BY TextApplied
<1>10. /\ Said(s)["failure_type"] = m.failure /\ Said(s)["severity"] = m.severity
       /\ Said(s)["routing_mode"] = s.mode /\ Said(s)["routing_history"] = FormatHistory(s.routing)
       /\ Said(s)["recurrence_count"] = IF m.count > 0 THEN << "#", m.count >> ELSE << >>
       /\ Said(s)["provider_state"] = m.state /\ Said(s)["outcome"] = s.outcome
  <2> HIDE DEF m, s
  <2> QED
    BY <1>2, <1>3, SaidFields
<1>11. {"failure_type", "severity", "routing_mode", "routing_history", "recurrence_count", "provider_state",
        "outcome"} \subseteq CoKeys
  BY DEF CoKeys
<1> HIDE DEF m, s, new
<1>12. n.failure = m.failure
  <2>1. Text(new, "failure_type") = IF m.failure # << >> THEN m.failure ELSE Text(base, "failure_type")
    BY <1>9, <1>10, <1>11
  <2> QED
    BY <1>7, <2>1, CorrectionFields DEF m
<1>13. n.severity = m.severity
  <2>1. Text(new, "severity") = IF m.severity # << >> THEN m.severity ELSE Text(base, "severity")
    BY <1>9, <1>10, <1>11
  <2>2. Normalize("severity", m.severity) = m.severity /\ Normalize("severity", << >>) = << >>
    BY <1>1, NormalizeNothing, KnownKeys DEF Carried
  <2>3. m.severity = Normalize("severity", Text(meta, "severity")) /\ n.severity = Normalize("severity", Text(new, "severity"))
    BY CorrectionFields DEF m
  <2> QED
    BY <1>7, <2>1, <2>2, <2>3
<1>14. n.state = m.state
  <2>1. Text(new, "provider_state") = IF m.state # << >> THEN m.state ELSE Text(base, "provider_state")
    BY <1>9, <1>10, <1>11
  <2>2. Normalize("provider_state", m.state) = m.state /\ Normalize("provider_state", << >>) = << >>
    BY <1>1, NormalizeNothing, KnownKeys DEF Carried
  <2>3. m.state = Normalize("provider_state", Text(meta, "provider_state")) /\ n.state = Normalize("provider_state", Text(new, "provider_state"))
    BY CorrectionFields DEF m
  <2> QED
    BY <1>7, <2>1, <2>2, <2>3
<1>15. ASSUME m.count >= 0 PROVE n.count = m.count
  <2>1. n.count = Count(Text(new, "recurrence_count")) /\ m.count = Count(Text(meta, "recurrence_count"))
    BY CorrectionFields DEF m
  <2>2. CASE m.count > 0
    <3>1. Said(s)["recurrence_count"] = << "#", m.count >>
      BY <1>10, <2>2
    <3>2. Text(new, "recurrence_count") = << "#", m.count >>
      BY <1>9, <1>11, <3>1, NumberReads
    <3> QED
      BY <2>1, <3>2, NumberReads
  <2>3. CASE m.count = 0
    <3>1. Said(s)["recurrence_count"] = << >>
      BY <1>10, <2>3
    <3>2. Text(new, "recurrence_count") = Text(base, "recurrence_count")
      BY <1>9, <1>11, <3>1
    <3> QED
      BY <1>7, <2>1, <2>3, <3>2, NothingSaid
  <2>4. m.count > 0 \/ m.count = 0
    BY <1>8, <1>15
  <2> QED
    BY <2>2, <2>3, <2>4
<1>16. n.outcome \in {m.outcome, << "pending" >>}
  <2>1. Text(new, "outcome") = IF s.outcome # << >> THEN s.outcome ELSE Text(base, "outcome")
    BY <1>9, <1>10, <1>11
  <2>2. Normalize("outcome", s.outcome) = s.outcome /\ Normalize("outcome", << >>) = << >>
    BY <1>2, NormalizeNothing, KnownKeys DEF Carried
  <2>3. m.outcome = Normalize("outcome", Text(meta, "outcome")) /\ n.outcome = Normalize("outcome", Text(new, "outcome"))
    BY CorrectionFields DEF m
  <2>4. << "pending" >> # << >>
    OBVIOUS
  <2> QED
    BY <1>3, <1>7, <2>1, <2>2, <2>3, <2>4
<1>17. n.mode \in {m.mode, << >>}
  <2>1. Text(new, "routing_mode") = IF s.mode # << >> THEN s.mode ELSE Text(base, "routing_mode")
    BY <1>9, <1>10, <1>11
  <2>2. Normalize("routing_mode", s.mode) = s.mode /\ Normalize("routing_mode", << >>) = << >>
    BY <1>2, NormalizeNothing, KnownKeys DEF Carried
  <2>3. m.mode = Normalize("routing_mode", Text(meta, "routing_mode")) /\ n.mode = Normalize("routing_mode", Text(new, "routing_mode"))
    BY CorrectionFields DEF m
  <2> QED
    BY <1>3, <1>7, <2>1, <2>2, <2>3
<1>18. n.routing = AppendHistory(m.routing, tool)
  <2>1. FormatHistory(s.routing) # << >> /\ ParseHistory(FormatHistory(s.routing)) = s.routing
    BY <1>4, HistoryIsReadBack
  <2>2. Text(new, "routing_history") = FormatHistory(s.routing)
    BY <1>9, <1>10, <1>11, <2>1
  <2>3. n.routing = ParseHistory(Text(new, "routing_history"))
    BY CorrectionFields
  <2> QED
    BY <1>3, <2>1, <2>2, <2>3
<1>19. HasSupportedVocabulary(m) => HasSupportedVocabulary(n)
  <2>1. IsKnown("outcome", << "pending" >>)
    <3>1. "pending" \in Known["outcome"] /\ "outcome" \in DOMAIN Known
      BY DEF Known
    <3> QED
      BY <3>1, WordsStay DEF IsKnown
  <2> HIDE DEF n
  <2> QED
    BY <1>13, <1>14, <1>16, <1>17, <2>1 DEF HasSupportedVocabulary
<1> HIDE DEF n
<1>20. Agrees(n, m)
  BY <1>12, <1>13, <1>14, <1>15, <1>16, <1>19 DEF Agrees
<1> QED
  BY <1>6, <1>18, <1>20 DEF m, n, new, s

\* On a map of its own, what was sent is what the map says, all of it.
LEMMA FreshIsStable ==
  ASSUME NEW s, Carried(s), s.routing # << >>, SoleHasNoComma(s.routing)
  PROVE  LET new == Apply(s, << >>) IN Apply(CorrectionFromMap(new), new) = new
<1> DEFINE new == Apply(s, << >>)
           n == CorrectionFromMap(new)
<1>1. \A k \in CoKeys : Text(new, k) = Said(s)[k]
  BY TextApplied, NothingSaid
<1>2. s \in CoRecord /\ s.count \in Int /\ s.budget \in Int
  BY DEF Carried, CoRecord
<1>3. MetaTyped(new)
  BY ApplyTyped, NothingSaid
<1>4. Carried(n)
  BY <1>3, ParsedIsCarried
<1>5. /\ n.failure = s.failure /\ n.agent = s.agent /\ n.severity = s.severity /\ n.mode = s.mode
      /\ n.state = s.state /\ n.outcome = s.outcome
      /\ n.schema = IF s.schema = << >> THEN << "1" >> ELSE s.schema
  <2>1. /\ Text(new, "failure_type") = s.failure /\ Text(new, "target_agent") = s.agent
        /\ Text(new, "severity") = s.severity /\ Text(new, "routing_mode") = s.mode
        /\ Text(new, "provider_state") = s.state /\ Text(new, "outcome") = s.outcome
        /\ Text(new, "schema_version") = IF s.schema = << >> THEN << "1" >> ELSE s.schema
    BY <1>1, SaidFields DEF CoKeys
  <2> HIDE DEF new
  <2> QED
    BY <2>1, CorrectionFields DEF Carried
<1>6. n.count = IF s.count > 0 THEN s.count ELSE 0
  <2>1. Text(new, "recurrence_count") = IF s.count > 0 THEN << "#", s.count >> ELSE << >>
    BY <1>1, SaidFields DEF CoKeys
  <2>2. n.count = Count(Text(new, "recurrence_count"))
    BY CorrectionFields
  <2> QED
    BY <2>1, <2>2, NumberReads, NothingSaid
<1>7. n.budget = s.budget
  <2>1. Text(new, "provider_retry_budget") = IF s.state # << >> \/ s.budget # 0 THEN << "#", s.budget >> ELSE << >>
    BY <1>1, SaidFields DEF CoKeys
  <2>2. n.budget = Count(Text(new, "provider_retry_budget"))
    BY CorrectionFields
  <2> QED
    BY <2>1, <2>2, NumberReads, NothingSaid
<1>8. n.routing = s.routing
  <2>1. ParseHistory(FormatHistory(s.routing)) = s.routing
    BY HistoryIsReadBack DEF Carried
  <2>2. Text(new, "routing_history") = FormatHistory(s.routing)
    BY <1>1, SaidFields DEF CoKeys
  <2>3. n.routing = ParseHistory(Text(new, "routing_history"))
    BY CorrectionFields
  <2> QED
    BY <2>1, <2>2, <2>3
<1> HIDE DEF n
<1>9. ASSUME NEW k \in CoKeys PROVE Said(n)[k] = Said(s)[k]
  <2>1. /\ Said(n)["schema_version"] = Said(s)["schema_version"]
        /\ Said(n)["failure_type"] = Said(s)["failure_type"] /\ Said(n)["severity"] = Said(s)["severity"]
        /\ Said(n)["target_agent"] = Said(s)["target_agent"] /\ Said(n)["routing_mode"] = Said(s)["routing_mode"]
        /\ Said(n)["provider_state"] = Said(s)["provider_state"] /\ Said(n)["outcome"] = Said(s)["outcome"]
    <3>1. << "1" >> # << >>
      OBVIOUS
    <3> QED
      BY <1>4, <1>5, <3>1, SaidFields
  <2>2. Said(n)["routing_history"] = Said(s)["routing_history"]
    BY <1>4, <1>8, SaidFields
  <2>3. Said(n)["recurrence_count"] = Said(s)["recurrence_count"]
    <3>1. Said(n)["recurrence_count"] = IF n.count > 0 THEN << "#", n.count >> ELSE << >>
      BY <1>4, SaidFields
    <3>2. Said(s)["recurrence_count"] = IF s.count > 0 THEN << "#", s.count >> ELSE << >>
      BY SaidFields
    <3>3. ~(0 > 0)
      OBVIOUS
    <3> QED
      BY <1>6, <3>1, <3>2, <3>3, Zenon
  <2>4. Said(n)["provider_retry_budget"] = Said(s)["provider_retry_budget"]
    BY <1>4, <1>5, <1>7, SaidFields
  <2> QED
    BY <2>1, <2>2, <2>3, <2>4 DEF CoKeys
<1>10. DOMAIN new = {k \in CoKeys : Said(s)[k] # << >>} /\ \A k \in DOMAIN new : new[k] = Said(s)[k]
  <2>1. DOMAIN << >> = {}
    OBVIOUS
  <2> QED
    BY <2>1, SaidKeys DEF Apply
<1> HIDE DEF new
<1>11. Said(n) = Said(s) /\ DOMAIN Said(n) = CoKeys
  BY <1>9, SaidKeys DEF Said
<1>12. Apply(n, new) = [k \in DOMAIN new |-> new[k]]
  <2>1. {k \in DOMAIN Said(n) : Said(n)[k] # << >>} = DOMAIN new
    BY <1>10, <1>11
  <2> QED
    BY <1>10, <1>11, <2>1 DEF Apply
<1>13. new = [k \in DOMAIN new |-> new[k]]
  BY DEF new, Apply
<1> QED
  BY <1>12, <1>13 DEF n, new

(***************************************************************************)
(* The hops.                                                               *)
(***************************************************************************)

\* The correction first read, and what is read now.
CarriedOn(m) ==
  /\ Agrees(CorrectionFromMap(coMeta), m) /\ HasSupportedVocabulary(m)
  /\ CorrectionFromMap(coMeta).routing = Enters!Folded(m.routing, coVia)
CoInv ==
  /\ CoTypeOK /\ MetaTyped(coMeta)
  /\ \A m \in coFirst : CarriedOn(m)
  /\ ApplyIsStable

LEMMA AgreesOn == ASSUME NEW a, NEW b, NEW c, Agrees(b, a), Agrees(c, b) PROVE Agrees(c, a)
  BY DEF Agrees

LEMMA AgreesSelf == ASSUME NEW a PROVE Agrees(a, a)
  BY DEF Agrees

LEMMA FirstHop ==
  ASSUME CoInv, NEW tool \in CoTool, NEW recheck \in BOOLEAN, NEW base \in {<< >>, coMeta},
         coMeta' = Apply(SentOn(CorrectionFromMap(coMeta), tool, recheck), base),
         HasSupportedVocabulary(CorrectionFromMap(coMeta)),
         coVia' = Append(coVia, tool),
         coFirst' = IF coFirst = {} THEN {CorrectionFromMap(coMeta)} ELSE coFirst
  PROVE  MetaTyped(coMeta)' /\ (\A m \in coFirst : CarriedOn(m))'
<1> DEFINE m == CorrectionFromMap(coMeta)
           n == CorrectionFromMap(coMeta')
<1>1. MetaTyped(coMeta') /\ Agrees(n, m) /\ n.routing = AppendHistory(m.routing, tool)
  BY NextReads DEF CoInv
<1>2. coVia \in Seq(CoTool) /\ (coFirst = {} <=> coVia = << >>)
  BY DEF CoInv, CoTypeOK
<1> HIDE DEF m, n
<1>3. ASSUME NEW f \in coFirst', coFirst = {}
      PROVE  Agrees(n, f) /\ HasSupportedVocabulary(f) /\ n.routing = Enters!Folded(f.routing, coVia')
  <2>1. f = m /\ coVia' = Append(<< >>, tool) /\ << >> \in Seq(CoTool)
    BY <1>2, <1>3 DEF m
  <2>2. Enters!Folded(f.routing, Append(<< >>, tool)) = AppendHistory(Enters!Folded(f.routing, << >>), tool)
    BY <2>1, Enters!FoldAppend
  <2>3. Enters!Folded(f.routing, << >>) = f.routing
    BY Enters!FoldEmpty
  <2> QED
    BY <1>1, <2>1, <2>2, <2>3 DEF m
<1>4. ASSUME NEW f \in coFirst', coFirst # {}
      PROVE  Agrees(n, f) /\ HasSupportedVocabulary(f) /\ n.routing = Enters!Folded(f.routing, coVia')
  <2>1. f \in coFirst
    BY <1>4
  <2>2. Agrees(m, f) /\ HasSupportedVocabulary(f) /\ m.routing = Enters!Folded(f.routing, coVia)
    BY <2>1 DEF CoInv, CarriedOn, m
  <2>3. Enters!Folded(f.routing, Append(coVia, tool)) = AppendHistory(Enters!Folded(f.routing, coVia), tool)
    BY <1>2, Enters!FoldAppend
  <2>4. Agrees(n, f)
    BY <1>1, <2>2, AgreesOn
  <2> QED
    BY <1>1, <2>2, <2>3, <2>4
<1> QED
  BY <1>1, <1>3, <1>4 DEF CarriedOn, n

LEMMA CorrectionsHold == CoSpec => []CoInv
<1>1. CoInit => CoInv
  <2> SUFFICES ASSUME CoInit PROVE CoInv
    OBVIOUS
  <2>1. MetaTyped(coMeta) /\ coFirst = {} /\ coVia = << >> /\ coFresh = TRUE
    BY MetasAreTyped DEF CoInit
  <2>2. CoTypeOK
    <3>1. << >> \in Seq(CoTool) /\ Len(<< >>) = 0
      OBVIOUS
    <3>2. 0 <= CoHops
      <4>1. CoHops \in Nat
        BY CorrectionsAssumption
      <4> QED
        BY ONLY <4>1
    <3> QED
      BY <2>1, <3>1, <3>2 DEF CoTypeOK
  <2> QED
    BY <2>1, <2>2 DEF CoInv, ApplyIsStable
<1>2. CoInv /\ [CoNext]_coVars => CoInv'
  <2> SUFFICES ASSUME CoInv, [CoNext]_coVars PROVE CoInv'
    OBVIOUS
  <2>1. CASE UNCHANGED coVars
    BY <2>1 DEF CoInv, CoTypeOK, CarriedOn, ApplyIsStable, coVars
  <2>2. CASE Hop
    <3> DEFINE m == CorrectionFromMap(coMeta)
    <3>1. PICK tool \in CoTool, fresh \in BOOLEAN, recheck \in BOOLEAN :
            /\ HasSupportedVocabulary(m)
            /\ coMeta' = Apply(SentOn(m, tool, recheck), IF fresh THEN << >> ELSE coMeta)
            /\ coFirst' = IF coFirst = {} THEN {m} ELSE coFirst
            /\ coVia' = Append(coVia, tool)
            /\ coFresh' = (coFresh /\ fresh)
      BY <2>2 DEF Hop, SentOn
    <3>2. (IF fresh THEN << >> ELSE coMeta) \in {<< >>, coMeta}
      OBVIOUS
    <3>3. MetaTyped(coMeta)' /\ (\A f \in coFirst : CarriedOn(f))'
      BY <3>1, <3>2, FirstHop
    <3>4. CoTypeOK'
      <4>1. /\ coVia \in Seq(CoTool) /\ Len(coVia) <= CoHops /\ (coFirst = {} <=> coVia = << >>)
            /\ (\A f, g \in coFirst : f = g) /\ coFresh \in BOOLEAN
        BY DEF CoInv, CoTypeOK
      <4>2. coVia' \in Seq(CoTool) /\ Len(coVia') = Len(coVia) + 1 /\ Len(coVia) \in Nat /\ Len(coVia) < CoHops
        BY <2>2, <3>1, <4>1, Appended DEF Hop
      <4>3. Len(coVia') <= CoHops /\ coVia' # << >>
        <5>1. CoHops \in Nat
          BY CorrectionsAssumption
        <5>2. coVia' # << >>
          BY <4>2
        <5>3. \A k \in Nat : k < CoHops => k + 1 <= CoHops
          BY ONLY <5>1
        <5> QED
          BY <4>2, <5>2, <5>3
      <4>4. coFirst' # {} /\ \A f, g \in coFirst' : f = g
        BY <3>1, <4>1
      <4>5. coFresh' \in BOOLEAN
        BY <3>1, <4>1
      <4> QED
        BY <4>2, <4>3, <4>4, <4>5 DEF CoTypeOK
    <3>5. ApplyIsStable'
      <4> SUFFICES ASSUME coFresh' PROVE Apply(CorrectionFromMap(coMeta'), coMeta') = coMeta'
        BY DEF ApplyIsStable
      <4>1. coMeta' = Apply(SentOn(m, tool, recheck), << >>)
        BY <3>1
      <4>2. Carried(m)
        BY ParsedIsCarried DEF CoInv
      <4>3. Carried(SentOn(m, tool, recheck))
        BY <4>2, SentIsCarried
      <4>4. SentOn(m, tool, recheck).routing = AppendHistory(m.routing, tool)
        BY <4>2, SentIs DEF Carried
      <4>5. AppendHistory(m.routing, tool) # << >> /\ SoleHasNoComma(AppendHistory(m.routing, tool))
        BY <4>2, ToolEnters DEF Carried
      <4> HIDE DEF m
      <4> QED
        BY <4>1, <4>3, <4>4, <4>5, FreshIsStable
    <3> QED
      BY <3>3, <3>4, <3>5 DEF CoInv
  <2> QED
    BY <2>1, <2>2 DEF CoNext
<1> QED
  BY <1>1, <1>2, PTL DEF CoSpec

\* Corrections: what is kept of the hops has its type (improvement.go).
THEOREM CorrectionTypes == CoSpec => []CoTypeOK
<1>1. CoInv => CoTypeOK
  BY DEF CoInv
<1> QED
  BY <1>1, CorrectionsHold, PTL

\* Corrections: a correction keeps, from tool to tool, what it says of the
\* failure and the tools it passed, and on a map of its own it is stable
\* (CorrectionMetadataFromMap, Apply, ForwardForRecheck of improvement.go).
THEOREM CorrectionsAreSound == CoSpec => []CorrectionsSound
<1>1. CoInv => CorrectionsSound
  <2> SUFFICES ASSUME CoInv PROVE CorrectionsSound
    OBVIOUS
  <2> DEFINE n == CorrectionFromMap(coMeta)
  <2>1. MetaTyped(coMeta) /\ ApplyIsStable /\ \A f \in coFirst : CarriedOn(f)
    BY DEF CoInv
  <2>2. CorrectionKept
    <3> SUFFICES ASSUME NEW f \in coFirst
                 PROVE  /\ << n.failure, n.severity, n.state >> = << f.failure, f.severity, f.state >>
                        /\ f.count >= 0 => n.count = f.count
                        /\ n.outcome \in {f.outcome, << "pending" >>}
                        /\ HasSupportedVocabulary(n)
      BY DEF CorrectionKept
    <3>1. Agrees(n, f) /\ HasSupportedVocabulary(f)
      BY <2>1 DEF CarriedOn
    <3> HIDE DEF n
    <3> QED
      BY <3>1 DEF Agrees
  <2>3. HistoryKept
    <3> DEFINE text == Text(coMeta, "routing_history")
    <3>1. ASSUME NEW f \in coFirst PROVE n.routing = FoldLeft(AppendHistory, f.routing, coVia)
      <4>1. n.routing = Enters!Folded(f.routing, coVia)
        BY <2>1 DEF CarriedOn
      <4> HIDE DEF n
      <4> QED
        BY <4>1 DEF FoldLeft, MapThenFoldSet, Max, Enters!Folded, Enters!Greatest
    <3>2. n.routing = ParseHistory(text) /\ text \in CoText
      BY <2>1, CorrectionFields, TextTyped
    <3>3. ASSUME NEW c, IsHistory(n.routing, c), NEW i \in DOMAIN n.routing PROVE ~Contains(n.routing[i], c)
      <4>1. n.routing \in Seq(NameWithout(c))
        BY <3>3 DEF IsHistory
      <4> QED
        BY <4>1 DEF NameWithout
    <3> HIDE DEF text, n
    <3>4. ASSUME NEW i \in DOMAIN n.routing
          PROVE  ~Contains(n.routing[i], ">") /\ (Contains(n.routing[i], ",") => Contains(text, ">"))
      BY <3>2, <3>3, ParsedIsHistory
    <3> QED
      BY <3>1, <3>4 DEF HistoryKept, n, text
  <2> QED
    BY <2>1, <2>2, <2>3 DEF CorrectionsSound
<1> QED
  BY <1>1, CorrectionsHold, PTL

(***************************************************************************)
(* The types of the waves.                                                 *)
(***************************************************************************)

\* A mail of the waves, whatever its fields say.
MailKinds == {"specification", "report", "feedback"}
WaveName  == WvWave \union {Unnamed}
StepLists == WvSteps \union {<< >>}
Severity  == {Unnamed, "high", "medium", "low"}
WvMail    == [kind : MailKinds, wave : WaveName, step : WvStepName, steps : StepLists, severity : Severity]

LEMMA MailTyped ==
  ASSUME NEW kind \in MailKinds, NEW wave \in WaveName, NEW step \in WvStepName,
         NEW steps \in StepLists, NEW severity \in Severity
  PROVE  Mail(kind, wave, step, steps, severity) \in WvMail
  BY DEF Mail, WvMail

LEMMA MailFields ==
  /\ "specification" \in MailKinds /\ "report" \in MailKinds /\ "feedback" \in MailKinds
  /\ Unnamed \in WvStepName /\ Unnamed \in Severity /\ << >> \in StepLists
  /\ \A wave \in WvWave : wave \in WaveName
  /\ \A steps \in WvSteps : steps \in StepLists
  /\ \A level : ReportSeverity(level) \in Severity
<1>1. "specification" \in MailKinds /\ "report" \in MailKinds /\ "feedback" \in MailKinds
  BY Zenon DEF MailKinds
<1>2. Unnamed \in WvStepName /\ Unnamed \in Severity /\ << >> \in StepLists
  <2>1. Unnamed \in WvStepName
    BY Zenon DEF WvStepName
  <2>2. Unnamed \in Severity
    BY Zenon DEF Severity
  <2>3. << >> \in StepLists
    BY Zenon DEF StepLists
  <2> QED
    BY <2>1, <2>2, <2>3, Zenon
<1>3. (\A wave \in WvWave : wave \in WaveName) /\ (\A steps \in WvSteps : steps \in StepLists)
  BY Zenon DEF WaveName, StepLists
<1>4. \A level : ReportSeverity(level) \in Severity
  <2>1. \A level : ReportSeverity(level) \in {"high", "medium", "low"}
    BY DEF ReportSeverity
  <2> QED
    BY <2>1, Zenon DEF Severity
<1> QED
  BY <1>1, <1>2, <1>3, <1>4, Zenon

\* Waves: events and d-mails are of their kinds (wave_projection.go).
THEOREM WaveTypes == WvSpec => []WvTypeOK
<1> DEFINE Inv == wvEvents \in Seq(WvEv) /\ wvMails \in Seq(WvMail) /\ wvReadable \in BOOLEAN
<1>1. WvInit => Inv
  <2>1. WvInit => wvEvents = << >> /\ wvMails = << >> /\ wvReadable = TRUE
    BY Zenon DEF WvInit
  <2> QED
    BY <2>1, Nothing
<1>2. Inv /\ [WvNext]_wvVars => Inv'
  <2> SUFFICES ASSUME Inv, [WvNext]_wvVars PROVE Inv'
    OBVIOUS
  <2>1. wvEvents' \in Seq(WvEv)
    BY WvStepStays
  <2>2. wvMails' = wvMails \/ \E m \in WvMail : wvMails' = Append(wvMails, m)
    <3>1. ASSUME SpecArrives \/ SpecWaits PROVE \E m \in WvMail : wvMails' = Append(wvMails, m)
      <4>1. PICK wave \in WvWave, steps \in WvSteps :
              wvMails' = Append(wvMails, Mail("specification", wave, Unnamed, steps, Unnamed))
        BY <3>1, Zenon DEF SpecArrives, SpecWaits
      <4>2. Mail("specification", wave, Unnamed, steps, Unnamed) \in WvMail
        BY MailTyped, MailFields, Zenon
      <4> QED
        BY <4>1, <4>2, Zenon
    <3>2. ASSUME ExpeditionEnds PROVE \E m \in WvMail : wvMails' = Append(wvMails, m)
      <4>1. PICK wave \in WvWave, step \in WvStepName, level \in WvGauge :
              wvMails' = Append(wvMails, Mail("report", wave, step, << >>, ReportSeverity(level)))
        BY <3>2, Zenon DEF ExpeditionEnds
      <4>2. Mail("report", wave, step, << >>, ReportSeverity(level)) \in WvMail
        BY MailTyped, MailFields, Zenon
      <4> QED
        BY <4>1, <4>2, Zenon
    <3>3. ASSUME FeedbackArrives PROVE \E m \in WvMail : wvMails' = Append(wvMails, m)
      <4>1. PICK wave \in WaveName, step \in WvStepName :
              wvMails' = Append(wvMails, Mail("feedback", wave, step, << >>, Unnamed))
        BY <3>3, Zenon DEF FeedbackArrives, WaveName
      <4>2. Mail("feedback", wave, step, << >>, Unnamed) \in WvMail
        BY MailTyped, MailFields, Zenon
      <4> QED
        BY <4>1, <4>2, Zenon
    <3>4. ASSUME InboxSpoilt \/ UNCHANGED wvVars PROVE wvMails' = wvMails
      BY <3>4, Zenon DEF InboxSpoilt, wvVars
    <3> QED
      BY <3>1, <3>2, <3>3, <3>4 DEF WvNext
  <2>3. wvMails' \in Seq(WvMail)
    BY <2>2, Appended
  <2>4. wvReadable' \in BOOLEAN
    <3>1. wvReadable' = wvReadable \/ wvReadable' = ~ wvReadable
      BY Zenon DEF WvNext, SpecArrives, SpecWaits, ExpeditionEnds, FeedbackArrives, InboxSpoilt, wvVars
    <3> QED
      BY <3>1
  <2> QED
    BY <2>1, <2>3, <2>4
<1>3. Inv => WvTypeOK
  <2> SUFFICES ASSUME Inv PROVE WvTypeOK
    OBVIOUS
  <2>1. \A i \in 1 .. Len(wvEvents) : wvEvents[i].type \in {"spec.registered", "expedition.completed"}
    <3>1. \A e \in WvEv : e.type \in {"spec.registered", "expedition.completed"}
      BY DEF WvEv
    <3> QED
      BY <3>1
  <2>2. \A i \in 1 .. Len(wvMails) : wvMails[i].kind \in {"specification", "report", "feedback"}
    <3>1. \A m \in WvMail : m.kind \in MailKinds
      BY DEF WvMail
    <3> QED
      BY <3>1 DEF MailKinds
  <2> QED
    BY <2>1, <2>2 DEF WvTypeOK
<1> QED
  BY <1>1, <1>2, <1>3, PTL DEF WvSpec

(***************************************************************************)
(* The ledger of insights: what is read back of a file that an append has  *)
(* written, and who may write it.                                          *)
(***************************************************************************)

Ledger == INSTANCE Folding WITH Step <- ReadEntry

\* Entries as they are read back; a file that an append wrote.
Plain(T) == [title : T, tail : {"none"}]

LedgerList(f) ==
  \E T : \E old \in Seq(Plain(T)) : \E e :
    f = Append(old, e) /\ TitlesDiffer(old) /\ e.title \notin Titles(old)

LEMMA ReadBackIsFold == ASSUME NEW f PROVE ReadBack(f) = Ledger!Folded(<< >>, f)
  BY DEF ReadBack, FoldLeft, MapThenFoldSet, Max, Ledger!Folded, Ledger!Greatest

\* What has been read back once stays as it is.
LEMMA PlainStays == ASSUME NEW T PROVE \A s \in Seq(Plain(T)) : ReadBack(s) = s
<1> DEFINE S == Plain(T)
           G == {s \in Seq(S) : Ledger!Folded(<< >>, s) = s}
<1>1. << >> \in G
  <2>1. << >> \in Seq(S)
    BY Nothing
  <2> QED
    BY <2>1, Ledger!FoldEmpty
<1>2. ASSUME NEW s \in Seq(S), NEW x \in S, s \in G PROVE Append(s, x) \in G
  <2>1. x.tail = "none" /\ x = [title |-> x.title, tail |-> "none"]
    BY DEF Plain
  <2>2. ReadEntry(s, x) = Append(s, x)
    BY <2>1 DEF ReadEntry
  <2> HIDE DEF S
  <2>3. Ledger!Folded(<< >>, Append(s, x)) = ReadEntry(Ledger!Folded(<< >>, s), x)
    BY Ledger!FoldAppend
  <2>4. Append(s, x) \in Seq(S)
    BY Appended
  <2> QED
    BY <1>2, <2>2, <2>3, <2>4
<1> HIDE DEF G, S
<1>3. Seq(S) \subseteq G
  BY <1>1, <1>2, Ledger!SequencesGrow
<1> QED
  BY <1>3, ReadBackIsFold DEF G, S

LEMMA ReadAppend ==
  ASSUME NEW T, NEW s \in Seq(Plain(T)), NEW e
  PROVE  ReadBack(Append(s, e)) = ReadEntry(s, e)
<1> DEFINE S == Plain(T) \union {e}
<1>1. s \in Seq(S) /\ e \in S
  OBVIOUS
<1> HIDE DEF S
<1>2. Ledger!Folded(<< >>, Append(s, e)) = ReadEntry(Ledger!Folded(<< >>, s), e)
  BY <1>1, Ledger!FoldAppend
<1>3. Ledger!Folded(<< >>, s) = s
  BY PlainStays, ReadBackIsFold
<1> QED
  BY <1>2, <1>3, ReadBackIsFold

\* The entries of a list with one more.
LEMMA MoreEntries ==
  ASSUME NEW T, NEW s \in Seq(Plain(T)), NEW title, TitlesDiffer(s),
         title \notin Titles(s) \/ title = << "quoted" >>,
         NEW r, r = Append(s, [title |-> title, tail |-> "none"])
  PROVE  /\ \E U : r \in Seq(Plain(U))
         /\ TitlesDiffer(r)
         /\ Titles(r) = Titles(s) \union {title}
<1> DEFINE U == T \union {title}
           n == Len(s)
           x == [title |-> title, tail |-> "none"]
<1>1. s \in Seq(Plain(U)) /\ x \in Plain(U)
  <2>1. Plain(T) \subseteq Plain(U) /\ x \in Plain(U)
    BY DEF Plain
  <2>2. ASSUME NEW A, NEW B, A \subseteq B, s \in Seq(A) PROVE s \in Seq(B)
    BY <2>2
  <2> QED
    BY <2>1, <2>2, Zenon
<1>2. r \in Seq(Plain(U))
  BY <1>1, Appended
<1>3. n \in Nat /\ Len(r) = n + 1 /\ r[n + 1] = x /\ \A i \in 1 .. n : r[i] = s[i]
  BY Appended
<1>4. DOMAIN s = 1 .. n /\ DOMAIN r = 1 .. n + 1
  BY <1>2, <1>3
<1>5. x.title = title
  OBVIOUS
<1> HIDE DEF n, x, U
<1>6. TitlesDiffer(r)
  <2> SUFFICES ASSUME NEW i \in 1 .. n + 1, NEW j \in 1 .. n + 1,
                      r[i].title = r[j].title, r[i].title # << "quoted" >>
               PROVE  i = j
    BY <1>4 DEF TitlesDiffer
  <2>1. CASE i \in 1 .. n /\ j \in 1 .. n
    BY <1>3, <1>4, <2>1 DEF TitlesDiffer
  <2>2. CASE i = n + 1 /\ j = n + 1
    BY <2>2
  <2>3. CASE i \in 1 .. n /\ j = n + 1
    <3>1. s[i].title = title /\ title # << "quoted" >>
      BY <1>3, <1>5, <2>3
    <3>2. title \in Titles(s)
      BY <1>4, <2>3, <3>1 DEF Titles
    <3> QED
      BY <3>1, <3>2
  <2>4. CASE i = n + 1 /\ j \in 1 .. n
    <3>1. s[j].title = title /\ title # << "quoted" >>
      BY <1>3, <1>5, <2>4
    <3>2. title \in Titles(s)
      BY <1>4, <2>4, <3>1 DEF Titles
    <3> QED
      BY <3>1, <3>2
  <2> QED
    BY <1>3, <2>1, <2>2, <2>3, <2>4
<1>7. Titles(r) = Titles(s) \union {title}
  <2>1. ASSUME NEW v \in Titles(r) PROVE v \in Titles(s) \union {title}
    <3>1. PICK i \in 1 .. n + 1 : v = r[i].title
      BY <1>4, <2>1 DEF Titles
    <3>2. i \in 1 .. n \/ i = n + 1
      BY <1>3
    <3> QED
      BY <1>3, <1>4, <1>5, <3>1, <3>2 DEF Titles
  <2>2. ASSUME NEW v \in Titles(s) \union {title} PROVE v \in Titles(r)
    <3>1. n + 1 \in 1 .. n + 1 /\ \A i \in 1 .. n : i \in 1 .. n + 1
      BY <1>3
    <3> QED
      BY <1>3, <1>4, <1>5, <2>2, <3>1 DEF Titles
  <2> QED
    BY <2>1, <2>2
<1> QED
  BY <1>2, <1>6, <1>7

\* What a reader finds in a list to which an entry of a new title was appended.
LEMMA EntryRead ==
  ASSUME NEW T, NEW s \in Seq(Plain(T)), TitlesDiffer(s), NEW e, e.title \notin Titles(s)
  PROVE  LET r == ReadBack(Append(s, e))
         IN  /\ \E U : r \in Seq(Plain(U))
             /\ TitlesDiffer(r)
             /\ Titles(s) \union {e.title} \subseteq Titles(r)
<1> DEFINE whole == Append(s, [title |-> e.title, tail |-> "none"])
<1>1. /\ \E U : whole \in Seq(Plain(U))
      /\ TitlesDiffer(whole)
      /\ Titles(whole) = Titles(s) \union {e.title}
  BY MoreEntries
<1>2. ReadBack(Append(s, e)) =
        IF e.tail = "heading" THEN Append(whole, [title |-> << "quoted" >>, tail |-> "none"]) ELSE whole
  BY ReadAppend DEF ReadEntry
<1> HIDE DEF whole
<1>3. PICK U : whole \in Seq(Plain(U))
  BY <1>1
<1>4. LET r == Append(whole, [title |-> << "quoted" >>, tail |-> "none"])
      IN  /\ \E V : r \in Seq(Plain(V))
          /\ TitlesDiffer(r)
          /\ Titles(r) = Titles(whole) \union {<< "quoted" >>}
  BY <1>1, <1>3, MoreEntries
<1> QED
  BY <1>1, <1>2, <1>4

\* A file an append wrote, read: its titles differ, and only its last entry may
\* have kept a value of several lines.
LEMMA LedgerRead ==
  ASSUME NEW f, LedgerList(f)
  PROVE  /\ \E U : ReadBack(f) \in Seq(Plain(U))
         /\ TitlesDiffer(ReadBack(f))
         /\ \A i \in DOMAIN f : f[i].tail # "none" => i = Len(f)
<1>1. PICK T : \E old \in Seq(Plain(T)) : \E e :
        f = Append(old, e) /\ TitlesDiffer(old) /\ e.title \notin Titles(old)
  BY DEF LedgerList
<1>2. PICK old \in Seq(Plain(T)) : \E e :
        f = Append(old, e) /\ TitlesDiffer(old) /\ e.title \notin Titles(old)
  BY <1>1
<1> PICK e : f = Append(old, e) /\ TitlesDiffer(old) /\ e.title \notin Titles(old)
  BY <1>2
<1>3. (\E U : ReadBack(f) \in Seq(Plain(U))) /\ TitlesDiffer(ReadBack(f))
  BY EntryRead
<1>4. ASSUME NEW i \in DOMAIN f, f[i].tail # "none" PROVE i = Len(f)
  <2>1. Len(old) \in Nat /\ \A j \in 1 .. Len(old) : old[j].tail = "none"
    <3>1. \A x \in Plain(T) : x.tail = "none"
      BY DEF Plain
    <3> QED
      BY <3>1
  <2>2. DOMAIN f = 1 .. Len(old) + 1 /\ Len(f) = Len(old) + 1 /\ \A j \in 1 .. Len(old) : f[j] = old[j]
    OBVIOUS
  <2>3. i \in 1 .. Len(old) \/ i = Len(old) + 1
    BY <1>4, <2>1, <2>2
  <2> QED
    BY <1>4, <2>1, <2>2, <2>3
<1> QED
  BY <1>3, <1>4

\* What is found in a ledger that is there or not.
FileOK(file) == file = {} \/ \E f : file = {f} /\ LedgerList(f)

LEMMA FileRead ==
  ASSUME NEW file, FileOK(file)
  PROVE  (\E U : FileEntries(file) \in Seq(Plain(U))) /\ TitlesDiffer(FileEntries(file))
<1>1. CASE file = {}
  <2>1. FileEntries(file) = << >>
    BY <1>1 DEF FileEntries
  <2>2. << >> \in Seq(Plain({})) /\ DOMAIN << >> = {}
    BY Nothing
  <2>3. TitlesDiffer(<< >>)
    BY <2>2 DEF TitlesDiffer
  <2> QED
    BY <2>1, <2>2, <2>3
<1>2. CASE \E f : file = {f} /\ LedgerList(f)
  <2>1. PICK f : file = {f} /\ LedgerList(f)
    BY <1>2
  <2>2. FileEntries(file) = ReadBack(f)
    BY <2>1 DEF FileEntries
  <2> QED
    BY <2>1, <2>2, LedgerRead
<1> QED
  BY <1>1, <1>2 DEF FileOK

\* The lock and the file are their holder's; what a writer has read is what the
\* file says, and what it has written is what it will rename.
Holding == {"locked", "read", "written"}

WriterOK(pc, entry, new, file, tmp) ==
  /\ pc # "idle" => \E e : entry = {e}
  /\ pc \in {"read", "written"} =>
       \E e : /\ entry = {e} /\ e.title \notin Titles(FileEntries(file))
              /\ new = {Append(FileEntries(file), e)}
  /\ pc = "written" => tmp = new

InsInv ==
  /\ insJournals \in Seq(InsJournal)
  /\ FileOK(insFile) /\ (insTmp = {} \/ \E t : insTmp = {t})
  /\ insLock = {} \/ \E w \in InsWriter : insLock = {w}
  /\ insPc \in [InsWriter -> {"idle", "waits", "locked", "read", "written"}]
  /\ DOMAIN insEntry = InsWriter /\ DOMAIN insNew = InsWriter /\ DOMAIN insDone = {"titles", "begun"}
  /\ \A w \in InsWriter : insPc[w] \in Holding <=> w \in insLock
  /\ \A w \in InsWriter : WriterOK(insPc[w], insEntry[w], insNew[w], insFile, insTmp)
  /\ insDone.titles \subseteq Titles(FileEntries(insFile))

\* What an action of a writer has to keep.
LEMMA InsWriterSteps ==
  ASSUME InsInv, NEW w \in InsWriter,
         NEW to \in {"idle", "waits", "locked", "read", "written"}, InsGoes(w, to),
         insJournals' = insJournals,
         FileOK(insFile'), insTmp' = {} \/ \E t : insTmp' = {t},
         DOMAIN insEntry' = InsWriter, DOMAIN insNew' = InsWriter, DOMAIN insDone' = {"titles", "begun"},
         \A v \in InsWriter \ {w} : insEntry'[v] = insEntry[v] /\ insNew'[v] = insNew[v],
         insDone'.titles \subseteq Titles(FileEntries(insFile')),
         \/ insLock' = insLock /\ (to \in Holding <=> insPc[w] \in Holding)
         \/ insLock = {} /\ insLock' = {w} /\ to \in Holding
         \/ insLock' = insLock \ {w} /\ to \notin Holding,
         (insFile' = insFile /\ insTmp' = insTmp) \/ insPc[w] \in Holding,
         WriterOK(to, insEntry'[w], insNew'[w], insFile', insTmp')
  PROVE  InsInv'
<1>1. insPc' = [insPc EXCEPT ![w] = to] /\ insPc \in [InsWriter -> {"idle", "waits", "locked", "read", "written"}]
  BY DEF InsGoes, InsInv
<1>2. /\ insPc' \in [InsWriter -> {"idle", "waits", "locked", "read", "written"}]
      /\ insPc'[w] = to /\ \A v \in InsWriter \ {w} : insPc'[v] = insPc[v]
  BY <1>1
<1>3. insLock = {} \/ \E v \in InsWriter : insLock = {v}
  BY DEF InsInv
<1>4. \A v \in InsWriter : insPc[v] \in Holding <=> v \in insLock
  BY DEF InsInv
<1>5. insLock' = {} \/ \E v \in InsWriter : insLock' = {v}
  BY <1>3
<1>6. \A v \in InsWriter : insPc'[v] \in Holding <=> v \in insLock'
  <2> SUFFICES ASSUME NEW v \in InsWriter PROVE insPc'[v] \in Holding <=> v \in insLock'
    OBVIOUS
  <2>1. CASE v = w
    BY <1>2, <1>4, <2>1
  <2>2. CASE v # w
    BY <1>2, <1>4, <2>2
  <2> QED
    BY <2>1, <2>2
<1>7. ASSUME NEW v \in InsWriter PROVE WriterOK(insPc'[v], insEntry'[v], insNew'[v], insFile', insTmp')
  <2>1. CASE v = w
    BY <1>2, <2>1
  <2>2. CASE v # w /\ insFile' = insFile /\ insTmp' = insTmp
    <3>1. WriterOK(insPc[v], insEntry[v], insNew[v], insFile, insTmp)
      BY DEF InsInv
    <3>2. insPc'[v] = insPc[v] /\ insEntry'[v] = insEntry[v] /\ insNew'[v] = insNew[v]
      BY <1>2, <2>2
    <3> QED
      BY <2>2, <3>1, <3>2, Zenon
  <2>3. CASE v # w /\ insPc[w] \in Holding
    <3>1. insPc[v] \notin Holding
      BY <1>3, <1>4, <2>3
    <3>2. WriterOK(insPc[v], insEntry[v], insNew[v], insFile, insTmp)
      BY DEF InsInv
    <3>3. insPc'[v] = insPc[v] /\ insEntry'[v] = insEntry[v]
      BY <1>2, <2>3
    <3> QED
      BY <3>1, <3>2, <3>3 DEF WriterOK, Holding
  <2> QED
    BY <2>1, <2>2, <2>3
<1>8. insJournals' \in Seq(InsJournal)
  BY DEF InsInv
<1> QED
  BY <1>2, <1>5, <1>6, <1>7, <1>8, Zenon DEF InsInv

LEMMA InsWriterQuiet ==
  ASSUME InsInv, NEW w \in InsWriter
  PROVE  /\ WriterOK(insPc[w], insEntry[w], insNew[w], insFile, insTmp)
         /\ insPc[w] \in Holding <=> w \in insLock
         /\ FileOK(insFile) /\ (insTmp = {} \/ \E t : insTmp = {t})
         /\ DOMAIN insEntry = InsWriter /\ DOMAIN insNew = InsWriter /\ DOMAIN insDone = {"titles", "begun"}
         /\ insDone.titles \subseteq Titles(FileEntries(insFile))
  BY DEF InsInv

LEMMA AppendBeginsKeeps == ASSUME InsInv, NEW w \in InsWriter, AppendBegins(w) PROVE InsInv'
<1>1. PICK e : insEntry' = [insEntry EXCEPT ![w] = {e}]
  BY Zenon DEF AppendBegins
<1>2. /\ insPc[w] = "idle" /\ InsGoes(w, "waits")
      /\ UNCHANGED << insJournals, insFile, insTmp, insLock, insNew >>
  BY DEF AppendBegins
<1>3. insDone' = [insDone EXCEPT !.begun = insDone.begun + 1]
  BY DEF AppendBegins
<1>4. DOMAIN insDone' = {"titles", "begun"} /\ insDone'.titles = insDone.titles
  <2>1. DOMAIN insDone' = {"titles", "begun"}
    BY <1>3, InsWriterQuiet, Zenon
  <2>2. insDone'.titles = insDone.titles
    BY <1>3, InsWriterQuiet, Zenon
  <2> QED
    BY <2>1, <2>2
<1>5. insEntry'[w] = {e} /\ DOMAIN insEntry' = InsWriter /\ \A v \in InsWriter \ {w} : insEntry'[v] = insEntry[v]
  BY <1>1, InsWriterQuiet
<1>6. WriterOK("waits", insEntry'[w], insNew'[w], insFile', insTmp')
  BY <1>5 DEF WriterOK
<1>7. "waits" \notin Holding /\ "idle" \notin Holding
  BY DEF Holding
<1> QED
  BY <1>2, <1>4, <1>5, <1>6, <1>7, InsWriterQuiet, InsWriterSteps

LEMMA LockLedgerKeeps == ASSUME InsInv, NEW w \in InsWriter, LockLedger(w) PROVE InsInv'
<1>1. /\ insPc[w] = "waits" /\ insLock = {} /\ insLock' = {w} /\ InsGoes(w, "locked")
      /\ UNCHANGED << insJournals, insFile, insTmp, insEntry, insNew, insDone >>
  BY DEF LockLedger
<1>2. WriterOK("locked", insEntry'[w], insNew'[w], insFile', insTmp')
  BY <1>1, InsWriterQuiet DEF WriterOK
<1>3. "locked" \in Holding
  BY DEF Holding
<1> QED
  BY <1>1, <1>2, <1>3, InsWriterQuiet, InsWriterSteps

\* An entry whose title is found is not appended; nothing else is written.
LEMMA ReadLedgerKeeps == ASSUME InsInv, NEW w \in InsWriter, ReadLedger(w) PROVE InsInv'
<1>1. insPc[w] = "locked" /\ UNCHANGED << insJournals, insFile, insTmp >>
  BY Zenon DEF ReadLedger
<1>2. PICK e \in insEntry[w] :
        IF \E i \in DOMAIN FileEntries(insFile) : FileEntries(insFile)[i].title = e.title
        THEN /\ insDone' = [insDone EXCEPT !.titles = insDone.titles \union {e.title}]
             /\ insLock' = insLock \ {w} /\ InsGoes(w, "idle")
             /\ insEntry' = [insEntry EXCEPT ![w] = {}]
             /\ UNCHANGED insNew
        ELSE /\ insNew' = [insNew EXCEPT ![w] = {Append(FileEntries(insFile), e)}]
             /\ InsGoes(w, "read")
             /\ UNCHANGED << insDone, insLock, insEntry >>
  BY Zenon DEF ReadLedger
<1>3. insEntry[w] = {e}
  BY <1>1, <1>2, InsWriterQuiet DEF WriterOK
<1>4. "idle" \notin Holding /\ "locked" \in Holding /\ "read" \in Holding
  BY DEF Holding
<1>5. CASE e.title \in Titles(FileEntries(insFile))
  <2>1. /\ insDone' = [insDone EXCEPT !.titles = insDone.titles \union {e.title}]
        /\ insLock' = insLock \ {w} /\ InsGoes(w, "idle")
        /\ insEntry' = [insEntry EXCEPT ![w] = {}]
        /\ UNCHANGED insNew
    BY <1>2, <1>5 DEF Titles
  <2>2. DOMAIN insDone' = {"titles", "begun"}
    BY <2>1, InsWriterQuiet, Zenon
  <2>3. insDone'.titles = insDone.titles \union {e.title}
    BY <2>1, InsWriterQuiet, Zenon
  <2>4. insDone'.titles \subseteq Titles(FileEntries(insFile'))
    BY <1>1, <1>5, <2>3, InsWriterQuiet
  <2>5. DOMAIN insEntry' = InsWriter /\ \A v \in InsWriter \ {w} : insEntry'[v] = insEntry[v]
    BY <2>1, InsWriterQuiet
  <2>6. WriterOK("idle", insEntry'[w], insNew'[w], insFile', insTmp')
    BY DEF WriterOK
  <2> QED
    BY <1>1, <1>4, <2>1, <2>2, <2>4, <2>5, <2>6, InsWriterQuiet, InsWriterSteps
<1>6. CASE e.title \notin Titles(FileEntries(insFile))
  <2>1. /\ insNew' = [insNew EXCEPT ![w] = {Append(FileEntries(insFile), e)}]
        /\ InsGoes(w, "read")
        /\ UNCHANGED << insDone, insLock, insEntry >>
    BY <1>2, <1>6 DEF Titles
  <2>2. /\ DOMAIN insNew' = InsWriter /\ insNew'[w] = {Append(FileEntries(insFile), e)}
        /\ \A v \in InsWriter \ {w} : insNew'[v] = insNew[v]
    BY <2>1, InsWriterQuiet
  <2>3. WriterOK("read", insEntry'[w], insNew'[w], insFile', insTmp')
    <3>1. insEntry'[w] = {e} /\ insFile' = insFile
      BY <1>1, <1>3, <2>1
    <3> QED
      BY <1>6, <2>2, <3>1 DEF WriterOK
  <2> QED
    BY <1>1, <1>4, <2>1, <2>2, <2>3, InsWriterQuiet, InsWriterSteps
<1> QED
  BY <1>5, <1>6

LEMMA WriteTempKeeps == ASSUME InsInv, NEW w \in InsWriter, WriteTemp(w) PROVE InsInv'
<1>1. /\ insPc[w] = "read" /\ insTmp' = insNew[w] /\ InsGoes(w, "written")
      /\ UNCHANGED << insJournals, insFile, insLock, insEntry, insNew, insDone >>
  BY DEF WriteTemp
<1>2. "read" \in Holding /\ "written" \in Holding
  BY DEF Holding
<1>3. \E e : insEntry[w] = {e} /\ e.title \notin Titles(FileEntries(insFile))
              /\ insNew[w] = {Append(FileEntries(insFile), e)}
  BY <1>1, InsWriterQuiet DEF WriterOK
<1>4. WriterOK("written", insEntry'[w], insNew'[w], insFile', insTmp')
  BY <1>1, <1>3 DEF WriterOK
<1>5. \E t : insTmp' = {t}
  BY <1>1, <1>3
<1> QED
  BY <1>1, <1>2, <1>4, <1>5, InsWriterQuiet, InsWriterSteps

\* The new file shows what the old one showed, and the entry.
LEMMA RenameLedgerKeeps == ASSUME InsInv, NEW w \in InsWriter, RenameLedger(w) PROVE InsInv'
<1>1. /\ insPc[w] = "written" /\ insFile' = insTmp /\ insTmp' = {}
      /\ insLock' = insLock \ {w} /\ InsGoes(w, "idle")
      /\ insEntry' = [insEntry EXCEPT ![w] = {}] /\ insNew' = [insNew EXCEPT ![w] = {}]
      /\ UNCHANGED insJournals
  BY DEF RenameLedger
<1>2. insDone' = [insDone EXCEPT !.titles = insDone.titles \union {x.title : x \in insEntry[w]}]
  BY DEF RenameLedger
<1>3. PICK e : /\ insEntry[w] = {e} /\ e.title \notin Titles(FileEntries(insFile))
               /\ insNew[w] = {Append(FileEntries(insFile), e)}
  BY <1>1, InsWriterQuiet DEF WriterOK
<1>4. insTmp = {Append(FileEntries(insFile), e)}
  BY <1>1, <1>3, InsWriterQuiet DEF WriterOK
<1> DEFINE old == FileEntries(insFile)
           f == Append(old, e)
<1>5. PICK T : old \in Seq(Plain(T))
  BY InsWriterQuiet, FileRead
<1>6. TitlesDiffer(old)
  BY InsWriterQuiet, FileRead
<1>7. insFile' = {f} /\ e.title \notin Titles(old)
  BY <1>1, <1>3, <1>4
<1>8. insDone.titles \subseteq Titles(old)
  BY InsWriterQuiet
<1> HIDE DEF old
<1>9. FileOK(insFile')
  BY <1>5, <1>6, <1>7 DEF FileOK, LedgerList
<1>10. FileEntries(insFile') = ReadBack(f)
  <2>1. insFile' # {} /\ (CHOOSE x \in insFile' : TRUE) = f
    BY <1>7
  <2> QED
    BY <2>1 DEF FileEntries
<1>11. Titles(old) \union {e.title} \subseteq Titles(FileEntries(insFile'))
  BY <1>5, <1>6, <1>7, <1>10, EntryRead
<1>12. DOMAIN insDone' = {"titles", "begun"}
  BY <1>2, InsWriterQuiet, Zenon
<1>13. insDone'.titles = insDone.titles \union {x.title : x \in insEntry[w]}
  BY <1>2, InsWriterQuiet, Zenon
<1>14. insDone'.titles \subseteq Titles(FileEntries(insFile'))
  BY <1>3, <1>8, <1>11, <1>13
<1>15. /\ DOMAIN insEntry' = InsWriter /\ DOMAIN insNew' = InsWriter
       /\ \A v \in InsWriter \ {w} : insEntry'[v] = insEntry[v] /\ insNew'[v] = insNew[v]
  BY <1>1, InsWriterQuiet
<1>16. WriterOK("idle", insEntry'[w], insNew'[w], insFile', insTmp')
  BY DEF WriterOK
<1>17. "written" \in Holding /\ "idle" \notin Holding
  BY DEF Holding
<1> QED
  BY <1>1, <1>9, <1>12, <1>14, <1>15, <1>16, <1>17, InsWriterSteps

LEMMA AppendStopsKeeps == ASSUME InsInv, NEW w \in InsWriter, AppendStops(w) PROVE InsInv'
<1>1. /\ insLock' = insLock \ {w} /\ InsGoes(w, "idle")
      /\ insEntry' = [insEntry EXCEPT ![w] = {}] /\ insNew' = [insNew EXCEPT ![w] = {}]
      /\ UNCHANGED << insJournals, insFile, insDone >>
  BY DEF AppendStops
<1>2. insTmp' = insTmp \/ (insPc[w] = "read" /\ insTmp' = {<< >>})
  BY DEF AppendStops
<1>3. insTmp' = {} \/ \E t : insTmp' = {t}
  BY <1>2, InsWriterQuiet
<1>4. /\ DOMAIN insEntry' = InsWriter /\ DOMAIN insNew' = InsWriter
      /\ \A v \in InsWriter \ {w} : insEntry'[v] = insEntry[v] /\ insNew'[v] = insNew[v]
  BY <1>1, InsWriterQuiet
<1>5. WriterOK("idle", insEntry'[w], insNew'[w], insFile', insTmp')
  BY DEF WriterOK
<1>6. "read" \in Holding /\ "idle" \notin Holding
  BY DEF Holding
<1>7. (insFile' = insFile /\ insTmp' = insTmp) \/ insPc[w] \in Holding
  BY <1>1, <1>2, <1>6
<1> QED
  BY <1>1, <1>3, <1>4, <1>5, <1>6, <1>7, InsWriterQuiet, InsWriterSteps

LEMMA InsStepKeeps == InsInv /\ [InsNext]_insVars => InsInv'
<1> SUFFICES ASSUME InsInv, [InsNext]_insVars PROVE InsInv'
  OBVIOUS
<1>1. CASE WriteJournal
  <2>1. /\ UNCHANGED << insFile, insTmp, insLock, insPc, insEntry, insNew, insDone >>
        /\ \E j \in InsJournal : insJournals' = Append(insJournals, j)
    BY <1>1 DEF WriteJournal
  <2>2. insJournals' \in Seq(InsJournal)
    BY <2>1, Appended DEF InsInv
  <2> QED
    BY <2>1, <2>2, Zenon DEF InsInv
<1>2. CASE UNCHANGED insVars
  BY <1>2, Zenon DEF insVars, InsInv
<1> QED
  BY <1>1, <1>2, AppendBeginsKeeps, LockLedgerKeeps, ReadLedgerKeeps, WriteTempKeeps,
     RenameLedgerKeeps, AppendStopsKeeps DEF InsNext

\* Whatever writers die and whatever their entries look like, what was appended
\* once is found for good, once, and only the last entry keeps its lines.
THEOREM LedgerIsSound == InsSpec => [](InsTypeOK /\ LedgerSound)
<1>1. InsInit => InsInv
  <2> SUFFICES ASSUME InsInit PROVE InsInv
    OBVIOUS
  <2>1. /\ insJournals = << >> /\ insFile = {} /\ insTmp = {} /\ insLock = {}
        /\ insPc = [w \in InsWriter |-> "idle"] /\ insEntry = [w \in InsWriter |-> {}]
        /\ insNew = [w \in InsWriter |-> {}] /\ insDone = [titles |-> {}, begun |-> 0]
    BY DEF InsInit
  <2>2. insJournals \in Seq(InsJournal)
    BY <2>1, Nothing
  <2>3. FileOK(insFile)
    BY <2>1 DEF FileOK
  <2>4. \A w \in InsWriter : WriterOK(insPc[w], insEntry[w], insNew[w], insFile, insTmp)
    BY <2>1 DEF WriterOK
  <2>5. \A w \in InsWriter : insPc[w] \in Holding <=> w \in insLock
    BY <2>1 DEF Holding
  <2>6. insDone.titles \subseteq Titles(FileEntries(insFile)) /\ DOMAIN insDone = {"titles", "begun"}
    BY <2>1
  <2> QED
    BY <2>1, <2>2, <2>3, <2>4, <2>5, <2>6 DEF InsInv
<1>2. InsInv => InsTypeOK /\ LedgerSound
  <2> SUFFICES ASSUME InsInv PROVE InsTypeOK /\ LedgerSound
    OBVIOUS
  <2>1. FileOK(insFile) /\ insDone.titles \subseteq Titles(FileEntries(insFile))
    BY DEF InsInv
  <2>2. AppendsKept
    BY <2>1, FileRead DEF AppendsKept, LedgerTitles
  <2>3. TailsGo
    BY <2>1, LedgerRead DEF TailsGo, FileOK
  <2>4. Cardinality(insFile) <= 1
    <3>1. insFile = {} \/ \E f : insFile = {f}
      BY <2>1 DEF FileOK
    <3> QED
      BY <3>1, NoneOrOne
  <2>5. Cardinality(insTmp) <= 1
    <3>1. insTmp = {} \/ \E t : insTmp = {t}
      BY DEF InsInv
    <3> QED
      BY <3>1, NoneOrOne
  <2>6. Cardinality(insLock) <= 1 /\ insLock \subseteq InsWriter
    <3>1. insLock = {} \/ \E w \in InsWriter : insLock = {w}
      BY DEF InsInv
    <3> QED
      BY <3>1, FS_EmptySet, FS_Singleton
  <2>7. insJournals \in Seq(InsJournal) /\ insPc \in [InsWriter -> {"idle", "waits", "locked", "read", "written"}]
    BY DEF InsInv
  <2> QED
    BY <2>2, <2>3, <2>4, <2>5, <2>6, <2>7 DEF InsTypeOK, LedgerSound
<1> QED
  BY <1>1, <1>2, InsStepKeeps, PTL DEF InsSpec

(***************************************************************************)
(* Waves: the two projections of one history, and what is offered.         *)
(***************************************************************************)

Specs   == INSTANCE Folding WITH Step <- FirstPass
Reports == INSTANCE Folding WITH Step <- SecondPass
Offers  == INSTANCE Folding WITH Step <- Offer

StepId == WvStepName \union WvWave

\* What is planned is what has a status, in waves and steps that have a name.
PlanOK(p) ==
  /\ p.plan \in Seq(WvWave \X StepId)
  /\ DOMAIN p.status \subseteq WvWave
  /\ \A i \in DOMAIN p.plan : KnownStep(p, p.plan[i][1], p.plan[i][2])
  /\ \A w \in DOMAIN p.status : \A s \in DOMAIN p.status[w] : \E i \in DOMAIN p.plan : p.plan[i] = <<w, s>>
  /\ (\A steps \in WvSteps : IsInjective(steps)) => IsInjective(p.plan)

Statuses(p, S) == \A w \in DOMAIN p.status : \A s \in DOMAIN p.status[w] : p.status[w][s] \in S

SameSteps(p, q) ==
  /\ q.plan = p.plan
  /\ DOMAIN q.status = DOMAIN p.status
  /\ \A w \in DOMAIN p.status : DOMAIN q.status[w] = DOMAIN p.status[w]

LEMMA SpecifiedIsFold ==
  ASSUME NEW mails
  PROVE  /\ Specified(mails) = Specs!Folded(NoProgress, mails)
         /\ ProjectWaveState(mails) = Reports!Folded(Specified(mails), mails)
<1>1. Specified(mails) = Specs!Folded(NoProgress, mails)
  BY DEF Specified, FoldLeft, MapThenFoldSet, Max, Specs!Folded, Specs!Greatest
<1>2. ProjectWaveState(mails) = Reports!Folded(Specified(mails), mails)
  BY DEF ProjectWaveState, FoldLeft, MapThenFoldSet, Max, Reports!Folded, Reports!Greatest
<1> QED
  BY <1>1, <1>2

LEMMA TargetsAreFold == ASSUME NEW p PROVE Targets(p) = Offers!Folded(<< >>, StepProgress(p))
  BY DEF Targets, FoldLeft, MapThenFoldSet, Max, Offers!Folded, Offers!Greatest

\* A specification without steps is one step, named as its wave.
LEMMA IdsTyped ==
  ASSUME NEW wave \in WvWave, NEW steps \in StepLists
  PROVE  /\ StepsOf(wave, steps) \in Seq(StepId)
         /\ (\A t \in WvSteps : IsInjective(t)) => IsInjective(StepsOf(wave, steps))
<1>1. CASE steps = << >>
  <2>1. StepsOf(wave, steps) = << wave >> /\ wave \in StepId
    BY <1>1 DEF StepsOf, StepId
  <2>2. << wave >> \in Seq(StepId) /\ IsInjective(<< wave >>)
    BY <2>1 DEF IsInjective
  <2> QED
    BY <2>1, <2>2
<1>2. CASE steps # << >>
  <2>1. StepsOf(wave, steps) = steps /\ steps \in WvSteps
    BY <1>2 DEF StepsOf, StepLists
  <2> DEFINE U == UNION {ToSet(t) : t \in WvSteps}
  <2>2. steps \in Seq(U)
    BY <2>1, WavesAssumption
  <2>3. U \subseteq StepId
    BY DEF StepId, WvStepName
  <2> HIDE DEF U
  <2>4. ASSUME NEW A, NEW B, A \subseteq B, NEW t \in Seq(A) PROVE t \in Seq(B)
    BY <2>4
  <2> QED
    BY <2>1, <2>2, <2>3, <2>4
<1> QED
  BY <1>1, <1>2

LEMMA NothingPlanned == PlanOK(NoProgress) /\ Statuses(NoProgress, {"pending"})
<1>1. NoProgress.plan = << >> /\ DOMAIN NoProgress.status = {}
  BY DEF NoProgress
<1>2. << >> \in Seq(WvWave \X StepId) /\ DOMAIN << >> = {}
  OBVIOUS
<1>3. IsInjective(<< >>)
  BY <1>2 DEF IsInjective
<1> QED
  BY <1>1, <1>2, <1>3 DEF PlanOK, Statuses

\* What a wave adds to the plan.
Entries(wave, ids) == [j \in 1 .. Len(ids) |-> <<wave, ids[j]>>]

\* A wave that is new comes last, with its steps pending; nothing else changes.
LEMMA RegisteredIs ==
  ASSUME NEW p, NEW wave, NEW steps, wave \notin DOMAIN p.status
  PROVE  /\ Registered(p, wave, steps).plan = p.plan \o Entries(wave, StepsOf(wave, steps))
         /\ DOMAIN Registered(p, wave, steps).status = DOMAIN p.status \union {wave}
         /\ \A w \in DOMAIN p.status : Registered(p, wave, steps).status[w] = p.status[w]
         /\ DOMAIN Registered(p, wave, steps).status[wave] = ToSet(StepsOf(wave, steps))
         /\ \A s \in ToSet(StepsOf(wave, steps)) : Registered(p, wave, steps).status[wave][s] = "pending"
<1> DEFINE ids == StepsOf(wave, steps)
           h == [w \in DOMAIN p.status \cup {wave} |->
                   IF w = wave THEN [s \in ToSet(ids) |-> "pending"] ELSE p.status[w]]
<1>1. Registered(p, wave, steps)
        = [plan |-> p.plan \o [j \in 1 .. Len(ids) |-> <<wave, ids[j]>>], status |-> h]
  BY DEF Registered
<1>2. /\ Registered(p, wave, steps).plan = p.plan \o [j \in 1 .. Len(ids) |-> <<wave, ids[j]>>]
      /\ Registered(p, wave, steps).status = h
  BY <1>1
<1>3. /\ DOMAIN h = DOMAIN p.status \union {wave}
      /\ \A w \in DOMAIN p.status : h[w] = p.status[w]
      /\ h[wave] = [s \in ToSet(ids) |-> "pending"]
  OBVIOUS
<1> HIDE DEF h, ids
<1>4. DOMAIN h[wave] = ToSet(ids) /\ \A s \in ToSet(ids) : h[wave][s] = "pending"
  BY <1>3
<1> QED
  BY <1>2, <1>3, <1>4 DEF ids, Entries

LEMMA PlanGrows ==
  ASSUME NEW S, NEW plan \in Seq(S), NEW new \in Seq(S)
  PROVE  /\ plan \o new \in Seq(S)
         /\ \A i \in DOMAIN plan : i \in DOMAIN (plan \o new) /\ (plan \o new)[i] = plan[i]
         /\ \A j \in DOMAIN new : /\ Len(plan) + j \in DOMAIN (plan \o new)
                                  /\ (plan \o new)[Len(plan) + j] = new[j]
         /\ \A k \in DOMAIN (plan \o new) :
              k \in DOMAIN plan \/ \E j \in DOMAIN new : k = Len(plan) + j
<1>1. plan \o new \in Seq(S) /\ Len(plan \o new) = Len(plan) + Len(new)
  OBVIOUS
<1>2. \A i \in DOMAIN plan : i \in DOMAIN (plan \o new) /\ (plan \o new)[i] = plan[i]
  OBVIOUS
<1>3. ASSUME NEW j \in DOMAIN new
      PROVE  Len(plan) + j \in DOMAIN (plan \o new) /\ (plan \o new)[Len(plan) + j] = new[j]
  OBVIOUS
<1>4. ASSUME NEW k \in DOMAIN (plan \o new), k \notin DOMAIN plan
      PROVE  \E j \in DOMAIN new : k = Len(plan) + j
  <2>1. k \in Nat /\ k > Len(plan) /\ k <= Len(plan) + Len(new) /\ Len(plan) \in Nat /\ Len(new) \in Nat
    BY <1>1, <1>4
  <2>2. k - Len(plan) \in DOMAIN new /\ k = Len(plan) + (k - Len(plan))
    BY <2>1
  <2> QED
    BY <2>2
<1> QED
  BY <1>1, <1>2, <1>3, <1>4

LEMMA RegisteredOK ==
  ASSUME NEW p, PlanOK(p), NEW wave \in WvWave, NEW steps \in StepLists
  PROVE  PlanOK(Registered(p, wave, steps))
<1> DEFINE q == Registered(p, wave, steps)
           ids == StepsOf(wave, steps)
           new == Entries(wave, ids)
<1>1. CASE wave \in DOMAIN p.status
  BY <1>1 DEF Registered
<1>2. CASE wave \notin DOMAIN p.status
  <2>1. /\ q.plan = p.plan \o new
        /\ DOMAIN q.status = DOMAIN p.status \union {wave}
        /\ \A w \in DOMAIN p.status : q.status[w] = p.status[w]
        /\ DOMAIN q.status[wave] = ToSet(ids)
    BY <1>2, RegisteredIs
  <2>2. ids \in Seq(StepId) /\ ((\A t \in WvSteps : IsInjective(t)) => IsInjective(ids))
    BY IdsTyped
  <2>3. ToSet(ids) = {ids[j] : j \in DOMAIN ids}
    BY DEF ToSet
  <2>4. /\ p.plan \in Seq(WvWave \X StepId)
        /\ DOMAIN p.status \subseteq WvWave
        /\ \A i \in DOMAIN p.plan : KnownStep(p, p.plan[i][1], p.plan[i][2])
        /\ \A w \in DOMAIN p.status : \A s \in DOMAIN p.status[w] : \E i \in DOMAIN p.plan : p.plan[i] = <<w, s>>
        /\ (\A t \in WvSteps : IsInjective(t)) => IsInjective(p.plan)
    BY DEF PlanOK
  <2> HIDE DEF q, ids
  <2>5. /\ new \in Seq(WvWave \X StepId) /\ DOMAIN new = DOMAIN ids
        /\ \A j \in DOMAIN ids : new[j] = <<wave, ids[j]>>
    <3>1. Len(ids) \in Nat /\ DOMAIN ids = 1 .. Len(ids) /\ \A j \in 1 .. Len(ids) : ids[j] \in StepId
      BY <2>2
    <3>2. \A j \in 1 .. Len(ids) : <<wave, ids[j]>> \in WvWave \X StepId
      BY <3>1
    <3> QED
      BY <3>1, <3>2 DEF Entries
  <2> HIDE DEF new
  <2>6. q.plan \in Seq(WvWave \X StepId)
    BY <2>1, <2>4, <2>5, PlanGrows
  <2>7. \A i \in DOMAIN p.plan : i \in DOMAIN q.plan /\ q.plan[i] = p.plan[i]
    BY <2>1, <2>4, <2>5, PlanGrows
  <2>8. \A j \in DOMAIN ids : /\ Len(p.plan) + j \in DOMAIN q.plan
                              /\ q.plan[Len(p.plan) + j] = <<wave, ids[j]>>
    <3>1. \A j \in DOMAIN new : /\ Len(p.plan) + j \in DOMAIN (p.plan \o new)
                                /\ (p.plan \o new)[Len(p.plan) + j] = new[j]
      BY ONLY <2>4, <2>5, PlanGrows
    <3> QED
      BY ONLY <2>1, <2>5, <3>1
  <2>9. \A k \in DOMAIN q.plan : k \in DOMAIN p.plan \/ \E j \in DOMAIN ids : k = Len(p.plan) + j
    <3>1. \A k \in DOMAIN (p.plan \o new) : k \in DOMAIN p.plan \/ \E j \in DOMAIN new : k = Len(p.plan) + j
      BY ONLY <2>4, <2>5, PlanGrows
    <3> QED
      BY ONLY <2>1, <2>5, <3>1
  <2>10. ASSUME NEW k \in DOMAIN q.plan PROVE KnownStep(q, q.plan[k][1], q.plan[k][2])
    <3>1. CASE k \in DOMAIN p.plan
      BY <2>1, <2>4, <2>7, <3>1 DEF KnownStep
    <3>2. ASSUME NEW j \in DOMAIN ids, k = Len(p.plan) + j PROVE KnownStep(q, q.plan[k][1], q.plan[k][2])
      BY <2>1, <2>3, <2>8, <3>2 DEF KnownStep
    <3> QED
      BY <2>9, <3>1, <3>2
  <2>11. ASSUME NEW w \in DOMAIN q.status, NEW s \in DOMAIN q.status[w]
         PROVE  \E i \in DOMAIN q.plan : q.plan[i] = <<w, s>>
    <3>1. CASE w = wave
      <4>1. PICK j \in DOMAIN ids : s = ids[j]
        BY <2>1, <2>3, <2>11, <3>1
      <4> QED
        BY <2>8, <3>1, <4>1
    <3>2. CASE w # wave
      <4>1. w \in DOMAIN p.status /\ s \in DOMAIN p.status[w]
        BY <2>1, <2>11, <3>2
      <4> QED
        BY <2>4, <2>7, <4>1
    <3> QED
      BY <3>1, <3>2
  <2>12. ASSUME \A t \in WvSteps : IsInjective(t) PROVE IsInjective(q.plan)
    <3>1. IsInjective(ids) /\ IsInjective(p.plan)
      BY <2>2, <2>4, <2>12
    <3>2. SUFFICES ASSUME NEW a \in DOMAIN q.plan, NEW b \in DOMAIN q.plan, q.plan[a] = q.plan[b] PROVE a = b
      BY DEF IsInjective
    <3>3. \A i \in DOMAIN p.plan : p.plan[i][1] # wave
      BY <1>2, <2>4 DEF KnownStep
    <3>4. \A i \in DOMAIN p.plan : \A j \in DOMAIN ids : q.plan[i] # q.plan[Len(p.plan) + j]
      BY <2>7, <2>8, <3>3
    <3>5. \A i, j \in DOMAIN ids : q.plan[Len(p.plan) + i] = q.plan[Len(p.plan) + j] => i = j
      BY <2>8, <3>1 DEF IsInjective
    <3>6. \A i, j \in DOMAIN p.plan : q.plan[i] = q.plan[j] => i = j
      BY <2>7, <3>1 DEF IsInjective
    <3>7. CASE a \in DOMAIN p.plan /\ b \in DOMAIN p.plan
      BY <3>2, <3>6, <3>7
    <3>8. ASSUME NEW j \in DOMAIN ids, b = Len(p.plan) + j PROVE a = b
      <4>1. a \notin DOMAIN p.plan
        BY <3>2, <3>4, <3>8
      <4>2. PICK i \in DOMAIN ids : a = Len(p.plan) + i
        BY <2>9, <4>1
      <4>3. i = j
        BY <3>2, <3>5, <3>8, <4>2
      <4> QED
        BY <3>8, <4>2, <4>3
    <3>9. ASSUME NEW i \in DOMAIN ids, a = Len(p.plan) + i, b \in DOMAIN p.plan PROVE a = b
      BY <3>2, <3>4, <3>9
    <3> QED
      BY <2>9, <3>7, <3>8, <3>9
  <2>13. DOMAIN q.status \subseteq WvWave
    BY <2>1, <2>4
  <2>14. PlanOK(q)
    BY <2>6, <2>10, <2>11, <2>12, <2>13 DEF PlanOK
  <2> QED
    BY <2>14 DEF q
<1> QED
  BY <1>1, <1>2

LEMMA RegisteredPends ==
  ASSUME NEW p, NEW S, "pending" \in S, Statuses(p, S), NEW wave, NEW steps
  PROVE  Statuses(Registered(p, wave, steps), S)
<1> DEFINE q == Registered(p, wave, steps)
<1>1. CASE wave \in DOMAIN p.status
  BY <1>1 DEF Registered
<1>2. CASE wave \notin DOMAIN p.status
  <2>1. /\ DOMAIN q.status = DOMAIN p.status \union {wave}
        /\ \A w \in DOMAIN p.status : q.status[w] = p.status[w]
        /\ \A s \in DOMAIN q.status[wave] : q.status[wave][s] = "pending"
    BY <1>2, RegisteredIs
  <2> HIDE DEF q
  <2>2. Statuses(q, S)
    BY <2>1 DEF Statuses
  <2> QED
    BY <2>2 DEF q
<1> QED
  BY <1>1, <1>2

\* A step that is known gets the status, and nothing else changes.
LEMMA WithStatusIs ==
  ASSUME NEW p, NEW wave, NEW step, NEW status, KnownStep(p, wave, step)
  PROVE  /\ SameSteps(p, WithStatus(p, wave, step, status))
         /\ WithStatus(p, wave, step, status).status[wave][step] = status
         /\ \A w \in DOMAIN p.status : \A s \in DOMAIN p.status[w] :
              w # wave \/ s # step => WithStatus(p, wave, step, status).status[w][s] = p.status[w][s]
<1> DEFINE h == [p.status EXCEPT ![wave] = [@ EXCEPT ![step] = status]]
           q == WithStatus(p, wave, step, status)
<1>1. q.plan = p.plan /\ q.status = h
  BY DEF WithStatus
<1>2. wave \in DOMAIN p.status /\ step \in DOMAIN p.status[wave]
  BY DEF KnownStep
<1>3. DOMAIN h = DOMAIN p.status
  OBVIOUS
<1>4. h[wave] = [p.status[wave] EXCEPT ![step] = status]
  BY <1>2
<1>5. \A w \in DOMAIN p.status : w # wave => h[w] = p.status[w]
  BY <1>2
<1> HIDE DEF h, q
<1>6. DOMAIN h[wave] = DOMAIN p.status[wave] /\ h[wave][step] = status
      /\ \A s \in DOMAIN p.status[wave] : s # step => h[wave][s] = p.status[wave][s]
  BY <1>2, <1>4
<1>7. SameSteps(p, q)
  BY <1>1, <1>3, <1>5, <1>6 DEF SameSteps
<1>8. \A w \in DOMAIN p.status : \A s \in DOMAIN p.status[w] :
        w # wave \/ s # step => q.status[w][s] = p.status[w][s]
  BY <1>1, <1>3, <1>5, <1>6
<1> QED
  BY <1>1, <1>6, <1>7, <1>8 DEF q

LEMMA SameStepsCompose ==
  ASSUME NEW p, NEW q, NEW r, SameSteps(p, q), SameSteps(q, r)
  PROVE  SameSteps(p, r)
  BY DEF SameSteps

LEMMA SameStepsKnow ==
  ASSUME NEW p, NEW q, SameSteps(p, q)
  PROVE  /\ SameSteps(q, p)
         /\ \A w, s : KnownStep(q, w, s) <=> KnownStep(p, w, s)
         /\ PlanOK(p) => PlanOK(q)
<1>1. SameSteps(q, p) /\ \A w, s : KnownStep(q, w, s) <=> KnownStep(p, w, s)
  BY DEF SameSteps, KnownStep
<1>2. ASSUME PlanOK(p) PROVE PlanOK(q)
  <2>1. /\ q.plan = p.plan
        /\ DOMAIN q.status = DOMAIN p.status
        /\ \A w \in DOMAIN p.status : DOMAIN q.status[w] = DOMAIN p.status[w]
    BY DEF SameSteps
  <2>2. \A i \in DOMAIN p.plan : KnownStep(p, p.plan[i][1], p.plan[i][2])
    BY <1>2 DEF PlanOK
  <2> QED
    BY <1>1, <1>2, <2>1, <2>2 DEF PlanOK
<1> QED
  BY <1>1, <1>2

\* What a d-mail makes of the status of a step.
StatusAfter(st, m, w, s) ==
  IF m.wave # w \/ StepOf(m.wave, m.step) # s THEN st
  ELSE IF m.kind = "report" THEN (IF m.severity \in {Unnamed, "low"} THEN "completed" ELSE "failed")
  ELSE IF m.kind = "feedback" /\ st = "failed" THEN "pending" ELSE st

LEMMA SecondPassIs ==
  ASSUME NEW p, NEW m
  PROVE  /\ SameSteps(p, SecondPass(p, m))
         /\ \A w, s : w # Unnamed /\ KnownStep(p, w, s) =>
              SecondPass(p, m).status[w][s] = StatusAfter(p.status[w][s], m, w, s)
<1> DEFINE step == StepOf(m.wave, m.step)
           q == SecondPass(p, m)
<1>0. SameSteps(p, p)
  BY DEF SameSteps
<1>1. CASE m.wave = Unnamed \/ ~KnownStep(p, m.wave, step)
  <2>1. q = p
    BY <1>1, Zenon DEF SecondPass
  <2>2. \A w, s : w # Unnamed /\ KnownStep(p, w, s) => StatusAfter(p.status[w][s], m, w, s) = p.status[w][s]
    BY <1>1, Zenon DEF StatusAfter
  <2> QED
    BY <1>0, <2>1, <2>2
<1>2. CASE ~(m.wave = Unnamed \/ ~KnownStep(p, m.wave, step))
  <2> DEFINE verdict == IF m.severity \in {Unnamed, "low"} THEN "completed" ELSE "failed"
  <2>1. CASE m.kind = "report"
    <3>1. q = WithStatus(p, m.wave, step, verdict)
      BY <1>2, <2>1, Zenon DEF SecondPass
    <3>2. ASSUME NEW w, NEW s, KnownStep(p, w, s)
          PROVE  q.status[w][s] = StatusAfter(p.status[w][s], m, w, s)
      <4>1. w \in DOMAIN p.status /\ s \in DOMAIN p.status[w]
        BY <3>2 DEF KnownStep
      <4>2. CASE m.wave # w \/ step # s
        <5>1. StatusAfter(p.status[w][s], m, w, s) = p.status[w][s]
          BY <4>2, Zenon DEF StatusAfter
        <5> HIDE DEF step, verdict, q
        <5>2. q.status[w][s] = p.status[w][s]
          BY <1>2, <3>1, <4>1, <4>2, WithStatusIs
        <5> QED
          BY <5>1, <5>2
      <4>3. CASE ~(m.wave # w \/ step # s)
        <5>1. StatusAfter(p.status[w][s], m, w, s) = verdict
          BY <2>1, <4>3, Zenon DEF StatusAfter
        <5> HIDE DEF step, verdict, q
        <5>2. q.status[w][s] = verdict
          BY <1>2, <3>1, <4>3, WithStatusIs
        <5> QED
          BY <5>1, <5>2
      <4> QED
        BY <4>2, <4>3
    <3>3. SameSteps(p, q)
      <4> HIDE DEF step, verdict, q
      <4> QED
        BY <1>2, <3>1, WithStatusIs
    <3> QED
      BY <3>2, <3>3
  <2>2. CASE m.kind = "feedback" /\ p.status[m.wave][step] = "failed"
    <3>1. q = WithStatus(p, m.wave, step, "pending")
      BY <1>2, <2>2 DEF SecondPass
    <3>2. ASSUME NEW w, NEW s, KnownStep(p, w, s)
          PROVE  q.status[w][s] = StatusAfter(p.status[w][s], m, w, s)
      <4>1. w \in DOMAIN p.status /\ s \in DOMAIN p.status[w]
        BY <3>2 DEF KnownStep
      <4>2. CASE m.wave # w \/ step # s
        <5>1. StatusAfter(p.status[w][s], m, w, s) = p.status[w][s]
          BY <4>2, Zenon DEF StatusAfter
        <5> HIDE DEF step, q
        <5>2. q.status[w][s] = p.status[w][s]
          BY <1>2, <3>1, <4>1, <4>2, WithStatusIs
        <5> QED
          BY <5>1, <5>2
      <4>3. CASE ~(m.wave # w \/ step # s)
        <5>1. StatusAfter(p.status[w][s], m, w, s) = "pending"
          BY <2>2, <4>3 DEF StatusAfter
        <5> HIDE DEF step, q
        <5>2. q.status[w][s] = "pending"
          BY <1>2, <3>1, <4>3, WithStatusIs
        <5> QED
          BY <5>1, <5>2
      <4> QED
        BY <4>2, <4>3
    <3>3. SameSteps(p, q)
      <4> HIDE DEF step, q
      <4> QED
        BY <1>2, <3>1, WithStatusIs
    <3> QED
      BY <3>2, <3>3
  <2>3. CASE m.kind # "report" /\ ~(m.kind = "feedback" /\ p.status[m.wave][step] = "failed")
    <3>1. q = p
      BY <1>2, <2>3 DEF SecondPass
    <3>2. \A w, s : KnownStep(p, w, s) => StatusAfter(p.status[w][s], m, w, s) = p.status[w][s]
      BY <1>2, <2>3 DEF StatusAfter
    <3> QED
      BY <1>0, <3>1, <3>2
  <2> QED
    BY <2>1, <2>2, <2>3
<1> QED
  BY <1>1, <1>2

\* Reports and feedback change the status of known steps only.
LEMMA ReportsKeepSteps ==
  ASSUME NEW p
  PROVE  \A mails \in Seq(WvMail) : SameSteps(p, Reports!Folded(p, mails))
<1> DEFINE G == {mails \in Seq(WvMail) : SameSteps(p, Reports!Folded(p, mails))}
<1>1. << >> \in G
  BY Reports!FoldEmpty, Nothing DEF SameSteps
<1>2. ASSUME NEW mails \in Seq(WvMail), NEW m \in WvMail, mails \in G PROVE Append(mails, m) \in G
  <2>1. Reports!Folded(p, Append(mails, m)) = SecondPass(Reports!Folded(p, mails), m)
    BY Reports!FoldAppend
  <2>2. SameSteps(Reports!Folded(p, mails), SecondPass(Reports!Folded(p, mails), m))
    BY SecondPassIs
  <2>3. SameSteps(p, Reports!Folded(p, mails))
    BY <1>2
  <2> QED
    BY <2>1, <2>2, <2>3, SameStepsCompose, Appended
<1> HIDE DEF G
<1>3. Seq(WvMail) \subseteq G
  BY <1>1, <1>2, Reports!SequencesGrow
<1> QED
  BY <1>3 DEF G

\* What they make of a step depends on nothing but its own status.
LEMMA ReportsAreLocal ==
  ASSUME NEW p, NEW q, NEW w, NEW s, w # Unnamed, KnownStep(p, w, s), KnownStep(q, w, s),
         p.status[w][s] = q.status[w][s]
  PROVE  \A mails \in Seq(WvMail) :
           Reports!Folded(p, mails).status[w][s] = Reports!Folded(q, mails).status[w][s]
<1> DEFINE G == {mails \in Seq(WvMail) :
                   Reports!Folded(p, mails).status[w][s] = Reports!Folded(q, mails).status[w][s]}
<1>1. << >> \in G
  BY Reports!FoldEmpty, Nothing
<1>2. ASSUME NEW mails \in Seq(WvMail), NEW m \in WvMail, mails \in G PROVE Append(mails, m) \in G
  <2> DEFINE a == Reports!Folded(p, mails)
             b == Reports!Folded(q, mails)
  <2>1. /\ Reports!Folded(p, Append(mails, m)) = SecondPass(a, m)
        /\ Reports!Folded(q, Append(mails, m)) = SecondPass(b, m)
    BY Reports!FoldAppend
  <2>2. a.status[w][s] = b.status[w][s]
    BY <1>2
  <2>3. SameSteps(p, a) /\ SameSteps(q, b)
    BY ReportsKeepSteps
  <2> HIDE DEF a, b
  <2>4. KnownStep(a, w, s) /\ KnownStep(b, w, s)
    BY <2>3, SameStepsKnow
  <2>5. /\ SecondPass(a, m).status[w][s] = StatusAfter(a.status[w][s], m, w, s)
        /\ SecondPass(b, m).status[w][s] = StatusAfter(b.status[w][s], m, w, s)
    BY <2>4, SecondPassIs
  <2>6. SecondPass(a, m).status[w][s] = SecondPass(b, m).status[w][s]
    BY <2>2, <2>5
  <2> QED
    BY <2>1, <2>6, Appended
<1> HIDE DEF G
<1>3. Seq(WvMail) \subseteq G
  BY <1>1, <1>2, Reports!SequencesGrow
<1> QED
  BY <1>3 DEF G

\* A report of a step, whatever it says.
ReportOf(m, w, s) == m.kind = "report" /\ m.wave = w /\ StepOf(m.wave, m.step) = s

LEMMA OpenWithoutReport ==
  ASSUME NEW p, NEW w, NEW s, w # Unnamed, KnownStep(p, w, s), p.status[w][s] # "completed"
  PROVE  \A mails \in Seq(WvMail) :
           (\A i \in DOMAIN mails : ~ReportOf(mails[i], w, s)) =>
             Reports!Folded(p, mails).status[w][s] # "completed"
<1> DEFINE G == {mails \in Seq(WvMail) :
                   (\A i \in DOMAIN mails : ~ReportOf(mails[i], w, s)) =>
                     Reports!Folded(p, mails).status[w][s] # "completed"}
<1>1. << >> \in G
  BY Reports!FoldEmpty, Nothing
<1>2. ASSUME NEW mails \in Seq(WvMail), NEW m \in WvMail, mails \in G PROVE Append(mails, m) \in G
  <2> DEFINE a == Reports!Folded(p, mails)
  <2>1. Reports!Folded(p, Append(mails, m)) = SecondPass(a, m)
    BY Reports!FoldAppend
  <2>2. SameSteps(p, a)
    BY ReportsKeepSteps
  <2>3. (\A i \in DOMAIN mails : ~ReportOf(mails[i], w, s)) => a.status[w][s] # "completed"
    BY <1>2
  <2> HIDE DEF a
  <2>4. KnownStep(a, w, s)
    BY <2>2, SameStepsKnow
  <2>5. SecondPass(a, m).status[w][s] = StatusAfter(a.status[w][s], m, w, s)
    BY <2>4, SecondPassIs
  <2>6. ASSUME \A i \in DOMAIN Append(mails, m) : ~ReportOf(Append(mails, m)[i], w, s)
        PROVE  SecondPass(a, m).status[w][s] # "completed"
    <3>1. /\ \A i \in DOMAIN mails : i \in DOMAIN Append(mails, m) /\ Append(mails, m)[i] = mails[i]
          /\ Len(mails) + 1 \in DOMAIN Append(mails, m) /\ Append(mails, m)[Len(mails) + 1] = m
      OBVIOUS
    <3>2. ~ReportOf(m, w, s) /\ \A i \in DOMAIN mails : ~ReportOf(mails[i], w, s)
      BY <2>6, <3>1
    <3>3. a.status[w][s] # "completed"
      BY <2>3, <3>2
    <3> QED
      BY <2>5, <3>2, <3>3 DEF StatusAfter, ReportOf
  <2> QED
    BY <2>1, <2>6, Appended
<1> HIDE DEF G
<1>3. Seq(WvMail) \subseteq G
  BY <1>1, <1>2, Reports!SequencesGrow
<1> QED
  BY <1>3 DEF G

\* A d-mail in the first pass, and at the end of the list.
LEMMA FirstPassIs ==
  ASSUME NEW p, PlanOK(p), Statuses(p, {"pending"}), NEW m \in WvMail
  PROVE  PlanOK(FirstPass(p, m)) /\ Statuses(FirstPass(p, m), {"pending"})
<1>1. CASE m.kind = "specification" /\ m.wave # Unnamed
  <2>1. FirstPass(p, m) = Registered(p, m.wave, m.steps)
    BY <1>1, Zenon DEF FirstPass
  <2>2. m.wave \in WvWave /\ m.steps \in StepLists
    BY <1>1 DEF WvMail, WaveName
  <2> QED
    BY <2>1, <2>2, RegisteredOK, RegisteredPends
<1>2. CASE ~(m.kind = "specification" /\ m.wave # Unnamed)
  <2>1. FirstPass(p, m) = p
    BY <1>2, Zenon DEF FirstPass
  <2> QED
    BY <2>1
<1> QED
  BY <1>1, <1>2

LEMMA SpecifiedOK ==
  \A mails \in Seq(WvMail) : PlanOK(Specified(mails)) /\ Statuses(Specified(mails), {"pending"})
<1> DEFINE G == {mails \in Seq(WvMail) :
                   PlanOK(Specified(mails)) /\ Statuses(Specified(mails), {"pending"})}
<1>1. << >> \in G
  <2>1. Specified(<< >>) = NoProgress
    BY SpecifiedIsFold, Specs!FoldEmpty
  <2> QED
    BY <2>1, NothingPlanned, Nothing
<1>2. ASSUME NEW mails \in Seq(WvMail), NEW m \in WvMail, mails \in G PROVE Append(mails, m) \in G
  <2>1. Specified(Append(mails, m)) = FirstPass(Specified(mails), m)
    BY SpecifiedIsFold, Specs!FoldAppend
  <2>2. PlanOK(Specified(mails)) /\ Statuses(Specified(mails), {"pending"})
    BY <1>2
  <2> QED
    BY <2>1, <2>2, FirstPassIs, Appended
<1> HIDE DEF G
<1>3. Seq(WvMail) \subseteq G
  BY <1>1, <1>2, Specs!SequencesGrow
<1> QED
  BY <1>3 DEF G

LEMMA EventsOK ==
  \A events \in Seq(WvEv) : /\ PlanOK(ProjectWaveStepProgress(events))
                            /\ Statuses(ProjectWaveStepProgress(events), {"pending", "completed"})
<1> DEFINE Fine(p) == PlanOK(p) /\ Statuses(p, {"pending", "completed"})
           G == {events \in Seq(WvEv) : Fine(ProjectWaveStepProgress(events))}
<1>1. << >> \in G
  <2>1. ProjectWaveStepProgress(<< >>) = NoProgress
    BY ProgressIsFold, Waves1!FoldEmpty
  <2>2. Statuses(NoProgress, {"pending", "completed"})
    BY NothingPlanned DEF Statuses
  <2> QED
    BY <2>1, <2>2, NothingPlanned, Nothing
<1>2. ASSUME NEW events \in Seq(WvEv), NEW e \in WvEv, events \in G PROVE Append(events, e) \in G
  <2> DEFINE p == ProjectWaveStepProgress(events)
             step == StepOf(e.wave, e.step)
  <2>1. ProjectWaveStepProgress(Append(events, e)) = ApplyWaveStepEvent(p, e)
    BY ProgressIsFold, Waves1!FoldAppend
  <2>2. Fine(p)
    BY <1>2
  <2>3. Fine(ApplyWaveStepEvent(p, e))
    <3> HIDE DEF p
    <3>1. CASE e.type = "spec.registered"
      <4>1. ApplyWaveStepEvent(p, e) = Registered(p, e.wave, e.steps)
        BY <3>1 DEF ApplyWaveStepEvent
      <4>2. e.wave \in WvWave /\ e.steps \in StepLists
        BY <3>1 DEF WvEv, StepLists
      <4> QED
        BY <2>2, <4>1, <4>2, RegisteredOK, RegisteredPends
    <3>2. CASE e.type # "spec.registered" /\ KnownStep(p, e.wave, step) /\ e.status \in {"success", "skipped"}
      <4> DEFINE q == WithStatus(p, e.wave, step, "completed")
      <4>1. ApplyWaveStepEvent(p, e) = q
        BY <3>2 DEF ApplyWaveStepEvent
      <4>2. /\ SameSteps(p, q)
            /\ q.status[e.wave][step] = "completed"
            /\ \A w \in DOMAIN p.status : \A s \in DOMAIN p.status[w] :
                 w # e.wave \/ s # step => q.status[w][s] = p.status[w][s]
        BY <3>2, WithStatusIs
      <4> HIDE DEF q, step
      <4>3. PlanOK(q)
        BY <2>2, <4>2, SameStepsKnow
      <4>4. Statuses(q, {"pending", "completed"})
        BY <2>2, <4>2 DEF Statuses, SameSteps
      <4> QED
        BY <4>1, <4>3, <4>4
    <3>3. CASE e.type # "spec.registered" /\ ~(KnownStep(p, e.wave, step) /\ e.status \in {"success", "skipped"})
      <4>1. ApplyWaveStepEvent(p, e) = p
        BY <3>3 DEF ApplyWaveStepEvent
      <4> QED
        BY <2>2, <4>1
    <3> QED
      BY <3>1, <3>2, <3>3
  <2> QED
    BY <2>1, <2>3, Appended
<1> HIDE DEF G
<1>3. Seq(WvEv) \subseteq G
  BY <1>1, <1>2, Waves1!SequencesGrow
<1> QED
  BY <1>3 DEF G

\* What is offered: what is not completed, once if it is planned once.
Target == WvWave \X StepId
Open1(q) == {q[i].target : i \in {j \in DOMAIN q : q[j].status # "completed"}}
Once(q)  == \A i, j \in DOMAIN q : q[i].target = q[j].target => i = j

OffersFine(q) ==
  /\ Offers!Folded(<< >>, q) \in Seq(Target)
  /\ ToSet(Offers!Folded(<< >>, q)) = Open1(q)
  /\ Once(q) => IsInjective(Offers!Folded(<< >>, q))

LEMMA OffersAppended ==
  ASSUME NEW S, NEW q \in Seq([target : Target, status : S]), NEW x \in [target : Target, status : S],
         OffersFine(q)
  PROVE  OffersFine(Append(q, x))
<1> DEFINE r == Append(q, x)
           t == Offers!Folded(<< >>, q)
           u == Offers!Folded(<< >>, r)
<1>1. u = Offer(t, x)
  BY Offers!FoldAppend
<1>2. t \in Seq(Target) /\ ToSet(t) = Open1(q) /\ (Once(q) => IsInjective(t))
  BY DEF OffersFine
<1>3. /\ Len(q) \in Nat /\ DOMAIN q = 1 .. Len(q) /\ DOMAIN r = DOMAIN q \union {Len(q) + 1}
      /\ Len(q) + 1 \notin DOMAIN q /\ r[Len(q) + 1] = x /\ \A i \in DOMAIN q : r[i] = q[i]
  OBVIOUS
<1>4. Once(r) => Once(q) /\ \A i \in DOMAIN q : q[i].target # x.target
  BY <1>3 DEF Once
<1> HIDE DEF r, t, u
<1>5. CASE x.status = "completed"
  <2>1. u = t
    BY <1>1, <1>5 DEF Offer
  <2>2. Open1(r) = Open1(q)
    BY <1>3, <1>5 DEF Open1
  <2>3. u \in Seq(Target) /\ ToSet(u) = Open1(r) /\ (Once(r) => IsInjective(u))
    BY <1>2, <1>4, <2>1, <2>2
  <2> QED
    BY <2>3 DEF OffersFine, r, u
<1>6. CASE x.status # "completed"
  <2>1. u = Append(t, x.target) /\ x.target \in Target
    BY <1>1, <1>6 DEF Offer
  <2>2. Open1(r) = Open1(q) \union {x.target}
    BY <1>3, <1>6 DEF Open1
  <2>3. /\ Len(t) \in Nat /\ DOMAIN t = 1 .. Len(t) /\ DOMAIN u = DOMAIN t \union {Len(t) + 1}
        /\ Len(t) + 1 \notin DOMAIN t /\ u[Len(t) + 1] = x.target /\ \A i \in DOMAIN t : u[i] = t[i]
        /\ u \in Seq(Target)
    BY <1>2, <2>1
  <2>4. ToSet(u) = ToSet(t) \union {x.target}
    BY <2>3 DEF ToSet
  <2>5. ASSUME Once(r) PROVE IsInjective(u)
    <3>1. \A i \in DOMAIN q : q[i].target # x.target
      BY <1>4, <2>5
    <3>2. x.target \notin ToSet(t)
      BY <1>2, <3>1 DEF Open1
    <3>3. \A i \in DOMAIN t : t[i] # x.target
      BY <3>2 DEF ToSet
    <3>4. \A i, j \in DOMAIN t : t[i] = t[j] => i = j
      BY <1>2, <1>4, <2>5 DEF IsInjective
    <3>5. \A i, j \in DOMAIN u : u[i] = u[j] => i = j
      BY <2>3, <3>3, <3>4
    <3> QED
      BY <3>5 DEF IsInjective
  <2>6. u \in Seq(Target) /\ ToSet(u) = Open1(r) /\ (Once(r) => IsInjective(u))
    BY <1>2, <2>2, <2>3, <2>4, <2>5
  <2> QED
    BY <2>6 DEF OffersFine, r, u
<1> QED
  BY <1>5, <1>6

LEMMA OffersAre ==
  ASSUME NEW S
  PROVE  \A q \in Seq([target : Target, status : S]) : OffersFine(q)
<1> DEFINE X == [target : Target, status : S]
           G == {q \in Seq(X) : OffersFine(q)}
<1>1. << >> \in G
  <2>1. Offers!Folded(<< >>, << >>) = << >>
    BY Offers!FoldEmpty
  <2>2. /\ << >> \in Seq(Target) /\ << >> \in Seq(X)
        /\ ToSet(<< >>) = {} /\ Open1(<< >>) = {} /\ IsInjective(<< >>)
    <3>1. DOMAIN << >> = {}
      OBVIOUS
    <3> QED
      BY <3>1, Nothing DEF ToSet, Open1, IsInjective
  <2> QED
    BY <2>1, <2>2 DEF OffersFine
<1>2. ASSUME NEW q \in Seq(X), NEW x \in X, q \in G PROVE Append(q, x) \in G
  BY <1>2, OffersAppended, Appended
<1> HIDE DEF G
<1>3. Seq(X) \subseteq G
  BY <1>1, <1>2, Offers!SequencesGrow
<1> QED
  BY <1>3 DEF G

\* The open steps of a projection are those that are planned and not completed.
LEMMA OpenIs ==
  ASSUME NEW p, PlanOK(p)
  PROVE  /\ Open(p) \subseteq Target
         /\ \A w, s : <<w, s>> \in Open(p) <=> KnownStep(p, w, s) /\ p.status[w][s] # "completed"
         /\ IsInjective(p.plan) => IsInjective(Targets(p))
<1> DEFINE st(i) == p.status[p.plan[i][1]][p.plan[i][2]]
           S == {st(i) : i \in 1 .. Len(p.plan)}
           q == StepProgress(p)
<1>1. /\ p.plan \in Seq(Target)
      /\ \A i \in DOMAIN p.plan : KnownStep(p, p.plan[i][1], p.plan[i][2])
      /\ \A w \in DOMAIN p.status : \A s \in DOMAIN p.status[w] : \E i \in DOMAIN p.plan : p.plan[i] = <<w, s>>
  BY DEF PlanOK, Target
<1>2. /\ Len(p.plan) \in Nat /\ DOMAIN p.plan = 1 .. Len(p.plan)
      /\ \A i \in 1 .. Len(p.plan) : p.plan[i] \in Target
  BY <1>1
<1>3. q = [i \in 1 .. Len(p.plan) |-> [target |-> p.plan[i], status |-> st(i)]]
  BY DEF StepProgress
<1>4. \A i \in 1 .. Len(p.plan) : st(i) \in S
  OBVIOUS
<1> HIDE DEF q, st, S
<1>5. /\ q \in Seq([target : Target, status : S]) /\ DOMAIN q = DOMAIN p.plan
      /\ \A i \in DOMAIN p.plan : q[i].target = p.plan[i] /\ q[i].status = st(i)
  <2>1. \A i \in 1 .. Len(p.plan) :
          [target |-> p.plan[i], status |-> st(i)] \in [target : Target, status : S]
    BY <1>2, <1>4
  <2>2. q \in Seq([target : Target, status : S])
    BY <1>2, <1>3, <2>1
  <2>3. DOMAIN q = DOMAIN p.plan
    BY <1>2, <1>3
  <2>4. ASSUME NEW i \in DOMAIN p.plan PROVE q[i].target = p.plan[i] /\ q[i].status = st(i)
    <3>1. q[i] = [target |-> p.plan[i], status |-> st(i)]
      BY <1>2, <1>3
    <3> QED
      BY <3>1
  <2> QED
    BY <2>2, <2>3, <2>4
<1>6. OffersFine(q)
  BY <1>5, OffersAre
<1>7. Targets(p) = Offers!Folded(<< >>, q)
  BY TargetsAreFold DEF q
<1>8. Open(p) = Open1(q) /\ Targets(p) \in Seq(Target) /\ (Once(q) => IsInjective(Targets(p)))
  BY <1>6, <1>7 DEF OffersFine, Open
<1>9. Open1(q) = {p.plan[i] : i \in {j \in DOMAIN p.plan : st(j) # "completed"}}
  BY <1>5 DEF Open1
<1>10. Open(p) \subseteq Target
  BY <1>2, <1>8, <1>9
<1>11. ASSUME NEW w, NEW s
       PROVE  <<w, s>> \in Open(p) <=> KnownStep(p, w, s) /\ p.status[w][s] # "completed"
  <2>1. ASSUME <<w, s>> \in Open(p) PROVE KnownStep(p, w, s) /\ p.status[w][s] # "completed"
    <3>1. PICK i \in DOMAIN p.plan : p.plan[i] = <<w, s>> /\ st(i) # "completed"
      BY <1>8, <1>9, <2>1
    <3>2. p.plan[i][1] = w /\ p.plan[i][2] = s
      BY <3>1
    <3> QED
      BY <1>1, <3>1, <3>2 DEF st
  <2>2. ASSUME KnownStep(p, w, s), p.status[w][s] # "completed" PROVE <<w, s>> \in Open(p)
    <3>1. PICK i \in DOMAIN p.plan : p.plan[i] = <<w, s>>
      BY <1>1, <2>2 DEF KnownStep
    <3>2. p.plan[i][1] = w /\ p.plan[i][2] = s
      BY <3>1
    <3>3. st(i) # "completed"
      BY <2>2, <3>2 DEF st
    <3> QED
      BY <1>8, <1>9, <3>1, <3>3
  <2> QED
    BY <2>1, <2>2
<1>12. IsInjective(p.plan) => Once(q)
  BY <1>5 DEF IsInjective, Once
<1> QED
  BY <1>8, <1>10, <1>11, <1>12

\* What the history of events and d-mails keeps to: what is recorded has a
\* d-mail, both projections take a step that is not misled for completed or
\* neither does, and no report of such a step came before its specification.
Matched(E, F, M, misled) ==
  /\ DOMAIN E.status \subseteq DOMAIN F.status
  /\ \A w, s : KnownStep(E, w, s) /\ KnownStep(F, w, s) /\ <<w, s>> \notin misled =>
       (E.status[w][s] = "completed" <=> M.status[w][s] = "completed")

Told(mails, E, misled) ==
  \A i \in DOMAIN mails : mails[i].kind = "report" =>
    LET id == StepOf(mails[i].wave, mails[i].step) IN
      <<mails[i].wave, id>> \in misled \/ KnownStep(E, mails[i].wave, id)

History(events, mails, misled) ==
  /\ events \in Seq(WvEv) /\ mails \in Seq(WvMail)
  /\ Matched(ProjectWaveStepProgress(events), Specified(mails), ProjectWaveState(mails), misled)
  /\ Told(mails, ProjectWaveStepProgress(events), misled)

LEMMA ToldGrows ==
  ASSUME NEW mails \in Seq(WvMail), NEW m \in WvMail, NEW E, NEW D, NEW misled, NEW more,
         Told(mails, E, misled), misled \subseteq more,
         \A w, s : KnownStep(E, w, s) => KnownStep(D, w, s),
         m.kind = "report" =>
           <<m.wave, StepOf(m.wave, m.step)>> \in more \/ KnownStep(D, m.wave, StepOf(m.wave, m.step))
  PROVE  Told(Append(mails, m), D, more)
<1> DEFINE r == Append(mails, m)
<1>1. /\ DOMAIN r = DOMAIN mails \union {Len(mails) + 1}
      /\ r[Len(mails) + 1] = m /\ \A i \in DOMAIN mails : r[i] = mails[i]
  OBVIOUS
<1> HIDE DEF r
<1>2. Told(r, D, more)
  BY <1>1 DEF Told
<1> QED
  BY <1>2 DEF r

\* A step keeps being known.
LEMMA KnownStays ==
  ASSUME NEW p, NEW q, StaysDone(p, q)
  PROVE  \A w, s : KnownStep(p, w, s) => KnownStep(q, w, s)
  BY DEF StaysDone, KnownStep

\* Where the names of known steps come from.
LEMMA KnownNamed ==
  ASSUME NEW p, PlanOK(p), NEW w, NEW s, KnownStep(p, w, s)
  PROVE  w \in WvWave /\ w # Unnamed
  BY WavesAssumption DEF PlanOK, KnownStep

\* What the d-mails say, with a further one.
LEMMA ReportAppended ==
  ASSUME NEW mails \in Seq(WvMail), NEW m \in WvMail, m.kind # "specification"
  PROVE  /\ Specified(Append(mails, m)) = Specified(mails)
         /\ ProjectWaveState(Append(mails, m)) = SecondPass(ProjectWaveState(mails), m)
<1>1. Specified(Append(mails, m)) = FirstPass(Specified(mails), m)
  BY SpecifiedIsFold, Specs!FoldAppend
<1>2. FirstPass(Specified(mails), m) = Specified(mails)
  BY Zenon DEF FirstPass
<1>3. /\ ProjectWaveState(Append(mails, m)) = Reports!Folded(Specified(Append(mails, m)), Append(mails, m))
      /\ ProjectWaveState(mails) = Reports!Folded(Specified(mails), mails)
  BY SpecifiedIsFold
<1>4. Reports!Folded(Specified(mails), Append(mails, m)) = SecondPass(Reports!Folded(Specified(mails), mails), m)
  BY Reports!FoldAppend
<1> QED
  BY <1>1, <1>2, <1>3, <1>4

LEMMA ProjectedSteps ==
  ASSUME NEW mails \in Seq(WvMail)
  PROVE  /\ PlanOK(Specified(mails)) /\ PlanOK(ProjectWaveState(mails))
         /\ SameSteps(Specified(mails), ProjectWaveState(mails))
<1>1. ProjectWaveState(mails) = Reports!Folded(Specified(mails), mails)
  BY SpecifiedIsFold
<1> QED
  BY <1>1, SpecifiedOK, ReportsKeepSteps, SameStepsKnow

LEMMA SpecAppended ==
  ASSUME NEW mails \in Seq(WvMail), NEW m \in WvMail, m.kind = "specification", m.wave \in WvWave
  PROVE  /\ Specified(Append(mails, m)) = Registered(Specified(mails), m.wave, m.steps)
         /\ \A w, s : KnownStep(Specified(mails), w, s) =>
              ProjectWaveState(Append(mails, m)).status[w][s] = ProjectWaveState(mails).status[w][s]
         /\ \A w, s : /\ KnownStep(Specified(Append(mails, m)), w, s)
                      /\ \A i \in DOMAIN mails : ~ReportOf(mails[i], w, s)
                      => ProjectWaveState(Append(mails, m)).status[w][s] # "completed"
<1> DEFINE r == Append(mails, m)
           F == Specified(mails)
           D == Specified(r)
           Q == Reports!Folded(D, mails)
           N == ProjectWaveState(r)
<1>0. r \in Seq(WvMail)
  BY Appended
<1>1. D = Registered(F, m.wave, m.steps)
  <2>1. D = FirstPass(F, m)
    BY SpecifiedIsFold, Specs!FoldAppend
  <2>2. m.wave # Unnamed
    BY WavesAssumption
  <2> QED
    BY <2>1, <2>2, Zenon DEF FirstPass
<1>2. N = SecondPass(Q, m)
  <2>1. N = Reports!Folded(D, r)
    BY SpecifiedIsFold
  <2>2. Reports!Folded(D, r) = SecondPass(Q, m)
    BY Reports!FoldAppend
  <2> QED
    BY <2>1, <2>2
<1>3. ProjectWaveState(mails) = Reports!Folded(F, mails)
  BY SpecifiedIsFold
<1>4. PlanOK(F) /\ PlanOK(D) /\ Statuses(D, {"pending"})
  BY <1>0, SpecifiedOK
<1>5. SameSteps(D, Q)
  BY ReportsKeepSteps
<1>6. ASSUME NEW w, NEW s, KnownStep(D, w, s) PROVE w # Unnamed /\ N.status[w][s] = Q.status[w][s]
  <2> HIDE DEF D, Q, N
  <2>1. w # Unnamed
    BY <1>4, <1>6, KnownNamed
  <2>2. KnownStep(Q, w, s)
    BY <1>5, <1>6, SameStepsKnow
  <2>3. SecondPass(Q, m).status[w][s] = StatusAfter(Q.status[w][s], m, w, s)
    BY <2>1, <2>2, SecondPassIs
  <2>4. StatusAfter(Q.status[w][s], m, w, s) = Q.status[w][s]
    BY DEF StatusAfter
  <2> QED
    BY <1>2, <2>1, <2>3, <2>4
<1>7. ASSUME NEW w, NEW s, KnownStep(F, w, s) PROVE N.status[w][s] = ProjectWaveState(mails).status[w][s]
  <2>1. KnownStep(D, w, s) /\ D.status[w][s] = F.status[w][s]
    <3> HIDE DEF D, F
    <3>1. w \in DOMAIN F.status /\ s \in DOMAIN F.status[w]
      BY <1>7 DEF KnownStep
    <3>2. CASE m.wave \in DOMAIN F.status
      BY <1>1, <1>7, <3>2 DEF Registered
    <3>3. CASE m.wave \notin DOMAIN F.status
      <4>1. w \in DOMAIN D.status /\ D.status[w] = F.status[w]
        BY <1>1, <3>1, <3>3, RegisteredIs
      <4> QED
        BY <3>1, <4>1 DEF KnownStep
    <3> QED
      BY <3>2, <3>3
  <2>2. w # Unnamed /\ N.status[w][s] = Q.status[w][s]
    BY <1>6, <2>1
  <2> HIDE DEF D, F, N
  <2>3. Reports!Folded(D, mails).status[w][s] = Reports!Folded(F, mails).status[w][s]
    BY <1>7, <2>1, <2>2, ReportsAreLocal
  <2> QED
    BY <1>3, <2>2, <2>3
<1>8. ASSUME NEW w, NEW s, KnownStep(D, w, s), \A i \in DOMAIN mails : ~ReportOf(mails[i], w, s)
      PROVE  N.status[w][s] # "completed"
  <2>1. w # Unnamed /\ N.status[w][s] = Q.status[w][s]
    BY <1>6, <1>8
  <2>2. D.status[w][s] # "completed"
    <3> HIDE DEF D
    <3>1. D.status[w][s] \in {"pending"}
      BY <1>4, <1>8 DEF Statuses, KnownStep
    <3> QED
      BY <3>1
  <2> HIDE DEF D, N
  <2>3. Reports!Folded(D, mails).status[w][s] # "completed"
    BY <1>8, <2>1, <2>2, OpenWithoutReport
  <2> QED
    BY <2>1, <2>3
<1> QED
  BY <1>1, <1>7, <1>8

LEMMA EventAppended ==
  ASSUME NEW events \in Seq(WvEv), NEW e \in WvEv
  PROVE  /\ Append(events, e) \in Seq(WvEv)
         /\ ProjectWaveStepProgress(Append(events, e)) = ApplyWaveStepEvent(ProjectWaveStepProgress(events), e)
         /\ StaysDone(ProjectWaveStepProgress(events), ProjectWaveStepProgress(Append(events, e)))
<1>1. ProjectWaveStepProgress(Append(events, e)) = ApplyWaveStepEvent(ProjectWaveStepProgress(events), e)
  BY ProgressIsFold, Waves1!FoldAppend
<1> QED
  BY <1>1, EventStays, Appended

\* A specification that is recorded when its d-mail arrives.
LEMMA SpecKeeps ==
  ASSUME NEW events, NEW mails, NEW misled, History(events, mails, misled),
         NEW wave \in WvWave, NEW steps \in WvSteps
  PROVE  History(Append(events, [type |-> "spec.registered", wave |-> wave, steps |-> steps]),
                 Append(mails, Mail("specification", wave, Unnamed, steps, Unnamed)), misled)
<1> DEFINE e == [type |-> "spec.registered", wave |-> wave, steps |-> steps]
           m == Mail("specification", wave, Unnamed, steps, Unnamed)
           E == ProjectWaveStepProgress(events)
           F == Specified(mails)
           M == ProjectWaveState(mails)
           C == ProjectWaveStepProgress(Append(events, e))
           D == Specified(Append(mails, m))
           N == ProjectWaveState(Append(mails, m))
<1>1. events \in Seq(WvEv) /\ mails \in Seq(WvMail) /\ Matched(E, F, M, misled) /\ Told(mails, E, misled)
  BY DEF History
<1>2. e \in WvEv /\ e.type = "spec.registered" /\ e.wave = wave /\ e.steps = steps
  BY DEF WvEv
<1>3. m \in WvMail /\ m.kind = "specification" /\ m.wave = wave /\ m.steps = steps
  <2>1. m \in WvMail
    BY MailTyped, MailFields, Zenon
  <2> QED
    BY <2>1 DEF Mail
<1> HIDE DEF e, m
<1>4. Append(events, e) \in Seq(WvEv) /\ C = ApplyWaveStepEvent(E, e) /\ StaysDone(E, C)
  BY <1>1, <1>2, EventAppended
<1>5. C = Registered(E, wave, steps)
  BY <1>2, <1>4 DEF ApplyWaveStepEvent
<1>6. /\ D = Registered(F, wave, steps)
      /\ \A w, s : KnownStep(F, w, s) => N.status[w][s] = M.status[w][s]
      /\ \A w, s : /\ KnownStep(D, w, s)
                   /\ \A i \in DOMAIN mails : ~ReportOf(mails[i], w, s)
                   => N.status[w][s] # "completed"
  BY <1>1, <1>3, SpecAppended
<1>7. Append(mails, m) \in Seq(WvMail)
  BY <1>1, <1>3, Appended
<1>8. Told(Append(mails, m), C, misled)
  <2>1. \A w, s : KnownStep(E, w, s) => KnownStep(C, w, s)
    BY <1>4, KnownStays
  <2>2. m.kind # "report"
    BY <1>3
  <2> HIDE DEF E, C
  <2> QED
    BY <1>1, <1>3, <2>1, <2>2, ToldGrows
<1> HIDE DEF E, F, M, C, D, N
<1>9. \A w, s : KnownStep(E, w, s) /\ KnownStep(D, w, s) => KnownStep(F, w, s)
  <2>1. CASE wave \in DOMAIN F.status
    BY <1>6, <2>1 DEF Registered
  <2>2. CASE wave \notin DOMAIN F.status
    <3>1. wave \notin DOMAIN E.status
      BY <1>1, <2>2 DEF Matched
    <3>2. \A w \in DOMAIN F.status : D.status[w] = F.status[w]
      BY <1>6, <2>2, RegisteredIs
    <3>3. DOMAIN D.status = DOMAIN F.status \union {wave}
      BY <1>6, <2>2, RegisteredIs
    <3> QED
      BY <3>1, <3>2, <3>3 DEF KnownStep
  <2> QED
    BY <2>1, <2>2
<1>10. ASSUME NEW w, NEW s, KnownStep(C, w, s), KnownStep(D, w, s), <<w, s>> \notin misled
       PROVE  C.status[w][s] = "completed" <=> N.status[w][s] = "completed"
  <2>1. CASE KnownStep(E, w, s)
    <3>1. KnownStep(F, w, s)
      BY <1>9, <1>10, <2>1
    <3>2. N.status[w][s] = M.status[w][s]
      BY <1>6, <3>1
    <3>3. C.status[w][s] = E.status[w][s]
      <4>1. CASE wave \in DOMAIN E.status
        BY <1>5, <4>1 DEF Registered
      <4>2. CASE wave \notin DOMAIN E.status
        BY <1>5, <2>1, <4>2, RegisteredIs DEF KnownStep
      <4> QED
        BY <4>1, <4>2
    <3> QED
      BY <1>1, <1>10, <2>1, <3>1, <3>2, <3>3 DEF Matched
  <2>2. CASE ~KnownStep(E, w, s)
    <3>1. C.status[w][s] = "pending"
      <4>1. wave \notin DOMAIN E.status
        BY <1>5, <1>10, <2>2 DEF Registered
      <4>2. /\ DOMAIN C.status = DOMAIN E.status \union {wave}
            /\ \A v \in DOMAIN E.status : C.status[v] = E.status[v]
            /\ DOMAIN C.status[wave] = ToSet(StepsOf(wave, steps))
            /\ \A t \in ToSet(StepsOf(wave, steps)) : C.status[wave][t] = "pending"
        BY <1>5, <4>1, RegisteredIs
      <4>3. w = wave /\ s \in ToSet(StepsOf(wave, steps))
        BY <1>10, <2>2, <4>2 DEF KnownStep
      <4> QED
        BY <4>2, <4>3
    <3>2. \A i \in DOMAIN mails : ~ReportOf(mails[i], w, s)
      BY <1>1, <1>10, <2>2 DEF Told, ReportOf
    <3>3. N.status[w][s] # "completed"
      BY <1>6, <1>10, <3>2
    <3> QED
      BY <3>1, <3>3
  <2> QED
    BY <2>1, <2>2
<1>11. DOMAIN C.status \subseteq DOMAIN D.status
  <2>1. ASSUME NEW p PROVE DOMAIN Registered(p, wave, steps).status = DOMAIN p.status \union {wave}
    <3>1. CASE wave \in DOMAIN p.status
      BY <3>1 DEF Registered
    <3>2. CASE wave \notin DOMAIN p.status
      BY <3>2, RegisteredIs
    <3> QED
      BY <3>1, <3>2
  <2> QED
    BY <1>1, <1>5, <1>6, <2>1 DEF Matched
<1>12. Matched(C, D, N, misled)
  BY <1>10, <1>11 DEF Matched
<1>13. History(Append(events, e), Append(mails, m), misled)
  BY <1>4, <1>7, <1>8, <1>12 DEF History, C, D, N
<1> QED
  BY <1>13 DEF e, m

\* One that waits to be recorded, while no event is.
LEMMA WaitingKeeps ==
  ASSUME NEW mails, NEW misled, History(<< >>, mails, misled),
         NEW wave \in WvWave, NEW steps \in WvSteps
  PROVE  History(<< >>, Append(mails, Mail("specification", wave, Unnamed, steps, Unnamed)), misled)
<1> DEFINE m == Mail("specification", wave, Unnamed, steps, Unnamed)
           E == ProjectWaveStepProgress(<< >>)
<1>1. << >> \in Seq(WvEv) /\ mails \in Seq(WvMail) /\ Told(mails, E, misled)
  BY DEF History
<1>2. DOMAIN E.status = {}
  <2>1. E = NoProgress
    BY ProgressIsFold, Waves1!FoldEmpty
  <2> QED
    BY <2>1 DEF NoProgress
<1>3. m \in WvMail /\ m.kind = "specification"
  <2>1. m \in WvMail
    BY MailTyped, MailFields, Zenon
  <2> QED
    BY <2>1 DEF Mail
<1> HIDE DEF m, E
<1>4. Told(Append(mails, m), E, misled)
  BY <1>1, <1>3, ToldGrows
<1>5. Matched(E, Specified(Append(mails, m)), ProjectWaveState(Append(mails, m)), misled)
  BY <1>2 DEF Matched, KnownStep
<1>6. Append(mails, m) \in Seq(WvMail)
  BY <1>1, <1>3, Appended
<1>7. History(<< >>, Append(mails, m), misled)
  BY <1>1, <1>4, <1>5, <1>6 DEF History, E
<1> QED
  BY <1>7 DEF m

\* Feedback makes no step completed, and no completed step open.
LEMMA FeedbackKeeps ==
  ASSUME NEW events, NEW mails, NEW misled, History(events, mails, misled),
         NEW m \in WvMail, m.kind = "feedback"
  PROVE  History(events, Append(mails, m), misled)
<1> DEFINE E == ProjectWaveStepProgress(events)
           F == Specified(mails)
           M == ProjectWaveState(mails)
           D == Specified(Append(mails, m))
           N == ProjectWaveState(Append(mails, m))
<1>1. events \in Seq(WvEv) /\ mails \in Seq(WvMail) /\ Matched(E, F, M, misled) /\ Told(mails, E, misled)
  BY DEF History
<1>2. D = F /\ N = SecondPass(M, m)
  BY <1>1, ReportAppended
<1>3. SameSteps(F, M) /\ PlanOK(F)
  BY <1>1, ProjectedSteps
<1> HIDE DEF E, F, M, D, N
<1>4. Told(Append(mails, m), E, misled)
  BY <1>1, ToldGrows
<1>5. ASSUME NEW w, NEW s, KnownStep(F, w, s)
      PROVE  N.status[w][s] = "completed" <=> M.status[w][s] = "completed"
  <2>1. w # Unnamed /\ KnownStep(M, w, s)
    BY <1>3, <1>5, KnownNamed, SameStepsKnow
  <2>2. N.status[w][s] = StatusAfter(M.status[w][s], m, w, s)
    BY <1>2, <2>1, SecondPassIs
  <2> QED
    BY <2>2 DEF StatusAfter
<1>6. Matched(E, D, N, misled)
  BY <1>1, <1>2, <1>5 DEF Matched
<1>7. Append(mails, m) \in Seq(WvMail)
  BY <1>1, Appended
<1> QED
  BY <1>1, <1>4, <1>6, <1>7 DEF History, E, D, N

\* No report is without a severity.
LEMMA ReportsAreRated == \A level : ReportSeverity(level) # Unnamed
<1>1. \A level : ReportSeverity(level) \in {"high", "medium", "low"}
  BY DEF ReportSeverity
<1>2. "high" # Unnamed /\ "medium" # Unnamed /\ "low" # Unnamed
  BY Zenon DEF Unnamed
<1> QED
  BY <1>1, <1>2, Zenon

\* What an expedition leaves behind when it ends.
Misleads(E, wave, id, status, severity) ==
  LET done == status \in {"success", "skipped"} IN
    \/ done # (severity = "low")
    \/ ~KnownStep(E, wave, id)
    \/ (~done /\ E.status[wave][id] = "completed")

LEMMA ExpeditionKeeps ==
  ASSUME NEW events, NEW mails, NEW misled, History(events, mails, misled),
         NEW wave \in WvWave, NEW step \in WvStepName, NEW status \in WvStatus, NEW severity \in Severity,
         severity # Unnamed, NEW more, misled \subseteq more,
         Misleads(ProjectWaveStepProgress(events), wave, StepOf(wave, step), status, severity) =>
           <<wave, StepOf(wave, step)>> \in more
  PROVE  History(Append(events, [type |-> "expedition.completed", wave |-> wave, step |-> step, status |-> status]),
                 Append(mails, Mail("report", wave, step, << >>, severity)), more)
<1> DEFINE e == [type |-> "expedition.completed", wave |-> wave, step |-> step, status |-> status]
           m == Mail("report", wave, step, << >>, severity)
           id == StepOf(wave, step)
           done == status \in {"success", "skipped"}
           E == ProjectWaveStepProgress(events)
           F == Specified(mails)
           M == ProjectWaveState(mails)
           C == ProjectWaveStepProgress(Append(events, e))
           D == Specified(Append(mails, m))
           N == ProjectWaveState(Append(mails, m))
<1>1. events \in Seq(WvEv) /\ mails \in Seq(WvMail) /\ Matched(E, F, M, misled) /\ Told(mails, E, misled)
  BY DEF History
<1>2. e \in WvEv /\ e.type = "expedition.completed" /\ e.wave = wave /\ e.step = step /\ e.status = status
  BY DEF WvEv
<1>3. m \in WvMail /\ m.kind = "report" /\ m.wave = wave /\ m.step = step /\ m.severity = severity
  <2>1. m \in WvMail
    BY MailTyped, MailFields, Zenon
  <2> QED
    BY <2>1 DEF Mail
<1>4. Misleads(E, wave, id, status, severity) => <<wave, id>> \in more
  OBVIOUS
<1> HIDE DEF e, m
<1>5. Append(events, e) \in Seq(WvEv) /\ C = ApplyWaveStepEvent(E, e) /\ StaysDone(E, C)
  BY <1>1, <1>2, EventAppended
<1>6. C = IF KnownStep(E, wave, id) /\ done THEN WithStatus(E, wave, id, "completed") ELSE E
  BY <1>2, <1>5 DEF ApplyWaveStepEvent
<1>7. D = F /\ N = SecondPass(M, m)
  BY <1>1, <1>3, ReportAppended
<1>8. SameSteps(F, M) /\ PlanOK(F)
  BY <1>1, ProjectedSteps
<1>9. Append(mails, m) \in Seq(WvMail)
  BY <1>1, <1>3, Appended
<1> HIDE DEF E, F, M, C, D, N, id
<1>10. KnownStep(E, wave, id) \/ <<wave, id>> \in more
  BY <1>4 DEF Misleads
<1>11. Told(Append(mails, m), C, more)
  <2>1. \A w, s : KnownStep(E, w, s) => KnownStep(C, w, s)
    BY <1>5, KnownStays
  <2>2. <<m.wave, StepOf(m.wave, m.step)>> \in more \/ KnownStep(C, m.wave, StepOf(m.wave, m.step))
    BY <1>3, <1>10, <2>1 DEF id
  <2> QED
    BY <1>1, <1>3, <2>1, <2>2, ToldGrows
<1>12. SameSteps(E, C)
  <2>1. CASE KnownStep(E, wave, id) /\ done
    BY <1>6, <2>1, WithStatusIs
  <2>2. CASE ~(KnownStep(E, wave, id) /\ done)
    <3>1. C = E
      BY <1>6, <2>2
    <3> QED
      BY <3>1 DEF SameSteps
  <2> QED
    BY <2>1, <2>2
<1>13. ASSUME NEW w, NEW s, KnownStep(C, w, s), KnownStep(D, w, s), <<w, s>> \notin more
       PROVE  C.status[w][s] = "completed" <=> N.status[w][s] = "completed"
  <2>1. KnownStep(E, w, s) /\ KnownStep(F, w, s) /\ KnownStep(M, w, s) /\ w # Unnamed
    BY <1>7, <1>8, <1>12, <1>13, SameStepsKnow, KnownNamed
  <2>2. E.status[w][s] = "completed" <=> M.status[w][s] = "completed"
    BY <1>1, <1>13, <2>1 DEF Matched
  <2>3. N.status[w][s] = StatusAfter(M.status[w][s], m, w, s)
    BY <1>7, <2>1, SecondPassIs
  <2>4. CASE w # wave \/ s # id
    <3>1. N.status[w][s] = M.status[w][s]
      BY <1>3, <2>3, <2>4 DEF StatusAfter, id
    <3>2. C.status[w][s] = E.status[w][s]
      <4>1. CASE KnownStep(E, wave, id) /\ done
        <5>1. w \in DOMAIN E.status /\ s \in DOMAIN E.status[w]
          BY <2>1 DEF KnownStep
        <5> QED
          BY <1>6, <2>4, <4>1, <5>1, WithStatusIs
      <4>2. CASE ~(KnownStep(E, wave, id) /\ done)
        BY <1>6, <4>2
      <4> QED
        BY <4>1, <4>2
    <3> QED
      BY <2>2, <3>1, <3>2
  <2>5. CASE w = wave /\ s = id
    <3>1. ~Misleads(E, wave, id, status, severity)
      BY <1>4, <1>13, <2>5
    <3>2. (done <=> severity = "low") /\ ~(~done /\ E.status[w][s] = "completed")
      BY <2>5, <3>1 DEF Misleads
    <3>3. N.status[w][s] = IF severity \in {Unnamed, "low"} THEN "completed" ELSE "failed"
      BY <1>3, <2>3, <2>5, Zenon DEF StatusAfter, id
    <3>4. CASE done
      <4>1. C = WithStatus(E, wave, id, "completed")
        BY <1>6, <2>1, <2>5, <3>4
      <4>2. C.status[w][s] = "completed"
        BY <2>1, <2>5, <4>1, WithStatusIs
      <4>3. N.status[w][s] = "completed"
        BY <3>2, <3>3, <3>4
      <4> QED
        BY <4>2, <4>3
    <3>5. CASE ~done
      <4>1. C = E
        BY <1>6, <3>5
      <4>2. N.status[w][s] = "failed"
        BY <3>2, <3>3, <3>5
      <4> QED
        BY <3>2, <3>5, <4>1, <4>2
    <3> QED
      BY <3>4, <3>5
  <2> QED
    BY <2>4, <2>5
<1>14. DOMAIN C.status \subseteq DOMAIN D.status
  BY <1>1, <1>7, <1>12 DEF Matched, SameSteps
<1>15. Matched(C, D, N, more)
  BY <1>13, <1>14 DEF Matched
<1>16. History(Append(events, e), Append(mails, m), more)
  BY <1>5, <1>9, <1>11, <1>15 DEF History, C, D, N
<1> QED
  BY <1>16 DEF e, m

LEMMA NoHistory == History(<< >>, << >>, {})
<1>1. << >> \in Seq(WvEv) /\ << >> \in Seq(WvMail) /\ DOMAIN << >> = {}
  BY Nothing
<1>2. ProjectWaveStepProgress(<< >>) = NoProgress /\ DOMAIN NoProgress.status = {}
  <2>1. ProjectWaveStepProgress(<< >>) = NoProgress
    BY ProgressIsFold, Waves1!FoldEmpty
  <2> QED
    BY <2>1 DEF NoProgress
<1>3. Told(<< >>, ProjectWaveStepProgress(<< >>), {})
  BY <1>1 DEF Told
<1>4. Matched(ProjectWaveStepProgress(<< >>), Specified(<< >>), ProjectWaveState(<< >>), {})
  BY <1>2 DEF Matched, KnownStep
<1> QED
  BY <1>1, <1>3, <1>4 DEF History

LEMMA HistoryStep ==
  ASSUME History(wvEvents, wvMails, wvMisled), [WvNext]_wvVars
  PROVE  History(wvEvents', wvMails', wvMisled')
<1>1. CASE SpecArrives
  <2>1. PICK wave \in WvWave, steps \in WvSteps :
          /\ wvMails' = Append(wvMails, Mail("specification", wave, Unnamed, steps, Unnamed))
          /\ wvEvents' = Append(wvEvents, [type |-> "spec.registered", wave |-> wave, steps |-> steps])
    BY <1>1, Zenon DEF SpecArrives
  <2>2. wvMisled' = wvMisled
    BY <1>1, Zenon DEF SpecArrives
  <2> QED
    BY <2>1, <2>2, SpecKeeps
<1>2. CASE SpecWaits
  <2>1. PICK wave \in WvWave, steps \in WvSteps :
          wvMails' = Append(wvMails, Mail("specification", wave, Unnamed, steps, Unnamed))
    BY <1>2, Zenon DEF SpecWaits
  <2>2. wvEvents = << >> /\ wvEvents' = wvEvents /\ wvMisled' = wvMisled
    BY <1>2, Zenon DEF SpecWaits
  <2> QED
    BY <2>1, <2>2, WaitingKeeps
<1>3. CASE ExpeditionEnds
  <2>1. PICK wave \in WvWave, step \in WvStepName, status \in WvStatus, level \in WvGauge :
          /\ wvEvents' = Append(wvEvents, [type |-> "expedition.completed", wave |-> wave,
                                           step |-> step, status |-> status])
          /\ wvMails' = Append(wvMails, Mail("report", wave, step, << >>, ReportSeverity(level)))
          /\ wvMisled' =
               IF Misleads(ProjectWaveStepProgress(wvEvents), wave, StepOf(wave, step), status,
                           ReportSeverity(level))
                 THEN wvMisled \cup {<<wave, StepOf(wave, step)>>} ELSE wvMisled
    BY <1>3, Zenon DEF ExpeditionEnds, Misleads
  <2>2. ReportSeverity(level) \in Severity /\ ReportSeverity(level) # Unnamed
    BY MailFields, ReportsAreRated, Zenon
  <2>3. /\ wvMisled \subseteq wvMisled'
        /\ Misleads(ProjectWaveStepProgress(wvEvents), wave, StepOf(wave, step), status, ReportSeverity(level)) =>
             <<wave, StepOf(wave, step)>> \in wvMisled'
    BY <2>1
  <2> QED
    BY <2>1, <2>2, <2>3, ExpeditionKeeps
<1>4. CASE FeedbackArrives
  <2>1. PICK wave \in WaveName, step \in WvStepName :
          wvMails' = Append(wvMails, Mail("feedback", wave, step, << >>, Unnamed))
    BY <1>4, Zenon DEF FeedbackArrives, WaveName
  <2>2. wvEvents' = wvEvents /\ wvMisled' = wvMisled
    BY <1>4, Zenon DEF FeedbackArrives
  <2> DEFINE m == Mail("feedback", wave, step, << >>, Unnamed)
  <2>3. m \in WvMail
    BY MailTyped, MailFields, Zenon
  <2>4. m.kind = "feedback"
    BY DEF Mail
  <2> HIDE DEF m
  <2>5. wvMails' = Append(wvMails, m)
    BY <2>1 DEF m
  <2> QED
    BY <2>2, <2>3, <2>4, <2>5, FeedbackKeeps
<1>5. CASE InboxSpoilt \/ UNCHANGED wvVars
  <2>1. wvEvents' = wvEvents /\ wvMails' = wvMails /\ wvMisled' = wvMisled
    BY <1>5, Zenon DEF InboxSpoilt, wvVars
  <2> QED
    BY <2>1
<1> QED
  BY <1>1, <1>2, <1>3, <1>4, <1>5 DEF WvNext

LEMMA HistoryAgrees ==
  ASSUME History(wvEvents, wvMails, wvMisled)
  PROVE  ProjectionsAgree
<1> DEFINE E == ProjectWaveStepProgress(wvEvents)
           F == Specified(wvMails)
           M == ProjectWaveState(wvMails)
<1>1. /\ wvEvents \in Seq(WvEv) /\ wvMails \in Seq(WvMail) /\ Matched(E, F, M, wvMisled)
  BY DEF History
<1>2. PlanOK(E) /\ PlanOK(M) /\ SameSteps(F, M)
  BY <1>1, EventsOK, ProjectedSteps
<1> HIDE DEF E, F, M
<1>3. DOMAIN M.status = DOMAIN F.status /\ \A w, s : KnownStep(M, w, s) => KnownStep(F, w, s)
  BY <1>2, SameStepsKnow DEF SameSteps
<1>4. ASSUME NEW w \in DOMAIN E.status
      PROVE  /\ w \in DOMAIN M.status
             /\ DOMAIN M.status[w] = DOMAIN E.status[w] =>
                  \A s \in DOMAIN E.status[w] :
                    <<w, s>> \notin wvMisled => (<<w, s>> \in Open(E) <=> <<w, s>> \in Open(M))
  <2>1. w \in DOMAIN M.status
    BY <1>1, <1>3 DEF Matched
  <2>2. ASSUME DOMAIN M.status[w] = DOMAIN E.status[w], NEW s \in DOMAIN E.status[w],
               <<w, s>> \notin wvMisled
        PROVE  <<w, s>> \in Open(E) <=> <<w, s>> \in Open(M)
    <3>1. KnownStep(E, w, s) /\ KnownStep(M, w, s) /\ KnownStep(F, w, s)
      BY <1>3, <2>1, <2>2 DEF KnownStep
    <3>2. E.status[w][s] = "completed" <=> M.status[w][s] = "completed"
      BY <1>1, <2>2, <3>1 DEF Matched
    <3>3. <<w, s>> \in Open(E) <=> E.status[w][s] # "completed"
      BY <1>2, <3>1, OpenIs
    <3>4. <<w, s>> \in Open(M) <=> M.status[w][s] # "completed"
      BY <1>2, <3>1, OpenIs
    <3> QED
      BY <3>2, <3>3, <3>4
  <2> QED
    BY <2>1, <2>2
<1> QED
  BY <1>4 DEF ProjectionsAgree, E, M

LEMMA HistoryOffers ==
  ASSUME wvEvents \in Seq(WvEv)
  PROVE  OpenStepsOffered
<1> DEFINE E == ProjectWaveStepProgress(wvEvents)
           Pending == UNION {{<<w, s>> : s \in {t \in DOMAIN E.status[w] : E.status[w][t] = "pending"}} :
                               w \in DOMAIN E.status}
<1>1. PlanOK(E) /\ Statuses(E, {"pending", "completed"})
  BY EventsOK
<1>2. ASSUME DOMAIN E.status # {} PROVE FetchTargets.error = FALSE /\ FetchTargets.steps = Targets(E)
  <2>1. FetchTargets = [error |-> FALSE, first |-> IF wvReadable THEN Standalone(wvMails) ELSE << >>,
                        steps |-> Targets(E)]
    <3> DEFINE T == Targets(E)
               L == IF wvReadable THEN Standalone(wvMails) ELSE << >>
    <3> QED
      BY <1>2 DEF FetchTargets
  <2> QED
    BY <2>1
<1> HIDE DEF E
<1>3. ToSet(Targets(E)) = Open(E)
  BY DEF Open
<1>4. (\A t \in WvSteps : IsInjective(t)) => IsInjective(Targets(E))
  BY <1>1, OpenIs DEF PlanOK
<1>5. Open(E) \subseteq Pending
  <2>1. SUFFICES ASSUME NEW x \in Open(E) PROVE x \in Pending
    OBVIOUS
  <2>2. PICK w, s : x = <<w, s>>
    <3>1. x \in Target
      BY <1>1, OpenIs
    <3> QED
      BY <3>1 DEF Target
  <2>3. KnownStep(E, w, s) /\ E.status[w][s] # "completed"
    BY <1>1, <2>1, <2>2, OpenIs
  <2>4. w \in DOMAIN E.status /\ s \in DOMAIN E.status[w] /\ E.status[w][s] = "pending"
    BY <1>1, <2>3 DEF KnownStep, Statuses
  <2> QED
    BY <2>2, <2>4
<1>6. Pending \subseteq Open(E)
  <2>1. SUFFICES ASSUME NEW w \in DOMAIN E.status, NEW s \in DOMAIN E.status[w], E.status[w][s] = "pending"
                 PROVE  <<w, s>> \in Open(E)
    OBVIOUS
  <2>2. KnownStep(E, w, s) /\ E.status[w][s] # "completed"
    BY <2>1 DEF KnownStep
  <2> QED
    BY <1>1, <2>2, OpenIs
<1>7. ToSet(Targets(E)) = Pending
  BY <1>3, <1>5, <1>6
<1> QED
  BY <1>2, <1>4, <1>7 DEF OpenStepsOffered, E

\* Whatever waves, specifications, outcomes and d-mails there are, the event log
\* and the d-mails agree on every step that no report misled about, and exactly
\* the open steps of the registered waves are offered
\* (wave_projection.go, expedition_target.go).
THEOREM WavesAreSound == WvSpec => []WavesSound
<1>1. WvInit => History(wvEvents, wvMails, wvMisled)
  <2>1. WvInit => wvEvents = << >> /\ wvMails = << >> /\ wvMisled = {}
    BY Zenon DEF WvInit
  <2> QED
    BY <2>1, NoHistory
<1>2. History(wvEvents, wvMails, wvMisled) /\ [WvNext]_wvVars => History(wvEvents, wvMails, wvMisled)'
  BY HistoryStep
<1>3. History(wvEvents, wvMails, wvMisled) => WavesSound
  <2>1. History(wvEvents, wvMails, wvMisled) => wvEvents \in Seq(WvEv)
    BY DEF History
  <2> QED
    BY <2>1, HistoryAgrees, HistoryOffers DEF WavesSound
<1> QED
  BY <1>1, <1>2, <1>3, PTL DEF WvSpec
=============================================================================
