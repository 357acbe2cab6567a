----------------------------- MODULE LibraryProofs -----------------------------
(***************************************************************************)
(* Every behaviour of the library is one of each of its parts, so that     *)
(* what is proved of a part holds of the library.                          *)
(***************************************************************************)
EXTENDS Library, StreamsProofs, TextsProofs, PromptsProofs

(***************************************************************************)
(* The library.  Each component's part of a behaviour of the library is a  *)
(* behaviour of the component: the others' steps leave it alone.           *)
(***************************************************************************)

\* The steps of the library are steps of the part that runs.
LEMMA OneRuns ==
  ASSUME [LibNext]_libVars
  PROVE  /\ [LockNext]_lockVars /\ [PoolNext]_poolVars /\ [CbNext]_cbVars
         /\ [RpNext]_rpVars /\ [InNext]_inVars /\ [WvNext]_wvVars
         /\ [BusNext]_busVars /\ [StreamNext]_streamVars /\ [DevNext]_devVars
         /\ [CsNext]_csVars /\ [RcNext]_rcVars /\ [StNext]_stVars
         /\ [RvNext]_rvVars /\ [TrNext]_trVars /\ [InsNext]_insVars
         /\ [CoNext]_coVars /\ [DrNext]_drVars /\ [SuNext]_suVars
         /\ [CtNext]_ctVars /\ [ApNext]_apVars /\ [PrNext]_prVars
<1>1. CASE UNCHANGED libVars
  BY <1>1 DEF libVars, parts
<1>2. CASE LibNext
  <2>1. OthersStay
    BY <1>2 DEF LibNext
  <2>2. /\ part = "lock" => LockNext
        /\ part = "pool" => PoolNext
        /\ part = "breaker" => CbNext
        /\ part = "reserve" => RpNext
        /\ part = "inbox" => InNext
        /\ part = "waves" => WvNext
        /\ part = "bus" => BusNext
        /\ part = "stream" => StreamNext
        /\ part = "server" => DevNext
        /\ part = "sessions" => CsNext
        /\ part = "recovery" => RcNext
        /\ part = "statistics" => StNext
        /\ part = "review" => RvNext
        /\ part = "triage" => TrNext
        /\ part = "insights" => InsNext
        /\ part = "corrections" => CoNext
        /\ part = "doctor" => DrNext
        /\ part = "setup" => SuNext
        /\ part = "contract" => CtNext
        /\ part = "approval" => ApNext
        /\ part = "prompts" => PrNext
    BY <1>2 DEF LibNext, Runs
  <2>3. /\ part # "lock" => UNCHANGED lockVars
        /\ part # "pool" => UNCHANGED poolVars
        /\ part # "breaker" => UNCHANGED cbVars
        /\ part # "reserve" => UNCHANGED rpVars
        /\ part # "inbox" => UNCHANGED inVars
        /\ part # "waves" => UNCHANGED wvVars
        /\ part # "bus" => UNCHANGED busVars
        /\ part # "stream" => UNCHANGED streamVars
        /\ part # "server" => UNCHANGED devVars
        /\ part # "sessions" => UNCHANGED csVars
        /\ part # "recovery" => UNCHANGED rcVars
        /\ part # "statistics" => UNCHANGED stVars
        /\ part # "review" => UNCHANGED rvVars
        /\ part # "triage" => UNCHANGED trVars
        /\ part # "insights" => UNCHANGED insVars
        /\ part # "corrections" => UNCHANGED coVars
        /\ part # "doctor" => UNCHANGED drVars
        /\ part # "setup" => UNCHANGED suVars
        /\ part # "contract" => UNCHANGED ctVars
        /\ part # "approval" => UNCHANGED apVars
        /\ part # "prompts" => UNCHANGED prVars
    BY <2>1 DEF OthersStay
  <2> QED
    BY <2>2, <2>3
<1> QED
  BY <1>1, <1>2

\* The library implements each of its parts, but for the fairness of the circuit
\* breaker (Library's composition of the components).
THEOREM LibraryRunsParts ==
  LibSpec =>
    /\ LockSpec /\ PoolSpec /\ CbInit /\ [][CbNext]_cbVars
    /\ RpSpec /\ InSpec /\ WvSpec
    /\ BusSpec /\ StreamSpec /\ DevSpec
    /\ CsSpec /\ RcSpec /\ StSpec
    /\ RvSpec /\ TrSpec /\ InsSpec
    /\ CoSpec /\ DrSpec /\ SuSpec
    /\ CtSpec /\ ApSpec /\ PrSpec
<1>1. LibInit => /\ LockInit /\ PoolInit /\ CbInit
                 /\ RpInit /\ InInit /\ WvInit
                 /\ BusInit /\ StreamInit /\ DevInit
                 /\ CsInit /\ RcInit /\ StInit
                 /\ RvInit /\ TrInit /\ InsInit
                 /\ CoInit /\ DrInit /\ SuInit
                 /\ CtInit /\ ApInit /\ PrInit
  BY DEF LibInit
<1> QED
  BY <1>1, OneRuns, PTL
     DEF LibSpec, LockSpec, PoolSpec, RpSpec, InSpec, WvSpec, BusSpec, StreamSpec, DevSpec,
         CsSpec, RcSpec, StSpec, RvSpec, TrSpec, InsSpec, CoSpec, DrSpec, SuSpec, CtSpec,
         ApSpec, PrSpec

\* In the library, too, a lease that was granted excludes others.
THEOREM LibraryLock == LibSpec => []OneRunPerKey
  BY LibraryRunsParts, RunLockExclusion, PTL

\* In the library, too, workers share the pool soundly.
THEOREM LibraryPool == LibSpec => []PoolSound
  BY LibraryRunsParts, PoolIsSound, PTL

\* In the library, too, sleepers and the pause are kept.
THEOREM LibraryBreaker == LibSpec => []BreakerSound
  BY LibraryRunsParts, CbInitially, CbStepKeeps, CbInvImplies, PTL

\* In the library, too, what passes through a process arrives, and what is shared
\* has one owner.
THEOREM LibraryStreams == LibSpec => []StreamsSound
<1>1. /\ InTypeOK /\ InboxSound /\ BusTypeOK /\ BusSound /\ StreamTypeOK /\ StreamSound
      /\ DevTypeOK /\ DevSound /\ CsTypeOK /\ CodingSessionsSound /\ FlagSound /\ AnswersSound
      /\ ClaimsSound
      => StreamsSound
  BY DEF StreamsSound
<1> QED
  BY <1>1, LibraryRunsParts, InboxIsSound, BusIsSound, StreamIsSound, DevServerIsSound,
     SessionsAreSound, FlagIsSound, AnswersAreSound, ClaimsAreSound, PTL

\* In the library, too, what is read from a log or a file agrees with it.
THEOREM LibraryRecords == LibSpec => []RecordsSound
<1>1. /\ RcTypeOK /\ RecoverySound /\ RvTypeOK /\ ReviewSound
      /\ TrTypeOK /\ GaugeFromLog /\ InsTypeOK /\ LedgerSound /\ LuminasSound
      /\ SetupSound /\ RetriesCapped /\ StatisticsSound /\ CorrectionsSound /\ DoctorSound
      => RecordsSound
  BY DEF RecordsSound
<1> QED
  BY <1>1, LibraryRunsParts, RecoveryIsSound, ReviewIsSound, GaugeIsSound, LedgerIsSound, LuminasAreSound,
     SetupIsSound, RetriesAreCapped, StatisticsAreSound, CorrectionsAreSound, DoctorIsSound, PTL

\* In the library, too, the prompts say what they were made from: contracts are
\* shown whole and as they were read, templates expand to their values.
THEOREM LibraryTexts == LibSpec => []TextsSound
<1>1. ContractSound /\ PromptsSound => TextsSound
  BY DEF TextsSound
<1> QED
  BY <1>1, LibraryRunsParts, ContractsAreSound, PromptsAreSound, PTL

\* In the library, too, both projections of the waves agree, and the open steps
\* are offered.
THEOREM LibraryWaves == LibSpec => []WavesSound
  BY LibraryRunsParts, WavesAreSound, PTL

\* Every component's types, in every behaviour of the composition.
THEOREM LibraryTypes == LibSpec => []LibraryTypeOK
<1>1. /\ LockTypeOK /\ PoolTypeOK /\ CbTypeOK /\ RpTypeOK /\ InTypeOK /\ WvTypeOK
      /\ BusTypeOK /\ StreamTypeOK /\ DevTypeOK /\ CsTypeOK /\ RcTypeOK /\ StTypeOK
      /\ RvTypeOK /\ TrTypeOK /\ InsTypeOK /\ CoTypeOK /\ DrTypeOK /\ SuTypeOK
      /\ CtTypeOK /\ ApTypeOK /\ PrTypeOK
      => LibraryTypeOK
  BY DEF LibraryTypeOK
<1>2. CbInv => CbTypeOK
  BY DEF CbInv
<1>3. LibSpec => [](LockTypeOK /\ PoolTypeOK /\ CbTypeOK /\ RpTypeOK /\ InTypeOK /\ WvTypeOK)
  BY <1>2, LibraryRunsParts, RunLockTypeOK, PoolTypes, CbInitially, CbStepKeeps, SwitchesAreSound,
     InboxIsSound, WaveTypes, PTL
<1>4. LibSpec => [](BusTypeOK /\ StreamTypeOK /\ DevTypeOK /\ CsTypeOK /\ RcTypeOK /\ StTypeOK)
  BY LibraryRunsParts, BusIsSound, StreamIsSound, DevServerIsSound, SessionsAreSound,
     RecoveryIsSound, StatisticsTypes, PTL
<1>5. LibSpec => [](RvTypeOK /\ TrTypeOK /\ InsTypeOK /\ CoTypeOK /\ DrTypeOK /\ SuTypeOK)
  BY LibraryRunsParts, ReviewIsSound, GaugeIsSound, LedgerIsSound, CorrectionTypes, DoctorTypes,
     SetupTypes, PTL
<1>6. LibSpec => [](CtTypeOK /\ ApTypeOK /\ PrTypeOK)
  BY LibraryRunsParts, ContractTypes, ApprovalTypes, PromptTypes, PTL
<1> QED
  BY <1>1, <1>3, <1>4, <1>5, <1>6, PTL

\* No step of the library undoes what is not its own: a model is left only for
\* one that is not cooling down, completed wave steps stay completed, and what
\* others wrote in pull requests and settings stays.
THEOREM LibraryObjectSteps == LibSpec => ObjectSteps
  BY LibraryRunsParts, SwitchesAreSound, WavesUndoNothing, OthersAreKept, ServersStay, PTL DEF ObjectSteps
=============================================================================
