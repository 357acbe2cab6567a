------------------------------ MODULE Library ------------------------------
(***************************************************************************)
(* The components of paintress that keep no state in common: each is a     *)
(* library the commands call, with files, channels or goroutines of its    *)
(* own.  Their composition is a disjoint one: in a behaviour one part runs *)
(* and the others stay as they began, so the states are the sum of the     *)
(* parts' and not their product.  Nothing is lost by it, as no action of a *)
(* part reads or writes a variable of another.                             *)
(***************************************************************************)
EXTENDS RunLock, Worktrees, CircuitBreaker, Reserve, Inbox, Waves,
        SessionBus, SessionStream, DevServer, CodingSessions, Recovery,
        Statistics, Review, Triage, Insights, Corrections, Doctor,
        ProjectSetup, RivalContract, Approval, Prompts

VARIABLE part  \* the part that runs

parts == << lockVars, poolVars, cbVars, rpVars, inVars, wvVars, busVars,
            streamVars, devVars, csVars, rcVars, stVars, rvVars, trVars,
            insVars, coVars, drVars, suVars, ctVars, apVars, prVars >>

libVars == << part, parts >>

\* What a part that does not run finds undecided at its start is settled: a
\* second start of it would only double the states of the one that runs.
Settled ==
    /\ part # "server" => ~devExternal
    /\ part # "corrections" => coMeta = CHOOSE m \in CoMeta : TRUE
    /\ part # "setup" => suLegacy = NoServers
    /\ part # "approval" => apApprover = "stdin" /\ apFlag = NoFlag

LibInit ==
    /\ part \in {"lock", "pool", "breaker", "reserve", "inbox", "waves", "bus",
                 "stream", "server", "sessions", "recovery", "statistics", "review", "triage",
                 "insights", "corrections", "doctor", "setup", "contract", "approval", "prompts"}
    /\ LockInit /\ PoolInit /\ CbInit /\ RpInit
    /\ InInit /\ WvInit /\ BusInit /\ StreamInit
    /\ DevInit /\ CsInit /\ RcInit /\ StInit
    /\ RvInit /\ TrInit /\ InsInit /\ CoInit
    /\ DrInit /\ SuInit /\ CtInit /\ ApInit
    /\ PrInit
    /\ Settled

-----------------------------------------------------------------------------
\* The other parts stay as they are.
OthersStay ==
    /\ IF part = "lock"        THEN TRUE ELSE UNCHANGED lockVars
    /\ IF part = "pool"        THEN TRUE ELSE UNCHANGED poolVars
    /\ IF part = "breaker"     THEN TRUE ELSE UNCHANGED cbVars
    /\ IF part = "reserve"     THEN TRUE ELSE UNCHANGED rpVars
    /\ IF part = "inbox"       THEN TRUE ELSE UNCHANGED inVars
    /\ IF part = "waves"       THEN TRUE ELSE UNCHANGED wvVars
    /\ IF part = "bus"         THEN TRUE ELSE UNCHANGED busVars
    /\ IF part = "stream"      THEN TRUE ELSE UNCHANGED streamVars
    /\ IF part = "server"      THEN TRUE ELSE UNCHANGED devVars
    /\ IF part = "sessions"    THEN TRUE ELSE UNCHANGED csVars
    /\ IF part = "recovery"    THEN TRUE ELSE UNCHANGED rcVars
    /\ IF part = "statistics"  THEN TRUE ELSE UNCHANGED stVars
    /\ IF part = "review"      THEN TRUE ELSE UNCHANGED rvVars
    /\ IF part = "triage"      THEN TRUE ELSE UNCHANGED trVars
    /\ IF part = "insights"    THEN TRUE ELSE UNCHANGED insVars
    /\ IF part = "corrections" THEN TRUE ELSE UNCHANGED coVars
    /\ IF part = "doctor"      THEN TRUE ELSE UNCHANGED drVars
    /\ IF part = "setup"       THEN TRUE ELSE UNCHANGED suVars
    /\ IF part = "contract"    THEN TRUE ELSE UNCHANGED ctVars
    /\ IF part = "approval"    THEN TRUE ELSE UNCHANGED apVars
    /\ IF part = "prompts"     THEN TRUE ELSE UNCHANGED prVars

Runs(p) == part = p /\ UNCHANGED part

LibNext ==
    \/ Runs("lock") /\ LockNext /\ OthersStay
    \/ Runs("pool") /\ PoolNext /\ OthersStay
    \/ Runs("breaker") /\ CbNext /\ OthersStay
    \/ Runs("reserve") /\ RpNext /\ OthersStay
    \/ Runs("inbox") /\ InNext /\ OthersStay
    \/ Runs("waves") /\ WvNext /\ OthersStay
    \/ Runs("bus") /\ BusNext /\ OthersStay
    \/ Runs("stream") /\ StreamNext /\ OthersStay
    \/ Runs("server") /\ DevNext /\ OthersStay
    \/ Runs("sessions") /\ CsNext /\ OthersStay
    \/ Runs("recovery") /\ RcNext /\ OthersStay
    \/ Runs("statistics") /\ StNext /\ OthersStay
    \/ Runs("review") /\ RvNext /\ OthersStay
    \/ Runs("triage") /\ TrNext /\ OthersStay
    \/ Runs("insights") /\ InsNext /\ OthersStay
    \/ Runs("corrections") /\ CoNext /\ OthersStay
    \/ Runs("doctor") /\ DrNext /\ OthersStay
    \/ Runs("setup") /\ SuNext /\ OthersStay
    \/ Runs("contract") /\ CtNext /\ OthersStay
    \/ Runs("approval") /\ ApNext /\ OthersStay
    \/ Runs("prompts") /\ PrNext /\ OthersStay

\* The scheduler's and the clock's fairness of the circuit breaker.
LibFairness ==
    /\ WF_libVars(Runs("breaker") /\ CbTick /\ OthersStay)
    /\ \A c \in CbCaller : WF_libVars(Runs("breaker") /\ CbStep(c) /\ OthersStay)

LibSpec == LibInit /\ [][LibNext]_libVars /\ LibFairness

-----------------------------------------------------------------------------
(* Properties.  What is said of a part is checked in the states in which   *)
(* it runs: its first one is among them.                                   *)

\* Every part keeps its types: locks, pools, breakers, models, inboxes, waves
\* and the records, streams and files of the others (RunLock to Prompts).
LibraryTypeOK ==
    /\ part = "lock"        => LockTypeOK
    /\ part = "pool"        => PoolTypeOK
    /\ part = "breaker"     => CbTypeOK
    /\ part = "reserve"     => RpTypeOK
    /\ part = "inbox"       => InTypeOK
    /\ part = "waves"       => WvTypeOK
    /\ part = "bus"         => BusTypeOK
    /\ part = "stream"      => StreamTypeOK
    /\ part = "server"      => DevTypeOK
    /\ part = "sessions"    => CsTypeOK
    /\ part = "recovery"    => RcTypeOK
    /\ part = "statistics"  => StTypeOK
    /\ part = "review"      => RvTypeOK
    /\ part = "triage"      => TrTypeOK
    /\ part = "insights"    => InsTypeOK
    /\ part = "corrections" => CoTypeOK
    /\ part = "doctor"      => DrTypeOK
    /\ part = "setup"       => SuTypeOK
    /\ part = "contract"    => CtTypeOK
    /\ part = "approval"    => ApTypeOK
    /\ part = "prompts"     => PrTypeOK

\* No step of a part that works on files or choices others made too undoes
\* what is not its own: a model is left only for one that is not cooling down
\* (reserve.go), a completed wave step stays completed (wave_projection.go),
\* the pull request and the MCP servers of others keep their text
\* (pr_update.go, claude_wiring.go).
ObjectSteps == SwitchSound /\ NothingUndone /\ OthersKept /\ ServersKept

\* What passes through a process arrives once, whole and in its order: d-mails
\* of the inbox, whether the drain or the watch finds them (monitor_inbox.go),
\* events on the session bus (session_event_bus.go), messages of a provider
\* and the beginning of their lines (stream_normalizer.go), the flag of a
\* session (flag_watcher.go) and the answers of a human (approve.go); what
\* goroutines and processes share has one owner: the dev server unless a probe
\* overlooked one (devserver.go), the rows of coding sessions
\* (coding_session_store.go), the issues of parallel expeditions
\* (issue_claim_registry.go).
StreamsSound ==
    /\ part = "inbox" => InboxSound
    /\ part = "bus" => BusSound
    /\ part = "stream" => StreamSound
    /\ part = "server" => DevSound
    /\ part = "sessions" => CodingSessionsSound
    /\ part = "approval" => FlagSound /\ AnswersSound
    /\ part = "triage" => ClaimsSound

\* What is read from a log or a file that others write too agrees with what was
\* written: the recovery after failures (expedition_aggregate.go), the sections
\* and comments of a pull request (pr_update.go), the gauge and the retries
\* (preflight.go, expedition_reporter.go, retry_tracker.go), the statistics
\* (metrics.go, sprt.go), the luminas (lumina.go) and the ledger of insights,
\* whoever dies while he appends to it (insight_writer.go), the configuration and .gitignore that the
\* user edits too (init.go, project_config.go, claude_wiring.go), a correction
\* that passes tool after tool (improvement.go), and what the doctor says of it
\* all and repairs (doctor.go).
RecordsSound ==
    /\ part = "recovery" => RecoverySound
    /\ part = "review" => ReviewSound
    /\ part = "triage" => GaugeFromLog /\ RetriesCapped
    /\ part = "statistics" => StatisticsSound
    /\ part = "insights" => LedgerSound /\ LuminasSound
    /\ part = "corrections" => CorrectionsSound
    /\ part = "setup" => SetupSound
    /\ part = "doctor" => DoctorSound

\* What the prompts and the mails say holds of what they were made from:
\* rival_contract.go and registry.go.
TextsSound ==
    /\ part = "contract" => ContractSound
    /\ part = "prompts" => PromptsSound
=============================================================================
