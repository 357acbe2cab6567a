-------------------------------- MODULE Waves --------------------------------
(***************************************************************************)
(* Waves: specifications divide work into steps, expeditions complete      *)
(* them.  What is still to be done is projected twice: from the events     *)
(* spec.registered and expedition.completed, and, while no specification   *)
(* is registered, from the d-mails.  Feedback that belongs to no wave      *)
(* comes before the waves.                                                 *)
(***************************************************************************)
EXTENDS Integers, Sequences, SequencesExt

CONSTANTS WvWave,  \* wave IDs
          WvSteps, \* step definitions a specification may carry: sequences of step IDs
          WvStatus, \* outcomes of an expedition: success, skipped, failed, parse_error
          WvBound, \* bound on the events and on the d-mails
          WvGauge  \* levels of the gradient gauge at the time of a report

\* What the code takes for no wave, no step, or no severity.
Unnamed == ""

ASSUME WavesAssumption ==
  /\ WvBound \in Nat /\ WvGauge \subseteq Nat
  /\ Unnamed \notin WvWave
  /\ WvSteps \subseteq Seq(UNION {ToSet(steps) : steps \in WvSteps})

VARIABLES
  wvEvents,   \* the event log
  wvMails,    \* the d-mails, oldest first
  wvReadable, \* the inbox can be read
  wvMisled    \* history: steps <<wave, step>> with a report whose severity belies its status,
              \*   or with a failure after a success

wvVars == <<wvEvents, wvMails, wvReadable, wvMisled>>

\* The steps of a specification; one without steps is a step by itself.
StepsOf(wave, steps) == IF steps = << >> THEN <<wave>> ELSE steps
StepOf(wave, step)   == IF step = Unnamed THEN wave ELSE step

\* The steps <<wave, step>> in the order of the waves and of their steps, and
\* the status of each.
NoProgress == [plan |-> << >>, status |-> [w \in {} |-> << >>]]

\* Adds a wave, unless it is there: the first specification wins.
Registered(p, wave, steps) ==
  LET ids == StepsOf(wave, steps) IN
    IF wave \in DOMAIN p.status THEN p
    ELSE [plan   |-> p.plan \o [j \in 1 .. Len(ids) |-> <<wave, ids[j]>>],
          status |-> [w \in DOMAIN p.status \cup {wave} |->
                        IF w = wave THEN [s \in ToSet(ids) |-> "pending"] ELSE p.status[w]]]

WithStatus(p, wave, step, status) ==
  [plan |-> p.plan, status |-> [p.status EXCEPT ![wave] = [@ EXCEPT ![step] = status]]]

KnownStep(p, wave, step) == wave \in DOMAIN p.status /\ step \in DOMAIN p.status[wave]

\* Mutant of ApplyWaveStepEvent: a failure makes the step pending again, completed or not.
FailureReopens(p, e) ==
  IF e.type = "spec.registered" THEN Registered(p, e.wave, e.steps)
  ELSE LET step == StepOf(e.wave, e.step) IN
         IF KnownStep(p, e.wave, step)
           THEN WithStatus(p, e.wave, step,
                  IF e.status \in {"success", "skipped"} THEN "completed" ELSE "pending")
           ELSE p

\* applyWaveStepEvent: a failure leaves the step as it is.
ApplyWaveStepEvent(p, e) ==
  IF e.type = "spec.registered" THEN Registered(p, e.wave, e.steps)
  ELSE LET step == StepOf(e.wave, e.step) IN
         IF KnownStep(p, e.wave, step) /\ e.status \in {"success", "skipped"}
           THEN WithStatus(p, e.wave, step, "completed")
           ELSE p

ProjectWaveStepProgress(events) == FoldLeft(ApplyWaveStepEvent, NoProgress, events)

\* ProjectWaveState: first the specifications, whatever their place ...
FirstPass(p, m) ==
  IF m.kind = "specification" /\ m.wave # Unnamed THEN Registered(p, m.wave, m.steps) ELSE p

\* ... then reports, by their severity, and feedback, which reopens a failed step.
SecondPass(p, m) ==
  LET step == StepOf(m.wave, m.step) IN
    IF m.wave = Unnamed \/ ~KnownStep(p, m.wave, step) THEN p
    ELSE CASE m.kind = "report" ->
                WithStatus(p, m.wave, step,
                  IF m.severity \in {Unnamed, "low"} THEN "completed" ELSE "failed")
           [] m.kind = "feedback" /\ p.status[m.wave][step] = "failed" ->
                WithStatus(p, m.wave, step, "pending")
           [] OTHER -> p

Specified(mails) == FoldLeft(FirstPass, NoProgress, mails)

ProjectWaveState(mails) == FoldLeft(SecondPass, Specified(mails), mails)

\* The planned steps with their status, in the order of the plan.
StepProgress(p) ==
  [i \in 1 .. Len(p.plan) |->
     [target |-> p.plan[i], status |-> p.status[p.plan[i][1]][p.plan[i][2]]]]

\* PendingTargets and ExpeditionTargetsFromWaves: what is not completed is offered.
Offer(targets, s) == IF s.status = "completed" THEN targets ELSE Append(targets, s.target)

\* Mutant of Targets: failed steps are not offered again.
PendingOnly(p) ==
  LET offer(targets, s) == IF s.status = "pending" THEN Append(targets, s.target) ELSE targets
  IN  FoldLeft(offer, << >>, StepProgress(p))

Targets(p) == FoldLeft(Offer, << >>, StepProgress(p))

\* collectWavelessFeedbackTargets.
Standalone(mails) ==
  LET ofNoWave(m) == m.kind = "feedback" /\ m.wave = Unnamed IN SelectSeq(mails, ofNoWave)

\* FetchTargets: the targets, or an error.
FetchTargets ==
  LET progress == ProjectWaveStepProgress(wvEvents) IN
    CASE DOMAIN progress.status = {} /\ ~wvReadable -> [error |-> TRUE]
      [] DOMAIN progress.status = {} /\ wvReadable ->
           [error |-> FALSE, first |-> << >>, steps |-> Targets(ProjectWaveState(wvMails))]
      [] OTHER ->
           [error |-> FALSE, first |-> IF wvReadable THEN Standalone(wvMails) ELSE << >>,
            steps |-> Targets(progress)]

\* ReportSeverity, from the gauge and not from the outcome.
ReportSeverity(level) == CASE level = 0 -> "high" [] level \in {1, 2} -> "medium" [] OTHER -> "low"

Mail(kind, wave, step, steps, severity) ==
  [kind |-> kind, wave |-> wave, step |-> step, steps |-> steps, severity |-> severity]

WvInit ==
  /\ wvEvents = << >>
  /\ wvMails = << >>
  /\ wvReadable = TRUE
  /\ wvMisled = {}

\* The steps an event or a d-mail may name, or none.
WvStepName == (UNION {ToSet(s) : s \in WvSteps}) \cup {Unnamed}

WvRoom == Len(wvEvents) < WvBound /\ Len(wvMails) < WvBound  \* bound

\* A specification arrives, and spec.registered is recorded; the same wave may
\* come again, with other steps.
SpecArrives ==
  /\ WvRoom
  /\ \E wave \in WvWave, steps \in WvSteps :
       /\ wvMails' = Append(wvMails, Mail("specification", wave, Unnamed, steps, Unnamed))
       /\ wvEvents' = Append(wvEvents, [type |-> "spec.registered", wave |-> wave, steps |-> steps])
  /\ UNCHANGED <<wvReadable, wvMisled>>

\* ... or waits to be recorded: the fallback works from the d-mail.
SpecWaits ==
  /\ WvRoom
  /\ wvEvents = << >>
  /\ \E wave \in WvWave, steps \in WvSteps :
       wvMails' = Append(wvMails, Mail("specification", wave, Unnamed, steps, Unnamed))
  /\ UNCHANGED <<wvEvents, wvReadable, wvMisled>>

\* An expedition on a step ends: expedition.completed, and NewReportDMail.
ExpeditionEnds ==
  /\ WvRoom
  /\ \E wave \in WvWave, step \in WvStepName,
        status \in WvStatus, level \in WvGauge :
       LET done     == status \in {"success", "skipped"}
           severity == ReportSeverity(level)
           before   == ProjectWaveStepProgress(wvEvents)
           id       == StepOf(wave, step) IN
         /\ wvEvents' = Append(wvEvents, [type |-> "expedition.completed", wave |-> wave,
                                          step |-> step, status |-> status])
         /\ wvMails' = Append(wvMails, Mail("report", wave, step, << >>, severity))
         /\ wvMisled' =
              IF \/ done # (severity = "low")
                 \/ ~KnownStep(before, wave, id)
                 \/ (~done /\ before.status[wave][id] = "completed")
                THEN wvMisled \cup {<<wave, id>>} ELSE wvMisled
  /\ UNCHANGED wvReadable

\* Feedback on a step, or on none.
FeedbackArrives ==
  /\ WvRoom
  /\ \E wave \in WvWave \cup {Unnamed}, step \in WvStepName :
       wvMails' = Append(wvMails, Mail("feedback", wave, step, << >>, Unnamed))
  /\ UNCHANGED <<wvEvents, wvReadable, wvMisled>>

\* A file is put into inbox/ that cannot be parsed, or taken out of it.
InboxSpoilt ==
  /\ wvReadable' = ~wvReadable
  /\ UNCHANGED <<wvEvents, wvMails, wvMisled>>

WvNext == SpecArrives \/ SpecWaits \/ ExpeditionEnds \/ FeedbackArrives \/ InboxSpoilt

WvSpec == WvInit /\ [][WvNext]_wvVars

-----------------------------------------------------------------------------
\* Every variable has its type.
WvTypeOK ==
  /\ \A i \in 1 .. Len(wvEvents) : wvEvents[i].type \in {"spec.registered", "expedition.completed"}
  /\ \A i \in 1 .. Len(wvMails) : wvMails[i].kind \in {"specification", "report", "feedback"}
  /\ wvReadable \in BOOLEAN

Open(p) == ToSet(Targets(p))

\* The two projections of one history agree on every step whose reports have
\* the severity its outcome calls for and which did not fail after a success, as
\* soon as its wave is registered: the change from the fallback to the event log
\* neither loses such a step nor offers one again.
ProjectionsAgree ==
  LET events == ProjectWaveStepProgress(wvEvents)
      mails  == ProjectWaveState(wvMails) IN
    \A wave \in DOMAIN events.status :
      /\ wave \in DOMAIN mails.status
      /\ DOMAIN mails.status[wave] = DOMAIN events.status[wave] =>
           \A step \in DOMAIN events.status[wave] :
             <<wave, step>> \notin wvMisled =>
               (<<wave, step>> \in Open(events) <=> <<wave, step>> \in Open(mails))

\* Once a wave is registered, its open steps are offered, each once unless a
\* specification names a step twice, and no other step of a wave is, whatever
\* state the inbox is in.
OpenStepsOffered ==
  LET progress == ProjectWaveStepProgress(wvEvents) IN
    DOMAIN progress.status # {} =>
      /\ ~FetchTargets.error
      /\ (\A steps \in WvSteps : IsInjective(steps)) => IsInjective(FetchTargets.steps)
      /\ ToSet(FetchTargets.steps) =
           UNION {{<<wave, s>> : s \in {t \in DOMAIN progress.status[wave] :
                                        progress.status[wave][t] = "pending"}} :
                    wave \in DOMAIN progress.status}

\* What an expedition is sent to do.
WavesSound == ProjectionsAgree /\ OpenStepsOffered

\* A step that the event log shows as completed is completed for good, and a
\* registered wave keeps its steps: repeated and changed specifications, failures
\* after a success and events of unknown steps undo nothing.
NothingUndone ==
  [][LET old == ProjectWaveStepProgress(wvEvents)
         new == ProjectWaveStepProgress(wvEvents') IN
       \A wave \in DOMAIN old.status :
         /\ wave \in DOMAIN new.status
         /\ DOMAIN new.status[wave] = DOMAIN old.status[wave]
         /\ \A step \in DOMAIN old.status[wave] :
              old.status[wave][step] = "completed" => new.status[wave][step] = "completed"]_wvVars

=============================================================================
