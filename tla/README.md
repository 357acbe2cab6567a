# Paintress in TLA+

Paintress drives an AI coding session through "expeditions": it keeps a
journal, exchanges d-mails (markdown files) with sibling tools, and records
everything it does as events.  Most of the program is plain plumbing around a
handful of stores that **several processes share without a common lock**:
`paintress mcp` serves one process per coding session, and `paintress rebuild`,
`archive-prune`, `dead-letters purge` and others run beside them.  The modules
of this directory model those stores and their callers, and beside them the
libraries the commands are built from: locks, pools, buses, ledgers,
projections, reports.

All paths are below `src/internal/` unless they start with `docs/` or `cmd/`
of the repository.

## 1. Inventory

| Component | State it keeps | Operations | Shared with | What makes it correct |
|---|---|---|---|---|
| Transactional outbox (`session/outbox_store.go`) | SQLite table `staged`, files in `archive/` and `outbox/` | Stage, Flush, PruneFlushed, PurgeDeadLetters | every process; the courier | nothing accepted is lost; no row claims a delivery that did not happen; archive first; retries end |
| dmail tool (`session/dmail.go`, `session/mcp_dmail_tool.go`) | the call in progress | SendDMail | outbox, event store | an answer `sent: true` is true; no call hangs; errors release the lock |
| Event store (`eventsource/store_file.go`, `seq_counter.go`, `recorder.go`, `usecase/emitter.go`) | day files of JSON lines, counter `seq.db`, causation chain of a session | Append, AllocSeqNr, Record, LoadAll | every process | numbers are unique; causes exist; chains do not fork silently; a torn line costs little |
| Snapshots and cutover (`eventsource/store_snapshot.go`, `cutover.go`, `usecase/rebuild.go`) | one snapshot file per aggregate type | Rebuild, RunCutover, LoadAfterSeqNr | event store, counter | snapshot and tail together hold every event of the counter, once |
| MCP tools for journal and gradient (`session/mcp_server.go`, `journal.go`, `projection.go`, `domain/expedition_aggregate.go`) | `journal/NNN.md`, `pr-index.jsonl`, the gradient level projected from the log | next_issue, update_gradient, append_journal | event store, files | an expedition keeps its number and its record; no issue is given out twice; no delta is lost |
| Run lock, run guard (`session/run_lock_store.go`, `harness/policy/run_guard.go`) | table `run_locks` with holder and expiry | TryAcquire, Release, IsHeld | every process | one holder at a time, until it expires |
| Worktree pool (`session/worktree.go`) | channel of free paths, list of all paths, git worktrees | Init, Acquire, Release, Shutdown | workers of one process | a worktree has one user; none is lost; a free one is fresh |
| Provider resilience (`platform/circuit_breaker.go`, `harness/verifier/provider_error.go`, `harness/policy/reserve.go`) | breaker state, sleeping callers, models with cooldowns | Allow, RecordProviderError, RecordSuccess; CheckOutput, ForceReserve, TryRecoverPrimary | goroutines of one process | callers are woken; a pause is kept; a model is left for one that may run |
| Gradient, retries, issue claims (`harness/policy/gradient.go`, `retry_tracker.go`, `preflight.go`, `domain/issue_claim_registry.go`) | gauge and its log, counts per set of issues, claims, budget | charge, decay, track, decide, claim, release | parallel expeditions | the gauge is what its log says; retries are capped; a claim is exclusive |
| Inbox (`session/inbox_watcher.go`, `monitor_inbox.go`, `waiting.go`, `dmail.go`) | files in `inbox/`, a bounded channel, events of moves | watch, drain, wait, archive | other tools, sessions | no d-mail is overlooked; one event per move |
| Archive pruning and index (`cmd/archive_prune.go`, `session/archive_index.go`, `eventsource/lifecycle.go`) | `archive/`, `index.jsonl`, event files, outbox rows | list, index, delete | flushes that write `archive/` | what is deleted was indexed and had expired |
| Wave progress and targets (`domain/wave_step_progress.go`, `harness/policy/wave_projection.go`, `expedition_target.go`) | none: folds over events and d-mails | project, select targets | - | the two projections agree; a finished step is not selected again |
| Failure recovery and checkpoints (`domain/gommage_*.go`, `expedition_aggregate.go`, `eventsource/checkpoint_scanner.go`) | streak and recovery counters of the aggregate | complete, escalate, decide, scan | event store | counters follow the log; one escalation per streak; recovery ends |
| Statistics (`domain/metrics.go`, `sprt.go`, `issues.go`) | none: folds | rates, trend, durations, percentiles, test, order | - | functions agree with their definitions |
| Insight ledger (`session/insight_writer.go`, `lumina.go`, `domain/insight.go`) | markdown files under flock | Append, extract luminas | sessions | no entry lost or doubled |
| Corrections (`domain/improvement.go`) | metadata of a d-mail that passes through several tools | parse, extend, apply | sibling tools | histories and corrections survive hops |
| Reviews (`session/pr_update.go`, `domain/review_*.go`, `harness/policy/stagnation.go`) | a section of a pull request's body | update gate, read comments, detect stagnation | whoever edits the pull request | one gate; the text of others stays |
| Session bus (`platform/session_event_bus.go`) | subscribers with bounded channels | Publish, Subscribe, Close | goroutines | nobody blocked for ever, nothing reordered |
| Provider streams (`platform/stream_*.go`) | session id, open subagents | normalise messages | provider process | one end; subagents paired; one session |
| Dev server (`session/devserver.go`) | a process, its URL, `running` | Start, Stop | goroutine that waits for it | one server unless a probe overlooked it; no half start |
| Coding sessions (`session/coding_session_store.go`, `cmd/sessions.go`) | SQLite table of records | save, finish, list, enter | every process | the newest is entered; rows follow processes |
| Approval and flag files (`session/approve.go`, `flag.go`, `flag_watcher.go`) | a pending request, the flag file | ask, answer, write, watch | a human, a session | no answer to the wrong question; no issue missed |
| Rival contracts, prompts (`harness/policy/rival_contract.go`, `harness/filter/`) | none: texts | parse, expand, render | - | what is shown is what was written |
| doctor, clean, project setup (`session/doctor*.go`, `init*.go`, `project_config.go`, `claude_wiring.go`) | the files of a project | check, repair, init, config set, wire | user, sibling tools | a repair repairs; settings of others stay |
| Telemetry, command line, ports, chat companions, lint fixtures | - | - | - | not modelled (see 7) |

Interaction: the dmail tool calls the outbox and the recorder; every other tool
calls the emitter, and with it the event store; rebuild and cutover read the
event store and the counter and write snapshots; pruning deletes what flushes
and appends wrote.  The components from the run lock on share no state with
one another at this commit: each is a library its callers use by itself.

What is hard: two processes between any two statements; a process that dies
between a file rename and the COMMIT that records it; writes that fail
half-way; calls repeated after an error although they took effect; a counter
read after the data it is meant to describe; a goroutine that outlives the call
that started it; a wake-up on a channel that was replaced meanwhile; a text that
is read, changed and written back while others edit it.  `PROJECT.json` lists
each such hazard with its line and the properties aimed at it.

Some of this code has no production caller at this commit, dormant since
the program became an MCP server: the worktree pool is called retired by the
repository's own README (lines 121-123), and the run lock, the circuit breaker,
the reserve party, the wave targets, the inbox watcher and the recovery of
expeditions are called by tests and by each other only.  They are modelled as
their tests call them.

## 2. Modules

| Module | Models | Extends / instantiates |
|---|---|---|
| `Delivery` | what the outbox promises its callers (abstract) | - |
| `Outbox` | the table `staged`, the flush transaction step by step, the files, the courier | instantiates `Delivery` by the refinement mapping `Owed` |
| `SendDMail` | calls of the dmail tool on top of the outbox | extends `Outbox`, and its sessions are shown to implement `Outbox!Spec` |
| `EventLog` | event log, counter, recorders and MCP emitters | - |
| `Snapshots` | rebuild, cutover and snapshot file beside the log | extends `EventLog` |
| `Expeditions` | next_issue, append_journal and update_gradient of several MCP sessions | stands on what `EventLog` shows about one append |
| `ArchivePrune` | archive-prune and its index rebuild beside sessions that archive and append | - |
| `RunLock` | the lease in a SQLite row, statement by statement | `Rfc3339`: how the texts of two times compare |
| `Worktrees` | the pool of git worktrees | - |
| `CircuitBreaker` | callers of a provider that wait while the circuit is open | - |
| `Reserve` | models, cooldowns and the streams that report rate limits | - |
| `Inbox` | inbox files, file-system notifications, workers that archive | - |
| `Waves` | wave projections, targets, reports | - |
| `SessionBus` | publishers and subscribers | - |
| `SessionStream` | reader and normaliser of a provider's stream | - |
| `DevServer` | the dev server's process and the goroutine that waits for it | - |
| `CodingSessions` | records, table, `sessions enter` | - |
| `Recovery` | the aggregate's streak, classifier, recovery decisions, checkpoints | - |
| `Statistics` | rates, trend, durations, percentiles, SPRT, order of issues | - |
| `Review` | review gate, comments, stagnation | - |
| `Triage` | gauge, retries, pre-flight, claims, budget | - |
| `Insights` | ledger and luminas | - |
| `Corrections` | correction metadata over hops | - |
| `Doctor`, `ProjectSetup` | the checks and their repairs; init, config set, wiring | both use `Continent`, the directories of a project |
| `RivalContract`, `Prompts` | contracts; templates and the expedition prompt | - |
| `Approval` | approvers, flag file and its watcher | - |
| `Library` | the disjoint composition of the twenty-one modules from `RunLock` to `Approval` | extends them |
| `ToolsProofs` | theorems about the outbox (and what follows from `Delivery`), the dmail tool and the tools for the journal and the gradient | `SendDMail`, `Expeditions` |
| `EventLogProofs` | theorems about the event log and its snapshots | `Snapshots` |
| `StreamsProofs` | theorems about the lock, the pool, the breaker and what runs concurrently: inbox, bus, streams, dev server, coding sessions, approvals, flag file; and about the pruning of the archive | the modules of these |
| `RecordsProofs` | theorems about what keeps records or works on those of others: reserve, recovery, waves, set-up, reviews, corrections, the ledger | the modules of these |
| `TextsProofs` | theorems about what is computed from a log, a list of mails or a text: claims, gauge, retries, statistics, luminas, doctor | `Triage`, `Statistics`, `Doctor`, `RecordsProofs` |
| `PromptsProofs` | theorems about what a prompt is made of: contracts, templates, the prompt of an expedition | `RivalContract`, `Prompts` |
| `LibraryProofs` | theorems about the composition | `Library`, `StreamsProofs`, `TextsProofs`, `PromptsProofs` |
| `Folding` | what a fold over a sequence is, step by step, with proofs | - |
| `MC...` | model values and bounds for TLC | the module they are named for |

Variables, constants and actions of a library module carry its prefix (`cb` and
`Cb`, `rv` and `Rv`, ...), because `Library` extends all of them.

An operator whose comment begins "Mutant of X" is X with a plausible bug in it;
`PROJECT.json` names the property that notices (a property that joins several
is listed with one of its mutants).  No specification uses it.

## 3. How the modules correspond to the code

**Outbox.**  `staged` is the committed table, `view` the table as the open
transaction sees it; `writer` is SQLite's write lock, which `BEGIN IMMEDIATE`
takes and every autocommitted statement needs for a moment.  `Stage` is the
upsert with its resetting `DO UPDATE` clause; `BeginFlush` is BEGIN IMMEDIATE
and the SELECT; each row is then `ArchiveItem`, `DeliverItem` (the second
rename and the UPDATE of the row) or `FailItem` (either write failed;
retry_count is counted, or its UPDATE failed too, an error the code drops);
`Commit` and `Rollback` end it, the latter for every error return and for
the death of the process, and leave the files where they are.  `PruneFlushed`
and `PurgeDeadLetters` are single DELETEs.  `CourierTakes` is external.

**SendDMail.**  `pc` is the statement a call is at: stage, emit
`dmail.staged`, flush, emit `dmail.flushed`.  Every statement can fail, each
failure is an early return, and the answer depends on the *number* of rows the
flush returned.  The internal steps of the flush are those of `Outbox`.

**EventLog.**  One append is one `f.Write` of a line: `WholeLine`, or
`PartialLine`, after which the next line completes a corrupt one (`glued`) and
is skipped by LoadAll.  `AllocSeqNr` is the INSERT ... RETURNING of the
counter; `Emit` is the MCP emitter, whose events carry the number of their
aggregate; `Append` and `AppendFails` (with the line written or not) set or
keep `prevID` as the recorder does; `Restart` is the recovery of `prevID` from
the log.  `made` holds events created by a goroutine and not yet recorded, so
two of them may be recorded out of their order.

**Snapshots.**  `job` is what a running rebuild has read: `RebuildLoad`,
`RebuildMark` and `RebuildSave` are LoadAll with the replay, LatestSeqNr and
Save.  `boot` walks a recorder through RunCutover; `Die` may stop either
anywhere.  `Replayed` is what LoadAfterSeqNr returns beside the snapshot: it
compares an event's number with the watermark whoever gave the number.  MCP
sessions number their events from 1 for themselves, or not at all, so theirs are
replayed beside a snapshot that counts them, or neither counted nor replayed,
even when the rebuild met a quiet log; that "Only events with globally-allocated
SeqNr [...] are included" (`store_file.go:93`) holds only where no MCP session writes.
`Twice` and `Missed` are these sets, and the properties say which of their
members are events of the counter (`Numbered`).

**Expeditions.**  `exPc` is the statement a session's call is at.  `NextIssue` reads `pr-index.jsonl`; `AppendJournal` checks
its arguments, and `WriteJournal`, `WritePRIndex` and
`EmitCompleteExpedition` are the three writes, in this order; `LoadGradient`,
`MakeGradientChange` and `AppendGradientChange` read the level from the log,
stamp an event with the new level and append it.  `LeftBehind` is what the
death of the process leaves of the write it was in.  A session follows the
repository's expedition-next skill: it appends the number and the issue its
last next_issue named, and may repeat a call that was not fully acknowledged.

**ArchivePrune.**  `pc` walks through `runArchivePrune`: the listing of d-mails
and of event files, the confirmation, the append to the index under its lock,
the *second* scan with a threshold of its own (`ScanArchive`, then `Examine`
and `RemoveFile` per entry), the removal of the listed event files, and the pruning
of outbox rows, whose effect is `Outbox`'s.  `Rebuild` and `RenameIndex` are
`archive-prune --rebuild-index`, whose lock and rename matter to the others.
`Tick`, `ArchiveCopy`, `ArchiveInbox` and `AppendEvent` are the sessions.

**RunLock.**  `TryAcquire`, `DeleteStale`, `InsertRow` and `QueryHolder` are the
call up to its first statement and the three statements, each a transaction of
its own that may fail; the caller's clock was read once, before the first.  The
table compares the *texts* of times: `Rfc3339` says when the text of one is below that of
another, which within a second is not the order of the times, as
RFC3339Nano drops trailing zeros.  `IsHeld` is the query of the guard.

**Worktrees.**  `poolFree` is the buffered channel in its order, `poolTree` what
git would find in each directory.  Init, Acquire with its health check and
recycling, Release and Shutdown are walked statement by statement; every git command may
fail.  Two comments of the code do not hold: Shutdown does not "unblock any
pending Acquires" by draining the channel, and "next Acquire's health check
will re-attempt recycling" is false when `git status` works in a dirty tree;
`FreeIsFresh` therefore speaks of worktrees the pool has not reported.

**CircuitBreaker, Reserve.**  `ask`, `asleep` and `call` are the places of a
caller of Allow; `cbNotified` are the sleepers whose channel was closed;
`Fails` classifies what the provider printed, by the code's own order of
patterns, and trips.  A success of a call that began before the trip closes the circuit
(`cbStale` remembers it).  In `Reserve` a rate limit that a stream reports is
booked on the model that is active by then.

**Inbox.**  `CourierStarts` and `CourierEnds` put a file by rename or in
place; adding the watch, listing the directory and following notifications are
separate steps, into a channel (MonitorInbox) or a callback (watchInbox);
`ScanInbox`, `RenameToArchive` and `EmitArchived` are a worker's.

**Waves.**  `wvEvents` and `wvMails` grow together as one history is written to
both; the two projections, the choice between them and the targets are
functions of them.  What is planned (`plan`: waves in the order of their
registration, each with its steps) is kept apart from the status of each step.
A report's severity is taken from the gauge's level and not
from the outcome, while the d-mail projection takes a severity other than low
for a failure: `ProjectionsAgree` is restricted to the reports on which this makes no
difference.  Nothing at this commit calls `EmitSpecRegistered`, so
the event projection is reached only over a log in which the
registration was recorded otherwise, and the d-mail projection is the usual one.

**SessionBus, SessionStream, DevServer, CodingSessions.**  A publisher walks
the subscribers under the read lock (`busTodo`), a subscriber may close itself
under its feet.  The normaliser's state is the session it saw last and the
open subagents; of two Agent blocks in one message the second is never
registered, and `AgentsPaired` says what holds nevertheless.  Whoever closes the
stream passes the session for its last event, any (a test passes another than the
stream's, `stream_normalizer_test.go:158`).  The goroutine
that waits for the dev server clears `running` whenever it gets the mutex,
possibly that of its successor; Start may set it after the process died.  A GET
gives up after two seconds, so a slow server may be overlooked, and `devMissed`
remembers those alive at that time; a second server then runs beside the first,
which Stop no longer stops.  `MissedIsLate` says that this takes a goroutine
that cleared `running` late as well.  An answer is
taken for that of the own server, whoever gives it, and a log file that cannot be created
leaves `process` as it was.
UpdateStatus overwrites a row unconditionally; the abandoned status is never
written.

**Recovery.**  A call changes the aggregate's counters and then appends, so a
failed append leaves them ahead of the log; `StreakFromLog` holds up to the
failures.  A reason that mentions two classes is classified by the order in
which a Go map is walked, although a comment says the order "prevents
nondeterministic classification"; the scanner's "no subsequent expedition.completed event"
(`checkpoint_scanner.go:24`) is any completed event in the code, so that a checkpoint of
a number given out again after its completion (`Reused`) is never resumed.
`ResumesTheUnfinished` states the comment for all others.

**Statistics, Triage, Review, Insights, Corrections.**  Folds over what was
recorded, on integers and fractions; each is compared with a definition of its
own.  The trend compares with the *first* window although a comment speaks of "the
windowSize events before that".  Review's gate is read by `gh view` and
written by `gh edit`: an edit in between is lost, which `OthersKept` speaks of
what had been read.  The ledger's parser reads one line per
value: `TailsGo` states what a rewrite loses.  Release frees an
issue whoever holds it; `ClaimsExclusive` rests on callers releasing their own only.

**Doctor, ProjectSetup.**  The world is one record of the files the checks look
at; others change it between two runs.  A failed repair of the skills reports
the result from before it; a stale pid counts as fixed though removing it may
have failed; the token's scopes are compared as substrings.  `config set` writes
YAML that omits zero values, so a zero reads back as the default.

**RivalContract, Approval, Prompts.**  A repeated heading discards the earlier
section; the glossary is decided by the metadata alone.  The goroutine of a
cancelled request for approval eats the next answer, and two of them share the
bytes of one line.  Conditionals do not nest, although a comment says "Blocks can be
nested" (`registry.go:148`): the first `{/if}` closes the outer one, and
`ExpandsToValues` is stated for templates without nesting.

**Library.**  In a behaviour one part runs and the others stay at their
start.  No action of a part reads or writes a variable of another, so every
interleaving of parts projects onto one such behaviour for each of them, and
every property of a part that this composition satisfies holds of all of
them running together; the states are a sum instead of a product.
`LibraryRunsParts` is the machine-checked half of it.  The invariants of the
parts are grouped by what they speak of: `StreamsSound` what actors exchange,
`RecordsSound` what is read from a log or a file that others write too
(statistics, luminas, corrections and the doctor's reports among it),
`TextsSound` what the prompts say of the contracts, mails and values they are made of.

## 4. Runs and bounds

| Run | Bounds | Why they are enough |
|---|---|---|
| `outbox` | 2 processes, 2 names of which one is shared by two d-mails, retry bound 2 | a name with two contents gives re-staging during and after a flush; two rows give a flush that half succeeds; with bound 2 a row is below, at and past the last attempt |
| `outbox_live` | the same with a d-mail per name, no symmetry | liveness must not be checked under symmetry |
| `send_dmail` | 2 sessions, 2 d-mails, retry bound 1 | one call can find, flush or lose the other's row; one failure makes a dead letter |
| `sent_means_handed` (violation) | 1 session | the disagreement needs no concurrency |
| `event_log` | 2 recorders with 2 goroutines each, 1 emitter, 4 events, 3 partial lines | two numbered sessions race for the counter, two goroutines of one for the chain; four events make a chain, a fork and an event behind a partial line |
| `snapshots` | 2 recorders, 1 emitter, 1 rebuild at a time, 3 events | a rebuild between two numbered events of different sessions, with a cutover in between; `MCView` drops causes, `prevID` and failure records, which no step or property of this module reads |
| `snapshot_skips` (violation) | 1 recorder, 1 rebuild | the shortest race |
| `expeditions` | 2 sessions, 2 issues, 6 calls | two overlapping expeditions take four calls; two remain for a retry, a gradient change or a third number |
| `permanent_knowledge` (violation) | 1 session, 4 calls | two expeditions of one session |
| `archive_prune` | 2 processes, 1 d-mail name, retention 1 day, clock 0 to 2 | a file written on day 0 expires on day 2; every property is about one file at a time; `MCView` drops the candidates and the output format once no step reads them |
| `pruned_are_indexed` (violation) | 1 process | the disagreement needs no concurrency |
| `library` | two actors wherever there are actors; per part what follows | the states of the parts add up |

The bounds of `library`, by part: a lock with 2 holders, a lease of 3 ticks and
a clock of 4 (a lease expires while another call is between two statements); 2
worktrees for 2 workers and Shutdown among them; 2 callers, 4 kinds of stderr
(a limit with a reset time, an overload, two patterns at once, nothing known),
3 doublings of the backoff; 3 models, 2 streams; one d-mail that is written
twice, for 2 workers and a channel one short; a wave of two steps and one of
none with 3 events; 2 publishers of 2 events each for 2 subscribers with a
buffer of 1; 3 lines of a stream; 3 processes of the dev server (the first's
goroutine is late, the second is overlooked, the third runs beside it); 2 processes with coding sessions; 4 events of an expedition
with a streak of 2; 4 records for the statistics, with windows of 1 and 2; 2
updaters of a pull request and 4 edits of others; 4 steps of triage over two
issues in either order; 2 writers of the ledger with 2 appends each, one with a
value of several lines; 3 hops of a correction; 2 changes of the world between
doctor runs; 3 steps of setup; contracts of 5 lines; 2 requests for approval;
templates of 4 tokens, enough for a conditional with both branches, one
inside another and one that is not closed.

`PROJECT.json` states in a sentence what each run shows.  The violation runs
are disagreements of the code with a line of its own documentation, quoted
under `findings`; each property of a passing run has a mutant that breaks it.
Every passing run lets writes fail, processes die and calls overlap; none of
the invariants relies on a write succeeding.

`CHECK_DEADLOCK` is left on in all of them but `library`: no reachable state of
the other modules, not even one at the bounds, is without a next step.  The
parts of `Library` really stop: a stream ends, a template has been expanded, a
clock has reached its bound.  That nobody *waits* for ever is stated where
goroutines wait for one another without a timeout: `CallersAdmitted` of the breaker,
and `PoolSound`, by which a Release finds room in the channel.

Bounds in guards: `MaxEvent`, `MaxTear`, `Callers` (EventLog), `MaxCalls`
(Expeditions), `MaxTime` (ArchivePrune), and in the library the constants of
MCLibrary.cfg with Max in their name or that count events, lines, edits,
steps, hops, tokens or appends.  `MaxRetry` is the code's own
`maxRetryCount` (3 there), a parameter here.

## 5. Fairness

`FairSpec` of `Outbox`: weak fairness of *some* process beginning a flush
(sessions keep sending d-mails), weak fairness of the steps of a running flush
(Go schedules it, and nothing in the loop waits), and strong fairness of
committing and of the two file writes of each name: I/O errors and deaths
happen, but not at every single attempt for ever.  Without the last,
`EventuallySettled` would be false whenever the UPDATE of retry_count fails
together with the write, every time: retries end because failures are counted
*or* stop.

`FairSendSpec` of `SendDMail`: weak fairness of the steps of a call only
(`Continue`), which the Go scheduler and SQLite's `busy_timeout`, an upper bound
on every wait for the lock, justify.  No call is ever assumed to be made.

`CbFairness` of `CircuitBreaker` (`LibFairness` in the composition): weak fairness
of the clock, and of each goroutine that is inside Allow, which Go's scheduler
and timers justify.  Nothing makes a caller call, fail or succeed.  `CallersAdmitted`
says that a caller of Allow is let through or cancelled in the end.  Time
stops at `CbMaxTime`, but `Trip` has a guard that keeps the end of every pause
below it, so the bound does not make anybody wait.

The other modules state safety only.

## 6. What is proved

All theorems hold for arbitrary sets of processes, names, contents, sessions
and arbitrary bounds, under the `ASSUME` of their module (types of the
constants, and None being no member of the sets it is added to).  Each
temporal theorem is the PTL combination of `Init => Inv`, `Inv /\ [Next]_vars
=> Inv'` with a step for each action.

* **Outbox** (`ToolsProofs`).  The inductive invariant `IInv` joins
  `TypeOK`, `TransactionInv`, `RowsAccepted`, `FlushedWasHanded` and
  `ArchiveFirst`.  None is inductive alone: a row is marked flushed inside the
  transaction, so that COMMIT keeps `FlushedWasHanded` only because `view`
  satisfies it as well; `DeliverItem` keeps `ArchiveFirst` only because the item
  between its two writes is known to be in `archive/` (`TransactionInv`); and
  what is handed over is a d-mail somebody staged only by `RowsAccepted`.
  `OutboxKeepsPromise` shows that `Outbox` implements `Delivery` with
  `Owed`, the contents of unflushed rows, for what is owed:
  Stage is Accept, the rename into `outbox/` is HandOver, COMMIT is Settle,
  the purge is Drop, all other steps stutter.  `NoSilentLoss`, proved of the
  actions of `Delivery` alone (`DeliveryInvariant`), then holds of the outbox.
* **SendDMail** (`ToolsProofs`).  Every step of a session is a step of
  `Outbox` or changes none of its variables, so that all of the above holds with
  sessions; and exactly the session in its flush holds the lock, with which an
  answer "sent" is right when the flush had selected no row but the caller's.
* **EventLog** (`EventLogProofs`).  `SeqUnique`, `CauseKnown` and
  `NoSilentFork` with the strengthening `IdUnique` (no two known events share
  an id), `DraftInv` (an event being recorded follows its session's `prevID`, is
  not in the log yet and has the session's greatest number) and `PrevInv`
  (`prevID` is an event of the session, readable or not, and nothing that was
  recorded without an error follows it yet).  `OneLossPerTear` counts: its
  lemmas show that each of the steps that write adds at most one to the lost events and
  clears the tear it was charged to.
* **Snapshots** (`EventLogProofs`).  `NoDoubleReplay` and `ExactWhenQuiet`
  follow from `SnapInv`: what a rebuild has read (`Read`) and what a
  snapshot of certain ids at a certain watermark says of the log (`Kept`) stay
  true while the log grows.  That rests on `Moves`, which every step
  satisfies: what enters the log was on its way, under an id of its own, and
  what starts on its way under one of the counter's numbers has one it had not given out.  `Moves`
  in turn needs `Apart` (no two events share an id), which is stated here for
  drafts of cutovers too, whose events belong to no session.
* **Expeditions** (`ToolsProofs`).  `FilesBeforeEvents`, `DeltasAddUp`
  and `ReportsKept`, with `CallInv` and `TaskInv` (what a call past a write
  knows to be on disk, and what a session was told), `LevelIds` and
  `UnracedInv` (an unraced change was computed from the greatest earlier one).
* **ArchivePrune** (`StreamsProofs`).  `KeepsYoung`,
  `IndexedBeforeDeleted` and `EventsKept`.  The strengthening is `ScanInv`
  (what is about to be removed was seen with an expired time), `IndexInv` (a
  rebuild between its walk and its rename holds the lock and has seen every
  candidate that another run has already indexed, unless it was removed)
  and `EventsInv` (listed event files belong to days no session writes any
  more).

* **RunLock, Worktrees, CircuitBreaker** (`StreamsProofs`).  The lock's
  exclusion needs that a text that sorts before another is of no later second
  (`Rfc3339`), that no call's reading of the clock is in the future, and that a
  lease that was not given back has its row or has reached its last second.  The pool's invariant says where each path is:
  in the channel, with a worker, or on its way.  The breaker's says until when
  each sleeper's timer was set and that a replaced channel was closed.
* **What is exchanged** (`StreamsProofs`; claims in `TextsProofs`), all of `StreamsSound`.
  `InboxIsSound` follows each version of a file from the notification or the scan to
  the channel, and each move from the rename to its event; `BusIsSound` needs to know
  which subscribers a publisher still has before it, and that its number is the
  greatest of its own in every channel it has written to; `StreamIsSound` pairs
  the starts and ends of subagents; `DevServerIsSound` knows that a goroutine
  waits for its own process or a later one, so that only one started before
  a live server can have cleared `running` beside it; `SessionsAreSound` what each process holds of its row;
  `FlagIsSound` and `ClaimsAreSound` are inductive with little help.
  That a truncated field fits its limit is `RawsFit`, for any widths of runes.
  `AnswersAreSound` has two invariants about the terminal: without a cancellation
  request r reads what follows the first r - 1 lines, where `BytesBefore` is the place
  at which a line begins in the fold of all that was typed (`OrderInv`); and the
  first bytes of the readers stand at different places of what was typed
  (`BytesInv`).  The first byte of an approval is a "y", which only a line that
  approves has there, which gives the injection `NoApprovalInvented` asks for.
* **What is recorded** (`RecordsProofs`, `TextsProofs`), all of `RecordsSound`, and the
  properties of steps (`ObjectSteps`).  These speak of functions that fold over a log: the
  gauge's level, the unfinished expeditions, the comments of a review, the ledger
  as its parser reads it, the state of the waves.  The library's induction theorems cannot be
  instantiated, so induction is taken from the natural numbers themselves:
  a set of numbers that is not empty has a least element, which `Folding` derives
  from what `\in Nat` gives, and from that that `FoldLeft` over
  a longer sequence is one more step (`FoldAppend`) and keeps what each step keeps
  (`FoldKeeps`).  A module of theorems instantiates `Folding` with the step of
  each fold it speaks of.  `RecoveryIsSound` then counts failures since the last success
  on both sides of an append, and splits the votes of the classifier by class;
  `ReviewIsSound` shows that insertion keeps the order of urgency and of lines;
  `LedgerIsSound` that a writer with the lock has read the file that is
  there, that nobody else renames over it, and that reading it back loses no title.
  `SetupIsSound` needs what the last command did (`LastInv`): the configuration in the file
  is the one it computed, and what is written reads back as `Kept` says
  (`WrittenIsRead`), whatever was in the file before.
* **Corrections** (`RecordsProofs`).  A history is written by joining names with ">" and read
  by taking tokens one at a time; `CorrectionsAreSound` shows that what is read back is what
  was joined.  A history of one name has no separator at all, and is taken apart at commas
  instead: that this changes nothing rests on the last name being a tool's, which has
  none.  `CoInv` says what the metadata under way agree with, and that after hops in mails of their
  own writing again what was read changes nothing.
* **Gauge and retries** (`TextsProofs`).  `RetriesAreCapped` needs that a key does not depend on
  the order of the issues: insertion sort of any two lists of the same issues gives the same key.
  `RetryHistory` then ties each count to the mails in the log, and each decision to the count it was
  taken by.
* **Statistics and luminas** (`TextsProofs`).  Every one of these functions is a fold, and
  `StatisticsAreSound` proves that each keeps a relation between what was read and what
  was computed: the sorted durations are those of the log, the sequential test adds up the
  gains and losses until it first crosses a bound, the order of issues is sorted and stable.
  `LuminasAreSound` inserts by number of uses into three lists that
  are put behind one another before the maximum cuts them off.
* **doctor** (`TextsProofs`).  Two reports stand side by side only when nobody changed the world
  between the runs, so that the second run read what the first one left.  `DoctorIsSound` compares them check
  by check: what no repair touches (`Kin`) is judged as before, what was repaired is
  found in order, and no other check becomes worse.  The budget's total is a fold over the messages.
* **Contracts** (`PromptsProofs`).  `ReadSo` says what a body that was read line by line adds up to:
  each section but the one that is being read has the lines that stand under its heading and under
  no later heading of its name.  The ids' sort is `SetToSortSeq`, which depends on the set
  of issues only, so their order does not matter; of two operators one of which begins with the
  other the longer one stands first in the list, which is why nothing that is compared with begins with "=".
* **Prompts** (`PromptsProofs`).  Replacing a variable spreads each token of a text to a
  text of its own; two such passes are one spread, as a mark (`Sentinel`) is no token of any
  text or value.  That is what makes the order of the variables irrelevant and keeps values
  from being expanded again (`AllOrdersAgree`).  A step of the conditionals on a flat template
  keeps the tokens that stay (`KeptTokens`) and shortens the text, so that as many steps as the text
  has tokens leave no conditional.  An expedition's prompt is the ten `Pieces` its template's
  tokens become.  The invariants `Expanded` and `Rendered` say from what a state's results were
  computed.  (`Writable` lists the strings the module quotes, as the provers do not know
  that a quoted string is in `STRING`; `PrAssumption` keeps what users and mails say apart from the
  words by which the property recognises a template's section.)
* **Waves** (`RecordsProofs`).  `WavesAreSound` compares two folds over one history,
  of which one is itself a fold over what a first pass has made of the d-mails.  A further
  specification changes that start, so the proof first shows that what reports and feedback make
  of a step depends on nothing but the step's own status (`ReportsAreLocal`).  The
  inductive invariant `History` then says that a wave in the event log has its d-mail, that a step
  which was not misled is completed in both projections or in neither, and
  that no report of such a step came before the step was known (`Told`); without the
  last, a wave that is registered late would start as completed in one of
  them.  `PlanOK` (the plan lists the steps that have a status, once
  each if no specification repeats one) gives what is offered.
* **The composition** (`LibraryProofs`).  `LibraryRunsParts` shows, for each
  of the twenty-one parts, that a behaviour of the library is one of the part; with
  it `LibraryLock`, `LibraryPool`, `LibraryBreaker`, `LibraryStreams`,
  `LibraryRecords`, `LibraryTexts`, `LibraryWaves`, `LibraryTypes` and `LibraryObjectSteps` carry the theorems of
  the parts over to the composition, whose properties the run checks.

Only model-checked are the liveness properties (`EventuallySettled`, `WriterLeaves`,
`AlwaysAnswers`, `CallersAdmitted`): liveness under fairness is beyond the prover.  Every
invariant and every action property of the passing runs is stated by a theorem.

The library's induction theorems take an operator, which these provers cannot instantiate;
what is computed by a fold is therefore proved from `Folding` alone, and no module
declares a recursive operator.

## 7. What is not modelled, and what the models abstract from

* Components marked `not_modelled` in `PROJECT.json`: telemetry and logging
  (spans, metrics and lines leave the process and change nothing it reads), the
  command line (flags, help and wiring), the port interfaces (no behaviour of
  their own), the chat companions (separate programs that answer one approval),
  and examples for the lint rules, which are never built.
* Components marked `partly`: what is left of each is named there; mostly
  wording, and code without a caller that truncates or formats.
* `Outbox`: a d-mail's contents are a value; temporary files and the loss of
  unsynced data in a power failure are left out (a process dies, the machine
  does not).  A rename is atomic.
* `EventLog`: an event's id stands for its timestamp too, so creation times are
  distinct; the day files are one file; a partial line lacks its newline; a
  session has one recorder.
* `Snapshots`: rebuild and cutover name the same aggregate type, and a rebuild
  is repeated but never run twice at once in the checked instance.
* `Expeditions`: an append to the event log ends as `EventLog` shows it can
  (recorded, hidden behind a partial line, failed with or without being
  written); levels are not clamped to the gauge's range, as `update_gradient`
  does not clamp them either.
* `ArchivePrune`: time passes in days; entries of the index are file names; of
  a rebuild, `journal/` and `insights/` are left out and the walk over
  `archive/` is one step.  Pruning event files also deletes the
  `gradient.changed` events the level is projected from; no property speaks of
  it.  The helpers that list and truncate oversized files have no caller.
* `RunLock`: one key, as keys do not interact.  Times are half seconds.
* `CircuitBreaker`: time in units of the initial backoff; the texts of a provider
  are the sets of patterns they contain.
* `Statistics`: rates are fractions and logarithms integers; how floating-point
  division rounds at exactly 10 % is not decided by the model.
* `SessionStream`, `Corrections`, `RivalContract`, `Prompts`: texts are
  sequences of tokens where their spelling matters, and values where not.
* `Library`: the parts do not call one another, which is how the code stands.
* Error texts, logging, tracing and the formatting of files and answers are
  left out everywhere; so are the time limits of the commands a doctor runs
  and JSON nulls among the maps of a configuration.

## 8. Where the project stands

Every component whose code changes state is modelled at least in part, and every
safety property that a run checks is proved for all values of the constants.  What could be added:

1. A composition of `Inbox` with `ArchivePrune`, should a command start the
   inbox monitor again: today nothing runs both.
2. Weak fairness for `SessionBus`, whose publishers wait a timeout at most.
