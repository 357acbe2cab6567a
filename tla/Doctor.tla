------------------------------ MODULE Doctor ------------------------------
(***************************************************************************)
(* `paintress doctor' and `doctor --repair' (session/doctor*.go).  The     *)
(* world the command looks at is one record; the user and the other tools  *)
(* change it between two runs, `doctor --repair' changes it in the order   *)
(* in which it checks, and `paintress clean' removes the continent.  The   *)
(* reports kept are those of the runs since somebody else last changed     *)
(* the world.                                                              *)
(*                                                                         *)
(* The estimate of the context a session consumes is computed from the     *)
(* messages of a stream; it shares nothing with the checks and is explored *)
(* while no check has run.                                                 *)
(***************************************************************************)
EXTENDS Continent, Naturals, Sequences, SequencesExt

CONSTANTS DrChanges,   \* bound: changes of the world by others
          DrScopes,    \* sets of token scopes gh may report
          DrSizes,     \* counts an init message may carry, sequences of four
          DrBytes,     \* bytes a hook may print
          DrMessages   \* bound: messages of the stream

ASSUME DrAssumption ==
    /\ DrChanges \in Nat /\ DrMessages \in Nat
    /\ DrBytes \subseteq Nat
    /\ \A s \in DrSizes : s \in Seq(Nat) /\ Len(s) = 4

VARIABLES drWorld, drReports, drChanges, drStream

drVars == << drWorld, drReports, drChanges, drStream >>

\* A machine on which everything is installed and `paintress init' never ran.
NewMachine ==
    [dirs |-> {}, skills |-> << >>, ignore |-> {}, writable |-> TRUE,
     path |-> {"git", "claude", "gh", "docker", "uv"}, mcp |-> "linear", auth |-> "yes",
     scopes |-> {"repo", "read:project"}, git |-> "remote", config |-> "absent",
     outbox |-> "absent", events |-> "none", pid |-> "none", watches |-> TRUE,
     checkout |-> FALSE, uvInstall |-> "works", linear |-> TRUE]

DrInit ==
    /\ drWorld = NewMachine
    /\ drReports = << >>
    /\ drChanges = 0
    /\ drStream = << >>

-----------------------------------------------------------------------------
(* The checks.                                                             *)

CheckCommand(w, c) == IF c \in w.path THEN "ok" ELSE IF c = "docker" THEN "warn" ELSE "fail"

\* The scopes paintress needs are looked for in the text of the line: any
\* scope whose name contains "repo" passes for repo.
ScopeMentions(scope, needed) ==
    \/ scope = needed
    \/ scope = "public_repo" /\ needed = "repo"

CheckGHScopes(w) ==
    IF "gh" \notin w.path THEN "unasked"
    ELSE IF w.auth = "yes" /\ \A n \in {"repo", "read:project"} : \E s \in w.scopes : ScopeMentions(s, n)
    THEN "ok" ELSE "warn"

RequiredDirs == StateDirs \ {"root", "events"}

\* The directories the check asks for; repaired, it does not make events/.
CheckContinent(w, repair) ==
    LET missing == ({"root"} \union RequiredDirs) \ w.dirs
    IN  IF missing = {} THEN [status |-> "ok", world |-> w]
        ELSE IF repair /\ w.writable
             THEN [status |-> "fix", world |-> [w EXCEPT !.dirs = @ \union missing]]
             ELSE [status |-> "warn", world |-> w]

CheckConfig(w) == IF w.config = "good" THEN "ok" ELSE "warn"
CheckGitRepo(w) == IF "git" \notin w.path \/ w.git = "none" THEN "warn" ELSE "ok"
CheckGitRemote(w) == IF "git" \in w.path /\ w.git = "remote" THEN "ok" ELSE "warn"
CheckWritability(w) == IF "root" \in w.dirs /\ w.writable THEN "ok" ELSE "warn"

\* A skill without a version ends the check before it looks for the old kind.
CheckSkills(w) ==
    LET texts == {w.skills[s] : s \in DOMAIN w.skills}
    IN  IF texts = {} \/ "unversioned" \in texts THEN "warn"
        ELSE IF "deprecated" \in texts THEN "fail" ELSE "ok"

\* The repair counts as one only if the check passes afterwards: else the
\* result from before it is reported, whatever it has changed.
RepairSkills(w, repair) ==
    LET before == CheckSkills(w)
        done == ValidateContinent(w)
    IN  IF ~repair \/ before = "ok" THEN [status |-> before, world |-> w]
        ELSE [status |-> IF done.ok /\ CheckSkills(done.world) = "ok" THEN "fix" ELSE before,
              world |-> done.world]

CheckEventStore(w) == IF w.events = "clean" THEN "ok" ELSE "warn"

\* Without the file the store is not opened, which would create it.
CheckDeadLetters(w) ==
    CASE w.outbox \in {"absent", "unreadable"} -> "skip"
      [] w.outbox = "dead" -> "warn"
      [] OTHER -> "ok"

CheckFsnotify(w) == IF w.watches THEN "ok" ELSE "fail"

\* Inference and context budget are never probed since headless runs of
\* claude were given up.
CheckClaudeAuth(w) ==
    IF "claude" \notin w.path THEN "skip" ELSE IF w.mcp = "error" THEN "warn" ELSE "ok"
CheckLinearMCP(w) ==
    IF CheckClaudeAuth(w) # "ok" \/ ~w.linear THEN "skip" ELSE IF w.mcp = "linear" THEN "ok" ELSE "warn"

FindSkillsRefBin(w) == w.path \intersect {"skills-ref", "agentskills"} # {}

CheckSkillsRefToolchain(w, repair) ==
    LET installed == IF w.uvInstall = "works" THEN [w EXCEPT !.path = @ \union {"agentskills"}] ELSE w
    IN  IF FindSkillsRefBin(w) THEN [status |-> "ok", world |-> w]
        ELSE IF "uv" \notin w.path \/ w.checkout \/ ~repair THEN [status |-> "warn", world |-> w]
        ELSE [status |-> IF FindSkillsRefBin(installed) THEN "fix" ELSE "warn", world |-> installed]

\* The error of the removal is dropped: the repair is reported all the same.
CleanStalePid(w, repair) ==
    IF repair /\ w.pid = "dead"
    THEN [status |-> "fix", world |-> IF w.writable THEN [w EXCEPT !.pid = "none"] ELSE w]
    ELSE [status |-> "unasked", world |-> w]

-----------------------------------------------------------------------------
(* A run: each check sees what the repairs before it have done.  A check   *)
(* that does not apply is "unasked": it has no line in the report.         *)

Diagnosis(w, repair) ==
    LET dirs == CheckContinent(w, repair)
        skills == RepairSkills(dirs.world, repair)
        tools == CheckSkillsRefToolchain(skills.world, repair)
        pid == CleanStalePid(tools.world, repair)
    IN  [checks |-> [git |-> CheckCommand(w, "git"), claude |-> CheckCommand(w, "claude"),
                     gh |-> CheckCommand(w, "gh"), docker |-> CheckCommand(w, "docker"),
                     ghScopes |-> CheckGHScopes(w), continent |-> dirs.status, config |-> CheckConfig(w),
                     gitRepo |-> CheckGitRepo(w), gitRemote |-> CheckGitRemote(w),
                     writable |-> CheckWritability(dirs.world), skills |-> skills.status,
                     events |-> CheckEventStore(skills.world), deadLetters |-> CheckDeadLetters(w),
                     fsnotify |-> CheckFsnotify(w), claudeAuth |-> CheckClaudeAuth(w),
                     linearMCP |-> CheckLinearMCP(w), claudeInference |-> "skip", contextBudget |-> "skip",
                     skillsRef |-> tools.status, stalePid |-> pid.status],
         world |-> pid.world]

Apart == drStream = << >>

RunDoctor(repair) ==
    LET d == Diagnosis(drWorld, repair)
        failed == \E c \in DOMAIN d.checks : d.checks[c] = "fail"
    IN  /\ Apart
        /\ Len(drReports) < 2
        /\ drWorld' = d.world
        /\ drReports' = Append(drReports, [repair |-> repair, checks |-> d.checks, failed |-> failed])
        /\ UNCHANGED << drChanges, drStream >>

\* `paintress clean': the continent and everything that is kept in it.
Emptied(w) == [w EXCEPT !.dirs = {}, !.skills = << >>, !.ignore = {}, !.config = "absent",
                        !.outbox = "absent", !.events = "none", !.pid = "none"]

Clean ==
    /\ Apart
    /\ drReports # << >>
    /\ "root" \in drWorld.dirs
    /\ drWorld.writable
    /\ drWorld' = Emptied(drWorld)
    /\ drReports' = << >>
    /\ UNCHANGED << drChanges, drStream >>

-----------------------------------------------------------------------------
(* What others do to the world between two runs.                           *)

WithoutDir(w, d) ==
    IF d = "root" THEN Emptied(w)
    ELSE [w EXCEPT !.dirs = @ \ {d}, !.outbox = IF d = ".run" THEN "absent" ELSE @,
                   !.events = IF d = "events" THEN "none" ELSE @]

Machines(w) ==
    {[w EXCEPT !.path = IF c \in @ THEN @ \ {c} ELSE @ \union {c}] :
        c \in {"git", "claude", "gh", "docker", "uv", "skills-ref"}}
    \union {[w EXCEPT !.mcp = m] : m \in {"error", "other", "linear"}}
    \union {[w EXCEPT !.auth = a] : a \in {"no", "noline", "yes"}}
    \union {[w EXCEPT !.scopes = s] : s \in DrScopes}
    \union {[w EXCEPT !.git = g] : g \in {"none", "repo", "remote"}}
    \union {[w EXCEPT !.uvInstall = u] : u \in {"fails", "offpath", "works"}}
    \union {[w EXCEPT !.watches = ~@], [w EXCEPT !.checkout = ~@], [w EXCEPT !.linear = ~@],
            [w EXCEPT !.writable = ~@]}

Continents(w) ==
    {WithoutDir(w, d) : d \in w.dirs}
    \union (IF "root" \notin w.dirs THEN {}
            ELSE {[w EXCEPT !.skills = Over([k \in {s} |-> t], @)] :
                     s \in {"dmail-readable", "foreign"}, t \in {"current", "unversioned", "deprecated"}}
                 \union {[w EXCEPT !.config = c] : c \in {"bad", "good"}}
                 \union {[w EXCEPT !.pid = p] : p \in {"dead", "live", "garbled"}})
    \union (IF ".run" \in w.dirs THEN {[w EXCEPT !.outbox = o] : o \in {"unreadable", "empty", "dead"}} ELSE {})
    \union (IF "events" \in w.dirs
            THEN {[w EXCEPT !.events = e] : e \in {"clean", "corrupt", "unscannable"}} ELSE {})

WorldChanges ==
    /\ Apart
    /\ drChanges < DrChanges
    /\ drWorld' \in (Machines(drWorld) \union (IF drWorld.writable THEN Continents(drWorld) ELSE {})) \ {drWorld}
    /\ drReports' = << >>
    /\ drChanges' = drChanges + 1
    /\ UNCHANGED drStream

-----------------------------------------------------------------------------
(* The context budget.                                                     *)

\* The last init message counts, and all the hooks.
CountMessage(report, m) ==
    IF m.subtype = "init" THEN [report EXCEPT !.counts = m.counts]
    ELSE [report EXCEPT !.bytes = @ + m.bytes]

CalculateContextBudget(stream) ==
    FoldLeft(CountMessage, [counts |-> << 0, 0, 0, 0 >>, bytes |-> 0], stream)

EstimatedTokens(report) ==
    report.counts[1] * 150 + report.counts[2] * 500 + report.counts[3] * 200 + report.counts[4] * 300
        + report.bytes \div 4

BudgetItems(report) ==
    << [category |-> "tools", tokens |-> report.counts[1] * 150],
       [category |-> "skills", tokens |-> report.counts[2] * 500],
       [category |-> "plugins", tokens |-> report.counts[3] * 200],
       [category |-> "mcp_servers", tokens |-> report.counts[4] * 300],
       [category |-> "hooks", tokens |-> report.bytes \div 4] >>

\* The index of the heaviest item, 0 when all are empty.
DetailedBreakdown(report) ==
    LET items == BudgetItems(report)
        heavier(i) == \A j \in DOMAIN items : IF j < i THEN items[j].tokens < items[i].tokens
                                              ELSE items[j].tokens <= items[i].tokens
    IN  IF \A i \in DOMAIN items : items[i].tokens = 0 THEN 0
        ELSE CHOOSE i \in DOMAIN items : heavier(i)

StreamMessage ==
    /\ drWorld = NewMachine
    /\ drReports = << >>
    /\ drChanges = 0
    /\ Len(drStream) < DrMessages
    /\ \/ \E c \in DrSizes : drStream' = Append(drStream, [subtype |-> "init", counts |-> c, bytes |-> 0])
       \/ \E b \in DrBytes :
            drStream' = Append(drStream, [subtype |-> "hook_response", counts |-> << 0, 0, 0, 0 >>, bytes |-> b])
    /\ UNCHANGED << drWorld, drReports, drChanges >>

DrNext ==
    \/ \E repair \in BOOLEAN : RunDoctor(repair)
    \/ Clean
    \/ WorldChanges
    \/ StreamMessage

DrSpec == DrInit /\ [][DrNext]_drVars

-----------------------------------------------------------------------------
\* Every report gives each check that applies one of the five results.
DrTypeOK ==
    /\ drWorld.dirs \subseteq StateDirs
    /\ drChanges \in 0 .. DrChanges
    /\ Len(drReports) <= 2 /\ Len(drStream) <= DrMessages
    /\ \A i \in DOMAIN drReports : \A c \in DOMAIN drReports[i].checks :
            drReports[i].checks[c] \in {"ok", "fail", "skip", "warn", "fix", "unasked"}

\* What a run reports as fixed the next one finds in order, whether or not it
\* repairs: no repair is claimed that did not work.  (On a read-only file
\* system the stale pid file stays although its removal is reported.)
RepairHolds ==
    Len(drReports) = 2 =>
        \A c \in DOMAIN drReports[1].checks :
            drReports[1].checks[c] = "fix" =>
                \/ drReports[2].checks[c] = "ok"
                \/ c = "stalePid" /\ (drWorld.writable => drReports[2].checks[c] = "unasked")

\* A run in which nobody interferes finds no more wrong than the one before
\* it: a repair of one thing breaks no other.  Only a repair of the skills that
\* was not enough may: it reports what it found before it rewrote them, and a
\* skill it gave a version no longer hides the old kind in another.
NeverWorse ==
    LET rank(s) == CASE s \in {"ok", "fix"} -> 0 [] s = "skip" -> 1 [] s = "warn" -> 2 [] OTHER -> 3
    IN  Len(drReports) = 2 =>
            \A c \in DOMAIN drReports[1].checks :
                \/ "unasked" \in {drReports[1].checks[c], drReports[2].checks[c]}
                \/ rank(drReports[2].checks[c]) <= rank(drReports[1].checks[c])
                \/ c = "skills" /\ drReports[1].repair /\ drReports[1].checks[c] = "warn"

\* Without a repair the command exits without an error exactly when the tools
\* it cannot do without are there, files can be watched and no skill that is
\* looked at declares the old kind; a repair may hide that, never invent it.
ExitTells ==
    drReports # << >> =>
        LET texts == {drWorld.skills[s] : s \in DOMAIN drWorld.skills}
            broken == \/ ~({"git", "claude", "gh"} \subseteq drWorld.path)
                      \/ ~drWorld.watches
                      \/ "deprecated" \in texts /\ "unversioned" \notin texts
            report == Last(drReports)
        IN  (report.failed => broken) /\ (broken /\ ~report.repair => report.failed)

\* The items of the budget add up to the estimate that is compared with the
\* threshold, however often a session starts, and the one marked as heaviest is:
\* none is marked when there is nothing to count.
BudgetAddsUp ==
    LET report == CalculateContextBudget(drStream)
        items == BudgetItems(report)
        top == DetailedBreakdown(report)
    IN  /\ EstimatedTokens(report) =
               items[1].tokens + items[2].tokens + items[3].tokens + items[4].tokens + items[5].tokens
        /\ (top = 0) <=> (EstimatedTokens(report) = 0)
        /\ top # 0 => \A i \in DOMAIN items : items[i].tokens <= items[top].tokens

\* What the doctor's repairs, report and exit code promise.
DoctorSound == RepairHolds /\ NeverWorse /\ ExitTells /\ BudgetAddsUp
=============================================================================
