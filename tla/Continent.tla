----------------------------- MODULE Continent -----------------------------
(***************************************************************************)
(* What `paintress init' and `doctor --repair' put below .expedition/ (the *)
(* continent): the directories, the two skills of paintress and the lines  *)
(* of .gitignore.  A continent is a record                                 *)
(*   dirs      the directories that exist ("root" is .expedition itself),  *)
(*   skills    the SKILL.md files, by the directory they are in: "current" *)
(*             is the text of the template, "unversioned" lacks the schema *)
(*             version, "deprecated" has the version and declares the old  *)
(*             kind,                                                       *)
(*   ignore    the lines of .gitignore: an entry and what a user wrote in  *)
(*             front of it ("#" or "!"),                                   *)
(*   writable  FALSE on a read-only file system.                           *)
(***************************************************************************)
EXTENDS FiniteSets

StateDirs == {"root", ".run", "events", "insights", "inbox", "outbox", "archive", "journal"}

IgnoredEntries == {".run/", "inbox/", "outbox/", "archive/", "insights/", ".otel.env", "events/",
                   ".mcp.json", ".claude/"}

OwnSkills == {"dmail-sendable", "dmail-readable"}

NoContinent == [dirs |-> {}, skills |-> << >>, ignore |-> {}, writable |-> TRUE]

\* What is given wins over what is below.
Over(given, below) ==
    [k \in DOMAIN given \union DOMAIN below |-> IF k \in DOMAIN given THEN given[k] ELSE below[k]]

\* The directories that are missing are made.
EnsureStateDir(w) == [w EXCEPT !.dirs = @ \union StateDirs]

\* Files of other tools stay; a file of paintress that differs from its
\* template is replaced.
SyncSkills(w) == [w EXCEPT !.skills = Over([s \in OwnSkills |-> "current"], @)]

\* An entry is appended unless the file holds its text somewhere, whatever
\* stands around it.
EnsureGitignoreEntries(w) ==
    LET mentioned == {l.entry : l \in w.ignore}
    IN  [w EXCEPT !.ignore = @ \union {[mark |-> "", entry |-> e] : e \in IgnoredEntries \ mentioned}]

Validated(w) == EnsureGitignoreEntries(SyncSkills(EnsureStateDir(w)))

\* Where nothing can be written the first write that is needed is the error.
ValidateContinent(w) ==
    IF w.writable \/ Validated(w) = w
    THEN [ok |-> TRUE, world |-> Validated(w)]
    ELSE [ok |-> FALSE, world |-> w]
=============================================================================
