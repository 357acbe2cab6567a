----------------------------- MODULE Approval -----------------------------
(***************************************************************************)
(* The two places where paintress listens to the outside of an expedition: *)
(* the approval of a human (session/approve.go) and the flag file in which *)
(* a session says which issue it works on (session/flag.go,                *)
(* flag_watcher.go).  They share nothing and are explored apart.           *)
(*                                                                         *)
(* A request for approval starts a goroutine that reads the terminal one   *)
(* byte at a time.  It outlives a request that is cancelled, and then two  *)
(* goroutines read the same terminal.                                      *)
(*                                                                         *)
(* The flag is written in place: the file is truncated, then it grows, and *)
(* each step is an event for the watcher.                                  *)
(***************************************************************************)
EXTENDS Naturals, Sequences, SequencesExt

CONSTANTS ApRequest,   \* requests: a number each, in the order they are made
          ApLine,      \* lines a human types, as sequences of characters
          ApTyped,     \* bound: lines typed
          ApIssue,     \* issues a session may work on
          ApWrites     \* bound: writes of the flag

NewLine == "\n"

ASSUME ApAssumption ==
    /\ ApTyped \in Nat /\ ApWrites \in Nat
    /\ \A r \in ApRequest : r \in Nat \ {0} /\ 1 .. r \subseteq ApRequest
    /\ \A line \in ApLine : line \in Seq(STRING) /\ \A i \in DOMAIN line : line[i] # NewLine
    /\ "none" \notin ApIssue

VARIABLES apApprover,  \* the approver the configuration asks for
          apTyped,     \* the lines typed so far
          apInput,     \* the bytes that are not read yet
          apReader,    \* per request: its goroutine and what it has read
          apResult,    \* per request: what RequestApproval returned
          apFlag,      \* the flag file: current issue and title
          apWriting,   \* the issue a session is writing in the flag, and how far
          apWatch,     \* the watcher: off, added, watching
          apEvent,     \* there are events the watcher has not handled
          apNoted,     \* what it has reported
          apWrites

termVars == << apApprover, apTyped, apInput, apReader, apResult >>
flagVars == << apFlag, apWriting, apWatch, apEvent, apNoted, apWrites >>
apVars == << termVars, flagVars >>

NoFlag == [issue |-> "none", title |-> "none"]

ApInit ==
    /\ apApprover \in {"auto", "cmd", "stdin"}
    /\ apTyped = << >>
    /\ apInput = << >>
    /\ apReader = [r \in ApRequest |-> [at |-> "none", line |-> << >>]]
    /\ apResult = [r \in ApRequest |-> "none"]
    /\ apFlag \in {NoFlag} \union {[issue |-> i, title |-> i] : i \in ApIssue}
    /\ apWriting = [issue |-> "none", stage |-> "none"]
    /\ apWatch = "off"
    /\ apEvent = FALSE
    /\ apNoted = << >>
    /\ apWrites = 0

-----------------------------------------------------------------------------
(* Approval.                                                               *)

TerminalOnly == apWatch = "off" /\ apWrites = 0

Asking(r) == apResult[r] = "asking"

\* One request at a time; the answers of the other approvers come at once.
RequestApproval(r) ==
    /\ TerminalOnly
    /\ apResult[r] = "none"
    /\ \A q \in 1 .. r - 1 : apResult[q] \notin {"none", "asking"}
    /\ \/ /\ apApprover = "auto"
          /\ apResult' = [apResult EXCEPT ![r] = "approved"]
          /\ UNCHANGED apReader
       \/ /\ apApprover = "cmd"
          /\ \E answer \in {"approved", "denied", "error"} : apResult' = [apResult EXCEPT ![r] = answer]
          /\ UNCHANGED apReader
       \/ /\ apApprover = "stdin"
          /\ apResult' = [apResult EXCEPT ![r] = "asking"]
          /\ apReader' = [apReader EXCEPT ![r].at = "reading"]
    /\ UNCHANGED << apApprover, apTyped, apInput, flagVars >>

TypeLine ==
    /\ TerminalOnly
    /\ apApprover = "stdin"
    /\ Len(apTyped) < ApTyped
    /\ \E line \in ApLine : /\ apTyped' = Append(apTyped, line)
                            /\ apInput' = apInput \o Append(line, NewLine)
    /\ UNCHANGED << apApprover, apReader, apResult, flagVars >>

\* Mutant of ReadLine: a reader with a buffer takes all there is and keeps the first line.
ReadBuffered(r) ==
    /\ apReader[r].at = "reading"
    /\ apInput # << >>
    /\ apReader' = [apReader EXCEPT ![r] =
            [at |-> "done", line |-> SubSeq(apInput, 1, SelectInSeq(apInput, LAMBDA c : c = NewLine) - 1)]]
    /\ apInput' = << >>
    /\ UNCHANGED << apApprover, apTyped, apResult, flagVars >>

\* What a reader makes of a byte: the end of its line, or more of it.
WithByte(reader, c) ==
    IF c = NewLine THEN [reader EXCEPT !.at = "done"]
    ELSE [reader EXCEPT !.line = Append(reader.line, c)]

\* readLine: the goroutine of a request, whether or not anybody waits for it.
ReadLine(r) ==
    /\ apReader[r].at = "reading"
    /\ apInput # << >>
    /\ apReader' = [apReader EXCEPT ![r] = WithByte(apReader[r], Head(apInput))]
    /\ apInput' = Tail(apInput)
    /\ UNCHANGED << apApprover, apTyped, apResult, flagVars >>

\* The terminal is closed: what was read so far is the answer, if anything.
InputEnds(r) ==
    /\ apReader[r].at = "reading"
    /\ apInput = << >>
    /\ Len(apTyped) = ApTyped
    /\ apReader' = [apReader EXCEPT ![r].at = "done"]
    /\ UNCHANGED << apApprover, apTyped, apInput, apResult, flagVars >>

Approves(line) == line \in {<< "y" >>, << "y", "e", "s" >>}

Answered(r) ==
    /\ Asking(r)
    /\ apReader[r].at = "done"
    /\ apResult' = [apResult EXCEPT ![r] = IF Approves(apReader[r].line) THEN "approved" ELSE "denied"]
    /\ UNCHANGED << apApprover, apTyped, apInput, apReader, flagVars >>

\* The goroutine is not stopped: closing the terminal would break later reads.
Cancelled(r) ==
    /\ Asking(r)
    /\ apResult' = [apResult EXCEPT ![r] = "cancelled"]
    /\ UNCHANGED << apApprover, apTyped, apInput, apReader, flagVars >>

-----------------------------------------------------------------------------
(* The flag.                                                               *)

FlagOnly == apApprover = "stdin" /\ apTyped = << >> /\ \A r \in ApRequest : apResult[r] = "none"

\* A session writes its issue and its title below it; anything it replaces is
\* gone with the first step.
SessionWritesFlag ==
    /\ FlagOnly
    /\ \/ /\ apWriting.stage = "none"
          /\ apWrites < ApWrites
          /\ \E i \in ApIssue : apWriting' = [issue |-> i, stage |-> "truncated"]
          /\ apFlag' = NoFlag
          /\ apWrites' = apWrites + 1
       \/ /\ apWriting.stage = "truncated"
          /\ apWriting' = [issue |-> apWriting.issue, stage |-> "issue"]
          /\ apFlag' = [issue |-> apWriting.issue, title |-> apFlag.title]
          /\ UNCHANGED apWrites
       \/ /\ apWriting.stage = "issue"
          /\ apWriting' = [issue |-> "none", stage |-> "none"]
          /\ apFlag' = [issue |-> apFlag.issue, title |-> apWriting.issue]
          /\ UNCHANGED apWrites
    /\ apEvent' = (apWatch # "off")
    /\ UNCHANGED << termVars, apWatch, apNoted >>

\* The checkpoint after an expedition names no current issue.
WriteFlag ==
    /\ FlagOnly
    /\ apWriting.stage = "none"
    /\ apWrites < ApWrites
    /\ apFlag' = NoFlag
    /\ apWrites' = apWrites + 1
    /\ apEvent' = (apWatch # "off")
    /\ UNCHANGED << termVars, apWriting, apWatch, apNoted >>

LastNoted == IF apNoted = << >> THEN "none" ELSE Last(apNoted).issue

\* An issue is reported when it differs from the last one that was.
Noted == IF apFlag.issue \in {"none", LastNoted} THEN apNoted ELSE Append(apNoted, apFlag)

\* The directory is watched before the file is read for the first time.
AddFlagWatch ==
    /\ FlagOnly
    /\ apWatch = "off"
    /\ apWatch' = "added"
    /\ UNCHANGED << termVars, apFlag, apWriting, apEvent, apNoted, apWrites >>

FirstFlag ==
    /\ apWatch = "added"
    /\ apWatch' = "watching"
    /\ apNoted' = Noted
    /\ UNCHANGED << termVars, apFlag, apWriting, apEvent, apWrites >>

FlagEvent ==
    /\ apWatch = "watching"
    /\ apEvent
    /\ apEvent' = FALSE
    /\ apNoted' = Noted
    /\ UNCHANGED << termVars, apFlag, apWriting, apWatch, apWrites >>

ApNext ==
    \/ \E r \in ApRequest : \/ RequestApproval(r) \/ ReadLine(r) \/ InputEnds(r)
                            \/ Answered(r) \/ Cancelled(r)
    \/ TypeLine
    \/ SessionWritesFlag
    \/ WriteFlag
    \/ AddFlagWatch
    \/ FirstFlag
    \/ FlagEvent

ApSpec == ApInit /\ [][ApNext]_apVars

-----------------------------------------------------------------------------
\* Every variable has its type.
ApTypeOK ==
    /\ apTyped \in Seq(ApLine) /\ Len(apTyped) <= ApTyped
    /\ \A r \in ApRequest : apResult[r] \in {"none", "asking", "approved", "denied", "cancelled", "error"}
    /\ apWatch \in {"off", "added", "watching"}
    /\ apWrites \in 0 .. ApWrites

\* As long as no request is cancelled the lines are the answers in their
\* order: no reader takes a byte of the next answer.
AnswersInOrder ==
    \A r \in ApRequest :
        (apApprover = "stdin" /\ \A q \in 1 .. r : apResult[q] # "cancelled") =>
            /\ apResult[r] = "approved" => r \in DOMAIN apTyped /\ Approves(apTyped[r])
            /\ apResult[r] = "denied" => r \notin DOMAIN apTyped \/ ~Approves(apTyped[r])

\* The readers of cancelled requests eat answers, or halves of them; still no
\* more is approved than was typed as an approval, as long as nothing else that
\* was typed has a "y" that a half of it could end or begin with.
NoApprovalInvented ==
    LET yes == {i \in DOMAIN apTyped : Approves(apTyped[i])}
    IN  (apApprover = "stdin" /\ \A i \in DOMAIN apTyped : "y" \in ToSet(apTyped[i]) => i \in yes) =>
            \E f \in [{r \in ApRequest : apResult[r] = "approved"} -> DOMAIN apTyped] :
                \A r, q \in DOMAIN f : f[r] \in yes /\ (f[r] = f[q] => r = q)

\* When the watcher has handled its events and nobody is writing, it has
\* reported the issue that is in the flag.
NoIssueMissed ==
    (apWatch = "watching" /\ ~apEvent /\ apWriting.stage = "none" /\ apFlag.issue # "none") =>
        LastNoted = apFlag.issue

\* An issue is never reported twice in a row, and no title is reported that
\* belongs to another issue; read between two steps of a write it is none.
ReportsAreWhole ==
    \A i \in DOMAIN apNoted :
        /\ apNoted[i].title \in {"none", apNoted[i].issue}
        /\ i > 1 => apNoted[i].issue # apNoted[i - 1].issue

\* What the approver answers.
AnswersSound == AnswersInOrder /\ NoApprovalInvented

\* What the flag watcher reports.
FlagSound == NoIssueMissed /\ ReportsAreWhole
=============================================================================
