------------------------------ MODULE ArchivePrune ------------------------------
(***************************************************************************)
(* paintress archive-prune --execute deletes expired d-mails from archive/ *)
(* and expired day files of the event log, and records the d-mails in      *)
(* archive/index.jsonl first; paintress archive-prune --rebuild-index      *)
(* writes the index anew.  Several of these commands may run at once, and  *)
(* MCP sessions write to archive/ and to the event log all the while.  The *)
(* index is protected by a file lock, the two directories by nothing.      *)
(***************************************************************************)
EXTENDS Integers

CONSTANTS Proc,     \* processes that run archive-prune
          File,     \* names of d-mails
          Days,     \* --days
          MaxTime,  \* bound on the clock
          None

Day   == 0 .. MaxTime
Found == [file : File, at : Nat]

ASSUME ArchivePruneAssumption ==
  /\ Days \in Nat \ {0}
  /\ MaxTime \in Nat
  /\ None \notin Nat \cup Proc \cup Found

VARIABLES
  now,      \* the clock, in days
  archive,  \* per name: modification time of the file in archive/, or None
  events,   \* per day: modification time of its event file, or None
  lines,    \* files with an entry in index.jsonl
  glued,    \* files whose entry was appended to a partial line
  torn,     \* index.jsonl ends in a partial line
  lock,     \* who holds index.jsonl.lock, or None
  pc,       \* where each process is in the command
  json,     \* per process: --output json
  listed,   \* per process: the candidates of its first scan of archive/
  old,      \* per process: expired event files it has still to delete
  started,  \* per process: when its second scan computed the threshold
  todo,     \* per process: directory entries its second scan has still to see
  cur,      \* per process: the file found expired, about to be removed
  walk,     \* per process: the files a rebuild has found
  warned,   \* per process: its append to the index failed
  assured,  \* history: candidates it has indexed and nobody removed since
  pruned    \* history: files deleted by runs whose append succeeded

dirVars   == <<now, archive, events>>
indexVars == <<lines, glued, torn>>
listVars  == <<json, listed, old>>
scanVars  == <<started, todo, cur>>
localVars == <<pc, listVars, scanVars, walk, warned>>
history   == <<assured, pruned>>
vars == <<dirVars, indexVars, lock, localVars, history>>

PC == {"idle", "events", "confirm", "index", "scan", "examine", "remove", "prune", "rename"}

Init ==
  /\ now = 0
  /\ archive = [f \in File |-> None]
  /\ events = [d \in Day |-> None]
  /\ lines = {}
  /\ glued = {}
  /\ torn = FALSE
  /\ lock = None
  /\ pc = [p \in Proc |-> "idle"]
  /\ json = [p \in Proc |-> FALSE]
  /\ listed = [p \in Proc |-> {}]
  /\ old = [p \in Proc |-> {}]
  /\ started = [p \in Proc |-> 0]
  /\ todo = [p \in Proc |-> {}]
  /\ cur = [p \in Proc |-> None]
  /\ walk = [p \in Proc |-> {}]
  /\ warned = [p \in Proc |-> FALSE]
  /\ assured = [p \in Proc |-> {}]
  /\ pruned = {}

-----------------------------------------------------------------------------
\* The sessions.

Tick ==
  /\ now < MaxTime
  /\ now' = now + 1
  /\ UNCHANGED <<archive, events, indexVars, lock, localVars, history>>

\* A flush copies a d-mail to archive/.
ArchiveCopy(f) ==
  /\ archive' = [archive EXCEPT ![f] = now]
  /\ UNCHANGED <<now, events, indexVars, lock, localVars, history>>

\* ArchiveInboxDMail renames the file out of inbox/: it keeps the time at
\* which the courier wrote it.
ArchiveInbox(f) ==
  /\ \E at \in 0 .. now : archive' = [archive EXCEPT ![f] = at]
  /\ UNCHANGED <<now, events, indexVars, lock, localVars, history>>

\* An event goes to the file of the day it was made, today or, about
\* midnight, the day before.
AppendEvent(d) ==
  /\ d \in {now, now - 1}
  /\ events' = [events EXCEPT ![d] = now]
  /\ UNCHANGED <<now, archive, indexVars, lock, localVars, history>>

-----------------------------------------------------------------------------
\* archive-prune --execute.

Goto(p, label) == pc' = [pc EXCEPT ![p] = label]

\* The command returns or its process dies.
Ends(p) ==
  /\ Goto(p, "idle")
  /\ json' = [json EXCEPT ![p] = FALSE]
  /\ listed' = [listed EXCEPT ![p] = {}]
  /\ old' = [old EXCEPT ![p] = {}]
  /\ started' = [started EXCEPT ![p] = 0]
  /\ todo' = [todo EXCEPT ![p] = {}]
  /\ cur' = [cur EXCEPT ![p] = None]
  /\ walk' = [walk EXCEPT ![p] = {}]
  /\ warned' = [warned EXCEPT ![p] = FALSE]
  /\ assured' = [assured EXCEPT ![p] = {}]
  /\ UNCHANGED pruned

\* info.ModTime().Before(threshold)
Expired(at, t) == at + Days < t

ExpiredFiles  == {f \in File : archive[f] # None /\ Expired(archive[f], now)}

\* Mutant of ExpiredEvents: every file but the one of today.
ExpiredEventsButToday == {d \in Day : events[d] # None /\ d # now}

\* ListExpiredEventFiles
ExpiredEvents == {d \in Day : events[d] # None /\ Expired(events[d], now)}

\* The dry run that lists the candidates.
ListArchive(p) ==
  /\ pc[p] = "idle"
  /\ \E j \in BOOLEAN : json' = [json EXCEPT ![p] = j]
  /\ listed' = [listed EXCEPT ![p] = ExpiredFiles]
  /\ Goto(p, "events")
  /\ UNCHANGED <<dirVars, indexVars, lock, old, scanVars, walk, warned, history>>

\* With --output json nothing is asked; else the command asks for confirmation
\* when there is a candidate,
ListEvents(p) ==
  /\ pc[p] = "events"
  /\ json[p] \/ listed[p] \cup ExpiredEvents # {}
  /\ old' = [old EXCEPT ![p] = ExpiredEvents]
  /\ Goto(p, IF json[p] THEN "index" ELSE "confirm")
  /\ UNCHANGED <<dirVars, indexVars, lock, json, listed, scanVars, walk, warned, history>>

\* and ends when there is none.
NothingExpired(p) ==
  /\ pc[p] = "events"
  /\ ~json[p] /\ listed[p] \cup ExpiredEvents = {}
  /\ Ends(p)
  /\ UNCHANGED <<dirVars, indexVars, lock>>

\* Answered y, or -y was given;
Confirm(p) ==
  /\ pc[p] = "confirm"
  /\ Goto(p, "index")
  /\ UNCHANGED <<dirVars, indexVars, lock, listVars, scanVars, walk, warned, history>>

Cancel(p) == pc[p] = "confirm" /\ Ends(p) /\ UNCHANGED <<dirVars, indexVars, lock>>

\* Entries are appended; the first is lost behind a partial line.
Lines(S) ==
  IF torn /\ S # {}
  THEN \E f \in S : glued' = glued \cup {f} /\ lines' = lines \cup (S \ {f})
  ELSE lines' = lines \cup S /\ UNCHANGED glued

\* A write that fails or is cut off by the death of the process.
LinesCut(S) ==
  \E part \in SUBSET S :
    /\ Lines(part)
    /\ torn' \in {torn /\ part = {}, TRUE}

\* With a text output the second scan is left out when the first found
\* nothing.
AfterIndex(p) == IF json[p] \/ listed[p] # {} THEN "scan" ELSE "prune"

\* IndexWriter.Append, in one step under the lock.  Its failure is a warning.
AppendIndex(p) ==
  /\ pc[p] = "index"
  /\ listed[p] # {} => lock = None
  /\ \/ /\ Lines(listed[p])
        /\ torn' = (torn /\ listed[p] = {})
        /\ assured' = [assured EXCEPT ![p] = {f \in listed[p] : archive[f] # None}]
        /\ UNCHANGED warned
     \/ /\ listed[p] # {}
        /\ LinesCut(listed[p])
        /\ warned' = [warned EXCEPT ![p] = TRUE]
        /\ assured' = [assured EXCEPT ![p] = {}]
  /\ Goto(p, AfterIndex(p))
  /\ UNCHANGED <<dirVars, lock, listVars, scanVars, walk, pruned>>

\* The scan that deletes: ReadDir, then the threshold.
ScanArchive(p) ==
  /\ pc[p] = "scan"
  /\ todo' = [todo EXCEPT ![p] = {f \in File : archive[f] # None}]
  /\ started' = [started EXCEPT ![p] = now]
  /\ Goto(p, "examine")
  /\ UNCHANGED <<dirVars, indexVars, lock, listVars, cur, walk, warned, history>>

ScanFails(p) == pc[p] = "scan" /\ Ends(p) /\ UNCHANGED <<dirVars, indexVars, lock>>

\* Mutant of Examine: the error of Info, the file being gone, is ignored.
ExamineGone(p, f) ==
  /\ pc[p] = "examine"
  /\ f \in todo[p]
  /\ todo' = [todo EXCEPT ![p] = @ \ {f}]
  /\ IF archive[f] = None \/ Expired(archive[f], started[p])
     THEN /\ cur' = [cur EXCEPT ![p] = [file |-> f, at |-> archive[f]]]
          /\ Goto(p, "remove")
     ELSE UNCHANGED <<cur, pc>>
  /\ UNCHANGED <<dirVars, indexVars, lock, listVars, started, walk, warned, history>>

\* Mutant of Examine: what was listed as expired is not looked at again.
ExamineListed(p, f) ==
  /\ pc[p] = "examine"
  /\ f \in todo[p]
  /\ todo' = [todo EXCEPT ![p] = @ \ {f}]
  /\ IF archive[f] # None /\ (f \in listed[p] \/ Expired(archive[f], started[p]))
     THEN /\ cur' = [cur EXCEPT ![p] = [file |-> f, at |-> archive[f]]]
          /\ Goto(p, "remove")
     ELSE UNCHANGED <<cur, pc>>
  /\ UNCHANGED <<dirVars, indexVars, lock, listVars, started, walk, warned, history>>

\* The modification time of one entry is read; a file that is gone is skipped.
Examine(p, f) ==
  /\ pc[p] = "examine"
  /\ f \in todo[p]
  /\ todo' = [todo EXCEPT ![p] = @ \ {f}]
  /\ IF archive[f] # None /\ Expired(archive[f], started[p])
     THEN /\ cur' = [cur EXCEPT ![p] = [file |-> f, at |-> archive[f]]]
          /\ Goto(p, "remove")
     ELSE UNCHANGED <<cur, pc>>
  /\ UNCHANGED <<dirVars, indexVars, lock, listVars, started, walk, warned, history>>

\* os.Remove, which may fail.
RemoveFile(p) ==
  /\ pc[p] = "remove"
  /\ \/ /\ archive' = [archive EXCEPT ![cur[p].file] = None]
        /\ assured' = [q \in Proc |-> assured[q] \ {cur[p].file}]
        /\ pruned' = IF archive[cur[p].file] = None \/ warned[p] THEN pruned
                     ELSE pruned \cup {cur[p].file}
     \/ UNCHANGED <<archive, assured, pruned>>
  /\ cur' = [cur EXCEPT ![p] = None]
  /\ Goto(p, "examine")
  /\ UNCHANGED <<now, events, indexVars, lock, listVars, started, todo, walk, warned>>

ScanEnds(p) ==
  /\ pc[p] = "examine"
  /\ todo[p] = {}
  /\ Goto(p, "prune")
  /\ UNCHANGED <<dirVars, indexVars, lock, listVars, scanVars, walk, warned, history>>

\* PruneEventFiles deletes the files listed before,
RemoveEvents(p, d) ==
  /\ pc[p] = "prune"
  /\ d \in old[p]
  /\ events' = [events EXCEPT ![d] = None]
  /\ old' = [old EXCEPT ![p] = @ \ {d}]
  /\ UNCHANGED <<now, archive, indexVars, lock, pc, json, listed, scanVars, walk,
                 warned, history>>

\* until one cannot be deleted, or none is left.  A text output ends with
\* PruneFlushed of module Outbox, which shares no state with this one.
PruneEnds(p) == pc[p] = "prune" /\ Ends(p) /\ UNCHANGED <<dirVars, indexVars, lock>>

-----------------------------------------------------------------------------
\* archive-prune --rebuild-index.

\* Mutant of Rebuild: the lock is taken by Append only.
RebuildUnlocked(p) ==
  /\ pc[p] = "idle"
  /\ walk' = [walk EXCEPT ![p] = {f \in File : archive[f] # None}]
  /\ Goto(p, "rename")
  /\ UNCHANGED <<dirVars, indexVars, lock, listVars, scanVars, warned, history>>

\* Rebuild takes the lock and walks the directories.
Rebuild(p) ==
  /\ pc[p] = "idle"
  /\ lock = None
  /\ lock' = p
  /\ walk' = [walk EXCEPT ![p] = {f \in File : archive[f] # None}]
  /\ Goto(p, "rename")
  /\ UNCHANGED <<dirVars, indexVars, listVars, scanVars, warned, history>>

\* A new index replaces the old one, or an error leaves it; the lock is
\* released.
RenameIndex(p) ==
  /\ pc[p] = "rename"
  /\ \/ lines' = walk[p] /\ glued' = {} /\ torn' = FALSE
     \/ UNCHANGED indexVars
  /\ lock' = None
  /\ Ends(p)
  /\ UNCHANGED dirVars

-----------------------------------------------------------------------------
\* The process dies, perhaps in the middle of an append, or gives up with an
\* error before it has changed anything; its lock is released.
Die(p) ==
  /\ pc[p] # "idle"
  /\ \/ pc[p] = "index" /\ listed[p] # {} /\ lock = None /\ LinesCut(listed[p])
     \/ UNCHANGED indexVars
  /\ lock' = IF lock = p THEN None ELSE lock
  /\ Ends(p)
  /\ UNCHANGED dirVars

Sessions ==
  \/ Tick
  \/ \E f \in File : ArchiveCopy(f) \/ ArchiveInbox(f)
  \/ \E d \in Day : AppendEvent(d)

Command(p) ==
  \/ ListArchive(p) \/ ListEvents(p) \/ NothingExpired(p)
  \/ Confirm(p) \/ Cancel(p) \/ AppendIndex(p)
  \/ ScanArchive(p) \/ ScanFails(p) \/ (\E f \in File : Examine(p, f)) \/ RemoveFile(p) \/ ScanEnds(p)
  \/ (\E d \in Day : RemoveEvents(p, d)) \/ PruneEnds(p)
  \/ Rebuild(p) \/ RenameIndex(p)

Next == Sessions \/ \E p \in Proc : Command(p) \/ Die(p)

Spec == Init /\ [][Next]_vars

-----------------------------------------------------------------------------
TypeOK ==
  /\ now \in Nat
  /\ archive \in [File -> Nat \cup {None}]
  /\ events \in [Day -> Nat \cup {None}]
  /\ lines \subseteq File
  /\ glued \subseteq File
  /\ torn \in BOOLEAN
  /\ lock \in Proc \cup {None}
  /\ pc \in [Proc -> PC]
  /\ json \in [Proc -> BOOLEAN]
  /\ listed \in [Proc -> SUBSET File]
  /\ old \in [Proc -> SUBSET Day]
  /\ started \in [Proc -> Nat]
  /\ todo \in [Proc -> SUBSET File]
  /\ cur \in [Proc -> Found \cup {None}]
  /\ walk \in [Proc -> SUBSET File]
  /\ warned \in [Proc -> BOOLEAN]
  /\ assured \in [Proc -> SUBSET File]
  /\ pruned \subseteq File

Removed(f) == archive[f] # None /\ archive'[f] = None

\* Only expired d-mails are deleted, however long the command runs, unless the
\* file was replaced between the look at its modification time and its removal.
KeepsYoung ==
  [][\A f \in File : Removed(f) =>
       \/ archive[f] + Days < now
       \/ \E p \in Proc : pc[p] = "remove" /\ cur[p].file = f /\ archive[f] # cur[p].at]_vars

\* A candidate that a run has indexed has its entry in the index when it is
\* deleted, whatever rebuilds and other prunes did to the index meanwhile,
\* unless the entry was lost behind a partial line.
IndexedBeforeDeleted ==
  [][\A f \in File : Removed(f) =>
       \/ f \in lines \cup glued
       \/ \E p \in Proc : pc[p] = "remove" /\ cur[p].file = f /\ f \notin assured[p]]_vars

\* No event is deleted before its time although the list of event files is
\* made before the question is asked, and sessions go on appending.
EventsKept ==
  [][\A d \in Day : events[d] # None /\ events'[d] = None => events[d] + Days < now]_vars

\* docs/expedition-directory.md: "index.jsonl records metadata of pruned
\* files", by archive-prune --execute "(before deletion)".
PrunedAreIndexed == pruned \subseteq lines \cup glued

\* What makes these inductive.
ScanInv ==
  \A p \in Proc :
    /\ started[p] <= now
    /\ pc[p] = "remove" => cur[p] # None /\ cur[p].at + Days < now

\* A rebuild between its walk and the renaming holds the lock, so it has seen
\* what was appended before; what it has not seen is not yet in the index.
IndexInv ==
  /\ \A q \in Proc : pc[q] = "rename" => lock = q
  /\ \A p \in Proc : \A f \in assured[p] :
       /\ archive[f] # None
       /\ f \in lines \cup glued
       /\ \A q \in Proc : pc[q] = "rename" => f \in walk[q]

\* An event file listed as expired is of a day that sessions no longer append
\* to.
EventsInv ==
  /\ \A d \in Day : events[d] # None => d <= events[d]
  /\ \A p \in Proc : \A d \in old[p] :
       d + Days < now /\ (events[d] # None => events[d] + Days < now)

PruneInv == TypeOK /\ ScanInv /\ IndexInv /\ EventsInv

=============================================================================
