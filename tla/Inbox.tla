-------------------------------- MODULE Inbox --------------------------------
(***************************************************************************)
(* The inbox of one process.  The courier puts d-mails into inbox/ at any  *)
(* time, by rename or by writing them in place.  A monitor lists what is   *)
(* there and then follows the notifications of the file system, either     *)
(* into a channel (MonitorInbox) or into a callback (watchInbox).  Workers *)
(* take d-mails from the channel or from a scan and move them to archive/. *)
(***************************************************************************)
EXTENDS Integers, Sequences, FiniteSets, SequencesExt

CONSTANTS InMail,     \* names of d-mails
          InWorker,   \* workers of the process
          InSlack,    \* places of the channel besides those of the initial d-mails (8)
          InVersions, \* bound: how often a d-mail of one name is delivered
          InNoMail

ASSUME InboxAssumption ==
  /\ InSlack \in Nat /\ InVersions \in Nat /\ IsFiniteSet(InWorker)
  /\ InNoMail \notin InMail

VARIABLES
  inFile,    \* per name: the file in inbox/ is absent, being written, or whole
  inVersion, \* per name: version of its last content
  inArchive, \* names of the files in archive/
  inMode,    \* MonitorInbox ("channel") or watchInbox ("callback")
  inMon,     \* what the monitor does
  inTodo,    \* directory entries the initial scan has still to read
  inNotes,   \* notifications not handled yet: names of created or written files
  inChan,    \* the channel: [mail, version]; a version 0 stands for a truncated text
  inCap,     \* its capacity
  inHeld,    \* the d-mail the monitor is about to send, as a sequence
  inSeen,    \* history, per name: latest version that a receiver got whole
  inPc,      \* what each worker does
  inName,    \* per worker: the d-mail it archives
  inMoves,   \* history, per name: renames into archive/
  inEmits    \* history, per name: events dmail.archived

inFiles   == <<inFile, inVersion>>
inMonitor == <<inMode, inMon, inTodo, inNotes, inChan, inCap, inHeld>>
inWork    == <<inPc, inName>>
inCounts  == <<inMoves, inEmits>>
inVars    == <<inFiles, inArchive, inMonitor, inSeen, inWork, inCounts>>

InMonPc == {"off", "list", "read", "watch", "closed"}

InInit ==
  /\ inFile = [m \in InMail |-> "absent"]
  /\ inVersion = [m \in InMail |-> 0]
  /\ inArchive = {}
  /\ inMode = "channel"
  /\ inMon = "off"
  /\ inTodo = {}
  /\ inNotes = << >>
  /\ inChan = << >>
  /\ inCap = 0
  /\ inHeld = << >>
  /\ inSeen = [m \in InMail |-> 0]
  /\ inPc = [w \in InWorker |-> "idle"]
  /\ inName = [w \in InWorker |-> InNoMail]
  /\ inMoves = [m \in InMail |-> 0]
  /\ inEmits = [m \in InMail |-> 0]

\* Mutant of Notify: the watcher is added after the initial scan.
NotifyAfterScan(m) == inNotes' = IF inMon = "watch" THEN Append(inNotes, m) ELSE inNotes

\* fsnotify tells of a file created or written once the directory is watched.
Notify(m) ==
  inNotes' = IF inMon \in {"list", "read", "watch"} THEN Append(inNotes, m) ELSE inNotes

InboxHolds(m, state) == inFile' = [inFile EXCEPT ![m] = state]

\* A file arrives under its name at once, over an earlier one or not, or begins to.
CourierStarts(m) ==
  /\ inVersion[m] < InVersions  \* bound
  /\ inFile[m] # "part"
  /\ \E state \in {"part", "whole"} : InboxHolds(m, state)
  /\ inVersion' = [inVersion EXCEPT ![m] = @ + 1]
  /\ Notify(m)
  /\ UNCHANGED <<inArchive, inMode, inMon, inTodo, inChan, inCap, inHeld, inSeen, inWork, inCounts>>

\* The rest of a file is written.
CourierEnds(m) ==
  /\ inFile[m] = "part"
  /\ InboxHolds(m, "whole")
  /\ Notify(m)
  /\ UNCHANGED <<inVersion, inArchive, inMode, inMon, inTodo, inChan, inCap, inHeld, inSeen,
                 inWork, inCounts>>

\* What reading and parsing the file of m may give: nothing when it is gone, an
\* error or a truncated text while it is being written.
Parsed(m) ==
  CASE inFile[m] = "absent" -> {<< >>}
    [] inFile[m] = "part"   -> {<< >>, <<[mail |-> m, version |-> 0]>>}
    [] inFile[m] = "whole"  -> {<<[mail |-> m, version |-> inVersion[m]]>>}

\* Somebody has got d-mail d.
Got(d) == inSeen' = IF d.version = 0 THEN inSeen ELSE [inSeen EXCEPT ![d.mail] = d.version]

\* MonitorInbox or watchInbox: watcher.Add.
AddWatch ==
  /\ inMon = "off"
  /\ inMode' \in {"channel", "callback"}
  /\ inMon' = "list"
  /\ UNCHANGED <<inFiles, inArchive, inTodo, inNotes, inChan, inCap, inHeld, inSeen, inWork,
                 inCounts>>

\* os.ReadDir.
ReadInboxDir ==
  /\ inMon = "list"
  /\ inTodo' = {m \in InMail : inFile[m] # "absent"}
  /\ inMon' = "read"
  /\ UNCHANGED <<inFiles, inArchive, inMode, inNotes, inChan, inCap, inHeld, inSeen, inWork,
                 inCounts>>

\* MonitorInbox collects the d-mails that are there ...
DrainFile(m) ==
  /\ inMon = "read" /\ inMode = "channel"
  /\ m \in inTodo
  /\ inTodo' = inTodo \ {m}
  /\ \E got \in Parsed(m) : inChan' = inChan \o got
  /\ UNCHANGED <<inFiles, inArchive, inMode, inMon, inNotes, inCap, inHeld, inSeen, inWork,
                 inCounts>>

\* ... makes the channel large enough for them and follows the notifications.
MakeChannel ==
  /\ inMon = "read" /\ inMode = "channel"
  /\ inTodo = {}
  /\ inCap' = Len(inChan) + InSlack
  /\ inMon' = "watch"
  /\ UNCHANGED <<inFiles, inArchive, inMode, inTodo, inNotes, inChan, inHeld, inSeen, inWork,
                 inCounts>>

\* A notification: the file is read; a d-mail is sent, or the monitor waits until it can be.
HandleNote ==
  /\ inMon = "watch" /\ inMode = "channel"
  /\ inNotes # << >> /\ inHeld = << >>
  /\ inNotes' = Tail(inNotes)
  /\ inHeld' \in Parsed(Head(inNotes))
  /\ UNCHANGED <<inFiles, inArchive, inMode, inMon, inTodo, inChan, inCap, inSeen, inWork,
                 inCounts>>

SendHeld ==
  /\ inMon = "watch"
  /\ inHeld # << >>
  /\ Len(inChan) < inCap
  /\ inChan' = inChan \o inHeld
  /\ inHeld' = << >>
  /\ UNCHANGED <<inFiles, inArchive, inMode, inMon, inTodo, inNotes, inCap, inSeen, inWork,
                 inCounts>>

\* watchInbox calls back for every d-mail that is there ...
CallBackFile(m) ==
  /\ inMon = "read" /\ inMode = "callback"
  /\ m \in inTodo
  /\ inTodo' = inTodo \ {m}
  /\ \E got \in Parsed(m) : IF got = << >> THEN UNCHANGED inSeen ELSE Got(got[1])
  /\ inMon' = IF inTodo' = {} THEN "watch" ELSE "read"
  /\ UNCHANGED <<inFiles, inArchive, inMode, inNotes, inChan, inCap, inHeld, inWork, inCounts>>

\* ... says that it is ready when there is none (left) ...
NothingThere ==
  /\ inMon = "read" /\ inMode = "callback"
  /\ inTodo = {}
  /\ inMon' = "watch"
  /\ UNCHANGED <<inFiles, inArchive, inMode, inTodo, inNotes, inChan, inCap, inHeld, inSeen,
                 inWork, inCounts>>

\* ... and calls back for every d-mail it is notified of.
CallBackNote ==
  /\ inMon = "watch" /\ inMode = "callback"
  /\ inNotes # << >>
  /\ inNotes' = Tail(inNotes)
  /\ \E got \in Parsed(Head(inNotes)) : IF got = << >> THEN UNCHANGED inSeen ELSE Got(got[1])
  /\ UNCHANGED <<inFiles, inArchive, inMode, inMon, inTodo, inChan, inCap, inHeld, inWork,
                 inCounts>>

\* The context is cancelled, or inbox/ cannot be read: the channel is closed.
\* What is in it can still be received; what was held is dropped.
MonitorEnds ==
  /\ inMon \in {"list", "read", "watch"}
  /\ inMon' = "closed"
  /\ inTodo' = {} /\ inNotes' = << >> /\ inHeld' = << >>
  /\ inChan' = IF inMon = "watch" THEN inChan ELSE << >>
  /\ UNCHANGED <<inFiles, inArchive, inMode, inCap, inSeen, inWork, inCounts>>

WorkerGoes(w, to, m) ==
  /\ inPc' = [inPc EXCEPT ![w] = to]
  /\ inName' = [inName EXCEPT ![w] = m]

\* WaitForDMail, when a d-mail arrives; on a timeout, a cancelled context or a
\* closed channel it returns nothing.
WaitForDMail(w) ==
  /\ inPc[w] = "idle"
  /\ inMon \in {"watch", "closed"}
  /\ inChan # << >>
  /\ Got(Head(inChan))
  /\ WorkerGoes(w, "rename", Head(inChan).mail)
  /\ inChan' = Tail(inChan)
  /\ UNCHANGED <<inFiles, inArchive, inMode, inMon, inTodo, inNotes, inCap, inHeld, inCounts>>

\* ScanInbox gives every d-mail of inbox/, or an error if one of them cannot be
\* parsed; one of them is worked on.
ScanInbox(w) ==
  /\ inPc[w] = "idle"
  /\ \A m \in InMail : << >> \notin Parsed(m) \/ inFile[m] = "absent"
  /\ \E m \in InMail :
       /\ inFile[m] = "whole"
       /\ Got([mail |-> m, version |-> inVersion[m]])
       /\ WorkerGoes(w, "rename", m)
  /\ UNCHANGED <<inFiles, inArchive, inMonitor, inCounts>>

\* ArchiveInboxDMail: os.Rename.  When the file is gone, somebody else has moved
\* it, which is no error, or there was none, which is one: no event either way.
RenameToArchive(w) ==
  /\ inPc[w] = "rename"
  /\ LET m == inName[w] IN
       IF inFile[m] = "absent"
       THEN /\ WorkerGoes(w, "idle", InNoMail)
            /\ UNCHANGED <<inFiles, inArchive, inMoves>>
       ELSE /\ WorkerGoes(w, "emit", m)
            /\ InboxHolds(m, "absent")
            /\ inArchive' = inArchive \cup {m}
            /\ inMoves' = [inMoves EXCEPT ![m] = @ + 1]
            /\ UNCHANGED inVersion
  /\ UNCHANGED <<inMonitor, inSeen, inEmits>>

\* EmitDMailArchived, which may fail: nobody tries again.
EmitArchived(w) ==
  /\ inPc[w] = "emit"
  /\ \E ok \in BOOLEAN :
       inEmits' = IF ok THEN [inEmits EXCEPT ![inName[w]] = @ + 1] ELSE inEmits
  /\ WorkerGoes(w, "idle", InNoMail)
  /\ UNCHANGED <<inFiles, inArchive, inMonitor, inSeen, inMoves>>

\* The process dies, and another begins anew.
InboxDie ==
  /\ inMon # "off"
  /\ inMode' = "channel" /\ inMon' = "off"
  /\ inTodo' = {} /\ inNotes' = << >> /\ inChan' = << >> /\ inCap' = 0 /\ inHeld' = << >>
  /\ inPc' = [w \in InWorker |-> "idle"]
  /\ inName' = [w \in InWorker |-> InNoMail]
  /\ UNCHANGED <<inFiles, inArchive, inSeen, inCounts>>

InNext ==
  \/ \E m \in InMail : CourierStarts(m) \/ CourierEnds(m) \/ DrainFile(m) \/ CallBackFile(m)
  \/ AddWatch \/ ReadInboxDir \/ MakeChannel \/ HandleNote \/ SendHeld
  \/ NothingThere \/ CallBackNote \/ MonitorEnds
  \/ \E w \in InWorker :
       WaitForDMail(w) \/ ScanInbox(w) \/ RenameToArchive(w) \/ EmitArchived(w)
  \/ InboxDie

InSpec == InInit /\ [][InNext]_inVars

-----------------------------------------------------------------------------
\* Every variable has its type.
InTypeOK ==
  LET Item == [mail : InMail, version : 0 .. InVersions] IN
    /\ inFile \in [InMail -> {"absent", "part", "whole"}]
    /\ inVersion \in [InMail -> 0 .. InVersions]
    /\ inArchive \subseteq InMail
    /\ inMode \in {"channel", "callback"}
    /\ inMon \in InMonPc
    /\ inTodo \subseteq InMail
    /\ inNotes \in Seq(InMail)
    /\ inChan \in Seq(Item)
    /\ inCap \in Nat
    /\ inHeld \in {<< >>} \cup {<<d>> : d \in Item}
    /\ inSeen \in [InMail -> 0 .. InVersions]
    /\ inPc \in [InWorker -> {"idle", "rename", "emit"}]
    /\ inName \in [InWorker -> InMail \cup {InNoMail}]
    /\ inMoves \in [InMail -> Nat]
    /\ inEmits \in [InMail -> Nat]

\* The present content of every whole file in inbox/ has reached a receiver or is
\* on its way: to be read by the scan, notified, held or in the channel.  So a
\* file that comes between the watch, the listing and the loop is not overlooked.
NothingOverlooked ==
  inMon \in {"read", "watch"} =>
    \A m \in InMail :
      inFile[m] = "whole" =>
        \/ inSeen[m] = inVersion[m]
        \/ m \in inTodo \cup ToSet(inNotes)
        \/ [mail |-> m, version |-> inVersion[m]] \in ToSet(inChan \o inHeld)

\* Of the workers that archive one d-mail only the one that moved the file records it.
OneEventPerMove ==
  \A m \in InMail :
    inEmits[m] + (IF \E w \in InWorker : inPc[w] = "emit" /\ inName[w] = m THEN 1 ELSE 0)
      <= inMoves[m]

\* The channel never holds more than it was made for.
ChannelFits == inCap > 0 => Len(inChan) <= inCap

\* What a receiver of the inbox may rely on.
InboxSound == NothingOverlooked /\ OneEventPerMove /\ ChannelFits

=============================================================================
