------------------------------- MODULE Insights -------------------------------
(***************************************************************************)
(* The insight ledger: an append reads a Markdown file, adds an entry      *)
(* unless one of its title is there, and replaces the file by rename, all  *)
(* under flock; a process may die between any two steps.  A rewrite        *)
(* re-reads every old entry line by line: of a value that has several      *)
(* lines only the first survives, and a line that looks like a heading     *)
(* becomes an entry.  The entries come from the patterns (Luminas) found   *)
(* in the journals and from the corrections received.                      *)
(***************************************************************************)
EXTENDS Naturals, Sequences, FiniteSets, SequencesExt, FiniteSetsExt

CONSTANTS InsWriter,      \* processes that append
          InsCorrection,  \* corrections: [title, tail], tail "none", "text" or "heading"
          InsJournal,     \* journals: [status, key, alert], key and alert "" or a text
          InsTexts,       \* the texts of keys and alerts, in their order
          InsMaxLuminas,  \* luminas kept
          InsJournals,    \* bound on the journals
          InsAppends      \* bound on the appends begun

ASSUME InsightsAssumption ==
  /\ {InsMaxLuminas, InsJournals, InsAppends} \subseteq Nat
  /\ InsTexts \in Seq(ToSet(InsTexts)) /\ \A i, k \in DOMAIN InsTexts : InsTexts[i] = InsTexts[k] => i = k

\* No journal has another text.
ASSUME JournalAssumption == \A j \in InsJournal : {j.key, j.alert} \subseteq ToSet(InsTexts) \union {""}

VARIABLES
  insJournals,  \* journals, in the order of their files
  insFile,      \* the ledger: {} or its entries
  insTmp,       \* the temporary file: {}, or entries, none if it was written half
  insLock,      \* {} or the writer that has the flock
  insPc,        \* per writer: "idle", "waits", "locked", "read", "written"
  insEntry,     \* per writer: {} or the entry it appends
  insNew,       \* per writer: {} or the entries it will write
  insDone       \* history: titles whose append succeeded, and the number begun

insVars == <<insJournals, insFile, insTmp, insLock, insPc, insEntry, insNew, insDone>>

InsInit ==
  /\ insJournals = <<>> /\ insFile = {} /\ insTmp = {} /\ insLock = {}
  /\ insPc = [w \in InsWriter |-> "idle"]
  /\ insEntry = [w \in InsWriter |-> {}] /\ insNew = [w \in InsWriter |-> {}]
  /\ insDone = [titles |-> {}, begun |-> 0]

-----------------------------------------------------------------------------
\* Luminas.

WriteJournal ==
  /\ Len(insJournals) < InsJournals
  /\ \E j \in InsJournal : insJournals' = Append(insJournals, j)
  /\ UNCHANGED <<insFile, insTmp, insLock, insPc, insEntry, insNew, insDone>>

\* How often a text occurs: alerts in any journal, keys by status.
Uses(source, key) ==
  Cardinality({i \in DOMAIN insJournals :
    CASE source = "alert" -> insJournals[i].alert = key
      [] source = "warn"  -> insJournals[i].status = "failed" /\ insJournals[i].key = key
      [] OTHER            -> insJournals[i].status = "success" /\ insJournals[i].key = key})

\* Alerts are luminas at once, failures from two on, successes from three.
Need == [alert |-> 1, warn |-> 2, ok |-> 3]

\* The sort within a source: by number of uses, then by text, as the texts come.
AddLumina(list, l) ==
  LET k == Max({0} \union {i \in DOMAIN list : list[i].uses >= l.uses})
  IN  IF l.uses < Need[l.source] THEN list
      ELSE SubSeq(list, 1, k) \o <<l>> \o SubSeq(list, k + 1, Len(list))

UseCounts(source) ==
  [i \in DOMAIN InsTexts |-> [source |-> source, key |-> InsTexts[i], uses |-> Uses(source, InsTexts[i])]]

\* By source, and no more than the maximum.
ScanJournalsForLumina ==
  LET from(source) == FoldLeft(AddLumina, <<>>, UseCounts(source))
      found == from("alert") \o from("warn") \o from("ok")
  IN  SubSeq(found, 1, IF Len(found) > InsMaxLuminas THEN InsMaxLuminas ELSE Len(found))

-----------------------------------------------------------------------------
\* The ledger.

InsGoes(w, to) == insPc' = [insPc EXCEPT ![w] = to]

\* WriteLuminaInsights and WriteCorrectionInsight append an entry; a lumina's
\* title has its number of uses in it.
AppendBegins(w) ==
  /\ insPc[w] = "idle" /\ insDone.begun < InsAppends
  /\ \E e \in InsCorrection \union
            {[title |-> <<l.source, l.key, l.uses>>, tail |-> "none"] :
               l \in ToSet(ScanJournalsForLumina)} :
       insEntry' = [insEntry EXCEPT ![w] = {e}]
  /\ insDone' = [insDone EXCEPT !.begun = @ + 1]
  /\ InsGoes(w, "waits")
  /\ UNCHANGED <<insJournals, insFile, insTmp, insLock, insNew>>

\* Mutant of LockLedger: the lock is granted to whoever asks.
LockAlways(w) ==
  /\ insPc[w] = "waits"
  /\ insLock' = {w} /\ InsGoes(w, "locked")
  /\ UNCHANGED <<insJournals, insFile, insTmp, insEntry, insNew, insDone>>

\* flock(LOCK_EX) blocks.
LockLedger(w) ==
  /\ insPc[w] = "waits" /\ insLock = {}
  /\ insLock' = {w} /\ InsGoes(w, "locked")
  /\ UNCHANGED <<insJournals, insFile, insTmp, insEntry, insNew, insDone>>

\* UnmarshalInsightFile after Marshal: tails go, headings in them become entries.
ReadEntry(entries, e) ==
  LET whole == Append(entries, [title |-> e.title, tail |-> "none"])
  IN  IF e.tail = "heading" THEN Append(whole, [title |-> <<"quoted">>, tail |-> "none"]) ELSE whole

ReadBack(entries) == FoldLeft(ReadEntry, <<>>, entries)

\* A ledger that is not there has no entries.
FileEntries(file) == IF file = {} THEN <<>> ELSE ReadBack(CHOOSE f \in file : TRUE)

\* readFile, and the search for the title.
ReadLedger(w) ==
  /\ insPc[w] = "locked"
  /\ \E e \in insEntry[w] :
       LET old == FileEntries(insFile)
       IN  IF \E i \in DOMAIN old : old[i].title = e.title
           THEN /\ insDone' = [insDone EXCEPT !.titles = @ \union {e.title}]
                /\ insLock' = insLock \ {w} /\ InsGoes(w, "idle")
                /\ insEntry' = [insEntry EXCEPT ![w] = {}]
                /\ UNCHANGED insNew
           ELSE /\ insNew' = [insNew EXCEPT ![w] = {Append(old, e)}]
                /\ InsGoes(w, "read")
                /\ UNCHANGED <<insDone, insLock, insEntry>>
  /\ UNCHANGED <<insJournals, insFile, insTmp>>

WriteTemp(w) ==
  /\ insPc[w] = "read"
  /\ insTmp' = insNew[w]
  /\ InsGoes(w, "written")
  /\ UNCHANGED <<insJournals, insFile, insLock, insEntry, insNew, insDone>>

RenameLedger(w) ==
  /\ insPc[w] = "written" /\ insTmp # {}
  /\ insFile' = insTmp /\ insTmp' = {}
  /\ insDone' = [insDone EXCEPT !.titles = @ \union {e.title : e \in insEntry[w]}]
  /\ insLock' = insLock \ {w} /\ InsGoes(w, "idle")
  /\ insEntry' = [insEntry EXCEPT ![w] = {}] /\ insNew' = [insNew EXCEPT ![w] = {}]
  /\ UNCHANGED insJournals

\* The process dies, or a step fails and Append returns: the flock is given up.
\* Written half, the temporary file stays; it is overwritten by the next.
AppendStops(w) ==
  /\ insPc[w] # "idle"
  /\ insTmp' \in {insTmp} \union (IF insPc[w] = "read" THEN {{<<>>}} ELSE {})
  /\ insLock' = insLock \ {w} /\ InsGoes(w, "idle")
  /\ insEntry' = [insEntry EXCEPT ![w] = {}] /\ insNew' = [insNew EXCEPT ![w] = {}]
  /\ UNCHANGED <<insJournals, insFile, insDone>>

InsNext ==
  \/ WriteJournal
  \/ \E w \in InsWriter : \/ AppendBegins(w) \/ LockLedger(w) \/ ReadLedger(w)
                          \/ WriteTemp(w) \/ RenameLedger(w) \/ AppendStops(w)

InsSpec == InsInit /\ [][InsNext]_insVars

-----------------------------------------------------------------------------

\* Types; one ledger, one temporary file, one holder of the lock.
InsTypeOK ==
  /\ insJournals \in Seq(InsJournal)
  /\ Cardinality(insFile) <= 1 /\ Cardinality(insTmp) <= 1
  /\ Cardinality(insLock) <= 1 /\ insLock \subseteq InsWriter
  /\ insPc \in [InsWriter -> {"idle", "waits", "locked", "read", "written"}]

\* The titles of a list of entries; those a reader of the ledger finds.
Titles(entries) == {entries[i].title : i \in DOMAIN entries}
LedgerTitles == Titles(FileEntries(insFile))

\* No two entries of one title, headings that were quoted apart.
TitlesDiffer(entries) ==
  \A i, j \in DOMAIN entries :
    entries[i].title = entries[j].title /\ entries[i].title # <<"quoted">> => i = j

\* An append that succeeded is in the ledger for good, whatever other writers do
\* and wherever they die; and a title that somebody appended is there once.
AppendsKept ==
  /\ insDone.titles \subseteq LedgerTitles
  /\ TitlesDiffer(FileEntries(insFile))

\* A value of several lines is whole only in the entry written last.
TailsGo == \A f \in insFile : \A i \in DOMAIN f : f[i].tail # "none" => i = Len(f)

\* What the ledger keeps and what it loses.
LedgerSound == AppendsKept /\ TailsGo

\* What is cut from the luminas is never more urgent than what is kept: an alert
\* is shown unless there are enough alerts, a repeated failure unless alerts and
\* worse failures fill the list.
LuminasSound ==
  LET ls == ScanJournalsForLumina
  IN  /\ Len(ls) <= InsMaxLuminas
      /\ \A k \in ToSet(InsTexts) :
           /\ Uses("alert", k) >= 1 =>
                \/ \E i \in DOMAIN ls : ls[i].source = "alert" /\ ls[i].key = k
                \/ \A i \in DOMAIN ls : ls[i].source = "alert" /\ Len(ls) = InsMaxLuminas
           /\ Uses("warn", k) >= 2 =>
                \/ \E i \in DOMAIN ls : ls[i].source = "warn" /\ ls[i].key = k
                \/ /\ Len(ls) = InsMaxLuminas
                   /\ \A i \in DOMAIN ls : ls[i].source # "ok" /\
                        (ls[i].source = "warn" => ls[i].uses >= Uses("warn", k))

===============================================================================
