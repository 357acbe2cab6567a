------------------------------ MODULE DevServer ------------------------------
(***************************************************************************)
(* The development server: Start looks for a server at the URL, runs a     *)
(* command otherwise and polls the URL; a goroutine waits for the process  *)
(* and then clears `running`, whenever it gets the mutex; Stop interrupts  *)
(* the process, waits a grace period and kills it.  Every GET gives up     *)
(* after two seconds.  One goroutine calls Start and Stop; processes are   *)
(* numbered.                                                               *)
(***************************************************************************)
EXTENDS Naturals, FiniteSets

CONSTANT DevMax   \* bound: processes started

ASSUME DevAssumption == DevMax \in Nat

VARIABLES
  devPc,        \* the caller: "idle", "probe", "spawn", "wait" (for readiness), "ready" (answered), "stop"
  devRunning,   \* DevServer.running
  devProcess,   \* DevServer.process: its number, 0 for nil
  devProcs,     \* per process: "new", "starting", "up" or "gone"
  devWaiter,    \* per process: its goroutine, "none", "spawned", "waiting", "exited", "gone"
  devWaitsFor,  \* per goroutine: the process it waits for
  devExternal,  \* somebody else's server is at the URL, all the time
  devMissed     \* history: processes alive while a probe of the URL went unanswered

devVars ==
  <<devPc, devRunning, devProcess, devProcs, devWaiter, devWaitsFor, devExternal, devMissed>>

DevProc == 1 .. DevMax

DevInit ==
  /\ devPc = "idle"
  /\ devRunning = FALSE
  /\ devProcess = 0
  /\ devProcs = [p \in DevProc |-> "new"]
  /\ devWaiter = [p \in DevProc |-> "none"]
  /\ devWaitsFor = [p \in DevProc |-> 0]
  /\ devExternal \in BOOLEAN
  /\ devMissed = {}

Alive(p) == devProcs[p] \in {"starting", "up"}

\* Whether there is a server to answer a GET of the URL, in time or too late.
SomeServerUp == devExternal \/ \E p \in DevProc : devProcs[p] = "up"

DevGoes(to) == devPc' = to

\* Start returns at once when `running` is set.
StartServer ==
  /\ devPc = "idle"
  /\ DevGoes(IF devRunning THEN "idle" ELSE "probe")
  /\ UNCHANGED <<devRunning, devProcess, devProcs, devWaiter, devWaitsFor, devExternal, devMissed>>

\* Mutant of ProbeUrl: a Start that does not look for a running server first.
ProbeNothing ==
  /\ devPc = "probe"
  /\ DevGoes("spawn")
  /\ UNCHANGED <<devRunning, devProcess, devProcs, devWaiter, devWaitsFor, devExternal, devMissed>>

\* A server that answers in time is taken for running, whoever runs it.  One
\* that does not is overlooked.
ProbeUrl ==
  /\ devPc = "probe"
  /\ \/ SomeServerUp /\ DevGoes("ready") /\ UNCHANGED devMissed
     \/ /\ DevGoes("spawn")
        /\ devMissed' = devMissed \union {p \in DevProc : Alive(p)}
  /\ UNCHANGED <<devRunning, devProcess, devProcs, devWaiter, devWaitsFor, devExternal>>

\* The log file cannot be created, or process.Start fails, leaving devProcess
\* without an OS process (0), or succeeds.
SpawnProcess ==
  /\ devPc = "spawn"
  /\ \/ /\ DevGoes("idle")
        /\ devProcess' \in {devProcess, 0}
        /\ UNCHANGED <<devProcs, devWaiter>>
     \/ \E p \in DevProc :
          /\ devProcs[p] = "new" /\ \A q \in DevProc : q < p => devProcs[q] # "new"
          /\ devProcess' = p
          /\ devProcs' = [devProcs EXCEPT ![p] = "starting"]
          /\ devWaiter' = [devWaiter EXCEPT ![p] = "spawned"]
          /\ DevGoes("wait")
  /\ UNCHANGED <<devRunning, devWaitsFor, devExternal, devMissed>>

\* waitReady: the URL answers, whichever server it is, or the context or the deadline ends it and Start stops the process.
WaitReady ==
  /\ devPc = "wait"
  /\ \/ SomeServerUp /\ DevGoes("ready")
     \/ DevGoes("stop")
  /\ UNCHANGED <<devRunning, devProcess, devProcs, devWaiter, devWaitsFor, devExternal, devMissed>>

\* setRunning(true) after an answer, although the process may have exited meanwhile.
ServerReady ==
  /\ devPc = "ready"
  /\ devRunning' = TRUE
  /\ DevGoes("idle")
  /\ UNCHANGED <<devProcess, devProcs, devWaiter, devWaitsFor, devExternal, devMissed>>

\* Stop: an interrupt, then the mutex is held until the process is gone.
StopServer ==
  /\ devPc = "idle"
  /\ devProcess # 0
  /\ DevGoes("stop")
  /\ UNCHANGED <<devRunning, devProcess, devProcs, devWaiter, devWaitsFor, devExternal, devMissed>>

\* It is gone, or the grace period is over and it is killed.
ServerStopped ==
  /\ devPc = "stop"
  /\ devProcs' = [devProcs EXCEPT ![devProcess] = IF Alive(devProcess) THEN "gone" ELSE @]
  /\ devRunning' = FALSE
  /\ DevGoes("idle")
  /\ UNCHANGED <<devProcess, devWaiter, devWaitsFor, devExternal, devMissed>>

\* The goroutine reads ds.process when it first runs, which may be late.
WaiterStarts(w) ==
  /\ devWaiter[w] = "spawned"
  /\ devWaiter' = [devWaiter EXCEPT ![w] = "waiting"]
  /\ devWaitsFor' = [devWaitsFor EXCEPT ![w] = devProcess]
  /\ UNCHANGED <<devPc, devRunning, devProcess, devProcs, devExternal, devMissed>>

WaitReturns(w) ==
  /\ devWaiter[w] = "waiting"
  /\ ~\E p \in DevProc : p = devWaitsFor[w] /\ Alive(p)
  /\ devWaiter' = [devWaiter EXCEPT ![w] = "exited"]
  /\ UNCHANGED <<devPc, devRunning, devProcess, devProcs, devWaitsFor, devExternal, devMissed>>

\* setRunning(false) of the goroutine: the mutex is free unless Stop holds it.
WaiterClears(w) ==
  /\ devWaiter[w] = "exited"
  /\ devPc # "stop"
  /\ devRunning' = FALSE
  /\ devWaiter' = [devWaiter EXCEPT ![w] = "gone"]
  /\ UNCHANGED <<devPc, devProcess, devProcs, devWaitsFor, devExternal, devMissed>>

\* The processes: one listens, one exits by itself.
ProcessListens(p) ==
  /\ devProcs[p] = "starting"
  /\ devProcs' = [devProcs EXCEPT ![p] = "up"]
  /\ UNCHANGED <<devPc, devRunning, devProcess, devWaiter, devWaitsFor, devExternal, devMissed>>

ProcessExits(p) ==
  /\ Alive(p)
  /\ devProcs' = [devProcs EXCEPT ![p] = "gone"]
  /\ UNCHANGED <<devPc, devRunning, devProcess, devWaiter, devWaitsFor, devExternal, devMissed>>

DevNext ==
  \/ StartServer \/ ProbeUrl \/ SpawnProcess \/ WaitReady \/ ServerReady
  \/ StopServer \/ ServerStopped
  \/ \E w \in DevProc : WaiterStarts(w) \/ WaitReturns(w) \/ WaiterClears(w)
  \/ \E p \in DevProc : ProcessListens(p) \/ ProcessExits(p)

DevSpec == DevInit /\ [][DevNext]_devVars

-----------------------------------------------------------------------------

\* Every variable has its type.
DevTypeOK ==
  /\ devPc \in {"idle", "probe", "spawn", "wait", "ready", "stop"}
  /\ devRunning \in BOOLEAN
  /\ devProcess \in 0 .. DevMax
  /\ devProcs \in [DevProc -> {"new", "starting", "up", "gone"}]
  /\ devWaiter \in [DevProc -> {"none", "spawned", "waiting", "exited", "gone"}]
  /\ devWaitsFor \in [DevProc -> 0 .. DevMax]
  /\ devMissed \subseteq DevProc

\* A server that lives on and is not the one Stop stops was overlooked by a
\* probe: a further Start never runs a second server beside one that answers.
OneServer ==
  \A p \in DevProc : Alive(p) => p = devProcess \/ p \in devMissed

\* And no probe is made beside a live server unless the goroutine of an earlier
\* one has cleared `running` late: it takes both to lose a server.
MissedIsLate ==
  \A p \in devMissed : \E w \in DevProc : w < p /\ devWaiter[w] = "gone"

\* Outside Start a process listens or is gone, unless another server, somebody
\* else's or an overlooked one, has answered in its place.
NoHalfStart ==
  devPc \in {"idle", "probe", "spawn"} =>
    \A p \in DevProc : devProcs[p] = "starting" => devExternal \/ devMissed # {}

\* What Start and Stop promise of the server's process.
DevSound == OneServer /\ MissedIsLate /\ NoHalfStart

===============================================================================
