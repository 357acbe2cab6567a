----------------------------- MODULE StreamsProofs -----------------------------
(***************************************************************************)
(* What goroutines, processes and streams share has one owner at a time,   *)
(* and what they pass on arrives once and in order, for any number of      *)
(* them: theorems about the dev server, the flag, the answers of a human,  *)
(* the provider streams, the session bus, the inbox and the coding         *)
(* sessions, and about the run lock, the worktree pool and the circuit     *)
(* breaker; and about the processes that prune the archive and write its   *)
(* index.                                                                  *)
(***************************************************************************)
EXTENDS ArchivePrune, RunLock, Worktrees, CircuitBreaker, Inbox, SessionBus, SessionStream,
        DevServer, CodingSessions, Approval, FiniteSetTheorems,
        SequenceTheorems, TLAPS

(***************************************************************************)
(* Channels and lists: sequences whose elements occur once.                *)
(***************************************************************************)

\* The elements of a sequence.
Elems(s) == {s[i] : i \in 1 .. Len(s)}

NoDup(s) == \A i, j \in 1 .. Len(s) : s[i] = s[j] => i = j

\* A send puts one element in, and leaves the others.
LEMMA Sent ==
  ASSUME NEW T, NEW s \in Seq(T), NEW p \in T, NoDup(s), p \notin Elems(s)
  PROVE  /\ Append(s, p) \in Seq(T)
         /\ Elems(Append(s, p)) = Elems(s) \cup {p}
         /\ NoDup(Append(s, p))
<1> DEFINE t == Append(s, p)
<1>1. t \in Seq(T) /\ Len(t) = Len(s) + 1 /\ Len(s) \in Nat
  OBVIOUS
<1>2. t[Len(t)] = p /\ \A i \in 1 .. Len(s) : t[i] = s[i]
  OBVIOUS
<1> HIDE DEF t
<1>3. \A i \in 1 .. Len(t) : i = Len(t) \/ i \in 1 .. Len(s)
  BY <1>1
<1>4. 1 .. Len(s) \subseteq 1 .. Len(t) /\ Len(t) \in 1 .. Len(t)
  BY <1>1
<1>5. Elems(t) = Elems(s) \cup {p}
  BY <1>2, <1>3, <1>4 DEF Elems
<1>6. NoDup(t)
  <2>1. SUFFICES ASSUME NEW i \in 1 .. Len(t), NEW j \in 1 .. Len(t), t[i] = t[j] PROVE i = j
    BY DEF NoDup
  <2>2. \A k \in 1 .. Len(s) : t[k] # p
    BY <1>2 DEF Elems
  <2> QED
    BY <1>2, <1>3, <2>1, <2>2 DEF NoDup
<1> QED
  BY <1>1, <1>5, <1>6 DEF t

\* A receive takes the oldest element out, and leaves the others.
LEMMA Received ==
  ASSUME NEW T, NEW s \in Seq(T), s # << >>, NoDup(s)
  PROVE  /\ Tail(s) \in Seq(T)
         /\ Head(s) \in Elems(s)
         /\ Elems(Tail(s)) = Elems(s) \ {Head(s)}
         /\ NoDup(Tail(s))
<1> DEFINE t == Tail(s)
           h == Head(s)
<1>1. t \in Seq(T) /\ Len(s) \in Nat \ {0} /\ Len(t) = Len(s) - 1 /\ h = s[1]
  OBVIOUS
<1>2. \A i \in 1 .. Len(t) : t[i] = s[i + 1]
  OBVIOUS
<1> HIDE DEF t, h
<1>3. /\ 1 \in 1 .. Len(s)
      /\ \A i \in 1 .. Len(t) : i + 1 \in 1 .. Len(s) /\ i + 1 # 1
      /\ \A i \in 1 .. Len(s) : i # 1 => i - 1 \in 1 .. Len(t) /\ (i - 1) + 1 = i
  BY <1>1
<1>4. h \in Elems(s)
  BY <1>1, <1>3 DEF Elems
<1>5. ASSUME NEW x \in Elems(t) PROVE x \in Elems(s) \ {h}
  <2>1. PICK i \in 1 .. Len(t) : x = s[i + 1]
    BY <1>2, <1>5 DEF Elems
  <2> QED
    BY <1>1, <1>3, <2>1 DEF Elems, NoDup
<1>6. ASSUME NEW x \in Elems(s) \ {h} PROVE x \in Elems(t)
  <2>1. PICK i \in 1 .. Len(s) : x = s[i] /\ i # 1
    BY <1>1, <1>6 DEF Elems
  <2>2. i - 1 \in 1 .. Len(t) /\ t[i - 1] = x
    BY <1>2, <1>3, <2>1
  <2> QED
    BY <2>2 DEF Elems
<1>7. NoDup(t)
  <2>1. SUFFICES ASSUME NEW i \in 1 .. Len(t), NEW j \in 1 .. Len(t), t[i] = t[j] PROVE i = j
    BY DEF NoDup
  <2>2. i + 1 = j + 1
    BY <1>2, <1>3, <2>1 DEF NoDup
  <2> QED
    BY <2>2
<1> QED
  BY <1>1, <1>4, <1>5, <1>6, <1>7 DEF t, h

\* The community modules' names for the elements of a sequence.
LEMMA RangeIsElems ==
  ASSUME NEW T, NEW s \in Seq(T)
  PROVE  Range(s) = Elems(s) /\ ToSet(s) = Elems(s)
<1>1. DOMAIN s = 1 .. Len(s)
  OBVIOUS
<1> QED
  BY <1>1 DEF Elems, Range, ToSet

\* A receive from the second of two sequences that is kept at the end of the
\* first leaves their concatenation alone, and a send to it extends that.
LEMMA MovedAcross ==
  ASSUME NEW T, NEW a \in Seq(T), NEW b \in Seq(T), b # << >>
  PROVE  Append(a, Head(b)) \o Tail(b) = a \o b
  OBVIOUS

LEMMA SentAcross ==
  ASSUME NEW T, NEW a \in Seq(T), NEW b \in Seq(T), NEW x \in T
  PROVE  a \o Append(b, x) = Append(a \o b, x)
  OBVIOUS

-----------------------------------------------------------------------------
(***************************************************************************)
(* The dev server.  A process is spawned where every live one was just     *)
(* overlooked by a probe.  It was probed because `running` was clear, and  *)
(* a goroutine clears it beside a live process only if it is an earlier    *)
(* one's: the process's own waits for the process itself.                  *)
(***************************************************************************)

Late(p) == \E w \in DevProc : w < p /\ devWaiter[w] = "gone"

\* A process is half started while Start waits for it or stops it, or another
\* server answered in its place.
StartingAwaited ==
  \A p \in DevProc : devProcs[p] = "starting" =>
    (p = devProcess /\ devPc \in {"wait", "stop"}) \/ devExternal \/ devMissed # {}

\* Between the probe and the spawn only overlooked processes live.
SpawnAlone == devPc = "spawn" => \A p \in DevProc : Alive(p) => p \in devMissed

\* `running` was cleared late where Start finds it clear beside a process.
ClearedLate ==
  /\ devPc = "probe" => ~ devRunning
  /\ devPc \in {"idle", "probe"} /\ ~ devRunning => \A p \in DevProc : Alive(p) => Late(p)

\* Processes start in their order, each with its goroutine; the goroutine of
\* the present one waits for it.
WaitersInOrder ==
  \A w \in DevProc :
    /\ devProcs[w] = "new" <=> devWaiter[w] = "none"
    /\ devWaiter[w] # "none" => \A q \in DevProc : q < w => devProcs[q] # "new"
    /\ devWaiter[w] # "none" => devProcess = 0 \/ w <= devProcess
    /\ w = devProcess /\ devWaiter[w] \in {"waiting", "exited", "gone"} => devWaitsFor[w] = w
    /\ w = devProcess /\ devWaiter[w] \in {"exited", "gone"} => ~ Alive(w)

DevInv ==
  /\ DevTypeOK /\ OneServer /\ MissedIsLate
  /\ StartingAwaited /\ SpawnAlone /\ ClearedLate /\ WaitersInOrder

LEMMA DevInitially == DevInit => DevInv
<1> SUFFICES ASSUME DevInit PROVE DevInv
  OBVIOUS
<1>1. 0 \in 0 .. DevMax
  BY DevAssumption
<1>2. DevTypeOK
  BY <1>1 DEF DevInit, DevTypeOK
<1>3. OneServer /\ MissedIsLate /\ StartingAwaited /\ SpawnAlone /\ ClearedLate
  BY DEF DevInit, OneServer, MissedIsLate, StartingAwaited, SpawnAlone, ClearedLate, Alive
<1>4. WaitersInOrder
  BY DEF DevInit, WaitersInOrder
<1> QED
  BY <1>2, <1>3, <1>4 DEF DevInv

\* Steps of the caller that start and end no process.
LEMMA CallerKeeps ==
  ASSUME DevInv, StartServer \/ ProbeUrl \/ WaitReady \/ ServerReady \/ StopServer
  PROVE  DevInv'
<1>1. UNCHANGED <<devProcess, devProcs, devWaiter, devWaitsFor, devExternal>>
  BY DEF StartServer, ProbeUrl, WaitReady, ServerReady, StopServer
<1>2. WaitersInOrder' /\ \A p \in DevProc : (Alive(p)' <=> Alive(p)) /\ (Late(p)' <=> Late(p))
  BY <1>1 DEF DevInv, WaitersInOrder, Alive, Late
<1>3. CASE StartServer \/ ServerReady \/ StopServer
  <2>1. devMissed' = devMissed
    BY <1>3 DEF StartServer, ServerReady, StopServer
  <2>2. DevTypeOK'
    BY <1>1, <1>3, <2>1 DEF DevInv, DevTypeOK, StartServer, ServerReady, StopServer, DevGoes
  <2>3. OneServer' /\ MissedIsLate'
    BY <1>1, <2>1 DEF DevInv, OneServer, MissedIsLate, Alive
  <2>4. StartingAwaited' /\ SpawnAlone' /\ ClearedLate'
    BY <1>1, <1>2, <1>3, <2>1 DEF DevInv, StartingAwaited, SpawnAlone, ClearedLate, StartServer,
       ServerReady, StopServer, DevGoes
  <2> QED
    BY <1>2, <2>2, <2>3, <2>4 DEF DevInv
<1>4. CASE ProbeUrl
  <2>1. /\ devPc = "probe" /\ devRunning' = devRunning
        /\ \/ devPc' = "ready" /\ devMissed' = devMissed
           \/ devPc' = "spawn" /\ devMissed' = devMissed \union {p \in DevProc : Alive(p)}
    BY <1>4 DEF ProbeUrl, DevGoes
  <2>2. DevTypeOK'
    BY <1>1, <2>1 DEF DevInv, DevTypeOK
  <2>3. devMissed \subseteq devMissed' /\ OneServer'
    BY <1>1, <2>1 DEF DevInv, OneServer, Alive
  <2>4. StartingAwaited' /\ SpawnAlone' /\ ClearedLate'
    BY <1>1, <1>2, <2>1, <2>3 DEF DevInv, StartingAwaited, SpawnAlone, ClearedLate
  <2>5. MissedIsLate'
    <3>1. \A p \in DevProc : Alive(p) => Late(p)
      BY <2>1 DEF DevInv, ClearedLate
    <3>2. \A p \in devMissed' : p \in devMissed \/ (p \in DevProc /\ Alive(p))
      BY <2>1
    <3> QED
      BY <1>1, <3>1, <3>2 DEF DevInv, MissedIsLate, Late
  <2> QED
    BY <1>2, <2>2, <2>3, <2>4, <2>5 DEF DevInv
<1>5. CASE WaitReady
  <2>1. /\ devPc = "wait" /\ devRunning' = devRunning /\ devMissed' = devMissed
        /\ (devPc' = "ready" /\ SomeServerUp) \/ devPc' = "stop"
    BY <1>5 DEF WaitReady, DevGoes
  <2>2. DevTypeOK'
    BY <1>1, <2>1 DEF DevInv, DevTypeOK
  <2>3. OneServer' /\ MissedIsLate' /\ SpawnAlone' /\ ClearedLate'
    BY <1>1, <2>1 DEF DevInv, OneServer, MissedIsLate, SpawnAlone, ClearedLate, Alive
  <2>4. StartingAwaited'
    <3>1. SUFFICES ASSUME NEW p \in DevProc, devProcs[p] = "starting", p = devProcess,
                          devPc' = "ready", ~ devExternal
                   PROVE  devMissed # {}
      BY <1>1, <2>1 DEF DevInv, StartingAwaited
    <3>2. PICK q \in DevProc : devProcs[q] = "up"
      BY <2>1, <3>1 DEF SomeServerUp
    <3> QED
      BY <3>1, <3>2 DEF DevInv, OneServer, Alive
  <2> QED
    BY <1>2, <2>2, <2>3, <2>4 DEF DevInv
<1> QED
  BY <1>3, <1>4, <1>5

LEMMA SpawnKeeps == ASSUME DevInv, SpawnProcess PROVE DevInv'
<1>1. /\ devPc = "spawn"
      /\ \A p \in DevProc : Alive(p) => p \in devMissed
      /\ UNCHANGED <<devRunning, devWaitsFor, devExternal, devMissed>>
  BY DEF SpawnProcess, DevInv, SpawnAlone
<1>2. \A p \in DevProc : Alive(p) => Late(p)
  BY <1>1 DEF DevInv, MissedIsLate, Late
<1>3. CASE DevGoes("idle") /\ devProcess' \in {devProcess, 0} /\ UNCHANGED <<devProcs, devWaiter>>
  <2>1. devPc' = "idle" /\ \A p \in DevProc : (Alive(p)' <=> Alive(p)) /\ (Late(p)' <=> Late(p))
    BY <1>3 DEF DevGoes, Alive, Late
  <2>2. DevTypeOK'
    BY <1>1, <1>3, <2>1, DevAssumption DEF DevInv, DevTypeOK
  <2>3. OneServer' /\ MissedIsLate' /\ SpawnAlone' /\ ClearedLate'
    BY <1>1, <1>2, <1>3, <2>1 DEF DevInv, OneServer, MissedIsLate, SpawnAlone, ClearedLate
  <2>4. StartingAwaited'
    BY <1>1, <1>3, <2>1 DEF DevInv, StartingAwaited
  <2>5. WaitersInOrder'
    BY <1>1, <1>3, <2>1, DevAssumption DEF DevInv, WaitersInOrder, DevProc, Alive
  <2> QED
    BY <2>2, <2>3, <2>4, <2>5 DEF DevInv
<1>4. ASSUME NEW p \in DevProc, devProcs[p] = "new", \A q \in DevProc : q < p => devProcs[q] # "new",
             devProcess' = p, DevGoes("wait"),
             devProcs' = [devProcs EXCEPT ![p] = "starting"],
             devWaiter' = [devWaiter EXCEPT ![p] = "spawned"]
      PROVE  DevInv'
  <2>1. p \in 0 .. DevMax /\ p \in Nat /\ p # 0 /\ devPc' = "wait"
    BY <1>4, DevAssumption DEF DevProc, DevGoes
  <2>2. DevTypeOK'
    BY <1>1, <1>4, <2>1 DEF DevInv, DevTypeOK
  <2>3. \A q \in DevProc : /\ devProcs'[q] = IF q = p THEN "starting" ELSE devProcs[q]
                           /\ devWaiter'[q] = IF q = p THEN "spawned" ELSE devWaiter[q]
    BY <1>4 DEF DevInv, DevTypeOK
  <2>4. OneServer' /\ StartingAwaited' /\ SpawnAlone' /\ ClearedLate'
    BY <1>1, <1>4, <2>1, <2>3 DEF DevInv, OneServer, StartingAwaited, SpawnAlone, ClearedLate, Alive
  <2>5. devWaiter[p] = "none"
    BY <1>4 DEF DevInv, WaitersInOrder
  <2>6. MissedIsLate'
    BY <1>1, <2>3, <2>5 DEF DevInv, MissedIsLate
  <2>7. \A w \in DevProc : devWaiter[w] # "none" => w < p
    <3>1. SUFFICES ASSUME NEW w \in DevProc, devWaiter[w] # "none", ~ (w < p)
                   PROVE  FALSE
      OBVIOUS
    <3>2. p < w
      BY <2>5, <3>1, DevAssumption DEF DevProc
    <3> QED
      BY <1>4, <3>1, <3>2 DEF DevInv, WaitersInOrder
  <2>8. WaitersInOrder'
    <3>1. SUFFICES ASSUME NEW w \in DevProc
          PROVE  /\ devProcs'[w] = "new" <=> devWaiter'[w] = "none"
                 /\ devWaiter'[w] # "none" => \A q \in DevProc : q < w => devProcs'[q] # "new"
                 /\ devWaiter'[w] # "none" => w <= p
                 /\ w = p => devWaiter'[w] = "spawned"
      BY <1>4 DEF WaitersInOrder
    <3>2. w \in Nat
      BY DevAssumption DEF DevProc
    <3>3. devWaiter'[w] # "none" => \A q \in DevProc : q < w => devProcs'[q] # "new"
      BY <1>4, <2>3 DEF DevInv, WaitersInOrder
    <3>4. devWaiter'[w] # "none" => w <= p
      BY <2>1, <2>3, <2>7, <3>2
    <3> QED
      BY <2>3, <3>3, <3>4 DEF DevInv, WaitersInOrder
  <2> QED
    BY <2>2, <2>4, <2>6, <2>8 DEF DevInv
<1> QED
  BY <1>3, <1>4 DEF SpawnProcess

LEMMA StoppedKeeps == ASSUME DevInv, ServerStopped PROVE DevInv'
<1>1. /\ devProcs' = [devProcs EXCEPT ![devProcess] = IF Alive(devProcess) THEN "gone" ELSE @]
      /\ devRunning' = FALSE /\ devPc' = "idle"
      /\ UNCHANGED <<devProcess, devWaiter, devWaitsFor, devExternal, devMissed>>
  BY DEF ServerStopped, DevGoes
<1>2. \A p \in DevProc : devProcs'[p] = IF p = devProcess /\ Alive(p) THEN "gone" ELSE devProcs[p]
  BY <1>1 DEF DevInv, DevTypeOK
<1>3. DevTypeOK'
  BY <1>1, <1>2 DEF DevInv, DevTypeOK, Alive
<1>4. \A p \in DevProc : Alive(p)' => Alive(p) /\ p # devProcess /\ p \in devMissed
  BY <1>2 DEF DevInv, OneServer, Alive
<1>5. OneServer' /\ MissedIsLate' /\ SpawnAlone'
  BY <1>1, <1>4 DEF DevInv, OneServer, MissedIsLate, SpawnAlone
<1>6. ClearedLate'
  BY <1>1, <1>4 DEF DevInv, MissedIsLate, ClearedLate, Late
<1>7. StartingAwaited'
  BY <1>1, <1>2, <1>4 DEF StartingAwaited, Alive
<1>8. WaitersInOrder'
  BY <1>1, <1>2 DEF DevInv, WaitersInOrder, Alive
<1> QED
  BY <1>3, <1>5, <1>6, <1>7, <1>8 DEF DevInv

\* The goroutines write `running` only.
LEMMA WaiterKeeps ==
  ASSUME DevInv, NEW w \in DevProc, WaiterStarts(w) \/ WaitReturns(w) \/ WaiterClears(w)
  PROVE  DevInv'
<1>1. UNCHANGED <<devPc, devProcess, devProcs, devExternal, devMissed>>
  BY DEF WaiterStarts, WaitReturns, WaiterClears
<1>2. DevTypeOK'
  BY <1>1 DEF DevInv, DevTypeOK, WaiterStarts, WaitReturns, WaiterClears
<1>3. PICK to \in {"waiting", "exited", "gone"} :
        devWaiter' = [devWaiter EXCEPT ![w] = to] /\ devWaiter[w] # "none"
  BY DEF WaiterStarts, WaitReturns, WaiterClears
<1>4. \A p \in DevProc : devWaiter'[p] = IF p = w THEN to ELSE devWaiter[p]
  BY <1>3 DEF DevInv, DevTypeOK
<1>5. \A p \in DevProc : devWaiter[p] = "gone" => devWaiter'[p] = "gone"
  BY <1>1 DEF DevInv, DevTypeOK, WaiterStarts, WaitReturns, WaiterClears
<1>6. OneServer' /\ MissedIsLate' /\ StartingAwaited' /\ SpawnAlone'
  BY <1>1, <1>5 DEF DevInv, OneServer, MissedIsLate, StartingAwaited, SpawnAlone, Alive
<1>7. WaitersInOrder'
  <2>1. CASE WaiterStarts(w)
    <3>1. /\ devWaiter[w] = "spawned"
          /\ devWaiter' = [devWaiter EXCEPT ![w] = "waiting"]
          /\ devWaitsFor' = [devWaitsFor EXCEPT ![w] = devProcess]
      BY <2>1 DEF WaiterStarts
    <3>2. \A p \in DevProc :
            /\ devWaiter'[p] = IF p = w THEN "waiting" ELSE devWaiter[p]
            /\ devWaitsFor'[p] = IF p = w THEN devProcess ELSE devWaitsFor[p]
      BY <3>1 DEF DevInv, DevTypeOK
    <3> QED
      BY <1>1, <3>1, <3>2 DEF DevInv, WaitersInOrder, Alive
  <2>2. CASE WaitReturns(w)
    <3>1. /\ devWaiter[w] = "waiting" /\ devWaitsFor' = devWaitsFor
          /\ ~ (devWaitsFor[w] = w /\ Alive(w))
          /\ devWaiter' = [devWaiter EXCEPT ![w] = "exited"]
      BY <2>2 DEF WaitReturns
    <3>2. \A p \in DevProc : devWaiter'[p] = IF p = w THEN "exited" ELSE devWaiter[p]
      BY <3>1 DEF DevInv, DevTypeOK
    <3> QED
      BY <1>1, <3>1, <3>2 DEF DevInv, WaitersInOrder, Alive
  <2>3. CASE WaiterClears(w)
    <3>1. /\ devWaiter[w] = "exited" /\ devWaitsFor' = devWaitsFor
          /\ devWaiter' = [devWaiter EXCEPT ![w] = "gone"]
      BY <2>3 DEF WaiterClears
    <3>2. \A p \in DevProc : devWaiter'[p] = IF p = w THEN "gone" ELSE devWaiter[p]
      BY <3>1 DEF DevInv, DevTypeOK
    <3> QED
      BY <1>1, <3>1, <3>2 DEF DevInv, WaitersInOrder, Alive
  <2> QED
    BY <2>1, <2>2, <2>3
<1>8. ClearedLate'
  <2>1. CASE devRunning' = devRunning
    BY <1>1, <1>5, <2>1 DEF DevInv, ClearedLate, Alive, Late
  <2>2. CASE WaiterClears(w)
    <3>1. devRunning' = FALSE /\ devWaiter[w] = "exited" /\ devWaiter' = [devWaiter EXCEPT ![w] = "gone"]
      BY <2>2 DEF WaiterClears
    <3>2. ASSUME NEW p \in DevProc, Alive(p) PROVE Late(p)'
      <4>1. CASE p \in devMissed
        BY <1>5, <4>1 DEF DevInv, MissedIsLate, Late
      <4>2. CASE p = devProcess
        <5>1. w # p /\ (devProcess = 0 \/ w <= devProcess)
          BY <3>1, <3>2, <4>2 DEF DevInv, WaitersInOrder
        <5>2. w < p /\ devWaiter'[w] = "gone"
          BY <3>1, <4>2, <5>1, DevAssumption DEF DevInv, DevTypeOK, DevProc
        <5> QED
          BY <5>2 DEF Late
      <4> QED
        BY <3>2, <4>1, <4>2 DEF DevInv, OneServer
    <3> QED
      BY <1>1, <3>1, <3>2 DEF ClearedLate, Alive
  <2> QED
    BY <2>1, <2>2 DEF WaiterStarts, WaitReturns
<1> QED
  BY <1>2, <1>6, <1>7, <1>8 DEF DevInv

LEMMA ProcessKeeps ==
  ASSUME DevInv, NEW p \in DevProc, ProcessListens(p) \/ ProcessExits(p)
  PROVE  DevInv'
<1>1. PICK to \in {"up", "gone"} :
        /\ Alive(p)
        /\ devProcs' = [devProcs EXCEPT ![p] = to]
        /\ UNCHANGED <<devPc, devRunning, devProcess, devWaiter, devWaitsFor, devExternal, devMissed>>
  BY DEF ProcessListens, ProcessExits, Alive
<1>2. DevTypeOK' /\ \A q \in DevProc : devProcs'[q] = IF q = p THEN to ELSE devProcs[q]
  BY <1>1 DEF DevInv, DevTypeOK
<1>3. \A q \in DevProc : (Alive(q)' => Alive(q)) /\ (Late(q)' <=> Late(q))
  BY <1>1, <1>2 DEF Alive, Late
<1>4. OneServer' /\ MissedIsLate' /\ SpawnAlone' /\ ClearedLate'
  BY <1>1, <1>3 DEF DevInv, OneServer, MissedIsLate, SpawnAlone, ClearedLate
<1>5. StartingAwaited'
  BY <1>1, <1>2 DEF DevInv, StartingAwaited
<1>6. WaitersInOrder'
  BY <1>1, <1>2 DEF DevInv, WaitersInOrder, Alive
<1> QED
  BY <1>2, <1>4, <1>5, <1>6 DEF DevInv

\* Every step keeps the invariant (DevServer, one case for each group of steps).
LEMMA DevStepKeeps == DevInv /\ [DevNext]_devVars => DevInv'
<1> SUFFICES ASSUME DevInv, [DevNext]_devVars PROVE DevInv'
  OBVIOUS
<1>1. CASE UNCHANGED devVars
  BY <1>1 DEF devVars, DevInv, DevTypeOK, OneServer, MissedIsLate, StartingAwaited, SpawnAlone,
     ClearedLate, WaitersInOrder, Alive, Late
<1> QED
  BY <1>1, CallerKeeps, SpawnKeeps, StoppedKeeps, WaiterKeeps, ProcessKeeps DEF DevNext

LEMMA DevInvImplies == DevInv => DevTypeOK /\ DevSound
  BY DEF DevInv, StartingAwaited, DevSound, NoHalfStart

\* However late the goroutine of an old process reads and writes the server's
\* fields, and whichever GET times out: a live process that Stop would not stop
\* was overlooked by a probe after an earlier one's goroutine had cleared
\* `running` late, and one is left half started only where another server
\* answered (session/devserver.go).
THEOREM DevServerIsSound == DevSpec => [](DevTypeOK /\ DevSound)
<1> QED
  BY DevInitially, DevStepKeeps, DevInvImplies, PTL DEF DevSpec

-----------------------------------------------------------------------------
(***************************************************************************)
(* The flag and its watcher.  Every write of the flag is an event, and the *)
(* watcher compares what it reads with what it last reported.              *)
(***************************************************************************)

FlagName == ApIssue \union {"none"}

FlagTypes ==
  /\ apFlag \in [issue : FlagName, title : FlagName]
  /\ apWriting \in [issue : FlagName, stage : {"none", "truncated", "issue"}]
  /\ apWatch \in {"off", "added", "watching"}
  /\ apEvent \in BOOLEAN
  /\ apNoted \in Seq([issue : FlagName, title : FlagName])

\* The title is the issue's or still missing; how far a write is shows in the file.
FlagOfOneIssue ==
  /\ apFlag.title \in {"none", apFlag.issue}
  /\ apWriting.stage = "truncated" => apFlag = NoFlag
  /\ apWriting.stage = "issue" => apFlag.issue = apWriting.issue

\* A watcher without an event to handle knows the flag, even in the middle of a write.
FlagKnown ==
  apWatch = "watching" /\ ~ apEvent /\ apFlag.issue # "none" => LastNoted = apFlag.issue

FlagInv == FlagTypes /\ FlagOfOneIssue /\ FlagKnown /\ ReportsAreWhole

LEMMA FlagInitially == ApInit => FlagInv
<1> SUFFICES ASSUME ApInit PROVE FlagInv
  OBVIOUS
<1>1. apFlag \in [issue : FlagName, title : FlagName] /\ apFlag.title \in {"none", apFlag.issue}
  <2>1. CASE apFlag = NoFlag
    BY <2>1 DEF FlagName, NoFlag
  <2>2. ASSUME NEW i \in ApIssue, apFlag = [issue |-> i, title |-> i]
        PROVE  apFlag \in [issue : FlagName, title : FlagName] /\ apFlag.title \in {"none", apFlag.issue}
    BY <2>2 DEF FlagName
  <2> QED
    BY <2>1, <2>2 DEF ApInit
<1>2. FlagTypes
  <2>1. << >> \in Seq([issue : FlagName, title : FlagName])
    OBVIOUS
  <2>2. [issue |-> "none", stage |-> "none"] \in [issue : FlagName, stage : {"none", "truncated", "issue"}]
    BY DEF FlagName
  <2> QED
    BY <1>1, <2>1, <2>2 DEF ApInit, FlagTypes
<1>3. FlagOfOneIssue
  BY <1>1 DEF ApInit, FlagOfOneIssue
<1>4. FlagKnown /\ ReportsAreWhole
  BY DEF ApInit, FlagKnown, ReportsAreWhole
<1> QED
  BY <1>2, <1>3, <1>4 DEF FlagInv

\* Steps that report nothing.
LEMMA WriteKeeps ==
  ASSUME FlagInv, SessionWritesFlag \/ WriteFlag
  PROVE  FlagInv'
<1>1. UNCHANGED <<apWatch, apNoted>> /\ apEvent' = (apWatch # "off")
  BY DEF SessionWritesFlag, WriteFlag
<1>2. FlagTypes' /\ FlagOfOneIssue'
  <2>1. CASE WriteFlag
    BY <1>1, <2>1 DEF FlagInv, FlagTypes, FlagName, FlagOfOneIssue, WriteFlag, NoFlag
  <2>2. CASE SessionWritesFlag
    <3>1. FlagTypes'
      BY <1>1, <2>2 DEF FlagInv, FlagTypes, FlagName, SessionWritesFlag, NoFlag
    <3>2. FlagOfOneIssue'
      BY <2>2 DEF FlagInv, FlagTypes, FlagOfOneIssue, SessionWritesFlag, NoFlag
    <3> QED
      BY <3>1, <3>2
  <2> QED
    BY <2>1, <2>2
<1>3. FlagKnown'
  BY <1>1 DEF FlagKnown
<1>4. ReportsAreWhole'
  BY <1>1 DEF FlagInv, ReportsAreWhole
<1> QED
  BY <1>2, <1>3, <1>4 DEF FlagInv

\* A report of the flag as it is now.
LEMMA NotedKeeps ==
  ASSUME FlagInv, apNoted' = Noted, apWatch' = "watching", apEvent' \in BOOLEAN,
         UNCHANGED <<apFlag, apWriting>>
  PROVE  FlagInv'
<1>1. /\ apNoted' \in Seq([issue : FlagName, title : FlagName])
      /\ ReportsAreWhole'
      /\ apFlag.issue # "none" => LastNoted' = apFlag.issue
  <2>1. CASE apFlag.issue \in {"none", LastNoted}
    <3>1. apNoted' = apNoted
      BY <2>1 DEF Noted
    <3> QED
      BY <2>1, <3>1 DEF FlagInv, FlagTypes, ReportsAreWhole, LastNoted
  <2>2. CASE apFlag.issue \notin {"none", LastNoted}
    <3> DEFINE t == Append(apNoted, apFlag)
    <3>1. apNoted' = t
      BY <2>2 DEF Noted
    <3>2. /\ t \in Seq([issue : FlagName, title : FlagName])
          /\ Len(apNoted) \in Nat /\ Len(t) = Len(apNoted) + 1
          /\ DOMAIN t = 1 .. Len(apNoted) + 1 /\ DOMAIN apNoted = 1 .. Len(apNoted)
          /\ t[Len(apNoted) + 1] = apFlag
          /\ \A i \in 1 .. Len(apNoted) : t[i] = apNoted[i]
          /\ t # << >> /\ Last(t) = apFlag
      BY DEF FlagInv, FlagTypes, Last
    <3> HIDE DEF t
    <3>3. apNoted # << >> => apNoted[Len(apNoted)].issue # apFlag.issue /\ Len(apNoted) >= 1
      BY <2>2, <3>2 DEF LastNoted, Last, FlagInv, FlagTypes
    <3>4. \A i \in DOMAIN t : t[i].title \in {"none", t[i].issue}
      BY <3>2 DEF FlagInv, FlagOfOneIssue, ReportsAreWhole
    <3>5. ASSUME NEW i \in DOMAIN t, i > 1 PROVE t[i].issue # t[i - 1].issue
      <4>1. CASE i = Len(apNoted) + 1
        BY <3>2, <3>3, <3>5, <4>1
      <4>2. CASE i \in 1 .. Len(apNoted)
        <5>1. i - 1 \in 1 .. Len(apNoted)
          BY <3>2, <3>5, <4>2
        <5> QED
          BY <3>2, <3>5, <4>2, <5>1 DEF FlagInv, ReportsAreWhole
      <4> QED
        BY <3>2, <4>1, <4>2
    <3>6. LastNoted' = apFlag.issue
      BY <3>1, <3>2 DEF LastNoted
    <3> QED
      BY <3>1, <3>2, <3>4, <3>5, <3>6 DEF ReportsAreWhole
  <2> QED
    BY <2>1, <2>2
<1>2. FlagTypes' /\ FlagOfOneIssue'
  BY <1>1 DEF FlagInv, FlagTypes, FlagOfOneIssue
<1> QED
  BY <1>1, <1>2 DEF FlagInv, FlagKnown

\* Every step keeps the invariant; those at the terminal leave the flag alone.
LEMMA FlagStepKeeps == FlagInv /\ [ApNext]_apVars => FlagInv'
<1> SUFFICES ASSUME FlagInv, [ApNext]_apVars PROVE FlagInv'
  OBVIOUS
<1>1. CASE UNCHANGED flagVars
  BY <1>1 DEF flagVars, FlagInv, FlagTypes, FlagOfOneIssue, FlagKnown, ReportsAreWhole, LastNoted
<1>2. CASE AddFlagWatch
  BY <1>2 DEF AddFlagWatch, FlagInv, FlagTypes, FlagOfOneIssue, FlagKnown, ReportsAreWhole
<1>3. CASE FirstFlag \/ FlagEvent
  BY <1>3, NotedKeeps DEF FirstFlag, FlagEvent, FlagInv, FlagTypes
<1>4. CASE SessionWritesFlag \/ WriteFlag
  BY <1>4, WriteKeeps
<1>5. CASE TypeLine \/ \E r \in ApRequest : \/ RequestApproval(r) \/ ReadLine(r) \/ InputEnds(r)
                                           \/ Answered(r) \/ Cancelled(r)
  BY <1>1, <1>5 DEF TypeLine, RequestApproval, ReadLine, InputEnds, Answered, Cancelled
<1>6. CASE UNCHANGED apVars
  BY <1>1, <1>6 DEF apVars
<1> QED
  BY <1>2, <1>3, <1>4, <1>5, <1>6 DEF ApNext

LEMMA FlagInvImplies == FlagInv => FlagSound
  BY DEF FlagInv, FlagSound, FlagKnown, NoIssueMissed

\* However the steps of a write meet the reads of the watcher, no issue that
\* stays in the flag is missed, none is reported twice in a row, and no title of
\* another issue is reported (session/flag_watcher.go).
THEOREM FlagIsSound == ApSpec => []FlagSound
<1> QED
  BY FlagInitially, FlagStepKeeps, FlagInvImplies, PTL DEF ApSpec

(***************************************************************************)
(* The terminal.  The bytes typed are one text; the readers take it from   *)
(* its beginning, each byte once, and what is said of them is said of      *)
(* places in it.                                                           *)
(***************************************************************************)

Byte == {NewLine} \union UNION {{line[i] : i \in DOMAIN line} : line \in ApLine}

\* The text of the lines typed.
Ended(text, line) == text \o Append(line, NewLine)
Concatenated(typed) == FoldLeft(Ended, << >>, typed)

Texts == INSTANCE Folding WITH Step <- Ended

\* Where a line begins: the bytes before it.
BytesBefore(typed, i) == Len(Concatenated(SubSeq(typed, 1, i - 1)))

LEMMA LinesAreBytes ==
  ASSUME NEW line \in ApLine
  PROVE  /\ line \in Seq(Byte) /\ Append(line, NewLine) \in Seq(Byte)
         /\ Len(line) \in Nat /\ Len(Append(line, NewLine)) = Len(line) + 1
         /\ Append(line, NewLine)[Len(line) + 1] = NewLine
         /\ \A j \in 1 .. Len(line) : Append(line, NewLine)[j] = line[j] /\ line[j] # NewLine
<1>1. NewLine \in Byte
  BY DEF Byte
<1>2. line \in Seq(Byte) /\ \A i \in DOMAIN line : line[i] # NewLine
  <2>1. line \in Seq(STRING) /\ \A i \in DOMAIN line : line[i] # NewLine
    BY ApAssumption
  <2>2. \A i \in DOMAIN line : line[i] \in Byte
    BY DEF Byte
  <2> QED
    BY <2>1, <2>2
<1> QED
  BY <1>1, <1>2

LEMMA JoinedIs ==
  /\ Concatenated(<< >>) = << >>
  /\ \A s \in Seq(ApLine), line \in ApLine : Concatenated(Append(s, line)) = Concatenated(s) \o Append(line, NewLine)
  /\ \A s \in Seq(ApLine) : Concatenated(s) \in Seq(Byte)
<1>1. \A s : Concatenated(s) = Texts!Folded(<< >>, s)
  BY DEF Concatenated, FoldLeft, MapThenFoldSet, Max, Texts!Folded, Texts!Greatest
<1>2. Texts!Folded(<< >>, << >>) = << >>
  BY Texts!FoldEmpty
<1>3. \A s \in Seq(ApLine), line \in ApLine :
        Texts!Folded(<< >>, Append(s, line)) = Ended(Texts!Folded(<< >>, s), line)
  BY Texts!FoldAppend
<1>4. << >> \in Seq(Byte) /\ \A t \in Seq(Byte), line \in ApLine : Ended(t, line) \in Seq(Byte)
  <2>1. \A t \in Seq(Byte), u \in Seq(Byte) : t \o u \in Seq(Byte)
    OBVIOUS
  <2> QED
    BY <2>1, LinesAreBytes DEF Ended
<1>5. \A s \in Seq(ApLine) : Texts!Folded(<< >>, s) \in Seq(Byte)
  BY <1>4, Texts!FoldKeeps
<1> QED
  BY <1>1, <1>2, <1>3, <1>5 DEF Ended

\* A line more leaves the text before it.
LEMMA JoinedGrows ==
  ASSUME NEW s \in Seq(ApLine), NEW line \in ApLine
  PROVE  /\ Len(Concatenated(s)) \in Nat
         /\ Len(Concatenated(Append(s, line))) = Len(Concatenated(s)) + (Len(line) + 1)
         /\ \A p \in 1 .. Len(Concatenated(s)) : Concatenated(Append(s, line))[p] = Concatenated(s)[p]
         /\ \A j \in 1 .. Len(line) + 1 :
              Concatenated(Append(s, line))[Len(Concatenated(s)) + j] = Append(line, NewLine)[j]
<1> DEFINE t == Concatenated(s)
           u == Append(line, NewLine)
<1>1. t \in Seq(Byte) /\ u \in Seq(Byte) /\ Len(u) = Len(line) + 1 /\ Len(line) \in Nat
  BY JoinedIs, LinesAreBytes
<1>2. Concatenated(Append(s, line)) = t \o u
  BY JoinedIs
<1> HIDE DEF t, u
<1>3. /\ Len(t) \in Nat /\ Len(t \o u) = Len(t) + Len(u)
      /\ \A p \in 1 .. Len(t) : (t \o u)[p] = t[p]
      /\ \A j \in 1 .. Len(u) : (t \o u)[Len(t) + j] = u[j]
  BY <1>1
<1> QED
  BY <1>1, <1>2, <1>3 DEF t, u

LEMMA BeforeIs ==
  ASSUME NEW s \in Seq(ApLine)
  PROVE  /\ BytesBefore(s, 1) = 0
         /\ BytesBefore(s, Len(s) + 1) = Len(Concatenated(s))
         /\ \A line \in ApLine : \A i \in 1 .. Len(s) + 1 : BytesBefore(Append(s, line), i) = BytesBefore(s, i)
<1>1. SubSeq(s, 1, 0) = << >> /\ SubSeq(s, 1, Len(s)) = s /\ Len(s) \in Nat
  OBVIOUS
<1>2. ASSUME NEW line \in ApLine, NEW i \in 1 .. Len(s) + 1
      PROVE  SubSeq(Append(s, line), 1, i - 1) = SubSeq(s, 1, i - 1)
  <2>1. i - 1 \in Int /\ i - 1 <= Len(s) /\ i - 1 <= Len(Append(s, line)) /\ Append(s, line) \in Seq(ApLine)
    OBVIOUS
  <2>2. /\ Len(SubSeq(Append(s, line), 1, i - 1)) = i - 1 /\ Len(SubSeq(s, 1, i - 1)) = i - 1
        /\ SubSeq(Append(s, line), 1, i - 1) \in Seq(ApLine) /\ SubSeq(s, 1, i - 1) \in Seq(ApLine)
    BY <2>1
  <2>3. \A j \in 1 .. i - 1 : SubSeq(Append(s, line), 1, i - 1)[j] = SubSeq(s, 1, i - 1)[j]
    BY <2>1
  <2> QED
    BY <2>2, <2>3
<1>3. (1 - 1) = 0 /\ (Len(s) + 1) - 1 = Len(s)
  BY <1>1
<1>4. BytesBefore(s, 1) = 0
  <2>1. BytesBefore(s, 1) = Len(Concatenated(SubSeq(s, 1, 0)))
    BY <1>3, Zenon DEF BytesBefore
  <2>2. Concatenated(SubSeq(s, 1, 0)) = << >>
    BY <1>1, JoinedIs
  <2> QED
    BY <2>1, <2>2
<1> QED
  BY <1>1, <1>2, <1>3, <1>4 DEF BytesBefore

\* Every line is in the text, at its place, and every byte is one of a line.
PlacedLine(s, i) ==
  /\ BytesBefore(s, i) \in Nat
  /\ BytesBefore(s, i + 1) = BytesBefore(s, i) + (Len(s[i]) + 1)
  /\ BytesBefore(s, i + 1) <= Len(Concatenated(s))
  /\ \A j \in 1 .. Len(s[i]) + 1 : Concatenated(s)[BytesBefore(s, i) + j] = Append(s[i], NewLine)[j]

OfLine(s, p, i) == \E j \in 1 .. Len(s[i]) + 1 : p = BytesBefore(s, i) + j

Located(s) ==
  /\ \A i \in DOMAIN s : PlacedLine(s, i)
  /\ \A p \in 1 .. Len(Concatenated(s)) : \E i \in DOMAIN s : OfLine(s, p, i)

LEMMA LocatedGrows ==
  ASSUME NEW s \in Seq(ApLine), NEW line \in ApLine, Located(s)
  PROVE  Located(Append(s, line))
<1> DEFINE r == Append(s, line)
           n == Len(s)
<1>1. /\ n \in Nat /\ r \in Seq(ApLine) /\ Len(r) = n + 1 /\ DOMAIN r = 1 .. n + 1 /\ DOMAIN s = 1 .. n
      /\ r[n + 1] = line /\ \A i \in 1 .. n : r[i] = s[i] /\ s[i] \in ApLine
  OBVIOUS
<1>2. /\ Len(Concatenated(s)) \in Nat
      /\ Len(Concatenated(r)) = Len(Concatenated(s)) + (Len(line) + 1)
      /\ \A p \in 1 .. Len(Concatenated(s)) : Concatenated(r)[p] = Concatenated(s)[p]
      /\ \A j \in 1 .. Len(line) + 1 : Concatenated(r)[Len(Concatenated(s)) + j] = Append(line, NewLine)[j]
  BY JoinedGrows
<1>3. \A i \in 1 .. n + 1 : BytesBefore(r, i) = BytesBefore(s, i)
  BY BeforeIs
<1>4. BytesBefore(s, n + 1) = Len(Concatenated(s)) /\ BytesBefore(r, (n + 1) + 1) = Len(Concatenated(r))
  <2>1. BytesBefore(r, Len(r) + 1) = Len(Concatenated(r))
    BY <1>1, BeforeIs
  <2>2. BytesBefore(s, n + 1) = Len(Concatenated(s))
    BY BeforeIs
  <2> QED
    BY <1>1, <2>1, <2>2
<1>5. Len(line) \in Nat
  BY LinesAreBytes
<1> HIDE DEF r, n
<1>6. ASSUME NEW i \in 1 .. n + 1
      PROVE  PlacedLine(r, i)
  <2>1. CASE i = n + 1
    <3>1. BytesBefore(r, i) = Len(Concatenated(s)) /\ r[i] = line /\ BytesBefore(r, i + 1) = Len(Concatenated(r))
      BY <1>1, <1>3, <1>4, <2>1
    <3>2. \A j \in 1 .. Len(r[i]) + 1 : Concatenated(r)[BytesBefore(r, i) + j] = Append(r[i], NewLine)[j]
      BY <1>2, <3>1
    <3>3. Len(Concatenated(r)) <= Len(Concatenated(r))
      BY <1>2, <1>5
    <3> QED
      BY <1>2, <3>1, <3>2, <3>3 DEF PlacedLine
  <2>2. CASE i # n + 1
    <3>1. i \in 1 .. n /\ i + 1 \in 1 .. n + 1
      BY <1>1, <2>2
    <3>2. BytesBefore(r, i) = BytesBefore(s, i) /\ BytesBefore(r, i + 1) = BytesBefore(s, i + 1) /\ r[i] = s[i]
      BY <1>1, <1>3, <3>1
    <3>3. /\ BytesBefore(s, i) \in Nat
          /\ BytesBefore(s, i + 1) = BytesBefore(s, i) + (Len(s[i]) + 1)
          /\ BytesBefore(s, i + 1) <= Len(Concatenated(s))
          /\ \A j \in 1 .. Len(s[i]) + 1 : Concatenated(s)[BytesBefore(s, i) + j] = Append(s[i], NewLine)[j]
      BY <1>1, <3>1 DEF Located, PlacedLine
    <3>4. Len(s[i]) \in Nat
      BY <1>1, <3>1, LinesAreBytes
    <3>5. ASSUME NEW j \in 1 .. Len(s[i]) + 1
          PROVE  Concatenated(r)[BytesBefore(s, i) + j] = Append(s[i], NewLine)[j]
      <4>1. BytesBefore(s, i) + j \in 1 .. Len(Concatenated(s))
        BY <1>2, <3>3, <3>4
      <4> QED
        BY <1>2, <3>3, <4>1
    <3>6. BytesBefore(s, i + 1) <= Len(Concatenated(r))
      BY <1>2, <1>5, <3>3, <3>4
    <3> QED
      BY <3>2, <3>3, <3>5, <3>6 DEF PlacedLine
  <2> QED
    BY <2>1, <2>2
<1>7. ASSUME NEW p \in 1 .. Len(Concatenated(r))
      PROVE  \E i \in 1 .. n + 1 : OfLine(r, p, i)
  <2>1. CASE p <= Len(Concatenated(s))
    <3>1. PICK i \in 1 .. n : \E j \in 1 .. Len(s[i]) + 1 : p = BytesBefore(s, i) + j
      BY <1>1, <1>2, <2>1 DEF Located, OfLine
    <3>2. i \in 1 .. n + 1 /\ r[i] = s[i] /\ BytesBefore(r, i) = BytesBefore(s, i)
      BY <1>1, <1>3
    <3> QED
      BY <3>1, <3>2 DEF OfLine
  <2>2. CASE p > Len(Concatenated(s))
    <3>1. p - Len(Concatenated(s)) \in 1 .. Len(line) + 1 /\ p = Len(Concatenated(s)) + (p - Len(Concatenated(s)))
      BY <1>2, <1>5, <2>2
    <3>2. n + 1 \in 1 .. n + 1 /\ r[n + 1] = line /\ BytesBefore(r, n + 1) = Len(Concatenated(s))
      BY <1>1, <1>3, <1>4
    <3> QED
      BY <3>1, <3>2 DEF OfLine
  <2> QED
    BY <1>2, <2>1, <2>2
<1>8. DOMAIN r = 1 .. n + 1
  BY <1>1
<1>9. Located(r)
  BY <1>6, <1>7, <1>8, Zenon DEF Located
<1> QED
  BY <1>9 DEF r

LEMMA LinesLocated == \A s \in Seq(ApLine) : Located(s)
<1> DEFINE G == {s \in Seq(ApLine) : Located(s)}
<1>1. Located(<< >>)
  <2>1. DOMAIN << >> = {} /\ Concatenated(<< >>) = << >> /\ 1 .. Len(<< >>) = {}
    BY JoinedIs
  <2> QED
    BY <2>1 DEF Located
<1>2. << >> \in Seq(ApLine) /\ \A s \in Seq(ApLine), line \in ApLine : Append(s, line) \in Seq(ApLine)
  OBVIOUS
<1>3. \A s \in Seq(ApLine), line \in ApLine : s \in G => Append(s, line) \in G
  BY <1>2, LocatedGrows
<1>4. << >> \in G
  BY <1>1, <1>2
<1> HIDE DEF G
<1>5. Seq(ApLine) \subseteq G
  BY <1>3, <1>4, Texts!SequencesGrow
<1> QED
  BY <1>5 DEF G

-----------------------------------------------------------------------------
(* Rounds: who asks, who reads and what is left to read. *)

ReaderAt == {"none", "reading", "done"}
Answer == {"none", "asking", "approved", "denied", "cancelled", "error"}

\* The bytes that were read.
BytesRead == Len(Concatenated(apTyped)) - Len(apInput)

TermTypes ==
  /\ apTyped \in Seq(ApLine)
  /\ apInput \in Seq(Byte)
  /\ apReader \in [ApRequest -> [at : ReaderAt, line : Seq(Byte)]]
  /\ apResult \in [ApRequest -> Answer]

\* What is not read is the rest of the text.
RestOfText ==
  /\ Len(apInput) <= Len(Concatenated(apTyped))
  /\ \A i \in 1 .. Len(apInput) : apInput[i] = Concatenated(apTyped)[BytesRead + i]

\* Only a request made at the terminal has a goroutine, from when it is made; it
\* is made after the ones before it, and what it answers is what was read.
Rounds ==
  \A r \in ApRequest :
    /\ apReader[r].at = "none" => apReader[r].line = << >>
    /\ apApprover # "stdin" => apReader[r].at = "none" /\ apResult[r] # "asking"
    /\ apApprover = "stdin" =>
         /\ apReader[r].at = "none" <=> apResult[r] = "none"
         /\ apResult[r] \in {"approved", "denied"} => apReader[r].at = "done"
         /\ apResult[r] = "approved" => Approves(apReader[r].line)
         /\ apResult[r] = "denied" => ~ Approves(apReader[r].line)
         /\ apResult[r] # "error"
    /\ apReader[r].at # "none" => \A q \in 1 .. r - 1 : apResult[q] \notin {"none", "asking"}

TermInv == TermTypes /\ RestOfText /\ Rounds

LEMMA Requests ==
  ASSUME NEW r \in ApRequest
  PROVE  /\ r \in Nat /\ r >= 1 /\ \A q \in 1 .. r : q \in ApRequest
  BY ApAssumption

LEMMA TermInitially == ApInit => TermInv
<1> SUFFICES ASSUME ApInit PROVE TermInv
  OBVIOUS
<1>1. /\ apTyped = << >> /\ apInput = << >>
      /\ apReader = [r \in ApRequest |-> [at |-> "none", line |-> << >>]]
      /\ apResult = [r \in ApRequest |-> "none"]
  BY DEF ApInit
<1>2. << >> \in Seq(ApLine) /\ << >> \in Seq(Byte) /\ Len(<< >>) = 0
  OBVIOUS
<1>3. TermTypes
  BY <1>1, <1>2 DEF TermTypes, ReaderAt, Answer
<1>4. Concatenated(apTyped) = << >>
  BY <1>1, JoinedIs
<1>5. RestOfText
  BY <1>1, <1>2, <1>4 DEF RestOfText
<1>6. \A r \in ApRequest : apReader[r].at = "none" /\ apReader[r].line = << >> /\ apResult[r] = "none"
  BY <1>1
<1>7. Rounds
  BY <1>6 DEF Rounds
<1> QED
  BY <1>3, <1>5, <1>7 DEF TermInv

\* A line more at the end of the text, and of what is not read.
LEMMA TypedIs ==
  ASSUME TermInv, TypeLine
  PROVE  /\ Len(apTyped) < ApTyped
         /\ \E line \in ApLine : apTyped' = Append(apTyped, line)
         /\ TermTypes' /\ RestOfText' /\ BytesRead' = BytesRead
         /\ UNCHANGED << apApprover, apReader, apResult >>
<1>1. PICK line \in ApLine : /\ apTyped' = Append(apTyped, line)
                             /\ apInput' = apInput \o Append(line, NewLine)
  BY DEF TypeLine
<1>2. Len(apTyped) < ApTyped /\ UNCHANGED << apApprover, apReader, apResult >>
  BY DEF TypeLine
<1>3. apTyped \in Seq(ApLine) /\ apInput \in Seq(Byte)
  BY DEF TermInv, TermTypes
<1> DEFINE u == Append(line, NewLine)
           t == Concatenated(apTyped)
           n == Len(line) + 1
<1>4. /\ u \in Seq(Byte) /\ Len(u) = n /\ n \in Nat
  BY LinesAreBytes
<1>5. /\ Len(t) \in Nat /\ Len(Concatenated(apTyped)') = Len(t) + n
      /\ \A p \in 1 .. Len(t) : Concatenated(apTyped)'[p] = t[p]
      /\ \A j \in 1 .. n : Concatenated(apTyped)'[Len(t) + j] = u[j]
  BY <1>1, <1>3, JoinedGrows
<1>6. apTyped' \in Seq(ApLine)
  BY <1>1, <1>3
<1> HIDE DEF u, t, n
<1>7. /\ apInput \o u \in Seq(Byte) /\ Len(apInput) \in Nat /\ Len(apInput \o u) = Len(apInput) + n
      /\ \A i \in 1 .. Len(apInput) : (apInput \o u)[i] = apInput[i]
      /\ \A i \in Len(apInput) + 1 .. Len(apInput) + n : (apInput \o u)[i] = u[i - Len(apInput)]
  BY <1>3, <1>4
<1>8. apInput' = apInput \o u
  BY <1>1 DEF u
<1>9. TermTypes'
  BY <1>2, <1>6, <1>7, <1>8 DEF TermInv, TermTypes
<1>10. BytesRead = Len(t) - Len(apInput) /\ Len(apInput) <= Len(t)
       /\ \A i \in 1 .. Len(apInput) : apInput[i] = t[BytesRead + i]
  BY DEF TermInv, RestOfText, BytesRead, t
<1>11. BytesRead' = Len(Concatenated(apTyped)') - Len(apInput')
  BY DEF BytesRead
<1>12. BytesRead' = BytesRead /\ Len(apInput') <= Len(Concatenated(apTyped)')
  BY <1>4, <1>5, <1>7, <1>8, <1>10, <1>11
<1>13. ASSUME NEW i \in 1 .. Len(apInput') PROVE apInput'[i] = Concatenated(apTyped)'[BytesRead' + i]
  <2>1. CASE i <= Len(apInput)
    <3>1. BytesRead + i \in 1 .. Len(t)
      BY <1>5, <1>7, <1>10, <2>1
    <3>2. i \in 1 .. Len(apInput)
      BY <1>7, <2>1
    <3> QED
      BY <1>5, <1>7, <1>8, <1>10, <1>12, <3>1, <3>2
  <2>2. CASE i > Len(apInput)
    <3> DEFINE j == i - Len(apInput)
    <3>1. j \in 1 .. n /\ BytesRead + i = Len(t) + j /\ i \in Len(apInput) + 1 .. Len(apInput) + n
      BY <1>4, <1>5, <1>7, <1>8, <1>10, <2>2
    <3>2. apInput'[i] = u[j]
      BY <1>7, <1>8, <3>1
    <3>3. Concatenated(apTyped)'[Len(t) + j] = u[j]
      BY <1>5, <3>1
    <3> QED
      BY <1>12, <3>1, <3>2, <3>3
  <2> QED
    BY <1>7, <2>1, <2>2
<1>14. RestOfText'
  BY <1>12, <1>13 DEF RestOfText
<1> QED
  BY <1>1, <1>2, <1>9, <1>12, <1>14

\* The next byte of the text goes to a reader.
LEMMA ByteIs ==
  ASSUME TermInv, NEW r \in ApRequest, ReadLine(r)
  PROVE  /\ apReader[r].at = "reading"
         /\ BytesRead \in Nat /\ BytesRead + 1 <= Len(Concatenated(apTyped)) /\ BytesRead' = BytesRead + 1
         /\ Head(apInput) = Concatenated(apTyped)[BytesRead + 1] /\ Head(apInput) \in Byte
         /\ TermTypes' /\ RestOfText'
         /\ UNCHANGED << apApprover, apTyped, apResult >>
         /\ \A q \in ApRequest \ {r} : apReader'[q] = apReader[q]
         /\ IF Head(apInput) = NewLine
            THEN apReader'[r] = [at |-> "done", line |-> apReader[r].line]
            ELSE apReader'[r] = [at |-> "reading", line |-> Append(apReader[r].line, Head(apInput))]
<1>1. /\ apReader[r].at = "reading" /\ apInput # << >> /\ apInput' = Tail(apInput)
      /\ UNCHANGED << apApprover, apTyped, apResult >>
  BY DEF ReadLine
<1> DEFINE new == WithByte(apReader[r], Head(apInput))
<1>2. apReader' = [apReader EXCEPT ![r] = new]
  BY DEF ReadLine
<1>3. /\ apTyped \in Seq(ApLine) /\ apInput \in Seq(Byte)
      /\ apReader \in [ApRequest -> [at : ReaderAt, line : Seq(Byte)]]
      /\ apResult \in [ApRequest -> Answer]
  BY DEF TermInv, TermTypes
<1>4. /\ Len(apInput) \in Nat /\ Len(apInput) >= 1 /\ Head(apInput) = apInput[1] /\ Head(apInput) \in Byte
      /\ Tail(apInput) \in Seq(Byte) /\ Len(Tail(apInput)) = Len(apInput) - 1
      /\ \A i \in 1 .. Len(apInput) - 1 : Tail(apInput)[i] = apInput[i + 1]
  BY <1>1, <1>3
<1>5. apReader[r] \in [at : ReaderAt, line : Seq(Byte)]
  BY <1>3
<1>6. new = IF Head(apInput) = NewLine THEN [at |-> "done", line |-> apReader[r].line]
            ELSE [at |-> "reading", line |-> Append(apReader[r].line, Head(apInput))]
  <2>1. [apReader[r] EXCEPT !.at = "done"] = [at |-> "done", line |-> apReader[r].line]
    BY <1>5
  <2>2. ASSUME NEW x PROVE [apReader[r] EXCEPT !.line = x] = [at |-> "reading", line |-> x]
    BY <1>1, <1>5
  <2> QED
    BY <2>1, <2>2 DEF WithByte
<1>7. new \in [at : ReaderAt, line : Seq(Byte)]
  <2>1. apReader[r].line \in Seq(Byte) /\ Append(apReader[r].line, Head(apInput)) \in Seq(Byte)
    BY <1>4, <1>5
  <2> HIDE DEF new
  <2> QED
    BY <1>6, <2>1 DEF ReaderAt
<1> HIDE DEF new
<1>8. /\ apReader' \in [ApRequest -> [at : ReaderAt, line : Seq(Byte)]]
      /\ apReader'[r] = new /\ \A q \in ApRequest \ {r} : apReader'[q] = apReader[q]
  BY <1>2, <1>3, <1>7
<1>9. TermTypes'
  BY <1>1, <1>3, <1>4, <1>8 DEF TermTypes
<1>10. Len(Concatenated(apTyped)) \in Nat
  BY <1>3, JoinedIs
<1>11. /\ BytesRead = Len(Concatenated(apTyped)) - Len(apInput) /\ Len(apInput) <= Len(Concatenated(apTyped))
       /\ \A i \in 1 .. Len(apInput) : apInput[i] = Concatenated(apTyped)[BytesRead + i]
  BY DEF TermInv, RestOfText, BytesRead
<1>12. Concatenated(apTyped)' = Concatenated(apTyped) /\ BytesRead' = Len(Concatenated(apTyped)') - Len(apInput')
  BY <1>1 DEF BytesRead
<1>13. BytesRead \in Nat /\ BytesRead + 1 <= Len(Concatenated(apTyped)) /\ BytesRead' = BytesRead + 1
  BY <1>1, <1>4, <1>10, <1>11, <1>12
<1>14. Head(apInput) = Concatenated(apTyped)[BytesRead + 1]
  <2>1. 1 \in 1 .. Len(apInput)
    BY <1>4
  <2> QED
    BY <1>4, <1>11, <2>1
<1>15. RestOfText'
  <2>1. ASSUME NEW i \in 1 .. Len(apInput')
        PROVE  apInput'[i] = Concatenated(apTyped)[(BytesRead + 1) + i]
    <3>1. i \in 1 .. Len(apInput) - 1 /\ i + 1 \in 1 .. Len(apInput)
      BY <1>1, <1>4
    <3>2. apInput'[i] = apInput[i + 1]
      BY <1>1, <1>4, <3>1
    <3>3. apInput[i + 1] = Concatenated(apTyped)[BytesRead + (i + 1)]
      BY <1>11, <3>1
    <3>4. BytesRead + (i + 1) = (BytesRead + 1) + i
      BY <1>13, <3>1
    <3> QED
      BY <3>2, <3>3, <3>4
  <2>2. Len(apInput') <= Len(Concatenated(apTyped)')
    BY <1>1, <1>4, <1>10, <1>11, <1>12
  <2> QED
    BY <1>12, <1>13, <2>1, <2>2 DEF RestOfText
<1> QED
  BY <1>1, <1>4, <1>6, <1>8, <1>9, <1>13, <1>14, <1>15

\* The terminal closes on a reader.
LEMMA EndIs ==
  ASSUME TermInv, NEW r \in ApRequest, InputEnds(r)
  PROVE  /\ apReader[r].at = "reading" /\ Len(apTyped) = ApTyped
         /\ BytesRead = Len(Concatenated(apTyped)) /\ BytesRead' = BytesRead
         /\ TermTypes' /\ RestOfText'
         /\ UNCHANGED << apApprover, apTyped, apInput, apResult >>
         /\ \A q \in ApRequest \ {r} : apReader'[q] = apReader[q]
         /\ apReader'[r] = [at |-> "done", line |-> apReader[r].line]
<1>1. /\ apReader[r].at = "reading" /\ apInput = << >> /\ Len(apTyped) = ApTyped
      /\ UNCHANGED << apApprover, apTyped, apInput, apResult >>
      /\ apReader' = [apReader EXCEPT ![r].at = "done"]
  BY DEF InputEnds
<1>2. /\ apTyped \in Seq(ApLine) /\ apInput \in Seq(Byte)
      /\ apReader \in [ApRequest -> [at : ReaderAt, line : Seq(Byte)]]
      /\ apResult \in [ApRequest -> Answer]
  BY DEF TermInv, TermTypes
<1>3. apReader[r] \in [at : ReaderAt, line : Seq(Byte)]
  BY <1>2
<1>4. /\ apReader' \in [ApRequest -> [at : ReaderAt, line : Seq(Byte)]]
      /\ apReader'[r] = [at |-> "done", line |-> apReader[r].line]
      /\ \A q \in ApRequest \ {r} : apReader'[q] = apReader[q]
  BY <1>1, <1>2, <1>3 DEF ReaderAt
<1>5. Len(apInput) = 0 /\ Len(Concatenated(apTyped)) \in Nat
  BY <1>1, <1>2, JoinedIs
<1>6. BytesRead = Len(Concatenated(apTyped)) /\ BytesRead' = BytesRead
  BY <1>1, <1>5 DEF BytesRead
<1>7. RestOfText'
  BY <1>1, <1>6 DEF TermInv, RestOfText
<1> QED
  BY <1>1, <1>2, <1>4, <1>6, <1>7 DEF TermTypes

\* A request: the answer of an approver that is no human, or a goroutine.
LEMMA RequestIs ==
  ASSUME TermInv, NEW r \in ApRequest, RequestApproval(r)
  PROVE  /\ apResult[r] = "none" /\ \A q \in 1 .. r - 1 : apResult[q] \notin {"none", "asking"}
         /\ TermTypes' /\ RestOfText' /\ BytesRead' = BytesRead
         /\ UNCHANGED << apApprover, apTyped, apInput >>
         /\ \A q \in ApRequest \ {r} : apReader'[q] = apReader[q] /\ apResult'[q] = apResult[q]
         /\ \/ /\ apApprover # "stdin" /\ apReader' = apReader
               /\ apResult'[r] \in {"approved", "denied", "error"}
            \/ /\ apApprover = "stdin" /\ apResult'[r] = "asking"
               /\ apReader'[r] = [at |-> "reading", line |-> apReader[r].line]
<1>1. /\ apResult[r] = "none" /\ (\A q \in 1 .. r - 1 : apResult[q] \notin {"none", "asking"})
      /\ UNCHANGED << apApprover, apTyped, apInput >>
  BY DEF RequestApproval
<1>2. /\ apTyped \in Seq(ApLine) /\ apInput \in Seq(Byte)
      /\ apReader \in [ApRequest -> [at : ReaderAt, line : Seq(Byte)]]
      /\ apResult \in [ApRequest -> Answer]
  BY DEF TermInv, TermTypes
<1>3. apReader[r] \in [at : ReaderAt, line : Seq(Byte)]
  BY <1>2
<1>4. BytesRead' = BytesRead /\ RestOfText'
  BY <1>1 DEF TermInv, RestOfText, BytesRead
<1>5. \/ /\ apApprover # "stdin" /\ apReader' = apReader
         /\ \E x \in {"approved", "denied", "error"} : apResult' = [apResult EXCEPT ![r] = x]
      \/ /\ apApprover = "stdin" /\ apResult' = [apResult EXCEPT ![r] = "asking"]
         /\ apReader' = [apReader EXCEPT ![r].at = "reading"]
  BY DEF RequestApproval
<1>6. CASE apReader' = apReader /\ \E x \in {"approved", "denied", "error"} : apResult' = [apResult EXCEPT ![r] = x]
  <2>1. PICK x \in {"approved", "denied", "error"} : apResult' = [apResult EXCEPT ![r] = x]
    BY <1>6
  <2>2. /\ apResult' \in [ApRequest -> Answer] /\ apResult'[r] = x
        /\ \A q \in ApRequest \ {r} : apResult'[q] = apResult[q]
    BY <1>2, <2>1 DEF Answer
  <2>3. apApprover # "stdin"
    BY <1>5, <2>2
  <2> QED
    BY <1>1, <1>2, <1>4, <1>6, <2>2, <2>3 DEF TermTypes
<1>7. CASE /\ apApprover = "stdin" /\ apResult' = [apResult EXCEPT ![r] = "asking"]
           /\ apReader' = [apReader EXCEPT ![r].at = "reading"]
  <2>1. /\ apResult' \in [ApRequest -> Answer] /\ apResult'[r] = "asking"
        /\ \A q \in ApRequest \ {r} : apResult'[q] = apResult[q]
    BY <1>2, <1>7 DEF Answer
  <2>2. /\ apReader' \in [ApRequest -> [at : ReaderAt, line : Seq(Byte)]]
        /\ apReader'[r] = [at |-> "reading", line |-> apReader[r].line]
        /\ \A q \in ApRequest \ {r} : apReader'[q] = apReader[q]
    BY <1>2, <1>3, <1>7 DEF ReaderAt
  <2> QED
    BY <1>1, <1>2, <1>4, <1>7, <2>1, <2>2 DEF TermTypes
<1> QED
  BY <1>5, <1>6, <1>7

\* A request that is no longer asking.
LEMMA AnswerIs ==
  ASSUME TermInv, NEW r \in ApRequest, Answered(r) \/ Cancelled(r)
  PROVE  /\ apResult[r] = "asking"
         /\ TermTypes' /\ RestOfText' /\ BytesRead' = BytesRead
         /\ UNCHANGED << apApprover, apTyped, apInput, apReader >>
         /\ \A q \in ApRequest \ {r} : apResult'[q] = apResult[q]
         /\ \/ apResult'[r] = "cancelled"
            \/ /\ apReader[r].at = "done"
               /\ apResult'[r] = IF Approves(apReader[r].line) THEN "approved" ELSE "denied"
<1> DEFINE new == IF Approves(apReader[r].line) THEN "approved" ELSE "denied"
<1>1. apResult[r] = "asking" /\ UNCHANGED << apApprover, apTyped, apInput, apReader >>
  BY DEF Answered, Cancelled, Asking
<1>2. /\ apTyped \in Seq(ApLine) /\ apInput \in Seq(Byte)
      /\ apReader \in [ApRequest -> [at : ReaderAt, line : Seq(Byte)]]
      /\ apResult \in [ApRequest -> Answer]
  BY DEF TermInv, TermTypes
<1>3. \/ apResult' = [apResult EXCEPT ![r] = "cancelled"]
      \/ apReader[r].at = "done" /\ apResult' = [apResult EXCEPT ![r] = new]
  BY DEF Answered, Cancelled
<1>4. new \in {"approved", "denied"}
  OBVIOUS
<1> HIDE DEF new
<1>5. /\ apResult' \in [ApRequest -> Answer]
      /\ \A q \in ApRequest \ {r} : apResult'[q] = apResult[q]
      /\ apResult'[r] = "cancelled" \/ (apReader[r].at = "done" /\ apResult'[r] = new)
  BY <1>2, <1>3, <1>4 DEF Answer
<1>6. BytesRead' = BytesRead /\ RestOfText'
  BY <1>1 DEF TermInv, RestOfText, BytesRead
<1> QED
  BY <1>1, <1>2, <1>5, <1>6 DEF TermTypes, new

LEMMA RoundsKeep ==
  ASSUME TermInv, NEW r \in ApRequest,
         TypeLine \/ RequestApproval(r) \/ ReadLine(r) \/ InputEnds(r) \/ Answered(r) \/ Cancelled(r)
  PROVE  Rounds'
<1>1. Rounds
  BY DEF TermInv
<1>2. CASE TypeLine
  <2>1. UNCHANGED << apApprover, apReader, apResult >>
    BY <1>2, TypedIs
  <2> QED
    BY <1>1, <2>1 DEF Rounds
<1>3. CASE ReadLine(r)
  <2>1. /\ apReader[r].at = "reading" /\ UNCHANGED << apApprover, apResult >>
        /\ (\A q \in ApRequest \ {r} : apReader'[q] = apReader[q])
        /\ apReader'[r].at \in {"reading", "done"}
    <3>1. /\ apReader[r].at = "reading" /\ UNCHANGED << apApprover, apResult >>
          /\ \A q \in ApRequest \ {r} : apReader'[q] = apReader[q]
      BY <1>3, ByteIs
    <3>2. \/ apReader'[r] = [at |-> "done", line |-> apReader[r].line]
          \/ apReader'[r] = [at |-> "reading", line |-> Append(apReader[r].line, Head(apInput))]
      BY <1>3, ByteIs
    <3> QED
      BY <3>1, <3>2
  <2> QED
    BY <1>1, <2>1 DEF Rounds
<1>4. CASE InputEnds(r)
  <2>1. /\ apReader[r].at = "reading" /\ UNCHANGED << apApprover, apResult >>
        /\ (\A q \in ApRequest \ {r} : apReader'[q] = apReader[q])
        /\ apReader'[r] = [at |-> "done", line |-> apReader[r].line]
    BY <1>4, EndIs
  <2>2. apReader'[r].at = "done" /\ apReader'[r].line = apReader[r].line
    BY <2>1
  <2> QED
    BY <1>1, <2>1, <2>2 DEF Rounds
<1>5. CASE RequestApproval(r)
  <2>1. /\ apResult[r] = "none" /\ \A q \in 1 .. r - 1 : apResult[q] \notin {"none", "asking"}
        /\ apApprover' = apApprover
        /\ \A q \in ApRequest \ {r} : apReader'[q] = apReader[q] /\ apResult'[q] = apResult[q]
        /\ \/ /\ apApprover # "stdin" /\ apReader' = apReader
              /\ apResult'[r] \in {"approved", "denied", "error"}
           \/ /\ apApprover = "stdin" /\ apResult'[r] = "asking"
              /\ apReader'[r] = [at |-> "reading", line |-> apReader[r].line]
    BY <1>5, RequestIs
  <2>2. ASSUME NEW q \in ApRequest, q # r, apReader'[q].at # "none"
        PROVE  \A p \in 1 .. q - 1 : apResult'[p] \notin {"none", "asking"}
    <3>1. \A p \in 1 .. q - 1 : apResult[p] \notin {"none", "asking"} /\ p \in ApRequest
      BY <1>1, <2>1, <2>2, Requests DEF Rounds
    <3>2. \A p \in 1 .. q - 1 : p # r
      BY <2>1, <3>1
    <3> QED
      BY <2>1, <3>1, <3>2
  <2>3. \A p \in 1 .. r - 1 : apResult'[p] \notin {"none", "asking"}
    <3>1. \A p \in 1 .. r - 1 : p \in ApRequest /\ p # r
      BY Requests
    <3> QED
      BY <2>1, <3>1
  <2>4. CASE apApprover # "stdin"
    <3>1. \A q \in ApRequest : apReader'[q] = apReader[q] /\ apResult'[q] # "asking"
      BY <1>1, <2>1, <2>4 DEF Rounds
    <3> QED
      BY <1>1, <2>1, <2>2, <2>3, <2>4, <3>1 DEF Rounds
  <2>5. CASE apApprover = "stdin"
    <3>1. apReader'[r].at = "reading" /\ apResult'[r] = "asking"
      BY <2>1, <2>5
    <3> QED
      BY <1>1, <2>1, <2>2, <2>3, <2>5, <3>1 DEF Rounds
  <2> QED
    BY <2>4, <2>5
<1>6. CASE Answered(r) \/ Cancelled(r)
  <2>1. /\ apResult[r] = "asking" /\ UNCHANGED << apApprover, apReader >>
        /\ (\A q \in ApRequest \ {r} : apResult'[q] = apResult[q])
        /\ \/ apResult'[r] = "cancelled"
           \/ /\ apReader[r].at = "done"
              /\ apResult'[r] = IF Approves(apReader[r].line) THEN "approved" ELSE "denied"
    BY <1>6, AnswerIs
  <2>2. ASSUME NEW q \in ApRequest, apReader[q].at # "none"
        PROVE  \A p \in 1 .. q - 1 : apResult'[p] \notin {"none", "asking"}
    <3>1. \A p \in 1 .. q - 1 : apResult[p] \notin {"none", "asking"} /\ p \in ApRequest
      BY <1>1, <2>2, Requests DEF Rounds
    <3> QED
      BY <2>1, <3>1
  <2>3. apReader[r].at # "none" /\ apApprover = "stdin"
    BY <1>1, <2>1 DEF Rounds
  <2> QED
    BY <1>1, <2>1, <2>2, <2>3 DEF Rounds
<1> QED
  BY <1>2, <1>3, <1>4, <1>5, <1>6

\* The steps of the flag leave the terminal alone.
LEMMA TermSteps ==
  ASSUME [ApNext]_apVars
  PROVE  \/ UNCHANGED termVars
         \/ \E r \in ApRequest : \/ RequestApproval(r) \/ ReadLine(r) \/ InputEnds(r)
                                 \/ Answered(r) \/ Cancelled(r)
         \/ TypeLine
<1>1. CASE UNCHANGED apVars
  BY <1>1 DEF apVars
<1>2. CASE SessionWritesFlag \/ WriteFlag \/ AddFlagWatch \/ FirstFlag \/ FlagEvent
  BY <1>2, Zenon DEF SessionWritesFlag, WriteFlag, AddFlagWatch, FirstFlag, FlagEvent
<1> QED
  BY <1>1, <1>2, Zenon DEF ApNext

-----------------------------------------------------------------------------
(* In order: as long as nothing is cancelled, one reads after the other. *)

Uncancelled(r) == apApprover = "stdin" /\ \A q \in 1 .. r : apResult[q] # "cancelled"

\* Where the answer to a request begins in the text, or its end.
StartOf(r) ==
  IF r <= Len(apTyped) + 1 THEN BytesBefore(apTyped, r) ELSE Len(Concatenated(apTyped))

\* What a reader holds of its line is what the text has there.
ReadsItsLine(r) ==
  /\ r <= Len(apTyped) + 1 \/ Len(apTyped) = ApTyped
  /\ BytesRead = StartOf(r) + Len(apReader[r].line)
  /\ \A i \in 1 .. Len(apReader[r].line) :
       /\ apReader[r].line[i] # NewLine
       /\ apReader[r].line[i] = Concatenated(apTyped)[StartOf(r) + i]

HasItsLine(r) ==
  IF r \in DOMAIN apTyped THEN apReader[r].line = apTyped[r]
  ELSE apReader[r].line = << >> /\ Len(apTyped) = ApTyped

\* Nobody has read beyond the line of the last reader that is done.
ReadInTurn(r) ==
  /\ apReader[r].at = "reading" => ReadsItsLine(r)
  /\ apReader[r].at = "done" => HasItsLine(r)
  /\ apReader[r].at = "done" /\ (r + 1 \in ApRequest => apReader[r + 1].at = "none") =>
       BytesRead = StartOf(r + 1)

OrderInv ==
  /\ apApprover = "stdin" /\ (1 \in ApRequest => apReader[1].at = "none") => BytesRead = 0
  /\ \A r \in ApRequest : Uncancelled(r) => ReadInTurn(r)

LEMMA OrderInitially == ApInit => OrderInv
<1> SUFFICES ASSUME ApInit PROVE OrderInv
  OBVIOUS
<1>1. /\ apTyped = << >> /\ apInput = << >>
      /\ apReader = [r \in ApRequest |-> [at |-> "none", line |-> << >>]]
  BY DEF ApInit
<1>2. BytesRead = 0
  <2>1. Concatenated(apTyped) = << >> /\ Len(<< >>) = 0
    BY <1>1, JoinedIs
  <2> QED
    BY <1>1, <2>1 DEF BytesRead
<1>3. \A r \in ApRequest : apReader[r].at = "none"
  BY <1>1
<1> QED
  BY <1>2, <1>3 DEF OrderInv, ReadInTurn

\* In an order of uncancelled requests those before a reader are done, and none
\* after it has begun.
LEMMA OthersAreNotReading ==
  ASSUME TermInv, NEW r \in ApRequest, apReader[r].at # "none", apResult[r] # "none",
         NEW q \in ApRequest, q # r, Uncancelled(q)
  PROVE  /\ q < r => apReader[q].at = "done" /\ \A p \in 1 .. r : apReader[p].at # "none"
         /\ q > r => apReader[q].at = "none" \/ (apResult[r] # "asking" /\ apReader[r].at = "done")
<1>1. Rounds /\ apReader \in [ApRequest -> [at : ReaderAt, line : Seq(Byte)]]
      /\ apResult \in [ApRequest -> Answer]
  BY DEF TermInv, TermTypes
<1>2. apApprover = "stdin" /\ \A p \in 1 .. q : apResult[p] # "cancelled"
  BY DEF Uncancelled
<1>3. /\ r \in Nat /\ r >= 1 /\ (\A p \in 1 .. r : p \in ApRequest)
      /\ q \in Nat /\ q >= 1
  BY Requests
<1>4. ASSUME q < r PROVE apReader[q].at = "done" /\ \A p \in 1 .. r : apReader[p].at # "none"
  <2>1. \A p \in 1 .. r - 1 : p \in ApRequest /\ apResult[p] \notin {"none", "asking"}
    BY <1>1, <1>3 DEF Rounds
  <2>2. q \in 1 .. r - 1 /\ apResult[q] \notin {"none", "asking", "cancelled"}
    <3>1. q \in 1 .. r - 1 /\ q \in 1 .. q
      BY <1>3, <1>4
    <3> QED
      BY <1>2, <2>1, <3>1
  <2>3. apResult[q] \in {"approved", "denied"}
    BY <1>1, <1>2, <2>2 DEF Rounds, Answer
  <2>4. apReader[q].at = "done"
    BY <1>1, <1>2, <2>3 DEF Rounds
  <2>5. \A p \in 1 .. r - 1 : apReader[p].at # "none"
    BY <1>1, <1>2, <2>1 DEF Rounds
  <2>6. \A p \in 1 .. r : p = r \/ p \in 1 .. r - 1
    BY <1>3
  <2> QED
    BY <2>4, <2>5, <2>6
<1>5. ASSUME q > r, apReader[q].at # "none" PROVE apResult[r] # "asking" /\ apReader[r].at = "done"
  <2>1. r \in 1 .. q - 1 /\ r \in 1 .. q
    BY <1>3, <1>5
  <2>2. apResult[r] \notin {"none", "asking", "cancelled"}
    BY <1>1, <1>2, <1>5, <2>1 DEF Rounds
  <2>3. apResult[r] \in {"approved", "denied"}
    BY <1>1, <1>2, <2>2 DEF Rounds, Answer
  <2> QED
    BY <1>1, <1>2, <2>2, <2>3 DEF Rounds
<1> QED
  BY <1>4, <1>5

\* A byte of its line, or the end of it.
LEMMA ByteOfLine ==
  ASSUME TermInv, NEW r \in ApRequest, ReadLine(r), ReadsItsLine(r)
  PROVE  /\ apReader'[r].at = "reading" => ReadsItsLine(r)'
         /\ apReader'[r].at = "done" => HasItsLine(r)' /\ BytesRead' = StartOf(r + 1)'
<1> DEFINE t == Concatenated(apTyped)
           l == apReader[r].line
           c == Head(apInput)
           k == Len(l)
           b == BytesBefore(apTyped, r)
<1>1. /\ BytesRead \in Nat /\ BytesRead + 1 <= Len(t) /\ BytesRead' = BytesRead + 1
      /\ c = t[BytesRead + 1] /\ c \in Byte
      /\ UNCHANGED << apApprover, apTyped, apResult >>
      /\ IF c = NewLine THEN apReader'[r] = [at |-> "done", line |-> l]
         ELSE apReader'[r] = [at |-> "reading", line |-> Append(l, c)]
  BY ByteIs
<1>2. apTyped \in Seq(ApLine) /\ l \in Seq(Byte) /\ t \in Seq(Byte)
  BY JoinedIs DEF TermInv, TermTypes
<1>3. /\ k \in Nat /\ Len(t) \in Nat /\ Len(apTyped) \in Nat /\ DOMAIN apTyped = 1 .. Len(apTyped)
      /\ r \in Nat /\ r >= 1
  BY <1>2, Requests
<1>4. /\ BytesRead = StartOf(r) + k
      /\ \A i \in 1 .. k : l[i] # NewLine /\ l[i] = t[StartOf(r) + i]
  BY DEF ReadsItsLine
<1>5. r \in 1 .. Len(apTyped)
  <2>1. ASSUME r > Len(apTyped) PROVE StartOf(r) = Len(t)
    <3>1. CASE r = Len(apTyped) + 1
      BY <1>2, <3>1, BeforeIs DEF StartOf
    <3>2. CASE r # Len(apTyped) + 1
      <4>1. ~ (r <= Len(apTyped) + 1)
        BY <1>3, <2>1, <3>2
      <4> QED
        BY <4>1 DEF StartOf
    <3> QED
      BY <3>1, <3>2
  <2> HIDE DEF t, k
  <2> QED
    BY <1>1, <1>3, <1>4, <2>1
<1>6. StartOf(r) = b
  <2>1. r <= Len(apTyped) + 1
    BY <1>3, <1>5
  <2> QED
    BY <2>1 DEF StartOf
<1> DEFINE a == apTyped[r]
           n == Len(apTyped[r])
<1>7. a \in ApLine /\ n \in Nat
  BY <1>2, <1>5, LinesAreBytes
<1>8. /\ b \in Nat /\ BytesBefore(apTyped, r + 1) = b + (n + 1) /\ b + (n + 1) <= Len(t)
      /\ \A j \in 1 .. n + 1 : t[b + j] = Append(a, NewLine)[j]
  BY <1>2, <1>3, <1>5, LinesLocated DEF Located, PlacedLine
<1>9. /\ a \in Seq(Byte) /\ Append(a, NewLine)[n + 1] = NewLine
      /\ \A j \in 1 .. n : Append(a, NewLine)[j] = a[j] /\ a[j] # NewLine
  BY <1>7, LinesAreBytes
<1>10. r + 1 <= Len(apTyped) + 1 /\ r <= Len(apTyped) + 1
  BY <1>3, <1>5
<1>11. StartOf(r + 1) = b + (n + 1)
  BY <1>8, <1>10 DEF StartOf
<1> HIDE DEF t, l, c, k, b, a, n
<1>12. k <= n
  <2>1. SUFFICES ASSUME k > n PROVE FALSE
    BY <1>3, <1>7
  <2>2. n + 1 \in 1 .. k /\ n + 1 \in 1 .. n + 1
    BY <1>3, <1>7, <2>1
  <2>3. l[n + 1] # NewLine /\ l[n + 1] = t[b + (n + 1)]
    BY <1>4, <1>6, <2>2
  <2> QED
    BY <1>8, <1>9, <2>2, <2>3
<1>13. c = Append(a, NewLine)[k + 1]
  <2>1. k + 1 \in 1 .. n + 1 /\ BytesRead + 1 = b + (k + 1)
    BY <1>1, <1>3, <1>4, <1>6, <1>7, <1>8, <1>12
  <2>2. c = t[b + (k + 1)]
    BY <1>1, <2>1
  <2>3. t[b + (k + 1)] = Append(a, NewLine)[k + 1]
    BY <1>8, <2>1
  <2> QED
    BY <2>2, <2>3
<1>14. CASE c = NewLine
  <2>1. k = n
    <3>1. SUFFICES ASSUME k # n PROVE FALSE
      OBVIOUS
    <3>2. k + 1 \in 1 .. n
      BY <1>3, <1>7, <1>12, <3>1
    <3> QED
      BY <1>9, <1>13, <1>14, <3>2
  <2>2. \A i \in 1 .. k : l[i] = a[i]
    <3>1. ASSUME NEW i \in 1 .. k PROVE l[i] = a[i]
      <4>1. i \in 1 .. n /\ i \in 1 .. n + 1
        BY <1>3, <1>7, <2>1
      <4> QED
        BY <1>4, <1>6, <1>8, <1>9, <4>1
    <3> QED
      BY <3>1
  <2>3. l = a
    <3>1. l \in Seq(Byte) /\ a \in Seq(Byte) /\ Len(l) = Len(a)
      BY <1>2, <1>9, <2>1 DEF k, n, a
    <3>2. \A i \in 1 .. Len(l) : l[i] = a[i]
      BY <2>2 DEF k
    <3> QED
      BY <3>1, <3>2
  <2>4. apReader'[r] = [at |-> "done", line |-> l]
    BY <1>1, <1>14
  <2>5. HasItsLine(r)'
    BY <1>1, <1>3, <1>5, <2>3, <2>4 DEF HasItsLine, a
  <2>6. StartOf(r + 1)' = StartOf(r + 1)
    BY <1>1 DEF StartOf
  <2>7. BytesRead' = b + (n + 1)
    BY <1>1, <1>3, <1>4, <1>6, <1>8, <2>1
  <2> QED
    BY <1>11, <2>4, <2>5, <2>6, <2>7
<1>15. CASE c # NewLine
  <2>1. apReader'[r] = [at |-> "reading", line |-> Append(l, c)]
    BY <1>1, <1>15
  <2>2. apReader'[r].at = "reading" /\ apReader'[r].line = Append(l, c)
    BY <2>1
  <2>3. /\ Len(Append(l, c)) = k + 1 /\ Append(l, c)[k + 1] = c
        /\ \A i \in 1 .. k : Append(l, c)[i] = l[i]
    BY <1>1, <1>2 DEF k
  <2>4. StartOf(r)' = b
    BY <1>1, <1>6 DEF StartOf
  <2>5. Concatenated(apTyped)' = t
    BY <1>1 DEF t
  <2>6. BytesRead' = b + (k + 1)
    BY <1>1, <1>3, <1>4, <1>6, <1>8
  <2>7. ASSUME NEW i \in 1 .. k + 1
        PROVE  Append(l, c)[i] # NewLine /\ Append(l, c)[i] = t[b + i]
    <3>1. CASE i = k + 1
      <4>1. BytesRead + 1 = b + (k + 1)
        BY <1>1, <2>6
      <4> QED
        BY <1>1, <1>15, <2>3, <3>1, <4>1
    <3>2. CASE i # k + 1
      <4>1. i \in 1 .. k
        BY <1>3, <3>2
      <4> QED
        BY <1>4, <1>6, <2>3, <4>1
    <3> QED
      BY <3>1, <3>2
  <2>8. r <= Len(apTyped')  + 1
    BY <1>1, <1>10
  <2>9. ReadsItsLine(r)'
    BY <2>2, <2>3, <2>4, <2>5, <2>6, <2>7, <2>8 DEF ReadsItsLine
  <2> QED
    BY <2>2, <2>9
<1> QED
  BY <1>14, <1>15

LEMMA OrderReadKeeps ==
  ASSUME TermInv, OrderInv, NEW r \in ApRequest, ReadLine(r)
  PROVE  OrderInv'
<1>1. /\ apReader[r].at = "reading" /\ UNCHANGED << apApprover, apTyped, apResult >>
      /\ \A q \in ApRequest \ {r} : apReader'[q] = apReader[q]
  BY ByteIs
<1>2. Rounds /\ r \in Nat /\ r >= 1 /\ \A p \in 1 .. r : p \in ApRequest
  BY Requests DEF TermInv
<1>3. CASE apApprover = "stdin"
  <2>1. apResult[r] # "none"
    BY <1>1, <1>2, <1>3 DEF Rounds
  <2>2. apReader[1].at # "none" /\ 1 \in ApRequest
    <3>1. 1 \in 1 .. r
      BY <1>2
    <3>2. 1 \in 1 .. r - 1 => apResult[1] # "none"
      BY <1>1, <1>2 DEF Rounds
    <3>3. 1 = r \/ 1 \in 1 .. r - 1
      BY <1>2
    <3> QED
      BY <1>1, <1>2, <1>3, <3>1, <3>2, <3>3 DEF Rounds
  <2>3. apReader'[1].at # "none"
    <3>1. CASE r = 1
      <4>1. apReader'[r].at \in {"reading", "done"}
        <5>1. \/ apReader'[r] = [at |-> "done", line |-> apReader[r].line]
              \/ apReader'[r] = [at |-> "reading", line |-> Append(apReader[r].line, Head(apInput))]
          BY ByteIs
        <5> QED
          BY <5>1
      <4> QED
        BY <3>1, <4>1
    <3>2. CASE r # 1
      BY <1>1, <2>2, <3>2
    <3> QED
      BY <3>1, <3>2
  <2>4. ASSUME NEW q \in ApRequest, Uncancelled(q)' PROVE ReadInTurn(q)'
    <3>1. Uncancelled(q) /\ ReadInTurn(q)
      BY <1>1, <2>4 DEF Uncancelled, OrderInv
    <3>2. CASE q = r
      <4>1. ReadsItsLine(r)
        BY <1>1, <3>1, <3>2 DEF ReadInTurn
      <4>2. /\ apReader'[r].at = "reading" => ReadsItsLine(r)'
            /\ apReader'[r].at = "done" => HasItsLine(r)' /\ BytesRead' = StartOf(r + 1)'
        BY <4>1, ByteOfLine
      <4> QED
        BY <3>2, <4>2 DEF ReadInTurn
    <3>3. CASE q # r
      <4>1. /\ q < r => apReader[q].at = "done" /\ \A p \in 1 .. r : apReader[p].at # "none"
            /\ q > r => apReader[q].at = "none"
        BY <1>1, <2>1, <3>1, <3>3, OthersAreNotReading
      <4>2. q \in Nat /\ q >= 1
        BY Requests
      <4>3. CASE q < r
        <5>1. q + 1 \in ApRequest /\ apReader'[q + 1].at # "none"
          <6>1. q + 1 \in 1 .. r
            BY <1>2, <4>2, <4>3
          <6>2. q + 1 \in ApRequest /\ apReader[q + 1].at # "none"
            BY <1>2, <4>1, <4>3, <6>1
          <6>3. apReader'[r].at # "none"
            <7>1. \/ apReader'[r] = [at |-> "done", line |-> apReader[r].line]
                  \/ apReader'[r] = [at |-> "reading", line |-> Append(apReader[r].line, Head(apInput))]
              BY ByteIs
            <7> QED
              BY <7>1
          <6> QED
            BY <1>1, <6>2, <6>3
        <5>2. apReader'[q] = apReader[q] /\ apReader[q].at = "done" /\ HasItsLine(q)
          BY <1>1, <3>1, <3>3, <4>1, <4>3 DEF ReadInTurn
        <5>3. HasItsLine(q)'
          BY <1>1, <5>2 DEF HasItsLine
        <5> QED
          BY <5>1, <5>2, <5>3 DEF ReadInTurn
      <4>4. CASE q > r
        BY <1>1, <3>3, <4>1, <4>4 DEF ReadInTurn
      <4> QED
        BY <1>2, <3>3, <4>2, <4>3, <4>4
    <3> QED
      BY <3>2, <3>3
  <2> QED
    BY <2>2, <2>3, <2>4 DEF OrderInv
<1>4. CASE apApprover # "stdin"
  BY <1>1, <1>4 DEF OrderInv, Uncancelled
<1> QED
  BY <1>3, <1>4

LEMMA OrderEndKeeps ==
  ASSUME TermInv, OrderInv, NEW r \in ApRequest, InputEnds(r)
  PROVE  OrderInv'
<1>1. /\ apReader[r].at = "reading" /\ Len(apTyped) = ApTyped
      /\ BytesRead = Len(Concatenated(apTyped)) /\ BytesRead' = BytesRead
      /\ UNCHANGED << apApprover, apTyped, apInput, apResult >>
      /\ (\A q \in ApRequest \ {r} : apReader'[q] = apReader[q])
      /\ apReader'[r] = [at |-> "done", line |-> apReader[r].line]
  BY EndIs
<1>2. /\ apReader'[r].at = "done" /\ apReader'[r].line = apReader[r].line
      /\ \A q \in ApRequest : apReader'[q].at = "none" <=> apReader[q].at = "none"
  BY <1>1
<1>3. \A q : StartOf(q)' = StartOf(q)
  BY <1>1 DEF StartOf
<1>4. ASSUME ReadsItsLine(r) PROVE HasItsLine(r)' /\ BytesRead = StartOf(r + 1)
  <2> DEFINE t == Concatenated(apTyped)
             l == apReader[r].line
             b == BytesBefore(apTyped, r)
             n == Len(apTyped[r])
  <2>1. apTyped \in Seq(ApLine) /\ l \in Seq(Byte) /\ t \in Seq(Byte)
    BY JoinedIs DEF TermInv, TermTypes
  <2>2. /\ Len(l) \in Nat /\ Len(t) \in Nat /\ Len(apTyped) \in Nat /\ DOMAIN apTyped = 1 .. Len(apTyped)
        /\ r \in Nat /\ r >= 1
    BY <2>1, Requests
  <2>3. /\ BytesRead = StartOf(r) + Len(l)
        /\ \A i \in 1 .. Len(l) : l[i] # NewLine /\ l[i] = t[StartOf(r) + i]
    BY <1>4 DEF ReadsItsLine
  <2>4. r \notin 1 .. Len(apTyped)
    <3>1. SUFFICES ASSUME r \in 1 .. Len(apTyped) PROVE FALSE
      OBVIOUS
    <3>2. StartOf(r) = b
      <4>1. r <= Len(apTyped) + 1
        BY <2>2, <3>1
      <4> QED
        BY <4>1 DEF StartOf
    <3>3. apTyped[r] \in ApLine /\ n \in Nat /\ Append(apTyped[r], NewLine)[n + 1] = NewLine
      BY <2>1, <3>1, LinesAreBytes
    <3>4. /\ b \in Nat /\ BytesBefore(apTyped, r + 1) = b + (n + 1) /\ b + (n + 1) <= Len(t)
          /\ \A j \in 1 .. n + 1 : t[b + j] = Append(apTyped[r], NewLine)[j]
      BY <2>1, <2>2, <3>1, LinesLocated DEF Located, PlacedLine
    <3>5. t[b + (n + 1)] = NewLine
      <4>1. n + 1 \in 1 .. n + 1
        BY <3>3
      <4> QED
        BY <3>3, <3>4, <4>1
    <3> HIDE DEF t, l, b, n
    <3>6. n + 1 \in 1 .. Len(l)
      BY <1>1, <2>2, <2>3, <3>2, <3>3, <3>4 DEF t
    <3> QED
      BY <2>3, <3>2, <3>5, <3>6
  <2>5. StartOf(r) = Len(t)
    <3>1. CASE r = Len(apTyped) + 1
      BY <2>1, <3>1, BeforeIs DEF StartOf
    <3>2. CASE r # Len(apTyped) + 1
      <4>1. ~ (r <= Len(apTyped) + 1)
        BY <2>2, <2>4, <3>2
      <4> QED
        BY <4>1 DEF StartOf
    <3> QED
      BY <3>1, <3>2
  <2>6. Len(l) = 0
    <3> HIDE DEF t, l
    <3> QED
      BY <1>1, <2>2, <2>3, <2>5 DEF t
  <2>7. l = << >>
    BY <2>1, <2>6
  <2>8. HasItsLine(r)'
    BY <1>1, <1>2, <2>2, <2>4, <2>7 DEF HasItsLine
  <2>9. ~ (r + 1 <= Len(apTyped) + 1)
    BY <2>2, <2>4
  <2>10. StartOf(r + 1) = Len(t)
    BY <2>9 DEF StartOf
  <2> QED
    BY <1>1, <2>8, <2>10
<1>5. ASSUME NEW q \in ApRequest, Uncancelled(q)' PROVE ReadInTurn(q)'
  <2>1. ReadInTurn(q)
    BY <1>1, <1>5 DEF Uncancelled, OrderInv
  <2>2. CASE q = r
    <3>1. ReadsItsLine(r)
      BY <1>1, <2>1, <2>2 DEF ReadInTurn
    <3> QED
      BY <1>1, <1>2, <1>3, <1>4, <2>2, <3>1 DEF ReadInTurn
  <2>3. CASE q # r
    <3>1. apReader'[q] = apReader[q]
      BY <1>1, <2>3
    <3>2. ReadsItsLine(q) => ReadsItsLine(q)'
      BY <1>1, <1>3, <3>1 DEF ReadsItsLine
    <3>3. HasItsLine(q) => HasItsLine(q)'
      BY <1>1, <3>1 DEF HasItsLine
    <3> QED
      BY <1>1, <1>2, <1>3, <2>1, <3>1, <3>2, <3>3 DEF ReadInTurn
  <2> QED
    BY <2>2, <2>3
<1> QED
  BY <1>1, <1>2, <1>5 DEF OrderInv

LEMMA OrderRequestKeeps ==
  ASSUME TermInv, OrderInv, NEW r \in ApRequest, RequestApproval(r)
  PROVE  OrderInv'
<1>1. /\ apResult[r] = "none" /\ (\A q \in 1 .. r - 1 : apResult[q] \notin {"none", "asking"})
      /\ BytesRead' = BytesRead /\ UNCHANGED << apApprover, apTyped, apInput >>
      /\ (\A q \in ApRequest \ {r} : apReader'[q] = apReader[q] /\ apResult'[q] = apResult[q])
      /\ \/ /\ apApprover # "stdin" /\ apReader' = apReader
            /\ apResult'[r] \in {"approved", "denied", "error"}
         \/ /\ apApprover = "stdin" /\ apResult'[r] = "asking"
            /\ apReader'[r] = [at |-> "reading", line |-> apReader[r].line]
  BY RequestIs
<1>2. Rounds /\ r \in Nat /\ r >= 1 /\ (\A p \in 1 .. r : p \in ApRequest) /\ apTyped \in Seq(ApLine)
      /\ apResult \in [ApRequest -> Answer]
  BY Requests DEF TermInv, TermTypes
<1>3. CASE apApprover # "stdin"
  BY <1>1, <1>3 DEF OrderInv, Uncancelled
<1>4. CASE apApprover = "stdin"
  <2>1. apReader[r].at = "none" /\ apReader[r].line = << >>
    BY <1>1, <1>2, <1>4 DEF Rounds
  <2>2. apReader'[r].at = "reading" /\ apReader'[r].line = << >>
    BY <1>1, <1>4, <2>1
  <2>3. \A q : StartOf(q)' = StartOf(q)
    BY <1>1 DEF StartOf
  <2>4. ASSUME NEW q \in ApRequest, Uncancelled(q)' PROVE Uncancelled(q)
    <3>1. ASSUME NEW p \in 1 .. q PROVE apResult[p] # "cancelled"
      <4>1. p \in ApRequest /\ apResult'[p] # "cancelled"
        BY <2>4, Requests DEF Uncancelled
      <4> QED
        BY <1>1, <4>1
    <3> QED
      BY <1>4, <3>1 DEF Uncancelled
  <2>5. ASSUME Uncancelled(r)
        PROVE  BytesRead = StartOf(r) /\ (r <= Len(apTyped) + 1 \/ Len(apTyped) = ApTyped)
    <3>1. CASE r = 1
      <4>1. BytesRead = 0
        BY <1>4, <2>1, <3>1 DEF OrderInv
      <4>2. Len(apTyped) \in Nat /\ BytesBefore(apTyped, 1) = 0
        BY <1>2, BeforeIs
      <4>3. 1 <= Len(apTyped) + 1
        BY <4>2
      <4> QED
        BY <3>1, <4>1, <4>2, <4>3 DEF StartOf
    <3>2. CASE r # 1
      <4>1. r - 1 \in 1 .. r - 1 /\ r - 1 \in 1 .. r /\ (r - 1) + 1 = r /\ r - 1 \in ApRequest
        BY <1>2, <3>2
      <4>2. Uncancelled(r - 1)
        <5>1. \A p \in 1 .. r - 1 : p \in 1 .. r
          BY <1>2
        <5> QED
          BY <2>5, <5>1 DEF Uncancelled
      <4>3. apReader[r - 1].at = "done"
        <5>1. apResult[r - 1] \notin {"none", "asking", "cancelled"}
          BY <1>1, <2>5, <4>1 DEF Uncancelled
        <5>2. apResult[r - 1] \in {"approved", "denied"}
          BY <1>2, <1>4, <4>1, <5>1 DEF Rounds, Answer
        <5> QED
          BY <1>2, <1>4, <4>1, <5>2 DEF Rounds
      <4>4. ReadInTurn(r - 1)
        BY <4>1, <4>2 DEF OrderInv
      <4>5. BytesRead = StartOf(r) /\ HasItsLine(r - 1)
        BY <2>1, <4>1, <4>3, <4>4 DEF ReadInTurn
      <4>6. r - 1 \in 1 .. Len(apTyped) \/ Len(apTyped) = ApTyped
        BY <1>2, <4>5 DEF HasItsLine
      <4>7. Len(apTyped) \in Nat
        BY <1>2
      <4> QED
        BY <1>2, <4>5, <4>6, <4>7
    <3> QED
      BY <3>1, <3>2
  <2>6. ASSUME NEW q \in ApRequest, Uncancelled(q)' PROVE ReadInTurn(q)'
    <3>1. Uncancelled(q) /\ ReadInTurn(q)
      BY <2>4, <2>6 DEF OrderInv
    <3>2. CASE q = r
      <4>1. BytesRead = StartOf(r) /\ (r <= Len(apTyped) + 1 \/ Len(apTyped) = ApTyped)
        BY <2>5, <3>1, <3>2
      <4>2. Len(<< >>) = 0 /\ 1 .. 0 = {}
        OBVIOUS
      <4>3. BytesRead \in Int
        <5>1. Concatenated(apTyped) \in Seq(Byte) /\ apInput \in Seq(Byte)
          BY <1>2, JoinedIs DEF TermInv, TermTypes
        <5> QED
          BY <5>1 DEF BytesRead
      <4>4. ReadsItsLine(r)'
        BY <1>1, <2>2, <2>3, <4>1, <4>2, <4>3 DEF ReadsItsLine
      <4> QED
        BY <2>2, <3>2, <4>4 DEF ReadInTurn
    <3>3. CASE q # r
      <4>1. apReader'[q] = apReader[q]
        BY <1>1, <3>3
      <4>2. ReadsItsLine(q) => ReadsItsLine(q)'
        BY <1>1, <2>3, <4>1 DEF ReadsItsLine
      <4>3. HasItsLine(q) => HasItsLine(q)'
        BY <1>1, <4>1 DEF HasItsLine
      <4>4. (q + 1 \in ApRequest => apReader'[q + 1].at = "none") =>
              (q + 1 \in ApRequest => apReader[q + 1].at = "none")
        BY <1>1, <2>2
      <4> QED
        BY <1>1, <2>3, <3>1, <4>1, <4>2, <4>3, <4>4 DEF ReadInTurn
    <3> QED
      BY <3>2, <3>3
  <2>7. (1 \in ApRequest => apReader'[1].at = "none") => (1 \in ApRequest => apReader[1].at = "none")
    BY <1>1, <2>2
  <2> QED
    BY <1>1, <2>6, <2>7 DEF OrderInv
<1> QED
  BY <1>3, <1>4

LEMMA OrderAnswerKeeps ==
  ASSUME TermInv, OrderInv, NEW r \in ApRequest, Answered(r) \/ Cancelled(r)
  PROVE  OrderInv'
<1>1. /\ apResult[r] = "asking" /\ BytesRead' = BytesRead
      /\ UNCHANGED << apApprover, apTyped, apInput, apReader >>
      /\ \A q \in ApRequest \ {r} : apResult'[q] = apResult[q]
  BY AnswerIs
<1>2. ASSUME NEW q \in ApRequest, Uncancelled(q)' PROVE ReadInTurn(q)'
  <2>1. Uncancelled(q)
    <3>1. ASSUME NEW p \in 1 .. q PROVE apResult[p] # "cancelled"
      <4>1. p \in ApRequest /\ apResult'[p] # "cancelled"
        BY <1>2, Requests DEF Uncancelled
      <4> QED
        BY <1>1, <4>1
    <3> QED
      BY <1>1, <1>2, <3>1 DEF Uncancelled
  <2>2. ReadInTurn(q)
    BY <2>1 DEF OrderInv
  <2> QED
    BY <1>1, <2>2 DEF ReadInTurn, ReadsItsLine, HasItsLine, StartOf
<1> QED
  BY <1>1, <1>2 DEF OrderInv

LEMMA OrderTypedKeeps == ASSUME TermInv, OrderInv, TypeLine PROVE OrderInv'
<1>1. /\ Len(apTyped) < ApTyped /\ BytesRead' = BytesRead
      /\ UNCHANGED << apApprover, apReader, apResult >>
  BY TypedIs
<1>2. PICK line \in ApLine : apTyped' = Append(apTyped, line)
  BY TypedIs
<1>3. /\ apTyped \in Seq(ApLine) /\ Len(apTyped) \in Nat /\ ApTyped \in Nat
      /\ Len(apTyped') = Len(apTyped) + 1 /\ apTyped' \in Seq(ApLine)
      /\ DOMAIN apTyped = 1 .. Len(apTyped) /\ DOMAIN apTyped' = 1 .. Len(apTyped) + 1
      /\ \A i \in 1 .. Len(apTyped) : apTyped'[i] = apTyped[i]
  BY <1>2, ApAssumption DEF TermInv, TermTypes
<1> DEFINE more == Len(apTyped) # ApTyped
<1>6. more
  <2>1. \A m, n \in Nat : m < n => m # n
    OBVIOUS
  <2>2. Len(apTyped) \in Nat /\ ApTyped \in Nat
    BY <1>3
  <2> QED
    BY <1>1, <2>1, <2>2, Zenon
<1> HIDE DEF more
<1>4. \A q \in 1 .. Len(apTyped) + 1 : StartOf(q)' = StartOf(q)
  <2>1. ASSUME NEW q \in 1 .. Len(apTyped) + 1 PROVE StartOf(q)' = StartOf(q)
    <3>1. q <= Len(apTyped) + 1 /\ q <= Len(apTyped') + 1
      BY <1>3
    <3>2. BytesBefore(apTyped', q) = BytesBefore(apTyped, q)
      BY <1>2, <1>3, BeforeIs
    <3> QED
      BY <3>1, <3>2 DEF StartOf
  <2> QED
    BY <2>1
<1>5. ASSUME NEW q \in ApRequest, Uncancelled(q)' PROVE ReadInTurn(q)'
  <2>1. ReadInTurn(q) /\ q \in Nat /\ q >= 1
    BY <1>1, <1>5, Requests DEF OrderInv, Uncancelled
  <2>2. CASE apReader[q].at = "reading"
    <3>1. ReadsItsLine(q) /\ q <= Len(apTyped) + 1
      BY <1>6, <2>1, <2>2, Zenon DEF ReadInTurn, ReadsItsLine, more
    <3>2. q \in 1 .. Len(apTyped) + 1 /\ q <= Len(apTyped') + 1
      BY <1>3, <2>1, <3>1
    <3>3. StartOf(q)' = StartOf(q)
      BY <1>4, <3>2
    <3> DEFINE t == Concatenated(apTyped)
               l == apReader[q].line
    <3>4. l \in Seq(Byte) /\ t \in Seq(Byte) /\ apInput \in Seq(Byte) /\ Len(apInput) <= Len(t)
          /\ BytesRead = Len(t) - Len(apInput)
      BY JoinedIs DEF TermInv, TermTypes, RestOfText, BytesRead
    <3>5. /\ BytesRead = StartOf(q) + Len(l)
          /\ \A i \in 1 .. Len(l) : l[i] # NewLine /\ l[i] = t[StartOf(q) + i]
      BY <3>1 DEF ReadsItsLine
    <3>6. StartOf(q) \in Nat
      <4>1. SubSeq(apTyped, 1, q - 1) \in Seq(ApLine)
        BY <1>3, <3>2
      <4>2. Concatenated(SubSeq(apTyped, 1, q - 1)) \in Seq(Byte)
        BY <4>1, JoinedIs
      <4>3. BytesBefore(apTyped, q) \in Nat
        BY <4>2 DEF BytesBefore
      <4> QED
        BY <3>1, <4>3 DEF StartOf
    <3>7. \A p \in 1 .. Len(t) : Concatenated(apTyped)'[p] = t[p]
      BY <1>2, <1>3, JoinedGrows
    <3> HIDE DEF t, l
    <3>8. ASSUME NEW i \in 1 .. Len(l) PROVE l[i] # NewLine /\ l[i] = Concatenated(apTyped)'[StartOf(q) + i]
      <4>1. Len(t) \in Nat /\ Len(l) \in Nat /\ Len(apInput) \in Nat
        BY <3>4
      <4>2. StartOf(q) + i \in 1 .. Len(t)
        BY <3>4, <3>5, <3>6, <4>1
      <4> QED
        BY <3>5, <3>7, <4>2
    <3>9. ReadsItsLine(q)'
      BY <1>1, <3>2, <3>3, <3>5, <3>8 DEF ReadsItsLine, l
    <3> QED
      BY <1>1, <2>2, <3>9 DEF ReadInTurn
  <2>3. CASE apReader[q].at = "done"
    <3>1. HasItsLine(q)
      BY <2>1, <2>3 DEF ReadInTurn
    <3>2. q \in 1 .. Len(apTyped) /\ apReader[q].line = apTyped[q]
      BY <1>3, <1>6, <3>1, Zenon DEF HasItsLine, more
    <3>3. HasItsLine(q)'
      BY <1>1, <1>3, <3>2 DEF HasItsLine
    <3>4. StartOf(q + 1)' = StartOf(q + 1)
      <4>1. q + 1 \in 1 .. Len(apTyped) + 1
        BY <1>3, <3>2
      <4> QED
        BY <1>4, <4>1
    <3> QED
      BY <1>1, <2>1, <2>3, <3>3, <3>4 DEF ReadInTurn
  <2>4. CASE apReader[q].at = "none"
    BY <1>1, <2>4 DEF ReadInTurn
  <2>5. apReader[q].at \in ReaderAt
    BY DEF TermInv, TermTypes
  <2> QED
    BY <2>2, <2>3, <2>4, <2>5 DEF ReaderAt
<1> QED
  BY <1>1, <1>5 DEF OrderInv

LEMMA OrderMeansInOrder == TermInv /\ OrderInv => AnswersInOrder
<1> SUFFICES ASSUME TermInv, OrderInv, NEW r \in ApRequest, apApprover = "stdin",
                    \A q \in 1 .. r : apResult[q] # "cancelled"
             PROVE  /\ apResult[r] = "approved" => r \in DOMAIN apTyped /\ Approves(apTyped[r])
                    /\ apResult[r] = "denied" => r \notin DOMAIN apTyped \/ ~ Approves(apTyped[r])
  BY DEF AnswersInOrder
<1>1. ReadInTurn(r)
  BY DEF OrderInv, Uncancelled
<1>2. ~ Approves(<< >>)
  BY DEF Approves
<1>3. Rounds
  BY DEF TermInv
<1>4. ASSUME apResult[r] \in {"approved", "denied"} PROVE HasItsLine(r)
  BY <1>1, <1>3, <1>4 DEF Rounds, ReadInTurn
<1>5. ASSUME apResult[r] = "approved" PROVE r \in DOMAIN apTyped /\ Approves(apTyped[r])
  BY <1>2, <1>3, <1>4, <1>5 DEF Rounds, HasItsLine
<1>6. ASSUME apResult[r] = "denied" PROVE r \notin DOMAIN apTyped \/ ~ Approves(apTyped[r])
  BY <1>3, <1>4, <1>6 DEF Rounds, HasItsLine
<1> QED
  BY <1>5, <1>6

-----------------------------------------------------------------------------
(* Whatever is cancelled: no byte is read twice. *)

\* Where in the text the first byte of each reader's line is.
FirstBytes(place) ==
  \A r \in ApRequest : apReader[r].line # << >> =>
    /\ place[r] \in 1 .. BytesRead
    /\ Concatenated(apTyped)[place[r]] = apReader[r].line[1]
    /\ \A q \in ApRequest \ {r} : apReader[q].line # << >> => place[q] # place[r]

BytesInv == \E place \in [ApRequest -> Nat] : FirstBytes(place)

LEMMA BytesInitially == ApInit => BytesInv
<1> SUFFICES ASSUME ApInit PROVE BytesInv
  OBVIOUS
<1>1. \A r \in ApRequest : apReader[r].line = << >>
  BY DEF ApInit
<1>2. [r \in ApRequest |-> 0] \in [ApRequest -> Nat]
  OBVIOUS
<1> QED
  BY <1>1, <1>2 DEF BytesInv, FirstBytes

\* Steps in which no reader begins its line.
LEMMA SameFirstBytes ==
  ASSUME NEW place \in [ApRequest -> Nat], FirstBytes(place),
         BytesRead \in Nat, BytesRead' \in Nat, BytesRead <= BytesRead',
         \A p \in 1 .. BytesRead : Concatenated(apTyped)'[p] = Concatenated(apTyped)[p],
         \A r \in ApRequest : /\ apReader'[r].line # << >> => apReader[r].line # << >>
                              /\ apReader[r].line # << >> => apReader'[r].line[1] = apReader[r].line[1]
  PROVE  BytesInv'
<1>1. ASSUME NEW r \in ApRequest, apReader'[r].line # << >>
      PROVE  /\ place[r] \in 1 .. BytesRead'
             /\ Concatenated(apTyped)'[place[r]] = apReader'[r].line[1]
             /\ \A q \in ApRequest \ {r} : apReader'[q].line # << >> => place[q] # place[r]
  <2>1. apReader[r].line # << >> /\ apReader'[r].line[1] = apReader[r].line[1]
    BY <1>1
  <2>2. /\ place[r] \in 1 .. BytesRead /\ Concatenated(apTyped)[place[r]] = apReader[r].line[1]
        /\ \A q \in ApRequest \ {r} : apReader[q].line # << >> => place[q] # place[r]
    BY <2>1 DEF FirstBytes
  <2>3. place[r] \in 1 .. BytesRead'
    BY <2>2
  <2> QED
    BY <2>1, <2>2, <2>3
<1>2. FirstBytes(place)'
  BY <1>1 DEF FirstBytes
<1> QED
  BY <1>2 DEF BytesInv

LEMMA BytesStepKeep == TermInv /\ BytesInv /\ [ApNext]_apVars => BytesInv'
<1> SUFFICES ASSUME TermInv, BytesInv, [ApNext]_apVars PROVE BytesInv'
  OBVIOUS
<1>1. PICK place \in [ApRequest -> Nat] : FirstBytes(place)
  BY DEF BytesInv
<1>2. /\ apTyped \in Seq(ApLine) /\ apInput \in Seq(Byte) /\ Concatenated(apTyped) \in Seq(Byte)
      /\ Len(apInput) <= Len(Concatenated(apTyped))
      /\ apReader \in [ApRequest -> [at : ReaderAt, line : Seq(Byte)]]
  BY JoinedIs DEF TermInv, TermTypes, RestOfText
<1>3. BytesRead \in Nat /\ BytesRead <= Len(Concatenated(apTyped)) /\ Len(Concatenated(apTyped)) \in Nat
  <2>1. Len(apInput) \in Nat /\ Len(Concatenated(apTyped)) \in Nat
    BY <1>2
  <2> QED
    BY <1>2, <2>1 DEF BytesRead
<1>4. CASE UNCHANGED termVars
  BY <1>4 DEF BytesInv, FirstBytes, BytesRead, termVars
<1>5. ASSUME NEW r \in ApRequest, InputEnds(r) \/ RequestApproval(r) \/ Answered(r) \/ Cancelled(r)
      PROVE  BytesInv'
  <2>1. /\ apTyped' = apTyped /\ BytesRead' = BytesRead
        /\ \A q \in ApRequest : apReader'[q].line = apReader[q].line
    <3>1. CASE InputEnds(r)
      <4>1. /\ apTyped' = apTyped /\ BytesRead' = BytesRead
            /\ (\A q \in ApRequest \ {r} : apReader'[q] = apReader[q])
            /\ apReader'[r] = [at |-> "done", line |-> apReader[r].line]
        BY <3>1, EndIs
      <4>2. apReader'[r].line = apReader[r].line
        BY <4>1
      <4> QED
        BY <4>1, <4>2
    <3>2. CASE RequestApproval(r)
      <4>1. /\ apTyped' = apTyped /\ BytesRead' = BytesRead
            /\ (\A q \in ApRequest \ {r} : apReader'[q] = apReader[q])
            /\ \/ apReader' = apReader
               \/ apReader'[r] = [at |-> "reading", line |-> apReader[r].line]
        BY <3>2, RequestIs
      <4>2. apReader'[r].line = apReader[r].line
        BY <4>1
      <4> QED
        BY <4>1, <4>2
    <3>3. CASE Answered(r) \/ Cancelled(r)
      BY <3>3, AnswerIs
    <3> QED
      BY <1>5, <3>1, <3>2, <3>3
  <2>2. BytesRead' \in Nat /\ BytesRead <= BytesRead'
    BY <1>3, <2>1
  <2> QED
    BY <1>1, <1>3, <2>1, <2>2, SameFirstBytes
<1>6. CASE TypeLine
  <2>1. BytesRead' = BytesRead /\ apReader' = apReader
    BY <1>6, TypedIs
  <2>2. PICK line \in ApLine : apTyped' = Append(apTyped, line)
    BY <1>6, TypedIs
  <2>3. \A p \in 1 .. Len(Concatenated(apTyped)) : Concatenated(apTyped)'[p] = Concatenated(apTyped)[p]
    BY <1>2, <2>2, JoinedGrows
  <2>4. \A p \in 1 .. BytesRead : Concatenated(apTyped)'[p] = Concatenated(apTyped)[p]
    BY <1>3, <2>3
  <2>5. BytesRead' \in Nat /\ BytesRead <= BytesRead'
    BY <1>3, <2>1
  <2> QED
    BY <1>1, <1>3, <2>1, <2>4, <2>5, SameFirstBytes
<1>7. ASSUME NEW r \in ApRequest, ReadLine(r) PROVE BytesInv'
  <2> DEFINE c == Head(apInput)
             l == apReader[r].line
  <2>1. /\ BytesRead' = BytesRead + 1 /\ c = Concatenated(apTyped)[BytesRead + 1] /\ c \in Byte
        /\ apTyped' = apTyped
        /\ \A q \in ApRequest \ {r} : apReader'[q] = apReader[q]
        /\ IF c = NewLine THEN apReader'[r] = [at |-> "done", line |-> l]
           ELSE apReader'[r] = [at |-> "reading", line |-> Append(l, c)]
    BY <1>7, ByteIs
  <2>2. BytesRead' \in Nat /\ BytesRead <= BytesRead'
    BY <1>3, <2>1
  <2>3. l \in Seq(Byte)
    BY <1>2
  <2> HIDE DEF c, l
  <2>4. CASE c = NewLine
    <3>1. apReader'[r].line = l
      BY <2>1, <2>4
    <3>2. \A q \in ApRequest : apReader'[q].line = apReader[q].line
      BY <2>1, <3>1 DEF l
    <3> QED
      BY <1>1, <1>3, <2>1, <2>2, <3>2, SameFirstBytes
  <2>5. CASE c # NewLine /\ l # << >>
    <3>1. apReader'[r].line = Append(l, c) /\ Append(l, c)[1] = l[1]
      BY <2>1, <2>3, <2>5
    <3>2. \A q \in ApRequest : /\ apReader'[q].line # << >> => apReader[q].line # << >>
                               /\ apReader[q].line # << >> => apReader'[q].line[1] = apReader[q].line[1]
      BY <2>1, <2>5, <3>1 DEF l
    <3> QED
      BY <1>1, <1>3, <2>1, <2>2, <3>2, SameFirstBytes
  <2>6. CASE c # NewLine /\ l = << >>
    <3>1. PICK there \in [ApRequest -> Nat] :
            there[r] = BytesRead + 1 /\ \A q \in ApRequest \ {r} : there[q] = place[q]
      <4> DEFINE new == [place EXCEPT ![r] = BytesRead + 1]
      <4>1. /\ new \in [ApRequest -> Nat] /\ new[r] = BytesRead + 1
            /\ \A q \in ApRequest \ {r} : new[q] = place[q]
        BY <1>3
      <4> QED
        BY <4>1
    <3>2. apReader'[r].line = Append(l, c)
      BY <2>1, <2>6
    <3>3. apReader'[r].line[1] = c
      BY <2>1, <2>3, <2>6, <3>2
    <3>4. ASSUME NEW q \in ApRequest, apReader'[q].line # << >>
          PROVE  /\ there[q] \in 1 .. BytesRead'
                 /\ Concatenated(apTyped)'[there[q]] = apReader'[q].line[1]
                 /\ \A p \in ApRequest \ {q} : apReader'[p].line # << >> => there[p] # there[q]
      <4>1. \A p \in ApRequest \ {r} : apReader'[p].line # << >> =>
              /\ there[p] \in 1 .. BytesRead
              /\ Concatenated(apTyped)[there[p]] = apReader'[p].line[1]
        BY <1>1, <2>1, <3>1 DEF FirstBytes
      <4>2. \A p \in ApRequest \ {r} : apReader'[p].line # << >> => there[p] # there[r]
        BY <1>3, <3>1, <4>1
      <4>3. CASE q = r
        <5>1. there[r] \in 1 .. BytesRead'
          BY <1>3, <2>1, <3>1
        <5> QED
          BY <2>1, <3>1, <3>3, <4>2, <4>3, <5>1
      <4>4. CASE q # r
        <5>1. there[q] \in 1 .. BytesRead'
          BY <1>3, <2>1, <3>4, <4>1, <4>4
        <5>2. Concatenated(apTyped)'[there[q]] = apReader'[q].line[1]
          BY <2>1, <3>4, <4>1, <4>4
        <5>3. ASSUME NEW p \in ApRequest \ {q}, apReader'[p].line # << >> PROVE there[p] # there[q]
          <6>1. CASE p = r
            BY <3>4, <4>2, <4>4, <6>1
          <6>2. CASE p # r
            <7>1. apReader[p].line # << >> /\ apReader[q].line # << >>
              BY <2>1, <3>4, <4>4, <5>3, <6>2
            <7>2. place[p] # place[q]
              BY <1>1, <5>3, <7>1 DEF FirstBytes
            <7> QED
              BY <3>1, <4>4, <6>2, <7>2
          <6> QED
            BY <6>1, <6>2
        <5> QED
          BY <5>1, <5>2, <5>3
      <4> QED
        BY <4>3, <4>4
    <3>5. FirstBytes(there)'
      BY <3>4 DEF FirstBytes
    <3> QED
      BY <3>1, <3>5 DEF BytesInv
  <2> QED
    BY <2>4, <2>5, <2>6
<1> QED
  BY <1>4, <1>5, <1>6, <1>7, TermSteps

\* A "y" in the text is the first byte of an approval, where no other line has one.
LEMMA YesInText ==
  ASSUME TermInv, NEW p \in 1 .. Len(Concatenated(apTyped)), Concatenated(apTyped)[p] = "y",
         \A i \in DOMAIN apTyped : "y" \in ToSet(apTyped[i]) => Approves(apTyped[i])
  PROVE  \E i \in DOMAIN apTyped : Approves(apTyped[i]) /\ p = BytesBefore(apTyped, i) + 1
<1>1. apTyped \in Seq(ApLine) /\ Located(apTyped)
  BY LinesLocated DEF TermInv, TermTypes
<1>2. PICK i \in DOMAIN apTyped : \E j \in 1 .. Len(apTyped[i]) + 1 : p = BytesBefore(apTyped, i) + j
  BY <1>1 DEF Located, OfLine
<1>3. PICK j \in 1 .. Len(apTyped[i]) + 1 : p = BytesBefore(apTyped, i) + j
  BY <1>2
<1> DEFINE a == apTyped[i]
<1>4. a \in ApLine /\ a \in Seq(Byte) /\ Len(a) \in Nat
  BY <1>1, LinesAreBytes
<1>5. Append(a, NewLine)[j] = "y"
  BY <1>1, <1>3 DEF Located, PlacedLine
<1>6. Append(a, NewLine)[Len(a) + 1] = NewLine /\ \A k \in 1 .. Len(a) : Append(a, NewLine)[k] = a[k]
  BY <1>4, LinesAreBytes
<1>7. NewLine # "y"
  BY Zenon DEF NewLine
<1>8. j \in 1 .. Len(a) /\ a[j] = "y"
  BY <1>3, <1>4, <1>5, <1>6, <1>7
<1>9. "y" \in ToSet(a)
  BY <1>4, <1>8 DEF ToSet
<1>10. Approves(a)
  BY <1>9
<1>11. j = 1
  <2>1. CASE a = << "y" >>
    BY <1>8, <2>1
  <2>2. CASE a = << "y", "e", "s" >>
    BY <1>8, <2>2
  <2> QED
    BY <1>10, <2>1, <2>2 DEF Approves
<1> QED
  BY <1>3, <1>10, <1>11

LEMMA BytesMeanNoneInvented == TermInv /\ BytesInv => NoApprovalInvented
<1> DEFINE yes == {i \in DOMAIN apTyped : Approves(apTyped[i])}
           given == {r \in ApRequest : apResult[r] = "approved"}
<1> SUFFICES ASSUME TermInv, BytesInv, apApprover = "stdin",
                    \A i \in DOMAIN apTyped : "y" \in ToSet(apTyped[i]) => i \in yes
             PROVE  \E f \in [given -> DOMAIN apTyped] :
                      \A r, q \in DOMAIN f : f[r] \in yes /\ (f[r] = f[q] => r = q)
  BY DEF NoApprovalInvented
<1>1. PICK place \in [ApRequest -> Nat] : FirstBytes(place)
  BY DEF BytesInv
<1>2. \A i \in DOMAIN apTyped : "y" \in ToSet(apTyped[i]) => Approves(apTyped[i])
  OBVIOUS
<1>3. BytesRead \in Nat /\ Len(Concatenated(apTyped)) \in Nat /\ BytesRead <= Len(Concatenated(apTyped))
  <2>1. /\ apTyped \in Seq(ApLine) /\ apInput \in Seq(Byte) /\ Concatenated(apTyped) \in Seq(Byte)
        /\ Len(apInput) <= Len(Concatenated(apTyped))
    BY JoinedIs DEF TermInv, TermTypes, RestOfText
  <2>2. Len(apInput) \in Nat /\ Len(Concatenated(apTyped)) \in Nat
    BY <2>1
  <2> QED
    BY <2>1, <2>2 DEF BytesRead
<1>4. ASSUME NEW r \in given
      PROVE  /\ apReader[r].line # << >>
             /\ \E i \in yes : place[r] = BytesBefore(apTyped, i) + 1
  <2>1. Approves(apReader[r].line)
    BY DEF TermInv, Rounds
  <2>2. apReader[r].line # << >> /\ apReader[r].line[1] = "y"
    BY <2>1 DEF Approves
  <2>3. place[r] \in 1 .. BytesRead /\ Concatenated(apTyped)[place[r]] = "y"
    BY <1>1, <2>2 DEF FirstBytes
  <2>4. place[r] \in 1 .. Len(Concatenated(apTyped))
    BY <1>3, <2>3
  <2>5. \E i \in DOMAIN apTyped : Approves(apTyped[i]) /\ place[r] = BytesBefore(apTyped, i) + 1
    BY <1>2, <2>3, <2>4, YesInText
  <2> QED
    BY <2>2, <2>5
<1> DEFINE f == [r \in given |-> CHOOSE i \in yes : place[r] = BytesBefore(apTyped, i) + 1]
<1>5. \A r \in given : f[r] \in yes /\ place[r] = BytesBefore(apTyped, f[r]) + 1
  <2>1. ASSUME NEW r \in given PROVE f[r] \in yes /\ place[r] = BytesBefore(apTyped, f[r]) + 1
    <3>1. \E i \in yes : place[r] = BytesBefore(apTyped, i) + 1
      BY <1>4
    <3> HIDE DEF yes
    <3>2. f[r] = CHOOSE i \in yes : place[r] = BytesBefore(apTyped, i) + 1
      OBVIOUS
    <3> QED
      BY <3>1, <3>2, Zenon
  <2> QED
    BY <2>1
<1>6. DOMAIN f = given /\ f \in [given -> DOMAIN apTyped]
  <2>1. \A r \in given : f[r] \in DOMAIN apTyped
    BY <1>5
  <2> QED
    BY <2>1
<1>7. ASSUME NEW r \in given, NEW q \in given, f[r] = f[q] PROVE r = q
  <2>1. place[r] = place[q]
    BY <1>5, <1>7
  <2> QED
    BY <1>1, <1>4, <2>1 DEF FirstBytes
<1> HIDE DEF f
<1> QED
  BY <1>5, <1>6, <1>7

\* Every step keeps what is said of the terminal (Approval, one case each).
LEMMA AnswersStepKeep == TermInv /\ OrderInv /\ [ApNext]_apVars => TermInv' /\ OrderInv'
<1> SUFFICES ASSUME TermInv, OrderInv, [ApNext]_apVars PROVE TermInv' /\ OrderInv'
  OBVIOUS
<1>1. CASE UNCHANGED termVars
  <2>1. TermInv'
    BY <1>1 DEF TermInv, TermTypes, RestOfText, Rounds, BytesRead, termVars
  <2>2. OrderInv'
    BY <1>1 DEF OrderInv, Uncancelled, ReadInTurn, ReadsItsLine, HasItsLine, StartOf, BytesRead, termVars
  <2> QED
    BY <2>1, <2>2
<1>2. ASSUME NEW r \in ApRequest, RequestApproval(r) \/ ReadLine(r) \/ InputEnds(r) \/ Answered(r) \/ Cancelled(r)
      PROVE  TermInv' /\ OrderInv'
  <2>1. Rounds'
    BY <1>2, RoundsKeep
  <2>2. TermTypes' /\ RestOfText'
    BY <1>2, RequestIs, ByteIs, EndIs, AnswerIs
  <2>3. OrderInv'
    BY <1>2, OrderRequestKeeps, OrderReadKeeps, OrderEndKeeps, OrderAnswerKeeps
  <2> QED
    BY <2>1, <2>2, <2>3 DEF TermInv
<1>3. CASE TypeLine
  <2>1. TermTypes' /\ RestOfText' /\ UNCHANGED << apApprover, apReader, apResult >>
    BY <1>3, TypedIs
  <2>2. Rounds'
    BY <2>1 DEF TermInv, Rounds
  <2>3. OrderInv'
    BY <1>3, OrderTypedKeeps
  <2> QED
    BY <2>1, <2>2, <2>3 DEF TermInv
<1> QED
  BY <1>1, <1>2, <1>3, TermSteps

\* However requests are made, answered and cancelled and lines typed: without a
\* cancellation each request is answered by its own line, and whatever is
\* cancelled no approval is read that was not typed (session/approve.go).
THEOREM AnswersAreSound == ApSpec => []AnswersSound
<1>1. ApInit => TermInv /\ OrderInv /\ BytesInv
  BY TermInitially, OrderInitially, BytesInitially
<1>2. TermInv /\ OrderInv /\ BytesInv /\ [ApNext]_apVars => TermInv' /\ OrderInv' /\ BytesInv'
  BY AnswersStepKeep, BytesStepKeep
<1>3. TermInv /\ OrderInv /\ BytesInv => AnswersSound
  BY OrderMeansInOrder, BytesMeanNoneInvented DEF AnswersSound
<1> QED
  BY <1>1, <1>2, <1>3, PTL DEF ApSpec

LEMMA NothingTyped == << >> \in Seq(ApLine) /\ Len(<< >>) = 0
  OBVIOUS

\* Approvals and the flag have their types (approve.go, flag_watcher.go).
THEOREM ApprovalTypes == ApSpec => []ApTypeOK
<1> DEFINE Result == {"none", "asking", "approved", "denied", "cancelled", "error"}
           Inv == ApTypeOK /\ DOMAIN apResult = ApRequest
<1>1. ApInit => Inv
  <2> SUFFICES ASSUME ApInit PROVE Inv
    OBVIOUS
  <2>1. apTyped = << >> /\ apWatch = "off" /\ apWrites = 0 /\ apResult = [r \in ApRequest |-> "none"]
    BY DEF ApInit
  <2> QED
    BY <2>1, NothingTyped, ApAssumption DEF ApTypeOK
<1>2. Inv /\ [ApNext]_apVars => Inv'
  <2> SUFFICES ASSUME Inv, [ApNext]_apVars PROVE Inv'
    OBVIOUS
  <2>1. apTyped \in Seq(ApLine) /\ ApTyped \in Nat /\ ApWrites \in Nat /\ apWrites \in 0 .. ApWrites
    BY ApAssumption DEF ApTypeOK
  <2>2. ASSUME NEW r \in ApRequest, NEW x \in Result, apResult' = [apResult EXCEPT ![r] = x]
        PROVE  DOMAIN apResult' = ApRequest /\ \A q \in ApRequest : apResult'[q] \in Result
    BY <2>2 DEF ApTypeOK
  <2>3. ASSUME UNCHANGED apResult
        PROVE  DOMAIN apResult' = ApRequest /\ \A q \in ApRequest : apResult'[q] \in Result
    BY <2>3 DEF ApTypeOK
  <2>4. ASSUME NEW r \in ApRequest, RequestApproval(r) PROVE \E x \in Result : apResult' = [apResult EXCEPT ![r] = x]
    BY <2>4, Zenon DEF RequestApproval
  <2>5. ASSUME NEW r \in ApRequest, Answered(r) \/ Cancelled(r)
        PROVE  \E x \in Result : apResult' = [apResult EXCEPT ![r] = x]
    <3>1. CASE Answered(r)
      <4>1. apResult' = [apResult EXCEPT ![r] = IF Approves(apReader[r].line) THEN "approved" ELSE "denied"]
        BY <3>1, Zenon DEF Answered
      <4> QED
        BY <4>1
    <3>2. CASE Cancelled(r)
      BY <3>2, Zenon DEF Cancelled
    <3> QED
      BY <2>5, <3>1, <3>2
  <2>6. ASSUME NEW r \in ApRequest,
               RequestApproval(r) \/ ReadLine(r) \/ InputEnds(r) \/ Answered(r) \/ Cancelled(r)
        PROVE  UNCHANGED << apTyped, apWatch, apWrites >>
    BY <2>6, Zenon DEF RequestApproval, ReadLine, InputEnds, Answered, Cancelled, flagVars
  <2>7. ASSUME NEW r \in ApRequest, ReadLine(r) \/ InputEnds(r) PROVE UNCHANGED apResult
    BY <2>7, Zenon DEF ReadLine, InputEnds
  <2>8. ASSUME NEW r \in ApRequest,
               RequestApproval(r) \/ ReadLine(r) \/ InputEnds(r) \/ Answered(r) \/ Cancelled(r)
        PROVE  Inv'
    <3>1. DOMAIN apResult' = ApRequest /\ \A q \in ApRequest : apResult'[q] \in Result
      BY <2>2, <2>3, <2>4, <2>5, <2>7, <2>8
    <3> QED
      BY <2>6, <2>8, <3>1 DEF ApTypeOK
  <2>9. CASE TypeLine
    <3>1. PICK line \in ApLine : apTyped' = Append(apTyped, line)
      BY <2>9, Zenon DEF TypeLine
    <3>2. Len(apTyped) < ApTyped /\ UNCHANGED << apResult, apWatch, apWrites >>
      BY <2>9 DEF TypeLine, flagVars
    <3>3. apTyped' \in Seq(ApLine) /\ Len(apTyped') <= ApTyped
      BY <2>1, <3>1, <3>2
    <3> QED
      BY <3>2, <3>3 DEF ApTypeOK
  <2>10. CASE SessionWritesFlag \/ WriteFlag
    <3>1. UNCHANGED << apTyped, apResult, apWatch >>
      BY <2>10, Zenon DEF SessionWritesFlag, WriteFlag, termVars
    <3>2. \/ apWrites' = apWrites
          \/ (apWrites < ApWrites /\ apWrites' = apWrites + 1)
      <4>1. CASE SessionWritesFlag
        BY <4>1, Zenon DEF SessionWritesFlag, termVars
      <4>2. CASE WriteFlag
        BY <4>2 DEF WriteFlag
      <4> QED
        BY <2>10, <4>1, <4>2
    <3>3. apWrites' \in 0 .. ApWrites
      BY <2>1, <3>2
    <3> QED
      BY <3>1, <3>3 DEF ApTypeOK
  <2>11. CASE AddFlagWatch \/ FirstFlag \/ FlagEvent
    <3>1. UNCHANGED << apTyped, apResult, apWrites >> /\ apWatch' \in {apWatch, "added", "watching"}
      BY <2>11 DEF AddFlagWatch, FirstFlag, FlagEvent, termVars
    <3> QED
      BY <3>1 DEF ApTypeOK
  <2>12. CASE UNCHANGED apVars
    BY <2>12 DEF apVars, termVars, flagVars, ApTypeOK
  <2> QED
    BY <2>8, <2>9, <2>10, <2>11, <2>12 DEF ApNext
<1> QED
  BY <1>1, <1>2, PTL DEF ApSpec

(***************************************************************************)
(* A provider's stream.  The normalizer forgets nothing of what it needs   *)
(* of the events so far: the session's ID and the open subagents.          *)
(***************************************************************************)

StreamEventType ==
  {"thinking", "assistant_text", "tool_use_start", "subagent_start", "subagent_end", "session_start",
   "hook_start", "hook_result", "tool_result", "rate_limit", "error", "session_end", "none"}

\* An event as it is published.
StreamEvent ==
  {e \in [type : StreamEventType, agent : StTool \union {StNone}, sid : StSession \union {StNone},
          usage : BOOLEAN, raw : {TruncateField(raw, StRawMax) : raw \in StRaw \union {<<>>}},
          of : StRaw \union {<<>>}] :
     e.raw = TruncateField(e.of, StRawMax)}

StreamTypes ==
  /\ StreamTypeOK
  /\ stOut \in Seq(StreamEvent)

\* Events name the session that the normalizer knows, or none, but for the last.
SidsKnown ==
  \A i \in DOMAIN stOut : stOut[i].type # "session_end" => stOut[i].sid \in {StNone, stSid}

\* Only subagents' starts and ends name a subagent.
EndIsLast == stState # "ended" => \A i \in DOMAIN stOut : stOut[i].type # "session_end"

StreamInv == StreamTypes /\ SidsKnown /\ EndIsLast /\ OneSessionEnd /\ AgentsPaired /\ OneSession

\* The session IDs of a sequence of events.
LEMMA EventSids ==
  ASSUME NEW out \in Seq(StreamEvent)
  PROVE  \A i \in DOMAIN out : out[i].sid \in StSession \union {StNone}
<1>1. \A e \in StreamEvent : e.sid \in StSession \union {StNone}
  BY DEF StreamEvent
<1>2. \A i \in DOMAIN out : out[i] \in StreamEvent
  OBVIOUS
<1> QED
  BY <1>1, <1>2

LEMMA StreamInitially == StreamInit => StreamInv
<1> SUFFICES ASSUME StreamInit PROVE StreamInv
  OBVIOUS
<1>1. 0 \in 0 .. StLines
  BY StreamAssumption
<1>2. StreamTypes
  <2>1. <<>> \in Seq(StreamEvent)
    OBVIOUS
  <2>2. \A i \in DOMAIN <<>> : FALSE
    OBVIOUS
  <2>3. StreamTypeOK
    BY <1>1, <2>2 DEF StreamInit, StreamTypeOK
  <2> QED
    BY <2>1, <2>3 DEF StreamInit, StreamTypes
<1> QED
  BY <1>2 DEF StreamInit, StreamInv, SidsKnown, EndIsLast, OneSessionEnd, AgentsPaired, OneSession

\* What a block of a message is used for.
LEMMA FirstToolUseIsABlock ==
  ASSUME NEW blocks \in Seq(StBlock), NEW i \in FirstToolUse(blocks)
  PROVE  blocks[i] \in StBlock /\ (blocks[i].kind = "Agent" => blocks[i].tool \in StTool)
<1>1. i \in DOMAIN blocks /\ blocks[i] \in StBlock
  BY DEF FirstToolUse
<1> QED
  BY <1>1 DEF StBlock

LEMMA AssistantEvents ==
  ASSUME NEW msg, msg.blocks \in Seq(StBlock)
  PROVE  \/ AssistantEvent(msg).type = "subagent_start" /\ AssistantEvent(msg).agent \in StTool
         \/ /\ AssistantEvent(msg).type \in {"tool_use_start", "thinking", "assistant_text", "none"}
            /\ AssistantEvent(msg).agent = StNone
<1> DEFINE first == FirstToolUse(msg.blocks)
           tool == msg.blocks[CHOOSE i \in first : TRUE]
<1>1. CASE first # {} /\ tool.kind = "Agent"
  <2>1. (CHOOSE i \in first : TRUE) \in first
    BY <1>1
  <2>2. tool.tool \in StTool
    BY <1>1, <2>1, FirstToolUseIsABlock
  <2> QED
    BY <1>1, <2>2 DEF AssistantEvent
<1>2. CASE first # {} /\ tool.kind # "Agent"
  BY <1>2 DEF AssistantEvent
<1>3. CASE first = {}
  BY <1>3 DEF AssistantEvent
<1> QED
  BY <1>1, <1>2, <1>3

\* An event starts a subagent, ends an open one, or is about none; none ends the session.
LEMMA EventsOfMessages ==
  ASSUME NEW msg \in StMessage, stAgents \subseteq StTool
  PROVE  LET ev == EventOf(msg) IN
         /\ ev.type \in StreamEventType \ {"session_end"}
         /\ \/ ev.type = "subagent_start" /\ ev.agent \in StTool
            \/ ev.type = "subagent_end" /\ ev.agent \in stAgents
            \/ ev.type \notin {"subagent_start", "subagent_end"} /\ ev.agent = StNone
<1>1. CASE msg.kind = "assistant"
  <2>1. msg.blocks \in Seq(StBlock)
    <3>1. \/ msg.blocks = <<>>
          \/ \E b \in StBlock : msg.blocks = <<b>>
          \/ \E b, c \in StBlock : msg.blocks = <<b, c>>
      BY DEF StMessage
    <3>2. \A b, c \in StBlock : <<>> \in Seq(StBlock) /\ <<b>> \in Seq(StBlock) /\ <<b, c>> \in Seq(StBlock)
      OBVIOUS
    <3>3. <<>> \in Seq(StBlock)
      OBVIOUS
    <3> QED
      BY <3>1, <3>2, <3>3
  <2>2. EventOf(msg) = AssistantEvent(msg)
    BY <1>1 DEF EventOf
  <2> QED
    BY <2>1, <2>2, AssistantEvents DEF StreamEventType
<1>2. CASE msg.kind = "tool_result" /\ msg.tool \in stAgents
  BY <1>2 DEF EventOf, StreamEventType
<1>3. CASE msg.kind # "assistant" /\ ~ (msg.kind = "tool_result" /\ msg.tool \in stAgents)
  <2> DEFINE type == CASE msg.kind = "init" -> "session_start"
                       [] msg.kind = "hook_started" -> "hook_start"
                       [] msg.kind = "hook_response" -> "hook_result"
                       [] msg.kind = "tool_result" -> "tool_result"
                       [] msg.kind = "rate_limit_event" -> "rate_limit"
                       [] msg.kind = "failure" -> "error"
                       [] OTHER -> "none"
  <2>1. EventOf(msg) = [type |-> type, agent |-> StNone]
    BY <1>3 DEF EventOf
  <2>2. type \in {"session_start", "hook_start", "hook_result", "tool_result", "rate_limit", "error", "none"}
    OBVIOUS
  <2> HIDE DEF type
  <2> QED
    BY <2>1, <2>2 DEF StreamEventType
<1> QED
  BY <1>1, <1>2, <1>3

LEMMA MessageSids ==
  ASSUME NEW msg \in StMessage, stSid \in StSession \union {StNone}
  PROVE  /\ SidAfter(msg) \in StSession \union {StNone}
         /\ stSid # StNone => SidAfter(msg) = stSid
  BY DEF StMessage, SidAfter

\* What publishing an event does to the sequence of events.
LEMMA Published ==
  ASSUME NEW out \in Seq(StreamEvent), NEW e \in StreamEvent
  PROVE  /\ Append(out, e) \in Seq(StreamEvent)
         /\ Len(out) \in Nat /\ Len(Append(out, e)) = Len(out) + 1
         /\ DOMAIN out = 1 .. Len(out) /\ DOMAIN Append(out, e) = 1 .. Len(out) + 1
         /\ \A i \in 1 .. Len(out) : Append(out, e)[i] = out[i]
         /\ Append(out, e)[Len(out) + 1] = e
  OBVIOUS

\* An event of agent a is published by a normalizer that knows session sid and
\* has then `agents' open.
LEMMA PublishKeeps ==
  ASSUME StreamInv, stState # "ended", NEW e \in StreamEvent,
         stOut' = Append(stOut, e), stState' \in {"reading", "eof", "error", "ended"},
         e.type = "session_end" <=> stState' = "ended",
         stSid' \in StSession \union {StNone}, stSid # StNone => stSid' = stSid,
         e.sid = stSid' \/ (e.type = "session_end" /\ (stSid # StNone => e.sid # StNone)),
         \/ e.type = "subagent_start" /\ e.agent \in StTool /\ stAgents' = stAgents \union {e.agent}
         \/ e.type = "subagent_end" /\ e.agent \in stAgents /\ stAgents' = stAgents \ {e.agent}
         \/ e.agent = StNone /\ stAgents' = stAgents
  PROVE  SidsKnown' /\ EndIsLast' /\ OneSessionEnd' /\ AgentsPaired' /\ OneSession'
<1> DEFINE n == Len(stOut)
<1>1. /\ n \in Nat /\ Len(stOut') = n + 1
      /\ DOMAIN stOut = 1 .. n /\ DOMAIN stOut' = 1 .. n + 1
      /\ \A i \in 1 .. n : stOut'[i] = stOut[i]
      /\ stOut'[n + 1] = e
  BY Published DEF StreamInv, StreamTypes
<1> HIDE DEF n
<1>2. \A i \in 1 .. n + 1 : i = n + 1 \/ i \in 1 .. n
  BY <1>1
<1>3. \A i \in 1 .. n : i \in 1 .. n + 1 /\ i # n + 1
  BY <1>1
<1>4. SidsKnown'
  BY <1>1, <1>2 DEF StreamInv, SidsKnown
<1>5. EndIsLast'
  BY <1>1, <1>2 DEF StreamInv, EndIsLast
<1>6. OneSessionEnd'
  BY <1>1, <1>2 DEF StreamInv, EndIsLast, OneSessionEnd
<1>7. OneSession'
  <2>1. SUFFICES ASSUME NEW i \in 1 .. n + 1, NEW j \in 1 .. n + 1, i < j, stOut'[i].sid # StNone
                 PROVE  \/ stOut'[j].sid = stOut'[i].sid
                        \/ stOut'[j].type = "session_end" /\ stOut'[j].sid # StNone
    BY <1>1 DEF OneSession
  <2>2. CASE j \in 1 .. n
    <3>1. i \in 1 .. n
      BY <1>1, <2>1, <2>2
    <3> QED
      BY <1>1, <2>1, <2>2, <3>1 DEF StreamInv, OneSession
  <2>3. CASE j = n + 1 /\ i \in 1 .. n
    <3>1. stOut[i].sid = stSid /\ stSid # StNone
      BY <1>1, <2>1, <2>3 DEF StreamInv, SidsKnown, EndIsLast
    <3> QED
      BY <1>1, <2>3, <3>1
  <2> QED
    BY <1>2, <2>1, <2>2, <2>3
<1>8. AgentsPaired'
  <2>1. SUFFICES ASSUME NEW t \in StTool
        PROVE  /\ t \in stAgents' <=>
                    \E i \in 1 .. n + 1 :
                      /\ stOut'[i].agent = t /\ stOut'[i].type = "subagent_start"
                      /\ \A j \in i + 1 .. n + 1 : stOut'[j].agent # t
               /\ \A i \in 1 .. n + 1 : stOut'[i].agent = t =>
                    \/ stOut'[i].type = "subagent_start"
                    \/ /\ stOut'[i].type = "subagent_end"
                       /\ \E j \in 1 .. i - 1 :
                            /\ stOut'[j].agent = t /\ stOut'[j].type = "subagent_start"
                            /\ \A k \in j + 1 .. i - 1 : stOut'[k].agent # t
    BY <1>1 DEF AgentsPaired
  <2> DEFINE Begun(i) == /\ stOut[i].agent = t /\ stOut[i].type = "subagent_start"
                        /\ \A j \in i + 1 .. n : stOut[j].agent # t
             BegunNow(i) == /\ stOut'[i].agent = t /\ stOut'[i].type = "subagent_start"
                           /\ \A j \in i + 1 .. n + 1 : stOut'[j].agent # t
             Closes(i) == \E j \in 1 .. i - 1 :
                            /\ stOut[j].agent = t /\ stOut[j].type = "subagent_start"
                            /\ \A k \in j + 1 .. i - 1 : stOut[k].agent # t
             ClosesNow(i) == \E j \in 1 .. i - 1 :
                            /\ stOut'[j].agent = t /\ stOut'[j].type = "subagent_start"
                            /\ \A k \in j + 1 .. i - 1 : stOut'[k].agent # t
  <2>2. /\ t \in stAgents <=> \E i \in 1 .. n : Begun(i)
        /\ \A i \in 1 .. n : stOut[i].agent = t =>
             stOut[i].type = "subagent_start" \/ (stOut[i].type = "subagent_end" /\ Closes(i))
    <3>1. AgentsPaired /\ DOMAIN stOut = 1 .. n
      BY <1>1 DEF StreamInv
    <3>2. /\ t \in stAgents <=> \E i \in DOMAIN stOut : Begun(i)
          /\ \A i \in DOMAIN stOut : stOut[i].agent = t =>
               stOut[i].type = "subagent_start" \/ (stOut[i].type = "subagent_end" /\ Closes(i))
      <4>1. Len(stOut) = n
        BY DEF n
      <4> QED
        BY <3>1, <4>1, Zenon DEF AgentsPaired
    <3> QED
      BY <3>1, <3>2, Zenon
  <2>3. t # StNone
    BY StreamAssumption
  <2>4. \A i \in 1 .. n : BegunNow(i) <=> Begun(i) /\ e.agent # t
    <3>1. SUFFICES ASSUME NEW i \in 1 .. n PROVE BegunNow(i) <=> Begun(i) /\ e.agent # t
      OBVIOUS
    <3>2. /\ n + 1 \in i + 1 .. n + 1
          /\ \A j \in i + 1 .. n : j \in i + 1 .. n + 1 /\ j \in 1 .. n
          /\ \A j \in i + 1 .. n + 1 : j = n + 1 \/ j \in i + 1 .. n
      BY <1>1
    <3> QED
      BY <1>1, <3>2
  <2>5. BegunNow(n + 1) <=> e.agent = t /\ e.type = "subagent_start"
    <3>1. ~ \E j \in n + 1 + 1 .. n + 1 : TRUE
      BY <1>1
    <3> QED
      BY <1>1, <3>1
  <2>6. \A i \in 1 .. n : Closes(i) => ClosesNow(i)
    <3>1. SUFFICES ASSUME NEW i \in 1 .. n, NEW j \in 1 .. i - 1,
                          stOut[j].agent = t, stOut[j].type = "subagent_start",
                          \A k \in j + 1 .. i - 1 : stOut[k].agent # t
                   PROVE  ClosesNow(i)
      OBVIOUS
    <3>2. j \in 1 .. n /\ \A k \in j + 1 .. i - 1 : k \in 1 .. n
      BY <1>1
    <3> QED
      BY <1>1, <3>1, <3>2
  <2>7. ASSUME e.type = "subagent_end", e.agent = t PROVE ClosesNow(n + 1)
    <3>1. PICK i \in 1 .. n : Begun(i)
      BY <2>2, <2>3, <2>7
    <3>2. i \in 1 .. (n + 1) - 1 /\ \A k \in i + 1 .. (n + 1) - 1 : k \in i + 1 .. n /\ k \in 1 .. n
      BY <1>1
    <3> QED
      BY <1>1, <3>1, <3>2
  <2> HIDE DEF Begun, BegunNow, Closes, ClosesNow
  <2>8. t \in stAgents' <=> \E i \in 1 .. n + 1 : BegunNow(i)
    <3>1. (\E i \in 1 .. n + 1 : BegunNow(i)) <=> BegunNow(n + 1) \/ \E i \in 1 .. n : BegunNow(i)
      BY <1>1, <1>2, <1>3
    <3>2. (\E i \in 1 .. n : BegunNow(i)) <=> t \in stAgents /\ e.agent # t
      BY <2>2, <2>4
    <3> QED
      BY <2>3, <2>5, <3>1, <3>2
  <2>9. \A i \in 1 .. n + 1 : stOut'[i].agent = t =>
          stOut'[i].type = "subagent_start" \/ (stOut'[i].type = "subagent_end" /\ ClosesNow(i))
    BY <1>1, <1>2, <2>2, <2>3, <2>6, <2>7
  <2> QED
    BY <2>8, <2>9 DEF BegunNow, ClosesNow
<1> QED
  BY <1>4, <1>5, <1>6, <1>7, <1>8

LEMMA ReadMessageKeeps == ASSUME StreamInv, ReadMessage PROVE StreamInv'
<1>1. PICK msg \in StMessage, raw \in StRaw, rest \in {"none", "eof", "error"} :
        NormalizeMessage(msg, raw) /\ stPending' = rest
  BY DEF ReadMessage
<1>2. /\ stRead' = stRead + 1 /\ stRead < StLines
      /\ stState' = "reading" /\ stState = "reading"
  BY DEF ReadMessage
<1> DEFINE ev == EventOf(msg)
           e  == [type |-> ev.type, agent |-> ev.agent, sid |-> SidAfter(msg), usage |-> FALSE,
                  raw |-> TruncateField(raw, StRawMax), of |-> raw]
<1>3. /\ stSid' = SidAfter(msg) /\ stAgents' = OpenAgents(ev)
      /\ stUsage' = (stUsage \/ msg.kind = "result")
      /\ stOut' = IF ev.type = "none" THEN stOut ELSE Append(stOut, e)
  BY <1>1 DEF NormalizeMessage
<1>4. /\ stAgents \subseteq StTool /\ stSid \in StSession \union {StNone}
      /\ stUsage \in BOOLEAN /\ stOut \in Seq(StreamEvent) /\ stRead \in 0 .. StLines
  BY DEF StreamInv, StreamTypes, StreamTypeOK
<1>5. /\ ev.type \in StreamEventType \ {"session_end"}
      /\ \/ ev.type = "subagent_start" /\ ev.agent \in StTool
         \/ ev.type = "subagent_end" /\ ev.agent \in stAgents
         \/ ev.type \notin {"subagent_start", "subagent_end"} /\ ev.agent = StNone
  BY <1>4, EventsOfMessages
<1>6. SidAfter(msg) \in StSession \union {StNone} /\ (stSid # StNone => SidAfter(msg) = stSid)
  BY <1>4, MessageSids
<1> HIDE DEF ev
<1>7. \/ ev.type = "subagent_start" /\ ev.agent \in StTool /\ stAgents' = stAgents \union {ev.agent}
      \/ ev.type = "subagent_end" /\ ev.agent \in stAgents /\ stAgents' = stAgents \ {ev.agent}
      \/ ev.agent = StNone /\ stAgents' = stAgents
  BY <1>3, <1>5 DEF OpenAgents
<1>8. e \in StreamEvent
  BY <1>4, <1>5, <1>6 DEF StreamEvent
<1>9. /\ e.type = ev.type /\ e.agent = ev.agent /\ e.sid = SidAfter(msg)
  OBVIOUS
<1> HIDE DEF e
<1>10. stOut' \in Seq(StreamEvent)
  BY <1>3, <1>4, <1>8
<1>11. SidsKnown' /\ EndIsLast' /\ OneSessionEnd' /\ AgentsPaired' /\ OneSession'
  <2>1. CASE ev.type = "none"
    <3>1. stOut' = stOut /\ stAgents' = stAgents
      BY <1>3, <1>7, <2>1
    <3>2. SidsKnown'
      BY <1>3, <1>6, <3>1 DEF StreamInv, SidsKnown
    <3>3. EndIsLast' /\ OneSessionEnd'
      BY <1>2, <3>1 DEF StreamInv, EndIsLast, OneSessionEnd
    <3> QED
      BY <3>1, <3>2, <3>3 DEF StreamInv, AgentsPaired, OneSession
  <2>2. CASE ev.type # "none"
    <3>1. stOut' = Append(stOut, e)
      BY <1>3, <2>2
    <3>2. e.type # "session_end" /\ stState' # "ended" /\ stState # "ended"
      BY <1>2, <1>5, <1>9
    <3>3. /\ stState' \in {"reading", "eof", "error", "ended"}
          /\ stSid' \in StSession \union {StNone} /\ (stSid # StNone => stSid' = stSid) /\ e.sid = stSid'
      BY <1>2, <1>3, <1>6, <1>9
    <3> QED
      BY <1>7, <1>8, <1>9, <3>1, <3>2, <3>3, PublishKeeps
  <2> QED
    BY <2>1, <2>2
<1>12. stAgents' \subseteq StTool
  BY <1>4, <1>7
<1>13. stRead' \in 0 .. StLines
  BY <1>2, <1>4, StreamAssumption
<1>14. \A i \in DOMAIN stOut' : stOut'[i].sid \in StSession \union {StNone}
  BY <1>10, EventSids
<1>15. StreamTypeOK'
  BY <1>1, <1>2, <1>3, <1>6, <1>12, <1>13, <1>14, <1>4 DEF StreamTypeOK
<1> QED
  BY <1>10, <1>11, <1>15 DEF StreamInv, StreamTypes

LEMMA SessionEndKeeps == ASSUME StreamInv, SessionEnd PROVE StreamInv'
<1>1. /\ stState \in {"eof", "error"} /\ stState' = "ended"
      /\ UNCHANGED <<stRead, stPending, stSid, stAgents, stUsage>>
  BY DEF SessionEnd
<1>2. PICK sid \in StSession \union {StNone} :
        stOut' = Append(stOut, [type  |-> "session_end", agent |-> StNone,
                                sid   |-> IF sid = StNone THEN stSid ELSE sid,
                                usage |-> stUsage,
                                raw   |-> TruncateField(<<>>, StRawMax), of |-> <<>>])
  BY DEF SessionEnd
<1> DEFINE named == IF sid = StNone THEN stSid ELSE sid
           e == [type |-> "session_end", agent |-> StNone, sid |-> named, usage |-> stUsage,
                 raw |-> TruncateField(<<>>, StRawMax), of |-> <<>>]
<1>3. /\ stAgents \subseteq StTool /\ stSid \in StSession \union {StNone}
      /\ stUsage \in BOOLEAN /\ stOut \in Seq(StreamEvent)
  BY DEF StreamInv, StreamTypes, StreamTypeOK
<1>4. e \in StreamEvent
  BY <1>3 DEF StreamEvent, StreamEventType
<1>5. e.type = "session_end" /\ e.agent = StNone /\ (stSid # StNone => e.sid # StNone)
  OBVIOUS
<1>6. stOut' = Append(stOut, e)
  BY <1>2
<1> HIDE DEF e
<1>7. SidsKnown' /\ EndIsLast' /\ OneSessionEnd' /\ AgentsPaired' /\ OneSession'
  <2>1. stState # "ended" /\ stState' \in {"reading", "eof", "error", "ended"} /\ stSid' = stSid
        /\ stAgents' = stAgents
    BY <1>1
  <2> QED
    BY <1>1, <1>3, <1>4, <1>5, <1>6, <2>1, PublishKeeps
<1>8. stOut' \in Seq(StreamEvent)
  BY <1>3, <1>4, <1>6
<1>9. \A i \in DOMAIN stOut' : stOut'[i].sid \in StSession \union {StNone}
  BY <1>8, EventSids
<1>10. StreamTypeOK'
  BY <1>1, <1>9 DEF StreamInv, StreamTypes, StreamTypeOK
<1> QED
  BY <1>7, <1>8, <1>10 DEF StreamInv, StreamTypes

\* Steps of the reader that publish nothing.
LEMMA ReaderKeeps == ASSUME StreamInv, SkipLine \/ StreamStops PROVE StreamInv'
<1>1. /\ UNCHANGED <<stSid, stAgents, stUsage, stOut>>
      /\ stState = "reading"
  BY DEF SkipLine, StreamStops
<1>2. stPending \in {"none", "eof", "error"} /\ stRead \in 0 .. StLines
  BY DEF StreamInv, StreamTypes, StreamTypeOK
<1>3. /\ stState' \in {"reading", "eof", "error"}
      /\ stPending' \in {"none", "eof", "error"}
      /\ stRead' \in 0 .. StLines
  <2>1. CASE SkipLine
    BY <1>2, <2>1, StreamAssumption DEF SkipLine
  <2>2. CASE StreamStops
    BY <1>2, <2>2 DEF StreamStops
  <2> QED
    BY <2>1, <2>2
<1>4. StreamTypes'
  BY <1>1, <1>3 DEF StreamInv, StreamTypes, StreamTypeOK
<1>5. EndIsLast' /\ OneSessionEnd'
  BY <1>1, <1>3 DEF StreamInv, EndIsLast, OneSessionEnd
<1> QED
  BY <1>1, <1>4, <1>5 DEF StreamInv, SidsKnown, AgentsPaired, OneSession

\* Every step keeps the invariant (SessionStream, one case each).
LEMMA StreamStepKeeps == StreamInv /\ [StreamNext]_streamVars => StreamInv'
<1> SUFFICES ASSUME StreamInv, [StreamNext]_streamVars PROVE StreamInv'
  OBVIOUS
<1>1. CASE UNCHANGED streamVars
  BY <1>1 DEF streamVars, StreamInv, StreamTypes, StreamTypeOK, SidsKnown, EndIsLast, OneSessionEnd,
     AgentsPaired, OneSession
<1> QED
  BY <1>1, ReadMessageKeeps, SessionEndKeeps, ReaderKeeps DEF StreamNext

-----------------------------------------------------------------------------
(* What is kept of a line. *)

Runes == INSTANCE Folding WITH Step <- Widths

LEMMA BytesAre ==
  /\ Bytes(<< >>) = 0
  /\ \A runes \in Seq(1 .. 4) : Bytes(runes) \in Nat
<1>1. \A runes : Bytes(runes) = Runes!Folded(0, runes)
  BY DEF Bytes, FoldLeft, MapThenFoldSet, Max, Runes!Folded, Runes!Greatest
<1>2. Runes!Folded(0, << >>) = 0
  BY Runes!FoldEmpty
<1>3. 0 \in Nat /\ \A n \in Nat, r \in 1 .. 4 : Widths(n, r) \in Nat
  BY DEF Widths
<1>4. \A runes \in Seq(1 .. 4) : Runes!Folded(0, runes) \in Nat
  BY <1>3, Runes!FoldKeeps
<1> QED
  BY <1>1, <1>2, <1>4

\* There is a last rune that is kept.
LEMMA KeptRunesExist ==
  ASSUME NEW runes \in Seq(1 .. 4)
  PROVE  /\ KeptRunes(runes, StRawMax) \in 0 .. Len(runes)
         /\ Bytes(SubSeq(runes, 1, KeptRunes(runes, StRawMax))) <= StRawMax - 3
<1> DEFINE B(k) == Bytes(SubSeq(runes, 1, k))
           T == {k \in 0 .. Len(runes) : k = Len(runes) \/ B(k + 1) > StRawMax - 3}
<1>1. Len(runes) \in T /\ T \subseteq Nat /\ T \subseteq 0 .. Len(runes)
  OBVIOUS
<1>2. PICK k \in T : \A m \in T : k <= m
  BY <1>1, Runes!LeastElement
<1>3. k \in Nat /\ k <= Len(runes) /\ Len(runes) \in Nat
  BY <1>1
<1>4. StRawMax \in Nat /\ StRawMax >= 3
  BY StreamAssumption
<1>5. B(k) <= StRawMax - 3
  <2>1. CASE k = 0
    <3>1. SubSeq(runes, 1, 0) = << >>
      OBVIOUS
    <3>2. B(0) = 0
      BY <3>1, BytesAre
    <3> HIDE DEF B
    <3> QED
      BY <1>4, <2>1, <3>2
  <2>2. CASE k # 0
    <3>1. k - 1 \in 0 .. Len(runes) /\ (k - 1) + 1 = k /\ k - 1 # Len(runes) /\ ~ (k <= k - 1)
      BY <1>3, <2>2
    <3>2. k - 1 \notin T
      BY <1>2, <3>1
    <3>3. ~ (B((k - 1) + 1) > StRawMax - 3)
      BY <3>1, <3>2
    <3>4. ~ (B(k) > StRawMax - 3)
      BY <3>1, <3>3
    <3>5. SubSeq(runes, 1, k) \in Seq(1 .. 4)
      BY <1>3
    <3>6. B(k) \in Nat
      BY <3>5, BytesAre
    <3> HIDE DEF B
    <3> QED
      BY <1>4, <3>4, <3>6
  <2> QED
    BY <2>1, <2>2
<1>6. k = Len(runes) \/ B(k + 1) > StRawMax - 3
  OBVIOUS
<1>7. k \in 0 .. Len(runes)
  BY <1>3
<1> QED
  BY <1>5, <1>6, <1>7, Zenon DEF KeptRunes

LEMMA TruncatedFits ==
  ASSUME NEW runes \in Seq(1 .. 4)
  PROVE  /\ TruncateField(runes, StRawMax).bytes <= StRawMax
         /\ IF TruncateField(runes, StRawMax).cut
            THEN \E k \in 0 .. Len(runes) :
                   TruncateField(runes, StRawMax).bytes = Bytes(SubSeq(runes, 1, k)) + 3
            ELSE TruncateField(runes, StRawMax).bytes = Bytes(runes)
<1>1. CASE Bytes(runes) <= StRawMax
  BY <1>1 DEF TruncateField
<1>2. CASE ~ (Bytes(runes) <= StRawMax)
  <2> DEFINE k == KeptRunes(runes, StRawMax)
             b == Bytes(SubSeq(runes, 1, k))
  <2>1. k \in 0 .. Len(runes) /\ b <= StRawMax - 3
    BY KeptRunesExist
  <2>2. TruncateField(runes, StRawMax) = [bytes |-> b + 3, cut |-> TRUE]
    BY <1>2 DEF TruncateField
  <2>3. b \in Nat
    <3>1. SubSeq(runes, 1, k) \in Seq(1 .. 4)
      BY <2>1
    <3> QED
      BY <3>1, BytesAre
  <2>4. b + 3 <= StRawMax
    <3> HIDE DEF b
    <3> QED
      BY <2>1, <2>3, StreamAssumption
  <2> HIDE DEF k
  <2> QED
    BY <2>1, <2>2, <2>4
<1> QED
  BY <1>1, <1>2

LEMMA RawsFit == StreamInv => RawFits
<1> SUFFICES ASSUME StreamInv, NEW i \in DOMAIN stOut
             PROVE  LET raw == stOut[i].raw IN
                      /\ raw.bytes <= StRawMax
                      /\ IF raw.cut
                         THEN \E k \in 0 .. Len(stOut[i].of) : raw.bytes = Bytes(SubSeq(stOut[i].of, 1, k)) + 3
                         ELSE raw.bytes = Bytes(stOut[i].of)
  BY DEF RawFits
<1>1. stOut[i] \in StreamEvent
  BY DEF StreamInv, StreamTypes
<1>2. stOut[i].raw = TruncateField(stOut[i].of, StRawMax) /\ stOut[i].of \in StRaw \union {<<>>}
  BY <1>1 DEF StreamEvent
<1>3. stOut[i].of \in Seq(1 .. 4)
  <2>1. << >> \in Seq(1 .. 4)
    OBVIOUS
  <2>2. StRaw \subseteq Seq(1 .. 4)
    BY StreamAssumption
  <2> QED
    BY <1>2, <2>1, <2>2
<1> QED
  BY <1>2, <1>3, TruncatedFits

LEMMA StreamInvImplies == StreamInv => StreamTypeOK /\ StreamSound
  BY RawsFit DEF StreamInv, StreamTypes, StreamSound

\* Whatever lines a provider writes and however its stream ends: there is one
\* session_end and it is the last event, no event before it names another session
\* than the first that was named and it names one then too, its caller's or that
\* one, a subagent's end answers a start of it, and of a raw line that does not
\* fit whole runes are kept
\* (platform/stream_reader.go, platform/stream_normalizer.go).
THEOREM StreamIsSound == StreamSpec => [](StreamTypeOK /\ StreamSound)
<1> QED
  BY StreamInitially, StreamStepKeeps, StreamInvImplies, PTL DEF StreamSpec

-----------------------------------------------------------------------------
(***************************************************************************)
(* The session bus.  A publisher inside Publish holds the read lock, so    *)
(* the subscribers it walks stay registered and their channels open; what  *)
(* a subscriber sees of it is what it has published so far, without gaps   *)
(* that are not accounted for.                                             *)
(***************************************************************************)

\* What a subscriber has received and will, in order.
Seen(s) == busGot[s] \o busChan[s]

BusTypes ==
  /\ busSubs \in Seq(BusSub) /\ NoDup(busSubs)
  /\ busClosed \in BOOLEAN
  /\ busSent \in [BusPub -> Nat]
  /\ busTodo \in [BusPub -> Seq(BusSub)]
  /\ busChan \in [BusSub -> Seq(BusEvent)]
  /\ \A s \in BusSub : Len(busChan[s]) <= BusBuffer
  /\ busDone \in [BusSub -> BOOLEAN]
  /\ busShut \subseteq BusSub
  /\ busGot \in [BusSub -> Seq(BusEvent)]
  /\ busMissed \in [BusSub -> SUBSET BusEvent]
  /\ busSince \in [BusSub -> [BusPub -> Nat]]

\* A walk is over registered subscribers, each once, and goes on under the read lock.
Walks ==
  /\ \A p \in BusPub : NoDup(busTodo[p]) /\ Elems(busTodo[p]) \subseteq Elems(busSubs)
  /\ \A p \in BusPub : busTodo[p] # << >> => busSent[p] > 0
  /\ ~ busClosed => busShut = {}
  /\ busClosed => busSubs = << >>

\* A subscriber has seen no event of the future, nor one it is still to be served.
SeenIsSent ==
  \A s \in BusSub : \A i \in 1 .. Len(Seen(s)) :
    /\ Seen(s)[i][2] <= busSent[Seen(s)[i][1]]
    /\ \A p \in BusPub : Seen(s)[i][1] = p /\ s \in Elems(busTodo[p]) => Seen(s)[i][2] < busSent[p]

\* InOrder and Accounted, of what was seen.
SeenInOrder ==
  \A s \in BusSub : \A i, j \in 1 .. Len(Seen(s)) :
    i < j /\ Seen(s)[i][1] = Seen(s)[j][1] => Seen(s)[i][2] < Seen(s)[j][2]

SeenOrMissed ==
  \A s \in BusSub : s \in Elems(busSubs) =>
    \A p \in BusPub : \A n \in (busSince[s][p] + 1) .. busSent[p] :
      \/ <<p, n>> \in Elems(Seen(s)) \union busMissed[s]
      \/ n = busSent[p] /\ s \in Elems(busTodo[p])

BusInv == BusTypes /\ Walks /\ SeenIsSent /\ SeenInOrder /\ SeenOrMissed

-----------------------------------------------------------------------------
LEMMA SeenType ==
  ASSUME BusTypes, NEW s \in BusSub
  PROVE  /\ Seen(s) \in Seq(BusEvent)
         /\ \A i \in 1 .. Len(Seen(s)) : Seen(s)[i] \in BusEvent /\ Seen(s)[i][1] \in BusPub
                                         /\ Seen(s)[i][2] \in Nat \ {0}
<1>1. Seen(s) \in Seq(BusEvent)
  BY DEF BusTypes, Seen
<1>2. \A i \in 1 .. Len(Seen(s)) : Seen(s)[i] \in BusEvent
  BY <1>1
<1>3. \A e \in BusEvent : e[1] \in BusPub /\ e[2] \in Nat \ {0}
  BY DEF BusEvent
<1> QED
  BY <1>1, <1>2, <1>3

LEMMA EmptyList == ASSUME NEW T PROVE << >> \in Seq(T) /\ Elems(<< >>) = {} /\ NoDup(<< >>)
  BY DEF Elems, NoDup

LEMMA BusInitially == BusInit => BusInv
<1> SUFFICES ASSUME BusInit PROVE BusInv
  OBVIOUS
<1>1. << >> \in Seq(BusSub) /\ << >> \in Seq(BusEvent) /\ Elems(<< >>) = {} /\ NoDup(<< >>) /\ Len(<< >>) = 0
  BY EmptyList
<1>2. BusTypes
  <2>1. busChan \in [BusSub -> Seq(BusEvent)] /\ busGot \in [BusSub -> Seq(BusEvent)]
        /\ busTodo \in [BusPub -> Seq(BusSub)]
    BY <1>1 DEF BusInit
  <2>2. \A s \in BusSub : Len(busChan[s]) <= BusBuffer
    BY <1>1, BusAssumption DEF BusInit
  <2>3. /\ busSent \in [BusPub -> Nat] /\ busMissed \in [BusSub -> SUBSET BusEvent]
        /\ busSince \in [BusSub -> [BusPub -> Nat]] /\ busDone \in [BusSub -> BOOLEAN]
    BY DEF BusInit
  <2> QED
    BY <1>1, <2>1, <2>2, <2>3 DEF BusInit, BusTypes
<1>3. Walks
  BY <1>1 DEF BusInit, Walks
<1>4. \A s \in BusSub : Seen(s) = << >> /\ Len(Seen(s)) = 0
  BY DEF BusInit, Seen
<1>5. SeenIsSent /\ SeenInOrder
  BY <1>4 DEF SeenIsSent, SeenInOrder
<1>6. SeenOrMissed
  BY <1>1 DEF BusInit, SeenOrMissed
<1> QED
  BY <1>2, <1>3, <1>5, <1>6 DEF BusInv

-----------------------------------------------------------------------------
(* Steps. *)

LEMMA PublishesKeep == ASSUME BusInv, NEW p \in BusPub, Publish(p) PROVE BusInv'
<1>1. /\ busTodo[p] = << >> /\ ~ busClosed
      /\ busSent' = [busSent EXCEPT ![p] = @ + 1]
      /\ busTodo' = [busTodo EXCEPT ![p] = busSubs]
      /\ UNCHANGED <<busSubs, busClosed, busChan, busDone, busShut, busGot, busMissed, busSince>>
  BY DEF Publish
<1>2. BusTypes /\ BusTypes'
  <2>1. BusTypes
    BY DEF BusInv
  <2>2. busSent' \in [BusPub -> Nat] /\ busTodo' \in [BusPub -> Seq(BusSub)]
    BY <1>1, <2>1 DEF BusTypes
  <2> QED
    BY <1>1, <2>1, <2>2 DEF BusTypes
<1>3. /\ \A q \in BusPub : busSent[q] \in Nat /\ busSent'[q] = IF q = p THEN busSent[q] + 1 ELSE busSent[q]
      /\ \A q \in BusPub : busTodo'[q] = IF q = p THEN busSubs ELSE busTodo[q]
  BY <1>1, <1>2 DEF BusTypes
<1>4. Walks'
  <2>1. NoDup(busSubs)
    BY <1>2 DEF BusTypes
  <2>2. \A q \in BusPub : NoDup(busTodo'[q]) /\ Elems(busTodo'[q]) \subseteq Elems(busSubs)
    BY <1>3, <2>1 DEF BusInv, Walks
  <2>3. \A q \in BusPub : busTodo'[q] # << >> => busSent'[q] > 0
    BY <1>3 DEF BusInv, Walks
  <2> QED
    BY <1>1, <2>2, <2>3 DEF BusInv, Walks
<1>5. \A s \in BusSub : Seen(s)' = Seen(s)
  BY <1>1 DEF Seen
<1>6. SeenInOrder'
  BY <1>5 DEF BusInv, SeenInOrder
<1>7. SeenIsSent'
  <2>1. SUFFICES ASSUME NEW s \in BusSub, NEW i \in 1 .. Len(Seen(s))
        PROVE  /\ Seen(s)[i][2] <= busSent'[Seen(s)[i][1]]
               /\ \A q \in BusPub : Seen(s)[i][1] = q /\ s \in Elems(busTodo'[q]) => Seen(s)[i][2] < busSent'[q]
    BY <1>5 DEF SeenIsSent
  <2>2. Seen(s)[i][1] \in BusPub /\ Seen(s)[i][2] \in Nat
    BY <1>2, SeenType
  <2> QED
    BY <1>3, <2>2 DEF BusInv, SeenIsSent
<1>8. SeenOrMissed'
  <2>1. SUFFICES ASSUME NEW s \in BusSub, s \in Elems(busSubs), NEW q \in BusPub,
                        NEW n \in (busSince[s][q] + 1) .. busSent'[q]
        PROVE  \/ <<q, n>> \in Elems(Seen(s)) \union busMissed[s]
               \/ n = busSent'[q] /\ s \in Elems(busTodo'[q])
    BY <1>1, <1>5 DEF SeenOrMissed
  <2>2. busSince[s][q] \in Nat
    BY <1>2 DEF BusTypes
  <2>3. CASE n = busSent'[q] /\ q = p
    BY <1>3, <2>1, <2>3
  <2>4. CASE ~ (n = busSent'[q] /\ q = p)
    <3>1. n \in (busSince[s][q] + 1) .. busSent[q]
      BY <1>3, <2>2, <2>4
    <3>2. q = p => s \notin Elems(busTodo[q])
      BY <1>1, EmptyList
    <3> QED
      BY <1>3, <2>1, <3>1, <3>2 DEF BusInv, SeenOrMissed
  <2> QED
    BY <2>3, <2>4
<1> QED
  BY <1>2, <1>4, <1>6, <1>7, <1>8 DEF BusInv

\* What a walk's step to the next subscriber leaves to do.
LEMMA WalkGoesOn ==
  ASSUME BusInv, NEW p \in BusPub, busTodo[p] # << >>
  PROVE  /\ Head(busTodo[p]) \in BusSub /\ Head(busTodo[p]) \in Elems(busTodo[p])
         /\ Tail(busTodo[p]) \in Seq(BusSub) /\ NoDup(Tail(busTodo[p]))
         /\ Elems(Tail(busTodo[p])) = Elems(busTodo[p]) \ {Head(busTodo[p])}
         /\ <<p, busSent[p]>> \in BusEvent
<1>1. busTodo[p] \in Seq(BusSub) /\ NoDup(busTodo[p]) /\ busSent[p] \in Nat \ {0}
  BY DEF BusInv, BusTypes, Walks
<1>2. Head(busTodo[p]) \in BusSub
  BY <1>1
<1>3. <<p, busSent[p]>> \in BusEvent
  BY <1>1 DEF BusEvent
<1> QED
  BY <1>1, <1>2, <1>3, Received

\* A step of publisher p that serves or gives up on some subscribers that it had
\* still to serve: each of them sees its event or has it among the missed ones.
LEMMA ServesKeep ==
  ASSUME BusInv, BusTypes', NEW p \in BusPub, busTodo[p] # << >>,
         UNCHANGED <<busSubs, busClosed, busSent, busShut, busSince>>,
         NEW Served \in SUBSET Elems(busTodo[p]),
         NoDup(busTodo'[p]), Elems(busTodo'[p]) = Elems(busTodo[p]) \ Served,
         \A q \in BusPub : q # p => busTodo'[q] = busTodo[q],
         \A s \in BusSub : busMissed[s] \subseteq busMissed'[s],
         \A s \in BusSub : \/ Seen(s)' = Seen(s)
                           \/ s \in Served /\ Seen(s)' = Append(Seen(s), <<p, busSent[p]>>),
         \A s \in Served : \/ <<p, busSent[p]>> \in busMissed'[s]
                           \/ Seen(s)' = Append(Seen(s), <<p, busSent[p]>>)
  PROVE  BusInv'
<1> DEFINE e == <<p, busSent[p]>>
<1>1. e \in BusEvent /\ e[1] = p /\ e[2] = busSent[p] /\ busSent[p] \in Nat
  BY WalkGoesOn DEF BusInv, BusTypes
<1> HIDE DEF e
<1>2. \A q \in BusPub : Elems(busTodo'[q]) \subseteq Elems(busTodo[q])
  OBVIOUS
<1>3. Walks'
  BY <1>2 DEF BusInv, Walks
<1>4. \A s \in BusSub : Elems(Seen(s)) \subseteq Elems(Seen(s)') /\ (Seen(s)' # Seen(s) => e \in Elems(Seen(s)'))
  <2>1. SUFFICES ASSUME NEW s \in BusSub, Seen(s)' = Append(Seen(s), e)
                 PROVE  Elems(Seen(s)) \subseteq Elems(Seen(s)') /\ e \in Elems(Seen(s)')
    BY DEF e
  <2>2. Seen(s) \in Seq(BusEvent)
    BY SeenType DEF BusInv
  <2> QED
    BY <1>1, <2>1, <2>2 DEF Elems
<1>5. ASSUME NEW s \in BusSub, s \in Served, Seen(s)' = Append(Seen(s), e)
      PROVE  /\ Len(Seen(s)) \in Nat /\ Len(Seen(s)') = Len(Seen(s)) + 1
             /\ \A i \in 1 .. Len(Seen(s)) : Seen(s)'[i] = Seen(s)[i]
             /\ Seen(s)'[Len(Seen(s)) + 1] = e
             /\ \A i \in 1 .. Len(Seen(s)) : Seen(s)[i][1] = p => Seen(s)[i][2] < busSent[p]
  <2>1. Seen(s) \in Seq(BusEvent)
    BY SeenType DEF BusInv
  <2> QED
    BY <1>1, <1>5, <2>1 DEF BusInv, SeenIsSent
<1>6. SeenInOrder'
  <2>1. SUFFICES ASSUME NEW s \in BusSub, NEW i \in 1 .. Len(Seen(s)'), NEW j \in 1 .. Len(Seen(s)'),
                        i < j, Seen(s)'[i][1] = Seen(s)'[j][1]
                 PROVE  Seen(s)'[i][2] < Seen(s)'[j][2]
    BY DEF SeenInOrder
  <2>2. CASE Seen(s)' = Seen(s)
    BY <2>1, <2>2 DEF BusInv, SeenInOrder
  <2>3. CASE s \in Served /\ Seen(s)' = Append(Seen(s), e)
    <3>1. i \in 1 .. Len(Seen(s)) /\ (j \in 1 .. Len(Seen(s)) \/ j = Len(Seen(s)) + 1)
      BY <1>5, <2>1, <2>3
    <3> QED
      BY <1>1, <1>5, <2>1, <2>3, <3>1 DEF BusInv, SeenInOrder
  <2> QED
    BY <2>2, <2>3 DEF e
<1>7. SeenIsSent'
  <2>1. SUFFICES ASSUME NEW s \in BusSub, NEW i \in 1 .. Len(Seen(s)')
        PROVE  /\ Seen(s)'[i][2] <= busSent[Seen(s)'[i][1]]
               /\ \A q \in BusPub : Seen(s)'[i][1] = q /\ s \in Elems(busTodo'[q]) => Seen(s)'[i][2] < busSent[q]
    BY DEF SeenIsSent
  <2>2. CASE Seen(s)' = Seen(s)
    BY <1>2, <2>1, <2>2 DEF BusInv, SeenIsSent
  <2>3. CASE s \in Served /\ Seen(s)' = Append(Seen(s), e)
    <3>1. i \in 1 .. Len(Seen(s)) \/ i = Len(Seen(s)) + 1
      BY <1>5, <2>1, <2>3
    <3>2. s \notin Elems(busTodo'[p])
      BY <2>3
    <3> QED
      BY <1>1, <1>2, <1>5, <2>1, <2>3, <3>1, <3>2 DEF BusInv, SeenIsSent
  <2> QED
    BY <2>2, <2>3 DEF e
<1>8. SeenOrMissed'
  <2>1. SUFFICES ASSUME NEW s \in BusSub, s \in Elems(busSubs), NEW q \in BusPub,
                        NEW n \in (busSince[s][q] + 1) .. busSent[q]
        PROVE  \/ <<q, n>> \in Elems(Seen(s)') \union busMissed'[s]
               \/ n = busSent[q] /\ s \in Elems(busTodo'[q])
    BY DEF SeenOrMissed
  <2>2. \/ <<q, n>> \in Elems(Seen(s)) \union busMissed[s]
        \/ n = busSent[q] /\ s \in Elems(busTodo[q])
    BY <2>1 DEF BusInv, SeenOrMissed
  <2>3. CASE q = p /\ n = busSent[p] /\ s \in Served
    <3>1. e = <<q, n>>
      BY <2>3 DEF e
    <3>2. e \in busMissed'[s] \/ e \in Elems(Seen(s)')
      <4>1. e \in busMissed'[s] \/ Seen(s)' = Append(Seen(s), e)
        BY <2>3 DEF e
      <4>2. ASSUME Seen(s)' = Append(Seen(s), e) PROVE e \in Elems(Seen(s)')
        <5>1. Len(Seen(s)) + 1 \in 1 .. Len(Seen(s)') /\ Seen(s)'[Len(Seen(s)) + 1] = e
          BY <1>5, <2>3, <4>2
        <5> QED
          BY <5>1 DEF Elems
      <4> QED
        BY <4>1, <4>2
    <3> QED
      BY <3>1, <3>2
  <2>4. CASE ~ (q = p /\ n = busSent[p] /\ s \in Served)
    BY <1>4, <2>2, <2>4
  <2> QED
    BY <2>3, <2>4
<1> QED
  BY <1>3, <1>6, <1>7, <1>8 DEF BusInv

\* The bookkeeping of a walk's step keeps its types.
LEMMA ServingTypes ==
  ASSUME BusTypes, NEW p \in BusPub, NEW rest \in Seq(BusSub),
         busTodo' = [busTodo EXCEPT ![p] = rest],
         busChan' \in [BusSub -> Seq(BusEvent)], \A s \in BusSub : Len(busChan'[s]) <= BusBuffer,
         busMissed' \in [BusSub -> SUBSET BusEvent],
         UNCHANGED <<busSubs, busClosed, busSent, busDone, busShut, busGot, busSince>>
  PROVE  BusTypes'
<1>1. busTodo' \in [BusPub -> Seq(BusSub)]
  BY DEF BusTypes
<1> QED
  BY <1>1 DEF BusTypes

LEMMA SendKeeps == ASSUME BusInv, NEW p \in BusPub, SendTo(p) PROVE BusInv'
<1> DEFINE s == Head(busTodo[p])
           e == <<p, busSent[p]>>
           rest == Tail(busTodo[p])
<1>1. /\ busTodo[p] # << >> /\ Len(busChan[s]) < BusBuffer
      /\ busChan' = [busChan EXCEPT ![s] = Append(@, e)]
      /\ busTodo' = [busTodo EXCEPT ![p] = rest]
      /\ UNCHANGED <<busSubs, busClosed, busSent, busDone, busShut, busGot, busMissed, busSince>>
  BY DEF SendTo, NextSubscriber
<1>2. /\ s \in BusSub /\ s \in Elems(busTodo[p]) /\ rest \in Seq(BusSub) /\ NoDup(rest)
      /\ Elems(rest) = Elems(busTodo[p]) \ {s} /\ e \in BusEvent
  BY <1>1, WalkGoesOn
<1> HIDE DEF s, e, rest
<1>3. /\ BusTypes /\ busChan \in [BusSub -> Seq(BusEvent)] /\ busGot \in [BusSub -> Seq(BusEvent)]
      /\ busTodo \in [BusPub -> Seq(BusSub)]
  BY DEF BusInv, BusTypes
<1>4. /\ \A t \in BusSub : busChan'[t] = IF t = s THEN Append(busChan[s], e) ELSE busChan[t]
      /\ \A q \in BusPub : busTodo'[q] = IF q = p THEN rest ELSE busTodo[q]
  BY <1>1, <1>2, <1>3
<1>5. Append(busChan[s], e) \in Seq(BusEvent) /\ Len(Append(busChan[s], e)) = Len(busChan[s]) + 1
  BY <1>2, <1>3
<1>6. busChan' \in [BusSub -> Seq(BusEvent)]
  BY <1>1, <1>3, <1>5
<1>7. \A t \in BusSub : Len(busChan'[t]) <= BusBuffer
  <2>1. Len(busChan[s]) \in Nat /\ BusBuffer \in Nat /\ \A t \in BusSub : Len(busChan[t]) <= BusBuffer
    BY <1>2, <1>3, BusAssumption DEF BusTypes
  <2> QED
    BY <1>1, <1>4, <1>5, <2>1
<1>8. BusTypes'
  BY <1>1, <1>2, <1>3, <1>6, <1>7, ServingTypes DEF BusTypes
<1>9. \A t \in BusSub : Seen(t)' = IF t = s THEN Append(Seen(t), e) ELSE Seen(t)
  <2>1. busGot[s] \o Append(busChan[s], e) = Append(busGot[s] \o busChan[s], e)
    BY <1>2, <1>3, SentAcross
  <2>2. \A t \in BusSub : Seen(t)' = busGot[t] \o busChan'[t] /\ Seen(t) = busGot[t] \o busChan[t]
    BY <1>1 DEF Seen
  <2>3. \A t \in BusSub : t = s => Seen(t)' = Append(Seen(t), e)
    BY <1>2, <1>4, <2>1, <2>2
  <2>4. \A t \in BusSub : t # s => Seen(t)' = Seen(t)
    BY <1>4, <2>2
  <2> QED
    BY <2>3, <2>4
<1>10. /\ NoDup(busTodo'[p]) /\ Elems(busTodo'[p]) = Elems(busTodo[p]) \ {s}
       /\ \A q \in BusPub : q # p => busTodo'[q] = busTodo[q]
  BY <1>2, <1>4
<1>11. {s} \in SUBSET Elems(busTodo[p])
  BY <1>2
<1>12. \A t \in BusSub : Seen(t)' = Seen(t) \/ (t \in {s} /\ Seen(t)' = Append(Seen(t), <<p, busSent[p]>>))
  BY <1>9 DEF e
<1>13. \A t \in {s} : <<p, busSent[p]>> \in busMissed'[t] \/ Seen(t)' = Append(Seen(t), <<p, busSent[p]>>)
  BY <1>2, <1>9 DEF e
<1>14. \A t \in BusSub : busMissed[t] \subseteq busMissed'[t]
  BY <1>1
<1>15. UNCHANGED <<busSubs, busClosed, busSent, busShut, busSince>>
  BY <1>1
<1> QED
  BY <1>1, <1>8, <1>10, <1>11, <1>12, <1>13, <1>14, <1>15, ServesKeep

LEMMA SkipKeeps == ASSUME BusInv, NEW p \in BusPub, SkipSubscriber(p) PROVE BusInv'
<1> DEFINE s == Head(busTodo[p])
           e == <<p, busSent[p]>>
           rest == Tail(busTodo[p])
<1>1. /\ busTodo[p] # << >>
      /\ busMissed' = [busMissed EXCEPT ![s] = @ \union {e}]
      /\ busTodo' = [busTodo EXCEPT ![p] = rest]
      /\ UNCHANGED <<busSubs, busClosed, busSent, busChan, busDone, busShut, busGot, busSince>>
  BY DEF SkipSubscriber, NextSubscriber
<1>2. /\ s \in BusSub /\ s \in Elems(busTodo[p]) /\ rest \in Seq(BusSub) /\ NoDup(rest)
      /\ Elems(rest) = Elems(busTodo[p]) \ {s} /\ e \in BusEvent
  BY <1>1, WalkGoesOn
<1> HIDE DEF s, e, rest
<1>3. /\ BusTypes /\ busMissed \in [BusSub -> SUBSET BusEvent] /\ busTodo \in [BusPub -> Seq(BusSub)]
  BY DEF BusInv, BusTypes
<1>4. /\ busMissed' \in [BusSub -> SUBSET BusEvent]
      /\ \A t \in BusSub : busMissed[t] \subseteq busMissed'[t]
      /\ e \in busMissed'[s]
      /\ \A q \in BusPub : busTodo'[q] = IF q = p THEN rest ELSE busTodo[q]
  BY <1>1, <1>2, <1>3
<1>5. BusTypes'
  BY <1>1, <1>2, <1>3, <1>4, ServingTypes DEF BusTypes
<1>6. \A t \in BusSub : Seen(t)' = Seen(t)
  BY <1>1 DEF Seen
<1>7. /\ NoDup(busTodo'[p]) /\ Elems(busTodo'[p]) = Elems(busTodo[p]) \ {s}
      /\ \A q \in BusPub : q # p => busTodo'[q] = busTodo[q]
  BY <1>2, <1>4
<1>8. {s} \in SUBSET Elems(busTodo[p])
  BY <1>2
<1>9. \A t \in BusSub : Seen(t)' = Seen(t) \/ (t \in {s} /\ Seen(t)' = Append(Seen(t), <<p, busSent[p]>>))
  BY <1>6
<1>10. \A t \in {s} : <<p, busSent[p]>> \in busMissed'[t] \/ Seen(t)' = Append(Seen(t), <<p, busSent[p]>>)
  BY <1>4 DEF e
<1>11. UNCHANGED <<busSubs, busClosed, busSent, busShut, busSince>>
  BY <1>1
<1> QED
  BY <1>1, <1>4, <1>5, <1>7, <1>8, <1>9, <1>10, <1>11, ServesKeep

LEMMA CancelKeeps == ASSUME BusInv, NEW p \in BusPub, PublishCancelled(p) PROVE BusInv'
<1> DEFINE e == <<p, busSent[p]>>
<1>1. /\ busTodo[p] # << >>
      /\ busMissed' = [s \in BusSub |->
            IF s \in Range(busTodo[p]) THEN busMissed[s] \union {e} ELSE busMissed[s]]
      /\ busTodo' = [busTodo EXCEPT ![p] = << >>]
      /\ UNCHANGED <<busSubs, busClosed, busSent, busChan, busDone, busShut, busGot, busSince>>
  BY DEF PublishCancelled
<1>2. e \in BusEvent
  BY <1>1, WalkGoesOn
<1> HIDE DEF e
<1>3. /\ BusTypes /\ busMissed \in [BusSub -> SUBSET BusEvent] /\ busTodo \in [BusPub -> Seq(BusSub)]
  BY DEF BusInv, BusTypes
<1>4. Range(busTodo[p]) = Elems(busTodo[p]) /\ Elems(busTodo[p]) \subseteq BusSub
  <2>1. busTodo[p] \in Seq(BusSub)
    BY <1>3
  <2> QED
    BY <2>1, RangeIsElems DEF Elems
<1>5. /\ busMissed' \in [BusSub -> SUBSET BusEvent]
      /\ \A t \in BusSub : busMissed[t] \subseteq busMissed'[t]
      /\ \A s \in Elems(busTodo[p]) : e \in busMissed'[s]
      /\ \A q \in BusPub : busTodo'[q] = IF q = p THEN << >> ELSE busTodo[q]
  BY <1>1, <1>2, <1>3, <1>4
<1>6. << >> \in Seq(BusSub) /\ NoDup(<< >>) /\ Elems(<< >>) = {}
  BY EmptyList
<1>7. BusTypes'
  BY <1>1, <1>3, <1>5, <1>6, ServingTypes DEF BusTypes
<1>8. \A t \in BusSub : Seen(t)' = Seen(t)
  BY <1>1 DEF Seen
<1>9. /\ NoDup(busTodo'[p]) /\ Elems(busTodo'[p]) = Elems(busTodo[p]) \ Elems(busTodo[p])
      /\ \A q \in BusPub : q # p => busTodo'[q] = busTodo[q]
  BY <1>5, <1>6
<1>10. \A t \in BusSub :
         Seen(t)' = Seen(t) \/ (t \in Elems(busTodo[p]) /\ Seen(t)' = Append(Seen(t), <<p, busSent[p]>>))
  BY <1>8
<1>11. \A t \in Elems(busTodo[p]) :
         <<p, busSent[p]>> \in busMissed'[t] \/ Seen(t)' = Append(Seen(t), <<p, busSent[p]>>)
  BY <1>5 DEF e
<1>12. UNCHANGED <<busSubs, busClosed, busSent, busShut, busSince>>
  BY <1>1
<1>13. Elems(busTodo[p]) \in SUBSET Elems(busTodo[p])
  OBVIOUS
<1> QED
  BY <1>1, <1>5, <1>7, <1>9, <1>10, <1>11, <1>12, <1>13, ServesKeep

\* Steps that publish nothing and walk nowhere.
LEMMA SubscribeKeeps == ASSUME BusInv, NEW s \in BusSub, Subscribe(s) PROVE BusInv'
<1>1. /\ \A p \in BusPub : busTodo[p] = << >>
      /\ s \notin Range(busSubs)
      /\ UNCHANGED <<busClosed, busSent, busTodo, busChan, busShut, busGot, busMissed>>
      /\ \/ /\ busClosed /\ UNCHANGED <<busSubs, busSince>>
            /\ busDone' = [busDone EXCEPT ![s] = TRUE]
         \/ /\ ~ busClosed /\ busSubs' = Append(busSubs, s)
            /\ busSince' = [busSince EXCEPT ![s] = busSent]
            /\ UNCHANGED busDone
  BY DEF Subscribe, BusUnread
<1>2. BusTypes /\ busSubs \in Seq(BusSub) /\ NoDup(busSubs) /\ busSent \in [BusPub -> Nat]
  BY DEF BusInv, BusTypes
<1>3. \A t \in BusSub : Seen(t)' = Seen(t)
  BY <1>1 DEF Seen
<1>4. SeenIsSent' /\ SeenInOrder'
  BY <1>1, <1>3 DEF BusInv, SeenIsSent, SeenInOrder
<1>5. CASE busClosed
  <2>1. BusTypes'
    BY <1>1, <1>2, <1>5 DEF BusTypes
  <2>2. Walks'
    BY <1>1, <1>5 DEF BusInv, Walks
  <2>3. SeenOrMissed'
    BY <1>1, <1>3, <1>5 DEF BusInv, SeenOrMissed
  <2> QED
    BY <1>4, <2>1, <2>2, <2>3 DEF BusInv
<1>6. CASE ~ busClosed
  <2>1. /\ busSubs' \in Seq(BusSub) /\ NoDup(busSubs') /\ Elems(busSubs') = Elems(busSubs) \union {s}
    <3>1. s \notin Elems(busSubs)
      BY <1>1, <1>2, RangeIsElems
    <3>2. /\ Append(busSubs, s) \in Seq(BusSub) /\ NoDup(Append(busSubs, s))
          /\ Elems(Append(busSubs, s)) = Elems(busSubs) \union {s}
      BY <1>2, <3>1, Sent
    <3> QED
      BY <1>1, <1>6, <3>2
  <2>2. busSince' \in [BusSub -> [BusPub -> Nat]]
        /\ busSince'[s] = busSent /\ \A t \in BusSub : t # s => busSince'[t] = busSince[t]
    BY <1>1, <1>2, <1>6 DEF BusTypes
  <2>3. BusTypes'
    BY <1>1, <1>2, <1>6, <2>1, <2>2 DEF BusTypes
  <2>4. Walks'
    BY <1>1, <1>6, <2>1 DEF BusInv, Walks
  <2>5. SeenOrMissed'
    <3>1. SUFFICES ASSUME NEW t \in BusSub, t \in Elems(busSubs'), NEW p \in BusPub,
                          NEW n \in (busSince'[t][p] + 1) .. busSent[p]
          PROVE  \/ <<p, n>> \in Elems(Seen(t)) \union busMissed[t]
                 \/ n = busSent[p] /\ t \in Elems(busTodo[p])
      BY <1>1, <1>3 DEF SeenOrMissed
    <3>2. CASE t = s
      <4>1. busSent[p] \in Nat /\ n \in (busSent[p] + 1) .. busSent[p]
        BY <1>2, <2>2, <3>1, <3>2
      <4> QED
        BY <4>1
    <3>3. CASE t # s
      BY <2>1, <2>2, <3>1, <3>3 DEF BusInv, SeenOrMissed
    <3> QED
      BY <3>2, <3>3
  <2> QED
    BY <1>4, <2>3, <2>4, <2>5 DEF BusInv
<1> QED
  BY <1>5, <1>6

LEMMA CloseSubscriberKeeps == ASSUME BusInv, NEW s \in BusSub, CloseSubscriber(s) PROVE BusInv'
<1>1. /\ busDone' = [busDone EXCEPT ![s] = TRUE]
      /\ UNCHANGED <<busSubs, busClosed, busSent, busTodo, busChan, busShut, busGot, busMissed, busSince>>
  BY DEF CloseSubscriber
<1>2. BusTypes'
  BY <1>1 DEF BusInv, BusTypes
<1>3. \A t \in BusSub : Seen(t)' = Seen(t)
  BY <1>1 DEF Seen
<1> QED
  BY <1>1, <1>2, <1>3 DEF BusInv, Walks, SeenIsSent, SeenInOrder, SeenOrMissed

LEMMA ReceiveKeeps == ASSUME BusInv, NEW s \in BusSub, ReceiveEvent(s) PROVE BusInv'
<1>1. /\ busChan[s] # << >>
      /\ busGot' = [busGot EXCEPT ![s] = Append(@, Head(busChan[s]))]
      /\ busChan' = [busChan EXCEPT ![s] = Tail(@)]
      /\ UNCHANGED <<busSubs, busClosed, busSent, busTodo, busDone, busShut, busMissed, busSince>>
  BY DEF ReceiveEvent
<1>2. /\ BusTypes /\ busChan \in [BusSub -> Seq(BusEvent)] /\ busGot \in [BusSub -> Seq(BusEvent)]
      /\ \A t \in BusSub : Len(busChan[t]) <= BusBuffer
  BY DEF BusInv, BusTypes
<1>3. /\ Tail(busChan[s]) \in Seq(BusEvent) /\ Append(busGot[s], Head(busChan[s])) \in Seq(BusEvent)
      /\ Len(Tail(busChan[s])) = Len(busChan[s]) - 1 /\ Len(busChan[s]) \in Nat
  <2>1. busChan[s] \in Seq(BusEvent) /\ busGot[s] \in Seq(BusEvent)
    BY <1>2
  <2>2. Head(busChan[s]) \in BusEvent
    BY <1>1, <2>1
  <2> QED
    BY <1>1, <2>1, <2>2
<1>4. busGot' \in [BusSub -> Seq(BusEvent)] /\ busChan' \in [BusSub -> Seq(BusEvent)]
  BY <1>1, <1>2, <1>3
<1>5. \A t \in BusSub : /\ busChan'[t] = IF t = s THEN Tail(busChan[s]) ELSE busChan[t]
                        /\ busGot'[t] = IF t = s THEN Append(busGot[s], Head(busChan[s])) ELSE busGot[t]
  BY <1>1, <1>2
<1>6. \A t \in BusSub : Len(busChan'[t]) <= BusBuffer
  <2>1. Len(busChan[s]) <= BusBuffer /\ BusBuffer \in Nat
    BY <1>2, BusAssumption
  <2>2. Len(Tail(busChan[s])) <= BusBuffer
    BY <1>3, <2>1
  <2> QED
    BY <1>2, <1>5, <2>2
<1>7. BusTypes'
  BY <1>1, <1>2, <1>4, <1>6 DEF BusTypes
<1>8. \A t \in BusSub : Seen(t)' = Seen(t)
  <2>1. Append(busGot[s], Head(busChan[s])) \o Tail(busChan[s]) = busGot[s] \o busChan[s]
    BY <1>1, <1>2, MovedAcross
  <2> QED
    BY <1>5, <2>1 DEF Seen
<1> QED
  BY <1>1, <1>7, <1>8 DEF BusInv, Walks, SeenIsSent, SeenInOrder, SeenOrMissed

LEMMA CloseBusKeeps == ASSUME BusInv, CloseBus PROVE BusInv'
<1>1. /\ \A p \in BusPub : busTodo[p] = << >>
      /\ busClosed' = TRUE
      /\ busDone' = [s \in BusSub |-> busDone[s] \/ s \in Range(busSubs)]
      /\ busShut' = Range(busSubs)
      /\ busSubs' = << >>
      /\ UNCHANGED <<busSent, busTodo, busChan, busGot, busMissed, busSince>>
  BY DEF CloseBus, BusUnread
<1>2. BusTypes /\ busSubs \in Seq(BusSub) /\ busDone \in [BusSub -> BOOLEAN]
  BY DEF BusInv, BusTypes
<1>3. << >> \in Seq(BusSub) /\ NoDup(<< >>) /\ Elems(<< >>) = {}
  BY EmptyList
<1>4. Range(busSubs) \subseteq BusSub
  BY <1>2, RangeIsElems DEF Elems
<1>5. busDone' \in [BusSub -> BOOLEAN]
  BY <1>1
<1>6. BusTypes'
  BY <1>1, <1>2, <1>3, <1>4, <1>5 DEF BusTypes
<1>7. \A t \in BusSub : Seen(t)' = Seen(t)
  BY <1>1 DEF Seen
<1>8. Walks'
  BY <1>1, <1>3 DEF BusInv, Walks
<1>9. SeenOrMissed'
  BY <1>1, <1>3 DEF SeenOrMissed
<1> QED
  BY <1>1, <1>6, <1>7, <1>8, <1>9 DEF BusInv, SeenIsSent, SeenInOrder

\* Every step keeps the invariant (SessionBus, one case each).
LEMMA BusStepKeeps == BusInv /\ [BusNext]_busVars => BusInv'
<1> SUFFICES ASSUME BusInv, [BusNext]_busVars PROVE BusInv'
  OBVIOUS
<1>1. CASE UNCHANGED busVars
  <2>1. \A t \in BusSub : Seen(t)' = Seen(t)
    BY <1>1 DEF busVars, Seen
  <2> QED
    BY <1>1, <2>1 DEF busVars, BusInv, BusTypes, Walks, SeenIsSent, SeenInOrder, SeenOrMissed
<1>2. ASSUME NEW p \in BusPub, Publish(p) \/ SendTo(p) \/ SkipSubscriber(p) \/ PublishCancelled(p)
      PROVE  BusInv'
  BY <1>2, PublishesKeep, SendKeeps, SkipKeeps, CancelKeeps
<1>3. ASSUME NEW s \in BusSub, Subscribe(s) \/ CloseSubscriber(s) \/ ReceiveEvent(s)
      PROVE  BusInv'
  BY <1>3, SubscribeKeeps, CloseSubscriberKeeps, ReceiveKeeps
<1> QED
  BY <1>1, <1>2, <1>3, CloseBusKeeps DEF BusNext

LEMMA BusInvImplies == BusInv => BusTypeOK /\ BusSound
<1> SUFFICES ASSUME BusInv PROVE BusTypeOK /\ BusSound
  OBVIOUS
<1>1. /\ BusTypes /\ busSubs \in Seq(BusSub) /\ busTodo \in [BusPub -> Seq(BusSub)]
      /\ busChan \in [BusSub -> Seq(BusEvent)] /\ busGot \in [BusSub -> Seq(BusEvent)]
  BY DEF BusInv, BusTypes
<1>2. /\ Range(busSubs) = Elems(busSubs) /\ Elems(busSubs) \subseteq BusSub
      /\ \A p \in BusPub : Range(busTodo[p]) = Elems(busTodo[p]) /\ Elems(busTodo[p]) \subseteq BusSub
  BY <1>1, RangeIsElems DEF Elems
<1>3. \A s \in BusSub : /\ Range(busChan[s]) \subseteq BusEvent /\ Range(busGot[s]) \subseteq BusEvent
                        /\ Range(Seen(s)) = Elems(Seen(s)) /\ DOMAIN Seen(s) = 1 .. Len(Seen(s))
  <2>1. SUFFICES ASSUME NEW s \in BusSub
                 PROVE  /\ Range(busChan[s]) \subseteq BusEvent /\ Range(busGot[s]) \subseteq BusEvent
                        /\ Range(Seen(s)) = Elems(Seen(s)) /\ DOMAIN Seen(s) = 1 .. Len(Seen(s))
    OBVIOUS
  <2>2. busChan[s] \in Seq(BusEvent) /\ busGot[s] \in Seq(BusEvent) /\ Seen(s) \in Seq(BusEvent)
    BY <1>1, SeenType
  <2>3. DOMAIN Seen(s) = 1 .. Len(Seen(s))
    BY <2>2
  <2>4. Range(busChan[s]) \subseteq BusEvent /\ Range(busGot[s]) \subseteq BusEvent
    BY <2>2 DEF Range
  <2>5. Range(Seen(s)) = Elems(Seen(s))
    BY <2>2, RangeIsElems
  <2> QED
    BY <2>3, <2>4, <2>5
<1>4. BusTypeOK
  BY <1>1, <1>2, <1>3 DEF BusTypes, BusTypeOK
<1>5. NoSendOnClosed
  <2>1. SUFFICES ASSUME NEW p \in BusPub, NEW s \in Elems(busTodo[p]) PROVE s \notin busShut
    BY <1>2 DEF NoSendOnClosed
  <2>2. CASE busClosed
    BY <2>1, <2>2, EmptyList DEF BusInv, Walks
  <2>3. CASE ~ busClosed
    BY <2>3 DEF BusInv, Walks
  <2> QED
    BY <2>2, <2>3
<1>6. InOrder
  BY <1>3 DEF BusInv, SeenInOrder, InOrder, Seen
<1>7. Accounted
  BY <1>2, <1>3 DEF BusInv, SeenOrMissed, Accounted, Seen
<1> QED
  BY <1>4, <1>5, <1>6, <1>7 DEF BusSound

\* However publishers, slow or closed subscribers and Close interleave: nobody
\* sends on a closed channel, a subscriber sees the events of each publisher in
\* their order and once, and what it does not see was given up on
\* (session/session_event_bus.go).
THEOREM BusIsSound == BusSpec => [](BusTypeOK /\ BusSound)
<1> QED
  BY BusInitially, BusStepKeeps, BusInvImplies, PTL DEF BusSpec

-----------------------------------------------------------------------------
(***************************************************************************)
(* The inbox.  A whole file that no listing or notification leads to any   *)
(* more has been read as it is, and what was read before it was complete   *)
(* or replaced is received before that.                                    *)
(***************************************************************************)

\* What was read and not received yet, in order.
Items == inChan \o inHeld

Current(m) == [mail |-> m, version |-> inVersion[m]]

ToBeRead(m) == m \in inTodo \/ m \in ToSet(inNotes)

\* The present content of m was received or will be, and nothing older after it.
Covered(m) ==
  /\ inSeen[m] = inVersion[m] \/ \E j \in 1 .. Len(Items) : Items[j] = Current(m)
  /\ \A i \in 1 .. Len(Items) :
       Items[i].mail = m /\ Items[i].version \notin {0, inVersion[m]} =>
         \E j \in i + 1 .. Len(Items) : Items[j] = Current(m)

NoneStale ==
  inMon \in {"read", "watch"} =>
    \A m \in InMail : inFile[m] = "whole" => ToBeRead(m) \/ Covered(m)

\* What the monitor has when.
MonitorHas ==
  /\ inMon \in {"off", "list"} => inChan = << >>
  /\ inMon # "watch" => inHeld = << >>
  /\ inMode = "callback" => inChan = << >> /\ inHeld = << >>
  /\ inMon \in {"off", "list", "read"} => inCap = 0

Emitting(m) == {w \in InWorker : inPc[w] = "emit" /\ inName[w] = m}

\* A move is still to be recorded, recorded, or its record was lost.
MovesCounted == \A m \in InMail : inEmits[m] + Cardinality(Emitting(m)) <= inMoves[m]

WorkersHaveMail == \A w \in InWorker : inPc[w] # "idle" => inName[w] \in InMail

\* What is in inbox/ was delivered.
VersionsCounted == \A m \in InMail : inFile[m] # "absent" => inVersion[m] # 0

InInv ==
  /\ InTypeOK /\ NoneStale /\ MonitorHas /\ ChannelFits
  /\ MovesCounted /\ WorkersHaveMail /\ VersionsCounted

-----------------------------------------------------------------------------
InItem == [mail : InMail, version : 0 .. InVersions]

LEMMA InTypes ==
  ASSUME InTypeOK
  PROVE  /\ inFile \in [InMail -> {"absent", "part", "whole"}]
         /\ inVersion \in [InMail -> 0 .. InVersions]
         /\ inTodo \subseteq InMail /\ inNotes \in Seq(InMail)
         /\ inChan \in Seq(InItem) /\ inHeld \in Seq(InItem) /\ Len(inHeld) <= 1
         /\ inCap \in Nat /\ inSeen \in [InMail -> 0 .. InVersions]
         /\ Items \in Seq(InItem)
<1>1. inHeld \in {<< >>} \cup {<<d>> : d \in InItem} /\ inChan \in Seq(InItem)
  BY DEF InTypeOK, InItem
<1>2. inHeld \in Seq(InItem) /\ Len(inHeld) <= 1
  <2>1. CASE inHeld = << >>
    BY <2>1
  <2>2. ASSUME NEW d \in InItem, inHeld = <<d>> PROVE inHeld \in Seq(InItem) /\ Len(inHeld) <= 1
    BY <2>2
  <2> QED
    BY <1>1, <2>1, <2>2
<1>3. Items \in Seq(InItem)
  BY <1>1, <1>2 DEF Items
<1> QED
  BY <1>1, <1>2, <1>3 DEF InTypeOK

LEMMA InInitially == InInit => InInv
<1> SUFFICES ASSUME InInit PROVE InInv
  OBVIOUS
<1>1. InTypeOK
  <2>1. << >> \in Seq(InMail) /\ << >> \in Seq([mail : InMail, version : 0 .. InVersions])
    OBVIOUS
  <2>2. 0 \in 0 .. InVersions
    BY InboxAssumption
  <2> QED
    BY <2>1, <2>2 DEF InInit, InTypeOK, InMonPc
<1>2. \A m \in InMail : Emitting(m) = {}
  BY DEF InInit, Emitting
<1>3. MovesCounted
  <2>1. \A m \in InMail : Cardinality(Emitting(m)) = 0 /\ inEmits[m] = 0 /\ inMoves[m] = 0
    BY <1>2, FS_EmptySet DEF InInit
  <2> QED
    BY <2>1 DEF MovesCounted
<1> QED
  BY <1>1, <1>3
     DEF InInit, InInv, NoneStale, MonitorHas, ChannelFits, WorkersHaveMail, VersionsCounted

-----------------------------------------------------------------------------
(* Counting moves. *)

LEMMA EmittingIsFinite ==
  ASSUME NEW m PROVE IsFiniteSet(Emitting(m)) /\ Cardinality(Emitting(m)) \in Nat
<1>1. IsFiniteSet(Emitting(m))
  BY InboxAssumption, FS_Subset DEF Emitting
<1> QED
  BY <1>1, FS_CardinalityType

\* A worker goes to a state, with or without a move, an event or neither.
LEMMA WorkKeeps ==
  ASSUME InInv, NEW w \in InWorker, NEW to \in {"idle", "rename", "emit"}, NEW n \in InMail \cup {InNoMail},
         WorkerGoes(w, to, n), to # "idle" => n \in InMail,
         inMoves' \in [InMail -> Nat], inEmits' \in [InMail -> Nat],
         \A m \in InMail :
           \/ inMoves'[m] = inMoves[m] /\ inEmits'[m] = inEmits[m] /\ (to # "emit" \/ n # m)
           \/ inMoves'[m] = inMoves[m] + 1 /\ inEmits'[m] = inEmits[m] /\ w \notin Emitting(m)
           \/ /\ inMoves'[m] = inMoves[m] /\ inEmits'[m] = inEmits[m] + 1
              /\ w \in Emitting(m) /\ to = "idle"
  PROVE  /\ inPc' \in [InWorker -> {"idle", "rename", "emit"}]
         /\ inName' \in [InWorker -> InMail \cup {InNoMail}]
         /\ MovesCounted' /\ WorkersHaveMail'
<1>1. /\ inPc \in [InWorker -> {"idle", "rename", "emit"}]
      /\ inName \in [InWorker -> InMail \cup {InNoMail}]
      /\ inMoves \in [InMail -> Nat] /\ inEmits \in [InMail -> Nat]
  BY DEF InInv, InTypeOK
<1>2. /\ inPc' = [inPc EXCEPT ![w] = to] /\ inName' = [inName EXCEPT ![w] = n]
  BY DEF WorkerGoes
<1>3. /\ inPc' \in [InWorker -> {"idle", "rename", "emit"}]
      /\ inName' \in [InWorker -> InMail \cup {InNoMail}]
  BY <1>1, <1>2
<1>4. WorkersHaveMail'
  BY <1>1, <1>2 DEF InInv, WorkersHaveMail
<1>5. \A m \in InMail : Emitting(m)' = IF to = "emit" /\ n = m THEN Emitting(m) \cup {w}
                                       ELSE Emitting(m) \ {w}
  BY <1>1, <1>2 DEF Emitting
<1>6. MovesCounted'
  <2>1. SUFFICES ASSUME NEW m \in InMail
                 PROVE  inEmits'[m] + Cardinality(Emitting(m)') <= inMoves'[m]
    BY DEF MovesCounted
  <2>2. /\ IsFiniteSet(Emitting(m)) /\ Cardinality(Emitting(m)) \in Nat
        /\ inEmits[m] \in Nat /\ inMoves[m] \in Nat
        /\ inEmits[m] + Cardinality(Emitting(m)) <= inMoves[m]
    BY <1>1, EmittingIsFinite DEF InInv, MovesCounted
  <2>3. /\ Cardinality(Emitting(m) \ {w}) =
             IF w \in Emitting(m) THEN Cardinality(Emitting(m)) - 1 ELSE Cardinality(Emitting(m))
        /\ Cardinality(Emitting(m) \cup {w}) =
             IF w \in Emitting(m) THEN Cardinality(Emitting(m)) ELSE Cardinality(Emitting(m)) + 1
    BY <2>2, FS_AddElement, FS_RemoveElement
  <2>4. CASE inMoves'[m] = inMoves[m] /\ inEmits'[m] = inEmits[m] /\ (to # "emit" \/ n # m)
    <3>1. Emitting(m)' = Emitting(m) \ {w}
      BY <1>5, <2>4
    <3>2. Cardinality(Emitting(m) \ {w}) <= Cardinality(Emitting(m)) /\ Cardinality(Emitting(m) \ {w}) \in Int
      BY <2>2, <2>3
    <3> QED
      BY <2>2, <2>4, <3>1, <3>2
  <2>5. CASE inMoves'[m] = inMoves[m] + 1 /\ inEmits'[m] = inEmits[m] /\ w \notin Emitting(m)
    <3>1. Emitting(m)' = Emitting(m) \ {w} \/ Emitting(m)' = Emitting(m) \cup {w}
      BY <1>5
    <3>2. Cardinality(Emitting(m)') \in Int /\ Cardinality(Emitting(m)') <= Cardinality(Emitting(m)) + 1
      <4> DEFINE c == Cardinality(Emitting(m))
      <4>1. c \in Nat
        BY <2>2
      <4>2. Cardinality(Emitting(m) \ {w}) \in {c, c - 1} /\ Cardinality(Emitting(m) \cup {w}) \in {c, c + 1}
        BY <2>3
      <4>3. Cardinality(Emitting(m)') \in {c - 1, c, c + 1}
        BY <3>1, <4>2
      <4> QED
        BY <4>1, <4>3
    <3> QED
      BY <2>2, <2>5, <3>2
  <2>6. CASE /\ inMoves'[m] = inMoves[m] /\ inEmits'[m] = inEmits[m] + 1
             /\ w \in Emitting(m) /\ to = "idle"
    <3>1. Emitting(m)' = Emitting(m) \ {w}
      BY <1>5, <2>6
    <3> QED
      BY <2>2, <2>3, <2>6, <3>1
  <2> QED
    BY <2>4, <2>5, <2>6
<1> QED
  BY <1>3, <1>4, <1>6

\* Steps that leave the workers alone.
LEMMA WorkStays ==
  ASSUME InInv, UNCHANGED inWork, UNCHANGED inCounts
  PROVE  MovesCounted' /\ WorkersHaveMail'
<1>1. UNCHANGED <<inPc, inName, inMoves, inEmits>>
  BY DEF inWork, inCounts
<1>2. \A m \in InMail : Emitting(m)' = Emitting(m)
  BY <1>1 DEF Emitting
<1> QED
  BY <1>1, <1>2 DEF InInv, MovesCounted, WorkersHaveMail

-----------------------------------------------------------------------------
(* What was read. *)

\* What is read of a file: nothing, a part, or what is in it; if it is whole, that.
LEMMA ReadFile ==
  ASSUME InTypeOK, NEW m \in InMail, NEW got \in Parsed(m)
  PROVE  /\ \/ got = << >> /\ inFile[m] # "whole"
            \/ got = <<[mail |-> m, version |-> 0]>> /\ inFile[m] # "whole"
            \/ got = <<Current(m)>> /\ inFile[m] = "whole"
         /\ got \in Seq(InItem) /\ got \in {<< >>} \cup {<<d>> : d \in InItem}
         /\ got # << >> => /\ got = <<got[1]>> /\ got[1] \in InItem /\ got[1].mail = m
                           /\ got[1].version \in {0, inVersion[m]}
<1>1. inFile[m] \in {"absent", "part", "whole"} /\ inVersion[m] \in 0 .. InVersions /\ 0 \in 0 .. InVersions
  BY InboxAssumption DEF InTypeOK
<1>2. \/ got = << >> /\ inFile[m] # "whole"
      \/ got = <<[mail |-> m, version |-> 0]>> /\ inFile[m] # "whole"
      \/ got = <<Current(m)>> /\ inFile[m] = "whole"
  BY <1>1 DEF Parsed, Current
<1>3. [mail |-> m, version |-> 0] \in InItem /\ Current(m) \in InItem
      /\ Current(m).mail = m /\ Current(m).version = inVersion[m]
  BY <1>1 DEF InItem, Current
<1>4. \A d \in InItem : <<d>> \in Seq(InItem) /\ <<d>>[1] = d /\ <<d>> # << >>
  OBVIOUS
<1>5. CASE got = << >>
  BY <1>2, <1>5
<1>6. CASE got = <<[mail |-> m, version |-> 0]>>
  BY <1>2, <1>3, <1>4, <1>6
<1>7. CASE got = <<Current(m)>>
  BY <1>2, <1>3, <1>4, <1>7
<1> QED
  BY <1>2, <1>5, <1>6, <1>7

\* Reading more at the end covers the file read, and uncovers no other.
LEMMA ReadKeepsCovered ==
  ASSUME NEW a \in Seq(InItem), NEW b \in Seq(InItem), NEW d \in InItem, b = Append(a, d)
  PROVE  /\ Len(a) \in Nat /\ Len(b) = Len(a) + 1 /\ b[Len(a) + 1] = d
         /\ \A i \in 1 .. Len(a) : b[i] = a[i]
         /\ \A i \in 1 .. Len(b) : i \in 1 .. Len(a) \/ i = Len(a) + 1
         /\ \A i \in 1 .. Len(a) : i \in 1 .. Len(b) /\ Len(b) \in i + 1 .. Len(b)
  OBVIOUS

LEMMA ReadCovers ==
  ASSUME InTypeOK, InTypeOK', NEW m \in InMail, NEW d \in InItem, Items' = Append(Items, d),
         d.mail = m, inFile[m] = "whole" => d = Current(m),
         UNCHANGED <<inFile, inVersion, inSeen>>
  PROVE  \A n \in InMail : inFile[n] = "whole" /\ (n = m \/ Covered(n)) => Covered(n)'
<1>1. Items \in Seq(InItem) /\ Items' \in Seq(InItem)
  <2>1. Items \in Seq(InItem)
    BY InTypes
  <2> QED
    BY <2>1
<1>2. /\ Len(Items) \in Nat /\ Len(Items') = Len(Items) + 1 /\ Items'[Len(Items) + 1] = d
      /\ \A i \in 1 .. Len(Items) : Items'[i] = Items[i]
      /\ \A i \in 1 .. Len(Items') : i \in 1 .. Len(Items) \/ i = Len(Items) + 1
      /\ \A i \in 1 .. Len(Items) : i \in 1 .. Len(Items') /\ Len(Items') \in i + 1 .. Len(Items')
  BY <1>1, ReadKeepsCovered
<1>3. \A n \in InMail : Current(n)' = Current(n)
  BY DEF Current
<1>4. Current(m).version = inVersion[m]
  BY DEF Current
<1>5. SUFFICES ASSUME NEW n \in InMail, inFile[n] = "whole", n = m \/ Covered(n) PROVE Covered(n)'
  OBVIOUS
<1>6. SUFFICES /\ inSeen[n] = inVersion[n] \/ \E j \in 1 .. Len(Items') : Items'[j] = Current(n)
               /\ \A i \in 1 .. Len(Items') :
                    Items'[i].mail = n /\ Items'[i].version \notin {0, inVersion[n]} =>
                      \E j \in i + 1 .. Len(Items') : Items'[j] = Current(n)
  BY <1>3 DEF Covered
<1>7. CASE n = m
  <2>1. d = Current(m) /\ Len(Items') \in 1 .. Len(Items') /\ Items'[Len(Items')] = Current(m)
    BY <1>2, <1>5, <1>7
  <2> QED
    BY <1>2, <1>4, <1>7, <2>1
<1>8. CASE n # m
  <2>1. Covered(n)
    BY <1>5, <1>8
  <2>2. \A i \in 1 .. Len(Items) : \A j \in i + 1 .. Len(Items) :
          j \in i + 1 .. Len(Items') /\ j \in 1 .. Len(Items)
    BY <1>2
  <2> QED
    BY <1>2, <1>8, <2>1, <2>2 DEF Covered
<1> QED
  BY <1>7, <1>8

\* What stays to be read when the first notification is handled.
LEMMA NotesLeft ==
  ASSUME NEW notes \in Seq(InMail), notes # << >>, NEW m \in InMail, m \in ToSet(notes)
  PROVE  /\ m = Head(notes) \/ m \in ToSet(Tail(notes))
         /\ Head(notes) \in InMail /\ Tail(notes) \in Seq(InMail)
<1>1. PICK i \in 1 .. Len(notes) : notes[i] = m
  BY DEF ToSet
<1>2. /\ Tail(notes) \in Seq(InMail) /\ Len(Tail(notes)) = Len(notes) - 1 /\ Len(notes) \in Nat
      /\ Head(notes) = notes[1] /\ Head(notes) \in InMail
      /\ \A k \in 1 .. Len(notes) - 1 : Tail(notes)[k] = notes[k + 1]
      /\ DOMAIN Tail(notes) = 1 .. Len(notes) - 1
  OBVIOUS
<1>3. CASE i = 1
  BY <1>1, <1>2, <1>3
<1>4. CASE i # 1
  <2>1. i - 1 \in 1 .. Len(notes) - 1 /\ (i - 1) + 1 = i
    BY <1>1, <1>2, <1>4
  <2>2. Tail(notes)[i - 1] = m /\ i - 1 \in DOMAIN Tail(notes)
    BY <1>1, <1>2, <2>1
  <2> QED
    BY <1>2, <2>2 DEF ToSet
<1> QED
  BY <1>3, <1>4

LEMMA NotesGrow ==
  ASSUME NEW notes \in Seq(InMail), NEW m \in InMail
  PROVE  /\ Append(notes, m) \in Seq(InMail)
         /\ ToSet(Append(notes, m)) = ToSet(notes) \cup {m}
<1>1. /\ Append(notes, m) \in Seq(InMail)
      /\ DOMAIN notes = 1 .. Len(notes) /\ DOMAIN Append(notes, m) = 1 .. Len(notes) + 1
      /\ Len(notes) \in Nat /\ Append(notes, m)[Len(notes) + 1] = m
      /\ \A i \in 1 .. Len(notes) : Append(notes, m)[i] = notes[i]
  OBVIOUS
<1>2. \A i \in 1 .. Len(notes) + 1 : i \in 1 .. Len(notes) \/ i = Len(notes) + 1
  BY <1>1
<1>3. 1 .. Len(notes) \subseteq 1 .. Len(notes) + 1 /\ Len(notes) + 1 \in 1 .. Len(notes) + 1
  BY <1>1
<1> QED
  BY <1>1, <1>2, <1>3 DEF ToSet

-----------------------------------------------------------------------------
(* Steps. *)

\* What was read stays as it is: so does what it covers.
LEMMA CoveredStays ==
  ASSUME NEW n, Items' = Items, inVersion'[n] = inVersion[n],
         inSeen'[n] = inSeen[n] \/ inSeen'[n] = inVersion[n], Covered(n)
  PROVE  Covered(n)'
<1>1. Current(n)' = Current(n)
  BY DEF Current
<1> QED
  BY <1>1 DEF Covered

LEMMA CourierKeeps ==
  ASSUME InInv, NEW m \in InMail, CourierStarts(m) \/ CourierEnds(m)
  PROVE  InInv'
<1>1. /\ inFile \in [InMail -> {"absent", "part", "whole"}] /\ inVersion \in [InMail -> 0 .. InVersions]
      /\ inNotes \in Seq(InMail) /\ InTypeOK
  BY InTypes DEF InInv
<1>2. UNCHANGED <<inArchive, inMode, inMon, inTodo, inChan, inCap, inHeld, inSeen, inWork, inCounts>>
  BY DEF CourierStarts, CourierEnds
<1>3. \E state \in {"part", "whole"} : inFile' = [inFile EXCEPT ![m] = state]
  BY DEF CourierStarts, CourierEnds, InboxHolds
<1>4. inFile' \in [InMail -> {"absent", "part", "whole"}] /\ \A n \in InMail : n # m => inFile'[n] = inFile[n]
  BY <1>1, <1>3
<1>5. inVersion' \in [InMail -> 0 .. InVersions] /\ \A n \in InMail : n # m => inVersion'[n] = inVersion[n]
  <2>1. CASE inVersion' = inVersion
    BY <1>1, <2>1
  <2>2. CASE CourierStarts(m)
    <3>1. inVersion[m] < InVersions /\ inVersion' = [inVersion EXCEPT ![m] = @ + 1]
      BY <2>2 DEF CourierStarts
    <3>2. inVersion[m] + 1 \in 0 .. InVersions
      BY <1>1, <3>1, InboxAssumption
    <3> QED
      BY <1>1, <3>1, <3>2
  <2> QED
    BY <2>1, <2>2 DEF CourierEnds
<1>6. /\ inNotes' \in Seq(InMail) /\ ToSet(inNotes) \subseteq ToSet(inNotes')
      /\ inMon \in {"read", "watch"} => m \in ToSet(inNotes')
  <2>1. Notify(m)
    BY DEF CourierStarts, CourierEnds
  <2>2. inNotes' = inNotes \/ inNotes' = Append(inNotes, m)
    BY <2>1 DEF Notify
  <2>3. inMon \in {"read", "watch"} => inNotes' = Append(inNotes, m)
    BY <2>1 DEF Notify
  <2> QED
    BY <1>1, <2>2, <2>3, NotesGrow
<1>7. InTypeOK'
  BY <1>1, <1>2, <1>4, <1>5, <1>6 DEF InTypeOK, inWork, inCounts
<1>8. NoneStale'
  <2>1. SUFFICES ASSUME inMon \in {"read", "watch"}, NEW n \in InMail, inFile'[n] = "whole"
                 PROVE  ToBeRead(n)' \/ Covered(n)'
    BY <1>2 DEF NoneStale
  <2>2. CASE n = m
    BY <1>6, <2>1, <2>2 DEF ToBeRead
  <2>3. CASE n # m
    <3>1. ToBeRead(n) \/ Covered(n)
      BY <1>4, <2>1, <2>3 DEF InInv, NoneStale
    <3>2. ToBeRead(n) => ToBeRead(n)'
      BY <1>2, <1>6 DEF ToBeRead
    <3>3. Items' = Items /\ inSeen'[n] = inSeen[n] /\ inVersion'[n] = inVersion[n]
      BY <1>2, <1>5, <2>3 DEF Items
    <3> QED
      BY <3>1, <3>2, <3>3, CoveredStays
  <2> QED
    BY <2>2, <2>3
<1>9. MonitorHas' /\ ChannelFits'
  BY <1>2 DEF InInv, MonitorHas, ChannelFits
<1>10. VersionsCounted'
  <2>1. inVersion'[m] # 0
    <3>1. CASE CourierStarts(m)
      <4>1. inVersion' = [inVersion EXCEPT ![m] = @ + 1] /\ inVersion[m] \in Nat
        BY <1>1, <3>1, InboxAssumption DEF CourierStarts
      <4> QED
        BY <1>1, <4>1
    <3>2. CASE CourierEnds(m)
      BY <3>2 DEF CourierEnds, InInv, VersionsCounted
    <3> QED
      BY <3>1, <3>2
  <2>2. \A n \in InMail : n # m /\ inFile'[n] # "absent" => inVersion'[n] # 0
    BY <1>4, <1>5 DEF InInv, VersionsCounted
  <2> QED
    BY <2>1, <2>2 DEF VersionsCounted
<1> QED
  BY <1>2, <1>7, <1>8, <1>9, <1>10, WorkStays DEF InInv

\* Steps of the monitor that read no file.
LEMMA MonitorKeeps ==
  ASSUME InInv, AddWatch \/ ReadInboxDir \/ MakeChannel \/ SendHeld \/ NothingThere \/ MonitorEnds
  PROVE  InInv'
<1>1. /\ InTypeOK /\ inTodo \subseteq InMail /\ inNotes \in Seq(InMail)
      /\ inChan \in Seq(InItem) /\ inHeld \in Seq(InItem) /\ Len(inHeld) <= 1 /\ inCap \in Nat
      /\ << >> \in Seq(InItem) /\ << >> \in Seq(InMail) /\ Len(inChan) \in Nat
  BY InTypes DEF InInv
<1>2. UNCHANGED <<inFile, inVersion, inArchive, inSeen, inWork, inCounts>>
  BY DEF AddWatch, ReadInboxDir, MakeChannel, SendHeld, NothingThere, MonitorEnds, inFiles
<1>3. MovesCounted' /\ WorkersHaveMail' /\ VersionsCounted'
  <2>1. VersionsCounted'
    BY <1>2 DEF InInv, VersionsCounted
  <2> QED
    BY <1>2, <2>1, WorkStays
<1>4. \A n \in InMail : Items' = Items /\ Covered(n) => Covered(n)'
  BY <1>2, CoveredStays
<1>5. CASE AddWatch
  <2>1. /\ inMon = "off" /\ inMon' = "list" /\ inMode' \in {"channel", "callback"}
        /\ UNCHANGED <<inTodo, inNotes, inChan, inCap, inHeld>>
    BY <1>5 DEF AddWatch
  <2>2. InTypeOK'
    BY <1>1, <1>2, <2>1 DEF InTypeOK, InMonPc, inWork, inCounts
  <2> QED
    BY <1>3, <2>1, <2>2 DEF InInv, NoneStale, MonitorHas, ChannelFits
<1>6. CASE ReadInboxDir
  <2>1. /\ inMon = "list" /\ inMon' = "read" /\ inTodo' = {m \in InMail : inFile[m] # "absent"}
        /\ UNCHANGED <<inMode, inNotes, inChan, inCap, inHeld>>
    BY <1>6 DEF ReadInboxDir
  <2>2. InTypeOK'
    BY <1>1, <1>2, <2>1 DEF InTypeOK, InMonPc, inWork, inCounts
  <2>3. NoneStale'
    BY <1>2, <2>1 DEF NoneStale, ToBeRead
  <2> QED
    BY <1>3, <2>1, <2>2, <2>3 DEF InInv, MonitorHas, ChannelFits
<1>7. CASE MakeChannel \/ NothingThere
  <2>1. /\ inMon = "read" /\ inMon' = "watch"
        /\ inCap' = inCap \/ inCap' = Len(inChan) + InSlack
        /\ UNCHANGED <<inMode, inTodo, inNotes, inChan, inHeld>>
    BY <1>7 DEF MakeChannel, NothingThere
  <2>2. inCap' \in Nat /\ (inCap' > 0 => Len(inChan) <= inCap')
    BY <1>1, <2>1, InboxAssumption DEF InInv, MonitorHas
  <2>3. InTypeOK'
    BY <1>1, <1>2, <2>1, <2>2 DEF InTypeOK, InMonPc, inWork, inCounts
  <2>4. NoneStale'
    <3>1. Items' = Items
      BY <2>1 DEF Items
    <3> QED
      BY <1>2, <1>4, <2>1, <3>1 DEF InInv, NoneStale, ToBeRead
  <2> QED
    BY <1>3, <2>1, <2>2, <2>3, <2>4 DEF InInv, MonitorHas, ChannelFits
<1>8. CASE SendHeld
  <2>1. /\ inMon = "watch" /\ inHeld # << >> /\ Len(inChan) < inCap
        /\ inChan' = inChan \o inHeld /\ inHeld' = << >>
        /\ UNCHANGED <<inMode, inMon, inTodo, inNotes, inCap>>
    BY <1>8 DEF SendHeld
  <2>2. inChan' \in Seq(InItem) /\ Len(inChan') = Len(inChan) + Len(inHeld) /\ Len(inHeld) \in Nat
    BY <1>1, <2>1
  <2>3. InTypeOK'
    BY <1>1, <1>2, <2>1, <2>2 DEF InTypeOK, InItem, inWork, inCounts
  <2>4. Items' = Items
    <3>1. (inChan \o inHeld) \o << >> = inChan \o inHeld
      BY <1>1
    <3> QED
      BY <2>1, <3>1 DEF Items
  <2>5. NoneStale'
    BY <1>2, <1>4, <2>1, <2>4 DEF InInv, NoneStale, ToBeRead
  <2>6. ChannelFits'
    BY <1>1, <2>1, <2>2 DEF ChannelFits
  <2>7. MonitorHas'
    BY <2>1 DEF InInv, MonitorHas
  <2> QED
    BY <1>3, <2>3, <2>5, <2>6, <2>7 DEF InInv
<1>9. CASE MonitorEnds
  <2>1. /\ inMon' = "closed" /\ inTodo' = {} /\ inNotes' = << >> /\ inHeld' = << >>
        /\ inChan' = inChan \/ inChan' = << >>
        /\ UNCHANGED <<inMode, inCap>>
    BY <1>9 DEF MonitorEnds
  <2>2. InTypeOK'
    BY <1>1, <1>2, <2>1 DEF InTypeOK, InItem, InMonPc, inWork, inCounts
  <2>3. ChannelFits'
    BY <1>1, <2>1 DEF InInv, ChannelFits
  <2>4. MonitorHas' /\ NoneStale'
    BY <2>1 DEF InInv, MonitorHas, NoneStale
  <2> QED
    BY <1>3, <2>2, <2>3, <2>4 DEF InInv
<1> QED
  BY <1>5, <1>6, <1>7, <1>8, <1>9

\* A listed file or a notified one is read by MonitorInbox.
LEMMA MonitorReadKeeps ==
  ASSUME InInv, NEW m \in InMail, NEW got \in Parsed(m),
         UNCHANGED <<inFile, inVersion, inArchive, inSeen, inWork, inCounts, inMode, inMon, inCap>>,
         inMode = "channel",
         \/ /\ inMon = "read" /\ inTodo' = inTodo \ {m} /\ UNCHANGED <<inNotes, inHeld>>
            /\ inChan' = inChan \o got
         \/ /\ inMon = "watch" /\ inNotes # << >> /\ m = Head(inNotes) /\ inNotes' = Tail(inNotes)
            /\ inHeld = << >> /\ inHeld' = got /\ UNCHANGED <<inTodo, inChan>>
  PROVE  InInv'
<1>1. /\ InTypeOK /\ inTodo \subseteq InMail /\ inNotes \in Seq(InMail)
      /\ inChan \in Seq(InItem) /\ inHeld \in Seq(InItem) /\ Items \in Seq(InItem)
  BY InTypes DEF InInv
<1>2. /\ \/ got = << >> /\ inFile[m] # "whole"
         \/ got = <<[mail |-> m, version |-> 0]>> /\ inFile[m] # "whole"
         \/ got = <<Current(m)>> /\ inFile[m] = "whole"
      /\ got \in Seq(InItem) /\ got \in {<< >>} \cup {<<d>> : d \in InItem}
      /\ got # << >> => /\ got = <<got[1]>> /\ got[1] \in InItem /\ got[1].mail = m
                        /\ got[1].version \in {0, inVersion[m]}
  BY <1>1, ReadFile
<1>3. MovesCounted' /\ WorkersHaveMail' /\ VersionsCounted'
  <2>1. VersionsCounted'
    BY DEF InInv, VersionsCounted
  <2> QED
    BY <2>1, WorkStays
<1>4. inNotes' \in Seq(InMail) /\ inTodo' \subseteq InMail
  <2>1. inNotes # << >> => Tail(inNotes) \in Seq(InMail)
    BY <1>1
  <2> QED
    BY <1>1, <2>1
<1>5. inChan' \in Seq(InItem) /\ inHeld' \in {<< >>} \cup {<<d>> : d \in InItem}
  <2>1. inHeld \in {<< >>} \cup {<<d>> : d \in InItem}
    BY <1>1 DEF InTypeOK, InItem
  <2>2. inChan \o got \in Seq(InItem)
    BY <1>1, <1>2
  <2> QED
    BY <1>1, <1>2, <2>1, <2>2
<1>6. InTypeOK'
  BY <1>1, <1>4, <1>5 DEF InTypeOK, InItem, inWork, inCounts
<1>7. Items' = Items \o got
  <2>1. inChan \o << >> = inChan /\ << >> \o got = got
    BY <1>1, <1>2
  <2>2. inHeld = << >>
    BY DEF InInv, MonitorHas
  <2>3. (inChan \o got) \o << >> = inChan \o got
    BY <1>1, <1>2
  <2> QED
    BY <2>1, <2>2, <2>3 DEF Items
<1>8. \A n \in InMail : ToBeRead(n) => ToBeRead(n)' \/ n = m
  BY <1>1, NotesLeft DEF ToBeRead
<1>9. \A n \in InMail : inFile[n] = "whole" /\ (n = m \/ Covered(n)) => Covered(n)'
  <2>1. CASE got = << >>
    <3>1. Items' = Items /\ inFile[m] # "whole"
      BY <1>1, <1>2, <1>7, <2>1
    <3> QED
      BY <3>1, CoveredStays
  <2>2. CASE got # << >>
    <3>1. Items' = Append(Items, got[1])
      <4>1. \A d \in InItem : Items \o <<d>> = Append(Items, d)
        BY <1>1
      <4>2. got[1] \in InItem /\ got = <<got[1]>>
        BY <1>2, <2>2
      <4> QED
        BY <1>7, <4>1, <4>2
    <3>2. inFile[m] = "whole" => got[1] = Current(m)
      BY <1>2
    <3> QED
      BY <1>1, <1>2, <1>6, <2>2, <3>1, <3>2, ReadCovers
  <2> QED
    BY <2>1, <2>2
<1>10. NoneStale'
  BY <1>8, <1>9 DEF InInv, NoneStale
<1>11. MonitorHas' /\ ChannelFits'
  BY DEF InInv, MonitorHas, ChannelFits
<1> QED
  BY <1>3, <1>6, <1>10, <1>11 DEF InInv

\* Somebody gets d-mail d.
LEMMA GotIt ==
  ASSUME InTypeOK, NEW d \in InItem, Got(d)
  PROVE  /\ inSeen' \in [InMail -> 0 .. InVersions]
         /\ \A n \in InMail : n # d.mail => inSeen'[n] = inSeen[n]
         /\ d.version = 0 => inSeen' = inSeen
         /\ d.version # 0 => inSeen'[d.mail] = d.version
<1>1. inSeen \in [InMail -> 0 .. InVersions] /\ d.mail \in InMail /\ d.version \in 0 .. InVersions
  BY DEF InTypeOK, InItem
<1> QED
  BY <1>1 DEF Got

\* watchInbox reads a file and calls back.
LEMMA CallBackKeeps ==
  ASSUME InInv, NEW m \in InMail, NEW got \in Parsed(m),
         IF got = << >> THEN UNCHANGED inSeen ELSE Got(got[1]),
         UNCHANGED <<inFile, inVersion, inArchive, inWork, inCounts, inMode, inChan, inCap, inHeld>>,
         inMode = "callback",
         \/ inMon = "read" /\ inTodo' = inTodo \ {m} /\ UNCHANGED inNotes /\ inMon' \in {"read", "watch"}
         \/ /\ inMon = "watch" /\ inNotes # << >> /\ m = Head(inNotes) /\ inNotes' = Tail(inNotes)
            /\ UNCHANGED <<inTodo, inMon>>
  PROVE  InInv'
<1>1. /\ InTypeOK /\ inTodo \subseteq InMail /\ inNotes \in Seq(InMail)
      /\ inSeen \in [InMail -> 0 .. InVersions] /\ inChan = << >> /\ inHeld = << >>
  BY InTypes DEF InInv, MonitorHas
<1>2. /\ \/ got = << >> /\ inFile[m] # "whole"
         \/ got = <<[mail |-> m, version |-> 0]>> /\ inFile[m] # "whole"
         \/ got = <<Current(m)>> /\ inFile[m] = "whole"
      /\ got # << >> => /\ got = <<got[1]>> /\ got[1] \in InItem /\ got[1].mail = m
                        /\ got[1].version \in {0, inVersion[m]}
  BY <1>1, ReadFile
<1>3. MovesCounted' /\ WorkersHaveMail' /\ VersionsCounted'
  <2>1. VersionsCounted'
    BY DEF InInv, VersionsCounted
  <2> QED
    BY <2>1, WorkStays
<1>4. inNotes' \in Seq(InMail) /\ inTodo' \subseteq InMail
  <2>1. inNotes # << >> => Tail(inNotes) \in Seq(InMail)
    BY <1>1
  <2> QED
    BY <1>1, <2>1
<1>5. /\ inSeen' \in [InMail -> 0 .. InVersions]
      /\ \A n \in InMail : n # m => inSeen'[n] = inSeen[n]
      /\ inFile[m] = "whole" => inSeen'[m] = inVersion[m]
  <2>1. CASE got = << >>
    BY <1>1, <1>2, <2>1
  <2>2. CASE got # << >>
    <3>1. Got(got[1]) /\ got[1] \in InItem /\ got[1].mail = m
      BY <1>2, <2>2
    <3>2. /\ inSeen' \in [InMail -> 0 .. InVersions]
          /\ \A n \in InMail : n # m => inSeen'[n] = inSeen[n]
          /\ got[1].version = 0 => inSeen' = inSeen
          /\ got[1].version # 0 => inSeen'[m] = got[1].version
      BY <1>1, <3>1, GotIt
    <3>3. ASSUME inFile[m] = "whole" PROVE inSeen'[m] = inVersion[m]
      <4>1. got[1] = Current(m)
        BY <1>2, <2>2, <3>3
      <4>2. got[1].version = inVersion[m]
        BY <4>1 DEF Current
      <4>3. inVersion[m] # 0
        BY <3>3 DEF InInv, VersionsCounted
      <4> QED
        BY <3>2, <4>2, <4>3
    <3> QED
      BY <3>2, <3>3
  <2> QED
    BY <2>1, <2>2
<1>6. InTypeOK'
  BY <1>1, <1>4, <1>5 DEF InTypeOK, InMonPc, inWork, inCounts
<1>7. Items' = Items /\ Len(Items) = 0
  BY <1>1 DEF Items
<1>8. \A n \in InMail : ToBeRead(n) => ToBeRead(n)' \/ n = m
  BY <1>1, NotesLeft DEF ToBeRead
<1>9. \A n \in InMail : n # m /\ Covered(n) => Covered(n)'
  BY <1>5, <1>7, CoveredStays
<1>10. inFile[m] = "whole" => Covered(m)'
  BY <1>5, <1>7 DEF Covered
<1>11. NoneStale'
  BY <1>8, <1>9, <1>10 DEF InInv, NoneStale
<1>12. MonitorHas' /\ ChannelFits'
  BY <1>1 DEF InInv, MonitorHas, ChannelFits
<1> QED
  BY <1>3, <1>6, <1>11, <1>12 DEF InInv

\* Receiving the oldest of what was read covers what it covered.
LEMMA ReceivedCovers ==
  ASSUME NEW a \in Seq(InItem), a # << >>
  PROVE  /\ Tail(a) \in Seq(InItem) /\ Head(a) \in InItem /\ Head(a) = a[1]
         /\ Len(a) \in Nat \ {0} /\ Len(Tail(a)) = Len(a) - 1
         /\ \A i \in 1 .. Len(a) - 1 : Tail(a)[i] = a[i + 1] /\ i + 1 \in 1 .. Len(a)
         /\ \A i \in 1 .. Len(a) : i = 1 \/ (i - 1 \in 1 .. Len(a) - 1 /\ Tail(a)[i - 1] = a[i])
  OBVIOUS

LEMMA WaitForDMailKeeps ==
  ASSUME InInv, NEW w \in InWorker, WaitForDMail(w)
  PROVE  InInv'
<1>1. /\ InTypeOK /\ inChan \in Seq(InItem) /\ inHeld \in Seq(InItem) /\ Items \in Seq(InItem)
      /\ inVersion \in [InMail -> 0 .. InVersions]
  BY InTypes DEF InInv
<1>2. PICK d \in InItem : d = Head(inChan) /\ d.mail \in InMail /\ d.version \in 0 .. InVersions
  <2>1. inChan # << >> /\ \A d \in InItem : d.mail \in InMail /\ d.version \in 0 .. InVersions
    BY DEF WaitForDMail, InItem
  <2> QED
    BY <1>1, <2>1
<1>3. /\ inMon \in {"watch", "closed"} /\ inChan # << >> /\ Got(d)
      /\ WorkerGoes(w, "rename", d.mail) /\ inChan' = Tail(inChan)
      /\ UNCHANGED <<inFile, inVersion, inArchive, inMode, inMon, inTodo, inNotes, inCap, inHeld>>
      /\ UNCHANGED <<inMoves, inEmits>>
  BY <1>2 DEF WaitForDMail, inFiles, inCounts
<1>4. /\ inSeen' \in [InMail -> 0 .. InVersions]
      /\ \A n \in InMail : n # d.mail => inSeen'[n] = inSeen[n]
      /\ d.version = 0 => inSeen' = inSeen
      /\ d.version # 0 => inSeen'[d.mail] = d.version
  BY <1>1, <1>3, GotIt
<1>5. /\ inPc' \in [InWorker -> {"idle", "rename", "emit"}]
      /\ inName' \in [InWorker -> InMail \cup {InNoMail}]
      /\ MovesCounted' /\ WorkersHaveMail'
  BY <1>1, <1>2, <1>3, WorkKeeps DEF InTypeOK
<1>6. /\ Tail(inChan) \in Seq(InItem) /\ Len(Tail(inChan)) = Len(inChan) - 1 /\ Len(inChan) \in Nat
  BY <1>1, <1>3
<1>7. InTypeOK'
  BY <1>1, <1>3, <1>4, <1>5, <1>6 DEF InTypeOK, InItem
<1>8. Items # << >> /\ Head(Items) = d /\ Items' = Tail(Items)
  <2>1. /\ inChan \o inHeld # << >> /\ Head(inChan \o inHeld) = Head(inChan)
        /\ Tail(inChan \o inHeld) = Tail(inChan) \o inHeld
    BY <1>1, <1>3
  <2> QED
    BY <1>2, <1>3, <2>1 DEF Items
<1>9. /\ Items[1] = d /\ Len(Items) \in Nat \ {0} /\ Len(Items') = Len(Items) - 1
      /\ \A i \in 1 .. Len(Items') : Items'[i] = Items[i + 1] /\ i + 1 \in 1 .. Len(Items)
      /\ \A i \in 1 .. Len(Items) : i = 1 \/ (i - 1 \in 1 .. Len(Items') /\ Items'[i - 1] = Items[i])
  BY <1>1, <1>8, ReceivedCovers
<1>10. ASSUME NEW n \in InMail, inFile[n] = "whole", Covered(n) PROVE Covered(n)'
  <2>1. /\ Current(n)' = Current(n) /\ Current(n).mail = n /\ Current(n).version = inVersion[n]
        /\ inVersion'[n] = inVersion[n] /\ inVersion[n] # 0
    BY <1>3, <1>10 DEF Current, InInv, VersionsCounted
  <2>2. ASSUME NEW i \in 1 .. Len(Items), NEW j \in i + 1 .. Len(Items), Items[j] = Current(n)
        PROVE  j - 1 \in 1 .. Len(Items') /\ j - 1 \in (i - 1) + 1 .. Len(Items')
               /\ Items'[j - 1] = Current(n)
    <3>1. j \in 1 .. Len(Items) /\ j # 1 /\ j - 1 \in i .. Len(Items) - 1 /\ (i - 1) + 1 = i
      BY <1>9
    <3> QED
      BY <1>9, <2>2, <3>1
  <2>3. inSeen'[n] = inVersion[n] \/ \E k \in 1 .. Len(Items') : Items'[k] = Current(n)
    <3>1. CASE inSeen[n] = inVersion[n]
      <4>1. CASE d.mail = n /\ d.version \notin {0, inVersion[n]}
        <5>1. 1 \in 1 .. Len(Items) /\ Items[1].mail = n /\ Items[1].version \notin {0, inVersion[n]}
          BY <1>9, <4>1
        <5>2. PICK j \in 1 + 1 .. Len(Items) : Items[j] = Current(n)
          BY <1>10, <5>1 DEF Covered
        <5> QED
          BY <2>2, <5>1, <5>2
      <4>2. CASE ~ (d.mail = n /\ d.version \notin {0, inVersion[n]})
        BY <1>4, <3>1, <4>2
      <4> QED
        BY <4>1, <4>2
    <3>2. CASE inSeen[n] # inVersion[n]
      <4>1. PICK j \in 1 .. Len(Items) : Items[j] = Current(n)
        BY <1>10, <3>2 DEF Covered
      <4>2. CASE j = 1
        BY <1>4, <1>9, <2>1, <4>1, <4>2
      <4>3. CASE j # 1
        BY <1>9, <4>1, <4>3
      <4> QED
        BY <4>2, <4>3
    <3> QED
      BY <3>1, <3>2
  <2>4. ASSUME NEW i \in 1 .. Len(Items'), Items'[i].mail = n, Items'[i].version \notin {0, inVersion[n]}
        PROVE  \E j \in i + 1 .. Len(Items') : Items'[j] = Current(n)
    <3>1. i + 1 \in 1 .. Len(Items) /\ Items[i + 1] = Items'[i] /\ (i + 1) - 1 = i
      BY <1>9
    <3>2. PICK j \in (i + 1) + 1 .. Len(Items) : Items[j] = Current(n)
      BY <1>10, <2>4, <3>1 DEF Covered
    <3>3. j - 1 \in ((i + 1) - 1) + 1 .. Len(Items') /\ Items'[j - 1] = Current(n)
      BY <2>2, <3>1, <3>2
    <3> QED
      BY <3>1, <3>3
  <2> QED
    BY <2>1, <2>3, <2>4 DEF Covered
<1>11. NoneStale'
  BY <1>3, <1>10 DEF InInv, NoneStale, ToBeRead
<1>12. ChannelFits'
  BY <1>1, <1>3, <1>6, InTypes DEF InInv, ChannelFits
<1>13. MonitorHas'
  BY <1>3 DEF InInv, MonitorHas
<1>14. VersionsCounted'
  BY <1>3 DEF InInv, VersionsCounted
<1> QED
  BY <1>5, <1>7, <1>11, <1>12, <1>13, <1>14 DEF InInv

LEMMA ScanInboxKeeps == ASSUME InInv, NEW w \in InWorker, ScanInbox(w) PROVE InInv'
<1>1. InTypeOK /\ inVersion \in [InMail -> 0 .. InVersions]
  BY InTypes DEF InInv
<1>2. PICK m \in InMail : /\ inFile[m] = "whole" /\ Got(Current(m)) /\ WorkerGoes(w, "rename", m)
  BY DEF ScanInbox, Current
<1>3. UNCHANGED <<inFile, inVersion, inArchive, inMode, inMon, inTodo, inNotes, inChan, inCap,
                  inHeld, inMoves, inEmits>>
  BY DEF ScanInbox, inFiles, inMonitor, inCounts
<1>4. /\ Current(m) \in InItem /\ Current(m).mail = m /\ Current(m).version = inVersion[m]
      /\ inVersion[m] # 0
  BY <1>1, <1>2 DEF Current, InItem, InInv, VersionsCounted
<1>5. /\ inSeen' \in [InMail -> 0 .. InVersions]
      /\ \A n \in InMail : inSeen'[n] = inSeen[n] \/ inSeen'[n] = inVersion[n]
  BY <1>1, <1>2, <1>4, GotIt
<1>6. /\ inPc' \in [InWorker -> {"idle", "rename", "emit"}]
      /\ inName' \in [InWorker -> InMail \cup {InNoMail}]
      /\ MovesCounted' /\ WorkersHaveMail'
  BY <1>1, <1>2, <1>3, WorkKeeps DEF InTypeOK
<1>7. InTypeOK'
  BY <1>1, <1>3, <1>5, <1>6 DEF InTypeOK
<1>8. NoneStale'
  <2>1. Items' = Items
    BY <1>3 DEF Items
  <2>2. \A n \in InMail : Covered(n) => Covered(n)'
    BY <1>3, <1>5, <2>1, CoveredStays
  <2> QED
    BY <1>3, <2>2 DEF InInv, NoneStale, ToBeRead
<1> QED
  BY <1>3, <1>6, <1>7, <1>8 DEF InInv, MonitorHas, ChannelFits, VersionsCounted

LEMMA RenameKeeps == ASSUME InInv, NEW w \in InWorker, RenameToArchive(w) PROVE InInv'
<1>1. /\ InTypeOK /\ inName[w] \in InMail /\ inPc[w] = "rename"
      /\ inFile \in [InMail -> {"absent", "part", "whole"}] /\ inMoves \in [InMail -> Nat]
      /\ inEmits \in [InMail -> Nat]
  BY DEF RenameToArchive, InInv, InTypeOK, WorkersHaveMail
<1>2. /\ UNCHANGED <<inVersion, inMode, inMon, inTodo, inNotes, inChan, inCap, inHeld, inSeen, inEmits>>
      /\ inFile' = inFile \/ inFile' = [inFile EXCEPT ![inName[w]] = "absent"]
      /\ inArchive' = inArchive \/ inArchive' = inArchive \cup {inName[w]}
  BY DEF RenameToArchive, inFiles, inMonitor, InboxHolds
<1>3. /\ inFile' \in [InMail -> {"absent", "part", "whole"}]
      /\ \A n \in InMail : inFile'[n] = inFile[n] \/ inFile'[n] = "absent"
  BY <1>1, <1>2
<1>4. /\ inPc' \in [InWorker -> {"idle", "rename", "emit"}]
      /\ inName' \in [InWorker -> InMail \cup {InNoMail}]
      /\ MovesCounted' /\ WorkersHaveMail' /\ inMoves' \in [InMail -> Nat]
  <2>1. CASE inFile[inName[w]] = "absent"
    <3>1. WorkerGoes(w, "idle", InNoMail) /\ UNCHANGED inMoves
      BY <2>1 DEF RenameToArchive
    <3> QED
      BY <1>1, <1>2, <3>1, WorkKeeps
  <2>2. CASE inFile[inName[w]] # "absent"
    <3>1. /\ WorkerGoes(w, "emit", inName[w])
          /\ inMoves' = [inMoves EXCEPT ![inName[w]] = @ + 1]
      BY <2>2 DEF RenameToArchive
    <3>2. \A n \in InMail : w \notin Emitting(n)
      BY <1>1 DEF Emitting
    <3>3. /\ inMoves' \in [InMail -> Nat] /\ inMoves'[inName[w]] = inMoves[inName[w]] + 1
          /\ \A n \in InMail : n # inName[w] => inMoves'[n] = inMoves[n]
      BY <1>1, <3>1
    <3>4. inEmits' \in [InMail -> Nat]
      BY <1>1, <1>2
    <3>5. \A n \in InMail :
            \/ inMoves'[n] = inMoves[n] /\ inEmits'[n] = inEmits[n] /\ inName[w] # n
            \/ inMoves'[n] = inMoves[n] + 1 /\ inEmits'[n] = inEmits[n] /\ w \notin Emitting(n)
      BY <1>2, <3>2, <3>3
    <3> QED
      BY <1>1, <3>1, <3>3, <3>4, <3>5, WorkKeeps
  <2> QED
    BY <2>1, <2>2
<1>5. InTypeOK'
  BY <1>1, <1>2, <1>3, <1>4 DEF InTypeOK
<1>6. NoneStale'
  <2>1. Items' = Items
    BY <1>2 DEF Items
  <2>2. \A n \in InMail : Covered(n) => Covered(n)'
    BY <1>2, <2>1, CoveredStays
  <2> QED
    BY <1>2, <1>3, <2>2 DEF InInv, NoneStale, ToBeRead
<1>7. VersionsCounted'
  BY <1>2, <1>3 DEF InInv, VersionsCounted
<1> QED
  BY <1>2, <1>4, <1>5, <1>6, <1>7 DEF InInv, MonitorHas, ChannelFits

LEMMA EmitArchivedKeeps == ASSUME InInv, NEW w \in InWorker, EmitArchived(w) PROVE InInv'
<1>1. /\ InTypeOK /\ inName[w] \in InMail /\ inPc[w] = "emit" /\ inPc \in [InWorker -> {"idle", "rename", "emit"}]
      /\ inMoves \in [InMail -> Nat] /\ inEmits \in [InMail -> Nat]
  BY DEF EmitArchived, InInv, InTypeOK, WorkersHaveMail
<1>2. /\ UNCHANGED <<inFile, inVersion, inArchive, inMode, inMon, inTodo, inNotes, inChan, inCap,
                     inHeld, inSeen, inMoves>>
      /\ inEmits' = inEmits \/ inEmits' = [inEmits EXCEPT ![inName[w]] = @ + 1]
      /\ WorkerGoes(w, "idle", InNoMail)
  BY DEF EmitArchived, inFiles, inMonitor
<1>3. /\ inEmits' \in [InMail -> Nat] /\ inMoves' \in [InMail -> Nat]
      /\ \A n \in InMail :
           inEmits'[n] = inEmits[n] \/ (n = inName[w] /\ inEmits'[n] = inEmits[n] + 1)
  BY <1>1, <1>2
<1>4. w \in Emitting(inName[w])
  BY <1>1 DEF Emitting
<1>5. \A n \in InMail :
        \/ inMoves'[n] = inMoves[n] /\ inEmits'[n] = inEmits[n]
        \/ inMoves'[n] = inMoves[n] /\ inEmits'[n] = inEmits[n] + 1 /\ w \in Emitting(n)
  BY <1>2, <1>3, <1>4
<1>6. /\ inPc' \in [InWorker -> {"idle", "rename", "emit"}]
      /\ inName' \in [InWorker -> InMail \cup {InNoMail}]
      /\ MovesCounted' /\ WorkersHaveMail'
  BY <1>2, <1>3, <1>5, WorkKeeps
<1>7. InTypeOK'
  BY <1>1, <1>2, <1>3, <1>6 DEF InTypeOK
<1>8. NoneStale'
  <2>1. Items' = Items
    BY <1>2 DEF Items
  <2>2. \A n \in InMail : Covered(n) => Covered(n)'
    BY <1>2, <2>1, CoveredStays
  <2> QED
    BY <1>2, <2>2 DEF InInv, NoneStale, ToBeRead
<1> QED
  BY <1>2, <1>6, <1>7, <1>8 DEF InInv, MonitorHas, ChannelFits, VersionsCounted

LEMMA InboxDieKeeps == ASSUME InInv, InboxDie PROVE InInv'
<1>1. InTypeOK /\ inMoves \in [InMail -> Nat] /\ inEmits \in [InMail -> Nat]
  BY DEF InInv, InTypeOK
<1>2. /\ UNCHANGED <<inFile, inVersion, inArchive, inSeen, inMoves, inEmits>>
      /\ inMode' = "channel" /\ inMon' = "off"
      /\ inTodo' = {} /\ inNotes' = << >> /\ inChan' = << >> /\ inCap' = 0 /\ inHeld' = << >>
      /\ inPc' = [w \in InWorker |-> "idle"] /\ inName' = [w \in InWorker |-> InNoMail]
  BY DEF InboxDie, inFiles, inCounts
<1>3. InTypeOK'
  <2>1. << >> \in Seq(InMail) /\ << >> \in Seq([mail : InMail, version : 0 .. InVersions])
    OBVIOUS
  <2> QED
    BY <1>1, <1>2, <2>1 DEF InTypeOK, InMonPc
<1>4. MovesCounted'
  <2>1. SUFFICES ASSUME NEW m \in InMail PROVE inEmits[m] + Cardinality(Emitting(m)') <= inMoves[m]
    BY <1>2 DEF MovesCounted
  <2>2. Emitting(m)' = {}
    BY <1>2 DEF Emitting
  <2>3. Cardinality(Emitting(m)') = 0
    BY <2>2, FS_EmptySet
  <2>4. inEmits[m] + Cardinality(Emitting(m)) <= inMoves[m] /\ Cardinality(Emitting(m)) \in Nat
    BY EmittingIsFinite DEF InInv, MovesCounted
  <2> QED
    BY <1>1, <2>3, <2>4
<1> QED
  BY <1>2, <1>3, <1>4
     DEF InInv, NoneStale, MonitorHas, ChannelFits, WorkersHaveMail, VersionsCounted

LEMMA InStepKeeps == InInv /\ [InNext]_inVars => InInv'
<1> SUFFICES ASSUME InInv, [InNext]_inVars PROVE InInv'
  OBVIOUS
<1>1. CASE \E m \in InMail : CourierStarts(m) \/ CourierEnds(m)
  BY <1>1, CourierKeeps
<1>2. ASSUME NEW m \in InMail, DrainFile(m) PROVE InInv'
  <2>1. PICK got \in Parsed(m) : inChan' = inChan \o got
    BY <1>2 DEF DrainFile
  <2>2. /\ UNCHANGED <<inFile, inVersion, inArchive, inSeen, inWork, inCounts, inMode, inMon, inCap>>
        /\ inMode = "channel" /\ inMon = "read" /\ inTodo' = inTodo \ {m} /\ UNCHANGED <<inNotes, inHeld>>
    BY <1>2 DEF DrainFile, inFiles
  <2> QED
    BY <2>1, <2>2, MonitorReadKeeps
<1>3. ASSUME NEW m \in InMail, CallBackFile(m) PROVE InInv'
  <2>1. PICK got \in Parsed(m) : IF got = << >> THEN UNCHANGED inSeen ELSE Got(got[1])
    BY <1>3 DEF CallBackFile
  <2>2. /\ UNCHANGED <<inFile, inVersion, inArchive, inWork, inCounts, inMode, inChan, inCap, inHeld>>
        /\ inMode = "callback" /\ inMon = "read" /\ inTodo' = inTodo \ {m} /\ UNCHANGED inNotes
        /\ inMon' \in {"read", "watch"}
    BY <1>3 DEF CallBackFile, inFiles
  <2> QED
    BY <2>1, <2>2, CallBackKeeps
<1>4. CASE AddWatch \/ ReadInboxDir \/ MakeChannel \/ SendHeld \/ NothingThere \/ MonitorEnds
  BY <1>4, MonitorKeeps
<1>5. CASE HandleNote
  <2>1. PICK got \in Parsed(Head(inNotes)) : inHeld' = got
    BY <1>5 DEF HandleNote
  <2>2. /\ UNCHANGED <<inFile, inVersion, inArchive, inSeen, inWork, inCounts, inMode, inMon, inCap>>
        /\ inMode = "channel" /\ inMon = "watch" /\ inNotes # << >> /\ inNotes' = Tail(inNotes)
        /\ inHeld = << >> /\ UNCHANGED <<inTodo, inChan>>
    BY <1>5 DEF HandleNote, inFiles
  <2>3. Head(inNotes) \in InMail
    BY <2>2, InTypes DEF InInv
  <2> QED
    BY <2>1, <2>2, <2>3, MonitorReadKeeps
<1>6. CASE CallBackNote
  <2>1. PICK got \in Parsed(Head(inNotes)) : IF got = << >> THEN UNCHANGED inSeen ELSE Got(got[1])
    BY <1>6 DEF CallBackNote
  <2>2. /\ UNCHANGED <<inFile, inVersion, inArchive, inWork, inCounts, inMode, inChan, inCap, inHeld>>
        /\ inMode = "callback" /\ inMon = "watch" /\ inNotes # << >> /\ inNotes' = Tail(inNotes)
        /\ UNCHANGED <<inTodo, inMon>>
    BY <1>6 DEF CallBackNote, inFiles
  <2>3. Head(inNotes) \in InMail
    BY <2>2, InTypes DEF InInv
  <2> QED
    BY <2>1, <2>2, <2>3, CallBackKeeps
<1>7. CASE \E w \in InWorker :
             WaitForDMail(w) \/ ScanInbox(w) \/ RenameToArchive(w) \/ EmitArchived(w)
  BY <1>7, WaitForDMailKeeps, ScanInboxKeeps, RenameKeeps, EmitArchivedKeeps
<1>8. CASE InboxDie
  BY <1>8, InboxDieKeeps
<1>9. CASE UNCHANGED inVars
  <2>1. /\ UNCHANGED <<inFile, inVersion, inArchive, inMode, inMon, inTodo, inNotes, inChan, inCap, inHeld,
                       inSeen, inPc, inName, inMoves, inEmits>>
        /\ UNCHANGED inWork /\ UNCHANGED inCounts
    BY <1>9 DEF inVars, inFiles, inMonitor, inWork, inCounts
  <2>2. InTypeOK'
    BY <2>1 DEF InInv, InTypeOK
  <2>3. NoneStale'
    BY <2>1 DEF InInv, NoneStale, ToBeRead, Covered, Items, Current
  <2> QED
    BY <2>1, <2>2, <2>3, WorkStays DEF InInv, MonitorHas, ChannelFits, VersionsCounted
<1> QED
  BY <1>1, <1>2, <1>3, <1>4, <1>5, <1>6, <1>7, <1>8, <1>9 DEF InNext

LEMMA InInvImplies == InInv => InTypeOK /\ InboxSound
<1> SUFFICES ASSUME InInv PROVE InTypeOK /\ InboxSound
  OBVIOUS
<1>1. NothingOverlooked
  <2>1. SUFFICES ASSUME inMon \in {"read", "watch"}, NEW m \in InMail, inFile[m] = "whole",
                        inSeen[m] # inVersion[m], ~ ToBeRead(m)
                 PROVE  Current(m) \in ToSet(inChan \o inHeld)
    BY DEF NothingOverlooked, ToBeRead, Current
  <2>2. PICK j \in 1 .. Len(Items) : Items[j] = Current(m)
    BY <2>1 DEF InInv, NoneStale, Covered
  <2>3. DOMAIN Items = 1 .. Len(Items)
    BY InTypes DEF InInv
  <2> QED
    BY <2>2, <2>3 DEF Items, ToSet
<1>2. OneEventPerMove
  <2>1. SUFFICES ASSUME NEW m \in InMail
                 PROVE  inEmits[m] + (IF \E w \in InWorker : inPc[w] = "emit" /\ inName[w] = m THEN 1 ELSE 0)
                          <= inMoves[m]
    BY DEF OneEventPerMove
  <2>2. /\ inEmits[m] \in Nat /\ inMoves[m] \in Nat /\ Cardinality(Emitting(m)) \in Nat
        /\ inEmits[m] + Cardinality(Emitting(m)) <= inMoves[m] /\ IsFiniteSet(Emitting(m))
    BY EmittingIsFinite DEF InInv, InTypeOK, MovesCounted
  <2>3. CASE \E w \in InWorker : inPc[w] = "emit" /\ inName[w] = m
    <3>1. Emitting(m) # {}
      BY <2>3 DEF Emitting
    <3>2. Cardinality(Emitting(m)) # 0
      BY <2>2, <3>1, FS_EmptySet
    <3> QED
      BY <2>2, <2>3, <3>2
  <2>4. CASE ~ \E w \in InWorker : inPc[w] = "emit" /\ inName[w] = m
    BY <2>2, <2>4
  <2> QED
    BY <2>3, <2>4
<1> QED
  BY <1>1, <1>2 DEF InInv, InboxSound

\* However couriers, the monitor, its channel, the callbacks, the workers and
\* crashes interleave: no whole file is overlooked while the monitor works, one
\* move has one event at most, and the channel holds what it was made for
\* (session/dmail.go, session/dmail_archive.go).
THEOREM InboxIsSound == InSpec => [](InTypeOK /\ InboxSound)
<1> QED
  BY InInitially, InStepKeeps, InInvImplies, PTL DEF InSpec

-----------------------------------------------------------------------------
(***************************************************************************)
(* Coding sessions.  The record of a process and its row go through the    *)
(* same states, the row behind the record.                                 *)
(***************************************************************************)

OneRowEach == \A r, s \in csRows : r.id = s.id => r = s

\* A row is of a process that has saved it.
RowsAreSaved == \A r \in csRows : csPc[r.id] \notin {"new", "made"}

\* The record of a process, and its row, at each place of its program.
MemFits(p) ==
  IF csPc[p] = "new" THEN csMem[p] = {}
  ELSE \E m \in CsRecord :
         /\ csMem[p] = {m} /\ m.id = p
         /\ csPc[p] \in {"made", "saved"} => m.status = "running"
         /\ csPc[p] \in {"saved", "done"} => m \in csRows
         /\ csPc[p] \in {"finished", "done"} => m.status # "running"
         /\ csPc[p] = "finished" =>
              \E r \in csRows : /\ r.id = p /\ r.provider = m.provider
                                /\ r.dir = m.dir /\ r.created = m.created

CsInv ==
  /\ CsTypeOK /\ IsFiniteSet(csRows)
  /\ OneRowEach /\ RowsAreSaved /\ (\A p \in CsProc : MemFits(p)) /\ EntersNewest

\* What sorts first as a text is not older by the second.
LEMMA NotBefore ==
  ASSUME NEW a \in Nat, NEW b \in Nat, ~ TextBefore(a, b)
  PROVE  Second(b) <= Second(a) /\ Second(a) \in Int /\ Second(b) \in Int
  BY DEF TextBefore, Second

LEMMA CreatedTypes ==
  ASSUME CsTypeOK
  PROVE  \A r \in csRows : r \in CsRecord /\ r.created \in Nat /\ r.id \in CsProc
<1>1. CsMaxTime \in Nat
  BY CodingSessionsAssumption
<1> QED
  BY <1>1 DEF CsTypeOK, CsRecord

LEMMA CsInitially == CsInit => CsInv
<1> SUFFICES ASSUME CsInit PROVE CsInv
  OBVIOUS
<1>1. IsFiniteSet(csRows)
  BY FS_EmptySet DEF CsInit
<1>2. 0 \in 0 .. CsMaxTime
  BY CodingSessionsAssumption
<1>3. \A p \in CsProc : MemFits(p)
  BY DEF CsInit, MemFits
<1> QED
  BY <1>1, <1>2, <1>3 DEF CsInit, CsInv, CsTypeOK, OneRowEach, RowsAreSaved, EntersNewest

\* A step of a process that leaves its row alone.
LEMMA MemStepKeeps ==
  ASSUME CsInv, NEW p \in CsProc, NEW to \in {"made", "saved", "finished", "done", "dead"},
         CsGoes(p, to), to = "made" => csPc[p] = "new", UNCHANGED <<csNow, csRows, csEntered>>,
         csMem' \in [CsProc -> SUBSET CsRecord],
         \A q \in CsProc : q # p => csMem'[q] = csMem[q],
         MemFits(p)'
  PROVE  CsInv'
<1>1. /\ csPc \in [CsProc -> {"new", "made", "saved", "finished", "done", "dead"}]
      /\ csPc' = [csPc EXCEPT ![p] = to]
  BY DEF CsInv, CsTypeOK, CsGoes
<1>2. CsTypeOK'
  BY <1>1 DEF CsInv, CsTypeOK
<1>3. \A q \in CsProc : MemFits(q)'
  <2>1. ASSUME NEW q \in CsProc, q # p PROVE MemFits(q)'
    <3>1. csPc'[q] = csPc[q] /\ csMem'[q] = csMem[q] /\ csRows' = csRows /\ MemFits(q)
      BY <1>1, <2>1 DEF CsInv
    <3> QED
      BY <3>1 DEF MemFits
  <2> QED
    BY <2>1
<1>4. RowsAreSaved'
  <2>1. ASSUME NEW r \in csRows PROVE csPc'[r.id] \notin {"new", "made"}
    <3>1. csPc[r.id] \notin {"new", "made"} /\ r.id \in CsProc
      BY CreatedTypes DEF CsInv, RowsAreSaved
    <3> QED
      BY <1>1, <3>1
  <2> QED
    BY <2>1 DEF RowsAreSaved
<1> QED
  BY <1>2, <1>3, <1>4 DEF CsInv, OneRowEach, EntersNewest

\* A process puts its record into the table.
LEMMA RowStepKeeps ==
  ASSUME CsInv, NEW p \in CsProc, NEW m \in CsRecord, csMem[p] = {m}, m.id = p,
         NEW to \in {"saved", "done"}, CsGoes(p, to),
         IF to = "saved" THEN m.status = "running" ELSE m.status # "running",
         csRows' = {r \in csRows : r.id # p} \union {m},
         UNCHANGED <<csNow, csMem, csEntered>>
  PROVE  CsInv'
<1>1. /\ csPc \in [CsProc -> {"new", "made", "saved", "finished", "done", "dead"}]
      /\ csPc' = [csPc EXCEPT ![p] = to] /\ csRows \subseteq CsRecord
      /\ \A r \in csRows : r.id \in CsProc
  BY CreatedTypes DEF CsInv, CsTypeOK, CsGoes
<1>2. CsTypeOK'
  BY <1>1 DEF CsInv, CsTypeOK
<1>3. IsFiniteSet(csRows')
  <2>1. IsFiniteSet({r \in csRows : r.id # p})
    BY FS_Subset DEF CsInv
  <2> QED
    BY <2>1, FS_AddElement
<1>4. OneRowEach' /\ RowsAreSaved'
  <2>1. ASSUME NEW r \in csRows' PROVE (r.id # p /\ r \in csRows) \/ (r.id = p /\ r = m)
    OBVIOUS
  <2>2. OneRowEach'
    BY <2>1 DEF CsInv, OneRowEach
  <2>3. csPc'[p] = to /\ \A q \in CsProc : q # p => csPc'[q] = csPc[q]
    BY <1>1
  <2>4. RowsAreSaved'
    BY <1>1, <2>1, <2>3 DEF CsInv, RowsAreSaved
  <2> QED
    BY <2>2, <2>4
<1>5. \A q \in CsProc : MemFits(q)'
  <2>1. ASSUME NEW q \in CsProc, q # p PROVE MemFits(q)'
    <3>1. csPc'[q] = csPc[q] /\ csMem'[q] = csMem[q] /\ MemFits(q)
      BY <1>1, <2>1 DEF CsInv
    <3>2. \A r \in csRows : r.id = q => r \in csRows'
      BY <2>1
    <3> QED
      BY <3>1, <3>2 DEF MemFits
  <2>2. csPc'[p] = to /\ csMem'[p] = {m} /\ m \in csRows'
    BY <1>1
  <2>3. MemFits(p)'
    BY <2>2 DEF MemFits
  <2> QED
    BY <2>1, <2>3
<1> QED
  BY <1>2, <1>3, <1>4, <1>5 DEF CsInv, EntersNewest

\* The outcome of a record is a record.
LEMMA OutcomeType ==
  ASSUME NEW r \in CsRecord, NEW status \in CsStatus, NEW sid \in CsProvider \union {CsNoId},
         NEW meta \in CsMeta
  PROVE  /\ WithOutcome(r, status, sid, meta) \in CsRecord
         /\ WithOutcome(r, status, sid, meta).id = r.id
         /\ WithOutcome(r, status, sid, meta).provider = r.provider
         /\ WithOutcome(r, status, sid, meta).dir = r.dir
         /\ WithOutcome(r, status, sid, meta).created = r.created
         /\ WithOutcome(r, status, sid, meta).status = status
  BY DEF WithOutcome, CsRecord

LEMMA MetaType ==
  ASSUME NEW meta \in CsMeta, NEW state \in {"none", "active", "paused"},
         NEW reason \in {"none", "rate_limit"}
  PROVE  ApplyMetadata(meta, state, reason) \in CsMeta
  BY DEF ApplyMetadata, CsMeta

LEMMA NewRecordKeeps ==
  ASSUME CsInv, NEW p \in CsProc, NewCodingSessionRecord(p) PROVE CsInv'
<1>1. PICK provider \in {"claude-code", "codex"}, dir \in BOOLEAN :
        csMem' = [csMem EXCEPT ![p] =
          {[id |-> p, provider |-> provider, sid |-> CsNoId, status |-> "running", dir |-> dir,
            created |-> csNow, meta |-> [state |-> "none", reason |-> "none"]]}]
  BY DEF NewCodingSessionRecord
<1> DEFINE m == [id |-> p, provider |-> provider, sid |-> CsNoId, status |-> "running", dir |-> dir,
                 created |-> csNow, meta |-> [state |-> "none", reason |-> "none"]]
<1>2. m \in CsRecord /\ m.id = p /\ m.status = "running"
  <2>1. csNow \in 0 .. CsMaxTime /\ [state |-> "none", reason |-> "none"] \in CsMeta
    BY DEF CsInv, CsTypeOK, CsMeta
  <2> QED
    BY <2>1 DEF CsRecord, CsStatus
<1>3. csMem' = [csMem EXCEPT ![p] = {m}] /\ csMem \in [CsProc -> SUBSET CsRecord]
  BY <1>1 DEF CsInv, CsTypeOK
<1> HIDE DEF m
<1>4. /\ csPc[p] = "new" /\ CsGoes(p, "made") /\ UNCHANGED <<csNow, csRows, csEntered>>
  BY DEF NewCodingSessionRecord
<1>5. /\ csMem' \in [CsProc -> SUBSET CsRecord] /\ csMem'[p] = {m}
      /\ \A q \in CsProc : q # p => csMem'[q] = csMem[q]
  BY <1>2, <1>3
<1>6. csPc'[p] = "made"
  BY <1>4 DEF CsGoes, CsInv, CsTypeOK
<1>7. MemFits(p)'
  BY <1>2, <1>5, <1>6 DEF MemFits
<1> QED
  BY <1>4, <1>5, <1>7, MemStepKeeps

LEMMA FinishKeeps ==
  ASSUME CsInv, NEW p \in CsProc, CompleteSession(p) \/ FailSession(p) PROVE CsInv'
<1>1. PICK m \in CsRecord : csMem[p] = {m} /\ m.id = p /\ m \in csRows
  BY DEF CompleteSession, FailSession, CsInv, MemFits
<1>2. m.meta \in CsMeta /\ m.sid \in CsProvider \union {CsNoId}
  BY <1>1 DEF CsRecord
<1>3. \E status \in {"completed", "failed"}, sid \in CsProvider \union {CsNoId}, meta \in CsMeta :
         csMem' = [csMem EXCEPT ![p] = {WithOutcome(m, status, sid, meta)}]
  <2>1. CASE CompleteSession(p)
    <3>1. PICK sid \in CsProvider : csMem' = [csMem EXCEPT ![p] =
            {WithOutcome(m, "completed", sid, ApplyMetadata(m.meta, "active", "none"))}]
      BY <1>1, <2>1 DEF CompleteSession
    <3>2. ApplyMetadata(m.meta, "active", "none") \in CsMeta
      BY <1>2, MetaType
    <3> QED
      BY <3>1, <3>2
  <2>2. CASE FailSession(p)
    <3>1. csMem' = [csMem EXCEPT ![p] =
            {WithOutcome(m, "failed", m.sid, ApplyMetadata(m.meta, "paused", "rate_limit"))}]
      BY <1>1, <2>2 DEF FailSession
    <3>2. ApplyMetadata(m.meta, "paused", "rate_limit") \in CsMeta
      BY <1>2, MetaType
    <3> QED
      BY <1>2, <3>1, <3>2
  <2> QED
    BY <2>1, <2>2
<1>4. PICK status \in {"completed", "failed"}, sid \in CsProvider \union {CsNoId}, meta \in CsMeta :
         csMem' = [csMem EXCEPT ![p] = {WithOutcome(m, status, sid, meta)}]
  BY <1>3
<1>5. PICK n \in CsRecord :
        /\ n = WithOutcome(m, status, sid, meta) /\ n.id = p /\ n.status # "running"
        /\ n.provider = m.provider /\ n.dir = m.dir /\ n.created = m.created
  <2>1. status \in CsStatus /\ status # "running"
    BY DEF CsStatus
  <2> QED
    BY <1>1, <2>1, OutcomeType
<1>6. CsGoes(p, "finished") /\ UNCHANGED <<csNow, csRows, csEntered>>
  BY DEF CompleteSession, FailSession
<1>7. csMem' = [csMem EXCEPT ![p] = {n}] /\ csMem \in [CsProc -> SUBSET CsRecord]
  BY <1>4, <1>5 DEF CsInv, CsTypeOK
<1>8. /\ csMem' \in [CsProc -> SUBSET CsRecord] /\ csMem'[p] = {n}
      /\ \A q \in CsProc : q # p => csMem'[q] = csMem[q]
  BY <1>7
<1>9. csPc'[p] = "finished"
  BY <1>6 DEF CsGoes, CsInv, CsTypeOK
<1>10. MemFits(p)'
  BY <1>1, <1>5, <1>6, <1>8, <1>9 DEF MemFits
<1> QED
  BY <1>6, <1>8, <1>10, MemStepKeeps

LEMMA SaveSessionKeeps == ASSUME CsInv, NEW p \in CsProc, SaveSession(p) PROVE CsInv'
<1>1. PICK m \in CsRecord : csMem[p] = {m} /\ m.id = p /\ m.status = "running"
  BY DEF SaveSession, CsInv, MemFits
<1>2. /\ csRows' = {r \in csRows : r.id # p} \union {m} /\ CsGoes(p, "saved")
      /\ UNCHANGED <<csNow, csMem, csEntered>>
  BY <1>1 DEF SaveSession
<1> QED
  BY <1>1, <1>2, RowStepKeeps

LEMMA UpdateStatusKeeps == ASSUME CsInv, NEW p \in CsProc, UpdateStatus(p) PROVE CsInv'
<1>1. PICK m \in CsRecord :
        /\ csMem[p] = {m} /\ m.id = p /\ m.status # "running"
        /\ \E r \in csRows : /\ r.id = p /\ r.provider = m.provider
                             /\ r.dir = m.dir /\ r.created = m.created
  BY DEF UpdateStatus, CsInv, MemFits
<1>2. PICK row \in csRows : /\ row.id = p /\ row.provider = m.provider
                            /\ row.dir = m.dir /\ row.created = m.created
  BY <1>1
<1>3. {s \in csRows : s.id = p} = {row}
  BY <1>2 DEF CsInv, OneRowEach
<1>4. WithOutcome(row, m.status, m.sid, m.meta) = m
  BY <1>1, <1>2 DEF WithOutcome, CsRecord
<1>5. {WithOutcome(r, n.status, n.sid, n.meta) : r \in {row}, n \in {m}} = {m}
  BY <1>4
<1>6. /\ csRows' = {r \in csRows : r.id # p} \union {m} /\ CsGoes(p, "done")
      /\ UNCHANGED <<csNow, csMem, csEntered>>
  BY <1>1, <1>3, <1>5 DEF UpdateStatus
<1> QED
  BY <1>1, <1>6, RowStepKeeps

LEMMA SessionLostKeeps == ASSUME CsInv, NEW p \in CsProc, SessionLost(p) PROVE CsInv'
<1>1. /\ csPc[p] \in {"made", "saved", "finished"} /\ CsGoes(p, "dead")
      /\ UNCHANGED <<csNow, csRows, csMem, csEntered>>
  BY DEF SessionLost
<1>2. csPc'[p] = "dead" /\ csMem'[p] = csMem[p] /\ csMem' \in [CsProc -> SUBSET CsRecord]
  BY <1>1 DEF CsGoes, CsInv, CsTypeOK
<1>3. PICK m \in CsRecord : csMem[p] = {m} /\ m.id = p
  BY <1>1 DEF CsInv, MemFits
<1>4. MemFits(p)'
  BY <1>2, <1>3 DEF MemFits
<1> QED
  BY <1>1, <1>2, <1>4, MemStepKeeps

LEMMA EnterKeeps == ASSUME CsInv, EnterSession PROVE CsInv'
<1>1. UNCHANGED <<csNow, csRows, csMem, csPc>>
  BY DEF EnterSession
<1>2. EntersNewest'
  <2>1. CASE \E r \in csRows : csEntered' = {[session |-> r, among |-> {r}]}
    <3>1. PICK r \in csRows : csEntered' = {[session |-> r, among |-> {r}]}
      BY <2>1
    <3>2. Second(r.created) <= Second(r.created)
      BY <3>1, CreatedTypes DEF CsInv, Second
    <3> QED
      BY <3>1, <3>2 DEF EntersNewest
  <2>2. CASE \E sid \in CsProvider : \E r \in LatestByProviderSessionID(sid) :
               csEntered' = {[session |-> r, among |-> OfProviderSession(sid)]}
    <3>4. PICK sid \in CsProvider : \E r \in LatestByProviderSessionID(sid) :
            csEntered' = {[session |-> r, among |-> OfProviderSession(sid)]}
      BY <2>2
    <3>1. PICK r \in LatestByProviderSessionID(sid) :
            csEntered' = {[session |-> r, among |-> OfProviderSession(sid)]}
      BY <3>4
    <3>2. r \in csRows /\ \A s \in OfProviderSession(sid) : s \in csRows /\ ~ TextBefore(r.created, s.created)
      BY DEF LatestByProviderSessionID, LatestRows, OfProviderSession
    <3>3. \A s \in OfProviderSession(sid) : Second(s.created) <= Second(r.created)
      BY <3>2, CreatedTypes, NotBefore DEF CsInv
    <3> QED
      BY <3>1, <3>3 DEF EntersNewest
  <2> QED
    BY <2>1, <2>2 DEF EnterSession
<1> QED
  BY <1>1, <1>2 DEF CsInv, CsTypeOK, OneRowEach, RowsAreSaved, MemFits

LEMMA CsStepKeeps == CsInv /\ [CsNext]_csVars => CsInv'
<1> SUFFICES ASSUME CsInv, [CsNext]_csVars PROVE CsInv'
  OBVIOUS
<1>1. CASE CsTick
  <2>1. UNCHANGED <<csRows, csMem, csPc, csEntered>> /\ csNow' \in 0 .. CsMaxTime
    BY <1>1, CodingSessionsAssumption DEF CsTick, CsInv, CsTypeOK
  <2> QED
    BY <2>1 DEF CsInv, CsTypeOK, OneRowEach, RowsAreSaved, MemFits, EntersNewest
<1>2. CASE EnterSession
  BY <1>2, EnterKeeps
<1>3. ASSUME NEW p \in CsProc,
             \/ NewCodingSessionRecord(p) \/ SaveSession(p) \/ CompleteSession(p)
             \/ FailSession(p) \/ UpdateStatus(p) \/ SessionLost(p)
      PROVE  CsInv'
  BY <1>3, NewRecordKeeps, SaveSessionKeeps, FinishKeeps, UpdateStatusKeeps, SessionLostKeeps
<1>4. CASE UNCHANGED csVars
  BY <1>4 DEF csVars, CsInv, CsTypeOK, OneRowEach, RowsAreSaved, MemFits, EntersNewest
<1> QED
  BY <1>1, <1>2, <1>3, <1>4 DEF CsNext

-----------------------------------------------------------------------------
(* What the list of the sessions shows. *)

\* An order of a finite set has all of it.
LEMMA OrdersAreWhole ==
  ASSUME NEW S, IsFiniteSet(S), NEW q \in SetToSeqs(S)
  PROVE  /\ q \in Seq(S) /\ Len(q) = Cardinality(S) /\ Cardinality(S) \in Nat
         /\ \A x \in S : \E i \in 1 .. Len(q) : q[i] = x
<1> DEFINE n == Cardinality(S)
<1>1. n \in Nat
  BY FS_CardinalityType
<1>2. q \in [1 .. n -> S] /\ \A i, j \in 1 .. n : i # j => q[i] # q[j]
  BY DEF SetToSeqs
<1>3. IsFiniteSet(1 .. n) /\ Cardinality(1 .. n) = n
  BY <1>1, FS_Interval
<1>4. q \in Injection(1 .. n, S)
  BY <1>2 DEF Injection, IsInjective
<1>5. q \in Surjection(1 .. n, S)
  BY <1>3, <1>4, FS_Injection
<1>6. q \in Seq(S) /\ Len(q) = n
  BY <1>1, <1>2
<1> QED
  BY <1>1, <1>5, <1>6 DEF Surjection

LEMMA ListsAreNewest == CsInv => ListsNewest
<1> SUFFICES ASSUME CsInv, NEW status \in CsStatus, NEW o \in ListOrders(status, 1)
             PROVE  LET rows == {r \in csRows : r.status = status}
                    IN  /\ rows # {} => o # << >>
                        /\ \A i \in DOMAIN o, r \in rows : Second(r.created) <= Second(o[i].created)
  BY DEF ListsNewest
<1> DEFINE rows == {r \in csRows : r.status = status}
<1>1. PICK q \in SetToSeqs(rows) :
        /\ \A i, j \in DOMAIN q : i < j => ~ TextBefore(q[i].created, q[j].created)
        /\ o = SubSeq(q, 1, IF Len(q) < 1 THEN Len(q) ELSE 1)
  BY DEF ListOrders
<1>2. IsFiniteSet(rows) /\ \A r \in rows : r.created \in Nat
  BY FS_Subset, CreatedTypes DEF CsInv
<1> HIDE DEF rows
<1>3. /\ q \in Seq(rows) /\ Len(q) \in Nat /\ DOMAIN q = 1 .. Len(q)
      /\ \A x \in rows : \E i \in 1 .. Len(q) : q[i] = x
  BY <1>2, OrdersAreWhole
<1>4. CASE Len(q) < 1
  <2>1. rows = {} /\ Len(q) = 0
    BY <1>3, <1>4
  <2> QED
    BY <2>1 DEF rows
<1>5. CASE ~ Len(q) < 1
  <2>1. o = SubSeq(q, 1, 1) /\ 1 \in DOMAIN q /\ q[1] \in rows
    BY <1>1, <1>3, <1>5
  <2>2. Len(o) = 1 /\ o[1] = q[1] /\ DOMAIN o = 1 .. 1
    BY <1>3, <2>1
  <2>3. o # << >> /\ \A i \in DOMAIN o : i = 1
    BY <2>2
  <2>4. ASSUME NEW r \in rows PROVE Second(r.created) <= Second(q[1].created)
    <3>1. PICK i \in 1 .. Len(q) : q[i] = r
      BY <1>3, <2>4
    <3>2. CASE i = 1
      BY <1>2, <3>1, <3>2 DEF Second
    <3>3. CASE i # 1
      <4>1. ~ TextBefore(q[1].created, r.created)
        BY <1>1, <1>3, <2>1, <3>1, <3>3
      <4> QED
        BY <1>2, <2>1, <4>1, NotBefore
    <3> QED
      BY <3>2, <3>3
  <2> QED
    BY <2>2, <2>3, <2>4 DEF rows
<1> QED
  BY <1>4, <1>5

LEMMA CsInvImplies == CsInv => CsTypeOK /\ CodingSessionsSound
<1> SUFFICES ASSUME CsInv PROVE CsTypeOK /\ CodingSessionsSound
  OBVIOUS
<1>1. \A p \in CsProc : csPc[p] = "done" => csMem[p] \subseteq csRows
  BY DEF CsInv, MemFits
<1>2. ASSUME NEW r \in csRows, r.status = "running" PROVE csPc[r.id] \in {"saved", "finished", "dead"}
  <2>1. r.id \in CsProc /\ csPc[r.id] \in {"new", "made", "saved", "finished", "done", "dead"}
    BY CreatedTypes DEF CsInv, CsTypeOK
  <2>2. csPc[r.id] \notin {"new", "made"}
    BY DEF CsInv, RowsAreSaved
  <2>3. csPc[r.id] # "done"
    <3>1. SUFFICES ASSUME csPc[r.id] = "done" PROVE FALSE
      OBVIOUS
    <3>2. PICK m \in CsRecord : m.id = r.id /\ m \in csRows /\ m.status # "running"
      BY <2>1, <3>1 DEF CsInv, MemFits
    <3> QED
      BY <1>2, <3>2 DEF CsInv, OneRowEach
  <2> QED
    BY <2>1, <2>2, <2>3
<1> QED
  BY <1>1, <1>2, ListsAreNewest DEF CsInv, OneRowEach, CodingSessionsSound, RowsFollowProcesses

\* However processes record their sessions, die and enter one another's: a row
\* stands as its process left it, and a name leads to its newest session, by the
\* second (session/coding_session_store.go, cmd/sessions.go).
THEOREM SessionsAreSound == CsSpec => [](CsTypeOK /\ CodingSessionsSound)
<1> QED
  BY CsInitially, CsStepKeeps, CsInvImplies, PTL DEF CsSpec

(***************************************************************************)
(* The run lock.  The row of a lease goes only by a DELETE that compares   *)
(* it with a clock reading that is not ahead of the clock, or by its       *)
(* holder's Release; and a lease is granted only when there is no row.     *)
(***************************************************************************)

\* No caller's reading of the clock, and no lease's begin, is in the future.
ReadingsArePast ==
  /\ \A h \in LockHolder : lockStart[h] <= lockNow
  /\ \A h \in LockHolder : \A l \in lockLease[h] : l.from <= lockNow

\* The primary key: one row at most.
OneRow == \A r, s \in lockRows : r = s

\* A lease that was not given back has its row, or its last second has begun.
LeaseHasRow ==
  \A h \in LockHolder : \A l \in lockLease[h] :
    \/ [holder |-> h, expires |-> l.until] \in lockRows
    \/ l.until \div 2 <= lockNow \div 2

\* Leases of two holders do not share a second before the later one's begin.
LeasesDisjoint ==
  \A g, h \in LockHolder : \A k \in lockLease[g], l \in lockLease[h] :
    g # h => \/ k.until \div 2 <= l.from \div 2
             \/ l.until \div 2 <= k.from \div 2

LockInv == LockTypeOK /\ ReadingsArePast /\ OneRow /\ LeaseHasRow /\ LeasesDisjoint

-----------------------------------------------------------------------------
\* Seconds follow the clock (Rfc3339).
LEMMA SecondsGrow ==
  ASSUME NEW a \in Nat, NEW b \in Nat, a <= b
  PROVE  a \div 2 <= b \div 2
  OBVIOUS

\* A text that sorts before another is not of a later second (Rfc3339).
LEMMA TextOrder ==
  ASSUME NEW a \in Nat, NEW b \in Nat, TextBefore(a, b)
  PROVE  a \div 2 <= b \div 2
  BY DEF TextBefore, Second

-----------------------------------------------------------------------------
LEMMA LockInitially == LockInit => LockInv
  BY RunLockAssumption
  DEF LockInit, LockInv, LockTypeOK, LockPc, ReadingsArePast, OneRow, LeaseHasRow, LeasesDisjoint

\* What a step does that leaves rows and leases alone: readings of the clock
\* are taken or dropped.
LEMMA OnlyReadings ==
  ASSUME LockInv, lockPc' \in [LockHolder -> LockPc], lockStart' \in [LockHolder -> Nat],
         \A h \in LockHolder : lockStart'[h] <= lockNow,
         UNCHANGED <<lockNow, lockRows, lockLease>>
  PROVE  LockInv'
  BY DEF LockInv, LockTypeOK, ReadingsArePast, OneRow, LeaseHasRow, LeasesDisjoint

\* A reading set to 0 or to the clock is not ahead of it.
LEMMA ReadingSet ==
  ASSUME LockInv, NEW h \in LockHolder, NEW t \in {0, lockNow}, NEW to \in LockPc,
         lockStart' = [lockStart EXCEPT ![h] = t], LockGoes(h, to)
  PROVE  /\ lockPc' \in [LockHolder -> LockPc]
         /\ lockStart' \in [LockHolder -> Nat]
         /\ \A g \in LockHolder : lockStart'[g] <= lockNow
  BY DEF LockInv, LockTypeOK, ReadingsArePast, LockGoes

LEMMA TickKeeps == ASSUME LockInv, LockTick PROVE LockInv'
<1>1. lockNow \in Nat /\ lockNow' \in 0 .. LockMaxTime /\ lockNow' \in Nat /\ lockNow <= lockNow'
  BY RunLockAssumption DEF LockInv, LockTypeOK, LockTick
<1>2. lockNow \div 2 <= lockNow' \div 2
  BY <1>1, SecondsGrow
<1>3. UNCHANGED <<lockRows, lockPc, lockStart, lockLease>>
  BY DEF LockTick
<1>4. LockTypeOK' /\ OneRow' /\ LeasesDisjoint'
  BY <1>1, <1>3 DEF LockInv, LockTypeOK, OneRow, LeasesDisjoint
<1>5. ReadingsArePast'
  BY <1>1, <1>3 DEF LockInv, LockTypeOK, ReadingsArePast
<1>6. LeaseHasRow'
  <2>1. SUFFICES ASSUME NEW h \in LockHolder, NEW l \in lockLease[h],
                        l.until \div 2 <= lockNow \div 2
                 PROVE  l.until \div 2 <= lockNow' \div 2
    BY <1>3 DEF LockInv, LeaseHasRow
  <2>2. l.until \in Nat
    BY DEF LockInv, LockTypeOK
  <2> QED
    BY <1>1, <1>2, <2>1, <2>2
<1> QED
  BY <1>4, <1>5, <1>6 DEF LockInv

LEMMA DeleteKeeps == ASSUME LockInv, NEW h \in LockHolder, DeleteStale(h) PROVE LockInv'
<1>1. lockNow \in Nat /\ lockStart[h] \in Nat /\ lockStart[h] <= lockNow
  BY RunLockAssumption DEF LockInv, LockTypeOK, ReadingsArePast
<1>2. /\ lockRows' = lockRows \ Stale(lockStart[h])
      /\ UNCHANGED <<lockNow, lockStart, lockLease>>
      /\ lockPc' = [lockPc EXCEPT ![h] = "insert"]
  BY DEF DeleteStale, LockGoes
<1>3. LockTypeOK' /\ ReadingsArePast' /\ OneRow' /\ LeasesDisjoint'
  BY <1>2 DEF LockInv, LockTypeOK, LockPc, ReadingsArePast, OneRow, LeasesDisjoint
<1>4. LeaseHasRow'
  <2>1. SUFFICES ASSUME NEW g \in LockHolder, NEW l \in lockLease[g],
                        [holder |-> g, expires |-> l.until] \in lockRows,
                        [holder |-> g, expires |-> l.until] \in Stale(lockStart[h])
                 PROVE  l.until \div 2 <= lockNow \div 2
    BY <1>2 DEF LockInv, LeaseHasRow
  <2>2. l.until \in Nat
    BY DEF LockInv, LockTypeOK
  <2>3. TextBefore(l.until, lockStart[h])
    BY <2>1 DEF Stale
  <2>4. l.until \div 2 <= lockStart[h] \div 2
    BY <1>1, <2>2, <2>3, TextOrder
  <2>5. lockStart[h] \div 2 <= lockNow \div 2
    BY <1>1, SecondsGrow
  <2> QED
    BY <1>1, <2>2, <2>4, <2>5
<1> QED
  BY <1>3, <1>4 DEF LockInv

\* The grant: there is no row, so every other lease's last second has begun.
LEMMA GrantKeeps ==
  ASSUME LockInv, NEW h \in LockHolder, InsertRow(h), lockRows = {}
  PROVE  LockInv'
<1> DEFINE until == lockStart[h] + LockTTL
           lease == [from |-> lockNow, until |-> until]
<1>1. lockNow \in Nat /\ until \in Nat /\ lockStart[h] <= lockNow
  BY RunLockAssumption DEF LockInv, LockTypeOK, ReadingsArePast
<1>2. /\ lockRows' = {[holder |-> h, expires |-> until]}
      /\ lockLease' = [lockLease EXCEPT ![h] = {lease}]
      /\ lockNow' = lockNow
      /\ LockGoes(h, "idle")
      /\ lockStart' = [lockStart EXCEPT ![h] = 0]
  BY DEF InsertRow, LockReturns
<1>3. lockPc' \in [LockHolder -> LockPc] /\ lockStart' \in [LockHolder -> Nat]
      /\ \A g \in LockHolder : lockStart'[g] <= lockNow
  <2>1. "idle" \in LockPc /\ 0 \in {0, lockNow}
    BY DEF LockPc
  <2> QED
    BY <1>2, <2>1, ReadingSet
<1>4. lease \in [from : Nat, until : Nat]
  BY <1>1
<1>5. lockLease \in [LockHolder -> SUBSET [from : Nat, until : Nat]]
  BY DEF LockInv, LockTypeOK
<1>6. /\ lockLease'[h] = {lease}
      /\ \A g \in LockHolder \ {h} : lockLease'[g] = lockLease[g]
      /\ lockLease' \in [LockHolder -> SUBSET [from : Nat, until : Nat]]
  <2> HIDE DEF lease
  <2> QED
    BY <1>2, <1>4, <1>5
<1>7. \A g \in LockHolder : \A l \in lockLease[g] :
        l.until \in Nat /\ l.from \in Nat /\ l.from <= lockNow /\ l.until \div 2 <= lockNow \div 2
  BY DEF LockInv, LockTypeOK, ReadingsArePast, LeaseHasRow
<1>8. LockTypeOK'
  BY <1>1, <1>2, <1>3, <1>6 DEF LockInv, LockTypeOK
<1>9. ReadingsArePast'
  BY <1>1, <1>2, <1>3, <1>6, <1>7 DEF ReadingsArePast
<1>10. OneRow'
  BY <1>2 DEF OneRow
<1>11. LeaseHasRow'
  <2>1. SUFFICES ASSUME NEW g \in LockHolder, NEW l \in lockLease'[g]
                 PROVE  \/ [holder |-> g, expires |-> l.until] \in lockRows'
                        \/ l.until \div 2 <= lockNow \div 2
    BY <1>2 DEF LeaseHasRow
  <2>2. CASE g = h
    BY <1>2, <1>6, <2>2
  <2>3. CASE g # h
    BY <1>6, <1>7, <2>3
  <2> QED
    BY <2>2, <2>3
<1>12. LeasesDisjoint'
  <2>1. SUFFICES ASSUME NEW f \in LockHolder, NEW g \in LockHolder, f # g,
                        NEW k \in lockLease'[f], NEW l \in lockLease'[g]
                 PROVE  \/ k.until \div 2 <= l.from \div 2
                        \/ l.until \div 2 <= k.from \div 2
    BY DEF LeasesDisjoint
  <2>2. CASE f = h
    <3>1. k.from = lockNow /\ l \in lockLease[g]
      BY <1>6, <2>1, <2>2
    <3> QED
      BY <1>7, <3>1
  <2>3. CASE g = h
    <3>1. l.from = lockNow /\ k \in lockLease[f]
      BY <1>6, <2>1, <2>3
    <3> QED
      BY <1>7, <3>1
  <2>4. CASE f # h /\ g # h
    BY <1>6, <2>1, <2>4 DEF LockInv, LeasesDisjoint
  <2> QED
    BY <2>2, <2>3, <2>4
<1> QED
  BY <1>8, <1>9, <1>10, <1>11, <1>12 DEF LockInv

LEMMA ReleaseKeeps == ASSUME LockInv, NEW h \in LockHolder, Release(h) PROVE LockInv'
<1>1. PICK id \in {h, NoHolder} :
        /\ lockRows' = lockRows \ RowsOf(id)
        /\ lockLease' = [lockLease EXCEPT ![h] = IF id = h THEN {} ELSE @]
  BY DEF Release
<1>2. UNCHANGED <<lockNow, lockPc, lockStart>>
  BY DEF Release
<1>3. lockRows' \subseteq lockRows
  BY <1>1
<1>4. /\ \A g \in LockHolder : lockLease'[g] \subseteq lockLease[g]
      /\ lockLease' \in [LockHolder -> SUBSET [from : Nat, until : Nat]]
      /\ id = h => lockLease'[h] = {}
  BY <1>1 DEF LockInv, LockTypeOK
<1>5. LockTypeOK' /\ ReadingsArePast' /\ OneRow' /\ LeasesDisjoint'
  BY <1>2, <1>3, <1>4 DEF LockInv, LockTypeOK, ReadingsArePast, OneRow, LeasesDisjoint
<1>6. LeaseHasRow'
  <2>1. SUFFICES ASSUME NEW g \in LockHolder, NEW l \in lockLease'[g],
                        [holder |-> g, expires |-> l.until] \in lockRows
                 PROVE  [holder |-> g, expires |-> l.until] \in lockRows'
    BY <1>2, <1>4 DEF LockInv, LeaseHasRow
  <2>2. g # id
    BY <1>4, RunLockAssumption
  <2> QED
    BY <1>1, <2>1, <2>2 DEF RowsOf
<1> QED
  BY <1>5, <1>6 DEF LockInv

\* Every step keeps the invariant (RunLock's statements, one case each).
LEMMA LockStep == LockInv /\ [LockNext]_lockVars => LockInv'
<1> SUFFICES ASSUME LockInv, [LockNext]_lockVars PROVE LockInv'
  OBVIOUS
<1> USE DEF LockPc
<1>1. CASE LockTick
  BY <1>1, TickKeeps
<1>2. ASSUME NEW h \in LockHolder, LockOpen(h) PROVE LockInv'
  <2>1. lockPc' \in [LockHolder -> LockPc] /\ UNCHANGED <<lockNow, lockRows, lockStart, lockLease>>
    BY <1>2 DEF LockOpen, LockGoes, LockInv, LockTypeOK
  <2> QED
    BY <2>1, OnlyReadings DEF LockInv, LockTypeOK, ReadingsArePast
<1>3. ASSUME NEW h \in LockHolder, TryAcquire(h) PROVE LockInv'
  BY <1>3, ReadingSet, OnlyReadings DEF TryAcquire
<1>4. ASSUME NEW h \in LockHolder, DeleteStale(h) PROVE LockInv'
  BY <1>4, DeleteKeeps
<1>5. ASSUME NEW h \in LockHolder, InsertRow(h) PROVE LockInv'
  <2>1. CASE lockRows = {}
    BY <1>5, <2>1, GrantKeeps
  <2>2. CASE lockRows # {}
    <3>1. lockPc' \in [LockHolder -> LockPc] /\ UNCHANGED <<lockNow, lockRows, lockStart, lockLease>>
      BY <1>5, <2>2 DEF InsertRow, LockGoes, LockInv, LockTypeOK
    <3> QED
      BY <3>1, OnlyReadings DEF LockInv, LockTypeOK, ReadingsArePast
  <2> QED
    BY <2>1, <2>2
<1>6. ASSUME NEW h \in LockHolder, QueryHolder(h) \/ StatementFails(h) PROVE LockInv'
  BY <1>6, ReadingSet, OnlyReadings DEF QueryHolder, StatementFails, LockReturns
<1>7. ASSUME NEW h \in LockHolder, Release(h) PROVE LockInv'
  BY <1>7, ReleaseKeeps
<1>8. ASSUME NEW h \in LockHolder, LockClose(h) PROVE LockInv'
  BY <1>8, ReadingSet, OnlyReadings DEF LockClose
<1>9. CASE UNCHANGED lockVars
  BY <1>9 DEF lockVars, LockInv, LockTypeOK, ReadingsArePast, OneRow, LeaseHasRow, LeasesDisjoint
<1> QED
  BY <1>1, <1>2, <1>3, <1>4, <1>5, <1>6, <1>7, <1>8, <1>9 DEF LockNext

\* What the invariant says of a holder whose lease's last second has not begun.
LEMMA LockInvImplies == LockInv => OneRunPerKey
<1> SUFFICES ASSUME LockInv, NEW h \in LockHolder, NEW l \in lockLease[h],
                    l.until \div 2 > lockNow \div 2
             PROVE  IsHeld(lockNow) = {h}
  BY DEF LockInv, LeasesDisjoint, OneRunPerKey
<1> DEFINE row == [holder |-> h, expires |-> l.until]
<1>1. lockNow \in Nat /\ l.until \in Nat
  BY RunLockAssumption DEF LockInv, LockTypeOK
<1>2. row \in lockRows
  BY <1>1 DEF LockInv, LeaseHasRow
<1>3. lockRows = {row}
  BY <1>2 DEF LockInv, OneRow
<1>4. ~ TextBefore(l.until, lockNow)
  BY <1>1, TextOrder
<1>5. Stale(lockNow) = {}
  BY <1>3, <1>4 DEF Stale
<1> QED
  BY <1>3, <1>5 DEF IsHeld

\* The run lock's types hold in every reachable state (session/run_lock_store.go).
THEOREM RunLockTypeOK == LockSpec => []LockTypeOK
<1>1. LockInv => LockTypeOK
  BY DEF LockInv
<1> QED
  BY <1>1, LockInitially, LockStep, PTL DEF LockSpec

\* A granted lease that was not given back is shown by IsHeld until its last
\* second, and no other lease was granted meanwhile, whatever calls are slow,
\* fail or die between the statements of TryAcquire (run_lock_store.go).
THEOREM RunLockExclusion == LockSpec => []OneRunPerKey
<1> QED
  BY LockInitially, LockStep, LockInvImplies, PTL DEF LockSpec

-----------------------------------------------------------------------------
(***************************************************************************)
(* The worktree pool.  A path is in the channel, with one worker, or       *)
(* (after Shutdown) nowhere, and every move takes it out of one place and  *)
(* puts it into one; a worktree the pool does not call faulty has had its  *)
(* setup, and is cleaned before it is put into the channel.                *)
(***************************************************************************)

\* Each path in one place at most, and, while the pool is up, in one.
OneUser   == \A v, w \in PoolWorker : poolPath[v] = poolPath[w] /\ v # w => poolPath[v] = 0
FreeOnce  == NoDup(poolFree) /\ \A w \in PoolWorker : poolPath[w] \notin Elems(poolFree)
PathsKnown == /\ Elems(poolFree) \subseteq poolAll
              /\ \A w \in PoolWorker : poolPath[w] \in poolAll \cup {0}
NoneLost  == poolUp \in {"init", "up"} =>
               \A p \in poolAll : p \in Elems(poolFree) \/ \E w \in PoolWorker : poolPath[w] = p

\* A worker has a path in exactly these states.
PathOfPc == \A w \in PoolWorker :
              poolPc[w] \in {"check", "recycle", "work"} <=> poolPath[w] # 0

\* Init creates the worktrees in order.
Created == \E n \in 0 .. PoolSize : poolAll = 1 .. n /\ (poolUp = "init" => n < PoolSize)

\* What the pool does not call faulty is set up, and clean when it is free.
Fresh == /\ poolAll \ poolFaulty \subseteq poolSetUp
         /\ \A p \in Elems(poolFree) \ poolFaulty : poolTree[p] = "clean"

PoolInv == PoolTypeOK /\ OneUser /\ FreeOnce /\ PathsKnown /\ NoneLost /\ PathOfPc /\ Created /\ Fresh

-----------------------------------------------------------------------------
LEMMA ZeroIsNoPath == 0 \notin Worktree
  BY DEF Worktree

(* Channels. *)

LEMMA EmptyChannel == << >> \in Seq(Worktree) /\ Elems(<< >>) = {} /\ NoDup(<< >>)
  BY DEF Elems, NoDup

-----------------------------------------------------------------------------
LEMMA PoolInitially == PoolInit => PoolInv
<1> SUFFICES ASSUME PoolInit PROVE PoolInv
  OBVIOUS
<1>1. 0 \in 0 .. PoolSize /\ 1 .. 0 = {} /\ 0 < PoolSize
  BY WorktreesAssumption
<1>2. Created
  BY <1>1 DEF PoolInit, Created
<1> QED
  BY <1>2, EmptyChannel DEF PoolInit, PoolInv, PoolTypeOK, PoolUp, PoolPc, Tree, OneUser, FreeOnce,
     PathsKnown, NoneLost, PathOfPc, Fresh

\* Init adds a worktree that was not there, or fails and changes no other.
LEMMA CreateKeeps == ASSUME PoolInv, CreateWorktree PROVE PoolInv'
<1>1. PICK n \in 0 .. PoolSize : poolAll = 1 .. n /\ n < PoolSize
  BY DEF PoolInv, Created, CreateWorktree
<1>2. n \in Nat /\ Cardinality(poolAll) = n
  BY <1>1, WorktreesAssumption, FS_Interval
<1> DEFINE p == Cardinality(poolAll) + 1
<1>3. /\ p \in Worktree /\ p \notin poolAll /\ p # 0 /\ p = n + 1
      /\ n + 1 \in 0 .. PoolSize
      /\ poolAll \cup {p} = 1 .. n + 1
  BY <1>1, <1>2, WorktreesAssumption DEF Worktree
<1>4. PICK ok \in BOOLEAN :
        /\ Adds(p, ok)
        /\ poolAll' = IF ok THEN poolAll \cup {p} ELSE poolAll
        /\ poolFree' = IF ok THEN Append(poolFree, p) ELSE poolFree
        /\ poolUp' = CASE ~ok -> "failed"
                       [] ok /\ p = PoolSize -> "up"
                       [] OTHER -> "init"
  BY DEF CreateWorktree
<1>5. UNCHANGED <<poolPc, poolPath, poolFaulty>> /\ poolUp = "init"
  BY DEF CreateWorktree, poolCalls
<1> HIDE DEF p
<1>6. p \notin Elems(poolFree) /\ \A w \in PoolWorker : poolPath[w] # p
  BY <1>3 DEF PoolInv, PathsKnown
<1>7. CASE ok
  <2>1. poolFree' \in Seq(Worktree) /\ Elems(poolFree') = Elems(poolFree) \cup {p} /\ NoDup(poolFree')
    BY <1>3, <1>4, <1>6, <1>7, Sent DEF PoolInv, PoolTypeOK, FreeOnce
  <2>2. poolTree' = [poolTree EXCEPT ![p] = "clean"] /\ poolSetUp' = poolSetUp \cup {p}
        /\ poolAll' = poolAll \cup {p}
    BY <1>4, <1>7 DEF Adds
  <2>3. poolUp' \in {"up", "init"} /\ (poolUp' = "init" => p # PoolSize)
    BY <1>4, <1>7
  <2>4. PoolTypeOK'
    BY <1>3, <1>5, <2>1, <2>2, <2>3 DEF PoolInv, PoolTypeOK, PoolUp, Tree
  <2>5. OneUser' /\ FreeOnce' /\ PathsKnown' /\ NoneLost' /\ PathOfPc'
    BY <1>5, <1>6, <2>1, <2>2, <2>3 DEF PoolInv, OneUser, FreeOnce, PathsKnown, NoneLost, PathOfPc
  <2>6. Created'
    BY <1>1, <1>2, <1>3, <2>2, <2>3, WorktreesAssumption DEF Created
  <2>7. Fresh'
    <3>1. poolTree'[p] = "clean" /\ \A q \in Worktree \ {p} : poolTree'[q] = poolTree[q]
      BY <1>3, <2>2 DEF PoolInv, PoolTypeOK
    <3>2. Elems(poolFree) \subseteq Worktree \ {p}
      BY <1>6 DEF PoolInv, PoolTypeOK, PathsKnown
    <3> QED
      BY <1>5, <2>1, <2>2, <3>1, <3>2 DEF PoolInv, Fresh
  <2> QED
    BY <2>4, <2>5, <2>6, <2>7 DEF PoolInv
<1>8. CASE ~ ok
  <2>1. /\ poolFree' = poolFree /\ poolAll' = poolAll /\ poolUp' = "failed"
        /\ poolTree' \in [Worktree -> Tree] /\ poolSetUp' \subseteq Worktree
        /\ \A q \in Worktree : q # p => poolTree'[q] = poolTree[q]
        /\ poolSetUp \subseteq poolSetUp' \cup {p}
    BY <1>3, <1>4, <1>8 DEF Adds, PoolInv, PoolTypeOK, Tree
  <2>2. PoolTypeOK'
    BY <1>5, <2>1 DEF PoolInv, PoolTypeOK, PoolUp
  <2>3. OneUser' /\ FreeOnce' /\ PathsKnown' /\ NoneLost' /\ PathOfPc' /\ Created'
    BY <1>5, <2>1 DEF PoolInv, OneUser, FreeOnce, PathsKnown, NoneLost, PathOfPc, Created
  <2>4. Fresh'
    <3>1. poolAll \ poolFaulty \subseteq poolSetUp'
      BY <1>3, <2>1 DEF PoolInv, Fresh
    <3>2. \A q \in Elems(poolFree) : poolTree'[q] = poolTree[q]
      BY <1>6, <2>1 DEF PoolInv, PoolTypeOK, PathsKnown
    <3> QED
      BY <1>5, <2>1, <3>1, <3>2 DEF PoolInv, Fresh
  <2> QED
    BY <2>2, <2>3, <2>4 DEF PoolInv
<1> QED
  BY <1>7, <1>8

\* A worker without a path changes its mind: what Acquire and a cancelled
\* context do.
LEMMA WaitKeeps ==
  ASSUME PoolInv, NEW w \in PoolWorker, poolPath[w] = 0,
         NEW to \in {"idle", "wait", "waitUnchecked"}, PoolGoes(w, to, 0),
         UNCHANGED <<poolUp, poolFree, poolAll, poolTree, poolSetUp, poolFaulty>>
  PROVE  PoolInv'
<1>1. poolPath' = poolPath /\ poolPc' = [poolPc EXCEPT ![w] = to]
  BY DEF PoolInv, PoolTypeOK, PoolGoes
<1>2. PoolTypeOK' /\ PathOfPc'
  BY <1>1 DEF PoolInv, PoolTypeOK, PoolPc, PathOfPc
<1>3. OneUser' /\ FreeOnce' /\ PathsKnown' /\ NoneLost' /\ Created' /\ Fresh'
  BY <1>1 DEF PoolInv, OneUser, FreeOnce, PathsKnown, NoneLost, Created, Fresh
<1> QED
  BY <1>2, <1>3 DEF PoolInv

LEMMA ReceivePathKeeps == ASSUME PoolInv, NEW w \in PoolWorker, ReceivePath(w) PROVE PoolInv'
<1> DEFINE p == Head(poolFree)
           to == IF poolPc[w] = "wait" THEN "check" ELSE "work"
<1>1. poolFree # << >> /\ poolFree' = Tail(poolFree)
      /\ UNCHANGED <<poolUp, poolAll, poolTree, poolSetUp, poolFaulty>>
  BY DEF ReceivePath, poolDisk
<1>2. poolPath[w] = 0
  BY DEF ReceivePath, PoolInv, PathOfPc
<1>3. /\ poolFree' \in Seq(Worktree) /\ p \in Elems(poolFree)
      /\ Elems(poolFree') = Elems(poolFree) \ {p} /\ NoDup(poolFree')
  BY <1>1, Received DEF PoolInv, PoolTypeOK, FreeOnce
<1>4. p \in Worktree /\ p \in poolAll /\ p # 0 /\ \A v \in PoolWorker : poolPath[v] # p
  <2>1. p \in poolAll /\ poolAll \subseteq Worktree
    BY <1>3 DEF PoolInv, PoolTypeOK, PathsKnown
  <2>2. \A v \in PoolWorker : poolPath[v] # p
    BY <1>3 DEF PoolInv, FreeOnce
  <2> QED
    BY <2>1, <2>2, ZeroIsNoPath
<1>5. poolPath' = [poolPath EXCEPT ![w] = p] /\ poolPc' = [poolPc EXCEPT ![w] = to]
  BY DEF ReceivePath, PoolGoes
<1> HIDE DEF p
<1>6. PoolTypeOK' /\ PathOfPc'
  BY <1>1, <1>3, <1>4, <1>5 DEF PoolInv, PoolTypeOK, PoolPc, PathOfPc
<1>7. OneUser' /\ FreeOnce' /\ PathsKnown' /\ Created' /\ Fresh'
  BY <1>1, <1>2, <1>3, <1>4, <1>5 DEF PoolInv, PoolTypeOK, OneUser, FreeOnce, PathsKnown, Created, Fresh
<1>8. NoneLost'
  <2>1. SUFFICES ASSUME poolUp \in {"init", "up"}, NEW q \in poolAll, q \notin Elems(poolFree')
                 PROVE  \E v \in PoolWorker : poolPath'[v] = q
    BY <1>1 DEF NoneLost
  <2>2. CASE q = p
    BY <1>5, <2>2 DEF PoolInv, PoolTypeOK
  <2>3. CASE q # p
    <3>1. PICK v \in PoolWorker : poolPath[v] = q
      BY <1>3, <2>1, <2>3 DEF PoolInv, NoneLost
    <3>2. q # 0
      BY <2>1, ZeroIsNoPath DEF PoolInv, PoolTypeOK
    <3>3. v # w
      BY <1>2, <3>1, <3>2
    <3> QED
      BY <1>5, <3>1, <3>3 DEF PoolInv, PoolTypeOK
  <2> QED
    BY <2>2, <2>3
<1> QED
  BY <1>6, <1>7, <1>8 DEF PoolInv

\* A worker keeps its path: the health check.
LEMMA CheckKeeps == ASSUME PoolInv, NEW w \in PoolWorker, CheckHealth(w) PROVE PoolInv'
<1>1. PICK to \in {"work", "recycle"} : PoolGoes(w, to, poolPath[w])
  BY DEF CheckHealth
<1>2. /\ poolPath' = poolPath /\ poolPc' = [poolPc EXCEPT ![w] = to] /\ poolPath[w] # 0
      /\ UNCHANGED <<poolUp, poolFree, poolAll, poolTree, poolSetUp, poolFaulty>>
  BY <1>1 DEF PoolInv, PoolTypeOK, PathOfPc, PoolGoes, CheckHealth, poolDisk
<1>3. PoolTypeOK' /\ PathOfPc'
  BY <1>1, <1>2 DEF PoolInv, PoolTypeOK, PoolPc, PathOfPc
<1>4. OneUser' /\ FreeOnce' /\ PathsKnown' /\ NoneLost' /\ Created' /\ Fresh'
  BY <1>2 DEF PoolInv, OneUser, FreeOnce, PathsKnown, NoneLost, Created, Fresh
<1> QED
  BY <1>3, <1>4 DEF PoolInv

\* An expedition changes its own worktree, which is not free.
LEMMA PoolWorkKeeps == ASSUME PoolInv, NEW w \in PoolWorker, Work(w) PROVE PoolInv'
<1>1. PICK tree \in {"used", "broken"} : poolTree' = [poolTree EXCEPT ![poolPath[w]] = tree]
  BY DEF Work
<1>2. UNCHANGED <<poolUp, poolFree, poolAll, poolSetUp, poolFaulty, poolPc, poolPath>>
  BY DEF Work, poolCalls
<1>3. PoolTypeOK' /\ OneUser' /\ FreeOnce' /\ PathsKnown' /\ NoneLost' /\ PathOfPc' /\ Created'
  BY <1>1, <1>2 DEF PoolInv, PoolTypeOK, Tree, OneUser, FreeOnce, PathsKnown, NoneLost, PathOfPc, Created
<1>4. Fresh'
  BY <1>1, <1>2 DEF PoolInv, PoolTypeOK, FreeOnce, PathsKnown, Fresh
<1> QED
  BY <1>3, <1>4 DEF PoolInv

\* A worker's path goes back to the channel, cleaned, recycled or called faulty:
\* Release, and the recycling of an unhealthy worktree.
LEMMA GiveBackKeeps ==
  ASSUME PoolInv, NEW w \in PoolWorker, poolPath[w] # 0,
         Reset(poolPath[w]) \/ ForceRecycle(poolPath[w]),
         NEW to \in {"idle", "retake"}, PoolGoes(w, to, 0),
         UNCHANGED <<poolUp, poolAll>>
  PROVE  PoolInv'
<1> DEFINE p == poolPath[w]
<1>1. p \in Worktree /\ p \in poolAll /\ p \notin Elems(poolFree)
      /\ \A v \in PoolWorker : poolPath[v] = p => v = w
  BY DEF PoolInv, PoolTypeOK, PathsKnown, FreeOnce, OneUser
<1>2. poolFree' = Append(poolFree, p)
  BY DEF Reset, ForceRecycle
<1>3. poolPath' = [poolPath EXCEPT ![w] = 0] /\ poolPc' = [poolPc EXCEPT ![w] = to]
  BY DEF PoolGoes
<1>4. /\ poolTree' \in [Worktree -> Tree] /\ poolSetUp' \subseteq Worktree /\ poolFaulty' \subseteq Worktree
      /\ \A q \in Worktree \ {p} : /\ poolTree'[q] = poolTree[q]
                                   /\ q \in poolSetUp => q \in poolSetUp'
                                   /\ q \in poolFaulty <=> q \in poolFaulty'
  BY <1>1 DEF Reset, ForceRecycle, Adds, PoolInv, PoolTypeOK, Tree
<1>5. p \notin poolFaulty' => p \in poolSetUp' /\ poolTree'[p] = "clean"
  <2>1. CASE Reset(poolPath[w])
    BY <1>1, <2>1 DEF Reset, PoolInv, PoolTypeOK, Fresh
  <2>2. CASE ForceRecycle(poolPath[w])
    BY <1>1, <2>2 DEF ForceRecycle, Adds, PoolInv, PoolTypeOK
  <2> QED
    BY <2>1, <2>2
<1>6. poolPath \in [PoolWorker -> Worktree \cup {0}] /\ 0 \notin Worktree /\ Elems(poolFree) \subseteq Worktree
  BY ZeroIsNoPath DEF PoolInv, PoolTypeOK, PathsKnown
<1> HIDE DEF p
<1>7. poolFree' \in Seq(Worktree) /\ Elems(poolFree') = Elems(poolFree) \cup {p} /\ NoDup(poolFree')
  BY <1>1, <1>2, Sent DEF PoolInv, PoolTypeOK, FreeOnce
<1>8. PoolTypeOK' /\ PathOfPc'
  BY <1>3, <1>4, <1>7 DEF PoolInv, PoolTypeOK, PoolPc, PathOfPc
<1>9. OneUser' /\ FreeOnce' /\ PathsKnown' /\ Created'
  BY <1>1, <1>3, <1>6, <1>7 DEF PoolInv, OneUser, FreeOnce, PathsKnown, Created, p
<1>10. NoneLost'
  BY <1>1, <1>3, <1>6, <1>7 DEF PoolInv, NoneLost, p
<1>11. Fresh'
  BY <1>4, <1>5, <1>6, <1>7 DEF PoolInv, PoolTypeOK, Fresh
<1> QED
  BY <1>8, <1>9, <1>10, <1>11 DEF PoolInv

LEMMA ShutdownKeeps == ASSUME PoolInv, Drain \/ RemoveWorktrees PROVE PoolInv'
<1>1. CASE Drain
  <2>1. /\ poolFree' = << >> /\ poolUp' = "draining"
        /\ UNCHANGED <<poolAll, poolTree, poolSetUp, poolFaulty, poolPc, poolPath>>
    BY <1>1 DEF Drain, poolDisk, poolCalls
  <2> QED
    BY <2>1, EmptyChannel DEF PoolInv, PoolTypeOK, PoolUp, OneUser, FreeOnce, PathsKnown, NoneLost,
       PathOfPc, Created, Fresh
<1>2. CASE RemoveWorktrees
  <2>1. PICK removed \in SUBSET poolAll :
          /\ poolTree' = [p \in Worktree |-> IF p \in removed THEN "absent" ELSE poolTree[p]]
          /\ poolSetUp' = poolSetUp \ removed
          /\ poolFaulty' = poolFaulty \cup removed
    BY <1>2 DEF RemoveWorktrees
  <2>2. poolUp' = "down" /\ UNCHANGED <<poolFree, poolAll, poolPc, poolPath>>
    BY <1>2 DEF RemoveWorktrees, poolCalls
  <2>3. PoolTypeOK' /\ OneUser' /\ FreeOnce' /\ PathsKnown' /\ NoneLost' /\ PathOfPc' /\ Created'
    BY <2>1, <2>2 DEF PoolInv, PoolTypeOK, PoolUp, Tree, OneUser, FreeOnce, PathsKnown, NoneLost,
       PathOfPc, Created
  <2>4. Fresh'
    BY <2>1, <2>2 DEF PoolInv, PoolTypeOK, PathsKnown, Fresh
  <2> QED
    BY <2>3, <2>4 DEF PoolInv
<1> QED
  BY <1>1, <1>2

\* Every step keeps the invariant (WorktreePool, one case for each step).
LEMMA PoolStepKeeps == PoolInv /\ [PoolNext]_poolVars => PoolInv'
<1> SUFFICES ASSUME PoolInv, [PoolNext]_poolVars PROVE PoolInv'
  OBVIOUS
<1>1. CASE CreateWorktree
  BY <1>1, CreateKeeps
<1>2. CASE Drain \/ RemoveWorktrees
  BY <1>2, ShutdownKeeps
<1>3. ASSUME NEW w \in PoolWorker, AcquireWorktree(w) \/ AcquireCancelled(w) PROVE PoolInv'
  <2>1. poolPath[w] = 0 /\ UNCHANGED <<poolUp, poolFree, poolAll, poolTree, poolSetUp, poolFaulty>>
    BY <1>3 DEF AcquireWorktree, AcquireCancelled, poolDisk, PoolInv, PathOfPc
  <2>2. \E to \in {"idle", "wait", "waitUnchecked"} : PoolGoes(w, to, 0)
    BY <1>3 DEF AcquireWorktree, AcquireCancelled
  <2> QED
    BY <2>1, <2>2, WaitKeeps
<1>4. ASSUME NEW w \in PoolWorker, ReceivePath(w) PROVE PoolInv'
  BY <1>4, ReceivePathKeeps
<1>5. ASSUME NEW w \in PoolWorker, CheckHealth(w) PROVE PoolInv'
  BY <1>5, CheckKeeps
<1>6. ASSUME NEW w \in PoolWorker, RecycleUnhealthy(w) \/ ReleaseWorktree(w) PROVE PoolInv'
  <2>1. poolPath[w] # 0 /\ UNCHANGED <<poolUp, poolAll>>
    BY <1>6 DEF RecycleUnhealthy, ReleaseWorktree, PoolInv, PathOfPc
  <2>2. Reset(poolPath[w]) \/ ForceRecycle(poolPath[w])
    BY <1>6 DEF RecycleUnhealthy, ReleaseWorktree
  <2>3. PoolGoes(w, "idle", 0) \/ PoolGoes(w, "retake", 0)
    BY <1>6 DEF RecycleUnhealthy, ReleaseWorktree
  <2> QED
    BY <2>1, <2>2, <2>3, GiveBackKeeps
<1>7. ASSUME NEW w \in PoolWorker, Work(w) PROVE PoolInv'
  BY <1>7, PoolWorkKeeps
<1>8. CASE UNCHANGED poolVars
  BY <1>8 DEF poolVars, PoolInv, PoolTypeOK, OneUser, FreeOnce, PathsKnown, NoneLost, PathOfPc, Created, Fresh
<1> QED
  BY <1>1, <1>2, <1>3, <1>4, <1>5, <1>6, <1>7, <1>8 DEF PoolNext, PoolStep

-----------------------------------------------------------------------------
\* A set that two elements cannot be in has at most one.
LEMMA AtMostOne ==
  ASSUME NEW S, \A x, y \in S : x = y
  PROVE  Cardinality(S) = IF S = {} THEN 0 ELSE 1
<1>1. CASE S = {}
  BY <1>1, FS_EmptySet
<1>2. CASE S # {}
  <2>1. PICK x : S = {x}
    BY <1>2
  <2> QED
    BY <1>2, <2>1, FS_Singleton
<1> QED
  BY <1>1, <1>2

\* The channel has room for every send.
LEMMA ChannelHasRoom ==
  ASSUME NEW s \in Seq(Worktree), NoDup(s)
  PROVE  Len(s) <= PoolSize
<1> SUFFICES ASSUME PoolSize < Len(s) PROVE FALSE
  BY WorktreesAssumption
<1>1. /\ IsFiniteSet(1 .. Len(s)) /\ Cardinality(1 .. Len(s)) = Len(s)
      /\ IsFiniteSet(Worktree) /\ Cardinality(Worktree) = PoolSize
  <2>1. ASSUME NEW n \in Nat PROVE IsFiniteSet(1 .. n) /\ Cardinality(1 .. n) = n
    BY FS_Interval
  <2> QED
    BY <2>1, WorktreesAssumption DEF Worktree
<1>2. s \in [1 .. Len(s) -> Worktree]
  OBVIOUS
<1>3. \E i, j \in 1 .. Len(s) : i # j /\ s[i] = s[j]
  BY <1>1, <1>2, FS_PigeonHole
<1> QED
  BY <1>3 DEF NoDup

LEMMA PoolInvImplies == PoolInv => PoolSound
<1> SUFFICES ASSUME PoolInv PROVE PoolSound
  OBVIOUS
<1>1. ASSUME NEW p \in Worktree
      PROVE  /\ Cardinality(Holders(p)) = IF Holders(p) = {} THEN 0 ELSE 1
             /\ Cardinality(Places(p)) = IF Places(p) = {} THEN 0 ELSE 1
             /\ Holders(p) = {} \/ Places(p) = {}
             /\ Places(p) # {} <=> p \in Elems(poolFree)
             /\ Holders(p) # {} <=> \E w \in PoolWorker : poolPath[w] = p
  <2>1. p # 0
    BY DEF Worktree
  <2>2. \A v, w \in Holders(p) : v = w
    BY <2>1 DEF Holders, PoolInv, OneUser
  <2>3. \A i, j \in Places(p) : i = j
    BY DEF Places, PoolInv, FreeOnce, NoDup
  <2>4. Places(p) # {} <=> p \in Elems(poolFree)
    BY DEF Places, Elems
  <2>5. Holders(p) # {} <=> \E w \in PoolWorker : poolPath[w] = p
    BY DEF Holders
  <2>6. Holders(p) = {} \/ Places(p) = {}
    BY <2>4, <2>5 DEF PoolInv, FreeOnce
  <2> QED
    BY <2>2, <2>3, <2>4, <2>5, <2>6, AtMostOne
<1>2. \A p \in Worktree : Cardinality(Holders(p)) + Cardinality(Places(p)) <= 1
  BY <1>1
<1>3. poolUp \in {"init", "up"} =>
        \A p \in poolAll : Cardinality(Holders(p)) + Cardinality(Places(p)) = 1
  BY <1>1 DEF PoolInv, PoolTypeOK, NoneLost
<1>4. Len(poolFree) <= PoolSize
  BY ChannelHasRoom DEF PoolInv, PoolTypeOK, FreeOnce
<1>5. FreeIsFresh
  BY <1>1 DEF FreeIsFresh, PoolInv, PathsKnown, Fresh
<1> QED
  BY <1>2, <1>3, <1>4, <1>5 DEF PoolSound, SlotsConserved

\* The pool's types hold in every reachable state (session/worktree.go).
THEOREM PoolTypes == PoolSpec => []PoolTypeOK
<1>1. PoolInv => PoolTypeOK
  BY DEF PoolInv
<1> QED
  BY <1>1, PoolInitially, PoolStepKeeps, PTL DEF PoolSpec

\* Whatever git and setup commands fail, a worktree has one user at a time, none
\* is lost before Shutdown, no send blocks, and a free one that the pool has not
\* reported as faulty is clean and set up (session/worktree.go).
THEOREM PoolIsSound == PoolSpec => []PoolSound
<1> QED
  BY PoolInitially, PoolStepKeeps, PoolInvImplies, PTL DEF PoolSpec

-----------------------------------------------------------------------------
(***************************************************************************)
(* The circuit breaker.  A sleeper sets its timer by the pause it sees,    *)
(* and whatever changes the pause afterwards closes its channel.           *)
(***************************************************************************)

\* NobodyOversleeps, without the snapshot's records.
Sleepers ==
  \A c \in CbCaller :
    cbPc[c] = "asleep" /\ c \notin cbNotified =>
      cbState # "closed" /\ (cbTimer[c] <= cbNow + 1 \/ cbTimer[c] <= Resumes)

CbInv == CbTypeOK /\ Sleepers /\ PauseKept

\* Which states the snapshot calls active (circuit_breaker.go, Snapshot).
LEMMA ActiveMeansClosed ==
  ASSUME CbTypeOK PROVE ProviderSnapshot.state # "active" <=> cbState # "closed"
<1>1. CASE cbState = "closed"
  BY <1>1 DEF ProviderSnapshot
<1>2. CASE cbState = "halfOpen"
  BY <1>2 DEF ProviderSnapshot
<1>3. CASE cbState = "open"
  BY <1>3 DEF ProviderSnapshot
<1> QED
  BY <1>1, <1>2, <1>3 DEF CbTypeOK

LEMMA CbInvImplies == CbInv => BreakerSound
  BY ActiveMeansClosed DEF CbInv, BreakerSound, NobodyOversleeps, Sleepers

LEMMA CbInitially == CbInit => CbInv
<1> SUFFICES ASSUME CbInit PROVE CbInv
  OBVIOUS
<1>1. /\ cbNow \in 0 .. CbMaxTime
      /\ cbBackoff \in 1 .. CbBackoffMax
      /\ cbTimer \in [CbCaller -> Nat]
  BY CircuitBreakerAssumption DEF CbInit
<1>2. CbTypeOK
  BY <1>1 DEF CbInit, CbTypeOK
<1>3. Sleepers /\ PauseKept
  BY DEF CbInit, Sleepers, PauseKept
<1> QED
  BY <1>2, <1>3 DEF CbInv

LEMMA ResumesType == ASSUME CbTypeOK PROVE Resumes \in Nat /\ cbNow \in Nat
  BY CircuitBreakerAssumption DEF CbTypeOK, Resumes

\* Time passes: timers stay where they are.
LEMMA CbTickKeeps == ASSUME CbInv, CbTick PROVE CbInv'
<1>1. /\ cbNow' = cbNow + 1 /\ cbNow' \in 0 .. CbMaxTime
      /\ UNCHANGED <<cbState, cbResetAt, cbBackoff, cbLastTrip, cbReason, cbStale, cbPc, cbTimer, cbNotified>>
  BY CircuitBreakerAssumption DEF CbTick, cbCircuit, cbCalls, CbInv, CbTypeOK
<1>2. Resumes' = Resumes /\ Resumes \in Nat /\ cbNow \in Nat
  BY <1>1, ResumesType DEF Resumes, CbInv
<1>3. CbTypeOK'
  BY <1>1 DEF CbInv, CbTypeOK
<1>4. Sleepers' /\ PauseKept'
  BY <1>1, <1>2 DEF CbInv, CbTypeOK, Sleepers, PauseKept
<1> QED
  BY <1>3, <1>4 DEF CbInv

\* What Allow does leaves the pause as it is; Admit may begin a probe.
LEMMA AllowKeeps ==
  ASSUME CbInv, NEW c \in CbCaller,
         Call(c) \/ Admit(c) \/ FallAsleep(c) \/ WakeUp(c) \/ CallCancelled(c)
  PROVE  CbInv'
<1>1. UNCHANGED <<cbNow, cbResetAt, cbBackoff, cbLastTrip, cbReason, cbStale>>
  BY DEF Call, Admit, FallAsleep, WakeUp, CallCancelled, cbCircuit
<1>2. Resumes \in Nat /\ Resumes' = Resumes /\ cbNow \in Nat
  BY <1>1, ResumesType DEF CbInv, Resumes
<1>3. CASE Admit(c)
  <2>1. CbTypeOK'
    BY <1>1, <1>3 DEF CbInv, CbTypeOK, Admit, CbGoes
  <2>2. Sleepers' /\ PauseKept'
    BY <1>1, <1>2, <1>3 DEF CbInv, CbTypeOK, Sleepers, PauseKept, Admit, CbGoes
  <2> QED
    BY <2>1, <2>2 DEF CbInv
<1>4. CASE FallAsleep(c)
  <2>1. /\ UNCHANGED cbState /\ cbState = "open"
        /\ cbTimer' = [cbTimer EXCEPT ![c] = IF Resumes > cbNow THEN Resumes ELSE cbNow + 1]
        /\ cbNotified' = cbNotified \ {c}
        /\ cbPc' = [cbPc EXCEPT ![c] = "asleep"]
    BY <1>4 DEF FallAsleep, cbCircuit, CbGoes
  <2>2. CbTypeOK'
    BY <1>1, <1>2, <2>1 DEF CbInv, CbTypeOK
  <2>3. Sleepers' /\ PauseKept'
    BY <1>1, <1>2, <2>1 DEF CbInv, CbTypeOK, Sleepers, PauseKept
  <2> QED
    BY <2>2, <2>3 DEF CbInv
<1>5. CASE Call(c) \/ WakeUp(c) \/ CallCancelled(c)
  <2>1. PICK to \in {"idle", "ask"} :
          /\ UNCHANGED cbState
          /\ cbPc' = [cbPc EXCEPT ![c] = to]
          /\ cbTimer' \in {cbTimer, [cbTimer EXCEPT ![c] = 0]}
          /\ cbNotified' \in {cbNotified, cbNotified \ {c}}
    BY <1>5 DEF Call, WakeUp, CallCancelled, CbGoes, cbCircuit
  <2>2. CbTypeOK'
    BY <1>1, <2>1 DEF CbInv, CbTypeOK
  <2>3. Sleepers' /\ PauseKept'
    BY <1>1, <1>2, <2>1 DEF CbInv, CbTypeOK, Sleepers, PauseKept
  <2> QED
    BY <2>2, <2>3 DEF CbInv
<1> QED
  BY <1>3, <1>4, <1>5

\* A call returns and every sleeper is told of the state it leaves.
LEMMA ToldKeeps ==
  ASSUME CbTypeOK, NEW c \in CbCaller, cbPc[c] = "call", CbGoes(c, "idle"), StateChanged
  PROVE  Sleepers' /\ cbNotified' \subseteq CbCaller
  BY DEF CbTypeOK, CbGoes, StateChanged, Sleepers

\* A printed date is a time of the clock.
LEMMA ResetTimes ==
  ASSUME CbTypeOK, NEW date \in 0 .. CbYear - 1
  PROVE  ParseResetTime(date) \in Nat
<1>1. cbNow \in Nat /\ CbYear \in Nat \ {0} /\ CbDay \in Nat /\ date \in Nat
  BY CircuitBreakerAssumption DEF CbTypeOK
<1> DEFINE years == cbNow \div CbYear
<1>2. years \in Nat
  BY <1>1
<1> HIDE DEF years
<1>3. years * CbYear \in Nat
  BY <1>1, <1>2
<1>4. ParseResetTime(date) \in {years * CbYear + date, years * CbYear + date + CbYear}
  BY DEF ParseResetTime, years
<1> QED
  BY <1>1, <1>3, <1>4

LEMMA TripKeeps ==
  ASSUME CbInv, NEW c \in CbCaller, cbPc[c] = "call", CbGoes(c, "idle"), UNCHANGED <<cbNow, cbTimer>>,
         NEW kind \in {"rate_limit", "server_error"}, NEW resetAt \in Nat \cup {-1}, Trip(kind, resetAt)
  PROVE  CbInv'
<1>1. cbNow \in Nat /\ cbBackoff \in 1 .. CbBackoffMax /\ CbBackoffMax \in Nat \ {0}
  BY CircuitBreakerAssumption DEF CbInv, CbTypeOK
<1>2. cbBackoff' \in 1 .. CbBackoffMax
  BY <1>1 DEF Trip, Least
<1>3. Sleepers' /\ cbNotified' \subseteq CbCaller
  BY ToldKeeps DEF CbInv, Trip
<1>4. CbTypeOK' /\ PauseKept'
  BY <1>1, <1>2, <1>3 DEF CbInv, CbTypeOK, PauseKept, Trip, CbGoes
<1> QED
  BY <1>3, <1>4 DEF CbInv

LEMMA FailKeeps == ASSUME CbInv, NEW c \in CbCaller, Fails(c) PROVE CbInv'
<1>1. cbPc[c] = "call" /\ CbGoes(c, "idle") /\ UNCHANGED <<cbNow, cbTimer>>
  BY DEF Fails
<1>2. PICK provider \in Provider, stderr \in CbStderr :
        LET kind == ClassifyProviderError(provider, stderr) IN
          \/ kind = "none" /\ UNCHANGED <<cbCircuit, cbNotified>>
          \/ kind # "none" /\ Trip(kind, -1)
          \/ kind = "rate_limit" /\ \E date \in 0 .. CbYear - 1 : Trip(kind, ParseResetTime(date))
  BY DEF Fails
<1> DEFINE kind == ClassifyProviderError(provider, stderr)
<1>3. kind \in {"rate_limit", "server_error", "none"}
  BY DEF ClassifyProviderError
<1> HIDE DEF kind
<1>4. CASE UNCHANGED <<cbCircuit, cbNotified>>
  <2>1. UNCHANGED <<cbState, cbResetAt, cbBackoff, cbLastTrip, cbReason, cbStale, cbNotified>>
    BY <1>4 DEF cbCircuit
  <2>2. Resumes' = Resumes
    BY <2>1 DEF Resumes
  <2> QED
    BY <1>1, <2>1, <2>2 DEF CbInv, CbTypeOK, Sleepers, PauseKept, CbGoes
<1>5. ASSUME kind # "none", Trip(kind, -1) PROVE CbInv'
  <2>1. -1 \in Nat \cup {-1} /\ kind \in {"rate_limit", "server_error"}
    BY <1>3, <1>5
  <2> QED
    BY <1>1, <1>5, <2>1, TripKeeps
<1>6. ASSUME kind = "rate_limit", NEW date \in 0 .. CbYear - 1, Trip(kind, ParseResetTime(date))
      PROVE  CbInv'
  <2>1. ParseResetTime(date) \in Nat \cup {-1} /\ kind \in {"rate_limit", "server_error"}
    BY <1>6, ResetTimes DEF CbInv
  <2> QED
    BY <1>1, <1>6, <2>1, TripKeeps
<1> QED
  BY <1>2, <1>4, <1>5, <1>6 DEF kind

LEMMA SuccessKeeps == ASSUME CbInv, NEW c \in CbCaller, Succeeds(c) PROVE CbInv'
<1>1. /\ cbPc[c] = "call" /\ CbGoes(c, "idle") /\ UNCHANGED <<cbNow, cbLastTrip, cbTimer>>
      /\ cbState' = "closed" /\ cbResetAt' = -1 /\ cbReason' = "none" /\ cbStale' = TRUE
  BY DEF Succeeds
<1>2. Sleepers' /\ cbNotified' \subseteq CbCaller /\ cbBackoff' \in 1 .. CbBackoffMax
  <2>1. CASE cbState # "closed"
    <3>1. cbBackoff' = 1 /\ StateChanged
      BY <2>1 DEF Succeeds
    <3> QED
      BY <1>1, <3>1, ToldKeeps, CircuitBreakerAssumption DEF CbInv
  <2>2. CASE cbState = "closed"
    <3>1. UNCHANGED <<cbBackoff, cbNotified>>
      BY <2>2 DEF Succeeds
    <3> QED
      BY <1>1, <2>2, <3>1 DEF CbInv, CbTypeOK, CbGoes, Sleepers
  <2> QED
    BY <2>1, <2>2
<1>3. CbTypeOK' /\ PauseKept'
  BY <1>1, <1>2 DEF CbInv, CbTypeOK, PauseKept, CbGoes
<1> QED
  BY <1>2, <1>3 DEF CbInv

\* Every step keeps the invariant (CircuitBreaker, one case for each method).
LEMMA CbStepKeeps == CbInv /\ [CbNext]_cbVars => CbInv'
<1> SUFFICES ASSUME CbInv, [CbNext]_cbVars PROVE CbInv'
  OBVIOUS
<1>1. CASE CbTick
  BY <1>1, CbTickKeeps
<1>2. ASSUME NEW c \in CbCaller, Call(c) \/ CbStep(c) \/ CallCancelled(c) PROVE CbInv'
  BY <1>2, AllowKeeps DEF CbStep
<1>3. ASSUME NEW c \in CbCaller, Fails(c) PROVE CbInv'
  BY <1>3, FailKeeps
<1>4. ASSUME NEW c \in CbCaller, Succeeds(c) PROVE CbInv'
  BY <1>4, SuccessKeeps
<1>5. CASE UNCHANGED cbVars
  BY <1>5 DEF cbVars, cbCircuit, cbCalls, CbInv, CbTypeOK, Sleepers, PauseKept, Resumes
<1> QED
  BY <1>1, <1>2, <1>3, <1>4, <1>5 DEF CbNext

\* Whatever callers ask, are cancelled, fail or succeed, and whatever reset times
\* are printed: nobody sleeps through a change of the circuit unnoticed, and a
\* pause lasts until it is over or a success is recorded (circuit_breaker.go).
THEOREM BreakerIsSound == CbSpec => []BreakerSound
<1> QED
  BY CbInitially, CbStepKeeps, CbInvImplies, PTL DEF CbSpec

(***************************************************************************)
(* The archive.  What a prune deletes is old and was indexed, whatever     *)
(* other prunes, rebuilds and sessions do.                                 *)
(***************************************************************************)

USE ArchivePruneAssumption

\* Nothing is archived and no command runs.
LEMMA PruneInitInv == Init => PruneInv
<1> SUFFICES ASSUME Init PROVE PruneInv
  OBVIOUS
<1>1. TypeOK
  BY DEF Init, TypeOK, PC
<1>2. ScanInv /\ IndexInv /\ EventsInv
  BY DEF Init, ScanInv, IndexInv, EventsInv
<1> QED BY <1>1, <1>2 DEF PruneInv

-----------------------------------------------------------------------------
\* Time passes, and files are archived.
LEMMA PruneTickInv == ASSUME PruneInv, Tick PROVE PruneInv'
<1> USE DEF PruneInv
<1>1. TypeOK'
  BY DEF Tick, TypeOK, indexVars, localVars, listVars, scanVars, history
<1>2. ScanInv' /\ EventsInv'
  <2>1. now \in Nat /\ now' = now + 1
    BY DEF Tick, TypeOK
  <2>2. \A p \in Proc : started[p] \in Nat /\ (cur[p] # None => cur[p].at \in Nat)
    BY DEF TypeOK, Found
  <2>3. \A d \in Day : d \in Nat /\ (events[d] # None => events[d] \in Nat)
    BY DEF TypeOK, Day
  <2>4. \A p \in Proc : old[p] \subseteq Day
    BY DEF TypeOK
  <2>5. ScanInv'
    BY <2>1, <2>2 DEF Tick, ScanInv, localVars, listVars, scanVars
  <2>6. EventsInv'
    BY <2>1, <2>3, <2>4 DEF Tick, EventsInv, localVars, listVars
  <2> QED BY <2>5, <2>6
<1>3. IndexInv'
  BY DEF Tick, IndexInv, indexVars, localVars, history
<1> QED BY <1>1, <1>2, <1>3

LEMMA ArchiveInv ==
  ASSUME PruneInv, NEW f \in File, ArchiveCopy(f) \/ ArchiveInbox(f)
  PROVE  PruneInv'
<1> USE DEF PruneInv
<1>1. PICK at \in Nat : archive' = [archive EXCEPT ![f] = at]
  BY DEF ArchiveCopy, ArchiveInbox, TypeOK
<1>2. UNCHANGED <<now, events, indexVars, lock, localVars, history>>
  BY DEF ArchiveCopy, ArchiveInbox
<1>3. TypeOK'
  BY <1>1, <1>2 DEF TypeOK, indexVars, localVars, listVars, scanVars, history
<1>4. ScanInv' /\ EventsInv'
  BY <1>2 DEF ScanInv, EventsInv, localVars, listVars, scanVars
<1>5. IndexInv'
  <2>1. \A g \in File : archive[g] # None => archive'[g] # None
    BY <1>1 DEF TypeOK
  <2>2. \A p \in Proc : assured[p] \subseteq File
    BY DEF TypeOK
  <2> QED BY <1>2, <2>1, <2>2 DEF IndexInv, indexVars, localVars, history
<1> QED BY <1>3, <1>4, <1>5

\* An event file a command is about to delete is of a day long past: no
\* session appends to it.
LEMMA AppendEventInv ==
  ASSUME PruneInv, NEW d \in Day, AppendEvent(d) PROVE PruneInv'
<1> USE DEF PruneInv
<1>1. UNCHANGED <<now, archive, indexVars, lock, localVars, history>>
  BY DEF AppendEvent
<1>2. now \in Nat /\ events' = [events EXCEPT ![d] = now]
  BY DEF AppendEvent, TypeOK
<1>3. TypeOK'
  BY <1>1, <1>2 DEF TypeOK, indexVars, localVars, listVars, scanVars, history
<1>4. ScanInv' /\ IndexInv'
  BY <1>1 DEF ScanInv, IndexInv, indexVars, localVars, listVars, scanVars, history
<1>5. EventsInv'
  <2> SUFFICES ASSUME NEW p \in Proc, NEW e \in old[p]
               PROVE  e + Days < now /\ (events'[e] # None => events'[e] + Days < now)
    <3>1. \A e \in Day : events'[e] # None => e <= events'[e]
      BY <1>2 DEF AppendEvent, EventsInv, TypeOK, Day
    <3> QED BY <1>1, <3>1 DEF EventsInv, localVars, listVars
  <2>1. e \in Day /\ e + Days < now /\ (events[e] # None => events[e] + Days < now)
    BY DEF EventsInv, TypeOK
  <2>2. e # d
    BY <1>2, <2>1 DEF AppendEvent, Day
  <2> QED BY <1>2, <2>1, <2>2 DEF TypeOK
<1> QED BY <1>3, <1>4, <1>5

-----------------------------------------------------------------------------
\* What an append does to the index: nothing that was in it gets lost.
LEMMA LinesGrow ==
  ASSUME TypeOK, NEW S \in SUBSET File, Lines(S)
  PROVE  /\ lines' \subseteq File /\ glued' \subseteq File
         /\ lines \cup glued \cup S \subseteq lines' \cup glued'
<1>1. CASE torn /\ S # {}
  BY <1>1 DEF Lines, TypeOK
<1>2. CASE ~(torn /\ S # {})
  BY <1>2 DEF Lines, TypeOK
<1> QED BY <1>1, <1>2

LEMMA LinesCutGrow ==
  ASSUME TypeOK, NEW S \in SUBSET File, LinesCut(S)
  PROVE  /\ lines' \subseteq File /\ glued' \subseteq File /\ torn' \in BOOLEAN
         /\ lines \cup glued \subseteq lines' \cup glued'
<1>1. PICK part \in SUBSET S : Lines(part) /\ torn' \in {torn /\ part = {}, TRUE}
  BY DEF LinesCut
<1>2. part \in SUBSET File
  OBVIOUS
<1>3. torn' \in BOOLEAN
  BY <1>1
<1> QED BY <1>1, <1>2, <1>3, LinesGrow

\* A command that ends leaves the others as they are.
LEMMA PruneEndsInv ==
  ASSUME PruneInv, NEW p \in Proc, Ends(p), UNCHANGED dirVars,
         lines' \subseteq File, glued' \subseteq File, torn' \in BOOLEAN,
         lock' = IF lock = p THEN None ELSE lock,
         \A q \in Proc \ {p} : \A f \in assured[q] : f \in lines' \cup glued'
  PROVE  PruneInv'
<1> USE DEF PruneInv
<1>1. TypeOK'
  BY DEF Ends, Goto, TypeOK, PC, dirVars
<1>2. ScanInv'
  BY DEF Ends, Goto, ScanInv, TypeOK, dirVars
<1>3. EventsInv'
  BY DEF Ends, EventsInv, TypeOK, dirVars
<1>4. IndexInv'
  <2>1. /\ pc' = [pc EXCEPT ![p] = "idle"]
        /\ assured' = [assured EXCEPT ![p] = {}]
        /\ walk' = [walk EXCEPT ![p] = {}]
        /\ archive' = archive
    BY DEF Ends, Goto, dirVars
  <2>2. \A q \in Proc : pc'[q] = "rename" => q # p /\ pc[q] = "rename" /\ walk'[q] = walk[q]
    BY <2>1 DEF TypeOK
  <2>3. \A q \in Proc : \A f \in assured'[q] : q # p /\ f \in assured[q]
    BY <2>1 DEF TypeOK
  <2>4. \A q \in Proc : pc'[q] = "rename" => lock' = q
    BY <2>2 DEF IndexInv
  <2> QED BY <2>1, <2>2, <2>3, <2>4 DEF IndexInv
<1> QED BY <1>1, <1>2, <1>3, <1>4

\* The lock is not held by a process that is not rebuilding.
LEMMA EndsQuietly ==
  ASSUME PruneInv, NEW p \in Proc,
         NothingExpired(p) \/ Cancel(p) \/ ScanFails(p) \/ PruneEnds(p)
  PROVE  PruneInv'
<1> USE DEF PruneInv
<1>1. Ends(p) /\ UNCHANGED <<dirVars, indexVars, lock>> /\ pc[p] # "rename"
  BY DEF NothingExpired, Cancel, ScanFails, PruneEnds
<1>2. /\ pc' = [pc EXCEPT ![p] = "idle"]
      /\ assured' = [assured EXCEPT ![p] = {}]
      /\ walk' = [walk EXCEPT ![p] = {}]
  BY <1>1 DEF Ends, Goto
<1>3. TypeOK'
  BY <1>1 DEF Ends, Goto, TypeOK, PC, dirVars, indexVars
<1>4. ScanInv' /\ EventsInv'
  BY <1>1 DEF Ends, Goto, ScanInv, EventsInv, TypeOK, dirVars
<1>5. IndexInv'
  <2>1. \A q \in Proc : pc'[q] = "rename" => q # p /\ pc[q] = "rename" /\ walk'[q] = walk[q]
    BY <1>2 DEF TypeOK
  <2>2. \A q \in Proc : \A f \in assured'[q] : f \in assured[q]
    BY <1>2 DEF TypeOK
  <2> QED BY <1>1, <2>1, <2>2 DEF IndexInv, dirVars, indexVars
<1> QED BY <1>3, <1>4, <1>5

-----------------------------------------------------------------------------
\* The steps before the append look at the directories only.
LEMMA ListArchiveInv ==
  ASSUME PruneInv, NEW p \in Proc, ListArchive(p) PROVE PruneInv'
<1> USE DEF PruneInv
<1>1. ExpiredFiles \subseteq File
  BY DEF ExpiredFiles
<1>2. TypeOK'
  BY <1>1 DEF ListArchive, Goto, TypeOK, PC, dirVars, indexVars, scanVars, history
<1>3. ScanInv' /\ EventsInv' /\ IndexInv'
  BY DEF ListArchive, Goto, ScanInv, EventsInv, IndexInv, TypeOK, dirVars,
         indexVars, scanVars, history
<1> QED BY <1>2, <1>3

\* A file found expired was last written Days ago, and is of that day or the
\* day before.
LEMMA ListEventsInv ==
  ASSUME PruneInv, NEW p \in Proc, ListEvents(p) PROVE PruneInv'
<1> USE DEF PruneInv
<1>1. ExpiredEvents \subseteq Day
  BY DEF ExpiredEvents
<1>2. TypeOK'
  BY <1>1 DEF ListEvents, Goto, TypeOK, PC, dirVars, indexVars, scanVars, history
<1>3. ScanInv' /\ IndexInv'
  BY DEF ListEvents, Goto, ScanInv, IndexInv, TypeOK, dirVars, indexVars, scanVars, history
<1>4. EventsInv'
  <2>1. old' = [old EXCEPT ![p] = ExpiredEvents] /\ UNCHANGED <<now, events>>
    BY DEF ListEvents, dirVars
  <2>2. \A d \in ExpiredEvents : d + Days < now /\ events[d] + Days < now
    BY DEF ExpiredEvents, Expired, EventsInv, TypeOK, Day
  <2> QED BY <2>1, <2>2 DEF EventsInv, TypeOK
<1> QED BY <1>2, <1>3, <1>4

LEMMA PruneConfirmInv ==
  ASSUME PruneInv, NEW p \in Proc, Confirm(p) PROVE PruneInv'
<1> USE DEF PruneInv
<1>1. TypeOK'
  BY DEF Confirm, Goto, TypeOK, PC, dirVars, indexVars, listVars, scanVars, history
<1>2. ScanInv' /\ EventsInv' /\ IndexInv'
  BY DEF Confirm, Goto, ScanInv, EventsInv, IndexInv, TypeOK, dirVars, indexVars,
         listVars, scanVars, history
<1> QED BY <1>1, <1>2

\* The append waits for the lock: no rebuild is between its walk and its
\* renaming, and what is appended now the next walk will find.
LEMMA AppendIndexInv ==
  ASSUME PruneInv, NEW p \in Proc, AppendIndex(p) PROVE PruneInv'
<1> USE DEF PruneInv
<1>1. /\ UNCHANGED <<now, archive, events, lock, json, listed, old, scanVars, walk, pruned>>
      /\ pc' = [pc EXCEPT ![p] = AfterIndex(p)]
      /\ AfterIndex(p) \in {"scan", "prune"}
  BY DEF AppendIndex, Goto, AfterIndex, dirVars, listVars
<1>2. listed[p] \in SUBSET File /\ torn \in BOOLEAN
  BY DEF TypeOK
<1>3. /\ lines' \subseteq File /\ glued' \subseteq File /\ torn' \in BOOLEAN
      /\ lines \cup glued \subseteq lines' \cup glued'
      /\ warned' \in [Proc -> BOOLEAN]
      /\ \E S \in SUBSET listed[p] : /\ assured' = [assured EXCEPT ![p] = S]
                                   /\ S \subseteq lines' \cup glued'
                                   /\ \A f \in S : archive[f] # None
  <2>1. CASE /\ Lines(listed[p])
             /\ torn' = (torn /\ listed[p] = {})
             /\ assured' = [assured EXCEPT ![p] = {f \in listed[p] : archive[f] # None}]
             /\ UNCHANGED warned
    <3>1. torn' \in BOOLEAN /\ warned' \in [Proc -> BOOLEAN]
      BY <2>1 DEF TypeOK
    <3>2. /\ lines' \subseteq File /\ glued' \subseteq File
          /\ lines \cup glued \cup listed[p] \subseteq lines' \cup glued'
      BY <1>2, <2>1, LinesGrow
    <3>3. {f \in listed[p] : archive[f] # None} \subseteq lines' \cup glued'
      BY <3>2
    <3> DEFINE Here == {f \in listed[p] : archive[f] # None}
    <3>4. Here \in SUBSET listed[p] /\ \A f \in Here : archive[f] # None
      OBVIOUS
    <3>5. assured' = [assured EXCEPT ![p] = Here] /\ Here \subseteq lines' \cup glued'
      BY <2>1, <3>3
    <3> HIDE DEF Here
    <3>6. \E S \in SUBSET listed[p] : /\ assured' = [assured EXCEPT ![p] = S]
                                     /\ S \subseteq lines' \cup glued'
                                     /\ \A f \in S : archive[f] # None
      BY <3>4, <3>5
    <3> QED BY <3>1, <3>2, <3>6
  <2>2. CASE /\ LinesCut(listed[p])
             /\ warned' = [warned EXCEPT ![p] = TRUE]
             /\ assured' = [assured EXCEPT ![p] = {}]
    <3>1. warned' \in [Proc -> BOOLEAN]
      BY <2>2 DEF TypeOK
    <3>2. /\ lines' \subseteq File /\ glued' \subseteq File /\ torn' \in BOOLEAN
          /\ lines \cup glued \subseteq lines' \cup glued'
      BY <1>2, <2>2, LinesCutGrow
    <3> DEFINE Nothing == {}
    <3>3. /\ assured' = [assured EXCEPT ![p] = Nothing] /\ Nothing \in SUBSET listed[p]
          /\ Nothing \subseteq lines' \cup glued' /\ \A f \in Nothing : archive[f] # None
      BY <2>2
    <3> HIDE DEF Nothing
    <3>4. \E S \in SUBSET listed[p] : /\ assured' = [assured EXCEPT ![p] = S]
                                     /\ S \subseteq lines' \cup glued'
                                     /\ \A f \in S : archive[f] # None
      BY <3>3
    <3> QED BY <3>1, <3>2, <3>4
  <2> QED BY <2>1, <2>2 DEF AppendIndex
<1>4. PICK S \in SUBSET listed[p] : /\ assured' = [assured EXCEPT ![p] = S]
                                   /\ S \subseteq lines' \cup glued'
                                   /\ \A f \in S : archive[f] # None
  BY <1>3
<1>5. assured' \in [Proc -> SUBSET File] /\ pc' \in [Proc -> PC]
  BY <1>1, <1>2, <1>4 DEF TypeOK, PC
<1>6. TypeOK'
  BY <1>1, <1>3, <1>5 DEF TypeOK, scanVars
<1>7. ScanInv' /\ EventsInv'
  BY <1>1 DEF ScanInv, EventsInv, TypeOK, scanVars
<1>8. IndexInv'
  <2>1. \A q \in Proc : pc'[q] = "rename" => pc[q] = "rename" /\ q # p
    BY <1>1 DEF TypeOK
  <2>2. (\A q \in Proc : pc'[q] # "rename") \/ S = {}
    <3>1. CASE listed[p] = {}
      BY <3>1
    <3>2. CASE listed[p] # {}
      BY <3>2, <2>1 DEF AppendIndex, IndexInv
    <3> QED BY <3>1, <3>2
  <2>3. \A q \in Proc : \A f \in assured'[q] : f \in assured[q] \/ (q = p /\ f \in S)
    BY <1>4 DEF TypeOK
  <2>4. \A q \in Proc : \A f \in assured'[q] :
          /\ archive'[f] # None
          /\ f \in lines' \cup glued'
    BY <1>1, <1>3, <1>4, <2>3 DEF IndexInv
  <2>5. \A q \in Proc : \A f \in assured'[q] : \A t \in Proc : pc'[t] = "rename" => f \in walk'[t]
    BY <1>1, <2>1, <2>2, <2>3 DEF IndexInv
  <2>6. \A q \in Proc : pc'[q] = "rename" => lock' = q
    BY <1>1, <2>1 DEF IndexInv
  <2> QED BY <2>4, <2>5, <2>6 DEF IndexInv
<1> QED BY <1>6, <1>7, <1>8

-----------------------------------------------------------------------------
\* The second scan and its removals.
LEMMA ScanArchiveInv ==
  ASSUME PruneInv, NEW p \in Proc, ScanArchive(p) PROVE PruneInv'
<1> USE DEF PruneInv
<1>1. TypeOK'
  BY DEF ScanArchive, Goto, TypeOK, PC, dirVars, indexVars, listVars, history
<1>2. ScanInv' /\ EventsInv' /\ IndexInv'
  BY DEF ScanArchive, Goto, ScanInv, EventsInv, IndexInv, TypeOK, dirVars,
         indexVars, listVars, history
<1> QED BY <1>1, <1>2

\* A file expired when the scan began is expired now.
LEMMA ExamineInv ==
  ASSUME PruneInv, NEW p \in Proc, NEW f \in File, Examine(p, f) PROVE PruneInv'
<1> USE DEF PruneInv
<1>1. /\ UNCHANGED <<dirVars, indexVars, lock, listVars, started, walk, warned, history>>
      /\ todo' = [todo EXCEPT ![p] = @ \ {f}]
  BY DEF Examine
<1>2. CASE archive[f] # None /\ Expired(archive[f], started[p])
  <2> DEFINE c == [file |-> f, at |-> archive[f]]
  <2>1. archive[f] \in Nat /\ started[p] \in Nat /\ now \in Nat
    BY <1>2 DEF TypeOK
  <2>2. c \in Found /\ c.at = archive[f]
    BY <2>1 DEF Found
  <2>3. c # None
    BY <2>2
  <2>4. c.at + Days < now
    BY <1>2, <2>1, <2>2 DEF Expired, ScanInv
  <2>5. cur' = [cur EXCEPT ![p] = c] /\ pc' = [pc EXCEPT ![p] = "remove"]
    BY <1>2 DEF Examine, Goto
  <2> HIDE DEF c
  <2>6. TypeOK'
    BY <1>1, <2>2, <2>5 DEF TypeOK, PC, dirVars, indexVars, listVars, history
  <2>7. ScanInv'
    BY <1>1, <2>3, <2>4, <2>5 DEF ScanInv, TypeOK, dirVars
  <2>8. EventsInv' /\ IndexInv'
    BY <1>1, <2>5 DEF EventsInv, IndexInv, TypeOK, dirVars, indexVars, listVars, history
  <2> QED BY <2>6, <2>7, <2>8
<1>3. CASE ~(archive[f] # None /\ Expired(archive[f], started[p]))
  <2>1. UNCHANGED <<cur, pc>>
    BY <1>3 DEF Examine
  <2>2. TypeOK'
    BY <1>1, <2>1 DEF TypeOK, dirVars, indexVars, listVars, history
  <2>3. ScanInv' /\ EventsInv' /\ IndexInv'
    BY <1>1, <2>1 DEF ScanInv, EventsInv, IndexInv, dirVars, indexVars, listVars, history
  <2> QED BY <2>2, <2>3
<1> QED BY <1>2, <1>3

LEMMA RemoveInv ==
  ASSUME PruneInv, NEW p \in Proc, RemoveFile(p) PROVE PruneInv'
<1> USE DEF PruneInv
<1>1. /\ UNCHANGED <<now, events, indexVars, lock, listVars, started, todo, walk, warned>>
      /\ cur' = [cur EXCEPT ![p] = None]
      /\ pc' = [pc EXCEPT ![p] = "examine"]
  BY DEF RemoveFile, Goto
<1>2. cur[p] \in Found
  BY DEF RemoveFile, ScanInv, TypeOK
<1>3. PICK f \in File : f = cur[p].file
  BY <1>2 DEF Found
<1>4. ScanInv' /\ EventsInv'
  BY <1>1 DEF ScanInv, EventsInv, TypeOK, listVars
<1>5. CASE UNCHANGED <<archive, assured, pruned>>
  <2>1. TypeOK'
    BY <1>1, <1>5 DEF TypeOK, PC, indexVars, listVars
  <2>2. IndexInv'
    BY <1>1, <1>5 DEF IndexInv, TypeOK, indexVars
  <2> QED BY <1>4, <2>1, <2>2
<1>6. CASE /\ archive' = [archive EXCEPT ![cur[p].file] = None]
           /\ assured' = [q \in Proc |-> assured[q] \ {cur[p].file}]
           /\ pruned' = IF archive[cur[p].file] = None \/ warned[p] THEN pruned
                        ELSE pruned \cup {cur[p].file}
  <2>1. /\ archive' = [archive EXCEPT ![f] = None]
        /\ assured' = [q \in Proc |-> assured[q] \ {f}]
        /\ pruned' \subseteq pruned \cup {f}
    BY <1>3, <1>6
  <2>2. TypeOK'
    BY <1>1, <2>1 DEF TypeOK, PC, indexVars, listVars
  <2>3. IndexInv'
    <3>1. \A q \in Proc : pc'[q] = "rename" => pc[q] = "rename"
      BY <1>1 DEF TypeOK
    <3>2. \A q \in Proc : \A g \in assured'[q] : g \in assured[q] /\ archive'[g] = archive[g]
      BY <2>1 DEF TypeOK
    <3> QED BY <1>1, <3>1, <3>2 DEF IndexInv, indexVars
  <2> QED BY <1>4, <2>2, <2>3
<1> QED BY <1>5, <1>6 DEF RemoveFile

LEMMA ScanEndsInv ==
  ASSUME PruneInv, NEW p \in Proc, ScanEnds(p) PROVE PruneInv'
<1> USE DEF PruneInv
<1>1. TypeOK'
  BY DEF ScanEnds, Goto, TypeOK, PC, dirVars, indexVars, listVars, scanVars, history
<1>2. ScanInv' /\ EventsInv' /\ IndexInv'
  BY DEF ScanEnds, Goto, ScanInv, EventsInv, IndexInv, TypeOK, dirVars, indexVars,
         listVars, scanVars, history
<1> QED BY <1>1, <1>2

LEMMA RemoveEventsInv ==
  ASSUME PruneInv, NEW p \in Proc, NEW d \in Day, RemoveEvents(p, d) PROVE PruneInv'
<1> USE DEF PruneInv
<1>1. TypeOK'
  BY DEF RemoveEvents, TypeOK, indexVars, scanVars, history
<1>2. ScanInv' /\ IndexInv'
  BY DEF RemoveEvents, ScanInv, IndexInv, indexVars, scanVars, history
<1>3. EventsInv'
  BY DEF RemoveEvents, EventsInv, TypeOK
<1> QED BY <1>1, <1>2, <1>3

-----------------------------------------------------------------------------
\* A rebuild takes the lock and finds every file there is.
LEMMA RebuildInv ==
  ASSUME PruneInv, NEW p \in Proc, Rebuild(p) PROVE PruneInv'
<1> USE DEF PruneInv
<1>1. TypeOK'
  BY DEF Rebuild, Goto, TypeOK, PC, dirVars, indexVars, listVars, scanVars, history
<1>2. ScanInv' /\ EventsInv'
  BY DEF Rebuild, Goto, ScanInv, EventsInv, TypeOK, dirVars, listVars, scanVars
<1>3. IndexInv'
  <2>1. \A q \in Proc : pc[q] # "rename"
    BY DEF Rebuild, IndexInv
  <2>2. \A q \in Proc : pc'[q] = "rename" => q = p
    BY <2>1 DEF Rebuild, Goto, TypeOK
  <2>3. lock' = p /\ walk'[p] = {f \in File : archive[f] # None}
    BY DEF Rebuild, TypeOK
  <2>4. \A q \in Proc : assured[q] \subseteq File
    BY DEF TypeOK
  <2> QED BY <2>2, <2>3, <2>4 DEF Rebuild, IndexInv, dirVars, indexVars, history
<1> QED BY <1>1, <1>2, <1>3

LEMMA RenameIndexInv ==
  ASSUME PruneInv, NEW p \in Proc, RenameIndex(p) PROVE PruneInv'
<1> USE DEF PruneInv
<1>1. lock = p /\ lock' = None /\ Ends(p) /\ UNCHANGED dirVars
  BY DEF RenameIndex, IndexInv
<1>2. lines' \subseteq File /\ glued' \subseteq File /\ torn' \in BOOLEAN
  BY DEF RenameIndex, TypeOK, indexVars
<1>3. \A q \in Proc \ {p} : \A f \in assured[q] : f \in lines' \cup glued'
  BY DEF RenameIndex, IndexInv, indexVars
<1> QED BY <1>1, <1>2, <1>3, PruneEndsInv

LEMMA PruneDieInv ==
  ASSUME PruneInv, NEW p \in Proc, Die(p) PROVE PruneInv'
<1> USE DEF PruneInv
<1>1. Ends(p) /\ UNCHANGED dirVars /\ lock' = IF lock = p THEN None ELSE lock
  BY DEF Die
<1>2. /\ lines' \subseteq File /\ glued' \subseteq File /\ torn' \in BOOLEAN
      /\ lines \cup glued \subseteq lines' \cup glued'
  <2>1. CASE UNCHANGED indexVars
    BY <2>1 DEF TypeOK, indexVars
  <2>2. CASE LinesCut(listed[p])
    <3>1. listed[p] \in SUBSET File
      BY DEF TypeOK
    <3> QED BY <2>2, <3>1, LinesCutGrow
  <2> QED BY <2>1, <2>2 DEF Die
<1>3. \A q \in Proc \ {p} : \A f \in assured[q] : f \in lines' \cup glued'
  BY <1>2 DEF IndexInv
<1> QED BY <1>1, <1>2, <1>3, PruneEndsInv

-----------------------------------------------------------------------------
\* Every step keeps the invariant.
LEMMA PruneStepInv == PruneInv /\ [Next]_vars => PruneInv'
<1> SUFFICES ASSUME PruneInv, [Next]_vars PROVE PruneInv'
  OBVIOUS
<1>1. CASE Sessions
  BY <1>1, PruneTickInv, ArchiveInv, AppendEventInv DEF Sessions
<1>2. ASSUME NEW p \in Proc, Command(p) PROVE PruneInv'
  BY <1>2, EndsQuietly, ListArchiveInv, ListEventsInv, PruneConfirmInv, AppendIndexInv,
     ScanArchiveInv, ExamineInv, RemoveInv, ScanEndsInv, RemoveEventsInv,
     RebuildInv, RenameIndexInv DEF Command
<1>3. ASSUME NEW p \in Proc, Die(p) PROVE PruneInv'
  BY <1>3, PruneDieInv
<1>4. CASE UNCHANGED vars
  <2>1. TypeOK'
    BY <1>4 DEF PruneInv, TypeOK, vars, dirVars, indexVars, localVars, listVars,
                scanVars, history
  <2>2. ScanInv' /\ IndexInv' /\ EventsInv'
    BY <1>4 DEF PruneInv, ScanInv, IndexInv, EventsInv, vars, dirVars, indexVars,
                localVars, listVars, scanVars, history
  <2> QED BY <2>1, <2>2 DEF PruneInv
<1> QED BY <1>1, <1>2, <1>3, <1>4 DEF Next

\* The inductive invariant holds in every reachable state: a rebuild that has
\* walked holds the lock, and has seen every candidate that was indexed.
THEOREM PruneInvariant == Spec => []PruneInv
<1> QED BY PruneInitInv, PruneStepInv, PTL DEF Spec

\* Type correctness: what is about to be removed was seen with its time.
THEOREM PruneTypeOK == Spec => []TypeOK
<1>1. PruneInv => TypeOK
  BY DEF PruneInv
<1> QED BY <1>1, PruneInvariant, PTL

-----------------------------------------------------------------------------
\* Only RemoveFile deletes a d-mail, only RemoveEvents an event file.
LEMMA OnlyRemove ==
  ASSUME PruneInv, [Next]_vars, NEW f \in File, Removed(f)
  PROVE  \E p \in Proc : RemoveFile(p) /\ cur[p].file = f
<1>1. archive' # archive
  BY DEF Removed
<1>2. ~Tick /\ (\A d \in Day : ~AppendEvent(d)) /\ ~UNCHANGED vars
  BY <1>1 DEF Tick, AppendEvent, vars, dirVars
<1>3. ASSUME NEW g \in File, ArchiveCopy(g) \/ ArchiveInbox(g) PROVE FALSE
  <2>1. PICK at \in Nat : archive' = [archive EXCEPT ![g] = at]
    BY <1>3 DEF PruneInv, ArchiveCopy, ArchiveInbox, TypeOK
  <2> QED BY <2>1 DEF Removed, PruneInv, TypeOK
<1>4. ASSUME NEW p \in Proc, Command(p) PROVE RemoveFile(p)
  BY <1>1, <1>4 DEF Command, ListArchive, ListEvents, NothingExpired, Confirm, Cancel,
    AppendIndex, ScanArchive, ScanFails, Examine, ScanEnds, RemoveEvents, PruneEnds,
    Rebuild, RenameIndex, dirVars
<1>5. ASSUME NEW p \in Proc, Die(p) PROVE FALSE
  BY <1>1, <1>5 DEF Die, dirVars
<1>6. PICK p \in Proc : RemoveFile(p)
  BY <1>2, <1>3, <1>4, <1>5 DEF Next, Sessions
<1>7. cur[p].file = f
  BY <1>1, <1>6 DEF RemoveFile, Removed, PruneInv, TypeOK
<1> QED BY <1>6, <1>7

\* Only expired d-mails are deleted, or one replaced in the last moment.
THEOREM YoungFilesStay == Spec => KeepsYoung
<1>1. PruneInv /\ [Next]_vars =>
        (\A f \in File : Removed(f) =>
           \/ archive[f] + Days < now
           \/ \E p \in Proc : pc[p] = "remove" /\ cur[p].file = f /\ archive[f] # cur[p].at)
  <2> SUFFICES ASSUME PruneInv, [Next]_vars, NEW f \in File, Removed(f)
               PROVE  \/ archive[f] + Days < now
                      \/ \E p \in Proc : /\ pc[p] = "remove" /\ cur[p].file = f
                                         /\ archive[f] # cur[p].at
    OBVIOUS
  <2>1. PICK p \in Proc : RemoveFile(p) /\ cur[p].file = f
    BY OnlyRemove
  <2>2. pc[p] = "remove" /\ cur[p].at + Days < now
    BY <2>1 DEF RemoveFile, PruneInv, ScanInv
  <2> QED BY <2>1, <2>2
<1> QED BY <1>1, PruneInvariant, PTL DEF Spec, KeepsYoung

\* A candidate that a run has indexed is in the index when it is deleted.
THEOREM IndexComesFirst == Spec => IndexedBeforeDeleted
<1>1. PruneInv /\ [Next]_vars =>
        (\A f \in File : Removed(f) =>
           \/ f \in lines \cup glued
           \/ \E p \in Proc : pc[p] = "remove" /\ cur[p].file = f /\ f \notin assured[p])
  <2> SUFFICES ASSUME PruneInv, [Next]_vars, NEW f \in File, Removed(f)
               PROVE  \/ f \in lines \cup glued
                      \/ \E p \in Proc : /\ pc[p] = "remove" /\ cur[p].file = f
                                         /\ f \notin assured[p]
    OBVIOUS
  <2>1. PICK p \in Proc : RemoveFile(p) /\ cur[p].file = f
    BY OnlyRemove
  <2>2. f \in assured[p] => f \in lines \cup glued
    BY DEF PruneInv, IndexInv
  <2> QED BY <2>1, <2>2 DEF RemoveFile
<1> QED BY <1>1, PruneInvariant, PTL DEF Spec, IndexedBeforeDeleted

\* No event is deleted before its time.
THEOREM YoungEventsStay == Spec => EventsKept
<1>1. PruneInv /\ [Next]_vars =>
        (\A d \in Day : events[d] # None /\ events'[d] = None => events[d] + Days < now)
  <2> SUFFICES ASSUME PruneInv, [Next]_vars, NEW d \in Day,
                      events[d] # None, events'[d] = None
               PROVE  events[d] + Days < now
    OBVIOUS
  <2>1. events' # events
    OBVIOUS
  <2>2. ASSUME Sessions PROVE FALSE
    <3>1. PICK e \in Day : AppendEvent(e)
      BY <2>1, <2>2 DEF Sessions, Tick, ArchiveCopy, ArchiveInbox
    <3>2. now # None /\ events' = [events EXCEPT ![e] = now]
      BY <3>1 DEF AppendEvent, PruneInv, TypeOK
    <3> QED BY <3>2 DEF PruneInv, TypeOK
  <2>3. ASSUME NEW p \in Proc, Command(p) PROVE d \in old[p]
    <3>1. PICK e \in Day : RemoveEvents(p, e)
      BY <2>1, <2>3 DEF Command, ListArchive, ListEvents, NothingExpired, Confirm, Cancel,
        AppendIndex, ScanArchive, ScanFails, Examine, RemoveFile, ScanEnds, PruneEnds,
        Rebuild, RenameIndex, dirVars
    <3> QED BY <3>1 DEF RemoveEvents, PruneInv, TypeOK
  <2>4. ASSUME NEW p \in Proc, Die(p) PROVE FALSE
    BY <2>1, <2>4 DEF Die, dirVars
  <2>5. PICK p \in Proc : d \in old[p]
    BY <2>1, <2>2, <2>3, <2>4 DEF Next, vars, dirVars
  <2> QED BY <2>5 DEF PruneInv, EventsInv
<1> QED BY <1>1, PruneInvariant, PTL DEF Spec, EventsKept
================================================================================
