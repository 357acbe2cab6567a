---------------------------- MODULE CircuitBreaker ----------------------------
(***************************************************************************)
(* The circuit breaker that goroutines calling an AI provider share.       *)
(* Allow lets them wait while the circuit is open; the answer of each call *)
(* is recorded as a success or, classified from the provider's stderr, as  *)
(* an error that trips the circuit.  A waiting caller sleeps, without the  *)
(* mutex, until its timer fires or the channel is closed that was current  *)
(* when it fell asleep.  Time runs in units of the initial backoff, 30 s.  *)
(***************************************************************************)
EXTENDS Integers

CONSTANTS CbCaller,     \* goroutines
          CbStderr,     \* what a provider may print: sets of the phrases below
          CbBackoffMax, \* cap of the backoff (20 units)
          CbYear,       \* the length of a year: reset times are printed without it
          CbDay,        \* the length of a day
          CbMaxTime     \* bound on the clock; no trip once its pause would outlast it

ASSUME CircuitBreakerAssumption ==
  /\ CbBackoffMax \in Nat \ {0}
  /\ CbYear \in Nat \ {0}
  /\ CbDay \in Nat
  /\ CbMaxTime \in Nat

VARIABLES
  cbNow,       \* the clock
  cbState,     \* circuitState
  cbResetAt,   \* resetAt, or -1 for the zero time
  cbBackoff,   \* backoffCurrent
  cbLastTrip,  \* lastTrip
  cbReason,    \* lastReason, or "none" for the empty one
  cbPc,        \* what each caller does
  cbTimer,     \* per caller: when its timer fires
  cbNotified,  \* callers whose channel has been closed since they fell asleep
  cbStale      \* history: a success was recorded since the last trip

cbCircuit == <<cbState, cbResetAt, cbBackoff, cbLastTrip, cbReason, cbStale>>
cbCalls   == <<cbPc, cbTimer>>
cbVars    == <<cbNow, cbCircuit, cbCalls, cbNotified>>

Provider == {"claude-code", "codex", "other"}

RateLimitPatterns(provider) ==
  CASE provider = "claude-code" -> {"hit your limit", "hit your usage limit"}
    [] provider = "codex" -> {"rate limit", "rate_limit_exceeded", "too many requests"}
    [] OTHER -> {"rate limit", "too many requests", "hit your limit"}

ServerErrorPatterns(provider) ==
  CASE provider = "claude-code" -> {"overloaded", "529", "500 ", "502 ", "503 "}
    [] provider = "codex" -> {"internal server error", "service unavailable", "bad gateway"}
    [] OTHER -> {"overloaded", "internal server error", "service unavailable"}

\* ClassifyProviderError: a rate limit wins over a server error.
ClassifyProviderError(provider, stderr) ==
  IF stderr \cap RateLimitPatterns(provider) # {} THEN "rate_limit"
  ELSE IF stderr \cap ServerErrorPatterns(provider) # {} THEN "server_error"
  ELSE "none"

\* parseResetTime of "resets <date> (<zone>)": the date in this year, or in the
\* next if that is more than a day ago.
ParseResetTime(date) ==
  LET t == (cbNow \div CbYear) * CbYear + date IN
    IF t < cbNow - CbDay THEN t + CbYear ELSE t

CbInit ==
  /\ cbNow = 0
  /\ cbState = "closed"
  /\ cbResetAt = -1
  /\ cbBackoff = 1
  /\ cbLastTrip = 0
  /\ cbReason = "none"
  /\ cbPc = [c \in CbCaller |-> "idle"]
  /\ cbTimer = [c \in CbCaller |-> 0]
  /\ cbNotified = {}
  /\ cbStale = FALSE

CbTick ==
  /\ cbNow < CbMaxTime
  /\ cbNow' = cbNow + 1
  /\ UNCHANGED <<cbCircuit, cbCalls, cbNotified>>

CbGoes(c, to) == cbPc' = [cbPc EXCEPT ![c] = to]

\* When the pause ends: at the reset time, or else a backoff after the last trip.
Resumes == IF cbResetAt # -1 THEN cbResetAt ELSE cbLastTrip + cbBackoff

\* Allow is called.
Call(c) ==
  /\ cbPc[c] = "idle"
  /\ CbGoes(c, "ask")
  /\ UNCHANGED <<cbNow, cbCircuit, cbTimer, cbNotified>>

\* Allow, under the mutex: the circuit is not open, or has been for long enough.
Admit(c) ==
  /\ cbPc[c] = "ask"
  /\ cbState = "open" => cbNow > Resumes
  /\ cbState' = IF cbState = "open" THEN "halfOpen" ELSE cbState
  /\ CbGoes(c, "call")
  /\ UNCHANGED <<cbNow, cbResetAt, cbBackoff, cbLastTrip, cbReason, cbStale, cbTimer, cbNotified>>

\* Allow, under the mutex: the circuit is open, and the caller takes down until
\* when, but for at least a moment, and which channel it waits for.
FallAsleep(c) ==
  /\ cbPc[c] = "ask"
  /\ cbState = "open"
  /\ cbNow <= Resumes
  /\ cbTimer' = [cbTimer EXCEPT ![c] = IF Resumes > cbNow THEN Resumes ELSE cbNow + 1]
  /\ cbNotified' = cbNotified \ {c}
  /\ CbGoes(c, "asleep")
  /\ UNCHANGED <<cbNow, cbCircuit>>

\* Mutant of WakeUp: the select has no case for the timer.
WakeUpByChannel(c) ==
  /\ cbPc[c] = "asleep"
  /\ c \in cbNotified
  /\ cbTimer' = [cbTimer EXCEPT ![c] = 0]
  /\ cbNotified' = cbNotified \ {c}
  /\ CbGoes(c, "ask")
  /\ UNCHANGED <<cbNow, cbCircuit>>

\* The timer or the channel; the loop asks again.
WakeUp(c) ==
  /\ cbPc[c] = "asleep"
  /\ cbNow >= cbTimer[c] \/ c \in cbNotified
  /\ cbTimer' = [cbTimer EXCEPT ![c] = 0]
  /\ cbNotified' = cbNotified \ {c}
  /\ CbGoes(c, "ask")
  /\ UNCHANGED <<cbNow, cbCircuit>>

\* ctx.Done(), seen at the head of the loop or asleep.
CallCancelled(c) ==
  /\ cbPc[c] \in {"ask", "asleep"}
  /\ cbTimer' = [cbTimer EXCEPT ![c] = 0]
  /\ cbNotified' = cbNotified \ {c}
  /\ CbGoes(c, "idle")
  /\ UNCHANGED <<cbNow, cbCircuit>>

\* Mutant of StateChanged: the state changes and nobody is told.
StateChangedSilently == cbNotified' = cbNotified

\* stateChanged closes the channel of everybody who sleeps.
StateChanged == cbNotified' = {c \in CbCaller : cbPc[c] = "asleep"}

Least(a, b) == IF a < b THEN a ELSE b

\* RecordProviderError, for what IsTrip.
Trip(kind, resetAt) ==
  /\ cbState' = "open"
  /\ cbLastTrip' = cbNow
  /\ cbBackoff' = Least(2 * cbBackoff, CbBackoffMax)
  /\ cbResetAt' = resetAt
  /\ cbReason' = kind
  /\ cbStale' = FALSE
  /\ IF resetAt # -1 THEN resetAt < CbMaxTime ELSE cbNow + cbBackoff' < CbMaxTime  \* bound
  /\ StateChanged

\* A call fails.  Only a rate limit comes with a reset time, and not always.
Fails(c) ==
  /\ cbPc[c] = "call"
  /\ \E provider \in Provider, stderr \in CbStderr :
       LET kind == ClassifyProviderError(provider, stderr) IN
         \/ /\ kind = "none"
            /\ UNCHANGED <<cbCircuit, cbNotified>>
         \/ /\ kind # "none"
            /\ Trip(kind, -1)
         \/ /\ kind = "rate_limit"
            /\ \E date \in 0 .. CbYear - 1 : Trip(kind, ParseResetTime(date))
  /\ CbGoes(c, "idle")
  /\ UNCHANGED <<cbNow, cbTimer>>

\* A call succeeds, possibly one that began before the trip: RecordSuccess.
Succeeds(c) ==
  /\ cbPc[c] = "call"
  /\ cbState' = "closed"
  /\ cbResetAt' = -1
  /\ cbReason' = "none"
  /\ cbStale' = TRUE
  /\ IF cbState # "closed"
       THEN cbBackoff' = 1 /\ StateChanged
       ELSE UNCHANGED <<cbBackoff, cbNotified>>
  /\ CbGoes(c, "idle")
  /\ UNCHANGED <<cbNow, cbLastTrip, cbTimer>>

CbStep(c) == Admit(c) \/ FallAsleep(c) \/ WakeUp(c)

CbNext ==
  \/ CbTick
  \/ \E c \in CbCaller :
       \/ Call(c)
       \/ CbStep(c)
       \/ CallCancelled(c)
       \/ Fails(c)
       \/ Succeeds(c)

\* Time passes, and the scheduler lets a goroutine in Allow go on.
CbFairness ==
  /\ WF_cbVars(CbTick)
  /\ \A c \in CbCaller : WF_cbVars(CbStep(c))

CbSpec == CbInit /\ [][CbNext]_cbVars /\ CbFairness

\* Snapshot: State and RetryBudget.
ProviderSnapshot ==
  CASE cbState = "closed"   -> [state |-> "active", budget |-> 1, reason |-> "none"]
    [] cbState = "halfOpen" -> [state |-> "degraded", budget |-> 1, reason |-> "probe"]
    [] cbState = "open" /\ cbResetAt # -1 -> [state |-> "paused", budget |-> 0, reason |-> cbReason]
    [] OTHER -> [state |-> "waiting", budget |-> 0, reason |-> cbReason]

-----------------------------------------------------------------------------
\* Every variable has its type.
CbTypeOK ==
  /\ cbNow \in 0 .. CbMaxTime
  /\ cbState \in {"closed", "open", "halfOpen"}
  /\ cbResetAt \in Nat \cup {-1}
  /\ cbBackoff \in 1 .. CbBackoffMax
  /\ cbLastTrip \in Nat
  /\ cbReason \in {"none", "rate_limit", "server_error"}
  /\ cbPc \in [CbCaller -> {"idle", "ask", "asleep", "call"}]
  /\ cbTimer \in [CbCaller -> Nat]
  /\ cbNotified \subseteq CbCaller
  /\ cbStale \in BOOLEAN

\* Whoever sleeps and has not been told of a change of state sleeps for good
\* reason: the provider shows as paused, waiting or degraded, and the timer fires by
\* the time the present pause ends, or a moment later.  So a trip that moves the
\* reset time forward, and a success, reach every sleeper.
NobodyOversleeps ==
  \A c \in CbCaller :
    cbPc[c] = "asleep" /\ c \notin cbNotified =>
      /\ ProviderSnapshot.state # "active"
      /\ cbTimer[c] <= cbNow + 1 \/ cbTimer[c] <= Resumes

\* After a trip the circuit stays open until its own pause is over or a success
\* is recorded (be it of a call that began before the trip): an error that is
\* not a trip, a sleeper that wakes up or is cancelled, an old timer do not open it.
PauseKept ==
  ~cbStale /\ cbReason # "none" =>
    \/ cbState = "open"
    \/ cbState = "halfOpen" /\ cbNow > Resumes

\* What sleepers see of the circuit and what the circuit makes of trips.
BreakerSound == NobodyOversleeps /\ PauseKept

\* A caller that asks is let through, or cancelled, in the end, however the circuit
\* is tripped by others meanwhile: it wakes up, and asks again after the pause.
CallersAdmitted == \A c \in CbCaller : cbPc[c] = "ask" ~> cbPc[c] \in {"idle", "call"}

=============================================================================
