------------------------------- MODULE Reserve -------------------------------
(***************************************************************************)
(* ReserveParty: when the active model hits a rate limit, it cools down    *)
(* and the next model in order takes over.  The report comes from the      *)
(* goroutine that reads a model's output, chunk by chunk; by then another  *)
(* model may be active, and it is the active one that cools.               *)
(***************************************************************************)
EXTENDS Integers, Sequences, SequencesExt, FiniteSetsExt

CONSTANTS RpModels,   \* the primary model, then the reserves in order
          RpStream,   \* goroutines that read the output of a model
          RpChunk,    \* chunks of output: sets of words
          RpCooldown, \* 30 minutes
          RpMaxTime,  \* bound on the clock
          RpMaxHits   \* bound on rateLimitHits

ASSUME ReserveAssumption ==
  /\ RpModels \in Seq(ToSet(RpModels)) /\ RpModels # << >>
  /\ RpCooldown \in Nat /\ RpMaxTime \in Nat /\ RpMaxHits \in Nat

RpPrimary == RpModels[1]
RpModel   == ToSet(RpModels)

VARIABLES
  rpNow,       \* the clock
  rpActive,    \* active
  rpCooldowns, \* per model: when its cooldown ends, or -1
  rpHits,      \* rateLimitHits
  rpRuns       \* per stream: the model it was started with, or "none"

rpVars == <<rpNow, rpActive, rpCooldowns, rpHits, rpRuns>>

RateLimitSignals ==
  {"rate limit", "rate_limit", "too many requests", "quota exceeded", "usage limit",
   "try again later", "at capacity"}

\* CheckOutput: a signal, or a number 429 that stands by itself (hasHTTP429).
SignalsLimit(chunk) == chunk \cap (RateLimitSignals \cup {"429"}) # {}

RpInit ==
  /\ rpNow = 0
  /\ rpActive = RpPrimary
  /\ rpCooldowns = [m \in RpModel |-> -1]
  /\ rpHits = 0
  /\ rpRuns = [s \in RpStream |-> "none"]

RpTick ==
  /\ rpNow < RpMaxTime
  /\ rpNow' = rpNow + 1
  /\ UNCHANGED <<rpActive, rpCooldowns, rpHits, rpRuns>>

Cooling(cooldowns, m) == cooldowns[m] # -1 /\ rpNow <= cooldowns[m]

\* Mutant of Available: the cooldowns of the reserves are not looked at.
NextInOrder(cooldowns) ==
  {i \in 1 .. Len(RpModels) :
     RpModels[i] # rpActive /\ (i = 1 => ~Cooling(cooldowns, RpModels[i]))}

\* The models that nextAvailableModel may take, by their place in the order.
Available(cooldowns) ==
  {i \in 1 .. Len(RpModels) : RpModels[i] # rpActive /\ ~Cooling(cooldowns, RpModels[i])}

\* The active model cools down, and the first available one becomes active.
CoolDown ==
  LET cooldowns == [rpCooldowns EXCEPT ![rpActive] = rpNow + RpCooldown] IN
    /\ rpCooldowns' = cooldowns
    /\ rpActive' = IF Available(cooldowns) = {} THEN rpActive
                   ELSE RpModels[Min(Available(cooldowns))]

\* An expedition begins with TryRecoverPrimary and runs the model then active.
TryRecoverPrimary(s) ==
  /\ rpRuns[s] = "none"
  /\ rpActive' = IF Cooling(rpCooldowns, RpPrimary) THEN rpActive ELSE RpPrimary
  /\ rpRuns' = [rpRuns EXCEPT ![s] = rpActive']
  /\ UNCHANGED <<rpNow, rpCooldowns, rpHits>>

\* CheckOutput of a chunk that s reads; its model need not be active any more.
CheckOutput(s) ==
  /\ rpRuns[s] # "none"
  /\ rpHits < RpMaxHits
  /\ \E chunk \in RpChunk : SignalsLimit(chunk)
  /\ CoolDown
  /\ rpHits' = rpHits + 1
  /\ UNCHANGED <<rpNow, rpRuns>>

ForceReserve ==
  /\ CoolDown
  /\ UNCHANGED <<rpNow, rpHits, rpRuns>>

StreamEnds(s) ==
  /\ rpRuns[s] # "none"
  /\ rpRuns' = [rpRuns EXCEPT ![s] = "none"]
  /\ UNCHANGED <<rpNow, rpActive, rpCooldowns, rpHits>>

RpNext ==
  \/ RpTick
  \/ ForceReserve
  \/ \E s \in RpStream : TryRecoverPrimary(s) \/ CheckOutput(s) \/ StreamEnds(s)

RpSpec == RpInit /\ [][RpNext]_rpVars

-----------------------------------------------------------------------------
\* Every variable has its type.
RpTypeOK ==
  /\ rpNow \in 0 .. RpMaxTime
  /\ rpActive \in RpModel
  /\ rpCooldowns \in [RpModel -> Nat \cup {-1}]
  /\ rpHits \in 0 .. RpMaxHits
  /\ rpRuns \in [RpStream -> RpModel \cup {"none"}]

\* No switch is to a model that is cooling down, and the party stays with a
\* model that has just hit its limit only when every other is cooling down, too.
SwitchSound ==
  [][/\ rpActive' # rpActive => ~Cooling(rpCooldowns', rpActive')
     /\ rpCooldowns' # rpCooldowns /\ rpActive' = rpActive =>
          \A m \in RpModel : Cooling(rpCooldowns', m)]_rpVars

=============================================================================
