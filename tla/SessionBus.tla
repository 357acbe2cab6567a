------------------------------ MODULE SessionBus ------------------------------
(***************************************************************************)
(* The in-process bus of live session events: any number of goroutines     *)
(* publish under the read lock, each walking the subscribers in turn and    *)
(* waiting at most a timeout for a full channel; Subscribe and Close take  *)
(* the write lock.  A subscriber closes itself at any time, without the    *)
(* lock.  An event is <<publisher, number>>.                               *)
(***************************************************************************)
EXTENDS Naturals, Sequences, FiniteSets, SequencesExt, Functions

CONSTANTS BusPub,      \* goroutines that publish
          BusSub,      \* subscribers
          BusBuffer,   \* capacity of a subscriber's channel
          BusEvents    \* bound: events published in all

ASSUME BusAssumption ==
  /\ IsFiniteSet(BusPub) /\ IsFiniteSet(BusSub)
  /\ BusBuffer \in Nat \ {0}
  /\ BusEvents \in Nat

VARIABLES
  busSubs,     \* the bus: registered subscribers, in order
  busClosed,   \* the bus: closed
  busSent,     \* per publisher: events it has begun to publish
  busTodo,     \* per publisher: subscribers still to be served; <<>> outside Publish
  busChan,     \* per subscriber: its channel
  busDone,     \* per subscriber: done is closed
  busShut,     \* subscribers whose channel is closed
  busGot,      \* per subscriber: what it received, in order
  busMissed,   \* history, per subscriber: events given up on
  busSince     \* history, per subscriber: busSent when it registered

busVars == <<busSubs, busClosed, busSent, busTodo, busChan, busDone, busShut,
             busGot, busMissed, busSince>>

BusEvent == BusPub \X (Nat \ {0})

BusInit ==
  /\ busSubs = <<>>
  /\ busClosed = FALSE
  /\ busSent = [p \in BusPub |-> 0]
  /\ busTodo = [p \in BusPub |-> <<>>]
  /\ busChan = [s \in BusSub |-> <<>>]
  /\ busDone = [s \in BusSub |-> FALSE]
  /\ busShut = {}
  /\ busGot = [s \in BusSub |-> <<>>]
  /\ busMissed = [s \in BusSub |-> {}]
  /\ busSince = [s \in BusSub |-> [p \in BusPub |-> 0]]

\* The RWMutex: nobody is inside Publish.
BusUnread == \A p \in BusPub : busTodo[p] = <<>>

\* Publish takes the read lock.  On a closed bus it returns at once.
Publish(p) ==
  /\ busTodo[p] = <<>>
  /\ FoldFunction(+, 0, busSent) < BusEvents
  /\ ~busClosed
  /\ busSent' = [busSent EXCEPT ![p] = @ + 1]
  /\ busTodo' = [busTodo EXCEPT ![p] = busSubs]
  /\ UNCHANGED <<busSubs, busClosed, busChan, busDone, busShut, busGot, busMissed, busSince>>

\* Publish goes on to the next subscriber; after the last one it unlocks.
NextSubscriber(p) == busTodo' = [busTodo EXCEPT ![p] = Tail(@)]

\* Its channel has room.  A send on a closed channel panics.
SendTo(p) ==
  /\ busTodo[p] # <<>>
  /\ LET s == Head(busTodo[p]) IN
       /\ ~busDone[s]
       /\ Len(busChan[s]) < BusBuffer
       /\ busChan' = [busChan EXCEPT ![s] = Append(@, <<p, busSent[p]>>)]
  /\ NextSubscriber(p)
  /\ UNCHANGED <<busSubs, busClosed, busSent, busDone, busShut, busGot, busMissed, busSince>>

\* It is done, or its channel stays full for the timeout: the event is lost to it.
SkipSubscriber(p) ==
  /\ busTodo[p] # <<>>
  /\ LET s == Head(busTodo[p]) IN
       /\ busDone[s] \/ Len(busChan[s]) = BusBuffer
       /\ busMissed' = [busMissed EXCEPT ![s] = @ \union {<<p, busSent[p]>>}]
  /\ NextSubscriber(p)
  /\ UNCHANGED <<busSubs, busClosed, busSent, busChan, busDone, busShut, busGot, busSince>>

\* The caller's context ends while a channel is full: the rest get nothing.
PublishCancelled(p) ==
  /\ busTodo[p] # <<>>
  /\ busMissed' = [s \in BusSub |->
       IF s \in Range(busTodo[p]) THEN busMissed[s] \union {<<p, busSent[p]>>} ELSE busMissed[s]]
  /\ busTodo' = [busTodo EXCEPT ![p] = <<>>]
  /\ UNCHANGED <<busSubs, busClosed, busSent, busChan, busDone, busShut, busGot, busSince>>

\* On a closed bus the new subscriber is done from the start, its channel open.
Subscribe(s) ==
  /\ BusUnread
  /\ s \notin Range(busSubs) /\ ~busDone[s]
  /\ IF busClosed
     THEN /\ busDone' = [busDone EXCEPT ![s] = TRUE]
          /\ UNCHANGED <<busSubs, busSince>>
     ELSE /\ busSubs' = Append(busSubs, s)
          /\ busSince' = [busSince EXCEPT ![s] = busSent]
          /\ UNCHANGED busDone
  /\ UNCHANGED <<busClosed, busSent, busTodo, busChan, busShut, busGot, busMissed>>

\* BusSubscriber.Close: once, without the lock, and without unregistering.
CloseSubscriber(s) ==
  /\ s \in Range(busSubs)
  /\ ~busDone[s]
  /\ busDone' = [busDone EXCEPT ![s] = TRUE]
  /\ UNCHANGED <<busSubs, busClosed, busSent, busTodo, busChan, busShut, busGot, busMissed, busSince>>

ReceiveEvent(s) ==
  /\ busChan[s] # <<>>
  /\ busGot' = [busGot EXCEPT ![s] = Append(@, Head(busChan[s]))]
  /\ busChan' = [busChan EXCEPT ![s] = Tail(@)]
  /\ UNCHANGED <<busSubs, busClosed, busSent, busTodo, busDone, busShut, busMissed, busSince>>

\* Mutant of CloseBus: a Close that does not wait for the publishers.
CloseBusUnlocked ==
  /\ ~busClosed
  /\ busClosed' = TRUE
  /\ busDone' = [s \in BusSub |-> busDone[s] \/ s \in Range(busSubs)]
  /\ busShut' = Range(busSubs)
  /\ busSubs' = <<>>
  /\ UNCHANGED <<busSent, busTodo, busChan, busGot, busMissed, busSince>>

\* InProcessSessionBus.Close.
CloseBus ==
  /\ BusUnread
  /\ ~busClosed
  /\ busClosed' = TRUE
  /\ busDone' = [s \in BusSub |-> busDone[s] \/ s \in Range(busSubs)]
  /\ busShut' = Range(busSubs)
  /\ busSubs' = <<>>
  /\ UNCHANGED <<busSent, busTodo, busChan, busGot, busMissed, busSince>>

BusNext ==
  \/ \E p \in BusPub : Publish(p) \/ SendTo(p) \/ SkipSubscriber(p) \/ PublishCancelled(p)
  \/ \E s \in BusSub : Subscribe(s) \/ CloseSubscriber(s) \/ ReceiveEvent(s)
  \/ CloseBus

BusSpec == BusInit /\ [][BusNext]_busVars

-----------------------------------------------------------------------------

\* Types; a subscriber's channel never holds more than its buffer.
BusTypeOK ==
  /\ Range(busSubs) \subseteq BusSub
  /\ busClosed \in BOOLEAN
  /\ busSent \in [BusPub -> Nat]
  /\ \A p \in BusPub : Range(busTodo[p]) \subseteq BusSub
  /\ \A s \in BusSub : /\ Range(busChan[s]) \union Range(busGot[s]) \subseteq BusEvent
                       /\ Len(busChan[s]) <= BusBuffer
                       /\ busMissed[s] \subseteq BusEvent
                       /\ busSince[s] \in [BusPub -> Nat]
  /\ busDone \in [BusSub -> BOOLEAN]
  /\ busShut \subseteq BusSub

\* Nobody is about to send on a closed channel: the program would panic.
NoSendOnClosed == \A p \in BusPub : \A s \in Range(busTodo[p]) : s \notin busShut

\* However publishers interleave, a subscriber sees the events of each in the
\* order of their publication and none twice.
InOrder ==
  \A s \in BusSub :
    LET seen == busGot[s] \o busChan[s]
    IN  \A i, j \in DOMAIN seen : i < j /\ seen[i][1] = seen[j][1] => seen[i][2] < seen[j][2]

\* Every event published since a subscriber registered is received, waiting in
\* its channel, given up on, or still being published: a subscriber that never
\* falls behind misses nothing.
Accounted ==
  \A s \in BusSub : s \in Range(busSubs) =>
    \A p \in BusPub : \A n \in (busSince[s][p] + 1) .. busSent[p] :
      \/ <<p, n>> \in Range(busGot[s] \o busChan[s]) \union busMissed[s]
      \/ n = busSent[p] /\ s \in Range(busTodo[p])

\* Events arrive in order, are accounted for, and never meet a closed channel.
BusSound == NoSendOnClosed /\ InOrder /\ Accounted

===============================================================================
