-------------------------- MODULE VerifyRunProofs ---------------------------
(***************************************************************************)
(* Proofs about VerifyRun, with the dispatcher inside it, for any hosts,    *)
(* levels, verifiers, senders, notifiers, capacity, runs and faults.        *)
(***************************************************************************)
EXTENDS VerifyRun, TLAPS

-----------------------------------------------------------------------------
(* The invariant.                                                           *)

StoreTypes ==
  /\ stored \in [Hosts -> Found]
  /\ timeline \in [Hosts -> Seq((1 .. MaxRuns) \X Found)]

RunTypes ==
  /\ phase \in {"off", "run", "flush"} /\ run \in 0 .. MaxRuns
  /\ loaded \in [Hosts -> Found \cup {NoLevel}] /\ saved \in [Hosts -> Found \cup {NoLevel}]
  /\ current \in Changes \cup {None}
  /\ faults \in 0 .. MaxFaults
  /\ phase # "off" => run >= 1

FlagTypes == errors \in BOOLEAN /\ interrupted \in BOOLEAN /\ fed \in BOOLEAN

Workers == [at : {"idle", "verify", "snapshot", "send", "exited"},
            host : Hosts \cup {None},
            result : Found \cup {"ERROR", "INCOMPLETE", None}]

FlowTypes ==
  /\ todo \subseteq Hosts /\ channel \subseteq Hosts
  /\ worker \in [Verifiers -> Workers]
  /\ results \subseteq [host : Hosts, result : Found \cup {"ERROR", "INCOMPLETE"}]

SenderTypes ==
  /\ queue \subseteq D!Events
  /\ hand \in [Senders -> D!Events \cup {None}]
  /\ left \in [Senders -> SUBSET Notifiers]
  /\ running \subseteq Senders
  /\ offered \subseteq D!Events \X Notifiers

AlertTypes ==
  /\ batch = 1
  /\ seen \subseteq {D!Identity(r) : r \in Changes}
  /\ caller \in [{main} -> D!Events \cup {None}]
  /\ closed \in BOOLEAN
  /\ flush \in {"no", "waiting", "returned"}
  /\ accepted \subseteq D!Events /\ dropped \subseteq D!Events

Types == StoreTypes /\ RunTypes /\ FlagTypes /\ FlowTypes /\ SenderTypes /\ AlertTypes

(* A host of the run is at one place: with the producer, in the channel, in *)
(* the hands of one worker, among the results, or stored.                   *)
Holds(w) == worker[w].at \in {"verify", "snapshot", "send"}
Sent == todo \cup channel

InHands ==
  \A w \in Verifiers : Holds(w) =>
    /\ worker[w].host \in Selected \ Sent
    /\ worker[w].result \in Found \cup {"ERROR", "INCOMPLETE", None}
    /\ worker[w].at = "snapshot" => worker[w].result \in Found
    /\ worker[w].at = "send" => worker[w].result # None
    /\ saved[worker[w].host] = NoLevel
    /\ \A v \in Verifiers : Holds(v) /\ worker[v].host = worker[w].host => v = w

AmongResults ==
  \A r \in results :
    /\ r.host \in Selected \ Sent
    /\ saved[r.host] = NoLevel
    /\ \A w \in Verifiers : Holds(w) => worker[w].host # r.host
    /\ \A q \in results : q.host = r.host => q = r

WithProducer ==
  /\ todo \cap channel = {} /\ Sent \subseteq Selected
  /\ \A h \in Sent : saved[h] = NoLevel

SavedInv == \A h \in Hosts : saved[h] # NoLevel => h \in Selected /\ stored[h] = saved[h]

(* What main is about to announce, or has announced, is what it stored.     *)
IsOwn(c) == saved[c.host] \in Found /\ c = Change(c.host, loaded[c.host], saved[c.host])
AlertInv ==
  /\ current # None => IsOwn(current) /\ current.old # current.new
  /\ \A e \in Alerts : IsOwn(e[2])

PhaseInv ==
  /\ phase = "run" => ~closed /\ flush = "no"
  /\ phase = "flush" => flush = "waiting" /\ current = None /\ caller[main] = None
  /\ phase # "run" => results = {} /\ \A w \in Verifiers : worker[w].at = "exited"

(* A change that was stored is in the hands of main or its identity is      *)
(* noted, and what is noted has an alert.                                   *)
NotedInv ==
  phase # "off" /\ Notifiers # {} =>
    /\ \A i \in seen : \E e \in Alerts : D!Identity(e[2]) = i
    /\ \A h \in Hosts : saved[h] \notin {NoLevel, loaded[h]} /\ D!Passes(Change(h, loaded[h], saved[h])) =>
         current = Change(h, loaded[h], saved[h]) \/ D!Identity(Change(h, loaded[h], saved[h])) \in seen

(* What was accepted is queued, in a hand, or was offered to everybody.     *)
DeliverInv ==
  /\ \A s \in Senders : hand[s] # None => \A n \in Notifiers : n \in left[s] \/ <<hand[s], n>> \in offered
  /\ \A e \in accepted :
       e \in queue \/ (\E s \in Senders : hand[s] = e) \/ \A n \in Notifiers : <<e, n>> \in offered
  /\ \A s \in Senders \ running : hand[s] = None /\ queue = {} /\ closed
  /\ flush = "returned" => running = {}

(* The timeline of this run is what was stored or is on its way to be.      *)
Settles(h) ==
  \/ LastOf(h)[2] = saved[h]
  \/ \E w \in Verifiers : worker[w].at = "send" /\ worker[w].host = h /\ worker[w].result = LastOf(h)[2]
  \/ \E r \in results : r.host = h /\ r.result = LastOf(h)[2]

TimeInv ==
  /\ \A h \in Hosts : timeline[h] # <<>> => LastOf(h)[1] <= run
  /\ ~errors /\ ~interrupted /\ (phase # "off" \/ flush = "returned") =>
       \A h \in Hosts : timeline[h] # <<>> /\ LastOf(h)[1] = run => Settles(h)

PlaceInv == InHands /\ AmongResults /\ WithProducer
Inv == Types /\ PlaceInv /\ SavedInv /\ AlertInv /\ PhaseInv /\ NotedInv /\ DeliverInv /\ TimeInv

-----------------------------------------------------------------------------
(* Facts about levels and changes.                                          *)

LEMMA LevelFacts ==
  /\ NoLevel \notin Found
  /\ "ERROR" \notin Found /\ "INCOMPLETE" \notin Found
  BY VerifyAssumption DEF Levels, NoLevel

LEMMA ChangeFacts ==
  ASSUME NEW h \in Hosts, NEW old \in Found, NEW new \in Found
  PROVE  /\ Change(h, old, new) \in Changes
         /\ Change(h, old, new).host = h
         /\ Change(h, old, new).old = old
         /\ Change(h, old, new).new = new
  <1>1. Change(h, old, new) \in Changes
    BY DEF Changes
  <1>2. Change(h, old, new).host = h
    BY Zenon DEF Change
  <1>3. Change(h, old, new).old = old
    BY Zenon DEF Change
  <1>4. Change(h, old, new).new = new
    BY Zenon DEF Change
  <1>. QED BY <1>1, <1>2, <1>3, <1>4

LEMMA EventFacts ==
  /\ \A c \in Changes : c # None /\ c.host \in Hosts /\ c.old \in Found /\ c.new \in Found
  /\ \A c \in Changes : <<1, c>> \in D!Events
  /\ \A e \in D!Events : e # None /\ e[2] \in Changes
  <1>1. \A c \in Changes : c.host \in Hosts /\ c.old \in Found /\ c.new \in Found
    <2> TAKE c \in Changes
    <2>1. PICK h \in Hosts, old \in Found, new \in Found : c = Change(h, old, new)
      BY DEF Changes
    <2>. QED BY <2>1, ChangeFacts
  <1>2. D!Events = (1 .. 1) \X Changes
    BY DEF D!Events
  <1>. QED BY <1>1, <1>2, VerifyAssumption

LEMMA NoneIsNoResult == None \notin Found \cup {"ERROR", "INCOMPLETE"}
  BY VerifyAssumption

-----------------------------------------------------------------------------
(* Steps by what they leave alone.                                          *)

DispatcherStep == EndRun \/ Exit \/ Enqueue \/ \E s \in Senders : SenderStep(s)
FeedStep == FeedEnds \/ \E h \in Hosts : Feed(h)
PipelineStep == FeedStep \/ Interrupt \/ \E w \in Verifiers : VerifierStep(w)

LEMMA StepSplit ==
  ASSUME [Next]_vars
  PROVE  UNCHANGED vars \/ DispatcherStep \/ PipelineStep \/ Start \/ Crash \/ Consume \/ Announce
  BY DEF Next, Main, DispatcherStep, PipelineStep, FeedStep

LEMMA DispatcherFrame ==
  ASSUME DispatcherStep
  PROVE  UNCHANGED <<store, run, loaded, flow, current, saved, errors, interrupted, faults>>
  BY DEF DispatcherStep, EndRun, Exit, Enqueue, SenderStep

LEMMA VerifierFrame ==
  ASSUME NEW w \in Verifiers, VerifierStep(w)
  PROVE  UNCHANGED <<stored, phase, run, loaded, todo, fed, current, saved, errors, interrupted, dispatcher>>
  BY DEF VerifierStep, TakeHost, Examine, SaveSnapshot, SendResult, store

LEMMA PipelineFrame ==
  ASSUME PipelineStep
  PROVE  UNCHANGED <<stored, phase, run, loaded, current, saved, errors, dispatcher>>
  <1>1. CASE FeedStep
    BY <1>1 DEF FeedStep, FeedEnds, Feed, store
  <1>2. CASE Interrupt
    BY <1>2 DEF Interrupt, store
  <1>. QED BY <1>1, <1>2, VerifierFrame DEF PipelineStep

-----------------------------------------------------------------------------
(* Types.                                                                   *)

LEMMA NewDispatcherTypes ==
  ASSUME NewDispatcher
  PROVE  SenderTypes' /\ AlertTypes'
  <1>1. SenderTypes'
    BY DEF NewDispatcher, SenderTypes
  <1>2. closed' \in BOOLEAN
    BY Zenon DEF NewDispatcher
  <1>3. AlertTypes'
    BY <1>2 DEF NewDispatcher, AlertTypes
  <1>. QED BY <1>1, <1>3

LEMMA InitTypes == Init => Types
  <1> SUFFICES ASSUME Init PROVE Types
    OBVIOUS
  <1>1. StoreTypes
    <2>1. \A h \in Hosts : <<>> \in Seq((1 .. MaxRuns) \X Found)
      OBVIOUS
    <2>. QED BY <2>1 DEF Init, StoreTypes
  <1>2. RunTypes
    BY VerifyAssumption DEF Init, RunTypes, Nobody
  <1>3. FlagTypes
    BY Zenon DEF Init, FlagTypes
  <1>4. FlowTypes
    BY DEF Init, FlowTypes, Workers, Exited, Idle
  <1>5. SenderTypes
    BY DEF Init, D!DispatcherInit, SenderTypes
  <1>6. closed \in BOOLEAN
    BY Zenon DEF Init, D!DispatcherInit
  <1>7. AlertTypes
    BY <1>6 DEF Init, D!DispatcherInit, AlertTypes
  <1>. QED BY <1>1, <1>2, <1>3, <1>4, <1>5, <1>7 DEF Types

LEMMA StoreTypesStep ==
  ASSUME Types, InHands, [Next]_vars
  PROVE  StoreTypes'
  <1>1. CASE UNCHANGED store
    BY <1>1 DEF Types, StoreTypes, store
  <1>2. CASE Consume
    BY <1>2 DEF Types, StoreTypes, Consume
  <1>3. ASSUME NEW w \in Verifiers, SaveSnapshot(w) PROVE StoreTypes'
    <2>1. CASE UNCHANGED timeline
      BY <1>3, <2>1, ZenonT(60) DEF Types, StoreTypes, SaveSnapshot
    <2>2. CASE timeline' = [timeline EXCEPT ![worker[w].host] = Append(@, <<run, worker[w].result>>)]
      <3>1. Holds(w) /\ worker[w].at = "snapshot"
        BY <1>3 DEF SaveSnapshot, Holds
      <3>2. worker[w].result \in Found /\ worker[w].host \in Hosts /\ phase = "run"
        BY <1>3, <3>1 DEF SaveSnapshot, InHands, Selected
      <3>3. run \in 1 .. MaxRuns
        BY <1>3 DEF SaveSnapshot, Types, RunTypes
      <3>. QED BY <2>2, <3>2, <3>3, <1>3 DEF SaveSnapshot, Types, StoreTypes
    <2>. QED BY <1>3, <2>1, <2>2 DEF SaveSnapshot
  <1>4. CASE PipelineStep
    BY <1>1, <1>3, <1>4 DEF PipelineStep, FeedStep, FeedEnds, Feed, Interrupt, VerifierStep, TakeHost, Examine, SendResult
  <1>5. CASE Start \/ Crash \/ Announce \/ UNCHANGED vars
    BY <1>1, <1>5 DEF Start, Crash, Announce, vars
  <1>. QED BY <1>1, <1>2, <1>4, <1>5, StepSplit, DispatcherFrame

LEMMA RunTypesStep ==
  ASSUME Types, PlaceInv, [Next]_vars
  PROVE  RunTypes'
  <1>1. CASE UNCHANGED <<phase, run, loaded, saved, current, faults>>
    BY <1>1 DEF Types, RunTypes
  <1>2. CASE DispatcherStep
    <2>1. phase' \in {"off", "run", "flush"} /\ (phase' # "off" => phase # "off")
      BY <1>2 DEF DispatcherStep, EndRun, Exit, Enqueue, SenderStep, Types, RunTypes
    <2>. QED BY <1>2, <2>1, DispatcherFrame DEF Types, RunTypes
  <1>3. CASE PipelineStep
    <2>1. faults' = faults \/ Fails
      BY <1>3 DEF PipelineStep, FeedStep, FeedEnds, Feed, Interrupt, VerifierStep, TakeHost, Examine, SaveSnapshot, SendResult
    <2>2. faults' \in 0 .. MaxFaults
      BY <2>1, VerifyAssumption DEF Fails, Types, RunTypes
    <2>. QED BY <1>3, <2>2, PipelineFrame, ZenonT(60) DEF Types, RunTypes
  <1>4. CASE Start
    <2>1. loaded' \in [Hosts -> Found \cup {NoLevel}]
      BY <1>4 DEF Start, Types, StoreTypes
    <2>2. run' \in 1 .. MaxRuns
      BY <1>4, VerifyAssumption DEF Start, Types, RunTypes
    <2>. QED BY <1>4, <2>1, <2>2 DEF Start, Types, RunTypes, Nobody
  <1>5. CASE Crash
    BY <1>5, VerifyAssumption DEF Crash, Fails, Types, RunTypes
  <1>6. CASE Consume
    <2>1. faults' \in 0 .. MaxFaults
      BY <1>6, VerifyAssumption DEF Consume, Fails, Types, RunTypes
    <2>2. saved' \in [Hosts -> Found \cup {NoLevel}]
      BY <1>6 DEF Consume, Types, RunTypes
    <2>3. current' \in Changes \cup {None}
      <3>1. CASE current' = None
        BY <3>1
      <3>2. ASSUME NEW r \in results, r.result \in Found, current' = Change(r.host, loaded[r.host], r.result)
            PROVE  current' \in Changes
        <4>1. r.host \in Hosts /\ loaded[r.host] \in Found
          BY <3>2 DEF PlaceInv, AmongResults, Selected, Types, RunTypes
        <4>. QED BY <3>2, <4>1, ChangeFacts
      <3>. QED BY <1>6, <3>1, <3>2 DEF Consume
    <2>. QED BY <1>6, <2>1, <2>2, <2>3 DEF Consume, Types, RunTypes
  <1>7. CASE Announce
    BY <1>7 DEF Announce, Types, RunTypes
  <1>8. CASE UNCHANGED vars
    BY <1>1, <1>8 DEF vars
  <1>. QED BY <1>2, <1>3, <1>4, <1>5, <1>6, <1>7, <1>8, StepSplit

LEMMA FlagTypesStep ==
  ASSUME Types, [Next]_vars
  PROVE  FlagTypes'
  <1>. USE DEF Types, FlagTypes
  <1>1. CASE DispatcherStep
    BY <1>1, DispatcherFrame, Zenon DEF flow
  <1>2. CASE FeedStep
    BY <1>2, Zenon DEF FeedStep, FeedEnds, Feed
  <1>3. CASE Interrupt
    BY <1>3, Zenon DEF Interrupt, flow
  <1>4. ASSUME NEW w \in Verifiers, VerifierStep(w) PROVE FlagTypes'
    BY <1>4, VerifierFrame, Zenon
  <1>5. CASE Start
    BY <1>5, Zenon DEF Start
  <1>6. CASE Crash
    BY <1>6, Zenon DEF Crash
  <1>7. CASE Consume
    <2>1. errors' = errors \/ errors' = TRUE
      BY <1>7, Zenon DEF Consume
    <2>. QED BY <1>7, <2>1, Zenon DEF Consume
  <1>8. CASE Announce
    BY <1>8, Zenon DEF Announce, flow
  <1>9. CASE UNCHANGED vars
    BY <1>9, Zenon DEF vars, flow
  <1>. QED BY <1>1, <1>2, <1>3, <1>4, <1>5, <1>6, <1>7, <1>8, <1>9, StepSplit DEF PipelineStep

LEMMA FlowTypesStep ==
  ASSUME Types, InHands, [Next]_vars
  PROVE  FlowTypes'
  <1>1. CASE UNCHANGED flow
    BY <1>1 DEF Types, FlowTypes, flow
  <1>2. CASE FeedStep
    BY <1>2 DEF FeedStep, FeedEnds, Feed, Types, FlowTypes
  <1>3. ASSUME NEW w \in Verifiers, VerifierStep(w) PROVE FlowTypes'
    <2>1. ASSUME NEW to \in Workers, worker' = [worker EXCEPT ![w] = to] PROVE worker' \in [Verifiers -> Workers]
      BY <2>1 DEF Types, FlowTypes
    <2>2. worker[w].host \in Hosts \cup {None} /\ worker[w].result \in Found \cup {"ERROR", "INCOMPLETE", None}
      BY DEF Types, FlowTypes, Workers
    <2>3. worker' \in [Verifiers -> Workers]
      <3>1. CASE TakeHost(w)
        <4>1. Exited \in Workers
          BY DEF Exited, Workers
        <4>2. \A h \in channel : [at |-> "verify", host |-> h, result |-> None] \in Workers
          BY DEF Workers, Types, FlowTypes
        <4>. QED BY <2>1, <3>1, <4>1, <4>2 DEF TakeHost
      <3>2. CASE Examine(w)
        <4>1. PICK r \in Found \cup {"ERROR", "INCOMPLETE"} : worker' = [worker EXCEPT ![w] =
                [at |-> IF r \in Found /\ r # loaded[worker[w].host] THEN "snapshot" ELSE "send", host |-> worker[w].host, result |-> r]]
          BY <3>2 DEF Examine
        <4>2. [at |-> IF r \in Found /\ r # loaded[worker[w].host] THEN "snapshot" ELSE "send", host |-> worker[w].host, result |-> r] \in Workers
          BY <2>2 DEF Workers
        <4>. QED BY <2>1, <4>1, <4>2
      <3>3. CASE SaveSnapshot(w)
        <4>1. /\ [at |-> "send", host |-> worker[w].host, result |-> worker[w].result] \in Workers
              /\ [at |-> "send", host |-> worker[w].host, result |-> "ERROR"] \in Workers
          BY <2>2 DEF Workers
        <4>. QED BY <2>1, <3>3, <4>1 DEF SaveSnapshot
      <3>4. CASE SendResult(w)
        <4>1. Idle \in Workers /\ Exited \in Workers
          BY DEF Idle, Exited, Workers
        <4>. QED BY <2>1, <3>4, <4>1 DEF SendResult
      <3>. QED BY <1>3, <3>1, <3>2, <3>3, <3>4 DEF VerifierStep
    <2>4. channel' \subseteq Hosts
      BY <1>3 DEF VerifierStep, TakeHost, Examine, SaveSnapshot, SendResult, Types, FlowTypes
    <2>5. results' \subseteq [host : Hosts, result : Found \cup {"ERROR", "INCOMPLETE"}]
      <3>1. CASE SendResult(w)
        <4>1. worker[w].host \in Hosts /\ worker[w].result \in Found \cup {"ERROR", "INCOMPLETE"}
          BY <2>2, <3>1 DEF SendResult, InHands, Holds, Selected
        <4>. QED BY <3>1, <4>1 DEF SendResult, Types, FlowTypes
      <3>. QED BY <1>3, <3>1 DEF VerifierStep, TakeHost, Examine, SaveSnapshot, Types, FlowTypes
    <2>. QED BY <1>3, <2>3, <2>4, <2>5, VerifierFrame DEF Types, FlowTypes
  <1>4. CASE Start
    BY <1>4 DEF Start, FlowTypes, Workers, Idle
  <1>5. CASE Crash
    BY <1>5 DEF Crash, FlowTypes, Workers, Exited
  <1>6. CASE Consume
    BY <1>6 DEF Consume, Types, FlowTypes
  <1>7. CASE Interrupt \/ Announce \/ UNCHANGED vars
    BY <1>1, <1>7 DEF Interrupt, Announce, vars
  <1>. QED BY <1>1, <1>2, <1>3, <1>4, <1>5, <1>6, <1>7, StepSplit, DispatcherFrame DEF PipelineStep

(* The dispatcher's own steps, seen from here.                              *)
LEMMA SenderTypesStep ==
  ASSUME Types, [Next]_vars
  PROVE  SenderTypes'
  <1>1. CASE UNCHANGED <<queue, hand, left, running, offered>>
    BY <1>1 DEF Types, SenderTypes
  <1>2. CASE Enqueue
    <2>1. caller[main] \in D!Events
      BY <1>2 DEF Enqueue, D!Enqueue, Types, AlertTypes
    <2>. QED BY <1>2, <2>1 DEF Enqueue, D!Enqueue, Types, SenderTypes
  <1>3. ASSUME NEW w \in Senders, SenderStep(w) PROVE SenderTypes'
    <2>1. CASE D!Take(w)
      BY <2>1 DEF D!Take, Types, SenderTypes
    <2>2. CASE D!Send(w)
      BY <2>2 DEF D!Send, Types, SenderTypes
    <2>3. CASE D!WorkerEnds(w)
      BY <2>3 DEF D!WorkerEnds, Types, SenderTypes
    <2>. QED BY <1>3, <2>1, <2>2, <2>3 DEF SenderStep, D!WorkerStep
  <1>4. CASE Start \/ Crash
    BY <1>4, NewDispatcherTypes DEF Start, Crash
  <1>5. CASE EndRun \/ Exit
    BY <1>1, <1>5 DEF EndRun, Exit, D!Flush, D!FlushReturns
  <1>6. CASE Announce
    BY <1>1, <1>6 DEF Announce, D!Dispatch, dispatcher
  <1>7. CASE PipelineStep
    BY <1>1, <1>7, PipelineFrame DEF dispatcher
  <1>8. CASE Consume \/ UNCHANGED vars
    BY <1>1, <1>8 DEF Consume, vars, dispatcher
  <1>. QED BY <1>2, <1>3, <1>4, <1>5, <1>6, <1>7, <1>8, StepSplit DEF DispatcherStep

LEMMA AlertTypesStep ==
  ASSUME Types, [Next]_vars
  PROVE  AlertTypes'
  <1>1. ASSUME UNCHANGED <<batch, seen, caller, accepted, dropped>>, closed' = closed \/ closed' = TRUE,
               flush' \in {"no", "waiting", "returned"}
        PROVE  AlertTypes'
    <2>1. closed' \in BOOLEAN
      BY <1>1, Zenon DEF Types, AlertTypes
    <2>. QED BY <1>1, <2>1 DEF Types, AlertTypes
  <1>2. CASE Enqueue
    <2>1. caller[main] \in D!Events /\ caller' = [caller EXCEPT ![main] = None]
      BY <1>2 DEF Enqueue, D!Enqueue, Types, AlertTypes
    <2>2. accepted' \in {accepted, accepted \cup {caller[main]}} /\ dropped' \in {dropped, dropped \cup {caller[main]}}
      BY <1>2 DEF Enqueue, D!Enqueue
    <2>3. UNCHANGED <<batch, seen, flush, closed>>
      BY <1>2 DEF Enqueue, D!Enqueue
    <2>4. closed' \in BOOLEAN
      BY <2>3, Zenon DEF Types, AlertTypes
    <2>. QED BY <2>1, <2>2, <2>3, <2>4 DEF Types, AlertTypes
  <1>3. ASSUME NEW w \in Senders, SenderStep(w) PROVE AlertTypes'
    <2>1. UNCHANGED <<batch, seen, caller, accepted, dropped, closed, flush>>
      BY <1>3 DEF SenderStep, D!WorkerStep, D!Take, D!Send, D!WorkerEnds
    <2>. QED BY <1>1, <2>1 DEF Types, AlertTypes
  <1>4. CASE Start \/ Crash
    BY <1>4, NewDispatcherTypes DEF Start, Crash
  <1>5. CASE EndRun \/ Exit
    BY <1>1, <1>5 DEF EndRun, Exit, D!Flush, D!FlushReturns
  <1>6. CASE Announce
    <2>1. CASE UNCHANGED dispatcher
      BY <1>1, <2>1 DEF dispatcher, Types, AlertTypes
    <2>2. CASE D!Dispatch(main, current)
      <3>1. current \in Changes /\ <<batch, current>> \in D!Events
        BY <1>6, EventFacts DEF Announce, Types, RunTypes, AlertTypes
      <3>2. UNCHANGED <<batch, closed, flush, accepted, dropped>>
        BY <2>2 DEF D!Dispatch
      <3>3. seen' \in {seen, seen \cup {D!Identity(current)}} /\ caller' \in {caller, [caller EXCEPT ![main] = <<batch, current>>]}
        BY <2>2 DEF D!Dispatch
      <3>4. closed' \in BOOLEAN
        BY <3>2, Zenon DEF Types, AlertTypes
      <3>. QED BY <3>1, <3>2, <3>3, <3>4 DEF Types, AlertTypes
    <2>. QED BY <1>6, <2>1, <2>2 DEF Announce
  <1>7. CASE PipelineStep
    BY <1>1, <1>7, PipelineFrame DEF dispatcher, Types, AlertTypes
  <1>8. CASE Consume \/ UNCHANGED vars
    BY <1>1, <1>8 DEF Consume, vars, dispatcher, Types, AlertTypes
  <1>. QED BY <1>2, <1>3, <1>4, <1>5, <1>6, <1>7, <1>8, StepSplit DEF DispatcherStep

-----------------------------------------------------------------------------
(* A host is at one place.                                                  *)

LEMMA PlaceFrame ==
  ASSUME PlaceInv, UNCHANGED <<flow, loaded, saved>>
  PROVE  PlaceInv'
  <1>1. UNCHANGED <<todo, channel, worker, results>>
    BY DEF flow
  <1>2. InHands'
    BY <1>1 DEF PlaceInv, InHands, Holds, Selected, Sent
  <1>3. AmongResults'
    BY <1>1 DEF PlaceInv, AmongResults, Holds, Selected, Sent
  <1>4. WithProducer'
    BY <1>1 DEF PlaceInv, WithProducer, Selected, Sent
  <1>. QED BY <1>2, <1>3, <1>4 DEF PlaceInv

LEMMA PlaceFeed ==
  ASSUME Types, PlaceInv, FeedStep
  PROVE  PlaceInv'
  <1>1. Sent' \subseteq Sent /\ todo' \cap channel' = {}
    BY DEF FeedStep, FeedEnds, Feed, PlaceInv, WithProducer, Sent
  <1>2. UNCHANGED <<worker, results, saved, loaded>>
    BY DEF FeedStep, FeedEnds, Feed
  <1>3. InHands'
    BY <1>1, <1>2 DEF PlaceInv, InHands, Holds, Selected
  <1>4. AmongResults'
    BY <1>1, <1>2 DEF PlaceInv, AmongResults, Holds, Selected
  <1>5. WithProducer'
    BY <1>1, <1>2 DEF PlaceInv, WithProducer, Selected
  <1>. QED BY <1>3, <1>4, <1>5 DEF PlaceInv

LEMMA PlaceTake ==
  ASSUME Types, PlaceInv, NEW w \in Verifiers, TakeHost(w)
  PROVE  PlaceInv'
  <1>. UNCHANGED <<todo, results, saved, loaded>>
    BY DEF TakeHost
  <1>1. ASSUME NEW h \in channel, channel' = channel \ {h},
               worker' = [worker EXCEPT ![w] = [at |-> "verify", host |-> h, result |-> None]]
        PROVE  PlaceInv'
    <2>1. worker'[w].at = "verify" /\ worker'[w].host = h /\ worker'[w].result = None
      BY <1>1 DEF Types, FlowTypes
    <2>2. \A v \in Verifiers \ {w} : worker'[v] = worker[v]
      BY <1>1 DEF Types, FlowTypes
    <2>3. Sent' = Sent \ {h} /\ h \in Sent /\ h \in Selected /\ saved[h] = NoLevel
      BY <1>1 DEF PlaceInv, WithProducer, Sent
    <2>4. \A v \in Verifiers : Holds(v) => worker[v].host # h
      BY <2>3 DEF PlaceInv, InHands
    <2>5. \A r \in results : r.host # h
      BY <2>3 DEF PlaceInv, AmongResults
    <2>6. InHands'
      BY <2>1, <2>2, <2>3, <2>4 DEF PlaceInv, InHands, Holds, Selected
    <2>7. AmongResults'
      BY <2>1, <2>2, <2>3, <2>5 DEF PlaceInv, AmongResults, Holds, Selected
    <2>8. WithProducer'
      BY <1>1, <2>3 DEF PlaceInv, WithProducer, Selected, Sent
    <2>. QED BY <2>6, <2>7, <2>8 DEF PlaceInv
  <1>2. ASSUME UNCHANGED channel, worker' = [worker EXCEPT ![w] = Exited]
        PROVE  PlaceInv'
    <2>1. worker'[w].at = "exited" /\ \A v \in Verifiers \ {w} : worker'[v] = worker[v]
      BY <1>2 DEF Types, FlowTypes, Exited
    <2>2. InHands'
      BY <1>2, <2>1 DEF PlaceInv, InHands, Holds, Selected, Sent
    <2>3. AmongResults'
      BY <1>2, <2>1 DEF PlaceInv, AmongResults, Holds, Selected, Sent
    <2>4. WithProducer'
      BY <1>2 DEF PlaceInv, WithProducer, Selected, Sent
    <2>. QED BY <2>2, <2>3, <2>4 DEF PlaceInv
  <1>. QED BY <1>1, <1>2 DEF TakeHost

(* A worker that goes on with its host.                                     *)
LEMMA PlaceGoOn ==
  ASSUME Types, PlaceInv, NEW w \in Verifiers, Examine(w) \/ SaveSnapshot(w)
  PROVE  PlaceInv'
  <1>. UNCHANGED <<todo, channel, results, saved, loaded>>
    BY DEF Examine, SaveSnapshot
  <1>1. Holds(w)
    BY DEF Examine, SaveSnapshot, Holds
  <1>2. /\ worker'[w].host = worker[w].host /\ worker'[w].at \in {"snapshot", "send"}
        /\ worker'[w].result \in Found \cup {"ERROR", "INCOMPLETE"}
        /\ worker'[w].at = "snapshot" => worker'[w].result \in Found
    <2>1. CASE Examine(w)
      <3>1. PICK r \in Found \cup {"ERROR", "INCOMPLETE"} : worker' = [worker EXCEPT ![w] =
              [at |-> IF r \in Found /\ r # loaded[worker[w].host] THEN "snapshot" ELSE "send", host |-> worker[w].host, result |-> r]]
        BY <2>1 DEF Examine
      <3>. QED BY <3>1 DEF Types, FlowTypes
    <2>2. CASE SaveSnapshot(w)
      <3>1. worker[w].result \in Found
        BY <1>1, <2>2 DEF SaveSnapshot, PlaceInv, InHands
      <3>. QED BY <2>2, <3>1, SMTT(60) DEF SaveSnapshot, Types, FlowTypes
    <2>. QED BY <2>1, <2>2
  <1>3. \A v \in Verifiers \ {w} : worker'[v] = worker[v]
    BY DEF Examine, SaveSnapshot, Types, FlowTypes
  <1>4. worker'[w].result # None
    BY <1>2, NoneIsNoResult
  <1>5. InHands'
    BY <1>1, <1>2, <1>3, <1>4 DEF PlaceInv, InHands, Holds, Selected, Sent
  <1>6. AmongResults'
    BY <1>1, <1>2, <1>3 DEF PlaceInv, AmongResults, Holds, Selected, Sent
  <1>7. WithProducer'
    BY DEF PlaceInv, WithProducer, Selected, Sent
  <1>. QED BY <1>5, <1>6, <1>7 DEF PlaceInv

LEMMA PlaceSend ==
  ASSUME Types, PlaceInv, NEW w \in Verifiers, SendResult(w)
  PROVE  PlaceInv'
  <1>. UNCHANGED <<todo, channel, saved, loaded>>
    BY DEF SendResult
  <1>1. Holds(w)
    BY DEF SendResult, Holds
  <1>2. worker'[w].at \in {"idle", "exited"} /\ \A v \in Verifiers \ {w} : worker'[v] = worker[v]
    BY DEF SendResult, Types, FlowTypes, Idle, Exited
  <1>3. results' \subseteq results \cup {[host |-> worker[w].host, result |-> worker[w].result]}
    BY DEF SendResult
  <1>4. InHands'
    BY <1>2 DEF PlaceInv, InHands, Holds, Selected, Sent
  <1>5. AmongResults'
    <2>1. worker[w].host \in Selected \ Sent /\ saved[worker[w].host] = NoLevel
      BY <1>1 DEF PlaceInv, InHands
    <2>2. \A v \in Verifiers \ {w} : Holds(v) => worker[v].host # worker[w].host
      BY <1>1 DEF PlaceInv, InHands
    <2>3. \A r \in results : r.host # worker[w].host
      BY <1>1 DEF PlaceInv, AmongResults
    <2>. QED BY <1>2, <1>3, <2>1, <2>2, <2>3 DEF PlaceInv, AmongResults, Holds, Selected, Sent
  <1>6. WithProducer'
    BY DEF PlaceInv, WithProducer, Selected, Sent
  <1>. QED BY <1>4, <1>5, <1>6 DEF PlaceInv

LEMMA PlaceStart ==
  ASSUME Types, Start
  PROVE  PlaceInv'
  <1>1. channel' = {} /\ results' = {} /\ saved' = Nobody /\ \A w \in Verifiers : worker'[w].at = "idle"
    BY DEF Start, Idle
  <1>2. InHands' /\ AmongResults'
    BY <1>1 DEF InHands, AmongResults, Holds
  <1>3. PICK hosts \in SUBSET Hosts : todo' = hosts /\ loaded' = [h \in Hosts |-> IF h \in hosts THEN stored[h] ELSE NoLevel]
    BY DEF Start
  <1>4. \A h \in hosts : h \in Hosts /\ loaded'[h] # NoLevel
    BY <1>3, LevelFacts DEF Types, StoreTypes
  <1>5. WithProducer'
    BY <1>1, <1>3, <1>4 DEF WithProducer, Sent, Selected, Nobody
  <1>. QED BY <1>2, <1>5 DEF PlaceInv

LEMMA PlaceCrash ==
  ASSUME Crash
  PROVE  PlaceInv'
  <1>1. todo' = {} /\ channel' = {} /\ results' = {} /\ \A w \in Verifiers : worker'[w].at = "exited"
    BY DEF Crash, Exited
  <1>. QED BY <1>1 DEF PlaceInv, InHands, AmongResults, WithProducer, Holds, Sent

LEMMA PlaceConsume ==
  ASSUME Types, PlaceInv, Consume
  PROVE  PlaceInv'
  <1>. UNCHANGED <<todo, channel, worker, loaded>>
    BY DEF Consume
  <1>1. PICK r \in results : results' = results \ {r} /\ saved' \in {saved, [saved EXCEPT ![r.host] = r.result]}
    BY DEF Consume
  <1>2. \A h \in Hosts \ {r.host} : saved'[h] = saved[h]
    BY <1>1 DEF Types, RunTypes
  <1>3. r.host \notin Sent /\ \A w \in Verifiers : Holds(w) => worker[w].host # r.host
    BY DEF PlaceInv, AmongResults
  <1>4. \A q \in results' : q \in results /\ q.host # r.host /\ q.host \in Hosts
    BY <1>1 DEF PlaceInv, AmongResults, Selected
  <1>5. InHands'
    BY <1>2, <1>3 DEF PlaceInv, InHands, Holds, Selected, Sent
  <1>6. AmongResults'
    BY <1>2, <1>4 DEF PlaceInv, AmongResults, Holds, Selected, Sent
  <1>7. WithProducer'
    BY <1>2, <1>3 DEF PlaceInv, WithProducer, Selected, Sent
  <1>. QED BY <1>5, <1>6, <1>7 DEF PlaceInv

LEMMA PlaceStep ==
  ASSUME Types, PlaceInv, [Next]_vars
  PROVE  PlaceInv'
  <1>1. ASSUME NEW w \in Verifiers, VerifierStep(w) PROVE PlaceInv'
    BY <1>1, PlaceTake, PlaceGoOn, PlaceSend DEF VerifierStep
  <1>2. CASE DispatcherStep
    BY <1>2, PlaceFrame, DispatcherFrame
  <1>3. CASE Interrupt \/ Announce \/ UNCHANGED vars
    BY <1>3, PlaceFrame DEF Interrupt, Announce, vars
  <1>. QED BY <1>1, <1>2, <1>3, PlaceFeed, PlaceStart, PlaceCrash, PlaceConsume, StepSplit DEF PipelineStep

-----------------------------------------------------------------------------
(* What was stored, and what is announced of it.                            *)

LEMMA SavedStep ==
  ASSUME Types, PlaceInv, SavedInv, [Next]_vars
  PROVE  SavedInv'
  <1>1. CASE UNCHANGED <<stored, saved, loaded>>
    BY <1>1 DEF SavedInv, Selected
  <1>2. CASE Start
    BY <1>2 DEF Start, SavedInv, Nobody
  <1>3. CASE Consume
    <2>1. loaded' = loaded
      BY <1>3 DEF Consume
    <2>2. PICK r \in results :
            UNCHANGED <<stored, saved>> \/ (/\ stored' = [stored EXCEPT ![r.host] = r.result]
                                            /\ saved' = [saved EXCEPT ![r.host] = r.result])
      BY <1>3 DEF Consume
    <2>3. r.host \in Selected
      BY DEF PlaceInv, AmongResults
    <2>. QED BY <2>1, <2>2, <2>3 DEF SavedInv, Selected, Types, StoreTypes, RunTypes
  <1>4. CASE DispatcherStep
    BY <1>1, <1>4, DispatcherFrame DEF store
  <1>5. CASE PipelineStep
    BY <1>1, <1>5, PipelineFrame
  <1>6. CASE Crash \/ Announce \/ UNCHANGED vars
    BY <1>1, <1>6 DEF Crash, Announce, vars, store
  <1>. QED BY <1>2, <1>3, <1>4, <1>5, <1>6, StepSplit

LEMMA AlertsAreEvents ==
  ASSUME Types
  PROVE  \A e \in Alerts : e \in D!Events /\ e[2] \in Changes
  <1>1. Alerts \subseteq D!Events
    BY DEF Types, AlertTypes, Alerts
  <1>. QED BY <1>1, EventFacts

LEMMA EnqueueKeepsAlerts ==
  ASSUME Types, Enqueue
  PROVE  Alerts' \subseteq Alerts /\ (~closed => Alerts \subseteq Alerts')
  <1>1. caller[main] # None /\ caller'[main] = None
    BY DEF Enqueue, D!Enqueue, Types, AlertTypes
  <1>2. /\ accepted' \cup dropped' \subseteq accepted \cup dropped \cup {caller[main]}
        /\ ~closed => accepted \cup dropped \cup {caller[main]} \subseteq accepted' \cup dropped'
    BY DEF Enqueue, D!Enqueue
  <1>. QED BY <1>1, <1>2 DEF Alerts

LEMMA SenderFrame ==
  ASSUME NEW s \in Senders, SenderStep(s)
  PROVE  UNCHANGED <<batch, seen, caller, closed, flush, accepted, dropped, phase>>
  BY DEF SenderStep, D!WorkerStep, D!Take, D!Send, D!WorkerEnds

LEMMA EndFrame ==
  ASSUME EndRun \/ Exit
  PROVE  UNCHANGED <<batch, seen, caller, queue, hand, left, running, accepted, dropped, offered>>
  BY DEF EndRun, Exit, D!Flush, D!FlushReturns

LEMMA NoAlertsAtFirst ==
  ASSUME Start \/ Crash
  PROVE  Alerts' = {} /\ current' = None /\ seen' = {}
  BY DEF Start, Crash, NewDispatcher, Alerts

(* What Announce does to the dispatcher.                                    *)
LEMMA AnnounceDispatches ==
  ASSUME Types, AlertInv, Announce
  PROVE  /\ current \in Changes /\ IsOwn(current) /\ D!Dispatch(main, current)
         /\ UNCHANGED <<phase, saved, loaded>> /\ current' = None
  <1>1. current # None /\ current.old # current.new /\ IsOwn(current)
    BY DEF Announce, AlertInv
  <1>2. TransitionSeverity(current.old, current.new) # "NONE"
    BY <1>1 DEF TransitionSeverity
  <1>. QED BY <1>1, <1>2 DEF Announce, Types, RunTypes

LEMMA DispatchAlerts ==
  ASSUME Types, D!Dispatch(main, current), current \in Changes
  PROVE  /\ Alerts \subseteq Alerts' /\ Alerts' \subseteq Alerts \cup {<<batch, current>>}
         /\ seen \subseteq seen' /\ seen' \subseteq seen \cup {D!Identity(current)}
         /\ D!Identity(current) \in seen' \ seen /\ Notifiers # {} => <<batch, current>> \in Alerts'
         /\ D!Passes(current) => D!Identity(current) \in seen'
  <1>1. UNCHANGED <<accepted, dropped>> /\ caller[main] = None
    BY DEF D!Dispatch
  <1>2. <<batch, current>> # None
    BY EventFacts DEF Types, AlertTypes
  <1>3. CASE D!Passes(current) /\ D!Identity(current) \notin seen
    <2>1. seen' = seen \cup {D!Identity(current)}
      BY <1>3 DEF D!Dispatch
    <2>2. caller'[main] = IF Notifiers # {} THEN <<batch, current>> ELSE None
      BY <1>1, <1>3 DEF D!Dispatch, Types, AlertTypes
    <2>. QED BY <1>1, <1>2, <2>1, <2>2 DEF Alerts
  <1>4. CASE ~(D!Passes(current) /\ D!Identity(current) \notin seen)
    <2>1. UNCHANGED <<seen, caller>>
      BY <1>4 DEF D!Dispatch
    <2>. QED BY <1>1, <1>4, <2>1 DEF Alerts
  <1>. QED BY <1>3, <1>4

LEMMA AlertStep ==
  ASSUME Types, PlaceInv, SavedInv, AlertInv, [Next]_vars
  PROVE  AlertInv'
  <1>1. ASSUME UNCHANGED <<saved, loaded>>, current' \in {current, None}, Alerts' \subseteq Alerts
        PROVE  AlertInv'
    BY <1>1 DEF AlertInv, IsOwn
  <1>2. CASE DispatcherStep
    <2>1. Alerts' \subseteq Alerts
      BY <1>2, EnqueueKeepsAlerts, SenderFrame, EndFrame DEF DispatcherStep, Alerts
    <2>. QED BY <1>1, <1>2, <2>1, DispatcherFrame
  <1>3. CASE PipelineStep
    <2>1. Alerts' = Alerts
      BY <1>3, PipelineFrame DEF dispatcher, Alerts
    <2>. QED BY <1>1, <1>3, <2>1, PipelineFrame
  <1>4. CASE Start \/ Crash
    BY <1>4, NoAlertsAtFirst DEF AlertInv
  <1>5. CASE Announce
    <2>1. Alerts' \subseteq Alerts \cup {<<batch, current>>} /\ <<batch, current>>[2] = current
      BY <1>5, AnnounceDispatches, DispatchAlerts
    <2>. QED BY <1>5, <2>1, AnnounceDispatches DEF AlertInv, IsOwn
  <1>6. CASE Consume
    <2>1. Alerts' = Alerts /\ UNCHANGED loaded /\ current = None
      BY <1>6 DEF Consume, dispatcher, Alerts
    <2>2. PICK r \in results :
            \/ UNCHANGED <<saved, current>>
            \/ /\ r.result \in Found
               /\ saved' = [saved EXCEPT ![r.host] = r.result]
               /\ current' = IF r.result # loaded[r.host] THEN Change(r.host, loaded[r.host], r.result) ELSE None
      BY <1>6 DEF Consume
    <2>3. CASE UNCHANGED <<saved, current>>
      BY <1>1, <2>1, <2>3
    <2>4. ASSUME r.result \in Found, saved' = [saved EXCEPT ![r.host] = r.result],
                 current' = IF r.result # loaded[r.host] THEN Change(r.host, loaded[r.host], r.result) ELSE None
          PROVE  AlertInv'
      <3>1. r.host \in Hosts /\ loaded[r.host] \in Found /\ saved[r.host] = NoLevel
        BY DEF PlaceInv, AmongResults, Selected, Types, RunTypes
      <3>2. saved'[r.host] = r.result /\ \A h \in Hosts \ {r.host} : saved'[h] = saved[h]
        BY <2>4, <3>1 DEF Types, RunTypes
      <3>3. current' # None => IsOwn(current)' /\ current'.old # current'.new
        BY <2>1, <2>4, <3>1, <3>2, ChangeFacts DEF IsOwn
      <3>4. ASSUME NEW e \in Alerts PROVE IsOwn(e[2])'
        <4>1. e[2].host \in Hosts /\ IsOwn(e[2])
          BY AlertsAreEvents, EventFacts DEF AlertInv
        <4>2. e[2].host # r.host
          BY <3>1, <4>1, LevelFacts DEF IsOwn
        <4>. QED BY <2>1, <3>2, <4>1, <4>2 DEF IsOwn
      <3>. QED BY <2>1, <3>3, <3>4 DEF AlertInv
    <2>. QED BY <2>2, <2>3, <2>4
  <1>7. CASE UNCHANGED vars
    <2>1. Alerts' = Alerts
      BY <1>7 DEF vars, dispatcher, Alerts
    <2>. QED BY <1>1, <1>7, <2>1 DEF vars
  <1>. QED BY <1>2, <1>3, <1>4, <1>5, <1>6, <1>7, StepSplit

LEMMA PhaseStep ==
  ASSUME Types, PhaseInv, [Next]_vars
  PROVE  PhaseInv'
  <1>1. CASE UNCHANGED <<phase, closed, flush, current, caller, results, worker>>
    BY <1>1 DEF PhaseInv
  <1>2. CASE EndRun
    BY <1>2 DEF EndRun, D!Flush, PhaseInv, flow
  <1>3. CASE Exit
    BY <1>3 DEF Exit, D!FlushReturns, PhaseInv, flow
  <1>4. CASE Enqueue
    BY <1>4 DEF Enqueue, D!Enqueue, PhaseInv, flow
  <1>5. ASSUME NEW s \in Senders, SenderStep(s) PROVE PhaseInv'
    BY <1>1, <1>5, SenderFrame DEF SenderStep, flow
  <1>6. CASE PipelineStep
    <2>1. UNCHANGED <<phase, closed, flush, current, caller>>
      BY <1>6, PipelineFrame DEF dispatcher
    <2>2. phase = "run"
      BY <1>6 DEF PipelineStep, FeedStep, FeedEnds, Feed, Interrupt, VerifierStep, TakeHost, Examine, SaveSnapshot, SendResult
    <2>. QED BY <2>1, <2>2 DEF PhaseInv
  <1>7. CASE Start
    BY <1>7 DEF Start, NewDispatcher, PhaseInv
  <1>8. CASE Crash
    BY <1>8 DEF Crash, NewDispatcher, PhaseInv, Exited
  <1>9. CASE Consume
    BY <1>9 DEF Consume, dispatcher, PhaseInv
  <1>10. CASE Announce
    BY <1>10 DEF Announce, D!Dispatch, dispatcher, PhaseInv
  <1>11. CASE UNCHANGED vars
    BY <1>1, <1>11 DEF vars, flow, dispatcher
  <1>. QED BY <1>2, <1>3, <1>4, <1>5, <1>6, <1>7, <1>8, <1>9, <1>10, <1>11, StepSplit DEF DispatcherStep

-----------------------------------------------------------------------------
(* What was stored is announced.                                            *)

Stands(h) == Change(h, loaded[h], saved[h])
Due(h) == saved[h] \notin {NoLevel, loaded[h]} /\ D!Passes(Stands(h))

LEMMA NotedFrame ==
  ASSUME NotedInv, UNCHANGED <<seen, saved, loaded, current>>, phase' # "off" => phase # "off" /\ Alerts \subseteq Alerts'
  PROVE  NotedInv'
  BY DEF NotedInv

LEMMA StandsFacts ==
  ASSUME Types, SavedInv, NEW h \in Hosts, saved[h] # NoLevel
  PROVE  Stands(h) \in Changes /\ Stands(h).host = h /\ Stands(h) # None
  <1>1. saved[h] \in Found /\ loaded[h] \in Found
    BY DEF SavedInv, Selected, Types, RunTypes
  <1>. QED BY <1>1, ChangeFacts, EventFacts DEF Stands

LEMMA NotedStep ==
  ASSUME Types, PlaceInv, SavedInv, AlertInv, PhaseInv, NotedInv, [Next]_vars
  PROVE  NotedInv'
  <1>1. CASE EndRun \/ Exit
    <2>1. Alerts' = Alerts /\ UNCHANGED seen
      BY <1>1, EndFrame DEF Alerts
    <2>2. phase' # "off" => phase # "off"
      BY <1>1 DEF EndRun, Exit
    <2>3. DispatcherStep
      BY <1>1 DEF DispatcherStep
    <2>. QED BY <2>1, <2>2, <2>3, NotedFrame, DispatcherFrame
  <1>2. CASE Enqueue
    <2>1. ~closed /\ UNCHANGED <<seen, saved, loaded, current, phase>>
      BY <1>2 DEF Enqueue, D!Enqueue, PhaseInv
    <2>. QED BY <1>2, <2>1, EnqueueKeepsAlerts, NotedFrame
  <1>3. ASSUME NEW s \in Senders, SenderStep(s) PROVE NotedInv'
    <2>1. Alerts' = Alerts /\ UNCHANGED <<seen, phase>>
      BY <1>3, SenderFrame DEF Alerts
    <2>2. DispatcherStep
      BY <1>3 DEF DispatcherStep
    <2>. QED BY <2>1, <2>2, NotedFrame, DispatcherFrame
  <1>4. CASE PipelineStep
    <2>1. Alerts' = Alerts /\ UNCHANGED seen
      BY <1>4, PipelineFrame DEF dispatcher, Alerts
    <2>. QED BY <1>4, <2>1, PipelineFrame, NotedFrame
  <1>5. CASE Start
    <2>1. seen' = {} /\ saved' = Nobody
      BY <1>5 DEF Start, NewDispatcher
    <2>. QED BY <2>1 DEF NotedInv, Nobody
  <1>6. CASE Crash
    BY <1>6 DEF Crash, NotedInv
  <1>7. CASE Consume
    <2>1. Alerts' = Alerts /\ UNCHANGED <<loaded, seen, phase>> /\ current = None /\ phase = "run"
      BY <1>7 DEF Consume, dispatcher, Alerts
    <2>2. PICK r \in results :
            \/ UNCHANGED <<saved, current>>
            \/ /\ r.result \in Found
               /\ saved' = [saved EXCEPT ![r.host] = r.result]
               /\ current' = IF r.result # loaded[r.host] THEN Change(r.host, loaded[r.host], r.result) ELSE None
      BY <1>7 DEF Consume
    <2>3. CASE UNCHANGED <<saved, current>>
      BY <2>1, <2>3, NotedFrame
    <2>4. ASSUME saved' = [saved EXCEPT ![r.host] = r.result],
                 current' = IF r.result # loaded[r.host] THEN Change(r.host, loaded[r.host], r.result) ELSE None,
                 Notifiers # {}
          PROVE  NotedInv'
      <3>1. ASSUME NEW h \in Hosts, Due(h)' PROVE current' = Stands(h)' \/ D!Identity(Stands(h)') \in seen
        <4>1. CASE h = r.host
          <5>1. saved'[h] = r.result
            BY <2>4, <4>1 DEF Types, RunTypes
          <5>. QED BY <2>1, <2>4, <3>1, <4>1, <5>1 DEF Due, Stands
        <4>2. CASE h # r.host
          <5>1. saved'[h] = saved[h] /\ Stands(h)' = Stands(h) /\ Due(h)
            BY <2>1, <2>4, <3>1, <4>2 DEF Types, RunTypes, Due, Stands
          <5>2. Stands(h) # None
            BY <5>1, StandsFacts DEF Due
          <5>. QED BY <2>1, <2>4, <5>1, <5>2 DEF NotedInv, Due, Stands
        <4>. QED BY <4>1, <4>2
      <3>. QED BY <2>1, <2>4, <3>1 DEF NotedInv, Due, Stands
    <2>. QED BY <2>1, <2>2, <2>3, <2>4 DEF NotedInv
  <1>8. CASE Announce
    <2>1. /\ current \in Changes /\ UNCHANGED <<phase, saved, loaded>> /\ current' = None
          /\ D!Dispatch(main, current)
      BY <1>8, AnnounceDispatches
    <2>2. ASSUME phase # "off", Notifiers # {} PROVE \A i \in seen' : \E e \in Alerts' : D!Identity(e[2]) = i
      <3>1. <<batch, current>>[2] = current
        OBVIOUS
      <3>. QED BY <2>1, <2>2, <3>1, DispatchAlerts DEF NotedInv
    <2>3. ASSUME phase # "off", Notifiers # {}, NEW h \in Hosts, Due(h)
          PROVE  D!Identity(Stands(h)) \in seen'
      <3>1. current = Stands(h) \/ D!Identity(Stands(h)) \in seen
        BY <2>3 DEF NotedInv, Due, Stands
      <3>2. CASE current = Stands(h)
        BY <2>1, <2>3, <3>2, DispatchAlerts DEF Due
      <3>. QED BY <2>1, <3>1, <3>2, DispatchAlerts
    <2>. QED BY <2>1, <2>2, <2>3 DEF NotedInv, Due, Stands
  <1>9. CASE UNCHANGED vars
    <2>1. Alerts' = Alerts /\ UNCHANGED <<seen, saved, loaded, current, phase>>
      BY <1>9 DEF vars, dispatcher, Alerts
    <2>. QED BY <2>1, NotedFrame
  <1>. QED BY <1>1, <1>2, <1>3, <1>4, <1>5, <1>6, <1>7, <1>8, <1>9, StepSplit DEF DispatcherStep

-----------------------------------------------------------------------------
(* What was accepted is delivered.                                          *)

LEMMA DeliverStep ==
  ASSUME Types, PhaseInv, DeliverInv, [Next]_vars
  PROVE  DeliverInv'
  <1>1. CASE UNCHANGED <<queue, closed, hand, left, running, accepted, flush, offered>>
    BY <1>1 DEF DeliverInv
  <1>2. CASE EndRun
    BY <1>2 DEF EndRun, D!Flush, DeliverInv
  <1>3. CASE Exit
    BY <1>3 DEF Exit, D!FlushReturns, DeliverInv
  <1>4. CASE Enqueue
    <2>1. ~closed
      BY <1>4 DEF Enqueue, PhaseInv
    <2>2. /\ UNCHANGED <<closed, hand, left, running, flush, offered>>
          /\ queue \subseteq queue' /\ \A e \in accepted' : e \in accepted \/ e \in queue'
      BY <1>4 DEF Enqueue, D!Enqueue
    <2>. QED BY <2>1, <2>2 DEF DeliverInv
  <1>5. ASSUME NEW s \in Senders, SenderStep(s) PROVE DeliverInv'
    <2>1. UNCHANGED <<accepted, closed, flush>>
      BY <1>5, SenderFrame
    <2>2. CASE D!Take(s)
      <3>1. PICK e \in queue : /\ queue' = queue \ {e}
                               /\ hand' = [hand EXCEPT ![s] = e] /\ left' = [left EXCEPT ![s] = Notifiers]
        BY <2>2 DEF D!Take
      <3>2. s \in running /\ hand[s] = None /\ UNCHANGED <<running, offered>>
        BY <2>2 DEF D!Take
      <3>3. /\ hand'[s] = e /\ left'[s] = Notifiers
            /\ \A t \in Senders \ {s} : hand'[t] = hand[t] /\ left'[t] = left[t]
        BY <3>1 DEF Types, SenderTypes
      <3>4. \A t \in Senders : hand'[t] # None => \A n \in Notifiers : n \in left'[t] \/ <<hand'[t], n>> \in offered'
        BY <3>2, <3>3 DEF DeliverInv
      <3>5. e # None
        BY EventFacts DEF Types, SenderTypes
      <3>6. ASSUME NEW f \in accepted
            PROVE  f \in queue' \/ (\E t \in Senders : hand'[t] = f) \/ \A n \in Notifiers : <<f, n>> \in offered'
        <4>1. CASE f = e
          BY <3>3, <4>1
        <4>2. ASSUME NEW t \in Senders, hand[t] = f PROVE hand'[t] = f
          <5>1. f # None
            BY EventFacts DEF Types, AlertTypes
          <5>. QED BY <3>2, <3>3, <4>2, <5>1
        <4>. QED BY <3>1, <3>2, <4>1, <4>2 DEF DeliverInv
      <3>7. \A t \in Senders \ running' : hand'[t] = None /\ queue' = {} /\ closed'
        BY <2>1, <3>1, <3>2, <3>3 DEF DeliverInv
      <3>. QED BY <2>1, <3>2, <3>4, <3>6, <3>7 DEF DeliverInv
    <2>3. CASE D!Send(s)
      <3>1. PICK n \in left[s] : /\ offered' = offered \cup {<<hand[s], n>>}
                                 /\ left' = [left EXCEPT ![s] = @ \ {n}]
                                 /\ hand' = IF left[s] = {n} THEN [hand EXCEPT ![s] = None] ELSE hand
        BY <2>3 DEF D!Send
      <3>2. hand[s] # None /\ UNCHANGED <<queue, running>>
        BY <2>3 DEF D!Send
      <3>3. /\ left'[s] = left[s] \ {n}
            /\ hand'[s] = IF left[s] = {n} THEN None ELSE hand[s]
            /\ \A t \in Senders \ {s} : hand'[t] = hand[t] /\ left'[t] = left[t]
        BY <3>1 DEF Types, SenderTypes
      <3>4. \A m \in Notifiers : m \in left'[s] \/ <<hand[s], m>> \in offered'
        BY <3>1, <3>2, <3>3 DEF DeliverInv
      <3>5. \A t \in Senders : hand'[t] # None => \A m \in Notifiers : m \in left'[t] \/ <<hand'[t], m>> \in offered'
        BY <3>1, <3>3, <3>4 DEF DeliverInv
      <3>6. ASSUME NEW f \in accepted
            PROVE  f \in queue' \/ (\E t \in Senders : hand'[t] = f) \/ \A m \in Notifiers : <<f, m>> \in offered'
        <4>1. CASE f = hand[s]
          BY <3>3, <3>4, <4>1
        <4>2. CASE f # hand[s]
          BY <3>1, <3>2, <3>3, <4>2 DEF DeliverInv
        <4>. QED BY <4>1, <4>2
      <3>7. \A t \in Senders \ running' : hand'[t] = None /\ queue' = {} /\ closed'
        BY <2>1, <3>2, <3>3 DEF DeliverInv
      <3>. QED BY <2>1, <3>2, <3>5, <3>6, <3>7 DEF DeliverInv
    <2>4. CASE D!WorkerEnds(s)
      BY <2>1, <2>4 DEF D!WorkerEnds, DeliverInv
    <2>. QED BY <1>5, <2>2, <2>3, <2>4 DEF SenderStep, D!WorkerStep
  <1>6. CASE Start \/ Crash
    BY <1>6 DEF Start, Crash, NewDispatcher, DeliverInv
  <1>7. CASE PipelineStep
    BY <1>1, <1>7, PipelineFrame DEF dispatcher
  <1>8. CASE Announce
    BY <1>1, <1>8 DEF Announce, D!Dispatch, dispatcher
  <1>9. CASE Consume \/ UNCHANGED vars
    BY <1>1, <1>9 DEF Consume, vars, dispatcher
  <1>. QED BY <1>2, <1>3, <1>4, <1>5, <1>6, <1>7, <1>8, <1>9, StepSplit DEF DispatcherStep

-----------------------------------------------------------------------------
(* The timeline.                                                            *)

LEMMA AppendLast ==
  ASSUME NEW S, NEW s \in Seq(S), NEW e \in S
  PROVE  Append(s, e) # <<>> /\ Append(s, e)[Len(Append(s, e))] = e
  OBVIOUS

LEMMA LastFacts ==
  ASSUME Types, NEW h \in Hosts, timeline[h] # <<>>
  PROVE  LastOf(h)[1] \in 1 .. MaxRuns /\ LastOf(h)[2] \in Found
  <1>1. timeline[h] \in Seq((1 .. MaxRuns) \X Found)
    BY DEF Types, StoreTypes
  <1>2. Len(timeline[h]) \in 1 .. Len(timeline[h])
    BY <1>1
  <1>3. timeline[h][Len(timeline[h])] \in (1 .. MaxRuns) \X Found
    BY <1>1, <1>2
  <1>. QED BY <1>3 DEF LastOf

Watched == ~errors /\ ~interrupted /\ (phase # "off" \/ flush = "returned")

LEMMA TimeFrame ==
  ASSUME TimeInv, UNCHANGED <<timeline, run, worker, results, saved>>, Watched' => Watched
  PROVE  TimeInv'
  <1>1. \A h \in Hosts : LastOf(h)' = LastOf(h) /\ Settles(h)' = Settles(h)
    BY DEF LastOf, Settles
  <1>. QED BY <1>1 DEF TimeInv, Watched

LEMMA TimeConsume ==
  ASSUME Types, PlaceInv, TimeInv, Consume
  PROVE  TimeInv'
  <1>1. UNCHANGED <<timeline, run, worker, phase, interrupted, flush>>
    BY DEF Consume, dispatcher
  <1>2. \A h \in Hosts : LastOf(h)' = LastOf(h)
    BY <1>1 DEF LastOf
  <1>3. PICK r \in results :
          /\ results' = results \ {r}
          /\ \/ r.result \notin Found /\ UNCHANGED <<saved, errors>>
             \/ errors' = TRUE
             \/ /\ r.result \in Found /\ UNCHANGED errors
                /\ saved' = [saved EXCEPT ![r.host] = r.result]
    BY DEF Consume
  <1>4. ASSUME ~errors', NEW h \in Hosts, timeline[h] # <<>>, Settles(h)
        PROVE  Settles(h)'
    <2>1. LastOf(h)[2] \in Found /\ LastOf(h)[2] # NoLevel
      BY <1>4, LastFacts, LevelFacts
    <2>2. ASSUME NEW q \in results, q # r, q.host = h, q.result = LastOf(h)[2]
          PROVE  Settles(h)'
      BY <1>2, <1>3, <2>2 DEF Settles
    <2>3. ASSUME NEW w \in Verifiers, worker[w].at = "send", worker[w].host = h, worker[w].result = LastOf(h)[2]
          PROVE  Settles(h)'
      BY <1>1, <1>2, <2>3 DEF Settles
    <2>4. CASE r.host = h /\ r.result = LastOf(h)[2]
      <3>1. saved'[h] = LastOf(h)[2]
        BY <1>3, <1>4, <2>1, <2>4 DEF Types, RunTypes
      <3>. QED BY <1>2, <3>1 DEF Settles
    <2>5. CASE LastOf(h)[2] = saved[h]
      <3>1. r.host # h
        BY <2>1, <2>5 DEF PlaceInv, AmongResults
      <3>2. saved'[h] = saved[h]
        BY <1>3, <1>4, <3>1 DEF Types, RunTypes
      <3>. QED BY <1>2, <2>5, <3>2 DEF Settles
    <2>. QED BY <1>4, <2>2, <2>3, <2>4, <2>5 DEF Settles
  <1>5. errors' = TRUE \/ errors' = errors
    BY <1>3
  <1>6. ASSUME ~errors' PROVE ~errors
    BY <1>5, <1>6
  <1>. QED BY <1>1, <1>2, <1>4, <1>6 DEF TimeInv

LEMMA TimeVerifier ==
  ASSUME Types, PlaceInv, TimeInv, NEW w \in Verifiers, VerifierStep(w)
  PROVE  TimeInv'
  <1>1. UNCHANGED <<run, phase, saved, errors, interrupted, flush>>
    BY VerifierFrame DEF dispatcher
  <1>2. ASSUME UNCHANGED timeline, results \subseteq results',
               \A v \in Verifiers : worker[v].at = "send" =>
                 \/ worker'[v] = worker[v]
                 \/ [host |-> worker[v].host, result |-> worker[v].result] \in results'
        PROVE  TimeInv'
    <2>1. \A h \in Hosts : LastOf(h)' = LastOf(h)
      BY <1>2 DEF LastOf
    <2>2. ASSUME NEW h \in Hosts, Settles(h) PROVE Settles(h)'
      <3>1. ASSUME NEW v \in Verifiers, worker[v].at = "send", worker[v].host = h, worker[v].result = LastOf(h)[2]
            PROVE  Settles(h)'
        <4>1. CASE worker'[v] = worker[v]
          BY <2>1, <3>1, <4>1 DEF Settles
        <4>2. CASE [host |-> worker[v].host, result |-> worker[v].result] \in results'
          <5>1. [host |-> h, result |-> LastOf(h)[2]] \in results'
            BY <3>1, <4>2
          <5>. QED BY <2>1, <5>1 DEF Settles
        <4>. QED BY <1>2, <3>1, <4>1, <4>2
      <3>2. CASE LastOf(h)[2] = saved[h]
        BY <1>1, <2>1, <3>2 DEF Settles
      <3>3. CASE \E r \in results : r.host = h /\ r.result = LastOf(h)[2]
        BY <1>2, <2>1, <3>3 DEF Settles
      <3>. QED BY <2>2, <3>1, <3>2, <3>3 DEF Settles
    <2>. QED BY <1>1, <1>2, <2>1, <2>2 DEF TimeInv
  <1>3. \A v \in Verifiers \ {w} : worker'[v] = worker[v]
    BY DEF VerifierStep, TakeHost, Examine, SaveSnapshot, SendResult, Types, FlowTypes
  <1>4. CASE TakeHost(w) \/ Examine(w)
    <2>1. UNCHANGED <<timeline, results>> /\ worker[w].at # "send"
      BY <1>4, ZenonT(60) DEF TakeHost, Examine, store
    <2>. QED BY <1>2, <1>3, <2>1
  <1>5. CASE SaveSnapshot(w)
    <2>1. UNCHANGED results /\ worker[w].at = "snapshot"
      BY <1>5 DEF SaveSnapshot
    <2>2. CASE UNCHANGED timeline
      BY <1>2, <1>3, <2>1, <2>2
    <2>3. CASE /\ timeline' = [timeline EXCEPT ![worker[w].host] = Append(@, <<run, worker[w].result>>)]
               /\ worker' = [worker EXCEPT ![w] = [at |-> "send", host |-> worker[w].host, result |-> worker[w].result]]
      <3>1. PICK k \in Hosts, l \in Found : k = worker[w].host /\ l = worker[w].result
        BY <2>1 DEF PlaceInv, InHands, Holds, Selected
      <3>2. phase = "run" /\ run \in 1 .. MaxRuns
        BY <1>5 DEF SaveSnapshot, Types, RunTypes
      <3>3. timeline'[k] = Append(timeline[k], <<run, l>>)
        BY <2>3, <3>1 DEF Types, StoreTypes
      <3>4. timeline[k] \in Seq((1 .. MaxRuns) \X Found) /\ <<run, l>> \in (1 .. MaxRuns) \X Found
        BY <3>2 DEF Types, StoreTypes
      <3>5. LastOf(k)' = <<run, l>>
        <4>1. /\ Append(timeline[k], <<run, l>>)[Len(Append(timeline[k], <<run, l>>))] = <<run, l>>
          BY <3>4, AppendLast
        <4>. QED BY <3>3, <4>1 DEF LastOf
      <3>6. worker'[w].at = "send" /\ worker'[w].host = k /\ worker'[w].result = l
        BY <2>3, <3>1 DEF Types, FlowTypes
      <3>7. Settles(k)' /\ LastOf(k)'[1] <= run
        BY <3>2, <3>5, <3>6 DEF Settles
      <3>8. ASSUME NEW h \in Hosts, h # k
            PROVE  timeline'[h] = timeline[h] /\ LastOf(h)' = LastOf(h) /\ (Settles(h) => Settles(h)')
        <4>1. timeline'[h] = timeline[h]
          BY <2>3, <3>1, <3>8 DEF Types, StoreTypes
        <4>2. LastOf(h)' = LastOf(h)
          BY <4>1 DEF LastOf
        <4>3. \A v \in Verifiers : worker[v].at = "send" => worker'[v] = worker[v]
          BY <1>3, <2>1
        <4>. QED BY <1>1, <2>1, <4>1, <4>2, <4>3 DEF Settles
      <3>9. \A h \in Hosts : timeline'[h] # <<>> => LastOf(h)'[1] <= run'
        BY <1>1, <3>7, <3>8 DEF TimeInv
      <3>10. ASSUME Watched', NEW h \in Hosts, timeline'[h] # <<>>, LastOf(h)'[1] = run'
             PROVE  Settles(h)'
        <4>1. CASE h = k
          BY <3>7, <4>1
        <4>2. CASE h # k
          <5>1. Watched /\ timeline[h] # <<>> /\ LastOf(h)[1] = run
            BY <1>1, <3>8, <3>10, <4>2 DEF Watched
          <5>. QED BY <3>8, <4>2, <5>1 DEF TimeInv, Watched
        <4>. QED BY <4>1, <4>2
      <3>. QED BY <3>9, <3>10 DEF TimeInv, Watched
    <2>. QED BY <1>5, <2>2, <2>3 DEF SaveSnapshot
  <1>6. CASE SendResult(w)
    <2>1. UNCHANGED timeline
      BY <1>6 DEF SendResult, store
    <2>2. CASE results' = results \cup {[host |-> worker[w].host, result |-> worker[w].result]}
      BY <1>2, <1>3, <2>1, <2>2
    <2>3. CASE interrupted
      <3>1. \A h \in Hosts : LastOf(h)' = LastOf(h)
        BY <2>1 DEF LastOf
      <3>. QED BY <1>1, <2>1, <2>3, <3>1 DEF TimeInv
    <2>. QED BY <1>6, <2>2, <2>3 DEF SendResult
  <1>. QED BY <1>4, <1>5, <1>6 DEF VerifierStep

LEMMA TimeStep ==
  ASSUME Types, PlaceInv, TimeInv, [Next]_vars
  PROVE  TimeInv'
  <1>1. CASE DispatcherStep
    <2>1. UNCHANGED <<timeline, run, worker, results, saved, errors, interrupted>>
      BY <1>1, DispatcherFrame DEF store, flow
    <2>2. phase # "off"
      BY <1>1 DEF DispatcherStep, EndRun, Exit, Enqueue, SenderStep
    <2>. QED BY <2>1, <2>2, TimeFrame DEF Watched
  <1>2. CASE FeedStep
    <2>1. UNCHANGED <<timeline, run, worker, results, saved, errors, interrupted, phase, flush>>
      BY <1>2 DEF FeedStep, FeedEnds, Feed, store, dispatcher
    <2>. QED BY <2>1, TimeFrame DEF Watched
  <1>3. CASE Interrupt
    <2>1. UNCHANGED <<timeline, run, worker, results, saved>> /\ interrupted' = TRUE
      BY <1>3 DEF Interrupt, store, flow
    <2>. QED BY <2>1, TimeFrame DEF Watched
  <1>4. CASE Start
    <2>1. UNCHANGED timeline /\ run' = run + 1
      BY <1>4 DEF Start, store
    <2>2. \A h \in Hosts : LastOf(h)' = LastOf(h)
      BY <2>1 DEF LastOf
    <2>3. ASSUME NEW h \in Hosts, timeline[h] # <<>> PROVE LastOf(h)[1] <= run' /\ LastOf(h)[1] # run'
      <3>1. LastOf(h)[1] \in 1 .. MaxRuns /\ LastOf(h)[1] <= run /\ run \in 0 .. MaxRuns
        BY <2>3, LastFacts DEF TimeInv, Types, RunTypes
      <3>. QED BY <2>1, <3>1, VerifyAssumption
    <2>. QED BY <2>1, <2>2, <2>3 DEF TimeInv
  <1>5. CASE Crash
    <2>1. UNCHANGED <<timeline, run>> /\ phase' = "off" /\ flush' = "no"
      BY <1>5 DEF Crash, NewDispatcher, store
    <2>2. \A h \in Hosts : LastOf(h)' = LastOf(h)
      BY <2>1 DEF LastOf
    <2>. QED BY <2>1, <2>2 DEF TimeInv
  <1>6. CASE Announce
    <2>1. UNCHANGED <<timeline, run, worker, results, saved, errors, interrupted, phase, flush>>
      BY <1>6 DEF Announce, D!Dispatch, store, flow, dispatcher
    <2>. QED BY <2>1, TimeFrame DEF Watched
  <1>7. CASE UNCHANGED vars
    <2>1. UNCHANGED <<timeline, run, worker, results, saved, errors, interrupted, phase, flush>>
      BY <1>7 DEF vars, store, flow, dispatcher
    <2>. QED BY <2>1, TimeFrame DEF Watched
  <1>. QED BY <1>1, <1>2, <1>3, <1>4, <1>5, <1>6, <1>7, TimeConsume, TimeVerifier, StepSplit DEF PipelineStep

-----------------------------------------------------------------------------
(* The theorems.                                                            *)

LEMMA InitInv == Init => Inv
  <1> SUFFICES ASSUME Init PROVE Inv
    OBVIOUS
  <1>1. Types
    BY InitTypes
  <1>2. Alerts = {}
    BY DEF Init, D!DispatcherInit, Alerts
  <1>3. \A w \in Verifiers : worker[w].at = "exited"
    BY DEF Init, Exited
  <1>4. saved = Nobody /\ todo = {} /\ channel = {} /\ results = {} /\ current = None /\ phase = "off"
    BY DEF Init
  <1>5. PlaceInv
    BY <1>3, <1>4 DEF PlaceInv, InHands, AmongResults, WithProducer, Holds, Sent
  <1>6. SavedInv
    BY <1>4 DEF SavedInv, Nobody
  <1>7. AlertInv /\ PhaseInv /\ NotedInv
    BY <1>2, <1>3, <1>4 DEF AlertInv, PhaseInv, NotedInv
  <1>8. DeliverInv
    BY DEF Init, D!DispatcherInit, DeliverInv
  <1>9. timeline = [h \in Hosts |-> <<>>]
    BY DEF Init
  <1>10. TimeInv
    BY <1>9 DEF TimeInv
  <1>. QED BY <1>1, <1>5, <1>6, <1>7, <1>8, <1>10 DEF Inv

LEMMA NextInv ==
  ASSUME Inv, [Next]_vars
  PROVE  Inv'
  <1>1. Types'
    BY StoreTypesStep, RunTypesStep, FlagTypesStep, FlowTypesStep, SenderTypesStep, AlertTypesStep
       DEF Inv, PlaceInv, Types
  <1>2. PlaceInv' /\ SavedInv' /\ AlertInv'
    BY PlaceStep, SavedStep, AlertStep DEF Inv
  <1>3. PhaseInv' /\ NotedInv'
    BY PhaseStep, NotedStep DEF Inv
  <1>4. DeliverInv' /\ TimeInv'
    BY DeliverStep, TimeStep DEF Inv
  <1>. QED BY <1>1, <1>2, <1>3, <1>4 DEF Inv

(* A host of a run is at one place, what main announces it has stored, what *)
(* is stored is noted, what is accepted is delivered, and the timeline is   *)
(* what was or will be stored: the invariant the theorems below rest on.    *)
THEOREM Invariance == Spec => []Inv
  BY InitInv, NextInv, PTL DEF Spec

(* The variables of the verification run and of its dispatcher keep their   *)
(* types.                                                                   *)
THEOREM TypesHold == Spec => []TypeOK
  <1>1. Inv => TypeOK
    <2> SUFFICES ASSUME Inv PROVE TypeOK
      OBVIOUS
    <2>1. D!DispatcherTypeOK
      <3>1. batch \in 1 .. 1
        BY DEF Inv, Types, AlertTypes
      <3>2. closed \in BOOLEAN
        BY Zenon DEF Inv, Types, AlertTypes
      <3>. QED BY <3>1, <3>2 DEF Inv, Types, AlertTypes, SenderTypes, D!DispatcherTypeOK
    <2>2. StoreTypes /\ RunTypes /\ FlowTypes
      BY DEF Inv, Types
    <2>3. errors \in BOOLEAN /\ interrupted \in BOOLEAN /\ fed \in BOOLEAN
      BY Zenon DEF Inv, Types, FlagTypes
    <2>. QED BY <2>1, <2>2, <2>3 DEF StoreTypes, RunTypes, FlowTypes, Workers, TypeOK
  <1>. QED BY <1>1, Invariance, PTL

(* Nothing is announced that was not stored first: a notification says what *)
(* the next run will start from.                                            *)
THEOREM AnnouncedIsStored == Spec => []AlertIsStored
  <1>1. Inv => AlertIsStored
    <2> SUFFICES ASSUME Inv, NEW e \in Alerts
                 PROVE  stored[e[2].host] = e[2].new /\ loaded[e[2].host] = e[2].old
      BY DEF AlertIsStored
    <2>1. e[2].host \in Hosts
      BY AlertsAreEvents, EventFacts DEF Inv
    <2>2. IsOwn(e[2])
      BY DEF Inv, AlertInv
    <2>3. saved[e[2].host] \in Found /\ saved[e[2].host] # NoLevel
      BY <2>2, LevelFacts DEF IsOwn
    <2>4. stored[e[2].host] = saved[e[2].host] /\ loaded[e[2].host] \in Found
      BY <2>1, <2>3 DEF Inv, SavedInv, Selected, Types, RunTypes
    <2>5. e[2].new = saved[e[2].host] /\ e[2].old = loaded[e[2].host]
      BY <2>1, <2>2, <2>3, <2>4, ChangeFacts DEF IsOwn
    <2>. QED BY <2>4, <2>5
  <1>. QED BY <1>1, Invariance, PTL

(* When main is done with the results, interrupted or not, every change it  *)
(* stored that passes the filters was queued or met a full queue, itself or *)
(* as another host's with the same identity.                                *)
THEOREM StoredIsAnnounced == Spec => []ChangeIsAnnounced
  <1>1. Inv => ChangeIsAnnounced
    <2> SUFFICES ASSUME Inv, phase = "flush", NEW h \in Selected,
                        saved[h] \notin {NoLevel, loaded[h]}, Notifiers # {}, D!Passes(Stands(h))
                 PROVE  \E e \in accepted \cup dropped : D!Identity(e[2]) = D!Identity(Stands(h))
      BY DEF ChangeIsAnnounced, Stands
    <2>1. h \in Hosts /\ Due(h)
      BY DEF Selected, Due
    <2>2. current = None /\ caller[main] = None
      BY DEF Inv, PhaseInv
    <2>3. Stands(h) # None
      BY <2>1, StandsFacts DEF Inv, Due
    <2>4. D!Identity(Stands(h)) \in seen
      BY <2>1, <2>2, <2>3 DEF Inv, NotedInv, Due, Stands
    <2>5. PICK e \in Alerts : D!Identity(e[2]) = D!Identity(Stands(h))
      BY <2>4 DEF Inv, NotedInv
    <2>6. e \in accepted \cup dropped
      BY <2>2 DEF Alerts
    <2>. QED BY <2>5, <2>6
  <1>. QED BY <1>1, Invariance, PTL

(* When a run that returns no error and was not interrupted is over, the    *)
(* timeline ends where the store does for every host of it that changed,    *)
(* and everything queued was offered to every notifier.                     *)
THEOREM CleanRunsAgree == Spec => []CleanRunAgrees
  <1>1. Inv => CleanRunAgrees
    <2> SUFFICES ASSUME Inv, phase = "off", flush = "returned", ~errors, ~interrupted PROVE
          /\ \A h \in Hosts : timeline[h] # <<>> /\ LastOf(h)[1] = run => LastOf(h)[2] = stored[h]
          /\ \A e \in accepted, n \in Notifiers : <<e, n>> \in offered
      BY DEF CleanRunAgrees
    <2>1. results = {} /\ \A w \in Verifiers : worker[w].at = "exited"
      BY DEF Inv, PhaseInv
    <2>2. ASSUME NEW h \in Hosts, timeline[h] # <<>>, LastOf(h)[1] = run PROVE LastOf(h)[2] = stored[h]
      <3>1. LastOf(h)[2] = saved[h]
        BY <2>1, <2>2 DEF Inv, TimeInv, Settles
      <3>2. saved[h] # NoLevel
        BY <2>2, <3>1, LastFacts, LevelFacts DEF Inv
      <3>. QED BY <3>1, <3>2 DEF Inv, SavedInv
    <2>3. \A s \in Senders : hand[s] = None /\ queue = {}
      BY DEF Inv, DeliverInv
    <2>4. queue = {}
      BY <2>3, VerifyAssumption
    <2>5. ASSUME NEW e \in accepted PROVE \A n \in Notifiers : <<e, n>> \in offered
      <3>1. e # None
        BY EventFacts DEF Inv, Types, AlertTypes
      <3>. QED BY <2>3, <2>4, <3>1 DEF Inv, DeliverInv
    <2>. QED BY <2>2, <2>5
  <1>. QED BY <1>1, Invariance, PTL
=============================================================================
