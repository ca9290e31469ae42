--------------------------- MODULE ScanRunProofs ---------------------------
(***************************************************************************)
(* Proofs about ScanRun, for every set of hosts, every certificate and      *)
(* every bound.                                                             *)
(***************************************************************************)
EXTENDS ScanRun, FiniteSetTheorems, TLAPS

-----------------------------------------------------------------------------
(* Cardinalities of sets of hosts.                                          *)

LEMMA HostsFinite == \A S \in SUBSET Hosts : IsFiniteSet(S) /\ Cardinality(S) \in Nat
  <1>1. IsFiniteSet(Hosts)
    BY ScanAssumption, FS_Union DEF Hosts
  <1> QED
    BY <1>1, FS_Subset, FS_CardinalityType

(* Hosts that are not among the old ones add up with them.                  *)
LEMMA DisjointAdd ==
  ASSUME NEW old \in SUBSET Hosts, NEW added \in SUBSET Hosts, old \cap added = {}
  PROVE  Cardinality(old \cup added) = Cardinality(old) + Cardinality(added)
  <1>1. IsFiniteSet(old) /\ IsFiniteSet(added) /\ Cardinality(old) \in Nat /\ Cardinality(added) \in Nat
    BY HostsFinite
  <1>2. Cardinality(old \cup added) = Cardinality(old) + Cardinality(added) - Cardinality(old \cap added)
    BY <1>1, FS_Union
  <1>3. Cardinality(old \cap added) = 0
    BY FS_EmptySet
  <1> QED
    BY <1>1, <1>2, <1>3

(* What queueSANs offers is new, and within what is left of the limit.      *)
LEMMA QueueWithinLimit ==
  ASSUME TypeOK, pivoted <= MaxPivot, NEW h \in Hosts,
         NEW queued \in (IF outcome[h] = "DONE" THEN QueueSANs(h) ELSE {{}})
  PROVE  /\ queued \in SUBSET Hosts
         /\ queued \cap seen = {}
         /\ Cardinality(queued) \in Nat
         /\ pivoted + Cardinality(queued) <= MaxPivot
  <1>1. CASE outcome[h] # "DONE"
    <2>1. queued = {} /\ Cardinality({}) = 0
      BY <1>1, FS_EmptySet
    <2> QED
      BY <2>1, ScanAssumption DEF TypeOK
  <1>2. CASE outcome[h] = "DONE"
    <2> DEFINE new == Certificate[h] \ seen
    <2>1. queued \in SUBSET new /\ Cardinality(queued) = Least(Cardinality(new), MaxPivot - pivoted)
      BY <1>2 DEF QueueSANs
    <2>2. new \in SUBSET Hosts
      BY ScanAssumption
    <2>3. Cardinality(new) \in Nat /\ Cardinality(queued) \in Nat
      BY <2>1, <2>2, HostsFinite
    <2> QED
      BY <2>1, <2>2, <2>3, ScanAssumption DEF Least, TypeOK
  <1> QED
    BY <1>1, <1>2

-----------------------------------------------------------------------------
(* Types.                                                                   *)

LEMMA TypeInit == Init => TypeOK
  <1>1. MaxFaults \in Nat
    BY ScanAssumption
  <1>2. Init => target \in [Hosts -> {"none"} \cup Outcomes]
    BY DEF Init
  <1>3. Init => pc \in [Hosts -> {"idle", "done"} \cup Steps]
    BY DEF Init
  <1>4. Init => outcome \in [Hosts -> Outcomes]
    BY DEF Init, Outcomes
  <1>5. Init => /\ aggressive \in BOOLEAN /\ session \in BOOLEAN
                /\ interrupted \in BOOLEAN /\ fatal \in BOOLEAN
    BY DEF Init
  <1>6. Init => status = "none" /\ phase = "off" /\ tally \in Nat /\ pivoted \in Nat /\ faults \in 0 .. MaxFaults
    BY <1>1 DEF Init
  <1>7. Init => /\ saved = {} /\ observed = {} /\ unread = {} /\ batch = {} /\ pending = {}
                /\ next = {} /\ seen = {} /\ unsafe = {} /\ reported = {} /\ unmarked = {}
    BY DEF Init
  <1> QED
    BY <1>2, <1>3, <1>4, <1>5, <1>6, <1>7 DEF TypeOK

LEMMA TypeBegin ==
  ASSUME TypeOK, NEW hosts \in SUBSET Hosts, BeginBatch(hosts)
  PROVE  /\ phase' \in {"off", "reading", "round"}
         /\ fatal' \in BOOLEAN
         /\ batch' \subseteq Hosts /\ pending' \subseteq Hosts
         /\ next' \subseteq Hosts /\ seen' \subseteq Hosts
         /\ pivoted' \in Nat
         /\ pc' \in [Hosts -> {"idle", "done"} \cup Steps]
         /\ outcome' \in [Hosts -> Outcomes]
         /\ unsafe' \subseteq Hosts /\ reported' \subseteq Hosts
  BY DEF BeginBatch, Outcomes, Steps

LEMMA TypeRegister ==
  ASSUME TypeOK, NEW hosts \in SUBSET Hosts, Register(hosts)
  PROVE  target' \in [Hosts -> {"none"} \cup Outcomes]
  BY DEF TypeOK, Register, Outcomes

LEMMA TypeStart == TypeOK /\ StartScan => TypeOK'
  <1> SUFFICES ASSUME TypeOK, StartScan PROVE TypeOK'
    OBVIOUS
  <1>1. PICK mode \in Modes : \E b \in SUBSET Inputs :
          /\ aggressive' = (mode = "aggressive") /\ session' = (mode = "stream")
          /\ Register(b) /\ BeginBatch(b) /\ unread' = Inputs \ b
    BY DEF StartScan, StreamBatches
  <1>2. PICK b \in SUBSET Inputs : Register(b) /\ BeginBatch(b) /\ unread' = Inputs \ b
    BY <1>1
  <1>3. b \in SUBSET Hosts
    BY DEF Hosts
  <1>4. aggressive' \in BOOLEAN /\ session' \in BOOLEAN
    BY <1>1
  <1> QED
    BY <1>2, <1>3, <1>4, TypeBegin, TypeRegister DEF TypeOK, StartScan

LEMMA TypeResume == TypeOK /\ Resume => TypeOK'
  <1> SUFFICES ASSUME TypeOK, Resume PROVE TypeOK'
    OBVIOUS
  <1>1. Pending \in SUBSET Hosts /\ BeginBatch(Pending)
    BY DEF Resume, Pending
  <1> QED
    BY <1>1, TypeBegin DEF TypeOK, Resume, database

LEMMA TypeStream == TypeOK /\ (StreamBatch \/ StreamEnd) => TypeOK'
  <1> SUFFICES ASSUME TypeOK, StreamBatch \/ StreamEnd PROVE TypeOK'
    OBVIOUS
  <1>1. CASE StreamEnd
    BY <1>1, ScanAssumption DEF TypeOK, StreamEnd, Finish, Fault, NoFault, stop, work
  <1>2. CASE StreamBatch
    <2>1. PICK b \in StreamBatches(unread) :
       \/ /\ ~interrupted
          /\ Register(b) /\ BeginBatch(b)
          /\ unread' = unread \ b
          /\ UNCHANGED <<status, faults>>
       \/ /\ interrupted
          /\ unread' = unread \ b
          /\ UNCHANGED <<status, target, phase, batch, pending, next, seen, pivoted, fatal,
                         pc, outcome, unsafe, reported, faults>>
       \/ /\ ~interrupted /\ Fault
          /\ phase' = "off" /\ status' = "FAILED"
          /\ UNCHANGED <<target, unread, batch, pending, next, seen, pivoted, fatal,
                         pc, outcome, unsafe, reported>>
      BY <1>2 DEF StreamBatch
    <2>2. b \in SUBSET Hosts /\ UNCHANGED <<aggressive, tally, saved, observed, session, interrupted, unmarked>>
      BY <1>2 DEF StreamBatch, StreamBatches, TypeOK, Hosts
    <2>3. CASE Register(b) /\ BeginBatch(b) /\ unread' = unread \ b /\ UNCHANGED <<status, faults>>
      BY <2>2, <2>3, TypeBegin, TypeRegister DEF TypeOK
    <2>4. CASE interrupted
      BY <2>1, <2>2, <2>4 DEF TypeOK
    <2>5. CASE Fault /\ phase' = "off" /\ status' = "FAILED"
               /\ UNCHANGED <<target, unread, batch, pending, next, seen, pivoted, fatal,
                              pc, outcome, unsafe, reported>>
      BY <2>2, <2>5, ScanAssumption DEF TypeOK, Fault
    <2> QED
      BY <2>1, <2>3, <2>4, <2>5
  <1> QED
    BY <1>1, <1>2

LEMMA TypeRounds ==
  ASSUME TypeOK, NEW h \in Hosts, StartHost(h) \/ NextRound \/ EndBatch
  PROVE  TypeOK'
  <1>1. CASE StartHost(h)
    BY <1>1 DEF TypeOK, StartHost, database, stop, Steps
  <1>2. CASE NextRound
    BY <1>2 DEF TypeOK, NextRound, database, stop, work
  <1>3. CASE EndBatch
    BY <1>3, ScanAssumption DEF TypeOK, EndBatch, Finish, Verdict, Fault, NoFault, stop, work
  <1> QED
    BY <1>1, <1>2, <1>3

LEMMA TypeHost ==
  ASSUME TypeOK, NEW h \in Hosts, HostStep(h), ~MarkTarget(h), ~Report(h)
  PROVE  TypeOK'
  <1> USE DEF TypeOK, database, loop, stop, At, Goto, Return, Canceled, Steps, Outcomes
  <1>1. CASE CheckContext(h)
    BY <1>1 DEF CheckContext
  <1>2. CASE Probe(h)
    BY <1>2 DEF Probe
  <1>3. CASE Claim(h)
    BY <1>3 DEF Claim
  <1>4. CASE SaveAnalysis(h)
    BY <1>4, ScanAssumption DEF SaveAnalysis, Fault, NoFault
  <1>5. CASE SaveObservation(h)
    BY <1>5, ScanAssumption DEF SaveObservation, Fault, NoFault
  <1> QED
    BY <1>1, <1>2, <1>3, <1>4, <1>5 DEF HostStep

LEMMA TypeMark ==
  ASSUME TypeOK, NEW h \in Hosts, MarkTarget(h)
  PROVE  TypeOK'
  <1> DEFINE marked == [target EXCEPT ![h] = IF target[h] # "none" THEN OutcomeStatus(h) ELSE "none"]
  <1> DEFINE closed == {g \in Hosts : marked[g] \notin {"none", "PENDING"}}
  <1>1. marked \in [Hosts -> {"none"} \cup Outcomes]
    BY DEF TypeOK, OutcomeStatus
  <1>2. Cardinality(closed) \in Nat
    BY HostsFinite
  <1> HIDE DEF closed
  <1>3. /\ target' \in {target, marked}
        /\ tally' \in {tally, Cardinality(closed)}
        /\ unmarked' \in {unmarked, unmarked \cup {h}}
        /\ pc' = [pc EXCEPT ![h] = "reporting"]
        /\ faults' \in {faults, faults + 1} /\ (faults' = faults + 1 => faults < MaxFaults)
    <2> USE DEF MarkTarget, Goto, Fault, NoFault
    <2>1. target' \in {target, marked} /\ tally' \in {tally, Cardinality(closed)}
      BY DEF closed
    <2>2. unmarked' \in {unmarked, unmarked \cup {h}} /\ pc' = [pc EXCEPT ![h] = "reporting"]
      OBVIOUS
    <2>3. faults' \in {faults, faults + 1} /\ (faults' = faults + 1 => faults < MaxFaults)
      BY ScanAssumption DEF TypeOK
    <2> QED
      BY <2>1, <2>2, <2>3
  <1>4. UNCHANGED <<status, aggressive, saved, observed, loop, stop, outcome, unsafe, reported>>
    BY DEF MarkTarget
  <1>5. faults' \in 0 .. MaxFaults
    BY <1>3, ScanAssumption DEF TypeOK
  <1> HIDE DEF marked
  <1> QED
    BY <1>1, <1>2, <1>3, <1>4, <1>5 DEF TypeOK, loop, stop, Steps

LEMMA TypeReport ==
  ASSUME TypeOK, pivoted <= MaxPivot, NEW h \in Hosts, Report(h)
  PROVE  TypeOK'
  <1>1. PICK queued \in (IF outcome[h] = "DONE" THEN QueueSANs(h) ELSE {{}}) :
          /\ next' = next \cup queued /\ seen' = seen \cup queued
          /\ pivoted' = pivoted + Cardinality(queued)
    BY DEF Report
  <1>2. queued \in SUBSET Hosts /\ Cardinality(queued) \in Nat
    BY QueueWithinLimit
  <1>3. /\ pc' = [pc EXCEPT ![h] = "done"] /\ fatal' \in BOOLEAN
        /\ UNCHANGED <<database, phase, session, unread, batch, pending, interrupted,
                       outcome, unsafe, reported, unmarked, faults>>
    BY DEF Report, Goto
  <1> QED
    BY <1>1, <1>2, <1>3 DEF TypeOK, database

LEMMA TypeEnvironment == TypeOK /\ (Interrupt \/ Crash) => TypeOK'
  <1>1. TypeOK /\ Interrupt => TypeOK'
    BY ScanAssumption DEF TypeOK, Interrupt, Fault, database, loop, work
  <1>2. TypeOK /\ Crash => TypeOK'
    BY ScanAssumption DEF TypeOK, Crash, Fault, database, stop
  <1> QED
    BY <1>1, <1>2

LEMMA TypeNext ==
  ASSUME TypeOK, pivoted <= MaxPivot, [Next]_vars
  PROVE  TypeOK'
  <1>1. CASE StartScan \/ Resume
    BY <1>1, TypeStart, TypeResume
  <1>2. CASE Interrupt \/ Crash
    BY <1>2, TypeEnvironment
  <1>3. CASE StreamBatch \/ StreamEnd
    BY <1>3, TypeStream
  <1>4. CASE NextRound \/ EndBatch
    <2>1. PICK h : h \in Hosts
      BY ScanAssumption DEF Hosts
    <2> QED
      BY <1>4, <2>1, TypeRounds
  <1>5. CASE \E h \in Hosts : StartHost(h)
    BY <1>5, TypeRounds
  <1>6. CASE \E h \in Hosts : HostStep(h)
    BY <1>6, TypeHost, TypeMark, TypeReport
  <1>7. CASE UNCHANGED vars
    BY <1>7 DEF TypeOK, vars, database, loop, stop, work
  <1> QED
    BY <1>1, <1>2, <1>3, <1>4, <1>5, <1>6, <1>7 DEF Next, LoopStep

-----------------------------------------------------------------------------
(* The inductive invariant.                                                 *)

(* What the tables and a goroutine's place say of the writes made before.   *)
SaveInv ==
  /\ DoneIsSaved
  /\ \A h \in Hosts : pc[h] = "observing" => h \in saved
  /\ \A h \in Hosts : pc[h] = "marking" /\ outcome[h] = "DONE" => h \in saved /\ h \in observed

(* The pivot's counter counts, and knows every host in the batch's queues.  *)
PivotInv ==
  /\ batch \subseteq seen
  /\ pivoted = Cardinality(seen \ batch)
  /\ pivoted <= MaxPivot

(* The queues hold known hosts, apart from each other and from those that   *)
(* have a goroutine or have had one.                                        *)
QueueInv ==
  /\ pending \cup next \subseteq seen
  /\ pending \cap next = {}
  /\ \A h \in Hosts : pc[h] # "idle" => h \in seen /\ h \notin pending \cup next

(* A fatal stop has an unsafe claim behind it, and only aggressive runs,    *)
(* which are never streamed, make claims.                                   *)
FatalInv ==
  /\ session => ~aggressive
  /\ phase = "reading" => session
  /\ ~aggressive => unsafe = {}
  /\ reported \subseteq unsafe
  /\ fatal => reported # {}

(* A run that was not started yet.                                          *)
StartInv ==
  status = "none" => /\ phase = "off" /\ observed = {}
                     /\ \A h \in Hosts : target[h] = "none"

(* While no write of an outcome has failed, and the batch goes on: what is  *)
(* pending is still in the loop's hands, an outcome is never a cancellation *)
(* and the count is that of the last outcome written.                       *)
LoopInv ==
  phase = "round" /\ ~Cancelled =>
    /\ \A h \in Hosts : target[h] = "PENDING" =>
         h \in pending \/ pc[h] \in Steps \ {"reporting"}
    /\ \A h \in Hosts : pc[h] = "marking" => outcome[h] # "PENDING"
    /\ batch # {}
    /\ \A h \in batch : target[h] # "none" /\ (h \in pending \/ pc[h] # "idle")
    /\ \/ tally = Cardinality(Settled)
       \/ \A h \in batch : pc[h] \notin {"reporting", "done"}

SettledInv ==
  unmarked = {} =>
    /\ status = "COMPLETED" => phase = "off" /\ Pending = {} /\ tally = Cardinality(Settled)
    /\ phase = "reading" /\ ~interrupted => Pending = {} /\ tally = Cardinality(Settled)
    /\ LoopInv

(* An unsafe claim whose host's observation was stored is on its way to     *)
(* stop the batch, or has stopped it.                                       *)
UnsafeInv ==
  /\ aggressive /\ phase # "off" =>
       /\ \A h \in observed : pc[h] \in {"marking", "reporting", "done"}
       /\ \A h \in unsafe \cap observed :
            h \in reported /\ (fatal \/ pc[h] \in {"marking", "reporting"})
       /\ status # "COMPLETED"
  /\ UnsafeStopsRun

-----------------------------------------------------------------------------
(* What was written before.                                                 *)

LEMMA SaveNext ==
  ASSUME TypeOK, SaveInv, [Next]_vars
  PROVE  SaveInv'
  <1> USE DEF SaveInv, DoneIsSaved
  <1>1. CASE StartScan
    BY <1>1 DEF TypeOK, StartScan, Register, BeginBatch
  <1>2. CASE Resume
    BY <1>2 DEF TypeOK, Resume, BeginBatch, database
  <1>3. CASE Interrupt \/ Crash
    BY <1>3 DEF TypeOK, Interrupt, Crash, database, loop, work
  <1>4. CASE StreamBatch
    BY <1>4 DEF TypeOK, StreamBatch, Register, BeginBatch
  <1>5. CASE StreamEnd \/ NextRound \/ EndBatch
    BY <1>5 DEF StreamEnd, NextRound, EndBatch, database, work
  <1>6. ASSUME NEW h \in Hosts, StartHost(h) PROVE SaveInv'
    BY <1>6 DEF TypeOK, StartHost, database
  <1>7. ASSUME NEW h \in Hosts, CheckContext(h) \/ Probe(h) \/ Claim(h) PROVE SaveInv'
    BY <1>7 DEF TypeOK, CheckContext, Probe, Claim, At, Goto, Return, Canceled, database
  <1>8. ASSUME NEW h \in Hosts, SaveAnalysis(h) PROVE SaveInv'
    BY <1>8 DEF TypeOK, SaveAnalysis, At, Goto, Return, Canceled
  <1>9. ASSUME NEW h \in Hosts, SaveObservation(h) PROVE SaveInv'
    BY <1>9 DEF TypeOK, SaveObservation, At, Goto, Return
  <1>10. ASSUME NEW h \in Hosts, MarkTarget(h) PROVE SaveInv'
    <2>1. \A g \in Hosts : target'[g] = "DONE" => target[g] = "DONE" \/ (g = h /\ outcome[h] = "DONE")
      BY <1>10 DEF TypeOK, MarkTarget, OutcomeStatus
    <2> QED
      BY <1>10, <2>1 DEF TypeOK, MarkTarget, At, Goto
  <1>11. ASSUME NEW h \in Hosts, Report(h) PROVE SaveInv'
    BY <1>11 DEF TypeOK, Report, At, Goto, database
  <1>12. CASE UNCHANGED vars
    BY <1>12 DEF vars, database, work
  <1> QED
    BY <1>1, <1>2, <1>3, <1>4, <1>5, <1>6, <1>7, <1>8, <1>9, <1>10, <1>11, <1>12
    DEF Next, LoopStep, HostStep

-----------------------------------------------------------------------------
(* The pivot and the queues.                                                *)

LEMMA PivotNext ==
  ASSUME TypeOK, PivotInv, [Next]_vars
  PROVE  PivotInv'
  <1>1. ASSUME NEW hosts, BeginBatch(hosts) PROVE PivotInv'
    <2>1. seen' \ batch' = {} /\ batch' \subseteq seen' /\ pivoted' = 0
      BY <1>1 DEF BeginBatch
    <2> QED
      BY <2>1, FS_EmptySet, ScanAssumption DEF PivotInv
  <1>2. CASE UNCHANGED <<batch, seen, pivoted>>
    BY <1>2 DEF PivotInv
  <1>3. ASSUME NEW h \in Hosts, Report(h) PROVE PivotInv'
    <2>1. PICK queued \in (IF outcome[h] = "DONE" THEN QueueSANs(h) ELSE {{}}) :
            seen' = seen \cup queued /\ pivoted' = pivoted + Cardinality(queued)
      BY <1>3 DEF Report
    <2>2. /\ queued \in SUBSET Hosts /\ queued \cap seen = {}
          /\ pivoted + Cardinality(queued) <= MaxPivot
      BY QueueWithinLimit DEF PivotInv
    <2>3. Cardinality((seen \cup queued) \ batch) = Cardinality(seen \ batch) + Cardinality(queued)
      <3> DEFINE old == seen \ batch
      <3>1. batch \subseteq seen /\ seen \subseteq Hosts
        BY DEF PivotInv, TypeOK
      <3>2. (seen \cup queued) \ batch = old \cup queued
        BY <2>2, <3>1
      <3>3. old \in SUBSET Hosts /\ old \cap queued = {}
        BY <2>2, <3>1
      <3> HIDE DEF old
      <3>4. Cardinality(old \cup queued) = Cardinality(old) + Cardinality(queued)
        BY <2>2, <3>3, DisjointAdd
      <3> QED
        BY <3>2, <3>4 DEF old
    <2>4. batch' = batch
      BY <1>3 DEF Report
    <2> QED
      BY <2>1, <2>2, <2>3, <2>4 DEF PivotInv
  <1>4. CASE StartScan \/ Resume
    BY <1>4, <1>1 DEF StartScan, Resume
  <1>5. CASE StreamBatch
    BY <1>5, <1>1, <1>2 DEF StreamBatch
  <1>6. CASE StreamEnd \/ NextRound \/ EndBatch \/ Interrupt \/ Crash \/ UNCHANGED vars
    BY <1>6, <1>2 DEF StreamEnd, NextRound, EndBatch, Interrupt, Crash, vars, loop
  <1>7. ASSUME NEW h \in Hosts, StartHost(h) PROVE PivotInv'
    BY <1>7, <1>2 DEF StartHost
  <1>8. ASSUME NEW h \in Hosts, HostStep(h), ~Report(h) PROVE PivotInv'
    BY <1>8, <1>2
    DEF HostStep, CheckContext, Probe, Claim, SaveAnalysis, SaveObservation, MarkTarget, loop
  <1> QED
    BY <1>3, <1>4, <1>5, <1>6, <1>7, <1>8 DEF Next, LoopStep

LEMMA QueueNext ==
  ASSUME TypeOK, PivotInv, QueueInv, [Next]_vars
  PROVE  QueueInv'
  <1>1. ASSUME NEW hosts, BeginBatch(hosts) PROVE QueueInv'
    BY <1>1 DEF QueueInv, BeginBatch
  <1>2. CASE UNCHANGED <<pending, next, seen, pc>>
    BY <1>2 DEF QueueInv
  <1>3. ASSUME NEW h \in Hosts, Report(h) PROVE QueueInv'
    <2>1. PICK queued \in (IF outcome[h] = "DONE" THEN QueueSANs(h) ELSE {{}}) :
            next' = next \cup queued /\ seen' = seen \cup queued
      BY <1>3 DEF Report
    <2>2. queued \cap seen = {}
      BY QueueWithinLimit DEF PivotInv
    <2>3. pending' = pending /\ pc[h] # "idle" /\ \A g \in Hosts : pc'[g] # "idle" => pc[g] # "idle"
      BY <1>3 DEF Report, At, Goto, TypeOK
    <2> QED
      BY <2>1, <2>2, <2>3 DEF QueueInv
  <1>4. CASE StartScan \/ Resume
    BY <1>4, <1>1 DEF StartScan, Resume
  <1>5. CASE StreamBatch
    BY <1>5, <1>1, <1>2 DEF StreamBatch
  <1>6. CASE StreamEnd \/ EndBatch \/ Interrupt \/ UNCHANGED vars
    BY <1>6, <1>2 DEF StreamEnd, EndBatch, Interrupt, vars, loop, work
  <1>7. CASE NextRound
    BY <1>7 DEF QueueInv, NextRound, work
  <1>8. CASE Crash
    BY <1>8 DEF QueueInv, Crash
  <1>9. ASSUME NEW h \in Hosts, StartHost(h) PROVE QueueInv'
    BY <1>9 DEF QueueInv, StartHost, TypeOK
  <1>10. ASSUME NEW h \in Hosts, HostStep(h), ~Report(h) PROVE QueueInv'
    <2>1. UNCHANGED loop /\ \A g \in Hosts : pc'[g] # "idle" => pc[g] # "idle"
      BY <1>10
      DEF HostStep, CheckContext, Probe, Claim, SaveAnalysis, SaveObservation, MarkTarget,
          At, Goto, Return, Canceled, TypeOK
    <2> QED
      BY <2>1 DEF QueueInv, loop
  <1> QED
    BY <1>3, <1>4, <1>5, <1>6, <1>7, <1>8, <1>9, <1>10 DEF Next, LoopStep

-----------------------------------------------------------------------------
(* Fatal stops and runs that were not started.                              *)

LEMMA FatalNext ==
  ASSUME TypeOK, FatalInv, [Next]_vars
  PROVE  FatalInv'
  <1>1. CASE StartScan
    BY <1>1 DEF FatalInv, StartScan, BeginBatch
  <1>2. CASE Resume
    BY <1>2 DEF FatalInv, Resume, BeginBatch, database
  <1>3. CASE StreamBatch
    BY <1>3 DEF FatalInv, StreamBatch, BeginBatch
  <1>4. CASE StreamEnd \/ NextRound \/ EndBatch \/ UNCHANGED vars
    BY <1>4 DEF FatalInv, StreamEnd, NextRound, EndBatch, Finish, RoundOver, vars, database, loop, stop, work
  <1>5. CASE Interrupt \/ Crash
    BY <1>5 DEF FatalInv, Interrupt, Crash, database, loop, stop, work
  <1>6. ASSUME NEW h \in Hosts, StartHost(h) PROVE FatalInv'
    BY <1>6 DEF FatalInv, StartHost, database, stop
  <1>7. ASSUME NEW h \in Hosts, CheckContext(h) \/ Probe(h) \/ MarkTarget(h) PROVE FatalInv'
    BY <1>7 DEF FatalInv, CheckContext, Probe, MarkTarget, database, loop, stop
  <1>8. ASSUME NEW h \in Hosts, Claim(h) PROVE FatalInv'
    BY <1>8 DEF FatalInv, Claim, database, loop, stop
  <1>9. ASSUME NEW h \in Hosts, SaveAnalysis(h) \/ SaveObservation(h) PROVE FatalInv'
    BY <1>9 DEF FatalInv, SaveAnalysis, SaveObservation, loop, stop
  <1>10. ASSUME NEW h \in Hosts, Report(h) PROVE FatalInv'
    BY <1>10 DEF FatalInv, Report, database
  <1> QED
    BY <1>1, <1>2, <1>3, <1>4, <1>5, <1>6, <1>7, <1>8, <1>9, <1>10 DEF Next, LoopStep, HostStep

LEMMA StartNext ==
  ASSUME TypeOK, StartInv, [Next]_vars
  PROVE  StartInv'
  <1>1. CASE StartScan \/ Resume
    BY <1>1 DEF StartInv, StartScan, Resume, database
  <1>2. CASE Interrupt \/ Crash
    BY <1>2 DEF StartInv, Interrupt, Crash, database
  <1>3. CASE StreamBatch \/ StreamEnd
    BY <1>3 DEF StartInv, StreamBatch, StreamEnd, Finish
  <1>4. CASE NextRound \/ EndBatch \/ UNCHANGED vars
    BY <1>4 DEF StartInv, NextRound, EndBatch, RoundOver, Finish, Verdict, vars, database, loop
  <1>5. ASSUME NEW h \in Hosts, StartHost(h) PROVE StartInv'
    BY <1>5 DEF StartInv, StartHost, database
  <1>6. ASSUME NEW h \in Hosts, HostStep(h) PROVE StartInv'
    BY <1>6
    DEF StartInv, HostStep, CheckContext, Probe, Claim, SaveAnalysis, SaveObservation, MarkTarget,
        Report, At, database, loop
  <1> QED
    BY <1>1, <1>2, <1>3, <1>4, <1>5, <1>6 DEF Next, LoopStep

-----------------------------------------------------------------------------
(* The end of a run.                                                        *)

(* A batch of a stream is not empty.                                        *)
LEMMA BatchNotEmpty ==
  ASSUME NEW hosts \in SUBSET Hosts, hosts # {}, NEW b \in StreamBatches(hosts)
  PROVE  b \in SUBSET hosts /\ b # {}
  <1>1. b \in SUBSET hosts /\ Cardinality(b) = Least(BatchSize, Cardinality(hosts))
    BY DEF StreamBatches
  <1>2. Cardinality(hosts) \in Nat /\ Cardinality(hosts) # 0
    BY HostsFinite, FS_EmptySet
  <1>3. Cardinality(b) # 0
    BY <1>1, <1>2, ScanAssumption DEF Least
  <1> QED
    BY <1>1, <1>3, FS_EmptySet

(* A batch that begins while the hosts pending are its own.                 *)
LEMMA SettledBegin ==
  ASSUME NEW hosts \in SUBSET Hosts, hosts # {}, BeginBatch(hosts), status' # "COMPLETED",
         \A h \in Hosts : target'[h] = "PENDING" => h \in hosts,
         \A h \in hosts : target'[h] # "none"
  PROVE  SettledInv'
  BY DEF BeginBatch, SettledInv, LoopInv, Cancelled

(* A goroutine between two writes of outcomes.                              *)
LEMMA SettledWork ==
  ASSUME TypeOK, SettledInv, NEW h \in Hosts, phase = "round", pc[h] \in Steps,
         UNCHANGED <<status, target, tally, phase, batch, pending, unmarked>>,
         Cancelled => Cancelled',
         NEW step \in Steps \cup {"done"}, pc' = [pc EXCEPT ![h] = step],
         \A g \in Hosts \ {h} : outcome'[g] = outcome[g],
         step = "marking" /\ ~Cancelled => outcome'[h] # "PENDING",
         \/ step # "reporting" /\ step # "done"
         \/ step = "done" /\ pc[h] = "reporting"
  PROVE  SettledInv'
  <1> SUFFICES ASSUME unmarked = {}, ~Cancelled PROVE LoopInv'
    BY DEF SettledInv, LoopInv, TypeOK
  <1>1. /\ \A g \in Hosts : target[g] = "PENDING" => g \in pending \/ pc[g] \in Steps \ {"reporting"}
        /\ \A g \in Hosts : pc[g] = "marking" => outcome[g] # "PENDING"
        /\ batch # {}
        /\ \A g \in batch : target[g] # "none" /\ (g \in pending \/ pc[g] # "idle")
        /\ \/ tally = Cardinality(Settled)
           \/ \A g \in batch : pc[g] \notin {"reporting", "done"}
    BY DEF SettledInv, LoopInv
  <1>2. /\ pc'[h] = step /\ step # "idle" /\ \A g \in Hosts \ {h} : pc'[g] = pc[g]
        /\ batch \subseteq Hosts
    BY DEF TypeOK, Steps
  <1>3. \A g \in Hosts : target'[g] = "PENDING" => g \in pending' \/ pc'[g] \in Steps \ {"reporting"}
    BY <1>1, <1>2
  <1>4. \A g \in Hosts : pc'[g] = "marking" => outcome'[g] # "PENDING"
    BY <1>1, <1>2
  <1>5. batch' # {} /\ \A g \in batch' : target'[g] # "none" /\ (g \in pending' \/ pc'[g] # "idle")
    BY <1>1, <1>2
  <1>6. Settled' = Settled
    BY DEF Settled
  <1>7. tally' = Cardinality(Settled') \/ \A g \in batch' : pc'[g] \notin {"reporting", "done"}
    BY <1>1, <1>2, <1>6
  <1> QED
    BY <1>3, <1>4, <1>5, <1>7 DEF LoopInv

LEMMA SettledMark ==
  ASSUME TypeOK, SettledInv, NEW h \in Hosts, MarkTarget(h)
  PROVE  SettledInv'
  <1> DEFINE marked == [target EXCEPT ![h] = IF target[h] # "none" THEN outcome[h] ELSE "none"]
  <1> DEFINE closed == {g \in Hosts : marked[g] \notin {"none", "PENDING"}}
  <1>1. /\ phase = "round" /\ pc[h] = "marking"
        /\ pc' = [pc EXCEPT ![h] = "reporting"]
        /\ UNCHANGED <<status, phase, batch, pending, outcome>> /\ Cancelled' = Cancelled
        /\ unmarked' = {} => unmarked = {}
    BY DEF MarkTarget, At, Goto, loop, stop, Cancelled
  <1> SUFFICES ASSUME unmarked = {}, unmarked' = {}, ~Cancelled PROVE LoopInv'
    BY <1>1 DEF SettledInv, LoopInv
  <1>2. /\ \A g \in Hosts : target[g] = "PENDING" => g \in pending \/ pc[g] \in Steps \ {"reporting"}
        /\ \A g \in Hosts : pc[g] = "marking" => outcome[g] # "PENDING"
        /\ batch # {}
        /\ \A g \in batch : target[g] # "none" /\ (g \in pending \/ pc[g] # "idle")
        /\ \/ tally = Cardinality(Settled)
           \/ \A g \in batch : pc[g] \notin {"reporting", "done"}
    BY <1>1 DEF SettledInv, LoopInv
  <1>3. target' = marked /\ tally' = IF target[h] # "none" /\ outcome[h] # "PENDING"
                                     THEN Cardinality(closed) ELSE tally
    BY DEF MarkTarget, OutcomeStatus
  <1>4. outcome[h] # "PENDING" /\ outcome[h] \in Outcomes /\ target \in [Hosts -> {"none"} \cup Outcomes]
        /\ batch \subseteq Hosts
    BY <1>1, <1>2 DEF TypeOK
  <1>5. closed = Settled'
    BY <1>3, <1>4 DEF Settled, Outcomes
  <1>6. /\ pc'[h] = "reporting" /\ \A g \in Hosts \ {h} : pc'[g] = pc[g] /\ target'[g] = target[g]
        /\ target'[h] = (IF target[h] # "none" THEN outcome[h] ELSE "none")
    BY <1>1, <1>3 DEF TypeOK
  <1>7. tally' = Cardinality(Settled') \/ \A g \in batch' : pc'[g] \notin {"reporting", "done"}
    <2>1. CASE target[h] # "none"
      BY <1>3, <1>4, <1>5, <2>1
    <2>2. CASE target[h] = "none"
      <3>1. target' = target
        BY <1>3, <1>4, <2>2
      <3>2. Settled' = Settled /\ tally' = tally /\ h \notin batch
        BY <1>2, <1>3, <2>2, <3>1 DEF Settled
      <3> QED
        BY <1>1, <1>2, <1>4, <1>6, <3>2
    <2> QED
      BY <2>1, <2>2
  <1>8. \A g \in Hosts : target'[g] = "PENDING" => g \in pending' \/ pc'[g] \in Steps \ {"reporting"}
    BY <1>1, <1>2, <1>4, <1>6
  <1>9. \A g \in Hosts : pc'[g] = "marking" => outcome'[g] # "PENDING"
    BY <1>1, <1>2, <1>6
  <1>10. \A g \in batch' : target'[g] # "none" /\ (g \in pending' \/ pc'[g] # "idle")
    BY <1>1, <1>2, <1>4, <1>6 DEF Outcomes
  <1> QED
    BY <1>1, <1>2, <1>7, <1>8, <1>9, <1>10 DEF LoopInv

LEMMA SettledNext ==
  ASSUME TypeOK, QueueInv, FatalInv, StartInv, SettledInv, [Next]_vars
  PROVE  SettledInv'
  <1>1. CASE StartScan
    <2>1. Inputs \in SUBSET Hosts /\ Inputs # {}
      BY ScanAssumption DEF Hosts
    <2>2. PICK b \in StreamBatches(Inputs) \cup {Inputs} : Register(b) /\ BeginBatch(b)
      BY <1>1 DEF StartScan
    <2>3. b \in SUBSET Hosts /\ b # {}
      BY <2>1, <2>2, BatchNotEmpty
    <2>4. status' = "RUNNING" /\ \A h \in Hosts : target[h] = "none"
      BY <1>1 DEF StartScan, StartInv
    <2>5. \A h \in Hosts : target'[h] = (IF h \in b THEN "PENDING" ELSE "none")
      BY <2>2, <2>4 DEF Register
    <2> QED
      BY <2>2, <2>3, <2>4, <2>5, SettledBegin
  <1>2. CASE Resume
    <2>1. /\ Pending \in SUBSET Hosts /\ Pending # {} /\ BeginBatch(Pending)
          /\ UNCHANGED <<status, target, unmarked>>
      BY <1>2 DEF Resume, Pending, database
    <2>2. CASE unmarked # {}
      BY <2>1, <2>2 DEF SettledInv
    <2>3. CASE unmarked = {}
      <3>1. status' # "COMPLETED"
        BY <2>1, <2>3 DEF SettledInv
      <3>2. \A h \in Hosts : target'[h] = "PENDING" => h \in Pending
        BY <2>1 DEF Pending
      <3>3. \A h \in Pending : target'[h] # "none"
        BY <2>1 DEF Pending
      <3> QED
        BY <2>1, <3>1, <3>2, <3>3, SettledBegin
    <2> QED
      BY <2>2, <2>3
  <1>3. CASE StreamBatch
    <2> SUFFICES ASSUME unmarked' = {} PROVE SettledInv'
      BY DEF SettledInv
    <2>1. unmarked = {} /\ phase = "reading" /\ status # "COMPLETED" /\ UNCHANGED <<tally, interrupted>>
      BY <1>3 DEF StreamBatch, SettledInv
    <2>2. unread \in SUBSET Hosts /\ unread # {}
      BY <1>3 DEF StreamBatch, TypeOK, Hosts
    <2>3. ASSUME NEW b \in StreamBatches(unread), ~interrupted, Register(b), BeginBatch(b), status' = status
          PROVE  SettledInv'
      <3>1. b \in SUBSET Hosts /\ b # {}
        BY <2>2, BatchNotEmpty
      <3>2. \A h \in Hosts : target[h] # "PENDING"
        BY <2>1, <2>3 DEF SettledInv, Pending
      <3>3. \A h \in Hosts : target'[h] = IF h \in b /\ target[h] = "none" THEN "PENDING" ELSE target[h]
        BY <2>3 DEF Register
      <3> QED
        BY <2>1, <2>3, <3>1, <3>2, <3>3, SettledBegin
    <2>4. CASE interrupted /\ UNCHANGED <<status, target, phase>>
      BY <2>1, <2>4 DEF SettledInv, LoopInv
    <2>5. CASE phase' = "off" /\ status' = "FAILED"
      BY <2>5 DEF SettledInv, LoopInv
    <2> QED
      BY <1>3, <2>3, <2>4, <2>5 DEF StreamBatch
  <1>4. CASE StreamEnd
    <2>1. /\ phase = "reading" /\ phase' = "off" /\ UNCHANGED <<target, tally, unmarked>>
          /\ status' \in {status, IF interrupted THEN "INTERRUPTED" ELSE "COMPLETED"}
      BY <1>4 DEF StreamEnd, Finish, work
    <2>2. Pending' = Pending /\ Settled' = Settled
      BY <2>1 DEF Pending, Settled
    <2> QED
      BY <2>1, <2>2 DEF SettledInv, LoopInv
  <1>5. ASSUME NEW h \in Hosts, StartHost(h) PROVE SettledInv'
    <2>1. /\ UNCHANGED <<status, target, tally, phase, batch, unmarked, outcome>> /\ Cancelled' = Cancelled
          /\ phase = "round" /\ h \in pending /\ pending' = pending \ {h}
          /\ pc'[h] = "started" /\ \A g \in Hosts \ {h} : pc'[g] = pc[g]
      BY <1>5 DEF StartHost, TypeOK, database, stop, Cancelled
    <2>2. Settled' = Settled
      BY <2>1 DEF Settled
    <2>3. batch \subseteq Hosts
      BY DEF TypeOK
    <2> SUFFICES ASSUME unmarked = {}, ~Cancelled PROVE LoopInv'
      BY <2>1 DEF SettledInv, LoopInv
    <2>4. LoopInv
      BY DEF SettledInv
    <2> QED
      BY <2>1, <2>2, <2>3, <2>4 DEF LoopInv, Steps
  <1>6. CASE NextRound
    <2>1. /\ UNCHANGED <<status, target, tally, phase, batch, unmarked, outcome, pc>> /\ Cancelled' = Cancelled
          /\ phase = "round" /\ ~Cancelled /\ pending = {} /\ \A g \in Hosts : pc[g] \notin Steps
      BY <1>6 DEF NextRound, RoundOver, Busy, database, stop, work, Cancelled
    <2>2. Settled' = Settled
      BY <2>1 DEF Settled
    <2> SUFFICES ASSUME unmarked = {} PROVE LoopInv'
      BY <2>1 DEF SettledInv
    <2>3. LoopInv /\ batch \subseteq Hosts
      BY DEF SettledInv, TypeOK
    <2> QED
      BY <2>1, <2>2, <2>3 DEF LoopInv
  <1>7. CASE EndBatch
    <2>1. /\ UNCHANGED <<target, tally, batch, unmarked, outcome, pc, interrupted, fatal>>
          /\ phase = "round" /\ phase' \in {"off", "reading"}
          /\ (Cancelled \/ pending = {}) /\ \A g \in Hosts : pc[g] \notin Steps
      BY <1>7 DEF EndBatch, RoundOver, Finish, Busy, stop, work
    <2>2. Settled' = Settled /\ Pending' = Pending
      BY <2>1 DEF Settled, Pending
    <2> SUFFICES ASSUME unmarked = {}
                 PROVE  /\ status' = "COMPLETED" => phase' = "off" /\ Pending' = {} /\ tally' = Cardinality(Settled')
                        /\ phase' = "reading" /\ ~interrupted' => Pending' = {} /\ tally' = Cardinality(Settled')
      BY <2>1 DEF SettledInv, LoopInv
    <2>3. status # "COMPLETED"
      BY <2>1 DEF SettledInv
    <2>4. CASE ~Cancelled
      <3>1. LoopInv /\ pc \in [Hosts -> {"idle", "done"} \cup Steps] /\ batch \subseteq Hosts
        BY DEF SettledInv, TypeOK
      <3>2. \A h \in Hosts : target[h] # "PENDING"
        BY <2>1, <2>4, <3>1 DEF LoopInv
      <3>3. batch # {} /\ \A h \in batch : pc[h] = "done"
        BY <2>1, <2>4, <3>1 DEF LoopInv
      <3>4. tally = Cardinality(Settled)
        BY <2>1, <2>4, <3>1, <3>3 DEF LoopInv
      <3>5. Pending = {}
        BY <3>2 DEF Pending
      <3>6. status' = "COMPLETED" => phase' = "off"
        BY <1>7, <2>3 DEF EndBatch, Finish
      <3> QED
        BY <2>1, <2>2, <3>4, <3>5, <3>6
    <2>5. CASE Cancelled
      <3>1. session => interrupted
        BY <2>5 DEF FatalInv, Cancelled
      <3>2. status' # "COMPLETED"
        BY <1>7, <2>3, <2>5, <3>1 DEF EndBatch, Finish, Verdict, Cancelled
      <3>3. phase' = "reading" => interrupted
        BY <1>7, <3>1 DEF EndBatch, Finish
      <3> QED
        BY <2>1, <3>2, <3>3
    <2> QED
      BY <2>4, <2>5
  <1>8. CASE Interrupt \/ Crash
    <2>1. /\ UNCHANGED <<status, target, tally, unmarked>> /\ phase # "off"
          /\ phase' = "off" \/ interrupted'
      BY <1>8 DEF Interrupt, Crash, database, work
    <2> QED
      BY <2>1 DEF SettledInv, LoopInv, Cancelled
  <1>9. ASSUME NEW h \in Hosts, CheckContext(h) PROVE SettledInv'
    <2>1. Cancelled' = Cancelled /\ phase = "round" /\ pc[h] = "started"
          /\ UNCHANGED <<status, target, tally, phase, batch, pending, unmarked>>
      BY <1>9 DEF CheckContext, At, database, loop, stop, Cancelled
    <2>2. \E step \in {"marking", "probing"} :
            /\ pc' = [pc EXCEPT ![h] = step]
            /\ \A g \in Hosts \ {h} : outcome'[g] = outcome[g]
            /\ step = "marking" => Cancelled
      BY <1>9 DEF CheckContext, Goto, Return, Canceled, TypeOK
    <2> QED
      BY <2>1, <2>2, SettledWork DEF Steps
  <1>10. ASSUME NEW h \in Hosts, Probe(h) \/ Claim(h) PROVE SettledInv'
    <2>1. Cancelled' = Cancelled /\ phase = "round" /\ pc[h] \in Steps
          /\ UNCHANGED <<status, target, tally, phase, batch, pending, unmarked>>
      BY <1>10 DEF Probe, Claim, At, database, loop, stop, Cancelled, Steps
    <2>2. \E step \in {"marking", "claiming", "saving"} :
            /\ pc' = [pc EXCEPT ![h] = step]
            /\ \A g \in Hosts \ {h} : outcome'[g] = outcome[g]
            /\ step = "marking" => Cancelled \/ outcome'[h] # "PENDING"
      BY <1>10 DEF Probe, Claim, Goto, Return, Canceled, TypeOK
    <2> QED
      BY <2>1, <2>2, SettledWork DEF Steps
  <1>11. ASSUME NEW h \in Hosts, SaveAnalysis(h) \/ SaveObservation(h) PROVE SettledInv'
    <2>1. Cancelled' = Cancelled /\ phase = "round" /\ pc[h] \in Steps
          /\ UNCHANGED <<status, target, tally, phase, batch, pending, unmarked>>
      BY <1>11 DEF SaveAnalysis, SaveObservation, At, loop, stop, Cancelled, Steps
    <2>2. \E step \in {"marking", "observing"} :
            /\ pc' = [pc EXCEPT ![h] = step]
            /\ \A g \in Hosts \ {h} : outcome'[g] = outcome[g]
            /\ step = "marking" => Cancelled \/ outcome'[h] # "PENDING"
      BY <1>11 DEF SaveAnalysis, SaveObservation, Goto, Return, Canceled, TypeOK
    <2> QED
      BY <2>1, <2>2, SettledWork DEF Steps
  <1>12. ASSUME NEW h \in Hosts, MarkTarget(h) PROVE SettledInv'
    BY <1>12, SettledMark
  <1>13. ASSUME NEW h \in Hosts, Report(h) PROVE SettledInv'
    <2>1. (Cancelled => Cancelled') /\ phase = "round" /\ pc[h] = "reporting"
          /\ UNCHANGED <<status, target, tally, phase, batch, pending, unmarked, outcome>>
          /\ pc' = [pc EXCEPT ![h] = "done"]
      BY <1>13 DEF Report, At, Goto, database, Cancelled
    <2> QED
      BY <2>1, SettledWork DEF Steps
  <1>14. CASE UNCHANGED vars
    <2>1. UNCHANGED <<status, target, tally, phase, batch, pending, unmarked, outcome, pc, interrupted, fatal>>
      BY <1>14 DEF vars, database, loop, stop, work
    <2>2. Settled' = Settled /\ Pending' = Pending
      BY <2>1 DEF Settled, Pending
    <2> QED
      BY <2>1, <2>2 DEF SettledInv, LoopInv, Cancelled
  <1> QED
    BY <1>1, <1>2, <1>3, <1>4, <1>5, <1>6, <1>7, <1>8, <1>9, <1>10, <1>11, <1>12, <1>13, <1>14
    DEF Next, LoopStep, HostStep

-----------------------------------------------------------------------------
(* Unsafe claims.                                                           *)

LEMMA UnsafeNext ==
  ASSUME TypeOK, QueueInv, FatalInv, StartInv, UnsafeInv, [Next]_vars
  PROVE  UnsafeInv'
  <1> USE DEF UnsafeInv, UnsafeStopsRun
  <1>1. CASE StartScan
    <2>1. observed' = {} /\ status' = "RUNNING"
      BY <1>1 DEF StartScan, StartInv
    <2> QED
      BY <2>1
  <1>2. CASE Resume
    BY <1>2 DEF Resume, BeginBatch, FatalInv, database
  <1>3. CASE StreamBatch
    <2>1. ~aggressive /\ aggressive' = aggressive
      BY <1>3 DEF StreamBatch, FatalInv
    <2>2. unsafe' = {}
      BY <1>3, <2>1 DEF StreamBatch, BeginBatch, FatalInv
    <2> QED
      BY <2>1, <2>2
  <1>4. CASE StreamEnd
    <2>1. ~aggressive /\ aggressive' = aggressive /\ unsafe' = unsafe
      BY <1>4 DEF StreamEnd, FatalInv, work
    <2> QED
      BY <2>1 DEF FatalInv
  <1>5. CASE EndBatch
    <2>1. /\ UNCHANGED <<aggressive, observed, unsafe, reported, fatal, pc>> /\ phase = "round"
          /\ \A g \in Hosts : pc[g] \notin Steps
      BY <1>5 DEF EndBatch, RoundOver, Busy, stop, work
    <2>2. CASE ~aggressive
      BY <2>1, <2>2 DEF FatalInv
    <2>3. CASE aggressive
      <3>1. unsafe \cap observed # {} => fatal
        BY <2>1, <2>3 DEF TypeOK, Steps
      <3>2. phase' = "off" /\ status' \in {status, Verdict} /\ status # "COMPLETED"
        BY <1>5, <2>1, <2>3 DEF EndBatch, Finish, FatalInv
      <3> QED
        BY <2>1, <3>1, <3>2 DEF Verdict
    <2> QED
      BY <2>2, <2>3
  <1>6. CASE NextRound \/ Interrupt \/ UNCHANGED vars
    BY <1>6 DEF NextRound, Interrupt, vars, database, loop, stop, work
  <1>7. CASE Crash
    BY <1>7 DEF Crash, database
  <1>8. ASSUME NEW h \in Hosts, StartHost(h) PROVE UnsafeInv'
    <2>1. /\ pc[h] = "idle" /\ \A g \in Hosts \ {h} : pc'[g] = pc[g]
          /\ UNCHANGED <<aggressive, phase, status, observed, unsafe, reported, fatal>> /\ phase = "round"
      BY <1>8 DEF StartHost, QueueInv, TypeOK, database, stop
    <2> QED
      BY <2>1 DEF TypeOK
  <1>9. ASSUME NEW h \in Hosts, CheckContext(h) \/ Probe(h) \/ MarkTarget(h) PROVE UnsafeInv'
    <2>1. /\ pc[h] \in {"started", "probing", "marking"} /\ \A g \in Hosts \ {h} : pc'[g] = pc[g]
          /\ pc[h] = "marking" => pc'[h] = "reporting"
          /\ UNCHANGED <<aggressive, phase, status, observed, unsafe, reported, fatal>> /\ phase = "round"
      BY <1>9 DEF CheckContext, Probe, MarkTarget, At, Goto, Return, Canceled, TypeOK, database, loop, stop
    <2> QED
      BY <2>1 DEF TypeOK
  <1>10. ASSUME NEW h \in Hosts, Claim(h) PROVE UnsafeInv'
    <2>1. /\ pc[h] = "claiming" /\ \A g \in Hosts \ {h} : pc'[g] = pc[g]
          /\ unsafe' \subseteq unsafe \cup {h} /\ (~aggressive => unsafe' = unsafe)
          /\ UNCHANGED <<aggressive, phase, status, observed, reported, fatal>> /\ phase = "round"
      BY <1>10 DEF Claim, At, Goto, Return, Canceled, TypeOK, database, loop, stop
    <2> QED
      BY <2>1 DEF TypeOK, FatalInv
  <1>11. ASSUME NEW h \in Hosts, SaveAnalysis(h) PROVE UnsafeInv'
    <2>1. /\ pc[h] = "saving" /\ \A g \in Hosts \ {h} : pc'[g] = pc[g]
          /\ reported \subseteq reported'
          /\ UNCHANGED <<aggressive, phase, status, observed, unsafe, fatal>> /\ phase = "round"
      BY <1>11 DEF SaveAnalysis, At, Goto, Return, Canceled, TypeOK, loop, stop
    <2> QED
      BY <2>1 DEF TypeOK
  <1>12. ASSUME NEW h \in Hosts, SaveObservation(h) PROVE UnsafeInv'
    <2>1. /\ pc[h] = "observing" /\ pc'[h] = "marking" /\ \A g \in Hosts \ {h} : pc'[g] = pc[g]
          /\ reported \subseteq reported'
          /\ observed' = observed \/ (observed' = observed \cup {h} /\ reported' = reported \cup (unsafe \cap {h}))
          /\ UNCHANGED <<aggressive, phase, status, unsafe, fatal>> /\ phase = "round"
      BY <1>12 DEF SaveObservation, At, Goto, Return, TypeOK, loop, stop
    <2>2. CASE ~aggressive
      BY <2>1, <2>2 DEF FatalInv
    <2>3. CASE aggressive
      BY <2>1, <2>3 DEF TypeOK
    <2> QED
      BY <2>2, <2>3
  <1>13. ASSUME NEW h \in Hosts, Report(h) PROVE UnsafeInv'
    <2>1. /\ pc[h] = "reporting" /\ pc'[h] = "done" /\ \A g \in Hosts \ {h} : pc'[g] = pc[g]
          /\ fatal' = (fatal \/ h \in reported)
          /\ UNCHANGED <<aggressive, phase, status, observed, unsafe, reported>> /\ phase = "round"
      BY <1>13 DEF Report, At, Goto, TypeOK, database
    <2> QED
      BY <2>1 DEF TypeOK
  <1> QED
    BY <1>1, <1>2, <1>3, <1>4, <1>5, <1>6, <1>7, <1>8, <1>9, <1>10, <1>11, <1>12, <1>13
    DEF Next, LoopStep, HostStep

-----------------------------------------------------------------------------
(* The invariant and what follows from it.                                  *)

Inv ==
  /\ TypeOK /\ SaveInv /\ PivotInv /\ QueueInv
  /\ FatalInv /\ StartInv /\ SettledInv /\ UnsafeInv

LEMMA InvInit == Init => Inv
  <1> SUFFICES ASSUME Init PROVE Inv
    OBVIOUS
  <1>1. TypeOK
    BY TypeInit
  <1>2. SaveInv /\ QueueInv /\ FatalInv /\ StartInv /\ SettledInv /\ UnsafeInv
    BY DEF Init, SaveInv, DoneIsSaved, QueueInv, FatalInv, StartInv, SettledInv, LoopInv, UnsafeInv, UnsafeStopsRun
  <1>3. PivotInv
    <2>1. seen \ batch = {} /\ pivoted = 0 /\ batch = {}
      BY DEF Init
    <2> QED
      BY <2>1, FS_EmptySet, ScanAssumption DEF PivotInv
  <1> QED
    BY <1>1, <1>2, <1>3 DEF Inv

LEMMA InvNext == Inv /\ [Next]_vars => Inv'
  <1> SUFFICES ASSUME Inv, [Next]_vars PROVE Inv'
    OBVIOUS
  <1>1. TypeOK' /\ PivotInv'
    BY TypeNext, PivotNext DEF Inv, PivotInv
  <1>2. SaveInv' /\ QueueInv' /\ FatalInv'
    BY SaveNext, QueueNext, FatalNext DEF Inv
  <1>3. StartInv' /\ SettledInv' /\ UnsafeInv'
    BY StartNext, SettledNext, UnsafeNext DEF Inv
  <1> QED
    BY <1>1, <1>2, <1>3 DEF Inv

THEOREM Invariance == Spec => []Inv
  BY InvInit, InvNext, PTL DEF Spec

(* Every table and every variable of the loop keeps its type; a status      *)
(* stored by MarkTarget is always one --resume understands.                 *)
THEOREM TypesHold == Spec => []TypeOK
  <1>1. Inv => TypeOK
    BY DEF Inv
  <1> QED
    BY <1>1, Invariance, PTL

(* Crashes, failed writes and resumptions never leave a target recorded as  *)
(* DONE without its analysis and its observation.                           *)
THEOREM ResultsAreKept == Spec => []DoneIsSaved
  <1>1. Inv => DoneIsSaved
    BY DEF Inv, SaveInv
  <1> QED
    BY <1>1, Invariance, PTL

(* No interleaving of goroutines over any number of rounds takes the SAN    *)
(* pivot of a batch past its limit.                                         *)
THEOREM PivotStaysBounded == Spec => []PivotBounded
  <1>1. Inv => PivotBounded
    BY DEF Inv, PivotInv, PivotBounded
  <1> QED
    BY <1>1, Invariance, PTL

(* A run closed as COMPLETED leaves nothing to resume and counts every      *)
(* outcome, unless a write of an outcome failed unseen.                     *)
THEOREM CompletedRunsAreSettled == Spec => []CompletedIsSettled
  <1>1. Inv => CompletedIsSettled
    BY DEF Inv, SettledInv, CompletedIsSettled
  <1> QED
    BY <1>1, Invariance, PTL

(* An unsafe claim whose host's observation was stored keeps the run from   *)
(* being closed as COMPLETED.                                               *)
THEOREM UnsafeRunsAreNotCompleted == Spec => []UnsafeStopsRun
  <1>1. Inv => UnsafeStopsRun
    BY DEF Inv, UnsafeInv
  <1> QED
    BY <1>1, Invariance, PTL

-----------------------------------------------------------------------------
(* What a step may not do.                                                  *)

(* Once a batch is cancelled no goroutine goes on from its first look at    *)
(* the context to the discovery of its host.                                *)
THEOREM StopIsFinal == Spec => StoppedStartsNothing
  <1> DEFINE Step == Cancelled => \A h \in Hosts : pc'[h] = "probing" => pc[h] = "probing"
  <1>1. ASSUME TypeOK, [Next]_vars PROVE Step
    <2> SUFFICES ASSUME Cancelled, NEW h \in Hosts, pc'[h] = "probing" PROVE pc[h] = "probing"
      OBVIOUS
    <2>1. CASE StartScan \/ Resume \/ StreamBatch
      BY <2>1 DEF StartScan, Resume, StreamBatch, BeginBatch
    <2>2. CASE StreamEnd \/ NextRound \/ EndBatch \/ Interrupt \/ Crash \/ UNCHANGED vars
      BY <2>2 DEF StreamEnd, NextRound, EndBatch, Interrupt, Crash, vars, work
    <2>3. ASSUME NEW g \in Hosts, StartHost(g) \/ HostStep(g) PROVE pc[h] = "probing"
      BY <1>1, <2>3
      DEF StartHost, HostStep, CheckContext, Probe, Claim, SaveAnalysis, SaveObservation, MarkTarget, Report,
          At, Goto, Return, Canceled, TypeOK
    <2> QED
      BY <1>1, <2>1, <2>2, <2>3 DEF Next, LoopStep
  <1>2. Spec => []TypeOK
    BY TypesHold
  <1> QED
    BY <1>1, <1>2, PTL DEF Spec, StoppedStartsNothing

(* Within a batch a host that has or had a goroutine is not started again,  *)
(* whatever certificates name it.                                           *)
THEOREM OnceIsEnough == Spec => OncePerBatch
  <1> DEFINE Step == \A h \in Hosts : pc[h] \in Steps \cup {"done"} => pc'[h] # "started" \/ pc[h] = "started"
  <1>1. ASSUME Inv, [Next]_vars PROVE Step
    <2> SUFFICES ASSUME NEW h \in Hosts, pc[h] \in Steps \cup {"done"}, pc'[h] = "started"
                 PROVE  pc[h] = "started"
      OBVIOUS
    <2>1. CASE StartScan \/ Resume \/ StreamBatch
      BY <2>1 DEF StartScan, Resume, StreamBatch, BeginBatch
    <2>2. CASE StreamEnd \/ NextRound \/ EndBatch \/ Interrupt \/ Crash \/ UNCHANGED vars
      BY <2>2 DEF StreamEnd, NextRound, EndBatch, Interrupt, Crash, vars, work
    <2>3. ASSUME NEW g \in Hosts, StartHost(g) PROVE pc[h] = "started"
      BY <1>1, <2>3 DEF StartHost, Inv, QueueInv, TypeOK, Steps
    <2>4. ASSUME NEW g \in Hosts, HostStep(g) PROVE pc[h] = "started"
      BY <1>1, <2>4
      DEF HostStep, CheckContext, Probe, Claim, SaveAnalysis, SaveObservation, MarkTarget, Report,
          At, Goto, Return, Canceled, Inv, TypeOK
    <2> QED
      BY <1>1, <2>1, <2>2, <2>3, <2>4 DEF Next, LoopStep
  <1> QED
    BY <1>1, Invariance, PTL DEF Spec, OncePerBatch
=============================================================================
