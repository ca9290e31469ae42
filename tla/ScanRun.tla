------------------------------ MODULE ScanRun ------------------------------
(***************************************************************************)
(* One recorded execution of the scan command (cmd/scan.go) and the tables  *)
(* scan_runs, run_targets and observations it keeps (internal/storage/      *)
(* runs.go): the batch loop with its bounded goroutines, the rounds of the  *)
(* SAN pivot, a streamed input, cancellation, and --resume after the        *)
(* process was interrupted or died.                                        *)
(*                                                                         *)
(* Each database write of a host is a step of its own.  A write may fail.   *)
(* What a host is found to be, its DNS, HTTP and claim work, is a choice    *)
(* among the outcomes processDomain can return.                            *)
(***************************************************************************)
EXTENDS Integers, FiniteSets

CONSTANTS
  Inputs,        \* the hosts of the input list
  Extra,         \* other hosts that certificates name
  Certificate,   \* the authorized SAN candidates of a host (--pivot-san)
  Modes,         \* the ways this scan may be started: "plain", "stream", "aggressive"
  Concurrency,   \* effectiveHostConcurrency
  BatchSize,     \* --batch-size of a streamed input
  MaxPivot,      \* maxSANPivotHosts
  MaxFaults      \* bound: failed writes, crashes and interruptions

Hosts == Inputs \cup Extra

ASSUME ScanAssumption ==
  /\ Inputs # {} /\ IsFiniteSet(Inputs) /\ IsFiniteSet(Extra)
  /\ Inputs \cap Extra = {}
  /\ Certificate \in [Hosts -> SUBSET Hosts]
  /\ Modes \subseteq {"plain", "stream", "aggressive"}
  /\ Concurrency \in Nat \ {0} /\ BatchSize \in Nat \ {0}
  /\ MaxPivot \in Nat /\ MaxFaults \in Nat

VARIABLES
  \* the database
  status,       \* scan_runs.status
  aggressive,   \* the run's profile has the aggressive flag
  target,       \* run_targets.status of a host, "none" without a row
  tally,        \* scan_runs.completed_count
  saved,        \* hosts whose analysis is in the hosts table
  observed,     \* hosts with a row in observations for this run
  \* the process
  phase,        \* "off", "reading" the stream, or in a "round" of the batch loop
  session,      \* the run belongs to a scanSession
  unread,       \* hosts of the stream no batch has held yet
  interrupted,  \* the command's context has ended
  fatal,        \* firstFatal is set
  batch,        \* the hosts the batch started with
  pending,      \* hosts of the round with no goroutine yet
  next,         \* hosts of the next round
  seen,         \* hosts the batch knows of
  pivoted,      \* hosts the pivot has added to the batch
  pc,           \* where each host's goroutine stands
  outcome,      \* domainResult.Outcome as a target status
  unsafe,       \* hosts whose Execute returned ErrUnsafeClaimState
  reported,     \* hosts whose result carries a FatalErr
  unmarked,     \* hosts some MarkTarget of which has failed
  faults        \* faults so far

database == <<status, aggressive, target, tally, saved, observed>>
loop == <<phase, session, unread, batch, pending, next, seen, pivoted>>
stop == <<interrupted, fatal>>
work == <<pc, outcome, unsafe, reported, unmarked>>
vars == <<database, loop, stop, work, faults>>

Steps == {"started", "probing", "claiming", "saving", "observing", "marking", "reporting"}
Outcomes == {"DONE", "SKIPPED", "FAILED", "PENDING"}

Busy == {h \in Hosts : pc[h] \in Steps}
Pending == {h \in Hosts : target[h] = "PENDING"}
Settled == {h \in Hosts : target[h] \in {"DONE", "SKIPPED", "FAILED"}}

(* batchCtx has ended.                                                      *)
Cancelled == interrupted \/ fatal

Fault == faults < MaxFaults /\ faults' = faults + 1
NoFault == UNCHANGED faults

Least(m, n) == IF m <= n THEN m ELSE n

Init ==
  /\ status = "none" /\ aggressive = FALSE
  /\ target = [h \in Hosts |-> "none"]
  /\ tally = 0 /\ saved = {} /\ observed = {}
  /\ phase = "off" /\ session = FALSE /\ unread = {}
  /\ interrupted = FALSE /\ fatal = FALSE
  /\ batch = {} /\ pending = {} /\ next = {} /\ seen = {} /\ pivoted = 0
  /\ pc = [h \in Hosts |-> "idle"]
  /\ outcome = [h \in Hosts |-> "PENDING"]
  /\ unsafe = {} /\ reported = {} /\ unmarked = {}
  /\ faults = 0

-----------------------------------------------------------------------------
(* Batches.                                                                 *)

(* StartRun and AddTargets: INSERT OR IGNORE of the rows, in a transaction. *)
Register(hosts) ==
  target' = [h \in Hosts |-> IF h \in hosts /\ target[h] = "none" THEN "PENDING" ELSE target[h]]

(* The head of the batch loop: fresh counters, queues and goroutines.       *)
BeginBatch(hosts) ==
  /\ phase' = "round"
  /\ batch' = hosts /\ pending' = hosts /\ seen' = hosts
  /\ next' = {} /\ pivoted' = 0 /\ fatal' = FALSE
  /\ pc' = [h \in Hosts |-> "idle"]
  /\ outcome' = [h \in Hosts |-> "PENDING"]
  /\ unsafe' = {} /\ reported' = {}

(* The next hosts of a streamed input: as many as a batch holds.            *)
StreamBatches(hosts) ==
  {b \in SUBSET hosts : Cardinality(b) = Least(BatchSize, Cardinality(hosts))}

(* A new run; a streamed one registers its first batch only.                *)
StartScan ==
  /\ phase = "off" /\ status = "none"
  /\ \E mode \in Modes :
       /\ aggressive' = (mode = "aggressive")
       /\ session' = (mode = "stream")
       /\ \E b \in (IF mode = "stream" THEN StreamBatches(Inputs) ELSE {Inputs}) :
            /\ Register(b) /\ BeginBatch(b)
            /\ unread' = Inputs \ b
  /\ status' = "RUNNING"
  /\ UNCHANGED <<tally, saved, observed, interrupted, unmarked, faults>>

(* A slip: only runs that were closed as interrupted can be resumed.        *)
ResumeClosed ==
  /\ phase = "off" /\ status = "INTERRUPTED" /\ ~aggressive /\ Pending # {}
  /\ BeginBatch(Pending)
  /\ session' = FALSE /\ unread' = {} /\ interrupted' = FALSE
  /\ UNCHANGED <<database, unmarked, faults>>

(* --resume: the targets left pending, in one batch.  It is refused when    *)
(* none is left, and for the options of an aggressive profile.              *)
Resume ==
  /\ phase = "off" /\ status # "none" /\ ~aggressive /\ Pending # {}
  /\ BeginBatch(Pending)
  /\ session' = FALSE /\ unread' = {} /\ interrupted' = FALSE
  /\ UNCHANGED <<database, unmarked, faults>>

(* finishScanSession, or the end of runScan: FinishRun, whose error runScan *)
(* ignores, and the process ends.                                           *)
Finish(result) ==
  /\ phase' = "off"
  /\ \/ status' = result /\ NoFault
     \/ Fault /\ UNCHANGED status

(* Another batch of the stream.  runScan returns at once when the context   *)
(* has ended, before it registers the batch; a failed AddTargets ends the   *)
(* session.                                                                 *)
StreamBatch ==
  /\ phase = "reading" /\ unread # {}
  /\ \E b \in StreamBatches(unread) :
       \/ /\ ~interrupted
          /\ Register(b) /\ BeginBatch(b)
          /\ unread' = unread \ b
          /\ UNCHANGED <<status, faults>>
       \/ /\ interrupted
          /\ unread' = unread \ b
          /\ UNCHANGED <<status, target, phase, batch, pending, next, seen, pivoted, fatal,
                         pc, outcome, unsafe, reported, faults>>
       \/ /\ ~interrupted /\ Fault
          /\ phase' = "off" /\ status' = "FAILED"
          /\ UNCHANGED <<target, unread, batch, pending, next, seen, pivoted, fatal,
                         pc, outcome, unsafe, reported>>
  /\ UNCHANGED <<aggressive, tally, saved, observed, session, interrupted, unmarked>>

StreamEnd ==
  /\ phase = "reading" /\ unread = {}
  /\ Finish(IF interrupted THEN "INTERRUPTED" ELSE "COMPLETED")
  /\ UNCHANGED <<aggressive, target, tally, saved, observed, stop, work,
                 session, unread, batch, pending, next, seen, pivoted>>

-----------------------------------------------------------------------------
(* The rounds of a batch.                                                   *)

(* A slot of the semaphore and a goroutine.  The select may still take this *)
(* branch when the context has ended.                                       *)
StartHost(h) ==
  /\ phase = "round" /\ h \in pending /\ Cardinality(Busy) < Concurrency
  /\ pending' = pending \ {h}
  /\ pc' = [pc EXCEPT ![h] = "started"]
  /\ UNCHANGED <<database, phase, session, unread, batch, next, seen, pivoted, stop,
                 outcome, unsafe, reported, unmarked, faults>>

(* wg.Wait has returned.                                                    *)
RoundOver == phase = "round" /\ Busy = {} /\ (pending = {} \/ Cancelled)

NextRound ==
  /\ RoundOver /\ ~Cancelled /\ next # {}
  /\ pending' = next /\ next' = {}
  /\ UNCHANGED <<database, phase, session, unread, batch, seen, pivoted, stop, work, faults>>

(* A slip: an interrupted batch closed like any other.                      *)
VerdictIgnoresContext == IF fatal THEN "FAILED" ELSE "COMPLETED"

Verdict == IF fatal THEN "FAILED" ELSE IF interrupted THEN "INTERRUPTED" ELSE "COMPLETED"

(* The end of the loop.  A run in a session is closed by the session, or at *)
(* once when the policy of --fail-on-severity makes runScan an error.       *)
EndBatch ==
  /\ RoundOver /\ (Cancelled \/ next = {})
  /\ \/ ~session /\ Finish(Verdict)
     \/ /\ session
        /\ phase' = "reading"
        /\ status' = IF interrupted THEN "INTERRUPTED" ELSE status
        /\ NoFault
     \/ session /\ observed # {} /\ Finish(IF interrupted THEN "INTERRUPTED" ELSE "FAILED")
  /\ UNCHANGED <<aggressive, target, tally, saved, observed, stop, work,
                 session, unread, batch, pending, next, seen, pivoted>>

-----------------------------------------------------------------------------
(* The goroutine of a host: processDomain, then what the loop does with its *)
(* result.                                                                  *)

At(h, step) == phase = "round" /\ pc[h] = step
Goto(h, step) == pc' = [pc EXCEPT ![h] = step]

(* processDomain returns.                                                   *)
Return(h, result) ==
  /\ Goto(h, "marking")
  /\ outcome' = [outcome EXCEPT ![h] = result]

Canceled(h) == Return(h, "PENDING")

(* A slip: a cancelled goroutine ends without giving back its slot.         *)
CheckContextLeaks(h) ==
  /\ At(h, "started") /\ ~Cancelled
  /\ Goto(h, "probing")
  /\ UNCHANGED <<database, loop, stop, outcome, unsafe, reported, unmarked, faults>>

CheckContext(h) ==
  /\ At(h, "started")
  /\ IF Cancelled THEN Canceled(h) ELSE Goto(h, "probing") /\ UNCHANGED outcome
  /\ UNCHANGED <<database, loop, stop, unsafe, reported, unmarked, faults>>

(* Discovery, history, evidence and verification: a wildcard or an empty    *)
(* result, an analysis to keep, or an error.  Once the context has ended an *)
(* error is a cancellation, but for one of the history (scan.go:1160-1164), *)
(* which is a failure all the same.                                         *)
Probe(h) ==
  /\ At(h, "probing")
  /\ \/ Return(h, "SKIPPED")
     \/ Return(h, "FAILED")
     \/ Cancelled /\ Return(h, "PENDING")
     \/ Goto(h, "claiming") /\ UNCHANGED outcome
  /\ UNCHANGED <<database, loop, stop, unsafe, reported, unmarked, faults>>

(* The claim of an aggressive scan, which may leave an unsafe state; then   *)
(* the context again.                                                       *)
Claim(h) ==
  /\ At(h, "claiming")
  /\ unsafe' \in {unsafe} \cup (IF aggressive THEN {unsafe \cup {h}} ELSE {})
  /\ IF Cancelled THEN Canceled(h) ELSE Goto(h, "saving") /\ UNCHANGED outcome
  /\ UNCHANGED <<database, loop, stop, reported, unmarked, faults>>

(* SaveAnalysis; its failure joins the claim's.                             *)
SaveAnalysis(h) ==
  /\ At(h, "saving")
  /\ \/ /\ saved' = saved \cup {h} /\ NoFault
        /\ Goto(h, "observing") /\ UNCHANGED <<outcome, reported>>
     \/ /\ Fault /\ UNCHANGED saved
        /\ IF Cancelled THEN Canceled(h) /\ UNCHANGED reported
           ELSE Return(h, "FAILED") /\ reported' = reported \cup (unsafe \cap {h})
  /\ UNCHANGED <<status, aggressive, target, tally, observed, loop, stop, unsafe, unmarked>>

(* A slip: the error of SaveObservation is only logged.                     *)
SaveObservationLogged(h) ==
  /\ At(h, "observing")
  /\ \/ observed' = observed \cup {h} /\ NoFault
     \/ Fault /\ UNCHANGED observed
  /\ Return(h, IF h \in unsafe THEN "FAILED" ELSE "DONE")
  /\ reported' = reported \cup (unsafe \cap {h})
  /\ UNCHANGED <<status, aggressive, target, tally, saved, loop, stop, unsafe, unmarked>>

(* SaveObservation.  A failure returns without the claim's error.           *)
SaveObservation(h) ==
  /\ At(h, "observing")
  /\ \/ /\ observed' = observed \cup {h} /\ NoFault
        /\ Return(h, IF h \in unsafe THEN "FAILED" ELSE "DONE")
        /\ reported' = reported \cup (unsafe \cap {h})
     \/ /\ Fault /\ Return(h, "FAILED")
        /\ UNCHANGED <<observed, reported>>
  /\ UNCHANGED <<status, aggressive, target, tally, saved, loop, stop, unsafe, unmarked>>

(* A slip: a cancelled host stored under a status of its own.               *)
OutcomeStatusOwn(h) == IF outcome[h] = "PENDING" THEN "CANCELED" ELSE outcome[h]

OutcomeStatus(h) == outcome[h]

(* MarkTarget: the row if there is one, then the count in a second          *)
(* statement; either may fail and nobody looks at the error.                *)
MarkTarget(h) ==
  LET row == target[h] # "none"
      marked == [target EXCEPT ![h] = IF row THEN OutcomeStatus(h) ELSE "none"]
      closed == {g \in Hosts : marked[g] \notin {"none", "PENDING"}}
  IN /\ At(h, "marking")
     /\ Goto(h, "reporting")
     /\ \/ /\ target' = marked /\ NoFault
           /\ tally' = IF row /\ OutcomeStatus(h) # "PENDING" THEN Cardinality(closed) ELSE tally
           /\ UNCHANGED unmarked
        \/ Fault /\ target' = marked /\ UNCHANGED tally /\ unmarked' = unmarked \cup {h}
        \/ Fault /\ UNCHANGED <<target, tally>> /\ unmarked' = unmarked \cup {h}
     /\ UNCHANGED <<status, aggressive, saved, observed, loop, stop, outcome, unsafe, reported>>

(* A slip of queueSANs: a limit that forgets the hosts of earlier calls.    *)
QueueFreshLimit(h) ==
  LET new == Certificate[h] \ seen
  IN {q \in SUBSET new : Cardinality(q) = Least(Cardinality(new), MaxPivot)}

(* queueSANs: the new candidates, in certificate order, within the limit.   *)
QueueSANs(h) ==
  LET new == Certificate[h] \ seen
  IN {q \in SUBSET new : Cardinality(q) = Least(Cardinality(new), MaxPivot - pivoted)}

(* A slip: the fatal error does not end the batch.                          *)
ReportQuietly(h) ==
  /\ At(h, "reporting") /\ Goto(h, "done")
  /\ \E queued \in (IF outcome[h] = "DONE" THEN QueueSANs(h) ELSE {{}}) :
       /\ next' = next \cup queued /\ seen' = seen \cup queued
       /\ pivoted' = pivoted + Cardinality(queued)
  /\ UNCHANGED <<database, phase, session, unread, batch, pending, stop,
                 outcome, unsafe, reported, unmarked, faults>>

(* The candidates of a finished analysis join the next round, a fatal error *)
(* ends the batch, and the slot is free again.  (With a fatal error no next *)
(* round is run, so its candidates need not be queued.)                     *)
Report(h) ==
  /\ At(h, "reporting") /\ Goto(h, "done")
  /\ \E queued \in (IF outcome[h] = "DONE" THEN QueueSANs(h) ELSE {{}}) :
       /\ next' = next \cup queued /\ seen' = seen \cup queued
       /\ pivoted' = pivoted + Cardinality(queued)
  /\ fatal' = (fatal \/ h \in reported)
  /\ UNCHANGED <<database, phase, session, unread, batch, pending, interrupted,
                 outcome, unsafe, reported, unmarked, faults>>

HostStep(h) ==
  \/ CheckContext(h) \/ Probe(h) \/ Claim(h) \/ SaveAnalysis(h)
  \/ SaveObservation(h) \/ MarkTarget(h) \/ Report(h)

-----------------------------------------------------------------------------
(* SIGINT or SIGTERM.                                                       *)
Interrupt ==
  /\ phase # "off" /\ ~interrupted /\ Fault
  /\ interrupted' = TRUE
  /\ UNCHANGED <<database, loop, fatal, work>>

(* The process dies: the tables remain.                                     *)
Crash ==
  /\ phase # "off" /\ Fault
  /\ phase' = "off"
  /\ pc' = [h \in Hosts |-> "idle"]
  /\ UNCHANGED <<database, session, unread, batch, pending, next, seen, pivoted, stop,
                 outcome, unsafe, reported, unmarked>>

LoopStep ==
  \/ StreamBatch \/ StreamEnd \/ NextRound \/ EndBatch
  \/ \E h \in Hosts : StartHost(h)

Next ==
  \/ StartScan \/ Resume \/ Interrupt \/ Crash
  \/ LoopStep
  \/ \E h \in Hosts : HostStep(h)

Spec == Init /\ [][Next]_vars

(* The loop and every goroutine go on, their calls being bounded by         *)
(* timeouts, and the operator resumes a run that has targets left.          *)
Fairness ==
  /\ WF_vars(LoopStep) /\ WF_vars(Resume)
  /\ \A h \in Hosts : WF_vars(HostStep(h))

FairSpec == Spec /\ Fairness

-----------------------------------------------------------------------------
(* Properties.                                                              *)

TypeOK ==
  /\ status \in {"none", "RUNNING", "COMPLETED", "INTERRUPTED", "FAILED"}
  /\ aggressive \in BOOLEAN /\ session \in BOOLEAN
  /\ target \in [Hosts -> {"none"} \cup Outcomes]
  /\ tally \in Nat
  /\ saved \subseteq Hosts /\ observed \subseteq Hosts
  /\ phase \in {"off", "reading", "round"}
  /\ unread \subseteq Inputs
  /\ interrupted \in BOOLEAN /\ fatal \in BOOLEAN
  /\ batch \subseteq Hosts /\ pending \subseteq Hosts
  /\ next \subseteq Hosts /\ seen \subseteq Hosts
  /\ pivoted \in Nat
  /\ pc \in [Hosts -> {"idle", "done"} \cup Steps]
  /\ outcome \in [Hosts -> Outcomes]
  /\ unsafe \subseteq Hosts /\ reported \subseteq Hosts /\ unmarked \subseteq Hosts
  /\ faults \in 0 .. MaxFaults

(* A target recorded as DONE has its analysis and its observation in the    *)
(* database, wherever the process died or a write failed: --resume never    *)
(* skips a host whose result was lost, and diff and replay see all of them. *)
DoneIsSaved ==
  \A h \in Hosts : target[h] = "DONE" => h \in saved /\ h \in observed

(* A run recorded as COMPLETED has no target left to resume and counts all  *)
(* of them, unless the write of an outcome failed, which nobody looks at.   *)
CompletedIsSettled ==
  status = "COMPLETED" /\ unmarked = {} =>
    /\ Pending = {}
    /\ tally = Cardinality(Settled)

(* The pivot never takes more than maxSANPivotHosts hosts into a batch,     *)
(* however many goroutines of however many rounds offer candidates.         *)
PivotBounded == Cardinality(seen \ batch) <= MaxPivot

(* An aggressive run that left an unsafe claim behind is not recorded as    *)
(* COMPLETED once the host's observation was stored.                        *)
UnsafeStopsRun ==
  status = "COMPLETED" => unsafe \cap observed = {}

(* docs/claim-engine.md:45: after a failed release the engine cancels the   *)
(* rest of the aggressive run and returns an error, whatever else failed.   *)
UnsafeRunFails == status = "COMPLETED" => unsafe = {}

(* After cancellation, the operator's or that of a fatal claim, no host     *)
(* gets past the first look at its context.                                 *)
StoppedStartsNothing ==
  [][Cancelled => \A h \in Hosts : pc'[h] = "probing" => pc[h] = "probing"]_vars

(* A host is worked on once per batch: neither the input nor the pivot      *)
(* brings back one that has a goroutine or has been finished.               *)
OncePerBatch ==
  [][\A h \in Hosts : pc[h] \in Steps \cup {"done"} => pc'[h] # "started" \/ pc[h] = "started"]_vars

(* A scan always ends: the semaphore, the rounds and the stream never wait  *)
(* for each other.                                                          *)
ScanEnds == phase # "off" ~> phase = "off"

(* Every registered target gets its outcome, through interruptions, crashes *)
(* and failed writes, if the operator keeps resuming.                       *)
EveryTargetSettles ==
  \A h \in Hosts : target[h] = "PENDING" /\ ~aggressive ~> target[h] # "PENDING"
=============================================================================
