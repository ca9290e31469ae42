---------------------------- MODULE ClaimEngine ----------------------------
(***************************************************************************)
(* The aggressive claim engine (internal/claim) with the S3 and Route 53    *)
(* adapters and the claim_audits table it writes ahead to.                 *)
(*                                                                         *)
(* One scan process runs Execute for each host on a goroutine of its own    *)
(* and, before any of them, Reconcile.  Both hold operationMu.  Every call  *)
(* to a provider and every write of an audit row is one step, so that the   *)
(* process can stop between any two.  A call may fail without effect, and   *)
(* one that changes something may also take effect and report an error.     *)
(***************************************************************************)
EXTENDS Integers

CONSTANTS
  Hosts,       \* the eligible, allow-listed hosts of the scan (engine.go:66-72)
  Resources,   \* the provider resources their candidates name
  ResourceOf,  \* the resource a host's chosen candidate names
  Kind,        \* "s3", "route53", or "none": no adapter supports the candidate
  Reconciler,  \* the caller of Reconcile, an actor beside the hosts
  Free,        \* operationMu is not held; also the resource of an unused row
  Homonyms,    \* who else makes buckets: none, some or all of Others
  MaxAudits,   \* bound: rows of claim_audits
  MaxFaults    \* bound: failed calls, failed writes and crashes

AuditIds == 1 .. MaxAudits
Colleague == 0     \* makes buckets in the same account
Stranger == -1     \* makes buckets in another account
Others == {Colleague, Stranger}

ASSUME EngineAssumption ==
  /\ ResourceOf \in [Hosts -> Resources]
  /\ Kind \in [Resources -> {"s3", "route53", "none"}]
  /\ Reconciler \notin Hosts
  /\ Free \notin Hosts \cup Resources \cup {Reconciler}
  /\ Homonyms \subseteq Others
  /\ MaxAudits \in Nat /\ MaxFaults \in Nat

Actors == Hosts \cup {Reconciler}

Statuses == {"UNUSED", "UNSUPPORTED", "ATTEMPTING", "CLAIM_SUCCEEDED",
             "CLAIM_FAILED", "RELEASE_PENDING", "RELEASE_SUCCEEDED", "RELEASE_FAILED"}
Receipts == {"none", "provisional", "full"}

VARIABLES
  audits,      \* claim_audits: row id -> status, resource and receipt_json
  live,        \* what exists at the providers: resource, who made it, whether the
               \* proof is there, and whether its creator was told that it failed
  lock,        \* holder of operationMu
  halted,      \* haltedErr is set
  attempted,   \* resources already tried by this process
  pc,          \* where each actor stands
  cur,         \* the audit row each actor works on
  controlled,  \* hosts that were given the control evidence
  todo,        \* rows Reconcile has still to look at
  failures,    \* rows Reconcile could not settle, 0 for a failed query
  faults       \* faults injected so far

durable == <<audits, live>>
process == <<lock, halted, attempted, pc, cur, controlled, todo, failures>>
vars == <<durable, process, faults>>

HostSteps == {"ready", "head", "create", "compare", "put", "undo", "claimFailed",
              "claimed", "verify", "pending", "deleteObject", "deleteContainer",
              "releaseFailed", "released"}
Final == {"succeeded", "failed", "unsafe", "skipped"}
ReconcileSteps == {"list", "next", "recover", "absent", "bind", "pending",
                   "deleteObject", "deleteContainer", "releaseFailed", "released"}

PendingStatuses == {"ATTEMPTING", "CLAIM_SUCCEEDED", "RELEASE_PENDING", "RELEASE_FAILED"}

(* The rows PendingClaimAudits returns.                                     *)
Pending(a) == audits[a].status \in PendingStatuses /\ audits[a].receipt # "none"

Own(a) == {i \in live : i.by = a}
Named(r) == {i \in live : i.res = r}
Made == {i \in live : i.by \in AuditIds}
Known == {i \in Made : ~i.disowned}

Res(p) == audits[cur[p]].res
IsS3(p) == Kind[Res(p)] = "s3"

NoRow == [status |-> "UNUSED", res |-> Free, receipt |-> "none"]

Init ==
  /\ audits = [a \in AuditIds |-> NoRow]
  /\ live = {}
  /\ lock = Free /\ halted = FALSE /\ attempted = {}
  /\ pc = [p \in Actors |-> "off"]
  /\ cur = [p \in Actors |-> 0]
  /\ controlled = {} /\ todo = {} /\ failures = {}
  /\ faults = 0

-----------------------------------------------------------------------------
(* Faults, writes and the ends of an operation.                             *)

Fault == faults < MaxFaults /\ faults' = faults + 1
NoFault == UNCHANGED faults

(* engine.update: one UPDATE of a row.  The receipt column is overwritten   *)
(* and stays empty when the receipt has no external id.                     *)
Write(a, status, receipt) ==
  audits' = [audits EXCEPT ![a] = [@ EXCEPT !.status = status, !.receipt = receipt]]

Goto(p, step) == pc' = [pc EXCEPT ![p] = step]

(* Execute returns: its deferred unlock runs.                               *)
Return(h, result) ==
  /\ Goto(h, result)
  /\ lock' = Free
  /\ UNCHANGED <<attempted, cur, controlled, todo, failures>>

(* A record of Reconcile is left unsettled: noted, and on to the next one.  *)
GiveUp(p) ==
  /\ Goto(p, "next")
  /\ failures' = failures \cup {cur[p]}
  /\ UNCHANGED <<lock, halted, attempted, cur, controlled, todo>>

Move(p, step) ==
  /\ Goto(p, step)
  /\ UNCHANGED <<lock, halted, attempted, cur, controlled, todo, failures>>

-----------------------------------------------------------------------------
(* Execute, up to the provider call.  Nothing but the row is written        *)
(* between taking the lock and calling the provider, so this is one step.   *)

NextId(a) == audits[a].status = "UNUSED" /\ \A b \in 1 .. (a - 1) : audits[b].status # "UNUSED"

(* Slips the insert could have: a status the pending query does not list,   *)
(* or a receipt left empty until the resource is allocated.                 *)
InsertUnlistedStatus(a, h, status, receipt) ==
  audits' = [audits EXCEPT ![a] = [status |-> "STARTED", res |-> ResourceOf[h], receipt |-> receipt]]
InsertWithoutReceipt(a, h, status, receipt) ==
  audits' = [audits EXCEPT ![a] = [status |-> status, res |-> ResourceOf[h], receipt |-> "none"]]

Insert(a, h, status, receipt) ==
  audits' = [audits EXCEPT ![a] = [status |-> status, res |-> ResourceOf[h], receipt |-> receipt]]

(* A slip: Execute without operationMu.                                     *)
AcquiresUnlocked(h) == pc[h] = "ready"

Acquires(h) == pc[h] = "ready" /\ lock = Free

(* haltedErr is set: no claim.                                              *)
ExecuteHalted(h) ==
  /\ Acquires(h) /\ halted
  /\ Move(h, "unsafe")
  /\ UNCHANGED <<durable, faults>>

(* No adapter for any candidate: an UNSUPPORTED row, or a failed insert.    *)
ExecuteUnsupported(h) ==
  /\ Acquires(h) /\ ~halted
  /\ Kind[ResourceOf[h]] = "none"
  /\ \/ /\ \E a \in AuditIds : NextId(a) /\ Insert(a, h, "UNSUPPORTED", "none")
        /\ Move(h, "skipped") /\ NoFault
     \/ Fault /\ Move(h, "failed") /\ UNCHANGED audits
  /\ UNCHANGED live

(* CLAIM_DUPLICATE_RESOURCE_SKIPPED.                                        *)
ExecuteDuplicate(h) ==
  /\ Acquires(h) /\ ~halted
  /\ Kind[ResourceOf[h]] # "none" /\ ResourceOf[h] \in attempted
  /\ Move(h, "skipped")
  /\ UNCHANGED <<durable, faults>>

(* beginAttempt, and the provisional record written ahead of the call.      *)
ExecuteAttempt(h) ==
  /\ Acquires(h) /\ ~halted
  /\ Kind[ResourceOf[h]] # "none" /\ ResourceOf[h] \notin attempted
  /\ attempted' = attempted \cup {ResourceOf[h]}
  /\ \/ \E a \in AuditIds :
          /\ NextId(a)
          /\ Insert(a, h, "ATTEMPTING", "provisional")
          /\ lock' = h
          /\ cur' = [cur EXCEPT ![h] = a]
          /\ Goto(h, IF Kind[ResourceOf[h]] = "s3" THEN "head" ELSE "create")
          /\ NoFault
     \/ Fault /\ Goto(h, "failed") /\ UNCHANGED <<audits, lock, cur>>
  /\ UNCHANGED <<live, halted, controlled, todo, failures>>

Execute(h) ==
  ExecuteHalted(h) \/ ExecuteUnsupported(h) \/ ExecuteDuplicate(h) \/ ExecuteAttempt(h)

-----------------------------------------------------------------------------
(* provider.Claim, call by call.                                            *)

(* HeadBucket must prove that the bucket is absent.                         *)
ClaimHead(h) ==
  /\ pc[h] = "head"
  /\ \/ Named(Res(h)) = {} /\ Move(h, "create") /\ NoFault
     \/ Named(Res(h)) # {} /\ Move(h, "claimFailed") /\ NoFault
     \/ Fault /\ Move(h, "claimFailed")
  /\ UNCHANGED durable

(* What an attempt makes: a zone carries the token in its CallerReference   *)
(* from the start, a bucket only once the proof object is in it.            *)
Resource(h, disowned) ==
  [res |-> Res(h), by |-> cur[h], proof |-> ~IsS3(h), disowned |-> disowned]

(* CreateBucket or CreateHostedZone.  A bucket name is taken only once (in  *)
(* us-east-1 alone its owner gets a success for an answer, which is left    *)
(* out).  Of a call that reports an error the engine takes it that nothing  *)
(* was made, although the reply of one that took effect may have been lost: *)
(* it disowns what it made.                                                 *)
ClaimCreate(h) ==
  LET taken == IsS3(h) /\ Named(Res(h)) # {}
  IN /\ pc[h] = "create"
     /\ \/ /\ ~taken /\ live' = live \cup {Resource(h, FALSE)} /\ NoFault
           /\ Move(h, IF IsS3(h) THEN "put" ELSE "compare")
        \/ taken /\ Move(h, "claimFailed") /\ NoFault /\ UNCHANGED live
        \/ /\ Fault /\ Move(h, "claimFailed")
           /\ \/ UNCHANGED live
              \/ ~taken /\ live' = live \cup {Resource(h, TRUE)}
     /\ UNCHANGED audits

(* The Route 53 answer: the delegated name servers, others, or no zone id,  *)
(* which leaves the row in ATTEMPTING and halts the engine.                 *)
ClaimCompare(h) ==
  /\ pc[h] = "compare"
  /\ \/ Move(h, "claimed") /\ UNCHANGED <<durable, faults>>
     \/ Move(h, "undo") /\ UNCHANGED <<durable, faults>>
     \/ Fault /\ halted' = TRUE /\ Return(h, "unsafe") /\ UNCHANGED durable

(* PutObject of the proof.                                                  *)
ClaimPut(h) ==
  LET proved == {[i EXCEPT !.proof = i.proof \/ i.by = cur[h]] : i \in live}
  IN /\ pc[h] = "put"
     /\ \/ live' = proved /\ Move(h, "claimed") /\ NoFault
        \/ /\ Fault /\ Move(h, "undo")
           /\ \/ UNCHANGED live
              \/ live' = proved
     /\ UNCHANGED audits

(* What deleting the container of p's receipt takes away: S3 deletes by     *)
(* name, Route 53 by the id of the zone the attempt made.                   *)
Doomed(p) == IF IsS3(p) THEN Named(Res(p)) ELSE Own(cur[p])

(* A slip: Release takes an absent bucket for an error.                     *)
RefusedWhenAbsent(p) ==
  Doomed(p) = {} \/ \E i \in Doomed(p) : i.proof \/ i.by = Stranger

(* The delete is refused: a bucket with the object in it or of another      *)
(* account, a zone that no longer exists.  An absent bucket is tolerated.   *)
Refused(p) ==
  IF IsS3(p)
  THEN \E i \in Doomed(p) : i.proof \/ i.by = Stranger
  ELSE Doomed(p) = {}

(* One DeleteBucket or DeleteHostedZone call, and where its answer leads.   *)
Delete(p, done, failed) ==
  \/ ~Refused(p) /\ live' = live \ Doomed(p) /\ Move(p, done) /\ NoFault
  \/ Refused(p) /\ Move(p, failed) /\ NoFault /\ UNCHANGED live
  \/ /\ Fault /\ Move(p, failed)
     /\ \/ UNCHANGED live
        \/ ~Refused(p) /\ live' = live \ Doomed(p)

(* A slip: a failed clean-up returned as a plain error, without the receipt. *)
ClaimUndoForgets(h) ==
  /\ pc[h] = "undo"
  /\ Delete(h, "claimFailed", "claimFailed")
  /\ UNCHANGED audits

(* The adapter's own clean-up after a failed proof or a mismatch.  When it  *)
(* fails the engine gets a ClaimFailure with the receipt.                   *)
ClaimUndo(h) ==
  /\ pc[h] = "undo"
  /\ Delete(h, "claimFailed", "pending")
  /\ UNCHANGED audits

-----------------------------------------------------------------------------
(* Execute, after the provider call.                                        *)

ClaimFailed(h) ==
  /\ pc[h] = "claimFailed"
  /\ \/ Write(cur[h], "CLAIM_FAILED", "none") /\ NoFault
     \/ Fault /\ UNCHANGED audits
  /\ Return(h, "failed")
  /\ UNCHANGED <<live, halted>>

(* The receipt is persisted, or the resource is rolled back at once.        *)
ClaimSucceeded(h) ==
  /\ pc[h] = "claimed"
  /\ \/ Write(cur[h], "CLAIM_SUCCEEDED", "full") /\ Move(h, "verify") /\ NoFault
     \/ Fault /\ UNCHANGED audits /\ Move(h, IF IsS3(h) THEN "deleteObject" ELSE "deleteContainer")
  /\ UNCHANGED live

(* VerifyControl, and the control evidence when it is positive.             *)
VerifyControl(h) ==
  /\ pc[h] = "verify"
  /\ \/ /\ \E i \in Own(cur[h]) : i.proof
        /\ controlled' = controlled \cup {h} /\ NoFault
     \/ Fault /\ UNCHANGED controlled
  /\ Goto(h, "pending")
  /\ UNCHANGED <<durable, lock, halted, attempted, cur, todo, failures>>

(* RELEASE_PENDING.  Execute goes on when the write fails, Reconcile does   *)
(* not.                                                                     *)
ReleasePending(p) ==
  LET release == IF IsS3(p) THEN "deleteObject" ELSE "deleteContainer"
  IN /\ pc[p] = "pending"
     /\ \/ Write(cur[p], "RELEASE_PENDING", "full") /\ Move(p, release) /\ NoFault
        \/ /\ Fault /\ UNCHANGED audits
           /\ IF p = Reconciler THEN GiveUp(p) ELSE Move(p, release)
     /\ UNCHANGED live

(* S3 Release: DeleteObject of the proof, then DeleteBucket.                *)
ReleaseObject(p) ==
  LET bare == {[i EXCEPT !.proof = i.proof /\ i.by # cur[p]] : i \in live}
      denied == \E i \in Named(Res(p)) : i.by = Stranger
  IN /\ pc[p] = "deleteObject"
     /\ \/ ~denied /\ live' = bare /\ Move(p, "deleteContainer") /\ NoFault
        \/ denied /\ Move(p, "releaseFailed") /\ NoFault /\ UNCHANGED live
        \/ /\ Fault /\ Move(p, "releaseFailed")
           /\ \/ UNCHANGED live
              \/ ~denied /\ live' = bare
     /\ UNCHANGED audits

ReleaseContainer(p) ==
  /\ pc[p] = "deleteContainer"
  /\ Delete(p, "released", "releaseFailed")
  /\ UNCHANGED audits

(* A slip: a failed release does not halt the engine.                       *)
ReleaseFailedGoesOn(p) ==
  /\ pc[p] = "releaseFailed"
  /\ Write(cur[p], "RELEASE_FAILED", "full")
  /\ IF p = Reconciler THEN GiveUp(p) ELSE UNCHANGED halted /\ Return(p, "failed")
  /\ UNCHANGED <<live, faults>>

(* RELEASE_FAILED; Execute halts the engine, written or not.                *)
ReleaseFailed(p) ==
  /\ pc[p] = "releaseFailed"
  /\ \/ Write(cur[p], "RELEASE_FAILED", "full") /\ NoFault
     \/ Fault /\ UNCHANGED audits
  /\ IF p = Reconciler THEN GiveUp(p) ELSE halted' = TRUE /\ Return(p, "unsafe")
  /\ UNCHANGED live

(* RELEASE_SUCCEEDED.  Execute succeeds only with control proven and the    *)
(* row written; a failed write is an error and does not halt the engine.    *)
ReleaseSucceeded(p) ==
  /\ pc[p] = "released"
  /\ \/ /\ Write(cur[p], "RELEASE_SUCCEEDED", "full") /\ NoFault
        /\ IF p = Reconciler THEN Move(p, "next")
           ELSE UNCHANGED halted /\ Return(p, IF p \in controlled THEN "succeeded" ELSE "failed")
     \/ /\ Fault /\ UNCHANGED audits
        /\ IF p = Reconciler THEN GiveUp(p) ELSE UNCHANGED halted /\ Return(p, "failed")
  /\ UNCHANGED live

-----------------------------------------------------------------------------
(* Reconcile, the first thing an aggressive scan does.                      *)

(* PendingClaimAudits, or a failed query.                                   *)
ReconcileList ==
  /\ pc[Reconciler] = "list"
  /\ \/ todo' = {a \in AuditIds : Pending(a)} /\ UNCHANGED failures /\ NoFault
     \/ Fault /\ failures' = {0} /\ UNCHANGED todo
  /\ Goto(Reconciler, "next")
  /\ UNCHANGED <<durable, lock, halted, attempted, cur, controlled>>

(* The records in the order of their ids.                                   *)
ReconcileNext ==
  /\ pc[Reconciler] = "next"
  /\ \E a \in todo :
       /\ \A b \in todo : a <= b
       /\ todo' = todo \ {a}
       /\ cur' = [cur EXCEPT ![Reconciler] = a]
       /\ Goto(Reconciler, IF audits[a].status = "ATTEMPTING" THEN "recover" ELSE "pending")
  /\ UNCHANGED <<durable, lock, halted, attempted, controlled, failures, faults>>

(* A slip: any bucket of the expected name is taken for the attempt's.      *)
ReconcileRecoverByName ==
  LET p == Reconciler IN
  /\ pc[p] = "recover"
  /\ IF Named(Res(p)) # {} THEN Move(p, "bind") ELSE Move(p, "absent")
  /\ UNCHANGED <<durable, faults>>

(* RecoverClaim: only a resource that carries the attempt's token is found; *)
(* a bucket without it is an error, zones of the same name are passed over. *)
ReconcileRecover ==
  LET p == Reconciler IN
  /\ pc[p] = "recover"
  /\ \/ (\E i \in Own(cur[p]) : i.proof) /\ Move(p, "bind") /\ NoFault
     \/ /\ ~ \E i \in Own(cur[p]) : i.proof
        /\ IF IsS3(p) /\ Named(Res(p)) # {} THEN GiveUp(p) ELSE Move(p, "absent")
        /\ NoFault
     \/ Fault /\ GiveUp(p)
  /\ UNCHANGED durable

ReconcileAbsent ==
  /\ pc[Reconciler] = "absent"
  /\ \/ Write(cur[Reconciler], "CLAIM_FAILED", "none") /\ Move(Reconciler, "next") /\ NoFault
     \/ Fault /\ GiveUp(Reconciler) /\ UNCHANGED audits
  /\ UNCHANGED live

ReconcileBind ==
  /\ pc[Reconciler] = "bind"
  /\ \/ Write(cur[Reconciler], "CLAIM_SUCCEEDED", "full") /\ Move(Reconciler, "pending") /\ NoFault
     \/ Fault /\ GiveUp(Reconciler) /\ UNCHANGED audits
  /\ UNCHANGED live

(* All records seen: the scan starts, or it is refused and the process ends. *)
ReconcileEnd ==
  /\ pc[Reconciler] = "next" /\ todo = {}
  /\ lock' = Free
  /\ IF failures = {}
     THEN /\ halted' = FALSE
          /\ pc' = [p \in Actors |-> IF p = Reconciler THEN "serving" ELSE "ready"]
     ELSE /\ halted' = TRUE
          /\ pc' = [p \in Actors |-> "off"]
  /\ UNCHANGED <<durable, attempted, cur, controlled, todo, failures, faults>>

-----------------------------------------------------------------------------
(* The process and the world around it.                                     *)

Idle(h) == pc[h] \in {"ready"} \cup Final

(* A new aggressive scan: a new engine, then Reconcile.                      *)
Start ==
  /\ pc[Reconciler] = "off"
  /\ pc' = [p \in Actors |-> IF p = Reconciler THEN "list" ELSE "off"]
  /\ lock' = Reconciler
  /\ halted' = FALSE /\ attempted' = {} /\ controlled' = {}
  /\ cur' = [p \in Actors |-> 0]
  /\ todo' = {} /\ failures' = {}
  /\ UNCHANGED <<durable, faults>>

Stop ==
  /\ pc' = [p \in Actors |-> "off"]
  /\ lock' = Free
  /\ UNCHANGED <<durable, halted, attempted, cur, controlled, todo, failures>>

(* The scan ends, or is interrupted, once no goroutine is inside Execute or *)
(* waits for operationMu.                                                   *)
Exit ==
  /\ pc[Reconciler] = "serving" /\ lock = Free /\ \A h \in Hosts : Idle(h)
  /\ Stop /\ NoFault

(* The process dies at any point: only the table and the world remain.      *)
Crash == pc[Reconciler] # "off" /\ Fault /\ Stop

(* Somebody else makes a bucket of a free name.                             *)
Occupy(r) ==
  /\ Kind[r] = "s3" /\ Named(r) = {}
  /\ \E other \in Homonyms :
       live' = live \cup {[res |-> r, by |-> other, proof |-> FALSE, disowned |-> FALSE]}
  /\ UNCHANGED <<audits, process, faults>>

(* The clean-up the documentation asks of the operator: an attempt's bucket *)
(* without proof, which Reconcile refuses to touch.                         *)
ManualCleanup(i) ==
  /\ pc[Reconciler] = "off"
  /\ i \in Made /\ Kind[i.res] = "s3" /\ ~i.proof
  /\ live' = live \ {i}
  /\ UNCHANGED <<audits, process, faults>>

-----------------------------------------------------------------------------
HostStep(h) ==
  \/ Execute(h) \/ ClaimHead(h) \/ ClaimCreate(h) \/ ClaimCompare(h) \/ ClaimPut(h)
  \/ ClaimUndo(h) \/ ClaimFailed(h) \/ ClaimSucceeded(h) \/ VerifyControl(h)

ReleaseStep(p) ==
  \/ ReleasePending(p) \/ ReleaseObject(p) \/ ReleaseContainer(p)
  \/ ReleaseFailed(p) \/ ReleaseSucceeded(p)

ReconcileStep ==
  \/ ReconcileList \/ ReconcileNext \/ ReconcileRecover \/ ReconcileAbsent
  \/ ReconcileBind \/ ReconcileEnd

Next ==
  \/ \E h \in Hosts : HostStep(h)
  \/ \E p \in Actors : ReleaseStep(p)
  \/ ReconcileStep
  \/ Start \/ Exit \/ Crash
  \/ \E r \in Resources : Occupy(r)
  \/ \E i \in live : ManualCleanup(i)

Spec == Init /\ [][Next]_vars

(* Calls return (they have timeouts or the context's end), an unlocked      *)
(* mutex is taken, a finished scan exits; and the operator runs the scan    *)
(* again and, sooner or later between two runs, does the clean-up he is     *)
(* asked for.                                                               *)
Fairness ==
  /\ \A h \in Hosts : WF_vars(HostStep(h))
  /\ \A p \in Actors : WF_vars(ReleaseStep(p))
  /\ WF_vars(ReconcileStep) /\ WF_vars(Start) /\ WF_vars(Exit)
  /\ SF_vars(\E i \in live : ManualCleanup(i))

FairSpec == Spec /\ Fairness

-----------------------------------------------------------------------------
(* Properties.                                                              *)

Row == [status : Statuses, res : Resources \cup {Free}, receipt : Receipts]
World == [res : Resources, by : AuditIds \cup Others, proof : BOOLEAN, disowned : BOOLEAN]

TypeOK ==
  /\ audits \in [AuditIds -> Row]
  /\ live \subseteq World
  /\ lock \in Actors \cup {Free}
  /\ halted \in BOOLEAN
  /\ attempted \subseteq Resources
  /\ pc \in [Actors -> {"off", "serving"} \cup HostSteps \cup Final \cup ReconcileSteps]
  /\ cur \in [Actors -> AuditIds \cup {0}]
  /\ controlled \subseteq Hosts
  /\ todo \subseteq AuditIds
  /\ failures \subseteq AuditIds \cup {0}
  /\ faults \in 0 .. MaxFaults

(* Every resource an attempt made is named by a row that the next           *)
(* reconciliation will read, whatever failed and wherever the process died. *)
(* The engine forgets in one way only: the create took effect, its reply    *)
(* was lost, and the attempt was written down as failed (engine.go:174-175).*)
Recoverable ==
  \A i \in Made : Pending(i.by) \/ (i.disowned /\ audits[i.by].status = "CLAIM_FAILED")

(* Between two claims of a scan that goes on, nothing is left at a provider *)
(* but what a create made and reported as failed: every other way out of    *)
(* Execute either cleaned up or set haltedErr, and no scan starts over what *)
(* an earlier one left.                                                     *)
QuietMeansClean ==
  pc[Reconciler] = "serving" /\ lock = Free /\ ~halted => Known = {}

(* What Reconcile takes over as the resource of an interrupted attempt, and *)
(* goes on to delete, is the attempt's own and not somebody's homonym.      *)
AdoptsOnlyItsOwn == pc[Reconciler] = "bind" => Own(cur[Reconciler]) # {}

(* Once haltedErr is set no resource is created until a reconciliation      *)
(* succeeds, although other hosts' goroutines keep calling Execute.         *)
HaltedCreatesNothing ==
  [][halted => {i.by : i \in Made'} \subseteq {i.by : i \in Made}]_vars

(* The table and the providers together behave as the abstract ledger:      *)
(* write ahead, one resource at a time, closed only when gone, for good.    *)
(* The ledger's resources are those whose creation the engine was told of.  *)
Ledger == INSTANCE ClaimLedger WITH
  Attempts <- AuditIds,
  open <- {a \in AuditIds : Pending(a)},
  settled <- {a \in AuditIds : audits[a].status \in {"CLAIM_FAILED", "RELEASE_SUCCEEDED"}},
  exists <- {i.by : i \in Known}
ImplementsLedger == Ledger!Spec

(* The row of a zone that no longer exists: Release takes that for an error *)
(* (aws_route53.go:202), so the row is stuck and refuses the aggressive     *)
(* mode for ever, which docs/claim-engine.md:43 does not mention.           *)
ZoneIsGone(a) ==
  /\ Kind[audits[a].res] = "route53"
  /\ audits[a].status \in {"RELEASE_PENDING", "RELEASE_FAILED"}
  /\ Own(a) = {}

(* Every row a reconciliation has to look at is settled in the end, if the  *)
(* operator keeps running the scan and faults stop:                         *)
(* docs/claim-engine.md:41, the next aggressive run reconciles the pending  *)
(* rows, and :43, a new run starts once absence or release is confirmed.    *)
(* The exception is the row of a zone that is gone.                         *)
EveryAttemptSettles == \A a \in AuditIds : Pending(a) ~> ~Pending(a) \/ ZoneIsGone(a)
=============================================================================
