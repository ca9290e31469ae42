------------------------ MODULE SharedServiceProofs -------------------------
(***************************************************************************)
(* Proofs about the two services all goroutines of a scan share.            *)
(*                                                                         *)
(* ClaimEngine: type correctness, that nothing the engine created is        *)
(* forgotten, that a scan that goes on has nothing left at the providers    *)
(* between two claims, and that the engine implements ClaimLedger.          *)
(*                                                                         *)
(* Dispatcher, for every set of callers, results, workers and notifiers,    *)
(* every capacity and any number of batches: type correctness, one event    *)
(* per identity, and what Flush promises.                                   *)
(***************************************************************************)
EXTENDS ClaimEngine, Dispatcher, TLAPS

-----------------------------------------------------------------------------
(* The claim engine.                                                        *)

(* The steps at which a host is inside its claim, and at which Reconcile is *)
(* at one record.                                                           *)
Claiming == HostSteps \ {"ready"}
AtRecord == ReconcileSteps \ {"list", "next"}

(* The actors that have an audit row in hand.                               *)
Working(p) == IF p = Reconciler THEN pc[p] \in AtRecord ELSE pc[p] \in Claiming

(* operationMu is held by whoever works, and the two phases of a process    *)
(* exclude each other.                                                      *)
LockInv ==
  /\ pc[Reconciler] \in {"off", "serving"} \cup ReconcileSteps
  /\ pc[Reconciler] \in ReconcileSteps => lock = Reconciler
  /\ \A h \in Hosts :
       /\ pc[h] \in {"off"} \cup HostSteps \cup Final
       /\ pc[h] \in Claiming => lock = h
       /\ pc[h] # "off" => pc[Reconciler] = "serving"

(* The row in hand is one the next reconciliation would read.               *)
RowInv ==
  /\ \A p \in Actors : Working(p) => cur[p] \in AuditIds /\ Pending(cur[p])
  /\ \A a \in todo : Pending(a)
  /\ pc[Reconciler] = "serving" => todo = {}
  /\ Working(Reconciler) => cur[Reconciler] \notin todo
  /\ \A a \in AuditIds : Pending(a) => audits[a].res \in Resources /\ Kind[audits[a].res] # "none"
  /\ \A p \in Actors : pc[p] = "deleteObject" => IsS3(p)

(* An attempt has no resource, or none that its create acknowledged.        *)
Nothing(a) == \A i \in live : i.by # a
NothingKnown(a) == \A i \in live : i.by = a => i.disowned

(* Where the attempt in hand has no resource.                               *)
GoneInv ==
  \A p \in Actors : Working(p) =>
    /\ pc[p] \in {"head", "create", "released", "absent"} => Nothing(cur[p])
    /\ pc[p] = "claimFailed" => NothingKnown(cur[p])

(* A resource belongs to the row of its maker, which is pending unless the  *)
(* attempt disowned it and gave up, and a zone always carries its token.    *)
LiveInv ==
  \A i \in live : i.by \in AuditIds =>
    /\ Pending(i.by) \/ (i.disowned /\ audits[i.by].status = "CLAIM_FAILED")
    /\ i.res = audits[i.by].res
    /\ Kind[i.res] = "route53" => i.proof

(* What exists and was not disowned is in hand, still to be looked at, or   *)
(* known as a failure.                                                      *)
CleanInv ==
  \A i \in live : i.by \in AuditIds /\ ~i.disowned =>
    /\ pc[Reconciler] = "serving" /\ ~halted => lock \in Hosts /\ i.by = cur[lock]
    /\ pc[Reconciler] \in ReconcileSteps \ {"list"} /\ failures = {} =>
         i.by \in todo \/ (Working(Reconciler) /\ i.by = cur[Reconciler])

Inv == TypeOK /\ LockInv /\ RowInv /\ GoneInv /\ LiveInv /\ CleanInv

-----------------------------------------------------------------------------
USE EngineAssumption DEF Actors, Row, World

(* Writing or deleting the proof object keeps the shape of the world.       *)
LEMMA ProofWritten ==
  ASSUME live \subseteq World, NEW c
  PROVE  {[i EXCEPT !.proof = i.proof \/ i.by = c] : i \in live} \subseteq World
  BY ZenonT(60)

LEMMA ProofDeleted ==
  ASSUME live \subseteq World, NEW c
  PROVE  {[i EXCEPT !.proof = i.proof /\ i.by # c] : i \in live} \subseteq World
  BY ZenonT(60)

(* One UPDATE of a row changes its status and receipt and no other row.     *)
Written(a, status, receipt) ==
  /\ audits' \in [AuditIds -> Row]
  /\ audits'[a].status = status /\ audits'[a].receipt = receipt /\ audits'[a].res = audits[a].res
  /\ \A b \in AuditIds : b # a => audits'[b] = audits[b]

LEMMA WriteEffect ==
  ASSUME TypeOK, NEW a \in AuditIds, NEW status \in Statuses, NEW receipt \in Receipts,
         Write(a, status, receipt)
  PROVE  Written(a, status, receipt)
  <1>. DEFINE row == [audits[a] EXCEPT !.status = status, !.receipt = receipt]
  <1>1. audits' = [audits EXCEPT ![a] = row]
    BY DEF Write
  <1>2. audits \in [AuditIds -> Row]
    BY DEF TypeOK
  <1>3. row \in Row
    BY <1>2
  <1>4. row.status = status /\ row.receipt = receipt /\ row.res = audits[a].res
    BY <1>2
  <1>5. audits'[a] = row /\ \A b \in AuditIds : b # a => audits'[b] = audits[b]
    BY <1>1, <1>2
  <1>6. audits' \in [AuditIds -> Row]
    BY <1>1, <1>2, <1>3
  <1>. QED BY <1>4, <1>5, <1>6 DEF Written

LEMMA InitInv == Init => Inv
  <1>. SUFFICES ASSUME Init PROVE Inv OBVIOUS
  <1>. USE DEF Init
  <1>0. audits \in [AuditIds -> Row]
    BY DEF NoRow, Statuses, Receipts
  <1>a. cur \in [Actors -> AuditIds \cup {0}] /\ faults \in 0 .. MaxFaults OBVIOUS
  <1>b. pc \in [Actors -> {"off", "serving"} \cup HostSteps \cup Final \cup ReconcileSteps] OBVIOUS
  <1>1. TypeOK BY <1>0, <1>a, <1>b DEF TypeOK
  <1>2. LockInv BY DEF LockInv, ReconcileSteps, Claiming, HostSteps
  <1>3. RowInv BY DEF RowInv, Working, Pending, NoRow, AtRecord, Claiming, HostSteps,
        ReconcileSteps
  <1>4. GoneInv BY DEF GoneInv
  <1>5. LiveInv BY DEF LiveInv
  <1>6. CleanInv BY DEF CleanInv
  <1>. QED BY <1>1, <1>2, <1>3, <1>4, <1>5, <1>6 DEF Inv

LEMMA ExecuteHaltedInv ==
  ASSUME NEW h \in Hosts, Inv, ExecuteHalted(h)
  PROVE  Inv'
  <1>. USE DEF Inv, ExecuteHalted, Acquires, Move, Goto, Fault, NoFault, durable
  <1>1. TypeOK'
    <2>1. pc' \in [Actors -> {"off", "serving"} \cup HostSteps \cup Final \cup ReconcileSteps]
      BY DEF TypeOK, HostSteps, Final, ReconcileSteps
    <2>2. faults' \in 0 .. MaxFaults BY DEF TypeOK
    <2>. QED BY <2>1, <2>2 DEF TypeOK
  <1>2. LockInv' BY DEF TypeOK, LockInv, Claiming, HostSteps, Final, ReconcileSteps
  <1>3. RowInv' BY DEF TypeOK, LockInv, RowInv, Working, Pending, IsS3, Res, Claiming,
        AtRecord, HostSteps, Final, ReconcileSteps, PendingStatuses
  <1>4. GoneInv' BY DEF TypeOK, LockInv, GoneInv, Working, Nothing, NothingKnown, Claiming, AtRecord,
        HostSteps, Final, ReconcileSteps
  <1>5. LiveInv' BY DEF TypeOK, RowInv, GoneInv, LiveInv, LockInv, Pending, Nothing, NothingKnown, Working,
        Claiming, AtRecord, HostSteps, ReconcileSteps, PendingStatuses
  <1>6. CleanInv' BY DEF TypeOK, LockInv, CleanInv, Working, Claiming, AtRecord, HostSteps,
        Final, ReconcileSteps
  <1>. QED BY <1>1, <1>2, <1>3, <1>4, <1>5, <1>6

LEMMA ExecuteUnsupportedInv ==
  ASSUME NEW h \in Hosts, Inv, ExecuteUnsupported(h)
  PROVE  Inv'
  <1>. USE DEF Inv, ExecuteUnsupported, Acquires, NextId, Insert, Move, Goto, Fault, NoFault,
        durable
  <1>1. TypeOK'
    <2>1. pc' \in [Actors -> {"off", "serving"} \cup HostSteps \cup Final \cup ReconcileSteps]
      BY DEF TypeOK, HostSteps, Final, ReconcileSteps
    <2>2. faults' \in 0 .. MaxFaults BY DEF TypeOK
    <2>3. audits' \in [AuditIds -> Row]
      BY DEF TypeOK, Statuses, Receipts, RowInv, Working, Claiming, AtRecord, HostSteps,
            ReconcileSteps
    <2>. QED BY <2>1, <2>2, <2>3 DEF TypeOK
  <1>2. LockInv' BY DEF TypeOK, LockInv, Claiming, HostSteps, Final, ReconcileSteps
  <1>3. RowInv'
    <2> USE DEF TypeOK, RowInv
    <2>1. (\A q \in Actors : Working(q) => cur[q] \in AuditIds /\ Pending(cur[q]))'
      BY DEF LockInv, Working, Pending, Claiming, AtRecord, HostSteps, Final, ReconcileSteps, PendingStatuses
    <2>2. (\A a \in todo : Pending(a))' /\ (pc[Reconciler] = "serving" => todo = {})'
      BY DEF LockInv, Working, Pending, Claiming, AtRecord, HostSteps, Final, ReconcileSteps, PendingStatuses
    <2>3. (Working(Reconciler) => cur[Reconciler] \notin todo)'
      BY DEF LockInv, Working, Claiming, AtRecord, HostSteps, Final, ReconcileSteps
    <2>4. (\A a \in AuditIds : Pending(a) => audits[a].res \in Resources /\ Kind[audits[a].res] # "none")'
      BY DEF Pending, PendingStatuses
    <2>5. (\A q \in Actors : pc[q] = "deleteObject" => IsS3(q))'
      BY DEF LockInv, IsS3, Res, Working, Claiming, AtRecord, HostSteps, Final, ReconcileSteps
    <2> QED BY <2>1, <2>2, <2>3, <2>4, <2>5 DEF RowInv
  <1>4. GoneInv' BY DEF TypeOK, LockInv, GoneInv, Working, Nothing, NothingKnown, Claiming, AtRecord,
        HostSteps, Final, ReconcileSteps
  <1>5. LiveInv' BY DEF TypeOK, RowInv, GoneInv, LiveInv, LockInv, Pending, Nothing, NothingKnown, Working,
        Claiming, AtRecord, HostSteps, ReconcileSteps, PendingStatuses
  <1>6. CleanInv' BY DEF TypeOK, LockInv, CleanInv, Working, Claiming, AtRecord, HostSteps,
        Final, ReconcileSteps
  <1>. QED BY <1>1, <1>2, <1>3, <1>4, <1>5, <1>6

LEMMA ExecuteDuplicateInv ==
  ASSUME NEW h \in Hosts, Inv, ExecuteDuplicate(h)
  PROVE  Inv'
  <1>. USE DEF Inv, ExecuteDuplicate, Acquires, Move, Goto, Fault, NoFault, durable
  <1>1. TypeOK'
    <2>1. pc' \in [Actors -> {"off", "serving"} \cup HostSteps \cup Final \cup ReconcileSteps]
      BY DEF TypeOK, HostSteps, Final, ReconcileSteps
    <2>2. faults' \in 0 .. MaxFaults BY DEF TypeOK
    <2>. QED BY <2>1, <2>2 DEF TypeOK
  <1>2. LockInv' BY DEF TypeOK, LockInv, Claiming, HostSteps, Final, ReconcileSteps
  <1>3. RowInv' BY DEF TypeOK, LockInv, RowInv, Working, Pending, IsS3, Res, Claiming,
        AtRecord, HostSteps, Final, ReconcileSteps, PendingStatuses
  <1>4. GoneInv' BY DEF TypeOK, LockInv, GoneInv, Working, Nothing, NothingKnown, Claiming, AtRecord,
        HostSteps, Final, ReconcileSteps
  <1>5. LiveInv' BY DEF TypeOK, RowInv, GoneInv, LiveInv, LockInv, Pending, Nothing, NothingKnown, Working,
        Claiming, AtRecord, HostSteps, ReconcileSteps, PendingStatuses
  <1>6. CleanInv' BY DEF TypeOK, LockInv, CleanInv, Working, Claiming, AtRecord, HostSteps,
        Final, ReconcileSteps
  <1>. QED BY <1>1, <1>2, <1>3, <1>4, <1>5, <1>6

LEMMA ExecuteAttemptInv ==
  ASSUME NEW h \in Hosts, Inv, ExecuteAttempt(h)
  PROVE  Inv'
  <1>. USE DEF Inv, ExecuteAttempt, Acquires, NextId, Insert, Move, Goto, Fault, NoFault,
        durable
  <1>1. TypeOK'
    <2>1. pc' \in [Actors -> {"off", "serving"} \cup HostSteps \cup Final \cup ReconcileSteps]
      BY DEF TypeOK, HostSteps, Final, ReconcileSteps
    <2>2. faults' \in 0 .. MaxFaults BY DEF TypeOK
    <2>3. audits' \in [AuditIds -> Row]
      BY DEF TypeOK, Statuses, Receipts, RowInv, Working, Claiming, AtRecord, HostSteps,
            ReconcileSteps
    <2>4. attempted' \subseteq Resources /\ lock' \in Actors \cup {Free}
      BY DEF TypeOK
    <2>5. cur' \in [Actors -> AuditIds \cup {0}]
      BY DEF TypeOK
    <2>6. UNCHANGED <<live, halted, controlled, todo, failures>>
      OBVIOUS
    <2>. QED BY <2>1, <2>2, <2>3, <2>4, <2>5, <2>6 DEF TypeOK
  <1>2. LockInv' BY DEF TypeOK, LockInv, Claiming, HostSteps, Final, ReconcileSteps
  <1>a. \A q \in Actors : ~ Working(q)
    BY DEF LockInv, Working, AtRecord, Claiming
  <1>3. RowInv'
    <2>1. CASE UNCHANGED audits /\ pc' = [pc EXCEPT ![h] = "failed"]
      BY <2>1, <1>a DEF TypeOK, LockInv, RowInv, Working, Pending, IsS3, Res, Claiming,
            AtRecord, HostSteps, ReconcileSteps
    <2>2. ASSUME NEW a \in AuditIds, NextId(a), Insert(a, h, "ATTEMPTING", "provisional"),
                 cur' = [cur EXCEPT ![h] = a],
                 Goto(h, IF Kind[ResourceOf[h]] = "s3" THEN "head" ELSE "create")
          PROVE  RowInv'
      <3>1. Pending(a)' /\ ~ Pending(a) /\ audits'[a].res = ResourceOf[h]
        BY <2>2 DEF TypeOK, Pending, PendingStatuses
      <3>2. \A b \in AuditIds : b # a => audits'[b] = audits[b]
        BY <2>2 DEF TypeOK
      <3>3. \A q \in Actors : Working(q)' => q = h
        BY <2>2, <1>a DEF TypeOK, Working
      <3>4. \A q \in Actors : pc'[q] # "deleteObject"
        BY <2>2, <1>a DEF TypeOK, LockInv, Working, Claiming, AtRecord, HostSteps,
              ReconcileSteps, Final
      <3>. QED BY <2>2, <3>1, <3>2, <3>3, <3>4 DEF TypeOK, RowInv, Pending
    <2>. QED BY <2>1, <2>2
  <1>4. GoneInv'
    <2>1. \A q \in Actors : Working(q)' => q = h
      BY <1>a DEF TypeOK, Working
    <2>2. Working(h)' => ~ Pending(cur'[h])
      BY DEF TypeOK, Pending, PendingStatuses, Working, Claiming, HostSteps
    <2>3. Working(h)' => Nothing(cur'[h])
      BY <2>2 DEF TypeOK, LiveInv, Nothing, NothingKnown, Working, Claiming, HostSteps
    <2>. QED BY <2>1, <2>3 DEF GoneInv, Nothing, NothingKnown
  <1>5. LiveInv' BY DEF TypeOK, RowInv, GoneInv, LiveInv, LockInv, Pending, Nothing, NothingKnown, Working,
        Claiming, AtRecord, HostSteps, ReconcileSteps, PendingStatuses
  <1>6. CleanInv' BY DEF TypeOK, LockInv, CleanInv, Working, Claiming, AtRecord, HostSteps,
        Final, ReconcileSteps
  <1>. QED BY <1>1, <1>2, <1>3, <1>4, <1>5, <1>6

LEMMA ClaimHeadInv ==
  ASSUME NEW h \in Hosts, Inv, ClaimHead(h)
  PROVE  Inv'
  <1>. USE DEF Inv, ClaimHead, Move, Goto, Fault, NoFault, durable
  <1>1. TypeOK'
    <2>1. pc' \in [Actors -> {"off", "serving"} \cup HostSteps \cup Final \cup ReconcileSteps]
      BY DEF TypeOK, HostSteps, Final, ReconcileSteps
    <2>2. faults' \in 0 .. MaxFaults BY DEF TypeOK
    <2>. QED BY <2>1, <2>2 DEF TypeOK
  <1>2. LockInv' BY DEF TypeOK, LockInv, Claiming, HostSteps, Final, ReconcileSteps
  <1>3. RowInv' BY DEF TypeOK, LockInv, RowInv, Working, Pending, IsS3, Res, Claiming,
        AtRecord, HostSteps, Final, ReconcileSteps, PendingStatuses
  <1>4. GoneInv' BY DEF TypeOK, LockInv, GoneInv, Working, Nothing, NothingKnown, Claiming, AtRecord,
        HostSteps, Final, ReconcileSteps
  <1>5. LiveInv' BY DEF TypeOK, RowInv, GoneInv, LiveInv, LockInv, Pending, Nothing, NothingKnown, Working,
        Claiming, AtRecord, HostSteps, ReconcileSteps, PendingStatuses
  <1>6. CleanInv' BY DEF TypeOK, LockInv, CleanInv, Working, Claiming, AtRecord, HostSteps,
        Final, ReconcileSteps
  <1>. QED BY <1>1, <1>2, <1>3, <1>4, <1>5, <1>6

(* What a create makes.                                                     *)
LEMMA ResourceShape ==
  ASSUME NEW h \in Hosts, cur[h] \in AuditIds, audits[cur[h]].res \in Resources, NEW d \in BOOLEAN
  PROVE  /\ Resource(h, d) \in World
         /\ Resource(h, d).by = cur[h] /\ Resource(h, d).res = audits[cur[h]].res
         /\ Resource(h, d).disowned = d
         /\ Kind[audits[cur[h]].res] = "route53" => Resource(h, d).proof
  BY DEF Resource, Res, IsS3

LEMMA ClaimCreateInv ==
  ASSUME NEW h \in Hosts, Inv, ClaimCreate(h)
  PROVE  Inv'
  <1>. USE DEF Inv
  <1>1. /\ pc[h] = "create" /\ cur[h] \in AuditIds /\ Pending(cur[h]) /\ audits[cur[h]].res \in Resources
        /\ Nothing(cur[h]) /\ lock = h
    BY DEF ClaimCreate, RowInv, GoneInv, LockInv, Working, Claiming, HostSteps
  <1>2. /\ UNCHANGED <<audits, lock, halted, attempted, cur, controlled, todo, failures>>
        /\ pc' = [pc EXCEPT ![h] = pc'[h]]
        /\ pc'[h] \in {"put", "compare", "claimFailed"}
        /\ faults' \in 0 .. MaxFaults
    <2>1. \E step \in {"put", "compare", "claimFailed"} : ClaimCreate(h) /\ Move(h, step)
      BY DEF ClaimCreate
    <2>2. PICK step \in {"put", "compare", "claimFailed"} : ClaimCreate(h) /\ Move(h, step)
      BY <2>1
    <2>3. pc' = [pc EXCEPT ![h] = step] /\ pc'[h] = step
      BY <2>2 DEF Move, Goto, TypeOK
    <2>4. faults' \in 0 .. MaxFaults
      <3>1. Fault \/ NoFault
        BY DEF ClaimCreate
      <3>. QED BY <3>1 DEF Fault, NoFault, TypeOK
    <2>. QED BY <2>2, <2>3, <2>4 DEF ClaimCreate, Move
  <1>3. \/ UNCHANGED live
        \/ \E d \in BOOLEAN : live' = live \cup {Resource(h, d)} /\ (pc'[h] = "claimFailed" => d)
    BY DEF ClaimCreate, Move, Goto, TypeOK
  <1>4. \A i \in live' : i \in live \/ (/\ i \in World /\ i.by = cur[h] /\ i.res = audits[cur[h]].res
                                        /\ pc'[h] = "claimFailed" => i.disowned
                                        /\ Kind[i.res] = "route53" => i.proof)
    BY <1>1, <1>3, ResourceShape
  <1>5. \A q \in Actors : pc'[q] = IF q = h THEN pc'[h] ELSE pc[q]
    BY <1>2 DEF TypeOK
  <1>6. \A q \in Actors : (Working(q)' => Working(q)) /\ (pc'[q] = "deleteObject" => pc[q] = "deleteObject")
    BY <1>1, <1>2, <1>5 DEF Working, Claiming, HostSteps
  <1>7. pc'[Reconciler] = pc[Reconciler] /\ pc[Reconciler] = "serving"
    BY <1>1, <1>5 DEF LockInv, ReconcileSteps
  <1>8. TypeOK'
    <2>1. pc' \in [Actors -> {"off", "serving"} \cup HostSteps \cup Final \cup ReconcileSteps]
      BY <1>2 DEF TypeOK, HostSteps
    <2>2. live' \subseteq World
      BY <1>4 DEF TypeOK
    <2>. QED BY <1>2, <2>1, <2>2 DEF TypeOK
  <1>9. LockInv' BY <1>1, <1>2, <1>5, <1>7 DEF LockInv, Claiming, HostSteps
  <1>10. RowInv' BY <1>2, <1>6, <1>7 DEF RowInv, Pending, Working, IsS3, Res
  <1>11. GoneInv'
    <2>1. \A q \in Actors : Working(q) => q = h
      BY <1>1, <1>7 DEF LockInv, Working, AtRecord, ReconcileSteps
    <2>2. pc'[h] = "claimFailed" => NothingKnown(cur[h])'
      BY <1>1, <1>2, <1>4 DEF Nothing, NothingKnown
    <2>. QED BY <1>2, <1>6, <2>1, <2>2 DEF GoneInv
  <1>12. LiveInv' BY <1>1, <1>2, <1>4 DEF LiveInv, Pending
  <1>13. CleanInv' BY <1>1, <1>2, <1>4, <1>7 DEF CleanInv, ReconcileSteps
  <1>. QED BY <1>8, <1>9, <1>10, <1>11, <1>12, <1>13

LEMMA ClaimCompareInv ==
  ASSUME NEW h \in Hosts, Inv, ClaimCompare(h)
  PROVE  Inv'
  <1>. USE DEF Inv, ClaimCompare, Return, Move, Goto, Fault, NoFault, durable
  <1>1. TypeOK'
    <2>1. pc' \in [Actors -> {"off", "serving"} \cup HostSteps \cup Final \cup ReconcileSteps]
      BY DEF TypeOK, HostSteps, Final, ReconcileSteps
    <2>2. faults' \in 0 .. MaxFaults BY DEF TypeOK
    <2>. QED BY <2>1, <2>2 DEF TypeOK
  <1>2. LockInv' BY DEF TypeOK, LockInv, Claiming, HostSteps, Final, ReconcileSteps
  <1>3. RowInv'
    <2>1. UNCHANGED <<audits, cur, todo>>
      OBVIOUS
    <2>2. PICK step \in {"claimed", "undo", "unsafe"} : pc' = [pc EXCEPT ![h] = step]
      OBVIOUS
    <2>3. Working(h) /\ h # Reconciler
      BY DEF Working, Claiming, HostSteps
    <2>4. \A p \in Actors : Working(p)' => Working(p)
      BY <2>2, <2>3 DEF TypeOK, Working
    <2>5. \A a \in AuditIds : Pending(a)' <=> Pending(a)
      BY <2>1 DEF Pending
    <2>6. (pc[Reconciler])' = pc[Reconciler] /\ \A p \in Actors : pc'[p] = "deleteObject" => pc[p] = "deleteObject"
      BY <2>2, <2>3 DEF TypeOK
    <2>. QED BY <2>1, <2>3, <2>4, <2>5, <2>6 DEF TypeOK, RowInv, IsS3, Res, Actors
  <1>4. GoneInv' BY DEF TypeOK, LockInv, GoneInv, Working, Nothing, NothingKnown, Claiming, AtRecord,
        HostSteps, Final, ReconcileSteps
  <1>5. LiveInv' BY DEF TypeOK, RowInv, GoneInv, LiveInv, LockInv, Pending, Nothing, NothingKnown, Working,
        Claiming, AtRecord, HostSteps, ReconcileSteps, PendingStatuses
  <1>6. CleanInv' BY DEF TypeOK, LockInv, CleanInv, Working, Claiming, AtRecord, HostSteps,
        Final, ReconcileSteps
  <1>. QED BY <1>1, <1>2, <1>3, <1>4, <1>5, <1>6

LEMMA ClaimPutInv ==
  ASSUME NEW h \in Hosts, Inv, ClaimPut(h)
  PROVE  Inv'
  <1>. USE DEF Inv, ClaimPut, Move, Goto, Fault, NoFault, durable
  <1>1. TypeOK'
    <2>1. pc' \in [Actors -> {"off", "serving"} \cup HostSteps \cup Final \cup ReconcileSteps]
      BY DEF TypeOK, HostSteps, Final, ReconcileSteps
    <2>2. faults' \in 0 .. MaxFaults BY DEF TypeOK
    <2>a. live \subseteq World
      BY DEF TypeOK
    <2>b. {[i EXCEPT !.proof = i.proof \/ i.by = cur[h]] : i \in live} \subseteq World
      BY <2>a, ProofWritten
    <2>c. live' = live \/ live' = {[i EXCEPT !.proof = i.proof \/ i.by = cur[h]] : i \in live}
      OBVIOUS
    <2>3. live' \subseteq World
      BY <2>a, <2>b, <2>c
    <2>. QED BY <2>1, <2>2, <2>3 DEF TypeOK
  <1>2. LockInv' BY DEF TypeOK, LockInv, Claiming, HostSteps, Final, ReconcileSteps
  <1>3. RowInv' BY DEF TypeOK, LockInv, RowInv, Working, Pending, IsS3, Res, Claiming,
        AtRecord, HostSteps, Final, ReconcileSteps, PendingStatuses
  <1>4. GoneInv' BY DEF TypeOK, LockInv, GoneInv, Working, Nothing, NothingKnown, Claiming, AtRecord,
        HostSteps, Final, ReconcileSteps
  <1>5. LiveInv' BY SMTT(60) DEF TypeOK, RowInv, GoneInv, LiveInv, LockInv, Pending, Nothing, NothingKnown, Working,
        Claiming, AtRecord, HostSteps, ReconcileSteps, PendingStatuses
  <1>6. CleanInv' BY DEF TypeOK, LockInv, CleanInv, Working, Claiming, AtRecord, HostSteps,
        Final, ReconcileSteps
  <1>. QED BY <1>1, <1>2, <1>3, <1>4, <1>5, <1>6

LEMMA ClaimUndoInv ==
  ASSUME NEW h \in Hosts, Inv, ClaimUndo(h)
  PROVE  Inv'
  <1>. USE DEF Inv, ClaimUndo, Delete, Doomed, Refused, Named, Own, Move, Goto, Fault,
        NoFault, durable
  <1>1. TypeOK'
    <2>1. pc' \in [Actors -> {"off", "serving"} \cup HostSteps \cup Final \cup ReconcileSteps]
      BY DEF TypeOK, HostSteps, Final, ReconcileSteps
    <2>2. faults' \in 0 .. MaxFaults BY DEF TypeOK
    <2>3. live' \subseteq World
      BY DEF TypeOK
    <2>. QED BY <2>1, <2>2, <2>3 DEF TypeOK
  <1>2. LockInv' BY DEF TypeOK, LockInv, Claiming, HostSteps, Final, ReconcileSteps
  <1>3. RowInv'
    <2> USE DEF TypeOK, RowInv
    <2>1. (\A q \in Actors : Working(q) => cur[q] \in AuditIds /\ Pending(cur[q]))'
      BY DEF LockInv, Working, Pending, Claiming, AtRecord, HostSteps, Final, ReconcileSteps, PendingStatuses
    <2>2. (\A a \in todo : Pending(a))' /\ (pc[Reconciler] = "serving" => todo = {})'
      BY DEF LockInv, Working, Pending, Claiming, AtRecord, HostSteps, Final, ReconcileSteps, PendingStatuses
    <2>3. (Working(Reconciler) => cur[Reconciler] \notin todo)'
      BY DEF LockInv, Working, Claiming, AtRecord, HostSteps, Final, ReconcileSteps
    <2>4. (\A a \in AuditIds : Pending(a) => audits[a].res \in Resources /\ Kind[audits[a].res] # "none")'
      BY DEF Pending, PendingStatuses
    <2>5. (\A q \in Actors : pc[q] = "deleteObject" => IsS3(q))'
      BY DEF LockInv, IsS3, Res, Working, Claiming, AtRecord, HostSteps, Final, ReconcileSteps
    <2> QED BY <2>1, <2>2, <2>3, <2>4, <2>5 DEF RowInv
  <1>4. GoneInv'
    <2>1. \A q \in Actors : Working(q)' => q = h
      BY DEF TypeOK, LockInv, Working, Claiming, AtRecord, HostSteps, ReconcileSteps
    <2>2. pc'[h] = "claimFailed" => NothingKnown(cur[h])'
      BY DEF TypeOK, RowInv, LiveInv, Nothing, NothingKnown, IsS3, Res, Working, Claiming, HostSteps
    <2>3. pc'[h] \in {"claimFailed", "pending"}
      BY DEF TypeOK
    <2>. QED BY <2>1, <2>2, <2>3 DEF GoneInv, Nothing, NothingKnown
  <1>5. LiveInv' BY DEF TypeOK, RowInv, GoneInv, LiveInv, LockInv, Pending, Nothing, NothingKnown, Working,
        Claiming, AtRecord, HostSteps, ReconcileSteps, PendingStatuses
  <1>6. CleanInv' BY DEF TypeOK, LockInv, CleanInv, Working, Claiming, AtRecord, HostSteps,
        Final, ReconcileSteps
  <1>. QED BY <1>1, <1>2, <1>3, <1>4, <1>5, <1>6

LEMMA ClaimFailedInv ==
  ASSUME NEW h \in Hosts, Inv, ClaimFailed(h)
  PROVE  Inv'
  <1>. USE DEF Inv, ClaimFailed, Return, Move, Goto, Fault, NoFault, durable
  <1>a. cur[h] \in AuditIds /\ Pending(cur[h])
    BY DEF RowInv, Working, Claiming, AtRecord, HostSteps, ReconcileSteps
  <1>b. UNCHANGED audits \/ Written(cur[h], "CLAIM_FAILED", "none")
    BY <1>a, WriteEffect DEF Statuses, Receipts
  <1>1. TypeOK'
    <2>1. pc' \in [Actors -> {"off", "serving"} \cup HostSteps \cup Final \cup ReconcileSteps]
      BY DEF TypeOK, HostSteps, Final, ReconcileSteps
    <2>2. faults' \in 0 .. MaxFaults BY DEF TypeOK
    <2>3. audits' \in [AuditIds -> Row]
      BY <1>b DEF TypeOK, Written
    <2>. QED BY <2>1, <2>2, <2>3 DEF TypeOK
  <1>2. LockInv' BY DEF TypeOK, LockInv, Claiming, HostSteps, Final, ReconcileSteps
  <1>c. \A q \in Actors : Working(q)' => Working(q) /\ q = h /\ cur'[q] = cur[q] /\ pc'[q] # "claimFailed"
    BY DEF TypeOK, LockInv, Working, Claiming, AtRecord, HostSteps, ReconcileSteps, Final
  <1>3. RowInv' BY <1>a, <1>b, <1>c DEF Written, TypeOK, LockInv, RowInv, Working, Pending,
        IsS3, Res, Claiming, AtRecord, HostSteps, Final, ReconcileSteps, PendingStatuses
  <1>4. GoneInv' BY DEF TypeOK, LockInv, GoneInv, Working, Nothing, NothingKnown, Claiming, AtRecord,
        HostSteps, Final, ReconcileSteps
  <1>5. LiveInv' BY <1>a, <1>b DEF Written, TypeOK, RowInv, GoneInv, LiveInv, LockInv,
        Pending, Nothing, NothingKnown, Working, Claiming, AtRecord, HostSteps, ReconcileSteps, PendingStatuses
  <1>6. CleanInv' BY DEF TypeOK, LockInv, GoneInv, CleanInv, Nothing, NothingKnown, Working, Claiming,
        AtRecord, HostSteps, Final, ReconcileSteps
  <1>. QED BY <1>1, <1>2, <1>3, <1>4, <1>5, <1>6

LEMMA ClaimSucceededInv ==
  ASSUME NEW h \in Hosts, Inv, ClaimSucceeded(h)
  PROVE  Inv'
  <1>. USE DEF Inv, ClaimSucceeded, Move, Goto, Fault, NoFault, durable
  <1>a. cur[h] \in AuditIds /\ Pending(cur[h])
    BY DEF RowInv, Working, Claiming, AtRecord, HostSteps, ReconcileSteps
  <1>b. UNCHANGED audits \/ Written(cur[h], "CLAIM_SUCCEEDED", "full")
    BY <1>a, WriteEffect DEF Statuses, Receipts
  <1>1. TypeOK'
    <2>1. pc' \in [Actors -> {"off", "serving"} \cup HostSteps \cup Final \cup ReconcileSteps]
      BY DEF TypeOK, HostSteps, Final, ReconcileSteps
    <2>2. faults' \in 0 .. MaxFaults BY DEF TypeOK
    <2>3. audits' \in [AuditIds -> Row]
      BY <1>b DEF TypeOK, Written
    <2>. QED BY <2>1, <2>2, <2>3 DEF TypeOK
  <1>2. LockInv' BY DEF TypeOK, LockInv, Claiming, HostSteps, Final, ReconcileSteps
  <1>c. \A q \in Actors : Working(q)' => Working(q) /\ q = h /\ cur'[q] = cur[q] /\ pc'[q] # "claimFailed"
    BY DEF TypeOK, LockInv, Working, Claiming, AtRecord, HostSteps, ReconcileSteps, Final
  <1>3. RowInv' BY <1>a, <1>b, <1>c DEF Written, TypeOK, LockInv, RowInv, Working, Pending,
        IsS3, Res, Claiming, AtRecord, HostSteps, Final, ReconcileSteps, PendingStatuses
  <1>4. GoneInv' BY DEF TypeOK, LockInv, GoneInv, Working, Nothing, NothingKnown, Claiming, AtRecord,
        HostSteps, Final, ReconcileSteps
  <1>5. LiveInv' BY <1>a, <1>b DEF Written, TypeOK, RowInv, GoneInv, LiveInv, LockInv,
        Pending, Nothing, NothingKnown, Working, Claiming, AtRecord, HostSteps, ReconcileSteps, PendingStatuses
  <1>6. CleanInv' BY DEF TypeOK, LockInv, CleanInv, Working, Claiming, AtRecord, HostSteps,
        Final, ReconcileSteps
  <1>. QED BY <1>1, <1>2, <1>3, <1>4, <1>5, <1>6

LEMMA VerifyControlInv ==
  ASSUME NEW h \in Hosts, Inv, VerifyControl(h)
  PROVE  Inv'
  <1>. USE DEF Inv, VerifyControl, Move, Goto, Fault, NoFault, durable
  <1>1. TypeOK'
    <2>1. pc' \in [Actors -> {"off", "serving"} \cup HostSteps \cup Final \cup ReconcileSteps]
      BY DEF TypeOK, HostSteps, Final, ReconcileSteps
    <2>2. faults' \in 0 .. MaxFaults BY DEF TypeOK
    <2>. QED BY <2>1, <2>2 DEF TypeOK
  <1>2. LockInv' BY DEF TypeOK, LockInv, Claiming, HostSteps, Final, ReconcileSteps
  <1>3. RowInv' BY DEF TypeOK, LockInv, RowInv, Working, Pending, IsS3, Res, Claiming,
        AtRecord, HostSteps, Final, ReconcileSteps, PendingStatuses
  <1>4. GoneInv' BY DEF TypeOK, LockInv, GoneInv, Working, Nothing, NothingKnown, Claiming, AtRecord,
        HostSteps, Final, ReconcileSteps
  <1>5. LiveInv' BY DEF TypeOK, RowInv, GoneInv, LiveInv, LockInv, Pending, Nothing, NothingKnown, Working,
        Claiming, AtRecord, HostSteps, ReconcileSteps, PendingStatuses
  <1>6. CleanInv' BY DEF TypeOK, LockInv, CleanInv, Working, Claiming, AtRecord, HostSteps,
        Final, ReconcileSteps
  <1>. QED BY <1>1, <1>2, <1>3, <1>4, <1>5, <1>6

LEMMA ReleasePendingInv ==
  ASSUME NEW p \in Actors, Inv, ReleasePending(p)
  PROVE  Inv'
  <1>. USE DEF Inv, ReleasePending, GiveUp, Move, Goto, Fault, NoFault, durable
  <1>a. cur[p] \in AuditIds /\ Pending(cur[p])
    BY DEF RowInv, Working, Claiming, AtRecord, HostSteps, ReconcileSteps
  <1>b. UNCHANGED audits \/ Written(cur[p], "RELEASE_PENDING", "full")
    BY <1>a, WriteEffect DEF Statuses, Receipts
  <1>1. TypeOK'
    <2>1. pc' \in [Actors -> {"off", "serving"} \cup HostSteps \cup Final \cup ReconcileSteps]
      BY DEF TypeOK, HostSteps, Final, ReconcileSteps
    <2>2. faults' \in 0 .. MaxFaults BY DEF TypeOK
    <2>3. audits' \in [AuditIds -> Row]
      BY <1>b DEF TypeOK, Written
    <2>. QED BY <2>1, <2>2, <2>3 DEF TypeOK
  <1>2. LockInv' BY DEF TypeOK, LockInv, Claiming, HostSteps, Final, ReconcileSteps
  <1>c. \A q \in Actors : Working(q)' => Working(q) /\ q = p /\ cur'[q] = cur[q] /\ pc'[q] # "claimFailed"
    BY DEF TypeOK, LockInv, Working, Claiming, AtRecord, HostSteps, ReconcileSteps, Final
  <1>3. RowInv' BY <1>a, <1>b, <1>c, SMTT(60) DEF Written, TypeOK, LockInv, RowInv, Working, Pending,
        IsS3, Res, Claiming, AtRecord, HostSteps, Final, ReconcileSteps, PendingStatuses
  <1>4. GoneInv' BY DEF TypeOK, LockInv, GoneInv, Working, Nothing, NothingKnown, Claiming, AtRecord,
        HostSteps, Final, ReconcileSteps
  <1>5. LiveInv' BY <1>a, <1>b DEF Written, TypeOK, RowInv, GoneInv, LiveInv, LockInv,
        Pending, Nothing, NothingKnown, Working, Claiming, AtRecord, HostSteps, ReconcileSteps, PendingStatuses
  <1>6. CleanInv'
    <2>1. UNCHANGED <<live, halted, lock, cur>> /\ failures \subseteq failures'
      BY DEF TypeOK
    <2>2. CASE p = Reconciler
      BY <2>1, <2>2, ZenonT(60) DEF TypeOK, LockInv, CleanInv, Working, AtRecord, ReconcileSteps
    <2>3. CASE p # Reconciler
      BY <2>1, <2>3 DEF TypeOK, LockInv, CleanInv, Working, Claiming, HostSteps, ReconcileSteps
    <2>. QED BY <2>2, <2>3
  <1>. QED BY <1>1, <1>2, <1>3, <1>4, <1>5, <1>6

LEMMA ReleaseObjectInv ==
  ASSUME NEW p \in Actors, Inv, ReleaseObject(p)
  PROVE  Inv'
  <1>. USE DEF Inv, ReleaseObject, Move, Goto, Fault, NoFault, durable
  <1>1. TypeOK'
    <2>1. pc' \in [Actors -> {"off", "serving"} \cup HostSteps \cup Final \cup ReconcileSteps]
      BY DEF TypeOK, HostSteps, Final, ReconcileSteps
    <2>2. faults' \in 0 .. MaxFaults BY DEF TypeOK
    <2>a. live \subseteq World
      BY DEF TypeOK
    <2>b. {[i EXCEPT !.proof = i.proof /\ i.by # cur[p]] : i \in live} \subseteq World
      BY <2>a, ProofDeleted
    <2>c. live' = live \/ live' = {[i EXCEPT !.proof = i.proof /\ i.by # cur[p]] : i \in live}
      OBVIOUS
    <2>3. live' \subseteq World
      BY <2>a, <2>b, <2>c
    <2>. QED BY <2>1, <2>2, <2>3 DEF TypeOK
  <1>2. LockInv' BY DEF TypeOK, LockInv, Claiming, HostSteps, Final, ReconcileSteps
  <1>3. RowInv' BY DEF TypeOK, LockInv, RowInv, Working, Pending, IsS3, Res, Claiming,
        AtRecord, HostSteps, Final, ReconcileSteps, PendingStatuses
  <1>4. GoneInv' BY DEF TypeOK, LockInv, GoneInv, Working, Nothing, NothingKnown, Claiming, AtRecord,
        HostSteps, Final, ReconcileSteps
  <1>5. LiveInv'
    <2>1. cur[p] \in AuditIds /\ Kind[audits[cur[p]].res] = "s3"
      BY DEF TypeOK, RowInv, Working, Claiming, AtRecord, HostSteps, ReconcileSteps, IsS3, Res
    <2>2. \A i \in live' : \E j \in live : i.by = j.by /\ i.res = j.res /\ i.disowned = j.disowned
                                    /\ (j.by # cur[p] => i.proof = j.proof)
      BY DEF TypeOK
    <2>. QED BY <2>1, <2>2 DEF LiveInv, Pending
  <1>6. CleanInv' BY DEF TypeOK, LockInv, CleanInv, Working, Claiming, AtRecord, HostSteps,
        Final, ReconcileSteps
  <1>. QED BY <1>1, <1>2, <1>3, <1>4, <1>5, <1>6

LEMMA ReleaseContainerInv ==
  ASSUME NEW p \in Actors, Inv, ReleaseContainer(p)
  PROVE  Inv'
  <1>. USE DEF Inv, ReleaseContainer, Delete, Doomed, Refused, Named, Own, Move, Goto,
        Fault, NoFault, durable
  <1>1. TypeOK'
    <2>1. pc' \in [Actors -> {"off", "serving"} \cup HostSteps \cup Final \cup ReconcileSteps]
      BY DEF TypeOK, HostSteps, Final, ReconcileSteps
    <2>2. faults' \in 0 .. MaxFaults BY DEF TypeOK
    <2>3. live' \subseteq World
      BY DEF TypeOK
    <2>. QED BY <2>1, <2>2, <2>3 DEF TypeOK
  <1>2. LockInv' BY DEF TypeOK, LockInv, Claiming, HostSteps, Final, ReconcileSteps
  <1>3. RowInv'
    <2> USE DEF TypeOK, RowInv
    <2>1. (\A q \in Actors : Working(q) => cur[q] \in AuditIds /\ Pending(cur[q]))'
      BY DEF LockInv, Working, Pending, Claiming, AtRecord, HostSteps, Final, ReconcileSteps, PendingStatuses
    <2>2. (\A a \in todo : Pending(a))' /\ (pc[Reconciler] = "serving" => todo = {})'
      BY DEF LockInv, Working, Pending, Claiming, AtRecord, HostSteps, Final, ReconcileSteps, PendingStatuses
    <2>3. (Working(Reconciler) => cur[Reconciler] \notin todo)'
      BY DEF LockInv, Working, Claiming, AtRecord, HostSteps, Final, ReconcileSteps
    <2>4. (\A a \in AuditIds : Pending(a) => audits[a].res \in Resources /\ Kind[audits[a].res] # "none")'
      BY DEF Pending, PendingStatuses
    <2>5. (\A q \in Actors : pc[q] = "deleteObject" => IsS3(q))'
      <3>1. \A q \in Actors : pc'[q] = "deleteObject" => pc[q] = "deleteObject"
        BY ZenonT(60)
      <3>2. \A q \in Actors : IsS3(q)' = IsS3(q)
        BY DEF IsS3, Res
      <3> QED BY <3>1, <3>2
    <2> QED BY <2>1, <2>2, <2>3, <2>4, <2>5 DEF RowInv
  <1>4. GoneInv'
    <2>1. \A q \in Actors : Working(q)' => q = p
      BY SMTT(60) DEF TypeOK, LockInv, Working, Claiming, AtRecord, HostSteps, ReconcileSteps
    <2>2. pc'[p] = "released" => Nothing(cur[p])'
      <3>1. pc[p] = "deleteContainer" /\ Working(p) /\ cur[p] \in AuditIds
        BY DEF TypeOK, RowInv, Working, Claiming, AtRecord, HostSteps, ReconcileSteps
      <3>2. pc'[p] = "released" => live' = live \ Doomed(p) /\ cur' = cur
        <4> HIDE DEF Doomed, Refused, Inv
        <4>1. pc \in [Actors -> {"off", "serving"} \cup HostSteps \cup Final \cup ReconcileSteps] /\ p \in Actors
          BY DEF Inv, TypeOK
        <4> QED BY <4>1
      <3> HIDE DEF ReleaseContainer, Delete
      <3>3. \A i \in live : i.by = cur[p] => i \in Doomed(p)
        BY <3>1 DEF LiveInv, Res
      <3> QED BY <3>2, <3>3 DEF Nothing
    <2>3. pc'[p] \in {"released", "releaseFailed"}
      BY DEF TypeOK
    <2>. QED BY <2>1, <2>2, <2>3 DEF GoneInv, Nothing, NothingKnown
  <1>5. LiveInv' BY DEF TypeOK, RowInv, GoneInv, LiveInv, LockInv, Pending, Nothing, NothingKnown, Working,
        Claiming, AtRecord, HostSteps, ReconcileSteps, PendingStatuses
  <1>6. CleanInv' BY DEF TypeOK, LockInv, CleanInv, Working, Claiming, AtRecord, HostSteps,
        Final, ReconcileSteps
  <1>. QED BY <1>1, <1>2, <1>3, <1>4, <1>5, <1>6

LEMMA ReleaseFailedInv ==
  ASSUME NEW p \in Actors, Inv, ReleaseFailed(p)
  PROVE  Inv'
  <1>. USE DEF Inv, ReleaseFailed, GiveUp, Return, Move, Goto, Fault, NoFault, durable
  <1>a. cur[p] \in AuditIds /\ Pending(cur[p])
    BY DEF RowInv, Working, Claiming, AtRecord, HostSteps, ReconcileSteps
  <1>b. UNCHANGED audits \/ Written(cur[p], "RELEASE_FAILED", "full")
    BY <1>a, WriteEffect DEF Statuses, Receipts
  <1>1. TypeOK'
    <2>1. pc' \in [Actors -> {"off", "serving"} \cup HostSteps \cup Final \cup ReconcileSteps]
      BY DEF TypeOK, HostSteps, Final, ReconcileSteps
    <2>2. faults' \in 0 .. MaxFaults BY DEF TypeOK
    <2>3. audits' \in [AuditIds -> Row]
      BY <1>b DEF TypeOK, Written
    <2>4. halted' \in BOOLEAN /\ lock' \in Actors \cup {Free}
      BY DEF TypeOK
    <2>5. failures' \subseteq AuditIds \cup {0}
      BY DEF TypeOK, RowInv, Working, Claiming, AtRecord, HostSteps, ReconcileSteps
    <2>. QED BY <2>1, <2>2, <2>3, <2>4, <2>5 DEF TypeOK
  <1>2. LockInv' BY DEF TypeOK, LockInv, Claiming, HostSteps, Final, ReconcileSteps
  <1>c. \A q \in Actors : Working(q)' => Working(q) /\ q = p /\ cur'[q] = cur[q] /\ pc'[q] # "claimFailed"
    BY DEF TypeOK, LockInv, Working, Claiming, AtRecord, HostSteps, ReconcileSteps, Final
  <1>3. RowInv' BY <1>a, <1>b, <1>c, SMTT(60) DEF Written, TypeOK, LockInv, RowInv, Working, Pending,
        IsS3, Res, Claiming, AtRecord, HostSteps, Final, ReconcileSteps, PendingStatuses
  <1>4. GoneInv' BY DEF TypeOK, LockInv, GoneInv, Working, Nothing, NothingKnown, Claiming, AtRecord,
        HostSteps, Final, ReconcileSteps
  <1>5. LiveInv' BY <1>a, <1>b DEF Written, TypeOK, RowInv, GoneInv, LiveInv, LockInv,
        Pending, Nothing, NothingKnown, Working, Claiming, AtRecord, HostSteps, ReconcileSteps, PendingStatuses
  <1>6. CleanInv'
    <2>1. CASE p = Reconciler
      <3>1. pc'[Reconciler] = "next" /\ failures' # {}
        BY <2>1 DEF TypeOK
      <3>. QED BY <3>1 DEF CleanInv
    <2>2. CASE p # Reconciler
      BY <2>2 DEF TypeOK, LockInv, CleanInv, Working, Claiming, AtRecord, HostSteps,
            ReconcileSteps
    <2>. QED BY <2>1, <2>2
  <1>. QED BY <1>1, <1>2, <1>3, <1>4, <1>5, <1>6

LEMMA ReleaseSucceededInv ==
  ASSUME NEW p \in Actors, Inv, ReleaseSucceeded(p)
  PROVE  Inv'
  <1>. USE DEF Inv, ReleaseSucceeded, GiveUp, Return, Move, Goto, Fault, NoFault, durable
  <1>a. cur[p] \in AuditIds /\ Pending(cur[p])
    BY DEF RowInv, Working, Claiming, AtRecord, HostSteps, ReconcileSteps
  <1>b. UNCHANGED audits \/ Written(cur[p], "RELEASE_SUCCEEDED", "full")
    BY <1>a, WriteEffect DEF Statuses, Receipts
  <1>1. TypeOK'
    <2>1. pc' \in [Actors -> {"off", "serving"} \cup HostSteps \cup Final \cup ReconcileSteps]
      BY DEF TypeOK, HostSteps, Final, ReconcileSteps
    <2>2. faults' \in 0 .. MaxFaults BY DEF TypeOK
    <2>3. audits' \in [AuditIds -> Row]
      BY <1>b DEF TypeOK, Written
    <2>. QED BY <2>1, <2>2, <2>3 DEF TypeOK
  <1>2. LockInv' BY DEF TypeOK, LockInv, Claiming, HostSteps, Final, ReconcileSteps
  <1>3. RowInv'
    <2>1. \A q \in Actors : ~ Working(q)'
      BY DEF TypeOK, LockInv, Working, Claiming, AtRecord, HostSteps, ReconcileSteps, Final
    <2>2. \A q \in Actors : pc'[q] # "deleteObject"
      BY <2>1 DEF LockInv, Working, Claiming, AtRecord, HostSteps, ReconcileSteps
    <2>3. cur[p] \in AuditIds /\ cur[p] \notin todo
      BY DEF TypeOK, LockInv, RowInv, Working, Claiming, AtRecord, HostSteps, ReconcileSteps
    <2>4. \A a \in todo' : Pending(a)'
      BY <1>b, <2>3 DEF Written, TypeOK, RowInv, Pending
    <2>5. \A a \in AuditIds : audits'[a].res = audits[a].res /\ (Pending(a)' => Pending(a))
      BY <1>a, <1>b DEF Written, Pending
    <2>6. pc'[Reconciler] = "serving" => todo' = {}
      BY DEF TypeOK, RowInv
    <2>. QED BY <2>1, <2>2, <2>4, <2>5, <2>6 DEF RowInv
  <1>4. GoneInv' BY DEF TypeOK, LockInv, GoneInv, Working, Nothing, NothingKnown, Claiming, AtRecord,
        HostSteps, Final, ReconcileSteps
  <1>5. LiveInv' BY <1>a, <1>b DEF Written, TypeOK, RowInv, GoneInv, LiveInv, LockInv,
        Pending, Nothing, NothingKnown, Working, Claiming, AtRecord, HostSteps, ReconcileSteps, PendingStatuses
  <1>6. CleanInv'
    <2>1. CASE p = Reconciler
      BY <2>1 DEF TypeOK, LockInv, GoneInv, CleanInv, Nothing, NothingKnown, Working, Claiming, AtRecord,
            HostSteps, ReconcileSteps
    <2>2. CASE p # Reconciler
      BY <2>2 DEF TypeOK, LockInv, GoneInv, CleanInv, Nothing, NothingKnown, Working, Claiming, AtRecord,
            HostSteps, ReconcileSteps
    <2>. QED BY <2>1, <2>2
  <1>. QED BY <1>1, <1>2, <1>3, <1>4, <1>5, <1>6

LEMMA ReconcileListInv ==
  ASSUME Inv, ReconcileList
  PROVE  Inv'
  <1>. USE DEF Inv, ReconcileList, Move, Goto, Fault, NoFault, durable
  <1>1. TypeOK'
    <2>1. pc' \in [Actors -> {"off", "serving"} \cup HostSteps \cup Final \cup ReconcileSteps]
      BY DEF TypeOK, HostSteps, Final, ReconcileSteps
    <2>2. faults' \in 0 .. MaxFaults BY DEF TypeOK
    <2>. QED BY <2>1, <2>2 DEF TypeOK
  <1>2. LockInv' BY DEF TypeOK, LockInv, Claiming, HostSteps, Final, ReconcileSteps
  <1>3. RowInv' BY DEF TypeOK, LockInv, RowInv, Working, Pending, IsS3, Res, Claiming,
        AtRecord, HostSteps, Final, ReconcileSteps, PendingStatuses
  <1>4. GoneInv' BY DEF TypeOK, LockInv, GoneInv, Working, Nothing, NothingKnown, Claiming, AtRecord,
        HostSteps, Final, ReconcileSteps
  <1>5. LiveInv' BY DEF TypeOK, RowInv, GoneInv, LiveInv, LockInv, Pending, Nothing, NothingKnown, Working,
        Claiming, AtRecord, HostSteps, ReconcileSteps, PendingStatuses
  <1>6. CleanInv' BY DEF TypeOK, LockInv, LiveInv, CleanInv, Working, Claiming, AtRecord,
        HostSteps, Final, ReconcileSteps
  <1>. QED BY <1>1, <1>2, <1>3, <1>4, <1>5, <1>6

LEMMA ReconcileNextInv ==
  ASSUME Inv, ReconcileNext
  PROVE  Inv'
  <1>. USE DEF Inv, ReconcileNext, Move, Goto, Fault, NoFault, durable
  <1>1. TypeOK'
    <2>1. pc' \in [Actors -> {"off", "serving"} \cup HostSteps \cup Final \cup ReconcileSteps]
      BY DEF TypeOK, HostSteps, Final, ReconcileSteps
    <2>2. faults' \in 0 .. MaxFaults BY DEF TypeOK
    <2>. QED BY <2>1, <2>2 DEF TypeOK
  <1>2. LockInv' BY DEF TypeOK, LockInv, Claiming, HostSteps, Final, ReconcileSteps
  <1>3. RowInv' BY DEF TypeOK, LockInv, RowInv, Working, Pending, IsS3, Res, Claiming,
        AtRecord, HostSteps, Final, ReconcileSteps, PendingStatuses
  <1>4. GoneInv' BY DEF TypeOK, LockInv, GoneInv, Working, Nothing, NothingKnown, Claiming, AtRecord,
        HostSteps, Final, ReconcileSteps
  <1>5. LiveInv' BY DEF TypeOK, RowInv, GoneInv, LiveInv, LockInv, Pending, Nothing, NothingKnown, Working,
        Claiming, AtRecord, HostSteps, ReconcileSteps, PendingStatuses
  <1>6. CleanInv' BY DEF TypeOK, LockInv, CleanInv, Working, Claiming, AtRecord, HostSteps,
        Final, ReconcileSteps
  <1>. QED BY <1>1, <1>2, <1>3, <1>4, <1>5, <1>6

LEMMA ReconcileRecoverInv ==
  ASSUME Inv, ReconcileRecover
  PROVE  Inv'
  <1>. USE DEF Inv, ReconcileRecover, GiveUp, Named, Own, IsS3, Res, Move, Goto, Fault,
        NoFault, durable
  <1>1. TypeOK'
    <2>1. pc' \in [Actors -> {"off", "serving"} \cup HostSteps \cup Final \cup ReconcileSteps]
      BY DEF TypeOK, HostSteps, Final, ReconcileSteps
    <2>2. faults' \in 0 .. MaxFaults BY DEF TypeOK
    <2>. QED BY <2>1, <2>2 DEF TypeOK
  <1>2. LockInv' BY DEF TypeOK, LockInv, Claiming, HostSteps, Final, ReconcileSteps
  <1>3. RowInv' BY DEF TypeOK, LockInv, RowInv, Working, Pending, IsS3, Res, Claiming,
        AtRecord, HostSteps, Final, ReconcileSteps, PendingStatuses
  <1>4. GoneInv'
    <2>1. \A q \in Actors : Working(q)' => q = Reconciler
      BY DEF TypeOK, LockInv, Working, Claiming, AtRecord, HostSteps, ReconcileSteps
    <2>2. pc'[Reconciler] = "absent" => Nothing(cur[Reconciler])'
      BY DEF TypeOK, RowInv, LiveInv, Nothing, NothingKnown, IsS3, Res, Working, Claiming, AtRecord,
            HostSteps, ReconcileSteps
    <2>3. pc'[Reconciler] \in {"absent", "bind", "next"}
      BY DEF TypeOK
    <2>. QED BY <2>1, <2>2, <2>3 DEF GoneInv, Nothing, NothingKnown
  <1>5. LiveInv' BY DEF TypeOK, RowInv, GoneInv, LiveInv, LockInv, Pending, Nothing, NothingKnown, Working,
        Claiming, AtRecord, HostSteps, ReconcileSteps, PendingStatuses
  <1>6. CleanInv'
    <2>1. pc[Reconciler] = "recover" /\ UNCHANGED <<live, todo, cur>>
      OBVIOUS
    <2>2. \/ pc'[Reconciler] \in {"bind", "absent"} /\ failures' = failures
          \/ pc'[Reconciler] = "next" /\ failures' # {}
      BY DEF TypeOK
    <2> HIDE DEF ReconcileRecover, Inv
    <2>3. CleanInv
      BY DEF Inv
    <2>4. ASSUME NEW i \in live, i.by \in AuditIds, ~i.disowned, failures' = failures, failures = {},
                 pc'[Reconciler] \in {"bind", "absent"}
          PROVE  i.by \in todo \/ (Working(Reconciler)' /\ i.by = cur[Reconciler])
      BY <2>1, <2>3, <2>4 DEF CleanInv, Working, AtRecord, ReconcileSteps
    <2>. QED BY <2>1, <2>2, <2>4 DEF CleanInv
  <1>. QED BY <1>1, <1>2, <1>3, <1>4, <1>5, <1>6

LEMMA ReconcileAbsentInv ==
  ASSUME Inv, ReconcileAbsent
  PROVE  Inv'
  <1>. USE DEF Inv, ReconcileAbsent, GiveUp, Move, Goto, Fault, NoFault, durable
  <1>a. cur[Reconciler] \in AuditIds /\ Pending(cur[Reconciler])
    BY DEF RowInv, Working, Claiming, AtRecord, HostSteps, ReconcileSteps
  <1>b. UNCHANGED audits \/ Written(cur[Reconciler], "CLAIM_FAILED", "none")
    BY <1>a, WriteEffect DEF Statuses, Receipts
  <1>1. TypeOK'
    <2>1. pc' \in [Actors -> {"off", "serving"} \cup HostSteps \cup Final \cup ReconcileSteps]
      BY DEF TypeOK, HostSteps, Final, ReconcileSteps
    <2>2. faults' \in 0 .. MaxFaults BY DEF TypeOK
    <2>3. audits' \in [AuditIds -> Row]
      BY <1>b DEF TypeOK, Written
    <2>. QED BY <2>1, <2>2, <2>3 DEF TypeOK
  <1>2. LockInv' BY DEF TypeOK, LockInv, Claiming, HostSteps, Final, ReconcileSteps
  <1>c. \A q \in Actors : Working(q)' => Working(q) /\ q = Reconciler /\ cur'[q] = cur[q] /\ pc'[q] # "claimFailed"
    BY DEF TypeOK, LockInv, Working, Claiming, AtRecord, HostSteps, ReconcileSteps, Final
  <1>3. RowInv' BY <1>a, <1>b, <1>c DEF Written, TypeOK, LockInv, RowInv, Working, Pending,
        IsS3, Res, Claiming, AtRecord, HostSteps, Final, ReconcileSteps, PendingStatuses
  <1>4. GoneInv' BY DEF TypeOK, LockInv, GoneInv, Working, Nothing, NothingKnown, Claiming, AtRecord,
        HostSteps, Final, ReconcileSteps
  <1>5. LiveInv' BY <1>a, <1>b DEF Written, TypeOK, RowInv, GoneInv, LiveInv, LockInv,
        Pending, Nothing, NothingKnown, Working, Claiming, AtRecord, HostSteps, ReconcileSteps, PendingStatuses
  <1>6. CleanInv' BY DEF TypeOK, LockInv, GoneInv, CleanInv, Nothing, NothingKnown, Working, Claiming,
        AtRecord, HostSteps, Final, ReconcileSteps
  <1>. QED BY <1>1, <1>2, <1>3, <1>4, <1>5, <1>6

LEMMA ReconcileBindInv ==
  ASSUME Inv, ReconcileBind
  PROVE  Inv'
  <1>. USE DEF Inv, ReconcileBind, GiveUp, Move, Goto, Fault, NoFault, durable
  <1>a. cur[Reconciler] \in AuditIds /\ Pending(cur[Reconciler])
    BY DEF RowInv, Working, Claiming, AtRecord, HostSteps, ReconcileSteps
  <1>b. UNCHANGED audits \/ Written(cur[Reconciler], "CLAIM_SUCCEEDED", "full")
    BY <1>a, WriteEffect DEF Statuses, Receipts
  <1>1. TypeOK'
    <2>1. pc' \in [Actors -> {"off", "serving"} \cup HostSteps \cup Final \cup ReconcileSteps]
      BY DEF TypeOK, HostSteps, Final, ReconcileSteps
    <2>2. faults' \in 0 .. MaxFaults BY DEF TypeOK
    <2>3. audits' \in [AuditIds -> Row]
      BY <1>b DEF TypeOK, Written
    <2>. QED BY <2>1, <2>2, <2>3 DEF TypeOK
  <1>2. LockInv' BY DEF TypeOK, LockInv, Claiming, HostSteps, Final, ReconcileSteps
  <1>c. \A q \in Actors : Working(q)' => Working(q) /\ q = Reconciler /\ cur'[q] = cur[q] /\ pc'[q] # "claimFailed"
    BY DEF TypeOK, LockInv, Working, Claiming, AtRecord, HostSteps, ReconcileSteps, Final
  <1>3. RowInv' BY <1>a, <1>b, <1>c, SMTT(60) DEF Written, TypeOK, LockInv, RowInv, Working, Pending,
        IsS3, Res, Claiming, AtRecord, HostSteps, Final, ReconcileSteps, PendingStatuses
  <1>4. GoneInv' BY DEF TypeOK, LockInv, GoneInv, Working, Nothing, NothingKnown, Claiming, AtRecord,
        HostSteps, Final, ReconcileSteps
  <1>5. LiveInv' BY <1>a, <1>b DEF Written, TypeOK, RowInv, GoneInv, LiveInv, LockInv,
        Pending, Nothing, NothingKnown, Working, Claiming, AtRecord, HostSteps, ReconcileSteps, PendingStatuses
  <1>6. CleanInv' BY ZenonT(60) DEF TypeOK, LockInv, CleanInv, Working, Claiming, AtRecord, HostSteps,
        Final, ReconcileSteps
  <1>. QED BY <1>1, <1>2, <1>3, <1>4, <1>5, <1>6

LEMMA ReconcileEndInv ==
  ASSUME Inv, ReconcileEnd
  PROVE  Inv'
  <1>. USE DEF Inv, ReconcileEnd, Move, Goto, Fault, NoFault, durable
  <1>1. TypeOK'
    <2>1. pc' \in [Actors -> {"off", "serving"} \cup HostSteps \cup Final \cup ReconcileSteps]
      BY DEF TypeOK, HostSteps, Final, ReconcileSteps
    <2>2. faults' \in 0 .. MaxFaults BY DEF TypeOK
    <2>. QED BY <2>1, <2>2 DEF TypeOK
  <1>2. LockInv' BY DEF TypeOK, LockInv, Claiming, HostSteps, Final, ReconcileSteps
  <1>3. RowInv' BY DEF TypeOK, LockInv, RowInv, Working, Pending, IsS3, Res, Claiming,
        AtRecord, HostSteps, Final, ReconcileSteps, PendingStatuses
  <1>4. GoneInv' BY DEF TypeOK, LockInv, GoneInv, Working, Nothing, NothingKnown, Claiming, AtRecord,
        HostSteps, Final, ReconcileSteps
  <1>5. LiveInv' BY DEF TypeOK, RowInv, GoneInv, LiveInv, LockInv, Pending, Nothing, NothingKnown, Working,
        Claiming, AtRecord, HostSteps, ReconcileSteps, PendingStatuses
  <1>6. CleanInv' BY DEF TypeOK, LockInv, CleanInv, Working, Claiming, AtRecord, HostSteps,
        Final, ReconcileSteps
  <1>. QED BY <1>1, <1>2, <1>3, <1>4, <1>5, <1>6

LEMMA StartInv ==
  ASSUME Inv, Start
  PROVE  Inv'
  <1>. USE DEF Inv, Start, Move, Goto, Fault, NoFault, durable
  <1>1. TypeOK'
    <2>1. pc' \in [Actors -> {"off", "serving"} \cup HostSteps \cup Final \cup ReconcileSteps]
      BY DEF TypeOK, HostSteps, Final, ReconcileSteps
    <2>2. faults' \in 0 .. MaxFaults BY DEF TypeOK
    <2>. QED BY <2>1, <2>2 DEF TypeOK
  <1>2. LockInv' BY DEF TypeOK, LockInv, Claiming, HostSteps, Final, ReconcileSteps
  <1>3. RowInv' BY DEF TypeOK, LockInv, RowInv, Working, Pending, IsS3, Res, Claiming,
        AtRecord, HostSteps, Final, ReconcileSteps, PendingStatuses
  <1>4. GoneInv' BY DEF TypeOK, LockInv, GoneInv, Working, Nothing, NothingKnown, Claiming, AtRecord,
        HostSteps, Final, ReconcileSteps
  <1>5. LiveInv' BY DEF TypeOK, RowInv, GoneInv, LiveInv, LockInv, Pending, Nothing, NothingKnown, Working,
        Claiming, AtRecord, HostSteps, ReconcileSteps, PendingStatuses
  <1>6. CleanInv' BY DEF TypeOK, LockInv, CleanInv, Working, Claiming, AtRecord, HostSteps,
        Final, ReconcileSteps
  <1>. QED BY <1>1, <1>2, <1>3, <1>4, <1>5, <1>6

LEMMA ExitInv ==
  ASSUME Inv, Exit
  PROVE  Inv'
  <1>. USE DEF Inv, Exit, Stop, Idle, Move, Goto, Fault, NoFault, durable
  <1>1. TypeOK'
    <2>1. pc' \in [Actors -> {"off", "serving"} \cup HostSteps \cup Final \cup ReconcileSteps]
      BY DEF TypeOK, HostSteps, Final, ReconcileSteps
    <2>2. faults' \in 0 .. MaxFaults BY DEF TypeOK
    <2>. QED BY <2>1, <2>2 DEF TypeOK
  <1>2. LockInv' BY DEF TypeOK, LockInv, Claiming, HostSteps, Final, ReconcileSteps
  <1>3. RowInv' BY DEF TypeOK, LockInv, RowInv, Working, Pending, IsS3, Res, Claiming,
        AtRecord, HostSteps, Final, ReconcileSteps, PendingStatuses
  <1>4. GoneInv' BY DEF TypeOK, LockInv, GoneInv, Working, Nothing, NothingKnown, Claiming, AtRecord,
        HostSteps, Final, ReconcileSteps
  <1>5. LiveInv' BY DEF TypeOK, RowInv, GoneInv, LiveInv, LockInv, Pending, Nothing, NothingKnown, Working,
        Claiming, AtRecord, HostSteps, ReconcileSteps, PendingStatuses
  <1>6. CleanInv' BY DEF TypeOK, LockInv, CleanInv, Working, Claiming, AtRecord, HostSteps,
        Final, ReconcileSteps
  <1>. QED BY <1>1, <1>2, <1>3, <1>4, <1>5, <1>6

LEMMA CrashInv ==
  ASSUME Inv, Crash
  PROVE  Inv'
  <1>. USE DEF Inv, Crash, Stop, Move, Goto, Fault, NoFault, durable
  <1>1. TypeOK'
    <2>1. pc' \in [Actors -> {"off", "serving"} \cup HostSteps \cup Final \cup ReconcileSteps]
      BY DEF TypeOK, HostSteps, Final, ReconcileSteps
    <2>2. faults' \in 0 .. MaxFaults BY DEF TypeOK
    <2>. QED BY <2>1, <2>2 DEF TypeOK
  <1>2. LockInv' BY DEF TypeOK, LockInv, Claiming, HostSteps, Final, ReconcileSteps
  <1>3. RowInv' BY DEF TypeOK, LockInv, RowInv, Working, Pending, IsS3, Res, Claiming,
        AtRecord, HostSteps, Final, ReconcileSteps, PendingStatuses
  <1>4. GoneInv' BY DEF TypeOK, LockInv, GoneInv, Working, Nothing, NothingKnown, Claiming, AtRecord,
        HostSteps, Final, ReconcileSteps
  <1>5. LiveInv' BY DEF TypeOK, RowInv, GoneInv, LiveInv, LockInv, Pending, Nothing, NothingKnown, Working,
        Claiming, AtRecord, HostSteps, ReconcileSteps, PendingStatuses
  <1>6. CleanInv' BY DEF TypeOK, LockInv, CleanInv, Working, Claiming, AtRecord, HostSteps,
        Final, ReconcileSteps
  <1>. QED BY <1>1, <1>2, <1>3, <1>4, <1>5, <1>6

LEMMA OccupyInv ==
  ASSUME NEW r \in Resources, Inv, Occupy(r)
  PROVE  Inv'
  <1>. USE DEF Inv, Occupy, process, Named, Move, Goto, Fault, NoFault, durable
  <1>1. TypeOK'
    <2>1. pc' \in [Actors -> {"off", "serving"} \cup HostSteps \cup Final \cup ReconcileSteps]
      BY DEF TypeOK, HostSteps, Final, ReconcileSteps
    <2>2. faults' \in 0 .. MaxFaults BY DEF TypeOK
    <2>3. live' \subseteq World
      <3>1. \A other \in Homonyms : [res |-> r, by |-> other, proof |-> FALSE, disowned |-> FALSE] \in World
        OBVIOUS
      <3>2. \E other \in Homonyms : live' = live \cup {[res |-> r, by |-> other, proof |-> FALSE, disowned |-> FALSE]}
        OBVIOUS
      <3>3. live \subseteq World
        BY DEF TypeOK
      <3>4. PICK other \in Homonyms : live' = live \cup {[res |-> r, by |-> other, proof |-> FALSE, disowned |-> FALSE]}
        BY <3>2
      <3>5. {[res |-> r, by |-> other, proof |-> FALSE, disowned |-> FALSE]} \subseteq World
        BY <3>1
      <3>. QED BY <3>3, <3>4, <3>5
    <2>. QED BY <2>1, <2>2, <2>3 DEF TypeOK
  <1>2. LockInv' BY DEF TypeOK, LockInv, Claiming, HostSteps, Final, ReconcileSteps
  <1>3. RowInv' BY DEF TypeOK, LockInv, RowInv, Working, Pending, IsS3, Res, Claiming,
        AtRecord, HostSteps, Final, ReconcileSteps, PendingStatuses
  <1>a. \A i \in live' : i.by \in AuditIds => i \in live
    BY DEF Others, Colleague, Stranger, AuditIds
  <1>4. GoneInv'
    <2>1. \A q \in Actors : Working(q) => cur[q] \in AuditIds
      BY DEF RowInv
    <2>. QED BY <1>a, <2>1 DEF GoneInv, Nothing, NothingKnown, Working
  <1>5. LiveInv' BY <1>a DEF LiveInv, Pending
  <1>6. CleanInv' BY <1>a DEF CleanInv, Working
  <1>. QED BY <1>1, <1>2, <1>3, <1>4, <1>5, <1>6

LEMMA ManualCleanupInv ==
  ASSUME NEW i \in live, Inv, ManualCleanup(i)
  PROVE  Inv'
  <1>. USE DEF Inv, ManualCleanup, process, Made, Move, Goto, Fault, NoFault, durable
  <1>1. TypeOK'
    <2>1. pc' \in [Actors -> {"off", "serving"} \cup HostSteps \cup Final \cup ReconcileSteps]
      BY DEF TypeOK, HostSteps, Final, ReconcileSteps
    <2>2. faults' \in 0 .. MaxFaults BY DEF TypeOK
    <2>. QED BY <2>1, <2>2 DEF TypeOK
  <1>2. LockInv' BY DEF TypeOK, LockInv, Claiming, HostSteps, Final, ReconcileSteps
  <1>3. RowInv' BY DEF TypeOK, LockInv, RowInv, Working, Pending, IsS3, Res, Claiming,
        AtRecord, HostSteps, Final, ReconcileSteps, PendingStatuses
  <1>4. GoneInv' BY DEF TypeOK, LockInv, GoneInv, Working, Nothing, NothingKnown, Claiming, AtRecord,
        HostSteps, Final, ReconcileSteps
  <1>5. LiveInv' BY DEF TypeOK, RowInv, GoneInv, LiveInv, LockInv, Pending, Nothing, NothingKnown, Working,
        Claiming, AtRecord, HostSteps, ReconcileSteps, PendingStatuses
  <1>6. CleanInv' BY DEF TypeOK, LockInv, CleanInv, Working, Claiming, AtRecord, HostSteps,
        Final, ReconcileSteps
  <1>. QED BY <1>1, <1>2, <1>3, <1>4, <1>5, <1>6

LEMMA NextInv ==
  ASSUME Inv, [Next]_vars
  PROVE  Inv'
  <1>1. ASSUME NEW h \in Hosts, HostStep(h) PROVE Inv'
    BY <1>1, ExecuteHaltedInv, ExecuteUnsupportedInv, ExecuteDuplicateInv, ExecuteAttemptInv,
       ClaimHeadInv, ClaimCreateInv, ClaimCompareInv, ClaimPutInv, ClaimUndoInv, ClaimFailedInv,
       ClaimSucceededInv, VerifyControlInv DEF HostStep, Execute
  <1>2. ASSUME NEW p \in Actors, ReleaseStep(p) PROVE Inv'
    BY <1>2, ReleasePendingInv, ReleaseObjectInv, ReleaseContainerInv, ReleaseFailedInv,
       ReleaseSucceededInv DEF ReleaseStep
  <1>3. CASE ReconcileStep
    BY <1>3, ReconcileListInv, ReconcileNextInv, ReconcileRecoverInv, ReconcileAbsentInv,
       ReconcileBindInv, ReconcileEndInv DEF ReconcileStep
  <1>4. CASE Start \/ Exit \/ Crash
    BY <1>4, StartInv, ExitInv, CrashInv
  <1>5. ASSUME NEW r \in Resources, Occupy(r) PROVE Inv'
    BY <1>5, OccupyInv
  <1>6. ASSUME NEW i \in live, ManualCleanup(i) PROVE Inv'
    BY <1>6, ManualCleanupInv
  <1>7. CASE UNCHANGED vars
    <2>. USE <1>7 DEF vars, durable, process, Inv
    <2>1. TypeOK' BY DEF TypeOK
    <2>2. LockInv' BY DEF LockInv
    <2>3. RowInv' BY DEF RowInv, Working, Pending, IsS3, Res
    <2>4. GoneInv' BY DEF GoneInv, Working, Nothing, NothingKnown
    <2>5. LiveInv' BY DEF LiveInv, Pending
    <2>6. CleanInv' BY DEF CleanInv, Working
    <2>. QED BY <2>1, <2>2, <2>3, <2>4, <2>5, <2>6
  <1>. QED BY <1>1, <1>2, <1>3, <1>4, <1>5, <1>6, <1>7 DEF Next

(* Inv holds in every reachable state.                                      *)
THEOREM Invariance == Spec => []Inv
  <1>1. Inv /\ [Next]_vars => Inv'
    BY NextInv
  <1>. QED BY <1>1, InitInv, PTL DEF Spec

(* Every variable keeps its type, whatever the number of hosts, resources,  *)
(* rows and faults.                                                         *)
THEOREM TypeCorrect == Spec => []TypeOK
  <1>1. Inv => TypeOK
    BY DEF Inv
  <1>. QED BY <1>1, Invariance, PTL

(* A row PendingClaimAudits returns names every resource an attempt made,   *)
(* or the resource is one whose create took effect and reported an error,   *)
(* and its row is CLAIM_FAILED: Execute and Reconcile forget nothing else,  *)
(* whatever calls and writes fail and wherever the process dies.            *)
THEOREM NothingForgotten == Spec => []Recoverable
  <1>1. Inv => Recoverable
    BY DEF Inv, LiveInv, Recoverable, Made
  <1>. QED BY <1>1, Invariance, PTL

(* While a scan goes on and no claim is under way, no resource exists whose *)
(* creation the engine was told of: every way out of Execute cleaned up or  *)
(* halted. What a create made and reported as failed may be there.          *)
THEOREM CleanBetweenClaims == Spec => []QuietMeansClean
  <1>1. Inv => QuietMeansClean
    BY DEF Inv, CleanInv, QuietMeansClean, Known, Made
  <1>. QED BY <1>1, Invariance, PTL

-----------------------------------------------------------------------------
(* The refinement. The engine implements ClaimLedger: its table and the     *)
(* providers together write ahead, hold one resource at a time, and close a *)
(* row only when the resource is gone, for good. On the way: a halted       *)
(* engine creates nothing, and a reconciliation adopts only what is its own.*)

(* A host inside Execute looked at haltedErr under operationMu, and nobody  *)
(* sets it while the lock is taken by another.                              *)
InsideIsLive == \A h \in Hosts : pc[h] \in Claiming => ~halted

(* The engine knows of at most one resource at the providers.               *)
AtMostOne == \A i, j \in Known : i.by = j.by

RInv == Inv /\ InsideIsLive /\ AtMostOne /\ AdoptsOnlyItsOwn

(* What the ledger sees.                                                    *)
OpenRows == {a \in AuditIds : Pending(a)}
SettledRows == {a \in AuditIds : audits[a].status \in {"CLAIM_FAILED", "RELEASE_SUCCEEDED"}}
Existing == {i.by : i \in Known}
LedgerStep == [Ledger!Next]_(Ledger!vars)

(* The world got no resource of a maker that it had not.                    *)
NothingNew ==
  \A i \in live' : i.by \in AuditIds => \E j \in live : j.by = i.by /\ j.disowned = i.disowned

-----------------------------------------------------------------------------
(* The inductive invariant: what each kind of step leaves alone.            *)

LEMMA CreateStep ==
  ASSUME Inv, InsideIsLive, NEW h \in Hosts, ClaimCreate(h)
  PROVE  /\ Known = {}
         /\ cur[h] \in AuditIds /\ Pending(cur[h])
         /\ UNCHANGED audits
         /\ \/ UNCHANGED live
            \/ \E new : new.by = cur[h] /\ live' = live \cup {new}
  <1>1. pc[h] = "create" /\ lock = h /\ ~halted /\ pc[Reconciler] = "serving"
    BY DEF Inv, LockInv, InsideIsLive, ClaimCreate, Claiming, HostSteps
  <1>2. cur[h] \in AuditIds /\ Pending(cur[h]) /\ Nothing(cur[h])
    BY <1>1 DEF Inv, RowInv, GoneInv, Working, Claiming, HostSteps
  <1>3. Known = {}
    BY <1>1, <1>2 DEF Inv, CleanInv, Nothing, Known, Made
  <1>4. UNCHANGED live \/ \E d \in BOOLEAN : live' = live \cup {Resource(h, d)}
    BY DEF ClaimCreate
  <1>5. \A d \in BOOLEAN : Resource(h, d).by = cur[h]
    BY DEF Resource
  <1>. QED BY <1>2, <1>3, <1>4, <1>5 DEF ClaimCreate

(* Every other step only takes away.                                        *)
LEMMA OthersOnlyTake ==
  ASSUME Inv, [Next]_vars, \A h \in Hosts : ~ClaimCreate(h)
  PROVE  NothingNew
  <1>1. ASSUME NEW h \in Hosts, ClaimPut(h) PROVE NothingNew
    <2>1. \A i \in live : LET k == [i EXCEPT !.proof = i.proof \/ i.by = cur[h]]
                          IN  k.by = i.by /\ k.disowned = i.disowned
      BY DEF Inv, TypeOK
    <2>2. UNCHANGED live \/ live' = {[i EXCEPT !.proof = i.proof \/ i.by = cur[h]] : i \in live}
      BY <1>1 DEF ClaimPut
    <2>3. ASSUME NEW i \in live, NEW k \in live', k = [i EXCEPT !.proof = i.proof \/ i.by = cur[h]]
          PROVE  \E j \in live : j.by = k.by /\ j.disowned = k.disowned
      BY <2>1, <2>3
    <2>. QED BY <2>2, <2>3 DEF NothingNew
  <1>2. ASSUME NEW p \in Actors, ReleaseObject(p) PROVE NothingNew
    <2>1. \A i \in live : LET k == [i EXCEPT !.proof = i.proof /\ i.by # cur[p]]
                          IN  k.by = i.by /\ k.disowned = i.disowned
      BY DEF Inv, TypeOK
    <2>2. UNCHANGED live \/ live' = {[i EXCEPT !.proof = i.proof /\ i.by # cur[p]] : i \in live}
      BY <1>2 DEF ReleaseObject
    <2>3. ASSUME NEW i \in live, NEW k \in live', k = [i EXCEPT !.proof = i.proof /\ i.by # cur[p]]
          PROVE  \E j \in live : j.by = k.by /\ j.disowned = k.disowned
      BY <2>1, <2>3
    <2>. QED BY <2>2, <2>3 DEF NothingNew
  <1>3. ASSUME NEW p \in Actors, NEW d, NEW f, Delete(p, d, f) PROVE NothingNew
    BY <1>3 DEF NothingNew, Delete
  <1>4. ASSUME NEW r \in Resources, Occupy(r) PROVE NothingNew
    BY <1>4 DEF NothingNew, Occupy, Others, Colleague, Stranger, AuditIds
  <1>5. ASSUME NEW i \in live, ManualCleanup(i) PROVE NothingNew
    BY <1>5 DEF NothingNew, ManualCleanup
  <1>6. CASE UNCHANGED live
    BY <1>6 DEF NothingNew
  <1>7. ASSUME NEW h \in Hosts, HostStep(h) PROVE NothingNew
    <2>1. ~ClaimCreate(h)
      OBVIOUS
    <2>. QED BY <1>1, <1>3, <1>6, <1>7, <2>1 DEF HostStep, Execute, ExecuteHalted, ExecuteUnsupported, ExecuteDuplicate,
       ExecuteAttempt, ClaimHead, ClaimCompare, ClaimUndo, ClaimFailed, ClaimSucceeded, VerifyControl, durable
  <1>8. ASSUME NEW p \in Actors, ReleaseStep(p) PROVE NothingNew
    BY <1>2, <1>3, <1>6, <1>8 DEF ReleaseStep, ReleasePending, ReleaseContainer, ReleaseFailed, ReleaseSucceeded
  <1>9. CASE ReconcileStep
    BY <1>6, <1>9 DEF ReconcileStep, ReconcileList, ReconcileNext, ReconcileRecover, ReconcileAbsent,
       ReconcileBind, ReconcileEnd, durable
  <1>10. CASE Start \/ Exit \/ Crash \/ UNCHANGED vars
    BY <1>6, <1>10 DEF Start, Exit, Crash, Stop, vars, durable
  <1>. QED BY <1>4, <1>5, <1>7, <1>8, <1>9, <1>10 DEF Next

LEMMA AtMostOneKept ==
  ASSUME Inv, InsideIsLive, AtMostOne, [Next]_vars
  PROVE  AtMostOne'
  <1>1. ASSUME NEW h \in Hosts, ClaimCreate(h) PROVE AtMostOne'
    <2>1. Known = {}
      BY <1>1, CreateStep
    <2>2. CASE UNCHANGED live
      BY <2>2 DEF AtMostOne, Known, Made
    <2>3. ASSUME NEW new, live' = live \cup {new} PROVE AtMostOne'
      BY <2>1, <2>3 DEF AtMostOne, Known, Made
    <2>. QED BY <1>1, <2>2, <2>3, CreateStep
  <1>2. CASE \A h \in Hosts : ~ClaimCreate(h)
    BY <1>2, OthersOnlyTake DEF AtMostOne, NothingNew, Known, Made
  <1>. QED BY <1>1, <1>2

(* Until the reconciliation is over the goroutines of the hosts are not     *)
(* there, and none of their steps is possible.                              *)
LEMMA HostsAreOff ==
  ASSUME Inv, pc[Reconciler] # "serving"
  PROVE  /\ \A h \in Hosts : pc[h] = "off" /\ ~HostStep(h) /\ ~ReleaseStep(h)
  <1>1. \A h \in Hosts : pc[h] = "off"
    BY DEF Inv, LockInv
  <1>2. ASSUME NEW h \in Hosts PROVE ~HostStep(h) /\ ~ReleaseStep(h)
    BY <1>1 DEF HostStep, Execute, ExecuteHalted, ExecuteUnsupported, ExecuteDuplicate, ExecuteAttempt,
       Acquires, ClaimHead, ClaimCreate, ClaimCompare, ClaimPut, ClaimUndo, ClaimFailed, ClaimSucceeded,
       VerifyControl, ReleaseStep, ReleasePending, ReleaseObject, ReleaseContainer, ReleaseFailed,
       ReleaseSucceeded
  <1>. QED BY <1>1, <1>2

(* A step of a host: the others stay where they are, and haltedErr is set   *)
(* only by one that leaves.                                                 *)
LEMMA HostStepEffect ==
  ASSUME Inv, NEW h \in Hosts, HostStep(h) \/ ReleaseStep(h)
  PROVE  /\ \A q \in Actors \ {h} : pc'[q] = pc[q]
         /\ pc[h] \in HostSteps
         /\ \/ halted' = halted /\ (pc'[h] \in Claiming => pc[h] \in Claiming \/ ~halted)
            \/ pc[h] \in Claiming /\ pc'[h] \notin Claiming
         /\ UNCHANGED cur \/ (pc[h] = "ready" /\ \A q \in Actors \ {h} : cur'[q] = cur[q])
  <1>. USE DEF Move, Goto, Return, GiveUp, Claiming, HostSteps
  <1>0. pc \in [Actors -> {"off", "serving"} \cup HostSteps \cup Final \cup ReconcileSteps] /\ h # Reconciler
        /\ cur \in [Actors -> AuditIds \cup {0}]
    BY DEF Inv, TypeOK
  <1>1. CASE Execute(h)
    BY <1>0, <1>1 DEF Execute, ExecuteHalted, ExecuteUnsupported, ExecuteDuplicate, ExecuteAttempt, Acquires
  <1>2. CASE ClaimHead(h) \/ ClaimCreate(h) \/ ClaimPut(h) \/ ClaimUndo(h) \/ ClaimSucceeded(h) \/ VerifyControl(h)
    BY <1>0, <1>2 DEF ClaimHead, ClaimCreate, ClaimPut, ClaimUndo, ClaimSucceeded, VerifyControl, Delete
  <1>3. CASE ClaimCompare(h) \/ ClaimFailed(h)
    BY <1>0, <1>3 DEF ClaimCompare, ClaimFailed
  <1>4. CASE ReleasePending(h) \/ ReleaseObject(h) \/ ReleaseContainer(h)
    BY <1>0, <1>4 DEF ReleasePending, ReleaseObject, ReleaseContainer, Delete
  <1>5. CASE ReleaseFailed(h) \/ ReleaseSucceeded(h)
    BY <1>0, <1>5 DEF ReleaseFailed, ReleaseSucceeded
  <1>. QED BY <1>1, <1>2, <1>3, <1>4, <1>5 DEF HostStep, ReleaseStep

LEMMA InsideKept ==
  ASSUME Inv, Inv', InsideIsLive, [Next]_vars
  PROVE  InsideIsLive'
  <1>1. CASE pc[Reconciler] # "serving"
    <2>1. \A h \in Hosts : pc[h] = "off" /\ ~HostStep(h) /\ ~ReleaseStep(h)
      BY <1>1, HostsAreOff
    <2>2. CASE pc'[Reconciler] # "serving"
      BY <2>2 DEF Inv, LockInv, InsideIsLive, Claiming, HostSteps
    <2>3. CASE pc'[Reconciler] = "serving"
      <3>1. ~Start /\ ~Exit /\ ~Crash /\ pc' # pc
        BY <1>1, <2>3 DEF Start, Exit, Crash, Stop
      <3>2. ~ReleaseStep(Reconciler)
        BY <1>1, <2>3 DEF ReleaseStep, ReleasePending, ReleaseObject, ReleaseContainer, ReleaseFailed,
           ReleaseSucceeded, Delete, GiveUp, Move, Goto, Inv, TypeOK
      <3>3. ReconcileStep
        BY <2>1, <3>1, <3>2 DEF Next, Occupy, ManualCleanup, vars, process
      <3>4. \A h \in Hosts : pc'[h] = "ready" \/ pc'[h] = "off"
        BY <2>1, <3>3 DEF ReconcileStep, ReconcileList, ReconcileNext, ReconcileRecover, ReconcileAbsent,
           ReconcileBind, ReconcileEnd, GiveUp, Move, Goto, Inv, TypeOK
      <3>. QED BY <3>4 DEF InsideIsLive, Claiming, HostSteps
    <2>. QED BY <2>2, <2>3
  <1>2. CASE pc[Reconciler] = "serving"
    <2>1. ASSUME NEW h \in Hosts, HostStep(h) \/ ReleaseStep(h) PROVE InsideIsLive'
      <3>1. \A q \in Hosts \ {h} : pc[h] \in Claiming => pc[q] \notin Claiming
        BY DEF Inv, LockInv
      <3>. QED BY <2>1, <3>1, HostStepEffect DEF InsideIsLive
    <2>2. ~ReconcileStep /\ ~ReleaseStep(Reconciler) /\ ~Start
      BY <1>2 DEF ReconcileStep, ReconcileList, ReconcileNext, ReconcileRecover, ReconcileAbsent, ReconcileBind,
         ReconcileEnd, ReleaseStep, ReleasePending, ReleaseObject, ReleaseContainer, ReleaseFailed,
         ReleaseSucceeded, Start
    <2>3. CASE Exit \/ Crash
      BY <2>3 DEF Exit, Crash, Stop, InsideIsLive, Claiming, HostSteps
    <2>4. CASE UNCHANGED process
      BY <2>4 DEF process, InsideIsLive
    <2>. QED BY <2>1, <2>2, <2>3, <2>4 DEF Next, Occupy, ManualCleanup, vars
  <1>. QED BY <1>1, <1>2

LEMMA AdoptsKept ==
  ASSUME Inv, AdoptsOnlyItsOwn, [Next]_vars
  PROVE  AdoptsOnlyItsOwn'
  <1>. SUFFICES ASSUME pc'[Reconciler] = "bind" PROVE Own(cur[Reconciler])' # {}
    BY DEF AdoptsOnlyItsOwn
  <1>0. pc \in [Actors -> {"off", "serving"} \cup HostSteps \cup Final \cup ReconcileSteps]
    BY DEF Inv, TypeOK
  <1>1. CASE ReconcileRecover
    BY <1>0, <1>1 DEF ReconcileRecover, GiveUp, Move, Goto, Own, durable
  <1>2. CASE ReconcileStep /\ ~ReconcileRecover
    BY <1>0, <1>2 DEF ReconcileStep, ReconcileList, ReconcileNext, ReconcileAbsent, ReconcileBind, ReconcileEnd,
       GiveUp, Move, Goto
  <1>3. CASE ReleaseStep(Reconciler)
    BY <1>0, <1>3 DEF ReleaseStep, ReleasePending, ReleaseObject, ReleaseContainer, ReleaseFailed,
       ReleaseSucceeded, Delete, GiveUp, Move, Goto
  <1>4. CASE Start \/ Exit \/ Crash
    BY <1>4 DEF Start, Exit, Crash, Stop
  <1>5. ASSUME NEW h \in Hosts, HostStep(h) \/ ReleaseStep(h) PROVE FALSE
    <2>1. pc'[Reconciler] = pc[Reconciler]
      BY <1>5, HostStepEffect
    <2>. QED BY <1>5, <2>1, HostsAreOff
  <1>6. ASSUME NEW r \in Resources, Occupy(r) PROVE Own(cur[Reconciler])' # {}
    BY <1>6 DEF Occupy, process, Own, AdoptsOnlyItsOwn
  <1>7. ASSUME NEW i \in live, ManualCleanup(i) PROVE FALSE
    BY <1>7 DEF ManualCleanup, process
  <1>8. CASE UNCHANGED vars
    BY <1>8 DEF vars, process, durable, Own, AdoptsOnlyItsOwn
  <1>. QED BY <1>1, <1>2, <1>3, <1>4, <1>5, <1>6, <1>7, <1>8 DEF Next

LEMMA InitRInv == Init => RInv
  <1>1. Init => InsideIsLive /\ AtMostOne /\ AdoptsOnlyItsOwn
    BY DEF Init, InsideIsLive, AtMostOne, AdoptsOnlyItsOwn, Known, Made
  <1>. QED BY <1>1, InitInv DEF RInv

LEMMA NextRInv ==
  ASSUME RInv, [Next]_vars
  PROVE  RInv'
  <1>1. Inv'
    BY NextInv DEF RInv
  <1>. QED BY <1>1, InsideKept, AtMostOneKept, AdoptsKept DEF RInv

-----------------------------------------------------------------------------
(* Every step is one of the ledger's, or none.                              *)

LEMMA LedgerStepDef ==
  ASSUME \/ UNCHANGED <<OpenRows, SettledRows, Existing>>
         \/ \E a \in AuditIds :
              \/ /\ a \notin OpenRows \cup SettledRows
                 /\ OpenRows' = OpenRows \cup {a} /\ UNCHANGED <<SettledRows, Existing>>
              \/ /\ a \in OpenRows /\ Existing = {}
                 /\ Existing' = {a} /\ UNCHANGED <<OpenRows, SettledRows>>
              \/ /\ a \in Existing
                 /\ Existing' = Existing \ {a} /\ UNCHANGED <<OpenRows, SettledRows>>
              \/ /\ a \in OpenRows \ Existing
                 /\ OpenRows' = OpenRows \ {a} /\ SettledRows' = SettledRows \cup {a}
                 /\ UNCHANGED Existing
  PROVE  LedgerStep
  BY DEF LedgerStep, Ledger!Next, Ledger!vars, Ledger!Open, Ledger!Create, Ledger!Destroy, Ledger!Settle,
     OpenRows, SettledRows, Existing

(* The table stays: the world took away, or a host created.                 *)
LEMMA TableStays ==
  ASSUME UNCHANGED audits
  PROVE  UNCHANGED <<OpenRows, SettledRows>>
  BY DEF OpenRows, SettledRows, Pending

LEMMA WorldTakes ==
  ASSUME AtMostOne, UNCHANGED audits, NothingNew
  PROVE  LedgerStep
  <1>1. Existing' \subseteq Existing
    BY DEF Existing, Known, Made, NothingNew
  <1>2. \A a, b \in Existing : a = b
    BY DEF Existing, AtMostOne
  <1>3. Existing \subseteq AuditIds
    BY DEF Existing, Known, Made
  <1>4. Existing' = Existing \/ \E a \in AuditIds : a \in Existing /\ Existing' = Existing \ {a}
    BY <1>1, <1>2, <1>3
  <1>5. UNCHANGED <<OpenRows, SettledRows>>
    BY TableStays
  <1>. QED BY <1>4, <1>5, LedgerStepDef

(* A create that was acknowledged is the ledger's; one that was not leaves  *)
(* the ledger as it is.                                                     *)
LEMMA WorldGets ==
  ASSUME RInv, NEW h \in Hosts, ClaimCreate(h)
  PROVE  LedgerStep
  <1>1. Known = {} /\ Existing = {} /\ cur[h] \in AuditIds /\ cur[h] \in OpenRows
    BY CreateStep DEF RInv, Existing, OpenRows
  <1>2. Existing' = Existing \/ Existing' = {cur[h]}
    <2>1. CASE UNCHANGED live
      BY <2>1 DEF Existing, Known, Made
    <2>2. ASSUME NEW new, new.by = cur[h], live' = live \cup {new}
          PROVE  Existing' = Existing \/ Existing' = {cur[h]}
      <3>1. Known' = {} \/ Known' = {new}
        BY <1>1, <2>2 DEF Known, Made
      <3>. QED BY <1>1, <2>2, <3>1 DEF Existing
    <2>. QED BY <2>1, <2>2, CreateStep DEF RInv
  <1>3. UNCHANGED <<OpenRows, SettledRows>>
    BY TableStays, CreateStep DEF RInv
  <1>. QED BY <1>1, <1>2, <1>3, LedgerStepDef

(* The world stays: a row is written.                                       *)
LEMMA WorldStays ==
  ASSUME UNCHANGED live
  PROVE  UNCHANGED Existing
  BY DEF Existing, Known, Made

(* A row that is read by the next reconciliation, and goes on to be.        *)
LEMMA RowGoesOn ==
  ASSUME TypeOK, UNCHANGED live, NEW a \in AuditIds, Pending(a),
         NEW status \in PendingStatuses, Write(a, status, "full")
  PROVE  LedgerStep
  <1>1. Written(a, status, "full")
    BY WriteEffect DEF PendingStatuses, Statuses, Receipts
  <1>2. OpenRows' = OpenRows /\ SettledRows' = SettledRows
    BY <1>1 DEF Written, OpenRows, SettledRows, Pending, PendingStatuses
  <1>. QED BY <1>2, WorldStays, LedgerStepDef

(* A row that is closed: its resource is gone, or was disowned.             *)
LEMMA RowIsClosed ==
  ASSUME TypeOK, UNCHANGED live, NEW a \in AuditIds, Pending(a), NothingKnown(a),
         NEW status \in {"CLAIM_FAILED", "RELEASE_SUCCEEDED"}, NEW receipt \in Receipts,
         Write(a, status, receipt)
  PROVE  LedgerStep
  <1>1. Written(a, status, receipt)
    BY WriteEffect DEF Statuses
  <1>2. OpenRows' = OpenRows \ {a} /\ SettledRows' = SettledRows \cup {a}
    BY <1>1 DEF Written, OpenRows, SettledRows, Pending, PendingStatuses
  <1>3. a \in OpenRows \ Existing
    BY DEF OpenRows, Existing, Known, Made, NothingKnown
  <1>. QED BY <1>2, <1>3, WorldStays, LedgerStepDef

(* A new row.                                                               *)
LEMMA RowIsOpened ==
  ASSUME TypeOK, UNCHANGED live, NEW a \in AuditIds, NextId(a), NEW h \in Hosts,
         \/ Insert(a, h, "ATTEMPTING", "provisional")
         \/ Insert(a, h, "UNSUPPORTED", "none")
  PROVE  LedgerStep
  <1>1. a \notin OpenRows \cup SettledRows
    BY DEF OpenRows, SettledRows, Pending, PendingStatuses, NextId
  <1>2. \A b \in AuditIds \ {a} : audits'[b] = audits[b]
    BY DEF TypeOK, Insert
  <1>3. SettledRows' = SettledRows
    BY <1>1, <1>2 DEF SettledRows, TypeOK, Insert
  <1>4. OpenRows' = OpenRows \/ OpenRows' = OpenRows \cup {a}
    BY <1>1, <1>2 DEF OpenRows, Pending, PendingStatuses, TypeOK, Insert
  <1>. QED BY <1>1, <1>3, <1>4, WorldStays, LedgerStepDef

(* The row in hand.                                                         *)
LEMMA InHand ==
  ASSUME Inv, NEW p \in Actors, Working(p)
  PROVE  cur[p] \in AuditIds /\ Pending(cur[p])
  BY DEF Inv, RowInv

LEMMA StepIsLedgerStep ==
  ASSUME RInv, [Next]_vars
  PROVE  LedgerStep
  <1>0. Inv /\ AtMostOne /\ TypeOK
    BY DEF RInv, Inv
  <1>1. CASE UNCHANGED audits
    <2>1. CASE \A h \in Hosts : ~ClaimCreate(h)
      BY <1>0, <1>1, <2>1, OthersOnlyTake, WorldTakes
    <2>. QED BY <2>1, WorldGets
  <1>2. ASSUME NEW h \in Hosts, HostStep(h), audits' # audits PROVE LedgerStep
    <2>1. CASE ExecuteUnsupported(h) \/ ExecuteAttempt(h)
      BY <1>0, <1>2, <2>1, RowIsOpened DEF ExecuteUnsupported, ExecuteAttempt
    <2>2. CASE ClaimFailed(h)
      <3>1. Working(h) /\ NothingKnown(cur[h])
        BY <1>0, <2>2 DEF ClaimFailed, Working, Claiming, HostSteps, Inv, GoneInv
      <3>. QED BY <1>0, <1>2, <2>2, <3>1, InHand, RowIsClosed DEF ClaimFailed, Receipts
    <2>3. CASE ClaimSucceeded(h)
      <3>1. Working(h)
        BY <2>3 DEF ClaimSucceeded, Working, Claiming, HostSteps
      <3>. QED BY <1>0, <1>2, <2>3, <3>1, InHand, RowGoesOn DEF ClaimSucceeded, PendingStatuses
    <2>. QED BY <1>2, <2>1, <2>2, <2>3 DEF HostStep, Execute, ExecuteHalted, ExecuteDuplicate, ClaimHead,
           ClaimCreate, ClaimCompare, ClaimPut, ClaimUndo, VerifyControl, durable
  <1>3. ASSUME NEW p \in Actors, ReleaseStep(p), audits' # audits PROVE LedgerStep
    <2>1. pc[p] \in {"pending", "releaseFailed", "released"} => Working(p)
      BY DEF Working, Claiming, HostSteps, AtRecord, ReconcileSteps
    <2>2. CASE ReleasePending(p)
      BY <1>0, <1>3, <2>1, <2>2, InHand, RowGoesOn DEF ReleasePending, PendingStatuses
    <2>3. CASE ReleaseFailed(p)
      BY <1>0, <1>3, <2>1, <2>3, InHand, RowGoesOn DEF ReleaseFailed, PendingStatuses
    <2>4. CASE ReleaseSucceeded(p)
      <3>1. NothingKnown(cur[p])
        BY <1>0, <2>1, <2>4 DEF ReleaseSucceeded, Inv, GoneInv, Nothing, NothingKnown
      <3>. QED BY <1>0, <1>3, <2>1, <2>4, <3>1, InHand, RowIsClosed DEF ReleaseSucceeded, Receipts
    <2>. QED BY <1>3, <2>2, <2>3, <2>4 DEF ReleaseStep, ReleaseObject, ReleaseContainer
  <1>4. ASSUME ReconcileStep, audits' # audits PROVE LedgerStep
    <2>1. pc[Reconciler] \in {"absent", "bind"} => Working(Reconciler)
      BY DEF Working, AtRecord, ReconcileSteps
    <2>2. CASE ReconcileAbsent
      <3>1. NothingKnown(cur[Reconciler])
        BY <1>0, <2>1, <2>2 DEF ReconcileAbsent, Inv, GoneInv, Nothing, NothingKnown
      <3>. QED BY <1>0, <1>4, <2>1, <2>2, <3>1, InHand, RowIsClosed DEF ReconcileAbsent, Receipts
    <2>3. CASE ReconcileBind
      BY <1>0, <1>4, <2>1, <2>3, InHand, RowGoesOn DEF ReconcileBind, PendingStatuses
    <2>. QED BY <1>4, <2>2, <2>3 DEF ReconcileStep, ReconcileList, ReconcileNext, ReconcileRecover, ReconcileEnd,
           durable
  <1>. QED BY <1>1, <1>2, <1>3, <1>4 DEF Next, Start, Exit, Crash, Stop, Occupy, ManualCleanup, vars, durable

-----------------------------------------------------------------------------
(* The theorems.                                                            *)

(* The inductive invariant holds in every reachable state.                  *)
THEOREM StrongerInvariance == Spec => []RInv
  <1>1. RInv /\ [Next]_vars => RInv'
    BY NextRInv
  <1>. QED BY <1>1, InitRInv, PTL DEF Spec

(* The table and the providers together are the abstract ledger, for any    *)
(* hosts, resources, rows and faults: a row is written before its resource  *)
(* is created, one exists at a time, and a row is closed, for good, only    *)
(* when its resource is gone.                                               *)
THEOREM EngineImplementsLedger == Spec => ImplementsLedger
  <1>1. Init => Ledger!Init
    BY DEF Init, Ledger!Init, Pending, Known, Made, NoRow, PendingStatuses
  <1>2. RInv /\ [Next]_vars => [Ledger!Next]_(Ledger!vars)
    BY StepIsLedgerStep DEF LedgerStep
  <1>. QED BY <1>1, <1>2, StrongerInvariance, PTL DEF Spec, ImplementsLedger, Ledger!Spec

(* What a reconciliation takes over as the resource of an attempt is that   *)
(* attempt's, whoever else makes resources of the same name.                *)
THEOREM AdoptionIsRight == Spec => []AdoptsOnlyItsOwn
  <1>1. RInv => AdoptsOnlyItsOwn
    BY DEF RInv
  <1>. QED BY <1>1, StrongerInvariance, PTL

(* A halted engine creates nothing, however many goroutines still call      *)
(* Execute.                                                                 *)
THEOREM HaltIsRespected == Spec => HaltedCreatesNothing
  <1>1. ASSUME RInv, [Next]_vars, halted PROVE {i.by : i \in Made'} \subseteq {i.by : i \in Made}
    <2>1. \A h \in Hosts : ~ClaimCreate(h)
      BY <1>1 DEF RInv, InsideIsLive, ClaimCreate, Claiming, HostSteps
    <2>2. NothingNew
      BY <1>1, <2>1, OthersOnlyTake DEF RInv
    <2>. QED BY <2>2 DEF NothingNew, Made
  <1>2. RInv /\ [Next]_vars => [halted => {i.by : i \in Made'} \subseteq {i.by : i \in Made}]_vars
    BY <1>1
  <1>. QED BY <1>2, StrongerInvariance, PTL DEF Spec, HaltedCreatesNothing

-----------------------------------------------------------------------------
(* The dispatcher: its inductive invariant.                                 *)

(* Every event that has an identity in seen.                                *)
Underway == {caller[c] : c \in Callers} \ {None}
KnownEvents == accepted \cup dropped \cup Underway

(* Events are of a batch that has begun, and those of the current one are   *)
(* noted.                                                                   *)
SeenInv == \A e \in KnownEvents : e[1] <= batch /\ (e[1] = batch => Identity(e[2]) \in seen)

(* An identity has one event, and that event is at one place.               *)
UniqueInv ==
  /\ \A e, f \in KnownEvents : e[1] = f[1] /\ Identity(e[2]) = Identity(f[2]) => e = f
  /\ \A c \in Callers : caller[c] # None =>
       /\ caller[c] \notin accepted \cup dropped
       /\ \A d \in Callers \ {c} : caller[d] # caller[c]

(* What was accepted is queued, in a hand, or was offered to everybody.     *)
AccountInv ==
  /\ queue \subseteq accepted
  /\ offered \subseteq accepted \X Notifiers
  /\ \A w \in Workers : hand[w] # None =>
       hand[w] \in accepted /\ \A n \in Notifiers : n \in left[w] \/ <<hand[w], n>> \in offered
  /\ \A e \in accepted :
       \/ e \in queue
       \/ \E w \in Workers : hand[w] = e
       \/ \A n \in Notifiers : <<e, n>> \in offered

(* A worker returns only when the queue is closed and drained.              *)
ClosingInv ==
  /\ closed => flush # "no"
  /\ flush # "no" => closed
  /\ \A w \in Workers \ running : hand[w] = None /\ queue = {} /\ closed
  /\ flush = "returned" => running = {}

DispatcherInv == DispatcherTypeOK /\ SeenInv /\ UniqueInv /\ AccountInv /\ OfferedOnce /\ ClosingInv

-----------------------------------------------------------------------------

LEMMA EventFacts ==
  \A e \in Events : e # None /\ e[1] \in 1 .. MaxBatches /\ e[2] \in Results /\ e = <<e[1], e[2]>>
  BY DispatcherAssumption DEF Events

LEMMA DispatcherInvInit == DispatcherInit => DispatcherInv
  <1> SUFFICES ASSUME DispatcherInit PROVE DispatcherInv
    OBVIOUS
  <1>1. DispatcherTypeOK
    <2>1. batch \in 1 .. MaxBatches
      BY DispatcherAssumption DEF DispatcherInit
    <2>2. closed \in BOOLEAN
      BY DEF DispatcherInit
    <2>3. /\ caller \in [Callers -> Events \cup {None}] /\ hand \in [Workers -> Events \cup {None}]
          /\ left \in [Workers -> SUBSET Notifiers]
      BY DEF DispatcherInit
    <2> QED
      BY <2>1, <2>2, <2>3 DEF DispatcherInit, DispatcherTypeOK
  <1>2. SeenInv /\ UniqueInv
    BY DEF DispatcherInit, SeenInv, UniqueInv, KnownEvents, Underway
  <1>3. AccountInv /\ OfferedOnce /\ ClosingInv
    BY DEF DispatcherInit, AccountInv, OfferedOnce, ClosingInv
  <1> QED
    BY <1>1, <1>2, <1>3 DEF DispatcherInv

-----------------------------------------------------------------------------
(* Callers.                                                                 *)

LEMMA DispatchStep ==
  ASSUME DispatcherInv, NEW c \in Callers, NEW r \in Results, Dispatch(c, r)
  PROVE  DispatcherInv'
  <1>1. CASE UNCHANGED dispatcherVars
    BY <1>1 DEF dispatcherVars, DispatcherInv, DispatcherTypeOK, Events, SeenInv, UniqueInv, KnownEvents, Underway, AccountInv, OfferedOnce, ClosingInv
  <1>2. CASE /\ Identity(r) \notin seen /\ seen' = seen \cup {Identity(r)}
             /\ caller' = caller
    <2>1. DispatcherTypeOK'
      BY <1>2 DEF Dispatch, DispatcherInv, DispatcherTypeOK, Events
    <2>2. SeenInv' /\ UniqueInv'
      BY <1>2 DEF Dispatch, DispatcherInv, SeenInv, UniqueInv, KnownEvents, Underway
    <2>3. AccountInv' /\ OfferedOnce' /\ ClosingInv'
      BY DEF Dispatch, DispatcherInv, AccountInv, OfferedOnce, ClosingInv
    <2> QED
      BY <2>1, <2>2, <2>3 DEF DispatcherInv
  <1>3. CASE /\ Identity(r) \notin seen /\ seen' = seen \cup {Identity(r)}
             /\ caller' = [caller EXCEPT ![c] = <<batch, r>>]
    <2> DEFINE e == <<batch, r>>
    <2>1. e \in Events /\ e # None /\ e[1] = batch /\ e[2] = r
      BY EventFacts DEF DispatcherInv, DispatcherTypeOK, Events
    <2>2. caller \in [Callers -> Events \cup {None}] /\ caller[c] = None
      BY DEF DispatcherInv, DispatcherTypeOK, Dispatch
    <2> HIDE DEF e
    <2>3. caller' = [caller EXCEPT ![c] = e]
      BY <1>3 DEF e
    <2>4. /\ UNCHANGED <<batch, accepted, dropped>>
          /\ batch \in 1 .. MaxBatches /\ MaxBatches \in Nat
      BY DispatcherAssumption DEF Dispatch, DispatcherInv, DispatcherTypeOK
    <2>5. Underway' = Underway \cup {e}
      BY <2>1, <2>2, <2>3 DEF Underway
    <2>6. KnownEvents' = KnownEvents \cup {e}
      BY <2>4, <2>5 DEF KnownEvents
    <2>7. DispatcherTypeOK'
      BY <1>3, <2>1, <2>3 DEF Dispatch, DispatcherInv, DispatcherTypeOK, Events
    <2>8. \A f \in KnownEvents : ~(f[1] = e[1] /\ Identity(f[2]) = Identity(e[2]))
      BY <1>3, <2>1 DEF DispatcherInv, SeenInv
    <2>9. SeenInv'
      BY <1>3, <2>1, <2>4, <2>6 DEF DispatcherInv, SeenInv
    <2>10. e \notin KnownEvents
      BY <2>8
    <2>11. UniqueInv'
      <3>1. \A f, g \in KnownEvents' : f[1] = g[1] /\ Identity(f[2]) = Identity(g[2]) => f = g
        BY <2>6, <2>8 DEF DispatcherInv, UniqueInv
      <3>2. \A d \in Callers : caller'[d] # None =>
              /\ caller'[d] \notin accepted' \cup dropped'
              /\ \A b \in Callers \ {d} : caller'[b] # caller'[d]
        BY <2>1, <2>2, <2>3, <2>4, <2>10 DEF DispatcherInv, UniqueInv, KnownEvents, Underway
      <3> QED
        BY <3>1, <3>2 DEF UniqueInv
    <2>12. AccountInv' /\ OfferedOnce' /\ ClosingInv'
      BY DEF Dispatch, DispatcherInv, AccountInv, OfferedOnce, ClosingInv
    <2> QED
      BY <2>7, <2>9, <2>11, <2>12 DEF DispatcherInv
  <1> QED
    BY <1>1, <1>2, <1>3 DEF Dispatch, dispatcherVars

LEMMA EnqueueStep ==
  ASSUME DispatcherInv, NEW c \in Callers, Enqueue(c)
  PROVE  DispatcherInv'
  <1> DEFINE e == caller[c]
  <1>1. /\ e \in Events /\ e # None
        /\ caller \in [Callers -> Events \cup {None}]
        /\ caller' = [caller EXCEPT ![c] = None]
        /\ UNCHANGED <<batch, seen, closed, hand, left, running, flush, offered>>
    BY DEF Enqueue, DispatcherInv, DispatcherTypeOK
  <1>2. e \notin accepted \cup dropped /\ e \in KnownEvents
    BY <1>1 DEF DispatcherInv, UniqueInv, KnownEvents, Underway
  <1>3. \/ closed /\ UNCHANGED <<queue, accepted, dropped>>
        \/ /\ ~closed /\ queue' = queue \cup {e} /\ accepted' = accepted \cup {e}
           /\ UNCHANGED dropped
        \/ dropped' = dropped \cup {e} /\ UNCHANGED <<queue, accepted>>
    BY DEF Enqueue
  <1> HIDE DEF e
  <1>4. Underway' \subseteq Underway \ {e}
    BY <1>1 DEF Underway, DispatcherInv, UniqueInv, e
  <1>5. KnownEvents' \subseteq KnownEvents
    BY <1>2, <1>3, <1>4 DEF KnownEvents
  <1>6. DispatcherTypeOK'
    BY <1>1, <1>3 DEF DispatcherInv, DispatcherTypeOK, Events
  <1>7. SeenInv'
    BY <1>1, <1>5 DEF DispatcherInv, SeenInv
  <1>8. UniqueInv'
    BY <1>1, <1>3, <1>5 DEF DispatcherInv, UniqueInv, e
  <1>9. AccountInv'
    BY <1>1, <1>3 DEF DispatcherInv, AccountInv
  <1>10. OfferedOnce'
    <2>1. \A n \in Notifiers : <<e, n>> \notin offered
      BY <1>2 DEF DispatcherInv, AccountInv
    <2>2. \A w \in Workers : hand[w] # e
      BY <1>1, <1>2 DEF DispatcherInv, AccountInv
    <2> QED
      BY <1>1, <1>3, <2>1, <2>2 DEF DispatcherInv, OfferedOnce
  <1>11. ClosingInv'
    BY <1>1, <1>3 DEF DispatcherInv, ClosingInv
  <1> QED
    BY <1>6, <1>7, <1>8, <1>9, <1>10, <1>11 DEF DispatcherInv

LEMMA BatchAndFlushStep ==
  ASSUME DispatcherInv, BeginBatch \/ Flush \/ FlushReturns
  PROVE  DispatcherInv'
  <1>1. DispatcherTypeOK'
    <2>1. batch' \in 1 .. MaxBatches
      BY DispatcherAssumption DEF DispatcherInv, DispatcherTypeOK, BeginBatch, Flush, FlushReturns
    <2>2. closed' \in BOOLEAN
      BY DEF DispatcherInv, DispatcherTypeOK, BeginBatch, Flush, FlushReturns
    <2>3. seen' \subseteq {Identity(r) : r \in Results} /\ flush' \in {"no", "waiting", "returned"}
      BY DEF DispatcherInv, DispatcherTypeOK, BeginBatch, Flush, FlushReturns
    <2> QED
      BY <2>1, <2>2, <2>3 DEF DispatcherInv, DispatcherTypeOK, Events, BeginBatch, Flush, FlushReturns
  <1>2. SeenInv'
    <2>1. \A e \in KnownEvents : e[1] \in Int
      BY EventFacts DEF DispatcherInv, DispatcherTypeOK, KnownEvents, Underway
    <2>2. KnownEvents' = KnownEvents
      BY DEF KnownEvents, Underway, BeginBatch, Flush, FlushReturns
    <2>3. CASE BeginBatch
      BY <2>1, <2>2, <2>3, DispatcherAssumption DEF DispatcherInv, DispatcherTypeOK, SeenInv, BeginBatch
    <2>4. CASE Flush \/ FlushReturns
      BY <2>2, <2>4 DEF DispatcherInv, SeenInv, Flush, FlushReturns
    <2> QED
      BY <2>3, <2>4
  <1>3. UniqueInv'
    BY DEF DispatcherInv, UniqueInv, KnownEvents, Underway, BeginBatch, Flush, FlushReturns
  <1>4. AccountInv' /\ OfferedOnce'
    BY DEF DispatcherInv, AccountInv, OfferedOnce, BeginBatch, Flush, FlushReturns
  <1>5. ClosingInv'
    BY DEF DispatcherInv, DispatcherTypeOK, ClosingInv, BeginBatch, Flush, FlushReturns
  <1> QED
    BY <1>1, <1>2, <1>3, <1>4, <1>5 DEF DispatcherInv

-----------------------------------------------------------------------------
(* Workers.                                                                 *)

(* A worker's step changes nothing the first three parts speak of.          *)
LEMMA WorkersKeepIdentities ==
  ASSUME DispatcherInv, UNCHANGED <<batch, seen, caller, accepted, dropped>>
  PROVE  SeenInv' /\ UniqueInv'
  BY DEF DispatcherInv, SeenInv, UniqueInv, KnownEvents, Underway

LEMMA TakeStep ==
  ASSUME DispatcherInv, NEW w \in Workers, Take(w)
  PROVE  DispatcherInv'
  <1>1. PICK e \in queue :
          /\ queue' = queue \ {e}
          /\ hand' = [hand EXCEPT ![w] = e] /\ left' = [left EXCEPT ![w] = Notifiers]
    BY DEF Take
  <1>2. /\ w \in running /\ hand[w] = None
        /\ UNCHANGED <<batch, seen, caller, closed, running, flush, accepted, dropped, offered>>
    BY DEF Take
  <1>3. e \in Events /\ e # None /\ e \in accepted
    BY EventFacts DEF DispatcherInv, DispatcherTypeOK, AccountInv
  <1>4. DispatcherTypeOK'
    BY <1>1, <1>2, <1>3 DEF DispatcherInv, DispatcherTypeOK, Events
  <1>5. SeenInv' /\ UniqueInv'
    BY <1>2, WorkersKeepIdentities
  <1>6. /\ hand \in [Workers -> Events \cup {None}]
        /\ left \in [Workers -> SUBSET Notifiers]
    BY DEF DispatcherInv, DispatcherTypeOK
  <1>7. AccountInv'
    <2>1. \A v \in Workers : hand'[v] = (IF v = w THEN e ELSE hand[v])
      BY <1>1, <1>6
    <2>2. \A v \in Workers : hand'[v] # None =>
            hand'[v] \in accepted' /\ \A n \in Notifiers : n \in left'[v] \/ <<hand'[v], n>> \in offered'
      BY <1>1, <1>2, <1>3, <1>6 DEF DispatcherInv, AccountInv
    <2>3. ASSUME NEW f \in accepted'
          PROVE  \/ f \in queue'
                 \/ \E v \in Workers : hand'[v] = f
                 \/ \A n \in Notifiers : <<f, n>> \in offered'
      <3>1. CASE f = e
        BY <2>1, <3>1
      <3>2. CASE f # e
        <4>1. \/ f \in queue
              \/ \E v \in Workers : hand[v] = f
              \/ \A n \in Notifiers : <<f, n>> \in offered
          BY <1>2, <2>3 DEF DispatcherInv, AccountInv
        <4>2. f # None
          BY <1>2, <2>3, EventFacts DEF DispatcherInv, DispatcherTypeOK
        <4>3. (\E v \in Workers : hand[v] = f) => \E v \in Workers : hand'[v] = f
          BY <1>2, <2>1, <4>2
        <4> QED
          BY <1>1, <1>2, <3>2, <4>1, <4>3
      <3> QED
        BY <3>1, <3>2
    <2> QED
      BY <1>1, <1>2, <2>2, <2>3 DEF DispatcherInv, AccountInv
  <1>8. OfferedOnce'
    BY <1>1, <1>2, <1>3, <1>6 DEF DispatcherInv, OfferedOnce
  <1>9. ClosingInv'
    BY <1>1, <1>2, <1>6 DEF DispatcherInv, ClosingInv
  <1> QED
    BY <1>4, <1>5, <1>7, <1>8, <1>9 DEF DispatcherInv

LEMMA SendStep ==
  ASSUME DispatcherInv, NEW w \in Workers, Send(w)
  PROVE  DispatcherInv'
  <1>1. PICK n \in left[w] :
          /\ offered' = offered \cup {<<hand[w], n>>}
          /\ left' = [left EXCEPT ![w] = @ \ {n}]
          /\ hand' = IF left[w] = {n} THEN [hand EXCEPT ![w] = None] ELSE hand
    BY DEF Send
  <1> DEFINE e == hand[w]
  <1>2. /\ e # None /\ UNCHANGED <<batch, seen, caller, queue, closed, running, flush, accepted, dropped>>
        /\ hand \in [Workers -> Events \cup {None}]
        /\ left \in [Workers -> SUBSET Notifiers] /\ n \in Notifiers
    BY DEF Send, DispatcherInv, DispatcherTypeOK
  <1>3. e \in Events /\ e \in accepted /\ e \notin queue
    BY <1>2 DEF DispatcherInv, AccountInv, OfferedOnce
  <1>4. DispatcherTypeOK'
    BY <1>1, <1>2, <1>3 DEF DispatcherInv, DispatcherTypeOK, Events
  <1>5. SeenInv' /\ UniqueInv'
    BY <1>2, WorkersKeepIdentities
  <1>6. \A m \in Notifiers : m \in left[w] \/ <<e, m>> \in offered
    BY <1>2 DEF DispatcherInv, AccountInv
  <1>7. \A v \in Workers : v # w => hand'[v] = hand[v] /\ left'[v] = left[v]
    BY <1>1, <1>2
  <1>8. left'[w] = left[w] \ {n} /\ hand'[w] = IF left[w] = {n} THEN None ELSE e
    BY <1>1, <1>2
  <1>9. \A m \in Notifiers : m \in left'[w] \/ <<e, m>> \in offered'
    BY <1>1, <1>6, <1>8
  <1>10. left[w] = {n} => \A m \in Notifiers : <<e, m>> \in offered'
    BY <1>8, <1>9
  <1>11. AccountInv'
    <2>1. queue' \subseteq accepted' /\ offered' \subseteq accepted' \X Notifiers
      BY <1>1, <1>2, <1>3 DEF DispatcherInv, AccountInv
    <2>2. \A v \in Workers : hand'[v] # None =>
            hand'[v] \in accepted' /\ \A m \in Notifiers : m \in left'[v] \/ <<hand'[v], m>> \in offered'
      <3> TAKE v \in Workers
      <3>1. CASE v = w
        BY <1>2, <1>3, <1>8, <1>9, <3>1
      <3>2. CASE v # w
        BY <1>1, <1>2, <1>7, <3>2 DEF DispatcherInv, AccountInv
      <3> QED
        BY <3>1, <3>2
    <2>3. ASSUME NEW f \in accepted'
          PROVE  \/ f \in queue'
                 \/ \E v \in Workers : hand'[v] = f
                 \/ \A m \in Notifiers : <<f, m>> \in offered'
      <3>1. \/ f \in queue
            \/ \E v \in Workers : hand[v] = f
            \/ \A m \in Notifiers : <<f, m>> \in offered
        BY <1>2, <2>3 DEF DispatcherInv, AccountInv
      <3>2. CASE f = e
        BY <1>8, <1>10, <3>2
      <3>3. CASE f # e
        BY <1>1, <1>2, <1>7, <3>1, <3>3
      <3> QED
        BY <3>2, <3>3
    <2> QED
      BY <2>1, <2>2, <2>3 DEF AccountInv
  <1>12. OfferedOnce'
    <2> HIDE DEF e
    <2>1. \A f \in queue', m \in Notifiers : <<f, m>> \notin offered'
      BY <1>1, <1>2, <1>3 DEF DispatcherInv, OfferedOnce, e
    <2>2. ASSUME NEW v \in Workers, hand'[v] # None
          PROVE  /\ hand'[v] \notin queue'
                 /\ \A u \in Workers \ {v} : hand'[u] # hand'[v]
                 /\ \A m \in left'[v] : <<hand'[v], m>> \notin offered'
      <3>1. hand'[v] = hand[v] /\ hand[v] # None
        BY <1>2, <1>7, <1>8, <2>2 DEF e
      <3>2. hand[v] \notin queue' /\ \A u \in Workers \ {v} : hand[u] # hand[v]
        BY <1>2, <3>1 DEF DispatcherInv, OfferedOnce
      <3>3. \A u \in Workers \ {v} : hand'[u] # hand'[v]
        BY <1>7, <1>8, <3>1, <3>2 DEF e
      <3>4. \A m \in left[v] : <<hand[v], m>> \notin offered
        BY <3>1 DEF DispatcherInv, OfferedOnce
      <3>5. \A m \in left'[v] : <<hand[v], m>> # <<hand[w], n>>
        BY <1>7, <1>8, <3>2
      <3>6. left'[v] \subseteq left[v]
        BY <1>7, <1>8
      <3> QED
        BY <1>1, <3>1, <3>2, <3>3, <3>4, <3>5, <3>6
    <2> QED
      BY <2>1, <2>2 DEF OfferedOnce
  <1>13. ClosingInv'
    BY <1>2, <1>7, <1>8 DEF DispatcherInv, ClosingInv
  <1> QED
    BY <1>4, <1>5, <1>11, <1>12, <1>13 DEF DispatcherInv

LEMMA WorkerEndsStep ==
  ASSUME DispatcherInv, NEW w \in Workers, WorkerEnds(w)
  PROVE  DispatcherInv'
  <1>1. DispatcherTypeOK'
    BY DEF WorkerEnds, DispatcherInv, DispatcherTypeOK, Events
  <1>2. SeenInv' /\ UniqueInv'
    BY WorkersKeepIdentities DEF WorkerEnds
  <1>3. AccountInv' /\ OfferedOnce'
    BY DEF WorkerEnds, DispatcherInv, AccountInv, OfferedOnce
  <1>4. ClosingInv'
    BY DEF WorkerEnds, DispatcherInv, DispatcherTypeOK, ClosingInv
  <1> QED
    BY <1>1, <1>2, <1>3, <1>4 DEF DispatcherInv

-----------------------------------------------------------------------------

LEMMA DispatcherInvNext == DispatcherInv /\ [DispatcherNext]_dispatcherVars => DispatcherInv'
  <1> SUFFICES ASSUME DispatcherInv, [DispatcherNext]_dispatcherVars PROVE DispatcherInv'
    OBVIOUS
  <1>1. CASE UNCHANGED dispatcherVars
    BY <1>1 DEF dispatcherVars, DispatcherInv, DispatcherTypeOK, Events, SeenInv, UniqueInv, KnownEvents, Underway, AccountInv, OfferedOnce, ClosingInv
  <1>2. CASE BeginBatch \/ Flush \/ FlushReturns
    BY <1>2, BatchAndFlushStep
  <1>3. ASSUME NEW c \in Callers, NEW r \in Results, Dispatch(c, r) PROVE DispatcherInv'
    BY <1>3, DispatchStep
  <1>4. ASSUME NEW c \in Callers, Enqueue(c) PROVE DispatcherInv'
    BY <1>4, EnqueueStep
  <1>5. ASSUME NEW w \in Workers, WorkerStep(w) PROVE DispatcherInv'
    BY <1>5, TakeStep, SendStep, WorkerEndsStep DEF WorkerStep
  <1> QED
    BY <1>1, <1>2, <1>3, <1>4, <1>5 DEF DispatcherNext

(* The inductive invariant holds.                                           *)
THEOREM DispatcherInvariance == DispatcherSpec => []DispatcherInv
  BY DispatcherInvInit, DispatcherInvNext, PTL DEF DispatcherSpec

(* Type correctness: the state of the dispatcher is of the stated types.    *)
THEOREM DispatcherTypesHold == DispatcherSpec => []DispatcherTypeOK
  <1>1. DispatcherInv => DispatcherTypeOK
    BY DEF DispatcherInv
  <1> QED
    BY <1>1, DispatcherInvariance, PTL

(* Deduplication: whichever goroutines race, a batch queues one event per   *)
(* identity.                                                                *)
THEOREM OneAlertPerIdentity == DispatcherSpec => []OnePerIdentity
  <1>1. DispatcherInv => OnePerIdentity
    BY DEF DispatcherInv, UniqueInv, OnePerIdentity, KnownEvents
  <1> QED
    BY <1>1, DispatcherInvariance, PTL

(* No call of Send repeats an earlier one.                                  *)
THEOREM NothingTwice == DispatcherSpec => []OfferedOnce
  <1>1. DispatcherInv => OfferedOnce
    BY DEF DispatcherInv
  <1> QED
    BY <1>1, DispatcherInvariance, PTL

(* Flush: once it has returned, all that was accepted has been offered to   *)
(* every notifier.                                                          *)
THEOREM FlushIsComplete == DispatcherSpec => []FlushDelivers
  <1>1. DispatcherInv => FlushDelivers
    <2> SUFFICES ASSUME DispatcherInv, flush = "returned", NEW e \in accepted
                 PROVE  \A n \in Notifiers : <<e, n>> \in offered
      BY DEF FlushDelivers
    <2>1. Workers \ running = Workers /\ Workers # {}
      BY DispatcherAssumption DEF DispatcherInv, ClosingInv
    <2>2. queue = {} /\ \A w \in Workers : hand[w] = None
      BY <2>1 DEF DispatcherInv, ClosingInv
    <2>3. e # None
      BY EventFacts DEF DispatcherInv, DispatcherTypeOK
    <2> QED
      BY <2>2, <2>3 DEF DispatcherInv, AccountInv
  <1> QED
    BY <1>1, DispatcherInvariance, PTL

(* After Flush nothing is queued or sent, whoever still calls Dispatch.     *)
THEOREM FlushIsFinal == DispatcherSpec => QuietAfterFlush
  <1>1. DispatcherInv /\ [DispatcherNext]_dispatcherVars => [flush = "returned" => UNCHANGED <<queue, offered>>]_dispatcherVars
    <2> SUFFICES ASSUME DispatcherInv, DispatcherNext, flush = "returned" PROVE UNCHANGED <<queue, offered>>
      OBVIOUS
    <2>1. closed /\ running = {} /\ \A w \in Workers : hand[w] = None
      BY DEF DispatcherInv, ClosingInv
    <2>2. CASE BeginBatch \/ Flush \/ FlushReturns
      BY <2>2 DEF BeginBatch, Flush, FlushReturns
    <2>3. ASSUME NEW c \in Callers, Enqueue(c) \/ \E r \in Results : Dispatch(c, r)
          PROVE UNCHANGED <<queue, offered>>
      BY <2>1, <2>3 DEF Enqueue, Dispatch
    <2>4. ASSUME NEW w \in Workers, WorkerStep(w) PROVE UNCHANGED <<queue, offered>>
      BY <2>1, <2>4 DEF WorkerStep, Take, Send, WorkerEnds
    <2> QED
      BY <2>2, <2>3, <2>4 DEF DispatcherNext
  <1> QED
    BY <1>1, DispatcherInvariance, PTL DEF DispatcherSpec, QuietAfterFlush

-----------------------------------------------------------------------------
(* Suppression is accounted for.                                            *)

LEMMA SeenInit == DispatcherInit => SeenIsAccounted
  BY DEF DispatcherInit, SeenIsAccounted

LEMMA SeenNext == DispatcherInv /\ SeenIsAccounted /\ [DispatcherNext]_dispatcherVars => SeenIsAccounted'
  <1> SUFFICES ASSUME DispatcherInv, SeenIsAccounted, [DispatcherNext]_dispatcherVars,
                      Notifiers # {}, ~closed', NEW i \in seen'
               PROVE  \E e \in accepted' \cup dropped' \cup {caller'[c] : c \in Callers} :
                        e # None /\ e[1] = batch' /\ Identity(e[2]) = i
    BY DEF SeenIsAccounted
  <1>1. ~closed
    BY DEF DispatcherNext, dispatcherVars, BeginBatch, Flush, FlushReturns, Enqueue, Dispatch, WorkerStep, Take, Send, WorkerEnds
  <1>2. i \in seen => \E e \in accepted \cup dropped \cup {caller[c] : c \in Callers} :
                        e # None /\ e[1] = batch /\ Identity(e[2]) = i
    BY <1>1 DEF SeenIsAccounted
  <1>3. CASE UNCHANGED <<batch, seen, caller, accepted, dropped>>
    BY <1>2, <1>3
  <1>4. CASE BeginBatch
    BY <1>4 DEF BeginBatch
  <1>5. ASSUME NEW c \in Callers, NEW r \in Results, Dispatch(c, r)
        PROVE  \E e \in accepted' \cup dropped' \cup {caller'[d] : d \in Callers} :
                 e # None /\ e[1] = batch' /\ Identity(e[2]) = i
    <2>1. /\ caller[c] = None /\ caller \in [Callers -> Events \cup {None}]
          /\ UNCHANGED <<batch, accepted, dropped>>
          /\ <<batch, r>> \in Events /\ <<batch, r>> # None
      BY <1>5, EventFacts DEF DispatcherInv, DispatcherTypeOK, Dispatch, Events
    <2>2. CASE seen' = seen /\ caller' = caller
      BY <1>2, <2>1, <2>2
    <2>3. CASE seen' = seen \cup {Identity(r)} /\ caller' = [caller EXCEPT ![c] = <<batch, r>>]
      <3>1. CASE i \in seen
        <4>1. PICK e \in accepted \cup dropped \cup {caller[d] : d \in Callers} :
                e # None /\ e[1] = batch /\ Identity(e[2]) = i
          BY <1>2, <3>1
        <4>2. e \in accepted' \cup dropped' \cup {caller'[d] : d \in Callers}
          BY <2>1, <2>3, <4>1
        <4> QED
          BY <2>1, <4>1, <4>2
      <3>2. CASE i = Identity(r)
        <4>1. <<batch, r>> \in {caller'[d] : d \in Callers}
          BY <2>1, <2>3
        <4> QED
          BY <2>1, <3>2, <4>1
      <3> QED
        BY <2>3, <3>1, <3>2
    <2> QED
      BY <1>5, <2>2, <2>3 DEF Dispatch
  <1>6. ASSUME NEW c \in Callers, Enqueue(c)
        PROVE  \E e \in accepted' \cup dropped' \cup {caller'[d] : d \in Callers} :
                 e # None /\ e[1] = batch' /\ Identity(e[2]) = i
    <2>1. /\ UNCHANGED <<batch, seen>>
          /\ caller' = [caller EXCEPT ![c] = None] /\ caller \in [Callers -> Events \cup {None}]
      BY <1>6 DEF Enqueue, DispatcherInv, DispatcherTypeOK
    <2>2. /\ accepted \subseteq accepted' /\ dropped \subseteq dropped'
          /\ caller[c] \in accepted' \cup dropped'
      BY <1>1, <1>6 DEF Enqueue
    <2>3. PICK e \in accepted \cup dropped \cup {caller[d] : d \in Callers} :
            e # None /\ e[1] = batch /\ Identity(e[2]) = i
      BY <1>2, <2>1
    <2>4. e \in accepted' \cup dropped' \cup {caller'[d] : d \in Callers}
      BY <2>1, <2>2, <2>3
    <2> QED
      BY <2>1, <2>3, <2>4
  <1>7. ASSUME NEW w \in Workers, WorkerStep(w)
        PROVE  UNCHANGED <<batch, seen, caller, accepted, dropped>>
    BY <1>7 DEF WorkerStep, Take, Send, WorkerEnds
  <1>8. CASE Flush \/ FlushReturns \/ UNCHANGED dispatcherVars
    BY <1>3, <1>8 DEF Flush, FlushReturns, dispatcherVars
  <1> QED
    BY <1>3, <1>4, <1>5, <1>6, <1>7, <1>8 DEF DispatcherNext

(* While the queue is open, an identity that suppresses later results had   *)
(* an event that was accepted, is on its way, or met a full queue.          *)
THEOREM SuppressionIsAccounted == DispatcherSpec => []SeenIsAccounted
  BY SeenInit, SeenNext, DispatcherInvariance, PTL DEF DispatcherSpec
=============================================================================
