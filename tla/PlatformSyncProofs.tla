------------------------- MODULE PlatformSyncProofs -------------------------
(***************************************************************************)
(* Proofs about PlatformSync, for any platforms, assets, roots, results of  *)
(* recon, scopes and bounds.                                                *)
(***************************************************************************)
EXTENDS PlatformSync, TLAPS

-----------------------------------------------------------------------------
(* The invariant.                                                           *)

(* A process holds rows of its run only, and none between two commands.     *)
WorkIsQueued ==
  /\ work \subseteq {a \in Assets : workRoot[a] # Absent}
  /\ pc = "off" => work = {}

(* Every client has answered before anything is saved.                     *)
RepliesAreComplete == pc = "save" => chosen \subseteq DOMAIN replies

(* Where a process stands tells the stage of the run.                       *)
StageIsReached ==
  /\ pc \in {"fetch", "save"} => stage = "CATALOG"
  /\ pc \in {"plan", "recon", "link", "note", "enter"} => stage = "RECON"
  /\ pc \in {"targets", "scan", "started", "scanning", "finish"} => stage = "SCAN"
  /\ stage = "CATALOG" => workDone = {}

(* What recon has still to expand is what the process holds, and past recon *)
(* there is nothing.                                                        *)
QueueIsHeld ==
  /\ pc \in {"recon", "link"} => Left = Unfinished
  /\ pc \in {"note", "enter"} \/ stage = "SCAN" => Unfinished = {}

(* A wildcard in scope that was not expanded has a row that is not done.    *)
ExpandedOrQueued ==
  \A a \in Assets : scope[a] # Absent /\ scope[a].eligible /\ scope[a].wildcard =>
    expanded[a] = scope[a].root \/ Misled(a) \/ a \in astray \/ a \in Unfinished

(* Every target was tested or is still to be, in the tables of a scan run   *)
(* and in the process that scans.                                           *)
TargetsAreHeld ==
  /\ resumed => scanRun /\ stage = "SCAN"
  /\ stage = "SCAN" /\ scanRun => Targets \subseteq tested \cup pending
  /\ pc = "started" => Targets \subseteq todo /\ Targets \subseteq pending
  /\ pc = "scanning" => Targets \subseteq tested \cup todo

IInv ==
  /\ TypeOK
  /\ WorkIsQueued
  /\ RepliesAreComplete
  /\ StageIsReached
  /\ QueueIsHeld
  /\ ExpandedOrQueued
  /\ TargetsAreHeld
  /\ KnownIsKept
  /\ EveryTargetIsScanned

-----------------------------------------------------------------------------
(* Types.                                                                   *)

NoReplies == [p \in {} |-> NoReply]

LEMMA NoRepliesType ==
  /\ DOMAIN NoReplies \subseteq Platforms
  /\ NoReplies \in [DOMAIN NoReplies -> [Assets -> Scopes \cup {Absent}]]
  BY DEF NoReplies

(* What a process that ends leaves behind in its variables.                 *)
LEMMA LeaveType ==
  ASSUME TypeOK, Leave
  PROVE  /\ pc' \in Steps
         /\ wantScan' \in BOOLEAN
         /\ resumed' \in BOOLEAN
         /\ DOMAIN replies' \subseteq Platforms
         /\ replies' \in [DOMAIN replies' -> [Assets -> Scopes \cup {Absent}]]
         /\ saved' \subseteq Platforms
         /\ reasons' \subseteq Roots
         /\ work' \subseteq Assets
         /\ root' \in Roots \cup {Absent}
         /\ names' \subseteq Hosts
         /\ partial' \in BOOLEAN
         /\ todo' \subseteq Hosts
  <1>1. replies' = NoReplies
    BY DEF Leave, NoReplies
  <1>2. /\ DOMAIN replies' \subseteq Platforms
        /\ replies' \in [DOMAIN replies' -> [Assets -> Scopes \cup {Absent}]]
    BY <1>1, NoRepliesType
  <1>3. wantScan' \in BOOLEAN /\ resumed' \in BOOLEAN /\ partial' \in BOOLEAN
    BY Zenon DEF Leave
  <1> QED
    BY <1>2, <1>3 DEF Leave, Steps

LEMMA TypeFetch ==
  ASSUME NEW p \in Platforms, TypeOK, Fetch(p)
  PROVE  TypeOK'
  BY SyncAssumption DEF TypeOK, Stages, Statuses, Steps, catalogue, record, history, bounds, Fetch

(* A saved platform leaves the columns of its assets with their types.      *)
LEMMA SavedType ==
  ASSUME TypeOK, RepliesAreComplete, SavePrograms
  PROVE  /\ scope' \in [Assets -> Scopes \cup {Absent}]
         /\ links' \subseteq Assets \X Hosts
         /\ workRoot' \in [Assets -> Roots \cup {Absent}]
         /\ workDone' \subseteq {a \in Assets : workRoot'[a] # Absent}
         /\ known' \in [Assets -> SUBSET Hosts]
         /\ expanded' \in [Assets -> Roots \cup {Absent}]
         /\ active' \subseteq Assets
         /\ saved' \subseteq Platforms
  <1>1. PICK p \in chosen \ saved :
          /\ active' = {a \in Assets : IF PlatformOf[a] = p THEN replies[p][a] # Absent ELSE a \in active}
          /\ scope' = [a \in Assets |-> IF a \in Changed(p) THEN replies[p][a] ELSE scope[a]]
          /\ links' = (links \ LinksOf(Changed(p))) \cup ExactLinks(p)
          /\ workRoot' = [a \in Assets |-> IF a \in Queued(p) THEN replies[p][a].root ELSE workRoot[a]]
          /\ known' = [a \in Assets |-> IF a \in Changed(p) THEN {} ELSE known[a]]
          /\ expanded' = [a \in Assets |-> IF a \in Changed(p) THEN Absent ELSE expanded[a]]
          /\ saved' = saved \cup {p}
    BY DEF SavePrograms
  <1>2. p \in DOMAIN replies
    BY <1>1 DEF RepliesAreComplete, SavePrograms
  <1>3. \A a \in Assets : replies[p][a] \in Scopes \cup {Absent}
    BY <1>2 DEF TypeOK
  <1>4. \A a \in Queued(p) : a \in Assets /\ replies[p][a].root \in Roots
    BY <1>3, SyncAssumption DEF Queued
  <1>5. scope' \in [Assets -> Scopes \cup {Absent}]
    BY <1>1, <1>3 DEF TypeOK
  <1>6. workRoot' \in [Assets -> Roots \cup {Absent}]
    BY <1>1, <1>4 DEF TypeOK
  <1>7. \A a \in Assets : workRoot[a] # Absent => workRoot'[a] # Absent
    BY <1>1, <1>4, SyncAssumption DEF TypeOK
  <1>8. workDone' \subseteq {a \in Assets : workRoot'[a] # Absent}
    BY <1>7 DEF TypeOK, SavePrograms
  <1>9. known' \in [Assets -> SUBSET Hosts] /\ expanded' \in [Assets -> Roots \cup {Absent}]
    BY <1>1 DEF TypeOK
  <1>10. links' \subseteq Assets \X Hosts
    BY <1>1 DEF TypeOK, ExactLinks
  <1> QED
    BY <1>1, <1>5, <1>6, <1>8, <1>9, <1>10, ZenonT(60) DEF TypeOK

LEMMA TypeSavePrograms ==
  ASSUME TypeOK, RepliesAreComplete, SavePrograms
  PROVE  TypeOK'
  <1>1. UNCHANGED <<offered, record, pending, pc, wantScan, resumed, replies, reasons,
                    work, root, names, partial, todo, astray, tested, bounds>>
    BY DEF SavePrograms
  <1> QED
    BY <1>1, SavedType DEF TypeOK, record, bounds

LEMMA TypeStages ==
  ASSUME TypeOK, EnterRecon \/ WriteNote \/ EnterScan \/ OnStart
  PROVE  TypeOK'
  <1>1. UNCHANGED <<offered, catalogue, status, chosen, full, pending, memory, history, bounds>>
    BY DEF EnterRecon, WriteNote, EnterScan, OnStart
  <1>2. scanRun' \in BOOLEAN
    BY DEF TypeOK, EnterRecon, WriteNote, EnterScan, OnStart
  <1>3. stage' \in Stages /\ note' \subseteq Roots /\ pc' \in Steps
    BY DEF TypeOK, Stages, Steps, EnterRecon, WriteNote, EnterScan, OnStart, memory
  <1> QED
    BY <1>1, <1>2, <1>3 DEF TypeOK, catalogue, memory, history, bounds

LEMMA TypeLoadTargets ==
  ASSUME TypeOK, LoadTargets \/ ResumeScan
  PROVE  TypeOK'
  <1>1. UNCHANGED <<offered, catalogue, record, pending, wantScan, resumed, replies, saved,
                    reasons, work, root, names, partial, history, bounds>>
    BY DEF LoadTargets, ResumeScan, memory
  <1>2. pc' \in Steps /\ todo' \subseteq Hosts
    BY DEF TypeOK, Steps, LoadTargets, ResumeScan, memory
  <1> QED
    BY <1>1, <1>2 DEF TypeOK, catalogue, record, history, bounds

LEMMA TypePlan ==
  ASSUME TypeOK, Plan
  PROVE  TypeOK'
  BY DEF TypeOK, Steps, catalogue, record, history, bounds, Plan, Unfinished

LEMMA TypeStartScan ==
  ASSUME TypeOK, StartScan
  PROVE  TypeOK'
  <1>1. Targets \subseteq Hosts
    BY DEF Targets
  <1> QED
    BY <1>1 DEF TypeOK, Steps, catalogue, record, history, bounds, StartScan

LEMMA TypeRecon ==
  ASSUME TypeOK, WorkIsQueued, Recon
  PROVE  TypeOK'
  <1>1. PICK r \in {workRoot[a] : a \in Left} :
          /\ root' = r
          /\ names' \in Results[r]
          /\ partial' \in BOOLEAN
          /\ reasons' = IF partial' THEN reasons \cup {r} ELSE reasons
    BY DEF Recon
  <1>2. r \in Roots
    BY <1>1 DEF TypeOK, WorkIsQueued, Left
  <1>3. names' \subseteq Hosts
    BY <1>1, <1>2, SyncAssumption
  <1>4. reasons' \subseteq Roots
    BY <1>1, <1>2 DEF TypeOK
  <1>5. partial' \in BOOLEAN
    BY <1>1
  <1>6. pc' \in Steps /\ root' \in Roots
    BY <1>1, <1>2 DEF Recon, Steps
  <1>7. UNCHANGED <<offered, catalogue, record, pending, wantScan, resumed, replies, saved,
                    work, todo, history, bounds>>
    BY DEF Recon
  <1> QED
    BY <1>3, <1>4, <1>5, <1>6, <1>7 DEF TypeOK, catalogue, record, history, bounds

LEMMA LinkedType ==
  ASSUME TypeOK, NEW a \in Assets, workRoot[a] = root, Linked(a)
  PROVE  /\ links' \subseteq Assets \X Hosts
         /\ known' \in [Assets -> SUBSET Hosts]
         /\ expanded' \in [Assets -> Roots \cup {Absent}]
  <1>1. names \cap Under[root] \subseteq Hosts
    BY DEF TypeOK
  <1>2. links' \subseteq Assets \X Hosts
    BY <1>1 DEF TypeOK, Linked
  <1>3. known' \in [Assets -> SUBSET Hosts]
    BY <1>1 DEF TypeOK, Linked
  <1>4. expanded' \in [Assets -> Roots \cup {Absent}]
    BY DEF TypeOK, Linked
  <1> QED
    BY <1>2, <1>3, <1>4

LEMMA TypeComplete ==
  ASSUME TypeOK, WorkIsQueued, NEW a \in Assets, Complete(a)
  PROVE  TypeOK'
  <1>1. UNCHANGED <<offered, scope, active, workRoot, record, pending, tested, runs, changes,
                    memory, faults>>
    BY DEF Complete, Linked
  <1>2. /\ links' \subseteq Assets \X Hosts
        /\ known' \in [Assets -> SUBSET Hosts]
        /\ expanded' \in [Assets -> Roots \cup {Absent}]
    BY LinkedType DEF Complete
  <1>3. workDone' \subseteq {b \in Assets : workRoot'[b] # Absent}
    BY <1>1 DEF TypeOK, WorkIsQueued, Complete, Left
  <1>4. pc' \in Steps /\ astray' \subseteq Assets
    BY DEF TypeOK, Complete, Steps
  <1> QED
    BY <1>1, <1>2, <1>3, <1>4 DEF TypeOK, record, memory

LEMMA TypeTest ==
  ASSUME TypeOK, NEW h \in Hosts, Test(h)
  PROVE  TypeOK'
  BY SyncAssumption DEF TypeOK, Steps, catalogue, record, Test

LEMMA TypeFinish ==
  ASSUME TypeOK, Finish
  PROVE  TypeOK'
  <1>1. status' \in Statuses /\ note' \subseteq Roots
    BY DEF TypeOK, Finish, Statuses
  <1>2. UNCHANGED <<offered, catalogue, stage, chosen, full, scanRun, pending, history, bounds>> /\ Leave
    BY DEF Finish
  <1> QED
    BY <1>1, <1>2, LeaveType DEF TypeOK, catalogue, history, bounds

LEMMA FaultType ==
  ASSUME TypeOK, Fault
  PROVE  faults' \in 0 .. MaxFaults
  BY SyncAssumption DEF TypeOK, Fault

LEMMA TypeStop ==
  ASSUME TypeOK, Stop
  PROVE  TypeOK'
  <1>1. UNCHANGED <<offered, catalogue, record, pending, history, runs, changes>> /\ Leave
    BY DEF Stop
  <1>2. faults' \in 0 .. MaxFaults
    BY FaultType DEF Stop
  <1> QED
    BY <1>1, <1>2, LeaveType DEF TypeOK, catalogue, record, history

LEMMA TypeStopLinked ==
  ASSUME TypeOK, NEW a \in Assets, StopLinked(a)
  PROVE  TypeOK'
  <1>1. /\ UNCHANGED <<offered, scope, active, workRoot, record, pending, tested, runs, changes>>
        /\ UNCHANGED <<workDone, astray>>
        /\ Leave
    BY DEF StopLinked, Linked
  <1>2. /\ links' \subseteq Assets \X Hosts
        /\ known' \in [Assets -> SUBSET Hosts]
        /\ expanded' \in [Assets -> Roots \cup {Absent}]
    BY LinkedType DEF StopLinked
  <1>3. faults' \in 0 .. MaxFaults
    BY FaultType DEF StopLinked
  <1> QED
    BY <1>1, <1>2, <1>3, LeaveType DEF TypeOK, record

LEMMA TypeScanFails ==
  ASSUME TypeOK, ScanFails
  PROVE  TypeOK'
  <1>1. status' \in Statuses /\ note' \subseteq Roots
    BY DEF ScanFails, Statuses
  <1>2. UNCHANGED <<offered, catalogue, stage, chosen, full, scanRun, pending, history, runs, changes>> /\ Leave
    BY DEF ScanFails
  <1>3. faults' \in 0 .. MaxFaults
    BY FaultType DEF ScanFails
  <1> QED
    BY <1>1, <1>2, <1>3, LeaveType DEF TypeOK, catalogue, history

LEMMA TypeChange ==
  ASSUME TypeOK, Change
  PROVE  TypeOK'
  BY SyncAssumption DEF TypeOK, catalogue, record, memory, history, Change

LEMMA TypeBegin ==
  ASSUME TypeOK, NEW platforms \in SUBSET Platforms, NEW i \in Incremental, Begin(platforms, ~i),
         wantScan' \in BOOLEAN,
         UNCHANGED <<offered, replies, saved, work, root, names, partial, todo, faults, changes>>
  PROVE  TypeOK'
  <1>1. full' \in BOOLEAN /\ scanRun' \in BOOLEAN /\ resumed' \in BOOLEAN
    BY DEF Begin
  <1>2. runs' \in 0 .. MaxRuns
    BY SyncAssumption DEF TypeOK, Begin
  <1>3. /\ workRoot' \in [Assets -> Roots \cup {Absent}]
        /\ workDone' \subseteq {a \in Assets : workRoot'[a] # Absent}
        /\ astray' \subseteq Assets
    BY DEF TypeOK, Begin, Unfinished
  <1>4. /\ status' \in Statuses /\ stage' \in Stages /\ chosen' \subseteq Platforms
        /\ note' \subseteq Roots /\ pending' \subseteq Hosts /\ pc' \in Steps
        /\ reasons' \subseteq Roots /\ tested' \subseteq Hosts
    BY DEF Begin, Statuses, Stages, Steps
  <1>5. UNCHANGED <<scope, active, links, known, expanded>>
    BY DEF Begin
  <1> QED
    BY <1>1, <1>2, <1>3, <1>4, <1>5 DEF TypeOK

LEMMA TypeTakeUp ==
  ASSUME TypeOK, TakeUp, wantScan' \in BOOLEAN,
         UNCHANGED <<offered, replies, saved, work, root, names, partial, todo, faults, changes>>
  PROVE  TypeOK'
  <1>1. resumed' \in BOOLEAN
    BY DEF TakeUp
  <1>2. pc' \in Steps /\ reasons' \subseteq Roots
    BY DEF TypeOK, TakeUp, Steps, Stages
  <1>3. UNCHANGED <<catalogue, record, pending, history, runs>>
    BY DEF TakeUp
  <1> QED
    BY <1>1, <1>2, <1>3 DEF TypeOK, catalogue, record, history

LEMMA TypeCommand ==
  ASSUME TypeOK, NEW resume \in Resuming, Command(resume)
  PROVE  TypeOK'
  <1>1. /\ wantScan' \in BOOLEAN
        /\ UNCHANGED <<offered, replies, saved, work, root, names, partial, todo, faults, changes>>
    BY DEF Command
  <1>2. CASE TakeUp
    BY <1>1, <1>2, TypeTakeUp
  <1>3. ASSUME NEW platforms \in SUBSET Platforms, NEW i \in Incremental, Begin(platforms, ~i)
        PROVE  TypeOK'
    BY <1>1, <1>3, TypeBegin
  <1> QED
    BY <1>2, <1>3 DEF Command

LEMMA TypeNext ==
  ASSUME IInv, [Next]_vars
  PROVE  TypeOK'
  <1>1. CASE UNCHANGED vars
    BY <1>1 DEF IInv, TypeOK, vars, catalogue, record, memory, history, bounds
  <1>2. CASE Next
    BY <1>2, TypeFetch, TypeSavePrograms, TypeStages, TypeLoadTargets, TypePlan, TypeStartScan, TypeRecon, TypeComplete,
       TypeTest, TypeFinish, TypeStop, TypeStopLinked, TypeScanFails, TypeChange, TypeCommand
       DEF IInv, Next, Advance
  <1> QED
    BY <1>1, <1>2

-----------------------------------------------------------------------------
(* The rows a process holds and the stage it is in.                         *)

ProcessInv == WorkIsQueued /\ RepliesAreComplete /\ StageIsReached

LEMMA ProcessSaves ==
  ASSUME IInv, SavePrograms
  PROVE  ProcessInv'
  <1>1. UNCHANGED <<workDone, record, pc, replies, work>>
    BY DEF SavePrograms
  <1>2. work' \subseteq {a \in Assets : workRoot'[a] # Absent}
    <2>1. PICK p \in chosen \ saved :
            workRoot' = [a \in Assets |-> IF a \in Queued(p) THEN replies[p][a].root ELSE workRoot[a]]
      BY DEF SavePrograms
    <2>2. \A a \in Queued(p) : workRoot[a] = Absent
      BY DEF Queued
    <2> QED
      BY <1>1, <2>1, <2>2 DEF IInv, WorkIsQueued
  <1> QED
    BY <1>1, <1>2 DEF IInv, ProcessInv, WorkIsQueued, RepliesAreComplete, StageIsReached, record

LEMMA ProcessAdvances ==
  ASSUME IInv, EnterRecon \/ Plan \/ Recon \/ WriteNote \/ EnterScan \/ LoadTargets
               \/ ResumeScan \/ StartScan \/ OnStart
  PROVE  ProcessInv'
  BY DEF IInv, TypeOK, ProcessInv, WorkIsQueued, RepliesAreComplete, StageIsReached, catalogue, record, memory,
         Unfinished, EnterRecon, Plan, Recon, WriteNote, EnterScan, LoadTargets, ResumeScan, StartScan, OnStart

LEMMA ProcessFetches ==
  ASSUME IInv, NEW p \in Platforms, Fetch(p)
  PROVE  ProcessInv'
  BY DEF IInv, ProcessInv, WorkIsQueued, RepliesAreComplete, StageIsReached, catalogue, record, Fetch

LEMMA ProcessCompletes ==
  ASSUME IInv, NEW a \in Assets, Complete(a)
  PROVE  ProcessInv'
  <1>1. UNCHANGED <<workRoot, record, memory>> /\ pc = "link" /\ pc' \in {"link", "note", "recon"}
    BY DEF Complete, Linked
  <1> QED
    BY <1>1 DEF IInv, ProcessInv, WorkIsQueued, RepliesAreComplete, StageIsReached, record, memory

LEMMA ProcessTests ==
  ASSUME IInv, NEW h \in Hosts, Test(h)
  PROVE  ProcessInv'
  BY DEF IInv, ProcessInv, WorkIsQueued, RepliesAreComplete, StageIsReached, catalogue, record, Test

LEMMA ProcessLeaves ==
  ASSUME IInv, Leave, UNCHANGED <<workDone, stage>>
  PROVE  ProcessInv'
  BY DEF IInv, ProcessInv, WorkIsQueued, RepliesAreComplete, StageIsReached, Leave

LEMMA Leaving ==
  ASSUME Finish \/ Stop \/ ScanFails \/ (\E a \in Assets : StopLinked(a))
  PROVE  Leave /\ UNCHANGED <<workRoot, workDone, stage, scope, active, pending, tested, astray, scanRun>>
  BY DEF Finish, Stop, ScanFails, StopLinked, Linked, catalogue, record, history

LEMMA ProcessBegins ==
  ASSUME IInv, NEW resume \in Resuming, Command(resume)
  PROVE  ProcessInv'
  <1>1. work' = {}
    BY DEF IInv, WorkIsQueued, Command
  <1>2. CASE TakeUp
    BY <1>1, <1>2 DEF IInv, TypeOK, Stages, ProcessInv, WorkIsQueued, RepliesAreComplete, StageIsReached,
       TakeUp, catalogue, record
  <1>3. ASSUME NEW platforms, NEW i, Begin(platforms, i)
        PROVE  ProcessInv'
    BY <1>1, <1>3 DEF ProcessInv, WorkIsQueued, RepliesAreComplete, StageIsReached, Begin
  <1> QED
    BY <1>2, <1>3 DEF Command

LEMMA ProcessNext ==
  ASSUME IInv, [Next]_vars
  PROVE  ProcessInv'
  <1>1. CASE UNCHANGED vars \/ Change
    <2>1. UNCHANGED <<catalogue, record, pc, memory>>
      BY <1>1 DEF vars, Change
    <2> QED
      BY <2>1 DEF IInv, ProcessInv, WorkIsQueued, RepliesAreComplete, StageIsReached, catalogue, record, memory
  <1>2. CASE Finish \/ Stop \/ ScanFails \/ (\E a \in Assets : StopLinked(a))
    BY <1>2, Leaving, ProcessLeaves
  <1> QED
    BY <1>1, <1>2, ProcessSaves, ProcessAdvances, ProcessFetches, ProcessCompletes, ProcessTests, ProcessBegins
       DEF Next, Advance

-----------------------------------------------------------------------------
(* The queue and the expansion of what changed.                             *)

QueueInv == QueueIsHeld /\ ExpandedOrQueued

LEMMA QueueSaves ==
  ASSUME IInv, SavePrograms
  PROVE  QueueInv'
  <1>1. PICK p \in chosen \ saved :
          /\ scope' = [a \in Assets |-> IF a \in Changed(p) THEN replies[p][a] ELSE scope[a]]
          /\ workRoot' = [a \in Assets |-> IF a \in Queued(p) THEN replies[p][a].root ELSE workRoot[a]]
          /\ expanded' = [a \in Assets |-> IF a \in Changed(p) THEN Absent ELSE expanded[a]]
    BY DEF SavePrograms
  <1>2. pc = "save" /\ pc' = "save" /\ workDone = {} /\ workDone' = {} /\ stage' = "CATALOG" /\ astray' = astray
    BY DEF SavePrograms, IInv, StageIsReached, record
  <1>3. \A a \in Assets : replies[p][a] \in Scopes \cup {Absent}
    BY <1>1, <1>2 DEF IInv, TypeOK, RepliesAreComplete
  <1>4. QueueIsHeld'
    BY <1>2 DEF QueueIsHeld
  <1>5. ASSUME NEW a \in Assets, scope'[a] # Absent, scope'[a].eligible, scope'[a].wildcard
        PROVE  expanded'[a] = scope'[a].root \/ Misled(a)' \/ a \in astray' \/ a \in Unfinished'
    <2>1. CASE workRoot'[a] # Absent
      BY <1>2, <2>1 DEF Unfinished
    <2>2. CASE workRoot'[a] = Absent
      <3>1. a \notin Queued(p)
        BY <1>1, <1>3, <2>2, SyncAssumption DEF Queued
      <3>2. a \notin Changed(p)
        BY <1>1, <1>5, <2>2, <3>1 DEF Changed, Queued
      <3>3. scope'[a] = scope[a] /\ expanded'[a] = expanded[a] /\ workRoot[a] = Absent
        BY <1>1, <2>2, <3>1, <3>2
      <3> QED
        BY <1>2, <1>5, <3>3 DEF IInv, ExpandedOrQueued, Misled, Unfinished
    <2> QED
      BY <2>1, <2>2
  <1> QED
    BY <1>4, <1>5 DEF QueueInv, ExpandedOrQueued

LEMMA QueueStays ==
  ASSUME IInv, UNCHANGED <<scope, workRoot, workDone, expanded, astray>>
  PROVE  ExpandedOrQueued' /\ Unfinished' = Unfinished
  BY DEF IInv, ExpandedOrQueued, Misled, Unfinished

LEMMA QueueAdvances ==
  ASSUME IInv, EnterRecon \/ Plan \/ Recon \/ WriteNote \/ EnterScan \/ LoadTargets
               \/ ResumeScan \/ StartScan \/ OnStart \/ (\E p \in Platforms : Fetch(p))
               \/ (\E h \in Hosts : Test(h)) \/ Finish \/ Stop \/ ScanFails \/ TakeUp \/ Change
               \/ UNCHANGED vars
  PROVE  QueueInv'
  <1>1. UNCHANGED <<scope, workRoot, workDone, expanded, astray>>
    BY DEF EnterRecon, Plan, Recon, WriteNote, EnterScan, LoadTargets, ResumeScan, StartScan, OnStart,
           Fetch, Test, Finish, Stop, ScanFails, TakeUp, Change, vars, catalogue, history
  <1>2. ExpandedOrQueued' /\ Unfinished' = Unfinished
    BY <1>1, QueueStays
  <1>3. CASE Plan
    BY <1>1, <1>2, <1>3 DEF Plan, QueueIsHeld, QueueInv, Left, Unfinished, IInv, record
  <1>4. CASE stage' = stage /\ pc' \notin {"recon", "link", "note", "enter"}
    BY <1>2, <1>4 DEF QueueIsHeld, QueueInv, IInv
  <1>5. CASE UNCHANGED <<work, stage>> /\ (pc' = pc \/ (pc = "recon" /\ pc' = "link") \/ (pc = "note" /\ pc' = "enter"))
    BY <1>1, <1>2, <1>5 DEF QueueIsHeld, QueueInv, Left, IInv
  <1>6. CASE EnterRecon \/ EnterScan
    BY <1>2, <1>6 DEF QueueIsHeld, QueueInv, IInv, EnterRecon, EnterScan
  <1>7. CASE \/ Finish \/ Stop \/ ScanFails \/ TakeUp \/ LoadTargets \/ ResumeScan \/ StartScan \/ OnStart
             \/ (\E p \in Platforms : Fetch(p)) \/ (\E h \in Hosts : Test(h))
    <2>1. stage' = stage \/ OnStart
      BY <1>7 DEF Finish, Stop, ScanFails, TakeUp, LoadTargets, ResumeScan, StartScan, Fetch, Test, record
    <2>2. OnStart => stage' = stage
      BY DEF OnStart, IInv, StageIsReached
    <2>3. pc' \notin {"recon", "link", "note", "enter"}
      BY <1>7 DEF Finish, Stop, ScanFails, Leave, TakeUp, LoadTargets, ResumeScan, StartScan, OnStart, Fetch, Test,
         IInv, TypeOK, Stages
    <2> QED
      BY <1>4, <2>1, <2>2, <2>3
  <1>8. CASE Recon \/ WriteNote \/ Change \/ UNCHANGED vars
    BY <1>5, <1>8 DEF Recon, WriteNote, Change, vars, memory, record
  <1> QED
    BY <1>3, <1>6, <1>7, <1>8

LEMMA QueueCompletes ==
  ASSUME IInv, NEW a \in Assets, Complete(a)
  PROVE  QueueInv'
  <1>1. /\ UNCHANGED <<scope, workRoot, work, stage>> /\ a \in Left /\ workRoot[a] = root /\ pc = "link"
        /\ workDone' = workDone \cup {a} /\ astray' = astray \ {a}
        /\ expanded' = [expanded EXCEPT ![a] = root]
    BY DEF Complete, Linked, record, memory
  <1>2. stage = "RECON" /\ Left = Unfinished
    BY <1>1 DEF IInv, StageIsReached, QueueIsHeld
  <1>3. Left' = Left \ {a} /\ Unfinished' = Unfinished \ {a}
    BY <1>1 DEF Left, Unfinished
  <1>4. pc' \in {"link", "recon"} \/ (pc' = "note" /\ Left = {a})
    BY DEF Complete
  <1>5. QueueIsHeld'
    BY <1>1, <1>2, <1>3, <1>4 DEF QueueIsHeld
  <1>6. ASSUME NEW b \in Assets, scope'[b] # Absent, scope'[b].eligible, scope'[b].wildcard
        PROVE  expanded'[b] = scope'[b].root \/ Misled(b)' \/ b \in astray' \/ b \in Unfinished'
    <2>1. CASE b = a
      <3>1. expanded'[a] = workRoot[a]
        BY <1>1 DEF IInv, TypeOK
      <3>2. workRoot[a] # Absent
        BY <1>1, <1>2 DEF Unfinished
      <3> QED
        BY <1>1, <1>6, <2>1, <3>1, <3>2 DEF Misled
    <2>2. CASE b # a
      <3>1. expanded'[b] = expanded[b]
        BY <1>1, <2>2 DEF IInv, TypeOK
      <3> QED
        BY <1>1, <1>3, <1>6, <2>2, <3>1 DEF IInv, ExpandedOrQueued, Misled
    <2> QED
      BY <2>1, <2>2
  <1> QED
    BY <1>5, <1>6 DEF QueueInv, ExpandedOrQueued

LEMMA QueueStopsLinked ==
  ASSUME IInv, NEW a \in Assets, StopLinked(a)
  PROVE  QueueInv'
  <1>1. /\ UNCHANGED <<scope, workRoot, workDone, stage, astray>> /\ a \in Left /\ workRoot[a] = root
        /\ pc = "link" /\ pc' = "off"
        /\ expanded' = [expanded EXCEPT ![a] = root]
    BY DEF StopLinked, Linked, Leave, record
  <1>2. stage = "RECON" /\ Left = Unfinished
    BY <1>1 DEF IInv, StageIsReached, QueueIsHeld
  <1>3. Unfinished' = Unfinished
    BY <1>1 DEF Unfinished
  <1>4. \A b \in Assets \ {a} : expanded'[b] = expanded[b]
    BY <1>1 DEF IInv, TypeOK
  <1>5. ExpandedOrQueued'
    BY <1>1, <1>2, <1>3, <1>4 DEF IInv, ExpandedOrQueued, Misled
  <1> QED
    BY <1>1, <1>2, <1>5 DEF QueueInv, QueueIsHeld

LEMMA QueueBegins ==
  ASSUME IInv, NEW platforms, NEW i, Begin(platforms, i)
  PROVE  QueueInv'
  <1>1. QueueIsHeld'
    BY DEF Begin, QueueIsHeld
  <1>2. /\ UNCHANGED <<scope, expanded>>
        /\ astray' = astray \cup Unfinished \cup {a \in Assets : Misled(a)}
    BY DEF Begin
  <1>3. ExpandedOrQueued'
    BY <1>2 DEF IInv, ExpandedOrQueued
  <1> QED
    BY <1>1, <1>3 DEF QueueInv

LEMMA QueueNext ==
  ASSUME IInv, [Next]_vars
  PROVE  QueueInv'
  BY QueueSaves, QueueAdvances, QueueCompletes, QueueStopsLinked, QueueBegins DEF Next, Advance, Command

-----------------------------------------------------------------------------
(* The targets.                                                             *)

TargetInv == TargetsAreHeld /\ EveryTargetIsScanned

(* Before the scan nothing is asked of the targets.                         *)
LEMMA TargetsBefore ==
  ASSUME IInv, stage' # "SCAN", ~resumed', pc' \notin {"started", "scanning", "finish"}
  PROVE  TargetInv'
  BY DEF TargetInv, TargetsAreHeld, EveryTargetIsScanned

LEMMA TargetsReached ==
  ASSUME IInv, \/ SavePrograms \/ EnterRecon \/ Plan \/ Recon \/ WriteNote
               \/ (\E p \in Platforms : Fetch(p)) \/ (\E a \in Assets : Complete(a))
  PROVE  TargetInv'
  <1>1. stage' # "SCAN"
    BY DEF IInv, StageIsReached, SavePrograms, EnterRecon, Plan, Recon, WriteNote, Fetch, Complete, Linked, record
  <1>2. stage # "SCAN" /\ resumed' = resumed
    BY DEF IInv, StageIsReached, SavePrograms, EnterRecon, Plan, Recon, WriteNote, Fetch, Complete, memory
  <1>3. pc' \notin {"started", "scanning", "finish"}
    BY DEF SavePrograms, EnterRecon, Plan, Recon, WriteNote, Fetch, Complete
  <1> QED
    BY <1>1, <1>2, <1>3, TargetsBefore DEF IInv, TargetsAreHeld

LEMMA TargetsScanned ==
  ASSUME IInv, \/ EnterScan \/ LoadTargets \/ ResumeScan \/ StartScan \/ OnStart \/ (\E h \in Hosts : Test(h))
  PROVE  TargetInv'
  <1>1. Targets' = Targets
    BY DEF Targets, Listed, EnterScan, LoadTargets, ResumeScan, StartScan, OnStart, Test, catalogue
  <1>2. CASE EnterScan
    <2>1. ~resumed
      BY <1>2 DEF IInv, TargetsAreHeld, StageIsReached, EnterScan
    <2> QED
      BY <1>2, <2>1 DEF TargetInv, TargetsAreHeld, EveryTargetIsScanned, EnterScan, memory
  <1>3. CASE LoadTargets
    BY <1>1, <1>3 DEF IInv, TargetInv, TargetsAreHeld, EveryTargetIsScanned, LoadTargets, record, memory, history
  <1>4. CASE ResumeScan
    BY <1>1, <1>4 DEF IInv, TargetInv, TargetsAreHeld, EveryTargetIsScanned, ResumeScan, record, history
  <1>5. CASE StartScan
    BY <1>1, <1>5 DEF IInv, TargetInv, TargetsAreHeld, EveryTargetIsScanned, StartScan, record
  <1>6. CASE OnStart
    BY <1>1, <1>6 DEF IInv, TargetInv, TargetsAreHeld, EveryTargetIsScanned, OnStart, memory, history
  <1>7. ASSUME NEW h \in Hosts, Test(h)
        PROVE  TargetInv'
    <2>1. /\ UNCHANGED <<record, wantScan, resumed>>
          /\ todo' = todo \ {h} /\ tested' = tested \cup {h}
          /\ pending' = pending \ {h} \/ pending' = pending
          /\ pc = "scanning" /\ pc' = IF todo = {h} THEN "finish" ELSE "scanning"
      BY <1>7 DEF Test
    <2> QED
      BY <1>1, <2>1 DEF IInv, TargetInv, TargetsAreHeld, EveryTargetIsScanned, record
  <1> QED
    BY <1>2, <1>3, <1>4, <1>5, <1>6, <1>7

LEMMA TargetsLeft ==
  ASSUME IInv, Finish \/ Stop \/ ScanFails \/ (\E a \in Assets : StopLinked(a))
  PROVE  TargetInv'
  <1>1. Leave /\ UNCHANGED <<scope, active, stage, pending, tested, scanRun>>
    BY Leaving
  <1>2. CASE Finish \/ Stop \/ ScanFails
    <2>1. Targets' = Targets
      BY <1>2 DEF Targets, Listed, Finish, Stop, ScanFails, catalogue
    <2> QED
      BY <1>1, <2>1 DEF IInv, TargetInv, TargetsAreHeld, EveryTargetIsScanned, Leave
  <1>3. CASE \E a \in Assets : StopLinked(a)
    <2>1. stage # "SCAN"
      BY <1>3 DEF IInv, StageIsReached, StopLinked
    <2> QED
      BY <1>1, <2>1, TargetsBefore DEF Leave
  <1> QED
    BY <1>2, <1>3

LEMMA TargetsCommand ==
  ASSUME IInv, NEW resume \in Resuming, Command(resume)
  PROVE  TargetInv'
  <1>1. CASE TakeUp
    <2>1. Targets' = Targets
      BY <1>1 DEF Targets, Listed, TakeUp, catalogue
    <2>2. resumed' = (stage = "SCAN" /\ scanRun) /\ UNCHANGED <<stage, scanRun, pending, tested>>
      BY <1>1 DEF TakeUp, record, history
    <2>3. pc' \in {"fetch", "plan", "targets"}
      BY <1>1 DEF TakeUp, IInv, TypeOK, Stages
    <2> QED
      BY <2>1, <2>2, <2>3 DEF IInv, TargetInv, TargetsAreHeld, EveryTargetIsScanned
  <1>2. ASSUME NEW platforms, NEW i, Begin(platforms, i)
        PROVE  TargetInv'
    BY <1>2, TargetsBefore DEF Begin
  <1> QED
    BY <1>1, <1>2 DEF Command

LEMMA TargetNext ==
  ASSUME IInv, [Next]_vars
  PROVE  TargetInv'
  <1>1. CASE UNCHANGED vars \/ Change
    <2>1. UNCHANGED <<catalogue, record, pending, pc, memory, history>>
      BY <1>1 DEF vars, Change
    <2>2. Targets' = Targets
      BY <2>1 DEF Targets, Listed, catalogue
    <2> QED
      BY <2>1, <2>2 DEF IInv, TargetInv, TargetsAreHeld, EveryTargetIsScanned, record, memory, history
  <1> QED
    BY <1>1, TargetsReached, TargetsScanned, TargetsLeft, TargetsCommand DEF Next, Advance

-----------------------------------------------------------------------------
(* The links.                                                               *)

LEMMA KnownSaves ==
  ASSUME IInv, SavePrograms
  PROVE  KnownIsKept'
  <1>1. PICK p \in chosen \ saved :
          /\ links' = (links \ LinksOf(Changed(p))) \cup ExactLinks(p)
          /\ known' = [a \in Assets |-> IF a \in Changed(p) THEN {} ELSE known[a]]
    BY DEF SavePrograms
  <1>2. ASSUME NEW a \in Assets, NEW h \in known'[a]
        PROVE  <<a, h>> \in links'
    <2>1. a \notin Changed(p) /\ h \in known[a]
      BY <1>1, <1>2
    <2>2. <<a, h>> \in links
      BY <2>1 DEF IInv, KnownIsKept
    <2> QED
      BY <1>1, <2>1, <2>2 DEF LinksOf
  <1> QED
    BY <1>2 DEF KnownIsKept

LEMMA KnownLinked ==
  ASSUME IInv, NEW a \in Assets, Linked(a)
  PROVE  KnownIsKept'
  <1>1. /\ links' = (links \ (IF partial THEN {} ELSE LinksOf({a}))) \cup {<<a, h>> : h \in names \cap Under[root]}
        /\ known' = [known EXCEPT ![a] = IF partial THEN @ ELSE names \cap Under[root]]
    BY DEF Linked
  <1>2. ASSUME NEW b \in Assets, NEW h \in known'[b]
        PROVE  <<b, h>> \in links'
    <2>1. CASE partial \/ b # a
      <3>1. h \in known[b]
        BY <1>1, <1>2, <2>1 DEF IInv, TypeOK
      <3>2. <<b, h>> \in links
        BY <3>1 DEF IInv, KnownIsKept
      <3> QED
        BY <1>1, <2>1, <3>2 DEF LinksOf
    <2>2. CASE ~partial /\ b = a
      <3>1. h \in names \cap Under[root]
        BY <1>1, <1>2, <2>2 DEF IInv, TypeOK
      <3> QED
        BY <1>1, <2>2, <3>1
    <2> QED
      BY <2>1, <2>2
  <1> QED
    BY <1>2 DEF KnownIsKept

LEMMA KnownNext ==
  ASSUME IInv, [Next]_vars
  PROVE  KnownIsKept'
  <1>1. CASE \/ EnterRecon \/ Plan \/ Recon \/ WriteNote \/ EnterScan \/ LoadTargets
             \/ ResumeScan \/ StartScan \/ OnStart \/ (\E p \in Platforms : Fetch(p))
             \/ (\E h \in Hosts : Test(h)) \/ Finish \/ Stop \/ ScanFails \/ Change \/ UNCHANGED vars
             \/ (\E resume \in Resuming : Command(resume))
    <2>1. UNCHANGED <<links, known>>
      BY <1>1 DEF EnterRecon, Plan, Recon, WriteNote, EnterScan, LoadTargets, ResumeScan, StartScan, OnStart,
         Fetch, Test, Finish, Stop, ScanFails, Change, Command, Begin, TakeUp, vars, catalogue, history
    <2> QED
      BY <2>1 DEF IInv, KnownIsKept
  <1> QED
    BY <1>1, KnownSaves, KnownLinked DEF Next, Advance, Complete, StopLinked

-----------------------------------------------------------------------------
(* The theorems.                                                            *)

LEMMA InvInit == Init => IInv
  <1> SUFFICES ASSUME Init
               PROVE  IInv
    OBVIOUS
  <1>1. replies = NoReplies
    BY DEF Init, NoReplies
  <1>2. full \in BOOLEAN /\ scanRun \in BOOLEAN /\ wantScan \in BOOLEAN /\ resumed \in BOOLEAN /\ partial \in BOOLEAN
    BY Zenon DEF Init
  <1>3. /\ runs \in 0 .. MaxRuns /\ faults \in 0 .. MaxFaults /\ changes \in 0 .. MaxChanges
    BY SyncAssumption DEF Init
  <1>4. TypeOK
    BY <1>1, <1>2, <1>3, NoRepliesType DEF Init, TypeOK, Statuses, Stages, Steps
  <1>5. WorkIsQueued /\ RepliesAreComplete /\ StageIsReached /\ QueueIsHeld
    BY DEF Init, WorkIsQueued, RepliesAreComplete, StageIsReached, QueueIsHeld
  <1>6. ExpandedOrQueued /\ KnownIsKept
    BY DEF Init, ExpandedOrQueued, KnownIsKept
  <1>7. TargetsAreHeld /\ EveryTargetIsScanned
    BY DEF Init, TargetsAreHeld, EveryTargetIsScanned
  <1> QED
    BY <1>4, <1>5, <1>6, <1>7 DEF IInv

LEMMA InvNext == IInv /\ [Next]_vars => IInv'
  BY TypeNext, ProcessNext, QueueNext, TargetNext, KnownNext DEF IInv, ProcessInv, QueueInv, TargetInv

(* The inductive invariant holds of every behaviour.                        *)
THEOREM Invariance == Spec => []IInv
  BY InvInit, InvNext, PTL DEF Spec

(* The tables of the catalogue and the variables of the command keep their  *)
(* types: what is done of the queue is always a row of the latest run.      *)
THEOREM TypesHold == Spec => []TypeOK
  <1>1. IInv => TypeOK
    BY DEF IInv
  <1> QED
    BY <1>1, Invariance, PTL

(* Once a run is past recon, the run that stored a change of scope has      *)
(* expanded it, through every failure and resumption.                       *)
THEOREM ChangesAreExpanded == Spec => []ChangeIsExpanded
  <1>1. IInv => ChangeIsExpanded
    BY DEF IInv, ChangeIsExpanded, QueueIsHeld, ExpandedOrQueued, Listed
  <1> QED
    BY <1>1, Invariance, PTL

(* What a complete recon of an asset found stays linked while its scope is  *)
(* the same.                                                                *)
THEOREM LinksAreKept == Spec => []KnownIsKept
  <1>1. IInv => KnownIsKept
    BY DEF IInv
  <1> QED
    BY <1>1, Invariance, PTL

(* A run that scans ends with every target of the catalogue tested by it.   *)
THEOREM TargetsAreScanned == Spec => []EveryTargetIsScanned
  <1>1. IInv => EveryTargetIsScanned
    BY DEF IInv
  <1> QED
    BY <1>1, Invariance, PTL
=============================================================================
