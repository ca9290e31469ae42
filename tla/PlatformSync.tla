---------------------------- MODULE PlatformSync ----------------------------
(* The sync command (cmd/sync.go) over the catalogue of platforms, assets,  *)
(* links and work it keeps in SQLite (internal/storage/platform.go): fetch  *)
(* every platform, save what it offers, run recon over the roots of the     *)
(* wildcards that are new, changed or, in a full run, all, link what was    *)
(* found, scan the targets. An interrupted run is taken up at the stage its *)
(* row names. A crash, an interruption and a failed statement all leave the *)
(* process with that row RUNNING (Stop).                                    *)
EXTENDS Naturals, FiniteSets

CONSTANTS
  Platforms,    \* the clients with credentials, numbered in name order
  Assets,       \* assets of the platforms' programs
  PlatformOf,   \* the platform that lists an asset
  Roots,        \* recon roots, numbered in name order
  Hosts,        \* names that can become targets
  Under,        \* the hosts below a root
  Results,      \* what a recon of a root can find
  Scopes,       \* the scopes an asset can have: [eligible, wildcard, root, host]
  Absent,       \* an asset its platform does not list, a scope without host
  Incremental,  \* the values --incremental is given
  Resuming,     \* the values --resume is given
  MaxRuns, MaxFaults, MaxChanges

ASSUME SyncAssumption ==
  /\ Platforms \subseteq Nat
  /\ IsFiniteSet(Platforms)
  /\ Platforms # {}
  /\ PlatformOf \in [Assets -> Platforms]
  /\ Roots \subseteq Nat
  /\ Under \in [Roots -> SUBSET Hosts]
  /\ Results \in [Roots -> SUBSET SUBSET Hosts]
  /\ Scopes \subseteq [eligible: BOOLEAN, wildcard: BOOLEAN, root: Roots, host: Hosts \cup {Absent}]
  /\ Absent \notin Scopes
  /\ Absent \notin Hosts
  /\ Absent \notin Roots
  /\ Incremental \subseteq BOOLEAN
  /\ Resuming \subseteq BOOLEAN
  /\ MaxRuns \in Nat
  /\ MaxFaults \in Nat
  /\ MaxChanges \in Nat

VARIABLES
  offered,   \* what the platforms list now
  scope,     \* platform_assets: the scope an asset was last saved with
  active,    \* platform_assets.active
  links,     \* platform_target_links, as pairs of an asset and a host
  workRoot,  \* platform_sync_queue of the latest run: the root of a row
  workDone,  \* the rows of it that are COMPLETED
  status,    \* platform_sync_runs, latest row
  stage,
  chosen,    \* its platforms
  full,
  note,      \* its last_error: the roots whose recon was partial
  scanRun,   \* it has a scan_run_id
  pending,   \* run_targets of that scan that are PENDING
  pc,        \* the process
  wantScan,  \* --scan
  resumed,   \* latest had a scan run at stage SCAN when the process began
  replies,   \* syncPrograms: the programs each client returned
  saved,     \* platforms saved so far
  reasons,   \* syncNote
  work,      \* rows that are still to be expanded
  root,      \* the root under recon
  names,     \* its targets
  partial,   \* its result is partial
  todo,      \* targets the scan has still to test
  known,     \* the hosts of an asset in its last complete recon
  expanded,  \* the root an asset was last expanded with, since its scope changed
  astray,    \* assets whose row a later run left behind
  tested,    \* hosts scanned by this run
  runs, faults, changes

catalogue == <<scope, active, links, workRoot, workDone>>
record == <<status, stage, chosen, full, note, scanRun>>
memory == <<wantScan, resumed, replies, saved, reasons, work, root, names, partial, todo>>
history == <<known, expanded, astray, tested>>
bounds == <<runs, faults, changes>>
vars == <<offered, catalogue, record, pending, pc, memory, history, bounds>>

NoReply == [a \in Assets |-> Absent]
Stages == {"CATALOG", "RECON", "SCAN"}
Statuses == {"NONE", "RUNNING", "COMPLETED", "PARTIAL", "FAILED"}
Steps == {"off", "fetch", "save", "plan", "recon", "link", "note", "enter",
          "targets", "scan", "started", "scanning", "finish"}

Init ==
  /\ offered \in [Assets -> Scopes \cup {Absent}]
  /\ scope = [a \in Assets |-> Absent]
  /\ active = {}
  /\ links = {}
  /\ workRoot = [a \in Assets |-> Absent]
  /\ workDone = {}
  /\ status = "NONE"
  /\ stage = "CATALOG"
  /\ chosen = {}
  /\ full = FALSE
  /\ note = {}
  /\ scanRun = FALSE
  /\ pending = {}
  /\ pc = "off"
  /\ wantScan = FALSE
  /\ resumed = FALSE
  /\ replies = [p \in {} |-> NoReply]
  /\ saved = {}
  /\ reasons = {}
  /\ work = {}
  /\ root = Absent
  /\ names = {}
  /\ partial = FALSE
  /\ todo = {}
  /\ known = [a \in Assets |-> {}]
  /\ expanded = [a \in Assets |-> Absent]
  /\ astray = {}
  /\ tested = {}
  /\ runs = 0
  /\ faults = 0
  /\ changes = 0

-----------------------------------------------------------------------------
(* Helpers over the tables.                                                 *)

Listed(a) == a \in active /\ scope[a] # Absent /\ scope[a].eligible

(* The row of an asset does not name the root of its present scope.         *)
Misled(a) == workRoot[a] # Absent /\ (scope[a] = Absent \/ workRoot[a] # scope[a].root)

(* PendingPlatformAssets: rows of the run, whatever became of their assets. *)
Unfinished == {a \in Assets : workRoot[a] # Absent} \ workDone

(* PlatformTargets.                                                         *)
Targets == {h \in Hosts : \E a \in Assets : Listed(a) /\ <<a, h>> \in links}

First(S) == CHOOSE n \in S : \A m \in S : n <= m

-----------------------------------------------------------------------------
(* The beginning of the command.                                            *)

(* A slip: the rows an earlier run completed count for the new one.        *)
BeginOver(platforms, isFull) ==
  /\ runs < MaxRuns
  /\ status' = "RUNNING"
  /\ stage' = "CATALOG"
  /\ chosen' = platforms
  /\ full' = isFull
  /\ note' = {}
  /\ scanRun' = FALSE
  /\ workRoot' = [a \in Assets |-> Absent]
  /\ astray' = astray \cup Unfinished \cup {a \in Assets : Misled(a)}
  /\ tested' = {}
  /\ pending' = {}
  /\ pc' = "fetch"
  /\ reasons' = {}
  /\ resumed' = FALSE
  /\ runs' = runs + 1
  /\ UNCHANGED <<workDone, scope, active, links, known, expanded>>

Begin(platforms, isFull) ==
  /\ runs < MaxRuns
  /\ status' = "RUNNING"
  /\ stage' = "CATALOG"
  /\ chosen' = platforms
  /\ full' = isFull
  /\ note' = {}
  /\ scanRun' = FALSE
  /\ workRoot' = [a \in Assets |-> Absent]
  /\ workDone' = {}
  /\ astray' = astray \cup Unfinished \cup {a \in Assets : Misled(a)}
  /\ tested' = {}
  /\ pending' = {}
  /\ pc' = "fetch"
  /\ reasons' = {}
  /\ resumed' = FALSE
  /\ runs' = runs + 1
  /\ UNCHANGED <<scope, active, links, known, expanded>>

(* A slip: a run at stage SCAN is taken to have a scan run.                *)
TakeUpScanned ==
  /\ status = "RUNNING"
  /\ pc' = CASE stage = "CATALOG" -> "fetch" [] stage = "RECON" -> "plan" [] stage = "SCAN" -> "targets"
  /\ reasons' = note
  /\ resumed' = (stage = "SCAN")
  /\ UNCHANGED <<catalogue, record, pending, history, runs>>

TakeUp ==
  /\ status = "RUNNING"
  /\ pc' = CASE stage = "CATALOG" -> "fetch" [] stage = "RECON" -> "plan" [] stage = "SCAN" -> "targets"
  /\ reasons' = note
  /\ resumed' = (stage = "SCAN" /\ scanRun)
  /\ UNCHANGED <<catalogue, record, pending, history, runs>>

(* The process ends; what it had in memory is gone.                         *)
Leave ==
  /\ pc' = "off"
  /\ wantScan' = FALSE
  /\ resumed' = FALSE
  /\ replies' = [p \in {} |-> NoReply]
  /\ saved' = {}
  /\ reasons' = {}
  /\ work' = {}
  /\ root' = Absent
  /\ names' = {}
  /\ partial' = FALSE
  /\ todo' = {}

Command(resume) ==
  /\ pc = "off"
  /\ wantScan' \in BOOLEAN
  /\ \/ resume /\ TakeUp
     \/ /\ ~(resume /\ status = "RUNNING")
        /\ \E platforms \in SUBSET Platforms \ {{}}, i \in Incremental : Begin(platforms, ~i)
  /\ UNCHANGED <<offered, replies, saved, work, root, names, partial, todo, faults, changes>>

-----------------------------------------------------------------------------
(* syncPrograms: every client at once, then one transaction per platform.   *)

Fetch(p) ==
  /\ pc = "fetch"
  /\ p \in chosen \ DOMAIN replies
  /\ replies' = [q \in DOMAIN replies \cup {p} |->
       IF q = p THEN [a \in Assets |-> IF PlatformOf[a] = p THEN offered[a] ELSE Absent]
                ELSE replies[q]]
  /\ pc' = IF DOMAIN replies' = chosen THEN "save" ELSE "fetch"
  /\ UNCHANGED <<offered, catalogue, record, pending, wantScan, resumed, saved, reasons,
                 work, root, names, partial, todo, history, bounds>>

Changed(p) ==
  {a \in Assets : PlatformOf[a] = p /\ replies[p][a] # Absent /\ scope[a] # replies[p][a]}

(* A slip: an incremental run queues new wildcards only.                   *)
QueuedNew(p) ==
  {a \in Assets : /\ PlatformOf[a] = p
                  /\ replies[p][a] # Absent
                  /\ replies[p][a].eligible
                  /\ replies[p][a].wildcard
                  /\ full \/ scope[a] = Absent
                  /\ workRoot[a] = Absent}

(* savePlatformAsset queues a wildcard: a row of the run that exists stays  *)
(* as it is (INSERT OR IGNORE).                                             *)
Queued(p) ==
  {a \in Assets : /\ PlatformOf[a] = p
                  /\ replies[p][a] # Absent
                  /\ replies[p][a].eligible
                  /\ replies[p][a].wildcard
                  /\ full \/ a \in Changed(p)
                  /\ workRoot[a] = Absent}

ExactLinks(p) ==
  {l \in Assets \X Hosts : /\ PlatformOf[l[1]] = p
                           /\ replies[p][l[1]] # Absent
                           /\ replies[p][l[1]].eligible
                           /\ replies[p][l[1]].host = l[2]}

LinksOf(assets) == {l \in links : l[1] \in assets}

SavePrograms ==
  /\ pc = "save"
  /\ \E p \in chosen \ saved :
       /\ p = First(chosen \ saved)
       /\ active' = {a \in Assets : IF PlatformOf[a] = p THEN replies[p][a] # Absent ELSE a \in active}
       /\ scope' = [a \in Assets |->
            IF a \in Changed(p) THEN replies[p][a] ELSE scope[a]]
       /\ links' = (links \ LinksOf(Changed(p))) \cup ExactLinks(p)
       /\ workRoot' = [a \in Assets |->
            IF a \in Queued(p) THEN replies[p][a].root ELSE workRoot[a]]
       /\ known' = [a \in Assets |-> IF a \in Changed(p) THEN {} ELSE known[a]]
       /\ expanded' = [a \in Assets |-> IF a \in Changed(p) THEN Absent ELSE expanded[a]]
       /\ saved' = saved \cup {p}
  /\ UNCHANGED <<offered, workDone, record, pending, pc, wantScan, resumed, replies, reasons,
                 work, root, names, partial, todo, astray, tested, bounds>>

EnterRecon ==
  /\ pc = "save"
  /\ saved = chosen
  /\ stage' = "RECON"
  /\ scanRun' = FALSE
  /\ pc' = "plan"
  /\ UNCHANGED <<offered, catalogue, status, chosen, full, note, pending, memory, history, bounds>>

-----------------------------------------------------------------------------
(* expandPlatformAssets: one recon per root, then one transaction and one   *)
(* update for each row of the root.                                         *)

Plan ==
  /\ pc = "plan"
  /\ work' = Unfinished
  /\ reasons' = {}
  /\ pc' = IF Unfinished = {} THEN "note" ELSE "recon"
  /\ UNCHANGED <<offered, catalogue, record, pending, wantScan, resumed, replies, saved,
                 root, names, partial, todo, history, bounds>>

(* Rows of this process that are not COMPLETED yet.                         *)
Left == work \ workDone

Recon ==
  /\ pc = "recon"
  /\ \E r \in {workRoot[a] : a \in Left} :
       /\ r = First({workRoot[a] : a \in Left})
       /\ root' = r
       /\ names' \in Results[r]
       /\ partial' \in BOOLEAN
       /\ reasons' = IF partial' THEN reasons \cup {r} ELSE reasons
  /\ pc' = "link"
  /\ UNCHANGED <<offered, catalogue, record, pending, wantScan, resumed, replies, saved,
                 work, todo, history, bounds>>

(* A slip: a partial result replaces the links too.                        *)
LinkedAnew(a) ==
  /\ links' = (links \ LinksOf({a})) \cup {<<a, h>> : h \in names \cap Under[root]}
  /\ known' = [known EXCEPT ![a] = IF partial THEN @ ELSE names \cap Under[root]]
  /\ expanded' = [expanded EXCEPT ![a] = root]
  /\ UNCHANGED <<offered, scope, active, workRoot, record, pending, tested, runs, changes>>

(* SavePlatformTargets: only a complete result replaces the links.          *)
Linked(a) ==
  /\ links' = (links \ (IF partial THEN {} ELSE LinksOf({a}))) \cup {<<a, h>> : h \in names \cap Under[root]}
  /\ known' = [known EXCEPT ![a] = IF partial THEN @ ELSE names \cap Under[root]]
  /\ expanded' = [expanded EXCEPT ![a] = root]
  /\ UNCHANGED <<offered, scope, active, workRoot, record, pending, tested, runs, changes>>

(* The row is COMPLETED after its links are stored; the next root follows   *)
(* when the rows of this one are done.                                      *)
Complete(a) ==
  /\ pc = "link"
  /\ a \in Left
  /\ workRoot[a] = root
  /\ Linked(a)
  /\ workDone' = workDone \cup {a}
  /\ astray' = astray \ {a}
  /\ pc' = IF \E b \in Left \ {a} : workRoot[b] = root THEN "link"
           ELSE IF Left = {a} THEN "note" ELSE "recon"
  /\ UNCHANGED <<memory, faults>>

WriteNote ==
  /\ pc = "note"
  /\ note' = reasons
  /\ pc' = "enter"
  /\ UNCHANGED <<offered, catalogue, status, stage, chosen, full, scanRun, pending, memory,
                 history, bounds>>

EnterScan ==
  /\ pc = "enter"
  /\ stage' = "SCAN"
  /\ scanRun' = FALSE
  /\ pc' = "targets"
  /\ UNCHANGED <<offered, catalogue, status, chosen, full, note, pending, memory, history, bounds>>

-----------------------------------------------------------------------------
(* runPlatformScan: a new scan run, whose id OnStart writes before any host *)
(* is tested, or the pending targets of the one the row names.              *)

LoadTargets ==
  /\ pc = "targets"
  /\ pc' = IF wantScan /\ Targets # {} THEN "scan" ELSE "finish"
  /\ UNCHANGED <<offered, catalogue, record, pending, memory, history, bounds>>

(* A slip: a scan run without pending targets is refused, as runScan does. *)
ResumeScanOnce ==
  /\ pc = "scan"
  /\ resumed
  /\ todo' = pending
  /\ pc' = IF pending = {} THEN "off" ELSE "scanning"
  /\ UNCHANGED <<offered, catalogue, record, pending, wantScan, resumed, replies, saved,
                 reasons, work, root, names, partial, history, bounds>>

ResumeScan ==
  /\ pc = "scan"
  /\ resumed
  /\ todo' = pending
  /\ pc' = IF pending = {} THEN "finish" ELSE "scanning"
  /\ UNCHANGED <<offered, catalogue, record, pending, wantScan, resumed, replies, saved,
                 reasons, work, root, names, partial, history, bounds>>

StartScan ==
  /\ pc = "scan"
  /\ ~resumed
  /\ pending' = Targets
  /\ todo' = Targets
  /\ pc' = "started"
  /\ UNCHANGED <<offered, catalogue, record, wantScan, resumed, replies, saved,
                 reasons, work, root, names, partial, history, bounds>>

OnStart ==
  /\ pc = "started"
  /\ stage' = "SCAN"
  /\ scanRun' = TRUE
  /\ pc' = "scanning"
  /\ UNCHANGED <<offered, catalogue, status, chosen, full, note, pending, memory, history, bounds>>

(* One host of the scan (module ScanRun); the error of MarkTarget is        *)
(* dropped there, and the row stays PENDING.                                *)
Test(h) ==
  /\ pc = "scanning"
  /\ h \in todo
  /\ todo' = todo \ {h}
  /\ tested' = tested \cup {h}
  /\ \/ pending' = pending \ {h} /\ UNCHANGED faults
     \/ faults < MaxFaults /\ faults' = faults + 1 /\ UNCHANGED pending
  /\ pc' = IF todo = {h} THEN "finish" ELSE "scanning"
  /\ UNCHANGED <<offered, catalogue, record, wantScan, resumed, replies, saved, reasons,
                 work, root, names, partial, known, expanded, astray, runs, changes>>

(* finishPlatformSync.                                                      *)
Finish ==
  /\ pc = "finish"
  /\ status' = IF reasons = {} THEN "COMPLETED" ELSE "PARTIAL"
  /\ note' = reasons
  /\ Leave
  /\ UNCHANGED <<offered, catalogue, stage, chosen, full, scanRun, pending, history, bounds>>

-----------------------------------------------------------------------------
(* What goes wrong.                                                         *)

Fault == faults < MaxFaults /\ faults' = faults + 1

(* The process dies or is interrupted, a client, a statement or the recon   *)
(* of a root fails: the command returns and the row stays RUNNING.          *)
Stop ==
  /\ pc # "off"
  /\ Fault
  /\ Leave
  /\ UNCHANGED <<offered, catalogue, record, pending, history, runs, changes>>

(* The same between the links of a row and its completion.                  *)
StopLinked(a) ==
  /\ pc = "link"
  /\ a \in Left
  /\ workRoot[a] = root
  /\ Fault
  /\ Linked(a)
  /\ Leave
  /\ UNCHANGED <<workDone, astray>>

(* The scan returns an error although nothing was cancelled: before its     *)
(* first host, from OnStart, on the way, or when its own row is closed.     *)
ScanFails ==
  /\ pc \in {"scan", "started", "scanning"} \/ (pc = "finish" /\ wantScan /\ Targets # {})
  /\ Fault
  /\ status' = "FAILED"
  /\ note' = {}
  /\ Leave
  /\ UNCHANGED <<offered, catalogue, stage, chosen, full, scanRun, pending, history, runs, changes>>

(* A platform lists, changes or withdraws an asset.                         *)
Change ==
  /\ changes < MaxChanges
  /\ changes' = changes + 1
  /\ \E a \in Assets, s \in Scopes \cup {Absent} :
       s # offered[a] /\ offered' = [offered EXCEPT ![a] = s]
  /\ UNCHANGED <<catalogue, record, pending, pc, memory, history, runs, faults>>

Advance ==
  \/ \E p \in Platforms : Fetch(p)
  \/ SavePrograms
  \/ EnterRecon
  \/ Plan
  \/ Recon
  \/ \E a \in Assets : Complete(a)
  \/ WriteNote
  \/ EnterScan
  \/ LoadTargets
  \/ ResumeScan
  \/ StartScan
  \/ OnStart
  \/ \E h \in Hosts : Test(h)
  \/ Finish

Next ==
  \/ \E resume \in Resuming : Command(resume)
  \/ Advance
  \/ Stop
  \/ \E a \in Assets : StopLinked(a)
  \/ ScanFails
  \/ Change

Spec == Init /\ [][Next]_vars

(* A process runs on, and while a run is RUNNING the operator gives the     *)
(* command again, with --resume as it is by default.                        *)
FairSpec == Spec /\ WF_vars(Advance) /\ WF_vars(Command(TRUE) /\ status = "RUNNING")

-----------------------------------------------------------------------------
(* Properties.                                                              *)

(* Type correctness.                                                        *)
TypeOK ==
  /\ offered \in [Assets -> Scopes \cup {Absent}]
  /\ scope \in [Assets -> Scopes \cup {Absent}]
  /\ active \subseteq Assets
  /\ links \subseteq Assets \X Hosts
  /\ workRoot \in [Assets -> Roots \cup {Absent}]
  /\ workDone \subseteq {a \in Assets : workRoot[a] # Absent}
  /\ status \in Statuses
  /\ stage \in Stages
  /\ chosen \subseteq Platforms
  /\ full \in BOOLEAN
  /\ note \subseteq Roots
  /\ scanRun \in BOOLEAN
  /\ pending \subseteq Hosts
  /\ pc \in Steps
  /\ wantScan \in BOOLEAN
  /\ resumed \in BOOLEAN
  /\ DOMAIN replies \subseteq Platforms
  /\ replies \in [DOMAIN replies -> [Assets -> Scopes \cup {Absent}]]
  /\ saved \subseteq Platforms
  /\ reasons \subseteq Roots
  /\ work \subseteq Assets
  /\ root \in Roots \cup {Absent}
  /\ names \subseteq Hosts
  /\ partial \in BOOLEAN
  /\ todo \subseteq Hosts
  /\ known \in [Assets -> SUBSET Hosts]
  /\ expanded \in [Assets -> Roots \cup {Absent}]
  /\ astray \subseteq Assets
  /\ tested \subseteq Hosts
  /\ runs \in 0 .. MaxRuns
  /\ faults \in 0 .. MaxFaults
  /\ changes \in 0 .. MaxChanges

(* README.md:211, "expande somente escopos novos ou alterados": a change of *)
(* scope is expanded by the run that stored it or by its resumption, for no *)
(* later incremental run sees it again. Once a run is past recon, every     *)
(* wildcard in scope has been expanded with its present root. Excepted are  *)
(* rows left behind with --resume=false, and those whose asset changed      *)
(* again before the catalogue of their run was complete.                    *)
ChangeIsExpanded ==
  stage = "SCAN" =>
    \A a \in Assets : Listed(a) /\ scope[a].wildcard =>
      expanded[a] = scope[a].root \/ Misled(a) \/ a \in astray

(* README.md:222: a partial recon preserves the links of earlier runs, and  *)
(* a complete one replaces them at once: what the last complete recon of an *)
(* asset found is linked through every failure, until its scope changes.    *)
KnownIsKept == \A a \in Assets : \A h \in known[a] : <<a, h>> \in links

(* A run that scans ends only when every target the catalogue offers was    *)
(* tested by it, in one process or in several.                              *)
EveryTargetIsScanned == pc = "finish" /\ wantScan => Targets \subseteq tested

(* A run ends when faults do and the operator repeats the command.          *)
EveryRunEnds == status = "RUNNING" ~> status # "RUNNING"
=============================================================================
