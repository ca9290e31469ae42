------------------------------- MODULE Recon -------------------------------
(***************************************************************************)
(* The recon command (cmd/recon.go), the discovery engine it runs           *)
(* (internal/discovery/recon.go) and the catalogue of one root it keeps     *)
(* (internal/storage/recon.go): passive collection, the look-ups and their  *)
(* pivots, the rounds of pages and generated names, the checkpoint after    *)
(* each round, resumption of a run left RUNNING, and the reconciliation of  *)
(* the catalogue when a run is complete.                                    *)
(*                                                                         *)
(* The network is a fixed world of names.  A stage of the engine is a step; *)
(* the context may end, a look-up may fail, a write may fail and the        *)
(* process may die between any two.  Once the context has ended a look-up   *)
(* gives any of the outcomes it can have: its answer, none, or no result    *)
(* at all because the name was never handed to a worker.                    *)
(***************************************************************************)
EXTENDS Integers, FiniteSets

CONSTANTS
  Root,            \* the domain under recon
  Names,           \* names of the root, at most MaxDepth deep
  Sources,         \* passive providers
  Reported,        \* what a provider knows
  Records,         \* MX, NS and SRV targets at the root
  Zone,            \* what a zone transfer gives
  Aliases,         \* CNAME targets of a name
  Reverse,         \* PTR names of a name's addresses
  Pages,           \* references and SANs found at a name
  Words,           \* wordlist names under the root
  Alterations,     \* recursion, numeric sequences and permutations of a name
  Resolving,       \* names that have an address or a CNAME
  Wild,            \* those whose records match the wildcard of a parent
  Modes,           \* modes the command may be given
  Limits,          \* the rounds, candidates and tested of a mode
  MaxLaunches,     \* bound: times the command is run
  MaxFaults,       \* bound: failed sources, look-ups and writes, and crashes
  MaxInterrupts    \* bound: interruptions

ASSUME ReconAssumption ==
  /\ IsFiniteSet(Names) /\ Root \in Names
  /\ Reported \in [Sources -> SUBSET Names]
  /\ Records \subseteq Names /\ Zone \subseteq Names /\ Words \subseteq Names
  /\ {Aliases, Reverse, Pages, Alterations} \subseteq [Names -> SUBSET Names]
  /\ Wild \subseteq Resolving /\ Resolving \subseteq Names
  /\ Modes \subseteq {"passive", "standard", "exhaustive"}
  /\ Limits \in [Modes -> [rounds : Nat, candidates : Nat \ {0}, tested : Nat \ {0}]]
  /\ "passive" \in Modes => Limits["passive"].rounds = 0
  /\ MaxLaunches \in Nat /\ MaxFaults \in Nat /\ MaxInterrupts \in Nat

VARIABLES
  \* the database
  run,          \* the latest row of recon_runs: status, mode, partial
  saved,        \* its checkpoint: round, frontier, attempted; and its spoiled sources
  linked,       \* recon_run_names of that run
  row,          \* recon_names: what is stored of a name
  active,       \* names whose row is active
  \* the process
  stage,        \* where Discover or runRecon stands, "off" without a process
  catalogue,    \* candidates: what is known of a name, "none" if it is not one
  frontier,     \* candidates the last round added, as they were then
  attempted,    \* names looked up, or about to be
  round,        \* result.Rounds
  spoiled,      \* sources that failed or were truncated
  interrupted,  \* the command's context has ended
  \* history
  named,        \* names that sources, DNS and pages have given to this run
  made,         \* names that its rounds have generated and looked up
  doubted,      \* a look-up of this run has failed, or was cut short or never made
  kept,         \* names of the last complete run
  launches, faults, interrupts

database == <<run, saved, linked, row, active>>
memory == <<catalogue, frontier, attempted, round, spoiled>>
history == <<named, made, doubted, kept>>
bounds == <<launches, faults, interrupts>>
vars == <<database, stage, memory, interrupted, history, bounds>>

Verdicts == {"unresolved", "resolved", "wildcard"}
Known == Verdicts \cup {"none"}
Entries == [name : Names, verdict : Verdicts]
Checkpoints == [round : Nat, frontier : SUBSET Names, attempted : SUBSET Names,
                spoiled : SUBSET Sources]

Runs == [status : {"none", "RUNNING", "COMPLETED", "FAILED"}, mode : Modes \cup {"none"},
         partial : BOOLEAN]

Stored == {n \in Names : row[n] # "none"}
Found == {n \in Names : catalogue[n] # "none"}
Limit == Limits[run.mode]
Least(m, n) == IF m <= n THEN m ELSE n

(* The first "limit" of a list of names, in an order that is not modelled.  *)
Cut(names, limit) ==
  {s \in SUBSET names : Cardinality(s) = Least(IF limit > 0 THEN limit ELSE 0, Cardinality(names))}

Fault == faults < MaxFaults /\ faults' = faults + 1
NoFault == UNCHANGED faults

NoCheckpoint == [round |-> 0, frontier |-> {}, attempted |-> {}, spoiled |-> {}]
Nothing == [n \in Names |-> "none"]

Init ==
  /\ run = [status |-> "none", mode |-> "none", partial |-> FALSE]
  /\ saved = NoCheckpoint /\ linked = {} /\ row = Nothing /\ active = {}
  /\ stage = "off"
  /\ catalogue = Nothing /\ frontier = {} /\ attempted = {} /\ round = 0 /\ spoiled = {}
  /\ interrupted = FALSE
  /\ named = {} /\ made = {} /\ doubted = FALSE /\ kept = {}
  /\ launches = 0 /\ faults = 0 /\ interrupts = 0

-----------------------------------------------------------------------------
(* runRecon: which run, and from where.                                     *)

(* A run with names goes on from its checkpoint: the catalogue holds its    *)
(* names as they are stored, and the frontier those that it lists.          *)
ResumeFrom(checkpoint) ==
  /\ catalogue' = [n \in Names |-> IF n \in linked THEN row[n] ELSE "none"]
  /\ frontier' = {[name |-> n, verdict |-> row[n]] : n \in checkpoint.frontier \cap linked}
  /\ attempted' = checkpoint.attempted \cup linked
  /\ round' = checkpoint.round /\ spoiled' = checkpoint.spoiled
  /\ stage' = "loop"

FromNothing ==
  /\ catalogue' = Nothing /\ frontier' = {} /\ attempted' = {}
  /\ round' = 0 /\ spoiled' = {}
  /\ stage' = "collect"

NewRun(mode) ==
  /\ run' = [status |-> "RUNNING", mode |-> mode, partial |-> FALSE]
  /\ saved' = NoCheckpoint /\ linked' = {}
  /\ named' = {} /\ made' = {} /\ doubted' = FALSE
  /\ FromNothing

(* --resume goes on with the latest run if it is RUNNING in the same mode;  *)
(* one without names starts over under its id.                              *)
Launch(mode, resume) ==
  /\ stage = "off" /\ launches < MaxLaunches
  /\ launches' = launches + 1 /\ interrupted' = FALSE
  /\ IF resume /\ run.status = "RUNNING" /\ run.mode = mode
     THEN /\ IF linked # {} THEN ResumeFrom(saved) ELSE FromNothing
          /\ UNCHANGED <<run, saved, linked, named, made, doubted>>
     ELSE NewRun(mode)
  /\ UNCHANGED <<row, active, kept, faults, interrupts>>

-----------------------------------------------------------------------------
(* Look-ups.                                                                *)

Verdict(n, answered, explicit) ==
  IF n \notin answered \cap Resolving THEN "unresolved"
  ELSE IF n \in Wild \ explicit THEN "wildcard" ELSE "resolved"

(* A slip: a zone transfer says nothing of names already found.             *)
FlaggedStill(n, explicit) == catalogue[n]

(* mergeSeedOrigins: a name of the catalogue that a zone transfer gives is  *)
(* no longer taken for a wildcard.                                          *)
Unflagged(n, explicit) ==
  IF n \in explicit /\ catalogue[n] = "wildcard" THEN "resolved" ELSE catalogue[n]

(* mergeCandidates: as many new names as the catalogue has room for.        *)
Merge(new, answered, explicit, before) ==
  \E added \in Cut(new, Limit.candidates - Cardinality(Found)) :
    /\ catalogue' = [n \in Names |->
         IF n \in added THEN Verdict(n, answered, explicit) ELSE Unflagged(n, explicit)]
    /\ frontier' = before \cup
         {[name |-> n, verdict |-> Verdict(n, answered, explicit)] : n \in added}

(* resolveSeeds.  A name that was observed is kept whatever its answer; a   *)
(* generated one only if it resolves, outside the wildcard.  "short" says   *)
(* that names were dropped before they came here.                           *)
LookUp(seeds, observed, explicit, before, short) ==
  \E handled \in IF interrupted THEN SUBSET seeds ELSE {seeds} : \E answered \in SUBSET handled :
    /\ IF interrupted \/ answered = seeds THEN NoFault ELSE Fault
    /\ doubted' = (doubted \/ interrupted \/ answered # seeds \/ short)
    /\ Merge({n \in handled : n \in observed \/ Verdict(n, answered, explicit) = "resolved"},
             answered, explicit, before)

Budget == Least(Limit.candidates - Cardinality(Found), Limit.tested - Cardinality(attempted))

(* What the network shows: everything, or less once the context has ended.  *)
(* The errors of these queries are ignored, so a query that fails is not    *)
(* told from one that has nothing to show, and the world stands for both.   *)
Observe(names, seen) ==
  /\ seen \subseteq names /\ (~interrupted => seen = names)
  /\ named' = named \cup seen

(* unseenSeeds, and the look-up of what it gives.                           *)
FollowUp(seen, explicit) ==
  \E seeds \in Cut(seen \ attempted, Budget) :
    /\ LookUp(seeds, seeds, explicit, frontier, FALSE)
    /\ attempted' = attempted \cup seeds

(* addDNSSeeds, addZoneSeeds and addPTRSeeds ask the network, in the modes  *)
(* that do so.                                                              *)
Pivot(modes, names, explicit) ==
  IF run.mode \in modes
  THEN \E seen \in SUBSET names :
         Observe(names, seen) /\ FollowUp(seen, explicit \cap seen)
  ELSE UNCHANGED <<catalogue, frontier, attempted, named, doubted, faults>>

Unchanging == UNCHANGED <<database, interrupted, kept, launches, interrupts>>

-----------------------------------------------------------------------------
(* Discover.                                                                *)

(* passiveSeeds: what every provider gives, and as many of these names as   *)
(* leave room for the root.  A provider that fails may have given some.     *)
Given(unsaid) == [s \in Sources |-> {n \in Reported[s] : <<s, n>> \notin unsaid}]

PassiveSeeds(failed, given) ==
  LET all == UNION {given[s] : s \in Sources} IN
  \E seeds \in Cut(all, Least(Limit.candidates - 1, Limit.tested - 1)) :
    /\ spoiled' = failed \cup {s \in Sources : ~(given[s] \subseteq seeds)}
    /\ attempted' = seeds \cup {Root}
    /\ named' = named \cup all \cup {Root}

Collect ==
  /\ stage = "collect" /\ ~interrupted
  /\ \E failed \in SUBSET Sources :
       /\ IF failed = {} THEN NoFault ELSE Fault
       /\ \E unsaid \in SUBSET UNION {{<<s, n>> : n \in Reported[s]} : s \in failed} :
            PassiveSeeds(failed, Given(unsaid))
  /\ stage' = "initial"
  /\ UNCHANGED <<catalogue, frontier, round, made, doubted>> /\ Unchanging

Initial ==
  /\ stage = "initial"
  /\ LookUp(attempted, attempted, {}, {}, FALSE)
  /\ stage' = "records"
  /\ UNCHANGED <<attempted, round, spoiled, named, made>> /\ Unchanging

AddDNSSeeds ==
  /\ stage = "records"
  /\ Pivot({"standard", "exhaustive"}, Records, {})
  /\ stage' = "zone"
  /\ UNCHANGED <<round, spoiled, made>> /\ Unchanging

AddZoneSeeds ==
  /\ stage = "zone"
  /\ Pivot({"exhaustive"}, Zone, Zone)
  /\ stage' = "reverse"
  /\ UNCHANGED <<round, spoiled, made>> /\ Unchanging

(* Only a name that was answered has records to follow.                     *)
Answered == {e.name : e \in {f \in frontier : f.verdict # "unresolved"}}

(* ptrSeeds, over the addresses of the frontier.                            *)
ReverseNames == UNION {Reverse[n] : n \in Answered}

AddPTRSeeds ==
  /\ stage = "reverse"
  /\ Pivot({"standard", "exhaustive"}, ReverseNames, {})
  /\ stage' = "save"
  /\ UNCHANGED <<round, spoiled, made>> /\ Unchanging

(* scrapeSeeds: pages of the frontier's names that resolve.                 *)
References == UNION {Pages[e.name] : e \in {f \in frontier : f.verdict = "resolved"}}

(* generateSeeds: names made from the words and from the frontier.          *)
Made ==
  Words \cup UNION {Alterations[e.name] : e \in {f \in frontier : f.name # Root /\ f.verdict # "wildcard"}}

(* The budget has left out references, or names that were made.             *)
Dropped(seen, first, guesses) ==
  ~(seen \subseteq attempted \cup first) \/ ~(Made \subseteq attempted \cup first \cup guesses)

(* The round, within one budget.  The references are cut to the budget      *)
(* before the known ones among them are set aside.                          *)
Round ==
  /\ stage = "round"
  /\ \E seen \in SUBSET References :
       /\ Observe(References, seen)
       /\ \E first \in Cut(seen, Budget) :
            LET fresh == first \ attempted IN
            \E guesses \in Cut(Made \ (attempted \cup fresh), Budget - Cardinality(fresh)) :
              /\ LookUp(fresh \cup guesses, fresh, {}, {}, Dropped(seen, first, guesses))
              /\ attempted' = attempted \cup fresh \cup guesses
              /\ made' = made \cup guesses
  /\ stage' = "aliases" /\ round' = round + 1
  /\ UNCHANGED spoiled /\ Unchanging

AddCNAMESeeds ==
  /\ stage = "aliases"
  /\ LET targets == UNION {Aliases[n] : n \in Answered} IN
     named' = named \cup targets /\ FollowUp(targets, {})
  /\ stage' = "reverse"
  /\ UNCHANGED <<round, spoiled, made>> /\ Unchanging

(* reportProgress does not look at the context: SaveReconProgress stores    *)
(* names, links, checkpoint and sources in one transaction.                 *)
StoreNames ==
  /\ row' = [n \in Names |-> IF n \in Found THEN catalogue[n] ELSE row[n]]
  /\ active' = active \cup Found
  /\ linked' = linked \cup Found

(* The process ends; what it held in memory is gone.                        *)
Exit ==
  /\ stage' = "off"
  /\ catalogue' = Nothing /\ frontier' = {} /\ attempted' = {} /\ round' = 0 /\ spoiled' = {}

ReportProgress ==
  /\ stage = "save"
  /\ StoreNames
  /\ saved' = [round |-> round, frontier |-> {e.name : e \in frontier},
               attempted |-> attempted, spoiled |-> spoiled]
  /\ stage' = "loop"
  /\ UNCHANGED <<run, memory, interrupted, history, bounds>>

(* What FinishRecon writes to the run's row.                                *)
Closed(status, partial) == [status |-> status, mode |-> run.mode, partial |-> partial]

(* The store fails: unless the context has ended, the run is FAILED.        *)
ProgressFails ==
  /\ stage = "save" /\ Fault
  /\ run' = IF interrupted THEN run ELSE Closed("FAILED", TRUE)
  /\ Exit
  /\ UNCHANGED <<saved, linked, row, active, interrupted, history, launches, interrupts>>

LoopGoesOn ==
  /\ round < Limit.rounds /\ frontier # {}
  /\ Cardinality(Found) < Limit.candidates /\ Cardinality(attempted) < Limit.tested

NextRound ==
  /\ stage = "loop" /\ LoopGoesOn /\ ~interrupted
  /\ stage' = "round"
  /\ UNCHANGED <<memory, history, faults>> /\ Unchanging

LoopEnds ==
  /\ stage = "loop" /\ ~LoopGoesOn /\ ~interrupted
  /\ stage' = "store"
  /\ UNCHANGED <<memory, history, faults>> /\ Unchanging

(* The context has ended where Discover looks at it: the run stays RUNNING. *)
Stop ==
  /\ stage \in {"collect", "loop"} /\ interrupted
  /\ Exit
  /\ UNCHANGED <<database, interrupted, history, bounds>>

-----------------------------------------------------------------------------
(* The end of runRecon.                                                     *)

(* A slip: only the sources count.                                          *)
SourcesPartial == spoiled # {}

(* partialReasons.                                                          *)
Partial ==
  \/ spoiled # {}
  \/ Cardinality(Found) >= Limit.candidates
  \/ Cardinality(attempted) >= Limit.tested

SaveCandidates ==
  /\ stage = "store"
  /\ StoreNames
  /\ stage' = "finish"
  /\ UNCHANGED <<run, saved, memory, interrupted, history, bounds>>

(* A slip: a partial run reconciles the catalogue too.                      *)
FinishAlways ==
  /\ stage = "finish"
  /\ run' = Closed("COMPLETED", Partial)
  /\ active' = linked
  /\ kept' = IF Partial THEN kept ELSE linked
  /\ Exit
  /\ UNCHANGED <<saved, linked, row, interrupted, named, made, doubted, bounds>>

(* FinishRecon: a complete run leaves its own names active, and no others.  *)
Finish ==
  /\ stage = "finish"
  /\ run' = Closed("COMPLETED", Partial)
  /\ active' = IF Partial THEN active ELSE linked
  /\ kept' = IF Partial THEN kept ELSE linked
  /\ Exit
  /\ UNCHANGED <<saved, linked, row, interrupted, named, made, doubted, bounds>>

(* An error of either write is returned, and the run stays RUNNING.         *)
StoreFails ==
  /\ stage \in {"store", "finish"} /\ Fault
  /\ Exit
  /\ UNCHANGED <<database, interrupted, history, launches, interrupts>>

-----------------------------------------------------------------------------
Interrupt ==
  /\ stage # "off" /\ ~interrupted /\ interrupts < MaxInterrupts
  /\ interrupted' = TRUE /\ interrupts' = interrupts + 1
  /\ UNCHANGED <<database, stage, memory, history, launches, faults>>

Crash ==
  /\ stage # "off" /\ Fault
  /\ Exit
  /\ UNCHANGED <<database, interrupted, history, launches, interrupts>>

Rest == stage = "off" /\ launches = MaxLaunches /\ UNCHANGED vars

Step ==
  \/ Collect \/ Initial \/ AddDNSSeeds \/ AddZoneSeeds \/ AddPTRSeeds
  \/ ReportProgress \/ ProgressFails \/ NextRound \/ Round \/ AddCNAMESeeds
  \/ LoopEnds \/ Stop \/ SaveCandidates \/ Finish \/ StoreFails

Next ==
  \/ Step \/ Interrupt \/ Crash \/ Rest
  \/ \E mode \in Modes, resume \in BOOLEAN : Launch(mode, resume)

Spec == Init /\ [][Next]_vars

-----------------------------------------------------------------------------
TypeOK ==
  /\ run \in Runs
  /\ saved \in Checkpoints /\ row \in [Names -> Known]
  /\ linked \subseteq Stored /\ active \subseteq Names
  /\ stage \in {"off", "collect", "initial", "records", "zone", "reverse", "save",
                "loop", "round", "aliases", "store", "finish"}
  /\ catalogue \in [Names -> Known] /\ frontier \subseteq Entries
  /\ attempted \subseteq Names /\ round \in Nat /\ spoiled \subseteq Sources
  /\ interrupted \in BOOLEAN
  /\ named \subseteq Names /\ made \subseteq Names /\ doubted \in BOOLEAN /\ kept \subseteq Names
  /\ launches \in Nat /\ faults \in Nat /\ interrupts \in Nat

Complete == run.status = "COMPLETED" /\ ~run.partial

(* The names of the last complete run stay active through later runs,       *)
(* partial, failed, interrupted or under way; a complete run's own names    *)
(* are exactly the active ones.                                             *)
KeptStaysActive == kept \subseteq active /\ (Complete => active = kept)

(* README.md: the progress saves names, frontier and names tested at the    *)
(* end of each round, an interruption is resumed by the same command, and a *)
(* limit or a failed source makes the result partial.  So a run that ends   *)
(* complete has every name it was given.                                    *)
NothingNamedIsLost == Complete => named \subseteq active

(* Names that a round generated and that did not resolve outside the        *)
(* wildcard.  They count as tested, so one that is given later is passed    *)
(* over.                                                                    *)
SetAside == {n \in made : Verdict(n, Names, {}) # "resolved"}

(* In an exhaustive run the process that stores the first checkpoint holds  *)
(* as wildcards names that the zone has cleared since; it makes fewer names *)
(* of them than a process that reads them back, and may follow a name that  *)
(* the other sets aside.                                                    *)
BehindSetAside == IF run.mode = "exhaustive" THEN UNION {Reverse[n] : n \in SetAside} ELSE {}

(* The same of runs whose look-ups were all made and gave their answer,     *)
(* whatever crashes, failed writes and failed sources they met, but for the *)
(* names that were generated, and set aside, before they were given.        *)
NamedIsKept ==
  Complete /\ ~doubted => named \subseteq active \cup SetAside \cup BehindSetAside

(* Names that the zone transfer of a run in this mode gives.                *)
Cleared(mode) == IF mode = "exhaustive" THEN Zone ELSE {}

(* What a complete run stored of its names is what its network shows: a     *)
(* name of the zone transfer is never taken for a wildcard.                 *)
RowsAreTrue ==
  Complete /\ ~doubted =>
    \A n \in active : row[n] = Verdict(n, Names, Cleared(run.mode))

(* A name the checkpoint lists as tested is not tested again by the process *)
(* that resumes the run, nor by the rounds that follow the checkpoint.  A   *)
(* run without names starts over, whatever its checkpoint lists.            *)
NothingTestedTwice ==
  [][stage \notin {"off", "collect"} /\ linked # {} =>
       (attempted' \ attempted) \cap saved.attempted = {}]_vars
=============================================================================
