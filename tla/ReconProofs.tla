---------------------------- MODULE ReconProofs ----------------------------
(***************************************************************************)
(* Proofs about Recon, for every set of names, every network, every limit   *)
(* and every bound.                                                         *)
(***************************************************************************)
EXTENDS Recon, FiniteSetTheorems, TLAPS

-----------------------------------------------------------------------------
(* The invariant.                                                           *)

Early == {"collect", "initial", "records", "zone"}
Late == {"loop", "round", "aliases", "store", "finish"}

(* A process works on a run that is RUNNING.                                *)
RunIsOpen == stage # "off" => run.status = "RUNNING"

(* Before its first save a process has a run without names.                 *)
EarlyIsEmpty == stage \in Early => linked = {}

(* Once the run has names, or the loop is reached, what the checkpoint      *)
(* lists as tested the process holds as tested.                             *)
TestedIsHeld ==
  stage \notin {"off", "collect"} /\ (linked # {} \/ stage \in Late) =>
    saved.attempted \subseteq attempted

IInv == TypeOK /\ KeptStaysActive /\ RunIsOpen /\ EarlyIsEmpty /\ TestedIsHeld

-----------------------------------------------------------------------------
(* What the stages of the engine write.                                     *)

LEMMA VerdictType ==
  \A n, answered, explicit : Verdict(n, answered, explicit) \in Verdicts
  BY DEF Verdict, Verdicts

LEMMA CutType ==
  ASSUME NEW names, NEW limit, NEW s \in Cut(names, limit)
  PROVE  s \subseteq names
  BY DEF Cut

(* A merge keeps the types of the catalogue and of the frontier.            *)
LEMMA MergeType ==
  ASSUME TypeOK, NEW new \in SUBSET Names, NEW answered, NEW explicit,
         NEW before \in SUBSET Entries, Merge(new, answered, explicit, before)
  PROVE  catalogue' \in [Names -> Known] /\ frontier' \subseteq Entries
  <1>1. PICK added \in Cut(new, Limit.candidates - Cardinality(Found)) :
          /\ catalogue' = [n \in Names |->
               IF n \in added THEN Verdict(n, answered, explicit) ELSE Unflagged(n, explicit)]
          /\ frontier' = before \cup
               {[name |-> n, verdict |-> Verdict(n, answered, explicit)] : n \in added}
    BY DEF Merge
  <1>2. added \subseteq Names
    BY <1>1, CutType
  <1>3. \A n \in Names : Unflagged(n, explicit) \in Known
    BY DEF TypeOK, Unflagged, Known, Verdicts
  <1>4. catalogue' \in [Names -> Known]
    BY <1>1, <1>3, VerdictType DEF Known
  <1>5. frontier' \subseteq Entries
    BY <1>1, <1>2, VerdictType DEF Entries
  <1> QED
    BY <1>4, <1>5

(* A look-up keeps the types, whatever its seeds.                           *)
LEMMA LookUpType ==
  ASSUME TypeOK, NEW seeds \in SUBSET Names, NEW observed, NEW explicit,
         NEW before \in SUBSET Entries, NEW short \in BOOLEAN,
         LookUp(seeds, observed, explicit, before, short)
  PROVE  /\ catalogue' \in [Names -> Known]
         /\ frontier' \subseteq Entries
         /\ doubted' \in BOOLEAN
         /\ faults' \in Nat
  <1>1. PICK handled \in IF interrupted THEN SUBSET seeds ELSE {seeds} :
          \E answered \in SUBSET handled :
            /\ IF interrupted \/ answered = seeds THEN NoFault ELSE Fault
            /\ doubted' = (doubted \/ interrupted \/ answered # seeds \/ short)
            /\ Merge({n \in handled : n \in observed \/ Verdict(n, answered, explicit) = "resolved"},
                     answered, explicit, before)
    BY DEF LookUp
  <1>2. PICK answered \in SUBSET handled :
          /\ IF interrupted \/ answered = seeds THEN NoFault ELSE Fault
          /\ doubted' = (doubted \/ interrupted \/ answered # seeds \/ short)
          /\ Merge({n \in handled : n \in observed \/ Verdict(n, answered, explicit) = "resolved"},
                   answered, explicit, before)
    BY <1>1
  <1>3. {n \in handled : n \in observed \/ Verdict(n, answered, explicit) = "resolved"} \in SUBSET Names
    BY <1>1
  <1>4. catalogue' \in [Names -> Known] /\ frontier' \subseteq Entries
    BY <1>2, <1>3, MergeType
  <1>5. doubted' \in BOOLEAN
    BY <1>2
  <1>6. faults' \in Nat
    BY <1>2 DEF TypeOK, Fault, NoFault
  <1> QED
    BY <1>4, <1>5, <1>6

(* What a pivot writes has its types, and the tested names only grow.       *)
LEMMA FollowUpType ==
  ASSUME TypeOK, NEW seen \in SUBSET Names, NEW explicit, FollowUp(seen, explicit)
  PROVE  /\ catalogue' \in [Names -> Known]
         /\ frontier' \subseteq Entries
         /\ doubted' \in BOOLEAN
         /\ faults' \in Nat
         /\ attempted' \subseteq Names
         /\ attempted \subseteq attempted'
  <1>1. PICK seeds \in Cut(seen \ attempted, Budget) :
          /\ LookUp(seeds, seeds, explicit, frontier, FALSE)
          /\ attempted' = attempted \cup seeds
    BY DEF FollowUp
  <1>2. seeds \in SUBSET Names
    BY <1>1, CutType
  <1>3. frontier \in SUBSET Entries /\ attempted \subseteq Names
    BY DEF TypeOK
  <1> QED
    BY <1>1, <1>2, <1>3, LookUpType

LEMMA PivotType ==
  ASSUME TypeOK, NEW modes, NEW names \in SUBSET Names, NEW explicit, Pivot(modes, names, explicit)
  PROVE  /\ catalogue' \in [Names -> Known]
         /\ frontier' \subseteq Entries
         /\ doubted' \in BOOLEAN
         /\ faults' \in Nat
         /\ attempted' \subseteq Names
         /\ attempted \subseteq attempted'
         /\ named' \subseteq Names
  <1>1. CASE run.mode \in modes
    <2>1. PICK seen \in SUBSET names : Observe(names, seen) /\ FollowUp(seen, explicit \cap seen)
      BY <1>1 DEF Pivot
    <2>2. seen \in SUBSET Names
      BY <2>1
    <2>3. named' \subseteq Names
      BY <2>1, <2>2 DEF Observe, TypeOK
    <2> QED
      BY <2>1, <2>2, <2>3, FollowUpType
  <1>2. CASE run.mode \notin modes
    BY <1>2 DEF Pivot, TypeOK
  <1> QED
    BY <1>1, <1>2

(* A round is a look-up of names it had not tested.                         *)
LEMMA RoundType ==
  ASSUME TypeOK, Round
  PROVE  /\ catalogue' \in [Names -> Known]
         /\ frontier' \subseteq Entries
         /\ doubted' \in BOOLEAN
         /\ faults' \in Nat
         /\ attempted' \subseteq Names
         /\ attempted \subseteq attempted'
         /\ named' \subseteq Names
         /\ made' \subseteq Names
  <1>1. References \subseteq Names /\ Made \subseteq Names
    BY ReconAssumption DEF TypeOK, Entries, References, Made
  <1>2. PICK seen \in SUBSET References : Observe(References, seen) /\
          \E first \in Cut(seen, Budget) :
            LET fresh == first \ attempted IN
            \E guesses \in Cut(Made \ (attempted \cup fresh), Budget - Cardinality(fresh)) :
              /\ LookUp(fresh \cup guesses, fresh, {}, {}, Dropped(seen, first, guesses))
              /\ attempted' = attempted \cup fresh \cup guesses
              /\ made' = made \cup guesses
    BY DEF Round
  <1>3. PICK first \in Cut(seen, Budget) :
            \E guesses \in Cut(Made \ (attempted \cup (first \ attempted)), Budget - Cardinality(first \ attempted)) :
              /\ LookUp((first \ attempted) \cup guesses, first \ attempted, {}, {}, Dropped(seen, first, guesses))
              /\ attempted' = attempted \cup (first \ attempted) \cup guesses
              /\ made' = made \cup guesses
    BY <1>2
  <1> DEFINE fresh == first \ attempted
  <1>4. PICK guesses \in Cut(Made \ (attempted \cup fresh), Budget - Cardinality(fresh)) :
              /\ LookUp(fresh \cup guesses, fresh, {}, {}, Dropped(seen, first, guesses))
              /\ attempted' = attempted \cup fresh \cup guesses
              /\ made' = made \cup guesses
    BY <1>3
  <1>5. seen \subseteq Names /\ first \subseteq seen /\ guesses \subseteq Made
    BY <1>1, <1>2, <1>3, <1>4, CutType
  <1> HIDE DEF fresh
  <1>6. fresh \cup guesses \in SUBSET Names
    BY <1>1, <1>5 DEF fresh
  <1>7. {} \in SUBSET Entries /\ Dropped(seen, first, guesses) \in BOOLEAN
    BY DEF Dropped
  <1>8. /\ catalogue' \in [Names -> Known]
        /\ frontier' \subseteq Entries
        /\ doubted' \in BOOLEAN
        /\ faults' \in Nat
    BY <1>4, <1>6, <1>7, LookUpType
  <1>9. attempted' \subseteq Names /\ attempted \subseteq attempted'
    BY <1>4, <1>6 DEF TypeOK
  <1>10. named' \subseteq Names
    BY <1>2, <1>5 DEF Observe, TypeOK
  <1>11. made' \subseteq Names
    BY <1>1, <1>4, <1>5 DEF TypeOK
  <1> QED
    BY <1>8, <1>9, <1>10, <1>11

LEMMA FoundType == Found \subseteq Names
  BY DEF Found

LEMMA AnsweredType == TypeOK => Answered \subseteq Names
  BY DEF TypeOK, Answered, Entries

-----------------------------------------------------------------------------
(* The types.                                                               *)

LEMMA TypeInit == Init => TypeOK
  <1> SUFFICES ASSUME Init PROVE TypeOK
    OBVIOUS
  <1>1. saved \in Checkpoints
    BY DEF Init, Checkpoints, NoCheckpoint
  <1>2. row \in [Names -> Known] /\ catalogue \in [Names -> Known]
    BY DEF Init, Nothing, Known
  <1>3. interrupted \in BOOLEAN /\ doubted \in BOOLEAN
    BY DEF Init
  <1>4. run \in Runs
    BY DEF Init, Runs
  <1> QED
    BY <1>1, <1>2, <1>3, <1>4 DEF Init, TypeOK

LEMMA LinkedType == TypeOK => linked \subseteq Names
  BY DEF TypeOK, Stored

LEMMA StoredKept ==
  ASSUME TypeOK, row' = row, linked' = linked
  PROVE  linked' \subseteq Stored'
  BY DEF TypeOK, Stored

(* The variables a stage of the engine leaves alone keep their types.       *)
EngineType ==
  /\ catalogue' \in [Names -> Known] /\ frontier' \subseteq Entries
  /\ attempted' \subseteq Names /\ round' \in Nat /\ spoiled' \subseteq Sources
  /\ named' \subseteq Names /\ made' \subseteq Names /\ doubted' \in BOOLEAN /\ faults' \in Nat

LEMMA TypeByEngine ==
  ASSUME TypeOK, EngineType, Unchanging,
         stage' \in {"initial", "records", "zone", "reverse", "save", "loop", "round", "aliases", "store"}
  PROVE  TypeOK'
  <1>1. /\ run' = run /\ saved' = saved /\ linked' = linked /\ row' = row /\ active' = active
        /\ interrupted' = interrupted /\ kept' = kept
        /\ launches' = launches /\ interrupts' = interrupts
    BY DEF Unchanging, database
  <1>2. interrupted' \in BOOLEAN
    BY <1>1 DEF TypeOK
  <1>3. doubted' \in BOOLEAN
    BY DEF EngineType
  <1>4. run' \in Runs
    BY <1>1 DEF TypeOK
  <1>5. linked' \subseteq Stored'
    BY <1>1, StoredKept
  <1> QED
    BY <1>1, <1>2, <1>3, <1>4, <1>5 DEF TypeOK, EngineType

(* What the providers give, and what of it is looked up, are names.         *)
LEMMA PassiveSeedsType ==
  ASSUME TypeOK, NEW failed \in SUBSET Sources, NEW given \in [Sources -> SUBSET Names],
         PassiveSeeds(failed, given)
  PROVE  spoiled' \subseteq Sources /\ attempted' \subseteq Names /\ named' \subseteq Names
  <1> DEFINE all == UNION {given[s] : s \in Sources}
  <1>1. all \subseteq Names
    OBVIOUS
  <1>2. PICK seeds \in Cut(all, Least(Limit.candidates - 1, Limit.tested - 1)) :
          /\ spoiled' = failed \cup {s \in Sources : ~(given[s] \subseteq seeds)}
          /\ attempted' = seeds \cup {Root}
          /\ named' = named \cup all \cup {Root}
    BY DEF PassiveSeeds
  <1> HIDE DEF all
  <1>3. seeds \subseteq Names
    BY <1>1, <1>2, CutType
  <1>4. Root \in Names /\ named \subseteq Names
    BY ReconAssumption DEF TypeOK
  <1> QED
    BY <1>1, <1>2, <1>3, <1>4

LEMMA TypeCollect == TypeOK /\ Collect => TypeOK'
  <1> SUFFICES ASSUME TypeOK, Collect PROVE TypeOK'
    OBVIOUS
  <1>1. PICK failed \in SUBSET Sources :
          /\ IF failed = {} THEN NoFault ELSE Fault
          /\ \E unsaid \in SUBSET UNION {{<<s, n>> : n \in Reported[s]} : s \in failed} :
               PassiveSeeds(failed, Given(unsaid))
    BY DEF Collect
  <1>2. \A unsaid : Given(unsaid) \in [Sources -> SUBSET Names]
    BY ReconAssumption DEF Given
  <1>3. spoiled' \subseteq Sources /\ attempted' \subseteq Names /\ named' \subseteq Names
    BY <1>1, <1>2, PassiveSeedsType
  <1>4. faults' \in Nat
    BY <1>1 DEF Fault, NoFault, TypeOK
  <1>5. catalogue' = catalogue /\ frontier' = frontier /\ round' = round /\ made' = made /\ doubted' = doubted
        /\ stage' = "initial" /\ Unchanging
    BY DEF Collect
  <1>6. doubted' \in BOOLEAN
    BY <1>5 DEF TypeOK
  <1>7. EngineType
    BY <1>3, <1>4, <1>5, <1>6 DEF EngineType, TypeOK
  <1> QED
    BY <1>5, <1>7, TypeByEngine

LEMMA TypeInitial == TypeOK /\ Initial => TypeOK'
  <1> SUFFICES ASSUME TypeOK, Initial PROVE TypeOK'
    OBVIOUS
  <1>1. LookUp(attempted, attempted, {}, {}, FALSE)
    BY DEF Initial
  <1>2. attempted \in SUBSET Names /\ {} \in SUBSET Entries /\ FALSE \in BOOLEAN
    BY DEF TypeOK
  <1>3. /\ catalogue' \in [Names -> Known] /\ frontier' \subseteq Entries
        /\ doubted' \in BOOLEAN /\ faults' \in Nat
    BY <1>1, <1>2, LookUpType
  <1>4. attempted' = attempted /\ round' = round /\ spoiled' = spoiled /\ named' = named /\ made' = made
        /\ stage' = "records" /\ Unchanging
    BY DEF Initial
  <1>5. EngineType
    BY <1>3, <1>4 DEF EngineType, TypeOK
  <1> QED
    BY <1>4, <1>5, TypeByEngine

(* The three pivots that ask the network.                                   *)
LEMMA TypeByPivot ==
  ASSUME TypeOK, NEW modes, NEW names \in SUBSET Names, NEW explicit, Pivot(modes, names, explicit),
         UNCHANGED <<round, spoiled, made>>, Unchanging, stage' \in {"zone", "reverse", "save"}
  PROVE  TypeOK'
  <1>1. EngineType
    BY PivotType DEF EngineType, TypeOK
  <1> QED
    BY <1>1, TypeByEngine

LEMMA TypeAddDNSSeeds == TypeOK /\ AddDNSSeeds => TypeOK'
  BY TypeByPivot, ReconAssumption DEF AddDNSSeeds

LEMMA TypeAddZoneSeeds == TypeOK /\ AddZoneSeeds => TypeOK'
  BY TypeByPivot, ReconAssumption DEF AddZoneSeeds

LEMMA ReverseType == TypeOK => ReverseNames \in SUBSET Names
  BY AnsweredType, ReconAssumption DEF ReverseNames

LEMMA TypeAddPTRSeeds == TypeOK /\ AddPTRSeeds => TypeOK'
  BY TypeByPivot, ReverseType DEF AddPTRSeeds

LEMMA TypeRound == TypeOK /\ Round => TypeOK'
  <1> SUFFICES ASSUME TypeOK, Round PROVE TypeOK'
    OBVIOUS
  <1>1. stage' = "aliases" /\ round' = round + 1 /\ spoiled' = spoiled /\ Unchanging
    BY DEF Round
  <1>2. round' \in Nat /\ spoiled' \subseteq Sources
    BY <1>1 DEF TypeOK
  <1>3. EngineType
    BY <1>2, RoundType DEF EngineType
  <1> QED
    BY <1>1, <1>3, TypeByEngine

(* An alias is a name of the root that a candidate points to.               *)
LEMMA AliasesType ==
  ASSUME TypeOK, AddCNAMESeeds
  PROVE  /\ catalogue' \in [Names -> Known] /\ frontier' \subseteq Entries
         /\ doubted' \in BOOLEAN /\ faults' \in Nat
         /\ attempted' \subseteq Names /\ attempted \subseteq attempted'
         /\ named' \subseteq Names
  <1> DEFINE targets == UNION {Aliases[n] : n \in Answered}
  <1>1. targets \in SUBSET Names
    BY AnsweredType, ReconAssumption
  <1>2. named' = named \cup targets /\ FollowUp(targets, {})
    BY DEF AddCNAMESeeds
  <1> HIDE DEF targets
  <1>3. named' \subseteq Names
    BY <1>1, <1>2 DEF TypeOK
  <1> QED
    BY <1>1, <1>2, <1>3, FollowUpType

LEMMA TypeAddCNAMESeeds == TypeOK /\ AddCNAMESeeds => TypeOK'
  <1> SUFFICES ASSUME TypeOK, AddCNAMESeeds PROVE TypeOK'
    OBVIOUS
  <1>1. stage' = "reverse" /\ round' = round /\ spoiled' = spoiled /\ made' = made /\ Unchanging
    BY DEF AddCNAMESeeds
  <1>2. EngineType
    BY <1>1, AliasesType DEF EngineType, TypeOK
  <1> QED
    BY <1>1, <1>2, TypeByEngine

LEMMA TypeLoop == TypeOK /\ (NextRound \/ LoopEnds) => TypeOK'
  <1> SUFFICES ASSUME TypeOK, NextRound \/ LoopEnds PROVE TypeOK'
    OBVIOUS
  <1>1. /\ catalogue' = catalogue /\ frontier' = frontier /\ attempted' = attempted
        /\ round' = round /\ spoiled' = spoiled /\ named' = named /\ made' = made /\ doubted' = doubted
        /\ faults' = faults /\ Unchanging /\ stage' \in {"round", "store"}
    BY DEF NextRound, LoopEnds, memory, history
  <1>2. doubted' \in BOOLEAN
    BY <1>1 DEF TypeOK
  <1>3. EngineType
    BY <1>1, <1>2 DEF EngineType, TypeOK
  <1> QED
    BY <1>1, <1>3, TypeByEngine

(* A process that exits leaves nothing in memory.                           *)
LEMMA ExitType ==
  ASSUME Exit
  PROVE  /\ stage' = "off"
         /\ catalogue' \in [Names -> Known] /\ frontier' \subseteq Entries
         /\ attempted' \subseteq Names /\ round' \in Nat /\ spoiled' \subseteq Sources
  BY DEF Exit, Nothing, Known

(* Names are stored as the catalogue has them.                              *)
LEMMA StoreType ==
  ASSUME TypeOK, StoreNames
  PROVE  row' \in [Names -> Known] /\ active' \subseteq Names /\ linked' \subseteq Stored'
  BY DEF StoreNames, TypeOK, Found, Stored

LEMMA TypeReportProgress == TypeOK /\ ReportProgress => TypeOK'
  <1> SUFFICES ASSUME TypeOK, ReportProgress PROVE TypeOK'
    OBVIOUS
  <1>1. row' \in [Names -> Known] /\ active' \subseteq Names /\ linked' \subseteq Stored'
    BY StoreType DEF ReportProgress
  <1>2. saved' \in Checkpoints
    BY DEF ReportProgress, TypeOK, Checkpoints, Entries
  <1>3. stage' = "loop" /\ UNCHANGED <<run, catalogue, frontier, attempted, round, spoiled, interrupted,
                                      named, made, doubted, kept, launches, faults, interrupts>>
    BY DEF ReportProgress, memory, history, bounds
  <1>4. interrupted' \in BOOLEAN /\ doubted' \in BOOLEAN /\ run' \in Runs
    BY <1>3 DEF TypeOK
  <1> QED
    BY <1>1, <1>2, <1>3, <1>4 DEF TypeOK

LEMMA TypeSaveCandidates == TypeOK /\ SaveCandidates => TypeOK'
  <1> SUFFICES ASSUME TypeOK, SaveCandidates PROVE TypeOK'
    OBVIOUS
  <1>1. row' \in [Names -> Known] /\ active' \subseteq Names /\ linked' \subseteq Stored'
    BY StoreType DEF SaveCandidates
  <1>2. stage' = "finish" /\ UNCHANGED <<run, saved, catalogue, frontier, attempted, round, spoiled, interrupted,
                                        named, made, doubted, kept, launches, faults, interrupts>>
    BY DEF SaveCandidates, memory, history, bounds
  <1>3. interrupted' \in BOOLEAN /\ doubted' \in BOOLEAN /\ run' \in Runs
    BY <1>2 DEF TypeOK
  <1> QED
    BY <1>1, <1>2, <1>3 DEF TypeOK

(* An exit that leaves the database alone: Stop, StoreFails and Crash.      *)
LEMMA TypeByExit ==
  ASSUME TypeOK, Exit, UNCHANGED <<database, interrupted, history, launches, interrupts>>,
         faults' = faults \/ faults' = faults + 1
  PROVE  TypeOK'
  <1>1. /\ run' = run /\ saved' = saved /\ linked' = linked /\ row' = row /\ active' = active
        /\ interrupted' = interrupted /\ named' = named /\ made' = made /\ doubted' = doubted /\ kept' = kept
        /\ launches' = launches /\ interrupts' = interrupts
    BY DEF database, history
  <1>2. interrupted' \in BOOLEAN /\ doubted' \in BOOLEAN /\ run' \in Runs
    BY <1>1 DEF TypeOK
  <1>3. faults' \in Nat
    BY DEF TypeOK
  <1>4. linked' \subseteq Stored'
    BY <1>1, StoredKept
  <1> QED
    BY <1>1, <1>2, <1>3, <1>4, ExitType DEF TypeOK

LEMMA TypeStop == TypeOK /\ (Stop \/ StoreFails \/ Crash) => TypeOK'
  BY TypeByExit DEF Stop, StoreFails, Crash, Fault, bounds

LEMMA TypeProgressFails == TypeOK /\ ProgressFails => TypeOK'
  <1> SUFFICES ASSUME TypeOK, ProgressFails PROVE TypeOK'
    OBVIOUS
  <1>1. /\ Exit /\ faults' = faults + 1
        /\ run' = IF interrupted THEN run ELSE Closed("FAILED", TRUE)
        /\ saved' = saved /\ linked' = linked /\ row' = row /\ active' = active
        /\ interrupted' = interrupted /\ named' = named /\ made' = made /\ doubted' = doubted /\ kept' = kept
        /\ launches' = launches /\ interrupts' = interrupts
    BY DEF ProgressFails, Fault, history
  <1> QED
    <2>1. Closed("FAILED", TRUE) \in Runs
      BY DEF TypeOK, Runs, Closed
    <2>2. run' \in Runs
      BY <1>1, <2>1 DEF TypeOK
    <2>3. interrupted' \in BOOLEAN /\ doubted' \in BOOLEAN
      BY <1>1 DEF TypeOK
    <2>4. faults' \in Nat
      BY <1>1 DEF TypeOK
    <2>5. linked' \subseteq Stored'
      BY <1>1, StoredKept
    <2> QED
      BY <1>1, <2>2, <2>3, <2>4, <2>5, ExitType DEF TypeOK

LEMMA TypeFinish == TypeOK /\ Finish => TypeOK'
  <1> SUFFICES ASSUME TypeOK, Finish PROVE TypeOK'
    OBVIOUS
  <1>1. /\ Exit
        /\ run' = Closed("COMPLETED", Partial)
        /\ active' = IF Partial THEN active ELSE linked
        /\ kept' = IF Partial THEN kept ELSE linked
        /\ saved' = saved /\ linked' = linked /\ row' = row
        /\ interrupted' = interrupted /\ named' = named /\ made' = made /\ doubted' = doubted
        /\ launches' = launches /\ faults' = faults /\ interrupts' = interrupts
    BY DEF Finish, bounds
  <1>2. Partial \in BOOLEAN
    BY DEF Partial
  <1>3. run' \in Runs
    BY <1>1, <1>2 DEF TypeOK, Runs, Closed
  <1>5. interrupted' \in BOOLEAN /\ doubted' \in BOOLEAN
    BY <1>1 DEF TypeOK
  <1>6. active' \subseteq Names /\ kept' \subseteq Names
    BY <1>1, LinkedType DEF TypeOK
  <1>7. linked' \subseteq Stored'
    BY <1>1, StoredKept
  <1> QED
    BY <1>1, <1>3, <1>5, <1>6, <1>7, ExitType DEF TypeOK

(* A command starts from a checkpoint, or from nothing.                     *)
LEMMA StartType ==
  ASSUME TypeOK, ResumeFrom(saved) \/ FromNothing
  PROVE  /\ stage' \in {"loop", "collect"}
         /\ catalogue' \in [Names -> Known] /\ frontier' \subseteq Entries
         /\ attempted' \subseteq Names /\ round' \in Nat /\ spoiled' \subseteq Sources
  <1>1. CASE FromNothing
    BY <1>1 DEF FromNothing, Nothing, Known
  <1>2. CASE ResumeFrom(saved)
    <2>1. linked \subseteq Names /\ saved \in Checkpoints
      BY DEF TypeOK, Stored
    <2>2. catalogue' \in [Names -> Known]
      BY <1>2 DEF ResumeFrom, TypeOK, Known
    <2>3. \A n \in linked : row[n] \in Verdicts
      BY <2>1 DEF TypeOK, Stored, Known
    <2>4. frontier' = {[name |-> n, verdict |-> row[n]] : n \in saved.frontier \cap linked}
      BY <1>2 DEF ResumeFrom
    <2>5. frontier' \subseteq Entries
      BY <2>1, <2>3, <2>4 DEF Entries
    <2>6. attempted' \subseteq Names /\ round' \in Nat /\ spoiled' \subseteq Sources /\ stage' = "loop"
      BY <1>2, <2>1 DEF ResumeFrom, Checkpoints
    <2> QED
      BY <2>2, <2>5, <2>6
  <1> QED
    BY <1>1, <1>2

LEMMA TypeLaunch ==
  ASSUME TypeOK, NEW mode \in Modes, NEW resume \in BOOLEAN, Launch(mode, resume)
  PROVE  TypeOK'
  <1>1. /\ launches' = launches + 1 /\ interrupted' = FALSE
        /\ row' = row /\ active' = active /\ kept' = kept
        /\ faults' = faults /\ interrupts' = interrupts
    BY DEF Launch
  <1>2. launches' \in Nat
    BY <1>1 DEF TypeOK
  <1>6. interrupted' \in BOOLEAN
    BY <1>1
  <1>3. /\ stage' \in {"loop", "collect"}
        /\ catalogue' \in [Names -> Known] /\ frontier' \subseteq Entries
        /\ attempted' \subseteq Names /\ round' \in Nat /\ spoiled' \subseteq Sources
    BY StartType DEF Launch, NewRun
  <1>4. CASE UNCHANGED <<run, saved, linked, named, made, doubted>>
    <2>1. linked' \subseteq Stored'
      BY <1>1, <1>4, StoredKept
    <2>2. doubted' \in BOOLEAN /\ run' \in Runs
      BY <1>4 DEF TypeOK
    <2> QED
      BY <1>1, <1>2, <1>6, <1>3, <1>4, <2>1, <2>2 DEF TypeOK
  <1>5. CASE NewRun(mode)
    <2>1. /\ run' = [status |-> "RUNNING", mode |-> mode, partial |-> FALSE]
          /\ saved' = NoCheckpoint /\ linked' = {} /\ named' = {} /\ made' = {} /\ doubted' = FALSE
      BY <1>5 DEF NewRun
    <2>2. run' \in Runs
      BY <2>1 DEF Runs
    <2>3. saved' \in Checkpoints
      BY <2>1 DEF Checkpoints, NoCheckpoint
    <2>4. doubted' \in BOOLEAN
      BY <2>1
    <2> QED
      BY <1>1, <1>2, <1>6, <1>3, <2>1, <2>2, <2>3, <2>4 DEF TypeOK
  <1> QED
    BY <1>4, <1>5 DEF Launch

LEMMA TypeInterrupt == TypeOK /\ Interrupt => TypeOK'
  <1> SUFFICES ASSUME TypeOK, Interrupt PROVE TypeOK'
    OBVIOUS
  <1>1. /\ interrupted' = TRUE /\ interrupts' = interrupts + 1
        /\ UNCHANGED <<run, saved, linked, row, active, stage, catalogue, frontier, attempted, round, spoiled,
                       named, made, doubted, kept, launches, faults>>
    BY DEF Interrupt, database, memory, history
  <1>2. interrupted' \in BOOLEAN /\ doubted' \in BOOLEAN /\ run' \in Runs
    BY <1>1 DEF TypeOK
  <1>3. linked' \subseteq Stored'
    BY <1>1, StoredKept
  <1> QED
    BY <1>1, <1>2, <1>3 DEF TypeOK

LEMMA TypeStutter == TypeOK /\ UNCHANGED vars => TypeOK'
  <1> SUFFICES ASSUME TypeOK, UNCHANGED vars PROVE TypeOK'
    OBVIOUS
  <1>1. UNCHANGED <<run, saved, linked, row, active, stage, catalogue, frontier, attempted, round, spoiled,
                    interrupted, named, made, doubted, kept, launches, faults, interrupts>>
    BY DEF vars, database, memory, history, bounds
  <1>2. interrupted' \in BOOLEAN /\ doubted' \in BOOLEAN /\ run' \in Runs
    BY <1>1 DEF TypeOK
  <1>3. linked' \subseteq Stored'
    BY <1>1, StoredKept
  <1> QED
    BY <1>1, <1>2, <1>3 DEF TypeOK

LEMMA TypeNext == TypeOK /\ [Next]_vars => TypeOK'
  BY TypeCollect, TypeInitial, TypeAddDNSSeeds, TypeAddZoneSeeds, TypeAddPTRSeeds, TypeRound,
     TypeAddCNAMESeeds, TypeLoop, TypeReportProgress, TypeSaveCandidates, TypeStop, TypeProgressFails,
     TypeFinish, TypeLaunch, TypeInterrupt, TypeStutter
  DEF Next, Step, Rest

-----------------------------------------------------------------------------
(* The catalogue of the last complete run.                                  *)

LEMMA InvInit == Init => IInv
  <1> SUFFICES ASSUME Init PROVE IInv
    OBVIOUS
  <1>1. KeptStaysActive /\ RunIsOpen /\ EarlyIsEmpty /\ TestedIsHeld
    BY DEF Init, KeptStaysActive, Complete, RunIsOpen, EarlyIsEmpty, TestedIsHeld
  <1> QED
    BY <1>1, TypeInit DEF IInv

(* A stage of the engine leaves the database alone, tests more names, and   *)
(* goes on within the pass that fills an empty run or within the loop.      *)
LEMMA InvEngine ==
  ASSUME IInv, Unchanging, attempted \subseteq attempted', stage # "off", stage # "collect",
         stage' # "off", stage' \in Early => stage \in Early,
         stage' \in Late => stage \in Late
  PROVE  KeptStaysActive' /\ RunIsOpen' /\ EarlyIsEmpty' /\ TestedIsHeld'
  <1>1. run' = run /\ saved' = saved /\ linked' = linked /\ active' = active /\ kept' = kept
    BY DEF Unchanging, database
  <1>2. KeptStaysActive'
    BY <1>1 DEF IInv, KeptStaysActive, Complete
  <1>3. RunIsOpen'
    BY <1>1 DEF IInv, RunIsOpen
  <1>4. EarlyIsEmpty'
    BY <1>1 DEF IInv, EarlyIsEmpty
  <1>5. TestedIsHeld'
    BY <1>1 DEF IInv, TestedIsHeld
  <1> QED
    BY <1>2, <1>3, <1>4, <1>5

LEMMA InvCollect == IInv /\ Collect => KeptStaysActive' /\ RunIsOpen' /\ EarlyIsEmpty' /\ TestedIsHeld'
  <1> SUFFICES ASSUME IInv, Collect
               PROVE  KeptStaysActive' /\ RunIsOpen' /\ EarlyIsEmpty' /\ TestedIsHeld'
    OBVIOUS
  <1>1. /\ run' = run /\ saved' = saved /\ linked' = linked /\ active' = active /\ kept' = kept
        /\ stage = "collect" /\ stage' = "initial"
    BY DEF Collect, Unchanging, database
  <1>2. KeptStaysActive'
    BY <1>1 DEF IInv, KeptStaysActive, Complete
  <1>3. linked = {}
    BY <1>1 DEF IInv, EarlyIsEmpty, Early
  <1> QED
    BY <1>1, <1>2, <1>3 DEF IInv, RunIsOpen, EarlyIsEmpty, TestedIsHeld, Late

LEMMA InvPivots ==
  IInv /\ (Initial \/ AddDNSSeeds \/ AddZoneSeeds \/ AddPTRSeeds \/ Round \/ AddCNAMESeeds \/ NextRound \/ LoopEnds)
    => KeptStaysActive' /\ RunIsOpen' /\ EarlyIsEmpty' /\ TestedIsHeld'
  <1> USE DEF Early, Late
  <1>1. ASSUME IInv, Initial
        PROVE  KeptStaysActive' /\ RunIsOpen' /\ EarlyIsEmpty' /\ TestedIsHeld'
    BY <1>1, InvEngine DEF Initial
  <1>2. ASSUME IInv, AddDNSSeeds
        PROVE  KeptStaysActive' /\ RunIsOpen' /\ EarlyIsEmpty' /\ TestedIsHeld'
    <2>1. attempted \subseteq attempted'
      BY <1>2, PivotType, ReconAssumption DEF AddDNSSeeds, IInv
    <2> QED
      BY <1>2, <2>1, InvEngine DEF AddDNSSeeds
  <1>3. ASSUME IInv, AddZoneSeeds
        PROVE  KeptStaysActive' /\ RunIsOpen' /\ EarlyIsEmpty' /\ TestedIsHeld'
    <2>1. attempted \subseteq attempted'
      BY <1>3, PivotType, ReconAssumption DEF AddZoneSeeds, IInv
    <2> QED
      BY <1>3, <2>1, InvEngine DEF AddZoneSeeds
  <1>4. ASSUME IInv, AddPTRSeeds
        PROVE  KeptStaysActive' /\ RunIsOpen' /\ EarlyIsEmpty' /\ TestedIsHeld'
    <2>1. attempted \subseteq attempted'
      BY <1>4, PivotType, ReverseType DEF AddPTRSeeds, IInv
    <2> QED
      BY <1>4, <2>1, InvEngine DEF AddPTRSeeds
  <1>5. ASSUME IInv, Round
        PROVE  KeptStaysActive' /\ RunIsOpen' /\ EarlyIsEmpty' /\ TestedIsHeld'
    <2>1. attempted \subseteq attempted'
      BY <1>5, RoundType DEF IInv
    <2>2. stage = "round" /\ stage' = "aliases" /\ Unchanging
      BY <1>5 DEF Round
    <2> QED
      BY <1>5, <2>1, <2>2, InvEngine
  <1>6. ASSUME IInv, AddCNAMESeeds
        PROVE  KeptStaysActive' /\ RunIsOpen' /\ EarlyIsEmpty' /\ TestedIsHeld'
    <2>1. attempted \subseteq attempted'
      BY <1>6, AliasesType DEF IInv
    <2>2. stage = "aliases" /\ stage' = "reverse" /\ Unchanging
      BY <1>6 DEF AddCNAMESeeds
    <2> QED
      BY <1>6, <2>1, <2>2, InvEngine
  <1>7. ASSUME IInv, NextRound \/ LoopEnds
        PROVE  KeptStaysActive' /\ RunIsOpen' /\ EarlyIsEmpty' /\ TestedIsHeld'
    <2>1. stage = "loop" /\ stage' \in {"round", "store"} /\ attempted' = attempted /\ Unchanging
      BY <1>7 DEF NextRound, LoopEnds, memory
    <2> QED
      BY <1>7, <2>1, InvEngine
  <1> QED
    BY <1>1, <1>2, <1>3, <1>4, <1>5, <1>6, <1>7

(* The names, the links and the checkpoint are stored together.             *)
LEMMA InvStore ==
  IInv /\ (ReportProgress \/ SaveCandidates) =>
    KeptStaysActive' /\ RunIsOpen' /\ EarlyIsEmpty' /\ TestedIsHeld'
  <1> SUFFICES ASSUME IInv, ReportProgress \/ SaveCandidates
               PROVE  KeptStaysActive' /\ RunIsOpen' /\ EarlyIsEmpty' /\ TestedIsHeld'
    OBVIOUS
  <1>1. /\ run' = run /\ kept' = kept /\ attempted' = attempted /\ stage' \in {"loop", "finish"}
        /\ active' = active \cup Found
    BY DEF ReportProgress, SaveCandidates, StoreNames, memory, history
  <1>2. run.status = "RUNNING"
    BY DEF IInv, RunIsOpen, ReportProgress, SaveCandidates
  <1>3. KeptStaysActive' /\ RunIsOpen' /\ EarlyIsEmpty'
    BY <1>1, <1>2 DEF IInv, KeptStaysActive, Complete, RunIsOpen, EarlyIsEmpty, Early
  <1>4. CASE ReportProgress
    <2>1. saved'.attempted = attempted
      BY <1>4 DEF ReportProgress
    <2> QED
      BY <1>1, <1>3, <2>1 DEF TestedIsHeld
  <1>5. CASE SaveCandidates
    <2>1. saved' = saved /\ saved.attempted \subseteq attempted
      BY <1>5 DEF SaveCandidates, IInv, TestedIsHeld, Late
    <2> QED
      BY <1>1, <1>3, <2>1 DEF TestedIsHeld
  <1> QED
    BY <1>4, <1>5

(* A process that exits with its run unfinished.                            *)
LEMMA InvExit ==
  IInv /\ (Stop \/ StoreFails \/ Crash \/ ProgressFails) =>
    KeptStaysActive' /\ RunIsOpen' /\ EarlyIsEmpty' /\ TestedIsHeld'
  <1> SUFFICES ASSUME IInv, Stop \/ StoreFails \/ Crash \/ ProgressFails
               PROVE  KeptStaysActive' /\ RunIsOpen' /\ EarlyIsEmpty' /\ TestedIsHeld'
    OBVIOUS
  <1>1. stage' = "off" /\ active' = active /\ kept' = kept
    BY DEF Stop, StoreFails, Crash, ProgressFails, Exit, database, history
  <1>2. run' = run \/ run' = Closed("FAILED", TRUE)
    BY DEF Stop, StoreFails, Crash, ProgressFails, database
  <1>3. Complete' => Complete
    BY <1>2 DEF Complete, Closed
  <1>4. KeptStaysActive'
    BY <1>1, <1>3 DEF IInv, KeptStaysActive
  <1> QED
    BY <1>1, <1>4 DEF RunIsOpen, EarlyIsEmpty, TestedIsHeld, Early

(* Only a complete run changes what is kept, and then it is what is active. *)
LEMMA InvFinish == IInv /\ Finish => KeptStaysActive' /\ RunIsOpen' /\ EarlyIsEmpty' /\ TestedIsHeld'
  <1> SUFFICES ASSUME IInv, Finish
               PROVE  KeptStaysActive' /\ RunIsOpen' /\ EarlyIsEmpty' /\ TestedIsHeld'
    OBVIOUS
  <1>1. /\ stage' = "off" /\ run' = Closed("COMPLETED", Partial)
        /\ active' = IF Partial THEN active ELSE linked
        /\ kept' = IF Partial THEN kept ELSE linked
    BY DEF Finish, Exit
  <1>2. Complete' => ~Partial
    BY <1>1 DEF Complete, Closed
  <1>3. KeptStaysActive'
    BY <1>1, <1>2 DEF IInv, KeptStaysActive
  <1> QED
    BY <1>1, <1>3 DEF RunIsOpen, EarlyIsEmpty, TestedIsHeld, Early

LEMMA InvLaunch ==
  ASSUME IInv, NEW mode \in Modes, NEW resume \in BOOLEAN, Launch(mode, resume)
  PROVE  KeptStaysActive' /\ RunIsOpen' /\ EarlyIsEmpty' /\ TestedIsHeld'
  <1>1. active' = active /\ kept' = kept
    BY DEF Launch
  <1>2. CASE resume /\ run.status = "RUNNING" /\ run.mode = mode
    <2>1. run' = run /\ saved' = saved /\ linked' = linked
      BY <1>2 DEF Launch
    <2>2. CASE linked # {}
      <3>1. stage' = "loop" /\ attempted' = saved.attempted \cup linked
        BY <1>2, <2>2 DEF Launch, ResumeFrom
      <3> QED
        BY <1>1, <1>2, <2>1, <3>1
           DEF IInv, KeptStaysActive, Complete, RunIsOpen, EarlyIsEmpty, TestedIsHeld, Early
    <2>3. CASE linked = {}
      <3>1. stage' = "collect"
        BY <1>2, <2>3 DEF Launch, FromNothing
      <3> QED
        BY <1>1, <1>2, <2>1, <2>3, <3>1
           DEF IInv, KeptStaysActive, Complete, RunIsOpen, EarlyIsEmpty, TestedIsHeld, Early
    <2> QED
      BY <2>2, <2>3
  <1>3. CASE NewRun(mode)
    <2>1. run'.status = "RUNNING" /\ linked' = {} /\ stage' = "collect"
      BY <1>3 DEF NewRun, FromNothing
    <2> QED
      BY <1>1, <2>1 DEF IInv, KeptStaysActive, Complete, RunIsOpen, EarlyIsEmpty, TestedIsHeld, Early
  <1> QED
    BY <1>2, <1>3 DEF Launch

LEMMA InvQuiet ==
  IInv /\ (Interrupt \/ UNCHANGED vars) => KeptStaysActive' /\ RunIsOpen' /\ EarlyIsEmpty' /\ TestedIsHeld'
  <1> SUFFICES ASSUME IInv, Interrupt \/ UNCHANGED vars
               PROVE  KeptStaysActive' /\ RunIsOpen' /\ EarlyIsEmpty' /\ TestedIsHeld'
    OBVIOUS
  <1>1. UNCHANGED <<run, saved, linked, active, stage, attempted, kept>>
    BY DEF Interrupt, vars, database, memory, history
  <1> QED
    BY <1>1 DEF IInv, KeptStaysActive, Complete, RunIsOpen, EarlyIsEmpty, TestedIsHeld

LEMMA InvNext == IInv /\ [Next]_vars => IInv'
  <1> SUFFICES ASSUME IInv, [Next]_vars PROVE IInv'
    OBVIOUS
  <1>1. TypeOK'
    BY TypeNext DEF IInv
  <1>2. KeptStaysActive' /\ RunIsOpen' /\ EarlyIsEmpty' /\ TestedIsHeld'
    BY InvCollect, InvPivots, InvStore, InvExit, InvFinish, InvLaunch, InvQuiet DEF Next, Step, Rest
  <1> QED
    BY <1>1, <1>2 DEF IInv

(* The inductive invariant holds of every behaviour.                        *)
THEOREM Invariance == Spec => []IInv
  BY InvInit, InvNext, PTL DEF Spec

(* The variables of recon keep their types: what is stored of a linked name *)
(* is never nothing.                                                        *)
THEOREM TypesHold == Spec => []TypeOK
  <1>1. IInv => TypeOK
    BY DEF IInv
  <1> QED
    BY <1>1, Invariance, PTL

(* Whatever fails, the names of the last complete run stay active until     *)
(* another run is complete, and then exactly its names are active.          *)
THEOREM CatalogueIsKept == Spec => []KeptStaysActive
  <1>1. IInv => KeptStaysActive
    BY DEF IInv
  <1> QED
    BY <1>1, Invariance, PTL

(* No process tests again a name that the checkpoint of its run lists as    *)
(* tested.                                                                  *)
THEOREM TestedOnce == Spec => NothingTestedTwice
  <1>1. IInv /\ [Next]_vars =>
          [stage \notin {"off", "collect"} /\ linked # {} =>
             (attempted' \ attempted) \cap saved.attempted = {}]_vars
    BY DEF IInv, TestedIsHeld
  <1> QED
    BY <1>1, Invariance, PTL DEF Spec, NothingTestedTwice

(* A limit of the run is reached: names kept, or names tested.              *)
Capped == Cardinality(Found) >= Limit.candidates \/ Cardinality(attempted) >= Limit.tested

(* Cardinalities of sets of names.                                          *)
LEMMA SubsetFinite ==
  ASSUME NEW S \in SUBSET Names
  PROVE  IsFiniteSet(S) /\ Cardinality(S) \in Nat
  BY FS_Subset, FS_CardinalityType, ReconAssumption

LEMMA SubsetSmaller ==
  ASSUME NEW T \in SUBSET Names, NEW S \in SUBSET T
  PROVE  Cardinality(S) <= Cardinality(T) /\ (Cardinality(S) = Cardinality(T) => S = T)
  BY FS_Subset, SubsetFinite

LEMMA DisjointSum ==
  ASSUME NEW S \in SUBSET Names, NEW T \in SUBSET Names, S \cap T = {}
  PROVE  Cardinality(S \cup T) = Cardinality(S) + Cardinality(T)
  <1>1. IsFiniteSet(S) /\ IsFiniteSet(T) /\ Cardinality(S) \in Nat /\ Cardinality(T) \in Nat
    BY SubsetFinite
  <1>2. Cardinality(S \cup T) = Cardinality(S) + Cardinality(T) - Cardinality(S \cap T)
    BY <1>1, FS_Union
  <1>3. Cardinality(S \cap T) = 0
    BY FS_EmptySet
  <1> QED
    BY <1>1, <1>2, <1>3

(* A cut takes everything when there is room for it, nothing when there is  *)
(* no room, and as much as there is room for otherwise.                     *)
LEMMA CutSize ==
  ASSUME NEW S \in SUBSET Names, NEW limit \in Int, NEW s \in Cut(S, limit)
  PROVE  /\ s \subseteq S
         /\ limit <= 0 => s = {}
         /\ limit >= 0 => Cardinality(s) <= limit
         /\ Cardinality(S) <= limit \/ S = {} => s = S
         /\ s # S => Cardinality(s) >= limit
  <1> DEFINE room == IF limit > 0 THEN limit ELSE 0
  <1>1. s \subseteq S /\ Cardinality(s) = Least(room, Cardinality(S))
    BY DEF Cut
  <1>2. Cardinality(S) \in Nat /\ Cardinality(s) \in Nat /\ IsFiniteSet(s)
    BY <1>1, SubsetFinite
  <1>3. Cardinality(s) <= room /\ (s # S => Cardinality(s) = room)
    BY <1>1, <1>2, SubsetSmaller DEF Least
  <1>4. limit <= 0 => s = {}
    BY <1>2, <1>3, FS_EmptySet
  <1>5. Cardinality(S) <= limit => s = S
    BY <1>1, <1>2, SubsetSmaller DEF Least
  <1> QED
    BY <1>1, <1>2, <1>3, <1>4, <1>5

-----------------------------------------------------------------------------
(* The names of entries of the frontier.                                    *)
NamesOf(entries) == {e.name : e \in entries}
FrontierNames == NamesOf(frontier)

(* What the limits and the budget are.                                      *)
LEMMA LimitType ==
  ASSUME run.mode \in Modes
  PROVE  Limit.rounds \in Nat /\ Limit.candidates \in Nat \ {0} /\ Limit.tested \in Nat \ {0}
  BY ReconAssumption DEF Limit

LEMMA BudgetType ==
  ASSUME TypeOK, run.mode \in Modes
  PROVE  /\ Cardinality(Found) \in Nat /\ Cardinality(attempted) \in Nat
         /\ Budget \in Int
         /\ Budget <= Limit.candidates - Cardinality(Found)
         /\ Budget = Limit.candidates - Cardinality(Found) \/ Budget = Limit.tested - Cardinality(attempted)
         /\ Budget <= 0 <=> Capped
  <1>1. Cardinality(Found) \in Nat
    BY SubsetFinite, FoundType
  <1>2. Cardinality(attempted) \in Nat
    BY SubsetFinite DEF TypeOK
  <1> QED
    BY <1>1, <1>2, LimitType DEF Budget, Least, Capped

(* What a merge adds to the catalogue, it adds to the frontier.             *)
Adds(added, answered, explicit, before) ==
  /\ catalogue' = [n \in Names |->
       IF n \in added THEN Verdict(n, answered, explicit) ELSE Unflagged(n, explicit)]
  /\ frontier' = before \cup {[name |-> n, verdict |-> Verdict(n, answered, explicit)] : n \in added}

LEMMA AddsFound ==
  ASSUME TypeOK, NEW added \in SUBSET Names, NEW answered, NEW explicit, NEW before \in SUBSET Entries,
         Adds(added, answered, explicit, before)
  PROVE  Found' = Found \cup added /\ FrontierNames' = NamesOf(before) \cup added
  <1>1. catalogue' = [n \in Names |->
          IF n \in added THEN Verdict(n, answered, explicit) ELSE Unflagged(n, explicit)]
    BY DEF Adds
  <1>2. \A n \in Names : Verdict(n, answered, explicit) # "none"
    BY VerdictType DEF Verdicts
  <1>3. \A n \in Names : Unflagged(n, explicit) = "none" <=> catalogue[n] = "none"
    BY DEF Unflagged
  <1>4. \A n \in Names : catalogue'[n] # "none" <=> n \in added \/ catalogue[n] # "none"
    BY <1>1, <1>2, <1>3
  <1>5. Found' = Found \cup added
    BY <1>4 DEF Found
  <1>6. frontier' = before \cup {[name |-> n, verdict |-> Verdict(n, answered, explicit)] : n \in added}
    BY DEF Adds
  <1>7. \A n \in added : [name |-> n, verdict |-> Verdict(n, answered, explicit)].name = n
    OBVIOUS
  <1>8. \A e \in frontier' : e \in before \/ e.name \in added
    BY <1>6, <1>7
  <1>9. \A n \in added : \E e \in frontier' : e.name = n
    BY <1>6, <1>7
  <1>10. FrontierNames' = NamesOf(before) \cup added
    BY <1>6, <1>8, <1>9 DEF FrontierNames, NamesOf
  <1> QED
    BY <1>5, <1>10

(* A look-up adds names it was asked for, and nothing else.                 *)
LEMMA LookUpGrows ==
  ASSUME TypeOK, NEW seeds \in SUBSET Names, NEW observed, NEW explicit,
         NEW before \in SUBSET Entries, NEW short \in BOOLEAN, LookUp(seeds, observed, explicit, before, short)
  PROVE  \E added \in SUBSET seeds :
           Found' = Found \cup added /\ FrontierNames' = NamesOf(before) \cup added
  <1>1. PICK handled \in IF interrupted THEN SUBSET seeds ELSE {seeds} : \E answered \in SUBSET handled :
          Merge({n \in handled : n \in observed \/ Verdict(n, answered, explicit) = "resolved"},
                answered, explicit, before)
    BY DEF LookUp
  <1>2. PICK answered \in SUBSET handled :
          Merge({n \in handled : n \in observed \/ Verdict(n, answered, explicit) = "resolved"},
                answered, explicit, before)
    BY <1>1
  <1>3. PICK added \in Cut({n \in handled : n \in observed \/ Verdict(n, answered, explicit) = "resolved"},
                           Limit.candidates - Cardinality(Found)) :
          Adds(added, answered, explicit, before)
    BY <1>2 DEF Merge, Adds
  <1>4. handled \subseteq seeds
    BY <1>1
  <1>5. added \subseteq handled
    BY <1>3, CutType
  <1>6. added \in SUBSET seeds /\ added \in SUBSET Names
    BY <1>4, <1>5
  <1> QED
    BY <1>3, <1>6, AddsFound

LEMMA LookUpStarts ==
  ASSUME TypeOK, NEW seeds \in SUBSET Names, NEW observed, NEW explicit, NEW short \in BOOLEAN,
         LookUp(seeds, observed, explicit, {}, short)
  PROVE  \E added \in SUBSET seeds : Found' = Found \cup added /\ FrontierNames' = added
  <1> DEFINE before == {}
  <1>1. before \in SUBSET Entries /\ LookUp(seeds, observed, explicit, before, short)
    OBVIOUS
  <1>2. \A added : NamesOf(before) \cup added = added
    BY DEF NamesOf
  <1> HIDE DEF before
  <1>3. \E added \in SUBSET seeds :
          Found' = Found \cup added /\ FrontierNames' = NamesOf(before) \cup added
    BY <1>1, LookUpGrows
  <1> QED
    BY <1>2, <1>3

(* A look-up nobody doubts keeps every name there is room for.              *)
LEMMA LookUpAll ==
  ASSUME TypeOK, run.mode \in Modes, NEW seeds \in SUBSET Names, NEW observed \in SUBSET Names, NEW explicit,
         NEW before \in SUBSET Entries, NEW short \in BOOLEAN, LookUp(seeds, observed, explicit, before, short),
         ~doubted', Cardinality(seeds) <= Limit.candidates - Cardinality(Found) \/ seeds = {}
  PROVE  /\ ~doubted /\ ~interrupted /\ ~short
         /\ Adds({n \in seeds : n \in observed \/ Verdict(n, seeds, explicit) = "resolved"},
                 seeds, explicit, before)
  <1> DEFINE New(handled, answered) == {n \in handled : n \in observed \/ Verdict(n, answered, explicit) = "resolved"}
  <1>1. PICK handled \in IF interrupted THEN SUBSET seeds ELSE {seeds} : \E answered \in SUBSET handled :
          /\ doubted' = (doubted \/ interrupted \/ answered # seeds \/ short)
          /\ Merge(New(handled, answered), answered, explicit, before)
    BY DEF LookUp
  <1>2. PICK answered \in SUBSET handled :
          /\ doubted' = (doubted \/ interrupted \/ answered # seeds \/ short)
          /\ Merge(New(handled, answered), answered, explicit, before)
    BY <1>1
  <1>3. ~doubted /\ ~interrupted /\ ~short /\ answered = seeds
    BY <1>2
  <1>4. handled = seeds
    BY <1>1, <1>3
  <1> DEFINE new == New(seeds, seeds)
  <1>5. Merge(new, seeds, explicit, before)
    BY <1>2, <1>3, <1>4
  <1>6. new \in SUBSET seeds /\ new \in SUBSET Names
    OBVIOUS
  <1> HIDE DEF new
  <1>10. PICK added \in Cut(new, Limit.candidates - Cardinality(Found)) : Adds(added, seeds, explicit, before)
    BY <1>5 DEF Merge, Adds
  <1>7. Limit.candidates - Cardinality(Found) \in Int
    BY BudgetType, LimitType
  <1>8. Cardinality(new) <= Limit.candidates - Cardinality(Found) \/ new = {}
    <2>1. CASE seeds = {}
      BY <1>6, <2>1
    <2>2. CASE Cardinality(seeds) <= Limit.candidates - Cardinality(Found)
      <3>1. Cardinality(new) <= Cardinality(seeds) /\ Cardinality(new) \in Nat /\ Cardinality(seeds) \in Nat
        BY <1>6, SubsetSmaller, SubsetFinite
      <3> QED
        BY <1>7, <2>2, <3>1
    <2> QED
      BY <2>1, <2>2
  <1>9. added = new
    BY <1>10, <1>6, <1>7, <1>8, CutSize
  <1> QED
    BY <1>3, <1>10, <1>9 DEF new

(* A name that was answered has the verdict of a network that answers all.  *)
LEMMA VerdictOf ==
  ASSUME NEW seeds, NEW n \in seeds, n \in Names, NEW explicit
  PROVE  Verdict(n, seeds, explicit) = Verdict(n, Names, explicit)
  BY DEF Verdict

(* A follow-up nobody doubts looks up and keeps what is not tested yet, and *)
(* leaves some of it out only when the run reaches a limit.                 *)
Follows(seeds, seen, explicit) ==
  /\ seeds \subseteq seen \ attempted
  /\ attempted' = attempted \cup seeds
  /\ Adds(seeds, Names, explicit, frontier)
  /\ Found' = Found \cup seeds
  /\ FrontierNames' = FrontierNames \cup seeds
  /\ Capped => seeds = {}
  /\ seeds = seen \ attempted \/ Capped'

LEMMA AddsNames ==
  ASSUME NEW added \in SUBSET Names, NEW seeds, added \subseteq seeds, NEW explicit, NEW before,
         Adds(added, seeds, explicit, before)
  PROVE  Adds(added, Names, explicit, before)
  <1>1. \A n \in added : Verdict(n, seeds, explicit) = Verdict(n, Names, explicit)
    BY VerdictOf
  <1>2. [n \in Names |-> IF n \in added THEN Verdict(n, seeds, explicit) ELSE Unflagged(n, explicit)]
          = [n \in Names |-> IF n \in added THEN Verdict(n, Names, explicit) ELSE Unflagged(n, explicit)]
    BY <1>1
  <1>3. {[name |-> n, verdict |-> Verdict(n, seeds, explicit)] : n \in added}
          = {[name |-> n, verdict |-> Verdict(n, Names, explicit)] : n \in added}
    BY <1>1
  <1> QED
    BY <1>2, <1>3 DEF Adds

(* Looking up as much as the budget allows takes the run to a limit.        *)
LEMMA BudgetSpent ==
  ASSUME TypeOK, run.mode \in Modes, run' = run, Found \subseteq attempted,
         NEW seeds \in SUBSET Names, seeds \cap attempted = {}, NEW room \in Int, room <= Cardinality(seeds),
         \/ attempted \cup seeds \subseteq attempted' /\ room = Limit.tested - Cardinality(attempted)
         \/ Found \cup seeds \subseteq Found' /\ room = Limit.candidates - Cardinality(Found),
         attempted' \subseteq Names
  PROVE  Capped'
  <1>1. Cardinality(seeds) \in Nat /\ Cardinality(Found) \in Nat /\ Cardinality(attempted) \in Nat
    BY SubsetFinite, BudgetType
  <1>2. Limit' = Limit
    BY DEF Limit
  <1>3. Limit.candidates \in Nat /\ Limit.tested \in Nat
    BY LimitType
  <1>4. Found' \in SUBSET Names /\ Found \in SUBSET Names /\ attempted \in SUBSET Names
    BY DEF Found, TypeOK
  <1>5. CASE attempted \cup seeds \subseteq attempted' /\ room = Limit.tested - Cardinality(attempted)
    <2>1. Cardinality(attempted \cup seeds) = Cardinality(attempted) + Cardinality(seeds)
      BY <1>4, DisjointSum
    <2>2. Cardinality(attempted \cup seeds) <= Cardinality(attempted') /\ Cardinality(attempted') \in Nat
      BY <1>5, SubsetSmaller, SubsetFinite
    <2>3. Cardinality(attempted') >= Limit.tested
      BY <1>1, <1>3, <1>5, <2>1, <2>2
    <2> QED
      BY <1>2, <2>3 DEF Capped
  <1>6. CASE Found \cup seeds \subseteq Found' /\ room = Limit.candidates - Cardinality(Found)
    <2>1. Cardinality(Found \cup seeds) = Cardinality(Found) + Cardinality(seeds)
      BY <1>4, DisjointSum
    <2>2. Cardinality(Found \cup seeds) <= Cardinality(Found') /\ Cardinality(Found') \in Nat
      BY <1>4, <1>6, SubsetSmaller, SubsetFinite
    <2>3. Cardinality(Found') >= Limit.candidates
      BY <1>1, <1>3, <1>6, <2>1, <2>2
    <2> QED
      BY <1>2, <2>3 DEF Capped
  <1> QED
    BY <1>5, <1>6

LEMMA FollowUpAll ==
  ASSUME TypeOK, run.mode \in Modes, run' = run, Found \subseteq attempted, NEW seen \in SUBSET Names,
         NEW explicit, FollowUp(seen, explicit), ~doubted'
  PROVE  ~doubted /\ ~interrupted /\ \E seeds \in SUBSET Names : Follows(seeds, seen, explicit)
  <1>1. PICK seeds \in Cut(seen \ attempted, Budget) :
          /\ LookUp(seeds, seeds, explicit, frontier, FALSE)
          /\ attempted' = attempted \cup seeds
    BY DEF FollowUp
  <1>2. seen \ attempted \in SUBSET Names /\ frontier \in SUBSET Entries /\ FALSE \in BOOLEAN
    BY DEF TypeOK
  <1>3. Budget \in Int
    BY BudgetType
  <1>4. /\ seeds \subseteq seen \ attempted
        /\ Budget <= 0 => seeds = {}
        /\ Budget >= 0 => Cardinality(seeds) <= Budget
        /\ seeds # seen \ attempted => Cardinality(seeds) >= Budget
    BY <1>1, <1>2, <1>3, CutSize
  <1>5. seeds \in SUBSET Names /\ Cardinality(seeds) \in Nat
    BY <1>2, <1>4, SubsetFinite
  <1>6. Cardinality(seeds) <= Limit.candidates - Cardinality(Found) \/ seeds = {}
    BY <1>3, <1>4, <1>5, BudgetType, LimitType
  <1>7. /\ ~doubted /\ ~interrupted
        /\ Adds({n \in seeds : n \in seeds \/ Verdict(n, seeds, explicit) = "resolved"}, seeds, explicit, frontier)
    BY <1>1, <1>2, <1>5, <1>6, LookUpAll
  <1>8. {n \in seeds : n \in seeds \/ Verdict(n, seeds, explicit) = "resolved"} = seeds
    OBVIOUS
  <1>9. Adds(seeds, seeds, explicit, frontier)
    BY <1>7, <1>8
  <1>10. Adds(seeds, Names, explicit, frontier)
    BY <1>5, <1>9, AddsNames
  <1>11. Found' = Found \cup seeds /\ FrontierNames' = FrontierNames \cup seeds
    BY <1>2, <1>5, <1>10, AddsFound DEF FrontierNames
  <1>12. seeds = seen \ attempted \/ Capped'
    <2>1. SUFFICES ASSUME seeds # seen \ attempted PROVE Capped'
      OBVIOUS
    <2>2. Budget <= Cardinality(seeds)
      BY <1>3, <1>4, <1>5, <2>1
    <2>3. attempted' \subseteq Names /\ seeds \cap attempted = {}
      BY <1>1, <1>4, <1>5 DEF TypeOK
    <2> QED
      BY <1>1, <1>3, <1>5, <1>11, <2>2, <2>3, BudgetType, BudgetSpent
  <1>13. Capped => seeds = {}
    BY <1>4, BudgetType
  <1> QED
    BY <1>1, <1>4, <1>5, <1>7, <1>10, <1>11, <1>12, <1>13 DEF Follows

(* A pivot nobody doubts follows all the names its records give.            *)
LEMMA PivotAll ==
  ASSUME TypeOK, run.mode \in Modes, run' = run, Found \subseteq attempted, NEW modes,
         NEW names \in SUBSET Names, NEW explicit \in SUBSET names, Pivot(modes, names, explicit), ~doubted'
  PROVE  /\ ~doubted
         /\ run.mode \in modes =>
              named' = named \cup names /\ \E seeds \in SUBSET Names : Follows(seeds, names, explicit)
         /\ run.mode \notin modes =>
              /\ named' = named /\ attempted' = attempted /\ catalogue' = catalogue /\ frontier' = frontier
              /\ Found' = Found /\ FrontierNames' = FrontierNames
  <1>1. CASE run.mode \in modes
    <2>1. PICK seen \in SUBSET names : Observe(names, seen) /\ FollowUp(seen, explicit \cap seen)
      BY <1>1 DEF Pivot
    <2>2. ~doubted /\ ~interrupted /\ \E seeds \in SUBSET Names : Follows(seeds, seen, explicit \cap seen)
      BY <2>1, FollowUpAll
    <2>3. seen = names /\ named' = named \cup names
      BY <2>1, <2>2 DEF Observe
    <2>4. explicit \cap seen = explicit
      BY <2>3
    <2> QED
      BY <1>1, <2>2, <2>3, <2>4
  <1>2. CASE run.mode \notin modes
    <2>1. UNCHANGED <<catalogue, frontier, attempted, named, doubted, faults>>
      BY <1>2 DEF Pivot
    <2>2. Found' = Found /\ FrontierNames' = FrontierNames
      BY <2>1 DEF Found, FrontierNames
    <2> QED
      BY <1>2, <2>1, <2>2
  <1> QED
    BY <1>1, <1>2

(* A round nobody doubts looks up every reference and every name made that  *)
(* is not tested yet.                                                       *)
Kept(fresh, guesses) == fresh \cup {n \in guesses : Verdict(n, Names, {}) = "resolved"}

RoundIs(fresh, guesses) ==
  /\ fresh = References \ attempted
  /\ guesses = Made \ (attempted \cup References)
  /\ attempted' = attempted \cup fresh \cup guesses
  /\ named' = named \cup References
  /\ made' = made \cup guesses
  /\ Adds(Kept(fresh, guesses), Names, {}, {})
  /\ Found' = Found \cup Kept(fresh, guesses)
  /\ FrontierNames' = Kept(fresh, guesses)

(* What such a round does: nothing is cut without the run reaching a limit. *)
LEMMA RoundAll ==
  ASSUME TypeOK, run.mode \in Modes, Found \subseteq attempted, Round, ~doubted'
  PROVE  ~doubted /\ \E fresh, guesses \in SUBSET Names : RoundIs(fresh, guesses)
  <1>1. References \subseteq Names /\ Made \subseteq Names
    BY ReconAssumption DEF TypeOK, Entries, References, Made
  <1>2. PICK seen \in SUBSET References : Observe(References, seen) /\
          \E first \in Cut(seen, Budget) :
            LET fresh == first \ attempted IN
            \E guesses \in Cut(Made \ (attempted \cup fresh), Budget - Cardinality(fresh)) :
              /\ LookUp(fresh \cup guesses, fresh, {}, {}, Dropped(seen, first, guesses))
              /\ attempted' = attempted \cup fresh \cup guesses
              /\ made' = made \cup guesses
    BY DEF Round
  <1>3. PICK first \in Cut(seen, Budget) :
            \E guesses \in Cut(Made \ (attempted \cup (first \ attempted)), Budget - Cardinality(first \ attempted)) :
              /\ LookUp((first \ attempted) \cup guesses, first \ attempted, {}, {}, Dropped(seen, first, guesses))
              /\ attempted' = attempted \cup (first \ attempted) \cup guesses
              /\ made' = made \cup guesses
    BY <1>2
  <1> DEFINE fresh == first \ attempted
  <1>4. PICK guesses \in Cut(Made \ (attempted \cup fresh), Budget - Cardinality(fresh)) :
              /\ LookUp(fresh \cup guesses, fresh, {}, {}, Dropped(seen, first, guesses))
              /\ attempted' = attempted \cup fresh \cup guesses
              /\ made' = made \cup guesses
    BY <1>3
  <1>5. seen \in SUBSET Names /\ first \subseteq seen /\ guesses \subseteq Made \ (attempted \cup fresh)
    BY <1>1, <1>2, <1>3, <1>4, CutType
  <1>6. fresh \in SUBSET Names /\ guesses \in SUBSET Names /\ fresh \cap guesses = {}
    BY <1>1, <1>5
  <1>7. Cardinality(first) <= Budget \/ first = {}
    <2>1. Budget \in Int
      BY BudgetType
    <2>2. (Budget <= 0 => first = {}) /\ (Budget >= 0 => Cardinality(first) <= Budget)
      BY <1>3, <1>5, <2>1, CutSize
    <2> QED
      BY <2>1, <2>2
  <1>8. Budget \in Int /\ Budget <= Limit.candidates - Cardinality(Found)
        /\ Limit.candidates - Cardinality(Found) \in Int
    BY BudgetType, LimitType
  <1>9. Cardinality(fresh) <= Budget \/ fresh = {}
    <2>1. CASE first = {}
      BY <2>1
    <2>2. CASE Cardinality(first) <= Budget
      <3>1. first \in SUBSET Names /\ fresh \in SUBSET first
        BY <1>5
      <3>2. Cardinality(fresh) <= Cardinality(first) /\ Cardinality(first) \in Nat /\ Cardinality(fresh) \in Nat
        BY <3>1, SubsetSmaller, SubsetFinite
      <3> QED
        BY <1>8, <2>2, <3>2
    <2> QED
      BY <1>7, <2>1, <2>2
  <1> HIDE DEF fresh
  <1>10. Cardinality(fresh) \in Nat /\ Cardinality(guesses) \in Nat /\ Cardinality(fresh \cup guesses) \in Nat
         /\ Cardinality(fresh \cup guesses) = Cardinality(fresh) + Cardinality(guesses)
         /\ (fresh = {} => Cardinality(fresh) = 0)
    BY <1>6, SubsetFinite, DisjointSum, FS_EmptySet
  <1>11. Budget - Cardinality(fresh) \in Int /\ Made \ (attempted \cup fresh) \in SUBSET Names
    BY <1>1, <1>8, <1>10
  <1>12. /\ Budget - Cardinality(fresh) <= 0 => guesses = {}
         /\ Budget - Cardinality(fresh) >= 0 => Cardinality(guesses) <= Budget - Cardinality(fresh)
    BY <1>4, <1>11, CutSize
  <1>13. Cardinality(fresh \cup guesses) <= Budget \/ fresh \cup guesses = {}
    <2>1. CASE Budget - Cardinality(fresh) >= 0
      BY <1>8, <1>10, <1>12, <2>1
    <2>2. CASE ~(Budget - Cardinality(fresh) >= 0)
      BY <1>8, <1>9, <1>10, <1>12, <2>2
    <2> QED
      BY <2>1, <2>2
  <1>14. Cardinality(fresh \cup guesses) <= Limit.candidates - Cardinality(Found) \/ fresh \cup guesses = {}
    BY <1>8, <1>10, <1>13
  <1>15. {} \in SUBSET Entries /\ Dropped(seen, first, guesses) \in BOOLEAN /\ fresh \cup guesses \in SUBSET Names
    BY <1>6 DEF Dropped
  <1> DEFINE new == {n \in fresh \cup guesses : n \in fresh \/ Verdict(n, fresh \cup guesses, {}) = "resolved"}
  <1>16. /\ ~doubted /\ ~interrupted /\ ~Dropped(seen, first, guesses)
         /\ Adds(new, fresh \cup guesses, {}, {})
    BY <1>4, <1>6, <1>14, <1>15, LookUpAll
  <1>17. new = Kept(fresh, guesses)
    BY <1>6, VerdictOf DEF Kept
  <1> HIDE DEF new
  <1>18. Kept(fresh, guesses) \subseteq fresh \cup guesses
    BY DEF Kept
  <1>19. Adds(Kept(fresh, guesses), Names, {}, {})
    BY <1>6, <1>16, <1>17, <1>18, AddsNames
  <1>20. Found' = Found \cup Kept(fresh, guesses) /\ FrontierNames' = Kept(fresh, guesses)
    <2>1. FrontierNames' = NamesOf({}) \cup Kept(fresh, guesses) /\ Found' = Found \cup Kept(fresh, guesses)
      BY <1>6, <1>15, <1>18, <1>19, AddsFound
    <2>2. NamesOf({}) = {}
      BY DEF NamesOf
    <2> QED
      BY <2>1, <2>2
  <1>21. seen = References
    BY <1>2, <1>16 DEF Observe
  <1>22. fresh = References \ attempted /\ guesses = Made \ (attempted \cup References)
    BY <1>5, <1>16, <1>21 DEF Dropped, fresh
  <1>23. named' = named \cup References
    BY <1>2, <1>21 DEF Observe
  <1>24. RoundIs(fresh, guesses)
    BY <1>4, <1>19, <1>20, <1>22, <1>23 DEF RoundIs
  <1> QED
    BY <1>6, <1>16, <1>24

(* What the providers know, and the root itself.                            *)
Passive == {n \in Names : n = Root \/ \E s \in Sources : n \in Reported[s]}

LEMMA PassiveType == Passive \in SUBSET Names
  BY DEF Passive

(* The providers that answered in full gave all they know.                  *)
LEMMA CollectAll ==
  ASSUME TypeOK, run.mode \in Modes, Collect
  PROVE  /\ attempted' \subseteq Passive
         /\ named' \subseteq named \cup Passive
         /\ Cardinality(attempted') <= Limit.candidates
         /\ spoiled' = {} => attempted' = Passive
  <1>1. PICK failed \in SUBSET Sources :
          \E unsaid \in SUBSET UNION {{<<s, n>> : n \in Reported[s]} : s \in failed} :
            PassiveSeeds(failed, Given(unsaid))
    BY DEF Collect
  <1>2. PICK unsaid \in SUBSET UNION {{<<s, n>> : n \in Reported[s]} : s \in failed} :
          PassiveSeeds(failed, Given(unsaid))
    BY <1>1
  <1> DEFINE given == Given(unsaid)
             all == UNION {given[s] : s \in Sources}
  <1>3. given \in [Sources -> SUBSET Names] /\ \A s \in Sources : given[s] \subseteq Reported[s]
    BY ReconAssumption DEF Given
  <1>4. failed = {} => \A s \in Sources : given[s] = Reported[s]
    BY ReconAssumption DEF Given
  <1>5. PassiveSeeds(failed, given)
    BY <1>2
  <1> HIDE DEF given
  <1>6. PICK seeds \in Cut(all, Least(Limit.candidates - 1, Limit.tested - 1)) :
          /\ spoiled' = failed \cup {s \in Sources : ~(given[s] \subseteq seeds)}
          /\ attempted' = seeds \cup {Root}
          /\ named' = named \cup all \cup {Root}
    BY <1>5 DEF PassiveSeeds
  <1>7. all \in SUBSET Names /\ all \cup {Root} \subseteq Passive
    <2>1. \A s \in Sources : given[s] \subseteq Names
      BY <1>3
    <2>2. \A n \in all : \E s \in Sources : n \in Reported[s]
      BY <1>3
    <2>3. \A n \in all : n \in Names
      BY <2>1
    <2>4. Root \in Names
      BY ReconAssumption
    <2> QED
      BY <2>2, <2>3, <2>4 DEF Passive
  <1>8. failed = {} => Passive \subseteq all \cup {Root}
    <2>1. failed = {} => \A s \in Sources : \A n \in Reported[s] : n \in all
      BY <1>4 DEF given
    <2> QED
      BY <2>1 DEF Passive
  <1>9. Least(Limit.candidates - 1, Limit.tested - 1) \in Int
        /\ Least(Limit.candidates - 1, Limit.tested - 1) <= Limit.candidates - 1
        /\ Least(Limit.candidates - 1, Limit.tested - 1) >= 0
    BY LimitType DEF Least
  <1> DEFINE room == Least(Limit.candidates - 1, Limit.tested - 1)
  <1>10. seeds \subseteq all /\ Cardinality(seeds) <= room
    <2> HIDE DEF all, room
    <2>1. seeds \in Cut(all, room)
      BY <1>6 DEF room
    <2>2. room \in Int /\ room >= 0
      BY <1>9 DEF room
    <2> QED
      BY <1>7, <2>1, <2>2, CutSize
  <1>11. seeds \in SUBSET Names /\ Cardinality(seeds) \in Nat /\ IsFiniteSet(seeds)
    BY <1>7, <1>10, SubsetFinite
  <1>12. Cardinality(seeds \cup {Root}) <= Cardinality(seeds) + 1
    <2>1. Cardinality(seeds \cup {Root}) = IF Root \in seeds THEN Cardinality(seeds) ELSE Cardinality(seeds) + 1
      BY <1>11, FS_AddElement
    <2> QED
      BY <1>11, <2>1
  <1>13. Cardinality(attempted') <= Limit.candidates
    <2>1. Cardinality(seeds \cup {Root}) \in Nat
      BY <1>11, SubsetFinite, ReconAssumption
    <2> QED
      BY <1>6, <1>9, <1>10, <1>11, <1>12, <2>1, LimitType
  <1>14. spoiled' = {} => attempted' = Passive
    <2>1. SUFFICES ASSUME spoiled' = {} PROVE attempted' = Passive
      OBVIOUS
    <2>2. failed = {} /\ \A s \in Sources : given[s] \subseteq seeds
      BY <1>6, <2>1
    <2>3. all \subseteq seeds
      BY <2>2
    <2> QED
      BY <1>6, <1>7, <1>8, <1>10, <2>2, <2>3
  <1> QED
    BY <1>6, <1>7, <1>10, <1>13, <1>14

-----------------------------------------------------------------------------
(* The shape of a run.                                                      *)

(* The stages after the zone transfer, when the modes ask for one.          *)
Past == {"reverse", "save", "loop", "round", "aliases", "store", "finish"}

(* What a process that resumes the run holds as tested, whether it is at a  *)
(* limit then, and the frontier it starts from.                             *)
Held == saved.attempted \cup linked
SavedCapped == Cardinality(linked) >= Limit.candidates \/ Cardinality(Held) >= Limit.tested
StoredFrontier == saved.frontier \cap linked

(* The mode of a run is one of the modes.                                   *)
ModeKnown == stage # "off" \/ linked # {} \/ Complete => run.mode \in Modes
(* What is in the catalogue was tested, what is stored of the run is in the *)
(* catalogue, and so is the frontier.                                       *)
FoundIsTested == Found \subseteq attempted
LinkedIsFound == stage # "off" => linked \subseteq Found
FrontierIsFound == FrontierNames \subseteq Found
(* Before the first look-ups the catalogue is empty, and what they are      *)
(* asked for fits in it.                                                    *)
NothingYet ==
  /\ stage \in {"collect", "initial"} => Found = {}
  /\ stage = "initial" => Cardinality(attempted) <= Limit.candidates
(* Where the loop asks whether to go on, and where the run ends, the        *)
(* process holds what a process that resumes it would.                      *)
LoopIsStored ==
  stage \in {"loop", "round", "store", "finish"} =>
    /\ Found = linked /\ attempted = Held /\ FrontierNames = StoredFrontier
    /\ round = saved.round /\ spoiled = saved.spoiled
(* A round is only begun when the loop goes on, and the run only ends when  *)
(* it does not.                                                             *)
RoundGoesOn ==
  /\ stage = "round" => LoopGoesOn
  /\ stage \in {"store", "finish"} => ~LoopGoesOn
  /\ stage \in {"round", "aliases"} => linked # {}

Shape ==
  /\ ModeKnown /\ FoundIsTested /\ LinkedIsFound /\ FrontierIsFound
  /\ NothingYet /\ LoopIsStored /\ RoundGoesOn

LEMMA ShapeInit == Init => Shape
  <1> SUFFICES ASSUME Init PROVE Shape
    OBVIOUS
  <1>1. Found = {} /\ FrontierNames = {} /\ linked = {} /\ stage = "off" /\ ~Complete
    BY DEF Init, Found, FrontierNames, NamesOf, Nothing, Complete
  <1> QED
    BY <1>1 DEF Shape, ModeKnown, FoundIsTested, LinkedIsFound, FrontierIsFound, NothingYet,
                LoopIsStored, RoundGoesOn

(* A stage that looks names up adds what it finds to what it tested.        *)
Grows == 
  /\ Found \subseteq Found' /\ Found' \subseteq Found \cup attempted'
  /\ attempted \subseteq attempted'
  /\ FrontierNames' \subseteq Found'

LEMMA ShapeByGrowth ==
  ASSUME Shape, Grows, Unchanging, stage # "off",
         stage' \in {"records", "zone", "reverse", "save", "aliases"},
         stage' = "aliases" => linked # {}
  PROVE  Shape'
  <1>1. run' = run /\ linked' = linked
    BY DEF Unchanging, database
  <1>2. ModeKnown'
    BY <1>1 DEF Shape, ModeKnown
  <1>3. FoundIsTested' /\ FrontierIsFound'
    BY DEF Shape, FoundIsTested, FrontierIsFound, Grows
  <1>4. LinkedIsFound'
    BY <1>1 DEF Shape, LinkedIsFound, Grows
  <1>5. NothingYet' /\ LoopIsStored' /\ RoundGoesOn'
    BY <1>1 DEF NothingYet, LoopIsStored, RoundGoesOn
  <1> QED
    BY <1>2, <1>3, <1>4, <1>5 DEF Shape

LEMMA FollowUpGrows ==
  ASSUME TypeOK, Shape, NEW seen \in SUBSET Names, NEW explicit, FollowUp(seen, explicit)
  PROVE  Grows
  <1>1. PICK seeds \in Cut(seen \ attempted, Budget) :
          /\ LookUp(seeds, seeds, explicit, frontier, FALSE)
          /\ attempted' = attempted \cup seeds
    BY DEF FollowUp
  <1> DEFINE short == FALSE
  <1>2. seeds \in SUBSET Names /\ frontier \in SUBSET Entries /\ short \in BOOLEAN
    BY <1>1, CutType DEF TypeOK
  <1>3. LookUp(seeds, seeds, explicit, frontier, short)
    BY <1>1
  <1> HIDE DEF short
  <1>4. PICK before : before = frontier
    OBVIOUS
  <1>5. before \in SUBSET Entries /\ LookUp(seeds, seeds, explicit, before, short)
    BY <1>2, <1>3, <1>4
  <1>6. PICK added \in SUBSET seeds :
          Found' = Found \cup added /\ FrontierNames' = NamesOf(before) \cup added
    BY <1>2, <1>5, LookUpGrows
  <1>7. FrontierNames \subseteq Found /\ Found \subseteq attempted
    BY DEF Shape, FrontierIsFound, FoundIsTested
  <1> QED
    BY <1>1, <1>6, <1>7, <1>4 DEF Grows, FrontierNames

LEMMA PivotGrows ==
  ASSUME TypeOK, Shape, NEW modes, NEW names \in SUBSET Names, NEW explicit, Pivot(modes, names, explicit)
  PROVE  Grows
  <1>1. CASE run.mode \in modes
    <2>1. PICK seen \in SUBSET names : FollowUp(seen, explicit \cap seen)
      BY <1>1 DEF Pivot
    <2>2. seen \in SUBSET Names
      OBVIOUS
    <2> QED
      BY <2>1, <2>2, FollowUpGrows
  <1>2. CASE run.mode \notin modes
    <2>1. UNCHANGED <<catalogue, frontier, attempted>>
      BY <1>2 DEF Pivot
    <2>2. Found' = Found /\ FrontierNames' = FrontierNames
      BY <2>1 DEF Found, FrontierNames
    <2> QED
      BY <2>1, <2>2 DEF Grows, Shape, FrontierIsFound
  <1> QED
    BY <1>1, <1>2

LEMMA RoundGrows ==
  ASSUME TypeOK, Shape, Round
  PROVE  Grows
  <1>1. References \subseteq Names /\ Made \subseteq Names
    BY ReconAssumption DEF TypeOK, Entries, References, Made
  <1>2. PICK seen \in SUBSET References :
          \E first \in Cut(seen, Budget) :
            LET fresh == first \ attempted IN
            \E guesses \in Cut(Made \ (attempted \cup fresh), Budget - Cardinality(fresh)) :
              /\ LookUp(fresh \cup guesses, fresh, {}, {}, Dropped(seen, first, guesses))
              /\ attempted' = attempted \cup fresh \cup guesses
    BY DEF Round
  <1>3. PICK first \in Cut(seen, Budget) :
            \E guesses \in Cut(Made \ (attempted \cup (first \ attempted)), Budget - Cardinality(first \ attempted)) :
              /\ LookUp((first \ attempted) \cup guesses, first \ attempted, {}, {}, Dropped(seen, first, guesses))
              /\ attempted' = attempted \cup (first \ attempted) \cup guesses
    BY <1>2
  <1> DEFINE fresh == first \ attempted
  <1>4. PICK guesses \in Cut(Made \ (attempted \cup fresh), Budget - Cardinality(fresh)) :
              /\ LookUp(fresh \cup guesses, fresh, {}, {}, Dropped(seen, first, guesses))
              /\ attempted' = attempted \cup fresh \cup guesses
    BY <1>3
  <1>5. first \subseteq seen /\ guesses \subseteq Made
    BY <1>3, <1>4, CutType
  <1>6. fresh \cup guesses \in SUBSET Names /\ {} \in SUBSET Entries /\ Dropped(seen, first, guesses) \in BOOLEAN
    BY <1>1, <1>2, <1>5 DEF Dropped
  <1> HIDE DEF fresh
  <1> DEFINE seeds == fresh \cup guesses
             short == Dropped(seen, first, guesses)
  <1>10. LookUp(seeds, fresh, {}, {}, short) /\ seeds \in SUBSET Names /\ short \in BOOLEAN
    BY <1>4, <1>6
  <1> HIDE DEF short, seeds
  <1>7. PICK added \in SUBSET seeds : Found' = Found \cup added /\ FrontierNames' = added
    BY <1>10, LookUpStarts
  <1>8. attempted' = attempted \cup fresh \cup guesses
    BY <1>4
  <1> QED
    BY <1>7, <1>8 DEF Grows, seeds

(* The steps, one after another.                                            *)
LEMMA ShapeLookUps ==
  ASSUME TypeOK, Shape, Initial \/ AddDNSSeeds \/ AddZoneSeeds \/ AddPTRSeeds \/ Round \/ AddCNAMESeeds
  PROVE  Shape'
  <1>1. CASE Initial
    <2>1. LookUp(attempted, attempted, {}, {}, FALSE) /\ attempted' = attempted
          /\ stage = "initial" /\ stage' = "records" /\ Unchanging
      BY <1>1 DEF Initial
    <2>2. attempted \in SUBSET Names /\ FALSE \in BOOLEAN
      BY DEF TypeOK
    <2>3. PICK added \in SUBSET attempted : Found' = Found \cup added /\ FrontierNames' = added
      BY <2>1, <2>2, LookUpStarts
    <2>5. Grows
      BY <2>1, <2>3 DEF Grows
    <2> QED
      BY <2>1, <2>5, ShapeByGrowth
  <1>2. CASE AddDNSSeeds
    <2>1. Grows
      BY <1>2, PivotGrows, ReconAssumption DEF AddDNSSeeds
    <2> QED
      BY <1>2, <2>1, ShapeByGrowth DEF AddDNSSeeds
  <1>3. CASE AddZoneSeeds
    <2>1. Grows
      BY <1>3, PivotGrows, ReconAssumption DEF AddZoneSeeds
    <2> QED
      BY <1>3, <2>1, ShapeByGrowth DEF AddZoneSeeds
  <1>4. CASE AddPTRSeeds
    <2>1. Grows
      BY <1>4, PivotGrows, ReverseType DEF AddPTRSeeds
    <2> QED
      BY <1>4, <2>1, ShapeByGrowth DEF AddPTRSeeds
  <1>5. CASE Round
    <2>1. stage = "round" /\ stage' = "aliases" /\ Unchanging /\ linked # {}
      BY <1>5 DEF Round, Shape, RoundGoesOn
    <2> QED
      BY <1>5, <2>1, RoundGrows, ShapeByGrowth
  <1>6. CASE AddCNAMESeeds
    <2> DEFINE targets == UNION {Aliases[n] : n \in Answered}
    <2>1. targets \in SUBSET Names
      BY AnsweredType, ReconAssumption
    <2>2. FollowUp(targets, {}) /\ stage = "aliases" /\ stage' = "reverse" /\ Unchanging
      BY <1>6 DEF AddCNAMESeeds
    <2> HIDE DEF targets
    <2>3. Grows
      BY <2>1, <2>2, FollowUpGrows
    <2> QED
      BY <2>2, <2>3, ShapeByGrowth
  <1> QED
    BY <1>1, <1>2, <1>3, <1>4, <1>5, <1>6

LEMMA ShapeCollect ==
  ASSUME TypeOK, Shape, Collect
  PROVE  Shape'
  <1>1. /\ catalogue' = catalogue /\ frontier' = frontier /\ run' = run /\ linked' = linked
        /\ stage = "collect" /\ stage' = "initial"
    BY DEF Collect, Unchanging, database
  <1>2. Found' = Found /\ FrontierNames' = FrontierNames /\ Limit' = Limit
    BY <1>1 DEF Found, FrontierNames, Limit
  <1>3. Found = {} /\ run.mode \in Modes
    BY <1>1 DEF Shape, NothingYet, ModeKnown
  <1>4. Cardinality(attempted') <= Limit.candidates
    BY <1>3, CollectAll
  <1>5. ModeKnown' /\ LinkedIsFound' /\ FrontierIsFound'
    BY <1>1, <1>2, <1>3 DEF Shape, ModeKnown, LinkedIsFound, FrontierIsFound
  <1>6. FoundIsTested'
    BY <1>2, <1>3 DEF FoundIsTested
  <1>7. NothingYet' /\ LoopIsStored' /\ RoundGoesOn'
    BY <1>1, <1>2, <1>3, <1>4 DEF NothingYet, LoopIsStored, RoundGoesOn
  <1> QED
    BY <1>5, <1>6, <1>7 DEF Shape

(* The process moves on with what it has: NextRound, LoopEnds.              *)
LEMMA ShapeLoop ==
  ASSUME TypeOK, Shape, NextRound \/ LoopEnds
  PROVE  Shape'
  <1>1. /\ run' = run /\ linked' = linked /\ saved' = saved /\ catalogue' = catalogue /\ frontier' = frontier
        /\ attempted' = attempted /\ round' = round /\ spoiled' = spoiled /\ stage = "loop"
    BY DEF NextRound, LoopEnds, Unchanging, memory, database
  <1>2. \/ stage' = "round" /\ LoopGoesOn
        \/ stage' = "store" /\ ~LoopGoesOn
    BY DEF NextRound, LoopEnds
  <1>3. /\ Found' = Found /\ FrontierNames' = FrontierNames /\ Held' = Held /\ StoredFrontier' = StoredFrontier
        /\ LoopGoesOn' = LoopGoesOn
    BY <1>1 DEF Found, FrontierNames, Held, StoredFrontier, LoopGoesOn, Limit
  <1>4. ModeKnown' /\ LinkedIsFound' /\ FrontierIsFound' /\ FoundIsTested'
    BY <1>1, <1>3 DEF Shape, ModeKnown, LinkedIsFound, FrontierIsFound, FoundIsTested
  <1>5. LoopIsStored' /\ NothingYet'
    BY <1>1, <1>2, <1>3 DEF Shape, LoopIsStored, NothingYet
  <1>6. LoopGoesOn => linked # {}
    <2>1. SUFFICES ASSUME LoopGoesOn PROVE linked # {}
      OBVIOUS
    <2>2. PICK e \in frontier : TRUE
      BY <2>1 DEF LoopGoesOn
    <2>3. e.name \in Found /\ Found = linked
      BY <1>1 DEF Shape, FrontierIsFound, FrontierNames, NamesOf, LoopIsStored
    <2> QED
      BY <2>3
  <1>7. RoundGoesOn'
    BY <1>1, <1>2, <1>3, <1>6 DEF RoundGoesOn
  <1> QED
    BY <1>4, <1>5, <1>7 DEF Shape

LEMMA ShapeStore ==
  ASSUME TypeOK, Shape, ReportProgress \/ SaveCandidates
  PROVE  Shape'
  <1>1. /\ run' = run /\ catalogue' = catalogue /\ frontier' = frontier /\ linked' = linked \cup Found
        /\ attempted' = attempted /\ round' = round /\ spoiled' = spoiled /\ stage # "off"
    BY DEF ReportProgress, SaveCandidates, StoreNames, memory
  <1>2. Found' = Found /\ FrontierNames' = FrontierNames /\ LoopGoesOn' = LoopGoesOn
    BY <1>1 DEF Found, FrontierNames, LoopGoesOn, Limit
  <1>3. linked' = Found
    BY <1>1 DEF Shape, LinkedIsFound
  <1>4. ModeKnown' /\ LinkedIsFound' /\ FrontierIsFound' /\ FoundIsTested'
    BY <1>1, <1>2, <1>3 DEF Shape, ModeKnown, LinkedIsFound, FrontierIsFound, FoundIsTested
  <1>5. CASE ReportProgress
    <2>1. /\ stage' = "loop"
          /\ saved' = [round |-> round, frontier |-> {e.name : e \in frontier},
                       attempted |-> attempted, spoiled |-> spoiled]
      BY <1>5 DEF ReportProgress
    <2>2. saved'.round = round /\ saved'.frontier = FrontierNames /\ saved'.attempted = attempted
          /\ saved'.spoiled = spoiled
      BY <2>1 DEF FrontierNames, NamesOf
    <2>3. Held' = attempted /\ StoredFrontier' = FrontierNames
      BY <1>3, <2>2 DEF Held, StoredFrontier, Shape, FoundIsTested, FrontierIsFound
    <2>4. LoopIsStored' /\ NothingYet' /\ RoundGoesOn'
      BY <1>1, <1>2, <1>3, <2>1, <2>2, <2>3 DEF LoopIsStored, NothingYet, RoundGoesOn
    <2> QED
      BY <1>4, <2>4 DEF Shape
  <1>6. CASE SaveCandidates
    <2>1. stage = "store" /\ stage' = "finish" /\ saved' = saved
      BY <1>6 DEF SaveCandidates
    <2>2. linked' = linked
      BY <1>3, <2>1 DEF Shape, LoopIsStored
    <2>3. Held' = Held /\ StoredFrontier' = StoredFrontier
      BY <2>1, <2>2 DEF Held, StoredFrontier
    <2>4. LoopIsStored' /\ NothingYet' /\ RoundGoesOn'
      BY <1>1, <1>2, <2>1, <2>2, <2>3 DEF Shape, LoopIsStored, NothingYet, RoundGoesOn
    <2> QED
      BY <1>4, <2>4 DEF Shape
  <1> QED
    BY <1>5, <1>6

LEMMA ExitFound ==
  ASSUME Exit
  PROVE  Found' = {} /\ FrontierNames' = {} /\ attempted' = {} /\ stage' = "off"
  BY DEF Exit, Found, FrontierNames, NamesOf, Nothing

LEMMA ShapeExit ==
  ASSUME Shape, Exit, linked' = linked, run'.mode = run.mode, stage # "off"
  PROVE  Shape'
  BY ExitFound DEF Shape, ModeKnown, FoundIsTested, LinkedIsFound, FrontierIsFound, NothingYet,
                   LoopIsStored, RoundGoesOn

LEMMA ShapeLaunch ==
  ASSUME TypeOK, Shape, NEW mode \in Modes, NEW resume \in BOOLEAN, Launch(mode, resume)
  PROVE  Shape'
  <1>1. CASE UNCHANGED <<run, saved, linked>> /\ linked # {} /\ ResumeFrom(saved) /\ run.mode = mode
    <2>1. /\ catalogue' = [n \in Names |-> IF n \in linked THEN row[n] ELSE "none"]
          /\ frontier' = {[name |-> n, verdict |-> row[n]] : n \in saved.frontier \cap linked}
          /\ attempted' = saved.attempted \cup linked
          /\ round' = saved.round /\ spoiled' = saved.spoiled /\ stage' = "loop"
      BY <1>1 DEF ResumeFrom
    <2>2. Found' = linked
      BY <2>1 DEF Found, TypeOK, Stored
    <2>3. FrontierNames' = StoredFrontier
      <3>1. \A n \in StoredFrontier : [name |-> n, verdict |-> row[n]].name = n
        OBVIOUS
      <3> QED
        BY <2>1, <3>1 DEF FrontierNames, NamesOf, StoredFrontier
    <2>4. Held' = Held /\ StoredFrontier' = StoredFrontier /\ attempted' = Held
      BY <1>1, <2>1 DEF Held, StoredFrontier
    <2> QED
      BY <1>1, <2>1, <2>2, <2>3, <2>4 DEF Shape, ModeKnown, FoundIsTested, LinkedIsFound, FrontierIsFound,
         NothingYet, LoopIsStored, RoundGoesOn, StoredFrontier, Held
  <1>2. CASE FromNothing /\ linked' = {} /\ run'.mode = mode
    <2>1. Found' = {} /\ FrontierNames' = {} /\ stage' = "collect"
      BY <1>2 DEF FromNothing, Found, FrontierNames, NamesOf, Nothing
    <2> QED
      BY <1>2, <2>1 DEF Shape, ModeKnown, FoundIsTested, LinkedIsFound, FrontierIsFound, NothingYet,
         LoopIsStored, RoundGoesOn
  <1> QED
    BY <1>1, <1>2 DEF Launch, NewRun

LEMMA ShapeQuiet ==
  ASSUME Shape, Interrupt \/ UNCHANGED vars
  PROVE  Shape'
  <1>1. UNCHANGED <<run, saved, linked, stage, catalogue, frontier, attempted, round, spoiled>>
    BY DEF Interrupt, vars, database, memory
  <1>2. Found' = Found /\ FrontierNames' = FrontierNames /\ Held' = Held /\ StoredFrontier' = StoredFrontier
        /\ LoopGoesOn' = LoopGoesOn /\ Complete' = Complete /\ Limit' = Limit
    BY <1>1 DEF Found, FrontierNames, Held, StoredFrontier, LoopGoesOn, Complete, Limit
  <1> QED
    BY <1>1, <1>2 DEF Shape, ModeKnown, FoundIsTested, LinkedIsFound, FrontierIsFound, NothingYet,
       LoopIsStored, RoundGoesOn

-----------------------------------------------------------------------------
(* What is stored of the names.                                             *)

(* What the network of a run in this mode shows of a name.                  *)
Truth(mode, n) == Verdict(n, Names, Cleared(mode))

(* When nobody doubts the answers, the catalogue has the verdicts of the    *)
(* network, from the zone transfer on those it cleared.                     *)
CatalogueTrue ==
  ~doubted =>
    /\ stage \in {"records", "zone"} => \A n \in Found : catalogue[n] = Verdict(n, Names, {})
    /\ stage \in Past => \A n \in Found : catalogue[n] = Truth(run.mode, n)
(* So have the rows that are stored.                                        *)
StoredTrue == ~doubted => \A n \in linked : row[n] = Truth(run.mode, n)
(* A run that is not at a limit has tested the whole zone, which is why no  *)
(* pivot can add a name of the zone that the transfer did not clear.        *)
ZoneTested ==
  ~doubted =>
    /\ stage \in Past => Capped \/ Cleared(run.mode) \subseteq attempted
    /\ linked # {} => SavedCapped \/ Cleared(run.mode) \subseteq Held
(* The frontier may keep the verdict a name had before the zone cleared it. *)
FrontierTrue ==
  ~doubted => \A e \in frontier : e.verdict \in {Truth(run.mode, e.name), Verdict(e.name, Names, {})}

Rows == CatalogueTrue /\ StoredTrue /\ ZoneTested /\ FrontierTrue /\ RowsAreTrue

LEMMA RowsInit == Init => Rows
  BY DEF Init, Rows, CatalogueTrue, StoredTrue, ZoneTested, FrontierTrue, RowsAreTrue, Complete, Past

LEMMA ClearedType == \A mode : Cleared(mode) \in SUBSET Zone
  BY DEF Cleared

(* Names that are added outside the zone transfer are not names of the zone.*)
LEMMA TruthOutside ==
  ASSUME NEW mode, NEW n \in Names, n \notin Cleared(mode)
  PROVE  Verdict(n, Names, {}) = Truth(mode, n)
  BY DEF Truth, Verdict

(* The verdicts of the two worlds differ in the wildcards of the zone.      *)
LEMMA TruthCleared ==
  ASSUME NEW mode, NEW n \in Cleared(mode), n \in Names, Verdict(n, Names, {}) = "wildcard"
  PROVE  Truth(mode, n) = "resolved"
  BY DEF Truth, Verdict

LEMMA TruthSame ==
  ASSUME NEW mode, NEW n \in Names, Verdict(n, Names, {}) # "wildcard"
  PROVE  Truth(mode, n) = Verdict(n, Names, {})
  BY DEF Truth, Verdict

(* Each name that is added enters the frontier with the verdict it has in   *)
(* the catalogue, the others keep theirs unless the zone clears them.       *)
LEMMA AddsVerdicts ==
  ASSUME TypeOK, NEW added \in SUBSET Names, NEW explicit \in SUBSET Names, NEW before \in SUBSET Entries,
         Adds(added, Names, explicit, before)
  PROVE  /\ \A n \in added : catalogue'[n] = Verdict(n, Names, explicit)
         /\ \A n \in Names \ added : catalogue'[n] = Unflagged(n, explicit)
         /\ \A e \in frontier' : e \in before \/ e.verdict = Verdict(e.name, Names, explicit)
  <1>1. catalogue' = [n \in Names |-> IF n \in added THEN Verdict(n, Names, explicit) ELSE Unflagged(n, explicit)]
    BY DEF Adds
  <1>2. frontier' = before \cup {[name |-> n, verdict |-> Verdict(n, Names, explicit)] : n \in added}
    BY DEF Adds
  <1>3. \A n \in added : /\ [name |-> n, verdict |-> Verdict(n, Names, explicit)].name = n
                         /\ [name |-> n, verdict |-> Verdict(n, Names, explicit)].verdict = Verdict(n, Names, explicit)
    OBVIOUS
  <1>4. \A e \in frontier' : e \in before \/ e.verdict = Verdict(e.name, Names, explicit)
    BY <1>2, <1>3
  <1> QED
    BY <1>1, <1>4

(* A limit that is reached stays reached.                                   *)
LEMMA CappedStays ==
  ASSUME TypeOK, TypeOK', run.mode \in Modes, run'.mode = run.mode,
         Found \subseteq Found', attempted \subseteq attempted', Capped
  PROVE  Capped'
  <1>1. Found' \in SUBSET Names /\ attempted' \in SUBSET Names
    BY DEF Found, TypeOK
  <1>2. Cardinality(Found) <= Cardinality(Found') /\ Cardinality(attempted) <= Cardinality(attempted')
    BY <1>1, SubsetSmaller
  <1>3. Cardinality(Found) \in Nat /\ Cardinality(attempted) \in Nat
        /\ Cardinality(Found') \in Nat /\ Cardinality(attempted') \in Nat
    <2>1. Found \in SUBSET Names /\ attempted \in SUBSET Names
      BY DEF Found, TypeOK
    <2> QED
      BY <1>1, <2>1, SubsetFinite
  <1>4. Limit' = Limit /\ Limit.candidates \in Nat /\ Limit.tested \in Nat
    BY LimitType DEF Limit
  <1> QED
    BY <1>2, <1>3, <1>4 DEF Capped

(* A follow-up of names outside the zone, after the zone was asked.         *)
LEMMA RowsFollow ==
  ASSUME TypeOK, TypeOK', Shape, Rows, run.mode \in Modes, Unchanging, ~doubted, stage \in {"reverse", "aliases"},
         NEW seeds \in SUBSET Names, NEW seen, Follows(seeds, seen, {}), stage' \in {"reverse", "save"}
  PROVE  Rows'
  <1>1. /\ run' = run /\ linked' = linked /\ saved' = saved /\ row' = row /\ active' = active
    BY DEF Unchanging, database
  <1>2. /\ seeds \cap attempted = {} /\ attempted' = attempted \cup seeds
        /\ Adds(seeds, Names, {}, frontier) /\ Found' = Found \cup seeds /\ (Capped => seeds = {})
    BY DEF Follows
  <1>3. \A n \in Found : catalogue[n] = Truth(run.mode, n)
    BY DEF Rows, CatalogueTrue, Past
  <1>4. Capped \/ Cleared(run.mode) \subseteq attempted
    BY DEF Rows, ZoneTested, Past
  <1>5. \A n \in seeds : Verdict(n, Names, {}) = Truth(run.mode, n)
    BY <1>2, <1>4, TruthOutside
  <1>6. frontier \in SUBSET Entries /\ Found \subseteq Names /\ {} \in SUBSET Names
    BY FoundType DEF TypeOK
  <1>7. /\ \A n \in seeds : catalogue'[n] = Verdict(n, Names, {})
        /\ \A n \in Names \ seeds : catalogue'[n] = Unflagged(n, {})
        /\ \A e \in frontier' : e \in frontier \/ e.verdict = Verdict(e.name, Names, {})
    BY <1>2, <1>6, AddsVerdicts
  <1>8. \A n \in Found' : catalogue'[n] = Truth(run.mode, n)
    BY <1>2, <1>3, <1>5, <1>6, <1>7 DEF Unflagged
  <1>9. CatalogueTrue'
    BY <1>1, <1>8 DEF CatalogueTrue
  <1>10. StoredTrue' /\ RowsAreTrue'
    BY <1>1 DEF Rows, StoredTrue, RowsAreTrue, Complete
  <1>11. Capped => Capped'
    BY <1>1, <1>2, CappedStays
  <1>12. ZoneTested'
    <2>1. SavedCapped' = SavedCapped /\ Held' = Held
      BY <1>1 DEF SavedCapped, Held, Limit
    <2> QED
      BY <1>1, <1>2, <1>4, <1>11, <2>1 DEF Rows, ZoneTested
  <1>13. FrontierTrue'
    BY <1>1, <1>7 DEF Rows, FrontierTrue
  <1> QED
    BY <1>9, <1>10, <1>12, <1>13 DEF Rows

(* The memory changes before there is anything to check in it.              *)
LEMMA RowsCollect ==
  ASSUME Shape, Rows, Collect
  PROVE  Rows'
  <1>1. /\ run' = run /\ linked' = linked /\ saved' = saved /\ row' = row /\ active' = active
        /\ doubted' = doubted /\ frontier' = frontier /\ stage' = "initial"
    BY DEF Collect, Unchanging, database
  <1>2. SavedCapped' = SavedCapped /\ Held' = Held
    BY <1>1 DEF SavedCapped, Held, Limit
  <1> QED
    BY <1>1, <1>2 DEF Rows, CatalogueTrue, StoredTrue, ZoneTested, FrontierTrue, RowsAreTrue, Complete, Past

(* What the first look-ups give, when nobody doubts them.                   *)
LEMMA InitialAll ==
  ASSUME TypeOK, Shape, Initial, ~doubted'
  PROVE  /\ ~doubted /\ Adds(attempted, Names, {}, {})
         /\ Found' = attempted /\ FrontierNames' = attempted /\ attempted' = attempted
  <1>1. LookUp(attempted, attempted, {}, {}, FALSE) /\ attempted' = attempted /\ stage = "initial"
    BY DEF Initial
  <1>2. attempted \in SUBSET Names /\ FALSE \in BOOLEAN /\ run.mode \in Modes /\ Found = {}
        /\ Cardinality(attempted) <= Limit.candidates
    BY <1>1 DEF TypeOK, Shape, NothingYet, ModeKnown
  <1>3. Cardinality(attempted) <= Limit.candidates - Cardinality(Found)
    <2>1. Cardinality(Found) = 0
      BY <1>2, FS_EmptySet
    <2> QED
      BY <1>2, <2>1, LimitType
  <1> DEFINE before == {}
  <1>4. before \in SUBSET Entries /\ NamesOf(before) = {}
    BY DEF NamesOf
  <1>5. LookUp(attempted, attempted, {}, before, FALSE)
    BY <1>1
  <1> HIDE DEF before
  <1>6. /\ ~doubted
        /\ Adds({n \in attempted : n \in attempted \/ Verdict(n, attempted, {}) = "resolved"}, attempted, {}, before)
    BY <1>2, <1>3, <1>4, <1>5, LookUpAll
  <1>7. {n \in attempted : n \in attempted \/ Verdict(n, attempted, {}) = "resolved"} = attempted
    OBVIOUS
  <1>8. Adds(attempted, attempted, {}, before)
    BY <1>6, <1>7
  <1>9. Adds(attempted, Names, {}, before)
    BY <1>2, <1>8, AddsNames
  <1>10. Found' = Found \cup attempted /\ FrontierNames' = NamesOf(before) \cup attempted
    BY <1>2, <1>4, <1>9, AddsFound
  <1> QED
    BY <1>1, <1>2, <1>4, <1>6, <1>9, <1>10 DEF before

(* A doubt, once there, stays.                                              *)
LEMMA RowsUndoubted ==
  ASSUME doubted'
  PROVE  Rows'
  BY DEF Rows, CatalogueTrue, StoredTrue, ZoneTested, FrontierTrue, RowsAreTrue

LEMMA RowsInitial ==
  ASSUME TypeOK, TypeOK', Shape, Rows, Initial, ~doubted', linked = {}
  PROVE  Rows'
  <1>1. /\ run' = run /\ linked' = linked /\ saved' = saved /\ row' = row /\ active' = active
        /\ stage' = "records"
    BY DEF Initial, Unchanging, database
  <1>2. ~doubted /\ Adds(attempted, Names, {}, {}) /\ Found' = attempted
    BY InitialAll
  <1> DEFINE before == {}
             explicit == {}
  <1>3. Adds(attempted, Names, explicit, before) /\ before \in SUBSET Entries /\ explicit \in SUBSET Names
        /\ attempted \in SUBSET Names
    BY <1>2 DEF TypeOK
  <1>4. \A e : e \notin before
    OBVIOUS
  <1> HIDE DEF before
  <1>5. /\ \A n \in attempted : catalogue'[n] = Verdict(n, Names, explicit)
        /\ \A e \in frontier' : e \in before \/ e.verdict = Verdict(e.name, Names, explicit)
    BY <1>3, AddsVerdicts
  <1>6. CatalogueTrue' /\ FrontierTrue'
    BY <1>1, <1>2, <1>4, <1>5 DEF CatalogueTrue, FrontierTrue, Past
  <1>7. StoredTrue' /\ RowsAreTrue' /\ ZoneTested'
    BY <1>1, <1>2 DEF Rows, StoredTrue, RowsAreTrue, Complete, ZoneTested, Past
  <1> QED
    BY <1>6, <1>7 DEF Rows

(* A look-up of records changes no verdict.                                 *)
LEMMA RowsRecords ==
  ASSUME TypeOK, TypeOK', Shape, Rows, AddDNSSeeds, ~doubted', linked = {}
  PROVE  Rows'
  <1>1. /\ run' = run /\ linked' = linked /\ saved' = saved /\ row' = row /\ active' = active
        /\ stage = "records" /\ stage' = "zone"
    BY DEF AddDNSSeeds, Unchanging, database
  <1>2. run.mode \in Modes /\ Found \subseteq attempted
    BY <1>1 DEF Shape, ModeKnown, FoundIsTested
  <1> DEFINE explicit == {}
  <1>3. Pivot({"standard", "exhaustive"}, Records, explicit) /\ explicit \in SUBSET Records /\ Records \in SUBSET Names
    BY ReconAssumption DEF AddDNSSeeds
  <1>4. \A n : n \notin explicit
    OBVIOUS
  <1>5. explicit = {}
    OBVIOUS
  <1> HIDE DEF explicit
  <1>6. /\ ~doubted
        /\ \/ \E seeds \in SUBSET Names : Follows(seeds, Records, explicit)
           \/ catalogue' = catalogue /\ frontier' = frontier /\ Found' = Found
    BY <1>1, <1>2, <1>3, PivotAll
  <1>7. \A n \in Found : catalogue[n] = Verdict(n, Names, {})
    BY <1>1, <1>6 DEF Rows, CatalogueTrue
  <1>8. /\ \A n \in Found' : catalogue'[n] = Verdict(n, Names, {})
        /\ \A e \in frontier' : e \in frontier \/ e.verdict = Verdict(e.name, Names, {})
    <2>1. CASE catalogue' = catalogue /\ frontier' = frontier /\ Found' = Found
      BY <1>7, <2>1
    <2>2. ASSUME NEW seeds \in SUBSET Names, Follows(seeds, Records, explicit)
          PROVE  /\ \A n \in Found' : catalogue'[n] = Verdict(n, Names, {})
                 /\ \A e \in frontier' : e \in frontier \/ e.verdict = Verdict(e.name, Names, {})
      <3>1. Adds(seeds, Names, explicit, frontier) /\ Found' = Found \cup seeds
        BY <2>2 DEF Follows
      <3>2. frontier \in SUBSET Entries /\ explicit \in SUBSET Names /\ Found \subseteq Names
        BY <1>3, FoundType DEF TypeOK
      <3>3. /\ \A n \in seeds : catalogue'[n] = Verdict(n, Names, explicit)
            /\ \A n \in Names \ seeds : catalogue'[n] = Unflagged(n, explicit)
            /\ \A e \in frontier' : e \in frontier \/ e.verdict = Verdict(e.name, Names, explicit)
        BY <3>1, <3>2, AddsVerdicts
      <3> QED
        BY <1>4, <1>5, <1>7, <3>1, <3>2, <3>3 DEF Unflagged
    <2> QED
      BY <1>6, <2>1, <2>2
  <1>9. CatalogueTrue' /\ FrontierTrue'
    BY <1>1, <1>6, <1>8 DEF Rows, CatalogueTrue, FrontierTrue, Past
  <1>10. StoredTrue' /\ RowsAreTrue' /\ ZoneTested'
    BY <1>1, <1>6 DEF Rows, StoredTrue, RowsAreTrue, Complete, ZoneTested, Past
  <1> QED
    BY <1>9, <1>10 DEF Rows

(* The zone transfer clears the names that it gives, found before or not.   *)
LEMMA RowsZone ==
  ASSUME TypeOK, TypeOK', Shape, Rows, AddZoneSeeds, ~doubted', linked = {}
  PROVE  Rows'
  <1>1. /\ run' = run /\ linked' = linked /\ saved' = saved /\ row' = row /\ active' = active
        /\ stage = "zone" /\ stage' = "reverse"
    BY DEF AddZoneSeeds, Unchanging, database
  <1>2. run.mode \in Modes /\ Found \subseteq attempted
    BY <1>1 DEF Shape, ModeKnown, FoundIsTested
  <1>3. Pivot({"exhaustive"}, Zone, Zone) /\ Zone \in SUBSET Names
    BY ReconAssumption DEF AddZoneSeeds
  <1>4. /\ ~doubted
        /\ run.mode = "exhaustive" => \E seeds \in SUBSET Names : Follows(seeds, Zone, Zone)
        /\ run.mode # "exhaustive" => catalogue' = catalogue /\ frontier' = frontier /\ Found' = Found
    BY <1>1, <1>2, <1>3, PivotAll
  <1>5. \A n \in Found : catalogue[n] = Verdict(n, Names, {})
    BY <1>1, <1>4 DEF Rows, CatalogueTrue
  <1>6. Found \subseteq Names
    BY FoundType
  <1>7. /\ \A n \in Found' : catalogue'[n] = Truth(run.mode, n)
        /\ \A e \in frontier' : e \in frontier \/ e.verdict = Truth(run.mode, e.name)
        /\ Capped' \/ Cleared(run.mode) \subseteq attempted'
    <2>1. CASE run.mode # "exhaustive"
      <3>1. Cleared(run.mode) = {}
        BY <2>1 DEF Cleared
      <3> QED
        BY <1>4, <1>5, <1>6, <2>1, <3>1, TruthOutside
    <2>2. CASE run.mode = "exhaustive"
      <3>1. Cleared(run.mode) = Zone
        BY <2>2 DEF Cleared
      <3>2. PICK seeds \in SUBSET Names : Follows(seeds, Zone, Zone)
        BY <1>4, <2>2
      <3>3. /\ Adds(seeds, Names, Zone, frontier) /\ Found' = Found \cup seeds
            /\ attempted' = attempted \cup seeds /\ (seeds = Zone \ attempted \/ Capped')
        BY <3>2 DEF Follows
      <3>4. frontier \in SUBSET Entries
        BY DEF TypeOK
      <3>5. /\ \A n \in seeds : catalogue'[n] = Verdict(n, Names, Zone)
            /\ \A n \in Names \ seeds : catalogue'[n] = Unflagged(n, Zone)
            /\ \A e \in frontier' : e \in frontier \/ e.verdict = Verdict(e.name, Names, Zone)
        BY <1>3, <3>3, <3>4, AddsVerdicts
      <3>6. \A n : Truth(run.mode, n) = Verdict(n, Names, Zone)
        BY <3>1 DEF Truth
      <3>7. \A n \in Found : Unflagged(n, Zone) = Truth(run.mode, n)
        <4>1. SUFFICES ASSUME NEW n \in Found PROVE Unflagged(n, Zone) = Truth(run.mode, n)
          OBVIOUS
        <4>2. CASE n \in Zone /\ catalogue[n] = "wildcard"
          BY <1>5, <1>6, <3>1, <4>2, TruthCleared DEF Unflagged
        <4>3. CASE n \notin Zone
          BY <1>5, <1>6, <3>1, <4>3, TruthOutside DEF Unflagged
        <4>4. CASE catalogue[n] # "wildcard"
          BY <1>5, <1>6, <4>4, TruthSame DEF Unflagged
        <4> QED
          BY <4>2, <4>3, <4>4
      <3> QED
        BY <1>6, <3>1, <3>3, <3>5, <3>6, <3>7
    <2> QED
      BY <2>1, <2>2
  <1>8. CatalogueTrue' /\ FrontierTrue'
    BY <1>1, <1>4, <1>7 DEF Rows, CatalogueTrue, FrontierTrue, Past
  <1>9. StoredTrue' /\ RowsAreTrue' /\ ZoneTested'
    BY <1>1, <1>4, <1>7 DEF Rows, StoredTrue, RowsAreTrue, Complete, ZoneTested, Past
  <1> QED
    BY <1>8, <1>9 DEF Rows

LEMMA RowsPTR ==
  ASSUME TypeOK, TypeOK', Shape, Rows, AddPTRSeeds, ~doubted'
  PROVE  Rows'
  <1>1. stage = "reverse" /\ stage' = "save" /\ Unchanging /\ run' = run
    BY DEF AddPTRSeeds, Unchanging, database
  <1>2. run.mode \in Modes /\ Found \subseteq attempted
    BY <1>1 DEF Shape, ModeKnown, FoundIsTested
  <1> DEFINE explicit == {}
  <1>3. Pivot({"standard", "exhaustive"}, ReverseNames, explicit) /\ explicit \in SUBSET ReverseNames
        /\ ReverseNames \in SUBSET Names
    BY ReverseType DEF AddPTRSeeds
  <1>4. explicit = {}
    OBVIOUS
  <1> HIDE DEF explicit
  <1>5. /\ ~doubted
        /\ \/ \E seeds \in SUBSET Names : Follows(seeds, ReverseNames, explicit)
           \/ catalogue' = catalogue /\ frontier' = frontier /\ Found' = Found /\ attempted' = attempted
    BY <1>1, <1>2, <1>3, PivotAll
  <1>6. CASE \E seeds \in SUBSET Names : Follows(seeds, ReverseNames, explicit)
    BY <1>1, <1>2, <1>4, <1>5, <1>6, RowsFollow
  <1>7. CASE catalogue' = catalogue /\ frontier' = frontier /\ Found' = Found /\ attempted' = attempted
    <2>1. /\ linked' = linked /\ saved' = saved /\ row' = row /\ active' = active
      BY <1>1 DEF Unchanging, database
    <2>2. SavedCapped' = SavedCapped /\ Held' = Held /\ Capped' = Capped
      BY <1>1, <1>7, <2>1 DEF SavedCapped, Held, Limit, Capped
    <2> QED
      BY <1>1, <1>5, <1>7, <2>1, <2>2
         DEF Rows, CatalogueTrue, StoredTrue, ZoneTested, FrontierTrue, RowsAreTrue, Complete, Past
  <1> QED
    BY <1>5, <1>6, <1>7

(* What follows the aliases of the frontier, when nobody doubts it.         *)
AliasTargets == UNION {Aliases[n] : n \in Answered}

LEMMA AliasesAll ==
  ASSUME TypeOK, Shape, AddCNAMESeeds, ~doubted'
  PROVE  ~doubted /\ named' = named \cup AliasTargets /\ \E seeds \in SUBSET Names : Follows(seeds, AliasTargets, {})
  <1>1. AliasTargets \in SUBSET Names
    BY AnsweredType, ReconAssumption DEF AliasTargets
  <1>2. named' = named \cup AliasTargets /\ FollowUp(AliasTargets, {}) /\ stage = "aliases" /\ run' = run
    BY DEF AddCNAMESeeds, AliasTargets, Unchanging, database
  <1>3. run.mode \in Modes /\ Found \subseteq attempted
    BY <1>2 DEF Shape, ModeKnown, FoundIsTested
  <1> QED
    BY <1>1, <1>2, <1>3, FollowUpAll

LEMMA RowsAliases ==
  ASSUME TypeOK, TypeOK', Shape, Rows, AddCNAMESeeds, ~doubted'
  PROVE  Rows'
  <1>1. stage = "aliases" /\ stage' = "reverse" /\ Unchanging /\ run.mode \in Modes
    BY DEF AddCNAMESeeds, Shape, ModeKnown
  <1> QED
    BY <1>1, AliasesAll, RowsFollow

LEMMA RowsRound ==
  ASSUME TypeOK, TypeOK', Shape, Rows, Round, ~doubted'
  PROVE  Rows'
  <1>1. /\ run' = run /\ linked' = linked /\ saved' = saved /\ row' = row /\ active' = active
        /\ stage = "round" /\ stage' = "aliases" /\ run.mode \in Modes
    BY DEF Round, Unchanging, database, Shape, ModeKnown
  <1>2. Found \subseteq attempted /\ ~Capped
    <2>1. LoopGoesOn
      BY <1>1 DEF Shape, RoundGoesOn
    <2>2. Cardinality(Found) \in Nat /\ Cardinality(attempted) \in Nat
      BY <1>1, BudgetType
    <2> QED
      BY <1>1, <2>1, <2>2, LimitType DEF Shape, FoundIsTested, Capped, LoopGoesOn
  <1>3. ~doubted /\ \E fresh, guesses \in SUBSET Names : RoundIs(fresh, guesses)
    BY <1>1, <1>2, RoundAll
  <1>4. PICK fresh \in SUBSET Names, guesses \in SUBSET Names : RoundIs(fresh, guesses)
    BY <1>3
  <1> DEFINE new == Kept(fresh, guesses)
             none == {}
  <1>5. /\ Adds(new, Names, none, none) /\ Found' = Found \cup new
        /\ attempted' = attempted \cup fresh \cup guesses
        /\ new \in SUBSET Names /\ new \cap attempted = {}
    BY <1>4 DEF RoundIs, Kept
  <1>6. none \in SUBSET Entries /\ none \in SUBSET Names /\ Found \subseteq Names /\ \A e : e \notin none
    BY FoundType
  <1> HIDE DEF new
  <1>7. /\ \A n \in new : catalogue'[n] = Verdict(n, Names, {})
        /\ \A n \in Names \ new : catalogue'[n] = Unflagged(n, {})
        /\ \A e \in frontier' : e.verdict = Verdict(e.name, Names, {})
    <2>1. none = {}
      OBVIOUS
    <2> HIDE DEF none
    <2>2. /\ \A n \in new : catalogue'[n] = Verdict(n, Names, none)
          /\ \A n \in Names \ new : catalogue'[n] = Unflagged(n, none)
          /\ \A e \in frontier' : e \in none \/ e.verdict = Verdict(e.name, Names, none)
      BY <1>5, <1>6, AddsVerdicts
    <2> QED
      BY <1>6, <2>1, <2>2
  <1>8. Cleared(run.mode) \subseteq attempted
    BY <1>1, <1>2, <1>3 DEF Rows, ZoneTested, Past
  <1>9. \A n \in new : Verdict(n, Names, {}) = Truth(run.mode, n)
    BY <1>5, <1>8, TruthOutside
  <1>10. \A n \in Found : catalogue[n] = Truth(run.mode, n)
    BY <1>1, <1>3 DEF Rows, CatalogueTrue, Past
  <1>11. \A n \in Found' : catalogue'[n] = Truth(run.mode, n)
    BY <1>5, <1>6, <1>7, <1>9, <1>10 DEF Unflagged
  <1>12. CatalogueTrue' /\ FrontierTrue'
    BY <1>1, <1>3, <1>7, <1>11 DEF CatalogueTrue, FrontierTrue, Past
  <1>13. SavedCapped' = SavedCapped /\ Held' = Held
    BY <1>1 DEF SavedCapped, Held, Limit
  <1>14. StoredTrue' /\ RowsAreTrue' /\ ZoneTested'
    BY <1>1, <1>3, <1>5, <1>8, <1>13 DEF Rows, StoredTrue, RowsAreTrue, Complete, ZoneTested, Past
  <1> QED
    BY <1>12, <1>14 DEF Rows

LEMMA RowsLoop ==
  ASSUME Rows, NextRound \/ LoopEnds
  PROVE  Rows'
  <1>1. /\ run' = run /\ linked' = linked /\ saved' = saved /\ row' = row /\ active' = active
        /\ catalogue' = catalogue /\ frontier' = frontier /\ attempted' = attempted /\ doubted' = doubted
        /\ stage = "loop" /\ stage' \in {"round", "store"}
    BY DEF NextRound, LoopEnds, Unchanging, memory, history, database
  <1>2. SavedCapped' = SavedCapped /\ Held' = Held /\ Capped' = Capped /\ Found' = Found
    BY <1>1 DEF SavedCapped, Held, Limit, Capped, Found
  <1> QED
    BY <1>1, <1>2 DEF Rows, CatalogueTrue, StoredTrue, ZoneTested, FrontierTrue, RowsAreTrue, Complete, Past

(* The names are stored as they are known, and the process is as far as     *)
(* what it stored.                                                          *)
LEMMA RowsStore ==
  ASSUME TypeOK, Shape, Shape', Rows, ReportProgress \/ SaveCandidates, ~Complete
  PROVE  Rows'
  <1>1. /\ run' = run /\ catalogue' = catalogue /\ frontier' = frontier /\ attempted' = attempted
        /\ doubted' = doubted /\ stage \in {"save", "store"} /\ stage' \in {"loop", "finish"}
        /\ row' = [n \in Names |-> IF n \in Found THEN catalogue[n] ELSE row[n]]
    BY DEF ReportProgress, SaveCandidates, StoreNames, memory, history
  <1>2. Found' = Found /\ Capped' = Capped
    BY <1>1 DEF Found, Capped, Limit
  <1>3. linked' = Found /\ Held' = attempted
    BY <1>1, <1>2 DEF Shape, LoopIsStored
  <1>4. SavedCapped' = Capped
    BY <1>1, <1>3 DEF SavedCapped, Capped, Limit
  <1>5. CatalogueTrue' /\ FrontierTrue'
    BY <1>1, <1>2 DEF Rows, CatalogueTrue, FrontierTrue, Past
  <1>6. StoredTrue'
    <2>1. ~doubted => \A n \in Found : row'[n] = Truth(run.mode, n)
      BY <1>1, FoundType DEF Rows, CatalogueTrue, Past
    <2> QED
      BY <1>1, <1>3, <2>1 DEF StoredTrue
  <1>7. ZoneTested'
    BY <1>1, <1>2, <1>3, <1>4 DEF Rows, ZoneTested, Past
  <1>8. RowsAreTrue'
    BY <1>1 DEF RowsAreTrue, Complete
  <1> QED
    BY <1>5, <1>6, <1>7, <1>8 DEF Rows

(* A process that exits leaves rows that were true, and their run's own     *)
(* names active if it is complete.                                          *)
LEMMA RowsExit ==
  ASSUME Rows, Exit, run'.mode = run.mode, row' = row, linked' = linked, saved' = saved, doubted' = doubted,
         Complete' => active' = linked \/ (Complete /\ active' = active)
  PROVE  Rows'
  <1>1. /\ Found' = {} /\ frontier' = {} /\ attempted' = {} /\ stage' = "off"
    BY ExitFound DEF Exit
  <1>2. SavedCapped' = SavedCapped /\ Held' = Held
    BY DEF SavedCapped, Held, Limit
  <1>3. CatalogueTrue' /\ StoredTrue' /\ ZoneTested' /\ FrontierTrue'
    BY <1>1, <1>2 DEF Rows, CatalogueTrue, StoredTrue, ZoneTested, FrontierTrue, Past
  <1>4. RowsAreTrue'
    BY DEF Rows, StoredTrue, RowsAreTrue, Truth
  <1> QED
    BY <1>3, <1>4 DEF Rows

(* A process that resumes a run knows of its names what is stored.          *)
LEMMA RowsLaunch ==
  ASSUME TypeOK, Shape, Shape', Rows, NEW mode \in Modes, NEW resume \in BOOLEAN, Launch(mode, resume)
  PROVE  Rows'
  <1>1. row' = row /\ active' = active
    BY DEF Launch
  <1>2. CASE UNCHANGED <<run, saved, linked, doubted>> /\ linked # {} /\ ResumeFrom(saved)
    <2>1. /\ catalogue' = [n \in Names |-> IF n \in linked THEN row[n] ELSE "none"]
          /\ frontier' = {[name |-> n, verdict |-> row[n]] : n \in saved.frontier \cap linked}
          /\ stage' = "loop"
      BY <1>2 DEF ResumeFrom
    <2>2. Found' = linked /\ attempted' = Held /\ linked \subseteq Names /\ Held' = Held
      BY <1>2, <2>1 DEF Shape, LoopIsStored, TypeOK, Stored, Held
    <2>3. Capped' = SavedCapped /\ SavedCapped' = SavedCapped
      BY <1>2, <2>2 DEF Capped, SavedCapped, Limit
    <2>4. CatalogueTrue' /\ ZoneTested'
      BY <1>2, <2>1, <2>2, <2>3 DEF Rows, StoredTrue, ZoneTested, CatalogueTrue, Past
    <2>5. \A e \in frontier' : e.name \in linked /\ e.verdict = row[e.name]
      BY <2>1
    <2>6. FrontierTrue'
      BY <1>2, <2>5 DEF Rows, StoredTrue, FrontierTrue
    <2>7. StoredTrue' /\ RowsAreTrue'
      BY <1>1, <1>2 DEF Rows, StoredTrue, RowsAreTrue, Complete
    <2> QED
      BY <2>4, <2>6, <2>7 DEF Rows
  <1>3. CASE FromNothing /\ linked' = {} /\ run'.status = "RUNNING"
    <2>1. stage' = "collect" /\ frontier' = {}
      BY <1>3 DEF FromNothing
    <2> QED
      BY <1>3, <2>1 DEF Rows, CatalogueTrue, StoredTrue, ZoneTested, FrontierTrue, RowsAreTrue, Complete, Past
  <1> QED
    BY <1>2, <1>3 DEF Launch, NewRun

LEMMA RowsQuiet ==
  ASSUME Rows, Interrupt \/ UNCHANGED vars
  PROVE  Rows'
  <1>1. UNCHANGED <<run, saved, linked, row, active, stage, catalogue, frontier, attempted, doubted>>
    BY DEF Interrupt, vars, database, memory, history
  <1>2. SavedCapped' = SavedCapped /\ Held' = Held /\ Capped' = Capped /\ Found' = Found
    BY <1>1 DEF SavedCapped, Held, Limit, Capped, Found
  <1> QED
    BY <1>1, <1>2 DEF Rows, CatalogueTrue, StoredTrue, ZoneTested, FrontierTrue, RowsAreTrue, Complete

-----------------------------------------------------------------------------
(* The names that a run is given.                                           *)

(* What the resolving ones of the names N lead to, by their aliases or by   *)
(* the names of their addresses; what the pages of N refer to; what is made *)
(* of N; the names made that resolve by themselves.                         *)
Leads(to, N) == {n \in Names : \E m \in N \cap Resolving : n \in to[m]}
Refs(mode, N) == {n \in Names : \E m \in N : Truth(mode, m) = "resolved" /\ n \in Pages[m]}
MadeOf(mode, N) ==
  {n \in Names : n \in Words \/ \E m \in N : m # Root /\ Truth(mode, m) # "wildcard" /\ n \in Alterations[m]}
(* A name made is kept when it resolves and is not a wildcard.              *)
Good(n) == Verdict(n, Names, {}) = "resolved"

(* What a round after a frontier N adds when H is tested, what it follows   *)
(* from there, and all that it names.                                       *)
Fresh(mode, N, H) == {n \in Names \ H : n \in Refs(mode, N) \/ (n \in MadeOf(mode, N) /\ Good(n))}
Followed(mode, N, H) ==
  {n \in Leads(Aliases, Fresh(mode, N, H)) \ H : mode = "exhaustive" \/ n \notin MadeOf(mode, N)}
Ideal(mode, N, H) ==
  Refs(mode, N) \cup Leads(Aliases, Fresh(mode, N, H))
    \cup Leads(Reverse, Fresh(mode, N, H) \cup Followed(mode, N, H))

(* A round after a frontier gives whatever a round after a part of it, or   *)
(* when more was tested, would.                                             *)
LEMMA RoundCovers ==
  ASSUME NEW mode, NEW N \in SUBSET Names, NEW H \in SUBSET Names, NEW fresh, NEW guesses, NEW F,
         fresh = Refs(mode, N) \ H, guesses = MadeOf(mode, N) \ (H \cup Refs(mode, N)),
         F = fresh \cup {n \in guesses : Good(n)}
  PROVE  /\ F = Fresh(mode, N, H)
         /\ \A n \in Ideal(mode, N, H) :
              \/ n \in H \cup fresh \cup guesses \cup Leads(Aliases, F)
              \/ n \in Leads(Reverse, F \cup (Leads(Aliases, F) \ (H \cup fresh \cup guesses)))
              \/ mode = "exhaustive" /\ \E m \in guesses : ~Good(m) /\ n \in Reverse[m]
  <1>1. Refs(mode, N) \subseteq Names /\ MadeOf(mode, N) \subseteq Names
    BY DEF Refs, MadeOf
  <1>2. F = Fresh(mode, N, H)
    BY <1>1 DEF Fresh
  <1> DEFINE T == H \cup fresh \cup guesses
             goal(n) == \/ n \in T \cup Leads(Aliases, F)
                        \/ n \in Leads(Reverse, F \cup (Leads(Aliases, F) \ T))
                        \/ mode = "exhaustive" /\ \E m \in guesses : ~Good(m) /\ n \in Reverse[m]
  <1>3. ASSUME NEW n \in Leads(Reverse, F \cup Followed(mode, N, H)) PROVE goal(n)
    <2>1. PICK m \in (F \cup Followed(mode, N, H)) \cap Resolving : n \in Reverse[m] /\ n \in Names
      BY <1>3 DEF Leads
    <2>2. CASE m \in F
      BY <2>1, <2>2 DEF Leads
    <2>3. CASE m \in Followed(mode, N, H) /\ m \notin T
      <3>1. m \in Leads(Aliases, F) \ T
        BY <1>2, <2>3 DEF Followed
      <3> HIDE DEF T
      <3> QED
        BY <2>1, <3>1 DEF Leads
    <2>4. CASE m \in Followed(mode, N, H) /\ m \in T /\ m \notin F
      <3>1. m \in guesses /\ ~Good(m)
        BY <2>4 DEF Followed
      <3>2. mode = "exhaustive"
        BY <2>4, <3>1 DEF Followed
      <3> QED
        BY <2>1, <3>1, <3>2
    <2> QED
      BY <2>1, <2>2, <2>3, <2>4
  <1>4. ASSUME NEW n \in Ideal(mode, N, H) PROVE goal(n)
    <2>1. CASE n \in Refs(mode, N)
      BY <2>1
    <2>2. CASE n \in Leads(Aliases, F)
      BY <2>2
    <2>3. CASE n \in Leads(Reverse, F \cup Followed(mode, N, H))
      BY <1>3, <2>3
    <2> HIDE DEF goal
    <2> QED
      BY <1>2, <1>4, <2>1, <2>2, <2>3 DEF Ideal
  <1> QED
    BY <1>2, <1>4

LEMMA LeadsGrow ==
  ASSUME NEW to, NEW N, NEW M, N \subseteq M
  PROVE  Leads(to, N) \subseteq Leads(to, M)
  BY DEF Leads

-----------------------------------------------------------------------------
(* What the frontier leads to.                                              *)

(* No entry of the frontier is older than the zone transfer.                *)
IsFresh == \A e \in frontier : e.verdict = Truth(run.mode, e.name)

LEMMA FrontierLeads ==
  ASSUME TypeOK, FrontierTrue, ~doubted
  PROVE  /\ ReverseNames = Leads(Reverse, FrontierNames)
         /\ AliasTargets = Leads(Aliases, FrontierNames)
  <1>1. \A e \in frontier : e.name \in Names /\ (e.verdict = "unresolved" <=> e.name \notin Resolving)
    BY ReconAssumption DEF TypeOK, Entries, FrontierTrue, Truth, Verdict
  <1>2. Answered = FrontierNames \cap Resolving
    BY <1>1 DEF Answered, FrontierNames, NamesOf
  <1>3. \A n \in FrontierNames \cap Resolving : Reverse[n] \subseteq Names /\ Aliases[n] \subseteq Names
    <2>1. Reverse \in [Names -> SUBSET Names] /\ Aliases \in [Names -> SUBSET Names]
      BY ReconAssumption
    <2> QED
      BY <1>1, <2>1 DEF FrontierNames, NamesOf
  <1>4. ReverseNames = Leads(Reverse, FrontierNames)
    BY <1>2, <1>3 DEF ReverseNames, Leads
  <1>5. AliasTargets = Leads(Aliases, FrontierNames)
    BY <1>2, <1>3 DEF AliasTargets, Leads
  <1> QED
    BY <1>4, <1>5

LEMMA FrontierMakes ==
  ASSUME TypeOK, FrontierTrue, ~doubted
  PROVE  /\ References \subseteq Refs(run.mode, FrontierNames)
         /\ Made \subseteq MadeOf(run.mode, FrontierNames)
         /\ IsFresh => /\ References = Refs(run.mode, FrontierNames)
                       /\ Made = MadeOf(run.mode, FrontierNames)
         /\ run.mode # "exhaustive" => IsFresh
  <1>1. \A e \in frontier : e.name \in Names /\ e.name \in FrontierNames
    BY DEF TypeOK, Entries, FrontierNames, NamesOf
  <1>2. \A n \in FrontierNames : \E e \in frontier : e.name = n
    BY DEF FrontierNames, NamesOf
  <1>3. \A e \in frontier : /\ e.verdict = "resolved" => Truth(run.mode, e.name) = "resolved"
                            /\ e.verdict # "wildcard" => Truth(run.mode, e.name) # "wildcard"
    BY DEF FrontierTrue, Truth, Verdict
  <1>4. Pages \in [Names -> SUBSET Names] /\ Alterations \in [Names -> SUBSET Names] /\ Words \subseteq Names
    BY ReconAssumption
  <1>5. References \subseteq Refs(run.mode, FrontierNames)
    BY <1>1, <1>3, <1>4 DEF References, Refs
  <1>6. Made \subseteq MadeOf(run.mode, FrontierNames)
    BY <1>1, <1>3, <1>4 DEF Made, MadeOf
  <1>7. ASSUME IsFresh PROVE Refs(run.mode, FrontierNames) \subseteq References
    <2>1. ASSUME NEW n \in Refs(run.mode, FrontierNames) PROVE n \in References
      <3>1. PICK m \in FrontierNames : Truth(run.mode, m) = "resolved" /\ n \in Pages[m]
        BY DEF Refs
      <3>2. PICK e \in frontier : e.name = m
        BY <1>2
      <3>3. e.verdict = "resolved"
        BY <1>7, <3>1, <3>2 DEF IsFresh
      <3> QED
        BY <3>1, <3>2, <3>3 DEF References
    <2> QED
      BY <2>1
  <1>8. ASSUME IsFresh PROVE MadeOf(run.mode, FrontierNames) \subseteq Made
    <2>1. ASSUME NEW n \in MadeOf(run.mode, FrontierNames), n \notin Words PROVE n \in Made
      <3>1. PICK m \in FrontierNames : m # Root /\ Truth(run.mode, m) # "wildcard" /\ n \in Alterations[m]
        BY <2>1 DEF MadeOf
      <3>2. PICK e \in frontier : e.name = m
        BY <1>2
      <3>3. e.name # Root /\ e.verdict # "wildcard"
        BY <1>8, <3>1, <3>2 DEF IsFresh
      <3> QED
        BY <3>1, <3>2, <3>3 DEF Made
    <2> QED
      BY <2>1 DEF Made
  <1>9. run.mode # "exhaustive" => IsFresh
    BY DEF IsFresh, FrontierTrue, Truth, Cleared
  <1> QED
    BY <1>5, <1>6, <1>7, <1>8, <1>9

-----------------------------------------------------------------------------
(* The invariant of the names.                                              *)

(* The names that NamedIsKept excuses.                                      *)
Excused == SetAside \cup BehindSetAside
(* What the first pass has been given at a stage, and all that it gives.    *)
Direct(mode, st) ==
  {n \in Names : \/ n \in Passive
                 \/ mode # "passive" /\ st \notin {"initial", "records"} /\ n \in Records
                 \/ mode = "exhaustive" /\ st \notin {"initial", "records", "zone"} /\ n \in Zone}
Whole(mode) == Direct(mode, "off") \cup (IF mode = "passive" THEN {} ELSE Leads(Reverse, Direct(mode, "off")))
(* Whether a process that resumes the run begins a round.                   *)
SavedGoesOn == saved.round < Limit.rounds /\ StoredFrontier # {}

(* Nobody doubts the answers, no limit is reached, no source is spoiled:    *)
(* for the process, and for one that resumes the run.                       *)
Sure == ~doubted /\ ~Capped /\ spoiled = {}
StoredSure == linked # {} /\ ~doubted /\ ~SavedCapped /\ saved.spoiled = {}

(* In the first pass the run is given what its sources give, and the        *)
(* process has tested it as far as it is.                                   *)
FirstNamed == linked = {} /\ ~doubted => named \subseteq Whole(run.mode)
FirstTested ==
  linked = {} /\ ~doubted /\ stage \in {"initial", "records", "zone", "reverse"} =>
    /\ attempted \subseteq Direct(run.mode, stage)
    /\ spoiled = {} => Capped \/ attempted = Direct(run.mode, stage)
    /\ stage # "initial" => attempted = FrontierNames
(* What the checkpoint lists as tested is stored or set aside.              *)
StoredTested == StoredSure => saved.attempted \subseteq linked \cup SetAside
(* What the run was given is held by a process that resumes it, or the      *)
(* round it begins with gives it again.                                     *)
StoredNamed ==
  StoredSure =>
    named \subseteq Held \cup Excused \cup (IF SavedGoesOn THEN Ideal(run.mode, StoredFrontier, Held) ELSE {})
(* Within a round, the process works on names that the round of a process   *)
(* that resumes the run gives too.                                          *)
InRound ==
  linked # {} /\ ~doubted =>
    /\ stage \in {"round", "aliases", "reverse"} => SavedGoesOn
    /\ stage = "aliases" =>
         /\ FrontierNames \subseteq Fresh(run.mode, StoredFrontier, Held)
         /\ run.mode # "exhaustive" => MadeOf(run.mode, StoredFrontier) \subseteq attempted
         /\ Held \subseteq attempted
    /\ stage = "reverse" =>
         FrontierNames \subseteq Fresh(run.mode, StoredFrontier, Held) \cup Followed(run.mode, StoredFrontier, Held)
(* What was tested is known or set aside.                                   *)
TestedIsKnown == Sure /\ stage \in Past \cup {"records", "zone"} => attempted \subseteq Found \cup SetAside
(* What the run was given is tested, excused, or what the stage at hand     *)
(* asks for next.                                                           *)
NamedIsTested ==
  Sure =>
    /\ stage \in {"loop", "round"} => named \subseteq attempted \cup Excused \/ (IsFresh /\ linked # {})
    /\ stage \in {"save", "store", "finish"} => named \subseteq attempted \cup Excused
    /\ stage = "aliases" =>
         named \subseteq attempted \cup Excused \cup Leads(Aliases, FrontierNames)
           \cup Leads(Reverse, FrontierNames \cup (Leads(Aliases, FrontierNames) \ attempted))
    /\ stage = "reverse" =>
         named \subseteq attempted \cup Excused
           \cup (IF run.mode = "passive" THEN {} ELSE Leads(Reverse, FrontierNames))

Naming ==
  /\ FirstNamed /\ FirstTested /\ StoredTested /\ StoredNamed /\ InRound
  /\ TestedIsKnown /\ NamedIsTested

(* A doubt, once there, stays; the names set aside depend on the run alone. *)
LEMMA NamingUndoubted ==
  ASSUME doubted'
  PROVE  Naming'
  BY DEF Naming, FirstNamed, FirstTested, StoredTested, StoredNamed, InRound, TestedIsKnown, NamedIsTested,
         Sure, StoredSure

LEMMA NamingInit == Init => Naming
  <1> SUFFICES ASSUME Init PROVE Naming
    OBVIOUS
  <1>1. linked = {} /\ named = {} /\ stage = "off"
    BY DEF Init
  <1> QED
    BY <1>1 DEF Naming, FirstNamed, FirstTested, StoredTested, StoredNamed, InRound, TestedIsKnown,
                NamedIsTested, StoredSure, Past

LEMMA ExcusedSame ==
  ASSUME run'.mode = run.mode, made' = made
  PROVE  SetAside' = SetAside /\ Excused' = Excused
  BY DEF SetAside, BehindSetAside, Excused

LEMMA StoredSame ==
  ASSUME run'.mode = run.mode, saved' = saved, linked' = linked
  PROVE  Held' = Held /\ StoredFrontier' = StoredFrontier /\ SavedCapped' = SavedCapped
         /\ SavedGoesOn' = SavedGoesOn /\ Limit' = Limit
  BY DEF Held, StoredFrontier, SavedCapped, SavedGoesOn, Limit

(* What a stage of the engine leaves alone.                                 *)
EngineKeeps ==
  /\ run' = run /\ linked' = linked /\ saved' = saved
  /\ Held' = Held /\ StoredFrontier' = StoredFrontier /\ SavedCapped' = SavedCapped
  /\ SavedGoesOn' = SavedGoesOn /\ Limit' = Limit

LEMMA EngineKept ==
  ASSUME Unchanging
  PROVE  EngineKeeps
  <1>1. run' = run /\ linked' = linked /\ saved' = saved
    BY DEF Unchanging, database
  <1> QED
    BY <1>1, StoredSame DEF EngineKeeps

(* Before the first pass the run is given the passive names.                *)
LEMMA DirectTested == \A mode : Direct(mode, "initial") = Passive /\ Direct(mode, "records") = Passive
  BY PassiveType DEF Direct

LEMMA NamingCollect ==
  ASSUME TypeOK, Shape, Naming, Collect, linked = {}, ~doubted'
  PROVE  Naming'
  <1>1. EngineKeeps /\ stage = "collect" /\ stage' = "initial" /\ made' = made /\ doubted' = doubted
    BY EngineKept DEF Collect
  <1>2. /\ attempted' \subseteq Passive /\ named' \subseteq named \cup Passive
        /\ spoiled' = {} => attempted' = Passive
    BY <1>1, CollectAll DEF Shape, ModeKnown
  <1>3. Passive \subseteq Whole(run.mode)
    BY PassiveType DEF Whole, Direct
  <1>4. FirstNamed'
    BY <1>1, <1>2, <1>3 DEF Naming, FirstNamed, EngineKeeps
  <1>5. FirstTested'
    BY <1>1, <1>2, DirectTested DEF FirstTested, EngineKeeps
  <1>6. StoredTested' /\ StoredNamed' /\ InRound' /\ TestedIsKnown' /\ NamedIsTested'
    BY <1>1 DEF EngineKeeps, StoredTested, StoredNamed, StoredSure, InRound, TestedIsKnown, NamedIsTested, Past
  <1> QED
    BY <1>4, <1>5, <1>6 DEF Naming

LEMMA NamingInitial ==
  ASSUME TypeOK, TypeOK', Shape, Naming, Initial, linked = {}, ~doubted'
  PROVE  Naming'
  <1>1. EngineKeeps /\ stage = "initial" /\ stage' = "records" /\ made' = made /\ named' = named
        /\ spoiled' = spoiled
    BY EngineKept DEF Initial
  <1>2. ~doubted /\ Found' = attempted /\ FrontierNames' = attempted /\ attempted' = attempted
    BY InitialAll
  <1>3. Capped => Capped'
    <2>1. Found \subseteq Found' /\ run.mode \in Modes
      BY <1>1, <1>2 DEF Shape, NothingYet, ModeKnown
    <2> QED
      BY <1>1, <1>2, <2>1, CappedStays DEF EngineKeeps
  <1>4. FirstNamed'
    BY <1>1, <1>2 DEF Naming, FirstNamed, EngineKeeps
  <1>5. FirstTested'
    BY <1>1, <1>2, <1>3, DirectTested DEF Naming, FirstTested, EngineKeeps
  <1>6. TestedIsKnown'
    BY <1>2 DEF TestedIsKnown
  <1>7. StoredTested' /\ StoredNamed' /\ InRound' /\ NamedIsTested'
    BY <1>1 DEF EngineKeeps, StoredTested, StoredNamed, StoredSure, InRound, NamedIsTested
  <1> QED
    BY <1>4, <1>5, <1>6, <1>7 DEF Naming

(* A pivot of the first pass tests the names it asks for.                   *)
Tests(names) ==
  /\ attempted \subseteq attempted' /\ attempted' \subseteq attempted \cup names
  /\ named' = named \cup names
  /\ names \subseteq attempted' \/ Capped'
  /\ Found \subseteq Found' /\ FrontierNames' = FrontierNames \cup (attempted' \ attempted)
  /\ attempted' \ attempted \subseteq Found'
  /\ Capped => Capped'

LEMMA FollowsTests ==
  ASSUME TypeOK, TypeOK', run.mode \in Modes, run' = run, NEW names, NEW explicit, NEW seeds \in SUBSET Names,
         Follows(seeds, names, explicit), named' = named \cup names
  PROVE  Tests(names)
  <1>1. /\ seeds \subseteq names \ attempted
        /\ attempted' = attempted \cup seeds
        /\ Found' = Found \cup seeds
        /\ FrontierNames' = FrontierNames \cup seeds
        /\ seeds = names \ attempted \/ Capped'
    BY DEF Follows
  <1>2. Capped => Capped'
    BY <1>1, CappedStays
  <1> QED
    BY <1>1, <1>2 DEF Tests

LEMMA PivotTests ==
  ASSUME TypeOK, TypeOK', run.mode \in Modes, run' = run, Found \subseteq attempted, NEW modes,
         NEW names \in SUBSET Names, NEW explicit \in SUBSET names, Pivot(modes, names, explicit), ~doubted'
  PROVE  /\ ~doubted
         /\ run.mode \in modes => Tests(names)
         /\ run.mode \notin modes => /\ named' = named /\ attempted' = attempted
                                     /\ Found' = Found /\ FrontierNames' = FrontierNames /\ Capped' = Capped
  <1>1. /\ ~doubted
        /\ run.mode \in modes =>
             named' = named \cup names /\ \E seeds \in SUBSET Names : Follows(seeds, names, explicit)
        /\ run.mode \notin modes =>
             named' = named /\ attempted' = attempted /\ Found' = Found /\ FrontierNames' = FrontierNames
    BY PivotAll
  <1>2. ASSUME run.mode \in modes PROVE Tests(names)
    BY <1>1, <1>2, FollowsTests
  <1>3. ASSUME run.mode \notin modes PROVE Capped' = Capped
    BY <1>1, <1>3 DEF Capped, Limit
  <1> QED
    BY <1>1, <1>2, <1>3

(* Between the first look-ups and the reverse ones.                         *)
LEMMA NamingFirst ==
  ASSUME Naming, EngineKeeps, linked = {}, ~doubted, ~doubted', made' = made, spoiled' = spoiled,
         stage \in {"records", "zone"}, stage' \in {"zone", "reverse"},
         NEW names \in SUBSET Names, Tests(names),
         Direct(run.mode, stage') = Direct(run.mode, stage) \cup names
  PROVE  Naming'
  <1>1. /\ attempted \subseteq Direct(run.mode, stage)
        /\ spoiled = {} => Capped \/ attempted = Direct(run.mode, stage)
        /\ attempted = FrontierNames
    BY DEF Naming, FirstTested
  <1>2. /\ attempted' \subseteq attempted \cup names /\ attempted \subseteq attempted'
        /\ named' = named \cup names /\ (names \subseteq attempted' \/ Capped')
        /\ Found \subseteq Found' /\ FrontierNames' = FrontierNames \cup (attempted' \ attempted)
        /\ attempted' \ attempted \subseteq Found' /\ (Capped => Capped')
    BY DEF Tests
  <1>3. run' = run /\ linked' = linked
    BY DEF EngineKeeps
  <1>4. FirstTested'
    BY <1>1, <1>2, <1>3 DEF FirstTested
  <1>5. names \subseteq Direct(run.mode, "off")
    BY DEF Direct
  <1>6. FirstNamed'
    BY <1>2, <1>3, <1>5 DEF Naming, FirstNamed, Whole
  <1>7. SetAside' = SetAside /\ Excused' = Excused
    BY <1>3, ExcusedSame
  <1>8. TestedIsKnown'
    <2>1. SUFFICES ASSUME Sure' PROVE attempted' \subseteq Found' \cup SetAside'
      BY DEF TestedIsKnown
    <2>2. Sure
      BY <1>2, <2>1 DEF Sure
    <2>3. attempted \subseteq Found \cup SetAside
      BY <2>2 DEF Naming, TestedIsKnown
    <2> QED
      BY <1>2, <1>7, <2>3
  <1>9. NamedIsTested'
    <2>1. SUFFICES ASSUME Sure', stage' = "reverse"
          PROVE named' \subseteq attempted' \cup Excused'
                  \cup (IF run'.mode = "passive" THEN {} ELSE Leads(Reverse, FrontierNames'))
      BY DEF NamedIsTested
    <2>2. attempted' = Direct(run.mode, "reverse") /\ FrontierNames' = attempted'
      BY <1>3, <1>4, <2>1 DEF FirstTested, Sure
    <2>3. Direct(run.mode, "reverse") = Direct(run.mode, "off")
      BY DEF Direct
    <2>4. named' \subseteq Whole(run.mode)
      BY <1>3, <1>6 DEF FirstNamed
    <2> QED
      BY <1>3, <2>2, <2>3, <2>4 DEF Whole
  <1>10. StoredTested' /\ StoredNamed' /\ InRound'
    BY <1>3 DEF StoredTested, StoredNamed, StoredSure, InRound
  <1> QED
    BY <1>4, <1>6, <1>8, <1>9, <1>10 DEF Naming

(* A pivot the mode leaves out asks for nothing.                            *)
LEMMA TestsNothing ==
  ASSUME named' = named, attempted' = attempted, Found' = Found, FrontierNames' = FrontierNames, Capped' = Capped
  PROVE  \E names \in SUBSET Names : Tests(names) /\ names = {}
  <1> DEFINE none == {}
  <1>1. none \in SUBSET Names /\ named \cup none = named /\ attempted \cup none = attempted
        /\ none \subseteq attempted /\ FrontierNames \cup (attempted \ attempted) = FrontierNames
    OBVIOUS
  <1> HIDE DEF none
  <1>2. Tests(none)
    BY <1>1 DEF Tests
  <1> QED
    BY <1>1, <1>2 DEF none

LEMMA NamingRecords ==
  ASSUME TypeOK, TypeOK', Shape, Naming, AddDNSSeeds, linked = {}, ~doubted'
  PROVE  Naming'
  <1>1. EngineKeeps /\ stage = "records" /\ stage' = "zone" /\ made' = made /\ spoiled' = spoiled
    BY EngineKept DEF AddDNSSeeds
  <1>2. run' = run /\ run.mode \in Modes /\ Found \subseteq attempted
    BY <1>1 DEF Shape, ModeKnown, FoundIsTested, EngineKeeps
  <1> DEFINE explicit == {}
  <1>3. Pivot({"standard", "exhaustive"}, Records, explicit) /\ explicit \in SUBSET Records
        /\ Records \in SUBSET Names
    BY ReconAssumption DEF AddDNSSeeds
  <1> HIDE DEF explicit
  <1>4. ~doubted
    BY <1>2, <1>3, PivotTests
  <1>5. CASE run.mode # "passive"
    <2>1. run.mode \in {"standard", "exhaustive"}
      BY <1>2, <1>5, ReconAssumption
    <2>2. Tests(Records)
      BY <1>2, <1>3, <2>1, PivotTests
    <2>3. Direct(run.mode, stage') = Direct(run.mode, stage) \cup Records
      BY <1>1, <1>3, <1>5 DEF Direct
    <2> QED
      BY <1>1, <1>3, <1>4, <2>2, <2>3, NamingFirst
  <1>6. CASE run.mode = "passive"
    <2>0. run.mode \notin {"standard", "exhaustive"}
      BY <1>6
    <2>3. /\ named' = named /\ attempted' = attempted
          /\ Found' = Found /\ FrontierNames' = FrontierNames /\ Capped' = Capped
      BY <1>2, <1>3, <2>0, PivotTests
    <2>1. \E names \in SUBSET Names : Tests(names) /\ names = {}
      BY <2>3, TestsNothing
    <2>2. PICK names \in SUBSET Names : Tests(names) /\ names = {}
      BY <2>1
    <2>4. Direct(run.mode, stage') = Direct(run.mode, stage) \cup names
      BY <1>1, <1>6, <2>2 DEF Direct
    <2> QED
      BY <1>1, <1>4, <2>2, <2>4, NamingFirst
  <1> QED
    BY <1>5, <1>6

LEMMA NamingZone ==
  ASSUME TypeOK, TypeOK', Shape, Naming, AddZoneSeeds, linked = {}, ~doubted'
  PROVE  Naming'
  <1>1. EngineKeeps /\ stage = "zone" /\ stage' = "reverse" /\ made' = made /\ spoiled' = spoiled
    BY EngineKept DEF AddZoneSeeds
  <1>2. run' = run /\ run.mode \in Modes /\ Found \subseteq attempted
    BY <1>1 DEF Shape, ModeKnown, FoundIsTested, EngineKeeps
  <1>3. Pivot({"exhaustive"}, Zone, Zone) /\ Zone \in SUBSET Names
    BY ReconAssumption DEF AddZoneSeeds
  <1>4. ~doubted
    BY <1>2, <1>3, PivotTests
  <1>5. CASE run.mode = "exhaustive"
    <2>1. Tests(Zone)
      BY <1>2, <1>3, <1>5, PivotTests
    <2>2. Direct(run.mode, stage') = Direct(run.mode, stage) \cup Zone
      BY <1>1, <1>3, <1>5 DEF Direct
    <2> QED
      BY <1>1, <1>3, <1>4, <2>1, <2>2, NamingFirst
  <1>6. CASE run.mode # "exhaustive"
    <2>1. \E names \in SUBSET Names : Tests(names) /\ names = {}
      BY <1>2, <1>3, <1>6, PivotTests, TestsNothing
    <2>2. PICK names \in SUBSET Names : Tests(names) /\ names = {}
      BY <2>1
    <2>3. Direct(run.mode, stage') = Direct(run.mode, stage) \cup names
      BY <1>1, <1>6, <2>2 DEF Direct
    <2> QED
      BY <1>1, <1>4, <2>2, <2>3, NamingFirst
  <1> QED
    BY <1>5, <1>6

(* A follow-up within the loop, or at the end of the first pass, adds to    *)
(* what is tested and known, and to what the run was given.                 *)
LEMMA TestedFollows ==
  ASSUME Naming, run' = run, made' = made, spoiled' = spoiled,
         ~doubted, stage \in Past, Found \subseteq Found', attempted' \ attempted \subseteq Found', Capped => Capped'
  PROVE  TestedIsKnown' /\ (Sure' => Sure)
  <1>1. SetAside' = SetAside
    BY ExcusedSame
  <1>2. Sure' => Sure
    BY DEF Sure
  <1>3. Sure => attempted \subseteq Found \cup SetAside
    BY DEF Naming, TestedIsKnown
  <1> QED
    BY <1>1, <1>2, <1>3 DEF TestedIsKnown

(* In the loop, the names that a stage adds are names the round can give.   *)
LEMMA StoredGrows ==
  ASSUME Naming, EngineKeeps, ~doubted, linked # {}, SavedGoesOn, made \subseteq made',
         NEW names \in SUBSET Ideal(run.mode, StoredFrontier, Held), named' = named \cup names
  PROVE  FirstNamed' /\ StoredTested' /\ StoredNamed'
  <1>1. SetAside \subseteq SetAside' /\ Excused \subseteq Excused'
    BY DEF EngineKeeps, SetAside, Excused, BehindSetAside
  <1>2. StoredSure' => StoredSure
    BY DEF EngineKeeps, StoredSure
  <1> QED
    BY <1>1, <1>2 DEF Naming, EngineKeeps, FirstNamed, StoredTested, StoredNamed

(* Following the aliases of a round's names.                                *)
LEMMA NamingAliases ==
  ASSUME TypeOK, TypeOK', Shape, Rows, Naming, AddCNAMESeeds, ~doubted'
  PROVE  Naming'
  <1>1. EngineKeeps /\ stage = "aliases" /\ stage' = "reverse" /\ made' = made /\ spoiled' = spoiled
    BY EngineKept DEF AddCNAMESeeds
  <1>2. run' = run /\ run.mode \in Modes /\ linked # {}
    BY <1>1 DEF Shape, ModeKnown, RoundGoesOn, EngineKeeps
  <1>3. ~doubted /\ named' = named \cup AliasTargets /\ \E seeds \in SUBSET Names : Follows(seeds, AliasTargets, {})
    BY AliasesAll
  <1>4. AliasTargets = Leads(Aliases, FrontierNames)
    BY <1>3, FrontierLeads DEF Rows
  <1> DEFINE T == Leads(Aliases, FrontierNames)
             explicit == {}
  <1>5. PICK seeds \in SUBSET Names : Follows(seeds, T, explicit)
    BY <1>3, <1>4
  <1> HIDE DEF explicit
  <1>6. Tests(T) /\ named' = named \cup T
    BY <1>2, <1>3, <1>4, <1>5, FollowsTests
  <1> HIDE DEF T
  <1>7. /\ attempted' \subseteq attempted \cup T /\ attempted \subseteq attempted'
        /\ named' = named \cup T /\ (T \subseteq attempted' \/ Capped')
        /\ Found \subseteq Found' /\ FrontierNames' = FrontierNames \cup (attempted' \ attempted)
        /\ attempted' \ attempted \subseteq Found' /\ (Capped => Capped')
    BY <1>6 DEF Tests
  <1> DEFINE fresh == Fresh(run.mode, StoredFrontier, Held)
             followed == Followed(run.mode, StoredFrontier, Held)
  <1>8. /\ SavedGoesOn /\ FrontierNames \subseteq fresh /\ Held \subseteq attempted
        /\ run.mode # "exhaustive" => MadeOf(run.mode, StoredFrontier) \subseteq attempted
    BY <1>1, <1>2, <1>3 DEF Naming, InRound
  <1>9. T \subseteq Leads(Aliases, fresh)
    BY <1>8, LeadsGrow DEF T
  <1>10. T \subseteq Ideal(run.mode, StoredFrontier, Held)
    BY <1>9 DEF Ideal
  <1>11. FirstNamed' /\ StoredTested' /\ StoredNamed'
    BY <1>1, <1>2, <1>3, <1>7, <1>8, <1>10, StoredGrows
  <1>12. attempted' \ attempted \subseteq followed
    BY <1>7, <1>8, <1>9 DEF Followed
  <1>13. InRound'
    <2>1. FrontierNames' \subseteq fresh \cup followed
      BY <1>7, <1>8, <1>12
    <2> HIDE DEF fresh, followed
    <2>2. fresh' = fresh /\ followed' = followed
      BY <1>1 DEF EngineKeeps, fresh, followed
    <2>3. (FrontierNames \subseteq fresh \cup followed)'
      BY <2>1, <2>2
    <2> QED
      BY <1>1, <1>8, <2>3 DEF InRound, EngineKeeps, fresh, followed
  <1>14. FirstTested'
    BY <1>1, <1>2 DEF FirstTested, EngineKeeps
  <1>15. Excused' = Excused
    BY <1>1, <1>2, ExcusedSame
  <1>16. TestedIsKnown' /\ (Sure' => Sure)
    BY <1>1, <1>2, <1>3, <1>7, TestedFollows DEF Past
  <1>17. run.mode # "passive"
    BY <1>2, <1>8, ReconAssumption DEF SavedGoesOn, TypeOK, Checkpoints, Limit
  <1>18. NamedIsTested'
    <2>1. SUFFICES ASSUME Sure' PROVE named' \subseteq attempted' \cup Excused' \cup Leads(Reverse, FrontierNames')
      BY <1>1, <1>2, <1>17 DEF NamedIsTested
    <2>2. named \subseteq attempted \cup Excused \cup T \cup Leads(Reverse, FrontierNames \cup (T \ attempted))
      BY <1>1, <1>16, <2>1 DEF Naming, NamedIsTested, T
    <2>3. T \subseteq attempted'
      BY <1>7, <2>1 DEF Sure
    <2>4. FrontierNames' = FrontierNames \cup (T \ attempted)
      BY <1>7, <2>3
    <2> QED
      BY <1>7, <1>15, <2>2, <2>3, <2>4
  <1> QED
    BY <1>11, <1>13, <1>14, <1>16, <1>18 DEF Naming

(* Following the addresses of the frontier's names.                         *)
LEMMA NamingPTR ==
  ASSUME TypeOK, TypeOK', Shape, Rows, Naming, AddPTRSeeds, ~doubted'
  PROVE  Naming'
  <1>1. EngineKeeps /\ stage = "reverse" /\ stage' = "save" /\ made' = made /\ spoiled' = spoiled
    BY EngineKept DEF AddPTRSeeds
  <1>2. run' = run /\ run.mode \in Modes /\ Found \subseteq attempted
    BY <1>1 DEF Shape, ModeKnown, FoundIsTested, EngineKeeps
  <1> DEFINE explicit == {}
  <1>3. Pivot({"standard", "exhaustive"}, ReverseNames, explicit) /\ explicit \in SUBSET ReverseNames
        /\ ReverseNames \in SUBSET Names
    BY ReverseType DEF AddPTRSeeds
  <1> HIDE DEF explicit
  <1>4. /\ ~doubted
        /\ run.mode \in {"standard", "exhaustive"} => Tests(ReverseNames)
        /\ run.mode \notin {"standard", "exhaustive"} =>
             /\ named' = named /\ attempted' = attempted
             /\ Found' = Found /\ FrontierNames' = FrontierNames /\ Capped' = Capped
    BY <1>2, <1>3, PivotTests
  <1>5. ReverseNames = Leads(Reverse, FrontierNames)
    BY <1>4, FrontierLeads DEF Rows
  <1> DEFINE P == IF run.mode = "passive" THEN {} ELSE Leads(Reverse, FrontierNames)
  <1>6. /\ attempted \subseteq attempted' /\ named' = named \cup P
        /\ P \subseteq attempted' \/ Capped'
        /\ Found \subseteq Found' /\ attempted' \ attempted \subseteq Found' /\ (Capped => Capped')
    <2>1. CASE run.mode = "passive"
      BY <1>4, <2>1
    <2>2. CASE run.mode # "passive"
      <3>1. run.mode \in {"standard", "exhaustive"}
        BY <1>2, <2>2, ReconAssumption
      <3> QED
        BY <1>4, <1>5, <2>2, <3>1 DEF Tests
    <2> QED
      BY <2>1, <2>2
  <1> HIDE DEF P
  <1>7. Excused' = Excused
    BY <1>1, <1>2, ExcusedSame
  <1>8. TestedIsKnown' /\ (Sure' => Sure)
    BY <1>1, <1>2, <1>4, <1>6, TestedFollows DEF Past
  <1>9. NamedIsTested'
    <2>1. SUFFICES ASSUME Sure' PROVE named' \subseteq attempted' \cup Excused'
      BY <1>1 DEF NamedIsTested
    <2>2. named \subseteq attempted \cup Excused \cup P
      BY <1>1, <1>8, <2>1 DEF Naming, NamedIsTested, P
    <2>3. P \subseteq attempted'
      BY <1>6, <2>1 DEF Sure
    <2> QED
      BY <1>6, <1>7, <2>2, <2>3
  <1>10. FirstTested' /\ InRound'
    BY <1>1 DEF FirstTested, InRound
  <1>11. FirstNamed' /\ StoredTested' /\ StoredNamed'
    <2>1. CASE linked = {}
      <3>1. FrontierNames \subseteq Direct(run.mode, "off")
        BY <1>1, <1>4, <2>1 DEF Naming, FirstTested, Direct
      <3>2. P \subseteq Whole(run.mode)
        BY <3>1, LeadsGrow DEF P, Whole
      <3>3. FirstNamed'
        BY <1>1, <1>4, <1>6, <2>1, <3>2 DEF Naming, FirstNamed, EngineKeeps
      <3> QED
        BY <1>1, <2>1, <3>3 DEF StoredTested, StoredNamed, StoredSure, EngineKeeps
    <2>2. CASE linked # {}
      <3> DEFINE from == Fresh(run.mode, StoredFrontier, Held) \cup Followed(run.mode, StoredFrontier, Held)
      <3>1. SavedGoesOn /\ FrontierNames \subseteq from
        BY <1>1, <1>4, <2>2 DEF Naming, InRound
      <3>2. Leads(Reverse, FrontierNames) \subseteq Leads(Reverse, from)
        BY <3>1, LeadsGrow
      <3>3. P \subseteq Ideal(run.mode, StoredFrontier, Held)
        BY <3>2 DEF P, Ideal
      <3> QED
        BY <1>1, <1>4, <1>6, <2>2, <3>1, <3>3, StoredGrows
    <2> QED
      BY <2>1, <2>2
  <1> QED
    BY <1>8, <1>9, <1>10, <1>11 DEF Naming

(* A round adds to what is tested all that its frontier leads to.           *)
LEMMA NamingRound ==
  ASSUME TypeOK, TypeOK', Shape, Rows, Naming, Round, ~doubted'
  PROVE  Naming'
  <1>1. EngineKeeps /\ stage = "round" /\ stage' = "aliases" /\ spoiled' = spoiled
    BY EngineKept DEF Round
  <1>2. run' = run /\ run.mode \in Modes /\ Found \subseteq attempted /\ linked # {} /\ LoopGoesOn
        /\ Found = linked /\ attempted = Held /\ FrontierNames = StoredFrontier /\ spoiled = saved.spoiled
    BY <1>1 DEF Shape, ModeKnown, FoundIsTested, RoundGoesOn, LoopIsStored, EngineKeeps
  <1>3. ~doubted /\ \E fresh, guesses \in SUBSET Names : RoundIs(fresh, guesses)
    BY <1>2, RoundAll
  <1>4. PICK fresh \in SUBSET Names, guesses \in SUBSET Names : RoundIs(fresh, guesses)
    BY <1>3
  <1>5. /\ fresh = References \ attempted /\ guesses = Made \ (attempted \cup References)
        /\ attempted' = attempted \cup fresh \cup guesses
        /\ named' = named \cup References /\ made' = made \cup guesses
    BY <1>4 DEF RoundIs
  <1> DEFINE F == Kept(fresh, guesses)
             N == StoredFrontier
             H == Held
             mode == run.mode
  <1>6. Found' = Found \cup F /\ FrontierNames' = F /\ F = fresh \cup {n \in guesses : Good(n)}
    BY <1>4 DEF RoundIs, Kept, Good
  <1> HIDE DEF F
  <1>7. /\ References \subseteq Refs(mode, N) /\ Made \subseteq MadeOf(mode, N)
        /\ IsFresh => References = Refs(mode, N) /\ Made = MadeOf(mode, N)
        /\ mode # "exhaustive" => IsFresh
    BY <1>2, <1>3, FrontierMakes DEF Rows
  <1>8. SavedGoesOn
    BY <1>1, <1>2, <1>3 DEF Naming, InRound
  <1>9. H \subseteq Names /\ N \subseteq Names
    BY <1>2, LinkedType DEF TypeOK, StoredFrontier
  <1>10. F \subseteq Fresh(mode, N, H)
    BY <1>2, <1>4, <1>5, <1>6, <1>7 DEF Fresh
  <1>11. InRound'
    <2>1. mode # "exhaustive" => MadeOf(mode, N) \subseteq attempted'
      BY <1>5, <1>7
    <2>2. H \subseteq attempted'
      BY <1>2, <1>5
    <2>3. N' = N /\ H' = H /\ mode' = mode
      BY <1>1 DEF EngineKeeps
    <2> QED
      BY <1>1, <1>6, <1>8, <1>10, <2>1, <2>2, <2>3 DEF InRound, EngineKeeps
  <1>12. References \subseteq Ideal(mode, N, H)
    BY <1>7 DEF Ideal
  <1>13. FirstNamed' /\ StoredTested' /\ StoredNamed'
    <2>1. made \subseteq made' /\ References \in SUBSET Ideal(mode, N, H)
      BY <1>5, <1>12
    <2> QED
      BY <1>1, <1>2, <1>3, <1>5, <1>8, <2>1, StoredGrows
  <1>14. FirstTested'
    BY <1>1 DEF FirstTested
  <1>15. \A n \in guesses : ~Good(n) => n \in SetAside'
    BY <1>4, <1>5 DEF SetAside, Good
  <1>16. Excused \subseteq Excused' /\ SetAside \subseteq SetAside' /\ SetAside' \subseteq Excused'
    BY <1>2, <1>5 DEF SetAside, Excused, BehindSetAside
  <1>17. Sure' => Sure
    <2>1. Capped => Capped'
      BY <1>2, <1>5, <1>6, CappedStays
    <2> QED
      BY <1>1, <1>3, <2>1 DEF Sure
  <1>18. TestedIsKnown'
    <2>1. SUFFICES ASSUME Sure' PROVE attempted' \subseteq Found' \cup SetAside'
      BY DEF TestedIsKnown
    <2>2. attempted \subseteq Found \cup SetAside
      BY <1>1, <1>17, <2>1 DEF Naming, TestedIsKnown, Past
    <2> QED
      BY <1>5, <1>6, <1>15, <1>16, <2>2
  <1> DEFINE T == Leads(Aliases, F)
             goal(n) == n \in attempted' \cup Excused' \cup T \cup Leads(Reverse, F \cup (T \ attempted'))
  <1>19. NamedIsTested'
    <2>1. SUFFICES ASSUME Sure', NEW n \in named' PROVE goal(n)
      BY <1>1, <1>6 DEF NamedIsTested
    <2>2. CASE n \in References
      BY <1>5, <2>2
    <2>3. CASE n \in named /\ named \subseteq attempted \cup Excused
      BY <1>5, <1>16, <2>3
    <2>4. CASE n \in named /\ IsFresh
      <3>1. StoredSure
        <4>1. SavedCapped = Capped
          BY <1>2 DEF SavedCapped, Capped
        <4> QED
          BY <1>2, <1>17, <2>1, <4>1 DEF Sure, StoredSure
      <3>2. n \in H \cup Excused \cup Ideal(mode, N, H)
        BY <1>8, <2>4, <3>1 DEF Naming, StoredNamed
      <3>3. fresh = Refs(mode, N) \ H /\ guesses = MadeOf(mode, N) \ (H \cup Refs(mode, N))
        BY <1>2, <1>5, <1>7, <2>4
      <3>4. CASE n \in Ideal(mode, N, H)
        <4>1. \/ n \in H \cup fresh \cup guesses \cup T
              \/ n \in Leads(Reverse, F \cup (T \ (H \cup fresh \cup guesses)))
              \/ mode = "exhaustive" /\ \E m \in guesses : ~Good(m) /\ n \in Reverse[m]
          BY <1>6, <1>9, <3>3, <3>4, RoundCovers
        <4>2. H \cup fresh \cup guesses = attempted'
          BY <1>2, <1>5
        <4>3. CASE mode = "exhaustive" /\ \E m \in guesses : ~Good(m) /\ n \in Reverse[m]
          <5>1. n \in BehindSetAside'
            BY <1>2, <1>15, <4>3 DEF BehindSetAside
          <5> QED
            BY <5>1 DEF Excused
        <4> QED
          BY <4>1, <4>2, <4>3
      <3> QED
        BY <1>2, <1>5, <1>16, <3>2, <3>4
    <2> QED
      BY <1>1, <1>5, <1>17, <2>1, <2>2, <2>3, <2>4 DEF Naming, NamedIsTested
  <1> QED
    BY <1>11, <1>13, <1>14, <1>18, <1>19 DEF Naming

(* At the end of the loop the checkpoint gives nothing more.                *)
LEMMA NamingLoop ==
  ASSUME TypeOK, Shape, Naming, NextRound \/ LoopEnds
  PROVE  Naming'
  <1>1. EngineKeeps /\ stage = "loop" /\ made' = made /\ named' = named /\ doubted' = doubted
        /\ catalogue' = catalogue /\ frontier' = frontier /\ attempted' = attempted /\ spoiled' = spoiled
    BY EngineKept DEF NextRound, LoopEnds, memory, history
  <1>2. run' = run
    BY <1>1 DEF EngineKeeps
  <1>3. /\ Found = linked /\ attempted = Held /\ FrontierNames = StoredFrontier
        /\ round = saved.round /\ spoiled = saved.spoiled
    BY <1>1 DEF Shape, LoopIsStored
  <1>4. /\ Found' = Found /\ FrontierNames' = FrontierNames /\ Capped' = Capped /\ Sure' = Sure /\ IsFresh' = IsFresh
    BY <1>1, <1>2 DEF Found, FrontierNames, Capped, Limit, Sure, IsFresh
  <1>5. SetAside' = SetAside /\ Excused' = Excused
    BY <1>1, <1>2, ExcusedSame
  <1>6. FirstNamed' /\ StoredTested' /\ StoredNamed'
    BY <1>1, <1>5 DEF Naming, EngineKeeps, FirstNamed, StoredTested, StoredNamed, StoredSure
  <1>7. TestedIsKnown'
    BY <1>1, <1>4, <1>5 DEF Naming, TestedIsKnown, Past
  <1>8. frontier # {} <=> FrontierNames # {}
    BY DEF FrontierNames, NamesOf
  <1>9. CASE NextRound
    <2>1. stage' = "round" /\ LoopGoesOn
      BY <1>9 DEF NextRound
    <2>2. SavedGoesOn
      BY <1>3, <1>8, <2>1 DEF LoopGoesOn, SavedGoesOn
    <2>3. FirstTested' /\ InRound'
      BY <1>1, <2>1, <2>2 DEF FirstTested, InRound, EngineKeeps
    <2>4. NamedIsTested'
      BY <1>1, <1>4, <1>5, <2>1 DEF Naming, NamedIsTested, EngineKeeps
    <2> QED
      BY <1>6, <1>7, <2>3, <2>4 DEF Naming
  <1>10. CASE LoopEnds
    <2>1. stage' = "store" /\ ~LoopGoesOn
      BY <1>10 DEF LoopEnds
    <2>2. FirstTested' /\ InRound'
      BY <2>1 DEF FirstTested, InRound
    <2>3. ASSUME Sure PROVE named \subseteq attempted \cup Excused
      <3>1. CASE linked # {}
        <4>1. run.mode \in Modes
          BY <1>1 DEF Shape, ModeKnown
        <4>2. Cardinality(Found) < Limit.candidates /\ Cardinality(attempted) < Limit.tested
          BY <2>3, <4>1, BudgetType, LimitType DEF Sure, Capped
        <4>3. ~(round < Limit.rounds /\ FrontierNames # {})
          BY <1>8, <2>1, <4>2 DEF LoopGoesOn
        <4>4. ~SavedGoesOn
          BY <1>3, <4>3 DEF SavedGoesOn
        <4>5. SavedCapped = Capped
          BY <1>3 DEF SavedCapped, Capped
        <4>6. StoredSure
          BY <1>3, <2>3, <3>1, <4>5 DEF Sure, StoredSure
        <4> QED
          BY <1>3, <4>4, <4>6 DEF Naming, StoredNamed
      <3>2. CASE linked = {}
        BY <1>1, <2>3, <3>2 DEF Naming, NamedIsTested
      <3> QED
        BY <3>1, <3>2
    <2>4. NamedIsTested'
      BY <1>1, <1>4, <1>5, <2>1, <2>3 DEF NamedIsTested
    <2> QED
      BY <1>6, <1>7, <2>2, <2>4 DEF Naming
  <1> QED
    BY <1>9, <1>10

(* What is stored is what the process holds.                                *)
LEMMA NamingStore ==
  ASSUME TypeOK, Shape, Shape', Naming, ReportProgress \/ SaveCandidates
  PROVE  Naming'
  <1>1. /\ run' = run /\ catalogue' = catalogue /\ frontier' = frontier /\ attempted' = attempted
        /\ spoiled' = spoiled /\ doubted' = doubted /\ made' = made /\ named' = named
        /\ stage \in {"save", "store"} /\ stage' \in {"loop", "finish"} /\ linked' = linked \cup Found
    BY DEF ReportProgress, SaveCandidates, StoreNames, memory, history
  <1>2. Found' = Found /\ Capped' = Capped /\ Sure' = Sure /\ SetAside' = SetAside /\ Excused' = Excused
    BY <1>1, ExcusedSame DEF Found, Capped, Limit, Sure
  <1>3. linked' = Found /\ Held' = attempted /\ saved'.spoiled = spoiled
    BY <1>1, <1>2 DEF Shape, LoopIsStored
  <1>4. SavedCapped' = Capped
    BY <1>1, <1>3 DEF SavedCapped, Capped, Limit
  <1>5. StoredSure' => Sure
    BY <1>1, <1>3, <1>4 DEF StoredSure, Sure
  <1>6. Sure => /\ attempted \subseteq Found \cup SetAside
                /\ named \subseteq attempted \cup Excused
    BY <1>1 DEF Naming, TestedIsKnown, NamedIsTested, Past
  <1>7. saved'.attempted \subseteq attempted
    BY <1>3 DEF Held
  <1>8. StoredTested' /\ StoredNamed'
    BY <1>1, <1>2, <1>3, <1>5, <1>6, <1>7 DEF StoredTested, StoredNamed
  <1>9. FirstNamed'
    BY <1>1 DEF Naming, FirstNamed
  <1>10. FirstTested' /\ InRound'
    BY <1>1 DEF FirstTested, InRound
  <1>11. TestedIsKnown' /\ NamedIsTested'
    BY <1>1, <1>2, <1>6 DEF TestedIsKnown, NamedIsTested
  <1> QED
    BY <1>8, <1>9, <1>10, <1>11 DEF Naming

LEMMA NamingExit ==
  ASSUME Naming, Exit, run'.mode = run.mode, linked' = linked, saved' = saved, doubted' = doubted,
         named' = named, made' = made
  PROVE  Naming'
  <1>1. stage' = "off"
    BY DEF Exit
  <1>2. SetAside' = SetAside /\ Excused' = Excused /\ Held' = Held /\ StoredFrontier' = StoredFrontier
        /\ SavedCapped' = SavedCapped /\ SavedGoesOn' = SavedGoesOn
    BY ExcusedSame, StoredSame
  <1>3. StoredSure' = StoredSure
    BY <1>2 DEF StoredSure
  <1>4. FirstNamed' /\ StoredTested' /\ StoredNamed'
    BY <1>2, <1>3 DEF Naming, FirstNamed, StoredTested, StoredNamed
  <1>5. FirstTested' /\ InRound' /\ TestedIsKnown' /\ NamedIsTested'
    BY <1>1 DEF FirstTested, InRound, TestedIsKnown, NamedIsTested, Past
  <1> QED
    BY <1>4, <1>5 DEF Naming

(* A process that resumes holds what is stored, with its verdicts.          *)
LEMMA NamingLaunch ==
  ASSUME TypeOK, Shape, Shape', Rows, Naming, NEW mode \in Modes, NEW resume \in BOOLEAN, Launch(mode, resume)
  PROVE  Naming'
  <1>1. CASE UNCHANGED <<run, saved, linked, named, made, doubted>>
    <2>1. SetAside' = SetAside /\ Excused' = Excused /\ Held' = Held /\ StoredFrontier' = StoredFrontier
          /\ SavedCapped' = SavedCapped /\ SavedGoesOn' = SavedGoesOn
      BY <1>1, ExcusedSame, StoredSame
    <2>2. StoredSure' = StoredSure
      BY <1>1, <2>1 DEF StoredSure
    <2>3. FirstNamed' /\ StoredTested' /\ StoredNamed'
      BY <1>1, <2>1, <2>2 DEF Naming, FirstNamed, StoredTested, StoredNamed
    <2>4. CASE linked # {} /\ ResumeFrom(saved)
      <3>1. /\ frontier' = {[name |-> n, verdict |-> row[n]] : n \in saved.frontier \cap linked}
            /\ spoiled' = saved.spoiled /\ stage' = "loop"
        BY <2>4 DEF ResumeFrom
      <3>2. Found' = linked /\ attempted' = Held
        BY <1>1, <2>1, <3>1 DEF Shape, LoopIsStored
      <3>3. Capped' = SavedCapped
        BY <1>1, <3>2 DEF Capped, SavedCapped, Limit
      <3>4. Sure' => StoredSure
        BY <1>1, <2>4, <3>1, <3>3 DEF Sure, StoredSure
      <3>5. TestedIsKnown'
        BY <2>1, <3>2, <3>4 DEF Naming, StoredTested, TestedIsKnown, Held
      <3>6. \A e \in frontier' : e.name \in linked /\ e.verdict = row[e.name]
        BY <3>1
      <3>7. ~doubted => IsFresh'
        BY <1>1, <3>6 DEF Rows, StoredTrue, IsFresh
      <3>8. NamedIsTested'
        BY <1>1, <2>4, <3>1, <3>7 DEF NamedIsTested, Sure
      <3>9. FirstTested' /\ InRound'
        BY <3>1 DEF FirstTested, InRound
      <3> QED
        BY <2>3, <3>5, <3>8, <3>9 DEF Naming
    <2>5. CASE FromNothing
      <3>1. stage' = "collect"
        BY <2>5 DEF FromNothing
      <3>2. FirstTested' /\ InRound' /\ TestedIsKnown' /\ NamedIsTested'
        BY <3>1 DEF FirstTested, InRound, TestedIsKnown, NamedIsTested, Past
      <3> QED
        BY <2>3, <3>2 DEF Naming
    <2>6. CASE NewRun(mode)
      <3>1. stage' = "collect"
        BY <2>6 DEF NewRun, FromNothing
      <3>2. FirstTested' /\ InRound' /\ TestedIsKnown' /\ NamedIsTested'
        BY <3>1 DEF FirstTested, InRound, TestedIsKnown, NamedIsTested, Past
      <3> QED
        BY <2>3, <3>2 DEF Naming
    <2> QED
      BY <2>4, <2>5, <2>6 DEF Launch
  <1>2. CASE NewRun(mode)
    <2>1. stage' = "collect" /\ linked' = {} /\ named' = {}
      BY <1>2 DEF NewRun, FromNothing
    <2> QED
      BY <2>1 DEF Naming, FirstNamed, FirstTested, StoredTested, StoredNamed, StoredSure, InRound,
                  TestedIsKnown, NamedIsTested, Past
  <1> QED
    BY <1>1, <1>2 DEF Launch

LEMMA NamingQuiet ==
  ASSUME Naming, Interrupt \/ UNCHANGED vars
  PROVE  Naming'
  <1>1. UNCHANGED <<run, saved, linked, stage, catalogue, frontier, attempted, spoiled, named, made, doubted>>
    BY DEF Interrupt, vars, database, memory, history
  <1>2. /\ SetAside' = SetAside /\ Excused' = Excused /\ Held' = Held /\ StoredFrontier' = StoredFrontier
        /\ SavedCapped' = SavedCapped /\ SavedGoesOn' = SavedGoesOn
        /\ Found' = Found /\ FrontierNames' = FrontierNames /\ Capped' = Capped /\ IsFresh' = IsFresh
    BY <1>1, ExcusedSame, StoredSame DEF Found, FrontierNames, Capped, Limit, IsFresh
  <1>3. Sure' = Sure /\ StoredSure' = StoredSure
    BY <1>1, <1>2 DEF Sure, StoredSure
  <1>4. FirstNamed' /\ FirstTested' /\ StoredTested'
    BY <1>1, <1>2, <1>3 DEF Naming, FirstNamed, FirstTested, StoredTested
  <1>5. StoredNamed' /\ InRound'
    BY <1>1, <1>2, <1>3 DEF Naming, StoredNamed, InRound
  <1>6. TestedIsKnown' /\ NamedIsTested'
    BY <1>1, <1>2, <1>3 DEF Naming, TestedIsKnown, NamedIsTested
  <1> QED
    BY <1>4, <1>5, <1>6 DEF Naming

-----------------------------------------------------------------------------
(* All of it.                                                               *)

(* The inductive invariant.                                                 *)
RunInv == IInv /\ Shape /\ Rows /\ Naming /\ NamedIsKept

LEMMA RunInvInit == Init => RunInv
  <1>1. Init => NamedIsKept
    BY DEF Init, NamedIsKept, Complete
  <1> QED
    BY <1>1, InvInit, ShapeInit, RowsInit, NamingInit DEF RunInv

(* While a process works on a run it is not complete.                       *)
LEMMA OpenIsIncomplete ==
  ASSUME IInv, stage # "off"
  PROVE  ~Complete
  BY DEF IInv, RunIsOpen, Complete

LEMMA OpenStays ==
  ASSUME IInv, stage # "off", run' = run
  PROVE  NamedIsKept'
  BY OpenIsIncomplete DEF NamedIsKept, Complete

LEMMA EarlyHasNone ==
  ASSUME IInv, stage \in Early
  PROVE  linked = {}
  BY DEF IInv, EarlyIsEmpty

(* The steps, one after another.                                            *)
LEMMA RunInvLookUps ==
  ASSUME RunInv, TypeOK',
         Collect \/ Initial \/ AddDNSSeeds \/ AddZoneSeeds \/ AddPTRSeeds \/ Round \/ AddCNAMESeeds
  PROVE  Shape' /\ Rows' /\ Naming' /\ NamedIsKept'
  <1>1. TypeOK /\ IInv /\ Shape /\ Rows /\ Naming
    BY DEF RunInv, IInv
  <1>2. Unchanging /\ stage # "off"
    BY DEF Collect, Initial, AddDNSSeeds, AddZoneSeeds, AddPTRSeeds, Round, AddCNAMESeeds
  <1>3. NamedIsKept'
    <2>1. run' = run
      BY <1>2 DEF Unchanging, database
    <2> QED
      BY <1>1, <1>2, <2>1, OpenStays
  <1>4. Shape'
    BY <1>1, ShapeLookUps, ShapeCollect
  <1>5. Collect \/ Initial \/ AddDNSSeeds \/ AddZoneSeeds => linked = {}
    BY <1>1, EarlyHasNone DEF Collect, Initial, AddDNSSeeds, AddZoneSeeds, Early
  <1>6. ASSUME ~doubted' PROVE Rows'
    BY <1>1, <1>5, <1>6, RowsCollect, RowsInitial, RowsRecords, RowsZone, RowsPTR, RowsRound, RowsAliases
  <1>7. ASSUME ~doubted' PROVE Naming'
    BY <1>1, <1>5, <1>7, NamingCollect, NamingInitial, NamingRecords, NamingZone, NamingPTR, NamingRound,
       NamingAliases
  <1> QED
    BY <1>3, <1>4, <1>6, <1>7, RowsUndoubted, NamingUndoubted

LEMMA RunInvLoop ==
  ASSUME RunInv, NextRound \/ LoopEnds \/ ReportProgress \/ SaveCandidates
  PROVE  Shape' /\ Rows' /\ Naming' /\ NamedIsKept'
  <1>1. TypeOK /\ IInv /\ Shape /\ Rows /\ Naming
    BY DEF RunInv, IInv
  <1>2. stage # "off" /\ run' = run
    BY DEF NextRound, LoopEnds, ReportProgress, SaveCandidates, Unchanging, database
  <1>3. NamedIsKept' /\ ~Complete
    BY <1>1, <1>2, OpenStays, OpenIsIncomplete
  <1>4. Shape'
    BY <1>1, ShapeLoop, ShapeStore
  <1> QED
    BY <1>1, <1>3, <1>4, RowsLoop, RowsStore, NamingLoop, NamingStore

(* A process that exits, its run unfinished.                                *)
LEMMA RunInvExit ==
  ASSUME RunInv, Stop \/ StoreFails \/ Crash \/ ProgressFails
  PROVE  Shape' /\ Rows' /\ Naming' /\ NamedIsKept'
  <1>1. IInv /\ Shape /\ Rows /\ Naming
    BY DEF RunInv
  <1>2. /\ Exit /\ stage # "off" /\ saved' = saved /\ linked' = linked /\ row' = row
        /\ named' = named /\ made' = made /\ doubted' = doubted
    BY DEF Stop, StoreFails, Crash, ProgressFails, database, history
  <1>3. run' = run \/ run' = Closed("FAILED", TRUE)
    BY DEF Stop, StoreFails, Crash, ProgressFails, database
  <1>4. run'.mode = run.mode /\ ~Complete'
    BY <1>1, <1>2, <1>3, OpenIsIncomplete DEF Closed, Complete
  <1>5. NamedIsKept'
    BY <1>4 DEF NamedIsKept
  <1> QED
    BY <1>1, <1>2, <1>4, <1>5, ShapeExit, RowsExit, NamingExit

(* A run that ends complete has its names, and they are active.             *)
LEMMA RunInvFinish ==
  ASSUME RunInv, Finish
  PROVE  Shape' /\ Rows' /\ Naming' /\ NamedIsKept'
  <1>1. IInv /\ Shape /\ Rows /\ Naming
    BY DEF RunInv
  <1>2. /\ Exit /\ stage = "finish" /\ saved' = saved /\ linked' = linked /\ row' = row
        /\ named' = named /\ made' = made /\ doubted' = doubted
        /\ run' = Closed("COMPLETED", Partial) /\ active' = IF Partial THEN active ELSE linked
    BY DEF Finish
  <1>3. run'.mode = run.mode /\ (Complete' => ~Partial)
    BY <1>2 DEF Closed, Complete
  <1>4. Shape' /\ Rows' /\ Naming'
    BY <1>1, <1>2, <1>3, ShapeExit, RowsExit, NamingExit
  <1>5. NamedIsKept'
    <2>1. SUFFICES ASSUME Complete', ~doubted' PROVE (named \subseteq active \cup Excused)'
      BY DEF NamedIsKept, Excused
    <2>2. ~Partial /\ active' = linked
      BY <1>2, <1>3, <2>1
    <2>3. Sure
      BY <1>2, <2>1, <2>2 DEF Partial, Sure, Capped
    <2>4. named \subseteq attempted \cup Excused /\ attempted \subseteq Found \cup SetAside
      BY <1>1, <1>2, <2>3 DEF Naming, NamedIsTested, TestedIsKnown, Past
    <2>5. Found = linked
      BY <1>1, <1>2 DEF Shape, LoopIsStored
    <2>6. Excused' = Excused
      BY <1>2, <1>3, ExcusedSame
    <2> QED
      BY <1>2, <2>2, <2>4, <2>5, <2>6 DEF Excused
  <1> QED
    BY <1>4, <1>5

LEMMA RunInvLaunch ==
  ASSUME RunInv, NEW mode \in Modes, NEW resume \in BOOLEAN, Launch(mode, resume)
  PROVE  Shape' /\ Rows' /\ Naming' /\ NamedIsKept'
  <1>1. TypeOK /\ IInv /\ Shape /\ Rows /\ Naming
    BY DEF RunInv, IInv
  <1>2. run'.status = "RUNNING"
    BY DEF Launch, NewRun
  <1>3. NamedIsKept'
    BY <1>2 DEF NamedIsKept, Complete
  <1> QED
    BY <1>1, <1>3, ShapeLaunch, RowsLaunch, NamingLaunch

LEMMA RunInvQuiet ==
  ASSUME RunInv, Interrupt \/ UNCHANGED vars
  PROVE  Shape' /\ Rows' /\ Naming' /\ NamedIsKept'
  <1>1. UNCHANGED <<run, active, named, made, doubted>>
    BY DEF Interrupt, vars, database, history
  <1>2. NamedIsKept'
    BY <1>1 DEF RunInv, NamedIsKept, Complete, SetAside, BehindSetAside
  <1> QED
    BY <1>2, ShapeQuiet, RowsQuiet, NamingQuiet DEF RunInv

LEMMA RunInvNext == RunInv /\ [Next]_vars => RunInv'
  <1> SUFFICES ASSUME RunInv, [Next]_vars PROVE RunInv'
    OBVIOUS
  <1>1. IInv'
    BY InvNext DEF RunInv
  <1>2. TypeOK'
    BY <1>1 DEF IInv
  <1>3. Shape' /\ Rows' /\ Naming' /\ NamedIsKept'
    BY <1>2, RunInvLookUps, RunInvLoop, RunInvExit, RunInvFinish, RunInvLaunch, RunInvQuiet DEF Next, Step, Rest
  <1> QED
    BY <1>1, <1>3 DEF RunInv

(* The inductive invariant holds of every behaviour, for every network,     *)
(* every limit, and whatever is interrupted, fails or crashes (recon.go,    *)
(* Discover; cmd/recon.go, runRecon).                                       *)
THEOREM RunInvariance == Spec => []RunInv
  BY RunInvInit, RunInvNext, PTL DEF Spec

(* The verdicts stored with a complete run whose queries were all answered  *)
(* are those the network shows of the names: a wildcard is never stored as  *)
(* a host, nor the reverse, and no interruption in between changes what a   *)
(* later process stores (recon.go:581).                                    *)
THEOREM RowsHold == Spec => []RowsAreTrue
  <1>1. RunInv => RowsAreTrue
    BY DEF RunInv, Rows
  <1> QED
    BY <1>1, RunInvariance, PTL

(* A complete run whose queries were all answered has every name that its   *)
(* sources gave it among the active ones, whatever interrupted it, but for  *)
(* the names that were made and set aside, and what only lies behind those  *)
(* (recon.go:335).                                                          *)
THEOREM NamesAreKept == Spec => []NamedIsKept
  <1>1. RunInv => NamedIsKept
    BY DEF RunInv
  <1> QED
    BY <1>1, RunInvariance, PTL
=============================================================================
