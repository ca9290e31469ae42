----------------------------- MODULE VerifyRun ------------------------------
(***************************************************************************)
(* The verify command (cmd/verify.go, internal/verify/engine.go): a         *)
(* producer feeds the stored hosts to workers, a worker examines a host     *)
(* again and writes the timeline, and the main goroutine stores each result *)
(* and notifies of what changed, through the dispatcher of Dispatcher.      *)
(*                                                                         *)
(* Of an analysis only its classification is kept. What the collectors find *)
(* is a choice, and errors are choices bounded by MaxFaults.                *)
(***************************************************************************)
EXTENDS Transitions, FiniteSets, Sequences

CONSTANTS
  Hosts,
  Found,      \* the levels an examination may come to
  Subject,    \* [Hosts \X Found -> subjects], what an alert is about
  Verifiers,  \* the workers of verify
  Senders, Notifiers, Minimum, Capacity, \* of the dispatcher
  MaxRuns, MaxFaults,                    \* bounds
  main, None

VARIABLES
  stored,      \* hosts.classification
  timeline,    \* host_snapshots, as <<run, level>>
  phase,       \* "off", "run", or "flush" when only Flush is left
  run,         \* how many times verify was started
  loaded,      \* the classification each selected host was loaded with
  todo,        \* hosts the producer has not sent
  channel,     \* hostChan
  fed,         \* hostChan is closed
  worker,      \* what each worker does: [at, host, result]
  results,     \* resultsChan
  current,     \* the change main has stored and not yet dispatched, or None
  saved,       \* the classifications this run stored
  errors,      \* persistenceErrors is not empty
  interrupted, \* the context has ended
  faults,
  \* the dispatcher of this process
  batch, seen, caller, queue, closed, hand, left, running, flush, accepted, dropped, offered

dispatcher == <<batch, seen, caller, queue, closed, hand, left, running, flush, accepted, dropped, offered>>
store == <<stored, timeline>>
flow == <<todo, channel, fed, worker, results>>
vars == <<store, phase, run, loaded, flow, current, saved, errors, interrupted, faults, dispatcher>>

Change(h, old, new) ==
  [host |-> h, state |-> StateChange(old, new), old |-> old, new |-> new,
   subject |-> Subject[<<h, new>>], kept |-> TRUE]

Changes == {Change(h, old, new) : h \in Hosts, old \in Found, new \in Found}

ASSUME VerifyAssumption ==
  /\ IsFiniteSet(Hosts) /\ Found \subseteq Levels
  /\ Subject \in [Hosts \X Found -> Hosts \cup {main}]
  /\ IsFiniteSet(Verifiers) /\ Verifiers # {} /\ Senders # {}
  /\ MaxRuns \in Nat /\ MaxFaults \in Nat
  /\ None \notin Changes \cup ((1 .. 1) \X Changes) \cup Found \cup {"ERROR", "INCOMPLETE"}

D == INSTANCE Dispatcher WITH Callers <- {main}, Results <- Changes, Workers <- Senders, MaxBatches <- 1

Idle == [at |-> "idle", host |-> None, result |-> None]
Exited == [at |-> "exited", host |-> None, result |-> None]

Nobody == [h \in Hosts |-> NoLevel]
Selected == {h \in Hosts : loaded[h] # NoLevel}

Init ==
  /\ stored \in [Hosts -> Found] /\ timeline = [h \in Hosts |-> <<>>]
  /\ phase = "off" /\ run = 0 /\ loaded = Nobody /\ saved = Nobody
  /\ todo = {} /\ channel = {} /\ fed = TRUE /\ results = {}
  /\ worker = [w \in Verifiers |-> Exited]
  /\ current = None /\ errors = FALSE /\ interrupted = FALSE
  /\ faults = 0
  /\ D!DispatcherInit

Fails == faults < MaxFaults /\ faults' = faults + 1

-----------------------------------------------------------------------------
(* The command.                                                             *)

NewDispatcher ==
  /\ batch' = 1 /\ seen' = {} /\ caller' = [c \in {main} |-> None]
  /\ queue' = {} /\ closed' = FALSE
  /\ hand' = [s \in Senders |-> None] /\ left' = [s \in Senders |-> {}]
  /\ running' = Senders /\ flush' = "no"
  /\ accepted' = {} /\ dropped' = {} /\ offered' = {}

(* --only-risky leaves out what is not a risk, --classification what has    *)
(* not that level.                                                          *)
Safe == {"HEALTHY", "UNKNOWN", "INSUFFICIENT_EVIDENCE"}

Start ==
  /\ phase = "off" /\ run < MaxRuns
  /\ \E onlyRisky \in BOOLEAN, filter \in Found \cup {NoLevel} :
       LET hosts == {h \in Hosts : (onlyRisky => stored[h] \notin Safe) /\ filter \in {NoLevel, stored[h]}}
       IN /\ hosts # {}
          /\ loaded' = [h \in Hosts |-> IF h \in hosts THEN stored[h] ELSE NoLevel]
          /\ todo' = hosts
  /\ phase' = "run" /\ run' = run + 1
  /\ channel' = {} /\ fed' = FALSE /\ results' = {}
  /\ worker' = [w \in Verifiers |-> Idle]
  /\ saved' = Nobody /\ current' = None /\ errors' = FALSE /\ interrupted' = FALSE
  /\ NewDispatcher
  /\ UNCHANGED <<store, faults>>

(* The deferred Flush, when the range over resultsChan has ended: it is     *)
(* closed once every worker has returned.                                   *)
EndRun ==
  /\ phase = "run" /\ results = {} /\ current = None /\ caller[main] = None
  /\ \A w \in Verifiers : worker[w].at = "exited"
  /\ phase' = "flush" /\ D!Flush
  /\ UNCHANGED <<store, run, loaded, flow, current, saved, errors, interrupted, faults>>

Exit ==
  /\ phase = "flush" /\ phase' = "off" /\ D!FlushReturns
  /\ UNCHANGED <<store, run, loaded, flow, current, saved, errors, interrupted, faults>>

-----------------------------------------------------------------------------
(* The producer.                                                            *)

Feed(h) ==
  /\ phase = "run" /\ ~fed /\ h \in todo /\ Cardinality(channel) < Cardinality(Verifiers)
  /\ todo' = todo \ {h} /\ channel' = channel \cup {h}
  /\ UNCHANGED <<store, phase, run, loaded, fed, worker, results, current, saved, errors, interrupted, faults, dispatcher>>

(* A slip: the producer returns on interruption without closing hostChan.   *)
FeedLeavesOpen ==
  /\ phase = "run" /\ ~fed /\ (todo = {} \/ interrupted)
  /\ todo' = {} /\ fed' = ~interrupted
  /\ UNCHANGED <<store, phase, run, loaded, channel, worker, results, current, saved, errors, interrupted, faults, dispatcher>>

FeedEnds ==
  /\ phase = "run" /\ ~fed /\ (todo = {} \/ interrupted)
  /\ todo' = {} /\ fed' = TRUE
  /\ UNCHANGED <<store, phase, run, loaded, channel, worker, results, current, saved, errors, interrupted, faults, dispatcher>>

-----------------------------------------------------------------------------
(* The workers.                                                             *)

TakeHost(w) ==
  /\ phase = "run" /\ worker[w].at = "idle"
  /\ \/ \E h \in channel :
          /\ channel' = channel \ {h}
          /\ worker' = [worker EXCEPT ![w] = [at |-> "verify", host |-> h, result |-> None]]
     \/ /\ fed /\ channel = {} /\ UNCHANGED channel
        /\ worker' = [worker EXCEPT ![w] = Exited]
  /\ UNCHANGED <<store, phase, run, loaded, todo, fed, results, current, saved, errors, interrupted, faults, dispatcher>>

(* A slip: an examination that failed goes on to the snapshot.              *)
ExamineGoesOn(w) ==
  /\ phase = "run" /\ worker[w].at = "verify"
  /\ \E r \in Found \cup {"ERROR", "INCOMPLETE"} :
       worker' = [worker EXCEPT ![w] =
         [at |-> IF r # loaded[@.host] THEN "snapshot" ELSE "send", host |-> @.host, result |-> r]]
  /\ UNCHANGED <<store, phase, run, loaded, todo, channel, fed, results, current, saved, errors, interrupted, faults, dispatcher>>

(* Engine.Verify up to the comparison with what was loaded.                 *)
Examine(w) ==
  /\ phase = "run" /\ worker[w].at = "verify"
  /\ \E r \in Found \cup {"ERROR", "INCOMPLETE"} :
       worker' = [worker EXCEPT ![w] =
         [at |-> IF r \in Found /\ r # loaded[@.host] THEN "snapshot" ELSE "send", host |-> @.host, result |-> r]]
  /\ UNCHANGED <<store, phase, run, loaded, todo, channel, fed, results, current, saved, errors, interrupted, faults, dispatcher>>

SaveSnapshot(w) ==
  /\ phase = "run" /\ worker[w].at = "snapshot"
  /\ \/ /\ timeline' = [timeline EXCEPT ![worker[w].host] = Append(@, <<run, worker[w].result>>)]
        /\ worker' = [worker EXCEPT ![w] = [at |-> "send", host |-> @.host, result |-> @.result]]
        /\ UNCHANGED faults
     \/ /\ Fails /\ UNCHANGED timeline
        /\ worker' = [worker EXCEPT ![w] = [at |-> "send", host |-> @.host, result |-> "ERROR"]]
  /\ UNCHANGED <<stored, phase, run, loaded, todo, channel, fed, results, current, saved, errors, interrupted, dispatcher>>

(* The select of the worker: resultsChan has room for every host, and after *)
(* the context has ended either case may be taken.                          *)
SendResult(w) ==
  /\ phase = "run" /\ worker[w].at = "send"
  /\ \/ /\ results' = results \cup {[host |-> worker[w].host, result |-> worker[w].result]}
        /\ worker' = [worker EXCEPT ![w] = Idle]
     \/ /\ interrupted /\ UNCHANGED results
        /\ worker' = [worker EXCEPT ![w] = Exited]
  /\ UNCHANGED <<store, phase, run, loaded, todo, channel, fed, current, saved, errors, interrupted, faults, dispatcher>>

-----------------------------------------------------------------------------
(* The main goroutine.                                                      *)

(* A slip: the error of persistVerifiedAnalysis is printed only.            *)
ConsumePrintsError ==
  /\ phase = "run" /\ current = None /\ caller[main] = None
  /\ \E r \in results :
       LET h == r.host
       IN /\ results' = results \ {r}
          /\ \/ r.result \notin Found /\ UNCHANGED <<stored, saved, current, faults>>
             \/ r.result \in Found /\ Fails /\ UNCHANGED <<stored, saved, current>>
             \/ /\ r.result \in Found
                /\ stored' = [stored EXCEPT ![h] = r.result] /\ saved' = [saved EXCEPT ![h] = r.result]
                /\ current' = IF r.result # loaded[h] THEN Change(h, loaded[h], r.result) ELSE None
                /\ UNCHANGED faults
  /\ UNCHANGED <<timeline, phase, run, loaded, todo, channel, fed, worker, errors, interrupted, dispatcher>>

(* A slip: a result that could not be stored is announced all the same.     *)
ConsumeGoesOn ==
  /\ phase = "run" /\ current = None /\ caller[main] = None
  /\ \E r \in results :
       LET h == r.host
       IN /\ results' = results \ {r}
          /\ \/ r.result \notin Found /\ UNCHANGED <<stored, saved, current, errors, faults>>
             \/ /\ r.result \in Found
                /\ \/ Fails /\ errors' = TRUE /\ UNCHANGED <<stored, saved>>
                   \/ /\ stored' = [stored EXCEPT ![h] = r.result] /\ saved' = [saved EXCEPT ![h] = r.result]
                      /\ UNCHANGED <<errors, faults>>
                /\ current' = IF r.result # loaded[h] THEN Change(h, loaded[h], r.result) ELSE None
  /\ UNCHANGED <<timeline, phase, run, loaded, todo, channel, fed, worker, interrupted, dispatcher>>

(* One result up to the end of persistVerifiedAnalysis. Neither it nor what *)
(* follows looks at the context.                                            *)
Consume ==
  /\ phase = "run" /\ current = None /\ caller[main] = None
  /\ \E r \in results :
       LET h == r.host
       IN /\ results' = results \ {r}
          /\ \/ r.result \notin Found /\ UNCHANGED <<stored, saved, current, errors, faults>>
             \/ r.result \in Found /\ Fails /\ errors' = TRUE /\ UNCHANGED <<stored, saved, current>>
             \/ /\ r.result \in Found
                /\ stored' = [stored EXCEPT ![h] = r.result] /\ saved' = [saved EXCEPT ![h] = r.result]
                /\ current' = IF r.result # loaded[h] THEN Change(h, loaded[h], r.result) ELSE None
                /\ UNCHANGED <<errors, faults>>
  /\ UNCHANGED <<timeline, phase, run, loaded, todo, channel, fed, worker, interrupted, dispatcher>>

(* A slip: nothing is dispatched once the context has ended.                *)
AnnounceUnlessInterrupted ==
  /\ phase = "run" /\ current # None /\ current' = None
  /\ IF ~interrupted THEN D!Dispatch(main, current) ELSE UNCHANGED dispatcher
  /\ UNCHANGED <<store, phase, run, loaded, flow, saved, errors, interrupted, faults>>

(* Dispatch, for a change of any printed severity.                          *)
Announce ==
  /\ phase = "run" /\ current # None /\ current' = None
  /\ IF TransitionSeverity(current.old, current.new) # "NONE"
     THEN D!Dispatch(main, current) ELSE UNCHANGED dispatcher
  /\ UNCHANGED <<store, phase, run, loaded, flow, saved, errors, interrupted, faults>>

Enqueue ==
  /\ phase = "run" /\ D!Enqueue(main)
  /\ UNCHANGED <<store, phase, run, loaded, flow, current, saved, errors, interrupted, faults>>

SenderStep(s) ==
  /\ phase # "off" /\ D!WorkerStep(s)
  /\ UNCHANGED <<store, phase, run, loaded, flow, current, saved, errors, interrupted, faults>>

-----------------------------------------------------------------------------
(* The environment.                                                         *)

Interrupt ==
  /\ phase = "run" /\ ~interrupted /\ Fails /\ interrupted' = TRUE
  /\ UNCHANGED <<store, phase, run, loaded, flow, current, saved, errors, dispatcher>>

(* The process dies; the next Start sets what is left of it anew.           *)
Crash ==
  /\ phase # "off" /\ Fails /\ phase' = "off"
  /\ todo' = {} /\ channel' = {} /\ fed' = TRUE /\ results' = {}
  /\ worker' = [w \in Verifiers |-> Exited]
  /\ current' = None
  /\ NewDispatcher
  /\ UNCHANGED <<store, run, loaded, saved, errors, interrupted>>

Main == EndRun \/ Exit \/ Consume \/ Announce \/ Enqueue
VerifierStep(w) == TakeHost(w) \/ Examine(w) \/ SaveSnapshot(w) \/ SendResult(w)

Next ==
  \/ Start \/ Main \/ FeedEnds \/ Interrupt \/ Crash
  \/ \E h \in Hosts : Feed(h)
  \/ \E w \in Verifiers : VerifierStep(w)
  \/ \E s \in Senders : SenderStep(s)

Spec == Init /\ [][Next]_vars

(* Every goroutine of a running process runs: examinations end with their   *)
(* timeouts and Send with its own.                                          *)
Fairness ==
  /\ WF_vars(Main) /\ WF_vars(FeedEnds \/ \E h \in Hosts : Feed(h))
  /\ \A w \in Verifiers : WF_vars(VerifierStep(w))
  /\ \A s \in Senders : WF_vars(SenderStep(s))

FairSpec == Spec /\ Fairness

-----------------------------------------------------------------------------
(* Properties.                                                              *)

Alerts == accepted \cup dropped \cup ({caller[main]} \ {None})
LastOf(h) == timeline[h][Len(timeline[h])]

TypeOK ==
  /\ stored \in [Hosts -> Found] /\ timeline \in [Hosts -> Seq((1 .. MaxRuns) \X Found)]
  /\ phase \in {"off", "run", "flush"} /\ run \in 0 .. MaxRuns
  /\ loaded \in [Hosts -> Found \cup {NoLevel}] /\ saved \in [Hosts -> Found \cup {NoLevel}]
  /\ todo \subseteq Hosts /\ channel \subseteq Hosts /\ fed \in BOOLEAN
  /\ worker \in [Verifiers -> [at : {"idle", "verify", "snapshot", "send", "exited"},
                               host : Hosts \cup {None},
                               result : Found \cup {"ERROR", "INCOMPLETE", None}]]
  /\ results \subseteq [host : Hosts, result : Found \cup {"ERROR", "INCOMPLETE"}]
  /\ current \in Changes \cup {None}
  /\ errors \in BOOLEAN /\ interrupted \in BOOLEAN
  /\ faults \in 0 .. MaxFaults
  /\ D!DispatcherTypeOK

(* Nothing is announced that was not stored first: a notification says what *)
(* the next run will start from.                                            *)
AlertIsStored ==
  \A e \in Alerts : stored[e[2].host] = e[2].new /\ loaded[e[2].host] = e[2].old

(* When main is done with the results, interrupted or not, every change it  *)
(* stored that passes the filters was queued or met a full queue, itself or *)
(* as another host's with the same identity.                                *)
ChangeIsAnnounced ==
  phase = "flush" => \A h \in Selected :
    LET c == Change(h, loaded[h], saved[h])
    IN saved[h] \notin {NoLevel, loaded[h]} /\ Notifiers # {} /\ D!Passes(c) =>
         \E e \in accepted \cup dropped : D!Identity(e[2]) = D!Identity(c)

(* When a run that returns no error and was not interrupted is over, the    *)
(* timeline ends where the store does for every host of it that changed,    *)
(* and everything queued was offered to every notifier.                     *)
CleanRunAgrees ==
  phase = "off" /\ flush = "returned" /\ ~errors /\ ~interrupted =>
    /\ \A h \in Hosts : timeline[h] # <<>> /\ LastOf(h)[1] = run => LastOf(h)[2] = stored[h]
    /\ \A e \in accepted, n \in Notifiers : <<e, n>> \in offered

(* A run always ends.                                                       *)
RunEnds == phase = "run" ~> phase = "off"
=============================================================================
