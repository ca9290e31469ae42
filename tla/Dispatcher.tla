----------------------------- MODULE Dispatcher -----------------------------
(***************************************************************************)
(* The notification dispatcher (pkg/notify/dispatcher.go): goroutines that  *)
(* call Dispatch, a bounded queue that never blocks them, deduplication     *)
(* within a batch, workers that offer each event to every notifier, and     *)
(* Flush, which closes the queue and waits for the workers.                 *)
(*                                                                         *)
(* The order of the queue and of the notifiers tells no property apart and  *)
(* is left open.                                                            *)
(***************************************************************************)
EXTENDS Transitions, FiniteSets

CONSTANTS
  Callers,    \* the goroutines that call Dispatch
  Results,    \* what they dispatch: [state, old, new, subject, kept]
  Workers, Notifiers,
  Minimum,    \* the rank of the least severity to notify
  Capacity,   \* of the queue, 1000 in the code
  MaxBatches, \* bound: batches of one dispatcher
  None

ASSUME DispatcherAssumption ==
  /\ IsFiniteSet(Results) /\ Workers # {}
  /\ Minimum \in 1 .. 5 /\ Capacity \in Nat /\ MaxBatches \in Nat \ {0}
  /\ None \notin (1 .. MaxBatches) \X Results

VARIABLES
  batch,     \* the batches begun
  seen,      \* identities of this batch
  caller,    \* the event a caller is about to enqueue, or None
  queue,
  closed,
  hand,      \* the event a worker has taken, or None
  left,      \* the notifiers a worker has still to offer its event to
  running,   \* workers that have not returned
  flush,     \* "no", "waiting" for the workers, "returned"
  accepted,  \* events that were put in the queue
  dropped,   \* events the queue had no room for
  offered    \* <<event, notifier>> of every call of Send

dispatcherVars == <<batch, seen, caller, queue, closed, hand, left, running, flush, accepted, dropped, offered>>

(* What decides whether an event repeats another: the change, the vector    *)
(* and the resource, a zone cut for delegations, but not the host.          *)
Identity(r) == <<r.state, r.subject, r.old, r.new>>

(* The filters of Dispatch and DispatchAnalysis; kept is whether the        *)
(* analysis is a candidate, a confirmation or of no result state.           *)
Passes(r) ==
  /\ r.state \notin {"UNCHANGED", "INCOMPLETE"}
  /\ r.state = "DISCOVERED" => r.kept
  /\ ~SuppressedInitial(r.old, r.new)
  /\ AlertSeverity(r.old, r.new) >= Minimum

Events == (1 .. MaxBatches) \X Results

DispatcherInit ==
  /\ batch = 1 /\ seen = {}
  /\ caller = [c \in Callers |-> None]
  /\ queue = {} /\ closed = FALSE
  /\ hand = [w \in Workers |-> None] /\ left = [w \in Workers |-> {}]
  /\ running = Workers /\ flush = "no"
  /\ accepted = {} /\ dropped = {} /\ offered = {}

BeginBatch ==
  /\ batch < MaxBatches
  /\ batch' = batch + 1 /\ seen' = {}
  /\ UNCHANGED <<caller, queue, closed, hand, left, running, flush, accepted, dropped, offered>>

(* Slips of Dispatch: the identity is never noted, or noted before the      *)
(* filters have been passed.                                                *)
DispatchUnmarked(c, r) ==
  /\ caller[c] = None
  /\ caller' = IF Passes(r) /\ Identity(r) \notin seen /\ Notifiers # {}
               THEN [caller EXCEPT ![c] = <<batch, r>>] ELSE caller
  /\ UNCHANGED <<batch, seen, queue, closed, hand, left, running, flush, accepted, dropped, offered>>
DispatchMarksFirst(c, r) ==
  /\ caller[c] = None
  /\ seen' = seen \cup {Identity(r)}
  /\ caller' = IF Passes(r) /\ Identity(r) \notin seen /\ Notifiers # {}
               THEN [caller EXCEPT ![c] = <<batch, r>>] ELSE caller
  /\ UNCHANGED <<batch, queue, closed, hand, left, running, flush, accepted, dropped, offered>>

(* Dispatch up to the end of its first critical section.                    *)
Dispatch(c, r) ==
  /\ caller[c] = None
  /\ \/ /\ Passes(r) /\ Identity(r) \notin seen
        /\ seen' = seen \cup {Identity(r)}
        /\ caller' = IF Notifiers # {} THEN [caller EXCEPT ![c] = <<batch, r>>] ELSE caller
     \/ ~(Passes(r) /\ Identity(r) \notin seen) /\ UNCHANGED <<seen, caller>>
  /\ UNCHANGED <<batch, queue, closed, hand, left, running, flush, accepted, dropped, offered>>

(* A slip: no look at closed.                                               *)
EnqueueOnClosed(c) ==
  /\ caller[c] # None
  /\ caller' = [caller EXCEPT ![c] = None]
  /\ queue' = queue \cup {caller[c]} /\ accepted' = accepted \cup {caller[c]}
  /\ UNCHANGED <<batch, seen, closed, hand, left, running, flush, dropped, offered>>

(* The second section, under the read lock of queueMu: the event is put in  *)
(* the queue, or dropped when it is full, or nothing happens once closed.   *)
Enqueue(c) ==
  /\ caller[c] # None
  /\ caller' = [caller EXCEPT ![c] = None]
  /\ \/ closed /\ UNCHANGED <<queue, accepted, dropped>>
     \/ /\ ~closed /\ Cardinality(queue) < Capacity
        /\ queue' = queue \cup {caller[c]} /\ accepted' = accepted \cup {caller[c]}
        /\ UNCHANGED dropped
     \/ /\ ~closed /\ Cardinality(queue) >= Capacity
        /\ dropped' = dropped \cup {caller[c]}
        /\ UNCHANGED <<queue, accepted>>
  /\ UNCHANGED <<batch, seen, closed, hand, left, running, flush, offered>>

Flush ==
  /\ flush = "no" /\ flush' = "waiting"
  /\ closed' = TRUE
  /\ UNCHANGED <<batch, seen, caller, queue, hand, left, running, accepted, dropped, offered>>

FlushReturns ==
  /\ flush = "waiting" /\ running = {}
  /\ flush' = "returned"
  /\ UNCHANGED <<batch, seen, caller, queue, closed, hand, left, running, accepted, dropped, offered>>

Take(w) ==
  /\ w \in running /\ hand[w] = None
  /\ \E e \in queue :
       /\ queue' = queue \ {e}
       /\ hand' = [hand EXCEPT ![w] = e] /\ left' = [left EXCEPT ![w] = Notifiers]
  /\ UNCHANGED <<batch, seen, caller, closed, running, flush, accepted, dropped, offered>>

(* A slip: a closed queue is not told from an event, and its zero value is  *)
(* sent.                                                                    *)
SendZeroValue(w) ==
  /\ w \in running /\ (hand[w] # None \/ closed)
  /\ \E n \in Notifiers :
       /\ offered' = offered \cup {<<hand[w], n>>}
       /\ left' = [left EXCEPT ![w] = @ \ {n}]
       /\ hand' = IF left[w] = {n} THEN [hand EXCEPT ![w] = None] ELSE hand
  /\ UNCHANGED <<batch, seen, caller, queue, closed, running, flush, accepted, dropped>>

(* One call of a notifier's Send, which returns within its timeout; an      *)
(* error is logged and changes nothing.                                     *)
Send(w) ==
  /\ hand[w] # None
  /\ \E n \in left[w] :
       /\ offered' = offered \cup {<<hand[w], n>>}
       /\ left' = [left EXCEPT ![w] = @ \ {n}]
       /\ hand' = IF left[w] = {n} THEN [hand EXCEPT ![w] = None] ELSE hand
  /\ UNCHANGED <<batch, seen, caller, queue, closed, running, flush, accepted, dropped>>

(* A slip: a worker that stops at Flush instead of draining the queue.      *)
WorkerEndsEarly(w) ==
  /\ w \in running /\ hand[w] = None /\ closed
  /\ running' = running \ {w}
  /\ UNCHANGED <<batch, seen, caller, queue, closed, hand, left, flush, accepted, dropped, offered>>

(* The range over the queue ends when it is closed and empty.               *)
WorkerEnds(w) ==
  /\ w \in running /\ hand[w] = None /\ closed /\ queue = {}
  /\ running' = running \ {w}
  /\ UNCHANGED <<batch, seen, caller, queue, closed, hand, left, flush, accepted, dropped, offered>>

WorkerStep(w) == Take(w) \/ Send(w) \/ WorkerEnds(w)

DispatcherNext ==
  \/ BeginBatch \/ Flush \/ FlushReturns
  \/ \E c \in Callers : Enqueue(c) \/ \E r \in Results : Dispatch(c, r)
  \/ \E w \in Workers : WorkerStep(w)

DispatcherSpec == DispatcherInit /\ [][DispatcherNext]_dispatcherVars

(* Workers run and every call of Send ends with its timeout of ten seconds. *)
DispatcherFairness == WF_dispatcherVars(FlushReturns) /\ \A w \in Workers : WF_dispatcherVars(WorkerStep(w))

DispatcherFairSpec == DispatcherSpec /\ DispatcherFairness

-----------------------------------------------------------------------------
(* Properties.                                                              *)

DispatcherTypeOK ==
  /\ batch \in 1 .. MaxBatches
  /\ seen \subseteq {Identity(r) : r \in Results}
  /\ caller \in [Callers -> Events \cup {None}]
  /\ queue \subseteq Events /\ closed \in BOOLEAN
  /\ hand \in [Workers -> Events \cup {None}]
  /\ left \in [Workers -> SUBSET Notifiers]
  /\ running \subseteq Workers
  /\ flush \in {"no", "waiting", "returned"}
  /\ accepted \subseteq Events /\ dropped \subseteq Events
  /\ offered \subseteq Events \X Notifiers

(* Of the results with one identity only one is put in the queue in a       *)
(* batch, whichever goroutines race with them.                              *)
OnePerIdentity ==
  \A e, f \in accepted : e[1] = f[1] /\ Identity(e[2]) = Identity(f[2]) => e = f

(* An identity that suppresses later results has an event that was          *)
(* accepted, is about to be, or was lost to a full or closed queue.         *)
SeenIsAccounted ==
  Notifiers # {} /\ ~closed =>
    \A i \in seen : \E e \in accepted \cup dropped \cup {caller[c] : c \in Callers} :
      e # None /\ e[1] = batch /\ Identity(e[2]) = i

(* No notifier is offered an event twice: what is queued was offered to     *)
(* nobody, and what a worker holds is in no other hand and was not offered  *)
(* to the notifiers it has left.                                            *)
OfferedOnce ==
  /\ \A e \in queue, n \in Notifiers : <<e, n>> \notin offered
  /\ \A w \in Workers : hand[w] # None =>
       /\ hand[w] \notin queue
       /\ \A v \in Workers \ {w} : hand[v] # hand[w]
       /\ \A n \in left[w] : <<hand[w], n>> \notin offered

(* When Flush returns, every event the queue accepted has been offered to   *)
(* every notifier, in spite of failing ones.                                *)
FlushDelivers ==
  flush = "returned" => \A e \in accepted, n \in Notifiers : <<e, n>> \in offered

(* After Flush has returned nothing is queued or sent any more, although    *)
(* goroutines may still call Dispatch.                                      *)
QuietAfterFlush ==
  [][flush = "returned" => UNCHANGED <<queue, offered>>]_dispatcherVars

=============================================================================
