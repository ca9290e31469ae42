---------------------------- MODULE DnsResolver ------------------------------
(***************************************************************************)
(* The resolver all hosts of a batch share (internal/dns): its caches, the  *)
(* flights that join callers with the same question, the retries, and the   *)
(* status its callers conclude for one name.                                *)
(*                                                                         *)
(* Each server holds a content of the name, which an owner may change while *)
(* the batch runs. A question is the family of an address, or the health of *)
(* the zone; both go through a cache and a flight of the same shape         *)
(* (exchange, CheckNSHealth). The server of an attempt is any of them: the  *)
(* index that rotates is shared with every other query of the process.      *)
(***************************************************************************)
EXTENDS DnsAnswers

CONSTANTS
  Callers,      \* goroutines that examine hosts
  Asks,         \* what each of them may resolve
  Servers,      \* configured resolvers
  Initially,    \* what they may hold at first
  Retries,      \* maxRetries
  MaxBatches,   \* bound: cycles of the scan
  MaxTrouble,   \* bound: lost, refused and cut replies, changes of a server, contexts that end
  None

ASSUME ResolverAssumption ==
  /\ Retries \in Nat \ {0}
  /\ {MaxBatches, MaxTrouble} \subseteq Nat
  /\ None \notin Statuses \cup {"HEALTHY", "LAME"}
  /\ IsFiniteSet(Servers)
  /\ Initially \subseteq [Servers -> {"v4", "v6", "empty", "absent"}]
  /\ Asks \in [Callers -> SUBSET {"address", "nxdomain", "health"}]

Families == {"A", "AAAA"}
Questions == Families \cup {"health"}
Contents == {"v4", "v6", "empty", "absent"}
Replies == Statuses \cup {"HEALTHY", "LAME"}
Operations == {"address", "nxdomain", "health"}

\* What a server answers from a content. A transfer of the zone to a server
\* that does not serve it makes it lame.
Address == [A |-> "v4", AAAA |-> "v6"]
Holds(content, question) ==
  IF question = "health"
  THEN NSHealth([rcode |-> IF content = "absent" THEN "NXDOMAIN" ELSE "NOERROR",
                 authoritative |-> content # "empty", soa |-> content # "empty"])
  ELSE ResponseStatus(IF content = "absent" THEN "NXDOMAIN" ELSE "NOERROR", content = Address[question])

VARIABLES
  mode,      \* queries go to a DoH endpoint, to one server each, or to all for a consensus
  held,      \* what each server holds
  cache,     \* queryCache and nsHealthCache: the reply stored for a question
  stage,     \* of the flight of a question: "none", "recheck", "ask" or "land"
  leader,    \* whose context the flight uses
  attempt,   \* failed attempts of the flight
  reply,     \* what the flight will give to those who wait
  pc,        \* of a caller: "idle", "look", "join", "wait", "next", "gather" or "done"
  operation, \* what the caller resolves
  asking,    \* the question it is at
  got,       \* the replies to its questions
  views,     \* the views of a consensus, by family and server
  said,      \* the status it concluded
  over,      \* callers whose context ended
  batch,     \* cycles of the scan, counted
  trouble,   \* what went wrong, counted
  shown,     \* history: the contents each server held in this batch
  asked,     \* history: answers stored for a question in this batch
  torn       \* history: a truncated reply was taken for an answer in this batch

flights == <<stage, leader, attempt, reply>>
callers == <<pc, operation, asking, got, views, said>>
history == <<shown, asked, torn>>
vars == <<mode, held, cache, stage, leader, attempt, reply, pc, operation, asking, got, views, said, over, batch,
          trouble, shown, asked, torn>>

NoViews == [f \in Families |-> [s \in Servers |-> None]]
NoReplies == [q \in Questions |-> None]

Init ==
  /\ mode \in {"doh", "plain", "consensus"}
  /\ held \in Initially
  /\ cache = NoReplies
  /\ stage = [q \in Questions |-> "none"]
  /\ leader = [q \in Questions |-> None]
  /\ attempt = [q \in Questions |-> 0]
  /\ reply = NoReplies
  /\ pc = [c \in Callers |-> "idle"]
  /\ operation = [c \in Callers |-> "address"]
  /\ asking = [c \in Callers |-> "A"]
  /\ got = [c \in Callers |-> NoReplies]
  /\ views = [c \in Callers |-> NoViews]
  /\ said = [c \in Callers |-> None]
  /\ over = {}
  /\ batch = 1
  /\ trouble = 0
  /\ shown = [s \in Servers |-> {held[s]}]
  /\ asked = [q \in Questions |-> 0]
  /\ torn = FALSE

-----------------------------------------------------------------------------
(* A caller asks once in a cycle: more questions are more callers.          *)

\* AddressConsensus falls back on one status with DoH or a single server.
Gathers(op) == op = "address" /\ mode = "consensus" /\ Cardinality(Servers) > 1

Call(c, op) ==
  /\ pc[c] = "idle"
  /\ op \in Asks[c]
  /\ operation' = [operation EXCEPT ![c] = op]
  /\ asking' = [asking EXCEPT ![c] = IF op = "health" THEN "health" ELSE "A"]
  /\ pc' = [pc EXCEPT ![c] = IF Gathers(op) THEN "gather" ELSE "look"]
  /\ UNCHANGED <<mode, held, cache, flights, got, views, said, over, batch, trouble, history>>

\* The read of the cache before the flight.
Look(c) ==
  /\ pc[c] = "look"
  /\ \/ /\ cache[asking[c]] # None
        /\ got' = [got EXCEPT ![c][asking[c]] = cache[asking[c]]]
        /\ pc' = [pc EXCEPT ![c] = "next"]
     \/ /\ cache[asking[c]] = None
        /\ pc' = [pc EXCEPT ![c] = "join"]
        /\ got' = got
  /\ UNCHANGED <<mode, held, cache, flights, operation, asking, views, said, over, batch, trouble,
                 history>>

\* Group.Do: the first caller takes the flight off, the others wait for it.
Join(c) ==
  LET q == asking[c]
  IN /\ pc[c] = "join"
     /\ pc' = [pc EXCEPT ![c] = "wait"]
     /\ \/ /\ stage[q] = "none"
           /\ stage' = [stage EXCEPT ![q] = "recheck"]
           /\ leader' = [leader EXCEPT ![q] = c]
        \/ /\ stage[q] # "none"
           /\ UNCHANGED <<stage, leader>>
     /\ UNCHANGED <<mode, held, cache, attempt, reply, operation, asking, got, views, said, over, batch, trouble,
                    history>>

\* ResolveAddressStatus asks for the second family unless the first resolves.
AskSecondFamily(c) ==
  /\ pc[c] = "next"
  /\ operation[c] = "address"
  /\ asking[c] = "A"
  /\ got[c]["A"] # "RESOLVED"
  /\ asking' = [asking EXCEPT ![c] = "AAAA"]
  /\ pc' = [pc EXCEPT ![c] = "look"]
  /\ UNCHANGED <<mode, held, cache, flights, operation, got, views, said, over, batch, trouble, history>>

Verdict(c) ==
  IF operation[c] = "address"
  THEN IF asking[c] = "A" THEN "RESOLVED" ELSE AddressStatus(got[c]["A"], got[c]["AAAA"])
  ELSE got[c][asking[c]]

Conclude(c) ==
  /\ pc[c] = "next"
  /\ operation[c] = "address" /\ asking[c] = "A" => got[c]["A"] = "RESOLVED"
  /\ said' = [said EXCEPT ![c] = Verdict(c)]
  /\ pc' = [pc EXCEPT ![c] = "done"]
  /\ UNCHANGED <<mode, held, cache, flights, operation, asking, got, views, over, batch, trouble, history>>

-----------------------------------------------------------------------------
(* A flight.                                                                *)

(* A slip: the flight asks without a second look at the cache.              *)
RecheckNothing(q) ==
  /\ stage[q] = "recheck"
  /\ stage' = [stage EXCEPT ![q] = "ask"]
  /\ UNCHANGED <<mode, held, cache, leader, attempt, reply, callers, over, batch, trouble, history>>

\* The second read of the cache, inside the flight.
Recheck(q) ==
  /\ stage[q] = "recheck"
  /\ \/ /\ cache[q] # None
        /\ reply' = [reply EXCEPT ![q] = cache[q]]
        /\ stage' = [stage EXCEPT ![q] = "land"]
     \/ /\ cache[q] = None
        /\ stage' = [stage EXCEPT ![q] = "ask"]
        /\ reply' = reply
  /\ UNCHANGED <<mode, held, cache, leader, attempt, callers, over, batch, trouble, history>>

\* cacheableDNSResponse; the health of a server is kept whatever it is.
Cacheable(q, status) == IF q = "health" THEN TRUE ELSE status \in {"RESOLVED", "NXDOMAIN", "NO_DATA"}

Give(q, status) ==
  /\ reply' = [reply EXCEPT ![q] = status]
  /\ stage' = [stage EXCEPT ![q] = "land"]

Keep(q, status) ==
  \/ /\ Cacheable(q, status)
     /\ cache' = [cache EXCEPT ![q] = status]
     /\ asked' = [asked EXCEPT ![q] = @ + 1]
  \/ /\ ~Cacheable(q, status)
     /\ UNCHANGED <<cache, asked>>

Answer(q, s) ==
  /\ stage[q] = "ask"
  /\ Give(q, Holds(held[s], q))
  /\ Keep(q, Holds(held[s], q))
  /\ UNCHANGED <<mode, held, leader, attempt, callers, over, batch, trouble, shown, torn>>

\* A server that fails or refuses, or an error that is not of the network:
\* the query ends with it, and is not repeated.
Refusal(q, status) ==
  /\ stage[q] = "ask"
  /\ trouble < MaxTrouble
  /\ trouble' = trouble + 1
  /\ Give(q, status)
  /\ Keep(q, status)
  /\ UNCHANGED <<mode, held, leader, attempt, callers, over, batch, shown, torn>>

\* A truncated reply without records, whose repetition over TCP fails.
Truncated(q) ==
  /\ stage[q] = "ask"
  /\ q # "health"
  /\ mode # "doh"
  /\ trouble < MaxTrouble
  /\ trouble' = trouble + 1
  /\ torn' = TRUE
  /\ Give(q, "NO_DATA")
  /\ Keep(q, "NO_DATA")
  /\ UNCHANGED <<mode, held, leader, attempt, callers, over, batch, shown>>

Attempts(q) == IF mode = "doh" \/ q = "health" THEN 1 ELSE Retries

\* A network error: another attempt, or the status of the last error.
Lost(q, status) ==
  /\ stage[q] = "ask"
  /\ trouble < MaxTrouble
  /\ trouble' = trouble + 1
  /\ attempt' = [attempt EXCEPT ![q] = @ + 1]
  /\ \/ /\ attempt[q] + 1 < Attempts(q)
        /\ UNCHANGED <<cache, stage, reply, asked>>
     \/ /\ attempt[q] + 1 >= Attempts(q)
        /\ Give(q, status)
        /\ Keep(q, status)
  /\ UNCHANGED <<mode, held, leader, callers, over, batch, shown, torn>>

\* The context of the caller that leads was cancelled or met its deadline:
\* nothing is kept.
CutShort(q) ==
  /\ stage[q] = "ask"
  /\ leader[q] \in over
  /\ \E status \in {"TIMEOUT", "ERROR"} : Give(q, status)
  /\ UNCHANGED <<mode, held, cache, leader, attempt, callers, over, batch, trouble, history>>

Waiting(q) == {c \in Callers : pc[c] = "wait" /\ asking[c] = q}

(* A slip: the result goes to the caller that led the flight.               *)
LandAtLeader(q) ==
  /\ stage[q] = "land"
  /\ got' = [got EXCEPT ![leader[q]][q] = reply[q]]
  /\ pc' = [pc EXCEPT ![leader[q]] = "next"]
  /\ stage' = [stage EXCEPT ![q] = "none"]
  /\ reply' = [reply EXCEPT ![q] = None]
  /\ leader' = [leader EXCEPT ![q] = None]
  /\ attempt' = [attempt EXCEPT ![q] = 0]
  /\ UNCHANGED <<mode, held, cache, operation, asking, views, said, over, batch, trouble, history>>

Land(q) ==
  /\ stage[q] = "land"
  /\ got' = [c \in Callers |-> IF c \in Waiting(q) THEN [got[c] EXCEPT ![q] = reply[q]] ELSE got[c]]
  /\ pc' = [c \in Callers |-> IF c \in Waiting(q) THEN "next" ELSE pc[c]]
  /\ stage' = [stage EXCEPT ![q] = "none"]
  /\ reply' = [reply EXCEPT ![q] = None]
  /\ leader' = [leader EXCEPT ![q] = None]
  /\ attempt' = [attempt EXCEPT ![q] = 0]
  /\ UNCHANGED <<mode, held, cache, operation, asking, views, said, over, batch, trouble, history>>

-----------------------------------------------------------------------------
(* Consensus: every server is asked once, past the cache.                   *)

Missing(c) == {s \in Servers : views[c][asking[c]][s] = None}
ViewOf(content, family) == [status |-> Holds(content, family), answers |-> content = Address[family]]
Blind(status) == [status |-> status, answers |-> FALSE]

View(c, s, view) ==
  /\ pc[c] = "gather"
  /\ s \in Missing(c)
  /\ views' = [views EXCEPT ![c][asking[c]][s] = view]
  /\ UNCHANGED <<mode, held, cache, flights, pc, operation, asking, got, said, over, batch, shown, asked>>

Views(c) == \E s \in Servers : View(c, s, ViewOf(held[s], asking[c])) /\ UNCHANGED <<trouble, torn>>

\* A view that an error left without an answer, and one whose reply was cut:
\* it is not repeated over TCP.
LostViews(c) ==
  \E s \in Servers :
    \/ /\ \E status \in Transient : View(c, s, Blind(status))
       /\ trouble < MaxTrouble /\ trouble' = trouble + 1 /\ UNCHANGED torn
    \/ View(c, s, Blind("ERROR")) /\ c \in over /\ UNCHANGED <<trouble, torn>>
    \/ View(c, s, Blind("NO_DATA")) /\ torn' = TRUE /\ trouble < MaxTrouble /\ trouble' = trouble + 1

SecondFamily(c) ==
  /\ pc[c] = "gather"
  /\ asking[c] = "A"
  /\ Missing(c) = {}
  /\ asking' = [asking EXCEPT ![c] = "AAAA"]
  /\ UNCHANGED <<mode, held, cache, flights, pc, operation, got, views, said, over, batch, trouble,
                 history>>

Tally(c) ==
  /\ pc[c] = "gather"
  /\ asking[c] = "AAAA"
  /\ Missing(c) = {}
  /\ said' = [said EXCEPT ![c] = AddressConsensus(views[c]["A"], views[c]["AAAA"]).status]
  /\ pc' = [pc EXCEPT ![c] = "done"]
  /\ UNCHANGED <<mode, held, cache, flights, operation, asking, got, views, over, batch, trouble, history>>

-----------------------------------------------------------------------------
(* What happens around the resolver.                                        *)

Change(s, content) ==
  /\ trouble < MaxTrouble
  /\ trouble' = trouble + 1
  /\ content # held[s]
  /\ held' = [held EXCEPT ![s] = content]
  /\ shown' = [shown EXCEPT ![s] = @ \cup {content}]
  /\ UNCHANGED <<mode, cache, flights, callers, over, batch, asked, torn>>

Interrupt(c) ==
  /\ trouble < MaxTrouble
  /\ trouble' = trouble + 1
  /\ pc[c] \notin {"idle", "done"}
  /\ over' = over \cup {c}
  /\ UNCHANGED <<mode, held, cache, flights, callers, batch, history>>

\* runScan: the hosts of a cycle are done when ClearCache empties the caches.
Fresh ==
  /\ pc' = [c \in Callers |-> "idle"]
  /\ operation' = [c \in Callers |-> "address"]
  /\ asking' = [c \in Callers |-> "A"]
  /\ got' = [c \in Callers |-> NoReplies]
  /\ views' = [c \in Callers |-> NoViews]
  /\ said' = [c \in Callers |-> None]
  /\ over' = {}
  /\ shown' = [s \in Servers |-> {held[s]}]
  /\ asked' = [q \in Questions |-> 0]
  /\ torn' = FALSE

BatchEnds ==
  /\ batch < MaxBatches
  /\ \A c \in Callers : pc[c] \in {"idle", "done"}
  /\ \A q \in Questions : stage[q] = "none"
  /\ batch' = batch + 1

(* A slip: the replies of the last cycle outlive it.                        *)
BeginBatchKeeping == BatchEnds /\ Fresh /\ UNCHANGED <<mode, held, cache, flights, trouble>>

BeginBatch ==
  /\ BatchEnds
  /\ Fresh
  /\ cache' = NoReplies
  /\ UNCHANGED <<mode, held, flights, trouble>>

Faulty(q) ==
  \/ \E status \in {"SERVFAIL", "REFUSED", "ERROR"} : Refusal(q, status)
  \/ Truncated(q)
  \/ \E status \in {"TIMEOUT", "ERROR"} : Lost(q, status)

Step(c) == Look(c) \/ Join(c) \/ AskSecondFamily(c) \/ Conclude(c) \/ Views(c) \/ SecondFamily(c) \/ Tally(c)
Fly(q) == Recheck(q) \/ (\E s \in Servers : Answer(q, s)) \/ CutShort(q) \/ Land(q)

Next ==
  \/ \E c \in Callers, op \in Operations : Call(c, op)
  \/ \E c \in Callers : Step(c) \/ LostViews(c) \/ Interrupt(c)
  \/ \E q \in Questions : Fly(q) \/ Faulty(q)
  \/ \E s \in Servers, content \in Contents : Change(s, content)
  \/ BeginBatch

\* A query ends within its timeout, and a goroutine that can go on does.
Fairness == /\ \A c \in Callers : WF_vars(Step(c))
            /\ \A q \in Questions : WF_vars(Fly(q))

Spec == Init /\ [][Next]_vars /\ Fairness

-----------------------------------------------------------------------------
(* Properties.                                                              *)

(* The types of the variables: a flight is led by a caller, a view is what  *)
(* a server said or nothing yet.                                            *)
TypeOK ==
  /\ mode \in {"doh", "plain", "consensus"}
  /\ held \in [Servers -> Contents]
  /\ cache \in [Questions -> Replies \cup {None}]
  /\ stage \in [Questions -> {"none", "recheck", "ask", "land"}]
  /\ leader \in [Questions -> Callers \cup {None}]
  /\ attempt \in [Questions -> 0..Retries]
  /\ reply \in [Questions -> Replies \cup {None}]
  /\ pc \in [Callers -> {"idle", "look", "join", "wait", "next", "gather", "done"}]
  /\ operation \in [Callers -> Operations]
  /\ asking \in [Callers -> Questions]
  /\ got \in [Callers -> [Questions -> Replies \cup {None}]]
  /\ said \in [Callers -> Replies \cup {None}]
  /\ over \in SUBSET Callers
  /\ shown \in [Servers -> SUBSET Contents]
  /\ asked \in [Questions -> Nat]
  /\ torn \in BOOLEAN

(* Within a cycle of the scan the network gives at most one answer to a     *)
(* question that any caller then reads: the hosts are judged on the same    *)
(* data, however their queries interleave (exchange, CheckNSHealth: the     *)
(* cache is read again inside the flight).                                  *)
AskedOnce == \A q \in Questions : asked[q] <= 1

Absent(s) == "absent" \in shown[s]
Lacks(s, family) == \E content \in shown[s] : content # Address[family]

(* A name is reported absent only on what this cycle saw: NXDOMAIN when a   *)
(* server (with consensus, a quorum of them) held no such name, NO_DATA     *)
(* when each family was missing at some server (at a quorum), or a reply    *)
(* was cut. Lost replies, timeouts, refusals, contexts that end and answers *)
(* of an earlier cycle never add up to an absence (ResolveAddressStatus,    *)
(* AddressConsensus, CheckNXDomain, ClearCache).                            *)
AbsenceIsSeen ==
  \A c \in Callers :
    LET enough(servers) == Cardinality(servers) >= IF Gathers(operation[c]) THEN Cardinality(Servers) \div 2 + 1 ELSE 1
    IN /\ said[c] = "NXDOMAIN" => enough({s \in Servers : Absent(s)})
       /\ said[c] = "NO_DATA" =>
            \/ torn
            \/ \A f \in Families : (operation[c] = "nxdomain" /\ f = "AAAA") \/ enough({s \in Servers : Lacks(s, f)})

(* Every caller is answered, those that joined a flight of another caller   *)
(* included, whatever is lost and whosever context ends (Group.Do).         *)
EveryCallReturns == \A c \in Callers : pc[c] # "idle" ~> pc[c] = "done"
==============================================================================
