------------------------- MODULE DnsResolverProofs --------------------------
(***************************************************************************)
(* Proofs about DnsResolver, for any number of callers and servers, any     *)
(* contents, retries, cycles and troubles: type correctness, that a cycle   *)
(* stores one answer to a question, and that no absence is reported which   *)
(* the servers did not show in this cycle.                                  *)
(***************************************************************************)
EXTENDS DnsResolver, FiniteSetTheorems, TLAPS

AnyView == [status : Statuses, answers : BOOLEAN]

WorldTypes ==
  /\ mode \in {"doh", "plain", "consensus"}
  /\ held \in [Servers -> Contents]
  /\ shown \in [Servers -> SUBSET Contents]
  /\ torn \in BOOLEAN

FlightTypes ==
  /\ cache \in [Questions -> Replies \cup {None}]
  /\ stage \in [Questions -> {"none", "recheck", "ask", "land"}]
  /\ leader \in [Questions -> Callers \cup {None}]
  /\ attempt \in [Questions -> 0..Retries]
  /\ reply \in [Questions -> Replies \cup {None}]
  /\ asked \in [Questions -> Nat]

CallerTypes ==
  /\ pc \in [Callers -> {"idle", "look", "join", "wait", "next", "gather", "done"}]
  /\ operation \in [Callers -> Operations]
  /\ asking \in [Callers -> Questions]
  /\ got \in [Callers -> [Questions -> Replies \cup {None}]]
  /\ views \in [Callers -> [Families -> [Servers -> AnyView \cup {None}]]]
  /\ said \in [Callers -> Replies \cup {None}]
  /\ over \in SUBSET Callers

(* What a server holds it has shown.                                        *)
HeldInv == \A s \in Servers : held[s] \in shown[s]

(* A question is asked only while the cache has no answer to it, and a      *)
(* flight has an attempt left as long as it asks.                           *)
CountInv ==
  \A q \in Questions :
    /\ asked[q] <= 1
    /\ cache[q] = None => asked[q] = 0
    /\ stage[q] = "ask" => cache[q] = None /\ attempt[q] < Attempts(q)
    /\ stage[q] \in {"none", "recheck"} => attempt[q] = 0
    /\ stage[q] = "none" => reply[q] = None

(* An absence stands on a server that showed it, or on a cut reply.         *)
Evident(q, status) ==
  /\ status = "NXDOMAIN" => \E s \in Servers : Absent(s)
  /\ status = "NO_DATA" => torn \/ \E s \in Servers : q \in Families /\ Lacks(s, q)

FlightsInv == \A q \in Questions : Evident(q, cache[q]) /\ Evident(q, reply[q])
GotInv == \A c \in Callers, q \in Questions : Evident(q, got[c][q])

(* The view of a server is what that server showed, or a cut reply.         *)
ViewInv ==
  \A c \in Callers, f \in Families, s \in Servers :
    views[c][f][s] # None =>
      /\ views[c][f][s].status = "NXDOMAIN" => Absent(s)
      /\ views[c][f][s].status = "NO_DATA" => torn \/ Lacks(s, f)

(* Where a caller is tells what it resolves and what it has gathered.       *)
PlaceInv ==
  \A c \in Callers :
    /\ pc[c] = "gather" =>
         /\ Gathers(operation[c])
         /\ asking[c] = "AAAA" => \A s \in Servers : views[c]["A"][s] # None
    /\ pc[c] \in {"look", "join", "wait", "next"} => ~Gathers(operation[c])
    /\ pc[c] = "idle" => said[c] = None
    /\ operation[c] = "nxdomain" => asking[c] = "A"
    /\ operation[c] = "health" => asking[c] = "health"
    /\ operation[c] = "address" => asking[c] \in Families

Inv ==
  /\ WorldTypes /\ FlightTypes /\ CallerTypes
  /\ HeldInv /\ CountInv /\ FlightsInv /\ GotInv /\ ViewInv /\ PlaceInv /\ AbsenceIsSeen

USE ResolverAssumption

-----------------------------------------------------------------------------
(* What the answers amount to.                                              *)

LEMMA HoldsEvident ==
  ASSUME NEW content \in Contents, NEW q \in Questions
  PROVE  /\ Holds(content, q) \in Replies
         /\ q \in Families => Holds(content, q) \in Statuses
         /\ Holds(content, q) = "NXDOMAIN" => content = "absent"
         /\ Holds(content, q) = "NO_DATA" => q \in Families /\ content # Address[q]
  <1>1. CASE q = "health"
    BY <1>1 DEF Holds, NSHealth, Replies, Statuses, Families, Negative, Transient
  <1>2. CASE q \in Families
    <2>1. Holds(content, q) = ResponseStatus(IF content = "absent" THEN "NXDOMAIN" ELSE "NOERROR", content = Address[q])
      BY <1>2 DEF Holds, Families
    <2>. HIDE DEF Address
    <2>. QED BY <1>2, <2>1 DEF ResponseStatus, Replies, Statuses, Negative, Transient
  <1>. QED BY <1>1, <1>2 DEF Questions

(* Both families are absent before a name is.                               *)
LEMMA AddressStatusAbsent ==
  ASSUME NEW a \in Replies \cup {None}, NEW b \in Replies \cup {None}
  PROVE  /\ AddressStatus(a, b) \in Replies \cup {None}
         /\ AddressStatus(a, b) \in Negative => a = AddressStatus(a, b) /\ b = AddressStatus(a, b)
  <1>. DEFINE found == {i \in DOMAIN Prevailing : Prevailing[i] = a \/ Prevailing[i] = b}
  <1>0. DOMAIN Prevailing = 1..5 /\ \A i \in 1..5 : Prevailing[i] \in {"RESOLVED", "TIMEOUT", "SERVFAIL", "REFUSED", "ERROR"}
    BY DEF Prevailing
  <1>1. ASSUME found # {} PROVE Prevailing[Min(found)] \in {"RESOLVED", "TIMEOUT", "SERVFAIL", "REFUSED", "ERROR"}
    <2>1. found \subseteq 1..5
      BY <1>0
    <2>2. \E x \in found : \A y \in found : x <= y
      <3>. HIDE DEF found
      <3>1. \A y \in found : y \in 1..5
        BY <2>1
      <3>2. CASE 1 \in found
        BY <3>1, <3>2
      <3>3. CASE 1 \notin found /\ 2 \in found
        BY <3>1, <3>3
      <3>4. CASE 1 \notin found /\ 2 \notin found /\ 3 \in found
        BY <3>1, <3>4
      <3>5. CASE 1 \notin found /\ 2 \notin found /\ 3 \notin found /\ 4 \in found
        BY <3>1, <3>5
      <3>6. CASE 1 \notin found /\ 2 \notin found /\ 3 \notin found /\ 4 \notin found
        BY <1>1, <3>1, <3>6
      <3>. QED BY <3>2, <3>3, <3>4, <3>5, <3>6
    <2>3. Min(found) \in found
      BY <2>2 DEF Min
    <2>. QED BY <1>0, <2>1, <2>3
  <1>2. AddressStatus(a, b) = IF found # {} THEN Prevailing[Min(found)] ELSE IF a = b THEN a ELSE "ERROR"
    BY DEF AddressStatus
  <1>. HIDE DEF found
  <1>. QED BY <1>1, <1>2 DEF Replies, Statuses, Negative, Transient

(* A status that the consensus settles on has a quorum of the servers.      *)
LEMMA ConsensusHasQuorum ==
  ASSUME NEW v, NEW status, ConsensusStatus(v) = status, status # "ERROR"
  PROVE  status \in Statuses /\ Cardinality(StatusBackers(v, status)) >= Quorum(v)
  BY DEF ConsensusStatus

LEMMA AddressConsensusAbsent ==
  ASSUME NEW a, NEW b, NEW status \in Negative, AddressConsensus(a, b).status = status
  PROVE  ConsensusStatus(a) = status /\ ConsensusStatus(b) = status
  BY DEF AddressConsensus, Negative

-----------------------------------------------------------------------------
(* The flights.                                                             *)

(* What is shown in a cycle stays shown.                                    *)
ShownGrows == (\A s \in Servers : shown[s] \subseteq shown'[s]) /\ (torn => torn')

LEMMA EvidenceStays ==
  ASSUME ShownGrows, NEW q, NEW status, Evident(q, status)
  PROVE  Evident(q, status)'
  BY DEF ShownGrows, Evident, Absent, Lacks

LEMMA NoneIsNoReply ==
  /\ None \notin Replies
  /\ \A q \in Questions : Evident(q, None)
  BY DEF Replies, Evident, Statuses, Negative

(* The steps of the flight of a question leave the callers alone.           *)
FlightStep(q) ==
  \/ Recheck(q) \/ (\E s \in Servers : Answer(q, s)) \/ CutShort(q) \/ Faulty(q)


FlightEffect(q) ==
  /\ UNCHANGED <<mode, held, shown, leader, callers, over, batch>>
  /\ \A r \in Questions \ {q} :
       /\ cache'[r] = cache[r] /\ stage'[r] = stage[r] /\ attempt'[r] = attempt[r]
       /\ reply'[r] = reply[r] /\ asked'[r] = asked[r]
  /\ torn' = torn \/ torn' = TRUE
  /\ stage[q] \in {"recheck", "ask"}
  /\ stage'[q] \in {"ask", "land"}
  /\ attempt'[q] = attempt[q] \/ (stage[q] = "ask" /\ attempt'[q] = attempt[q] + 1)
  /\ stage'[q] = "ask" => cache'[q] = None /\ attempt'[q] < Attempts(q)
  /\ \/ cache'[q] = cache[q] /\ asked'[q] = asked[q]
     \/ stage[q] = "ask" /\ cache'[q] = reply'[q] /\ reply'[q] \in Replies /\ asked'[q] = asked[q] + 1
  /\ \/ reply'[q] \in {reply[q], cache[q]} \cup (Replies \ Negative)
     \/ \E s \in Servers : reply'[q] = Holds(held[s], q)
     \/ reply'[q] = "NO_DATA" /\ torn'
  /\ reply'[q] \in Replies \cup {None}

ShapesKept ==
  /\ cache' = [q \in Questions |-> cache'[q]]
  /\ stage' = [q \in Questions |-> stage'[q]]
  /\ attempt' = [q \in Questions |-> attempt'[q]]
  /\ reply' = [q \in Questions |-> reply'[q]]
  /\ asked' = [q \in Questions |-> asked'[q]]

(* A flight that lands with a status.                                       *)
LEMMA Landing ==
  ASSUME FlightTypes, NEW q \in Questions, NEW status \in Replies, Give(q, status), Keep(q, status)
  PROVE  /\ \A r \in Questions \ {q} :
              cache'[r] = cache[r] /\ stage'[r] = stage[r] /\ reply'[r] = reply[r] /\ asked'[r] = asked[r]
         /\ stage'[q] = "land" /\ reply'[q] = status
         /\ \/ cache'[q] = cache[q] /\ asked'[q] = asked[q]
            \/ cache'[q] = reply'[q] /\ asked'[q] = asked[q] + 1
         /\ cache' = [r \in Questions |-> cache'[r]] /\ stage' = [r \in Questions |-> stage'[r]]
         /\ reply' = [r \in Questions |-> reply'[r]] /\ asked' = [r \in Questions |-> asked'[r]]
  BY DEF FlightTypes, Give, Keep

LEMMA FlightStepEffect ==
  ASSUME WorldTypes, FlightTypes, CountInv, NEW q \in Questions, FlightStep(q)
  PROVE  FlightEffect(q) /\ ShapesKept
  <1>1. CASE Recheck(q)
    <2>1. stage[q] = "recheck" /\ attempt[q] = 0 /\ 0 < Attempts(q)
      BY <1>1 DEF Recheck, CountInv, Attempts
    <2>2. \/ cache[q] # None /\ reply' = [reply EXCEPT ![q] = cache[q]] /\ stage' = [stage EXCEPT ![q] = "land"]
          \/ cache[q] = None /\ stage' = [stage EXCEPT ![q] = "ask"] /\ reply' = reply
      BY <1>1 DEF Recheck
    <2>3. UNCHANGED <<mode, held, cache, leader, attempt, callers, over, batch, shown, asked, torn>>
      BY <1>1 DEF Recheck, history
    <2>. QED BY <2>1, <2>2, <2>3 DEF FlightEffect, ShapesKept, FlightTypes
  <1>2. ASSUME NEW s \in Servers, Answer(q, s)
        PROVE  FlightEffect(q) /\ ShapesKept
    <2>1. Holds(held[s], q) \in Replies
      BY HoldsEvident DEF WorldTypes
    <2>2. stage[q] = "ask" /\ Give(q, Holds(held[s], q)) /\ Keep(q, Holds(held[s], q))
          /\ UNCHANGED <<mode, held, shown, leader, callers, over, batch, torn, attempt>>
      BY <1>2 DEF Answer
    <2>3. reply'[q] = Holds(held[s], q)
      BY <2>1, <2>2, Landing
    <2>. QED BY <2>1, <2>2, <2>3, Landing DEF FlightEffect, ShapesKept, FlightTypes
  <1>3. ASSUME NEW status \in {"SERVFAIL", "REFUSED", "ERROR"}, Refusal(q, status)
        PROVE  FlightEffect(q) /\ ShapesKept
    <2>1. status \in Replies \ Negative
      BY DEF Replies, Statuses, Negative, Transient
    <2>2. stage[q] = "ask" /\ Give(q, status) /\ Keep(q, status)
          /\ UNCHANGED <<mode, held, shown, leader, callers, over, batch, torn, attempt>>
      BY <1>3 DEF Refusal
    <2>. QED BY <2>1, <2>2, Landing DEF FlightEffect, ShapesKept, FlightTypes
  <1>4. CASE Truncated(q)
    <2>1. "NO_DATA" \in Replies
      BY DEF Replies, Statuses, Negative
    <2>2. stage[q] = "ask" /\ Give(q, "NO_DATA") /\ Keep(q, "NO_DATA") /\ torn' = TRUE
          /\ UNCHANGED <<mode, held, shown, leader, callers, over, batch, attempt>>
      BY <1>4 DEF Truncated
    <2>. QED BY <2>1, <2>2, Landing DEF FlightEffect, ShapesKept, FlightTypes
  <1>5. ASSUME NEW status \in {"TIMEOUT", "ERROR"}, Lost(q, status)
        PROVE  FlightEffect(q) /\ ShapesKept
    <2>1. status \in Replies \ Negative
      BY DEF Replies, Statuses, Negative, Transient
    <2>2. stage[q] = "ask" /\ attempt' = [attempt EXCEPT ![q] = @ + 1] /\ cache[q] = None
          /\ UNCHANGED <<mode, held, shown, leader, callers, over, batch, torn>>
      BY <1>5 DEF Lost, CountInv
    <2>3. CASE attempt[q] + 1 < Attempts(q) /\ UNCHANGED <<cache, stage, reply, asked>>
      BY <2>2, <2>3 DEF FlightEffect, ShapesKept, FlightTypes
    <2>4. CASE Give(q, status) /\ Keep(q, status)
      <3>1. /\ attempt'[q] = attempt[q] + 1 /\ \A r \in Questions \ {q} : attempt'[r] = attempt[r]
            /\ attempt' = [r \in Questions |-> attempt'[r]]
        BY <2>2 DEF FlightTypes
      <3>2. FlightEffect(q)
        BY <2>1, <2>2, <2>4, <3>1, Landing DEF FlightEffect
      <3>. QED BY <2>1, <2>4, <3>1, <3>2, Landing DEF ShapesKept
    <2>. QED BY <1>5, <2>3, <2>4 DEF Lost
  <1>6. CASE CutShort(q)
    <2>1. PICK status \in {"TIMEOUT", "ERROR"} : Give(q, status)
      BY <1>6 DEF CutShort
    <2>a. status \in Replies \ Negative
      BY DEF Replies, Statuses, Negative, Transient
    <2>2. stage[q] = "ask"
          /\ UNCHANGED <<mode, held, cache, leader, attempt, callers, over, batch, shown, asked, torn>>
      BY <1>6 DEF CutShort, history
    <2>. QED BY <2>1, <2>a, <2>2 DEF Give, FlightEffect, ShapesKept, FlightTypes
  <1>. QED BY <1>1, <1>2, <1>3, <1>4, <1>5, <1>6 DEF FlightStep, Faulty

LEMMA FlightStepInv ==
  ASSUME Inv, NEW q \in Questions, FlightStep(q)
  PROVE  Inv'
  <1>0. FlightEffect(q) /\ ShapesKept
    BY FlightStepEffect DEF Inv
  <1>1. WorldTypes'
    BY <1>0 DEF Inv, WorldTypes, FlightEffect
  <1>2. FlightTypes'
    <2>1. \A r \in Questions : cache'[r] \in Replies \cup {None} /\ reply'[r] \in Replies \cup {None}
      BY <1>0 DEF Inv, FlightTypes, FlightEffect
    <2>2. \A r \in Questions : stage'[r] \in {"none", "recheck", "ask", "land"}
      BY <1>0 DEF Inv, FlightTypes, FlightEffect
    <2>3. Attempts(q) \in 1..Retries
      BY DEF Attempts
    <2>4. \A r \in Questions : attempt'[r] \in 0..Retries /\ asked'[r] \in Nat
      BY <1>0, <2>3 DEF Inv, FlightTypes, FlightEffect, CountInv
    <2>5. leader' \in [Questions -> Callers \cup {None}]
      BY <1>0 DEF Inv, FlightTypes, FlightEffect
    <2>6. /\ cache' \in [Questions -> Replies \cup {None}] /\ reply' \in [Questions -> Replies \cup {None}]
          /\ stage' \in [Questions -> {"none", "recheck", "ask", "land"}]
          /\ attempt' \in [Questions -> 0..Retries] /\ asked' \in [Questions -> Nat]
      BY <1>0, <2>1, <2>2, <2>4 DEF ShapesKept
    <2>. QED BY <2>5, <2>6 DEF FlightTypes
  <1>3. CallerTypes' /\ PlaceInv'
    <2>1. UNCHANGED <<mode, callers, over>>
      BY <1>0 DEF FlightEffect
    <2>. QED BY <2>1 DEF callers, Inv, CallerTypes, PlaceInv, Gathers
  <1>4. HeldInv'
    BY <1>0 DEF FlightEffect, Inv, HeldInv
  <1>5. CountInv'
    <2>1. mode' = mode
      BY <1>0 DEF FlightEffect
    <2>2. ASSUME NEW r \in Questions
          PROVE  /\ asked'[r] <= 1
                 /\ cache'[r] = None => asked'[r] = 0
                 /\ stage'[r] = "ask" => cache'[r] = None /\ attempt'[r] < Attempts(r)
                 /\ stage'[r] \in {"none", "recheck"} => attempt'[r] = 0
                 /\ stage'[r] = "none" => reply'[r] = None
      <3>1. CASE r # q
        BY <1>0, <3>1 DEF FlightEffect, Inv, CountInv
      <3>2. CASE r = q
        BY <1>0, <3>2, NoneIsNoReply DEF FlightEffect, Inv, CountInv, FlightTypes
      <3>. QED BY <3>1, <3>2
    <2>. QED BY <2>1, <2>2 DEF CountInv, Attempts
  <1>6. ShownGrows
    BY <1>0 DEF FlightEffect, ShownGrows
  <1>7. FlightsInv'
    <2>1. Evident(q, reply[q])'
      <3>1. CASE reply'[q] \in {reply[q], cache[q]}
        BY <1>6, <3>1, EvidenceStays DEF Inv, FlightsInv
      <3>2. CASE reply'[q] \in Replies \ Negative
        BY <3>2 DEF Evident, Negative
      <3>3. ASSUME NEW s \in Servers, reply'[q] = Holds(held[s], q) PROVE Evident(q, reply[q])'
        <4>1. held[s] \in Contents /\ held[s] \in shown[s]
          BY DEF Inv, WorldTypes, HeldInv
        <4>2. Evident(q, Holds(held[s], q))
          BY <4>1, HoldsEvident DEF Evident, Absent, Lacks
        <4>. QED BY <1>6, <3>3, <4>2, EvidenceStays
      <3>4. CASE reply'[q] = "NO_DATA" /\ torn'
        BY <3>4 DEF Evident
      <3>. QED BY <1>0, <3>1, <3>2, <3>3, <3>4 DEF FlightEffect
    <2>2. \A r \in Questions : Evident(r, cache[r])' \/ cache'[r] # cache[r]
      BY <1>6, EvidenceStays DEF Inv, FlightsInv
    <2>3. \A r \in Questions : Evident(r, reply[r])' \/ reply'[r] # reply[r]
      BY <1>6, EvidenceStays DEF Inv, FlightsInv
    <2>4. Evident(q, cache[q])'
      BY <1>0, <2>1, <2>2 DEF FlightEffect
    <2>. QED BY <1>0, <2>1, <2>2, <2>3, <2>4 DEF FlightEffect, FlightsInv
  <1>8. GotInv'
    <2>1. got' = got
      BY <1>0 DEF FlightEffect, callers
    <2>. QED BY <1>6, <2>1, EvidenceStays DEF Inv, GotInv
  <1>9. ViewInv' /\ AbsenceIsSeen'
    <2>1. UNCHANGED <<mode, shown, views, said, operation>> /\ (torn => torn')
      BY <1>0 DEF FlightEffect, callers
    <2>2. ViewInv'
      BY <2>1 DEF Inv, ViewInv, Absent, Lacks
    <2>3. AbsenceIsSeen'
      BY <2>1, ZenonT(60) DEF Inv, AbsenceIsSeen, Absent, Lacks, Gathers
    <2>. QED BY <2>2, <2>3
  <1>. QED BY <1>1, <1>2, <1>3, <1>4, <1>5, <1>7, <1>8, <1>9 DEF Inv

-----------------------------------------------------------------------------
(* The callers.                                                             *)

(* What the steps of a caller leave alone. One of them can be served a cut  *)
(* reply.                                                                   *)
LEMMA TornOrNot ==
  ASSUME Inv, UNCHANGED <<mode, held, cache, flights, shown, asked>>, torn' = torn \/ torn' = TRUE
  PROVE  WorldTypes' /\ FlightTypes' /\ HeldInv' /\ CountInv' /\ FlightsInv' /\ ShownGrows
  <1>. USE DEF flights
  <1>1. WorldTypes' /\ HeldInv'
    BY DEF Inv, WorldTypes, HeldInv
  <1>2. FlightTypes'
    BY DEF Inv, FlightTypes
  <1>3. CountInv'
    BY DEF Inv, CountInv, Attempts
  <1>4. FlightsInv' /\ ShownGrows
    BY DEF Inv, FlightsInv, Evident, Absent, Lacks, ShownGrows
  <1>. QED BY <1>1, <1>2, <1>3, <1>4

LEMMA OnlyCallers ==
  ASSUME Inv, UNCHANGED <<mode, held, cache, flights, history>>
  PROVE  WorldTypes' /\ FlightTypes' /\ HeldInv' /\ CountInv' /\ FlightsInv' /\ ShownGrows
  BY TornOrNot DEF history

LEMMA GotStays ==
  ASSUME Inv, UNCHANGED <<got, history>>
  PROVE  GotInv'
  BY DEF Inv, GotInv, Evident, Absent, Lacks, history

LEMMA ViewsStay ==
  ASSUME Inv, UNCHANGED <<views, history>>
  PROVE  ViewInv'
  BY DEF Inv, ViewInv, Absent, Lacks, history

LEMMA SaidStays ==
  ASSUME Inv, UNCHANGED <<mode, operation, said, history>>
  PROVE  AbsenceIsSeen'
  BY ZenonT(60) DEF Inv, AbsenceIsSeen, Absent, Lacks, Gathers, history

LEMMA CallInv ==
  ASSUME Inv, NEW c \in Callers, NEW op \in Operations, Call(c, op)
  PROVE  Inv'
  <1>1. UNCHANGED <<mode, held, cache, flights, got, views, said, over, batch, trouble, history>>
    BY DEF Call
  <1>2. /\ pc[c] = "idle" /\ said[c] = None
        /\ operation' = [operation EXCEPT ![c] = op]
        /\ asking' = [asking EXCEPT ![c] = IF op = "health" THEN "health" ELSE "A"]
        /\ pc' = [pc EXCEPT ![c] = IF Gathers(op) THEN "gather" ELSE "look"]
    BY DEF Call, Inv, PlaceInv
  <1>3. CallerTypes'
    BY <1>1, <1>2 DEF Inv, CallerTypes, Questions, Families
  <1>4. PlaceInv'
    <2>1. ASSUME NEW d \in Callers, d # c
          PROVE  pc'[d] = pc[d] /\ operation'[d] = operation[d] /\ asking'[d] = asking[d]
      BY <1>2, <2>1 DEF Inv, CallerTypes
    <2>2. /\ pc'[c] = IF Gathers(op) THEN "gather" ELSE "look"
          /\ operation'[c] = op /\ asking'[c] = IF op = "health" THEN "health" ELSE "A"
      BY <1>2 DEF Inv, CallerTypes
    <2>3. op = "health" => ~Gathers(op)
      BY DEF Gathers
    <2>. QED BY <1>1, <2>1, <2>2, <2>3 DEF Inv, PlaceInv, Gathers, Operations, Families
  <1>5. AbsenceIsSeen'
    <2>1. \A d \in Callers : d # c => operation'[d] = operation[d]
      BY <1>2 DEF Inv, CallerTypes
    <2>2. None \notin {"NXDOMAIN", "NO_DATA"}
      BY NoneIsNoReply DEF Replies, Statuses, Negative
    <2>. QED BY <1>1, <1>2, <2>1, <2>2, ZenonT(60) DEF Inv, AbsenceIsSeen, Absent, Lacks, Gathers, history
  <1>. QED BY <1>1, <1>3, <1>4, <1>5, OnlyCallers, GotStays, ViewsStay DEF Inv

LEMMA LookInv ==
  ASSUME Inv, NEW c \in Callers, Look(c)
  PROVE  Inv'
  <1>1. UNCHANGED <<mode, held, cache, flights, operation, asking, views, said, over, batch, trouble, history>>
    BY DEF Look
  <1>2. PICK asks \in Questions : asks = asking[c]
    BY DEF Inv, CallerTypes
  <1>3. PICK stored \in Replies \cup {None} : stored = cache[asks]
    BY DEF Inv, FlightTypes
  <1>4. Evident(asks, stored)
    BY <1>3 DEF Inv, FlightsInv
  <1>5. pc[c] = "look" /\ (pc' = [pc EXCEPT ![c] = "next"] \/ pc' = [pc EXCEPT ![c] = "join"])
    BY DEF Look
  <1>a. got' = got \/ got' = [got EXCEPT ![c][asks] = stored]
    BY <1>2, <1>3 DEF Look
  <1>b. got \in [Callers -> [Questions -> Replies \cup {None}]]
    BY DEF Inv, CallerTypes
  <1>c. PICK row \in [Questions -> Replies \cup {None}] : row = [got[c] EXCEPT ![asks] = stored]
    BY <1>b
  <1>6. got' = got \/ got' = [got EXCEPT ![c] = row]
    BY <1>a, <1>c
  <1>7. CallerTypes'
    <2>1. got' \in [Callers -> [Questions -> Replies \cup {None}]]
      BY <1>6, <1>b
    <2>2. pc' \in [Callers -> {"idle", "look", "join", "wait", "next", "gather", "done"}]
      <3>1. pc \in [Callers -> {"idle", "look", "join", "wait", "next", "gather", "done"}]
        BY DEF Inv, CallerTypes
      <3>. QED BY <1>5, <3>1
    <2>3. UNCHANGED <<operation, asking, views, said, over>>
      BY <1>1
    <2>. QED BY <2>1, <2>2, <2>3 DEF Inv, CallerTypes
  <1>8. PlaceInv'
    BY <1>1, <1>5 DEF Inv, CallerTypes, PlaceInv, Gathers
  <1>9. GotInv'
    <2>1. \A d \in Callers, q \in Questions : got'[d][q] = got[d][q] \/ (q = asks /\ got'[d][q] = stored)
      <3>1. \A q \in Questions : row[q] = got[c][q] \/ (q = asks /\ row[q] = stored)
        BY <1>b, <1>c
      <3>. QED BY <1>6, <1>b, <3>1
    <2>2. \A d \in Callers, q \in Questions : Evident(q, got'[d][q])
      BY <1>4, <2>1 DEF Inv, GotInv
    <2>. QED BY <1>1, <2>2 DEF GotInv, Evident, Absent, Lacks, history
  <1>. QED BY <1>1, <1>7, <1>8, <1>9, OnlyCallers, ViewsStay, SaidStays DEF Inv

LEMMA JoinInv ==
  ASSUME Inv, NEW c \in Callers, Join(c)
  PROVE  Inv'
  <1>1. UNCHANGED <<mode, held, cache, attempt, reply, operation, asking, got, views, said, over, batch, trouble,
                    history>>
    BY DEF Join
  <1>2. pc[c] = "join" /\ pc' = [pc EXCEPT ![c] = "wait"]
    BY DEF Join
  <1>3. \/ UNCHANGED <<stage, leader>>
        \/ /\ stage[asking[c]] = "none" /\ stage' = [stage EXCEPT ![asking[c]] = "recheck"]
           /\ leader' = [leader EXCEPT ![asking[c]] = c]
    BY DEF Join
  <1>4. CallerTypes'
    BY <1>1, <1>2 DEF Inv, CallerTypes
  <1>5. PlaceInv'
    BY <1>1, <1>2 DEF Inv, CallerTypes, PlaceInv, Gathers
  <1>6. FlightTypes'
    BY <1>1, <1>3 DEF Inv, FlightTypes, history
  <1>7. CountInv'
    <2>1. \A q \in Questions : stage'[q] = stage[q] \/ (stage[q] = "none" /\ stage'[q] = "recheck")
      BY <1>3 DEF Inv, FlightTypes
    <2>. QED BY <1>1, <2>1 DEF Inv, CountInv, Attempts, history
  <1>8. WorldTypes' /\ HeldInv'
    BY <1>1 DEF Inv, WorldTypes, HeldInv, history
  <1>9. FlightsInv'
    BY <1>1 DEF Inv, FlightsInv, Evident, Absent, Lacks, history
  <1>. QED BY <1>1, <1>4, <1>5, <1>6, <1>7, <1>8, <1>9, GotStays, ViewsStay, SaidStays DEF Inv

LEMMA AskSecondFamilyInv ==
  ASSUME Inv, NEW c \in Callers, AskSecondFamily(c)
  PROVE  Inv'
  <1>1. UNCHANGED <<mode, held, cache, flights, operation, got, views, said, over, batch, trouble, history>>
    BY DEF AskSecondFamily
  <1>2. /\ pc[c] = "next" /\ operation[c] = "address"
        /\ asking' = [asking EXCEPT ![c] = "AAAA"] /\ pc' = [pc EXCEPT ![c] = "look"]
    BY DEF AskSecondFamily
  <1>3. CallerTypes'
    BY <1>1, <1>2 DEF Inv, CallerTypes, Questions, Families
  <1>4. PlaceInv'
    BY <1>1, <1>2 DEF Inv, CallerTypes, PlaceInv, Gathers, Families
  <1>. QED BY <1>1, <1>3, <1>4, OnlyCallers, GotStays, ViewsStay, SaidStays DEF Inv

LEMMA SecondFamilyInv ==
  ASSUME Inv, NEW c \in Callers, SecondFamily(c)
  PROVE  Inv'
  <1>1. UNCHANGED <<mode, held, cache, flights, pc, operation, got, views, said, over, batch, trouble, history>>
    BY DEF SecondFamily
  <1>2. /\ pc[c] = "gather" /\ asking[c] = "A" /\ Missing(c) = {}
        /\ asking' = [asking EXCEPT ![c] = "AAAA"]
    BY DEF SecondFamily
  <1>3. CallerTypes'
    BY <1>1, <1>2 DEF Inv, CallerTypes, Questions, Families
  <1>4. \A s \in Servers : views[c]["A"][s] # None
    BY <1>2 DEF Missing
  <1>5. operation[c] = "address"
    BY <1>2 DEF Inv, PlaceInv, Gathers
  <1>6. PlaceInv'
    BY <1>1, <1>2, <1>4, <1>5 DEF Inv, CallerTypes, PlaceInv, Gathers, Families
  <1>. QED BY <1>1, <1>3, <1>6, OnlyCallers, GotStays, ViewsStay, SaidStays DEF Inv

LEMMA ViewStepInv ==
  ASSUME Inv, NEW c \in Callers, NEW s \in Servers, NEW view \in AnyView, View(c, s, view),
         view.status = "NXDOMAIN" => Absent(s),
         view.status = "NO_DATA" => torn' \/ Lacks(s, asking[c]),
         torn' = torn \/ torn' = TRUE
  PROVE  Inv'
  <1>1. UNCHANGED <<mode, held, cache, flights, pc, operation, asking, got, said, over, batch, shown, asked>>
    BY DEF View
  <1>2. pc[c] = "gather" /\ views' = [views EXCEPT ![c][asking[c]][s] = view]
    BY DEF View
  <1>3. operation[c] = "address" /\ asking[c] \in Families
    BY <1>2 DEF Inv, PlaceInv, Gathers
  <1>4. CallerTypes'
    BY <1>1, <1>2, <1>3 DEF Inv, CallerTypes
  <1>5. \A d \in Callers, f \in Families, t \in Servers :
          \/ views'[d][f][t] = views[d][f][t]
          \/ d = c /\ f = asking[c] /\ t = s /\ views'[d][f][t] = view
    BY <1>2, <1>3 DEF Inv, CallerTypes
  <1>6. PlaceInv'
    <2>1. \A d \in Callers, t \in Servers : asking[d] = "AAAA" => views'[d]["A"][t] = views[d]["A"][t]
      BY <1>5 DEF Families
    <2>. QED BY <1>1, <2>1 DEF Inv, PlaceInv, Gathers
  <1>7. ViewInv'
    BY <1>1, <1>5 DEF Inv, ViewInv, Absent, Lacks
  <1>8. GotInv'
    BY <1>1 DEF Inv, GotInv, Evident, Absent, Lacks
  <1>9. AbsenceIsSeen'
    <2>1. UNCHANGED <<mode, shown, said, operation>> /\ (torn => torn')
      BY <1>1
    <2>. QED BY <2>1, ZenonT(60) DEF Inv, AbsenceIsSeen, Absent, Lacks, Gathers
  <1>. QED BY <1>1, <1>4, <1>6, <1>7, <1>8, <1>9, TornOrNot DEF Inv

LEMMA ViewsInv ==
  ASSUME Inv, NEW c \in Callers, Views(c) \/ LostViews(c)
  PROVE  Inv'
  <1>1. ASSUME NEW s \in Servers, View(c, s, ViewOf(held[s], asking[c])), torn' = torn PROVE Inv'
    <2>1. pc[c] = "gather" /\ operation[c] = "address" /\ asking[c] \in Families
      BY <1>1 DEF View, Inv, PlaceInv, Gathers
    <2>2. held[s] \in Contents /\ held[s] \in shown[s] /\ asking[c] \in Questions
      BY <2>1 DEF Inv, WorldTypes, HeldInv, Questions
    <2>3. /\ ViewOf(held[s], asking[c]) \in AnyView
          /\ ViewOf(held[s], asking[c]).status = Holds(held[s], asking[c])
      BY <2>1, <2>2, HoldsEvident DEF ViewOf, AnyView
    <2>. QED BY <1>1, <2>2, <2>3, HoldsEvident, ViewStepInv DEF Absent, Lacks
  <1>2. ASSUME NEW s \in Servers, NEW status \in Transient, View(c, s, Blind(status)), torn' = torn PROVE Inv'
    <2>1. Blind(status) \in AnyView /\ Blind(status).status = status /\ status \notin Negative
      BY DEF Blind, AnyView, Statuses, Transient, Negative
    <2>. QED BY <1>2, <2>1, ViewStepInv DEF Negative
  <1>3. ASSUME NEW s \in Servers, View(c, s, Blind("NO_DATA")), torn' = TRUE PROVE Inv'
    <2>1. Blind("NO_DATA") \in AnyView /\ Blind("NO_DATA").status = "NO_DATA"
      BY DEF Blind, AnyView, Statuses, Negative
    <2>. QED BY <1>3, <2>1, ViewStepInv
  <1>. QED BY <1>1, <1>2, <1>3 DEF Views, LostViews, Transient

(* The end of a call: what it says.                                         *)
Enough(c, servers) ==
  Cardinality(servers) >= IF Gathers(operation[c]) THEN Cardinality(Servers) \div 2 + 1 ELSE 1

SaidRight(c, status) ==
  /\ status = "NXDOMAIN" => Enough(c, {s \in Servers : Absent(s)})
  /\ status = "NO_DATA" =>
       \/ torn
       \/ \A f \in Families : (operation[c] = "nxdomain" /\ f = "AAAA") \/ Enough(c, {s \in Servers : Lacks(s, f)})

LEMMA SaysInv ==
  ASSUME Inv, NEW c \in Callers, NEW status \in Replies \cup {None}, SaidRight(c, status),
         said' = [said EXCEPT ![c] = status], pc' = [pc EXCEPT ![c] = "done"],
         UNCHANGED <<mode, held, cache, flights, operation, asking, got, views, over, batch, trouble, history>>
  PROVE  Inv'
  <1>1. CallerTypes'
    BY DEF Inv, CallerTypes
  <1>2. PlaceInv'
    BY DEF Inv, CallerTypes, PlaceInv, Gathers
  <1>3. AbsenceIsSeen'
    <2>1. \A d \in Callers : said'[d] = IF d = c THEN status ELSE said[d]
      BY DEF Inv, CallerTypes
    <2>2. \A d \in Callers : SaidRight(d, said'[d])
      BY <2>1 DEF Inv, AbsenceIsSeen, SaidRight, Enough
    <2>. QED BY <2>2 DEF AbsenceIsSeen, SaidRight, Enough, Absent, Lacks, Gathers, history
  <1>. QED BY <1>1, <1>2, <1>3, OnlyCallers, GotStays, ViewsStay DEF Inv

LEMMA OneIsEnough ==
  ASSUME NEW c, ~Gathers(operation[c]), NEW T \in SUBSET Servers, T # {}
  PROVE  Enough(c, T)
  <1>1. IsFiniteSet(T)
    BY FS_Subset
  <1>2. Cardinality(T) \in Nat /\ Cardinality(T) # 0
    BY <1>1, FS_CardinalityType, FS_EmptySet
  <1>. QED BY <1>2 DEF Enough

LEMMA ConcludeInv ==
  ASSUME Inv, NEW c \in Callers, Conclude(c)
  PROVE  Inv'
  <1>1. /\ pc[c] = "next" /\ ~Gathers(operation[c])
        /\ operation[c] = "address" /\ asking[c] = "A" => got[c]["A"] = "RESOLVED"
        /\ said' = [said EXCEPT ![c] = Verdict(c)] /\ pc' = [pc EXCEPT ![c] = "done"]
        /\ UNCHANGED <<mode, held, cache, flights, operation, asking, got, views, over, batch, trouble, history>>
    BY DEF Conclude, Inv, PlaceInv
  <1>2. /\ asking[c] \in Questions /\ \A q \in Questions : got[c][q] \in Replies \cup {None} /\ Evident(q, got[c][q])
        /\ operation[c] \in Operations
    BY DEF Inv, CallerTypes, GotInv
  <1>3. {"A", "AAAA"} \subseteq Questions /\ "RESOLVED" \in Replies
    BY DEF Questions, Families, Replies, Statuses
  <1>4. Verdict(c) \in Replies \cup {None}
    BY <1>2, <1>3, AddressStatusAbsent DEF Verdict
  <1>5. \/ Verdict(c) \notin Negative
        \/ /\ operation[c] = "address"
           /\ got[c]["A"] = Verdict(c) /\ got[c]["AAAA"] = Verdict(c)
        \/ operation[c] # "address" /\ got[c][asking[c]] = Verdict(c)
    BY <1>2, <1>3, AddressStatusAbsent DEF Verdict, Negative
  <1>6. ASSUME Verdict(c) = "NXDOMAIN" PROVE Enough(c, {s \in Servers : Absent(s)})
    <2>1. \E s \in Servers : Absent(s)
      BY <1>2, <1>3, <1>5, <1>6 DEF Evident, Negative
    <2>2. {s \in Servers : Absent(s)} # {}
      BY <2>1
    <2>. QED BY <1>1, <2>2, OneIsEnough
  <1>7. ASSUME Verdict(c) = "NO_DATA", ~torn, NEW f \in Families, ~(operation[c] = "nxdomain" /\ f = "AAAA")
        PROVE  Enough(c, {s \in Servers : Lacks(s, f)})
    <2>1. Evident(f, "NO_DATA") \/ Evident("health", "NO_DATA")
      <3>1. operation[c] = "nxdomain" => asking[c] = "A" /\ f = "A"
        BY <1>7 DEF Inv, PlaceInv, Families
      <3>2. operation[c] = "health" => asking[c] = "health"
        BY DEF Inv, PlaceInv
      <3>. QED BY <1>2, <1>3, <1>5, <1>7, <3>1, <3>2 DEF Negative, Operations, Families
    <2>2. \E s \in Servers : Lacks(s, f)
      BY <1>7, <2>1 DEF Evident, Families
    <2>3. {s \in Servers : Lacks(s, f)} # {}
      BY <2>2
    <2>. QED BY <1>1, <2>3, OneIsEnough
  <1>8. SaidRight(c, Verdict(c))
    BY <1>6, <1>7 DEF SaidRight
  <1>9. PICK status \in Replies \cup {None} : status = Verdict(c)
    BY <1>4
  <1>. QED BY <1>1, <1>8, <1>9, SaysInv

(* A quorum of the servers showed what the consensus says.                  *)
LEMMA QuorumShowed ==
  ASSUME NEW status \in Negative, NEW v, DOMAIN v = Servers, ConsensusStatus(v) = status,
         NEW T \in SUBSET Servers, \A s \in Servers : v[s].status = status => s \in T
  PROVE  Cardinality(T) >= Cardinality(Servers) \div 2 + 1
  <1>1. Cardinality(StatusBackers(v, status)) >= Cardinality(Servers) \div 2 + 1
    BY ConsensusHasQuorum DEF Quorum, Negative
  <1>2. StatusBackers(v, status) \subseteq T
    BY DEF StatusBackers
  <1>3. IsFiniteSet(T)
    BY FS_Subset
  <1>4. IsFiniteSet(StatusBackers(v, status)) /\ Cardinality(StatusBackers(v, status)) <= Cardinality(T)
    BY <1>2, <1>3, FS_Subset
  <1>5. Cardinality(T) \in Nat /\ Cardinality(StatusBackers(v, status)) \in Nat /\ Cardinality(Servers) \in Nat
    BY <1>3, <1>4, FS_CardinalityType
  <1>. QED BY <1>1, <1>4, <1>5

LEMMA TallyInv ==
  ASSUME Inv, NEW c \in Callers, Tally(c)
  PROVE  Inv'
  <1>. DEFINE status == AddressConsensus(views[c]["A"], views[c]["AAAA"]).status
  <1>1. /\ pc[c] = "gather" /\ asking[c] = "AAAA" /\ Missing(c) = {}
        /\ said' = [said EXCEPT ![c] = status] /\ pc' = [pc EXCEPT ![c] = "done"]
        /\ UNCHANGED <<mode, held, cache, flights, operation, asking, got, views, over, batch, trouble, history>>
    BY DEF Tally
  <1>2. Gathers(operation[c])
    BY <1>1 DEF Inv, PlaceInv
  <1>3. \A s \in Servers : views[c]["A"][s] # None /\ views[c]["AAAA"][s] # None
    BY <1>1 DEF Inv, PlaceInv, Missing
  <1>4. \A f \in Families : DOMAIN views[c][f] = Servers
    BY DEF Inv, CallerTypes
  <1>5. status \in Replies
    BY DEF AddressConsensus, Replies, Statuses, Negative, Transient
  <1>6. status \in Negative => \A f \in Families : ConsensusStatus(views[c][f]) = status
    BY AddressConsensusAbsent DEF Families
  <1>. HIDE DEF status
  <1>7. ASSUME status = "NXDOMAIN" PROVE Enough(c, {s \in Servers : Absent(s)})
    <2>1. ConsensusStatus(views[c]["A"]) = "NXDOMAIN" /\ DOMAIN views[c]["A"] = Servers
      BY <1>4, <1>6, <1>7 DEF Negative, Families
    <2>2. \A s \in Servers : views[c]["A"][s].status = "NXDOMAIN" => s \in {t \in Servers : Absent(t)}
      BY <1>3 DEF Inv, ViewInv, Families
    <2>3. "NXDOMAIN" \in Negative /\ {t \in Servers : Absent(t)} \in SUBSET Servers
      BY DEF Negative
    <2>4. Cardinality({t \in Servers : Absent(t)}) >= Cardinality(Servers) \div 2 + 1
      BY <2>1, <2>2, <2>3, QuorumShowed
    <2>. QED BY <1>2, <2>4 DEF Enough
  <1>8. ASSUME status = "NO_DATA", ~torn, NEW f \in Families PROVE Enough(c, {s \in Servers : Lacks(s, f)})
    <2>1. ConsensusStatus(views[c][f]) = "NO_DATA" /\ DOMAIN views[c][f] = Servers
      BY <1>4, <1>6, <1>8 DEF Negative
    <2>2. \A s \in Servers : views[c][f][s].status = "NO_DATA" => s \in {t \in Servers : Lacks(t, f)}
      BY <1>3, <1>8 DEF Inv, ViewInv, Families
    <2>3. "NO_DATA" \in Negative /\ {t \in Servers : Lacks(t, f)} \in SUBSET Servers
      BY DEF Negative
    <2>4. Cardinality({t \in Servers : Lacks(t, f)}) >= Cardinality(Servers) \div 2 + 1
      BY <2>1, <2>2, <2>3, QuorumShowed
    <2>. QED BY <1>2, <2>4 DEF Enough
  <1>9. SaidRight(c, status)
    BY <1>7, <1>8 DEF SaidRight
  <1>10. PICK st \in Replies \cup {None} : st = status
    BY <1>5
  <1>. QED BY <1>1, <1>9, <1>10, SaysInv

-----------------------------------------------------------------------------
(* The end of a flight, and what happens around the resolver.               *)

LEMMA LandInv ==
  ASSUME Inv, NEW q \in Questions, Land(q)
  PROVE  Inv'
  <1>1. /\ stage[q] = "land"
        /\ got' = [c \in Callers |-> IF c \in Waiting(q) THEN [got[c] EXCEPT ![q] = reply[q]] ELSE got[c]]
        /\ pc' = [c \in Callers |-> IF c \in Waiting(q) THEN "next" ELSE pc[c]]
        /\ stage' = [stage EXCEPT ![q] = "none"] /\ reply' = [reply EXCEPT ![q] = None]
        /\ leader' = [leader EXCEPT ![q] = None] /\ attempt' = [attempt EXCEPT ![q] = 0]
    BY DEF Land
  <1>2. UNCHANGED <<mode, held, cache, operation, asking, views, said, over, batch, trouble, history>>
    BY DEF Land
  <1>3. FlightTypes'
    BY <1>1, <1>2 DEF Inv, FlightTypes, history
  <1>4. CallerTypes'
    <2>1. \A c \in Callers : [got[c] EXCEPT ![q] = reply[q]] \in [Questions -> Replies \cup {None}]
      BY DEF Inv, CallerTypes, FlightTypes
    <2>2. got' \in [Callers -> [Questions -> Replies \cup {None}]]
      BY <1>1, <2>1 DEF Inv, CallerTypes
    <2>3. pc' \in [Callers -> {"idle", "look", "join", "wait", "next", "gather", "done"}]
      BY <1>1 DEF Inv, CallerTypes
    <2>. QED BY <1>2, <2>2, <2>3 DEF Inv, CallerTypes
  <1>5. CountInv'
    <2>1. \A r \in Questions : r # q => stage'[r] = stage[r] /\ attempt'[r] = attempt[r] /\ reply'[r] = reply[r]
      BY <1>1 DEF Inv, FlightTypes
    <2>2. stage'[q] = "none" /\ attempt'[q] = 0 /\ reply'[q] = None
      BY <1>1 DEF Inv, FlightTypes
    <2>. QED BY <1>2, <2>1, <2>2 DEF Inv, CountInv, Attempts, history
  <1>6. FlightsInv'
    <2>1. \A r \in Questions : reply'[r] = reply[r] \/ reply'[r] = None
      BY <1>1 DEF Inv, FlightTypes
    <2>2. \A r \in Questions : Evident(r, reply'[r])
      BY <2>1, NoneIsNoReply DEF Inv, FlightsInv
    <2>. QED BY <1>2, <2>2 DEF Inv, FlightsInv, Evident, Absent, Lacks, history
  <1>7. GotInv'
    <2>1. \A c \in Callers, r \in Questions : got'[c][r] = got[c][r] \/ (r = q /\ got'[c][r] = reply[q])
      BY <1>1 DEF Inv, CallerTypes
    <2>2. \A c \in Callers, r \in Questions : Evident(r, got'[c][r])
      BY <2>1 DEF Inv, GotInv, FlightsInv
    <2>. QED BY <1>2, <2>2 DEF GotInv, Evident, Absent, Lacks, history
  <1>8. PlaceInv'
    <2>1. \A c \in Callers : pc'[c] = pc[c] \/ (pc[c] = "wait" /\ pc'[c] = "next")
      BY <1>1 DEF Waiting, Inv, CallerTypes
    <2>. QED BY <1>2, <2>1 DEF Inv, PlaceInv, Gathers
  <1>9. WorldTypes' /\ HeldInv'
    BY <1>2 DEF Inv, WorldTypes, HeldInv, history
  <1>. QED BY <1>2, <1>3, <1>4, <1>5, <1>6, <1>7, <1>8, <1>9, ViewsStay, SaidStays DEF Inv

LEMMA ChangeInv ==
  ASSUME Inv, NEW s \in Servers, NEW content \in Contents, Change(s, content)
  PROVE  Inv'
  <1>1. /\ held' = [held EXCEPT ![s] = content]
        /\ shown' = [shown EXCEPT ![s] = @ \cup {content}]
        /\ UNCHANGED <<mode, cache, flights, callers, over, batch, asked, torn>>
    BY DEF Change
  <1>2. WorldTypes' /\ HeldInv'
    BY <1>1 DEF Inv, WorldTypes, HeldInv
  <1>3. ShownGrows
    BY <1>1 DEF Inv, WorldTypes, ShownGrows
  <1>4. FlightTypes' /\ CountInv'
    BY <1>1 DEF Inv, FlightTypes, CountInv, Attempts, flights
  <1>5. CallerTypes' /\ PlaceInv'
    BY <1>1 DEF Inv, CallerTypes, PlaceInv, Gathers, callers
  <1>6. FlightsInv'
    BY <1>1, <1>3, EvidenceStays DEF Inv, FlightsInv, flights
  <1>7. GotInv'
    BY <1>1, <1>3, EvidenceStays DEF Inv, GotInv, callers
  <1>8. \A t \in Servers : (Absent(t) => Absent(t)') /\ \A f \in Families : Lacks(t, f) => Lacks(t, f)'
    BY <1>3 DEF ShownGrows, Absent, Lacks
  <1>9. ViewInv'
    BY <1>1, <1>8 DEF Inv, ViewInv, callers
  <1>10. AbsenceIsSeen'
    <2>1. ASSUME NEW c \in Callers, NEW T \in SUBSET Servers, NEW U \in SUBSET Servers, T \subseteq U, Enough(c, T)
          PROVE  Enough(c, U)
      <3>1. IsFiniteSet(U)
        BY FS_Subset
      <3>2. IsFiniteSet(T) /\ Cardinality(T) <= Cardinality(U) /\ Cardinality(T) \in Nat /\ Cardinality(U) \in Nat
        BY <2>1, <3>1, FS_Subset, FS_CardinalityType
      <3>3. Cardinality(Servers) \in Nat
        BY FS_CardinalityType
      <3>. QED BY <2>1, <3>2, <3>3 DEF Enough
    <2>2. \A c \in Callers : SaidRight(c, said[c])
      BY DEF Inv, AbsenceIsSeen, SaidRight, Enough
    <2>3. {t \in Servers : Absent(t)} \subseteq {t \in Servers : Absent(t)'}
      BY <1>8
    <2>4. \A f \in Families : {t \in Servers : Lacks(t, f)} \subseteq {t \in Servers : Lacks(t, f)'}
      BY <1>8
    <2>5. \A c \in Callers, T \in SUBSET Servers : Enough(c, T) <=> Enough(c, T)'
      BY <1>1 DEF Enough, Gathers, callers
    <2>6. ASSUME NEW c \in Callers PROVE SaidRight(c, said[c])'
      <3>1. Enough(c, {t \in Servers : Absent(t)}) => Enough(c, {t \in Servers : Absent(t)'})
        BY <2>1, <2>3
      <3>2. \A f \in Families : Enough(c, {t \in Servers : Lacks(t, f)}) => Enough(c, {t \in Servers : Lacks(t, f)'})
        BY <2>1, <2>4
      <3>3. said'[c] = said[c] /\ torn' = torn /\ operation'[c] = operation[c]
        BY <1>1 DEF callers
      <3>. QED BY <2>2, <2>5, <3>1, <3>2, <3>3 DEF SaidRight
    <2>. QED BY <2>6 DEF AbsenceIsSeen, SaidRight, Enough
  <1>. QED BY <1>2, <1>4, <1>5, <1>6, <1>7, <1>9, <1>10 DEF Inv

LEMMA InterruptInv ==
  ASSUME Inv, NEW c \in Callers, Interrupt(c)
  PROVE  Inv'
  <1>1. UNCHANGED <<mode, held, cache, flights, callers, batch, history>> /\ over' = over \cup {c}
    BY DEF Interrupt
  <1>2. CallerTypes' /\ PlaceInv'
    BY <1>1 DEF Inv, CallerTypes, PlaceInv, Gathers, callers
  <1>. QED BY <1>1, <1>2, OnlyCallers, GotStays, ViewsStay, SaidStays DEF Inv, callers

LEMMA BeginBatchInv ==
  ASSUME Inv, BeginBatch
  PROVE  Inv'
  <1>1. /\ \A q \in Questions : stage[q] = "none"
        /\ Fresh /\ cache' = NoReplies /\ UNCHANGED <<mode, held, flights, trouble>>
    BY DEF BeginBatch, BatchEnds
  <1>2. NoReplies \in [Questions -> Replies \cup {None}] /\ \A q \in Questions : NoReplies[q] = None
    BY DEF NoReplies
  <1>3. NoViews \in [Families -> [Servers -> AnyView \cup {None}]]
        /\ \A f \in Families, s \in Servers : NoViews[f][s] = None
    BY DEF NoViews
  <1>. HIDE DEF NoReplies, NoViews
  <1>4. WorldTypes' /\ HeldInv'
    BY <1>1 DEF Inv, WorldTypes, HeldInv, Fresh
  <1>5. FlightTypes'
    BY <1>1, <1>2 DEF Inv, FlightTypes, Fresh, flights
  <1>6. CallerTypes'
    BY <1>1, <1>2, <1>3 DEF CallerTypes, Fresh, Operations, Questions, Families
  <1>7. CountInv'
    BY <1>1, <1>2 DEF Inv, CountInv, Attempts, Fresh, flights
  <1>8. FlightsInv'
    <2>1. \A q \in Questions : cache'[q] = None /\ reply'[q] = None
      BY <1>1, <1>2 DEF Inv, CountInv, flights
    <2>. QED BY <2>1, NoneIsNoReply DEF FlightsInv, Evident, Replies, Statuses, Negative
  <1>9. GotInv'
    <2>1. \A c \in Callers, q \in Questions : got'[c][q] = None
      BY <1>1, <1>2 DEF Fresh
    <2>. QED BY <2>1, NoneIsNoReply DEF GotInv, Evident, Replies, Statuses, Negative
  <1>10. ViewInv'
    BY <1>1, <1>3 DEF ViewInv, Fresh
  <1>11. PlaceInv'
    BY <1>1 DEF PlaceInv, Fresh, Families
  <1>12. AbsenceIsSeen'
    <2>1. \A c \in Callers : said'[c] = None
      BY <1>1 DEF Fresh
    <2>. QED BY <2>1, NoneIsNoReply DEF AbsenceIsSeen, Replies, Statuses, Negative
  <1>. QED BY <1>4, <1>5, <1>6, <1>7, <1>8, <1>9, <1>10, <1>11, <1>12 DEF Inv

-----------------------------------------------------------------------------
(* The theorems.                                                            *)

LEMMA InitInv == Init => Inv
  <1>. SUFFICES ASSUME Init PROVE Inv
    OBVIOUS
  <1>2. NoReplies \in [Questions -> Replies \cup {None}] /\ \A q \in Questions : NoReplies[q] = None
    BY DEF NoReplies
  <1>3. NoViews \in [Families -> [Servers -> AnyView \cup {None}]]
        /\ \A f \in Families, s \in Servers : NoViews[f][s] = None
    BY DEF NoViews
  <1>. HIDE DEF NoReplies, NoViews
  <1>4. held \in [Servers -> Contents]
    BY DEF Init, Contents
  <1>5. WorldTypes /\ HeldInv
    <2>1. mode \in {"doh", "plain", "consensus"} /\ torn = FALSE /\ shown = [s \in Servers |-> {held[s]}]
      BY DEF Init
    <2>2. shown \in [Servers -> SUBSET Contents] /\ \A s \in Servers : held[s] \in shown[s]
      BY <1>4, <2>1
    <2>. QED BY <1>4, <2>1, <2>2 DEF WorldTypes, HeldInv
  <1>6. FlightTypes
    BY <1>2 DEF Init, FlightTypes
  <1>7. CallerTypes
    BY <1>2, <1>3 DEF Init, CallerTypes, Operations, Questions, Families
  <1>8. CountInv
    BY <1>2 DEF Init, CountInv
  <1>9. FlightsInv /\ GotInv
    BY <1>2, NoneIsNoReply DEF Init, FlightsInv, GotInv
  <1>10. ViewInv
    BY <1>3 DEF Init, ViewInv
  <1>11. PlaceInv
    BY DEF Init, PlaceInv, Families
  <1>12. AbsenceIsSeen
    BY NoneIsNoReply DEF Init, AbsenceIsSeen, Replies, Statuses, Negative
  <1>. QED BY <1>5, <1>6, <1>7, <1>8, <1>9, <1>10, <1>11, <1>12 DEF Inv

LEMMA NextInv ==
  ASSUME Inv, [Next]_vars
  PROVE  Inv'
  <1>1. ASSUME NEW c \in Callers, NEW op \in Operations, Call(c, op) PROVE Inv'
    BY <1>1, CallInv
  <1>2. ASSUME NEW c \in Callers, Step(c) \/ LostViews(c) \/ Interrupt(c) PROVE Inv'
    BY <1>2, LookInv, JoinInv, AskSecondFamilyInv, ConcludeInv, ViewsInv, SecondFamilyInv, TallyInv, InterruptInv
       DEF Step
  <1>3. ASSUME NEW q \in Questions, Fly(q) \/ Faulty(q) PROVE Inv'
    BY <1>3, FlightStepInv, LandInv DEF Fly, FlightStep
  <1>4. ASSUME NEW s \in Servers, NEW content \in Contents, Change(s, content) PROVE Inv'
    BY <1>4, ChangeInv
  <1>5. CASE BeginBatch
    BY <1>5, BeginBatchInv
  <1>6. CASE UNCHANGED vars
    <2>1. UNCHANGED <<mode, held, cache, flights, callers, over, history>>
      BY <1>6 DEF vars, flights, callers, history
    <2>2. CallerTypes' /\ PlaceInv'
      BY <2>1 DEF Inv, CallerTypes, PlaceInv, Gathers, callers
    <2>. QED BY <2>1, <2>2, OnlyCallers, GotStays, ViewsStay, SaidStays DEF Inv, callers
  <1>. QED BY <1>1, <1>2, <1>3, <1>4, <1>5, <1>6 DEF Next

(* The inductive invariant holds in every reachable state.                  *)
THEOREM Invariance == Spec => []Inv
  <1>1. Inv /\ [Next]_vars => Inv'
    BY NextInv
  <1>. QED BY <1>1, InitInv, PTL DEF Spec

(* Every variable keeps its type, for any callers, servers and bounds.      *)
THEOREM TypesHold == Spec => []TypeOK
  <1>1. Inv => TypeOK
    BY DEF Inv, WorldTypes, FlightTypes, CallerTypes, TypeOK
  <1>. QED BY <1>1, Invariance, PTL

(* However many callers ask at once, a cycle keeps one answer a question.   *)
THEOREM OneAnswerACycle == Spec => []AskedOnce
  <1>1. Inv => AskedOnce
    BY DEF Inv, CountInv, AskedOnce
  <1>. QED BY <1>1, Invariance, PTL

(* A name is reported absent only on what servers of this cycle showed, a   *)
(* quorum of them where the consensus is asked, whatever else was lost.     *)
THEOREM AbsenceIsWitnessed == Spec => []AbsenceIsSeen
  <1>1. Inv => AbsenceIsSeen
    BY DEF Inv
  <1>. QED BY <1>1, Invariance, PTL
=============================================================================
