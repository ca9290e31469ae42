---------------------------- MODULE HttpMutator ------------------------------
(***************************************************************************)
(* The collectors that repeat a blocked request in another form, between    *)
(* two plain controls (internal/evidence/http_mutator.go, http_mutations.go *)
(* and http_raw_transport.go).                                              *)
(*                                                                         *)
(* Of the world: w.raw[scheme][probe] are the four replies to a probe, the  *)
(* control, the mutation twice, the control; w.walls[scheme] is what the    *)
(* reply says of a firewall; w.maxProbes and w.framing are options.         *)
(* A raw reply is [part, ends, framing, status, body]: the part at which    *)
(* the reading stopped and why, how its body is delimited.                  *)
(***************************************************************************)
EXTENDS WebEvidence

HostProbes == <<"NullByteHostProbe", "HostWhitespaceProbe", "HostTrailingDotProbe", "ExplicitPortProbe", "AbsoluteFormProbe">>
FramingProbes == <<"CLTEProbe", "TECLProbe">>

-----------------------------------------------------------------------------
(* http_raw_transport.go                                                    *)

ResponseHasNoBody(status) == status \in 100..199 \cup {204, 304}

\* Send: a body without a length is whole when the connection is closed.
RawObservation(r) ==
  LET headers == r.part = "body"
      whole == headers /\ (r.ends = "whole" \/ ResponseHasNoBody(r.status) \/ (r.framing = "close" /\ r.ends = "closed"))
  IN [complete |-> whole,
      timedOut |-> ~whole /\ r.ends = "timeout",
      transport |-> ~whole /\ r.ends \in {"timeout", "reset", "refused"},
      parse |-> ~whole /\ r.ends \in {"malformed", "limit", "closed"},
      status |-> IF r.part \in {"headers", "body"} THEN r.status ELSE 0,
      body |-> IF headers /\ ~ResponseHasNoBody(r.status) THEN r.body ELSE ""]

Unsent == [complete |-> FALSE, timedOut |-> FALSE, transport |-> TRUE, parse |-> FALSE, status |-> 0, body |-> ""]

UsableRawObservation(o) == o.complete /\ ~o.timedOut /\ ~o.transport /\ ~o.parse
MutationResponsesEquivalent(first, second) ==
  UsableRawObservation(first) /\ UsableRawObservation(second) /\ first.status = second.status /\ first.body = second.body

-----------------------------------------------------------------------------
(* The budget of a host is four timeouts: a reply that comes costs nothing  *)
(* of it, one that does not costs one, and at zero nothing more is sent.    *)

HostTimeouts == 4

Exhausted(left) == left = 0

\* The four sends of a probe, and what is left of the budget after them.
Experiment(replies, left) ==
  LET spent(i) == Cardinality({j \in 1..i : RawObservation(replies[j]).timedOut})
  IN [seen |-> [i \in 1..4 |-> IF Exhausted(left - AtMost(left, spent(i - 1))) THEN Unsent ELSE RawObservation(replies[i])],
      left |-> left - AtMost(left, spent(4))]

-----------------------------------------------------------------------------
(* What an experiment shows. candidates are the aliases of the host whose   *)
(* signature the collector knows, with the link each one made. A signature  *)
(* of names that do not exist has the word NXDOMAIN for its fingerprint.    *)

MutationCandidates(w, a) ==
  Those(w.aliases, LAMBDA n : /\ Known(n.signature) /\ (n.signature.body # "" \/ n.signature.nx)
                                  /\ \E c \in a.candidates : c.vector = "CNAME" /\ c.resource = n.name)

BodyMatchesCandidate(candidates, body) ==
  \E i \in DOMAIN candidates : candidates[i].signature.body # "" /\ candidates[i].signature.body = body

\* confirmedProviderFingerprint, then genericFingerprintReview, which looks at
\* the first reply alone: replies that are no different have one status.
Fingerprints(candidates, seen, eligible) ==
  Those(candidates, LAMBDA c : /\ c.signature.body # "" /\ seen[2].body = c.signature.body /\ seen[3].body = c.signature.body
                                   /\ eligible = (/\ EligibleTakeoverFingerprint(c.signature, seen[2].status)
                                                  /\ EligibleTakeoverFingerprint(c.signature, seen[3].status)))

Revealed(candidates, seen) ==
  LET confirmed == Fingerprints(candidates, seen, TRUE)
      review == Fingerprints(candidates, seen, FALSE)
  IN IF confirmed # <<>>
     THEN <<[About(Evidence("HTTP_MUTATION_REVEALED_PROVIDER_FINGERPRINT", confirmed[1].signature.service, 50, 90),
                   confirmed[1].name) EXCEPT !.firm = TRUE]>>
     ELSE If(review # <<>>, <<Evidence("HTTP_MUTATION_FINGERPRINT_REVIEW", review[1].signature.service, 0, 40)>>)

Outcome(seen) ==
  CASE \E i \in 1..4 : ~UsableRawObservation(seen[i]) -> "TRANSPORT_FAILURE"
    [] (\A i \in 1..4 : UsableRawObservation(seen[i])) /\ (\E i \in 1..4 : seen[i].status = 400) -> "REJECTED"
    [] /\ MutationResponsesEquivalent(seen[1], seen[4]) /\ MutationResponsesEquivalent(seen[2], seen[3])
       /\ ~MutationResponsesEquivalent(seen[1], seen[2]) /\ \A i \in 1..4 : seen[i].status # 400 -> "DIFFERENTIAL"
    [] OTHER -> "NO_DIFFERENCE"

\* executeMutation: a host is a valid header value, so its requests are built.
ExperimentEvidence(probe, framing, candidates, baseline, seen) ==
  LET at(type, confidence) == Evidence(type, probe, 0, confidence)
      control == BodyMatchesCandidate(candidates, seen[1].body) \/ BodyMatchesCandidate(candidates, seen[4].body)
      before == BodyMatchesCandidate(candidates, baseline)
  IN CASE Outcome(seen) # "DIFFERENTIAL" -> <<>>
       [] Outcome(seen) = "DIFFERENTIAL" /\ framing -> <<at("FRAMING_DIFFERENTIAL", 70)>>
       [] OTHER -> If(control /\ ~before, <<at("HTTP_RAW_CONTROL_DIFFERENTIAL", 60)>>)
                     \o If(~control, <<at("HTTP_MUTATION_DIFFERENTIAL", 70)>>)
                     \o IF control \/ before THEN <<>> ELSE Revealed(candidates, seen)

-----------------------------------------------------------------------------
OpaqueProviderEdgeStatus(status) == status \in {404, 503}

Blocked(w, a, scheme, framing, candidates) ==
  LET o == a.http[scheme]
  IN Completed(a, scheme)
       /\ \/ DecideBlock(o, w.walls[scheme].challenge, w.walls[scheme].waf).blocked
          \/ ~framing /\ OpaqueProviderEdgeStatus(o.status) /\ ~BodyMatchesCandidate(candidates, o.body)

\* The probes of both schemes in turn, until one finds the budget exhausted.
Mutate(w, a, framing, probes, candidates) ==
  LET taken == SubSeq(probes, 1, AtMost(w.maxProbes, Len(probes)))
      runs(scheme) == If(Blocked(w, a, scheme, framing, candidates), [i \in DOMAIN taken |-> <<scheme, taken[i]>>])
      all == runs("https") \o runs("http")
      walk[i \in 0..Len(all)] ==
        IF i = 0 THEN [left |-> HostTimeouts, evidence |-> <<>>, results |-> <<>>]
        ELSE LET m == walk[i - 1]
                 run == Experiment(w.raw[all[i][1]][all[i][2]], m.left)
             IN IF Exhausted(m.left) THEN m
                ELSE [left |-> run.left,
                      evidence |-> m.evidence \o ExperimentEvidence(all[i][2], framing, candidates, a.http[all[i][1]].body, run.seen),
                      results |-> Append(m.results, Outcome(run.seen))]
  IN walk[Len(all)]

CollectMutator(w, a) ==
  LET candidates == MutationCandidates(w, a)
      done == Mutate(w, a, FALSE, HostProbes, candidates)
  IN IF candidates = <<>> THEN Tested(a, "HTTP_MUTATOR")
     ELSE [Collected(Tested(a, "HTTP_MUTATOR"), done.evidence) EXCEPT !.mutations = @ \o done.results]

\* The framing laboratory runs on the authorities an operator lists.
CollectFraming(w, a) ==
  LET done == Mutate(w, a, TRUE, FramingProbes, <<>>)
  IN IF w.host \notin w.framing THEN Tested(a, "HTTP_FRAMING_LAB")
     ELSE [Collected(Tested(a, "HTTP_FRAMING_LAB"), done.evidence) EXCEPT !.mutations = @ \o done.results]
==============================================================================
