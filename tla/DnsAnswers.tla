----------------------------- MODULE DnsAnswers ------------------------------
(***************************************************************************)
(* What internal/dns concludes from the replies it gets: the status of a    *)
(* name, the consensus of several resolvers, the views of a parent zone,    *)
(* the zone cut of a host, wildcards, DNSSEC and the health of a server.    *)
(* Every operator is a function of the replies; the queries themselves are  *)
(* the steps of DnsResolver and HostAnalysis.                               *)
(***************************************************************************)
EXTENDS Observations

-----------------------------------------------------------------------------
(* The status of a name.                                                    *)

(* A slip: every code stands for itself.                                   *)
ResponseStatusByCode(rcode, answered) == IF rcode = "NOERROR" /\ answered THEN "RESOLVED" ELSE rcode

\* A response: its code, and whether a record of the type asked for is there.
ResponseStatus(rcode, answered) ==
  CASE rcode \in {"NXDOMAIN", "SERVFAIL", "REFUSED"} -> rcode
    [] rcode = "NOERROR" -> IF answered THEN "RESOLVED" ELSE "NO_DATA"
    [] OTHER -> "ERROR"

\* The statuses of both families, in the order in which they prevail.
Prevailing == <<"RESOLVED", "TIMEOUT", "SERVFAIL", "REFUSED", "ERROR">>

AddressStatus(a, aaaa) ==
  LET found == {i \in DOMAIN Prevailing : Prevailing[i] = a \/ Prevailing[i] = aaaa}
  IN IF found # {} THEN Prevailing[Min(found)]
     ELSE IF a = aaaa THEN a
     ELSE "ERROR"

-----------------------------------------------------------------------------
(* Consensus: a view is what one resolver answered, [status, answers].      *)

Quorum(views) == Cardinality(DOMAIN views) \div 2 + 1
Valid(view) == view.status \notin Transient
Backers(views, view) == {s \in DOMAIN views : views[s] = view}
StatusBackers(views, status) == {s \in DOMAIN views : views[s].status = status}

\* consensusState. Some valid view is shared by a quorum, or why none is.
ConsensusState(views) ==
  LET valid == {s \in DOMAIN views : Valid(views[s])}
      statuses == {views[s].status : s \in valid}
  IN IF \E s \in valid : Cardinality(Backers(views, views[s])) >= Quorum(views) THEN "CONSENSUS"
     ELSE IF Cardinality(valid) < Quorum(views) THEN "INCONCLUSIVE"
     ELSE IF "RESOLVED" \in statuses /\ statuses \cap Negative # {} THEN "PROPAGATING"
     ELSE "SPLIT_HORIZON"

\* consensusStatus walks a map and returns the first status with a quorum.
ConsensusStatus(views) ==
  LET settled == {status \in Statuses : Cardinality(StatusBackers(views, status)) >= Quorum(views)}
  IN IF settled = {} THEN "ERROR" ELSE CHOOSE status \in settled : TRUE

AddressConsensus(a, aaaa) ==
  LET states == {ConsensusState(a), ConsensusState(aaaa)}
      both == {ConsensusStatus(a), ConsensusStatus(aaaa)}
  IN IF states = {"CONSENSUS"}
     THEN IF "RESOLVED" \in both THEN [status |-> "RESOLVED", state |-> "CONSENSUS"]
          ELSE IF both \in {{"NXDOMAIN"}, {"NO_DATA"}}
               THEN [status |-> CHOOSE status \in both : TRUE, state |-> "CONSENSUS"]
          ELSE [status |-> "ERROR", state |-> "INCONCLUSIVE"]
     ELSE [status |-> "ERROR",
           state |-> IF "PROPAGATING" \in states THEN "PROPAGATING"
                     ELSE IF "SPLIT_HORIZON" \in states THEN "SPLIT_HORIZON" ELSE "INCONCLUSIVE"]

-----------------------------------------------------------------------------
(* The parent zone: a view is the reply of one of its servers, with the     *)
(* name servers and the DS records it lists for the zone.                   *)

ValidDelegation(view) == view.rcode \in {"NOERROR", "NXDOMAIN"}

\* summarizeParentDelegationResponses, and the pass that was cut short.
DelegationAtParent(views, complete) ==
  LET valid == {s \in DOMAIN views : ValidDelegation(views[s])}
      sets == {views[s].ns : s \in valid}
  IN [ns |-> UNION sets, verified |-> complete /\ sets # {} /\ Cardinality(sets) = 1 /\ {} \notin sets]

\* summarizeParentDSResponses: one DS decides, absence takes a complete pass.
DSAtParent(views, complete) ==
  LET valid == {s \in DOMAIN views : views[s].rcode = "NOERROR"}
      has == \E s \in valid : views[s].ds
  IN [has |-> has, checked |-> has \/ (complete /\ valid # {})]

\* buildAuthoritativeZoneDetails: listed are the name servers the zone itself
\* gives, ds the status of the recursive query that is asked when the parent
\* does not tell.
ZoneDetails(zone, listed, views, complete, ds) ==
  LET delegation == DelegationAtParent(views, complete)
      parent == DSAtParent(views, complete)
      asked == ~parent.checked /\ ds \in {"RESOLVED", "NO_DATA"}
  IN [zone |-> zone,
      ns |-> IF delegation.ns # {} THEN delegation.ns ELSE listed,
      verified |-> delegation.verified,
      hasDS |-> parent.has \/ (asked /\ ds = "RESOLVED"),
      dsChecked |-> parent.checked \/ asked]

\* FindAuthoritativeZone: the owner of the SOA when it is the host or above
\* it, else the closest cut a parent confirms or that lists name servers.
\* cuts are the candidates from the host upwards.
AuthoritativeZone(soa, cuts) ==
  LET found == {i \in DOMAIN cuts : cuts[i].verified \/ cuts[i].listed # {}}
  IN IF soa \in {cuts[i].zone : i \in DOMAIN cuts} THEN soa
     ELSE IF found = {} THEN ""
     ELSE cuts[Min(found)].zone

-----------------------------------------------------------------------------
(* Aliases, wildcards and the profile of a host.                            *)

MaxChainDepth == 10

\* ResolveCNAMEChain: next[name] is the alias a reply gives, "" for none and
\* "ERROR" for a query that failed; viaA are the aliases in a reply to A, which
\* is asked for when the host itself has none.
CNAMEChain(next, viaA, host) ==
  LET walk[n \in 0..MaxChainDepth] ==
        IF n = 0 THEN [chain |-> <<>>, at |-> host, seen |-> {}, open |-> TRUE]
        ELSE LET w == walk[n - 1]
             IN IF ~w.open \/ w.at \in w.seen \/ next[w.at] \in {"", "ERROR"} THEN [w EXCEPT !.open = FALSE]
                ELSE [w EXCEPT !.chain = Append(@, next[w.at]), !.at = next[w.at], !.seen = @ \cup {w.at}]
  IN IF next[host] = "" THEN viaA ELSE walk[MaxChainDepth].chain

NoRecords == [a |-> {}, aaaa |-> {}, cname |-> {}]

\* checkSingleWildcard: two random names with the same records, or none.
SingleWildcard(first, second) == IF first # NoRecords /\ first = second THEN first ELSE NoRecords

\* IsWildcard: probes[i] are those of the i-th parent, [failed, first, second].
Wildcard(probes) ==
  LET decided == {i \in DOMAIN probes :
                    probes[i].failed \/ SingleWildcard(probes[i].first, probes[i].second) # NoRecords}
  IN IF decided = {} THEN NoRecords
     ELSE LET p == probes[Min(decided)] IN IF p.failed THEN NoRecords ELSE SingleWildcard(p.first, p.second)

\* The end of DiscoverProfile: what its concurrent queries amount to.
DiscoverProfile(failed, queries, filter, profile, probes) ==
  CASE failed = queries -> "FAILED"
    [] failed # queries /\ filter /\ Wildcard(probes) # NoRecords /\ Wildcard(probes) = profile -> "WILDCARD"
    [] OTHER -> "FOUND"

-----------------------------------------------------------------------------
(* The health of a name server, a zone transfer and DNSSEC.                 *)

\* checkNSHealthUncached: the reply to an SOA query, "UNREACHABLE" for a
\* server without an address.
NSHealth(reply) ==
  CASE reply.rcode \in {"REFUSED", "SERVFAIL", "NXDOMAIN", "TIMEOUT"} -> reply.rcode
    [] reply.rcode = "NOERROR" -> IF reply.authoritative /\ reply.soa THEN "HEALTHY" ELSE "LAME"
    [] OTHER -> "ERROR"

\* attemptAXFRUncached: records came, and an error after them does not undo it.
TransferSucceeds(records, overLimit, cut) == records > 0 /\ ~overLimit /\ ~cut

\* checkDNSSECUncached: a query that failed counts as a record not found.
DNSSECArtifacts(replies) == {type \in {"DNSKEY", "DS", "RRSIG"} : replies[type] = "RESOLVED"}

\* DiagnoseDNSSEC: the validating query, and the one that asks not to.
DNSSECState(normal, authenticated, checkingDisabled) ==
  CASE normal \in {"RESOLVED", "NO_DATA"} -> IF authenticated THEN "VALIDATED" ELSE "INSECURE"
    [] normal = "NXDOMAIN" -> "NXDOMAIN"
    [] normal = "SERVFAIL" ->
         IF checkingDisabled \in {"RESOLVED", "NO_DATA", "NXDOMAIN"} THEN "BOGUS" ELSE "SERVFAIL"
    [] OTHER -> "ERROR"
==============================================================================
