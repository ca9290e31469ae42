---------------------------- MODULE DnsEvidence ------------------------------
(***************************************************************************)
(* The collectors that read the DNS (internal/evidence). Each is a function *)
(* of what the host's world answers, w, and of the analysis so far, a, and  *)
(* gives the analysis with its evidence and its candidates.                 *)
(*                                                                         *)
(* Of the world: w.aliases is the CNAME chain with the signature each node  *)
(* matches, w.terminal the address status of its end; w.a and w.aaaa are    *)
(* the addresses of the host; w.cut is its zone cut, with the views of the  *)
(* parent, and w.servers what is known of each name server; w.mx, w.srv and *)
(* w.bindings are records with the status of their target; w.spf gives the  *)
(* policy of each domain; w.txt, w.caa, w.dnssec, w.transfer the rest.      *)
(* A signature is [service, confidence, nx], with service "" for none.      *)
(***************************************************************************)
EXTENDS DnsAnswers

Absent == Negative

Collected(a, entries) == [a EXCEPT !.evidence = @ \o entries]
Tested(a, vector) == [a EXCEPT !.tested = @ \cup {vector}]
Linked(a, links) == [a EXCEPT !.candidates = @ \cup ToSet(links)]
Link(provider, vector, resource) == [provider |-> provider, vector |-> vector, resource |-> resource]

Sure(confidence) == IF confidence = 0 THEN 80 ELSE confidence
Known(signature) == signature.service # ""

-----------------------------------------------------------------------------
(* cname.go                                                                 *)

CNAMEResolutionEvidence(status, matched) ==
  IF status \in Absent
  THEN Evidence(IF matched THEN "CNAME_DANGLING" ELSE IF status = "NXDOMAIN" THEN "CNAME_NXDOMAIN" ELSE "CNAME_UNRESOLVABLE",
                "DNS", 30, 90)
  ELSE Evidence("CNAME_RESOLUTION_INCONCLUSIVE", "DNS", 0, 30)

CollectCNAME(w, a) ==
  LET known == Those(w.aliases, LAMBDA n : Known(n.signature))
      match(n) == <<About(Evidence("CNAME_PROVIDER_MATCH", n.signature.service, 20, Sure(n.signature.confidence)), n.name)>>
                    \o If(n.signature.nx, <<Evidence("NXDOMAIN_EXPECTED", n.signature.service, 0, 100)>>)
      missing == w.a = <<>> /\ w.aaaa = <<>>
      end == <<Evidence("CNAME_CHAIN_TRACE", "DNS", 0, 100)>>
               \o If(missing, <<CNAMEResolutionEvidence(w.terminal.status, known # <<>>)>>)
               \o If(missing /\ w.terminal.state # "DISABLED", <<Evidence("DNS_CONSENSUS_STATE", "DNS", 0, 100)>>)
  IN IF w.aliases = <<>> THEN Tested(a, "DNS")
     ELSE Linked(Collected(Tested(a, "DNS"), EachOf(known, match) \o end),
                 [i \in DOMAIN known |-> Link(known[i].signature.service, "CNAME", known[i].name)])

-----------------------------------------------------------------------------
(* ns.go: the delegation of the zone of the host.                           *)

NoDelegation == [zone |-> "", ns |-> {}, failed |-> {}, lame |-> {}, unresolvable |-> {}, provider |-> ""]

ZoneOf(w) == ZoneDetails(w.cut.zone, w.cut.listed, w.cut.views, w.cut.complete, w.cut.ds)

AddressMissing(server) == server.address \in Absent
Lame(server) == server.health \in {"REFUSED", "NXDOMAIN", "LAME"}

\* A server without an address counts unless it is reached and answers.
FailedServers(w) ==
  {s \in ZoneOf(w).ns : LET n == w.servers[s] IN Lame(n) \/ (AddressMissing(n) /\ n.health # "HEALTHY")}

NSEvidence(name, server) ==
  CASE Lame(server) ->
         <<Evidence(IF server.health = "NXDOMAIN" THEN "NS_NXDOMAIN" ELSE "LAME_DELEGATION", name, 20, 90)>>
    [] server.health = "SERVFAIL" -> <<Evidence("NS_SERVFAIL", name, 10, 70)>>
    [] server.health = "TIMEOUT" -> <<Evidence("NS_TIMEOUT", name, 1, 30)>>
    [] OTHER -> <<>>

\* uniformDelegationProvider: one provider for all of them, or none.
UniformProvider(w, names) ==
  LET services == {w.servers[s].provider : s \in names}
  IN IF Cardinality(services) = 1 THEN CHOOSE service \in services : TRUE ELSE ""

NSConclusions(zone, provider, concern, dead) ==
  If(concern /\ provider # "", <<Evidence("NS_PROVIDER_MATCH", provider, 1, 90)>>)
    \o If(dead, <<Evidence("NS_ALL_DEAD", "DNS", 30, 95), Evidence("DELEGATION_BROKEN", "DNS", 40, 95)>>)
    \o If(dead /\ zone.verified /\ provider # "" /\ zone.dsChecked /\ ~zone.hasDS,
          <<Evidence("DELEGATION_TAKEOVER_CANDIDATE", provider, 50, 80)>>)

CollectNS(w, a) ==
  LET zone == ZoneOf(w)
      names == SetToSeq(zone.ns)
      failed == FailedServers(w)
      lame == {s \in zone.ns : Lame(w.servers[s]) \/ w.servers[s].health = "SERVFAIL"}
      unresolvable == {s \in zone.ns : AddressMissing(w.servers[s]) /\ w.servers[s].health # "HEALTHY"}
      provider == UniformProvider(w, zone.ns)
      seen == EachOf(names, LAMBDA s : NSEvidence(s, w.servers[s])
                                         \o If(s \in unresolvable, <<Evidence("NS_ORPHANED", s, 20, 90)>>))
      drawn == NSConclusions(zone, provider, lame \cup unresolvable # {}, failed = zone.ns)
      noted == Collected(Tested(a, "NS_DELEGATION"), seen \o drawn)
      links == If(Has(drawn, "DELEGATION_TAKEOVER_CANDIDATE"), <<Link(provider, "NS", zone.zone)>>)
  IN IF zone.zone = "" \/ zone.ns = {} THEN Tested(a, "NS_DELEGATION")
     ELSE Linked([noted EXCEPT !.delegation = [zone |-> zone.zone, ns |-> zone.ns, failed |-> failed, lame |-> lame,
                                               unresolvable |-> unresolvable, provider |-> provider]],
                 links)

-----------------------------------------------------------------------------
(* mx.go and srv.go: the targets of mail and of services.                   *)

Matched(type, targets) ==
  EachOf(targets, LAMBDA t : If(Known(t.signature), <<Evidence(type, t.signature.service, 1, Sure(t.signature.confidence))>>))
TargetLinks(vector, targets) ==
  EachOf(targets, LAMBDA t : If(Known(t.signature), <<Link(t.signature.service, vector, t.target)>>))

\* addStatusEvidence: the weight of a broken target depends on the others.
MXStatusEvidence(targets) ==
  LET first == Min({targets[i].preference : i \in DOMAIN targets})
      healthy == \E i \in DOMAIN targets : targets[i].status = "RESOLVED"
      broken(t) ==
        CASE ~healthy -> <<Evidence("MX_BROKEN", "DNS", 20, 90)>>
          [] healthy /\ t.preference = first -> <<Evidence("MX_PRIMARY_BROKEN_WITH_FALLBACK", "DNS", 10, 90)>>
          [] OTHER -> <<Evidence("MX_BACKUP_BROKEN", "DNS", 5, 90)>>
  IN EachOf(targets, LAMBDA t : CASE t.status \in Absent -> broken(t)
                                  [] t.status \in Transient -> <<Evidence("MX_UNRESOLVABLE", "DNS", 1, 40)>>
                                  [] OTHER -> <<>>)

CollectMX(w, a) ==
  LET targets == Those(w.mx, LAMBDA t : t.target # ".")
      null == EachOf(w.mx, LAMBDA t : If(t.target = ".", <<Mitigation("NULL_MX_PRESENT", "DNS", 0, 100)>>))
  IN Linked(Collected(Tested(a, "MX"), null \o Matched("MX_PROVIDER_MATCH", targets)
                                         \o IF targets = <<>> THEN <<>> ELSE MXStatusEvidence(targets)),
            TargetLinks("MX", targets))

CollectSRV(w, a) ==
  LET targets == Those(w.srv, LAMBDA t : t.target # ".")
      status(t) == CASE t.status \in Absent -> <<Evidence("SRV_BROKEN", "DNS", 20, 90)>>
                     [] t.status \in Transient -> <<Evidence("SRV_UNRESOLVABLE", "DNS", 1, 40)>>
                     [] OTHER -> <<>>
  IN Linked(Collected(Tested(a, "SRV"), EachOf(targets, LAMBDA t : Matched("SRV_PROVIDER_MATCH", <<t>>) \o status(t))),
            TargetLinks("SRV", targets))

-----------------------------------------------------------------------------
(* ip.go: the network an address belongs to. asn is "" when it is not told. *)

CollectIP(w, a) ==
  LET told == Those(w.a \o w.aaaa, LAMBDA ip : ip.public /\ ip.asn # "")
      context(ip) == IF Known(ip.signature) THEN <<Evidence("CLOUD_IP_CONTEXT", ip.signature.service, 1, 90)>>
                     ELSE <<Evidence("ASN_MATCH", "Team Cymru", 1, 60)>>
  IN Linked(Collected(Tested(a, "A_AAAA_ASN"), EachOf(told, context)),
            EachOf(told, LAMBDA ip : If(Known(ip.signature), <<Link(ip.signature.service, "A", ip.address)>>)))

-----------------------------------------------------------------------------
(* email_security.go: the policy of the root of the host. w.spf[d] is       *)
(* [status, terms], the terms of the policy of d in order, each a mechanism *)
(* that asks the DNS and its target; <<>> and policy FALSE for none.        *)

MaxSPFLookups == 10

\* One step of the walk: m is [stack, lookups, reported, evidence], a frame
\* of the stack a domain and the terms that are left to read.
SPFStep(w, m) ==
  LET top == m.stack[Len(m.stack)]
      below == SubSeq(m.stack, 1, Len(m.stack) - 1)
      term == Head(top.terms)
      next == [m EXCEPT !.lookups = @ + 1, !.stack = Append(below, [top EXCEPT !.terms = Tail(@)])]
      say(type, weight, confidence) == [next EXCEPT !.evidence = Append(@, Evidence(type, "EmailSecurity", weight, confidence))]
      target == w.spf[term.target]
  IN IF top.terms = <<>> THEN [m EXCEPT !.stack = below]
     ELSE IF m.lookups >= MaxSPFLookups
     THEN [m EXCEPT !.stack = below, !.reported = TRUE, !.lookups = @ + 1,
                    !.evidence = @ \o If(~m.reported, <<Evidence("SPF_LOOKUP_LIMIT_EXCEEDED", "EmailSecurity", 20, 100)>>)]
     ELSE IF term.mechanism \notin {"include", "redirect"} \/ term.target = "" THEN next
     ELSE IF target.status = "NXDOMAIN" THEN say("SPF_BROKEN_INCLUDE", 20, 95)
     ELSE IF target.status = "NO_DATA" \/ (target.status = "RESOLVED" /\ ~target.policy) THEN say("SPF_INCLUDE_WITHOUT_POLICY", 10, 95)
     ELSE IF ~target.policy \/ target.status # "RESOLVED" THEN next
     ELSE IF \E i \in DOMAIN m.stack : m.stack[i].domain = term.target THEN say("SPF_INCLUDE_CYCLE", 10, 100)
     ELSE [next EXCEPT !.stack = Append(@, [domain |-> term.target, terms |-> target.terms])]

\* The walk ends: ten lookups open ten frames, each with the terms it has.
SPFWalk(w, root, fuel) ==
  LET walk[n \in 0..fuel] ==
        IF n = 0 THEN [stack |-> <<[domain |-> root, terms |-> w.spf[root].terms]>>, lookups |-> 0, reported |-> FALSE,
                       evidence |-> <<>>]
        ELSE LET m == walk[n - 1] IN IF m.stack = <<>> THEN m ELSE SPFStep(w, m)
  IN walk[fuel].evidence

ValidateSPF(w, relevant) ==
  LET policy == w.spf[w.root]
  IN IF ~(policy.status = "RESOLVED" /\ policy.policy)
     THEN If(relevant, <<Evidence("EMAIL_SPF_MISSING", "EmailSecurity", 0, 100)>>)
     ELSE If(policy.permissive, <<Evidence("EMAIL_SPF_PERMISSIVE", "EmailSecurity", 10, 90)>>) \o SPFWalk(w, w.root, 40)

CollectEmailSecurity(w, a) ==
  LET relevant == w.rootMX
  IN Collected(Tested(a, "EMAIL"),
       ValidateSPF(w, relevant)
         \o If(relevant /\ w.dmarc # "RESOLVED", <<Evidence("EMAIL_DMARC_MISSING", "EmailSecurity", 0, 95)>>))

-----------------------------------------------------------------------------
(* txt.go and txt_residual.go: tokens of ownership.                         *)

Tokens(w) == Those(w.txt, Known)

CollectTXT(w, a) ==
  LET tokens == Tokens(w)
  IN Linked(Collected(Tested(a, "TXT"),
                      EachOf(tokens, LAMBDA t : <<Evidence("TXT_VERIFICATION_TOKEN", t.service, 1, Sure(t.confidence))>>)),
            [i \in DOMAIN tokens |-> Link(tokens[i].service, "TXT", w.host)])

CollectTXTResidual(w, a) ==
  LET active == {c.provider : c \in {d \in a.candidates : d.vector # "TXT"}}
  IN Collected(a, EachOf(Tokens(w), LAMBDA t :
                    If(t.service \notin active, <<Evidence("TXT_OWNERSHIP_TOKEN_RESIDUAL", t.service, 0, 70)>>)))

-----------------------------------------------------------------------------
(* caa.go: the policies of the host and of the closest ancestor that has    *)
(* one, against the issuer of the certificate. A query that failed ends the *)
(* walk over the ancestors.                                                 *)

ParentCAA(w) ==
  LET stop == {i \in DOMAIN w.parentCAA : w.parentCAA[i].failed \/ w.parentCAA[i].issuers # {}}
  IN IF stop = {} \/ w.parentCAA[Min(stop)].failed THEN {} ELSE w.parentCAA[Min(stop)].issuers

\* issuer is the authority of the certificate the TLS collector saw.
CollectCAA(w, a) ==
  LET parent == ParentCAA(w)
      effective == IF w.caa # {} THEN w.caa ELSE parent
      issuers == {e.about : e \in OfType(a.evidence, "TLS_CERTIFICATE_OBSERVED")} \ {""}
  IN Collected(Tested(a, "CAA"),
       If(effective # {}, <<Mitigation("CAA_RECORD_PRESENT", "DNS", 10, 100)>>)
         \o If(w.caa # {} /\ parent # {} /\ w.caa # parent, <<Evidence("CAA_POLICY_INCONSISTENT", "DNS", 0, 100)>>)
         \o If(effective # {} /\ issuers # {} /\ issuers \cap effective = {}, <<Evidence("CAA_ISSUER_MISMATCH", "DNS/TLS", 0, 90)>>))

-----------------------------------------------------------------------------
(* service_binding.go, dnssec.go, zone_transfer.go, shadow_it.go.           *)

CollectBindings(w, a) ==
  LET said(vector, binding, match) ==
        EachOf(w.bindings, LAMBDA b : If(b.vector = vector,
          <<Evidence(binding, "DNS", 0, 100)>> \o If(Known(b.signature), <<Evidence(match, b.signature.service, 0, 80)>>)))
      vectors == {w.bindings[i].vector : i \in DOMAIN w.bindings}
      alias == EachOf(w.dnames, LAMBDA d : <<Evidence("DNAME_ALIAS", "DNS", 0, 100)>>)
      all == [a EXCEPT !.tested = @ \cup vectors \cup IF w.dnames = <<>> THEN {} ELSE {"DNAME"}]
  IN Linked(Collected(all, alias \o said("HTTPS", "HTTPS_BINDING", "HTTPS_PROVIDER_MATCH")
                                 \o said("SVCB", "SVCB_BINDING", "SVCB_PROVIDER_MATCH")),
            EachOf(w.bindings, LAMBDA b : If(Known(b.signature), <<Link(b.signature.service, b.vector, b.target)>>)))

DelegatedZone(w, a) == IF a.delegation.zone # "" THEN a.delegation.zone ELSE w.cut.zone

CollectDNSSEC(w, a) ==
  LET state == DNSSECState(w.dnssec.normal, w.dnssec.authenticated, w.dnssec.disabled)
  IN IF DelegatedZone(w, a) = "" THEN Tested(a, "DNSSEC")
     ELSE Collected(Tested(a, "DNSSEC"),
            If(DNSSECArtifacts(w.dnssec.artifacts) # {}, <<Evidence("DNSSEC_ARTIFACTS_OBSERVED", "DNSSEC", 0, 100)>>)
              \o CASE state = "BOGUS" -> <<Evidence("DNSSEC_BOGUS", "DNSSEC", 20, 95)>>
                   [] state = "SERVFAIL" -> <<Evidence("DNSSEC_SERVFAIL_INCONCLUSIVE", "DNSSEC", 0, 80)>>
                   [] state = "VALIDATED" -> <<Mitigation("DNSSEC_VALIDATED", "DNSSEC", 0, 90)>>
                   [] OTHER -> <<>>)

CollectZoneTransfer(w, a) ==
  LET names == IF a.delegation.ns # {} THEN a.delegation.ns ELSE ZoneOf(w).ns
      allowed == \E s \in names : LET t == w.servers[s].transfer IN TransferSucceeds(t.records, t.overLimit, t.cut)
  IN Collected(Tested(a, "AXFR"),
               If(DelegatedZone(w, a) # "" /\ allowed, <<Evidence("DNS_AXFR_ALLOWED", "ZoneTransfer", 40, 100)>>))

CollectShadowIT(w, a) ==
  Collected(Tested(a, "SHADOW_IT"), EachOf(w.aliases, LAMBDA n : If(n.tracker, <<Evidence("SHADOW_IT_DETECTED", "ShadowIT", 0, 90)>>)))

-----------------------------------------------------------------------------
(* impact_scope.go: what lets the collectors of impact probe other hosts.   *)

HasRelatedDomainImpactCandidate(a) ==
  \/ a.verification.verified /\ a.verification.proven
  \/ Types(a.evidence) \cap {"CNAME_DANGLING", "HTTP_BODY_MATCH", "HTTP_MUTATION_REVEALED_PROVIDER_FINGERPRINT",
                             "DELEGATION_BROKEN", "DELEGATION_TAKEOVER_CANDIDATE", "DELEGATION_CLAIMABILITY_VERIFIED",
                             "ZONE_CONTROL_CONFIRMED", "STALE_CLOUD_IP_CANDIDATE", "CLAIM_SUCCESS"} # {}
==============================================================================
