--------------------------- MODULE Classification ----------------------------
(***************************************************************************)
(* From the collected evidence to the verdict: the inference rules          *)
(* (internal/inference), the scores and the semantic rules                  *)
(* (internal/classification), the confidence (internal/confidence) and the  *)
(* finding a report names (internal/finding).                               *)
(*                                                                         *)
(* An analysis is a record with the evidence in the order it was added, the *)
(* HTTP observation and the redirect chain of each scheme, the vectors that *)
(* ran, the scan profile and the result of the verifiers. Percentages are   *)
(* in tenths, rounded down.                                                 *)
(***************************************************************************)
EXTENDS Observations

Derived(type, weight, confidence) == Evidence(type, "INFERENCE", weight, confidence)

-----------------------------------------------------------------------------
(* internal/inference: each rule gives [evidence, inferences].              *)

Nothing == [evidence |-> <<>>, inferences |-> <<>>]
Both(left, right) ==
  [evidence |-> left.evidence \o right.evidence, inferences |-> left.inferences \o right.inferences]
When(holds, conclusion) == IF holds THEN conclusion ELSE Nothing
Conclude(evidence, inferences) == [evidence |-> evidence, inferences |-> inferences]

NoChain == [followed |-> FALSE, hops |-> 0, stopped |-> "", final |-> ""]

Https == {"https", "https:8443"}

\* httpsUpgrade: the location it ends at, or "" when there is no upgrade.
HttpsUpgrade(a) ==
  LET chain == a.chains["http"]
      o == a.http["http"]
  IN IF chain.followed
     THEN IF chain.stopped \in {"FINAL_RESPONSE", "DESTINATION_PROVIDER_ERROR"} /\ chain.final \in Https
          THEN chain.final ELSE ""
     ELSE IF RedirectStatus(o.status) /\ o.location \in Https THEN o.location ELSE ""

HttpsDowngrade(a) ==
  \/ a.chains["https"].followed /\ a.chains["https"].final = "http"
  \/ a.http["https"].location = "http"

PlaintextRules(a) ==
  LET o == a.http["http"]
  IN Conclude(
       If(o.html, <<Derived("PLAINTEXT_WEB_CONTENT", 20, 95)>>)
         \o If(o.password, <<Derived("PLAINTEXT_AUTH_INTERFACE", 60, 100)>>)
         \o If(o.cookie, <<Derived("HTTP_SENSITIVE_COOKIE_WITHOUT_SECURE", 60, 95)>>)
         \o <<Derived("TRANSPORT_PRIORITY_SCORE", 0, 100)>>,
       << CASE o.password -> Inference("PLAINTEXT_AUTH_INTERFACE", "CONFIRMED", 90)
            [] ~o.password /\ o.cookie -> Inference("SENSITIVE_COOKIE_OVER_HTTP", "CONFIRMED", 85)
            [] ~o.password /\ ~o.cookie /\ o.html -> Inference("PLAINTEXT_WEB_CONTENT", "CANDIDATE", 45)
            [] OTHER -> Inference("HTTP_NO_UPGRADE_OBSERVED", "OBSERVATION", 0) >>)

\* The switch over the status of an HTTP response that does not upgrade.
StatusRules(a) ==
  LET status == a.http["http"].status
      edge == "EDGE_RESPONSE" \in {a.http["http"].kind, a.http["https"].kind}
  IN CASE BlockedStatus(status) ->
            Conclude(<<Derived("HTTP_BLOCKED_WITHOUT_REDIRECT", 0, 100)>>
                       \o If(edge, <<Derived("HTTP_EDGE_BLOCK", 0, 95)>>),
                     <<Inference(IF edge THEN "EDGE_BLOCKED_NO_EXPOSURE" ELSE "HTTP_BLOCKED_NO_EXPOSURE",
                                 "SUPPRESSED", 0)>>)
       [] UnavailableStatus(status) ->
            Conclude(<<Derived("RESOURCE_NOT_AVAILABLE", 0, 100)>>,
                     <<Inference("HTTP_RESOURCE_NOT_AVAILABLE", "SUPPRESSED", 0)>>)
       [] status >= 500 ->
            Conclude(<<Derived("HTTP_ERROR_WITHOUT_REDIRECT", 0, 100)>>,
                     <<Inference("HTTP_ERROR_NO_EXPOSURE", "SUPPRESSED", 0)>>)
       [] status \in 200..299 -> PlaintextRules(a)
       [] OTHER -> Conclude(<<>>, <<Inference("HTTP_NO_UPGRADE_OBSERVED", "OBSERVATION", 0)>>)

HttpRules(a) ==
  LET http == a.http["http"]
      https == a.http["https"]
      upgrade == HttpsUpgrade(a)
      correlated ==
        When(http.seen /\ https.seen /\ http.complete /\ https.complete /\ SimilarBodies(http.body, https.body),
             Conclude(<<Derived("HTTP_HTTPS_CONTENT_CORRELATED", 0, 95)>>, <<>>))
      downgrade ==
        When(https.seen /\ https.complete /\ RedirectStatus(https.status) /\ HttpsDowngrade(a),
             Conclude(<<Derived("HTTPS_DOWNGRADE_REDIRECT", 15, 100)>>,
                      <<Inference("HTTPS_DOWNGRADE", "CANDIDATE", 70)>>))
      plain ==
        CASE ~(http.seen /\ http.complete) -> Nothing
          [] http.seen /\ http.complete /\ upgrade = "https:8443" ->
               Conclude(<<Derived("HTTP_HTTPS_UPGRADE_PRESENT", 0, 100),
                          Derived("HTTP_HTTPS_PORT_INCONSISTENT", 10, 100)>>,
                        <<Inference("HTTP_UPGRADE_NONSTANDARD_PORT", "CANDIDATE", 35)>>)
          [] http.seen /\ http.complete /\ upgrade = "https" ->
               Conclude(<<Derived("HTTP_HTTPS_UPGRADE_PRESENT", 0, 100)>>,
                        <<Inference("HTTP_HTTPS_UPGRADE", "HEALTHY", 0)>>)
          [] OTHER ->
               Both(Conclude(<<Derived("HTTP_NO_HTTPS_UPGRADE", 0, 100)>>
                               \o If(~(https.seen /\ https.complete), <<Derived("HTTPS_UNAVAILABLE", 0, 80)>>),
                             <<>>),
                    StatusRules(a))
  IN Both(Both(correlated, downgrade), plain)

RedirectRules(chain) ==
  CASE chain.hops = 0 -> Nothing
    [] chain.hops > 0 /\ chain.stopped \in {"DESTINATION_NXDOMAIN", "DESTINATION_NO_DATA"} ->
         Conclude(<<Derived("DANGLING_REDIRECT", 20, 95)>>,
                  <<Inference("REDIRECT_DESTINATION_DNS_MISSING", "CANDIDATE", 35)>>)
    [] chain.hops > 0 /\ chain.stopped \in {"DESTINATION_SERVFAIL", "DESTINATION_TIMEOUT", "DESTINATION_REFUSED",
                                            "DESTINATION_ERROR"} ->
         Conclude(<<>>, <<Inference("REDIRECT_DESTINATION_INCONCLUSIVE", "INCONCLUSIVE", 0)>>)
    [] chain.hops > 0 /\ chain.stopped = "DESTINATION_PROVIDER_ERROR" ->
         Conclude(<<Derived("DANGLING_REDIRECT", 20, 95)>>,
                  <<Inference("REDIRECT_DESTINATION_PROVIDER_ERROR", "CANDIDATE", 45)>>)
    [] chain.hops > 0 /\ chain.stopped = "UNSUPPORTED_PROTOCOL" ->
         Conclude(<<>>, <<Inference("UNSUPPORTED_PROTOCOL", "INCONCLUSIVE", 0)>>)
    [] OTHER -> Nothing

HeaderRules(a) ==
  LET o == a.http["https"]
      page == o.status \in 200..299 /\ o.html
  IN When("SEC_HEADERS" \in a.tested /\ o.seen /\ o.complete,
       Conclude(
         << IF o.hsts THEN Mitigation("HTTPS_HSTS_PRESENT", "INFERENCE", 0, 100)
                      ELSE Derived("HTTPS_HSTS_ABSENT", 0, 100) >>
           \o If(page, << IF o.csp THEN Mitigation("HTTPS_CSP_PRESENT", "INFERENCE", 0, 100)
                                   ELSE Derived("HTTPS_CSP_ABSENT", 0, 100) >>),
         If(~o.hsts, <<Inference("HSTS_POSTURE_ONLY", "OBSERVATION", 0)>>)
           \o If(page /\ ~o.csp, <<Inference("CSP_HARDENING_ONLY", "OBSERVATION", 0)>>)))

\* addEvidence adds one entry for a type and a source.
Once(evidence) ==
  FlattenSeq([i \in DOMAIN evidence |->
    If(\A j \in 1..(i - 1) : evidence[j].type # evidence[i].type \/ evidence[j].source # evidence[i].source,
       <<evidence[i]>>)])

\* inference.Analyze. The chains are walked in the order of a Go map.
Infer(a, order) ==
  LET collected == Those(a.evidence, LAMBDA e : e.source # "INFERENCE")
      drawn == Both(Both(HttpRules(a),
                         Both(RedirectRules(a.chains[order[1]]), RedirectRules(a.chains[order[2]]))),
                    HeaderRules(a))
  IN [a EXCEPT !.evidence = collected \o Once(drawn.evidence), !.inferences = drawn.inferences]

-----------------------------------------------------------------------------
(* internal/classification.                                                 *)

Weighted == [HTTP_BODY_MATCH |-> 50, NS_REFUSED |-> 40, NS_SERVFAIL |-> 30, NS_TIMEOUT |-> 10,
             CNAME_MATCH |-> 20, HTTP_STATUS_404 |-> 0, NXDOMAIN_EXPECTED |-> 10, LEGACY_MATCH |-> 20]

WeightOf(e) == IF e.type \in DOMAIN Weighted THEN Weighted[e.type] ELSE e.weight
SurenessOf(e) == IF e.confidence = 0 THEN 100 ELSE e.confidence
Points(e) == (WeightOf(e) * SurenessOf(e)) \div 100

\* The entries that count: of a type and a source the one added first.
Counted(evidence) ==
  {evidence[i] : i \in {n \in DOMAIN evidence :
     \A j \in 1..(n - 1) : evidence[j].type # evidence[n].type \/ evidence[j].source # evidence[n].source}}

Risk(entries) == AtMost(100, MapThenSumSet(Points, {e \in entries : ~e.negative}))
MitigationOf(entries) == AtMost(100, MapThenSumSet(Points, {e \in entries : e.negative}))
Confidence(entries) ==
  LET scored == {e \in entries : ~e.negative /\ WeightOf(e) > 0}
  IN IF scored = {} THEN 0 ELSE MapThenSumSet(SurenessOf, scored) \div Cardinality(scored)

CalculateScores(a) ==
  LET entries == Counted(a.evidence)
  IN [a EXCEPT !.risk = Risk(entries), !.mitigation = MitigationOf(entries), !.confidence = Confidence(entries)]

Exposures ==
  {"CLOUD_S3_LISTABLE", "CLOUD_S3_WRITABLE", "CLOUD_AZURE_BLOB_LISTABLE", "CLOUD_GCS_LISTABLE", "DNS_AXFR_ALLOWED",
   "ORIGIN_DIRECT_MATCH", "PLAINTEXT_AUTH_INTERFACE", "HTTP_SENSITIVE_COOKIE_WITHOUT_SECURE"}

Misconfigurations ==
  {"NS_REFUSED", "NS_SERVFAIL", "NS_ALL_DEAD", "NS_ORPHANED", "LAME_DELEGATION", "NS_SOA_MISMATCH", "MX_BROKEN",
   "MX_PRIMARY_BROKEN_WITH_FALLBACK", "MX_BACKUP_BROKEN", "SRV_BROKEN", "MX_DANGLING", "SRV_DANGLING",
   "DNSSEC_BOGUS", "SPF_BROKEN_INCLUDE", "SPF_DANGLING_TAKEOVER", "SPF_INCLUDE_WITHOUT_POLICY",
   "SPF_INCLUDE_CYCLE", "SPF_LOOKUP_LIMIT_EXCEEDED", "EMAIL_SPF_PERMISSIVE", "HTTP_OPEN_REDIRECT",
   "DANGLING_REDIRECT", "PLAINTEXT_WEB_CONTENT", "HTTP_HTTPS_PORT_INCONSISTENT", "HTTPS_DOWNGRADE_REDIRECT",
   "CSP_DANGLING_DEPENDENCY", "SUBRESOURCE_DANGLING", "DEAD_ASSET_REFERENCE", "DEAD_ASSET_HTTP"}

ContextTypes ==
  {"ASN_MATCH", "CAA_ISSUER_MISMATCH", "CAA_POLICY_INCONSISTENT", "CAA_RECORD_PRESENT", "CDN_DETECTED",
   "CLOUD_IP_CONTEXT", "CNAME_CHAIN_TRACE", "CNAME_PROVIDER_MATCH", "DNAME_ALIAS", "HTTPS_BINDING",
   "HTTPS_PROVIDER_MATCH", "SVCB_BINDING", "SVCB_PROVIDER_MATCH", "DNSSEC_ARTIFACTS_OBSERVED",
   "DNS_CONSENSUS_STATE", "DNSSEC_SERVFAIL_INCONCLUSIVE", "DNSSEC_VALIDATED", "EMAIL_DMARC_MISSING",
   "EMAIL_SPF_MISSING", "HTTP_OK_ACTIVE", "HTTP_RESPONSE", "HTTP_HSTS_MISSING", "HTTP_CSP_MISSING",
   "HTTPS_HSTS_ABSENT", "HTTPS_HSTS_PRESENT", "HTTPS_CSP_ABSENT", "HTTPS_CSP_PRESENT", "HTTP_NO_HTTPS_UPGRADE",
   "HTTP_HTTPS_UPGRADE_PRESENT", "HTTP_HTTPS_CONTENT_CORRELATED", "TRANSPORT_PRIORITY_SCORE",
   "HTTP_BLOCKED_WITHOUT_REDIRECT", "HTTP_EDGE_BLOCK", "HTTP_ERROR_WITHOUT_REDIRECT", "RESOURCE_NOT_AVAILABLE",
   "EDGE_RESPONSE", "APPLICATION_RESPONSE", "ACCESS_RESPONSE", "ERROR_RESPONSE", "REDIRECT_RESPONSE",
   "HTTP_REDIRECT_HOP", "REDIRECT_TARGET_OUT_OF_SCOPE", "RELATED_DOMAIN_COOKIE_SCOPE",
   "RELATED_DOMAIN_CORS_CREDENTIALS", "CORS_PUBLIC_WILDCARD_OBSERVED", "REDIRECT_DEPTH_LIMIT",
   "REDIRECT_UNSUPPORTED_PROTOCOL", "HTTPS_UNAVAILABLE", "VHOST_DIFFERENTIAL", "HTTP_WILDCARD_DETECTED",
   "MX_PROVIDER_MATCH", "MX_UNRESOLVABLE", "NULL_MX_PRESENT", "NS_PROVIDER_MATCH", "NXDOMAIN_EXPECTED",
   "ORIGIN_EXPOSURE_CANDIDATE", "ORIGIN_EXPOSURE_HINT", "PROVIDER_MIGRATION_DETECTED",
   "PROVIDER_MIGRATION_STALE_REFERENCE", "SNI_CERT_MISMATCH", "SRV_PROVIDER_MATCH", "SRV_UNRESOLVABLE",
   "SHADOW_IT_DETECTED", "TLS_CERTIFICATE_DRIFT", "TLS_CERTIFICATE_OBSERVED", "TLS_PROVIDER_MATCH",
   "TLS_SAN_CANDIDATE", "TLS_SAN_MATCH", "TXT_OWNERSHIP_TOKEN_RESIDUAL", "TXT_VERIFICATION_TOKEN"}

\* A fingerprint of the provider of a CNAME, on that CNAME, by a specific rule.
ProviderBound(evidence, type) ==
  \E alias \in OfType(evidence, "CNAME_PROVIDER_MATCH"), match \in OfType(evidence, type) :
    alias.source # "" /\ match.source = alias.source /\ match.about = alias.about /\ match.firm

HealthyResponse(evidence) == \E e \in OfType(evidence, "HTTP_RESPONSE") : e.status \in 200..399

\* The levels, the gravest first, each with the evidence it takes.
Rules(a) ==
  LET e == a.evidence
      v == a.verification
      some(types) == Types(e) \cap types # {}
  IN << <<"ZONE_CONTROL_CONFIRMED", Has(e, "ZONE_CONTROL_CONFIRMED")>>,
        <<"TAKEN_OVER", Has(e, "CLAIM_SUCCESS")>>,
        <<"CONFIRMED_TAKEOVERABLE", v.score = 100 /\ v.verified /\ v.proven /\ v.confidence = 100>>,
        <<"LIKELY_TAKEOVERABLE", \/ ProviderBound(e, "HTTP_MUTATION_REVEALED_PROVIDER_FINGERPRINT")
                                 \/ ProviderBound(e, "HTTP_BODY_MATCH")>>,
        <<"DELEGATION_CLAIMABILITY_VERIFIED", Has(e, "DELEGATION_CLAIMABILITY_VERIFIED")>>,
        <<"DELEGATION_BROKEN", Has(e, "DELEGATION_CLAIMABILITY_NOT_DEMONSTRATED")>>,
        <<"DELEGATION_TAKEOVER_CANDIDATE", Has(e, "DELEGATION_TAKEOVER_CANDIDATE")>>,
        <<"DELEGATION_BROKEN", Has(e, "DELEGATION_BROKEN")>>,
        <<"EXPOSED", some(Exposures)>>,
        <<"ORPHANED", Has(e, "CNAME_DANGLING")>>,
        <<"MISCONFIGURED", some(Misconfigurations)>>,
        <<"HEALTHY", /\ HealthyResponse(e) /\ some({"CDN_DETECTED", "TECHNOLOGY_DETECTED"})
                     /\ ~some({"HTTP_STATUS_404", "CNAME_DANGLING", "NXDOMAIN"})>>,
        <<"INSUFFICIENT_EVIDENCE", Types(e) \subseteq ContextTypes>>,
        <<"UNKNOWN", TRUE>> >>

\* Classify: the first rule that holds.
Classify(a) == LET rules == Rules(a) IN rules[Min({i \in DOMAIN rules : rules[i][2]})][1]

StateForLevel(level) ==
  CASE level \in {"TAKEN_OVER", "CONFIRMED_TAKEOVERABLE", "ZONE_CONTROL_CONFIRMED", "DELEGATION_CLAIMABILITY_VERIFIED",
                  "EXPOSED"} -> "CONFIRMED"
    [] level \in {"TAKEOVERABLE", "LIKELY_TAKEOVERABLE", "DELEGATION_TAKEOVER_CANDIDATE", "DELEGATION_BROKEN",
                  "ORPHANED", "MISCONFIGURED"} -> "CANDIDATE"
    [] level = "HEALTHY" -> "HEALTHY"
    [] OTHER -> "INCONCLUSIVE"

InferenceRank == [CONFIRMED |-> 6, CANDIDATE |-> 5, SUPPRESSED |-> 4, OBSERVATION |-> 3, INCONCLUSIVE |-> 2,
                  HEALTHY |-> 1]

\* inferenceForState: the first of the state, or the first of the highest rank.
InferenceForState(inferences, state) ==
  LET best(i) == \A j \in DOMAIN inferences : InferenceRank[inferences[j].state] <= InferenceRank[inferences[i].state]
      fit == {i \in DOMAIN inferences : IF state = "INCONCLUSIVE" THEN best(i) ELSE inferences[i].state = state}
  IN IF fit = {} THEN Inference("", "", 0) ELSE inferences[Min(fit)]

\* updateDecision, which Classify defers.
UpdateDecision(a) ==
  LET base == StateForLevel(a.level)
      selected == InferenceForState(a.inferences, base)
      state == CASE base = "INCONCLUSIVE" /\ selected.state = "HEALTHY" -> "OBSERVATION"
                 [] base = "INCONCLUSIVE" /\ selected.state \notin {"", "HEALTHY"} -> selected.state
                 [] OTHER -> base
  IN [a EXCEPT !.state = state, !.rule = selected.rule,
               !.impact = IF state = "CONFIRMED" /\ selected.impact = 0 THEN 100 ELSE selected.impact]

Reclassify(a) == UpdateDecision([a EXCEPT !.level = Classify(a)])

KnownProvider ==
  {"CNAME_PROVIDER_MATCH", "HTTPS_PROVIDER_MATCH", "SVCB_PROVIDER_MATCH", "MX_PROVIDER_MATCH", "NS_PROVIDER_MATCH",
   "SRV_PROVIDER_MATCH", "TLS_PROVIDER_MATCH"}
OrphanSignals == {"CNAME_DANGLING", "CNAME_UNRESOLVABLE", "MX_BROKEN", "SRV_BROKEN", "NS_ORPHANED", "CNAME_NXDOMAIN"}

\* a.target is the last CNAME, or the first name server, when another domain owns it.
DetectUnknownProvider(a) ==
  IF Types(a.evidence) \cap KnownProvider # {} \/ a.target = "" THEN a
  ELSE [a EXCEPT !.unknown = IF Types(a.evidence) \cap OrphanSignals # {} THEN "HIGH" ELSE "MEDIUM"]

(* A slip: the rules judge the evidence before the inferences are drawn.    *)
ProcessRulesFirst(a, order) ==
  LET judged == Reclassify(a)
      scored == CalculateScores(Infer(a, order))
  IN DetectUnknownProvider([scored EXCEPT !.level = judged.level, !.state = judged.state])

Process(a, order) == DetectUnknownProvider(Reclassify(CalculateScores(Infer(a, order))))

-----------------------------------------------------------------------------
(* internal/confidence.                                                     *)

VectorWeights ==
  [DNS |-> 20, HTTP |-> 20, TLS |-> 15, MX |-> 10, TXT |-> 10, SRV |-> 10, A_AAAA_ASN |-> 10, CAA |-> 5,
   NS_DELEGATION |-> 20, EMAIL |-> 10, SEC_HEADERS |-> 5, OPEN_REDIRECT |-> 5, AXFR |-> 10, DNSSEC |-> 5,
   SHADOW_IT |-> 5, CLOUD |-> 10, HTTP_MUTATOR |-> 10, HTTP_FRAMING_LAB |-> 10, HTTP_POSTURE |-> 5,
   REDIRECT_CHAIN |-> 5, VHOST |-> 5, WEB_DEPENDENCIES |-> 5, SNI |-> 5, TLS_SAN_DISCOVERY |-> 5,
   TLS_SAN_PIVOT |-> 5, ORIGIN_EXPOSURE |-> 5, PROVIDER_HISTORY |-> 5]

AlwaysExpected == {"DNS", "HTTP", "TLS", "MX", "TXT", "SRV", "A_AAAA_ASN", "CAA"}

\* profile is the set of vectors the options of the scan select.
CalculateCoverage(tested, profile) ==
  LET expected == AlwaysExpected \cup profile
      named == {CASE v = "NS" -> "NS_DELEGATION" [] v = "ASN" -> "A_AAAA_ASN" [] OTHER -> v : v \in tested}
      worth(vectors) == MapThenSumSet(LAMBDA v : VectorWeights[v], vectors)
  IN (worth(expected \cap named) * 1000) \div worth(expected)

CalculateKnowledge(evidence) ==
  LET direct == {"CNAME_PROVIDER_MATCH", "NS_PROVIDER_MATCH", "MX_PROVIDER_MATCH"}
      context == {"CLOUD_PROVIDER_MATCH", "ASN_PROVIDER_MATCH", "CLOUD_IP_CONTEXT"}
      points(types, each) == each * Cardinality(Types(evidence) \cap types)
  IN AtMost(1000, points(direct, 400) + points({"HTTP_BODY_MATCH"}, 150) + points({"VERIFIER_CONFIRMED"}, 100)
                    + points({"TLS_PROVIDER_MATCH"}, 100) + (points(context, 375) \div 10))

\* The last of the two reinforcing entries counts.
Multiplier(evidence) ==
  LET at == {i \in DOMAIN evidence : evidence[i].type \in {"LONG_LIVED_ORPHAN", "CORRELATED_PROVIDER_CONFIRMATION"}}
  IN CASE at = {} -> 100
       [] at # {} /\ evidence[Max(at)].type = "LONG_LIVED_ORPHAN" -> 115
       [] OTHER -> 120

(* A slip: what was not covered does not bound the percentage.              *)
CalculateUncapped(a) == IF a.level = "INSUFFICIENT_EVIDENCE" THEN 0 ELSE AtMost(999, (a.confidence * Multiplier(a.evidence)) \div 10)

\* confidence.Calculate: the percentage of the verdict.
Calculate(a) ==
  LET coverage == CalculateCoverage(a.tested, a.profile)
      knowledge == CalculateKnowledge(a.evidence)
      healthy == AtMost(coverage, AtMost(999, 800 + a.mitigation * 2))
      unknown == coverage >= 800 /\ knowledge <= 300 /\ a.unknown # ""
  IN CASE a.level \in {"TAKEN_OVER", "ZONE_CONTROL_CONFIRMED"} -> 1000
       [] a.level = "INSUFFICIENT_EVIDENCE" -> 0
       [] a.level = "HEALTHY" -> IF unknown THEN AtMost(450, healthy) ELSE healthy
       [] OTHER -> AtMost(coverage, AtMost(999, (a.confidence * Multiplier(a.evidence)) \div 10))
==============================================================================
