---------------------------- MODULE WebEvidence ------------------------------
(***************************************************************************)
(* The collectors that speak HTTP and TLS, and those that relate what the   *)
(* others found (internal/evidence).                                        *)
(*                                                                         *)
(* Of the world: w.web[scheme] is how the host answers, w.tls its           *)
(* certificate, w.sites what a redirect meets at each URL, w.vhosts the     *)
(* answers to invented names, w.direct how often a possible origin repeats  *)
(* the answer of the host, w.hosts the hosts its pages refer to, w.parent   *)
(* the registrable domain above it, w.previous the evidence of the last     *)
(* scan. The URLs of the host itself are "http", "https" and "https:8443".  *)
(***************************************************************************)
EXTENDS DnsEvidence

Schemes == {"http", "https"}

-----------------------------------------------------------------------------
(* http_observation.go                                                      *)

ResponseKind(status, edge) ==
  CASE edge # "" -> "EDGE_RESPONSE"
    [] edge = "" /\ UnavailableStatus(status) -> "RESOURCE_NOT_AVAILABLE"
    [] edge = "" /\ status \in 200..299 -> "APPLICATION_RESPONSE"
    [] edge = "" /\ status \in 300..399 -> "REDIRECT_RESPONSE"
    [] edge = "" /\ status \in {401, 403, 429} -> "ACCESS_RESPONSE"
    [] edge = "" /\ status >= 500 -> "ERROR_RESPONSE"
    [] OTHER -> "OTHER_RESPONSE"

\* A body counts as HTML by its type and its markup, a cookie as sensitive by
\* its name: both are fields of the reply.
NewHTTPObservation(reply) ==
  IF reply.transport # ""
  THEN [Unobserved EXCEPT !.seen = TRUE, !.transport = reply.transport, !.kind = "OTHER_RESPONSE"]
  ELSE [Unobserved EXCEPT !.seen = TRUE, !.complete = reply.complete, !.status = reply.status,
          !.location = reply.location, !.kind = ResponseKind(reply.status, reply.edge), !.edge = reply.edge,
          !.html = reply.html, !.password = reply.html /\ reply.password, !.cookie = reply.cookie,
          !.hsts = reply.hsts, !.csp = reply.csp, !.body = reply.body, !.server = reply.server]

\* decideBlock: challenge says that the body asks for proof of a human, waf
\* that the server or the body names a firewall.
DecideBlock(o, challenge, waf) ==
  IF ~o.complete \/ o.transport # "" THEN [blocked |-> FALSE, confidence |-> 0]
  ELSE IF BlockedStatus(o.status) THEN [blocked |-> TRUE, confidence |-> IF challenge \/ waf THEN 85 ELSE 60]
  ELSE [blocked |-> challenge, confidence |-> IF challenge THEN 70 ELSE 0]

-----------------------------------------------------------------------------
(* http.go and http_fingerprint_rules.go: signatures are tried on complete  *)
(* replies only, for the providers the aliases point at.                    *)

Completed(a, scheme) == a.http[scheme].seen /\ a.http[scheme].complete

(* A slip: the status the signature asks for is not compared.               *)
EligibleByText(signature, status) == signature.vulnerable /\ signature.specific

\* eligibleTakeoverFingerprint: the text of the signature is specific, its
\* service may be claimed, and the reply has the status it asks for.
EligibleTakeoverFingerprint(signature, status) ==
  /\ signature.vulnerable
  /\ signature.specific
  /\ signature.status \in {0, status}

BodyMatch(signature, alias, status) ==
  LET e == IF EligibleTakeoverFingerprint(signature, status)
           THEN Evidence("HTTP_BODY_MATCH", signature.service, 50, 80)
           ELSE Evidence("HTTP_FINGERPRINT_REVIEW", signature.service, 0, 40)
  IN [About(e, alias) EXCEPT !.firm = signature.specific]

\* The signatures whose text is in the body, each with the first alias it fits.
MatchedSignatures(w, body) ==
  LET fits(n) == Known(n.signature) /\ n.signature.body # "" /\ n.signature.body = body
      first(i) == \A j \in 1..(i - 1) : w.aliases[j].signature # w.aliases[i].signature
  IN FlattenSeq([i \in DOMAIN w.aliases |-> If(fits(w.aliases[i]) /\ first(i), <<w.aliases[i]>>)])

HTTPEvidence(w, scheme, reply) ==
  LET o == NewHTTPObservation(reply)
      at(type, weight, confidence) == Evidence(type, scheme, weight, confidence)
      matches == IF o.complete THEN MatchedSignatures(w, o.body) ELSE <<>>
  IN IF o.transport # "" THEN <<>>
     ELSE If(reply.cdn # "", <<Mitigation("CDN_DETECTED", scheme, 50, 0)>>)
            \o <<[at("HTTP_RESPONSE", 0, 0) EXCEPT !.status = o.status], at(o.kind, 0, 95)>>
            \o If(o.status = 404, <<at("HTTP_STATUS_404", 0, 100)>>)
            \o If(o.status \in {401, 403}, <<Mitigation("HTTP_AUTH_REQUIRED", scheme, 30, 0)>>)
            \o EachOf(matches, LAMBDA m : <<BodyMatch(m.signature, m.name, o.status)>>)
            \o If(o.complete /\ o.status = 200 /\ matches = <<>>, <<at("HTTP_OK_ACTIVE", 0, 0)>>)

ShouldProbeHTTP(w) == w.a # <<>> \/ w.aaaa # <<>> \/ w.aliases # <<>>

CollectHTTP(w, a) ==
  LET order == <<"http", "https">>
      cdn == Those([i \in 1..2 |-> w.web[order[i]].cdn], LAMBDA name : name # "")
  IN IF ~ShouldProbeHTTP(w) THEN Tested(a, "HTTP")
     ELSE [Collected(Tested(a, "HTTP"), EachOf(order, LAMBDA s : HTTPEvidence(w, s, w.web[s])))
             EXCEPT !.http = [s \in Schemes |-> NewHTTPObservation(w.web[s])],
                    !.cdn = IF cdn = <<>> THEN "" ELSE cdn[Len(cdn)]]

\* http_posture.go
CollectHTTPPosture(w, a) == Tested(a, "HTTP_POSTURE")

\* http_security.go: w.openRedirects are the answers to the two probes.
CollectHTTPSecurity(w, a) ==
  LET headers == IF Completed(a, "https") THEN Tested(a, "SEC_HEADERS") ELSE a
  IN IF ~\E s \in Schemes : Completed(a, s) THEN headers
     ELSE Collected(Tested(headers, "OPEN_REDIRECT"),
                    If(\E i \in DOMAIN w.openRedirects : w.openRedirects[i], <<Evidence("HTTP_OPEN_REDIRECT", "HttpSecurity", 80, 100)>>))

-----------------------------------------------------------------------------
(* tls.go                                                                   *)

MaxSANCandidates == 64

\* The certificate is told from another by its issuer.
TLSState(t) ==
  If(t.expired, <<Evidence("TLS_EXPIRED", "TLS", 0, 100)>>)
    \o If(t.selfSigned, <<Evidence("TLS_SELF_SIGNED", "TLS", 0, 80)>>)
    \o If(~t.covers, <<Evidence("TLS_MISMATCH", "TLS", 0, 100)>>)
    \o If(t.covers /\ ~Known(t.signature), <<Mitigation("TLS_SAN_MATCH", "TLS", 0, 100)>>)

TLSDrift(w) ==
  LET before == Those(w.previous, LAMBDA e : e.type = "TLS_CERTIFICATE_OBSERVED")
  IN If(before # <<>> /\ before[1].about \notin {"", w.tls.issuer}, <<Evidence("TLS_CERTIFICATE_DRIFT", "HISTORY", 0, 100)>>)

SANCandidates(w) ==
  LET fit == Those(w.tls.sans, LAMBDA n : n.related /\ ~n.wildcard /\ n.name # w.host)
  IN SubSeq(fit, 1, AtMost(MaxSANCandidates, Len(fit)))

\* observe fails when nothing answers the handshake.
CollectTLS(w, a) ==
  LET t == w.tls
      confidence(c) == IF c <= 0 THEN 50 ELSE AtMost(70, c)
      provider == If(Known(t.signature), <<Evidence("TLS_PROVIDER_MATCH", t.signature.service, 0, confidence(t.signature.confidence))>>)
      variants == Those(t.variants, LAMBDA v : v.answered /\ v.issuer # t.issuer)
      sans == SANCandidates(w)
      vectors == {"TLS"} \cup IF t.seen THEN {"TLS_SAN_DISCOVERY", "SNI"} ELSE {}
  IN IF w.a = <<>> /\ w.aaaa = <<>> THEN a
     ELSE Collected([a EXCEPT !.tested = @ \cup vectors],
            If(t.seen,
               <<About(Evidence("TLS_CERTIFICATE_OBSERVED", "TLS", 0, 100), t.issuer)>> \o provider \o TLSState(t) \o TLSDrift(w)
                 \o EachOf(sans, LAMBDA n : <<Evidence("TLS_SAN_CANDIDATE", "TLS", 0, 100)>>)
                 \o EachOf(variants, LAMBDA v : <<Evidence("SNI_CERT_MISMATCH", v.mode, 0, 100)>>)))

-----------------------------------------------------------------------------
(* redirect_chain.go: w.sites[url] is [own, dns, failed, status, location,  *)
(* match], where location is a URL, "" or one of the two a client refuses.  *)

RedirectDepth == 10

\* The reason and the evidence of a destination the DNS does not resolve.
Destination(dns) ==
  LET of(stopped, type) == [stopped |-> stopped, type |-> type]
  IN CASE dns = "NXDOMAIN" -> of("DESTINATION_NXDOMAIN", "REDIRECT_DESTINATION_NXDOMAIN")
       [] dns = "NO_DATA" -> of("DESTINATION_NO_DATA", "REDIRECT_DESTINATION_NO_DATA")
       [] dns = "TIMEOUT" -> of("DESTINATION_TIMEOUT", "REDIRECT_DESTINATION_TIMEOUT")
       [] dns = "SERVFAIL" -> of("DESTINATION_SERVFAIL", "REDIRECT_DESTINATION_SERVFAIL")
       [] dns = "REFUSED" -> of("DESTINATION_REFUSED", "REDIRECT_DESTINATION_REFUSED")
       [] OTHER -> of("DESTINATION_ERROR", "REDIRECT_DESTINATION_ERROR")

RedirectStep(w, scheme, index, c) ==
  LET site == w.sites[c.at]
      stop(reason) == [c EXCEPT !.stopped = reason, !.hops = @ + 1, !.final = c.at]
      say(chain, type, confidence) == [chain EXCEPT !.evidence = Append(@, Evidence(type, scheme, 0, confidence))]
      next == w.sites[site.location]
      dns == IF next.own THEN "RESOLVED" ELSE next.dns
      gone == [stop(Destination(dns).stopped) EXCEPT !.hops = @ + 1, !.final = site.location]
      on == [c EXCEPT !.hops = @ + 1, !.final = c.at, !.at = site.location, !.seen = @ \cup {c.at}]
      limit == [on EXCEPT !.stopped = "MAX_DEPTH", !.final = site.location]
  IN IF c.stopped # "" THEN c
     ELSE IF c.at \in c.seen THEN [c EXCEPT !.stopped = "REDIRECT_LOOP"]
     ELSE IF site.failed THEN say([stop("TRANSPORT_ERROR") EXCEPT !.final = c.final], "REDIRECT_DESTINATION_TRANSPORT_ERROR", 100)
     ELSE IF ~RedirectStatus(site.status) \/ site.location = ""
     THEN IF site.match THEN say(stop("DESTINATION_PROVIDER_ERROR"), "REDIRECT_DESTINATION_PROVIDER_ERROR", 95)
          ELSE stop("FINAL_RESPONSE")
     ELSE IF site.location = "invalid" THEN stop("INVALID_LOCATION")
     ELSE IF site.location = "mailto"
     THEN say([stop("UNSUPPORTED_PROTOCOL") EXCEPT !.final = "mailto"], "REDIRECT_UNSUPPORTED_PROTOCOL", 100)
     ELSE IF dns # "RESOLVED" THEN say(gone, Destination(dns).type, 100)
     ELSE IF index = RedirectDepth THEN say(limit, "REDIRECT_DEPTH_LIMIT", 100)
     ELSE on

RedirectChain(w, scheme) ==
  LET walk[i \in 0..RedirectDepth] ==
        IF i = 0 THEN [at |-> scheme, seen |-> {}, hops |-> 0, stopped |-> "", final |-> scheme, evidence |-> <<>>]
        ELSE LET c == walk[i - 1] IN RedirectStep(w, scheme, i, c)
  IN walk[RedirectDepth]

CollectRedirects(w, a) ==
  LET follows(s) == Completed(a, s) /\ RedirectStatus(a.http[s].status)
      chain(s) == RedirectChain(w, s)
      said(s) == chain(s).evidence \o [i \in 1..chain(s).hops |-> Evidence("HTTP_REDIRECT_HOP", s, 0, 100)]
  IN [Collected(Tested(a, "REDIRECT_CHAIN"), EachOf(<<"http", "https">>, LAMBDA s : If(follows(s), said(s))))
        EXCEPT !.chains = [s \in Schemes |->
                 IF ~follows(s) THEN a.chains[s]
                 ELSE [followed |-> TRUE, hops |-> chain(s).hops, stopped |-> chain(s).stopped, final |-> chain(s).final]]]

-----------------------------------------------------------------------------
(* vhost.go: w.vhosts[scheme] are the replies to two invented names.        *)

SameHTTPResponse(left, right) == left.status = right.status /\ SimilarBodies(left.body, right.body)

CollectVHost(w, a) ==
  LET said(s) ==
        LET first == w.vhosts[s].first
            second == w.vhosts[s].second
        IN IF ~(Completed(a, s) /\ first.complete /\ second.complete /\ SameHTTPResponse(first, second)) THEN <<>>
           ELSE IF SameHTTPResponse(a.http[s], first) THEN <<Evidence("HTTP_WILDCARD_DETECTED", s, 0, 95)>>
           ELSE <<Evidence("VHOST_DIFFERENTIAL", s, 0, 95)>>
  IN Collected(Tested(a, "VHOST"), EachOf(<<"https", "http">>, said))

-----------------------------------------------------------------------------
(* origin.go: where a header, the network or the certificate says the       *)
(* origin is, and whether it gives the host's answer twice when asked.      *)

MaxOriginCandidates == 8

BehindCDN(a) == a.cdn # "" \/ Has(a.evidence, "CDN_DETECTED")

OriginCandidates(w, a) ==
  LET candidate(target, kind) == [target |-> target, kind |-> kind]
      headers == EachOf(<<"https", "http">>, LAMBDA s :
                   If(Completed(a, s) /\ w.web[s].origin # "", <<candidate(w.web[s].origin, "header")>>))
      dns == EachOf(w.a \o w.aaaa, LAMBDA ip :
                   If(ip.public /\ ip.asn # "" /\ Known(ip.signature) /\ ip.signature.service # a.cdn, <<candidate(ip.address, "dns")>>))
      tls == IF Has(a.evidence, "TLS_CERTIFICATE_OBSERVED")
             THEN EachOf(w.tls.sans, LAMBDA n : If(n.origin, <<candidate(n.name, "tls")>>)) ELSE <<>>
      all == headers \o dns \o tls
      distinct == Those([i \in DOMAIN all |-> [c |-> all[i], first |-> \A j \in 1..(i - 1) : all[j] # all[i]]],
                            LAMBDA x : x.first /\ x.c.target # w.host)
  IN [i \in 1..AtMost(MaxOriginCandidates, Len(distinct)) |-> distinct[i].c]

\* confirm: w.direct[target][scheme] replies in a row repeat the baseline.
DirectMatch(w, a, target) ==
  target \in w.allowed /\ \E s \in Schemes : Completed(a, s) /\ w.direct[target][s] >= 2

CollectOrigin(w, a) ==
  LET said(c) ==
        << IF c.kind = "header" THEN Evidence("ORIGIN_EXPOSURE_CANDIDATE", c.kind, 0, 85)
                                ELSE Evidence("ORIGIN_EXPOSURE_HINT", c.kind, 0, 60) >>
          \o If(DirectMatch(w, a, c.target), <<Evidence("ORIGIN_DIRECT_MATCH", c.kind, 20, 95)>>)
  IN IF ~BehindCDN(a) THEN a
     ELSE Collected(Tested(a, "ORIGIN_EXPOSURE"), EachOf(OriginCandidates(w, a), said))

-----------------------------------------------------------------------------
(* web_dependency.go: the references of the pages. A reference is [host,    *)
(* kind, source]; w.hosts[host] is [status, service, asset].                *)

MaxWebDependencies == 32
AssetKinds == {"script", "stylesheet", "image", "media"}

References(w, a) ==
  LET all == EachOf(<<"https", "http">>, LAMBDA s : If(Completed(a, s), w.web[s].refs))
      foreign == Those([i \in DOMAIN all |-> [ref |-> all[i], first |-> \A j \in 1..(i - 1) : all[j] # all[i]]],
                           LAMBDA x : x.first /\ x.ref.host # w.host)
  IN [i \in 1..AtMost(MaxWebDependencies, Len(foreign)) |-> foreign[i].ref]

InspectDependency(w, ref) ==
  LET host == w.hosts[ref.host]
      asset == ref.source = "HTML" /\ ref.kind \in AssetKinds
  IN IF host.service # "" /\ host.status \in Absent
     THEN <<Evidence(IF ref.source = "CSP" THEN "CSP_DANGLING_DEPENDENCY" ELSE "SUBRESOURCE_DANGLING", ref.source, 20, 90)>>
            \o If(asset, <<Evidence("DEAD_ASSET_REFERENCE", ref.kind, 20, 90)>>)
     ELSE If(ref.host \in w.allowed /\ host.status = "RESOLVED" /\ asset /\ UnavailableStatus(host.asset),
             <<Evidence("DEAD_ASSET_HTTP", ref.kind, 0, 90)>>)

CollectWebDependencies(w, a) ==
  Collected(Tested(a, "WEB_DEPENDENCIES"), EachOf(References(w, a), LAMBDA ref : InspectDependency(w, ref)))

-----------------------------------------------------------------------------
(* cookie_scope.go and cors_scope.go: the registrable domain is asked only  *)
(* when a takeover of the host would matter to it.                          *)

CollectCookieScope(w, a) ==
  IF HasRelatedDomainImpactCandidate(a) /\ w.parent.allowed /\ w.parent.cookie
  THEN Collected(a, <<Evidence("RELATED_DOMAIN_COOKIE_SCOPE", "root", 0, 100)>>) ELSE a

CollectCORSScope(w, a) ==
  LET asked == HasRelatedDomainImpactCandidate(a) /\ w.parent.allowed /\ w.host # w.root
  IN Collected(a, If(asked /\ w.parent.cors = "credentials", <<Evidence("RELATED_DOMAIN_CORS_CREDENTIALS", "root", 0, 90)>>)
                    \o If(asked /\ w.parent.cors = "*", <<Evidence("CORS_PUBLIC_WILDCARD_OBSERVED", "root", 0, 100)>>))

-----------------------------------------------------------------------------
(* provider_history.go and correlator.go                                    *)

HistoryVectors == {"CNAME_PROVIDER_MATCH", "MX_PROVIDER_MATCH", "SRV_PROVIDER_MATCH", "TLS_PROVIDER_MATCH", "CLOUD_IP_CONTEXT"}
ProviderHistory(evidence) == [vector \in HistoryVectors |-> {e.source : e \in OfType(evidence, vector)}]

CollectProviderHistory(w, a) ==
  LET old == ProviderHistory(w.previous)
      new == ProviderHistory(a.evidence)
      moved == {v \in HistoryVectors : {} \notin {old[v], new[v]} /\ old[v] # new[v]}
      said(v) == <<Evidence(IF old[v] \cap new[v] # {} THEN "PROVIDER_MIGRATION_STALE_REFERENCE" ELSE "PROVIDER_MIGRATION_DETECTED",
                            "HISTORY", 0, 90)>>
  IN Collected(Tested(a, "PROVIDER_HISTORY"), EachOf(SetToSeq(moved), said))

\* correlateCloudIP: every HTTP observation failed in its transport.
StaleCloudIP(w, a) ==
  LET told == Those(w.a \o w.aaaa, LAMBDA ip : ip.public /\ ip.asn # "" /\ Known(ip.signature))
      unreachable == /\ \E s \in Schemes : a.http[s].seen
                     /\ \A s \in Schemes : a.http[s].seen => ~a.http[s].complete /\ a.http[s].transport # ""
  IN If((Has(a.evidence, "TLS_MISMATCH") \/ Has(a.evidence, "TLS_EXPIRED")) /\ unreachable,
        EachOf(told, LAMBDA ip : <<Evidence("STALE_CLOUD_IP_CANDIDATE", ip.signature.service, 20, 60)>>))

Correlate(w, a) ==
  LET bound == {e \in OfType(a.evidence, "CNAME_PROVIDER_MATCH") :
                  \E match \in OfType(a.evidence, "HTTP_BODY_MATCH") :
                    match.source = e.source /\ match.about = e.about
                      /\ \E t \in OfType(a.evidence, "TLS_PROVIDER_MATCH") : t.source = e.source}
  IN Collected(a, StaleCloudIP(w, a)
                    \o If(bound # {}, <<Evidence("CORRELATED_PROVIDER_CONFIRMATION", (CHOOSE e \in bound : TRUE).source, 100, 95)>>))
==============================================================================
