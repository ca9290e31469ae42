---------------------------- MODULE HostAnalysis -----------------------------
(***************************************************************************)
(* One host, from the queries of its DNS profile to the stored verdict      *)
(* (cmd/scan.go, processDomain, with internal/evidence/registry.go), in a   *)
(* scan that claims nothing: ClaimEngine and ScanRun have the claims.       *)
(*                                                                         *)
(* The world, what the DNS and the hosts would answer, is one of Worlds     *)
(* and stays as it is. What a step sees of it may be disturbed by a lookup  *)
(* that fails, MaxFaults times in all, and once the context has ended every *)
(* lookup fails. The independent collectors run at the same time; none      *)
(* reads what another of them writes, so a run of them is told by the order *)
(* in which they add their evidence, one of Orders.                         *)
(***************************************************************************)
EXTENDS Verifiers

CONSTANTS Worlds,      \* the worlds: a function from names to records
          Orders,      \* the orders of the independent collectors
          MaxFaults,   \* lookups that fail in a world that would answer
          CheckCloud,  \* whether the cloud verifiers are selected
          None

VARIABLES world,       \* the name of the world
          order,       \* the order of the independent collectors
          first,       \* whether this host is the first of its base to be asked for common services
          lost,        \* the queries of the profile that failed
          pc,          \* the part of processDomain the host is in
          step,        \* the collector that is next
          analysis,    \* the analysis so far
          saved,       \* the analysis in the table of hosts
          observed,    \* the observation of this run
          announced,   \* whether the dispatcher was given it
          interrupted, \* whether the context has ended
          faults,      \* lookups that failed so far
          outcome      \* what processDomain returned

vars == <<world, order, first, lost, pc, step, analysis, saved, observed, announced, interrupted, faults, outcome>>

Independent == {"mx", "txt", "srv", "tls", "ip", "email", "http_security", "shadow_it", "zone_transfer", "dnssec"}

IsList(s) == s \in Seq(ToSet(s))

\* An order has each of them once.
ASSUME HostAssumption ==
  /\ MaxFaults \in Nat /\ CheckCloud \in BOOLEAN
  /\ \A o \in Orders : IsList(o) /\ ToSet(o) = Independent /\ Len(o) = Cardinality(Independent)

\* A world has the records of the profile in lists, a reply for every scheme
\* and every probe, and something to say of every name server a parent or the
\* zone names. A parent that denies the name of a zone lists no server for it. A
\* signature has a confidence in percent (validateFingerprintSchema of
\* pkg/signatures refuses any other).
ProfileLists == {"a", "aaaa", "aliases", "mx", "txt", "srv", "bindings"}
WorldFields ==
  ProfileLists \cup {"caa", "common", "dnames", "terminal", "cut", "servers", "web", "tls", "spf", "dnssec", "raw",
                     "maxProbes", "sites", "hosts", "direct", "target"}
IsWorld(w) ==
  /\ WorldFields \subseteq DOMAIN w
  /\ \A field \in ProfileLists \cup {"common", "dnames"} : IsList(w[field])
  /\ IsList(w.tls.sans) /\ IsList(w.tls.variants)
  /\ {"status", "state"} \subseteq DOMAIN w.terminal
  /\ {"seen", "sans", "variants", "signature"} \subseteq DOMAIN w.tls
  /\ \A field \in {"aliases", "mx", "srv", "common"} :
       \A i \in DOMAIN w[field] : "signature" \in DOMAIN w[field][i] /\ w[field][i].signature.confidence \in 0..100
  /\ \A i \in DOMAIN w.txt : w.txt[i].confidence \in 0..100
  /\ w.tls.signature.confidence \in 0..100
  /\ {"zone", "listed", "views", "complete", "ds"} \subseteq DOMAIN w.cut
  /\ IsFiniteSet(w.cut.listed) /\ w.cut.listed \subseteq DOMAIN w.servers
  /\ IsFiniteSet(DOMAIN w.cut.views)
  /\ \A p \in DOMAIN w.cut.views :
       LET view == w.cut.views[p]
       IN /\ {"rcode", "ns", "ds"} \subseteq DOMAIN view
          /\ IsFiniteSet(view.ns) /\ view.ns \subseteq DOMAIN w.servers
          /\ view.rcode = "NXDOMAIN" => view.ns = {}
  /\ \A s \in DOMAIN w.servers : {"health", "address", "provider", "transfer"} \subseteq DOMAIN w.servers[s]
  /\ \A s \in Schemes :
       /\ s \in DOMAIN w.web /\ {"transport", "complete", "status", "body", "refs"} \subseteq DOMAIN w.web[s]
       /\ IsList(w.web[s].refs)
       /\ s \in DOMAIN w.raw
       /\ \A p \in ToSet(HostProbes \o FramingProbes) : p \in DOMAIN w.raw[s] /\ 1..4 \subseteq DOMAIN w.raw[s][p]
  /\ w.maxProbes \in Nat

ASSUME WorldAssumption == \A name \in DOMAIN Worlds : IsWorld(Worlds[name])

-----------------------------------------------------------------------------
(* The pipeline of Registry.Run, with every option of the scan selected.    *)

Discovery == <<"cname", "service_binding", "ns">>
Impact == <<"caa", "cookie_scope", "cors_scope", "txt_residual", "provider_history", "redirect_chain", "http_posture",
            "vhost", "web_dependency", "origin">>

Pipeline(independent) ==
  Discovery \o <<"http">> \o independent \o <<"http_mutator", "http_framing", "correlator">> \o Impact

Collector(name, w, a) ==
  CASE name = "cname" -> CollectCNAME(w, a)
    [] name = "service_binding" -> CollectBindings(w, a)
    [] name = "ns" -> CollectNS(w, a)
    [] name = "http" -> CollectHTTP(w, a)
    [] name = "mx" -> CollectMX(w, a)
    [] name = "txt" -> CollectTXT(w, a)
    [] name = "srv" -> CollectSRV(w, a)
    [] name = "tls" -> CollectTLS(w, a)
    [] name = "ip" -> CollectIP(w, a)
    [] name = "email" -> CollectEmailSecurity(w, a)
    [] name = "http_security" -> CollectHTTPSecurity(w, a)
    [] name = "shadow_it" -> CollectShadowIT(w, a)
    [] name = "zone_transfer" -> CollectZoneTransfer(w, a)
    [] name = "dnssec" -> CollectDNSSEC(w, a)
    [] name = "http_mutator" -> CollectMutator(w, a)
    [] name = "http_framing" -> CollectFraming(w, a)
    [] name = "correlator" -> Correlate(w, a)
    [] name = "caa" -> CollectCAA(w, a)
    [] name = "cookie_scope" -> CollectCookieScope(w, a)
    [] name = "cors_scope" -> CollectCORSScope(w, a)
    [] name = "txt_residual" -> CollectTXTResidual(w, a)
    [] name = "provider_history" -> CollectProviderHistory(w, a)
    [] name = "redirect_chain" -> CollectRedirects(w, a)
    [] name = "http_posture" -> CollectHTTPPosture(w, a)
    [] name = "vhost" -> CollectVHost(w, a)
    [] name = "web_dependency" -> CollectWebDependencies(w, a)
    [] name = "origin" -> CollectOrigin(w, a)

-----------------------------------------------------------------------------
(* What a collector sees of the world when one of its lookups fails.        *)

ProfileQueries == {"a", "aaaa", "aliases", "mx", "txt", "srv", "caa", "bindings"}

\* The profile without the records whose query failed.
Profiled(w, failed) ==
  [field \in DOMAIN w |-> IF field \notin failed THEN w[field] ELSE IF field = "caa" THEN {} ELSE <<>>]

\* What a wildcard is compared with.
Records(w) ==
  [a |-> {w.a[i].address : i \in DOMAIN w.a}, aaaa |-> {w.aaaa[i].address : i \in DOMAIN w.aaaa},
   cname |-> {w.aliases[i].name : i \in DOMAIN w.aliases}]

OneOf(list, change(_)) == {[list EXCEPT ![i] = change(list[i])] : i \in DOMAIN list}
Failing(entry) == [entry EXCEPT !.status = "TIMEOUT"]
Silent == [part |-> "connection", ends |-> "timeout", framing |-> "", status |-> 0, body |-> ""]

SilentAt(w, s, i) == [w EXCEPT !.raw[s][HostProbes[1]][i] = Silent]
Unreached(w, u) == [w EXCEPT !.sites[u].dns = "TIMEOUT", !.sites[u].failed = TRUE]

\* The collectors with a lookup that fails, and what they see then.
Fallible == {"cname", "ns", "http", "mx", "srv", "tls", "email", "dnssec", "http_mutator", "redirect_chain",
             "web_dependency", "origin"}
Trouble(name, w) ==
  CASE name = "cname" -> {[w EXCEPT !.terminal = [status |-> t, state |-> "INCONCLUSIVE"]] : t \in Transient}
    [] name = "ns" -> {[w EXCEPT !.servers[s].health = t] : s \in DOMAIN w.servers, t \in {"TIMEOUT", "SERVFAIL"}}
                        \cup {[w EXCEPT !.servers[s].address = "TIMEOUT"] : s \in DOMAIN w.servers}
                        \cup {[w EXCEPT !.cut.views[p].rcode = "SERVFAIL"] : p \in DOMAIN w.cut.views}
    [] name = "http" -> {[w EXCEPT !.web[s].transport = "timeout"] : s \in Schemes}
    [] name = "mx" -> {[w EXCEPT !.mx = m] : m \in OneOf(w.mx, Failing)}
    [] name = "srv" -> {[w EXCEPT !.srv = m] : m \in OneOf(w.srv, Failing)}
    [] name = "tls" -> {[w EXCEPT !.tls.seen = FALSE]}
    [] name = "email" -> {[w EXCEPT !.spf[d] = [@ EXCEPT !.status = "TIMEOUT"]] : d \in DOMAIN w.spf}
    [] name = "dnssec" -> {[w EXCEPT !.dnssec.normal = "SERVFAIL"]}
    [] name = "http_mutator" -> {SilentAt(w, s, i) : s \in Schemes, i \in 1..4}
    [] name = "redirect_chain" -> {Unreached(w, u) : u \in DOMAIN w.sites}
    [] name = "web_dependency" -> {[w EXCEPT !.hosts[h].status = "SERVFAIL"] : h \in DOMAIN w.hosts}
    [] name = "origin" -> {[w EXCEPT !.direct[t][s] = 1] : t \in DOMAIN w.direct, s \in Schemes}

\* The world once the context has ended.
Blackout(w) ==
  [w EXCEPT !.terminal = [status |-> "ERROR", state |-> "INCONCLUSIVE"],
            !.cut = [@ EXCEPT !.complete = FALSE, !.views = [p \in {} |-> 0], !.ds = "ERROR"],
            !.servers = [s \in DOMAIN @ |-> [@[s] EXCEPT !.health = "ERROR", !.address = "ERROR",
                                                         !.transfer = [records |-> 0, overLimit |-> FALSE, cut |-> TRUE]]],
            !.web = [s \in Schemes |-> [@[s] EXCEPT !.transport = "canceled"]],
            !.mx = [i \in DOMAIN @ |-> [@[i] EXCEPT !.status = "ERROR"]],
            !.srv = [i \in DOMAIN @ |-> [@[i] EXCEPT !.status = "ERROR"]],
            !.spf = [d \in DOMAIN @ |-> [@[d] EXCEPT !.status = "ERROR", !.policy = FALSE]],
            !.rootMX = FALSE,
            !.dnssec = [@ EXCEPT !.normal = "ERROR", !.artifacts = [r \in DOMAIN @ |-> "ERROR"]],
            !.parentCAA = <<>>,
            !.openRedirects = <<>>,
            !.raw = [s \in Schemes |-> [p \in DOMAIN @[s] |-> [i \in 1..4 |-> [Silent EXCEPT !.ends = "refused"]]]],
            !.sites = [u \in DOMAIN @ |-> [@[u] EXCEPT !.failed = TRUE, !.dns = "ERROR"]],
            !.vhosts = [s \in Schemes |-> [@[s] EXCEPT !.first = [@ EXCEPT !.complete = FALSE]]],
            !.direct = [t \in DOMAIN @ |-> [s \in Schemes |-> 0]],
            !.hosts = [h \in DOMAIN @ |-> [@[h] EXCEPT !.status = "ERROR"]],
            !.parent = [@ EXCEPT !.allowed = FALSE]]

-----------------------------------------------------------------------------
\* Every option of the scan selects its vectors, but for the SAN pivot, which
\* takes the place of the SAN discovery.
NewAnalysis(w) ==
  [evidence |-> <<>>, candidates |-> {}, delegation |-> NoDelegation, http |-> [s \in Schemes |-> Unobserved],
   chains |-> [s \in Schemes |-> NoChain], cdn |-> "", tested |-> {}, profile |-> DOMAIN VectorWeights \ {"TLS_SAN_PIVOT"},
   mutations |-> <<>>, verification |-> NotVerified, inferences |-> <<>>, risk |-> 0, mitigation |-> 0,
   confidence |-> 0, level |-> "UNKNOWN", state |-> "", rule |-> "", impact |-> 0, unknown |-> "", target |-> w.target,
   percent |-> 0]

\* The world with the profile the host was given. The common services of the
\* base domain go to the first of its hosts in the batch.
Discovered == [Profiled(Worlds[world], lost) EXCEPT !.srv = @ \o If(first, Worlds[world].common)]

\* The analysis after the first n of the collectors, nobody disturbing them.
Examine(w, a, names, n) ==
  LET after[i \in 0..n] == IF i = 0 THEN a ELSE Collector(names[i], w, after[i - 1]) IN after[n]

AfterVerifiers(w, a, cut) ==
  LET cloud(so) == IF ~CheckCloud THEN so ELSE IF cut THEN Tested(so, "CLOUD") ELSE RunCloud(w, so)
  IN IF ~cut /\ Winners(w, a) # {} THEN Reclassify(cloud(WithVerification(a))) ELSE cloud(a)

\* Empty: nothing to judge.
Blank(w, a) == w.a = <<>> /\ w.aliases = <<>> /\ w.mx = <<>> /\ w.srv = <<>> /\ a.evidence = <<>>

Init ==
  /\ world \in DOMAIN Worlds
  /\ order \in Orders
  /\ first \in IF Worlds[world].common = <<>> THEN {TRUE} ELSE BOOLEAN
  /\ lost = {}
  /\ pc = "profile"
  /\ step = 1
  /\ analysis = NewAnalysis(Worlds[world])
  /\ saved = None
  /\ observed = None
  /\ announced = FALSE
  /\ interrupted = FALSE
  /\ faults = 0
  /\ outcome = None

Return(with) ==
  /\ outcome' = with
  /\ pc' = "done"

\* DiscoverProfile. It fails when no query is answered; a query that fails
\* leaves its records out.
Discover ==
  /\ pc = "profile"
  /\ \E failed \in SUBSET ProfileQueries :
       /\ faults + Cardinality(failed) <= MaxFaults
       /\ lost' = failed
       /\ faults' = faults + Cardinality(failed)
       /\ LET w == Profiled(Worlds[world], failed)
              unanswered == IF w.silent THEN ProfileQueries ELSE failed
              found == DiscoverProfile(Cardinality(unanswered), Cardinality(ProfileQueries), TRUE, Records(w), w.probes)
          IN IF interrupted THEN Return("CANCELED")
             ELSE IF found = "FAILED" THEN Return("FAILED")
             ELSE IF found = "WILDCARD" THEN Return("SKIPPED")
             ELSE pc' = "collect" /\ outcome' = None
  /\ UNCHANGED <<world, order, first, step, analysis, saved, observed, announced, interrupted>>

\* GetHost, for the evidence of the last scan.
CannotLoad ==
  /\ pc = "collect"
  /\ step = 1
  /\ Return("FAILED")
  /\ UNCHANGED <<world, order, first, lost, step, analysis, saved, observed, announced, interrupted, faults>>

\* One collector, in a world that answers, in one where a lookup fails, or
\* after the context has ended, when the limiter fails the TLS collector.
Collect ==
  LET steps == Pipeline(order)
      name == steps[step]
      see(w) ==
        /\ analysis' = Collector(name, w, analysis)
        /\ step' = step + 1
        /\ pc' = IF step = Len(steps) THEN "judge" ELSE "collect"
        /\ UNCHANGED outcome
  IN /\ pc = "collect"
     /\ \/ ~interrupted /\ see(Discovered) /\ UNCHANGED faults
        \/ ~interrupted /\ name \in Fallible /\ faults < MaxFaults /\ faults' = faults + 1
           /\ \E w \in Trouble(name, Discovered) : see(w)
        \/ interrupted /\ name # "tls" /\ see(Blackout(Discovered)) /\ UNCHANGED faults
        \/ /\ interrupted /\ name = "tls"
           /\ IF Discovered.a = <<>> /\ Discovered.aaaa = <<>> THEN see(Discovered)
              ELSE Return("CANCELED") /\ UNCHANGED <<analysis, step>>
           /\ UNCHANGED faults
     /\ UNCHANGED <<world, order, first, lost, saved, observed, announced, interrupted>>

\* classification.Process. The redirect chains are walked in any order.
Judge ==
  /\ pc = "judge"
  /\ IF Blank(Discovered, analysis) THEN Return("SKIPPED") /\ UNCHANGED analysis
     ELSE /\ \E chains \in {<<"http", "https">>, <<"https", "http">>} : analysis' = Process(analysis, chains)
          /\ pc' = "verify"
          /\ UNCHANGED outcome
  /\ UNCHANGED <<world, order, first, lost, step, saved, observed, announced, interrupted, faults>>

\* Engine.Run of the verifiers. A verification judges the host again.
Verify ==
  /\ pc = "verify"
  /\ analysis' = AfterVerifiers(Discovered, analysis, interrupted)
  /\ pc' = "decide"
  /\ UNCHANGED <<world, order, first, lost, step, saved, observed, announced, interrupted, faults, outcome>>

(* A slip: nobody asks whether the context has ended.                       *)
DecideUnasked ==
  /\ pc = "decide"
  /\ analysis' = [analysis EXCEPT !.percent = Calculate(analysis)]
  /\ pc' = "save"
  /\ UNCHANGED <<world, order, first, lost, step, saved, observed, announced, interrupted, faults, outcome>>

\* The check of the context, and the confidence.
Decide ==
  /\ pc = "decide"
  /\ IF interrupted THEN Return("CANCELED") /\ UNCHANGED analysis
     ELSE /\ analysis' = [analysis EXCEPT !.percent = Calculate(analysis)]
          /\ pc' = "save"
          /\ UNCHANGED outcome
  /\ UNCHANGED <<world, order, first, lost, step, saved, observed, announced, interrupted, faults>>

\* SaveAnalysis, then SaveObservation, then DispatchAnalysis.
Save ==
  /\ pc = "save"
  /\ saved' = analysis
  /\ pc' = "observe"
  /\ UNCHANGED <<world, order, first, lost, step, analysis, observed, announced, interrupted, faults, outcome>>

Observe ==
  /\ pc = "observe"
  /\ observed' = analysis
  /\ announced' = TRUE
  /\ Return("DONE")
  /\ UNCHANGED <<world, order, first, lost, step, analysis, saved, interrupted, faults>>

CannotStore ==
  /\ pc \in {"save", "observe"}
  /\ Return(IF pc = "save" /\ interrupted THEN "CANCELED" ELSE "FAILED")
  /\ UNCHANGED <<world, order, first, lost, step, analysis, saved, observed, announced, interrupted, faults>>

\* A signal, or another host that ends the batch.
Interrupt ==
  /\ pc # "done"
  /\ ~interrupted
  /\ interrupted' = TRUE
  /\ UNCHANGED <<world, order, first, lost, pc, step, analysis, saved, observed, announced, faults, outcome>>

Next == Discover \/ CannotLoad \/ Collect \/ Judge \/ Verify \/ Decide \/ Save \/ Observe \/ CannotStore \/ Interrupt

Spec == Init /\ [][Next]_vars

-----------------------------------------------------------------------------
(* What the properties compare with.                                        *)

Levels ==
  {"ZONE_CONTROL_CONFIRMED", "TAKEN_OVER", "CONFIRMED_TAKEOVERABLE", "LIKELY_TAKEOVERABLE",
   "DELEGATION_CLAIMABILITY_VERIFIED", "DELEGATION_BROKEN", "DELEGATION_TAKEOVER_CANDIDATE", "EXPOSED", "ORPHANED",
   "MISCONFIGURED", "HEALTHY", "INSUFFICIENT_EVIDENCE", "UNKNOWN"}
States == {"CONFIRMED", "CANDIDATE", "SUPPRESSED", "OBSERVATION", "INCONCLUSIVE", "HEALTHY"}

Verdict(a) == [level |-> a.level, state |-> a.state, percent |-> a.percent]
Concluded(a) == [a EXCEPT !.percent = Calculate(a)]

\* The verdict of a world nobody disturbs, its collectors one after another.
Undisturbed ==
  [name \in DOMAIN Worlds |-> [one \in BOOLEAN |->
     LET w == [Worlds[name] EXCEPT !.srv = @ \o If(one, Worlds[name].common)]
         names == Pipeline(CHOOSE some \in Orders : TRUE)
         judged == Process(Examine(w, NewAnalysis(w), names, Len(names)), <<"http", "https">>)
     IN Verdict(Concluded(AfterVerifiers(w, judged, FALSE)))]]

\* db replay: the rules and the confidence again, on what was stored.
Replay(a, chains) == Concluded(Process([a EXCEPT !.unknown = ""], chains))

\* The facts that bear out an accusation, said of the world alone.
Dangles(w) == /\ \E i \in DOMAIN w.aliases : Known(w.aliases[i].signature)
              /\ w.terminal.status \in Negative

Specific(signature) == Known(signature) /\ signature.vulnerable /\ signature.specific /\ signature.body # ""
Shows(signature, status, body) == body = signature.body /\ signature.status \in {0, status}
ShownOnPage(page, signature) == page.complete /\ Shows(signature, page.status, page.body)
ShownByProbe(replies, signature) ==
  LET shown(n) == ~ResponseHasNoBody(replies[n].status) /\ Shows(signature, replies[n].status, replies[n].body)
  IN (\A n \in 1..4 : replies[n].part = "body") /\ shown(2) /\ shown(3) /\ ~shown(1) /\ ~shown(4)
ShowsMissingResource(w) ==
  \E i \in DOMAIN w.aliases, s \in Schemes :
    LET signature == w.aliases[i].signature
    IN /\ Specific(signature)
       /\ ShownOnPage(w.web[s], signature) \/ \E p \in DOMAIN w.raw[s] : ShownByProbe(w.raw[s][p], signature)

\* Every name server of the delegation has failed for good, as far as the
\* parents tell of it that the faults let answer.
Dead(server) == server.health \in {"REFUSED", "NXDOMAIN", "LAME"} \/ server.address \in Negative
Answering(w) == {p \in DOMAIN w.cut.views : ValidDelegation(w.cut.views[p])}
DelegatesToTheDead(w, misses) ==
  \E told \in SUBSET Answering(w) :
    LET names == UNION {w.cut.views[p].ns : p \in told}
    IN /\ Cardinality(Answering(w) \ told) <= misses
       /\ IF names = {} THEN w.cut.listed # {} /\ \A s \in w.cut.listed : Dead(w.servers[s])
          ELSE \A s \in names : Dead(w.servers[s])
OneProviderAndNoDS(w, misses) ==
  \E told \in SUBSET Answering(w) :
    LET names == UNION {w.cut.views[p].ns : p \in told}
    IN /\ Cardinality(Answering(w) \ told) <= misses
       /\ \A p, q \in told : w.cut.views[p].ns = w.cut.views[q].ns
       /\ \A p \in told : ~w.cut.views[p].ds
       /\ names # {} /\ \A s, t \in names : w.servers[s].provider = w.servers[t].provider

-----------------------------------------------------------------------------
(* Properties.                                                              *)

(* The types, and that the percentage never exceeds what the collectors     *)
(* covered (internal/confidence/engine.go:20).                              *)
TypeOK ==
  /\ pc \in {"profile", "collect", "judge", "verify", "decide", "save", "observe", "done"}
  /\ step \in 1..(Len(Pipeline(order)) + 1)
  /\ faults \in 0..MaxFaults
  /\ outcome \in {None, "CANCELED", "FAILED", "SKIPPED", "DONE"}
  /\ analysis.level \in Levels
  /\ {analysis.risk, analysis.mitigation, analysis.confidence} \subseteq 0..100
  /\ saved # None => /\ saved.state \in States
                     /\ saved.percent \in 0..CalculateCoverage(saved.tested, saved.profile)

(* A stored verdict that names something to take over is true of the world, *)
(* whatever lookups failed on the way: a dangling alias is absent for sure  *)
(* (cname.go), a fingerprint is specific and shown (http.go, http_mutator.go*)
(* which asks twice), a delegation is dead at every server, of one provider *)
(* and without DS (ns.go, README.md:306), and control is never reported     *)
(* when nothing was claimed (README.md:76).                                 *)
AccusationsAreTrue ==
  saved # None =>
    LET w == Worlds[world]
    IN /\ saved.level \notin {"ZONE_CONTROL_CONFIRMED", "TAKEN_OVER", "CONFIRMED_TAKEOVERABLE",
                               "DELEGATION_CLAIMABILITY_VERIFIED"}
       /\ saved.level = "LIKELY_TAKEOVERABLE" => ShowsMissingResource(w)
       /\ saved.level = "ORPHANED" => Dangles(w)
       /\ saved.level = "DELEGATION_BROKEN" => DelegatesToTheDead(w, faults)
       /\ saved.level = "DELEGATION_TAKEOVER_CANDIDATE" => DelegatesToTheDead(w, faults) /\ OneProviderAndNoDS(w, faults)

(* When no lookup failed, what is stored is the verdict of an examination   *)
(* nobody disturbed: the order in which the independent collectors finish   *)
(* does not show (registry.go:67), and evidence that a cancelled context    *)
(* cut short is never stored as a verdict (cmd/scan.go:1201).               *)
SequentialVerdict == saved # None /\ faults = 0 => Verdict(saved) = Undisturbed[world][first]

(* db replay of an observation gives the verdict that was stored with it,   *)
(* in whatever order it walks the chains (cmd/db_history.go:61, README.md:  *)
(* 327), when no cloud verifier added evidence after the verdict.           *)
CloudEvidence ==
  {"CLOUD_S3_PRIVATE", "CLOUD_S3_LISTABLE", "CLOUD_S3_WRITABLE", "CLOUD_AZURE_BLOB_PRIVATE", "CLOUD_AZURE_BLOB_LISTABLE",
   "CLOUD_GCS_PRIVATE", "CLOUD_GCS_LISTABLE"}
ReplayAgrees ==
  observed # None /\ Types(observed.evidence) \cap CloudEvidence = {} =>
    \A chains \in {<<"http", "https">>, <<"https", "http">>} : Verdict(Replay(observed, chains)) = Verdict(observed)

(* A bucket that anyone can list or write makes its host EXPOSED at least   *)
(* (internal/classification/rules.go:114: exposures of cloud storage). The  *)
(* verifiers find it after the rules have judged, and only a verification   *)
(* judges again (cmd/scan.go:1187): the run shows it violated.              *)
ExposureIsClassified ==
  saved # None /\ Types(saved.evidence) \cap Exposures # {} =>
    saved.level \notin {"ORPHANED", "MISCONFIGURED", "HEALTHY", "INSUFFICIENT_EVIDENCE", "UNKNOWN"}
==============================================================================
