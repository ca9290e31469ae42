--------------------------- MODULE MCHostAnalysis ----------------------------
(***************************************************************************)
(* Small worlds for HostAnalysis: each has one thing to find, or several    *)
(* that compete for the verdict.                                            *)
(***************************************************************************)
EXTENDS HostAnalysis

NoSignature == [service |-> "", confidence |-> 0, nx |-> FALSE, body |-> "", vulnerable |-> FALSE, specific |-> FALSE, status |-> 0]
Pages == [NoSignature EXCEPT !.service = "GitHub Pages", !.body = "gone", !.vulnerable = TRUE, !.specific = TRUE, !.status = 404]
Vague == [Pages EXCEPT !.body = "vague", !.specific = FALSE, !.status = 0]
Gone == [NoSignature EXCEPT !.service = "Heroku", !.nx = TRUE, !.vulnerable = TRUE]
Mail == [NoSignature EXCEPT !.service = "Mail"]
Cloud == [NoSignature EXCEPT !.service = "Cloud"]
Alias(name, signature, hint) == [name |-> name, signature |-> signature, hint |-> hint, tracker |-> FALSE]
Address(address, signature) == [address |-> address, public |-> TRUE, asn |-> "as1", signature |-> signature]

Page == [transport |-> "", complete |-> TRUE, status |-> 200, location |-> "", edge |-> "", html |-> TRUE, password |-> FALSE,
         cookie |-> FALSE, hsts |-> TRUE, csp |-> TRUE, body |-> "page", server |-> "", cdn |-> "", origin |-> "", refs |-> <<>>]
Upgrade == [Page EXCEPT !.status = 301, !.location = "https", !.html = FALSE, !.body = ""]
Answered(status, body) == [Page EXCEPT !.status = status, !.body = body, !.html = FALSE]
Down == [Page EXCEPT !.transport = "refused", !.complete = FALSE]
Raw(status, body) == [part |-> "body", ends |-> "whole", framing |-> "length", status |-> status, body |-> body]
Probe(control, mutation) == <<control, mutation, mutation, control>>
Denied == Raw(403, "denied")

Server(address, health) ==
  [provider |-> "DnsHost", address |-> address, health |-> health, transfer |-> [records |-> 0, overLimit |-> FALSE, cut |-> FALSE]]
View(names) == [rcode |-> "NOERROR", ns |-> names, ds |-> FALSE]
Site(own, status, location) == [own |-> own, dns |-> "RESOLVED", failed |-> FALSE, status |-> status, location |-> location, match |-> FALSE]

Healthy ==
  [host |-> "host", root |-> "root", target |-> "",
   aliases |-> <<>>, terminal |-> [status |-> "RESOLVED", state |-> "CONSENSUS"],
   a |-> <<Address("ip1", NoSignature)>>, aaaa |-> <<>>,
   probes |-> <<[failed |-> FALSE, first |-> NoRecords, second |-> NoRecords]>>, silent |-> FALSE,
   cut |-> [zone |-> "zone", listed |-> {"ns1", "ns2"}, views |-> [p1 |-> View({"ns1", "ns2"}), p2 |-> View({"ns1", "ns2"})],
            complete |-> TRUE, ds |-> "NO_DATA"],
   servers |-> [ns1 |-> Server("RESOLVED", "HEALTHY"), ns2 |-> Server("RESOLVED", "HEALTHY"), ns3 |-> Server("RESOLVED", "HEALTHY")],
   mx |-> <<>>, srv |-> <<>>, common |-> <<>>, txt |-> <<>>, rootMX |-> FALSE, dmarc |-> "RESOLVED",
   spf |-> [root |-> [status |-> "RESOLVED", policy |-> TRUE, permissive |-> FALSE, terms |-> <<>>],
            other |-> [status |-> "RESOLVED", policy |-> TRUE, permissive |-> FALSE, terms |-> <<>>]],
   caa |-> {}, parentCAA |-> <<>>, bindings |-> <<>>, dnames |-> <<>>,
   dnssec |-> [normal |-> "RESOLVED", authenticated |-> FALSE, disabled |-> "RESOLVED",
               artifacts |-> [DNSKEY |-> "NO_DATA", DS |-> "NO_DATA", RRSIG |-> "NO_DATA"]],
   web |-> [http |-> Upgrade, https |-> Page], openRedirects |-> <<FALSE, FALSE>>,
   tls |-> [seen |-> TRUE, issuer |-> "ca1", selfSigned |-> FALSE, expired |-> FALSE, covers |-> TRUE, signature |-> NoSignature,
            sans |-> <<>>, variants |-> <<>>],
   sites |-> [http |-> Site(TRUE, 301, "https"), https |-> Site(TRUE, 200, ""), else |-> Site(FALSE, 200, "")],
   vhosts |-> [s \in Schemes |-> [first |-> Answered(200, "other"), second |-> Answered(200, "other")]],
   direct |-> [ip1 |-> [http |-> 0, https |-> 0]], hosts |-> [cdn |-> [status |-> "RESOLVED", service |-> "", asset |-> 200]],
   allowed |-> {"ip1", "cdn"}, parent |-> [allowed |-> TRUE, cookie |-> TRUE, cors |-> "credentials"], previous |-> <<>>,
   walls |-> [s \in Schemes |-> [challenge |-> FALSE, waf |-> FALSE]], maxProbes |-> 7, framing |-> {},
   raw |-> [s \in Schemes |-> [p \in ToSet(HostProbes \o FramingProbes) |-> Probe(Denied, Denied)]],
   answers |-> [v \in TakeoverVerifiers |-> [reached |-> TRUE, gone |-> FALSE]],
   bucket |-> [verifier |-> "", reached |-> TRUE, state |-> "", acl |-> FALSE]]

\* An alias without an address, and one that still answers.
Dangling == [Healthy EXCEPT !.a = <<>>, !.aliases = <<Alias("app", Gone, "Heroku")>>, !.target = "app",
                            !.terminal = [status |-> "NXDOMAIN", state |-> "CONSENSUS"],
                            !.web = [http |-> Down, https |-> Down]]
Pointed == [Healthy EXCEPT !.aliases = <<Alias("site", Pages, "GitHub Pages")>>, !.target = "site"]
Missing == [Pointed EXCEPT !.web = [http |-> Answered(404, "gone"), https |-> Answered(404, "gone")],
                           !.answers["GitHub Pages"].gone = TRUE]
Walled == [Pointed EXCEPT !.web = [http |-> Answered(403, "denied"), https |-> Answered(403, "denied")]]

\* A delegation to servers that are dead.
Lost(servers) == [Healthy EXCEPT !.servers = servers]
Refusing == [ns1 |-> Server("RESOLVED", "REFUSED"), ns2 |-> Server("NXDOMAIN", "ERROR"), ns3 |-> Server("RESOLVED", "HEALTHY")]

Worlds1 ==
  [healthy |-> Healthy,
   cdn |-> [Healthy EXCEPT !.web.https = [Page EXCEPT !.cdn = "edge", !.origin = "ip1"], !.direct["ip1"]["https"] = 2],
   fronted |-> [Healthy EXCEPT !.web.https = [Page EXCEPT !.cdn = "edge", !.origin = "ip1", !.hsts = FALSE], !.direct["ip1"]["https"] = 1],
   wildcard |-> [Healthy EXCEPT !.probes = <<[failed |-> FALSE, first |-> Records(Healthy), second |-> Records(Healthy)]>>],
   silent |-> [Healthy EXCEPT !.silent = TRUE],
   blank |-> [Healthy EXCEPT !.a = <<>>, !.terminal.status = "NO_DATA", !.cut.zone = "", !.web = [http |-> Down, https |-> Down]],
   dangling |-> Dangling,
   unresolvable |-> [Dangling EXCEPT !.aliases = <<Alias("app", NoSignature, "")>>],
   beanstalk |-> [Dangling EXCEPT !.aliases = <<Alias("app", Gone, "AWS Elastic Beanstalk")>>],
   pointed |-> Pointed,
   missing |-> Missing,
   vague |-> [Missing EXCEPT !.aliases = <<Alias("site", Vague, "GitHub Pages")>>,
                             !.web = [http |-> Answered(404, "vague"), https |-> Answered(404, "vague")]],
   present |-> [Missing EXCEPT !.web = [http |-> Answered(200, "gone"), https |-> Answered(200, "gone")]],
   walled |-> Walled,
   revealed |-> [Walled EXCEPT !.raw["https"]["HostTrailingDotProbe"] = Probe(Denied, Raw(404, "gone"))],
   unstable |-> [Walled EXCEPT !.raw["https"]["HostTrailingDotProbe"] = <<Denied, Raw(404, "gone"), Denied, Denied>>],
   controlled |-> [Walled EXCEPT !.raw["https"]["AbsoluteFormProbe"] = <<Raw(404, "gone"), Raw(404, "other"), Raw(404, "other"), Raw(404, "gone")>>],
   slow |-> [Walled EXCEPT !.raw["https"] = [p \in DOMAIN @ |-> <<Silent, Silent, Silent, Silent>>],
                           !.raw["http"]["NullByteHostProbe"] = Probe(Denied, Raw(404, "gone"))],
   framed |-> [Walled EXCEPT !.framing = {"host"}, !.raw["https"]["CLTEProbe"] = Probe(Denied, Raw(200, "other"))]]

Worlds2 ==
  [refusing |-> Lost(Refusing),
   half |-> Lost([Refusing EXCEPT !["ns2"] = Server("RESOLVED", "HEALTHY")]),
   slowserver |-> Lost([Refusing EXCEPT !["ns2"] = Server("RESOLVED", "TIMEOUT")]),
   signed |-> [Lost(Refusing) EXCEPT !.cut.views["p1"].ds = TRUE],
   mixed |-> Lost([Refusing EXCEPT !["ns2"].provider = "OtherHost"]),
   divided |-> [Lost(Refusing) EXCEPT !.cut.views["p2"] = View({"ns3"})],
   mail |-> [Healthy EXCEPT !.mx = <<[target |-> "mx1", preference |-> 10, signature |-> Mail, status |-> "NXDOMAIN"],
                                     [target |-> "mx2", preference |-> 20, signature |-> NoSignature, status |-> "RESOLVED"]>>],
   mailless |-> [Healthy EXCEPT !.mx = <<[target |-> ".", preference |-> 0, signature |-> NoSignature, status |-> "RESOLVED"]>>],
   service |-> [Healthy EXCEPT !.common = <<[target |-> "sip", signature |-> NoSignature, status |-> "NO_DATA"]>>],
   token |-> [Healthy EXCEPT !.txt = <<Mail>>],
   spf |-> [Healthy EXCEPT !.rootMX = TRUE, !.dmarc = "NXDOMAIN",
                           !.spf["root"].terms = <<[mechanism |-> "include", target |-> "other"]>>,
                           !.spf["other"].terms = <<[mechanism |-> "include", target |-> "root"]>>],
   broken |-> [Healthy EXCEPT !.spf["root"].terms = <<[mechanism |-> "include", target |-> "other"]>>,
                              !.spf["other"].status = "NXDOMAIN", !.spf["other"].policy = FALSE],
   bogus |-> [Healthy EXCEPT !.dnssec.normal = "SERVFAIL"],
   transfer |-> [Healthy EXCEPT !.servers["ns2"].transfer.records = 3],
   expired |-> [Healthy EXCEPT !.tls.expired = TRUE, !.a = <<Address("ip1", Cloud)>>, !.web = [http |-> Down, https |-> Down]],
   drifted |-> [Healthy EXCEPT !.previous = <<About(Evidence("TLS_CERTIFICATE_OBSERVED", "TLS", 0, 100), "ca0"),
                                              Evidence("CLOUD_IP_CONTEXT", "Other", 1, 90)>>, !.a = <<Address("ip1", Cloud)>>],
   caa |-> [Healthy EXCEPT !.caa = {"ca2"}, !.parentCAA = <<[failed |-> FALSE, issuers |-> {"ca3"}]>>],
   bound |-> [Healthy EXCEPT !.bindings = <<[vector |-> "HTTPS", target |-> "site", signature |-> Cloud]>>]]

Worlds3 ==
  [plain |-> [Healthy EXCEPT !.web.http = [Page EXCEPT !.password = TRUE]],
   cookie |-> [Healthy EXCEPT !.web.http = [Page EXCEPT !.cookie = TRUE]],
   refused |-> [Healthy EXCEPT !.web = [http |-> Answered(403, ""), https |-> Answered(403, "")]],
   notfound |-> [Healthy EXCEPT !.web = [http |-> Answered(404, ""), https |-> Down]],
   failing |-> [Healthy EXCEPT !.web = [http |-> Answered(503, ""), https |-> [Answered(503, "") EXCEPT !.edge = "edge"]]],
   downgrade |-> [Healthy EXCEPT !.web = [http |-> Upgrade, https |-> [Upgrade EXCEPT !.location = "http"]],
                                 !.sites["https"] = Site(TRUE, 301, "http")],
   elsewhere |-> [Healthy EXCEPT !.web.http = [Upgrade EXCEPT !.location = "else"], !.sites["http"] = Site(TRUE, 301, "else"),
                                 !.sites["else"].dns = "NXDOMAIN"],
   both |-> [Healthy EXCEPT !.web = [http |-> [Upgrade EXCEPT !.location = "else"], https |-> [Upgrade EXCEPT !.location = "mailto"]],
                            !.sites = [http |-> Site(TRUE, 301, "else"), https |-> Site(TRUE, 301, "mailto"),
                                       else |-> [Site(FALSE, 200, "") EXCEPT !.match = TRUE]]],
   asset |-> [Healthy EXCEPT !.web.https = [Page EXCEPT !.refs = <<[host |-> "cdn", kind |-> "script", source |-> "HTML"]>>],
                             !.hosts["cdn"] = [status |-> "NXDOMAIN", service |-> "Cdn", asset |-> 0]],
   open |-> [Healthy EXCEPT !.openRedirects = <<FALSE, TRUE>>],
   uniform |-> [Healthy EXCEPT !.vhosts["https"] = [first |-> Answered(200, "page"), second |-> Answered(200, "page")]],
   private |-> [Pointed EXCEPT !.aliases = <<Alias("bucket", Cloud, "AWS S3")>>,
                               !.bucket = [verifier |-> "AWS S3", reached |-> TRUE, state |-> "private", acl |-> FALSE]],
   correlated |-> [Missing EXCEPT !.tls.signature = Pages],
   names |-> [Healthy EXCEPT !.tls.sans = <<[name |-> "other", related |-> TRUE, wildcard |-> FALSE, origin |-> TRUE]>>,
                             !.tls.variants = <<[mode |-> "none", answered |-> TRUE, issuer |-> "ca2"]>>,
                             !.web.https = [Page EXCEPT !.cdn = "edge"]],
   rival |-> [Missing EXCEPT !.servers = Refusing]]

Listable ==
  [listable |-> [Pointed EXCEPT !.aliases = <<Alias("bucket", Cloud, "AWS S3")>>,
                                !.bucket = [verifier |-> "AWS S3", reached |-> TRUE, state |-> "listable", acl |-> TRUE]]]

MCWorlds == Worlds1 @@ Worlds2 @@ Worlds3
MCListable == Listable

Registered == <<"mx", "txt", "srv", "tls", "ip", "email", "http_security", "shadow_it", "zone_transfer", "dnssec">>
\* Of any two collectors, each comes first once.
MCOrders == {Registered, Reverse(Registered)}
==============================================================================
