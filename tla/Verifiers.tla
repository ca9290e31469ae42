----------------------------- MODULE Verifiers -------------------------------
(***************************************************************************)
(* The active verifiers (internal/verifiers): one per provider asks the     *)
(* host for the page of a missing resource, three ask what a bucket lets    *)
(* anyone do. They run after the rules have judged the evidence.            *)
(*                                                                         *)
(* Of the world: an alias has the verifier whose domain it lies under, in   *)
(* hint; w.answers[verifier] is [reached, gone], whether the host is        *)
(* reached over one scheme and shows the page of that provider; w.bucket    *)
(* is [verifier, reached, state, acl] for a name in a storage service.      *)
(***************************************************************************)
EXTENDS HttpMutator, Classification

\* Two of the providers stand for those that ask the host.
TakeoverVerifiers == {"GitHub Pages", "Heroku", "AWS Elastic Beanstalk"}
CloudVerifiers == {"AWS S3", "Azure Blob Storage", "Google Cloud Storage"}

VerifierMatchesAnalysis(w, a, verifier) ==
  \/ \E c \in a.candidates : c.provider = verifier
  \/ \E i \in DOMAIN a.evidence : a.evidence[i].source = verifier
  \/ \E i \in DOMAIN w.aliases : w.aliases[i].hint = verifier

\* hasProviderCNAME
HasProviderCNAME(w, verifier) == \E i \in DOMAIN w.aliases : w.aliases[i].hint = verifier

\* github_pages.go: the page of the provider, over http or else https. Every
\* verifier of a page has this form.
PageIsGone(w, verifier) == HasProviderCNAME(w, verifier) /\ w.answers[verifier].reached /\ w.answers[verifier].gone

\* aws_elasticbeanstalk.go asks nothing: an alias and no IPv4 address.
BeanstalkIsGone(w) == w.a = <<>> /\ w.aliases # <<>>

Verified(w, verifier) == IF verifier = "AWS Elastic Beanstalk" THEN BeanstalkIsGone(w) ELSE PageIsGone(w, verifier)

\* The verifiers that can win the race: the first that verifies cancels the
\* others.
Winners(w, a) ==
  IF a.level \notin {"TAKEOVERABLE", "LIKELY_TAKEOVERABLE", "ORPHANED"} THEN {}
  ELSE {v \in TakeoverVerifiers : VerifierMatchesAnalysis(w, a, v) /\ Verified(w, v)}

\* A page is not a proof of control: 90 at most.
WithVerification(a) ==
  [a EXCEPT !.verification = [score |-> 90, verified |-> TRUE, proven |-> FALSE, confidence |-> 90]]

\* aws_s3.go, azure_blob.go and gcs_bucket.go: what the bucket allows.
BucketEvidence(w) ==
  LET b == w.bucket
      at(type, weight) == Evidence(type, b.verifier, weight, 100)
      named(s3, azure, gcs) == CASE b.verifier = "AWS S3" -> s3 [] b.verifier = "Azure Blob Storage" -> azure [] OTHER -> gcs
      private == named("CLOUD_S3_PRIVATE", "CLOUD_AZURE_BLOB_PRIVATE", "CLOUD_GCS_PRIVATE")
      listable == named("CLOUD_S3_LISTABLE", "CLOUD_AZURE_BLOB_LISTABLE", "CLOUD_GCS_LISTABLE")
  IN CASE b.reached /\ b.state = "missing" -> <<>>
       [] b.reached /\ b.state = "private" -> <<[at(private, 50) EXCEPT !.negative = TRUE]>>
       [] OTHER -> If(b.reached /\ b.state = "listable", <<at(listable, 70)>>)
                     \o If(b.verifier = "AWS S3" /\ b.acl, <<at("CLOUD_S3_WRITABLE", 90)>>)

\* The second layer of Run, for the names of a storage service. Each verifier
\* asks for an alias of its own provider, which is narrower than the gate.
RunCloud(w, a) ==
  LET asked == w.bucket.verifier # "" /\ VerifierMatchesAnalysis(w, a, w.bucket.verifier) /\ HasProviderCNAME(w, w.bucket.verifier)
  IN Tested(IF asked THEN Collected(a, BucketEvidence(w)) ELSE a, "CLOUD")
==============================================================================
