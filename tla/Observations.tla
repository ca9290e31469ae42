---------------------------- MODULE Observations -----------------------------
(***************************************************************************)
(* What an analysis is made of (internal/core): evidence, HTTP observations,*)
(* provider candidates and inferences, with the constructors every          *)
(* collector uses. Texts are left out. A name, a body or a URL is a string  *)
(* that stands for a class of texts no rule tells apart.                    *)
(***************************************************************************)
EXTENDS Integers, SequencesExt

If(holds, entries) == IF holds THEN entries ELSE <<>>

\* What each entry of a list gives, and the entries that pass a test, in order.
EachOf(list, entries(_)) == FlattenSeq([i \in DOMAIN list |-> entries(list[i])])
Those(list, Test(_)) == EachOf(list, LAMBDA entry : If(Test(entry), <<entry>>))

AtMost(bound, n) == IF n > bound THEN bound ELSE n

-----------------------------------------------------------------------------
(* Evidence: about is what the metadata ties it to, status the HTTP status  *)
(* it quotes, firm that the metadata a rule asks for is there: the rule     *)
(* that matched, a text that is not generic, both confirmations.            *)

Evidence(type, source, weight, confidence) ==
  [type |-> type, source |-> source, weight |-> weight, confidence |-> confidence,
   negative |-> FALSE, about |-> "", status |-> 0, firm |-> FALSE]

Mitigation(type, source, weight, confidence) ==
  [Evidence(type, source, weight, confidence) EXCEPT !.negative = TRUE]

About(e, what) == [e EXCEPT !.about = what]

Types(evidence) == {evidence[i].type : i \in DOMAIN evidence}
Has(evidence, type) == \E i \in DOMAIN evidence : evidence[i].type = type
OfType(evidence, type) == {e \in {evidence[i] : i \in DOMAIN evidence} : e.type = type}

-----------------------------------------------------------------------------
(* The outcome of a DNS query, as resolveStatus reports it.                 *)

Negative == {"NXDOMAIN", "NO_DATA"}
Transient == {"TIMEOUT", "SERVFAIL", "ERROR"}
Statuses == {"RESOLVED", "REFUSED"} \cup Negative \cup Transient

-----------------------------------------------------------------------------
(* An HTTP observation. transport is the class of its transport error.      *)

Unobserved ==
  [seen |-> FALSE, complete |-> FALSE, status |-> 0, location |-> "", kind |-> "", edge |-> "",
   html |-> FALSE, password |-> FALSE, cookie |-> FALSE, hsts |-> FALSE, csp |-> FALSE,
   body |-> "", server |-> "", transport |-> ""]

RedirectStatus(status) == status \in {301, 302, 303, 307, 308}
BlockedStatus(status) == status \in {401, 403, 406, 429}
UnavailableStatus(status) == status \in {404, 410}

\* bodySimilarity >= 90: the bodies of one class share their words.
SimilarBodies(left, right) == left # "" /\ left = right

-----------------------------------------------------------------------------
Inference(rule, state, impact) == [rule |-> rule, state |-> state, impact |-> impact]

NotVerified == [score |-> 0, verified |-> FALSE, proven |-> FALSE, confidence |-> 0]
==============================================================================
