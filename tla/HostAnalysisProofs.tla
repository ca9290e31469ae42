------------------------- MODULE HostAnalysisProofs -------------------------
(***************************************************************************)
(* Proofs about HostAnalysis, for every set of worlds that are as assumed,  *)
(* every order of the collectors and every number of lookups that fail:     *)
(* a stored accusation is true of the world, a stored verdict is in its     *)
(* ranges, and a replay of what was observed gives the verdict again.       *)
(*                                                                         *)
(* Evidence is followed from the collector that gives it, through the rules *)
(* that infer and judge, to the table it is stored in. F is throughout a    *)
(* set of types of evidence that may not be said; a collector says one of   *)
(* them only of a world in which it is true.                                *)
(***************************************************************************)
EXTENDS HostAnalysis, FiniteSetTheorems, WellFoundedInduction, TLAPS

-----------------------------------------------------------------------------
(* Lists of evidence: what a list of lists, joined, may say.                *)

Scaled(e) == e.weight \in Nat /\ e.confidence \in 0..100

\* A list of evidence that says none of the types of F.
Free(s, F) == IsList(s) /\ \A i \in DOMAIN s : s[i].type \notin F /\ Scaled(s[i])

\* A sequence over a set is a list, of members of the set.
LEMMA ListOfASet == ASSUME NEW S, NEW s \in Seq(S) PROVE IsList(s) /\ ToSet(s) \subseteq S
  BY DEF IsList, ToSet

LEMMA FreeOfASet ==
  ASSUME NEW S, NEW F, NEW s \in Seq(S), \A e \in S : e.type \notin F /\ Scaled(e) PROVE Free(s, F)
  BY ListOfASet DEF Free, ToSet

LEMMA ListDomain == ASSUME NEW s, IsList(s) PROVE Len(s) \in Nat /\ DOMAIN s = 1..Len(s)
  BY DEF IsList

\* A set of numbers that is not empty has a least one.
LEMMA Least == ASSUME NEW T, T \subseteq Nat, T # {} PROVE \E n \in T : \A m \in T : ~(m < n)
<1> DEFINE R == {ss \in Nat \X Nat : ss[1] < ss[2]}
<1>1. IsWellFoundedOn(R, Nat) BY NatLessThanWellFounded DEF OpToRel
<1>2. \E x \in T : \A y \in T : ~ (<<y, x>> \in R)
  <2> HIDE DEF R
  <2> QED BY <1>1, WFMin
<1>3. \A x, y \in T : y < x => <<y, x>> \in R OBVIOUS
<1>4. QED BY <1>2, <1>3

\* f is the first n joins of the parts.
Joins(f, parts, n) == f = [i \in 1..n |-> IF i = 1 THEN parts[i] ELSE f[i - 1] \o parts[i]]

\* The joins of the first n parts exist for every n: otherwise there is a
\* least n without them, which is neither 1 nor more.
LEMMA JoinOne == ASSUME NEW parts PROVE \E f : Joins(f, parts, 1)
<1> DEFINE g == [i \in 1..1 |-> parts[i]]
<1>1. g = [i \in 1..1 |-> IF i = 1 THEN parts[i] ELSE g[i - 1] \o parts[i]]
  OBVIOUS
<1>2. QED BY <1>1 DEF Joins

LEMMA JoinMore == ASSUME NEW parts, NEW n \in Nat, n > 1, NEW f, Joins(f, parts, n - 1)
                  PROVE \E g : Joins(g, parts, n)
<1> DEFINE body(h, i) == IF i = 1 THEN parts[i] ELSE h[i - 1] \o parts[i]
           g == [i \in 1..n |-> IF i = n THEN body(f, n) ELSE f[i]]
<1>1. \A i \in 1..(n - 1) : f[i] = body(f, i) BY DEF Joins
<1>2. \A i \in 1..(n - 1) : g[i] = f[i] OBVIOUS
<1>3. g[n] = body(f, n) OBVIOUS
<1>4. g = [i \in 1..n |-> g[i]] OBVIOUS
<1>5. \A i \in 1..n : i # 1 => i - 1 \in 1..(n - 1) OBVIOUS
<1> HIDE DEF g
<1>6. \A i \in 1..n : g[i] = body(g, i)
  <2> TAKE i \in 1..n
  <2>1. body(g, i) = body(f, i) BY <1>2, <1>5
  <2> HIDE DEF body
  <2>2. CASE i = n BY <2>1, <2>2, <1>3
  <2>3. CASE i # n
    <3>1. i \in 1..(n - 1) BY <2>3
    <3>2. QED BY <3>1, <2>1, <1>1, <1>2
  <2>4. QED BY <2>2, <2>3
<1>7. g = [i \in 1..n |-> body(g, i)] BY <1>4, <1>6
<1>8. QED BY <1>7 DEF Joins

LEMMA JoinsExist == ASSUME NEW parts PROVE \A n \in Nat \ {0} : \E f : Joins(f, parts, n)
<1> DEFINE Missing == {n \in Nat : n # 0 /\ ~\E f : Joins(f, parts, n)}
<1>1. SUFFICES ASSUME Missing # {} PROVE FALSE OBVIOUS
<1>2. PICK n \in Missing : \A m \in Missing : ~(m < n)
  <2>1. Missing \subseteq Nat OBVIOUS
  <2> HIDE DEF Missing
  <2>2. QED BY <1>1, <2>1, Least
<1>3. n \in Nat /\ n # 0 /\ ~\E f : Joins(f, parts, n) OBVIOUS
<1>4. n # 1 BY <1>3, JoinOne
<1>5. n - 1 \in Nat /\ n - 1 # 0 /\ n - 1 < n /\ n > 1 BY <1>3, <1>4
<1>6. n - 1 \notin Missing BY <1>2, <1>5
<1>7. \E f : Joins(f, parts, n - 1) BY <1>5, <1>6
<1>8. QED BY <1>3, <1>5, <1>7, JoinMore

\* What FlattenSeq chooses is the last of the joins.
LEMMA FlattenJoins == ASSUME NEW parts, Len(parts) \in Nat \ {0}
                      PROVE \E f : Joins(f, parts, Len(parts)) /\ FlattenSeq(parts) = f[Len(parts)]
<1> DEFINE c == CHOOSE f : f = [i \in 1..Len(parts) |-> IF i = 1 THEN parts[i] ELSE f[i - 1] \o parts[i]]
<1>1. \E f : Joins(f, parts, Len(parts)) BY JoinsExist
<1>2. c = [i \in 1..Len(parts) |-> IF i = 1 THEN parts[i] ELSE c[i - 1] \o parts[i]]
  BY <1>1, Zenon DEF Joins
<1>3. FlattenSeq(parts) = c[Len(parts)] BY DEF FlattenSeq
<1> HIDE DEF c
<1>4. QED BY <1>2, <1>3 DEF Joins

\* What is joined is made of the members of the parts.
LEMMA JoinsInSet ==
  ASSUME NEW U, NEW parts, NEW n \in Nat, NEW f, Joins(f, parts, n), \A i \in 1..n : parts[i] \in Seq(U)
  PROVE \A i \in 1..n : f[i] \in Seq(U)
<1> DEFINE Bad == {i \in 1..n : f[i] \notin Seq(U)}
<1>1. SUFFICES ASSUME Bad # {} PROVE FALSE OBVIOUS
<1>2. PICK k \in Bad : \A m \in Bad : ~(m < k)
  <2>1. Bad \subseteq Nat OBVIOUS
  <2> HIDE DEF Bad
  <2>2. QED BY <1>1, <2>1, Least
<1>3. k \in 1..n /\ f[k] \notin Seq(U) OBVIOUS
<1>4. f[k] = IF k = 1 THEN parts[k] ELSE f[k - 1] \o parts[k] BY <1>3 DEF Joins
<1>5. k # 1 BY <1>3, <1>4
<1>6. k - 1 \in 1..n /\ k - 1 < k BY <1>3, <1>5
<1>7. k - 1 \notin Bad BY <1>2, <1>6
<1>8. f[k - 1] \in Seq(U) BY <1>6, <1>7
<1>9. parts[k] \in Seq(U) BY <1>3
<1>10. f[k] \in Seq(U) BY <1>4, <1>5, <1>8, <1>9
<1>11. QED BY <1>3, <1>10

LEMMA FlattenInSet ==
  ASSUME NEW U, NEW parts, Len(parts) \in Nat, DOMAIN parts = 1..Len(parts),
         parts = [i \in DOMAIN parts |-> parts[i]],
    \A i \in DOMAIN parts : parts[i] \in Seq(U)
   PROVE FlattenSeq(parts) \in Seq(U)
<1>1. CASE Len(parts) = 0
  <2>1. FlattenSeq(parts) = parts BY <1>1 DEF FlattenSeq
  <2>2. parts \in Seq(U) BY <1>1
  <2>3. QED BY <2>1, <2>2
<1>2. CASE Len(parts) # 0
  <2>1. PICK f : Joins(f, parts, Len(parts)) /\ FlattenSeq(parts) = f[Len(parts)] BY <1>2, FlattenJoins
  <2>2. \A i \in 1..Len(parts) : f[i] \in Seq(U) BY <2>1, JoinsInSet
  <2>3. QED BY <2>1, <2>2, <1>2
<1>3. QED BY <1>1, <1>2

LEMMA EachList ==
  ASSUME NEW list, IsList(list) , NEW parts, parts = [i \in DOMAIN list |-> parts[i]]
     PROVE Len(parts) \in Nat /\ DOMAIN parts = 1..Len(parts) /\ DOMAIN parts = DOMAIN list
   BY DEF IsList

\* When every part is free of F, so is the list they make (EachOf, Those).
LEMMA FreeEach ==
  ASSUME NEW F, NEW list, IsList(list), NEW parts, parts = [i \in DOMAIN list |-> parts[i]],
       \A i \in DOMAIN list : Free(parts[i], F)
    PROVE Free(FlattenSeq(parts), F)
<1> DEFINE U == UNION {ToSet(parts[i]) : i \in DOMAIN list}
<1>1. \A e \in U : e.type \notin F /\ Scaled(e) BY DEF Free, ToSet
<1>2. \A i \in DOMAIN list : ToSet(parts[i]) \subseteq U OBVIOUS
<1>3. \A i \in DOMAIN list : parts[i] \in Seq(ToSet(parts[i])) BY DEF Free, IsList
<1> HIDE DEF U
<1>4. \A i \in DOMAIN list : parts[i] \in Seq(U) BY <1>2, <1>3
<1>5. Len(parts) \in Nat /\ DOMAIN parts = 1..Len(parts) /\ DOMAIN parts = DOMAIN list BY EachList
<1>6. FlattenSeq(parts) \in Seq(U) BY <1>4, <1>5, FlattenInSet
<1>7. QED BY <1>6, <1>1, FreeOfASet

\* The empty list, the list of one, and two lists together.
LEMMA FreeNone == ASSUME NEW F PROVE Free(<<>>, F)
  BY DEF Free, IsList

LEMMA FreeOne == ASSUME NEW F, NEW e, e.type \notin F, Scaled(e) PROVE Free(<<e>>, F)
  BY DEF Free, IsList, ToSet

LEMMA FreeJoin == ASSUME NEW F, NEW s, NEW t, Free(s, F), Free(t, F) PROVE Free(s \o t, F)
<1> DEFINE U == ToSet(s) \cup ToSet(t)
<1>1. \A e \in U : e.type \notin F /\ Scaled(e) BY DEF Free, ToSet
<1>2. s \in Seq(ToSet(s)) /\ t \in Seq(ToSet(t)) BY DEF Free, IsList
<1>3. ToSet(s) \subseteq U /\ ToSet(t) \subseteq U OBVIOUS
<1> HIDE DEF U
<1>4. s \in Seq(U) /\ t \in Seq(U) BY <1>2, <1>3
<1>5. s \o t \in Seq(U) BY <1>4
<1>6. QED BY <1>5, <1>1, FreeOfASet

LEMMA ListJoin ==
  ASSUME NEW s, NEW t, IsList(s), IsList(t)
  PROVE IsList(s \o t) /\ ToSet(s \o t) \subseteq ToSet(s) \cup ToSet(t)
<1> DEFINE U == ToSet(s) \cup ToSet(t)
<1>2. s \in Seq(ToSet(s)) /\ t \in Seq(ToSet(t)) BY DEF IsList
<1>3. ToSet(s) \subseteq U /\ ToSet(t) \subseteq U OBVIOUS
<1> HIDE DEF U
<1>4. s \in Seq(U) /\ t \in Seq(U) BY <1>2, <1>3
<1>5. s \o t \in Seq(U) BY <1>4
<1>6. IsList(s \o t) /\ ToSet(s \o t) \subseteq U BY <1>5, ListOfASet
<1>7. QED BY <1>6 DEF U

\* The constructors give the type they were asked for.
LEMMA Types0 == \A type, source, weight, confidence, what :
     /\ Evidence(type, source, weight, confidence).type = type
     /\ Mitigation(type, source, weight, confidence).type = type
     /\ About(Evidence(type, source, weight, confidence), what).type = type
  BY DEF Evidence, Mitigation, About

LEMMA Scales ==
  ASSUME NEW type, NEW source, NEW weight \in Nat, NEW confidence \in 0..100, NEW what
  PROVE /\ Scaled(Evidence(type, source, weight, confidence))
        /\ Scaled(Mitigation(type, source, weight, confidence))
        /\ Scaled(About(Evidence(type, source, weight, confidence), what))
  BY DEF Evidence, Mitigation, About, Scaled

LEMMA Numbers ==
  /\ \A n \in {0, 30, 40, 50, 60, 70, 80, 85, 90, 95, 100} : n \in 0..100
  /\ \A n \in {0, 1, 5, 10, 20, 30, 40, 50, 60, 70, 80, 90, 100} : n \in Nat
  OBVIOUS

\* The fields of an analysis. An analysis that is Sound says nothing of F,
\* and no verification has the score of a claim.
Fields == {"evidence", "candidates", "delegation", "http", "chains", "cdn", "tested", "profile", "mutations",
           "verification",
           "inferences", "risk", "mitigation", "confidence", "level", "state", "rule", "impact", "unknown", "percent"}
Drawn(inferences) == IsList(inferences) /\ \A i \in DOMAIN inferences : inferences[i].state \in States
Sound(a, F) ==
  /\ Fields \subseteq DOMAIN a
  /\ Free(a.evidence, F) /\ a.verification.score # 100
  /\ a.risk \in 0..100 /\ a.mitigation \in 0..100 /\ a.confidence \in 0..100
  /\ a.level \in Levels /\ a.profile \subseteq DOMAIN VectorWeights /\ Drawn(a.inferences)

Scored == {"evidence", "verification", "profile", "inferences", "risk", "mitigation", "confidence", "level"}

\* What the writes to an analysis keep.
LEMMA SoundWith == ASSUME NEW F, NEW a, NEW f \in Fields \ Scored, NEW v, Sound(a, F)
    PROVE Sound([a EXCEPT ![f] = v], F)
  BY DEF Sound, Fields, Scored

LEMMA SoundCollected ==
  ASSUME NEW F, NEW a, NEW x, Sound(a, F), Free(x, F) PROVE Sound(Collected(a, x), F)
<1>1. Free(a.evidence \o x, F) BY FreeJoin DEF Sound
<1>2. QED BY <1>1 DEF Sound, Fields, Collected

LEMMA SoundTested == ASSUME NEW F, NEW a, NEW v, Sound(a, F) PROVE Sound(Tested(a, v), F)
  BY DEF Sound, Fields, Tested

LEMMA SoundLinked == ASSUME NEW F, NEW a, NEW v, Sound(a, F) PROVE Sound(Linked(a, v), F)
  BY DEF Sound, Fields, Linked

-----------------------------------------------------------------------------
(* The collectors that accuse nobody. Grave is what an accusation rests on. *)

\* The types of evidence that an accusation rests on.
Grave == {"ZONE_CONTROL_CONFIRMED", "CLAIM_SUCCESS", "DELEGATION_CLAIMABILITY_VERIFIED",
          "DELEGATION_CLAIMABILITY_NOT_DEMONSTRATED",
  "HTTP_MUTATION_REVEALED_PROVIDER_FINGERPRINT", "HTTP_BODY_MATCH", "DELEGATION_TAKEOVER_CANDIDATE", "DELEGATION_BROKEN",
  "CNAME_DANGLING"}

LEMMA Plain ==
  ASSUME NEW type, type \notin Grave, NEW source, NEW weight \in Nat, NEW confidence \in 0..100
  PROVE  Free(<<Evidence(type, source, weight, confidence)>>, Grave) /\ Free(<<Mitigation(type, source, weight, confidence)>>, Grave)
<1>1. Scaled(Evidence(type, source, weight, confidence)) /\ Scaled(Mitigation(type, source, weight, confidence))
  BY Scales
<1> QED BY <1>1, FreeOne, Types0

LEMMA PlainAbout ==
  ASSUME NEW type, type \notin Grave, NEW source, NEW weight \in Nat, NEW confidence \in 0..100, NEW what
  PROVE  Free(<<About(Evidence(type, source, weight, confidence), what)>>, Grave)
  BY FreeOne, Types0, Scales

\* A collector that adds no grave evidence keeps the analysis sound.
LEMMA SoundAdding ==
  ASSUME NEW F, F \subseteq Grave, NEW a, NEW x, Sound(a, F), Free(x, Grave) PROVE Sound(Collected(a, x), F)
<1>1. Free(x, F) BY DEF Free
<1>2. QED BY <1>1, SoundCollected

LEMMA EachInSet ==
  ASSUME NEW S, NEW list, IsList(list), NEW parts, parts = [i \in DOMAIN list |-> parts[i]],
         \A i \in DOMAIN list : parts[i] \in Seq(S)
  PROVE FlattenSeq(parts) \in Seq(S)
<1>1. Len(parts) \in Nat /\ DOMAIN parts = 1..Len(parts) /\ DOMAIN parts = DOMAIN list BY EachList
<1>2. QED BY <1>1, FlattenInSet

LEMMA Filtered ==
  ASSUME NEW list, IsList(list), NEW parts, parts = [i \in DOMAIN list |-> parts[i]],
         \A i \in DOMAIN list : parts[i] \in {<<>>, <<list[i]>>}
  PROVE IsList(FlattenSeq(parts)) /\ ToSet(FlattenSeq(parts)) \subseteq ToSet(list)
<1>1. \A i \in DOMAIN list : list[i] \in ToSet(list) BY DEF ToSet
<1>2. \A x \in ToSet(list) : <<>> \in Seq(ToSet(list)) /\ <<x>> \in Seq(ToSet(list)) OBVIOUS
<1>3. ASSUME NEW i \in DOMAIN list PROVE parts[i] \in Seq(ToSet(list))
  <2>1. parts[i] = <<>> \/ parts[i] = <<list[i]>> OBVIOUS
  <2>2. QED BY <1>1, <1>2, <2>1
<1>4. FlattenSeq(parts) \in Seq(ToSet(list)) BY <1>3, EachInSet
<1>5. QED BY <1>4, ListOfASet

Rated(list) == \A i \in DOMAIN list : "signature" \in DOMAIN list[i] /\ list[i].signature.confidence \in 0..100

LEMMA SureIsAPercentage == ASSUME NEW c \in 0..100 PROVE Sure(c) \in 0..100
  BY DEF Sure

LEMMA MatchedPlain ==
  ASSUME NEW type, type \notin Grave, NEW targets, IsList(targets),
         Rated(targets) PROVE Free(Matched(type, targets), Grave)
<1> DEFINE part(t) == If(Known(t.signature), <<Evidence(type, t.signature.service, 1, Sure(t.signature.confidence))>>)
<1>1. ASSUME NEW i \in DOMAIN targets PROVE Free(part(targets[i]), Grave)
  <2>1. Sure(targets[i].signature.confidence) \in 0..100 BY SureIsAPercentage DEF Rated
  <2> QED BY <2>1, FreeNone, Plain, Numbers, ZenonT(60) DEF If
<1>2. Free(FlattenSeq([i \in DOMAIN targets |-> part(targets[i])]), Grave)
  <2> HIDE DEF part
  <2> QED BY <1>1, FreeEach
<1>3. QED BY <1>2, ZenonT(60) DEF Matched, EachOf

LEMMA MXStatusPlain ==
  ASSUME NEW targets, IsList(targets) PROVE Free(MXStatusEvidence(targets), Grave)
<1> DEFINE lowest == Min({targets[i].preference : i \in DOMAIN targets})
           healthy == \E i \in DOMAIN targets : targets[i].status = "RESOLVED"
           broken(t) ==
             CASE ~healthy -> <<Evidence("MX_BROKEN", "DNS", 20, 90)>>
               [] healthy /\ t.preference = lowest -> <<Evidence("MX_PRIMARY_BROKEN_WITH_FALLBACK", "DNS", 10, 90)>>
               [] OTHER -> <<Evidence("MX_BACKUP_BROKEN", "DNS", 5, 90)>>
           part(t) == CASE t.status \in Absent -> broken(t)
                        [] t.status \in Transient -> <<Evidence("MX_UNRESOLVABLE", "DNS", 1, 40)>>
                        [] OTHER -> <<>>
<1>1. \A t : Free(broken(t), Grave)
  <2> HIDE DEF healthy, lowest
  <2> QED BY Plain, Numbers, ZenonT(60) DEF Grave
<1>2. \A t : Free(part(t), Grave)
  <2> HIDE DEF broken
  <2>1. Free(<<Evidence("MX_UNRESOLVABLE", "DNS", 1, 40)>>, Grave) BY Plain, Numbers, ZenonT(60) DEF Grave
  <2> QED BY <1>1, <2>1, FreeNone DEF Absent, Negative, Transient
<1>3. Free(FlattenSeq([i \in DOMAIN targets |-> part(targets[i])]), Grave)
  <2> HIDE DEF part
  <2> QED BY <1>2, FreeEach
<1>4. QED BY <1>3, SMTT(60) DEF MXStatusEvidence, EachOf

LEMMA RatedPart ==
  ASSUME NEW list, Rated(list), NEW part, ToSet(part) \subseteq ToSet(list) PROVE Rated(part)
  BY DEF Rated, ToSet

LEMMA OthersThanRoot ==
  ASSUME NEW list, IsList(list), Rated(list)
  PROVE IsList(Those(list, LAMBDA t : t.target # ".")) /\ Rated(Those(list, LAMBDA t : t.target # "."))
<1> DEFINE part(t) == If(t.target # ".", <<t>>)
<1>1. \A t : part(t) \in {<<>>, <<t>>} BY DEF If
<1>2. /\ IsList(FlattenSeq([i \in DOMAIN list |-> part(list[i])]))
      /\ ToSet(FlattenSeq([i \in DOMAIN list |-> part(list[i])])) \subseteq ToSet(list)
  <2> HIDE DEF part
  <2> QED BY <1>1, Filtered
<1>3. Rated(FlattenSeq([i \in DOMAIN list |-> part(list[i])]))
  <2> HIDE DEF part
  <2> QED BY <1>2, RatedPart
<1>4. QED BY <1>2, <1>3 DEF Those, EachOf

\* dns_collectors.go: the mail exchangers.
LEMMA MXSound ==
  ASSUME NEW F, F \subseteq Grave, NEW w, NEW a, IsList(w.mx), Rated(w.mx), Sound(a, F)
  PROVE Sound(CollectMX(w, a), F)
<1> DEFINE targets == Those(w.mx, LAMBDA t : t.target # ".")
           part(t) == If(t.target = ".", <<Mitigation("NULL_MX_PRESENT", "DNS", 0, 100)>>)
           null == FlattenSeq([i \in DOMAIN w.mx |-> part(w.mx[i])])
           said == null \o Matched("MX_PROVIDER_MATCH", targets) \o IF targets = <<>> THEN <<>> ELSE MXStatusEvidence(targets)
<1>1. IsList(targets) /\ Rated(targets) BY OthersThanRoot, SMTT(60)
<1>2. \A t : Free(part(t), Grave) BY FreeNone, Plain, Numbers, ZenonT(60) DEF If, Grave
<1>3. Free(null, Grave)
  <2> HIDE DEF part
  <2> QED BY <1>2, FreeEach
<1>4. Sound(Linked(Collected(Tested(a, "MX"), said), TargetLinks("MX", targets)), F)
  <2> HIDE DEF null, targets
  <2>1. "MX_PROVIDER_MATCH" \notin Grave BY DEF Grave
  <2>2. Free(Matched("MX_PROVIDER_MATCH", targets), Grave) BY <1>1, <2>1, MatchedPlain
  <2>3. Free(IF targets = <<>> THEN <<>> ELSE MXStatusEvidence(targets), Grave) BY <1>1, MXStatusPlain, FreeNone
  <2>4. Free(said, Grave) BY <1>3, <2>2, <2>3, FreeJoin
  <2> HIDE DEF said
  <2>5. QED BY <2>4, SoundAdding, SoundTested, SoundLinked
<1>5. QED BY <1>4 DEF CollectMX, EachOf

\* dns_collectors.go, txt_residual.go, caa.go and the bindings: the records.
LEMMA SRVSound ==
  ASSUME NEW F, F \subseteq Grave, NEW w, NEW a, IsList(w.srv), Rated(w.srv), Sound(a, F)
  PROVE Sound(CollectSRV(w, a), F)
<1> DEFINE targets == Those(w.srv, LAMBDA t : t.target # ".")
           status(t) == CASE t.status \in Absent -> <<Evidence("SRV_BROKEN", "DNS", 20, 90)>>
                          [] t.status \in Transient -> <<Evidence("SRV_UNRESOLVABLE", "DNS", 1, 40)>>
                          [] OTHER -> <<>>
           part(t) == Matched("SRV_PROVIDER_MATCH", <<t>>) \o status(t)
           said == FlattenSeq([i \in DOMAIN targets |-> part(targets[i])])
<1>1. IsList(targets) /\ Rated(targets) BY OthersThanRoot
<1>2. \A t : Free(status(t), Grave)
  <2>1. Free(<<Evidence("SRV_BROKEN", "DNS", 20, 90)>>, Grave) BY Plain, Numbers, ZenonT(60) DEF Grave
  <2>2. Free(<<Evidence("SRV_UNRESOLVABLE", "DNS", 1, 40)>>, Grave) BY Plain, Numbers, ZenonT(60) DEF Grave
  <2> QED BY <2>1, <2>2, FreeNone, SMTT(60)
<1>3. ASSUME NEW i \in DOMAIN targets PROVE Free(Matched("SRV_PROVIDER_MATCH", <<targets[i]>>), Grave)
  <2>1. "SRV_PROVIDER_MATCH" \notin Grave BY DEF Grave
  <2>2. \A t : IsList(<<t>>) BY DEF IsList, ToSet
  <2> HIDE DEF targets
  <2>3. Rated(<<targets[i]>>) BY <1>1 DEF Rated
  <2>4. QED BY <2>1, <2>2, <2>3, MatchedPlain
<1>4. \A i \in DOMAIN targets : Free(part(targets[i]), Grave)
  <2> HIDE DEF status, targets
  <2> QED BY <1>2, <1>3, FreeJoin
<1>5. Free(said, Grave)
  <2> HIDE DEF part, targets
  <2> QED BY <1>1, <1>4, FreeEach
<1>6. Sound(Linked(Collected(Tested(a, "SRV"), said), TargetLinks("SRV", targets)), F)
  <2> HIDE DEF said, targets
  <2> QED BY <1>5, SoundAdding, SoundTested, SoundLinked, SMTT(60)
<1>7. QED BY <1>6 DEF CollectSRV, EachOf

LEMMA IPSound ==
  ASSUME NEW F, F \subseteq Grave, NEW w, NEW a, IsList(w.a), IsList(w.aaaa), Sound(a, F)
  PROVE Sound(CollectIP(w, a), F)
<1> DEFINE addresses == w.a \o w.aaaa
           keep(ip) == If(ip.public /\ ip.asn # "", <<ip>>)
           told == FlattenSeq([i \in DOMAIN addresses |-> keep(addresses[i])])
           context(ip) == IF Known(ip.signature) THEN <<Evidence("CLOUD_IP_CONTEXT", ip.signature.service, 1, 90)>>
                          ELSE <<Evidence("ASN_MATCH", "Team Cymru", 1, 60)>>
           link(ip) == If(Known(ip.signature), <<Link(ip.signature.service, "A", ip.address)>>)
           said == FlattenSeq([i \in DOMAIN told |-> context(told[i])])
<1>1. IsList(addresses) BY ListJoin
<1>2. \A ip : keep(ip) \in {<<>>, <<ip>>} BY DEF If
<1>3. IsList(told)
  <2> HIDE DEF keep, addresses
  <2> QED BY <1>1, <1>2, Filtered
<1>4. \A ip : Free(context(ip), Grave)
  <2>1. \A service : Free(<<Evidence("CLOUD_IP_CONTEXT", service, 1, 90)>>, Grave) BY Plain, Numbers, ZenonT(60) DEF Grave
  <2>2. \A who : Free(<<Evidence("ASN_MATCH", who, 1, 60)>>, Grave) BY Plain, Numbers, ZenonT(60) DEF Grave
  <2>3. Free(<<Evidence("ASN_MATCH", "Team Cymru", 1, 60)>>, Grave) BY <2>2
  <2>4. QED BY <2>1, <2>3, ZenonT(60)
<1>5. Free(said, Grave)
  <2> HIDE DEF context, told
  <2> QED BY <1>3, <1>4, FreeEach
<1>6. Sound(Linked(Collected(Tested(a, "A_AAAA_ASN"), said), FlattenSeq([i \in DOMAIN told |-> link(told[i])])), F)
  <2> HIDE DEF said, told, link
  <2> QED BY <1>5, SoundAdding, SoundTested, SoundLinked
<1>7. QED BY <1>6, ZenonT(60) DEF CollectIP, EachOf, Those

RatedTokens(list) == \A i \in DOMAIN list : list[i].confidence \in 0..100

LEMMA TokensAreAList ==
  ASSUME NEW w, IsList(w.txt) PROVE IsList(Tokens(w)) /\ (RatedTokens(w.txt) => RatedTokens(Tokens(w)))
<1> DEFINE keep(t) == If(Known(t), <<t>>)
           kept == FlattenSeq([i \in DOMAIN w.txt |-> keep(w.txt[i])])
<1>1. \A t : keep(t) \in {<<>>, <<t>>} BY DEF If
<1>2. IsList(kept) /\ ToSet(kept) \subseteq ToSet(w.txt)
  <2> HIDE DEF keep
  <2> QED BY <1>1, Filtered
<1>3. Tokens(w) = kept BY DEF Tokens, Those, EachOf
<1> HIDE DEF kept
<1>4. QED BY <1>2, <1>3 DEF RatedTokens, ToSet

LEMMA TXTSound ==
  ASSUME NEW F, F \subseteq Grave, NEW w, NEW a, IsList(w.txt), RatedTokens(w.txt), Sound(a, F)
  PROVE Sound(CollectTXT(w, a), F)
<1> DEFINE tokens == Tokens(w)
           part(t) == <<Evidence("TXT_VERIFICATION_TOKEN", t.service, 1, Sure(t.confidence))>>
           said == FlattenSeq([i \in DOMAIN tokens |-> part(tokens[i])])
           links == [i \in DOMAIN tokens |-> Link(tokens[i].service, "TXT", w.host)]
<1>1. IsList(tokens) /\ RatedTokens(tokens) BY TokensAreAList, SMTT(60)
<1>2. ASSUME NEW i \in DOMAIN tokens PROVE Free(part(tokens[i]), Grave)
  <2> HIDE DEF tokens
  <2>1. Sure(tokens[i].confidence) \in 0..100 BY <1>1, SureIsAPercentage DEF RatedTokens
  <2>2. "TXT_VERIFICATION_TOKEN" \notin Grave BY DEF Grave
  <2> QED BY <2>1, <2>2, Plain, Numbers, ZenonT(60)
<1>3. Free(said, Grave)
  <2> HIDE DEF part, tokens
  <2> QED BY <1>1, <1>2, FreeEach
<1>4. Sound(Linked(Collected(Tested(a, "TXT"), said), links), F)
  <2> HIDE DEF said, links
  <2> QED BY <1>3, SoundAdding, SoundTested, SoundLinked
<1>5. QED BY <1>4 DEF CollectTXT, EachOf

LEMMA TXTResidualSound ==
  ASSUME NEW F, F \subseteq Grave, NEW w, NEW a, IsList(w.txt), Sound(a, F) PROVE Sound(CollectTXTResidual(w, a), F)
<1> DEFINE tokens == Tokens(w)
           active == {c.provider : c \in {d \in a.candidates : d.vector # "TXT"}}
           part(t) == If(t.service \notin active, <<Evidence("TXT_OWNERSHIP_TOKEN_RESIDUAL", t.service, 0, 70)>>)
           said == FlattenSeq([i \in DOMAIN tokens |-> part(tokens[i])])
<1>1. IsList(tokens) BY TokensAreAList, SMTT(60)
<1>2. \A t : Free(part(t), Grave)
  <2> HIDE DEF active
  <2> QED BY FreeNone, Plain, Numbers, ZenonT(60) DEF If, Grave
<1>3. Free(said, Grave)
  <2> HIDE DEF part, tokens
  <2> QED BY <1>1, <1>2, FreeEach
<1>4. Sound(Collected(a, said), F)
  <2> HIDE DEF said
  <2> QED BY <1>3, SoundAdding
<1>5. QED BY <1>4 DEF CollectTXTResidual, EachOf

LEMMA CAASound ==
  ASSUME NEW F, F \subseteq Grave, NEW w, NEW a, Sound(a, F) PROVE Sound(CollectCAA(w, a), F)
<1> DEFINE parent == ParentCAA(w)
           effective == IF w.caa # {} THEN w.caa ELSE parent
           issuers == {e.about : e \in OfType(a.evidence, "TLS_CERTIFICATE_OBSERVED")} \ {""}
           one == If(effective # {}, <<Mitigation("CAA_RECORD_PRESENT", "DNS", 10, 100)>>)
           two == If(w.caa # {} /\ parent # {} /\ w.caa # parent, <<Evidence("CAA_POLICY_INCONSISTENT", "DNS", 0, 100)>>)
           three == If(effective # {} /\ issuers # {} /\ issuers \cap effective = {}, <<Evidence("CAA_ISSUER_MISMATCH", "DNS/TLS", 0, 90)>>)
<1>1. Free(one, Grave) /\ Free(two, Grave) /\ Free(three, Grave)
  <2> HIDE DEF parent, effective, issuers
  <2> QED BY FreeNone, Plain, Numbers, ZenonT(60) DEF If, Grave
<1>2. Sound(Collected(Tested(a, "CAA"), one \o two \o three), F)
  <2> HIDE DEF one, two, three
  <2> QED BY <1>1, FreeJoin, SoundAdding, SoundTested
<1>3. QED BY <1>2 DEF CollectCAA

LEMMA BindingsSound ==
  ASSUME NEW F, F \subseteq Grave, NEW w, NEW a, IsList(w.bindings), IsList(w.dnames), Sound(a, F)
  PROVE Sound(CollectBindings(w, a), F)
<1> DEFINE entry(b, vector, binding, match) ==
             If(b.vector = vector,
                <<Evidence(binding, "DNS", 0, 100)>> \o If(Known(b.signature), <<Evidence(match, b.signature.service, 0, 80)>>))
           said(vector, binding, match) == FlattenSeq([i \in DOMAIN w.bindings |-> entry(w.bindings[i], vector, binding, match)])
           d == <<Evidence("DNAME_ALIAS", "DNS", 0, 100)>>
           alias == FlattenSeq([i \in DOMAIN w.dnames |-> d])
           vectors == {w.bindings[i].vector : i \in DOMAIN w.bindings}
           tested == a.tested \cup vectors \cup IF w.dnames = <<>> THEN {} ELSE {"DNAME"}
           all == [a EXCEPT !.tested = tested]
           https == said("HTTPS", "HTTPS_BINDING", "HTTPS_PROVIDER_MATCH")
           svcb == said("SVCB", "SVCB_BINDING", "SVCB_PROVIDER_MATCH")
           links == FlattenSeq([i \in DOMAIN w.bindings |-> If(Known(w.bindings[i].signature),
                                  <<Link(w.bindings[i].signature.service, w.bindings[i].vector, w.bindings[i].target)>>)])
<1>1. ASSUME NEW vector, NEW binding, NEW match, binding \notin Grave, match \notin Grave
      PROVE Free(said(vector, binding, match), Grave)
  <2>1. Free(<<Evidence(binding, "DNS", 0, 100)>>, Grave) BY <1>1, Plain, Numbers, ZenonT(60)
  <2>2. \A b : Free(If(Known(b.signature), <<Evidence(match, b.signature.service, 0, 80)>>), Grave)
    BY <1>1, FreeNone, Plain, Numbers, ZenonT(60) DEF If
  <2>3. \A b : Free(entry(b, vector, binding, match), Grave) BY <2>1, <2>2, FreeNone, FreeJoin DEF If
  <2> HIDE DEF entry
  <2>4. QED BY <2>3, FreeEach, SMTT(60)
<1>2. Free(https, Grave) /\ Free(svcb, Grave)
  <2>1. /\ "HTTPS_BINDING" \notin Grave /\ "HTTPS_PROVIDER_MATCH" \notin Grave
        /\ "SVCB_BINDING" \notin Grave /\ "SVCB_PROVIDER_MATCH" \notin Grave
    BY DEF Grave
  <2> HIDE DEF said
  <2>2. QED BY <1>1, <2>1
<1>3. Free(alias, Grave)
  <2>1. Free(d, Grave) BY Plain, Numbers, ZenonT(60) DEF Grave
  <2> HIDE DEF d
  <2>2. QED BY <2>1, FreeEach, SMTT(60)
<1>4. Sound(all, F)
  <2> HIDE DEF tested
  <2> QED BY DEF Sound, Fields
<1>5. Sound(Linked(Collected(all, alias \o https \o svcb), links), F)
  <2> HIDE DEF alias, https, svcb, links, all
  <2>1. Free(alias \o https \o svcb, Grave) BY <1>2, <1>3, FreeJoin
  <2>2. QED BY <2>1, <1>4, SoundAdding, SoundLinked
<1>6. QED BY <1>5 DEF CollectBindings, EachOf

LEMMA DNSSECSound ==
  ASSUME NEW F, F \subseteq Grave, NEW w, NEW a, Sound(a, F) PROVE Sound(CollectDNSSEC(w, a), F)
<1> DEFINE state == DNSSECState(w.dnssec.normal, w.dnssec.authenticated, w.dnssec.disabled)
           one == If(DNSSECArtifacts(w.dnssec.artifacts) # {}, <<Evidence("DNSSEC_ARTIFACTS_OBSERVED", "DNSSEC", 0, 100)>>)
           two == CASE state = "BOGUS" -> <<Evidence("DNSSEC_BOGUS", "DNSSEC", 20, 95)>>
                    [] state = "SERVFAIL" -> <<Evidence("DNSSEC_SERVFAIL_INCONCLUSIVE", "DNSSEC", 0, 80)>>
                    [] state = "VALIDATED" -> <<Mitigation("DNSSEC_VALIDATED", "DNSSEC", 0, 90)>>
                    [] OTHER -> <<>>
<1>1. Free(one, Grave) BY FreeNone, Plain, Numbers, ZenonT(60) DEF If, Grave
<1>2. Free(two, Grave)
  <2> HIDE DEF state
  <2>1. Free(<<Evidence("DNSSEC_BOGUS", "DNSSEC", 20, 95)>>, Grave) BY Plain, Numbers, ZenonT(60) DEF Grave
  <2>2. Free(<<Evidence("DNSSEC_SERVFAIL_INCONCLUSIVE", "DNSSEC", 0, 80)>>, Grave) BY Plain, Numbers, ZenonT(60) DEF Grave
  <2>3. Free(<<Mitigation("DNSSEC_VALIDATED", "DNSSEC", 0, 90)>>, Grave) BY Plain, Numbers, ZenonT(60) DEF Grave
  <2>4. QED BY <2>1, <2>2, <2>3, FreeNone
<1>3. Sound(Collected(Tested(a, "DNSSEC"), one \o two), F) /\ Sound(Tested(a, "DNSSEC"), F)
  <2> HIDE DEF one, two
  <2> QED BY <1>1, <1>2, FreeJoin, SoundAdding, SoundTested
<1>4. QED BY <1>3 DEF CollectDNSSEC

LEMMA ZoneTransferSound ==
  ASSUME NEW F, F \subseteq Grave, NEW w, NEW a, Sound(a, F) PROVE Sound(CollectZoneTransfer(w, a), F)
<1> DEFINE names == IF a.delegation.ns # {} THEN a.delegation.ns ELSE ZoneOf(w).ns
           allowed == \E s \in names : LET t == w.servers[s].transfer IN TransferSucceeds(t.records, t.overLimit, t.cut)
           told == DelegatedZone(w, a) # "" /\ allowed
           said == If(told, <<Evidence("DNS_AXFR_ALLOWED", "ZoneTransfer", 40, 100)>>)
<1>1. Free(said, Grave)
  <2> HIDE DEF told
  <2> QED BY FreeNone, Plain, Numbers, ZenonT(60) DEF If, Grave
<1>2. Sound(Collected(Tested(a, "AXFR"), said), F)
  <2> HIDE DEF said
  <2> QED BY <1>1, SoundAdding, SoundTested
<1>3. QED BY <1>2, ZenonT(60) DEF CollectZoneTransfer

LEMMA ShadowITSound ==
  ASSUME NEW F, F \subseteq Grave, NEW w, NEW a, IsList(w.aliases), Sound(a, F) PROVE Sound(CollectShadowIT(w, a), F)
<1> DEFINE part(n) == If(n.tracker, <<Evidence("SHADOW_IT_DETECTED", "ShadowIT", 0, 90)>>)
           said == FlattenSeq([i \in DOMAIN w.aliases |-> part(w.aliases[i])])
<1>1. \A n : Free(part(n), Grave) BY FreeNone, Plain, Numbers, ZenonT(60) DEF If, Grave
<1>2. Free(said, Grave)
  <2> HIDE DEF part
  <2> QED BY <1>1, FreeEach
<1>3. Sound(Collected(Tested(a, "SHADOW_IT"), said), F)
  <2> HIDE DEF said
  <2> QED BY <1>2, SoundAdding, SoundTested
<1>4. QED BY <1>3 DEF CollectShadowIT, EachOf

\* The posture of the host, its certificate and its virtual hosts.
LEMMA HTTPPostureSound ==
  ASSUME NEW F, NEW w, NEW a, Sound(a, F) PROVE Sound(CollectHTTPPosture(w, a), F)
  BY SoundTested DEF CollectHTTPPosture

LEMMA HTTPSecuritySound ==
  ASSUME NEW F, F \subseteq Grave, NEW w, NEW a, Sound(a, F) PROVE Sound(CollectHTTPSecurity(w, a), F)
<1> DEFINE headers == IF Completed(a, "https") THEN Tested(a, "SEC_HEADERS") ELSE a
           open == \E i \in DOMAIN w.openRedirects : w.openRedirects[i]
           said == If(open, <<Evidence("HTTP_OPEN_REDIRECT", "HttpSecurity", 80, 100)>>)
<1>1. Free(said, Grave)
  <2> HIDE DEF open
  <2> QED BY FreeNone, Plain, Numbers, ZenonT(60) DEF If, Grave
<1>2. Sound(headers, F) BY SoundTested
<1>3. Sound(Collected(Tested(headers, "OPEN_REDIRECT"), said), F)
  <2> HIDE DEF said, headers
  <2> QED BY <1>1, <1>2, SoundAdding, SoundTested
<1>4. QED BY <1>2, <1>3 DEF CollectHTTPSecurity

LEMMA TLSStatePlain == ASSUME NEW t PROVE Free(TLSState(t), Grave)
<1>1. /\ Free(If(t.expired, <<Evidence("TLS_EXPIRED", "TLS", 0, 100)>>), Grave)
      /\ Free(If(t.selfSigned, <<Evidence("TLS_SELF_SIGNED", "TLS", 0, 80)>>), Grave)
      /\ Free(If(~t.covers, <<Evidence("TLS_MISMATCH", "TLS", 0, 100)>>), Grave)
      /\ Free(If(t.covers /\ ~Known(t.signature), <<Mitigation("TLS_SAN_MATCH", "TLS", 0, 100)>>), Grave)
  <2>1. Free(<<Evidence("TLS_EXPIRED", "TLS", 0, 100)>>, Grave) BY Plain, Numbers, ZenonT(60) DEF Grave
  <2>2. Free(<<Evidence("TLS_SELF_SIGNED", "TLS", 0, 80)>>, Grave) BY Plain, Numbers, ZenonT(60) DEF Grave
  <2>3. Free(<<Evidence("TLS_MISMATCH", "TLS", 0, 100)>>, Grave) BY Plain, Numbers, ZenonT(60) DEF Grave
  <2>4. Free(<<Mitigation("TLS_SAN_MATCH", "TLS", 0, 100)>>, Grave) BY Plain, Numbers, ZenonT(60) DEF Grave
  <2>5. QED BY <2>1, <2>2, <2>3, <2>4, FreeNone, ZenonT(60) DEF If
<1>2. QED BY <1>1, FreeJoin DEF TLSState

LEMMA TLSDriftPlain == ASSUME NEW w PROVE Free(TLSDrift(w), Grave)
<1> DEFINE before == Those(w.previous, LAMBDA e : e.type = "TLS_CERTIFICATE_OBSERVED")
           drift == before # <<>> /\ before[1].about \notin {"", w.tls.issuer}
           said == If(drift, <<Evidence("TLS_CERTIFICATE_DRIFT", "HISTORY", 0, 100)>>)
<1>1. Free(said, Grave)
  <2> HIDE DEF drift
  <2> QED BY FreeNone, Plain, Numbers, ZenonT(60) DEF If, Grave
<1>2. QED BY <1>1 DEF TLSDrift

LEMMA SANCandidatesAreAList == ASSUME NEW w, IsList(w.tls.sans) PROVE IsList(SANCandidates(w))
<1> DEFINE keep(n) == If(n.related /\ ~n.wildcard /\ n.name # w.host, <<n>>)
           fit == FlattenSeq([i \in DOMAIN w.tls.sans |-> keep(w.tls.sans[i])])
<1>1. \A n : keep(n) \in {<<>>, <<n>>} BY DEF If
<1>2. IsList(fit)
  <2> HIDE DEF keep
  <2> QED BY <1>1, Filtered
<1>3. SANCandidates(w) = SubSeq(fit, 1, AtMost(MaxSANCandidates, Len(fit))) BY DEF SANCandidates, Those, EachOf
<1> HIDE DEF fit
<1>4. fit \in Seq(ToSet(fit)) BY <1>2 DEF IsList
<1>5. AtMost(MaxSANCandidates, Len(fit)) \in Nat /\ AtMost(MaxSANCandidates, Len(fit)) <= Len(fit)
  BY <1>4 DEF AtMost, MaxSANCandidates
<1>6. SANCandidates(w) \in Seq(ToSet(fit)) BY <1>3, <1>4, <1>5
<1>7. QED BY <1>6, ListOfASet

LEMMA TLSSound ==
  ASSUME NEW F, F \subseteq Grave, NEW w, NEW a, w.tls.seen => IsList(w.tls.sans) /\ IsList(w.tls.variants),
         w.tls.signature.confidence \in 0..100, Sound(a, F)
  PROVE Sound(CollectTLS(w, a), F)
<1> DEFINE t == w.tls
           confidence(c) == IF c <= 0 THEN 50 ELSE AtMost(70, c)
           provider == If(Known(t.signature), <<Evidence("TLS_PROVIDER_MATCH", t.signature.service, 0, confidence(t.signature.confidence))>>)
           keep(v) == If(v.answered /\ v.issuer # t.issuer, <<v>>)
           variants == FlattenSeq([i \in DOMAIN t.variants |-> keep(t.variants[i])])
           sans == SANCandidates(w)
           vectors == {"TLS"} \cup IF t.seen THEN {"TLS_SAN_DISCOVERY", "SNI"} ELSE {}
           observed0 == <<About(Evidence("TLS_CERTIFICATE_OBSERVED", "TLS", 0, 100), t.issuer)>>
           name == <<Evidence("TLS_SAN_CANDIDATE", "TLS", 0, 100)>>
           names == FlattenSeq([i \in DOMAIN sans |-> name])
           other(v) == <<Evidence("SNI_CERT_MISMATCH", v.mode, 0, 100)>>
           others == FlattenSeq([i \in DOMAIN variants |-> other(variants[i])])
           told == observed0 \o provider \o TLSState(t) \o TLSDrift(w) \o names \o others
           said == If(t.seen, told)
           visited == [a EXCEPT !.tested = @ \cup vectors]
<1>1. CASE ~t.seen
  <2>1. Free(said, Grave) BY <1>1, FreeNone DEF If
  <2> HIDE DEF said, vectors
  <2>2. Sound(visited, F) BY DEF Sound, Fields
  <2> HIDE DEF visited
  <2>3. Sound(Collected(visited, said), F) BY <2>1, <2>2, SoundAdding
  <2>4. QED BY <2>3, ZenonT(60) DEF CollectTLS, EachOf, Those, said, visited, vectors
<1>2. CASE t.seen
  <2>1. Free(observed0, Grave) BY PlainAbout, Numbers, ZenonT(60) DEF Grave
  <2>2. Free(provider, Grave)
    <3>1. \A c \in 0..100 : confidence(c) \in 0..100 BY DEF AtMost
    <3> HIDE DEF confidence
    <3>2. confidence(t.signature.confidence) \in 0..100 BY <3>1
    <3> QED BY <3>2, FreeNone, Plain, Numbers, ZenonT(60) DEF If, Grave
  <2>3. Free(names, Grave)
    <3>1. Free(name, Grave) BY Plain, Numbers, ZenonT(60) DEF Grave
    <3>2. IsList(sans) BY <1>2, SANCandidatesAreAList
    <3> HIDE DEF name, sans
    <3> QED BY <3>1, <3>2, FreeEach
  <2>4. Free(others, Grave)
    <3>1. \A v : keep(v) \in {<<>>, <<v>>} BY DEF If
    <3>2. IsList(t.variants) BY <1>2
    <3>3. IsList(variants)
      <4> HIDE DEF keep, t
      <4> QED BY <3>1, <3>2, Filtered, SMTT(60)
    <3>4. \A v : Free(other(v), Grave) BY Plain, Numbers, ZenonT(60) DEF Grave
    <3> HIDE DEF other, variants
    <3> QED BY <3>3, <3>4, FreeEach
  <2>5. Free(told, Grave)
    <3> HIDE DEF observed0, provider, names, others, t
    <3>1. Free(TLSState(t), Grave) BY TLSStatePlain
    <3>2. QED BY <2>1, <2>2, <2>3, <2>4, <3>1, TLSDriftPlain, FreeJoin
  <2>6. Free(said, Grave) BY <1>2, <2>5, ZenonT(60) DEF If
  <2> HIDE DEF said, vectors
  <2>7. Sound(visited, F) BY DEF Sound, Fields
  <2> HIDE DEF visited
  <2>8. Sound(Collected(visited, said), F) BY <2>6, <2>7, SoundAdding
  <2>9. QED BY <2>8 DEF CollectTLS, EachOf, Those, said, visited, vectors
<1>3. QED BY <1>1, <1>2

LEMMA TwoSchemes == /\ IsList(<<"http", "https">>) /\ IsList(<<"https", "http">>)
                    /\ DOMAIN <<"http", "https">> = {1, 2} /\ DOMAIN <<"https", "http">> = {1, 2}
  BY SMTT(60) DEF IsList, ToSet

LEMMA VHostSound ==
  ASSUME NEW F, F \subseteq Grave, NEW w, NEW a, Sound(a, F) PROVE Sound(CollectVHost(w, a), F)
<1> DEFINE part(s) ==
             LET one == w.vhosts[s].first
                 second == w.vhosts[s].second
             IN IF ~(Completed(a, s) /\ one.complete /\ second.complete /\ SameHTTPResponse(one, second)) THEN <<>>
                ELSE IF SameHTTPResponse(a.http[s], one) THEN <<Evidence("HTTP_WILDCARD_DETECTED", s, 0, 95)>>
                ELSE <<Evidence("VHOST_DIFFERENTIAL", s, 0, 95)>>
           said == FlattenSeq([i \in DOMAIN <<"https", "http">> |-> part(<<"https", "http">>[i])])
<1>1. ASSUME NEW s PROVE Free(part(s), Grave)
  <2>1. Free(<<Evidence("HTTP_WILDCARD_DETECTED", s, 0, 95)>>, Grave) BY Plain, Numbers, ZenonT(60) DEF Grave
  <2>2. Free(<<Evidence("VHOST_DIFFERENTIAL", s, 0, 95)>>, Grave) BY Plain, Numbers, ZenonT(60) DEF Grave
  <2>3. QED BY <2>1, <2>2, FreeNone, SMTT(60)
<1>2. Free(said, Grave)
  <2> HIDE DEF part
  <2> DEFINE order2 == <<"https", "http">>
  <2>1. IsList(order2) BY TwoSchemes
  <2> HIDE DEF order2
  <2>2. Free(FlattenSeq([i \in DOMAIN order2 |-> part(order2[i])]), Grave) BY <2>1, <1>1, FreeEach
  <2>3. QED BY <2>2 DEF order2
<1>3. Sound(Collected(Tested(a, "VHOST"), said), F)
  <2> HIDE DEF said
  <2> QED BY <1>2, SoundAdding, SoundTested
<1>4. QED BY <1>3, ZenonT(60) DEF CollectVHost, EachOf

LEMMA EachIsAList ==
  ASSUME NEW list, IsList(list), NEW parts, parts = [i \in DOMAIN list |-> parts[i]],
       \A i \in DOMAIN list : IsList(parts[i])
    PROVE IsList(FlattenSeq(parts))
<1> DEFINE U == UNION {ToSet(parts[i]) : i \in DOMAIN list}
<1>1. \A i \in DOMAIN list : ToSet(parts[i]) \subseteq U OBVIOUS
<1>2. \A i \in DOMAIN list : parts[i] \in Seq(ToSet(parts[i])) BY DEF IsList
<1> HIDE DEF U
<1>3. \A i \in DOMAIN list : parts[i] \in Seq(U) BY <1>1, <1>2
<1>4. FlattenSeq(parts) \in Seq(U) BY <1>3, EachInSet
<1>5. QED BY <1>4, ListOfASet

LEMMA OneOrNone == ASSUME NEW holds, NEW x PROVE IsList(If(holds, <<x>>))
<1>1. IsList(<<>>) /\ IsList(<<x>>) BY DEF IsList, ToSet
<1>2. QED BY <1>1 DEF If

\* A function on an initial stretch of the numbers is a list.
LEMMA StretchIsAList ==
  ASSUME NEW n \in Nat, NEW f, f = [i \in 1..n |-> f[i]] PROVE IsList(f) /\ DOMAIN f = 1..n
<1>1. \A i \in 1..n : f[i] \in ToSet(f) BY DEF ToSet
<1>2. QED BY <1>1 DEF IsList

LEMMA AtMostIsNat ==
  ASSUME NEW bound \in Nat, NEW n \in Nat PROVE AtMost(bound, n) \in Nat /\ AtMost(bound, n) <= n
  BY DEF AtMost

LEMMA OriginCandidatesAreAList ==
  ASSUME NEW w, NEW a, IsList(w.a), IsList(w.aaaa), IsList(w.tls.sans)
  PROVE IsList(OriginCandidates(w, a))
<1> DEFINE candidate(target, kind) == [target |-> target, kind |-> kind]
           header(s) == If(Completed(a, s) /\ w.web[s].origin # "", <<candidate(w.web[s].origin, "header")>>)
           schemes == <<"https", "http">>
           headers == FlattenSeq([i \in DOMAIN schemes |-> header(schemes[i])])
           addresses == w.a \o w.aaaa
           near(ip) == If(ip.public /\ ip.asn # "" /\ Known(ip.signature) /\ ip.signature.service # a.cdn, <<candidate(ip.address, "dns")>>)
           dns == FlattenSeq([i \in DOMAIN addresses |-> near(addresses[i])])
           named(n) == If(n.origin, <<candidate(n.name, "tls")>>)
           tls == IF Has(a.evidence, "TLS_CERTIFICATE_OBSERVED") THEN FlattenSeq([i \in DOMAIN w.tls.sans |-> named(w.tls.sans[i])]) ELSE <<>>
           all == headers \o dns \o tls
           marked == [i \in DOMAIN all |-> [c |-> all[i], first |-> \A j \in 1..(i - 1) : all[j] # all[i]]]
           keep(x) == If(x.first /\ x.c.target # w.host, <<x>>)
           distinct == FlattenSeq([i \in DOMAIN marked |-> keep(marked[i])])
<1>1. IsList(headers)
  <2>1. \A s : IsList(header(s)) BY OneOrNone
  <2>2. IsList(schemes) BY TwoSchemes
  <2> HIDE DEF header, schemes
  <2>3. QED BY <2>1, <2>2, EachIsAList
<1>2. IsList(dns)
  <2>1. \A ip : IsList(near(ip)) BY OneOrNone
  <2>2. IsList(addresses) BY ListJoin
  <2> HIDE DEF near, addresses
  <2>3. QED BY <2>1, <2>2, EachIsAList
<1>3. IsList(tls)
  <2>1. \A n : IsList(named(n)) BY OneOrNone
  <2> HIDE DEF named
  <2>2. IsList(FlattenSeq([i \in DOMAIN w.tls.sans |-> named(w.tls.sans[i])])) BY <2>1, EachIsAList
  <2>3. IsList(<<>>) BY DEF IsList
  <2>4. QED BY <2>2, <2>3
<1>4. IsList(all)
  <2> HIDE DEF headers, dns, tls
  <2> QED BY <1>1, <1>2, <1>3, ListJoin
<1>5. IsList(marked)
  <2> HIDE DEF all
  <2>1. Len(all) \in Nat /\ DOMAIN all = 1..Len(all) BY <1>4, ListDomain
  <2>2. DOMAIN marked = 1..Len(all) /\ marked = [i \in 1..Len(all) |-> marked[i]] BY <2>1
  <2> HIDE DEF marked
  <2>3. QED BY <2>1, <2>2, StretchIsAList
<1>6. IsList(distinct)
  <2>1. \A x : keep(x) \in {<<>>, <<x>>} BY DEF If
  <2> HIDE DEF keep, marked
  <2>2. QED BY <2>1, <1>5, Filtered
<1>7. OriginCandidates(w, a) = [i \in 1..AtMost(MaxOriginCandidates, Len(distinct)) |-> distinct[i].c]
  BY DEF OriginCandidates, EachOf, Those
<1> HIDE DEF distinct
<1>8. AtMost(MaxOriginCandidates, Len(distinct)) \in Nat BY <1>6, ListDomain, AtMostIsNat DEF MaxOriginCandidates
<1>9. QED BY <1>7, <1>8, StretchIsAList

\* The addresses behind the edge, each asked directly.
LEMMA OriginSound ==
  ASSUME NEW F, F \subseteq Grave, NEW w, NEW a, IsList(w.a), IsList(w.aaaa), IsList(w.tls.sans), Sound(a, F)
  PROVE Sound(CollectOrigin(w, a), F)
<1> DEFINE candidates == OriginCandidates(w, a)
           one(c) == << IF c.kind = "header" THEN Evidence("ORIGIN_EXPOSURE_CANDIDATE", c.kind, 0, 85)
                                             ELSE Evidence("ORIGIN_EXPOSURE_HINT", c.kind, 0, 60) >>
           two(c) == If(DirectMatch(w, a, c.target), <<Evidence("ORIGIN_DIRECT_MATCH", c.kind, 20, 95)>>)
           part(c) == one(c) \o two(c)
           said == FlattenSeq([i \in DOMAIN candidates |-> part(candidates[i])])
<1>1. IsList(candidates) BY OriginCandidatesAreAList
<1>2. ASSUME NEW c PROVE Free(one(c), Grave) /\ Free(two(c), Grave)
  <2>1. Free(<<Evidence("ORIGIN_EXPOSURE_CANDIDATE", c.kind, 0, 85)>>, Grave) BY Plain, Numbers, ZenonT(60) DEF Grave
  <2>2. Free(<<Evidence("ORIGIN_EXPOSURE_HINT", c.kind, 0, 60)>>, Grave) BY Plain, Numbers, ZenonT(60) DEF Grave
  <2>3. Free(<<Evidence("ORIGIN_DIRECT_MATCH", c.kind, 20, 95)>>, Grave) BY Plain, Numbers, ZenonT(60) DEF Grave
  <2>4. QED BY <2>1, <2>2, <2>3, FreeNone, SMTT(60) DEF If
<1>3. \A c : Free(part(c), Grave)
  <2> HIDE DEF one, two
  <2> QED BY <1>2, FreeJoin
<1>4. Free(said, Grave)
  <2> HIDE DEF part, candidates
  <2> QED BY <1>1, <1>3, FreeEach
<1>5. Sound(Collected(Tested(a, "ORIGIN_EXPOSURE"), said), F)
  <2> HIDE DEF said
  <2> QED BY <1>4, SoundAdding, SoundTested
<1>6. QED BY <1>5 DEF CollectOrigin, EachOf

LEMMA ReferencesAreAList ==
  ASSUME NEW w, NEW a, \A s \in Schemes : IsList(w.web[s].refs) PROVE IsList(References(w, a))
<1> DEFINE schemes == <<"https", "http">>
           refs(s) == If(Completed(a, s), w.web[s].refs)
           all == FlattenSeq([i \in DOMAIN schemes |-> refs(schemes[i])])
           marked == [i \in DOMAIN all |-> [ref |-> all[i], first |-> \A j \in 1..(i - 1) : all[j] # all[i]]]
           keep(x) == If(x.first /\ x.ref.host # w.host, <<x>>)
           foreign == FlattenSeq([i \in DOMAIN marked |-> keep(marked[i])])
<1>1. IsList(all)
  <2>1. \A i \in DOMAIN schemes : schemes[i] \in Schemes BY TwoSchemes DEF Schemes
  <2>2. \A s \in Schemes : IsList(refs(s))
    <3>1. IsList(<<>>) BY DEF IsList
    <3>2. QED BY <3>1 DEF If
  <2>3. IsList(schemes) BY TwoSchemes
  <2> HIDE DEF refs, schemes
  <2>4. QED BY <2>1, <2>2, <2>3, EachIsAList
<1>2. IsList(marked)
  <2> HIDE DEF all
  <2>1. Len(all) \in Nat /\ DOMAIN all = 1..Len(all) BY <1>1, ListDomain
  <2>2. DOMAIN marked = 1..Len(all) /\ marked = [i \in 1..Len(all) |-> marked[i]] BY <2>1
  <2> HIDE DEF marked
  <2>3. QED BY <2>1, <2>2, StretchIsAList
<1>3. IsList(foreign)
  <2>1. \A x : keep(x) \in {<<>>, <<x>>} BY DEF If
  <2> HIDE DEF keep, marked
  <2>2. QED BY <2>1, <1>2, Filtered
<1>4. References(w, a) = [i \in 1..AtMost(MaxWebDependencies, Len(foreign)) |-> foreign[i].ref]
  BY DEF References, EachOf, Those
<1> HIDE DEF foreign
<1>5. AtMost(MaxWebDependencies, Len(foreign)) \in Nat BY <1>3, ListDomain, AtMostIsNat DEF MaxWebDependencies
<1>6. QED BY <1>4, <1>5, StretchIsAList

\* The hosts a page refers to.
LEMMA WebDependenciesSound ==
  ASSUME NEW F, F \subseteq Grave, NEW w, NEW a, \A s \in Schemes : IsList(w.web[s].refs), Sound(a, F)
  PROVE Sound(CollectWebDependencies(w, a), F)
<1> DEFINE refs == References(w, a)
           said == FlattenSeq([i \in DOMAIN refs |-> InspectDependency(w, refs[i])])
<1>1. IsList(refs) BY ReferencesAreAList
<1>2. ASSUME NEW ref PROVE Free(InspectDependency(w, ref), Grave)
  <2>1. \A who : /\ Free(<<Evidence("CSP_DANGLING_DEPENDENCY", who, 20, 90)>>, Grave)
                 /\ Free(<<Evidence("SUBRESOURCE_DANGLING", who, 20, 90)>>, Grave)
                 /\ Free(<<Evidence("DEAD_ASSET_REFERENCE", who, 20, 90)>>, Grave)
                 /\ Free(<<Evidence("DEAD_ASSET_HTTP", who, 0, 90)>>, Grave)
    BY Plain, Numbers, ZenonT(60) DEF Grave
  <2> DEFINE host == w.hosts[ref.host]
             asset == ref.source = "HTML" /\ ref.kind \in AssetKinds
             one == <<Evidence(IF ref.source = "CSP" THEN "CSP_DANGLING_DEPENDENCY" ELSE "SUBRESOURCE_DANGLING", ref.source, 20, 90)>>
             two == If(asset, <<Evidence("DEAD_ASSET_REFERENCE", ref.kind, 20, 90)>>)
             gone == ref.host \in w.allowed /\ host.status = "RESOLVED" /\ asset /\ UnavailableStatus(host.asset)
             three == If(gone, <<Evidence("DEAD_ASSET_HTTP", ref.kind, 0, 90)>>)
  <2>2. Free(one, Grave) BY <2>1, ZenonT(60)
  <2>3. Free(two, Grave)
    <3> HIDE DEF asset
    <3> QED BY <2>1, FreeNone DEF If
  <2>4. Free(three, Grave)
    <3> HIDE DEF gone
    <3> QED BY <2>1, FreeNone DEF If
  <2>5. Free(one \o two, Grave)
    <3> HIDE DEF one, two
    <3> QED BY <2>2, <2>3, FreeJoin
  <2>6. InspectDependency(w, ref) = IF host.service # "" /\ host.status \in Absent THEN one \o two ELSE three
    BY DEF InspectDependency
  <2> HIDE DEF one, two, three, host
  <2>7. QED BY <2>4, <2>5, <2>6
<1>3. Free(said, Grave)
  <2> HIDE DEF refs
  <2> QED BY <1>1, <1>2, FreeEach
<1>4. Sound(Collected(Tested(a, "WEB_DEPENDENCIES"), said), F)
  <2> HIDE DEF said
  <2> QED BY <1>3, SoundAdding, SoundTested
<1>5. QED BY <1>4 DEF CollectWebDependencies, EachOf

LEMMA CookieScopeSound ==
  ASSUME NEW F, F \subseteq Grave, NEW w, NEW a, Sound(a, F) PROVE Sound(CollectCookieScope(w, a), F)
<1>1. Free(<<Evidence("RELATED_DOMAIN_COOKIE_SCOPE", "root", 0, 100)>>, Grave) BY Plain, Numbers, ZenonT(60) DEF Grave
<1>2. QED BY <1>1, SoundAdding, SMTT(60) DEF CollectCookieScope

LEMMA CORSScopeSound ==
  ASSUME NEW F, F \subseteq Grave, NEW w, NEW a, Sound(a, F) PROVE Sound(CollectCORSScope(w, a), F)
<1> DEFINE asked == HasRelatedDomainImpactCandidate(a) /\ w.parent.allowed /\ w.host # w.root
           one == If(asked /\ w.parent.cors = "credentials", <<Evidence("RELATED_DOMAIN_CORS_CREDENTIALS", "root", 0, 90)>>)
           two == If(asked /\ w.parent.cors = "*", <<Evidence("CORS_PUBLIC_WILDCARD_OBSERVED", "root", 0, 100)>>)
<1>1. Free(one, Grave) /\ Free(two, Grave)
  <2> HIDE DEF asked
  <2> QED BY FreeNone, Plain, Numbers, ZenonT(60) DEF If, Grave
<1>2. Sound(Collected(a, one \o two), F)
  <2> HIDE DEF one, two
  <2> QED BY <1>1, FreeJoin, SoundAdding
<1>3. QED BY <1>2 DEF CollectCORSScope

LEMMA SetToSeqIsAList == ASSUME NEW S, IsFiniteSet(S) PROVE SetToSeq(S) \in Seq(S)
<1>1. Cardinality(S) \in Nat BY FS_CardinalityType
<1>2. PICK f \in Bijection(1..Cardinality(S), S) : TRUE BY FS_CardinalityType, FS_NatBijection DEF ExistsBijection
<1>3. f \in [1..Cardinality(S) -> S] /\ IsInjective(f) BY <1>2 DEF Bijection, Injection, IsInjective
<1>4. SetToSeq(S) \in [1..Cardinality(S) -> S] BY <1>3, ZenonT(60) DEF SetToSeq
<1>5. QED BY <1>1, <1>4

\* The providers of earlier observations, and the correlator.
LEMMA ProviderHistorySound ==
  ASSUME NEW F, F \subseteq Grave, NEW w, NEW a, Sound(a, F) PROVE Sound(CollectProviderHistory(w, a), F)
<1> DEFINE old == ProviderHistory(w.previous)
           new == ProviderHistory(a.evidence)
           moved == {v \in HistoryVectors : {} \notin {old[v], new[v]} /\ old[v] # new[v]}
           part(v) == <<Evidence(IF old[v] \cap new[v] # {} THEN "PROVIDER_MIGRATION_STALE_REFERENCE" ELSE "PROVIDER_MIGRATION_DETECTED",
                                 "HISTORY", 0, 90)>>
           list == SetToSeq(moved)
           said == FlattenSeq([i \in DOMAIN list |-> part(list[i])])
<1>1. IsFiniteSet(moved)
  <2>1. IsFiniteSet(HistoryVectors)
    <3>1. \A S, x : IsFiniteSet(S) => IsFiniteSet(S \cup {x}) BY FS_AddElement
    <3>2. IsFiniteSet({"CNAME_PROVIDER_MATCH"}) BY FS_Singleton
    <3>3. IsFiniteSet({"CNAME_PROVIDER_MATCH"} \cup {"MX_PROVIDER_MATCH"}) BY <3>1, <3>2, Zenon
    <3>4. IsFiniteSet(({"CNAME_PROVIDER_MATCH"} \cup {"MX_PROVIDER_MATCH"}) \cup {"SRV_PROVIDER_MATCH"})
      BY <3>1, <3>3, Zenon
    <3>5. IsFiniteSet((({"CNAME_PROVIDER_MATCH"} \cup {"MX_PROVIDER_MATCH"}) \cup {"SRV_PROVIDER_MATCH"})
                        \cup {"TLS_PROVIDER_MATCH"}) BY <3>1, <3>4, Zenon
    <3>6. IsFiniteSet(((({"CNAME_PROVIDER_MATCH"} \cup {"MX_PROVIDER_MATCH"}) \cup {"SRV_PROVIDER_MATCH"})
                        \cup {"TLS_PROVIDER_MATCH"}) \cup {"CLOUD_IP_CONTEXT"}) BY <3>1, <3>5, Zenon
    <3>7. HistoryVectors = ((({"CNAME_PROVIDER_MATCH"} \cup {"MX_PROVIDER_MATCH"}) \cup {"SRV_PROVIDER_MATCH"})
                             \cup {"TLS_PROVIDER_MATCH"}) \cup {"CLOUD_IP_CONTEXT"}
      BY DEF HistoryVectors
    <3>8. QED BY <3>6, <3>7, Zenon
  <2>2. moved \subseteq HistoryVectors OBVIOUS
  <2> HIDE DEF moved
  <2>3. QED BY <2>1, <2>2, FS_Subset
<1>2. IsList(list)
  <2> HIDE DEF moved
  <2> QED BY <1>1, SetToSeqIsAList, ListOfASet
<1>3. ASSUME NEW v PROVE Free(part(v), Grave)
  <2>1. Free(<<Evidence("PROVIDER_MIGRATION_STALE_REFERENCE", "HISTORY", 0, 90)>>, Grave) BY Plain, Numbers, ZenonT(60) DEF Grave
  <2>2. Free(<<Evidence("PROVIDER_MIGRATION_DETECTED", "HISTORY", 0, 90)>>, Grave) BY Plain, Numbers, ZenonT(60) DEF Grave
  <2> HIDE DEF old, new
  <2>3. QED BY <2>1, <2>2, SMTT(60)
<1>4. Free(said, Grave)
  <2> HIDE DEF part, list
  <2> QED BY <1>2, <1>3, FreeEach
<1>5. Sound(Collected(Tested(a, "PROVIDER_HISTORY"), said), F)
  <2> HIDE DEF said
  <2> QED BY <1>4, SoundAdding, SoundTested
<1>6. QED BY <1>5, ZenonT(60) DEF CollectProviderHistory, EachOf

LEMMA StaleCloudIPPlain ==
  ASSUME NEW w, NEW a, IsList(w.a), IsList(w.aaaa) PROVE Free(StaleCloudIP(w, a), Grave)
<1> DEFINE addresses == w.a \o w.aaaa
           keep(ip) == If(ip.public /\ ip.asn # "" /\ Known(ip.signature), <<ip>>)
           told == FlattenSeq([i \in DOMAIN addresses |-> keep(addresses[i])])
           part(ip) == <<Evidence("STALE_CLOUD_IP_CANDIDATE", ip.signature.service, 20, 60)>>
           said == FlattenSeq([i \in DOMAIN told |-> part(told[i])])
           unreachable == /\ \E s \in Schemes : a.http[s].seen
                          /\ \A s \in Schemes : a.http[s].seen => ~a.http[s].complete /\ a.http[s].transport # ""
           stale == (Has(a.evidence, "TLS_MISMATCH") \/ Has(a.evidence, "TLS_EXPIRED")) /\ unreachable
<1>1. IsList(addresses) BY ListJoin
<1>2. \A ip : keep(ip) \in {<<>>, <<ip>>} BY DEF If
<1>3. IsList(told)
  <2> HIDE DEF keep, addresses
  <2> QED BY <1>1, <1>2, Filtered, SMTT(60)
<1>4. \A ip : Free(part(ip), Grave) BY Plain, Numbers, ZenonT(60) DEF Grave
<1>5. Free(said, Grave)
  <2> HIDE DEF part, told
  <2> QED BY <1>3, <1>4, FreeEach
<1>6. StaleCloudIP(w, a) = If(stale, said) BY DEF StaleCloudIP, EachOf, Those
<1> HIDE DEF said, stale
<1>7. QED BY <1>5, <1>6, FreeNone DEF If

LEMMA CorrelateSound ==
  ASSUME NEW F, F \subseteq Grave, NEW w, NEW a, IsList(w.a), IsList(w.aaaa),
         Sound(a, F) PROVE Sound(Correlate(w, a), F)
<1> DEFINE bound == {e \in OfType(a.evidence, "CNAME_PROVIDER_MATCH") :
                       \E match \in OfType(a.evidence, "HTTP_BODY_MATCH") :
                         match.source = e.source /\ match.about = e.about
                           /\ \E t \in OfType(a.evidence, "TLS_PROVIDER_MATCH") : t.source = e.source}
           two == If(bound # {}, <<Evidence("CORRELATED_PROVIDER_CONFIRMATION", (CHOOSE e \in bound : TRUE).source, 100, 95)>>)
<1>1. Free(two, Grave)
  <2> HIDE DEF bound
  <2> QED BY FreeNone, Plain, Numbers, ZenonT(60) DEF If, Grave
<1>2. Free(StaleCloudIP(w, a), Grave) BY StaleCloudIPPlain
<1>3. Sound(Collected(a, StaleCloudIP(w, a) \o two), F)
  <2> HIDE DEF two
  <2> QED BY <1>1, <1>2, FreeJoin, SoundAdding
<1>4. QED BY <1>3 DEF Correlate

-----------------------------------------------------------------------------
(* Walks: a collector repeats a step a bounded number of times.             *)

\* What one more entry, or a stretch of a list, says.
LEMMA FreeAppend ==
  ASSUME NEW F, NEW s, Free(s, F), NEW e, e.type \notin F, Scaled(e) PROVE Free(Append(s, e), F)
<1>1. Free(s \o <<e>>, F) BY FreeOne, FreeJoin
<1>2. Append(s, e) = s \o <<e>> BY DEF Free, IsList
<1>3. QED BY <1>1, <1>2

LEMMA FreeStretch ==
  ASSUME NEW F, NEW n \in Nat, NEW e, e.type \notin F, Scaled(e) PROVE Free([i \in 1..n |-> e], F)
<1> DEFINE s == [i \in 1..n |-> e]
           U == {e}
<1>1. s \in Seq(U) OBVIOUS
<1>2. \A x \in U : x.type \notin F /\ Scaled(x) OBVIOUS
<1> HIDE DEF s, U
<1>3. Free(s, F) BY <1>1, <1>2, FreeOfASet
<1>4. QED BY <1>3 DEF s

\* The walks of the collectors: each repeats a step a bounded number of times.
WalkStep(t, i, m) ==
  CASE t.of = "spf" -> IF m.stack = <<>> THEN m ELSE SPFStep(t.w, m)
    [] t.of = "redirects" -> RedirectStep(t.w, t.scheme, i, m)
    [] OTHER ->
       LET run == Experiment(t.w.raw[t.all[i][1]][t.all[i][2]], m.left)
       IN IF Exhausted(m.left) THEN m
          ELSE [left |-> run.left,
                evidence |-> m.evidence \o ExperimentEvidence(t.all[i][2], t.framing, t.candidates, t.a.http[t.all[i][1]].body, run.seen),
                results |-> Append(m.results, Outcome(run.seen))]

Walks(f, t, start, n) == f = [i \in 0..n |-> IF i = 0 THEN start ELSE WalkStep(t, i, f[i - 1])]

LEMMA WalkNone == ASSUME NEW t, NEW start PROVE \E f : Walks(f, t, start, 0)
<1> DEFINE g == [i \in 0..0 |-> start]
<1>1. g = [i \in 0..0 |-> IF i = 0 THEN start ELSE WalkStep(t, i, g[i - 1])] OBVIOUS
<1>2. QED BY <1>1 DEF Walks

LEMMA WalkMore == ASSUME NEW t, NEW start, NEW n \in Nat, n > 0, NEW f, Walks(f, t, start, n - 1)
                  PROVE \E g : Walks(g, t, start, n)
<1> DEFINE body(h, i) == IF i = 0 THEN start ELSE WalkStep(t, i, h[i - 1])
           g == [i \in 0..n |-> IF i = n THEN body(f, n) ELSE f[i]]
<1>1. \A i \in 0..(n - 1) : f[i] = body(f, i) BY DEF Walks
<1>2. \A i \in 0..(n - 1) : g[i] = f[i] OBVIOUS
<1>3. g[n] = body(f, n) OBVIOUS
<1>4. g = [i \in 0..n |-> g[i]] OBVIOUS
<1>5. \A i \in 0..n : i # 0 => i - 1 \in 0..(n - 1) OBVIOUS
<1> HIDE DEF g
<1>6. \A i \in 0..n : g[i] = body(g, i)
  <2> TAKE i \in 0..n
  <2>1. body(g, i) = body(f, i) BY <1>2, <1>5
  <2> HIDE DEF body
  <2>2. CASE i = n BY <2>1, <2>2, <1>3
  <2>3. CASE i # n
    <3>1. i \in 0..(n - 1) BY <2>3
    <3>2. QED BY <3>1, <2>1, <1>1, <1>2
  <2>4. QED BY <2>2, <2>3
<1>7. g = [i \in 0..n |-> body(g, i)] BY <1>4, <1>6
<1>8. QED BY <1>7 DEF Walks

\* A walk of any length exists, by the argument of the joins.
LEMMA WalksExist == ASSUME NEW t, NEW start PROVE \A n \in Nat : \E f : Walks(f, t, start, n)
<1> DEFINE Missing == {n \in Nat : ~\E f : Walks(f, t, start, n)}
<1>1. SUFFICES ASSUME Missing # {} PROVE FALSE OBVIOUS
<1>2. PICK n \in Missing : \A m \in Missing : ~(m < n)
  <2>1. Missing \subseteq Nat OBVIOUS
  <2> HIDE DEF Missing
  <2>2. QED BY <1>1, <2>1, Least
<1>3. n \in Nat /\ ~\E f : Walks(f, t, start, n) OBVIOUS
<1>4. n # 0 BY <1>3, WalkNone
<1>5. n - 1 \in Nat /\ n - 1 < n /\ n > 0 BY <1>3, <1>4
<1>6. n - 1 \notin Missing BY <1>2, <1>5
<1>7. \E f : Walks(f, t, start, n - 1) BY <1>5, <1>6
<1>8. QED BY <1>3, <1>5, <1>7, WalkMore

\* What every stretch of a walk keeps: nothing in F is said.
Quiet(m, F, of) == "evidence" \in DOMAIN m /\ Free(m.evidence, F) /\ (of = "redirects" => "hops" \in DOMAIN m /\ m.hops \in Nat)

\* A walk is quiet to its end when each of its steps is.
LEMMA WalksAreQuiet ==
  ASSUME NEW F, NEW t, NEW start, NEW n \in Nat, NEW f, Walks(f, t, start, n), Quiet(start, F, t.of),
         \A i \in 1..n : \A m : Quiet(m, F, t.of) => Quiet(WalkStep(t, i, m), F, t.of)
  PROVE Quiet(f[n], F, t.of)
<1> DEFINE Bad == {i \in 0..n : ~Quiet(f[i], F, t.of)}
<1>1. SUFFICES ASSUME Bad # {} PROVE FALSE OBVIOUS
<1>2. PICK k \in Bad : \A m \in Bad : ~(m < k)
  <2>1. Bad \subseteq Nat OBVIOUS
  <2> HIDE DEF Bad
  <2>2. QED BY <1>1, <2>1, Least
<1>3. k \in 0..n /\ ~Quiet(f[k], F, t.of) OBVIOUS
<1>4. f[k] = IF k = 0 THEN start ELSE WalkStep(t, k, f[k - 1]) BY <1>3 DEF Walks
<1>5. k # 0 BY <1>3, <1>4
<1>6. k - 1 \in 0..n /\ k - 1 < k /\ k \in 1..n BY <1>3, <1>5
<1>7. k - 1 \notin Bad BY <1>2, <1>6
<1>8. Quiet(f[k - 1], F, t.of) BY <1>6, <1>7
<1>9. Quiet(WalkStep(t, k, f[k - 1]), F, t.of) BY <1>6, <1>8
<1>10. QED BY <1>3, <1>4, <1>5, <1>9

\* The walk through the includes of an SPF record.
LEMMA SPFStepIsQuiet ==
  ASSUME NEW w, NEW m, Quiet(m, Grave, "spf") PROVE Quiet(SPFStep(w, m), Grave, "spf")
<1> DEFINE top == m.stack[Len(m.stack)]
           below == SubSeq(m.stack, 1, Len(m.stack) - 1)
           rest == Append(below, [top EXCEPT !.terms = Tail(@)])
           term == Head(top.terms)
           next == [m EXCEPT !.lookups = @ + 1, !.stack = rest]
           say(type, weight, confidence) == [next EXCEPT !.evidence = Append(@, Evidence(type, "EmailSecurity", weight, confidence))]
           target == w.spf[term.target]
           said == m.evidence \o If(~m.reported, <<Evidence("SPF_LOOKUP_LIMIT_EXCEEDED", "EmailSecurity", 20, 100)>>)
           over == [m EXCEPT !.stack = below, !.reported = TRUE, !.lookups = @ + 1, !.evidence = said]
           on == [next EXCEPT !.stack = Append(@, [domain |-> term.target, terms |-> target.terms])]
           again == \E i \in DOMAIN m.stack : m.stack[i].domain = term.target
<1>1. SPFStep(w, m) =
        IF top.terms = <<>> THEN [m EXCEPT !.stack = below]
        ELSE IF m.lookups >= MaxSPFLookups THEN over
        ELSE IF term.mechanism \notin {"include", "redirect"} \/ term.target = "" THEN next
        ELSE IF target.status = "NXDOMAIN" THEN say("SPF_BROKEN_INCLUDE", 20, 95)
        ELSE IF target.status = "NO_DATA" \/ (target.status = "RESOLVED" /\ ~target.policy) THEN say("SPF_INCLUDE_WITHOUT_POLICY", 10, 95)
        ELSE IF ~target.policy \/ target.status # "RESOLVED" THEN next
        ELSE IF again THEN say("SPF_INCLUDE_CYCLE", 10, 100)
        ELSE on
  BY DEF SPFStep
<1>2. Quiet([m EXCEPT !.stack = below], Grave, "spf")
  <2> HIDE DEF below
  <2> QED BY DEF Quiet
<1>3. Quiet(next, Grave, "spf")
  <2> HIDE DEF rest
  <2> QED BY DEF Quiet
<1>4. Quiet(over, Grave, "spf")
  <2>1. \A source : Free(<<Evidence("SPF_LOOKUP_LIMIT_EXCEEDED", source, 20, 100)>>, Grave)
    BY Plain, Numbers, ZenonT(60) DEF Grave
  <2>2. Free(If(~m.reported, <<Evidence("SPF_LOOKUP_LIMIT_EXCEEDED", "EmailSecurity", 20, 100)>>), Grave)
    BY <2>1, FreeNone DEF If
  <2>3. Free(said, Grave) BY <2>2, FreeJoin DEF Quiet
  <2> HIDE DEF said, below
  <2>4. QED BY <2>3, SMTT(60) DEF Quiet
<1>5. ASSUME NEW type, type \notin Grave, NEW weight \in Nat, NEW confidence \in 0..100 PROVE Quiet(say(type, weight, confidence), Grave, "spf")
  <2> HIDE DEF next
  <2>1. Evidence(type, "EmailSecurity", weight, confidence).type \notin Grave BY <1>5, Types0
  <2>4. Scaled(Evidence(type, "EmailSecurity", weight, confidence)) BY <1>5, Scales
  <2>2. Free(Append(next.evidence, Evidence(type, "EmailSecurity", weight, confidence)), Grave)
    BY <1>3, <2>1, <2>4, FreeAppend DEF Quiet
  <2>3. QED BY <2>2, <1>3 DEF Quiet
<1>6. Quiet(on, Grave, "spf")
  <2> HIDE DEF next
  <2> QED BY <1>3 DEF Quiet
<1>7. "SPF_BROKEN_INCLUDE" \notin Grave /\ "SPF_INCLUDE_WITHOUT_POLICY" \notin Grave /\ "SPF_INCLUDE_CYCLE" \notin Grave
  BY DEF Grave
<1>8. /\ Quiet(say("SPF_BROKEN_INCLUDE", 20, 95), Grave, "spf")
      /\ Quiet(say("SPF_INCLUDE_WITHOUT_POLICY", 10, 95), Grave, "spf")
      /\ Quiet(say("SPF_INCLUDE_CYCLE", 10, 100), Grave, "spf")
  <2> HIDE DEF say
  <2> QED BY <1>5, <1>7, Numbers
<1> HIDE DEF top, below, rest, term, next, say, target, said, over, on, again
<1>9. QED BY <1>1, <1>2, <1>3, <1>4, <1>6, <1>8

LEMMA SPFWalkIsFree ==
  ASSUME NEW w, NEW root, NEW fuel \in Nat PROVE Free(SPFWalk(w, root, fuel), Grave)
<1> DEFINE t == [of |-> "spf", w |-> w]
           start == [stack |-> <<[domain |-> root, terms |-> w.spf[root].terms]>>, lookups |-> 0, reported |-> FALSE, evidence |-> <<>>]
           c == CHOOSE f : f = [n \in 0..fuel |->
                  IF n = 0 THEN start ELSE LET m == f[n - 1] IN IF m.stack = <<>> THEN m ELSE SPFStep(w, m)]
<1>1. SPFWalk(w, root, fuel) = c[fuel].evidence BY DEF SPFWalk
<1>2. \A i, m : WalkStep(t, i, m) = IF m.stack = <<>> THEN m ELSE SPFStep(w, m) BY DEF WalkStep
<1>3. Quiet(start, Grave, "spf") /\ t.of = "spf" BY FreeNone DEF Quiet
<1> HIDE DEF t, start
<1>4. \E f : Walks(f, t, start, fuel) BY WalksExist
<1>5. \E f : f = [n \in 0..fuel |-> IF n = 0 THEN start ELSE LET m == f[n - 1] IN IF m.stack = <<>> THEN m ELSE SPFStep(w, m)]
  BY <1>2, <1>4 DEF Walks
<1>6. c = [n \in 0..fuel |-> IF n = 0 THEN start ELSE LET m == c[n - 1] IN IF m.stack = <<>> THEN m ELSE SPFStep(w, m)]
  BY <1>5, Zenon
<1> HIDE DEF c
<1>7. Walks(c, t, start, fuel) BY <1>2, <1>6 DEF Walks
<1>8. \A i, m : Quiet(m, Grave, "spf") => Quiet(WalkStep(t, i, m), Grave, "spf")
  <2> TAKE i, m
  <2>1. Quiet(m, Grave, "spf") => Quiet(SPFStep(w, m), Grave, "spf") BY SPFStepIsQuiet
  <2>2. QED BY <1>2, <2>1
<1>9. Quiet(c[fuel], Grave, "spf") BY <1>3, <1>7, <1>8, WalksAreQuiet
<1>10. QED BY <1>1, <1>9 DEF Quiet

LEMMA EmailSound ==
  ASSUME NEW F, F \subseteq Grave, NEW w, NEW a, Sound(a, F) PROVE Sound(CollectEmailSecurity(w, a), F)
<1> DEFINE policy == w.spf[w.root]
           missing == If(w.rootMX, <<Evidence("EMAIL_SPF_MISSING", "EmailSecurity", 0, 100)>>)
           loose == If(policy.permissive, <<Evidence("EMAIL_SPF_PERMISSIVE", "EmailSecurity", 10, 90)>>)
           walk == SPFWalk(w, w.root, 40)
           dmarc == If(w.rootMX /\ w.dmarc # "RESOLVED", <<Evidence("EMAIL_DMARC_MISSING", "EmailSecurity", 0, 95)>>)
           spf == ValidateSPF(w, w.rootMX)
<1>1. Free(missing, Grave) /\ Free(loose, Grave) /\ Free(dmarc, Grave)
  <2>1. \A who : /\ Free(<<Evidence("EMAIL_SPF_MISSING", who, 0, 100)>>, Grave)
                 /\ Free(<<Evidence("EMAIL_SPF_PERMISSIVE", who, 10, 90)>>, Grave)
                 /\ Free(<<Evidence("EMAIL_DMARC_MISSING", who, 0, 95)>>, Grave)
    BY Plain, Numbers, ZenonT(60) DEF Grave
  <2> QED BY <2>1, FreeNone DEF If
<1>2. Free(walk, Grave) BY SPFWalkIsFree
<1>3. spf = IF ~(policy.status = "RESOLVED" /\ policy.policy) THEN missing ELSE loose \o walk BY DEF ValidateSPF
<1>4. Free(spf, Grave)
  <2> HIDE DEF missing, loose, walk, spf
  <2>1. Free(loose \o walk, Grave) BY <1>1, <1>2, FreeJoin
  <2>2. QED BY <1>1, <1>3, <2>1
<1>5. Sound(Collected(Tested(a, "EMAIL"), spf \o dmarc), F)
  <2> HIDE DEF spf, dmarc
  <2> QED BY <1>1, <1>4, FreeJoin, SoundAdding, SoundTested
<1>6. QED BY <1>5 DEF CollectEmailSecurity

LEMMA DestinationIsPlain == ASSUME NEW dns PROVE Destination(dns).type \notin Grave
<1> DEFINE of(stopped, type) == [stopped |-> stopped, type |-> type]
<1>1. /\ of("DESTINATION_NXDOMAIN", "REDIRECT_DESTINATION_NXDOMAIN").type \notin Grave
      /\ of("DESTINATION_NO_DATA", "REDIRECT_DESTINATION_NO_DATA").type \notin Grave
      /\ of("DESTINATION_TIMEOUT", "REDIRECT_DESTINATION_TIMEOUT").type \notin Grave
      /\ of("DESTINATION_SERVFAIL", "REDIRECT_DESTINATION_SERVFAIL").type \notin Grave
      /\ of("DESTINATION_REFUSED", "REDIRECT_DESTINATION_REFUSED").type \notin Grave
      /\ of("DESTINATION_ERROR", "REDIRECT_DESTINATION_ERROR").type \notin Grave
  BY DEF Grave
<1> HIDE DEF of
<1>2. QED BY <1>1 DEF Destination, of

\* The walk along a chain of redirects.
LEMMA RedirectStepIsQuiet ==
  ASSUME NEW w, NEW scheme, NEW index, NEW c, Quiet(c, Grave, "redirects")
  PROVE Quiet(RedirectStep(w, scheme, index, c), Grave, "redirects")
<1> DEFINE site == w.sites[c.at]
           stop(reason) == [c EXCEPT !.stopped = reason, !.hops = @ + 1, !.final = c.at]
           say(chain, type, confidence) == [chain EXCEPT !.evidence = Append(@, Evidence(type, scheme, 0, confidence))]
           next == w.sites[site.location]
           dns == IF next.own THEN "RESOLVED" ELSE next.dns
           gone == [stop(Destination(dns).stopped) EXCEPT !.hops = @ + 1, !.final = site.location]
           on == [c EXCEPT !.hops = @ + 1, !.final = c.at, !.at = site.location, !.seen = @ \cup {c.at}]
           limit == [on EXCEPT !.stopped = "MAX_DEPTH", !.final = site.location]
           unreached == [stop("TRANSPORT_ERROR") EXCEPT !.final = c.final]
           mail == [stop("UNSUPPORTED_PROTOCOL") EXCEPT !.final = "mailto"]
<1>1. RedirectStep(w, scheme, index, c) =
        IF c.stopped # "" THEN c
        ELSE IF c.at \in c.seen THEN [c EXCEPT !.stopped = "REDIRECT_LOOP"]
        ELSE IF site.failed THEN say(unreached, "REDIRECT_DESTINATION_TRANSPORT_ERROR", 100)
        ELSE IF ~RedirectStatus(site.status) \/ site.location = ""
        THEN IF site.match THEN say(stop("DESTINATION_PROVIDER_ERROR"), "REDIRECT_DESTINATION_PROVIDER_ERROR", 95)
             ELSE stop("FINAL_RESPONSE")
        ELSE IF site.location = "invalid" THEN stop("INVALID_LOCATION")
        ELSE IF site.location = "mailto" THEN say(mail, "REDIRECT_UNSUPPORTED_PROTOCOL", 100)
        ELSE IF dns # "RESOLVED" THEN say(gone, Destination(dns).type, 100)
        ELSE IF index = RedirectDepth THEN say(limit, "REDIRECT_DEPTH_LIMIT", 100)
        ELSE on
  BY DEF RedirectStep
<1>2. \A chain, reason, at :
        Quiet(chain, Grave, "redirects") =>
          /\ Quiet([chain EXCEPT !.stopped = reason, !.hops = @ + 1, !.final = at], Grave, "redirects")
          /\ Quiet([chain EXCEPT !.hops = @ + 1, !.final = at], Grave, "redirects")
          /\ Quiet([chain EXCEPT !.stopped = reason, !.final = at], Grave, "redirects")
          /\ Quiet([chain EXCEPT !.final = at], Grave, "redirects")
          /\ Quiet([chain EXCEPT !.stopped = reason], Grave, "redirects")
  BY DEF Quiet
<1>3. \A reason : Quiet(stop(reason), Grave, "redirects") BY <1>2, ZenonT(60)
<1>4. Quiet(unreached, Grave, "redirects") /\ Quiet(mail, Grave, "redirects") /\ Quiet(gone, Grave, "redirects")
  <2> HIDE DEF stop
  <2> QED BY <1>2, <1>3, ZenonT(60)
<1>5. Quiet(on, Grave, "redirects")
  <2> HIDE DEF site
  <2> QED BY DEF Quiet
<1>6. Quiet(limit, Grave, "redirects")
  <2> HIDE DEF on
  <2> QED BY <1>2, <1>5, ZenonT(60)
<1>7. ASSUME NEW chain, Quiet(chain, Grave, "redirects"), NEW type, type \notin Grave, NEW confidence \in 0..100
      PROVE Quiet(say(chain, type, confidence), Grave, "redirects")
  <2>1. Evidence(type, scheme, 0, confidence).type \notin Grave BY <1>7, Types0
  <2>4. Scaled(Evidence(type, scheme, 0, confidence)) BY <1>7, Scales
  <2>2. Free(Append(chain.evidence, Evidence(type, scheme, 0, confidence)), Grave)
    BY <1>7, <2>1, <2>4, FreeAppend DEF Quiet
  <2>3. QED BY <2>2, <1>7 DEF Quiet
<1>8. /\ "REDIRECT_DESTINATION_TRANSPORT_ERROR" \notin Grave /\ "REDIRECT_DESTINATION_PROVIDER_ERROR" \notin Grave
      /\ "REDIRECT_UNSUPPORTED_PROTOCOL" \notin Grave /\ "REDIRECT_DEPTH_LIMIT" \notin Grave
  BY DEF Grave
<1>9. Destination(dns).type \notin Grave BY DestinationIsPlain
<1>10. Quiet([c EXCEPT !.stopped = "REDIRECT_LOOP"], Grave, "redirects") BY <1>2, ZenonT(60)
<1> HIDE DEF site, stop, say, next, dns, gone, on, limit, unreached, mail
<1>11. /\ Quiet(say(unreached, "REDIRECT_DESTINATION_TRANSPORT_ERROR", 100), Grave, "redirects")
       /\ Quiet(say(stop("DESTINATION_PROVIDER_ERROR"), "REDIRECT_DESTINATION_PROVIDER_ERROR", 95), Grave, "redirects")
       /\ Quiet(say(mail, "REDIRECT_UNSUPPORTED_PROTOCOL", 100), Grave, "redirects")
       /\ Quiet(say(gone, Destination(dns).type, 100), Grave, "redirects")
       /\ Quiet(say(limit, "REDIRECT_DEPTH_LIMIT", 100), Grave, "redirects")
  BY <1>3, <1>4, <1>6, <1>7, <1>8, <1>9, Numbers, ZenonT(60)
<1>12. QED BY <1>1, <1>3, <1>5, <1>10, <1>11, ZenonT(60)

LEMMA RedirectChainIsQuiet ==
  ASSUME NEW w, NEW scheme
  PROVE Quiet(RedirectChain(w, scheme), Grave, "redirects") /\ RedirectChain(w, scheme).hops \in Nat
<1> DEFINE t == [of |-> "redirects", w |-> w, scheme |-> scheme]
           start == [at |-> scheme, seen |-> {}, hops |-> 0, stopped |-> "", final |-> scheme, evidence |-> <<>>]
           c == CHOOSE f : f = [i \in 0..RedirectDepth |->
                  IF i = 0 THEN start ELSE LET m == f[i - 1] IN RedirectStep(w, scheme, i, m)]
<1>1. RedirectChain(w, scheme) = c[RedirectDepth] BY DEF RedirectChain
<1>2. \A i, m : WalkStep(t, i, m) = RedirectStep(w, scheme, i, m) BY DEF WalkStep
<1>3. Quiet(start, Grave, "redirects") /\ t.of = "redirects" BY FreeNone DEF Quiet
<1> HIDE DEF t, start
<1>4. \E f : Walks(f, t, start, RedirectDepth) BY WalksExist DEF RedirectDepth
<1>5. \E f : f = [i \in 0..RedirectDepth |-> IF i = 0 THEN start ELSE LET m == f[i - 1] IN RedirectStep(w, scheme, i, m)]
  <2>1. PICK f : Walks(f, t, start, RedirectDepth) BY <1>4
  <2>2. f = [i \in 0..RedirectDepth |-> IF i = 0 THEN start ELSE RedirectStep(w, scheme, i, f[i - 1])]
    BY <1>2, <2>1 DEF Walks
  <2>3. QED BY <2>2, Zenon
<1>6. c = [i \in 0..RedirectDepth |-> IF i = 0 THEN start ELSE LET m == c[i - 1] IN RedirectStep(w, scheme, i, m)]
  BY <1>5, Zenon
<1> HIDE DEF c
<1>7. Walks(c, t, start, RedirectDepth) BY <1>2, <1>6, ZenonT(60) DEF Walks
<1>8. \A i, m : Quiet(m, Grave, "redirects") => Quiet(WalkStep(t, i, m), Grave, "redirects")
  <2> TAKE i, m
  <2>1. Quiet(m, Grave, "redirects") => Quiet(RedirectStep(w, scheme, i, m), Grave, "redirects")
    BY RedirectStepIsQuiet
  <2>2. QED BY <1>2, <2>1
<1>9. Quiet(c[RedirectDepth], Grave, "redirects") BY <1>3, <1>7, <1>8, WalksAreQuiet DEF RedirectDepth
<1>10. QED BY <1>1, <1>9 DEF Quiet

LEMMA RedirectsSound ==
  ASSUME NEW F, F \subseteq Grave, NEW w, NEW a, Sound(a, F) PROVE Sound(CollectRedirects(w, a), F)
<1> DEFINE follows(s) == Completed(a, s) /\ RedirectStatus(a.http[s].status)
           chain(s) == RedirectChain(w, s)
           hops(s) == [i \in 1..chain(s).hops |-> Evidence("HTTP_REDIRECT_HOP", s, 0, 100)]
           part(s) == If(follows(s), chain(s).evidence \o hops(s))
           schemes == <<"http", "https">>
           said == FlattenSeq([i \in DOMAIN schemes |-> part(schemes[i])])
           noted == Collected(Tested(a, "REDIRECT_CHAIN"), said)
           chains == [s \in Schemes |->
                        IF ~follows(s) THEN a.chains[s]
                        ELSE [followed |-> TRUE, hops |-> chain(s).hops, stopped |-> chain(s).stopped, final |-> chain(s).final]]
<1>1. ASSUME NEW s PROVE Free(part(s), Grave)
  <2>1. Free(chain(s).evidence, Grave) /\ chain(s).hops \in Nat BY RedirectChainIsQuiet DEF Quiet
  <2>2. Evidence("HTTP_REDIRECT_HOP", s, 0, 100).type \notin Grave BY Types0 DEF Grave
  <2>5. Scaled(Evidence("HTTP_REDIRECT_HOP", s, 0, 100)) BY Scales, Numbers
  <2>3. Free(hops(s), Grave)
    <3> HIDE DEF chain
    <3> QED BY <2>1, <2>2, <2>5, FreeStretch
  <2> HIDE DEF hops, chain, follows
  <2>4. QED BY <2>1, <2>3, FreeJoin, FreeNone DEF If
<1>2. Free(said, Grave)
  <2>1. IsList(schemes) BY TwoSchemes
  <2> HIDE DEF part, schemes
  <2>2. QED BY <1>1, <2>1, FreeEach
<1>3. Sound(noted, F)
  <2> HIDE DEF said
  <2> QED BY <1>2, SoundAdding, SoundTested
<1>4. Sound([noted EXCEPT !.chains = chains], F)
  <2> HIDE DEF noted, chains
  <2> QED BY <1>3 DEF Sound, Fields
<1>5. QED BY <1>4 DEF CollectRedirects, EachOf

-----------------------------------------------------------------------------
(* A dangling alias.                                                        *)

\* Evidence of these types is only given when it holds: where it is in F,
\* it does not hold.
Borne(types, holds, F) == holds => types \cap F = {}

\* The alias collector says an alias dangles when its end is absent for sure.
LEMMA CNAMESound ==
  ASSUME NEW F, F \subseteq Grave, NEW w, NEW a, IsList(w.aliases), Rated(w.aliases), Sound(a, F),
         Borne({"CNAME_DANGLING"}, Dangles(w), F)
  PROVE Sound(CollectCNAME(w, a), F)
<1> DEFINE keep(n) == If(Known(n.signature), <<n>>)
           known == FlattenSeq([i \in DOMAIN w.aliases |-> keep(w.aliases[i])])
           one(n) == <<About(Evidence("CNAME_PROVIDER_MATCH", n.signature.service, 20, Sure(n.signature.confidence)), n.name)>>
           two(n) == If(n.signature.nx, <<Evidence("NXDOMAIN_EXPECTED", n.signature.service, 0, 100)>>)
           match(n) == one(n) \o two(n)
           matches == FlattenSeq([i \in DOMAIN known |-> match(known[i])])
           missing == w.a = <<>> /\ w.aaaa = <<>>
           trace == <<Evidence("CNAME_CHAIN_TRACE", "DNS", 0, 100)>>
           resolution == CNAMEResolutionEvidence(w.terminal.status, known # <<>>)
           why == If(missing, <<resolution>>)
           state == If(missing /\ w.terminal.state # "DISABLED", <<Evidence("DNS_CONSENSUS_STATE", "DNS", 0, 100)>>)
           links == [i \in DOMAIN known |-> Link(known[i].signature.service, "CNAME", known[i].name)]
<1>1. IsList(known) /\ ToSet(known) \subseteq {n \in ToSet(w.aliases) : Known(n.signature)}
  <2> DEFINE S == {n \in ToSet(w.aliases) : Known(n.signature)}
  <2>1. \A i \in DOMAIN w.aliases : w.aliases[i] \in ToSet(w.aliases) BY DEF ToSet
  <2>2. ASSUME NEW i \in DOMAIN w.aliases PROVE keep(w.aliases[i]) \in Seq(S)
    <3>1. <<>> \in Seq(S) OBVIOUS
    <3>2. CASE Known(w.aliases[i].signature)
      <4>1. w.aliases[i] \in S BY <2>1, <3>2
      <4> HIDE DEF S
      <4>2. <<w.aliases[i]>> \in Seq(S) BY <4>1
      <4>3. QED BY <3>2, <4>2 DEF If
    <3>3. CASE ~Known(w.aliases[i].signature) BY <3>1, <3>3 DEF If
    <3>4. QED BY <3>2, <3>3
  <2> HIDE DEF keep, S
  <2>3. known \in Seq(S) BY <2>2, EachInSet
  <2> HIDE DEF known
  <2>4. IsList(known) /\ ToSet(known) \subseteq S BY <2>3, ListOfASet
  <2>5. QED BY <2>4 DEF S
<1>2. ASSUME NEW i \in DOMAIN known PROVE Free(match(known[i]), Grave)
  <2> HIDE DEF known
  <2>1. Rated(known) BY <1>1, ZenonT(60) DEF Rated, ToSet
  <2>2. Sure(known[i].signature.confidence) \in 0..100 BY <2>1, SureIsAPercentage, ZenonT(60) DEF Rated
  <2>3. "CNAME_PROVIDER_MATCH" \notin Grave BY DEF Grave
  <2>4. Free(one(known[i]), Grave) BY <2>2, <2>3, PlainAbout, Numbers
  <2>5. \A n : Free(two(n), Grave) BY FreeNone, Plain, Numbers, ZenonT(60) DEF If, Grave
  <2> HIDE DEF one, two
  <2>6. QED BY <2>4, <2>5, FreeJoin, SMTT(60)
<1>3. Free(matches, Grave)
  <2> HIDE DEF match, known
  <2> QED BY <1>1, <1>2, FreeEach
<1>4. Free(trace, Grave) /\ Free(state, Grave)
  <2>1. \A who : Free(<<Evidence("CNAME_CHAIN_TRACE", who, 0, 100)>>, Grave) /\ Free(<<Evidence("DNS_CONSENSUS_STATE", who, 0, 100)>>, Grave)
    BY Plain, Numbers, ZenonT(60) DEF Grave
  <2> HIDE DEF missing
  <2>2. QED BY <2>1, FreeNone, SMTT(60) DEF If
<1>5. w.terminal.status \in Absent /\ known # <<>> => Dangles(w)
  <2> HAVE w.terminal.status \in Absent /\ known # <<>>
  <2>1. ToSet(known) # {}
    <3> HIDE DEF known
    <3> QED BY <1>1 DEF IsList, ToSet
  <2>2. PICK i \in DOMAIN w.aliases : Known(w.aliases[i].signature) BY <1>1, <2>1 DEF ToSet
  <2>3. QED BY <2>2 DEF Dangles, Absent
<1>6. resolution.type \notin F
  <2> DEFINE absent == w.terminal.status \in Absent
             some == known # <<>>
  <2>1. resolution.type = IF absent THEN IF some THEN "CNAME_DANGLING" ELSE IF w.terminal.status = "NXDOMAIN" THEN "CNAME_NXDOMAIN"
                                    ELSE "CNAME_UNRESOLVABLE"
                          ELSE "CNAME_RESOLUTION_INCONCLUSIVE"
    <3> HIDE DEF known
    <3> QED BY DEF CNAMEResolutionEvidence, Evidence
  <2>2. absent /\ some => "CNAME_DANGLING" \notin F BY <1>5 DEF Borne
  <2> HIDE DEF absent, some
  <2>3. "CNAME_NXDOMAIN" \notin F /\ "CNAME_UNRESOLVABLE" \notin F /\ "CNAME_RESOLUTION_INCONCLUSIVE" \notin F
    BY DEF Grave
  <2>4. QED BY <2>1, <2>2, <2>3
<1>7. Free(why, F)
  <2>1. Scaled(resolution) BY Scales, Numbers, ZenonT(60) DEF CNAMEResolutionEvidence
  <2> HIDE DEF resolution, missing
  <2> QED BY <1>6, <2>1, FreeOne, FreeNone DEF If
<1>8. Sound(Linked(Collected(Tested(a, "DNS"), matches \o (trace \o why \o state)), links), F)
  <2> HIDE DEF matches, trace, why, state, links
  <2>1. Free(matches, F) /\ Free(trace, F) /\ Free(state, F) BY <1>3, <1>4 DEF Free
  <2>2. Free(matches \o (trace \o why \o state), F) BY <1>7, <2>1, FreeJoin
  <2> HIDE DEF Free
  <2>3. QED BY <2>2, SoundCollected, SoundTested, SoundLinked
<1>9. Sound(Tested(a, "DNS"), F) BY SoundTested
<1>10. CollectCNAME(w, a) = IF w.aliases = <<>> THEN Tested(a, "DNS")
                            ELSE Linked(Collected(Tested(a, "DNS"), matches \o (trace \o why \o state)), links)
  BY DEF CollectCNAME, Those, EachOf
<1> HIDE DEF matches, trace, why, state, links
<1>11. QED BY <1>8, <1>9, <1>10

-----------------------------------------------------------------------------
(* A fingerprint on the page.                                               *)

LEMMA FreeTwo ==
  ASSUME NEW F, NEW d, d.type \notin F, Scaled(d), NEW e, e.type \notin F, Scaled(e) PROVE Free(<<d, e>>, F)
<1> DEFINE U == {d, e}
<1>1. <<d, e>> \in Seq(U) OBVIOUS
<1>2. \A x \in U : x.type \notin F /\ Scaled(x) OBVIOUS
<1> HIDE DEF U
<1>3. QED BY <1>1, <1>2, FreeOfASet

LEMMA ShownPlainly ==
  ASSUME NEW w, NEW i \in DOMAIN w.aliases, NEW s \in Schemes, Specific(w.aliases[i].signature), w.web[s].complete,
         w.web[s].body = w.aliases[i].signature.body, w.aliases[i].signature.status \in {0, w.web[s].status}
  PROVE ShowsMissingResource(w)
  BY DEF ShowsMissingResource, ShownOnPage, Shows

LEMMA KindIsPlain == ASSUME NEW status, NEW edge PROVE ResponseKind(status, edge) \notin Grave
<1>1. ResponseKind(status, edge) \in
        {"EDGE_RESPONSE", "RESOURCE_NOT_AVAILABLE", "APPLICATION_RESPONSE", "REDIRECT_RESPONSE", "ACCESS_RESPONSE",
         "ERROR_RESPONSE",
         "OTHER_RESPONSE"}
  <2> DEFINE one == edge = "" /\ UnavailableStatus(status)
             two == edge = "" /\ status \in 200..299
             three == edge = "" /\ status \in 300..399
             four == edge = "" /\ status \in {401, 403, 429}
             five == edge = "" /\ status >= 500
  <2>1. ResponseKind(status, edge) =
          CASE edge # "" -> "EDGE_RESPONSE"
            [] one -> "RESOURCE_NOT_AVAILABLE"
            [] two -> "APPLICATION_RESPONSE"
            [] three -> "REDIRECT_RESPONSE"
            [] four -> "ACCESS_RESPONSE"
            [] five -> "ERROR_RESPONSE"
            [] OTHER -> "OTHER_RESPONSE"
    BY DEF ResponseKind
  <2> HIDE DEF one, two, three, four, five
  <2>2. QED BY <2>1
<1>2. QED BY <1>1 DEF Grave

\* A fingerprint that matched is specific, and shown by the page.
LEMMA MatchedFit ==
  ASSUME NEW w, NEW body, IsList(w.aliases)
  PROVE /\ IsList(MatchedSignatures(w, body))
        /\ \A m \in ToSet(MatchedSignatures(w, body)) :
             /\ \E i \in DOMAIN w.aliases : w.aliases[i] = m
             /\ Known(m.signature) /\ m.signature.body # "" /\ m.signature.body = body
<1> DEFINE fits(n) == Known(n.signature) /\ n.signature.body # "" /\ n.signature.body = body
           newly(i) == \A j \in 1..(i - 1) : w.aliases[j].signature # w.aliases[i].signature
           S == {n \in ToSet(w.aliases) : fits(n)}
           part(i) == If(fits(w.aliases[i]) /\ newly(i), <<w.aliases[i]>>)
           parts == [i \in DOMAIN w.aliases |-> part(i)]
<1>1. \A i \in DOMAIN w.aliases : w.aliases[i] \in ToSet(w.aliases) BY DEF ToSet
<1>2. ASSUME NEW i \in DOMAIN w.aliases PROVE part(i) \in Seq(S)
  <2>1. <<>> \in Seq(S) OBVIOUS
  <2>2. CASE fits(w.aliases[i]) /\ newly(i)
    <3>1. w.aliases[i] \in S BY <1>1, <2>2
    <3> HIDE DEF S
    <3>2. <<w.aliases[i]>> \in Seq(S) BY <3>1
    <3> HIDE DEF fits, newly
    <3>3. QED BY <2>2, <3>2 DEF If
  <2>3. CASE ~(fits(w.aliases[i]) /\ newly(i))
    <3> HIDE DEF S, fits, newly
    <3>1. QED BY <2>1, <2>3 DEF If
  <2>4. QED BY <2>2, <2>3
<1>3. MatchedSignatures(w, body) = FlattenSeq(parts) BY DEF MatchedSignatures
<1>4. \A i \in DOMAIN w.aliases : parts[i] = part(i) OBVIOUS
<1>5. parts = [i \in DOMAIN w.aliases |-> parts[i]] OBVIOUS
<1> HIDE DEF parts, part, S
<1>6. FlattenSeq(parts) \in Seq(S) BY <1>2, <1>4, <1>5, EachInSet, ZenonT(60)
<1>7. IsList(MatchedSignatures(w, body)) /\ ToSet(MatchedSignatures(w, body)) \subseteq S BY <1>3, <1>6, ListOfASet
<1>8. QED BY <1>7 DEF S, ToSet

LEMMA HTTPEvidenceIsFree ==
  ASSUME NEW F, F \subseteq Grave, NEW w, IsList(w.aliases), NEW s \in Schemes,
         Borne({"HTTP_BODY_MATCH", "HTTP_MUTATION_REVEALED_PROVIDER_FINGERPRINT"}, ShowsMissingResource(w), F)
  PROVE Free(HTTPEvidence(w, s, w.web[s]), F)
<1>0. ASSUME NEW body, NEW x \in ToSet(MatchedSignatures(w, body))
      PROVE /\ \E j \in DOMAIN w.aliases : w.aliases[j] = x
            /\ Known(x.signature) /\ x.signature.body # "" /\ x.signature.body = body
  <2> DEFINE list == MatchedSignatures(w, body)
             fit(m) == /\ \E j \in DOMAIN w.aliases : w.aliases[j] = m
                       /\ Known(m.signature) /\ m.signature.body # "" /\ m.signature.body = body
  <2>1. \A m \in ToSet(list) : fit(m) BY MatchedFit
  <2>2. x \in ToSet(list) OBVIOUS
  <2> HIDE DEF list, fit
  <2>3. fit(x) BY <2>1, <2>2
  <2> QED BY <2>3 DEF fit
<1> DEFINE reply == w.web[s]
           o == NewHTTPObservation(reply)
           matches == IF o.complete THEN MatchedSignatures(w, o.body) ELSE <<>>
           one == If(reply.cdn # "", <<Mitigation("CDN_DETECTED", s, 50, 0)>>)
           two == <<[Evidence("HTTP_RESPONSE", s, 0, 0) EXCEPT !.status = o.status], Evidence(o.kind, s, 0, 95)>>
           three == If(o.status = 404, <<Evidence("HTTP_STATUS_404", s, 0, 100)>>)
           four == If(o.status \in {401, 403}, <<Mitigation("HTTP_AUTH_REQUIRED", s, 30, 0)>>)
           part(m) == <<BodyMatch(m.signature, m.name, o.status)>>
           five == FlattenSeq([i \in DOMAIN matches |-> part(matches[i])])
           six == If(o.complete /\ o.status = 200 /\ matches = <<>>, <<Evidence("HTTP_OK_ACTIVE", s, 0, 0)>>)
<1>1. HTTPEvidence(w, s, reply) = IF o.transport # "" THEN <<>> ELSE one \o two \o three \o four \o five \o six
  BY DEF HTTPEvidence, EachOf
<1>2. CASE o.transport # "" BY <1>1, <1>2, FreeNone
<1>3. CASE o.transport = ""
  <2>1. reply.transport = "" BY <1>3 DEF NewHTTPObservation, Unobserved
  <2>2. o.complete = reply.complete /\ o.status = reply.status /\ o.body = reply.body /\ o.kind = ResponseKind(reply.status, reply.edge)
    BY <2>1, ZenonT(60) DEF NewHTTPObservation, Unobserved
  <2>3. Free(one, Grave) /\ Free(three, Grave) /\ Free(four, Grave) /\ Free(six, Grave)
    <3>1. /\ Free(<<Mitigation("CDN_DETECTED", s, 50, 0)>>, Grave)
          /\ Free(<<Mitigation("HTTP_AUTH_REQUIRED", s, 30, 0)>>, Grave)
          /\ Free(<<Evidence("HTTP_STATUS_404", s, 0, 100)>>, Grave)
          /\ Free(<<Evidence("HTTP_OK_ACTIVE", s, 0, 0)>>, Grave)
      BY Plain, Numbers, ZenonT(60) DEF Grave
    <3>2. Free(<<>>, Grave) BY FreeNone
    <3> HIDE DEF o, matches, reply
    <3>3. QED BY <3>1, <3>2, ZenonT(60) DEF If
  <2>4. Free(two, Grave)
    <3> DEFINE said == [Evidence("HTTP_RESPONSE", s, 0, 0) EXCEPT !.status = o.status]
               kind == Evidence(o.kind, s, 0, 95)
    <3>1. said.type = "HTTP_RESPONSE" /\ Scaled(said)
      <4> HIDE DEF o
      <4> QED BY Numbers DEF Evidence, Scaled
    <3>2. "HTTP_RESPONSE" \notin Grave BY DEF Grave
    <3>3. kind.type \notin Grave /\ Scaled(kind)
      <4>1. o.kind \notin Grave BY <2>2, KindIsPlain
      <4> HIDE DEF o
      <4> QED BY <4>1, Types0, Scales, Numbers
    <3> HIDE DEF said, kind
    <3>4. Free(<<said, kind>>, Grave) BY <3>1, <3>2, <3>3, FreeTwo
    <3>5. QED BY <3>4 DEF said, kind
  <2>5. IsList(matches)
    <3>1. IsList(<<>>) BY DEF IsList
    <3>2. IsList(MatchedSignatures(w, o.body)) BY MatchedFit
    <3>3. QED BY <3>1, <3>2
  <2>6. ASSUME NEW i \in DOMAIN matches PROVE Free(part(matches[i]), F)
    <3> DEFINE m == matches[i]
               told == BodyMatch(m.signature, m.name, o.status)
    <3>1. o.complete /\ m \in ToSet(MatchedSignatures(w, o.body)) BY DEF ToSet
    <3>2. /\ \E j \in DOMAIN w.aliases : w.aliases[j] = m
          /\ Known(m.signature) /\ m.signature.body # "" /\ m.signature.body = o.body
      <4> HIDE DEF m, o
      <4>1. \A x \in ToSet(MatchedSignatures(w, o.body)) :
              /\ \E j \in DOMAIN w.aliases : w.aliases[j] = x
              /\ Known(x.signature) /\ x.signature.body # "" /\ x.signature.body = o.body
        BY <1>0
      <4>2. QED BY <3>1, <4>1
    <3> HIDE DEF m, matches
    <3>3. told.type = IF EligibleTakeoverFingerprint(m.signature, o.status) THEN "HTTP_BODY_MATCH" ELSE "HTTP_FINGERPRINT_REVIEW"
      <4> HIDE DEF o
      <4> QED BY DEF BodyMatch, Evidence, About
    <3>9. Scaled(told)
      <4> HIDE DEF o
      <4> QED BY Numbers DEF BodyMatch, Evidence, About, Scaled
    <3>4. EligibleTakeoverFingerprint(m.signature, o.status) => "HTTP_BODY_MATCH" \notin F
      <4> HAVE EligibleTakeoverFingerprint(m.signature, o.status)
      <4>1. m.signature.vulnerable /\ m.signature.specific /\ m.signature.status \in {0, reply.status}
        <5> HIDE DEF o
        <5> QED BY <2>2 DEF EligibleTakeoverFingerprint
      <4>2. Specific(m.signature)
        <5> HIDE DEF o
        <5> QED BY <3>2, <4>1 DEF Specific
      <4>3. w.web[s].complete /\ w.web[s].body = m.signature.body
        <5> HIDE DEF o
        <5> QED BY <2>2, <3>1, <3>2
      <4>4. ShowsMissingResource(w)
        <5> HIDE DEF o
        <5>1. PICK j \in DOMAIN w.aliases : w.aliases[j] = m BY <3>2
        <5>2. QED BY <4>1, <4>2, <4>3, <5>1, ShownPlainly
      <4>5. QED BY <4>4 DEF Borne
    <3>5. "HTTP_FINGERPRINT_REVIEW" \notin F BY DEF Grave
    <3> HIDE DEF told, o
    <3>6. told.type \notin F BY <3>3, <3>4, <3>5
    <3>7. Free(<<told>>, F) BY <3>6, <3>9, FreeOne
    <3>8. QED BY <3>7 DEF told, m
  <2>7. Free(five, F)
    <3> HIDE DEF part, matches
    <3> QED BY <2>5, <2>6, FreeEach
  <2> HIDE DEF one, two, three, four, five, six, o
  <2>8. Free(one, F) /\ Free(two, F) /\ Free(three, F) /\ Free(four, F) /\ Free(six, F) BY <2>3, <2>4 DEF Free
  <2>9. Free(one \o two \o three \o four \o five \o six, F) BY <2>7, <2>8, FreeJoin
  <2>10. QED BY <1>1, <1>3, <2>9
<1>4. QED BY <1>2, <1>3

\* The page collector says a body matches when the page shows it.
LEMMA HTTPSound ==
  ASSUME NEW F, F \subseteq Grave, NEW w, NEW a, IsList(w.aliases), Sound(a, F),
         Borne({"HTTP_BODY_MATCH", "HTTP_MUTATION_REVEALED_PROVIDER_FINGERPRINT"}, ShowsMissingResource(w), F)
  PROVE Sound(CollectHTTP(w, a), F)
<1> DEFINE schemes == <<"http", "https">>
           part(s) == HTTPEvidence(w, s, w.web[s])
           said == FlattenSeq([i \in DOMAIN schemes |-> part(schemes[i])])
           noted == Collected(Tested(a, "HTTP"), said)
           http == [s \in Schemes |-> NewHTTPObservation(w.web[s])]
           edges == Those([i \in 1..2 |-> w.web[schemes[i]].cdn], LAMBDA name : name # "")
           cdn == IF edges = <<>> THEN "" ELSE edges[Len(edges)]
<1>1. \A i \in DOMAIN schemes : Free(part(schemes[i]), F)
  <2>1. \A s \in Schemes : Free(part(s), F) BY HTTPEvidenceIsFree
  <2>2. \A i \in DOMAIN schemes : schemes[i] \in Schemes BY TwoSchemes DEF Schemes
  <2> HIDE DEF part, schemes
  <2>3. QED BY <2>1, <2>2
<1>2. Free(said, F)
  <2>1. IsList(schemes) BY TwoSchemes
  <2> HIDE DEF part, schemes
  <2>2. QED BY <1>1, <2>1, FreeEach
<1>3. Sound(noted, F) /\ Sound(Tested(a, "HTTP"), F)
  <2> HIDE DEF said
  <2> QED BY <1>2, SoundCollected, SoundTested
<1>4. Sound([noted EXCEPT !.http = http, !.cdn = cdn], F)
  <2> HIDE DEF noted, http, cdn
  <2> QED BY <1>3 DEF Sound, Fields
<1>5. CollectHTTP(w, a) = IF ~ShouldProbeHTTP(w) THEN Tested(a, "HTTP") ELSE [noted EXCEPT !.http = http, !.cdn = cdn]
  BY DEF CollectHTTP, EachOf
<1> HIDE DEF noted, http, cdn
<1>6. QED BY <1>3, <1>4, <1>5

-----------------------------------------------------------------------------
(* A fingerprint an altered request reveals.                                *)

LEMMA DifferentialIsUsable ==
  ASSUME NEW seen, Outcome(seen) = "DIFFERENTIAL" PROVE \A i \in 1..4 : UsableRawObservation(seen[i])
<1> DEFINE one == \E i \in 1..4 : ~UsableRawObservation(seen[i])
           two == (\A i \in 1..4 : UsableRawObservation(seen[i])) /\ (\E i \in 1..4 : seen[i].status = 400)
           three == /\ MutationResponsesEquivalent(seen[1], seen[4]) /\ MutationResponsesEquivalent(seen[2], seen[3])
                    /\ ~MutationResponsesEquivalent(seen[1], seen[2]) /\ \A i \in 1..4 : seen[i].status # 400
<1>1. Outcome(seen) = CASE one -> "TRANSPORT_FAILURE" [] two -> "REJECTED" [] three -> "DIFFERENTIAL" [] OTHER -> "NO_DIFFERENCE"
  BY DEF Outcome
<1>2. two => ~one OBVIOUS
<1>3. three => ~one
  <2> HAVE three
  <2>1. UsableRawObservation(seen[1]) /\ UsableRawObservation(seen[2]) /\ UsableRawObservation(seen[3]) /\ UsableRawObservation(seen[4])
    BY DEF MutationResponsesEquivalent
  <2>2. \A i \in 1..4 : i = 1 \/ i = 2 \/ i = 3 \/ i = 4 OBVIOUS
  <2>3. QED BY <2>1, <2>2
<1>4. ~one
  <2> HIDE DEF one, two, three
  <2> QED BY <1>1, <1>2, <1>3
<1>5. QED BY <1>4

\* A usable reply of an experiment is one the host gave, read to its end.
LEMMA UsableIsGiven ==
  ASSUME NEW replies, NEW left, NEW seen, seen = Experiment(replies, left).seen, NEW i \in 1..4,
         UsableRawObservation(seen[i])
  PROVE seen[i] = RawObservation(replies[i]) /\ seen[i].complete
<1> DEFINE r == replies[i]
           o == seen[i]
           spent(j) == Cardinality({k \in 1..j : RawObservation(replies[k]).timedOut})
           over == Exhausted(left - AtMost(left, spent(i - 1)))
<1>1. o = IF over THEN Unsent ELSE RawObservation(r) BY DEF Experiment
<1>2. o.complete BY DEF UsableRawObservation
<1>3. ~over
  <2> HIDE DEF over, o
  <2> QED BY <1>1, <1>2 DEF Unsent
<1>4. o = RawObservation(r)
  <2> HIDE DEF over, o
  <2> QED BY <1>1, <1>3
<1>5. QED BY <1>2, <1>4

\* An experiment whose replies agree is shown by the probe.
LEMMA WholeReply ==
  ASSUME NEW r, NEW o, o = RawObservation(r), o.complete
  PROVE /\ r.part = "body" /\ o.status = r.status
        /\ o.body = IF ~ResponseHasNoBody(r.status) THEN r.body ELSE ""
<1>1. r.part = "body" /\ o.status = r.status BY DEF RawObservation
<1>2. o.body = IF ~ResponseHasNoBody(r.status) THEN r.body ELSE "" BY <1>1, ZenonT(60) DEF RawObservation
<1>3. QED BY <1>1, <1>2

LEMMA ProbeShows ==
  ASSUME NEW w, NEW n \in DOMAIN w.aliases, NEW s \in Schemes, NEW p \in DOMAIN w.raw[s], NEW signature, NEW replies,
         signature = w.aliases[n].signature, replies = w.raw[s][p], Specific(signature),
         \A i \in 1..4 : replies[i].part = "body",
         \A i \in {2, 3} : /\ ~ResponseHasNoBody(replies[i].status)
                           /\ replies[i].body = signature.body /\ signature.status \in {0, replies[i].status},
         \A i \in {1, 4} : ResponseHasNoBody(replies[i].status) \/ replies[i].body # signature.body
  PROVE ShowsMissingResource(w)
<1>1. ShownByProbe(replies, signature) BY ZenonT(60) DEF ShownByProbe, Shows
<1>2. \E q \in DOMAIN w.raw[s] : ShownByProbe(w.raw[s][q], w.aliases[n].signature) BY <1>1, ZenonT(60)
<1>3. QED BY <1>2, ZenonT(60) DEF ShowsMissingResource

\* The fingerprints that are confirmed come from the candidates.
LEMMA FingerprintsFit ==
  ASSUME NEW candidates, IsList(candidates), NEW seen, Fingerprints(candidates, seen, TRUE) # <<>>
  PROVE LET c == Fingerprints(candidates, seen, TRUE)[1]
        IN /\ c \in ToSet(candidates) /\ c.signature.body # ""
           /\ \A i \in {2,
                        3} : seen[i].body = c.signature.body /\ EligibleTakeoverFingerprint(c.signature, seen[i].status)
<1> DEFINE test(c) == /\ c.signature.body # "" /\ seen[2].body = c.signature.body /\ seen[3].body = c.signature.body
                      /\ TRUE = (/\ EligibleTakeoverFingerprint(c.signature, seen[2].status)
                                 /\ EligibleTakeoverFingerprint(c.signature, seen[3].status))
           S == {c \in ToSet(candidates) : test(c)}
           part(c) == If(test(c), <<c>>)
           parts == [i \in DOMAIN candidates |-> part(candidates[i])]
           told == Fingerprints(candidates, seen, TRUE)
<1>1. told = FlattenSeq(parts) BY DEF Fingerprints, Those, EachOf
<1>2. ASSUME NEW i \in DOMAIN candidates PROVE part(candidates[i]) \in Seq(S)
  <2>1. candidates[i] \in ToSet(candidates) BY DEF ToSet
  <2>2. CASE test(candidates[i])
    <3>1. candidates[i] \in S BY <2>1, <2>2
    <3> HIDE DEF S, test
    <3>2. <<candidates[i]>> \in Seq(S) BY <3>1
    <3>3. QED BY <2>2, <3>2 DEF If
  <2>3. CASE ~test(candidates[i])
    <3> HIDE DEF S, test
    <3>1. <<>> \in Seq(S) OBVIOUS
    <3>2. QED BY <2>3, <3>1 DEF If
  <2>4. QED BY <2>2, <2>3
<1>3. \A i \in DOMAIN candidates : parts[i] = part(candidates[i]) OBVIOUS
<1>4. parts = [i \in DOMAIN candidates |-> parts[i]] OBVIOUS
<1>5. told \in Seq(S)
  <2> HIDE DEF parts, part, S, told
  <2> QED BY <1>1, <1>2, <1>3, <1>4, EachInSet
<1>6. told[1] \in S
  <2> HIDE DEF S, told
  <2>1. told # <<>> BY DEF told
  <2> QED BY <1>5, <2>1
<1>7. told[1] \in ToSet(candidates) /\ test(told[1])
  <2> HIDE DEF told, test
  <2> QED BY <1>6
<1> HIDE DEF told
<1>8. EligibleTakeoverFingerprint(told[1].signature, seen[2].status) /\ EligibleTakeoverFingerprint(told[1].signature, seen[3].status)
  BY <1>7 DEF EligibleTakeoverFingerprint
<1>9. QED BY <1>7, <1>8 DEF told

Shown == {"HTTP_BODY_MATCH", "HTTP_MUTATION_REVEALED_PROVIDER_FINGERPRINT"}

\* What an experiment reveals is shown by a probe of the host.
LEMMA RevealedIsFree ==
  ASSUME NEW F, F \subseteq Grave, NEW w, Borne(Shown, ShowsMissingResource(w), F),
         NEW s \in Schemes, NEW p \in DOMAIN w.raw[s], NEW left, NEW candidates, IsList(candidates),
         \A c \in ToSet(candidates) : Known(c.signature) /\ \E n \in DOMAIN w.aliases : w.aliases[n] = c,
         NEW seen, seen = Experiment(w.raw[s][p], left).seen, Outcome(seen) = "DIFFERENTIAL",
         ~BodyMatchesCandidate(candidates, seen[1].body), ~BodyMatchesCandidate(candidates, seen[4].body)
  PROVE Free(Revealed(candidates, seen), F)
<1> DEFINE given == w.raw[s][p]
           confirmed == Fingerprints(candidates, seen, TRUE)
           review == Fingerprints(candidates, seen, FALSE)
           told == [About(Evidence("HTTP_MUTATION_REVEALED_PROVIDER_FINGERPRINT", confirmed[1].signature.service, 50, 90),
                          confirmed[1].name) EXCEPT !.firm = TRUE]
           other == Evidence("HTTP_MUTATION_FINGERPRINT_REVIEW", review[1].signature.service, 0, 40)
<1>1. Revealed(candidates, seen) = IF confirmed # <<>> THEN <<told>> ELSE If(review # <<>>, <<other>>) BY DEF Revealed
<1>2. Free(If(review # <<>>, <<other>>), F)
  <2> HIDE DEF review
  <2>1. other.type \notin F BY Types0 DEF Grave
  <2>3. Scaled(other) BY Scales
  <2> HIDE DEF other
  <2>2. QED BY <2>1, <2>3, FreeOne, FreeNone DEF If
<1>3. confirmed # <<>> => ShowsMissingResource(w)
  <2> HAVE confirmed # <<>>
  <2> DEFINE c == confirmed[1]
  <2>1. /\ c \in ToSet(candidates) /\ c.signature.body # ""
        /\ \A i \in {2,
                     3} : seen[i].body = c.signature.body /\ EligibleTakeoverFingerprint(c.signature, seen[i].status)
    BY FingerprintsFit, ZenonT(60)
  <2> HIDE DEF c, confirmed
  <2>2. PICK n \in DOMAIN w.aliases : w.aliases[n] = c BY <2>1, ZenonT(60)
  <2>3. Known(c.signature) BY <2>1, ZenonT(60)
  <2>4. \A i \in 1..4 : UsableRawObservation(seen[i]) BY DifferentialIsUsable
  <2>5. ASSUME NEW i \in 1..4
        PROVE /\ given[i].part = "body" /\ seen[i].status = given[i].status
              /\ seen[i].body = IF ~ResponseHasNoBody(given[i].status) THEN given[i].body ELSE ""
    <3>1. UsableRawObservation(seen[i]) BY <2>4
    <3>2. seen = Experiment(given, left).seen OBVIOUS
    <3> HIDE DEF given
    <3>3. seen[i] = RawObservation(given[i]) /\ seen[i].complete BY <3>1, <3>2, UsableIsGiven
    <3> DEFINE one == given[i]
               it == seen[i]
    <3> HIDE DEF one, it
    <3>4. it = RawObservation(one) /\ it.complete BY <3>3 DEF one, it
    <3>5. /\ one.part = "body" /\ it.status = one.status
          /\ it.body = IF ~ResponseHasNoBody(one.status) THEN one.body ELSE ""
      BY <3>4, WholeReply, ZenonT(60)
    <3>6. QED BY <3>5, ZenonT(60) DEF one, it
  <2>6. Specific(c.signature) BY <2>1, <2>3, ZenonT(60) DEF Specific, EligibleTakeoverFingerprint
  <2> HIDE DEF given
  <2>7. \A i \in {2, 3} : /\ ~ResponseHasNoBody(given[i].status)
                          /\ given[i].body = c.signature.body /\ c.signature.status \in {0, given[i].status}
    <3> TAKE i \in {2, 3}
    <3>1. i \in 1..4 BY SMTT(60)
    <3>2. /\ given[i].part = "body" /\ seen[i].status = given[i].status
          /\ seen[i].body = IF ~ResponseHasNoBody(given[i].status) THEN given[i].body ELSE ""
      BY <2>5, <3>1, ZenonT(60)
    <3>3. seen[i].body = c.signature.body /\ c.signature.status \in {0, seen[i].status}
      BY <2>1, ZenonT(60) DEF EligibleTakeoverFingerprint
    <3>4. QED BY <2>1, <3>2, <3>3, ZenonT(60)
  <2>8. \A i \in {1, 4} : ResponseHasNoBody(given[i].status) \/ given[i].body # c.signature.body
    <3> TAKE i \in {1, 4}
    <3>1. i \in 1..4 BY SMTT(60)
    <3>2. seen[i].body = IF ~ResponseHasNoBody(given[i].status) THEN given[i].body ELSE "" BY <2>5, <3>1, ZenonT(60)
    <3>3. seen[i].body # c.signature.body
      <4>1. ~BodyMatchesCandidate(candidates, seen[i].body) BY ZenonT(60)
      <4>2. PICK k \in DOMAIN candidates : candidates[k] = c BY <2>1, ZenonT(60) DEF ToSet
      <4>3. QED BY <2>1, <4>1, <4>2, ZenonT(60) DEF BodyMatchesCandidate
    <3>4. QED BY <3>2, <3>3
  <2>9. c.signature = w.aliases[n].signature /\ given = w.raw[s][p] BY <2>2, ZenonT(60) DEF given
  <2>10. \A i \in 1..4 : given[i].part = "body" BY <2>5
  <2>11. QED BY <2>6, <2>7, <2>8, <2>9, <2>10, ProbeShows, ZenonT(60)
<1>7. Scaled(told)
  <2> HIDE DEF confirmed
  <2> QED BY Numbers DEF Evidence, About, Scaled
<1>4. confirmed # <<>> => told.type \notin F
  <2> HAVE confirmed # <<>>
  <2>1. "HTTP_MUTATION_REVEALED_PROVIDER_FINGERPRINT" \notin F BY <1>3 DEF Borne, Shown
  <2> HIDE DEF confirmed
  <2>2. told.type = "HTTP_MUTATION_REVEALED_PROVIDER_FINGERPRINT" BY DEF Evidence, About
  <2>3. QED BY <2>1, <2>2
<1> HIDE DEF confirmed, review, told, other
<1>5. confirmed # <<>> => Free(<<told>>, F) BY <1>4, <1>7, FreeOne
<1>6. QED BY <1>1, <1>2, <1>5

LEMMA ExperimentIsFree ==
  ASSUME NEW F, F \subseteq Grave, NEW w, Borne(Shown, ShowsMissingResource(w), F),
         NEW s \in Schemes, NEW p \in DOMAIN w.raw[s], NEW left, NEW candidates, IsList(candidates),
         \A c \in ToSet(candidates) : Known(c.signature) /\ \E n \in DOMAIN w.aliases : w.aliases[n] = c,
         NEW framing, NEW baseline
  PROVE Free(ExperimentEvidence(p, framing, candidates, baseline, Experiment(w.raw[s][p], left).seen), F)
<1> DEFINE seen == Experiment(w.raw[s][p], left).seen
           control == BodyMatchesCandidate(candidates, seen[1].body) \/ BodyMatchesCandidate(candidates, seen[4].body)
           before == BodyMatchesCandidate(candidates, baseline)
           one == If(control /\ ~before, <<Evidence("HTTP_RAW_CONTROL_DIFFERENTIAL", p, 0, 60)>>)
           two == If(~control, <<Evidence("HTTP_MUTATION_DIFFERENTIAL", p, 0, 70)>>)
           three == IF control \/ before THEN <<>> ELSE Revealed(candidates, seen)
           other == <<Evidence("FRAMING_DIFFERENTIAL", p, 0, 70)>>
           differs == Outcome(seen) = "DIFFERENTIAL"
<1>1. ExperimentEvidence(p, framing, candidates, baseline, seen) =
        CASE ~differs -> <<>> [] differs /\ framing -> other [] OTHER -> one \o two \o three
  BY DEF ExperimentEvidence
<1>2. Free(one, F) /\ Free(two, F) /\ Free(other, F)
  <2>1. /\ Free(<<Evidence("HTTP_RAW_CONTROL_DIFFERENTIAL", p, 0, 60)>>, Grave)
        /\ Free(<<Evidence("HTTP_MUTATION_DIFFERENTIAL", p, 0, 70)>>, Grave)
        /\ Free(other, Grave)
    BY Plain, Numbers, ZenonT(60) DEF Grave
  <2> HIDE DEF control, before, other
  <2>2. Free(one, Grave) /\ Free(two, Grave) BY <2>1, FreeNone DEF If
  <2> HIDE DEF one, two
  <2>3. QED BY <2>1, <2>2, SMTT(60) DEF Free
<1>3. differs => Free(three, F)
  <2> HAVE differs
  <2>1. CASE control \/ before
    <3>1. three = <<>>
      <4> HIDE DEF control, before
      <4> QED BY <2>1
    <3>2. QED BY <3>1, FreeNone
  <2>2. CASE ~(control \/ before)
    <3>1. Free(Revealed(candidates, seen), F)
      <4>1. ~BodyMatchesCandidate(candidates, seen[1].body) /\ ~BodyMatchesCandidate(candidates, seen[4].body) BY <2>2
      <4> HIDE DEF seen
      <4>2. seen = Experiment(w.raw[s][p], left).seen BY DEF seen
      <4>3. QED BY <4>1, <4>2, RevealedIsFree, ZenonT(60)
    <3>2. three = Revealed(candidates, seen)
      <4> HIDE DEF control, before
      <4> QED BY <2>2
    <3>3. QED BY <3>1, <3>2
  <2>3. QED BY <2>1, <2>2
<1> HIDE DEF one, two, three, other, differs
<1>4. differs => Free(one \o two \o three, F) BY <1>2, <1>3, FreeJoin
<1>5. Free(ExperimentEvidence(p, framing, candidates, baseline, seen), F)
  <2> HIDE DEF seen
  <2> QED BY <1>1, <1>2, <1>4, FreeNone
<1>6. QED BY <1>5 DEF seen

LEMMA ProbesTogether ==
  /\ {"NullByteHostProbe", "HostWhitespaceProbe", "HostTrailingDotProbe", "ExplicitPortProbe", "AbsoluteFormProbe"}
       \subseteq ToSet(HostProbes \o FramingProbes)
  /\ {"CLTEProbe", "TECLProbe"} \subseteq ToSet(HostProbes \o FramingProbes)
<1> DEFINE all == HostProbes \o FramingProbes
<1>1. /\ all[1] = "NullByteHostProbe" /\ all[2] = "HostWhitespaceProbe" /\ all[3] = "HostTrailingDotProbe"
      /\ all[4] = "ExplicitPortProbe" /\ all[5] = "AbsoluteFormProbe" /\ all[6] = "CLTEProbe" /\ all[7] = "TECLProbe"
      /\ DOMAIN all = 1..7
  BY DEF HostProbes, FramingProbes
<1>2. 1..7 = {1, 2, 3, 4, 5, 6, 7} OBVIOUS
<1> HIDE DEF all
<1>3. \A i \in 1..7 : all[i] \in ToSet(all) BY <1>1 DEF ToSet
<1>4. QED BY <1>1, <1>2, <1>3, SMTT(60) DEF all

LEMMA MutateIsFree ==
  ASSUME NEW F, F \subseteq Grave, NEW w, Borne(Shown, ShowsMissingResource(w), F), w.maxProbes \in Nat,
         NEW P, \A s \in Schemes : P \subseteq DOMAIN w.raw[s], NEW probes \in Seq(P), NEW a,
         NEW candidates, IsList(candidates),
         \A c \in ToSet(candidates) : Known(c.signature) /\ \E n \in DOMAIN w.aliases : w.aliases[n] = c,
         NEW framing
  PROVE Free(Mutate(w, a, framing, probes, candidates).evidence, F)
<1> DEFINE taken == SubSeq(probes, 1, AtMost(w.maxProbes, Len(probes)))
           pairs(scheme) == [i \in DOMAIN taken |-> <<scheme, taken[i]>>]
           runs(scheme) == If(Blocked(w, a, scheme, framing, candidates), pairs(scheme))
           all == runs("https") \o runs("http")
           t == [of |-> "mutations", w |-> w, a |-> a, all |-> all, framing |-> framing, candidates |-> candidates]
           start == [left |-> HostTimeouts, evidence |-> <<>>, results |-> <<>>]
           next(m, i) ==
             LET run == Experiment(w.raw[all[i][1]][all[i][2]], m.left)
             IN IF Exhausted(m.left) THEN m
                ELSE [left |-> run.left,
                      evidence |-> m.evidence \o ExperimentEvidence(all[i][2], framing, candidates, a.http[all[i][1]].body, run.seen),
                      results |-> Append(m.results, Outcome(run.seen))]
           c == CHOOSE f : f = [i \in 0..Len(all) |-> IF i = 0 THEN start ELSE LET m == f[i - 1] IN next(m, i)]
<1>1. all \in Seq(Schemes \X P)
  <2>1. AtMost(w.maxProbes, Len(probes)) \in Nat /\ AtMost(w.maxProbes, Len(probes)) <= Len(probes)
    <3>1. Len(probes) \in Nat OBVIOUS
    <3>2. QED BY <3>1, AtMostIsNat
  <2>2. taken \in Seq(P)
    <3> DEFINE k == AtMost(w.maxProbes, Len(probes))
    <3> HIDE DEF k
    <3>1. SubSeq(probes, 1, k) \in Seq(P) BY <2>1 DEF k
    <3>2. QED BY <3>1 DEF k
  <2> HIDE DEF taken
  <2>3. \A scheme \in Schemes : pairs(scheme) \in Seq(Schemes \X P) BY <2>2, SMTT(60)
  <2> HIDE DEF pairs
  <2>4. <<>> \in Seq(Schemes \X P) OBVIOUS
  <2>5. \A scheme \in Schemes : runs(scheme) \in Seq(Schemes \X P) BY <2>3, <2>4 DEF If
  <2>6. "https" \in Schemes /\ "http" \in Schemes BY DEF Schemes
  <2> HIDE DEF runs
  <2>7. QED BY <2>5, <2>6
<1>2. Mutate(w, a, framing, probes, candidates) = c[Len(all)] BY DEF Mutate
<1>3. Len(all) \in Nat /\ \A i \in 1..Len(all) : all[i][1] \in Schemes /\ all[i][2] \in P
  <2> HIDE DEF all
  <2>1. Len(all) \in Nat BY <1>1
  <2>2. \A i \in 1..Len(all) : all[i] \in Schemes \X P BY <1>1
  <2>3. QED BY <2>1, <2>2
<1> HIDE DEF all
<1>4. \A i, m : WalkStep(t, i, m) = next(m, i) BY DEF WalkStep
<1>5. Quiet(start, F, t.of) /\ t.of = "mutations" BY FreeNone DEF Quiet
<1>6. ASSUME NEW i \in 1..Len(all), NEW m, Quiet(m, F, "mutations") PROVE Quiet(next(m, i), F, "mutations")
  <2> DEFINE run == Experiment(w.raw[all[i][1]][all[i][2]], m.left)
             said == ExperimentEvidence(all[i][2], framing, candidates, a.http[all[i][1]].body, run.seen)
  <2>1. PICK s \in Schemes, p \in P : s = all[i][1] /\ p = all[i][2] BY <1>3
  <2>2. p \in DOMAIN w.raw[s] BY <2>1
  <2>3. Free(ExperimentEvidence(p, framing, candidates, a.http[s].body, Experiment(w.raw[s][p], m.left).seen), F)
    BY <2>2, ExperimentIsFree
  <2>4. Free(said, F) BY <2>1, <2>3
  <2> HIDE DEF said, run
  <2>5. Free(m.evidence \o said, F) BY <1>6, <2>4, FreeJoin DEF Quiet
  <2>6. next(m, i) = IF Exhausted(m.left) THEN m
                     ELSE [left |-> run.left, evidence |-> m.evidence \o said, results |-> Append(m.results, Outcome(run.seen))]
    BY DEF run, said
  <2> HIDE DEF next
  <2>7. QED BY <1>6, <2>5, <2>6 DEF Quiet
<1> HIDE DEF t, start, next
<1>7. \E f : Walks(f, t, start, Len(all)) BY <1>3, WalksExist
<1>8. \E f : f = [i \in 0..Len(all) |-> IF i = 0 THEN start ELSE LET m == f[i - 1] IN next(m, i)]
  <2>1. PICK f : Walks(f, t, start, Len(all)) BY <1>7
  <2>2. f = [i \in 0..Len(all) |-> IF i = 0 THEN start ELSE next(f[i - 1], i)] BY <1>4, <2>1 DEF Walks
  <2>3. QED BY <2>2, Zenon
<1>9. c = [i \in 0..Len(all) |-> IF i = 0 THEN start ELSE LET m == c[i - 1] IN next(m, i)] BY <1>8, Zenon
<1> HIDE DEF c
<1>10. Walks(c, t, start, Len(all)) BY <1>4, <1>9 DEF Walks
<1>11. \A i \in 1..Len(all) : \A m : Quiet(m, F, t.of) => Quiet(WalkStep(t, i, m), F, t.of) BY <1>4, <1>5, <1>6
<1>12. Quiet(c[Len(all)], F, t.of) BY <1>3, <1>5, <1>10, <1>11, WalksAreQuiet
<1>13. QED BY <1>2, <1>12 DEF Quiet

LEMMA MutatedSound ==
  ASSUME NEW F, NEW a, NEW vector, NEW said, NEW results, Sound(a, F), Free(said, F)
  PROVE Sound([Collected(Tested(a, vector), said) EXCEPT !.mutations = @ \o results], F)
<1> DEFINE noted == Collected(Tested(a, vector), said)
<1>1. Sound(noted, F) BY SoundCollected, SoundTested
<1> HIDE DEF noted
<1>2. Sound([noted EXCEPT !.mutations = @ \o results], F) BY <1>1 DEF Sound, Fields
<1>3. QED BY <1>2 DEF noted

\* The collector of the altered requests, and the one of the framing.
LEMMA MutatorSound ==
  ASSUME NEW F, F \subseteq Grave, NEW w, Borne(Shown, ShowsMissingResource(w), F), w.maxProbes \in Nat,
         IsList(w.aliases),
         \A s \in Schemes : \A p \in ToSet(HostProbes \o FramingProbes) : p \in DOMAIN w.raw[s], NEW a, Sound(a, F)
  PROVE Sound(CollectMutator(w, a), F)
<1> DEFINE candidates == MutationCandidates(w, a)
           done == Mutate(w, a, FALSE, HostProbes, candidates)
           P == {"NullByteHostProbe", "HostWhitespaceProbe", "HostTrailingDotProbe", "ExplicitPortProbe",
                 "AbsoluteFormProbe"}
           test(n) == /\ Known(n.signature) /\ (n.signature.body # "" \/ n.signature.nx)
                      /\ \E c \in a.candidates : c.vector = "CNAME" /\ c.resource = n.name
           S == {n \in ToSet(w.aliases) : Known(n.signature)}
           part(n) == If(test(n), <<n>>)
           parts == [i \in DOMAIN w.aliases |-> part(w.aliases[i])]
<1>1. candidates = FlattenSeq(parts) BY DEF MutationCandidates, Those, EachOf
<1>2. ASSUME NEW i \in DOMAIN w.aliases PROVE part(w.aliases[i]) \in Seq(S)
  <2>1. w.aliases[i] \in ToSet(w.aliases) BY DEF ToSet
  <2>2. test(w.aliases[i]) => w.aliases[i] \in S BY <2>1
  <2> HIDE DEF S, test
  <2>3. <<>> \in Seq(S) /\ (w.aliases[i] \in S => <<w.aliases[i]>> \in Seq(S)) OBVIOUS
  <2>4. QED BY <2>2, <2>3 DEF If
<1>3. \A i \in DOMAIN w.aliases : parts[i] = part(w.aliases[i]) OBVIOUS
<1>4. parts = [i \in DOMAIN w.aliases |-> parts[i]] OBVIOUS
<1>5. candidates \in Seq(S)
  <2> HIDE DEF parts, part, S, candidates
  <2>1. \A i \in DOMAIN w.aliases : parts[i] \in Seq(S) BY <1>2, <1>3
  <2>2. FlattenSeq(parts) \in Seq(S) BY <1>4, <2>1, EachInSet, ZenonT(60)
  <2> QED BY <1>1, <2>2
<1>6. IsList(candidates) /\ \A c \in ToSet(candidates) : Known(c.signature) /\ \E n \in DOMAIN w.aliases : w.aliases[n] = c
  <2> HIDE DEF candidates
  <2>1. IsList(candidates) /\ ToSet(candidates) \subseteq S
    <3> HIDE DEF S
    <3> QED BY <1>5, ListOfASet
  <2>2. QED BY <2>1 DEF ToSet
<1>7. HostProbes \in Seq(P) BY DEF HostProbes
<1>8. \A s \in Schemes : P \subseteq DOMAIN w.raw[s]
  <2>1. P \subseteq ToSet(HostProbes \o FramingProbes) BY ProbesTogether
  <2> HIDE DEF P
  <2>2. QED BY <2>1
<1> HIDE DEF candidates, P
<1>9. Free(done.evidence, F) BY <1>6, <1>7, <1>8, MutateIsFree
<1>10. Sound([Collected(Tested(a, "HTTP_MUTATOR"), done.evidence) EXCEPT !.mutations = @ \o done.results], F)
  <2> HIDE DEF done
  <2> QED BY <1>9, MutatedSound
<1>11. Sound(Tested(a, "HTTP_MUTATOR"), F) BY SoundTested
<1>12. QED BY <1>10, <1>11 DEF CollectMutator, candidates

LEMMA FramingSound ==
  ASSUME NEW F, F \subseteq Grave, NEW w, Borne(Shown, ShowsMissingResource(w), F), w.maxProbes \in Nat,
         \A s \in Schemes : \A p \in ToSet(HostProbes \o FramingProbes) : p \in DOMAIN w.raw[s], NEW a, Sound(a, F)
  PROVE Sound(CollectFraming(w, a), F)
<1> DEFINE nobody == <<>>
           done == Mutate(w, a, TRUE, FramingProbes, nobody)
           P == {"CLTEProbe", "TECLProbe"}
           yes == TRUE
<1>1. IsList(nobody) /\ ToSet(nobody) = {} BY DEF IsList, ToSet
<1>2. FramingProbes \in Seq(P) BY DEF FramingProbes
<1>3. \A s \in Schemes : P \subseteq DOMAIN w.raw[s]
  <2>1. P \subseteq ToSet(HostProbes \o FramingProbes) BY ProbesTogether
  <2> HIDE DEF P
  <2>2. QED BY <2>1
<1>4. Free(done.evidence, F)
  <2>1. done = Mutate(w, a, yes, FramingProbes, nobody) OBVIOUS
  <2>2. \A c \in ToSet(nobody) : Known(c.signature) /\ \E n \in DOMAIN w.aliases : w.aliases[n] = c BY <1>1
  <2> HIDE DEF nobody, P, done, yes
  <2>3. Free(Mutate(w, a, yes, FramingProbes, nobody).evidence, F) BY <1>1, <1>2, <1>3, <2>2, MutateIsFree
  <2>4. QED BY <2>1, <2>3
<1>5. Sound([Collected(Tested(a, "HTTP_FRAMING_LAB"), done.evidence) EXCEPT !.mutations = @ \o done.results], F)
  <2> HIDE DEF done
  <2> QED BY <1>4, MutatedSound
<1>6. Sound(Tested(a, "HTTP_FRAMING_LAB"), F) BY SoundTested
<1>7. QED BY <1>5, <1>6 DEF CollectFraming

-----------------------------------------------------------------------------
(* A delegation to servers that failed.                                     *)

\* The servers of a delegation are finitely many.
LEMMA ImageIsFinite ==
  ASSUME NEW S, IsFiniteSet(S), NEW f, DOMAIN f = S, f = [x \in S |-> f[x]]
  PROVE IsFiniteSet({f[x] : x \in S})
<1> DEFINE T == {f[x] : x \in S}
<1>1. f \in Surjection(S, T) BY DEF Surjection
<1> HIDE DEF T
<1>2. IsFiniteSet(T) BY <1>1, FS_Surjection
<1>3. QED BY <1>2 DEF T

LEMMA NSEvidenceIsFree == ASSUME NEW name, NEW server PROVE Free(NSEvidence(name, server), Grave)
<1>1. /\ Free(<<Evidence("NS_NXDOMAIN", name, 20, 90)>>, Grave)
      /\ Free(<<Evidence("LAME_DELEGATION", name, 20, 90)>>, Grave)
      /\ Free(<<Evidence("NS_SERVFAIL", name, 10, 70)>>, Grave)
      /\ Free(<<Evidence("NS_TIMEOUT", name, 1, 30)>>, Grave)
  BY Plain, Numbers, ZenonT(60) DEF Grave
<1>2. Free(<<Evidence(IF server.health = "NXDOMAIN" THEN "NS_NXDOMAIN" ELSE "LAME_DELEGATION", name, 20, 90)>>, Grave)
  BY <1>1
<1>3. QED BY <1>1, <1>2, FreeNone, SMTT(60) DEF NSEvidence

\* The name server collector concludes from what failed, and only so.
LEMMA ConclusionsAreFree ==
  ASSUME NEW F, F \subseteq Grave, NEW zone, NEW provider, NEW concern, NEW dead,
         dead => "DELEGATION_BROKEN" \notin F,
         dead /\ zone.verified /\ provider # "" /\ zone.dsChecked /\ ~zone.hasDS => "DELEGATION_TAKEOVER_CANDIDATE" \notin F
  PROVE Free(NSConclusions(zone, provider, concern, dead), F)
<1> DEFINE named == concern /\ provider # ""
           claimable == dead /\ zone.verified /\ provider # "" /\ zone.dsChecked /\ ~zone.hasDS
           one == If(named, <<Evidence("NS_PROVIDER_MATCH", provider, 1, 90)>>)
           two == If(dead, <<Evidence("NS_ALL_DEAD", "DNS", 30, 95), Evidence("DELEGATION_BROKEN", "DNS", 40, 95)>>)
           three == If(claimable, <<Evidence("DELEGATION_TAKEOVER_CANDIDATE", provider, 50, 80)>>)
<1>1. Free(one, F)
  <2> DEFINE e == Evidence("NS_PROVIDER_MATCH", provider, 1, 90)
  <2>1. e.type \notin F /\ Scaled(e) BY Scales, Numbers, ZenonT(60) DEF Evidence, Grave
  <2> HIDE DEF e
  <2>2. Free(<<e>>, F) BY <2>1, FreeOne
  <2> HIDE DEF named
  <2>3. QED BY <2>2, FreeNone DEF If, e
<1>2. Free(two, F)
  <2> DEFINE d == Evidence("NS_ALL_DEAD", "DNS", 30, 95)
             e == Evidence("DELEGATION_BROKEN", "DNS", 40, 95)
  <2>1. d.type \notin F /\ Scaled(d) /\ Scaled(e) BY Scales, Numbers, ZenonT(60) DEF Evidence, Grave
  <2>2. dead => e.type \notin F BY DEF Evidence
  <2> HIDE DEF d, e
  <2>3. dead => Free(<<d, e>>, F) BY <2>1, <2>2, FreeTwo
  <2>4. QED BY <2>3, FreeNone DEF If, d, e
<1>3. Free(three, F)
  <2> DEFINE e == Evidence("DELEGATION_TAKEOVER_CANDIDATE", provider, 50, 80)
  <2>1. Scaled(e) /\ (claimable => e.type \notin F) BY Scales, Numbers, ZenonT(60) DEF Evidence
  <2> HIDE DEF e, claimable
  <2>2. claimable => Free(<<e>>, F) BY <2>1, FreeOne
  <2>3. QED BY <2>2, FreeNone DEF If, e
<1>4. NSConclusions(zone, provider, concern, dead) = one \o two \o three BY DEF NSConclusions
<1> HIDE DEF one, two, three
<1>5. QED BY <1>1, <1>2, <1>3, <1>4, FreeJoin

\* The parts of a zone cut that the rules about the delegation need.
CutIsSound(w) ==
  /\ IsFiniteSet(w.cut.listed) /\ IsFiniteSet(DOMAIN w.cut.views)
  /\ \A p \in DOMAIN w.cut.views : IsFiniteSet(w.cut.views[p].ns) /\ (w.cut.views[p].rcode = "NXDOMAIN" => w.cut.views[p].ns = {})

LEMMA ZoneServers ==
  ASSUME NEW w
  PROVE ZoneOf(w).ns = LET told == UNION {w.cut.views[p].ns : p \in Answering(w)} IN IF told # {} THEN told ELSE w.cut.listed
  BY DEF ZoneOf, ZoneDetails, DelegationAtParent, Answering

LEMMA ZoneServersFinite == ASSUME NEW w, CutIsSound(w) PROVE IsFiniteSet(ZoneOf(w).ns)
<1> DEFINE f == [p \in Answering(w) |-> w.cut.views[p].ns]
           sets == {w.cut.views[p].ns : p \in Answering(w)}
<1>1. IsFiniteSet(Answering(w))
  <2>1. Answering(w) \subseteq DOMAIN w.cut.views BY DEF Answering
  <2>2. QED BY <2>1, FS_Subset DEF CutIsSound
<1>2. IsFiniteSet(sets)
  <2>1. DOMAIN f = Answering(w) /\ f = [x \in Answering(w) |-> f[x]] OBVIOUS
  <2>2. sets = {f[x] : x \in Answering(w)} OBVIOUS
  <2> HIDE DEF f, sets
  <2>3. QED BY <1>1, <2>1, <2>2, ImageIsFinite
<1>3. \A x \in sets : IsFiniteSet(x) BY DEF CutIsSound, Answering
<1>4. IsFiniteSet(UNION sets)
  <2> HIDE DEF sets
  <2> QED BY <1>2, <1>3, FS_UNION
<1>5. QED BY <1>4, ZoneServers DEF CutIsSound

LEMMA ServicesAreFinite ==
  ASSUME NEW w, NEW names, IsFiniteSet(names) PROVE IsFiniteSet({w.servers[s].provider : s \in names})
<1> DEFINE f == [s \in names |-> w.servers[s].provider]
           services == {w.servers[s].provider : s \in names}
<1>1. DOMAIN f = names /\ f = [x \in names |-> f[x]] OBVIOUS
<1>2. services = {f[x] : x \in names} OBVIOUS
<1> HIDE DEF f, services
<1>3. IsFiniteSet(services) BY <1>1, <1>2, ImageIsFinite
<1>4. QED BY <1>3 DEF services

\* Providers that make a set of one element are the same provider.
LEMMA OneServiceOfFew ==
  ASSUME NEW w, NEW names, IsFiniteSet(names), UniformProvider(w, names) # ""
  PROVE \A s, t \in names : w.servers[s].provider = w.servers[t].provider
<1> DEFINE services == {w.servers[s].provider : s \in names}
<1>1. Cardinality(services) = 1 BY DEF UniformProvider
<1>2. IsFiniteSet(services) BY ServicesAreFinite
<1>3. \A s \in names : w.servers[s].provider \in services OBVIOUS
<1> HIDE DEF services
<1>4. \E x : services = {x} BY <1>1, <1>2, FS_Singleton
<1>5. QED BY <1>3, <1>4

\* What a verified delegation without DS says of the parents that answered.
LEMMA VerifiedIsOfOneSet ==
  ASSUME NEW w, CutIsSound(w), ZoneOf(w).verified
  PROVE \A p, q \in Answering(w) : w.cut.views[p].ns = w.cut.views[q].ns /\ w.cut.views[p].ns # {}
<1> DEFINE sets == {w.cut.views[p].ns : p \in Answering(w)}
           f == [p \in Answering(w) |-> w.cut.views[p].ns]
<1>1. Cardinality(sets) = 1 /\ {} \notin sets BY DEF ZoneOf, ZoneDetails, DelegationAtParent, Answering
<1>2. IsFiniteSet(Answering(w))
  <2>1. Answering(w) \subseteq DOMAIN w.cut.views BY DEF Answering
  <2>2. QED BY <2>1, FS_Subset DEF CutIsSound
<1>3. IsFiniteSet(sets)
  <2>1. DOMAIN f = Answering(w) /\ f = [x \in Answering(w) |-> f[x]] OBVIOUS
  <2>2. sets = {f[x] : x \in Answering(w)} OBVIOUS
  <2> HIDE DEF f, sets
  <2>3. QED BY <1>2, <2>1, <2>2, ImageIsFinite
<1>4. \A p \in Answering(w) : w.cut.views[p].ns \in sets OBVIOUS
<1> HIDE DEF sets
<1>5. \E x : sets = {x} BY <1>1, <1>3, FS_Singleton
<1>6. QED BY <1>1, <1>4, <1>5

LEMMA VerifiedHasNoDS ==
  ASSUME NEW w, CutIsSound(w), ZoneOf(w).verified, ~ZoneOf(w).hasDS
  PROVE \A p \in Answering(w) : ~w.cut.views[p].ds
<1>1. ASSUME NEW p \in Answering(w) PROVE w.cut.views[p].rcode = "NOERROR" /\ p \in DOMAIN w.cut.views
  <2>1. w.cut.views[p].ns # {} BY VerifiedIsOfOneSet
  <2>2. p \in DOMAIN w.cut.views /\ w.cut.views[p].rcode \in {"NOERROR", "NXDOMAIN"} BY DEF Answering, ValidDelegation
  <2>3. QED BY <2>1, <2>2 DEF CutIsSound
<1>2. ~DSAtParent(w.cut.views, w.cut.complete).has BY DEF ZoneOf, ZoneDetails
<1>3. \A p \in {s \in DOMAIN w.cut.views : w.cut.views[s].rcode = "NOERROR"} : ~w.cut.views[p].ds
  BY <1>2 DEF DSAtParent
<1>4. QED BY <1>1, <1>3

LEMMA AllAreTold == ASSUME NEW w PROVE Cardinality(Answering(w) \ Answering(w)) <= 0
<1>1. Cardinality({}) = 0 BY FS_EmptySet
<1>2. Answering(w) \ Answering(w) = {} OBVIOUS
<1>3. QED BY <1>1, <1>2

\* When the collector finds every server failed, the delegation is dead; when
\* it finds one provider and no DS besides, so it is.
LEMMA DeadForSure ==
  ASSUME NEW w, ZoneOf(w).ns # {}, FailedServers(w) = ZoneOf(w).ns
  PROVE DelegatesToTheDead(w, 0)
<1> DEFINE told == Answering(w)
           names == UNION {w.cut.views[p].ns : p \in told}
<1>1. \A s \in ZoneOf(w).ns : Dead(w.servers[s])
  BY DEF FailedServers, Lame, AddressMissing, Absent, Dead
<1>2. Cardinality(Answering(w) \ told) <= 0 BY AllAreTold
<1>3. ZoneOf(w).ns = IF names # {} THEN names ELSE w.cut.listed BY ZoneServers
<1>4. IF names = {} THEN w.cut.listed # {} /\ \A s \in w.cut.listed : Dead(w.servers[s])
      ELSE \A s \in names : Dead(w.servers[s])
  <2> HIDE DEF names
  <2> QED BY <1>1, <1>3
<1>5. told \in SUBSET Answering(w) OBVIOUS
<1> HIDE DEF told
<1>6. QED BY <1>2, <1>4, <1>5 DEF DelegatesToTheDead

LEMMA OneForSure ==
  ASSUME NEW w, CutIsSound(w), ZoneOf(w).ns # {}, ZoneOf(w).verified, ~ZoneOf(w).hasDS,
         UniformProvider(w, ZoneOf(w).ns) # ""
  PROVE OneProviderAndNoDS(w, 0)
<1> DEFINE told == Answering(w)
           names == UNION {w.cut.views[p].ns : p \in told}
<1>1. Cardinality(Answering(w) \ told) <= 0 BY AllAreTold
<1>2. \A p, q \in told : w.cut.views[p].ns = w.cut.views[q].ns BY VerifiedIsOfOneSet
<1>3. \A p \in told : ~w.cut.views[p].ds BY VerifiedHasNoDS
<1>4. names # {}
  <2>1. {w.cut.views[p].ns : p \in Answering(w)} # {} BY DEF ZoneOf, ZoneDetails, DelegationAtParent, Answering
  <2>2. PICK p \in told : TRUE BY <2>1
  <2>3. w.cut.views[p].ns # {} BY VerifiedIsOfOneSet
  <2>4. QED BY <2>3, ZenonT(60)
<1>5. ZoneOf(w).ns = names
  <2>1. ZoneOf(w).ns = IF names # {} THEN names ELSE w.cut.listed BY ZoneServers
  <2> HIDE DEF names
  <2>2. QED BY <1>4, <2>1
<1>6. \A s, t \in names : w.servers[s].provider = w.servers[t].provider
  <2>1. \A s, t \in ZoneOf(w).ns : w.servers[s].provider = w.servers[t].provider BY ZoneServersFinite, OneServiceOfFew
  <2> HIDE DEF names
  <2>2. QED BY <1>5, <2>1
<1>7. told \in SUBSET Answering(w) OBVIOUS
<1> HIDE DEF told
<1>8. QED BY <1>1, <1>2, <1>3, <1>4, <1>6, <1>7 DEF OneProviderAndNoDS

\* The name server collector accuses a delegation that is dead.
LEMMA NSSound ==
  ASSUME NEW F, F \subseteq Grave, NEW w, NEW a, Sound(a, F), CutIsSound(w),
         Borne({"DELEGATION_BROKEN"}, DelegatesToTheDead(w, 0), F),
         Borne({"DELEGATION_TAKEOVER_CANDIDATE"}, DelegatesToTheDead(w, 0) /\ OneProviderAndNoDS(w, 0), F)
  PROVE Sound(CollectNS(w, a), F)
<1> DEFINE zone == ZoneOf(w)
           names == SetToSeq(zone.ns)
           failed == FailedServers(w)
           lame == {s \in zone.ns : Lame(w.servers[s]) \/ w.servers[s].health = "SERVFAIL"}
           unresolvable == {s \in zone.ns : AddressMissing(w.servers[s]) /\ w.servers[s].health # "HEALTHY"}
           provider == UniformProvider(w, zone.ns)
           orphan(s) == If(s \in unresolvable, <<Evidence("NS_ORPHANED", s, 20, 90)>>)
           part(s) == NSEvidence(s, w.servers[s]) \o orphan(s)
           seen == FlattenSeq([i \in DOMAIN names |-> part(names[i])])
           concern == lame \cup unresolvable # {}
           dead == failed = zone.ns
           drawn == NSConclusions(zone, provider, concern, dead)
           noted == Collected(Tested(a, "NS_DELEGATION"), seen \o drawn)
           links == If(Has(drawn, "DELEGATION_TAKEOVER_CANDIDATE"), <<Link(provider, "NS", zone.zone)>>)
           delegation == [zone |-> zone.zone, ns |-> zone.ns, failed |-> failed, lame |-> lame,
                          unresolvable |-> unresolvable, provider |-> provider]
           known == Linked([noted EXCEPT !.delegation = delegation], links)
<1>1. Free(seen, F)
  <2>1. IsList(names)
    <3>1. SetToSeq(ZoneOf(w).ns) \in Seq(ZoneOf(w).ns) BY ZoneServersFinite, SetToSeqIsAList
    <3>2. QED BY <3>1, ListOfASet
  <2>2. \A s : Free(orphan(s), Grave)
    <3>1. \A s : Free(<<Evidence("NS_ORPHANED", s, 20, 90)>>, Grave) BY Plain, Numbers, ZenonT(60) DEF Grave
    <3> HIDE DEF unresolvable
    <3>2. QED BY <3>1, FreeNone, SMTT(60) DEF If
  <2>3. \A s : Free(part(s), Grave)
    <3> HIDE DEF orphan
    <3> QED BY <2>2, NSEvidenceIsFree, FreeJoin
  <2>4. Free(seen, Grave)
    <3> HIDE DEF part, names
    <3> QED BY <2>1, <2>3, FreeEach
  <2> HIDE DEF seen
  <2>5. QED BY <2>4 DEF Free
<1>2. ASSUME zone.zone # "" /\ zone.ns # {} PROVE Sound(known, F)
  <2>1. dead => "DELEGATION_BROKEN" \notin F BY <1>2, DeadForSure DEF Borne
  <2>2. dead /\ zone.verified /\ provider # "" /\ zone.dsChecked /\ ~zone.hasDS => "DELEGATION_TAKEOVER_CANDIDATE" \notin F
    BY <1>2, DeadForSure, OneForSure DEF Borne
  <2> HIDE DEF zone, provider, concern, dead, failed
  <2>3. Free(drawn, F) BY <2>1, <2>2, ConclusionsAreFree
  <2> HIDE DEF drawn, seen
  <2>4. Free(seen \o drawn, F) BY <1>1, <2>3, FreeJoin
  <2>5. Sound(noted, F) BY <2>4, SoundTested, SoundCollected
  <2> HIDE DEF noted, links, delegation
  <2>6. Sound([noted EXCEPT !.delegation = delegation], F) BY <2>5 DEF Sound, Fields
  <2> DEFINE kept == [noted EXCEPT !.delegation = delegation]
  <2>7. Sound(kept, F) BY <2>6
  <2> HIDE DEF kept
  <2>8. Sound(Linked(kept, links), F) BY <2>7, SoundLinked
  <2>9. QED BY <2>8 DEF kept, known
<1>3. Sound(Tested(a, "NS_DELEGATION"), F) BY SoundTested
<1>4. CollectNS(w, a) = IF zone.zone = "" \/ zone.ns = {} THEN Tested(a, "NS_DELEGATION") ELSE known
  BY DEF CollectNS, EachOf
<1> HIDE DEF known, zone
<1>5. zone.zone # "" /\ zone.ns # {} => Sound(known, F) BY <1>2
<1>6. QED BY <1>3, <1>4, <1>5

-----------------------------------------------------------------------------
(* The collectors together.                                                 *)

\* The accusations a list of evidence may not make of a world in which n
\* lookups failed: those that are false of it.
Untrue(w, n) ==
  {type \in Grave :
     CASE type = "CNAME_DANGLING" -> ~Dangles(w)
       [] type \in Shown -> ~ShowsMissingResource(w)
       [] type = "DELEGATION_BROKEN" -> ~DelegatesToTheDead(w, n)
       [] type = "DELEGATION_TAKEOVER_CANDIDATE" -> ~(DelegatesToTheDead(w, n) /\ OneProviderAndNoDS(w, n))
       [] OTHER -> TRUE}

\* The signatures have a confidence in percent.
Ratings(w) ==
  Rated(w.aliases) /\ Rated(w.mx) /\ Rated(w.srv) /\ RatedTokens(w.txt) /\ w.tls.signature.confidence \in 0..100

\* What the collectors need of the world they look at: its records in lists,
\* and a set of accusations that is not larger than what is false of it.
Listed(w) ==
  /\ \A field \in ProfileLists \cup {"dnames"} : IsList(w[field])
  /\ IsList(w.tls.sans) /\ IsList(w.tls.variants)
  /\ \A s \in Schemes : IsList(w.web[s].refs) /\ \A p \in ToSet(HostProbes \o FramingProbes) : p \in DOMAIN w.raw[s]
  /\ w.maxProbes \in Nat
  /\ CutIsSound(w)
  /\ Ratings(w)

Honest(w, F) ==
  /\ F \subseteq Grave
  /\ Borne({"CNAME_DANGLING"}, Dangles(w), F)
  /\ Borne(Shown, ShowsMissingResource(w), F)
  /\ Borne({"DELEGATION_BROKEN"}, DelegatesToTheDead(w, 0), F)
  /\ Borne({"DELEGATION_TAKEOVER_CANDIDATE"}, DelegatesToTheDead(w, 0) /\ OneProviderAndNoDS(w, 0), F)

\* The names of the collectors.
Steps ==
  {"cname", "service_binding", "ns", "http", "mx", "txt", "srv", "tls",
   "ip", "email", "http_security", "shadow_it", "zone_transfer", "dnssec", "http_mutator", "http_framing",
   "correlator", "caa", "cookie_scope", "cors_scope", "txt_residual", "provider_history", "redirect_chain", "http_posture",
   "vhost", "web_dependency", "origin"}

LEMMA ProfileIsListed ==
  ASSUME NEW w, Listed(w)
  PROVE /\ IsList(w.a) /\ IsList(w.aaaa) /\ IsList(w.aliases) /\ IsList(w.mx) /\ IsList(w.txt) /\ IsList(w.srv)
        /\ IsList(w.bindings) /\ IsList(w.dnames)
  BY DEF Listed, ProfileLists

\* Every collector keeps a sound analysis sound, of what it looked at.
LEMMA CollectorSound ==
  ASSUME NEW w, NEW F, NEW a, Listed(w), Honest(w, F), Sound(a, F), NEW name \in Steps
  PROVE Sound(Collector(name, w, a), F)
<1>1. /\ F \subseteq Grave
      /\ Borne({"CNAME_DANGLING"}, Dangles(w), F)
      /\ Borne(Shown, ShowsMissingResource(w), F)
      /\ Borne({"DELEGATION_BROKEN"}, DelegatesToTheDead(w, 0), F)
      /\ Borne({"DELEGATION_TAKEOVER_CANDIDATE"}, DelegatesToTheDead(w, 0) /\ OneProviderAndNoDS(w, 0), F)
  BY DEF Honest
<1>2. /\ IsList(w.a) /\ IsList(w.aaaa) /\ IsList(w.aliases) /\ IsList(w.mx) /\ IsList(w.txt) /\ IsList(w.srv)
      /\ IsList(w.bindings) /\ IsList(w.dnames)
  BY ProfileIsListed
<1>3. /\ IsList(w.tls.sans) /\ IsList(w.tls.variants) /\ \A s \in Schemes : IsList(w.web[s].refs)
      /\ \A s \in Schemes : \A p \in ToSet(HostProbes \o FramingProbes) : p \in DOMAIN w.raw[s]
      /\ w.maxProbes \in Nat /\ CutIsSound(w)
  BY DEF Listed
<1>33. Rated(w.aliases) /\ Rated(w.mx) /\ Rated(w.srv) /\ RatedTokens(w.txt) /\ w.tls.signature.confidence \in 0..100
  BY DEF Listed, Ratings
<1>4. Borne({"HTTP_BODY_MATCH", "HTTP_MUTATION_REVEALED_PROVIDER_FINGERPRINT"}, ShowsMissingResource(w), F)
  BY <1>1 DEF Shown
<1>5. Sound(CollectCNAME(w, a), F) BY <1>1, <1>2, <1>33, CNAMESound
<1>6. Sound(CollectBindings(w, a), F) BY <1>1, <1>2, BindingsSound
<1>7. Sound(CollectNS(w, a), F) BY <1>1, <1>3, NSSound
<1>8. Sound(CollectHTTP(w, a), F) BY <1>1, <1>2, <1>4, HTTPSound
<1>9. Sound(CollectMX(w, a), F) BY <1>1, <1>2, <1>33, MXSound
<1>10. Sound(CollectTXT(w, a), F) BY <1>1, <1>2, <1>33, TXTSound
<1>11. Sound(CollectSRV(w, a), F) BY <1>1, <1>2, <1>33, SRVSound
<1>12. Sound(CollectTLS(w, a), F) BY <1>1, <1>3, <1>33, TLSSound
<1>13. Sound(CollectIP(w, a), F) BY <1>1, <1>2, IPSound
<1>14. Sound(CollectEmailSecurity(w, a), F) BY <1>1, <1>2, EmailSound
<1>15. Sound(CollectHTTPSecurity(w, a), F) BY <1>1, <1>2, HTTPSecuritySound
<1>16. Sound(CollectShadowIT(w, a), F) BY <1>1, <1>2, ShadowITSound
<1>17. Sound(CollectZoneTransfer(w, a), F) BY <1>1, <1>2, ZoneTransferSound
<1>18. Sound(CollectDNSSEC(w, a), F) BY <1>1, <1>2, DNSSECSound
<1>19. Sound(CollectMutator(w, a), F) BY <1>1, <1>2, <1>3, MutatorSound
<1>20. Sound(CollectFraming(w, a), F) BY <1>1, <1>3, FramingSound
<1>21. Sound(Correlate(w, a), F) BY <1>1, <1>2, CorrelateSound
<1>22. Sound(CollectCAA(w, a), F) BY <1>1, <1>2, CAASound
<1>23. Sound(CollectCookieScope(w, a), F) BY <1>1, <1>2, CookieScopeSound
<1>24. Sound(CollectCORSScope(w, a), F) BY <1>1, <1>2, CORSScopeSound
<1>25. Sound(CollectTXTResidual(w, a), F) BY <1>1, <1>2, TXTResidualSound
<1>26. Sound(CollectProviderHistory(w, a), F) BY <1>1, <1>2, ProviderHistorySound
<1>27. Sound(CollectRedirects(w, a), F) BY <1>1, <1>2, RedirectsSound
<1>28. Sound(CollectHTTPPosture(w, a), F) BY <1>1, <1>2, HTTPPostureSound
<1>29. Sound(CollectVHost(w, a), F) BY <1>1, <1>2, VHostSound
<1>30. Sound(CollectWebDependencies(w, a), F) BY <1>1, <1>3, WebDependenciesSound
<1>31. Sound(CollectOrigin(w, a), F) BY <1>1, <1>2, <1>3, OriginSound
<1> HIDE DEF Collector
<1>32. QED
  BY <1>5, <1>6, <1>7, <1>8, <1>9, <1>10, <1>11, <1>12, <1>13, <1>14, <1>15, <1>16, <1>17, <1>18, <1>19, <1>20, <1>21,
     <1>22, <1>23, <1>24, <1>25, <1>26, <1>27, <1>28, <1>29, <1>30, <1>31 DEF Collector, Steps

-----------------------------------------------------------------------------
(* A look at the world that may show less than there is.                    *)

\* What a look at the world may show less of, when lookups failed: each part
\* of it follows from the same part of the world as it is.
TerminalFollows(t, T) == t.status \in Negative => T.status \in Negative
WebFollows(v, V) ==
  \A s \in Schemes : v[s].complete = V[s].complete /\ v[s].status = V[s].status /\ v[s].body = V[s].body
RawFollows(r, R) ==
  \A s \in Schemes :
    /\ DOMAIN r[s] = DOMAIN R[s]
    /\ \A p \in DOMAIN R[s] :
         (\A i \in 1..4 : r[s][p][i].part = "body") => \A i \in 1..4 : r[s][p][i] = R[s][p][i]
ServersFollow(n, N) ==
  \A s \in DOMAIN N : (Dead(n[s]) => Dead(N[s])) /\ n[s].provider = N[s].provider
CutFollows(w, W, misses) ==
  /\ w.cut.listed = W.cut.listed /\ w.cut.listed \subseteq DOMAIN W.servers
  /\ Answering(w) \subseteq Answering(W)
  /\ \A p \in Answering(w) : /\ w.cut.views[p].ns = W.cut.views[p].ns /\ w.cut.views[p].ds = W.cut.views[p].ds
                             /\ W.cut.views[p].ns \subseteq DOMAIN W.servers
  /\ IsFiniteSet(Answering(W)) /\ Cardinality(Answering(W) \ Answering(w)) <= misses

Follows(w, W, misses) ==
  /\ w.aliases \in {W.aliases, <<>>}
  /\ TerminalFollows(w.terminal, W.terminal)
  /\ WebFollows(w.web, W.web)
  /\ RawFollows(w.raw, W.raw)
  /\ ServersFollow(w.servers, W.servers)
  /\ CutFollows(w, W, misses)

\* The same replies show the same.
LEMMA SameProbeShows ==
  ASSUME NEW replies, NEW others, NEW signature, ShownByProbe(replies, signature), \A n \in 1..4 : replies[n] = others[n]
  PROVE ShownByProbe(others, signature)
<1>1. replies[1] = others[1] /\ replies[2] = others[2] /\ replies[3] = others[3] /\ replies[4] = others[4] OBVIOUS
<1>2. QED BY <1>1, ZenonT(60) DEF ShownByProbe

\* What is seen in such a look is true of the world: a dangling alias,
LEMMA DanglesStays ==
  ASSUME NEW w, NEW W, w.aliases \in {W.aliases, <<>>}, TerminalFollows(w.terminal, W.terminal), Dangles(w)
  PROVE Dangles(W)
  BY DEF Dangles, TerminalFollows

\* a fingerprint that is shown,
LEMMA ShownStays ==
  ASSUME NEW w, NEW W, w.aliases \in {W.aliases, <<>>}, WebFollows(w.web, W.web), RawFollows(w.raw, W.raw),
         ShowsMissingResource(w)
  PROVE ShowsMissingResource(W)
<1>1. PICK i \in DOMAIN w.aliases, s \in Schemes :
        /\ Specific(w.aliases[i].signature)
        /\ \/ ShownOnPage(w.web[s], w.aliases[i].signature)
           \/ \E p \in DOMAIN w.raw[s] : ShownByProbe(w.raw[s][p], w.aliases[i].signature)
  BY DEF ShowsMissingResource
<1>2. w.aliases = W.aliases /\ i \in DOMAIN W.aliases
  <2>1. DOMAIN <<>> = {} OBVIOUS
  <2>2. w.aliases # <<>> BY <2>1
  <2>3. QED BY <2>2
<1> DEFINE signature == w.aliases[i].signature
<1>3. ASSUME ShownOnPage(w.web[s], signature) PROVE ShownOnPage(W.web[s], signature)
  BY <1>3, ZenonT(60) DEF WebFollows, ShownOnPage
<1>4. ASSUME NEW p \in DOMAIN w.raw[s], ShownByProbe(w.raw[s][p], signature)
      PROVE p \in DOMAIN W.raw[s] /\ ShownByProbe(W.raw[s][p], signature)
  <2>1. \A n \in 1..4 : w.raw[s][p][n].part = "body" BY <1>4, ZenonT(60) DEF ShownByProbe
  <2>2. p \in DOMAIN W.raw[s] /\ \A n \in 1..4 : w.raw[s][p][n] = W.raw[s][p][n] BY <2>1 DEF RawFollows
  <2> HIDE DEF signature
  <2>3. QED BY <1>4, <2>2, SameProbeShows, ZenonT(60)
<1>5. ShownOnPage(W.web[s], signature) \/ \E p \in DOMAIN W.raw[s] : ShownByProbe(W.raw[s][p], signature)
  BY <1>1, <1>3, <1>4
<1>6. QED BY <1>1, <1>2, <1>5 DEF ShowsMissingResource

\* When nothing was missed, every parent that answers was told.
LEMMA ToldAreAll ==
  ASSUME NEW S, IsFiniteSet(S), NEW told \in SUBSET S, Cardinality(S \ told) <= 0
  PROVE told = S
<1>1. IsFiniteSet(S \ told) BY FS_Subset
<1>2. Cardinality(S \ told) \in Nat BY <1>1, FS_CardinalityType
<1>3. Cardinality(S \ told) = 0 BY <1>2
<1>4. S \ told = {} BY <1>1, <1>3, FS_EmptySet
<1>5. QED BY <1>4

\* and a delegation that is dead, or of one provider without DS, but for the
\* parents that were missed.
LEMMA DeadStays ==
  ASSUME NEW w, NEW W, NEW k \in Nat, ServersFollow(w.servers, W.servers), CutFollows(w, W, k),
         DelegatesToTheDead(w, 0)
  PROVE DelegatesToTheDead(W, k)
<1> DEFINE names(v, told) == UNION {v.cut.views[p].ns : p \in told}
           dead(v, told) == IF names(v, told) = {} THEN v.cut.listed # {} /\ \A s \in v.cut.listed : Dead(v.servers[s])
                            ELSE \A s \in names(v, told) : Dead(v.servers[s])
<1>1. \A v, n : DelegatesToTheDead(v, n) <=>
        \E told \in SUBSET Answering(v) : Cardinality(Answering(v) \ told) <= n /\ dead(v, told)
  BY DEF DelegatesToTheDead
<1>2. PICK told \in SUBSET Answering(w) : Cardinality(Answering(w) \ told) <= 0 /\ dead(w, told)
  <2> HIDE DEF dead
  <2> QED BY <1>1
<1>3. told = Answering(w)
  <2>1. IsFiniteSet(Answering(w)) BY FS_Subset DEF CutFollows
  <2>2. QED BY <1>2, <2>1, ToldAreAll
<1>4. names(w, told) = names(W, told) /\ names(W, told) \subseteq DOMAIN W.servers BY <1>3 DEF CutFollows
<1>5. w.cut.listed = W.cut.listed /\ W.cut.listed \subseteq DOMAIN W.servers BY DEF CutFollows
<1>6. \A s \in DOMAIN W.servers : Dead(w.servers[s]) => Dead(W.servers[s]) BY DEF ServersFollow
<1>7. dead(W, told)
  <2> HIDE DEF names
  <2> QED BY <1>2, <1>4, <1>5, <1>6
<1>8. told \in SUBSET Answering(W) /\ Cardinality(Answering(W) \ told) <= k BY <1>3 DEF CutFollows
<1>9. QED
  <2> HIDE DEF dead
  <2> QED BY <1>1, <1>7, <1>8

LEMMA OneStays ==
  ASSUME NEW w, NEW W, NEW k \in Nat, ServersFollow(w.servers, W.servers), CutFollows(w, W, k),
         OneProviderAndNoDS(w, 0)
  PROVE OneProviderAndNoDS(W, k)
<1> DEFINE names(v, told) == UNION {v.cut.views[p].ns : p \in told}
           one(v, told) == /\ \A p, q \in told : v.cut.views[p].ns = v.cut.views[q].ns
                           /\ \A p \in told : ~v.cut.views[p].ds
           served(v, told) == /\ names(v, told) # {}
                              /\ \A s, t \in names(v, told) : v.servers[s].provider = v.servers[t].provider
<1>1. \A v, n : OneProviderAndNoDS(v, n) <=>
        \E told \in SUBSET Answering(v) : Cardinality(Answering(v) \ told) <= n /\ one(v, told) /\ served(v, told)
  BY DEF OneProviderAndNoDS
<1>2. PICK told \in SUBSET Answering(w) : Cardinality(Answering(w) \ told) <= 0 /\ one(w, told) /\ served(w, told)
  <2> HIDE DEF one, served
  <2> QED BY <1>1
<1>3. told = Answering(w)
  <2>1. IsFiniteSet(Answering(w)) BY FS_Subset DEF CutFollows
  <2>2. QED BY <1>2, <2>1, ToldAreAll
<1>4. names(w, told) = names(W, told) /\ names(W, told) \subseteq DOMAIN W.servers BY <1>3 DEF CutFollows
<1>5. one(W, told) BY <1>2, <1>3 DEF CutFollows
<1>6. \A s \in DOMAIN W.servers : w.servers[s].provider = W.servers[s].provider BY DEF ServersFollow
<1>7. served(W, told)
  <2> HIDE DEF names
  <2> QED BY <1>2, <1>4, <1>6
<1>8. told \in SUBSET Answering(W) /\ Cardinality(Answering(W) \ told) <= k BY <1>3 DEF CutFollows
<1>9. QED
  <2> HIDE DEF one, served
  <2> QED BY <1>1, <1>5, <1>7, <1>8

\* The more lookups failed, the less is false of the world for sure.
LEMMA MissesAddUp ==
  ASSUME NEW W, IsFiniteSet(Answering(W)), NEW m \in Nat, NEW n \in Nat, m <= n
  PROVE /\ DelegatesToTheDead(W, m) => DelegatesToTheDead(W, n)
        /\ OneProviderAndNoDS(W, m) => OneProviderAndNoDS(W, n)
<1>1. \A told \in SUBSET Answering(W) : Cardinality(Answering(W) \ told) <= m => Cardinality(Answering(W) \ told) <= n
  <2> TAKE told \in SUBSET Answering(W)
  <2>1. IsFiniteSet(Answering(W) \ told) BY FS_Subset
  <2>2. Cardinality(Answering(W) \ told) \in Nat BY <2>1, FS_CardinalityType
  <2>3. QED BY <2>2
<1>2. DelegatesToTheDead(W, m) => DelegatesToTheDead(W, n) BY <1>1 DEF DelegatesToTheDead
<1>3. OneProviderAndNoDS(W, m) => OneProviderAndNoDS(W, n) BY <1>1 DEF OneProviderAndNoDS
<1>4. QED BY <1>2, <1>3

LEMMA UntrueShrinks ==
  ASSUME NEW W, IsFiniteSet(Answering(W)), NEW m \in Nat, NEW n \in Nat, m <= n
  PROVE Untrue(W, n) \subseteq Untrue(W, m)
<1>1. /\ DelegatesToTheDead(W, m) => DelegatesToTheDead(W, n)
      /\ OneProviderAndNoDS(W, m) => OneProviderAndNoDS(W, n)
  BY MissesAddUp
<1>2. QED BY <1>1 DEF Untrue

LEMMA SoundShrinks == ASSUME NEW F, NEW G, G \subseteq F, NEW a, Sound(a, F) PROVE Sound(a, G)
  BY DEF Sound, Free

\* So a collector that looks at it and accuses accuses rightly.
LEMMA HonestWhenItFollows ==
  ASSUME NEW w, NEW W, NEW k \in Nat, Follows(w, W, k)
  PROVE Honest(w, Untrue(W, k))
<1> DEFINE F == Untrue(W, k)
<1>1. F \subseteq Grave BY DEF Untrue
<1>2. Dangles(w) => "CNAME_DANGLING" \notin F
  <2>1. Dangles(w) => Dangles(W) BY DanglesStays DEF Follows
  <2>2. "CNAME_DANGLING" \in F => ~Dangles(W) BY DEF Untrue, Shown
  <2>3. QED BY <2>1, <2>2
<1>3. ShowsMissingResource(w) => F \cap Shown = {}
  <2>1. ShowsMissingResource(w) => ShowsMissingResource(W) BY ShownStays DEF Follows
  <2>2. "HTTP_BODY_MATCH" \in F => ~ShowsMissingResource(W) BY DEF Untrue, Shown
  <2>3. "HTTP_MUTATION_REVEALED_PROVIDER_FINGERPRINT" \in F => ~ShowsMissingResource(W) BY DEF Untrue, Shown
  <2> HIDE DEF F
  <2>4. QED BY <2>1, <2>2, <2>3 DEF Shown
<1>4. DelegatesToTheDead(w, 0) => DelegatesToTheDead(W, k) BY DeadStays DEF Follows
<1>5. OneProviderAndNoDS(w, 0) => OneProviderAndNoDS(W, k) BY OneStays DEF Follows
<1>6. DelegatesToTheDead(w, 0) => "DELEGATION_BROKEN" \notin F BY <1>4 DEF Untrue
<1>7. DelegatesToTheDead(w, 0) /\ OneProviderAndNoDS(w, 0) => "DELEGATION_TAKEOVER_CANDIDATE" \notin F
  BY <1>4, <1>5 DEF Untrue
<1> HIDE DEF F
<1>8. QED BY <1>1, <1>2, <1>3, <1>6, <1>7 DEF Honest, Borne, F

\* A part that is as it is follows.
LEMMA PartsFollow ==
  /\ \A t : TerminalFollows(t, t)
  /\ \A v : WebFollows(v, v)
  /\ \A r : RawFollows(r, r)
  /\ \A n : ServersFollow(n, n)
  BY ZenonT(60) DEF TerminalFollows, WebFollows, RawFollows, ServersFollow

\* What the assumption about the worlds says of the zone cut.
LEMMA WorldCut ==
  ASSUME NEW W, IsWorld(W)
  PROVE /\ CutIsSound(W) /\ W.cut.listed \subseteq DOMAIN W.servers
        /\ \A p \in DOMAIN W.cut.views : W.cut.views[p].ns \subseteq DOMAIN W.servers
  BY ZenonT(60) DEF IsWorld, CutIsSound

LEMMA AnsweringIsFinite == ASSUME NEW W, CutIsSound(W) PROVE IsFiniteSet(Answering(W))
<1>1. Answering(W) \subseteq DOMAIN W.cut.views BY DEF Answering
<1>2. QED BY <1>1, FS_Subset DEF CutIsSound

LEMMA SameCut ==
  ASSUME NEW W, IsWorld(W), NEW w, w.cut = W.cut
  PROVE \A k \in Nat : CutFollows(w, W, k)
<1>1. CutIsSound(W) /\ W.cut.listed \subseteq DOMAIN W.servers
      /\ \A p \in DOMAIN W.cut.views : W.cut.views[p].ns \subseteq DOMAIN W.servers
  BY WorldCut
<1>2. Answering(w) = Answering(W) BY DEF Answering
<1>3. IsFiniteSet(Answering(W)) BY <1>1, AnsweringIsFinite
<1>4. Answering(W) \subseteq DOMAIN W.cut.views BY DEF Answering
<1>5. Cardinality(Answering(W) \ Answering(w)) <= 0 BY <1>2, AllAreTold
<1>6. Cardinality(Answering(W) \ Answering(w)) \in Nat
  <2>1. IsFiniteSet(Answering(W) \ Answering(w)) BY <1>3, FS_Subset
  <2>2. QED BY <2>1, FS_CardinalityType
<1>7. \A k \in Nat : Cardinality(Answering(W) \ Answering(w)) <= k BY <1>5, <1>6, SMTT(60)
<1>8. QED BY <1>1, <1>2, <1>3, <1>4, <1>7 DEF CutFollows

\* The parts of the world no query of the profile gives.
Given == {"dnames", "terminal", "cut", "servers", "web", "tls", "raw", "maxProbes"}

\* D is the world with the profile that was found.
Found(D, W) ==
  /\ DOMAIN D = DOMAIN W
  /\ \A field \in Given : D[field] = W[field]
  /\ \A field \in ProfileLists : IsList(D[field])
  /\ D.aliases \in {W.aliases, <<>>}
  /\ Ratings(D)

LEMMA RatedJoin == ASSUME NEW s, NEW t, IsList(s), IsList(t), Rated(s), Rated(t) PROVE Rated(s \o t)
<1>1. ToSet(s \o t) \subseteq ToSet(s) \cup ToSet(t) BY ListJoin
<1>2. \A e \in ToSet(s) \cup ToSet(t) : "signature" \in DOMAIN e /\ e.signature.confidence \in 0..100
  BY DEF Rated, ToSet
<1>3. \A i \in DOMAIN (s \o t) : (s \o t)[i] \in ToSet(s \o t) BY DEF ToSet
<1>4. QED BY <1>1, <1>2, <1>3 DEF Rated

LEMMA NoneIsRated == Rated(<<>>) /\ RatedTokens(<<>>)
  BY DEF Rated, RatedTokens

LEMMA EmptyIsAList == IsList(<<>>)
  BY DEF IsList

\* DiscoverProfile leaves records out, and changes nothing else.
LEMMA ProfileIsFound ==
  ASSUME NEW W, IsWorld(W), NEW failed \in SUBSET ProfileQueries, NEW one \in BOOLEAN,
         NEW D, D = [Profiled(W, failed) EXCEPT !.srv = @ \o If(one, W.common)]
  PROVE Found(D, W)
<1> DEFINE P == Profiled(W, failed)
           more == If(one, W.common)
<1>1. /\ DOMAIN P = DOMAIN W
      /\ \A field \in DOMAIN W : P[field] = IF field \notin failed THEN W[field] ELSE IF field = "caa" THEN {} ELSE <<>>
  BY DEF Profiled
<1>2. /\ Given \cup ProfileLists \cup {"common"} \subseteq DOMAIN W /\ \A field \in ProfileLists \cup {"common"} : IsList(W[field])
  BY ZenonT(60) DEF IsWorld, WorldFields, Given
<1>3. D = [P EXCEPT !.srv = P.srv \o more] OBVIOUS
<1>4. IsList(more) BY <1>2, EmptyIsAList DEF If
<1> HIDE DEF P, more
<1>5. Given \cap ProfileQueries = {} /\ "srv" \notin Given BY DEF Given, ProfileQueries
<1>6. \A field \in Given : D[field] = W[field] BY <1>1, <1>2, <1>3, <1>5
<1>7. \A field \in ProfileLists : IsList(P[field])
  <2> TAKE field \in ProfileLists
  <2>1. field # "caa" BY DEF ProfileLists
  <2>2. P[field] = W[field] \/ P[field] = <<>> BY <1>1, <1>2, <2>1
  <2>3. QED BY <1>2, <2>2, EmptyIsAList
<1>8. "srv" \in ProfileLists /\ "aliases" \in ProfileLists BY DEF ProfileLists
<1>9. IsList(P.srv \o more)
  <2>1. IsList(P.srv) BY <1>7, <1>8
  <2>2. QED BY <1>4, <2>1, ListJoin
<1>10. \A field \in ProfileLists : IsList(D[field])
  <2> TAKE field \in ProfileLists
  <2>1. field \in DOMAIN P BY <1>1, <1>2
  <2>2. CASE field = "srv" BY <1>3, <1>9, <2>1, <2>2
  <2>3. CASE field # "srv" BY <1>3, <1>7, <2>1, <2>3
  <2>4. QED BY <2>2, <2>3
<1>11. D.aliases \in {W.aliases, <<>>}
  <2>1. D.aliases = P.aliases BY <1>1, <1>2, <1>3, <1>8
  <2>2. P.aliases = W.aliases \/ P.aliases = <<>> BY <1>1, <1>2, <1>8
  <2>3. QED BY <2>1, <2>2
<1>12. DOMAIN D = DOMAIN W
  <2>1. DOMAIN D = DOMAIN P BY <1>3, ZenonT(60)
  <2> QED BY <1>1, <2>1
<1>13. Rated(W.aliases) /\ Rated(W.mx) /\ Rated(W.srv) /\ Rated(W.common) /\ RatedTokens(W.txt) /\ W.tls.signature.confidence \in 0..100
  BY ZenonT(60) DEF IsWorld, Rated, RatedTokens
<1>14. Rated(P.aliases) /\ Rated(P.mx) /\ Rated(P.srv) /\ RatedTokens(P.txt)
  <2>1. \A field \in {"aliases", "mx", "srv", "txt"} : P[field] = W[field] \/ P[field] = <<>>
    BY <1>1, <1>2 DEF ProfileLists
  <2>2. QED BY <1>13, <2>1, NoneIsRated
<1>15. Rated(more) BY <1>13, NoneIsRated DEF more, If
<1>16. Rated(P.srv \o more) BY <1>4, <1>7, <1>8, <1>14, <1>15, RatedJoin
<1>17. D.aliases = P.aliases /\ D.mx = P.mx /\ D.txt = P.txt /\ D.srv = P.srv \o more /\ D.tls = W.tls
  <2>1. {"aliases", "mx", "txt", "srv"} \subseteq DOMAIN P BY <1>1, <1>2 DEF ProfileLists
  <2>2. D.tls = W.tls BY <1>6 DEF Given
  <2>3. QED BY <1>3, <2>1, <2>2
<1>18. Ratings(D) BY <1>13, <1>14, <1>16, <1>17 DEF Ratings
<1>19. QED BY <1>6, <1>10, <1>11, <1>12, <1>18, ZenonT(60) DEF Found

\* A look that follows the profile found, and the parts collectors need in it.
Kept(w) ==
  /\ \A field \in ProfileLists \cup {"dnames"} : IsList(w[field])
  /\ IsList(w.tls.sans) /\ IsList(w.tls.variants)
  /\ w.maxProbes \in Nat
  /\ Ratings(w)

LEMMA WorldIsKept ==
  ASSUME NEW W, IsWorld(W), NEW D, Found(D, W) PROVE Kept(D) /\ D.aliases \in {W.aliases, <<>>}
<1>1. D.dnames = W.dnames /\ D.tls = W.tls /\ D.maxProbes = W.maxProbes /\ D.aliases \in {W.aliases, <<>>}
  BY ZenonT(60) DEF Found, Given
<1>2. IsList(W.dnames) /\ IsList(W.tls.sans) /\ IsList(W.tls.variants) /\ W.maxProbes \in Nat BY ZenonT(60) DEF IsWorld
<1>3. \A field \in ProfileLists \cup {"dnames"} : IsList(D[field]) BY <1>1, <1>2 DEF Found
<1>5. Ratings(D) BY DEF Found
<1>4. QED BY <1>1, <1>2, <1>3, <1>5 DEF Kept

WebIsWhole(v) == \A s \in Schemes : IsList(v[s].refs)
RawIsWhole(r) == \A s \in Schemes : \A p \in ToSet(HostProbes \o FramingProbes) : p \in DOMAIN r[s]

\* With no lookup that fails, the collectors see the world.
LEMMA CalmLook ==
  ASSUME NEW W, IsWorld(W), NEW D, Found(D, W)
  PROVE Listed(D) /\ Follows(D, W, 0)
<1>1. D.terminal = W.terminal /\ D.cut = W.cut /\ D.servers = W.servers /\ D.web = W.web /\ D.raw = W.raw
  BY DEF Found, Given
<1>2. Kept(D) /\ D.aliases \in {W.aliases, <<>>} BY WorldIsKept, ZenonT(60)
<1>3. WebIsWhole(W.web) /\ RawIsWhole(W.raw) BY ZenonT(60) DEF IsWorld, WebIsWhole, RawIsWhole
<1>4. CutIsSound(D) BY <1>1, WorldCut DEF CutIsSound
<1>5. Listed(D) BY <1>1, <1>2, <1>3, <1>4 DEF Listed, Kept, WebIsWhole, RawIsWhole
<1>6. CutFollows(D, W, 0) BY <1>1, SameCut
<1>7. Follows(D, W, 0) BY <1>1, <1>2, <1>6, PartsFollow DEF Follows
<1>8. QED BY <1>5, <1>7

-----------------------------------------------------------------------------
(* What one lookup that fails changes.                                      *)

\* One part of what was found changes under a collector, and no other.
Otherwise(w, D, part) == DOMAIN w = DOMAIN D /\ \A field \in DOMAIN D \ {part} : w[field] = D[field]

\* A look that differs in one part follows when the part does.
LEMMA OneChange ==
  ASSUME NEW W, IsWorld(W), NEW D, Found(D, W), NEW part, NEW w, Otherwise(w, D, part),
         part \notin {"aliases", "dnames", "maxProbes"},
         part \in ProfileLists => part \in {"mx", "srv"} /\ IsList(w[part]) /\ Rated(w[part]),
         part = "tls" => IsList(w.tls.sans) /\ IsList(w.tls.variants) /\ w.tls.signature = W.tls.signature,
         part = "terminal" => TerminalFollows(w.terminal, W.terminal),
         part = "web" => WebFollows(w.web, W.web) /\ WebIsWhole(w.web),
         part = "raw" => RawFollows(w.raw, W.raw) /\ RawIsWhole(w.raw),
         part = "servers" => ServersFollow(w.servers, W.servers),
         part = "cut" => CutIsSound(w) /\ CutFollows(w, W, 1)
  PROVE Listed(w) /\ Follows(w, W, 1)
<1>1. D.terminal = W.terminal /\ D.cut = W.cut /\ D.servers = W.servers /\ D.web = W.web /\ D.raw = W.raw
  BY DEF Found, Given
<1>2. Kept(D) /\ D.aliases \in {W.aliases, <<>>} BY WorldIsKept, ZenonT(60)
<1>3. WebIsWhole(W.web) /\ RawIsWhole(W.raw) BY ZenonT(60) DEF IsWorld, WebIsWhole, RawIsWhole
<1>4. Given \cup ProfileLists \subseteq DOMAIN D /\ "aliases" \in ProfileLists
  BY DEF Found, IsWorld, WorldFields, Given, ProfileLists
<1>5. \A field \in Given \cup ProfileLists : field # part => w[field] = D[field] BY <1>4 DEF Otherwise
<1>6. w.aliases \in {W.aliases, <<>>} BY <1>2, <1>4, <1>5
<1>7. TerminalFollows(w.terminal, W.terminal) BY <1>1, <1>5, PartsFollow DEF Given
<1>8. WebFollows(w.web, W.web) /\ WebIsWhole(w.web) BY <1>1, <1>3, <1>5, PartsFollow DEF Given
<1>9. RawFollows(w.raw, W.raw) /\ RawIsWhole(w.raw) BY <1>1, <1>3, <1>5, PartsFollow DEF Given
<1>10. ServersFollow(w.servers, W.servers) BY <1>1, <1>5, PartsFollow DEF Given
<1>11. CutIsSound(w) /\ CutFollows(w, W, 1)
  <2>1. w.cut = W.cut => CutIsSound(w) /\ CutFollows(w, W, 1) BY WorldCut, SameCut DEF CutIsSound
  <2>2. "cut" # part => w.cut = W.cut BY <1>1, <1>5 DEF Given
  <2>3. QED BY <2>1, <2>2
<1>12. IsList(w.tls.sans) /\ IsList(w.tls.variants)
  <2>1. "tls" # part => w.tls = D.tls BY <1>5 DEF Given
  <2>2. QED BY <1>2, <2>1 DEF Kept
<1>13. w.maxProbes \in Nat /\ IsList(w.dnames)
  <2>1. w.maxProbes = D.maxProbes /\ w.dnames = D.dnames BY <1>5 DEF Given
  <2>2. QED BY <1>2, <2>1 DEF Kept
<1>14. \A field \in ProfileLists \cup {"dnames"} : IsList(w[field])
  <2>1. \A field \in ProfileLists : IsList(D[field]) BY <1>2 DEF Kept
  <2>2. \A field \in ProfileLists : IsList(w[field]) BY <1>5, <2>1
  <2>3. QED BY <1>13, <2>2
<1>18. Ratings(w)
  <2>1. Rated(D.aliases) /\ Rated(D.mx) /\ Rated(D.srv) /\ RatedTokens(D.txt) /\ D.tls.signature.confidence \in 0..100
    BY <1>2 DEF Kept, Ratings
  <2>2. {"aliases", "mx", "srv", "txt"} \subseteq ProfileLists /\ "tls" \in Given BY DEF ProfileLists, Given
  <2>3. w.aliases = D.aliases /\ w.txt = D.txt BY <1>5, <2>2
  <2>4. part # "mx" => w.mx = D.mx BY <1>5, <2>2
  <2>5. part # "srv" => w.srv = D.srv BY <1>5, <2>2
  <2>6. part # "tls" => w.tls = D.tls BY <1>5, <2>2
  <2>7. D.tls = W.tls BY DEF Found, Given
  <2>8. w.tls.signature.confidence \in 0..100 BY <2>1, <2>6, <2>7
  <2>9. Rated(w.mx) BY <2>1, <2>2, <2>4
  <2>10. Rated(w.srv) BY <2>1, <2>2, <2>5
  <2>11. QED BY <2>1, <2>3, <2>8, <2>9, <2>10 DEF Ratings
<1>15. Listed(w) BY <1>8, <1>9, <1>11, <1>12, <1>13, <1>14, <1>18 DEF Listed, WebIsWhole, RawIsWhole
<1>16. Follows(w, W, 1) BY <1>6, <1>7, <1>8, <1>9, <1>10, <1>11 DEF Follows
<1>17. QED BY <1>15, <1>16

LEMMA ChangedList ==
  ASSUME NEW list, IsList(list), NEW i \in DOMAIN list, NEW e PROVE IsList([list EXCEPT ![i] = e])
<1> DEFINE S == ToSet(list) \cup {e}
<1>1. list \in Seq(S)
  <2>1. list \in Seq(ToSet(list)) BY DEF IsList
  <2>2. ToSet(list) \subseteq S OBVIOUS
  <2> HIDE DEF S
  <2>3. QED BY <2>1, <2>2
<1>2. e \in S OBVIOUS
<1> HIDE DEF S
<1>3. [list EXCEPT ![i] = e] \in Seq(S) BY <1>1, <1>2
<1>4. QED BY <1>3, ListOfASet

LEMMA OtherFields ==
  ASSUME NEW D, NEW part, NEW new, NEW w, w = [D EXCEPT ![part] = new]
  PROVE Otherwise(w, D, part) /\ (part \in DOMAIN D => w[part] = new)
  BY ZenonT(60) DEF Otherwise

LEMMA FieldsOfAWorld ==
  ASSUME NEW W, IsWorld(W), NEW D, Found(D, W) PROVE WorldFields \subseteq DOMAIN D
  BY ZenonT(60) DEF IsWorld, Found

\* The parts no accusation rests on.
LEMMA IdleLook ==
  ASSUME NEW W, IsWorld(W), NEW D, Found(D, W), NEW part \in {"spf", "dnssec", "sites", "hosts", "direct"}, NEW new,
         NEW w, w = [D EXCEPT ![part] = new]
  PROVE Listed(w) /\ Follows(w, W, 1)
<1>1. Otherwise(w, D, part) BY OtherFields
<1>2. part \notin ProfileLists /\ part \notin {"aliases", "dnames", "maxProbes", "tls", "terminal", "web", "raw",
                                               "servers", "cut"}
  BY DEF ProfileLists
<1>3. QED BY <1>1, <1>2, OneChange

\* Each kind of lookup, failing.
LEMMA ListLook ==
  ASSUME NEW W, IsWorld(W), NEW D, Found(D, W), NEW part \in {"mx", "srv"}, NEW i \in DOMAIN D[part], NEW e,
         e = Failing(D[part][i]),
         NEW w, w = [D EXCEPT ![part] = [D[part] EXCEPT ![i] = e]]
  PROVE Listed(w) /\ Follows(w, W, 1)
<1>1. Otherwise(w, D, part) /\ (part \in DOMAIN D => w[part] = [D[part] EXCEPT ![i] = e]) BY OtherFields, ZenonT(60)
<1>2. part \in ProfileLists /\ part \in DOMAIN D /\ part \notin {"aliases", "dnames", "maxProbes", "tls", "terminal",
                                                                 "web", "raw", "servers", "cut"}
  BY FieldsOfAWorld DEF ProfileLists, WorldFields
<1>3. IsList(D[part]) BY <1>2 DEF Found
<1>4. IsList(w[part]) BY <1>1, <1>2, <1>3, ChangedList
<1>5. Rated(D[part])
  <2>1. Rated(D.mx) /\ Rated(D.srv) BY DEF Found, Ratings
  <2>2. QED BY <2>1
<1>6. e.signature = D[part][i].signature /\ "signature" \in DOMAIN e BY <1>5 DEF Rated, Failing
<1>7. Rated(w[part]) BY <1>1, <1>2, <1>5, <1>6 DEF Rated
<1>8. QED BY <1>1, <1>2, <1>4, <1>7, OneChange

LEMMA TLSLook ==
  ASSUME NEW W, IsWorld(W), NEW D, Found(D, W), NEW w, w = [D EXCEPT !.tls = [D.tls EXCEPT !.seen = FALSE]]
  PROVE Listed(w) /\ Follows(w, W, 1)
<1>1. Otherwise(w, D, "tls") /\ ("tls" \in DOMAIN D => w.tls = [D.tls EXCEPT !.seen = FALSE]) BY OtherFields
<1>2. "tls" \in DOMAIN D BY FieldsOfAWorld DEF WorldFields
<1>3. D.tls = W.tls BY SMTT(60) DEF Found, Given
<1>4. w.tls.sans = W.tls.sans /\ w.tls.variants = W.tls.variants /\ w.tls.signature = W.tls.signature
  BY <1>1, <1>2, <1>3, ZenonT(60) DEF IsWorld
<1>5. IsList(w.tls.sans) /\ IsList(w.tls.variants) BY <1>4, ZenonT(60) DEF IsWorld
<1>6. "tls" \notin ProfileLists /\ "tls" \notin {"aliases", "dnames", "maxProbes", "terminal", "web", "raw",
                                                 "servers", "cut"}
  BY DEF ProfileLists
<1>7. QED BY <1>1, <1>4, <1>5, <1>6, OneChange, ZenonT(60)

LEMMA TerminalLook ==
  ASSUME NEW W, IsWorld(W), NEW D, Found(D, W), NEW t \in Transient, NEW w,
         w = [D EXCEPT !.terminal = [status |-> t, state |-> "INCONCLUSIVE"]]
  PROVE Listed(w) /\ Follows(w, W, 1)
<1>1. Otherwise(w, D, "terminal") /\ ("terminal" \in DOMAIN D => w.terminal = [status |-> t, state |-> "INCONCLUSIVE"])
  BY OtherFields
<1>2. "terminal" \in DOMAIN D BY FieldsOfAWorld DEF WorldFields
<1>3. w.terminal.status = t BY <1>1, <1>2
<1>4. TerminalFollows(w.terminal, W.terminal) BY <1>3 DEF TerminalFollows, Transient, Negative
<1>5. "terminal" \notin ProfileLists /\ "terminal" \notin {"aliases", "dnames", "maxProbes", "tls", "web", "raw",
                                                           "servers", "cut"}
  BY DEF ProfileLists
<1>6. QED BY <1>1, <1>4, <1>5, OneChange

LEMMA WebLook ==
  ASSUME NEW W, IsWorld(W), NEW D, Found(D, W), NEW s \in Schemes, NEW w,
         w = [D EXCEPT !.web = [D.web EXCEPT ![s] = [D.web[s] EXCEPT !.transport = "timeout"]]]
  PROVE Listed(w) /\ Follows(w, W, 1)
<1> DEFINE new == [D.web EXCEPT ![s] = [D.web[s] EXCEPT !.transport = "timeout"]]
<1>1. Otherwise(w, D, "web") /\ ("web" \in DOMAIN D => w.web = new) BY OtherFields
<1>2. "web" \in DOMAIN D BY FieldsOfAWorld DEF WorldFields
<1>3. D.web = W.web BY ZenonT(60) DEF Found, Given
<1>4. \A x \in Schemes : x \in DOMAIN W.web /\ {"complete", "status", "body", "refs"} \subseteq DOMAIN W.web[x]
  BY ZenonT(60) DEF IsWorld
<1>5. ASSUME NEW x \in Schemes PROVE \A field \in {"complete", "status", "body",
                                                   "refs"} : new[x][field] = W.web[x][field]
  BY <1>3, <1>4, <1>5, ZenonT(60)
<1>6. \A x \in Schemes : IsList(W.web[x].refs) BY ZenonT(60) DEF IsWorld
<1>7. WebFollows(new, W.web) /\ WebIsWhole(new)
  <2> HIDE DEF new
  <2> QED BY <1>5, <1>6 DEF WebFollows, WebIsWhole
<1>8. WebFollows(w.web, W.web) /\ WebIsWhole(w.web) BY <1>1, <1>2, <1>7
<1>9. "web" \notin ProfileLists /\ "web" \notin {"aliases", "dnames", "maxProbes", "tls", "terminal", "raw",
                                                 "servers", "cut"}
  BY DEF ProfileLists
<1>10. QED BY <1>1, <1>8, <1>9, OneChange

LEMMA RawLook ==
  ASSUME NEW W, IsWorld(W), NEW D, Found(D, W), NEW s \in Schemes, NEW probe \in ToSet(HostProbes \o FramingProbes),
         NEW i \in 1..4, NEW w,
         w = [D EXCEPT !.raw = [D.raw EXCEPT ![s] = [D.raw[s] EXCEPT ![probe] = [D.raw[s][probe] EXCEPT ![i] = Silent]]]]
  PROVE Listed(w) /\ Follows(w, W, 1)
<1> DEFINE new == [D.raw EXCEPT ![s] = [D.raw[s] EXCEPT ![probe] = [D.raw[s][probe] EXCEPT ![i] = Silent]]]
<1>1. Otherwise(w, D, "raw") /\ ("raw" \in DOMAIN D => w.raw = new) BY OtherFields
<1>2. "raw" \in DOMAIN D BY FieldsOfAWorld DEF WorldFields
<1>3. D.raw = W.raw BY ZenonT(60) DEF Found, Given
<1>4. \A x \in Schemes : x \in DOMAIN W.raw /\ \A p \in ToSet(HostProbes \o FramingProbes) : p \in DOMAIN W.raw[x] /\ 1..4 \subseteq DOMAIN W.raw[x][p]
  BY ZenonT(60) DEF IsWorld
<1>5. \A x \in Schemes : DOMAIN new[x] = DOMAIN W.raw[x] BY <1>3, <1>4
<1>6. new[s][probe][i].part # "body" BY <1>3, <1>4 DEF Silent
<1>7. \A x \in Schemes : \A p \in DOMAIN W.raw[x] : x # s \/ p # probe => new[x][p] = W.raw[x][p] BY <1>3, <1>4
<1>8. RawFollows(new, W.raw)
  <2> HIDE DEF new
  <2> QED BY <1>5, <1>6, <1>7 DEF RawFollows
<1>9. RawIsWhole(new)
  <2> HIDE DEF new
  <2> QED BY <1>4, <1>5 DEF RawIsWhole
<1>10. RawFollows(w.raw, W.raw) /\ RawIsWhole(w.raw) BY <1>1, <1>2, <1>8, <1>9
<1>11. "raw" \notin ProfileLists /\ "raw" \notin {"aliases", "dnames", "maxProbes", "tls", "terminal", "web",
                                                  "servers", "cut"}
  BY DEF ProfileLists
<1>12. QED BY <1>1, <1>10, <1>11, OneChange

LEMMA HealthLook ==
  ASSUME NEW W, IsWorld(W), NEW D, Found(D, W), NEW s \in DOMAIN D.servers, NEW server,
         \/ \E t \in {"TIMEOUT", "SERVFAIL"} : server = [D.servers[s] EXCEPT !.health = t]
         \/ server = [D.servers[s] EXCEPT !.address = "TIMEOUT"],
         NEW w, w = [D EXCEPT !.servers = [D.servers EXCEPT ![s] = server]]
  PROVE Listed(w) /\ Follows(w, W, 1)
<1> DEFINE new == [D.servers EXCEPT ![s] = server]
<1>1. Otherwise(w, D, "servers") /\ ("servers" \in DOMAIN D => w.servers = new)
  <2>1. w = [D EXCEPT !.servers = new] OBVIOUS
  <2> HIDE DEF new
  <2>2. QED BY <2>1, OtherFields
<1>2. "servers" \in DOMAIN D BY FieldsOfAWorld DEF WorldFields
<1>3. D.servers = W.servers BY ZenonT(60) DEF Found, Given
<1>4. {"health", "address", "provider"} \subseteq DOMAIN W.servers[s]
  <2>1. \A x \in DOMAIN W.servers : {"health", "address", "provider", "transfer"} \subseteq DOMAIN W.servers[x]
    BY ZenonT(60) DEF IsWorld
  <2>2. QED BY <1>3, <2>1
<1>5. server.provider = W.servers[s].provider BY <1>3, <1>4
<1>6. Dead(server) => Dead(W.servers[s]) BY <1>3, <1>4 DEF Dead, Negative
<1>7. \A x \in DOMAIN W.servers : new[x] = IF x = s THEN server ELSE W.servers[x] BY <1>3
<1>8. ServersFollow(new, W.servers)
  <2> HIDE DEF new
  <2> QED BY <1>5, <1>6, <1>7 DEF ServersFollow
<1>9. ServersFollow(w.servers, W.servers) BY <1>1, <1>2, <1>8
<1>10. "servers" \notin ProfileLists /\ "servers" \notin {"aliases", "dnames", "maxProbes", "tls", "terminal", "web",
                                                          "raw", "cut"}
  BY DEF ProfileLists
<1>11. QED BY <1>1, <1>9, <1>10, OneChange

LEMMA ViewLook ==
  ASSUME NEW W, IsWorld(W), NEW D, Found(D, W), NEW p \in DOMAIN D.cut.views, NEW w,
         w = [D EXCEPT !.cut = [D.cut EXCEPT !.views = [D.cut.views EXCEPT ![p] = [D.cut.views[p] EXCEPT !.rcode = "SERVFAIL"]]]]
  PROVE Listed(w) /\ Follows(w, W, 1)
<1> DEFINE seen == [D.cut.views EXCEPT ![p] = [D.cut.views[p] EXCEPT !.rcode = "SERVFAIL"]]
           new == [D.cut EXCEPT !.views = seen]
           views == W.cut.views
<1>1. Otherwise(w, D, "cut") /\ ("cut" \in DOMAIN D => w.cut = new) BY OtherFields, ZenonT(60)
<1>2. w.cut = new BY <1>1, FieldsOfAWorld DEF WorldFields
<1>3. D.cut = W.cut BY ZenonT(60) DEF Found, Given
<1>4. {"listed", "views"} \subseteq DOMAIN W.cut /\ \A q \in DOMAIN views : {"rcode", "ns",
                                                                             "ds"} \subseteq DOMAIN views[q]
  BY ZenonT(60) DEF IsWorld
<1>5. w.cut.listed = W.cut.listed /\ w.cut.views = seen BY <1>2, <1>3, <1>4
<1>6. DOMAIN seen = DOMAIN views BY <1>3
<1>7. \A q \in DOMAIN views : seen[q].ns = views[q].ns /\ seen[q].ds = views[q].ds BY <1>3, <1>4
<1>8. \A q \in DOMAIN views : seen[q].rcode = IF q = p THEN "SERVFAIL" ELSE views[q].rcode BY <1>3, <1>4
<1> HIDE DEF seen, new
<1>9. CutIsSound(W) /\ W.cut.listed \subseteq DOMAIN W.servers /\ \A q \in DOMAIN views : views[q].ns \subseteq DOMAIN W.servers
  BY WorldCut, ZenonT(60)
<1>10. CutIsSound(w) BY <1>5, <1>6, <1>7, <1>8, <1>9, SMTT(60) DEF CutIsSound
<1>11. Answering(w) = Answering(W) \ {p} BY <1>5, <1>6, <1>8 DEF Answering, ValidDelegation
<1>12. IsFiniteSet(Answering(W)) BY <1>9, AnsweringIsFinite
<1>13. Cardinality(Answering(W) \ Answering(w)) <= 1
  <2>1. Answering(W) \ Answering(w) \subseteq {p} BY <1>11
  <2>2. IsFiniteSet({p}) /\ Cardinality({p}) = 1 BY FS_Singleton
  <2>3. QED BY <2>1, <2>2, FS_Subset
<1>14. Answering(w) \subseteq DOMAIN views /\ Answering(w) \subseteq Answering(W) BY <1>11 DEF Answering
<1>15. CutFollows(w, W, 1) BY <1>5, <1>7, <1>9, <1>12, <1>13, <1>14 DEF CutFollows
<1>16. "cut" \notin ProfileLists /\ "cut" \notin {"aliases", "dnames", "maxProbes", "tls", "terminal", "web", "raw",
                                                  "servers"}
  BY DEF ProfileLists
<1>17. QED BY <1>1, <1>10, <1>15, <1>16, OneChange

\* Whatever lookup of a collector fails, the look misses one part at most.
LEMMA TroubleLook ==
  ASSUME NEW W, IsWorld(W), NEW D, Found(D, W), NEW name \in Fallible, NEW w \in Trouble(name, D)
  PROVE Listed(w) /\ Follows(w, W, 1)
<1>1. CASE name = "cname"
  <2>1. w \in {[D EXCEPT !.terminal = [status |-> t, state |-> "INCONCLUSIVE"]] : t \in Transient} BY <1>1 DEF Trouble
  <2>2. PICK t \in Transient : w = [D EXCEPT !.terminal = [status |-> t, state |-> "INCONCLUSIVE"]] BY <2>1
  <2>3. QED BY <2>2, TerminalLook
<1>2. CASE name = "ns"
  <2> DEFINE sick == {[D EXCEPT !.servers[s].health = t] : s \in DOMAIN D.servers, t \in {"TIMEOUT", "SERVFAIL"}}
             homeless == {[D EXCEPT !.servers[s].address = "TIMEOUT"] : s \in DOMAIN D.servers}
             mute == {[D EXCEPT !.cut.views[p].rcode = "SERVFAIL"] : p \in DOMAIN D.cut.views}
  <2>1. w \in sick \cup homeless \cup mute BY <1>2 DEF Trouble
  <2>2. CASE w \in sick
    <3>1. PICK s \in DOMAIN D.servers, t \in {"TIMEOUT", "SERVFAIL"} :
            w = [D EXCEPT !.servers = [D.servers EXCEPT ![s] = [D.servers[s] EXCEPT !.health = t]]]
      BY <2>2
    <3>2. QED BY <3>1, HealthLook
  <2>3. CASE w \in homeless
    <3>1. PICK s \in DOMAIN D.servers :
            w = [D EXCEPT !.servers = [D.servers EXCEPT ![s] = [D.servers[s] EXCEPT !.address = "TIMEOUT"]]]
      BY <2>3
    <3>2. QED BY <3>1, HealthLook
  <2>4. CASE w \in mute
    <3>1. PICK p \in DOMAIN D.cut.views :
            w = [D EXCEPT !.cut = [D.cut EXCEPT !.views = [D.cut.views EXCEPT ![p] = [D.cut.views[p] EXCEPT !.rcode = "SERVFAIL"]]]]
      BY <2>4
    <3>2. QED BY <3>1, ViewLook
  <2> HIDE DEF sick, homeless, mute
  <2>5. QED BY <2>1, <2>2, <2>3, <2>4
<1>3. CASE name = "http"
  <2>1. w \in {[D EXCEPT !.web[s].transport = "timeout"] : s \in Schemes} BY <1>3 DEF Trouble
  <2>2. PICK s \in Schemes : w = [D EXCEPT !.web = [D.web EXCEPT ![s] = [D.web[s] EXCEPT !.transport = "timeout"]]]
    BY <2>1
  <2>3. QED BY <2>2, WebLook
<1>4. CASE name = "mx"
  <2>1. w \in {[D EXCEPT !.mx = m] : m \in OneOf(D.mx, Failing)} BY <1>4 DEF Trouble
  <2>2. PICK m \in OneOf(D.mx, Failing) : w = [D EXCEPT !.mx = m] BY <2>1
  <2>3. PICK i \in DOMAIN D.mx : m = [D.mx EXCEPT ![i] = Failing(D.mx[i])] BY <2>2 DEF OneOf
  <2>4. w = [D EXCEPT !["mx"] = [D["mx"] EXCEPT ![i] = Failing(D.mx[i])]] BY <2>2, <2>3
  <2>5. QED BY <2>4, ListLook
<1>5. CASE name = "srv"
  <2>1. w \in {[D EXCEPT !.srv = m] : m \in OneOf(D.srv, Failing)} BY <1>5 DEF Trouble
  <2>2. PICK m \in OneOf(D.srv, Failing) : w = [D EXCEPT !.srv = m] BY <2>1
  <2>3. PICK i \in DOMAIN D.srv : m = [D.srv EXCEPT ![i] = Failing(D.srv[i])] BY <2>2 DEF OneOf
  <2>4. w = [D EXCEPT !["srv"] = [D["srv"] EXCEPT ![i] = Failing(D.srv[i])]] BY <2>2, <2>3
  <2>5. QED BY <2>4, ListLook
<1>6. CASE name = "tls"
  <2>1. w \in {[D EXCEPT !.tls.seen = FALSE]} BY <1>6 DEF Trouble
  <2>2. w = [D EXCEPT !.tls = [D.tls EXCEPT !.seen = FALSE]] BY <2>1
  <2>3. QED BY <2>2, TLSLook
<1>7. CASE name = "email"
  <2>1. w \in {[D EXCEPT !.spf[d] = [@ EXCEPT !.status = "TIMEOUT"]] : d \in DOMAIN D.spf} BY <1>7 DEF Trouble
  <2>2. PICK new : w = [D EXCEPT !["spf"] = new] BY <2>1
  <2>3. QED BY <2>2, IdleLook
<1>8. CASE name = "dnssec"
  <2>1. w \in {[D EXCEPT !.dnssec.normal = "SERVFAIL"]} BY <1>8 DEF Trouble
  <2>2. PICK new : w = [D EXCEPT !["dnssec"] = new] BY <2>1
  <2>3. QED BY <2>2, IdleLook
<1>9. CASE name = "http_mutator"
  <2>1. w \in {SilentAt(D, s, i) : s \in Schemes, i \in 1..4} BY <1>9 DEF Trouble
  <2>2. PICK s \in Schemes, i \in 1..4 : w = SilentAt(D, s, i) BY <2>1
  <2>3. HostProbes[1] \in ToSet(HostProbes \o FramingProbes) BY ProbesTogether DEF HostProbes
  <2>4. w = [D EXCEPT !.raw = [D.raw EXCEPT ![s] = [D.raw[s] EXCEPT ![HostProbes[1]] = [D.raw[s][HostProbes[1]] EXCEPT ![i] = Silent]]]]
    BY <2>2 DEF SilentAt
  <2>5. QED BY <2>3, <2>4, RawLook
<1>10. CASE name = "redirect_chain"
  <2>1. w \in {Unreached(D, u) : u \in DOMAIN D.sites} BY <1>10 DEF Trouble
  <2>2. PICK u : w = Unreached(D, u) BY <2>1
  <2>3. PICK new : w = [D EXCEPT !["sites"] = new] BY <2>2 DEF Unreached
  <2>4. QED BY <2>3, IdleLook
<1>11. CASE name = "web_dependency"
  <2>1. w \in {[D EXCEPT !.hosts[h].status = "SERVFAIL"] : h \in DOMAIN D.hosts} BY <1>11 DEF Trouble
  <2>2. PICK new : w = [D EXCEPT !["hosts"] = new] BY <2>1
  <2>3. QED BY <2>2, IdleLook
<1>12. CASE name = "origin"
  <2>1. w \in {[D EXCEPT !.direct[t][s] = 1] : t \in DOMAIN D.direct, s \in Schemes} BY <1>12 DEF Trouble
  <2>2. PICK new : w = [D EXCEPT !["direct"] = new] BY <2>1
  <2>3. QED BY <2>2, IdleLook
<1>13. QED BY <1>1, <1>2, <1>3, <1>4, <1>5, <1>6, <1>7, <1>8, <1>9, <1>10, <1>11, <1>12 DEF Fallible

-----------------------------------------------------------------------------
(* The look once the context has ended.                                     *)

\* The world once the context has ended: the records are still lists, and the
\* signatures the same.
LEMMA ToldAsFailed ==
  ASSUME NEW list, IsList(list), NEW new, new = [i \in DOMAIN list |-> [list[i] EXCEPT !.status = "ERROR"]]
  PROVE IsList(new) /\ (Rated(list) => Rated(new))
<1>1. Len(list) \in Nat /\ DOMAIN list = 1..Len(list) BY ListDomain
<1>2. new = [i \in 1..Len(list) |-> new[i]] /\ DOMAIN new = DOMAIN list BY <1>1
<1>3. IsList(new)
  <2> DEFINE n == Len(list)
  <2> HIDE DEF n
  <2>1. n \in Nat /\ new = [i \in 1..n |-> new[i]] BY <1>1, <1>2 DEF n
  <2> QED BY <2>1, StretchIsAList
<1>4. \A i \in DOMAIN list : new[i] = [list[i] EXCEPT !.status = "ERROR"] OBVIOUS
<1>5. Rated(list) => Rated(new)
  <2> HAVE Rated(list)
  <2>1. \A i \in DOMAIN new : i \in DOMAIN list BY <1>2
  <2>2. \A i \in DOMAIN list : "signature" \in DOMAIN new[i] /\ new[i].signature = list[i].signature BY <1>4 DEF Rated
  <2> QED BY <2>1, <2>2 DEF Rated
<1> QED BY <1>3, <1>5

\* What the end of the context leaves of a world.
Darkened(B, D) ==
  /\ B.a = D.a /\ B.aaaa = D.aaaa /\ B.aliases = D.aliases /\ B.txt = D.txt
  /\ B.bindings = D.bindings /\ B.dnames = D.dnames /\ B.tls = D.tls /\ B.maxProbes = D.maxProbes
  /\ B.mx = [i \in DOMAIN D.mx |-> [D.mx[i] EXCEPT !.status = "ERROR"]]
  /\ B.srv = [i \in DOMAIN D.srv |-> [D.srv[i] EXCEPT !.status = "ERROR"]]
  /\ B.web = [s \in Schemes |-> [D.web[s] EXCEPT !.transport = "canceled"]]
  /\ B.raw = [s \in Schemes |-> [p \in DOMAIN D.raw[s] |-> [i \in 1..4 |-> [Silent EXCEPT !.ends = "refused"]]]]
  /\ B.cut = [D.cut EXCEPT !.complete = FALSE, !.views = [p \in {} |-> 0], !.ds = "ERROR"]

LEMMA BlackoutParts ==
  ASSUME NEW D, WorldFields \subseteq DOMAIN D, NEW B, B = Blackout(D)
  PROVE Darkened(B, D)
<1>1. {"a", "aaaa", "aliases", "txt", "bindings", "dnames", "tls", "maxProbes", "mx", "srv", "web", "raw",
       "cut"} \subseteq DOMAIN D
  BY DEF WorldFields, ProfileLists
<1>2. B.a = D.a /\ B.aaaa = D.aaaa BY <1>1 DEF Blackout
<1>3. B.aliases = D.aliases /\ B.txt = D.txt BY <1>1 DEF Blackout
<1>4. B.bindings = D.bindings /\ B.dnames = D.dnames BY <1>1, SMTT(60) DEF Blackout
<1>5. B.tls = D.tls /\ B.maxProbes = D.maxProbes BY <1>1 DEF Blackout
<1>6. B.mx = [i \in DOMAIN D.mx |-> [D.mx[i] EXCEPT !.status = "ERROR"]] BY <1>1 DEF Blackout
<1>7. B.srv = [i \in DOMAIN D.srv |-> [D.srv[i] EXCEPT !.status = "ERROR"]] BY <1>1, ZenonT(60) DEF Blackout
<1>8. B.web = [s \in Schemes |-> [D.web[s] EXCEPT !.transport = "canceled"]] BY <1>1, ZenonT(60) DEF Blackout
<1>9. B.raw = [s \in Schemes |-> [p \in DOMAIN D.raw[s] |-> [i \in 1..4 |-> [Silent EXCEPT !.ends = "refused"]]]]
  BY <1>1 DEF Blackout
<1>10. B.cut = [D.cut EXCEPT !.complete = FALSE, !.views = [p \in {} |-> 0], !.ds = "ERROR"] BY <1>1 DEF Blackout
<1> QED BY <1>2, <1>3, <1>4, <1>5, <1>6, <1>7, <1>8, <1>9, <1>10 DEF Darkened

\* The collectors are given lists to look at then too.
LEMMA BlackoutLook ==
  ASSUME NEW W, IsWorld(W), NEW D, Found(D, W)
  PROVE Listed(Blackout(D))
<1>1. PICK B : B = Blackout(D) OBVIOUS
<1>2. WorldFields \subseteq DOMAIN D BY FieldsOfAWorld
<1>3. Listed(D) BY CalmLook
<1>4. Darkened(B, D) BY <1>1, <1>2, BlackoutParts
<1>5. Rated(D.aliases) /\ Rated(D.mx) /\ Rated(D.srv) /\ RatedTokens(D.txt) /\ D.tls.signature.confidence \in 0..100
  BY <1>3 DEF Listed, Ratings
<1>6. \A field \in ProfileLists \cup {"dnames"} : IsList(D[field]) BY <1>3 DEF Listed
<1>7. IsList(B.mx) /\ Rated(B.mx)
  <2>1. B.mx = [i \in DOMAIN D.mx |-> [D.mx[i] EXCEPT !.status = "ERROR"]] BY <1>4 DEF Darkened
  <2>2. IsList(D.mx) BY <1>6 DEF ProfileLists
  <2> QED BY <1>5, <2>1, <2>2, ToldAsFailed
<1>8. IsList(B.srv) /\ Rated(B.srv)
  <2>1. B.srv = [i \in DOMAIN D.srv |-> [D.srv[i] EXCEPT !.status = "ERROR"]] BY <1>4 DEF Darkened
  <2>2. IsList(D.srv) BY <1>6 DEF ProfileLists
  <2> QED BY <1>5, <2>1, <2>2, ToldAsFailed
<1>9. \A field \in ProfileLists \cup {"dnames"} : IsList(B[field])
  <2>1. \A field \in {"a", "aaaa", "aliases", "txt", "bindings", "dnames"} : IsList(B[field])
    BY <1>4, <1>6, ZenonT(60) DEF ProfileLists, Darkened
  <2> QED BY <1>7, <1>8, <2>1 DEF ProfileLists
<1>10. Ratings(B) BY <1>4, <1>5, <1>7, <1>8 DEF Ratings, Darkened
<1>11. IsList(B.tls.sans) /\ IsList(B.tls.variants) /\ B.maxProbes \in Nat BY <1>3, <1>4 DEF Listed, Darkened
<1>12. \A s \in Schemes : IsList(B.web[s].refs)
  <2>1. B.web = [s \in Schemes |-> [D.web[s] EXCEPT !.transport = "canceled"]] BY <1>4 DEF Darkened
  <2>2. D.web = W.web BY ZenonT(60) DEF Found, Given
  <2>3. \A s \in Schemes : "refs" \in DOMAIN D.web[s] /\ IsList(D.web[s].refs) BY <2>2, ZenonT(60) DEF IsWorld
  <2>4. \A s \in Schemes : B.web[s].refs = D.web[s].refs BY <2>1, <2>3
  <2> QED BY <2>3, <2>4
<1>13. \A s \in Schemes : \A p \in ToSet(HostProbes \o FramingProbes) : p \in DOMAIN B.raw[s]
  <2>1. B.raw = [s \in Schemes |-> [p \in DOMAIN D.raw[s] |-> [i \in 1..4 |-> [Silent EXCEPT !.ends = "refused"]]]]
    BY <1>4 DEF Darkened
  <2>2. \A s \in Schemes : DOMAIN B.raw[s] = DOMAIN D.raw[s] BY <2>1
  <2> QED BY <1>3, <2>2 DEF Listed
<1>14. CutIsSound(B)
  <2>1. B.cut = [D.cut EXCEPT !.complete = FALSE, !.views = [p \in {} |-> 0], !.ds = "ERROR"] BY <1>4, ZenonT(60) DEF Darkened
  <2>2. D.cut = W.cut /\ {"listed", "views"} \subseteq DOMAIN W.cut BY ZenonT(60) DEF Found, Given, IsWorld
  <2>3. B.cut.listed = D.cut.listed /\ DOMAIN B.cut.views = {} BY <2>1, <2>2
  <2>4. IsFiniteSet(D.cut.listed) BY <1>3 DEF Listed, CutIsSound
  <2>5. IsFiniteSet(DOMAIN B.cut.views) BY <2>3, FS_EmptySet
  <2> QED BY <2>3, <2>4, <2>5 DEF CutIsSound
<1>15. Listed(B) BY <1>9, <1>10, <1>11, <1>12, <1>13, <1>14 DEF Listed
<1> QED BY <1>1, <1>15

-----------------------------------------------------------------------------
(* The rules: they add nothing an accusation rests on.                      *)

\* What is inferred is of a plain type.
LEMMA DerivedType == \A type, weight, confidence : Derived(type, weight, confidence).type = type
  BY DEF Derived, Evidence

\* Its weight and its confidence are what they were given.
LEMMA DerivedScaled ==
  ASSUME NEW type, NEW weight \in Nat, NEW confidence \in 0..100
  PROVE Scaled(Derived(type, weight, confidence))
<1>1. Scaled(Evidence(type, "INFERENCE", weight, confidence)) BY Scales
<1> QED BY <1>1 DEF Derived

LEMMA DerivedPlain ==
  ASSUME NEW type, type \notin Grave, NEW weight \in Nat, NEW confidence \in 0..100
  PROVE  Free(<<Derived(type, weight, confidence)>>, Grave)
<1>1. Scaled(Derived(type, weight, confidence)) BY DerivedScaled
<1> QED BY <1>1, DerivedType, FreeOne

LEMMA Fifteen == 15 \in Nat
  OBVIOUS

\* Inferences have a state, in the empty list, alone and together.
LEMMA DrawnNone == Drawn(<<>>)
  BY EmptyIsAList DEF Drawn

LEMMA DrawnOne ==
  ASSUME NEW rule, NEW state \in States, NEW impact PROVE Drawn(<<Inference(rule, state, impact)>>)
<1> DEFINE one == Inference(rule, state, impact)
<1>1. one.state = state BY DEF Inference
<1> HIDE DEF one
<1>2. <<one>> \in Seq({one}) OBVIOUS
<1>3. IsList(<<one>>) BY <1>2, ListOfASet
<1>4. \A i \in DOMAIN <<one>> : <<one>>[i] = one OBVIOUS
<1> QED BY <1>1, <1>3, <1>4 DEF Drawn, one

LEMMA DrawnJoin == ASSUME NEW s, NEW t, Drawn(s), Drawn(t) PROVE Drawn(s \o t)
<1>1. IsList(s) /\ IsList(t) BY DEF Drawn
<1>2. IsList(s \o t) /\ ToSet(s \o t) \subseteq ToSet(s) \cup ToSet(t) BY <1>1, ListJoin
<1>3. \A x \in ToSet(s) \cup ToSet(t) : x.state \in States BY DEF Drawn, ToSet
<1>4. \A i \in DOMAIN (s \o t) : (s \o t)[i] \in ToSet(s \o t) BY DEF ToSet
<1> QED BY <1>2, <1>3, <1>4 DEF Drawn

\* What a rule concludes accuses nobody, and its inferences have a state.
Plainly(x) == Free(x.evidence, Grave) /\ Drawn(x.inferences)

\* What the rules are put together with keeps that.
LEMMA ConcludePlainly ==
  ASSUME NEW evidence, Free(evidence, Grave), NEW inferences, Drawn(inferences)
  PROVE  Plainly(Conclude(evidence, inferences))
  BY DEF Conclude, Plainly

LEMMA BothPlain ==
  ASSUME NEW left, NEW right, Plainly(left), Plainly(right)
  PROVE Plainly(Both(left, right))
<1>1. Free(left.evidence \o right.evidence, Grave) BY FreeJoin DEF Plainly
<1>2. Drawn(left.inferences \o right.inferences) BY DrawnJoin DEF Plainly
<1>3. QED BY <1>1, <1>2 DEF Both, Plainly

LEMMA NothingPlain == Plainly(Nothing)
  BY FreeNone, DrawnNone DEF Nothing, Plainly

LEMMA WhenPlain == ASSUME NEW holds, NEW x, Plainly(x) PROVE Plainly(When(holds, x))
  BY NothingPlain DEF When

LEMMA IfDrawn == ASSUME NEW holds, NEW x, Drawn(x) PROVE Drawn(If(holds, x))
  BY DrawnNone DEF If

LEMMA IfPlain == ASSUME NEW holds, NEW x, Free(x, Grave) PROVE Free(If(holds, x), Grave)
  BY FreeNone DEF If

\* The rule sets (inference.go).
LEMMA PlaintextPlain == ASSUME NEW a PROVE Plainly(PlaintextRules(a))
<1> DEFINE o == a.http["http"]
           one == If(o.html, <<Derived("PLAINTEXT_WEB_CONTENT", 20, 95)>>)
           two == If(o.password, <<Derived("PLAINTEXT_AUTH_INTERFACE", 60, 100)>>)
           three == If(o.cookie, <<Derived("HTTP_SENSITIVE_COOKIE_WITHOUT_SECURE", 60, 95)>>)
           four == <<Derived("TRANSPORT_PRIORITY_SCORE", 0, 100)>>
           said == one \o two \o three \o four
           drawn == << CASE o.password -> Inference("PLAINTEXT_AUTH_INTERFACE", "CONFIRMED", 90)
                         [] ~o.password /\ o.cookie -> Inference("SENSITIVE_COOKIE_OVER_HTTP", "CONFIRMED", 85)
                         [] ~o.password /\ ~o.cookie /\ o.html -> Inference("PLAINTEXT_WEB_CONTENT", "CANDIDATE", 45)
                         [] OTHER -> Inference("HTTP_NO_UPGRADE_OBSERVED", "OBSERVATION", 0) >>
<1>1. Free(one, Grave) /\ Free(two, Grave) /\ Free(three, Grave) /\ Free(four, Grave)
  <2>1. /\ Free(<<Derived("PLAINTEXT_WEB_CONTENT", 20, 95)>>, Grave)
        /\ Free(<<Derived("PLAINTEXT_AUTH_INTERFACE", 60, 100)>>, Grave)
        /\ Free(<<Derived("HTTP_SENSITIVE_COOKIE_WITHOUT_SECURE", 60, 95)>>, Grave)
        /\ Free(four, Grave)
    <3>1. Free(<<Derived("PLAINTEXT_WEB_CONTENT", 20, 95)>>, Grave) BY DerivedPlain, Numbers, ZenonT(60) DEF Grave
    <3>2. Free(<<Derived("PLAINTEXT_AUTH_INTERFACE", 60, 100)>>, Grave) BY DerivedPlain, Numbers, ZenonT(60) DEF Grave
    <3>3. Free(<<Derived("HTTP_SENSITIVE_COOKIE_WITHOUT_SECURE", 60, 95)>>, Grave) BY DerivedPlain, Numbers, ZenonT(60) DEF Grave
    <3>4. Free(four, Grave) BY DerivedPlain, Numbers, ZenonT(60) DEF Grave
    <3> QED BY <3>1, <3>2, <3>3, <3>4
  <2> HIDE DEF four
  <2>2. QED BY <2>1, IfPlain
<1>2. Free(said, Grave)
  <2> HIDE DEF one, two, three, four
  <2> QED BY <1>1, FreeJoin
<1>3. PlaintextRules(a) = Conclude(said, drawn) BY DEF PlaintextRules
<1>4. Drawn(drawn)
  <2>1. "CONFIRMED" \in States /\ "CANDIDATE" \in States /\ "OBSERVATION" \in States BY DEF States
  <2>2. /\ Drawn(<<Inference("PLAINTEXT_AUTH_INTERFACE", "CONFIRMED", 90)>>)
        /\ Drawn(<<Inference("SENSITIVE_COOKIE_OVER_HTTP", "CONFIRMED", 85)>>)
        /\ Drawn(<<Inference("PLAINTEXT_WEB_CONTENT", "CANDIDATE", 45)>>)
        /\ Drawn(<<Inference("HTTP_NO_UPGRADE_OBSERVED", "OBSERVATION", 0)>>)
    BY <2>1, DrawnOne
  <2> QED BY <2>2
<1> HIDE DEF said, drawn
<1>5. QED BY <1>2, <1>3, <1>4, ConcludePlainly

LEMMA StatusPlain == ASSUME NEW a PROVE Plainly(StatusRules(a))
<1> DEFINE status == a.http["http"].status
           edge == "EDGE_RESPONSE" \in {a.http["http"].kind, a.http["https"].kind}
           one == Conclude(<<Derived("HTTP_BLOCKED_WITHOUT_REDIRECT", 0, 100)>> \o If(edge, <<Derived("HTTP_EDGE_BLOCK", 0, 95)>>),
                           <<Inference(IF edge THEN "EDGE_BLOCKED_NO_EXPOSURE" ELSE "HTTP_BLOCKED_NO_EXPOSURE", "SUPPRESSED", 0)>>)
           two == Conclude(<<Derived("RESOURCE_NOT_AVAILABLE", 0, 100)>>, <<Inference("HTTP_RESOURCE_NOT_AVAILABLE", "SUPPRESSED", 0)>>)
           three == Conclude(<<Derived("HTTP_ERROR_WITHOUT_REDIRECT", 0, 100)>>, <<Inference("HTTP_ERROR_NO_EXPOSURE", "SUPPRESSED", 0)>>)
           four == Conclude(<<>>, <<Inference("HTTP_NO_UPGRADE_OBSERVED", "OBSERVATION", 0)>>)
<1>1. /\ Free(<<Derived("HTTP_BLOCKED_WITHOUT_REDIRECT", 0, 100)>>, Grave) /\ Free(<<Derived("HTTP_EDGE_BLOCK", 0, 95)>>, Grave)
      /\ Free(<<Derived("RESOURCE_NOT_AVAILABLE", 0, 100)>>, Grave) /\ Free(<<Derived("HTTP_ERROR_WITHOUT_REDIRECT", 0, 100)>>, Grave)
  <2>1. Free(<<Derived("HTTP_BLOCKED_WITHOUT_REDIRECT", 0, 100)>>, Grave) BY DerivedPlain, Numbers, ZenonT(60) DEF Grave
  <2>2. Free(<<Derived("HTTP_EDGE_BLOCK", 0, 95)>>, Grave) BY DerivedPlain, Numbers, ZenonT(60) DEF Grave
  <2>3. Free(<<Derived("RESOURCE_NOT_AVAILABLE", 0, 100)>>, Grave) BY DerivedPlain, Numbers, ZenonT(60) DEF Grave
  <2>4. Free(<<Derived("HTTP_ERROR_WITHOUT_REDIRECT", 0, 100)>>, Grave) BY DerivedPlain, Numbers, ZenonT(60) DEF Grave
  <2> QED BY <2>1, <2>2, <2>3, <2>4
<1>0. /\ Drawn(<<Inference(IF edge THEN "EDGE_BLOCKED_NO_EXPOSURE" ELSE "HTTP_BLOCKED_NO_EXPOSURE", "SUPPRESSED", 0)>>)
      /\ Drawn(<<Inference("HTTP_RESOURCE_NOT_AVAILABLE", "SUPPRESSED", 0)>>)
      /\ Drawn(<<Inference("HTTP_ERROR_NO_EXPOSURE", "SUPPRESSED", 0)>>)
      /\ Drawn(<<Inference("HTTP_NO_UPGRADE_OBSERVED", "OBSERVATION", 0)>>)
  <2> HIDE DEF edge
  <2>1. "SUPPRESSED" \in States /\ "OBSERVATION" \in States BY DEF States
  <2> QED BY <2>1, DrawnOne
<1>2. Plainly(one)
  <2> HIDE DEF edge
  <2>1. Free(If(edge, <<Derived("HTTP_EDGE_BLOCK", 0, 95)>>), Grave) BY <1>1, IfPlain
  <2>2. QED BY <1>0, <1>1, <2>1, FreeJoin, ConcludePlainly
<1>3. Plainly(two) BY <1>0, <1>1, ConcludePlainly
<1>4. Plainly(three) BY <1>0, <1>1, ConcludePlainly
<1>5. Plainly(four) BY <1>0, FreeNone, ConcludePlainly
<1>6. StatusRules(a) = CASE BlockedStatus(status) -> one
                         [] UnavailableStatus(status) -> two
                         [] status >= 500 -> three
                         [] status \in 200..299 -> PlaintextRules(a)
                         [] OTHER -> four
  BY DEF StatusRules
<1>7. BlockedStatus(status) => ~UnavailableStatus(status) /\ ~(status >= 500) /\ ~(status \in 200..299)
  BY DEF BlockedStatus, UnavailableStatus
<1> HIDE DEF one, two, three, four, status
<1>8. StatusRules(a) \in {one, two, three, PlaintextRules(a), four}
  <2> DEFINE b == BlockedStatus(status)
             u == UnavailableStatus(status)
             e == status >= 500
             p == status \in 200..299
  <2> HIDE DEF b, u, e, p
  <2>1. StatusRules(a) = CASE b -> one [] u -> two [] e -> three [] p -> PlaintextRules(a) [] OTHER -> four
    BY <1>6 DEF b, u, e, p
  <2>2. QED BY <2>1
<1>9. QED BY <1>2, <1>3, <1>4, <1>5, <1>8, PlaintextPlain

LEMMA RedirectPlain == ASSUME NEW chain PROVE Plainly(RedirectRules(chain))
<1> DEFINE missing == Conclude(<<Derived("DANGLING_REDIRECT", 20, 95)>>, <<Inference("REDIRECT_DESTINATION_DNS_MISSING", "CANDIDATE", 35)>>)
           unclear == Conclude(<<>>, <<Inference("REDIRECT_DESTINATION_INCONCLUSIVE", "INCONCLUSIVE", 0)>>)
           error == Conclude(<<Derived("DANGLING_REDIRECT", 20, 95)>>, <<Inference("REDIRECT_DESTINATION_PROVIDER_ERROR", "CANDIDATE", 45)>>)
           foreign == Conclude(<<>>, <<Inference("UNSUPPORTED_PROTOCOL", "INCONCLUSIVE", 0)>>)
<1>1. Free(<<Derived("DANGLING_REDIRECT", 20, 95)>>, Grave) BY DerivedPlain, Numbers, ZenonT(60) DEF Grave
<1>0. /\ Drawn(<<Inference("REDIRECT_DESTINATION_DNS_MISSING", "CANDIDATE", 35)>>)
      /\ Drawn(<<Inference("REDIRECT_DESTINATION_INCONCLUSIVE", "INCONCLUSIVE", 0)>>)
      /\ Drawn(<<Inference("REDIRECT_DESTINATION_PROVIDER_ERROR", "CANDIDATE", 45)>>)
      /\ Drawn(<<Inference("UNSUPPORTED_PROTOCOL", "INCONCLUSIVE", 0)>>)
  <2>1. "CANDIDATE" \in States /\ "INCONCLUSIVE" \in States BY DEF States
  <2> QED BY <2>1, DrawnOne
<1>2. Plainly(missing) BY <1>0, <1>1, ConcludePlainly
<1>3. Plainly(unclear) BY <1>0, FreeNone, ConcludePlainly
<1>4. Plainly(error) BY <1>0, <1>1, ConcludePlainly
<1>5. Plainly(foreign) BY <1>0, FreeNone, ConcludePlainly
<1> DEFINE none == chain.hops = 0
           some == chain.hops > 0
           m == some /\ chain.stopped \in {"DESTINATION_NXDOMAIN", "DESTINATION_NO_DATA"}
           u == some /\ chain.stopped \in {"DESTINATION_SERVFAIL", "DESTINATION_TIMEOUT", "DESTINATION_REFUSED",
                                           "DESTINATION_ERROR"}
           e == some /\ chain.stopped = "DESTINATION_PROVIDER_ERROR"
           f == some /\ chain.stopped = "UNSUPPORTED_PROTOCOL"
<1>6. RedirectRules(chain) = CASE none -> Nothing [] m -> missing [] u -> unclear [] e -> error [] f -> foreign [] OTHER -> Nothing
  BY DEF RedirectRules
<1>7. RedirectRules(chain) \in {Nothing, missing, unclear, error, foreign}
  <2> HIDE DEF none, m, u, e, f, missing, unclear, error, foreign
  <2> QED BY <1>6
<1> HIDE DEF missing, unclear, error, foreign
<1>8. QED BY <1>2, <1>3, <1>4, <1>5, <1>7, NothingPlain

LEMMA HttpPlain == ASSUME NEW a PROVE Plainly(HttpRules(a))
<1> DEFINE http == a.http["http"]
           https == a.http["https"]
           upgrade == HttpsUpgrade(a)
           same == http.seen /\ https.seen /\ http.complete /\ https.complete /\ SimilarBodies(http.body, https.body)
           correlated == When(same, Conclude(<<Derived("HTTP_HTTPS_CONTENT_CORRELATED", 0, 95)>>, <<>>))
           down == https.seen /\ https.complete /\ RedirectStatus(https.status) /\ HttpsDowngrade(a)
           downgrade == When(down, Conclude(<<Derived("HTTPS_DOWNGRADE_REDIRECT", 15, 100)>>, <<Inference("HTTPS_DOWNGRADE", "CANDIDATE", 70)>>))
           port == Conclude(<<Derived("HTTP_HTTPS_UPGRADE_PRESENT", 0, 100), Derived("HTTP_HTTPS_PORT_INCONSISTENT", 10, 100)>>,
                            <<Inference("HTTP_UPGRADE_NONSTANDARD_PORT", "CANDIDATE", 35)>>)
           up == Conclude(<<Derived("HTTP_HTTPS_UPGRADE_PRESENT", 0, 100)>>, <<Inference("HTTP_HTTPS_UPGRADE", "HEALTHY", 0)>>)
           without == ~(https.seen /\ https.complete)
           flat == Conclude(<<Derived("HTTP_NO_HTTPS_UPGRADE", 0, 100)>> \o If(without, <<Derived("HTTPS_UNAVAILABLE", 0, 80)>>), <<>>)
           rest == Both(flat, StatusRules(a))
           seen == http.seen /\ http.complete
           plain == CASE ~seen -> Nothing [] http.seen /\ http.complete /\ upgrade = "https:8443" -> port
                      [] http.seen /\ http.complete /\ upgrade = "https" -> up [] OTHER -> rest
<1>1. /\ Free(<<Derived("HTTP_HTTPS_CONTENT_CORRELATED", 0, 95)>>, Grave) /\ Free(<<Derived("HTTPS_DOWNGRADE_REDIRECT", 15, 100)>>, Grave)
      /\ Free(<<Derived("HTTP_HTTPS_UPGRADE_PRESENT", 0, 100)>>, Grave) /\ Free(<<Derived("HTTP_NO_HTTPS_UPGRADE", 0, 100)>>, Grave)
      /\ Free(<<Derived("HTTPS_UNAVAILABLE", 0, 80)>>, Grave)
  <2>1. Free(<<Derived("HTTP_HTTPS_CONTENT_CORRELATED", 0, 95)>>, Grave) BY DerivedPlain, Numbers, ZenonT(60) DEF Grave
  <2>2. Free(<<Derived("HTTPS_DOWNGRADE_REDIRECT", 15, 100)>>, Grave) BY DerivedPlain, Fifteen, Numbers, ZenonT(60) DEF Grave
  <2>3. Free(<<Derived("HTTP_HTTPS_UPGRADE_PRESENT", 0, 100)>>, Grave) BY DerivedPlain, Numbers, ZenonT(60) DEF Grave
  <2>4. Free(<<Derived("HTTP_NO_HTTPS_UPGRADE", 0, 100)>>, Grave) BY DerivedPlain, Numbers, ZenonT(60) DEF Grave
  <2>5. Free(<<Derived("HTTPS_UNAVAILABLE", 0, 80)>>, Grave) BY DerivedPlain, Numbers, ZenonT(60) DEF Grave
  <2> QED BY <2>1, <2>2, <2>3, <2>4, <2>5
<1>0. /\ Drawn(<<>>) /\ Drawn(<<Inference("HTTPS_DOWNGRADE", "CANDIDATE", 70)>>)
      /\ Drawn(<<Inference("HTTP_UPGRADE_NONSTANDARD_PORT", "CANDIDATE", 35)>>)
      /\ Drawn(<<Inference("HTTP_HTTPS_UPGRADE", "HEALTHY", 0)>>)
  <2>1. "CANDIDATE" \in States /\ "HEALTHY" \in States BY DEF States
  <2> QED BY <2>1, DrawnOne, DrawnNone
<1>2. Plainly(correlated)
  <2> HIDE DEF same
  <2> QED BY <1>0, <1>1, ConcludePlainly, WhenPlain
<1>3. Plainly(downgrade)
  <2> HIDE DEF down
  <2> QED BY <1>0, <1>1, ConcludePlainly, WhenPlain
<1>4. Plainly(port)
  <2> DEFINE d == Derived("HTTP_HTTPS_UPGRADE_PRESENT", 0, 100)
             e == Derived("HTTP_HTTPS_PORT_INCONSISTENT", 10, 100)
  <2>1. d.type \notin Grave /\ e.type \notin Grave BY DerivedType DEF Grave
  <2>4. Scaled(d) /\ Scaled(e) BY DerivedScaled, Numbers
  <2> HIDE DEF d, e
  <2>2. Free(<<d, e>>, Grave) BY <2>1, <2>4, FreeTwo
  <2>3. QED BY <1>0, <2>2, ConcludePlainly DEF d, e
<1>5. Plainly(up) BY <1>0, <1>1, ConcludePlainly
<1>6. Plainly(rest)
  <2>1. Plainly(flat)
    <3> HIDE DEF without
    <3>1. Free(If(without, <<Derived("HTTPS_UNAVAILABLE", 0, 80)>>), Grave) BY <1>1, IfPlain
    <3>2. QED BY <1>0, <1>1, <3>1, FreeJoin, ConcludePlainly
  <2> HIDE DEF flat
  <2>2. QED BY <2>1, StatusPlain, BothPlain
<1>7. HttpRules(a) = Both(Both(correlated, downgrade), plain) BY DEF HttpRules
<1>8. plain \in {Nothing, port, up, rest}
  <2> HIDE DEF port, up, rest, upgrade, http
  <2> QED OBVIOUS
<1> HIDE DEF plain, port, up, rest, correlated, downgrade
<1>9. Plainly(plain) BY <1>4, <1>5, <1>6, <1>8, NothingPlain
<1>10. QED BY <1>2, <1>3, <1>7, <1>9, BothPlain

LEMMA HeaderPlain == ASSUME NEW a PROVE Plainly(HeaderRules(a))
<1> DEFINE o == a.http["https"]
           page == o.status \in 200..299 /\ o.html
           asked == "SEC_HEADERS" \in a.tested /\ o.seen /\ o.complete
           hsts == << IF o.hsts THEN Mitigation("HTTPS_HSTS_PRESENT", "INFERENCE", 0, 100) ELSE Derived("HTTPS_HSTS_ABSENT", 0, 100) >>
           csp == << IF o.csp THEN Mitigation("HTTPS_CSP_PRESENT", "INFERENCE", 0, 100) ELSE Derived("HTTPS_CSP_ABSENT", 0, 100) >>
           said == hsts \o If(page, csp)
           drawn == If(~o.hsts, <<Inference("HSTS_POSTURE_ONLY", "OBSERVATION", 0)>>)
                      \o If(page /\ ~o.csp, <<Inference("CSP_HARDENING_ONLY", "OBSERVATION", 0)>>)
<1>1. /\ Mitigation("HTTPS_HSTS_PRESENT", "INFERENCE", 0, 100).type \notin Grave /\ Derived("HTTPS_HSTS_ABSENT", 0, 100).type \notin Grave
      /\ Mitigation("HTTPS_CSP_PRESENT", "INFERENCE", 0, 100).type \notin Grave /\ Derived("HTTPS_CSP_ABSENT", 0, 100).type \notin Grave
  BY Types0, DerivedType DEF Grave
<1>0. /\ Scaled(Mitigation("HTTPS_HSTS_PRESENT", "INFERENCE", 0, 100)) /\ Scaled(Derived("HTTPS_HSTS_ABSENT", 0, 100))
      /\ Scaled(Mitigation("HTTPS_CSP_PRESENT", "INFERENCE", 0, 100)) /\ Scaled(Derived("HTTPS_CSP_ABSENT", 0, 100))
  <2>1. 0 \in Nat /\ 100 \in 0..100 BY Numbers
  <2>2. Scaled(Mitigation("HTTPS_HSTS_PRESENT", "INFERENCE", 0, 100)) BY <2>1, Scales
  <2>3. Scaled(Mitigation("HTTPS_CSP_PRESENT", "INFERENCE", 0, 100)) BY <2>1, Scales
  <2>4. Scaled(Derived("HTTPS_HSTS_ABSENT", 0, 100)) /\ Scaled(Derived("HTTPS_CSP_ABSENT", 0, 100))
    BY <2>1, DerivedScaled
  <2> QED BY <2>2, <2>3, <2>4
<1>2. Free(hsts, Grave) /\ Free(csp, Grave)
  <2> HIDE DEF page
  <2>1. Free(hsts, Grave) BY <1>0, <1>1, FreeOne
  <2>2. Free(csp, Grave) BY <1>0, <1>1, FreeOne
  <2> QED BY <2>1, <2>2
<1>3. Free(said, Grave)
  <2> HIDE DEF hsts, csp, page
  <2> QED BY <1>2, IfPlain, FreeJoin
<1>4. HeaderRules(a) = When(asked, Conclude(said, drawn)) BY DEF HeaderRules
<1>5. Drawn(drawn)
  <2>1. "OBSERVATION" \in States BY DEF States
  <2>2. Drawn(<<Inference("HSTS_POSTURE_ONLY", "OBSERVATION", 0)>>) /\ Drawn(<<Inference("CSP_HARDENING_ONLY", "OBSERVATION", 0)>>)
    BY <2>1, DrawnOne
  <2> HIDE DEF page
  <2>3. /\ Drawn(If(~o.hsts, <<Inference("HSTS_POSTURE_ONLY", "OBSERVATION", 0)>>))
        /\ Drawn(If(page /\ ~o.csp, <<Inference("CSP_HARDENING_ONLY", "OBSERVATION", 0)>>))
    BY <2>2, IfDrawn
  <2> QED BY <2>3, DrawnJoin
<1> HIDE DEF asked, said, drawn
<1>6. QED BY <1>3, <1>4, <1>5, ConcludePlainly, WhenPlain

\* Removing what is said twice, or was inferred before, adds nothing.
LEMMA OncePlain == ASSUME NEW F, NEW evidence, Free(evidence, F) PROVE Free(Once(evidence), F)
<1> DEFINE new(i) == \A j \in 1..(i - 1) : evidence[j].type # evidence[i].type \/ evidence[j].source # evidence[i].source
           parts == [i \in DOMAIN evidence |-> If(new(i), <<evidence[i]>>)]
<1>1. IsList(evidence) /\ \A i \in DOMAIN evidence : evidence[i].type \notin F /\ Scaled(evidence[i]) BY DEF Free
<1>2. \A i \in DOMAIN evidence : Free(parts[i], F)
  <2> TAKE i \in DOMAIN evidence
  <2>1. parts[i] = If(new(i), <<evidence[i]>>) OBVIOUS
  <2>2. Free(<<evidence[i]>>, F) BY <1>1, FreeOne
  <2> HIDE DEF new, parts
  <2>3. QED BY <2>1, <2>2, FreeNone DEF If
<1>3. parts = [i \in DOMAIN evidence |-> parts[i]] OBVIOUS
<1>4. Once(evidence) = FlattenSeq(parts) BY DEF Once
<1> HIDE DEF parts
<1>5. QED BY <1>1, <1>2, <1>3, <1>4, FreeEach

LEMMA ThosePlain ==
  ASSUME NEW F, NEW evidence, Free(evidence, F)
  PROVE Free(Those(evidence, LAMBDA e : e.source # "INFERENCE"), F)
<1> DEFINE keep(e) == If(e.source # "INFERENCE", <<e>>)
           parts == [i \in DOMAIN evidence |-> keep(evidence[i])]
<1>1. IsList(evidence) /\ \A i \in DOMAIN evidence : evidence[i].type \notin F /\ Scaled(evidence[i]) BY DEF Free
<1>2. \A i \in DOMAIN evidence : Free(parts[i], F)
  <2> TAKE i \in DOMAIN evidence
  <2>1. parts[i] = If(evidence[i].source # "INFERENCE", <<evidence[i]>>) OBVIOUS
  <2>2. Free(<<evidence[i]>>, F) BY <1>1, FreeOne
  <2> HIDE DEF parts
  <2>3. QED BY <2>1, <2>2, FreeNone DEF If
<1>3. parts = [i \in DOMAIN evidence |-> parts[i]] OBVIOUS
<1>4. Those(evidence, LAMBDA e : e.source # "INFERENCE") = FlattenSeq(parts) BY DEF Those, EachOf
<1> HIDE DEF parts
<1>5. QED BY <1>1, <1>2, <1>3, <1>4, FreeEach

\* Infer keeps an analysis sound.
LEMMA InferSound ==
  ASSUME NEW F, F \subseteq Grave, NEW a, Sound(a, F), NEW walk PROVE Sound(Infer(a, walk), F)
<1> DEFINE collected == Those(a.evidence, LAMBDA e : e.source # "INFERENCE")
           redirects == Both(RedirectRules(a.chains[walk[1]]), RedirectRules(a.chains[walk[2]]))
           drawn == Both(Both(HttpRules(a), redirects), HeaderRules(a))
           said == collected \o Once(drawn.evidence)
<1>1. Plainly(drawn)
  <2>1. Plainly(redirects) BY RedirectPlain, BothPlain
  <2> HIDE DEF redirects
  <2>2. QED BY <2>1, HttpPlain, HeaderPlain, BothPlain
<1>2. Free(collected, F) BY ThosePlain DEF Sound
<1>3. Free(Once(drawn.evidence), F)
  <2> HIDE DEF drawn
  <2>1. Free(Once(drawn.evidence), Grave) BY <1>1, OncePlain DEF Plainly
  <2>2. QED BY <2>1 DEF Free
<1>4. Free(said, F)
  <2> HIDE DEF collected, drawn
  <2> QED BY <1>2, <1>3, FreeJoin
<1>5. Infer(a, walk) = [a EXCEPT !.evidence = said, !.inferences = drawn.inferences] BY DEF Infer
<1>6. Drawn(drawn.inferences)
  <2> HIDE DEF drawn
  <2> QED BY <1>1 DEF Plainly
<1> HIDE DEF said, drawn
<1>7. QED BY <1>4, <1>5, <1>6 DEF Sound, Fields

-----------------------------------------------------------------------------
(* Sums, as the folds compute them: over a set that is used up by CHOOSE.   *)

\* The sum of the values v over every part of a set, as the folds compute it.
Chosen(s) == CHOOSE x \in s : TRUE
Sums(g, v, S) == g = [s \in SUBSET S |-> IF s = {} THEN 0 ELSE v[Chosen(s)] + g[s \ {Chosen(s)}]]

\* The same over the parts of at most n members.
Small(S, n) == {s \in SUBSET S : Cardinality(s) <= n}
SumsUpTo(g, v, S, n) == g = [s \in Small(S, n) |-> IF s = {} THEN 0 ELSE v[Chosen(s)] + g[s \ {Chosen(s)}]]

LEMMA ChosenIsThere == ASSUME NEW s, s # {} PROVE Chosen(s) \in s
<1>1. \E x \in s : TRUE OBVIOUS
<1> QED BY <1>1, Zenon DEF Chosen

LEMMA SmallParts ==
  ASSUME NEW S, IsFiniteSet(S)
  PROVE /\ \A s \in SUBSET S : IsFiniteSet(s) /\ Cardinality(s) \in Nat /\ Cardinality(s) <= Cardinality(S)
        /\ \A s \in SUBSET S : s # {} => Cardinality(s) > 0 /\ Cardinality(s \ {Chosen(s)}) = Cardinality(s) - 1
<1>1. \A s \in SUBSET S : IsFiniteSet(s) /\ Cardinality(s) <= Cardinality(S) BY FS_Subset
<1>2. \A s \in SUBSET S : Cardinality(s) \in Nat BY <1>1, FS_CardinalityType
<1>3. \A s \in SUBSET S : s # {} => Cardinality(s) # 0 BY <1>1, FS_EmptySet
<1>4. \A s \in SUBSET S : s # {} => Cardinality(s \ {Chosen(s)}) = Cardinality(s) - 1
  <2> TAKE s \in SUBSET S
  <2> HAVE s # {}
  <2>1. Chosen(s) \in s BY ChosenIsThere
  <2> QED BY <1>1, <2>1, FS_RemoveElement
<1> QED BY <1>1, <1>2, <1>3, <1>4

\* The sums over the parts of at most n members exist for every n: otherwise
\* there is a least n without them, which is neither 0 nor more.
LEMMA SumNone == ASSUME NEW S, IsFiniteSet(S), NEW v PROVE \E g : SumsUpTo(g, v, S, 0)
<1> DEFINE g == [s \in Small(S, 0) |-> 0]
<1>1. \A s \in Small(S, 0) : s = {}
  <2> TAKE s \in Small(S, 0)
  <2>1. s \in SUBSET S /\ Cardinality(s) <= 0 BY DEF Small
  <2>2. IsFiniteSet(s) /\ Cardinality(s) \in Nat BY <2>1, SmallParts
  <2>3. Cardinality(s) = 0 BY <2>1, <2>2
  <2> QED BY <2>2, <2>3, FS_EmptySet
<1>2. g = [s \in Small(S, 0) |-> IF s = {} THEN 0 ELSE v[Chosen(s)] + g[s \ {Chosen(s)}]] BY <1>1
<1> QED BY <1>2 DEF SumsUpTo

LEMMA SumMore ==
  ASSUME NEW S, IsFiniteSet(S), NEW v, NEW n \in Nat, NEW f, SumsUpTo(f, v, S, n)
  PROVE \E g : SumsUpTo(g, v, S, n + 1)
<1> DEFINE more(h, s) == IF s = {} THEN 0 ELSE v[Chosen(s)] + h[s \ {Chosen(s)}]
           g == [s \in Small(S, n + 1) |-> IF s \in Small(S, n) THEN f[s] ELSE more(f, s)]
<1>1. \A s \in Small(S, n) : s \in Small(S, n + 1)
  <2> TAKE s \in Small(S, n)
  <2>1. s \in SUBSET S /\ Cardinality(s) <= n BY DEF Small
  <2>2. Cardinality(s) \in Nat BY <2>1, SmallParts
  <2> QED BY <2>1, <2>2 DEF Small
<1>2. \A s \in Small(S, n + 1) : s # {} => s \ {Chosen(s)} \in Small(S, n)
  <2> TAKE s \in Small(S, n + 1)
  <2> HAVE s # {}
  <2>1. s \in SUBSET S /\ Cardinality(s) <= n + 1 BY DEF Small
  <2>2. Cardinality(s) \in Nat /\ Cardinality(s \ {Chosen(s)}) = Cardinality(s) - 1 BY <2>1, SmallParts
  <2> QED BY <2>1, <2>2 DEF Small
<1>3. \A s \in Small(S, n) : g[s] = f[s] BY <1>1
<1>4. \A s \in Small(S, n) : f[s] = more(f, s) BY DEF SumsUpTo
<1>5. \A s \in Small(S, n + 1) : g[s] = more(f, s) BY <1>4
<1>6. \A s \in Small(S, n + 1) : more(g, s) = more(f, s)
  <2> TAKE s \in Small(S, n + 1)
  <2>1. CASE s = {} BY <2>1
  <2>2. CASE s # {}
    <3>1. g[s \ {Chosen(s)}] = f[s \ {Chosen(s)}] BY <1>2, <1>3, <2>2
    <3> HIDE DEF g
    <3> QED BY <2>2, <3>1
  <2> QED BY <2>1, <2>2
<1>7. \A s \in Small(S, n + 1) : g[s] = more(g, s)
  <2> HIDE DEF more, g
  <2> QED BY <1>5, <1>6
<1>8. g = [s \in Small(S, n + 1) |-> g[s]] OBVIOUS
<1>9. g = [s \in Small(S, n + 1) |-> more(g, s)]
  <2> HIDE DEF more, g
  <2> QED BY <1>7, <1>8
<1> HIDE DEF g
<1> QED BY <1>9 DEF SumsUpTo

LEMMA SumExists == ASSUME NEW S, IsFiniteSet(S), NEW v PROVE \E g : Sums(g, v, S)
<1> DEFINE T == {n \in Nat : ~ \E g : SumsUpTo(g, v, S, n)}
<1>1. T = {}
  <2> SUFFICES ASSUME T # {} PROVE FALSE OBVIOUS
  <2>1. T \subseteq Nat OBVIOUS
  <2>2. PICK n \in T : \A m \in T : ~(m < n)
    <3> HIDE DEF T
    <3> QED BY <2>1, Least
  <2>3. n \in Nat /\ ~ \E g : SumsUpTo(g, v, S, n) OBVIOUS
  <2>4. n # 0 BY <2>3, SumNone
  <2>5. n - 1 \in Nat /\ n - 1 < n /\ (n - 1) + 1 = n BY <2>3, <2>4
  <2>6. PICK f : SumsUpTo(f, v, S, n - 1) BY <2>2, <2>5
  <2> DEFINE k == n - 1
  <2>7. k \in Nat /\ k + 1 = n /\ SumsUpTo(f, v, S, k) BY <2>5, <2>6
  <2> HIDE DEF k
  <2>8. \E g : SumsUpTo(g, v, S, k + 1) BY <2>7, SumMore
  <2> QED BY <2>3, <2>7, <2>8
<1>2. Cardinality(S) \in Nat BY FS_CardinalityType
<1>3. PICK g : SumsUpTo(g, v, S, Cardinality(S)) BY <1>1, <1>2
<1>4. Small(S, Cardinality(S)) = SUBSET S BY SmallParts DEF Small
<1>5. Sums(g, v, S) BY <1>3, <1>4 DEF Sums, SumsUpTo
<1> QED BY <1>5

\* A property of every part, from the empty one up.
LEMMA SumIsBounded ==
  ASSUME NEW S, IsFiniteSet(S), NEW v, NEW b \in Nat, \A x \in S : v[x] \in 0..b, NEW g, Sums(g, v, S)
  PROVE \A s \in SUBSET S : g[s] \in 0..(b * Cardinality(s))
<1> DEFINE bad(s) == g[s] \notin 0..(b * Cardinality(s))
           T == {n \in Nat : \E s \in SUBSET S : Cardinality(s) = n /\ bad(s)}
<1>1. \A s \in SUBSET S : g[s] = IF s = {} THEN 0 ELSE v[Chosen(s)] + g[s \ {Chosen(s)}] BY DEF Sums
<1>2. T = {}
  <2> SUFFICES ASSUME T # {} PROVE FALSE OBVIOUS
  <2>1. T \subseteq Nat OBVIOUS
  <2>2. PICK n \in T : \A m \in T : ~(m < n)
    <3> HIDE DEF T
    <3> QED BY <2>1, Least
  <2>3. PICK s \in SUBSET S : n \in Nat /\ Cardinality(s) = n /\ bad(s) OBVIOUS
  <2>4. CASE s = {}
    <3>1. g[s] = 0 BY <1>1, <2>4
    <3>2. 0 \in 0..(b * n) BY <2>3
    <3> QED BY <2>3, <3>1, <3>2
  <2>5. CASE s # {}
    <3> DEFINE x == Chosen(s)
               r == s \ {x}
    <3>1. x \in S BY <2>5, ChosenIsThere
    <3>2. r \in SUBSET S /\ Cardinality(r) = n - 1 /\ n > 0 BY <2>3, <2>5, SmallParts
    <3>3. g[s] = v[x] + g[r] BY <1>1, <2>5
    <3>4. v[x] \in 0..b BY <3>1
    <3> HIDE DEF x, r
    <3>5. n - 1 \in Nat /\ n - 1 < n BY <2>3, <3>2
    <3>6. ~bad(r) BY <2>2, <3>2, <3>5
    <3>7. g[r] \in 0..(b * (n - 1)) BY <3>2, <3>6
    <3>8. b * n = b * (n - 1) + b /\ b * (n - 1) \in Nat BY <2>3, <3>5
    <3>9. g[s] \in 0..(b * n) BY <3>3, <3>4, <3>7, <3>8
    <3> QED BY <2>3, <3>9
  <2> QED BY <2>4, <2>5
<1>3. \A s \in SUBSET S : Cardinality(s) \in Nat BY SmallParts
<1> QED BY <1>2, <1>3

\* Values that count for something leave no part without a sum.
LEMMA SumIsPositive ==
  ASSUME NEW S, IsFiniteSet(S), NEW v, NEW b \in Nat, \A x \in S : v[x] \in 1..b, NEW g, Sums(g, v, S), S # {}
  PROVE g[S] \in Nat \ {0}
<1>1. \A x \in S : v[x] \in 0..b OBVIOUS
<1>2. \A s \in SUBSET S : g[s] \in 0..(b * Cardinality(s)) BY <1>1, SumIsBounded
<1> DEFINE x == Chosen(S)
<1>3. g[S] = v[x] + g[S \ {x}] BY DEF Sums
<1>4. x \in S BY ChosenIsThere
<1> HIDE DEF x
<1>5. v[x] \in 1..b BY <1>4
<1>6. g[S \ {x}] \in 0..(b * Cardinality(S \ {x})) BY <1>2
<1>7. g[S \ {x}] \in Nat
  <2> DEFINE k == b * Cardinality(S \ {x})
  <2>1. g[S \ {x}] \in 0..k BY <1>6
  <2> HIDE DEF k
  <2> QED BY <2>1
<1> QED BY <1>3, <1>5, <1>7

\* What MapThenSumSet chooses is such a sum.
LEMMA FoldOfPoints ==
  ASSUME NEW entries, IsFiniteSet(entries), NEW v, v = [e \in entries |-> Points(e)]
  PROVE \E g : Sums(g, v, entries) /\ MapThenSumSet(Points, entries) = g[entries]
<1> DEFINE S == entries
           value(x) == Points(x)
           body(g) == g = [s \in SUBSET S |-> IF s = {} THEN 0 ELSE LET x == CHOOSE x \in s : TRUE IN value(x) + g[s \ {x}]]
           it == CHOOSE g : body(g)
<1>1. MapThenSumSet(Points, entries) = it[S] BY DEF MapThenSumSet, MapThenFoldSet
<1>2. PICK h : Sums(h, v, S) BY SumExists
<1>3. \A x \in S : v[x] = value(x) OBVIOUS
<1> HIDE DEF value, S
<1>4. \A g : body(g) <=> Sums(g, v, S)
  <2> TAKE g
  <2>1. \A s \in SUBSET S : s # {} => Chosen(s) \in S BY ChosenIsThere
  <2>2. \A s \in SUBSET S : s # {} => v[Chosen(s)] = value(Chosen(s)) BY <1>3, <2>1
  <2> DEFINE u(s) == IF s = {} THEN 0 ELSE v[Chosen(s)] + g[s \ {Chosen(s)}]
             w(s) == IF s = {} THEN 0 ELSE value(Chosen(s)) + g[s \ {Chosen(s)}]
  <2>3. \A s \in SUBSET S : u(s) = w(s) BY <2>2
  <2>4. Sums(g, v, S) <=> g = [s \in SUBSET S |-> u(s)] BY DEF Sums
  <2>5. body(g) <=> g = [s \in SUBSET S |-> w(s)] BY DEF Chosen
  <2>6. [s \in SUBSET S |-> u(s)] = [s \in SUBSET S |-> w(s)]
    <3> HIDE DEF u, w
    <3> QED BY <2>3
  <2> HIDE DEF u, w, body
  <2> QED BY <2>4, <2>5, <2>6
<1>5. \E g : body(g)
  <2> HIDE DEF body
  <2>1. body(h) BY <1>2, <1>4
  <2> QED BY <2>1, Zenon
<1>6. body(it)
  <2> HIDE DEF body
  <2> QED BY <1>5, Zenon
<1> HIDE DEF body, it
<1>7. Sums(it, v, S) BY <1>4, <1>6
<1> QED BY <1>1, <1>7 DEF S

LEMMA FoldOfSureness ==
  ASSUME NEW entries, IsFiniteSet(entries), NEW v, v = [e \in entries |-> SurenessOf(e)]
  PROVE \E g : Sums(g, v, entries) /\ MapThenSumSet(SurenessOf, entries) = g[entries]
<1> DEFINE S == entries
           value(x) == SurenessOf(x)
           body(g) == g = [s \in SUBSET S |-> IF s = {} THEN 0 ELSE LET x == CHOOSE x \in s : TRUE IN value(x) + g[s \ {x}]]
           it == CHOOSE g : body(g)
<1>1. MapThenSumSet(SurenessOf, entries) = it[S] BY DEF MapThenSumSet, MapThenFoldSet
<1>2. PICK h : Sums(h, v, S) BY SumExists
<1>3. \A x \in S : v[x] = value(x) OBVIOUS
<1> HIDE DEF value, S
<1>4. \A g : body(g) <=> Sums(g, v, S)
  <2> TAKE g
  <2>1. \A s \in SUBSET S : s # {} => Chosen(s) \in S BY ChosenIsThere
  <2>2. \A s \in SUBSET S : s # {} => v[Chosen(s)] = value(Chosen(s)) BY <1>3, <2>1
  <2> DEFINE u(s) == IF s = {} THEN 0 ELSE v[Chosen(s)] + g[s \ {Chosen(s)}]
             w(s) == IF s = {} THEN 0 ELSE value(Chosen(s)) + g[s \ {Chosen(s)}]
  <2>3. \A s \in SUBSET S : u(s) = w(s) BY <2>2
  <2>4. Sums(g, v, S) <=> g = [s \in SUBSET S |-> u(s)] BY DEF Sums
  <2>5. body(g) <=> g = [s \in SUBSET S |-> w(s)] BY DEF Chosen
  <2>6. [s \in SUBSET S |-> u(s)] = [s \in SUBSET S |-> w(s)]
    <3> HIDE DEF u, w
    <3> QED BY <2>3
  <2> HIDE DEF u, w, body
  <2> QED BY <2>4, <2>5, <2>6
<1>5. \E g : body(g)
  <2> HIDE DEF body
  <2>1. body(h) BY <1>2, <1>4
  <2> QED BY <2>1, Zenon
<1>6. body(it)
  <2> HIDE DEF body
  <2> QED BY <1>5, Zenon
<1> HIDE DEF body, it
<1>7. Sums(it, v, S) BY <1>4, <1>6
<1> QED BY <1>1, <1>7 DEF S

\* The weights of a set of vectors.
Worth(vectors) == MapThenSumSet(LAMBDA v : VectorWeights[v], vectors)

LEMMA FoldOfWeights ==
  ASSUME NEW vectors, IsFiniteSet(vectors), NEW v, v = [x \in vectors |-> VectorWeights[x]]
  PROVE \E g : Sums(g, v, vectors) /\ Worth(vectors) = g[vectors]
<1> DEFINE S == vectors
           value(x) == VectorWeights[x]
           body(g) == g = [s \in SUBSET S |-> IF s = {} THEN 0 ELSE LET x == CHOOSE x \in s : TRUE IN value(x) + g[s \ {x}]]
           it == CHOOSE g : body(g)
<1>1. Worth(vectors) = it[S] BY DEF Worth, MapThenSumSet, MapThenFoldSet
<1>2. PICK h : Sums(h, v, S) BY SumExists
<1>3. \A x \in S : v[x] = value(x) OBVIOUS
<1> HIDE DEF value, S
<1>4. \A g : body(g) <=> Sums(g, v, S)
  <2> TAKE g
  <2>1. \A s \in SUBSET S : s # {} => Chosen(s) \in S BY ChosenIsThere
  <2>2. \A s \in SUBSET S : s # {} => v[Chosen(s)] = value(Chosen(s)) BY <1>3, <2>1
  <2> DEFINE u(s) == IF s = {} THEN 0 ELSE v[Chosen(s)] + g[s \ {Chosen(s)}]
             w(s) == IF s = {} THEN 0 ELSE value(Chosen(s)) + g[s \ {Chosen(s)}]
  <2>3. \A s \in SUBSET S : u(s) = w(s) BY <2>2
  <2>4. Sums(g, v, S) <=> g = [s \in SUBSET S |-> u(s)] BY DEF Sums
  <2>5. body(g) <=> g = [s \in SUBSET S |-> w(s)] BY DEF Chosen
  <2>6. [s \in SUBSET S |-> u(s)] = [s \in SUBSET S |-> w(s)]
    <3> HIDE DEF u, w
    <3> QED BY <2>3
  <2> HIDE DEF u, w, body
  <2> QED BY <2>4, <2>5, <2>6
<1>5. \E g : body(g)
  <2> HIDE DEF body
  <2>1. body(h) BY <1>2, <1>4
  <2> QED BY <2>1, Zenon
<1>6. body(it)
  <2> HIDE DEF body
  <2> QED BY <1>5, Zenon
<1> HIDE DEF body, it
<1>7. Sums(it, v, S) BY <1>4, <1>6
<1> QED BY <1>1, <1>7 DEF S

-----------------------------------------------------------------------------
(* The scores.                                                              *)

\* Sums of natural numbers are natural, of numbers up to b at most b for each
\* member, and of positive ones positive.
LEMMA SumIsNatural ==
  ASSUME NEW S, IsFiniteSet(S), NEW v, \A x \in S : v[x] \in Nat, NEW g, Sums(g, v, S)
  PROVE \A s \in SUBSET S : g[s] \in Nat
<1> DEFINE T == {n \in Nat : \E s \in SUBSET S : Cardinality(s) = n /\ g[s] \notin Nat}
<1>1. \A s \in SUBSET S : g[s] = IF s = {} THEN 0 ELSE v[Chosen(s)] + g[s \ {Chosen(s)}] BY DEF Sums
<1>2. T = {}
  <2> SUFFICES ASSUME T # {} PROVE FALSE OBVIOUS
  <2>1. T \subseteq Nat OBVIOUS
  <2>2. PICK n \in T : \A m \in T : ~(m < n)
    <3> HIDE DEF T
    <3> QED BY <2>1, Least
  <2>3. PICK s \in SUBSET S : n \in Nat /\ Cardinality(s) = n /\ g[s] \notin Nat OBVIOUS
  <2>4. s # {}
    <3>1. s = {} => g[s] = 0 BY <1>1
    <3> QED BY <2>3, <3>1
  <2> DEFINE x == Chosen(s)
             r == s \ {x}
  <2>5. x \in S BY <2>4, ChosenIsThere
  <2>6. r \in SUBSET S /\ Cardinality(r) = n - 1 /\ n > 0 BY <2>3, <2>4, SmallParts
  <2>7. g[s] = v[x] + g[r] BY <1>1, <2>4
  <2> HIDE DEF x, r
  <2>8. n - 1 \in Nat /\ n - 1 < n BY <2>3, <2>6
  <2>9. g[r] \in Nat BY <2>2, <2>6, <2>8
  <2>10. v[x] \in Nat BY <2>5
  <2> QED BY <2>3, <2>7, <2>9, <2>10
<1>3. \A s \in SUBSET S : Cardinality(s) \in Nat BY SmallParts
<1> QED BY <1>2, <1>3

\* What counts is some of the evidence, and finitely many entries.
LEMMA CountedAreSaid ==
  ASSUME NEW evidence, IsList(evidence)
  PROVE IsFiniteSet(Counted(evidence)) /\ \A e \in Counted(evidence) : \E i \in DOMAIN evidence : e = evidence[i]
<1> DEFINE new(n) == \A j \in 1..(n - 1) : evidence[j].type # evidence[n].type \/ evidence[j].source # evidence[n].source
           I == {n \in DOMAIN evidence : new(n)}
           f == [i \in I |-> evidence[i]]
           n == Len(evidence)
<1>1. n \in Nat /\ DOMAIN evidence = 1..n BY ListDomain
<1>2. Counted(evidence) = {evidence[i] : i \in I} BY DEF Counted
<1>3. I \subseteq 1..n BY <1>1
<1>4. {f[i] : i \in I} = {evidence[i] : i \in I} OBVIOUS
<1>5. DOMAIN f = I /\ f = [i \in I |-> f[i]] OBVIOUS
<1>6. \A e \in Counted(evidence) : \E i \in DOMAIN evidence : e = evidence[i] BY <1>2
<1> HIDE DEF I, n, f
<1>7. IsFiniteSet(1..n) BY <1>1, FS_Interval
<1>8. IsFiniteSet(I) BY <1>3, <1>7, FS_Subset
<1>9. IsFiniteSet({f[i] : i \in I}) BY <1>5, <1>8, ImageIsFinite
<1>10. QED BY <1>2, <1>4, <1>6, <1>9

\* The arithmetic of percentages.
LEMMA PercentOf == ASSUME NEW w \in Nat, NEW c \in 0..100 PROVE (w * c) \div 100 \in Nat
<1>1. w * c \in Nat OBVIOUS
<1> DEFINE p == w * c
<1> HIDE DEF p
<1>2. p \in Nat BY <1>1 DEF p
<1>3. p \div 100 \in Nat BY <1>2
<1> QED BY <1>3 DEF p

LEMMA Mean == ASSUME NEW n \in Nat, n > 0, NEW t \in 0..(100 * n) PROVE t \div n \in 0..100
<1> DEFINE q == t \div n
<1>1. q \in Int /\ n * q <= t /\ t < n * (q + 1) OBVIOUS
<1> HIDE DEF q
<1>2. q <= 100
  <2> SUFFICES ASSUME q > 100 PROVE FALSE BY <1>1
  <2>1. q - 101 \in Nat BY <1>1
  <2>2. n * q = n * 101 + n * (q - 101) /\ n * (q - 101) >= 0 BY <1>1, <2>1
  <2> QED BY <1>1, <2>2
<1>3. q >= 0
  <2> SUFFICES ASSUME q < 0 PROVE FALSE BY <1>1
  <2>1. -(q + 1) \in Nat BY <1>1
  <2>2. n * (q + 1) <= 0 BY <1>1, <2>1
  <2> QED BY <1>1, <2>2
<1> QED BY <1>1, <1>2, <1>3 DEF q

\* What one entry counts for.
LEMMA EntriesScaled ==
  ASSUME NEW F, NEW evidence, Free(evidence, F), NEW part, part \subseteq Counted(evidence)
  PROVE /\ IsFiniteSet(part) /\ Cardinality(part) \in Nat
        /\ \A e \in part : SurenessOf(e) \in 0..100 /\ Points(e) \in Nat
<1>1. IsList(evidence) BY DEF Free
<1>2. IsFiniteSet(part) BY <1>1, CountedAreSaid, FS_Subset
<1>3. Cardinality(part) \in Nat BY <1>2, FS_CardinalityType
<1>4. ASSUME NEW e \in part PROVE SurenessOf(e) \in 0..100 /\ Points(e) \in Nat
  <2>1. PICK i \in DOMAIN evidence : e = evidence[i] BY <1>1, CountedAreSaid
  <2>2. e.weight \in Nat /\ e.confidence \in 0..100 BY <2>1 DEF Free, Scaled
  <2>3. SurenessOf(e) \in 0..100 BY <2>2 DEF SurenessOf
  <2>4. WeightOf(e) \in Nat BY <2>2 DEF WeightOf, Weighted
  <2> QED BY <2>3, <2>4, PercentOf DEF Points
<1> QED BY <1>2, <1>3, <1>4

\* Risk, mitigation and confidence are percentages (scoring.go).
LEMMA PointsAdd ==
  ASSUME NEW F, NEW evidence, Free(evidence, F), NEW part, part \subseteq Counted(evidence)
  PROVE AtMost(100, MapThenSumSet(Points, part)) \in 0..100
<1> DEFINE v == [e \in part |-> Points(e)]
<1>1. IsFiniteSet(part) BY EntriesScaled
<1>2. PICK g : Sums(g, v, part) /\ MapThenSumSet(Points, part) = g[part] BY <1>1, FoldOfPoints
<1>3. \A x \in part : v[x] \in Nat BY EntriesScaled
<1> HIDE DEF v
<1>4. g[part] \in Nat BY <1>1, <1>2, <1>3, SumIsNatural
<1> QED BY <1>2, <1>4 DEF AtMost

LEMMA SurenessAverages ==
  ASSUME NEW F, NEW evidence, Free(evidence, F), NEW part, part \subseteq Counted(evidence), part # {}
  PROVE MapThenSumSet(SurenessOf, part) \div Cardinality(part) \in 0..100
<1> DEFINE v == [e \in part |-> SurenessOf(e)]
           n == Cardinality(part)
<1>1. IsFiniteSet(part) /\ n \in Nat BY EntriesScaled
<1>2. PICK g : Sums(g, v, part) /\ MapThenSumSet(SurenessOf, part) = g[part] BY <1>1, FoldOfSureness
<1>3. \A x \in part : v[x] \in 0..100 BY EntriesScaled
<1>4. n > 0
  <2>1. n # 0 BY <1>1, FS_EmptySet
  <2> QED BY <1>1, <2>1
<1> HIDE DEF v, n
<1>5. g[part] \in 0..(100 * n)
  <2>1. 100 \in Nat OBVIOUS
  <2>2. g[part] \in 0..(100 * Cardinality(part)) BY <1>1, <1>2, <1>3, <2>1, SumIsBounded, ZenonT(60)
  <2> QED BY <2>2 DEF n
<1>6. g[part] \div n \in 0..100 BY <1>1, <1>4, <1>5, Mean
<1> QED BY <1>2, <1>6 DEF n

\* The scores are percentages.
LEMMA ScoresKeep == ASSUME NEW F, NEW a, Sound(a, F) PROVE Sound(CalculateScores(a), F)
<1> DEFINE entries == Counted(a.evidence)
<1>1. Free(a.evidence, F) BY DEF Sound
<1>2. CalculateScores(a) = [a EXCEPT !.risk = Risk(entries), !.mitigation = MitigationOf(entries),
                                     !.confidence = Confidence(entries)]
  BY DEF CalculateScores
<1>3. Risk(entries) \in 0..100
  <2> DEFINE part == {e \in entries : ~e.negative}
  <2>1. part \subseteq Counted(a.evidence) /\ Risk(entries) = AtMost(100, MapThenSumSet(Points, part)) BY DEF Risk
  <2> HIDE DEF part
  <2> QED BY <1>1, <2>1, PointsAdd
<1>4. MitigationOf(entries) \in 0..100
  <2> DEFINE part == {e \in entries : e.negative}
  <2>1. part \subseteq Counted(a.evidence) /\ MitigationOf(entries) = AtMost(100, MapThenSumSet(Points, part)) BY DEF MitigationOf
  <2> HIDE DEF part
  <2> QED BY <1>1, <2>1, PointsAdd
<1>5. Confidence(entries) \in 0..100
  <2> DEFINE scored == {e \in entries : ~e.negative /\ WeightOf(e) > 0}
  <2>1. scored \subseteq Counted(a.evidence) OBVIOUS
  <2>2. Confidence(entries) = IF scored = {} THEN 0 ELSE MapThenSumSet(SurenessOf, scored) \div Cardinality(scored)
    BY DEF Confidence
  <2> HIDE DEF scored
  <2>3. scored # {} => MapThenSumSet(SurenessOf, scored) \div Cardinality(scored) \in 0..100 BY <1>1, <2>1, SurenessAverages
  <2> QED BY <2>2, <2>3
<1> HIDE DEF entries
<1> QED BY <1>2, <1>3, <1>4, <1>5 DEF Sound, Fields

-----------------------------------------------------------------------------
(* A level rests on what the evidence says.                                 *)

\* What a level says was not excluded.
Grounded(level, F) ==
  /\ level \notin {"ZONE_CONTROL_CONFIRMED", "TAKEN_OVER", "CONFIRMED_TAKEOVERABLE",
                   "DELEGATION_CLAIMABILITY_VERIFIED"}
  /\ level = "LIKELY_TAKEOVERABLE" => ~(Shown \subseteq F)
  /\ level = "ORPHANED" => "CNAME_DANGLING" \notin F
  /\ level = "DELEGATION_BROKEN" => "DELEGATION_BROKEN" \notin F
  /\ level = "DELEGATION_TAKEOVER_CANDIDATE" => "DELEGATION_TAKEOVER_CANDIDATE" \notin F

\* Nobody claims anything, so no evidence says so.
Unclaimed == {"ZONE_CONTROL_CONFIRMED", "CLAIM_SUCCESS", "DELEGATION_CLAIMABILITY_VERIFIED",
              "DELEGATION_CLAIMABILITY_NOT_DEMONSTRATED"}

\* The rules are asked in order; the level is the one of the first that
\* holds, and the last always does.
LEMMA LeastIsThere == ASSUME NEW S, S \subseteq Nat, S # {} PROVE Min(S) \in S
<1>1. PICK n \in S : \A m \in S : ~(m < n) BY Least
<1>2. \A m \in S : n <= m BY <1>1
<1>3. \E x \in S : \A y \in S : x <= y BY <1>1, <1>2
<1>4. QED BY <1>3, Zenon DEF Min

LEMMA NotSaid ==
  ASSUME NEW e, NEW F, Free(e, F), NEW type \in F PROVE ~Has(e, type) /\ OfType(e, type) = {}
  BY DEF Free, Has, OfType

LEMMA RuleHolds ==
  ASSUME NEW a
  PROVE \E i \in 1..14 : Rules(a)[i][2] /\ Classify(a) = Rules(a)[i][1]
<1> DEFINE S == {i \in DOMAIN Rules(a) : Rules(a)[i][2]}
<1>1. DOMAIN Rules(a) = 1..14 BY DEF Rules
<1>2. Rules(a)[14][2]
  <2>1. Rules(a)[14] = <<"UNKNOWN", TRUE>> BY DEF Rules
  <2>2. QED BY <2>1
<1>3. 14 \in S /\ S \subseteq Nat /\ S \subseteq 1..14 BY <1>1, <1>2
<1>4. Min(S) \in S
  <2> HIDE DEF S
  <2> QED BY <1>3, LeastIsThere
<1>5. Classify(a) = Rules(a)[Min(S)][1] BY DEF Classify
<1>6. Rules(a)[Min(S)][2] /\ Min(S) \in 1..14
  <2> DEFINE m == Min(S)
  <2>1. m \in S BY <1>4
  <2> HIDE DEF m
  <2>2. Rules(a)[m][2] /\ m \in 1..14 BY <1>1, <2>1
  <2>3. QED BY <2>2 DEF m
<1> HIDE DEF S
<1>7. QED BY <1>5, <1>6

LEMMA RuleNames ==
  ASSUME NEW a
  PROVE /\ Rules(a)[1][1] = "ZONE_CONTROL_CONFIRMED" /\ Rules(a)[2][1] = "TAKEN_OVER" /\ Rules(a)[3][1] = "CONFIRMED_TAKEOVERABLE"
        /\ Rules(a)[4][1] = "LIKELY_TAKEOVERABLE" /\ Rules(a)[5][1] = "DELEGATION_CLAIMABILITY_VERIFIED"
        /\ Rules(a)[6][1] = "DELEGATION_BROKEN" /\ Rules(a)[7][1] = "DELEGATION_TAKEOVER_CANDIDATE"
        /\ Rules(a)[8][1] = "DELEGATION_BROKEN" /\ Rules(a)[9][1] = "EXPOSED" /\ Rules(a)[10][1] = "ORPHANED"
        /\ Rules(a)[11][1] = "MISCONFIGURED" /\ Rules(a)[12][1] = "HEALTHY"
        /\ Rules(a)[13][1] = "INSUFFICIENT_EVIDENCE" /\ Rules(a)[14][1] = "UNKNOWN"
  BY DEF Rules

\* What each accusing rule asks for (rules.go).
LEMMA RulesAsk ==
  ASSUME NEW a
  PROVE /\ Rules(a)[1][2] => Has(a.evidence, "ZONE_CONTROL_CONFIRMED")
        /\ Rules(a)[2][2] => Has(a.evidence, "CLAIM_SUCCESS")
        /\ Rules(a)[3][2] => a.verification.score = 100
        /\ Rules(a)[4][2] => (ProviderBound(a.evidence, "HTTP_MUTATION_REVEALED_PROVIDER_FINGERPRINT") \/ ProviderBound(a.evidence, "HTTP_BODY_MATCH"))
        /\ Rules(a)[5][2] => Has(a.evidence, "DELEGATION_CLAIMABILITY_VERIFIED")
        /\ Rules(a)[6][2] => Has(a.evidence, "DELEGATION_CLAIMABILITY_NOT_DEMONSTRATED")
        /\ Rules(a)[7][2] => Has(a.evidence, "DELEGATION_TAKEOVER_CANDIDATE")
        /\ Rules(a)[8][2] => Has(a.evidence, "DELEGATION_BROKEN")
        /\ Rules(a)[10][2] => Has(a.evidence, "CNAME_DANGLING")
<1>1. Rules(a)[1][2] => Has(a.evidence, "ZONE_CONTROL_CONFIRMED")
  <2>1. Rules(a)[1] = <<"ZONE_CONTROL_CONFIRMED", Has(a.evidence, "ZONE_CONTROL_CONFIRMED")>> BY DEF Rules
  <2>2. QED BY <2>1
<1>2. Rules(a)[2][2] => Has(a.evidence, "CLAIM_SUCCESS")
  <2>1. Rules(a)[2] = <<"TAKEN_OVER", Has(a.evidence, "CLAIM_SUCCESS")>> BY DEF Rules
  <2>2. QED BY <2>1
<1>3. Rules(a)[3][2] => a.verification.score = 100
  <2> DEFINE proven == /\ a.verification.score = 100 /\ a.verification.verified
                       /\ a.verification.proven /\ a.verification.confidence = 100
  <2>1. Rules(a)[3] = <<"CONFIRMED_TAKEOVERABLE", proven>> BY DEF Rules
  <2> HIDE DEF proven
  <2>2. Rules(a)[3][2] => proven BY <2>1
  <2>3. QED BY <2>2 DEF proven
<1>4. Rules(a)[4][2] => (ProviderBound(a.evidence, "HTTP_MUTATION_REVEALED_PROVIDER_FINGERPRINT") \/ ProviderBound(a.evidence, "HTTP_BODY_MATCH"))
  <2> DEFINE bound == \/ ProviderBound(a.evidence, "HTTP_MUTATION_REVEALED_PROVIDER_FINGERPRINT")
                      \/ ProviderBound(a.evidence, "HTTP_BODY_MATCH")
  <2>1. Rules(a)[4] = <<"LIKELY_TAKEOVERABLE", bound>> BY DEF Rules
  <2> HIDE DEF bound
  <2>2. Rules(a)[4][2] => bound BY <2>1
  <2>3. QED BY <2>2 DEF bound
<1>5. Rules(a)[5][2] => Has(a.evidence, "DELEGATION_CLAIMABILITY_VERIFIED")
  <2>1. Rules(a)[5] = <<"DELEGATION_CLAIMABILITY_VERIFIED", Has(a.evidence, "DELEGATION_CLAIMABILITY_VERIFIED")>>
    BY DEF Rules
  <2>2. QED BY <2>1
<1>6. Rules(a)[6][2] => Has(a.evidence, "DELEGATION_CLAIMABILITY_NOT_DEMONSTRATED")
  <2>1. Rules(a)[6] = <<"DELEGATION_BROKEN", Has(a.evidence, "DELEGATION_CLAIMABILITY_NOT_DEMONSTRATED")>>
    BY DEF Rules
  <2>2. QED BY <2>1
<1>7. Rules(a)[7][2] => Has(a.evidence, "DELEGATION_TAKEOVER_CANDIDATE")
  <2>1. Rules(a)[7] = <<"DELEGATION_TAKEOVER_CANDIDATE", Has(a.evidence, "DELEGATION_TAKEOVER_CANDIDATE")>>
    BY DEF Rules
  <2>2. QED BY <2>1
<1>8. Rules(a)[8][2] => Has(a.evidence, "DELEGATION_BROKEN")
  <2>1. Rules(a)[8] = <<"DELEGATION_BROKEN", Has(a.evidence, "DELEGATION_BROKEN")>> BY DEF Rules
  <2>2. QED BY <2>1
<1>9. Rules(a)[10][2] => Has(a.evidence, "CNAME_DANGLING")
  <2>1. Rules(a)[10] = <<"ORPHANED", Has(a.evidence, "CNAME_DANGLING")>> BY DEF Rules
  <2>2. QED BY <2>1
<1>10. QED BY <1>1, <1>2, <1>3, <1>4, <1>5, <1>6, <1>7, <1>8, <1>9

\* The level is one of the levels, and the state one of the states.
LEMMA LevelIsNamed == ASSUME NEW a PROVE Classify(a) \in Levels
<1>1. PICK i \in 1..14 : Classify(a) = Rules(a)[i][1] BY RuleHolds
<1>2. i \in {1, 2, 3, 4, 5, 6, 7, 8, 9, 10, 11, 12, 13, 14} BY <1>1
<1> QED BY <1>1, <1>2, RuleNames DEF Levels

LEMMA BoundIsSaid == ASSUME NEW e, NEW type, ProviderBound(e, type) PROVE OfType(e, type) # {}
  BY DEF ProviderBound

\* The level of a sound analysis is grounded.
LEMMA LevelIsGrounded ==
  ASSUME NEW F, Unclaimed \subseteq F, NEW a, Sound(a, F)
  PROVE Grounded(Classify(a), F)
<1>1. PICK i \in 1..14 : Rules(a)[i][2] /\ Classify(a) = Rules(a)[i][1] BY RuleHolds
<1>2. Free(a.evidence, F) /\ a.verification.score # 100 BY DEF Sound
<1>3. \A type \in F : ~Has(a.evidence, type) /\ OfType(a.evidence, type) = {} BY <1>2, NotSaid
<1>4. CASE i = 1 BY <1>1, <1>3, <1>4, RuleNames, RulesAsk DEF Unclaimed
<1>5. CASE i = 2 BY <1>1, <1>3, <1>5, RuleNames, RulesAsk DEF Unclaimed
<1>6. CASE i = 3 BY <1>1, <1>2, <1>6, RulesAsk
<1>7. CASE i = 4
  <2>1. Classify(a) = "LIKELY_TAKEOVERABLE" BY <1>1, <1>7, RuleNames, RulesAsk
  <2>2. ProviderBound(a.evidence, "HTTP_MUTATION_REVEALED_PROVIDER_FINGERPRINT") \/ ProviderBound(a.evidence, "HTTP_BODY_MATCH")
    BY <1>1, <1>7, RuleNames, RulesAsk
  <2>3. ~(Shown \subseteq F) BY <1>3, <2>2, BoundIsSaid DEF Shown
  <2>4. QED BY <2>1, <2>3 DEF Grounded
<1>8. CASE i = 5 BY <1>1, <1>3, <1>8, RuleNames, RulesAsk DEF Unclaimed
<1>9. CASE i = 6 BY <1>1, <1>3, <1>9, RuleNames, RulesAsk DEF Unclaimed
<1>10. CASE i = 7
  <2>1. Classify(a) = "DELEGATION_TAKEOVER_CANDIDATE" /\ Has(a.evidence, "DELEGATION_TAKEOVER_CANDIDATE")
    BY <1>1, <1>10, RuleNames, RulesAsk
  <2>2. QED BY <1>3, <2>1 DEF Grounded
<1>11. CASE i = 8
  <2>1. Classify(a) = "DELEGATION_BROKEN" /\ Has(a.evidence, "DELEGATION_BROKEN") BY <1>1, <1>11, RuleNames, RulesAsk
  <2>2. QED BY <1>3, <2>1 DEF Grounded
<1>12. CASE i = 10
  <2>1. Classify(a) = "ORPHANED" /\ Has(a.evidence, "CNAME_DANGLING") BY <1>1, <1>12, RuleNames, RulesAsk
  <2>2. QED BY <1>3, <2>1 DEF Grounded
<1>13. CASE i \in {9, 11, 12, 13, 14}
  <2>1. Classify(a) \in {"EXPOSED", "MISCONFIGURED", "HEALTHY", "INSUFFICIENT_EVIDENCE", "UNKNOWN"}
    BY <1>1, <1>13, RuleNames
  <2>2. QED BY <2>1 DEF Grounded
<1>14. QED BY <1>4, <1>5, <1>6, <1>7, <1>8, <1>9, <1>10, <1>11, <1>12, <1>13

LEMMA StateIsNamed == ASSUME NEW level PROVE StateForLevel(level) \in States
  BY DEF StateForLevel, States

\* The inference that goes with a state is one of those drawn, or none.
LEMMA SelectedIsDrawn ==
  ASSUME NEW inferences, Drawn(inferences), NEW state
  PROVE InferenceForState(inferences, state).state \in States \cup {""}
<1> DEFINE best(i) == \A j \in DOMAIN inferences : InferenceRank[inferences[j].state] <= InferenceRank[inferences[i].state]
           fit == {i \in DOMAIN inferences : IF state = "INCONCLUSIVE" THEN best(i) ELSE inferences[i].state = state}
<1>1. InferenceForState(inferences, state) = IF fit = {} THEN Inference("", "", 0) ELSE inferences[Min(fit)]
  BY DEF InferenceForState
<1>2. fit \subseteq DOMAIN inferences OBVIOUS
<1> HIDE DEF fit
<1>3. CASE fit = {}
  <2>1. Inference("", "", 0).state = "" BY DEF Inference
  <2> QED BY <1>1, <1>3, <2>1
<1>4. CASE fit # {}
  <2>1. Len(inferences) \in Nat /\ DOMAIN inferences = 1..Len(inferences) BY ListDomain DEF Drawn
  <2>2. fit \subseteq Nat BY <1>2, <2>1
  <2>3. Min(fit) \in fit BY <1>4, <2>2, LeastIsThere
  <2>4. inferences[Min(fit)].state \in States BY <1>2, <2>3 DEF Drawn
  <2> QED BY <1>1, <1>4, <2>4
<1> QED BY <1>3, <1>4

\* Everything after the rules keeps the evidence and the level.
LEMMA DecisionKeeps ==
  ASSUME NEW F, NEW a, Sound(a, F)
  PROVE Sound(UpdateDecision(a), F) /\ UpdateDecision(a).level = a.level /\ UpdateDecision(a).state \in States
<1> DEFINE base == StateForLevel(a.level)
           selected == InferenceForState(a.inferences, base)
           state == CASE base = "INCONCLUSIVE" /\ selected.state = "HEALTHY" -> "OBSERVATION"
                      [] base = "INCONCLUSIVE" /\ selected.state \notin {"", "HEALTHY"} -> selected.state
                      [] OTHER -> base
           impact == IF state = "CONFIRMED" /\ selected.impact = 0 THEN 100 ELSE selected.impact
<1>1. UpdateDecision(a) = [a EXCEPT !.state = state, !.rule = selected.rule, !.impact = impact] BY DEF UpdateDecision
<1>2. state \in States
  <2>1. base \in States BY StateIsNamed
  <2>2. Drawn(a.inferences) BY DEF Sound
  <2>3. selected.state \in States \cup {""} BY <2>2, SelectedIsDrawn
  <2>4. "OBSERVATION" \in States BY DEF States
  <2> DEFINE s == selected.state
             y == base = "INCONCLUSIVE" /\ s = "HEALTHY"
             z == base = "INCONCLUSIVE" /\ s \notin {"", "HEALTHY"}
  <2>5. state = CASE y -> "OBSERVATION" [] z -> s [] OTHER -> base OBVIOUS
  <2>6. z => s \in States BY <2>3
  <2>7. ~(y /\ z) OBVIOUS
  <2> HIDE DEF base, s, y, z, state
  <2> QED BY <2>1, <2>4, <2>5, <2>6, <2>7
<1> HIDE DEF state, selected, impact
<1>3. UpdateDecision(a).state = state BY <1>1 DEF Sound, Fields
<1>4. QED BY <1>1, <1>2, <1>3 DEF Sound, Fields

\* Judging again, and the whole of Process, do as much.
LEMMA ReclassifySound ==
  ASSUME NEW F, NEW a, Sound(a, F)
  PROVE /\ Sound(Reclassify(a), F) /\ Reclassify(a).state \in States
        /\ Unclaimed \subseteq F => Grounded(Reclassify(a).level, F)
<1> DEFINE judged == [a EXCEPT !.level = Classify(a)]
<1>1. Unclaimed \subseteq F => Grounded(Classify(a), F) BY LevelIsGrounded
<1>2. Classify(a) \in Levels BY LevelIsNamed
<1>3. Sound(judged, F) /\ judged.level = Classify(a) BY <1>2 DEF Sound, Fields
<1>4. Reclassify(a) = UpdateDecision(judged) BY DEF Reclassify
<1> HIDE DEF judged
<1>5. Sound(UpdateDecision(judged), F) /\ UpdateDecision(judged).level = judged.level /\ UpdateDecision(judged).state \in States
  BY <1>3, DecisionKeeps
<1>6. QED BY <1>1, <1>3, <1>4, <1>5

LEMMA UnknownKeeps ==
  ASSUME NEW F, NEW a, Sound(a, F)
  PROVE /\ Sound(DetectUnknownProvider(a), F)
        /\ DetectUnknownProvider(a).level = a.level /\ DetectUnknownProvider(a).state = a.state
<1> DEFINE high == IF Types(a.evidence) \cap OrphanSignals # {} THEN "HIGH" ELSE "MEDIUM"
           known == Types(a.evidence) \cap KnownProvider # {} \/ a.target = ""
<1>1. DetectUnknownProvider(a) = IF known THEN a ELSE [a EXCEPT !.unknown = high] BY DEF DetectUnknownProvider
<1> HIDE DEF high, known
<1>2. QED BY <1>1 DEF Sound, Fields

LEMMA ProcessSound ==
  ASSUME NEW F, F \subseteq Grave, NEW a, Sound(a, F), NEW walk
  PROVE /\ Sound(Process(a, walk), F) /\ Process(a, walk).state \in States
        /\ Unclaimed \subseteq F => Grounded(Process(a, walk).level, F)
<1> DEFINE scored == CalculateScores(Infer(a, walk))
           judged == Reclassify(scored)
<1>1. Sound(scored, F) BY InferSound, ScoresKeep
<1>2. Process(a, walk) = DetectUnknownProvider(judged) BY DEF Process
<1> HIDE DEF scored
<1>3. /\ Sound(judged, F) /\ judged.state \in States
      /\ Unclaimed \subseteq F => Grounded(judged.level, F)
  BY <1>1, ReclassifySound
<1> HIDE DEF judged
<1>4. QED BY <1>2, <1>3, UnknownKeeps

\* The cloud verifiers add evidence of exposures, and keep the level.
LEMMA BucketPlain == ASSUME NEW w PROVE Free(BucketEvidence(w), Grave)
<1> DEFINE b == w.bucket
           at(type, weight) == Evidence(type, b.verifier, weight, 100)
           private == CASE b.verifier = "AWS S3" -> "CLOUD_S3_PRIVATE" [] b.verifier = "Azure Blob Storage" -> "CLOUD_AZURE_BLOB_PRIVATE"
                        [] OTHER -> "CLOUD_GCS_PRIVATE"
           listable == CASE b.verifier = "AWS S3" -> "CLOUD_S3_LISTABLE" [] b.verifier = "Azure Blob Storage" -> "CLOUD_AZURE_BLOB_LISTABLE"
                         [] OTHER -> "CLOUD_GCS_LISTABLE"
           one == <<[at(private, 50) EXCEPT !.negative = TRUE]>>
           list == b.reached /\ b.state = "listable"
           acl == b.verifier = "AWS S3" /\ b.acl
           two == If(list, <<at(listable, 70)>>) \o If(acl, <<at("CLOUD_S3_WRITABLE", 90)>>)
<1>1. private \notin Grave /\ listable \notin Grave BY DEF Grave
<1> HIDE DEF private, listable
<1>2. [at(private, 50) EXCEPT !.negative = TRUE].type = private BY DEF Evidence
<1>9. Scaled([at(private, 50) EXCEPT !.negative = TRUE]) BY Numbers DEF Evidence, Scaled
<1>3. Free(one, Grave)
  <2> DEFINE e == [at(private, 50) EXCEPT !.negative = TRUE]
  <2>1. e.type \notin Grave /\ Scaled(e) BY <1>1, <1>2, <1>9
  <2> HIDE DEF e
  <2>2. Free(<<e>>, Grave) BY <2>1, FreeOne
  <2>3. QED BY <2>2 DEF e
<1>4. Free(<<at(listable, 70)>>, Grave) /\ Free(<<at("CLOUD_S3_WRITABLE", 90)>>, Grave)
  <2> DEFINE verifier == b.verifier
  <2> HIDE DEF verifier
  <2>1. Free(<<Evidence(listable, verifier, 70, 100)>>, Grave) BY <1>1, Plain, Numbers, ZenonT(60)
  <2>2. "CLOUD_S3_WRITABLE" \notin Grave BY DEF Grave
  <2>3. Free(<<Evidence("CLOUD_S3_WRITABLE", verifier, 90, 100)>>, Grave) BY <2>2, Plain, Numbers, ZenonT(60)
  <2> QED BY <2>1, <2>3, SMTT(60) DEF verifier
<1>5. Free(two, Grave)
  <2> HIDE DEF list, acl, at
  <2> QED BY <1>4, IfPlain, FreeJoin
<1>6. BucketEvidence(w) = CASE b.reached /\ b.state = "missing" -> <<>> [] b.reached /\ b.state = "private" -> one [] OTHER -> two
  BY DEF BucketEvidence, private, listable
<1> HIDE DEF one, two
<1>7. BucketEvidence(w) \in {<<>>, one, two}
  <2> DEFINE x == b.reached /\ b.state = "missing"
             y == b.reached /\ b.state = "private"
  <2>1. BucketEvidence(w) = CASE x -> <<>> [] y -> one [] OTHER -> two BY <1>6
  <2> HIDE DEF x, y
  <2>2. QED BY <2>1
<1>8. QED BY <1>3, <1>5, <1>7, FreeNone

LEMMA CloudSound ==
  ASSUME NEW F, F \subseteq Grave, NEW w, NEW a, Sound(a, F)
  PROVE /\ Sound(RunCloud(w, a), F) /\ RunCloud(w, a).level = a.level /\ RunCloud(w, a).state = a.state
        /\ Sound(Tested(a, "CLOUD"), F) /\ Tested(a, "CLOUD").level = a.level /\ Tested(a, "CLOUD").state = a.state
<1> DEFINE asked == w.bucket.verifier # "" /\ VerifierMatchesAnalysis(w, a, w.bucket.verifier) /\ HasProviderCNAME(w, w.bucket.verifier)
           told == IF asked THEN Collected(a, BucketEvidence(w)) ELSE a
<1>1. Sound(Collected(a, BucketEvidence(w)), F) BY BucketPlain, SoundAdding
<1>2. Collected(a, BucketEvidence(w)).level = a.level /\ Collected(a, BucketEvidence(w)).state = a.state
  BY DEF Collected
<1>3. RunCloud(w, a) = Tested(told, "CLOUD") BY DEF RunCloud
<1> HIDE DEF asked
<1>4. Sound(told, F) /\ told.level = a.level /\ told.state = a.state BY <1>1, <1>2
<1> HIDE DEF told
<1>5. \A so : Tested(so, "CLOUD").level = so.level /\ Tested(so, "CLOUD").state = so.state BY DEF Tested
<1>6. QED BY <1>3, <1>4, <1>5, SoundTested

\* What the verifiers leave is sound, and its level grounded.
LEMMA VerifiedSound ==
  ASSUME NEW F, F \subseteq Grave, NEW w, NEW a, Sound(a, F), NEW cut
  PROVE /\ Sound(AfterVerifiers(w, a, cut), F)
        /\ a.state \in States => AfterVerifiers(w, a, cut).state \in States
        /\ Unclaimed \subseteq F /\ Grounded(a.level, F) => Grounded(AfterVerifiers(w, a, cut).level, F)
<1> DEFINE cloud(so) == IF ~CheckCloud THEN so ELSE IF cut THEN Tested(so, "CLOUD") ELSE RunCloud(w, so)
           won == ~cut /\ Winners(w, a) # {}
           verified == WithVerification(a)
<1>1. \A so : Sound(so, F) => Sound(cloud(so), F) /\ cloud(so).level = so.level /\ cloud(so).state = so.state
  BY CloudSound
<1>2. AfterVerifiers(w, a, cut) = IF won THEN Reclassify(cloud(verified)) ELSE cloud(a) BY DEF AfterVerifiers
<1>3. Sound(verified, F) BY DEF Sound, Fields, WithVerification
<1> HIDE DEF cloud, won, verified
<1>4. Sound(cloud(verified), F) /\ Sound(cloud(a), F) /\ cloud(a).level = a.level /\ cloud(a).state = a.state
  BY <1>1, <1>3
<1>5. /\ Sound(Reclassify(cloud(verified)), F) /\ Reclassify(cloud(verified)).state \in States
      /\ Unclaimed \subseteq F => Grounded(Reclassify(cloud(verified)).level, F)
  BY <1>4, ReclassifySound
<1>6. QED BY <1>2, <1>4, <1>5

-----------------------------------------------------------------------------
(* The percentage.                                                          *)

LEMMA NineAreFinite ==
  ASSUME NEW S, IsFiniteSet(S), NEW a, NEW b, NEW c, NEW d, NEW e, NEW f, NEW g, NEW h, NEW i
  PROVE IsFiniteSet(S \cup {a, b, c, d, e, f, g, h, i})
<1>1. IsFiniteSet(S \cup {a}) BY FS_AddElement
<1>2. IsFiniteSet((S \cup {a}) \cup {b}) BY <1>1, FS_AddElement
<1>3. IsFiniteSet((S \cup {a, b}) \cup {c})
  <2>1. (S \cup {a}) \cup {b} = S \cup {a, b} OBVIOUS
  <2> QED BY <1>2, <2>1, FS_AddElement
<1>4. IsFiniteSet((S \cup {a, b, c}) \cup {d})
  <2>1. (S \cup {a, b}) \cup {c} = S \cup {a, b, c} OBVIOUS
  <2> QED BY <1>3, <2>1, FS_AddElement
<1>5. IsFiniteSet((S \cup {a, b, c, d}) \cup {e})
  <2>1. (S \cup {a, b, c}) \cup {d} = S \cup {a, b, c, d} OBVIOUS
  <2> QED BY <1>4, <2>1, FS_AddElement
<1>6. IsFiniteSet((S \cup {a, b, c, d, e}) \cup {f})
  <2>1. (S \cup {a, b, c, d}) \cup {e} = S \cup {a, b, c, d, e} OBVIOUS
  <2> QED BY <1>5, <2>1, FS_AddElement
<1>7. IsFiniteSet((S \cup {a, b, c, d, e, f}) \cup {g})
  <2>1. (S \cup {a, b, c, d, e}) \cup {f} = S \cup {a, b, c, d, e, f} OBVIOUS
  <2> QED BY <1>6, <2>1, FS_AddElement
<1>8. IsFiniteSet((S \cup {a, b, c, d, e, f, g}) \cup {h})
  <2>1. (S \cup {a, b, c, d, e, f}) \cup {g} = S \cup {a, b, c, d, e, f, g} OBVIOUS
  <2> QED BY <1>7, <2>1, FS_AddElement
<1>9. IsFiniteSet((S \cup {a, b, c, d, e, f, g, h}) \cup {i})
  <2>1. (S \cup {a, b, c, d, e, f, g}) \cup {h} = S \cup {a, b, c, d, e, f, g, h} OBVIOUS
  <2> QED BY <1>8, <2>1, FS_AddElement
<1>10. (S \cup {a, b, c, d, e, f, g, h}) \cup {i} = S \cup {a, b, c, d, e, f, g, h, i} OBVIOUS
<1> QED BY <1>9, <1>10

\* The vectors are finitely many, and each has a weight (engine.go).
LEMMA VectorsAreFinite == IsFiniteSet(DOMAIN VectorWeights)
<1> DEFINE none == {}
           A == {"DNS", "HTTP", "TLS", "MX", "TXT", "SRV", "A_AAAA_ASN", "CAA", "NS_DELEGATION"}
           B == {"EMAIL", "SEC_HEADERS", "OPEN_REDIRECT", "AXFR", "DNSSEC", "SHADOW_IT", "CLOUD", "HTTP_MUTATOR",
                 "HTTP_FRAMING_LAB"}
           C == {"HTTP_POSTURE", "REDIRECT_CHAIN", "VHOST", "WEB_DEPENDENCIES", "SNI", "TLS_SAN_DISCOVERY",
                 "TLS_SAN_PIVOT",
                 "ORIGIN_EXPOSURE", "PROVIDER_HISTORY"}
<1>1. IsFiniteSet(none) BY FS_EmptySet
<1>2. DOMAIN VectorWeights = none \cup A \cup B \cup C BY DEF VectorWeights
<1> HIDE DEF none
<1>3. IsFiniteSet(none \cup A) BY <1>1, NineAreFinite
<1>4. IsFiniteSet((none \cup A) \cup B)
  <2> HIDE DEF A
  <2> QED BY <1>3, NineAreFinite
<1>5. IsFiniteSet((none \cup A \cup B) \cup C)
  <2> HIDE DEF A, B
  <2> QED BY <1>4, NineAreFinite
<1> HIDE DEF A, B, C
<1> QED BY <1>2, <1>5

LEMMA VectorsCount == \A x \in DOMAIN VectorWeights : VectorWeights[x] \in 1..20
  BY DEF VectorWeights

LEMMA WorthOfVectors ==
  ASSUME NEW vectors, vectors \subseteq DOMAIN VectorWeights
  PROVE Worth(vectors) \in Nat /\ (vectors # {} => Worth(vectors) > 0)
<1>1. IsFiniteSet(vectors) BY VectorsAreFinite, FS_Subset
<1> DEFINE v == [x \in vectors |-> VectorWeights[x]]
<1>2. PICK g : Sums(g, v, vectors) /\ Worth(vectors) = g[vectors] BY <1>1, FoldOfWeights
<1>3. \A x \in vectors : v[x] \in 1..20 BY VectorsCount
<1> HIDE DEF v
<1>4. 20 \in Nat /\ \A x \in vectors : v[x] \in Nat BY <1>3
<1>5. g[vectors] \in Nat BY <1>1, <1>2, <1>4, SumIsNatural
<1>6. vectors # {} => g[vectors] \in Nat \ {0}
  <2> DEFINE b == 20
  <2>1. b \in Nat /\ \A x \in vectors : v[x] \in 1..b BY <1>3
  <2> HIDE DEF b
  <2> QED BY <1>1, <1>2, <2>1, SumIsPositive
<1> QED BY <1>2, <1>5, <1>6

\* A share of the coverage.
LEMMA ShareIsNatural ==
  ASSUME NEW part \in Nat, NEW whole \in Nat, whole > 0 PROVE (part * 1000) \div whole \in Nat
<1> DEFINE t == part * 1000
           q == t \div whole
<1>1. t \in Nat OBVIOUS
<1> HIDE DEF t
<1>2. q \in Int /\ t < whole * (q + 1) BY <1>1
<1> HIDE DEF q
<1>3. q >= 0
  <2> SUFFICES ASSUME q < 0 PROVE FALSE BY <1>2
  <2>1. -(q + 1) \in Nat BY <1>2
  <2>2. whole * (q + 1) <= 0 BY <1>2, <2>1
  <2> QED BY <1>1, <1>2, <2>2
<1> QED BY <1>2, <1>3 DEF q, t

LEMMA CoverageIsNatural ==
  ASSUME NEW tested, NEW profile,
         profile \subseteq DOMAIN VectorWeights PROVE CalculateCoverage(tested, profile) \in Nat
<1> DEFINE expected == AlwaysExpected \cup profile
           named == {CASE v = "NS" -> "NS_DELEGATION" [] v = "ASN" -> "A_AAAA_ASN" [] OTHER -> v : v \in tested}
<1>1. CalculateCoverage(tested, profile) = (Worth(expected \cap named) * 1000) \div Worth(expected)
  BY DEF CalculateCoverage, Worth
<1>2. "DNS" \in expected BY DEF AlwaysExpected
<1>3. AlwaysExpected \subseteq DOMAIN VectorWeights BY DEF AlwaysExpected, VectorWeights
<1>4. expected \subseteq DOMAIN VectorWeights /\ expected \cap named \subseteq DOMAIN VectorWeights BY <1>3
<1> HIDE DEF expected, named
<1>5. Worth(expected) \in Nat /\ Worth(expected) > 0 /\ Worth(expected \cap named) \in Nat
  BY <1>2, <1>4, WorthOfVectors
<1> QED BY <1>1, <1>5, ShareIsNatural

LEMMA MultiplierIsNatural == ASSUME NEW evidence PROVE Multiplier(evidence) \in Nat
<1> DEFINE at == {i \in DOMAIN evidence : evidence[i].type \in {"LONG_LIVED_ORPHAN", "CORRELATED_PROVIDER_CONFIRMATION"}}
<1>1. Multiplier(evidence) = CASE at = {} -> 100
        [] at # {} /\ evidence[Max(at)].type = "LONG_LIVED_ORPHAN" -> 115
        [] OTHER -> 120
  BY DEF Multiplier
<1> HIDE DEF at
<1> QED BY <1>1

\* A percentage under both of its caps.
LEMMA CappedTwice ==
  ASSUME NEW bound \in Nat, NEW n \in Nat PROVE AtMost(bound, AtMost(999, n)) \in 0..bound
<1>1. AtMost(999, n) \in Nat BY DEF AtMost
<1>2. \A k \in Nat : AtMost(bound, k) \in 0..bound BY DEF AtMost
<1>3. QED BY <1>1, <1>2

\* The percentage never exceeds what was covered, but for a claim.
LEMMA PercentIsCovered ==
  ASSUME NEW F, NEW a, Sound(a, F), a.level \notin {"ZONE_CONTROL_CONFIRMED", "TAKEN_OVER"}
  PROVE Calculate(a) \in 0..CalculateCoverage(a.tested, a.profile)
<1> DEFINE coverage == CalculateCoverage(a.tested, a.profile)
           knowledge == CalculateKnowledge(a.evidence)
           good == 800 + a.mitigation * 2
           healthy == AtMost(coverage, AtMost(999, good))
           unknown == coverage >= 800 /\ knowledge <= 300 /\ a.unknown # ""
           points == (a.confidence * Multiplier(a.evidence)) \div 10
           other == AtMost(coverage, AtMost(999, points))
           same == IF unknown THEN AtMost(450, healthy) ELSE healthy
<1>1. coverage \in Nat BY CoverageIsNatural DEF Sound
<1>2. good \in Nat BY DEF Sound
<1>3. points \in Nat
  <2>1. Multiplier(a.evidence) \in Nat BY MultiplierIsNatural
  <2> DEFINE m == Multiplier(a.evidence)
             p == a.confidence * m
  <2>2. p \in Nat
    <3> HIDE DEF m
    <3> QED BY <2>1 DEF Sound, m
  <2> HIDE DEF p
  <2>3. p \div 10 \in Nat BY <2>2
  <2> QED BY <2>3 DEF p
<1>4. Calculate(a) = CASE a.level \in {"TAKEN_OVER", "ZONE_CONTROL_CONFIRMED"} -> 1000
                       [] a.level = "INSUFFICIENT_EVIDENCE" -> 0
                       [] a.level = "HEALTHY" -> same
                       [] OTHER -> other
  BY DEF Calculate
<1> HIDE DEF good, points, coverage, knowledge, unknown
<1>6. healthy \in 0..coverage /\ other \in 0..coverage
  <2>1. healthy \in 0..coverage BY <1>1, <1>2, CappedTwice
  <2>2. other \in 0..coverage BY <1>1, <1>3, CappedTwice
  <2>3. QED BY <2>1, <2>2
<1>7. same \in 0..coverage
  <2> HIDE DEF healthy
  <2>1. AtMost(450, healthy) \in 0..coverage BY <1>1, <1>6 DEF AtMost
  <2> QED BY <1>6, <2>1
<1>8. 0 \in 0..coverage BY <1>1
<1> HIDE DEF same, other
<1> QED BY <1>4, <1>6, <1>7, <1>8 DEF coverage

-----------------------------------------------------------------------------
(* The invariant.                                                           *)

\* Where the host is, and what it has seen.
InPlace ==
  /\ world \in DOMAIN Worlds
  /\ order \in Orders
  /\ first \in BOOLEAN
  /\ lost \in SUBSET ProfileQueries
  /\ faults \in Nat
  /\ interrupted \in BOOLEAN
  /\ pc \in {"profile", "collect", "judge", "verify", "decide", "save", "observe", "done"}
  /\ pc = "profile" => step = 1
  /\ pc = "collect" => step \in 1..Len(Pipeline(order))

\* What is false of this world, with the lookups that failed.
Excluded == Untrue(Worlds[world], faults)

\* Until the context has ended the analysis says nothing that is false, and no
\* more than its evidence allows; afterwards the collectors see the blackout,
\* and what they say of it is not stored.
TrueSoFar ==
  /\ pc \in {"profile", "collect", "judge", "verify", "decide"} /\ ~interrupted => Sound(analysis, Excluded)
  /\ pc \in {"verify", "decide"} /\ ~interrupted => Grounded(analysis.level, Excluded)
  /\ pc \in {"save", "observe"} => Grounded(analysis.level, Excluded)

NotYetSaved == pc \in {"profile", "collect", "judge", "verify", "decide", "save"} => saved = None
SavedIsGrounded == saved # None => Grounded(saved.level, Excluded)

TruthInv == InPlace /\ TrueSoFar /\ NotYetSaved /\ SavedIsGrounded

\* Fewer accusations to watch: still honest.
LEMMA HonestShrinks == ASSUME NEW F, NEW G, G \subseteq F, NEW w, Honest(w, F) PROVE Honest(w, G)
BY DEF Honest, Borne

\* Nothing was claimed, so a claim is false of every world.
LEMMA UntrueIsGrave == \A W, n : Untrue(W, n) \subseteq Grave /\ Unclaimed \subseteq Untrue(W, n)
<1>1. TAKE W, n
<1>2. Untrue(W, n) \subseteq Grave BY DEF Untrue
<1>3. Unclaimed \subseteq Grave BY DEF Unclaimed, Grave
<1>4. \A type \in Unclaimed : type # "CNAME_DANGLING" /\ type \notin Shown /\ type # "DELEGATION_BROKEN" /\ type # "DELEGATION_TAKEOVER_CANDIDATE"
  BY DEF Unclaimed, Shown
<1>5. Unclaimed \subseteq Untrue(W, n) BY <1>3, <1>4 DEF Untrue
<1> QED BY <1>2, <1>5

\* The worlds are as assumed.
LEMMA WorldIsGiven ==
  ASSUME NEW name \in DOMAIN Worlds
  PROVE IsWorld(Worlds[name]) /\ IsFiniteSet(Answering(Worlds[name]))
BY WorldAssumption, WorldCut, AnsweringIsFinite

\* A collector without trouble.
LEMMA CalmStep ==
  ASSUME NEW W, IsWorld(W), NEW D, Found(D, W), NEW n \in Nat, NEW a, Sound(a, Untrue(W, n)), NEW name \in Steps
  PROVE Sound(Collector(name, D, a), Untrue(W, n))
<1> DEFINE zero == 0
<1>1. zero \in Nat /\ zero <= n OBVIOUS
<1>2. Listed(D) /\ Follows(D, W, zero) BY CalmLook
<1> HIDE DEF zero
<1>3. Honest(D, Untrue(W, zero)) BY <1>1, <1>2, HonestWhenItFollows
<1>4. IsFiniteSet(Answering(W)) BY WorldCut, AnsweringIsFinite
<1>5. Untrue(W, n) \subseteq Untrue(W, zero) BY <1>1, <1>4, UntrueShrinks
<1>6. Honest(D, Untrue(W, n)) BY <1>3, <1>5, HonestShrinks
<1> QED BY <1>2, <1>6, CollectorSound

\* A collector with one lookup that fails.
LEMMA FaultyStep ==
  ASSUME NEW W, IsWorld(W), NEW D, Found(D, W), NEW n \in Nat, NEW a, Sound(a, Untrue(W, n)), NEW name \in Steps,
         name \in Fallible, NEW w \in Trouble(name, D)
  PROVE Sound(Collector(name, w, a), Untrue(W, n + 1))
<1> DEFINE one == 1
           more == n + 1
<1>1. one \in Nat /\ more \in Nat /\ one <= more /\ n <= more OBVIOUS
<1>2. Listed(w) /\ Follows(w, W, one) BY TroubleLook
<1> HIDE DEF one, more
<1>3. Honest(w, Untrue(W, one)) BY <1>1, <1>2, HonestWhenItFollows
<1>4. IsFiniteSet(Answering(W)) BY WorldCut, AnsweringIsFinite
<1>5. Untrue(W, more) \subseteq Untrue(W, one) /\ Untrue(W, more) \subseteq Untrue(W, n) BY <1>1, <1>4, UntrueShrinks
<1>6. Honest(w, Untrue(W, more)) BY <1>3, <1>5, HonestShrinks
<1>7. Sound(a, Untrue(W, more)) BY <1>5, SoundShrinks
<1>8. Sound(Collector(name, w, a), Untrue(W, more)) BY <1>2, <1>6, <1>7, CollectorSound
<1> QED BY <1>8 DEF more

\* Once the context has ended the collectors see the blackout, or what they had.
LEMMA InterruptedStep ==
  ASSUME NEW W, IsWorld(W), NEW D, Found(D, W), NEW a, Sound(a, {}), NEW name \in Steps, NEW w \in {D, Blackout(D)}
  PROVE Sound(Collector(name, w, a), {})
<1> DEFINE F == {}
<1>1. Listed(D) /\ Listed(Blackout(D)) BY CalmLook, BlackoutLook
<1>2. Listed(w) BY <1>1
<1>3. Honest(w, F) BY DEF Honest, Borne
<1>4. Sound(a, F) OBVIOUS
<1> HIDE DEF F
<1>5. Sound(Collector(name, w, a), F) BY <1>2, <1>3, <1>4, CollectorSound
<1> QED BY <1>5 DEF F

\* A lookup that fails leaves them something to look at too.
LEMMA TroubledStep ==
  ASSUME NEW W, IsWorld(W), NEW D, Found(D, W), NEW a, Sound(a, {}), NEW name \in Steps,
         name \in Fallible, NEW w \in Trouble(name, D)
  PROVE Sound(Collector(name, w, a), {})
<1> DEFINE F == {}
<1>1. Listed(w) BY TroubleLook
<1>2. Honest(w, F) BY DEF Honest, Borne
<1>3. Sound(a, F) OBVIOUS
<1> HIDE DEF F
<1>4. Sound(Collector(name, w, a), F) BY <1>1, <1>2, <1>3, CollectorSound
<1> QED BY <1>4 DEF F

\* The queries of the profile can be counted.
LEMMA QueriesAreFinite == \A failed \in SUBSET ProfileQueries : IsFiniteSet(failed) /\ Cardinality(failed) \in Nat
<1>1. \A S, x : IsFiniteSet(S) => IsFiniteSet(S \cup {x}) BY FS_Union, FS_Singleton
<1>2. IsFiniteSet({"a"}) BY FS_Singleton
<1>3. IsFiniteSet({"a"} \cup {"aaaa"}) BY <1>1, <1>2
<1>4. IsFiniteSet({"a"} \cup {"aaaa"} \cup {"aliases"}) BY <1>1, <1>3
<1>5. IsFiniteSet({"a"} \cup {"aaaa"} \cup {"aliases"} \cup {"mx"}) BY <1>1, <1>4
<1>6. IsFiniteSet({"a"} \cup {"aaaa"} \cup {"aliases"} \cup {"mx"} \cup {"txt"}) BY <1>1, <1>5
<1>7. IsFiniteSet({"a"} \cup {"aaaa"} \cup {"aliases"} \cup {"mx"} \cup {"txt"} \cup {"srv"}) BY <1>1, <1>6
<1>8. IsFiniteSet({"a"} \cup {"aaaa"} \cup {"aliases"} \cup {"mx"} \cup {"txt"} \cup {"srv"} \cup {"caa"})
  BY <1>1, <1>7
<1>9. IsFiniteSet({"a"} \cup {"aaaa"} \cup {"aliases"} \cup {"mx"} \cup {"txt"} \cup {"srv"} \cup {"caa"} \cup {"bindings"})
  BY <1>1, <1>8
<1>10. ProfileQueries = {"a"} \cup {"aaaa"} \cup {"aliases"} \cup {"mx"} \cup {"txt"} \cup {"srv"} \cup {"caa"} \cup {"bindings"}
  BY DEF ProfileQueries
<1>11. IsFiniteSet(ProfileQueries) BY <1>9, <1>10
<1> QED BY <1>11, FS_Subset, FS_CardinalityType

\* The pipeline of every order has only collectors in it.
LEMMA PipelineIsMadeOfSteps ==
  ASSUME NEW o \in Orders
  PROVE Pipeline(o) \in Seq(Steps) /\ Len(Pipeline(o)) \in Nat \ {0}
<1>1. IsList(o) /\ ToSet(o) = Independent BY HostAssumption
<1>2. o \in Seq(Independent) BY <1>1 DEF IsList
<1>3. Independent \subseteq Steps BY DEF Independent, Steps
<1>4. o \in Seq(Steps) BY <1>2, <1>3
<1>5. Discovery \in Seq(Steps) /\ Len(Discovery) = 3 BY DEF Discovery, Steps
<1>6. Impact \in Seq(Steps) BY DEF Impact, Steps
<1>7. <<"http">> \in Seq(Steps) BY DEF Steps
<1>8. <<"http_mutator", "http_framing", "correlator">> \in Seq(Steps) BY DEF Steps
<1> DEFINE h == <<"http">>
           m == <<"http_mutator", "http_framing", "correlator">>
<1>9. h \in Seq(Steps) /\ m \in Seq(Steps) BY <1>7, <1>8
<1>10. Pipeline(o) = Discovery \o h \o o \o m \o Impact BY DEF Pipeline
<1> HIDE DEF h, m
<1>11. \A s, t \in Seq(Steps) : s \o t \in Seq(Steps) /\ Len(s \o t) = Len(s) + Len(t) /\ Len(s) \in Nat OBVIOUS
<1>12. Discovery \o h \in Seq(Steps) /\ Len(Discovery \o h) >= 3
  <2>1. Discovery \o h \in Seq(Steps) /\ Len(Discovery \o h) = Len(Discovery) + Len(h) /\ Len(h) \in Nat BY <1>5, <1>9, <1>11, ZenonT(60)
  <2> QED BY <1>5, <2>1
<1>13. Discovery \o h \o o \in Seq(Steps) /\ Len(Discovery \o h \o o) >= 3 BY <1>4, <1>11, <1>12
<1>14. Discovery \o h \o o \o m \in Seq(Steps) /\ Len(Discovery \o h \o o \o m) >= 3 BY <1>9, <1>11, <1>13
<1>15. Discovery \o h \o o \o m \o Impact \in Seq(Steps) /\ Len(Discovery \o h \o o \o m \o Impact) >= 3
  BY <1>6, <1>11, <1>14
<1>16. Len(Pipeline(o)) \in Nat BY <1>10, <1>15
<1> QED BY <1>10, <1>15, <1>16

\* An analysis begins sound: it says nothing.
LEMMA NewIsSound == ASSUME NEW F, NEW w PROVE Sound(NewAnalysis(w), F)
<1>1. NewAnalysis(w).evidence = <<>> /\ NewAnalysis(w).inferences = <<>> BY DEF NewAnalysis
<1>2. Free(<<>>, F) /\ Drawn(<<>>) BY FreeNone, DrawnNone
<1>3. NewAnalysis(w).verification = NotVerified BY DEF NewAnalysis
<1>4. NotVerified.score # 100 BY DEF NotVerified
<1>5. Fields \subseteq DOMAIN NewAnalysis(w) BY DEF NewAnalysis, Fields
<1>6. NewAnalysis(w).risk = 0 /\ NewAnalysis(w).mitigation = 0 /\ NewAnalysis(w).confidence = 0 BY DEF NewAnalysis
<1>7. NewAnalysis(w).level \in Levels BY DEF NewAnalysis, Levels
<1>8. NewAnalysis(w).profile \subseteq DOMAIN VectorWeights BY DEF NewAnalysis
<1> QED BY <1>1, <1>2, <1>3, <1>4, <1>5, <1>6, <1>7, <1>8 DEF Sound

\* The steps keep the invariant.
LEMMA TruthAtFirst == ASSUME Init PROVE TruthInv
<1>1. world \in DOMAIN Worlds /\ order \in Orders /\ lost = {} /\ pc = "profile" /\ step = 1 /\ interrupted = FALSE /\ faults = 0
      /\ saved = None /\ analysis = NewAnalysis(Worlds[world])
  BY DEF Init
<1>2. first \in BOOLEAN
  <2>1. first \in IF Worlds[world].common = <<>> THEN {TRUE} ELSE BOOLEAN BY DEF Init
  <2>2. CASE Worlds[world].common = <<>> BY <2>1, <2>2, Zenon
  <2>3. CASE Worlds[world].common # <<>> BY <2>1, <2>3, Zenon
  <2> QED BY <2>2, <2>3
<1>3. InPlace BY <1>1, <1>2 DEF InPlace
<1>4. Sound(analysis, Excluded) BY <1>1, NewIsSound
<1>5. TrueSoFar BY <1>1, <1>4 DEF TrueSoFar
<1>6. NotYetSaved /\ SavedIsGrounded BY <1>1 DEF NotYetSaved, SavedIsGrounded
<1> QED BY <1>3, <1>5, <1>6 DEF TruthInv

\* What a step has to show when the lookups that failed only grew in number.
LEMMA ExcludedShrinks ==
  ASSUME TruthInv, UNCHANGED world, faults' \in Nat, faults <= faults'
  PROVE Excluded' \subseteq Excluded
<1>1. PICK W : W = Worlds[world] OBVIOUS
<1>2. PICK m : m = faults OBVIOUS
<1>3. PICK n : n = faults' OBVIOUS
<1>4. world \in DOMAIN Worlds /\ m \in Nat BY <1>2 DEF TruthInv, InPlace
<1>5. IsFiniteSet(Answering(W)) BY <1>1, <1>4, WorldIsGiven
<1>6. n \in Nat /\ m <= n BY <1>2, <1>3
<1>7. Untrue(W, n) \subseteq Untrue(W, m) BY <1>4, <1>5, <1>6, UntrueShrinks
<1>8. Excluded = Untrue(W, m) BY <1>1, <1>2 DEF Excluded
<1>9. Excluded' = Untrue(W, n) BY <1>1, <1>3 DEF Excluded
<1> QED BY <1>7, <1>8, <1>9

LEMMA ExcludedStays == ASSUME UNCHANGED <<world, faults>> PROVE Excluded' = Excluded
BY DEF Excluded

\* The profile the collectors look at.
LEMMA DiscoveredIsFound == ASSUME InPlace PROVE Found(Discovered, Worlds[world])
<1>1. PICK W : W = Worlds[world] OBVIOUS
<1>2. PICK failed : failed = lost OBVIOUS
<1>3. PICK one : one = first OBVIOUS
<1>4. PICK D : D = Discovered OBVIOUS
<1>5. IsWorld(W) BY <1>1, WorldIsGiven DEF InPlace
<1>6. failed \in SUBSET ProfileQueries BY <1>2 DEF InPlace
<1>7. one \in BOOLEAN BY <1>3 DEF InPlace
<1>8. D = [Profiled(W, failed) EXCEPT !.srv = @ \o If(one, W.common)] BY <1>1, <1>2, <1>3, <1>4 DEF Discovered
<1>9. Found(D, W) BY <1>5, <1>6, <1>7, <1>8, ProfileIsFound
<1> QED BY <1>1, <1>4, <1>9

\* Before the collectors.
LEMMA DiscoverKeepsTruth == ASSUME TruthInv, Discover PROVE TruthInv'
<1>1. PICK failed \in SUBSET ProfileQueries : lost' = failed /\ faults' = faults + Cardinality(failed)
  BY DEF Discover
<1>2. Cardinality(failed) \in Nat BY QueriesAreFinite
<1>3. /\ pc = "profile" /\ world' = world /\ order' = order /\ first' = first /\ step' = step /\ analysis' = analysis
      /\ saved' = saved /\ interrupted' = interrupted
  BY DEF Discover
<1>4. InPlace BY DEF TruthInv
<1>5. faults \in Nat /\ step = 1 /\ order \in Orders BY <1>3, <1>4 DEF InPlace
<1>6. faults' \in Nat /\ faults <= faults' BY <1>1, <1>2, <1>5
<1>7. Excluded' \subseteq Excluded BY <1>3, <1>6, ExcludedShrinks
<1>8. pc' \in {"collect", "done"} BY DEF Discover, Return
<1>9. Len(Pipeline(order)) \in Nat \ {0} BY <1>5, PipelineIsMadeOfSteps
<1>10. step' \in 1..Len(Pipeline(order'))
  BY <1>3, <1>5, <1>9
<1>11. InPlace' BY <1>1, <1>3, <1>4, <1>6, <1>8, <1>10 DEF InPlace
<1>12. saved' = None BY <1>3 DEF TruthInv, NotYetSaved
<1>13. ~interrupted => Sound(analysis, Excluded) BY <1>3 DEF TruthInv, TrueSoFar
<1>14. ~interrupted' => Sound(analysis', Excluded') BY <1>3, <1>7, <1>13, SoundShrinks
<1>15. TrueSoFar' BY <1>8, <1>14 DEF TrueSoFar
<1>16. NotYetSaved' /\ SavedIsGrounded' BY <1>12 DEF NotYetSaved, SavedIsGrounded
<1> QED BY <1>11, <1>15, <1>16 DEF TruthInv

LEMMA CannotLoadKeepsTruth == ASSUME TruthInv, CannotLoad PROVE TruthInv'
<1>1. /\ pc' = "done" /\ UNCHANGED <<world, order, first, lost, step, analysis, saved, interrupted, faults>>
  BY DEF CannotLoad, Return
<1>2. Excluded' = Excluded BY <1>1, ExcludedStays
<1>3. InPlace' BY <1>1 DEF TruthInv, InPlace
<1>4. TrueSoFar' /\ NotYetSaved' BY <1>1 DEF TrueSoFar, NotYetSaved
<1>5. SavedIsGrounded' BY <1>1, <1>2 DEF TruthInv, SavedIsGrounded
<1> QED BY <1>3, <1>4, <1>5 DEF TruthInv

\* A collector that returns, whatever it looked at.
LEMMA CollectedKeepsTruth ==
  ASSUME TruthInv, pc = "collect", UNCHANGED <<world, order, first, lost, saved, interrupted>>,
         faults' \in Nat, faults <= faults', step' = step + 1,
         pc' = IF step = Len(Pipeline(order)) THEN "judge" ELSE "collect",
         ~interrupted => Sound(analysis', Excluded')
  PROVE TruthInv'
<1>1. InPlace BY DEF TruthInv
<1>2. order \in Orders /\ step \in 1..Len(Pipeline(order)) BY <1>1 DEF InPlace
<1>3. Len(Pipeline(order)) \in Nat \ {0} BY <1>2, PipelineIsMadeOfSteps
<1>4. pc' \in {"judge", "collect"} OBVIOUS
<1>5. pc' = "collect" => step' \in 1..Len(Pipeline(order)) BY <1>2, <1>3
<1>6. Pipeline(order)' = Pipeline(order) BY DEF Pipeline
<1>7. InPlace' BY <1>1, <1>4, <1>5, <1>6 DEF InPlace
<1>8. TrueSoFar' BY <1>4 DEF TrueSoFar
<1>9. saved' = None BY DEF TruthInv, NotYetSaved
<1> QED BY <1>7, <1>8, <1>9 DEF TruthInv, NotYetSaved, SavedIsGrounded

\* The four ways a collector is run.
LEMMA CollectKeepsTruth == ASSUME TruthInv, Collect PROVE TruthInv'
<1>1. /\ pc = "collect" /\ UNCHANGED <<world, order, first, lost, saved, interrupted>>
  BY DEF Collect
<1>2. PICK W : W = Worlds[world] OBVIOUS
<1>3. PICK D : D = Discovered OBVIOUS
<1>4. PICK n : n = faults OBVIOUS
<1>5. PICK a : a = analysis OBVIOUS
<1>6. PICK name : name = Pipeline(order)[step] OBVIOUS
<1>7. InPlace BY DEF TruthInv
<1>8. world \in DOMAIN Worlds /\ n \in Nat /\ order \in Orders /\ step \in 1..Len(Pipeline(order))
  BY <1>1, <1>4, <1>7 DEF InPlace
<1>9. IsWorld(W) BY <1>2, <1>8, WorldIsGiven
<1>10. Found(D, W) BY <1>2, <1>3, <1>7, DiscoveredIsFound
<1>11. name \in Steps
  <2>1. Pipeline(order) \in Seq(Steps) BY <1>8, PipelineIsMadeOfSteps
  <2> QED BY <1>6, <1>8, <2>1
<1>12. ~interrupted => Sound(a, Untrue(W, n))
  BY <1>1, <1>2, <1>4, <1>5 DEF TruthInv, TrueSoFar, Excluded
<1>13. ASSUME NEW w, analysis' = Collector(Pipeline(order)[step], w, analysis), step' = step + 1,
              pc' = IF step = Len(Pipeline(order)) THEN "judge" ELSE "collect", faults' \in Nat, faults <= faults',
              ~interrupted => Sound(Collector(name, w, a), Untrue(W, faults'))
       PROVE TruthInv'
  <2>1. analysis' = Collector(name, w, a) BY <1>5, <1>6, <1>13
  <2>2. Excluded' = Untrue(W, faults') BY <1>1, <1>2 DEF Excluded
  <2>3. ~interrupted => Sound(analysis', Excluded') BY <1>13, <2>1, <2>2
  <2> QED BY <1>1, <1>13, <2>3, CollectedKeepsTruth
<1>14. CASE /\ ~interrupted /\ faults' = faults
            /\ analysis' = Collector(Pipeline(order)[step], Discovered, analysis) /\ step' = step + 1
            /\ pc' = IF step = Len(Pipeline(order)) THEN "judge" ELSE "collect"
  <2>1. Sound(Collector(name, D, a), Untrue(W, n)) BY <1>8, <1>9, <1>10, <1>11, <1>12, <1>14, CalmStep
  <2>2. faults' \in Nat /\ faults <= faults' BY <1>4, <1>8, <1>14
  <2>3. Sound(Collector(name, D, a), Untrue(W, faults')) BY <1>4, <1>14, <2>1
  <2> QED BY <1>3, <1>13, <1>14, <2>2, <2>3
<1>15. CASE /\ ~interrupted /\ Pipeline(order)[step] \in Fallible /\ faults' = faults + 1
            /\ \E w \in Trouble(Pipeline(order)[step], Discovered) :
                 /\ analysis' = Collector(Pipeline(order)[step], w, analysis) /\ step' = step + 1
                 /\ pc' = IF step = Len(Pipeline(order)) THEN "judge" ELSE "collect"
  <2>1. PICK w \in Trouble(Pipeline(order)[step], Discovered) :
                 /\ analysis' = Collector(Pipeline(order)[step], w, analysis) /\ step' = step + 1
                 /\ pc' = IF step = Len(Pipeline(order)) THEN "judge" ELSE "collect"
    BY <1>15
  <2>2. w \in Trouble(name, D) /\ name \in Fallible BY <1>3, <1>6, <1>15, <2>1
  <2>3. Sound(Collector(name, w, a), Untrue(W, n + 1)) BY <1>8, <1>9, <1>10, <1>11, <1>12, <1>15, <2>2, FaultyStep
  <2>4. faults' \in Nat /\ faults <= faults' /\ faults' = n + 1 BY <1>4, <1>8, <1>15
  <2>5. Sound(Collector(name, w, a), Untrue(W, faults')) BY <2>3, <2>4
  <2> QED BY <1>13, <2>1, <2>4, <2>5
<1>16. CASE /\ interrupted /\ faults' = faults
            /\ \E w \in {Blackout(Discovered), Discovered} :
                 /\ analysis' = Collector(Pipeline(order)[step], w, analysis) /\ step' = step + 1
                 /\ pc' = IF step = Len(Pipeline(order)) THEN "judge" ELSE "collect"
  <2>1. PICK w \in {Blackout(Discovered), Discovered} :
                 /\ analysis' = Collector(Pipeline(order)[step], w, analysis) /\ step' = step + 1
                 /\ pc' = IF step = Len(Pipeline(order)) THEN "judge" ELSE "collect"
    BY <1>16
  <2>2. faults' \in Nat /\ faults <= faults' BY <1>4, <1>8, <1>16
  <2> QED BY <1>13, <1>16, <2>1, <2>2
<1>17. CASE Return("CANCELED") /\ UNCHANGED <<analysis, step>> /\ faults' = faults
  <2>1. pc' = "done" BY <1>17 DEF Return
  <2>2. InPlace' BY <1>1, <1>7, <1>17, <2>1 DEF InPlace
  <2>3. saved' = None BY <1>1 DEF TruthInv, NotYetSaved
  <2> QED BY <2>1, <2>2, <2>3 DEF TruthInv, TrueSoFar, NotYetSaved, SavedIsGrounded
<1>18. Collect BY Zenon
<1> QED
  <2> DEFINE calm == Collector(Pipeline(order)[step], Discovered, analysis)
  <2>1. \/ ~interrupted /\ faults' = faults /\ analysis' = calm /\ step' = step + 1
           /\ pc' = IF step = Len(Pipeline(order)) THEN "judge" ELSE "collect"
        \/ /\ ~interrupted /\ Pipeline(order)[step] \in Fallible /\ faults' = faults + 1
           /\ \E w \in Trouble(Pipeline(order)[step], Discovered) :
                 /\ analysis' = Collector(Pipeline(order)[step], w, analysis) /\ step' = step + 1
                 /\ pc' = IF step = Len(Pipeline(order)) THEN "judge" ELSE "collect"
        \/ /\ interrupted /\ faults' = faults
           /\ \E w \in {Blackout(Discovered), Discovered} :
                 /\ analysis' = Collector(Pipeline(order)[step], w, analysis) /\ step' = step + 1
                 /\ pc' = IF step = Len(Pipeline(order)) THEN "judge" ELSE "collect"
        \/ Return("CANCELED") /\ UNCHANGED <<analysis, step>> /\ faults' = faults
    BY <1>18 DEF Collect
  <2> QED BY <1>14, <1>15, <1>16, <1>17, <2>1

\* The host has left the pipeline, and the lookups that failed are those that
\* failed before.
LEMMA JudgedInPlace ==
  ASSUME TruthInv, UNCHANGED <<world, order, first, lost, step, interrupted, faults>>,
         pc' \in {"verify", "decide", "save", "observe", "done"}
  PROVE InPlace' /\ Excluded' = Excluded
BY ExcludedStays DEF TruthInv, InPlace

\* The rules, the verifiers and the last check.
LEMMA JudgeKeepsTruth == ASSUME TruthInv, Judge PROVE TruthInv'
<1>1. pc = "judge" /\ UNCHANGED <<world, order, first, lost, step, saved, observed, announced, interrupted, faults>>
  BY DEF Judge
<1>2. PICK F : F = Excluded OBVIOUS
<1>3. PICK a : a = analysis OBVIOUS
<1>4. F \subseteq Grave /\ Unclaimed \subseteq F BY <1>2, UntrueIsGrave DEF Excluded
<1>5. ~interrupted => Sound(a, F) BY <1>1, <1>2, <1>3 DEF TruthInv, TrueSoFar
<1>6. saved = None BY <1>1 DEF TruthInv, NotYetSaved
<1>7. CASE pc' = "done"
  <2>1. InPlace' /\ Excluded' = Excluded BY <1>1, <1>7, JudgedInPlace
  <2> QED BY <1>1, <1>6, <1>7, <2>1 DEF TruthInv, TrueSoFar, NotYetSaved, SavedIsGrounded
<1>8. CASE pc' = "verify" /\ \E chains \in {<<"http", "https">>,
                                            <<"https", "http">>} : analysis' = Process(analysis, chains)
  <2>1. InPlace' /\ Excluded' = Excluded BY <1>1, <1>8, JudgedInPlace
  <2>2. PICK chains : analysis' = Process(a, chains) BY <1>3, <1>8
  <2>3. ~interrupted => Sound(analysis', F) /\ Grounded(analysis'.level, F) BY <1>4, <1>5, <2>2, ProcessSound
  <2>4. TrueSoFar' BY <1>1, <1>2, <1>8, <2>1, <2>3 DEF TrueSoFar
  <2> QED BY <1>1, <1>6, <1>8, <2>1, <2>4 DEF TruthInv, NotYetSaved, SavedIsGrounded
<1> QED BY <1>7, <1>8 DEF Judge, Return

LEMMA VerifyKeepsTruth == ASSUME TruthInv, Verify PROVE TruthInv'
<1>1. /\ pc = "verify" /\ pc' = "decide"
      /\ UNCHANGED <<world, order, first, lost, step, saved, observed, announced, interrupted, faults, outcome>>
  BY DEF Verify
<1>2. PICK F : F = Excluded OBVIOUS
<1>3. PICK a : a = analysis OBVIOUS
<1>4. PICK D : D = Discovered OBVIOUS
<1>5. PICK cut : cut = interrupted OBVIOUS
<1>6. F \subseteq Grave /\ Unclaimed \subseteq F BY <1>2, UntrueIsGrave DEF Excluded
<1>7. ~interrupted => Sound(a, F) /\ Grounded(a.level, F) BY <1>1, <1>2, <1>3 DEF TruthInv, TrueSoFar
<1>8. InPlace' /\ Excluded' = Excluded BY <1>1, JudgedInPlace
<1>9. analysis' = AfterVerifiers(D, a, cut) BY <1>3, <1>4, <1>5 DEF Verify
<1>10. ~interrupted => Sound(analysis', F) /\ Grounded(analysis'.level, F) BY <1>6, <1>7, <1>9, VerifiedSound
<1>11. TrueSoFar' BY <1>1, <1>2, <1>8, <1>10 DEF TrueSoFar
<1>12. saved' = None BY <1>1 DEF TruthInv, NotYetSaved
<1> QED BY <1>8, <1>11, <1>12 DEF TruthInv, NotYetSaved, SavedIsGrounded

\* The confidence is not the level.
LEMMA PercentKeeps == ASSUME NEW a, NEW p PROVE [a EXCEPT !.percent = p].level = a.level
OBVIOUS

LEMMA DecideKeepsTruth == ASSUME TruthInv, Decide PROVE TruthInv'
<1>1. /\ pc = "decide" /\ UNCHANGED <<world, order, first, lost, step, saved, observed, announced, interrupted, faults>>
  BY DEF Decide
<1>2. saved' = None BY <1>1 DEF TruthInv, NotYetSaved
<1>3. CASE pc' = "done"
  <2>1. InPlace' /\ Excluded' = Excluded BY <1>1, <1>3, JudgedInPlace
  <2> QED BY <1>2, <1>3, <2>1 DEF TruthInv, TrueSoFar, NotYetSaved, SavedIsGrounded
<1>4. CASE ~interrupted /\ pc' = "save" /\ analysis' = [analysis EXCEPT !.percent = Calculate(analysis)]
  <2>1. InPlace' /\ Excluded' = Excluded BY <1>1, <1>4, JudgedInPlace
  <2>2. Grounded(analysis.level, Excluded) BY <1>1, <1>4 DEF TruthInv, TrueSoFar
  <2>3. analysis'.level = analysis.level BY <1>4, PercentKeeps
  <2>4. TrueSoFar' BY <1>4, <2>1, <2>2, <2>3 DEF TrueSoFar
  <2> QED BY <1>2, <2>1, <2>4 DEF TruthInv, NotYetSaved, SavedIsGrounded
<1> QED BY <1>3, <1>4 DEF Decide, Return

\* What is stored is the analysis that was judged.
LEMMA SaveKeepsTruth == ASSUME TruthInv, Save PROVE TruthInv'
<1>1. /\ pc = "save" /\ pc' = "observe" /\ saved' = analysis
      /\ UNCHANGED <<world, order, first, lost, step, analysis, observed, announced, interrupted, faults, outcome>>
  BY DEF Save
<1>2. InPlace' /\ Excluded' = Excluded BY <1>1, JudgedInPlace
<1>3. Grounded(analysis.level, Excluded) BY <1>1 DEF TruthInv, TrueSoFar
<1>4. TrueSoFar' BY <1>1, <1>2, <1>3 DEF TrueSoFar
<1>5. SavedIsGrounded' BY <1>1, <1>2, <1>3 DEF SavedIsGrounded
<1>6. NotYetSaved' BY <1>1 DEF NotYetSaved
<1> QED BY <1>2, <1>4, <1>5, <1>6 DEF TruthInv

LEMMA EndKeepsTruth == ASSUME TruthInv, Observe \/ CannotStore PROVE TruthInv'
<1>1. /\ pc' = "done"
      /\ UNCHANGED <<world, order, first, lost, step, analysis, saved, interrupted, faults>>
  BY DEF Observe, CannotStore, Return
<1>2. InPlace' /\ Excluded' = Excluded BY <1>1, JudgedInPlace
<1>3. TrueSoFar' /\ NotYetSaved' BY <1>1 DEF TrueSoFar, NotYetSaved
<1>4. SavedIsGrounded' BY <1>1, <1>2 DEF TruthInv, SavedIsGrounded
<1> QED BY <1>2, <1>3, <1>4 DEF TruthInv

\* The end of the context changes nothing, and frees the rest from truth.
LEMMA InterruptKeepsTruth == ASSUME TruthInv, Interrupt PROVE TruthInv'
<1>1. /\ interrupted' = TRUE /\ UNCHANGED <<world, order, first, lost, pc, step, analysis, saved, observed, announced, faults, outcome>>
  BY DEF Interrupt
<1>2. Excluded' = Excluded BY <1>1, ExcludedStays
<1>3. Pipeline(order)' = Pipeline(order) BY <1>1 DEF Pipeline
<1>4. InPlace' BY <1>1, <1>3 DEF TruthInv, InPlace
<1>5. TrueSoFar' BY <1>1, <1>2 DEF TruthInv, TrueSoFar
<1>6. NotYetSaved' /\ SavedIsGrounded' BY <1>1, <1>2 DEF TruthInv, NotYetSaved, SavedIsGrounded
<1> QED BY <1>4, <1>5, <1>6 DEF TruthInv

LEMMA StutterKeepsTruth == ASSUME TruthInv, UNCHANGED vars PROVE TruthInv'
<1>1. UNCHANGED <<world, order, first, lost, pc, step, analysis, saved, interrupted, faults>> BY DEF vars
<1>2. Excluded' = Excluded BY <1>1, ExcludedStays
<1>3. Pipeline(order)' = Pipeline(order) BY <1>1 DEF Pipeline
<1>4. InPlace' BY <1>1, <1>3 DEF TruthInv, InPlace
<1>5. TrueSoFar' BY <1>1, <1>2 DEF TruthInv, TrueSoFar
<1>6. NotYetSaved' /\ SavedIsGrounded' BY <1>1, <1>2 DEF TruthInv, NotYetSaved, SavedIsGrounded
<1> QED BY <1>4, <1>5, <1>6 DEF TruthInv

\* (cmd/scan.go, processDomain) What an analysis says is true of the world at
\* every step of it, up to the lookups that failed, until the context ends.
THEOREM TruthInvariance == Spec => []TruthInv
<1>1. Init => TruthInv BY TruthAtFirst
<1>2. TruthInv /\ [Next]_vars => TruthInv'
  <2> SUFFICES ASSUME TruthInv, [Next]_vars PROVE TruthInv'
    OBVIOUS
  <2>1. CASE Discover BY <2>1, DiscoverKeepsTruth
  <2>2. CASE CannotLoad BY <2>2, CannotLoadKeepsTruth
  <2>3. CASE Collect BY <2>3, CollectKeepsTruth
  <2>4. CASE Judge BY <2>4, JudgeKeepsTruth
  <2>5. CASE Verify BY <2>5, VerifyKeepsTruth
  <2>6. CASE Decide BY <2>6, DecideKeepsTruth
  <2>7. CASE Save BY <2>7, SaveKeepsTruth
  <2>8. CASE Observe \/ CannotStore BY <2>8, EndKeepsTruth
  <2>9. CASE Interrupt BY <2>9, InterruptKeepsTruth
  <2>10. CASE UNCHANGED vars BY <2>10, StutterKeepsTruth
  <2> QED BY <2>1, <2>2, <2>3, <2>4, <2>5, <2>6, <2>7, <2>8, <2>9, <2>10 DEF Next
<1> QED BY <1>1, <1>2, PTL DEF Spec

\* A level that is grounded in what is not untrue is true.
LEMMA GroundedIsTrue ==
  ASSUME NEW W, NEW n, NEW level, Grounded(level, Untrue(W, n))
  PROVE /\ level \notin {"ZONE_CONTROL_CONFIRMED", "TAKEN_OVER", "CONFIRMED_TAKEOVERABLE",
                         "DELEGATION_CLAIMABILITY_VERIFIED"}
        /\ level = "LIKELY_TAKEOVERABLE" => ShowsMissingResource(W)
        /\ level = "ORPHANED" => Dangles(W)
        /\ level = "DELEGATION_BROKEN" => DelegatesToTheDead(W, n)
        /\ level = "DELEGATION_TAKEOVER_CANDIDATE" => DelegatesToTheDead(W, n) /\ OneProviderAndNoDS(W, n)
<1> DEFINE F == Untrue(W, n)
<1>1. Grounded(level, F) OBVIOUS
<1>2. ~Dangles(W) => "CNAME_DANGLING" \in F
  <2>1. "CNAME_DANGLING" \in Grave /\ "CNAME_DANGLING" \notin Shown BY DEF Shown, Grave
  <2> QED BY <2>1 DEF Untrue
<1>3. ~ShowsMissingResource(W) => Shown \subseteq F
  <2>1. \A type \in Shown : /\ type \in Grave /\ type # "CNAME_DANGLING" /\ type # "DELEGATION_BROKEN"
                             /\ type # "DELEGATION_TAKEOVER_CANDIDATE"
    BY DEF Shown, Grave
  <2> QED BY <2>1 DEF Untrue
<1>4. ~DelegatesToTheDead(W, n) => "DELEGATION_BROKEN" \in F
  <2>1. "DELEGATION_BROKEN" \in Grave /\ "DELEGATION_BROKEN" \notin Shown BY DEF Shown, Grave
  <2> QED BY <2>1 DEF Untrue
<1>5. ~(DelegatesToTheDead(W, n) /\ OneProviderAndNoDS(W, n)) => "DELEGATION_TAKEOVER_CANDIDATE" \in F
  <2>1. "DELEGATION_TAKEOVER_CANDIDATE" \in Grave /\ "DELEGATION_TAKEOVER_CANDIDATE" \notin Shown BY DEF Shown, Grave
  <2> QED BY <2>1 DEF Untrue
<1> HIDE DEF F
<1> QED BY <1>1, <1>2, <1>3, <1>4, <1>5 DEF Grounded

\* (internal/classification/rules.go, cmd/scan.go) A stored verdict that names
\* something to take over is true of the world, for every world, every order
\* of the collectors and every number of lookups that fail.
THEOREM AccusationsHold == Spec => []AccusationsAreTrue
<1>1. TruthInv => AccusationsAreTrue
  <2> SUFFICES ASSUME TruthInv, saved # None PROVE AccusationsAreTrue
    BY DEF AccusationsAreTrue
  <2>1. PICK W : W = Worlds[world] OBVIOUS
  <2>2. PICK n : n = faults OBVIOUS
  <2>3. PICK level : level = saved.level OBVIOUS
  <2>4. Grounded(level, Untrue(W, n)) BY <2>1, <2>2, <2>3 DEF TruthInv, SavedIsGrounded, Excluded
  <2> QED BY <2>1, <2>2, <2>3, <2>4, GroundedIsTrue DEF AccusationsAreTrue
<1>2. Spec => []TruthInv BY TruthInvariance
<1> QED BY <1>1, <1>2, PTL

-----------------------------------------------------------------------------
(* The shape of the analysis.                                               *)

\* A verdict has a state, and a percentage the collectors covered.
Judged(a) == a.state \in States /\ a.percent \in 0..CalculateCoverage(a.tested, a.profile)

\* The analysis keeps its shape whatever the collectors saw, the blackout
\* included, and it is a verdict when it is stored.
Shaped ==
  /\ step \in 1..(Len(Pipeline(order)) + 1)
  /\ faults \in 0..MaxFaults
  /\ outcome \in {None, "CANCELED", "FAILED", "SKIPPED", "DONE"}
  /\ Sound(analysis, {})
  /\ pc \in {"verify", "decide"} => analysis.state \in States
  /\ pc \in {"save", "observe"} => Judged(analysis)
  /\ saved # None => Judged(saved)

\* The steps keep the shape.
LEMMA ShapedAtFirst == ASSUME Init PROVE Shaped
<1>1. order \in Orders /\ pc = "profile" /\ step = 1 /\ faults = 0 /\ saved = None /\ outcome = None
      /\ analysis = NewAnalysis(Worlds[world])
  BY DEF Init
<1>2. Len(Pipeline(order)) \in Nat \ {0} BY <1>1, PipelineIsMadeOfSteps
<1>3. step \in 1..(Len(Pipeline(order)) + 1) BY <1>1, <1>2
<1>4. faults \in 0..MaxFaults BY <1>1, HostAssumption
<1>5. Sound(analysis, {}) BY <1>1, NewIsSound
<1> QED BY <1>1, <1>3, <1>4, <1>5 DEF Shaped

\* A step that leaves the analysis as it is.
LEMMA ShapeStays ==
  ASSUME Shaped, UNCHANGED <<order, step, analysis, saved>>, faults' \in 0..MaxFaults,
         outcome' \in {None, "CANCELED", "FAILED", "SKIPPED", "DONE"},
         pc' \in {"verify", "decide"} => pc \in {"verify", "decide"}, pc' \in {"save",
                                                                               "observe"} => pc \in {"save", "observe"}
  PROVE Shaped'
<1>1. Pipeline(order)' = Pipeline(order) BY DEF Pipeline
<1>2. step' \in 1..(Len(Pipeline(order)') + 1) BY <1>1 DEF Shaped
<1>3. Sound(analysis', {}) BY DEF Shaped
<1>4. pc' \in {"verify", "decide"} => analysis'.state \in States BY DEF Shaped
<1>5. pc' \in {"save", "observe"} => Judged(analysis') BY DEF Shaped
<1>6. saved' # None => Judged(saved') BY DEF Shaped
<1> QED BY <1>2, <1>3, <1>4, <1>5, <1>6 DEF Shaped

LEMMA DiscoverKeepsShape == ASSUME Shaped, Discover PROVE Shaped'
<1>1. PICK failed \in SUBSET ProfileQueries : faults + Cardinality(failed) <= MaxFaults /\ faults' = faults + Cardinality(failed)
  BY DEF Discover
<1>2. Cardinality(failed) \in Nat BY QueriesAreFinite
<1>3. faults' \in 0..MaxFaults BY <1>1, <1>2, HostAssumption DEF Shaped
<1>4. UNCHANGED <<order, step, analysis, saved>> BY DEF Discover
<1>5. pc' \in {"collect", "done"} BY DEF Discover, Return
<1>6. outcome' \in {None, "CANCELED", "FAILED", "SKIPPED", "DONE"} BY DEF Discover, Return
<1> QED BY <1>3, <1>4, <1>5, <1>6, ShapeStays

\* A collector that returns, whatever it looked at.
LEMMA CollectedKeepsShape ==
  ASSUME TruthInv, Shaped, pc = "collect", UNCHANGED <<order, saved, outcome>>, faults' \in 0..MaxFaults,
         step' = step + 1,
         pc' = IF step = Len(Pipeline(order)) THEN "judge" ELSE "collect", Sound(analysis', {})
  PROVE Shaped'
<1>1. order \in Orders /\ step \in 1..Len(Pipeline(order)) BY DEF TruthInv, InPlace
<1>2. Len(Pipeline(order)) \in Nat \ {0} BY <1>1, PipelineIsMadeOfSteps
<1>3. Pipeline(order)' = Pipeline(order) BY DEF Pipeline
<1>4. step' \in 1..(Len(Pipeline(order)) + 1) BY <1>1, <1>2
<1>5. pc' \in {"judge", "collect"} OBVIOUS
<1>6. saved' # None => Judged(saved') BY DEF Shaped
<1>7. outcome' \in {None, "CANCELED", "FAILED", "SKIPPED", "DONE"} BY DEF Shaped
<1> QED BY <1>3, <1>4, <1>5, <1>6, <1>7 DEF Shaped

LEMMA CollectKeepsShape == ASSUME TruthInv, Shaped, Collect PROVE Shaped'
<1>1. /\ pc = "collect" /\ UNCHANGED <<world, order, first, lost, saved, interrupted>>
  BY DEF Collect
<1>2. PICK W : W = Worlds[world] OBVIOUS
<1>3. PICK D : D = Discovered OBVIOUS
<1>4. PICK n : n = faults OBVIOUS
<1>5. PICK a : a = analysis OBVIOUS
<1>6. PICK name : name = Pipeline(order)[step] OBVIOUS
<1>7. InPlace BY DEF TruthInv
<1>8. world \in DOMAIN Worlds /\ n \in Nat /\ order \in Orders /\ step \in 1..Len(Pipeline(order))
  BY <1>1, <1>4, <1>7 DEF InPlace
<1>9. IsWorld(W) BY <1>2, <1>8, WorldIsGiven
<1>10. Found(D, W) BY <1>2, <1>3, <1>7, DiscoveredIsFound
<1>11. name \in Steps
  <2>1. Pipeline(order) \in Seq(Steps) BY <1>8, PipelineIsMadeOfSteps
  <2> QED BY <1>6, <1>8, <2>1
<1>12. n \in 0..MaxFaults /\ Sound(a, {}) BY <1>4, <1>5 DEF Shaped
<1>13. ASSUME NEW w, analysis' = Collector(Pipeline(order)[step], w, analysis), step' = step + 1, UNCHANGED outcome,
              pc' = IF step = Len(Pipeline(order)) THEN "judge" ELSE "collect", faults' \in 0..MaxFaults,
              Sound(Collector(name, w, a), {})
       PROVE Shaped'
  <2>1. Sound(analysis', {}) BY <1>5, <1>6, <1>13
  <2> QED BY <1>1, <1>13, <2>1, CollectedKeepsShape
<1>14. CASE /\ faults' = faults
            /\ \E w \in {Discovered, Blackout(Discovered)} :
                 /\ analysis' = Collector(Pipeline(order)[step], w, analysis) /\ step' = step + 1
                 /\ pc' = IF step = Len(Pipeline(order)) THEN "judge" ELSE "collect"
                 /\ UNCHANGED outcome
  <2>1. PICK w \in {Discovered, Blackout(Discovered)} :
                 /\ analysis' = Collector(Pipeline(order)[step], w, analysis) /\ step' = step + 1
                 /\ pc' = IF step = Len(Pipeline(order)) THEN "judge" ELSE "collect"
                 /\ UNCHANGED outcome
    BY <1>14
  <2>2. w \in {D, Blackout(D)} BY <1>3
  <2>3. Sound(Collector(name, w, a), {}) BY <1>9, <1>10, <1>11, <1>12, <2>2, InterruptedStep
  <2>4. faults' \in 0..MaxFaults BY <1>4, <1>12, <1>14
  <2> QED BY <1>13, <2>1, <2>3, <2>4
<1>15. CASE /\ Pipeline(order)[step] \in Fallible /\ faults < MaxFaults /\ faults' = faults + 1
            /\ \E w \in Trouble(Pipeline(order)[step], Discovered) :
                 /\ analysis' = Collector(Pipeline(order)[step], w, analysis) /\ step' = step + 1
                 /\ pc' = IF step = Len(Pipeline(order)) THEN "judge" ELSE "collect"
                 /\ UNCHANGED outcome
  <2>1. PICK w \in Trouble(Pipeline(order)[step], Discovered) :
                 /\ analysis' = Collector(Pipeline(order)[step], w, analysis) /\ step' = step + 1
                 /\ pc' = IF step = Len(Pipeline(order)) THEN "judge" ELSE "collect"
                 /\ UNCHANGED outcome
    BY <1>15
  <2>2. w \in Trouble(name, D) /\ name \in Fallible BY <1>3, <1>6, <1>15, <2>1
  <2>3. Sound(Collector(name, w, a), {}) BY <1>9, <1>10, <1>11, <1>12, <2>2, TroubledStep
  <2>4. faults' \in 0..MaxFaults BY <1>4, <1>12, <1>15, HostAssumption
  <2> QED BY <1>13, <2>1, <2>3, <2>4
<1>16. CASE Return("CANCELED") /\ UNCHANGED <<analysis, step>> /\ faults' = faults
  <2>1. pc' = "done" /\ outcome' = "CANCELED" BY <1>16 DEF Return
  <2>2. faults' \in 0..MaxFaults BY <1>4, <1>12, <1>16
  <2> QED BY <1>1, <1>16, <2>1, <2>2, ShapeStays
<1>17. Collect BY Zenon
<1> QED
  <2>1. \/ /\ faults' = faults
           /\ \E w \in {Discovered, Blackout(Discovered)} :
                 /\ analysis' = Collector(Pipeline(order)[step], w, analysis) /\ step' = step + 1
                 /\ pc' = IF step = Len(Pipeline(order)) THEN "judge" ELSE "collect"
                 /\ UNCHANGED outcome
        \/ /\ Pipeline(order)[step] \in Fallible /\ faults < MaxFaults /\ faults' = faults + 1
           /\ \E w \in Trouble(Pipeline(order)[step], Discovered) :
                 /\ analysis' = Collector(Pipeline(order)[step], w, analysis) /\ step' = step + 1
                 /\ pc' = IF step = Len(Pipeline(order)) THEN "judge" ELSE "collect"
                 /\ UNCHANGED outcome
        \/ Return("CANCELED") /\ UNCHANGED <<analysis, step>> /\ faults' = faults
    BY <1>17 DEF Collect
  <2> QED BY <1>14, <1>15, <1>16, <2>1

LEMMA JudgeKeepsShape == ASSUME Shaped, Judge PROVE Shaped'
<1>1. pc = "judge" /\ UNCHANGED <<order, step, saved, faults>> BY DEF Judge
<1>2. faults' \in 0..MaxFaults BY <1>1 DEF Shaped
<1>3. CASE Return("SKIPPED") /\ UNCHANGED analysis
  <2>1. pc' = "done" /\ outcome' = "SKIPPED" BY <1>3 DEF Return
  <2> QED BY <1>1, <1>2, <1>3, <2>1, ShapeStays
<1>4. CASE pc' = "verify" /\ UNCHANGED outcome /\ \E chains \in {<<"http", "https">>,
                                                                 <<"https", "http">>} : analysis' = Process(analysis, chains)
  <2> DEFINE F == {}
  <2>1. PICK a : a = analysis OBVIOUS
  <2>2. Sound(a, F) /\ F \subseteq Grave BY <2>1 DEF Shaped
  <2>3. PICK chains : analysis' = Process(a, chains) BY <1>4, <2>1
  <2> HIDE DEF F
  <2>4. Sound(analysis', F) /\ analysis'.state \in States BY <2>2, <2>3, ProcessSound
  <2>5. Pipeline(order)' = Pipeline(order) BY <1>1 DEF Pipeline
  <2>6. step' \in 1..(Len(Pipeline(order)') + 1) BY <1>1, <2>5 DEF Shaped
  <2>7. saved' # None => Judged(saved') BY <1>1 DEF Shaped
  <2>8. outcome' \in {None, "CANCELED", "FAILED", "SKIPPED", "DONE"} BY <1>4 DEF Shaped
  <2> QED BY <1>2, <1>4, <2>4, <2>6, <2>7, <2>8 DEF Shaped, F
<1> QED BY <1>3, <1>4 DEF Judge

LEMMA VerifyKeepsShape == ASSUME Shaped, Verify PROVE Shaped'
<1>1. pc = "verify" /\ pc' = "decide" /\ UNCHANGED <<order, step, saved, interrupted, faults, outcome>> BY DEF Verify
<1> DEFINE F == {}
<1>2. PICK a : a = analysis OBVIOUS
<1>3. PICK D : D = Discovered OBVIOUS
<1>4. PICK cut : cut = interrupted OBVIOUS
<1>5. Sound(a, F) /\ F \subseteq Grave /\ a.state \in States BY <1>1, <1>2 DEF Shaped
<1>6. analysis' = AfterVerifiers(D, a, cut) BY <1>2, <1>3, <1>4 DEF Verify
<1> HIDE DEF F
<1>7. Sound(analysis', F) /\ analysis'.state \in States BY <1>5, <1>6, VerifiedSound
<1>8. Pipeline(order)' = Pipeline(order) BY <1>1 DEF Pipeline
<1>9. step' \in 1..(Len(Pipeline(order)') + 1) BY <1>1, <1>8 DEF Shaped
<1>10. (saved' # None => Judged(saved')) /\ faults' \in 0..MaxFaults BY <1>1 DEF Shaped
<1>11. outcome' \in {None, "CANCELED", "FAILED", "SKIPPED", "DONE"} BY <1>1 DEF Shaped
<1> QED BY <1>1, <1>7, <1>9, <1>10, <1>11 DEF Shaped, F

\* The percentage is all that Decide writes.
LEMMA PercentGiven ==
  ASSUME NEW F, NEW a, Sound(a, F), NEW p
  PROVE LET b == [a EXCEPT !.percent = p]
        IN Sound(b, F) /\ b.percent = p /\ b.state = a.state /\ b.tested = a.tested /\ b.profile = a.profile
BY DEF Sound, Fields

LEMMA DecideKeepsShape == ASSUME TruthInv, Shaped, Decide PROVE Shaped'
<1>1. pc = "decide" /\ UNCHANGED <<order, step, saved, interrupted, faults>> BY DEF Decide
<1>2. faults' \in 0..MaxFaults BY <1>1 DEF Shaped
<1>3. CASE Return("CANCELED") /\ UNCHANGED analysis
  <2>1. pc' = "done" /\ outcome' = "CANCELED" BY <1>3 DEF Return
  <2> QED BY <1>1, <1>2, <1>3, <2>1, ShapeStays
<1>4. CASE ~interrupted /\ analysis' = [analysis EXCEPT !.percent = Calculate(analysis)] /\ pc' = "save" /\ UNCHANGED outcome
  <2> DEFINE F == {}
  <2>1. PICK a : a = analysis OBVIOUS
  <2>2. PICK p : p = Calculate(a) OBVIOUS
  <2>3. PICK b : b = [a EXCEPT !.percent = p] OBVIOUS
  <2>4. Sound(a, F) /\ a.state \in States BY <1>1, <2>1 DEF Shaped
  <2>5. a.level \notin {"ZONE_CONTROL_CONFIRMED", "TAKEN_OVER"}
    <3>1. Grounded(a.level, Excluded) BY <1>1, <1>4, <2>1 DEF TruthInv, TrueSoFar
    <3> QED BY <3>1 DEF Grounded
  <2> HIDE DEF F
  <2>6. p \in 0..CalculateCoverage(a.tested, a.profile) BY <2>2, <2>4, <2>5, PercentIsCovered
  <2>7. Sound(b, F) /\ b.percent = p /\ b.state = a.state /\ b.tested = a.tested /\ b.profile = a.profile
    BY <2>3, <2>4, PercentGiven
  <2>8. Judged(b) BY <2>4, <2>6, <2>7 DEF Judged
  <2>9. analysis' = b BY <1>4, <2>1, <2>2, <2>3
  <2>10. Pipeline(order)' = Pipeline(order) BY <1>1 DEF Pipeline
  <2>11. step' \in 1..(Len(Pipeline(order)') + 1) BY <1>1, <2>10 DEF Shaped
  <2>12. saved' # None => Judged(saved') BY <1>1 DEF Shaped
  <2>13. outcome' \in {None, "CANCELED", "FAILED", "SKIPPED", "DONE"} BY <1>4 DEF Shaped
  <2>14. Sound(analysis', F) /\ Judged(analysis') BY <2>7, <2>8, <2>9
  <2> QED BY <1>2, <1>4, <2>11, <2>12, <2>13, <2>14 DEF Shaped, F
<1> QED BY <1>3, <1>4 DEF Decide

LEMMA SaveKeepsShape == ASSUME Shaped, Save PROVE Shaped'
<1>1. pc = "save" /\ pc' = "observe" /\ saved' = analysis /\ UNCHANGED <<order, step, analysis, faults, outcome>>
  BY DEF Save
<1>2. Judged(analysis) BY <1>1 DEF Shaped
<1>3. Judged(analysis') /\ Judged(saved') BY <1>1, <1>2
<1>4. Pipeline(order)' = Pipeline(order) BY <1>1 DEF Pipeline
<1>5. step' \in 1..(Len(Pipeline(order)') + 1) /\ faults' \in 0..MaxFaults BY <1>1, <1>4 DEF Shaped
<1>6. Sound(analysis', {}) BY <1>1 DEF Shaped
<1>7. outcome' \in {None, "CANCELED", "FAILED", "SKIPPED", "DONE"} BY <1>1 DEF Shaped
<1> QED BY <1>1, <1>3, <1>5, <1>6, <1>7 DEF Shaped

LEMMA OthersKeepShape ==
  ASSUME Shaped, CannotLoad \/ Observe \/ CannotStore \/ Interrupt \/ UNCHANGED vars PROVE Shaped'
<1>1. UNCHANGED <<order, step, analysis, saved, faults>> BY DEF CannotLoad, Observe, CannotStore, Interrupt, vars
<1>2. pc' = "done" \/ pc' = pc BY DEF CannotLoad, Observe, CannotStore, Interrupt, Return, vars
<1>3. outcome' \in {None, "CANCELED", "FAILED", "SKIPPED", "DONE"}
  BY DEF CannotLoad, Observe, CannotStore, Interrupt, Return, vars, Shaped
<1>4. faults' \in 0..MaxFaults BY <1>1 DEF Shaped
<1> QED BY <1>1, <1>2, <1>3, <1>4, ShapeStays

\* (cmd/scan.go, processDomain) Whatever the collectors see, in trouble and in
\* the blackout after the end of the context, the analysis keeps its shape.
THEOREM ShapeInvariance == Spec => []Shaped
<1>1. Init => Shaped BY ShapedAtFirst
<1>2. TruthInv /\ Shaped /\ [Next]_vars => Shaped'
  <2> SUFFICES ASSUME TruthInv, Shaped, [Next]_vars PROVE Shaped'
    OBVIOUS
  <2>1. CASE Discover BY <2>1, DiscoverKeepsShape
  <2>2. CASE Collect BY <2>2, CollectKeepsShape
  <2>3. CASE Judge BY <2>3, JudgeKeepsShape
  <2>4. CASE Verify BY <2>4, VerifyKeepsShape
  <2>5. CASE Decide BY <2>5, DecideKeepsShape
  <2>6. CASE Save BY <2>6, SaveKeepsShape
  <2>7. CASE CannotLoad \/ Observe \/ CannotStore \/ Interrupt \/ UNCHANGED vars BY <2>7, OthersKeepShape
  <2> QED BY <2>1, <2>2, <2>3, <2>4, <2>5, <2>6, <2>7 DEF Next
<1>3. Spec => []TruthInv BY TruthInvariance
<1> QED BY <1>1, <1>2, <1>3, PTL DEF Spec

\* (internal/confidence/engine.go) Types, levels, states and scores are in
\* their ranges, and the percentage of a stored verdict never exceeds what the
\* collectors covered, for every set of worlds.
THEOREM TypesHold == Spec => []TypeOK
<1>1. TruthInv /\ Shaped => TypeOK
  <2> SUFFICES ASSUME TruthInv, Shaped PROVE TypeOK
    OBVIOUS
  <2>1. pc \in {"profile", "collect", "judge", "verify", "decide", "save", "observe", "done"} BY DEF TruthInv, InPlace
  <2>2. step \in 1..(Len(Pipeline(order)) + 1) /\ faults \in 0..MaxFaults BY DEF Shaped
  <2>3. outcome \in {None, "CANCELED", "FAILED", "SKIPPED", "DONE"} BY DEF Shaped
  <2>4. analysis.level \in Levels /\ {analysis.risk, analysis.mitigation, analysis.confidence} \subseteq 0..100
    BY DEF Shaped, Sound
  <2>5. saved # None => saved.state \in States /\ saved.percent \in 0..CalculateCoverage(saved.tested, saved.profile)
    BY DEF Shaped, Judged
  <2> QED BY <2>1, <2>2, <2>3, <2>4, <2>5 DEF TypeOK
<1>2. Spec => []TruthInv BY TruthInvariance
<1>3. Spec => []Shaped BY ShapeInvariance
<1> QED BY <1>1, <1>2, <1>3, PTL

-----------------------------------------------------------------------------
(* What the rules draw, and judge, they would draw and judge again.         *)

\* The collectors leave the unknown provider to the rules, and the target to
\* the profile.
Unjudged(a) == Fields \subseteq DOMAIN a /\ "target" \in DOMAIN a /\ a.unknown = ""

LEMMA UnjudgedWith ==
  ASSUME NEW a, Unjudged(a), NEW f \in Fields \ {"unknown"}, NEW v PROVE Unjudged([a EXCEPT ![f] = v])
  BY DEF Unjudged, Fields

LEMMA UnjudgedAdding ==
  ASSUME NEW a, Unjudged(a), NEW v
  PROVE Unjudged(Collected(a, v)) /\ Unjudged(Tested(a, v)) /\ Unjudged(Linked(a, v))
  BY DEF Unjudged, Fields, Collected, Tested, Linked

\* The collectors, one after another.
LEMMA DnsUnjudged ==
  ASSUME NEW a, Unjudged(a), NEW w
  PROVE /\ Unjudged(CollectCNAME(w, a)) /\ Unjudged(CollectNS(w, a)) /\ Unjudged(CollectMX(w, a))
        /\ Unjudged(CollectSRV(w, a)) /\ Unjudged(CollectIP(w, a)) /\ Unjudged(CollectEmailSecurity(w, a))
        /\ Unjudged(CollectTXT(w, a)) /\ Unjudged(CollectTXTResidual(w, a)) /\ Unjudged(CollectCAA(w, a))
        /\ Unjudged(CollectBindings(w, a)) /\ Unjudged(CollectDNSSEC(w, a)) /\ Unjudged(CollectZoneTransfer(w, a))
        /\ Unjudged(CollectShadowIT(w, a))
<1>0. "delegation" \in Fields \ {"unknown"} /\ "tested" \in Fields \ {"unknown"} BY DEF Fields
<1>1. Unjudged(CollectCNAME(w, a))
  <2>1. \A v, x : Unjudged(Linked(Collected(Tested(a, "DNS"), v), x)) BY UnjudgedAdding
  <2> QED BY <2>1, UnjudgedAdding, ZenonT(60) DEF CollectCNAME
<1>2. Unjudged(CollectNS(w, a))
  <2>1. \A v, x, y : Unjudged(Linked([Collected(Tested(a, "NS_DELEGATION"), v) EXCEPT !.delegation = x], y))
    BY <1>0, UnjudgedAdding, UnjudgedWith
  <2>2. Unjudged(Tested(a, "NS_DELEGATION")) BY UnjudgedAdding
  <2> QED BY <2>1, <2>2, ZenonT(60) DEF CollectNS
<1>3. Unjudged(CollectMX(w, a)) BY UnjudgedAdding, Zenon DEF CollectMX
<1>4. Unjudged(CollectSRV(w, a)) BY UnjudgedAdding, Zenon DEF CollectSRV
<1>5. Unjudged(CollectIP(w, a)) BY UnjudgedAdding, Zenon DEF CollectIP
<1>6. Unjudged(CollectEmailSecurity(w, a)) BY UnjudgedAdding, Zenon DEF CollectEmailSecurity
<1>7. Unjudged(CollectTXT(w, a)) BY UnjudgedAdding, Zenon DEF CollectTXT
<1>8. Unjudged(CollectTXTResidual(w, a)) BY UnjudgedAdding, Zenon DEF CollectTXTResidual
<1>9. Unjudged(CollectCAA(w, a)) BY UnjudgedAdding, ZenonT(60) DEF CollectCAA
<1>10. Unjudged(CollectBindings(w, a))
  <2>1. \A v, x, y : Unjudged(Linked(Collected([a EXCEPT !.tested = x], v), y)) BY <1>0, UnjudgedAdding, UnjudgedWith
  <2>2. \E v, x, y : CollectBindings(w, a) = Linked(Collected([a EXCEPT !.tested = x], v), y) BY ZenonT(60) DEF CollectBindings
  <2> QED BY <2>1, <2>2
<1>11. Unjudged(CollectDNSSEC(w, a)) BY UnjudgedAdding, ZenonT(60) DEF CollectDNSSEC
<1>12. Unjudged(CollectZoneTransfer(w, a)) BY UnjudgedAdding, ZenonT(60) DEF CollectZoneTransfer
<1>13. Unjudged(CollectShadowIT(w, a)) BY UnjudgedAdding, Zenon DEF CollectShadowIT
<1> QED BY <1>1, <1>2, <1>3, <1>4, <1>5, <1>6, <1>7, <1>8, <1>9, <1>10, <1>11, <1>12, <1>13

LEMMA WebUnjudged ==
  ASSUME NEW a, Unjudged(a), NEW w
  PROVE /\ Unjudged(CollectHTTP(w, a)) /\ Unjudged(CollectHTTPPosture(w, a)) /\ Unjudged(CollectHTTPSecurity(w, a))
        /\ Unjudged(CollectTLS(w, a)) /\ Unjudged(CollectRedirects(w, a)) /\ Unjudged(CollectVHost(w, a))
        /\ Unjudged(CollectOrigin(w, a)) /\ Unjudged(CollectWebDependencies(w, a)) /\ Unjudged(CollectCookieScope(w, a))
        /\ Unjudged(CollectCORSScope(w, a)) /\ Unjudged(CollectProviderHistory(w, a)) /\ Unjudged(Correlate(w, a))
        /\ Unjudged(CollectMutator(w, a)) /\ Unjudged(CollectFraming(w, a))
<1>0. /\ "http" \in Fields \ {"unknown"} /\ "cdn" \in Fields \ {"unknown"} /\ "chains" \in Fields \ {"unknown"}
      /\ "mutations" \in Fields \ {"unknown"} /\ "tested" \in Fields \ {"unknown"}
  BY DEF Fields
<1>1. Unjudged(CollectHTTP(w, a))
  <2>1. ASSUME NEW v, NEW x, NEW y PROVE Unjudged([Collected(Tested(a, "HTTP"), v) EXCEPT !.http = x, !.cdn = y])
    <3> DEFINE so == Collected(Tested(a, "HTTP"), v)
    <3>1. Unjudged(so) BY UnjudgedAdding
    <3> HIDE DEF so
    <3>2. Unjudged([so EXCEPT !.http = x, !.cdn = y]) BY <3>1 DEF Unjudged, Fields
    <3> QED BY <3>2 DEF so
  <2> QED BY <2>1, UnjudgedAdding, Zenon DEF CollectHTTP
<1>2. Unjudged(CollectHTTPPosture(w, a)) BY UnjudgedAdding, Zenon DEF CollectHTTPPosture
<1>3. Unjudged(CollectHTTPSecurity(w, a)) BY UnjudgedAdding, ZenonT(60) DEF CollectHTTPSecurity
<1>4. Unjudged(CollectTLS(w, a))
  <2>1. \A x, y : Unjudged(Collected([a EXCEPT !.tested = x], y)) BY <1>0, UnjudgedWith, UnjudgedAdding
  <2> QED BY <2>1, ZenonT(60) DEF CollectTLS
<1>5. Unjudged(CollectRedirects(w, a))
  <2>1. \A x, y : Unjudged([Collected(Tested(a, "REDIRECT_CHAIN"), x) EXCEPT !.chains = y])
    BY <1>0, UnjudgedWith, UnjudgedAdding
  <2> QED BY <2>1, Zenon DEF CollectRedirects
<1>6. Unjudged(CollectVHost(w, a)) BY UnjudgedAdding, Zenon DEF CollectVHost
<1>7. Unjudged(CollectOrigin(w, a)) BY UnjudgedAdding, Zenon DEF CollectOrigin
<1>8. Unjudged(CollectWebDependencies(w, a)) BY UnjudgedAdding, Zenon DEF CollectWebDependencies
<1>9. Unjudged(CollectCookieScope(w, a)) BY UnjudgedAdding, Zenon DEF CollectCookieScope
<1>10. Unjudged(CollectCORSScope(w, a)) BY UnjudgedAdding, ZenonT(60) DEF CollectCORSScope
<1>11. Unjudged(CollectProviderHistory(w, a)) BY UnjudgedAdding, Zenon DEF CollectProviderHistory
<1>12. Unjudged(Correlate(w, a)) BY UnjudgedAdding, Zenon DEF Correlate
<1>13. \A v, x, y : Unjudged([Collected(Tested(a, v), x) EXCEPT !.mutations = @ \o y])
  <2> SUFFICES ASSUME NEW v, NEW x, NEW y PROVE Unjudged([Collected(Tested(a, v), x) EXCEPT !.mutations = @ \o y])
    OBVIOUS
  <2> DEFINE so == Collected(Tested(a, v), x)
  <2>1. Unjudged(so) BY UnjudgedAdding
  <2> HIDE DEF so
  <2>2. Unjudged([so EXCEPT !.mutations = @ \o y]) BY <2>1 DEF Unjudged, Fields
  <2> QED BY <2>2 DEF so
<1>14. Unjudged(CollectMutator(w, a)) BY <1>13, UnjudgedAdding, Zenon DEF CollectMutator
<1>15. Unjudged(CollectFraming(w, a)) BY <1>13, UnjudgedAdding, Zenon DEF CollectFraming
<1> QED BY <1>1, <1>2, <1>3, <1>4, <1>5, <1>6, <1>7, <1>8, <1>9, <1>10, <1>11, <1>12, <1>14, <1>15

LEMMA CollectorUnjudged ==
  ASSUME NEW a, Unjudged(a), NEW w, NEW name \in Steps PROVE Unjudged(Collector(name, w, a))
  BY DnsUnjudged, WebUnjudged DEF Collector, Steps

\* What the rules infer carries their name, so that they know it again.
Inferred(s) == IsList(s) /\ \A i \in DOMAIN s : s[i].source = "INFERENCE"

\* What carries it: the empty list, a list of one or two, and lists together.
LEMMA InferredNone == Inferred(<<>>)
  BY EmptyIsAList DEF Inferred

LEMMA InferredOne == ASSUME NEW e, e.source = "INFERENCE" PROVE Inferred(<<e>>)
<1>1. <<e>> \in Seq({e}) OBVIOUS
<1>2. IsList(<<e>>) BY <1>1, ListOfASet
<1>3. \A i \in DOMAIN <<e>> : <<e>>[i] = e OBVIOUS
<1> QED BY <1>2, <1>3 DEF Inferred

LEMMA InferredTwo ==
  ASSUME NEW d, d.source = "INFERENCE", NEW e, e.source = "INFERENCE" PROVE Inferred(<<d, e>>)
<1>1. <<d, e>> \in Seq({d, e}) OBVIOUS
<1>2. IsList(<<d, e>>) BY <1>1, ListOfASet
<1>3. \A i \in DOMAIN <<d, e>> : <<d, e>>[i] = d \/ <<d, e>>[i] = e OBVIOUS
<1> QED BY <1>2, <1>3 DEF Inferred

LEMMA InferredJoin == ASSUME NEW s, NEW t, Inferred(s), Inferred(t) PROVE Inferred(s \o t)
<1>1. IsList(s) /\ IsList(t) BY DEF Inferred
<1>2. IsList(s \o t) /\ ToSet(s \o t) \subseteq ToSet(s) \cup ToSet(t) BY <1>1, ListJoin
<1>3. \A x \in ToSet(s) \cup ToSet(t) : x.source = "INFERENCE" BY DEF Inferred, ToSet
<1>4. \A i \in DOMAIN (s \o t) : (s \o t)[i] \in ToSet(s \o t) BY DEF ToSet
<1> QED BY <1>2, <1>3, <1>4 DEF Inferred

LEMMA InferredIf == ASSUME NEW holds, NEW x, Inferred(x) PROVE Inferred(If(holds, x))
  BY InferredNone DEF If

LEMMA InferredBoth ==
  ASSUME NEW left, NEW right, Inferred(left.evidence), Inferred(right.evidence)
  PROVE Inferred(Both(left, right).evidence)
  BY InferredJoin DEF Both

\* Conclusions are of the evidence they were given.
LEMMA ConcludedEvidence == \A evidence, inferences : Conclude(evidence, inferences).evidence = evidence
  BY DEF Conclude

LEMMA InferredNothing == Inferred(Nothing.evidence)
  BY InferredNone DEF Nothing

LEMMA InferredWhen ==
  ASSUME NEW holds, NEW x, Inferred(x.evidence) PROVE Inferred(When(holds, x).evidence)
  BY InferredNothing DEF When

LEMMA DerivedInferred ==
  \A type, weight, confidence : /\ Derived(type, weight, confidence).source = "INFERENCE"
                                /\ Mitigation(type, "INFERENCE", weight, confidence).source = "INFERENCE"
  BY DEF Derived, Mitigation, Evidence

LEMMA OneInferred ==
  \A type, weight, confidence : Inferred(<<Derived(type, weight, confidence)>>)
  BY DerivedInferred, InferredOne

\* The rule sets.
LEMMA PlaintextInferred == ASSUME NEW a PROVE Inferred(PlaintextRules(a).evidence)
<1> DEFINE o == a.http["http"]
           one == If(o.html, <<Derived("PLAINTEXT_WEB_CONTENT", 20, 95)>>)
           two == If(o.password, <<Derived("PLAINTEXT_AUTH_INTERFACE", 60, 100)>>)
           three == If(o.cookie, <<Derived("HTTP_SENSITIVE_COOKIE_WITHOUT_SECURE", 60, 95)>>)
           four == <<Derived("TRANSPORT_PRIORITY_SCORE", 0, 100)>>
           drawn == << CASE o.password -> Inference("PLAINTEXT_AUTH_INTERFACE", "CONFIRMED", 90)
                         [] ~o.password /\ o.cookie -> Inference("SENSITIVE_COOKIE_OVER_HTTP", "CONFIRMED", 85)
                         [] ~o.password /\ ~o.cookie /\ o.html -> Inference("PLAINTEXT_WEB_CONTENT", "CANDIDATE", 45)
                         [] OTHER -> Inference("HTTP_NO_UPGRADE_OBSERVED", "OBSERVATION", 0) >>
<1>1. Inferred(one) /\ Inferred(two) /\ Inferred(three) /\ Inferred(four) BY OneInferred, InferredIf
<1>3. PlaintextRules(a) = Conclude(one \o two \o three \o four, drawn) BY DEF PlaintextRules
<1>2. PlaintextRules(a).evidence = one \o two \o three \o four
  <2> HIDE DEF one, two, three, four, drawn
  <2> QED BY <1>3, ConcludedEvidence
<1> HIDE DEF one, two, three, four
<1> QED BY <1>1, <1>2, InferredJoin

LEMMA StatusInferred == ASSUME NEW a PROVE Inferred(StatusRules(a).evidence)
<1> DEFINE status == a.http["http"].status
           edge == "EDGE_RESPONSE" \in {a.http["http"].kind, a.http["https"].kind}
           one == Conclude(<<Derived("HTTP_BLOCKED_WITHOUT_REDIRECT", 0, 100)>> \o If(edge, <<Derived("HTTP_EDGE_BLOCK", 0, 95)>>),
                           <<Inference(IF edge THEN "EDGE_BLOCKED_NO_EXPOSURE" ELSE "HTTP_BLOCKED_NO_EXPOSURE", "SUPPRESSED", 0)>>)
           two == Conclude(<<Derived("RESOURCE_NOT_AVAILABLE", 0, 100)>>, <<Inference("HTTP_RESOURCE_NOT_AVAILABLE", "SUPPRESSED", 0)>>)
           three == Conclude(<<Derived("HTTP_ERROR_WITHOUT_REDIRECT", 0, 100)>>, <<Inference("HTTP_ERROR_NO_EXPOSURE", "SUPPRESSED", 0)>>)
           four == Conclude(<<>>, <<Inference("HTTP_NO_UPGRADE_OBSERVED", "OBSERVATION", 0)>>)
           five == PlaintextRules(a)
<1>1. /\ Inferred(<<Derived("HTTP_BLOCKED_WITHOUT_REDIRECT", 0, 100)>>)
      /\ Inferred(If(edge, <<Derived("HTTP_EDGE_BLOCK", 0, 95)>>))
  BY OneInferred, InferredIf
<1>2. Inferred(one.evidence)
  <2> HIDE DEF edge
  <2> QED BY <1>1, InferredJoin, ConcludedEvidence
<1>3. Inferred(two.evidence) /\ Inferred(three.evidence) BY OneInferred, ConcludedEvidence
<1>4. Inferred(four.evidence) BY InferredNone, ConcludedEvidence
<1>5. Inferred(five.evidence) BY PlaintextInferred
<1>6. StatusRules(a) = CASE BlockedStatus(status) -> one [] UnavailableStatus(status) -> two [] status >= 500 -> three
                         [] status \in 200..299 -> five [] OTHER -> four
  BY ZenonT(60) DEF StatusRules
<1> DEFINE p == BlockedStatus(status)
           q == UnavailableStatus(status)
           r == status >= 500
           s == status \in 200..299
<1>7. StatusRules(a) = CASE p -> one [] q -> two [] r -> three [] s -> five [] OTHER -> four BY <1>6
<1> HIDE DEF one, two, three, four, five, p, q, r, s
<1>8. StatusRules(a) \in {one, two, three, four, five} BY <1>7
<1> QED BY <1>2, <1>3, <1>4, <1>5, <1>8

\* The chains conclude one and the same thing, or nothing.
LEMMA RedirectInferred ==
  ASSUME NEW chain
  PROVE RedirectRules(chain).evidence \in {<<>>, <<Derived("DANGLING_REDIRECT", 20, 95)>>}
<1> DEFINE missing == Conclude(<<Derived("DANGLING_REDIRECT", 20, 95)>>, <<Inference("REDIRECT_DESTINATION_DNS_MISSING", "CANDIDATE", 35)>>)
           unclear == Conclude(<<>>, <<Inference("REDIRECT_DESTINATION_INCONCLUSIVE", "INCONCLUSIVE", 0)>>)
           error == Conclude(<<Derived("DANGLING_REDIRECT", 20, 95)>>, <<Inference("REDIRECT_DESTINATION_PROVIDER_ERROR", "CANDIDATE", 45)>>)
           foreign == Conclude(<<>>, <<Inference("UNSUPPORTED_PROTOCOL", "INCONCLUSIVE", 0)>>)
           none == chain.hops = 0
           some == chain.hops > 0
           m == some /\ chain.stopped \in {"DESTINATION_NXDOMAIN", "DESTINATION_NO_DATA"}
           u == some /\ chain.stopped \in {"DESTINATION_SERVFAIL", "DESTINATION_TIMEOUT", "DESTINATION_REFUSED",
                                           "DESTINATION_ERROR"}
           e == some /\ chain.stopped = "DESTINATION_PROVIDER_ERROR"
           f == some /\ chain.stopped = "UNSUPPORTED_PROTOCOL"
           it == <<Derived("DANGLING_REDIRECT", 20, 95)>>
<1>1. RedirectRules(chain) = CASE none -> Nothing [] m -> missing [] u -> unclear [] e -> error [] f -> foreign [] OTHER -> Nothing
  BY DEF RedirectRules
<1>2. missing.evidence = it /\ unclear.evidence = <<>> /\ error.evidence = it /\ foreign.evidence = <<>>
  BY ConcludedEvidence
<1>3. Nothing.evidence = <<>> BY DEF Nothing
<1>4. RedirectRules(chain) \in {Nothing, missing, unclear, error, foreign}
  <2> HIDE DEF none, m, u, e, f, missing, unclear, error, foreign
  <2> QED BY <1>1
<1> HIDE DEF missing, unclear, error, foreign, it
<1>5. RedirectRules(chain).evidence \in {<<>>, it} BY <1>2, <1>3, <1>4
<1> QED BY <1>5 DEF it

LEMMA HttpInferred == ASSUME NEW a PROVE Inferred(HttpRules(a).evidence)
<1> DEFINE http == a.http["http"]
           https == a.http["https"]
           upgrade == HttpsUpgrade(a)
           same == http.seen /\ https.seen /\ http.complete /\ https.complete /\ SimilarBodies(http.body, https.body)
           correlated == When(same, Conclude(<<Derived("HTTP_HTTPS_CONTENT_CORRELATED", 0, 95)>>, <<>>))
           down == https.seen /\ https.complete /\ RedirectStatus(https.status) /\ HttpsDowngrade(a)
           downgrade == When(down, Conclude(<<Derived("HTTPS_DOWNGRADE_REDIRECT", 15, 100)>>, <<Inference("HTTPS_DOWNGRADE", "CANDIDATE", 70)>>))
           port == Conclude(<<Derived("HTTP_HTTPS_UPGRADE_PRESENT", 0, 100), Derived("HTTP_HTTPS_PORT_INCONSISTENT", 10, 100)>>,
                            <<Inference("HTTP_UPGRADE_NONSTANDARD_PORT", "CANDIDATE", 35)>>)
           up == Conclude(<<Derived("HTTP_HTTPS_UPGRADE_PRESENT", 0, 100)>>, <<Inference("HTTP_HTTPS_UPGRADE", "HEALTHY", 0)>>)
           without == ~(https.seen /\ https.complete)
           flat == Conclude(<<Derived("HTTP_NO_HTTPS_UPGRADE", 0, 100)>> \o If(without, <<Derived("HTTPS_UNAVAILABLE", 0, 80)>>), <<>>)
           rest == Both(flat, StatusRules(a))
           seen == http.seen /\ http.complete
           plain == CASE ~seen -> Nothing [] http.seen /\ http.complete /\ upgrade = "https:8443" -> port
                      [] http.seen /\ http.complete /\ upgrade = "https" -> up [] OTHER -> rest
<1>1. Inferred(correlated.evidence) /\ Inferred(downgrade.evidence)
  <2> HIDE DEF same, down
  <2> QED BY OneInferred, ConcludedEvidence, InferredWhen
<1>2. Inferred(port.evidence)
  <2> DEFINE d == Derived("HTTP_HTTPS_UPGRADE_PRESENT", 0, 100)
             e == Derived("HTTP_HTTPS_PORT_INCONSISTENT", 10, 100)
  <2>1. d.source = "INFERENCE" /\ e.source = "INFERENCE" BY DerivedInferred
  <2>2. port.evidence = <<d, e>> BY ConcludedEvidence
  <2> HIDE DEF d, e, port
  <2> QED BY <2>1, <2>2, InferredTwo
<1>3. Inferred(up.evidence) BY OneInferred, ConcludedEvidence
<1>4. Inferred(rest.evidence)
  <2>1. Inferred(flat.evidence)
    <3> HIDE DEF without
    <3>1. Inferred(<<Derived("HTTP_NO_HTTPS_UPGRADE", 0, 100)>>) /\ Inferred(If(without, <<Derived("HTTPS_UNAVAILABLE", 0, 80)>>))
      BY OneInferred, InferredIf
    <3> QED BY <3>1, InferredJoin, ConcludedEvidence
  <2> HIDE DEF flat
  <2> QED BY <2>1, StatusInferred, InferredBoth
<1>5. HttpRules(a) = Both(Both(correlated, downgrade), plain) BY DEF HttpRules
<1>6. plain \in {Nothing, port, up, rest}
  <2> HIDE DEF port, up, rest, upgrade, http
  <2> QED OBVIOUS
<1> HIDE DEF plain, port, up, rest, correlated, downgrade
<1>7. Inferred(plain.evidence) BY <1>2, <1>3, <1>4, <1>6, InferredNothing
<1> QED BY <1>1, <1>5, <1>7, InferredBoth

LEMMA HeaderInferred == ASSUME NEW a PROVE Inferred(HeaderRules(a).evidence)
<1> DEFINE o == a.http["https"]
           page == o.status \in 200..299 /\ o.html
           asked == "SEC_HEADERS" \in a.tested /\ o.seen /\ o.complete
           hsts == IF o.hsts THEN Mitigation("HTTPS_HSTS_PRESENT", "INFERENCE", 0, 100) ELSE Derived("HTTPS_HSTS_ABSENT", 0, 100)
           csp == IF o.csp THEN Mitigation("HTTPS_CSP_PRESENT", "INFERENCE", 0, 100) ELSE Derived("HTTPS_CSP_ABSENT", 0, 100)
           drawn == If(~o.hsts, <<Inference("HSTS_POSTURE_ONLY", "OBSERVATION", 0)>>)
                      \o If(page /\ ~o.csp, <<Inference("CSP_HARDENING_ONLY", "OBSERVATION", 0)>>)
<1>1. hsts.source = "INFERENCE" /\ csp.source = "INFERENCE" BY DerivedInferred
<1>2. HeaderRules(a) = When(asked, Conclude(<<hsts>> \o If(page, <<csp>>), drawn)) BY DEF HeaderRules
<1> HIDE DEF asked, page, hsts, csp, drawn
<1>3. Inferred(<<hsts>>) /\ Inferred(If(page, <<csp>>)) BY <1>1, InferredOne, InferredIf
<1>4. Inferred(<<hsts>> \o If(page, <<csp>>)) BY <1>3, InferredJoin
<1>5. Inferred(Conclude(<<hsts>> \o If(page, <<csp>>), drawn).evidence) BY <1>4, ConcludedEvidence
<1> QED BY <1>2, <1>5, InferredWhen

\* The smaller of two numbers.
LEMMA UpTo ==
  ASSUME NEW b \in Nat, NEW k \in Nat PROVE (k <= b => AtMost(b, k) = k) /\ (b <= k => AtMost(b, k) = b)
  BY DEF AtMost

\* A test that the first list passes and the rest fails keeps the first list.
LEMMA PrefixKept ==
  ASSUME NEW c, IsList(c), NEW n \in Nat, Len(c) <= n, NEW parts,
         parts = [i \in 1..n |-> IF i <= Len(c) THEN <<c[i]>> ELSE <<>>]
  PROVE FlattenSeq(parts) = c
<1>1. Len(c) \in Nat /\ DOMAIN c = 1..Len(c) /\ c \in Seq(ToSet(c)) BY ListDomain DEF IsList
<1>2. Len(parts) = n /\ parts = [i \in 1..n |-> parts[i]] OBVIOUS
<1>3. CASE n = 0
  <2>1. FlattenSeq(parts) = parts BY <1>2, <1>3 DEF FlattenSeq
  <2>2. parts = <<>> /\ c = <<>> BY <1>1, <1>3
  <2> QED BY <2>1, <2>2
<1>4. CASE n # 0
  <2>1. PICK f : Joins(f, parts, n) /\ FlattenSeq(parts) = f[n] BY <1>2, <1>4, FlattenJoins
  <2> DEFINE upto(i) == AtMost(Len(c), i)
             Is(s, k) == s \in Seq(ToSet(c)) /\ Len(s) = k /\ \A j \in 1..k : s[j] = c[j]
             Bad == {i \in 1..n : ~Is(f[i], upto(i))}
  <2>2. Bad = {}
    <3>1. SUFFICES ASSUME Bad # {} PROVE FALSE OBVIOUS
    <3>2. PICK k \in Bad : \A m \in Bad : ~(m < k)
      <4>1. Bad \subseteq Nat OBVIOUS
      <4> HIDE DEF Bad
      <4> QED BY <3>1, <4>1, Least
    <3>3. k \in 1..n /\ ~Is(f[k], upto(k)) BY SMTT(60)
    <3>4. f[k] = IF k = 1 THEN parts[k] ELSE f[k - 1] \o parts[k] BY <2>1, <3>3 DEF Joins
    <3>5. parts[k] = IF k <= Len(c) THEN <<c[k]>> ELSE <<>> BY <3>3
    <3>6. k <= Len(c) => c[k] \in ToSet(c) BY <1>1, <3>3 DEF ToSet
    <3>7. parts[k] \in Seq(ToSet(c)) BY <3>5, <3>6
    <3>8. CASE k = 1
      <4>1. f[k] = parts[k] BY <3>4, <3>8
      <4>2. CASE 1 <= Len(c)
        <5>1. upto(k) = 1 BY <1>1, <3>8, <4>2, UpTo
        <5>2. f[k] = <<c[1]>> BY <3>5, <3>8, <4>1, <4>2
        <5>3. Len(f[k]) = 1 /\ \A j \in 1..1 : f[k][j] = c[j] BY <5>2
        <5> QED BY <3>3, <3>7, <4>1, <5>1, <5>3
      <4>3. CASE ~(1 <= Len(c))
        <5>1. upto(k) = 0 BY <1>1, <3>8, <4>3, UpTo
        <5>2. f[k] = <<>> BY <3>5, <3>8, <4>1, <4>3
        <5>3. Len(f[k]) = 0 /\ \A j \in 1..0 : f[k][j] = c[j] BY <5>2
        <5> QED BY <3>3, <3>7, <4>1, <5>1, <5>3
      <4> QED BY <4>2, <4>3
    <3>9. CASE k # 1
      <4>1. k - 1 \in 1..n /\ k - 1 < k BY <3>3, <3>9
      <4>2. k - 1 \notin Bad BY <3>2, <4>1
      <4>3. Is(f[k - 1], upto(k - 1)) BY <4>1, <4>2
      <4>4. f[k] = f[k - 1] \o parts[k] BY <3>4, <3>9
      <4>5. f[k] \in Seq(ToSet(c)) BY <3>7, <4>3, <4>4
      <4>6. CASE k <= Len(c)
        <5>1. upto(k) = k /\ upto(k - 1) = k - 1
          <6>1. k \in Nat /\ k - 1 \in Nat /\ k <= Len(c) /\ k - 1 <= Len(c) BY <1>1, <3>3, <4>6
          <6> QED BY <1>1, <6>1, UpTo
        <5>2. f[k] = f[k - 1] \o <<c[k]>> BY <3>5, <4>4, <4>6
        <5> HIDE DEF upto
        <5>3. Len(f[k]) = k BY <3>3, <4>3, <5>1, <5>2
        <5>4. \A j \in 1..k : f[k][j] = c[j] BY <3>3, <4>3, <5>1, <5>2
        <5> QED BY <3>3, <4>5, <5>1, <5>3, <5>4
      <4>7. CASE ~(k <= Len(c))
        <5>1. upto(k) = Len(c) /\ upto(k - 1) = Len(c)
          <6>1. k \in Nat /\ k - 1 \in Nat /\ Len(c) <= k /\ Len(c) <= k - 1 BY <1>1, <3>3, <4>7
          <6> QED BY <1>1, <6>1, UpTo
        <5>2. f[k] = f[k - 1]
          <6>1. f[k] = f[k - 1] \o <<>> BY <3>5, <4>4, <4>7
          <6> QED BY <4>3, <6>1
        <5> QED BY <3>3, <4>3, <5>1, <5>2
      <4> QED BY <4>6, <4>7
    <3> QED BY <3>8, <3>9
  <2>3. Is(f[n], upto(n)) BY <1>4, <2>2
  <2>4. upto(n) = Len(c) BY <1>1, UpTo
  <2>5. f[n] \in Seq(ToSet(c)) /\ Len(f[n]) = Len(c) /\ \A j \in 1..Len(c) : f[n][j] = c[j] BY <2>3, <2>4
  <2>6. f[n] = c BY <1>1, <2>5
  <2> QED BY <2>1, <2>6
<1> QED BY <1>3, <1>4

\* Infer takes its own entries away before it adds them again.
LEMMA OriginalsKept ==
  ASSUME NEW evidence, IsList(evidence), NEW c, c = Those(evidence, LAMBDA e : e.source # "INFERENCE")
  PROVE IsList(c) /\ \A i \in DOMAIN c : c[i].source # "INFERENCE"
<1> DEFINE S == {e \in ToSet(evidence) : e.source # "INFERENCE"}
           keep(e) == If(e.source # "INFERENCE", <<e>>)
           parts == [i \in DOMAIN evidence |-> keep(evidence[i])]
<1>1. ASSUME NEW i \in DOMAIN evidence PROVE parts[i] \in Seq(S)
  <2>1. evidence[i] \in ToSet(evidence) BY DEF ToSet
  <2>2. parts[i] = If(evidence[i].source # "INFERENCE", <<evidence[i]>>) OBVIOUS
  <2>3. CASE evidence[i].source # "INFERENCE"
    <3>1. evidence[i] \in S BY <2>1, <2>3
    <3>2. parts[i] = <<evidence[i]>> BY <2>2, <2>3 DEF If
    <3> HIDE DEF S, parts
    <3> QED BY <3>1, <3>2
  <2>4. CASE evidence[i].source = "INFERENCE"
    <3>1. parts[i] = <<>> BY <2>2, <2>4 DEF If
    <3> HIDE DEF S, parts
    <3> QED BY <3>1
  <2> QED BY <2>3, <2>4
<1>2. parts = [i \in DOMAIN evidence |-> parts[i]] OBVIOUS
<1>3. c = FlattenSeq(parts) BY DEF Those, EachOf
<1> HIDE DEF parts, S
<1>4. c \in Seq(S) BY <1>1, <1>2, <1>3, EachInSet
<1>5. \A x \in S : x.source # "INFERENCE" BY DEF S
<1> QED BY <1>4, <1>5, ListOfASet

\* Taken away from what was said with them, the others remain.
LEMMA InferredAgain ==
  ASSUME NEW c, IsList(c), \A i \in DOMAIN c : c[i].source # "INFERENCE", NEW t, Inferred(t)
  PROVE Those(c \o t, LAMBDA e : e.source # "INFERENCE") = c
<1> DEFINE n == Len(c) + Len(t)
           keep(e) == If(e.source # "INFERENCE", <<e>>)
           all == c \o t
           parts == [i \in DOMAIN all |-> keep(all[i])]
<1>1. /\ IsList(t) /\ Len(c) \in Nat /\ DOMAIN c = 1..Len(c) /\ c \in Seq(ToSet(c))
      /\ Len(t) \in Nat /\ DOMAIN t = 1..Len(t) /\ t \in Seq(ToSet(t))
  BY ListDomain DEF Inferred, IsList
<1>2. DOMAIN all = 1..n BY <1>1
<1>3. ASSUME NEW i \in 1..n PROVE parts[i] = IF i <= Len(c) THEN <<c[i]>> ELSE <<>>
  <2>1. parts[i] = If(all[i].source # "INFERENCE", <<all[i]>>) BY <1>2
  <2>2. CASE i <= Len(c)
    <3>1. all[i] = c[i] /\ i \in DOMAIN c BY <1>1, <1>3, <2>2
    <3> QED BY <2>1, <2>2, <3>1 DEF If
  <2>3. CASE ~(i <= Len(c))
    <3>1. all[i] = t[i - Len(c)] /\ i - Len(c) \in DOMAIN t BY <1>1, <1>3, <2>3
    <3>2. all[i].source = "INFERENCE" BY <3>1 DEF Inferred
    <3> HIDE DEF all, parts
    <3> QED BY <2>1, <2>3, <3>2 DEF If
  <2> QED BY <2>2, <2>3
<1>4. Those(all, LAMBDA e : e.source # "INFERENCE") = FlattenSeq(parts) BY DEF Those, EachOf
<1>5. parts = [i \in 1..n |-> parts[i]] BY <1>2
<1> HIDE DEF parts, all
<1>6. parts = [i \in 1..n |-> IF i <= Len(c) THEN <<c[i]>> ELSE <<>>] BY <1>3, <1>5
<1>7. n \in Nat /\ Len(c) <= n BY <1>1
<1>8. FlattenSeq(parts) = c BY <1>6, <1>7, PrefixKept
<1> QED BY <1>4, <1>8 DEF all

\* To say it once adds nothing.
LEMMA OnceInferred == ASSUME NEW s, Inferred(s) PROVE Inferred(Once(s))
<1> DEFINE new(i) == \A j \in 1..(i - 1) : s[j].type # s[i].type \/ s[j].source # s[i].source
           parts == [i \in DOMAIN s |-> If(new(i), <<s[i]>>)]
<1>1. IsList(s) BY DEF Inferred
<1>2. \A i \in DOMAIN s : parts[i] \in {<<>>, <<s[i]>>}
  <2> HIDE DEF new
  <2> QED BY DEF If
<1>3. parts = [i \in DOMAIN s |-> parts[i]] OBVIOUS
<1>4. Once(s) = FlattenSeq(parts) BY DEF Once
<1> HIDE DEF parts
<1>5. IsList(Once(s)) /\ ToSet(Once(s)) \subseteq ToSet(s) BY <1>1, <1>2, <1>3, <1>4, Filtered
<1>6. \A x \in ToSet(s) : x.source = "INFERENCE" BY DEF Inferred, ToSet
<1> QED BY <1>5, <1>6 DEF Inferred, ToSet

\* What the rules draw from an analysis, the chains walked one way or the other.
BothWays == {<<"http", "https">>, <<"https", "http">>}
Draws(a, walk) ==
  Both(Both(HttpRules(a), Both(RedirectRules(a.chains[walk[1]]), RedirectRules(a.chains[walk[2]]))), HeaderRules(a))

\* Infer replaces what it drew before by what it draws.
LEMMA InferDraws ==
  ASSUME NEW a, NEW walk
  PROVE Infer(a, walk) = [a EXCEPT !.evidence = Those(a.evidence, LAMBDA e : e.source # "INFERENCE") \o Once(Draws(a, walk).evidence),
                                   !.inferences = Draws(a, walk).inferences]
  BY DEF Infer, Draws

\* All of it carries the name of the rules.
LEMMA DrawsPlainly ==
  ASSUME NEW a, NEW walk PROVE Plainly(Draws(a, walk)) /\ Inferred(Draws(a, walk).evidence)
<1> DEFINE one == RedirectRules(a.chains[walk[1]])
           two == RedirectRules(a.chains[walk[2]])
<1>1. Plainly(one) /\ Plainly(two) BY RedirectPlain
<1>2. Inferred(one.evidence) /\ Inferred(two.evidence)
  BY RedirectInferred, InferredNone, OneInferred
<1>3. Draws(a, walk) = Both(Both(HttpRules(a), Both(one, two)), HeaderRules(a)) BY DEF Draws
<1> HIDE DEF one, two
<1>4. Plainly(Both(one, two)) /\ Inferred(Both(one, two).evidence) BY <1>1, <1>2, BothPlain, InferredBoth
<1> DEFINE redirects == Both(one, two)
<1> HIDE DEF redirects
<1>5. Plainly(redirects) /\ Inferred(redirects.evidence) BY <1>4 DEF redirects
<1>6. Plainly(Both(HttpRules(a), redirects)) /\ Inferred(Both(HttpRules(a), redirects).evidence)
  BY <1>5, HttpPlain, HttpInferred, BothPlain, InferredBoth
<1> DEFINE most == Both(HttpRules(a), redirects)
<1>7. Draws(a, walk) = Both(most, HeaderRules(a)) BY <1>3 DEF redirects
<1> HIDE DEF most
<1>8. Plainly(most) /\ Inferred(most.evidence) BY <1>6 DEF most
<1> QED BY <1>7, <1>8, HeaderPlain, HeaderInferred, BothPlain, InferredBoth

\* The states of a list of inferences.
StatesOf(s) == {s[i].state : i \in DOMAIN s}

LEMMA StatesOfBoth ==
  ASSUME NEW s, NEW t, IsList(s), IsList(t) PROVE StatesOf(s \o t) = StatesOf(s) \cup StatesOf(t)
<1>1. /\ Len(s) \in Nat /\ DOMAIN s = 1..Len(s) /\ s \in Seq(ToSet(s))
      /\ Len(t) \in Nat /\ DOMAIN t = 1..Len(t) /\ t \in Seq(ToSet(t))
  BY ListDomain DEF IsList
<1>2. DOMAIN (s \o t) = 1..(Len(s) + Len(t)) BY <1>1
<1>3. \A i \in DOMAIN s : i \in DOMAIN (s \o t) /\ (s \o t)[i] = s[i] BY <1>1
<1>4. \A i \in DOMAIN t : i + Len(s) \in DOMAIN (s \o t) /\ (s \o t)[i + Len(s)] = t[i] BY <1>1
<1>5. \A i \in DOMAIN (s \o t) : \/ i \in DOMAIN s /\ (s \o t)[i] = s[i]
                                 \/ i - Len(s) \in DOMAIN t /\ (s \o t)[i] = t[i - Len(s)]
  BY <1>1, <1>2
<1>6. \A x : x \in StatesOf(s \o t) => x \in StatesOf(s) \cup StatesOf(t)
  <2> TAKE x
  <2> HAVE x \in StatesOf(s \o t)
  <2>1. PICK i \in DOMAIN (s \o t) : x = (s \o t)[i].state BY DEF StatesOf
  <2>2. CASE i \in DOMAIN s /\ (s \o t)[i] = s[i]
    <3>1. x = s[i].state /\ i \in DOMAIN s BY <2>1, <2>2
    <3> QED BY <3>1, Zenon DEF StatesOf
  <2>3. CASE i - Len(s) \in DOMAIN t /\ (s \o t)[i] = t[i - Len(s)]
    <3>1. x = t[i - Len(s)].state /\ i - Len(s) \in DOMAIN t BY <2>1, <2>3
    <3> QED BY <3>1, Zenon DEF StatesOf
  <2> QED BY <1>5, <2>1, <2>2, <2>3
<1>7. \A x : x \in StatesOf(s) \cup StatesOf(t) => x \in StatesOf(s \o t)
  <2> TAKE x
  <2> HAVE x \in StatesOf(s) \cup StatesOf(t)
  <2>1. CASE x \in StatesOf(s)
    <3>1. PICK i \in DOMAIN s : x = s[i].state BY <2>1, Zenon DEF StatesOf
    <3>2. i \in DOMAIN (s \o t) /\ x = (s \o t)[i].state BY <1>3, <3>1
    <3> QED BY <3>2, Zenon DEF StatesOf
  <2>2. CASE x \in StatesOf(t)
    <3>1. PICK i \in DOMAIN t : x = t[i].state BY <2>2, Zenon DEF StatesOf
    <3>2. i + Len(s) \in DOMAIN (s \o t) /\ x = (s \o t)[i + Len(s)].state BY <1>4, <3>1
    <3> QED BY <3>2, Zenon DEF StatesOf
  <2> QED BY <2>1, <2>2
<1> QED BY <1>6, <1>7

\* The order of the walk shows in the order of the inferences only.
LEMMA DrawsAgree ==
  ASSUME NEW a, NEW p \in BothWays, NEW q \in BothWays
  PROVE /\ Draws(a, p).evidence = Draws(a, q).evidence
        /\ StatesOf(Draws(a, p).inferences) = StatesOf(Draws(a, q).inferences)
<1> DEFINE h == HttpRules(a)
           d == HeaderRules(a)
           r == RedirectRules(a.chains["http"])
           s == RedirectRules(a.chains["https"])
           drawn(x, y) == Both(Both(h, Both(x, y)), d)
<1>1. Draws(a, p) \in {drawn(r, s), drawn(s, r)} /\ Draws(a, q) \in {drawn(r, s), drawn(s, r)}
  <2>1. Draws(a, <<"http", "https">>) = drawn(r, s) BY DEF Draws
  <2>2. Draws(a, <<"https", "http">>) = drawn(s, r) BY DEF Draws
  <2> HIDE DEF drawn, r, s
  <2> QED BY <2>1, <2>2 DEF BothWays
<1>2. r.evidence \o s.evidence = s.evidence \o r.evidence
  <2> DEFINE it == Derived("DANGLING_REDIRECT", 20, 95)
  <2>1. r.evidence \in {<<>>, <<it>>} /\ s.evidence \in {<<>>, <<it>>} BY RedirectInferred
  <2> HIDE DEF it, r, s
  <2>2. <<>> \o <<it>> = <<it>> /\ <<it>> \o <<>> = <<it>>
    <3>1. <<it>> \in Seq({it}) OBVIOUS
    <3> QED BY <3>1
  <2> QED BY <2>1, <2>2
<1>3. Plainly(h) /\ Plainly(d) /\ Plainly(r) /\ Plainly(s) BY HttpPlain, HeaderPlain, RedirectPlain
<1> HIDE DEF h, d, r, s
<1>4. /\ IsList(h.inferences) /\ IsList(d.inferences) /\ IsList(r.inferences) /\ IsList(s.inferences)
  BY <1>3 DEF Plainly, Drawn
<1>5. \A x, y : /\ drawn(x, y).evidence = (h.evidence \o (x.evidence \o y.evidence)) \o d.evidence
                /\ drawn(x, y).inferences = (h.inferences \o (x.inferences \o y.inferences)) \o d.inferences
  BY DEF Both
<1>6. drawn(r, s).evidence = drawn(s, r).evidence
  <2> HIDE DEF drawn
  <2> QED BY <1>2, <1>5, ZenonT(60)
<1>7. ASSUME NEW x, NEW y, IsList(x.inferences), IsList(y.inferences)
      PROVE StatesOf(drawn(x, y).inferences) =
              StatesOf(h.inferences) \cup StatesOf(x.inferences) \cup StatesOf(y.inferences) \cup StatesOf(d.inferences)
  <2> DEFINE xy == x.inferences \o y.inferences
             hxy == h.inferences \o xy
  <2>1. IsList(xy) /\ StatesOf(xy) = StatesOf(x.inferences) \cup StatesOf(y.inferences)
    BY <1>7, ListJoin, StatesOfBoth
  <2>4. drawn(x, y).inferences = hxy \o d.inferences BY <1>5
  <2> HIDE DEF xy, drawn
  <2>2. IsList(hxy) /\ StatesOf(hxy) = StatesOf(h.inferences) \cup StatesOf(xy) BY <1>4, <2>1, ListJoin, StatesOfBoth
  <2> HIDE DEF hxy
  <2>3. StatesOf(hxy \o d.inferences) = StatesOf(hxy) \cup StatesOf(d.inferences) BY <1>4, <2>2, StatesOfBoth
  <2> QED BY <2>1, <2>2, <2>3, <2>4
<1> HIDE DEF drawn
<1>8. StatesOf(drawn(r, s).inferences) = StatesOf(drawn(s, r).inferences)
  <2>1. StatesOf(drawn(r, s).inferences) =
          StatesOf(h.inferences) \cup StatesOf(r.inferences) \cup StatesOf(s.inferences) \cup StatesOf(d.inferences)
    BY <1>4, <1>7
  <2>2. StatesOf(drawn(s, r).inferences) =
          StatesOf(h.inferences) \cup StatesOf(s.inferences) \cup StatesOf(r.inferences) \cup StatesOf(d.inferences)
    BY <1>4, <1>7
  <2> QED BY <2>1, <2>2
<1> QED BY <1>1, <1>6, <1>8

\* The rules read the observations, the chains and one of the vectors tested.
LEMMA DrawsRead ==
  ASSUME NEW a, NEW b, a.http = b.http, a.chains = b.chains,
         "SEC_HEADERS" \in a.tested <=> "SEC_HEADERS" \in b.tested, NEW walk
  PROVE Draws(a, walk) = Draws(b, walk)
<1>1. HttpsUpgrade(a) = HttpsUpgrade(b) BY DEF HttpsUpgrade
<1>2. HttpsDowngrade(a) <=> HttpsDowngrade(b) BY DEF HttpsDowngrade
<1>3. PlaintextRules(a) = PlaintextRules(b) BY DEF PlaintextRules
<1>4. StatusRules(a) = StatusRules(b) BY <1>3 DEF StatusRules
<1>5. HttpRules(a) = HttpRules(b) BY <1>1, <1>2, <1>4, SMTT(60) DEF HttpRules
<1>6. HeaderRules(a) = HeaderRules(b) BY ZenonT(60) DEF HeaderRules
<1> QED BY <1>5, <1>6 DEF Draws

\* The state a verdict is given: that of its level, or of its best inference.
GivenState(level, inferences) ==
  LET base == StateForLevel(level)
      selected == InferenceForState(inferences, base)
  IN CASE base = "INCONCLUSIVE" /\ selected.state = "HEALTHY" -> "OBSERVATION"
       [] base = "INCONCLUSIVE" /\ selected.state \notin {"", "HEALTHY"} -> selected.state
       [] OTHER -> base

Ranked(x, S) == x \in S /\ \A y \in S : InferenceRank[y] <= InferenceRank[x]

\* No two states of an inference have the same rank: the best is the only one.
LEMMA RanksDiffer ==
  /\ \A x \in States : InferenceRank[x] \in Nat
  /\ \A x, y \in States : InferenceRank[x] = InferenceRank[y] => x = y
  BY DEF States, InferenceRank

LEMMA BestIsRanked ==
  ASSUME NEW s, Drawn(s), NEW x, x = InferenceForState(s, "INCONCLUSIVE").state
  PROVE Ranked(x, StatesOf(s)) \/ (x = "" /\ \A z : ~Ranked(z, StatesOf(s)))
<1> DEFINE best(i) == \A j \in DOMAIN s : InferenceRank[s[j].state] <= InferenceRank[s[i].state]
           fit == {i \in DOMAIN s : best(i)}
           chosen == IF fit = {} THEN Inference("", "", 0) ELSE s[Min(fit)]
<1>1. InferenceForState(s, "INCONCLUSIVE") = chosen BY DEF InferenceForState
<1>2. Len(s) \in Nat /\ DOMAIN s = 1..Len(s) BY ListDomain DEF Drawn
<1>3. \A i \in DOMAIN s : best(i) <=> Ranked(s[i].state, StatesOf(s)) BY DEF Ranked, StatesOf
<1>4. CASE fit = {}
  <2>3. Inference("", "", 0).state = "" BY DEF Inference
  <2>4. chosen = Inference("", "", 0) BY <1>4
  <2>1. x = ""
    <3> HIDE DEF chosen
    <3> QED BY <1>1, <2>3, <2>4
  <2>2. ASSUME NEW z, Ranked(z, StatesOf(s)) PROVE FALSE
    <3>1. PICK i \in DOMAIN s : z = s[i].state BY <2>2 DEF Ranked, StatesOf
    <3> QED BY <1>3, <1>4, <2>2, <3>1
  <2> QED BY <2>1, <2>2
<1>5. CASE fit # {}
  <2>1. fit \subseteq Nat BY <1>2
  <2>2. x = s[Min(fit)].state BY <1>1, <1>5
  <2>3. Min(fit) \in fit
    <3> HIDE DEF fit
    <3> QED BY <1>5, <2>1, LeastIsThere
  <2>4. \A i \in fit : i \in DOMAIN s /\ Ranked(s[i].state, StatesOf(s)) BY <1>3
  <2> HIDE DEF fit
  <2>5. PICK m : m = Min(fit) OBVIOUS
  <2>6. Ranked(s[m].state, StatesOf(s)) BY <2>3, <2>4, <2>5
  <2>7. x = s[m].state BY <2>2, <2>5
  <2> QED BY <2>6, <2>7
<1> QED BY <1>4, <1>5

\* So the state depends on the states of the inferences, not on their order.
LEMMA SameState ==
  ASSUME NEW s, Drawn(s), NEW t, Drawn(t), StatesOf(s) = StatesOf(t), NEW level
  PROVE GivenState(level, s) = GivenState(level, t)
<1> DEFINE base == StateForLevel(level)
           x == InferenceForState(s, base).state
           y == InferenceForState(t, base).state
<1>1. /\ GivenState(level, s) = CASE base = "INCONCLUSIVE" /\ x = "HEALTHY" -> "OBSERVATION"
                                  [] base = "INCONCLUSIVE" /\ x \notin {"", "HEALTHY"} -> x [] OTHER -> base
      /\ GivenState(level, t) = CASE base = "INCONCLUSIVE" /\ y = "HEALTHY" -> "OBSERVATION"
                                  [] base = "INCONCLUSIVE" /\ y \notin {"", "HEALTHY"} -> y [] OTHER -> base
  BY DEF GivenState
<1>2. CASE base # "INCONCLUSIVE"
  <2> HIDE DEF base, x, y
  <2> QED BY <1>1, <1>2
<1>3. CASE base = "INCONCLUSIVE"
  <2> HIDE DEF base
  <2>1. Ranked(x, StatesOf(s)) \/ (x = "" /\ \A z : ~Ranked(z, StatesOf(s))) BY <1>3, BestIsRanked
  <2>2. Ranked(y, StatesOf(t)) \/ (y = "" /\ \A z : ~Ranked(z, StatesOf(t))) BY <1>3, BestIsRanked
  <2>3. \A z \in StatesOf(s) : z \in States BY DEF StatesOf, Drawn
  <2>4. ASSUME Ranked(x, StatesOf(s)), Ranked(y, StatesOf(s)) PROVE x = y
    <3>1. x \in States /\ y \in States BY <2>3, <2>4 DEF Ranked
    <3>2. InferenceRank[x] <= InferenceRank[y] /\ InferenceRank[y] <= InferenceRank[x] BY <2>4 DEF Ranked
    <3> HIDE DEF x, y
    <3>3. InferenceRank[x] = InferenceRank[y] BY <3>1, <3>2, RanksDiffer
    <3> QED BY <3>1, <3>3, RanksDiffer
  <2> HIDE DEF x, y
  <2>5. x = y BY <2>1, <2>2, <2>4
  <2> QED BY <1>1, <2>5
<1> QED BY <1>2, <1>3

\* What the last of the rules says of a provider nobody knows.
UnknownOf(evidence, target) ==
  IF Types(evidence) \cap KnownProvider # {} \/ target = "" THEN ""
  ELSE IF Types(evidence) \cap OrphanSignals # {} THEN "HIGH" ELSE "MEDIUM"

Original(evidence) == Those(evidence, LAMBDA e : e.source # "INFERENCE")

\* The level is read off the evidence and the verification.
LEMMA ClassifyReads ==
  ASSUME NEW a, NEW b, a.evidence = b.evidence, a.verification = b.verification PROVE Classify(a) = Classify(b)
<1>1. Rules(a) = Rules(b) BY DEF Rules
<1> QED BY <1>1 DEF Classify

\* What Process writes, and what it leaves alone.
Written(p, a, walk) ==
  /\ p.evidence = Original(a.evidence) \o Once(Draws(a, walk).evidence)
  /\ p.inferences = Draws(a, walk).inferences
  /\ p.mitigation = MitigationOf(Counted(p.evidence)) /\ p.confidence = Confidence(Counted(p.evidence))
  /\ p.level = Classify(p) /\ p.state = GivenState(p.level, p.inferences)
  /\ p.unknown = UnknownOf(p.evidence, p.target)
  /\ p.http = a.http /\ p.chains = a.chains /\ p.tested = a.tested /\ p.profile = a.profile
  /\ p.target = a.target /\ p.verification = a.verification /\ "target" \in DOMAIN p

LEMMA ProcessWrites ==
  ASSUME NEW a, Fields \subseteq DOMAIN a, "target" \in DOMAIN a, a.unknown = "", NEW walk, NEW p,
         p = Process(a, walk)
  PROVE Written(p, a, walk)
<1> DEFINE said == Original(a.evidence) \o Once(Draws(a, walk).evidence)
           drawn == Draws(a, walk).inferences
           inferred == Infer(a, walk)
           scored == CalculateScores(inferred)
           judged == Reclassify(scored)
           Kept3(x) == /\ DOMAIN x = DOMAIN a /\ x.evidence = said /\ x.inferences = drawn
                       /\ x.http = a.http /\ x.chains = a.chains /\ x.tested = a.tested /\ x.profile = a.profile
                       /\ x.target = a.target /\ x.verification = a.verification /\ x.unknown = ""
<1>1. Kept3(inferred)
  <2>1. inferred = [a EXCEPT !.evidence = said, !.inferences = drawn] BY InferDraws DEF Original
  <2> HIDE DEF inferred, said, drawn
  <2> QED BY <2>1 DEF Fields
<1>2. Kept3(scored) /\ scored.mitigation = MitigationOf(Counted(said)) /\ scored.confidence = Confidence(Counted(said))
  <2>1. scored = [inferred EXCEPT !.risk = Risk(Counted(inferred.evidence)), !.mitigation = MitigationOf(Counted(inferred.evidence)),
                                  !.confidence = Confidence(Counted(inferred.evidence))]
    BY DEF CalculateScores
  <2> HIDE DEF inferred, said, drawn, scored
  <2> QED BY <1>1, <2>1 DEF Fields
<1>3. /\ Kept3(judged) /\ judged.mitigation = scored.mitigation /\ judged.confidence = scored.confidence
      /\ judged.level = Classify(scored) /\ judged.state = GivenState(judged.level, judged.inferences)
  <2> DEFINE level == Classify(scored)
             at == [scored EXCEPT !.level = level]
             selected == InferenceForState(drawn, StateForLevel(level))
             impact == IF GivenState(level, drawn) = "CONFIRMED" /\ selected.impact = 0 THEN 100 ELSE selected.impact
  <2>1. judged = UpdateDecision(at) BY DEF Reclassify
  <2> HIDE DEF scored, said, drawn, judged, level
  <2>2. /\ Kept3(at) /\ at.mitigation = scored.mitigation /\ at.confidence = scored.confidence /\ at.level = level
    BY <1>2 DEF Fields
  <2>3. judged = [at EXCEPT !.state = GivenState(level, drawn), !.rule = selected.rule, !.impact = impact]
    <3> HIDE DEF at
    <3> QED BY <2>1, <2>2 DEF UpdateDecision, GivenState
  <2> HIDE DEF at, selected, impact
  <2> QED BY <2>2, <2>3 DEF Fields, level
<1>5. p = IF UnknownOf(said, a.target) = "" THEN judged ELSE [judged EXCEPT !.unknown = UnknownOf(said, a.target)]
  <2>1. p = DetectUnknownProvider(judged) BY DEF Process
  <2> HIDE DEF said, drawn, judged, scored, inferred
  <2> QED BY <1>3, <2>1 DEF DetectUnknownProvider, UnknownOf
<1>4. Classify(scored) = Classify(p)
  <2>1. p.evidence = said /\ p.verification = a.verification
    <3> HIDE DEF said, drawn, judged, scored, inferred
    <3> QED BY <1>3, <1>5 DEF Fields
  <2> HIDE DEF said, drawn, scored, inferred
  <2> QED BY <1>2, <2>1, ClassifyReads
<1>6. /\ Kept3([judged EXCEPT !.unknown = ""]) /\ p.unknown = UnknownOf(said, a.target)
      /\ p.evidence = said /\ p.inferences = drawn /\ p.http = a.http /\ p.chains = a.chains /\ p.tested = a.tested
      /\ p.profile = a.profile /\ p.target = a.target /\ p.verification = a.verification /\ DOMAIN p = DOMAIN a
      /\ p.mitigation = judged.mitigation /\ p.confidence = judged.confidence /\ p.level = judged.level /\ p.state = judged.state
  <2> HIDE DEF said, drawn, judged, scored, inferred
  <2> QED BY <1>3, <1>5, ZenonT(60) DEF Fields
<1> HIDE DEF said, drawn, judged, scored, inferred
<1> QED BY <1>2, <1>3, <1>4, <1>6, ZenonT(60) DEF said, drawn, Written

\* An analysis that the rules would judge again as it is.
Settled(a) ==
  /\ "target" \in DOMAIN a /\ Sound(a, {})
  /\ \A walk \in BothWays : Original(a.evidence) \o Once(Draws(a, walk).evidence) = a.evidence
  /\ \E walk \in BothWays : a.inferences = Draws(a, walk).inferences
  /\ a.mitigation = MitigationOf(Counted(a.evidence)) /\ a.confidence = Confidence(Counted(a.evidence))
  /\ a.level = Classify(a) /\ a.state = GivenState(a.level, a.inferences)
  /\ a.unknown = UnknownOf(a.evidence, a.target)

\* The rules settle what they judge.
LEMMA ProcessSettles ==
  ASSUME NEW a, Sound(a, {}), "target" \in DOMAIN a, a.unknown = "", NEW walk \in BothWays
  PROVE Settled(Process(a, walk))
<1> DEFINE c == Original(a.evidence)
           F == {}
<1>1. PICK p : p = Process(a, walk) OBVIOUS
<1>2. /\ p.evidence = c \o Once(Draws(a, walk).evidence)
      /\ p.inferences = Draws(a, walk).inferences
      /\ p.mitigation = MitigationOf(Counted(p.evidence)) /\ p.confidence = Confidence(Counted(p.evidence))
      /\ p.level = Classify(p) /\ p.state = GivenState(p.level, p.inferences)
      /\ p.unknown = UnknownOf(p.evidence, p.target)
      /\ p.http = a.http /\ p.chains = a.chains /\ p.tested = a.tested /\ "target" \in DOMAIN p
  <2>1. Fields \subseteq DOMAIN a BY DEF Sound
  <2>2. Written(p, a, walk) BY <1>1, <2>1, ProcessWrites
  <2> HIDE DEF c
  <2> QED BY <2>2 DEF Written, c
<1>3. Sound(p, F)
  <2>1. F \subseteq Grave /\ Sound(a, F) OBVIOUS
  <2> HIDE DEF F
  <2> QED BY <1>1, <2>1, ProcessSound
<1>4. IsList(c) /\ \A i \in DOMAIN c : c[i].source # "INFERENCE"
  <2>1. IsList(a.evidence) BY DEF Sound, Free
  <2> QED BY <2>1, OriginalsKept DEF Original
<1> HIDE DEF c
<1>5. Original(p.evidence) = c
  <2>1. Inferred(Once(Draws(a, walk).evidence)) BY DrawsPlainly, OnceInferred
  <2> QED BY <1>2, <1>4, <2>1, InferredAgain DEF Original
<1>6. ASSUME NEW way \in BothWays PROVE Original(p.evidence) \o Once(Draws(p, way).evidence) = p.evidence
  <2>1. Draws(p, way) = Draws(a, way) BY <1>2, DrawsRead
  <2>2. Draws(a, way).evidence = Draws(a, walk).evidence BY DrawsAgree
  <2> QED BY <1>2, <1>5, <2>1, <2>2
<1>7. p.inferences = Draws(p, walk).inferences BY <1>2, DrawsRead
<1>8. Settled(p) BY <1>2, <1>3, <1>6, <1>7 DEF Settled, F
<1> QED BY <1>1, <1>8

\* What the percentage is read off.
LEMMA CalculateReads ==
  ASSUME NEW a, NEW b, a.evidence = b.evidence, a.tested = b.tested, a.profile = b.profile, a.level = b.level,
         a.mitigation = b.mitigation, a.confidence = b.confidence, a.unknown = b.unknown
  PROVE Calculate(a) = Calculate(b)
<1> DEFINE coverage(x) == CalculateCoverage(x.tested, x.profile)
           knowledge(x) == CalculateKnowledge(x.evidence)
           healthy(x) == AtMost(coverage(x), AtMost(999, 800 + x.mitigation * 2))
           unknown(x) == coverage(x) >= 800 /\ knowledge(x) <= 300 /\ x.unknown # ""
           rest(x) == AtMost(coverage(x), AtMost(999, (x.confidence * Multiplier(x.evidence)) \div 10))
<1>1. \A x : Calculate(x) = CASE x.level \in {"TAKEN_OVER", "ZONE_CONTROL_CONFIRMED"} -> 1000
                             [] x.level = "INSUFFICIENT_EVIDENCE" -> 0
                             [] x.level = "HEALTHY" -> IF unknown(x) THEN AtMost(450, healthy(x)) ELSE healthy(x)
                             [] OTHER -> rest(x)
  BY DEF Calculate
<1>2. coverage(a) = coverage(b) /\ knowledge(a) = knowledge(b) OBVIOUS
<1>3. healthy(a) = healthy(b) /\ (unknown(a) <=> unknown(b)) /\ rest(a) = rest(b)
  <2> HIDE DEF coverage, knowledge
  <2> QED BY <1>2
<1> HIDE DEF healthy, unknown, rest
<1> QED BY <1>1, <1>3

\* Judging it again, the chains walked either way, gives the same verdict.
LEMMA ReplayRepeats ==
  ASSUME NEW a, Settled(a), NEW walk \in BothWays, a.percent = Calculate(a)
  PROVE Verdict(Replay(a, walk)) = Verdict(a)
<1>1. PICK b : b = [a EXCEPT !.unknown = ""] OBVIOUS
<1>2. PICK p : p = Process(b, walk) OBVIOUS
<1>3. Fields \subseteq DOMAIN a /\ "target" \in DOMAIN a BY DEF Settled, Sound
<1>4. /\ Fields \subseteq DOMAIN b /\ "target" \in DOMAIN b /\ b.unknown = "" /\ b.evidence = a.evidence
      /\ b.http = a.http /\ b.chains = a.chains /\ b.tested = a.tested /\ b.profile = a.profile /\ b.target = a.target
      /\ b.verification = a.verification
  BY <1>1, <1>3 DEF Fields
<1>5. /\ p.evidence = Original(b.evidence) \o Once(Draws(b, walk).evidence)
      /\ p.inferences = Draws(b, walk).inferences
      /\ p.mitigation = MitigationOf(Counted(p.evidence)) /\ p.confidence = Confidence(Counted(p.evidence))
      /\ p.level = Classify(p) /\ p.state = GivenState(p.level, p.inferences)
      /\ p.unknown = UnknownOf(p.evidence, p.target)
      /\ p.tested = b.tested /\ p.profile = b.profile
      /\ p.target = b.target /\ p.verification = b.verification
  <2>1. Written(p, b, walk) BY <1>2, <1>4, ProcessWrites
  <2> QED BY <2>1 DEF Written
<1>6. Draws(b, walk) = Draws(a, walk) BY <1>4, DrawsRead
<1>7. p.evidence = a.evidence BY <1>4, <1>5, <1>6 DEF Settled
<1>8. p.mitigation = a.mitigation /\ p.confidence = a.confidence BY <1>5, <1>7 DEF Settled
<1>9. p.level = a.level
  <2>1. Classify(p) = Classify(a) BY <1>4, <1>5, <1>7, ClassifyReads
  <2> QED BY <1>5, <2>1 DEF Settled
<1>10. p.state = a.state
  <2>1. PICK way \in BothWays : a.inferences = Draws(a, way).inferences BY DEF Settled
  <2>2. p.inferences = Draws(a, walk).inferences BY <1>5, <1>6
  <2>3. StatesOf(p.inferences) = StatesOf(a.inferences) BY <2>1, <2>2, DrawsAgree
  <2>4. Drawn(p.inferences) /\ Drawn(a.inferences) BY <2>1, <2>2, DrawsPlainly DEF Plainly
  <2>5. GivenState(a.level, p.inferences) = GivenState(a.level, a.inferences) BY <2>3, <2>4, SameState
  <2> QED BY <1>5, <1>9, <2>5 DEF Settled
<1>11. p.unknown = a.unknown BY <1>4, <1>5, <1>7 DEF Settled
<1>12. Calculate(p) = Calculate(a)
  <2>1. p.tested = a.tested /\ p.profile = a.profile BY <1>4, <1>5
  <2> QED BY <1>7, <1>8, <1>9, <1>11, <2>1, CalculateReads
<1>13. Replay(a, walk) = [p EXCEPT !.percent = Calculate(p)] BY <1>1, <1>2 DEF Replay, Concluded
<1>14. Sound(p, {})
  <2> DEFINE F == {}
  <2>1. Sound(a, F) /\ F \subseteq Grave BY DEF Settled
  <2>2. "unknown" \in Fields \ Scored BY DEF Fields, Scored
  <2> HIDE DEF F
  <2>3. Sound(b, F) BY <1>1, <2>1, <2>2, SoundWith
  <2>4. Sound(p, F) BY <1>2, <2>1, <2>3, ProcessSound
  <2> QED BY <2>4 DEF F
<1>15. Verdict(Replay(a, walk)) = [level |-> p.level, state |-> p.state, percent |-> Calculate(p)]
  <2>1. {"level", "state", "percent"} \subseteq DOMAIN p BY <1>14 DEF Sound, Fields
  <2> QED BY <1>13, <2>1 DEF Verdict
<1> QED BY <1>9, <1>10, <1>12, <1>15 DEF Verdict

\* What does not change anything the rules read or write leaves it settled.
LEMMA SettledElse ==
  ASSUME NEW a, Settled(a), NEW b, Sound(b, {}), "target" \in DOMAIN b,
         b.evidence = a.evidence, b.http = a.http, b.chains = a.chains,
         "SEC_HEADERS" \in b.tested <=> "SEC_HEADERS" \in a.tested,
         b.inferences = a.inferences, b.mitigation = a.mitigation, b.confidence = a.confidence,
         b.level = Classify(b), b.state = GivenState(b.level, b.inferences), b.unknown = a.unknown, b.target = a.target
  PROVE Settled(b)
<1>1. \A walk : Draws(b, walk) = Draws(a, walk) BY DrawsRead
<1> QED BY <1>1 DEF Settled

\* What the cloud verifiers add, after the rules.
Cloudy(s) == IsList(s) /\ \A i \in DOMAIN s : s[i].type \in CloudEvidence

LEMMA CloudyNone == Cloudy(<<>>)
  BY EmptyIsAList DEF Cloudy

LEMMA CloudyOne == ASSUME NEW e, e.type \in CloudEvidence PROVE Cloudy(<<e>>)
<1>1. <<e>> \in Seq({e}) OBVIOUS
<1>2. IsList(<<e>>) BY <1>1, ListOfASet
<1>3. \A i \in DOMAIN <<e>> : <<e>>[i] = e OBVIOUS
<1> QED BY <1>2, <1>3 DEF Cloudy

LEMMA CloudyJoin == ASSUME NEW s, NEW t, Cloudy(s), Cloudy(t) PROVE Cloudy(s \o t)
<1>1. IsList(s) /\ IsList(t) BY DEF Cloudy
<1>2. IsList(s \o t) /\ ToSet(s \o t) \subseteq ToSet(s) \cup ToSet(t) BY <1>1, ListJoin
<1>3. \A x \in ToSet(s) \cup ToSet(t) : x.type \in CloudEvidence BY DEF Cloudy, ToSet
<1>4. \A i \in DOMAIN (s \o t) : (s \o t)[i] \in ToSet(s \o t) BY DEF ToSet
<1> QED BY <1>2, <1>3, <1>4 DEF Cloudy

LEMMA CloudyIf == ASSUME NEW holds, NEW x, Cloudy(x) PROVE Cloudy(If(holds, x))
  BY CloudyNone DEF If

\* A verifier adds evidence of buckets, or none.
LEMMA BucketIsCloudy == ASSUME NEW w PROVE Cloudy(BucketEvidence(w))
<1> DEFINE b == w.bucket
           at(type, weight) == Evidence(type, b.verifier, weight, 100)
           private == CASE b.verifier = "AWS S3" -> "CLOUD_S3_PRIVATE" [] b.verifier = "Azure Blob Storage" -> "CLOUD_AZURE_BLOB_PRIVATE"
                        [] OTHER -> "CLOUD_GCS_PRIVATE"
           listable == CASE b.verifier = "AWS S3" -> "CLOUD_S3_LISTABLE" [] b.verifier = "Azure Blob Storage" -> "CLOUD_AZURE_BLOB_LISTABLE"
                         [] OTHER -> "CLOUD_GCS_LISTABLE"
           one == <<[at(private, 50) EXCEPT !.negative = TRUE]>>
           list == b.reached /\ b.state = "listable"
           acl == b.verifier = "AWS S3" /\ b.acl
           two == If(list, <<at(listable, 70)>>) \o If(acl, <<at("CLOUD_S3_WRITABLE", 90)>>)
<1>1. private \in CloudEvidence /\ listable \in CloudEvidence /\ "CLOUD_S3_WRITABLE" \in CloudEvidence
  BY DEF CloudEvidence
<1> HIDE DEF private, listable
<1>2. [at(private, 50) EXCEPT !.negative = TRUE].type = private BY DEF Evidence
<1>3. Cloudy(one)
  <2> DEFINE e == [at(private, 50) EXCEPT !.negative = TRUE]
  <2>1. e.type \in CloudEvidence BY <1>1, <1>2
  <2> HIDE DEF e
  <2>2. Cloudy(<<e>>) BY <2>1, CloudyOne
  <2>3. QED BY <2>2 DEF e
<1>4. at(listable, 70).type = listable /\ at("CLOUD_S3_WRITABLE", 90).type = "CLOUD_S3_WRITABLE" BY DEF Evidence
<1>5. Cloudy(two)
  <2> HIDE DEF list, acl, at
  <2>1. Cloudy(<<at(listable, 70)>>) /\ Cloudy(<<at("CLOUD_S3_WRITABLE", 90)>>) BY <1>1, <1>4, CloudyOne
  <2>2. Cloudy(If(list, <<at(listable, 70)>>)) /\ Cloudy(If(acl, <<at("CLOUD_S3_WRITABLE", 90)>>)) BY <2>1, CloudyIf
  <2> QED BY <2>2, CloudyJoin
<1>6. BucketEvidence(w) = CASE b.reached /\ b.state = "missing" -> <<>> [] b.reached /\ b.state = "private" -> one [] OTHER -> two
  BY DEF BucketEvidence, private, listable
<1> DEFINE x == b.reached /\ b.state = "missing"
           y == b.reached /\ b.state = "private"
<1>7. BucketEvidence(w) = CASE x -> <<>> [] y -> one [] OTHER -> two BY <1>6
<1> HIDE DEF one, two, x, y
<1>8. BucketEvidence(w) \in {<<>>, one, two} BY <1>7
<1> QED BY <1>3, <1>5, <1>8, CloudyNone

\* A list that says nothing of a bucket was not added to by one.
LEMMA NothingOfBuckets ==
  ASSUME NEW s, IsList(s), NEW t, Cloudy(t), Types(s \o t) \cap CloudEvidence = {} PROVE s \o t = s
<1>1. /\ Len(s) \in Nat /\ DOMAIN s = 1..Len(s) /\ s \in Seq(ToSet(s))
      /\ Len(t) \in Nat /\ DOMAIN t = 1..Len(t) /\ t \in Seq(ToSet(t))
  BY ListDomain DEF IsList, Cloudy
<1>2. Len(t) = 0
  <2>1. SUFFICES ASSUME Len(t) # 0 PROVE FALSE OBVIOUS
  <2>2. 1 \in DOMAIN t BY <1>1, <2>1
  <2>3. 1 + Len(s) \in DOMAIN (s \o t) /\ (s \o t)[1 + Len(s)] = t[1] BY <1>1, <2>1
  <2>4. t[1].type \in CloudEvidence BY <2>2 DEF Cloudy
  <2>5. (s \o t)[1 + Len(s)].type \in Types(s \o t) BY <2>3, Zenon DEF Types
  <2> QED BY <2>3, <2>4, <2>5
<1>3. t = <<>> BY <1>1, <1>2
<1> QED BY <1>1, <1>3

\* What the verifiers leave alone.
Alike(c, s) ==
  /\ "target" \in DOMAIN c /\ c.evidence = s.evidence /\ c.http = s.http /\ c.chains = s.chains
  /\ "SEC_HEADERS" \in c.tested <=> "SEC_HEADERS" \in s.tested
  /\ c.inferences = s.inferences /\ c.mitigation = s.mitigation /\ c.confidence = s.confidence
  /\ c.level = s.level /\ c.state = s.state /\ c.unknown = s.unknown /\ c.target = s.target
  /\ c.verification = s.verification

LEMMA TestedAlike ==
  ASSUME NEW s, Fields \subseteq DOMAIN s, "target" \in DOMAIN s PROVE Alike(Tested(s, "CLOUD"), s)
<1>1. "SEC_HEADERS" \in s.tested \cup {"CLOUD"} <=> "SEC_HEADERS" \in s.tested OBVIOUS
<1> QED BY <1>1 DEF Tested, Alike, Fields

\* A verifier that adds nothing leaves all of it alone.
LEMMA CloudAlike ==
  ASSUME NEW s, Sound(s, {}), "target" \in DOMAIN s, NEW w, NEW c, c \in {s, Tested(s, "CLOUD"), RunCloud(w, s)},
         Types(c.evidence) \cap CloudEvidence = {}
  PROVE Alike(c, s)
<1>1. Fields \subseteq DOMAIN s /\ IsList(s.evidence) BY DEF Sound, Free
<1>2. Alike(s, s) BY DEF Alike
<1>3. CASE c = RunCloud(w, s)
  <2> DEFINE told == Collected(s, BucketEvidence(w))
  <2>1. c \in {Tested(told, "CLOUD"), Tested(s, "CLOUD")} BY <1>3 DEF RunCloud
  <2>2. CASE c = Tested(told, "CLOUD")
    <3>1. DOMAIN told = DOMAIN s BY DEF Collected
    <3>2. "target" \in DOMAIN told /\ Fields \subseteq DOMAIN told BY <1>1, <3>1
    <3>3. told.evidence = s.evidence \o BucketEvidence(w) BY <1>1 DEF Collected, Fields
    <3>4. /\ told.http = s.http /\ told.chains = s.chains /\ told.tested = s.tested
          /\ told.inferences = s.inferences /\ told.mitigation = s.mitigation /\ told.confidence = s.confidence
          /\ told.level = s.level /\ told.state = s.state /\ told.unknown = s.unknown /\ told.target = s.target
          /\ told.verification = s.verification
      BY <1>1 DEF Collected, Fields
    <3> HIDE DEF told
    <3>5. Alike(c, told) BY <2>2, <3>2, TestedAlike
    <3>6. told.evidence = s.evidence
      <4>1. Types(s.evidence \o BucketEvidence(w)) \cap CloudEvidence = {} BY <3>3, <3>5 DEF Alike
      <4> QED BY <1>1, <3>3, <4>1, BucketIsCloudy, NothingOfBuckets
    <3> QED BY <3>4, <3>5, <3>6 DEF Alike
  <2>3. CASE c = Tested(s, "CLOUD") BY <1>1, <2>3, TestedAlike
  <2> QED BY <2>1, <2>2, <2>3
<1> QED BY <1>1, <1>2, <1>3, TestedAlike

\* So does the verification that judges again: it is settled still.
LEMMA VerifiedSettles ==
  ASSUME NEW a, Settled(a), NEW w, NEW cut, NEW b, b = AfterVerifiers(w, a, cut),
         Types(b.evidence) \cap CloudEvidence = {}
  PROVE Settled(b)
<1> DEFINE cloud(so) == IF ~CheckCloud THEN so ELSE IF cut THEN Tested(so, "CLOUD") ELSE RunCloud(w, so)
           won == ~cut /\ Winners(w, a) # {}
           verified == WithVerification(a)
           F == {}
<1>1. b = IF won THEN Reclassify(cloud(verified)) ELSE cloud(a) BY DEF AfterVerifiers
<1>2. Sound(a, F) /\ F \subseteq Grave /\ "target" \in DOMAIN a BY DEF Settled
<1>3. /\ Sound(verified, F) /\ "target" \in DOMAIN verified /\ verified.evidence = a.evidence /\ verified.http = a.http
      /\ verified.chains = a.chains /\ verified.tested = a.tested /\ verified.inferences = a.inferences
      /\ verified.mitigation = a.mitigation /\ verified.confidence = a.confidence
      /\ verified.unknown = a.unknown /\ verified.target = a.target
  BY <1>2 DEF Sound, Fields, WithVerification
<1>4. \A so : cloud(so) \in {so, Tested(so, "CLOUD"), RunCloud(w, so)} OBVIOUS
<1>5. Sound(b, F)
  <2> HIDE DEF F
  <2> QED BY <1>2, VerifiedSound
<1> HIDE DEF cloud, won, verified
<1>6. CASE ~won
  <2>1. b = cloud(a) BY <1>1, <1>6
  <2>2. Alike(b, a) BY <1>2, <1>4, <2>1, CloudAlike
  <2>3. Classify(b) = Classify(a) BY <2>2, ClassifyReads DEF Alike
  <2>4. b.level = Classify(b) /\ b.state = GivenState(b.level, b.inferences) BY <2>2, <2>3 DEF Alike, Settled
  <2> QED BY <1>5, <2>2, <2>4, SettledElse DEF Alike
<1>7. CASE won
  <2> DEFINE c == cloud(verified)
             level == Classify(c)
             at == [c EXCEPT !.level = level]
             selected == InferenceForState(c.inferences, StateForLevel(level))
             impact == IF GivenState(level, c.inferences) = "CONFIRMED" /\ selected.impact = 0 THEN 100 ELSE selected.impact
  <2>1. b = UpdateDecision(at) BY <1>1, <1>7 DEF Reclassify
  <2>2. c \in {verified, Tested(verified, "CLOUD"), RunCloud(w, verified)} BY <1>4
  <2>3. Sound(c, F) /\ "target" \in DOMAIN c
    <3>1. Sound(Tested(verified, "CLOUD"), F) /\ Sound(RunCloud(w, verified), F)
      <4> HIDE DEF F
      <4> QED BY <1>2, <1>3, CloudSound
    <3>2. "target" \in DOMAIN Tested(verified, "CLOUD") /\ "target" \in DOMAIN RunCloud(w, verified)
      BY <1>3 DEF Tested, RunCloud, Collected
    <3> HIDE DEF c
    <3> QED BY <1>3, <2>2, <3>1, <3>2
  <2> HIDE DEF c, level
  <2>4. /\ DOMAIN at = DOMAIN c /\ at.level = level /\ at.evidence = c.evidence /\ at.inferences = c.inferences
        /\ at.http = c.http /\ at.chains = c.chains /\ at.tested = c.tested /\ at.mitigation = c.mitigation
        /\ at.confidence = c.confidence /\ at.unknown = c.unknown /\ at.target = c.target /\ at.verification = c.verification
    BY <2>3 DEF Sound, Fields
  <2>5. b = [at EXCEPT !.state = GivenState(level, c.inferences), !.rule = selected.rule, !.impact = impact]
    <3> HIDE DEF at
    <3> QED BY <2>1, <2>4 DEF UpdateDecision, GivenState
  <2> HIDE DEF at, selected, impact
  <2>6. /\ "target" \in DOMAIN b /\ b.evidence = c.evidence /\ b.http = c.http /\ b.chains = c.chains /\ b.tested = c.tested
        /\ b.inferences = c.inferences /\ b.mitigation = c.mitigation /\ b.confidence = c.confidence
        /\ b.level = level /\ b.state = GivenState(level, c.inferences) /\ b.unknown = c.unknown /\ b.target = c.target
        /\ b.verification = c.verification
    BY <2>3, <2>4, <2>5 DEF Sound, Fields
  <2>7. Alike(c, verified) BY <1>3, <2>2, <2>6, CloudAlike
  <2>8. b.level = Classify(b) BY <2>6, ClassifyReads DEF level
  <2> QED BY <1>3, <1>5, <2>6, <2>7, <2>8, SettledElse DEF Alike
<1> QED BY <1>6, <1>7

-----------------------------------------------------------------------------
(* The invariant of the replay.                                             *)

\* What is found, from the pipeline to the observation: not judged yet; settled
\* by the rules; settled after the verifiers, unless one of them added to it.
Repeats(a) == Types(a.evidence) \cap CloudEvidence = {} => Settled(a)
Decided(a) == Repeats(a) /\ a.percent = Calculate(a)
ReplayInv ==
  /\ pc \in {"profile", "collect", "judge"} => Unjudged(analysis)
  /\ pc = "verify" => Settled(analysis)
  /\ pc = "decide" => Repeats(analysis)
  /\ pc \in {"save", "observe"} => Decided(analysis)
  /\ observed # None => Decided(observed)

\* A step that leaves the analysis as it is.
LEMMA ReplayStays ==
  ASSUME ReplayInv, UNCHANGED <<analysis, observed>>,
         pc' \in {"collect", "judge"} => pc \in {"profile", "collect",
                                                 "judge"}, pc' \in {"save", "observe"} => pc \in {"save", "observe"},
         pc' \in {"profile", "verify", "decide"} => pc' = pc
  PROVE ReplayInv'
<1>1. PICK a : a = analysis OBVIOUS
<1>2. PICK o : o = observed OBVIOUS
<1>3. analysis' = a /\ observed' = o BY <1>1, <1>2
<1>4. /\ pc \in {"profile", "collect", "judge"} => Unjudged(a)
      /\ pc = "verify" => Settled(a)
      /\ pc = "decide" => Repeats(a)
      /\ pc \in {"save", "observe"} => Decided(a)
      /\ o # None => Decided(o)
  BY <1>1, <1>2 DEF ReplayInv
<1>5. pc' \in {"profile", "collect", "judge"} => Unjudged(analysis') BY <1>3, <1>4
<1>6. pc' = "verify" => Settled(analysis') BY <1>3, <1>4
<1>7. pc' = "decide" => Repeats(analysis') BY <1>3, <1>4
<1>8. pc' \in {"save", "observe"} => Decided(analysis') BY <1>3, <1>4
<1>9. observed' # None => Decided(observed') BY <1>3, <1>4
<1> QED BY <1>5, <1>6, <1>7, <1>8, <1>9 DEF ReplayInv

\* The steps keep it.
LEMMA ReplayAtFirst == ASSUME Init PROVE ReplayInv
<1>1. pc = "profile" /\ observed = None /\ analysis = NewAnalysis(Worlds[world]) BY DEF Init
<1>2. PICK w : w = Worlds[world] OBVIOUS
<1>3. Unjudged(NewAnalysis(w)) BY DEF NewAnalysis, Unjudged, Fields
<1> QED BY <1>1, <1>2, <1>3 DEF ReplayInv

LEMMA CollectKeepsReplay == ASSUME TruthInv, ReplayInv, Collect PROVE ReplayInv'
<1>1. pc = "collect" /\ observed' = observed BY DEF Collect
<1>2. PICK a : a = analysis OBVIOUS
<1>3. PICK name : name = Pipeline(order)[step] OBVIOUS
<1>4. Unjudged(a) BY <1>1, <1>2 DEF ReplayInv
<1>5. name \in Steps
  <2>1. order \in Orders /\ step \in 1..Len(Pipeline(order)) BY <1>1 DEF TruthInv, InPlace
  <2>2. Pipeline(order) \in Seq(Steps) BY <2>1, PipelineIsMadeOfSteps
  <2> QED BY <1>3, <2>1, <2>2
<1>6. CASE pc' \in {"collect", "judge"} /\ \E w : analysis' = Collector(Pipeline(order)[step], w, analysis)
  <2>1. PICK w : analysis' = Collector(name, w, a) BY <1>2, <1>3, <1>6
  <2>2. Unjudged(analysis') BY <1>4, <1>5, <2>1, CollectorUnjudged
  <2>3. observed' # None => Decided(observed') BY <1>1 DEF ReplayInv
  <2> QED BY <1>6, <2>2, <2>3 DEF ReplayInv
<1>7. CASE pc' = "done" /\ UNCHANGED analysis BY <1>1, <1>7, ReplayStays
<1> QED BY <1>6, <1>7 DEF Collect, Return

LEMMA JudgeKeepsReplay == ASSUME Shaped, ReplayInv, Judge PROVE ReplayInv'
<1>1. pc = "judge" /\ observed' = observed BY DEF Judge
<1>2. CASE pc' = "done" /\ UNCHANGED analysis BY <1>1, <1>2, ReplayStays
<1>3. CASE pc' = "verify" /\ \E chains \in BothWays : analysis' = Process(analysis, chains)
  <2>1. PICK a : a = analysis OBVIOUS
  <2>2. PICK chains \in BothWays : analysis' = Process(a, chains) BY <1>3, <2>1
  <2>3. Unjudged(a) BY <1>1, <2>1 DEF ReplayInv
  <2>4. Sound(a, {}) BY <2>1 DEF Shaped
  <2>5. Settled(analysis') BY <2>2, <2>3, <2>4, ProcessSettles DEF Unjudged
  <2>6. observed' # None => Decided(observed') BY <1>1 DEF ReplayInv
  <2> QED BY <1>3, <2>5, <2>6 DEF ReplayInv
<1> QED BY <1>2, <1>3 DEF Judge, Return, BothWays

LEMMA VerifyKeepsReplay == ASSUME ReplayInv, Verify PROVE ReplayInv'
<1>1. pc = "verify" /\ pc' = "decide" /\ observed' = observed BY DEF Verify
<1>2. PICK a : a = analysis OBVIOUS
<1>3. PICK w : w = Discovered OBVIOUS
<1>4. PICK cut : cut = interrupted OBVIOUS
<1>5. analysis' = AfterVerifiers(w, a, cut) BY <1>2, <1>3, <1>4 DEF Verify
<1>6. Settled(a) BY <1>1, <1>2 DEF ReplayInv
<1>7. Repeats(analysis') BY <1>5, <1>6, VerifiedSettles DEF Repeats
<1>8. observed' # None => Decided(observed') BY <1>1 DEF ReplayInv
<1> QED BY <1>1, <1>7, <1>8 DEF ReplayInv

\* The percentage is given to what is settled, and nothing reads it.
LEMMA PercentSettles ==
  ASSUME NEW a, Sound(a, {}), Repeats(a), NEW b, b = [a EXCEPT !.percent = Calculate(a)] PROVE Decided(b)
<1> DEFINE F == {}
<1>1. Sound(a, F) OBVIOUS
<1> HIDE DEF F
<1>2. Sound(b, F) /\ b.percent = Calculate(a) BY <1>1, PercentGiven
<1>3. /\ DOMAIN b = DOMAIN a /\ b.evidence = a.evidence /\ b.http = a.http /\ b.chains = a.chains /\ b.tested = a.tested
      /\ b.profile = a.profile /\ b.inferences = a.inferences /\ b.mitigation = a.mitigation /\ b.confidence = a.confidence
      /\ b.level = a.level /\ b.state = a.state /\ b.unknown = a.unknown /\ b.verification = a.verification
      /\ "target" \in DOMAIN a => b.target = a.target
  OBVIOUS
<1>4. Calculate(b) = Calculate(a) BY <1>3, CalculateReads
<1>5. Repeats(b)
  <2> SUFFICES ASSUME Types(b.evidence) \cap CloudEvidence = {} PROVE Settled(b)
    BY DEF Repeats
  <2>1. Settled(a) BY <1>3 DEF Repeats
  <2>2. "target" \in DOMAIN a /\ "target" \in DOMAIN b /\ b.target = a.target BY <1>3, <2>1 DEF Settled
  <2>3. Classify(b) = Classify(a) BY <1>3, ClassifyReads
  <2>4. b.level = Classify(b) /\ b.state = GivenState(b.level, b.inferences) BY <1>3, <2>1, <2>3 DEF Settled
  <2>5. Sound(b, {}) BY <1>2 DEF F
  <2> QED BY <1>3, <2>1, <2>2, <2>4, <2>5, SettledElse
<1> QED BY <1>2, <1>4, <1>5 DEF Decided

LEMMA DecideKeepsReplay == ASSUME Shaped, ReplayInv, Decide PROVE ReplayInv'
<1>1. pc = "decide" /\ observed' = observed BY DEF Decide
<1>2. CASE pc' = "done" /\ UNCHANGED analysis BY <1>1, <1>2, ReplayStays
<1>3. CASE pc' = "save" /\ analysis' = [analysis EXCEPT !.percent = Calculate(analysis)]
  <2>1. PICK a : a = analysis OBVIOUS
  <2>2. PICK b : b = [a EXCEPT !.percent = Calculate(a)] OBVIOUS
  <2>3. Sound(a, {}) BY <2>1 DEF Shaped
  <2>4. Repeats(a) BY <1>1, <2>1 DEF ReplayInv
  <2>5. Decided(b) BY <2>2, <2>3, <2>4, PercentSettles
  <2>6. Decided(analysis') BY <1>3, <2>1, <2>2, <2>5
  <2>7. observed' # None => Decided(observed') BY <1>1 DEF ReplayInv
  <2> QED BY <1>3, <2>6, <2>7 DEF ReplayInv
<1> QED BY <1>2, <1>3 DEF Decide, Return

LEMMA ObserveKeepsReplay == ASSUME ReplayInv, Observe PROVE ReplayInv'
<1>1. pc = "observe" /\ pc' = "done" /\ observed' = analysis BY DEF Observe, Return
<1>2. Decided(analysis) BY <1>1 DEF ReplayInv
<1>3. Decided(observed') BY <1>1, <1>2
<1> QED BY <1>1, <1>3 DEF ReplayInv

LEMMA OthersKeepReplay ==
  ASSUME ReplayInv, Discover \/ CannotLoad \/ Save \/ CannotStore \/ Interrupt \/ UNCHANGED vars PROVE ReplayInv'
<1>1. UNCHANGED <<analysis, observed>> BY DEF Discover, CannotLoad, Save, CannotStore, Interrupt, vars
<1>2. CASE Discover
  <2>1. pc = "profile" /\ pc' \in {"collect", "done"} BY <1>2 DEF Discover, Return
  <2> QED BY <1>1, <2>1, ReplayStays
<1>3. CASE CannotLoad \/ CannotStore
  <2>1. pc' = "done" BY <1>3 DEF CannotLoad, CannotStore, Return
  <2> QED BY <1>1, <2>1, ReplayStays
<1>4. CASE Save
  <2>1. pc = "save" /\ pc' = "observe" BY <1>4 DEF Save
  <2> QED BY <1>1, <2>1, ReplayStays
<1>5. CASE Interrupt \/ UNCHANGED vars
  <2>1. pc' = pc BY <1>5 DEF Interrupt, vars
  <2> QED BY <1>1, <2>1, ReplayStays
<1> QED BY <1>2, <1>3, <1>4, <1>5

\* (cmd/scan.go, processDomain) What is observed is what the rules would judge
\* again as it is, whichever of the steps after the rules came between.
THEOREM ReplayInvariance == Spec => []ReplayInv
<1>1. Init => ReplayInv BY ReplayAtFirst
<1>2. TruthInv /\ Shaped /\ ReplayInv /\ [Next]_vars => ReplayInv'
  <2> SUFFICES ASSUME TruthInv, Shaped, ReplayInv, [Next]_vars PROVE ReplayInv'
    OBVIOUS
  <2>1. CASE Collect BY <2>1, CollectKeepsReplay
  <2>2. CASE Judge BY <2>2, JudgeKeepsReplay
  <2>3. CASE Verify BY <2>3, VerifyKeepsReplay
  <2>4. CASE Decide BY <2>4, DecideKeepsReplay
  <2>5. CASE Observe BY <2>5, ObserveKeepsReplay
  <2>6. CASE Discover \/ CannotLoad \/ Save \/ CannotStore \/ Interrupt \/ UNCHANGED vars BY <2>6, OthersKeepReplay
  <2> QED BY <2>1, <2>2, <2>3, <2>4, <2>5, <2>6 DEF Next
<1>3. Spec => []TruthInv BY TruthInvariance
<1>4. Spec => []Shaped BY ShapeInvariance
<1> QED BY <1>1, <1>2, <1>3, <1>4, PTL DEF Spec

\* (cmd/db_history.go) db replay gives the verdict that was observed, in
\* whatever order it walks the chains, for every world, every order of the
\* collectors and every number of lookups that fail.
THEOREM ReplayHolds == Spec => []ReplayAgrees
<1>1. ReplayInv => ReplayAgrees
  <2> SUFFICES ASSUME ReplayInv, observed # None, Types(observed.evidence) \cap CloudEvidence = {},
                      NEW chains \in {<<"http", "https">>, <<"https", "http">>}
               PROVE Verdict(Replay(observed, chains)) = Verdict(observed)
    BY DEF ReplayAgrees
  <2>1. PICK o : o = observed OBVIOUS
  <2>2. Decided(o) BY <2>1 DEF ReplayInv
  <2>3. Settled(o) /\ o.percent = Calculate(o) BY <2>1, <2>2 DEF Decided, Repeats
  <2>4. chains \in BothWays BY DEF BothWays
  <2>5. Verdict(Replay(o, chains)) = Verdict(o) BY <2>3, <2>4, ReplayRepeats
  <2> QED BY <2>1, <2>5
<1>2. Spec => []ReplayInv BY ReplayInvariance
<1> QED BY <1>1, <1>2, PTL
=============================================================================
