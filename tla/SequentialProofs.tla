-------------------------- MODULE SequentialProofs --------------------------
(***************************************************************************)
(* More about HostAnalysis: as long as no lookup fails, the order in which  *)
(* the collectors run does not show in the verdict. Two examinations of a   *)
(* world are compared: what each collector gives, whoever went before it,   *)
(* and what the rest of the pipeline can tell of the order.                 *)
(***************************************************************************)
EXTENDS HostAnalysisProofs

-----------------------------------------------------------------------------
(* Lists put together, and what counts of them.                             *)

LEMMA JoinAssociates == ASSUME NEW U, NEW r \in Seq(U), NEW s \in Seq(U), NEW t \in Seq(U)
                        PROVE (r \o s) \o t = r \o (s \o t)
<1>1. r \o s \in Seq(U) /\ s \o t \in Seq(U) OBVIOUS
<1>2. (r \o s) \o t \in Seq(U) /\ r \o (s \o t) \in Seq(U) BY <1>1
<1>3. Len((r \o s) \o t) = Len(r \o (s \o t)) BY <1>1
<1>4. ASSUME NEW i \in 1..Len(r \o (s \o t)) PROVE ((r \o s) \o t)[i] = (r \o (s \o t))[i]
  BY <1>1, <1>4
<1> QED BY <1>2, <1>3, <1>4

\* To flatten two lists of lists together is to flatten each.
LEMMA FlattenBoth ==
  ASSUME NEW U, NEW p \in Seq(Seq(U)), NEW q \in Seq(Seq(U))
  PROVE FlattenSeq(p \o q) = FlattenSeq(p) \o FlattenSeq(q)
<1> DEFINE m == Len(p)
           k == Len(q)
<1>1. m \in Nat /\ k \in Nat /\ p \o q \in Seq(Seq(U)) /\ Len(p \o q) = m + k OBVIOUS
<1>2. /\ \A i \in 1..m : p[i] \in Seq(U) /\ (p \o q)[i] = p[i]
      /\ \A i \in 1..k : q[i] \in Seq(U) /\ (p \o q)[m + i] = q[i]
  OBVIOUS
<1>3. FlattenSeq(<<>>) = <<>> BY DEF FlattenSeq
<1>4. FlattenSeq(p) \in Seq(U) /\ FlattenSeq(q) \in Seq(U)
  <2>1. p = [i \in DOMAIN p |-> p[i]] /\ q = [i \in DOMAIN q |-> q[i]] OBVIOUS
  <2> QED BY <1>1, <1>2, <2>1, FlattenInSet
<1>5. CASE m = 0
  <2>1. p = <<>> /\ p \o q = q BY <1>5
  <2> QED BY <1>3, <1>4, <2>1
<1>6. CASE k = 0
  <2>1. q = <<>> /\ p \o q = p BY <1>6
  <2> QED BY <1>3, <1>4, <2>1
<1>7. CASE m # 0 /\ k # 0
  <2> DEFINE all == p \o q
  <2>1. PICK f : Joins(f, all, m + k) /\ FlattenSeq(all) = f[m + k]
    <3>1. Len(all) \in Nat \ {0} /\ Len(all) = m + k BY <1>1, <1>7
    <3> HIDE DEF all, m, k
    <3> QED BY <3>1, FlattenJoins
  <2>2. PICK g : Joins(g, p, m) /\ FlattenSeq(p) = g[m] BY <1>1, <1>7, FlattenJoins
  <2>3. PICK h : Joins(h, q, k) /\ FlattenSeq(q) = h[k] BY <1>1, <1>7, FlattenJoins
  <2> HIDE DEF m, k, all
  <2>4. \A i \in 1..k : h[i] \in Seq(U) BY <1>1, <1>2, <2>3, JoinsInSet
  <2>5. \A i \in 1..m : g[i] \in Seq(U) BY <1>1, <1>2, <2>2, JoinsInSet
  <2>6. \A i \in 1..(m + k) : f[i] = IF i = 1 THEN all[i] ELSE f[i - 1] \o all[i] BY <2>1 DEF Joins
  <2>7. \A i \in 1..m : g[i] = IF i = 1 THEN p[i] ELSE g[i - 1] \o p[i] BY <2>2 DEF Joins
  <2>8. \A i \in 1..k : h[i] = IF i = 1 THEN q[i] ELSE h[i - 1] \o q[i] BY <2>3 DEF Joins
  <2> DEFINE Is(i) == f[i] = IF i <= m THEN g[i] ELSE g[m] \o h[i - m]
             Bad == {i \in 1..(m + k) : ~Is(i)}
  <2>9. Bad = {}
    <3>1. SUFFICES ASSUME Bad # {} PROVE FALSE OBVIOUS
    <3>2. PICK n \in Bad : \A j \in Bad : ~(j < n)
      <4>1. Bad \subseteq Nat BY <1>1
      <4> HIDE DEF Bad
      <4> QED BY <3>1, <4>1, Least
    <3>3. n \in 1..(m + k) /\ ~Is(n) OBVIOUS
    <3>4. n # 1 => n - 1 \in 1..(m + k) /\ Is(n - 1)
      <4> SUFFICES ASSUME n # 1 PROVE n - 1 \in 1..(m + k) /\ Is(n - 1) OBVIOUS
      <4>1. n - 1 \in 1..(m + k) /\ n - 1 < n BY <1>1, <3>3
      <4>2. n - 1 \notin Bad BY <3>2, <4>1
      <4> HIDE DEF Is
      <4> QED BY <4>1, <4>2
    <3>5. f[n] = IF n = 1 THEN all[n] ELSE f[n - 1] \o all[n] BY <2>6, <3>3
    <3>6. CASE n <= m
      <4>1. n \in 1..m /\ all[n] = p[n] BY <1>1, <1>2, <3>3, <3>6 DEF all
      <4>2. n # 1 => f[n - 1] = g[n - 1] BY <1>1, <3>3, <3>4, <3>6
      <4>3. g[n] = IF n = 1 THEN p[n] ELSE g[n - 1] \o p[n] BY <2>7, <4>1
      <4>4. f[n] = g[n] BY <3>5, <4>1, <4>2, <4>3
      <4> QED BY <3>3, <3>6, <4>4
    <3>7. CASE ~(n <= m)
      <4>1. n - m \in 1..k /\ n # 1 /\ m \in 1..m BY <1>1, <1>7, <3>3, <3>7
      <4>2. all[n] = q[n - m]
        <5>1. n = m + (n - m) BY <1>1, <3>3
        <5> QED BY <1>2, <4>1, <5>1 DEF all
      <4>3. f[n] = f[n - 1] \o q[n - m] BY <3>5, <4>1, <4>2
      <4>4. h[n - m] = IF n - m = 1 THEN q[n - m] ELSE h[(n - m) - 1] \o q[n - m] BY <2>8, <4>1
      <4>5. f[n] = g[m] \o h[n - m]
        <5>1. CASE n - m = 1
          <6>1. n - 1 = m BY <1>1, <3>3, <5>1
          <6>2. f[n - 1] = g[m]
            <7>1. f[n - 1] = IF n - 1 <= m THEN g[n - 1] ELSE g[m] \o h[n - 1 - m] BY <3>4, <4>1
            <7>2. n - 1 <= m BY <1>1, <6>1, SMTT(60)
            <7> QED BY <6>1, <7>1, <7>2
          <6> QED BY <4>3, <4>4, <5>1, <6>2
        <5>2. CASE n - m # 1
          <6>1. (n - m) - 1 \in 1..k /\ ~(n - 1 <= m) /\ (n - 1) - m = (n - m) - 1 BY <1>1, <3>3, <4>1, <5>2
          <6>2. f[n - 1] = g[m] \o h[(n - m) - 1] BY <3>4, <4>1, <6>1
          <6>3. h[n - m] = h[(n - m) - 1] \o q[n - m] BY <4>4, <5>2
          <6>4. g[m] \in Seq(U) /\ h[(n - m) - 1] \in Seq(U) /\ q[n - m] \in Seq(U) BY <1>2, <2>4, <2>5, <4>1, <6>1
          <6>5. PICK r, s, t : r = g[m] /\ s = h[(n - m) - 1] /\ t = q[n - m] OBVIOUS
          <6>6. r \in Seq(U) /\ s \in Seq(U) /\ t \in Seq(U) BY <6>4, <6>5
          <6>7. (r \o s) \o t = r \o (s \o t) BY <6>6, JoinAssociates, SMTT(60)
          <6> QED BY <4>3, <6>2, <6>3, <6>5, <6>7
        <5> QED BY <5>1, <5>2
      <4> QED BY <3>3, <3>7, <4>5
    <3> QED BY <3>6, <3>7
  <2>10. f[m + k] = g[m] \o h[k]
    <3>1. m + k \in 1..(m + k) /\ ~(m + k <= m) /\ (m + k) - m = k BY <1>1, <1>7
    <3>2. Is(m + k) BY <2>9, <3>1
    <3> QED BY <3>1, <3>2
  <2> QED BY <2>1, <2>2, <2>3, <2>10 DEF all
<1> QED BY <1>5, <1>6, <1>7

LEMMA JoinedSet == ASSUME NEW s, NEW t, IsList(s), IsList(t) PROVE IsList(s \o t) /\ ToSet(s \o t) = ToSet(s) \cup ToSet(t)
<1>1. s \in Seq(ToSet(s)) /\ t \in Seq(ToSet(t)) BY DEF IsList
<1>2. IsList(s \o t) /\ ToSet(s \o t) \subseteq ToSet(s) \cup ToSet(t) BY ListJoin
<1>3. ASSUME NEW i \in DOMAIN s PROVE s[i] \in ToSet(s \o t)
  <2>1. i \in DOMAIN (s \o t) /\ (s \o t)[i] = s[i] BY <1>1
  <2> QED BY <2>1 DEF ToSet
<1>4. ASSUME NEW i \in DOMAIN t PROVE t[i] \in ToSet(s \o t)
  <2>1. Len(s) + i \in DOMAIN (s \o t) /\ (s \o t)[Len(s) + i] = t[i] BY <1>1
  <2> QED BY <2>1 DEF ToSet
<1>5. ToSet(s) \subseteq ToSet(s \o t) BY <1>3 DEF ToSet
<1>6. ToSet(t) \subseteq ToSet(s \o t) BY <1>4 DEF ToSet
<1> QED BY <1>2, <1>5, <1>6

\* Without what the rules drew, two lists together are each without it.
LEMMA OriginalBoth ==
  ASSUME NEW s, NEW t, IsList(s), IsList(t) PROVE Original(s \o t) = Original(s) \o Original(t)
<1> DEFINE U == ToSet(s) \cup ToSet(t)
           all == s \o t
           keep(e) == If(e.source # "INFERENCE", <<e>>)
           p == [i \in DOMAIN s |-> keep(s[i])]
           q == [i \in DOMAIN t |-> keep(t[i])]
           both == [i \in DOMAIN all |-> keep(all[i])]
<1>1. s \in Seq(U) /\ t \in Seq(U)
  <2>1. s \in Seq(ToSet(s)) /\ t \in Seq(ToSet(t)) BY DEF IsList
  <2>2. ToSet(s) \subseteq U /\ ToSet(t) \subseteq U OBVIOUS
  <2> HIDE DEF U
  <2> QED BY <2>1, <2>2
<1>2. Original(s) = FlattenSeq(p) /\ Original(t) = FlattenSeq(q) /\ Original(all) = FlattenSeq(both)
  BY DEF Original, Those, EachOf
<1>3. \A e \in U : keep(e) \in Seq(U)
  <2> HIDE DEF U
  <2>1. \A e \in U : <<e>> \in Seq(U) /\ <<>> \in Seq(U) OBVIOUS
  <2> QED BY <2>1 DEF If
<1> HIDE DEF keep, U
<1>4. p \in Seq(Seq(U)) /\ q \in Seq(Seq(U))
  <2>1. DOMAIN s = 1..Len(s) /\ Len(s) \in Nat /\ \A i \in DOMAIN s : s[i] \in U BY <1>1
  <2>2. DOMAIN t = 1..Len(t) /\ Len(t) \in Nat /\ \A i \in DOMAIN t : t[i] \in U BY <1>1
  <2> QED BY <1>3, <2>1, <2>2
<1>5. both = p \o q
  <2>1. /\ DOMAIN s = 1..Len(s) /\ Len(s) \in Nat /\ DOMAIN t = 1..Len(t) /\ Len(t) \in Nat
        /\ DOMAIN all = 1..(Len(s) + Len(t))
        /\ \A i \in 1..Len(s) : all[i] = s[i]
        /\ \A i \in (Len(s) + 1)..(Len(s) + Len(t)) : all[i] = t[i - Len(s)]
    BY <1>1
  <2>2. /\ p \o q \in Seq(Seq(U)) /\ Len(p) = Len(s) /\ Len(q) = Len(t) /\ DOMAIN (p \o q) = 1..(Len(s) + Len(t))
        /\ \A i \in 1..Len(p) : (p \o q)[i] = p[i]
        /\ \A i \in (Len(p) + 1)..(Len(p) + Len(q)) : (p \o q)[i] = q[i - Len(p)]
    BY <1>4, <2>1
  <2>3. p \o q = [i \in 1..(Len(s) + Len(t)) |-> (p \o q)[i]]
    <3>1. \A x \in Seq(Seq(U)) : x = [i \in DOMAIN x |-> x[i]] OBVIOUS
    <3> HIDE DEF p, q
    <3> QED BY <2>2, <3>1
  <2>4. ASSUME NEW i \in 1..(Len(s) + Len(t)) PROVE both[i] = (p \o q)[i]
    <3>1. both[i] = keep(all[i]) BY <2>1
    <3>2. CASE i <= Len(s)
      <4>1. i \in 1..Len(s) /\ i \in DOMAIN s BY <2>1, <3>2
      <4>2. all[i] = s[i] /\ (p \o q)[i] = p[i] /\ p[i] = keep(s[i]) BY <2>1, <2>2, <4>1
      <4> QED BY <3>1, <4>2
    <3>3. CASE ~(i <= Len(s))
      <4>1. i \in (Len(s) + 1)..(Len(s) + Len(t)) /\ i - Len(s) \in DOMAIN t BY <2>1, <3>3
      <4>2. all[i] = t[i - Len(s)] /\ (p \o q)[i] = q[i - Len(s)] /\ q[i - Len(s)] = keep(t[i - Len(s)]) BY <2>1, <2>2, <4>1
      <4> QED BY <3>1, <4>2
    <3> QED BY <3>2, <3>3
  <2> HIDE DEF all, p, q
  <2>5. both = [i \in 1..(Len(s) + Len(t)) |-> both[i]] BY <2>1
  <2> HIDE DEF both
  <2> QED BY <2>3, <2>4, <2>5
<1> HIDE DEF p, q, both
<1>6. FlattenSeq(p \o q) = FlattenSeq(p) \o FlattenSeq(q) BY <1>4, FlattenBoth
<1> QED BY <1>2, <1>5, <1>6 DEF all

\* What remains of a list is a list of some of it.
LEMMA OriginalIsPart ==
  ASSUME NEW s, IsList(s) PROVE IsList(Original(s)) /\ ToSet(Original(s)) \subseteq ToSet(s)
<1> DEFINE parts == [i \in DOMAIN s |-> If(s[i].source # "INFERENCE", <<s[i]>>)]
<1>1. \A i \in DOMAIN s : parts[i] \in {<<>>, <<s[i]>>} BY DEF If
<1>2. parts = [i \in DOMAIN s |-> parts[i]] OBVIOUS
<1>3. Original(s) = FlattenSeq(parts) BY DEF Original, Those, EachOf
<1> HIDE DEF parts
<1> QED BY <1>1, <1>2, <1>3, Filtered

-----------------------------------------------------------------------------
\* The entries of a type and a source that nothing in a set has.
Unlike(S, e) == \A x \in S : x.type # e.type \/ x.source # e.source

\* Of two lists together count what counts in the first, and in the second
\* what the first is unlike.
LEMMA CountedBoth ==
  ASSUME NEW s, NEW t, IsList(s), IsList(t)
  PROVE Counted(s \o t) = Counted(s) \cup {e \in Counted(t) : Unlike(ToSet(s), e)}
<1> DEFINE all == s \o t
           n == Len(s)
           New(l, i) == \A j \in 1..(i - 1) : l[j].type # l[i].type \/ l[j].source # l[i].source
           late == {e \in Counted(t) : Unlike(ToSet(s), e)}
<1>1. /\ DOMAIN s = 1..n /\ n \in Nat /\ DOMAIN t = 1..Len(t) /\ Len(t) \in Nat /\ DOMAIN all = 1..(n + Len(t))
      /\ \A i \in 1..n : all[i] = s[i]
      /\ \A i \in 1..Len(t) : all[n + i] = t[i]
  <2>1. s \in Seq(ToSet(s)) /\ t \in Seq(ToSet(t)) BY DEF IsList
  <2> QED BY <2>1
<1>2. /\ \A e : e \in Counted(s) <=> \E i \in DOMAIN s : e = s[i] /\ New(s, i)
      /\ \A e : e \in Counted(t) <=> \E i \in DOMAIN t : e = t[i] /\ New(t, i)
      /\ \A e : e \in Counted(all) <=> \E i \in DOMAIN all : e = all[i] /\ New(all, i)
  BY DEF Counted
<1> HIDE DEF all, n
<1>8. \A l, i : New(l, i) <=> \A j \in 1..(i - 1) : l[j].type # l[i].type \/ l[j].source # l[i].source OBVIOUS
<1>3. ASSUME NEW i \in 1..n PROVE New(all, i) <=> New(s, i)
  <2>1. \A j \in 1..(i - 1) : j \in 1..n BY <1>1
  <2> QED BY <1>1, <2>1
<1>4. ASSUME NEW i \in 1..Len(t) PROVE New(all, n + i) <=> New(t, i) /\ Unlike(ToSet(s), t[i])
  <2>1. PICK k : k = n + i OBVIOUS
  <2>4. all[k] = t[i] BY <1>1, <2>1
  <2> HIDE DEF New
  <2>2. ASSUME New(all, n + i) PROVE New(t, i) /\ Unlike(ToSet(s), t[i])
    <3>1. ASSUME NEW j \in 1..(i - 1) PROVE t[j].type # t[i].type \/ t[j].source # t[i].source
      <4>1. n + j \in 1..(k - 1) /\ j \in 1..Len(t) BY <1>1, <2>1
      <4>2. all[n + j] = t[j] BY <1>1, <4>1
      <4>3. New(all, k) BY <2>1, <2>2
      <4>4. all[n + j].type # all[k].type \/ all[n + j].source # all[k].source BY <1>8, <4>1, <4>3
      <4> QED BY <2>4, <4>2, <4>4
    <3>2. ASSUME NEW x \in ToSet(s) PROVE x.type # t[i].type \/ x.source # t[i].source
      <4>1. PICK j \in DOMAIN s : x = s[j] BY DEF ToSet
      <4>2. j \in 1..(k - 1) /\ all[j] = x BY <1>1, <2>1, <4>1
      <4>3. New(all, k) BY <2>1, <2>2
      <4>4. all[j].type # all[k].type \/ all[j].source # all[k].source BY <1>8, <4>2, <4>3
      <4> QED BY <2>4, <4>2, <4>4
    <3> QED BY <1>8, <3>1, <3>2 DEF Unlike
  <2>3. ASSUME New(t, i), Unlike(ToSet(s), t[i]) PROVE New(all, n + i)
    <3> SUFFICES ASSUME NEW j \in 1..(k - 1) PROVE all[j].type # all[k].type \/ all[j].source # all[k].source
      BY <1>8, <2>1
    <3>3. \A m \in 1..(i - 1) : t[m].type # t[i].type \/ t[m].source # t[i].source BY <1>8, <2>3
    <3>1. CASE j <= n
      <4>1. j \in DOMAIN s /\ all[j] = s[j] BY <1>1, <3>1
      <4>2. s[j] \in ToSet(s) BY <4>1 DEF ToSet
      <4> QED BY <2>3, <2>4, <4>1, <4>2 DEF Unlike
    <3>2. CASE ~(j <= n)
      <4>1. j - n \in 1..(i - 1) /\ j - n \in 1..Len(t) /\ j = n + (j - n) BY <1>1, <2>1, <3>2
      <4>2. all[j] = t[j - n] BY <1>1, <4>1
      <4> QED BY <2>4, <3>3, <4>1, <4>2
    <3> QED BY <3>1, <3>2
  <2> QED BY <2>1, <2>2, <2>3
<1> HIDE DEF New
<1>5. ASSUME NEW e \in Counted(all) PROVE e \in Counted(s) \cup late
  <2>1. PICK i \in DOMAIN all : e = all[i] /\ New(all, i) BY <1>2
  <2>2. CASE i <= n
    <3>1. i \in 1..n /\ i \in DOMAIN s /\ all[i] = s[i] BY <1>1, <2>2
    <3> QED BY <1>2, <1>3, <2>1, <3>1
  <2>3. CASE ~(i <= n)
    <3>1. PICK k : k = i - n OBVIOUS
    <3>2. k \in 1..Len(t) /\ k \in DOMAIN t /\ i = n + k BY <1>1, <2>3, <3>1
    <3>3. all[i] = t[k] BY <1>1, <3>2
    <3>4. New(t, k) /\ Unlike(ToSet(s), t[k]) BY <1>4, <2>1, <3>2
    <3> QED BY <1>2, <2>1, <3>2, <3>3, <3>4
  <2> QED BY <2>2, <2>3
<1>6. ASSUME NEW e \in Counted(s) PROVE e \in Counted(all)
  <2>1. PICK i \in DOMAIN s : e = s[i] /\ New(s, i) BY <1>2
  <2>2. i \in 1..n /\ i \in DOMAIN all /\ all[i] = s[i] BY <1>1
  <2> QED BY <1>2, <1>3, <2>1, <2>2
<1>7. ASSUME NEW e \in late PROVE e \in Counted(all)
  <2>1. PICK i \in DOMAIN t : e = t[i] /\ New(t, i) BY <1>2
  <2>2. i \in 1..Len(t) /\ n + i \in DOMAIN all /\ all[n + i] = t[i] BY <1>1
  <2>3. New(all, n + i) BY <1>4, <2>1, <2>2
  <2> QED BY <1>2, <2>1, <2>2, <2>3
<1> QED BY <1>5, <1>6, <1>7 DEF all

-----------------------------------------------------------------------------
Reinforcing == {"LONG_LIVED_ORPHAN", "CORRELATED_PROVIDER_CONFIRMATION"}

\* The last entry of a list that reinforces.
LastOf(s, i) == i \in DOMAIN s /\ s[i].type \in Reinforcing /\ \A j \in DOMAIN s : s[j].type \in Reinforcing => j <= i

LEMMA LastExists == ASSUME NEW s, IsList(s), Types(s) \cap Reinforcing # {} PROVE \E i : LastOf(s, i)
<1> DEFINE n == Len(s)
           At == {k \in 0..n : n - k \in DOMAIN s /\ s[n - k].type \in Reinforcing}
<1>1. n \in Nat /\ DOMAIN s = 1..n BY ListDomain
<1>2. PICK i \in DOMAIN s : s[i].type \in Reinforcing BY DEF Types
<1>3. n - i \in At
  <2>1. n - (n - i) = i /\ n - i \in 0..n BY <1>1
  <2> QED BY <1>2, <2>1
<1>4. At \subseteq Nat /\ At # {} BY <1>3
<1>5. PICK k \in At : \A m \in At : ~(m < k)
  <2> HIDE DEF At
  <2> QED BY <1>4, Least
<1>6. ASSUME NEW j \in DOMAIN s, s[j].type \in Reinforcing PROVE j <= n - k
  <2>1. n - (n - j) = j /\ n - j \in 0..n BY <1>1
  <2>2. n - j \in At BY <1>6, <2>1
  <2>3. ~(n - j < k) BY <1>5, <2>2
  <2> QED BY <1>1, <2>3
<1> QED BY <1>5, <1>6 DEF LastOf

LEMMA LastCounts ==
  ASSUME NEW s, IsList(s), NEW i, LastOf(s, i)
  PROVE Multiplier(s) = IF s[i].type = "LONG_LIVED_ORPHAN" THEN 115 ELSE 120
<1> DEFINE at == {j \in DOMAIN s : s[j].type \in {"LONG_LIVED_ORPHAN", "CORRELATED_PROVIDER_CONFIRMATION"}}
<1>1. i \in at /\ \A j \in at : j <= i BY DEF LastOf, Reinforcing
<1>2. at \subseteq Nat BY ListDomain
<1>3. Multiplier(s) = CASE at = {} -> 100 [] at # {} /\ s[Max(at)].type = "LONG_LIVED_ORPHAN" -> 115 [] OTHER -> 120
  BY DEF Multiplier
<1> HIDE DEF at
<1>4. Max(at) = i
  <2>1. \A x \in at : i >= x BY <1>1, <1>2
  <2>2. \A y \in at : (\A x \in at : y >= x) => y = i BY <1>1, <1>2
  <2>3. Max(at) = CHOOSE x \in at : \A y \in at : x >= y BY DEF Max
  <2> QED BY <1>1, <2>1, <2>2, <2>3
<1> QED BY <1>1, <1>3, <1>4

LEMMA NoneCounts == ASSUME NEW s, Types(s) \cap Reinforcing = {} PROVE Multiplier(s) = 100
<1> DEFINE at == {j \in DOMAIN s : s[j].type \in {"LONG_LIVED_ORPHAN", "CORRELATED_PROVIDER_CONFIRMATION"}}
<1>1. at = {} BY DEF Types, Reinforcing
<1> QED BY <1>1 DEF Multiplier

\* Of two lists together the last that reinforces is that of the second, when
\* it has one.
LEMMA MultiplierBoth ==
  ASSUME NEW s, NEW t, IsList(s), IsList(t)
  PROVE Multiplier(s \o t) = IF Types(t) \cap Reinforcing = {} THEN Multiplier(s) ELSE Multiplier(t)
<1> DEFINE all == s \o t
           n == Len(s)
<1>1. /\ DOMAIN s = 1..n /\ n \in Nat /\ DOMAIN t = 1..Len(t) /\ Len(t) \in Nat /\ DOMAIN all = 1..(n + Len(t))
      /\ \A i \in 1..n : all[i] = s[i]
      /\ \A i \in 1..Len(t) : all[n + i] = t[i]
  <2>1. s \in Seq(ToSet(s)) /\ t \in Seq(ToSet(t)) BY DEF IsList
  <2> QED BY <2>1
<1>2. IsList(all) BY JoinedSet
<1> HIDE DEF all, n
<1>3. \A j \in DOMAIN all : j \in 1..n \/ (j - n \in 1..Len(t) /\ j = n + (j - n)) BY <1>1
<1>4. CASE Types(t) \cap Reinforcing # {}
  <2>1. PICK i : LastOf(t, i) BY <1>4, LastExists
  <2>2. i \in 1..Len(t) /\ t[i].type \in Reinforcing /\ \A j \in 1..Len(t) : t[j].type \in Reinforcing => j <= i
    BY <1>1, <2>1 DEF LastOf
  <2>3. n + i \in DOMAIN all /\ all[n + i] = t[i] BY <1>1, <2>2
  <2>4. ASSUME NEW j \in DOMAIN all, all[j].type \in Reinforcing PROVE j <= n + i
    <3>1. CASE j \in 1..n BY <1>1, <2>2, <3>1
    <3>2. CASE j - n \in 1..Len(t) /\ j = n + (j - n)
      <4>1. all[j] = t[j - n] BY <1>1, <3>2
      <4>2. j - n <= i BY <2>2, <2>4, <3>2, <4>1
      <4> QED BY <1>1, <2>2, <3>2, <4>2
    <3> QED BY <1>3, <3>1, <3>2
  <2>5. LastOf(all, n + i) BY <2>2, <2>3, <2>4 DEF LastOf
  <2>6. Multiplier(all) = IF all[n + i].type = "LONG_LIVED_ORPHAN" THEN 115 ELSE 120 BY <1>2, <2>5, LastCounts
  <2>7. Multiplier(t) = IF t[i].type = "LONG_LIVED_ORPHAN" THEN 115 ELSE 120 BY <2>1, LastCounts
  <2>8. Multiplier(all) = Multiplier(t) BY <2>3, <2>6, <2>7
  <2> QED BY <1>4, <2>8 DEF all
<1>5. CASE Types(t) \cap Reinforcing = {}
  <2>1. \A i \in DOMAIN t : t[i].type \notin Reinforcing BY <1>5 DEF Types
  <2>2. ASSUME NEW j \in DOMAIN all, all[j].type \in Reinforcing PROVE j \in 1..n /\ s[j] = all[j]
    <3>1. CASE j \in 1..n BY <1>1, <3>1
    <3>2. CASE j - n \in 1..Len(t) /\ j = n + (j - n)
      <4>1. all[j] = t[j - n] BY <1>1, <3>2
      <4> QED BY <1>1, <2>1, <2>2, <3>2, <4>1
    <3> QED BY <1>3, <3>1, <3>2
  <2>3. CASE Types(s) \cap Reinforcing # {}
    <3>1. PICK i : LastOf(s, i) BY <2>3, LastExists
    <3>2. i \in 1..n /\ s[i].type \in Reinforcing /\ i \in DOMAIN all /\ all[i] = s[i] BY <1>1, <3>1 DEF LastOf
    <3>3. LastOf(all, i) BY <1>1, <2>2, <3>1, <3>2 DEF LastOf
    <3>4. Multiplier(all) = IF all[i].type = "LONG_LIVED_ORPHAN" THEN 115 ELSE 120 BY <1>2, <3>3, LastCounts
    <3>5. Multiplier(s) = IF s[i].type = "LONG_LIVED_ORPHAN" THEN 115 ELSE 120 BY <3>1, LastCounts
    <3>6. Multiplier(all) = Multiplier(s) BY <3>2, <3>4, <3>5
    <3> QED BY <1>5, <3>6 DEF all
  <2>4. CASE Types(s) \cap Reinforcing = {}
    <3>1. \A i \in 1..n : s[i].type \notin Reinforcing BY <1>1, <2>4 DEF Types
    <3>2. \A j \in DOMAIN all : all[j].type \notin Reinforcing BY <2>2, <3>1
    <3>3. Types(all) \cap Reinforcing = {} BY <3>2 DEF Types
    <3> QED BY <1>5, <2>4, <3>3, NoneCounts DEF all
  <2> QED BY <2>3, <2>4
<1> QED BY <1>4, <1>5

-----------------------------------------------------------------------------
\* Two lists that weigh the same: of the same entries, of which the same count.
SameWeight(s, t) ==
  /\ IsList(s) /\ IsList(t)
  /\ ToSet(s) = ToSet(t) /\ Counted(s) = Counted(t) /\ Multiplier(s) = Multiplier(t)

LEMMA SameWeightAdding ==
  ASSUME NEW s, NEW t, SameWeight(s, t), NEW b, IsList(b) PROVE SameWeight(s \o b, t \o b)
<1>1. IsList(s) /\ IsList(t) BY DEF SameWeight
<1>2. IsList(s \o b) /\ IsList(t \o b) /\ ToSet(s \o b) = ToSet(t \o b) BY <1>1, JoinedSet DEF SameWeight
<1>3. Counted(s \o b) = Counted(t \o b) BY <1>1, CountedBoth DEF SameWeight
<1>4. Multiplier(s \o b) = Multiplier(t \o b) BY <1>1, MultiplierBoth DEF SameWeight
<1> QED BY <1>2, <1>3, <1>4 DEF SameWeight

-----------------------------------------------------------------------------
(* Two analyses that differ only in the order of their evidence.            *)

\* What of an analysis the collectors, the rules and the verifiers read beside
\* its evidence.
Told == {"candidates", "delegation", "http", "chains", "cdn", "tested", "profile", "verification", "unknown", "target"}

\* Two analyses that differ only in the order of their evidence, and that the
\* rules cannot tell apart.
Even(a, b) ==
  /\ Told \cup {"evidence"} \subseteq DOMAIN a /\ Told \cup {"evidence"} \subseteq DOMAIN b
  /\ \A f \in Told : a[f] = b[f]
  /\ IsList(a.evidence) /\ IsList(b.evidence) /\ ToSet(a.evidence) = ToSet(b.evidence)
  /\ SameWeight(Original(a.evidence), Original(b.evidence))

LEMMA EvenWith ==
  ASSUME NEW a, NEW b, Even(a, b), NEW f, f # "evidence", NEW v, NEW u, f \in Told => u = v
  PROVE Even([a EXCEPT ![f] = v], [b EXCEPT ![f] = u])
<1>1. /\ [a EXCEPT ![f] = v].evidence = a.evidence /\ [b EXCEPT ![f] = u].evidence = b.evidence
      /\ DOMAIN [a EXCEPT ![f] = v] = DOMAIN a /\ DOMAIN [b EXCEPT ![f] = u] = DOMAIN b
  BY DEF Even
<1>2. \A g \in Told : [a EXCEPT ![f] = v][g] = [b EXCEPT ![f] = u][g] BY DEF Even
<1> DEFINE c == [a EXCEPT ![f] = v]
           d == [b EXCEPT ![f] = u]
<1> HIDE DEF c, d
<1>3. c.evidence = a.evidence /\ d.evidence = b.evidence /\ DOMAIN c = DOMAIN a /\ DOMAIN d = DOMAIN b
  BY <1>1 DEF c, d
<1>4. \A g \in Told : c[g] = d[g] BY <1>2 DEF c, d
<1>5. Even(c, d) BY <1>3, <1>4 DEF Even
<1> QED BY <1>5 DEF c, d

LEMMA EvenCollected ==
  ASSUME NEW a, NEW b, Even(a, b), NEW e, IsList(e) PROVE Even(Collected(a, e), Collected(b, e))
<1> DEFINE c == Collected(a, e)
           d == Collected(b, e)
<1>1. /\ c.evidence = a.evidence \o e /\ d.evidence = b.evidence \o e /\ DOMAIN c = DOMAIN a /\ DOMAIN d = DOMAIN b
      /\ \A g \in Told : c[g] = a[g] /\ d[g] = b[g]
  BY DEF Even, Collected, Told
<1> HIDE DEF c, d
<1>2. PICK s, t : s = a.evidence /\ t = b.evidence OBVIOUS
<1>3. IsList(s) /\ IsList(t) /\ ToSet(s) = ToSet(t) /\ SameWeight(Original(s), Original(t)) BY <1>2 DEF Even
<1>4. IsList(s \o e) /\ IsList(t \o e) /\ ToSet(s \o e) = ToSet(t \o e) BY <1>3, JoinedSet, SMTT(60)
<1>5. Original(s \o e) = Original(s) \o Original(e) /\ Original(t \o e) = Original(t) \o Original(e) BY <1>3, OriginalBoth
<1>6. IsList(Original(e)) BY OriginalIsPart
<1>7. SameWeight(Original(s) \o Original(e), Original(t) \o Original(e)) BY <1>3, <1>6, SameWeightAdding
<1>8. Even(c, d) BY <1>1, <1>2, <1>4, <1>5, <1>7 DEF Even
<1> QED BY <1>8 DEF c, d

LEMMA EvenTested == ASSUME NEW a, NEW b, Even(a, b), NEW v PROVE Even(Tested(a, v), Tested(b, v))
<1>1. "tested" \in Told /\ a.tested = b.tested BY DEF Even, Told
<1>2. Tested(a, v) = [a EXCEPT !.tested = a.tested \cup {v}] /\ Tested(b, v) = [b EXCEPT !.tested = b.tested \cup {v}]
  BY DEF Tested
<1>3. "tested" # "evidence" OBVIOUS
<1> QED BY <1>1, <1>2, <1>3, EvenWith, SMTT(60)

\* What analyses that are even agree on.
LEMMA EvenReads ==
  ASSUME NEW a, NEW b, Even(a, b)
  PROVE /\ a.candidates = b.candidates /\ a.delegation = b.delegation /\ a.http = b.http /\ a.chains = b.chains
        /\ a.cdn = b.cdn /\ a.tested = b.tested /\ a.profile = b.profile /\ a.verification = b.verification
        /\ a.unknown = b.unknown /\ a.target = b.target
        /\ \A type : OfType(a.evidence, type) = OfType(b.evidence, type) /\ (Has(a.evidence, type) <=> Has(b.evidence, type))
        /\ Types(a.evidence) = Types(b.evidence)
        /\ \A s : Completed(a, s) <=> Completed(b, s)
<1>1. /\ a.candidates = b.candidates /\ a.delegation = b.delegation /\ a.http = b.http /\ a.chains = b.chains
      /\ a.cdn = b.cdn /\ a.tested = b.tested /\ a.profile = b.profile /\ a.verification = b.verification
      /\ a.unknown = b.unknown /\ a.target = b.target
  BY DEF Even, Told
<1>2. \A s, type : /\ OfType(s, type) = {e \in ToSet(s) : e.type = type}
                   /\ Has(s, type) <=> \E e \in ToSet(s) : e.type = type
                   /\ Types(s) = {e.type : e \in ToSet(s)}
  BY DEF OfType, Has, Types, ToSet
<1>3. ToSet(a.evidence) = ToSet(b.evidence) BY DEF Even
<1>4. \A type : OfType(a.evidence, type) = OfType(b.evidence, type) /\ (Has(a.evidence, type) <=> Has(b.evidence, type))
  BY <1>2, <1>3
<1>5. Types(a.evidence) = Types(b.evidence)
  <2>1. Types(a.evidence) = {e.type : e \in ToSet(a.evidence)} /\ Types(b.evidence) = {e.type : e \in ToSet(b.evidence)} BY <1>2
  <2> QED BY <1>3, <2>1
<1>6. \A s : Completed(a, s) <=> Completed(b, s) BY <1>1 DEF Completed
<1> QED BY <1>1, <1>4, <1>5, <1>6

LEMMA ListIf == ASSUME NEW holds, NEW x, IsList(x) PROVE IsList(If(holds, x))
  BY EmptyIsAList DEF If

-----------------------------------------------------------------------------
(* The collectors that read the analysis keep that: of DNS and of pages.    *)

LEMMA FreeIsAList == ASSUME NEW s, NEW F, Free(s, F) PROVE IsList(s)
  BY DEF Free

LEMMA EvenNoting ==
  ASSUME NEW a, NEW b, Even(a, b), NEW v, NEW e, IsList(e)
  PROVE Even(Collected(Tested(a, v), e), Collected(Tested(b, v), e))
<1>1. Even(Tested(a, v), Tested(b, v)) BY EvenTested
<1> QED BY <1>1, EvenCollected

\* The walk through the probes reads the replies of an analysis and no more.
LEMMA MutateReadsReplies ==
  ASSUME NEW w, NEW a, NEW b, a.http = b.http, NEW framing, NEW probes, NEW candidates
  PROVE Mutate(w, a, framing, probes, candidates) = Mutate(w, b, framing, probes, candidates)
<1> DEFINE taken == SubSeq(probes, 1, AtMost(w.maxProbes, Len(probes)))
           blocked(h, s) ==
             /\ h[s].seen /\ h[s].complete
             /\ \/ DecideBlock(h[s], w.walls[s].challenge, w.walls[s].waf).blocked
                \/ ~framing /\ OpaqueProviderEdgeStatus(h[s].status) /\ ~BodyMatchesCandidate(candidates, h[s].body)
           runs(h, s) == If(blocked(h, s), [i \in DOMAIN taken |-> <<s, taken[i]>>])
           all(h) == runs(h, "https") \o runs(h, "http")
           end(h, l) ==
             LET walk[i \in 0..Len(l)] ==
                   IF i = 0 THEN [left |-> HostTimeouts, evidence |-> <<>>, results |-> <<>>]
                   ELSE LET m == walk[i - 1]
                            run == Experiment(w.raw[l[i][1]][l[i][2]], m.left)
                        IN IF Exhausted(m.left) THEN m
                           ELSE [left |-> run.left,
                                 evidence |-> m.evidence \o ExperimentEvidence(l[i][2], framing, candidates, h[l[i][1]].body, run.seen),
                                 results |-> Append(m.results, Outcome(run.seen))]
             IN walk[Len(l)]
<1>1. Mutate(w, a, framing, probes, candidates) = end(a.http, all(a.http)) BY Zenon DEF Mutate, Blocked, Completed
<1>2. Mutate(w, b, framing, probes, candidates) = end(b.http, all(b.http)) BY Zenon DEF Mutate, Blocked, Completed
<1> HIDE DEF all, end
<1> QED BY <1>1, <1>2

LEMMA EvenMutated ==
  ASSUME NEW a, NEW b, Even(a, b), NEW v, NEW e, IsList(e), NEW r
  PROVE Even([Collected(Tested(a, v), e) EXCEPT !.mutations = @ \o r],
             [Collected(Tested(b, v), e) EXCEPT !.mutations = @ \o r])
<1> DEFINE c == Collected(Tested(a, v), e)
           d == Collected(Tested(b, v), e)
<1>1. Even(c, d) BY EvenNoting
<1>2. "mutations" # "evidence" /\ "mutations" \notin Told BY DEF Told
<1> HIDE DEF c, d
<1>3. \A x, y : Even([c EXCEPT !["mutations"] = x], [d EXCEPT !["mutations"] = y]) BY <1>1, <1>2, EvenWith
<1>4. Even([c EXCEPT !.mutations = c.mutations \o r], [d EXCEPT !.mutations = d.mutations \o r]) BY <1>3
<1> QED BY <1>4 DEF c, d

LEMMA MutatorEven ==
  ASSUME NEW w, Listed(w), NEW a, NEW b, Even(a, b) PROVE Even(CollectMutator(w, a), CollectMutator(w, b))
<1> DEFINE n == MutationCandidates(w, a)
           done == Mutate(w, a, FALSE, HostProbes, n)
           P == {"NullByteHostProbe", "HostWhitespaceProbe", "HostTrailingDotProbe", "ExplicitPortProbe",
                 "AbsoluteFormProbe"}
           test(m, l) == /\ Known(m.signature) /\ (m.signature.body # "" \/ m.signature.nx)
                         /\ \E c \in l : c.vector = "CNAME" /\ c.resource = m.name
           S == {m \in ToSet(w.aliases) : Known(m.signature)}
           part(m) == If(test(m, a.candidates), <<m>>)
           parts == [i \in DOMAIN w.aliases |-> part(w.aliases[i])]
<1>1. n = FlattenSeq(parts) /\ MutationCandidates(w, b) = n
  <2>1. a.candidates = b.candidates BY EvenReads
  <2>2. \A x : MutationCandidates(w, x) = FlattenSeq([i \in DOMAIN w.aliases |-> If(test(w.aliases[i], x.candidates), <<w.aliases[i]>>)])
    BY DEF MutationCandidates, Those, EachOf
  <2> HIDE DEF test, n
  <2>3. MutationCandidates(w, b) = FlattenSeq(parts) /\ MutationCandidates(w, a) = FlattenSeq(parts) BY <2>1, <2>2
  <2> QED BY <2>3 DEF n
<1>2. ASSUME NEW i \in DOMAIN w.aliases PROVE part(w.aliases[i]) \in Seq(S)
  <2>1. w.aliases[i] \in ToSet(w.aliases) BY DEF ToSet
  <2>2. test(w.aliases[i], a.candidates) => w.aliases[i] \in S BY <2>1
  <2> HIDE DEF S, test
  <2>3. <<>> \in Seq(S) /\ (w.aliases[i] \in S => <<w.aliases[i]>> \in Seq(S)) OBVIOUS
  <2>4. QED BY <2>2, <2>3 DEF If
<1>3. \A i \in DOMAIN w.aliases : parts[i] = part(w.aliases[i]) OBVIOUS
<1>4. parts = [i \in DOMAIN w.aliases |-> parts[i]] OBVIOUS
<1>14. IsList(w.aliases) BY ProfileIsListed
<1>5. n \in Seq(S)
  <2>1. n = FlattenSeq(parts) BY <1>1
  <2> HIDE DEF parts, part, S, n
  <2> QED BY <2>1, <1>2, <1>3, <1>4, <1>14, EachInSet, ZenonT(60)
<1>6. IsList(n) /\ \A c \in ToSet(n) : Known(c.signature) /\ \E k \in DOMAIN w.aliases : w.aliases[k] = c
  <2> HIDE DEF n
  <2>1. IsList(n) /\ ToSet(n) \subseteq S
    <3> HIDE DEF S
    <3> QED BY <1>5, ListOfASet
  <2>2. QED BY <2>1 DEF ToSet
<1>7. HostProbes \in Seq(P) BY DEF HostProbes
<1>8. \A s \in Schemes : P \subseteq DOMAIN w.raw[s]
  <2>1. P \subseteq ToSet(HostProbes \o FramingProbes) BY ProbesTogether
  <2> HIDE DEF P
  <2>2. QED BY <2>1 DEF Listed
<1> HIDE DEF n, P
<1>9. IsList(done.evidence)
  <2> DEFINE F == {}
             no == FALSE
  <2>1. F \subseteq Grave /\ Borne(Shown, ShowsMissingResource(w), F) BY DEF Borne
  <2>2. w.maxProbes \in Nat BY DEF Listed
  <2>3. done = Mutate(w, a, no, HostProbes, n) OBVIOUS
  <2> HIDE DEF F, done, no
  <2>4. Free(Mutate(w, a, no, HostProbes, n).evidence, F) BY <1>6, <1>7, <1>8, <2>1, <2>2, MutateIsFree
  <2> QED BY <2>3, <2>4, FreeIsAList
<1>10. Mutate(w, b, FALSE, HostProbes, n) = done
  <2> DEFINE no == FALSE
             p == HostProbes
  <2> HIDE DEF no, p
  <2>1. a.http = b.http BY EvenReads
  <2>4. Mutate(w, b, no, p, n) = Mutate(w, a, no, p, n) BY <2>1, MutateReadsReplies
  <2> QED BY <2>4 DEF no, p
<1> HIDE DEF done
<1>11. Even([Collected(Tested(a, "HTTP_MUTATOR"), done.evidence) EXCEPT !.mutations = @ \o done.results],
            [Collected(Tested(b, "HTTP_MUTATOR"), done.evidence) EXCEPT !.mutations = @ \o done.results])
  BY <1>9, EvenMutated, ZenonT(60)
<1>12. Even(Tested(a, "HTTP_MUTATOR"), Tested(b, "HTTP_MUTATOR")) BY EvenTested
<1>13. /\ CollectMutator(w, a) = IF n = <<>> THEN Tested(a, "HTTP_MUTATOR")
            ELSE [Collected(Tested(a, "HTTP_MUTATOR"), done.evidence) EXCEPT !.mutations = @ \o done.results]
       /\ CollectMutator(w, b) = IF n = <<>> THEN Tested(b, "HTTP_MUTATOR")
            ELSE [Collected(Tested(b, "HTTP_MUTATOR"), done.evidence) EXCEPT !.mutations = @ \o done.results]
  BY <1>1, <1>10, ZenonT(60) DEF CollectMutator, done, n
<1> QED BY <1>11, <1>12, <1>13

LEMMA FramingEven ==
  ASSUME NEW w, Listed(w), NEW a, NEW b, Even(a, b) PROVE Even(CollectFraming(w, a), CollectFraming(w, b))
<1> DEFINE nobody == <<>>
           yes == TRUE
           done == Mutate(w, a, yes, FramingProbes, nobody)
           P == {"CLTEProbe", "TECLProbe"}
<1>1. IsList(nobody) /\ ToSet(nobody) = {} BY DEF IsList, ToSet
<1>2. FramingProbes \in Seq(P) BY DEF FramingProbes
<1>3. \A s \in Schemes : P \subseteq DOMAIN w.raw[s]
  <2>1. P \subseteq ToSet(HostProbes \o FramingProbes) BY ProbesTogether
  <2> HIDE DEF P
  <2>2. QED BY <2>1 DEF Listed
<1>4. \A x : CollectFraming(w, x) =
        IF w.host \notin w.framing THEN Tested(x, "HTTP_FRAMING_LAB")
        ELSE [Collected(Tested(x, "HTTP_FRAMING_LAB"), Mutate(w, x, yes, FramingProbes, nobody).evidence)
                EXCEPT !.mutations = @ \o Mutate(w, x, yes, FramingProbes, nobody).results]
  BY DEF CollectFraming
<1>5. \A c \in ToSet(nobody) : Known(c.signature) /\ \E k \in DOMAIN w.aliases : w.aliases[k] = c BY <1>1
<1> HIDE DEF nobody, P, yes
<1>9. IsList(done.evidence)
  <2> DEFINE F == {}
  <2>1. F \subseteq Grave /\ Borne(Shown, ShowsMissingResource(w), F) BY DEF Borne
  <2>2. w.maxProbes \in Nat BY DEF Listed
  <2> HIDE DEF F
  <2>4. Free(Mutate(w, a, yes, FramingProbes, nobody).evidence, F) BY <1>1, <1>2, <1>3, <1>5, <2>1, <2>2, MutateIsFree
  <2> QED BY <2>4, FreeIsAList
<1>10. Mutate(w, b, yes, FramingProbes, nobody) = done
  <2> DEFINE p == FramingProbes
  <2> HIDE DEF p
  <2>1. a.http = b.http BY EvenReads
  <2>4. Mutate(w, b, yes, p, nobody) = Mutate(w, a, yes, p, nobody) BY <2>1, MutateReadsReplies
  <2> QED BY <2>4 DEF p
<1> HIDE DEF done
<1>11. Even([Collected(Tested(a, "HTTP_FRAMING_LAB"), done.evidence) EXCEPT !.mutations = @ \o done.results],
            [Collected(Tested(b, "HTTP_FRAMING_LAB"), done.evidence) EXCEPT !.mutations = @ \o done.results])
  BY <1>9, EvenMutated
<1>12. Even(Tested(a, "HTTP_FRAMING_LAB"), Tested(b, "HTTP_FRAMING_LAB")) BY EvenTested
<1>13. /\ CollectFraming(w, a) = IF w.host \notin w.framing THEN Tested(a, "HTTP_FRAMING_LAB")
            ELSE [Collected(Tested(a, "HTTP_FRAMING_LAB"), done.evidence) EXCEPT !.mutations = @ \o done.results]
       /\ CollectFraming(w, b) = IF w.host \notin w.framing THEN Tested(b, "HTTP_FRAMING_LAB")
            ELSE [Collected(Tested(b, "HTTP_FRAMING_LAB"), done.evidence) EXCEPT !.mutations = @ \o done.results]
  BY <1>4, <1>10 DEF done
<1> QED BY <1>11, <1>12, <1>13

LEMMA CorrelateEven ==
  ASSUME NEW w, Listed(w), NEW a, NEW b, Even(a, b) PROVE Even(Correlate(w, a), Correlate(w, b))
<1> DEFINE bound(l, m, n) ==
             {e \in l : \E match \in m : match.source = e.source /\ match.about = e.about /\ \E t \in n : t.source = e.source}
           two(s) == If(s # {}, <<Evidence("CORRELATED_PROVIDER_CONFIRMATION", (CHOOSE e \in s : TRUE).source, 100, 95)>>)
           set(x) == bound(OfType(x.evidence, "CNAME_PROVIDER_MATCH"), OfType(x.evidence, "HTTP_BODY_MATCH"),
                           OfType(x.evidence, "TLS_PROVIDER_MATCH"))
<1>1. \A x : Correlate(w, x) = Collected(x, StaleCloudIP(w, x) \o two(set(x))) BY DEF Correlate
<1>2. set(a) = set(b)
  <2> HIDE DEF bound
  <2> QED BY EvenReads
<1>3. \A s : IsList(two(s)) BY OneOrNone
<1>4. StaleCloudIP(w, a) = StaleCloudIP(w, b)
  <2> DEFINE told == EachOf(Those(w.a \o w.aaaa, LAMBDA ip : ip.public /\ ip.asn # "" /\ Known(ip.signature)),
                            LAMBDA ip : <<Evidence("STALE_CLOUD_IP_CANDIDATE", ip.signature.service, 20, 60)>>)
             unreachable(h) == /\ \E s \in Schemes : h[s].seen
                               /\ \A s \in Schemes : h[s].seen => ~h[s].complete /\ h[s].transport # ""
  <2>1. \A x : StaleCloudIP(w, x) =
          If((Has(x.evidence, "TLS_MISMATCH") \/ Has(x.evidence, "TLS_EXPIRED")) /\ unreachable(x.http), told)
    BY DEF StaleCloudIP
  <2>2. a.http = b.http /\ (Has(a.evidence, "TLS_MISMATCH") <=> Has(b.evidence, "TLS_MISMATCH"))
        /\ (Has(a.evidence, "TLS_EXPIRED") <=> Has(b.evidence, "TLS_EXPIRED"))
    BY EvenReads
  <2> HIDE DEF told, unreachable
  <2>3. unreachable(a.http) = unreachable(b.http) BY <2>2
  <2> QED BY <2>1, <2>2, <2>3 DEF If
<1>5. IsList(StaleCloudIP(w, a))
  <2>1. IsList(w.a) /\ IsList(w.aaaa) BY ProfileIsListed
  <2> QED BY <2>1, StaleCloudIPPlain, FreeIsAList
<1> HIDE DEF two, set
<1>6. IsList(StaleCloudIP(w, a) \o two(set(a))) BY <1>3, <1>5, JoinedSet
<1>7. Correlate(w, a) = Collected(a, StaleCloudIP(w, a) \o two(set(a))) BY <1>1
<1>8. Correlate(w, b) = Collected(b, StaleCloudIP(w, a) \o two(set(a))) BY <1>1, <1>2, <1>4
<1> QED BY <1>6, <1>7, <1>8, EvenCollected

LEMMA ListOne == ASSUME NEW e PROVE IsList(<<e>>)
  BY DEF IsList, ToSet

LEMMA CAAEven == ASSUME NEW w, NEW a, NEW b, Even(a, b) PROVE Even(CollectCAA(w, a), CollectCAA(w, b))
<1> DEFINE parent == ParentCAA(w)
           effective == IF w.caa # {} THEN w.caa ELSE parent
           issuers(l) == {e.about : e \in l} \ {""}
           one == If(effective # {}, <<Mitigation("CAA_RECORD_PRESENT", "DNS", 10, 100)>>)
           two == If(w.caa # {} /\ parent # {} /\ w.caa # parent, <<Evidence("CAA_POLICY_INCONSISTENT", "DNS", 0, 100)>>)
           three(l) == If(effective # {} /\ issuers(l) # {} /\ issuers(l) \cap effective = {},
                          <<Evidence("CAA_ISSUER_MISMATCH", "DNS/TLS", 0, 90)>>)
           said(l) == one \o two \o three(l)
<1>1. \A x : CollectCAA(w, x) = Collected(Tested(x, "CAA"), said(OfType(x.evidence, "TLS_CERTIFICATE_OBSERVED")))
  BY DEF CollectCAA
<1>2. \A l : IsList(said(l))
  <2>1. IsList(one) /\ IsList(two) /\ \A l : IsList(three(l)) BY OneOrNone, ZenonT(60)
  <2> HIDE DEF one, two, three
  <2>2. IsList(one \o two) BY <2>1, JoinedSet
  <2> QED BY <2>1, <2>2, JoinedSet
<1>3. OfType(a.evidence, "TLS_CERTIFICATE_OBSERVED") = OfType(b.evidence, "TLS_CERTIFICATE_OBSERVED") BY EvenReads
<1> HIDE DEF said
<1> QED BY <1>1, <1>2, <1>3, EvenNoting

LEMMA RelatedAlike ==
  ASSUME NEW a, NEW b, Even(a, b)
  PROVE HasRelatedDomainImpactCandidate(a) <=> HasRelatedDomainImpactCandidate(b)
<1>1. a.verification = b.verification /\ Types(a.evidence) = Types(b.evidence) BY EvenReads
<1> QED BY <1>1 DEF HasRelatedDomainImpactCandidate

LEMMA CookieScopeEven ==
  ASSUME NEW w, NEW a, NEW b, Even(a, b) PROVE Even(CollectCookieScope(w, a), CollectCookieScope(w, b))
<1>1. HasRelatedDomainImpactCandidate(a) <=> HasRelatedDomainImpactCandidate(b) BY RelatedAlike
<1> DEFINE e == <<Evidence("RELATED_DOMAIN_COOKIE_SCOPE", "root", 0, 100)>>
<1>2. IsList(e) BY ListOne
<1>3. \A x : CollectCookieScope(w, x) =
        IF HasRelatedDomainImpactCandidate(x) /\ w.parent.allowed /\ w.parent.cookie THEN Collected(x, e) ELSE x
  BY DEF CollectCookieScope
<1> HIDE DEF e
<1>4. Even(Collected(a, e), Collected(b, e)) BY <1>2, EvenCollected
<1> QED BY <1>1, <1>3, <1>4

LEMMA CORSScopeEven ==
  ASSUME NEW w, NEW a, NEW b, Even(a, b) PROVE Even(CollectCORSScope(w, a), CollectCORSScope(w, b))
<1>1. HasRelatedDomainImpactCandidate(a) <=> HasRelatedDomainImpactCandidate(b) BY RelatedAlike
<1> DEFINE asked == HasRelatedDomainImpactCandidate(a) /\ w.parent.allowed /\ w.host # w.root
           one == If(asked /\ w.parent.cors = "credentials", <<Evidence("RELATED_DOMAIN_CORS_CREDENTIALS", "root", 0, 90)>>)
           two == If(asked /\ w.parent.cors = "*", <<Evidence("CORS_PUBLIC_WILDCARD_OBSERVED", "root", 0, 100)>>)
<1>2. IsList(one \o two)
  <2>1. IsList(one) /\ IsList(two) BY OneOrNone
  <2> HIDE DEF one, two
  <2> QED BY <2>1, JoinedSet
<1>3. CollectCORSScope(w, a) = Collected(a, one \o two) BY DEF CollectCORSScope
<1>4. CollectCORSScope(w, b) = Collected(b, one \o two)
  <2> DEFINE related == HasRelatedDomainImpactCandidate(b)
  <2>1. asked = (related /\ w.parent.allowed /\ w.host # w.root) BY <1>1
  <2> QED BY <1>1, <2>1 DEF CollectCORSScope, If
<1> HIDE DEF one, two
<1> QED BY <1>2, <1>3, <1>4, EvenCollected

LEMMA TXTResidualEven ==
  ASSUME NEW w, Listed(w), NEW a, NEW b, Even(a, b) PROVE Even(CollectTXTResidual(w, a), CollectTXTResidual(w, b))
<1> DEFINE tokens == Tokens(w)
           part(l, t) == If(t.service \notin {c.provider : c \in {d \in l : d.vector # "TXT"}},
                            <<Evidence("TXT_OWNERSHIP_TOKEN_RESIDUAL", t.service, 0, 70)>>)
           said(l) == FlattenSeq([i \in DOMAIN tokens |-> part(l, tokens[i])])
<1>1. \A x : CollectTXTResidual(w, x) = Collected(x, said(x.candidates)) BY DEF CollectTXTResidual, EachOf
<1>2. ASSUME NEW l PROVE IsList(said(l))
  <2>1. IsList(tokens) BY TokensAreAList, ProfileIsListed
  <2>2. \A t : IsList(part(l, t)) BY OneOrNone
  <2> HIDE DEF part, tokens
  <2> QED BY <2>1, <2>2, EachIsAList
<1>3. a.candidates = b.candidates BY EvenReads
<1> HIDE DEF said
<1> QED BY <1>1, <1>2, <1>3, EvenCollected

LEMMA HistoryIsFinite == IsFiniteSet(HistoryVectors)
<1>1. \A S, x : IsFiniteSet(S) => IsFiniteSet(S \cup {x}) BY FS_AddElement
<1>2. IsFiniteSet({"CNAME_PROVIDER_MATCH"}) BY FS_Singleton
<1>3. IsFiniteSet({"CNAME_PROVIDER_MATCH"} \cup {"MX_PROVIDER_MATCH"}) BY <1>1, <1>2, Zenon
<1>4. IsFiniteSet(({"CNAME_PROVIDER_MATCH"} \cup {"MX_PROVIDER_MATCH"}) \cup {"SRV_PROVIDER_MATCH"})
  BY <1>1, <1>3, Zenon
<1>5. IsFiniteSet((({"CNAME_PROVIDER_MATCH"} \cup {"MX_PROVIDER_MATCH"}) \cup {"SRV_PROVIDER_MATCH"})
                    \cup {"TLS_PROVIDER_MATCH"}) BY <1>1, <1>4, Zenon
<1>6. IsFiniteSet(((({"CNAME_PROVIDER_MATCH"} \cup {"MX_PROVIDER_MATCH"}) \cup {"SRV_PROVIDER_MATCH"})
                    \cup {"TLS_PROVIDER_MATCH"}) \cup {"CLOUD_IP_CONTEXT"}) BY <1>1, <1>5, Zenon
<1>7. HistoryVectors = ((({"CNAME_PROVIDER_MATCH"} \cup {"MX_PROVIDER_MATCH"}) \cup {"SRV_PROVIDER_MATCH"})
                         \cup {"TLS_PROVIDER_MATCH"}) \cup {"CLOUD_IP_CONTEXT"}
  BY DEF HistoryVectors
<1> QED BY <1>6, <1>7, Zenon

LEMMA ProviderHistoryEven ==
  ASSUME NEW w, NEW a, NEW b, Even(a, b) PROVE Even(CollectProviderHistory(w, a), CollectProviderHistory(w, b))
<1> DEFINE old == ProviderHistory(w.previous)
           moved(n) == {v \in HistoryVectors : {} \notin {old[v], n[v]} /\ old[v] # n[v]}
           part(n, v) == <<Evidence(IF old[v] \cap n[v] # {} THEN "PROVIDER_MIGRATION_STALE_REFERENCE" ELSE "PROVIDER_MIGRATION_DETECTED",
                                    "HISTORY", 0, 90)>>
           list(n) == SetToSeq(moved(n))
           said(n) == FlattenSeq([i \in DOMAIN list(n) |-> part(n, list(n)[i])])
<1>1. \A x : CollectProviderHistory(w, x) = Collected(Tested(x, "PROVIDER_HISTORY"), said(ProviderHistory(x.evidence)))
  BY DEF CollectProviderHistory, EachOf
<1>2. ASSUME NEW n PROVE IsList(said(n))
  <2>1. IsFiniteSet(HistoryVectors) BY HistoryIsFinite
  <2>2. moved(n) \subseteq HistoryVectors OBVIOUS
  <2>3. \A v : IsList(part(n, v)) BY ListOne
  <2>4. IsList(list(n))
    <3> HIDE DEF moved
    <3>1. IsFiniteSet(moved(n)) BY <2>1, <2>2, FS_Subset
    <3> QED BY <3>1, SetToSeqIsAList, ListOfASet
  <2> HIDE DEF part, list
  <2> QED BY <2>3, <2>4, EachIsAList
<1>3. ProviderHistory(a.evidence) = ProviderHistory(b.evidence)
  <2>1. \A v : OfType(a.evidence, v) = OfType(b.evidence, v) BY EvenReads
  <2> QED BY <2>1 DEF ProviderHistory
<1> HIDE DEF said
<1> QED BY <1>1, <1>2, <1>3, EvenNoting

LEMMA RedirectsEven ==
  ASSUME NEW w, NEW a, NEW b, Even(a, b) PROVE Even(CollectRedirects(w, a), CollectRedirects(w, b))
<1> DEFINE follows(h, s) == h[s].seen /\ h[s].complete /\ RedirectStatus(h[s].status)
           chain(s) == RedirectChain(w, s)
           hops(s) == [i \in 1..chain(s).hops |-> Evidence("HTTP_REDIRECT_HOP", s, 0, 100)]
           part(h, s) == If(follows(h, s), chain(s).evidence \o hops(s))
           schemes == <<"http", "https">>
           said(h) == FlattenSeq([i \in DOMAIN schemes |-> part(h, schemes[i])])
           noted(x) == Collected(Tested(x, "REDIRECT_CHAIN"), said(x.http))
           chains(h, c) == [s \in Schemes |->
                        IF ~follows(h, s) THEN c[s]
                        ELSE [followed |-> TRUE, hops |-> chain(s).hops, stopped |-> chain(s).stopped, final |-> chain(s).final]]
<1>1. ASSUME NEW h, NEW s PROVE IsList(part(h, s))
  <2>1. Free(chain(s).evidence, Grave) /\ chain(s).hops \in Nat BY RedirectChainIsQuiet DEF Quiet
  <2>2. IsList(chain(s).evidence) BY <2>1, FreeIsAList
  <2>3. IsList(hops(s))
    <3>1. hops(s) = [i \in 1..chain(s).hops |-> hops(s)[i]] OBVIOUS
    <3> HIDE DEF hops, chain
    <3> QED BY <2>1, <3>1, StretchIsAList
  <2> HIDE DEF hops, chain, follows
  <2>4. IsList(chain(s).evidence \o hops(s)) BY <2>2, <2>3, JoinedSet
  <2> QED BY <2>4, ListIf
<1>2. \A h : IsList(said(h))
  <2>1. IsList(schemes) BY TwoSchemes
  <2> HIDE DEF part, schemes
  <2>2. QED BY <1>1, <2>1, EachIsAList
<1>3. \A x : CollectRedirects(w, x) = [noted(x) EXCEPT !.chains = chains(x.http, x.chains)]
  BY Zenon DEF CollectRedirects, EachOf, Completed
<1>4. a.http = b.http /\ a.chains = b.chains BY EvenReads
<1>5. Even(noted(a), noted(b))
  <2> HIDE DEF said
  <2> QED BY <1>2, <1>4, EvenNoting
<1> HIDE DEF noted, chains
<1>6. PICK c, d, u : c = noted(a) /\ d = noted(b) /\ u = chains(a.http, a.chains) /\ u = chains(b.http, b.chains) BY <1>4
<1>7. Even([c EXCEPT !["chains"] = u], [d EXCEPT !["chains"] = u])
  <2>1. Even(c, d) /\ "chains" # "evidence" BY <1>5, <1>6
  <2> QED BY <2>1, EvenWith
<1> QED BY <1>3, <1>6, <1>7

LEMMA VHostEven ==
  ASSUME NEW w, NEW a, NEW b, Even(a, b) PROVE Even(CollectVHost(w, a), CollectVHost(w, b))
<1> DEFINE part(h, s) ==
             LET one == w.vhosts[s].first
                 second == w.vhosts[s].second
             IN IF ~((h[s].seen /\ h[s].complete) /\ one.complete /\ second.complete /\ SameHTTPResponse(one, second)) THEN <<>>
                ELSE IF SameHTTPResponse(h[s], one) THEN <<Evidence("HTTP_WILDCARD_DETECTED", s, 0, 95)>>
                ELSE <<Evidence("VHOST_DIFFERENTIAL", s, 0, 95)>>
           schemes == <<"https", "http">>
           said(h) == FlattenSeq([i \in DOMAIN schemes |-> part(h, schemes[i])])
<1>1. \A x : CollectVHost(w, x) = Collected(Tested(x, "VHOST"), said(x.http)) BY Zenon DEF CollectVHost, EachOf, Completed
<1>2. \A h, s : IsList(part(h, s))
  <2>1. \A e : IsList(<<e>>) BY ListOne
  <2> QED BY <2>1, EmptyIsAList
<1>3. \A h : IsList(said(h))
  <2>1. IsList(schemes) BY TwoSchemes
  <2> HIDE DEF part, schemes
  <2>2. QED BY <1>2, <2>1, EachIsAList
<1>4. a.http = b.http BY EvenReads
<1> HIDE DEF said
<1> QED BY <1>1, <1>3, <1>4, EvenNoting

LEMMA DependencyIsAList == ASSUME NEW w, NEW ref PROVE IsList(InspectDependency(w, ref))
<1> DEFINE host == w.hosts[ref.host]
           asset == ref.source = "HTML" /\ ref.kind \in AssetKinds
           one == <<Evidence(IF ref.source = "CSP" THEN "CSP_DANGLING_DEPENDENCY" ELSE "SUBRESOURCE_DANGLING", ref.source, 20, 90)>>
           two == If(asset, <<Evidence("DEAD_ASSET_REFERENCE", ref.kind, 20, 90)>>)
           gone == ref.host \in w.allowed /\ host.status = "RESOLVED" /\ asset /\ UnavailableStatus(host.asset)
           three == If(gone, <<Evidence("DEAD_ASSET_HTTP", ref.kind, 0, 90)>>)
<1>1. IsList(one) /\ IsList(two) /\ IsList(three) BY ListOne, OneOrNone
<1>2. InspectDependency(w, ref) = IF host.service # "" /\ host.status \in Absent THEN one \o two ELSE three
  BY DEF InspectDependency
<1> HIDE DEF one, two, three, host
<1>3. IsList(one \o two) BY <1>1, JoinedSet
<1> QED BY <1>1, <1>2, <1>3

LEMMA WebDependenciesEven ==
  ASSUME NEW w, Listed(w), NEW a, NEW b, Even(a, b)
  PROVE Even(CollectWebDependencies(w, a), CollectWebDependencies(w, b))
<1> DEFINE part(ref) == InspectDependency(w, ref)
           said(r) == FlattenSeq([i \in DOMAIN r |-> part(r[i])])
<1>1. \A x : CollectWebDependencies(w, x) = Collected(Tested(x, "WEB_DEPENDENCIES"), said(References(w, x)))
  BY DEF CollectWebDependencies, EachOf
<1>2. References(w, a) = References(w, b)
  <2> DEFINE schemes == <<"https", "http">>
             refs(h, s) == If(h[s].seen /\ h[s].complete, w.web[s].refs)
             all(h) == FlattenSeq([i \in DOMAIN schemes |-> refs(h, schemes[i])])
             marked(l) == [i \in DOMAIN l |-> [ref |-> l[i], first |-> \A j \in 1..(i - 1) : l[j] # l[i]]]
             keep(x) == If(x.first /\ x.ref.host # w.host, <<x>>)
             foreign(m) == FlattenSeq([i \in DOMAIN m |-> keep(m[i])])
             some(l) == [i \in 1..AtMost(MaxWebDependencies, Len(l)) |-> l[i].ref]
  <2>1. \A x : References(w, x) = some(foreign(marked(all(x.http)))) BY Zenon DEF References, EachOf, Those, Completed
  <2> HIDE DEF all, marked, foreign, some
  <2>2. a.http = b.http BY EvenReads
  <2> QED BY <2>1, <2>2
<1>3. IsList(said(References(w, a)))
  <2>1. IsList(References(w, a)) BY ReferencesAreAList DEF Listed
  <2>2. \A ref : IsList(part(ref)) BY DependencyIsAList
  <2>3. PICK r : r = References(w, a) OBVIOUS
  <2> HIDE DEF part
  <2>4. IsList(said(r)) BY <2>1, <2>2, <2>3, EachIsAList
  <2> QED BY <2>3, <2>4
<1> HIDE DEF said
<1> QED BY <1>1, <1>2, <1>3, EvenNoting

LEMMA HTTPPostureEven == ASSUME NEW w, NEW a, NEW b, Even(a, b) PROVE Even(CollectHTTPPosture(w, a), CollectHTTPPosture(w, b))
  BY EvenTested DEF CollectHTTPPosture

LEMMA OriginCandidatesAlike ==
  ASSUME NEW w, NEW a, NEW b, Even(a, b) PROVE OriginCandidates(w, a) = OriginCandidates(w, b)
<1> DEFINE candidate(target, kind) == [target |-> target, kind |-> kind]
           schemes == <<"https", "http">>
           header(h, s) == If((h[s].seen /\ h[s].complete) /\ w.web[s].origin # "", <<candidate(w.web[s].origin, "header")>>)
           headers(h) == FlattenSeq([i \in DOMAIN schemes |-> header(h, schemes[i])])
           addresses == w.a \o w.aaaa
           near(d, ip) == If(ip.public /\ ip.asn # "" /\ Known(ip.signature) /\ ip.signature.service # d, <<candidate(ip.address, "dns")>>)
           dns(d) == FlattenSeq([i \in DOMAIN addresses |-> near(d, addresses[i])])
           named(n) == If(n.origin, <<candidate(n.name, "tls")>>)
           tls(x) == IF Has(x.evidence, "TLS_CERTIFICATE_OBSERVED") THEN FlattenSeq([i \in DOMAIN w.tls.sans |-> named(w.tls.sans[i])]) ELSE <<>>
           all(x) == headers(x.http) \o dns(x.cdn) \o tls(x)
           marked(l) == [i \in DOMAIN l |-> [c |-> l[i], first |-> \A j \in 1..(i - 1) : l[j] # l[i]]]
           keep(x) == If(x.first /\ x.c.target # w.host, <<x>>)
           distinct(m) == FlattenSeq([i \in DOMAIN m |-> keep(m[i])])
           some(l) == [i \in 1..AtMost(MaxOriginCandidates, Len(l)) |-> l[i].c]
<1>1. \A x : OriginCandidates(w, x) = some(distinct(marked(all(x))))
  BY ZenonT(60) DEF OriginCandidates, EachOf, Those, Completed
<1>2. a.http = b.http /\ a.cdn = b.cdn /\ (Has(a.evidence, "TLS_CERTIFICATE_OBSERVED") <=> Has(b.evidence, "TLS_CERTIFICATE_OBSERVED"))
  BY EvenReads
<1>3. tls(a) = tls(b) BY <1>2
<1> HIDE DEF headers, dns, tls
<1>4. all(a) = all(b) BY <1>2, <1>3
<1> HIDE DEF all, marked, distinct, some
<1> QED BY <1>1, <1>4

LEMMA OriginEven ==
  ASSUME NEW w, Listed(w), NEW a, NEW b, Even(a, b) PROVE Even(CollectOrigin(w, a), CollectOrigin(w, b))
<1> DEFINE match(h, target) == target \in w.allowed /\ \E s \in Schemes : (h[s].seen /\ h[s].complete) /\ w.direct[target][s] >= 2
           one(c) == << IF c.kind = "header" THEN Evidence("ORIGIN_EXPOSURE_CANDIDATE", c.kind, 0, 85)
                                             ELSE Evidence("ORIGIN_EXPOSURE_HINT", c.kind, 0, 60) >>
           two(h, c) == If(match(h, c.target), <<Evidence("ORIGIN_DIRECT_MATCH", c.kind, 20, 95)>>)
           part(h, c) == one(c) \o two(h, c)
           said(h, l) == FlattenSeq([i \in DOMAIN l |-> part(h, l[i])])
<1>1. \A x : CollectOrigin(w, x) =
        IF ~BehindCDN(x) THEN x ELSE Collected(Tested(x, "ORIGIN_EXPOSURE"), said(x.http, OriginCandidates(w, x)))
  BY Zenon DEF CollectOrigin, EachOf, DirectMatch, Completed
<1>2. PICK l, h : l = OriginCandidates(w, a) /\ l = OriginCandidates(w, b) /\ h = a.http /\ h = b.http
  <2>1. OriginCandidates(w, a) = OriginCandidates(w, b) /\ a.http = b.http BY OriginCandidatesAlike, EvenReads
  <2> QED BY <2>1
<1>3. IsList(said(h, l))
  <2>1. IsList(l)
    <3>1. IsList(w.a) /\ IsList(w.aaaa) /\ IsList(w.tls.sans) BY ProfileIsListed DEF Listed
    <3> QED BY <1>2, <3>1, OriginCandidatesAreAList
  <2>2. ASSUME NEW c PROVE IsList(part(h, c))
    <3>1. IsList(one(c)) /\ IsList(two(h, c)) BY ListOne, OneOrNone
    <3> HIDE DEF one, two
    <3> QED BY <3>1, JoinedSet
  <2> HIDE DEF part
  <2> QED BY <2>1, <2>2, EachIsAList
<1>4. BehindCDN(a) <=> BehindCDN(b)
  <2>1. a.cdn = b.cdn /\ (Has(a.evidence, "CDN_DETECTED") <=> Has(b.evidence, "CDN_DETECTED")) BY EvenReads
  <2> QED BY <2>1 DEF BehindCDN
<1> HIDE DEF said
<1>5. Even(Collected(Tested(a, "ORIGIN_EXPOSURE"), said(h, l)), Collected(Tested(b, "ORIGIN_EXPOSURE"), said(h, l)))
  BY <1>3, EvenNoting
<1> QED BY <1>1, <1>2, <1>4, <1>5

Later == {"http_mutator", "http_framing", "correlator"} \cup ToSet(Impact)

LEMMA LaterEven ==
  ASSUME NEW w, Listed(w), NEW name \in Later, NEW a, NEW b, Even(a, b)
  PROVE Even(Collector(name, w, a), Collector(name, w, b))
<1>1. Even(CollectMutator(w, a), CollectMutator(w, b)) BY MutatorEven
<1>2. Even(CollectFraming(w, a), CollectFraming(w, b)) BY FramingEven
<1>3. Even(Correlate(w, a), Correlate(w, b)) BY CorrelateEven
<1>4. Even(CollectCAA(w, a), CollectCAA(w, b)) BY CAAEven
<1>5. Even(CollectCookieScope(w, a), CollectCookieScope(w, b)) BY CookieScopeEven
<1>6. Even(CollectCORSScope(w, a), CollectCORSScope(w, b)) BY CORSScopeEven
<1>7. Even(CollectTXTResidual(w, a), CollectTXTResidual(w, b)) BY TXTResidualEven
<1>8. Even(CollectProviderHistory(w, a), CollectProviderHistory(w, b)) BY ProviderHistoryEven
<1>9. Even(CollectRedirects(w, a), CollectRedirects(w, b)) BY RedirectsEven
<1>10. Even(CollectHTTPPosture(w, a), CollectHTTPPosture(w, b)) BY HTTPPostureEven
<1>11. Even(CollectVHost(w, a), CollectVHost(w, b)) BY VHostEven
<1>12. Even(CollectWebDependencies(w, a), CollectWebDependencies(w, b)) BY WebDependenciesEven
<1>13. Even(CollectOrigin(w, a), CollectOrigin(w, b)) BY OriginEven
<1>14. name \in {"http_mutator", "http_framing", "correlator", "caa", "cookie_scope", "cors_scope", "txt_residual",
                 "provider_history", "redirect_chain", "http_posture", "vhost", "web_dependency", "origin"}
  <2>1. ToSet(Impact) \subseteq {"caa", "cookie_scope", "cors_scope", "txt_residual",
                 "provider_history", "redirect_chain", "http_posture", "vhost", "web_dependency", "origin"}
    BY DEF ToSet, Impact
  <2> QED BY <2>1 DEF Later
<1> QED BY <1>1, <1>2, <1>3, <1>4, <1>5, <1>6, <1>7, <1>8, <1>9, <1>10, <1>11, <1>12, <1>13, <1>14 DEF Collector

-----------------------------------------------------------------------------
(* The independent collectors: what each gives, whoever went before it.     *)

\* Which of the independent collectors gives evidence of a type.
Author ==
  [NULL_MX_PRESENT |-> "mx", MX_PROVIDER_MATCH |-> "mx", MX_BROKEN |-> "mx", MX_PRIMARY_BROKEN_WITH_FALLBACK |-> "mx",
   MX_BACKUP_BROKEN |-> "mx", MX_UNRESOLVABLE |-> "mx", TXT_VERIFICATION_TOKEN |-> "txt", SRV_PROVIDER_MATCH |-> "srv",
   SRV_BROKEN |-> "srv", SRV_UNRESOLVABLE |-> "srv", TLS_CERTIFICATE_OBSERVED |-> "tls", TLS_PROVIDER_MATCH |-> "tls",
   TLS_EXPIRED |-> "tls", TLS_SELF_SIGNED |-> "tls", TLS_MISMATCH |-> "tls", TLS_SAN_MATCH |-> "tls",
   TLS_CERTIFICATE_DRIFT |-> "tls", TLS_SAN_CANDIDATE |-> "tls", SNI_CERT_MISMATCH |-> "tls", CLOUD_IP_CONTEXT |-> "ip",
   ASN_MATCH |-> "ip", EMAIL_SPF_MISSING |-> "email", EMAIL_SPF_PERMISSIVE |-> "email", EMAIL_DMARC_MISSING |-> "email",
   SPF_LOOKUP_LIMIT_EXCEEDED |-> "email", SPF_BROKEN_INCLUDE |-> "email", SPF_INCLUDE_WITHOUT_POLICY |-> "email",
   SPF_INCLUDE_CYCLE |-> "email", HTTP_OPEN_REDIRECT |-> "http_security", SHADOW_IT_DETECTED |-> "shadow_it",
   DNS_AXFR_ALLOWED |-> "zone_transfer", DNSSEC_ARTIFACTS_OBSERVED |-> "dnssec", DNSSEC_BOGUS |-> "dnssec",
   DNSSEC_SERVFAIL_INCONCLUSIVE |-> "dnssec", DNSSEC_VALIDATED |-> "dnssec",
   LONG_LIVED_ORPHAN |-> "", CORRELATED_PROVIDER_CONFIRMATION |-> ""]

LEMMA Authors ==
  /\ \A t \in {"NULL_MX_PRESENT", "MX_PROVIDER_MATCH", "MX_BROKEN", "MX_PRIMARY_BROKEN_WITH_FALLBACK",
               "MX_BACKUP_BROKEN", "MX_UNRESOLVABLE"} : Author[t] = "mx"
  /\ Author["TXT_VERIFICATION_TOKEN"] = "txt"
  /\ \A t \in {"SRV_PROVIDER_MATCH", "SRV_BROKEN", "SRV_UNRESOLVABLE"} : Author[t] = "srv"
  /\ \A t \in {"TLS_CERTIFICATE_OBSERVED", "TLS_PROVIDER_MATCH", "TLS_EXPIRED", "TLS_SELF_SIGNED", "TLS_MISMATCH",
               "TLS_SAN_MATCH", "TLS_CERTIFICATE_DRIFT", "TLS_SAN_CANDIDATE", "SNI_CERT_MISMATCH"} : Author[t] = "tls"
  /\ \A t \in {"CLOUD_IP_CONTEXT", "ASN_MATCH"} : Author[t] = "ip"
  /\ \A t \in {"EMAIL_SPF_MISSING", "EMAIL_SPF_PERMISSIVE", "EMAIL_DMARC_MISSING", "SPF_LOOKUP_LIMIT_EXCEEDED",
               "SPF_BROKEN_INCLUDE", "SPF_INCLUDE_WITHOUT_POLICY", "SPF_INCLUDE_CYCLE"} : Author[t] = "email"
  /\ Author["HTTP_OPEN_REDIRECT"] = "http_security" /\ Author["SHADOW_IT_DETECTED"] = "shadow_it"
  /\ Author["DNS_AXFR_ALLOWED"] = "zone_transfer"
  /\ \A t \in {"DNSSEC_ARTIFACTS_OBSERVED", "DNSSEC_BOGUS", "DNSSEC_SERVFAIL_INCONCLUSIVE", "DNSSEC_VALIDATED"} :
       Author[t] = "dnssec"
  /\ \A t \in Reinforcing : Author[t] = ""
  BY SMTT(60) DEF Author, Reinforcing

\* A list of evidence of one author.
Only(s, n) == IsList(s) /\ \A e \in ToSet(s) : Author[e.type] = n

LEMMA OnlyOfASet == ASSUME NEW S, NEW n, NEW s \in Seq(S), \A e \in S : Author[e.type] = n PROVE Only(s, n)
  BY ListOfASet DEF Only, ToSet

LEMMA OnlyNone == ASSUME NEW n PROVE Only(<<>>, n)
  BY EmptyIsAList DEF Only, ToSet

LEMMA OnlyOne == ASSUME NEW n, NEW e, Author[e.type] = n PROVE Only(<<e>>, n)
  BY ListOne DEF Only, ToSet

LEMMA OnlySaid ==
  ASSUME NEW n, NEW type, Author[type] = n, NEW source, NEW weight, NEW confidence
  PROVE /\ Only(<<Evidence(type, source, weight, confidence)>>, n)
        /\ Only(<<Mitigation(type, source, weight, confidence)>>, n)
  BY OnlyOne, Types0

LEMMA OnlyIf == ASSUME NEW n, NEW holds, NEW s, Only(s, n) PROVE Only(If(holds, s), n)
  BY OnlyNone DEF If

LEMMA OnlyJoin == ASSUME NEW n, NEW s, NEW t, Only(s, n), Only(t, n) PROVE Only(s \o t, n)
<1>1. IsList(s \o t) /\ ToSet(s \o t) = ToSet(s) \cup ToSet(t) BY JoinedSet DEF Only
<1> QED BY <1>1 DEF Only

LEMMA OnlyEach ==
  ASSUME NEW n, NEW list, IsList(list), NEW parts, parts = [i \in DOMAIN list |-> parts[i]],
         \A i \in DOMAIN list : Only(parts[i], n)
  PROVE Only(FlattenSeq(parts), n)
<1> DEFINE U == UNION {ToSet(parts[i]) : i \in DOMAIN list}
<1>1. \A i \in DOMAIN list : ToSet(parts[i]) \subseteq U OBVIOUS
<1>2. \A i \in DOMAIN list : parts[i] \in Seq(ToSet(parts[i])) BY DEF Only, IsList
<1>3. \A e \in U : Author[e.type] = n BY DEF Only
<1> HIDE DEF U
<1>4. \A i \in DOMAIN list : parts[i] \in Seq(U) BY <1>1, <1>2
<1>5. FlattenSeq(parts) \in Seq(U) BY <1>4, EachInSet
<1> QED BY <1>3, <1>5, OnlyOfASet

\* The fields an independent collector writes, and what it adds to them.
Added == {"evidence", "candidates", "tested"}

Adds(y, x, e, l, v) ==
  /\ DOMAIN y = DOMAIN x
  /\ y.evidence = x.evidence \o e /\ y.candidates = x.candidates \cup l /\ y.tested = x.tested \cup v
  /\ \A f \in DOMAIN x \ Added : y[f] = x[f]

Ready(x) == Added \subseteq DOMAIN x /\ IsList(x.evidence)

LEMMA AddsAll ==
  ASSUME NEW x, Ready(x), NEW e, NEW links, NEW v
  PROVE Adds(Linked(Collected(Tested(x, v), e), links), x, e, ToSet(links), {v})
  BY DEF Ready, Added, Adds, Linked, Collected, Tested

LEMMA AddsMore ==
  ASSUME NEW x, Ready(x), NEW e, NEW V
  PROVE Adds(Collected([x EXCEPT !.tested = @ \cup V], e), x, e, {}, V)
  BY DEF Ready, Added, Adds, Collected

LEMMA AddsNoLinks ==
  ASSUME NEW x, Ready(x), NEW e, NEW v PROVE Adds(Collected(Tested(x, v), e), x, e, {}, {v})
  BY DEF Ready, Added, Adds, Collected, Tested

LEMMA JoinNothing == ASSUME NEW s, IsList(s) PROVE s \o <<>> = s
  BY DEF IsList

LEMMA AddsVector == ASSUME NEW x, Ready(x), NEW v PROVE Adds(Tested(x, v), x, <<>>, {}, {v})
  BY JoinNothing DEF Ready, Added, Adds, Tested

LEMMA AddsNothing == ASSUME NEW x, Ready(x) PROVE Adds(x, x, <<>>, {}, {})
  BY JoinNothing DEF Ready, Added, Adds

\* Two analyses of which an independent collector sees the same.
View(x, a) == Ready(x) /\ x.http = a.http /\ x.delegation = a.delegation

\* What an independent collector adds, to whatever it is given.
Gives(n, w, a, e, l, v) == Only(e, n) /\ \A x : View(x, a) => Adds(Collector(n, w, x), x, e, l, v)

LEMMA ViewIsReady == ASSUME NEW x, NEW a, View(x, a) PROVE Ready(x) /\ x.http = a.http /\ x.delegation = a.delegation
  BY DEF View

LEMMA OnlyMatched ==
  ASSUME NEW n, NEW type, Author[type] = n, NEW targets, IsList(targets) PROVE Only(Matched(type, targets), n)
<1> DEFINE part(t) == If(Known(t.signature), <<Evidence(type, t.signature.service, 1, Sure(t.signature.confidence))>>)
           parts == [i \in DOMAIN targets |-> part(targets[i])]
<1>1. \A t : Only(part(t), n) BY OnlySaid, OnlyIf, ZenonT(60)
<1>2. parts = [i \in DOMAIN targets |-> parts[i]] /\ \A i \in DOMAIN targets : Only(parts[i], n)
  <2> HIDE DEF part
  <2> QED BY <1>1
<1>3. Matched(type, targets) = FlattenSeq(parts) BY DEF Matched, EachOf
<1> HIDE DEF parts
<1> QED BY <1>2, <1>3, OnlyEach

LEMMA OnlyMXStatus ==
  ASSUME NEW targets, IsList(targets) PROVE Only(MXStatusEvidence(targets), "mx")
<1> DEFINE lowest == Min({targets[i].preference : i \in DOMAIN targets})
           healthy == \E i \in DOMAIN targets : targets[i].status = "RESOLVED"
           broken(t) ==
             CASE ~healthy -> <<Evidence("MX_BROKEN", "DNS", 20, 90)>>
               [] healthy /\ t.preference = lowest -> <<Evidence("MX_PRIMARY_BROKEN_WITH_FALLBACK", "DNS", 10, 90)>>
               [] OTHER -> <<Evidence("MX_BACKUP_BROKEN", "DNS", 5, 90)>>
           part(t) == CASE t.status \in Absent -> broken(t)
                        [] t.status \in Transient -> <<Evidence("MX_UNRESOLVABLE", "DNS", 1, 40)>>
                        [] OTHER -> <<>>
           parts == [i \in DOMAIN targets |-> part(targets[i])]
<1>1. \A t : Only(broken(t), "mx")
  <2> HIDE DEF healthy, lowest
  <2> QED BY OnlySaid, Authors, ZenonT(60)
<1>2. \A t : Only(part(t), "mx")
  <2> HIDE DEF broken
  <2>1. Only(<<Evidence("MX_UNRESOLVABLE", "DNS", 1, 40)>>, "mx") BY OnlySaid, Authors, ZenonT(60)
  <2> QED BY <1>1, <2>1, OnlyNone DEF Absent, Negative, Transient
<1>3. parts = [i \in DOMAIN targets |-> parts[i]] /\ \A i \in DOMAIN targets : Only(parts[i], "mx")
  <2> HIDE DEF part
  <2> QED BY <1>2
<1>4. MXStatusEvidence(targets) = FlattenSeq(parts) BY SMTT(60) DEF MXStatusEvidence, EachOf
<1> HIDE DEF parts
<1> QED BY <1>3, <1>4, OnlyEach

LEMMA MXGives == ASSUME NEW w, Listed(w), NEW a PROVE \E e, l, v : Gives("mx", w, a, e, l, v)
<1> DEFINE targets == Those(w.mx, LAMBDA t : t.target # ".")
           part(t) == If(t.target = ".", <<Mitigation("NULL_MX_PRESENT", "DNS", 0, 100)>>)
           parts == [i \in DOMAIN w.mx |-> part(w.mx[i])]
           status == IF targets = <<>> THEN <<>> ELSE MXStatusEvidence(targets)
           said == FlattenSeq(parts) \o Matched("MX_PROVIDER_MATCH", targets) \o status
           links == TargetLinks("MX", targets)
<1>1. IsList(w.mx) /\ Rated(w.mx) BY DEF Listed, ProfileLists, Ratings
<1>2. IsList(targets) BY <1>1, OthersThanRoot, SMTT(60)
<1>3. \A t : Only(part(t), "mx") BY OnlySaid, OnlyIf, Authors, ZenonT(60)
<1>4. parts = [i \in DOMAIN w.mx |-> parts[i]] /\ \A i \in DOMAIN w.mx : Only(parts[i], "mx")
  <2> HIDE DEF part
  <2> QED BY <1>3
<1>5. \A x : CollectMX(w, x) = Linked(Collected(Tested(x, "MX"), said), links) BY DEF CollectMX, EachOf
<1> HIDE DEF parts, targets
<1>6. Only(FlattenSeq(parts), "mx") BY <1>1, <1>4, OnlyEach
<1>7. Only(Matched("MX_PROVIDER_MATCH", targets), "mx") BY <1>2, OnlyMatched, Authors
<1>8. Only(status, "mx") BY <1>2, OnlyMXStatus, OnlyNone
<1> HIDE DEF status
<1>9. Only(said, "mx") BY <1>6, <1>7, <1>8, OnlyJoin
<1> HIDE DEF said, links
<1>10. \A x : View(x, a) => Adds(CollectMX(w, x), x, said, ToSet(links), {"MX"}) BY <1>5, AddsAll, ViewIsReady
<1>11. \A x : Collector("mx", w, x) = CollectMX(w, x) BY DEF Collector
<1>12. Gives("mx", w, a, said, ToSet(links), {"MX"}) BY <1>9, <1>10, <1>11 DEF Gives
<1> QED BY <1>12

LEMMA SRVGives == ASSUME NEW w, Listed(w), NEW a PROVE \E e, l, v : Gives("srv", w, a, e, l, v)
<1> DEFINE targets == Those(w.srv, LAMBDA t : t.target # ".")
           status(t) == CASE t.status \in Absent -> <<Evidence("SRV_BROKEN", "DNS", 20, 90)>>
                          [] t.status \in Transient -> <<Evidence("SRV_UNRESOLVABLE", "DNS", 1, 40)>>
                          [] OTHER -> <<>>
           part(t) == Matched("SRV_PROVIDER_MATCH", <<t>>) \o status(t)
           parts == [i \in DOMAIN targets |-> part(targets[i])]
           said == FlattenSeq(parts)
           links == TargetLinks("SRV", targets)
<1>1. IsList(w.srv) /\ Rated(w.srv) BY DEF Listed, ProfileLists, Ratings
<1>2. IsList(targets) BY <1>1, OthersThanRoot
<1>3. \A t : Only(status(t), "srv")
  <2>1. Only(<<Evidence("SRV_BROKEN", "DNS", 20, 90)>>, "srv") /\ Only(<<Evidence("SRV_UNRESOLVABLE", "DNS", 1, 40)>>, "srv")
    BY OnlySaid, Authors, ZenonT(60)
  <2> QED BY <2>1, OnlyNone, SMTT(60)
<1>4. \A t : Only(part(t), "srv")
  <2> HIDE DEF status
  <2>1. \A t : Only(Matched("SRV_PROVIDER_MATCH", <<t>>), "srv") BY ListOne, OnlyMatched, Authors
  <2> QED BY <1>3, <2>1, OnlyJoin
<1>5. parts = [i \in DOMAIN targets |-> parts[i]] /\ \A i \in DOMAIN targets : Only(parts[i], "srv")
  <2> HIDE DEF part, targets
  <2> QED BY <1>4
<1>6. \A x : CollectSRV(w, x) = Linked(Collected(Tested(x, "SRV"), said), links) BY DEF CollectSRV, EachOf
<1> HIDE DEF parts, targets
<1>7. Only(said, "srv") BY <1>2, <1>5, OnlyEach
<1> HIDE DEF said, links
<1>8. \A x : View(x, a) => Adds(CollectSRV(w, x), x, said, ToSet(links), {"SRV"}) BY <1>6, AddsAll, ViewIsReady
<1>9. \A x : Collector("srv", w, x) = CollectSRV(w, x) BY DEF Collector
<1>10. Gives("srv", w, a, said, ToSet(links), {"SRV"}) BY <1>7, <1>8, <1>9 DEF Gives
<1> QED BY <1>10

LEMMA IPGives == ASSUME NEW w, Listed(w), NEW a PROVE \E e, l, v : Gives("ip", w, a, e, l, v)
<1> DEFINE addresses == w.a \o w.aaaa
           keep(ip) == If(ip.public /\ ip.asn # "", <<ip>>)
           told == FlattenSeq([i \in DOMAIN addresses |-> keep(addresses[i])])
           context(ip) == IF Known(ip.signature) THEN <<Evidence("CLOUD_IP_CONTEXT", ip.signature.service, 1, 90)>>
                          ELSE <<Evidence("ASN_MATCH", "Team Cymru", 1, 60)>>
           link(ip) == If(Known(ip.signature), <<Link(ip.signature.service, "A", ip.address)>>)
           parts == [i \in DOMAIN told |-> context(told[i])]
           said == FlattenSeq(parts)
           links == FlattenSeq([i \in DOMAIN told |-> link(told[i])])
<1>1. IsList(addresses)
  <2>1. IsList(w.a) /\ IsList(w.aaaa) BY ProfileIsListed
  <2> QED BY <2>1, ListJoin
<1>2. \A ip : keep(ip) \in {<<>>, <<ip>>} BY DEF If
<1>3. IsList(told)
  <2> HIDE DEF keep, addresses
  <2> QED BY <1>1, <1>2, Filtered
<1>4. \A ip : Only(context(ip), "ip") BY OnlySaid, Authors, ZenonT(60)
<1>5. parts = [i \in DOMAIN told |-> parts[i]] /\ \A i \in DOMAIN told : Only(parts[i], "ip")
  <2> HIDE DEF context, told
  <2> QED BY <1>4
<1>6. \A x : CollectIP(w, x) = Linked(Collected(Tested(x, "A_AAAA_ASN"), said), links) BY ZenonT(60) DEF CollectIP, EachOf, Those
<1> HIDE DEF told, parts
<1>7. Only(said, "ip") BY <1>3, <1>5, OnlyEach
<1> HIDE DEF said, links
<1>8. \A x : View(x, a) => Adds(CollectIP(w, x), x, said, ToSet(links), {"A_AAAA_ASN"}) BY <1>6, AddsAll, ViewIsReady
<1>9. \A x : Collector("ip", w, x) = CollectIP(w, x) BY DEF Collector
<1>10. Gives("ip", w, a, said, ToSet(links), {"A_AAAA_ASN"}) BY <1>7, <1>8, <1>9 DEF Gives
<1> QED BY <1>10

LEMMA TXTGives == ASSUME NEW w, Listed(w), NEW a PROVE \E e, l, v : Gives("txt", w, a, e, l, v)
<1> DEFINE tokens == Tokens(w)
           part(t) == <<Evidence("TXT_VERIFICATION_TOKEN", t.service, 1, Sure(t.confidence))>>
           parts == [i \in DOMAIN tokens |-> part(tokens[i])]
           said == FlattenSeq(parts)
           links == [i \in DOMAIN tokens |-> Link(tokens[i].service, "TXT", w.host)]
<1>1. IsList(tokens)
  <2>1. IsList(w.txt) BY ProfileIsListed
  <2> QED BY <2>1, TokensAreAList, SMTT(60)
<1>2. \A t : Only(part(t), "txt") BY OnlySaid, Authors, ZenonT(60)
<1>3. parts = [i \in DOMAIN tokens |-> parts[i]] /\ \A i \in DOMAIN tokens : Only(parts[i], "txt")
  <2> HIDE DEF part, tokens
  <2> QED BY <1>2
<1>4. \A x : CollectTXT(w, x) = Linked(Collected(Tested(x, "TXT"), said), links) BY DEF CollectTXT, EachOf
<1> HIDE DEF tokens, parts
<1>5. Only(said, "txt") BY <1>1, <1>3, OnlyEach
<1> HIDE DEF said, links
<1>6. \A x : View(x, a) => Adds(CollectTXT(w, x), x, said, ToSet(links), {"TXT"}) BY <1>4, AddsAll, ViewIsReady
<1>7. \A x : Collector("txt", w, x) = CollectTXT(w, x) BY DEF Collector
<1>8. Gives("txt", w, a, said, ToSet(links), {"TXT"}) BY <1>5, <1>6, <1>7 DEF Gives
<1> QED BY <1>8

LEMMA ShadowITGives == ASSUME NEW w, Listed(w), NEW a PROVE \E e, l, v : Gives("shadow_it", w, a, e, l, v)
<1> DEFINE part(n) == If(n.tracker, <<Evidence("SHADOW_IT_DETECTED", "ShadowIT", 0, 90)>>)
           parts == [i \in DOMAIN w.aliases |-> part(w.aliases[i])]
           said == FlattenSeq(parts)
<1>1. IsList(w.aliases) BY ProfileIsListed
<1>2. \A n : Only(part(n), "shadow_it") BY OnlySaid, OnlyIf, Authors, ZenonT(60)
<1>3. parts = [i \in DOMAIN w.aliases |-> parts[i]] /\ \A i \in DOMAIN w.aliases : Only(parts[i], "shadow_it")
  <2> HIDE DEF part
  <2> QED BY <1>2
<1>4. \A x : CollectShadowIT(w, x) = Collected(Tested(x, "SHADOW_IT"), said) BY DEF CollectShadowIT, EachOf
<1> HIDE DEF parts
<1>5. Only(said, "shadow_it") BY <1>1, <1>3, OnlyEach
<1> HIDE DEF said
<1>6. \A x : View(x, a) => Adds(CollectShadowIT(w, x), x, said, {}, {"SHADOW_IT"}) BY <1>4, AddsNoLinks, ViewIsReady
<1>7. \A x : Collector("shadow_it", w, x) = CollectShadowIT(w, x) BY DEF Collector
<1>8. Gives("shadow_it", w, a, said, {}, {"SHADOW_IT"}) BY <1>5, <1>6, <1>7 DEF Gives
<1> QED BY <1>8

LEMMA DNSSECGives == ASSUME NEW w, Listed(w), NEW a PROVE \E e, l, v : Gives("dnssec", w, a, e, l, v)
<1> DEFINE state == DNSSECState(w.dnssec.normal, w.dnssec.authenticated, w.dnssec.disabled)
           one == If(DNSSECArtifacts(w.dnssec.artifacts) # {}, <<Evidence("DNSSEC_ARTIFACTS_OBSERVED", "DNSSEC", 0, 100)>>)
           two == CASE state = "BOGUS" -> <<Evidence("DNSSEC_BOGUS", "DNSSEC", 20, 95)>>
                    [] state = "SERVFAIL" -> <<Evidence("DNSSEC_SERVFAIL_INCONCLUSIVE", "DNSSEC", 0, 80)>>
                    [] state = "VALIDATED" -> <<Mitigation("DNSSEC_VALIDATED", "DNSSEC", 0, 90)>>
                    [] OTHER -> <<>>
           zone(d) == IF d.zone # "" THEN d.zone ELSE w.cut.zone
           said == one \o two
<1>1. Only(one, "dnssec") BY OnlySaid, OnlyIf, Authors, ZenonT(60)
<1>2. Only(two, "dnssec")
  <2> HIDE DEF state
  <2>1. /\ Only(<<Evidence("DNSSEC_BOGUS", "DNSSEC", 20, 95)>>, "dnssec")
        /\ Only(<<Evidence("DNSSEC_SERVFAIL_INCONCLUSIVE", "DNSSEC", 0, 80)>>, "dnssec")
        /\ Only(<<Mitigation("DNSSEC_VALIDATED", "DNSSEC", 0, 90)>>, "dnssec")
    BY OnlySaid, Authors, ZenonT(60)
  <2> QED BY <2>1, OnlyNone
<1>3. \A x : CollectDNSSEC(w, x) = IF zone(x.delegation) = "" THEN Tested(x, "DNSSEC") ELSE Collected(Tested(x, "DNSSEC"), said)
  BY DEF CollectDNSSEC, DelegatedZone
<1> HIDE DEF one, two, zone
<1>4. Only(said, "dnssec") BY <1>1, <1>2, OnlyJoin
<1> HIDE DEF said
<1>5. \A x : Collector("dnssec", w, x) = CollectDNSSEC(w, x) BY DEF Collector
<1>6. CASE zone(a.delegation) = ""
  <2>1. \A x : View(x, a) => Adds(CollectDNSSEC(w, x), x, <<>>, {}, {"DNSSEC"}) BY <1>3, <1>6, AddsVector, ViewIsReady
  <2>2. Gives("dnssec", w, a, <<>>, {}, {"DNSSEC"}) BY <1>5, <2>1, OnlyNone DEF Gives
  <2> QED BY <2>2
<1>7. CASE zone(a.delegation) # ""
  <2>1. \A x : View(x, a) => Adds(CollectDNSSEC(w, x), x, said, {}, {"DNSSEC"}) BY <1>3, <1>7, AddsNoLinks, ViewIsReady
  <2>2. Gives("dnssec", w, a, said, {}, {"DNSSEC"}) BY <1>4, <1>5, <2>1 DEF Gives
  <2> QED BY <2>2
<1> QED BY <1>6, <1>7

LEMMA ZoneTransferGives == ASSUME NEW w, Listed(w), NEW a PROVE \E e, l, v : Gives("zone_transfer", w, a, e, l, v)
<1> DEFINE told(d) ==
             /\ (IF d.zone # "" THEN d.zone ELSE w.cut.zone) # ""
             /\ \E s \in IF d.ns # {} THEN d.ns ELSE ZoneOf(w).ns :
                  LET t == w.servers[s].transfer IN TransferSucceeds(t.records, t.overLimit, t.cut)
           said(d) == If(told(d), <<Evidence("DNS_AXFR_ALLOWED", "ZoneTransfer", 40, 100)>>)
<1>1. \A d : Only(said(d), "zone_transfer")
  <2> HIDE DEF told
  <2> QED BY OnlySaid, OnlyIf, Authors, ZenonT(60)
<1>2. \A x : CollectZoneTransfer(w, x) = Collected(Tested(x, "AXFR"), said(x.delegation))
  BY ZenonT(60) DEF CollectZoneTransfer, DelegatedZone
<1> HIDE DEF said
<1>3. \A x : View(x, a) => Adds(CollectZoneTransfer(w, x), x, said(a.delegation), {}, {"AXFR"})
  BY <1>2, AddsNoLinks, ViewIsReady
<1>4. \A x : Collector("zone_transfer", w, x) = CollectZoneTransfer(w, x) BY DEF Collector
<1>5. Gives("zone_transfer", w, a, said(a.delegation), {}, {"AXFR"}) BY <1>1, <1>3, <1>4 DEF Gives
<1> QED BY <1>5

LEMMA AddsTwice ==
  ASSUME NEW x, Ready(x), NEW u, NEW v, NEW e
  PROVE Adds(Collected(Tested(Tested(x, u), v), e), x, e, {}, {u, v})
  BY DEF Ready, Added, Adds, Collected, Tested

LEMMA HTTPSecurityGives == ASSUME NEW w, Listed(w), NEW a PROVE \E e, l, v : Gives("http_security", w, a, e, l, v)
<1> DEFINE open == \E i \in DOMAIN w.openRedirects : w.openRedirects[i]
           said == If(open, <<Evidence("HTTP_OPEN_REDIRECT", "HttpSecurity", 80, 100)>>)
           full(h, s) == h[s].seen /\ h[s].complete
           some(h) == \E s \in Schemes : full(h, s)
           headers(x) == IF full(x.http, "https") THEN Tested(x, "SEC_HEADERS") ELSE x
<1>1. Only(said, "http_security")
  <2> HIDE DEF open
  <2> QED BY OnlySaid, OnlyIf, Authors, ZenonT(60)
<1>2. \A x : CollectHTTPSecurity(w, x) =
               IF ~some(x.http) THEN headers(x) ELSE Collected(Tested(headers(x), "OPEN_REDIRECT"), said)
  BY ZenonT(60) DEF CollectHTTPSecurity, Completed
<1> HIDE DEF said, some, full
<1>3. \A x : Collector("http_security", w, x) = CollectHTTPSecurity(w, x) BY DEF Collector
<1>4. CASE some(a.http) /\ full(a.http, "https")
  <2>1. \A x : View(x, a) => CollectHTTPSecurity(w, x) = Collected(Tested(Tested(x, "SEC_HEADERS"), "OPEN_REDIRECT"), said)
    BY <1>2, <1>4, ViewIsReady
  <2>2. \A x : View(x, a) => Adds(CollectHTTPSecurity(w, x), x, said, {}, {"SEC_HEADERS", "OPEN_REDIRECT"})
    BY <2>1, AddsTwice, ViewIsReady
  <2>3. Gives("http_security", w, a, said, {}, {"SEC_HEADERS", "OPEN_REDIRECT"}) BY <1>1, <1>3, <2>2 DEF Gives
  <2> QED BY <2>3
<1>5. CASE some(a.http) /\ ~full(a.http, "https")
  <2>1. \A x : View(x, a) => CollectHTTPSecurity(w, x) = Collected(Tested(x, "OPEN_REDIRECT"), said)
    BY <1>2, <1>5, ViewIsReady
  <2>2. \A x : View(x, a) => Adds(CollectHTTPSecurity(w, x), x, said, {}, {"OPEN_REDIRECT"})
    BY <2>1, AddsNoLinks, ViewIsReady
  <2>3. Gives("http_security", w, a, said, {}, {"OPEN_REDIRECT"}) BY <1>1, <1>3, <2>2 DEF Gives
  <2> QED BY <2>3
<1>6. CASE ~some(a.http) /\ full(a.http, "https")
  <2>1. \A x : View(x, a) => CollectHTTPSecurity(w, x) = Tested(x, "SEC_HEADERS")
    BY <1>2, <1>6, ViewIsReady
  <2>2. \A x : View(x, a) => Adds(CollectHTTPSecurity(w, x), x, <<>>, {}, {"SEC_HEADERS"})
    BY <2>1, AddsVector, ViewIsReady
  <2>3. Gives("http_security", w, a, <<>>, {}, {"SEC_HEADERS"}) BY <1>3, <2>2, OnlyNone DEF Gives
  <2> QED BY <2>3
<1>7. CASE ~some(a.http) /\ ~full(a.http, "https")
  <2>1. \A x : View(x, a) => CollectHTTPSecurity(w, x) = x
    BY <1>2, <1>7, ViewIsReady
  <2>2. \A x : View(x, a) => Adds(CollectHTTPSecurity(w, x), x, <<>>, {}, {})
    BY <2>1, AddsNothing, ViewIsReady
  <2>3. Gives("http_security", w, a, <<>>, {}, {}) BY <1>3, <2>2, OnlyNone DEF Gives
  <2> QED BY <2>3
<1> QED BY <1>4, <1>5, <1>6, <1>7

LEMMA OnlyTLSState == ASSUME NEW t PROVE Only(TLSState(t), "tls")
<1>1. /\ Only(If(t.expired, <<Evidence("TLS_EXPIRED", "TLS", 0, 100)>>), "tls")
      /\ Only(If(t.selfSigned, <<Evidence("TLS_SELF_SIGNED", "TLS", 0, 80)>>), "tls")
      /\ Only(If(~t.covers, <<Evidence("TLS_MISMATCH", "TLS", 0, 100)>>), "tls")
      /\ Only(If(t.covers /\ ~Known(t.signature), <<Mitigation("TLS_SAN_MATCH", "TLS", 0, 100)>>), "tls")
  <2>1. Only(<<Evidence("TLS_EXPIRED", "TLS", 0, 100)>>, "tls") BY OnlySaid, Authors, ZenonT(60)
  <2>2. Only(<<Evidence("TLS_SELF_SIGNED", "TLS", 0, 80)>>, "tls") BY OnlySaid, Authors, ZenonT(60)
  <2>3. Only(<<Evidence("TLS_MISMATCH", "TLS", 0, 100)>>, "tls") BY OnlySaid, Authors, ZenonT(60)
  <2>4. Only(<<Mitigation("TLS_SAN_MATCH", "TLS", 0, 100)>>, "tls") BY OnlySaid, Authors, ZenonT(60)
  <2>5. QED BY <2>1, <2>2, <2>3, <2>4, OnlyIf, ZenonT(60)
<1>2. QED BY <1>1, OnlyJoin DEF TLSState

LEMMA OnlyTLSDrift == ASSUME NEW w PROVE Only(TLSDrift(w), "tls")
<1> DEFINE before == Those(w.previous, LAMBDA e : e.type = "TLS_CERTIFICATE_OBSERVED")
           drift == before # <<>> /\ before[1].about \notin {"", w.tls.issuer}
           said == If(drift, <<Evidence("TLS_CERTIFICATE_DRIFT", "HISTORY", 0, 100)>>)
<1>1. Only(said, "tls")
  <2> HIDE DEF drift
  <2> QED BY OnlySaid, OnlyIf, Authors, ZenonT(60)
<1>2. QED BY <1>1 DEF TLSDrift

LEMMA TLSGives == ASSUME NEW w, Listed(w), NEW a PROVE \E e, l, v : Gives("tls", w, a, e, l, v)
<1> DEFINE t == w.tls
           confidence(c) == IF c <= 0 THEN 50 ELSE AtMost(70, c)
           provider == If(Known(t.signature), <<Evidence("TLS_PROVIDER_MATCH", t.signature.service, 0, confidence(t.signature.confidence))>>)
           keep(v) == If(v.answered /\ v.issuer # t.issuer, <<v>>)
           variants == FlattenSeq([i \in DOMAIN t.variants |-> keep(t.variants[i])])
           sans == SANCandidates(w)
           vectors == {"TLS"} \cup IF t.seen THEN {"TLS_SAN_DISCOVERY", "SNI"} ELSE {}
           observed0 == <<About(Evidence("TLS_CERTIFICATE_OBSERVED", "TLS", 0, 100), t.issuer)>>
           name == <<Evidence("TLS_SAN_CANDIDATE", "TLS", 0, 100)>>
           nameparts == [i \in DOMAIN sans |-> name]
           names == FlattenSeq(nameparts)
           other(v) == <<Evidence("SNI_CERT_MISMATCH", v.mode, 0, 100)>>
           otherparts == [i \in DOMAIN variants |-> other(variants[i])]
           others == FlattenSeq(otherparts)
           told == observed0 \o provider \o TLSState(t) \o TLSDrift(w) \o names \o others
           said == If(t.seen, told)
           none == w.a = <<>> /\ w.aaaa = <<>>
<1>1. \A x : CollectTLS(w, x) = IF none THEN x ELSE Collected([x EXCEPT !.tested = @ \cup vectors], said)
  BY ZenonT(60) DEF CollectTLS, EachOf, Those
<1>2. IsList(w.tls.sans) /\ IsList(t.variants) BY DEF Listed
<1>3. Only(observed0, "tls")
  <2>1. About(Evidence("TLS_CERTIFICATE_OBSERVED", "TLS", 0, 100), t.issuer).type = "TLS_CERTIFICATE_OBSERVED" BY Types0
  <2> QED BY <2>1, OnlyOne, Authors, ZenonT(60)
<1>4. Only(provider, "tls")
  <2> HIDE DEF confidence
  <2> QED BY OnlySaid, OnlyIf, Authors, ZenonT(60)
<1>5. Only(names, "tls")
  <2>1. Only(name, "tls") BY OnlySaid, Authors, ZenonT(60)
  <2>2. IsList(sans) BY <1>2, SANCandidatesAreAList
  <2> HIDE DEF name, sans
  <2>3. nameparts = [i \in DOMAIN sans |-> nameparts[i]] /\ \A i \in DOMAIN sans : Only(nameparts[i], "tls") BY <2>1
  <2> HIDE DEF nameparts
  <2> QED BY <2>2, <2>3, OnlyEach
<1>6. Only(others, "tls")
  <2>1. \A v : keep(v) \in {<<>>, <<v>>} BY DEF If
  <2>2. IsList(variants)
    <3> HIDE DEF keep, t
    <3> QED BY <1>2, <2>1, Filtered, SMTT(60)
  <2>3. \A v : Only(other(v), "tls") BY OnlySaid, Authors, ZenonT(60)
  <2> HIDE DEF other, variants
  <2>4. otherparts = [i \in DOMAIN variants |-> otherparts[i]] /\ \A i \in DOMAIN variants : Only(otherparts[i], "tls") BY <2>3
  <2> HIDE DEF otherparts
  <2> QED BY <2>2, <2>4, OnlyEach
<1>7. Only(TLSState(t), "tls") /\ Only(TLSDrift(w), "tls") BY OnlyTLSState, OnlyTLSDrift
<1> HIDE DEF observed0, provider, names, others, t, none, vectors
<1>8. Only(told, "tls") BY <1>3, <1>4, <1>5, <1>6, <1>7, OnlyJoin
<1> HIDE DEF told
<1>9. Only(said, "tls") BY <1>8, OnlyIf
<1> HIDE DEF said
<1>10. \A x : Collector("tls", w, x) = CollectTLS(w, x) BY DEF Collector
<1>11. CASE none
  <2>1. \A x : View(x, a) => Adds(CollectTLS(w, x), x, <<>>, {}, {}) BY <1>1, <1>11, AddsNothing, ViewIsReady
  <2>2. Gives("tls", w, a, <<>>, {}, {}) BY <1>10, <2>1, OnlyNone DEF Gives
  <2> QED BY <2>2
<1>12. CASE ~none
  <2>1. \A x : View(x, a) => Adds(CollectTLS(w, x), x, said, {}, vectors) BY <1>1, <1>12, AddsMore, ViewIsReady
  <2>2. Gives("tls", w, a, said, {}, vectors) BY <1>9, <1>10, <2>1 DEF Gives
  <2> QED BY <2>2
<1> QED BY <1>11, <1>12

\* A walk through the policies that has said nothing but of mail.
Mailing(m) == "evidence" \in DOMAIN m /\ Only(m.evidence, "email")

LEMMA OnlyAppend ==
  ASSUME NEW n, NEW s, Only(s, n), NEW e, Author[e.type] = n PROVE Only(Append(s, e), n)
<1>1. Only(s \o <<e>>, n) BY OnlyOne, OnlyJoin
<1>2. Append(s, e) = s \o <<e>> BY DEF Only, IsList
<1> QED BY <1>1, <1>2

LEMMA SPFStepMails == ASSUME NEW w, NEW m, Mailing(m) PROVE Mailing(SPFStep(w, m))
<1> DEFINE top == m.stack[Len(m.stack)]
           below == SubSeq(m.stack, 1, Len(m.stack) - 1)
           rest == Append(below, [top EXCEPT !.terms = Tail(@)])
           term == Head(top.terms)
           next == [m EXCEPT !.lookups = @ + 1, !.stack = rest]
           say(type, weight, confidence) == [next EXCEPT !.evidence = Append(@, Evidence(type, "EmailSecurity", weight, confidence))]
           target == w.spf[term.target]
           said == m.evidence \o If(~m.reported, <<Evidence("SPF_LOOKUP_LIMIT_EXCEEDED", "EmailSecurity", 20, 100)>>)
           over == [m EXCEPT !.stack = below, !.reported = TRUE, !.lookups = @ + 1, !.evidence = said]
           on == [next EXCEPT !.stack = Append(@, [domain |-> term.target, terms |-> target.terms])]
           again == \E i \in DOMAIN m.stack : m.stack[i].domain = term.target
<1>1. SPFStep(w, m) =
        IF top.terms = <<>> THEN [m EXCEPT !.stack = below]
        ELSE IF m.lookups >= MaxSPFLookups THEN over
        ELSE IF term.mechanism \notin {"include", "redirect"} \/ term.target = "" THEN next
        ELSE IF target.status = "NXDOMAIN" THEN say("SPF_BROKEN_INCLUDE", 20, 95)
        ELSE IF target.status = "NO_DATA" \/ (target.status = "RESOLVED" /\ ~target.policy) THEN say("SPF_INCLUDE_WITHOUT_POLICY", 10, 95)
        ELSE IF ~target.policy \/ target.status # "RESOLVED" THEN next
        ELSE IF again THEN say("SPF_INCLUDE_CYCLE", 10, 100)
        ELSE on
  BY DEF SPFStep
<1>2. Mailing([m EXCEPT !.stack = below])
  <2> HIDE DEF below
  <2> QED BY DEF Mailing
<1>3. Mailing(next)
  <2> HIDE DEF rest
  <2> QED BY DEF Mailing
<1>4. Mailing(over)
  <2>1. \A source : Only(<<Evidence("SPF_LOOKUP_LIMIT_EXCEEDED", source, 20, 100)>>, "email")
    BY OnlySaid, Authors, ZenonT(60)
  <2>2. Only(If(~m.reported, <<Evidence("SPF_LOOKUP_LIMIT_EXCEEDED", "EmailSecurity", 20, 100)>>), "email")
    BY <2>1, OnlyIf
  <2>3. Only(said, "email") BY <2>2, OnlyJoin DEF Mailing
  <2> HIDE DEF said, below
  <2>4. QED BY <2>3, SMTT(60) DEF Mailing
<1>5. ASSUME NEW type, Author[type] = "email", NEW weight, NEW confidence PROVE Mailing(say(type, weight, confidence))
  <2> HIDE DEF next
  <2>1. Author[Evidence(type, "EmailSecurity", weight, confidence).type] = "email" BY <1>5, Types0
  <2>2. Only(Append(next.evidence, Evidence(type, "EmailSecurity", weight, confidence)), "email")
    BY <1>3, <2>1, OnlyAppend DEF Mailing
  <2>3. QED BY <2>2, <1>3 DEF Mailing
<1>6. Mailing(on)
  <2> HIDE DEF next
  <2> QED BY <1>3 DEF Mailing
<1>7. Mailing(say("SPF_BROKEN_INCLUDE", 20, 95)) /\ Mailing(say("SPF_INCLUDE_WITHOUT_POLICY", 10, 95)) /\ Mailing(say("SPF_INCLUDE_CYCLE", 10, 100))
  <2> HIDE DEF say
  <2> QED BY <1>5, Authors, ZenonT(60)
<1> HIDE DEF top, below, rest, term, next, say, target, said, over, on, again
<1> QED BY <1>1, <1>2, <1>3, <1>4, <1>6, <1>7

LEMMA SPFWalkMails == ASSUME NEW w, NEW root, NEW fuel \in Nat PROVE Only(SPFWalk(w, root, fuel), "email")
<1> DEFINE t == [of |-> "spf", w |-> w]
           start == [stack |-> <<[domain |-> root, terms |-> w.spf[root].terms]>>, lookups |-> 0, reported |-> FALSE, evidence |-> <<>>]
           c == CHOOSE f : f = [n \in 0..fuel |->
                  IF n = 0 THEN start ELSE LET m == f[n - 1] IN IF m.stack = <<>> THEN m ELSE SPFStep(w, m)]
           Bad == {i \in 0..fuel : ~Mailing(c[i])}
<1>1. SPFWalk(w, root, fuel) = c[fuel].evidence BY DEF SPFWalk
<1>2. \A i, m : WalkStep(t, i, m) = IF m.stack = <<>> THEN m ELSE SPFStep(w, m) BY DEF WalkStep
<1>3. Mailing(start) BY OnlyNone DEF Mailing
<1> HIDE DEF t, start
<1>4. \E f : Walks(f, t, start, fuel) BY WalksExist
<1>5. \E f : f = [n \in 0..fuel |-> IF n = 0 THEN start ELSE LET m == f[n - 1] IN IF m.stack = <<>> THEN m ELSE SPFStep(w, m)]
  BY <1>2, <1>4 DEF Walks
<1>6. c = [n \in 0..fuel |-> IF n = 0 THEN start ELSE LET m == c[n - 1] IN IF m.stack = <<>> THEN m ELSE SPFStep(w, m)]
  BY <1>5, Zenon
<1> HIDE DEF c
<1>7. SUFFICES ASSUME Bad # {} PROVE FALSE BY <1>1 DEF Mailing
<1>8. PICK k \in Bad : \A m \in Bad : ~(m < k)
  <2>1. Bad \subseteq Nat OBVIOUS
  <2> HIDE DEF Bad
  <2> QED BY <1>7, <2>1, Least
<1>9. k \in 0..fuel /\ ~Mailing(c[k]) OBVIOUS
<1>10. k # 0 BY <1>3, <1>6, <1>9
<1>11. k - 1 \in 0..fuel /\ k - 1 < k BY <1>9, <1>10
<1>12. Mailing(c[k - 1]) BY <1>8, <1>11
<1>13. c[k] = IF c[k - 1].stack = <<>> THEN c[k - 1] ELSE SPFStep(w, c[k - 1]) BY <1>6, <1>9, <1>10
<1> QED BY <1>9, <1>12, <1>13, SPFStepMails

LEMMA EmailGives == ASSUME NEW w, Listed(w), NEW a PROVE \E e, l, v : Gives("email", w, a, e, l, v)
<1> DEFINE policy == w.spf[w.root]
           missing == If(w.rootMX, <<Evidence("EMAIL_SPF_MISSING", "EmailSecurity", 0, 100)>>)
           loose == If(policy.permissive, <<Evidence("EMAIL_SPF_PERMISSIVE", "EmailSecurity", 10, 90)>>)
           walk == SPFWalk(w, w.root, 40)
           dmarc == If(w.rootMX /\ w.dmarc # "RESOLVED", <<Evidence("EMAIL_DMARC_MISSING", "EmailSecurity", 0, 95)>>)
           spf == ValidateSPF(w, w.rootMX)
           said == spf \o dmarc
<1>1. Only(missing, "email") /\ Only(loose, "email") /\ Only(dmarc, "email")
  <2>1. \A who : /\ Only(<<Evidence("EMAIL_SPF_MISSING", who, 0, 100)>>, "email")
                 /\ Only(<<Evidence("EMAIL_SPF_PERMISSIVE", who, 10, 90)>>, "email")
                 /\ Only(<<Evidence("EMAIL_DMARC_MISSING", who, 0, 95)>>, "email")
    BY OnlySaid, Authors, ZenonT(60)
  <2> QED BY <2>1, OnlyIf
<1>2. Only(walk, "email") BY SPFWalkMails
<1>3. spf = IF ~(policy.status = "RESOLVED" /\ policy.policy) THEN missing ELSE loose \o walk BY DEF ValidateSPF
<1>4. Only(spf, "email")
  <2> HIDE DEF missing, loose, walk, spf
  <2>1. Only(loose \o walk, "email") BY <1>1, <1>2, OnlyJoin
  <2>2. QED BY <1>1, <1>3, <2>1
<1>5. \A x : CollectEmailSecurity(w, x) = Collected(Tested(x, "EMAIL"), said) BY DEF CollectEmailSecurity
<1> HIDE DEF spf, dmarc
<1>6. Only(said, "email") BY <1>1, <1>4, OnlyJoin
<1> HIDE DEF said
<1>7. \A x : View(x, a) => Adds(CollectEmailSecurity(w, x), x, said, {}, {"EMAIL"}) BY <1>5, AddsNoLinks, ViewIsReady
<1>8. \A x : Collector("email", w, x) = CollectEmailSecurity(w, x) BY DEF Collector
<1>9. Gives("email", w, a, said, {}, {"EMAIL"}) BY <1>6, <1>7, <1>8 DEF Gives
<1> QED BY <1>9

\* Each of the independent collectors adds what it says of the world.
LEMMA EachGives == ASSUME NEW w, Listed(w), NEW a, NEW n \in Independent PROVE \E e, l, v : Gives(n, w, a, e, l, v)
<1> DEFINE G(m) == \E e, l, v : Gives(m, w, a, e, l, v)
<1>1. /\ G("mx") /\ G("txt") /\ G("srv") /\ G("tls") /\ G("ip") /\ G("email") /\ G("http_security") /\ G("shadow_it")
      /\ G("zone_transfer") /\ G("dnssec")
  BY MXGives, TXTGives, SRVGives, TLSGives, IPGives, EmailGives, HTTPSecurityGives, ShadowITGives, ZoneTransferGives,
     DNSSECGives
<1> HIDE DEF G
<1>2. G(n) BY <1>1 DEF Independent
<1> QED BY <1>2 DEF G

-----------------------------------------------------------------------------
(* The independent collectors together.                                     *)

\* What each of the independent collectors gives after a.
Givings(g, w, a) == \A n \in Independent : Gives(n, w, a, g[n].e, g[n].l, g[n].v)

\* x is a with what the collectors of N added, in whatever order.
Gathered(x, g, a, N) ==
  /\ DOMAIN x = DOMAIN a
  /\ \A f \in DOMAIN a \ Added : x[f] = a[f]
  /\ x.candidates = a.candidates \cup UNION {g[n].l : n \in N}
  /\ x.tested = a.tested \cup UNION {g[n].v : n \in N}
  /\ IsList(x.evidence) /\ ToSet(x.evidence) = ToSet(a.evidence) \cup UNION {ToSet(g[n].e) : n \in N}
  /\ ToSet(Original(x.evidence)) = ToSet(Original(a.evidence)) \cup UNION {ToSet(Original(g[n].e)) : n \in N}
  /\ Counted(Original(x.evidence)) =
       Counted(Original(a.evidence))
         \cup {c \in UNION {Counted(Original(g[n].e)) : n \in N} : Unlike(ToSet(Original(a.evidence)), c)}
  /\ Multiplier(Original(x.evidence)) = Multiplier(Original(a.evidence))

LEMMA SomeGivings == ASSUME NEW w, Listed(w), NEW a PROVE \E g : Givings(g, w, a)
<1> DEFINE G(n, r) == Gives(n, w, a, r.e, r.l, r.v)
           g == [n \in Independent |-> CHOOSE r : G(n, r)]
<1>1. ASSUME NEW n \in Independent PROVE \E r : G(n, r)
  <2>1. PICK e, l, v : Gives(n, w, a, e, l, v) BY EachGives
  <2>2. PICK r : r = [e |-> e, l |-> l, v |-> v] OBVIOUS
  <2>3. G(n, r) BY <2>1, <2>2
  <2> QED BY <2>3
<1> HIDE DEF G
<1>2. \A n \in Independent : G(n, CHOOSE r : G(n, r)) BY <1>1, Zenon
<1>3. \A n \in Independent : G(n, g[n]) BY <1>2
<1> HIDE DEF g
<1>4. Givings(g, w, a) BY <1>3 DEF Givings, G
<1> QED BY <1>4

LEMMA GatherNone == ASSUME NEW g, NEW a, IsList(a.evidence) PROVE Gathered(a, g, a, {})
  BY DEF Gathered

LEMMA CountedIsPart == ASSUME NEW s PROVE Counted(s) \subseteq ToSet(s)
  BY DEF Counted, ToSet

LEMMA OriginalOnly == ASSUME NEW s, NEW n, Only(s, n) PROVE Only(Original(s), n)
<1>1. IsList(Original(s)) /\ ToSet(Original(s)) \subseteq ToSet(s) BY OriginalIsPart DEF Only
<1> QED BY <1>1 DEF Only

LEMMA AuthorsAreNamed == "" \notin Independent
  BY DEF Independent

LEMMA OnlyPlain == ASSUME NEW s, NEW n \in Independent, Only(s, n) PROVE Types(s) \cap Reinforcing = {}
<1>1. ASSUME NEW type \in Types(s) PROVE type \notin Reinforcing
  <2>1. PICK i \in DOMAIN s : type = s[i].type BY DEF Types
  <2>2. s[i] \in ToSet(s) BY DEF ToSet
  <2>3. Author[type] = n BY <2>1, <2>2 DEF Only
  <2> QED BY <2>3, Authors, AuthorsAreNamed
<1> QED BY <1>1

LEMMA GatherMore ==
  ASSUME NEW w, NEW g, NEW a, Givings(g, w, a), Added \subseteq DOMAIN a,
         NEW N, N \subseteq Independent, NEW n \in Independent,
         NEW x, Gathered(x, g, a, N), NEW y, Adds(y, x, g[n].e, g[n].l, g[n].v)
  PROVE Gathered(y, g, a, N \cup {n})
<1> DEFINE M == N \cup {n}
<1>1. PICK s, e, o, p, q : s = x.evidence /\ e = g[n].e /\ o = Original(a.evidence) /\ p = Original(s) /\ q = Original(e) OBVIOUS
<1>2. Only(e, n) BY <1>1 DEF Givings, Gives
<1>3. IsList(s) /\ IsList(e) BY <1>1, <1>2 DEF Gathered, Only
<1>4. Only(q, n) BY <1>1, <1>2, OriginalOnly
<1>5. IsList(p) /\ IsList(q) BY <1>1, <1>3, OriginalIsPart
<1>6. y.evidence = s \o e BY <1>1 DEF Adds
<1>7. IsList(s \o e) /\ ToSet(s \o e) = ToSet(s) \cup ToSet(e) BY <1>3, JoinedSet
<1>8. Original(s \o e) = p \o q BY <1>1, <1>3, OriginalBoth
<1>9. ToSet(p \o q) = ToSet(p) \cup ToSet(q) BY <1>5, JoinedSet
<1>10. Counted(p \o q) = Counted(p) \cup {c \in Counted(q) : Unlike(ToSet(p), c)} BY <1>5, CountedBoth
<1>11. Multiplier(p \o q) = Multiplier(p)
  <2>1. Types(q) \cap Reinforcing = {} BY <1>4, OnlyPlain
  <2> QED BY <1>5, <2>1, MultiplierBoth
<1>12. ToSet(p) = ToSet(o) \cup UNION {ToSet(Original(g[m].e)) : m \in N} BY <1>1 DEF Gathered
<1>13. \A m \in N : Only(Original(g[m].e), m) BY OriginalOnly DEF Givings, Gives
<1>14. ASSUME n \notin N, NEW c \in Counted(q) PROVE Unlike(ToSet(p), c) <=> Unlike(ToSet(o), c)
  <2>1. Author[c.type] = n BY <1>4, CountedIsPart DEF Only
  <2>2. ASSUME NEW z \in ToSet(p), z \notin ToSet(o) PROVE z.type # c.type
    <3>1. PICK m \in N : z \in ToSet(Original(g[m].e)) BY <1>12, <2>2
    <3>2. Author[z.type] = m BY <1>13, <3>1 DEF Only
    <3> QED BY <1>14, <2>1, <3>2
  <2>3. ToSet(o) \subseteq ToSet(p) BY <1>12
  <2> QED BY <2>2, <2>3 DEF Unlike
<1>15. Counted(p) = Counted(o) \cup {c \in UNION {Counted(Original(g[m].e)) : m \in N} : Unlike(ToSet(o), c)}
  BY <1>1 DEF Gathered
<1>16. Counted(p \o q) = Counted(o) \cup {c \in UNION {Counted(Original(g[m].e)) : m \in M} : Unlike(ToSet(o), c)}
  <2>1. UNION {Counted(Original(g[m].e)) : m \in M} = Counted(q) \cup UNION {Counted(Original(g[m].e)) : m \in N} BY <1>1
  <2>2. CASE n \notin N
    <3>1. {c \in Counted(q) : Unlike(ToSet(p), c)} = {c \in Counted(q) : Unlike(ToSet(o), c)} BY <1>14, <2>2
    <3> QED BY <1>10, <1>15, <2>1, <3>1
  <2>3. CASE n \in N
    <3>1. ToSet(q) \subseteq ToSet(p) BY <1>1, <1>12, <2>3
    <3>2. \A c \in Counted(q) : ~Unlike(ToSet(p), c) BY <3>1, CountedIsPart DEF Unlike
    <3>3. M = N BY <2>3
    <3> QED BY <1>10, <1>15, <3>2, <3>3
  <2> QED BY <2>2, <2>3
<1>17. ToSet(p \o q) = ToSet(o) \cup UNION {ToSet(Original(g[m].e)) : m \in M}
  <2>1. UNION {ToSet(Original(g[m].e)) : m \in M} = ToSet(q) \cup UNION {ToSet(Original(g[m].e)) : m \in N} BY <1>1
  <2> QED BY <1>9, <1>12, <2>1
<1>18. ToSet(s \o e) = ToSet(a.evidence) \cup UNION {ToSet(g[m].e) : m \in M}
  <2>1. ToSet(s) = ToSet(a.evidence) \cup UNION {ToSet(g[m].e) : m \in N} BY <1>1 DEF Gathered
  <2>2. UNION {ToSet(g[m].e) : m \in M} = ToSet(e) \cup UNION {ToSet(g[m].e) : m \in N} BY <1>1
  <2> QED BY <1>7, <2>1, <2>2
<1>19. DOMAIN y = DOMAIN a /\ \A f \in DOMAIN a \ Added : y[f] = a[f] BY DEF Gathered, Adds
<1>20. y.candidates = a.candidates \cup UNION {g[m].l : m \in M}
  <2>1. UNION {g[m].l : m \in M} = g[n].l \cup UNION {g[m].l : m \in N} OBVIOUS
  <2>2. y.candidates = x.candidates \cup g[n].l BY DEF Adds
  <2>3. x.candidates = a.candidates \cup UNION {g[m].l : m \in N} BY DEF Gathered
  <2> QED BY <2>1, <2>2, <2>3
<1>21. y.tested = a.tested \cup UNION {g[m].v : m \in M}
  <2>1. UNION {g[m].v : m \in M} = g[n].v \cup UNION {g[m].v : m \in N} OBVIOUS
  <2>2. y.tested = x.tested \cup g[n].v BY DEF Adds
  <2>3. x.tested = a.tested \cup UNION {g[m].v : m \in N} BY DEF Gathered
  <2> QED BY <2>1, <2>2, <2>3
<1>22. Multiplier(p) = Multiplier(o) BY <1>1 DEF Gathered
<1> HIDE DEF M
<1>23. Gathered(y, g, a, M) BY <1>1, <1>6, <1>7, <1>8, <1>11, <1>16, <1>17, <1>18, <1>19, <1>20, <1>21, <1>22 DEF Gathered
<1> QED BY <1>23 DEF M

\* The collector of n sees of what was gathered what it saw of a.
LEMMA GatheredView ==
  ASSUME NEW g, NEW a, Added \cup {"http", "delegation"} \subseteq DOMAIN a, NEW N, NEW x, Gathered(x, g, a, N)
  PROVE View(x, a)
<1>1. "http" \notin Added /\ "delegation" \notin Added BY DEF Added
<1> QED BY <1>1 DEF Gathered, View, Ready

\* What all of them gathered is the same in whatever order.
LEMMA GatheredEven ==
  ASSUME NEW g, NEW a, Told \cup {"evidence"} \subseteq DOMAIN a, NEW N, NEW x, Gathered(x, g, a, N), NEW y, Gathered(y, g, a, N)
  PROVE Even(x, y)
<1>1. DOMAIN x = DOMAIN a /\ DOMAIN y = DOMAIN a BY DEF Gathered
<1>2. ASSUME NEW f \in Told PROVE x[f] = y[f]
  <2>1. CASE f \notin Added BY <2>1 DEF Gathered
  <2>2. CASE f \in Added
    <3>1. f \in {"candidates", "tested"} BY <2>2 DEF Added, Told
    <3> QED BY <3>1 DEF Gathered
  <2> QED BY <2>1, <2>2
<1>3. IsList(x.evidence) /\ IsList(y.evidence) /\ ToSet(x.evidence) = ToSet(y.evidence) BY DEF Gathered
<1>4. SameWeight(Original(x.evidence), Original(y.evidence))
  <2>1. IsList(Original(x.evidence)) /\ IsList(Original(y.evidence)) BY <1>3, OriginalIsPart
  <2> QED BY <2>1 DEF Gathered, SameWeight
<1> QED BY <1>1, <1>2, <1>3, <1>4 DEF Even

-----------------------------------------------------------------------------
(* The walk along a pipeline.                                               *)

\* The walk along a pipeline, its analyses one after another.
Looks(f, w, a, names, n) == f = [i \in 0..n |-> IF i = 0 THEN a ELSE Collector(names[i], w, f[i - 1])]

LEMMA LookNone == ASSUME NEW w, NEW a, NEW names PROVE \E f : Looks(f, w, a, names, 0)
<1> DEFINE g == [i \in 0..0 |-> a]
<1>1. g = [i \in 0..0 |-> IF i = 0 THEN a ELSE Collector(names[i], w, g[i - 1])] OBVIOUS
<1>2. QED BY <1>1 DEF Looks

LEMMA LookMore ==
  ASSUME NEW w, NEW a, NEW names, NEW n \in Nat, n > 0, NEW f, Looks(f, w, a, names, n - 1)
  PROVE \E g : Looks(g, w, a, names, n)
<1> DEFINE body(h, i) == IF i = 0 THEN a ELSE Collector(names[i], w, h[i - 1])
           g == [i \in 0..n |-> IF i = n THEN body(f, n) ELSE f[i]]
<1>1. \A i \in 0..(n - 1) : f[i] = body(f, i) BY DEF Looks
<1>2. \A i \in 0..(n - 1) : g[i] = f[i] OBVIOUS
<1>3. g[n] = body(f, n) OBVIOUS
<1>4. g = [i \in 0..n |-> g[i]] OBVIOUS
<1>5. \A i \in 0..n : i # 0 => i - 1 \in 0..(n - 1) OBVIOUS
<1> HIDE DEF g
<1>6. \A i \in 0..n : g[i] = body(g, i)
  <2> TAKE i \in 0..n
  <2>1. body(g, i) = body(f, i) BY <1>2, <1>5
  <2> HIDE DEF body
  <2>2. CASE i = n BY <2>1, <2>2, <1>3
  <2>3. CASE i # n
    <3>1. i \in 0..(n - 1) BY <2>3
    <3>2. QED BY <3>1, <2>1, <1>1, <1>2
  <2>4. QED BY <2>2, <2>3
<1>7. g = [i \in 0..n |-> body(g, i)] BY <1>4, <1>6
<1>8. QED BY <1>7 DEF Looks

LEMMA LooksExist == ASSUME NEW w, NEW a, NEW names PROVE \A n \in Nat : \E f : Looks(f, w, a, names, n)
<1> DEFINE Missing == {n \in Nat : ~\E f : Looks(f, w, a, names, n)}
<1>1. SUFFICES ASSUME Missing # {} PROVE FALSE OBVIOUS
<1>2. PICK n \in Missing : \A m \in Missing : ~(m < n)
  <2>1. Missing \subseteq Nat OBVIOUS
  <2> HIDE DEF Missing
  <2>2. QED BY <1>1, <2>1, Least
<1>3. n \in Nat /\ ~\E f : Looks(f, w, a, names, n) OBVIOUS
<1>4. n # 0 BY <1>3, LookNone
<1>5. n - 1 \in Nat /\ n - 1 < n /\ n > 0 BY <1>3, <1>4
<1>6. n - 1 \notin Missing BY <1>2, <1>5
<1>7. \E f : Looks(f, w, a, names, n - 1) BY <1>5, <1>6
<1>8. QED BY <1>3, <1>5, <1>7, LookMore

\* Two walks along a pipeline agree as far as both go.
LEMMA LooksAgree ==
  ASSUME NEW w, NEW a, NEW names, NEW n \in Nat, NEW m \in Nat, m <= n,
         NEW f, Looks(f, w, a, names, n), NEW g, Looks(g, w, a, names, m)
  PROVE f[m] = g[m]
<1> DEFINE Bad == {i \in 0..m : f[i] # g[i]}
<1>1. SUFFICES ASSUME Bad # {} PROVE FALSE OBVIOUS
<1>2. PICK k \in Bad : \A j \in Bad : ~(j < k)
  <2>1. Bad \subseteq Nat OBVIOUS
  <2> HIDE DEF Bad
  <2> QED BY <1>1, <2>1, Least
<1>3. k \in 0..m /\ k \in 0..n /\ f[k] # g[k] OBVIOUS
<1>4. f[k] = (IF k = 0 THEN a ELSE Collector(names[k], w, f[k - 1])) /\ g[k] = (IF k = 0 THEN a ELSE Collector(names[k], w, g[k - 1]))
  BY <1>3 DEF Looks
<1>5. k # 0 BY <1>3, <1>4
<1>6. k - 1 \in 0..m /\ k - 1 < k BY <1>3, <1>5
<1>7. f[k - 1] = g[k - 1] BY <1>2, <1>6
<1> QED BY <1>3, <1>4, <1>5, <1>7

LEMMA ExamineLooks ==
  ASSUME NEW w, NEW a, NEW names, NEW n \in Nat
  PROVE \E f : Looks(f, w, a, names, n) /\ Examine(w, a, names, n) = f[n]
<1> DEFINE c == CHOOSE f : f = [i \in 0..n |-> IF i = 0 THEN a ELSE Collector(names[i], w, f[i - 1])]
<1>4. \E f : Looks(f, w, a, names, n) BY LooksExist
<1>1. \E f : f = [i \in 0..n |-> IF i = 0 THEN a ELSE Collector(names[i], w, f[i - 1])] BY <1>4, Zenon DEF Looks
<1>2. c = [i \in 0..n |-> IF i = 0 THEN a ELSE Collector(names[i], w, c[i - 1])] BY <1>1, Zenon
<1>3. Examine(w, a, names, n) = c[n] BY Zenon DEF Examine
<1> HIDE DEF c
<1> QED BY <1>2, <1>3 DEF Looks

\* One collector after another.
LEMMA ExamineSteps ==
  ASSUME NEW w, NEW a, NEW names
  PROVE /\ Examine(w, a, names, 0) = a
        /\ \A n \in Nat : n # 0 => Examine(w, a, names, n) = Collector(names[n], w, Examine(w, a, names, n - 1))
<1>1. Examine(w, a, names, 0) = a
  <2>1. PICK f : Looks(f, w, a, names, 0) /\ Examine(w, a, names, 0) = f[0] BY ExamineLooks
  <2>2. f[0] = a BY <2>1 DEF Looks
  <2> QED BY <2>1, <2>2
<1>2. ASSUME NEW n \in Nat, n # 0 PROVE Examine(w, a, names, n) = Collector(names[n], w, Examine(w, a, names, n - 1))
  <2>1. n - 1 \in Nat /\ n - 1 <= n BY <1>2
  <2>2. PICK f : Looks(f, w, a, names, n) /\ Examine(w, a, names, n) = f[n] BY ExamineLooks
  <2>3. PICK m : m = n - 1 OBVIOUS
  <2>4. PICK g : Looks(g, w, a, names, m) /\ Examine(w, a, names, m) = g[m] BY <2>1, <2>3, ExamineLooks
  <2>5. f[m] = g[m] BY <2>1, <2>2, <2>3, <2>4, LooksAgree
  <2>6. f[n] = Collector(names[n], w, f[n - 1]) BY <1>2, <2>2 DEF Looks
  <2> QED BY <2>2, <2>3, <2>4, <2>5, <2>6
<1> QED BY <1>1, <1>2

\* The parts of a pipeline.
Rest == <<"http_mutator", "http_framing", "correlator">> \o Impact

Laid(p, o) ==
  /\ Len(o) \in Nat /\ Len(Rest) \in Nat /\ Len(p) = 4 + Len(o) + Len(Rest)
  /\ p[1] = "cname" /\ p[2] = "service_binding" /\ p[3] = "ns" /\ p[4] = "http"
  /\ \A i \in 1..Len(o) : p[4 + i] = o[i] /\ o[i] \in Independent
  /\ \A i \in 1..Len(Rest) : p[4 + Len(o) + i] = Rest[i] /\ Rest[i] \in Later

LEMMA JoinIndexed ==
  ASSUME NEW U, NEW s \in Seq(U), NEW t \in Seq(U)
  PROVE /\ s \o t \in Seq(U) /\ Len(s \o t) = Len(s) + Len(t) /\ Len(s) \in Nat /\ Len(t) \in Nat
        /\ \A i \in 1..Len(s) : (s \o t)[i] = s[i]
        /\ \A i \in 1..Len(t) : (s \o t)[Len(s) + i] = t[i]
  OBVIOUS

LEMMA PipelineIsLaid == ASSUME NEW o \in Orders PROVE Laid(Pipeline(o), o)
<1> DEFINE d == <<"cname", "service_binding", "ns">>
           k == <<"http">>
           m == <<"http_mutator", "http_framing", "correlator">>
           h == d \o k
<1>1. o \in Seq(Independent) BY HostAssumption DEF IsList
<1>2. Independent \subseteq Steps BY DEF Independent, Steps
<1>3. Impact \in Seq(Steps) /\ m \in Seq(Steps) /\ d \in Seq(Steps) /\ k \in Seq(Steps) BY DEF Impact, Steps
<1>4. Len(d) = 3 /\ d[1] = "cname" /\ d[2] = "service_binding" /\ d[3] = "ns" /\ Len(k) = 1 /\ k[1] = "http" OBVIOUS
<1>6. Pipeline(o) = h \o o \o m \o Impact BY DEF Pipeline, Discovery
<1>7. Rest \in Seq(Later)
  <2>1. m \in Seq(Later) BY DEF Later
  <2>2. Impact \in Seq(Later)
    <3>1. IsList(Impact) BY ListOfASet, <1>3
    <3>2. Impact \in Seq(ToSet(Impact)) BY <3>1 DEF IsList
    <3>3. ToSet(Impact) \subseteq Later BY DEF Later
    <3> QED BY <3>2, <3>3
  <2>3. Rest = m \o Impact BY DEF Rest
  <2> HIDE DEF m
  <2> QED BY <2>1, <2>2, <2>3
<1> HIDE DEF d, k, m
<1>5. /\ h \in Seq(Steps) /\ Len(h) = 4 /\ h[1] = "cname" /\ h[2] = "service_binding" /\ h[3] = "ns" /\ h[4] = "http"
  <2>4. d \in Seq(Steps) /\ k \in Seq(Steps) BY <1>3
  <2>0. h = d \o k OBVIOUS
  <2> HIDE DEF h
  <2>1. /\ d \o k \in Seq(Steps) /\ Len(d \o k) = Len(d) + Len(k) /\ Len(d) \in Nat /\ Len(k) \in Nat
        /\ \A i \in 1..Len(d) : (d \o k)[i] = d[i]
        /\ \A i \in 1..Len(k) : (d \o k)[Len(d) + i] = k[i]
    BY <2>4, JoinIndexed
  <2>2. h \in Seq(Steps) /\ Len(h) = 4 /\ (\A i \in 1..3 : h[i] = d[i]) /\ \A i \in 1..1 : h[3 + i] = k[i]
    BY <1>4, <2>0, <2>1
  <2> QED BY <1>4, <2>2
<1> HIDE DEF h
<1>8. o \in Seq(Steps) BY <1>1, <1>2
<1>16. PICK x : x = h \o o OBVIOUS
<1>9. x \in Seq(Steps) BY <1>5, <1>8, <1>16, JoinIndexed
<1>10. (x \o m) \o Impact = x \o (m \o Impact) BY <1>3, <1>9, JoinAssociates, SMTT(60)
<1>11. Pipeline(o) = x \o Rest BY <1>6, <1>10, <1>16 DEF Rest, m
<1>12. PICK r : r = Rest OBVIOUS
<1>13. r \in Seq(Later) BY <1>7, <1>12
<1>14. Later \subseteq Steps BY DEF Later, Steps, Impact, ToSet
<1>15. r \in Seq(Steps) BY <1>13, <1>14
<1>20. Len(o) \in Nat /\ Len(r) \in Nat BY <1>8, <1>13
<1>26. /\ Len(h \o o) = Len(h) + Len(o) /\ \A i \in 1..Len(h) : (h \o o)[i] = h[i]
       /\ \A i \in 1..Len(o) : (h \o o)[Len(h) + i] = o[i]
  <2>1. h \in Seq(Steps) BY <1>5
  <2> QED BY <1>8, <2>1, JoinIndexed
<1>17. /\ Len(x) = 4 + Len(o) /\ \A i \in 1..4 : x[i] = h[i]
       /\ \A i \in 1..Len(o) : x[4 + i] = o[i]
  BY <1>5, <1>16, <1>26
<1>18. PICK p : p = x \o r OBVIOUS
<1>19. /\ Len(p) = Len(x) + Len(r) /\ \A i \in 1..Len(x) : p[i] = x[i]
       /\ \A i \in 1..Len(r) : p[Len(x) + i] = r[i]
  BY <1>9, <1>15, <1>18, JoinIndexed
<1>21. Len(p) = 4 + Len(o) + Len(r) BY <1>17, <1>19
<1>22. p[1] = "cname" /\ p[2] = "service_binding" /\ p[3] = "ns" /\ p[4] = "http"
  BY <1>5, <1>17, <1>19, <1>20
<1>23. \A i \in 1..Len(o) : p[4 + i] = o[i] /\ o[i] \in Independent
  <2> TAKE i \in 1..Len(o)
  <2>1. 4 + i \in 1..Len(x) BY <1>17, <1>20
  <2>2. o[i] \in Independent BY <1>1
  <2>3. p[4 + i] = x[4 + i] BY <1>19, <2>1
  <2> QED BY <1>17, <2>2, <2>3
<1>24. \A i \in 1..Len(r) : p[4 + Len(o) + i] = r[i] /\ r[i] \in Later BY <1>13, <1>17, <1>19
<1>25. Pipeline(o) = p BY <1>11, <1>12, <1>18
<1> QED BY <1>12, <1>20, <1>21, <1>22, <1>23, <1>24, <1>25 DEF Laid

\* What the discovery and the pages of the host say, which every order has
\* behind it.
Base(w) ==
  Collector("http", w, Collector("ns", w, Collector("service_binding", w, Collector("cname", w, NewAnalysis(w)))))

LEMMA NobodyIsExcluded == ASSUME NEW w PROVE Honest(w, {})
  BY DEF Honest, Borne

LEMMA BaseIsReady ==
  ASSUME NEW w, Listed(w)
  PROVE /\ Told \cup {"evidence"} \subseteq DOMAIN Base(w) /\ Added \cup {"http", "delegation"} \subseteq DOMAIN Base(w)
        /\ IsList(Base(w).evidence)
<1> DEFINE F == {}
<1>1. PICK a : a = NewAnalysis(w) OBVIOUS
<1>2. PICK b : b = Collector("cname", w, a) OBVIOUS
<1>3. PICK c : c = Collector("service_binding", w, b) OBVIOUS
<1>4. PICK d : d = Collector("ns", w, c) OBVIOUS
<1>5. PICK e : e = Collector("http", w, d) OBVIOUS
<1>6. Base(w) = e BY <1>1, <1>2, <1>3, <1>4, <1>5 DEF Base
<1>7. Honest(w, F) BY NobodyIsExcluded
<1> HIDE DEF F
<1>8. "cname" \in Steps /\ "service_binding" \in Steps /\ "ns" \in Steps /\ "http" \in Steps BY DEF Steps
<1>9. Sound(a, F) BY <1>1, NewIsSound
<1>10. Sound(b, F) BY <1>2, <1>7, <1>8, <1>9, CollectorSound
<1>11. Sound(c, F) BY <1>3, <1>7, <1>8, <1>10, CollectorSound
<1>12. Sound(d, F) BY <1>4, <1>7, <1>8, <1>11, CollectorSound
<1>13. Sound(e, F) BY <1>5, <1>7, <1>8, <1>12, CollectorSound
<1>14. IsList(e.evidence) /\ Fields \subseteq DOMAIN e BY <1>13, FreeIsAList DEF Sound
<1>15. Unjudged(a) BY <1>1, ZenonT(60) DEF NewAnalysis, Unjudged, Fields
<1>16. "target" \in DOMAIN e
  <2>1. Unjudged(b) BY <1>2, <1>8, <1>15, CollectorUnjudged
  <2>2. Unjudged(c) BY <1>3, <1>8, <2>1, CollectorUnjudged
  <2>3. Unjudged(d) BY <1>4, <1>8, <2>2, CollectorUnjudged
  <2>4. Unjudged(e) BY <1>5, <1>8, <2>3, CollectorUnjudged
  <2> QED BY <2>4 DEF Unjudged
<1>17. Told \cup {"evidence"} \subseteq Fields \cup {"target"} /\ Added \cup {"http", "delegation"} \subseteq Fields
  BY DEF Told, Added, Fields
<1> QED BY <1>6, <1>14, <1>16, <1>17

\* The walk along a pipeline, up to its independent part.
LEMMA WalkToBase ==
  ASSUME NEW w, NEW p, NEW o, Laid(p, o) PROVE Examine(w, NewAnalysis(w), p, 4) = Base(w)
<1>1. PICK a : a = NewAnalysis(w) OBVIOUS
<1> DEFINE x(n) == Examine(w, a, p, n)
<1>2. x(0) = a /\ \A n \in Nat : n # 0 => x(n) = Collector(p[n], w, x(n - 1)) BY ExamineSteps
<1> HIDE DEF x
<1>3. x(1) = Collector(p[1], w, x(0)) BY <1>2
<1>4. x(2) = Collector(p[2], w, x(1)) BY <1>2
<1>5. x(3) = Collector(p[3], w, x(2)) BY <1>2
<1>6. x(4) = Collector(p[4], w, x(3)) BY <1>2
<1>7. p[1] = "cname" /\ p[2] = "service_binding" /\ p[3] = "ns" /\ p[4] = "http" BY DEF Laid
<1>8. x(4) = Base(w) BY <1>1, <1>2, <1>3, <1>4, <1>5, <1>6, <1>7 DEF Base
<1> QED BY <1>1, <1>8 DEF x

\* After the independent collectors, whatever their order.
LEMMA WalkGathers ==
  ASSUME NEW w, Listed(w), NEW p, NEW o, Laid(p, o), ToSet(o) = Independent, IsList(o),
         NEW g, Givings(g, w, Base(w))
  PROVE Gathered(Examine(w, NewAnalysis(w), p, 4 + Len(o)), g, Base(w), Independent)
<1>1. PICK a : a = NewAnalysis(w) OBVIOUS
<1>2. PICK b : b = Base(w) OBVIOUS
<1> DEFINE x(n) == Examine(w, a, p, n)
           N(k) == {o[j] : j \in 1..k}
           Bad == {k \in 0..Len(o) : ~Gathered(x(4 + k), g, b, N(k))}
<1>3. \A n \in Nat : n # 0 => x(n) = Collector(p[n], w, x(n - 1)) BY ExamineSteps
<1>4. x(4) = b BY <1>1, <1>2, WalkToBase
<1> HIDE DEF x
<1>5. Len(o) \in Nat /\ \A i \in 1..Len(o) : p[4 + i] = o[i] /\ o[i] \in Independent BY DEF Laid
<1>6. N(Len(o)) = Independent
  <2>1. DOMAIN o = 1..Len(o) BY ListDomain
  <2> QED BY <2>1 DEF ToSet
<1>7. SUFFICES ASSUME Bad # {} PROVE FALSE
  <2>1. 4 + Len(o) = 4 + Len(o) /\ Len(o) \in 0..Len(o) BY <1>5
  <2>2. Gathered(x(4 + Len(o)), g, b, N(Len(o))) BY <1>7, <2>1
  <2> HIDE DEF N
  <2> QED BY <1>1, <1>2, <1>6, <2>2 DEF x
<1>8. PICK k \in Bad : \A m \in Bad : ~(m < k)
  <2>1. Bad \subseteq Nat BY <1>5
  <2> HIDE DEF Bad
  <2> QED BY <1>7, <2>1, Least
<1>9. k \in 0..Len(o) /\ ~Gathered(x(4 + k), g, b, N(k)) OBVIOUS
<1>10. Added \cup {"http", "delegation"} \subseteq DOMAIN b /\ IsList(b.evidence) BY <1>2, BaseIsReady
<1>11. k # 0
  <2>1. N(0) = {} OBVIOUS
  <2>2. Gathered(b, g, b, {}) BY <1>10, GatherNone
  <2>3. x(4 + 0) = b BY <1>4
  <2> QED BY <1>9, <2>1, <2>2, <2>3
<1>12. PICK j : j = k - 1 OBVIOUS
<1>13. j \in 0..Len(o) /\ j < k /\ k \in 1..Len(o) /\ j + 1 = k BY <1>5, <1>9, <1>11, <1>12
<1>14. Gathered(x(4 + j), g, b, N(j)) BY <1>8, <1>13
<1>15. PICK n : n = o[k] OBVIOUS
<1>16. n \in Independent /\ p[4 + k] = n BY <1>5, <1>13, <1>15
<1>17. N(k) = N(j) \cup {n}
  <2>1. 1..k = (1..j) \cup {k} BY <1>5, <1>13
  <2> QED BY <1>15, <2>1
<1>18. N(j) \subseteq Independent
  <2>1. 1..j \subseteq 1..Len(o) BY <1>5, <1>13
  <2> QED BY <1>5, <2>1
<1>19. x(4 + k) = Collector(n, w, x(4 + j))
  <2>1. 4 + k \in Nat /\ 4 + k # 0 /\ (4 + k) - 1 = 4 + j BY <1>5, <1>13
  <2> QED BY <1>3, <1>16, <2>1
<1> HIDE DEF N, Bad
<1>20. PICK y, z, M : y = x(4 + j) /\ z = x(4 + k) /\ M = N(j) OBVIOUS
<1>21. View(y, b) BY <1>10, <1>14, <1>20, GatheredView
<1>22. Gives(n, w, b, g[n].e, g[n].l, g[n].v) BY <1>2, <1>16 DEF Givings
<1>23. Adds(z, y, g[n].e, g[n].l, g[n].v) BY <1>19, <1>20, <1>21, <1>22 DEF Gives
<1>24. Givings(g, w, b) BY <1>2
<1>25. Gathered(z, g, b, M \cup {n})
  <2>1. Added \subseteq DOMAIN b /\ M \subseteq Independent /\ Gathered(y, g, b, M) BY <1>10, <1>14, <1>18, <1>20
  <2> QED BY <1>16, <1>23, <1>24, <2>1, GatherMore
<1> QED BY <1>9, <1>17, <1>20, <1>25

\* The order of the independent collectors does not show in what the rules
\* are given.
LEMMA OrdersAreEven ==
  ASSUME NEW w, Listed(w), NEW one \in Orders, NEW two \in Orders
  PROVE Even(Examine(w, NewAnalysis(w), Pipeline(one), Len(Pipeline(one))),
             Examine(w, NewAnalysis(w), Pipeline(two), Len(Pipeline(two))))
<1>1. PICK a, b, p, q, r : a = NewAnalysis(w) /\ b = Base(w) /\ p = Pipeline(one) /\ q = Pipeline(two) /\ r = Len(Rest) OBVIOUS
<1>2. Laid(p, one) /\ Laid(q, two) BY <1>1, PipelineIsLaid
<1>3. IsList(one) /\ ToSet(one) = Independent /\ IsList(two) /\ ToSet(two) = Independent BY HostAssumption
<1>4. PICK n, m : n = 4 + Len(one) /\ m = 4 + Len(two) OBVIOUS
<1> DEFINE x(k) == Examine(w, a, p, n + k)
           y(k) == Examine(w, a, q, m + k)
           Bad == {k \in 0..r : ~Even(x(k), y(k))}
<1>5. n \in Nat /\ m \in Nat /\ r \in Nat /\ Len(p) = n + r /\ Len(q) = m + r BY <1>1, <1>2, <1>4 DEF Laid
<1>6. \A i \in 1..r : p[n + i] = Rest[i] /\ q[m + i] = Rest[i] /\ Rest[i] \in Later BY <1>1, <1>2, <1>4 DEF Laid
<1>7. Even(Examine(w, a, p, n), Examine(w, a, q, m))
  <2>1. PICK g : Givings(g, w, b) BY <1>1, SomeGivings
  <2>2. Gathered(Examine(w, a, p, n), g, b, Independent) BY <1>1, <1>2, <1>3, <1>4, <2>1, WalkGathers
  <2>3. Gathered(Examine(w, a, q, m), g, b, Independent) BY <1>1, <1>2, <1>3, <1>4, <2>1, WalkGathers
  <2>4. Told \cup {"evidence"} \subseteq DOMAIN b BY <1>1, BaseIsReady
  <2> QED BY <2>2, <2>3, <2>4, GatheredEven
<1>8. \A k \in Nat : k # 0 => x(k) = Collector(p[n + k], w, x(k - 1)) /\ y(k) = Collector(q[m + k], w, y(k - 1))
  <2> SUFFICES ASSUME NEW k \in Nat, k # 0 PROVE x(k) = Collector(p[n + k], w, x(k - 1)) /\ y(k) = Collector(q[m + k], w, y(k - 1))
    OBVIOUS
  <2>1. n + k \in Nat /\ n + k # 0 /\ (n + k) - 1 = n + (k - 1) BY <1>5
  <2>2. m + k \in Nat /\ m + k # 0 /\ (m + k) - 1 = m + (k - 1) BY <1>5
  <2>3. \A i \in Nat : i # 0 => Examine(w, a, p, i) = Collector(p[i], w, Examine(w, a, p, i - 1)) BY ExamineSteps
  <2>4. \A i \in Nat : i # 0 => Examine(w, a, q, i) = Collector(q[i], w, Examine(w, a, q, i - 1)) BY ExamineSteps
  <2>5. Examine(w, a, p, n + k) = Collector(p[n + k], w, Examine(w, a, p, n + (k - 1))) BY <2>1, <2>3
  <2>6. Examine(w, a, q, m + k) = Collector(q[m + k], w, Examine(w, a, q, m + (k - 1))) BY <2>2, <2>4
  <2> QED BY <2>5, <2>6
<1>9. Even(x(0), y(0))
  <2>1. n + 0 = n /\ m + 0 = m BY <1>5
  <2> QED BY <1>7, <2>1
<1>10. Even(x(r), y(r)) => Even(Examine(w, a, p, Len(p)), Examine(w, a, q, Len(q))) BY <1>5
<1> HIDE DEF x, y
<1>11. SUFFICES ASSUME Bad # {} PROVE FALSE
  <2>1. r \in 0..r BY <1>5
  <2>2. Even(x(r), y(r)) BY <1>11, <2>1
  <2> QED BY <1>1, <1>10, <2>2
<1>12. PICK k \in Bad : \A j \in Bad : ~(j < k)
  <2>1. Bad \subseteq Nat BY <1>5
  <2> HIDE DEF Bad
  <2> QED BY <1>11, <2>1, Least
<1>13. k \in 0..r /\ ~Even(x(k), y(k)) OBVIOUS
<1>14. k # 0 BY <1>9, <1>13
<1>15. k - 1 \in 0..r /\ k - 1 < k /\ k \in 1..r /\ k \in Nat BY <1>5, <1>13, <1>14
<1>16. Even(x(k - 1), y(k - 1)) BY <1>12, <1>15
<1>17. x(k) = Collector(Rest[k], w, x(k - 1)) /\ y(k) = Collector(Rest[k], w, y(k - 1)) /\ Rest[k] \in Later
  BY <1>6, <1>8, <1>14, <1>15
<1>18. Even(Collector(Rest[k], w, x(k - 1)), Collector(Rest[k], w, y(k - 1))) BY <1>16, <1>17, LaterEven
<1> QED BY <1>13, <1>17, <1>18

-----------------------------------------------------------------------------
(* The rules, the verifiers and the percentage, of analyses that are even.  *)

\* What weighs the same reads the same.
LEMMA WeightReads ==
  ASSUME NEW s, NEW t, SameWeight(s, t)
  PROVE /\ Types(s) = Types(t)
        /\ \A type : OfType(s, type) = OfType(t, type)
        /\ \A type : Has(s, type) = Has(t, type)
<1>1. \A l, type : /\ OfType(l, type) = {e \in ToSet(l) : e.type = type}
                   /\ Has(l, type) = (\E e \in ToSet(l) : e.type = type)
                   /\ Types(l) = {e.type : e \in ToSet(l)}
  BY DEF OfType, Has, Types, ToSet
<1>2. ToSet(s) = ToSet(t) BY DEF SameWeight
<1>3. Types(s) = Types(t)
  <2>1. Types(s) = {e.type : e \in ToSet(s)} /\ Types(t) = {e.type : e \in ToSet(t)} BY <1>1
  <2> QED BY <1>2, <2>1
<1>4. \A type : OfType(s, type) = OfType(t, type) /\ Has(s, type) = Has(t, type) BY <1>1, <1>2
<1> QED BY <1>3, <1>4

LEMMA ClassifyWeighs ==
  ASSUME NEW a, NEW b, SameWeight(a.evidence, b.evidence), a.verification = b.verification PROVE Classify(a) = Classify(b)
<1>1. PICK s, t : s = a.evidence /\ t = b.evidence OBVIOUS
<1>2. Types(s) = Types(t) /\ \A type : OfType(s, type) = OfType(t, type) /\ Has(s, type) = Has(t, type)
  BY <1>1, WeightReads
<1>3. ASSUME NEW type PROVE ProviderBound(s, type) = ProviderBound(t, type)
  <2>1. OfType(s, "CNAME_PROVIDER_MATCH") = OfType(t, "CNAME_PROVIDER_MATCH") /\ OfType(s, type) = OfType(t, type) BY <1>2
  <2> QED BY <2>1, Zenon DEF ProviderBound
<1>4. HealthyResponse(s) = HealthyResponse(t) BY <1>2 DEF HealthyResponse
<1> DEFINE table(zone, claimed, mutated, matched, claimable, undemonstrated, candidate, broken, dangling, types, healthy, v) ==
             LET some(wanted) == types \cap wanted # {}
             IN << <<"ZONE_CONTROL_CONFIRMED", zone>>,
                   <<"TAKEN_OVER", claimed>>,
                   <<"CONFIRMED_TAKEOVERABLE", v.score = 100 /\ v.verified /\ v.proven /\ v.confidence = 100>>,
                   <<"LIKELY_TAKEOVERABLE", mutated \/ matched>>,
                   <<"DELEGATION_CLAIMABILITY_VERIFIED", claimable>>,
                   <<"DELEGATION_BROKEN", undemonstrated>>,
                   <<"DELEGATION_TAKEOVER_CANDIDATE", candidate>>,
                   <<"DELEGATION_BROKEN", broken>>,
                   <<"EXPOSED", some(Exposures)>>,
                   <<"ORPHANED", dangling>>,
                   <<"MISCONFIGURED", some(Misconfigurations)>>,
                   <<"HEALTHY", /\ healthy /\ some({"CDN_DETECTED", "TECHNOLOGY_DETECTED"})
                                /\ ~some({"HTTP_STATUS_404", "CNAME_DANGLING", "NXDOMAIN"})>>,
                   <<"INSUFFICIENT_EVIDENCE", types \subseteq ContextTypes>>,
                   <<"UNKNOWN", TRUE>> >>
           rows(e, v) ==
             table(Has(e, "ZONE_CONTROL_CONFIRMED"), Has(e, "CLAIM_SUCCESS"),
                   ProviderBound(e, "HTTP_MUTATION_REVEALED_PROVIDER_FINGERPRINT"), ProviderBound(e, "HTTP_BODY_MATCH"),
                   Has(e, "DELEGATION_CLAIMABILITY_VERIFIED"), Has(e, "DELEGATION_CLAIMABILITY_NOT_DEMONSTRATED"),
                   Has(e, "DELEGATION_TAKEOVER_CANDIDATE"), Has(e, "DELEGATION_BROKEN"), Has(e, "CNAME_DANGLING"),
                   Types(e), HealthyResponse(e), v)
<1>5. Rules(a) = rows(s, a.verification) /\ Rules(b) = rows(t, b.verification)
  <2>1. \A x : Rules(x) = rows(x.evidence, x.verification) BY Zenon DEF Rules
  <2> HIDE DEF rows
  <2> QED BY <1>1, <2>1
<1> HIDE DEF table
<1>6. rows(s, a.verification) = rows(t, a.verification)
  <2>1. Has(s, "ZONE_CONTROL_CONFIRMED") = Has(t, "ZONE_CONTROL_CONFIRMED") BY <1>2
  <2>2. Has(s, "CLAIM_SUCCESS") = Has(t, "CLAIM_SUCCESS") BY <1>2
  <2>3. Has(s, "DELEGATION_CLAIMABILITY_VERIFIED") = Has(t, "DELEGATION_CLAIMABILITY_VERIFIED") BY <1>2
  <2>4. Has(s, "DELEGATION_CLAIMABILITY_NOT_DEMONSTRATED") = Has(t, "DELEGATION_CLAIMABILITY_NOT_DEMONSTRATED") BY <1>2
  <2>5. Has(s, "DELEGATION_TAKEOVER_CANDIDATE") = Has(t, "DELEGATION_TAKEOVER_CANDIDATE") BY <1>2
  <2>6. Has(s, "DELEGATION_BROKEN") = Has(t, "DELEGATION_BROKEN") BY <1>2
  <2>7. Has(s, "CNAME_DANGLING") = Has(t, "CNAME_DANGLING") BY <1>2
  <2>8. ProviderBound(s, "HTTP_MUTATION_REVEALED_PROVIDER_FINGERPRINT") = ProviderBound(t, "HTTP_MUTATION_REVEALED_PROVIDER_FINGERPRINT")
    BY <1>3
  <2>9. ProviderBound(s, "HTTP_BODY_MATCH") = ProviderBound(t, "HTTP_BODY_MATCH") BY <1>3
  <2>10. Types(s) = Types(t) BY <1>2
  <2> QED BY <1>4, <2>1, <2>2, <2>3, <2>4, <2>5, <2>6, <2>7, <2>8, <2>9, <2>10, ZenonT(60)
<1> HIDE DEF rows
<1>7. Rules(a) = Rules(b) BY <1>5, <1>6
<1> QED BY <1>7 DEF Classify

LEMMA CalculateWeighs ==
  ASSUME NEW a, NEW b, SameWeight(a.evidence, b.evidence), a.tested = b.tested, a.profile = b.profile,
         a.level = b.level, a.mitigation = b.mitigation, a.confidence = b.confidence, a.unknown = b.unknown
  PROVE Calculate(a) = Calculate(b)
<1> DEFINE coverage(x) == CalculateCoverage(x.tested, x.profile)
           knowledge(x) == CalculateKnowledge(x.evidence)
           healthy(x) == AtMost(coverage(x), AtMost(999, 800 + x.mitigation * 2))
           unknown(x) == coverage(x) >= 800 /\ knowledge(x) <= 300 /\ x.unknown # ""
           rest(x) == AtMost(coverage(x), AtMost(999, (x.confidence * Multiplier(x.evidence)) \div 10))
<1>1. \A x : Calculate(x) = CASE x.level \in {"TAKEN_OVER", "ZONE_CONTROL_CONFIRMED"} -> 1000
                             [] x.level = "INSUFFICIENT_EVIDENCE" -> 0
                             [] x.level = "HEALTHY" -> IF unknown(x) THEN AtMost(450, healthy(x)) ELSE healthy(x)
                             [] OTHER -> rest(x)
  BY DEF Calculate
<1>2. knowledge(a) = knowledge(b)
  <2>1. PICK s, t : s = a.evidence /\ t = b.evidence OBVIOUS
  <2>2. Types(s) = Types(t) BY <2>1, WeightReads
  <2>3. CalculateKnowledge(s) = CalculateKnowledge(t) BY <2>2 DEF CalculateKnowledge
  <2> QED BY <2>1, <2>3
<1>3. coverage(a) = coverage(b) /\ Multiplier(a.evidence) = Multiplier(b.evidence) BY DEF SameWeight
<1>4. healthy(a) = healthy(b) /\ (unknown(a) <=> unknown(b)) /\ rest(a) = rest(b)
  <2> HIDE DEF coverage, knowledge
  <2> QED BY <1>2, <1>3
<1> HIDE DEF healthy, unknown, rest
<1> QED BY <1>1, <1>4

\* Two analyses of one verdict, and on which the verifiers have the same to do.
Agree(a, b) ==
  /\ Fields \cup {"target"} \subseteq DOMAIN a /\ Fields \cup {"target"} \subseteq DOMAIN b
  /\ SameWeight(a.evidence, b.evidence)
  /\ Drawn(a.inferences) /\ Drawn(b.inferences) /\ StatesOf(a.inferences) = StatesOf(b.inferences)
  /\ a.tested = b.tested /\ a.profile = b.profile /\ a.verification = b.verification /\ a.candidates = b.candidates
  /\ a.level = b.level /\ a.state = b.state /\ a.mitigation = b.mitigation /\ a.confidence = b.confidence
  /\ a.unknown = b.unknown

\* The rules leave the candidates alone.
LEMMA ProcessCandidates ==
  ASSUME NEW a, NEW walk
  PROVE Process(a, walk).candidates = a.candidates /\ DOMAIN Process(a, walk) = DOMAIN a
<1>1. PICK i : i = Infer(a, walk) OBVIOUS
<1>2. PICK s : s = CalculateScores(i) OBVIOUS
<1>3. PICK j : j = Reclassify(s) OBVIOUS
<1>4. i.candidates = a.candidates /\ DOMAIN i = DOMAIN a
  <2> DEFINE said == Those(a.evidence, LAMBDA e : e.source # "INFERENCE") \o Once(Draws(a, walk).evidence)
  <2>1. i = [a EXCEPT !.evidence = said, !.inferences = Draws(a, walk).inferences] BY <1>1, InferDraws
  <2> HIDE DEF said
  <2> QED BY <2>1
<1>5. s.candidates = i.candidates /\ DOMAIN s = DOMAIN i BY <1>2 DEF CalculateScores
<1>6. j.candidates = s.candidates /\ DOMAIN j = DOMAIN s
  <2> DEFINE at == [s EXCEPT !.level = Classify(s)]
  <2>1. at.candidates = s.candidates /\ DOMAIN at = DOMAIN s OBVIOUS
  <2>2. j = UpdateDecision(at) BY <1>3 DEF Reclassify
  <2> HIDE DEF at
  <2>3. \A x, y, z : /\ [at EXCEPT !.state = x, !.rule = y, !.impact = z].candidates = at.candidates
                     /\ DOMAIN [at EXCEPT !.state = x, !.rule = y, !.impact = z] = DOMAIN at
    OBVIOUS
  <2>4. \E x, y, z : j = [at EXCEPT !.state = x, !.rule = y, !.impact = z] BY <2>2, ZenonT(60) DEF UpdateDecision
  <2> QED BY <2>1, <2>3, <2>4
<1>7. Process(a, walk) = DetectUnknownProvider(j) BY <1>1, <1>2, <1>3 DEF Process
<1>8. Process(a, walk).candidates = j.candidates /\ DOMAIN Process(a, walk) = DOMAIN j
  <2>1. \A x : [j EXCEPT !.unknown = x].candidates = j.candidates /\ DOMAIN [j EXCEPT !.unknown = x] = DOMAIN j
    OBVIOUS
  <2> QED BY <1>7, <2>1 DEF DetectUnknownProvider
<1> QED BY <1>4, <1>5, <1>6, <1>8

\* The rules give what is even one verdict, whichever way they walk the chains.
LEMMA ProcessEven ==
  ASSUME NEW a, NEW b, Even(a, b), Sound(a, {}), Sound(b, {}), a.unknown = "",
         NEW c \in BothWays, NEW d \in BothWays
  PROVE Agree(Process(a, c), Process(b, d))
<1>1. PICK p, q : p = Process(a, c) /\ q = Process(b, d) OBVIOUS
<1>2. /\ Fields \cup {"target"} \subseteq DOMAIN a /\ Fields \cup {"target"} \subseteq DOMAIN b BY DEF Even, Told, Sound
<1>3. /\ a.candidates = b.candidates /\ a.http = b.http /\ a.chains = b.chains /\ a.tested = b.tested /\ a.profile = b.profile
      /\ a.verification = b.verification /\ b.unknown = "" /\ a.target = b.target
  BY EvenReads, ZenonT(60)
<1>4. Written(p, a, c) /\ Written(q, b, d) BY <1>1, <1>2, <1>3, ProcessWrites
<1>5. PICK x, y, z : x = Original(a.evidence) /\ y = Original(b.evidence) /\ z = Once(Draws(a, c).evidence) OBVIOUS
<1>6. Draws(b, d) = Draws(a, d) BY <1>3, DrawsRead
<1>7. /\ Draws(a, c).evidence = Draws(a, d).evidence
      /\ StatesOf(Draws(a, c).inferences) = StatesOf(Draws(a, d).inferences)
  BY DrawsAgree
<1>8. IsList(z)
  <2>1. Inferred(Once(Draws(a, c).evidence)) BY DrawsPlainly, OnceInferred
  <2> QED BY <1>5, <2>1 DEF Inferred
<1>9. SameWeight(x, y) BY <1>5 DEF Even
<1>10. SameWeight(x \o z, y \o z) BY <1>8, <1>9, SameWeightAdding
<1>11. p.evidence = x \o z /\ q.evidence = y \o z BY <1>4, <1>5, <1>6, <1>7 DEF Written
<1>12. SameWeight(p.evidence, q.evidence) BY <1>10, <1>11
<1>13. /\ p.inferences = Draws(a, c).inferences /\ q.inferences = Draws(a, d).inferences
       /\ Drawn(p.inferences) /\ Drawn(q.inferences)
  BY <1>4, <1>6, DrawsPlainly, ZenonT(60) DEF Written, Plainly
<1>14. StatesOf(p.inferences) = StatesOf(q.inferences) BY <1>7, <1>13
<1>15. p.tested = q.tested /\ p.profile = q.profile /\ p.verification = q.verification /\ p.target = q.target
  BY <1>3, <1>4 DEF Written
<1>16. p.mitigation = q.mitigation /\ p.confidence = q.confidence BY <1>4, <1>12 DEF Written, SameWeight
<1>17. p.level = q.level
  <2>1. Classify(p) = Classify(q) BY <1>12, <1>15, ClassifyWeighs
  <2> QED BY <1>4, <2>1 DEF Written
<1>18. p.state = q.state
  <2>1. GivenState(p.level, p.inferences) = GivenState(p.level, q.inferences) BY <1>13, <1>14, SameState
  <2> QED BY <1>4, <1>17, <2>1 DEF Written
<1>19. p.unknown = q.unknown
  <2>1. Types(p.evidence) = Types(q.evidence) BY <1>12, WeightReads
  <2>2. UnknownOf(p.evidence, p.target) = UnknownOf(q.evidence, q.target) BY <1>15, <2>1 DEF UnknownOf
  <2> QED BY <1>4, <2>2 DEF Written
<1>20. p.candidates = q.candidates /\ DOMAIN p = DOMAIN a /\ DOMAIN q = DOMAIN b BY <1>1, <1>3, ProcessCandidates
<1>21. Agree(p, q) BY <1>2, <1>12, <1>13, <1>14, <1>15, <1>16, <1>17, <1>18, <1>19, <1>20 DEF Agree
<1> QED BY <1>1, <1>21

LEMMA AgreeTested == ASSUME NEW a, NEW b, Agree(a, b), NEW v PROVE Agree(Tested(a, v), Tested(b, v))
<1> DEFINE c == Tested(a, v)
           d == Tested(b, v)
<1>1. \A x : Fields \cup {"target"} \subseteq DOMAIN x =>
        /\ DOMAIN Tested(x, v) = DOMAIN x /\ Tested(x, v).tested = x.tested \cup {v}
        /\ Tested(x, v).evidence = x.evidence /\ Tested(x, v).inferences = x.inferences
        /\ Tested(x, v).profile = x.profile /\ Tested(x, v).verification = x.verification
        /\ Tested(x, v).candidates = x.candidates /\ Tested(x, v).level = x.level /\ Tested(x, v).state = x.state
        /\ Tested(x, v).mitigation = x.mitigation /\ Tested(x, v).confidence = x.confidence
        /\ Tested(x, v).unknown = x.unknown
  BY DEF Tested, Fields
<1>2. Fields \cup {"target"} \subseteq DOMAIN a /\ Fields \cup {"target"} \subseteq DOMAIN b BY DEF Agree
<1>3. /\ DOMAIN c = DOMAIN a /\ c.tested = a.tested \cup {v} /\ c.evidence = a.evidence /\ c.inferences = a.inferences
      /\ c.profile = a.profile /\ c.verification = a.verification /\ c.candidates = a.candidates /\ c.level = a.level
      /\ c.state = a.state /\ c.mitigation = a.mitigation /\ c.confidence = a.confidence /\ c.unknown = a.unknown
  BY <1>1, <1>2
<1>4. /\ DOMAIN d = DOMAIN b /\ d.tested = b.tested \cup {v} /\ d.evidence = b.evidence /\ d.inferences = b.inferences
      /\ d.profile = b.profile /\ d.verification = b.verification /\ d.candidates = b.candidates /\ d.level = b.level
      /\ d.state = b.state /\ d.mitigation = b.mitigation /\ d.confidence = b.confidence /\ d.unknown = b.unknown
  BY <1>1, <1>2
<1> HIDE DEF c, d
<1>5. Agree(c, d) BY <1>3, <1>4 DEF Agree
<1> QED BY <1>5 DEF c, d

LEMMA AgreeCollected ==
  ASSUME NEW a, NEW b, Agree(a, b), NEW e, IsList(e) PROVE Agree(Collected(a, e), Collected(b, e))
<1> DEFINE c == Collected(a, e)
           d == Collected(b, e)
<1>1. \A x : Fields \cup {"target"} \subseteq DOMAIN x =>
        /\ DOMAIN Collected(x, e) = DOMAIN x /\ Collected(x, e).evidence = x.evidence \o e
        /\ Collected(x, e).tested = x.tested /\ Collected(x, e).inferences = x.inferences
        /\ Collected(x, e).profile = x.profile /\ Collected(x, e).verification = x.verification
        /\ Collected(x, e).candidates = x.candidates /\ Collected(x, e).level = x.level /\ Collected(x, e).state = x.state
        /\ Collected(x, e).mitigation = x.mitigation /\ Collected(x, e).confidence = x.confidence
        /\ Collected(x, e).unknown = x.unknown
  BY DEF Collected, Fields
<1>2. Fields \cup {"target"} \subseteq DOMAIN a /\ Fields \cup {"target"} \subseteq DOMAIN b BY DEF Agree
<1>3. /\ DOMAIN c = DOMAIN a /\ c.evidence = a.evidence \o e /\ c.tested = a.tested /\ c.inferences = a.inferences
      /\ c.profile = a.profile /\ c.verification = a.verification /\ c.candidates = a.candidates /\ c.level = a.level
      /\ c.state = a.state /\ c.mitigation = a.mitigation /\ c.confidence = a.confidence /\ c.unknown = a.unknown
  BY <1>1, <1>2
<1>4. /\ DOMAIN d = DOMAIN b /\ d.evidence = b.evidence \o e /\ d.tested = b.tested /\ d.inferences = b.inferences
      /\ d.profile = b.profile /\ d.verification = b.verification /\ d.candidates = b.candidates /\ d.level = b.level
      /\ d.state = b.state /\ d.mitigation = b.mitigation /\ d.confidence = b.confidence /\ d.unknown = b.unknown
  BY <1>1, <1>2
<1> HIDE DEF c, d
<1>5. SameWeight(c.evidence, d.evidence)
  <2>1. PICK s, t : s = a.evidence /\ t = b.evidence OBVIOUS
  <2>2. SameWeight(s, t) BY <2>1 DEF Agree
  <2>3. SameWeight(s \o e, t \o e) BY <2>2, SameWeightAdding
  <2> QED BY <1>3, <1>4, <2>1, <2>3
<1>6. Agree(c, d) BY <1>3, <1>4, <1>5 DEF Agree
<1> QED BY <1>6 DEF c, d

\* The same verifiers fit them.
LEMMA AgreeMatches ==
  ASSUME NEW a, NEW b, Agree(a, b), NEW w, NEW v PROVE VerifierMatchesAnalysis(w, a, v) <=> VerifierMatchesAnalysis(w, b, v)
<1>1. ToSet(a.evidence) = ToSet(b.evidence) /\ a.candidates = b.candidates BY DEF Agree, SameWeight
<1>2. \A x : (\E i \in DOMAIN x.evidence : x.evidence[i].source = v) <=> \E e \in ToSet(x.evidence) : e.source = v
  BY DEF ToSet
<1>3. \A x : VerifierMatchesAnalysis(w, x, v) <=>
               \/ \E m \in x.candidates : m.provider = v
               \/ \E e \in ToSet(x.evidence) : e.source = v
               \/ \E i \in DOMAIN w.aliases : w.aliases[i].hint = v
  BY <1>2 DEF VerifierMatchesAnalysis
<1> QED BY <1>1, <1>3

LEMMA AgreeWinners == ASSUME NEW a, NEW b, Agree(a, b), NEW w PROVE Winners(w, a) = Winners(w, b)
<1>1. a.level = b.level BY DEF Agree
<1>2. \A v : VerifierMatchesAnalysis(w, a, v) <=> VerifierMatchesAnalysis(w, b, v) BY AgreeMatches
<1> QED BY <1>1, <1>2 DEF Winners

LEMMA AgreeVerified == ASSUME NEW a, NEW b, Agree(a, b) PROVE Agree(WithVerification(a), WithVerification(b))
<1> DEFINE v == [score |-> 90, verified |-> TRUE, proven |-> FALSE, confidence |-> 90]
           c == WithVerification(a)
           d == WithVerification(b)
<1>1. c = [a EXCEPT !.verification = v] /\ d = [b EXCEPT !.verification = v] BY DEF WithVerification
<1> HIDE DEF v
<1>2. Fields \cup {"target"} \subseteq DOMAIN a /\ Fields \cup {"target"} \subseteq DOMAIN b BY DEF Agree
<1>3. /\ DOMAIN c = DOMAIN a /\ c.evidence = a.evidence /\ c.tested = a.tested /\ c.inferences = a.inferences
      /\ c.profile = a.profile /\ c.verification = v /\ c.candidates = a.candidates /\ c.level = a.level
      /\ c.state = a.state /\ c.mitigation = a.mitigation /\ c.confidence = a.confidence /\ c.unknown = a.unknown
  BY <1>1, <1>2 DEF Fields
<1>4. /\ DOMAIN d = DOMAIN b /\ d.evidence = b.evidence /\ d.tested = b.tested /\ d.inferences = b.inferences
      /\ d.profile = b.profile /\ d.verification = v /\ d.candidates = b.candidates /\ d.level = b.level
      /\ d.state = b.state /\ d.mitigation = b.mitigation /\ d.confidence = b.confidence /\ d.unknown = b.unknown
  BY <1>1, <1>2 DEF Fields
<1> HIDE DEF c, d
<1>5. Agree(c, d) BY <1>3, <1>4 DEF Agree
<1> QED BY <1>5 DEF c, d

\* What judging again writes.
LEMMA ReclassifyWrites ==
  ASSUME NEW a, Fields \cup {"target"} \subseteq DOMAIN a, NEW c, c = Reclassify(a)
  PROVE /\ DOMAIN c = DOMAIN a /\ c.evidence = a.evidence /\ c.tested = a.tested /\ c.inferences = a.inferences
        /\ c.profile = a.profile /\ c.verification = a.verification /\ c.candidates = a.candidates
        /\ c.level = Classify(a) /\ c.state = GivenState(Classify(a), a.inferences)
        /\ c.mitigation = a.mitigation /\ c.confidence = a.confidence /\ c.unknown = a.unknown
<1> DEFINE level == Classify(a)
           at == [a EXCEPT !.level = level]
           selected == InferenceForState(a.inferences, StateForLevel(level))
           impact == IF GivenState(level, a.inferences) = "CONFIRMED" /\ selected.impact = 0 THEN 100 ELSE selected.impact
<1>1. c = UpdateDecision(at) BY DEF Reclassify
<1> HIDE DEF level
<1>2. /\ DOMAIN at = DOMAIN a /\ at.level = level /\ at.evidence = a.evidence /\ at.inferences = a.inferences
      /\ at.tested = a.tested /\ at.profile = a.profile /\ at.mitigation = a.mitigation
      /\ at.confidence = a.confidence /\ at.unknown = a.unknown /\ at.candidates = a.candidates
      /\ at.verification = a.verification
  BY DEF Fields
<1>3. c = [at EXCEPT !.state = GivenState(level, a.inferences), !.rule = selected.rule, !.impact = impact]
  <2> HIDE DEF at
  <2> QED BY <1>1, <1>2 DEF UpdateDecision, GivenState
<1> HIDE DEF at, selected, impact
<1>4. /\ DOMAIN c = DOMAIN at /\ c.evidence = at.evidence /\ c.tested = at.tested /\ c.inferences = at.inferences
      /\ c.profile = at.profile /\ c.verification = at.verification /\ c.candidates = at.candidates
      /\ c.level = at.level /\ c.state = GivenState(level, a.inferences)
      /\ c.mitigation = at.mitigation /\ c.confidence = at.confidence /\ c.unknown = at.unknown
  BY <1>2, <1>3 DEF Fields
<1> QED BY <1>2, <1>4 DEF level

LEMMA AgreeReclassified == ASSUME NEW a, NEW b, Agree(a, b) PROVE Agree(Reclassify(a), Reclassify(b))
<1>1. PICK c, d : c = Reclassify(a) /\ d = Reclassify(b) OBVIOUS
<1>2. Fields \cup {"target"} \subseteq DOMAIN a /\ Fields \cup {"target"} \subseteq DOMAIN b BY DEF Agree
<1>3. /\ DOMAIN c = DOMAIN a /\ c.evidence = a.evidence /\ c.tested = a.tested /\ c.inferences = a.inferences
      /\ c.profile = a.profile /\ c.verification = a.verification /\ c.candidates = a.candidates
      /\ c.level = Classify(a) /\ c.state = GivenState(Classify(a), a.inferences)
      /\ c.mitigation = a.mitigation /\ c.confidence = a.confidence /\ c.unknown = a.unknown
  BY <1>1, <1>2, ReclassifyWrites
<1>4. /\ DOMAIN d = DOMAIN b /\ d.evidence = b.evidence /\ d.tested = b.tested /\ d.inferences = b.inferences
      /\ d.profile = b.profile /\ d.verification = b.verification /\ d.candidates = b.candidates
      /\ d.level = Classify(b) /\ d.state = GivenState(Classify(b), b.inferences)
      /\ d.mitigation = b.mitigation /\ d.confidence = b.confidence /\ d.unknown = b.unknown
  BY <1>1, <1>2, ReclassifyWrites
<1>5. Classify(a) = Classify(b) BY ClassifyWeighs DEF Agree
<1>6. GivenState(Classify(a), a.inferences) = GivenState(Classify(a), b.inferences) BY SameState DEF Agree
<1>7. Agree(c, d) BY <1>3, <1>4, <1>5, <1>6 DEF Agree
<1> QED BY <1>1, <1>7

LEMMA AgreeCloud == ASSUME NEW a, NEW b, Agree(a, b), NEW w PROVE Agree(RunCloud(w, a), RunCloud(w, b))
<1> DEFINE asked(x) == w.bucket.verifier # "" /\ VerifierMatchesAnalysis(w, x, w.bucket.verifier) /\ HasProviderCNAME(w, w.bucket.verifier)
<1>1. \A x : RunCloud(w, x) = Tested(IF asked(x) THEN Collected(x, BucketEvidence(w)) ELSE x, "CLOUD") BY DEF RunCloud
<1>2. asked(a) <=> asked(b) BY AgreeMatches
<1>3. IsList(BucketEvidence(w)) BY BucketIsCloudy DEF Cloudy
<1> HIDE DEF asked
<1>4. Agree(Collected(a, BucketEvidence(w)), Collected(b, BucketEvidence(w))) BY <1>3, AgreeCollected
<1>5. CASE asked(a)
  <2>1. /\ RunCloud(w, a) = Tested(Collected(a, BucketEvidence(w)), "CLOUD")
        /\ RunCloud(w, b) = Tested(Collected(b, BucketEvidence(w)), "CLOUD")
    BY <1>1, <1>2, <1>5
  <2> QED BY <1>4, <2>1, AgreeTested
<1>6. CASE ~asked(a)
  <2>1. RunCloud(w, a) = Tested(a, "CLOUD") /\ RunCloud(w, b) = Tested(b, "CLOUD") BY <1>1, <1>2, <1>6
  <2> QED BY <2>1, AgreeTested
<1> QED BY <1>5, <1>6

\* The verifiers leave it one verdict, whether they are cut short or not.
LEMMA AgreeAfterVerifiers ==
  ASSUME NEW a, NEW b, Agree(a, b), NEW w, NEW cut PROVE Agree(AfterVerifiers(w, a, cut), AfterVerifiers(w, b, cut))
<1> DEFINE cloud(so) == IF ~CheckCloud THEN so ELSE IF cut THEN Tested(so, "CLOUD") ELSE RunCloud(w, so)
           won(x) == ~cut /\ Winners(w, x) # {}
<1>1. \A x : AfterVerifiers(w, x, cut) = IF won(x) THEN Reclassify(cloud(WithVerification(x))) ELSE cloud(x)
  BY DEF AfterVerifiers
<1>2. won(a) <=> won(b) BY AgreeWinners
<1>3. ASSUME NEW x, NEW y, Agree(x, y) PROVE Agree(cloud(x), cloud(y))
  <2>1. Agree(Tested(x, "CLOUD"), Tested(y, "CLOUD")) BY <1>3, AgreeTested
  <2>2. Agree(RunCloud(w, x), RunCloud(w, y)) BY <1>3, AgreeCloud
  <2> QED BY <1>3, <2>1, <2>2
<1> HIDE DEF cloud, won
<1>4. Agree(cloud(a), cloud(b)) BY <1>3
<1>5. Agree(Reclassify(cloud(WithVerification(a))), Reclassify(cloud(WithVerification(b))))
  <2>1. PICK c, d : c = WithVerification(a) /\ d = WithVerification(b) OBVIOUS
  <2>2. Agree(c, d) BY <2>1, AgreeVerified
  <2>3. Agree(cloud(c), cloud(d)) BY <1>3, <2>2
  <2>4. Agree(Reclassify(cloud(c)), Reclassify(cloud(d))) BY <2>3, AgreeReclassified
  <2> QED BY <2>1, <2>4
<1> QED BY <1>1, <1>2, <1>4, <1>5

\* And the percentage is the same.
LEMMA AgreeVerdict ==
  ASSUME NEW a, NEW b, Agree(a, b) PROVE Verdict(Concluded(a)) = Verdict(Concluded(b))
<1>1. Calculate(a) = Calculate(b) BY CalculateWeighs DEF Agree
<1>2. {"level", "state", "percent"} \subseteq DOMAIN a /\ {"level", "state", "percent"} \subseteq DOMAIN b BY DEF Agree, Fields
<1>3. \A x, n : {"level", "state", "percent"} \subseteq DOMAIN x =>
        /\ [x EXCEPT !.percent = n].level = x.level /\ [x EXCEPT !.percent = n].state = x.state
        /\ [x EXCEPT !.percent = n].percent = n
  OBVIOUS
<1>4. /\ Verdict(Concluded(a)) = [level |-> a.level, state |-> a.state, percent |-> Calculate(a)]
      /\ Verdict(Concluded(b)) = [level |-> b.level, state |-> b.state, percent |-> Calculate(b)]
  BY <1>2, <1>3 DEF Verdict, Concluded
<1>5. a.level = b.level /\ a.state = b.state BY DEF Agree
<1> QED BY <1>1, <1>4, <1>5

-----------------------------------------------------------------------------
(* The examination nobody disturbs.                                         *)

\* The examination of a world nobody disturbs, and all that follows it.
Whole(w, o) == Examine(w, NewAnalysis(w), Pipeline(o), Len(Pipeline(o)))
Passed(w, o, c) == AfterVerifiers(w, Process(Whole(w, o), c), FALSE)

LEMMA WholeIsSound ==
  ASSUME NEW w, Listed(w), NEW o \in Orders PROVE Sound(Whole(w, o), {}) /\ Unjudged(Whole(w, o))
<1> DEFINE F == {}
<1>1. PICK a : a = NewAnalysis(w) OBVIOUS
<1>2. PICK p : p = Pipeline(o) OBVIOUS
<1> DEFINE x(n) == Examine(w, a, p, n)
           Good(y) == Sound(y, F) /\ Unjudged(y)
           Bad == {n \in 0..Len(p) : ~Good(x(n))}
<1>3. x(0) = a /\ \A n \in Nat : n # 0 => x(n) = Collector(p[n], w, x(n - 1)) BY ExamineSteps
<1> HIDE DEF x
<1>4. p \in Seq(Steps) /\ Len(p) \in Nat BY <1>2, PipelineIsMadeOfSteps
<1>5. Honest(w, F) BY NobodyIsExcluded
<1> HIDE DEF F
<1>6. Good(a)
  <2>1. Unjudged(a) BY <1>1, ZenonT(60) DEF NewAnalysis, Unjudged, Fields
  <2> QED BY <1>1, <2>1, NewIsSound
<1>7. ASSUME NEW y, Good(y), NEW name \in Steps PROVE Good(Collector(name, w, y))
  BY <1>5, <1>7, CollectorSound, CollectorUnjudged
<1> HIDE DEF Good
<1>8. Bad = {}
  <2>1. SUFFICES ASSUME Bad # {} PROVE FALSE OBVIOUS
  <2>2. Bad \subseteq Nat BY <1>4
  <2>3. PICK n \in Bad : \A m \in Bad : ~(m < n)
    <3> HIDE DEF Bad
    <3> QED BY <2>1, <2>2, Least
  <2>4. n \in 0..Len(p) /\ n \in Nat /\ ~Good(x(n)) BY <2>2
  <2>5. n # 0 BY <1>3, <1>6, <2>4
  <2>6. n - 1 \in 0..Len(p) /\ n - 1 < n /\ n \in 1..Len(p) BY <1>4, <2>4, <2>5
  <2>7. Good(x(n - 1)) BY <2>3, <2>6
  <2>8. p[n] \in Steps BY <1>4, <2>6
  <2>9. Good(Collector(p[n], w, x(n - 1))) BY <1>7, <2>7, <2>8
  <2> QED BY <1>3, <2>4, <2>5, <2>9
<1>9. Good(x(Len(p))) BY <1>4, <1>8
<1>10. Whole(w, o) = x(Len(p)) BY <1>1, <1>2 DEF Whole, x
<1> QED BY <1>9, <1>10 DEF Good, F

\* (internal/collectors/registry.go) The order in which the independent
\* collectors finish does not show in the verdict, nor the way the rules walk
\* the redirect chains, in any world with the lists a world has.
THEOREM NoOrderShows ==
  ASSUME NEW w, Listed(w), NEW one \in Orders, NEW two \in Orders, NEW c \in BothWays, NEW d \in BothWays
  PROVE Verdict(Concluded(Passed(w, one, c))) = Verdict(Concluded(Passed(w, two, d)))
<1>1. PICK a, b : a = Whole(w, one) /\ b = Whole(w, two) OBVIOUS
<1>2. Even(a, b) BY <1>1, OrdersAreEven DEF Whole
<1>3. Sound(a, {}) /\ Sound(b, {}) /\ a.unknown = "" BY <1>1, WholeIsSound DEF Unjudged
<1>4. PICK p, q : p = Process(a, c) /\ q = Process(b, d) OBVIOUS
<1>5. Agree(p, q) BY <1>2, <1>3, <1>4, ProcessEven
<1>6. PICK s, t : s = AfterVerifiers(w, p, FALSE) /\ t = AfterVerifiers(w, q, FALSE) OBVIOUS
<1>7. Agree(s, t) BY <1>5, <1>6, AgreeAfterVerifiers
<1>8. Verdict(Concluded(s)) = Verdict(Concluded(t)) BY <1>7, AgreeVerdict
<1>9. s = Passed(w, one, c) /\ t = Passed(w, two, d) BY <1>1, <1>4, <1>6 DEF Passed
<1> QED BY <1>8, <1>9

-----------------------------------------------------------------------------
\* The world of a host whose profile was read whole.
Calmly(name, one) == [Worlds[name] EXCEPT !.srv = @ \o If(one, Worlds[name].common)]

LEMMA CalmlyIsListed ==
  ASSUME NEW name \in DOMAIN Worlds, NEW one \in BOOLEAN
  PROVE /\ Listed(Calmly(name, one)) /\ NewAnalysis(Calmly(name, one)) = NewAnalysis(Worlds[name])
        /\ Calmly(name, one) = [Profiled(Worlds[name], {}) EXCEPT !.srv = @ \o If(one, Worlds[name].common)]
<1>1. PICK W : W = Worlds[name] OBVIOUS
<1>2. IsWorld(W) BY <1>1, WorldIsGiven, ZenonT(60)
<1>3. WorldFields \subseteq DOMAIN W BY <1>2, ZenonT(60) DEF IsWorld
<1> DEFINE P == Profiled(W, {})
           more == If(one, W.common)
           C == [W EXCEPT !.srv = @ \o more]
           D == [P EXCEPT !.srv = @ \o more]
<1>4. DOMAIN P = DOMAIN W /\ \A f \in DOMAIN W : P[f] = W[f] BY DEF Profiled
<1>5. "srv" \in DOMAIN W /\ "target" \in DOMAIN W BY <1>3 DEF WorldFields, ProfileLists
<1>6. C = D
  <2> HIDE DEF P, more
  <2>1. C = [f \in DOMAIN W |-> IF f = "srv" THEN W["srv"] \o more ELSE W[f]] OBVIOUS
  <2>2. D = [f \in DOMAIN P |-> IF f = "srv" THEN P["srv"] \o more ELSE P[f]] OBVIOUS
  <2> QED BY <1>4, <1>5, <2>1, <2>2
<1>7. Found(D, W)
  <2>1. {} \in SUBSET ProfileQueries OBVIOUS
  <2> QED BY <1>2, <2>1, ProfileIsFound
<1>8. Listed(C)
  <2> HIDE DEF C, D
  <2> QED BY <1>2, <1>6, <1>7, CalmLook
<1>9. NewAnalysis(C) = NewAnalysis(W)
  <2>1. C.target = W.target BY <1>5
  <2> HIDE DEF C
  <2> DEFINE fresh(t) ==
               [evidence |-> <<>>, candidates |-> {}, delegation |-> NoDelegation, http |-> [s \in Schemes |-> Unobserved],
                chains |-> [s \in Schemes |-> NoChain], cdn |-> "", tested |-> {},
                profile |-> DOMAIN VectorWeights \ {"TLS_SAN_PIVOT"}, mutations |-> <<>>, verification |-> NotVerified,
                inferences |-> <<>>, risk |-> 0, mitigation |-> 0, confidence |-> 0, level |-> "UNKNOWN", state |-> "",
                rule |-> "", impact |-> 0, unknown |-> "", target |-> t, percent |-> 0]
  <2>2. NewAnalysis(C) = fresh(C.target) /\ NewAnalysis(W) = fresh(W.target) BY Zenon DEF NewAnalysis
  <2> HIDE DEF fresh
  <2> QED BY <2>1, <2>2
<1>10. Calmly(name, one) = C BY <1>1 DEF Calmly
<1> HIDE DEF C, D
<1>11. Listed(Calmly(name, one)) /\ NewAnalysis(Calmly(name, one)) = NewAnalysis(W) /\ Calmly(name, one) = D
  BY <1>6, <1>8, <1>9, <1>10
<1> QED BY <1>1, <1>11 DEF D

-----------------------------------------------------------------------------
(* The invariant of the undisturbed examination.                            *)

\* When no lookup failed: the profile is whole; while nobody interrupts, the
\* analysis is as far as its order has come; and what is stored was concluded
\* from the whole of it.
Finished(a, w, o) == \E c \in BothWays : a = Concluded(Passed(w, o, c))
SequentialInv ==
  faults = 0 =>
    /\ lost = {}
    /\ pc = "profile" => analysis = NewAnalysis(Worlds[world])
    /\ pc = "collect" /\ ~interrupted =>
         analysis = Examine(Calmly(world, first), NewAnalysis(Calmly(world, first)), Pipeline(order), step - 1)
    /\ pc = "judge" /\ ~interrupted => analysis = Whole(Calmly(world, first), order)
    /\ pc = "verify" /\ ~interrupted => \E c \in BothWays : analysis = Process(Whole(Calmly(world, first), order), c)
    /\ pc = "decide" /\ ~interrupted => \E c \in BothWays : analysis = Passed(Calmly(world, first), order, c)
    /\ pc \in {"save", "observe"} => Finished(analysis, Calmly(world, first), order)
    /\ saved # None => Finished(saved, Calmly(world, first), order)

\* What is discovered when no query failed.
LEMMA DiscoveredCalmly ==
  ASSUME InPlace, lost = {}
  PROVE /\ Discovered = Calmly(world, first) /\ Listed(Calmly(world, first))
        /\ NewAnalysis(Calmly(world, first)) = NewAnalysis(Worlds[world])
<1>1. PICK name, one : name = world /\ one = first OBVIOUS
<1>2. name \in DOMAIN Worlds /\ one \in BOOLEAN BY <1>1 DEF InPlace
<1>3. Discovered = [Profiled(Worlds[name], {}) EXCEPT !.srv = @ \o If(one, Worlds[name].common)] BY <1>1 DEF Discovered
<1> QED BY <1>1, <1>2, <1>3, CalmlyIsListed

\* A step that leaves the analysis as it is.
LEMMA SequentialStays ==
  ASSUME SequentialInv, UNCHANGED <<world, order, first, lost, analysis, saved, faults>>,
         pc' # "done" => pc' = pc /\ step' = step, ~interrupted' => ~interrupted
  PROVE SequentialInv'
<1>1. PICK w : w = Calmly(world, first) OBVIOUS
<1>2. PICK a, s, o : a = analysis /\ s = saved /\ o = order BY SMTT(60)
<1>3. PICK W : W = Worlds[world] OBVIOUS
<1>4. /\ Calmly(world', first') = w /\ analysis' = a /\ saved' = s /\ order' = o /\ Worlds[world'] = W /\ faults' = faults
      /\ lost' = lost
  BY <1>1, <1>2, <1>3
<1> SUFFICES ASSUME faults' = 0 PROVE
      /\ lost' = {}
      /\ pc' = "profile" => a = NewAnalysis(W)
      /\ pc' = "collect" /\ ~interrupted' => a = Examine(w, NewAnalysis(w), Pipeline(o), step' - 1)
      /\ pc' = "judge" /\ ~interrupted' => a = Whole(w, o)
      /\ pc' = "verify" /\ ~interrupted' => \E c \in BothWays : a = Process(Whole(w, o), c)
      /\ pc' = "decide" /\ ~interrupted' => \E c \in BothWays : a = Passed(w, o, c)
      /\ pc' \in {"save", "observe"} => Finished(a, w, o)
      /\ s # None => Finished(s, w, o)
  BY <1>4 DEF SequentialInv
<1>5. /\ lost = {}
      /\ pc = "profile" => a = NewAnalysis(W)
      /\ pc = "collect" /\ ~interrupted => a = Examine(w, NewAnalysis(w), Pipeline(o), step - 1)
      /\ pc = "judge" /\ ~interrupted => a = Whole(w, o)
      /\ pc = "verify" /\ ~interrupted => \E c \in BothWays : a = Process(Whole(w, o), c)
      /\ pc = "decide" /\ ~interrupted => \E c \in BothWays : a = Passed(w, o, c)
      /\ pc \in {"save", "observe"} => Finished(a, w, o)
      /\ s # None => Finished(s, w, o)
  BY <1>1, <1>2, <1>3, <1>4 DEF SequentialInv
<1> QED BY <1>4, <1>5

LEMMA SequentialAtFirst == ASSUME Init PROVE SequentialInv
<1>1. pc = "profile" /\ saved = None /\ lost = {} /\ analysis = NewAnalysis(Worlds[world]) BY DEF Init
<1> QED BY <1>1 DEF SequentialInv

\* None of them failed when the count of those that did is zero.
LEMMA NoQueryFailed == ASSUME NEW failed \in SUBSET ProfileQueries, Cardinality(failed) = 0 PROVE failed = {}
<1>1. IsFiniteSet(failed) BY QueriesAreFinite
<1> QED BY <1>1, FS_EmptySet

LEMMA DiscoverKeepsSequential == ASSUME TruthInv, SequentialInv, Discover PROVE SequentialInv'
<1>1. /\ pc = "profile" /\ pc' \in {"collect", "done"} /\ step' = step
      /\ UNCHANGED <<world, order, first, analysis, saved, interrupted>>
  BY DEF Discover, Return
<1> SUFFICES ASSUME faults' = 0 PROVE SequentialInv'
  BY DEF SequentialInv
<1>2. PICK failed \in SUBSET ProfileQueries : lost' = failed /\ faults' = faults + Cardinality(failed) BY DEF Discover
<1>3. Cardinality(failed) \in Nat /\ faults \in Nat BY QueriesAreFinite DEF TruthInv, InPlace
<1>4. faults = 0 /\ Cardinality(failed) = 0 BY <1>2, <1>3
<1>5. failed = {} BY <1>4, NoQueryFailed
<1>6. PICK w : w = Calmly(world, first) OBVIOUS
<1>7. PICK a, o, s : a = analysis /\ o = order /\ s = saved OBVIOUS
<1>8. InPlace /\ lost = {} /\ step = 1
  BY <1>1, <1>4 DEF TruthInv, InPlace, SequentialInv
<1>9. NewAnalysis(w) = NewAnalysis(Worlds[world]) BY <1>6, <1>8, DiscoveredCalmly
<1>10. a = NewAnalysis(w) BY <1>1, <1>4, <1>7, <1>9 DEF SequentialInv
<1>11. a = Examine(w, NewAnalysis(w), Pipeline(o), 0) BY <1>10, ExamineSteps
<1>12. s # None => Finished(s, w, o) BY <1>4, <1>6, <1>7 DEF SequentialInv
<1>13. Calmly(world', first') = w /\ analysis' = a /\ saved' = s /\ order' = o /\ step' - 1 = 0 BY <1>1, <1>6, <1>7, <1>8
<1> QED BY <1>1, <1>2, <1>5, <1>11, <1>12, <1>13 DEF SequentialInv

LEMMA CollectKeepsSequential == ASSUME TruthInv, SequentialInv, Collect PROVE SequentialInv'
<1>1. /\ pc = "collect" /\ UNCHANGED <<world, order, first, lost, saved, interrupted>> BY DEF Collect
<1> SUFFICES ASSUME faults' = 0 PROVE SequentialInv'
  BY DEF SequentialInv
<1>2. InPlace /\ faults \in Nat /\ step \in 1..Len(Pipeline(order)) /\ order \in Orders BY <1>1 DEF TruthInv, InPlace
<1>3. faults' \in {faults, faults + 1} BY DEF Collect
<1>4. faults = 0 /\ faults' = faults BY <1>2, <1>3
<1>5. pc' \in {"collect", "judge", "done"} BY DEF Collect, Return
<1>6. PICK w, o, s : w = Calmly(world, first) /\ o = order /\ s = saved OBVIOUS
<1>7. s # None => Finished(s, w, o) BY <1>4, <1>6 DEF SequentialInv
<1>8. lost = {} BY <1>4 DEF SequentialInv
<1>9. Discovered = w BY <1>2, <1>6, <1>8, DiscoveredCalmly
<1>10. Calmly(world', first') = w /\ saved' = s /\ order' = o /\ lost' = {} BY <1>1, <1>6, <1>8
<1>11. CASE interrupted
  <2>1. interrupted' BY <1>1, <1>11
  <2> QED BY <1>5, <1>7, <1>10, <2>1 DEF SequentialInv
<1>12. CASE ~interrupted
  <2>1. PICK a, n : a = analysis /\ n = step OBVIOUS
  <2>2. a = Examine(w, NewAnalysis(w), Pipeline(o), n - 1) BY <1>1, <1>4, <1>6, <1>12, <2>1 DEF SequentialInv
  <2>3. /\ analysis' = Collector(Pipeline(order)[step], Discovered, analysis) /\ step' = step + 1
        /\ pc' = IF step = Len(Pipeline(order)) THEN "judge" ELSE "collect"
    <3>1. faults' # faults + 1 BY <1>2, <1>4
    <3> QED BY <1>12, <3>1 DEF Collect
  <2>4. /\ analysis' = Collector(Pipeline(o)[n], w, a) /\ step' = n + 1
        /\ pc' = IF n = Len(Pipeline(o)) THEN "judge" ELSE "collect"
    BY <1>6, <1>9, <2>1, <2>3
  <2>5. n \in Nat /\ n # 0 BY <1>2, <2>1
  <2>6. Collector(Pipeline(o)[n], w, a) = Examine(w, NewAnalysis(w), Pipeline(o), n) BY <2>2, <2>5, ExamineSteps
  <2>7. pc' = "judge" => analysis' = Whole(w, o) BY <2>4, <2>6 DEF Whole
  <2>8. pc' = "collect" => analysis' = Examine(w, NewAnalysis(w), Pipeline(o), step' - 1)
    <3>1. step' - 1 = n BY <2>4, <2>5
    <3> QED BY <2>4, <2>6, <3>1
  <2>9. pc' \in {"collect", "judge"} BY <2>4
  <2> QED BY <1>7, <1>10, <2>7, <2>8, <2>9 DEF SequentialInv
<1> QED BY <1>11, <1>12

LEMMA JudgeKeepsSequential == ASSUME SequentialInv, Judge PROVE SequentialInv'
<1>1. pc = "judge" /\ UNCHANGED <<world, order, first, lost, step, saved, interrupted, faults>> BY DEF Judge
<1>2. CASE pc' = "done" /\ UNCHANGED analysis BY <1>1, <1>2, SequentialStays
<1>3. CASE pc' = "verify" /\ \E chains \in BothWays : analysis' = Process(analysis, chains)
  <2> SUFFICES ASSUME faults' = 0 PROVE SequentialInv'
    BY DEF SequentialInv
  <2>1. PICK w, o, s, a : w = Calmly(world, first) /\ o = order /\ s = saved /\ a = analysis OBVIOUS
  <2>2. lost = {} /\ (~interrupted => a = Whole(w, o)) /\ (s # None => Finished(s, w, o)) BY <1>1, <2>1 DEF SequentialInv
  <2>3. PICK c \in BothWays : analysis' = Process(a, c) BY <1>3, <2>1
  <2>4. ~interrupted => \E d \in BothWays : analysis' = Process(Whole(w, o), d) BY <2>2, <2>3
  <2>5. Calmly(world', first') = w /\ saved' = s /\ order' = o /\ lost' = {} BY <1>1, <2>1, <2>2
  <2> QED BY <1>1, <1>3, <2>2, <2>4, <2>5 DEF SequentialInv
<1> QED BY <1>2, <1>3 DEF Judge, Return, BothWays

LEMMA VerifyKeepsSequential == ASSUME TruthInv, SequentialInv, Verify PROVE SequentialInv'
<1>1. /\ pc = "verify" /\ pc' = "decide" /\ UNCHANGED <<world, order, first, lost, step, saved, interrupted, faults>>
  BY DEF Verify
<1> SUFFICES ASSUME faults' = 0 PROVE SequentialInv'
  BY DEF SequentialInv
<1>2. PICK w, o, s, a : w = Calmly(world, first) /\ o = order /\ s = saved /\ a = analysis OBVIOUS
<1>3. /\ lost = {} /\ (~interrupted => \E c \in BothWays : a = Process(Whole(w, o), c))
      /\ (s # None => Finished(s, w, o))
  BY <1>1, <1>2 DEF SequentialInv
<1>4. ~interrupted => \E c \in BothWays : analysis' = Passed(w, o, c)
  <2> HAVE ~interrupted
  <2>1. InPlace BY DEF TruthInv
  <2>2. Discovered = w BY <1>2, <1>3, <2>1, DiscoveredCalmly
  <2>3. interrupted = FALSE BY <2>1 DEF InPlace
  <2>4. analysis' = AfterVerifiers(w, a, FALSE) BY <1>2, <2>2, <2>3 DEF Verify
  <2>5. PICK c \in BothWays : a = Process(Whole(w, o), c) BY <1>3
  <2>6. analysis' = Passed(w, o, c) BY <2>4, <2>5 DEF Passed
  <2> QED BY <2>6
<1>5. Calmly(world', first') = w /\ saved' = s /\ order' = o /\ lost' = {} BY <1>1, <1>2, <1>3
<1> QED BY <1>1, <1>3, <1>4, <1>5 DEF SequentialInv

LEMMA DecideKeepsSequential == ASSUME SequentialInv, Decide PROVE SequentialInv'
<1>1. pc = "decide" /\ UNCHANGED <<world, order, first, lost, step, saved, interrupted, faults>> BY DEF Decide
<1>2. CASE pc' = "done" /\ UNCHANGED analysis BY <1>1, <1>2, SequentialStays
<1>3. CASE ~interrupted /\ pc' = "save" /\ analysis' = [analysis EXCEPT !.percent = Calculate(analysis)]
  <2> SUFFICES ASSUME faults' = 0 PROVE SequentialInv'
    BY DEF SequentialInv
  <2>1. PICK w, o, s, a : w = Calmly(world, first) /\ o = order /\ s = saved /\ a = analysis OBVIOUS
  <2>2. lost = {} /\ (\E c \in BothWays : a = Passed(w, o, c)) /\ (s # None => Finished(s, w, o))
    BY <1>1, <1>3, <2>1 DEF SequentialInv
  <2>3. analysis' = Concluded(a) BY <1>3, <2>1 DEF Concluded
  <2>4. Finished(analysis', w, o) BY <2>2, <2>3 DEF Finished
  <2>5. Calmly(world', first') = w /\ saved' = s /\ order' = o /\ lost' = {} BY <1>1, <2>1, <2>2
  <2> QED BY <1>3, <2>2, <2>4, <2>5 DEF SequentialInv
<1> QED BY <1>2, <1>3 DEF Decide, Return

LEMMA StoreKeepsSequential == ASSUME SequentialInv, Save \/ Observe PROVE SequentialInv'
<1>1. /\ UNCHANGED <<world, order, first, lost, step, analysis, interrupted, faults>> /\ pc \in {"save", "observe"}
      /\ pc' \in {"observe", "done"} /\ saved' \in {saved, analysis}
  BY DEF Save, Observe, Return
<1> SUFFICES ASSUME faults' = 0 PROVE SequentialInv'
  BY DEF SequentialInv
<1>2. PICK w, o, s, a : w = Calmly(world, first) /\ o = order /\ s = saved /\ a = analysis OBVIOUS
<1>3. lost = {} /\ Finished(a, w, o) /\ (s # None => Finished(s, w, o)) BY <1>1, <1>2 DEF SequentialInv
<1>4. Calmly(world', first') = w /\ analysis' = a /\ order' = o /\ lost' = {} /\ saved' \in {s, a} BY <1>1, <1>2, <1>3
<1>5. saved' # None => Finished(saved', w, o) BY <1>3, <1>4
<1> QED BY <1>1, <1>3, <1>4, <1>5 DEF SequentialInv

LEMMA OthersKeepSequential ==
  ASSUME SequentialInv, CannotLoad \/ CannotStore \/ Interrupt \/ UNCHANGED vars PROVE SequentialInv'
<1>1. UNCHANGED <<world, order, first, lost, analysis, saved, faults>> BY DEF CannotLoad, CannotStore, Interrupt, vars
<1>2. /\ pc' # "done" => pc' = pc /\ step' = step
      /\ ~interrupted' => ~interrupted
  BY DEF CannotLoad, CannotStore, Interrupt, Return, vars
<1> QED BY <1>1, <1>2, SequentialStays

\* (internal/collectors/registry.go, cmd/scan.go) A host none of whose lookups
\* fails is examined as if its collectors ran one after another, until somebody
\* interrupts it, and only what such an examination concluded is stored.
THEOREM SequentialInvariance == Spec => []SequentialInv
<1>1. Init => SequentialInv BY SequentialAtFirst
<1>2. TruthInv /\ SequentialInv /\ [Next]_vars => SequentialInv'
  <2> SUFFICES ASSUME TruthInv, SequentialInv, [Next]_vars PROVE SequentialInv'
    OBVIOUS
  <2>1. CASE Discover BY <2>1, DiscoverKeepsSequential
  <2>2. CASE Collect BY <2>2, CollectKeepsSequential
  <2>3. CASE Judge BY <2>3, JudgeKeepsSequential
  <2>4. CASE Verify BY <2>4, VerifyKeepsSequential
  <2>5. CASE Decide BY <2>5, DecideKeepsSequential
  <2>6. CASE Save \/ Observe BY <2>6, StoreKeepsSequential
  <2>7. CASE CannotLoad \/ CannotStore \/ Interrupt \/ UNCHANGED vars BY <2>7, OthersKeepSequential
  <2> QED BY <2>1, <2>2, <2>3, <2>4, <2>5, <2>6, <2>7 DEF Next
<1>3. Spec => []TruthInv BY TruthInvariance
<1> QED BY <1>1, <1>2, <1>3, PTL DEF Spec

\* (internal/collectors/registry.go) When no lookup failed, the verdict that is
\* stored is that of the undisturbed examination, whatever the order in which
\* the independent collectors finish, for every world and every set of orders.
THEOREM SequentialHolds == Spec => []SequentialVerdict
<1>1. TruthInv /\ SequentialInv => SequentialVerdict
  <2> SUFFICES ASSUME TruthInv, SequentialInv, saved # None, faults = 0 PROVE Verdict(saved) = Undisturbed[world][first]
    BY DEF SequentialVerdict
  <2>1. PICK name, one, o, s : name = world /\ one = first /\ o = order /\ s = saved OBVIOUS
  <2>2. name \in DOMAIN Worlds /\ one \in BOOLEAN /\ o \in Orders BY <2>1 DEF TruthInv, InPlace
  <2>3. PICK w : w = Calmly(name, one) OBVIOUS
  <2>4. Listed(w) BY <2>2, <2>3, CalmlyIsListed
  <2>5. PICK c \in BothWays : s = Concluded(Passed(w, o, c)) BY <2>1, <2>3 DEF SequentialInv, Finished
  <2>6. PICK two : two = CHOOSE some \in Orders : TRUE OBVIOUS
  <2>7. two \in Orders BY <2>2, <2>6, Zenon
  <2>8. <<"http", "https">> \in BothWays BY DEF BothWays
  <2>9. Verdict(s) = Verdict(Concluded(Passed(w, two, <<"http", "https">>))) BY <2>2, <2>4, <2>5, <2>7, <2>8, NoOrderShows
  <2>10. Undisturbed[name][one] = Verdict(Concluded(Passed(w, two, <<"http", "https">>)))
    BY <2>2, <2>3, <2>6, Zenon DEF Undisturbed, Passed, Whole, Calmly
  <2> QED BY <2>1, <2>9, <2>10
<1>2. Spec => []TruthInv BY TruthInvariance
<1>3. Spec => []SequentialInv BY SequentialInvariance
<1> QED BY <1>1, <1>2, <1>3, PTL
=============================================================================
