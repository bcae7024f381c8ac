--------------------------- MODULE ImageBuildProofs ---------------------------
(***************************************************************************)
(* Proofs about the builds of stages, for any definitions and any edits of *)
(* their contexts.                                                         *)
(***************************************************************************)
EXTENDS ImageBuild, FiniteSetTheorems, SequenceTheorems, WellFoundedInduction, TLAPS

-----------------------------------------------------------------------------
(* The order of the steps.  Those of a stage are the ones of its kind, by   *)
(* increasing rank, and a build does them from the first to the last.      *)

Step == {"base", "packages", "extensions", "external", "dirs", "config", "globals", "deps",
         "sources", "finish", "metadata", "web-base", "web-packages", "web-config",
         "web-assets"}

Rank(d, s) ==
  IF s = "base" THEN 1 ELSE IF s = "packages" THEN 2 ELSE IF s = "extensions" THEN 3
  ELSE IF s = "external" THEN 4 ELSE IF s = "dirs" THEN 5
  ELSE IF s = "config" THEN (IF d.kind = "php" THEN 6 ELSE 9)
  ELSE IF s = "globals" THEN 7 ELSE IF s = "deps" THEN 8 ELSE IF s = "sources" THEN 10
  ELSE IF s = "finish" THEN 11 ELSE IF s = "metadata" THEN 12
  ELSE IF s = "web-base" THEN 13 ELSE IF s = "web-packages" THEN 14
  ELSE IF s = "web-config" THEN 15 ELSE 16

Has(seq, x) == \E i \in DOMAIN seq : seq[i] = x

\* seq is ordered, and its ranks are from a to b.
Ordered(d, seq, a, b) ==
  /\ seq \in Seq(Step)
  /\ \A i \in DOMAIN seq : a <= Rank(d, seq[i]) /\ Rank(d, seq[i]) <= b
  /\ \A i, j \in DOMAIN seq : i < j => Rank(d, seq[i]) < Rank(d, seq[j])

LEMMA RankType == ASSUME NEW d, NEW s PROVE Rank(d, s) \in 1..16
BY DEF Rank

LEMMA RankOnce ==
  ASSUME NEW d, NEW s \in Step, NEW t \in Step, Rank(d, s) = Rank(d, t)
  PROVE  s = t
BY DEF Rank, Step

LEMMA RankValues ==
  ASSUME NEW d
  PROVE  /\ Rank(d, "base") = 1 /\ Rank(d, "packages") = 2 /\ Rank(d, "extensions") = 3
         /\ Rank(d, "external") = 4 /\ Rank(d, "dirs") = 5 /\ Rank(d, "globals") = 7
         /\ Rank(d, "config") = IF d.kind = "php" THEN 6 ELSE 9
         /\ Rank(d, "deps") = 8 /\ Rank(d, "sources") = 10 /\ Rank(d, "finish") = 11
         /\ Rank(d, "metadata") = 12 /\ Rank(d, "web-base") = 13
         /\ Rank(d, "web-packages") = 14 /\ Rank(d, "web-config") = 15
         /\ Rank(d, "web-assets") = 16
BY DEF Rank

LEMMA OrderedSetup ==
  ASSUME NEW d, d.kind \in {"php", "nodejs"}
  PROVE  /\ Ordered(d, Setup(d), 1, 7)
         /\ \A x : Has(Setup(d), x) <=>
              x \in {"base", "packages", "external", "dirs", "globals"}
                 \cup (IF d.kind = "php" THEN {"extensions", "config"} ELSE {})
<1>1. CASE d.kind = "php"
  <2> DEFINE seq == <<"base", "packages", "extensions", "external", "dirs", "config", "globals">>
  <2>1. Setup(d) = seq
    BY <1>1 DEF Setup
  <2>2. seq \in Seq(Step) /\ DOMAIN seq = 1..7
    BY DEF Step
  <2>3. /\ seq[1] = "base" /\ seq[2] = "packages" /\ seq[3] = "extensions"
        /\ seq[4] = "external" /\ seq[5] = "dirs" /\ seq[6] = "config" /\ seq[7] = "globals"
    OBVIOUS
  <2> HIDE DEF seq
  <2> QED
    BY <1>1, <2>1, <2>2, <2>3, RankValues DEF Ordered, Has
<1>2. CASE d.kind = "nodejs"
  <2> DEFINE seq == <<"base", "packages", "external", "dirs", "globals">>
  <2>1. Setup(d) = seq
    BY <1>2 DEF Setup
  <2>2. seq \in Seq(Step) /\ DOMAIN seq = 1..5
    BY DEF Step
  <2>3. /\ seq[1] = "base" /\ seq[2] = "packages" /\ seq[3] = "external"
        /\ seq[4] = "dirs" /\ seq[5] = "globals"
    OBVIOUS
  <2> HIDE DEF seq
  <2> QED
    BY <1>2, <2>1, <2>2, <2>3, RankValues DEF Ordered, Has
<1> QED
  BY <1>1, <1>2

\* What Steps has between the setup and the metadata.
Rest(d) == IF d.dev THEN <<>>
           ELSE IF d.kind = "php" THEN <<"deps", "sources", "finish">>
           ELSE <<"deps", "config", "sources", "finish">>

LEMMA OrderedNothing ==
  ASSUME NEW d, NEW a, NEW b
  PROVE  Ordered(d, <<>>, a, b) /\ \A x : ~ Has(<<>>, x)
BY DEF Ordered, Has

LEMMA OrderedRest ==
  ASSUME NEW d, d.kind \in {"php", "nodejs"}, d.dev \in BOOLEAN
  PROVE  /\ Ordered(d, Rest(d), 8, 11)
         /\ \A x : Has(Rest(d), x) <=>
              ~ d.dev /\ x \in {"deps", "sources", "finish"}
                               \cup (IF d.kind = "php" THEN {} ELSE {"config"})
<1>1. CASE d.dev
  BY <1>1, OrderedNothing DEF Rest
<1>2. CASE ~ d.dev /\ d.kind = "php"
  <2> DEFINE seq == <<"deps", "sources", "finish">>
  <2>1. Rest(d) = seq
    BY <1>2 DEF Rest
  <2>2. seq \in Seq(Step) /\ DOMAIN seq = 1..3
    BY DEF Step
  <2>3. seq[1] = "deps" /\ seq[2] = "sources" /\ seq[3] = "finish"
    OBVIOUS
  <2> HIDE DEF seq
  <2> QED
    BY <1>2, <2>1, <2>2, <2>3, RankValues DEF Ordered, Has
<1>3. CASE ~ d.dev /\ d.kind = "nodejs"
  <2> DEFINE seq == <<"deps", "config", "sources", "finish">>
  <2>1. Rest(d) = seq
    BY <1>3 DEF Rest
  <2>2. seq \in Seq(Step) /\ DOMAIN seq = 1..4
    BY DEF Step
  <2>3. seq[1] = "deps" /\ seq[2] = "config" /\ seq[3] = "sources" /\ seq[4] = "finish"
    OBVIOUS
  <2> HIDE DEF seq
  <2> QED
    BY <1>3, <2>1, <2>2, <2>3, RankValues DEF Ordered, Has
<1> QED
  BY <1>1, <1>2, <1>3

LEMMA OrderedMetadata ==
  ASSUME NEW d
  PROVE  /\ Ordered(d, <<"metadata">>, 12, 12)
         /\ \A x : Has(<<"metadata">>, x) <=> x = "metadata"
<1> DEFINE seq == <<"metadata">>
<1>1. seq \in Seq(Step) /\ DOMAIN seq = 1..1 /\ seq[1] = "metadata"
  BY DEF Step
<1> HIDE DEF seq
<1>2. Ordered(d, seq, 12, 12) /\ \A x : Has(seq, x) <=> x = "metadata"
  BY <1>1, RankValues DEF Ordered, Has
<1> QED
  BY <1>2 DEF seq

LEMMA OrderedServe ==
  ASSUME NEW d
  PROVE  /\ Ordered(d, Serve, 13, 16)
         /\ \A x : Has(Serve, x) <=>
              x \in {"web-base", "web-packages", "web-config", "web-assets"}
<1>1. Serve \in Seq(Step) /\ DOMAIN Serve = 1..4
  BY DEF Serve, Step
<1>2. /\ Serve[1] = "web-base" /\ Serve[2] = "web-packages"
      /\ Serve[3] = "web-config" /\ Serve[4] = "web-assets"
  BY DEF Serve
<1> QED
  BY <1>1, <1>2, RankValues DEF Ordered, Has

LEMMA OrderedConcat ==
  ASSUME NEW d, NEW s, NEW a \in Nat, NEW b \in Nat, Ordered(d, s, a, b),
         NEW t, NEW m \in Nat, NEW e \in Nat, Ordered(d, t, m, e),
         b < m, a <= m, b <= e
  PROVE  /\ Ordered(d, s \o t, a, e)
         /\ \A x : Has(s \o t, x) <=> Has(s, x) \/ Has(t, x)
<1> DEFINE u == s \o t
<1>1. /\ Len(s) \in Nat /\ Len(t) \in Nat /\ u \in Seq(Step) /\ Len(u) = Len(s) + Len(t)
      /\ DOMAIN s = 1..Len(s) /\ DOMAIN t = 1..Len(t) /\ DOMAIN u = 1..Len(u)
      /\ \A i \in 1..Len(s) : i \in 1..Len(u) /\ u[i] = s[i]
      /\ \A i \in 1..Len(u) : i > Len(s) => i - Len(s) \in 1..Len(t) /\ u[i] = t[i - Len(s)]
      /\ \A i \in 1..Len(t) : i + Len(s) \in 1..Len(u) /\ u[i + Len(s)] = t[i]
  BY DEF Ordered
<1> HIDE DEF u
<1>2. \A x : Has(u, x) <=> Has(s, x) \/ Has(t, x)
  <2>1. ASSUME NEW x, Has(u, x) PROVE Has(s, x) \/ Has(t, x)
    <3>1. PICK i \in 1..Len(u) : u[i] = x
      BY <1>1, <2>1 DEF Has
    <3>2. CASE i <= Len(s)
      <4>1. i \in 1..Len(s)
        BY <1>1, <3>2
      <4> QED
        BY <1>1, <3>1, <4>1 DEF Has
    <3>3. CASE i > Len(s)
      BY <1>1, <3>1, <3>3 DEF Has
    <3> QED
      BY <1>1, <3>2, <3>3
  <2>2. ASSUME NEW x, Has(s, x) \/ Has(t, x) PROVE Has(u, x)
    BY <1>1, <2>2 DEF Has
  <2> QED
    BY <2>1, <2>2
<1> DEFINE R(x) == Rank(d, x)
<1>3. \A x : R(x) \in Nat
  <2> TAKE x
  <2>1. R(x) \in 1..16
    BY RankType
  <2> QED
    BY <2>1
<1>4. /\ \A i \in 1..Len(s) : a <= R(s[i]) /\ R(s[i]) <= b
      /\ \A i \in 1..Len(t) : m <= R(t[i]) /\ R(t[i]) <= e
      /\ \A i, j \in 1..Len(s) : i < j => R(s[i]) < R(s[j])
      /\ \A i, j \in 1..Len(t) : i < j => R(t[i]) < R(t[j])
  BY <1>1 DEF Ordered
<1> HIDE DEF R
<1>5. \A i \in 1..Len(u) : i \in 1..Len(s) \/ i > Len(s)
  BY <1>1
<1>6. ASSUME NEW i \in 1..Len(s)
      PROVE  a <= R(u[i]) /\ R(u[i]) <= b /\ R(u[i]) <= e
  <2>1. u[i] = s[i] /\ R(s[i]) \in Nat
    BY <1>1, <1>3
  <2> QED
    BY <1>4, <2>1
<1>7. ASSUME NEW i \in 1..Len(u), i > Len(s)
      PROVE  a <= R(u[i]) /\ m <= R(u[i]) /\ R(u[i]) <= e
  <2>1. R(u[i]) \in Nat /\ i - Len(s) \in 1..Len(t) /\ u[i] = t[i - Len(s)]
    BY <1>1, <1>3, <1>7
  <2> QED
    BY <1>4, <2>1
<1>8. ASSUME NEW i \in 1..Len(u), NEW j \in 1..Len(u), i < j
      PROVE  R(u[i]) < R(u[j])
  <2>1. CASE j \in 1..Len(s)
    <3>1. i \in 1..Len(s)
      BY <1>1, <1>8, <2>1
    <3> QED
      BY <1>1, <1>4, <1>8, <2>1, <3>1
  <2>2. CASE i \in 1..Len(s) /\ j > Len(s)
    <3>1. R(u[i]) <= b /\ m <= R(u[j]) /\ R(u[i]) \in Nat /\ R(u[j]) \in Nat
      BY <1>3, <1>6, <1>7, <2>2
    <3> QED
      BY <3>1
  <2>3. CASE i > Len(s)
    <3> DEFINE x == i - Len(s)  y == j - Len(s)
    <3>1. Len(s) \in Nat /\ Len(u) \in Nat
      BY <1>1
    <3>2. j > Len(s) /\ x < y
      BY <1>8, <2>3, <3>1
    <3>3. x \in 1..Len(t) /\ u[i] = t[x]
      BY <1>1, <2>3
    <3>4. y \in 1..Len(t) /\ u[j] = t[y]
      BY <1>1, <3>2
    <3> HIDE DEF x, y
    <3> QED
      BY <1>4, <3>2, <3>3, <3>4
  <2> QED
    BY <1>5, <2>1, <2>2, <2>3
<1>9. \A i \in 1..Len(u) : a <= R(u[i]) /\ R(u[i]) <= e
  BY <1>5, <1>6, <1>7
<1>10. Ordered(d, u, a, e)
  BY <1>1, <1>8, <1>9 DEF Ordered, R
<1> QED
  BY <1>2, <1>10 DEF u

\* The steps of a stage, and of the webserver in its definition.
Planned(d, x) ==
  \/ /\ d.kind \in {"php", "nodejs"}
     /\ \/ x \in {"base", "packages", "external", "dirs", "globals", "metadata"}
        \/ d.kind = "php" /\ x \in {"extensions", "config"}
        \/ ~ d.dev /\ x \in {"deps", "sources", "finish"}
        \/ ~ d.dev /\ d.kind = "nodejs" /\ x = "config"
  \/ /\ d.web # None
     /\ x \in {"web-base", "web-packages", "web-config", "web-assets"}

LEMMA StepsOrdered ==
  ASSUME NEW d \in ADefinition
  PROVE  Ordered(d, Steps(d), 1, 16) /\ \A x : Has(Steps(d), x) <=> Planned(d, x)
<1> DEFINE web == IF d.web = None THEN <<>> ELSE Serve
           stage == IF d.kind = "webserver" THEN <<>>
                    ELSE Setup(d) \o Rest(d) \o <<"metadata">>
<1>1. Steps(d) = stage \o web
  BY DEF Steps, Rest
<1>2. /\ Ordered(d, web, 13, 16)
      /\ \A x : Has(web, x) <=>
           d.web # None /\ x \in {"web-base", "web-packages", "web-config", "web-assets"}
  <2>1. CASE d.web = None
    BY <2>1, OrderedNothing
  <2>2. CASE d.web # None
    BY <2>2, OrderedServe
  <2> QED
    BY <2>1, <2>2
<1>3. d.kind \in {"php", "nodejs", "webserver"} /\ d.dev \in BOOLEAN
  BY DEF ADefinition
<1>4. /\ Ordered(d, stage, 1, 12)
      /\ \A x : Has(stage, x) <=>
           /\ d.kind \in {"php", "nodejs"}
           /\ \/ x \in {"base", "packages", "external", "dirs", "globals", "metadata"}
              \/ d.kind = "php" /\ x \in {"extensions", "config"}
              \/ ~ d.dev /\ x \in {"deps", "sources", "finish"}
              \/ ~ d.dev /\ d.kind = "nodejs" /\ x = "config"
  <2>1. CASE d.kind = "webserver"
    BY <2>1, OrderedNothing
  <2>2. CASE d.kind \in {"php", "nodejs"}
    <3>1. stage = (Setup(d) \o Rest(d)) \o <<"metadata">>
      BY <2>2
    <3>2. /\ Ordered(d, Setup(d) \o Rest(d), 1, 11)
          /\ \A x : Has(Setup(d) \o Rest(d), x) <=> Has(Setup(d), x) \/ Has(Rest(d), x)
      BY <1>3, <2>2, OrderedSetup, OrderedRest, OrderedConcat
    <3>3. /\ Ordered(d, stage, 1, 12)
          /\ \A x : Has(stage, x) <=>
               Has(Setup(d) \o Rest(d), x) \/ Has(<<"metadata">>, x)
      <4> DEFINE s == Setup(d) \o Rest(d)  t == <<"metadata">>
      <4>1. Ordered(d, s, 1, 11) /\ Ordered(d, t, 12, 12)
        BY <3>2, OrderedMetadata
      <4> HIDE DEF s, t
      <4>2. Ordered(d, s \o t, 1, 12) /\ \A x : Has(s \o t, x) <=> Has(s, x) \/ Has(t, x)
        BY <4>1, OrderedConcat
      <4> QED
        BY <3>1, <4>2 DEF s, t
    <3>4. \A x : Has(Setup(d), x) <=>
              x \in {"base", "packages", "external", "dirs", "globals"}
                 \cup (IF d.kind = "php" THEN {"extensions", "config"} ELSE {})
      BY <2>2, OrderedSetup
    <3>5. \A x : Has(Rest(d), x) <=>
              ~ d.dev /\ x \in {"deps", "sources", "finish"}
                               \cup (IF d.kind = "php" THEN {} ELSE {"config"})
      BY <1>3, <2>2, OrderedRest
    <3>6. \A x : Has(<<"metadata">>, x) <=> x = "metadata"
      BY OrderedMetadata
    <3> HIDE DEF stage
    <3> QED
      BY <1>3, <2>2, <3>2, <3>3, <3>4, <3>5, <3>6
  <2> QED
    BY <1>3, <2>1, <2>2
<1>5. /\ Ordered(d, stage \o web, 1, 16)
      /\ \A x : Has(stage \o web, x) <=> Has(stage, x) \/ Has(web, x)
  <2> HIDE DEF web, stage
  <2> QED
    BY <1>2, <1>4, OrderedConcat
<1> HIDE DEF web, stage
<1> QED
  BY <1>1, <1>2, <1>4, <1>5 DEF Planned

\* What is left of a build is a suffix of its steps.
Suffix(seq) ==
  \E i \in 1..Len(Steps(def)) + 1 : seq = SubSeq(Steps(def), i, Len(Steps(def)))

Left(x) == Has(step, x)

LEMMA SuffixOfAll ==
  ASSUME def \in ADefinition
  PROVE  Suffix(Steps(def)) /\ Suffix(<<>>)
<1> DEFINE T == Steps(def)
<1>1. T \in Seq(Step)
  BY StepsOrdered DEF Ordered
<1> HIDE DEF T
<1>2. T = SubSeq(T, 1, Len(T)) /\ <<>> = SubSeq(T, Len(T) + 1, Len(T))
  BY <1>1
<1>3. 1 \in 1..Len(T) + 1 /\ Len(T) + 1 \in 1..Len(T) + 1
  BY <1>1
<1> QED
  BY <1>2, <1>3 DEF Suffix, T

\* The step a build is at is planned, those left are the ones planned of its rank or
\* more, and all but it are left afterwards.
LEMMA StepsLeft ==
  ASSUME def \in ADefinition, Suffix(step), step # <<>>
  PROVE  /\ Head(step) \in Step /\ Planned(def, Head(step))
         /\ \A x : Left(x) <=> Planned(def, x) /\ Rank(def, x) >= Rank(def, Head(step))
         /\ \A x : Has(Tail(step), x) <=> Left(x) /\ x # Head(step)
         /\ Suffix(Tail(step))
<1> DEFINE T == Steps(def)  n == Len(T)  R(x) == Rank(def, x)  P(x) == Planned(def, x)
<1>1. /\ T \in Seq(Step) /\ n \in Nat /\ DOMAIN T = 1..n
      /\ \A i, j \in 1..n : i < j => R(T[i]) < R(T[j])
      /\ \A x : Has(T, x) <=> P(x)
  BY StepsOrdered DEF Ordered
<1>2. PICK k \in 1..n + 1 : step = SubSeq(T, k, n)
  BY DEF Suffix
<1>3. \A x : R(x) \in Nat
  <2> TAKE x
  <2>1. R(x) \in 1..16
    BY RankType
  <2> QED
    BY <2>1
<1> HIDE DEF T, R, P
<1>4. k \in 1..n
  <2>1. CASE k = n + 1
    BY <1>1, <1>2, <2>1
  <2> QED
    BY <1>1, <2>1
<1>5. /\ Len(step) = n - k + 1 /\ DOMAIN step = 1..(n - k + 1)
      /\ \A i \in 1..(n - k + 1) : step[i] = T[k + i - 1] /\ k + i - 1 \in 1..n
      /\ \A j \in k..n : j - k + 1 \in 1..(n - k + 1) /\ step[j - k + 1] = T[j]
  BY <1>1, <1>2, <1>4
<1>6. Head(step) = T[k] /\ T[k] \in Step
  BY <1>1, <1>2, <1>4
<1>7. Tail(step) = SubSeq(T, k + 1, n) /\ k + 1 \in 1..n + 1
  BY <1>1, <1>2, <1>4
<1>8. \A x : Left(x) <=> \E j \in k..n : T[j] = x
  <2>1. ASSUME NEW x, Left(x) PROVE \E j \in k..n : T[j] = x
    <3>1. PICK i \in 1..(n - k + 1) : step[i] = x
      BY <1>5, <2>1 DEF Left, Has
    <3>2. k + i - 1 \in k..n /\ T[k + i - 1] = x
      BY <1>1, <1>4, <1>5, <3>1
    <3> QED
      BY <3>2
  <2>2. ASSUME NEW x, NEW j \in k..n, T[j] = x PROVE Left(x)
    BY <1>5, <2>2 DEF Left, Has
  <2> QED
    BY <2>1, <2>2
<1>9. \A x : Has(Tail(step), x) <=> \E j \in (k + 1)..n : T[j] = x
  <2>1. /\ DOMAIN SubSeq(T, k + 1, n) = 1..(n - k)
        /\ \A i \in 1..(n - k) : SubSeq(T, k + 1, n)[i] = T[k + i] /\ k + i \in (k + 1)..n
        /\ \A j \in (k + 1)..n : j - k \in 1..(n - k) /\ SubSeq(T, k + 1, n)[j - k] = T[j]
    BY <1>1, <1>4
  <2> QED
    BY <1>7, <2>1 DEF Has
<1>10. \A j \in 1..n : R(T[j]) >= R(T[k]) <=> j >= k
  <2> TAKE j \in 1..n
  <2>1. R(T[j]) \in Nat /\ R(T[k]) \in Nat
    BY <1>3
  <2>2. CASE j < k
    BY <1>1, <1>4, <2>1, <2>2
  <2>3. CASE j = k
    BY <1>1, <1>4, <2>1, <2>3
  <2>4. CASE j > k
    <3>1. R(T[k]) < R(T[j])
      BY <1>1, <1>4, <2>4
    <3> QED
      BY <1>1, <1>4, <2>1, <2>4, <3>1
  <2> QED
    BY <1>1, <1>4, <2>2, <2>3, <2>4
<1>11. \A x : P(x) <=> \E j \in 1..n : T[j] = x
  BY <1>1 DEF Has
<1>12. \A x : Left(x) <=> P(x) /\ R(x) >= R(T[k])
  <2>1. \A j \in 1..n : j \in k..n <=> j >= k
    BY <1>1, <1>4
  <2>2. k..n \subseteq 1..n
    BY <1>1, <1>4
  <2> QED
    BY <1>8, <1>10, <1>11, <2>1, <2>2
<1>13. \A j \in (k + 1)..n : T[j] # T[k]
  <2> TAKE j \in (k + 1)..n
  <2>1. j \in 1..n /\ k < j
    BY <1>1, <1>4
  <2>2. R(T[k]) < R(T[j])
    BY <1>1, <1>4, <2>1
  <2> QED
    BY <1>3, <2>2
<1>14. \A x : Has(Tail(step), x) <=> Left(x) /\ x # T[k]
  <2>1. \A j : j \in k..n <=> j = k \/ j \in (k + 1)..n
    BY <1>1, <1>4
  <2> QED
    BY <1>8, <1>9, <1>13, <2>1
<1>15. Suffix(Tail(step))
  BY <1>7 DEF Suffix, T
<1>16. P(T[k])
  BY <1>4, <1>11
<1> QED
  BY <1>6, <1>12, <1>14, <1>15, <1>16 DEF R, P

-----------------------------------------------------------------------------
(* What the actions have in common.                                        *)

Building ==
  \/ StartFromBase \/ InstallPackages \/ InstallExtensions \/ CopyExternalFiles
  \/ MakeDirs \/ CopyConfigFiles \/ InstallGlobals \/ InstallDeps \/ CopySources
  \/ Finish \/ SetImageMetadata

Serving == StartWebserver \/ InstallSitePackages \/ CopySiteConfig \/ CopyAssets

StepInv == <<def, type>> \in Inputs /\ Suffix(step)

LEMMA InputsTyped ==
  ASSUME <<def, type>> \in Inputs
  PROVE  def \in ADefinition /\ type \in {"git", "local"}
BY ImageAssumption

\* One step of a build is done, or a webserver without an application gives up.
LEMMA OneStep ==
  ASSUME StepInv, Building \/ Serving
  PROVE  /\ def' = def /\ type' = type /\ manager' = manager /\ opts' = opts
         /\ versions' = versions
         /\ before' = before /\ step # <<>>
         /\ \/ step' = Tail(step)
            \/ At("web-base") /\ def.kind = "webserver" /\ step' = <<>>
BY DEF Building, Serving, StartFromBase, InstallPackages, InstallExtensions,
       CopyExternalFiles, MakeDirs, CopyConfigFiles, InstallGlobals, InstallDeps, CopySources,
       Finish, SetImageMetadata, StartWebserver, InstallSitePackages, CopySiteConfig,
       CopyAssets, At, Build, BuildSite, request

LEMMA StepInit == Init => StepInv
<1> SUFFICES ASSUME Init PROVE StepInv
  OBVIOUS
<1>1. <<def, type>> \in Inputs
  BY ImageAssumption DEF Init
<1>2. def \in ADefinition
  BY <1>1, InputsTyped
<1> QED
  BY <1>1, <1>2, SuffixOfAll DEF Init, NothingBuilt, StepInv

LEMMA StepNext == StepInv /\ [Next]_vars => StepInv'
<1> SUFFICES ASSUME StepInv, [Next]_vars PROVE StepInv'
  OBVIOUS
<1>1. <<def, type>> \in Inputs /\ Suffix(step) /\ def \in ADefinition
  BY InputsTyped DEF StepInv
<1>2. ASSUME def' = def, type' = type, Suffix(step') PROVE StepInv'
  BY <1>1, <1>2 DEF StepInv, Suffix
<1>3. CASE Building \/ Serving
  BY <1>1, <1>2, <1>3, OneStep, StepsLeft, SuffixOfAll
<1>4. CASE \E n \in Name : Edit(n)
  BY <1>1, <1>2, <1>4 DEF Edit, request
<1>5. CASE Again
  BY <1>1, <1>2, <1>5, SuffixOfAll DEF Again, request
<1>6. CASE UNCHANGED vars
  BY <1>1, <1>2, <1>6 DEF vars
<1> QED
  BY <1>3, <1>4, <1>5, <1>6 DEF Next, Building, Serving

-----------------------------------------------------------------------------
(* The layers of every step, w being the versions of the context it sees.  *)

CopyOf(names, args, w) ==
  [Run("copy", args) EXCEPT !.digest = {<<n, w[n]>> : n \in names}]

Base == IF def.kind = "php" THEN <<Run("copy", <<"composer">>)>> ELSE <<>>
Packages(set) == IF set = {} THEN <<>> ELSE InstallLocked(SetToSeq(set))
Extensions(configured) ==
  IF def.extensions = {} THEN <<>>
  ELSE <<Run("extensions", configured \o SetToSeq(def.extensions))>>
External == [i \in DOMAIN def.external |-> Bare("external", <<def.external[i]>>)]
Dirs == <<Bare("mkdir", <<"app">>)>> \o [i \in DOMAIN def.dirs |-> Bare("mkdir", def.dirs[i])]
Config(w) == [i \in DOMAIN SetToSeq(def.config) |-> CopyOf({"dist"}, SetToSeq(def.config)[i], w)]
Globals(globals) ==
  IF def.globals = {} /\ def.kind = "nodejs" THEN <<>>
  ELSE <<Run("globals", Tool \o globals)>>
Deps(w) == [i \in DOMAIN Manifests |-> CopyOf({"manifest"}, <<Manifests[i]>>, w)]
             \o <<Run("deps", Tool)>>
Copies(w) ==
  IF type = "local" THEN <<CopyOf(Sources, <<"sources">>, w)>>
  ELSE [i \in DOMAIN SetToSeq(Sources) |->
          CopyOf({SetToSeq(Sources)[i]}, <<SetToSeq(Sources)[i]>>, w)]
End == IF def.kind = "php" \/ def.command THEN <<Run("finish", <<>>)>> ELSE <<>>

SiteConfig(w) ==
  [i \in DOMAIN SetToSeq(def.web.config) |->
     CopyOf({"dist"}, <<SetToSeq(def.web.config)[i]>>, w)]
SiteAssets == [i \in DOMAIN def.web.assets |-> Run("copy", def.web.assets[i])]

LEMMA LayersOfSteps ==
  /\ StartFromBase => At("base") /\ Build(Base)
  /\ InstallPackages => At("packages") /\ Build(Packages(def.packages))
  /\ InstallExtensions => At("extensions")
       /\ \E configured \in SetToSeqs(def.extensions \cap {"gd", "imap"}) :
            Build(Extensions(configured))
  /\ CopyExternalFiles => At("external") /\ Build(External)
  /\ MakeDirs => At("dirs") /\ Build(Dirs)
  /\ CopyConfigFiles => At("config") /\ Build(Config(versions))
  /\ InstallGlobals => At("globals")
       /\ \E globals \in SetToSeqs(def.globals) : Build(Globals(globals))
  /\ InstallDeps => At("deps") /\ Build(Deps(versions))
  /\ CopySources => At("sources") /\ Build(Copies(versions))
  /\ Finish => At("finish") /\ Build(End)
  /\ SetImageMetadata => At("metadata") /\ Build(<<>>)
BY DEF StartFromBase, InstallPackages, InstallExtensions, CopyExternalFiles, MakeDirs,
       CopyConfigFiles, InstallGlobals, InstallDeps, CopySources, Finish, SetImageMetadata,
       Base, Packages, Extensions, External, Dirs, Config, Globals, Deps, Copies,
       End, Copy, CopyOf

LEMMA SiteOfSteps ==
  /\ InstallSitePackages =>
       At("web-packages") /\ BuildSite(Packages(def.web.packages), site.files)
  /\ CopySiteConfig => At("web-config")
       /\ \E content : /\ BuildSite(SiteConfig(versions), content)
                       /\ content = [n \in Name |-> IF n \in def.web.config THEN "config"
                                                    ELSE site.files[n]]
  /\ CopyAssets => At("web-assets")
       /\ \E content :
            /\ BuildSite(SiteAssets, content)
            /\ content = [n \in Name |->
                  IF \E a \in ToSet(def.web.assets) : a[2] = n
                    THEN files[Resolve(cwd, CHOOSE a \in ToSet(def.web.assets) : a[2] = n)]
                    ELSE site.files[n]]
BY DEF InstallSitePackages, CopySiteConfig, CopyAssets, Packages, SiteConfig, SiteAssets,
       Copy, CopyOf

\* The lists that are made of sets.
LEMMA NamesAreFinite ==
  /\ \A S \in SUBSET Name : IsFiniteSet(S)
  /\ \A S \in SUBSET ((Root \cup {Relative}) \X Name) : IsFiniteSet(S)
<1>1. \A a, b, c, d, e, f, g : IsFiniteSet({a, b, c, d, e, f, g})
  <2> TAKE a, b, c, d, e, f, g
  <2>1. IsFiniteSet({a})
    BY FS_Singleton
  <2>2. IsFiniteSet({a} \cup {b})
    BY <2>1, FS_AddElement
  <2>3. IsFiniteSet(({a} \cup {b}) \cup {c})
    BY <2>2, FS_AddElement
  <2>4. IsFiniteSet((({a} \cup {b}) \cup {c}) \cup {d})
    BY <2>3, FS_AddElement
  <2>5. IsFiniteSet(((({a} \cup {b}) \cup {c}) \cup {d}) \cup {e})
    BY <2>4, FS_AddElement
  <2>6. IsFiniteSet((((({a} \cup {b}) \cup {c}) \cup {d}) \cup {e}) \cup {f})
    BY <2>5, FS_AddElement
  <2>7. IsFiniteSet(((((({a} \cup {b}) \cup {c}) \cup {d}) \cup {e}) \cup {f}) \cup {g})
    BY <2>6, FS_AddElement
  <2>8. ((((({a} \cup {b}) \cup {c}) \cup {d}) \cup {e}) \cup {f}) \cup {g}
        = {a, b, c, d, e, f, g}
    OBVIOUS
  <2> QED
    BY <2>7, <2>8
<1>2. IsFiniteSet(Name)
  BY <1>1 DEF Name
<1>3. IsFiniteSet(Root \cup {Relative})
  <2>1. Root \cup {Relative} = {"app", "base", "/", Relative, Relative, Relative, Relative}
    BY DEF Root
  <2>2. IsFiniteSet({"app", "base", "/", Relative, Relative, Relative, Relative})
    BY <1>1
  <2> QED
    BY <2>1, <2>2, Zenon
<1>4. IsFiniteSet((Root \cup {Relative}) \X Name)
  BY <1>2, <1>3, FS_Product
<1> QED
  BY <1>2, <1>4, FS_Subset

LEMMA ListOfSet ==
  ASSUME NEW S, IsFiniteSet(S)
  PROVE  SetToSeq(S) \in Seq(S) /\ (S # {} => Len(SetToSeq(S)) >= 1)
<1>1. Cardinality(S) \in Nat /\ \E f \in [1..Cardinality(S) -> S] : IsInjective(f)
  <2>1. Cardinality(S) \in Nat /\ ExistsBijection(1..Cardinality(S), S)
    BY FS_CardinalityType
  <2> QED
    BY <2>1 DEF ExistsBijection, Bijection, Injection
<1>2. SetToSeq(S) \in [1..Cardinality(S) -> S]
  BY <1>1 DEF SetToSeq
<1>3. S # {} => Cardinality(S) # 0
  BY FS_EmptySet
<1> QED
  BY <1>1, <1>2, <1>3

LEMMA ListsOfSet ==
  ASSUME NEW S, IsFiniteSet(S), NEW o \in SetToSeqs(S)
  PROVE  o \in Seq(S)
<1>1. Cardinality(S) \in Nat
  BY FS_CardinalityType
<1>2. o \in [1..Cardinality(S) -> S]
  BY DEF SetToSeqs
<1> QED
  BY <1>1, <1>2

\* Every list of a set that has one element at most is the same.
LEMMA OneList ==
  ASSUME NEW S, IsFiniteSet(S), \A a, b \in S : a = b,
         NEW o \in SetToSeqs(S), NEW p \in SetToSeqs(S)
  PROVE  o = p
<1>1. o \in [1..Cardinality(S) -> S] /\ p \in [1..Cardinality(S) -> S]
  BY DEF SetToSeqs
<1>2. \A i \in 1..Cardinality(S) : o[i] \in S /\ p[i] \in S
  BY <1>1
<1>3. \A i \in 1..Cardinality(S) : o[i] = p[i]
  BY <1>2, Zenon
<1>4. /\ o = [i \in 1..Cardinality(S) |-> o[i]]
      /\ p = [i \in 1..Cardinality(S) |-> p[i]]
  BY <1>1, Zenon
<1> QED
  BY <1>3, <1>4

-----------------------------------------------------------------------------
(* Types.                                                                  *)

Versions == [Name -> 0..MaxEdits]

Op == {"copy", "run", "packages", "extensions", "external", "mkdir", "globals", "deps",
       "finish"}

LEMMA OpValues ==
  /\ "copy" \in Op /\ "run" \in Op /\ "packages" \in Op /\ "extensions" \in Op
  /\ "external" \in Op /\ "mkdir" \in Op /\ "globals" \in Op /\ "deps" \in Op
  /\ "finish" \in Op
BY DEF Op

LEMMA ArgumentValues ==
  /\ \A S \in SUBSET Word : \A s \in Seq(S) : s \in Seq(Argument)
  /\ \A x \in Word \cup Name : <<x>> \in Seq(Argument)
  /\ \A p \in (Root \cup {Relative}) \X Name : p \in Seq(Argument)
  /\ <<>> \in Seq(Argument) /\ <<"composer">> \in Seq(Argument)
  /\ <<"keep-cache">> \in Seq(Argument) /\ <<"composer.*">> \in Seq(Argument)
  /\ <<"package.json">> \in Seq(Argument) /\ <<"package-lock.json">> \in Seq(Argument)
  /\ <<"yarn.lock">> \in Seq(Argument)
  /\ <<"npm">> \in Seq(Argument) /\ <<"yarn">> \in Seq(Argument)
  /\ <<"sources">> \in Seq(Argument) /\ <<"app">> \in Seq(Argument)
<1>1. ASSUME NEW S \in SUBSET Word, NEW s \in Seq(S) PROVE s \in Seq(Argument)
  <2>1. S \in SUBSET Argument
    BY DEF Argument
  <2> HIDE DEF Argument
  <2> QED
    BY <2>1, SeqMonotonic
<1>2. ASSUME NEW x \in Argument PROVE <<x>> \in Seq(Argument)
  OBVIOUS
<1>3. ASSUME NEW p \in (Root \cup {Relative}) \X Name PROVE p \in Seq(Argument)
  <2>1. PICK x \in Root \cup {Relative}, y \in Name : p = <<x, y>>
    OBVIOUS
  <2>2. x \in Argument /\ y \in Argument
    BY DEF Argument
  <2>3. <<x, y>> \in Seq(Argument)
    BY <2>2
  <2> QED
    BY <2>1, <2>3
<1>4. /\ Word \cup Name \subseteq Argument
      /\ {"composer", "keep-cache", "composer.*", "package.json", "package-lock.json",
          "yarn.lock", "npm", "yarn", "sources", "app"}
           \subseteq Argument
  BY DEF Argument, Root
<1> QED
  BY <1>1, <1>2, <1>3, <1>4

\* The options of a build and its package manager.
Asked == opts \in [ignore : BOOLEAN, mounts : BOOLEAN] /\ manager \in Managers(def)

LEMMA ToolTyped == Asked => Tool \in Seq(Argument)
BY ArgumentValues DEF Asked, Managers, Tool

LEMMA RunTyped ==
  ASSUME Asked,
         NEW op \in Op, NEW args \in Seq(Argument)
  PROVE  /\ Run(op, args) \in Layer /\ Bare(op, args) \in Layer
         /\ \A names \in SUBSET Name, w \in Versions : CopyOf(names, args, w) \in Layer
<1>1. opts.ignore \in BOOLEAN
  BY DEF Asked
<1>2. \A digest \in SUBSET (Name \X (0..MaxEdits)), b \in BOOLEAN, o \in Op :
        [op |-> o, args |-> args, digest |-> digest, ignore |-> b] \in Layer
  BY DEF Layer, Op
<1>3. Run(op, args) = [op |-> op, args |-> args, digest |-> {}, ignore |-> opts.ignore]
  BY DEF Run
<1>4. Bare(op, args) = [op |-> op, args |-> args, digest |-> {}, ignore |-> FALSE]
  <2>1. Bare(op, args) = [Run(op, args) EXCEPT !.ignore = FALSE]
    BY DEF Bare
  <2> QED
    BY <2>1 DEF Run
<1>5. ASSUME NEW names \in SUBSET Name, NEW w \in Versions
      PROVE  CopyOf(names, args, w) \in Layer
  <2> DEFINE digest == {<<n, w[n]>> : n \in names}
  <2>1. digest \in SUBSET (Name \X (0..MaxEdits))
    BY <1>5 DEF Versions
  <2>2. CopyOf(names, args, w)
        = [op |-> "copy", args |-> args, digest |-> digest, ignore |-> opts.ignore]
    <3>1. CopyOf(names, args, w) = [Run("copy", args) EXCEPT !.digest = digest]
      BY DEF CopyOf
    <3> HIDE DEF digest
    <3> QED
      BY <3>1 DEF Run
  <2> HIDE DEF digest
  <2> QED
    BY <1>1, <1>2, <2>1, <2>2, OpValues
<1> QED
  BY <1>1, <1>2, <1>3, <1>4, <1>5

LEMMA MapTyped ==
  ASSUME NEW T, NEW s \in Seq(T), NEW S, NEW f \in [DOMAIN s -> S]
  PROVE  f \in Seq(S) /\ Len(f) = Len(s)
OBVIOUS

LEMMA DefinitionTyped ==
  ASSUME <<def, type>> \in Inputs
  PROVE  /\ def.packages \in SUBSET Word /\ IsFiniteSet(def.packages)
         /\ def.extensions \in SUBSET Word /\ IsFiniteSet(def.extensions)
         /\ def.globals \in SUBSET Word /\ IsFiniteSet(def.globals)
         /\ def.external \in Seq(Word) /\ def.dirs \in Seq((Root \cup {Relative}) \X Name)
         /\ def.config \in SUBSET ((Root \cup {Relative}) \X Name)
         /\ def.sources \in SUBSET Name /\ Sources \in SUBSET Name
         /\ def.command \in BOOLEAN
         /\ def.web # None =>
              /\ def.web.packages \in SUBSET Word /\ IsFiniteSet(def.web.packages)
              /\ def.web.config \in SUBSET Name
              /\ def.web.assets \in Seq((Root \cup {Relative}) \X Name)
<1>1. def \in ADefinition
  BY InputsTyped
<1>2. /\ IsFiniteSet(def.packages) /\ IsFiniteSet(def.extensions) /\ IsFiniteSet(def.globals)
      /\ def.web # None => IsFiniteSet(def.web.packages)
  <2> DEFINE i == <<def, type>>
  <2>1. i \in Inputs /\ i[1] = def
    OBVIOUS
  <2> HIDE DEF i
  <2> QED
    BY <2>1, ImageAssumption
<1>3. def.web # None => def.web \in Webserver
  BY <1>1 DEF ADefinition
<1>4. Sources \in SUBSET Name
  BY <1>1 DEF ADefinition, Sources, Included
<1> QED
  BY <1>1, <1>2, <1>3, <1>4 DEF ADefinition, Webserver

LEMMA PackagesTyped ==
  ASSUME Asked,
         NEW set \in SUBSET Word, IsFiniteSet(set)
  PROVE  Packages(set) \in Seq(Layer)
<1>1. SetToSeq(set) \in Seq(Argument)
  BY ListOfSet, ArgumentValues
<1>2. Run("packages", SetToSeq(set)) \in Layer /\ Bare("run", <<"keep-cache">>) \in Layer
  BY <1>1, RunTyped, OpValues, ArgumentValues
<1> QED
  BY <1>2 DEF Packages, InstallLocked

\* The layers that make directories.
LEMMA MkdirsTyped ==
  ASSUME <<def, type>> \in Inputs, Asked
  PROVE  /\ Dirs \in Seq(Layer) /\ <<Bare("mkdir", <<"app">>)>> \in Seq(Layer)
         /\ [i \in DOMAIN def.dirs |-> Bare("mkdir", def.dirs[i])] \in Seq(Layer)
<1>1. \A i \in DOMAIN def.dirs : Bare("mkdir", def.dirs[i]) \in Layer
  BY DefinitionTyped, RunTyped, OpValues, ArgumentValues
<1>2. Bare("mkdir", <<"app">>) \in Layer
  BY RunTyped, OpValues, ArgumentValues
<1> DEFINE made == [i \in DOMAIN def.dirs |-> Bare("mkdir", def.dirs[i])]
<1>3. made \in Seq(Layer)
  <2>1. made \in [DOMAIN def.dirs -> Layer]
    BY <1>1
  <2>2. def.dirs \in Seq((Root \cup {Relative}) \X Name)
    BY DefinitionTyped
  <2> HIDE DEF made
  <2> QED
    BY <2>1, <2>2, MapTyped
<1> HIDE DEF made
<1>4. <<Bare("mkdir", <<"app">>)>> \in Seq(Layer)
  BY <1>2
<1>5. <<Bare("mkdir", <<"app">>)>> \o made \in Seq(Layer)
  BY <1>3, <1>4
<1> QED
  BY <1>3, <1>4, <1>5 DEF Dirs, made

\* The layers that install dependencies.
LEMMA DepsTyped ==
  ASSUME Asked, NEW w \in Versions
  PROVE  /\ Deps(w) \in Seq(Layer) /\ <<Run("deps", Tool)>> \in Seq(Layer)
         /\ [i \in DOMAIN Manifests |-> CopyOf({"manifest"}, <<Manifests[i]>>, w)] \in Seq(Layer)
<1> DEFINE lockfiles == {"composer.*", "package.json", "package-lock.json", "yarn.lock"}
<1>1. Manifests \in Seq(lockfiles) /\ {"manifest"} \in SUBSET Name
  <2>1. /\ <<"composer.*">> \in Seq(lockfiles)
        /\ <<"package.json", "package-lock.json">> \in Seq(lockfiles)
        /\ <<"package.json", "yarn.lock">> \in Seq(lockfiles)
    OBVIOUS
  <2>2. {"manifest"} \in SUBSET Name
    BY DEF Name
  <2> QED
    BY <2>1, <2>2 DEF Manifests
<1>2. \A i \in DOMAIN Manifests : CopyOf({"manifest"}, <<Manifests[i]>>, w) \in Layer
  <2>1. \A i \in DOMAIN Manifests : <<Manifests[i]>> \in Seq(Argument)
    BY <1>1, ArgumentValues
  <2> QED
    BY <1>1, <2>1, RunTyped, OpValues
<1> DEFINE copies == [i \in DOMAIN Manifests |-> CopyOf({"manifest"}, <<Manifests[i]>>, w)]
<1>3. copies \in Seq(Layer)
  <2>1. copies \in [DOMAIN Manifests -> Layer]
    BY <1>2
  <2> HIDE DEF copies
  <2> QED
    BY <1>1, <2>1, MapTyped
<1> HIDE DEF copies
<1>4. <<Run("deps", Tool)>> \in Seq(Layer)
  <2>1. Run("deps", Tool) \in Layer
    BY RunTyped, OpValues, ToolTyped
  <2> QED
    BY <2>1
<1>5. copies \o <<Run("deps", Tool)>> \in Seq(Layer)
  BY <1>3, <1>4
<1> QED
  BY <1>3, <1>4, <1>5 DEF Deps, copies

LEMMA LayersTyped ==
  ASSUME <<def, type>> \in Inputs, Asked,
         NEW w \in Versions
  PROVE  /\ Base \in Seq(Layer) /\ Packages(def.packages) \in Seq(Layer)
         /\ \A o \in SetToSeqs(def.extensions \cap {"gd", "imap"}) :
              Extensions(o) \in Seq(Layer)
         /\ External \in Seq(Layer) /\ Dirs \in Seq(Layer) /\ Config(w) \in Seq(Layer)
         /\ \A o \in SetToSeqs(def.globals) : Globals(o) \in Seq(Layer)
         /\ Deps(w) \in Seq(Layer) /\ Copies(w) \in Seq(Layer) /\ End \in Seq(Layer)
<1>1. Base \in Seq(Layer) /\ End \in Seq(Layer)
  <2>1. Run("copy", <<"composer">>) \in Layer /\ Run("finish", <<>>) \in Layer
    BY RunTyped, OpValues, ArgumentValues
  <2> QED
    BY <2>1 DEF Base, End
<1>2. Packages(def.packages) \in Seq(Layer)
  BY DefinitionTyped, PackagesTyped
<1>3. ASSUME NEW o \in SetToSeqs(def.extensions \cap {"gd", "imap"})
      PROVE  Extensions(o) \in Seq(Layer)
  <2>1. def.extensions \cap {"gd", "imap"} \in SUBSET def.extensions
    OBVIOUS
  <2>2. IsFiniteSet(def.extensions \cap {"gd", "imap"})
    BY <2>1, DefinitionTyped, FS_Subset
  <2>3. o \in Seq(Argument) /\ SetToSeq(def.extensions) \in Seq(Argument)
    <3>1. o \in Seq(def.extensions \cap {"gd", "imap"})
      BY <2>2, ListsOfSet
    <3>2. SetToSeq(def.extensions) \in Seq(def.extensions)
      BY DefinitionTyped, ListOfSet
    <3> QED
      BY <3>1, <3>2, DefinitionTyped, ArgumentValues
  <2>4. Run("extensions", o \o SetToSeq(def.extensions)) \in Layer
    <3>1. o \o SetToSeq(def.extensions) \in Seq(Argument)
      BY <2>3
    <3> QED
      BY <3>1, RunTyped, OpValues
  <2> QED
    BY <2>4 DEF Extensions
<1>4. External \in Seq(Layer)
  <2>1. def.external \in Seq(Word)
    BY DefinitionTyped
  <2>2. \A i \in DOMAIN def.external : <<def.external[i]>> \in Seq(Argument)
    BY <2>1, ArgumentValues
  <2>3. \A i \in DOMAIN def.external : Bare("external", <<def.external[i]>>) \in Layer
    BY <2>2, RunTyped, OpValues
  <2>4. External \in [DOMAIN def.external -> Layer]
    BY <2>3 DEF External
  <2> QED
    BY <2>1, <2>4, MapTyped
<1>5. Dirs \in Seq(Layer)
  BY MkdirsTyped
<1>6. Config(w) \in Seq(Layer)
  <2> DEFINE dests == SetToSeq(def.config)
  <2>1. dests \in Seq((Root \cup {Relative}) \X Name)
    <3>1. dests \in Seq(def.config)
      BY DefinitionTyped, NamesAreFinite, ListOfSet
    <3> QED
      BY <3>1, DefinitionTyped
  <2> HIDE DEF dests
  <2>2. \A i \in DOMAIN dests : CopyOf({"dist"}, dests[i], w) \in Layer
    <3>1. \A i \in DOMAIN dests : dests[i] \in Seq(Argument)
      BY <2>1, ArgumentValues
    <3>2. {"dist"} \in SUBSET Name
      BY DEF Name
    <3> QED
      BY <3>1, <3>2, RunTyped, OpValues, ArgumentValues
  <2> DEFINE copies == [i \in DOMAIN dests |-> CopyOf({"dist"}, dests[i], w)]
  <2>3. copies \in Seq(Layer)
    <3>1. copies \in [DOMAIN dests -> Layer]
      BY <2>2
    <3> HIDE DEF copies
    <3> QED
      BY <2>1, <3>1, MapTyped
  <2> QED
    BY <2>3 DEF Config, dests
<1>7. ASSUME NEW o \in SetToSeqs(def.globals) PROVE Globals(o) \in Seq(Layer)
  <2>1. o \in Seq(Argument)
    BY DefinitionTyped, ListsOfSet, ArgumentValues
  <2>2. Tool \o o \in Seq(Argument)
    BY <2>1, ToolTyped
  <2>3. Run("globals", Tool \o o) \in Layer
    BY <2>2, RunTyped, OpValues
  <2> QED
    BY <2>3 DEF Globals
<1>8. Deps(w) \in Seq(Layer)
  BY DepsTyped
<1>9. Copies(w) \in Seq(Layer)
  <2> DEFINE each == SetToSeq(Sources)
  <2>1. each \in Seq(Sources) /\ Sources \in SUBSET Name
    BY DefinitionTyped, NamesAreFinite, ListOfSet
  <2> HIDE DEF each
  <2>2. \A i \in DOMAIN each : CopyOf({each[i]}, <<each[i]>>, w) \in Layer
    <3>1. \A i \in DOMAIN each : {each[i]} \in SUBSET Name /\ <<each[i]>> \in Seq(Argument)
      BY <2>1, ArgumentValues
    <3> QED
      BY <3>1, RunTyped, OpValues, ArgumentValues
  <2> DEFINE copies == [i \in DOMAIN each |-> CopyOf({each[i]}, <<each[i]>>, w)]
  <2>3. copies \in Seq(Layer)
    <3>1. copies \in [DOMAIN each -> Layer]
      BY <2>2
    <3> HIDE DEF copies
    <3> QED
      BY <2>1, <3>1, MapTyped
  <2>4. CopyOf(Sources, <<"sources">>, w) \in Layer
    BY <2>1, RunTyped, OpValues, ArgumentValues
  <2> QED
    BY <2>3, <2>4 DEF Copies, each
<1> QED
  BY <1>1, <1>2, <1>3, <1>4, <1>5, <1>6, <1>7, <1>8, <1>9

LEMMA SiteTyped ==
  ASSUME <<def, type>> \in Inputs, Asked,
         NEW w \in Versions, def.web # None
  PROVE  /\ Packages(def.web.packages) \in Seq(Layer)
         /\ SiteConfig(w) \in Seq(Layer) /\ SiteAssets \in Seq(Layer)
<1>1. Packages(def.web.packages) \in Seq(Layer)
  BY DefinitionTyped, PackagesTyped
<1>2. SiteConfig(w) \in Seq(Layer)
  <2> DEFINE dests == SetToSeq(def.web.config)
  <2>1. dests \in Seq(Name)
    <3>1. dests \in Seq(def.web.config)
      BY DefinitionTyped, NamesAreFinite, ListOfSet
    <3> QED
      BY <3>1, DefinitionTyped
  <2> HIDE DEF dests
  <2>2. \A i \in DOMAIN dests : CopyOf({"dist"}, <<dests[i]>>, w) \in Layer
    <3>1. \A i \in DOMAIN dests : <<dests[i]>> \in Seq(Argument)
      BY <2>1, ArgumentValues
    <3>2. {"dist"} \in SUBSET Name
      BY DEF Name
    <3> QED
      BY <3>1, <3>2, RunTyped, OpValues, ArgumentValues
  <2> DEFINE copies == [i \in DOMAIN dests |-> CopyOf({"dist"}, <<dests[i]>>, w)]
  <2>3. copies \in Seq(Layer)
    <3>1. copies \in [DOMAIN dests -> Layer]
      BY <2>2
    <3> HIDE DEF copies
    <3> QED
      BY <2>1, <3>1, MapTyped
  <2> QED
    BY <2>3 DEF SiteConfig, dests
<1>3. SiteAssets \in Seq(Layer)
  <2>1. \A i \in DOMAIN def.web.assets : Run("copy", def.web.assets[i]) \in Layer
    BY DefinitionTyped, RunTyped, OpValues, ArgumentValues
  <2>2. SiteAssets \in [DOMAIN def.web.assets -> Layer]
    BY <2>1 DEF SiteAssets
  <2>3. def.web.assets \in Seq((Root \cup {Relative}) \X Name)
    BY DefinitionTyped
  <2> QED
    BY <2>2, <2>3, MapTyped
<1> QED
  BY <1>1, <1>2, <1>3

TypeInv ==
  /\ <<def, type>> \in Inputs /\ Suffix(step)
  /\ Asked
  /\ versions \in Versions
  /\ cwd = IF def.kind = "webserver" \/ Left("dirs") THEN "base" ELSE "app"
  /\ files \in [Path -> Content] /\ layers \in Seq(Layer) /\ volumes \subseteq Path
  /\ def.web # None /\ ~ Left("web-base") /\ step # <<>> =>
       site.layers \in Seq(Layer) /\ site.files \in [Name -> Content]
  /\ site # None => site.layers \in Seq(Layer) /\ site.files \in [Name -> Content]

LEMMA TypesChecked == TypeInv => TypeOK
BY DEF TypeInv, TypeOK, Suffix, Left, Has, ToSet, Versions, Asked

\* A path of a definition is one of the image.
LEMMA ResolveTyped ==
  ASSUME NEW p \in (Root \cup {Relative}) \X Name, NEW dir \in Root
  PROVE  Resolve(dir, p) \in Path
<1>1. p = <<p[1], p[2]>> /\ p[1] \in Root \cup {Relative} /\ p[2] \in Name
  OBVIOUS
<1> QED
  BY <1>1 DEF Resolve, Path

LEMMA PutTyped ==
  ASSUME files \in [Path -> Content], NEW paths, NEW content \in Content
  PROVE  Put(paths, content) \in [Path -> Content]
BY DEF Put

LEMMA ContentValues ==
  /\ "nothing" \in Content /\ "directory" \in Content /\ "config" \in Content
  /\ "context" \in Content /\ "installed" \in Content /\ "made" \in Content
BY DEF Content

\* The steps of a stage are those of a kind that has one.
LEMMA StageSteps ==
  ASSUME TypeInv, Building
  PROVE  /\ def.kind \in {"php", "nodejs"} /\ step # <<>> /\ step' = Tail(step)
         /\ Head(step) \notin {"web-base", "web-packages", "web-config", "web-assets"}
         /\ Left("web-base") <=> def.web # None
         /\ def.web # None => Left("web-assets")
<1>1. /\ Head(step) \in {"base", "packages", "extensions", "external", "dirs", "config",
                         "globals", "deps", "sources", "finish", "metadata"}
      /\ step # <<>> /\ step' = Tail(step)
  BY DEF Building, StartFromBase, InstallPackages, InstallExtensions, CopyExternalFiles,
         MakeDirs, CopyConfigFiles, InstallGlobals, InstallDeps, CopySources, Finish,
         SetImageMetadata, At, Build
<1>2. def \in ADefinition /\ Suffix(step)
  BY InputsTyped DEF TypeInv
<1>3. /\ Planned(def, Head(step))
      /\ \A x : Left(x) <=> Planned(def, x) /\ Rank(def, x) >= Rank(def, Head(step))
  BY <1>1, <1>2, StepsLeft
<1>4. /\ Rank(def, Head(step)) <= 12
      /\ Rank(def, "web-base") = 13 /\ Rank(def, "web-assets") = 16
  BY <1>1, RankValues
<1>5. Rank(def, Head(step)) \in 1..16
  BY RankType
<1> QED
  BY <1>1, <1>3, <1>4, <1>5 DEF Planned

LEMMA TypeBuilding == TypeInv /\ Building => TypeInv'
<1> SUFFICES ASSUME TypeInv, Building PROVE TypeInv'
  OBVIOUS
<1>1. /\ UNCHANGED <<def, type, manager, opts, versions, site, before>>
      /\ step # <<>> /\ step' = Tail(step)
  BY DEF Building, StartFromBase, InstallPackages, InstallExtensions, CopyExternalFiles,
         MakeDirs, CopyConfigFiles, InstallGlobals, InstallDeps, CopySources, Finish,
         SetImageMetadata, At, Build, request
<1>2. /\ <<def, type>> \in Inputs /\ def \in ADefinition
      /\ Asked
      /\ versions \in Versions /\ files \in [Path -> Content] /\ layers \in Seq(Layer)
      /\ def.kind \in {"php", "nodejs"}
  BY InputsTyped, StageSteps DEF TypeInv
<1>3. Suffix(step') /\ \A x : Left(x)' <=> Left(x) /\ x # Head(step)
  BY <1>1, <1>2, StepsLeft DEF TypeInv, Left
<1>4. Suffix(step)'
  BY <1>1, <1>3 DEF Suffix
<1>5. layers' \in Seq(Layer)
  <2>1. ASSUME NEW new \in Seq(Layer), Build(new) PROVE layers' \in Seq(Layer)
    BY <1>2, <2>1 DEF Build
  <2>2. <<>> \in Seq(Layer)
    OBVIOUS
  <2> QED
    BY <1>2, <2>1, <2>2, LayersTyped, LayersOfSteps DEF Building
<1>6. files' \in [Path -> Content]
  <2>1. ASSUME NEW paths, NEW content \in Content
        PROVE  Put(paths, content) \in [Path -> Content]
    BY <1>2, <2>1, PutTyped
  <2>2. CASE InstallDeps
    <3>1. Put({<<"app", "manifest">>}, "context") \in [Path -> Content]
      BY <2>1, ContentValues
    <3> QED
      BY <2>2, <3>1, ContentValues DEF InstallDeps
  <2>3. CASE MakeDirs \/ CopyConfigFiles \/ CopySources \/ Finish
    BY <1>2, <2>1, <2>3, ContentValues DEF MakeDirs, CopyConfigFiles, CopySources, Finish
  <2> QED
    BY <1>2, <2>2, <2>3 DEF Building, StartFromBase, InstallPackages, InstallExtensions,
       CopyExternalFiles, InstallGlobals, SetImageMetadata
<1>7. volumes' \subseteq Path
  <2>1. CASE SetImageMetadata
    <3>1. \A d \in ToSet(def.dirs) : d \in (Root \cup {Relative}) \X Name
      BY <1>2, DefinitionTyped DEF ToSet
    <3>2. "app" \in Root
      BY DEF Root
    <3> QED
      BY <2>1, <3>1, <3>2, ResolveTyped DEF SetImageMetadata
  <2> QED
    BY <2>1 DEF TypeInv, Building, StartFromBase, InstallPackages, InstallExtensions,
       CopyExternalFiles, MakeDirs, CopyConfigFiles, InstallGlobals, InstallDeps, CopySources,
       Finish
<1>8. cwd' = IF def.kind = "webserver" \/ Left("dirs")' THEN "base" ELSE "app"
  <2>1. CASE MakeDirs
    <3>1. Head(step) = "dirs" /\ cwd' = "app"
      BY <2>1 DEF MakeDirs, At
    <3> QED
      BY <1>2, <1>3, <3>1
  <2>2. CASE ~ MakeDirs
    <3>1. Head(step) # "dirs" /\ cwd' = cwd
      BY <2>2 DEF Building, StartFromBase, InstallPackages, InstallExtensions,
         CopyExternalFiles, CopyConfigFiles, InstallGlobals, InstallDeps, CopySources,
         Finish, SetImageMetadata, At
    <3> QED
      BY <1>3, <3>1 DEF TypeInv
  <2> QED
    BY <2>1, <2>2
<1>9. def.web # None => Left("web-base")'
  BY <1>3, StageSteps
<1>10. Asked'
  BY <1>1, <1>2 DEF Asked
<1> QED
  BY <1>1, <1>2, <1>4, <1>5, <1>6, <1>7, <1>8, <1>9, <1>10 DEF TypeInv

LEMMA SiteSteps ==
  ASSUME TypeInv, Serving
  PROVE  /\ def.web # None /\ step # <<>>
         /\ ~ Left("dirs") /\ ~ Left("metadata") /\ ~ Left("deps") /\ ~ Left("sources")
         /\ ~ Left("finish")
         /\ Left("web-base") <=> At("web-base")
<1>1. Head(step) \in {"web-base", "web-packages", "web-config", "web-assets"} /\ step # <<>>
  BY DEF Serving, StartWebserver, InstallSitePackages, CopySiteConfig, CopyAssets, At
<1>2. def \in ADefinition /\ Suffix(step)
  BY InputsTyped DEF TypeInv
<1>3. /\ Planned(def, Head(step))
      /\ \A x : Left(x) <=> Planned(def, x) /\ Rank(def, x) >= Rank(def, Head(step))
  BY <1>1, <1>2, StepsLeft
<1>4. Rank(def, Head(step)) \in 13..16 /\ (Rank(def, Head(step)) = 13 <=> At("web-base"))
  BY <1>1, RankValues DEF At
<1>5. /\ Rank(def, "dirs") = 5 /\ Rank(def, "metadata") = 12 /\ Rank(def, "deps") = 8
      /\ Rank(def, "sources") = 10 /\ Rank(def, "finish") = 11 /\ Rank(def, "web-base") = 13
  BY RankValues
<1>6. def.web # None
  BY <1>1, <1>3 DEF Planned
<1>7. Planned(def, "web-base")
  BY <1>6 DEF Planned
<1> QED
  BY <1>1, <1>3, <1>4, <1>5, <1>6, <1>7

LEMMA TypeServing == TypeInv /\ Serving => TypeInv'
<1> SUFFICES ASSUME TypeInv, Serving PROVE TypeInv'
  OBVIOUS
<1>1. /\ UNCHANGED <<def, type, manager, opts, versions, cwd, files, layers, volumes, before>>
      /\ \/ step' = Tail(step)
         \/ def.kind = "webserver" /\ step' = <<>> /\ StartWebserver /\ site' = site
  BY DEF Serving, StartWebserver, InstallSitePackages, CopySiteConfig, CopyAssets,
         BuildSite, request
<1>2. /\ <<def, type>> \in Inputs /\ def \in ADefinition
      /\ Asked
      /\ versions \in Versions /\ files \in [Path -> Content]
      /\ def.web # None /\ step # <<>>
  BY InputsTyped, SiteSteps DEF TypeInv
<1>3. /\ Suffix(step')
      /\ step' = Tail(step) => \A x : Left(x)' <=> Left(x) /\ x # Head(step)
      /\ step' = <<>> => \A x : ~ Left(x)'
  <2>1. Suffix(Tail(step)) /\ \A x : Has(Tail(step), x) <=> Left(x) /\ x # Head(step)
    BY <1>2, StepsLeft DEF TypeInv
  <2>2. Suffix(<<>>) /\ \A x : ~ Has(<<>>, x)
    BY <1>2, SuffixOfAll DEF Has
  <2> QED
    BY <1>1, <2>1, <2>2 DEF Left
<1>4. Suffix(step)'
  BY <1>1, <1>3 DEF Suffix
<1>5. cwd' = IF def.kind = "webserver" \/ Left("dirs")' THEN "base" ELSE "app"
  BY <1>1, <1>3, SiteSteps DEF TypeInv
<1>6. ASSUME NEW new \in Seq(Layer), NEW content \in [Name -> Content],
             BuildSite(new, content), ~ At("web-base")
      PROVE  site'.layers \in Seq(Layer) /\ site'.files \in [Name -> Content]
  <2>1. site.layers \in Seq(Layer)
    BY <1>2, <1>6, SiteSteps DEF TypeInv
  <2>2. site.layers \o new \in Seq(Layer)
    BY <2>1
  <2> QED
    BY <1>6, <2>2 DEF BuildSite
<1>7. CASE StartWebserver
  <2>1. At("web-base") /\ \/ step' = <<>> /\ site' = site
                          \/ site' = [layers |-> <<>>, files |-> [n \in Name |-> "nothing"]]
    BY <1>7 DEF StartWebserver
  <2>2. <<>> \in Seq(Layer) /\ [n \in Name |-> "nothing"] \in [Name -> Content]
    BY ContentValues
  <2>3. CASE step' = <<>> /\ site' = site
    BY <1>1, <1>2, <1>4, <1>5, <2>3 DEF TypeInv, Asked
  <2>4. CASE site' = [layers |-> <<>>, files |-> [n \in Name |-> "nothing"]]
    <3>1. site'.layers \in Seq(Layer) /\ site'.files \in [Name -> Content]
      BY <2>2, <2>4
    <3> QED
      BY <1>1, <1>2, <1>4, <1>5, <3>1 DEF TypeInv, Asked
  <2> QED
    BY <2>1, <2>3, <2>4
<1>8. CASE ~ StartWebserver
  <2>1. /\ ~ At("web-base")
        /\ site.layers \in Seq(Layer) /\ site.files \in [Name -> Content]
    <3>1. ~ At("web-base")
      BY <1>8 DEF Serving, InstallSitePackages, CopySiteConfig, CopyAssets, At
    <3> QED
      BY <1>2, <3>1, SiteSteps DEF TypeInv
  <2>2. \E new \in Seq(Layer), content \in [Name -> Content] : BuildSite(new, content)
    <3>1. CASE InstallSitePackages
      BY <1>2, <2>1, <3>1, SiteTyped, SiteOfSteps
    <3>2. CASE CopySiteConfig
      <4>1. PICK content :
              /\ BuildSite(SiteConfig(versions), content)
              /\ content = [n \in Name |-> IF n \in def.web.config THEN "config"
                                           ELSE site.files[n]]
        BY <3>2, SiteOfSteps
      <4>2. content \in [Name -> Content]
        BY <2>1, <4>1, ContentValues
      <4> QED
        BY <1>2, <4>1, <4>2, SiteTyped
    <3>3. CASE CopyAssets
      <4> DEFINE A(n) == CHOOSE a \in ToSet(def.web.assets) : a[2] = n
      <4>1. PICK content :
              /\ BuildSite(SiteAssets, content)
              /\ content = [n \in Name |->
                    IF \E a \in ToSet(def.web.assets) : a[2] = n
                      THEN files[Resolve(cwd, A(n))]
                      ELSE site.files[n]]
        BY <3>3, SiteOfSteps
      <4>2. ASSUME NEW n \in Name, \E a \in ToSet(def.web.assets) : a[2] = n
            PROVE  files[Resolve(cwd, A(n))] \in Content
        <5>1. A(n) \in ToSet(def.web.assets)
          BY <4>2
        <5>2. A(n) \in (Root \cup {Relative}) \X Name
          <6>1. def.web.assets \in Seq((Root \cup {Relative}) \X Name)
            BY <1>2, DefinitionTyped
          <6> HIDE DEF A
          <6> QED
            BY <5>1, <6>1 DEF ToSet
        <5>3. cwd \in Root
          BY DEF TypeInv, Root
        <5> HIDE DEF A
        <5>4. Resolve(cwd, A(n)) \in Path
          BY <5>2, <5>3, ResolveTyped
        <5> QED
          BY <1>2, <5>4
      <4>3. content \in [Name -> Content]
        <5> HIDE DEF A
        <5> QED
          BY <2>1, <4>1, <4>2
      <4> QED
        BY <1>2, <4>1, <4>3, SiteTyped
    <3> QED
      BY <1>8, <3>1, <3>2, <3>3 DEF Serving
  <2>3. site'.layers \in Seq(Layer) /\ site'.files \in [Name -> Content]
    BY <1>6, <2>1, <2>2
  <2> QED
    BY <1>1, <1>2, <1>4, <1>5, <2>3 DEF TypeInv, Asked
<1> QED
  BY <1>7, <1>8

LEMMA TypeInit == Init => TypeInv
<1> SUFFICES ASSUME Init PROVE TypeInv
  OBVIOUS
<1>1. <<def, type>> \in Inputs /\ def \in ADefinition /\ Suffix(step)
  BY StepInit, InputsTyped DEF StepInv
<1>2. versions \in Versions /\ Asked
  BY ImageAssumption DEF Init, Versions, Asked
<1>3. \A x : Left(x) <=> Planned(def, x)
  BY <1>1, StepsOrdered DEF Left, Init, NothingBuilt
<1>4. /\ def.kind = "webserver" \/ Left("dirs")
      /\ def.web # None => Left("web-base")
  BY <1>1, <1>3 DEF Planned, ADefinition
<1>5. files \in [Path -> Content]
  BY ContentValues DEF Init, NothingBuilt
<1>6. layers \in Seq(Layer) /\ volumes \subseteq Path /\ site = None /\ cwd = "base"
  BY DEF Init, NothingBuilt
<1> QED
  BY <1>1, <1>2, <1>4, <1>5, <1>6 DEF TypeInv

LEMMA TypeNext == TypeInv /\ [Next]_vars => TypeInv'
<1> SUFFICES ASSUME TypeInv, [Next]_vars PROVE TypeInv'
  OBVIOUS
<1>1. CASE \E n \in Name : Edit(n)
  <2>1. /\ UNCHANGED <<def, type, manager, opts, step, cwd, files, layers, volumes, site>>
        /\ \E n \in Name : /\ versions[n] < MaxEdits
                           /\ versions' = [versions EXCEPT ![n] = @ + 1]
    BY <1>1 DEF Edit, request
  <2>2. versions' \in Versions
    BY <2>1, ImageAssumption DEF TypeInv, Versions
  <2> QED
    BY <2>1, <2>2 DEF TypeInv, Suffix, Left, Asked
<1>2. CASE Again
  <2>1. /\ UNCHANGED <<def, type, opts, versions>>
        /\ manager' \in Managers(def) \cup {manager}
        /\ step' = Steps(def) /\ cwd' = "base" /\ layers' = <<>> /\ volumes' = {}
        /\ site' = None /\ files' = [p \in Path |-> "nothing"]
    BY <1>2 DEF Again, request
  <2>2. def \in ADefinition
    BY InputsTyped DEF TypeInv
  <2>3. \A x : Left(x)' <=> Planned(def, x)
    BY <2>1, <2>2, StepsOrdered DEF Left
  <2>4. /\ def.kind = "webserver" \/ Left("dirs")'
        /\ def.web # None => Left("web-base")'
    BY <2>2, <2>3 DEF Planned, ADefinition
  <2>5. Suffix(step)' /\ files' \in [Path -> Content] /\ layers' \in Seq(Layer)
    BY <2>1, <2>2, SuffixOfAll, ContentValues DEF Suffix
  <2>6. Asked'
    BY <2>1 DEF TypeInv, Asked
  <2> QED
    BY <2>1, <2>4, <2>5, <2>6 DEF TypeInv
<1>3. CASE UNCHANGED vars
  BY <1>3 DEF vars, TypeInv, Suffix, Left, Asked
<1> QED
  BY <1>1, <1>2, <1>3, TypeBuilding, TypeServing DEF Next, Building, Serving

\* Whatever is built, every layer is one BuildKit can compute and every path of the
\* definition is one of the image.
THEOREM TypeCorrect == Spec => []TypeOK
<1>1. Spec => []TypeInv
  BY TypeInit, TypeNext, PTL DEF Spec
<1> QED
  BY <1>1, TypesChecked, PTL

-----------------------------------------------------------------------------
(* What is copied of the context.                                          *)

\* Patterns restrict what is loaded of a local context only when there are some.
Listed == \A i \in Inputs : i[2] = "local" => i[1].sources # {}

SourcesInv == TypeInv /\ OnlySources

LEMMA SourcesInit == Init => SourcesInv
BY TypeInit DEF Init, NothingBuilt, SourcesInv, OnlySources, Path, Root

LEMMA SourcesNext == Listed /\ SourcesInv /\ [Next]_vars => SourcesInv'
<1> SUFFICES ASSUME Listed, SourcesInv, [Next]_vars PROVE SourcesInv'
  OBVIOUS
<1>1. TypeInv'
  BY TypeNext DEF SourcesInv
<1> SUFFICES OnlySources'
  BY <1>1 DEF SourcesInv
<1>2. Sources \subseteq def.sources
  <2>1. <<def, type>> \in Inputs
    BY DEF SourcesInv, TypeInv
  <2>2. type = "local" => def.sources # {}
    <3> DEFINE i == <<def, type>>
    <3>1. i \in Inputs /\ i[1] = def /\ i[2] = type
      BY <2>1
    <3> HIDE DEF i
    <3> QED
      BY <3>1 DEF Listed
  <2> QED
    BY <2>2 DEF Sources, Included
<1>3. \A n \in Name : <<"app", n>> \in Path
  BY DEF Path, Root
<1>4. ASSUME NEW paths, NEW content, files' = Put(paths, content), def' = def,
             content = "context" =>
               \A n \in Name : <<"app", n>> \in paths => n \in def.sources \cup {"manifest"}
      PROVE  OnlySources'
  <2>1. \A n \in Name :
          files'[<<"app", n>>] = IF <<"app", n>> \in paths THEN content
                                 ELSE files[<<"app", n>>]
    BY <1>3, <1>4 DEF Put
  <2> QED
    BY <1>4, <2>1 DEF SourcesInv, OnlySources
<1>5. ASSUME UNCHANGED <<def, files>> PROVE OnlySources'
  BY <1>5 DEF SourcesInv, OnlySources
<1>6. CASE InstallDeps
  <2> DEFINE copied == Put({<<"app", "manifest">>}, "context")
  <2>1. def' = def /\ files' = [copied EXCEPT ![<<"app", "deps">>] = "installed"]
    BY <1>6 DEF InstallDeps, Build, request
  <2>2. \A n \in Name :
          copied[<<"app", n>>] = IF n = "manifest" THEN "context" ELSE files[<<"app", n>>]
    BY <1>3 DEF Put
  <2>3. DOMAIN copied = Path
    BY DEF Put
  <2> HIDE DEF copied
  <2>4. \A n \in Name : files'[<<"app", n>>] = "context" => copied[<<"app", n>>] = "context"
    BY <1>3, <2>1, <2>3
  <2> QED
    BY <2>1, <2>2, <2>4 DEF SourcesInv, OnlySources
<1>7. CASE CopySources
  <2>1. /\ def' = def /\ files' = Put({"app"} \X Sources, "context")
        /\ \A n \in Name : <<"app", n>> \in {"app"} \X Sources => n \in def.sources
    BY <1>2, <1>7 DEF CopySources, Build, request
  <2> QED
    BY <1>4, <2>1
<1>8. CASE MakeDirs
  BY <1>4, <1>8 DEF MakeDirs, Build, request
<1>9. CASE CopyConfigFiles
  BY <1>4, <1>9 DEF CopyConfigFiles, Build, request
<1>10. CASE Finish
  BY <1>4, <1>5, <1>10 DEF Finish, Build, request
<1>11. CASE \/ StartFromBase \/ InstallPackages \/ InstallExtensions \/ CopyExternalFiles
            \/ InstallGlobals \/ SetImageMetadata \/ Serving \/ \E n \in Name : Edit(n)
  BY <1>5, <1>11 DEF StartFromBase, InstallPackages, InstallExtensions, CopyExternalFiles,
     InstallGlobals, SetImageMetadata, Serving, StartWebserver, InstallSitePackages,
     CopySiteConfig, CopyAssets, Edit, Build, BuildSite, request
<1>12. CASE Again
  BY <1>3, <1>12 DEF Again, OnlySources
<1>13. CASE UNCHANGED vars
  BY <1>5, <1>13 DEF vars
<1> QED
  BY <1>6, <1>7, <1>8, <1>9, <1>10, <1>11, <1>12, <1>13 DEF Next, Serving

\* When a stage lists sources, nothing else of the context reaches its image but the
\* manifest of its dependencies, whichever type its context has.
THEOREM OnlySourcesAreCopied ==
  ASSUME Listed
  PROVE  Spec => []OnlySources
<1>1. Spec => []SourcesInv
  BY SourcesInit, SourcesNext, PTL DEF Spec
<1>2. SourcesInv => OnlySources
  BY DEF SourcesInv
<1> QED
  BY <1>1, <1>2, PTL

-----------------------------------------------------------------------------
(* Directories with state.                                                 *)

Inside(d) == d[1] \in {Relative, "app"}

\* A directory with state is not a manifest, nor the place of a configuration file; and
\* those that patterns do not exclude, which are absolute or in a git context, are not
\* sources.
StateApart ==
  \A i \in Inputs : \A d \in ToSet(i[1].dirs) :
    IF Inside(d)
      THEN /\ d[2] # "manifest"
           /\ d[1] = "app" \/ i[2] = "git" => d[2] \notin i[1].sources
           /\ d[1] = "app" /\ i[2] = "local" => i[1].sources # {}
      ELSE d \notin i[1].config

\* Directories outside of the project are made by the image, and nothing replaces them.
StateInv ==
  /\ TypeInv
  /\ \A d \in ToSet(def.dirs) : files[Resolve("app", d)] # "context"
  /\ def.kind # "webserver" /\ ~ Left("dirs") =>
       \A d \in ToSet(def.dirs) : ~ Inside(d) => files[d] = "directory"
  /\ \A v \in volumes : /\ def.kind # "webserver" /\ ~ Left("dirs")
                        /\ v[1] # "app" => v \in ToSet(def.dirs) /\ ~ Inside(v)

LEMMA StateChecked == StateInv => StateDirsEmpty
BY DEF StateInv, StateDirsEmpty

LEMMA DirsTyped ==
  ASSUME <<def, type>> \in Inputs, NEW d \in ToSet(def.dirs)
  PROVE  /\ d \in (Root \cup {Relative}) \X Name /\ d = <<d[1], d[2]>> /\ d[2] \in Name
         /\ d[1] \in Root \cup {Relative}
         /\ Resolve("app", d) \in Path
         /\ Inside(d) => Resolve("app", d) = <<"app", d[2]>>
         /\ ~ Inside(d) => /\ \A dir : Resolve(dir, d) = d
                           /\ d \in Path /\ d[1] # "app"
<1>1. d \in (Root \cup {Relative}) \X Name
  <2>1. def.dirs \in Seq((Root \cup {Relative}) \X Name)
    BY DefinitionTyped
  <2> QED
    BY <2>1 DEF ToSet
<1>2. d = <<d[1], d[2]>> /\ d[1] \in Root \cup {Relative} /\ d[2] \in Name
  BY <1>1
<1>3. "app" \in Root
  BY DEF Root
<1>4. Resolve("app", d) \in Path
  BY <1>1, <1>3, ResolveTyped
<1>5. /\ Inside(d) => Resolve("app", d) = <<"app", d[2]>>
      /\ ~ Inside(d) => (\A dir : Resolve(dir, d) = d) /\ d[1] # "app"
  BY <1>2 DEF Inside, Resolve
<1> QED
  BY <1>1, <1>2, <1>4, <1>5

LEMMA StateOfInput ==
  ASSUME StateApart, <<def, type>> \in Inputs, NEW d \in ToSet(def.dirs)
  PROVE  /\ Inside(d) => d[2] # "manifest" /\ d[2] \notin Sources
         /\ ~ Inside(d) => d \notin def.config
<1>1. IF Inside(d)
        THEN /\ d[2] # "manifest"
             /\ d[1] = "app" \/ type = "git" => d[2] \notin def.sources
             /\ d[1] = "app" /\ type = "local" => def.sources # {}
        ELSE d \notin def.config
  <2> DEFINE i == <<def, type>>
  <2>1. i \in Inputs /\ i[1] = def /\ i[2] = type
    OBVIOUS
  <2> HIDE DEF i
  <2> QED
    BY <2>1 DEF StateApart
<1>2. type \in {"git", "local"}
  BY InputsTyped
<1>3. d[1] = Relative => d[2] \in Excluded
  BY DEF Excluded
<1>4. Inside(d) => d[1] = Relative \/ d[1] = "app"
  BY DEF Inside
<1> QED
  BY <1>1, <1>2, <1>3, <1>4 DEF Sources, Included

LEMMA StateInit == Init => StateInv
<1> SUFFICES ASSUME Init PROVE StateInv
  OBVIOUS
<1>1. TypeInv
  BY TypeInit
<1>2. \A d \in ToSet(def.dirs) : files[Resolve("app", d)] # "context"
  BY <1>1, DirsTyped DEF TypeInv, Init, NothingBuilt
<1>3. volumes = {} /\ \A x : Left(x) <=> Planned(def, x)
  BY <1>1, InputsTyped, StepsOrdered DEF TypeInv, Left, Init, NothingBuilt
<1>4. def.kind # "webserver" => Left("dirs")
  BY <1>1, <1>3, InputsTyped DEF TypeInv, Planned, ADefinition
<1> QED
  BY <1>1, <1>2, <1>3, <1>4 DEF StateInv

LEMMA StateNext == StateApart /\ StateInv /\ [Next]_vars => StateInv'
<1> SUFFICES ASSUME StateApart, StateInv, [Next]_vars PROVE StateInv'
  OBVIOUS
<1>1. TypeInv' /\ TypeInv /\ <<def, type>> \in Inputs /\ def \in ADefinition
  BY TypeNext, InputsTyped DEF StateInv, TypeInv
\* A build goes on, with more files: none from the context in a directory with state,
\* and no other than a directory in those made before.
<1>2. ASSUME Building, volumes' = volumes,
             \A d \in ToSet(def.dirs) :
               /\ files'[Resolve("app", d)] = "context" => files[Resolve("app", d)] = "context"
               /\ ~ Inside(d) => files'[d] = files[d] \/ files'[d] = "directory",
             MakeDirs => \A d \in ToSet(def.dirs) : ~ Inside(d) => files'[d] = "directory"
      PROVE  StateInv'
  <2>1. def' = def /\ \A x : Left(x)' <=> Left(x) /\ x # Head(step)
    BY <1>1, <1>2, OneStep, StageSteps, StepsLeft DEF StepInv, TypeInv, Left
  <2>2. Left("dirs") /\ ~ Left("dirs")' => MakeDirs
    BY <1>2, <2>1 DEF Building, StartFromBase, InstallPackages, InstallExtensions,
       CopyExternalFiles, CopyConfigFiles, InstallGlobals, InstallDeps, CopySources, Finish,
       SetImageMetadata, At
  <2> QED
    BY <1>1, <1>2, <2>1, <2>2 DEF StateInv
<1>3. ASSUME Building, volumes' = volumes, ~ MakeDirs,
             NEW paths, NEW content, content \in Content,
             \A p \in Path : files'[p] = IF p \in paths THEN content ELSE files[p],
             \A d \in ToSet(def.dirs) :
               /\ Resolve("app", d) \in paths => content # "context"
               /\ ~ Inside(d) => d \notin paths
      PROVE  StateInv'
  BY <1>1, <1>2, <1>3, DirsTyped
<1>4. CASE Building /\ files' = files /\ volumes' = volumes /\ ~ MakeDirs
  BY <1>2, <1>4
<1>5. CASE SetImageMetadata
  <2>1. /\ def' = def /\ files' = files /\ At("metadata") /\ step' = Tail(step) /\ step # <<>>
        /\ volumes' = {Resolve("app", d) : d \in ToSet(def.dirs)}
    BY <1>5 DEF SetImageMetadata, Build, At, request
  <2>2. /\ \A x : Left(x)' <=> Left(x) /\ x # "metadata"
        /\ \A x : Left(x) <=> Planned(def, x) /\ Rank(def, x) >= Rank(def, "metadata")
        /\ Planned(def, "metadata")
    BY <1>1, <2>1, StepsLeft DEF TypeInv, Left, At
  <2>3. def.kind # "webserver" /\ ~ Left("dirs") /\ ~ Left("dirs")'
    BY <2>2, RankValues DEF Planned
  <2>4. \A v \in volumes' : v[1] # "app" => v \in ToSet(def.dirs) /\ ~ Inside(v)
    <3>1. ASSUME NEW d \in ToSet(def.dirs), Resolve("app", d)[1] # "app"
          PROVE  Resolve("app", d) = d /\ ~ Inside(d)
      BY <1>1, <3>1, DirsTyped
    <3> QED
      BY <2>1, <3>1
  <2> QED
    BY <1>1, <2>1, <2>3, <2>4 DEF StateInv
<1>6. CASE MakeDirs
  <2>1. /\ Building /\ volumes' = volumes
        /\ files' = Put({Resolve(cwd, d) : d \in ToSet(def.dirs)}, "directory")
    BY <1>6 DEF MakeDirs, Building
  <2>2. \A p \in Path :
          /\ files'[p] = "context" => files[p] = "context"
          /\ files'[p] = files[p] \/ files'[p] = "directory"
    BY <2>1 DEF Put
  <2>3. ASSUME NEW d \in ToSet(def.dirs), ~ Inside(d) PROVE files'[d] = "directory"
    <3>1. Resolve(cwd, d) = d /\ d \in Path
      BY <1>1, <2>3, DirsTyped
    <3> QED
      BY <2>1, <3>1 DEF Put
  <2> QED
    BY <1>1, <1>2, <2>1, <2>2, <2>3, DirsTyped
<1>7. CASE CopyConfigFiles
  <2> DEFINE paths == {Resolve("app", p) : p \in def.config}
  <2>1. /\ Building /\ volumes' = volumes /\ ~ MakeDirs /\ "config" \in Content
        /\ \A p \in Path : files'[p] = IF p \in paths THEN "config" ELSE files[p]
    BY <1>7, ContentValues DEF CopyConfigFiles, Building, Put, MakeDirs, At
  <2>2. \A d \in ToSet(def.dirs) : ~ Inside(d) => d \notin paths
    <3>1. ASSUME NEW d \in ToSet(def.dirs), ~ Inside(d), NEW p \in def.config,
                 Resolve("app", p) = d
          PROVE  FALSE
      <4>1. d[1] # "app" /\ d \notin def.config
        BY <1>1, <3>1, DirsTyped, StateOfInput
      <4> QED
        BY <3>1, <4>1 DEF Resolve
    <3> QED
      BY <3>1
  <2> HIDE DEF paths
  <2> QED
    BY <1>3, <2>1, <2>2
<1>8. CASE InstallDeps
  <2> DEFINE paths == {<<"app", "manifest">>, <<"app", "deps">>}
             copied == Put({<<"app", "manifest">>}, "context")
  <2>1. /\ Building /\ volumes' = volumes /\ ~ MakeDirs
        /\ files' = [copied EXCEPT ![<<"app", "deps">>] = "installed"]
    BY <1>8 DEF InstallDeps, Building, MakeDirs, At
  <2>2. \A p \in Path : /\ p \notin paths => files'[p] = files[p]
                        /\ files'[p] = "context" => p = <<"app", "manifest">>
                                                    \/ files[p] = "context"
    <3>1. /\ DOMAIN copied = Path
          /\ \A p \in Path : copied[p] = IF p = <<"app", "manifest">> THEN "context"
                                         ELSE files[p]
      BY DEF Put
    <3> HIDE DEF copied
    <3> QED
      BY <2>1, <3>1
  <2>3. ASSUME NEW d \in ToSet(def.dirs)
        PROVE  /\ Resolve("app", d) # <<"app", "manifest">>
               /\ ~ Inside(d) => d \notin paths
    <3>1. /\ Inside(d) => d[2] # "manifest" /\ Resolve("app", d) = <<"app", d[2]>>
          /\ ~ Inside(d) => Resolve("app", d) = d /\ d[1] # "app"
      BY <1>1, DirsTyped, StateOfInput
    <3> QED
      BY <3>1
  <2> HIDE DEF paths, copied
  <2> QED
    BY <1>1, <1>2, <2>1, <2>2, <2>3, DirsTyped
<1>9. CASE CopySources
  <2> DEFINE paths == {"app"} \X Sources
  <2>1. /\ Building /\ volumes' = volumes /\ ~ MakeDirs /\ "context" \in Content
        /\ \A p \in Path : files'[p] = IF p \in paths THEN "context" ELSE files[p]
    BY <1>9, ContentValues DEF CopySources, Building, Put, MakeDirs, At
  <2>2. ASSUME NEW d \in ToSet(def.dirs)
        PROVE  Resolve("app", d) \notin paths /\ (~ Inside(d) => d \notin paths)
    <3>1. /\ Inside(d) => d[2] \notin Sources /\ Resolve("app", d) = <<"app", d[2]>>
          /\ ~ Inside(d) => Resolve("app", d) = d /\ d[1] # "app"
      BY <1>1, DirsTyped, StateOfInput
    <3> QED
      BY <3>1
  <2> HIDE DEF paths
  <2> QED
    BY <1>3, <2>1, <2>2
<1>10. CASE Finish
  <2>1. Building /\ volumes' = volumes /\ ~ MakeDirs /\ "made" \in Content
    BY <1>10, ContentValues DEF Finish, Building, MakeDirs, At
  <2>2. CASE files' = files
    BY <1>4, <2>1, <2>2
  <2>3. CASE files' = Put({<<"app", "built">>}, "made")
    <3>1. \A p \in Path : files'[p] = IF p \in {<<"app", "built">>} THEN "made" ELSE files[p]
      BY <2>3 DEF Put
    <3>2. \A d \in ToSet(def.dirs) : ~ Inside(d) => d \notin {<<"app", "built">>}
      BY DEF Inside
    <3> QED
      BY <1>3, <2>1, <3>1, <3>2
  <2> QED
    BY <1>10, <2>2, <2>3 DEF Finish
<1>11. CASE \/ StartFromBase \/ InstallPackages \/ InstallExtensions \/ CopyExternalFiles
            \/ InstallGlobals
  <2>1. Building /\ files' = files /\ volumes' = volumes /\ ~ MakeDirs
    BY <1>11 DEF Building, StartFromBase, InstallPackages, InstallExtensions,
       CopyExternalFiles, InstallGlobals, MakeDirs, At
  <2> QED
    BY <1>4, <2>1
<1>12. CASE Serving
  <2>1. UNCHANGED <<def, files, volumes>>
    BY <1>12 DEF Serving, StartWebserver, InstallSitePackages, CopySiteConfig, CopyAssets,
       BuildSite, request
  <2>2. ~ Left("dirs")
    BY <1>1, <1>12, SiteSteps
  <2>3. ~ Left("dirs")'
    <3>1. /\ step # <<>>
          /\ step' = Tail(step) \/ step' = <<>>
      BY <1>1, <1>12, OneStep DEF StepInv, TypeInv
    <3>2. \A x : Has(Tail(step), x) => Left(x)
      BY <1>1, <3>1, StepsLeft DEF TypeInv
    <3>3. \A x : ~ Has(<<>>, x)
      BY DEF Has
    <3> QED
      BY <2>2, <3>1, <3>2, <3>3 DEF Left
  <2> QED
    BY <1>1, <2>1, <2>2, <2>3 DEF StateInv
<1>13. CASE (\E n \in Name : Edit(n)) \/ UNCHANGED vars
  <2>1. UNCHANGED <<def, files, volumes, step>>
    BY <1>13 DEF Edit, vars, request
  <2> QED
    BY <1>1, <2>1 DEF StateInv, Left
<1>14. CASE Again
  <2>1. /\ def' = def /\ volumes' = {} /\ step' = Steps(def)
        /\ files' = [p \in Path |-> "nothing"]
    BY <1>14 DEF Again, request
  <2>2. \A d \in ToSet(def.dirs) : files'[Resolve("app", d)] # "context"
    BY <1>1, <2>1, DirsTyped
  <2>3. \A x : Left(x)' <=> Planned(def, x)
    BY <1>1, <2>1, StepsOrdered DEF Left
  <2>4. def.kind # "webserver" => Left("dirs")'
    BY <1>1, <2>3 DEF Planned, ADefinition
  <2> QED
    BY <1>1, <2>1, <2>2, <2>4 DEF StateInv
<1> QED
  BY <1>5, <1>6, <1>7, <1>8, <1>9, <1>10, <1>11, <1>12, <1>13, <1>14 DEF Next, Serving

\* Nothing of the context ever is in a directory with state, and those outside of the
\* project are directories of the image by the time volumes are declared, for every
\* definition whose configuration files and manifest are apart from them.
THEOREM StateIsLeftOut ==
  ASSUME StateApart
  PROVE  Spec => []StateDirsEmpty
<1>1. Spec => []StateInv
  BY StateInit, StateNext, PTL DEF Spec
<1> QED
  BY <1>1, StateChecked, PTL

-----------------------------------------------------------------------------
(* The assets of a webserver.                                              *)

\* The assets of a webserver have names of their own, and no configuration file replaces
\* the dependencies nodejs has installed.
AssetsApart ==
  \A i \in Inputs :
    /\ i[1].web # None =>
         \A a, b \in ToSet(i[1].web.assets) : a[2] = b[2] => a = b
    /\ i[1].kind = "nodejs" =>
         <<Relative, "deps">> \notin i[1].config /\ <<"app", "deps">> \notin i[1].config

\* What the steps done so far leave in the image, and at the end in the webserver.
BuiltInv ==
  def.kind # "webserver" /\ ~ def.dev =>
    /\ ~ Left("deps") /\ "deps" \notin Sources => files[<<"app", "deps">>] = "installed"
    /\ ~ Left("sources") /\ "main" \in Sources => files[<<"app", "main">>] = "context"
    /\ ~ Left("finish") /\ def.command => files[<<"app", "built">>] = "made"

AssetsInv ==
  /\ StateInv /\ BuiltInv
  /\ def.kind = "webserver" /\ def.web # None /\ step # <<>> /\ ~ Left("web-base") =>
       def.web.assets = <<>>
  /\ site # None =>
       /\ def.web # None
       /\ def.kind = "webserver" => def.web.assets = <<>>
       /\ def.kind # "webserver" /\ ~ Left("web-assets") =>
            \A a \in ToSet(def.web.assets) : site.files[a[2]] = files[Resolve(cwd, a)]

LEMMA AssetTyped ==
  ASSUME <<def, type>> \in Inputs, def.web # None, NEW a \in ToSet(def.web.assets)
  PROVE  /\ a = <<a[1], a[2]>> /\ a[2] \in Name /\ a[1] \in Root \cup {Relative}
         /\ a[1] \in {Relative, "app"} => Resolve("app", a) = <<"app", a[2]>>
<1>1. a \in (Root \cup {Relative}) \X Name
  <2>1. def.web.assets \in Seq((Root \cup {Relative}) \X Name)
    BY DefinitionTyped
  <2> QED
    BY <2>1 DEF ToSet
<1>2. a = <<a[1], a[2]>> /\ a[1] \in Root \cup {Relative} /\ a[2] \in Name
  BY <1>1
<1> QED
  BY <1>2 DEF Resolve

LEMMA AssetsChecked == AssetsInv => AssetsFromStage
<1> SUFFICES ASSUME AssetsInv, Done, site # None, ~ def.dev,
                    NEW a \in ToSet(def.web.assets)
             PROVE  LET content == site.files[a[2]]
                        dir == a[1] \in {Relative, "app"}
                    IN  /\ dir /\ a[2] = "built" /\ def.command => content = "made"
                        /\ dir /\ a[2] = "deps" /\ "deps" \notin Sources => content = "installed"
                        /\ dir /\ a[2] = "main" /\ "main" \in Sources => content = "context"
                        /\ a \in ToSet(def.dirs) => content # "context"
  BY DEF AssetsFromStage
<1>1. <<def, type>> \in Inputs /\ def.web # None
  BY DEF AssetsInv, StateInv, TypeInv
<1>2. def.kind # "webserver"
  <2>1. \A x : x \notin ToSet(<<>>)
    BY DEF ToSet
  <2> QED
    BY <2>1 DEF AssetsInv
<1>3. \A x : ~ Left(x)
  BY DEF Done, Left, Has
<1>4. cwd = "app"
  BY <1>2, <1>3 DEF AssetsInv, StateInv, TypeInv
<1>5. site.files[a[2]] = files[Resolve("app", a)]
  BY <1>2, <1>3, <1>4 DEF AssetsInv
<1>6. /\ def.command => files[<<"app", "built">>] = "made"
      /\ "deps" \notin Sources => files[<<"app", "deps">>] = "installed"
      /\ "main" \in Sources => files[<<"app", "main">>] = "context"
  BY <1>2, <1>3 DEF AssetsInv, BuiltInv
<1>7. a \in ToSet(def.dirs) => files[Resolve("app", a)] # "context"
  BY DEF AssetsInv, StateInv
<1>8. a[1] \in {Relative, "app"} => Resolve("app", a) = <<"app", a[2]>>
  BY <1>1, AssetTyped
<1> QED
  BY <1>5, <1>6, <1>7, <1>8

LEMMA AssetsInit == Init => AssetsInv
<1> SUFFICES ASSUME Init PROVE AssetsInv
  OBVIOUS
<1>1. StateInv /\ <<def, type>> \in Inputs /\ def \in ADefinition
  BY StateInit, InputsTyped DEF StateInv, TypeInv
<1>2. site = None /\ \A x : Left(x) <=> Planned(def, x)
  BY <1>1, StepsOrdered DEF Left, Init, NothingBuilt
<1>3. /\ def.kind # "webserver" /\ ~ def.dev =>
           Left("deps") /\ Left("sources") /\ Left("finish")
      /\ def.web # None => Left("web-base")
  BY <1>1, <1>2 DEF Planned, ADefinition
<1> QED
  BY <1>1, <1>2, <1>3 DEF AssetsInv, BuiltInv

\* The steps that come after the one a build is at stay left.
LEMMA TailLeft ==
  ASSUME TypeInv, step # <<>>, NEW x, Planned(def, x), Rank(def, x) > Rank(def, Head(step))
  PROVE  Has(Tail(step), x)
<1>1. def \in ADefinition /\ Suffix(step)
  BY InputsTyped DEF TypeInv
<1>2. /\ Rank(def, x) \in 1..16 /\ Rank(def, Head(step)) \in 1..16
      /\ \A y : Left(y) <=> Planned(def, y) /\ Rank(def, y) >= Rank(def, Head(step))
      /\ \A y : Has(Tail(step), y) <=> Left(y) /\ y # Head(step)
  BY <1>1, StepsLeft, RankType
<1>3. x # Head(step) /\ Rank(def, x) >= Rank(def, Head(step))
  BY <1>2
<1> QED
  BY <1>2, <1>3

LEMMA StillLeft ==
  ASSUME TypeInv, Building, NEW x, Planned(def, x), Rank(def, x) > Rank(def, Head(step))
  PROVE  Left(x)'
BY StageSteps, TailLeft DEF Left

LEMMA BuiltBuilding == StateApart /\ AssetsApart /\ AssetsInv /\ Building => BuiltInv'
<1> SUFFICES ASSUME StateApart, AssetsApart, AssetsInv, Building,
                    def.kind # "webserver", ~ def.dev
             PROVE  BuiltInv'
  BY OneStep DEF BuiltInv, AssetsInv, StateInv, TypeInv, StepInv
<1>1. /\ TypeInv /\ BuiltInv /\ def \in ADefinition /\ def.kind \in {"php", "nodejs"}
      /\ def' = def /\ type' = type
  BY OneStep, InputsTyped, StageSteps DEF AssetsInv, StateInv, TypeInv, StepInv
<1>2. Sources' = Sources /\ \A x : Left(x)' <=> Left(x) /\ x # Head(step)
  BY <1>1, StageSteps, StepsLeft DEF TypeInv, Left, Sources, Included, Excluded
<1>3. Planned(def, "deps") /\ Planned(def, "sources") /\ Planned(def, "finish")
  BY <1>1 DEF Planned
<1>4. \A n \in Name : <<"app", n>> \in Path
  BY DEF Path, Root
<1>5. "deps" \in Name /\ "main" \in Name /\ "built" \in Name
  BY DEF Name
<1>6. CASE MakeDirs
  <2>1. Head(step) = "dirs"
    BY <1>6 DEF MakeDirs, At
  <2>2. Left("deps")' /\ Left("sources")' /\ Left("finish")'
    BY <1>1, <1>3, <2>1, StillLeft, RankValues
  <2> QED
    BY <1>1, <2>2 DEF BuiltInv
<1>7. CASE CopyConfigFiles
  <2>1. Head(step) = "config" /\ files' = Put({Resolve("app", p) : p \in def.config}, "config")
    BY <1>7 DEF CopyConfigFiles, At
  <2>2. Left("sources")' /\ Left("finish")' /\ (def.kind = "php" => Left("deps")')
    BY <1>1, <1>3, <2>1, StillLeft, RankValues
  <2>3. ASSUME def.kind = "nodejs"
        PROVE  files'[<<"app", "deps">>] = files[<<"app", "deps">>]
    <3>1. <<Relative, "deps">> \notin def.config /\ <<"app", "deps">> \notin def.config
      <4> DEFINE i == <<def, type>>
      <4>1. i \in Inputs /\ i[1] = def
        BY <1>1 DEF TypeInv
      <4> HIDE DEF i
      <4> QED
        BY <2>3, <4>1 DEF AssetsApart
    <3>2. ASSUME NEW p \in def.config, Resolve("app", p) = <<"app", "deps">> PROVE FALSE
      <4>1. def.config \in SUBSET ((Root \cup {Relative}) \X Name)
        BY <1>1 DEF ADefinition
      <4>2. p = <<p[1], p[2]>>
        BY <4>1
      <4> QED
        BY <3>1, <3>2, <4>2 DEF Resolve
    <3> QED
      BY <1>4, <1>5, <2>1, <3>2 DEF Put
  <2>4. ~ Left("deps")' => def.kind = "nodejs" /\ ~ Left("deps")
    BY <1>1, <1>2, <2>1, <2>2
  <2> QED
    BY <1>1, <1>2, <2>2, <2>3, <2>4 DEF BuiltInv
<1>8. CASE InstallDeps
  <2> DEFINE copied == Put({<<"app", "manifest">>}, "context")
  <2>1. Head(step) = "deps" /\ files' = [copied EXCEPT ![<<"app", "deps">>] = "installed"]
    BY <1>8 DEF InstallDeps, At
  <2>2. DOMAIN copied = Path
    BY DEF Put
  <2> HIDE DEF copied
  <2>3. files'[<<"app", "deps">>] = "installed"
    BY <1>4, <1>5, <2>1, <2>2
  <2>4. Left("sources")' /\ Left("finish")'
    BY <1>1, <1>3, <2>1, StillLeft, RankValues
  <2> QED
    BY <1>1, <2>3, <2>4 DEF BuiltInv
<1>9. CASE CopySources
  <2>1. Head(step) = "sources" /\ files' = Put({"app"} \X Sources, "context")
    BY <1>9 DEF CopySources, At
  <2>2. \A n \in Name : files'[<<"app", n>>] = IF n \in Sources THEN "context"
                                              ELSE files[<<"app", n>>]
    BY <1>4, <2>1 DEF Put
  <2>3. Left("finish")' /\ (~ Left("deps")' => ~ Left("deps"))
    BY <1>1, <1>2, <1>3, <2>1, StillLeft, RankValues
  <2>4. /\ "deps" \notin Sources => files'[<<"app", "deps">>] = files[<<"app", "deps">>]
        /\ "main" \in Sources => files'[<<"app", "main">>] = "context"
    BY <1>5, <2>2
  <2> QED
    BY <1>1, <1>2, <2>3, <2>4 DEF BuiltInv
<1>10. CASE Finish
  <2>1. /\ Head(step) = "finish"
        /\ files' = IF def.command THEN Put({<<"app", "built">>}, "made") ELSE files
    BY <1>10 DEF Finish, At
  <2>2. \A n \in Name :
          files'[<<"app", n>>] = IF def.command /\ n = "built" THEN "made"
                                 ELSE files[<<"app", n>>]
    BY <1>4, <2>1 DEF Put
  <2>3. /\ files'[<<"app", "deps">>] = files[<<"app", "deps">>]
        /\ files'[<<"app", "main">>] = files[<<"app", "main">>]
        /\ def.command => files'[<<"app", "built">>] = "made"
    BY <1>5, <2>2
  <2>4. /\ ~ Left("deps")' => ~ Left("deps")
        /\ ~ Left("sources")' => ~ Left("sources")
    BY <1>2, <2>1
  <2> QED
    BY <1>1, <1>2, <2>3, <2>4 DEF BuiltInv
<1>11. CASE \/ StartFromBase \/ InstallPackages \/ InstallExtensions \/ CopyExternalFiles
            \/ InstallGlobals \/ SetImageMetadata
  <2>1. /\ files' = files
        /\ Head(step) \notin {"deps", "sources", "finish"}
    BY <1>11 DEF StartFromBase, InstallPackages, InstallExtensions, CopyExternalFiles,
       InstallGlobals, SetImageMetadata, At
  <2> QED
    BY <1>1, <1>2, <2>1 DEF BuiltInv
<1> QED
  BY <1>6, <1>7, <1>8, <1>9, <1>10, <1>11 DEF Building

LEMMA AssetsNext ==
  StateApart /\ AssetsApart /\ AssetsInv /\ [Next]_vars => AssetsInv'
<1> SUFFICES ASSUME StateApart, AssetsApart, AssetsInv, [Next]_vars PROVE AssetsInv'
  OBVIOUS
<1>1. /\ StateInv' /\ TypeInv /\ <<def, type>> \in Inputs /\ def \in ADefinition
  BY StateNext, InputsTyped DEF AssetsInv, StateInv, TypeInv
<1>2. CASE Building
  <2>1. def' = def /\ site' = site
    BY <1>2 DEF Building, StartFromBase, InstallPackages, InstallExtensions,
       CopyExternalFiles, MakeDirs, CopyConfigFiles, InstallGlobals, InstallDeps, CopySources,
       Finish, SetImageMetadata, Build, request
  <2>2. def.web # None => Left("web-assets")' /\ Left("web-base")'
    BY <1>1, <1>2, StageSteps, StepsLeft DEF TypeInv, Left
  <2> QED
    BY <1>1, <1>2, <2>1, <2>2, BuiltBuilding DEF AssetsInv
<1>3. CASE Serving
  <2>1. /\ UNCHANGED <<def, type, files, cwd>>
        /\ step' = Tail(step) \/ step' = <<>>
    BY <1>3 DEF Serving, StartWebserver, InstallSitePackages, CopySiteConfig, CopyAssets,
       BuildSite, request
  <2>2. /\ def.web # None /\ step # <<>>
        /\ ~ Left("deps") /\ ~ Left("sources") /\ ~ Left("finish")
    BY <1>1, <1>3, SiteSteps
  <2>3. /\ \A x : Has(Tail(step), x) <=> Left(x) /\ x # Head(step)
        /\ \A x : Left(x) <=> Planned(def, x) /\ Rank(def, x) >= Rank(def, Head(step))
    BY <1>1, <2>2, StepsLeft DEF TypeInv
  <2>4. BuiltInv'
    BY <2>1, <2>2 DEF AssetsInv, BuiltInv, Sources, Included, Excluded
  <2>5. CASE StartWebserver
    <3>1. /\ At("web-base")
          /\ IF def.kind = "webserver" /\ def.web.assets # <<>>
               THEN step' = <<>> /\ UNCHANGED site
               ELSE step' = Tail(step)
      BY <2>5 DEF StartWebserver
    <3>2. def.kind # "webserver" => Left("web-assets")'
      <4>1. Planned(def, "web-assets")
        BY <2>2 DEF Planned
      <4>2. Rank(def, "web-assets") = 16 /\ Rank(def, "web-base") = 13
        BY RankValues
      <4>3. Has(Tail(step), "web-assets")
        BY <1>1, <2>2, <3>1, <4>1, <4>2, TailLeft DEF At
      <4> QED
        BY <3>1, <4>3 DEF Left
    <3> QED
      BY <1>1, <2>1, <2>2, <2>4, <3>1, <3>2 DEF AssetsInv
  <2>6. ASSUME ~ StartWebserver PROVE step' = Tail(step) /\ Head(step) # "web-base"
    BY <1>3, <2>6 DEF Serving, InstallSitePackages, CopySiteConfig, CopyAssets, BuildSite, At
  <2>7. ASSUME ~ StartWebserver
        PROVE  /\ def.kind = "webserver" => def.web.assets = <<>>
               /\ step' # <<>> /\ def.kind = "webserver" => def.web.assets = <<>>
    <3>1. ~ Left("web-base")
      BY <1>1, <1>3, <2>6, <2>7, SiteSteps DEF At
    <3> QED
      BY <2>2, <3>1 DEF AssetsInv
  <2>8. CASE InstallSitePackages \/ CopySiteConfig
    <3>1. Head(step) \in {"web-packages", "web-config"} /\ ~ StartWebserver
      BY <2>8 DEF InstallSitePackages, CopySiteConfig, StartWebserver, At
    <3>2. Left("web-assets")'
      <4>1. Planned(def, "web-assets")
        BY <2>2 DEF Planned
      <4>2. Rank(def, "web-assets") = 16 /\ Rank(def, Head(step)) \in 14..15
        BY <3>1, RankValues
      <4>3. Has(Tail(step), "web-assets")
        BY <1>1, <2>2, <4>1, <4>2, TailLeft
      <4> QED
        BY <2>6, <3>1, <4>3 DEF Left
    <3> QED
      BY <1>1, <2>1, <2>2, <2>4, <2>7, <3>1, <3>2 DEF AssetsInv
  <2>9. CASE CopyAssets
    <3> DEFINE A(n) == CHOOSE a \in ToSet(def.web.assets) : a[2] = n
    <3>1. PICK content :
            /\ BuildSite(SiteAssets, content)
            /\ content = [n \in Name |->
                  IF \E a \in ToSet(def.web.assets) : a[2] = n
                    THEN files[Resolve(cwd, A(n))]
                    ELSE site.files[n]]
      BY <2>9, SiteOfSteps
    <3>2. ~ StartWebserver
      BY <2>9 DEF CopyAssets, StartWebserver, At
    <3>3. ASSUME NEW a \in ToSet(def.web.assets)
          PROVE  site'.files[a[2]] = files[Resolve(cwd, a)]
      <4>1. a[2] \in Name
        BY <1>1, <2>2, AssetTyped
      <4>2. A(a[2]) \in ToSet(def.web.assets) /\ A(a[2])[2] = a[2]
        OBVIOUS
      <4>3. \A b \in ToSet(def.web.assets) : b[2] = a[2] => b = a
        <5> DEFINE i == <<def, type>>
        <5>1. i \in Inputs /\ i[1] = def
          BY <1>1
        <5> HIDE DEF i
        <5> QED
          BY <2>2, <5>1 DEF AssetsApart
      <4>4. A(a[2]) = a
        <5> HIDE DEF A
        <5> QED
          BY <4>2, <4>3
      <4>5. site'.files = content
        BY <3>1 DEF BuildSite
      <4> HIDE DEF A
      <4> QED
        BY <3>1, <4>1, <4>4, <4>5
    <3>4. def' = def /\ \A a \in ToSet(def.web.assets) :
                         site'.files[a[2]] = files'[Resolve(cwd', a)]
      BY <2>1, <3>3 DEF Resolve
    <3>5. (\A a \in ToSet(def.web.assets) : site.files[a[2]] = files[Resolve(cwd, a)])'
      BY <3>4 DEF Resolve
    <3> QED
      BY <1>1, <2>1, <2>2, <2>4, <2>7, <3>2, <3>5 DEF AssetsInv
  <2> QED
    BY <1>3, <2>5, <2>8, <2>9 DEF Serving
<1>4. CASE (\E n \in Name : Edit(n)) \/ UNCHANGED vars
  <2>1. UNCHANGED <<def, type, files, cwd, site, step>>
    BY <1>4 DEF Edit, vars, request
  <2> QED
    BY <1>1, <2>1 DEF AssetsInv, BuiltInv, Left, Sources, Included, Excluded
<1>5. CASE Again
  <2>1. def' = def /\ site' = None /\ step' = Steps(def)
    BY <1>5 DEF Again, request
  <2>2. \A x : Left(x)' <=> Planned(def, x)
    BY <1>1, <2>1, StepsOrdered DEF Left
  <2>3. def.kind # "webserver" /\ ~ def.dev =>
          Left("deps")' /\ Left("sources")' /\ Left("finish")'
    BY <1>1, <2>2 DEF Planned, ADefinition
  <2>4. def.web # None => Left("web-base")'
    BY <2>2 DEF Planned
  <2> QED
    BY <1>1, <2>1, <2>3, <2>4 DEF AssetsInv, BuiltInv
<1> QED
  BY <1>2, <1>3, <1>4, <1>5 DEF Next, Building, Serving

\* The assets a webserver is built with are what the stage of the application ends with
\* at these paths: what its commands made, the dependencies it installed, its sources,
\* and nothing of the context where it keeps state.
THEOREM AssetsAreOfTheStage ==
  ASSUME StateApart, AssetsApart
  PROVE  Spec => []AssetsFromStage
<1>1. Spec => []AssetsInv
  BY AssetsInit, AssetsNext, PTL DEF Spec
<1> QED
  BY <1>1, AssetsChecked, PTL

-----------------------------------------------------------------------------
(* The layers of a build, apart from the versions of what they copy.  They *)
(* depend on the definition and on the options alone, when nothing is left *)
(* to the order of a map.                                                  *)

OneOrder ==
  \A i \in Inputs :
    /\ \A a, b \in i[1].extensions \cap {"gd", "imap"} : a = b
    /\ \A a, b \in i[1].globals : a = b

NamesOf(digest) == {c[1] : c \in digest}
Outline(l) == [op |-> l.op, args |-> l.args, ignore |-> l.ignore, names |-> NamesOf(l.digest)]
Outlines(ls) == [i \in DOMAIN ls |-> Outline(ls[i])]
Outlined == [op : Op, args : Seq(Argument), ignore : BOOLEAN, names : SUBSET Name]

\* c tells, for every number of steps, what a build has after them.
Story(n, parts, c) ==
  /\ c \in [0..n -> Seq(Outlined)]
  /\ c[0] = <<>>
  /\ \A k \in 1..n : c[k] = c[k - 1] \o parts[k]

LEMMA LeastNatural ==
  ASSUME NEW T \in SUBSET Nat, T # {}
  PROVE  \E i \in T : \A j \in T : i <= j
<1> DEFINE Less == OpToRel(<, Nat)
<1>1. \E i \in T : \A j \in T : <<j, i>> \notin Less
  BY NatLessThanWellFounded, WFMin
<1>2. ASSUME NEW i \in Nat, NEW j \in Nat, j < i PROVE <<j, i>> \in Less
  <2> DEFINE ss == <<j, i>>
  <2>1. ss \in Nat \X Nat /\ ss[1] < ss[2]
    BY <1>2
  <2> QED
    BY <2>1, Zenon DEF OpToRel
<1> HIDE DEF Less
<1>3. ASSUME NEW i \in T, NEW j \in T, ~ (j < i) PROVE i <= j
  BY <1>3
<1> QED
  BY <1>1, <1>2, <1>3

LEMMA ConcatFacts ==
  ASSUME NEW S, NEW s \in Seq(S), NEW t \in Seq(S)
  PROVE  /\ s \o t \in Seq(S) /\ Len(s \o t) = Len(s) + Len(t)
         /\ \A x \in 1..Len(s) : x \in 1..Len(s \o t) /\ (s \o t)[x] = s[x]
         /\ \A x \in 1..Len(t) : x + Len(s) \in 1..Len(s \o t) /\ (s \o t)[x + Len(s)] = t[x]
         /\ \A x \in 1..Len(s \o t) :
              \/ x \in 1..Len(s) /\ (s \o t)[x] = s[x]
              \/ x > Len(s) /\ x - Len(s) \in 1..Len(t) /\ (s \o t)[x] = t[x - Len(s)]
<1> DEFINE u == s \o t
<1>1. u \in Seq(S) /\ Len(u) = Len(s) + Len(t) /\ Len(s) \in Nat /\ Len(t) \in Nat
  OBVIOUS
<1>2. \A x \in 1..Len(s) + Len(t) : u[x] = IF x <= Len(s) THEN s[x] ELSE t[x - Len(s)]
  BY ConcatProperties
<1> HIDE DEF u
<1>3. \A x \in 1..Len(s) : x \in 1..Len(u) /\ u[x] = s[x]
  BY <1>1, <1>2
<1>4. ASSUME NEW x \in 1..Len(t)
      PROVE  x + Len(s) \in 1..Len(u) /\ u[x + Len(s)] = t[x]
  <2> DEFINE m == Len(s)  n == Len(t)  y == x + m
  <2>1. m \in Nat /\ n \in Nat /\ x \in 1..n /\ Len(u) = m + n
    BY <1>1
  <2> HIDE DEF m, n
  <2>2. y \in 1..m + n /\ ~ (y <= m) /\ y - m = x
    BY <2>1
  <2> HIDE DEF y
  <2>3. u[y] = t[y - m]
    BY <1>2, <2>2 DEF m, n
  <2> QED
    BY <2>1, <2>2, <2>3 DEF m, y
<1>5. \A x \in 1..Len(u) :
        \/ x \in 1..Len(s) /\ u[x] = s[x]
        \/ x > Len(s) /\ x - Len(s) \in 1..Len(t) /\ u[x] = t[x - Len(s)]
  BY <1>1, <1>2
<1> QED
  BY <1>1, <1>3, <1>4, <1>5 DEF u

\* By the least number of steps that would have no story.
LEMMA StoryExists ==
  ASSUME NEW n \in Nat, NEW parts \in [1..n -> Seq(Outlined)]
  PROVE  \E c : Story(n, parts, c)
<1> DEFINE bad == {m \in 0..n : ~ \E c : Story(m, parts, c)}
<1>1. ASSUME bad # {} PROVE FALSE
  <2>1. bad \in SUBSET Nat
    OBVIOUS
  <2>2. PICK m \in bad : \A j \in bad : m <= j
    BY <1>1, <2>1, LeastNatural
  <2>3. m \in 0..n /\ ~ \E c : Story(m, parts, c)
    OBVIOUS
  <2>4. m # 0
    <3> SUFFICES ASSUME m = 0 PROVE FALSE
      OBVIOUS
    <3> DEFINE e == [k \in 0..0 |-> <<>>]
    <3>1. e \in [0..0 -> Seq(Outlined)] /\ e[0] = <<>>
      OBVIOUS
    <3>2. 1..0 = {}
      OBVIOUS
    <3> HIDE DEF e
    <3>3. Story(0, parts, e)
      BY <3>1, <3>2 DEF Story
    <3> QED
      BY <2>3, <3>3
  <2>5. m - 1 \in 0..n /\ ~ (m <= m - 1)
    BY <2>3, <2>4
  <2>6. PICK c : Story(m - 1, parts, c)
    <3>1. m - 1 \notin bad
      <4> HIDE DEF bad
      <4> QED
        BY <2>2, <2>5
    <3> QED
      BY <2>5, <3>1
  <2> DEFINE e == [k \in 0..m |-> IF k = m THEN c[m - 1] \o parts[m] ELSE c[k]]
  <2>7. /\ c \in [0..(m - 1) -> Seq(Outlined)] /\ c[0] = <<>>
        /\ \A k \in 1..(m - 1) : c[k] = c[k - 1] \o parts[k]
    BY <2>6 DEF Story
  <2>8. c[m - 1] \in Seq(Outlined) /\ parts[m] \in Seq(Outlined)
    BY <2>3, <2>4, <2>7
  <2>9. c[m - 1] \o parts[m] \in Seq(Outlined)
    BY <2>8
  <2>10. \A k \in 0..m : k # m => k \in 0..(m - 1) /\ c[k] \in Seq(Outlined)
    BY <2>3, <2>7
  <2>11. e \in [0..m -> Seq(Outlined)]
    BY <2>9, <2>10
  <2>12. \A k \in 0..m : e[k] = IF k = m THEN c[m - 1] \o parts[m] ELSE c[k]
    OBVIOUS
  <2> HIDE DEF e
  <2>13. e[0] = <<>>
    BY <2>3, <2>4, <2>7, <2>12
  <2>14. ASSUME NEW k \in 1..m PROVE e[k] = e[k - 1] \o parts[k]
    <3>1. k \in 0..m /\ k - 1 \in 0..m /\ k - 1 # m
      BY <2>3
    <3>2. e[k - 1] = c[k - 1]
      BY <2>12, <3>1
    <3>3. CASE k = m
      BY <2>12, <3>1, <3>2, <3>3
    <3>4. CASE k # m
      <4>1. k \in 1..(m - 1)
        BY <2>3, <3>4
      <4> QED
        BY <2>7, <2>12, <3>1, <3>2, <3>4, <4>1
    <3> QED
      BY <3>3, <3>4
  <2>15. Story(m, parts, e)
    BY <2>11, <2>13, <2>14 DEF Story
  <2> QED
    BY <2>3, <2>15
<1>2. n \in 0..n /\ n \notin bad
  BY <1>1
<1> QED
  BY <1>2

\* What a build has after some steps, it has after more of them.
LEMMA StoryGrows ==
  ASSUME NEW n \in Nat, NEW parts \in [1..n -> Seq(Outlined)], NEW c, Story(n, parts, c),
         NEW i \in 0..n, NEW j \in 0..n, i <= j
  PROVE  /\ Len(c[i]) <= Len(c[j])
         /\ \A x \in 1..Len(c[i]) : x \in 1..Len(c[j]) /\ c[j][x] = c[i][x]
<1> DEFINE Holds(m) == \A x \in 1..Len(c[i]) : x \in 1..Len(c[m]) /\ c[m][x] = c[i][x]
           bad == {m \in i..n : ~ Holds(m)}
<1>1. \A m \in 0..n : c[m] \in Seq(Outlined)
  BY DEF Story
<1>2. ASSUME bad # {} PROVE FALSE
  <2>1. bad \in SUBSET Nat
    OBVIOUS
  <2>2. PICK m \in bad : \A k \in bad : m <= k
    BY <1>2, <2>1, LeastNatural
  <2>3. m \in i..n /\ ~ Holds(m)
    OBVIOUS
  <2>4. m # i
    BY <2>3
  <2>5. m - 1 \in i..n /\ ~ (m <= m - 1)
    BY <2>3, <2>4
  <2>6. Holds(m - 1)
    <3>1. m - 1 \notin bad
      <4> HIDE DEF bad
      <4> QED
        BY <2>2, <2>5
    <3> QED
      BY <2>5, <3>1
  <2>7. m \in 1..n /\ m - 1 \in 0..n
    BY <2>3, <2>4
  <2>8. c[m] = c[m - 1] \o parts[m] /\ c[m - 1] \in Seq(Outlined) /\ parts[m] \in Seq(Outlined)
    BY <1>1, <2>7 DEF Story
  <2>9. \A x \in 1..Len(c[m - 1]) : x \in 1..Len(c[m]) /\ c[m][x] = c[m - 1][x]
    <3> DEFINE s == c[m - 1]  t == parts[m]
    <3>1. s \in Seq(Outlined) /\ t \in Seq(Outlined) /\ c[m] = s \o t
      BY <2>8
    <3> HIDE DEF s, t
    <3>2. \A x \in 1..Len(s) : x \in 1..Len(s \o t) /\ (s \o t)[x] = s[x]
      BY <3>1, ConcatFacts
    <3> QED
      BY <3>1, <3>2 DEF s
  <2> QED
    BY <2>3, <2>6, <2>9
<1>3. Holds(j)
  <2>1. j \in i..n
    OBVIOUS
  <2>2. j \notin bad
    <3> HIDE DEF bad
    <3> QED
      BY <1>2
  <2> QED
    BY <2>1, <2>2
<1>4. Len(c[i]) \in Nat /\ Len(c[j]) \in Nat
  BY <1>1
<1>5. Len(c[i]) <= Len(c[j])
  <2>1. CASE Len(c[i]) = 0
    BY <1>4, <2>1
  <2>2. CASE Len(c[i]) # 0
    <3>1. Len(c[i]) \in 1..Len(c[i])
      BY <1>4, <2>2
    <3>2. Len(c[i]) \in 1..Len(c[j])
      BY <1>3, <3>1
    <3> DEFINE short == Len(c[i])  long == Len(c[j])
    <3>3. short \in 1..long /\ long \in Nat
      BY <1>4, <3>2
    <3> HIDE DEF short, long
    <3>4. short <= long
      BY <3>3
    <3> QED
      BY <3>4 DEF short, long
  <2> QED
    BY <2>1, <2>2
<1> QED
  BY <1>3, <1>5

\* The layers a step adds; the lists of a set are all the same.
LayersAt(x, w) ==
  IF x = "base" THEN Base
  ELSE IF x = "packages" THEN Packages(def.packages)
  ELSE IF x = "extensions" THEN Extensions(SetToSeq(def.extensions \cap {"gd", "imap"}))
  ELSE IF x = "external" THEN External
  ELSE IF x = "dirs" THEN Dirs
  ELSE IF x = "config" THEN Config(w)
  ELSE IF x = "globals" THEN Globals(SetToSeq(def.globals))
  ELSE IF x = "deps" THEN Deps(w)
  ELSE IF x = "sources" THEN Copies(w)
  ELSE IF x = "finish" THEN End
  ELSE <<>>

SiteLayersAt(x, w) ==
  IF x = "web-packages" THEN Packages(def.web.packages)
  ELSE IF x = "web-config" THEN SiteConfig(w)
  ELSE IF x = "web-assets" THEN SiteAssets
  ELSE <<>>

LEMMA SomeList ==
  ASSUME NEW S, IsFiniteSet(S)
  PROVE  SetToSeq(S) \in SetToSeqs(S)
<1>1. \E f \in [1..Cardinality(S) -> S] : IsInjective(f)
  <2>1. Cardinality(S) \in Nat /\ ExistsBijection(1..Cardinality(S), S)
    BY FS_CardinalityType
  <2> QED
    BY <2>1 DEF ExistsBijection, Bijection, Injection, IsInjective
<1>2. SetToSeq(S) \in [1..Cardinality(S) -> S] /\ IsInjective(SetToSeq(S))
  BY <1>1 DEF SetToSeq
<1>3. \A i, j \in 1..Cardinality(S) : i # j => SetToSeq(S)[i] # SetToSeq(S)[j]
  BY <1>2 DEF IsInjective
<1> QED
  BY <1>2, <1>3 DEF SetToSeqs

\* The two lists the code leaves to a map.
LEMMA ListsOfMaps ==
  ASSUME <<def, type>> \in Inputs
  PROVE  LET extensions == def.extensions \cap {"gd", "imap"}
         IN  /\ SetToSeq(extensions) \in SetToSeqs(extensions)
             /\ SetToSeq(def.globals) \in SetToSeqs(def.globals)
             /\ OneOrder => \A o \in SetToSeqs(extensions) : o = SetToSeq(extensions)
             /\ OneOrder => \A o \in SetToSeqs(def.globals) : o = SetToSeq(def.globals)
<1> DEFINE extensions == def.extensions \cap {"gd", "imap"}
<1>1. IsFiniteSet(extensions) /\ IsFiniteSet(def.globals)
  <2>1. IsFiniteSet(def.extensions) /\ IsFiniteSet(def.globals)
    BY DefinitionTyped
  <2> QED
    BY <2>1, FS_Subset
<1>2. SetToSeq(extensions) \in SetToSeqs(extensions) /\ SetToSeq(def.globals) \in SetToSeqs(def.globals)
  <2> HIDE DEF extensions
  <2> QED
    BY <1>1, SomeList
<1>3. OneOrder => /\ \A a, b \in extensions : a = b
                  /\ \A a, b \in def.globals : a = b
  <2> DEFINE i == <<def, type>>
  <2>1. i \in Inputs /\ i[1] = def
    OBVIOUS
  <2> HIDE DEF i
  <2> QED
    BY <2>1 DEF OneOrder
<1> HIDE DEF extensions
<1>4. /\ OneOrder => \A o \in SetToSeqs(extensions) : o = SetToSeq(extensions)
      /\ OneOrder => \A o \in SetToSeqs(def.globals) : o = SetToSeq(def.globals)
  BY <1>1, <1>2, <1>3, OneList
<1> QED
  BY <1>2, <1>4 DEF extensions

LEMMA BuildingAdds ==
  ASSUME OneOrder, TypeInv, Building
  PROVE  layers' = layers \o LayersAt(Head(step), versions)
<1>1. <<def, type>> \in Inputs
  BY DEF TypeInv
<1>2. ASSUME NEW new, Build(new) PROVE layers' = layers \o new
  BY <1>2 DEF Build
<1>3. CASE InstallExtensions
  BY <1>1, <1>2, <1>3, LayersOfSteps, ListsOfMaps DEF At, LayersAt
<1>4. CASE InstallGlobals
  BY <1>1, <1>2, <1>4, LayersOfSteps, ListsOfMaps DEF At, LayersAt
<1>5. CASE StartFromBase \/ InstallPackages \/ CopyExternalFiles \/ MakeDirs
  BY <1>2, <1>5, LayersOfSteps DEF At, LayersAt
<1>6. CASE CopyConfigFiles \/ InstallDeps \/ CopySources \/ Finish \/ SetImageMetadata
  BY <1>2, <1>6, LayersOfSteps DEF At, LayersAt
<1> QED
  BY <1>3, <1>4, <1>5, <1>6 DEF Building

\* A webserver without an application has nothing to copy assets from.
Stuck == def.kind = "webserver" /\ def.web.assets # <<>>

LEMMA ServingAdds ==
  ASSUME TypeInv, Serving
  PROVE  /\ layers' = layers
         /\ \/ At("web-base") /\ Stuck /\ step' = <<>> /\ site' = site
            \/ At("web-base") /\ ~ Stuck /\ step' = Tail(step) /\ site'.layers = <<>>
            \/ /\ ~ At("web-base") /\ step' = Tail(step)
               /\ site'.layers = site.layers \o SiteLayersAt(Head(step), versions)
<1>1. layers' = layers
  BY DEF Serving, StartWebserver, InstallSitePackages, CopySiteConfig, CopyAssets, BuildSite
<1>2. CASE StartWebserver
  <2> DEFINE start == [layers |-> <<>>, files |-> [n \in Name |-> "nothing"]]
  <2>1. /\ At("web-base")
        /\ IF Stuck THEN step' = <<>> /\ site' = site ELSE step' = Tail(step) /\ site' = start
    BY <1>2 DEF StartWebserver, Stuck
  <2>2. start.layers = <<>>
    OBVIOUS
  <2> HIDE DEF start
  <2> QED
    BY <1>1, <2>1, <2>2
<1>3. ASSUME NEW new, NEW content, BuildSite(new, content)
      PROVE  step' = Tail(step) /\ site'.layers = site.layers \o new
  BY <1>3 DEF BuildSite
<1>4. CASE InstallSitePackages \/ CopySiteConfig \/ CopyAssets
  <2>1. /\ Head(step) \in {"web-packages", "web-config", "web-assets"}
        /\ \E content : BuildSite(SiteLayersAt(Head(step), versions), content)
    BY <1>4, SiteOfSteps DEF At, SiteLayersAt
  <2>2. ~ At("web-base")
    BY <2>1 DEF At
  <2> QED
    BY <1>1, <1>3, <2>1, <2>2
<1> QED
  BY <1>2, <1>4 DEF Serving

Fresh == [n \in Name |-> 0]

LEMMA FreshTyped == Fresh \in Versions
BY ImageAssumption DEF Fresh, Versions

LEMMA LayersAtTyped ==
  ASSUME <<def, type>> \in Inputs, Asked,
         NEW w \in Versions, NEW x
  PROVE  LayersAt(x, w) \in Seq(Layer)
<1>1. /\ Extensions(SetToSeq(def.extensions \cap {"gd", "imap"})) \in Seq(Layer)
      /\ Globals(SetToSeq(def.globals)) \in Seq(Layer)
  BY ListsOfMaps, LayersTyped
<1>2. <<>> \in Seq(Layer)
  OBVIOUS
<1> QED
  BY <1>1, <1>2, LayersTyped DEF LayersAt

LEMMA SiteLayersAtTyped ==
  ASSUME <<def, type>> \in Inputs, Asked,
         NEW w \in Versions, NEW x, def.web # None
  PROVE  SiteLayersAt(x, w) \in Seq(Layer)
BY SiteTyped DEF SiteLayersAt

LEMMA OutlinesTyped ==
  ASSUME NEW ls \in Seq(Layer)
  PROVE  /\ Outlines(ls) \in Seq(Outlined) /\ Len(Outlines(ls)) = Len(ls)
         /\ \A i \in 1..Len(ls) : Outlines(ls)[i] = Outline(ls[i])
<1>1. ASSUME NEW l \in Layer PROVE Outline(l) \in Outlined
  <2>1. /\ l.op \in Op /\ l.args \in Seq(Argument) /\ l.ignore \in BOOLEAN
        /\ l.digest \in SUBSET (Name \X (0..MaxEdits))
    BY DEF Layer, Op
  <2>2. NamesOf(l.digest) \in SUBSET Name
    BY <2>1 DEF NamesOf
  <2> QED
    BY <2>1, <2>2 DEF Outline, Outlined
<1>2. \A i \in DOMAIN ls : ls[i] \in Layer
  OBVIOUS
<1>3. Outlines(ls) \in [DOMAIN ls -> Outlined]
  BY <1>1, <1>2 DEF Outlines
<1>4. DOMAIN ls = 1..Len(ls)
  OBVIOUS
<1>5. \A i \in 1..Len(ls) : Outlines(ls)[i] = Outline(ls[i])
  BY <1>4 DEF Outlines
<1> QED
  BY <1>3, <1>5, MapTyped

LEMMA OutlinesConcat ==
  ASSUME NEW s \in Seq(Layer), NEW t \in Seq(Layer)
  PROVE  Outlines(s \o t) = Outlines(s) \o Outlines(t)
<1> DEFINE u == s \o t  a == Outlines(s)  b == Outlines(t)
<1>1. /\ u \in Seq(Layer) /\ Len(u) = Len(s) + Len(t)
      /\ Len(s) \in Nat /\ Len(t) \in Nat
      /\ \A x \in 1..Len(u) :
              \/ x \in 1..Len(s) /\ u[x] = s[x]
              \/ x > Len(s) /\ x - Len(s) \in 1..Len(t) /\ u[x] = t[x - Len(s)]
  BY ConcatFacts
<1>2. /\ a \in Seq(Outlined) /\ Len(a) = Len(s) /\ b \in Seq(Outlined) /\ Len(b) = Len(t)
      /\ \A i \in 1..Len(s) : a[i] = Outline(s[i])
      /\ \A i \in 1..Len(t) : b[i] = Outline(t[i])
  BY OutlinesTyped
<1>3. Outlines(u) \in Seq(Outlined) /\ Len(Outlines(u)) = Len(u)
      /\ \A i \in 1..Len(u) : Outlines(u)[i] = Outline(u[i])
  BY <1>1, OutlinesTyped
<1> DEFINE v == a \o b  o == Outlines(u)
<1> HIDE DEF u, a, b
<1>4. /\ v \in Seq(Outlined) /\ Len(v) = Len(a) + Len(b)
      /\ \A x \in 1..Len(v) :
              \/ x \in 1..Len(a) /\ v[x] = a[x]
              \/ x > Len(a) /\ x - Len(a) \in 1..Len(b) /\ v[x] = b[x - Len(a)]
  <2>1. a \in Seq(Outlined) /\ b \in Seq(Outlined)
    BY <1>2
  <2> QED
    BY <2>1, ConcatFacts
<1> HIDE DEF v
<1>5. Len(v) = Len(u) /\ Len(u) \in Nat
  BY <1>1, <1>2, <1>4
<1>6. ASSUME NEW x \in 1..Len(u) PROVE o[x] = v[x]
  <2>1. CASE x \in 1..Len(s)
    <3>1. u[x] = s[x]
      BY <1>1, <2>1
    <3>2. v[x] = a[x]
      BY <1>2, <1>4, <1>5, <2>1
    <3> QED
      BY <1>2, <1>3, <2>1, <3>1, <3>2
  <2>2. CASE x > Len(s)
    <3>1. x - Len(s) \in 1..Len(t) /\ u[x] = t[x - Len(s)]
      BY <1>1, <2>2
    <3>2. v[x] = b[x - Len(a)]
      BY <1>2, <1>4, <1>5, <2>2
    <3> QED
      BY <1>2, <1>3, <3>1, <3>2
  <2> QED
    BY <1>1, <2>1, <2>2
<1> HIDE DEF o
<1>7. o \in Seq(Outlined) /\ v \in Seq(Outlined) /\ Len(o) = Len(v)
  BY <1>3, <1>4, <1>5 DEF o
<1>8. o = v
  <2>1. DOMAIN o = 1..Len(u) /\ DOMAIN v = 1..Len(u)
    BY <1>5, <1>7
  <2> QED
    BY <1>6, <1>7, <2>1
<1> QED
  BY <1>8 DEF o, u, v, a, b

LEMMA OutlineOfCopy ==
  ASSUME Asked, NEW names \in SUBSET Name,
         NEW args, NEW w
  PROVE  Outline(CopyOf(names, args, w)) =
           [op |-> "copy", args |-> args, ignore |-> opts.ignore, names |-> names]
<1> DEFINE digest == {<<n, w[n]>> : n \in names}
<1>1. CopyOf(names, args, w) =
        [op |-> "copy", args |-> args, digest |-> digest, ignore |-> opts.ignore]
  BY DEF CopyOf, Run
<1>2. NamesOf(digest) = names
  <2>1. ASSUME NEW n \in names PROVE n \in NamesOf(digest)
    <3>1. <<n, w[n]>> \in digest /\ <<n, w[n]>>[1] = n
      OBVIOUS
    <3> HIDE DEF digest
    <3> QED
      BY <3>1 DEF NamesOf
  <2>2. ASSUME NEW n \in NamesOf(digest) PROVE n \in names
    BY DEF NamesOf
  <2> QED
    BY <2>1, <2>2
<1> HIDE DEF digest
<1> QED
  BY <1>1, <1>2 DEF Outline

\* What a step adds is the same whatever the versions of the context.
LEMMA SameOutline ==
  ASSUME <<def, type>> \in Inputs, Asked,
         NEW w \in Versions, NEW v \in Versions, NEW x
  PROVE  /\ Outlines(LayersAt(x, w)) = Outlines(LayersAt(x, v))
         /\ Outlines(SiteLayersAt(x, w)) = Outlines(SiteLayersAt(x, v))
<1>1. ASSUME NEW names \in SUBSET Name, NEW args
      PROVE  Outline(CopyOf(names, args, w)) = Outline(CopyOf(names, args, v))
  BY OutlineOfCopy
<1>2. Outlines(Config(w)) = Outlines(Config(v))
  <2> DEFINE dests == SetToSeq(def.config)
  <2>1. \A i \in DOMAIN dests :
          Outline(CopyOf({"dist"}, dests[i], w)) = Outline(CopyOf({"dist"}, dests[i], v))
    BY <1>1 DEF Name
  <2>2. /\ Outlines(Config(w)) = [i \in DOMAIN dests |-> Outline(CopyOf({"dist"}, dests[i], w))]
        /\ Outlines(Config(v)) = [i \in DOMAIN dests |-> Outline(CopyOf({"dist"}, dests[i], v))]
    BY DEF Outlines, Config
  <2> HIDE DEF dests
  <2> QED
    BY <2>1, <2>2
<1>3. Outlines(SiteConfig(w)) = Outlines(SiteConfig(v))
  <2> DEFINE dests == SetToSeq(def.web.config)
  <2>1. \A i \in DOMAIN dests :
          Outline(CopyOf({"dist"}, <<dests[i]>>, w)) = Outline(CopyOf({"dist"}, <<dests[i]>>, v))
    BY <1>1 DEF Name
  <2>2. /\ Outlines(SiteConfig(w)) = [i \in DOMAIN dests |-> Outline(CopyOf({"dist"}, <<dests[i]>>, w))]
        /\ Outlines(SiteConfig(v)) = [i \in DOMAIN dests |-> Outline(CopyOf({"dist"}, <<dests[i]>>, v))]
    BY DEF Outlines, SiteConfig
  <2> HIDE DEF dests
  <2> QED
    BY <2>1, <2>2
<1>4. Outlines(Deps(w)) = Outlines(Deps(v))
  <2> DEFINE m(u) == [i \in DOMAIN Manifests |-> CopyOf({"manifest"}, <<Manifests[i]>>, u)]
             run == <<Run("deps", Tool)>>
  <2>1. Outlines(m(w)) = Outlines(m(v))
    <3>1. \A i \in DOMAIN Manifests :
            Outline(CopyOf({"manifest"}, <<Manifests[i]>>, w))
              = Outline(CopyOf({"manifest"}, <<Manifests[i]>>, v))
      BY <1>1 DEF Name
    <3>2. \A u : Outlines(m(u)) = [i \in DOMAIN Manifests |->
                                     Outline(CopyOf({"manifest"}, <<Manifests[i]>>, u))]
      BY DEF Outlines
    <3> HIDE DEF m
    <3> QED
      BY <3>1, <3>2
  <2>2. m(w) \in Seq(Layer) /\ m(v) \in Seq(Layer) /\ run \in Seq(Layer)
    BY DepsTyped
  <2>3. Deps(w) = m(w) \o run /\ Deps(v) = m(v) \o run
    BY DEF Deps
  <2> HIDE DEF m, run
  <2>4. Outlines(m(w) \o run) = Outlines(m(w)) \o Outlines(run)
    BY <2>2, OutlinesConcat
  <2>5. Outlines(m(v) \o run) = Outlines(m(v)) \o Outlines(run)
    BY <2>2, OutlinesConcat
  <2> QED
    BY <2>1, <2>3, <2>4, <2>5
<1>5. Outlines(Copies(w)) = Outlines(Copies(v))
  <2>1. Sources \in SUBSET Name
    BY DefinitionTyped DEF Sources, Included
  <2>2. CASE type = "local"
    <3>1. Copies(w) = <<CopyOf(Sources, <<"sources">>, w)>> /\ Copies(v) = <<CopyOf(Sources, <<"sources">>, v)>>
      BY <2>2 DEF Copies
    <3>2. \A l : Outlines(<<l>>) = <<Outline(l)>>
      <4> TAKE l
      <4> DEFINE s == <<l>>  t == <<Outline(l)>>
      <4>1. DOMAIN s = 1..1 /\ s[1] = l /\ t = [i \in 1..1 |-> Outline(l)]
        OBVIOUS
      <4> HIDE DEF s, t
      <4>2. Outlines(s) = t
        BY <4>1 DEF Outlines
      <4> QED
        BY <4>2 DEF s, t
    <3> QED
      BY <1>1, <2>1, <3>1, <3>2
  <2>3. CASE type # "local"
    <3> DEFINE each == SetToSeq(Sources)
    <3>1. each \in Seq(Sources)
      BY <2>1, NamesAreFinite, ListOfSet
    <3>2. \A i \in DOMAIN each : {each[i]} \in SUBSET Name
      BY <2>1, <3>1
    <3>3. \A i \in DOMAIN each :
            Outline(CopyOf({each[i]}, <<each[i]>>, w)) = Outline(CopyOf({each[i]}, <<each[i]>>, v))
      BY <1>1, <3>2
    <3>4. /\ Outlines(Copies(w)) = [i \in DOMAIN each |-> Outline(CopyOf({each[i]}, <<each[i]>>, w))]
          /\ Outlines(Copies(v)) = [i \in DOMAIN each |-> Outline(CopyOf({each[i]}, <<each[i]>>, v))]
      BY <2>3 DEF Outlines, Copies
    <3> HIDE DEF each
    <3> QED
      BY <3>3, <3>4
  <2> QED
    BY <2>2, <2>3
<1> QED
  BY <1>2, <1>3, <1>4, <1>5 DEF LayersAt, SiteLayersAt

-----------------------------------------------------------------------------
(* What is built twice is the same.                                        *)

Told == Len(Steps(def)) - Len(step)
StageParts == [k \in 1..Len(Steps(def)) |-> Outlines(LayersAt(Steps(def)[k], Fresh))]
SiteParts == [k \in 1..Len(Steps(def)) |-> Outlines(SiteLayersAt(Steps(def)[k], Fresh))]
StageStory(c) == Story(Len(Steps(def)), StageParts, c)
SiteStory(c) == Story(Len(Steps(def)), SiteParts, c)

\* There is a webserver to build, and its build ends.
Served == def.web # None /\ ~ Stuck

BeforeInv ==
  before # None =>
    /\ before.stage \in Seq(Layer)
    /\ def.kind = "webserver" => before.stage = <<>>
    /\ def.kind # "webserver" /\ manager = before.manager =>
         \A c : StageStory(c) => Outlines(before.stage) = c[Len(Steps(def))]
    /\ Served =>
         /\ before.site.layers \in Seq(Layer)
         /\ \A c : SiteStory(c) => Outlines(before.site.layers) = c[Len(Steps(def))]

SameInv ==
  /\ TypeInv
  /\ def.kind = "webserver" => layers = <<>>
  /\ def.kind # "webserver" => \A c : StageStory(c) => Outlines(layers) = c[Told]
  /\ site # None => Served /\ ~ Left("web-base")
  /\ Served /\ Left("web-base") => \A c : SiteStory(c) => c[Told] = <<>>
  /\ Served /\ ~ Left("web-base") =>
       /\ site.layers \in Seq(Layer)
       /\ \A c : SiteStory(c) => Outlines(site.layers) = c[Told]
  /\ def.web # None /\ Stuck /\ step # <<>> => Left("web-base")
  /\ BeforeInv

LEMMA StoriesTyped ==
  ASSUME TypeInv
  PROVE  /\ Len(Steps(def)) \in Nat
         /\ StageParts \in [1..Len(Steps(def)) -> Seq(Outlined)]
         /\ def.web # None => SiteParts \in [1..Len(Steps(def)) -> Seq(Outlined)]
         /\ \E c : StageStory(c)
         /\ def.web # None => \E c : SiteStory(c)
<1>1. /\ <<def, type>> \in Inputs /\ Asked
      /\ def \in ADefinition /\ Fresh \in Versions
  BY InputsTyped, FreshTyped DEF TypeInv
<1>2. Len(Steps(def)) \in Nat
  BY <1>1, StepsOrdered DEF Ordered
<1>3. \A x : Outlines(LayersAt(x, Fresh)) \in Seq(Outlined)
  BY <1>1, LayersAtTyped, OutlinesTyped
<1>4. ASSUME def.web # None
      PROVE  \A x : Outlines(SiteLayersAt(x, Fresh)) \in Seq(Outlined)
  BY <1>1, <1>4, SiteLayersAtTyped, OutlinesTyped
<1>5. /\ StageParts \in [1..Len(Steps(def)) -> Seq(Outlined)]
      /\ def.web # None => SiteParts \in [1..Len(Steps(def)) -> Seq(Outlined)]
  BY <1>3, <1>4 DEF StageParts, SiteParts
<1>6. (\E c : StageStory(c)) /\ (def.web # None => \E c : SiteStory(c))
  BY <1>2, <1>5, StoryExists DEF StageStory, SiteStory
<1> QED
  BY <1>2, <1>5, <1>6

\* Where a build is in its steps.
LEMMA ToldOfSteps ==
  ASSUME TypeInv
  PROVE  /\ Told \in 0..Len(Steps(def))
         /\ step = <<>> <=> Told = Len(Steps(def))
         /\ step # <<>> =>
              /\ Told + 1 \in 1..Len(Steps(def)) /\ Steps(def)[Told + 1] = Head(step)
              /\ Len(Steps(def)) - Len(Tail(step)) = Told + 1
<1> DEFINE T == Steps(def)
<1>1. T \in Seq(Step) /\ Len(T) \in Nat
  <2>1. def \in ADefinition
    BY InputsTyped DEF TypeInv
  <2> QED
    BY <2>1, StepsOrdered DEF Ordered
<1>2. PICK k \in 1..Len(T) + 1 : step = SubSeq(T, k, Len(T))
  BY DEF TypeInv, Suffix
<1> HIDE DEF T
<1>3. step \in Seq(Step) /\ Len(step) = Len(T) - k + 1
  BY <1>1, <1>2
<1>4. k = Len(T) - Len(step) + 1
  BY <1>1, <1>3
<1>5. step = <<>> <=> Len(step) = 0
  BY <1>3
<1>6. ASSUME step # <<>>
      PROVE  k \in 1..Len(T) /\ T[k] = Head(step) /\ Len(Tail(step)) = Len(step) - 1
  <2>1. k \in 1..Len(T)
    BY <1>1, <1>3, <1>5, <1>6
  <2> QED
    BY <1>1, <1>2, <1>3, <1>6, <2>1
<1>7. Told = k - 1
  BY <1>1, <1>4, <1>3 DEF Told, T
<1> QED
  BY <1>1, <1>3, <1>5, <1>6, <1>7 DEF T

LEMMA SameChecked == SameInv => SameSteps
<1> SUFFICES ASSUME SameInv, Done, before # None, manager = before.manager PROVE
      /\ Commands(layers) = Commands(before.stage)
      /\ site # None => Commands(site.layers) = Commands(before.site.layers)
  BY DEF SameSteps, SameManager
<1>1. TypeInv /\ Told = Len(Steps(def)) /\ ~ Left("web-base")
  BY ToldOfSteps DEF SameInv, Done, Left, Has
<1>2. ASSUME NEW s \in Seq(Layer), NEW t \in Seq(Layer), Outlines(s) = Outlines(t)
      PROVE  Commands(s) = Commands(t)
  <2>1. DOMAIN s = 1..Len(s) /\ DOMAIN t = 1..Len(t)
    OBVIOUS
  <2>2. /\ Len(Outlines(s)) = Len(s) /\ Len(Outlines(t)) = Len(t)
        /\ \A i \in 1..Len(s) : Outlines(s)[i] = Outline(s[i])
        /\ \A i \in 1..Len(t) : Outlines(t)[i] = Outline(t[i])
    BY OutlinesTyped
  <2>3. \A i \in 1..Len(s) : s[i].op = t[i].op /\ s[i].args = t[i].args
    <3>1. \A i \in 1..Len(s) : Outline(s[i]) = Outline(t[i])
      BY <1>2, <2>2
    <3>2. \A a, b : Outline(a) = Outline(b) => a.op = b.op /\ a.args = b.args
      BY DEF Outline
    <3> QED
      BY <3>1, <3>2
  <2>4. DOMAIN s = DOMAIN t
    BY <1>2, <2>1, <2>2
  <2> QED
    BY <2>1, <2>3, <2>4 DEF Commands
<1>3. layers \in Seq(Layer) /\ before.stage \in Seq(Layer)
  BY <1>1 DEF SameInv, BeforeInv, TypeInv
<1>4. Commands(layers) = Commands(before.stage)
  <2>1. CASE def.kind = "webserver"
    BY <2>1 DEF SameInv, BeforeInv
  <2>2. CASE def.kind # "webserver"
    <3>1. PICK c : StageStory(c)
      BY <1>1, StoriesTyped
    <3> QED
      BY <1>1, <1>2, <1>3, <2>2, <3>1 DEF SameInv, BeforeInv
  <2> QED
    BY <2>1, <2>2
<1>5. ASSUME site # None PROVE Commands(site.layers) = Commands(before.site.layers)
  <2>1. Served /\ site.layers \in Seq(Layer) /\ before.site.layers \in Seq(Layer)
    BY <1>1, <1>5 DEF SameInv, BeforeInv
  <2>2. PICK c : SiteStory(c)
    BY <1>1, <2>1, StoriesTyped DEF Served
  <2> QED
    BY <1>1, <1>2, <2>1, <2>2 DEF SameInv, BeforeInv
<1> QED
  BY <1>4, <1>5

LEMMA SameInit == Init => SameInv
<1> SUFFICES ASSUME Init PROVE SameInv
  OBVIOUS
<1>1. TypeInv /\ def \in ADefinition /\ step = Steps(def)
  BY TypeInit, InputsTyped DEF Init, NothingBuilt, TypeInv
<1>2. Told = 0
  <2>1. Len(Steps(def)) \in Nat
    BY <1>1, StoriesTyped
  <2> QED
    BY <1>1, <2>1 DEF Told
<1>3. layers = <<>> /\ Outlines(<<>>) = <<>> /\ site = None /\ before = None
  BY DEF Init, NothingBuilt, Outlines
<1>4. def.web # None => Left("web-base")
  BY <1>1, StepsOrdered DEF Left, Planned
<1>5. \A c : StageStory(c) \/ SiteStory(c) => c[0] = <<>>
  BY DEF StageStory, SiteStory, Story
<1> QED
  BY <1>1, <1>2, <1>3, <1>4, <1>5 DEF SameInv, BeforeInv, Served

\* A story depends on the definition, on the options and on the package manager.
LEMMA StoriesStay ==
  ASSUME UNCHANGED <<def, type, manager, opts>>
  PROVE  \A c : /\ StageStory(c)' <=> StageStory(c)
                /\ SiteStory(c)' <=> SiteStory(c)
<1>1. \A x : LayersAt(x, Fresh)' = LayersAt(x, Fresh)
  BY DEF LayersAt, Base, Packages, InstallLocked, Extensions, External, Dirs, Config, Globals,
     Manifests, Tool, Deps, Copies, Sources, Included, Excluded, End, Run, Bare, CopyOf, Fresh
<1>2. \A x : SiteLayersAt(x, Fresh)' = SiteLayersAt(x, Fresh)
  BY DEF SiteLayersAt, Packages, InstallLocked, SiteConfig, SiteAssets, Run, Bare, CopyOf, Fresh
<1>3. StageParts' = StageParts /\ SiteParts' = SiteParts
  BY <1>1, <1>2 DEF StageParts, SiteParts
<1> QED
  BY <1>3 DEF StageStory, SiteStory

LEMMA SiteStoriesStay ==
  ASSUME UNCHANGED <<def, type, opts>>
  PROVE  \A c : SiteStory(c)' <=> SiteStory(c)
<1>1. \A x : SiteLayersAt(x, Fresh)' = SiteLayersAt(x, Fresh)
  BY DEF SiteLayersAt, Packages, InstallLocked, SiteConfig, SiteAssets, Run, Bare, CopyOf, Fresh
<1>2. SiteParts' = SiteParts
  BY <1>1 DEF SiteParts
<1> QED
  BY <1>2 DEF SiteStory

LEMMA BeforeStays ==
  ASSUME BeforeInv, UNCHANGED <<def, type, manager, opts, before>>
  PROVE  BeforeInv'
<1>1. /\ Served' = Served /\ Len(Steps(def))' = Len(Steps(def))
      /\ \A c : (StageStory(c)' <=> StageStory(c)) /\ (SiteStory(c)' <=> SiteStory(c))
  BY StoriesStay DEF Served, Stuck
<1>2. /\ Outlines(before.stage)' = Outlines(before.stage)
      /\ Outlines(before.site.layers)' = Outlines(before.site.layers)
  OBVIOUS
<1> QED
  BY <1>1, <1>2 DEF BeforeInv

LEMMA SameBuilding ==
  ASSUME OneOrder, SameInv, Building
  PROVE  SameInv'
<1>1. /\ TypeInv /\ TypeInv' /\ UNCHANGED <<def, type, manager, opts, site, before, versions>>
      /\ step # <<>> /\ step' = Tail(step) /\ def.kind # "webserver"
      /\ versions \in Versions /\ layers \in Seq(Layer)
      /\ <<def, type>> \in Inputs /\ Asked
  <2>1. TypeInv
    BY DEF SameInv
  <2>2. def.kind \in {"php", "nodejs"} /\ step # <<>> /\ step' = Tail(step)
    BY <2>1, StageSteps
  <2>3. UNCHANGED <<def, type, manager, opts, before, versions>>
    BY <2>1, OneStep DEF TypeInv, StepInv
  <2>4. UNCHANGED site
    BY DEF Building, StartFromBase, InstallPackages, InstallExtensions,
       CopyExternalFiles, MakeDirs, CopyConfigFiles, InstallGlobals, InstallDeps, CopySources,
       Finish, SetImageMetadata, Build
  <2> QED
    BY <2>1, <2>2, <2>3, <2>4, TypeBuilding DEF TypeInv
<1>2. /\ Told + 1 \in 1..Len(Steps(def)) /\ Told \in 0..Len(Steps(def))
      /\ Steps(def)[Told + 1] = Head(step) /\ Told' = Told + 1
  BY <1>1, ToldOfSteps DEF Told
<1>3. /\ Head(step) \notin {"web-packages", "web-config", "web-assets"}
      /\ def.web # None => Left("web-base") /\ Left("web-base")'
  <2>1. def \in ADefinition /\ Suffix(step)
    BY <1>1, InputsTyped DEF TypeInv
  <2>2. \A x : Left(x)' <=> Left(x) /\ x # Head(step)
    BY <1>1, <2>1, StepsLeft DEF Left
  <2> QED
    BY <1>1, <2>2, StageSteps
<1>4. ASSUME NEW c, StageStory(c)' PROVE Outlines(layers)' = c[Told']
  <2> DEFINE x == Head(step)  new == LayersAt(x, versions)
  <2>1. StageStory(c) /\ Outlines(layers) = c[Told]
    BY <1>1, <1>4, StoriesStay DEF SameInv
  <2>2. new \in Seq(Layer) /\ Outlines(new) = Outlines(LayersAt(x, Fresh))
    BY <1>1, LayersAtTyped, SameOutline, FreshTyped
  <2>3. layers' = layers \o new
    BY <1>1, BuildingAdds
  <2> HIDE DEF new
  <2>4. Outlines(layers \o new) = Outlines(layers) \o Outlines(new)
    BY <1>1, <2>2, OutlinesConcat
  <2>5. StageParts[Told + 1] = Outlines(LayersAt(x, Fresh))
    BY <1>2 DEF StageParts
  <2>6. c[Told + 1] = c[Told] \o StageParts[Told + 1]
    <3>1. (Told + 1) - 1 = Told
      BY <1>2
    <3> QED
      BY <1>2, <2>1, <3>1 DEF StageStory, Story
  <2>7. Outlines(layers') = c[Told + 1]
    BY <2>1, <2>2, <2>3, <2>4, <2>5, <2>6
  <2> QED
    BY <1>2, <2>7
<1>5. ASSUME def.web # None, NEW c, SiteStory(c)', Served PROVE c[Told'] = <<>>
  <2>1. SiteStory(c) /\ c[Told] = <<>>
    BY <1>1, <1>3, <1>5, StoriesStay DEF SameInv
  <2>2. SiteParts[Told + 1] = Outlines(<<>>)
    BY <1>2, <1>3 DEF SiteParts, SiteLayersAt
  <2>3. Outlines(<<>>) = <<>> /\ <<>> \o <<>> = <<>>
    BY DEF Outlines
  <2>4. c[Told + 1] = c[Told] \o SiteParts[Told + 1]
    <3>1. (Told + 1) - 1 = Told
      BY <1>2
    <3> QED
      BY <1>2, <2>1, <3>1 DEF SiteStory, Story
  <2> QED
    BY <1>2, <2>1, <2>2, <2>3, <2>4
<1>6. /\ Served' = Served /\ Len(Steps(def))' = Len(Steps(def))
      /\ \A c : (StageStory(c)' <=> StageStory(c)) /\ (SiteStory(c)' <=> SiteStory(c))
  BY <1>1, StoriesStay DEF Served, Stuck
<1>7. Served => def.web # None /\ Left("web-base") /\ Left("web-base")'
  BY <1>3 DEF Served
<1>8. site = None
  BY <1>7 DEF SameInv
<1>9. (def.kind # "webserver" => \A c : StageStory(c) => Outlines(layers) = c[Told])'
  BY <1>4
<1>10. (Served /\ Left("web-base") => \A c : SiteStory(c) => c[Told] = <<>>)'
  BY <1>5, <1>6, <1>7
<1>11. BeforeInv'
  BY <1>1, BeforeStays DEF SameInv
<1>12. (def.web # None /\ Stuck /\ step # <<>> => Left("web-base"))'
  BY <1>1, <1>3
<1> QED
  BY <1>1, <1>6, <1>7, <1>8, <1>9, <1>10, <1>11, <1>12 DEF SameInv

LEMMA SameServing ==
  ASSUME SameInv, Serving
  PROVE  SameInv'
<1>1. /\ TypeInv /\ TypeInv' /\ UNCHANGED <<def, type, manager, opts, before, versions, layers>>
      /\ def.web # None /\ step # <<>> /\ versions \in Versions /\ def \in ADefinition
      /\ <<def, type>> \in Inputs /\ Asked
      /\ Suffix(step) /\ (Left("web-base") <=> At("web-base"))
  <2>1. TypeInv
    BY DEF SameInv
  <2>2. UNCHANGED <<def, type, manager, opts, before, versions>>
    BY <2>1, OneStep DEF TypeInv, StepInv
  <2>3. layers' = layers
    BY <2>1, ServingAdds
  <2> QED
    BY <2>1, <2>2, <2>3, TypeServing, SiteSteps, InputsTyped DEF TypeInv
<1>2. /\ Told + 1 \in 1..Len(Steps(def)) /\ Told \in 0..Len(Steps(def))
      /\ Steps(def)[Told + 1] = Head(step)
      /\ step' = Tail(step) => Told' = Told + 1
  BY <1>1, ToldOfSteps DEF Told
<1>3. /\ Served' = Served /\ Len(Steps(def))' = Len(Steps(def)) /\ Stuck' = Stuck
      /\ \A c : (StageStory(c)' <=> StageStory(c)) /\ (SiteStory(c)' <=> SiteStory(c))
  BY <1>1, StoriesStay DEF Served, Stuck
<1>4. \A c : (StageStory(c) \/ SiteStory(c)) /\ (Told + 1) - 1 = Told =>
        /\ StageStory(c) => c[Told + 1] = c[Told] \o StageParts[Told + 1]
        /\ SiteStory(c) => c[Told + 1] = c[Told] \o SiteParts[Told + 1]
  BY <1>2 DEF StageStory, SiteStory, Story
<1>5. (Told + 1) - 1 = Told
  BY <1>2
<1>6. (def.kind # "webserver" => \A c : StageStory(c) => Outlines(layers) = c[Told])'
  <2> SUFFICES ASSUME def.kind # "webserver", NEW c, StageStory(c)
               PROVE  Outlines(layers) = c[Told']
    BY <1>1, <1>3
  <2>1. Outlines(layers) = c[Told] /\ c[Told] \in Seq(Outlined)
    BY <1>2 DEF SameInv, StageStory, Story
  <2>2. Head(step) \in {"web-base", "web-packages", "web-config", "web-assets"}
    BY DEF Serving, StartWebserver, InstallSitePackages, CopySiteConfig, CopyAssets, At
  <2>3. StageParts[Told + 1] = Outlines(<<>>) /\ Outlines(<<>>) = <<>>
    <3>1. LayersAt(Head(step), Fresh) = <<>>
      BY <2>2 DEF LayersAt
    <3> QED
      BY <1>2, <3>1 DEF StageParts, Outlines
  <2>4. c[Told + 1] = c[Told]
    <3>1. c[Told + 1] = c[Told] \o <<>>
      BY <1>4, <1>5, <2>3
    <3>2. \A s \in Seq(Outlined) : s \o <<>> = s
      OBVIOUS
    <3> QED
      BY <2>1, <3>1, <3>2
  <2>5. step' = Tail(step)
    BY <1>1, ServingAdds DEF Stuck
  <2> QED
    BY <1>2, <2>1, <2>4, <2>5
<1>7. /\ (site # None => Served /\ ~ Left("web-base"))'
      /\ (Served /\ Left("web-base") => \A c : SiteStory(c) => c[Told] = <<>>)'
      /\ (Served /\ ~ Left("web-base") =>
           /\ site.layers \in Seq(Layer)
           /\ \A c : SiteStory(c) => Outlines(site.layers) = c[Told])'
  <2>1. CASE At("web-base") /\ Stuck /\ step' = <<>> /\ site' = site
    <3>1. ~ Left("web-base")' /\ ~ Served
      BY <2>1 DEF Left, Has, Served
    <3> QED
      BY <1>3, <2>1, <3>1 DEF SameInv
  <2>2. CASE step' = Tail(step) /\ ~ Stuck
    <3>1. ~ Left("web-base")' /\ Served /\ Served'
      <4>1. \A x : Left(x)' <=> Left(x) /\ x # Head(step)
        BY <1>1, <2>2, StepsLeft DEF Left
      <4>2. Left("web-base") => Head(step) = "web-base"
        BY <1>1 DEF At
      <4> QED
        BY <1>1, <1>3, <2>2, <4>1, <4>2 DEF Served
    <3> DEFINE x == Head(step)  new == SiteLayersAt(x, versions)
    <3>2. new \in Seq(Layer) /\ Outlines(new) = Outlines(SiteLayersAt(x, Fresh))
      BY <1>1, SiteLayersAtTyped, SameOutline, FreshTyped
    <3>3. SiteParts[Told + 1] = Outlines(new)
      BY <1>2, <3>2 DEF SiteParts
    <3>4. CASE At("web-base") /\ site'.layers = <<>>
      <4>1. new = <<>> /\ Outlines(<<>>) = <<>> /\ <<>> \o <<>> = <<>>
        BY <3>4 DEF At, SiteLayersAt, Outlines
      <4>2. ASSUME NEW c, SiteStory(c) PROVE Outlines(site'.layers) = c[Told']
        <5>1. c[Told] = <<>>
          BY <1>1, <3>1, <3>4, <4>2 DEF SameInv
        <5>2. c[Told + 1] = c[Told] \o SiteParts[Told + 1]
          BY <1>4, <1>5, <4>2
        <5> QED
          BY <1>2, <2>2, <3>3, <3>4, <4>1, <5>1, <5>2
      <4>3. site'.layers \in Seq(Layer)
        BY <3>4
      <4> QED
        BY <1>3, <3>1, <4>2, <4>3
    <3>5. CASE ~ At("web-base") /\ site'.layers = site.layers \o new
      <4> HIDE DEF new
      <4>1. site.layers \in Seq(Layer)
        BY <1>1, <3>1, <3>5 DEF SameInv
      <4>2. ASSUME NEW c, SiteStory(c) PROVE Outlines(site'.layers) = c[Told']
        <5>1. Outlines(site.layers) = c[Told]
          BY <1>1, <3>1, <3>5, <4>2 DEF SameInv
        <5>2. c[Told + 1] = c[Told] \o SiteParts[Told + 1]
          BY <1>4, <1>5, <4>2
        <5>3. Outlines(site.layers \o new) = Outlines(site.layers) \o Outlines(new)
          BY <3>2, <4>1, OutlinesConcat
        <5> QED
          BY <1>2, <2>2, <3>3, <3>5, <5>1, <5>2, <5>3
      <4>3. site'.layers \in Seq(Layer)
        BY <3>2, <3>5, <4>1
      <4> QED
        BY <1>3, <3>1, <4>2, <4>3
    <3> QED
      BY <1>1, <2>2, <3>4, <3>5, ServingAdds
  <2>3. ASSUME Stuck, ~ At("web-base") PROVE FALSE
    BY <1>1, <2>3 DEF SameInv
  <2> QED
    BY <1>1, <2>1, <2>2, <2>3, ServingAdds
<1>8. BeforeInv'
  BY <1>1, BeforeStays DEF SameInv
<1>9. (def.web # None /\ Stuck /\ step # <<>> => Left("web-base"))'
  <2>1. Stuck => step' = <<>>
    BY <1>1, ServingAdds DEF SameInv
  <2> QED
    BY <1>3, <2>1
<1> QED
  BY <1>1, <1>6, <1>7, <1>8, <1>9 DEF SameInv

LEMMA SameAgain ==
  ASSUME SameInv, Again
  PROVE  SameInv'
<1>1. /\ UNCHANGED <<def, type, opts, versions>>
      /\ step = <<>> /\ step' = Steps(def) /\ layers' = <<>> /\ site' = None
      /\ before' = [stage |-> layers, site |-> site, manager |-> manager]
  BY DEF Again, request
<1>2. TypeInv /\ TypeInv' /\ def \in ADefinition
  BY TypeNext, InputsTyped DEF SameInv, TypeInv, Next
<1>3. Told = Len(Steps(def)) /\ Told' = 0 /\ ~ Left("web-base")
  <2>1. Told' = Len(Steps(def)) - Len(Steps(def)) /\ Len(Steps(def)) \in Nat
    BY <1>1, <1>2, StoriesTyped DEF Told
  <2> QED
    BY <1>1, <1>2, <2>1, ToldOfSteps DEF Left, Has
<1>4. /\ Served' = Served /\ Len(Steps(def))' = Len(Steps(def))
      /\ \A c : SiteStory(c)' <=> SiteStory(c)
      /\ manager' = manager => \A c : StageStory(c)' <=> StageStory(c)
  BY <1>1, StoriesStay, SiteStoriesStay DEF Served, Stuck
<1>5. def.web # None => Left("web-base")'
  BY <1>1, <1>2, StepsOrdered DEF Left, Planned
<1>6. Outlines(<<>>) = <<>> /\ \A c : StageStory(c)' \/ SiteStory(c) => c[0] = <<>>
  <2>1. Outlines(<<>>) = <<>>
    BY DEF Outlines
  <2> QED
    BY <2>1 DEF StageStory, SiteStory, Story
<1>7. BeforeInv'
  <2>1. before'.stage = layers /\ before'.site = site /\ before'.manager = manager
    BY <1>1
  <2>2. layers \in Seq(Layer)
    BY <1>2 DEF TypeInv
  <2> QED
    BY <1>1, <1>3, <1>4, <2>1, <2>2 DEF SameInv, BeforeInv
<1> QED
  BY <1>1, <1>2, <1>3, <1>4, <1>5, <1>6, <1>7 DEF SameInv, Served

LEMMA SameNext == OneOrder /\ SameInv /\ [Next]_vars => SameInv'
<1> SUFFICES ASSUME OneOrder, SameInv, [Next]_vars PROVE SameInv'
  OBVIOUS
<1>1. CASE (\E n \in Name : Edit(n)) \/ UNCHANGED vars
  <2>1. UNCHANGED <<def, type, manager, opts, before, step, layers, site>>
    BY <1>1 DEF Edit, vars, request
  <2>2. TypeInv'
    BY TypeNext DEF SameInv
  <2>3. BeforeInv'
    BY <2>1, BeforeStays DEF SameInv
  <2>4. \A c : (StageStory(c)' <=> StageStory(c)) /\ (SiteStory(c)' <=> SiteStory(c))
    BY <2>1, StoriesStay
  <2>5. UNCHANGED <<Told, Outlines(layers), Outlines(site.layers)>>
        /\ Left("web-base")' = Left("web-base") /\ Served' = Served /\ Stuck' = Stuck
    BY <2>1 DEF Told, Left, Served, Stuck
  <2> QED
    BY <2>1, <2>2, <2>3, <2>4, <2>5 DEF SameInv
<1> QED
  BY <1>1, SameBuilding, SameServing, SameAgain DEF Next, Building, Serving

\* A definition is always built with the same commands, whatever is edited in its
\* context meanwhile, as soon as none of its lists is in the order of a map.
THEOREM CommandsStay ==
  ASSUME OneOrder
  PROVE  Spec => []SameSteps
<1>1. Spec => []SameInv
  BY SameInit, SameNext, PTL DEF Spec
<1> QED
  BY <1>1, SameChecked, PTL

-----------------------------------------------------------------------------
(* Dependencies are reused.                                                *)

\* Layers that copy nothing of the context, and install no dependencies.
Plain(ls) == \A k \in DOMAIN ls : ls[k].op # "deps" /\ ls[k].digest = {}

LEMMA PlainLayers ==
  /\ \A op, args : op # "deps" => Plain(<<Run(op, args)>>) /\ Plain(<<Bare(op, args)>>)
  /\ Plain(<<>>)
  /\ \A s, t \in Seq(Layer) : Plain(s) /\ Plain(t) => Plain(s \o t)
<1>1. ASSUME NEW op, NEW args, op # "deps"
      PROVE  Plain(<<Run(op, args)>>) /\ Plain(<<Bare(op, args)>>)
  <2>1. /\ Run(op, args).op # "deps" /\ Run(op, args).digest = {}
        /\ Bare(op, args).op # "deps" /\ Bare(op, args).digest = {}
    BY <1>1 DEF Run, Bare
  <2>2. \A l : DOMAIN <<l>> = 1..1 /\ <<l>>[1] = l
    OBVIOUS
  <2>3. \A l : l.op # "deps" /\ l.digest = {} => Plain(<<l>>)
    <3> TAKE l
    <3> DEFINE s == <<l>>
    <3>1. DOMAIN s = 1..1 /\ s[1] = l
      OBVIOUS
    <3> HIDE DEF s
    <3>2. l.op # "deps" /\ l.digest = {} => Plain(s)
      BY <3>1 DEF Plain
    <3> QED
      BY <3>2 DEF s
  <2> QED
    BY <2>1, <2>3
<1>2. Plain(<<>>)
  BY DEF Plain
<1>3. ASSUME NEW s \in Seq(Layer), NEW t \in Seq(Layer), Plain(s), Plain(t)
      PROVE  Plain(s \o t)
  <2> DEFINE u == s \o t
  <2>1. /\ u \in Seq(Layer)
        /\ \A x \in 1..Len(u) :
              \/ x \in 1..Len(s) /\ u[x] = s[x]
              \/ x > Len(s) /\ x - Len(s) \in 1..Len(t) /\ u[x] = t[x - Len(s)]
    BY ConcatFacts
  <2>2. DOMAIN s = 1..Len(s) /\ DOMAIN t = 1..Len(t) /\ DOMAIN u = 1..Len(u)
    BY <2>1
  <2> HIDE DEF u
  <2>3. Plain(u)
    BY <1>3, <2>1, <2>2 DEF Plain
  <2> QED
    BY <2>3 DEF u
<1> QED
  BY <1>1, <1>2, <1>3

LEMMA PlainSteps ==
  ASSUME <<def, type>> \in Inputs, Asked,
         NEW w \in Versions, NEW x, x \notin {"config", "deps", "sources"}
  PROVE  Plain(LayersAt(x, w))
<1>1. Plain(Base) /\ Plain(End) /\ Plain(<<>>)
  BY PlainLayers DEF Base, End
<1>2. Plain(Packages(def.packages))
  <2> DEFINE cache == <<Bare("run", <<"keep-cache">>)>>
             install == <<Run("packages", SetToSeq(def.packages))>>
  <2>1. cache \in Seq(Layer) /\ install \in Seq(Layer)
    <3>1. Bare("run", <<"keep-cache">>) \in Layer
      BY RunTyped, OpValues, ArgumentValues
    <3>2. SetToSeq(def.packages) \in Seq(Argument)
      BY DefinitionTyped, ListOfSet, ArgumentValues
    <3>3. Run("packages", SetToSeq(def.packages)) \in Layer
      BY <3>2, RunTyped, OpValues
    <3> QED
      BY <3>1, <3>3
  <2>2. Plain(cache) /\ Plain(install)
    BY PlainLayers
  <2>3. Packages(def.packages) \in {<<>>, cache \o install, <<>> \o install}
    BY DEF Packages, InstallLocked
  <2>4. <<>> \in Seq(Layer)
    OBVIOUS
  <2> HIDE DEF cache, install
  <2>5. Plain(cache \o install) /\ Plain(<<>> \o install) /\ Plain(<<>>)
    BY <2>1, <2>2, <2>4, PlainLayers
  <2> QED
    BY <2>3, <2>5
<1>3. \A o : Plain(Extensions(o)) /\ Plain(Globals(o))
  BY PlainLayers DEF Extensions, Globals
<1>4. Plain(External)
  <2>1. \A i \in DOMAIN def.external :
          LET l == Bare("external", <<def.external[i]>>)
          IN  l.op # "deps" /\ l.digest = {}
    BY DEF Bare, Run
  <2> QED
    BY <2>1 DEF Plain, External
<1>5. Plain(Dirs)
  <2> DEFINE first == <<Bare("mkdir", <<"app">>)>>
             rest == [i \in DOMAIN def.dirs |-> Bare("mkdir", def.dirs[i])]
  <2>1. \A i \in DOMAIN def.dirs :
          LET l == Bare("mkdir", def.dirs[i])
          IN  l.op # "deps" /\ l.digest = {}
    BY DEF Bare, Run
  <2>2. Plain(rest) /\ Plain(first)
    BY <2>1, PlainLayers DEF Plain
  <2>3. first \in Seq(Layer) /\ rest \in Seq(Layer)
    BY MkdirsTyped
  <2>4. Dirs = first \o rest
    BY DEF Dirs
  <2> HIDE DEF first, rest
  <2> QED
    BY <2>2, <2>3, <2>4, PlainLayers
<1> QED
  BY <1>1, <1>2, <1>3, <1>4, <1>5 DEF LayersAt

LEMMA CopySteps ==
  ASSUME NEW w \in Versions
  PROVE  /\ \A k \in DOMAIN Config(w) :
              Config(w)[k].op # "deps" /\ Config(w)[k].digest = {<<"dist", w["dist"]>>}
         /\ \A k \in DOMAIN Copies(w) : Copies(w)[k].op # "deps"
<1>1. \A names, args : /\ CopyOf(names, args, w).op = "copy"
                       /\ CopyOf(names, args, w).digest = {<<n, w[n]>> : n \in names}
  BY DEF CopyOf, Run
<1>2. {<<n, w[n]>> : n \in {"dist"}} = {<<"dist", w["dist"]>>}
  OBVIOUS
<1>3. \A k \in DOMAIN Config(w) :
        Config(w)[k].op # "deps" /\ Config(w)[k].digest = {<<"dist", w["dist"]>>}
  <2> SUFFICES ASSUME NEW k \in DOMAIN Config(w)
               PROVE  Config(w)[k].op # "deps" /\ Config(w)[k].digest = {<<"dist", w["dist"]>>}
    OBVIOUS
  <2>1. Config(w)[k] = CopyOf({"dist"}, SetToSeq(def.config)[k], w)
    BY DEF Config
  <2> QED
    BY <1>1, <1>2, <2>1
<1>4. \A k \in DOMAIN Copies(w) : Copies(w)[k].op # "deps"
  <2>1. CASE type = "local"
    <3>1. \A l : DOMAIN <<l>> = {1} /\ <<l>>[1] = l
      OBVIOUS
    <3>2. Copies(w) = <<CopyOf(Sources, <<"sources">>, w)>>
      BY <2>1 DEF Copies
    <3> QED
      BY <1>1, <3>1, <3>2
  <2>2. CASE type # "local"
    <3> SUFFICES ASSUME NEW k \in DOMAIN Copies(w) PROVE Copies(w)[k].op # "deps"
      OBVIOUS
    <3>1. Copies(w)[k] = CopyOf({SetToSeq(Sources)[k]}, <<SetToSeq(Sources)[k]>>, w)
      BY <2>2 DEF Copies
    <3> QED
      BY <1>1, <3>1
  <2> QED
    BY <2>1, <2>2
<1> QED
  BY <1>3, <1>4

LEMMA DepsSteps ==
  ASSUME Asked, NEW w \in Versions
  PROVE  \A k \in 1..Len(Deps(w)) :
           /\ Deps(w)[k].op = "deps" => k = Len(Deps(w))
           /\ Deps(w)[k].digest \subseteq {<<"manifest", w["manifest"]>>}
<1> DEFINE m == [i \in DOMAIN Manifests |-> CopyOf({"manifest"}, <<Manifests[i]>>, w)]
           r == <<Run("deps", Tool)>>
<1>1. m \in Seq(Layer) /\ r \in Seq(Layer) /\ Deps(w) = m \o r
  BY DepsTyped DEF Deps
<1>2. Len(r) = 1 /\ r[1].digest = {}
  <2>1. r[1] = Run("deps", Tool) /\ Len(r) = 1
    OBVIOUS
  <2> QED
    BY <2>1 DEF Run
<1>3. \A k \in 1..Len(m) :
        m[k].op # "deps" /\ m[k].digest \subseteq {<<"manifest", w["manifest"]>>}
  <2>1. /\ \A args : /\ CopyOf({"manifest"}, args, w).op = "copy"
                     /\ CopyOf({"manifest"}, args, w).digest = {<<n, w[n]>> : n \in {"manifest"}}
    BY DEF CopyOf, Run
  <2>2. 1..Len(m) = DOMAIN Manifests
    <3>1. DOMAIN m = 1..Len(m)
      <4> HIDE DEF m
      <4> QED
        BY <1>1
    <3>2. DOMAIN m = DOMAIN Manifests
      OBVIOUS
    <3> QED
      BY <3>1, <3>2
  <2>3. \A k \in DOMAIN Manifests : m[k] = CopyOf({"manifest"}, <<Manifests[k]>>, w)
    OBVIOUS
  <2>4. {<<n, w[n]>> : n \in {"manifest"}} = {<<"manifest", w["manifest"]>>}
    OBVIOUS
  <2> HIDE DEF m
  <2> QED
    <3> SUFFICES ASSUME NEW k \in DOMAIN Manifests
                 PROVE  m[k].op # "deps" /\ m[k].digest \subseteq {<<"manifest", w["manifest"]>>}
      BY <2>2
    <3>1. m[k] = CopyOf({"manifest"}, <<Manifests[k]>>, w)
      BY <2>3
    <3>2. m[k].op = "copy" /\ m[k].digest = {<<n, w[n]>> : n \in {"manifest"}}
      BY <2>1, <3>1
    <3> QED
      BY <2>4, <3>2
<1> HIDE DEF m, r
<1> DEFINE u == m \o r
<1>4. /\ Len(u) = Len(m) + 1 /\ Len(m) \in Nat
      /\ \A x \in 1..Len(u) :
              \/ x \in 1..Len(m) /\ u[x] = m[x]
              \/ x > Len(m) /\ x - Len(m) \in 1..Len(r) /\ u[x] = r[x - Len(m)]
  <2>1. m \in Seq(Layer) /\ r \in Seq(Layer) /\ Len(m) \in Nat
    BY <1>1
  <2>2. Len(u) = Len(m) + Len(r)
    BY <2>1, ConcatFacts
  <2>3. \A x \in 1..Len(u) :
          \/ x \in 1..Len(m) /\ u[x] = m[x]
          \/ x > Len(m) /\ x - Len(m) \in 1..Len(r) /\ u[x] = r[x - Len(m)]
    BY <2>1, ConcatFacts
  <2> HIDE DEF u
  <2> QED
    BY <1>2, <2>1, <2>2, <2>3
<1> HIDE DEF u
<1>5. \A k \in 1..Len(u) :
        /\ u[k].op = "deps" => k = Len(u)
        /\ u[k].digest \subseteq {<<"manifest", w["manifest"]>>}
  <2> TAKE k \in 1..Len(u)
  <2>1. CASE k \in 1..Len(m) /\ u[k] = m[k]
    BY <1>3, <2>1
  <2>2. CASE k > Len(m)
    <3>1. k - Len(m) = 1 /\ u[k] = r[1]
      BY <1>2, <1>4, <2>2
    <3>2. k = Len(u)
      BY <1>4, <2>2
    <3> QED
      BY <1>2, <3>1, <3>2
  <2> QED
    BY <1>4, <2>1, <2>2
<1> QED
  BY <1>1, <1>5 DEF u

\* The names of what is copied of the context before dependencies are installed.
EarlyNames == {"manifest"} \cup (IF def.kind = "php" THEN {"dist"} ELSE {})

\* The first i layers copy nothing else, in one version.
Uniform(ls, i) ==
  \A j, k \in 1..i : \A b \in ls[j].digest, c \in ls[k].digest :
    b[1] \in EarlyNames /\ (b[1] = c[1] => b = c)

\* Dependencies are not installed yet, or they are in one place; and what is copied
\* before them is in one version.
DepsInv ==
  /\ Left("deps") \/ def.dev => \A i \in 1..Len(layers) : layers[i].op # "deps"
  /\ Left("deps") =>
       \E v \in 0..MaxEdits : \A i \in 1..Len(layers) :
         layers[i].digest \subseteq (IF Left("config") \/ def.kind # "php" THEN {}
                                     ELSE {<<"dist", v>>})
  /\ \A i \in 1..Len(layers) : layers[i].op = "deps" => Uniform(layers, i)

ReuseInv == SameInv /\ DepsInv

LEMMA ReuseChecked == ReuseInv => DepsReused
<1> SUFFICES ASSUME ReuseInv, before # None, manager = before.manager, NEW i \in DOMAIN layers,
                    layers[i].op = "deps",
                    Upstream(SubSeq(layers, 1, i)) = Upstream(before.stage)
             PROVE  IsPrefix(SubSeq(layers, 1, i), before.stage)
  BY DEF DepsReused, SameManager
<1> DEFINE old == before.stage  prefix == SubSeq(layers, 1, i)
<1>1. /\ TypeInv /\ layers \in Seq(Layer) /\ old \in Seq(Layer)
      /\ i \in 1..Len(layers) /\ def.kind # "webserver"
  <2>1. TypeInv /\ layers \in Seq(Layer) /\ before.stage \in Seq(Layer)
    BY DEF ReuseInv, SameInv, BeforeInv, TypeInv
  <2>2. i \in 1..Len(layers)
    BY <2>1
  <2>3. layers # <<>>
    BY <2>2
  <2> QED
    BY <2>1, <2>2, <2>3 DEF ReuseInv, SameInv
<1>2. /\ Len(layers) <= Len(old) /\ Len(layers) \in Nat /\ Len(old) \in Nat
      /\ \A x \in 1..Len(layers) : x \in 1..Len(old) /\ Outline(old[x]) = Outline(layers[x])
  <2>1. PICK c : StageStory(c)
    BY <1>1, StoriesTyped
  <2>2. Outlines(layers) = c[Told] /\ Outlines(old) = c[Len(Steps(def))]
    BY <1>1, <2>1 DEF ReuseInv, SameInv, BeforeInv
  <2>3. Told \in 0..Len(Steps(def)) /\ Len(Steps(def)) \in Nat
    BY <1>1, ToldOfSteps, StoriesTyped
  <2>4. /\ Len(c[Told]) <= Len(c[Len(Steps(def))])
        /\ \A x \in 1..Len(c[Told]) :
             x \in 1..Len(c[Len(Steps(def))]) /\ c[Len(Steps(def))][x] = c[Told][x]
    <3> DEFINE n == Len(Steps(def))
    <3>1. /\ n \in Nat /\ StageParts \in [1..n -> Seq(Outlined)] /\ Story(n, StageParts, c)
          /\ Told \in 0..n /\ n \in 0..n /\ Told <= n
      BY <1>1, <2>1, <2>3, StoriesTyped DEF StageStory
    <3> HIDE DEF n
    <3>2. /\ Len(c[Told]) <= Len(c[n])
          /\ \A x \in 1..Len(c[Told]) : x \in 1..Len(c[n]) /\ c[n][x] = c[Told][x]
      BY <3>1, StoryGrows
    <3> QED
      BY <3>2 DEF n
  <2>5. /\ Len(Outlines(layers)) = Len(layers) /\ Len(Outlines(old)) = Len(old)
        /\ \A x \in 1..Len(layers) : Outlines(layers)[x] = Outline(layers[x])
        /\ \A x \in 1..Len(old) : Outlines(old)[x] = Outline(old[x])
    BY <1>1, OutlinesTyped
  <2>6. Len(layers) \in Nat /\ Len(old) \in Nat
    BY <1>1
  <2> HIDE DEF old
  <2> QED
    BY <2>2, <2>4, <2>5, <2>6
<1>3. Uniform(layers, i)
  BY <1>1 DEF ReuseInv, DepsInv
<1>4. /\ prefix \in Seq(Layer) /\ Len(prefix) = i
      /\ \A x \in 1..i : prefix[x] = layers[x] /\ x \in 1..Len(layers)
  BY <1>1
<1> HIDE DEF prefix, old
<1>5. /\ Upstream(prefix) = Upstream(old)
      /\ \A ls \in Seq(Layer) : \A c :
           c \in Upstream(ls) <=>
             c[1] \in EarlyNames /\ \E x \in 1..Len(ls) : c \in ls[x].digest
  <2>1. \A ls \in Seq(Layer) : DOMAIN ls = 1..Len(ls)
    OBVIOUS
  <2> QED
    BY <2>1 DEF Upstream, EarlyNames, prefix, old
<1>6. ASSUME NEW b \in Upstream(old)
      PROVE  \E x \in 1..i : b \in layers[x].digest
  <2>1. PICK x \in 1..Len(prefix) : b \in prefix[x].digest
    BY <1>4, <1>5, <1>6
  <2> QED
    BY <1>4, <2>1
<1>7. ASSUME NEW x \in 1..i PROVE layers[x] = old[x]
  <2>1. x \in 1..Len(layers) /\ x \in 1..Len(old) /\ Outline(old[x]) = Outline(layers[x])
    BY <1>2, <1>4
  <2>2. layers[x] \in Layer /\ old[x] \in Layer
    BY <1>1, <2>1
  <2>3. /\ layers[x].op = old[x].op /\ layers[x].args = old[x].args
        /\ layers[x].ignore = old[x].ignore
        /\ NamesOf(layers[x].digest) = NamesOf(old[x].digest)
    <3>1. \A a, b : Outline(a) = Outline(b) =>
            /\ a.op = b.op /\ a.args = b.args /\ a.ignore = b.ignore
            /\ NamesOf(a.digest) = NamesOf(b.digest)
      BY DEF Outline
    <3> QED
      BY <2>1, <3>1
  <2>4. ASSUME NEW b \in layers[x].digest PROVE b \in old[x].digest
    <3>1. b[1] \in NamesOf(old[x].digest)
      BY <2>3 DEF NamesOf
    <3>2. PICK c \in old[x].digest : c[1] = b[1]
      BY <3>1 DEF NamesOf
    <3>3. b[1] \in EarlyNames
      BY <1>3 DEF Uniform
    <3>4. c \in Upstream(old)
      BY <1>1, <1>5, <2>1, <3>2, <3>3
    <3>5. PICK y \in 1..i : c \in layers[y].digest
      BY <1>6, <3>4
    <3>6. b = c
      BY <1>3, <3>2, <3>5 DEF Uniform
    <3> QED
      BY <3>6
  <2>5. ASSUME NEW c \in old[x].digest PROVE c \in layers[x].digest
    <3>1. c[1] \in NamesOf(layers[x].digest)
      BY <2>3 DEF NamesOf
    <3>2. PICK b \in layers[x].digest : b[1] = c[1]
      BY <3>1 DEF NamesOf
    <3>3. c[1] \in EarlyNames
      BY <1>3, <3>2 DEF Uniform
    <3>4. c \in Upstream(old)
      BY <1>1, <1>5, <2>1, <3>3
    <3>5. PICK y \in 1..i : c \in layers[y].digest
      BY <1>6, <3>4
    <3>6. b = c
      BY <1>3, <3>2, <3>5 DEF Uniform
    <3> QED
      BY <3>6
  <2>6. layers[x].digest = old[x].digest
    BY <2>4, <2>5
  <2>7. \A l \in Layer : l = [op |-> l.op, args |-> l.args, digest |-> l.digest,
                             ignore |-> l.ignore]
    BY DEF Layer
  <2> QED
    BY <2>2, <2>3, <2>6, <2>7
<1>8. SubSeq(prefix, 1, Len(prefix)) = SubSeq(old, 1, Len(prefix))
  <2>1. i <= Len(old) /\ i \in Nat
    BY <1>1, <1>2
  <2>2. \A x \in 1..i : prefix[x] = old[x]
    BY <1>4, <1>7
  <2> QED
    BY <1>1, <1>4, <2>1, <2>2
<1>9. Len(prefix) <= Len(old)
  BY <1>1, <1>2, <1>4
<1> QED
  BY <1>8, <1>9 DEF IsPrefix, prefix, old

LEMMA ReuseInit == Init => ReuseInv
<1> SUFFICES ASSUME Init PROVE ReuseInv
  OBVIOUS
<1>1. SameInv
  BY SameInit
<1>2. layers = <<>> /\ 1..Len(<<>>) = {}
  BY DEF Init, NothingBuilt
<1>3. 0 \in 0..MaxEdits
  BY ImageAssumption
<1> QED
  BY <1>1, <1>2, <1>3 DEF ReuseInv, DepsInv

LEMMA ReuseBuilding ==
  ASSUME OneOrder, ReuseInv, Building
  PROVE  DepsInv'
<1> DEFINE x == Head(step)  new == LayersAt(x, versions)
<1>1. /\ TypeInv /\ UNCHANGED <<def, type, manager, opts, versions>>
      /\ step # <<>> /\ step' = Tail(step) /\ def.kind \in {"php", "nodejs"}
      /\ versions \in Versions /\ layers \in Seq(Layer) /\ def \in ADefinition
      /\ <<def, type>> \in Inputs /\ Asked
      /\ Suffix(step)
  BY OneStep, StageSteps, InputsTyped DEF ReuseInv, SameInv, TypeInv, StepInv
<1>2. /\ \A y : Left(y)' <=> Left(y) /\ y # x
      /\ \A y : Left(y) <=> Planned(def, y) /\ Rank(def, y) >= Rank(def, x)
      /\ Planned(def, x) /\ Left(x)
  <2>1. /\ \A y : Left(y)' <=> Left(y) /\ y # x
        /\ \A y : Left(y) <=> Planned(def, y) /\ Rank(def, y) >= Rank(def, x)
        /\ Planned(def, x)
    BY <1>1, StepsLeft DEF Left
  <2>2. Rank(def, x) \in 1..16
    BY RankType
  <2> QED
    BY <2>1, <2>2
<1>3. new \in Seq(Layer) /\ layers' = layers \o new
  BY <1>1, LayersAtTyped, BuildingAdds DEF ReuseInv, SameInv
<1>4. x = "config" => new = Config(versions)
  BY DEF LayersAt
<1>5. x = "deps" => new = Deps(versions)
  BY DEF LayersAt
<1>6. x = "sources" => new = Copies(versions)
  BY DEF LayersAt
<1>7. x \notin {"config", "deps", "sources"} => Plain(new)
  BY <1>1, PlainSteps
<1> HIDE DEF x, new
<1>8. /\ Len(layers') = Len(layers) + Len(new) /\ Len(layers) \in Nat /\ Len(new) \in Nat
      /\ \A k \in 1..Len(layers) : k \in 1..Len(layers') /\ layers'[k] = layers[k]
      /\ \A k \in 1..Len(layers') :
              \/ k \in 1..Len(layers) /\ layers'[k] = layers[k]
              \/ k > Len(layers) /\ k - Len(layers) \in 1..Len(new)
                 /\ layers'[k] = new[k - Len(layers)]
  <2> DEFINE s == layers  t == new  u == s \o t
  <2>1. s \in Seq(Layer) /\ t \in Seq(Layer) /\ layers' = u
    BY <1>1, <1>3
  <2>2. Len(s) \in Nat /\ Len(t) \in Nat
    BY <2>1
  <2> HIDE DEF s, t
  <2>3. /\ Len(u) = Len(s) + Len(t)
        /\ \A k \in 1..Len(s) : k \in 1..Len(u) /\ u[k] = s[k]
        /\ \A k \in 1..Len(u) :
              \/ k \in 1..Len(s) /\ u[k] = s[k]
              \/ k > Len(s) /\ k - Len(s) \in 1..Len(t) /\ u[k] = t[k - Len(s)]
    BY <2>1, ConcatFacts
  <2> HIDE DEF u
  <2> QED
    BY <2>1, <2>2, <2>3 DEF s, t
<1>9. x # "deps" => \A k \in 1..Len(new) : new[k].op # "deps"
  <2>1. DOMAIN new = 1..Len(new)
    BY <1>3
  <2> QED
    BY <1>1, <1>4, <1>6, <1>7, <2>1, CopySteps DEF Plain
<1>10. ASSUME x # "deps"
       PROVE  \A i \in 1..Len(layers') :
                layers'[i].op = "deps" => i \in 1..Len(layers) /\ layers'[i] = layers[i]
  BY <1>8, <1>9, <1>10
<1>11. (Left("deps") \/ def.dev => \A i \in 1..Len(layers) : layers[i].op # "deps")'
  <2> SUFFICES ASSUME Left("deps")' \/ def.dev, NEW i \in 1..Len(layers')
               PROVE  layers'[i].op # "deps"
    BY <1>1
  <2>1. x # "deps" /\ (Left("deps") \/ def.dev)
    BY <1>1, <1>2 DEF Planned
  <2> QED
    BY <1>10, <2>1 DEF ReuseInv, DepsInv
<1>12. (Left("deps") =>
         \E v \in 0..MaxEdits : \A i \in 1..Len(layers) :
           layers[i].digest \subseteq (IF Left("config") \/ def.kind # "php" THEN {}
                                       ELSE {<<"dist", v>>}))'
  <2> SUFFICES ASSUME Left("deps")'
               PROVE  \E v \in 0..MaxEdits : \A i \in 1..Len(layers') :
                        layers'[i].digest \subseteq
                          (IF Left("config")' \/ def.kind # "php" THEN {} ELSE {<<"dist", v>>})
    BY <1>1
  <2>1. Left("deps") /\ x # "deps" /\ Rank(def, x) < 8
    <3>1. Rank(def, "deps") = 8 /\ Rank(def, x) \in 1..16 /\ x \in Step /\ "deps" \in Step
      BY <1>1, RankValues, RankType, StepsLeft DEF Step, x
    <3>2. Left("deps") /\ x # "deps" /\ Rank(def, "deps") >= Rank(def, x)
      BY <1>2
    <3>3. Rank(def, x) # Rank(def, "deps")
      BY <3>1, <3>2, RankOnce
    <3> QED
      BY <3>1, <3>2, <3>3
  <2>2. PICK v \in 0..MaxEdits : \A i \in 1..Len(layers) :
          layers[i].digest \subseteq (IF Left("config") \/ def.kind # "php" THEN {}
                                      ELSE {<<"dist", v>>})
    BY <2>1 DEF ReuseInv, DepsInv
  <2>3. x # "sources" /\ (x = "config" => def.kind = "php")
    BY <1>1, <2>1, RankValues
  <2>4. CASE x = "config"
    <3>1. versions["dist"] \in 0..MaxEdits
      BY <1>1 DEF Versions, Name
    <3>2. \A i \in 1..Len(layers) : layers[i].digest = {}
      BY <1>2, <2>2, <2>4
    <3>3. \A k \in 1..Len(new) : new[k].digest \subseteq {<<"dist", versions["dist"]>>}
      <4>1. DOMAIN new = 1..Len(new)
        BY <1>3
      <4> QED
        BY <1>1, <1>4, <2>4, <4>1, CopySteps
    <3>4. ~ Left("config")'
      BY <1>2, <2>4
    <3>5. \A i \in 1..Len(layers') : layers'[i].digest \subseteq {<<"dist", versions["dist"]>>}
      BY <1>8, <3>2, <3>3
    <3> QED
      BY <2>3, <2>4, <3>1, <3>4, <3>5
  <2>5. CASE x # "config"
    <3>1. Plain(new)
      BY <1>7, <2>1, <2>3, <2>5
    <3>2. \A k \in 1..Len(new) : new[k].digest = {}
      <4>1. DOMAIN new = 1..Len(new)
        BY <1>3
      <4> QED
        BY <3>1, <4>1 DEF Plain
    <3>3. Left("config")' <=> Left("config")
      BY <1>2, <2>5
    <3>4. \A i \in 1..Len(layers') :
            \/ layers'[i].digest = {}
            \/ i \in 1..Len(layers) /\ layers'[i].digest = layers[i].digest
      BY <1>8, <3>2
    <3> QED
      BY <2>2, <3>3, <3>4
  <2> QED
    BY <2>4, <2>5
<1>13. ASSUME NEW i \in 1..Len(layers'), layers'[i].op = "deps"
       PROVE  Uniform(layers', i)
  <2>1. CASE x # "deps"
    <3>1. i \in 1..Len(layers) /\ layers[i].op = "deps"
      BY <1>10, <1>13, <2>1
    <3>2. Uniform(layers, i)
      BY <3>1 DEF ReuseInv, DepsInv
    <3>3. \A j \in 1..i : layers'[j] = layers[j]
      BY <1>8, <3>1
    <3> QED
      BY <3>2, <3>3 DEF Uniform
  <2>2. CASE x = "deps"
    <3>1. PICK v \in 0..MaxEdits : \A k \in 1..Len(layers) :
            layers[k].digest \subseteq (IF Left("config") \/ def.kind # "php" THEN {}
                                        ELSE {<<"dist", v>>})
      BY <1>2, <2>2 DEF ReuseInv, DepsInv
    <3>2. \A k \in 1..Len(new) : new[k].digest \subseteq {<<"manifest", versions["manifest"]>>}
      BY <1>1, <1>5, <2>2, DepsSteps
    <3>3. ASSUME NEW j \in 1..i, NEW b \in layers'[j].digest
          PROVE  \/ b = <<"manifest", versions["manifest"]>>
                 \/ b = <<"dist", v>> /\ def.kind = "php"
      <4>1. j \in 1..Len(layers')
        BY <1>8
      <4>2. CASE j \in 1..Len(layers) /\ layers'[j] = layers[j]
        BY <3>1, <3>3, <4>2
      <4>3. CASE j - Len(layers) \in 1..Len(new) /\ layers'[j] = new[j - Len(layers)]
        BY <3>2, <3>3, <4>3
      <4> QED
        BY <1>8, <4>1, <4>2, <4>3
    <3>4. \A j, k \in 1..i : \A b \in layers'[j].digest, c \in layers'[k].digest :
            b[1] \in {"manifest"} \cup (IF def.kind = "php" THEN {"dist"} ELSE {})
            /\ (b[1] = c[1] => b = c)
      <4> DEFINE one == <<"manifest", versions["manifest"]>>  two == <<"dist", v>>
      <4>1. one[1] = "manifest" /\ two[1] = "dist"
        OBVIOUS
      <4>2. \A j \in 1..i : \A b \in layers'[j].digest : b = one \/ (b = two /\ def.kind = "php")
        BY <3>3
      <4> HIDE DEF one, two
      <4> QED
        BY <4>1, <4>2
    <3> QED
      BY <1>1, <3>4 DEF Uniform, EarlyNames
  <2> QED
    BY <2>1, <2>2
<1>14. (\A i \in 1..Len(layers) : layers[i].op = "deps" => Uniform(layers, i))'
  <2>1. \A i : Uniform(layers, i)' <=> Uniform(layers', i)
    BY <1>1 DEF Uniform, EarlyNames
  <2> QED
    BY <1>13, <2>1
<1> QED
  BY <1>11, <1>12, <1>14 DEF DepsInv

LEMMA ReuseNext == OneOrder /\ ReuseInv /\ [Next]_vars => ReuseInv'
<1> SUFFICES ASSUME OneOrder, ReuseInv, [Next]_vars PROVE ReuseInv'
  OBVIOUS
<1>1. SameInv'
  BY SameNext DEF ReuseInv
<1> SUFFICES DepsInv'
  BY <1>1 DEF ReuseInv
<1>2. CASE Building
  BY <1>2, ReuseBuilding
<1>3. CASE Serving
  <2>1. TypeInv
    BY DEF ReuseInv, SameInv
  <2>2. def' = def /\ layers' = layers
    BY <1>3, <2>1, OneStep, ServingAdds DEF TypeInv, StepInv
  <2>3. ~ Left("deps")'
    <3>1. ~ Left("deps") /\ step # <<>> /\ def \in ADefinition /\ Suffix(step)
      BY <1>3, <2>1, SiteSteps, InputsTyped DEF TypeInv
    <3>2. ~ Has(Tail(step), "deps") /\ ~ Has(<<>>, "deps")
      BY <3>1, StepsLeft DEF Has
    <3>3. step' \in {Tail(step), <<>>}
      BY <1>3, <2>1, ServingAdds
    <3> QED
      BY <3>2, <3>3 DEF Left
  <2> QED
    BY <2>2, <2>3 DEF ReuseInv, DepsInv, Uniform, EarlyNames
<1>4. CASE (\E n \in Name : Edit(n)) \/ UNCHANGED vars
  <2>1. UNCHANGED <<def, step, layers>>
    BY <1>4 DEF Edit, vars, request
  <2> QED
    BY <2>1 DEF ReuseInv, DepsInv, Uniform, EarlyNames, Left
<1>5. CASE Again
  <2>1. layers' = <<>> /\ 1..Len(<<>>) = {} /\ 0 \in 0..MaxEdits
    BY <1>5, ImageAssumption DEF Again
  <2> QED
    BY <2>1 DEF DepsInv
<1> QED
  BY <1>2, <1>3, <1>4, <1>5 DEF Next, Building, Serving

\* A second build whose manifest, and for php whose configuration files, are those of
\* the first one has the same layers up to the one that installs dependencies, however
\* many sources are edited and whenever they are.
THEOREM DependenciesAreReused ==
  ASSUME OneOrder
  PROVE  Spec => []DepsReused
<1>1. Spec => []ReuseInv
  BY ReuseInit, ReuseNext, PTL DEF Spec
<1> QED
  BY <1>1, ReuseChecked, PTL
=============================================================================
